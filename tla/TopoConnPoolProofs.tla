-------------------------- MODULE TopoConnPoolProofs ---------------------------
(***************************************************************************)
(* Proofs about TopoConnPool, for any number of goroutines, endpoints and  *)
(* connections.                                                            *)
(*                                                                         *)
(* Why nobody is left with a closed connection: between get and the count  *)
(* of its reference a goroutine holds openMu for reading, which keeps the  *)
(* collector out; from then on the reference does.  So the invariant says  *)
(* who holds openMu, whom a reference count counts, and where the pool     *)
(* keeps every connection that is still open.                              *)
(***************************************************************************)
EXTENDS TopoConnPool, FiniteSetTheorems, TLAPS

Typed ==
  /\ TypeOK
  /\ user \in [Users -> [pc : {"out", "lock", "get", "ref", "wait", "using"},
                         params : Endpoints \cup {None}, conn : Conns \cup {None}]]
  /\ checker \in [Checkers -> [pc : {"out", "lock", "look", "read"},
                               params : Endpoints \cup {None}, conn : Conns \cup {None}]]
  /\ gcTodo \subseteq Endpoints /\ gcDead \subseteq Conns

\* Who has a connection at hand, and for which params.
Pointing ==
  /\ \A u \in Users : /\ user[u].pc \in {"ref", "wait", "using"} <=> user[u].conn # None
                      /\ user[u].pc # "out" => user[u].params # None
  /\ \A k \in Checkers : /\ checker[k].pc = "read" <=> checker[k].conn # None
                         /\ checker[k].pc # "out" => checker[k].params # None

\* Who holds openMu; the collector's lists are about what is there.
Locking ==
  /\ \A u \in Users : user[u].pc \in {"get", "ref", "wait"} => u \in readers
  /\ \A k \in Checkers : checker[k].pc \in {"look", "read"} => k \in readers
  /\ writer = "held" => readers = {}
  /\ writer # "held" => gcTodo = {} /\ gcDead = {}
  /\ \A p \in gcTodo : conns[p] # None
  /\ gcDead \subseteq deadConns

\* The goroutines that owe a decrement of the reference count.
Holders(c) == {u \in Users : user[u].conn = c /\ user[u].pc \in {"wait", "using"}}

Counting ==
  \A c \in Conns : IsFiniteSet(Holders(c)) /\ refCount[c] = Cardinality(Holders(c))

\* Where connections are, and whom they serve.
Living ==
  /\ NoUseAfterClose
  /\ CacheIsUsable
  /\ \A c \in Conns :
       /\ c \in deadConns => state[c] = "up" /\ \A p \in Endpoints : conns[p] # c
       /\ state[c] \in {"connecting", "up"} => c \in deadConns \/ \E p \in Endpoints : conns[p] = c

Inv == Typed /\ Pointing /\ Locking /\ Counting /\ Living

-----------------------------------------------------------------------------
(* The beginning *)

\* An empty pool satisfies the invariant.
LEMMA InitInv == Init => Inv
<1> SUFFICES ASSUME Init PROVE Inv
  OBVIOUS
<1> USE ConnPoolAssumption DEF Init, Out
<1>1. Typed
  BY DEF Typed, TypeOK
<1>2. Pointing /\ Locking
  BY DEF Pointing, Locking
<1>3. Counting
  <2>1. \A c \in Conns : Holders(c) = {}
    BY DEF Holders
  <2> QED BY <2>1, FS_EmptySet DEF Counting
<1>4. Living
  BY DEF Living, NoUseAfterClose, CacheIsUsable
<1> QED BY <1>1, <1>2, <1>3, <1>4 DEF Inv

-----------------------------------------------------------------------------
(* Reference counts *)

\* u owes a decrement after the step as before, or neither.
SameRef(u) ==
  \/ user'[u] = user[u]
  \/ user[u].pc \notin {"wait", "using"} /\ user'[u].pc \notin {"wait", "using"}
  \/ /\ user[u].pc \in {"wait", "using"} /\ user'[u].pc \in {"wait", "using"}
     /\ user'[u].conn = user[u].conn

\* Whoever takes no reference and gives none back changes no count.
LEMMA CountsStay ==
  ASSUME Counting, refCount' = refCount,
         \A u \in Users : SameRef(u)
  PROVE  Counting'
<1>1. \A c \in Conns : Holders(c)' = Holders(c)
  BY DEF Holders, SameRef
<1> QED BY <1>1 DEF Counting

\* Counting one more reference.
LEMMA CountUp ==
  ASSUME Typed, Counting, NEW u \in Users, NEW c \in Conns,
         user[u].conn = c, user[u].pc = "ref",
         user' = [user EXCEPT ![u].pc = "wait"],
         refCount' = [refCount EXCEPT ![c] = @ + 1]
  PROVE  Counting' /\ refCount' \in [Conns -> Nat]
<1>0. refCount \in [Conns -> Nat] /\ DOMAIN user = Users
      /\ user'[u].pc = "wait" /\ user'[u].conn = c
      /\ \A v \in Users \ {u} : user'[v] = user[v]
  BY DEF Typed, TypeOK
<1>1. Holders(c)' = Holders(c) \cup {u} /\ u \notin Holders(c)
  BY <1>0 DEF Holders
<1>2. \A d \in Conns \ {c} : Holders(d)' = Holders(d)
  BY <1>0 DEF Holders
<1>3. IsFiniteSet(Holders(c)') /\ Cardinality(Holders(c)') = Cardinality(Holders(c)) + 1
  BY <1>1, FS_AddElement DEF Counting
<1> QED BY <1>0, <1>2, <1>3 DEF Counting

\* Giving a reference back.
LEMMA CountDown ==
  ASSUME Typed, Counting, NEW u \in Users, NEW c \in Conns,
         user[u].conn = c, user[u].pc \in {"wait", "using"},
         user' = [user EXCEPT ![u] = Out],
         refCount' = [refCount EXCEPT ![c] = @ - 1]
  PROVE  Counting' /\ refCount' \in [Conns -> Nat]
<1>0. refCount \in [Conns -> Nat] /\ user'[u].pc = "out"
      /\ \A v \in Users \ {u} : user'[v] = user[v]
  BY DEF Typed, TypeOK, Out
<1>1. Holders(c)' = Holders(c) \ {u} /\ u \in Holders(c)
  BY <1>0 DEF Holders
<1>2. \A d \in Conns \ {c} : Holders(d)' = Holders(d)
  BY <1>0 DEF Holders
<1>3. IsFiniteSet(Holders(c)) /\ refCount[c] = Cardinality(Holders(c)) /\ refCount[c] \in Nat
  BY <1>0 DEF Counting
<1>4. IsFiniteSet(Holders(c)') /\ Cardinality(Holders(c)') = Cardinality(Holders(c)) - 1
  BY <1>1, <1>3, FS_RemoveElement
<1>5. refCount[c] # 0
  BY <1>1, <1>3, FS_EmptySet
<1>6. /\ refCount' \in [Conns -> Nat] /\ refCount'[c] = refCount[c] - 1
      /\ \A d \in Conns \ {c} : refCount'[d] = refCount[d]
  BY <1>0, <1>3, <1>5
<1> QED BY <1>2, <1>3, <1>4, <1>6 DEF Counting

\* A connection somebody has a reference to is not collected.
LEMMA HeldIsCounted ==
  ASSUME Typed, Counting, NEW u \in Users, user[u].pc \in {"wait", "using"},
         user[u].conn \in Conns
  PROVE  refCount[user[u].conn] > 0
<1>1. u \in Holders(user[u].conn)
  BY DEF Holders
<1>2. refCount[user[u].conn] = Cardinality(Holders(user[u].conn)) /\ refCount[user[u].conn] \in Nat
      /\ IsFiniteSet(Holders(user[u].conn))
  BY DEF Counting, Typed, TypeOK
<1> QED BY <1>1, <1>2, FS_EmptySet

-----------------------------------------------------------------------------
(* What a step of one goroutine leaves alone *)

UserRecord ==
  [pc : {"out", "lock", "get", "ref", "wait", "using"},
   params : Endpoints \cup {None}, conn : Conns \cup {None}]

CheckerRecord ==
  [pc : {"out", "lock", "look", "read"},
   params : Endpoints \cup {None}, conn : Conns \cup {None}]

\* A user that moves to another point of Open keeps what it has at hand.
LEMMA UserMoves ==
  ASSUME Typed, NEW u \in Users, NEW s \in {"out", "lock", "get", "ref", "wait", "using"},
         user' = [user EXCEPT ![u].pc = s]
  PROVE  /\ user' \in [Users -> UserRecord]
         /\ user'[u].pc = s /\ user'[u].params = user[u].params /\ user'[u].conn = user[u].conn
         /\ \A v \in Users \ {u} : user'[v] = user[v]
<1>1. user \in [Users -> UserRecord]
  BY DEF Typed, UserRecord
<1>2. user'[u] = [user[u] EXCEPT !.pc = s] /\ \A v \in Users \ {u} : user'[v] = user[v]
      /\ user' = [user EXCEPT ![u] = user'[u]]
  BY <1>1
<1>3. user[u] \in UserRecord
  BY <1>1
<1>4. user'[u] \in UserRecord
      /\ user'[u].pc = s /\ user'[u].params = user[u].params /\ user'[u].conn = user[u].conn
  BY <1>2, <1>3 DEF UserRecord
<1> QED BY <1>1, <1>2, <1>4

\* A user that takes or replaces what it has at hand.
LEMMA UserBecomes ==
  ASSUME Typed, NEW u \in Users, NEW r \in UserRecord,
         user' = [user EXCEPT ![u] = r]
  PROVE  /\ user' \in [Users -> UserRecord] /\ user'[u] = r
         /\ \A v \in Users \ {u} : user'[v] = user[v]
BY DEF Typed, UserRecord

\* The user that get answers.
LEMMA UserGets ==
  ASSUME Typed, NEW u \in Users, NEW c \in Conns,
         user' = [user EXCEPT ![u].pc = "ref", ![u].conn = c]
  PROVE  /\ user' \in [Users -> UserRecord]
         /\ user'[u].pc = "ref" /\ user'[u].params = user[u].params /\ user'[u].conn = c
         /\ \A v \in Users \ {u} : user'[v] = user[v]
<1> DEFINE m == [user EXCEPT ![u].pc = "ref"]
<1>1. user \in [Users -> UserRecord] /\ user[u] \in UserRecord
  BY DEF Typed, UserRecord
<1>2. user' = [m EXCEPT ![u].conn = c]
  OBVIOUS
<1>3. m = [user EXCEPT ![u] = m[u]] /\ m[u] = [user[u] EXCEPT !.pc = "ref"]
  BY <1>1
<1>4. /\ m[u] \in UserRecord /\ m[u].pc = "ref" /\ m[u].params = user[u].params
      /\ m \in [Users -> UserRecord] /\ \A v \in Users \ {u} : m[v] = user[v]
  BY <1>1, <1>3 DEF UserRecord
<1> HIDE DEF m
<1>5. /\ user' = [m EXCEPT ![u] = user'[u]] /\ user'[u] = [m[u] EXCEPT !.conn = c]
      /\ \A v \in Users \ {u} : user'[v] = m[v]
  BY <1>2, <1>4
<1>6. /\ user'[u] \in UserRecord /\ user'[u].pc = "ref"
      /\ user'[u].params = user[u].params /\ user'[u].conn = c
  BY <1>4, <1>5 DEF UserRecord
<1> QED BY <1>4, <1>5, <1>6

\* The same for a goroutine of checkConn.
LEMMA CheckerBecomes ==
  ASSUME Typed, NEW k \in Checkers, NEW r \in CheckerRecord,
         checker' = [checker EXCEPT ![k] = r]
  PROVE  /\ checker' \in [Checkers -> CheckerRecord] /\ checker'[k] = r
         /\ \A v \in Checkers \ {k} : checker'[v] = checker[v]
BY DEF Typed, CheckerRecord

LEMMA CheckerMoves ==
  ASSUME Typed, NEW k \in Checkers, NEW s \in {"out", "lock", "look", "read"},
         checker' = [checker EXCEPT ![k].pc = s]
  PROVE  /\ checker' \in [Checkers -> CheckerRecord]
         /\ checker'[k].pc = s /\ checker'[k].params = checker[k].params
         /\ checker'[k].conn = checker[k].conn
         /\ \A v \in Checkers \ {k} : checker'[v] = checker[v]
<1>1. checker \in [Checkers -> CheckerRecord]
  BY DEF Typed, CheckerRecord
<1>2. checker'[k] = [checker[k] EXCEPT !.pc = s] /\ \A v \in Checkers \ {k} : checker'[v] = checker[v]
      /\ checker' = [checker EXCEPT ![k] = checker'[k]]
  BY <1>1
<1>3. checker[k] \in CheckerRecord
  BY <1>1
<1>4. checker'[k] \in CheckerRecord
      /\ checker'[k].pc = s /\ checker'[k].params = checker[k].params
      /\ checker'[k].conn = checker[k].conn
  BY <1>2, <1>3 DEF CheckerRecord
<1> QED BY <1>1, <1>2, <1>4

LEMMA CheckerReads ==
  ASSUME Typed, NEW k \in Checkers, NEW c \in Conns,
         checker' = [checker EXCEPT ![k].pc = "read", ![k].conn = c]
  PROVE  /\ checker' \in [Checkers -> CheckerRecord]
         /\ checker'[k].pc = "read" /\ checker'[k].params = checker[k].params
         /\ checker'[k].conn = c
         /\ \A v \in Checkers \ {k} : checker'[v] = checker[v]
<1> DEFINE m == [checker EXCEPT ![k].pc = "read"]
<1>1. checker \in [Checkers -> CheckerRecord] /\ checker[k] \in CheckerRecord
  BY DEF Typed, CheckerRecord
<1>2. checker' = [m EXCEPT ![k].conn = c]
  OBVIOUS
<1>3. m = [checker EXCEPT ![k] = m[k]] /\ m[k] = [checker[k] EXCEPT !.pc = "read"]
  BY <1>1
<1>4. /\ m[k] \in CheckerRecord /\ m[k].pc = "read" /\ m[k].params = checker[k].params
      /\ m \in [Checkers -> CheckerRecord] /\ \A v \in Checkers \ {k} : m[v] = checker[v]
  BY <1>1, <1>3 DEF CheckerRecord
<1> HIDE DEF m
<1>5. /\ checker' = [m EXCEPT ![k] = checker'[k]] /\ checker'[k] = [m[k] EXCEPT !.conn = c]
      /\ \A v \in Checkers \ {k} : checker'[v] = m[v]
  BY <1>2, <1>4
<1>6. /\ checker'[k] \in CheckerRecord /\ checker'[k].pc = "read"
      /\ checker'[k].params = checker[k].params /\ checker'[k].conn = c
  BY <1>4, <1>5 DEF CheckerRecord
<1> QED BY <1>4, <1>5, <1>6

\* While a goroutine holds openMu for reading the collector does nothing.
LEMMA ReadersKeepCollectorOut ==
  ASSUME Locking, NEW g \in readers
  PROVE  writer # "held" /\ gcTodo = {} /\ gcDead = {}
BY DEF Locking

\* A cached connection is cached under its own params only.
LEMMA CachedOnce ==
  ASSUME CacheIsUsable, None \notin Conns, NEW p \in Endpoints, NEW q \in Endpoints,
         conns[p] = conns[q], conns[p] # None
  PROVE  p = q
BY DEF CacheIsUsable

-----------------------------------------------------------------------------
(* Open and Close, one lemma for each step *)

\* A caller begins.
LEMMA OpenStep ==
  ASSUME Inv, NEW u \in Users, NEW p \in Endpoints, Open(u, p)
  PROVE  Inv'
<1> USE ConnPoolAssumption
<1> DEFINE r == [pc |-> "lock", params |-> p, conn |-> None]
<1>1. /\ user[u].pc = "out" /\ user' = [user EXCEPT ![u] = r]
      /\ UNCHANGED <<connVars, poolVars, lockVars, gcVars, checker>>
  BY DEF Open
<1>2. /\ user' \in [Users -> UserRecord] /\ user'[u] = r
      /\ \A v \in Users \ {u} : user'[v] = user[v]
  <2>1. r \in UserRecord
    BY DEF UserRecord
  <2> QED BY <1>1, <2>1, UserBecomes DEF Inv
<1>3. user'[u].pc = "lock" /\ user'[u].params = p /\ user'[u].conn = None
  BY <1>2
<1> HIDE DEF r
<1> USE DEF connVars, poolVars, lockVars, gcVars
<1>4. Typed'
  BY <1>1, <1>2, <1>3 DEF Inv, Typed, TypeOK, UserRecord
<1>5. Pointing' /\ Locking'
  BY <1>1, <1>2, <1>3 DEF Inv, Pointing, Locking
<1>6. Counting'
  <2>1. \A v \in Users : SameRef(v)
    BY <1>1, <1>2, <1>3 DEF SameRef
  <2>2. Counting /\ refCount' = refCount
    BY <1>1 DEF Inv
  <2> QED BY <2>1, <2>2, CountsStay
<1>7. Living'
  BY <1>1, <1>2, <1>3 DEF Inv, Living, NoUseAfterClose, CacheIsUsable
<1> QED BY <1>4, <1>5, <1>6, <1>7 DEF Inv

\* openMu for reading: no collector runs.
LEMMA OpenRLockStep ==
  ASSUME Inv, NEW u \in Users, OpenRLock(u)
  PROVE  Inv'
<1> USE ConnPoolAssumption
<1>1. /\ user[u].pc = "lock" /\ writer = "none" /\ user' = [user EXCEPT ![u].pc = "get"]
      /\ readers' = readers \cup {u}
      /\ UNCHANGED <<connVars, poolVars, writer, gcVars, checker>>
  BY DEF OpenRLock, RLock
<1>2. /\ user' \in [Users -> UserRecord]
      /\ user'[u].pc = "get" /\ user'[u].params = user[u].params /\ user'[u].conn = user[u].conn
      /\ \A v \in Users \ {u} : user'[v] = user[v]
  BY <1>1, UserMoves DEF Inv
<1> USE DEF connVars, poolVars, gcVars
<1>4. Typed'
  BY <1>1, <1>2 DEF Inv, Typed, TypeOK, UserRecord
<1>5. Pointing'
  BY <1>1, <1>2 DEF Inv, Pointing
<1>6. Locking'
  BY <1>1, <1>2 DEF Inv, Locking
<1>7. Counting'
  <2>1. \A v \in Users : SameRef(v)
    BY <1>1, <1>2 DEF SameRef
  <2>2. Counting /\ refCount' = refCount
    BY <1>1 DEF Inv
  <2> QED BY <2>1, <2>2, CountsStay
<1>8. Living'
  BY <1>1, <1>2 DEF Inv, Living, NoUseAfterClose, CacheIsUsable
<1> QED BY <1>4, <1>5, <1>6, <1>7, <1>8 DEF Inv

\* get finds a connection: it is open, and cached under the caller's params.
LEMMA GetCachedStep ==
  ASSUME Inv, NEW u \in Users, GetCached(u)
  PROVE  Inv'
<1> USE ConnPoolAssumption
<1> DEFINE p == user[u].params
           c == conns[p]
<1>0. /\ user[u].pc = "get" /\ c # None
      /\ user' = [user EXCEPT ![u].pc = "ref", ![u].conn = c]
      /\ UNCHANGED <<connVars, poolVars, lockVars, gcVars>>
      /\ \/ UNCHANGED checker
         \/ \E k \in Checkers : /\ checker[k] = Out
                                /\ checker' = [checker EXCEPT ![k] =
                                     [pc |-> "lock", params |-> p, conn |-> None]]
  BY DEF GetCached
<1>1. p \in Endpoints /\ c \in Conns
  BY <1>0 DEF Inv, Typed, TypeOK, Pointing
<1>2. /\ user' \in [Users -> UserRecord]
      /\ user'[u].pc = "ref" /\ user'[u].params = p /\ user'[u].conn = c
      /\ \A v \in Users \ {u} : user'[v] = user[v]
  BY <1>0, <1>1, UserGets DEF Inv
<1> DEFINE Checking ==
      /\ checker' \in [Checkers -> CheckerRecord]
      /\ \A k \in Checkers :
           \/ checker'[k] = checker[k]
           \/ checker'[k].pc = "lock" /\ checker'[k].params = p /\ checker'[k].conn = None
<1>3. Checking
  <2>1. ASSUME checker' = checker PROVE Checking
    BY <2>1 DEF Inv, Typed, CheckerRecord
  <2>2. ASSUME NEW k \in Checkers, checker[k] = Out,
               checker' = [checker EXCEPT ![k] = [pc |-> "lock", params |-> p, conn |-> None]]
        PROVE  Checking
    <3> DEFINE r == [pc |-> "lock", params |-> p, conn |-> None]
    <3>1. r \in CheckerRecord
      BY <1>1 DEF CheckerRecord
    <3>2. checker' \in [Checkers -> CheckerRecord] /\ checker'[k] = r
          /\ \A v \in Checkers \ {k} : checker'[v] = checker[v]
      <4> HIDE DEF r
      <4>1. checker' = [checker EXCEPT ![k] = r]
        BY <2>2 DEF r
      <4> QED BY <3>1, <4>1, CheckerBecomes DEF Inv
    <3> QED BY <3>2
  <2> HIDE DEF Checking
  <2> QED BY <1>0, <2>1, <2>2
<1>4. state[c] \in {"connecting", "up", "failed"}
  BY <1>0, <1>1 DEF Inv, Living, CacheIsUsable
<1> USE DEF connVars, poolVars, lockVars, gcVars
<1>5. Typed'
  BY <1>0, <1>2, <1>3 DEF Inv, Typed, TypeOK, UserRecord, CheckerRecord
<1> HIDE DEF p, c
<1>6. Pointing'
  BY <1>0, <1>1, <1>2, <1>3 DEF Inv, Pointing
<1>7. Locking'
  BY <1>0, <1>2, <1>3 DEF Inv, Locking
<1>8. Counting'
  <2>1. \A v \in Users : SameRef(v)
    BY <1>0, <1>2 DEF SameRef
  <2>2. Counting /\ refCount' = refCount
    BY <1>0 DEF Inv
  <2> QED BY <2>1, <2>2, CountsStay
<1>9. Living'
  BY <1>0, <1>2, <1>3, <1>4 DEF Inv, Living, NoUseAfterClose, CacheIsUsable
<1> QED BY <1>5, <1>6, <1>7, <1>8, <1>9 DEF Inv

\* get starts an attempt on an object nobody else points to.
LEMMA GetNewStep ==
  ASSUME Inv, NEW u \in Users, GetNew(u)
  PROVE  Inv'
<1> USE ConnPoolAssumption
<1>0. PICK p \in Endpoints, c \in Conns :
        /\ p = user[u].params
        /\ user[u].pc = "get"
        /\ conns[p] # None => state[conns[p]] = "failed"
        /\ Unreachable(c)
        /\ user' = [user EXCEPT ![u].pc = "ref", ![u].conn = c]
        /\ conns' = [conns EXCEPT ![p] = c]
        /\ state' = [state EXCEPT ![c] = "connecting"]
        /\ refCount' = [refCount EXCEPT ![c] = 0]
        /\ endpoint' = [endpoint EXCEPT ![c] = p]
        /\ idle' = idle \ {c} /\ due' = due \ {c}
        /\ UNCHANGED <<deadConns, lockVars, gcVars, checker>>
  <2> DEFINE ch == CHOOSE d \in Conns : Unreachable(d)
  <2>1. user[u].params \in Endpoints
    BY DEF Inv, Typed, TypeOK, Pointing, GetNew
  <2>2. ch \in Conns /\ Unreachable(ch)
    BY DEF GetNew
  <2> QED BY <2>1, <2>2 DEF GetNew
<1>1. p \in Endpoints
  OBVIOUS
<1>2. c \in Conns /\ Unreachable(c)
  BY <1>0
<1>3. /\ user' \in [Users -> UserRecord]
      /\ user'[u].pc = "ref" /\ user'[u].params = p /\ user'[u].conn = c
      /\ \A v \in Users \ {u} : user'[v] = user[v]
  BY <1>0, <1>2, UserGets DEF Inv
<1>4. /\ conns \in [Endpoints -> Conns \cup {None}] /\ refCount \in [Conns -> Nat]
      /\ state \in [Conns -> {"connecting", "up", "failed", "closed"}]
      /\ endpoint \in [Conns -> Endpoints \cup {None}]
  BY DEF Inv, Typed, TypeOK
<1>5. /\ conns'[p] = c /\ \A q \in Endpoints \ {p} : conns'[q] = conns[q]
      /\ state'[c] = "connecting" /\ \A d \in Conns \ {c} : state'[d] = state[d]
      /\ refCount'[c] = 0 /\ \A d \in Conns \ {c} : refCount'[d] = refCount[d]
      /\ endpoint'[c] = p /\ \A d \in Conns \ {c} : endpoint'[d] = endpoint[d]
  BY <1>0, <1>1, <1>2, <1>4
<1>6. Typed'
  <2>1. /\ conns' \in [Endpoints -> Conns \cup {None}] /\ refCount' \in [Conns -> Nat]
        /\ state' \in [Conns -> {"connecting", "up", "failed", "closed"}]
        /\ endpoint' \in [Conns -> Endpoints \cup {None}]
    BY <1>0, <1>1, <1>2, <1>4
  <2> QED BY <1>0, <1>3, <2>1 DEF Inv, Typed, TypeOK, UserRecord, lockVars, gcVars
<1>7. Pointing'
  BY <1>0, <1>1, <1>2, <1>3 DEF Inv, Pointing
<1>8. u \in readers /\ writer # "held" /\ gcTodo = {} /\ gcDead = {}
  BY <1>0 DEF Inv, Locking
<1>9. Locking'
  BY <1>0, <1>3, <1>8 DEF Inv, Locking, lockVars, gcVars
<1>10. Counting'
  <2>1. Holders(c)' = {}
    <3>1. \A v \in Users \ {u} : user'[v].conn # c
      BY <1>2, <1>3 DEF Unreachable
    <3> QED BY <1>3, <3>1 DEF Holders
  <2>2. \A d \in Conns \ {c} : Holders(d)' = Holders(d)
    BY <1>0, <1>3 DEF Holders
  <2>3. IsFiniteSet(Holders(c)') /\ refCount'[c] = Cardinality(Holders(c)')
    BY <1>5, <2>1, FS_EmptySet
  <2>4. \A d \in Conns : IsFiniteSet(Holders(d)) /\ refCount[d] = Cardinality(Holders(d))
    BY DEF Inv, Counting
  <2>5. \A d \in Conns : IsFiniteSet(Holders(d)') /\ refCount'[d] = Cardinality(Holders(d)')
    BY <1>5, <2>2, <2>3, <2>4
  <2> QED BY <2>5 DEF Counting
<1>11. Living'
  <2>1. NoUseAfterClose'
    <3>1. \A v \in Users \ {u} : user[v].conn # c
      BY <1>2 DEF Unreachable
    <3>2. \A k \in Checkers : checker[k].conn # c
      BY <1>2 DEF Unreachable
    <3>3. /\ \A v \in Users : user[v].pc \in {"ref", "wait", "using"} => user[v].conn \in Conns
          /\ \A k \in Checkers : checker[k].pc = "read" => checker[k].conn \in Conns
      BY DEF Inv, Typed, Pointing
    <3> QED BY <1>0, <1>3, <1>5, <3>1, <3>2, <3>3 DEF Inv, Living, NoUseAfterClose
  <2>2. CacheIsUsable'
    BY <1>1, <1>2, <1>4, <1>5 DEF Inv, Living, CacheIsUsable, Unreachable
  <2>3. \A d \in Conns :
          /\ d \in deadConns' => state'[d] = "up" /\ \A q \in Endpoints : conns'[q] # d
          /\ state'[d] \in {"connecting", "up"} =>
               d \in deadConns' \/ \E q \in Endpoints : conns'[q] = d
    <3> SUFFICES ASSUME NEW d \in Conns
                 PROVE  /\ d \in deadConns => state'[d] = "up" /\ \A q \in Endpoints : conns'[q] # d
                        /\ state'[d] \in {"connecting", "up"} =>
                             d \in deadConns \/ \E q \in Endpoints : conns'[q] = d
      BY <1>0
    <3>1. CASE d = c
      BY <1>1, <1>2, <1>5, <3>1 DEF Unreachable
    <3>2. CASE d # c
      <4>1. state'[d] = state[d]
        BY <1>5, <3>2
      <4>2. conns[p] = d => state[d] = "failed"
        BY <1>0
      <4>3. d \in deadConns => state[d] = "up" /\ \A q \in Endpoints : conns[q] # d
        BY DEF Inv, Living
      <4>4. state[d] \in {"connecting", "up"} => d \in deadConns \/ \E q \in Endpoints : conns[q] = d
        BY DEF Inv, Living
      <4> QED BY <1>5, <3>2, <4>1, <4>2, <4>3, <4>4
    <3> QED BY <3>1, <3>2
  <2> QED BY <2>1, <2>2, <2>3 DEF Living
<1> QED BY <1>6, <1>7, <1>9, <1>10, <1>11 DEF Inv

\* open counts the reference while openMu is still held.
LEMMA OpenRefStep ==
  ASSUME Inv, NEW u \in Users, OpenRef(u)
  PROVE  Inv'
<1> USE ConnPoolAssumption
<1>0. PICK c \in Conns :
        /\ c = user[u].conn /\ user[u].pc = "ref"
        /\ user' = [user EXCEPT ![u].pc = "wait"]
        /\ refCount' = [refCount EXCEPT ![c] = @ + 1]
        /\ idle' = idle \ {c}
        /\ UNCHANGED <<state, endpoint, due, poolVars, lockVars, gcVars, checker>>
  <2>1. user[u].conn \in Conns
    BY DEF Inv, Typed, Pointing, OpenRef
  <2> QED BY <2>1 DEF OpenRef
<1>1. /\ user' \in [Users -> UserRecord]
      /\ user'[u].pc = "wait" /\ user'[u].params = user[u].params /\ user'[u].conn = c
      /\ \A v \in Users \ {u} : user'[v] = user[v]
  BY <1>0, UserMoves DEF Inv
<1>2. Counting' /\ refCount' \in [Conns -> Nat]
  BY <1>0, CountUp DEF Inv
<1> USE DEF poolVars, lockVars, gcVars
<1>3. Typed'
  BY <1>0, <1>1, <1>2 DEF Inv, Typed, TypeOK, UserRecord
<1>4. Pointing' /\ Locking'
  BY <1>0, <1>1 DEF Inv, Pointing, Locking
<1>5. Living'
  BY <1>0, <1>1 DEF Inv, Living, NoUseAfterClose, CacheIsUsable
<1> QED BY <1>2, <1>3, <1>4, <1>5 DEF Inv

\* The connection is up: openMu is released, the reference stays.
LEMMA OpenSucceedsStep ==
  ASSUME Inv, NEW u \in Users, OpenSucceeds(u)
  PROVE  Inv'
<1> USE ConnPoolAssumption
<1>0. /\ user[u].pc = "wait" /\ state[user[u].conn] = "up"
      /\ user' = [user EXCEPT ![u].pc = "using"]
      /\ readers' = readers \ {u}
      /\ UNCHANGED <<connVars, poolVars, writer, gcVars, checker>>
  BY DEF OpenSucceeds, RUnlock
<1>1. /\ user' \in [Users -> UserRecord]
      /\ user'[u].pc = "using" /\ user'[u].params = user[u].params /\ user'[u].conn = user[u].conn
      /\ \A v \in Users \ {u} : user'[v] = user[v]
  BY <1>0, UserMoves DEF Inv
<1> USE DEF connVars, poolVars, gcVars
<1>3. Typed'
  BY <1>0, <1>1 DEF Inv, Typed, TypeOK, UserRecord
<1>4. Pointing' /\ Locking'
  BY <1>0, <1>1 DEF Inv, Pointing, Locking
<1>5. Counting'
  <2>1. \A v \in Users : SameRef(v)
    BY <1>0, <1>1 DEF SameRef
  <2>2. Counting /\ refCount' = refCount
    BY <1>0 DEF Inv
  <2> QED BY <2>1, <2>2, CountsStay
<1>6. Living'
  BY <1>0, <1>1 DEF Inv, Living, NoUseAfterClose, CacheIsUsable
<1> QED BY <1>3, <1>4, <1>5, <1>6 DEF Inv

\* Open fails or the caller closes: the reference is given back.
LEMMA GiveBackStep ==
  ASSUME Inv, NEW u \in Users, OpenFails(u) \/ Close(u)
  PROVE  Inv'
<1> USE ConnPoolAssumption
<1>0. PICK c \in Conns :
        /\ c = user[u].conn /\ user[u].pc \in {"wait", "using"}
        /\ user' = [user EXCEPT ![u] = Out]
        /\ refCount' = [refCount EXCEPT ![c] = @ - 1]
        /\ \/ readers' = readers
           \/ readers' = readers \ {u}
        /\ UNCHANGED <<state, endpoint, idle, due, poolVars, writer, gcVars, checker>>
  <2>1. user[u].conn \in Conns
    BY DEF Inv, Typed, Pointing, OpenFails, Close
  <2>2. CASE OpenFails(u)
    BY <2>1, <2>2 DEF OpenFails, RUnlock
  <2>3. CASE Close(u)
    BY <2>1, <2>3 DEF Close, lockVars
  <2> QED BY <2>2, <2>3
<1>1. /\ user' \in [Users -> UserRecord]
      /\ user'[u].pc = "out" /\ user'[u].params = None /\ user'[u].conn = None
      /\ \A v \in Users \ {u} : user'[v] = user[v]
  <2>1. Out \in UserRecord /\ Out.pc = "out" /\ Out.params = None /\ Out.conn = None
    BY DEF Out, UserRecord
  <2> QED BY <1>0, <2>1, UserBecomes DEF Inv
<1>2. Counting' /\ refCount' \in [Conns -> Nat]
  BY <1>0, CountDown DEF Inv
<1> USE DEF poolVars, gcVars
<1>3. Typed'
  BY <1>0, <1>1, <1>2 DEF Inv, Typed, TypeOK, UserRecord
<1>4. Pointing' /\ Locking'
  BY <1>0, <1>1 DEF Inv, Pointing, Locking
<1>5. Living'
  BY <1>0, <1>1 DEF Inv, Living, NoUseAfterClose, CacheIsUsable
<1> QED BY <1>2, <1>3, <1>4, <1>5 DEF Inv

-----------------------------------------------------------------------------
(* The attempt to connect and the clock *)

\* The attempt ends, or a connection becomes idle or due for a check.
LEMMA ConnStep ==
  ASSUME Inv, NEW c \in Conns, ConnectDone(c) \/ BecomeIdle(c) \/ BecomeDue(c)
  PROVE  Inv'
<1> USE ConnPoolAssumption
<1>0. /\ UNCHANGED <<refCount, endpoint, poolVars, lockVars, gcVars, user, checker>>
      /\ idle' \subseteq Conns /\ due' \subseteq Conns
      /\ \/ state' = state
         \/ /\ state[c] = "connecting"
            /\ \E result \in {"up", "failed"} : state' = [state EXCEPT ![c] = result]
  BY DEF ConnectDone, BecomeIdle, BecomeDue, Inv, Typed, TypeOK
<1>1. /\ state' \in [Conns -> {"connecting", "up", "failed", "closed"}]
      /\ \A d \in Conns :
           \/ state'[d] = state[d]
           \/ state[d] = "connecting" /\ state'[d] \in {"up", "failed"}
  BY <1>0 DEF Inv, Typed, TypeOK
<1> USE DEF poolVars, lockVars, gcVars
<1>2. Typed'
  BY <1>0, <1>1 DEF Inv, Typed, TypeOK
<1>3. Pointing' /\ Locking'
  BY <1>0 DEF Inv, Pointing, Locking
<1>4. Counting'
  <2>1. \A v \in Users : SameRef(v)
    BY <1>0 DEF SameRef
  <2>2. Counting /\ refCount' = refCount
    BY <1>0 DEF Inv
  <2> QED BY <2>1, <2>2, CountsStay
<1>5. Living'
  <2>1. /\ \A v \in Users : user[v].pc \in {"ref", "wait", "using"} => user[v].conn \in Conns
        /\ \A k \in Checkers : checker[k].pc = "read" => checker[k].conn \in Conns
    BY DEF Inv, Typed, Pointing
  <2>2. NoUseAfterClose'
    BY <1>0, <1>1, <2>1 DEF Inv, Living, NoUseAfterClose
  <2>3. \A p \in Endpoints : conns[p] # None => conns[p] \in Conns
    BY DEF Inv, Typed, TypeOK
  <2>4. CacheIsUsable'
    BY <1>0, <1>1, <2>3 DEF Inv, Living, CacheIsUsable
  <2> QED BY <1>0, <1>1, <2>2, <2>4 DEF Inv, Living
<1> QED BY <1>2, <1>3, <1>4, <1>5 DEF Inv

-----------------------------------------------------------------------------
(* checkConn *)

\* A check starts, returns, or finds the connection alive: nothing moves.
LEMMA CheckerStepsAside ==
  ASSUME Inv, NEW k \in Checkers,
         CheckRLock(k) \/ CheckNothing(k) \/ CheckPasses(k)
  PROVE  Inv'
<1> USE ConnPoolAssumption
<1>0. /\ UNCHANGED <<connVars, poolVars, writer, gcVars, user>>
      /\ \/ /\ checker[k].pc = "lock" /\ writer = "none"
            /\ checker' = [checker EXCEPT ![k].pc = "look"] /\ readers' = readers \cup {k}
         \/ checker' = [checker EXCEPT ![k] = Out] /\ readers' = readers \ {k}
  BY DEF CheckRLock, CheckNothing, CheckPasses, CheckEnds, RLock, RUnlock
<1>1. /\ checker' \in [Checkers -> CheckerRecord]
      /\ \A j \in Checkers \ {k} : checker'[j] = checker[j]
      /\ \/ /\ checker'[k].pc = "look" /\ writer = "none" /\ checker[k].pc = "lock"
            /\ checker'[k].params = checker[k].params /\ checker'[k].conn = checker[k].conn
            /\ readers' = readers \cup {k}
         \/ /\ checker'[k].pc = "out" /\ checker'[k].conn = None
            /\ readers' = readers \ {k}
  <2>1. CASE /\ checker[k].pc = "lock" /\ writer = "none"
             /\ checker' = [checker EXCEPT ![k].pc = "look"] /\ readers' = readers \cup {k}
    BY <2>1, CheckerMoves DEF Inv
  <2>2. CASE checker' = [checker EXCEPT ![k] = Out] /\ readers' = readers \ {k}
    <3>1. Out \in CheckerRecord /\ Out.pc = "out" /\ Out.conn = None
      BY DEF Out, CheckerRecord
    <3> QED BY <2>2, <3>1, CheckerBecomes DEF Inv
  <2> QED BY <1>0, <2>1, <2>2
<1> USE DEF connVars, poolVars, gcVars
<1>2. Typed'
  BY <1>0, <1>1 DEF Inv, Typed, TypeOK, CheckerRecord
<1>3. Pointing' /\ Locking'
  BY <1>0, <1>1 DEF Inv, Pointing, Locking
<1>4. Counting'
  <2>1. \A v \in Users : SameRef(v)
    BY <1>0 DEF SameRef
  <2>2. Counting /\ refCount' = refCount
    BY <1>0 DEF Inv
  <2> QED BY <2>1, <2>2, CountsStay
<1>5. Living'
  BY <1>0, <1>1 DEF Inv, Living, NoUseAfterClose, CacheIsUsable
<1> QED BY <1>2, <1>3, <1>4, <1>5 DEF Inv

\* The cached connection is up and due: it will be read.
LEMMA CheckStartStep ==
  ASSUME Inv, NEW k \in Checkers, CheckStart(k)
  PROVE  Inv'
<1> USE ConnPoolAssumption
<1>0. PICK c \in Conns :
        /\ c = conns[checker[k].params] /\ checker[k].pc = "look" /\ state[c] = "up"
        /\ due' = due \ {c}
        /\ checker' = [checker EXCEPT ![k].pc = "read", ![k].conn = c]
        /\ UNCHANGED <<state, refCount, endpoint, idle, poolVars, lockVars, gcVars, user>>
  <2>1. checker[k].params \in Endpoints
    BY DEF Inv, Typed, Pointing, CheckStart
  <2>2. conns[checker[k].params] \in Conns
    BY <2>1 DEF Inv, Typed, TypeOK, CheckStart
  <2> QED BY <2>2 DEF CheckStart
<1>1. /\ checker' \in [Checkers -> CheckerRecord]
      /\ checker'[k].pc = "read" /\ checker'[k].params = checker[k].params /\ checker'[k].conn = c
      /\ \A j \in Checkers \ {k} : checker'[j] = checker[j]
  BY <1>0, CheckerReads DEF Inv
<1> USE DEF poolVars, lockVars, gcVars
<1>2. Typed'
  BY <1>0, <1>1 DEF Inv, Typed, TypeOK, CheckerRecord
<1>3. Pointing' /\ Locking'
  BY <1>0, <1>1 DEF Inv, Pointing, Locking
<1>4. Counting'
  <2>1. \A v \in Users : SameRef(v)
    BY <1>0 DEF SameRef
  <2>2. Counting /\ refCount' = refCount
    BY <1>0 DEF Inv
  <2> QED BY <2>1, <2>2, CountsStay
<1>5. Living'
  BY <1>0, <1>1 DEF Inv, Living, NoUseAfterClose, CacheIsUsable
<1> QED BY <1>2, <1>3, <1>4, <1>5 DEF Inv

\* The read failed: the connection leaves the cache, where it was once, and
\* waits in deadConns.  The collector is kept out by the lock.
LEMMA CheckFailsStep ==
  ASSUME Inv, NEW k \in Checkers, CheckFails(k)
  PROVE  Inv'
<1> USE ConnPoolAssumption
<1>0. PICK p \in Endpoints, c \in Conns :
        /\ p = checker[k].params /\ c = checker[k].conn
        /\ checker[k].pc = "read" /\ conns[p] = c
        /\ conns' = [conns EXCEPT ![p] = None]
        /\ deadConns' = deadConns \cup {c}
        /\ checker' = [checker EXCEPT ![k] = Out] /\ readers' = readers \ {k}
        /\ UNCHANGED <<writer, connVars, gcVars, user>>
  <2>1. checker[k].params \in Endpoints /\ checker[k].conn \in Conns
    BY DEF Inv, Typed, Pointing, CheckFails
  <2> QED BY <2>1 DEF CheckFails, CheckEnds, RUnlock
<1>1. /\ checker' \in [Checkers -> CheckerRecord]
      /\ checker'[k].pc = "out" /\ checker'[k].conn = None
      /\ \A j \in Checkers \ {k} : checker'[j] = checker[j]
  <2>1. Out \in CheckerRecord /\ Out.pc = "out" /\ Out.conn = None
    BY DEF Out, CheckerRecord
  <2> QED BY <1>0, <2>1, CheckerBecomes DEF Inv
<1>2. /\ conns' \in [Endpoints -> Conns \cup {None}] /\ conns'[p] = None
      /\ \A q \in Endpoints \ {p} : conns'[q] = conns[q]
  BY <1>0 DEF Inv, Typed, TypeOK
<1>3. writer # "held" /\ gcTodo = {} /\ gcDead = {}
  BY <1>0 DEF Inv, Locking
<1>4. state[c] = "up" /\ \A q \in Endpoints \ {p} : conns[q] # c
  BY <1>0, CachedOnce DEF Inv, Living, NoUseAfterClose
<1> USE DEF connVars, gcVars
<1>5. Typed'
  BY <1>0, <1>1, <1>2 DEF Inv, Typed, TypeOK, CheckerRecord
<1>6. Pointing'
  BY <1>0, <1>1 DEF Inv, Pointing
<1>7. Locking'
  BY <1>0, <1>1, <1>3 DEF Inv, Locking
<1>8. Counting'
  <2>1. \A v \in Users : SameRef(v)
    BY <1>0 DEF SameRef
  <2>2. Counting /\ refCount' = refCount
    BY <1>0 DEF Inv
  <2> QED BY <2>1, <2>2, CountsStay
<1>9. Living'
  <2>1. NoUseAfterClose' /\ CacheIsUsable'
    BY <1>0, <1>1, <1>2 DEF Inv, Living, NoUseAfterClose, CacheIsUsable
  <2>2. ASSUME NEW d \in Conns
        PROVE  /\ d \in deadConns' => state'[d] = "up" /\ \A q \in Endpoints : conns'[q] # d
               /\ state'[d] \in {"connecting", "up"} =>
                    d \in deadConns' \/ \E q \in Endpoints : conns'[q] = d
    BY <1>0, <1>2, <1>4 DEF Inv, Living
  <2> QED BY <2>1, <2>2 DEF Living
<1> QED BY <1>5, <1>6, <1>7, <1>8, <1>9 DEF Inv

-----------------------------------------------------------------------------
(* The collector *)

\* The collector takes openMu, lists what there is, and gives openMu back.
LEMMA GcLockSteps ==
  ASSUME Inv, GcLock \/ GcLocked \/ GcUnlock
  PROVE  Inv'
<1> USE ConnPoolAssumption
<1> USE DEF connVars, poolVars, gcVars
<1>0. /\ UNCHANGED <<connVars, poolVars, readers, user, checker>>
      /\ \/ writer = "none" /\ writer' = "waiting" /\ UNCHANGED <<gcTodo, gcDead>>
         \/ /\ readers = {} /\ writer' = "held"
            /\ gcTodo' = {p \in Endpoints : conns[p] # None} /\ gcDead' = deadConns
         \/ writer' = "none" /\ gcTodo = {} /\ gcDead = {} /\ UNCHANGED <<gcTodo, gcDead>>
  BY DEF GcLock, GcLocked, GcUnlock
<1>1. Typed'
  BY <1>0 DEF Inv, Typed, TypeOK
<1>2. Pointing' /\ Locking'
  BY <1>0 DEF Inv, Pointing, Locking
<1>3. Counting'
  <2>1. \A v \in Users : SameRef(v)
    BY <1>0 DEF SameRef
  <2>2. Counting /\ refCount' = refCount
    BY <1>0 DEF Inv
  <2> QED BY <2>1, <2>2, CountsStay
<1>4. Living'
  BY <1>0 DEF Inv, Living, NoUseAfterClose, CacheIsUsable
<1> QED BY <1>1, <1>2, <1>3, <1>4 DEF Inv

\* While the collector holds openMu everybody who has a connection counts it.
LEMMA UnreferencedIsUnused ==
  ASSUME Inv, writer = "held", NEW c \in Conns, refCount[c] <= 0
  PROVE  /\ \A u \in Users : user[u].conn # c
         /\ \A k \in Checkers : checker[k].pc # "read"
<1>1. \A k \in Checkers : checker[k].pc # "read"
  BY DEF Inv, Locking
<1>2. ASSUME NEW u \in Users, user[u].conn = c PROVE FALSE
  <2>1. user[u].pc = "using"
    BY <1>2, ConnPoolAssumption DEF Inv, Locking, Pointing
  <2>2. refCount[c] > 0
    BY <1>2, <2>1, HeldIsCounted DEF Inv
  <2>3. refCount[c] \in Nat
    BY DEF Inv, Typed, TypeOK
  <2> QED BY <2>2, <2>3
<1> QED BY <1>1, <1>2

\* The collector looks at one cached connection.
LEMMA GcConnStep ==
  ASSUME Inv, NEW p \in Endpoints, GcConn(p)
  PROVE  Inv'
<1> USE ConnPoolAssumption
<1>0. PICK c \in Conns :
        /\ c = conns[p] /\ writer = "held" /\ p \in gcTodo /\ gcTodo' = gcTodo \ {p}
        /\ \/ /\ state[c] = "failed" /\ conns' = [conns EXCEPT ![p] = None]
              /\ UNCHANGED <<state, idle, due>>
           \/ /\ refCount[c] <= 0 /\ conns' = [conns EXCEPT ![p] = None]
              /\ state' = [state EXCEPT ![c] = "closed"]
              /\ idle' = idle \ {c} /\ due' = due \ {c}
           \/ UNCHANGED <<conns, state, idle, due>>
        /\ UNCHANGED <<refCount, endpoint, deadConns, lockVars, gcDead, user, checker>>
  <2>1. conns[p] \in Conns
    BY DEF Inv, Typed, TypeOK, Locking, GcConn
  <2> QED BY <2>1 DEF GcConn, GcMayClose, ServerClose
<1>1. \A q \in Endpoints \ {p} : conns[q] # c
  BY <1>0, CachedOnce DEF Inv, Living
<1>2. c \notin deadConns
  BY <1>0 DEF Inv, Living
<1>3. /\ conns' \in [Endpoints -> Conns \cup {None}]
      /\ state' \in [Conns -> {"connecting", "up", "failed", "closed"}]
      /\ \A q \in Endpoints \ {p} : conns'[q] = conns[q]
      /\ \A d \in Conns \ {c} : state'[d] = state[d]
      /\ \/ conns'[p] = None /\ state[c] = "failed" /\ state'[c] = "failed"
         \/ /\ conns'[p] = None /\ state'[c] = "closed" /\ refCount[c] <= 0
         \/ conns'[p] = c /\ state'[c] = state[c]
  BY <1>0 DEF Inv, Typed, TypeOK
<1>4. idle' \subseteq Conns /\ due' \subseteq Conns
  BY <1>0 DEF Inv, Typed, TypeOK
<1> USE DEF lockVars
<1>5. Typed'
  BY <1>0, <1>3, <1>4 DEF Inv, Typed, TypeOK
<1>6. Pointing'
  BY <1>0 DEF Inv, Pointing
<1>7. Locking'
  <2>1. \A q \in gcTodo' : conns'[q] = conns[q]
    BY <1>0, <1>3 DEF Inv, Typed
  <2> QED BY <1>0, <2>1 DEF Inv, Locking
<1>8. Counting'
  <2>1. \A v \in Users : SameRef(v)
    BY <1>0 DEF SameRef
  <2>2. Counting /\ refCount' = refCount
    BY <1>0 DEF Inv
  <2> QED BY <2>1, <2>2, CountsStay
<1>9. Living'
  <2>1. NoUseAfterClose'
    <3>1. \/ state' = state
          \/ /\ refCount[c] <= 0 /\ \A d \in Conns \ {c} : state'[d] = state[d]
      BY <1>0, <1>3
    <3>2. CASE state' = state
      BY <1>0, <3>2 DEF Inv, Living, NoUseAfterClose
    <3>3. CASE refCount[c] <= 0
      <4>1. \A u \in Users : user[u].conn # c
        BY <1>0, <3>3, UnreferencedIsUnused
      <4>2. \A k \in Checkers : checker[k].pc # "read"
        BY <1>0, <3>3, UnreferencedIsUnused
      <4>3. \A u \in Users : user[u].pc \in {"ref", "wait", "using"} => user[u].conn \in Conns
        BY DEF Inv, Typed, Pointing
      <4> QED BY <1>0, <1>3, <4>1, <4>2, <4>3 DEF Inv, Living, NoUseAfterClose
    <3> QED BY <3>1, <3>2, <3>3
  <2>2. CacheIsUsable'
    <3>1. \A q \in Endpoints : conns[q] # None => conns[q] \in Conns
      BY DEF Inv, Typed, TypeOK
    <3> QED BY <1>0, <1>1, <1>3, <3>1 DEF Inv, Living, CacheIsUsable
  <2>3. ASSUME NEW d \in Conns
        PROVE  /\ d \in deadConns' => state'[d] = "up" /\ \A q \in Endpoints : conns'[q] # d
               /\ state'[d] \in {"connecting", "up"} =>
                    d \in deadConns' \/ \E q \in Endpoints : conns'[q] = d
    <3>1. CASE d = c
      BY <1>0, <1>2, <1>3, <3>1 DEF Inv, Living
    <3>2. CASE d # c
      BY <1>0, <1>3, <3>2 DEF Inv, Living
    <3> QED BY <3>1, <3>2
  <2> QED BY <2>1, <2>2, <2>3 DEF Living
<1> QED BY <1>5, <1>6, <1>7, <1>8, <1>9 DEF Inv

\* The collector looks at one dead connection.
LEMMA GcDeadConnStep ==
  ASSUME Inv, NEW c \in Conns, GcDeadConn(c)
  PROVE  Inv'
<1> USE ConnPoolAssumption
<1>0. /\ writer = "held" /\ c \in gcDead /\ gcDead' = gcDead \ {c}
      /\ \/ /\ refCount[c] <= 0 /\ deadConns' = deadConns \ {c}
            /\ state' = [state EXCEPT ![c] = "closed"]
            /\ idle' = idle \ {c} /\ due' = due \ {c}
         \/ UNCHANGED <<state, idle, due, deadConns>>
      /\ UNCHANGED <<refCount, endpoint, conns, lockVars, gcTodo, user, checker>>
  BY DEF GcDeadConn, ServerClose
<1>1. CASE /\ refCount[c] <= 0 /\ deadConns' = deadConns \ {c}
           /\ state' = [state EXCEPT ![c] = "closed"]
           /\ idle' = idle \ {c} /\ due' = due \ {c}
  <2>0. /\ UNCHANGED <<refCount, endpoint, conns, lockVars, gcTodo, user, checker>>
        /\ gcDead' = gcDead \ {c}
    BY <1>0
  <2>1. /\ state' \in [Conns -> {"connecting", "up", "failed", "closed"}] /\ state'[c] = "closed"
        /\ \A d \in Conns \ {c} : state'[d] = state[d]
    BY <1>1 DEF Inv, Typed, TypeOK
  <2>2. /\ \A u \in Users : user[u].conn # c
        /\ \A k \in Checkers : checker[k].pc # "read"
    BY <1>0, <1>1, UnreferencedIsUnused
  <2>3. \A q \in Endpoints : conns[q] # c
    BY <1>0 DEF Inv, Locking, Living
  <2> USE DEF lockVars
  <2>4. Typed'
    BY <1>1, <2>0, <2>1 DEF Inv, Typed, TypeOK
  <2>5. Pointing' /\ Locking'
    BY <1>0, <1>1, <2>0 DEF Inv, Pointing, Locking
  <2>6. Counting'
    <3>1. \A v \in Users : SameRef(v)
      BY <2>0 DEF SameRef
    <3>2. Counting /\ refCount' = refCount
      BY <2>0 DEF Inv
    <3> QED BY <3>1, <3>2, CountsStay
  <2>7. Living'
    <3>1. NoUseAfterClose'
      <4>1. \A u \in Users : user[u].pc \in {"ref", "wait", "using"} => user[u].conn \in Conns
        BY DEF Inv, Typed, Pointing
      <4> QED BY <2>0, <2>1, <2>2, <4>1 DEF Inv, Living, NoUseAfterClose
    <3>2. CacheIsUsable'
      <4>1. \A q \in Endpoints : conns[q] # None => conns[q] \in Conns
        BY DEF Inv, Typed, TypeOK
      <4> QED BY <2>0, <2>1, <2>3, <4>1 DEF Inv, Living, CacheIsUsable
    <3>3. ASSUME NEW d \in Conns
          PROVE  /\ d \in deadConns' => state'[d] = "up" /\ \A q \in Endpoints : conns'[q] # d
                 /\ state'[d] \in {"connecting", "up"} =>
                      d \in deadConns' \/ \E q \in Endpoints : conns'[q] = d
      BY <1>1, <2>0, <2>1 DEF Inv, Living
    <3> QED BY <3>1, <3>2, <3>3 DEF Living
  <2> QED BY <2>4, <2>5, <2>6, <2>7 DEF Inv
<1>2. CASE UNCHANGED <<state, idle, due, deadConns>>
  <2> USE DEF lockVars
  <2>4. Typed'
    BY <1>0, <1>2 DEF Inv, Typed, TypeOK
  <2>5. Pointing' /\ Locking'
    BY <1>0, <1>2 DEF Inv, Pointing, Locking
  <2>6. Counting'
    <3>1. \A v \in Users : SameRef(v)
      BY <1>0 DEF SameRef
    <3>2. Counting /\ refCount' = refCount
      BY <1>0 DEF Inv
    <3> QED BY <3>1, <3>2, CountsStay
  <2>7. Living'
    BY <1>0, <1>2 DEF Inv, Living, NoUseAfterClose, CacheIsUsable
  <2> QED BY <2>4, <2>5, <2>6, <2>7 DEF Inv
<1> QED BY <1>0, <1>1, <1>2

-----------------------------------------------------------------------------
(* The theorems *)

\* Every step of the pool keeps the invariant.
LEMMA InvStep ==
  ASSUME Inv, [Next]_vars
  PROVE  Inv'
<1>1. ASSUME NEW u \in Users, UserStep(u) PROVE Inv'
  BY <1>1, OpenRLockStep, GetCachedStep, GetNewStep, OpenRefStep, OpenSucceedsStep, GiveBackStep
     DEF UserStep
<1>2. ASSUME NEW k \in Checkers, CheckerStep(k) PROVE Inv'
  BY <1>2, CheckerStepsAside, CheckStartStep, CheckFailsStep DEF CheckerStep
<1>3. CASE GcStep
  BY <1>3, GcLockSteps, GcConnStep, GcDeadConnStep DEF GcStep
<1>4. CASE Next
  BY <1>1, <1>2, <1>3, <1>4, OpenStep, ConnStep DEF Next
<1>5. CASE UNCHANGED vars
  <2> USE <1>5 DEF vars, connVars, poolVars, lockVars, gcVars
  <2>1. Typed'
    BY DEF Inv, Typed, TypeOK
  <2>2. Pointing' /\ Locking'
    BY DEF Inv, Pointing, Locking
  <2>3. Counting'
    BY CountsStay DEF Inv, SameRef
  <2>4. Living'
    BY DEF Inv, Living, NoUseAfterClose, CacheIsUsable
  <2> QED BY <2>1, <2>2, <2>3, <2>4 DEF Inv
<1> QED BY <1>4, <1>5

\* The invariant holds in every state of the pool.
LEMMA Invariant == Spec => []Inv
<1>1. Init => Inv
  BY InitInv
<1>2. Inv /\ [Next]_vars => Inv'
  BY InvStep
<1> QED BY <1>1, <1>2, PTL DEF Spec

\* The reference counts never go below zero, and everything has its type.
THEOREM PoolTypes == Spec => []TypeOK
<1>1. Inv => TypeOK
  BY DEF Inv, Typed
<1> QED BY <1>1, Invariant, PTL

\* Whoever got a connection from Open, waits for one or checks one never finds
\* it closed by the collector, for any number of goroutines and connections.
THEOREM NoOneUsesAClosedConnection == Spec => []NoUseAfterClose
<1>1. Inv => NoUseAfterClose
  BY DEF Inv, Living
<1> QED BY <1>1, Invariant, PTL

\* A reference count is the number of goroutines that owe a decrement.
THEOREM ReferencesAreCounted == Spec => []RefCountExact
<1>1. Inv => RefCountExact
  BY DEF Inv, Counting, Holders, RefCountExact
<1> QED BY <1>1, Invariant, PTL

\* The collector can find every open connection, in exactly one place.
THEOREM NothingIsLeaked == Spec => []NoConnectionLeak
<1>1. Inv => NoConnectionLeak
  BY DEF Inv, Living, NoConnectionLeak
<1> QED BY <1>1, Invariant, PTL

\* The cache never serves a closed connection, nor one to another lockserver.
THEOREM CacheServesItsParams == Spec => []CacheIsUsable
<1>1. Inv => CacheIsUsable
  BY DEF Inv, Living
<1> QED BY <1>1, Invariant, PTL
=============================================================================
