----------------------------- MODULE TopoConnPool -----------------------------
(***************************************************************************)
(* The process-wide pool of topology connections                           *)
(* (pkg/operator/toposerver/connpool.go): reconcilers open and close       *)
(* shared connections, a background goroutine connects, another checks     *)
(* that a cached connection is alive, and a garbage collector closes those *)
(* nobody uses.                                                            *)
(*                                                                         *)
(* mapMu is only ever held for one action here (get, the two map accesses  *)
(* of checkConn) or by the collector, which holds openMu exclusively as    *)
(* well, so it needs no variable.  openMu is a Go RWMutex: a waiting       *)
(* writer keeps new readers out.  Clocks are abstracted to two flags per   *)
(* connection, unused for idleTTL and due for a liveness check.            *)
(***************************************************************************)
EXTENDS Integers, FiniteSets

CONSTANTS
  Users,        \* goroutines that reconcile and open connections
  Checkers,     \* bound: checkConn goroutines at a time
  Endpoints,    \* lockserver params
  Conns,        \* bound: connection objects reachable at a time
  None,         \* no connection, no endpoint
  MaxDead       \* bound: connections waiting in deadConns

ASSUME ConnPoolAssumption ==
  /\ Users \cap Checkers = {}
  /\ None \notin Conns \cup Endpoints
  /\ MaxDead \in Nat

VARIABLES
  conns,     \* endpoint -> cached connection, or None
  deadConns, \* connections that failed their check and must be closed
  state,     \* connection -> "connecting", "up", "failed", "closed"
  refCount,  \* connection -> its reference count
  endpoint,  \* connection -> the params it was made for
  idle,      \* connections last opened more than idleTTL ago
  due,       \* connections last checked livenessCheckPeriod ago
  readers,   \* goroutines that hold openMu for reading
  writer,    \* the collector's hold on openMu: "none", "waiting", "held"
  user,      \* user -> [pc, params, conn]
  checker,   \* checker -> [pc, params, conn]
  gcTodo,    \* endpoints the collector has still to look at
  gcDead     \* dead connections the collector has still to look at

connVars == <<state, refCount, endpoint, idle, due>>
poolVars == <<conns, deadConns>>
lockVars == <<readers, writer>>
gcVars   == <<gcTodo, gcDead>>
vars == <<connVars, poolVars, lockVars, gcVars, user, checker>>

Out == [pc |-> "out", params |-> None, conn |-> None]

Init ==
  /\ conns = [p \in Endpoints |-> None] /\ deadConns = {}
  /\ state = [c \in Conns |-> "closed"]
  /\ refCount = [c \in Conns |-> 0]
  /\ endpoint = [c \in Conns |-> None]
  /\ idle = {} /\ due = {}
  /\ readers = {} /\ writer = "none"
  /\ user = [u \in Users |-> Out] /\ checker = [k \in Checkers |-> Out]
  /\ gcTodo = {} /\ gcDead = {}

-----------------------------------------------------------------------------
(* openMu *)

RLock(g)   == writer = "none" /\ readers' = readers \cup {g} /\ UNCHANGED writer
RUnlock(g) == readers' = readers \ {g} /\ UNCHANGED writer

-----------------------------------------------------------------------------
(* Open and Close *)

\* A connection object nothing points to: Go may reuse its memory.
Unreachable(c) ==
  /\ state[c] \in {"failed", "closed"}
  /\ c \notin deadConns
  /\ \A p \in Endpoints : conns[p] # c
  /\ \A u \in Users : user[u].conn # c
  /\ \A k \in Checkers : checker[k].conn # c

Open(u, p) ==
  /\ user[u].pc = "out"
  /\ user' = [user EXCEPT ![u] = [pc |-> "lock", params |-> p, conn |-> None]]
  /\ UNCHANGED <<connVars, poolVars, lockVars, gcVars, checker>>

OpenRLock(u) ==
  /\ user[u].pc = "lock"
  /\ RLock(u)
  /\ user' = [user EXCEPT ![u].pc = "get"]
  /\ UNCHANGED <<connVars, poolVars, gcVars, checker>>

\* get finds a connection that is up or still connecting; if it is up a
\* liveness check is started beside it.
GetCached(u) ==
  LET p == user[u].params
      c == conns[p]
  IN  /\ user[u].pc = "get"
      /\ c # None /\ state[c] # "failed"
      /\ user' = [user EXCEPT ![u].pc = "ref", ![u].conn = c]
      /\ \/ /\ state[c] = "up"
            /\ \E k \in Checkers :
                 /\ checker[k] = Out
                 /\ checker' = [checker EXCEPT ![k] =
                                  [pc |-> "lock", params |-> p, conn |-> None]]
         \/ /\ state[c] = "connecting" \/ \A k \in Checkers : checker[k] # Out
            /\ UNCHANGED checker
      /\ UNCHANGED <<connVars, poolVars, lockVars, gcVars>>

\* get finds nothing, or a failed attempt, and starts a new one.  Which of the
\* unreachable objects the new one stands for makes no difference.
GetNew(u) ==
  LET p == user[u].params
      c == CHOOSE d \in Conns : Unreachable(d)
  IN  /\ user[u].pc = "get"
      /\ conns[p] # None => state[conns[p]] = "failed"
      /\ \E d \in Conns : Unreachable(d)
      /\ conns' = [conns EXCEPT ![p] = c]
      /\ user' = [user EXCEPT ![u].pc = "ref", ![u].conn = c]
      /\ state' = [state EXCEPT ![c] = "connecting"]
      /\ refCount' = [refCount EXCEPT ![c] = 0]
      /\ endpoint' = [endpoint EXCEPT ![c] = p]
      /\ idle' = idle \ {c} /\ due' = due \ {c}
      /\ UNCHANGED <<deadConns, lockVars, gcVars, checker>>

\* Mutation: the reference is only counted once the connection is there.
OpenRefLate(u) ==
  /\ user[u].pc = "ref"
  /\ user' = [user EXCEPT ![u].pc = "wait"]
  /\ idle' = idle \ {user[u].conn}
  /\ UNCHANGED <<state, refCount, endpoint, due, poolVars, lockVars, gcVars, checker>>

\* open: count the reference and refresh lastOpened under conn.mu.
OpenRef(u) ==
  LET c == user[u].conn
  IN  /\ user[u].pc = "ref"
      /\ user' = [user EXCEPT ![u].pc = "wait"]
      /\ refCount' = [refCount EXCEPT ![c] = @ + 1]
      /\ idle' = idle \ {c}
      /\ UNCHANGED <<state, endpoint, due, poolVars, lockVars, gcVars, checker>>

OpenSucceeds(u) ==
  /\ user[u].pc = "wait" /\ state[user[u].conn] = "up"
  /\ user' = [user EXCEPT ![u].pc = "using"]
  /\ RUnlock(u)
  /\ UNCHANGED <<connVars, poolVars, gcVars, checker>>

\* Mutation: the deferred decrement is forgotten.
OpenFailsKeepingRef(u) ==
  /\ user[u].pc = "wait"
  /\ user' = [user EXCEPT ![u] = Out]
  /\ RUnlock(u)
  /\ UNCHANGED <<connVars, poolVars, gcVars, checker>>

\* The attempt failed, or connectTimeout passed first: the reference is
\* given back before openMu is released.
OpenFails(u) ==
  LET c == user[u].conn
  IN  /\ user[u].pc = "wait"
      /\ user' = [user EXCEPT ![u] = Out]
      /\ refCount' = [refCount EXCEPT ![c] = @ - 1]
      /\ RUnlock(u)
      /\ UNCHANGED <<state, endpoint, idle, due, poolVars, gcVars, checker>>

Close(u) ==
  LET c == user[u].conn
  IN  /\ user[u].pc = "using"
      /\ user' = [user EXCEPT ![u] = Out]
      /\ refCount' = [refCount EXCEPT ![c] = @ - 1]
      /\ UNCHANGED <<state, endpoint, idle, due, poolVars, lockVars, gcVars, checker>>

-----------------------------------------------------------------------------
(* The background attempt (newConn) and the clock *)

ConnectDone(c) ==
  /\ state[c] = "connecting"
  /\ \E result \in {"up", "failed"} : state' = [state EXCEPT ![c] = result]
  /\ UNCHANGED <<refCount, endpoint, idle, due, poolVars, lockVars, gcVars,
                 user, checker>>

\* An attempt ends within the timeout built into OpenServer, well before idleTTL.
BecomeIdle(c) ==
  /\ c \notin idle /\ state[c] = "up"
  /\ idle' = idle \cup {c}
  /\ UNCHANGED <<state, refCount, endpoint, due, poolVars, lockVars, gcVars,
                 user, checker>>

BecomeDue(c) ==
  /\ c \notin due /\ state[c] = "up"
  /\ due' = due \cup {c}
  /\ UNCHANGED <<state, refCount, endpoint, idle, poolVars, lockVars, gcVars,
                 user, checker>>

-----------------------------------------------------------------------------
(* checkConn *)

CheckRLock(k) ==
  /\ checker[k].pc = "lock"
  /\ RLock(k)
  /\ checker' = [checker EXCEPT ![k].pc = "look"]
  /\ UNCHANGED <<connVars, poolVars, gcVars, user>>

CheckEnds(k) == checker' = [checker EXCEPT ![k] = Out] /\ RUnlock(k)

\* Mutation: a return that does not release openMu.
CheckNothingLocked(k) ==
  /\ checker[k].pc = "look"
  /\ checker' = [checker EXCEPT ![k] = Out]
  /\ UNCHANGED <<connVars, poolVars, lockVars, gcVars, user>>

\* Removed meanwhile, not up, or checked recently: return.
CheckNothing(k) ==
  LET c == conns[checker[k].params]
  IN  /\ checker[k].pc = "look"
      /\ c # None => state[c] # "up" \/ c \notin due
      /\ CheckEnds(k)
      /\ UNCHANGED <<connVars, poolVars, gcVars, user>>

CheckStart(k) ==
  LET c == conns[checker[k].params]
  IN  /\ checker[k].pc = "look"
      /\ c # None /\ state[c] = "up" /\ c \in due
      /\ due' = due \ {c}
      /\ checker' = [checker EXCEPT ![k].pc = "read", ![k].conn = c]
      /\ UNCHANGED <<state, refCount, endpoint, idle, poolVars, lockVars, gcVars, user>>

\* The read of global topo worked, or the cache entry was replaced since.
CheckPasses(k) ==
  /\ checker[k].pc = "read"
  /\ CheckEnds(k)
  /\ UNCHANGED <<connVars, poolVars, gcVars, user>>

\* Mutation: the dead connection is dropped from the cache and forgotten.
CheckFailsForgets(k) ==
  LET p == checker[k].params
  IN  /\ checker[k].pc = "read"
      /\ conns[p] = checker[k].conn
      /\ conns' = [conns EXCEPT ![p] = None]
      /\ CheckEnds(k)
      /\ UNCHANGED <<connVars, deadConns, gcVars, user>>

\* The read failed: move the entry from the cache to deadConns.
CheckFails(k) ==
  LET p == checker[k].params
      c == checker[k].conn
  IN  /\ checker[k].pc = "read"
      /\ conns[p] = c
      /\ Cardinality(deadConns) < MaxDead
      /\ conns' = [conns EXCEPT ![p] = None]
      /\ deadConns' = deadConns \cup {c}
      /\ CheckEnds(k)
      /\ UNCHANGED <<connVars, gcVars, user>>

-----------------------------------------------------------------------------
(* gc *)

GcLock ==
  /\ writer = "none"
  /\ writer' = "waiting"
  /\ UNCHANGED <<connVars, poolVars, readers, gcVars, user, checker>>

GcLocked ==
  /\ writer = "waiting" /\ readers = {}
  /\ writer' = "held"
  /\ gcTodo' = {p \in Endpoints : conns[p] # None}
  /\ gcDead' = deadConns
  /\ UNCHANGED <<connVars, poolVars, readers, user, checker>>

\* Mutation: idle connections are closed whoever uses them.
GcMayCloseAny(c) == c \in idle

\* The TTL applies when no references are left.
GcMayClose(c) == refCount[c] <= 0 /\ c \in idle

\* Server.Close; nobody reads the clocks of a closed connection.
ServerClose(c) ==
  /\ state' = [state EXCEPT ![c] = "closed"]
  /\ idle' = idle \ {c} /\ due' = due \ {c}

\* Mutation: the connection is closed and stays in the cache.
GcConnKeepsEntry(p) ==
  /\ writer = "held" /\ p \in gcTodo
  /\ gcTodo' = gcTodo \ {p}
  /\ state' = IF GcMayClose(conns[p]) THEN [state EXCEPT ![conns[p]] = "closed"]
                                     ELSE state
  /\ UNCHANGED <<refCount, endpoint, idle, due, poolVars, lockVars, gcDead,
                 user, checker>>

(***************************************************************************)
(* One cached connection: a failed attempt is dropped, an idle connection  *)
(* is closed and dropped.                                                  *)
(***************************************************************************)
GcConn(p) ==
  LET c == conns[p]
  IN  /\ writer = "held" /\ p \in gcTodo
      /\ gcTodo' = gcTodo \ {p}
      /\ \/ /\ state[c] = "failed"
            /\ conns' = [conns EXCEPT ![p] = None]
            /\ UNCHANGED <<state, idle, due>>
         \/ /\ state[c] # "failed" /\ GcMayClose(c)
            /\ conns' = [conns EXCEPT ![p] = None]
            /\ ServerClose(c)
         \/ /\ state[c] # "failed" /\ ~GcMayClose(c)
            /\ UNCHANGED <<conns, state, idle, due>>
      /\ UNCHANGED <<refCount, endpoint, deadConns, lockVars, gcDead, user, checker>>

\* One dead connection: closed once nobody uses it.
GcDeadConn(c) ==
  /\ writer = "held" /\ gcTodo = {} /\ c \in gcDead
  /\ gcDead' = gcDead \ {c}
  /\ IF refCount[c] <= 0
     THEN /\ ServerClose(c)
          /\ deadConns' = deadConns \ {c}
     ELSE UNCHANGED <<state, idle, due, deadConns>>
  /\ UNCHANGED <<refCount, endpoint, conns, lockVars, gcTodo, user, checker>>

GcUnlock ==
  /\ writer = "held" /\ gcTodo = {} /\ gcDead = {}
  /\ writer' = "none"
  /\ UNCHANGED <<connVars, poolVars, readers, gcVars, user, checker>>

-----------------------------------------------------------------------------

UserStep(u) ==
  \/ OpenRLock(u) \/ GetCached(u) \/ GetNew(u) \/ OpenRef(u)
  \/ OpenSucceeds(u) \/ OpenFails(u) \/ Close(u)

CheckerStep(k) ==
  \/ CheckRLock(k) \/ CheckNothing(k) \/ CheckStart(k)
  \/ CheckPasses(k) \/ CheckFails(k)

GcStep ==
  \/ GcLock \/ GcLocked \/ GcUnlock
  \/ (\E p \in Endpoints : GcConn(p))
  \/ (\E c \in Conns : GcDeadConn(c))

Next ==
  \/ \E u \in Users : UserStep(u) \/ \E p \in Endpoints : Open(u, p)
  \/ \E k \in Checkers : CheckerStep(k)
  \/ \E c \in Conns : ConnectDone(c) \/ BecomeIdle(c) \/ BecomeDue(c)
  \/ GcStep

Spec == Init /\ [][Next]_vars

(***************************************************************************)
(* Callers return from their work and Close (they defer it), waits end by  *)
(* timeout at the latest, and the collector runs every gcInterval.  Nobody *)
(* has to open a connection.  Go's RWMutex lets the readers that wait in   *)
(* when a writer unlocks, hence SF for RLock.                              *)
(***************************************************************************)
FairSpec ==
  /\ Spec
  /\ \A u \in Users : WF_vars(UserStep(u)) /\ SF_vars(OpenRLock(u))
  /\ \A k \in Checkers : WF_vars(CheckerStep(k)) /\ SF_vars(CheckRLock(k))
  /\ WF_vars(GcStep)

-----------------------------------------------------------------------------
(* Properties *)

(***************************************************************************)
(* Types; in particular the reference count that open and Close keep is    *)
(* never negative.                                                         *)
(***************************************************************************)
TypeOK ==
  /\ conns \in [Endpoints -> Conns \cup {None}]
  /\ deadConns \subseteq Conns
  /\ state \in [Conns -> {"connecting", "up", "failed", "closed"}]
  /\ refCount \in [Conns -> Nat]
  /\ endpoint \in [Conns -> Endpoints \cup {None}]
  /\ idle \subseteq Conns /\ due \subseteq Conns
  /\ readers \subseteq Users \cup Checkers
  /\ writer \in {"none", "waiting", "held"}
  /\ \A u \in Users : user[u].pc \in {"out", "lock", "get", "ref", "wait", "using"}
  /\ \A k \in Checkers : checker[k].pc \in {"out", "lock", "look", "read"}

(***************************************************************************)
(* Whoever got a connection from Open, or is waiting for one, or checks    *)
(* one, never finds it closed by the collector.                            *)
(***************************************************************************)
NoUseAfterClose ==
  /\ \A u \in Users :
       /\ user[u].pc = "using" => state[user[u].conn] = "up"
       /\ user[u].pc \in {"ref", "wait"} =>
            state[user[u].conn] \in {"connecting", "up", "failed"}
  /\ \A k \in Checkers : checker[k].pc = "read" => state[checker[k].conn] = "up"

(***************************************************************************)
(* A reference count is exactly the number of goroutines that owe a        *)
(* decrement: the waiting ones and those that have not called Close yet.   *)
(***************************************************************************)
RefCountExact ==
  \A c \in Conns :
    refCount[c] = Cardinality({u \in Users : /\ user[u].conn = c
                                             /\ user[u].pc \in {"wait", "using"}})

(***************************************************************************)
(* No connection is leaked: as long as it is open (or may still come up)   *)
(* the collector can find it, in the cache or in deadConns, exactly once.  *)
(***************************************************************************)
NoConnectionLeak ==
  \A c \in Conns :
    state[c] \in {"connecting", "up"} =>
      /\ c \in deadConns \/ \E p \in Endpoints : conns[p] = c
      /\ ~(c \in deadConns /\ \E p \in Endpoints : conns[p] = c)

\* The cache never holds a connection that was closed, nor one made for
\* other params than it is cached under.
CacheIsUsable ==
  \A p \in Endpoints :
    conns[p] # None => /\ state[conns[p]] \in {"connecting", "up", "failed"}
                       /\ endpoint[conns[p]] = p

\* Every connection that failed its check is closed by the collector in the
\* end: its users give back their references and nobody can take a new one.
DeadConnsClosed == \A c \in Conns : []<>(c \notin deadConns)

\* Open always returns: a collector waiting for openMu does not lock out
\* callers for good, nor do callers wait for one another.
OpenReturns == \A u \in Users : []<>(user[u].pc \in {"using", "out"})
=============================================================================
