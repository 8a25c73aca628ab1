----------------------------- MODULE ObjectProofs ------------------------------
(***************************************************************************)
(* Proofs about what the operator makes of objects that exist: Pods, then  *)
(* Deployments, Services and volume claims.                                *)
(*                                                                         *)
(* UpdatePod is what a restart is decided by: a Pod that it would change is *)
(* recreated.  If it changed a Pod it has just made, or one that a webhook has *)
(* added to, Pods would be recreated for ever; if it did not change one that *)
(* still carries what is no longer wanted, the change would never arrive.  *)
(* Kubernetes replaces a Deployment's Pods whenever its template changes, so *)
(* laying the same wishes over it again must not change it; and what flags and *)
(* mounts name must be there.                                              *)
(***************************************************************************)
EXTENDS Services, TLAPS

-----------------------------------------------------------------------------
(* Maps *)

IsMap(map) == map = [k \in DOMAIN map |-> map[k]]

\* Two maps are the same if they say the same of the same keys.
LEMMA SameMap ==
  ASSUME NEW f, NEW g, IsMap(f), IsMap(g), DOMAIN f = DOMAIN g,
         \A k \in DOMAIN f : f[k] = g[k]
  PROVE  f = g
  BY DEF IsMap

LEMMA MergeIsMap == ASSUME NEW d, NEW s PROVE IsMap(Merge(d, s))
  BY DEF Merge, IsMap

LEMMA MergeSelf == ASSUME NEW m, IsMap(m) PROVE Merge(m, m) = m
  BY DEF Merge, IsMap

\* Laying a map over another again, or two over a third, changes nothing.
LEMMA MergeTwice == ASSUME NEW d, NEW s PROVE Merge(Merge(d, s), s) = Merge(d, s)
  BY DEF Merge

LEMMA MergeBothTwice ==
  ASSUME NEW d, NEW s, NEW t
  PROVE  Merge(Merge(Merge(Merge(d, s), t), s), t) = Merge(Merge(d, s), t)
  BY DEF Merge

-----------------------------------------------------------------------------
(* Security contexts *)

IsSecurity(s) == s = [given |-> s.given, fields |-> s.fields] /\ s.given \in BOOLEAN /\ IsMap(s.fields)

MergeFields(d, s) == Merge(Only(d, KeptSecurity), s)

LEMMA BothGiven ==
  ASSUME NEW d, NEW s, d.given, s.given
  PROVE  /\ MergeSecurity(d, s) = [given |-> TRUE, fields |-> MergeFields(d.fields, s.fields)]
         /\ MergeSecurity(d, s).given
         /\ MergeSecurity(d, s).fields = MergeFields(d.fields, s.fields)
  BY DEF MergeSecurity, MergeFields

LEMMA FieldsTwice ==
  ASSUME NEW d, NEW s, NEW t
  PROVE  /\ MergeFields(MergeFields(d, s), s) = MergeFields(d, s)
         /\ MergeFields(MergeFields(MergeFields(s, t), s), t) = MergeFields(s, t)
         /\ MergeFields(MergeFields(MergeFields(MergeFields(d, s), t), s), t)
              = MergeFields(MergeFields(d, s), t)
  BY DEF MergeFields, Merge, Only

LEMMA SecuritySelf == ASSUME NEW s, IsSecurity(s) PROVE MergeSecurity(s, s) = s
  BY DEF MergeSecurity, Merge, Only, IsMap, IsSecurity

LEMMA SecurityTwice ==
  ASSUME NEW d, NEW s, IsSecurity(d), IsSecurity(s)
  PROVE  MergeSecurity(MergeSecurity(d, s), s) = MergeSecurity(d, s)
<1>1. CASE ~s.given
  BY <1>1 DEF MergeSecurity
<1>2. CASE ~d.given
  BY <1>2, SecuritySelf DEF MergeSecurity
<1>3. CASE d.given /\ s.given
  <2>1. MergeFields(MergeFields(d.fields, s.fields), s.fields) = MergeFields(d.fields, s.fields)
    BY FieldsTwice
  <2> QED BY <2>1, <1>3 DEF MergeSecurity, IsSecurity, MergeFields
<1> QED BY <1>1, <1>2, <1>3

LEMMA SecurityBothTwice ==
  ASSUME NEW d, NEW s, NEW t, IsSecurity(d), IsSecurity(s), IsSecurity(t)
  PROVE  MergeSecurity(MergeSecurity(MergeSecurity(MergeSecurity(d, s), t), s), t)
           = MergeSecurity(MergeSecurity(d, s), t)
<1> DEFINE a == MergeSecurity(d, s)
           x == MergeSecurity(a, t)
           b == MergeSecurity(x, s)
           y == MergeSecurity(b, t)
<1>1. CASE ~s.given \/ ~t.given
  BY <1>1 DEF MergeSecurity
<1>2. CASE ~d.given /\ s.given /\ t.given
  <2>1. a = s
    BY <1>2 DEF MergeSecurity
  <2>2. x.given /\ x = [given |-> TRUE, fields |-> x.fields] /\ x.fields = MergeFields(s.fields, t.fields)
    BY <2>1, <1>2, BothGiven
  <2>3. b.given /\ b.fields = MergeFields(x.fields, s.fields)
    BY <2>2, <1>2, BothGiven
  <2>4. y = [given |-> TRUE, fields |-> MergeFields(b.fields, t.fields)]
    BY <2>3, <1>2, BothGiven
  <2> HIDE DEF a, x, b, y
  <2>5. y = x
    BY <2>2, <2>3, <2>4, FieldsTwice
  <2> QED BY <2>5 DEF a, x, b, y
<1>3. CASE d.given /\ s.given /\ t.given
  <2>1. a.given /\ a.fields = MergeFields(d.fields, s.fields)
    BY <1>3, BothGiven
  <2>2. x.given /\ x = [given |-> TRUE, fields |-> x.fields] /\ x.fields = MergeFields(a.fields, t.fields)
    BY <2>1, <1>3, BothGiven
  <2>3. b.given /\ b.fields = MergeFields(x.fields, s.fields)
    BY <2>2, <1>3, BothGiven
  <2>4. y = [given |-> TRUE, fields |-> MergeFields(b.fields, t.fields)]
    BY <2>3, <1>3, BothGiven
  <2> HIDE DEF a, x, b, y
  <2>5. y = x
    BY <2>1, <2>2, <2>3, <2>4, FieldsTwice
  <2> QED BY <2>5 DEF a, x, b, y
<1> QED BY <1>1, <1>2, <1>3 DEF IsSecurity

-----------------------------------------------------------------------------
(* Containers *)

IsContainer(c) ==
  /\ c = [rest |-> c.rest, pull |-> c.pull, limits |-> c.limits, requests |-> c.requests,
          security |-> c.security, mounts |-> c.mounts]
  /\ IsMap(c.limits) /\ IsMap(c.requests) /\ IsMap(c.mounts) /\ IsSecurity(c.security)

LEMMA ContainerType ==
  ASSUME NEW d, NEW s, IsContainer(d), IsContainer(s)
  PROVE  IsContainer(PodContainer(d, s))
  BY DEF PodContainer, IsContainer, Merge, IsMap, IsSecurity, MergeSecurity, Only

LEMMA ContainerSelf == ASSUME NEW c, IsContainer(c) PROVE PodContainer(c, c) = c
  BY MergeSelf, SecuritySelf DEF PodContainer, IsContainer

LEMMA ContainerTwice ==
  ASSUME NEW d, NEW s, IsContainer(d), IsContainer(s)
  PROVE  PodContainer(PodContainer(d, s), s) = PodContainer(d, s)
  BY MergeTwice, SecurityTwice DEF PodContainer, IsContainer

LEMMA ContainerBothTwice ==
  ASSUME NEW d, NEW s, NEW t, IsContainer(d), IsContainer(s), IsContainer(t)
  PROVE  PodContainer(PodContainer(PodContainer(PodContainer(d, s), t), s), t)
           = PodContainer(PodContainer(d, s), t)
<1> DEFINE x == PodContainer(PodContainer(d, s), t)
           y == PodContainer(PodContainer(x, s), t)
<1>1. MergeSecurity(MergeSecurity(MergeSecurity(MergeSecurity(d.security, s.security), t.security),
                                  s.security), t.security)
        = MergeSecurity(MergeSecurity(d.security, s.security), t.security)
  BY SecurityBothTwice DEF IsContainer
<1>2. /\ x = [rest |-> t.rest, pull |-> x.pull, limits |-> x.limits, requests |-> x.requests,
              security |-> x.security, mounts |-> x.mounts]
      /\ y = [rest |-> t.rest, pull |-> y.pull, limits |-> y.limits, requests |-> y.requests,
              security |-> y.security, mounts |-> y.mounts]
  BY DEF PodContainer
<1>3. y.pull = x.pull
  BY DEF PodContainer
<1>4. y.limits = x.limits
  <2>1. /\ x.limits = Merge(Merge(d.limits, s.limits), t.limits)
        /\ y.limits = Merge(Merge(x.limits, s.limits), t.limits)
    BY DEF PodContainer
  <2> HIDE DEF x, y
  <2> QED BY <2>1, MergeBothTwice
<1>5. y.requests = x.requests
  <2>1. /\ x.requests = Merge(Merge(d.requests, s.requests), t.requests)
        /\ y.requests = Merge(Merge(x.requests, s.requests), t.requests)
    BY DEF PodContainer
  <2> HIDE DEF x, y
  <2> QED BY <2>1, MergeBothTwice
<1>6. y.mounts = x.mounts
  <2>1. /\ x.mounts = Merge(Merge(d.mounts, s.mounts), t.mounts)
        /\ y.mounts = Merge(Merge(x.mounts, s.mounts), t.mounts)
    BY DEF PodContainer
  <2> HIDE DEF x, y
  <2> QED BY <2>1, MergeBothTwice
<1>7. y.security = x.security
  BY <1>1 DEF PodContainer
<1> HIDE DEF x, y
<1>8. y = x
  BY <1>2, <1>3, <1>4, <1>5, <1>6, <1>7
<1> QED BY <1>8 DEF x, y

IsContainers(cs) == IsMap(cs) /\ \A n \in DOMAIN cs : IsContainer(cs[n])

\* What PodContainers does for each name; a container that is new is one that
\* is laid over itself.
Laid(d, s, r) ==
  /\ DOMAIN r = DOMAIN d \cup DOMAIN s
  /\ \A n \in DOMAIN s : r[n] = PodContainer(IF n \in DOMAIN d THEN d[n] ELSE s[n], s[n])
  /\ \A n \in DOMAIN d \ DOMAIN s : r[n] = d[n]

LEMMA ContainersLaid ==
  ASSUME NEW d, NEW s, IsContainers(d), IsContainers(s)
  PROVE  Laid(d, s, PodContainers(d, s)) /\ IsContainers(PodContainers(d, s))
<1>1. DOMAIN PodContainers(d, s) = DOMAIN d \cup DOMAIN s
  BY DEF PodContainers
<1>2. ASSUME NEW n \in DOMAIN s
      PROVE  PodContainers(d, s)[n] = PodContainer(IF n \in DOMAIN d THEN d[n] ELSE s[n], s[n])
  <2>1. PodContainer(s[n], s[n]) = s[n]
    BY ContainerSelf DEF IsContainers
  <2> QED BY <2>1 DEF PodContainers
<1>3. ASSUME NEW n \in DOMAIN d \ DOMAIN s
      PROVE  PodContainers(d, s)[n] = d[n]
  BY DEF PodContainers
<1>4. IsMap(PodContainers(d, s))
  BY DEF PodContainers, IsMap
<1> QED BY <1>1, <1>2, <1>3, <1>4, ContainerType DEF IsContainers, Laid

LEMMA ContainersBothTwice ==
  ASSUME NEW d, NEW s, NEW t, IsContainers(d), IsContainers(s), IsContainers(t)
  PROVE  PodContainers(PodContainers(PodContainers(PodContainers(d, s), t), s), t)
           = PodContainers(PodContainers(d, s), t)
<1> DEFINE a == PodContainers(d, s)
           x == PodContainers(a, t)
           b == PodContainers(x, s)
           y == PodContainers(b, t)
<1>1. IsContainers(a) /\ IsContainers(x) /\ IsContainers(b) /\ IsContainers(y)
  BY ContainersLaid
<1>2. Laid(d, s, a) /\ Laid(a, t, x) /\ Laid(x, s, b) /\ Laid(b, t, y)
  BY <1>1, ContainersLaid
<1> HIDE DEF a, x, b, y
<1>3. DOMAIN a = DOMAIN d \cup DOMAIN s /\ DOMAIN x = DOMAIN a \cup DOMAIN t
      /\ DOMAIN b = DOMAIN x /\ DOMAIN y = DOMAIN x
  BY <1>2 DEF Laid
<1>4. ASSUME NEW n \in DOMAIN x
      PROVE  y[n] = x[n]
  <2>1. CASE n \notin DOMAIN s /\ n \notin DOMAIN t
    BY <1>2, <2>1 DEF Laid
  <2>2. CASE n \in DOMAIN s /\ n \notin DOMAIN t
    <3>1. PICK o : IsContainer(o) /\ a[n] = PodContainer(o, s[n])
      BY <1>2, <2>2 DEF Laid, IsContainers
    <3>2. x[n] = a[n] /\ b[n] = PodContainer(x[n], s[n]) /\ y[n] = b[n]
      BY <1>2, <1>3, <2>2 DEF Laid
    <3> QED BY <3>1, <3>2, <2>2, ContainerTwice DEF IsContainers
  <2>3. CASE n \notin DOMAIN s /\ n \in DOMAIN t
    <3>1. PICK o : IsContainer(o) /\ x[n] = PodContainer(o, t[n])
      BY <1>1, <1>2, <2>3 DEF Laid, IsContainers
    <3>2. b[n] = x[n] /\ y[n] = PodContainer(b[n], t[n])
      BY <1>2, <1>3, <2>3 DEF Laid
    <3> QED BY <3>1, <3>2, <2>3, ContainerTwice DEF IsContainers
  <2>4. CASE n \in DOMAIN s /\ n \in DOMAIN t
    <3>1. PICK o : IsContainer(o) /\ a[n] = PodContainer(o, s[n])
      BY <1>2, <2>4 DEF Laid, IsContainers
    <3>2. x[n] = PodContainer(a[n], t[n]) /\ b[n] = PodContainer(x[n], s[n])
          /\ y[n] = PodContainer(b[n], t[n])
      BY <1>2, <1>3, <2>4 DEF Laid
    <3> QED BY <3>1, <3>2, <2>4, ContainerBothTwice DEF IsContainers
  <2> QED BY <2>1, <2>2, <2>3, <2>4
<1>5. y = x
  BY <1>1, <1>3, <1>4, SameMap DEF IsContainers
<1> QED BY <1>5 DEF a, x, b, y

-----------------------------------------------------------------------------
(* Restarts end                                                            *)

IsPod(pod) ==
  /\ pod = [labels |-> pod.labels, annotations |-> pod.annotations, init |-> pod.init,
            containers |-> pod.containers, volumes |-> pod.volumes, tolerations |-> pod.tolerations,
            spread |-> pod.spread, fixed |-> pod.fixed, optional |-> pod.optional]
  /\ IsMap(pod.labels) /\ IsMap(pod.annotations) /\ IsMap(pod.volumes)
  /\ IsMap(pod.tolerations) /\ IsMap(pod.spread) /\ IsMap(pod.optional)
  /\ IsContainers(pod.init) /\ IsContainers(pod.containers)

IsWant(want) ==
  /\ IsContainers(want.init) /\ IsContainers(want.userInit)
  /\ IsContainers(want.sidecars) /\ IsContainers(want.containers)

\* UpdatePod: a Pod that has been brought up to date is up to date, whatever it
\* was before and whatever its containers share with the user's sidecars and
\* init containers.  So one restart is enough.
THEOREM UpdateIsIdempotent ==
  ASSUME NEW pod, IsPod(pod), NEW want, IsWant(want)
  PROVE  UpdatePod(UpdatePod(pod, want), want) = UpdatePod(pod, want)
<1> DEFINE x == UpdatePod(pod, want)
           y == UpdatePod(x, want)
<1>1. /\ y.labels = Merge(Merge(pod.labels, want.labels), want.labels)
      /\ y.annotations = Merge(Merge(pod.annotations, want.annotations), want.annotations)
      /\ y.volumes = Merge(Merge(pod.volumes, want.volumes), want.volumes)
      /\ y.tolerations = Merge(Merge(pod.tolerations, want.tolerations), want.tolerations)
      /\ y.spread = Merge(Merge(pod.spread, want.spread), want.spread)
      /\ y.optional = Merge(Merge(pod.optional, want.optional), want.optional)
  BY DEF UpdatePod
<1>2. /\ y.labels = x.labels /\ y.annotations = x.annotations /\ y.volumes = x.volumes
      /\ y.tolerations = x.tolerations /\ y.spread = x.spread /\ y.optional = x.optional
  <2>1. /\ x.labels = Merge(pod.labels, want.labels)
        /\ x.annotations = Merge(pod.annotations, want.annotations)
        /\ x.volumes = Merge(pod.volumes, want.volumes)
        /\ x.tolerations = Merge(pod.tolerations, want.tolerations)
        /\ x.spread = Merge(pod.spread, want.spread)
        /\ x.optional = Merge(pod.optional, want.optional)
    BY DEF UpdatePod
  <2> HIDE DEF x, y
  <2> QED BY <1>1, <2>1, MergeTwice
<1>3. /\ x.init = PodContainers(PodContainers(pod.init, want.init), want.userInit)
      /\ y.init = PodContainers(PodContainers(x.init, want.init), want.userInit)
      /\ x.containers = PodContainers(PodContainers(pod.containers, want.sidecars), want.containers)
      /\ y.containers = PodContainers(PodContainers(x.containers, want.sidecars), want.containers)
  BY DEF UpdatePod
<1>4. /\ x = [labels |-> x.labels, annotations |-> x.annotations, init |-> x.init,
              containers |-> x.containers, volumes |-> x.volumes, tolerations |-> x.tolerations,
              spread |-> x.spread, fixed |-> want.fixed, optional |-> x.optional]
      /\ y = [labels |-> y.labels, annotations |-> y.annotations, init |-> y.init,
              containers |-> y.containers, volumes |-> y.volumes, tolerations |-> y.tolerations,
              spread |-> y.spread, fixed |-> want.fixed, optional |-> y.optional]
  BY DEF UpdatePod
<1> HIDE DEF x, y
<1>5. y.init = x.init /\ y.containers = x.containers
  BY <1>3, ContainersBothTwice DEF IsPod, IsWant
<1>6. y = x
  BY <1>2, <1>4, <1>5
<1> QED BY <1>6 DEF x, y

-----------------------------------------------------------------------------
(* What the operator asks for is well formed                               *)

IsTabletSpec(spec) ==
  /\ IsContainers(spec.userInit) /\ IsContainers(spec.sidecars)
  /\ IsSecurity(spec.security)

LEMMA EmptyIsMap == IsMap(Empty)
  BY DEF Empty, IsMap

LEMMA OneIsMap == ASSUME NEW k, NEW i PROVE IsMap(One(k, i)) /\ DOMAIN One(k, i) = {k} /\ One(k, i)[k] = i
  BY DEF One, IsMap

LEMMA OneContainer ==
  ASSUME NEW n, NEW c, IsContainer(c) PROVE IsContainers(One(n, c))
  BY DEF IsContainers, One, IsMap

LEMMA MergeContainers ==
  ASSUME NEW d, NEW s, IsContainers(d), IsContainers(s) PROVE IsContainers(Merge(d, s))
  BY MergeIsMap DEF IsContainers, Merge

LEMMA TabletContainersType ==
  ASSUME NEW spec, IsTabletSpec(spec)
  PROVE  IsContainers(TabletContainers(spec))
<1>1. IsContainer(VttabletContainer(spec))
  BY MergeIsMap DEF VttabletContainer, IsContainer, IsTabletSpec
<1>2. IsContainer(MysqldContainer(spec))
  BY MergeIsMap DEF MysqldContainer, MysqldMounts, IsContainer, IsTabletSpec
<1>3. IsContainer(ExporterContainer(spec))
  BY MergeIsMap DEF ExporterContainer, MysqldMounts, IsContainer, IsTabletSpec
<1>4. /\ IsContainers(One("vttablet", VttabletContainer(spec)))
      /\ IsContainers(One("mysqld", MysqldContainer(spec)))
      /\ IsContainers(One("mysqld-exporter", ExporterContainer(spec)))
  BY <1>1, <1>2, <1>3, OneContainer
<1> QED BY <1>4, MergeContainers DEF TabletContainers

LEMMA TabletInitType ==
  ASSUME NEW spec, IsTabletSpec(spec)
  PROVE  IsContainers(TabletInitContainers(spec))
<1>1. ASSUME NEW args, NEW mounts, IsMap(mounts)
      PROVE  IsContainer(InitContainer(spec, args, mounts))
  BY <1>1, MergeIsMap DEF InitContainer, IsContainer, IsTabletSpec
<1>2. /\ IsContainers(One("init-vt-root", InitContainer(spec, "vtRootInitScript", One("/mnt/vt", "vt-root"))))
      /\ IsContainers(One("init-mysql-socket",
                          InitContainer(spec, "mysqlSocketInitScript",
                                        One("/vt/vtdataroot", "persistent-volume-claim"))))
      /\ IsContainers(Empty)
  BY <1>1, OneIsMap, OneContainer, EmptyIsMap DEF IsContainers, Empty
<1> QED BY <1>2, MergeContainers DEF TabletInitContainers, If

\* A tablet's Pod needs one restart to carry out any change of the spec: the
\* Pod that the operator then creates, or any Pod brought up to date, is one
\* that UpdatePod leaves alone.
THEOREM TabletRestartsEnd ==
  ASSUME NEW spec, IsTabletSpec(spec), NEW pod, IsPod(pod)
  PROVE  UpdatePod(UpdatePod(pod, TabletPod(spec)), TabletPod(spec)) = UpdatePod(pod, TabletPod(spec))
<1>1. /\ TabletPod(spec).init = TabletInitContainers(spec) /\ TabletPod(spec).userInit = spec.userInit
      /\ TabletPod(spec).sidecars = spec.sidecars
      /\ TabletPod(spec).containers = TabletContainers(spec)
  BY DEF TabletPod
<1>2. IsWant(TabletPod(spec))
  BY <1>1, TabletContainersType, TabletInitType DEF IsWant, IsTabletSpec
<1> QED BY <1>2, UpdateIsIdempotent

\* The same of a member of an etcd cluster.
THEOREM EtcdRestartsEnd ==
  ASSUME NEW spec, IsContainers(spec.userInit), IsContainers(spec.sidecars), IsSecurity(spec.security),
         NEW pod, IsPod(pod)
  PROVE  UpdatePod(UpdatePod(pod, EtcdPod(spec)), EtcdPod(spec)) = UpdatePod(pod, EtcdPod(spec))
<1>1. /\ EtcdPod(spec).init = Empty /\ EtcdPod(spec).userInit = spec.userInit
      /\ EtcdPod(spec).sidecars = spec.sidecars
      /\ EtcdPod(spec).containers = One("etcd", EtcdContainer(spec))
  BY DEF EtcdPod, EtcdContainers
<1>2. IsContainer(EtcdContainer(spec))
  BY MergeIsMap DEF EtcdContainer, IsContainer
<1>3. IsContainers(Empty)
  BY EmptyIsMap DEF IsContainers, Empty
<1>4. IsWant(EtcdPod(spec))
  BY <1>1, <1>2, <1>3, OneContainer DEF IsWant
<1> QED BY <1>4, UpdateIsIdempotent

-----------------------------------------------------------------------------
(* What changes without a restart                                          *)

\* UpdatePodInPlace never hides a change from UpdatePod and never makes one that
\* UpdatePod would take back: the Pod that is asked for is the same afterwards.
THEOREM InPlaceIsPart ==
  ASSUME NEW spec, NEW pod, IsPod(pod)
  PROVE  UpdatePod(UpdatePodInPlace(pod, spec), TabletPod(spec)) = UpdatePod(pod, TabletPod(spec))
<1> DEFINE want == TabletPod(spec)
           x == UpdatePodInPlace(pod, spec)
<1>1. /\ x.annotations = pod.annotations /\ x.init = pod.init /\ x.containers = pod.containers
      /\ x.volumes = pod.volumes /\ x.tolerations = pod.tolerations /\ x.spread = pod.spread
      /\ x.optional = pod.optional
  BY DEF UpdatePodInPlace, IsPod
<1>2. x.labels = Merge(pod.labels, spec.labels)
  BY DEF UpdatePodInPlace, IsPod
<1>3. want.labels = Merge(spec.labels, spec.extraLabels)
  BY DEF TabletPod
<1> HIDE DEF x, want
<1>4. Merge(x.labels, want.labels) = Merge(pod.labels, want.labels)
  BY <1>2, <1>3 DEF Merge
<1>5. UpdatePod(x, want) = UpdatePod(pod, want)
  BY <1>1, <1>4 DEF UpdatePod
<1> QED BY <1>5 DEF x, want

-----------------------------------------------------------------------------
(* What others add stays                                                   *)

\* A container to which mounts and resources have been added.
Enriched(c, added) ==
  [rest     |-> c.rest,
   pull     |-> c.pull,
   limits   |-> Merge(added.limits, c.limits),
   requests |-> Merge(added.requests, c.requests),
   security |-> c.security,
   mounts   |-> Merge(added.mounts, c.mounts)]

EnrichedContainers(cs, added) ==
  [n \in DOMAIN cs |-> IF n \in DOMAIN added THEN Enriched(cs[n], added[n]) ELSE cs[n]]

\* A Pod to which a webhook or the API server has added labels, annotations,
\* volumes, tolerations, spread constraints and whole containers, and mounts and
\* resources to the containers that it has.
Injected(pod, more) ==
  [labels      |-> Merge(more.labels, pod.labels),
   annotations |-> Merge(more.annotations, pod.annotations),
   init        |-> Merge(more.init, EnrichedContainers(pod.init, more.toInit)),
   containers  |-> Merge(more.containers, EnrichedContainers(pod.containers, more.toContainers)),
   volumes     |-> Merge(more.volumes, pod.volumes),
   tolerations |-> Merge(more.tolerations, pod.tolerations),
   spread      |-> Merge(more.spread, pod.spread),
   fixed       |-> pod.fixed,
   optional    |-> pod.optional]

LEMMA InjectedMap ==
  ASSUME NEW more, NEW map, NEW want, Merge(map, want) = map
  PROVE  Merge(Merge(more, map), want) = Merge(more, map)
<1>1. DOMAIN want \subseteq DOMAIN map /\ \A k \in DOMAIN want : map[k] = want[k]
  BY DEF Merge
<1> QED BY <1>1 DEF Merge

LEMMA InjectedMapTwice ==
  ASSUME NEW more, NEW map, NEW s, NEW t, Merge(Merge(map, s), t) = map
  PROVE  Merge(Merge(Merge(more, map), s), t) = Merge(more, map)
<1> DEFINE a == Merge(map, s)
           x == Merge(a, t)
<1>1. /\ DOMAIN a = DOMAIN map \cup DOMAIN s
      /\ \A k \in DOMAIN s : a[k] = s[k]
  BY DEF Merge
<1>2. /\ DOMAIN x = DOMAIN a \cup DOMAIN t
      /\ \A k \in DOMAIN t : x[k] = t[k]
      /\ \A k \in DOMAIN a \ DOMAIN t : x[k] = a[k]
  BY DEF Merge
<1>3. x = map
  OBVIOUS
<1> HIDE DEF a, x
<1>4. /\ DOMAIN s \subseteq DOMAIN map /\ DOMAIN t \subseteq DOMAIN map
      /\ \A k \in DOMAIN t : map[k] = t[k]
      /\ \A k \in DOMAIN s \ DOMAIN t : map[k] = s[k]
  BY <1>1, <1>2, <1>3
<1> QED BY <1>4 DEF Merge

LEMMA EnrichedType ==
  ASSUME NEW c, IsContainer(c), NEW added PROVE IsContainer(Enriched(c, added))
  BY MergeIsMap DEF Enriched, IsContainer

\* A container that one or two others, laid over it, leave alone is left alone
\* with what was added to it as well.
LEMMA EnrichedContainer ==
  ASSUME NEW c, NEW s, PodContainer(c, s) = c, NEW added
  PROVE  PodContainer(Enriched(c, added), s) = Enriched(c, added)
<1> DEFINE e == Enriched(c, added)
<1>1. /\ c.rest = s.rest /\ c.pull = IF s.pull = None THEN c.pull ELSE s.pull
      /\ Merge(c.limits, s.limits) = c.limits /\ Merge(c.requests, s.requests) = c.requests
      /\ MergeSecurity(c.security, s.security) = c.security /\ Merge(c.mounts, s.mounts) = c.mounts
  <2>1. /\ PodContainer(c, s).rest = s.rest
        /\ PodContainer(c, s).pull = IF s.pull = None THEN c.pull ELSE s.pull
        /\ PodContainer(c, s).limits = Merge(c.limits, s.limits)
        /\ PodContainer(c, s).requests = Merge(c.requests, s.requests)
        /\ PodContainer(c, s).security = MergeSecurity(c.security, s.security)
        /\ PodContainer(c, s).mounts = Merge(c.mounts, s.mounts)
    BY DEF PodContainer
  <2> QED BY <2>1
<1>2. /\ e.rest = c.rest /\ e.pull = c.pull /\ e.security = c.security
      /\ e.limits = Merge(added.limits, c.limits) /\ e.requests = Merge(added.requests, c.requests)
      /\ e.mounts = Merge(added.mounts, c.mounts)
      /\ e = [rest |-> e.rest, pull |-> e.pull, limits |-> e.limits, requests |-> e.requests,
              security |-> e.security, mounts |-> e.mounts]
  BY DEF Enriched
<1> HIDE DEF e
<1>3. /\ Merge(e.limits, s.limits) = e.limits /\ Merge(e.requests, s.requests) = e.requests
      /\ Merge(e.mounts, s.mounts) = e.mounts
  BY <1>1, <1>2, InjectedMap
<1>4. PodContainer(e, s) = e
  BY <1>1, <1>2, <1>3 DEF PodContainer
<1> QED BY <1>4 DEF e

LEMMA EnrichedContainerBoth ==
  ASSUME NEW c, NEW s, NEW t, PodContainer(PodContainer(c, s), t) = c, NEW added
  PROVE  PodContainer(PodContainer(Enriched(c, added), s), t) = Enriched(c, added)
<1> DEFINE a == PodContainer(c, s)
           x == PodContainer(a, t)
           e == Enriched(c, added)
           b == PodContainer(e, s)
           y == PodContainer(b, t)
<1>1. /\ a.pull = (IF s.pull = None THEN c.pull ELSE s.pull)
      /\ a.security = MergeSecurity(c.security, s.security)
      /\ a.limits = Merge(c.limits, s.limits) /\ a.requests = Merge(c.requests, s.requests)
      /\ a.mounts = Merge(c.mounts, s.mounts)
  BY DEF PodContainer
<1>2. /\ x.rest = t.rest /\ x.pull = (IF t.pull = None THEN a.pull ELSE t.pull)
      /\ x.security = MergeSecurity(a.security, t.security)
      /\ x.limits = Merge(a.limits, t.limits) /\ x.requests = Merge(a.requests, t.requests)
      /\ x.mounts = Merge(a.mounts, t.mounts)
  BY DEF PodContainer
<1>3. x = c
  OBVIOUS
<1>4. /\ e.rest = c.rest /\ e.pull = c.pull /\ e.security = c.security
      /\ e.limits = Merge(added.limits, c.limits) /\ e.requests = Merge(added.requests, c.requests)
      /\ e.mounts = Merge(added.mounts, c.mounts)
      /\ e = [rest |-> e.rest, pull |-> e.pull, limits |-> e.limits, requests |-> e.requests,
              security |-> e.security, mounts |-> e.mounts]
  BY DEF Enriched
<1>5. /\ b.pull = (IF s.pull = None THEN e.pull ELSE s.pull)
      /\ b.security = MergeSecurity(e.security, s.security)
      /\ b.limits = Merge(e.limits, s.limits) /\ b.requests = Merge(e.requests, s.requests)
      /\ b.mounts = Merge(e.mounts, s.mounts)
  BY DEF PodContainer
<1>6. /\ y.rest = t.rest /\ y.pull = (IF t.pull = None THEN b.pull ELSE t.pull)
      /\ y.security = MergeSecurity(b.security, t.security)
      /\ y.limits = Merge(b.limits, t.limits) /\ y.requests = Merge(b.requests, t.requests)
      /\ y.mounts = Merge(b.mounts, t.mounts)
      /\ y = [rest |-> y.rest, pull |-> y.pull, limits |-> y.limits, requests |-> y.requests,
              security |-> y.security, mounts |-> y.mounts]
  BY DEF PodContainer
<1> HIDE DEF a, x, e, b, y
<1>7. y.rest = e.rest /\ y.pull = e.pull /\ y.security = e.security
  BY <1>1, <1>2, <1>3, <1>4, <1>5, <1>6
<1>8. y.limits = e.limits /\ y.requests = e.requests /\ y.mounts = e.mounts
  BY <1>1, <1>2, <1>3, <1>4, <1>5, <1>6, InjectedMapTwice
<1>9. y = e
  BY <1>4, <1>6, <1>7, <1>8
<1> QED BY <1>9 DEF e, b, y

LEMMA EnrichedContainersStay ==
  ASSUME NEW c, NEW s, NEW t, NEW added, IsContainers(c), IsContainers(s), IsContainers(t),
         PodContainers(PodContainers(c, s), t) = c
  PROVE  LET e == EnrichedContainers(c, added)
         IN  IsContainers(e) /\ PodContainers(PodContainers(e, s), t) = e
<1> DEFINE a == PodContainers(c, s)
           e == EnrichedContainers(c, added)
           b == PodContainers(e, s)
           y == PodContainers(b, t)
<1>1. /\ DOMAIN e = DOMAIN c
      /\ \A n \in DOMAIN c : e[n] = IF n \in DOMAIN added THEN Enriched(c[n], added[n]) ELSE c[n]
  BY DEF EnrichedContainers
<1>2. IsMap(e)
  BY DEF EnrichedContainers, IsMap
<1> HIDE DEF e
<1>3. IsContainers(e)
  BY <1>1, <1>2, EnrichedType DEF IsContainers
<1>4. IsContainers(a) /\ IsContainers(b) /\ IsContainers(y)
  BY <1>3, ContainersLaid
<1>5. Laid(c, s, a) /\ Laid(a, t, c) /\ Laid(e, s, b) /\ Laid(b, t, y)
  BY <1>3, <1>4, ContainersLaid
<1> HIDE DEF a, b, y
<1>6. /\ DOMAIN s \subseteq DOMAIN c /\ DOMAIN t \subseteq DOMAIN c
      /\ DOMAIN a = DOMAIN c /\ DOMAIN b = DOMAIN c /\ DOMAIN y = DOMAIN c
  BY <1>1, <1>5 DEF Laid
<1>7. ASSUME NEW n \in DOMAIN c
      PROVE  y[n] = e[n]
  <2>1. CASE n \notin DOMAIN s /\ n \notin DOMAIN t
    BY <1>1, <1>5, <1>6, <2>1 DEF Laid
  <2>2. CASE n \in DOMAIN s /\ n \notin DOMAIN t
    <3>1. PodContainer(c[n], s[n]) = c[n] /\ y[n] = PodContainer(e[n], s[n])
      BY <1>1, <1>5, <1>6, <2>2 DEF Laid
    <3> QED BY <1>1, <3>1, EnrichedContainer
  <2>3. CASE n \notin DOMAIN s /\ n \in DOMAIN t
    <3>1. PodContainer(c[n], t[n]) = c[n] /\ y[n] = PodContainer(e[n], t[n])
      BY <1>1, <1>5, <1>6, <2>3 DEF Laid
    <3> QED BY <1>1, <3>1, EnrichedContainer
  <2>4. CASE n \in DOMAIN s /\ n \in DOMAIN t
    <3>1. /\ PodContainer(PodContainer(c[n], s[n]), t[n]) = c[n]
          /\ y[n] = PodContainer(PodContainer(e[n], s[n]), t[n])
      BY <1>1, <1>5, <1>6, <2>4 DEF Laid
    <3> QED BY <1>1, <3>1, EnrichedContainerBoth
  <2> QED BY <2>1, <2>2, <2>3, <2>4
<1>8. y = e
  BY <1>1, <1>3, <1>4, <1>6, <1>7, SameMap DEF IsContainers
<1> QED BY <1>3, <1>8 DEF e, b, y

\* What is merged is a map, so a map that a merge leaves alone stays the same.
LEMMA InjectedContainers ==
  ASSUME NEW more, NEW c, NEW s, NEW t,
         IsContainers(more), IsContainers(c), IsContainers(s), IsContainers(t),
         PodContainers(PodContainers(c, s), t) = c
  PROVE  PodContainers(PodContainers(Merge(more, c), s), t) = Merge(more, c)
<1> DEFINE d == Merge(more, c)
           a == PodContainers(c, s)
           b == PodContainers(d, s)
           y == PodContainers(b, t)
<1>1. IsContainers(d) /\ IsContainers(a) /\ IsContainers(b) /\ IsContainers(y)
  BY MergeContainers, ContainersLaid
<1>2. Laid(c, s, a) /\ Laid(a, t, c) /\ Laid(d, s, b) /\ Laid(b, t, y)
  BY <1>1, ContainersLaid
<1>3. DOMAIN d = DOMAIN more \cup DOMAIN c /\ \A n \in DOMAIN c : d[n] = c[n]
  BY DEF Merge
<1> HIDE DEF d, a, b, y
<1>4. DOMAIN s \subseteq DOMAIN c /\ DOMAIN t \subseteq DOMAIN c
  BY <1>2 DEF Laid
<1>5. DOMAIN b = DOMAIN d /\ DOMAIN y = DOMAIN d /\ DOMAIN a = DOMAIN c
  BY <1>2, <1>3, <1>4 DEF Laid
<1>6. ASSUME NEW n \in DOMAIN c
      PROVE  y[n] = c[n]
  <2>1. b[n] = a[n]
    BY <1>2, <1>3, <1>4, <1>5 DEF Laid
  <2> QED BY <1>2, <1>3, <1>4, <1>5, <2>1 DEF Laid
<1>7. ASSUME NEW n \in DOMAIN d \ DOMAIN c
      PROVE  y[n] = d[n]
  BY <1>2, <1>4, <1>5 DEF Laid
<1>8. \A n \in DOMAIN d : y[n] = d[n]
  BY <1>3, <1>6, <1>7
<1>9. y = d
  BY <1>1, <1>5, <1>8, SameMap DEF IsContainers
<1> QED BY <1>9 DEF d, b, y

\* UpdatePod tolerates what it did not ask for: if a Pod is up to date, it still
\* is after an injection.  So the operator never fights a webhook over these; it
\* would over the image, the arguments or the variables of one of its containers.
THEOREM InjectionsAreTolerated ==
  ASSUME NEW pod, IsPod(pod), NEW want, IsWant(want), UpdatePod(pod, want) = pod,
         NEW more, IsContainers(more.init), IsContainers(more.containers)
  PROVE  UpdatePod(Injected(pod, more), want) = Injected(pod, more)
<1> DEFINE u == UpdatePod(pod, want)
           x == Injected(pod, more)
           y == UpdatePod(x, want)
<1>1. /\ u.labels = Merge(pod.labels, want.labels)
      /\ u.annotations = Merge(pod.annotations, want.annotations)
      /\ u.volumes = Merge(pod.volumes, want.volumes)
      /\ u.tolerations = Merge(pod.tolerations, want.tolerations)
      /\ u.spread = Merge(pod.spread, want.spread)
      /\ u.optional = Merge(pod.optional, want.optional)
      /\ u.init = PodContainers(PodContainers(pod.init, want.init), want.userInit)
      /\ u.containers = PodContainers(PodContainers(pod.containers, want.sidecars), want.containers)
      /\ u.fixed = want.fixed
  BY DEF UpdatePod
<1>2. u = pod
  OBVIOUS
<1>3. /\ x.labels = Merge(more.labels, pod.labels)
      /\ x.annotations = Merge(more.annotations, pod.annotations)
      /\ x.volumes = Merge(more.volumes, pod.volumes)
      /\ x.tolerations = Merge(more.tolerations, pod.tolerations)
      /\ x.spread = Merge(more.spread, pod.spread)
      /\ x.optional = pod.optional /\ x.fixed = pod.fixed
      /\ x.init = Merge(more.init, EnrichedContainers(pod.init, more.toInit))
      /\ x.containers = Merge(more.containers, EnrichedContainers(pod.containers, more.toContainers))
      /\ x = [labels |-> x.labels, annotations |-> x.annotations, init |-> x.init,
              containers |-> x.containers, volumes |-> x.volumes, tolerations |-> x.tolerations,
              spread |-> x.spread, fixed |-> x.fixed, optional |-> x.optional]
  BY DEF Injected
<1>4. /\ y.labels = Merge(x.labels, want.labels)
      /\ y.annotations = Merge(x.annotations, want.annotations)
      /\ y.volumes = Merge(x.volumes, want.volumes)
      /\ y.tolerations = Merge(x.tolerations, want.tolerations)
      /\ y.spread = Merge(x.spread, want.spread)
      /\ y.optional = Merge(x.optional, want.optional)
      /\ y.init = PodContainers(PodContainers(x.init, want.init), want.userInit)
      /\ y.containers = PodContainers(PodContainers(x.containers, want.sidecars), want.containers)
      /\ y.fixed = want.fixed
      /\ y = [labels |-> y.labels, annotations |-> y.annotations, init |-> y.init,
              containers |-> y.containers, volumes |-> y.volumes, tolerations |-> y.tolerations,
              spread |-> y.spread, fixed |-> y.fixed, optional |-> y.optional]
  BY DEF UpdatePod
<1> HIDE DEF u, x, y
<1>5. /\ y.labels = x.labels /\ y.annotations = x.annotations /\ y.volumes = x.volumes
      /\ y.tolerations = x.tolerations /\ y.spread = x.spread
  BY <1>1, <1>2, <1>3, <1>4, InjectedMap
<1>6. y.optional = x.optional /\ y.fixed = x.fixed
  BY <1>1, <1>2, <1>3, <1>4
<1>7. y.init = x.init /\ y.containers = x.containers
  <2> DEFINE init == EnrichedContainers(pod.init, more.toInit)
             containers == EnrichedContainers(pod.containers, more.toContainers)
  <2>1. /\ IsContainers(init)
        /\ PodContainers(PodContainers(init, want.init), want.userInit) = init
        /\ IsContainers(containers)
        /\ PodContainers(PodContainers(containers, want.sidecars), want.containers) = containers
    BY <1>1, <1>2, EnrichedContainersStay DEF IsPod, IsWant
  <2> HIDE DEF init, containers
  <2>2. x.init = Merge(more.init, init) /\ x.containers = Merge(more.containers, containers)
    BY <1>3 DEF init, containers
  <2> QED BY <1>4, <2>1, <2>2, InjectedContainers DEF IsWant
<1>8. y = x
  BY <1>3, <1>4, <1>5, <1>6, <1>7
<1> QED BY <1>8 DEF x, y

-----------------------------------------------------------------------------
(* What flags and mounts name is there                                     *)

\* Everywhere a mount of the files that is named by a flag or a variable.
Found(names, files, mounts) == \A f \in names \cap DOMAIN files : files[f] \in DOMAIN mounts

\* Every mount is of a volume of the Pod or of one that the user has promised.
Provided(mounts, volumes, promised) ==
  \A p \in DOMAIN mounts : mounts[p] \in DOMAIN volumes \cup promised

\* The volume that the user promises who gives a Secret by a volume's name.
Promised(secret) == IF secret = None \/ secret.name # None THEN {} ELSE {secret.volume}

\* A Secret is given by its name or by a volume's.
IsSecret(secret) == secret # None /\ (secret.name # None \/ secret.volume # None)

\* Two of the clouds cannot do without a Secret.
IsLocation(location) ==
  /\ location.kind \in Clouds \cup {"file"}
  /\ location.kind \in {"azblob", "ceph"} => location.secret # None
  /\ location.secret # None => IsSecret(location.secret)

StorageFiles ==
  {"azblob_backup_account_key_file", "ceph_backup_storage_config", "file_backup_storage_root"}
StorageVars == {"GOOGLE_APPLICATION_CREDENTIALS", "AWS_SHARED_CREDENTIALS_FILE", "CEPH_CREDENTIALS_FILE"}

LEMMA MergeDomain ==
  ASSUME NEW d, NEW s PROVE DOMAIN Merge(d, s) = DOMAIN d \cup DOMAIN s
  BY DEF Merge

LEMMA MergeProvided ==
  ASSUME NEW m1, NEW m2, NEW v1, NEW v2, NEW u1, NEW u2, Provided(m1, v1, u1), Provided(m2, v2, u2)
  PROVE  Provided(Merge(m1, m2), Merge(v1, v2), u1 \cup u2)
  BY DEF Provided, Merge

LEMMA SecretProvided ==
  ASSUME NEW secret, IsSecret(secret), NEW dir
  PROVE  Provided(ContainerVolumeMount(secret, dir), PodVolumes(secret, dir), Promised(secret))
  BY DEF Provided, ContainerVolumeMount, PodVolumes, Promised, IsSecret, VolumeName, One

\* Wherever backups are, the files that vttablet, vtbackup and vtctld are told to
\* read or write are in a directory that is mounted, from a volume that is there.
LEMMA StorageIsMounted ==
  ASSUME NEW location, IsLocation(location)
  PROVE  /\ Found(StorageFiles, StorageFlags(location), StorageVolumeMounts(location))
         /\ Found(StorageVars, StorageEnvVars(location), StorageVolumeMounts(location))
         /\ Provided(StorageVolumeMounts(location), StorageVolumes(location),
                     Promised(location.secret))
<1>1. CASE location.kind = "file"
  <2>1. ~HasSecret(location)
    BY <1>1 DEF HasSecret, Clouds
  <2>2. StorageVolumeMounts(location) = One("/vt/backups", "vitess-backups")
        /\ StorageVolumes(location) = One("vitess-backups", location.volume)
    BY <1>1, <2>1 DEF StorageVolumeMounts, StorageVolumes
  <2>3. StorageEnvVars(location) = Empty
    BY <1>1 DEF StorageEnvVars
  <2>4. StorageFlags(location) = Merge(One("backup_storage_implementation", location.kind),
                                       One("file_backup_storage_root", "/vt/backups"))
    BY <1>1 DEF StorageFlags
  <2> QED BY <2>2, <2>3, <2>4 DEF Found, Provided, One, Merge, Empty, StorageFiles
<1>2. CASE location.kind \in Clouds /\ location.secret = None
  <2>1. ~HasSecret(location) /\ location.kind \in {"gcs", "s3"}
    BY <1>2 DEF HasSecret, IsLocation, Clouds
  <2>2. StorageVolumeMounts(location) = Empty
    BY <2>1 DEF StorageVolumeMounts
  <2>3. StorageEnvVars(location) = Empty
    BY <2>1 DEF StorageEnvVars
  <2>4. StorageFlags(location) = Merge(One("backup_storage_implementation", location.kind), Empty)
    BY <2>1 DEF StorageFlags
  <2> QED BY <2>2, <2>3, <2>4 DEF Found, Provided, One, Merge, Empty, StorageFiles
<1>3. CASE location.kind \in Clouds /\ location.secret # None
  <2>1. HasSecret(location)
    BY <1>3 DEF HasSecret
  <2>2. /\ StorageVolumeMounts(location) = ContainerVolumeMount(location.secret, AuthDir[location.kind])
        /\ StorageVolumes(location) = PodVolumes(location.secret, AuthDir[location.kind])
    <3>1. location.kind # "file"
      BY <1>3 DEF Clouds
    <3> QED BY <2>1, <3>1 DEF StorageVolumeMounts, StorageVolumes
  <2>3. DOMAIN StorageVolumeMounts(location) = {AuthDir[location.kind]}
    BY <2>2 DEF ContainerVolumeMount, One
  <2>4. Found(StorageVars, StorageEnvVars(location), StorageVolumeMounts(location))
    BY <1>3, <2>1, <2>3 DEF Found, StorageEnvVars, One, Empty, Clouds
  <2>5. Found(StorageFiles, StorageFlags(location), StorageVolumeMounts(location))
    BY <1>3, <2>1, <2>3 DEF Found, StorageFlags, One, Empty, Merge, Clouds, StorageFiles
  <2>6. IsSecret(location.secret)
    BY <1>3 DEF IsLocation
  <2> QED BY <2>2, <2>4, <2>5, <2>6, SecretProvided
<1> QED BY <1>1, <1>2, <1>3 DEF IsLocation, Clouds

\* What the user promises to a tablet.
TabletPromises(spec) ==
  (IF HasBackups(spec) THEN Promised(spec.location.secret) ELSE {})
    \cup (IF spec.external # None THEN Promised(spec.external.credentials) ELSE {})
    \cup (IF HasCACert(spec) THEN Promised(spec.external.ca) ELSE {})
    \cup Promised(spec.initScript)

\* A tablet's MySQL is either its own or someone else's.
IsTabletStorage(spec) ==
  /\ spec.location # None => IsLocation(spec.location)
  /\ spec.external # None => IsSecret(spec.external.credentials)
  /\ HasCACert(spec) => IsSecret(spec.external.ca)
  /\ IsSecret(spec.initScript)

LEMMA IfProvided ==
  ASSUME NEW c \in BOOLEAN, NEW m, NEW v, NEW u, c => Provided(m, v, u)
  PROVE  Provided(If(c, m), If(c, v), IF c THEN u ELSE {})
  BY DEF Provided, If, Empty

LEMMA ProvidedInMore ==
  ASSUME NEW m, NEW v, NEW w, NEW u, NEW x, Provided(m, v, u), DOMAIN v \subseteq DOMAIN w, u \subseteq x
  PROVE  Provided(m, w, x)
  BY DEF Provided

LEMMA MergesProvided ==
  ASSUME NEW m, NEW n, NEW v, NEW u, Provided(m, v, u), Provided(n, v, u)
  PROVE  Provided(Merge(m, n), v, u)
  BY DEF Provided, Merge

\* The seven features of a tablet's Pod are spread over as many files, and each
\* adds its volumes and mounts on its own condition.  Each of the mounts is of a
\* volume, or of one that the user has promised by naming it for a Secret.
LEMMA FeaturesHaveVolumes ==
  ASSUME NEW spec, IsTabletStorage(spec)
  PROVE  /\ Provided(VttabletVolumeMounts(spec), TabletVolumes(spec), TabletPromises(spec))
         /\ Provided(TabletVolumeMounts(spec), TabletVolumes(spec), TabletPromises(spec))
         /\ Provided(MysqldVolumeMounts(spec), TabletVolumes(spec), TabletPromises(spec))
         /\ "vt-root" \in DOMAIN TabletVolumes(spec)
         /\ spec.pvc # None => "persistent-volume-claim" \in DOMAIN TabletVolumes(spec)
<1> DEFINE volumes == TabletVolumes(spec)
           promised == TabletPromises(spec)
           backups == If(HasBackups(spec), StorageVolumes(spec.location))
           credentials == If(spec.external # None, PodVolumes(spec.external.credentials, CredentialsDir))
           caCert == If(HasCACert(spec), PodVolumes(spec.external.ca, CACertDir))
           root == One("vt-root", "emptyDir")
           overrides == If(HasOverrides(spec), One("pod-config", "downwardAPI"))
           claim == If(spec.pvc # None, One("persistent-volume-claim", spec.pvc))
           script == PodVolumes(spec.initScript, InitScriptDir)
<1>1. DOMAIN volumes = DOMAIN backups \cup DOMAIN credentials \cup DOMAIN caCert \cup DOMAIN root
                         \cup DOMAIN overrides \cup DOMAIN claim \cup DOMAIN script
  <2> DEFINE v1 == Merge(backups, credentials)
             v2 == Merge(v1, caCert)
             v3 == Merge(v2, root)
             v4 == Merge(v3, overrides)
             v5 == Merge(v4, claim)
  <2>1. volumes = Merge(v5, script)
    BY DEF TabletVolumes
  <2> HIDE DEF volumes, backups, credentials, caCert, root, overrides, claim, script
  <2>2. DOMAIN v1 = DOMAIN backups \cup DOMAIN credentials
    BY MergeDomain
  <2>3. DOMAIN v2 = DOMAIN v1 \cup DOMAIN caCert
    BY MergeDomain
  <2>4. DOMAIN v3 = DOMAIN v2 \cup DOMAIN root
    BY MergeDomain
  <2>5. DOMAIN v4 = DOMAIN v3 \cup DOMAIN overrides
    BY MergeDomain
  <2>6. DOMAIN v5 = DOMAIN v4 \cup DOMAIN claim
    BY MergeDomain
  <2>7. DOMAIN volumes = DOMAIN v5 \cup DOMAIN script
    BY <2>1, MergeDomain
  <2> HIDE DEF v1, v2, v3, v4, v5
  <2> QED BY <2>2, <2>3, <2>4, <2>5, <2>6, <2>7
<1>2. promised = (IF HasBackups(spec) THEN Promised(spec.location.secret) ELSE {})
        \cup (IF spec.external # None THEN Promised(spec.external.credentials) ELSE {})
        \cup (IF HasCACert(spec) THEN Promised(spec.external.ca) ELSE {})
        \cup Promised(spec.initScript)
  BY DEF TabletPromises
<1> HIDE DEF volumes, promised
<1>3. Provided(VttabletVolumeMounts(spec), volumes, promised)
  <2>1. HasBackups(spec) => Provided(StorageVolumeMounts(spec.location), StorageVolumes(spec.location),
                                     Promised(spec.location.secret))
    BY StorageIsMounted DEF HasBackups, IsTabletStorage
  <2>2. Provided(VttabletVolumeMounts(spec), backups,
                 IF HasBackups(spec) THEN Promised(spec.location.secret) ELSE {})
    BY <2>1, IfProvided DEF VttabletVolumeMounts, HasBackups
  <2> QED BY <1>1, <1>2, <2>2, ProvidedInMore
<1>4. Provided(If(spec.external # None, ContainerVolumeMount(spec.external.credentials, CredentialsDir)),
               volumes, promised)
  <2>1. spec.external # None => Provided(ContainerVolumeMount(spec.external.credentials, CredentialsDir),
                                         PodVolumes(spec.external.credentials, CredentialsDir),
                                         Promised(spec.external.credentials))
    BY SecretProvided DEF IsTabletStorage
  <2>2. Provided(If(spec.external # None, ContainerVolumeMount(spec.external.credentials, CredentialsDir)),
                 credentials, IF spec.external # None THEN Promised(spec.external.credentials) ELSE {})
    BY <2>1, IfProvided
  <2> QED BY <1>1, <1>2, <2>2, ProvidedInMore
<1>5. Provided(If(HasCACert(spec), ContainerVolumeMount(spec.external.ca, CACertDir)), volumes, promised)
  <2>1. HasCACert(spec) => Provided(ContainerVolumeMount(spec.external.ca, CACertDir),
                                    PodVolumes(spec.external.ca, CACertDir), Promised(spec.external.ca))
    BY SecretProvided DEF IsTabletStorage
  <2>2. Provided(If(HasCACert(spec), ContainerVolumeMount(spec.external.ca, CACertDir)),
                 caCert, IF HasCACert(spec) THEN Promised(spec.external.ca) ELSE {})
    BY <2>1, IfProvided DEF HasCACert
  <2> QED BY <1>1, <1>2, <2>2, ProvidedInMore
<1>6. Provided(ContainerVolumeMount(spec.initScript, InitScriptDir), volumes, promised)
  BY <1>1, <1>2, SecretProvided, ProvidedInMore DEF IsTabletStorage
<1>7. /\ Provided([p \in {"/vt/config", "/vt/socket"} |-> "vt-root"], volumes, promised)
      /\ Provided(MysqldVolumeMounts(spec), volumes, promised)
  <2>1. "vt-root" \in DOMAIN volumes
    BY <1>1 DEF One
  <2> QED BY <2>1 DEF Provided, MysqldVolumeMounts, One
<1>8. Provided(If(HasOverrides(spec), One("/pod-config", "pod-config")), volumes, promised)
  <2>1. HasOverrides(spec) => "pod-config" \in DOMAIN volumes
    BY <1>1 DEF One, If
  <2> QED BY <2>1 DEF Provided, If, One, Empty
<1>9. (spec.pvc # None => "persistent-volume-claim" \in DOMAIN volumes) /\ "vt-root" \in DOMAIN volumes
  BY <1>1 DEF One, If
<1>10. Provided(One("/vt/vtdataroot", IF spec.pvc = None THEN "vt-root" ELSE "persistent-volume-claim"),
                volumes, promised)
  BY <1>9 DEF Provided, One
<1>11. Provided(TabletVolumeMounts(spec), volumes, promised)
  BY <1>4, <1>5, <1>6, <1>7, <1>8, <1>10, MergesProvided DEF TabletVolumeMounts
<1> QED BY <1>3, <1>7, <1>9, <1>11 DEF volumes, promised

\* The volumes that the user names: for a Secret or to mount them in addition.
UserNames(spec) ==
  TabletPromises(spec) \cup {spec.extraMounts[p] : p \in DOMAIN spec.extraMounts}

ContainersProvided(containers, volumes, names) ==
  \A n \in DOMAIN containers : Provided(containers[n].mounts, volumes, names)

LEMMA OneProvided ==
  ASSUME NEW n, NEW c, NEW volumes, NEW names, Provided(c.mounts, volumes, names)
  PROVE  ContainersProvided(One(n, c), volumes, names)
  BY DEF ContainersProvided, One

LEMMA MergeContainersProvided ==
  ASSUME NEW c, NEW d, NEW volumes, NEW names,
         ContainersProvided(c, volumes, names), ContainersProvided(d, volumes, names)
  PROVE  ContainersProvided(Merge(c, d), volumes, names)
  BY DEF ContainersProvided, Merge

\* Every container and init container that the operator asks for in a tablet's
\* Pod, and the container of a vtbackup Pod, mounts volumes of the Pod or volumes
\* that the user names; otherwise the Pod would be rejected.
THEOREM TabletMountsHaveVolumes ==
  ASSUME NEW spec, IsTabletStorage(spec)
  PROVE  LET volumes == Merge(TabletVolumes(spec), spec.extraVolumes)
         IN  /\ TabletPod(spec).volumes = volumes
             /\ ContainersProvided(TabletPod(spec).containers, volumes, UserNames(spec))
             /\ ContainersProvided(TabletPod(spec).init, volumes, UserNames(spec))
             /\ Provided(BackupMounts(spec), volumes, UserNames(spec))
<1> DEFINE volumes == Merge(TabletVolumes(spec), spec.extraVolumes)
           names == UserNames(spec)
           root == One("/mnt/vt", "vt-root")
           data == One("/vt/vtdataroot", "persistent-volume-claim")
<1>1. /\ TabletPod(spec).volumes = volumes /\ TabletPod(spec).containers = TabletContainers(spec)
      /\ TabletPod(spec).init = TabletInitContainers(spec)
  BY DEF TabletPod
<1>2. DOMAIN TabletVolumes(spec) \subseteq DOMAIN volumes /\ TabletPromises(spec) \subseteq names
  BY MergeDomain DEF UserNames
<1>3. "vt-root" \in DOMAIN volumes /\ (spec.pvc # None => "persistent-volume-claim" \in DOMAIN volumes)
  <2>1. /\ "vt-root" \in DOMAIN TabletVolumes(spec)
        /\ spec.pvc # None => "persistent-volume-claim" \in DOMAIN TabletVolumes(spec)
    BY FeaturesHaveVolumes
  <2> QED BY <1>2, <2>1
<1>4. Provided(spec.extraMounts, volumes, names)
  BY DEF Provided, UserNames
<1> HIDE DEF volumes, names
<1>5. /\ Provided(VttabletVolumeMounts(spec), volumes, names)
      /\ Provided(TabletVolumeMounts(spec), volumes, names)
      /\ Provided(MysqldVolumeMounts(spec), volumes, names)
  BY <1>2, FeaturesHaveVolumes, ProvidedInMore
<1>6. /\ Provided(VttabletContainer(spec).mounts, volumes, names)
      /\ Provided(MysqldMounts(spec), volumes, names)
  <2>1. VttabletContainer(spec).mounts
          = Merge(Merge(VttabletVolumeMounts(spec), TabletVolumeMounts(spec)), spec.extraMounts)
    BY DEF VttabletContainer
  <2> QED BY <1>4, <1>5, <2>1, MergesProvided DEF MysqldMounts
<1>7. /\ MysqldContainer(spec).mounts = MysqldMounts(spec)
      /\ ExporterContainer(spec).mounts = MysqldMounts(spec)
  BY DEF MysqldContainer, ExporterContainer
<1>8. ContainersProvided(TabletContainers(spec), volumes, names)
  BY <1>6, <1>7, OneProvided, MergeContainersProvided DEF TabletContainers
<1>9. Provided(root, volumes, names) /\ (spec.pvc # None => Provided(data, volumes, names))
  BY <1>3 DEF Provided, One
<1>10. \A args, mounts : InitContainer(spec, args, mounts).mounts = mounts
  BY DEF InitContainer
<1>11. ContainersProvided(TabletInitContainers(spec), volumes, names)
  <2>1. ContainersProvided(One("init-vt-root", InitContainer(spec, "vtRootInitScript", root)), volumes, names)
    BY <1>9, <1>10, OneProvided
  <2>2. ContainersProvided(If(spec.pvc # None,
                              One("init-mysql-socket", InitContainer(spec, "mysqlSocketInitScript", data))),
                           volumes, names)
    <3>1. CASE spec.pvc # None
      BY <1>9, <1>10, <3>1, OneProvided DEF If
    <3>2. CASE spec.pvc = None
      BY <3>2 DEF If, Empty, ContainersProvided
    <3> QED BY <3>1, <3>2
  <2> QED BY <2>1, <2>2, MergeContainersProvided DEF TabletInitContainers
<1>12. Provided(BackupMounts(spec), volumes, names)
  <2>1. Provided(One("/etc/ssl/certs", "vt-root"), volumes, names)
    BY <1>3 DEF Provided, One
  <2> QED BY <1>4, <1>5, <2>1, MergesProvided DEF BackupMounts
<1> QED BY <1>1, <1>8, <1>11, <1>12 DEF volumes, names

TabletFiles ==
  StorageFiles \cup {"db-credentials-file", "db_ssl_ca", "init_db_sql_file", "mysql-shell-backup-location"}

LEMMA FoundMerge ==
  ASSUME NEW n, NEW f, NEW g, NEW m, Found(n, f, m), Found(n, g, m)
  PROVE  Found(n, Merge(f, g), m)
  BY DEF Found, Merge

LEMMA FoundInMore ==
  ASSUME NEW n, NEW f, NEW m, NEW o, Found(n, f, m), DOMAIN m \subseteq DOMAIN o
  PROVE  Found(n, f, o)
  BY DEF Found

LEMMA FoundOthers ==
  ASSUME NEW n, NEW k, k \notin n, NEW i, NEW m
  PROVE  Found(n, One(k, i), m) /\ Found(n, Empty, m)
  BY DEF Found, One, Empty

LEMMA FoundVersion ==
  ASSUME NEW n, "mysql_server_version" \notin n, NEW f, NEW m, Found(n, f, m), NEW version
  PROVE  Found(n, ServerVersion(f, version), m)
  BY FoundMerge, FoundOthers DEF ServerVersion

\* The flag of mysqlshell is the first mount of the backups; there must be one.
BackupsMounted(spec) ==
  HasBackups(spec) /\ spec.engine = "mysqlshell" => DOMAIN StorageVolumeMounts(spec.location) # {}

LEMMA BackupFlagsFound ==
  ASSUME NEW spec, IsTabletStorage(spec), BackupsMounted(spec), NEW m,
         DOMAIN VttabletVolumeMounts(spec) \subseteq DOMAIN m
  PROVE  Found(TabletFiles, BackupFlags(spec), m)
<1>1. CASE ~HasBackups(spec)
  BY <1>1 DEF BackupFlags, If, Found, Empty
<1>2. CASE HasBackups(spec)
  <2> DEFINE flags == Merge(One("restore_from_backup", TRUE), One("backup_engine_implementation", spec.engine))
             engine == CASE spec.engine = "xtrabackup" ->
                              One("xbstream_restore_flags", AtLeastOne(spec.mysqldCPU + spec.vttabletCPU))
                         [] spec.engine = "mysqlshell" ->
                              One("mysql-shell-backup-location",
                                  CHOOSE p \in DOMAIN StorageVolumeMounts(spec.location) : TRUE)
                         [] OTHER -> Empty
  <2>1. BackupFlags(spec) = Merge(Merge(flags, engine), StorageFlags(spec.location))
    BY <1>2 DEF BackupFlags, If
  <2>2. VttabletVolumeMounts(spec) = StorageVolumeMounts(spec.location)
    BY <1>2 DEF VttabletVolumeMounts, If
  <2>3. Found(TabletFiles, flags, m)
    BY FoundMerge, FoundOthers DEF TabletFiles, StorageFiles
  <2>4. Found(TabletFiles, engine, m)
    <3>1. CASE spec.engine = "mysqlshell"
      <4>1. (CHOOSE p \in DOMAIN StorageVolumeMounts(spec.location) : TRUE)
              \in DOMAIN StorageVolumeMounts(spec.location)
        BY <1>2, <3>1 DEF BackupsMounted
      <4>2. engine = One("mysql-shell-backup-location",
                         CHOOSE p \in DOMAIN StorageVolumeMounts(spec.location) : TRUE)
        BY <3>1
      <4> QED BY <2>2, <4>1, <4>2 DEF Found, One
    <3>2. CASE spec.engine # "mysqlshell"
      <4>1. engine = One("xbstream_restore_flags", AtLeastOne(spec.mysqldCPU + spec.vttabletCPU))
            \/ engine = Empty
        BY <3>2
      <4> QED BY <4>1, FoundOthers DEF TabletFiles, StorageFiles
    <3> QED BY <3>1, <3>2
  <2>5. Found(StorageFiles, StorageFlags(spec.location), m)
    BY <1>2, <2>2, StorageIsMounted, FoundInMore DEF IsTabletStorage, HasBackups
  <2>6. DOMAIN StorageFlags(spec.location) \subseteq StorageFiles \cup {"backup_storage_implementation"}
    BY DEF StorageFlags, Merge, One, Empty, StorageFiles
  <2>7. Found(TabletFiles, StorageFlags(spec.location), m)
    BY <2>5, <2>6 DEF Found, TabletFiles
  <2> HIDE DEF flags, engine
  <2> QED BY <2>1, <2>3, <2>4, <2>7, FoundMerge
<1> QED BY <1>1, <1>2

LEMMA MoreMounted ==
  ASSUME NEW a, NEW b, NEW p, p \in DOMAIN a \/ p \in DOMAIN b
  PROVE  p \in DOMAIN Merge(a, b)
  BY DEF Merge

LEMMA DatastoreIsMounted ==
  ASSUME NEW spec
  PROVE  /\ spec.external # None => CredentialsDir \in DOMAIN TabletVolumeMounts(spec)
         /\ HasCACert(spec) => CACertDir \in DOMAIN TabletVolumeMounts(spec)
         /\ InitScriptDir \in DOMAIN TabletVolumeMounts(spec)
<1> DEFINE credentials == If(spec.external # None, ContainerVolumeMount(spec.external.credentials, CredentialsDir))
           caCert == If(HasCACert(spec), ContainerVolumeMount(spec.external.ca, CACertDir))
           root == [p \in {"/vt/config", "/vt/socket"} |-> "vt-root"]
           overrides == If(HasOverrides(spec), One("/pod-config", "pod-config"))
           data == One("/vt/vtdataroot", IF spec.pvc = None THEN "vt-root" ELSE "persistent-volume-claim")
           script == ContainerVolumeMount(spec.initScript, InitScriptDir)
           m1 == Merge(credentials, caCert)
           m2 == Merge(m1, root)
           m3 == Merge(m2, overrides)
           m4 == Merge(m3, data)
           m5 == Merge(m4, script)
<1>1. TabletVolumeMounts(spec) = m5
  BY DEF TabletVolumeMounts
<1>2. /\ spec.external # None => CredentialsDir \in DOMAIN credentials
      /\ HasCACert(spec) => CACertDir \in DOMAIN caCert
      /\ InitScriptDir \in DOMAIN script
  BY DEF If, ContainerVolumeMount, One
<1> HIDE DEF credentials, caCert, root, overrides, data, script
<1>3. InitScriptDir \in DOMAIN m5
  BY <1>2, MoreMounted
<1>4. ASSUME NEW p, p \in DOMAIN credentials \/ p \in DOMAIN caCert PROVE p \in DOMAIN m5
  <2>1. p \in DOMAIN m1
    BY <1>4, MoreMounted
  <2> HIDE DEF m1
  <2>2. p \in DOMAIN m2
    BY <2>1, MoreMounted
  <2> HIDE DEF m2
  <2>3. p \in DOMAIN m3
    BY <2>2, MoreMounted
  <2> HIDE DEF m3
  <2>4. p \in DOMAIN m4
    BY <2>3, MoreMounted
  <2> HIDE DEF m4
  <2> QED BY <2>4, MoreMounted
<1> HIDE DEF m5
<1> QED BY <1>1, <1>2, <1>3, <1>4

LEMMA DatastoreFlagsFound ==
  ASSUME NEW spec, NEW m, DOMAIN TabletVolumeMounts(spec) \subseteq DOMAIN m
  PROVE  Found(TabletFiles, DatastoreFlags(spec), m)
<1>1. (spec.external # None => CredentialsDir \in DOMAIN m) /\ (HasCACert(spec) => CACertDir \in DOMAIN m)
  BY DatastoreIsMounted
<1>2. CASE spec.external = None
  BY <1>2, FoundOthers DEF DatastoreFlags, TabletFiles, StorageFiles
<1>3. CASE spec.external # None
  <2>1. Found(TabletFiles, [f \in {"restore_from_backup", "enable_replication_reporter", "db-credentials-file"} |->
                             IF f = "db-credentials-file" THEN CredentialsDir ELSE FALSE], m)
    BY <1>1, <1>3 DEF Found, TabletFiles, StorageFiles
  <2>2. Found(TabletFiles, If(HasCACert(spec), One("db_ssl_ca", CACertDir)), m)
    BY <1>1 DEF Found, If, One, Empty
  <2> QED BY <1>3, <2>1, <2>2, FoundMerge DEF DatastoreFlags
<1> QED BY <1>2, <1>3

\* Every file that vttablet and mysqld are told of by a flag, and every one that
\* vttablet is told of by a variable, is in a directory that is mounted in their
\* container, unless the user says otherwise by flags or variables of the same
\* name.
THEOREM TabletFilesAreMounted ==
  ASSUME NEW spec, IsTabletStorage(spec), BackupsMounted(spec),
         DOMAIN spec.overrides \cap TabletFiles = {}, DOMAIN spec.extraEnv \cap StorageVars = {}
  PROVE  /\ Found(TabletFiles, TabletFlags(spec), VttabletContainer(spec).mounts)
         /\ Found(StorageVars, TabletEnv(spec), VttabletContainer(spec).mounts)
         /\ Found(TabletFiles, MysqldContainer(spec).rest.args, MysqldContainer(spec).mounts)
<1> DEFINE m == VttabletContainer(spec).mounts
           own == Merge(VttabletVolumeMounts(spec), TabletVolumeMounts(spec))
<1>1. /\ DOMAIN VttabletVolumeMounts(spec) \subseteq DOMAIN m
      /\ DOMAIN TabletVolumeMounts(spec) \subseteq DOMAIN m
  <2>1. m = Merge(own, spec.extraMounts)
    BY DEF VttabletContainer
  <2>2. DOMAIN own = DOMAIN VttabletVolumeMounts(spec) \cup DOMAIN TabletVolumeMounts(spec)
    BY MergeDomain
  <2> HIDE DEF m, own
  <2>3. DOMAIN m = DOMAIN own \cup DOMAIN spec.extraMounts
    BY <2>1, MergeDomain
  <2> QED BY <2>2, <2>3
<1> HIDE DEF m
<1>2. Found(TabletFiles, TabletFlags(spec), m)
  <2>1. Found(TabletFiles, BackupFlags(spec), m) /\ Found(TabletFiles, DatastoreFlags(spec), m)
    BY <1>1, BackupFlagsFound, DatastoreFlagsFound
  <2>2. Found(TabletFiles, One("base", "vttablet"), m)
        /\ Found(TabletFiles, One(RestorePath, "/vt/vtdataroot"), m)
    BY FoundOthers DEF TabletFiles, StorageFiles, RestorePath
  <2>3. Found(TabletFiles, VttabletFlags(spec), m)
    BY <2>1, <2>2, FoundMerge DEF VttabletFlags
  <2>4. Found(TabletFiles, spec.overrides, m)
    BY DEF Found
  <2>5. Found(TabletFiles, WithRestorePath(Merge(VttabletFlags(spec), spec.overrides)), m)
    BY <2>2, <2>3, <2>4, FoundMerge DEF WithRestorePath
  <2> QED BY <2>5, FoundVersion DEF TabletFlags, TabletFiles, StorageFiles
<1>3. Found(StorageVars, TabletEnv(spec), m)
  <2>1. Found(StorageVars, VttabletEnvVars(spec), m)
    <3>1. CASE ~HasBackups(spec)
      BY <3>1 DEF VttabletEnvVars, If, Found, Empty
    <3>2. CASE HasBackups(spec)
      <4>1. Found(StorageVars, StorageEnvVars(spec.location), StorageVolumeMounts(spec.location))
        BY <3>2, StorageIsMounted DEF IsTabletStorage, HasBackups
      <4>2. DOMAIN StorageVolumeMounts(spec.location) \subseteq DOMAIN m
        BY <1>1, <3>2 DEF VttabletVolumeMounts, If
      <4> QED BY <3>2, <4>1, <4>2, FoundInMore DEF VttabletEnvVars, If
    <3> QED BY <3>1, <3>2
  <2>2. Found(StorageVars, TabletEnvVars(spec), m)
    BY DEF Found, StorageVars, TabletEnvVars
  <2>3. ASSUME NEW env, Found(StorageVars, env, m) PROVE Found(StorageVars, Gomaxprocs(env, spec.limits), m)
    BY <2>3, FoundMerge, FoundOthers DEF Gomaxprocs, StorageVars
  <2>4. Found(StorageVars, spec.extraEnv, m)
    BY DEF Found
  <2> QED BY <2>1, <2>2, <2>3, <2>4, FoundMerge DEF TabletEnv
<1>4. Found(TabletFiles, MysqldContainer(spec).rest.args, MysqldContainer(spec).mounts)
  <2> DEFINE k == MysqldContainer(spec).mounts
             both == Merge(MysqldVolumeMounts(spec), TabletVolumeMounts(spec))
  <2>1. InitScriptDir \in DOMAIN k
    <3>1. InitScriptDir \in DOMAIN TabletVolumeMounts(spec)
      BY DatastoreIsMounted
    <3>2. k = Merge(both, spec.extraMounts)
      BY DEF MysqldContainer, MysqldMounts
    <3>3. DOMAIN both = DOMAIN MysqldVolumeMounts(spec) \cup DOMAIN TabletVolumeMounts(spec)
      BY MergeDomain
    <3> HIDE DEF k, both
    <3>4. InitScriptDir \in DOMAIN both
      BY <3>1, <3>3
    <3> QED BY <3>2, <3>4, MoreMounted
  <2>2. MysqldContainer(spec).rest.args = ServerVersion(MysqlctldFlags(spec), spec.version)
    BY DEF MysqldContainer
  <2> HIDE DEF k
  <2>3. Found(TabletFiles, One("init_db_sql_file", InitScriptDir), k)
    BY <2>1 DEF Found, One
  <2>4. Found(TabletFiles, One("base", "mysqlctld"), k)
    BY FoundOthers DEF TabletFiles, StorageFiles
  <2>5. Found(TabletFiles, MysqlctldFlags(spec), k)
    BY <2>3, <2>4, FoundMerge DEF MysqlctldFlags
  <2>6. Found(TabletFiles, ServerVersion(MysqlctldFlags(spec), spec.version), k)
    BY <2>5, FoundVersion DEF TabletFiles, StorageFiles
  <2> QED BY <2>2, <2>6 DEF k
<1> QED BY <1>2, <1>3, <1>4 DEF m

-----------------------------------------------------------------------------
(* Containers of a template *)

LEMMA TemplateContainerType ==
  ASSUME NEW d, NEW s, IsContainer(d), IsContainer(s)
  PROVE  IsContainer(PodTemplateContainer(d, s))
<1>1. IsSecurity(MergeSecurity(d.security, s.security))
  BY DEF IsContainer, Merge, IsMap, IsSecurity, MergeSecurity, Only
<1> QED BY <1>1, MergeIsMap DEF IsContainer, PodTemplateContainer

LEMMA TemplateContainerTwice ==
  ASSUME NEW d, NEW s, IsContainer(d), IsContainer(s)
  PROVE  PodTemplateContainer(PodTemplateContainer(d, s), s) = PodTemplateContainer(d, s)
<1>1. /\ Merge(Merge(d.limits, s.limits), s.limits) = Merge(d.limits, s.limits)
      /\ Merge(Merge(d.requests, s.requests), s.requests) = Merge(d.requests, s.requests)
      /\ MergeSecurity(MergeSecurity(d.security, s.security), s.security)
           = MergeSecurity(d.security, s.security)
  BY MergeTwice, SecurityTwice DEF IsContainer
<1> QED BY <1>1 DEF PodTemplateContainer

LEMMA TemplateContainerBothTwice ==
  ASSUME NEW d, NEW s, NEW t, IsContainer(d), IsContainer(s), IsContainer(t)
  PROVE  PodTemplateContainer(PodTemplateContainer(
             PodTemplateContainer(PodTemplateContainer(d, s), t), s), t)
           = PodTemplateContainer(PodTemplateContainer(d, s), t)
<1> DEFINE a == PodTemplateContainer(d, s)
           x == PodTemplateContainer(a, t)
           b == PodTemplateContainer(x, s)
           y == PodTemplateContainer(b, t)
<1>1. /\ x.limits = Merge(Merge(d.limits, s.limits), t.limits)
      /\ x.requests = Merge(Merge(d.requests, s.requests), t.requests)
      /\ x.security = MergeSecurity(MergeSecurity(d.security, s.security), t.security)
      /\ x = [rest |-> t.rest, pull |-> t.pull, limits |-> x.limits, requests |-> x.requests,
              security |-> x.security, mounts |-> t.mounts]
  BY DEF PodTemplateContainer
<1> HIDE DEF x
<1>2. /\ y.limits = Merge(Merge(x.limits, s.limits), t.limits)
      /\ y.requests = Merge(Merge(x.requests, s.requests), t.requests)
      /\ y.security = MergeSecurity(MergeSecurity(x.security, s.security), t.security)
      /\ y = [rest |-> t.rest, pull |-> t.pull, limits |-> y.limits, requests |-> y.requests,
              security |-> y.security, mounts |-> t.mounts]
  BY DEF PodTemplateContainer
<1> HIDE DEF y
<1>3. y.limits = x.limits /\ y.requests = x.requests
  BY <1>1, <1>2, MergeBothTwice
<1>4. y.security = x.security
  BY <1>1, <1>2, SecurityBothTwice DEF IsContainer
<1>5. y = x
  BY <1>1, <1>2, <1>3, <1>4
<1> QED BY <1>5 DEF a, x, b, y

\* What PodTemplateContainers does for each name.
Replaced(d, s, r) ==
  /\ DOMAIN r = DOMAIN d \cup DOMAIN s
  /\ \A n \in DOMAIN d \cap DOMAIN s : r[n] = PodTemplateContainer(d[n], s[n])
  /\ \A n \in DOMAIN s \ DOMAIN d : r[n] = s[n]
  /\ \A n \in DOMAIN d \ DOMAIN s : r[n] = d[n]

LEMMA TemplateContainersReplaced ==
  ASSUME NEW d, NEW s, IsContainers(d), IsContainers(s)
  PROVE  Replaced(d, s, PodTemplateContainers(d, s)) /\ IsContainers(PodTemplateContainers(d, s))
<1>1. Replaced(d, s, PodTemplateContainers(d, s))
  BY DEF Replaced, PodTemplateContainers
<1>2. IsMap(PodTemplateContainers(d, s))
  BY DEF PodTemplateContainers, IsMap
<1>3. ASSUME NEW n \in DOMAIN PodTemplateContainers(d, s)
      PROVE  IsContainer(PodTemplateContainers(d, s)[n])
  BY <1>1, TemplateContainerType DEF Replaced, IsContainers
<1> QED BY <1>1, <1>2, <1>3 DEF IsContainers

\* A container laid over itself, which is what a new one is afterwards.
LEMMA TemplateContainerSelf ==
  ASSUME NEW c, IsContainer(c) PROVE PodTemplateContainer(c, c) = c
<1>1. Merge(c.limits, c.limits) = c.limits /\ Merge(c.requests, c.requests) = c.requests
      /\ MergeSecurity(c.security, c.security) = c.security
  BY MergeSelf, SecuritySelf DEF IsContainer
<1> QED BY <1>1 DEF IsContainer, PodTemplateContainer

LEMMA TemplateContainersBothTwice ==
  ASSUME NEW d, NEW s, NEW t, IsContainers(d), IsContainers(s), IsContainers(t)
  PROVE  PodTemplateContainers(PodTemplateContainers(
             PodTemplateContainers(PodTemplateContainers(d, s), t), s), t)
           = PodTemplateContainers(PodTemplateContainers(d, s), t)
<1> DEFINE a == PodTemplateContainers(d, s)
           x == PodTemplateContainers(a, t)
           b == PodTemplateContainers(x, s)
           y == PodTemplateContainers(b, t)
<1>1. IsContainers(a) /\ IsContainers(x) /\ IsContainers(b) /\ IsContainers(y)
  BY TemplateContainersReplaced
<1>2. Replaced(d, s, a) /\ Replaced(a, t, x) /\ Replaced(x, s, b) /\ Replaced(b, t, y)
  BY <1>1, TemplateContainersReplaced
<1> HIDE DEF a, x, b, y
<1>3. DOMAIN a = DOMAIN d \cup DOMAIN s /\ DOMAIN x = DOMAIN a \cup DOMAIN t
      /\ DOMAIN b = DOMAIN x /\ DOMAIN y = DOMAIN x
  BY <1>2 DEF Replaced
<1>4. ASSUME NEW n \in DOMAIN x
      PROVE  y[n] = x[n]
  <2>1. CASE n \notin DOMAIN s /\ n \notin DOMAIN t
    BY <1>2, <1>3, <2>1 DEF Replaced
  <2>2. CASE n \in DOMAIN s /\ n \notin DOMAIN t
    <3>1. PICK o : IsContainer(o) /\ a[n] = PodTemplateContainer(o, s[n])
      BY <1>2, <2>2, TemplateContainerSelf DEF Replaced, IsContainers
    <3>2. x[n] = a[n] /\ b[n] = PodTemplateContainer(x[n], s[n]) /\ y[n] = b[n]
      BY <1>2, <1>3, <2>2 DEF Replaced
    <3> QED BY <3>1, <3>2, <2>2, TemplateContainerTwice DEF IsContainers
  <2>3. CASE n \notin DOMAIN s /\ n \in DOMAIN t
    <3>1. PICK o : IsContainer(o) /\ x[n] = PodTemplateContainer(o, t[n])
      BY <1>1, <1>2, <2>3, TemplateContainerSelf DEF Replaced, IsContainers
    <3>2. b[n] = x[n] /\ y[n] = PodTemplateContainer(b[n], t[n])
      BY <1>2, <1>3, <2>3 DEF Replaced
    <3> QED BY <3>1, <3>2, <2>3, TemplateContainerTwice DEF IsContainers
  <2>4. CASE n \in DOMAIN s /\ n \in DOMAIN t
    <3>1. PICK o : IsContainer(o) /\ a[n] = PodTemplateContainer(o, s[n])
      BY <1>2, <2>4, TemplateContainerSelf DEF Replaced, IsContainers
    <3>2. x[n] = PodTemplateContainer(a[n], t[n]) /\ b[n] = PodTemplateContainer(x[n], s[n])
          /\ y[n] = PodTemplateContainer(b[n], t[n])
      BY <1>2, <1>3, <2>4 DEF Replaced
    <3> QED BY <3>1, <3>2, <2>4, TemplateContainerBothTwice DEF IsContainers
  <2> QED BY <2>1, <2>2, <2>3, <2>4
<1>5. y = x
  BY <1>1, <1>3, <1>4, SameMap DEF IsContainers
<1> QED BY <1>5 DEF a, x, b, y

-----------------------------------------------------------------------------
(* Updates end *)

IsTemplate(template) ==
  /\ template = [labels |-> template.labels, annotations |-> template.annotations,
                 volumes |-> template.volumes, init |-> template.init,
                 containers |-> template.containers, fixed |-> template.fixed,
                 optional |-> template.optional]
  /\ IsContainers(template.init) /\ IsContainers(template.containers)

IsDeployment(obj) ==
  /\ obj = [selector |-> obj.selector, labels |-> obj.labels, options |-> obj.options,
            template |-> obj.template]
  /\ IsTemplate(obj.template)

\* UpdateTemplate: a template that has been brought up to date is up to date, so
\* that Kubernetes replaces the Pods once per change and not with every pass of
\* the controller.
LEMMA TemplateIsIdempotent ==
  ASSUME NEW template, IsTemplate(template), NEW want, IsWant(want)
  PROVE  UpdateTemplate(UpdateTemplate(template, want), want) = UpdateTemplate(template, want)
<1> DEFINE x == UpdateTemplate(template, want)
           y == UpdateTemplate(x, want)
<1>1. /\ x = [labels |-> want.labels, annotations |-> want.annotations, volumes |-> want.volumes,
              init |-> x.init, containers |-> x.containers, fixed |-> want.fixed,
              optional |-> x.optional]
      /\ x.init = PodTemplateContainers(template.init, want.userInit)
      /\ x.containers = PodTemplateContainers(
                           PodTemplateContainers(template.containers, want.sidecars), want.containers)
      /\ x.optional = Merge(template.optional, want.optional)
  BY DEF UpdateTemplate
<1> HIDE DEF x
<1>2. /\ y = [labels |-> want.labels, annotations |-> want.annotations, volumes |-> want.volumes,
              init |-> y.init, containers |-> y.containers, fixed |-> want.fixed,
              optional |-> y.optional]
      /\ y.init = PodTemplateContainers(x.init, want.userInit)
      /\ y.containers = PodTemplateContainers(
                           PodTemplateContainers(x.containers, want.sidecars), want.containers)
      /\ y.optional = Merge(x.optional, want.optional)
  BY DEF UpdateTemplate
<1> HIDE DEF y
<1>3. y.optional = x.optional
  BY <1>1, <1>2, MergeTwice
<1>4. y.containers = x.containers
  BY <1>1, <1>2, TemplateContainersBothTwice DEF IsTemplate, IsWant
<1>5. y.init = x.init
  <2>1. IsContainers(Empty) /\ IsContainers(template.init) /\ IsContainers(want.userInit)
    BY EmptyIsMap DEF IsContainers, Empty, IsTemplate, IsWant
  <2>2. IsContainers(x.init)
    BY <1>1, <2>1, TemplateContainersReplaced
  <2>3. ASSUME NEW c, IsContainers(c) PROVE PodTemplateContainers(c, Empty) = c
    BY <2>3 DEF PodTemplateContainers, Empty, IsContainers, IsMap
  <2> QED BY <1>1, <1>2, <2>1, <2>2, <2>3, TemplateContainersReplaced, TemplateContainersBothTwice
<1>6. y = x
  BY <1>1, <1>2, <1>3, <1>4, <1>5
<1> QED BY <1>6 DEF x, y

LEMMA DeploymentFields ==
  ASSUME NEW obj, NEW want
  PROVE  /\ UpdateDeploymentImmediate(obj, want) =
              [selector |-> obj.selector, labels |-> Merge(obj.labels, want.labels),
               options |-> Merge(obj.options, want.immediate), template |-> obj.template]
         /\ UpdateDeployment(obj, want) =
              [selector |-> obj.selector, labels |-> Merge(obj.labels, want.labels),
               options |-> Merge(Merge(obj.options, want.immediate), want.options),
               template |-> UpdateTemplate(obj.template, want.template)]
  BY DEF UpdateDeploymentImmediate, UpdateDeployment

LEMMA DeploymentType ==
  ASSUME NEW obj, IsDeployment(obj), NEW want, IsWant(want.template)
  PROVE  IsDeployment(UpdateDeployment(obj, want)) /\ IsDeployment(UpdateDeploymentImmediate(obj, want))
<1>1. IsTemplate(UpdateTemplate(obj.template, want.template))
  BY TemplateContainersReplaced DEF UpdateTemplate, IsTemplate, IsDeployment, IsWant
<1> QED BY <1>1, DeploymentFields DEF IsDeployment

\* UpdateDeployment twice is UpdateDeployment once.
THEOREM DeploymentIsIdempotent ==
  ASSUME NEW obj, IsDeployment(obj), NEW want, IsWant(want.template)
  PROVE  UpdateDeployment(UpdateDeployment(obj, want), want) = UpdateDeployment(obj, want)
<1> DEFINE x == UpdateDeployment(obj, want)
<1>1. IsDeployment(x)
  BY DeploymentType
<1>2. /\ x.selector = obj.selector /\ x.labels = Merge(obj.labels, want.labels)
      /\ x.options = Merge(Merge(obj.options, want.immediate), want.options)
      /\ x.template = UpdateTemplate(obj.template, want.template)
      /\ x = [selector |-> obj.selector, labels |-> x.labels, options |-> x.options,
              template |-> x.template]
  BY DeploymentFields
<1> HIDE DEF x
<1>3. UpdateDeployment(x, want) =
        [selector |-> x.selector, labels |-> Merge(x.labels, want.labels),
         options |-> Merge(Merge(x.options, want.immediate), want.options),
         template |-> UpdateTemplate(x.template, want.template)]
  BY <1>1, DeploymentFields
<1>4. Merge(x.labels, want.labels) = x.labels
      /\ Merge(Merge(x.options, want.immediate), want.options) = x.options
  BY <1>2, MergeTwice, MergeBothTwice
<1>5. UpdateTemplate(x.template, want.template) = x.template
  BY <1>2, TemplateIsIdempotent DEF IsDeployment
<1>6. UpdateDeployment(x, want) = x
  BY <1>2, <1>3, <1>4, <1>5
<1> QED BY <1>6 DEF x

\* What UpdateDeploymentImmediate changes while the rest waits for a rolling
\* update is part of it: no change is lost and none is taken back.
THEOREM ImmediateIsPart ==
  ASSUME NEW obj, IsDeployment(obj), NEW want, IsWant(want.template)
  PROVE  /\ UpdateDeployment(UpdateDeploymentImmediate(obj, want), want) = UpdateDeployment(obj, want)
         /\ UpdateDeploymentImmediate(UpdateDeployment(obj, want), want).labels
              = UpdateDeployment(obj, want).labels
<1> DEFINE x == UpdateDeploymentImmediate(obj, want)
           z == UpdateDeployment(obj, want)
<1>1. IsDeployment(x) /\ IsDeployment(z)
  BY DeploymentType
<1>2. /\ x.selector = obj.selector /\ x.labels = Merge(obj.labels, want.labels)
      /\ x.options = Merge(obj.options, want.immediate) /\ x.template = obj.template
      /\ z.labels = Merge(obj.labels, want.labels)
  BY DeploymentFields
<1> HIDE DEF x, z
<1>3. /\ Merge(x.labels, want.labels) = x.labels /\ Merge(z.labels, want.labels) = z.labels
      /\ Merge(x.options, want.immediate) = x.options
  BY <1>2, MergeTwice
<1>4. UpdateDeployment(x, want) = UpdateDeployment(obj, want)
  BY <1>1, <1>2, <1>3, DeploymentFields
<1>5. UpdateDeploymentImmediate(z, want).labels = z.labels
  BY <1>1, <1>3, DeploymentFields
<1> QED BY <1>4, <1>5 DEF x, z

-----------------------------------------------------------------------------
(* Services and volume claims *)

\* Labels of a user's that do not contradict those a Service looks for.
Respects(extra, labels) == \A l \in DOMAIN extra \cap DOMAIN labels : extra[l] = labels[l]

LEMMA ServiceSelector ==
  ASSUME NEW svc, NEW kind, NEW labels, NEW overrides
  PROVE  ReconcileService(svc, kind, labels, overrides).selector = labels
BY DEF ReconcileService, ServiceOverrides, InPlaceServiceOverrides, NewService, UpdateService

LEMMA SelectorFinds ==
  ASSUME NEW svc, NEW kind, NEW labels, NEW overrides, NEW all, NEW extra,
         \A l \in DOMAIN labels : l \in DOMAIN all /\ all[l] = labels[l],
         Respects(extra, labels)
  PROVE  Finds(ReconcileService(svc, kind, labels, overrides), Merge(all, extra))
<1>1. \A l \in DOMAIN labels : l \in DOMAIN Merge(all, extra) /\ Merge(all, extra)[l] = labels[l]
  BY DEF Merge, Respects
<1> QED BY <1>1, ServiceSelector DEF Finds

\* Whatever a Service was before, after a pass it finds the Pods of its part of the
\* cluster: the labels that the Service's controller looks for are those that the
\* controller of the Pods, often another one, gives them.  Only extraLabels that
\* contradict them take a Pod out of its Service.
THEOREM ServicesFindPods ==
  ASSUME NEW svc, NEW overrides, NEW cluster, NEW cell, NEW stored, NEW version, NEW shard,
         NEW pool, NEW index, NEW c, NEW extra,
         cell.cluster = cluster.name, shard.cluster = cluster.name,
         Respects(extra, CellServiceLabels(cell)),
         \A component \in {"vtgate", "vtctld", "vtadmin", "vttablet"} :
           Respects(extra, ClusterServiceLabels(cluster, component))
  PROVE  /\ Finds(ReconcileService(svc, "vtgate", CellServiceLabels(cell), overrides),
                  Merge(VtgateSpec(cell, stored, version).labels, extra))
         /\ Finds(ReconcileService(svc, "vtgate", ClusterServiceLabels(cluster, "vtgate"), overrides),
                  Merge(VtgateSpec(cell, stored, version).labels, extra))
         /\ \A component \in {"vtctld", "vtadmin"} :
              Finds(ReconcileService(svc, component, ClusterServiceLabels(cluster, component), overrides),
                    Merge(ComponentLabels(cluster, component, c), extra))
         /\ Finds(ReconcileService(svc, "vttablet", ClusterServiceLabels(cluster, "vttablet"), overrides),
                  Merge(TabletLabels(shard, pool, index), extra))
<1> DEFINE S(component) == ClusterServiceLabels(cluster, component)
<1>1. \A component : /\ DOMAIN S(component) = {"cluster", "component"}
                     /\ S(component)["cluster"] = cluster.name
                     /\ S(component)["component"] = component
  BY DEF ClusterServiceLabels, Merge, One
<1>2. VtgateSpec(cell, stored, version).labels = CellServiceLabels(cell)
  BY DEF VtgateSpec, CellServiceLabels
<1>3. /\ DOMAIN CellServiceLabels(cell) = {"cluster", "cell", "component"}
      /\ CellServiceLabels(cell)["cluster"] = cluster.name
      /\ CellServiceLabels(cell)["component"] = "vtgate"
  BY DEF CellServiceLabels
<1>4. \A component : /\ DOMAIN ComponentLabels(cluster, component, c) = {"cluster", "component", "cell"}
                     /\ ComponentLabels(cluster, component, c)["cluster"] = cluster.name
                     /\ ComponentLabels(cluster, component, c)["component"] = component
  BY DEF ComponentLabels, Merge, One
<1>5. /\ {"cluster", "component"} \subseteq DOMAIN TabletLabels(shard, pool, index)
      /\ TabletLabels(shard, pool, index)["cluster"] = cluster.name
      /\ TabletLabels(shard, pool, index)["component"] = "vttablet"
  BY DEF TabletLabels
<1> HIDE DEF S
<1>6. Finds(ReconcileService(svc, "vtgate", CellServiceLabels(cell), overrides),
            Merge(CellServiceLabels(cell), extra))
  BY SelectorFinds
<1>7. Finds(ReconcileService(svc, "vtgate", S("vtgate"), overrides),
            Merge(CellServiceLabels(cell), extra))
  <2>1. Respects(extra, S("vtgate"))
    BY DEF S
  <2> QED BY <1>1, <1>3, <2>1, SelectorFinds
<1>8. ASSUME NEW component \in {"vtctld", "vtadmin"}
      PROVE  Finds(ReconcileService(svc, component, S(component), overrides),
                   Merge(ComponentLabels(cluster, component, c), extra))
  <2>1. Respects(extra, S(component))
    BY DEF S
  <2>2. \A l \in DOMAIN S(component) : /\ l \in DOMAIN ComponentLabels(cluster, component, c)
                                       /\ ComponentLabels(cluster, component, c)[l] = S(component)[l]
    BY <1>1, <1>4
  <2> QED BY <2>1, <2>2, SelectorFinds
<1>9. Finds(ReconcileService(svc, "vttablet", S("vttablet"), overrides),
            Merge(TabletLabels(shard, pool, index), extra))
  <2>1. Respects(extra, S("vttablet"))
    BY DEF S
  <2>2. \A l \in DOMAIN S("vttablet") : /\ l \in DOMAIN TabletLabels(shard, pool, index)
                                        /\ TabletLabels(shard, pool, index)[l] = S("vttablet")[l]
    BY <1>1, <1>5
  <2> QED BY <2>1, <2>2, SelectorFinds
<1> QED BY <1>2, <1>6, <1>7, <1>8, <1>9 DEF S

\* A Service that a pass has made is one that the next pass leaves as it is, its
\* address included: what an override gives a new Service is not taken back.
THEOREM ServiceSettles ==
  ASSUME NEW svc, NEW kind, NEW labels, NEW overrides,
         ReconcileService(svc, kind, labels, overrides) # None
  PROVE  ReconcileService(ReconcileService(svc, kind, labels, overrides), kind, labels, overrides)
           = ReconcileService(svc, kind, labels, overrides)
<1> DEFINE s == ReconcileService(svc, kind, labels, overrides)
<1>1. \E l, a, ip, ready :
        s = [labels |-> Merge(l, labels), annotations |-> Merge(a, overrides.annotations),
             selector |-> labels, ports |-> ServicePorts[kind], clusterIP |-> ip,
             notReady |-> ready]
  <2>1. CASE svc = None
    BY <2>1 DEF ReconcileService, ServiceOverrides, InPlaceServiceOverrides, NewService, UpdateService
  <2>2. CASE svc # None
    BY <2>2 DEF ReconcileService, InPlaceServiceOverrides, UpdateService
  <2> QED BY <2>1, <2>2
<1> HIDE DEF s
<1>2. PICK l, a, ip, ready :
        s = [labels |-> Merge(l, labels), annotations |-> Merge(a, overrides.annotations),
             selector |-> labels, ports |-> ServicePorts[kind], clusterIP |-> ip,
             notReady |-> ready]
  BY <1>1
<1>3. /\ Merge(Merge(l, labels), labels) = Merge(l, labels)
      /\ Merge(Merge(a, overrides.annotations), overrides.annotations) = Merge(a, overrides.annotations)
  BY MergeTwice
<1>4. ReconcileService(s, kind, labels, overrides)
        = InPlaceServiceOverrides(UpdateService(s, kind, labels), overrides)
  BY DEF ReconcileService, s
<1>5. InPlaceServiceOverrides(UpdateService(s, kind, labels), overrides) = s
  BY <1>2, <1>3 DEF InPlaceServiceOverrides, UpdateService
<1> QED BY <1>4, <1>5 DEF s

\* A tablet's or an etcd member's volume is never asked to shrink, and is asked for
\* at least what its template says.
THEOREM VolumesOnlyGrow ==
  ASSUME NEW pvc, NEW spec,
         StorageOf(pvc.requests) \in Nat, StorageOf(spec.claimRequests) \in Nat
  PROVE  /\ StorageOf(UpdatePVCInPlace(pvc, spec).requests) >= StorageOf(pvc.requests)
         /\ StorageOf(UpdatePVCInPlace(pvc, spec).requests) >= StorageOf(spec.claimRequests)
<1> DEFINE size == StorageOf(spec.claimRequests)
           grown == Merge(pvc.requests, One("storage", size))
<1>1. StorageOf(grown) = size
  BY DEF StorageOf, Merge, One
<1>2. UpdatePVCInPlace(pvc, spec).requests
        = IF size > StorageOf(pvc.requests) THEN grown ELSE pvc.requests
  BY DEF UpdatePVCInPlace
<1> HIDE DEF size, grown
<1> QED BY <1>1, <1>2 DEF size
================================================================================
