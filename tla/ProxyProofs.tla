----------------------------- MODULE ProxyProofs -----------------------------
(***************************************************************************)
(* Proofs about ProxyRouting for any proxies, senders, patterns and bounds.*)
(***************************************************************************)
EXTENDS ProxyRouting, TLAPS

\* What the key of the table proxies gives: ids are at most the largest one
\* ever given, and no two rows share one.
Keys ==
  /\ \A p \in proxies : p.id <= lastProxy
  /\ \A p, q \in proxies : p.id = q.id => p = q

\* A route that was meant for a proxy carries an id that was given.
MeantWasGiven == \A r \in routes : r.meant # None => r.proxyId <= lastProxy

\* The row that the route of a resolving sender refers to is switched on, as
\* long as that row is there.
PickedIsEnabled ==
  \A s \in readers, p \in proxies : p.id = picked[s].proxyId => p.enabled

\* A sender that holds the read lock has not chosen its client.
ReadersWait == \A s \in readers : via[s] = None

Inv == /\ TypeOK /\ Keys /\ MeantWasGiven /\ RouteKeepsItsProxy
       /\ PickedIsEnabled /\ ReadersWait

\* The proxy a new route is meant for, as AddProxyRoute records it: a proxy
\* that has the id, or none.
LEMMA MeantFacts ==
  ASSUME TypeOK, NEW id
  PROVE  /\ Meant(id) \in Proxy \cup {None}
         /\ Meant(id) # None =>
              \E p \in proxies : p.id = id /\ p.proxy = Meant(id)
  BY DEF TypeOK, Meant, ProxyRow

\* The empty tables satisfy the invariant.
LEMMA InvInit == Init => Inv
  BY ProxyAssumption
  DEF Init, Inv, TypeOK, Keys, MeantWasGiven, RouteKeepsItsProxy,
      PickedIsEnabled, ReadersWait, NoRoute, Process

\* Every edit of the tables, every query, and every crash of either process
\* preserves the invariant.
LEMMA InvStep == Inv /\ [Next]_vars => Inv'
<1> SUFFICES ASSUME Inv, [Next]_vars PROVE Inv'
  OBVIOUS
<1> USE ProxyAssumption DEF Inv, Keys, MeantWasGiven, RouteKeepsItsProxy,
                            PickedIsEnabled, ReadersWait, TypeOK, ProxyRow, RouteRow,
                            tables, senders
<1>1. ASSUME NEW process \in Process, NEW p \in Proxy, NEW on \in BOOLEAN,
             AddProxy(process, p, on)
      PROVE  Inv'
  <2> DEFINE row == [id |-> lastProxy + 1, proxy |-> p, enabled |-> on]
  <2>1. /\ proxies' = proxies \cup {row} /\ lastProxy' = lastProxy + 1
        /\ row.id = lastProxy + 1 /\ row.enabled = on
        /\ UNCHANGED <<routes, readers, picked, via>>
    BY <1>1 DEF AddProxy
  <2>2. TypeOK'
    BY <1>1 DEF AddProxy, StillMapped
  <2>3. Keys' /\ MeantWasGiven' /\ RouteKeepsItsProxy' /\ ReadersWait'
    BY <2>1
  <2>4. PickedIsEnabled'
    <3>1. CASE process = "server"
      BY <1>1, <2>1, <3>1 DEF AddProxy, MayWrite
    <3>2. CASE process = "cli"
      BY <1>1, <2>1, <3>2 DEF AddProxy
    <3> QED BY <3>1, <3>2 DEF Process
  <2> QED BY <2>2, <2>3, <2>4
<1>2. ASSUME NEW row \in proxies, UpdateProxy(row)
      PROVE  Inv'
  <2> DEFINE new == Switched(row)
  <2>1. new \in ProxyRow /\ new.id = row.id /\ new.proxy = row.proxy
    BY DEF Switched
  <2>2. /\ proxies' = (proxies \ {row}) \cup {new}
        /\ UNCHANGED <<routes, lastProxy, readers>>
    BY <1>2 DEF UpdateProxy
  <2>3. readers = {}
    BY <1>2 DEF UpdateProxy, MayWrite
  <2>4. TypeOK'
    BY <1>2, <2>1, <2>2 DEF UpdateProxy, StillMapped
  <2> HIDE DEF new
  <2>5. Keys' /\ MeantWasGiven' /\ RouteKeepsItsProxy'
    BY <2>1, <2>2
  <2>6. PickedIsEnabled' /\ ReadersWait'
    BY <2>2, <2>3
  <2> QED BY <2>4, <2>5, <2>6
<1>3. ASSUME NEW process \in Process, NEW pattern \in Pattern, NEW id \in ProxyIds,
             AddProxyRoute(process, pattern, id)
      PROVE  Inv'
  <2> DEFINE new == [id |-> lastRoute + 1, dest |-> pattern, proxyId |-> id,
                     meant |-> Meant(id)]
  <2>1. id \in Nat
    BY DEF ProxyIds
  <2>2. new \in RouteRow /\ new.proxyId = id /\ new.meant = Meant(id)
    BY <2>1, MeantFacts
  <2>3. /\ routes' = routes \cup {new} /\ UNCHANGED <<proxies, lastProxy, readers, picked, via>>
    BY <1>3 DEF AddProxyRoute
  <2>4. TypeOK'
    BY <1>3, <2>2, <2>3 DEF AddProxyRoute, StillMapped
  <2> HIDE DEF new
  <2>5. MeantWasGiven' /\ RouteKeepsItsProxy'
    BY <2>2, <2>3, MeantFacts
  <2> QED BY <2>3, <2>4, <2>5
<1>4. ASSUME NEW process \in Process, NEW r \in routes, DeleteProxyRoute(process, r)
      PROVE  Inv'
  BY <1>4 DEF DeleteProxyRoute, StillMapped
<1>5. ASSUME NEW process \in Process, NEW id \in ProxyIds, DeleteRoutesOf(process, id)
      PROVE  Inv'
  BY <1>5 DEF DeleteRoutesOf, StillMapped, ProxyIds
<1>6. ASSUME NEW process \in Process, DeleteProxyRow(process)
      PROVE  Inv'
  <2>1. proxies' \subseteq proxies /\ UNCHANGED <<routes, lastProxy, readers, picked, via>>
    BY <1>6 DEF DeleteProxyRow
  <2>2. TypeOK'
    BY <1>6, <2>1 DEF DeleteProxyRow, StillMapped
  <2> QED BY <2>1, <2>2
<1>7. ASSUME NEW s \in Sender, NEW d \in Destination, ResolveRoute(s, d)
      PROVE  Inv'
  <2>1. TypeOK'
    BY <1>7 DEF ResolveRoute, Candidates, DefaultClient
  <2>2. PickedIsEnabled' /\ ReadersWait'
    BY <1>7 DEF ResolveRoute, Candidates
  <2> QED BY <1>7, <2>1, <2>2 DEF ResolveRoute
<1>8. ASSUME NEW s \in Sender, ResolveRow(s)
      PROVE  Inv'
  BY <1>8 DEF ResolveRow, DefaultClient
<1>9. ASSUME NEW s \in Sender, Posted(s)
      PROVE  Inv'
  <2>1. s \notin readers
    BY <1>9 DEF Posted
  <2>2. TypeOK'
    BY <1>9 DEF Posted, NoRoute
  <2>3. PickedIsEnabled' /\ ReadersWait'
    BY <1>9, <2>1 DEF Posted
  <2> QED BY <1>9, <2>2, <2>3 DEF Posted
<1>10. CASE CrashServer
  <2>1. TypeOK'
    <3>1. deleting' \in [Process -> Nat] /\ crashes' \in Nat
      BY <1>10 DEF CrashServer, Process
    <3>2. picked' \in [Sender -> RouteRow \cup {NoRoute}]
      BY <1>10 DEF CrashServer
    <3> QED BY <1>10, <3>1, <3>2 DEF CrashServer
  <2>2. PickedIsEnabled' /\ ReadersWait'
    BY <1>10 DEF CrashServer
  <2> QED BY <1>10, <2>1, <2>2 DEF CrashServer
<1>11. CASE CrashCli
  <2>1. TypeOK'
    <3>1. deleting' \in [Process -> Nat] /\ crashes' \in Nat
      BY <1>11 DEF CrashCli, Process
    <3> QED BY <1>11, <3>1 DEF CrashCli
  <2> QED BY <1>11, <2>1 DEF CrashCli
<1>12. CASE UNCHANGED vars
  BY <1>12 DEF vars
<1> QED
  BY <1>1, <1>2, <1>3, <1>4, <1>5, <1>6, <1>7, <1>8, <1>9, <1>10, <1>11, <1>12
  DEF Next, Edit, Resolve

\* Type correctness, for any instance.
THEOREM TypeCorrect == Spec => []TypeOK
<1>1. Inv => TypeOK
  BY DEF Inv
<1> QED BY <1>1, InvInit, InvStep, PTL DEF Spec

\* However many processes edit the tables, however DeleteProxy fails or is cut
\* off, no route ever ends up at another proxy than the one it was meant for.
THEOREM RouteCorrect == Spec => []RouteKeepsItsProxy
<1>1. Inv => RouteKeepsItsProxy
  BY DEF Inv
<1> QED BY <1>1, InvInit, InvStep, PTL DEF Spec

\* In a step from a state of the invariant, a sender that chooses a proxy
\* chooses one that is switched on.
LEMMA ChosenStep ==
  Inv /\ [Next]_vars =>
    [\A s \in Sender :
       via[s] = None /\ via'[s] \in Proxy =>
         \E p \in proxies : p.proxy = via'[s] /\ p.enabled]_vars
<1> SUFFICES ASSUME Inv, Next, NEW s \in Sender, via[s] = None, via'[s] \in Proxy
             PROVE  \E p \in proxies : p.proxy = via'[s] /\ p.enabled
  OBVIOUS
<1> USE DEF Inv, TypeOK
<1>1. None \notin Proxy /\ DefaultClient \notin Proxy
  BY ProxyAssumption DEF DefaultClient
<1>2. ~UNCHANGED via
  BY <1>1
<1>3. ASSUME NEW t \in Sender, NEW d \in Destination, ResolveRoute(t, d)
      PROVE  FALSE
  BY <1>1, <1>3 DEF ResolveRoute
<1>4. ASSUME NEW t \in Sender, Posted(t)
      PROVE  FALSE
  BY <1>1, <1>4 DEF Posted
<1>5. ~CrashServer
  BY <1>1 DEF CrashServer
<1>6. ASSUME NEW t \in Sender, ResolveRow(t)
      PROVE  \E p \in proxies : p.proxy = via'[s] /\ p.enabled
  BY <1>1, <1>6 DEF ResolveRow, PickedIsEnabled
<1>7. ASSUME NEW process \in Process, Edit(process)
      PROVE  FALSE
  BY <1>2, <1>7 DEF Edit, AddProxy, AddProxyRoute, DeleteProxyRoute,
                    DeleteRoutesOf, DeleteProxyRow, senders
<1>8. ~CrashCli /\ \A row \in proxies : ~UpdateProxy(row)
  BY <1>2 DEF CrashCli, UpdateProxy, senders
<1> QED BY <1>3, <1>4, <1>5, <1>6, <1>7, <1>8 DEF Next, Resolve

\* A post never leaves through a proxy that is switched off, for any number of
\* senders, proxies and routes.
THEOREM ChosenCorrect == Spec => ChosenIsEnabled
BY InvInit, InvStep, ChosenStep, PTL DEF Spec, ChosenIsEnabled
=============================================================================
