-------------------------- MODULE ProxiesPageProofs --------------------------
(***************************************************************************)
(* What the proxies page can rely on, for any number of store functions,   *)
(* edits and failures: an id stands for one proxy for ever.                *)
(***************************************************************************)
EXTENDS ProxiesPage, TLAPS

\* Rows and requests that name a proxy by the id it was born with.
GoodProxy   == {p \in ProxyRow : p.id = p.serial}
GoodRoute   == {r \in RouteRow : r.meant \in {0, r.proxyId}}
GoodShown   == {r \in ShownRoute : r.meant \in {0, r.proxyId} /\ r.label \in {0, r.proxyId}}
GoodRequest == {q \in Request : q.meant \in {0, q.id}}
GoodGot     == [proxies: {None, Error} \cup SUBSET GoodProxy,
                routes: {None, Error} \cup SUBSET GoodShown]
GoodCall    == CallOf(GoodProxy, GoodShown, GoodRequest)

GoodTables ==
  /\ proxies \in SUBSET GoodProxy /\ routes \in SUBSET GoodRoute
  /\ born \in Nat /\ lastProxy = born /\ lastRoute \in Nat
  /\ \A p \in proxies : p.serial \in 1 .. born

GoodPage ==
  /\ shown \in [proxies: SUBSET GoodProxy, routes: SUBSET GoodShown]
  /\ chosen \in GoodRequest
  /\ task \in [Task -> GoodCall]

GoodCounts == edits \in 0 .. MaxEdits /\ failures \in 0 .. MaxFailures

\* The inductive invariant.
Good == GoodTables /\ GoodPage /\ GoodCounts

-----------------------------------------------------------------------------

\* A request that names a proxy by its id and itself is a good one.
LEMMA SaysGood ==
  ASSUME NEW id \in Nat, NEW on \in BOOLEAN, NEW meant \in {0, id}
  PROVE  Says(id, on, meant) \in GoodRequest
BY DEF Says, GoodRequest, Request

\* A store function that starts is a good one.
LEMMA CallGood ==
  ASSUME NEW fn \in Edits \cup {"none", "refresh"},
         NEW stage \in {"idle", "send", "answer", "load"},
         NEW says \in GoodRequest, NEW todo \in Seq(SUBSET Tables)
  PROVE  Call(fn, stage, says, todo) \in GoodCall
BY DEF Call, GoodCall, CallOf, NoAnswer

\* The loads of every store function are sequences of sets of tables.
LEMMA LoadsType == ASSUME NEW fn PROVE Loads(fn) \in Seq(SUBSET Tables)
<1>1. \A S, T \in SUBSET Tables : <<S>> \in Seq(SUBSET Tables) /\ <<S, T>> \in Seq(SUBSET Tables)
  OBVIOUS
<1>2. {"proxies"} \in SUBSET Tables /\ {"routes"} \in SUBSET Tables
  BY DEF Tables
<1>3. Loads(fn) \in {<<{"proxies"}>>, <<{"routes"}>>, <<{"proxies"}, {"routes"}>>, <<Tables>>}
  BY Zenon DEF Loads
<1> QED
  BY <1>1, <1>2, <1>3

\* A function that ends is a good one.
LEMMA IdleGood == Idle \in GoodCall
<1>1. Nothing \in GoodRequest
  BY SaysGood DEF Nothing
<1>2. <<>> \in Seq(SUBSET Tables)
  OBVIOUS
<1> QED
  BY <1>1, <1>2, CallGood DEF Idle

\* The proxy that has an id is the one born with it.
LEMMA ProxyWithGood ==
  ASSUME GoodTables, NEW id \in Nat
  PROVE  ProxyWith(id) \in {0, id}
<1>1. CASE \E p \in proxies : p.id = id
  <2> DEFINE q == CHOOSE p \in proxies : p.id = id
  <2>1. q \in proxies /\ q.id = id
    BY <1>1
  <2>2. q.serial = id
    BY <2>1 DEF GoodTables, GoodProxy
  <2> QED
    BY <1>1, <2>2 DEF ProxyWith
<1>2. CASE ~\E p \in proxies : p.id = id
  BY <1>2 DEF ProxyWith
<1> QED
  BY <1>1, <1>2

\* What the server answers to a load is good.
LEMMA AnswerGood ==
  ASSUME GoodTables
  PROVE  /\ Answer("proxies") \in SUBSET GoodProxy
         /\ Answer("routes") \in SUBSET GoodShown
<1>1. Answer("proxies") \in SUBSET GoodProxy
  BY DEF Answer, Listed, GoodTables
<1>2. ASSUME NEW r \in routes
      PROVE  [id |-> r.id, proxyId |-> r.proxyId, meant |-> r.meant,
              label |-> ProxyWith(r.proxyId)] \in GoodShown
  <2>1. r \in GoodRoute
    BY DEF GoodTables
  <2>2. r.id \in Nat /\ r.proxyId \in Nat /\ r.meant \in Nat /\ r.meant \in {0, r.proxyId}
    BY <2>1 DEF GoodRoute, RouteRow
  <2>3. ProxyWith(r.proxyId) \in {0, r.proxyId}
    BY <2>2, ProxyWithGood
  <2> QED
    BY <2>2, <2>3 DEF GoodShown, ShownRoute
<1>3. Answer("routes") \in SUBSET GoodShown
  BY <1>2 DEF Answer, Listed
<1> QED
  BY <1>1, <1>3

\* Serving a request keeps the tables good, whoever sent it.
LEMMA ServeGood ==
  ASSUME GoodTables, NEW fn, NEW says \in GoodRequest,
         Serve(fn, says) \/ ServeFails(fn, says)
  PROVE  GoodTables'
<1> USE DEF GoodTables
<1>1. CASE AddProxy
  <2> DEFINE new == [id |-> lastProxy + 1, on |-> TRUE, serial |-> born + 1]
  <2>1. new \in GoodProxy
    BY DEF GoodProxy, ProxyRow
  <2>2. \A p \in proxies : p.serial \in 1 .. born + 1
    OBVIOUS
  <2>3. new.serial \in 1 .. born + 1
    OBVIOUS
  <2>4. proxies' = proxies \cup {new} /\ born' = born + 1 /\ lastProxy' = lastProxy + 1
    BY <1>1 DEF AddProxy
  <2> HIDE DEF new
  <2>5. proxies' \in SUBSET GoodProxy /\ \A p \in proxies' : p.serial \in 1 .. born'
    BY <2>1, <2>2, <2>3, <2>4
  <2> QED
    BY <1>1, <2>4, <2>5 DEF AddProxy
<1>2. CASE UpdateProxy(says)
  <2>1. says.on \in BOOLEAN
    BY DEF GoodRequest, Request
  <2>2. ASSUME NEW p \in proxies
        PROVE  LET q == IF p.id = says.id THEN [p EXCEPT !.on = says.on] ELSE p
               IN  q \in GoodProxy /\ q.serial \in 1 .. born
    BY <2>1 DEF GoodProxy, ProxyRow
  <2> QED
    BY <1>2, <2>2 DEF UpdateProxy
<1>3. CASE DeleteProxy(says)
  BY <1>3 DEF DeleteProxy, DeleteRoutesOf, RoutesOf
<1>4. CASE AddProxyRoute(says)
  <2> DEFINE new == [id |-> lastRoute + 1, proxyId |-> says.id, meant |-> says.meant]
  <2>1. new \in GoodRoute
    BY DEF GoodRoute, RouteRow, GoodRequest, Request
  <2> QED
    BY <1>4, <2>1 DEF AddProxyRoute
<1>5. CASE DeleteProxyRoute(says)
  BY <1>5 DEF DeleteProxyRoute
<1>6. CASE ServeFails(fn, says)
  BY <1>6 DEF ServeFails, DeleteRoutesOf, RoutesOf
<1> QED
  BY <1>1, <1>2, <1>3, <1>4, <1>5, <1>6 DEF Serve

\* The switch that is clicked, the deletion, the choice: made from shown rows.
LEMMA ShownSaysGood ==
  ASSUME GoodPage, NEW p \in shown.proxies, NEW on \in BOOLEAN
  PROVE  Says(p.id, on, p.serial) \in GoodRequest
<1>1. p \in GoodProxy
  BY DEF GoodPage
<1>2. p.id \in Nat /\ p.serial = p.id
  BY <1>1 DEF GoodProxy, ProxyRow
<1> QED
  BY <1>2, SaysGood

-----------------------------------------------------------------------------

\* The invariant holds at first.
LEMMA InitGood == Init => Good
<1> SUFFICES ASSUME Init PROVE Good
  OBVIOUS
<1> USE PageAssumption DEF Init
<1>1. GoodTables
  <2>1. \A i \in 1 .. First : /\ [id |-> i, on |-> TRUE, serial |-> i] \in GoodProxy
                              /\ [id |-> i, proxyId |-> i, meant |-> i] \in GoodRoute
    BY DEF GoodProxy, ProxyRow, GoodRoute, RouteRow
  <2>2. proxies \in SUBSET GoodProxy /\ routes \in SUBSET GoodRoute
    BY <2>1
  <2>3. \A p \in proxies : p.serial \in 1 .. First
    OBVIOUS
  <2> QED
    BY <2>2, <2>3 DEF GoodTables
<1>2. GoodPage
  <2>1. Nothing \in GoodRequest
    BY SaysGood DEF Nothing
  <2> QED
    BY <2>1, IdleGood DEF GoodPage
<1> QED
  BY <1>1, <1>2 DEF Good, GoodCounts

\* A click adds a good call.
LEMMA ClickGood ==
  ASSUME Good, NEW t \in Task, NEW fn \in Edits, NEW says \in GoodRequest,
         Click(t, fn, says)
  PROVE  Good'
<1>1. Call(fn, "send", says, Loads(fn)) \in GoodCall
  BY CallGood, LoadsType
<1>2. GoodPage'
  BY <1>1 DEF Click, Good, GoodPage
<1> QED
  BY <1>2, PageAssumption DEF Click, Good, GoodTables, GoodCounts, tables, AskForEdit

\* What a load leaves in the store is good.
LEMMA StoredGood ==
  ASSUME GoodPage, NEW t \in Task
  PROVE  [proxies |-> Stored(task[t].got, "proxies"),
          routes |-> Stored(task[t].got, "routes")]
            \in [proxies: SUBSET GoodProxy, routes: SUBSET GoodShown]
<1>1. task[t] \in GoodCall
  BY DEF GoodPage
<1>2. task[t].got \in GoodGot
  BY <1>1 DEF GoodCall, CallOf, GoodGot
<1>3. /\ task[t].got["proxies"] \in {None, Error} \cup SUBSET GoodProxy
      /\ task[t].got["routes"] \in {None, Error} \cup SUBSET GoodShown
  BY <1>2 DEF GoodGot
<1>4. shown["proxies"] \in SUBSET GoodProxy /\ shown["routes"] \in SUBSET GoodShown
  BY DEF GoodPage
<1> QED
  BY <1>3, <1>4 DEF Stored

\* Every step keeps the invariant.
LEMMA StepGood == Good /\ [Next]_vars => Good'
<1> SUFFICES ASSUME Good, [Next]_vars PROVE Good'
  OBVIOUS
<1> USE PageAssumption
<1>1. ASSUME NEW t \in Task, Page(t) PROVE Good'
  <2>1. CASE ClickAddProxy(t)
    <3>1. Nothing \in GoodRequest
      BY SaysGood DEF Nothing
    <3> QED
      BY <2>1, <3>1, ClickGood DEF ClickAddProxy, Edits
  <2>2. CASE ClickToggle(t)
    <3>1. PICK p \in shown.proxies : Click(t, "toggleProxy", Says(p.id, ~p.on, p.serial))
      BY <2>2 DEF ClickToggle
    <3>2. Says(p.id, ~p.on, p.serial) \in GoodRequest
      BY ShownSaysGood DEF Good
    <3> QED
      BY <3>1, <3>2, ClickGood DEF Edits
  <2>3. CASE ClickDelProxy(t)
    <3>1. PICK p \in shown.proxies : Click(t, "delProxy", Says(p.id, FALSE, p.serial))
      BY <2>3 DEF ClickDelProxy
    <3>2. Says(p.id, FALSE, p.serial) \in GoodRequest
      BY ShownSaysGood DEF Good
    <3> QED
      BY <3>1, <3>2, ClickGood DEF Edits
  <2>4. CASE Choose
    <3>1. Nothing \in GoodRequest
      BY SaysGood DEF Nothing
    <3>2. chosen' \in GoodRequest
      BY <2>4, <3>1, ShownSaysGood DEF Choose, Good
    <3> QED
      BY <2>4, <3>2 DEF Choose, Good, GoodTables, GoodPage, GoodCounts, tables, counts
  <2>5. CASE ClickAddRoute(t)
    BY <2>5, ClickGood DEF ClickAddRoute, Edits, Good, GoodPage
  <2>6. CASE ClickDelRoute(t)
    <3>1. PICK r \in shown.routes : Click(t, "delRoute", Says(r.id, FALSE, 0))
      BY <2>6 DEF ClickDelRoute
    <3>2. r \in GoodShown
      BY DEF Good, GoodPage
    <3>3. Says(r.id, FALSE, 0) \in GoodRequest
      BY <3>2, SaysGood DEF GoodShown, ShownRoute
    <3> QED
      BY <3>1, <3>3, ClickGood DEF Edits
  <2> QED
    BY <1>1, <2>1, <2>2, <2>3, <2>4, <2>5, <2>6
    DEF Page, AddProxyForm, ProxiesTable, AddRouteForm, RoutesTable
<1>2. ASSUME NEW t \in Task, Refresh(t) PROVE Good'
  <2>1. Call("refresh", "load", Nothing, Loads("refresh")) \in GoodCall
    <3>1. Nothing \in GoodRequest
      BY SaysGood DEF Nothing
    <3> QED
      BY <3>1, CallGood, LoadsType
  <2> QED
    BY <1>2, <2>1 DEF Refresh, Good, GoodTables, GoodPage, GoodCounts, tables, counts
<1>3. ASSUME NEW t \in Task, ServeEdit(t) PROVE Good'
  <2>1. task[t] \in GoodCall
    BY DEF Good, GoodPage
  <2>2. task[t].says \in GoodRequest
    BY <2>1 DEF GoodCall, CallOf
  <2>3. UNCHANGED <<shown, chosen, edits>>
    BY <1>3 DEF ServeEdit
  <2> DEFINE gone == IF task[t].fn = "delProxy" THEN {r.id : r \in routes \ routes'} ELSE {}
  <2>4. GoodTables' /\ failures' \in 0 .. MaxFailures
    BY <1>3, <2>2, ServeGood DEF ServeEdit, Fail, Succeed, Good, GoodCounts
  <2>5. CASE task' = [task EXCEPT ![t].stage = "answer", ![t].says = Nothing, ![t].gone = gone]
    <3>1. Nothing \in GoodRequest
      BY SaysGood DEF Nothing
    <3>2. gone \in SUBSET Nat
      BY DEF Good, GoodTables, GoodRoute, RouteRow
    <3> HIDE DEF gone
    <3>3. task' = [task EXCEPT ![t] = [task[t] EXCEPT !.stage = "answer",
                                       !.says = Nothing, !.gone = gone]]
      BY <2>5 DEF Good, GoodPage
    <3>4. [task[t] EXCEPT !.stage = "answer", !.says = Nothing, !.gone = gone] \in GoodCall
      BY <2>1, <3>1, <3>2 DEF GoodCall, CallOf
    <3>5. task' \in [Task -> GoodCall]
      BY <3>3, <3>4 DEF Good, GoodPage
    <3> QED
      BY <2>3, <2>4, <3>5 DEF Good, GoodPage, GoodCounts
  <2>6. CASE End(t)
    BY <2>3, <2>4, <2>6, IdleGood DEF Good, GoodPage, GoodCounts, End
  <2> QED
    BY <1>3, <2>5, <2>6 DEF ServeEdit
<1>4. ASSUME NEW t \in Task, EndEdit(t) PROVE Good'
  <2>1. task[t] \in GoodCall
    BY DEF Good, GoodPage
  <2>2. [task[t] EXCEPT !.stage = "load"] \in GoodCall
    BY <2>1 DEF GoodCall, CallOf
  <2>3. task' \in [Task -> GoodCall]
    BY <1>4, <2>2, IdleGood DEF EndEdit, End, Good, GoodPage
  <2>4. failures' \in 0 .. MaxFailures
    BY <1>4 DEF EndEdit, Fail, Succeed, Good, GoodCounts
  <2> QED
    BY <1>4, <2>3, <2>4 DEF EndEdit, Good, GoodTables, GoodPage, GoodCounts, tables
<1>5. ASSUME NEW t \in Task, NEW table \in Tables, ServeLoad(t, table) PROVE Good'
  <2>1. task[t] \in GoodCall
    BY DEF Good, GoodPage
  <2>2. task[t].got \in GoodGot
    BY <2>1 DEF GoodCall, CallOf, GoodGot
  <2>3. ASSUME NEW answer \in {Answer(table), Error}
        PROVE  [task[t] EXCEPT !.got[table] = answer] \in GoodCall
    <3>1. [task[t].got EXCEPT ![table] = answer] \in GoodGot
      <4>1. CASE table = "proxies"
        BY <2>2, <4>1, AnswerGood DEF GoodGot, Good
      <4>2. CASE table = "routes"
        BY <2>2, <4>2, AnswerGood DEF GoodGot, Good
      <4> QED
        BY <4>1, <4>2 DEF Tables
    <3> DEFINE new == [task[t].got EXCEPT ![table] = answer]
    <3>2. [task[t] EXCEPT !.got[table] = answer] = [task[t] EXCEPT !.got = new]
      BY <2>1 DEF GoodCall, CallOf
    <3> HIDE DEF new
    <3>3. new \in GoodGot
      BY <3>1 DEF new
    <3>4. [task[t] EXCEPT !.got = new] \in GoodCall
      BY <2>1, <3>3 DEF GoodCall, CallOf, GoodGot
    <3> QED
      BY <3>2, <3>4
  <2>4. PICK answer \in {Answer(table), Error} :
          task' = [task EXCEPT ![t] = [task[t] EXCEPT !.got[table] = answer]]
    BY <1>5 DEF ServeLoad, Good, GoodPage
  <2>5. task' \in [Task -> GoodCall]
    BY <2>3, <2>4 DEF Good, GoodPage
  <2>6. failures' \in 0 .. MaxFailures
    BY <1>5 DEF ServeLoad, Fail, Succeed, Good, GoodCounts
  <2> QED
    BY <1>5, <2>5, <2>6 DEF ServeLoad, Good, GoodTables, GoodPage, GoodCounts, tables
<1>6. ASSUME NEW t \in Task, EndLoad(t) PROVE Good'
  <2>1. task[t] \in GoodCall
    BY DEF Good, GoodPage
  <2>2. shown' \in [proxies: SUBSET GoodProxy, routes: SUBSET GoodShown]
    BY <1>6, StoredGood DEF EndLoad, Good
  <2>3. task' \in [Task -> GoodCall]
    <3>1. CASE End(t)
      BY <3>1, IdleGood DEF End, Good, GoodPage
    <3>2. CASE ~End(t)
      <4>1. Len(task[t].todo) > 1 /\ task[t].todo \in Seq(SUBSET Tables)
        BY <1>6, <2>1, <3>2 DEF EndLoad, GoodCall, CallOf
      <4>2. Tail(task[t].todo) \in Seq(SUBSET Tables)
        BY <4>1
      <4>3. [task[t] EXCEPT !.todo = Tail(task[t].todo), !.got = NoAnswer] \in GoodCall
        BY <2>1, <4>2 DEF GoodCall, CallOf, NoAnswer
      <4>4. task' = [task EXCEPT ![t] = [task[t] EXCEPT !.todo = Tail(task[t].todo),
                                                        !.got = NoAnswer]]
        BY <1>6, <3>2 DEF EndLoad, Good, GoodPage
      <4> QED
        BY <4>3, <4>4 DEF Good, GoodPage
    <3> QED
      BY <3>1, <3>2
  <2> QED
    BY <1>6, <2>2, <2>3
    DEF EndLoad, Good, GoodTables, GoodPage, GoodCounts, tables, counts
<1>7. ASSUME SomebodyElse PROVE Good'
  <2>1. PICK fn \in Edits, id \in 1 .. lastProxy + lastRoute, on \in BOOLEAN :
          LET says == Says(id, on, ProxyWith(id))
          IN  Serve(fn, says) \/ ServeFails(fn, says)
    BY <1>7 DEF SomebodyElse
  <2>2. id \in Nat
    BY DEF Good, GoodTables
  <2>3. Says(id, on, ProxyWith(id)) \in GoodRequest
    BY <2>2, ProxyWithGood, SaysGood DEF Good
  <2>4. GoodTables'
    BY <2>1, <2>3, ServeGood DEF Good
  <2> QED
    BY <1>7, <2>4 DEF SomebodyElse, AskForEdit, Good, GoodPage, GoodCounts
<1>8. CASE UNCHANGED vars
  BY <1>8 DEF vars, tables, counts, Good, GoodTables, GoodPage, GoodCounts
<1> QED
  BY <1>1, <1>2, <1>3, <1>4, <1>5, <1>6, <1>7, <1>8 DEF Next, Proceed

\* The invariant holds for ever.
LEMMA AlwaysGood == Spec => []Good
BY InitGood, StepGood, PTL DEF Spec

-----------------------------------------------------------------------------

\* Every variable of the page and of the server keeps its type.
THEOREM TypeCorrect == Spec => []TypeOK
<1>1. Good => TypeOK
  <2> SUFFICES ASSUME Good PROVE TypeOK
    OBVIOUS
  <2>1. /\ GoodProxy \subseteq ProxyRow /\ GoodRoute \subseteq RouteRow
        /\ GoodShown \subseteq ShownRoute /\ GoodRequest \subseteq Request
    BY DEF GoodProxy, GoodRoute, GoodShown, GoodRequest
  <2>2. GoodCall \subseteq CallOf(ProxyRow, ShownRoute, Request)
    BY <2>1 DEF GoodCall, CallOf
  <2>3. task \in [Task -> CallOf(ProxyRow, ShownRoute, Request)]
    BY <2>2 DEF Good, GoodPage
  <2>4. shown \in [proxies: SUBSET ProxyRow, routes: SUBSET ShownRoute]
    BY <2>1 DEF Good, GoodPage
  <2> QED
    BY <2>1, <2>3, <2>4 DEF TypeOK, Good, GoodTables, GoodPage, GoodCounts
<1> QED
  BY <1>1, AlwaysGood, PTL

\* However old the rows on the page, a click, a choice or a route acts on the
\* proxy it was made for or on none.
THEOREM ClicksCorrect == Spec => []ClicksHitTheirProxy
<1>1. Good => ClicksHitTheirProxy
  <2> SUFFICES ASSUME Good PROVE ClicksHitTheirProxy
    OBVIOUS
  <2>1. \A p \in proxies : p.id = p.serial
    BY DEF Good, GoodTables, GoodProxy
  <2>2. ASSUME NEW id, NEW meant \in {0, id} PROVE SameProxy(id, meant)
    BY <2>1 DEF SameProxy
  <2>3. ASSUME NEW t \in Task PROVE SameProxy(task[t].says.id, task[t].says.meant)
    <3>1. task[t] \in GoodCall
      BY DEF Good, GoodPage
    <3>2. task[t].says \in GoodRequest
      BY <3>1 DEF GoodCall, CallOf
    <3> QED
      BY <2>2, <3>2 DEF GoodRequest
  <2>4. SameProxy(chosen.id, chosen.meant)
    BY <2>2 DEF Good, GoodPage, GoodRequest
  <2>5. \A p \in shown.proxies : SameProxy(p.id, p.serial)
    BY <2>2 DEF Good, GoodPage, GoodProxy
  <2>6. \A r \in routes : SameProxy(r.proxyId, r.meant)
    BY <2>2 DEF Good, GoodTables, GoodRoute
  <2>7. \A r \in shown.routes : 0 \in {r.label, r.meant} \/ r.label = r.meant
    BY DEF Good, GoodPage, GoodShown
  <2> QED
    BY <2>3, <2>4, <2>5, <2>6, <2>7 DEF ClicksHitTheirProxy
<1> QED
  BY <1>1, AlwaysGood, PTL

\* Only a new proxy enters the table.
LEMMA ServeAddsNew ==
  ASSUME GoodTables, NEW fn, NEW says \in GoodRequest,
         Serve(fn, says) \/ ServeFails(fn, says)
  PROVE  \A p \in proxies' : p.serial > born \/ \E q \in proxies : q.serial = p.serial
<1>1. CASE AddProxy
  BY <1>1 DEF AddProxy, GoodTables
<1>2. CASE UpdateProxy(says)
  <2>1. \A p \in proxies :
          (IF p.id = says.id THEN [p EXCEPT !.on = says.on] ELSE p).serial = p.serial
    BY DEF GoodTables, GoodProxy, ProxyRow
  <2> QED
    BY <1>2, <2>1 DEF UpdateProxy
<1>3. CASE DeleteProxy(says)
  BY <1>3 DEF DeleteProxy
<1>4. CASE AddProxyRoute(says)
  BY <1>4 DEF AddProxyRoute
<1>5. CASE DeleteProxyRoute(says)
  BY <1>5 DEF DeleteProxyRoute
<1>6. CASE ServeFails(fn, says)
  BY <1>6 DEF ServeFails
<1> QED
  BY <1>1, <1>2, <1>3, <1>4, <1>5, <1>6 DEF Serve

\* A proxy that somebody deleted is never brought back, by no switch that
\* arrives late and by no other request.
THEOREM DeletedForGood == Spec => NeverResurrected
<1> DEFINE New == \A p \in proxies' :
                    p.serial > born \/ \E q \in proxies : q.serial = p.serial
<1>1. Good /\ [Next]_vars => [New]_vars
  <2> SUFFICES ASSUME Good, Next PROVE New
    OBVIOUS
  <2>1. ASSUME UNCHANGED proxies PROVE New
    BY <2>1
  <2>2. ASSUME NEW t \in Task, ServeEdit(t) PROVE New
    <3>1. task[t].says \in GoodRequest
      BY DEF Good, GoodPage, GoodCall, CallOf
    <3> QED
      BY <2>2, <3>1, ServeAddsNew DEF ServeEdit, Good
  <2>3. ASSUME SomebodyElse PROVE New
    <3>1. PICK fn \in Edits, id \in 1 .. lastProxy + lastRoute, on \in BOOLEAN :
            LET says == Says(id, on, ProxyWith(id))
            IN  Serve(fn, says) \/ ServeFails(fn, says)
      BY <2>3 DEF SomebodyElse
    <3>2. id \in Nat
      BY DEF Good, GoodTables
    <3>3. Says(id, on, ProxyWith(id)) \in GoodRequest
      BY <3>2, ProxyWithGood, SaysGood DEF Good
    <3> QED
      BY <3>1, <3>3, ServeAddsNew DEF Good
  <2>4. ASSUME NEW t \in Task,
               Page(t) \/ Refresh(t) \/ EndEdit(t) \/ EndLoad(t)
                 \/ \E table \in Tables : ServeLoad(t, table)
        PROVE  UNCHANGED proxies
    BY <2>4 DEF Page, AddProxyForm, ProxiesTable, AddRouteForm, RoutesTable,
                ClickAddProxy, ClickToggle, ClickDelProxy, Choose, ClickAddRoute,
                ClickDelRoute, Click, Refresh, EndEdit, EndLoad, ServeLoad, tables
  <2> QED
    BY <2>1, <2>2, <2>3, <2>4 DEF Next, Proceed
<1> QED
  BY <1>1, AlwaysGood, PTL DEF Spec, NeverResurrected

-----------------------------------------------------------------------------
(* Deletions                                                               *)

\* An id of a route is given once.
RouteIds ==
  /\ \A r \in routes : r.id \in 1 .. lastRoute
  /\ \A r, s \in routes : r.id = s.id => r = s

\* What deleteProxy knows while it is under way, when the routes are rts and
\* the largest id given is last: the routes that went with the proxy are gone
\* for good, and it loads the routes last.
GoodDeletion(c, rts, last) ==
  c.fn = "delProxy" =>
    /\ \/ c.todo = <<{"proxies"}, {"routes"}>> /\ c.got["routes"] = None
       \/ c.todo = <<{"routes"}>>
    /\ \A i \in c.gone : i <= last /\ \A r \in rts : r.id # i
    /\ \/ c.got["routes"] \in {None, Error}
       \/ \A r \in c.got["routes"] : r.id \notin c.gone
    /\ c.stage = "send" => c.got["routes"] = None

Deletions == RouteIds /\ \A t \in Task : GoodDeletion(task[t], routes, lastRoute)

\* A request adds a route with a new id, or none.
LEMMA ServeRoutes ==
  ASSUME GoodTables, RouteIds, NEW fn, NEW says \in GoodRequest,
         Serve(fn, says) \/ ServeFails(fn, says)
  PROVE  /\ RouteIds' /\ lastRoute <= lastRoute' /\ lastRoute' \in Nat
         /\ \A r \in routes' : r \in routes \/ r.id > lastRoute
<1> USE DEF GoodTables, RouteIds
<1>1. CASE routes' \subseteq routes /\ lastRoute' = lastRoute
  BY <1>1
<1>2. CASE AddProxyRoute(says)
  <2> DEFINE new == [id |-> lastRoute + 1, proxyId |-> says.id, meant |-> says.meant]
  <2>1. routes' = routes \cup {new} /\ lastRoute' = lastRoute + 1
    BY <1>2 DEF AddProxyRoute
  <2>2. new.id = lastRoute + 1
    OBVIOUS
  <2> HIDE DEF new
  <2>3. \A r \in routes : r.id \in 1 .. lastRoute
    OBVIOUS
  <2> QED
    BY <2>1, <2>2, <2>3
<1> QED
  BY <1>1, <1>2 DEF Serve, ServeFails, AddProxy, UpdateProxy, DeleteProxy, DeleteRoutesOf,
                    DeleteProxyRoute

\* What is gone stays away, whoever is served.
LEMMA StaysGone ==
  ASSUME NEW c \in GoodCall, GoodDeletion(c, routes, lastRoute),
         lastRoute \in Nat, lastRoute' \in Nat, lastRoute <= lastRoute',
         \A r \in routes' : r \in routes \/ r.id > lastRoute
  PROVE  GoodDeletion(c, routes', lastRoute')
<1> SUFFICES ASSUME c.fn = "delProxy"
             PROVE  \A i \in c.gone : i <= lastRoute' /\ \A r \in routes' : r.id # i
  BY DEF GoodDeletion
<1>1. c.gone \subseteq Nat
  BY DEF GoodCall, CallOf
<1> QED
  BY <1>1 DEF GoodDeletion

\* One task goes on and the tables do not move.
LEMMA OnePage ==
  ASSUME Good, Deletions, NEW t \in Task, NEW c, task' = [task EXCEPT ![t] = c],
         GoodDeletion(c, routes, lastRoute), UNCHANGED tables
  PROVE  Deletions'
<1>1. routes' = routes /\ lastRoute' = lastRoute
  BY DEF tables
<1>2. ASSUME NEW s \in Task PROVE GoodDeletion(task'[s], routes, lastRoute)
  <2>1. CASE s = t
    BY <2>1 DEF Good, GoodPage
  <2>2. CASE s # t
    BY <2>2 DEF Good, GoodPage, Deletions
  <2> QED
    BY <2>1, <2>2
<1> QED
  BY <1>1, <1>2 DEF Deletions, RouteIds

\* Other functions delete nothing.
LEMMA NoDeletion ==
  ASSUME NEW c, c.fn # "delProxy", NEW rts, NEW last
  PROVE  GoodDeletion(c, rts, last)
BY DEF GoodDeletion

\* Nor is a function that has ended.
LEMMA IdleDeletes == Idle.fn # "delProxy"
BY DEF Idle, Call

\* Nothing was deleted at first.
LEMMA DeletionsInit == Init => Deletions
<1> SUFFICES ASSUME Init PROVE Deletions
  OBVIOUS
<1>1. RouteIds
  BY PageAssumption DEF Init, RouteIds
<1>2. \A t \in Task : GoodDeletion(task[t], routes, lastRoute)
  BY IdleDeletes, NoDeletion DEF Init
<1> QED
  BY <1>1, <1>2 DEF Deletions

\* A click that deletes has nothing loaded and nothing gone.
LEMMA ClickDeletions ==
  ASSUME Good, Deletions, NEW t \in Task, NEW fn, NEW says, Click(t, fn, says)
  PROVE  Deletions'
<1> DEFINE c == Call(fn, "send", says, Loads(fn))
<1>1. GoodDeletion(c, routes, lastRoute)
  <2>1. c.fn = fn /\ c.todo = Loads(fn) /\ c.got = NoAnswer /\ c.gone = {}
    BY DEF Call
  <2> HIDE DEF c
  <2>2. CASE fn = "delProxy"
    <3>1. Loads(fn) = <<{"proxies"}, {"routes"}>>
      BY <2>2, Zenon DEF Loads
    <3> QED
      BY <2>1, <2>2, <3>1 DEF GoodDeletion, NoAnswer
  <2>3. CASE fn # "delProxy"
    BY <2>1, <2>3, NoDeletion
  <2> QED
    BY <2>2, <2>3
<1>2. task' = [task EXCEPT ![t] = c] /\ UNCHANGED tables
  BY DEF Click
<1> QED
  BY <1>1, <1>2, OnePage

\* An edit is served: what a deletion takes along is gone from the table.
LEMMA ServeEditDeletions ==
  ASSUME Good, Deletions, NEW t \in Task, ServeEdit(t)
  PROVE  Deletions'
<1> DEFINE says == task[t].says
<1> DEFINE gone == IF task[t].fn = "delProxy" THEN {r.id : r \in routes \ routes'} ELSE {}
<1>0. task[t] \in GoodCall /\ says \in GoodRequest
  BY DEF Good, GoodPage, GoodCall, CallOf
<1>1. CASE /\ Serve(task[t].fn, says)
           /\ task' = [task EXCEPT ![t].stage = "answer", ![t].says = Nothing,
                                   ![t].gone = gone]
  <2>1. /\ RouteIds' /\ lastRoute <= lastRoute' /\ lastRoute' \in Nat
        /\ \A r \in routes' : r \in routes \/ r.id > lastRoute
    BY <1>0, <1>1, ServeRoutes DEF Good, Deletions
  <2> DEFINE c == [task[t] EXCEPT !.stage = "answer", !.says = Nothing, !.gone = gone]
  <2>2. task' = [task EXCEPT ![t] = c]
    BY <1>1 DEF Good, GoodPage
  <2>3. c.fn = task[t].fn /\ c.todo = task[t].todo /\ c.got = task[t].got
    BY <1>0 DEF GoodCall, CallOf
  <2>4. c.gone = gone
    BY <1>0 DEF GoodCall, CallOf
  <2>5. GoodDeletion(c, routes', lastRoute')
    <3> SUFFICES ASSUME task[t].fn = "delProxy" PROVE GoodDeletion(c, routes', lastRoute')
      BY <2>3, NoDeletion
    <3>1. routes' \subseteq routes /\ lastRoute' = lastRoute
      BY <1>1 DEF Serve, DeleteProxy, DeleteRoutesOf
    <3>2. gone = {r.id : r \in routes \ routes'}
      OBVIOUS
    <3>3. \A i \in gone : i <= lastRoute' /\ \A r \in routes' : r.id # i
      BY <3>1, <3>2 DEF Deletions, RouteIds, Good, GoodTables
    <3>4. /\ \/ task[t].todo = <<{"proxies"}, {"routes"}>>
             \/ task[t].todo = <<{"routes"}>>
          /\ task[t].got["routes"] = None
      BY DEF Deletions, GoodDeletion, ServeEdit
    <3>5. c.stage = "answer"
      BY <1>0 DEF GoodCall, CallOf
    <3> HIDE DEF c, gone
    <3> QED
      BY <2>3, <2>4, <3>3, <3>4, <3>5 DEF GoodDeletion
  <2> HIDE DEF c
  <2>6. ASSUME NEW s \in Task PROVE GoodDeletion(task'[s], routes', lastRoute')
    <3>1. CASE s = t
      BY <2>2, <2>5, <3>1 DEF Good, GoodPage
    <3>2. CASE s # t
      <4>1. task'[s] = task[s] /\ task[s] \in GoodCall
        BY <2>2, <3>2 DEF Good, GoodPage
      <4>2. GoodDeletion(task[s], routes, lastRoute) /\ lastRoute \in Nat
        BY DEF Deletions, Good, GoodTables
      <4> QED
        BY <2>1, <4>1, <4>2, StaysGone
    <3> QED
      BY <3>1, <3>2
  <2> QED
    BY <2>1, <2>6 DEF Deletions
<1>2. CASE ServeFails(task[t].fn, says) /\ End(t)
  <2>1. /\ RouteIds' /\ lastRoute <= lastRoute' /\ lastRoute' \in Nat
        /\ \A r \in routes' : r \in routes \/ r.id > lastRoute
    BY <1>0, <1>2, ServeRoutes DEF Good, Deletions
  <2>2. ASSUME NEW s \in Task PROVE GoodDeletion(task'[s], routes', lastRoute')
    <3>1. CASE s = t
      BY <1>2, <3>1, NoDeletion, IdleDeletes DEF End, Good, GoodPage
    <3>2. CASE s # t
      <4>1. task'[s] = task[s] /\ task[s] \in GoodCall
        BY <1>2, <3>2 DEF End, Good, GoodPage
      <4>2. GoodDeletion(task[s], routes, lastRoute) /\ lastRoute \in Nat
        BY DEF Deletions, Good, GoodTables
      <4> QED
        BY <2>1, <4>1, <4>2, StaysGone
    <3> QED
      BY <3>1, <3>2
  <2> QED
    BY <2>1, <2>2 DEF Deletions
<1> QED
  BY <1>1, <1>2 DEF ServeEdit

\* A table is loaded: the routes come without those that are gone.
LEMMA ServeLoadDeletions ==
  ASSUME Good, Deletions, NEW t \in Task, NEW table \in Tables, ServeLoad(t, table)
  PROVE  Deletions'
<1>0. /\ task[t] \in GoodCall /\ task[t].got \in GoodGot
      /\ GoodDeletion(task[t], routes, lastRoute)
  BY DEF Good, GoodPage, GoodCall, CallOf, GoodGot, Deletions
<1>1. PICK answer \in {Answer(table), Error} :
        task' = [task EXCEPT ![t] = [task[t] EXCEPT !.got[table] = answer]]
  BY DEF ServeLoad, Good, GoodPage
<1> DEFINE c == [task[t] EXCEPT !.got[table] = answer]
<1>2. /\ c.fn = task[t].fn /\ c.todo = task[t].todo /\ c.stage = "load"
      /\ c.gone = task[t].gone /\ c.got = [task[t].got EXCEPT ![table] = answer]
  BY <1>0 DEF GoodCall, CallOf, ServeLoad
<1> HIDE DEF c
<1>3. GoodDeletion(c, routes, lastRoute)
  <2> SUFFICES ASSUME task[t].fn = "delProxy" PROVE GoodDeletion(c, routes, lastRoute)
    BY <1>2, NoDeletion
  <2>1. table \in Head(task[t].todo)
    BY DEF ServeLoad
  <2>2. CASE table = "proxies"
    <3>1. c.got["routes"] = task[t].got["routes"]
      BY <1>0, <1>2, <2>2 DEF GoodGot
    <3> QED
      BY <1>0, <1>2, <3>1 DEF GoodDeletion
  <2>3. CASE table = "routes"
    <3>1. task[t].todo = <<{"routes"}>>
      BY <1>0, <2>1, <2>3 DEF GoodDeletion
    <3>2. c.got["routes"] = answer
      BY <1>0, <1>2, <2>3 DEF GoodGot
    <3>3. answer # Error => \A r \in answer : \E q \in routes : r.id = q.id
      BY <2>3 DEF Answer, Listed
    <3>4. answer = Error \/ \A r \in answer : r.id \notin task[t].gone
      BY <1>0, <3>3 DEF GoodDeletion
    <3> QED
      BY <1>0, <1>2, <3>1, <3>2, <3>4 DEF GoodDeletion
  <2> QED
    BY <2>2, <2>3 DEF Tables
<1>4. UNCHANGED tables
  BY DEF ServeLoad
<1> QED
  BY <1>1, <1>3, <1>4, OnePage DEF c

\* The last load ends the function, an earlier one leaves the rest.
LEMMA EndLoadDeletions ==
  ASSUME Good, Deletions, NEW t \in Task, EndLoad(t)
  PROVE  Deletions'
<1>0. task[t] \in GoodCall /\ GoodDeletion(task[t], routes, lastRoute) /\ UNCHANGED tables
  BY DEF Good, GoodPage, Deletions, EndLoad
<1>1. CASE End(t)
  BY <1>0, <1>1, OnePage, NoDeletion, IdleDeletes DEF End
<1>2. CASE ~End(t)
  <2> DEFINE c == [task[t] EXCEPT !.todo = Tail(task[t].todo), !.got = NoAnswer]
  <2>1. Len(task[t].todo) > 1 /\ task' = [task EXCEPT ![t] = c]
    BY <1>2 DEF EndLoad, Good, GoodPage
  <2>2. /\ c.fn = task[t].fn /\ c.todo = Tail(task[t].todo) /\ c.got = NoAnswer
        /\ c.gone = task[t].gone
    BY <1>0 DEF GoodCall, CallOf
  <2> HIDE DEF c
  <2>3. GoodDeletion(c, routes, lastRoute)
    <3> SUFFICES ASSUME task[t].fn = "delProxy" PROVE GoodDeletion(c, routes, lastRoute)
      BY <2>2, NoDeletion
    <3>1. task[t].todo = <<{"proxies"}, {"routes"}>>
      <4>1. ~(Len(<<{"routes"}>>) > 1)
        OBVIOUS
      <4>2. task[t].todo # <<{"routes"}>>
        BY <2>1, <4>1, Zenon
      <4> QED
        BY <1>0, <4>2 DEF GoodDeletion
    <3>2. c.todo = <<{"routes"}>>
      BY <2>2, <3>1
    <3>3. c.got["routes"] = None
      BY <2>2 DEF NoAnswer
    <3> QED
      BY <1>0, <2>2, <3>2, <3>3 DEF GoodDeletion
  <2> QED
    BY <1>0, <2>1, <2>3, OnePage
<1> QED
  BY <1>1, <1>2

\* Every step keeps what a deletion knows.
LEMMA DeletionsStep == Good /\ Deletions /\ [Next]_vars => Deletions'
<1> SUFFICES ASSUME Good, Deletions, [Next]_vars PROVE Deletions'
  OBVIOUS
<1>1. ASSUME UNCHANGED <<tables, task>> PROVE Deletions'
  BY <1>1 DEF tables, Deletions, RouteIds
<1>2. ASSUME NEW t \in Task, Page(t) PROVE Deletions'
  BY <1>1, <1>2, ClickDeletions
     DEF Page, AddProxyForm, ProxiesTable, AddRouteForm, RoutesTable, ClickAddProxy,
         ClickToggle, ClickDelProxy, Choose, ClickAddRoute, ClickDelRoute
<1>3. ASSUME NEW t \in Task, Refresh(t) PROVE Deletions'
  <2> DEFINE c == Call("refresh", "load", Nothing, Loads("refresh"))
  <2>1. GoodDeletion(c, routes, lastRoute)
    BY NoDeletion DEF Call
  <2> QED
    BY <1>3, <2>1, OnePage DEF Refresh
<1>4. ASSUME NEW t \in Task, EndEdit(t) PROVE Deletions'
  <2>0. task[t] \in GoodCall /\ GoodDeletion(task[t], routes, lastRoute) /\ UNCHANGED tables
    BY <1>4 DEF Good, GoodPage, Deletions, EndEdit
  <2>1. CASE End(t)
    BY <2>0, <2>1, OnePage, NoDeletion, IdleDeletes DEF End
  <2>2. CASE task' = [task EXCEPT ![t].stage = "load"]
    <3> DEFINE c == [task[t] EXCEPT !.stage = "load"]
    <3>1. /\ c.fn = task[t].fn /\ c.todo = task[t].todo /\ c.got = task[t].got
          /\ c.gone = task[t].gone /\ c.stage = "load"
      BY <2>0 DEF GoodCall, CallOf
    <3>2. task' = [task EXCEPT ![t] = c]
      BY <2>2 DEF Good, GoodPage
    <3> HIDE DEF c
    <3>3. GoodDeletion(c, routes, lastRoute)
      BY <2>0, <3>1 DEF GoodDeletion
    <3> QED
      BY <2>0, <3>2, <3>3, OnePage
  <2> QED
    BY <1>4, <2>1, <2>2 DEF EndEdit
<1>5. ASSUME SomebodyElse PROVE Deletions'
  <2>1. PICK fn \in Edits, id \in 1 .. lastProxy + lastRoute, on \in BOOLEAN :
          LET says == Says(id, on, ProxyWith(id))
          IN  Serve(fn, says) \/ ServeFails(fn, says)
    BY <1>5 DEF SomebodyElse
  <2>2. Says(id, on, ProxyWith(id)) \in GoodRequest
    BY ProxyWithGood, SaysGood DEF Good, GoodTables
  <2>3. /\ RouteIds' /\ lastRoute <= lastRoute' /\ lastRoute' \in Nat
        /\ \A r \in routes' : r \in routes \/ r.id > lastRoute
    BY <2>1, <2>2, ServeRoutes DEF Good, Deletions
  <2>4. task' = task
    BY <1>5 DEF SomebodyElse
  <2>5. ASSUME NEW s \in Task PROVE GoodDeletion(task[s], routes', lastRoute')
    <3>1. task[s] \in GoodCall /\ GoodDeletion(task[s], routes, lastRoute) /\ lastRoute \in Nat
      BY DEF Good, GoodPage, GoodTables, Deletions
    <3> QED
      BY <2>3, <3>1, StaysGone
  <2> QED
    BY <2>3, <2>4, <2>5 DEF Deletions
<1>6. CASE UNCHANGED vars
  BY <1>1, <1>6 DEF vars
<1> QED
  BY <1>2, <1>3, <1>4, <1>5, <1>6, ServeEditDeletions, ServeLoadDeletions, EndLoadDeletions
     DEF Next, Proceed

\* When deleteProxy is through, and its loads succeeded, no route that the
\* server deleted with the proxy is shown, whatever else is loaded meanwhile.
THEOREM DeletionCorrect == Spec => DeletionShown
<1> DEFINE A == \A t \in Task :
       /\ task[t].fn = "delProxy" /\ task[t].stage = "load"
       /\ task'[t].stage = "idle"
       /\ \A table \in Tables : task[t].got[table] # Error
       => \A r \in shown'.routes : r.id \notin task[t].gone
<1>1. Good /\ Deletions /\ [Next]_vars => [A]_vars
  <2> SUFFICES ASSUME Good, Deletions, Next, NEW t \in Task,
                      task[t].fn = "delProxy", task[t].stage = "load",
                      task'[t].stage = "idle",
                      \A table \in Tables : task[t].got[table] # Error
               PROVE  \A r \in shown'.routes : r.id \notin task[t].gone
    BY DEF vars
  <2>0. task \in [Task -> GoodCall] /\ GoodDeletion(task[t], routes, lastRoute)
    BY DEF Good, GoodPage, Deletions
  <2>1. task'[t] # task[t]
    OBVIOUS
  <2>2. PICK s \in Task : Page(s) \/ Refresh(s) \/ Proceed(s)
    BY <2>1 DEF Next, SomebodyElse
  <2>3. s = t
    BY <2>0, <2>1, <2>2
       DEF Page, AddProxyForm, ProxiesTable, AddRouteForm, RoutesTable, ClickAddProxy,
           ClickToggle, ClickDelProxy, Choose, ClickAddRoute, ClickDelRoute, Click,
           Refresh, Proceed, ServeEdit, EndEdit, ServeLoad, EndLoad, End
  <2>4. ~\E table \in Tables : ServeLoad(t, table)
    BY <2>0 DEF ServeLoad, GoodCall, CallOf
  <2>5. EndLoad(t)
    BY <2>1, <2>2, <2>3, <2>4
       DEF Page, AddProxyForm, ProxiesTable, AddRouteForm, RoutesTable, ClickAddProxy,
           ClickToggle, ClickDelProxy, Choose, ClickAddRoute, ClickDelRoute, Click,
           Refresh, Proceed, ServeEdit, EndEdit
  <2>6. Len(task[t].todo) = 1
    <3>1. ASSUME task' = [task EXCEPT ![t].todo = Tail(task[t].todo), ![t].got = NoAnswer]
          PROVE  FALSE
      BY <2>0, <3>1 DEF GoodCall, CallOf
    <3> QED
      BY <2>5, <3>1 DEF EndLoad
  <2>7. task[t].todo = <<{"routes"}>>
    BY <2>0, <2>6 DEF GoodDeletion
  <2>8. task[t].got["routes"] \notin {None, Error}
    BY <2>5, <2>7 DEF EndLoad, Tables
  <2>9. shown'.routes = task[t].got["routes"]
    BY <2>5, <2>8 DEF EndLoad, Stored
  <2> QED
    BY <2>0, <2>8, <2>9 DEF GoodDeletion
<1>2. Spec => [](Good /\ Deletions)
  BY InitGood, StepGood, DeletionsInit, DeletionsStep, PTL DEF Spec
<1>3. Spec => [][A]_vars
  BY <1>1, <1>2, PTL DEF Spec
<1> QED
  BY <1>3 DEF DeletionShown
=============================================================================
