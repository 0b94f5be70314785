----------------------------- MODULE ProxiesPage -----------------------------
(***************************************************************************)
(* The proxies page of the dashboard (routes/proxies/+page.svelte) with    *)
(* the store functions it calls and the two tables they edit: buttons that *)
(* act on rows shown up to 10 s ago, two forms, deletions that reach into  *)
(* both tables, and other people who edit the same tables.                 *)
(*                                                                         *)
(* Dashboard has the connection; here it is always up.  The handlers of    *)
(* the server hold the mutex of db.DB, so a request is served in one step. *)
(* A proxy is its serial number, the n-th ever added; its columns but the  *)
(* switch are left out, and so are the destination of a route and the text *)
(* typed into the forms, which send nothing while it is empty.             *)
(***************************************************************************)
EXTENDS Naturals, Sequences

CONSTANTS Task,         \* store functions that may be under way at once
          First,        \* proxies, each with a route, before the page is opened
          MaxEdits,     \* bound on the edits, from this page or by others
          MaxFailures,  \* bound on the calls that fail
          None,         \* no answer yet
          Error         \* an answer without data

ASSUME PageAssumption ==
  /\ First \in Nat /\ MaxEdits \in Nat /\ MaxFailures \in Nat

VARIABLES
  proxies,              \* table proxies: id, on, serial
  routes,               \* table proxy_routes: id, proxyId, and the proxy meant
  lastProxy, lastRoute, \* sqlite_sequence of the two
  born,                 \* proxies added so far (history)
  shown,                \* the two tables as the store has them
  chosen,               \* routeProxyId, with the proxy the operator saw there
  task,                 \* the store functions under way
  edits, failures

tables == <<proxies, routes, lastProxy, lastRoute, born>>
counts == <<edits, failures>>
vars   == <<tables, shown, chosen, task, counts>>

Tables == {"proxies", "routes"}
Edits  == {"addProxy", "toggleProxy", "delProxy", "addRoute", "delRoute"}

\* What a request says: a row's id, the new state of its switch, and the proxy
\* the operator thinks of (0: none, or nobody knows).
Says(id, on, meant) == [id |-> id, on |-> on, meant |-> meant]
Nothing == Says(0, FALSE, 0)

NoAnswer == [proxies |-> None, routes |-> None]

\* fn, and how far it is; todo: tables still to load, those fetched together as
\* one set; got: the answers; gone: routes a deletion took along.
Call(fn, stage, says, todo) ==
  [fn |-> fn, stage |-> stage, says |-> says, todo |-> todo,
   got |-> NoAnswer, gone |-> {}]
Idle == Call("none", "idle", Nothing, <<>>)

Init ==
  /\ proxies = {[id |-> i, on |-> TRUE, serial |-> i] : i \in 1 .. First}
  /\ routes = {[id |-> i, proxyId |-> i, meant |-> i] : i \in 1 .. First}
  /\ lastProxy = First /\ lastRoute = First /\ born = First
  /\ shown = [proxies |-> {}, routes |-> {}]
  /\ chosen = Nothing
  /\ task = [t \in Task |-> Idle]
  /\ edits = 0 /\ failures = 0

Fail    == failures < MaxFailures /\ failures' = failures + 1
Succeed == UNCHANGED failures

AskForEdit == edits < MaxEdits /\ edits' = edits + 1

-----------------------------------------------------------------------------
(* The server                                                              *)

\* Slip: a key without AUTOINCREMENT, the smallest id that is free.
AddProxyReusesId ==
  LET free == CHOOSE i \in 1 .. lastProxy + 1 :
                /\ \A p \in proxies : p.id # i
                /\ \A j \in 1 .. i - 1 : \E p \in proxies : p.id = j
  IN  /\ proxies' = proxies \cup {[id |-> free, on |-> TRUE, serial |-> born + 1]}
      /\ lastProxy' = lastProxy + 1 /\ born' = born + 1
      /\ UNCHANGED <<routes, lastRoute>>

AddProxy ==
  /\ proxies' = proxies \cup {[id |-> lastProxy + 1, on |-> TRUE, serial |-> born + 1]}
  /\ lastProxy' = lastProxy + 1 /\ born' = born + 1
  /\ UNCHANGED <<routes, lastRoute>>

\* Slip: INSERT OR REPLACE.
UpdateProxyUpserts(says) ==
  /\ proxies' = {p \in proxies : p.id # says.id}
                  \cup {[id |-> says.id, on |-> says.on, serial |-> says.meant]}
  /\ UNCHANGED <<routes, lastProxy, lastRoute, born>>

\* An UPDATE of a row that is gone changes nothing and is no error.
UpdateProxy(says) ==
  /\ proxies' = {IF p.id = says.id THEN [p EXCEPT !.on = says.on] ELSE p : p \in proxies}
  /\ UNCHANGED <<routes, lastProxy, lastRoute, born>>

RoutesOf(id) == {r \in routes : r.proxyId = id}

\* The first statement of DeleteProxy, whose error nobody looks at.
DeleteRoutesOf(id) == routes' \in {routes \ RoutesOf(id), routes}

DeleteProxy(says) ==
  /\ DeleteRoutesOf(says.id)
  /\ proxies' = {p \in proxies : p.id # says.id}
  /\ UNCHANGED <<lastProxy, lastRoute, born>>

\* Nobody looks whether the proxy is still there.
AddProxyRoute(says) ==
  /\ routes' = routes \cup {[id |-> lastRoute + 1, proxyId |-> says.id, meant |-> says.meant]}
  /\ lastRoute' = lastRoute + 1
  /\ UNCHANGED <<proxies, lastProxy, born>>

DeleteProxyRoute(says) ==
  /\ routes' = {r \in routes : r.id # says.id}
  /\ UNCHANGED <<proxies, lastProxy, lastRoute, born>>

Serve(fn, says) ==
  \/ fn = "addProxy" /\ AddProxy
  \/ fn = "toggleProxy" /\ UpdateProxy(says)
  \/ fn = "delProxy" /\ DeleteProxy(says)
  \/ fn = "addRoute" /\ AddProxyRoute(says)
  \/ fn = "delRoute" /\ DeleteProxyRoute(says)

\* A request that ends with an error: DeleteProxy may have come half way.
ServeFails(fn, says) ==
  /\ routes' = routes \/ (fn = "delProxy" /\ DeleteRoutesOf(says.id))
  /\ UNCHANGED <<proxies, lastProxy, lastRoute, born>>

\* Slip: the join without COALESCE.
ProxyOrNull(id) ==
  IF \E p \in proxies : p.id = id
  THEN (CHOOSE p \in proxies : p.id = id).serial ELSE None

\* The proxy that has an id, 0 when it is gone.
ProxyWith(id) ==
  IF \E p \in proxies : p.id = id
  THEN (CHOOSE p \in proxies : p.id = id).serial ELSE 0

\* ListProxies, and ListProxyRoutes with the name of the proxy joined in.
Listed(table) ==
  IF table = "proxies" THEN proxies
  ELSE {[id |-> r.id, proxyId |-> r.proxyId, meant |-> r.meant,
         label |-> ProxyWith(r.proxyId)] : r \in routes}

\* Slip: the nil slice of an empty table is encoded as it is, null.
AnswerNull(table) == IF Listed(table) = {} THEN Error ELSE Listed(table)

\* The handlers answer an empty list as such; the page takes null for no data.
Answer(table) == Listed(table)

\* Another dashboard, or the CLI.
SomebodyElse ==
  /\ AskForEdit
  /\ \E fn \in Edits, id \in 1 .. lastProxy + lastRoute, on \in BOOLEAN :
        LET says == Says(id, on, ProxyWith(id))
        IN  Serve(fn, says) \/ ServeFails(fn, says)
  /\ UNCHANGED <<shown, chosen, task, failures>>

-----------------------------------------------------------------------------
(* The page                                                                *)

\* Slip: deleteProxy reloads its own table only.
LoadsProxiesOnly(fn) ==
  CASE fn \in {"addProxy", "toggleProxy", "delProxy"} -> <<{"proxies"}>>
    [] fn \in {"addRoute", "delRoute"}                -> <<{"routes"}>>
    [] OTHER                                          -> <<Tables>>

\* The tables a store function loads, one after the other or all at once.
Loads(fn) ==
  CASE fn \in {"addProxy", "toggleProxy"} -> <<{"proxies"}>>
    [] fn \in {"addRoute", "delRoute"}    -> <<{"routes"}>>
    [] fn = "delProxy"                    -> <<{"proxies"}, {"routes"}>>
    [] OTHER                              -> <<Tables>>

\* The select offers "Select proxy..." and the proxies shown now; a choice
\* outlives its option.
Choose ==
  /\ \/ chosen' = Nothing
     \/ \E p \in shown.proxies : chosen' = Says(p.id, FALSE, p.serial)
  /\ UNCHANGED <<tables, shown, task, counts>>

\* A button calls a store function, and no button waits for an earlier call.
Click(t, fn, says) ==
  /\ task[t].stage = "idle"
  /\ AskForEdit
  /\ task' = [task EXCEPT ![t] = Call(fn, "send", says, Loads(fn))]
  /\ UNCHANGED <<tables, shown, chosen, failures>>

\* With the text field filled in; it is cleared when the store function is back,
\* whether it failed and whatever was typed since.  Two clicks add two proxies.
ClickAddProxy(t) == Click(t, "addProxy", Nothing)

ClickToggle(t) ==
  \E p \in shown.proxies : Click(t, "toggleProxy", Says(p.id, ~p.on, p.serial))

\* The question "delete?" blocks the page: the row is still the one shown.
ClickDelProxy(t) ==
  \E p \in shown.proxies : Click(t, "delProxy", Says(p.id, FALSE, p.serial))

ClickAddRoute(t) == chosen.id # 0 /\ Click(t, "addRoute", chosen)

ClickDelRoute(t) ==
  \E r \in shown.routes : Click(t, "delRoute", Says(r.id, FALSE, 0))

\* The timer of the layout, or its button.
Refresh(t) ==
  /\ task[t].stage = "idle"
  /\ task' = [task EXCEPT ![t] = Call("refresh", "load", Nothing, Loads("refresh"))]
  /\ UNCHANGED <<tables, shown, chosen, counts>>

End(t) == task' = [task EXCEPT ![t] = Idle]

ServeEdit(t) ==
  /\ task[t].stage = "send"
  /\ \/ /\ Serve(task[t].fn, task[t].says)
        /\ task' = [task EXCEPT ![t].stage = "answer", ![t].says = Nothing,
                                ![t].gone = IF task[t].fn = "delProxy"
                                            THEN {r.id : r \in routes \ routes'}
                                            ELSE {}]
        /\ Succeed
     \/ ServeFails(task[t].fn, task[t].says) /\ End(t) /\ Fail
  /\ UNCHANGED <<shown, chosen, edits>>

EndEdit(t) ==
  /\ task[t].stage = "answer"
  /\ \/ task' = [task EXCEPT ![t].stage = "load"] /\ Succeed
     \/ Fail /\ End(t)
  /\ UNCHANGED <<tables, shown, chosen, edits>>

ServeLoad(t, table) ==
  /\ task[t].stage = "load"
  /\ table \in Head(task[t].todo) /\ task[t].got[table] = None
  /\ \/ task' = [task EXCEPT ![t].got[table] = Answer(table)] /\ Succeed
     \/ task' = [task EXCEPT ![t].got[table] = Error] /\ Fail
  /\ UNCHANGED <<tables, shown, chosen, edits>>

\* What a store function leaves in the store when its answers are there.
Stored(got, table) ==
  IF got[table] \in {None, Error} THEN shown[table] ELSE got[table]

EndLoad(t) ==
  /\ task[t].stage = "load"
  /\ \A table \in Head(task[t].todo) : task[t].got[table] # None
  /\ shown' = [proxies |-> Stored(task[t].got, "proxies"),
               routes  |-> Stored(task[t].got, "routes")]
  /\ \/ Len(task[t].todo) = 1 /\ End(t)
     \/ /\ Len(task[t].todo) > 1
        /\ task' = [task EXCEPT ![t].todo = Tail(task[t].todo), ![t].got = NoAnswer]
  /\ UNCHANGED <<tables, chosen, counts>>

-----------------------------------------------------------------------------

\* The page, part by part.
AddProxyForm(t) == ClickAddProxy(t)
ProxiesTable(t) == ClickToggle(t) \/ ClickDelProxy(t)
AddRouteForm(t) == Choose \/ ClickAddRoute(t)
RoutesTable(t)  == ClickDelRoute(t)

Page(t) == AddProxyForm(t) \/ ProxiesTable(t) \/ AddRouteForm(t) \/ RoutesTable(t)

\* What happens to a call once it is made.
Proceed(t) ==
  \/ ServeEdit(t) \/ EndEdit(t)
  \/ \E table \in Tables : ServeLoad(t, table)
  \/ EndLoad(t)

Next ==
  \/ \E t \in Task : Page(t) \/ Refresh(t) \/ Proceed(t)
  \/ SomebodyElse

Spec == Init /\ [][Next]_vars

\* Every fetch is settled, and the timer fires for ever.
FairSpec ==
  /\ Spec
  /\ \A t \in Task : WF_vars(Proceed(t))
  /\ WF_vars(\E t \in Task : Refresh(t))

-----------------------------------------------------------------------------
(* Properties                                                              *)

ProxyRow   == [id: Nat, on: BOOLEAN, serial: Nat]
RouteRow   == [id: Nat, proxyId: Nat, meant: Nat]
ShownRoute == [id: Nat, proxyId: Nat, meant: Nat, label: Nat]
Request    == [id: Nat, on: BOOLEAN, meant: Nat]

CallOf(proxyRows, routeRows, requests) ==
  [fn: Edits \cup {"none", "refresh"}, stage: {"idle", "send", "answer", "load"},
   says: requests, todo: Seq(SUBSET Tables),
   got: [proxies: {None, Error} \cup SUBSET proxyRows,
         routes: {None, Error} \cup SUBSET routeRows],
   gone: SUBSET Nat]

\* Every variable has its type.
TypeOK ==
  /\ proxies \subseteq ProxyRow /\ routes \subseteq RouteRow
  /\ lastProxy \in Nat /\ lastRoute \in Nat /\ born \in Nat
  /\ shown \in [proxies: SUBSET ProxyRow, routes: SUBSET ShownRoute]
  /\ chosen \in Request
  /\ task \in [Task -> CallOf(ProxyRow, ShownRoute, Request)]
  /\ edits \in 0 .. MaxEdits /\ failures \in 0 .. MaxFailures

\* Does something that names a proxy by its id, and was meant for a certain
\* proxy, still mean that one, if the id is in the table at all?
SameProxy(id, meant) ==
  \A p \in proxies : p.id = id => meant \in {0, p.serial}

\* However old the rows on the page are, a click acts on the proxy it was made
\* for or on none: a switch, a deletion or a route on its way, the choice kept
\* in the form and the routes stored never come to name a later proxy, and the
\* name shown beside a route is that of the proxy it was made for.
ClicksHitTheirProxy ==
  /\ \A t \in Task : task[t].fn \in {"toggleProxy", "delProxy", "addRoute"} =>
                       SameProxy(task[t].says.id, task[t].says.meant)
  /\ SameProxy(chosen.id, chosen.meant)
  /\ \A p \in shown.proxies : SameProxy(p.id, p.serial)
  /\ \A r \in routes : SameProxy(r.proxyId, r.meant)
  /\ \A r \in shown.routes : 0 \in {r.label, r.meant} \/ r.label = r.meant

\* A switch that arrives after somebody deleted the proxy does not bring it
\* back: what enters the table is a proxy that never was in it.
NeverResurrected ==
  [][\A p \in proxies' :
       p.serial > born \/ \E q \in proxies : q.serial = p.serial]_vars

\* When deleteProxy is through, none of the routes the server deleted with the
\* proxy is shown.  (They need not be all its routes: DeleteRoutesOf.)
DeletionShown ==
  [][\A t \in Task :
       /\ task[t].fn = "delProxy" /\ task[t].stage = "load"
       /\ task'[t].stage = "idle"
       /\ \A table \in Tables : task[t].got[table] # Error
       => \A r \in shown'.routes : r.id \notin task[t].gone]_vars

\* Once clicks, other people's edits and failures are over, the page shows what
\* the server has, for good, whatever order the answers came in.
PageConverges == <>[](\A table \in Tables : shown[table] = Listed(table))
=============================================================================
