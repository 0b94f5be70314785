----------------------------- MODULE ProxyRouting -----------------------------
(***************************************************************************)
(* Outbound proxies: the tables proxies and proxy_routes of internal/db,   *)
(* the posts of internal/forwarder that resolve a proxy for their          *)
(* destination, the admin handlers that edit the tables inside the server, *)
(* and the "proxy" and "proxy-route" commands of the CLI, which edit the   *)
(* same database file from a process of their own.                         *)
(*                                                                         *)
(* The RWMutex of db.DB orders the goroutines of the server and nothing    *)
(* else; between the processes only a single statement is atomic.          *)
(***************************************************************************)
EXTENDS Naturals, FiniteSets, FiniteSetsExt

CONSTANTS Proxy,        \* the proxies the operator may add, each at most once
          Sender,       \* goroutines that post
          Destination,  \* hosts posts go to
          Pattern, Covers,  \* route patterns, and the hosts LIKE matches
          MaxRoutes,    \* bound on the proxy routes ever added
          MaxUpdates,   \* bound on PUT /admin/proxies
          Faults,       \* TRUE: a statement may fail (SQLITE_BUSY, I/O)
          ConfigProxy,  \* TRUE: proxy.url is set in config.yml
          MaxCrashes,   \* bound on crashes of the server and of the CLI
          None,         \* nothing yet
          Direct, Configured  \* a client without a proxy, one with proxy.url

ASSUME ProxyAssumption ==
  /\ IsFiniteSet(Proxy)
  /\ Covers \in [Pattern -> SUBSET Destination]
  /\ MaxRoutes \in Nat /\ MaxUpdates \in Nat /\ MaxCrashes \in Nat
  /\ Faults \in BOOLEAN /\ ConfigProxy \in BOOLEAN
  /\ Proxy \cap {None, Direct, Configured} = {}

VARIABLES
  proxies,   \* table proxies: id, proxy, enabled
  routes,    \* table proxy_routes: id, dest, proxyId, and what it was meant for
  lastProxy, \* sqlite_sequence of proxies: the largest id ever given
  lastRoute, \* sqlite_sequence of proxy_routes
  added,     \* proxies that were added so far
  readers,   \* goroutines that hold the read lock of db.DB
  deleting,  \* per process, the id of the proxy it is deleting, 0 for none
  dest,      \* the destination of each sender
  picked,    \* the route whose proxy_id the first query of ResolveProxy took
  via,       \* how the request of each sender goes out
  mapped,    \* senders whose destination was mapped to an enabled proxy at
             \* every instant since they began to resolve (history)
  updates, crashes

tables  == <<proxies, routes, lastProxy, lastRoute, added>>
senders == <<dest, picked, via>>
vars    == <<tables, readers, deleting, senders, mapped, updates, crashes>>

Process == {"server", "cli"}

ProxyIds == 1 .. Cardinality(Proxy)

NoRoute == [id |-> 0, dest |-> None, proxyId |-> 0, meant |-> None]

Init ==
  /\ proxies = {} /\ routes = {}
  /\ lastProxy = 0 /\ lastRoute = 0
  /\ added = {}
  /\ readers = {}
  /\ deleting = [p \in Process |-> 0]
  /\ dest = [s \in Sender |-> None]
  /\ picked = [s \in Sender |-> NoRoute]
  /\ via = [s \in Sender |-> None]
  /\ mapped = {}
  /\ updates = 0 /\ crashes = 0

\* The join of the first query: enabled proxies with a route that matches d.
Candidates(rs, ps, d) ==
  {r \in rs : /\ d \in Covers[r.dest]
              /\ \E p \in ps : p.id = r.proxyId /\ p.enabled}

\* The history variable, when the tables become rs and ps.
StillMapped(rs, ps) == mapped' = {s \in mapped : Candidates(rs, ps, dest[s]) # {}}

\* Slip: a write that does not take the lock.
MayWriteUnlocked(process) == deleting[process] = 0

\* Inside the server a write waits for the readers and for a deletion under
\* way; the CLI waits for nobody.  A process runs one deletion at a time.
MayWrite(process) ==
  /\ deleting[process] = 0
  /\ process = "server" => readers = {}

-----------------------------------------------------------------------------
(* Editing the tables                                                      *)

\* Slip: a key without AUTOINCREMENT, the largest id in use plus one.
AddProxyReusesId(process, p, on) ==
  LET free == Max({q.id : q \in proxies} \cup {0}) + 1
  IN  /\ MayWrite(process)
      /\ p \in Proxy \ added
      /\ process = "cli" => on
      /\ added' = added \cup {p}
      /\ lastProxy' = free
      /\ proxies' = proxies \cup {[id |-> free, proxy |-> p, enabled |-> on]}
      /\ StillMapped(routes, proxies')
      /\ UNCHANGED <<routes, lastRoute, readers, deleting, senders, updates, crashes>>

AddProxy(process, p, on) ==
  /\ MayWrite(process)
  /\ p \in Proxy \ added
  /\ process = "cli" => on
  /\ added' = added \cup {p}
  /\ lastProxy' = lastProxy + 1
  /\ proxies' = proxies \cup {[id |-> lastProxy + 1, proxy |-> p, enabled |-> on]}
  /\ StillMapped(routes, proxies')
  /\ UNCHANGED <<routes, lastRoute, readers, deleting, senders, updates, crashes>>

Switched(row) == [id |-> row.id, proxy |-> row.proxy, enabled |-> ~row.enabled]

\* PUT /admin/proxies; the CLI has no such command.
UpdateProxy(row) ==
  /\ MayWrite("server")
  /\ updates < MaxUpdates
  /\ updates' = updates + 1
  /\ proxies' = (proxies \ {row}) \cup {Switched(row)}
  /\ StillMapped(routes, proxies')
  /\ UNCHANGED <<routes, lastProxy, lastRoute, added, readers, deleting, senders,
                 crashes>>

\* The proxy a route with this id is meant for, as the operator sees it.
Meant(id) ==
  IF \E p \in proxies : p.id = id
  THEN (CHOOSE p \in proxies : p.id = id).proxy ELSE None

\* Neither front end looks whether the proxy exists, and the foreign key of the
\* schema is not enforced.
AddProxyRoute(process, pattern, id) ==
  /\ MayWrite(process)
  /\ lastRoute < MaxRoutes
  /\ lastRoute' = lastRoute + 1
  /\ routes' = routes \cup {[id |-> lastRoute + 1, dest |-> pattern, proxyId |-> id,
                             meant |-> Meant(id)]}
  /\ StillMapped(routes', proxies)
  /\ UNCHANGED <<proxies, lastProxy, added, readers, deleting, senders, updates,
                 crashes>>

DeleteProxyRoute(process, r) ==
  /\ MayWrite(process)
  /\ routes' = routes \ {r}
  /\ StillMapped(routes', proxies)
  /\ UNCHANGED <<proxies, lastProxy, lastRoute, added, readers, deleting, senders,
                 updates, crashes>>

\* DeleteProxy, first statement: the routes of the proxy, the error ignored ...
DeleteRoutesOf(process, id) ==
  /\ MayWrite(process)
  /\ \/ routes' = {r \in routes : r.proxyId # id}
     \/ Faults /\ UNCHANGED routes
  /\ deleting' = [deleting EXCEPT ![process] = id]
  /\ StillMapped(routes', proxies)
  /\ UNCHANGED <<proxies, lastProxy, lastRoute, added, readers, senders, updates,
                 crashes>>

\* ... and the proxy, in a statement of its own.
DeleteProxyRow(process) ==
  /\ deleting[process] # 0
  /\ \/ proxies' = {p \in proxies : p.id # deleting[process]}
     \/ Faults /\ UNCHANGED proxies
  /\ deleting' = [deleting EXCEPT ![process] = 0]
  /\ StillMapped(routes, proxies')
  /\ UNCHANGED <<routes, lastProxy, lastRoute, added, readers, senders, updates,
                 crashes>>

-----------------------------------------------------------------------------
(* Resolving: post, dbProxyResolver and ResolveProxy                       *)

\* The default client of the forwarder: direct, unless proxy.url is set.
DefaultClient == IF ConfigProxy THEN Configured ELSE Direct

\* First query, under the read lock.  LIMIT 1 without ORDER BY: any candidate.
\* "No row" and any error mean "no matching route".
ResolveRoute(s, d) ==
  /\ via[s] = None /\ s \notin readers
  /\ deleting["server"] = 0
  /\ dest' = [dest EXCEPT ![s] = d]
  /\ LET found == Candidates(routes, proxies, d)
     IN  /\ mapped' = IF found = {} THEN mapped ELSE mapped \cup {s}
         /\ \/ \E r \in found :
                 /\ picked' = [picked EXCEPT ![s] = r]
                 /\ readers' = readers \cup {s}
                 /\ UNCHANGED via
            \/ /\ Faults \/ found = {}
               /\ via' = [via EXCEPT ![s] = DefaultClient]
               /\ UNCHANGED <<picked, readers>>
  /\ UNCHANGED <<tables, deleting, updates, crashes>>

\* Slip: the error of the second query is dropped, a zero Proxy is returned.
ResolveRowZero(s) ==
  /\ s \in readers
  /\ \/ \E p \in proxies : /\ p.id = picked[s].proxyId
                           /\ via' = [via EXCEPT ![s] = p.proxy]
     \/ /\ Faults \/ ~\E p \in proxies : p.id = picked[s].proxyId
        /\ via' = [via EXCEPT ![s] = NoRoute]
  /\ readers' = readers \ {s}
  /\ UNCHANGED <<tables, deleting, dest, picked, mapped, updates, crashes>>

\* Second query: the row by its id.  When it fails or the row is gone, post
\* falls back to the default client.
ResolveRow(s) ==
  /\ s \in readers
  /\ \/ \E p \in proxies : /\ p.id = picked[s].proxyId
                           /\ via' = [via EXCEPT ![s] = p.proxy]
     \/ /\ Faults \/ ~\E p \in proxies : p.id = picked[s].proxyId
        /\ via' = [via EXCEPT ![s] = DefaultClient]
  /\ readers' = readers \ {s}
  /\ UNCHANGED <<tables, deleting, dest, picked, mapped, updates, crashes>>

\* The request is done; the goroutine may post again.
Posted(s) ==
  /\ via[s] # None
  /\ via' = [via EXCEPT ![s] = None]
  /\ dest' = [dest EXCEPT ![s] = None]
  /\ picked' = [picked EXCEPT ![s] = NoRoute]
  /\ mapped' = mapped \ {s}
  /\ UNCHANGED <<tables, readers, deleting, updates, crashes>>

-----------------------------------------------------------------------------
(* A process dies; what it had not deleted yet stays.                      *)

CrashServer ==
  /\ crashes < MaxCrashes /\ crashes' = crashes + 1
  /\ readers' = {} /\ mapped' = {}
  /\ deleting' = [deleting EXCEPT !["server"] = 0]
  /\ dest' = [s \in Sender |-> None]
  /\ picked' = [s \in Sender |-> NoRoute]
  /\ via' = [s \in Sender |-> None]
  /\ UNCHANGED <<tables, updates>>

CrashCli ==
  /\ crashes < MaxCrashes /\ crashes' = crashes + 1
  /\ deleting["cli"] # 0
  /\ deleting' = [deleting EXCEPT !["cli"] = 0]
  /\ UNCHANGED <<tables, readers, senders, mapped, updates>>

-----------------------------------------------------------------------------

Edit(process) ==
  \/ \E p \in Proxy, on \in BOOLEAN : AddProxy(process, p, on)
  \/ \E pattern \in Pattern, id \in ProxyIds : AddProxyRoute(process, pattern, id)
  \/ \E r \in routes : DeleteProxyRoute(process, r)
  \/ \E id \in ProxyIds : DeleteRoutesOf(process, id)
  \/ DeleteProxyRow(process)

Resolve(s) == (\E d \in Destination : ResolveRoute(s, d)) \/ ResolveRow(s)

Next ==
  \/ \E process \in Process : Edit(process)
  \/ \E row \in proxies : UpdateProxy(row)
  \/ \E s \in Sender : Resolve(s) \/ Posted(s)
  \/ CrashServer \/ CrashCli

Spec == Init /\ [][Next]_vars

-----------------------------------------------------------------------------
(* Properties                                                              *)

ProxyRow == [id: Nat, proxy: Proxy, enabled: BOOLEAN]
RouteRow == [id: Nat, dest: Pattern, proxyId: Nat, meant: Proxy \cup {None}]

\* Every variable has its type.
TypeOK ==
  /\ proxies \subseteq ProxyRow /\ routes \subseteq RouteRow
  /\ lastProxy \in Nat /\ lastRoute \in Nat
  /\ added \subseteq Proxy
  /\ readers \subseteq Sender
  /\ deleting \in [Process -> Nat]
  /\ dest \in [Sender -> Destination \cup {None}]
  /\ picked \in [Sender -> RouteRow \cup {NoRoute}]
  /\ via \in [Sender -> Proxy \cup {None, Direct, Configured}]
  /\ mapped \subseteq Sender
  /\ updates \in Nat /\ crashes \in Nat

\* A route never ends up at another proxy than the one its id named when the
\* operator added it: routes outlive their proxy when DeleteProxy fails or is
\* cut half-way, or when a route is added between its two statements, and what
\* saves them is that no id is ever given twice.
RouteKeepsItsProxy ==
  \A r \in routes, p \in proxies :
     p.id = r.proxyId => r.meant \in {None, p.proxy}

\* A post goes out through a proxy only if that proxy is enabled at the instant
\* it takes the row: only the first query of ResolveProxy looks at "enabled",
\* the second takes the row as it is, while the admin switches proxies off and
\* on and the CLI deletes and adds them.
ChosenIsEnabled ==
  [][\A s \in Sender :
       via[s] = None /\ via'[s] \in Proxy =>
         \E p \in proxies : p.proxy = via'[s] /\ p.enabled]_vars

\* What docs/general.md says of a destination some route matches (the message
\* is delivered through the configured proxy): no post goes out through the
\* default client while its destination has been mapped to an enabled proxy
\* ever since it began to resolve.
MappedUsesProxy == \A s \in mapped : via[s] \notin {Direct, Configured}
=============================================================================
