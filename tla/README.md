# Madexchanger in TLA+

Madexchanger is an HTTP email relay: it accepts a message as an HTTP POST,
decides whether its relay policy admits it, rewrites the envelope, groups the
recipients by host and posts the message to each of them.  This directory holds
TLA+ models of it, TLC configurations that check them on small instances, and
TLAPS proofs of what matters most for every instance.

## Inventory

| component | state | operations | talks to |
|---|---|---|---|
| relay, `internal/server` | three atomic counters; per request the envelope and the results | `handleReceive` (validate, filter, rewrite, forward, record, answer), `handleHealth`, `Run`, `Shutdown` | forwarder (call), database (call), `cfg.RelayMode` (shared, unsynchronised) |
| forwarder, `internal/forwarder` | none between calls | `Forward` (per host: HTTPS, then HTTP; or one fixed downstream), `post` | downstream servers (HTTP), database through `dbProxyResolver` |
| database, `internal/db` | tables `stats`, `routes`, `rewrite_rules`, `relay_filters`, `proxies`, `proxy_routes` in SQLite; one `RWMutex` per process | one method per statement or short sequence of statements | a file the CLI shares |
| admin API, `internal/adminapi` | none; writes `cfg.RelayMode` and the tables | resources `stats`, `routes`, `config`, `rewrites`, `filters`, `proxies`, `proxy-routes` | database, configuration |
| CLI, `cmd/madexchanger/cli.go` | none | `proxy` and `proxy-route`: `list`, `add`, `remove` | the database file, from a process of its own |
| lifecycle, `cmd/madexchanger/main.go`, `Run` and `Shutdown` | the goroutines of `main` and of `Run`, a channel of signals, the `http.Server` | start, signal, graceful shutdown within 10 s, exit | all of the above |
| configuration, logger | read once; none | `Load`, defaults, validation; output | - |
| dashboard, `admin-web`: store and layout | a reactive store | `connect`, `disconnect`, `refresh`, `setRelayMode`, one function per edit; timer, login form | admin API (HTTP, asynchronous) |
| proxies page | two forms, two tables of rows from the store | add, toggle and delete a proxy; add and delete a route | store, and through it the admin API |
| overview page and relay diagram | bubbles, timers, what is drawn | `render`, `spawnBubble`, `animateBubbles`; mode buttons | store (props) |

What is hard in it:

* every request runs in a goroutine of its own, beside the admin handlers; the
  relay mode and the two tables a request reads are read one after the other;
* the network is unreliable, and the relay retries a group over HTTP when HTTPS
  failed, not knowing whether the first copy arrived;
* one message is many deliveries, and one status code answers for all of them;
* database errors are dropped on purpose, the process may die between any two
  steps, and nothing but the database survives;
* a proxy is resolved in two queries and deleted in two statements, and the CLI
  edits the same file without the server's lock;
* a signal may come at any moment of a start or a stop, handlers may outlast both
  the write deadline and the shutdown, and an upstream that hears nothing sends
  its message again;
* the browser shows rows that others change, lets several functions run at once,
  and decides by regular expressions what the server decides by `LIKE`.

What makes each part correct: the relay sends only what the policy admitted,
never a second copy of an acknowledged one, chooses a true answer, ends every
handler, and its statistics claim no more than happened; the forwarder forgets no recipient;
the database keeps related rows in step; proxy routing never sends a message
through another proxy than the operator named, or through one switched off; a
signal always ends the process, and the store is not closed under a handler; a
click in the dashboard acts on what it was made for, and what is shown becomes
true and stays so.

## Modules

| module | what it models |
|---|---|
| `Envelope` | addresses, filters, rewrite rules and grouping, as pure operators: `matchesFilter`, the loop body of `applyRewrites`, `groupByDomain`, both `domainOf` |
| `Relay` | `handleReceive`, `Forward` and `post` as one process per request, with the statements they run, the admin handlers for mode, filters and rules, downstream servers, and a crash with restart |
| `RelayService` | what the relay promises, with no handler, table or counter in it |
| `RelayProofs`, `RelayAnswerProofs`, `RelayBooksProofs` | proofs about `Relay`: types, admission and copies; the answer, and the refinement of `RelayService`; the counters |
| `ProxyRouting` | tables `proxies` and `proxy_routes`, their edits from the server and from the CLI, `ResolveProxy` and the choice of the client in `post` |
| `Lifecycle` | `main`, `Run` and `Shutdown` around the handlers, signals, restarts, and an upstream that tries again |
| `Dashboard` | the dashboard's store: its asynchronous functions, what starts them, and the server's mode and tables they read and edit |
| `ProxiesPage` | the proxies page: clicks on rows that may be old, the store functions behind them, and the two tables they edit |
| `RelayDiagram` | the diagram of the overview page: wires, bubbles, and the regular expression against the server's `LIKE` |
| `ProxyProofs`, `LifecycleProofs`, `DashboardProofs`, `ProxiesPageProofs`, `RelayDiagramProofs` | proofs about the module of the same name |
| `MCRelay`, `MCProxyRouting`, `MCLifecycle`, `MCDashboard`, `MCProxiesPage`, `MCRelayDiagram` | small instances for TLC |

`RelayService` is the abstraction of `Relay`.  `Lifecycle` reduces a handler to
"relays or not", which is what `Relay` shows it to do; `ProxiesPage` and
`Dashboard` serve a call in one step, as the handlers hold the mutex of `db.DB`.
A definition whose comment begins with "Slip" is a wrong version of the one after
it, kept to see that the properties notice; no specification uses it.

### Relay

One action per stretch of code between two points where another goroutine can
see or change something.  `pc[r]` says where the handler of request `r` stands:

    Arrive -> start -Check-> policy -ReadMode-> filter -ListFilters-> rules
      -LoadRules-> rewrite -ApplyRule*, StartForward-> choose
      -SendFirst-> await -PostSucceeds | PostFails-> choose ... -EndForward-> tally
      -CountForwarded, RecordRelay | RecordError, CountError-> tally ...
      -ChooseStatus-> reply -Reply-> done | late
    start, filter -> deny -RecordRejected-> fail -CountRefusal-> reply

`todo` is the rest of the Go map `Forward` ranges over, so its order is free;
`cur` is the post in progress.  `sent`, `accepted` and `acked` are the network:
a post is handed over, a downstream takes responsibility for it (at any time,
also long after the relay gave up or died), and the relay sees its 200 in time.
An error of `post` - refused, timed out, another status - is possible whether or
not the post was or will be accepted.  `RecordRelay` is a transaction and one
step; a failed statement changes nothing, which `Faults` allows anywhere.  A
crash loses the handlers, the counters and the mode; the tables and the network
stay.  `Reply` ends the handler; the answer is `late`, and nobody hears it, when the write deadline has passed:
`WriteTimeout` is 30 s (`server.go:125`), as long as one `forward_timeout`, and a
group may take two.
`admitted` and `denied` are history variables: which requests the policy
admitted, or denied, at some instant while their handler had not decided.

Abstractions: texts are values, a pattern is the set of texts it matches, and
addresses are records (user, host, bracketed or not: the two `domainOf` disagree
on that); the body is one of four kinds; `total_bytes`, `last_seen`, comments
and logging are left out; `main` always opens a database, so `store == nil` is
not modelled; `hostForURL` (IPv6 brackets) changes no behaviour here; redirects,
which `http.Client` follows, are left out, so that a 200 is an acceptance; an update
of a row that does not exist is a step that changes nothing.

### RelayService

A request is opened, refused before anything is sent, or its copies are sent, at
most one per destination and way of reaching it and none after a confirmation;
copies are delivered at any time; the answer is "ok" exactly when some copy was
confirmed, and may be lost.  `Relay` implements it: `phase` is computed from `pc`, `code` and
`sent` (`PhaseOf`), the copies are the posts without their recipients.

### ProxyRouting

`AddProxy`, `UpdateProxy`, `AddProxyRoute` and `DeleteProxyRoute` are one
statement each; `DeleteProxy` is `DeleteRoutesOf`, whose error is dropped, and
`DeleteProxyRow`; `ResolveProxy` is `ResolveRoute` and `ResolveRow`.  The
`RWMutex` is `readers` and `deleting["server"]`, and only the server's steps
wait for it (`MayWrite`).  The CLI is one process at a time, adds enabled proxies
only, and cannot update one.  A row of `routes` remembers the proxy its id named
when it was added, which is what the operator meant.  A proxy is its record:
changing its address is not distinguished from keeping it.  That
`clientForProxy` falls back to the default client for a malformed address is not
modelled.

### Lifecycle

`main` and `run` are the two goroutines, `done` the channel of signals:

    main: init -Notify-> notified -Go-> waiting -ReceiveSignal-> draining | closed (panic)
          draining -ShutdownReturns-> closed -Leave-> exited
          draining -ShutdownTimesOut-> exited
    run:  none -Go-> building -Build-> built -Listen-> serving -RunClosed-> returned
          built, serving -RunFails-> exited

A try is one request of the upstream: `Connect`, `Handle`, `Forward`, `Answer`,
with `GiveUp` (the upstream's own timeout), `PassDeadline` (the server's
`WriteTimeout`: the answer does not arrive, the handler does not know) and
`CloseUnread` (what `http.Server.Shutdown` does to a connection that has sent
nothing) in between.  `Forward` knows no context, so nothing hurries it.  `Exit`
ends all goroutines: from `os.Exit`, from the default action of a signal before
`signal.Notify`, from `Kill`, and after `main` returned or panicked, when the
deferred `Close` has run and other goroutines may still take a step.  It tells
the tries of this process how it ended (`Hears`), which `NoNeedlessCopy` needs.  After
`Start` everything in memory is new, and `db.Open` may fail.

An upstream is not part of the repository: it sends a message again when a try
failed or nothing was heard of it, one try after the other.  An answer lost to
the write deadline and an upstream that gave up look alike to it, so that it may
try again at once.

### Dashboard

The store is single-threaded, but its functions overlap wherever they `await`: a
task is one call of a function, and `fn` says how far it is.  A call to the admin
API is served at one step, and its answer is used at a later one:

    idle -Connect-> connect -ConnectSucceeds | ConnectFails-> refresh | idle
    idle -Refresh-> refresh -ServeConfig, ServeRows, EndRefresh-> idle
    idle -SetRelayMode-> setMode -ServeSetMode-> modeSet -EndSetMode-> idle
    idle -Edit-> edit -ServeEdit-> edited -EndEdit-> load -ServeLoad-> loaded -EndLoad-> idle

`refresh` waits for all its calls, which are served in any order, and keeps the
old value of each that failed.  Nothing cancels a call: `Disconnect` clears the
store, and the answers under way still fill it.  What starts them is
named after the part of the page: `AutoConnect` (an effect, at the first character
of the token), `LoginForm` (button, and Enter also while `connecting`), `Timer`
(whether or not a refresh is under way), `Header`, `ModeButtons`, and `Edit` for
the other pages.  A call fails before it is served or
after: the function sees the same.

Abstractions: rewrites, filters, proxies and routes are treated alike by the
store and are one table, whose content is the number of its edits; statistics and
messages, which are only shown, are left out, and so are toasts, the URL and the
token.  The server serves a call in one step; what its handlers do is in `Relay`
and `ProxyRouting`.

### ProxiesPage

`Dashboard` has one table and no meaning of a row; here the two tables are rows
with ids, and the point is what a click means by the time it is served.  A proxy
is its serial number, the n-th ever added; a request says an id and, for the
properties only, which proxy the operator saw there (`meant`).

    idle -Click-> send -ServeEdit-> answer -EndEdit-> load -ServeLoad*, EndLoad-> (next load) | idle
    idle -Refresh-> load

`Loads` says what a store function loads afterwards: `deleteProxy` loads the
proxies, then the routes, and `refresh` both at once.  `Choose` is the select of
the form, whose value outlives its option.  The server's statements are
`AddProxy`, `UpdateProxy`, `DeleteProxy`, `AddProxyRoute`, `DeleteProxyRoute`, and
`Listed` is what it answers to a load, with the proxy of a route joined in.
`DeleteProxy` runs both statements under the mutex, hence in one step; the error of
the first is dropped (`DeleteRoutesOf`), and a request that fails may have come
half way (`ServeFails`).  `SomebodyElse` makes any edit at any moment, in one step
also for the CLI, whose two statements are apart in `ProxyRouting`.  The
confirmation of a deletion blocks the page, so that question and click are one
step.

Abstractions: the connection is up (`Dashboard` has it), columns other than
`enabled` and typed text are left out, and the destination of a route, which
`RelayDiagram` is about.

### RelayDiagram

`config`, `proxies` and `proxyRoutes` are the props; `ChangeProps` changes one of
them and, as `render` reads all of them, makes the effect due (`dirty`), which
`Render` runs.  `Mount` draws, starts timer and interval, spawns a bubble and sets
two timeouts.  A bubble has a direction, a leg and a time on it; `AnimateBubbles` is
one frame for all of them, and `Legs` is looked up in the props of that moment.
Between which servers a bubble travels, and where it is drawn, are left out.  A
hidden tab gets no frames, and its interval goes on.  `Leave` stops timer and
interval, not the timeouts.

A downstream URL is the host in it and what stands before and after that in its
authority: a user, brackets, a port.  `Label` is all of it, which the diagram shows
and matches; `Hostname` is the host alone, which the server matches.

`Pattern` and `LikePattern` are the two translations of a route's pattern,
`RegExpTest` and `Like` what the browser and SQLite do with them (external).
Patterns consist of characters that stand for themselves, dots, `*` and `?`
(`PatternChar`, an assumption on the data); others are discussed under Observations.  Both matchers are
recursive functions on `Places`, pairs of a place in the pattern and one in the
text.  Senders and messages are fixed: the admin API has no resource
for messages, so the store never has any.  Positions, zoom, colours, the
statistics cards and the text beside the diagram are left out.

## Runs

| run | instance | shows |
|---|---|---|
| `relay_delivery` | 2 requests, 2 hosts, dynamic routing, database faults, 1 crash | no second copy of an acknowledged group, `routes` adds up to `total_relayed`, statistics never claim too much, `RelayService` is implemented |
| `relay_fanout` | 1 request of up to 3 recipients, 3 rewrite rules, faults, 1 crash, fairness | types, the answer is true of the network, success means everybody was delivered to, every handler ends |
| `relay_books` | 2 requests of all kinds, selected mode, no fault | counters and totals balance when idle |
| `relay_policy` | 2 requests, static routing, the admin edits mode, filters and rules | nothing leaves that was never admitted |
| `relay_stale` | 1 request, the admin edits mode and filters | violation: a 403 no policy ever asked for |
| `relay_downstream` | 1 request, one rule | violation: rules for the downstream URL are not applied |
| `proxy_edit` | 2 proxies, 2 routes, 1 sender, faults, 1 crash | types, no route changes hands, only enabled proxies are used |
| `dashboard_store` | 2 overlapping functions, 2 edits, 1 failed call, fairness | types, only modes the server had are shown, an edit shows itself, the store converges, connecting ends |
| `proxy_mapped` | the same as `proxy_edit`, no fault or crash | violation: a mapped destination is dialled directly |
| `proxies_page` | 1 proxy with a route, 2 overlapping functions, 2 edits, 1 failed call, fairness | types, clicks hit the proxy they were made for, a deleted proxy stays away, a deletion shows, the page converges |
| `relay_diagram` | dynamic routing or one of 3 URLs, 3 patterns, 3 tables of proxies, 5 lists of routes, 2 changes of any of them, 2 bubbles, legs of 2 frames, fairness | types, the wire to a downstream without a port agrees with the server's routing, bubbles end |
| `lifecycle` | 1 message, 3 tries, 2 starts, fairness | types, no handler without its store, what may cause a second copy, a signal ends the process |

Bounds.  Two requests are enough for two handlers to interleave, and each keeps
its state to itself but for counters and tables.  Two hosts give partial
failure; the three recipients of `relay_fanout` reach one host under both
spellings of it, and a rewrite rule moves one of them to the other host; a message whose only
recipient it moves must not be grouped by the host it came for.  One
crash: a second one finds only handlers that started after the first.  The
admin's tables are bounded by `MaxRows`; its actions are not counted, so that
the mode flips any number of times.  A proxy is added once, so that its identity
stays clear; two of them, with faults and a crash, are enough for an id to be
given twice, had the key no `AUTOINCREMENT`.  `MaxUpdates` bounds `PUT
/admin/proxies` in all.  In `Dashboard` two tasks overlap, which is what it takes
for answers to be swapped or flags to be reset by another; `MaxEdits` counts
edits when they are asked for, and `MaxFailures` the failed calls, so that
failures end, without which nothing converges.  `CHECK_DEADLOCK FALSE` stands where a finite set of
requests is finished.  Requests, and proxies, are interchangeable: symmetry is
used in runs without liveness.

In `ProxiesPage` the third serial number and the second route are within reach of
two edits, enough for an id to be given twice if ids could be, and for an old row
to meet a new table; in `RelayDiagram` the tables may be anything at first, so
that two changes reach every pair of tables that differ in two props and let the
number of legs go up and down again, and legs of two frames let that happen in the
middle of a leg; in `Lifecycle` two starts give
a try to each life of the process and a third to the one after a restart.

Fairness.  `FairSpec` of `Relay` asks weak fairness of each handler: the Go scheduler runs
every runnable goroutine, every statement returns (`busy_timeout` is 5 s), and
`http.Client.Timeout` ends every post, since `forward_timeout` defaults to 30 s
and is never 0.  Nothing is asked of downstreams, of the admin, or of arrivals.
In `Dashboard`, every `fetch` settles, and the interval fires every 10 s while
connected; nothing is asked of the user, who may connect and disconnect for ever.
`Converges` is therefore about behaviours in which the connection stays.  In
`ProxiesPage` it is the same with a connection that is up.  In `RelayDiagram`
effects run and a visible page gets its frames; nothing is asked of the operator.
In `Lifecycle` only `main` is fair, and with it the timer of the shutdown's
context: a handler may hang for good, `Run` may never come to listen.

## Findings

1. `relay_stale`: mode and filters are read in two steps.  A message can be
   answered 403 although the policy admitted it at every instant.  The other
   direction is safe: `OnlyAdmittedIsSent` is checked and proved.
2. `relay_downstream`: rewrite rules with field `downstream` are documented,
   stored, logged, and have no effect.
3. `proxy_mapped`: `ResolveProxy` errors mean a direct connection.  In the run, a
   proxy is deleted by the CLI between the two queries while another route
   covers the host; a busy database has the same effect.

Observations without a run of their own:

* `proxy.url` makes a default client out of a proxy (`forwarder.go:134-155`);
  `docs/general.md:196-198` says "There is no default proxy".
* Foreign keys are declared and never switched on (`db.go:197`): a route may name
  a proxy that was deleted, or none yet.
* A signal that comes before `Run` has set `httpServ` makes `Shutdown` panic on
  nil (`server.go:158`); the process ends, which is all `SignalEnds` asks, but
  not gracefully.  While `main` unwinds, `Run` may still begin to listen
  (the exception in `StoreOutlivesHandlers`).  A second signal during the
  shutdown is ignored.
* The diagram matches the patterns of the routes against the authority of
  `downstream_url`, port included (`RelayDiagram.svelte:44`), the server against
  `Hostname()` (`forwarder.go:335`).  For `https://other:8443` - the port this
  program listens on - a route for `other` proxies the mail and is drawn direct; a
  route for `other:8443` is drawn through the proxy and never used.  The two agree
  only for a URL without port, user and brackets (`WiresTellRouting`).
* `DeleteProxy` drops the error of the statement that deletes the routes
  (`db.go:516`): a deletion may answer 200 and leave them, although its comment
  and the page's question say that they go along.  No other proxy inherits them
  (`RouteKeepsItsProxy`).
* `http.Client` follows redirects (`forwarder.go:345-354`): a 301 or 302 turns the
  POST into a GET without the message, whose 200 counts as a delivery.
* With a downstream that hangs, the answer is written after the write deadline: the
  handler ends, its counters and routes say what was relayed, and the upstream
  hears nothing and sends the message again (`Relay`'s late answers, `PassDeadline`
  in `Lifecycle`).
* Answers to overlapping loads of the dashboard may overtake each other: an older
  one puts back, for up to 10 s, what an edit or a deletion took off.
* A hidden tab gets no frames and goes on spawning a bubble every interval, which
  all travel at once when it is shown again.  A bubble whose proxy is switched off
  between two frames may be last seen at the proxy.
* The dashboard connects at the first character of a token that is typed
  (`+layout.svelte:57`).  Two clicks on + Add add a proxy twice, and the form is
  cleared although the call failed.
* The diagram sends every bubble over the proxy, also to destinations whose wire
  does not go there, and describes the first active proxy only.  A pattern with a
  bracket or a brace is no regular expression, and the exception ends the effect;
  one with `+`, or with `%` or `_`, means something else to the server.
* The store reads fields no admin resource answers (`config.incoming_mode`,
  messages), and the navigation has links to pages that do not exist.

## Proofs

All constants are arbitrary, under the assumptions named in the modules (messages,
rows and tables have their types; bounds are naturals, of tries and starts and
frames at least 1; `None`, `Direct` and `Configured` are no proxies; `None` and
`Error` differ and are no modes).  `FiniteAssumption` says that requests, peers and
hosts are finitely many, without which a sum over the table `routes` or over all
requests means nothing: a host is a text of bounded length, and the number of
requests is arbitrary, while an invariant that fails does so after finitely many.
Only `RelayBooksProofs` uses it.  `TextAssumption` says that the parts of a URL and the
label of a nameless destination are texts, that patterns are texts over `PatternChar`, and that ids of proxies are not 0
(SQLite counts from 1), which the diagram needs, as it takes a missing id for no
proxy.  It leaves out the patterns that the two sides understand differently, and
there are such patterns: without it `MatchersAgree` is false.

`RelayProofs`:

* `TypeCorrect`.  `TypeOK` is not inductive: that a post is well formed needs to
  know that a handler awaiting one has it in `cur` and that it was sent, that
  its result is there while it is recorded, and that an envelope being handled
  has recipients.  `TypeInv` adds this as `Shape`.
* `AdmissionCorrect`.  A handler decides on a mode read earlier than the
  filters.  `AdmissionInv` says, for each place a handler may stand at, what the
  history already knows; above all that a handler past the decision was
  admitted, which follows because either read alone, when it lets a message
  pass, is evidence that the policy admitted it at that instant.
* `CopyCorrect`.  `CopyInv` ties each handler to the posts of its request: which
  groups have not been touched, that the current one is not acknowledged, and
  that a group is left for good once acknowledged.

`RelayAnswerProofs`:

* `AnswerCorrect` and `NobodyForgotten`.  An answer is given long after the posts
  it speaks of, so `AnswerInv` follows them: while `Forward` runs, the groups of
  the message are exactly those in `todo`, in `cur` and in `results` (`Covered`);
  of the current one the earlier tries were sent (`Current`); a result is ok
  exactly when a post of its group is acknowledged, and a failed one was sent
  every way there is (`Known`); and the code that was chosen says so
  (`Complete`, `Answered`).  That everybody is delivered to then follows from
  `groupByDomain` putting every recipient in a group.

* `ServiceCorrect`.  Each action of `Relay` is mapped to a step of `RelayService` or
  to none.  Sending is the delicate one: a post is a new copy only if its group
  was not acknowledged any way, which `FreshInv` adds to `CopyInv`; two posts of a
  group and a way are one copy, and a post like an earlier one is no step.

`RelayBooksProofs`:

* `RoutesCorrect`, `OvercountCorrect` and `BooksCorrect`.  What a counter should
  hold is a list read off the handlers: the requests taken, the rejected ones,
  the good results recorded so far, and so on (`Taken`, `Rejected`, `Relays`,
  ...).  A group is counted in two steps, in memory and in the database, so there
  are two lists of it, up to `tallied` and up to `begun`.  `LedgerSteps` shows
  that every step adds one element to one list and bumps its counter, or does
  neither, or is a crash; `BooksInv` follows by counting.  A statement that fails
  leaves its counter behind, so that with faults the totals are bounds only.
  `TallyInv` says where a handler stands in its results and that no group has two
  of them: so distinct results counted for a route have distinct acknowledged
  posts (`RouteAcked`).
* Sums over functions are folds, defined by recursion over a set.  `SumOfCounts`
  turns such a sum into the size of a set of pairs, by `FiniteSetInduction`, which
  comes of the subsets of a finite set being well ordered by inclusion
  (`FS_StrictSubsetOrderingWellFounded`) and speaks of a set of sets where the
  library's induction theorems take an operator.

`ProxyProofs`, from one invariant `Inv`:

* `RouteCorrect`.  Ids never exceed the largest one ever given and are unique
  (`Keys`), and a route meant for a proxy has an id that was given
  (`MeantWasGiven`), so that a new proxy cannot inherit a route.
* `ChosenCorrect`.  While a sender holds the read lock, the row its route refers
  to is enabled if it is there (`PickedIsEnabled`): the server cannot write, and
  the CLI can only delete it.

`LifecycleProofs`, from `Inv` (`TypeOK`, `Stages`, `Answers`, `Order`):

* `StoreCorrect`.  `Stages` says which handlers there may be for each place `main`
  stands at; the store is closed by `Return` only, and `ShutdownReturns` needs
  `Drained`.
* `CopiesCorrect`.  `Answers` ties what is heard of a try to what its handler did,
  and `Order` says that a try follows only tries that were neither good nor
  pending; so a relayed one before it was lost.  What a try heard when its process
  ended says how the process ended (`Hears`), and a `main` that ends with success
  has let every handler answer first: it cuts no try off.

`DashboardProofs`, from `Inv` (`GoodServer`, `GoodStore`, `GoodCounts`, `GoodTasks`):

* `NothingInvented` and `EditShown`.  `Good` says what a function under way
  carries: a mode answered is one the server had, while one that is asked for
  need not be, and the user's own edit is in the table before that is loaded.

`ProxiesPageProofs`, from `Good` (`GoodTables`, `GoodPage`, `GoodCounts`):

* `ClicksCorrect`.  The id of a proxy is its serial number, as neither is ever
  given twice, and whatever the page, a request or a route holds of a proxy has
  an id with that serial number or one of nobody, at most the largest given.
* `DeletedForGood`.  A row enters the table with the next serial number only.
* `DeletionCorrect`.  `Deletions` says of a `deleteProxy` under way that the routes
  it took along, which are those the server did delete, are in no table served
  after it, since the id of a route is given once (`RouteIds`), and that it loads
  the routes last.

`RelayDiagramProofs`, from `Inv` (`TypeOK`, and bubbles are records):

* `MatchersAgree`.  `PatternAppend` and `LikeAppend` compute the two translations
  character by character, so every character of a pattern has its place in the
  regular expression (`PatternPlaces`) and in the `LIKE` (`LikePlaces`).  Each
  matcher is a set of places from where the end is reached, one that a step of it
  leaves alone (`RegStates`, `LikeStates`; there is one by `MonotoneFixpoint`, the
  theorem of Knaster and Tarski).  At the place of a character both sets take the
  same step (`AtCharacter`), so they agree from the end of pattern and text
  backwards.  The inductions are over sets of numbers (`NumberInduction`).
* `WiresCorrect`, from `DrawnInv`: an open page shows the drawing of its props or a
  redraw is due, since the effect depends on all that `render` reads.  That
  drawing agrees with the server by `MatchersAgree`, when the label is the host name
  and no more.

`TypeCorrect` in each of them is the type invariant.

Model-checked only, beyond the prover: `EveryHandlerEnds`, `SignalEnds`,
`Converges`, `ConnectEnds`, `PageConverges` and `BubblesEnd`, which are liveness.
Every other property of a passing run is a theorem.

## Plan

1. `RelayMode`: the two-word string `cfg.RelayMode` written by the admin handler
   while relay handlers read it.
2. `Patterns`: `matchPattern` over short texts against a reference definition, and
   `LIKE` as `ResolveProxy` uses it, with the texts `RelayDiagram` leaves out.

Not modelled, and not planned: loading and validation of the configuration, the
logger, the build of the dashboard, TLS, the JSON envelope and the token check of
the admin API, the read-only resources, and of the dashboard the toasts, the
theme, what it remembers in the browser, and layout and zoom of the diagram.
