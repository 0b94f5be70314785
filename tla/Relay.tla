-------------------------------- MODULE Relay --------------------------------
(***************************************************************************)
(* The relay itself: internal/server (handleReceive, matchesFilter,        *)
(* applyRewrites), internal/forwarder (Forward, post), the statements they *)
(* run on internal/db, and the admin handlers that change what they read.  *)
(*                                                                         *)
(* Every HTTP request is handled by a goroutine of its own, so one request *)
(* is a process with a program counter.  A step ends where the code        *)
(* touches something another goroutine can see: an atomic counter, the     *)
(* unsynchronised cfg.RelayMode, one database statement or transaction     *)
(* (serialised by the RWMutex of db.DB), or the network.                   *)
(***************************************************************************)
EXTENDS Envelope, FiniteSets, Functions

CONSTANTS Request,      \* the inbound HTTP requests
          Message,      \* what a request may carry
          Peer,         \* hosts requests come from (remoteHost of RemoteAddr)
          ConfigMode,   \* relay_mode of config.yml, the mode after a start
          AdminModes,   \* modes POST /admin/config may set
          FilterRows,   \* rows /admin/filters may write
          RuleRows,     \* rows /admin/rewrites may write
          InitFilters, InitRules,   \* the two tables at the start
          MaxRows,      \* bound on the rows of a table
          Faults,       \* TRUE: a database call may fail (SQLITE_BUSY, I/O)
          MaxCrashes    \* bound on the number of crashes

Modes  == {"all", "selected"}
Bodies == {"ok", "empty", "large", "unreadable"}

ASSUME RelayAssumption ==
  /\ Message \subseteq [post: BOOLEAN, from: Address, to: Seq(Address),
                        body: Bodies, peer: Peer]
  /\ ConfigMode \in Modes
  /\ AdminModes \subseteq Modes
  /\ FilterRows \subseteq RelayFilter
  /\ RuleRows \subseteq RewriteRule
  /\ InitFilters \in Seq(RelayFilter)
  /\ InitRules \in Seq(RewriteRule)
  /\ MaxRows \in Nat
  /\ Faults \in BOOLEAN
  /\ MaxCrashes \in Nat

\* What is summed and counted over: any finite number of requests, and hosts,
\* which are texts of bounded length (addresses and headers are).
ASSUME FiniteAssumption ==
  IsFiniteSet(Request) /\ IsFiniteSet(Peer) /\ IsFiniteSet(Host)

VARIABLES
  mode,       \* cfg.RelayMode, in memory
  filters,    \* table relay_filters in id order
  rules,      \* table rewrite_rules in id order
  totalRelayed, totalRejected, totalErrors,  \* the single row of table stats
  routes,     \* table routes: count per from_server, to_server
  received, forwarded, errors,  \* the atomic counters of Server
  pc,         \* where each handler stands; it ends "done", its answer on the
              \* wire, "late", its answer dropped, or "lost" with the process
  msg,        \* the message of each request, once it arrived
  env,        \* the handler's mailFrom and mailTo
  rest,       \* rewrite rules the handler has listed and not applied yet
  todo,       \* domain groups Forward has not started
  cur,        \* the post in progress
  results,    \* what Forward returns: one result per group, in order
  tallied,    \* how many results handleReceive has recorded
  code,       \* the HTTP status chosen for the response
  sent,       \* posts handed to the network
  accepted,   \* posts a downstream has taken responsibility for
  acked,      \* posts answered with 200 in time
  crashes,    \* crashes so far
  admitted,   \* requests the relay policy admitted, and
  denied      \* requests it denied, at some instant since their handler
              \* started and before it decided (history)

mem      == <<received, forwarded, errors>>
config   == <<filters, rules, mode>>
stats    == <<totalRelayed, totalRejected, totalErrors>>
database == <<stats, routes>>
network  == <<sent, accepted, acked>>
locals   == <<msg, env, rest, todo, cur, results, tallied, code>>
history  == <<admitted, denied>>
vars     == <<config, database, mem, pc, locals, network, crashes, history>>

Post == [req: Request, dom: Host, try: {"https", "http", "downstream"},
         rcpts: SUBSET Nat]

Result == [dom: Host, ok: BOOLEAN]

NoMessage  == [post |-> FALSE, from |-> <<>>, to |-> <<>>, body |-> "empty",
               peer |-> <<>>]
NoEnvelope == [from |-> <<>>, to |-> <<>>]
NoPost     == [req |-> <<>>]

\* Handlers that have not decided yet whether the policy admits the message.
Undecided == {"start", "policy", "filter"}

\* Handlers that are running.
Running == Undecided \cup
           {"deny", "fail", "rules", "rewrite", "choose", "await", "tally",
            "relayed", "failed", "reply"}

\* The policy as it is documented: mode "all", or an enabled filter matches.
Policy(m, md, fs) ==
  md = "all" \/ \E f \in Range(fs) : f.enabled /\ FilterAccepts(f, m.from, m.to)

\* What the history variables record when the policy becomes (md, fs).
Judge(md, fs) ==
  LET open == {r \in Request : pc[r] \in Undecided}
  IN  /\ admitted' = admitted \cup {r \in open : Policy(msg[r], md, fs)}
      /\ denied' = denied \cup {r \in open : ~Policy(msg[r], md, fs)}

-----------------------------------------------------------------------------
(* handleReceive up to the decision                                        *)

Init ==
  /\ mode = ConfigMode
  /\ filters = InitFilters
  /\ rules = InitRules
  /\ totalRelayed = 0 /\ totalRejected = 0 /\ totalErrors = 0
  /\ routes = [p \in Peer \X Host |-> 0]
  /\ received = 0 /\ forwarded = 0 /\ errors = 0
  /\ pc = [r \in Request |-> "idle"]
  /\ msg = [r \in Request |-> NoMessage]
  /\ env = [r \in Request |-> NoEnvelope]
  /\ rest = [r \in Request |-> <<>>]
  /\ todo = [r \in Request |-> {}]
  /\ cur = [r \in Request |-> NoPost]
  /\ results = [r \in Request |-> <<>>]
  /\ tallied = [r \in Request |-> 0]
  /\ code = [r \in Request |-> 0]
  /\ sent = {} /\ accepted = {} /\ acked = {}
  /\ crashes = 0
  /\ admitted = {} /\ denied = {}

\* net/http starts the handler in a goroutine of its own; received is bumped.
Arrive(r) ==
  /\ pc[r] = "idle"
  /\ \E m \in Message :
       /\ msg' = [msg EXCEPT ![r] = m]
       /\ env' = [env EXCEPT ![r] = [from |-> m.from, to |-> m.to]]
       /\ IF Policy(m, mode, filters)
          THEN admitted' = admitted \cup {r} /\ UNCHANGED denied
          ELSE denied' = denied \cup {r} /\ UNCHANGED admitted
  /\ pc' = [pc EXCEPT ![r] = "start"]
  /\ received' = received + 1
  /\ UNCHANGED <<config, database, forwarded, errors, rest, todo, cur, results,
                 tallied, code, network, crashes>>

\* Slip: a wrong method is recorded as a rejection.
VerdictRejectsMethod(m) ==
  IF ~m.post                       THEN [code |-> 405, next |-> "deny"]
  ELSE IF m.to = <<>>              THEN [code |-> 400, next |-> "deny"]
  ELSE IF m.body # "ok"            THEN [code |-> 413, next |-> "deny"]
                                   ELSE [code |-> 0, next |-> "policy"]

\* The envelope checks, in the order of the code: what the client is told, and
\* whether total_rejected is bumped ("deny") or not ("fail").  0: acceptable.
Verdict(m) ==
  IF ~m.post                       THEN [code |-> 405, next |-> "fail"]
  ELSE IF m.to = <<>>              THEN [code |-> 400, next |-> "deny"]
  ELSE IF m.body = "unreadable"    THEN [code |-> 500, next |-> "fail"]
  ELSE IF m.body = "large"         THEN [code |-> 413, next |-> "deny"]
  ELSE IF m.body = "empty"         THEN [code |-> 400, next |-> "deny"]
                                   ELSE [code |-> 0, next |-> "policy"]

Check(r) ==
  /\ pc[r] = "start"
  /\ pc' = [pc EXCEPT ![r] = Verdict(msg[r]).next]
  /\ code' = [code EXCEPT ![r] = Verdict(msg[r]).code]
  /\ UNCHANGED <<config, database, mem, msg, env, rest, todo, cur, results,
                 tallied, network, crashes, history>>

\* Slip: the mode of the config file, not the one the admin set last.
ReadModeOfConfig(r) ==
  /\ pc[r] = "policy"
  /\ pc' = [pc EXCEPT ![r] = IF ConfigMode = "selected" THEN "filter" ELSE "rules"]
  /\ UNCHANGED <<config, database, mem, locals, network, crashes, history>>

\* The left operand of the && reads cfg.RelayMode ...
ReadMode(r) ==
  /\ pc[r] = "policy"
  /\ pc' = [pc EXCEPT ![r] = IF mode = "selected" THEN "filter" ELSE "rules"]
  /\ UNCHANGED <<config, database, mem, locals, network, crashes, history>>

\* ... and the right operand lists the filters later, in its own query; a
\* query that fails counts as "no filter matches".
ListFilters(r) ==
  /\ pc[r] = "filter"
  /\ \/ /\ MatchesFilter(filters, env[r].from, env[r].to)
        /\ pc' = [pc EXCEPT ![r] = "rules"]
        /\ UNCHANGED code
     \/ /\ Faults \/ ~MatchesFilter(filters, env[r].from, env[r].to)
        /\ pc' = [pc EXCEPT ![r] = "deny"]
        /\ code' = [code EXCEPT ![r] = 403]
  /\ UNCHANGED <<config, database, mem, msg, env, rest, todo, cur, results,
                 tallied, network, crashes, history>>

\* RecordRejected, its error ignored.
RecordRejected(r) ==
  /\ pc[r] = "deny"
  /\ \/ totalRejected' = totalRejected + 1
     \/ Faults /\ UNCHANGED totalRejected
  /\ pc' = [pc EXCEPT ![r] = "fail"]
  /\ UNCHANGED <<config, totalRelayed, totalErrors, routes, mem, locals, network, crashes, history>>

\* s.errors.Add(1) and the early return.
CountRefusal(r) ==
  /\ pc[r] = "fail"
  /\ errors' = errors + 1
  /\ pc' = [pc EXCEPT ![r] = "reply"]
  /\ UNCHANGED <<config, database, received, forwarded, locals, network,
                 crashes, history>>

-----------------------------------------------------------------------------
(* applyRewrites and Forward                                               *)

\* ListRewriteRules; a query that fails leaves the envelope as it is.
LoadRules(r) ==
  /\ pc[r] = "rules"
  /\ \/ rest' = [rest EXCEPT ![r] = rules]
     \/ Faults /\ UNCHANGED rest
  /\ pc' = [pc EXCEPT ![r] = "rewrite"]
  /\ UNCHANGED <<config, database, mem, msg, env, todo, cur, results, tallied,
                 code, network, crashes, history>>

\* One turn of the loop over the listed rules: each rule sees what the rules
\* before it left.
ApplyRule(r) ==
  /\ pc[r] = "rewrite" /\ rest[r] # <<>>
  /\ env' = [env EXCEPT ![r] = Rewrite(env[r], Head(rest[r]))]
  /\ rest' = [rest EXCEPT ![r] = Tail(rest[r])]
  /\ UNCHANGED <<config, database, mem, pc, msg, todo, cur, results, tallied,
                 code, network, crashes, history>>

\* Slip: the groups are made of the envelope as it was received.
StartForwardUnrewritten(r) ==
  /\ pc[r] = "rewrite" /\ rest[r] = <<>>
  /\ todo' = [todo EXCEPT ![r] = Groups(msg[r])]
  /\ pc' = [pc EXCEPT ![r] = "choose"]
  /\ UNCHANGED <<config, database, mem, msg, env, rest, cur, results, tallied,
                 code, network, crashes, history>>

\* Forward groups the recipients of the rewritten envelope.
StartForward(r) ==
  /\ pc[r] = "rewrite" /\ rest[r] = <<>>
  /\ todo' = [todo EXCEPT ![r] = Groups(env[r])]
  /\ pc' = [pc EXCEPT ![r] = "choose"]
  /\ UNCHANGED <<config, database, mem, msg, env, rest, cur, results, tallied,
                 code, network, crashes, history>>

PostOf(r, d, try) == [req |-> r, dom |-> d, try |-> try,
                      rcpts |-> Members(env[r], d)]

\* The same post over another scheme.
Over(p, try) == [req |-> p.req, dom |-> p.dom, try |-> try, rcpts |-> p.rcpts]

\* "for domain, rcpts := range groups" takes the groups in any order; the
\* first attempt goes out.
SendFirst(r) ==
  /\ pc[r] = "choose"
  /\ \E d \in todo[r] :
       /\ todo' = [todo EXCEPT ![r] = @ \ {d}]
       /\ cur' = [cur EXCEPT ![r] = PostOf(r, d, FirstTry)]
       /\ sent' = sent \cup {PostOf(r, d, FirstTry)}
  /\ pc' = [pc EXCEPT ![r] = "await"]
  /\ UNCHANGED <<config, database, mem, msg, env, rest, results, tallied, code,
                 accepted, acked, crashes, history>>

Return(r, isOk) ==
  /\ results' = [results EXCEPT ![r] = Append(@, [dom |-> cur[r].dom, ok |-> isOk])]
  /\ cur' = [cur EXCEPT ![r] = NoPost]
  /\ pc' = [pc EXCEPT ![r] = "choose"]

\* Slip: every response counts as success, whatever its status.
PostSucceedsAnyStatus(r) ==
  /\ pc[r] = "await"
  /\ acked' = acked \cup {cur[r]}
  /\ Return(r, TRUE)
  /\ UNCHANGED <<config, database, mem, msg, env, rest, todo, tallied, code,
                 sent, accepted, crashes, history>>

\* Slip: a shadowed err, so that HTTP is tried after HTTPS succeeded as well.
PostSucceedsThenRetries(r) ==
  /\ pc[r] = "await"
  /\ cur[r] \in accepted
  /\ acked' = acked \cup {cur[r]}
  /\ sent' = sent \cup {Over(cur[r], "http")}
  /\ Return(r, TRUE)
  /\ UNCHANGED <<config, database, mem, msg, env, rest, todo, tallied, code,
                 accepted, crashes, history>>

\* post returns nil: the downstream answered 200 before the client timeout.  One
\* that redirects, which http.Client follows with a GET, is left out.
PostSucceeds(r) ==
  /\ pc[r] = "await"
  /\ cur[r] \in accepted
  /\ acked' = acked \cup {cur[r]}
  /\ Return(r, TRUE)
  /\ UNCHANGED <<config, database, mem, msg, env, rest, todo, tallied, code,
                 sent, accepted, crashes, history>>

\* Slip: no client timeout, only a downstream that has answered ends a post.
PostFailsOnAnswer(r) ==
  /\ pc[r] = "await" /\ cur[r] \in accepted
  /\ Return(r, FALSE)
  /\ UNCHANGED <<config, database, mem, msg, env, rest, todo, tallied, code,
                 network, crashes, history>>

\* post returns an error: connection refused, timeout, or any other status.
\* Whether the downstream has the message, or still gets it, is not known.
\* After HTTPS the same group is tried over HTTP, at once.
PostFails(r) ==
  /\ pc[r] = "await"
  /\ \/ /\ cur[r].try = "https"
        /\ cur' = [cur EXCEPT ![r] = Over(@, "http")]
        /\ sent' = sent \cup {Over(cur[r], "http")}
        /\ UNCHANGED <<pc, results>>
     \/ /\ cur[r].try # "https"
        /\ Return(r, FALSE)
        /\ UNCHANGED sent
  /\ UNCHANGED <<config, database, mem, msg, env, rest, todo, tallied, code,
                 accepted, acked, crashes, history>>

\* range groups is exhausted: Forward returns.
EndForward(r) ==
  /\ pc[r] = "choose" /\ todo[r] = {}
  /\ pc' = [pc EXCEPT ![r] = "tally"]
  /\ UNCHANGED <<config, database, mem, locals, network, crashes, history>>

\* A downstream accepts a post for delivery: before it answers, or long after
\* the relay gave up on it.
Accept(p) ==
  /\ p \in sent \ accepted
  /\ accepted' = accepted \cup {p}
  /\ UNCHANGED <<config, database, mem, pc, locals, sent, acked, crashes, history>>

-----------------------------------------------------------------------------
(* handleReceive: the loop over the results, and the response              *)

NextResult(r) == results[r][tallied[r] + 1]

\* A failed group: RecordError (its own error ignored), then errors.Add ...
RecordError(r) ==
  /\ pc[r] = "tally" /\ tallied[r] < Len(results[r]) /\ ~NextResult(r).ok
  /\ \/ totalErrors' = totalErrors + 1
     \/ Faults /\ UNCHANGED totalErrors
  /\ pc' = [pc EXCEPT ![r] = "failed"]
  /\ UNCHANGED <<config, totalRelayed, totalRejected, routes, mem, locals, network, crashes, history>>

CountError(r) ==
  /\ pc[r] = "failed"
  /\ errors' = errors + 1
  /\ tallied' = [tallied EXCEPT ![r] = @ + 1]
  /\ pc' = [pc EXCEPT ![r] = "tally"]
  /\ UNCHANGED <<config, database, received, forwarded, msg, env, rest, todo,
                 cur, results, code, network, crashes, history>>

\* Slip: the branch on res.Err is gone, every group may count as forwarded.
CountForwardedAlways(r) ==
  /\ pc[r] = "tally" /\ tallied[r] < Len(results[r])
  /\ forwarded' = forwarded + 1
  /\ pc' = [pc EXCEPT ![r] = "relayed"]
  /\ UNCHANGED <<config, database, received, errors, locals, network, crashes,
                 history>>

\* ... a delivered group: forwarded.Add, then RecordRelay.
CountForwarded(r) ==
  /\ pc[r] = "tally" /\ tallied[r] < Len(results[r]) /\ NextResult(r).ok
  /\ forwarded' = forwarded + 1
  /\ pc' = [pc EXCEPT ![r] = "relayed"]
  /\ UNCHANGED <<config, database, received, errors, locals, network, crashes,
                 history>>

\* Slip: two statements without a transaction, the second of which may fail.
RelayTxTorn(route) ==
  /\ routes' = [routes EXCEPT ![route] = @ + 1]
  /\ \/ totalRelayed' = totalRelayed + 1
     \/ Faults /\ UNCHANGED totalRelayed
  /\ UNCHANGED <<totalRejected, totalErrors>>

\* RecordRelay: the upsert of the route and the update of the totals, in one
\* transaction; when either statement or the commit fails, neither happened.
RelayTx(route) ==
  /\ routes' = [routes EXCEPT ![route] = @ + 1]
  /\ totalRelayed' = totalRelayed + 1
  /\ UNCHANGED <<totalRejected, totalErrors>>

RecordRelay(r) ==
  /\ pc[r] = "relayed"
  /\ \/ RelayTx(<<msg[r].peer, NextResult(r).dom>>)
     \/ Faults /\ UNCHANGED database
  /\ tallied' = [tallied EXCEPT ![r] = @ + 1]
  /\ pc' = [pc EXCEPT ![r] = "tally"]
  /\ UNCHANGED <<config, mem, msg, env, rest, todo, cur, results, code, network,
                 crashes, history>>

\* Slip: one failed group fails the whole request.
FinalCodeAnyError(res) == IF \E i \in DOMAIN res : ~res[i].ok THEN 502 ELSE 200

\* Slip: the results are not looked at.
FinalCodeAlwaysOK(res) == 200

\* hasError && !hasSuccess
FinalCode(res) == IF /\ \E i \in DOMAIN res : ~res[i].ok
                     /\ ~\E i \in DOMAIN res : res[i].ok
                  THEN 502 ELSE 200

ChooseStatus(r) ==
  /\ pc[r] = "tally" /\ tallied[r] = Len(results[r])
  /\ code' = [code EXCEPT ![r] = FinalCode(results[r])]
  /\ pc' = [pc EXCEPT ![r] = "reply"]
  /\ UNCHANGED <<config, database, mem, msg, env, rest, todo, cur, results,
                 tallied, network, crashes, history>>

\* The handler returns and net/http flushes the response, which the upstream
\* gets unless WriteTimeout has passed: 30 s, while a single group may take two
\* client timeouts of 30 s.  Neither the handler nor the books know.
Reply(r) ==
  /\ pc[r] = "reply"
  /\ \E end \in {"done", "late"} : pc' = [pc EXCEPT ![r] = end]
  /\ UNCHANGED <<config, database, mem, locals, network, crashes, history>>

-----------------------------------------------------------------------------
(* The admin API                                                           *)

SetMode(m) ==
  /\ mode' = m
  /\ Judge(m, filters)
  /\ UNCHANGED <<filters, rules, database, mem, pc, locals, network, crashes>>

WriteFilters(fs) ==
  /\ filters' = fs
  /\ Judge(mode, fs)
  /\ UNCHANGED <<rules, mode, database, mem, pc, locals, network, crashes>>

Without(table, i) == SubSeq(table, 1, i - 1) \o SubSeq(table, i + 1, Len(table))

AddRelayFilter(row) == Len(filters) < MaxRows /\ WriteFilters(Append(filters, row))
UpdateRelayFilter(i, row) == WriteFilters([filters EXCEPT ![i] = row])
DeleteRelayFilter(i) == WriteFilters(Without(filters, i))

WriteRules(rs) ==
  /\ rules' = rs
  /\ UNCHANGED <<filters, mode, database, mem, pc, locals, network, crashes, history>>

AddRewriteRule(row) == Len(rules) < MaxRows /\ WriteRules(Append(rules, row))
UpdateRewriteRule(i, row) == WriteRules([rules EXCEPT ![i] = row])
DeleteRewriteRule(i) == WriteRules(Without(rules, i))

-----------------------------------------------------------------------------
(* A crash: the handlers and everything in memory are gone; the database,  *)
(* and what is on its way downstream, are not.  main starts over with the  *)
(* relay mode of the config file, whatever the admin had set.              *)

CrashRestart ==
  /\ crashes < MaxCrashes
  /\ crashes' = crashes + 1
  /\ received' = 0 /\ forwarded' = 0 /\ errors' = 0
  /\ mode' = ConfigMode
  /\ pc' = [r \in Request |-> IF pc[r] \in Running THEN "lost" ELSE pc[r]]
  /\ UNCHANGED <<filters, rules, database, locals, network, history>>

-----------------------------------------------------------------------------

Handle(r) ==
  \/ Check(r) \/ ReadMode(r) \/ ListFilters(r) \/ RecordRejected(r)
  \/ CountRefusal(r) \/ LoadRules(r) \/ ApplyRule(r) \/ StartForward(r)
  \/ SendFirst(r) \/ PostSucceeds(r) \/ PostFails(r) \/ EndForward(r)
  \/ RecordError(r) \/ CountError(r) \/ CountForwarded(r) \/ RecordRelay(r)
  \/ ChooseStatus(r) \/ Reply(r)

\* An instance without rows to write leaves that table alone.
Admin ==
  \/ \E m \in AdminModes : SetMode(m)
  \/ \E row \in FilterRows : AddRelayFilter(row)
  \/ \E i \in DOMAIN filters, row \in FilterRows : UpdateRelayFilter(i, row)
  \/ \E i \in DOMAIN filters : FilterRows # {} /\ DeleteRelayFilter(i)
  \/ \E row \in RuleRows : AddRewriteRule(row)
  \/ \E i \in DOMAIN rules, row \in RuleRows : UpdateRewriteRule(i, row)
  \/ \E i \in DOMAIN rules : RuleRows # {} /\ DeleteRewriteRule(i)

Next ==
  \/ \E r \in Request : Arrive(r)
  \/ \E r \in Request : Handle(r)
  \/ \E p \in sent : Accept(p)
  \/ Admin
  \/ CrashRestart

Spec == Init /\ [][Next]_vars

\* The Go scheduler runs every runnable goroutine, the http.Client timeout
\* ends every post, and the database calls return: each handler goes on.
Fairness == \A r \in Request : WF_vars(Handle(r))

FairSpec == Spec /\ Fairness

-----------------------------------------------------------------------------
(* Properties                                                              *)

Envelopes == [from: Address, to: Seq(Address)]

\* Every variable has its type.
TypeOK ==
  /\ mode \in Modes
  /\ filters \in Seq(RelayFilter)
  /\ rules \in Seq(RewriteRule)
  /\ totalRelayed \in Nat /\ totalRejected \in Nat /\ totalErrors \in Nat
  /\ routes \in [Peer \X Host -> Nat]
  /\ received \in Nat /\ forwarded \in Nat /\ errors \in Nat
  /\ pc \in [Request -> Running \cup {"idle", "done", "late", "lost"}]
  /\ msg \in [Request -> Message \cup {NoMessage}]
  /\ env \in [Request -> Envelopes \cup {NoEnvelope}]
  /\ rest \in [Request -> Seq(RewriteRule)]
  /\ todo \in [Request -> SUBSET Host]
  /\ cur \in [Request -> Post \cup {NoPost}]
  /\ results \in [Request -> Seq(Result)]
  /\ tallied \in [Request -> Nat]
  /\ code \in [Request -> Nat]
  /\ sent \subseteq Post /\ accepted \subseteq sent /\ acked \subseteq accepted
  /\ crashes \in Nat
  /\ admitted \subseteq Request /\ denied \subseteq Request

\* Nothing leaves the relay for a request the policy never admitted: although
\* the mode and the filters are read in two steps, and the admin may change
\* either in between, a post is sent only for a message that was admitted at
\* some instant while its handler ran.
OnlyAdmittedIsSent == \A p \in sent : p.req \in admitted

\* The relay sends a group over HTTP only after its HTTPS attempt returned an
\* error, never for a group that was acknowledged: a second copy of a message
\* is always one the first of which the downstream did not answer with 200.
SecondCopyOnlyUnacked ==
  \A p \in sent : p.try = "http" =>
     \E q \in sent \ acked : q = Over(p, "https")

\* The answer, whether it arrives or comes too late, is true of the network: 200
\* means that some downstream acknowledged its part, 502 that every group was
\* tried to the end and none acknowledged, and any refusal that nothing was ever
\* sent.
AnswerIsTruthful ==
  \A r \in Request : pc[r] \in {"done", "late"} =>
    /\ code[r] = 200 => \E p \in acked : p.req = r
    /\ code[r] = 502 =>
         /\ \A p \in acked : p.req # r
         /\ \A d \in Groups(env[r]), t \in Tries : PostOf(r, d, t) \in sent
    /\ code[r] \notin {200, 502} => \A p \in sent : p.req # r

\* When Forward reports no failed group, every recipient of the rewritten
\* envelope is in a post some downstream accepted, and with dynamic routing
\* that downstream is the one of the recipient's own domain.
AllOkMeansAllDelivered ==
  \A r \in Request :
    /\ pc[r] \in {"tally", "relayed", "failed", "reply", "done", "late"}
    /\ results[r] # <<>>
    /\ \A i \in DOMAIN results[r] : results[r][i].ok
    => \A i \in DOMAIN env[r].to : \E p \in accepted :
          /\ p.req = r /\ i \in p.rcpts
          /\ Static \/ p.dom = RouteDomain(env[r].to[i])

\* RecordRelay is atomic: however handlers, failing statements and crashes
\* interleave, the route counters always add up to total_relayed.
RoutesAddUp == SumFunction(routes) = totalRelayed

Succeeded(r) == {i \in DOMAIN results[r] : results[r][i].ok}
Failed(r)    == DOMAIN results[r] \ Succeeded(r)

\* The statistics never claim more than happened, in any state and across
\* crashes: a route is counted at most once per acknowledged group, an error
\* at most once per group that failed on every attempt.
NeverOvercounted ==
  /\ \A peer \in Peer, d \in Host :
       routes[<<peer, d>>] <=
         Cardinality({p \in acked : p.dom = d /\ msg[p.req].peer = peer})
  /\ totalErrors <= SumFunction([r \in Request |-> Cardinality(Failed(r))])

\* Without crashes and database errors the books balance whenever no handler
\* runs: every request received ended in one of the ways that are counted, and
\* the counters of Server agree with the totals of the database.
BooksBalance ==
  (~Faults /\ crashes = 0 /\ \A r \in Request : pc[r] \in {"idle", "done", "late"}) =>
    LET Ended(codes) ==
          Cardinality({r \in Request : pc[r] \in {"done", "late"} /\ code[r] \in codes})
    IN  /\ received = Ended({200, 502, 400, 403, 405, 413, 500})
        /\ forwarded = totalRelayed
        /\ totalRelayed = SumFunction([r \in Request |-> Cardinality(Succeeded(r))])
        /\ totalErrors = SumFunction([r \in Request |-> Cardinality(Failed(r))])
        /\ totalRejected = Ended({400, 403, 413})
        /\ errors = totalErrors + totalRejected + Ended({405, 500})

\* Every handler comes to its end, unless the process dies before: no downstream
\* holds one for good, however it hangs, over both schemes and all groups, nor
\* does a failing statement.  That the upstream gets the answer is not said: it
\* may be late.
EveryHandlerEnds ==
  \A r \in Request : pc[r] \in Running ~> pc[r] \in {"done", "late", "lost"}

\* What the comment on config.RelayMode says ("selected": only relay messages
\* matching relay filter rules): a 403 is given only to a message the policy
\* denied at some instant while its handler ran.
RejectedWasDenied ==
  \A r \in Request : code[r] = 403 => r \in denied

\* What docs/admin_api.md says of rewrite rules (rewrite sender, recipient, or
\* downstream URL before forwarding): nothing is posted to the configured
\* downstream while an enabled rule rewrites that URL.
DownstreamRuleApplies ==
  \A p \in sent : p.try = "downstream" =>
    ~\E i \in DOMAIN rules :
       rules[i].enabled /\ rules[i].field = "downstream" /\
       Matches(rules[i].pattern, DownstreamURL)

-----------------------------------------------------------------------------
(* The relay implements the service of RelayService                        *)

PhaseOf(r) ==
  CASE pc[r] \in {"idle", "lost"} -> pc[r]
    [] pc[r] = "late" -> "lost"
    [] pc[r] = "done" /\ code[r] = 200 -> "ok"
    [] pc[r] = "done" /\ code[r] = 502 -> "failed"
    [] pc[r] = "done" /\ code[r] \notin {200, 502} -> "refused"
    [] pc[r] \in Running /\ (\E p \in sent : p.req = r) -> "sending"
    [] OTHER -> "open"

CopyOf(p) == <<p.req, p.dom, p.try>>

Service == INSTANCE RelayService WITH
  Try <- Tries,
  phase <- [r \in Request |-> PhaseOf(r)],
  copies <- {CopyOf(p) : p \in sent},
  delivered <- {CopyOf(p) : p \in accepted},
  confirmed <- {CopyOf(p) : p \in acked}

\* Whatever the handlers do is a behaviour of the abstract service: refusals
\* precede every copy, answers match confirmations, and crashes and the write
\* deadline only lose answers.
ImplementsService == Service!SSpec
=============================================================================
