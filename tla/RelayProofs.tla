---------------------------- MODULE RelayProofs ----------------------------
(***************************************************************************)
(* Theorems about Relay, for every set of requests, messages, hosts and    *)
(* rows, any number of crashes, and either kind of routing.                *)
(***************************************************************************)
EXTENDS Relay, SequenceTheorems, TLAPS

-----------------------------------------------------------------------------
(* The operators the handlers use                                          *)

\* A rewrite rule turns an envelope into an envelope with as many recipients.
LEMMA RewriteType ==
  ASSUME NEW e \in Envelopes, NEW rule \in RewriteRule
  PROVE  /\ Rewrite(e, rule) \in Envelopes
         /\ Len(Rewrite(e, rule).to) = Len(e.to)
<1>1. /\ e.from \in Address /\ e.to \in Seq(Address)
      /\ rule.replacement \in Address
  BY DEF Envelopes, RewriteRule
<1>2. /\ Len(e.to) \in Nat /\ DOMAIN e.to = 1 .. Len(e.to)
      /\ \A i \in 1 .. Len(e.to) : e.to[i] \in Address
  BY <1>1
<1>3. /\ RewriteTo(e.to, rule) \in Seq(Address)
      /\ Len(RewriteTo(e.to, rule)) = Len(e.to)
  <2> DEFINE n == Len(e.to)
             t(i) == IF Matches(rule.pattern, e.to[i]) THEN rule.replacement
                                                       ELSE e.to[i]
  <2>1. \A i \in 1 .. n : t(i) \in Address
    BY <1>1, <1>2
  <2>2. RewriteTo(e.to, rule) = [i \in 1 .. n |-> t(i)]
    BY <1>2 DEF RewriteTo
  <2>3. [i \in 1 .. n |-> t(i)] \in Seq(Address)
    <3> HIDE DEF t
    <3> QED BY <2>1, <1>2, IsASeq
  <2>4. Len([i \in 1 .. n |-> t(i)]) = n
    <3> HIDE DEF t
    <3> QED BY <2>3, <1>2, LenProperties
  <2> QED BY <2>2, <2>3, <2>4
<1> QED BY <1>1, <1>3 DEF Rewrite, Envelopes

\* The groups of an envelope with recipients are hosts, and their members are
\* positions of the recipients.
LEMMA GroupsType ==
  ASSUME NEW e \in Envelopes, e.to # <<>>
  PROVE  /\ Groups(e) \subseteq Host
         /\ \A d \in Host : Members(e, d) \subseteq Nat
<1>1. /\ e.to \in Seq(Address) /\ Len(e.to) \in Nat \ {0}
      /\ DOMAIN e.to = 1 .. Len(e.to)
      /\ \A i \in 1 .. Len(e.to) : e.to[i] \in Address
  BY EmptySeq, LenProperties, ElementOfSeq DEF Envelopes
<1> QED BY <1>1 DEF Groups, Members, RouteDomain, Address

\* Deleting a row of a table leaves a table.
LEMMA WithoutType ==
  ASSUME NEW S, NEW table \in Seq(S), NEW i \in DOMAIN table
  PROVE  Without(table, i) \in Seq(S)
<1>1. /\ Len(table) \in Nat /\ DOMAIN table = 1 .. Len(table) /\ i \in Nat
      /\ \A j \in 1 .. Len(table) : table[j] \in S
  BY LenProperties, ElementOfSeq
<1>2. SubSeq(table, 1, i - 1) \in Seq(S)
  BY <1>1, SubSeqProperties
<1>3. SubSeq(table, i + 1, Len(table)) \in Seq(S)
  BY <1>1, SubSeqProperties
<1> QED BY <1>2, <1>3, ConcatProperties DEF Without

\* Counting up one entry of a table of counters.
LEMMA BumpType ==
  ASSUME NEW D, NEW f \in [D -> Nat], NEW x \in D
  PROVE  [f EXCEPT ![x] = @ + 1] \in [D -> Nat]
OBVIOUS

-----------------------------------------------------------------------------
(* Types                                                                   *)

\* The steps between the envelope checks and the end of the tally.
Passed == {"policy", "filter", "rules", "rewrite", "choose", "await", "tally",
           "relayed", "failed"}

\* What the local variables of a handler hold at each point of the handler;
\* TypeOK is inductive only together with it.
Shape ==
  \A r \in Request :
    /\ pc[r] # "idle" => msg[r] \in Message /\ env[r] \in Envelopes
    /\ pc[r] \in Undecided => env[r] = [from |-> msg[r].from, to |-> msg[r].to]
    /\ pc[r] \in Passed => env[r].to # <<>>
    /\ pc[r] = "await" => cur[r] \in sent /\ cur[r].req = r
    /\ pc[r] \in {"relayed", "failed"} => tallied[r] < Len(results[r])

TypeInv == TypeOK /\ Shape

\* A freshly started relay has the types and the shape.
LEMMA TypeInit == Init => TypeInv
BY RelayAssumption, EmptySeq DEF Init, TypeInv, TypeOK, Shape, Running, Undecided, Passed

\* The end of a post adds one result.
LEMMA ReturnType ==
  ASSUME results \in [Request -> Seq(Result)], cur \in [Request -> Post \cup {NoPost}],
         NEW r \in Request, NEW ok \in BOOLEAN, cur[r] \in Post, Return(r, ok)
  PROVE  /\ results' \in [Request -> Seq(Result)]
         /\ cur' \in [Request -> Post \cup {NoPost}]
<1>1. [dom |-> cur[r].dom, ok |-> ok] \in Result
  BY DEF Post, Result
<1>2. Append(results[r], [dom |-> cur[r].dom, ok |-> ok]) \in Seq(Result)
  BY <1>1, AppendProperties
<1> QED BY <1>2 DEF Return

\* The admin writes tables of the right type, and nothing but the policy.
LEMMA AdminType ==
  ASSUME mode \in Modes, filters \in Seq(RelayFilter), rules \in Seq(RewriteRule),
         admitted \subseteq Request, denied \subseteq Request, Admin
  PROVE  /\ mode' \in Modes
         /\ filters' \in Seq(RelayFilter)
         /\ rules' \in Seq(RewriteRule)
         /\ admitted' \subseteq Request /\ denied' \subseteq Request
         /\ UNCHANGED <<database, mem, pc, locals, network, crashes>>
<1> USE DEF config, stats, database, mem, locals, network, history
<1>1. ASSUME NEW m \in AdminModes, SetMode(m) PROVE mode' \in Modes
  BY <1>1, RelayAssumption DEF SetMode
<1>2. ASSUME NEW row \in FilterRows, AddRelayFilter(row)
      PROVE  filters' \in Seq(RelayFilter)
  BY <1>2, RelayAssumption, AppendProperties DEF AddRelayFilter, WriteFilters
<1>3. ASSUME NEW i \in DOMAIN filters, NEW row \in FilterRows, UpdateRelayFilter(i, row)
      PROVE  filters' \in Seq(RelayFilter)
  BY <1>3, RelayAssumption, ExceptSeq, LenProperties DEF UpdateRelayFilter, WriteFilters
<1>4. ASSUME NEW i \in DOMAIN filters, DeleteRelayFilter(i)
      PROVE  filters' \in Seq(RelayFilter)
  BY <1>4, WithoutType DEF DeleteRelayFilter, WriteFilters
<1>5. ASSUME NEW row \in RuleRows, AddRewriteRule(row)
      PROVE  rules' \in Seq(RewriteRule)
  BY <1>5, RelayAssumption, AppendProperties DEF AddRewriteRule, WriteRules
<1>6. ASSUME NEW i \in DOMAIN rules, NEW row \in RuleRows, UpdateRewriteRule(i, row)
      PROVE  rules' \in Seq(RewriteRule)
  BY <1>6, RelayAssumption, ExceptSeq, LenProperties DEF UpdateRewriteRule, WriteRules
<1>7. ASSUME NEW i \in DOMAIN rules, DeleteRewriteRule(i)
      PROVE  rules' \in Seq(RewriteRule)
  BY <1>7, WithoutType DEF DeleteRewriteRule, WriteRules
<1>8. ASSUME \E fs : WriteFilters(fs)
      PROVE  /\ UNCHANGED <<mode, rules, database, mem, pc, locals, network, crashes>>
             /\ admitted' \subseteq Request /\ denied' \subseteq Request
  BY <1>8 DEF WriteFilters, Judge
<1>9. ASSUME NEW m, SetMode(m)
      PROVE  /\ UNCHANGED <<filters, rules, database, mem, pc, locals, network, crashes>>
             /\ admitted' \subseteq Request /\ denied' \subseteq Request
  BY <1>9 DEF SetMode, Judge
<1>10. ASSUME \E rs : WriteRules(rs)
       PROVE  UNCHANGED <<mode, filters, database, mem, pc, locals, network, crashes,
                          admitted, denied>>
  BY <1>10 DEF WriteRules
<1>11. CASE \E m \in AdminModes : SetMode(m)
  BY <1>11, <1>1, <1>9
<1>12. CASE \/ \E row \in FilterRows : AddRelayFilter(row)
            \/ \E i \in DOMAIN filters, row \in FilterRows : UpdateRelayFilter(i, row)
            \/ \E i \in DOMAIN filters : DeleteRelayFilter(i)
  <2>1. filters' \in Seq(RelayFilter)
    BY <1>12, <1>2, <1>3, <1>4
  <2>2. \E fs : WriteFilters(fs)
    BY <1>12 DEF AddRelayFilter, UpdateRelayFilter, DeleteRelayFilter
  <2> QED BY <2>1, <2>2, <1>8
<1>13. CASE \/ \E row \in RuleRows : AddRewriteRule(row)
            \/ \E i \in DOMAIN rules, row \in RuleRows : UpdateRewriteRule(i, row)
            \/ \E i \in DOMAIN rules : DeleteRewriteRule(i)
  <2>1. rules' \in Seq(RewriteRule)
    BY <1>13, <1>5, <1>6, <1>7
  <2>2. \E rs : WriteRules(rs)
    BY <1>13 DEF AddRewriteRule, UpdateRewriteRule, DeleteRewriteRule
  <2> QED BY <2>1, <2>2, <1>10
<1> QED BY <1>11, <1>12, <1>13 DEF Admin

\* Every step keeps the types.
LEMMA TypeStep == TypeInv /\ [Next]_vars => TypeInv'
<1> SUFFICES ASSUME TypeInv, [Next]_vars PROVE TypeInv'
  OBVIOUS
<1> USE DEF TypeInv, Running, Undecided, Passed,
            config, mem, stats, database, locals, network, history, vars
<1>1. ASSUME NEW r \in Request, Arrive(r) PROVE TypeInv'
  <2>1. PICK m \in Message : msg' = [msg EXCEPT ![r] = m] /\
                             env' = [env EXCEPT ![r] = [from |-> m.from, to |-> m.to]]
    BY <1>1 DEF Arrive
  <2>2. [from |-> m.from, to |-> m.to] \in Envelopes
    BY RelayAssumption DEF Envelopes
  <2>3. admitted' \subseteq Request /\ denied' \subseteq Request
    BY <1>1 DEF Arrive, TypeOK
  <2>4. TypeOK'
    BY <1>1, <2>1, <2>2, <2>3 DEF TypeOK, Arrive
  <2>5. Shape'
    BY <1>1, RelayAssumption DEF TypeOK, Shape, Arrive, Envelopes
  <2> QED BY <2>4, <2>5
<1>2. ASSUME NEW r \in Request, Check(r) PROVE TypeInv'
  <2>0. /\ Verdict(msg[r]).code \in Nat
        /\ Verdict(msg[r]).next \in {"deny", "fail", "policy"}
        /\ Verdict(msg[r]).next = "policy" => msg[r].to # <<>>
    BY DEF Verdict
  <2>1. TypeOK'
    BY <1>2, <2>0 DEF TypeOK, Check
  <2>2. Shape'
    BY <1>2, <2>0 DEF TypeOK, Shape, Check
  <2> QED BY <2>1, <2>2
<1>3. ASSUME NEW r \in Request, ReadMode(r) PROVE TypeInv'
  <2>1. TypeOK'
    BY <1>3 DEF TypeOK, ReadMode
  <2>2. Shape'
    BY <1>3 DEF TypeOK, Shape, ReadMode
  <2> QED BY <2>1, <2>2
<1>4. ASSUME NEW r \in Request, ListFilters(r) PROVE TypeInv'
  <2>1. code' \in [Request -> Nat]
    <3>1. code' = code \/ code' = [code EXCEPT ![r] = 403]
      BY <1>4 DEF ListFilters
    <3> QED
      BY <3>1 DEF TypeOK
  <2>2. pc' \in [Request -> Running \cup {"idle", "done", "late", "lost"}]
    <3>1. \/ pc' = [pc EXCEPT ![r] = "rules"]
          \/ pc' = [pc EXCEPT ![r] = "deny"]
      BY <1>4 DEF ListFilters
    <3> QED BY <3>1 DEF TypeOK
  <2>3. TypeOK'
    BY <1>4, <2>1, <2>2 DEF TypeOK, ListFilters
  <2>4. Shape'
    BY <1>4 DEF TypeOK, Shape, ListFilters
  <2> QED BY <2>3, <2>4
<1>5. ASSUME NEW r \in Request, RecordRejected(r) PROVE TypeInv'
  <2>1. TypeOK'
    <3>1. totalRejected' \in Nat
      BY <1>5 DEF TypeOK, RecordRejected
    <3>2. pc' \in [Request -> Running \cup {"idle", "done", "late", "lost"}]
      BY <1>5 DEF TypeOK, RecordRejected
    <3> QED BY <1>5, <3>1, <3>2 DEF TypeOK, RecordRejected
  <2>2. Shape'
    BY <1>5 DEF TypeOK, Shape, RecordRejected
  <2> QED BY <2>1, <2>2
<1>6. ASSUME NEW r \in Request, CountRefusal(r) PROVE TypeInv'
  <2>1. TypeOK'
    BY <1>6 DEF TypeOK, CountRefusal
  <2>2. Shape'
    BY <1>6 DEF TypeOK, Shape, CountRefusal
  <2> QED BY <2>1, <2>2
<1>7. ASSUME NEW r \in Request, LoadRules(r) PROVE TypeInv'
  <2>1. TypeOK'
    <3>1. rest' \in [Request -> Seq(RewriteRule)]
      BY <1>7 DEF TypeOK, LoadRules
    <3>2. pc' \in [Request -> Running \cup {"idle", "done", "late", "lost"}]
      BY <1>7 DEF TypeOK, LoadRules
    <3> QED BY <1>7, <3>1, <3>2 DEF TypeOK, LoadRules
  <2>2. Shape'
    BY <1>7 DEF TypeOK, Shape, LoadRules
  <2> QED BY <2>1, <2>2
<1>8. ASSUME NEW r \in Request, ApplyRule(r) PROVE TypeInv'
  <2>1. /\ env[r] \in Envelopes /\ env[r].to # <<>>
        /\ Head(rest[r]) \in RewriteRule /\ Tail(rest[r]) \in Seq(RewriteRule)
    BY <1>8 DEF ApplyRule, TypeOK, Shape
  <2> DEFINE e == Rewrite(env[r], Head(rest[r]))
  <2>2. e \in Envelopes /\ Len(e.to) = Len(env[r].to)
    BY <2>1, RewriteType
  <2>3. e.to # <<>>
    BY <2>1, <2>2, EmptySeq, LenProperties DEF Envelopes
  <2>4. env' = [env EXCEPT ![r] = e] /\ rest' = [rest EXCEPT ![r] = Tail(rest[r])]
    BY <1>8 DEF ApplyRule
  <2> HIDE DEF e
  <2>5. TypeOK'
    BY <1>8, <2>1, <2>2, <2>4 DEF TypeOK, ApplyRule
  <2>6. Shape'
    BY <1>8, <2>2, <2>3, <2>4 DEF TypeOK, Shape, ApplyRule
  <2> QED BY <2>5, <2>6
<1>9. ASSUME NEW r \in Request, StartForward(r) PROVE TypeInv'
  <2>1. Groups(env[r]) \subseteq Host
    BY <1>9, GroupsType DEF StartForward, TypeOK, Shape
  <2>2. TypeOK'
    BY <1>9, <2>1 DEF TypeOK, StartForward
  <2>3. Shape'
    BY <1>9 DEF TypeOK, Shape, StartForward
  <2> QED BY <2>2, <2>3
<1>10. ASSUME NEW r \in Request, SendFirst(r) PROVE TypeInv'
  <2>1. PICK d \in todo[r] :
          /\ todo' = [todo EXCEPT ![r] = @ \ {d}]
          /\ cur' = [cur EXCEPT ![r] = PostOf(r, d, FirstTry)]
          /\ sent' = sent \cup {PostOf(r, d, FirstTry)}
    BY <1>10 DEF SendFirst
  <2> DEFINE p == PostOf(r, d, FirstTry)
  <2>2. p \in Post /\ p.req = r
    BY <1>10, GroupsType DEF SendFirst, PostOf, FirstTry, Post, TypeOK, Shape
  <2> HIDE DEF p
  <2>3. TypeOK'
    BY <1>10, <2>1, <2>2 DEF TypeOK, SendFirst, p
  <2>4. Shape'
    BY <1>10, <2>1, <2>2 DEF TypeOK, Shape, SendFirst, p
  <2> QED BY <2>3, <2>4
<1>11. ASSUME NEW r \in Request, PostSucceeds(r) PROVE TypeInv'
  <2>1. cur[r] \in Post /\ cur[r].req = r
    BY <1>11 DEF PostSucceeds, TypeOK, Shape
  <2>2. results' \in [Request -> Seq(Result)] /\ cur' \in [Request -> Post \cup {NoPost}]
    BY <1>11, <2>1, ReturnType DEF PostSucceeds, TypeOK
  <2>3. TypeOK'
    BY <1>11, <2>1, <2>2 DEF TypeOK, PostSucceeds, Return
  <2>4. Shape'
    BY <1>11 DEF TypeOK, Shape, PostSucceeds, Return
  <2> QED BY <2>3, <2>4
<1>12. ASSUME NEW r \in Request, PostFails(r) PROVE TypeInv'
  <2>1. cur[r] \in Post /\ cur[r].req = r
    BY <1>12 DEF PostFails, TypeOK, Shape
  <2>2. CASE cur[r].try = "https"
    <3> DEFINE p == Over(cur[r], "http")
    <3>1. p \in Post /\ p.req = r
      BY <2>1 DEF Over, Post
    <3>2. /\ cur' = [cur EXCEPT ![r] = p] /\ sent' = sent \cup {p}
          /\ UNCHANGED <<pc, results>>
      BY <1>12, <2>2 DEF PostFails
    <3> HIDE DEF p
    <3>3. TypeOK'
      BY <1>12, <3>1, <3>2 DEF TypeOK, PostFails
    <3>4. Shape'
      BY <1>12, <3>1, <3>2 DEF TypeOK, Shape, PostFails
    <3> QED BY <3>3, <3>4
  <2>3. CASE cur[r].try # "https"
    <3>1. Return(r, FALSE) /\ UNCHANGED sent
      BY <1>12, <2>3 DEF PostFails
    <3>2. results' \in [Request -> Seq(Result)] /\ cur' \in [Request -> Post \cup {NoPost}]
      BY <3>1, <2>1, ReturnType DEF TypeOK
    <3>3. TypeOK'
      BY <1>12, <3>1, <3>2 DEF TypeOK, PostFails, Return
    <3>4. Shape'
      BY <1>12, <3>1 DEF TypeOK, Shape, PostFails, Return
    <3> QED BY <3>3, <3>4
  <2> QED BY <2>2, <2>3
<1>13. ASSUME NEW r \in Request, EndForward(r) PROVE TypeInv'
  <2>1. TypeOK'
    BY <1>13 DEF TypeOK, EndForward
  <2>2. Shape'
    BY <1>13 DEF TypeOK, Shape, EndForward
  <2> QED BY <2>1, <2>2
<1>14. ASSUME NEW r \in Request, RecordError(r) PROVE TypeInv'
  <2>1. TypeOK'
    <3>1. totalErrors' \in Nat
      BY <1>14 DEF TypeOK, RecordError
    <3>2. pc' \in [Request -> Running \cup {"idle", "done", "late", "lost"}]
      BY <1>14 DEF TypeOK, RecordError
    <3> QED BY <1>14, <3>1, <3>2 DEF TypeOK, RecordError
  <2>2. Shape'
    BY <1>14 DEF TypeOK, Shape, RecordError
  <2> QED BY <2>1, <2>2
<1>15. ASSUME NEW r \in Request, CountError(r) PROVE TypeInv'
  <2>1. TypeOK'
    BY <1>15 DEF TypeOK, CountError
  <2>2. Shape'
    BY <1>15 DEF TypeOK, Shape, CountError
  <2> QED BY <2>1, <2>2
<1>16. ASSUME NEW r \in Request, CountForwarded(r) PROVE TypeInv'
  <2>1. TypeOK'
    BY <1>16 DEF TypeOK, CountForwarded
  <2>2. Shape'
    BY <1>16 DEF TypeOK, Shape, CountForwarded
  <2> QED BY <2>1, <2>2
<1>17. ASSUME NEW r \in Request, RecordRelay(r) PROVE TypeInv'
  <2> DEFINE route == <<msg[r].peer, NextResult(r).dom>>
  <2>0. route \in Peer \X Host
    <3>1. msg[r].peer \in Peer
      BY <1>17, RelayAssumption DEF RecordRelay, Shape
    <3>2. NextResult(r) \in Result
      BY <1>17, ElementOfSeq, LenProperties DEF RecordRelay, NextResult, TypeOK, Shape
    <3> QED BY <3>1, <3>2 DEF Result
  <2>1. routes' \in [Peer \X Host -> Nat] /\ totalRelayed' \in Nat
        /\ UNCHANGED <<totalRejected, totalErrors>>
    <3>1. CASE RelayTx(route)
      <4>1. routes' = [routes EXCEPT ![route] = @ + 1]
        BY <3>1 DEF RelayTx
      <4>2. [routes EXCEPT ![route] = @ + 1] \in [Peer \X Host -> Nat]
        <5> HIDE DEF route
        <5> QED BY <2>0, BumpType DEF TypeOK
      <4> QED BY <3>1, <4>1, <4>2 DEF RelayTx, TypeOK
    <3>2. CASE UNCHANGED database
      BY <3>2 DEF TypeOK
    <3> QED BY <1>17, <3>1, <3>2 DEF RecordRelay
  <2>2. TypeOK'
    <3>1. /\ pc' \in [Request -> Running \cup {"idle", "done", "late", "lost"}]
          /\ tallied' \in [Request -> Nat]
      BY <1>17 DEF TypeOK, RecordRelay
    <3> QED BY <1>17, <2>1, <3>1 DEF TypeOK, RecordRelay
  <2>3. Shape'
    BY <1>17 DEF TypeOK, Shape, RecordRelay
  <2> QED BY <2>2, <2>3
<1>18. ASSUME NEW r \in Request, ChooseStatus(r) PROVE TypeInv'
  <2>0. FinalCode(results[r]) \in Nat
    BY DEF FinalCode
  <2>1. TypeOK'
    BY <1>18, <2>0 DEF TypeOK, ChooseStatus
  <2>2. Shape'
    BY <1>18 DEF TypeOK, Shape, ChooseStatus
  <2> QED BY <2>1, <2>2
<1>19. ASSUME NEW r \in Request, Reply(r) PROVE TypeInv'
  <2>1. TypeOK'
    BY <1>19 DEF TypeOK, Reply
  <2>2. Shape'
    BY <1>19 DEF TypeOK, Shape, Reply
  <2> QED BY <2>1, <2>2
<1>20. ASSUME NEW p \in sent, Accept(p) PROVE TypeInv'
  <2>1. TypeOK'
    BY <1>20 DEF TypeOK, Accept
  <2>2. Shape'
    BY <1>20 DEF TypeOK, Shape, Accept
  <2> QED BY <2>1, <2>2
<1>21. CASE Admin
  <2>1. /\ mode' \in Modes
        /\ filters' \in Seq(RelayFilter)
        /\ rules' \in Seq(RewriteRule)
    BY <1>21, AdminType DEF TypeOK
  <2>2. /\ UNCHANGED <<database, mem, pc, locals, network, crashes>>
        /\ admitted' \subseteq Request /\ denied' \subseteq Request
    BY <1>21, AdminType DEF TypeOK
  <2>3. TypeOK'
    BY <2>1, <2>2 DEF TypeOK
  <2>4. Shape'
    BY <2>2 DEF Shape
  <2> QED BY <2>3, <2>4
<1>22. CASE CrashRestart
  <2>1. TypeOK'
    <3>1. pc' \in [Request -> Running \cup {"idle", "done", "late", "lost"}]
      BY <1>22 DEF TypeOK, CrashRestart
    <3> QED BY <1>22, <3>1, RelayAssumption DEF TypeOK, CrashRestart
  <2>2. Shape'
    BY <1>22 DEF TypeOK, Shape, CrashRestart
  <2> QED BY <2>1, <2>2
<1>23. CASE UNCHANGED vars
  <2>1. TypeOK'
    BY <1>23 DEF TypeOK, vars
  <2>2. Shape'
    BY <1>23 DEF TypeOK, Shape, vars
  <2> QED BY <2>1, <2>2
<1> QED
  BY <1>1, <1>2, <1>3, <1>4, <1>5, <1>6, <1>7, <1>8, <1>9, <1>10, <1>11, <1>12,
     <1>13, <1>14, <1>15, <1>16, <1>17, <1>18, <1>19, <1>20, <1>21, <1>22, <1>23
  DEF Next, Handle

\* TypeOK holds in every reachable state.
THEOREM TypeCorrect == Spec => []TypeOK
<1>1. TypeInv => TypeOK
  BY DEF TypeInv
<1> QED BY <1>1, TypeInit, TypeStep, PTL DEF Spec

-----------------------------------------------------------------------------
(* Nothing is sent for a message the policy never admitted                 *)

Admitting == {"rules", "rewrite", "choose", "await"}

\* The history variable is up to date while the policy may still be read, and
\* handlers that go on to send are in it.
AdmissionInv ==
  /\ \A r \in Request :
       /\ pc[r] \in Undecided /\ Policy(msg[r], mode, filters) => r \in admitted
       /\ pc[r] \in Admitting => r \in admitted
  /\ OnlyAdmittedIsSent

\* A freshly started relay handles nothing and has sent nothing.
LEMMA AdmissionInit == Init => AdmissionInv
BY DEF Init, AdmissionInv, Undecided, Admitting, OnlyAdmittedIsSent

\* Only a message the policy admits passes the filters.
LEMMA FilterPass ==
  ASSUME NEW m, NEW md, NEW fs, MatchesFilter(fs, m.from, m.to)
  PROVE  Policy(m, md, fs)
BY DEF MatchesFilter, Policy, Range

\* Every step keeps the invariant.
LEMMA AdmissionStep == TypeInv /\ AdmissionInv /\ [Next]_vars => AdmissionInv'
<1> SUFFICES ASSUME TypeInv, AdmissionInv, [Next]_vars PROVE AdmissionInv'
  OBVIOUS
<1> USE DEF TypeInv, AdmissionInv, OnlyAdmittedIsSent, Running, Undecided, Admitting,
            config, mem, stats, database, locals, network, history, vars
<1>1. ASSUME NEW r \in Request, Arrive(r) PROVE AdmissionInv'
  BY <1>1 DEF Arrive, TypeOK
<1>2. ASSUME NEW r \in Request, Check(r) PROVE AdmissionInv'
  BY <1>2, RelayAssumption DEF TypeOK, Shape, Check, Verdict
<1>3. ASSUME NEW r \in Request, ReadMode(r) PROVE AdmissionInv'
  <2>1. mode # "selected" => Policy(msg[r], mode, filters)
    BY DEF Policy, TypeOK, Modes
  <2>2. mode # "selected" => r \in admitted
    BY <1>3, <2>1 DEF ReadMode
  <2> QED BY <1>3, <2>2 DEF TypeOK, ReadMode
<1>4. ASSUME NEW r \in Request, ListFilters(r) PROVE AdmissionInv'
  <2>1. env[r].from = msg[r].from /\ env[r].to = msg[r].to
    <3>1. pc[r] = "filter"
      BY <1>4 DEF ListFilters
    <3>2. env[r] = [from |-> msg[r].from, to |-> msg[r].to]
      BY <3>1 DEF Shape
    <3> QED BY <3>2
  <2>2. MatchesFilter(filters, env[r].from, env[r].to) => r \in admitted
    BY <1>4, <2>1, FilterPass DEF ListFilters
  <2>3. pc' = [pc EXCEPT ![r] = "deny"]
        \/ (pc' = [pc EXCEPT ![r] = "rules"] /\ r \in admitted)
    BY <1>4, <2>2 DEF ListFilters
  <2>4. UNCHANGED <<config, msg, network, history>>
    BY <1>4 DEF ListFilters
  <2> QED BY <2>3, <2>4 DEF TypeOK
<1>5. ASSUME NEW r \in Request, RecordRejected(r) PROVE AdmissionInv'
  BY <1>5, RelayAssumption DEF TypeOK, Shape, RecordRejected
<1>6. ASSUME NEW r \in Request, CountRefusal(r) PROVE AdmissionInv'
  BY <1>6, RelayAssumption DEF TypeOK, Shape, CountRefusal
<1>7. ASSUME NEW r \in Request, LoadRules(r) PROVE AdmissionInv'
  BY <1>7, RelayAssumption DEF TypeOK, Shape, LoadRules
<1>8. ASSUME NEW r \in Request, ApplyRule(r) PROVE AdmissionInv'
  BY <1>8, RelayAssumption DEF TypeOK, Shape, ApplyRule
<1>9. ASSUME NEW r \in Request, StartForward(r) PROVE AdmissionInv'
  BY <1>9 DEF TypeOK, StartForward
<1>10. ASSUME NEW r \in Request, SendFirst(r) PROVE AdmissionInv'
  <2>1. /\ pc[r] = "choose" /\ pc' = [pc EXCEPT ![r] = "await"]
        /\ UNCHANGED <<config, msg, history>>
    BY <1>10 DEF SendFirst
  <2>2. \A p \in sent' : p \in sent \/ p.req = r
    BY <1>10 DEF SendFirst, PostOf
  <2> QED BY <2>1, <2>2 DEF TypeOK
<1>11. ASSUME NEW r \in Request, PostSucceeds(r) PROVE AdmissionInv'
  BY <1>11, RelayAssumption DEF TypeOK, Shape, PostSucceeds, Return
<1>12. ASSUME NEW r \in Request, PostFails(r) PROVE AdmissionInv'
  <2>1. /\ pc[r] = "await" /\ pc' \in {pc, [pc EXCEPT ![r] = "choose"]}
        /\ UNCHANGED <<config, msg, history>>
    BY <1>12 DEF PostFails, Return
  <2>2. \A p \in sent' : p \in sent \/ p.req = r
    <3>1. Over(cur[r], "http").req = r
      BY <2>1 DEF Over, Shape
    <3> QED BY <1>12, <3>1 DEF PostFails
  <2> QED BY <2>1, <2>2 DEF TypeOK
<1>13. ASSUME NEW r \in Request, EndForward(r) PROVE AdmissionInv'
  BY <1>13, RelayAssumption DEF TypeOK, Shape, EndForward
<1>14. ASSUME NEW r \in Request, RecordError(r) PROVE AdmissionInv'
  BY <1>14, RelayAssumption DEF TypeOK, Shape, RecordError
<1>15. ASSUME NEW r \in Request, CountError(r) PROVE AdmissionInv'
  BY <1>15, RelayAssumption DEF TypeOK, Shape, CountError
<1>16. ASSUME NEW r \in Request, CountForwarded(r) PROVE AdmissionInv'
  BY <1>16, RelayAssumption DEF TypeOK, Shape, CountForwarded
<1>17. ASSUME NEW r \in Request, RecordRelay(r) PROVE AdmissionInv'
  BY <1>17, RelayAssumption DEF TypeOK, Shape, RecordRelay, RelayTx
<1>18. ASSUME NEW r \in Request, ChooseStatus(r) PROVE AdmissionInv'
  BY <1>18, RelayAssumption DEF TypeOK, Shape, ChooseStatus
<1>19. ASSUME NEW r \in Request, Reply(r) PROVE AdmissionInv'
  BY <1>19, RelayAssumption DEF TypeOK, Shape, Reply
<1>20. ASSUME NEW p \in sent, Accept(p) PROVE AdmissionInv'
  BY <1>20 DEF Accept
<1>21. CASE Admin
  <2>1. ASSUME NEW m, SetMode(m) PROVE AdmissionInv'
    BY <2>1 DEF SetMode, Judge
  <2>2. ASSUME NEW fs, WriteFilters(fs) PROVE AdmissionInv'
    BY <2>2 DEF WriteFilters, Judge
  <2>3. ASSUME NEW rs, WriteRules(rs) PROVE AdmissionInv'
    BY <2>3 DEF WriteRules
  <2> QED
    BY <1>21, <2>1, <2>2, <2>3
    DEF Admin, AddRelayFilter, UpdateRelayFilter, DeleteRelayFilter,
        AddRewriteRule, UpdateRewriteRule, DeleteRewriteRule
<1>22. CASE CrashRestart
  BY <1>22 DEF CrashRestart, TypeOK
<1>23. CASE UNCHANGED vars
  BY <1>23
<1> QED
  BY <1>1, <1>2, <1>3, <1>4, <1>5, <1>6, <1>7, <1>8, <1>9, <1>10, <1>11, <1>12,
     <1>13, <1>14, <1>15, <1>16, <1>17, <1>18, <1>19, <1>20, <1>21, <1>22, <1>23
  DEF Next, Handle

\* A post is sent only for a message the policy admitted at some instant while
\* its handler ran: the two-step read of mode and filters never lets through a
\* message that was denied all along.
THEOREM AdmissionCorrect == Spec => []OnlyAdmittedIsSent
<1>1. AdmissionInv => OnlyAdmittedIsSent
  BY DEF AdmissionInv
<1> QED BY <1>1, TypeInit, TypeStep, AdmissionInit, AdmissionStep, PTL DEF Spec

-----------------------------------------------------------------------------
(* A second copy is sent only when the first was not acknowledged          *)

Before == {"idle", "start", "policy", "filter", "deny", "fail", "rules", "rewrite"}

\* A group that waits in todo was not posted at all, and the attempt a handler
\* waits for is unanswered, with no attempt after it.
CopyInv ==
  /\ \A p \in sent : pc[p.req] \notin Before /\ p.dom \notin todo[p.req]
  /\ \A r \in Request : pc[r] = "await" =>
       /\ cur[r] \notin acked
       /\ cur[r].try = "https" => Over(cur[r], "http") \notin sent
  /\ SecondCopyOnlyUnacked

\* A freshly started relay has sent nothing.
LEMMA CopyInit == Init => CopyInv
BY DEF Init, CopyInv, SecondCopyOnlyUnacked

\* A post in progress is its own HTTPS attempt, and the HTTP attempt goes back
\* to it: Over changes nothing but the way the group is tried.
LEMMA OverBack ==
  ASSUME NEW p \in Post, NEW t
  PROVE  Over(Over(p, t), p.try) = p
BY DEF Over, Post

\* Every step keeps the invariant.
LEMMA CopyStep == TypeInv /\ CopyInv /\ [Next]_vars => CopyInv'
<1> SUFFICES ASSUME TypeInv, CopyInv, [Next]_vars PROVE CopyInv'
  OBVIOUS
<1> USE DEF TypeInv, CopyInv, SecondCopyOnlyUnacked, Running, Undecided, Before,
            config, mem, stats, database, locals, network, history, vars
<1>0. \A p \in sent : p \in Post /\ p.req \in Request
  BY DEF TypeOK, Post
<1>1. ASSUME NEW r \in Request, Arrive(r) PROVE CopyInv'
  BY <1>1, <1>0 DEF Arrive, TypeOK
<1>2. ASSUME NEW r \in Request, Check(r) PROVE CopyInv'
  BY <1>2, <1>0, RelayAssumption DEF TypeOK, Shape, Check, Verdict
<1>3. ASSUME NEW r \in Request, ReadMode(r) PROVE CopyInv'
  BY <1>3, <1>0, RelayAssumption DEF TypeOK, Shape, ReadMode
<1>4. ASSUME NEW r \in Request, ListFilters(r) PROVE CopyInv'
  BY <1>4, <1>0, RelayAssumption DEF TypeOK, Shape, ListFilters
<1>5. ASSUME NEW r \in Request, RecordRejected(r) PROVE CopyInv'
  BY <1>5, <1>0, RelayAssumption DEF TypeOK, Shape, RecordRejected
<1>6. ASSUME NEW r \in Request, CountRefusal(r) PROVE CopyInv'
  BY <1>6, <1>0, RelayAssumption DEF TypeOK, Shape, CountRefusal
<1>7. ASSUME NEW r \in Request, LoadRules(r) PROVE CopyInv'
  BY <1>7, <1>0, RelayAssumption DEF TypeOK, Shape, LoadRules
<1>8. ASSUME NEW r \in Request, ApplyRule(r) PROVE CopyInv'
  BY <1>8, <1>0, RelayAssumption DEF TypeOK, Shape, ApplyRule
<1>9. ASSUME NEW r \in Request, StartForward(r) PROVE CopyInv'
  BY <1>9, <1>0, RelayAssumption DEF TypeOK, Shape, StartForward
<1>10. ASSUME NEW r \in Request, SendFirst(r) PROVE CopyInv'
  <2>1. PICK d \in todo[r] :
          /\ todo' = [todo EXCEPT ![r] = @ \ {d}]
          /\ cur' = [cur EXCEPT ![r] = PostOf(r, d, FirstTry)]
          /\ sent' = sent \cup {PostOf(r, d, FirstTry)}
    BY <1>10 DEF SendFirst
  <2>2. pc[r] = "choose" /\ pc' = [pc EXCEPT ![r] = "await"] /\ UNCHANGED acked
    BY <1>10 DEF SendFirst
  <2> DEFINE n == PostOf(r, d, FirstTry)
  <2>3. n.req = r /\ n.dom = d /\ n.try # "http"
    BY DEF PostOf, FirstTry
  <2>4. \A p \in sent : p.req = r => p.dom # d
    BY DEF TypeOK
  <2>5. n \notin sent /\ Over(n, "http") \notin sent /\ acked \subseteq sent
    BY <2>3, <2>4 DEF Over, TypeOK
  <2> HIDE DEF n
  <2>6. \A p \in sent' : pc'[p.req] \notin Before /\ p.dom \notin todo'[p.req]
    BY <1>0, <2>1, <2>2, <2>3, <2>4 DEF TypeOK, n
  <2>7. ASSUME NEW s \in Request, pc'[s] = "await"
        PROVE  /\ cur'[s] \notin acked'
               /\ cur'[s].try = "https" => Over(cur'[s], "http") \notin sent'
    <3>1. CASE s = r
      <4>1. cur'[s] = n
        BY <2>1, <3>1 DEF TypeOK, n
      <4>2. Over(n, "http") # n
        BY <2>3 DEF Over
      <4> QED BY <4>1, <4>2, <2>1, <2>2, <2>5 DEF n
    <3>2. CASE s # r
      <4>1. pc[s] = "await" /\ cur'[s] = cur[s] /\ cur[s].req = s
        BY <2>1, <2>2, <2>7, <3>2 DEF TypeOK, Shape
      <4>2. Over(cur[s], "http") # n
        BY <4>1, <3>2, <2>3 DEF Over
      <4> QED BY <4>1, <4>2, <2>1, <2>2 DEF n
    <3> QED BY <3>1, <3>2
  <2>8. SecondCopyOnlyUnacked'
    BY <2>1, <2>2, <2>3 DEF n
  <2> QED BY <2>6, <2>7, <2>8
<1>11. ASSUME NEW r \in Request, PostSucceeds(r) PROVE CopyInv'
  <2>1. /\ pc[r] = "await" /\ pc' = [pc EXCEPT ![r] = "choose"]
        /\ acked' = acked \cup {cur[r]} /\ cur' = [cur EXCEPT ![r] = NoPost]
        /\ UNCHANGED <<todo, sent>>
    BY <1>11 DEF PostSucceeds, Return
  <2>2. cur[r] \in sent /\ cur[r].req = r
    BY <2>1 DEF Shape
  <2>3. \A p \in sent : pc'[p.req] \notin Before /\ p.dom \notin todo'[p.req]
    BY <1>0, <2>1 DEF TypeOK
  <2>4. ASSUME NEW s \in Request, pc'[s] = "await"
        PROVE  /\ cur'[s] \notin acked'
               /\ cur'[s].try = "https" => Over(cur'[s], "http") \notin sent'
    <3>1. s # r /\ pc[s] = "await" /\ cur'[s] = cur[s] /\ cur[s].req = s
      BY <2>1, <2>4 DEF TypeOK, Shape
    <3> QED BY <3>1, <2>1, <2>2
  <2>5. ASSUME NEW p \in sent, p.try = "http"
        PROVE  Over(p, "https") # cur[r]
    <3>1. ASSUME Over(p, "https") = cur[r] PROVE FALSE
      <4>1. Over(cur[r], "http") = p
        BY <1>0, <3>1, <2>5, OverBack
      <4>2. cur[r].try = "https"
        BY <3>1 DEF Over
      <4> QED BY <4>1, <4>2, <2>1, <2>5
    <3> QED BY <3>1
  <2>6. SecondCopyOnlyUnacked'
    BY <2>1, <2>5
  <2> QED BY <2>1, <2>3, <2>4, <2>6
<1>12. ASSUME NEW r \in Request, PostFails(r) PROVE CopyInv'
  <2>1. pc[r] = "await" /\ cur[r] \in sent /\ cur[r].req = r /\ cur[r] \in Post
    BY <1>12, <1>0 DEF PostFails, Shape
  <2>2. CASE cur[r].try = "https"
    <3> DEFINE n == Over(cur[r], "http")
    <3>1. /\ cur' = [cur EXCEPT ![r] = n] /\ sent' = sent \cup {n}
          /\ UNCHANGED <<pc, todo, acked>>
      BY <1>12, <2>2 DEF PostFails
    <3>2. n \in Post /\ n.req = r /\ n.dom = cur[r].dom /\ n.try = "http" /\ n \notin sent
      BY <2>1, <2>2 DEF Over, Post
    <3>3. Over(n, "https") = cur[r]
      BY <2>1, <2>2, OverBack
    <3> HIDE DEF n
    <3>4. \A p \in sent' : pc'[p.req] \notin Before /\ p.dom \notin todo'[p.req]
      BY <2>1, <3>1, <3>2
    <3>5. ASSUME NEW s \in Request, pc'[s] = "await"
          PROVE  /\ cur'[s] \notin acked'
                 /\ cur'[s].try = "https" => Over(cur'[s], "http") \notin sent'
      <4>1. CASE s = r
        BY <4>1, <3>1, <3>2 DEF TypeOK
      <4>2. CASE s # r
        <5>1. pc[s] = "await" /\ cur'[s] = cur[s] /\ cur[s].req = s
          BY <3>1, <3>5, <4>2 DEF TypeOK, Shape
        <5>2. Over(cur[s], "http") # n
          BY <5>1, <3>2, <4>2 DEF Over
        <5> QED BY <5>1, <5>2, <3>1
      <4> QED BY <4>1, <4>2
    <3>6. SecondCopyOnlyUnacked'
      BY <2>1, <3>1, <3>2, <3>3
    <3> QED BY <3>4, <3>5, <3>6
  <2>3. CASE cur[r].try # "https"
    <3>1. /\ pc' = [pc EXCEPT ![r] = "choose"] /\ cur' = [cur EXCEPT ![r] = NoPost]
          /\ UNCHANGED <<todo, sent, acked>>
      BY <1>12, <2>3 DEF PostFails, Return
    <3> QED BY <2>1, <3>1, <1>0 DEF TypeOK
  <2> QED BY <2>2, <2>3
<1>13. ASSUME NEW r \in Request, EndForward(r) PROVE CopyInv'
  BY <1>13, <1>0, RelayAssumption DEF TypeOK, Shape, EndForward
<1>14. ASSUME NEW r \in Request, RecordError(r) PROVE CopyInv'
  BY <1>14, <1>0, RelayAssumption DEF TypeOK, Shape, RecordError
<1>15. ASSUME NEW r \in Request, CountError(r) PROVE CopyInv'
  BY <1>15, <1>0, RelayAssumption DEF TypeOK, Shape, CountError
<1>16. ASSUME NEW r \in Request, CountForwarded(r) PROVE CopyInv'
  BY <1>16, <1>0, RelayAssumption DEF TypeOK, Shape, CountForwarded
<1>17. ASSUME NEW r \in Request, RecordRelay(r) PROVE CopyInv'
  BY <1>17, <1>0 DEF TypeOK, RecordRelay
<1>18. ASSUME NEW r \in Request, ChooseStatus(r) PROVE CopyInv'
  BY <1>18, <1>0, RelayAssumption DEF TypeOK, Shape, ChooseStatus
<1>19. ASSUME NEW r \in Request, Reply(r) PROVE CopyInv'
  BY <1>19, <1>0, RelayAssumption DEF TypeOK, Shape, Reply
<1>20. ASSUME NEW p \in sent, Accept(p) PROVE CopyInv'
  BY <1>20 DEF Accept
<1>21. CASE Admin
  BY <1>21, AdminType DEF TypeOK
<1>22. CASE CrashRestart
  BY <1>22, <1>0 DEF CrashRestart, TypeOK
<1>23. CASE UNCHANGED vars
  BY <1>23
<1> QED
  BY <1>1, <1>2, <1>3, <1>4, <1>5, <1>6, <1>7, <1>8, <1>9, <1>10, <1>11, <1>12,
     <1>13, <1>14, <1>15, <1>16, <1>17, <1>18, <1>19, <1>20, <1>21, <1>22, <1>23
  DEF Next, Handle

\* For every group of every request, HTTP is used only after HTTPS returned an
\* error, and an acknowledged group gets no second copy.
THEOREM CopyCorrect == Spec => []SecondCopyOnlyUnacked
<1>1. CopyInv => SecondCopyOnlyUnacked
  BY DEF CopyInv
<1> QED BY <1>1, TypeInit, TypeStep, CopyInit, CopyStep, PTL DEF Spec
=============================================================================
