-------------------------- MODULE RelayAnswerProofs --------------------------
(***************************************************************************)
(* What the upstream is told is true, nobody is forgotten, and each step   *)
(* of Relay is a step of RelayService, or none: theorems about Relay for   *)
(* any requests, messages, rules, hosts, faults and crashes.               *)
(***************************************************************************)
EXTENDS RelayProofs

\* Forward has a result for the group of d.
Has(res, d) == \E i \in DOMAIN res : res[i].dom = d

\* The post of a group when the envelope is e.
PostIn(r, e, d, t) == [req |-> r, dom |-> d, try |-> t, rcpts |-> Members(e, d)]

\* A result is good when some post of its group was acknowledged, and bad only
\* when the group was tried every way; an acknowledged post leaves a good one.
Known(r, e, res, out, acks) ==
  /\ \A i \in DOMAIN res : res[i].ok => \E t \in Tries : PostIn(r, e, res[i].dom, t) \in acks
  /\ \A i \in DOMAIN res : ~res[i].ok => \A t \in Tries : PostIn(r, e, res[i].dom, t) \in out
  /\ \A p \in acks : p.req = r => \E i \in DOMAIN res : res[i].ok

\* Every group has a result, and there is one.
Complete(e, res) == Groups(e) # {} /\ \A d \in Groups(e) : Has(res, d)

\* While Forward runs, every group waits, is being posted, or has a result.
Covered(e, groups, busy, res) ==
  Groups(e) # {} /\ \A d \in Groups(e) : d \in groups \cup busy \/ Has(res, d)

\* The post in progress, and the one that failed before it.
Current(r, e, p, out) ==
  /\ p.try \in Tries /\ p = PostIn(r, e, p.dom, p.try)
  /\ p.try = "http" => PostIn(r, e, p.dom, "https") \in out

\* The answer is a refusal, before any post, or it is made of the results.
Answered(r, e, res, c, out) ==
  \/ c \notin {200, 502} /\ res = <<>> /\ \A p \in out : p.req # r
  \/ c = FinalCode(res) /\ Complete(e, res)

\* All of this for a handler at a certain place.
Truth(r, at, e, groups, p, res, c, out, acks) ==
  /\ Known(r, e, res, out, acks)
  /\ at \in Before => res = <<>>
  /\ at \in {"deny", "fail"} => c \notin {200, 502}
  /\ at = "choose" => Covered(e, groups, {}, res)
  /\ at = "await" => Current(r, e, p, out) /\ Covered(e, groups, {p.dom}, res)
  /\ at \in {"tally", "relayed", "failed"} => Complete(e, res)
  /\ at \in {"reply", "done", "late"} => Answered(r, e, res, c, out)

AnswerInv ==
  \A r \in Request :
     Truth(r, pc[r], env[r], todo[r], cur[r], results[r], code[r], sent, acked)

-----------------------------------------------------------------------------

\* What is true of a handler stays true while others send and get answers.
LEMMA TruthElsewhere ==
  ASSUME NEW r, NEW at, NEW e, NEW groups, NEW p, NEW res, NEW c,
         NEW out, NEW acks, NEW out2, NEW acks2,
         Truth(r, at, e, groups, p, res, c, out, acks),
         out \subseteq out2, acks \subseteq acks2,
         \A q \in out2 : q.req = r => q \in out,
         \A q \in acks2 : q.req = r => q \in acks
  PROVE  Truth(r, at, e, groups, p, res, c, out2, acks2)
<1>1. Known(r, e, res, out2, acks2)
  BY DEF Truth, Known
<1>2. Current(r, e, p, out) => Current(r, e, p, out2)
  BY DEF Current
<1>3. Answered(r, e, res, c, out) => Answered(r, e, res, c, out2)
  BY DEF Answered
<1> QED
  BY <1>1, <1>2, <1>3 DEF Truth

\* So a step of one handler needs a look at that handler only.
LEMMA OneHandler ==
  ASSUME TypeInv, AnswerInv, NEW r \in Request,
         \A s \in Request \ {r} :
           /\ pc'[s] = pc[s] /\ env'[s] = env[s] /\ todo'[s] = todo[s]
           /\ cur'[s] = cur[s] /\ results'[s] = results[s] /\ code'[s] = code[s],
         sent \subseteq sent', acked \subseteq acked',
         \A q \in sent' : q.req # r => q \in sent,
         \A q \in acked' : q.req # r => q \in acked,
         Truth(r, pc'[r], env'[r], todo'[r], cur'[r], results'[r], code'[r], sent', acked')
  PROVE  AnswerInv'
<1> SUFFICES ASSUME NEW s \in Request, s # r
             PROVE  Truth(s, pc'[s], env'[s], todo'[s], cur'[s], results'[s], code'[s],
                          sent', acked')
  BY DEF AnswerInv
<1>1. Truth(s, pc[s], env[s], todo[s], cur[s], results[s], code[s], sent, acked)
  BY DEF AnswerInv
<1>2. Truth(s, pc[s], env[s], todo[s], cur[s], results[s], code[s], sent', acked')
  <2>1. \A q \in sent' : q.req = s => q \in sent
    OBVIOUS
  <2>2. \A q \in acked' : q.req = s => q \in acked
    OBVIOUS
  <2> QED
    BY <1>1, <2>1, <2>2, TruthElsewhere
<1> QED
  BY <1>2

\* Recipients make groups.
LEMMA GroupsNonempty ==
  ASSUME NEW e \in Envelopes, e.to # <<>>
  PROVE  Groups(e) # {}
<1>1. 1 \in DOMAIN e.to
  BY EmptySeq, LenProperties DEF Envelopes
<1> QED
  BY <1>1 DEF Groups

\* A result is added for the group that was busy.
LEMMA CoveredReturn ==
  ASSUME NEW e, NEW groups, NEW d, NEW ok, NEW res \in Seq(Result),
         Covered(e, groups, {d}, res)
  PROVE  Covered(e, groups, {}, Append(res, [dom |-> d, ok |-> ok]))
<1> DEFINE new == Append(res, [dom |-> d, ok |-> ok])
<1>1. /\ DOMAIN new = 1 .. Len(res) + 1 /\ DOMAIN res = 1 .. Len(res) /\ Len(res) \in Nat
      /\ \A i \in DOMAIN res : new[i] = res[i]
      /\ new[Len(res) + 1] = [dom |-> d, ok |-> ok]
  OBVIOUS
<1> HIDE DEF new
<1>2. Has(new, d) /\ \A g : Has(res, g) => Has(new, g)
  BY <1>1 DEF Has
<1>3. Covered(e, groups, {}, new)
  BY <1>2 DEF Covered
<1> QED
  BY <1>3 DEF new

\* A good result is added for a post that was acknowledged.
LEMMA KnownOk ==
  ASSUME NEW r, NEW e, NEW res \in Seq(Result), NEW out, NEW acks, NEW p,
         Known(r, e, res, out, acks), p.try \in Tries, p = PostIn(r, e, p.dom, p.try)
  PROVE  Known(r, e, Append(res, [dom |-> p.dom, ok |-> TRUE]), out, acks \cup {p})
<1> DEFINE new == Append(res, [dom |-> p.dom, ok |-> TRUE])
<1>1. /\ DOMAIN new = 1 .. Len(res) + 1 /\ DOMAIN res = 1 .. Len(res) /\ Len(res) \in Nat
      /\ \A i \in DOMAIN res : new[i] = res[i]
      /\ new[Len(res) + 1] = [dom |-> p.dom, ok |-> TRUE]
  OBVIOUS
<1> HIDE DEF new
<1>2. \A i \in DOMAIN new : i \in DOMAIN res \/ i = Len(res) + 1
  BY <1>1
<1>3. \A i \in DOMAIN new : new[i].ok =>
        \E t \in Tries : PostIn(r, e, new[i].dom, t) \in acks \cup {p}
  BY <1>1, <1>2 DEF Known
<1>4. \A i \in DOMAIN new : ~new[i].ok =>
        \A t \in Tries : PostIn(r, e, new[i].dom, t) \in out
  BY <1>1, <1>2 DEF Known
<1>5. \E i \in DOMAIN new : new[i].ok
  BY <1>1
<1>6. Known(r, e, new, out, acks \cup {p})
  BY <1>3, <1>4, <1>5 DEF Known
<1> QED
  BY <1>6 DEF new

\* A bad result is added for a group that was tried every way.
LEMMA KnownFailed ==
  ASSUME NEW r, NEW e, NEW res \in Seq(Result), NEW out, NEW acks, NEW d,
         Known(r, e, res, out, acks), \A t \in Tries : PostIn(r, e, d, t) \in out
  PROVE  Known(r, e, Append(res, [dom |-> d, ok |-> FALSE]), out, acks)
<1> DEFINE new == Append(res, [dom |-> d, ok |-> FALSE])
<1>1. /\ DOMAIN new = 1 .. Len(res) + 1 /\ DOMAIN res = 1 .. Len(res) /\ Len(res) \in Nat
      /\ \A i \in DOMAIN res : new[i] = res[i]
      /\ new[Len(res) + 1] = [dom |-> d, ok |-> FALSE]
  OBVIOUS
<1> HIDE DEF new
<1>2. \A i \in DOMAIN new : i \in DOMAIN res \/ i = Len(res) + 1
  BY <1>1
<1>3. \A i \in DOMAIN new : new[i].ok => \E t \in Tries : PostIn(r, e, new[i].dom, t) \in acks
  BY <1>1, <1>2 DEF Known
<1>4. \A i \in DOMAIN new : ~new[i].ok => \A t \in Tries : PostIn(r, e, new[i].dom, t) \in out
  BY <1>1, <1>2 DEF Known
<1>5. \A p \in acks : p.req = r => \E i \in DOMAIN new : new[i].ok
  BY <1>1 DEF Known
<1>6. Known(r, e, new, out, acks)
  BY <1>3, <1>4, <1>5 DEF Known
<1> QED
  BY <1>6 DEF new

\* Nothing has happened yet.
LEMMA AnswerInit == Init => AnswerInv
BY DEF Init, AnswerInv, Truth, Known, Before

\* A step that at most moves a handler on and gives it a code is fine if the
\* part about the new place is.
LEMMA TruthMoves ==
  ASSUME NEW r, NEW at, NEW e, NEW groups, NEW p, NEW res, NEW c, NEW out, NEW acks,
         NEW at2, NEW c2,
         Truth(r, at, e, groups, p, res, c, out, acks),
         at2 \in Before => res = <<>>,
         at2 \in {"deny", "fail"} => c2 \notin {200, 502},
         at2 \notin {"choose", "await"},
         at2 \in {"tally", "relayed", "failed"} => Complete(e, res),
         at2 \in {"reply", "done", "late"} => Answered(r, e, res, c2, out)
  PROVE  Truth(r, at2, e, groups, p, res, c2, out, acks)
BY DEF Truth

\* What is true of a handler that waits for an answer.
LEMMA TruthAwaits ==
  ASSUME NEW r, NEW e, NEW groups, NEW p, NEW res, NEW c, NEW out, NEW acks, NEW at,
         at = "await", Truth(r, at, e, groups, p, res, c, out, acks)
  PROVE  Known(r, e, res, out, acks) /\ Current(r, e, p, out) /\ Covered(e, groups, {p.dom}, res)
BY DEF Truth

\* What is true of a handler that answers or has answered.
LEMMA TruthAnswered ==
  ASSUME NEW r, NEW e, NEW groups, NEW p, NEW res, NEW c, NEW out, NEW acks, NEW at,
         at \in {"reply", "done", "late"}, Truth(r, at, e, groups, p, res, c, out, acks)
  PROVE  Known(r, e, res, out, acks) /\ Answered(r, e, res, c, out)
BY DEF Truth

\* Before the first post there are no results, whatever the rest.
LEMMA TruthEarly ==
  ASSUME NEW r, NEW at, NEW e, NEW groups, NEW p, NEW c, NEW out, NEW acks,
         \A q \in out : q.req # r, acks \subseteq out,
         at \in Before, at \in {"deny", "fail"} => c \notin {200, 502}
  PROVE  Truth(r, at, e, groups, p, <<>>, c, out, acks)
BY DEF Truth, Known, Before

\* Every step keeps the invariant.
LEMMA AnswerStep == TypeInv /\ CopyInv /\ AnswerInv /\ [Next]_vars => AnswerInv'
<1> SUFFICES ASSUME TypeInv, CopyInv, AnswerInv, [Next]_vars PROVE AnswerInv'
  OBVIOUS
<1> USE DEF TypeInv, config, mem, stats, database, locals, network, history, vars
<1>0. ASSUME NEW r \in Request
      PROVE  Truth(r, pc[r], env[r], todo[r], cur[r], results[r], code[r], sent, acked)
  BY DEF AnswerInv
<1>a. \A p \in sent : pc[p.req] \notin Before
  BY DEF CopyInv
<1>b. acked \subseteq sent
  BY DEF TypeOK
<1>c. ASSUME NEW r \in Request, pc[r] \in Before
      PROVE  results[r] = <<>> /\ \A q \in sent : q.req # r
  BY <1>0, <1>a, <1>c DEF Truth
<1>1. ASSUME NEW r \in Request, Arrive(r) PROVE AnswerInv'
  <2>1. /\ pc[r] = "idle" /\ pc'[r] = "start"
        /\ UNCHANGED <<todo, cur, results, code, sent, acked>>
        /\ \A s \in Request \ {r} : pc'[s] = pc[s] /\ env'[s] = env[s]
    BY <1>1 DEF Arrive, TypeOK
  <2>2. Truth(r, "start", env'[r], todo[r], cur[r], results[r], code[r], sent, acked)
    BY <2>1, <1>b, <1>c, TruthEarly DEF Before
  <2> QED
    BY <2>1, <2>2, OneHandler
<1>2. ASSUME NEW r \in Request, Check(r) PROVE AnswerInv'
  <2>1. /\ pc[r] = "start" /\ pc'[r] \in {"deny", "fail", "policy"}
        /\ pc'[r] \in {"deny", "fail"} => code'[r] \notin {200, 502}
        /\ UNCHANGED <<env, todo, cur, results, sent, acked>>
        /\ \A s \in Request \ {r} : pc'[s] = pc[s] /\ code'[s] = code[s]
    BY <1>2 DEF Check, Verdict, TypeOK
  <2>2. Truth(r, pc'[r], env[r], todo[r], cur[r], results[r], code'[r], sent, acked)
    BY <2>1, <1>b, <1>c, TruthEarly DEF Before
  <2> QED
    BY <2>1, <2>2, OneHandler
<1>3. ASSUME NEW r \in Request, ReadMode(r) PROVE AnswerInv'
  <2>1. /\ pc[r] = "policy" /\ pc'[r] \in {"filter", "rules"}
        /\ UNCHANGED <<env, todo, cur, results, code, sent, acked>>
        /\ \A s \in Request \ {r} : pc'[s] = pc[s]
    BY <1>3 DEF ReadMode, TypeOK
  <2>2. Truth(r, pc'[r], env[r], todo[r], cur[r], results[r], code[r], sent, acked)
    BY <2>1, <1>b, <1>c, TruthEarly DEF Before
  <2> QED
    BY <2>1, <2>2, OneHandler
<1>4. ASSUME NEW r \in Request, ListFilters(r) PROVE AnswerInv'
  <2>1. /\ pc[r] = "filter"
        /\ pc'[r] = "rules" \/ (pc'[r] = "deny" /\ code'[r] = 403)
        /\ UNCHANGED <<env, todo, cur, results, sent, acked>>
        /\ \A s \in Request \ {r} : pc'[s] = pc[s] /\ code'[s] = code[s]
    BY <1>4 DEF ListFilters, TypeOK
  <2>2. Truth(r, pc'[r], env[r], todo[r], cur[r], results[r], code'[r], sent, acked)
    BY <2>1, <1>b, <1>c, TruthEarly DEF Before
  <2> QED
    BY <2>1, <2>2, OneHandler
<1>5. ASSUME NEW r \in Request, RecordRejected(r) PROVE AnswerInv'
  <2>1. /\ pc[r] = "deny" /\ pc'[r] = "fail"
        /\ UNCHANGED <<env, todo, cur, results, code, sent, acked>>
        /\ \A s \in Request \ {r} : pc'[s] = pc[s]
    BY <1>5 DEF RecordRejected, TypeOK
  <2>2. code[r] \notin {200, 502}
    BY <2>1, <1>0 DEF Truth
  <2>3. Truth(r, pc'[r], env[r], todo[r], cur[r], results[r], code[r], sent, acked)
    BY <2>1, <2>2, <1>b, <1>c, TruthEarly DEF Before
  <2> QED
    BY <2>1, <2>3, OneHandler
<1>6. ASSUME NEW r \in Request, CountRefusal(r) PROVE AnswerInv'
  <2>1. /\ pc[r] = "fail" /\ pc'[r] = "reply"
        /\ UNCHANGED <<env, todo, cur, results, code, sent, acked>>
        /\ \A s \in Request \ {r} : pc'[s] = pc[s]
    BY <1>6 DEF CountRefusal, TypeOK
  <2>2. Answered(r, env[r], results[r], code[r], sent)
    <3>1. code[r] \notin {200, 502}
      BY <2>1, <1>0 DEF Truth
    <3>2. results[r] = <<>> /\ \A q \in sent : q.req # r
      BY <2>1, <1>c DEF Before
    <3> QED
      BY <3>1, <3>2 DEF Answered
  <2>3. Truth(r, pc'[r], env[r], todo[r], cur[r], results[r], code[r], sent, acked)
    BY <2>1, <2>2, <1>0, TruthMoves DEF Before
  <2> QED
    BY <2>1, <2>3, OneHandler
<1>7. ASSUME NEW r \in Request, LoadRules(r) PROVE AnswerInv'
  <2>1. /\ pc[r] = "rules" /\ pc'[r] = "rewrite"
        /\ UNCHANGED <<env, todo, cur, results, code, sent, acked>>
        /\ \A s \in Request \ {r} : pc'[s] = pc[s]
    BY <1>7 DEF LoadRules, TypeOK
  <2>2. Truth(r, pc'[r], env[r], todo[r], cur[r], results[r], code[r], sent, acked)
    BY <2>1, <1>b, <1>c, TruthEarly DEF Before
  <2> QED
    BY <2>1, <2>2, OneHandler
<1>8. ASSUME NEW r \in Request, ApplyRule(r) PROVE AnswerInv'
  <2>1. /\ pc[r] = "rewrite"
        /\ UNCHANGED <<pc, todo, cur, results, code, sent, acked>>
        /\ \A s \in Request \ {r} : env'[s] = env[s]
    BY <1>8 DEF ApplyRule, TypeOK
  <2>2. Truth(r, pc[r], env'[r], todo[r], cur[r], results[r], code[r], sent, acked)
    BY <2>1, <1>b, <1>c, TruthEarly DEF Before
  <2> QED
    BY <2>1, <2>2, OneHandler
<1>9. ASSUME NEW r \in Request, StartForward(r) PROVE AnswerInv'
  <2>1. /\ pc[r] = "rewrite" /\ pc'[r] = "choose" /\ todo'[r] = Groups(env[r])
        /\ UNCHANGED <<env, cur, results, code, sent, acked>>
        /\ \A s \in Request \ {r} : pc'[s] = pc[s] /\ todo'[s] = todo[s]
    BY <1>9 DEF StartForward, TypeOK
  <2>2. Groups(env[r]) # {}
    BY <2>1, GroupsNonempty DEF Shape, Passed
  <2>3. Covered(env[r], todo'[r], {}, results[r])
    BY <2>1, <2>2 DEF Covered
  <2>4. Truth(r, "choose", env[r], todo'[r], cur[r], results[r], code[r], sent, acked)
    BY <2>1, <2>3, <1>0 DEF Truth, Before
  <2> QED
    BY <2>1, <2>4, OneHandler
<1>10. ASSUME NEW r \in Request, SendFirst(r) PROVE AnswerInv'
  <2>1. PICK d \in todo[r] :
          /\ todo' = [todo EXCEPT ![r] = @ \ {d}]
          /\ cur' = [cur EXCEPT ![r] = PostOf(r, d, FirstTry)]
          /\ sent' = sent \cup {PostOf(r, d, FirstTry)}
    BY <1>10 DEF SendFirst
  <2> DEFINE n == PostIn(r, env[r], d, FirstTry)
  <2>2. PostOf(r, d, FirstTry) = n /\ n.dom = d /\ n.try = FirstTry /\ n.req = r
    BY DEF PostOf, PostIn
  <2> HIDE DEF n
  <2>3. /\ pc[r] = "choose" /\ pc'[r] = "await"
        /\ UNCHANGED <<env, results, code, acked>>
        /\ todo'[r] = todo[r] \ {d} /\ cur'[r] = n /\ sent' = sent \cup {n}
        /\ \A s \in Request \ {r} : pc'[s] = pc[s] /\ todo'[s] = todo[s] /\ cur'[s] = cur[s]
    BY <1>10, <2>1, <2>2 DEF SendFirst, TypeOK
  <2>4. Known(r, env[r], results[r], sent', acked) /\ Covered(env[r], todo[r], {}, results[r])
    <3>1. Truth(r, "choose", env[r], todo[r], cur[r], results[r], code[r], sent, acked)
      BY <2>3, <1>0
    <3>2. Known(r, env[r], results[r], sent, acked) /\ Covered(env[r], todo[r], {}, results[r])
      BY <3>1 DEF Truth
    <3> QED
      BY <2>3, <3>2 DEF Known
  <2>5. Covered(env[r], todo'[r], {n.dom}, results[r])
    BY <2>2, <2>3, <2>4 DEF Covered
  <2>6. Current(r, env[r], n, sent')
    BY <2>2 DEF Current, FirstTry, Tries, n
  <2>7. Truth(r, pc'[r], env[r], todo'[r], cur'[r], results[r], code[r], sent', acked)
    BY <2>3, <2>4, <2>5, <2>6 DEF Truth, Before
  <2> QED
    BY <2>2, <2>3, <2>7, OneHandler
<1>11. ASSUME NEW r \in Request, PostSucceeds(r) PROVE AnswerInv'
  <2>1. /\ pc[r] = "await" /\ pc'[r] = "choose"
        /\ UNCHANGED <<env, todo, code, sent>>
        /\ results'[r] = Append(results[r], [dom |-> cur[r].dom, ok |-> TRUE])
        /\ acked' = acked \cup {cur[r]}
        /\ \A s \in Request \ {r} : pc'[s] = pc[s] /\ cur'[s] = cur[s] /\ results'[s] = results[s]
    BY <1>11 DEF PostSucceeds, Return, TypeOK
  <2>2. cur[r].req = r
    BY <2>1 DEF Shape
  <2>3. /\ Known(r, env[r], results[r], sent, acked)
        /\ Current(r, env[r], cur[r], sent)
        /\ Covered(env[r], todo[r], {cur[r].dom}, results[r])
    BY <2>1, <1>0, TruthAwaits
  <2>4. results[r] \in Seq(Result)
    BY DEF TypeOK
  <2>5. Known(r, env[r], results'[r], sent, acked')
    BY <2>1, <2>3, <2>4, KnownOk DEF Current
  <2>6. Covered(env[r], todo[r], {}, results'[r])
    BY <2>1, <2>3, <2>4, CoveredReturn
  <2>7. Truth(r, pc'[r], env[r], todo[r], cur'[r], results'[r], code[r], sent, acked')
    BY <2>1, <2>5, <2>6 DEF Truth, Before
  <2> QED
    BY <2>1, <2>2, <2>7, OneHandler
<1>12. ASSUME NEW r \in Request, PostFails(r) PROVE AnswerInv'
  <2>1. /\ pc[r] = "await" /\ cur[r].req = r /\ cur[r] \in sent
        /\ UNCHANGED <<env, todo, code, acked>>
    BY <1>12 DEF PostFails, Shape
  <2>2. /\ Known(r, env[r], results[r], sent, acked)
        /\ Current(r, env[r], cur[r], sent)
        /\ Covered(env[r], todo[r], {cur[r].dom}, results[r])
    BY <2>1, <1>0, TruthAwaits
  <2>3. results[r] \in Seq(Result)
    BY DEF TypeOK
  <2>4. CASE cur[r].try = "https"
    <3> DEFINE n == PostIn(r, env[r], cur[r].dom, "http")
    <3>1. Over(cur[r], "http") = n /\ n.req = r /\ n.dom = cur[r].dom /\ n.try = "http"
      BY <2>2 DEF Current, Over, PostIn
    <3> HIDE DEF n
    <3>2. /\ UNCHANGED <<pc, results>> /\ cur'[r] = n /\ sent' = sent \cup {n}
          /\ \A s \in Request \ {r} : cur'[s] = cur[s]
      BY <1>12, <2>4, <3>1 DEF PostFails, TypeOK
    <3>3. Known(r, env[r], results[r], sent', acked)
      BY <2>2, <3>2 DEF Known
    <3>4. Current(r, env[r], n, sent')
      BY <2>1, <2>2, <2>4, <3>1, <3>2 DEF Current, Tries, n
    <3>5. Truth(r, pc[r], env[r], todo[r], cur'[r], results[r], code[r], sent', acked)
      BY <2>1, <2>2, <3>1, <3>2, <3>3, <3>4 DEF Truth, Before
    <3> QED
      BY <2>1, <3>1, <3>2, <3>5, OneHandler
  <2>5. CASE cur[r].try # "https"
    <3>1. /\ pc'[r] = "choose" /\ UNCHANGED sent
          /\ results'[r] = Append(results[r], [dom |-> cur[r].dom, ok |-> FALSE])
          /\ \A s \in Request \ {r} : pc'[s] = pc[s] /\ cur'[s] = cur[s] /\ results'[s] = results[s]
      BY <1>12, <2>5 DEF PostFails, Return, TypeOK
    <3>2. \A t \in Tries : PostIn(r, env[r], cur[r].dom, t) \in sent
      BY <2>1, <2>2, <2>5 DEF Current, Tries
    <3>3. Known(r, env[r], results'[r], sent, acked)
      BY <2>2, <2>3, <3>1, <3>2, KnownFailed
    <3>4. Covered(env[r], todo[r], {}, results'[r])
      BY <2>2, <2>3, <3>1, CoveredReturn
    <3>5. Truth(r, pc'[r], env[r], todo[r], cur'[r], results'[r], code[r], sent, acked)
      BY <3>1, <3>3, <3>4 DEF Truth, Before
    <3> QED
      BY <2>1, <3>1, <3>5, OneHandler
  <2> QED
    BY <2>4, <2>5
<1>13. ASSUME NEW r \in Request, EndForward(r) PROVE AnswerInv'
  <2>1. /\ pc[r] = "choose" /\ pc'[r] = "tally" /\ todo[r] = {}
        /\ UNCHANGED <<env, todo, cur, results, code, sent, acked>>
        /\ \A s \in Request \ {r} : pc'[s] = pc[s]
    BY <1>13 DEF EndForward, TypeOK
  <2>2. Complete(env[r], results[r])
    BY <2>1, <1>0 DEF Truth, Covered, Complete
  <2>3. Truth(r, pc'[r], env[r], todo[r], cur[r], results[r], code[r], sent, acked)
    BY <2>1, <2>2, <1>0, TruthMoves DEF Before
  <2> QED
    BY <2>1, <2>3, OneHandler
\* Steps of the tally that record a result.
<1>t. ASSUME NEW r \in Request, pc[r] \in {"tally", "relayed", "failed"},
             pc'[r] \in {"tally", "relayed", "failed"},
             UNCHANGED <<env, todo, cur, results, code, sent, acked>>,
             \A s \in Request \ {r} : pc'[s] = pc[s]
      PROVE  AnswerInv'
  <2>1. Complete(env[r], results[r])
    BY <1>t, <1>0 DEF Truth
  <2>2. Truth(r, pc'[r], env[r], todo[r], cur[r], results[r], code[r], sent, acked)
    BY <2>1, <1>t, <1>0, TruthMoves DEF Before
  <2> QED
    BY <2>2, <1>t, OneHandler
<1>14. ASSUME NEW r \in Request, RecordError(r) PROVE AnswerInv'
  BY <1>14, <1>t DEF RecordError, TypeOK
<1>15. ASSUME NEW r \in Request, CountError(r) PROVE AnswerInv'
  BY <1>15, <1>t DEF CountError, TypeOK
<1>16. ASSUME NEW r \in Request, CountForwarded(r) PROVE AnswerInv'
  BY <1>16, <1>t DEF CountForwarded, TypeOK
<1>17. ASSUME NEW r \in Request, RecordRelay(r) PROVE AnswerInv'
  BY <1>17, <1>t DEF RecordRelay, TypeOK
<1>18. ASSUME NEW r \in Request, ChooseStatus(r) PROVE AnswerInv'
  <2>1. /\ pc[r] = "tally" /\ pc'[r] = "reply" /\ code'[r] = FinalCode(results[r])
        /\ UNCHANGED <<env, todo, cur, results, sent, acked>>
        /\ \A s \in Request \ {r} : pc'[s] = pc[s] /\ code'[s] = code[s]
    BY <1>18 DEF ChooseStatus, TypeOK
  <2>2. Answered(r, env[r], results[r], code'[r], sent)
    BY <2>1, <1>0 DEF Truth, Answered
  <2>3. Truth(r, pc'[r], env[r], todo[r], cur[r], results[r], code'[r], sent, acked)
    BY <2>1, <2>2, <1>0, TruthMoves DEF Before
  <2> QED
    BY <2>1, <2>3, OneHandler
<1>19. ASSUME NEW r \in Request, Reply(r) PROVE AnswerInv'
  <2>1. /\ pc[r] = "reply" /\ pc'[r] \in {"done", "late"}
        /\ UNCHANGED <<env, todo, cur, results, code, sent, acked>>
        /\ \A s \in Request \ {r} : pc'[s] = pc[s]
    BY <1>19 DEF Reply, TypeOK
  <2>2. Answered(r, env[r], results[r], code[r], sent)
    BY <2>1, <1>0 DEF Truth
  <2>3. Truth(r, pc'[r], env[r], todo[r], cur[r], results[r], code[r], sent, acked)
    BY <2>1, <2>2, <1>0, TruthMoves DEF Before
  <2> QED
    BY <2>1, <2>3, OneHandler
<1>20. ASSUME NEW p \in sent, Accept(p) PROVE AnswerInv'
  BY <1>20 DEF Accept, AnswerInv
<1>21. CASE Admin
  BY <1>21, AdminType DEF TypeOK, AnswerInv
<1>22. CASE CrashRestart
  <2>1. /\ UNCHANGED <<env, todo, cur, results, code, sent, acked>>
        /\ \A r \in Request : pc'[r] = pc[r] \/ pc'[r] = "lost"
    BY <1>22 DEF CrashRestart, TypeOK
  <2>2. ASSUME NEW r \in Request
        PROVE  Truth(r, pc'[r], env[r], todo[r], cur[r], results[r], code[r], sent, acked)
    <3>1. CASE pc'[r] = pc[r]
      BY <3>1, <1>0
    <3>2. CASE pc'[r] = "lost"
      BY <3>2, <1>0, TruthMoves DEF Before
    <3> QED
      BY <2>1, <3>1, <3>2
  <2> QED
    BY <2>1, <2>2 DEF AnswerInv
<1>23. CASE UNCHANGED vars
  BY <1>23 DEF AnswerInv
<1> QED
  BY <1>1, <1>2, <1>3, <1>4, <1>5, <1>6, <1>7, <1>8, <1>9, <1>10, <1>11, <1>12,
     <1>13, <1>14, <1>15, <1>16, <1>17, <1>18, <1>19, <1>20, <1>21, <1>22, <1>23
  DEF Next, Handle

-----------------------------------------------------------------------------

\* The invariant holds in every reachable state.
LEMMA AnswerInvHolds == Spec => []AnswerInv
BY TypeInit, TypeStep, CopyInit, CopyStep, AnswerInit, AnswerStep, PTL DEF Spec

\* The code chosen for the upstream is true of the network: 200, 502 and refusals.
THEOREM AnswerCorrect == Spec => []AnswerIsTruthful
<1>1. AnswerInv => AnswerIsTruthful
  <2> SUFFICES ASSUME AnswerInv, NEW r \in Request, pc[r] \in {"done", "late"}
               PROVE  /\ code[r] = 200 => \E p \in acked : p.req = r
                      /\ code[r] = 502 =>
                           /\ \A p \in acked : p.req # r
                           /\ \A d \in Groups(env[r]), t \in Tries : PostOf(r, d, t) \in sent
                      /\ code[r] \notin {200, 502} => \A p \in sent : p.req # r
    BY DEF AnswerIsTruthful
  <2>1. /\ Known(r, env[r], results[r], sent, acked)
        /\ Answered(r, env[r], results[r], code[r], sent)
    <3>1. Truth(r, pc[r], env[r], todo[r], cur[r], results[r], code[r], sent, acked)
      BY DEF AnswerInv
    <3> QED
      BY <3>1, TruthAnswered
  <2>2. CASE code[r] \notin {200, 502} /\ \A p \in sent : p.req # r
    BY <2>2
  <2>3. CASE code[r] = FinalCode(results[r]) /\ Complete(env[r], results[r])
    <3>1. CASE \E i \in DOMAIN results[r] : results[r][i].ok
      <4>1. PICK i \in DOMAIN results[r] : results[r][i].ok
        BY <3>1
      <4>2. PICK t \in Tries : PostIn(r, env[r], results[r][i].dom, t) \in acked
        BY <2>1, <4>1 DEF Known
      <4>3. PostIn(r, env[r], results[r][i].dom, t).req = r
        BY DEF PostIn
      <4>4. code[r] = 200
        BY <2>3, <3>1 DEF FinalCode
      <4> QED
        BY <4>2, <4>3, <4>4
    <3>2. CASE ~\E i \in DOMAIN results[r] : results[r][i].ok
      <4>1. \E i \in DOMAIN results[r] : TRUE
        BY <2>3 DEF Complete, Has
      <4>2. code[r] = 502
        BY <2>3, <3>2, <4>1 DEF FinalCode
      <4>3. \A p \in acked : p.req # r
        BY <2>1, <3>2 DEF Known
      <4>4. ASSUME NEW d \in Groups(env[r]), NEW t \in Tries PROVE PostOf(r, d, t) \in sent
        <5>1. PICK i \in DOMAIN results[r] : results[r][i].dom = d
          BY <2>3 DEF Complete, Has
        <5>2. PostIn(r, env[r], d, t) \in sent
          BY <2>1, <3>2, <5>1 DEF Known
        <5> QED
          BY <5>2 DEF PostIn, PostOf
      <4> QED
        BY <4>2, <4>3, <4>4
    <3> QED
      BY <3>1, <3>2
  <2> QED
    BY <2>1, <2>2, <2>3 DEF Answered
<1> QED
  BY <1>1, AnswerInvHolds, PTL

\* When no group failed, every recipient is in a post that was accepted by the
\* host of its own domain, or by the fixed downstream.
THEOREM NobodyForgotten == Spec => []AllOkMeansAllDelivered
<1>1. TypeInv /\ AnswerInv => AllOkMeansAllDelivered
  <2> SUFFICES ASSUME TypeInv, AnswerInv, NEW r \in Request,
                      pc[r] \in {"tally", "relayed", "failed", "reply", "done", "late"},
                      results[r] # <<>>,
                      \A j \in DOMAIN results[r] : results[r][j].ok,
                      NEW i \in DOMAIN env[r].to
               PROVE  \E p \in accepted :
                        /\ p.req = r /\ i \in p.rcpts
                        /\ Static \/ p.dom = RouteDomain(env[r].to[i])
    BY DEF AllOkMeansAllDelivered
  <2>1. Known(r, env[r], results[r], sent, acked) /\ Complete(env[r], results[r])
    <3>1. Truth(r, pc[r], env[r], todo[r], cur[r], results[r], code[r], sent, acked)
      BY DEF AnswerInv
    <3>2. CASE pc[r] \in {"tally", "relayed", "failed"}
      BY <3>1, <3>2 DEF Truth
    <3>3. CASE pc[r] \in {"reply", "done", "late"}
      <4>1. Answered(r, env[r], results[r], code[r], sent)
        BY <3>1, <3>3 DEF Truth
      <4> QED
        BY <3>1, <4>1 DEF Truth, Answered
    <3> QED
      BY <3>2, <3>3
  <2> DEFINE d == RouteDomain(env[r].to[IF Static THEN 1 ELSE i])
  <2>2. d \in Groups(env[r]) /\ i \in Members(env[r], d)
    BY DEF Groups, Members
  <2> HIDE DEF d
  <2>3. PICK j \in DOMAIN results[r] : results[r][j].dom = d
    BY <2>1, <2>2 DEF Complete, Has
  <2>4. PICK t \in Tries : PostIn(r, env[r], d, t) \in acked
    BY <2>1, <2>3 DEF Known
  <2> DEFINE p == PostIn(r, env[r], d, t)
  <2>5. p.req = r /\ p.dom = d /\ p.rcpts = Members(env[r], d)
    BY DEF PostIn
  <2>6. p \in accepted
    BY <2>4 DEF TypeInv, TypeOK
  <2>7. Static \/ p.dom = RouteDomain(env[r].to[i])
    BY <2>5 DEF d
  <2> QED
    BY <2>2, <2>5, <2>6, <2>7
<1> QED
  BY <1>1, AnswerInvHolds, TypeInit, TypeStep, PTL DEF Spec

-----------------------------------------------------------------------------
(* The relay implements the service                                        *)

\* The group a handler is posting has not been acknowledged by any way.
FreshInv ==
  \A r \in Request : pc[r] = "await" =>
    \A p \in acked : p.req = r => p.dom # cur[r].dom

\* Nothing was sent.
LEMMA FreshInit == Init => FreshInv
BY DEF Init, FreshInv

\* Every step keeps it.
LEMMA FreshStep == TypeInv /\ CopyInv /\ FreshInv /\ [Next]_vars => FreshInv'
<1> SUFFICES ASSUME TypeInv, CopyInv, FreshInv, [Next]_vars PROVE FreshInv'
  OBVIOUS
<1> USE DEF FreshInv, config, mem, stats, database, locals, network, history, vars
<1>0. TypeOK /\ Shape
  BY DEF TypeInv
\* A step that starts no post.
<1>a. ASSUME NEW r \in Request, UNCHANGED <<cur, acked>>,
             pc'[r] # "await" \/ pc[r] = "await",
             \A s \in Request \ {r} : pc'[s] = pc[s]
      PROVE  FreshInv'
  BY <1>a
<1>1. ASSUME NEW r \in Request, Arrive(r) PROVE FreshInv'
  BY <1>1, <1>0, <1>a DEF Arrive, TypeOK
<1>2. ASSUME NEW r \in Request, Check(r) PROVE FreshInv'
  BY <1>2, <1>0, <1>a DEF Check, Verdict, TypeOK
<1>3. ASSUME NEW r \in Request, ReadMode(r) PROVE FreshInv'
  BY <1>3, <1>0, <1>a DEF ReadMode, TypeOK
<1>4. ASSUME NEW r \in Request, ListFilters(r) PROVE FreshInv'
  BY <1>4, <1>0, <1>a DEF ListFilters, TypeOK
<1>5. ASSUME NEW r \in Request, RecordRejected(r) PROVE FreshInv'
  BY <1>5, <1>0, <1>a DEF RecordRejected, TypeOK
<1>6. ASSUME NEW r \in Request, CountRefusal(r) PROVE FreshInv'
  BY <1>6, <1>0, <1>a DEF CountRefusal, TypeOK
<1>7. ASSUME NEW r \in Request, LoadRules(r) PROVE FreshInv'
  BY <1>7, <1>0, <1>a DEF LoadRules, TypeOK
<1>8. ASSUME NEW r \in Request, ApplyRule(r) PROVE FreshInv'
  BY <1>8, <1>0, <1>a DEF ApplyRule, TypeOK
<1>9. ASSUME NEW r \in Request, StartForward(r) PROVE FreshInv'
  BY <1>9, <1>0, <1>a DEF StartForward, TypeOK
<1>10. ASSUME NEW r \in Request, SendFirst(r) PROVE FreshInv'
  <2>1. PICK d \in todo[r] : cur' = [cur EXCEPT ![r] = PostOf(r, d, FirstTry)]
    BY <1>10 DEF SendFirst
  <2>2. cur'[r].dom = d /\ \A s \in Request \ {r} : cur'[s] = cur[s]
    BY <2>1, <1>0 DEF TypeOK, PostOf
  <2>3. \A p \in acked : p.req = r => p.dom # d
    BY <1>0 DEF CopyInv, TypeOK
  <2>4. UNCHANGED acked /\ \A s \in Request \ {r} : pc'[s] = pc[s]
    BY <1>10, <1>0 DEF SendFirst, TypeOK
  <2> QED
    BY <2>2, <2>3, <2>4
<1>11. ASSUME NEW r \in Request, PostSucceeds(r) PROVE FreshInv'
  <2>1. /\ cur[r].req = r /\ acked' = acked \cup {cur[r]} /\ pc'[r] = "choose"
        /\ \A s \in Request \ {r} : pc'[s] = pc[s] /\ cur'[s] = cur[s]
    BY <1>11, <1>0 DEF PostSucceeds, Return, TypeOK, Shape
  <2> QED
    BY <2>1
<1>12. ASSUME NEW r \in Request, PostFails(r) PROVE FreshInv'
  <2>1. /\ pc[r] = "await" /\ UNCHANGED acked
        /\ pc'[r] = "choose" \/ cur'[r].dom = cur[r].dom
        /\ \A s \in Request \ {r} : pc'[s] = pc[s] /\ cur'[s] = cur[s]
    BY <1>12, <1>0 DEF PostFails, Return, Over, TypeOK
  <2> QED
    BY <2>1
<1>13. ASSUME NEW r \in Request, EndForward(r) PROVE FreshInv'
  BY <1>13, <1>0, <1>a DEF EndForward, TypeOK
<1>14. ASSUME NEW r \in Request, RecordError(r) PROVE FreshInv'
  BY <1>14, <1>0, <1>a DEF RecordError, TypeOK
<1>15. ASSUME NEW r \in Request, CountError(r) PROVE FreshInv'
  BY <1>15, <1>0, <1>a DEF CountError, TypeOK
<1>16. ASSUME NEW r \in Request, CountForwarded(r) PROVE FreshInv'
  BY <1>16, <1>0, <1>a DEF CountForwarded, TypeOK
<1>17. ASSUME NEW r \in Request, RecordRelay(r) PROVE FreshInv'
  BY <1>17, <1>0, <1>a DEF RecordRelay, TypeOK
<1>18. ASSUME NEW r \in Request, ChooseStatus(r) PROVE FreshInv'
  BY <1>18, <1>0, <1>a DEF ChooseStatus, TypeOK
<1>19. ASSUME NEW r \in Request, Reply(r) PROVE FreshInv'
  BY <1>19, <1>0, <1>a DEF Reply, TypeOK
<1>20. ASSUME NEW p \in sent, Accept(p) PROVE FreshInv'
  BY <1>20 DEF Accept
<1>21. CASE Admin
  BY <1>21, <1>0, AdminType DEF TypeOK
<1>22. CASE CrashRestart
  BY <1>22, <1>0 DEF CrashRestart, TypeOK
<1>23. CASE UNCHANGED vars
  BY <1>23
<1> QED
  BY <1>1, <1>2, <1>3, <1>4, <1>5, <1>6, <1>7, <1>8, <1>9, <1>10, <1>11, <1>12,
     <1>13, <1>14, <1>15, <1>16, <1>17, <1>18, <1>19, <1>20, <1>21, <1>22, <1>23
  DEF Next, Handle

-----------------------------------------------------------------------------
(* The mapping                                                             *)

Phases == [r \in Request |-> PhaseOf(r)]

\* A step that sends nothing for a handler and keeps its place keeps its phase.
LEMMA PhaseStays ==
  ASSUME NEW s \in Request, pc'[s] = pc[s], code'[s] = code[s],
         (\E p \in sent' : p.req = s) <=> (\E p \in sent : p.req = s)
  PROVE  PhaseOf(s)' = PhaseOf(s)
BY DEF PhaseOf

\* A running handler is sending or has sent nothing.
LEMMA PhaseRuns ==
  ASSUME NEW r \in Request, pc[r] \in Running
  PROVE  PhaseOf(r) = IF \E p \in sent : p.req = r THEN "sending" ELSE "open"
BY DEF PhaseOf, Running, Undecided

\* So is one that runs after the step.
LEMMA PhaseRunsNext ==
  ASSUME NEW r \in Request, pc'[r] \in Running
  PROVE  PhaseOf(r)' = IF \E p \in sent' : p.req = r THEN "sending" ELSE "open"
BY DEF PhaseOf, Running, Undecided

\* A handler that does not run.
LEMMA PhaseRests ==
  ASSUME NEW r \in Request
  PROVE  /\ pc[r] \in {"idle", "lost"} => PhaseOf(r) = pc[r]
         /\ pc[r] = "late" => PhaseOf(r) = "lost"
         /\ pc[r] = "done" => PhaseOf(r) = IF code[r] = 200 THEN "ok"
                                ELSE IF code[r] = 502 THEN "failed" ELSE "refused"
<1> USE DEF Running, Undecided
<1>1. CASE pc[r] \in {"idle", "lost"}
  BY <1>1 DEF PhaseOf
<1>2. CASE pc[r] = "done"
  BY <1>2 DEF PhaseOf
<1>3. CASE pc[r] = "late"
  BY <1>3 DEF PhaseOf
<1> QED
  BY <1>1, <1>2, <1>3

\* The same after the step.
LEMMA PhaseRestsNext ==
  ASSUME NEW r \in Request
  PROVE  /\ pc'[r] \in {"idle", "lost"} => PhaseOf(r)' = pc'[r]
         /\ pc'[r] = "late" => PhaseOf(r)' = "lost"
         /\ pc'[r] = "done" => PhaseOf(r)' = IF code'[r] = 200 THEN "ok"
                                 ELSE IF code'[r] = 502 THEN "failed" ELSE "refused"
<1> USE DEF Running, Undecided
<1>1. CASE pc'[r] \in {"idle", "lost"}
  BY <1>1 DEF PhaseOf
<1>2. CASE pc'[r] = "done"
  BY <1>2 DEF PhaseOf
<1>3. CASE pc'[r] = "late"
  BY <1>3 DEF PhaseOf
<1> QED
  BY <1>1, <1>2, <1>3

\* One handler's phase changes.
LEMMA PhaseMoves ==
  ASSUME NEW r \in Request, NEW x, PhaseOf(r)' = x,
         \A s \in Request \ {r} : PhaseOf(s)' = PhaseOf(s)
  PROVE  Phases' = [Phases EXCEPT ![r] = x]
BY DEF Phases

\* No phase changes.
LEMMA PhasesStay ==
  ASSUME \A s \in Request : PhaseOf(s)' = PhaseOf(s)
  PROVE  Phases' = Phases
BY DEF Phases

\* The relay starts where the service starts.
LEMMA ServiceInit == Init => Service!SInit
BY DEF Init, Service!SInit, PhaseOf

\* A step that sends nothing and lets no handler leave or enter service is none
\* of the service.
LEMMA Stutter ==
  ASSUME UNCHANGED network, \A s \in Request : PhaseOf(s)' = PhaseOf(s)
  PROVE  UNCHANGED Service!svars
BY PhasesStay DEF Service!svars, Phases, network

\* So is a step of a handler that goes on running.
LEMMA StutterRuns ==
  ASSUME UNCHANGED network, NEW r \in Request, pc[r] \in Running, pc'[r] \in Running,
         \A s \in Request \ {r} : pc'[s] = pc[s] /\ code'[s] = code[s]
  PROVE  UNCHANGED Service!svars
<1>1. PhaseOf(r)' = PhaseOf(r)
  BY PhaseRuns, PhaseRunsNext DEF network
<1>2. \A s \in Request \ {r} : PhaseOf(s)' = PhaseOf(s)
  BY PhaseStays DEF network
<1> QED
  BY <1>1, <1>2, Stutter

\* A post is sent: a copy of the service, unless it has one like it.
LEMMA SendStep ==
  ASSUME NEW r \in Request, NEW p, p.req = r, p.dom \in Host, p.try \in Tries,
         pc[r] \in Running, pc'[r] \in Running, sent' = sent \cup {p},
         \A q \in acked : q.req = r => q.dom # p.dom,
         CopyOf(p) \in {CopyOf(q) : q \in sent} => \E q \in sent : q.req = r,
         UNCHANGED <<accepted, acked>>,
         \A s \in Request \ {r} : pc'[s] = pc[s] /\ code'[s] = code[s]
  PROVE  [Service!SNext]_(Service!svars)
<1>1. PhaseOf(r)' = "sending"
  BY PhaseRunsNext
<1>2. \A s \in Request \ {r} : PhaseOf(s)' = PhaseOf(s)
  BY PhaseStays
<1>3. Phases' = [Phases EXCEPT ![r] = "sending"]
  BY <1>1, <1>2, PhaseMoves
<1>4. {CopyOf(q) : q \in sent}' = {CopyOf(q) : q \in sent} \cup {CopyOf(p)}
  OBVIOUS
<1>5. UNCHANGED <<{CopyOf(q) : q \in accepted}, {CopyOf(q) : q \in acked}>>
  OBVIOUS
<1>6. CASE CopyOf(p) \in {CopyOf(q) : q \in sent}
  <2>1. PhaseOf(r)' = PhaseOf(r)
    BY <1>1, <1>6, PhaseRuns
  <2>2. Phases' = Phases
    BY <2>1, <1>2, PhasesStay
  <2> QED
    BY <2>2, <1>4, <1>5, <1>6 DEF Service!svars, Phases
<1>7. CASE CopyOf(p) \notin {CopyOf(q) : q \in sent}
  <2>1. Phases[r] \in Service!Active
    BY PhaseRuns DEF Phases, Service!Active
  <2>2. CopyOf(p) = <<r, p.dom, p.try>>
    BY DEF CopyOf
  <2>3. \A u \in Tries : <<r, p.dom, u>> \notin {CopyOf(q) : q \in acked}
    BY DEF CopyOf
  <2>4. Service!Send(r, p.dom, p.try)
    BY <2>1, <2>2, <2>3, <1>3, <1>4, <1>5, <1>7 DEF Service!Send, Phases
  <2> QED
    BY <2>4 DEF Service!SNext
<1> QED
  BY <1>6, <1>7

\* A handler whose answer is made of results has sent something, and the answer
\* is 200 exactly when something was acknowledged.
LEMMA AnswerMeans ==
  ASSUME TypeInv, NEW r \in Request,
         Known(r, env[r], results[r], sent, acked),
         code[r] = FinalCode(results[r]), Complete(env[r], results[r])
  PROVE  /\ \E p \in sent : p.req = r
         /\ code[r] = 200 => \E d \in Host, t \in Tries : <<r, d, t>> \in {CopyOf(q) : q \in acked}
         /\ code[r] # 200 => code[r] = 502 /\ \A p \in acked : p.req # r
<1>1. \A d, t : /\ PostIn(r, env[r], d, t).req = r
                /\ CopyOf(PostIn(r, env[r], d, t)) = <<r, d, t>>
  BY DEF PostIn, CopyOf
<1>2. acked \subseteq sent /\ results[r] \in Seq(Result)
  BY DEF TypeInv, TypeOK
<1>3. \A i \in DOMAIN results[r] : results[r][i].dom \in Host
  <2>1. \A i \in DOMAIN results[r] : results[r][i] \in Result
    BY <1>2
  <2> QED
    BY <2>1 DEF Result
<1>4. PICK i \in DOMAIN results[r] : TRUE
  BY DEF Complete, Has
<1>5. CASE \E j \in DOMAIN results[r] : results[r][j].ok
  <2>1. PICK j \in DOMAIN results[r] : results[r][j].ok
    BY <1>5
  <2>2. PICK t \in Tries : PostIn(r, env[r], results[r][j].dom, t) \in acked
    BY <2>1 DEF Known
  <2>3. code[r] = 200
    BY <1>5 DEF FinalCode
  <2>4. <<r, results[r][j].dom, t>> \in {CopyOf(q) : q \in acked}
    BY <2>2, <1>1
  <2>5. \E p \in sent : p.req = r
    BY <2>2, <1>1, <1>2
  <2> QED
    BY <2>3, <2>4, <2>5, <1>3
<1>6. CASE ~\E j \in DOMAIN results[r] : results[r][j].ok
  <2>1. code[r] = 502
    BY <1>4, <1>6 DEF FinalCode
  <2>2. \A p \in acked : p.req # r
    BY <1>6 DEF Known
  <2>3. PICK t \in Tries : TRUE
    BY DEF Tries
  <2>4. PostIn(r, env[r], results[r][i].dom, t) \in sent
    BY <1>4, <1>6, <2>3 DEF Known
  <2>5. \E p \in sent : p.req = r
    BY <2>4, <1>1
  <2> QED
    BY <2>1, <2>2, <2>5
<1> QED
  BY <1>5, <1>6

\* Every step of the relay is one of the service, or none.
LEMMA ServiceStep ==
  TypeInv /\ CopyInv /\ AnswerInv /\ FreshInv /\ [Next]_vars
    => [Service!SNext]_(Service!svars)
<1> SUFFICES ASSUME TypeInv, CopyInv, AnswerInv, FreshInv, [Next]_vars
             PROVE  [Service!SNext]_(Service!svars)
  OBVIOUS
<1> USE DEF config, mem, stats, database, locals, network, history, vars
<1>0. TypeOK /\ Shape
  BY DEF TypeInv
<1>a. ASSUME NEW r \in Request
      PROVE  Truth(r, pc[r], env[r], todo[r], cur[r], results[r], code[r], sent, acked)
  BY DEF AnswerInv
<1>1. ASSUME NEW r \in Request, Arrive(r) PROVE Service!SNext
  <2>1. /\ pc[r] = "idle" /\ pc'[r] = "start" /\ UNCHANGED <<code, network>>
        /\ \A s \in Request \ {r} : pc'[s] = pc[s]
    BY <1>1, <1>0 DEF Arrive, TypeOK
  <2>2. PhaseOf(r) = "idle"
    BY <2>1, PhaseRests
  <2>3. \A p \in sent : p.req # r
    BY <2>1 DEF CopyInv, Before
  <2>4. PhaseOf(r)' = "open"
    BY <2>1, <2>3, PhaseRunsNext DEF Running, Undecided
  <2>5. Phases' = [Phases EXCEPT ![r] = "open"]
    BY <2>1, <2>4, PhaseStays, PhaseMoves
  <2>6. Service!Open(r)
    BY <2>1, <2>2, <2>5 DEF Service!Open, Phases
  <2> QED
    BY <2>6 DEF Service!SNext
<1>2. ASSUME NEW r \in Request,
             Check(r) \/ ReadMode(r) \/ ListFilters(r) \/ RecordRejected(r) \/ CountRefusal(r)
      PROVE  UNCHANGED Service!svars
  <2>1. /\ pc[r] \in Running /\ pc'[r] \in Running /\ UNCHANGED network
        /\ \A s \in Request \ {r} : pc'[s] = pc[s] /\ code'[s] = code[s]
    <3>1. CASE Check(r)
      BY <3>1, <1>0 DEF Check, Verdict, TypeOK, Running, Undecided
    <3>2. CASE ReadMode(r)
      BY <3>2, <1>0 DEF ReadMode, TypeOK, Running, Undecided
    <3>3. CASE ListFilters(r)
      BY <3>3, <1>0 DEF ListFilters, TypeOK, Running, Undecided
    <3>4. CASE RecordRejected(r) \/ CountRefusal(r)
      BY <3>4, <1>0 DEF RecordRejected, CountRefusal, TypeOK, Running, Undecided
    <3> QED
      BY <1>2, <3>1, <3>2, <3>3, <3>4
  <2> QED
    BY <2>1, StutterRuns
<1>3. ASSUME NEW r \in Request, LoadRules(r) \/ ApplyRule(r) \/ StartForward(r) \/ EndForward(r)
      PROVE  UNCHANGED Service!svars
  <2>1. /\ pc[r] \in Running /\ pc'[r] \in Running /\ UNCHANGED network
        /\ \A s \in Request \ {r} : pc'[s] = pc[s] /\ code'[s] = code[s]
    BY <1>3, <1>0 DEF LoadRules, ApplyRule, StartForward, EndForward, TypeOK, Running
  <2> QED
    BY <2>1, StutterRuns
<1>4. ASSUME NEW r \in Request,
             RecordError(r) \/ CountError(r) \/ CountForwarded(r) \/ RecordRelay(r) \/ ChooseStatus(r)
      PROVE  UNCHANGED Service!svars
  <2>1. /\ pc[r] \in Running /\ pc'[r] \in Running /\ UNCHANGED network
        /\ \A s \in Request \ {r} : pc'[s] = pc[s] /\ code'[s] = code[s]
    BY <1>4, <1>0
    DEF RecordError, CountError, CountForwarded, RecordRelay, ChooseStatus, TypeOK, Running
  <2> QED
    BY <2>1, StutterRuns
<1>5. ASSUME NEW r \in Request, SendFirst(r) PROVE [Service!SNext]_(Service!svars)
  <2>1. PICK d \in todo[r] : sent' = sent \cup {PostOf(r, d, FirstTry)}
    BY <1>5 DEF SendFirst
  <2> DEFINE p == PostOf(r, d, FirstTry)
  <2>2. p.req = r /\ p.dom = d /\ p.try = FirstTry /\ CopyOf(p) = <<r, d, FirstTry>>
    BY DEF PostOf, CopyOf
  <2>3. d \in Host /\ FirstTry \in Tries
    BY <1>0 DEF TypeOK, FirstTry, Tries
  <2>4. \A q \in acked : q.req = r => q.dom # d
    BY <1>0 DEF CopyInv, TypeOK
  <2>5. CopyOf(p) \in {CopyOf(q) : q \in sent} => \E q \in sent : q.req = r
    BY <2>2 DEF CopyOf
  <2>6. /\ pc[r] \in Running /\ pc'[r] \in Running /\ UNCHANGED <<accepted, acked>>
        /\ \A s \in Request \ {r} : pc'[s] = pc[s] /\ code'[s] = code[s]
    BY <1>5, <1>0 DEF SendFirst, TypeOK, Running
  <2> HIDE DEF p
  <2> QED
    BY <2>1, <2>2, <2>3, <2>4, <2>5, <2>6, SendStep DEF p
<1>6. ASSUME NEW r \in Request, PostSucceeds(r) PROVE [Service!SNext]_(Service!svars)
  <2>1. /\ pc[r] = "await" /\ pc'[r] = "choose" /\ UNCHANGED <<code, sent, accepted>>
        /\ cur[r] \in accepted /\ acked' = acked \cup {cur[r]}
        /\ \A s \in Request \ {r} : pc'[s] = pc[s]
    BY <1>6, <1>0 DEF PostSucceeds, Return, TypeOK
  <2>2. cur[r] \in sent /\ cur[r].req = r /\ cur[r].dom \in Host
    BY <2>1, <1>0 DEF Shape, TypeOK, Post
  <2>3. cur[r].try \in Tries
    <3>1. Current(r, env[r], cur[r], sent)
      BY <2>1, <1>a, TruthAwaits
    <3> QED
      BY <3>1 DEF Current
  <2>4. Phases' = Phases
    <3>1. PhaseOf(r)' = PhaseOf(r)
      BY <2>1, PhaseRuns, PhaseRunsNext DEF Running
    <3>2. \A s \in Request \ {r} : PhaseOf(s)' = PhaseOf(s)
      BY <2>1, PhaseStays
    <3> QED
      BY <3>1, <3>2, PhasesStay
  <2>5. {CopyOf(q) : q \in acked}' = {CopyOf(q) : q \in acked} \cup {CopyOf(cur[r])}
    BY <2>1
  <2>6. UNCHANGED <<{CopyOf(q) : q \in sent}, {CopyOf(q) : q \in accepted}>>
    BY <2>1
  <2>7. CASE CopyOf(cur[r]) \in {CopyOf(q) : q \in acked}
    BY <2>4, <2>5, <2>6, <2>7 DEF Service!svars, Phases
  <2>8. CASE CopyOf(cur[r]) \notin {CopyOf(q) : q \in acked}
    <3>1. CopyOf(cur[r]) = <<r, cur[r].dom, cur[r].try>>
      BY <2>2 DEF CopyOf
    <3>2. CopyOf(cur[r]) \in {CopyOf(q) : q \in accepted}
      BY <2>1
    <3>3. PhaseOf(r) = "sending"
      BY <2>1, <2>2, PhaseRuns DEF Running
    <3>4. Service!Confirm(r, cur[r].dom, cur[r].try)
      BY <3>1, <3>2, <3>3, <2>4, <2>5, <2>6, <2>8 DEF Service!Confirm, Phases
    <3> QED
      BY <3>4, <2>2, <2>3 DEF Service!SNext
  <2> QED
    BY <2>7, <2>8
<1>7. ASSUME NEW r \in Request, PostFails(r) PROVE [Service!SNext]_(Service!svars)
  <2>1. /\ pc[r] = "await" /\ pc'[r] \in Running /\ UNCHANGED <<code, accepted, acked>>
        /\ \A s \in Request \ {r} : pc'[s] = pc[s]
    BY <1>7, <1>0 DEF PostFails, Return, TypeOK, Running
  <2>2. cur[r] \in sent /\ cur[r].req = r /\ cur[r].dom \in Host
    BY <2>1, <1>0 DEF Shape, TypeOK, Post
  <2>3. CASE cur[r].try = "https"
    <3> DEFINE p == Over(cur[r], "http")
    <3>1. p.req = r /\ p.dom = cur[r].dom /\ p.try = "http"
      BY <2>2 DEF Over
    <3>2. sent' = sent \cup {p}
      BY <1>7, <2>3 DEF PostFails
    <3> HIDE DEF p
    <3>3. p.try \in Tries
      <4>1. Current(r, env[r], cur[r], sent)
        BY <2>1, <1>a, TruthAwaits
      <4> QED
        BY <4>1, <2>3, <3>1 DEF Current, Tries
    <3>4. \A q \in acked : q.req = r => q.dom # p.dom
      BY <2>1, <3>1 DEF FreshInv
    <3>5. pc[r] \in Running
      BY <2>1 DEF Running
    <3> QED
      BY <2>1, <2>2, <3>1, <3>2, <3>3, <3>4, <3>5, SendStep
  <2>4. CASE cur[r].try # "https"
    <3>1. UNCHANGED network
      BY <1>7, <2>1, <2>4 DEF PostFails
    <3>2. pc[r] \in Running
      BY <2>1 DEF Running
    <3> QED
      BY <2>1, <3>1, <3>2, StutterRuns
  <2> QED
    BY <2>3, <2>4
<1>8. ASSUME NEW r \in Request, Reply(r) PROVE Service!SNext
  <2>1. /\ pc[r] = "reply" /\ pc'[r] \in {"done", "late"} /\ UNCHANGED <<code, network>>
        /\ \A s \in Request \ {r} : pc'[s] = pc[s]
    BY <1>8, <1>0 DEF Reply, TypeOK
  <2>2. /\ Known(r, env[r], results[r], sent, acked)
        /\ Answered(r, env[r], results[r], code[r], sent)
    BY <2>1, <1>a, TruthAnswered
  <2>3. PhaseOf(r) = IF \E p \in sent : p.req = r THEN "sending" ELSE "open"
    BY <2>1, PhaseRuns DEF Running
  <2>4. pc'[r] = "done" =>
          PhaseOf(r)' = IF code[r] = 200 THEN "ok" ELSE IF code[r] = 502 THEN "failed" ELSE "refused"
    BY <2>1, PhaseRestsNext
  <2>5. Phases' = [Phases EXCEPT ![r] = PhaseOf(r)']
    BY <2>1, PhaseStays, PhaseMoves
  <2>6. CASE pc'[r] = "late"
    <3>1. PhaseOf(r)' = "lost"
      BY <2>6, PhaseRestsNext
    <3>2. Phases[r] \in Service!Active
      BY <2>3 DEF Phases, Service!Active
    <3>3. Phases' = [Phases EXCEPT ![r] = "lost"]
      BY <2>5, <3>1
    <3>4. Service!Lose(r)
      BY <2>1, <3>2, <3>3 DEF Service!Lose, Phases
    <3> QED
      BY <3>4 DEF Service!SNext
  <2>7. CASE pc'[r] = "done" /\ code[r] \notin {200, 502} /\ \A p \in sent : p.req # r
    <3>1. PhaseOf(r)' = "refused"
      BY <2>4, <2>7
    <3>2. Phases[r] = "open"
      BY <2>3, <2>7 DEF Phases
    <3>3. Phases' = [Phases EXCEPT ![r] = "refused"]
      BY <2>5, <3>1
    <3>4. Service!Refuse(r)
      BY <2>1, <3>2, <3>3 DEF Service!Refuse, Phases
    <3> QED
      BY <3>4 DEF Service!SNext
  <2>8. CASE pc'[r] = "done" /\ code[r] = FinalCode(results[r]) /\ Complete(env[r], results[r])
    <3>1. /\ \E p \in sent : p.req = r
          /\ code[r] = 200 => \E d \in Host, t \in Tries : <<r, d, t>> \in {CopyOf(q) : q \in acked}
          /\ code[r] # 200 => code[r] = 502 /\ \A p \in acked : p.req # r
      BY <2>2, <2>8, AnswerMeans
    <3>2. Service!Confirmed(r) <=> code[r] = 200
      BY <3>1 DEF Service!Confirmed, CopyOf
    <3>3. Phases[r] = "sending"
      BY <3>1, <2>3 DEF Phases
    <3>4. PhaseOf(r)' = IF Service!Confirmed(r) THEN "ok" ELSE "failed"
      BY <2>8, <3>1, <3>2, <2>4
    <3>5. Service!Answer(r)
      BY <2>1, <2>5, <3>3, <3>4 DEF Service!Answer, Phases
    <3> QED
      BY <3>5 DEF Service!SNext
  <2> QED
    BY <2>1, <2>2, <2>6, <2>7, <2>8 DEF Answered
<1>9. ASSUME NEW p \in sent, Accept(p) PROVE Service!SNext \/ UNCHANGED Service!svars
  <2>1. accepted' = accepted \cup {p} /\ UNCHANGED <<pc, code, sent, acked>>
    BY <1>9 DEF Accept
  <2>2. Phases' = Phases
    BY <2>1, PhaseStays, PhasesStay
  <2>3. /\ {CopyOf(q) : q \in accepted}' = {CopyOf(q) : q \in accepted} \cup {CopyOf(p)}
        /\ UNCHANGED <<{CopyOf(q) : q \in sent}, {CopyOf(q) : q \in acked}>>
    BY <2>1
  <2>4. CASE CopyOf(p) \in {CopyOf(q) : q \in accepted}
    BY <2>2, <2>3, <2>4 DEF Service!svars, Phases
  <2>5. CASE CopyOf(p) \notin {CopyOf(q) : q \in accepted}
    <3>1. Service!Deliver(CopyOf(p))
      BY <2>2, <2>3, <2>5 DEF Service!Deliver, Phases
    <3>2. CopyOf(p) \in {CopyOf(q) : q \in sent}
      OBVIOUS
    <3> QED
      BY <3>1, <3>2 DEF Service!SNext
  <2> QED
    BY <2>4, <2>5
<1>10. CASE Admin
  <2>1. UNCHANGED <<pc, code, network>>
    BY <1>10, <1>0, AdminType DEF TypeOK
  <2> QED
    BY <2>1, PhaseStays, Stutter
<1>11. CASE CrashRestart
  <2>1. UNCHANGED <<code, network>>
    BY <1>11 DEF CrashRestart
  <2>2. ASSUME NEW r \in Request
        PROVE  PhaseOf(r)' = IF PhaseOf(r) \in {"open", "sending"} THEN "lost" ELSE PhaseOf(r)
    <3>1. CASE pc[r] \in Running
      <4>1. pc'[r] = "lost"
        BY <1>11, <3>1 DEF CrashRestart
      <4> QED
        BY <3>1, <4>1, PhaseRuns, PhaseRestsNext
    <3>2. CASE pc[r] \in {"idle", "done", "late", "lost"}
      <4>1. pc'[r] = pc[r]
        BY <1>11, <3>2 DEF CrashRestart, Running, Undecided
      <4>2. PhaseOf(r) \notin {"open", "sending"}
        BY <3>2, PhaseRests
      <4> QED
        BY <2>1, <4>1, <4>2, PhaseStays
    <3> QED
      BY <1>0, <3>1, <3>2 DEF TypeOK
  <2>3. Service!Crash
    BY <2>1, <2>2 DEF Service!Crash, Service!Active
  <2> QED
    BY <2>3 DEF Service!SNext
<1>12. CASE UNCHANGED vars
  BY <1>12, PhaseStays, Stutter
<1> QED
  BY <1>1, <1>2, <1>3, <1>4, <1>5, <1>6, <1>7, <1>8, <1>9, <1>10, <1>11, <1>12
  DEF Next, Handle

\* The relay implements the service: refusals precede every copy, an answer says
\* whether a copy was confirmed, and what is lost is answers and nothing else.
THEOREM ServiceCorrect == Spec => ImplementsService
BY TypeInit, TypeStep, CopyInit, CopyStep, AnswerInit, AnswerStep, FreshInit, FreshStep,
   ServiceInit, ServiceStep, PTL DEF Spec, ImplementsService, Service!SSpec
=============================================================================
