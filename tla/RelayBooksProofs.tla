--------------------------- MODULE RelayBooksProofs ---------------------------
(***************************************************************************)
(* The counters of the relay: theorems about Relay for any finite number   *)
(* of requests, peers and hosts, and any messages, rules, faults, crashes. *)
(*                                                                         *)
(* A counter is compared with the cardinality of a list, a set that is     *)
(* defined from where the handlers stand; a step that bumps the one adds   *)
(* to the other.  Sums over functions are cardinalities too: SumOfCounts   *)
(* turns them into sets of pairs.                                          *)
(***************************************************************************)
EXTENDS RelayAnswerProofs, FiniteSetTheorems

-----------------------------------------------------------------------------
(* Sums and counting                                                       *)

\* Induction over a finite set: a set W of subsets of S that has the empty one,
\* and every other that it has without some element, has S itself.
LEMMA FiniteSetInduction ==
  ASSUME NEW S, IsFiniteSet(S), NEW W, {} \in W,
         \A T \in SUBSET S : T # {} => \E x \in T : T \ {x} \in W => T \in W
  PROVE  S \in W
<1> DEFINE Bad == {T \in SUBSET S : T \notin W}
<1>1. SUFFICES ASSUME Bad # {} PROVE FALSE
  OBVIOUS
<1>2. IsWellFoundedOn(StrictSubsetOrdering(S), FiniteSubsetsOf(S))
  BY FS_StrictSubsetOrderingWellFounded
<1>3. Bad \subseteq FiniteSubsetsOf(S)
  BY FS_Subset DEF FiniteSubsetsOf
<1> HIDE DEF Bad
<1>4. PICK T \in Bad : \A U \in Bad : ~(<<U, T>> \in StrictSubsetOrdering(S))
  BY <1>1, <1>2, <1>3, WFMin
<1> USE DEF Bad
<1>5. PICK x \in T : T \ {x} \notin W
  OBVIOUS
<1>6. <<T \ {x}, T>> \in StrictSubsetOrdering(S)
  BY DEF StrictSubsetOrdering
<1> QED
  BY <1>4, <1>5, <1>6

\* The elements of the sets A[x], told apart by x.
Pairs(S, A) == {z \in S \X Nat : z[2] \in A[z[1]]}

\* How many pairs one more set contributes.
LEMMA PairsOfOneMore ==
  ASSUME NEW T, NEW x \in T, NEW A, A[x] \subseteq Nat,
         IsFiniteSet(A[x]), IsFiniteSet(Pairs(T \ {x}, A))
  PROVE  /\ IsFiniteSet(Pairs(T, A))
         /\ Cardinality(Pairs(T, A)) = Cardinality(A[x]) + Cardinality(Pairs(T \ {x}, A))
<1> DEFINE f == [n \in A[x] |-> <<x, n>>]
           I == {<<x, n>> : n \in A[x]}
<1>1. f \in Bijection(A[x], I)
  BY DEF Bijection, Injection, Surjection, IsInjective
<1>2. IsFiniteSet(I) /\ Cardinality(I) = Cardinality(A[x])
  BY <1>1, FS_Bijection DEF ExistsBijection
<1>3. Pairs(T, A) = I \cup Pairs(T \ {x}, A)
  BY DEF Pairs
<1>4. I \cap Pairs(T \ {x}, A) = {}
  BY DEF Pairs
<1> HIDE DEF I
<1>5. Cardinality(I \cap Pairs(T \ {x}, A)) = 0
  BY <1>4, FS_EmptySet
<1>6. Cardinality(I) \in Nat /\ Cardinality(Pairs(T \ {x}, A)) \in Nat
  BY <1>2, FS_CardinalityType
<1>7. /\ IsFiniteSet(I \cup Pairs(T \ {x}, A))
      /\ Cardinality(I \cup Pairs(T \ {x}, A))
           = Cardinality(I) + Cardinality(Pairs(T \ {x}, A)) - Cardinality(I \cap Pairs(T \ {x}, A))
  BY <1>2, FS_Union
<1> QED
  BY <1>2, <1>3, <1>5, <1>6, <1>7

\* Of finitely many finite sets there are finitely many pairs.
LEMMA PairsFinite ==
  ASSUME NEW S, IsFiniteSet(S), NEW A \in [S -> SUBSET Nat], \A x \in S : IsFiniteSet(A[x])
  PROVE  IsFiniteSet(Pairs(S, A))
<1> DEFINE W == {T \in SUBSET S : IsFiniteSet(Pairs(T, A))}
<1>1. {} \in W
  BY FS_EmptySet DEF Pairs
<1>2. \A T \in SUBSET S : \A x \in T : T \ {x} \in W => T \in W
  BY PairsOfOneMore
<1>3. \A T \in SUBSET S : T # {} => \E x \in T : T \ {x} \in W => T \in W
  BY <1>2
<1>4. S \in W
  <2> HIDE DEF W
  <2> QED BY <1>1, <1>3, FiniteSetInduction
<1> QED
  BY <1>4

\* The sum of the sizes of finite sets is the number of pairs.  The fold that
\* SumFunction is defined by is a recursive function; that there is one follows
\* from the counts themselves being one.
LEMMA SumOfCounts ==
  ASSUME NEW S, IsFiniteSet(S), NEW A \in [S -> SUBSET Nat], \A x \in S : IsFiniteSet(A[x]),
         NEW f, f = [x \in S |-> Cardinality(A[x])]
  PROVE  SumFunction(f) = Cardinality(Pairs(S, A))
<1>0. ASSUME NEW s \in SUBSET S, NEW x \in s, IsFiniteSet(Pairs(s \ {x}, A))
      PROVE  Cardinality(Pairs(s, A)) = Cardinality(A[x]) + Cardinality(Pairs(s \ {x}, A))
  <2>1. IsFiniteSet(A[x]) /\ A[x] \subseteq Nat
    OBVIOUS
  <2> QED
    BY <1>0, <2>1, PairsOfOneMore
<1> DEFINE pick(s) == CHOOSE x \in s : TRUE
           Eqn(g) == [s \in SUBSET S |-> IF s = {} THEN 0 ELSE f[pick(s)] + g[s \ {pick(s)}]]
           sum == CHOOSE g : g = Eqn(g)
           count == [s \in SUBSET S |-> Cardinality(Pairs(s, A))]
<1>1. SumFunction(f) = sum[S]
  BY DEF SumFunction, SumFunctionOnSet, FoldFunctionOnSet, MapThenFoldSet
<1>2. \A s \in SUBSET S : s # {} => pick(s) \in s /\ pick(s) \in S
  OBVIOUS
<1> HIDE DEF pick
<1>3. count = Eqn(count)
  <2> SUFFICES ASSUME NEW s \in SUBSET S
               PROVE  count[s] = IF s = {} THEN 0 ELSE f[pick(s)] + count[s \ {pick(s)}]
    OBVIOUS
  <2>1. CASE s = {}
    BY <2>1, FS_EmptySet DEF Pairs
  <2>2. CASE s # {}
    <3>1. IsFiniteSet(Pairs(s \ {pick(s)}, A))
      <4>1. IsFiniteSet(s \ {pick(s)})
        BY FS_Subset
      <4>2. Pairs(s \ {pick(s)}, A) = Pairs(s \ {pick(s)}, [x \in s \ {pick(s)} |-> A[x]])
        BY DEF Pairs
      <4> QED
        BY <4>1, <4>2, PairsFinite
    <3>2. pick(s) \in s /\ pick(s) \in S
      BY <2>2, <1>2
    <3>3. Cardinality(Pairs(s, A))
            = Cardinality(A[pick(s)]) + Cardinality(Pairs(s \ {pick(s)}, A))
      BY <1>0, <3>1, <3>2
    <3> QED
      BY <2>2, <3>2, <3>3
  <2> QED
    BY <2>1, <2>2
<1>4. sum = Eqn(sum)
  <2> HIDE DEF count, Eqn
  <2> QED BY <1>3
<1> DEFINE W == {T \in SUBSET S : sum[T] = count[T]}
<1> HIDE DEF sum, count
<1>5. \A T \in SUBSET S : T # {} => sum[T] = f[pick(T)] + sum[T \ {pick(T)}]
  <2>1. \A T \in SUBSET S : sum[T] = Eqn(sum)[T]
    <3> HIDE DEF Eqn
    <3> QED BY <1>4
  <2> QED
    BY <2>1
<1>6. \A T \in SUBSET S : T # {} => count[T] = f[pick(T)] + count[T \ {pick(T)}]
  <2>1. \A T \in SUBSET S : count[T] = Eqn(count)[T]
    <3> HIDE DEF Eqn
    <3> QED BY <1>3
  <2> QED
    BY <2>1
<1>7. {} \in W
  <2>1. \A T \in SUBSET S : T = {} => sum[T] = 0 /\ count[T] = 0
    <3>1. Eqn(sum)[{}] = 0 /\ Eqn(count)[{}] = 0
      OBVIOUS
    <3> HIDE DEF Eqn
    <3> QED BY <1>3, <1>4, <3>1
  <2> QED
    BY <2>1
<1>8. \A T \in SUBSET S : T # {} => \E x \in T : T \ {x} \in W => T \in W
  <2> SUFFICES ASSUME NEW T \in SUBSET S, T # {}
               PROVE  T \ {pick(T)} \in W => T \in W
    BY <1>2
  <2> QED
    BY <1>5, <1>6
<1>9. S \in W
  <2> HIDE DEF W
  <2> QED BY <1>7, <1>8, FiniteSetInduction
<1>10. count[S] = Cardinality(Pairs(S, A))
  BY DEF count
<1> QED
  BY <1>1, <1>9, <1>10

\* Counting one thing more adds one to the sum of the counts.
LEMMA SumBump ==
  ASSUME NEW S, IsFiniteSet(S), NEW f \in [S -> Nat], NEW x \in S
  PROVE  SumFunction([f EXCEPT ![x] = @ + 1]) = SumFunction(f) + 1
<1> DEFINE A(g) == [y \in S |-> 1 .. g[y]]
           h == [f EXCEPT ![x] = @ + 1]
<1>1. ASSUME NEW g \in [S -> Nat]
      PROVE  /\ A(g) \in [S -> SUBSET Nat] /\ IsFiniteSet(Pairs(S, A(g)))
             /\ SumFunction(g) = Cardinality(Pairs(S, A(g)))
  <2>1. \A y \in S : IsFiniteSet(A(g)[y]) /\ Cardinality(A(g)[y]) = g[y]
    BY FS_Interval
  <2>2. A(g) \in [S -> SUBSET Nat]
    OBVIOUS
  <2>3. g = [y \in S |-> Cardinality(A(g)[y])]
    BY <2>1
  <2> HIDE DEF A
  <2>4. SumFunction(g) = Cardinality(Pairs(S, A(g)))
    BY <2>1, <2>2, <2>3, SumOfCounts
  <2> QED
    BY <2>1, <2>2, <2>4, PairsFinite
<1>2. h \in [S -> Nat] /\ h[x] = f[x] + 1 /\ \A y \in S \ {x} : h[y] = f[y]
  OBVIOUS
<1> HIDE DEF h
<1>3. Pairs(S, A(h)) = Pairs(S, A(f)) \cup {<<x, f[x] + 1>>}
  BY <1>2 DEF Pairs
<1>4. <<x, f[x] + 1>> \notin Pairs(S, A(f))
  BY DEF Pairs
<1> HIDE DEF A
<1>5. Cardinality(Pairs(S, A(h))) = Cardinality(Pairs(S, A(f))) + 1
  BY <1>1, <1>3, <1>4, FS_AddElement
<1>6. SumFunction(h) = SumFunction(f) + 1
  BY <1>1, <1>2, <1>5
<1> QED
  BY <1>6 DEF h

\* The sum of zeros.
LEMMA SumZero ==
  ASSUME NEW S, IsFiniteSet(S)
  PROVE  SumFunction([x \in S |-> 0]) = 0
<1> DEFINE A == [x \in S |-> {}]
<1>1. /\ A \in [S -> SUBSET Nat] /\ \A x \in S : IsFiniteSet(A[x])
      /\ [x \in S |-> 0] = [x \in S |-> Cardinality(A[x])]
      /\ Pairs(S, A) = {}
  BY FS_EmptySet DEF Pairs
<1> HIDE DEF A
<1>2. SumFunction([x \in S |-> 0]) = Cardinality(Pairs(S, A))
  BY <1>1, SumOfCounts
<1> QED
  BY <1>1, <1>2, FS_EmptySet

-----------------------------------------------------------------------------
(* Where a handler stands in its results                                   *)

\* The refusals that are recorded as rejections, and those that are not.
Rejections == {400, 403, 413}
Refusals   == Rejections \cup {405, 500}

\* What a handler has recorded and the code it chose, at each of its places.
Tally(at, n, res, c) ==
  /\ n <= Len(res)
  /\ at \in Before \cup {"choose", "await"} => n = 0
  /\ at = "relayed" => n < Len(res) /\ res[n + 1].ok
  /\ at = "failed" => n < Len(res) /\ ~res[n + 1].ok
  /\ at \in {"reply", "done", "late"} => n = Len(res)
  /\ at = "deny" => c \in Rejections
  /\ at = "fail" => c \in Refusals
  /\ at \in {"reply", "done", "late"} => c \in Refusals \cup {200, 502}

\* A group that has a result is neither waiting nor posted, nor has it another.
OneEach(at, groups, p, res) ==
  /\ \A i, j \in DOMAIN res : res[i].dom = res[j].dom => i = j
  /\ \A i \in DOMAIN res : res[i].dom \notin groups
  /\ at = "await" => \A i \in DOMAIN res : res[i].dom # p.dom

\* What is true of every handler; none is lost but in a crash.
TallyInv ==
  \A r \in Request :
    /\ Tally(pc[r], tallied[r], results[r], code[r])
    /\ OneEach(pc[r], todo[r], cur[r], results[r])
    /\ pc[r] = "lost" => crashes > 0

\* A handler that has not begun to post has no results.
LEMMA NoResultYet ==
  ASSUME AnswerInv, NEW r \in Request, pc[r] \in Before
  PROVE  results[r] = <<>>
BY DEF AnswerInv, Truth

\* A step of one handler needs a look at that handler only.
LEMMA TallyOneHandler ==
  ASSUME TallyInv, NEW r \in Request,
         \A s \in Request \ {r} :
           /\ pc'[s] = pc[s] /\ tallied'[s] = tallied[s] /\ results'[s] = results[s]
           /\ code'[s] = code[s] /\ todo'[s] = todo[s] /\ cur'[s] = cur[s],
         crashes' = crashes, pc'[r] # "lost",
         Tally(pc'[r], tallied'[r], results'[r], code'[r]),
         OneEach(pc'[r], todo'[r], cur'[r], results'[r])
  PROVE  TallyInv'
<1> SUFFICES ASSUME NEW s \in Request, s # r
             PROVE  /\ Tally(pc'[s], tallied'[s], results'[s], code'[s])
                    /\ OneEach(pc'[s], todo'[s], cur'[s], results'[s])
                    /\ pc'[s] = "lost" => crashes' > 0
  BY DEF TallyInv
<1> QED
  BY DEF TallyInv

\* What a new result changes.
LEMMA OneEachReturn ==
  ASSUME NEW groups, NEW p, NEW ok, NEW res \in Seq(Result), NEW q,
         OneEach("await", groups, p, res), p.dom \notin groups
  PROVE  OneEach("choose", groups, q, Append(res, [dom |-> p.dom, ok |-> ok]))
<1> DEFINE new == Append(res, [dom |-> p.dom, ok |-> ok])
<1>1. /\ DOMAIN new = 1 .. Len(res) + 1 /\ DOMAIN res = 1 .. Len(res) /\ Len(res) \in Nat
      /\ \A i \in DOMAIN res : new[i] = res[i]
      /\ new[Len(res) + 1].dom = p.dom
  OBVIOUS
<1> HIDE DEF new
<1>2. \A i \in DOMAIN new : i \in DOMAIN res \/ i = Len(res) + 1
  BY <1>1
<1>3. \A i \in DOMAIN res : res[i].dom # p.dom
  BY DEF OneEach
<1>4. \A i, j \in DOMAIN new : new[i].dom = new[j].dom => i = j
  <2> SUFFICES ASSUME NEW i \in DOMAIN new, NEW j \in DOMAIN new, new[i].dom = new[j].dom
               PROVE  i = j
    OBVIOUS
  <2> QED
    BY <1>1, <1>2, <1>3 DEF OneEach
<1>5. \A i \in DOMAIN new : new[i].dom \notin groups
  BY <1>1, <1>2 DEF OneEach
<1>6. OneEach("choose", groups, q, new)
  BY <1>4, <1>5 DEF OneEach
<1> QED
  BY <1>6 DEF new

\* No handler has recorded anything.
LEMMA TallyInit == Init => TallyInv
BY DEF Init, TallyInv, Tally, OneEach, Before

\* Every step keeps it.
LEMMA TallyStep == TypeInv /\ CopyInv /\ AnswerInv /\ TallyInv /\ [Next]_vars => TallyInv'
<1> SUFFICES ASSUME TypeInv, CopyInv, AnswerInv, TallyInv, [Next]_vars PROVE TallyInv'
  OBVIOUS
<1> USE DEF TypeInv, config, mem, stats, database, locals, network, history, vars
<1>0. ASSUME NEW r \in Request
      PROVE  /\ Tally(pc[r], tallied[r], results[r], code[r])
             /\ OneEach(pc[r], todo[r], cur[r], results[r])
             /\ results[r] \in Seq(Result) /\ Len(results[r]) \in Nat
  BY DEF TallyInv, TypeOK
\* A step of a handler that has no results, before it posts.
<1>b. ASSUME NEW r \in Request, pc[r] \in Before, pc'[r] \in Before \cup {"choose"},
             \A s \in Request \ {r} : pc'[s] = pc[s] /\ code'[s] = code[s] /\ todo'[s] = todo[s],
             UNCHANGED <<cur, results, tallied, crashes>>,
             pc'[r] = "deny" => code'[r] \in Rejections,
             pc'[r] = "fail" => code'[r] \in Refusals
      PROVE  TallyInv'
  <2>1. results[r] = <<>> /\ tallied[r] = 0
    BY <1>b, <1>0, NoResultYet DEF Tally
  <2>2. Tally(pc'[r], tallied'[r], results'[r], code'[r])
    BY <2>1, <1>b DEF Tally, Before
  <2>3. OneEach(pc'[r], todo'[r], cur'[r], results'[r])
    BY <2>1, <1>b DEF OneEach, Before
  <2> QED
    BY <1>b, <2>2, <2>3, TallyOneHandler DEF Before
<1>1. ASSUME NEW r \in Request, Arrive(r) PROVE TallyInv'
  BY <1>1, <1>b DEF Arrive, TypeOK, Before
<1>2. ASSUME NEW r \in Request, Check(r) PROVE TallyInv'
  BY <1>2, <1>b DEF Check, Verdict, TypeOK, Before, Rejections, Refusals
<1>3. ASSUME NEW r \in Request, ReadMode(r) PROVE TallyInv'
  BY <1>3, <1>b DEF ReadMode, TypeOK, Before
<1>4. ASSUME NEW r \in Request, ListFilters(r) PROVE TallyInv'
  <2>1. /\ pc[r] = "filter"
        /\ pc'[r] = "rules" \/ (pc'[r] = "deny" /\ code'[r] = 403)
        /\ UNCHANGED <<todo, cur, results, tallied, crashes>>
        /\ \A s \in Request \ {r} : pc'[s] = pc[s] /\ code'[s] = code[s]
    BY <1>4 DEF ListFilters, TypeOK
  <2> QED
    BY <2>1, <1>b DEF Before, Rejections
<1>5. ASSUME NEW r \in Request, RecordRejected(r) PROVE TallyInv'
  <2>1. code[r] \in Refusals
    BY <1>5, <1>0 DEF RecordRejected, Tally, Refusals
  <2> QED
    BY <1>5, <2>1, <1>b DEF RecordRejected, TypeOK, Before
<1>6. ASSUME NEW r \in Request, CountRefusal(r) PROVE TallyInv'
  <2>1. /\ pc[r] = "fail" /\ pc'[r] = "reply"
        /\ UNCHANGED <<todo, cur, results, tallied, code, crashes>>
        /\ \A s \in Request \ {r} : pc'[s] = pc[s]
    BY <1>6 DEF CountRefusal, TypeOK
  <2>2. results[r] = <<>> /\ tallied[r] = 0 /\ code[r] \in Refusals
    BY <2>1, <1>0, NoResultYet DEF Tally, Before
  <2>3. Tally(pc'[r], tallied[r], results[r], code[r]) /\ OneEach(pc'[r], todo[r], cur[r], results[r])
    BY <2>1, <2>2 DEF Tally, OneEach, Before
  <2> QED
    BY <2>1, <2>3, TallyOneHandler
<1>7. ASSUME NEW r \in Request, LoadRules(r) PROVE TallyInv'
  BY <1>7, <1>b DEF LoadRules, TypeOK, Before
<1>8. ASSUME NEW r \in Request, ApplyRule(r) PROVE TallyInv'
  BY <1>8 DEF ApplyRule, TallyInv
<1>9. ASSUME NEW r \in Request, StartForward(r) PROVE TallyInv'
  BY <1>9, <1>b DEF StartForward, TypeOK, Before
<1>10. ASSUME NEW r \in Request, SendFirst(r) PROVE TallyInv'
  <2>1. PICK d \in todo[r] :
          /\ todo' = [todo EXCEPT ![r] = @ \ {d}]
          /\ cur' = [cur EXCEPT ![r] = PostOf(r, d, FirstTry)]
    BY <1>10 DEF SendFirst
  <2>2. /\ pc[r] = "choose" /\ pc'[r] = "await" /\ UNCHANGED <<results, tallied, code, crashes>>
        /\ todo'[r] = todo[r] \ {d} /\ cur'[r].dom = d
        /\ \A s \in Request \ {r} : pc'[s] = pc[s] /\ todo'[s] = todo[s] /\ cur'[s] = cur[s]
    BY <1>10, <2>1 DEF SendFirst, TypeOK, PostOf
  <2>3. Tally(pc'[r], tallied[r], results[r], code[r])
    BY <2>2, <1>0 DEF Tally, Before
  <2>4. OneEach(pc'[r], todo'[r], cur'[r], results[r])
    BY <2>2, <1>0 DEF OneEach
  <2> QED
    BY <2>2, <2>3, <2>4, TallyOneHandler
\* A post returns.
<1>c. ASSUME NEW r \in Request, NEW ok \in BOOLEAN, pc[r] = "await", Return(r, ok),
             UNCHANGED <<todo, tallied, code, crashes>>
      PROVE  TallyInv'
  <2>1. /\ pc'[r] = "choose"
        /\ results'[r] = Append(results[r], [dom |-> cur[r].dom, ok |-> ok])
        /\ \A s \in Request \ {r} : pc'[s] = pc[s] /\ cur'[s] = cur[s] /\ results'[s] = results[s]
    BY <1>c DEF Return, TypeOK
  <2>2. cur[r].dom \notin todo[r]
    BY <1>c DEF CopyInv, Shape
  <2>3. OneEach("choose", todo[r], cur'[r], results'[r])
    <3>1. OneEach("await", todo[r], cur[r], results[r]) /\ results[r] \in Seq(Result)
      BY <1>c, <1>0
    <3>2. OneEach("choose", todo[r], cur'[r],
                  Append(results[r], [dom |-> cur[r].dom, ok |-> ok]))
      BY <2>2, <3>1, OneEachReturn
    <3> QED
      BY <2>1, <3>2
  <2>4. tallied[r] = 0 /\ Len(results'[r]) \in Nat
    BY <1>c, <1>0, <2>1 DEF Tally
  <2>5. Tally("choose", tallied[r], results'[r], code[r])
    BY <2>4 DEF Tally, Before
  <2> QED
    BY <1>c, <2>1, <2>3, <2>5, TallyOneHandler
<1>11. ASSUME NEW r \in Request, PostSucceeds(r) PROVE TallyInv'
  BY <1>11, <1>c DEF PostSucceeds
<1>12. ASSUME NEW r \in Request, PostFails(r) PROVE TallyInv'
  <2>1. pc[r] = "await" /\ UNCHANGED <<todo, tallied, code, crashes>>
    BY <1>12 DEF PostFails
  <2>2. CASE cur[r].try = "https"
    <3>1. /\ UNCHANGED <<pc, results>> /\ cur'[r].dom = cur[r].dom
          /\ \A s \in Request \ {r} : cur'[s] = cur[s]
      BY <1>12, <2>2 DEF PostFails, TypeOK, Over
    <3>2. OneEach(pc[r], todo[r], cur'[r], results[r])
      BY <3>1, <1>0 DEF OneEach
    <3> QED
      BY <2>1, <3>1, <3>2, <1>0, TallyOneHandler
  <2>3. CASE cur[r].try # "https"
    <3>1. Return(r, FALSE)
      BY <1>12, <2>3 DEF PostFails
    <3> QED
      BY <2>1, <3>1, <1>c
  <2> QED
    BY <2>2, <2>3
\* A step of the tally.
<1>d. ASSUME NEW r \in Request, pc[r] \in {"choose", "tally", "relayed", "failed"},
             pc'[r] \in {"tally", "relayed", "failed"},
             UNCHANGED <<results, todo, cur, code, crashes>>,
             \A s \in Request \ {r} : pc'[s] = pc[s] /\ tallied'[s] = tallied[s],
             tallied'[r] <= Len(results[r]),
             pc'[r] = "relayed" => tallied'[r] < Len(results[r]) /\ results[r][tallied'[r] + 1].ok,
             pc'[r] = "failed" => tallied'[r] < Len(results[r]) /\ ~results[r][tallied'[r] + 1].ok
      PROVE  TallyInv'
  <2>1. Tally(pc'[r], tallied'[r], results[r], code[r])
    BY <1>d DEF Tally, Before
  <2>2. OneEach(pc'[r], todo[r], cur[r], results[r])
    BY <1>d, <1>0 DEF OneEach
  <2> QED
    BY <1>d, <2>1, <2>2, TallyOneHandler
<1>13. ASSUME NEW r \in Request, EndForward(r) PROVE TallyInv'
  <2>1. tallied[r] <= Len(results[r])
    BY <1>0 DEF Tally
  <2> QED
    BY <1>13, <2>1, <1>d DEF EndForward, TypeOK
<1>14. ASSUME NEW r \in Request, RecordError(r) PROVE TallyInv'
  BY <1>14, <1>0, <1>d DEF RecordError, NextResult, TypeOK, Tally
<1>15. ASSUME NEW r \in Request, CountError(r) PROVE TallyInv'
  <2>1. tallied[r] + 1 <= Len(results[r])
    BY <1>15, <1>0 DEF CountError, TypeOK, Tally
  <2> QED
    BY <1>15, <2>1, <1>d DEF CountError, TypeOK
<1>16. ASSUME NEW r \in Request, CountForwarded(r) PROVE TallyInv'
  BY <1>16, <1>0, <1>d DEF CountForwarded, NextResult, TypeOK, Tally
<1>17. ASSUME NEW r \in Request, RecordRelay(r) PROVE TallyInv'
  <2>1. tallied[r] + 1 <= Len(results[r])
    BY <1>17, <1>0 DEF RecordRelay, TypeOK, Tally
  <2> QED
    BY <1>17, <2>1, <1>d DEF RecordRelay, TypeOK
<1>18. ASSUME NEW r \in Request, ChooseStatus(r) PROVE TallyInv'
  <2>1. /\ pc[r] = "tally" /\ pc'[r] = "reply" /\ tallied[r] = Len(results[r])
        /\ code'[r] \in {200, 502}
        /\ UNCHANGED <<todo, cur, results, tallied, crashes>>
        /\ \A s \in Request \ {r} : pc'[s] = pc[s] /\ code'[s] = code[s]
    BY <1>18 DEF ChooseStatus, TypeOK, FinalCode
  <2>2. Tally(pc'[r], tallied[r], results[r], code'[r]) /\ OneEach(pc'[r], todo[r], cur[r], results[r])
    BY <2>1, <1>0 DEF Tally, OneEach, Before
  <2> QED
    BY <2>1, <2>2, TallyOneHandler
<1>19. ASSUME NEW r \in Request, Reply(r) PROVE TallyInv'
  <2>1. /\ pc[r] = "reply" /\ pc'[r] \in {"done", "late"}
        /\ UNCHANGED <<todo, cur, results, tallied, code, crashes>>
        /\ \A s \in Request \ {r} : pc'[s] = pc[s]
    BY <1>19 DEF Reply, TypeOK
  <2>2. Tally(pc'[r], tallied[r], results[r], code[r]) /\ OneEach(pc'[r], todo[r], cur[r], results[r])
    BY <2>1, <1>0 DEF Tally, OneEach, Before
  <2> QED
    BY <2>1, <2>2, TallyOneHandler
<1>20. ASSUME NEW p \in sent, Accept(p) PROVE TallyInv'
  BY <1>20 DEF Accept, TallyInv
<1>21. CASE Admin
  BY <1>21, AdminType DEF TypeOK, TallyInv
<1>22. CASE CrashRestart
  <2>1. /\ UNCHANGED <<todo, cur, results, tallied, code>> /\ crashes' > 0
        /\ \A r \in Request : pc'[r] = pc[r] \/ pc'[r] = "lost"
    BY <1>22 DEF CrashRestart, TypeOK
  <2>2. ASSUME NEW r \in Request
        PROVE  /\ Tally(pc'[r], tallied[r], results[r], code[r])
               /\ OneEach(pc'[r], todo[r], cur[r], results[r])
    <3>1. CASE pc'[r] = pc[r]
      BY <3>1, <1>0
    <3>2. CASE pc'[r] = "lost"
      BY <3>2, <1>0 DEF Tally, OneEach, Before
    <3> QED
      BY <2>1, <3>1, <3>2
  <2> QED
    BY <2>1, <2>2 DEF TallyInv
<1>23. CASE UNCHANGED vars
  BY <1>23 DEF TallyInv
<1> QED
  BY <1>1, <1>2, <1>3, <1>4, <1>5, <1>6, <1>7, <1>8, <1>9, <1>10, <1>11, <1>12,
     <1>13, <1>14, <1>15, <1>16, <1>17, <1>18, <1>19, <1>20, <1>21, <1>22, <1>23
  DEF Next, Handle

-----------------------------------------------------------------------------
(* What the counters count                                                 *)

\* Of the results of the requests, the good and the bad ones up to n.
GoodUpTo(res, n) == {z \in Request \X Nat :
                       z[2] \in DOMAIN res[z[1]] /\ z[2] <= n[z[1]] /\ res[z[1]][z[2]].ok}
BadUpTo(res, n)  == {z \in Request \X Nat :
                       z[2] \in DOMAIN res[z[1]] /\ z[2] <= n[z[1]] /\ ~res[z[1]][z[2]].ok}

\* How many results a handler has begun to record: the first counter of the
\* next one is up already while the handler stands, or died, between the two.
begun == [r \in Request |-> IF pc[r] \in {"relayed", "failed", "lost"}
                            THEN tallied[r] + 1 ELSE tallied[r]]

\* The lists of which the counters hold the lengths: good groups that were
\* recorded, and counted as forwarded; failed groups that were recorded, and
\* counted as errors; requests taken, recorded as rejected, counted as errors.
Relays    == GoodUpTo(results, tallied)
Forwards  == GoodUpTo(results, begun)
Failures  == BadUpTo(results, begun)
Errors    == BadUpTo(results, tallied)
Taken     == {r \in Request : pc[r] # "idle"}
Rejected  == {r \in Request : pc[r] \in {"fail", "reply", "done", "late"} /\ code[r] \in Rejections}
Refused   == {r \in Request : pc[r] \in {"reply", "done", "late"} /\ code[r] \in Refusals}

\* The route a good group is counted for.
Route(z) == <<msg[z[1]].peer, results[z[1]][z[2]].dom>>
OnRoute(k) == {z \in Relays : Route(z) = k}

\* There are finitely many results.
LEMMA UpToFinite ==
  ASSUME NEW res \in [Request -> Seq(Result)], NEW n
  PROVE  /\ IsFiniteSet(GoodUpTo(res, n)) /\ Cardinality(GoodUpTo(res, n)) \in Nat
         /\ IsFiniteSet(BadUpTo(res, n)) /\ Cardinality(BadUpTo(res, n)) \in Nat
<1> DEFINE A == [r \in Request |-> 1 .. Len(res[r])]
<1>1. A \in [Request -> SUBSET Nat] /\ \A r \in Request : IsFiniteSet(A[r])
  BY FS_Interval
<1>2. GoodUpTo(res, n) \subseteq Pairs(Request, A) /\ BadUpTo(res, n) \subseteq Pairs(Request, A)
  <2>1. \A r \in Request : DOMAIN res[r] = A[r]
    OBVIOUS
  <2> HIDE DEF A
  <2> QED
    BY <2>1 DEF GoodUpTo, BadUpTo, Pairs
<1> HIDE DEF A
<1>3. IsFiniteSet(Pairs(Request, A))
  BY <1>1, FiniteAssumption, PairsFinite
<1> QED
  BY <1>2, <1>3, FS_Subset, FS_CardinalityType

\* The list grows by x.
OneMore(x, list, new) == x \notin list /\ new = list \cup {x}

\* One result more of a request is a good one or a bad one more.
LEMMA UpToNext ==
  ASSUME NEW res, NEW n, NEW m, NEW r \in Request, \A s \in Request : n[s] \in Nat,
         n[r] + 1 \in DOMAIN res[r], m[r] = n[r] + 1, \A s \in Request \ {r} : m[s] = n[s]
  PROVE  /\ res[r][n[r] + 1].ok =>
              /\ OneMore(<<r, n[r] + 1>>, GoodUpTo(res, n), GoodUpTo(res, m))
              /\ BadUpTo(res, m) = BadUpTo(res, n)
         /\ ~res[r][n[r] + 1].ok =>
              /\ OneMore(<<r, n[r] + 1>>, BadUpTo(res, n), BadUpTo(res, m))
              /\ GoodUpTo(res, m) = GoodUpTo(res, n)
<1>2. \A z \in Request \X Nat :
        z[2] <= m[z[1]] <=> z[2] <= n[z[1]] \/ (z[1] = r /\ z[2] = n[r] + 1)
  OBVIOUS
<1>3. \A z \in Request \X Nat : z[1] = r /\ z[2] = n[r] + 1 <=> z = <<r, n[r] + 1>>
  OBVIOUS
<1>4. <<r, n[r] + 1>> \in Request \X Nat /\ ~(n[r] + 1 <= n[r])
  OBVIOUS
<1> QED
  BY <1>2, <1>3, <1>4 DEF GoodUpTo, BadUpTo, OneMore

\* A result beyond n is not among those up to n.
LEMMA UpToReturn ==
  ASSUME NEW res, NEW new, NEW n, NEW r \in Request, n[r] = 0,
         0 \notin DOMAIN new[r], 0 \notin DOMAIN res[r],
         \A s \in Request \ {r} : new[s] = res[s]
  PROVE  GoodUpTo(new, n) = GoodUpTo(res, n) /\ BadUpTo(new, n) = BadUpTo(res, n)
<1>1. \A z \in Request \X Nat : z[2] <= n[z[1]] =>
        /\ z[2] \in DOMAIN new[z[1]] <=> z[2] \in DOMAIN res[z[1]]
        /\ z[2] \in DOMAIN res[z[1]] => new[z[1]][z[2]] = res[z[1]][z[2]]
  OBVIOUS
<1> QED
  BY <1>1 DEF GoodUpTo, BadUpTo

-----------------------------------------------------------------------------
(* What a step of the relay does to the lists and to the counters          *)

\* What is recorded for a route stays recorded for that route.
RoutesKept == \A z \in Relays' : Route(z)' = Route(z)

\* Each kind of step, by the list that grows.  A statement that fails leaves
\* its counter behind.
Nothing ==
  UNCHANGED <<Taken, Rejected, Refused, Relays, Forwards, Failures, Errors,
              routes, stats, mem, crashes>>

TakeOne ==
  /\ \E r \in Request : OneMore(r, Taken, Taken')
  /\ received' = received + 1
  /\ UNCHANGED <<Rejected, Refused, Relays, Forwards, Failures, Errors,
                 routes, stats, forwarded, errors, crashes>>

RejectOne ==
  /\ \E r \in Request : OneMore(r, Rejected, Rejected')
  /\ totalRejected' = totalRejected + 1 \/ (Faults /\ UNCHANGED totalRejected)
  /\ UNCHANGED <<Taken, Refused, Relays, Forwards, Failures, Errors,
                 routes, totalRelayed, totalErrors, mem, crashes>>

RefuseOne ==
  /\ \E r \in Request : OneMore(r, Refused, Refused')
  /\ errors' = errors + 1
  /\ UNCHANGED <<Taken, Rejected, Relays, Forwards, Failures, Errors,
                 routes, stats, received, forwarded, crashes>>

FailOne ==
  /\ \E z : OneMore(z, Failures, Failures')
  /\ totalErrors' = totalErrors + 1 \/ (Faults /\ UNCHANGED totalErrors)
  /\ UNCHANGED <<Taken, Rejected, Refused, Relays, Forwards, Errors,
                 routes, totalRelayed, totalRejected, mem, crashes>>

ErrOne ==
  /\ \E z : OneMore(z, Errors, Errors')
  /\ errors' = errors + 1
  /\ UNCHANGED <<Taken, Rejected, Refused, Relays, Forwards, Failures,
                 routes, stats, received, forwarded, crashes>>

ForwardOne ==
  /\ \E z : OneMore(z, Forwards, Forwards')
  /\ forwarded' = forwarded + 1
  /\ UNCHANGED <<Taken, Rejected, Refused, Relays, Failures, Errors,
                 routes, stats, received, errors, crashes>>

RelayOne ==
  /\ \E z : /\ OneMore(z, Relays, Relays')
            /\ Route(z) \in Peer \X Host
            /\ \/ /\ routes' = [routes EXCEPT ![Route(z)] = @ + 1]
                  /\ totalRelayed' = totalRelayed + 1
               \/ Faults /\ UNCHANGED <<routes, totalRelayed>>
  /\ UNCHANGED <<Taken, Rejected, Refused, Forwards, Failures, Errors,
                 totalRejected, totalErrors, mem, crashes>>

\* A crash resets the counters in memory; of a failed group whose handler dies
\* it is not known any more whether it was recorded.
Die ==
  /\ crashes' = crashes + 1
  /\ Failures \subseteq Failures' /\ IsFiniteSet(Failures')
  /\ UNCHANGED <<Relays, routes, stats>>

\* A handler that begins to record a result: one more of its kind is begun.
LEMMA OneBegun ==
  ASSUME results \in [Request -> Seq(Result)], tallied \in [Request -> Nat],
         NEW r \in Request, tallied[r] < Len(results[r]), UNCHANGED <<results, tallied>>,
         pc[r] = "tally", pc'[r] \in {"relayed", "failed"},
         \A s \in Request \ {r} : pc'[s] = pc[s]
  PROVE  /\ results[r][tallied[r] + 1].ok =>
              (\E z : OneMore(z, Forwards, Forwards')) /\ UNCHANGED Failures
         /\ ~results[r][tallied[r] + 1].ok =>
              (\E z : OneMore(z, Failures, Failures')) /\ UNCHANGED Forwards
<1>1. /\ \A s \in Request : begun[s] \in Nat
      /\ begun[r] = tallied[r] /\ begun'[r] = begun[r] + 1
      /\ \A s \in Request \ {r} : begun'[s] = begun[s]
  BY DEF begun
<1>2. begun[r] + 1 \in DOMAIN results[r]
  BY <1>1
<1>3. /\ results[r][begun[r] + 1].ok =>
           /\ OneMore(<<r, begun[r] + 1>>, GoodUpTo(results, begun), GoodUpTo(results, begun'))
           /\ BadUpTo(results, begun') = BadUpTo(results, begun)
      /\ ~results[r][begun[r] + 1].ok =>
           /\ OneMore(<<r, begun[r] + 1>>, BadUpTo(results, begun), BadUpTo(results, begun'))
           /\ GoodUpTo(results, begun') = GoodUpTo(results, begun)
  BY <1>1, <1>2, UpToNext
<1> QED
  BY <1>1, <1>3 DEF Forwards, Failures

\* A handler that has recorded a result: one more of its kind is recorded.
LEMMA OneTallied ==
  ASSUME results \in [Request -> Seq(Result)], tallied \in [Request -> Nat],
         NEW r \in Request, tallied[r] < Len(results[r]), UNCHANGED results,
         tallied'[r] = tallied[r] + 1, \A s \in Request \ {r} : tallied'[s] = tallied[s]
  PROVE  /\ results[r][tallied[r] + 1].ok =>
              OneMore(<<r, tallied[r] + 1>>, Relays, Relays') /\ UNCHANGED Errors
         /\ ~results[r][tallied[r] + 1].ok =>
              (\E z : OneMore(z, Errors, Errors')) /\ UNCHANGED Relays
<1>1. tallied[r] + 1 \in DOMAIN results[r] /\ \A s \in Request : tallied[s] \in Nat
  OBVIOUS
<1>2. /\ results[r][tallied[r] + 1].ok =>
           /\ OneMore(<<r, tallied[r] + 1>>, GoodUpTo(results, tallied), GoodUpTo(results, tallied'))
           /\ BadUpTo(results, tallied') = BadUpTo(results, tallied)
      /\ ~results[r][tallied[r] + 1].ok =>
           /\ OneMore(<<r, tallied[r] + 1>>, BadUpTo(results, tallied), BadUpTo(results, tallied'))
           /\ GoodUpTo(results, tallied') = GoodUpTo(results, tallied)
  BY <1>1, UpToNext
<1> QED
  BY <1>2 DEF Relays, Errors

\* A handler that has recorded nothing gets one more result: the lists stay.
LEMMA OneReturned ==
  ASSUME results \in [Request -> Seq(Result)],
         NEW r \in Request, NEW x \in Result, results' = [results EXCEPT ![r] = Append(@, x)],
         UNCHANGED <<tallied, begun>>, tallied[r] = 0, begun[r] = 0
  PROVE  UNCHANGED <<Relays, Forwards, Failures, Errors>>
<1>1. /\ 0 \notin DOMAIN results[r] /\ 0 \notin DOMAIN results'[r]
      /\ \A s \in Request \ {r} : results'[s] = results[s]
  OBVIOUS
<1>2. GoodUpTo(results', tallied) = GoodUpTo(results, tallied)
      /\ BadUpTo(results', tallied) = BadUpTo(results, tallied)
  BY <1>1, UpToReturn
<1>3. GoodUpTo(results', begun) = GoodUpTo(results, begun)
      /\ BadUpTo(results', begun) = BadUpTo(results, begun)
  BY <1>1, UpToReturn
<1> QED
  BY <1>2, <1>3 DEF Relays, Forwards, Failures, Errors

\* What a step may do: add one to a list and to its counter, or nothing.
LedgerStep ==
  /\ RoutesKept
  /\ \/ Nothing \/ TakeOne \/ RejectOne \/ RefuseOne \/ FailOne \/ ErrOne
     \/ ForwardOne \/ RelayOne \/ Die

\* Every step of the relay is one of these.
LEMMA LedgerSteps ==
  TypeInv /\ AnswerInv /\ TallyInv /\ [Next]_vars => LedgerStep
<1> SUFFICES ASSUME TypeInv, AnswerInv, TallyInv, [Next]_vars PROVE LedgerStep
  OBVIOUS
<1> USE DEF TypeInv, config, mem, stats, database, locals, network, history, vars
<1>0. ASSUME NEW r \in Request
      PROVE  /\ Tally(pc[r], tallied[r], results[r], code[r])
             /\ results[r] \in Seq(Result) /\ Len(results[r]) \in Nat /\ tallied[r] \in Nat
  BY DEF TallyInv, TypeOK
<1>t. /\ results \in [Request -> Seq(Result)] /\ tallied \in [Request -> Nat]
      /\ begun \in [Request -> Nat]
      /\ \A r \in Request : begun[r] = IF pc[r] \in {"relayed", "failed", "lost"}
                                       THEN tallied[r] + 1 ELSE tallied[r]
  BY DEF TypeOK, begun
\* A step that leaves a handler where it is as far as the counters see.
<1>q. ASSUME NEW r \in Request, pc[r] # "idle", pc'[r] # "idle",
             \A s \in Request \ {r} : pc'[s] = pc[s] /\ code'[s] = code[s],
             UNCHANGED <<results, tallied, msg, routes, stats, mem, crashes>>,
             pc[r] \in {"relayed", "failed", "lost"} <=> pc'[r] \in {"relayed", "failed", "lost"},
             (r \in Rejected)' <=> r \in Rejected, (r \in Refused)' <=> r \in Refused
      PROVE  LedgerStep
  <2>1. begun' = begun
    BY <1>q DEF begun
  <2>2. UNCHANGED <<Taken, Rejected, Refused>>
    BY <1>q DEF Taken, Rejected, Refused
  <2>3. UNCHANGED <<Relays, Forwards, Failures, Errors>> /\ RoutesKept
    BY <1>q, <2>1 DEF Relays, Forwards, Failures, Errors, RoutesKept, Route
  <2> QED
    BY <1>q, <2>2, <2>3 DEF LedgerStep, Nothing
\* A step that touches nothing the lists are made of.
<1>n. ASSUME UNCHANGED <<pc, code, results, tallied, msg, routes, stats, mem, crashes>>
      PROVE  LedgerStep
  BY <1>n DEF LedgerStep, Nothing, RoutesKept, Route, begun, Relays, Forwards, Failures,
              Errors, Taken, Rejected, Refused
<1>1. ASSUME NEW r \in Request, Arrive(r) PROVE LedgerStep
  <2>1. /\ pc[r] = "idle" /\ pc'[r] = "start"
        /\ \A s \in Request \ {r} : pc'[s] = pc[s] /\ msg'[s] = msg[s]
        /\ UNCHANGED <<code, results, tallied, routes, stats, forwarded, errors, crashes>>
        /\ received' = received + 1
    BY <1>1 DEF Arrive, TypeOK
  <2>2. results[r] = <<>>
    BY <2>1, NoResultYet DEF Before
  <2>3. begun' = begun
    BY <2>1 DEF begun
  <2>4. UNCHANGED <<Relays, Forwards, Failures, Errors>>
    BY <2>1, <2>3 DEF Relays, Forwards, Failures, Errors
  <2>5. RoutesKept
    <3>1. \A z \in Relays' : z[1] \in Request \ {r}
      BY <2>1, <2>2 DEF Relays, GoodUpTo
    <3> QED
      BY <2>1, <3>1 DEF RoutesKept, Route
  <2>6. OneMore(r, Taken, Taken') /\ UNCHANGED <<Rejected, Refused>>
    BY <2>1 DEF OneMore, Taken, Rejected, Refused
  <2> QED
    BY <2>1, <2>4, <2>5, <2>6 DEF LedgerStep, TakeOne
<1>2. ASSUME NEW r \in Request, Check(r) PROVE LedgerStep
  <2>1. /\ pc[r] = "start" /\ pc'[r] \in {"deny", "fail", "policy"}
        /\ pc'[r] = "fail" => code'[r] \in {405, 500}
        /\ UNCHANGED <<results, tallied, msg, routes, stats, mem, crashes>>
        /\ \A s \in Request \ {r} : pc'[s] = pc[s] /\ code'[s] = code[s]
    BY <1>2 DEF Check, Verdict, TypeOK
  <2> QED
    BY <2>1, <1>q DEF Rejected, Refused, Rejections
<1>3. ASSUME NEW r \in Request, ReadMode(r) PROVE LedgerStep
  <2>1. /\ pc[r] = "policy" /\ pc'[r] \in {"filter", "rules"}
        /\ UNCHANGED <<code, results, tallied, msg, routes, stats, mem, crashes>>
        /\ \A s \in Request \ {r} : pc'[s] = pc[s]
    BY <1>3 DEF ReadMode, TypeOK
  <2> QED
    BY <2>1, <1>q DEF Rejected, Refused
<1>4. ASSUME NEW r \in Request, ListFilters(r) PROVE LedgerStep
  <2>1. /\ pc[r] = "filter" /\ pc'[r] \in {"rules", "deny"}
        /\ UNCHANGED <<results, tallied, msg, routes, stats, mem, crashes>>
        /\ \A s \in Request \ {r} : pc'[s] = pc[s] /\ code'[s] = code[s]
    BY <1>4 DEF ListFilters, TypeOK
  <2> QED
    BY <2>1, <1>q DEF Rejected, Refused
<1>5. ASSUME NEW r \in Request, RecordRejected(r) PROVE LedgerStep
  <2>1. /\ pc[r] = "deny" /\ pc'[r] = "fail" /\ \A s \in Request \ {r} : pc'[s] = pc[s]
        /\ UNCHANGED <<code, results, tallied, msg, routes, totalRelayed, totalErrors, mem, crashes>>
        /\ totalRejected' = totalRejected + 1 \/ (Faults /\ UNCHANGED totalRejected)
    BY <1>5 DEF RecordRejected, TypeOK
  <2>2. code[r] \in Rejections
    BY <2>1, <1>0 DEF Tally
  <2>3. begun' = begun
    BY <2>1 DEF begun
  <2>4. UNCHANGED <<Relays, Forwards, Failures, Errors>> /\ RoutesKept
    BY <2>1, <2>3 DEF Relays, Forwards, Failures, Errors, RoutesKept, Route
  <2>5. OneMore(r, Rejected, Rejected') /\ UNCHANGED <<Taken, Refused>>
    BY <2>1, <2>2 DEF OneMore, Taken, Rejected, Refused
  <2> QED
    BY <2>1, <2>4, <2>5 DEF LedgerStep, RejectOne
<1>6. ASSUME NEW r \in Request, CountRefusal(r) PROVE LedgerStep
  <2>1. /\ pc[r] = "fail" /\ pc'[r] = "reply" /\ \A s \in Request \ {r} : pc'[s] = pc[s]
        /\ UNCHANGED <<code, results, tallied, msg, routes, stats, received, forwarded, crashes>>
        /\ errors' = errors + 1
    BY <1>6 DEF CountRefusal, TypeOK
  <2>2. code[r] \in Refusals
    BY <2>1, <1>0 DEF Tally
  <2>3. begun' = begun
    BY <2>1 DEF begun
  <2>4. UNCHANGED <<Relays, Forwards, Failures, Errors>> /\ RoutesKept
    BY <2>1, <2>3 DEF Relays, Forwards, Failures, Errors, RoutesKept, Route
  <2>5. OneMore(r, Refused, Refused') /\ UNCHANGED <<Taken, Rejected>>
    BY <2>1, <2>2 DEF OneMore, Taken, Rejected, Refused
  <2> QED
    BY <2>1, <2>4, <2>5 DEF LedgerStep, RefuseOne
<1>7. ASSUME NEW r \in Request, LoadRules(r) PROVE LedgerStep
  <2>1. /\ pc[r] = "rules" /\ pc'[r] = "rewrite"
        /\ UNCHANGED <<code, results, tallied, msg, routes, stats, mem, crashes>>
        /\ \A s \in Request \ {r} : pc'[s] = pc[s]
    BY <1>7 DEF LoadRules, TypeOK
  <2> QED
    BY <2>1, <1>q DEF Rejected, Refused
<1>8. ASSUME NEW r \in Request, ApplyRule(r) PROVE LedgerStep
  BY <1>8, <1>n DEF ApplyRule
<1>9. ASSUME NEW r \in Request, StartForward(r) PROVE LedgerStep
  <2>1. /\ pc[r] = "rewrite" /\ pc'[r] = "choose"
        /\ UNCHANGED <<code, results, tallied, msg, routes, stats, mem, crashes>>
        /\ \A s \in Request \ {r} : pc'[s] = pc[s]
    BY <1>9 DEF StartForward, TypeOK
  <2> QED
    BY <2>1, <1>q DEF Rejected, Refused
<1>10. ASSUME NEW r \in Request, SendFirst(r) PROVE LedgerStep
  <2>1. /\ pc[r] = "choose" /\ pc'[r] = "await"
        /\ UNCHANGED <<code, results, tallied, msg, routes, stats, mem, crashes>>
        /\ \A s \in Request \ {r} : pc'[s] = pc[s]
    BY <1>10 DEF SendFirst, TypeOK
  <2> QED
    BY <2>1, <1>q DEF Rejected, Refused
\* A post returns: its result is beyond those that are counted.
<1>c. ASSUME NEW r \in Request, NEW ok \in BOOLEAN, pc[r] = "await", cur[r] \in Post,
             Return(r, ok),
             UNCHANGED <<code, tallied, msg, routes, stats, mem, crashes>>
      PROVE  LedgerStep
  <2> DEFINE x == [dom |-> cur[r].dom, ok |-> ok]
  <2>1. /\ results' = [results EXCEPT ![r] = Append(@, x)]
        /\ pc'[r] = "choose" /\ \A s \in Request \ {r} : pc'[s] = pc[s]
    BY <1>c DEF Return, TypeOK
  <2>2. x \in Result
    BY <1>c DEF Post, Result
  <2>3. begun' = begun
    BY <1>c, <2>1 DEF begun
  <2>4. tallied[r] = 0 /\ begun[r] = 0
    <3>1. pc[r] = "await" /\ Tally(pc[r], tallied[r], results[r], code[r])
      BY <1>c, <1>0
    <3>2. tallied[r] = 0
      BY <3>1 DEF Tally
    <3> QED
      BY <3>1, <3>2, <1>t
  <2> HIDE DEF x
  <2>6. UNCHANGED <<Relays, Forwards, Failures, Errors>>
    BY <1>c, <1>t, <2>1, <2>2, <2>3, <2>4, OneReturned
  <2>7. UNCHANGED <<Taken, Rejected, Refused>>
    BY <1>c, <2>1 DEF Taken, Rejected, Refused
  <2>8. RoutesKept
    <3>1. \A z \in Relays' : z[1] \in Request /\ z[2] \in DOMAIN results[z[1]]
      BY <2>6 DEF Relays, GoodUpTo
    <3>2. \A s \in Request : \A i \in DOMAIN results[s] : results'[s][i] = results[s][i]
      BY <1>t, <2>1
    <3> QED
      BY <1>c, <3>1, <3>2 DEF RoutesKept, Route
  <2> QED
    BY <1>c, <2>6, <2>7, <2>8 DEF LedgerStep, Nothing
<1>11. ASSUME NEW r \in Request, PostSucceeds(r) PROVE LedgerStep
  <2>1. pc[r] = "await" /\ Return(r, TRUE)
        /\ UNCHANGED <<code, tallied, msg, routes, stats, mem, crashes>>
    BY <1>11 DEF PostSucceeds
  <2>2. cur[r] \in Post
    BY <2>1 DEF TypeOK, Shape
  <2> QED
    BY <2>1, <2>2, <1>c
<1>12. ASSUME NEW r \in Request, PostFails(r) PROVE LedgerStep
  <2>1. pc[r] = "await" /\ UNCHANGED <<code, tallied, msg, routes, stats, mem, crashes>>
    BY <1>12 DEF PostFails
  <2>2. cur[r] \in Post
    BY <2>1 DEF TypeOK, Shape
  <2>3. CASE UNCHANGED <<pc, results>>
    BY <2>1, <2>3, <1>n
  <2>4. CASE Return(r, FALSE)
    BY <2>1, <2>2, <2>4, <1>c
  <2> QED
    BY <1>12, <2>3, <2>4 DEF PostFails
<1>13. ASSUME NEW r \in Request, EndForward(r) PROVE LedgerStep
  <2>1. /\ pc[r] = "choose" /\ pc'[r] = "tally"
        /\ UNCHANGED <<code, results, tallied, msg, routes, stats, mem, crashes>>
        /\ \A s \in Request \ {r} : pc'[s] = pc[s]
    BY <1>13 DEF EndForward, TypeOK
  <2> QED
    BY <2>1, <1>q DEF Rejected, Refused
<1>14. ASSUME NEW r \in Request, RecordError(r) PROVE LedgerStep
  <2>1. /\ pc[r] = "tally" /\ pc'[r] = "failed" /\ \A s \in Request \ {r} : pc'[s] = pc[s]
        /\ tallied[r] < Len(results[r]) /\ ~results[r][tallied[r] + 1].ok
        /\ UNCHANGED <<code, results, tallied, msg, routes, totalRelayed, totalRejected,
                       mem, crashes>>
        /\ totalErrors' = totalErrors + 1 \/ (Faults /\ UNCHANGED totalErrors)
    BY <1>14 DEF RecordError, NextResult, TypeOK
  <2>2. (\E z : OneMore(z, Failures, Failures')) /\ UNCHANGED Forwards
    BY <2>1, <1>t, OneBegun
  <2>4. UNCHANGED <<Relays, Errors>> /\ RoutesKept
    BY <2>1 DEF Relays, Errors, RoutesKept, Route
  <2>5. UNCHANGED <<Taken, Rejected, Refused>>
    BY <2>1 DEF Taken, Rejected, Refused
  <2> QED
    BY <2>1, <2>2, <2>4, <2>5 DEF LedgerStep, FailOne
<1>15. ASSUME NEW r \in Request, CountError(r) PROVE LedgerStep
  <2>1. /\ pc[r] = "failed" /\ pc'[r] = "tally" /\ \A s \in Request \ {r} : pc'[s] = pc[s]
        /\ tallied'[r] = tallied[r] + 1 /\ \A s \in Request \ {r} : tallied'[s] = tallied[s]
        /\ tallied' \in [Request -> Nat]
        /\ UNCHANGED <<code, results, msg, routes, stats, received, forwarded, crashes>>
        /\ errors' = errors + 1
    BY <1>15 DEF CountError, TypeOK
  <2>2. tallied[r] < Len(results[r]) /\ ~results[r][tallied[r] + 1].ok
    BY <2>1, <1>0 DEF Tally
  <2>3. begun' = begun
    BY <2>1, <1>t DEF begun
  <2>4. (\E z : OneMore(z, Errors, Errors')) /\ UNCHANGED Relays
    BY <2>1, <2>2, <1>t, OneTallied
  <2>5. UNCHANGED <<Forwards, Failures>> /\ RoutesKept
    BY <2>1, <2>3, <2>4 DEF Forwards, Failures, RoutesKept, Route
  <2>6. UNCHANGED <<Taken, Rejected, Refused>>
    BY <2>1 DEF Taken, Rejected, Refused
  <2> QED
    BY <2>1, <2>4, <2>5, <2>6 DEF LedgerStep, ErrOne
<1>16. ASSUME NEW r \in Request, CountForwarded(r) PROVE LedgerStep
  <2>1. /\ pc[r] = "tally" /\ pc'[r] = "relayed" /\ \A s \in Request \ {r} : pc'[s] = pc[s]
        /\ tallied[r] < Len(results[r]) /\ results[r][tallied[r] + 1].ok
        /\ UNCHANGED <<code, results, tallied, msg, routes, stats, received, errors, crashes>>
        /\ forwarded' = forwarded + 1
    BY <1>16 DEF CountForwarded, NextResult, TypeOK
  <2>2. (\E z : OneMore(z, Forwards, Forwards')) /\ UNCHANGED Failures
    BY <2>1, <1>t, OneBegun
  <2>4. UNCHANGED <<Relays, Errors>> /\ RoutesKept
    BY <2>1 DEF Relays, Errors, RoutesKept, Route
  <2>5. UNCHANGED <<Taken, Rejected, Refused>>
    BY <2>1 DEF Taken, Rejected, Refused
  <2> QED
    BY <2>1, <2>2, <2>4, <2>5 DEF LedgerStep, ForwardOne
<1>17. ASSUME NEW r \in Request, RecordRelay(r) PROVE LedgerStep
  <2> DEFINE z == <<r, tallied[r] + 1>>
  <2>1. /\ pc[r] = "relayed" /\ pc'[r] = "tally" /\ \A s \in Request \ {r} : pc'[s] = pc[s]
        /\ tallied'[r] = tallied[r] + 1 /\ \A s \in Request \ {r} : tallied'[s] = tallied[s]
        /\ tallied' \in [Request -> Nat]
        /\ UNCHANGED <<code, results, msg, mem, crashes>>
    BY <1>17 DEF RecordRelay, TypeOK
  <2>2. tallied[r] < Len(results[r]) /\ results[r][tallied[r] + 1].ok
    BY <2>1, <1>0 DEF Tally
  <2>3. begun' = begun
    BY <2>1, <1>t DEF begun
  <2>4. OneMore(z, Relays, Relays') /\ UNCHANGED Errors
    BY <2>1, <2>2, <1>t, OneTallied
  <2>5. UNCHANGED <<Forwards, Failures>> /\ RoutesKept
    BY <2>1, <2>3, <2>4 DEF Forwards, Failures, RoutesKept, Route
  <2>6. UNCHANGED <<Taken, Rejected, Refused>>
    BY <2>1 DEF Taken, Rejected, Refused
  <2>7. Route(z) = <<msg[r].peer, NextResult(r).dom>>
    BY DEF Route, NextResult
  <2>8. Route(z) \in Peer \X Host
    <3>1. msg[r].peer \in Peer
      BY <2>1, RelayAssumption DEF Shape
    <3>2. NextResult(r) \in Result
      BY <2>2, <1>0 DEF NextResult
    <3> QED
      BY <2>7, <3>1, <3>2 DEF Result
  <2> HIDE DEF z
  <2>9. /\ UNCHANGED <<totalRejected, totalErrors>>
        /\ \/ /\ routes' = [routes EXCEPT ![Route(z)] = @ + 1]
              /\ totalRelayed' = totalRelayed + 1
           \/ Faults /\ UNCHANGED <<routes, totalRelayed>>
    BY <1>17, <2>7 DEF RecordRelay, RelayTx
  <2> QED
    BY <2>1, <2>4, <2>5, <2>6, <2>8, <2>9 DEF LedgerStep, RelayOne
<1>18. ASSUME NEW r \in Request, ChooseStatus(r) PROVE LedgerStep
  <2>1. /\ pc[r] = "tally" /\ pc'[r] = "reply" /\ code'[r] \in {200, 502}
        /\ UNCHANGED <<results, tallied, msg, routes, stats, mem, crashes>>
        /\ \A s \in Request \ {r} : pc'[s] = pc[s] /\ code'[s] = code[s]
    BY <1>18 DEF ChooseStatus, TypeOK, FinalCode
  <2> QED
    BY <2>1, <1>q DEF Rejected, Refused, Rejections, Refusals
<1>19. ASSUME NEW r \in Request, Reply(r) PROVE LedgerStep
  <2>1. /\ pc[r] = "reply" /\ pc'[r] \in {"done", "late"}
        /\ UNCHANGED <<code, results, tallied, msg, routes, stats, mem, crashes>>
        /\ \A s \in Request \ {r} : pc'[s] = pc[s]
    BY <1>19 DEF Reply, TypeOK
  <2> QED
    BY <2>1, <1>q DEF Rejected, Refused
<1>20. ASSUME NEW p \in sent, Accept(p) PROVE LedgerStep
  BY <1>20, <1>n DEF Accept
<1>21. CASE Admin
  <2>1. UNCHANGED <<pc, code, results, tallied, msg, routes, stats, mem, crashes>>
    BY <1>21, AdminType DEF TypeOK
  <2> QED
    BY <2>1, <1>n
<1>22. CASE CrashRestart
  <2>1. /\ crashes' = crashes + 1
        /\ UNCHANGED <<results, tallied, msg, routes, stats>>
        /\ \A r \in Request : pc'[r] = pc[r] \/ (pc'[r] = "lost" /\ pc[r] \in Running)
    BY <1>22 DEF CrashRestart, TypeOK
  <2>2. UNCHANGED Relays /\ RoutesKept
    BY <2>1 DEF Relays, RoutesKept, Route
  <2>3. begun' \in [Request -> Nat] /\ \A r \in Request : begun[r] <= begun'[r]
    BY <2>1, <1>t DEF begun
  <2>4. \A z \in Request \X Nat : z[2] <= begun[z[1]] => z[2] <= begun'[z[1]]
    BY <2>3, <1>t
  <2>5. Failures \subseteq Failures' /\ IsFiniteSet(Failures')
    <3>1. Failures' = BadUpTo(results, begun')
      BY <2>1 DEF Failures
    <3>2. IsFiniteSet(BadUpTo(results, begun'))
      BY <1>t, UpToFinite
    <3>3. BadUpTo(results, begun) \subseteq BadUpTo(results, begun')
      BY <2>4 DEF BadUpTo
    <3> QED
      BY <3>1, <3>2, <3>3 DEF Failures
  <2> QED
    BY <2>1, <2>2, <2>5 DEF LedgerStep, Die
<1>23. CASE UNCHANGED vars
  BY <1>23, <1>n
<1> QED
  BY <1>1, <1>2, <1>3, <1>4, <1>5, <1>6, <1>7, <1>8, <1>9, <1>10, <1>11, <1>12,
     <1>13, <1>14, <1>15, <1>16, <1>17, <1>18, <1>19, <1>20, <1>21, <1>22, <1>23
  DEF Next, Handle

-----------------------------------------------------------------------------
(* The books                                                               *)

\* No route is counted more often than a good group was recorded for it.
RoutesBounded == \A k \in Peer \X Host : routes[k] <= Cardinality(OnRoute(k))

\* No more errors are recorded than groups failed.
ErrorsBounded == totalErrors <= Cardinality(Failures)

\* Without faults and crashes each counter is the length of its list.
BooksExact ==
  /\ received = Cardinality(Taken)
  /\ forwarded = Cardinality(Forwards)
  /\ totalRelayed = Cardinality(Relays)
  /\ totalErrors = Cardinality(Failures)
  /\ totalRejected = Cardinality(Rejected)
  /\ errors = Cardinality(Errors) + Cardinality(Refused)

\* The inductive invariant of the counters.
BooksInv ==
  /\ RoutesAddUp
  /\ RoutesBounded
  /\ ErrorsBounded
  /\ ~Faults /\ crashes = 0 => BooksExact

\* The lists are finite.
LEMMA ListsFinite ==
  ASSUME TypeInv
  PROVE  /\ IsFiniteSet(Taken) /\ IsFiniteSet(Rejected) /\ IsFiniteSet(Refused)
         /\ IsFiniteSet(Relays) /\ IsFiniteSet(Forwards)
         /\ IsFiniteSet(Failures) /\ IsFiniteSet(Errors)
         /\ \A k : IsFiniteSet(OnRoute(k))
<1>1. results \in [Request -> Seq(Result)]
  BY DEF TypeInv, TypeOK
<1>2. /\ IsFiniteSet(Relays) /\ IsFiniteSet(Forwards)
      /\ IsFiniteSet(Failures) /\ IsFiniteSet(Errors)
  BY <1>1, UpToFinite DEF Relays, Forwards, Failures, Errors
<1>3. Taken \subseteq Request /\ Rejected \subseteq Request /\ Refused \subseteq Request
  BY DEF Taken, Rejected, Refused
<1>4. IsFiniteSet(Taken) /\ IsFiniteSet(Rejected) /\ IsFiniteSet(Refused)
  BY <1>3, FiniteAssumption, FS_Subset
<1>5. ASSUME NEW k PROVE IsFiniteSet(OnRoute(k))
  <2>1. OnRoute(k) \subseteq Relays
    BY DEF OnRoute
  <2> QED
    BY <1>2, <2>1, FS_Subset
<1> QED
  BY <1>2, <1>4, <1>5

\* A list that gets one more is longer by one.
LEMMA OneLonger ==
  ASSUME NEW list, NEW new, IsFiniteSet(list), \E x : OneMore(x, list, new)
  PROVE  /\ IsFiniteSet(new) /\ Cardinality(list) \in Nat
         /\ Cardinality(new) = Cardinality(list) + 1
<1>1. PICK x : OneMore(x, list, new)
  OBVIOUS
<1>2. IsFiniteSet(list \cup {x}) /\ Cardinality(list \cup {x}) = Cardinality(list) + 1
  BY <1>1, FS_AddElement DEF OneMore
<1> QED
  BY <1>1, <1>2, FS_CardinalityType DEF OneMore

\* A step that records no good group leaves the bound on the routes alone.
LEMMA RoutesBoundedStays ==
  ASSUME RoutesBounded, RoutesKept, UNCHANGED <<Relays, routes>>
  PROVE  RoutesBounded'
<1> SUFFICES ASSUME NEW k \in Peer \X Host PROVE routes'[k] <= Cardinality(OnRoute(k)')
  BY DEF RoutesBounded
<1>1. OnRoute(k)' = OnRoute(k)
  BY DEF OnRoute, RoutesKept
<1> QED
  BY <1>1 DEF RoutesBounded

\* The books of an instance that has not begun.
LEMMA BooksInit == Init => BooksInv
<1> SUFFICES ASSUME Init PROVE BooksInv
  OBVIOUS
<1>1. RoutesAddUp
  <2>1. IsFiniteSet(Peer \X Host)
    BY FiniteAssumption, FS_Product
  <2> QED
    BY <2>1, SumZero DEF Init, RoutesAddUp
<1>2. /\ Relays = {} /\ Forwards = {} /\ Failures = {} /\ Errors = {}
      /\ Taken = {} /\ Rejected = {} /\ Refused = {}
  BY DEF Init, Relays, Forwards, Failures, Errors, GoodUpTo, BadUpTo,
         Taken, Rejected, Refused
<1>3. Cardinality({}) = 0
  BY FS_EmptySet
<1>4. RoutesBounded
  BY <1>2, <1>3 DEF RoutesBounded, OnRoute, Init
<1>5. ErrorsBounded /\ BooksExact
  BY <1>2, <1>3 DEF ErrorsBounded, BooksExact, Init
<1> QED
  BY <1>1, <1>4, <1>5 DEF BooksInv

\* Every step keeps the books.
LEMMA BooksStep == TypeInv /\ AnswerInv /\ TallyInv /\ BooksInv /\ [Next]_vars => BooksInv'
<1> SUFFICES ASSUME TypeInv, LedgerStep, BooksInv PROVE BooksInv'
  BY LedgerSteps
<1> USE DEF mem, stats
<1>0. /\ RoutesAddUp /\ RoutesBounded /\ ErrorsBounded /\ RoutesKept
      /\ ~Faults /\ crashes = 0 => BooksExact
  BY DEF BooksInv, LedgerStep
<1>1. /\ totalErrors \in Nat /\ totalRelayed \in Nat /\ totalRejected \in Nat
      /\ received \in Nat /\ forwarded \in Nat /\ errors \in Nat /\ crashes \in Nat
      /\ routes \in [Peer \X Host -> Nat]
  BY DEF TypeInv, TypeOK, RoutesAddUp
<1>2. /\ Cardinality(Errors) \in Nat /\ Cardinality(Refused) \in Nat
      /\ Cardinality(Failures) \in Nat
  BY ListsFinite, FS_CardinalityType
<1>n. CASE Nothing
  BY <1>n, <1>0, RoutesBoundedStays
  DEF Nothing, BooksInv, RoutesAddUp, ErrorsBounded, BooksExact
<1>t. CASE TakeOne
  <2>1. Cardinality(Taken') = Cardinality(Taken) + 1
    BY <1>t, ListsFinite, OneLonger DEF TakeOne
  <2> QED
    BY <1>t, <1>0, <2>1, RoutesBoundedStays
    DEF TakeOne, BooksInv, RoutesAddUp, ErrorsBounded, BooksExact
<1>j. CASE RejectOne
  <2>1. Cardinality(Rejected') = Cardinality(Rejected) + 1
    BY <1>j, ListsFinite, OneLonger DEF RejectOne
  <2> QED
    BY <1>j, <1>0, <2>1, RoutesBoundedStays
    DEF RejectOne, BooksInv, RoutesAddUp, ErrorsBounded, BooksExact
<1>r. CASE RefuseOne
  <2>1. Cardinality(Refused') = Cardinality(Refused) + 1
    BY <1>r, ListsFinite, OneLonger DEF RefuseOne
  <2> QED
    BY <1>r, <1>0, <1>2, <2>1, RoutesBoundedStays
    DEF RefuseOne, BooksInv, RoutesAddUp, ErrorsBounded, BooksExact
<1>f. CASE FailOne
  <2>1. Cardinality(Failures') = Cardinality(Failures) + 1
    BY <1>f, ListsFinite, OneLonger DEF FailOne
  <2>2. ErrorsBounded'
    BY <1>f, <1>0, <1>1, <1>2, <2>1 DEF FailOne, ErrorsBounded
  <2> QED
    BY <1>f, <1>0, <2>1, <2>2, RoutesBoundedStays
    DEF FailOne, BooksInv, RoutesAddUp, BooksExact
<1>e. CASE ErrOne
  <2>1. Cardinality(Errors') = Cardinality(Errors) + 1
    BY <1>e, ListsFinite, OneLonger DEF ErrOne
  <2> QED
    BY <1>e, <1>0, <1>2, <2>1, RoutesBoundedStays
    DEF ErrOne, BooksInv, RoutesAddUp, ErrorsBounded, BooksExact
<1>w. CASE ForwardOne
  <2>1. Cardinality(Forwards') = Cardinality(Forwards) + 1
    BY <1>w, ListsFinite, OneLonger DEF ForwardOne
  <2> QED
    BY <1>w, <1>0, <2>1, RoutesBoundedStays
    DEF ForwardOne, BooksInv, RoutesAddUp, ErrorsBounded, BooksExact
<1>y. CASE RelayOne
  <2>1. PICK z : /\ OneMore(z, Relays, Relays')
                 /\ Route(z) \in Peer \X Host
                 /\ \/ /\ routes' = [routes EXCEPT ![Route(z)] = @ + 1]
                       /\ totalRelayed' = totalRelayed + 1
                    \/ Faults /\ UNCHANGED <<routes, totalRelayed>>
    BY <1>y DEF RelayOne
  <2>2. Cardinality(Relays') = Cardinality(Relays) + 1
    BY <2>1, ListsFinite, OneLonger
  <2>3. RoutesAddUp'
    <3>1. IsFiniteSet(Peer \X Host)
      BY FiniteAssumption, FS_Product
    <3>2. SumFunction([routes EXCEPT ![Route(z)] = @ + 1]) = SumFunction(routes) + 1
      BY <1>1, <2>1, <3>1, SumBump
    <3> QED
      BY <1>0, <2>1, <3>2 DEF RoutesAddUp
  <2>4. RoutesBounded'
    <3> SUFFICES ASSUME NEW k \in Peer \X Host PROVE routes'[k] <= Cardinality(OnRoute(k)')
      BY DEF RoutesBounded
    <3>1. OnRoute(k)' = IF k = Route(z) THEN OnRoute(k) \cup {z} ELSE OnRoute(k)
      BY <1>0, <2>1 DEF OnRoute, RoutesKept, OneMore
    <3>2. z \notin OnRoute(k)
      BY <2>1 DEF OnRoute, OneMore
    <3>3. /\ routes[k] <= Cardinality(OnRoute(k)) /\ routes[k] \in Nat
          /\ Cardinality(OnRoute(k)) \in Nat
      BY <1>0, <1>1, ListsFinite, FS_CardinalityType DEF RoutesBounded
    <3>4. Cardinality(OnRoute(k) \cup {z}) = Cardinality(OnRoute(k)) + 1
      BY <3>2, ListsFinite, FS_AddElement
    <3>5. routes'[k] = (IF k = Route(z) THEN routes[k] + 1 ELSE routes[k]) \/ routes'[k] = routes[k]
      BY <1>1, <2>1
    <3> QED
      BY <3>1, <3>3, <3>4, <3>5
  <2> QED
    BY <1>y, <1>0, <2>1, <2>2, <2>3, <2>4 DEF RelayOne, BooksInv, ErrorsBounded, BooksExact
<1>d. CASE Die
  <2>1. ErrorsBounded'
    <3>1. Cardinality(Failures) <= Cardinality(Failures') /\ Cardinality(Failures') \in Nat
      BY <1>d, FS_Subset, FS_CardinalityType DEF Die
    <3> QED
      BY <1>d, <1>0, <1>1, <1>2, <3>1 DEF Die, ErrorsBounded
  <2>2. crashes' # 0
    BY <1>d, <1>1 DEF Die
  <2> QED
    BY <1>d, <1>0, <2>1, <2>2, RoutesBoundedStays DEF Die, BooksInv, RoutesAddUp
<1> QED
  BY <1>n, <1>t, <1>j, <1>r, <1>f, <1>e, <1>w, <1>y, <1>d DEF LedgerStep

\* The invariants together hold in every state.
LEMMA BooksInvHolds == Spec => [](TypeInv /\ AnswerInv /\ TallyInv /\ BooksInv)
BY TypeInit, TypeStep, CopyInit, CopyStep, AnswerInit, AnswerStep, TallyInit, TallyStep,
   BooksInit, BooksStep, PTL DEF Spec

\* RecordRelay is atomic: the route counters add up to total_relayed in every
\* state, for any interleaving of handlers, failing statements and crashes.
THEOREM RoutesCorrect == Spec => []RoutesAddUp
<1>1. BooksInv => RoutesAddUp
  BY DEF BooksInv
<1> QED
  BY <1>1, BooksInvHolds, PTL

-----------------------------------------------------------------------------
(* What the counters say of the network and of the requests                *)

\* Finitely many posts are acknowledged.
LEMMA AckedFinite == Spec => []IsFiniteSet(acked)
<1>1. Init => IsFiniteSet(acked)
  BY FS_EmptySet DEF Init
<1>2. IsFiniteSet(acked) /\ [Next]_vars => IsFiniteSet(acked)'
  <2> SUFFICES ASSUME IsFiniteSet(acked), [Next]_vars PROVE IsFiniteSet(acked')
    OBVIOUS
  <2>1. CASE \E r \in Request : PostSucceeds(r)
    BY <2>1, FS_AddElement DEF PostSucceeds
  <2>2. CASE UNCHANGED acked
    BY <2>2
  <2>3. (\E r \in Request : PostSucceeds(r)) \/ UNCHANGED acked
    BY DEF Next, vars, network, Arrive, Handle, Check, ReadMode, ListFilters, RecordRejected,
           CountRefusal, LoadRules, ApplyRule, StartForward, SendFirst, PostFails, EndForward,
           RecordError, CountError, CountForwarded, RecordRelay, ChooseStatus, Reply, Accept,
           Admin, SetMode, AddRelayFilter, UpdateRelayFilter, DeleteRelayFilter, WriteFilters,
           AddRewriteRule, UpdateRewriteRule, DeleteRewriteRule, WriteRules, CrashRestart
  <2> QED
    BY <2>1, <2>2, <2>3
<1> QED
  BY <1>1, <1>2, PTL DEF Spec

\* The good and the bad results of the requests, as sums and as sets.
LEMMA ResultSums ==
  ASSUME TypeInv
  PROVE  /\ SumFunction([r \in Request |-> Cardinality(Succeeded(r))])
               = Cardinality({z \in Request \X Nat : z[2] \in Succeeded(z[1])})
         /\ SumFunction([r \in Request |-> Cardinality(Failed(r))])
               = Cardinality({z \in Request \X Nat : z[2] \in Failed(z[1])})
         /\ IsFiniteSet({z \in Request \X Nat : z[2] \in Failed(z[1])})
<1> DEFINE A == [r \in Request |-> Succeeded(r)]
           B == [r \in Request |-> Failed(r)]
<1>1. ASSUME NEW r \in Request
      PROVE  /\ Succeeded(r) \subseteq Nat /\ IsFiniteSet(Succeeded(r))
             /\ Failed(r) \subseteq Nat /\ IsFiniteSet(Failed(r))
  <2>1. DOMAIN results[r] = 1 .. Len(results[r]) /\ Len(results[r]) \in Nat
    BY DEF TypeInv, TypeOK
  <2>2. IsFiniteSet(DOMAIN results[r]) /\ DOMAIN results[r] \subseteq Nat
    BY <2>1, FS_Interval
  <2>3. Succeeded(r) \subseteq DOMAIN results[r] /\ Failed(r) \subseteq DOMAIN results[r]
    BY DEF Succeeded, Failed
  <2> QED
    BY <2>2, <2>3, FS_Subset
<1>2. /\ A \in [Request -> SUBSET Nat] /\ \A r \in Request : IsFiniteSet(A[r])
      /\ [r \in Request |-> Cardinality(Succeeded(r))] = [r \in Request |-> Cardinality(A[r])]
      /\ Pairs(Request, A) = {z \in Request \X Nat : z[2] \in Succeeded(z[1])}
  BY <1>1 DEF Pairs
<1>3. /\ B \in [Request -> SUBSET Nat] /\ \A r \in Request : IsFiniteSet(B[r])
      /\ [r \in Request |-> Cardinality(Failed(r))] = [r \in Request |-> Cardinality(B[r])]
      /\ Pairs(Request, B) = {z \in Request \X Nat : z[2] \in Failed(z[1])}
  BY <1>1 DEF Pairs
<1> HIDE DEF A, B
<1>4. SumFunction([r \in Request |-> Cardinality(Succeeded(r))]) = Cardinality(Pairs(Request, A))
  BY <1>2, FiniteAssumption, SumOfCounts
<1>5. SumFunction([r \in Request |-> Cardinality(Failed(r))]) = Cardinality(Pairs(Request, B))
  BY <1>3, FiniteAssumption, SumOfCounts
<1>6. IsFiniteSet(Pairs(Request, B))
  BY <1>3, FiniteAssumption, PairsFinite
<1> QED
  BY <1>2, <1>3, <1>4, <1>5, <1>6

\* The groups counted for a route have each an acknowledged post of their own.
LEMMA RouteAcked ==
  ASSUME TypeInv, AnswerInv, TallyInv, IsFiniteSet(acked), NEW peer \in Peer, NEW d \in Host
  PROVE  Cardinality(OnRoute(<<peer, d>>)) <=
           Cardinality({p \in acked : p.dom = d /\ msg[p.req].peer = peer})
<1> DEFINE S == OnRoute(<<peer, d>>)
           T == {p \in acked : p.dom = d /\ msg[p.req].peer = peer}
           f == [z \in S |-> CHOOSE p \in acked : p.req = z[1] /\ p.dom = d]
<1>1. ASSUME NEW z \in S
      PROVE  /\ z \in Request \X Nat /\ z[2] \in DOMAIN results[z[1]]
             /\ results[z[1]][z[2]].ok /\ results[z[1]][z[2]].dom = d /\ msg[z[1]].peer = peer
  BY DEF OnRoute, Route, Relays, GoodUpTo
<1>2. ASSUME NEW z \in S
      PROVE  f[z] \in T /\ f[z].req = z[1]
  <2>1. Known(z[1], env[z[1]], results[z[1]], sent, acked)
    <3>1. z[1] \in Request
      BY <1>1
    <3> QED
      BY <3>1 DEF AnswerInv, Truth
  <2>2. \E p \in acked : p.req = z[1] /\ p.dom = d
    BY <1>1, <2>1 DEF Known, PostIn
  <2>3. f[z] \in acked /\ f[z].req = z[1] /\ f[z].dom = d
    BY <2>2
  <2> QED
    BY <1>1, <2>3
<1>3. ASSUME NEW y \in S, NEW z \in S, f[y] = f[z] PROVE y = z
  <2>1. y[1] = z[1]
    BY <1>2, <1>3
  <2>2. OneEach(pc[y[1]], todo[y[1]], cur[y[1]], results[y[1]])
    BY <1>1 DEF TallyInv
  <2>3. y[2] = z[2]
    BY <1>1, <2>1, <2>2 DEF OneEach
  <2> QED
    BY <1>1, <2>1, <2>3
<1> HIDE DEF S, T
<1>4. f \in Injection(S, T)
  BY <1>2, <1>3 DEF Injection, IsInjective
<1>5. IsFiniteSet(T)
  BY FS_Subset DEF T
<1>6. Cardinality(S) <= Cardinality(T)
  <2> HIDE DEF f
  <2> QED BY <1>4, <1>5, FS_Injection
<1> QED
  BY <1>6 DEF S, T

\* The statistics never claim more than happened: a route is counted at most
\* once per acknowledged group, an error at most once per failed group.
THEOREM OvercountCorrect == Spec => []NeverOvercounted
<1>1. TypeInv /\ AnswerInv /\ TallyInv /\ BooksInv /\ IsFiniteSet(acked) => NeverOvercounted
  <2> SUFFICES ASSUME TypeInv, AnswerInv, TallyInv, BooksInv, IsFiniteSet(acked)
               PROVE  NeverOvercounted
    OBVIOUS
  <2> DEFINE bad == {z \in Request \X Nat : z[2] \in Failed(z[1])}
  <2>1. totalErrors <= SumFunction([r \in Request |-> Cardinality(Failed(r))])
    <3>1. Failures \subseteq bad
      BY DEF Failures, BadUpTo, Failed, Succeeded
    <3>2. IsFiniteSet(bad) /\ SumFunction([r \in Request |-> Cardinality(Failed(r))]) = Cardinality(bad)
      BY ResultSums
    <3> HIDE DEF bad
    <3>3. /\ Cardinality(Failures) <= Cardinality(bad)
          /\ Cardinality(Failures) \in Nat /\ Cardinality(bad) \in Nat
      BY <3>1, <3>2, ListsFinite, FS_Subset, FS_CardinalityType
    <3>4. totalErrors <= Cardinality(Failures) /\ totalErrors \in Nat
      BY DEF BooksInv, ErrorsBounded, TypeInv, TypeOK
    <3> QED
      BY <3>2, <3>3, <3>4
  <2>2. ASSUME NEW peer \in Peer, NEW d \in Host
        PROVE  routes[<<peer, d>>] <=
                 Cardinality({p \in acked : p.dom = d /\ msg[p.req].peer = peer})
    <3> DEFINE T == {p \in acked : p.dom = d /\ msg[p.req].peer = peer}
    <3>1. Cardinality(OnRoute(<<peer, d>>)) <= Cardinality(T)
      BY RouteAcked
    <3>2. Cardinality(T) \in Nat /\ Cardinality(OnRoute(<<peer, d>>)) \in Nat
      BY ListsFinite, FS_Subset, FS_CardinalityType
    <3>3. routes[<<peer, d>>] <= Cardinality(OnRoute(<<peer, d>>)) /\ routes[<<peer, d>>] \in Nat
      BY DEF BooksInv, RoutesBounded, TypeInv, TypeOK
    <3> HIDE DEF T
    <3>4. routes[<<peer, d>>] <= Cardinality(T)
      BY <3>1, <3>2, <3>3
    <3> QED
      BY <3>4 DEF T
  <2> QED
    BY <2>1, <2>2 DEF NeverOvercounted
<1> QED
  BY <1>1, BooksInvHolds, AckedFinite, PTL

\* Without crashes and database errors the books balance whenever no handler
\* runs: Server's counters, the totals, and the answers given all agree.
THEOREM BooksCorrect == Spec => []BooksBalance
<1>1. TypeInv /\ AnswerInv /\ TallyInv /\ BooksInv => BooksBalance
  <2> DEFINE Ended(codes) == {r \in Request : pc[r] \in {"done", "late"} /\ code[r] \in codes}
             good == {z \in Request \X Nat : z[2] \in Succeeded(z[1])}
             bad == {z \in Request \X Nat : z[2] \in Failed(z[1])}
  <2> SUFFICES ASSUME TypeInv, AnswerInv, TallyInv, BooksInv, ~Faults, crashes = 0,
                      \A r \in Request : pc[r] \in {"idle", "done", "late"}
               PROVE  /\ received = Cardinality(Ended({200, 502, 400, 403, 405, 413, 500}))
                      /\ forwarded = totalRelayed
                      /\ totalRelayed = SumFunction([r \in Request |-> Cardinality(Succeeded(r))])
                      /\ totalErrors = SumFunction([r \in Request |-> Cardinality(Failed(r))])
                      /\ totalRejected = Cardinality(Ended({400, 403, 413}))
                      /\ errors = totalErrors + totalRejected + Cardinality(Ended({405, 500}))
    BY DEF BooksBalance
  <2>1. ASSUME NEW r \in Request
        PROVE  tallied[r] = Len(results[r]) /\ begun[r] = Len(results[r])
    <3>1. CASE pc[r] = "idle"
      BY <3>1, NoResultYet DEF TallyInv, Tally, Before, begun
    <3>2. CASE pc[r] \in {"done", "late"}
      BY <3>2 DEF TallyInv, Tally, begun
    <3> QED
      BY <3>1, <3>2
  <2>2. \A z \in Request \X Nat : z[2] \in DOMAIN results[z[1]] =>
                                 z[2] <= tallied[z[1]] /\ z[2] <= begun[z[1]]
    BY <2>1 DEF TypeInv, TypeOK
  <2>3. Relays = good /\ Forwards = good /\ Failures = bad /\ Errors = bad
    BY <2>2 DEF Relays, Forwards, Failures, Errors, GoodUpTo, BadUpTo, Succeeded, Failed
  <2>4. /\ SumFunction([r \in Request |-> Cardinality(Succeeded(r))]) = Cardinality(good)
        /\ SumFunction([r \in Request |-> Cardinality(Failed(r))]) = Cardinality(bad)
    BY ResultSums
  <2>5. \A r \in Request : pc[r] \in {"done", "late"} =>
                           code[r] \in {200, 502, 400, 403, 405, 413, 500}
    BY DEF TallyInv, Tally, Refusals, Rejections
  <2>6. Taken = Ended({200, 502, 400, 403, 405, 413, 500}) /\ Rejected = Ended({400, 403, 413})
    BY <2>5 DEF Taken, Rejected, Rejections
  <2>7. /\ Refused = Ended({400, 403, 413}) \cup Ended({405, 500})
        /\ Ended({400, 403, 413}) \cap Ended({405, 500}) = {}
    BY DEF Refused, Refusals, Rejections
  <2> HIDE DEF Ended, good, bad
  <2>8. IsFiniteSet(Ended({400, 403, 413})) /\ IsFiniteSet(Ended({405, 500}))
    BY FiniteAssumption, FS_Subset DEF Ended
  <2>9. Cardinality(Refused) = Cardinality(Ended({400, 403, 413})) + Cardinality(Ended({405, 500}))
    <3> DEFINE S == Ended({400, 403, 413})
               T == Ended({405, 500})
    <3>1. Cardinality(S \cap T) = 0 /\ Cardinality(S) \in Nat /\ Cardinality(T) \in Nat
      <4>1. S \cap T = {} /\ IsFiniteSet(S) /\ IsFiniteSet(T)
        BY <2>7, <2>8
      <4>2. Cardinality(S \cap T) = 0
        BY <4>1, FS_EmptySet
      <4> QED
        BY <4>1, <4>2, FS_CardinalityType
    <3>2. IsFiniteSet(S) /\ IsFiniteSet(T) /\ Refused = S \cup T
      BY <2>7, <2>8
    <3> HIDE DEF S, T
    <3>3. Cardinality(S \cup T) = Cardinality(S) + Cardinality(T) - Cardinality(S \cap T)
      BY <3>2, FS_Union
    <3>4. Cardinality(Refused) = Cardinality(S) + Cardinality(T)
      BY <3>1, <3>2, <3>3
    <3> QED
      BY <3>4 DEF S, T
  <2>10. BooksExact
    BY DEF BooksInv
  <2>11. /\ Cardinality(bad) \in Nat /\ Cardinality(Ended({400, 403, 413})) \in Nat
         /\ Cardinality(Ended({405, 500})) \in Nat
    BY <2>3, <2>8, ListsFinite, FS_CardinalityType
  <2> QED
    BY <2>3, <2>4, <2>6, <2>9, <2>10, <2>11 DEF BooksExact
<1> QED
  BY <1>1, BooksInvHolds, PTL
=============================================================================
