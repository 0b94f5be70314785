-------------------------- MODULE RelayDiagramProofs --------------------------
(***************************************************************************)
(* What the wires tell, for any tables, texts and changes, and the types   *)
(* of the diagram, for any number of bubbles and any length of a leg:      *)
(* proofs about RelayDiagram.                                              *)
(***************************************************************************)
EXTENDS RelayDiagram, SequenceTheorems, WellFoundedInduction, TLAPS

BubbleType == [id : 0 .. uid - 1, dir : {"ltr", "rtl"}, phase : 1 .. 3,
               t : 0 .. Frames - 1]

\* The inductive invariant: bubbles are records.
Inv == TypeOK /\ bubbles \subseteq BubbleType

-----------------------------------------------------------------------------
(* The drawing and the bubbles                                             *)

\* One destination or two.
LEMMA SomeDests == Len(Dests) \in 1 .. 2
<1>1. CASE config # NoUrl
  BY <1>1 DEF Dests
<1>2. CASE config = NoUrl
  BY <1>2 DEF Dests
<1> QED
  BY <1>1, <1>2

\* A drawing has a wire for each destination.
LEMMA DrawingType ==
  Len(Drawing.labels) \in 0 .. 2 /\ Len(Drawing.proxied) = Len(Drawing.labels)
<1>1. Len(Wires) = Len(Dests)
  BY SomeDests DEF Wires
<1>2. Drawing.labels = Dests /\ Drawing.proxied = Wires
  BY DEF Drawing
<1> QED
  BY <1>1, <1>2, SomeDests

\* Nothing is drawn at first.
LEMMA BlankType == Len(Blank.labels) \in 0 .. 2 /\ Len(Blank.proxied) = Len(Blank.labels)
BY DEF Blank

\* A bubble has two legs or three.
LEMMA LegsType == ASSUME NEW b PROVE Legs(b) \in 2 .. 3
BY DEF Legs

\* A bubble moves on, never past its third leg.
LEMMA MovedType ==
  ASSUME Inv, NEW b \in bubbles
  PROVE  Moved(b) \subseteq BubbleType
<1>0. b \in BubbleType /\ Frames \in Nat \ {0}
  BY DiagramAssumption DEF Inv
<1>1. CASE b.t + 1 < Frames
  <2> DEFINE c == [b EXCEPT !.t = b.t + 1]
  <2>1. c \in BubbleType
    BY <1>0, <1>1 DEF BubbleType
  <2>2. Moved(b) = {c}
    BY <1>1 DEF Moved
  <2> QED
    BY <2>1, <2>2
<1>2. CASE ~(b.t + 1 < Frames) /\ MoreLegs(b)
  <2> DEFINE c == [b EXCEPT !.phase = b.phase + 1, !.t = 0]
  <2>1. b.phase + 1 \in 1 .. 3
    BY <1>0, <1>2, LegsType DEF MoreLegs, BubbleType
  <2>t. 0 \in 0 .. Frames - 1
    BY <1>0
  <2>2. c \in BubbleType
    BY <1>0, <2>1, <2>t DEF BubbleType
  <2>3. Moved(b) = {c}
    BY <1>2 DEF Moved
  <2> QED
    BY <2>2, <2>3
<1>3. CASE ~(b.t + 1 < Frames) /\ ~MoreLegs(b)
  BY <1>3 DEF Moved
<1> QED
  BY <1>1, <1>2, <1>3

\* A new bubble has the next number.
LEMMA SpawnKeepsInv ==
  ASSUME Inv, Spawn, config' \in Urls, proxies' \in Proxies, proxyRoutes' \in RouteLists,
         Len(drawn'.labels) \in 0 .. 2, Len(drawn'.proxied) = Len(drawn'.labels),
         dirty' \in BOOLEAN, visible' \in BOOLEAN, page' \in {"new", "open", "left"},
         timeouts' \in 0 .. 2, changes' \in 0 .. MaxChanges
  PROVE  Inv'
<1>1. PICK dir \in {"ltr", "rtl"} :
        bubbles' = bubbles \cup {[id |-> uid, dir |-> dir, phase |-> 1, t |-> 0]}
  BY DEF Spawn
<1>2. uid' = uid + 1 /\ uid \in Nat /\ uid' \in 0 .. MaxBubbles
  BY DiagramAssumption DEF Spawn, Inv, TypeOK
<1>3. [id |-> uid, dir |-> dir, phase |-> 1, t |-> 0] \in BubbleType'
  <2>1. uid \in 0 .. uid' - 1
    BY <1>2
  <2>2. 0 \in 0 .. Frames - 1
    BY DiagramAssumption
  <2> QED
    BY <2>1, <2>2 DEF BubbleType
<1>4. \A b \in bubbles : b \in BubbleType'
  BY <1>2 DEF Inv, BubbleType
<1>5. bubbles' \subseteq BubbleType'
  BY <1>1, <1>3, <1>4
<1> QED
  BY <1>2, <1>5 DEF Inv, TypeOK, BubbleType

-----------------------------------------------------------------------------
(* The inductive invariant                                                 *)

\* It holds at first.
LEMMA InvInit == Init => Inv
<1> SUFFICES ASSUME Init PROVE Inv
  OBVIOUS
<1>1. bubbles = {} /\ uid \in 0 .. MaxBubbles /\ changes \in 0 .. MaxChanges
  BY DiagramAssumption DEF Init
<1>2. {dirty, visible} \subseteq BOOLEAN
  BY DEF Init
<1>3. Len(drawn.labels) \in 0 .. 2 /\ Len(drawn.proxied) = Len(drawn.labels)
  BY BlankType DEF Init
<1>4. TypeOK
  BY <1>1, <1>2, <1>3 DEF Init, TypeOK
<1> QED
  BY <1>1, <1>4 DEF Inv

\* Every step keeps it.
LEMMA InvStep == Inv /\ [Next]_vars => Inv'
<1> SUFFICES ASSUME Inv, [Next]_vars PROVE Inv'
  OBVIOUS
<1> USE DEF props
<1>1. ASSUME ChangeProps PROVE Inv'
  <2>1. changes' \in 0 .. MaxChanges
    BY <1>1, DiagramAssumption DEF ChangeProps, Inv, TypeOK
  <2>2. config' \in Urls /\ proxies' \in Proxies /\ proxyRoutes' \in RouteLists
    BY <1>1 DEF ChangeProps, Inv, TypeOK
  <2>3. dirty' \in BOOLEAN
    BY <1>1 DEF ChangeProps, Inv, TypeOK
  <2>4. UNCHANGED <<drawn, page, visible, timeouts, bubbles, uid>>
    BY <1>1 DEF ChangeProps
  <2> QED
    BY <2>1, <2>2, <2>3, <2>4 DEF Inv, TypeOK, BubbleType
<1>2. ASSUME Render PROVE Inv'
  BY <1>2, DrawingType DEF Render, Inv, TypeOK, BubbleType
<1>3. ASSUME Mount PROVE Inv'
  BY <1>3, SpawnKeepsInv, DrawingType DEF Mount, Inv, TypeOK
<1>4. ASSUME SpawnByTimeout PROVE Inv'
  BY <1>4, SpawnKeepsInv DEF SpawnByTimeout, Inv, TypeOK
<1>5. ASSUME SpawnByInterval PROVE Inv'
  BY <1>5, SpawnKeepsInv DEF SpawnByInterval, Inv, TypeOK
<1>6. ASSUME AnimateBubbles PROVE Inv'
  <2>1. bubbles' \subseteq BubbleType
    BY <1>6, MovedType DEF AnimateBubbles
  <2>2. UNCHANGED <<props, drawn, dirty, page, visible, timeouts, uid, changes>>
    BY <1>6 DEF AnimateBubbles
  <2> QED
    BY <2>1, <2>2 DEF Inv, TypeOK, BubbleType
<1>7. ASSUME ShowOrHide PROVE Inv'
  BY <1>7 DEF ShowOrHide, Inv, TypeOK, BubbleType
<1>8. ASSUME Leave PROVE Inv'
  BY <1>8 DEF Leave, Inv, TypeOK, BubbleType
<1>9. CASE UNCHANGED vars
  BY <1>9 DEF vars, Inv, TypeOK, BubbleType
<1> QED
  BY <1>1, <1>2, <1>3, <1>4, <1>5, <1>6, <1>7, <1>8, <1>9 DEF Next

\* The invariant holds in every state of every behaviour.
THEOREM Invariance == Spec => []Inv
BY InvInit, InvStep, PTL DEF Spec

\* Every variable keeps its type; a bubble has at most three legs, whatever the
\* tables do meanwhile to the number of its legs.
THEOREM TypeCorrect == Spec => []TypeOK
<1>1. Inv => TypeOK
  BY DEF Inv
<1> QED
  BY <1>1, Invariance, PTL

-----------------------------------------------------------------------------
(* Numbers and sets                                                        *)

\* A set of numbers has a least one.
LEMMA LeastNumber ==
  ASSUME NEW S, S \subseteq Nat, S # {}
  PROVE  \E x \in S : \A y \in S : x <= y
<1>1. PICK x \in S : \A y \in S : ~(<<y, x>> \in OpToRel(<, Nat))
  BY NatLessThanWellFounded, WFMin
<1>2. \A y \in S : <<y, x>> \in OpToRel(<, Nat) <=> y < x
  BY DEF OpToRel
<1>3. \A y \in S : ~(y < x)
  BY <1>1, <1>2
<1>4. \A y \in S : x <= y
  BY <1>3
<1> QED
  BY <1>4

\* Induction, for a set of numbers.
LEMMA NumberInduction ==
  ASSUME NEW W, 0 \in W, \A n \in Nat : n \in W => n + 1 \in W
  PROVE  Nat \subseteq W
<1> DEFINE Bad == {n \in Nat : n \notin W}
<1> SUFFICES ASSUME Bad # {} PROVE FALSE
  OBVIOUS
<1>1. PICK n \in Bad : \A k \in Bad : n <= k
  BY LeastNumber
<1>2. n # 0 /\ n - 1 \in Nat /\ n - 1 \notin Bad /\ n = (n - 1) + 1
  BY <1>1
<1> QED
  BY <1>1, <1>2

\* A monotone map on the subsets of D leaves one of them alone.
LEMMA MonotoneFixpoint ==
  ASSUME NEW D, NEW F \in [SUBSET D -> SUBSET D],
         \A A, B \in SUBSET D : A \subseteq B => F[A] \subseteq F[B]
  PROVE  \E A \in SUBSET D : F[A] = A
<1> DEFINE A == {x \in D : \A B \in SUBSET D : F[B] \subseteq B => x \in B}
<1>1. F[A] \subseteq A
  <2> SUFFICES ASSUME NEW B \in SUBSET D, F[B] \subseteq B PROVE F[A] \subseteq B
    OBVIOUS
  <2>1. A \subseteq B
    OBVIOUS
  <2> HIDE DEF A
  <2>2. A \in SUBSET D
    BY DEF A
  <2> QED
    BY <2>1, <2>2
<1>2. A \in SUBSET D /\ F[A] \in SUBSET D
  OBVIOUS
<1>3. F[F[A]] \subseteq F[A]
  <2> HIDE DEF A
  <2> QED BY <1>1, <1>2
<1>4. A \subseteq F[A]
  <2>1. \A x \in A : \A B \in SUBSET D : F[B] \subseteq B => x \in B
    OBVIOUS
  <2> HIDE DEF A
  <2> QED BY <1>2, <1>3, <2>1
<1> QED
  BY <1>1, <1>2, <1>4

-----------------------------------------------------------------------------
(* Patterns, character by character                                        *)

\* g is the parts put together one after the other, the first i of them in g[i].
Joined(g, N, seqs, T) ==
  /\ g \in [1 .. N -> Seq(T)]
  /\ \A i \in 1 .. N : g[i] = IF i = 1 THEN seqs[i] ELSE g[i - 1] \o seqs[i]

\* There is such a list.
LEMMA PartsExist ==
  ASSUME NEW T, NEW N \in Nat, NEW seqs, \A i \in 1 .. N : seqs[i] \in Seq(T)
  PROVE  \E g : Joined(g, N, seqs, T)
<1> DEFINE Part(g, n) ==
             /\ g \in [1 .. N -> Seq(T)]
             /\ \A i \in 1 .. N :
                  i <= n => g[i] = IF i = 1 THEN seqs[i] ELSE g[i - 1] \o seqs[i]
           W == {n \in Nat : \E g : Part(g, n)}
<1>2. 0 \in W
  <2>1. Part([i \in 1 .. N |-> seqs[i]], 0)
    OBVIOUS
  <2> QED
    BY <2>1
<1>3. ASSUME NEW n \in Nat, n \in W PROVE n + 1 \in W
  <2>1. PICK g : Part(g, n)
    BY <1>3
  <2>t. \A i \in 1 .. N : g[i] \in Seq(T)
    BY <2>1
  <2>e. \A i \in 1 .. N : i <= n => g[i] = IF i = 1 THEN seqs[i] ELSE g[i - 1] \o seqs[i]
    BY <2>1
  <2> DEFINE h == [i \in 1 .. N |-> IF i = 1 THEN seqs[1]
                                    ELSE IF i = n + 1 THEN g[i - 1] \o seqs[i]
                                    ELSE g[i]]
  <2>2. ASSUME NEW i \in 1 .. N PROVE h[i] \in Seq(T)
    <3>1. CASE i = 1
      BY <3>1
    <3>2. CASE i # 1 /\ i = n + 1
      <4>1. i - 1 \in 1 .. N
        BY <3>2
      <4>2. g[i - 1] \in Seq(T) /\ seqs[i] \in Seq(T)
        BY <4>1, <2>t
      <4>3. g[i - 1] \o seqs[i] \in Seq(T)
        BY <4>2, ConcatProperties
      <4> QED
        BY <4>3, <3>2
    <3>3. CASE i # 1 /\ i # n + 1
      BY <3>3, <2>t
    <3> QED
      BY <3>1, <3>2, <3>3
  <2>3. ASSUME NEW i \in 1 .. N, i <= n + 1
        PROVE  h[i] = IF i = 1 THEN seqs[i] ELSE h[i - 1] \o seqs[i]
    <3>1. CASE i = 1
      BY <3>1
    <3>2. CASE i # 1
      <4>1. i - 1 \in 1 .. N /\ i - 1 # n + 1 /\ i - 1 <= n
        BY <3>2, <2>3
      <4>2. h[i - 1] = g[i - 1]
        <5>1. CASE i - 1 = 1
          <6>1. g[1] = seqs[1]
            BY <4>1, <5>1, <2>e
          <6> QED
            BY <4>1, <5>1, <6>1
        <5>2. CASE i - 1 # 1
          BY <4>1, <5>2
        <5> QED
          BY <5>1, <5>2
      <4>3. h[i] = g[i - 1] \o seqs[i]
        <5>1. CASE i = n + 1
          BY <5>1, <3>2
        <5>2. CASE i # n + 1
          <6>1. i <= n
            BY <5>2, <2>3
          <6> QED
            BY <6>1, <5>2, <3>2, <2>e
        <5> QED
          BY <5>1, <5>2
      <4> QED
        BY <4>2, <4>3, <3>2
    <3> QED
      BY <3>1, <3>2
  <2>4. h \in [1 .. N -> Seq(T)]
    <3>1. h = [i \in 1 .. N |-> h[i]]
      OBVIOUS
    <3> HIDE DEF h
    <3> QED
      BY <3>1, <2>2
  <2> HIDE DEF h
  <2>5. Part(h, n + 1)
    BY <2>3, <2>4
  <2> HIDE DEF Part
  <2>6. \E k : Part(k, n + 1)
    BY <2>5
  <2> QED
    BY <2>6
<1> HIDE DEF W
<1>4. Nat \subseteq W
  BY <1>2, <1>3, NumberInduction
<1>5. PICK g : Part(g, N)
  <2> USE DEF W
  <2> HIDE DEF Part
  <2> QED BY <1>4
<1>6. \A i \in 1 .. N : i <= N
  OBVIOUS
<1>7. Joined(g, N, seqs, T)
  BY <1>5, <1>6 DEF Joined
<1> HIDE DEF Part
<1> QED
  BY <1>7

\* FlattenSeq is such a list of parts, as far as there are any.
LEMMA FlattenParts ==
  ASSUME NEW T, NEW seqs \in Seq(Seq(T)), Len(seqs) # 0
  PROVE  \E g : Joined(g, Len(seqs), seqs, T) /\ g[Len(seqs)] = FlattenSeq(seqs)
<1> DEFINE N == Len(seqs)
           Eqn(g) == [i \in 1 .. N |-> IF i = 1 THEN seqs[i] ELSE g[i - 1] \o seqs[i]]
           f == CHOOSE g : g = Eqn(g)
<1>0. N \in Nat /\ N # 0 /\ \A i \in 1 .. N : seqs[i] \in Seq(T)
  OBVIOUS
<1>1. FlattenSeq(seqs) = f[N]
  BY DEF FlattenSeq
<1> HIDE DEF N
<1>j. PICK g : Joined(g, N, seqs, T)
  <2> HIDE DEF f
  <2> QED BY <1>0, PartsExist
<1>2. /\ g \in [1 .. N -> Seq(T)]
      /\ \A i \in 1 .. N : g[i] = IF i = 1 THEN seqs[i] ELSE g[i - 1] \o seqs[i]
  BY <1>j DEF Joined
<1>3. g = Eqn(g)
  BY <1>2
<1>4. f = Eqn(f)
  <2> HIDE DEF Eqn
  <2> QED BY <1>3
<1> HIDE DEF f
<1>5. \A i \in 1 .. N : f[i] = IF i = 1 THEN seqs[i] ELSE f[i - 1] \o seqs[i]
  <2>1. \A i \in 1 .. N : f[i] = Eqn(f)[i]
    <3> HIDE DEF Eqn
    <3> QED BY <1>4
  <2> QED
    BY <2>1
<1> DEFINE V == {n \in Nat : n + 1 <= N => f[n + 1] = g[n + 1]}
<1>6. 0 \in V
  <2>1. 1 \in 1 .. N
    BY <1>0
  <2>2. f[1] = seqs[1] /\ g[1] = seqs[1]
    BY <1>2, <1>5, <2>1
  <2> QED
    BY <2>2
<1>7. ASSUME NEW n \in Nat, n \in V PROVE n + 1 \in V
  <2> SUFFICES ASSUME n + 2 <= N PROVE f[n + 2] = g[n + 2]
    OBVIOUS
  <2>1. n + 2 \in 1 .. N /\ n + 2 # 1 /\ (n + 2) - 1 = n + 1 /\ n + 1 <= N
    BY <1>0
  <2>2. f[n + 1] = g[n + 1]
    BY <2>1, <1>7
  <2>3. f[n + 2] = f[n + 1] \o seqs[n + 2]
    BY <2>1, <1>5
  <2>4. g[n + 2] = g[n + 1] \o seqs[n + 2]
    BY <2>1, <1>2
  <2> QED
    BY <2>2, <2>3, <2>4
<1>8. f[N] = g[N]
  <2> HIDE DEF V
  <2>1. Nat \subseteq V
    BY <1>6, <1>7, NumberInduction
  <2> USE DEF V
  <2>2. N - 1 \in Nat /\ (N - 1) + 1 = N /\ (N - 1) + 1 <= N
    BY <1>0
  <2>3. N - 1 \in V
    BY <2>1, <2>2
  <2> QED
    BY <2>2, <2>3
<1>9. N = Len(seqs)
  BY DEF N
<1> QED
  BY <1>1, <1>j, <1>8, <1>9

\* FlattenSeq makes a sequence of what its parts are made of.
LEMMA FlattenType ==
  ASSUME NEW T, NEW seqs \in Seq(Seq(T))
  PROVE  FlattenSeq(seqs) \in Seq(T)
<1>1. CASE Len(seqs) = 0
  <2>1. seqs = <<>>
    BY <1>1, EmptySeq
  <2>2. FlattenSeq(seqs) = seqs
    BY <1>1 DEF FlattenSeq
  <2>3. <<>> \in Seq(T)
    OBVIOUS
  <2>4. FlattenSeq(seqs) = <<>>
    BY <2>1, <2>2
  <2> QED
    BY <2>3, <2>4
<1>2. CASE Len(seqs) # 0
  <2>1. PICK g : Joined(g, Len(seqs), seqs, T) /\ g[Len(seqs)] = FlattenSeq(seqs)
    BY <1>2, FlattenParts
  <2>2. Len(seqs) \in 1 .. Len(seqs)
    BY <1>2
  <2> QED
    BY <2>1, <2>2 DEF Joined
<1> QED
  BY <1>1, <1>2

\* One more part goes to its end.
LEMMA FlattenAppend ==
  ASSUME NEW T, NEW seqs \in Seq(Seq(T)), NEW s \in Seq(T)
  PROVE  FlattenSeq(Append(seqs, s)) = FlattenSeq(seqs) \o s
<1> DEFINE N == Len(seqs)
           more == Append(seqs, s)
<1>0. /\ N \in Nat /\ more \in Seq(Seq(T)) /\ Len(more) = N + 1
      /\ more[N + 1] = s /\ \A i \in 1 .. N : more[i] = seqs[i] /\ seqs[i] \in Seq(T)
  OBVIOUS
<1> HIDE DEF more
<1>j. PICK g : Joined(g, N + 1, more, T) /\ g[N + 1] = FlattenSeq(more)
  <2>1. Len(more) # 0
    BY <1>0
  <2>2. \E g : Joined(g, Len(more), more, T) /\ g[Len(more)] = FlattenSeq(more)
    BY <1>0, <2>1, FlattenParts
  <2> QED
    BY <1>0, <2>2
<1>1. /\ g \in [1 .. N + 1 -> Seq(T)] /\ g[N + 1] = FlattenSeq(more)
      /\ \A i \in 1 .. N + 1 : g[i] = IF i = 1 THEN more[i] ELSE g[i - 1] \o more[i]
  BY <1>j DEF Joined
<1>2. CASE N = 0
  <2>1. seqs = <<>>
    BY <1>2, EmptySeq
  <2>2. FlattenSeq(seqs) = <<>>
    BY <1>2, <2>1 DEF FlattenSeq
  <2>3. g[1] = more[1]
    BY <1>0, <1>1
  <2>4. <<>> \o s = s
    OBVIOUS
  <2> QED
    BY <1>0, <1>1, <1>2, <2>2, <2>3, <2>4 DEF more
<1>3. CASE N # 0
  <2>j. PICK f : Joined(f, N, seqs, T) /\ f[N] = FlattenSeq(seqs)
    BY <1>3, FlattenParts
  <2>1. /\ f \in [1 .. N -> Seq(T)] /\ f[N] = FlattenSeq(seqs)
        /\ \A i \in 1 .. N : f[i] = IF i = 1 THEN seqs[i] ELSE f[i - 1] \o seqs[i]
    BY <2>j DEF Joined
  <2> HIDE DEF N
  <2> DEFINE V == {n \in Nat : n + 1 <= N => f[n + 1] = g[n + 1]}
  <2>2. 0 \in V
    <3>1. 1 \in 1 .. N /\ 1 \in 1 .. N + 1
      BY <1>0, <1>3
    <3>2. f[1] = seqs[1] /\ g[1] = more[1] /\ more[1] = seqs[1]
      BY <1>0, <1>1, <2>1, <3>1
    <3> QED
      BY <3>2
  <2>3. ASSUME NEW n \in Nat, n \in V PROVE n + 1 \in V
    <3> SUFFICES ASSUME n + 2 <= N PROVE f[n + 2] = g[n + 2]
      OBVIOUS
    <3>1. n + 2 \in 1 .. N /\ n + 2 \in 1 .. N + 1 /\ n + 2 # 1 /\ (n + 2) - 1 = n + 1 /\ n + 1 <= N
      BY <1>0
    <3>2. f[n + 1] = g[n + 1]
      BY <3>1, <2>3
    <3>3. f[n + 2] = f[n + 1] \o seqs[n + 2]
      BY <3>1, <2>1
    <3>4. g[n + 2] = g[n + 1] \o seqs[n + 2]
      BY <3>1, <1>1, <1>0
    <3> QED
      BY <3>2, <3>3, <3>4
  <2>4. f[N] = g[N]
    <3> HIDE DEF V
    <3>1. Nat \subseteq V
      BY <2>2, <2>3, NumberInduction
    <3> USE DEF V
    <3>2. N - 1 \in V /\ (N - 1) + 1 = N
      BY <1>0, <1>3, <3>1
    <3> QED
      BY <3>2
  <2>5. g[N + 1] = g[N] \o more[N + 1]
    <3>1. N + 1 \in 1 .. N + 1 /\ N + 1 # 1 /\ (N + 1) - 1 = N
      BY <1>0, <1>3
    <3> QED
      BY <3>1, <1>1
  <2> QED
    BY <1>0, <1>1, <2>1, <2>4, <2>5 DEF more
<1> QED
  BY <1>2, <1>3

\* Sequences of a character or two.
LEMMA ShortSeqs ==
  ASSUME NEW S, NEW x \in S, NEW y \in S
  PROVE  <<x>> \in Seq(S) /\ <<x, y>> \in Seq(S)
OBVIOUS

\* What putting them at the end does.
LEMMA AppendShort ==
  ASSUME NEW S, NEW a \in Seq(S), NEW x \in S, NEW y \in S
  PROVE  /\ Append(a, x) \in Seq(S)
         /\ a \o <<x>> = Append(a, x)
         /\ a \o <<x, y>> = Append(Append(a, x), y)
         /\ (a \o <<x>>) \o <<y>> = a \o <<x, y>>
<1>1. a \o <<x>> = Append(a, x) /\ Append(a, x) \in Seq(S)
  OBVIOUS
<1>2. a \o <<x, y>> = Append(Append(a, x), y)
  OBVIOUS
<1>3. Append(a, x) \o <<y>> = Append(Append(a, x), y)
  <2> DEFINE b == Append(a, x)
  <2>1. b \in Seq(S)
    BY <1>1
  <2> HIDE DEF b
  <2>2. b \o <<y>> = Append(b, y)
    BY <2>1
  <2> QED
    BY <2>2 DEF b
<1> QED
  BY <1>1, <1>2, <1>3

\* What Append makes, by its length and its elements.
LEMMA AppendIs ==
  ASSUME NEW S, NEW a \in Seq(S), NEW x \in S, NEW b \in Seq(S),
         Len(b) = Len(a) + 1, b[Len(a) + 1] = x, \A i \in 1 .. Len(a) : b[i] = a[i]
  PROVE  b = Append(a, x)
<1>1. /\ Append(a, x) \in Seq(S) /\ Len(Append(a, x)) = Len(a) + 1
      /\ \A i \in 1 .. Len(a) + 1 : Append(a, x)[i] = IF i = Len(a) + 1 THEN x ELSE a[i]
  OBVIOUS
<1>2. \A i \in 1 .. Len(b) : b[i] = Append(a, x)[i]
  BY <1>1
<1> QED
  BY <1>1, <1>2, SeqEqual

\* What a character becomes.
Piece(x, c, r) == IF x = c THEN r ELSE <<x>>

\* One more character goes to the end of what is replaced.
LEMMA ReplacedAppend ==
  ASSUME NEW a \in Seq(Char), NEW x \in Char, NEW c, NEW r \in Seq(Char)
  PROVE  /\ Replaced(a, c, r) \in Seq(Char)
         /\ Replaced(Append(a, x), c, r) = Replaced(a, c, r) \o Piece(x, c, r)
<1> DEFINE pieces(s) == [i \in 1 .. Len(s) |-> IF s[i] = c THEN r ELSE <<s[i]>>]
<1>1. ASSUME NEW s \in Seq(Char)
      PROVE  pieces(s) \in Seq(Seq(Char)) /\ Replaced(s, c, r) = FlattenSeq(pieces(s))
  <2>1. Len(s) \in Nat /\ \A i \in 1 .. Len(s) : s[i] \in Char
    OBVIOUS
  <2>2. \A i \in 1 .. Len(s) : (IF s[i] = c THEN r ELSE <<s[i]>>) \in Seq(Char)
    BY <2>1, ShortSeqs
  <2>3. pieces(s) \in [1 .. Len(s) -> Seq(Char)]
    BY <2>2
  <2>4. pieces(s) \in Seq(Seq(Char))
    BY <2>1, <2>3
  <2>5. Replaced(s, c, r) = FlattenSeq(pieces(s))
    BY DEF Replaced
  <2> QED
    BY <2>4, <2>5
<1>2. Append(a, x) \in Seq(Char) /\ Piece(x, c, r) \in Seq(Char)
  BY ShortSeqs, AppendShort DEF Piece
<1>3. pieces(Append(a, x)) = Append(pieces(a), Piece(x, c, r))
  <2>1. Len(a) \in Nat /\ Len(Append(a, x)) = Len(a) + 1
    OBVIOUS
  <2>2. Len(pieces(a)) = Len(a) /\ Len(pieces(Append(a, x))) = Len(a) + 1
    BY <2>1
  <2>3. Append(a, x)[Len(a) + 1] = x /\ \A i \in 1 .. Len(a) : Append(a, x)[i] = a[i]
    BY <2>1
  <2>4. pieces(Append(a, x))[Len(a) + 1] = Piece(x, c, r)
    BY <2>1, <2>3 DEF Piece
  <2>5. \A i \in 1 .. Len(a) : pieces(Append(a, x))[i] = pieces(a)[i]
    BY <2>1, <2>3
  <2>6. pieces(a) \in Seq(Seq(Char)) /\ pieces(Append(a, x)) \in Seq(Seq(Char))
    BY <1>1, <1>2
  <2> HIDE DEF pieces
  <2> QED
    BY <1>2, <2>2, <2>4, <2>5, <2>6, AppendIs
<1> HIDE DEF pieces
<1>4. FlattenSeq(Append(pieces(a), Piece(x, c, r))) = FlattenSeq(pieces(a)) \o Piece(x, c, r)
  BY <1>1, <1>2, FlattenAppend
<1>5. FlattenSeq(pieces(a)) \in Seq(Char)
  BY <1>1, FlattenType
<1> QED
  BY <1>1, <1>2, <1>3, <1>4, <1>5

\* Nothing becomes nothing.
LEMMA ReplacedNothing == ASSUME NEW c, NEW r PROVE Replaced(<<>>, c, r) = <<>>
<1> DEFINE pieces == [i \in 1 .. Len(<<>>) |-> IF <<>>[i] = c THEN r ELSE <<<<>>[i]>>]
<1>1. Replaced(<<>>, c, r) = FlattenSeq(pieces)
  BY DEF Replaced
<1>2. Len(<<>>) = 0 /\ 1 .. 0 = {}
  OBVIOUS
<1>3. pieces = <<>>
  BY <1>2
<1>4. FlattenSeq(<<>>) = <<>>
  BY <1>2 DEF FlattenSeq
<1> QED
  BY <1>1, <1>3, <1>4

\* The three steps to the regular expression.
Escaped(s) == Replaced(s, ".", <<"\\", ".">>)
Starred(s) == Replaced(s, "*", <<".", "*">>)
Dotted(s)  == Replaced(s, "?", <<".">>)

\* A dot is escaped.
LEMMA EscapedAppend ==
  ASSUME NEW a \in Seq(Char), NEW x \in Char
  PROVE  /\ Escaped(a) \in Seq(Char)
         /\ x = "." => Escaped(Append(a, x)) = Append(Append(Escaped(a), "\\"), ".")
         /\ x # "." => Escaped(Append(a, x)) = Append(Escaped(a), x)
<1> DEFINE r == <<"\\", ".">>
           b == Replaced(a, ".", r)
<1>1. "\\" \in Char /\ "." \in Char
  BY TextAssumption
<1>2. r \in Seq(Char)
  BY <1>1, ShortSeqs
<1>3. x = "." => Piece(x, ".", r) = <<"\\", ".">>
  BY DEF Piece
<1>4. x # "." => Piece(x, ".", r) = <<x>>
  BY DEF Piece
<1>5. Escaped(a) = b /\ Escaped(Append(a, x)) = Replaced(Append(a, x), ".", r)
  BY DEF Escaped
<1> HIDE DEF r
<1>6. b \in Seq(Char) /\ Replaced(Append(a, x), ".", r) = b \o Piece(x, ".", r)
  BY <1>2, ReplacedAppend
<1> HIDE DEF b
<1>7. b \o <<"\\", ".">> = Append(Append(b, "\\"), ".") /\ b \o <<x>> = Append(b, x)
  BY <1>1, <1>6, AppendShort
<1> QED
  BY <1>3, <1>4, <1>5, <1>6, <1>7

\* A star becomes any number of any characters.
LEMMA StarredAppend ==
  ASSUME NEW a \in Seq(Char), NEW x \in Char
  PROVE  /\ Starred(a) \in Seq(Char)
         /\ x = "*" => Starred(Append(a, x)) = Append(Append(Starred(a), "."), "*")
         /\ x # "*" => Starred(Append(a, x)) = Append(Starred(a), x)
<1> DEFINE r == <<".", "*">>
           b == Replaced(a, "*", r)
<1>1. "*" \in Char /\ "." \in Char
  BY TextAssumption
<1>2. r \in Seq(Char)
  BY <1>1, ShortSeqs
<1>3. x = "*" => Piece(x, "*", r) = <<".", "*">>
  BY DEF Piece
<1>4. x # "*" => Piece(x, "*", r) = <<x>>
  BY DEF Piece
<1>5. Starred(a) = b /\ Starred(Append(a, x)) = Replaced(Append(a, x), "*", r)
  BY DEF Starred
<1> HIDE DEF r
<1>6. b \in Seq(Char) /\ Replaced(Append(a, x), "*", r) = b \o Piece(x, "*", r)
  BY <1>2, ReplacedAppend
<1> HIDE DEF b
<1>7. b \o <<".", "*">> = Append(Append(b, "."), "*") /\ b \o <<x>> = Append(b, x)
  BY <1>1, <1>6, AppendShort
<1> QED
  BY <1>3, <1>4, <1>5, <1>6, <1>7

\* One character for one.
LEMMA OneForOne ==
  ASSUME NEW a \in Seq(Char), NEW x \in Char, NEW c, NEW y \in Char
  PROVE  /\ Replaced(a, c, <<y>>) \in Seq(Char)
         /\ Replaced(Append(a, x), c, <<y>>) =
              Append(Replaced(a, c, <<y>>), IF x = c THEN y ELSE x)
<1> DEFINE r == <<y>>
           b == Replaced(a, c, r)
           z == IF x = c THEN y ELSE x
<1>2. r \in Seq(Char) /\ z \in Char
  BY ShortSeqs
<1>3. Piece(x, c, r) = <<z>>
  BY DEF Piece
<1> HIDE DEF r, z
<1>6. b \in Seq(Char) /\ Replaced(Append(a, x), c, r) = b \o Piece(x, c, r)
  BY <1>2, ReplacedAppend
<1> HIDE DEF b
<1>7. b \o <<z>> = Append(b, z)
  BY <1>2, <1>6, AppendShort
<1>8. b \in Seq(Char) /\ Replaced(Append(a, x), c, r) = Append(b, z)
  BY <1>3, <1>6, <1>7
<1> QED
  BY <1>8 DEF b, r, z

\* A question mark becomes any character.
LEMMA DottedAppend ==
  ASSUME NEW a \in Seq(Char), NEW x \in Char
  PROVE  /\ Dotted(a) \in Seq(Char)
         /\ x = "?" => Dotted(Append(a, x)) = Append(Dotted(a), ".")
         /\ x # "?" => Dotted(Append(a, x)) = Append(Dotted(a), x)
<1>1. "." \in Char
  BY TextAssumption
<1> QED
  BY <1>1, OneForOne DEF Dotted

\* What a character of a route's pattern becomes in the regular expression.
Token(x) ==
  CASE x = "." -> <<"\\", ".">>
    [] x = "*" -> <<".", "*">>
    [] x = "?" -> <<".">>
    [] OTHER   -> <<x>>

\* It is one of those, or two.
LEMMA TokenType == ASSUME NEW x \in Char PROVE Token(x) \in Seq(Char)
<1>1. "\\" \in Char /\ "." \in Char /\ "*" \in Char
  BY TextAssumption
<1> QED
  BY <1>1, ShortSeqs DEF Token

\* The regular expression of a pattern, character by character.
LEMMA PatternAppend ==
  ASSUME NEW d \in Seq(Char), NEW x \in Char
  PROVE  /\ Pattern(d) \in Seq(Char)
         /\ Pattern(Append(d, x)) = Pattern(d) \o Token(x)
<1> DEFINE A == Escaped(d)
           B == Starred(A)
           C == Dotted(B)
<1>c. "\\" \in Char /\ "." \in Char /\ "*" \in Char
  BY TextAssumption
<1>p. \A s : Pattern(s) = Dotted(Starred(Escaped(s)))
  BY DEF Pattern, Dotted, Starred, Escaped
<1>0. "\\" # "*" /\ "\\" # "?" /\ "." # "*" /\ "." # "?" /\ "*" # "?" /\ "*" # "."
  OBVIOUS
<1>1. A \in Seq(Char)
  BY EscapedAppend
<1>2. B \in Seq(Char)
  <2> HIDE DEF A
  <2> QED BY <1>1, StarredAppend
<1>3. C \in Seq(Char)
  <2> HIDE DEF B
  <2> QED BY <1>2, DottedAppend
<1>a. B = Starred(A) /\ C = Dotted(B) /\ A = Escaped(d) /\ Pattern(d) = C
  BY <1>p
<1> HIDE DEF A, B, C
<1>4. CASE x = "."
  <2>1. Escaped(Append(d, x)) = Append(Append(A, "\\"), ".")
    BY <1>4, <1>a, EscapedAppend
  <2>2. Starred(Append(A, "\\")) = Append(B, "\\") /\ Append(A, "\\") \in Seq(Char)
    BY <1>0, <1>1, <1>c, <1>a, StarredAppend, AppendShort
  <2>3. Starred(Append(Append(A, "\\"), ".")) = Append(Append(B, "\\"), ".")
    BY <1>0, <1>c, <2>2, StarredAppend
  <2>4. Dotted(Append(B, "\\")) = Append(C, "\\") /\ Append(B, "\\") \in Seq(Char)
    BY <1>0, <1>2, <1>c, <1>a, DottedAppend, AppendShort
  <2>5. Dotted(Append(Append(B, "\\"), ".")) = Append(Append(C, "\\"), ".")
    BY <1>0, <1>c, <2>4, DottedAppend
  <2>6. Token(x) = <<"\\", ".">>
    BY <1>4 DEF Token
  <2>7. C \o <<"\\", ".">> = Append(Append(C, "\\"), ".")
    BY <1>3, <1>c, AppendShort
  <2>8. Pattern(Append(d, x)) = Append(Append(C, "\\"), ".")
    BY <1>p, <2>1, <2>3, <2>5
  <2> QED
    BY <1>3, <1>a, <2>6, <2>7, <2>8
<1>5. CASE x = "*"
  <2>1. Escaped(Append(d, x)) = Append(A, x)
    BY <1>0, <1>5, <1>a, EscapedAppend
  <2>2. Starred(Append(A, x)) = Append(Append(B, "."), "*")
    BY <1>5, <1>1, <1>a, StarredAppend
  <2>4. Dotted(Append(B, ".")) = Append(C, ".") /\ Append(B, ".") \in Seq(Char)
    BY <1>0, <1>2, <1>c, <1>a, DottedAppend, AppendShort
  <2>5. Dotted(Append(Append(B, "."), "*")) = Append(Append(C, "."), "*")
    BY <1>0, <1>c, <2>4, DottedAppend
  <2>6. Token(x) = <<".", "*">>
    BY <1>5 DEF Token
  <2>7. C \o <<".", "*">> = Append(Append(C, "."), "*")
    BY <1>3, <1>c, AppendShort
  <2>8. Pattern(Append(d, x)) = Append(Append(C, "."), "*")
    BY <1>p, <2>1, <2>2, <2>5
  <2> QED
    BY <1>3, <1>a, <2>6, <2>7, <2>8
<1>6. CASE x # "." /\ x # "*"
  <2> DEFINE y == IF x = "?" THEN "." ELSE x
  <2>1. Escaped(Append(d, x)) = Append(A, x)
    BY <1>6, <1>a, EscapedAppend
  <2>2. Starred(Append(A, x)) = Append(B, x)
    BY <1>6, <1>1, <1>a, StarredAppend
  <2>3. Dotted(Append(B, x)) = Append(C, y)
    BY <1>2, <1>a, DottedAppend
  <2>4. Token(x) = <<y>> /\ y \in Char
    BY <1>6, <1>c DEF Token
  <2> HIDE DEF y
  <2>5. C \o <<y>> = Append(C, y)
    BY <1>3, <2>4, AppendShort
  <2>8. Pattern(Append(d, x)) = Append(C, y)
    BY <1>p, <2>1, <2>2, <2>3
  <2> QED
    BY <1>3, <1>a, <2>4, <2>5, <2>8
<1> QED
  BY <1>4, <1>5, <1>6

\* What it becomes in the LIKE.
LikeToken(x) ==
  CASE x = "*" -> "%"
    [] x = "?" -> "_"
    [] OTHER   -> x

\* The two steps to the LIKE.
Percent(s)    == Replaced(s, "*", <<"%">>)
Underscore(s) == Replaced(s, "?", <<"_">>)

\* A star becomes a percent sign.
LEMMA PercentAppend ==
  ASSUME NEW a \in Seq(Char), NEW x \in Char
  PROVE  /\ Percent(a) \in Seq(Char)
         /\ x = "*" => Percent(Append(a, x)) = Append(Percent(a), "%")
         /\ x # "*" => Percent(Append(a, x)) = Append(Percent(a), x)
<1>1. "%" \in Char
  BY TextAssumption
<1> QED
  BY <1>1, OneForOne DEF Percent

\* A question mark becomes an underscore.
LEMMA UnderscoreAppend ==
  ASSUME NEW a \in Seq(Char), NEW x \in Char
  PROVE  /\ Underscore(a) \in Seq(Char)
         /\ x = "?" => Underscore(Append(a, x)) = Append(Underscore(a), "_")
         /\ x # "?" => Underscore(Append(a, x)) = Append(Underscore(a), x)
<1>1. "_" \in Char
  BY TextAssumption
<1> DEFINE u == "_"
<1>2. u \in Char
  BY <1>1
<1>3. \A s : Underscore(s) = Replaced(s, "?", <<u>>)
  BY DEF Underscore
<1>4. u = "_"
  OBVIOUS
<1> HIDE DEF u
<1>5. /\ Replaced(a, "?", <<u>>) \in Seq(Char)
      /\ Replaced(Append(a, x), "?", <<u>>) =
           Append(Replaced(a, "?", <<u>>), IF x = "?" THEN u ELSE x)
  BY <1>2, OneForOne
<1> QED
  BY <1>3, <1>4, <1>5

\* The LIKE of a pattern, character by character.
LEMMA LikeAppend ==
  ASSUME NEW d \in Seq(Char), NEW x \in Char
  PROVE  /\ LikePattern(d) \in Seq(Char) /\ LikeToken(x) \in Char
         /\ LikePattern(Append(d, x)) = Append(LikePattern(d), LikeToken(x))
<1> DEFINE A == Percent(d)
           B == Underscore(A)
<1>c. "%" \in Char /\ "_" \in Char /\ "%" # "?" /\ "*" # "?"
  BY TextAssumption
<1>p. \A s : LikePattern(s) = Underscore(Percent(s))
  BY DEF LikePattern, Underscore, Percent
<1>t. LikeToken(x) \in Char
  BY <1>c DEF LikeToken
<1>1. A \in Seq(Char)
  BY PercentAppend
<1>a. A = Percent(d) /\ B = Underscore(A) /\ LikePattern(d) = B
  BY <1>p
<1> HIDE DEF A
<1>2. B \in Seq(Char)
  BY <1>1, UnderscoreAppend
<1> HIDE DEF B
<1>3. CASE x = "*"
  <2>1. Percent(Append(d, x)) = Append(A, "%")
    BY <1>3, <1>a, PercentAppend
  <2>2. Underscore(Append(A, "%")) = Append(B, "%")
    BY <1>c, <1>1, <1>a, UnderscoreAppend
  <2>3. LikeToken(x) = "%"
    BY <1>3 DEF LikeToken
  <2> QED
    BY <1>2, <1>a, <1>p, <1>t, <2>1, <2>2, <2>3
<1>4. CASE x # "*"
  <2>1. Percent(Append(d, x)) = Append(A, x)
    BY <1>4, <1>a, PercentAppend
  <2>2. Underscore(Append(A, x)) = Append(B, LikeToken(x))
    BY <1>4, <1>1, <1>a, UnderscoreAppend DEF LikeToken
  <2> QED
    BY <1>2, <1>a, <1>p, <1>t, <2>1, <2>2
<1> QED
  BY <1>3, <1>4

-----------------------------------------------------------------------------
(* The matchers, as sets of places                                         *)

\* From where LIKE gets to the end in a step, when it gets there from A.
LikeStep(like, s, A) ==
  {p \in Places(like, s) :
     IF p[1] > Len(like) THEN p[2] = Len(s) + 1
     ELSE IF like[p[1]] = "%"
          THEN <<p[1] + 1, p[2]>> \in A
               \/ (p[2] <= Len(s) /\ <<p[1], p[2] + 1>> \in A)
          ELSE p[2] <= Len(s) /\ like[p[1]] \in {"_", s[p[2]]}
               /\ <<p[1] + 1, p[2] + 1>> \in A}

\* LIKE matches a text if it gets to the end from the beginning.
LEMMA LikeStates ==
  ASSUME NEW like \in Seq(Char), NEW s \in Seq(Char)
  PROVE  \E A : A = LikeStep(like, s, A) /\ (Like(s, like) <=> <<1, 1>> \in A)
<1> DEFINE D == Places(like, s)
           Body(m, p) ==
             IF p[1] > Len(like) THEN p[2] = Len(s) + 1
             ELSE IF like[p[1]] = "%"
                  THEN m[<<p[1] + 1, p[2]>>]
                       \/ (p[2] <= Len(s) /\ m[<<p[1], p[2] + 1>>])
                  ELSE /\ p[2] <= Len(s) /\ like[p[1]] \in {"_", s[p[2]]}
                       /\ m[<<p[1] + 1, p[2] + 1>>]
           Eqn(m) == [p \in D |-> Body(m, p)]
           m == CHOOSE m : m = Eqn(m)
           F == [A \in SUBSET D |-> LikeStep(like, s, A)]
<1>0. Len(like) \in Nat /\ Len(s) \in Nat /\ <<1, 1>> \in D
  BY DEF Places
<1>1. Like(s, like) = m[<<1, 1>>]
  BY DEF Like
<1>2. F \in [SUBSET D -> SUBSET D]
  BY DEF LikeStep
<1>3. \A A, B \in SUBSET D : A \subseteq B => F[A] \subseteq F[B]
  BY DEF LikeStep
<1>4. PICK A \in SUBSET D : F[A] = A
  <2> HIDE DEF F, m, D
  <2> QED BY <1>2, <1>3, MonotoneFixpoint
<1>a. A = LikeStep(like, s, A)
  BY <1>4
<1> DEFINE g == [p \in D |-> p \in A]
<1>5. ASSUME NEW p \in D PROVE (p \in A) <=> Body(g, p)
  <2>1. p[1] \in 1 .. Len(like) + 2 /\ p[2] \in 1 .. Len(s) + 1
    BY DEF Places
  <2>2. (p \in A) <=>
          (IF p[1] > Len(like) THEN p[2] = Len(s) + 1
           ELSE IF like[p[1]] = "%"
                THEN <<p[1] + 1, p[2]>> \in A
                     \/ (p[2] <= Len(s) /\ <<p[1], p[2] + 1>> \in A)
                ELSE p[2] <= Len(s) /\ like[p[1]] \in {"_", s[p[2]]}
                     /\ <<p[1] + 1, p[2] + 1>> \in A)
    BY <1>a DEF LikeStep
  <2>3. \A q \in D : g[q] <=> (q \in A)
    OBVIOUS
  <2>4. CASE p[1] > Len(like)
    BY <2>4, <2>2
  <2>5. CASE ~(p[1] > Len(like)) /\ like[p[1]] = "%"
    <3>1. <<p[1] + 1, p[2]>> \in D
      BY <1>0, <2>1, <2>5 DEF Places
    <3>2. p[2] <= Len(s) => <<p[1], p[2] + 1>> \in D
      BY <1>0, <2>1, <2>5 DEF Places
    <3> HIDE DEF g, D
    <3> QED
      BY <2>2, <2>3, <2>5, <3>1, <3>2
  <2>6. CASE ~(p[1] > Len(like)) /\ like[p[1]] # "%"
    <3>1. p[2] <= Len(s) => <<p[1] + 1, p[2] + 1>> \in D
      BY <1>0, <2>1, <2>6 DEF Places
    <3> HIDE DEF g, D
    <3> QED
      BY <2>2, <2>3, <2>6, <3>1
  <2> QED
    BY <2>4, <2>5, <2>6
<1>b. g = [p \in D |-> Body(g, p)]
  <2>1. ASSUME NEW p \in D PROVE (p \in A) = Body(g, p)
    <3>1. (p \in A) <=> Body(g, p)
      BY <1>5
    <3> HIDE DEF g, D
    <3>2. Body(g, p) \in BOOLEAN
      <4>1. CASE p[1] > Len(like)
        <5>1. Body(g, p) = (p[2] = Len(s) + 1)
          BY <4>1
        <5> HIDE DEF Body
        <5> QED BY <5>1, Zenon
      <4>2. CASE ~(p[1] > Len(like)) /\ like[p[1]] = "%"
        BY <4>2
      <4>3. CASE ~(p[1] > Len(like)) /\ like[p[1]] # "%"
        <5>1. Body(g, p) = (p[2] <= Len(s) /\ like[p[1]] \in {"_", s[p[2]]}
                       /\ g[<<p[1] + 1, p[2] + 1>>])
          BY <4>3
        <5> HIDE DEF Body
        <5> QED BY <5>1, Zenon
      <4> QED BY <4>1, <4>2, <4>3
    <3>3. (p \in A) \in BOOLEAN
      OBVIOUS
    <3> HIDE DEF Body
    <3> QED BY <3>1, <3>2, <3>3, Zenon
  <2> HIDE DEF Body
  <2> QED BY <2>1
<1>6. g = Eqn(g)
  BY <1>b
<1>7. m = Eqn(m)
  <2> HIDE DEF Eqn
  <2> QED BY <1>6
<1> HIDE DEF m
<1> DEFINE B == {p \in D : m[p]}
<1>8. \A p \in D : m[p] <=> Body(m, p)
  <2>1. m = [p \in D |-> Body(m, p)]
    BY <1>7
  <2> HIDE DEF Body
  <2> QED BY <2>1
<1>9. B = LikeStep(like, s, B)
  <2>1. ASSUME NEW p \in D PROVE m[p] <=> p \in LikeStep(like, s, B)
    <3>1. p[1] \in 1 .. Len(like) + 2 /\ p[2] \in 1 .. Len(s) + 1
      BY DEF Places
    <3>2. p \in LikeStep(like, s, B) <=>
            (IF p[1] > Len(like) THEN p[2] = Len(s) + 1
             ELSE IF like[p[1]] = "%"
                  THEN <<p[1] + 1, p[2]>> \in B
                       \/ (p[2] <= Len(s) /\ <<p[1], p[2] + 1>> \in B)
                  ELSE p[2] <= Len(s) /\ like[p[1]] \in {"_", s[p[2]]}
                       /\ <<p[1] + 1, p[2] + 1>> \in B)
      <4> HIDE DEF B
      <4> QED BY DEF LikeStep
    <3>3. \A q \in D : m[q] <=> (q \in B)
      OBVIOUS
    <3>4. CASE p[1] > Len(like)
      BY <3>4, <3>2, <1>8
    <3>5. CASE ~(p[1] > Len(like)) /\ like[p[1]] = "%"
      <4>1. <<p[1] + 1, p[2]>> \in D
        BY <1>0, <3>1, <3>5 DEF Places
      <4>2. p[2] <= Len(s) => <<p[1], p[2] + 1>> \in D
        BY <1>0, <3>1, <3>5 DEF Places
      <4> HIDE DEF B, D
      <4> QED
        BY <1>8, <3>2, <3>3, <3>5, <4>1, <4>2
    <3>6. CASE ~(p[1] > Len(like)) /\ like[p[1]] # "%"
      <4>1. p[2] <= Len(s) => <<p[1] + 1, p[2] + 1>> \in D
        BY <1>0, <3>1, <3>6 DEF Places
      <4> HIDE DEF B, D
      <4> QED
        BY <1>8, <3>2, <3>3, <3>6, <4>1
    <3> QED
      BY <3>4, <3>5, <3>6
  <2>2. LikeStep(like, s, B) \subseteq D
    BY DEF LikeStep
  <2> QED
    BY <2>1, <2>2
<1> QED
  BY <1>0, <1>1, <1>9

\* From where the regular expression gets to the end in a step, when it gets there from A.
RegStep(re, s, A) ==
  {p \in Places(re, s) :
     IF p[1] > Len(re) THEN p[2] = Len(s) + 1
     ELSE IF Repeats(re, p[1])
          THEN <<Behind(re, p[1]) + 1, p[2]>> \in A
               \/ (Fits(re, s, p[1], p[2]) /\ <<p[1], p[2] + 1>> \in A)
          ELSE Fits(re, s, p[1], p[2]) /\ <<Behind(re, p[1]), p[2] + 1>> \in A}

\* the regular expression matches a text if it gets to the end from the beginning.
LEMMA RegStates ==
  ASSUME NEW re \in Seq(Char), NEW s \in Seq(Char)
  PROVE  \E A : A = RegStep(re, s, A) /\ (RegExpTest(re, s) <=> <<1, 1>> \in A)
<1> DEFINE D == Places(re, s)
           Body(m, p) ==
             IF p[1] > Len(re) THEN p[2] = Len(s) + 1
             ELSE IF Repeats(re, p[1])
                  THEN m[<<Behind(re, p[1]) + 1, p[2]>>]
                       \/ (Fits(re, s, p[1], p[2]) /\ m[<<p[1], p[2] + 1>>])
                  ELSE Fits(re, s, p[1], p[2]) /\ m[<<Behind(re, p[1]), p[2] + 1>>]
           Eqn(m) == [p \in D |-> Body(m, p)]
           m == CHOOSE m : m = Eqn(m)
           F == [A \in SUBSET D |-> RegStep(re, s, A)]
<1>0. Len(re) \in Nat /\ Len(s) \in Nat /\ <<1, 1>> \in D
  BY DEF Places
<1>1. RegExpTest(re, s) = m[<<1, 1>>]
  BY DEF RegExpTest
<1>2. F \in [SUBSET D -> SUBSET D]
  BY DEF RegStep
<1>3. \A A, B \in SUBSET D : A \subseteq B => F[A] \subseteq F[B]
  BY DEF RegStep
<1>4. PICK A \in SUBSET D : F[A] = A
  <2> HIDE DEF F, m, D
  <2> QED BY <1>2, <1>3, MonotoneFixpoint
<1>a. A = RegStep(re, s, A)
  BY <1>4
<1> DEFINE g == [p \in D |-> p \in A]
<1>5. ASSUME NEW p \in D PROVE (p \in A) <=> Body(g, p)
  <2>1. p[1] \in 1 .. Len(re) + 2 /\ p[2] \in 1 .. Len(s) + 1
    BY DEF Places
  <2>2. (p \in A) <=>
          (IF p[1] > Len(re) THEN p[2] = Len(s) + 1
           ELSE IF Repeats(re, p[1])
                THEN <<Behind(re, p[1]) + 1, p[2]>> \in A
                     \/ (Fits(re, s, p[1], p[2]) /\ <<p[1], p[2] + 1>> \in A)
                ELSE Fits(re, s, p[1], p[2]) /\ <<Behind(re, p[1]), p[2] + 1>> \in A)
    BY <1>a DEF RegStep
  <2>3. \A q \in D : g[q] <=> (q \in A)
    OBVIOUS
  <2>4. CASE p[1] > Len(re)
    BY <2>4, <2>2
  <2>5. CASE ~(p[1] > Len(re)) /\ Repeats(re, p[1])
    <3>1. <<Behind(re, p[1]) + 1, p[2]>> \in D
      BY <1>0, <2>1, <2>5 DEF Places, Behind, Fits, Repeats
    <3>2. Fits(re, s, p[1], p[2]) => <<p[1], p[2] + 1>> \in D
      BY <1>0, <2>1, <2>5 DEF Places, Behind, Fits, Repeats
    <3> HIDE DEF g, D
    <3> QED
      BY <2>2, <2>3, <2>5, <3>1, <3>2
  <2>6. CASE ~(p[1] > Len(re)) /\ ~Repeats(re, p[1])
    <3>1. Fits(re, s, p[1], p[2]) => <<Behind(re, p[1]), p[2] + 1>> \in D
      <4>1. Fits(re, s, p[1], p[2]) => p[2] <= Len(s)
        BY DEF Fits
      <4>2. Behind(re, p[1]) \in 1 .. Len(re) + 2
        BY <1>0, <2>1, <2>6 DEF Behind
      <4>3. p[2] <= Len(s) => p[2] + 1 \in 1 .. Len(s) + 1
        BY <1>0, <2>1
      <4> QED
        BY <4>1, <4>2, <4>3 DEF Places
    <3> HIDE DEF g, D
    <3> QED
      BY <2>2, <2>3, <2>6, <3>1
  <2> QED
    BY <2>4, <2>5, <2>6
<1>b. g = [p \in D |-> Body(g, p)]
  <2>1. ASSUME NEW p \in D PROVE (p \in A) = Body(g, p)
    <3>1. (p \in A) <=> Body(g, p)
      BY <1>5
    <3> HIDE DEF g, D
    <3>2. Body(g, p) \in BOOLEAN
      <4>1. CASE p[1] > Len(re)
        <5>1. Body(g, p) = (p[2] = Len(s) + 1)
          BY <4>1
        <5> HIDE DEF Body
        <5> QED BY <5>1, Zenon
      <4>2. CASE ~(p[1] > Len(re)) /\ Repeats(re, p[1])
        BY <4>2
      <4>3. CASE ~(p[1] > Len(re)) /\ ~Repeats(re, p[1])
        <5>1. Body(g, p) = (Fits(re, s, p[1], p[2]) /\ g[<<Behind(re, p[1]), p[2] + 1>>])
          BY <4>3
        <5> HIDE DEF Body
        <5> QED BY <5>1, Zenon
      <4> QED BY <4>1, <4>2, <4>3
    <3>3. (p \in A) \in BOOLEAN
      OBVIOUS
    <3> HIDE DEF Body
    <3> QED BY <3>1, <3>2, <3>3, Zenon
  <2> HIDE DEF Body
  <2> QED BY <2>1
<1>6. g = Eqn(g)
  BY <1>b
<1>7. m = Eqn(m)
  <2> HIDE DEF Eqn
  <2> QED BY <1>6
<1> HIDE DEF m
<1> DEFINE B == {p \in D : m[p]}
<1>8. \A p \in D : m[p] <=> Body(m, p)
  <2>1. m = [p \in D |-> Body(m, p)]
    BY <1>7
  <2> HIDE DEF Body
  <2> QED BY <2>1
<1>9. B = RegStep(re, s, B)
  <2>1. ASSUME NEW p \in D PROVE m[p] <=> p \in RegStep(re, s, B)
    <3>1. p[1] \in 1 .. Len(re) + 2 /\ p[2] \in 1 .. Len(s) + 1
      BY DEF Places, Behind, Fits, Repeats
    <3>2. p \in RegStep(re, s, B) <=>
            (IF p[1] > Len(re) THEN p[2] = Len(s) + 1
             ELSE IF Repeats(re, p[1])
                  THEN <<Behind(re, p[1]) + 1, p[2]>> \in B
                       \/ (Fits(re, s, p[1], p[2]) /\ <<p[1], p[2] + 1>> \in B)
                  ELSE Fits(re, s, p[1], p[2])
                       /\ <<Behind(re, p[1]), p[2] + 1>> \in B)
      <4> HIDE DEF B
      <4> QED BY DEF RegStep
    <3>3. \A q \in D : m[q] <=> (q \in B)
      OBVIOUS
    <3>4. CASE p[1] > Len(re)
      BY <3>4, <3>2, <1>8
    <3>5. CASE ~(p[1] > Len(re)) /\ Repeats(re, p[1])
      <4>1. <<Behind(re, p[1]) + 1, p[2]>> \in D
        BY <1>0, <3>1, <3>5 DEF Places, Behind, Fits, Repeats
      <4>2. Fits(re, s, p[1], p[2]) => <<p[1], p[2] + 1>> \in D
        BY <1>0, <3>1, <3>5 DEF Places, Behind, Fits, Repeats
      <4> HIDE DEF B, D
      <4> QED
        BY <1>8, <3>2, <3>3, <3>5, <4>1, <4>2
    <3>6. CASE ~(p[1] > Len(re)) /\ ~Repeats(re, p[1])
      <4>1. Fits(re, s, p[1], p[2]) => <<Behind(re, p[1]), p[2] + 1>> \in D
        <5>1. Fits(re, s, p[1], p[2]) => p[2] <= Len(s)
          BY DEF Fits
        <5>2. Behind(re, p[1]) \in 1 .. Len(re) + 2
          BY <1>0, <3>1, <3>6 DEF Behind
        <5>3. p[2] <= Len(s) => p[2] + 1 \in 1 .. Len(s) + 1
          BY <1>0, <3>1
        <5> QED
          BY <5>1, <5>2, <5>3 DEF Places
      <4> HIDE DEF B, D
      <4> QED
        BY <1>8, <3>2, <3>3, <3>6, <4>1
    <3> QED
      BY <3>4, <3>5, <3>6
  <2>2. RegStep(re, s, B) \subseteq D
    BY DEF RegStep
  <2> QED
    BY <2>1, <2>2
<1> QED
  BY <1>0, <1>1, <1>9

-----------------------------------------------------------------------------
(* The places of a pattern                                                 *)

\* A sequence that is not empty has a last element.
LEMMA LastOf ==
  ASSUME NEW S, NEW n \in Nat, NEW d \in Seq(S), Len(d) = n + 1
  PROVE  \E s \in Seq(S), x \in S : d = Append(s, x) /\ Len(s) = n
<1>1. d # <<>>
  BY EmptySeq
<1>2. PICK s \in Seq(S), x \in S : d = Append(s, x)
  BY <1>1, SequenceEmptyOrAppend
<1>3. Len(s) \in Nat /\ Len(d) = Len(s) + 1
  BY <1>2, AppendProperties
<1> QED
  BY <1>2, <1>3

\* o tells where in the regular expression the characters of a pattern are.
PlacedAt(o, d, re) ==
  /\ \A k \in 1 .. Len(d) + 1 : o[k] \in 1 .. Len(re) + 1
  /\ o[1] = 1 /\ o[Len(d) + 1] = Len(re) + 1
  /\ \A k \in 1 .. Len(d) :
       /\ o[k + 1] = o[k] + Len(Token(d[k]))
       /\ \A i \in 1 .. Len(Token(d[k])) : re[o[k] + i - 1] = Token(d[k])[i]

\* One more character.
LEMMA PlacedAppend ==
  ASSUME NEW d \in Seq(Char), NEW x \in Char, NEW re \in Seq(Char), NEW o,
         PlacedAt(o, d, re)
  PROVE  \E p : PlacedAt(p, Append(d, x), re \o Token(x))
<1> DEFINE n == Len(d)
           t == Token(x)
           more == Append(d, x)
           all == re \o t
           p == [k \in 1 .. n + 2 |-> IF k = n + 2 THEN Len(re) + 1 + Len(t) ELSE o[k]]
<1>0. /\ n \in Nat /\ t \in Seq(Char) /\ Len(t) \in Nat /\ Len(re) \in Nat
      /\ more \in Seq(Char) /\ Len(more) = n + 1 /\ more[n + 1] = x
      /\ \A k \in 1 .. n : more[k] = d[k]
  BY TokenType
<1>1. /\ all \in Seq(Char) /\ Len(all) = Len(re) + Len(t)
      /\ \A i \in 1 .. Len(re) + Len(t) : all[i] = IF i <= Len(re) THEN re[i] ELSE t[i - Len(re)]
  <2> HIDE DEF t, n
  <2> QED BY <1>0, ConcatProperties
<1>2. /\ \A k \in 1 .. n + 1 : o[k] \in 1 .. Len(re) + 1
      /\ o[1] = 1 /\ o[n + 1] = Len(re) + 1
      /\ \A k \in 1 .. n : o[k + 1] = o[k] + Len(Token(d[k]))
      /\ \A k \in 1 .. n : \A i \in 1 .. Len(Token(d[k])) : re[o[k] + i - 1] = Token(d[k])[i]
  BY DEF PlacedAt
<1>3. p[n + 2] = Len(re) + 1 + Len(t) /\ \A k \in 1 .. n + 1 : p[k] = o[k]
  BY <1>0
<1>4. t = Token(x)
  OBVIOUS
<1> HIDE DEF n, t, more, all, p
<1>5. ASSUME NEW k \in 1 .. n + 2 PROVE p[k] \in 1 .. Len(all) + 1
  <2>1. CASE k = n + 2
    BY <2>1, <1>0, <1>1, <1>3
  <2>2. CASE k # n + 2
    <3>1. k \in 1 .. n + 1
      BY <2>2, <1>0
    <3>2. p[k] \in 1 .. Len(re) + 1
      BY <3>1, <1>2, <1>3
    <3> QED
      BY <3>2, <1>0, <1>1
  <2> QED
    BY <2>1, <2>2
<1>6. ASSUME NEW k \in 1 .. n + 1
      PROVE  /\ p[k + 1] = p[k] + Len(Token(more[k]))
             /\ \A i \in 1 .. Len(Token(more[k])) : all[p[k] + i - 1] = Token(more[k])[i]
  <2>1. CASE k = n + 1
    <3>1. p[k] = Len(re) + 1 /\ p[k + 1] = Len(re) + 1 + Len(t) /\ Token(more[k]) = t
      BY <2>1, <1>0, <1>2, <1>3, <1>4
    <3>2. ASSUME NEW i \in 1 .. Len(t) PROVE all[Len(re) + 1 + i - 1] = t[i]
      <4>1. Len(re) + 1 + i - 1 = Len(re) + i
        BY <1>0
      <4>2. Len(re) + i \in 1 .. Len(re) + Len(t) /\ ~(Len(re) + i <= Len(re))
            /\ (Len(re) + i) - Len(re) = i
        BY <1>0
      <4> QED
        BY <4>1, <4>2, <1>1
    <3> QED
      BY <3>1, <3>2
  <2>2. CASE k # n + 1
    <3>1. k \in 1 .. n /\ k + 1 \in 1 .. n + 1 /\ more[k] = d[k]
      BY <2>2, <1>0
    <3>2. p[k] = o[k] /\ p[k + 1] = o[k + 1] /\ o[k + 1] = o[k] + Len(Token(d[k]))
      BY <3>1, <1>2, <1>3
    <3>d. d[k] \in Char /\ Len(Token(d[k])) \in Nat
      BY <3>1, TokenType DEF n
    <3>3. o[k] \in 1 .. Len(re) + 1 /\ o[k + 1] \in 1 .. Len(re) + 1
      BY <3>1, <1>2
    <3>4. ASSUME NEW i \in 1 .. Len(Token(d[k])) PROVE all[o[k] + i - 1] = Token(d[k])[i]
      <4>1. o[k] + i - 1 \in 1 .. Len(re)
        <5> DEFINE a == o[k]
                   l == Len(Token(d[k]))
                   r == Len(re)
        <5>1. a \in 1 .. r + 1 /\ a + l \in 1 .. r + 1 /\ l \in Nat /\ r \in Nat /\ i \in 1 .. l
          BY <3>2, <3>3, <3>d, <1>0
        <5> HIDE DEF a, l, r
        <5>2. a + i - 1 \in 1 .. r
          BY <5>1
        <5> QED
          BY <5>2 DEF a, r
      <4>2. all[o[k] + i - 1] = re[o[k] + i - 1]
        BY <4>1, <1>0, <1>1
      <4> QED
        BY <4>2, <3>1, <1>2
    <3> QED
      BY <3>1, <3>2, <3>4
  <2> QED
    BY <2>1, <2>2
<1>7. PlacedAt(p, more, all)
  <2>1. Len(more) = n + 1 /\ n + 1 + 1 = n + 2 /\ 1 \in 1 .. n + 1
    BY <1>0
  <2>2. p[1] = 1 /\ p[n + 2] = Len(all) + 1
    BY <2>1, <1>0, <1>1, <1>2, <1>3
  <2> QED
    BY <2>1, <2>2, <1>5, <1>6 DEF PlacedAt
<1> QED
  BY <1>7 DEF more, all, t

\* Every pattern has such places.
LEMMA PatternPlaces ==
  ASSUME NEW d \in Seq(Char)
  PROVE  \E o : PlacedAt(o, d, Pattern(d))
<1> DEFINE W == {n \in Nat : \A s \in Seq(Char) :
                    Len(s) = n => \E o : PlacedAt(o, s, Pattern(s))}
<1>1. 0 \in W
  <2> SUFFICES ASSUME NEW s \in Seq(Char), Len(s) = 0 PROVE \E o : PlacedAt(o, s, Pattern(s))
    OBVIOUS
  <2>1. s = <<>>
    BY EmptySeq
  <2>2. Pattern(s) = <<>>
    BY <2>1, ReplacedNothing DEF Pattern
  <2> DEFINE o == [k \in 1 .. 1 |-> 1]
  <2>3. Len(<<>>) = 0
    OBVIOUS
  <2>4. PlacedAt(o, <<>>, <<>>)
    BY <2>3 DEF PlacedAt
  <2> HIDE DEF o
  <2> QED
    BY <2>1, <2>2, <2>4
<1>2. ASSUME NEW n \in Nat, n \in W PROVE n + 1 \in W
  <2> SUFFICES ASSUME NEW s \in Seq(Char), Len(s) = n + 1
               PROVE  \E o : PlacedAt(o, s, Pattern(s))
    OBVIOUS
  <2>1. PICK a \in Seq(Char), x \in Char : s = Append(a, x) /\ Len(a) = n
    BY LastOf
  <2>2. PICK o : PlacedAt(o, a, Pattern(a))
    BY <2>1, <1>2
  <2>3. Pattern(a) \in Seq(Char) /\ Pattern(s) = Pattern(a) \o Token(x)
    BY <2>1, PatternAppend
  <2> QED
    BY <2>1, <2>2, <2>3, PlacedAppend
<1> HIDE DEF W
<1>3. Nat \subseteq W
  BY <1>1, <1>2, NumberInduction
<1> QED
  BY <1>3 DEF W

\* The LIKE has a character for each.
LEMMA LikePlaces ==
  ASSUME NEW d \in Seq(Char)
  PROVE  /\ LikePattern(d) \in Seq(Char) /\ Len(LikePattern(d)) = Len(d)
         /\ \A k \in 1 .. Len(d) : LikePattern(d)[k] = LikeToken(d[k])
<1> DEFINE W == {n \in Nat : \A s \in Seq(Char) :
                    Len(s) = n => /\ LikePattern(s) \in Seq(Char) /\ Len(LikePattern(s)) = n
                                  /\ \A k \in 1 .. n : LikePattern(s)[k] = LikeToken(s[k])}
<1>1. 0 \in W
  <2> SUFFICES ASSUME NEW s \in Seq(Char), Len(s) = 0
               PROVE  LikePattern(s) \in Seq(Char) /\ Len(LikePattern(s)) = 0
    OBVIOUS
  <2>1. s = <<>>
    BY EmptySeq
  <2>2. LikePattern(s) = <<>>
    BY <2>1, ReplacedNothing DEF LikePattern
  <2> QED
    BY <2>2
<1>2. ASSUME NEW n \in Nat, n \in W PROVE n + 1 \in W
  <2> SUFFICES ASSUME NEW s \in Seq(Char), Len(s) = n + 1
               PROVE  /\ LikePattern(s) \in Seq(Char) /\ Len(LikePattern(s)) = n + 1
                      /\ \A k \in 1 .. n + 1 : LikePattern(s)[k] = LikeToken(s[k])
    OBVIOUS
  <2>1. PICK a \in Seq(Char), x \in Char : s = Append(a, x) /\ Len(a) = n
    BY LastOf
  <2> DEFINE l == LikePattern(a)
             y == LikeToken(x)
  <2>2. l \in Seq(Char) /\ Len(l) = n /\ \A k \in 1 .. n : l[k] = LikeToken(a[k])
    BY <2>1, <1>2
  <2>3. LikePattern(s) = Append(l, y) /\ y \in Char
    BY <2>1, LikeAppend
  <2> HIDE DEF l
  <2>4. s[n + 1] = x /\ \A k \in 1 .. n : s[k] = a[k]
    BY <2>1
  <2>5. y = LikeToken(x)
    OBVIOUS
  <2> HIDE DEF y
  <2>6. /\ Append(l, y) \in Seq(Char) /\ Len(Append(l, y)) = n + 1
        /\ Append(l, y)[n + 1] = y /\ \A k \in 1 .. n : Append(l, y)[k] = l[k]
    BY <2>2, <2>3
  <2>7. ASSUME NEW k \in 1 .. n + 1 PROVE Append(l, y)[k] = LikeToken(s[k])
    <3>1. CASE k = n + 1
      BY <3>1, <2>4, <2>5, <2>6
    <3>2. CASE k # n + 1
      <4>1. k \in 1 .. n
        BY <3>2
      <4> QED
        BY <4>1, <2>2, <2>4, <2>6
    <3> QED
      BY <3>1, <3>2
  <2> QED
    BY <2>3, <2>6, <2>7
<1> HIDE DEF W
<1>3. Nat \subseteq W
  BY <1>1, <1>2, NumberInduction
<1> QED
  BY <1>3 DEF W

-----------------------------------------------------------------------------
(* The browser and the server match alike                                  *)

\* What the regular expression does at the place of a character of the pattern.
LEMMA AtCharacter ==
  ASSUME NEW d \in Seq(PatternChar), NEW re \in Seq(Char), NEW o, PlacedAt(o, d, re),
         NEW s \in Seq(Char), NEW k \in 1 .. Len(d), NEW j \in 1 .. Len(s) + 1
  PROVE  /\ o[k] \in 1 .. Len(re)
         /\ d[k] = "*" => /\ Repeats(re, o[k]) /\ Behind(re, o[k]) + 1 = o[k + 1]
                          /\ Fits(re, s, o[k], j) <=> j <= Len(s)
         /\ d[k] # "*" => /\ ~Repeats(re, o[k]) /\ Behind(re, o[k]) = o[k + 1]
                          /\ Fits(re, s, o[k], j) <=>
                               j <= Len(s) /\ LikeToken(d[k]) \in {"_", s[j]}
<1> DEFINE i == o[k]
           x == d[k]
           t == Token(x)
           N == Len(re)
<1>0. /\ Len(d) \in Nat /\ N \in Nat /\ Len(s) \in Nat
      /\ x \in PatternChar /\ k + 1 \in 1 .. Len(d) + 1
  OBVIOUS
<1>1. i \in 1 .. N + 1 /\ o[k + 1] \in 1 .. N + 1 /\ o[k + 1] = i + Len(t)
  <2>1. \A q \in 1 .. Len(d) + 1 : o[q] \in 1 .. N + 1
    BY DEF PlacedAt
  <2>2. k \in 1 .. Len(d) + 1
    BY <1>0
  <2>3. \A q \in 1 .. Len(d) : o[q + 1] = o[q] + Len(Token(d[q]))
    BY DEF PlacedAt
  <2> QED
    BY <1>0, <2>1, <2>2, <2>3
<1>2. \A m \in 1 .. Len(t) : re[i + m - 1] = t[m]
  BY DEF PlacedAt
<1>3. ASSUME o[k + 1] <= N PROVE re[o[k + 1]] # "*"
  <2> DEFINE y == d[k + 1]
  <2>1. k + 1 # Len(d) + 1
    BY <1>3, <1>0 DEF PlacedAt
  <2>2. k + 1 \in 1 .. Len(d)
    BY <2>1, <1>0
  <2>3. Len(Token(y)) \in Nat /\ 1 \in 1 .. Len(Token(y)) /\ Token(y)[1] # "*"
    BY DEF Token
  <2>4. re[o[k + 1] + 1 - 1] = Token(y)[1]
    BY <2>2, <2>3 DEF PlacedAt
  <2>5. o[k + 1] + 1 - 1 = o[k + 1]
    BY <1>1
  <2> QED
    BY <2>3, <2>4, <2>5
<1>c. x # "\\" /\ x # "%" /\ x # "_"
  BY <1>0 DEF PatternChar
<1> DEFINE next == o[k + 1]
<1>s. i = o[k] /\ x = d[k] /\ t = Token(x) /\ N = Len(re) /\ next = o[k + 1]
  OBVIOUS
<1>n. i \in 1 .. N + 1 /\ next \in 1 .. N + 1 /\ next = i + Len(t) /\ N \in Nat
  BY <1>0, <1>1
<1> HIDE DEF i, x, t, N, next
<1>4. CASE x = "*"
  <2>1. t = <<".", "*">> /\ Len(t) = 2
    BY <1>4, <1>s DEF Token
  <2>2. i \in 1 .. N /\ i + 1 \in 1 .. N /\ next = i + 2
    BY <1>n, <2>1
  <2>3. re[i] = "." /\ re[i + 1] = "*"
    <3>1. re[i + 1 - 1] = t[1] /\ re[i + 2 - 1] = t[2]
      BY <1>2, <2>1
    <3>2. i + 1 - 1 = i /\ i + 2 - 1 = i + 1 /\ t[1] = "." /\ t[2] = "*"
      BY <2>1, <2>2
    <3> QED
      BY <3>1, <3>2
  <2>4. Behind(re, i) = i + 1
    BY <2>2, <2>3 DEF Behind
  <2>5. Repeats(re, i) /\ Behind(re, i) + 1 = next
    BY <2>2, <2>3, <2>4, <1>s DEF Repeats
  <2>6. Fits(re, s, i, j) <=> j <= Len(s)
    BY <2>3 DEF Fits
  <2> QED
    BY <1>4, <1>s, <2>2, <2>5, <2>6
<1>5. CASE x = "."
  <2>1. t = <<"\\", ".">> /\ Len(t) = 2
    BY <1>5, <1>s DEF Token
  <2>2. i \in 1 .. N /\ i + 1 \in 1 .. N /\ next = i + 2
    BY <1>n, <2>1
  <2>3. re[i] = "\\" /\ re[i + 1] = "."
    <3>1. re[i + 1 - 1] = t[1] /\ re[i + 2 - 1] = t[2]
      BY <1>2, <2>1
    <3>2. i + 1 - 1 = i /\ i + 2 - 1 = i + 1 /\ t[1] = "\\" /\ t[2] = "."
      BY <2>1, <2>2
    <3> QED
      BY <3>1, <3>2
  <2>4. Behind(re, i) = next
    BY <2>2, <2>3 DEF Behind
  <2>5. ~Repeats(re, i)
    BY <1>3, <1>s, <2>4 DEF Repeats
  <2>6. Fits(re, s, i, j) <=> j <= Len(s) /\ s[j] = "."
    BY <2>3 DEF Fits
  <2>7. LikeToken(x) = "."
    BY <1>5 DEF LikeToken
  <2>8. Fits(re, s, i, j) <=> j <= Len(s) /\ LikeToken(x) \in {"_", s[j]}
    BY <2>6, <2>7
  <2> QED
    BY <1>5, <1>s, <2>2, <2>4, <2>5, <2>8
<1>6. CASE x # "*" /\ x # "."
  <2> DEFINE y == IF x = "?" THEN "." ELSE x
  <2>1. t = <<y>> /\ Len(t) = 1
    BY <1>6, <1>s DEF Token
  <2>2. i \in 1 .. N /\ next = i + 1
    BY <1>n, <2>1
  <2>3. re[i] = y
    <3>1. re[i + 1 - 1] = t[1]
      BY <1>2, <2>1
    <3>2. i + 1 - 1 = i /\ t[1] = y
      BY <2>1, <2>2
    <3> QED
      BY <3>1, <3>2
  <2>4. re[i] # "\\"
    BY <2>3, <1>c
  <2>5. Behind(re, i) = next
    BY <2>2, <2>4 DEF Behind
  <2>6. ~Repeats(re, i)
    BY <1>3, <1>s, <2>5 DEF Repeats
  <2>7. Fits(re, s, i, j) <=> j <= Len(s) /\ y \in {".", s[j]}
    BY <2>3, <2>4 DEF Fits
  <2>8. y \in {".", s[j]} <=> LikeToken(x) \in {"_", s[j]}
    <3>1. CASE x = "?"
      BY <3>1 DEF LikeToken
    <3>2. CASE x # "?"
      <4>1. LikeToken(x) = x /\ y = x
        BY <3>2, <1>6 DEF LikeToken
      <4> QED
        BY <4>1, <1>6, <1>c
    <3> QED
      BY <3>1, <3>2
  <2> QED
    BY <1>6, <1>s, <2>2, <2>5, <2>6, <2>7, <2>8
<1> QED
  BY <1>4, <1>5, <1>6

\* For every pattern of literals, dots, * and ?, and for every text, the regular
\* expression that render builds and the LIKE of ResolveProxy agree.
THEOREM MatchersAgree ==
  ASSUME NEW d \in Seq(PatternChar), NEW s \in Seq(Char)
  PROVE  RegExpTest(Pattern(d), s) <=> Like(s, LikePattern(d))
<1> DEFINE re == Pattern(d)
           like == LikePattern(d)
           n == Len(d)
           L == Len(s)
<1>0. n \in Nat /\ L \in Nat /\ d \in Seq(Char)
  <2>1. d \in Seq(Char)
    BY SeqMonotonic DEF PatternChar
  <2> QED
    BY <2>1
<1>1. PICK o : PlacedAt(o, d, re)
  BY <1>0, PatternPlaces
<1>2. re \in Seq(Char) /\ like \in Seq(Char) /\ Len(like) = n
      /\ \A k \in 1 .. n : like[k] = LikeToken(d[k])
  BY <1>0, LikePlaces, PatternAppend, TextAssumption
<1> HIDE DEF re, like
<1>3. PICK A : A = RegStep(re, s, A) /\ (RegExpTest(re, s) <=> <<1, 1>> \in A)
  BY <1>2, RegStates
<1>4. PICK B : B = LikeStep(like, s, B) /\ (Like(s, like) <=> <<1, 1>> \in B)
  BY <1>2, LikeStates
<1>5. o[1] = 1 /\ o[n + 1] = Len(re) + 1 /\ Len(re) \in Nat
  BY <1>1, <1>2 DEF PlacedAt
<1> DEFINE Agree(k, j) == <<o[k], j>> \in A <=> <<k, j>> \in B
<1>6. ASSUME NEW j \in 1 .. L + 1 PROVE Agree(n + 1, j)
  <2>1. <<o[n + 1], j>> \in A <=> j = L + 1
    <3>1. <<Len(re) + 1, j>> \in Places(re, s) /\ Len(re) + 1 > Len(re)
      BY <1>5 DEF Places
    <3>2. <<Len(re) + 1, j>> \in RegStep(re, s, A) <=> j = L + 1
      BY <3>1 DEF RegStep
    <3> QED
      BY <1>3, <1>5, <3>2
  <2>2. <<n + 1, j>> \in B <=> j = L + 1
    <3>1. <<n + 1, j>> \in Places(like, s) /\ n + 1 > Len(like)
      BY <1>0, <1>2 DEF Places
    <3>2. <<n + 1, j>> \in LikeStep(like, s, B) <=> j = L + 1
      BY <3>1 DEF LikeStep
    <3> QED
      BY <1>4, <3>2
  <2> QED
    BY <2>1, <2>2
<1>7. ASSUME NEW k \in 1 .. n, NEW j \in 1 .. L + 1, Agree(k + 1, j),
             j <= L => Agree(k, j + 1) /\ Agree(k + 1, j + 1)
      PROVE  Agree(k, j)
  <2> DEFINE i == o[k]
             x == d[k]
  <2>1. /\ i \in 1 .. Len(re)
        /\ x = "*" => /\ Repeats(re, i) /\ Behind(re, i) + 1 = o[k + 1]
                      /\ Fits(re, s, i, j) <=> j <= L
        /\ x # "*" => /\ ~Repeats(re, i) /\ Behind(re, i) = o[k + 1]
                      /\ Fits(re, s, i, j) <=> j <= L /\ LikeToken(x) \in {"_", s[j]}
    BY <1>1, <1>2, AtCharacter
  <2>2. <<i, j>> \in A <=> <<i, j>> \in RegStep(re, s, A)
    BY <1>3
  <2>3. <<k, j>> \in B <=> <<k, j>> \in LikeStep(like, s, B)
    BY <1>4
  <2>c. like[k] = LikeToken(x) /\ x # "%"
    <3>1. x \in PatternChar
      OBVIOUS
    <3> QED
      BY <1>2, <3>1 DEF PatternChar
  <2> HIDE DEF i, x
  <2>4. <<i, j>> \in Places(re, s) /\ ~(i > Len(re))
    <3>1. i \in 1 .. Len(re) + 2 /\ ~(i > Len(re))
      <4> DEFINE N == Len(re)
      <4>1. N \in Nat /\ i \in 1 .. N
        BY <1>5, <2>1
      <4> HIDE DEF N
      <4>2. i \in 1 .. N + 2 /\ ~(i > N)
        BY <4>1
      <4> QED
        BY <4>2 DEF N
    <3> QED
      BY <3>1 DEF Places
  <2>5. <<k, j>> \in Places(like, s) /\ ~(k > Len(like))
    BY <1>0, <1>2 DEF Places
  <2>6. CASE x = "*"
    <3>1. <<i, j>> \in RegStep(re, s, A) <=>
            <<o[k + 1], j>> \in A \/ (j <= L /\ <<i, j + 1>> \in A)
      BY <2>1, <2>4, <2>6 DEF RegStep
    <3>2. like[k] = "%"
      BY <2>6, <2>c DEF LikeToken
    <3>3. <<k, j>> \in LikeStep(like, s, B) <=>
            <<k + 1, j>> \in B \/ (j <= L /\ <<k, j + 1>> \in B)
      BY <2>5, <3>2 DEF LikeStep
    <3> QED
      BY <1>7, <2>2, <2>3, <3>1, <3>3 DEF i
  <2>7. CASE x # "*"
    <3>1. <<i, j>> \in RegStep(re, s, A) <=>
            j <= L /\ LikeToken(x) \in {"_", s[j]} /\ <<o[k + 1], j + 1>> \in A
      BY <2>1, <2>4, <2>7 DEF RegStep
    <3>2. like[k] # "%"
      BY <2>7, <2>c DEF LikeToken
    <3>3. <<k, j>> \in LikeStep(like, s, B) <=>
            j <= L /\ like[k] \in {"_", s[j]} /\ <<k + 1, j + 1>> \in B
      BY <2>5, <3>2 DEF LikeStep
    <3> QED
      BY <1>7, <2>2, <2>3, <2>c, <3>1, <3>3 DEF i
  <2> QED
    BY <2>6, <2>7
<1> HIDE DEF Agree
<1> DEFINE W == {v \in Nat : \A k \in 1 .. n + 1, j \in 1 .. L + 1 :
                    (n + 1 - k) + (L + 1 - j) <= v => Agree(k, j)}
<1>8. 0 \in W
  <2> SUFFICES ASSUME NEW k \in 1 .. n + 1, NEW j \in 1 .. L + 1, (n + 1 - k) + (L + 1 - j) <= 0
               PROVE  Agree(k, j)
    OBVIOUS
  <2>1. k = n + 1
    BY <1>0
  <2> QED
    BY <2>1, <1>6
<1>9. ASSUME NEW v \in Nat, v \in W PROVE v + 1 \in W
  <2> SUFFICES ASSUME NEW k \in 1 .. n + 1, NEW j \in 1 .. L + 1,
                      (n + 1 - k) + (L + 1 - j) <= v + 1
               PROVE  Agree(k, j)
    OBVIOUS
  <2>1. CASE k = n + 1
    BY <2>1, <1>6
  <2>2. CASE k # n + 1
    <3>1. k \in 1 .. n /\ k + 1 \in 1 .. n + 1 /\ (n + 1 - (k + 1)) + (L + 1 - j) <= v
      BY <2>2, <1>0
    <3>2. Agree(k + 1, j)
      BY <3>1, <1>9
    <3>3. ASSUME j <= L PROVE Agree(k, j + 1) /\ Agree(k + 1, j + 1)
      <4>1. /\ j + 1 \in 1 .. L + 1
            /\ (n + 1 - k) + (L + 1 - (j + 1)) <= v
            /\ (n + 1 - (k + 1)) + (L + 1 - (j + 1)) <= v
        BY <3>1, <3>3, <1>0
      <4> QED
        BY <4>1, <3>1, <1>9
    <3> QED
      BY <3>1, <3>2, <3>3, <1>7
  <2> QED
    BY <2>1, <2>2
<1> HIDE DEF W
<1>10. Nat \subseteq W
  BY <1>8, <1>9, NumberInduction
<1>11. Agree(1, 1)
  <2>1. n + L \in W /\ 1 \in 1 .. n + 1 /\ 1 \in 1 .. L + 1
        /\ (n + 1 - 1) + (L + 1 - 1) <= n + L
    BY <1>0, <1>10
  <2> QED
    BY <2>1 DEF W
<1> QED
  BY <1>3, <1>4, <1>5, <1>11 DEF Agree, re, like

-----------------------------------------------------------------------------
(* The wires                                                               *)

\* The invariant: what is drawn is what the tables say, unless a redraw is due.
DrawnInv ==
  /\ config \in Urls /\ proxyRoutes \in RouteLists
  /\ page = "open" /\ ~dirty => drawn = Drawing

\* The drawing is a matter of the props.
LEMMA DrawingOfProps == props' = props => Drawing' = Drawing
<1> SUFFICES ASSUME props' = props PROVE Drawing' = Drawing
  OBVIOUS
<1>1. config' = config /\ proxies' = proxies /\ proxyRoutes' = proxyRoutes
  BY DEF props
<1>2. ActiveRoutes' = ActiveRoutes /\ Dests' = Dests
  BY <1>1 DEF ActiveRoutes, Dests
<1>3. ActiveProxy' = ActiveProxy
  BY <1>1, <1>2 DEF ActiveProxy
<1>4. Wires' = Wires
  BY <1>1, <1>2, <1>3 DEF Wires, Proxied, HasProxy
<1> QED
  BY <1>2, <1>3, <1>4 DEF Drawing, ProxyNode

\* It holds at first.
LEMMA DrawnInit == Init => DrawnInv
BY DEF Init, DrawnInv

\* Every step keeps it: no change of the props goes without a redraw.
LEMMA DrawnStep == DrawnInv /\ [Next]_vars => DrawnInv'
<1> SUFFICES ASSUME DrawnInv, [Next]_vars PROVE DrawnInv'
  OBVIOUS
<1>1. ASSUME ChangeProps PROVE DrawnInv'
  <2>1. config' \in Urls /\ proxyRoutes' \in RouteLists /\ page' = page /\ drawn' = drawn
    BY <1>1 DEF ChangeProps, DrawnInv
  <2>2. CASE props' = props
    BY <1>1, <2>1, <2>2, DrawingOfProps DEF ChangeProps, DrawnInv
  <2>3. CASE props' # props
    BY <1>1, <2>1, <2>3 DEF ChangeProps, Touched, DrawnInv
  <2> QED
    BY <2>2, <2>3
<1>2. ASSUME Render \/ Mount PROVE DrawnInv'
  <2>1. drawn' = Drawing /\ props' = props
    BY <1>2 DEF Render, Mount
  <2>2. config' = config /\ proxyRoutes' = proxyRoutes
    BY <2>1 DEF props
  <2> QED
    BY <2>1, <2>2, DrawingOfProps DEF DrawnInv
<1>3. ASSUME SpawnByTimeout \/ SpawnByInterval \/ AnimateBubbles \/ ShowOrHide \/ UNCHANGED vars
      PROVE  DrawnInv'
  <2>1. props' = props /\ drawn' = drawn /\ page' = page /\ dirty' = dirty
    BY <1>3 DEF SpawnByTimeout, SpawnByInterval, AnimateBubbles, ShowOrHide, vars
  <2>2. config' = config /\ proxyRoutes' = proxyRoutes
    BY <2>1 DEF props
  <2> QED
    BY <2>1, <2>2, DrawingOfProps DEF DrawnInv
<1>4. ASSUME Leave PROVE DrawnInv'
  BY <1>4 DEF Leave, DrawnInv, props
<1> QED
  BY <1>1, <1>2, <1>3, <1>4 DEF Next

\* The first of some places is one of them.
LEMMA MinOf == ASSUME NEW S, S \subseteq Nat, S # {} PROVE Min(S) \in S
<1>1. \E x \in S : \A y \in S : x <= y
  BY LeastNumber
<1> QED
  BY <1>1 DEF Min

\* The browser takes a downstream that shows as its host to go through a proxy
\* when the server does.
LEMMA ProxiedAgrees ==
  ASSUME config \in Urls \ {NoUrl}, proxyRoutes \in RouteLists,
         Label(config) = Hostname(config)
  PROVE  Proxied(Label(config)) <=> ServerProxies(Hostname(config))
<1> DEFINE r(i) == proxyRoutes[i]
           host == Hostname(config)
<1>0. proxyRoutes \in Seq([dest: Seq(PatternChar), proxyId: Nat \ {0}])
  BY TextAssumption
<1>1. /\ Len(proxyRoutes) \in Nat /\ DOMAIN proxyRoutes = 1 .. Len(proxyRoutes)
      /\ \A i \in DOMAIN proxyRoutes : r(i) \in [dest: Seq(PatternChar), proxyId: Nat \ {0}]
  <2>1. Len(proxyRoutes) \in Nat /\ DOMAIN proxyRoutes = 1 .. Len(proxyRoutes)
    BY <1>0, LenProperties
  <2>2. \A i \in 1 .. Len(proxyRoutes) : r(i) \in [dest: Seq(PatternChar), proxyId: Nat \ {0}]
    BY <1>0, ElementOfSeq
  <2> QED
    BY <2>1, <2>2
<1>2. Range(proxyRoutes) = {r(i) : i \in DOMAIN proxyRoutes}
  BY DEF Range
<1>3. host \in Seq(Char)
  BY TextAssumption DEF Hostname
<1>n. /\ host \in {Label(u) : u \in Urls \ {NoUrl}} \cup {Placeholder}
      /\ host \in {Hostname(u) : u \in Urls \ {NoUrl}}
  OBVIOUS
<1>l. Label(config) = host
  OBVIOUS
<1> HIDE DEF host
<1>4. ASSUME NEW i \in DOMAIN proxyRoutes
      PROVE  host \in BrowserMatches[r(i).dest] <=> host \in ServerMatches[r(i).dest]
  <2> DEFINE d == r(i).dest
  <2>1. d \in Seq(PatternChar)
    BY <1>1
  <2>2. d \in Patterns
    <3>1. r(i) \in Range(proxyRoutes)
      BY <1>2
    <3> QED
      BY <3>1 DEF Patterns
  <2> HIDE DEF d
  <2>3. BrowserMatches[d] =
          {s \in {Label(u) : u \in Urls \ {NoUrl}} \cup {Placeholder} :
             RegExpTest(Pattern(d), s)}
    BY <2>2 DEF BrowserMatches
  <2>4. ServerMatches[d] =
          {s \in {Hostname(u) : u \in Urls \ {NoUrl}} : Like(s, LikePattern(d))}
    BY <2>2 DEF ServerMatches
  <2>5. RegExpTest(Pattern(d), host) <=> Like(host, LikePattern(d))
    BY <2>1, <1>3, MatchersAgree
  <2>6. host \in BrowserMatches[d] <=> host \in ServerMatches[d]
    BY <2>3, <2>4, <2>5, <1>n
  <2> QED
    BY <2>6 DEF d
<1>5. ActiveRoutes = {i \in DOMAIN proxyRoutes : r(i).proxyId \in proxies}
  BY DEF ActiveRoutes
<1>6. ActiveRoutes # {} => HasProxy
  <2> SUFFICES ASSUME ActiveRoutes # {} PROVE HasProxy
    OBVIOUS
  <2>1. ActiveRoutes \subseteq Nat
    BY <1>1, <1>5
  <2>2. Min(ActiveRoutes) \in DOMAIN proxyRoutes
    BY <2>1, <1>5, MinOf
  <2>3. r(Min(ActiveRoutes)).proxyId # 0
    BY <2>2, <1>1
  <2> QED
    BY <2>3 DEF HasProxy, ActiveProxy
<1>7. Proxied(host) <=> \E i \in ActiveRoutes : host \in BrowserMatches[r(i).dest]
  BY <1>6 DEF Proxied
<1>8. ServerProxies(host) <=>
        \E i \in DOMAIN proxyRoutes :
           r(i).proxyId \in proxies /\ host \in ServerMatches[r(i).dest]
  <2> HIDE DEF r
  <2> QED BY <1>2 DEF ServerProxies
<1> HIDE DEF r
<1> QED
  BY <1>4, <1>5, <1>7, <1>8, <1>l DEF host

\* The wire to a fixed downstream whose URL names a host and no more is drawn
\* through the proxy exactly when the server would deliver to it through one, for
\* any tables, URLs and patterns, whenever no redraw is due.
THEOREM WiresCorrect == Spec => []WiresTellRouting
<1>1. DrawnInv => WiresTellRouting
  <2> SUFFICES ASSUME DrawnInv, page = "open", ~dirty, config # NoUrl
               PROVE  /\ drawn.labels = <<Label(config)>>
                      /\ Label(config) = Hostname(config) =>
                           drawn.proxied = <<ServerProxies(Hostname(config))>>
    BY DEF WiresTellRouting
  <2>1. drawn.labels = Dests /\ drawn.proxied = Wires
    BY DEF DrawnInv, Drawing
  <2>2. Dests = <<Label(config)>> /\ Len(Dests) = 1 /\ Dests[1] = Label(config)
    BY DEF Dests
  <2>3. Wires = <<Proxied(Label(config))>>
    BY <2>2 DEF Wires
  <2>4. ASSUME Label(config) = Hostname(config)
        PROVE  Proxied(Label(config)) = ServerProxies(Hostname(config))
    <3>1. Proxied(Label(config)) <=> ServerProxies(Hostname(config))
      BY <2>4, ProxiedAgrees DEF DrawnInv
    <3> QED
      BY <3>1 DEF Proxied, ServerProxies
  <2> QED
    BY <2>1, <2>2, <2>3, <2>4
<1> QED
  BY <1>1, DrawnInit, DrawnStep, PTL DEF Spec
=============================================================================
