--------------------------- MODULE LifecycleProofs ---------------------------
(***************************************************************************)
(* Proofs about Lifecycle for any messages, tries and starts.              *)
(***************************************************************************)
EXTENDS Lifecycle, TLAPS

\* Where main is tells what else there may be: Run and handlers only from Go
\* to the end of the process, and after Shutdown has returned no handler and no
\* listener; the store is open until main returns.
Stages ==
  /\ main \in {"init", "notified", "exited"} => run = "none"
  /\ main \in {"init", "notified", "exited"} => UnderWay = {}
  /\ main \in {"init", "notified", "waiting", "draining"} => open
  /\ main = "closed" => status \in {"success", "panic"}
  /\ main = "closed" /\ status = "success" => run # "serving" /\ UnderWay = {}

\* What is known of a try by where its handler is and by what was heard of it; no
\* process that ended with success cut it off.
Answers ==
  \A t \in Tries :
    /\ at[t] = "none" => heard[t] = "waiting"
    /\ at[t] \in {"none", "connected", "handling"} => ~relayed[t]
    /\ heard[t] \in {"error", "closed"} => at[t] = "gone" /\ ~relayed[t]
    /\ heard[t] # "success"

\* A try follows tries that were neither good nor pending.
Order ==
  \A m \in Messages : \A i, j \in 1 .. MaxTries :
    i < j /\ at[m, j] # "none" => heard[m, i] \notin {"waiting", "ok"}

\* The inductive invariant.
Inv == TypeOK /\ Stages /\ Answers /\ Order

-----------------------------------------------------------------------------

\* A pair of a message and a number is a try.
LEMMA TriesArePairs ==
  ASSUME NEW m \in Messages, NEW n \in 1 .. MaxTries
  PROVE  <<m, n>> \in Tries
BY DEF Tries

\* Before the first step nothing was sent.
LEMMA InvInit == Init => Inv
<1> SUFFICES ASSUME Init PROVE Inv
  OBVIOUS
<1>1. TypeOK
  <2>1. at \in [Tries -> {"none", "connected", "handling", "forwarded", "gone"}]
    BY DEF Init
  <2>2. relayed \in [Tries -> BOOLEAN]
    BY DEF Init
  <2>3. heard \in [Tries -> Hears]
    BY DEF Init, Hears
  <2>4. starts \in 1 .. MaxStarts /\ done \in 0 .. 1
    BY LifecycleAssumption DEF Init
  <2> QED
    BY <2>1, <2>2, <2>3, <2>4 DEF Init, TypeOK
<1>2. Stages
  BY DEF Init, Stages, UnderWay
<1>3. Answers
  BY DEF Init, Answers
<1>4. Order
  BY TriesArePairs DEF Init, Order
<1> QED
  BY <1>1, <1>2, <1>3, <1>4 DEF Inv

\* The end of a process, however it comes.
LEMMA ExitKeepsInv ==
  ASSUME Inv, NEW code \in Ends, Exit(code), code = "success" => UnderWay = {},
         signalled' \in BOOLEAN, starts' = starts
  PROVE  Inv'
<1>1. \A t \in Tries :
        /\ at'[t] = IF t \in UnderWay THEN "gone" ELSE at[t]
        /\ heard'[t] = IF t \in UnderWay /\ heard[t] = "waiting" THEN code ELSE heard[t]
        /\ relayed'[t] = relayed[t]
  BY DEF Exit
<1>2. TypeOK'
  <2>1. at' \in [Tries -> {"none", "connected", "handling", "forwarded", "gone"}]
    BY DEF Inv, TypeOK, Exit
  <2>2. heard' \in [Tries -> Hears]
    BY DEF Inv, TypeOK, Exit, Hears
  <2>3. done' \in 0 .. 1
    BY DEF Exit
  <2> QED
    BY <2>1, <2>2, <2>3 DEF Inv, TypeOK, Exit
<1>3. UnderWay' = {}
  BY <1>1 DEF UnderWay
<1>4. Stages'
  BY <1>3 DEF Exit, Stages
<1>5. Answers'
  BY <1>1 DEF Inv, Answers, UnderWay, Ends
<1>6. Order'
  <2> SUFFICES ASSUME NEW m \in Messages, NEW i \in 1 .. MaxTries, NEW j \in 1 .. MaxTries,
                      i < j, at'[m, j] # "none"
               PROVE  heard'[m, i] \notin {"waiting", "ok"}
    BY DEF Order
  <2>1. <<m, i>> \in Tries /\ <<m, j>> \in Tries
    BY TriesArePairs
  <2>2. at[m, j] # "none"
    BY <1>1, <2>1 DEF UnderWay
  <2>3. heard[m, i] \notin {"waiting", "ok"}
    BY <2>2 DEF Inv, Order
  <2> QED
    BY <1>1, <2>1, <2>3 DEF Ends
<1> QED
  BY <1>2, <1>4, <1>5, <1>6 DEF Inv

\* A step of the process that leaves the tries alone.
LEMMA ProcessKeepsTries ==
  ASSUME Inv, UNCHANGED upstream
  PROVE  Answers' /\ Order' /\ UnderWay' = UnderWay
BY DEF Inv, Answers, Order, UnderWay, upstream

\* A step of main or Run, a signal, or a new start.
LEMMA ProcessKeepsInv ==
  ASSUME Inv,
         \/ Notify \/ Go \/ ReceiveSignal \/ ShutdownReturns \/ ShutdownTimesOut \/ Leave
         \/ Build \/ Listen \/ RunFails \/ RunClosed
         \/ Start \/ Signal \/ Kill
  PROVE  Inv'
<1> USE DEF Inv
<1>1. ASSUME UNCHANGED upstream, TypeOK', Stages' PROVE Inv'
  BY <1>1, ProcessKeepsTries
<1>2. CASE Notify
  <2>1. TypeOK' /\ UNCHANGED upstream
    BY <1>2 DEF Notify, TypeOK, upstream
  <2>2. Stages'
    BY <1>2, <2>1, ProcessKeepsTries DEF Notify, Stages
  <2> QED
    BY <1>1, <2>1, <2>2
<1>3. CASE Go
  <2>1. TypeOK' /\ UNCHANGED upstream
    BY <1>3 DEF Go, TypeOK, upstream
  <2>2. Stages'
    BY <1>3, <2>1, ProcessKeepsTries DEF Go, Stages
  <2> QED
    BY <1>1, <2>1, <2>2
<1>4. CASE ReceiveSignal
  <2>1. UNCHANGED upstream /\ done' \in 0 .. 1
    BY <1>4 DEF ReceiveSignal, TypeOK, upstream
  <2>2. TypeOK'
    BY <1>4, <2>1 DEF ReceiveSignal, Return, TypeOK, Ends, upstream
  <2>3. Stages'
    BY <1>4, <2>1, ProcessKeepsTries DEF ReceiveSignal, Return, Stages
  <2> QED
    BY <1>1, <2>1, <2>2, <2>3
<1>5. CASE ShutdownReturns
  <2>1. TypeOK' /\ UNCHANGED upstream
    BY <1>5 DEF ShutdownReturns, Return, TypeOK, Ends, upstream
  <2>2. Stages'
    BY <1>5, <2>1, ProcessKeepsTries DEF ShutdownReturns, Drained, Return, Stages
  <2> QED
    BY <1>1, <2>1, <2>2
<1>6. CASE ShutdownTimesOut
  BY <1>6, ExitKeepsInv DEF ShutdownTimesOut, TypeOK, Ends
<1>7. CASE Leave
  BY <1>7, ExitKeepsInv DEF Leave, Stages, TypeOK, Ends
<1>8. CASE Build
  <2>1. TypeOK' /\ UNCHANGED upstream
    BY <1>8 DEF Build, TypeOK, upstream
  <2>2. Stages'
    BY <1>8, <2>1, ProcessKeepsTries DEF Build, Stages
  <2> QED
    BY <1>1, <2>1, <2>2
<1>9. CASE Listen
  <2>1. TypeOK' /\ UNCHANGED upstream
    BY <1>9 DEF Listen, TypeOK, upstream
  <2>2. Stages'
    BY <1>9, <2>1, ProcessKeepsTries DEF Listen, InShutdown, Stages
  <2> QED
    BY <1>1, <2>1, <2>2
<1>10. CASE RunFails
  BY <1>10, ExitKeepsInv DEF RunFails, TypeOK, Ends
<1>11. CASE RunClosed
  <2>1. TypeOK' /\ UNCHANGED upstream
    BY <1>11 DEF RunClosed, TypeOK, upstream
  <2>2. Stages'
    BY <1>11, <2>1, ProcessKeepsTries DEF RunClosed, InShutdown, Stages
  <2> QED
    BY <1>1, <2>1, <2>2
<1>12. CASE Start
  <2>1. UNCHANGED upstream /\ starts' \in 1 .. MaxStarts
    BY <1>12, LifecycleAssumption DEF Start, TypeOK
  <2>2. TypeOK'
    BY <1>12, <2>1 DEF Start, TypeOK, Ends, upstream
  <2>3. Stages'
    BY <1>12, <2>1, ProcessKeepsTries DEF Start, Stages
  <2> QED
    BY <1>1, <2>1, <2>2, <2>3
<1>13. CASE Signal
  <2>1. CASE main = "init"
    BY <1>13, <2>1, ExitKeepsInv DEF Signal, TypeOK, Ends
  <2>2. CASE main # "init"
    <3>1. TypeOK' /\ UNCHANGED upstream
      BY <1>13, <2>2 DEF Signal, Queued, TypeOK, upstream
    <3>2. Stages'
      BY <1>13, <2>2, <3>1, ProcessKeepsTries DEF Signal, Stages
    <3> QED
      BY <1>1, <3>1, <3>2
  <2> QED
    BY <2>1, <2>2
<1>14. CASE Kill
  BY <1>14, ExitKeepsInv DEF Kill, TypeOK, Ends
<1> QED
  BY <1>2, <1>3, <1>4, <1>5, <1>6, <1>7, <1>8, <1>9, <1>10, <1>11, <1>12, <1>13, <1>14

\* A step of a try under way: what is heard is heard once, and an error only
\* from a handler that is done and did not relay.
LEMMA TryKeepsInv ==
  ASSUME Inv, UNCHANGED <<process, signalled, starts>>,
         NEW t \in UnderWay,
         NEW where \in {"connected", "handling", "forwarded", "gone"},
         NEW ok \in BOOLEAN,
         NEW says \in Hears,
         at' = [at EXCEPT ![t] = where],
         relayed' = [relayed EXCEPT ![t] = ok],
         heard' = [heard EXCEPT ![t] = says],
         heard[t] # "waiting" => says = heard[t],
         where \in {"connected", "handling"} => ~ok,
         says \in {"error", "closed"} => where = "gone" /\ ~ok,
         says # "success"
  PROVE  Inv'
<1> USE DEF Inv
<1>1. t \in Tries /\ at[t] # "none"
  BY DEF UnderWay
<1>2. \A u \in Tries : /\ at'[u] = IF u = t THEN where ELSE at[u]
                       /\ relayed'[u] = IF u = t THEN ok ELSE relayed[u]
                       /\ heard'[u] = IF u = t THEN says ELSE heard[u]
  BY DEF TypeOK
<1>3. UNCHANGED <<main, run, done, open, status, signalled, starts>>
  BY DEF process
<1>4. TypeOK'
  BY <1>1, <1>3 DEF TypeOK
<1>5. Stages'
  BY <1>3 DEF Stages
<1>6. Answers'
  BY <1>2 DEF Answers
<1>7. Order'
  <2> SUFFICES ASSUME NEW m \in Messages, NEW i \in 1 .. MaxTries, NEW j \in 1 .. MaxTries,
                      i < j, at'[m, j] # "none"
               PROVE  heard'[m, i] \notin {"waiting", "ok"}
    BY DEF Order
  <2>1. <<m, i>> \in Tries /\ <<m, j>> \in Tries
    BY TriesArePairs
  <2>2. heard[m, i] \notin {"waiting", "ok"}
    BY <1>1, <1>2, <2>1 DEF Order
  <2> QED
    BY <1>2, <2>1, <2>2
<1> QED
  BY <1>4, <1>5, <1>6, <1>7

\* Every step of a connection or of a handler.
LEMMA HandlerKeepsInv ==
  ASSUME Inv, NEW t \in Tries,
         GiveUp(t) \/ Handle(t) \/ CloseUnread(t) \/ Forward(t) \/ PassDeadline(t) \/ Answer(t)
  PROVE  Inv'
<1>1. /\ at \in [Tries -> {"none", "connected", "handling", "forwarded", "gone"}]
      /\ relayed \in [Tries -> BOOLEAN]
      /\ heard \in [Tries -> Hears]
  BY DEF Inv, TypeOK
<1>2. /\ at = [at EXCEPT ![t] = at[t]]
      /\ relayed = [relayed EXCEPT ![t] = relayed[t]]
      /\ heard = [heard EXCEPT ![t] = heard[t]]
  BY <1>1
<1>3. /\ at[t] = "none" => heard[t] = "waiting"
      /\ at[t] \in {"none", "connected", "handling"} => ~relayed[t]
      /\ heard[t] \in {"error", "closed"} => at[t] = "gone" /\ ~relayed[t]
      /\ heard[t] # "success"
  BY DEF Inv, Answers
<1>4. CASE GiveUp(t)
  <2>1. t \in UnderWay /\ heard[t] = "waiting"
    BY <1>4 DEF GiveUp
  <2>2. /\ heard' = [heard EXCEPT ![t] = "gaveup"]
        /\ UNCHANGED <<process, at, relayed, signalled, starts>>
    BY <1>4 DEF GiveUp
  <2>3. /\ at[t] \in {"connected", "handling", "forwarded", "gone"}
        /\ relayed[t] \in BOOLEAN
        /\ at[t] \in {"connected", "handling"} => ~relayed[t]
        /\ "gaveup" \in Hears /\ "gaveup" \notin {"error", "closed", "success"}
    BY <1>1, <1>3, <2>1 DEF UnderWay, Hears
  <2>4. /\ at' = [at EXCEPT ![t] = at[t]]
        /\ relayed' = [relayed EXCEPT ![t] = relayed[t]]
    BY <1>2, <2>2
  <2> QED
    BY <2>1, <2>2, <2>3, <2>4, TryKeepsInv
<1>5. CASE Handle(t)
  <2>1. t \in UnderWay /\ at[t] = "connected"
    BY <1>5 DEF Handle, UnderWay
  <2>2. /\ at' = [at EXCEPT ![t] = "handling"]
        /\ UNCHANGED <<process, relayed, heard, signalled, starts>>
    BY <1>5 DEF Handle
  <2>3. /\ relayed[t] \in BOOLEAN /\ ~relayed[t]
        /\ heard[t] \in Hears
        /\ heard[t] \notin {"error", "closed", "success"}
    BY <1>1, <1>3, <2>1
  <2>4. /\ relayed' = [relayed EXCEPT ![t] = relayed[t]]
        /\ heard' = [heard EXCEPT ![t] = heard[t]]
    BY <1>2, <2>2
  <2> QED
    BY <2>1, <2>2, <2>3, <2>4, TryKeepsInv
<1>6. CASE CloseUnread(t)
  <2> DEFINE says == IF heard[t] = "waiting" THEN "closed" ELSE heard[t]
  <2>1. t \in UnderWay /\ at[t] = "connected"
    BY <1>6 DEF CloseUnread, UnderWay
  <2>2. /\ at' = [at EXCEPT ![t] = "gone"] /\ heard' = [heard EXCEPT ![t] = says]
        /\ UNCHANGED <<process, relayed, signalled, starts>>
    BY <1>1, <1>6 DEF CloseUnread
  <2>3. /\ says \in Hears
        /\ heard[t] # "waiting" => says = heard[t]
        /\ says # "success"
        /\ ~relayed[t] /\ relayed[t] \in BOOLEAN
    BY <1>1, <1>3, <2>1 DEF Hears
  <2>4. relayed' = [relayed EXCEPT ![t] = relayed[t]]
    BY <1>2, <2>2
  <2> HIDE DEF says
  <2> QED
    BY <2>1, <2>2, <2>3, <2>4, TryKeepsInv
<1>7. CASE Forward(t)
  <2>1. t \in UnderWay /\ at[t] = "handling"
    BY <1>7 DEF Forward, UnderWay
  <2>2. /\ at' = [at EXCEPT ![t] = "forwarded"]
        /\ UNCHANGED <<process, heard, signalled, starts>>
    BY <1>7 DEF Forward
  <2>3. PICK ok \in BOOLEAN : relayed' = [relayed EXCEPT ![t] = ok]
    BY <1>7 DEF Forward
  <2>4. /\ heard[t] \in Hears
        /\ heard[t] \notin {"error", "closed", "success"}
    BY <1>1, <1>3, <2>1
  <2>5. heard' = [heard EXCEPT ![t] = heard[t]]
    BY <1>2, <2>2
  <2> QED
    BY <2>1, <2>2, <2>3, <2>4, <2>5, TryKeepsInv
<1>8. CASE PassDeadline(t)
  <2>1. t \in UnderWay /\ at[t] \in {"handling", "forwarded"} /\ heard[t] = "waiting"
    BY <1>8 DEF PassDeadline, UnderWay
  <2>2. /\ heard' = [heard EXCEPT ![t] = "late"]
        /\ UNCHANGED <<process, at, relayed, signalled, starts>>
    BY <1>8 DEF PassDeadline
  <2>3. /\ relayed[t] \in BOOLEAN
        /\ at[t] \in {"connected", "handling"} => ~relayed[t]
        /\ "late" \in Hears
    BY <1>1, <1>3, <2>1 DEF Hears
  <2>4. /\ at' = [at EXCEPT ![t] = at[t]]
        /\ relayed' = [relayed EXCEPT ![t] = relayed[t]]
    BY <1>2, <2>2
  <2> QED
    BY <2>1, <2>2, <2>3, <2>4, TryKeepsInv
<1>9. CASE Answer(t)
  <2> DEFINE says == IF heard[t] # "waiting" THEN heard[t]
                     ELSE IF relayed[t] THEN "ok" ELSE "error"
  <2>1. t \in UnderWay /\ at[t] = "forwarded"
    BY <1>9 DEF Answer, UnderWay
  <2>2. /\ at' = [at EXCEPT ![t] = "gone"] /\ heard' = [heard EXCEPT ![t] = says]
        /\ UNCHANGED <<process, relayed, signalled, starts>>
    BY <1>1, <1>9 DEF Answer
  <2>3. /\ says \in Hears
        /\ heard[t] # "waiting" => says = heard[t]
        /\ says # "success"
        /\ says \in {"error", "closed"} => ~relayed[t]
    BY <1>1, <1>3, <2>1 DEF Hears
  <2>4. /\ relayed' = [relayed EXCEPT ![t] = relayed[t]]
        /\ relayed[t] \in BOOLEAN
    BY <1>1, <1>2, <2>2
  <2> HIDE DEF says
  <2> QED
    BY <2>1, <2>2, <2>3, <2>4, TryKeepsInv
<1> QED
  BY <1>4, <1>5, <1>6, <1>7, <1>8, <1>9

\* The upstream sends a message: all tries before the previous one had failed
\* when that one was made.
LEMMA ConnectKeepsInv ==
  ASSUME Inv, NEW m \in Messages, NEW n \in 1 .. MaxTries, Connect(m, n)
  PROVE  Inv'
<1> USE DEF Inv
<1>1. <<m, n>> \in Tries
  BY TriesArePairs
<1>2. \A u \in Tries : at'[u] = IF u = <<m, n>> THEN "connected" ELSE at[u]
  BY DEF Connect, TypeOK
<1>3. UNCHANGED <<main, run, done, open, status, relayed, heard, signalled, starts>>
  BY DEF Connect, process
<1>4. TypeOK'
  BY <1>1, <1>3 DEF Connect, TypeOK
<1>5. main \in {"waiting", "closed"} /\ run = "serving" /\ ~InShutdown
  BY DEF Connect, TypeOK, Stages, InShutdown
<1>6. Stages'
  BY <1>3, <1>5 DEF Stages, InShutdown
<1>7. Answers'
  BY <1>1, <1>2, <1>3 DEF Connect, Answers
<1>8. ASSUME NEW i \in 1 .. MaxTries, i < n
      PROVE  heard[m, i] \notin {"waiting", "ok"}
  <2> DEFINE k == n - 1
  <2>1. n > 1 /\ k \in 1 .. MaxTries /\ (i = k \/ i < k)
    BY <1>8, LifecycleAssumption
  <2>2. heard[m, k] \notin {"waiting", "ok"}
    BY <2>1 DEF Connect
  <2> HIDE DEF k
  <2>3. at[m, k] # "none"
    BY <2>1, <2>2, TriesArePairs DEF Answers
  <2>4. i < k => heard[m, i] \notin {"waiting", "ok"}
    BY <2>1, <2>3 DEF Order
  <2> QED
    BY <2>1, <2>2, <2>4
<1>9. Order'
  <2> SUFFICES ASSUME NEW k \in Messages, NEW i \in 1 .. MaxTries, NEW j \in 1 .. MaxTries,
                      i < j, at'[k, j] # "none"
               PROVE  heard[k, i] \notin {"waiting", "ok"}
    BY <1>3 DEF Order
  <2>1. CASE k = m /\ j = n
    BY <1>8, <2>1
  <2>2. CASE <<k, j>> # <<m, n>>
    BY <1>2, <2>2, TriesArePairs DEF Order
  <2> QED
    BY <2>1, <2>2
<1> QED
  BY <1>4, <1>6, <1>7, <1>9

\* The invariant holds in every reachable state.
LEMMA InvHolds == Spec => []Inv
<1>1. Inv /\ [Next]_vars => Inv'
  <2> SUFFICES ASSUME Inv, [Next]_vars PROVE Inv'
    OBVIOUS
  <2>1. CASE UNCHANGED vars
    BY <2>1 DEF Inv, TypeOK, Stages, Answers, Order, UnderWay, vars, process, upstream
  <2>2. ASSUME NEW m \in Messages, NEW n \in 1 .. MaxTries, Connect(m, n) PROVE Inv'
    BY <2>2, ConnectKeepsInv
  <2>3. ASSUME NEW t \in Tries,
               GiveUp(t) \/ Handle(t) \/ CloseUnread(t) \/ Forward(t) \/ PassDeadline(t) \/ Answer(t)
        PROVE  Inv'
    BY <2>3, HandlerKeepsInv
  <2> QED
    BY <2>1, <2>2, <2>3, ProcessKeepsInv DEF Next
<1> QED
  BY InvInit, <1>1, PTL DEF Spec

-----------------------------------------------------------------------------

\* Every variable of Lifecycle keeps its type.
THEOREM TypeCorrect == Spec => []TypeOK
<1>1. Inv => TypeOK
  BY DEF Inv
<1> QED
  BY InvHolds, <1>1, PTL

\* However a signal, the deadline of Shutdown and the handlers interleave, the
\* store is closed under a handler only by a main that panics.
THEOREM StoreCorrect == Spec => []StoreOutlivesHandlers
<1>1. Inv => StoreOutlivesHandlers
  BY DEF Inv, TypeOK, Stages, StoreOutlivesHandlers
<1> QED
  BY InvHolds, <1>1, PTL

\* A second copy of a relayed message is never owed to a stop that ended with
\* success, nor to a connection that Shutdown closed, for any number of tries and
\* of starts of the process.
THEOREM CopiesCorrect == Spec => []NoNeedlessCopy
<1>1. Inv => NoNeedlessCopy
  <2> SUFFICES ASSUME Inv, NEW m \in Messages,
                      NEW i \in 1 .. MaxTries, NEW j \in 1 .. MaxTries,
                      i < j, at[m, j] # "none", relayed[m, i]
               PROVE  heard[m, i] \in {"late", "gaveup"} \cup (Ends \ {"success"})
    BY DEF NoNeedlessCopy
  <2>1. <<m, i>> \in Tries
    BY TriesArePairs
  <2>2. heard[m, i] \notin {"waiting", "ok"}
    BY DEF Inv, Order
  <2>3. heard[m, i] \notin {"error", "closed", "success"}
    BY <2>1 DEF Inv, Answers
  <2>4. heard[m, i] \in Hears
    BY <2>1 DEF Inv, TypeOK
  <2> QED
    BY <2>2, <2>3, <2>4 DEF Hears
<1> QED
  BY InvHolds, <1>1, PTL
=============================================================================
