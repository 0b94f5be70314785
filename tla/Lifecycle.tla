------------------------------ MODULE Lifecycle ------------------------------
(***************************************************************************)
(* Start and stop of the process (cmd/madexchanger/main.go, Run and        *)
(* Shutdown of internal/server/server.go) around the handlers, against an  *)
(* upstream that sends a message again until it hears that it was relayed. *)
(*                                                                         *)
(* main blocks on the channel of signals; a second goroutine is in Run.    *)
(* A try is one request of the upstream for a message.  What a handler     *)
(* does to relay is the subject of Relay; here it either relays or not.    *)
(***************************************************************************)
EXTENDS Naturals

CONSTANTS Messages,
          MaxTries,  \* bound on the tries per message
          MaxStarts  \* bound on the starts of the process

ASSUME LifecycleAssumption == MaxTries \in Nat \ {0} /\ MaxStarts \in Nat \ {0}

Tries == Messages \X (1 .. MaxTries)

VARIABLES
  main,      \* where the goroutine of main is
  run,       \* where the goroutine of Run is
  done,      \* signals in the channel
  open,      \* the store is open
  status,    \* what the process exits with
  at,        \* where the handler of a try is
  relayed,   \* the handler of a try has seen the message relayed
  heard,     \* what the upstream hears of a try, or why it hears nothing
  signalled, \* a signal was sent to this process
  starts

process  == <<main, run, done, open, status>>
upstream == <<at, relayed, heard>>
vars     == <<process, upstream, signalled, starts>>

\* Tries whose connection is open, and whose handler may be running.
UnderWay == {t \in Tries : at[t] \in {"connected", "handling", "forwarded"}}

\* How a process ends.
Ends == {"success", "failure", "panic", "killed"}

\* What the upstream hears of a try, or why it hears nothing: the write deadline,
\* its own impatience, or the end of the process, which is noted here.
Hears == {"waiting", "ok", "error", "closed", "late", "gaveup"} \cup Ends

Init ==
  /\ main = "init" /\ run = "none" /\ done = 0 /\ open = TRUE /\ status = "none"
  /\ at = [t \in Tries |-> "none"]
  /\ relayed = [t \in Tries |-> FALSE]
  /\ heard = [t \in Tries |-> "waiting"]
  /\ signalled = FALSE /\ starts = 1

-----------------------------------------------------------------------------
(* The end of a process                                                    *)

\* All goroutines are gone, and the connections with them.
Exit(code) ==
  /\ main' = "exited" /\ status' = code
  /\ run' = "none" /\ done' = 0 /\ open' = FALSE
  /\ at' = [t \in Tries |-> IF t \in UnderWay THEN "gone" ELSE at[t]]
  /\ heard' = [t \in Tries |->
                 IF t \in UnderWay /\ heard[t] = "waiting" THEN code ELSE heard[t]]
  /\ UNCHANGED relayed

\* main returns or panics: the deferred Close runs, and other goroutines may
\* still take steps before the process is gone.
Return(code) ==
  /\ main' = "closed" /\ status' = code /\ open' = FALSE

Leave ==
  /\ main = "closed"
  /\ Exit(status)
  /\ UNCHANGED <<signalled, starts>>

\* It is killed, or started again.
Kill ==
  /\ main # "exited"
  /\ Exit("killed")
  /\ UNCHANGED <<signalled, starts>>

\* db.Open succeeds, or the process ends.
Start ==
  /\ main = "exited" /\ starts < MaxStarts
  /\ starts' = starts + 1 /\ signalled' = FALSE
  /\ \/ main' = "init" /\ status' = "none" /\ open' = TRUE
     \/ status' = "failure" /\ UNCHANGED <<main, open>>
  /\ UNCHANGED <<run, done, upstream>>

-----------------------------------------------------------------------------
(* main                                                                    *)

Notify ==
  /\ main = "init" /\ main' = "notified"
  /\ UNCHANGED <<run, done, open, status, upstream, signalled, starts>>

Go ==
  /\ main = "notified" /\ main' = "waiting"
  /\ run' = "building"
  /\ UNCHANGED <<done, open, status, upstream, signalled, starts>>

\* Slip: a channel of no capacity takes a signal only when main waits for it.
QueuedUnbuffered == IF main = "waiting" THEN 1 ELSE done

\* Slip: no bound.
QueuedUnbounded == done + 1

\* The channel holds one signal; the runtime drops what it cannot send.
Queued == IF done < 1 THEN done + 1 ELSE done

\* SIGINT or SIGTERM; before signal.Notify it ends the process.
Signal ==
  /\ main # "exited"
  /\ signalled' = TRUE
  /\ IF main = "init" THEN Exit("killed")
     ELSE done' = Queued /\ UNCHANGED <<main, run, open, status, upstream>>
  /\ UNCHANGED starts

\* Shutdown calls a method of httpServ, which is nil until Run has set it.
ReceiveSignal ==
  /\ main = "waiting" /\ done > 0
  /\ done' = done - 1
  /\ IF run = "building" THEN Return("panic")
     ELSE main' = "draining" /\ UNCHANGED <<status, open>>
  /\ UNCHANGED <<run, upstream, signalled, starts>>

\* External: listeners are closed, Serve has returned, and no connection is open.
Drained == run # "serving" /\ UnderWay = {}

ShutdownReturns ==
  /\ main = "draining" /\ Drained
  /\ Return("success")
  /\ UNCHANGED <<run, done, upstream, signalled, starts>>

\* Slip: main logs the error and returns.
ShutdownTimesOutReturns ==
  /\ main = "draining"
  /\ Return("success")
  /\ UNCHANGED <<run, done, upstream, signalled, starts>>

\* Ten seconds have passed: os.Exit, without the deferred Close.
ShutdownTimesOut ==
  /\ main = "draining"
  /\ Exit("failure")
  /\ UNCHANGED <<signalled, starts>>

-----------------------------------------------------------------------------
(* Run                                                                     *)

\* Shutdown was called and did not panic.
InShutdown == main = "draining" \/ (main = "closed" /\ status = "success")

Build ==
  /\ run = "building" /\ run' = "built"
  /\ UNCHANGED <<main, done, open, status, upstream, signalled, starts>>

Listen ==
  /\ run = "built" /\ ~InShutdown
  /\ run' = "serving"
  /\ UNCHANGED <<main, done, open, status, upstream, signalled, starts>>

\* Listening or accepting fails: os.Exit.
RunFails ==
  /\ run \in {"built", "serving"} /\ ~InShutdown
  /\ Exit("failure")
  /\ UNCHANGED <<signalled, starts>>

\* Run returns ErrServerClosed, which ends its goroutine only.
RunClosed ==
  /\ run \in {"built", "serving"} /\ InShutdown
  /\ run' = "returned"
  /\ UNCHANGED <<main, done, open, status, upstream, signalled, starts>>

-----------------------------------------------------------------------------
(* The upstream, the connections and the handlers                          *)

\* External: the first try, or the next after one that failed or was lost.
Connect(m, n) ==
  /\ run = "serving" /\ ~InShutdown
  /\ at[m, n] = "none"
  /\ n > 1 => heard[m, n - 1] \notin {"waiting", "ok"}
  /\ at' = [at EXCEPT ![<<m, n>>] = "connected"]
  /\ UNCHANGED <<process, relayed, heard, signalled, starts>>

\* External: the upstream's own timeout, whatever the relay is doing.
GiveUp(t) ==
  /\ t \in UnderWay /\ heard[t] = "waiting"
  /\ heard' = [heard EXCEPT ![t] = "gaveup"]
  /\ UNCHANGED <<process, at, relayed, signalled, starts>>

\* net/http starts the handler, also while Shutdown waits.
Handle(t) ==
  /\ at[t] = "connected"
  /\ at' = [at EXCEPT ![t] = "handling"]
  /\ UNCHANGED <<process, relayed, heard, signalled, starts>>

\* External: Shutdown closes connections that have sent nothing yet.
CloseUnread(t) ==
  /\ InShutdown /\ at[t] = "connected"
  /\ at' = [at EXCEPT ![t] = "gone"]
  /\ heard' = [heard EXCEPT ![t] = IF @ = "waiting" THEN "closed" ELSE @]
  /\ UNCHANGED <<process, relayed, signalled, starts>>

\* fwd.Forward, which knows no context and takes up to two client timeouts for
\* each domain.
Forward(t) ==
  /\ at[t] = "handling"
  /\ at' = [at EXCEPT ![t] = "forwarded"]
  /\ \E ok \in BOOLEAN : relayed' = [relayed EXCEPT ![t] = ok]
  /\ UNCHANGED <<process, heard, signalled, starts>>

\* WriteTimeout: what the handler writes from now on does not arrive, and the
\* handler does not know.
PassDeadline(t) ==
  /\ at[t] \in {"handling", "forwarded"} /\ heard[t] = "waiting"
  /\ heard' = [heard EXCEPT ![t] = "late"]
  /\ UNCHANGED <<process, at, relayed, signalled, starts>>

\* The handler records the result in the store and answers.
Answer(t) ==
  /\ at[t] = "forwarded"
  /\ at' = [at EXCEPT ![t] = "gone"]
  /\ heard' = [heard EXCEPT ![t] =
                 IF @ # "waiting" THEN @ ELSE IF relayed[t] THEN "ok" ELSE "error"]
  /\ UNCHANGED <<process, relayed, signalled, starts>>

-----------------------------------------------------------------------------

Main == Notify \/ Go \/ ReceiveSignal \/ ShutdownReturns \/ ShutdownTimesOut \/ Leave

Next ==
  \/ Notify \/ Go \/ ReceiveSignal \/ ShutdownReturns \/ ShutdownTimesOut \/ Leave
  \/ Build \/ Listen \/ RunFails \/ RunClosed
  \/ Start \/ Signal \/ Kill
  \/ \E m \in Messages, n \in 1 .. MaxTries : Connect(m, n)
  \/ \E t \in Tries :
       GiveUp(t) \/ Handle(t) \/ CloseUnread(t) \/ Forward(t) \/ PassDeadline(t) \/ Answer(t)

Spec == Init /\ [][Next]_vars

\* main runs, and its context expires; nothing is asked of Run, of the handlers
\* or of the upstream.
FairSpec == Spec /\ WF_vars(Main)

-----------------------------------------------------------------------------
(* Properties                                                              *)

\* Every variable has its type.
TypeOK ==
  /\ main \in {"init", "notified", "waiting", "draining", "closed", "exited"}
  /\ run \in {"none", "building", "built", "serving", "returned"}
  /\ done \in 0 .. 1 /\ open \in BOOLEAN /\ signalled \in BOOLEAN
  /\ status \in {"none"} \cup Ends
  /\ at \in [Tries -> {"none", "connected", "handling", "forwarded", "gone"}]
  /\ relayed \in [Tries -> BOOLEAN]
  /\ heard \in [Tries -> Hears]
  /\ starts \in 1 .. MaxStarts

\* A handler finds the store open as long as it runs: the store is closed only
\* when Shutdown has seen the last one off, never because Shutdown ran out of
\* time.  A main that panics is the exception: it closes the store while Run may
\* begin to listen.
StoreOutlivesHandlers == UnderWay # {} => open \/ status = "panic"

\* A message that a handler saw relayed is sent to the relay again only when the
\* write deadline or the upstream's own impatience lost the answer, or a process
\* that did not end with success: neither a stop that does, whatever signals and
\* requests it meets, nor a connection that Shutdown closes costs a second copy.
NoNeedlessCopy ==
  \A m \in Messages : \A i, j \in 1 .. MaxTries :
    i < j /\ at[m, j] # "none" /\ relayed[m, i] =>
      heard[m, i] \in {"late", "gaveup"} \cup (Ends \ {"success"})

\* A signal ends the process, whenever it comes: while main has not come to wait
\* for it, before Run has made the server, or with handlers that hang for good.
SignalEnds == signalled ~> (main = "exited")
=============================================================================
