---------------------------- MODULE RelayService ----------------------------
(***************************************************************************)
(* What the relay promises to the server that hands it a message, without  *)
(* goroutines, counters, tables or rules.  A request is refused before     *)
(* anything is sent, or its copies are sent, at most one per destination   *)
(* and way to reach it; a destination that confirmed gets no further copy; *)
(* the final answer is "ok" when somebody confirmed and "failed" when      *)
(* nobody did; the answer may be lost, also in a crash, and nothing else.  *)
(***************************************************************************)
CONSTANTS Request, Host, Try

VARIABLES phase,      \* where each request stands
          copies,     \* <<request, destination, way>> that were sent
          delivered,  \* those that arrived
          confirmed   \* those whose arrival was confirmed in time

svars == <<phase, copies, delivered, confirmed>>

Active == {"open", "sending"}

SInit ==
  /\ phase = [r \in Request |-> "idle"]
  /\ copies = {} /\ delivered = {} /\ confirmed = {}

Open(r) ==
  /\ phase[r] = "idle"
  /\ phase' = [phase EXCEPT ![r] = "open"]
  /\ UNCHANGED <<copies, delivered, confirmed>>

Refuse(r) ==
  /\ phase[r] = "open"
  /\ phase' = [phase EXCEPT ![r] = "refused"]
  /\ UNCHANGED <<copies, delivered, confirmed>>

Send(r, d, t) ==
  /\ phase[r] \in Active
  /\ <<r, d, t>> \notin copies
  /\ \A u \in Try : <<r, d, u>> \notin confirmed
  /\ phase' = [phase EXCEPT ![r] = "sending"]
  /\ copies' = copies \cup {<<r, d, t>>}
  /\ UNCHANGED <<delivered, confirmed>>

\* At any time, also long after the request was answered or lost.
Deliver(c) ==
  /\ c \in copies \ delivered
  /\ delivered' = delivered \cup {c}
  /\ UNCHANGED <<phase, copies, confirmed>>

Confirm(r, d, t) ==
  /\ phase[r] = "sending"
  /\ <<r, d, t>> \in delivered \ confirmed
  /\ confirmed' = confirmed \cup {<<r, d, t>>}
  /\ UNCHANGED <<phase, copies, delivered>>

Confirmed(r) == \E d \in Host, t \in Try : <<r, d, t>> \in confirmed

Answer(r) ==
  /\ phase[r] = "sending"
  /\ phase' = [phase EXCEPT ![r] = IF Confirmed(r) THEN "ok" ELSE "failed"]
  /\ UNCHANGED <<copies, delivered, confirmed>>

\* The answer does not get through in time, whatever it is.
Lose(r) ==
  /\ phase[r] \in Active
  /\ phase' = [phase EXCEPT ![r] = "lost"]
  /\ UNCHANGED <<copies, delivered, confirmed>>

Crash ==
  /\ phase' = [r \in Request |-> IF phase[r] \in Active THEN "lost" ELSE phase[r]]
  /\ UNCHANGED <<copies, delivered, confirmed>>

SNext ==
  \/ \E r \in Request : Open(r) \/ Refuse(r) \/ Answer(r) \/ Lose(r)
  \/ \E r \in Request, d \in Host, t \in Try : Send(r, d, t) \/ Confirm(r, d, t)
  \/ \E c \in copies : Deliver(c)
  \/ Crash

SSpec == SInit /\ [][SNext]_svars
=============================================================================
