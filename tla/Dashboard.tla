------------------------------ MODULE Dashboard ------------------------------
(***************************************************************************)
(* The store of the admin dashboard (admin-web/src/lib/state.svelte.ts):   *)
(* asynchronous functions that overlap, each of which calls the admin API, *)
(* waits, and writes what it got into the store; the timer and the buttons *)
(* of +layout.svelte that start them.                                      *)
(*                                                                         *)
(* A call is served at some instant, and its answer is used at a later one.*)
(* One table, "rows", stands for rewrites, filters, proxies and routes,    *)
(* which the store treats alike; its content is the number of its edits.   *)
(***************************************************************************)
EXTENDS Naturals

CONSTANTS Task,         \* calls of store functions that may overlap
          MaxEdits,     \* bound on the changes asked of the server
          MaxFailures,  \* bound on the calls that fail
          None,         \* null, or no answer yet
          Error         \* an answer without data

Modes == {"all", "selected"}

ASSUME DashboardAssumption ==
  /\ MaxEdits \in Nat /\ MaxFailures \in Nat
  /\ None # Error /\ {None, Error} \cap Modes = {}

VARIABLES
  mode, rows,             \* the server's relay mode and table
  connected, connecting, refreshing,
  shownMode, shownRows,   \* config and the tables in the store
  task,                   \* the functions under way
  edits, failures,
  modes                   \* modes the server has had (history)

server == <<mode, rows, modes>>
flags  == <<connected, connecting, refreshing>>
shown  == <<shownMode, shownRows>>
bounds == <<edits, failures>>
vars   == <<server, flags, shown, task, bounds>>

\* fn: the function, and how far it is.  nested: a refresh that connect awaits.
\* mode, rows: what to send, or what was answered.  mine: the user's own edit.
Call(fn) == [fn |-> fn, nested |-> FALSE, mode |-> None, rows |-> None, mine |-> 0]

Init ==
  /\ mode = "all" /\ rows = 0
  /\ connected = FALSE /\ connecting = FALSE /\ refreshing = FALSE
  /\ shownMode = None /\ shownRows = None
  /\ task = [t \in Task |-> Call("idle")]
  /\ edits = 0 /\ failures = 0
  /\ modes = {"all"}

Start(t, call) == task[t].fn = "idle" /\ task' = [task EXCEPT ![t] = call]
End(t) == task' = [task EXCEPT ![t] = Call("idle")]

\* apiCall returns an error: nothing was served, or the answer was lost.
Fail    == failures < MaxFailures /\ failures' = failures + 1
Succeed == UNCHANGED failures

AskForEdit == edits < MaxEdits /\ edits' = edits + 1

SetServerMode(m) == mode' = m /\ modes' = modes \cup {m} /\ UNCHANGED rows

EditServerRows == rows' = rows + 1 /\ UNCHANGED <<mode, modes>>

\* Another dashboard, or the CLI.
SomebodyElse ==
  /\ AskForEdit
  /\ EditServerRows \/ \E m \in Modes \ {mode} : SetServerMode(m)
  /\ UNCHANGED <<flags, shown, task, failures>>

-----------------------------------------------------------------------------
(* refresh                                                                 *)

Refresh(t) ==
  /\ connected
  /\ Start(t, Call("refresh"))
  /\ refreshing' = TRUE
  /\ UNCHANGED <<server, connected, connecting, shown, bounds>>

\* Promise.all: the calls are served in any order.
ServeConfig(t) ==
  /\ task[t].fn = "refresh" /\ task[t].mode = None
  /\ \/ task' = [task EXCEPT ![t].mode = mode] /\ Succeed
     \/ task' = [task EXCEPT ![t].mode = Error] /\ Fail
  /\ UNCHANGED <<server, flags, shown, edits>>

ServeRows(t) ==
  /\ task[t].fn = "refresh" /\ task[t].rows = None
  /\ \/ task' = [task EXCEPT ![t].rows = rows] /\ Succeed
     \/ task' = [task EXCEPT ![t].rows = Error] /\ Fail
  /\ UNCHANGED <<server, flags, shown, edits>>

Answered(t) ==
  task[t].fn = "refresh" /\ task[t].mode # None /\ task[t].rows # None

\* Slip: config is only fetched into an empty store.
EndRefreshOnce(t) ==
  /\ Answered(t)
  /\ shownMode' = IF task[t].mode = Error \/ shownMode # None
                  THEN shownMode ELSE task[t].mode
  /\ shownRows' = IF task[t].rows = Error THEN shownRows ELSE task[t].rows
  /\ refreshing' = FALSE
  /\ connecting' = (connecting /\ ~task[t].nested)
  /\ End(t)
  /\ UNCHANGED <<server, connected, bounds>>

\* Slip: an answer without data is stored like any other.
EndRefreshStoresErrors(t) ==
  /\ Answered(t)
  /\ shownMode' = task[t].mode /\ shownRows' = task[t].rows
  /\ refreshing' = FALSE
  /\ connecting' = (connecting /\ ~task[t].nested)
  /\ End(t)
  /\ UNCHANGED <<server, connected, bounds>>

\* Slip: connect has no "finally".
EndRefreshNoFinally(t) ==
  /\ Answered(t)
  /\ shownMode' = IF task[t].mode = Error THEN shownMode ELSE task[t].mode
  /\ shownRows' = IF task[t].rows = Error THEN shownRows ELSE task[t].rows
  /\ refreshing' = FALSE
  /\ End(t)
  /\ UNCHANGED <<server, connected, connecting, bounds>>

\* All answers are there and are stored at once, whatever happened meanwhile;
\* "finally" resets the flags, also when other refreshes are under way.
EndRefresh(t) ==
  /\ Answered(t)
  /\ shownMode' = IF task[t].mode = Error THEN shownMode ELSE task[t].mode
  /\ shownRows' = IF task[t].rows = Error THEN shownRows ELSE task[t].rows
  /\ refreshing' = FALSE
  /\ connecting' = (connecting /\ ~task[t].nested)
  /\ End(t)
  /\ UNCHANGED <<server, connected, bounds>>

-----------------------------------------------------------------------------
(* connect and disconnect                                                  *)

Connect(t) ==
  /\ ~connected
  /\ Start(t, Call("connect"))
  /\ connecting' = TRUE
  /\ UNCHANGED <<server, connected, refreshing, shown, bounds>>

\* The answer to the stats call; connect goes on with a refresh of its own.
ConnectSucceeds(t) ==
  /\ task[t].fn = "connect"
  /\ connected' = TRUE /\ refreshing' = TRUE
  /\ task' = [task EXCEPT ![t] = [Call("refresh") EXCEPT !.nested = TRUE]]
  /\ UNCHANGED <<server, connecting, shown, bounds>>

ConnectFails(t) ==
  /\ task[t].fn = "connect"
  /\ Fail
  /\ connected' = FALSE /\ connecting' = FALSE
  /\ End(t)
  /\ UNCHANGED <<server, refreshing, shown, edits>>

\* Calls under way are not cancelled.
Disconnect ==
  /\ connected
  /\ connected' = FALSE
  /\ shownMode' = None /\ shownRows' = None
  /\ UNCHANGED <<server, connecting, refreshing, task, bounds>>

-----------------------------------------------------------------------------
(* setRelayMode                                                            *)

\* Slip: an optimistic update.
SetRelayModeOptimistic(t, m) ==
  /\ connected /\ AskForEdit
  /\ Start(t, [Call("setMode") EXCEPT !.mode = m])
  /\ shownMode' = IF shownMode = None THEN None ELSE m
  /\ UNCHANGED <<server, flags, shownRows, failures>>

SetRelayMode(t, m) ==
  /\ connected /\ AskForEdit
  /\ Start(t, [Call("setMode") EXCEPT !.mode = m])
  /\ UNCHANGED <<server, flags, shown, failures>>

\* The call is served, or it fails before that and the function ends.
ServeSetMode(t) ==
  /\ task[t].fn = "setMode"
  /\ \/ /\ SetServerMode(task[t].mode)
        /\ task' = [task EXCEPT ![t].fn = "modeSet"]
        /\ Succeed
     \/ Fail /\ End(t) /\ UNCHANGED server
  /\ UNCHANGED <<flags, shown, edits>>

EndSetMode(t) ==
  /\ task[t].fn = "modeSet"
  /\ \/ /\ shownMode' = IF shownMode = None THEN None ELSE task[t].mode
        /\ Succeed
     \/ Fail /\ UNCHANGED shownMode
  /\ End(t)
  /\ UNCHANGED <<server, flags, shownRows, edits>>

-----------------------------------------------------------------------------
(* add, update and delete: the edit, then the table is loaded again        *)

Edit(t) ==
  /\ connected /\ AskForEdit
  /\ Start(t, Call("edit"))
  /\ UNCHANGED <<server, flags, shown, failures>>

\* Slip: the load does not wait for the edit.
ServeEditParallel(t) ==
  /\ task[t].fn = "edit"
  /\ EditServerRows
  /\ task' = [task EXCEPT ![t] = [Call("loaded") EXCEPT !.rows = rows, !.mine = rows + 1]]
  /\ UNCHANGED <<flags, shown, bounds>>

ServeEdit(t) ==
  /\ task[t].fn = "edit"
  /\ \/ /\ EditServerRows
        /\ task' = [task EXCEPT ![t] = [Call("edited") EXCEPT !.mine = rows + 1]]
        /\ Succeed
     \/ Fail /\ End(t) /\ UNCHANGED server
  /\ UNCHANGED <<flags, shown, edits>>

EndEdit(t) ==
  /\ task[t].fn = "edited"
  /\ \/ task' = [task EXCEPT ![t].fn = "load"] /\ Succeed
     \/ Fail /\ End(t)
  /\ UNCHANGED <<server, flags, shown, edits>>

ServeLoad(t) ==
  /\ task[t].fn = "load"
  /\ task' = [task EXCEPT ![t].fn = "loaded", ![t].rows = rows]
  /\ UNCHANGED <<server, flags, shown, bounds>>

EndLoad(t) ==
  /\ task[t].fn = "loaded"
  /\ \/ shownRows' = task[t].rows /\ Succeed
     \/ Fail /\ UNCHANGED shownRows
  /\ End(t)
  /\ UNCHANGED <<server, flags, shownMode, edits>>

-----------------------------------------------------------------------------

\* The layout and the overview page, part by part.  An effect connects once, as
\* soon as there is a URL and a token, if only one character of it.
AutoConnect(t) == Connect(t)

\* Shown while not connected.  Its button waits for connecting, Enter does not.
LoginForm(t) == Connect(t)

\* Every 10 s, whatever is under way.
Timer(t) == Refresh(t)

\* The refresh button is disabled while some refresh is under way.
Header(t) == (~refreshing /\ Refresh(t)) \/ Disconnect

ModeButtons(t) == \E m \in Modes : SetRelayMode(t, m)

Page(t) ==
  AutoConnect(t) \/ LoginForm(t) \/ Timer(t) \/ Header(t) \/ ModeButtons(t) \/ Edit(t)

\* What happens to a call once it is made.
Proceed(t) ==
  \/ ServeConfig(t) \/ ServeRows(t) \/ EndRefresh(t)
  \/ ConnectSucceeds(t) \/ ConnectFails(t)
  \/ ServeSetMode(t) \/ EndSetMode(t)
  \/ ServeEdit(t) \/ EndEdit(t) \/ ServeLoad(t) \/ EndLoad(t)

Next ==
  \/ \E t \in Task : Page(t) \/ Proceed(t)
  \/ SomebodyElse

Spec == Init /\ [][Next]_vars

\* Every fetch is settled, and the timer fires while connected.
Fairness ==
  /\ \A t \in Task : WF_vars(Proceed(t))
  /\ WF_vars(\E t \in Task : Timer(t))

FairSpec == Spec /\ Fairness

-----------------------------------------------------------------------------
(* Properties                                                              *)

\* Every variable has its type.
TypeOK ==
  /\ mode \in Modes /\ rows \in Nat
  /\ {connected, connecting, refreshing} \subseteq BOOLEAN
  /\ shownMode \in Modes \cup {None}
  /\ shownRows = None \/ shownRows \in 0 .. rows
  /\ \A t \in Task :
       /\ task[t].fn \in {"idle", "refresh", "connect", "setMode", "modeSet",
                          "edit", "edited", "load", "loaded"}
       /\ task[t].mode \in Modes \cup {None, Error}
       /\ task[t].rows \in {None, Error} \/ task[t].rows \in 0 .. rows
  /\ edits \in 0 .. MaxEdits /\ failures \in 0 .. MaxFailures
  /\ modes \subseteq Modes

\* The mode the operator sees is one the server really had: however calls fail
\* and overlap, a mode that was asked for and never set is not shown.
NeverInvented == shownMode \in modes \cup {None}

\* When an edit of the user ends well, the table shown contains it: the list is
\* loaded after the edit was served, never beside it.
EditShowsItself ==
  [][\A t \in Task :
       task[t].fn = "loaded" /\ task'[t].fn = "idle" /\ failures' = failures
         => shownRows' >= task[t].mine]_vars

\* Answers that arrive in the wrong order may show the operator an old mode or
\* table, but not for ever: once the connection stays and the edits and
\* failures are over, the timer brings the store up to date for good.
Converges ==
  <>[]connected => <>[](shownMode = mode /\ shownRows = rows)

\* The login form is never left waiting: connecting ends, however attempts
\* started by button and by Enter overlap, and whatever fails.
ConnectEnds == connecting ~> ~connecting
=============================================================================
