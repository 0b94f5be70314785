--------------------------- MODULE DashboardProofs ---------------------------
(***************************************************************************)
(* What the dashboard shows, for any number of functions that overlap,     *)
(* edits and failed calls: proofs of the safety properties of Dashboard.   *)
(***************************************************************************)
EXTENDS Dashboard, TLAPS

Functions == {"idle", "refresh", "connect", "setMode", "modeSet",
              "edit", "edited", "load", "loaded"}

CallType == [fn : Functions, nested : BOOLEAN, mode : Modes \cup {None, Error},
             rows : Nat \cup {None, Error}, mine : Nat]

\* What a call carries, when the server's table is rs and its modes were ms: a
\* mode answered is one of those; one that is asked for need not be.  The edit
\* of the user is in the table before it is loaded.
Good(c, rs, ms) ==
  /\ c \in CallType
  /\ c.rows \in {None, Error} \/ c.rows \in 0 .. rs
  /\ c.fn = "setMode" => c.mode \in Modes
  /\ c.fn = "modeSet" => c.mode \in ms
  /\ c.fn \notin {"setMode", "modeSet"} => c.mode \in ms \cup {None, Error}
  /\ c.mine \in 0 .. rs
  /\ c.fn = "loaded" => c.rows \in 0 .. rs /\ c.rows >= c.mine

GoodTasks ==
  /\ task \in [Task -> CallType]
  /\ \A t \in Task : Good(task[t], rows, modes)

GoodServer == rows \in Nat /\ mode \in modes /\ modes \subseteq Modes

GoodStore ==
  /\ connected \in BOOLEAN /\ connecting \in BOOLEAN /\ refreshing \in BOOLEAN
  /\ shownMode \in modes \cup {None}
  /\ shownRows = None \/ shownRows \in 0 .. rows

GoodCounts == edits \in 0 .. MaxEdits /\ failures \in 0 .. MaxFailures

Inv == GoodServer /\ GoodStore /\ GoodCounts /\ GoodTasks

-----------------------------------------------------------------------------
(* Calls                                                                   *)

\* A new call carries nothing.
LEMMA NewCall ==
  ASSUME NEW fn \in Functions \ {"setMode", "modeSet", "loaded"},
         NEW rs \in Nat, NEW ms
  PROVE  Good(Call(fn), rs, ms)
BY DEF Good, Call, CallType, Functions

\* The server's table only grows, and so do the modes it has had.
LEMMA StaysGood ==
  ASSUME NEW c, NEW rs \in Nat, NEW ms, NEW rs2 \in Nat, NEW ms2,
         Good(c, rs, ms), rs <= rs2, ms \subseteq ms2
  PROVE  Good(c, rs2, ms2)
<1>1. c.mine \in 0 .. rs2 /\ (c.rows \in 0 .. rs => c.rows \in 0 .. rs2)
  BY DEF Good, CallType
<1> QED
  BY <1>1 DEF Good

\* One task goes on with a good call, the others do not move.
LEMMA OneTask ==
  ASSUME Inv, NEW t \in Task, NEW c, task' = [task EXCEPT ![t] = c],
         rows' \in Nat, rows <= rows', modes \subseteq modes',
         Good(c, rows', modes')
  PROVE  GoodTasks'
<1>1. task' \in [Task -> CallType]
  BY DEF Inv, GoodTasks, Good
<1>2. ASSUME NEW s \in Task PROVE Good(task'[s], rows', modes')
  <2>1. CASE s = t
    BY <2>1 DEF Inv, GoodTasks
  <2>2. CASE s # t
    <3>1. task'[s] = task[s] /\ Good(task[s], rows, modes)
      BY <2>2 DEF Inv, GoodTasks
    <3> QED
      BY <3>1, StaysGood DEF Inv, GoodServer
  <2> QED
    BY <2>1, <2>2
<1> QED
  BY <1>1, <1>2 DEF GoodTasks

\* No task moves.
LEMMA NoTask ==
  ASSUME Inv, task' = task, rows' \in Nat, rows <= rows', modes \subseteq modes'
  PROVE  GoodTasks'
<1>1. ASSUME NEW s \in Task PROVE Good(task[s], rows', modes')
  BY StaysGood DEF Inv, GoodTasks, GoodServer
<1> QED
  BY <1>1 DEF Inv, GoodTasks

\* A function ends.
LEMMA Ends ==
  ASSUME Inv, NEW t \in Task, End(t), UNCHANGED <<rows, modes>>
  PROVE  GoodTasks'
<1>1. Good(Call("idle"), rows', modes')
  BY NewCall DEF Inv, GoodServer, Functions
<1>2. rows' \in Nat /\ rows <= rows' /\ modes \subseteq modes'
  BY DEF Inv, GoodServer
<1>3. task' = [task EXCEPT ![t] = Call("idle")]
  BY DEF End
<1> QED
  BY <1>1, <1>2, <1>3, OneTask

\* A function starts, or goes on.
LEMMA Starts ==
  ASSUME Inv, NEW t \in Task, NEW c, task' = [task EXCEPT ![t] = c],
         Good(c, rows, modes), UNCHANGED <<rows, modes>>
  PROVE  GoodTasks'
<1>1. rows' \in Nat /\ rows <= rows' /\ modes \subseteq modes' /\ Good(c, rows', modes')
  BY DEF Inv, GoodServer
<1> QED
  BY <1>1, OneTask

-----------------------------------------------------------------------------
(* The inductive invariant                                                 *)

\* It holds at first.
LEMMA InvInit == Init => Inv
<1> SUFFICES ASSUME Init PROVE Inv
  OBVIOUS
<1>1. Good(Call("idle"), 0, {"all"})
  BY NewCall DEF Functions
<1>2. GoodTasks
  BY <1>1 DEF Init, GoodTasks, Good
<1>3. GoodServer
  BY DEF Init, GoodServer, Modes
<1>4. GoodStore
  BY DEF Init, GoodStore
<1>5. GoodCounts
  BY DashboardAssumption DEF Init, GoodCounts
<1> QED
  BY <1>2, <1>3, <1>4, <1>5 DEF Inv

\* What starts a function, or empties the store.
LEMMA StartSteps ==
  ASSUME Inv, NEW t \in Task, Page(t)
  PROVE  Inv'
<1> USE DEF GoodServer, GoodStore, GoodCounts, server, flags, shown, bounds
<1>1. ASSUME Refresh(t) PROVE Inv'
  <2>1. Good(Call("refresh"), rows, modes)
    BY NewCall DEF Inv, Functions
  <2>2. GoodTasks'
    BY <1>1, <2>1, Starts DEF Refresh, Start
  <2> QED
    BY <1>1, <2>2 DEF Refresh, Inv
<1>2. ASSUME Connect(t) PROVE Inv'
  <2>1. Good(Call("connect"), rows, modes)
    BY NewCall DEF Inv, Functions
  <2>2. GoodTasks'
    BY <1>2, <2>1, Starts DEF Connect, Start
  <2> QED
    BY <1>2, <2>2 DEF Connect, Inv
<1>3. ASSUME Disconnect PROVE Inv'
  <2>1. GoodTasks'
    BY <1>3, NoTask DEF Disconnect, Inv
  <2> QED
    BY <1>3, <2>1 DEF Disconnect, Inv
<1>4. ASSUME NEW m \in Modes, SetRelayMode(t, m) PROVE Inv'
  <2> DEFINE d == [Call("setMode") EXCEPT !.mode = m]
  <2>0. d \in CallType /\ d.fn = "setMode" /\ d.mode = m /\ d.rows = None /\ d.mine = 0
    BY DEF Call, CallType, Functions
  <2>1. Good(d, rows, modes)
    <3> HIDE DEF d
    <3> QED
      BY <2>0 DEF Inv, Good
  <2>2. GoodTasks'
    BY <1>4, <2>1, Starts DEF SetRelayMode, Start
  <2> QED
    BY <1>4, <2>2, DashboardAssumption DEF SetRelayMode, Inv, AskForEdit
<1>5. ASSUME Edit(t) PROVE Inv'
  <2>1. Good(Call("edit"), rows, modes)
    BY NewCall DEF Inv, Functions
  <2>2. GoodTasks'
    BY <1>5, <2>1, Starts DEF Edit, Start
  <2> QED
    BY <1>5, <2>2, DashboardAssumption DEF Edit, Inv, AskForEdit
<1> QED
  BY <1>1, <1>2, <1>3, <1>4, <1>5
     DEF Page, AutoConnect, LoginForm, Timer, Header, ModeButtons

\* A call of refresh that is served, or fails, or is stored.
LEMMA RefreshSteps ==
  ASSUME Inv, NEW t \in Task, ServeConfig(t) \/ ServeRows(t) \/ EndRefresh(t)
  PROVE  Inv'
<1> USE DEF server, flags, shown, bounds
<1> DEFINE c == task[t]
<1>0. /\ c \in CallType /\ Good(c, rows, modes)
      /\ task \in [Task -> CallType] /\ rows \in Nat
  BY DEF Inv, GoodTasks, GoodServer
<1>c. ASSUME Fail \/ Succeed PROVE failures' \in 0 .. MaxFailures
  BY <1>c, DashboardAssumption DEF Fail, Succeed, Inv, GoodCounts
<1>1. ASSUME ServeConfig(t) PROVE Inv'
  <2> USE <1>1 DEF ServeConfig
  <2>1. PICK m \in modes \cup {Error} : task' = [task EXCEPT ![t].mode = m]
    BY DEF Inv, GoodServer
  <2> DEFINE d == [c EXCEPT !.mode = m]
  <2>2. /\ d \in CallType /\ d.fn = "refresh" /\ d.mode = m
        /\ d.rows = c.rows /\ d.mine = c.mine
    BY <1>0 DEF CallType, Inv, GoodServer
  <2>3. Good(d, rows, modes)
    <3> HIDE DEF d
    <3> QED
      BY <1>0, <2>2 DEF Good
  <2>4. task' = [task EXCEPT ![t] = d]
    BY <2>1, <1>0
  <2>5. GoodTasks'
    BY <2>3, <2>4, Starts
  <2> QED
    BY <2>5, <1>c DEF Inv, GoodServer, GoodStore, GoodCounts
<1>2. ASSUME ServeRows(t) PROVE Inv'
  <2> USE <1>2 DEF ServeRows
  <2>1. PICK n \in {rows, Error} : task' = [task EXCEPT ![t].rows = n]
    OBVIOUS
  <2> DEFINE d == [c EXCEPT !.rows = n]
  <2>2. /\ d \in CallType /\ d.fn = "refresh" /\ d.mode = c.mode
        /\ d.rows = n /\ d.mine = c.mine
    BY <1>0 DEF CallType
  <2>3. Good(d, rows, modes)
    <3> HIDE DEF d
    <3> QED
      BY <1>0, <2>2 DEF Good
  <2>4. task' = [task EXCEPT ![t] = d]
    BY <2>1, <1>0
  <2>5. GoodTasks'
    BY <2>3, <2>4, Starts
  <2> QED
    BY <2>5, <1>c DEF Inv, GoodServer, GoodStore, GoodCounts
<1>3. ASSUME EndRefresh(t) PROVE Inv'
  <2>1. GoodTasks'
    BY <1>3, Ends DEF EndRefresh
  <2>2. c.mode # Error => c.mode \in modes
    BY <1>0, <1>3 DEF Good, EndRefresh, Answered
  <2>3. c.rows # Error => c.rows \in 0 .. rows
    BY <1>0, <1>3 DEF Good, EndRefresh, Answered
  <2>4. GoodStore'
    BY <1>3, <2>2, <2>3 DEF EndRefresh, Inv, GoodStore
  <2> QED
    BY <1>3, <2>1, <2>4 DEF EndRefresh, Inv, GoodServer, GoodCounts
<1> QED
  BY <1>1, <1>2, <1>3

\* The answer of connect.
LEMMA ConnectSteps ==
  ASSUME Inv, NEW t \in Task, ConnectSucceeds(t) \/ ConnectFails(t)
  PROVE  Inv'
<1> USE DEF GoodServer, GoodStore, GoodCounts, server, flags, shown, bounds
<1>1. ASSUME ConnectSucceeds(t) PROVE Inv'
  <2> DEFINE d == [Call("refresh") EXCEPT !.nested = TRUE]
  <2>0. d \in CallType /\ d.fn = "refresh" /\ d.mode = None /\ d.rows = None /\ d.mine = 0
    BY DEF Call, CallType, Functions
  <2>1. Good(d, rows, modes)
    <3> HIDE DEF d
    <3> QED
      BY <2>0 DEF Inv, Good
  <2>2. GoodTasks'
    BY <1>1, <2>1, Starts DEF ConnectSucceeds
  <2> QED
    BY <1>1, <2>2 DEF ConnectSucceeds, Inv
<1>2. ASSUME ConnectFails(t) PROVE Inv'
  <2>1. GoodTasks'
    BY <1>2, Ends DEF ConnectFails
  <2>2. failures' \in 0 .. MaxFailures
    BY <1>2, DashboardAssumption DEF ConnectFails, Fail, Inv
  <2> QED
    BY <1>2, <2>1, <2>2 DEF ConnectFails, Inv
<1> QED
  BY <1>1, <1>2

\* The server sets a mode, and its answer is shown.
LEMMA SetModeSteps ==
  ASSUME Inv, NEW t \in Task, ServeSetMode(t) \/ EndSetMode(t)
  PROVE  Inv'
<1> USE DEF server, flags, shown, bounds
<1> DEFINE c == task[t]
<1>0. /\ c \in CallType /\ Good(c, rows, modes)
      /\ task \in [Task -> CallType] /\ rows \in Nat
  BY DEF Inv, GoodTasks, GoodServer
<1>c. ASSUME Fail \/ Succeed PROVE failures' \in 0 .. MaxFailures
  BY <1>c, DashboardAssumption DEF Fail, Succeed, Inv, GoodCounts
<1>1. CASE ServeSetMode(t) /\ Succeed
  <2> USE <1>1 DEF ServeSetMode
  <2>0. Fail => ~Succeed
    BY DEF Fail, Succeed, Inv, GoodCounts
  <2>1. /\ SetServerMode(c.mode) /\ c.fn = "setMode"
        /\ task' = [task EXCEPT ![t].fn = "modeSet"]
    BY <2>0
  <2>2. /\ c.mode \in Modes /\ modes' = modes \cup {c.mode}
        /\ mode' = c.mode /\ rows' = rows
    BY <2>1, <1>0 DEF Good, SetServerMode
  <2> DEFINE d == [c EXCEPT !.fn = "modeSet"]
  <2>3. /\ d \in CallType /\ d.fn = "modeSet" /\ d.mode = c.mode
        /\ d.rows = c.rows /\ d.mine = c.mine
    BY <1>0 DEF CallType, Functions
  <2>4. Good(d, rows', modes')
    <3> HIDE DEF d
    <3> QED
      BY <1>0, <2>2, <2>3 DEF Good
  <2>5. task' = [task EXCEPT ![t] = d]
    BY <2>1, <1>0
  <2>6. rows' \in Nat /\ rows <= rows' /\ modes \subseteq modes'
    BY <2>2, <1>0
  <2>7. GoodTasks'
    BY <2>4, <2>5, <2>6, OneTask
  <2>8. GoodServer' /\ GoodStore'
    BY <2>2 DEF Inv, GoodServer, GoodStore
  <2> QED
    BY <2>7, <2>8, <1>c DEF Inv, GoodCounts
<1>2. CASE ServeSetMode(t) /\ ~Succeed
  <2>1. Fail /\ End(t) /\ UNCHANGED server
    BY <1>2 DEF ServeSetMode
  <2>2. GoodTasks'
    BY <2>1, Ends
  <2> QED
    BY <1>2, <2>1, <2>2, <1>c
       DEF ServeSetMode, Inv, GoodServer, GoodStore, GoodCounts
<1>3. ASSUME EndSetMode(t) PROVE Inv'
  <2>1. GoodTasks'
    BY <1>3, Ends DEF EndSetMode
  <2>2. c.mode \in modes
    BY <1>0, <1>3 DEF Good, EndSetMode
  <2>3. failures' \in 0 .. MaxFailures
    BY <1>3, <1>c DEF EndSetMode
  <2>4. GoodStore'
    BY <1>3, <2>2 DEF EndSetMode, Inv, GoodStore
  <2> QED
    BY <1>3, <2>1, <2>3, <2>4 DEF EndSetMode, Inv, GoodServer, GoodCounts
<1> QED
  BY <1>1, <1>2, <1>3

\* The server makes an edit, which is then loaded with everybody else's.
LEMMA EditSteps ==
  ASSUME Inv, NEW t \in Task,
         ServeEdit(t) \/ EndEdit(t) \/ ServeLoad(t) \/ EndLoad(t)
  PROVE  Inv'
<1> USE DEF server, flags, shown, bounds
<1> DEFINE c == task[t]
<1>0. /\ c \in CallType /\ Good(c, rows, modes)
      /\ task \in [Task -> CallType] /\ rows \in Nat
  BY DEF Inv, GoodTasks, GoodServer
<1>c. ASSUME Fail \/ Succeed PROVE failures' \in 0 .. MaxFailures
  BY <1>c, DashboardAssumption DEF Fail, Succeed, Inv, GoodCounts
<1>1. ASSUME ServeEdit(t), EditServerRows,
             task' = [task EXCEPT ![t] = [Call("edited") EXCEPT !.mine = rows + 1]],
             Succeed
      PROVE  Inv'
  <2> DEFINE d == [Call("edited") EXCEPT !.mine = rows + 1]
  <2>1. /\ d \in CallType /\ d.fn = "edited" /\ d.mode = None
        /\ d.rows = None /\ d.mine = rows + 1
    <3>1. PICK n \in Nat : n = rows + 1
      BY <1>0
    <3>2. d = [Call("edited") EXCEPT !.mine = n]
      BY <3>1
    <3> HIDE DEF d
    <3> QED
      BY <3>1, <3>2 DEF Call, CallType, Functions
  <2>2. rows' = rows + 1 /\ UNCHANGED <<mode, modes>>
    BY <1>1 DEF EditServerRows
  <2>3. Good(d, rows', modes')
    <3> HIDE DEF d
    <3> QED
      BY <1>0, <2>1, <2>2 DEF Good
  <2>4. rows' \in Nat /\ rows <= rows' /\ modes \subseteq modes'
    BY <2>2, <1>0
  <2>5. GoodTasks'
    BY <1>1, <2>3, <2>4, OneTask
  <2>6. GoodServer' /\ GoodStore'
    BY <1>0, <1>1, <2>2 DEF ServeEdit, Inv, GoodServer, GoodStore
  <2> QED
    BY <1>1, <1>c, <2>5, <2>6 DEF ServeEdit, Inv, GoodCounts
<1>2. ASSUME ServeEdit(t), Fail, End(t), UNCHANGED server PROVE Inv'
  <2>1. GoodTasks'
    BY <1>2, Ends
  <2> QED
    BY <1>2, <2>1, <1>c DEF ServeEdit, Inv, GoodServer, GoodStore, GoodCounts
<1>3. ASSUME EndEdit(t), task' = [task EXCEPT ![t].fn = "load"], Succeed PROVE Inv'
  <2> DEFINE d == [c EXCEPT !.fn = "load"]
  <2>1. /\ d \in CallType /\ d.fn = "load" /\ d.mode = c.mode
        /\ d.rows = c.rows /\ d.mine = c.mine
    BY <1>0 DEF CallType, Functions
  <2>2. Good(d, rows, modes)
    <3> HIDE DEF d
    <3> QED
      BY <1>0, <1>3, <2>1 DEF Good, EndEdit
  <2>3. task' = [task EXCEPT ![t] = d]
    BY <1>3, <1>0
  <2>4. GoodTasks'
    BY <1>3, <2>2, <2>3, Starts DEF EndEdit
  <2> QED
    BY <1>3, <2>4, <1>c DEF EndEdit, Inv, GoodServer, GoodStore, GoodCounts
<1>4. ASSUME EndEdit(t), Fail, End(t) PROVE Inv'
  <2>1. GoodTasks'
    BY <1>4, Ends DEF EndEdit
  <2> QED
    BY <1>4, <2>1, <1>c DEF EndEdit, Inv, GoodServer, GoodStore, GoodCounts
<1>5. ASSUME ServeLoad(t) PROVE Inv'
  <2> DEFINE d == [c EXCEPT !.fn = "loaded", !.rows = rows]
  <2>1. /\ d \in CallType /\ d.fn = "loaded" /\ d.mode = c.mode
        /\ d.rows = rows /\ d.mine = c.mine
    BY <1>0 DEF CallType, Functions
  <2>2. Good(d, rows, modes)
    <3> HIDE DEF d
    <3> QED
      BY <1>0, <1>5, <2>1 DEF Good, ServeLoad
  <2>3. task' = [task EXCEPT ![t] = d]
    BY <1>5, <1>0 DEF ServeLoad
  <2>4. GoodTasks'
    BY <1>5, <2>2, <2>3, Starts DEF ServeLoad
  <2> QED
    BY <1>5, <2>4 DEF ServeLoad, Inv, GoodServer, GoodStore, GoodCounts
<1>6. ASSUME EndLoad(t) PROVE Inv'
  <2>1. GoodTasks'
    BY <1>6, Ends DEF EndLoad
  <2>2. c.rows \in 0 .. rows
    BY <1>0, <1>6 DEF Good, EndLoad
  <2>3. failures' \in 0 .. MaxFailures
    BY <1>6, <1>c DEF EndLoad
  <2>4. GoodStore'
    BY <1>6, <2>2 DEF EndLoad, Inv, GoodStore
  <2> QED
    BY <1>6, <2>1, <2>3, <2>4 DEF EndLoad, Inv, GoodServer, GoodCounts
<1> QED
  BY <1>1, <1>2, <1>3, <1>4, <1>5, <1>6 DEF ServeEdit, EndEdit

-----------------------------------------------------------------------------

\* Every step keeps the invariant.
LEMMA InvStep == Inv /\ [Next]_vars => Inv'
<1> SUFFICES ASSUME Inv, [Next]_vars PROVE Inv'
  OBVIOUS
<1>1. ASSUME SomebodyElse PROVE Inv'
  <2> USE <1>1 DEF SomebodyElse
  <2>1. /\ rows' \in Nat /\ rows <= rows' /\ modes \subseteq modes'
        /\ mode' \in modes' /\ modes' \subseteq Modes
    BY DEF Inv, GoodServer, EditServerRows, SetServerMode
  <2>2. GoodTasks'
    BY <2>1, NoTask
  <2>3. GoodStore'
    BY <2>1 DEF Inv, GoodServer, GoodStore, flags, shown
  <2>4. GoodCounts'
    BY DashboardAssumption DEF AskForEdit, Inv, GoodCounts
  <2> QED
    BY <2>1, <2>2, <2>3, <2>4 DEF Inv, GoodServer
<1>2. CASE UNCHANGED vars
  <2>1. UNCHANGED <<mode, rows, modes>> /\ UNCHANGED <<connected, connecting, refreshing>>
    BY <1>2 DEF vars, server, flags
  <2>2. UNCHANGED <<shownMode, shownRows, task, edits, failures>>
    BY <1>2 DEF vars, shown, bounds
  <2> QED
    BY <2>1, <2>2 DEF Inv, GoodServer, GoodStore, GoodCounts, GoodTasks
<1> QED
  BY <1>1, <1>2, StartSteps, RefreshSteps, ConnectSteps, SetModeSteps, EditSteps
     DEF Next, Proceed

\* The invariant holds in every state of every behaviour.
THEOREM Invariance == Spec => []Inv
BY InvInit, InvStep, PTL DEF Spec

\* Every variable keeps its type; the table shown is one the server had.
THEOREM TypeCorrect == Spec => []TypeOK
<1>1. Inv => TypeOK
  <2> SUFFICES ASSUME Inv PROVE TypeOK
    OBVIOUS
  <2>1. ASSUME NEW t \in Task
        PROVE  /\ task[t].fn \in Functions
               /\ task[t].mode \in Modes \cup {None, Error}
               /\ task[t].rows \in {None, Error} \/ task[t].rows \in 0 .. rows
    BY DEF Inv, GoodTasks, Good, CallType
  <2>2. /\ mode \in Modes /\ rows \in Nat /\ modes \subseteq Modes
        /\ {connected, connecting, refreshing} \subseteq BOOLEAN
        /\ shownMode \in Modes \cup {None}
        /\ shownRows = None \/ shownRows \in 0 .. rows
        /\ edits \in 0 .. MaxEdits /\ failures \in 0 .. MaxFailures
    BY DEF Inv, GoodServer, GoodStore, GoodCounts
  <2> QED
    BY <2>1, <2>2 DEF TypeOK, Functions
<1> QED
  BY <1>1, Invariance, PTL

\* However calls fail and overlap, setRelayMode and refresh show no mode that
\* the server never had.
THEOREM NothingInvented == Spec => []NeverInvented
<1>1. Inv => NeverInvented
  BY DEF Inv, GoodStore, NeverInvented
<1> QED
  BY <1>1, Invariance, PTL

\* The load that follows an edit shows it, whatever other functions store.
THEOREM EditShown == Spec => EditShowsItself
<1> DEFINE A == \A t \in Task :
       task[t].fn = "loaded" /\ task'[t].fn = "idle" /\ failures' = failures
         => shownRows' >= task[t].mine
<1>1. Inv /\ [Next]_vars => [A]_vars
  <2> SUFFICES ASSUME Inv, Next, NEW t \in Task, task[t].fn = "loaded",
                      task'[t].fn = "idle", failures' = failures
               PROVE  shownRows' >= task[t].mine
    BY DEF vars
  <2>0. /\ task \in [Task -> CallType] /\ failures \in Nat
        /\ task[t].rows >= task[t].mine
    BY DashboardAssumption DEF Inv, GoodTasks, Good, GoodCounts
  <2>1. EndLoad(t)
    <3>1. task' # task
      OBVIOUS
    <3>2. ~SomebodyElse /\ ~Disconnect
      BY <3>1 DEF SomebodyElse, Disconnect
    <3>3. PICK s \in Task : Page(s) \/ Proceed(s)
      BY <3>2 DEF Next
    <3>4. s = t
      <4>1. ASSUME s # t PROVE FALSE
        <5>1. task'[t] = task[t]
          BY <4>1, <3>2, <3>3, <2>0
             DEF Page, AutoConnect, LoginForm, Timer, Header, ModeButtons, Proceed,
                 Refresh, Connect, SetRelayMode, Edit, Start, End, ServeConfig,
                 ServeRows, EndRefresh, ConnectSucceeds, ConnectFails, ServeSetMode,
                 EndSetMode, ServeEdit, EndEdit, ServeLoad, EndLoad
        <5> QED
          BY <5>1
      <4> QED
        BY <4>1
    <3> QED
      BY <3>2, <3>3, <3>4
         DEF Page, AutoConnect, LoginForm, Timer, Header, ModeButtons, Proceed,
             Refresh, Connect, SetRelayMode, Edit, Start, ServeConfig,
             ServeRows, EndRefresh, Answered, ConnectSucceeds, ConnectFails,
             ServeSetMode, EndSetMode, ServeEdit, EndEdit, ServeLoad
  <2>2. shownRows' = task[t].rows
    BY <2>0, <2>1 DEF EndLoad, Fail
  <2> QED
    BY <2>0, <2>2
<1>2. Spec => [][A]_vars
  BY <1>1, Invariance, PTL DEF Spec
<1> QED
  BY <1>2 DEF EditShowsItself
=============================================================================
