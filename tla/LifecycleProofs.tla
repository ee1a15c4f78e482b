---------------------------- MODULE LifecycleProofs ----------------------------
(* One connection task: its cells and events, and Lifecycle. *)
EXTENDS ConnectionLifecycle, ConnectionProofs

USE DEF lifecycle, sender, handles, history, wire, calls, callers

\* connect() is called once.
OneConnect == \A k, l \in Connectors : k = l

-------------------------------------------------------------------------------
(* The attempt counter *)

\* A task that dials has counted the dial; one that has not dialed yet, or whose
\* last dial succeeded, counts zero.
CountInv ==
    \A t \in Connectors :
        /\ task[t] = "dialing" => attempt[t] > 0
        /\ task[t] \in {"unborn", "spawned", "opened", "wiring", "running",
                        "writing", "lost", "draining"} => attempt[t] = 0

\* The cells of the one task until a disconnect begins: CellsAgree, nobody has
\* aborted or dropped the task, a task that dials may, and while the backoff sleeps
\* the reconnection stays announced.
CellInv ==
    /\ CellsAgree
    /\ Undisturbed => \A t \in Connectors :
          /\ ~aborted[t] /\ task[t] # "dropped"
          /\ task[t] \notin {"unborn", "spawned", "done"} => MaxReconnect # 0
          /\ task[t] = "backoff" => state = "Reconnecting" /\ link = "Reconnecting"

\* Who counts: the dial, and the socket that opened.
LEMMA CountInductive ==
  ASSUME TypeOK, TaskInv, CountInv, [Next]_vars
  PROVE  CountInv'
<1> USE AttemptAssumption DEF CountInv, TypeOK
<1>1. ASSUME NEW k \in Connectors, ConnectStep(k)
      PROVE  CountInv'
  <2>1. CASE SpawnTask(k)
    <3>1. task[k] = "unborn"
      BY <2>1 DEF SpawnTask, TaskInv, TaskOrigin
    <3> QED BY <2>1, <3>1 DEF SpawnTask
  <2>2. CASE CheckConnect(k) \/ StoreHandle(k)
    BY <2>2 DEF CheckConnect, StoreHandle
  <2> QED BY <1>1, <2>1, <2>2 DEF ConnectStep
<1>2. ASSUME NEW c \in Cmds, Register(c) \/ SendStep(c) \/ Cancel(c)
      PROVE  CountInv'
  <2>1. UNCHANGED <<task, attempt>>
    BY <1>2, Zenon DEF SendStep, Register, SendNone, Enqueue, BlockSend,
       SendClosed, Receive, Timeout, Expire, Cancel
  <2> QED BY <2>1
<1>3. ASSUME NEW d \in Disconnectors, CallDisconnect(d) \/ DisconnectStep(d)
      PROVE  CountInv'
  <2>1. UNCHANGED <<task, attempt>>
    BY <1>3, Zenon DEF DisconnectStep, CallDisconnect, DisconnectNoSender, SendClose, BlockClose,
       CloseFails, GraceOver, Abort, ClearSender, FinishDisconnect
  <2> QED BY <2>1
<1>4. ASSUME NEW t \in Connectors, TaskStep(t) \/ NetworkStep(t) \/ Drop(t)
      PROVE  CountInv'
  <2>1. CASE Dial(t)
    BY <2>1 DEF Dial, Move, AtLimitCheck
  <2>2. CASE DialOk(t)
    BY <2>2 DEF DialOk, Move
  <2>3. CASE \/ Announce(t) \/ GiveUp(t) \/ Opened(t) \/ Wire(t) \/ TakeOut(t)
             \/ ReportLoss(t) \/ Drain(t) \/ DialFail(t) \/ Drop(t)
    BY <2>3 DEF Announce, GiveUp, Opened, Wire, TakeOut, ReportLoss, Drain,
       DialFail, Drop, Move, AtLimitCheck
  <2>4. CASE WriteOk(t) \/ CloseSent(t) \/ WriteFail(t) \/ Lose(t)
    BY <2>4 DEF WriteOk, CloseSent, WriteFail, Lose, Move
  <2>5. ASSUME NEW c \in Cmds, Response(t, c)
        PROVE  CountInv'
    BY <2>5 DEF Response
  <2> QED BY <1>4, <2>1, <2>2, <2>3, <2>4, <2>5 DEF TaskStep, NetworkStep
<1>5. CASE UNCHANGED vars
  BY <1>5 DEF vars
<1> QED BY <1>1, <1>2, <1>3, <1>4, <1>5 DEF Next

\* CountInv holds in every state.
LEMMA CountInvHolds == Spec => []CountInv
<1>1. Init => CountInv
  BY DEF Init, CountInv
<1>2. TypeOK /\ TaskInv /\ CountInv /\ [Next]_vars => CountInv'
  BY CountInductive
<1> QED BY <1>1, <1>2, TypeCorrect, TaskInvHolds, PTL DEF Spec

-------------------------------------------------------------------------------
(* The cells *)

\* Until a disconnect begins, no disconnect does anything.
LEMMA BeginsDisturbed ==
  ASSUME TypeOK, NEW d \in Disconnectors, CallDisconnect(d) \/ DisconnectStep(d)
  PROVE  ~Undisturbed'
<1>1. \E p \in {"called", "closing", "grace", "abort", "clear", "finish", "returned"} :
          disconnectPc' = [disconnectPc EXCEPT ![d] = p]
  BY DEF DisconnectStep, CallDisconnect, DisconnectNoSender, SendClose, BlockClose,
     CloseFails, GraceOver, Abort, ClearSender, FinishDisconnect, GoOn
<1>2. disconnectPc'[d] # "idle"
  BY <1>1 DEF TypeOK
<1> QED BY <1>2 DEF Undisturbed

\* The cells and the task move together: each step writes the cell and moves
\* the task in one go, or moves it where the cell says nothing new.
LEMMA CellsInductive ==
  ASSUME OneConnect, TypeOK, TaskInv, CountInv, CellInv, [Next]_vars
  PROVE  CellInv'
<1> SUFFICES ASSUME Undisturbed' PROVE CellInv'
  BY DEF CellInv, CellsAgree
<1> USE DEF TypeOK, CellInv, CellsAgree
<1>1. ASSUME NEW k \in Connectors, ConnectStep(k)
      PROVE  CellInv'
  <2>1. Undisturbed
    BY <1>1 DEF ConnectStep, CheckConnect, SpawnTask, StoreHandle, Undisturbed
  <2>2. CASE SpawnTask(k)
    <3>1. task[k] = "unborn" /\ \A l \in Connectors : l = k
      BY <2>2 DEF SpawnTask, TaskInv, TaskOrigin, OneConnect
    <3> QED BY <2>1, <2>2, <3>1 DEF SpawnTask
  <2>3. CASE CheckConnect(k) \/ StoreHandle(k)
    BY <2>1, <2>3 DEF CheckConnect, StoreHandle
  <2> QED BY <1>1, <2>2, <2>3 DEF ConnectStep
<1>2. ASSUME NEW c \in Cmds, Register(c) \/ SendStep(c) \/ Cancel(c)
      PROVE  CellInv'
  <2>1. UNCHANGED <<lifecycle, writeTx, handles, task, attempt, disconnectPc>>
    BY <1>2, Zenon DEF SendStep, Register, SendNone, Enqueue, BlockSend,
       SendClosed, Receive, Timeout, Expire, Cancel
  <2> QED BY <2>1 DEF Undisturbed
<1>3. ASSUME NEW d \in Disconnectors, CallDisconnect(d) \/ DisconnectStep(d)
      PROVE  CellInv'
  BY <1>3, BeginsDisturbed
<1>4. ASSUME NEW t \in Connectors, TaskStep(t) \/ NetworkStep(t) \/ Drop(t)
      PROVE  CellInv'
  <2>1. \A u \in Connectors : u = t
    BY DEF OneConnect
  <2>2. UNCHANGED <<aborted, disconnectPc>>
    BY <1>4, Zenon DEF TaskStep, NetworkStep, Announce, GiveUp, Dial, Opened,
       Wire, TakeOut, ReportLoss, Drain, DialFail, DialOk, WriteOk, CloseSent,
       WriteFail, Lose, Response, Drop
  <2>3. Undisturbed
    BY <2>2 DEF Undisturbed
  <2>4. ~Drop(t)
    BY <2>3 DEF Drop
  <2>5. CASE Announce(t)
    BY <2>1, <2>2, <2>3, <2>5 DEF Announce, Move
  <2>6. CASE GiveUp(t)
    <3>1. task[t] # "head"
      <4> HIDE DEF TypeOK, CellsAgree
      <4> SUFFICES ASSUME task[t] = "head" PROVE FALSE
        OBVIOUS
      <4>1. attempt[t] = 0 /\ MaxReconnect # NoLimit /\ attempt[t] >= MaxReconnect
        BY <2>6 DEF GiveUp, AtLimitCheck, LimitReached
      <4>2. MaxReconnect = 0
        BY <4>1, LimitAssumption, AttemptAssumption
      <4> QED BY <2>3, <4>2
    <3> QED BY <2>1, <2>2, <2>3, <2>6, <3>1, DistinctAssumption DEF GiveUp, Move, AtLimitCheck
  <2>7. CASE Dial(t)
    <3>1. MaxReconnect # 0
      BY <2>7, LimitAssumption, DistinctAssumption DEF Dial, LimitReached
    <3> QED BY <2>1, <2>2, <2>3, <2>7, <3>1, AttemptAssumption DEF Dial, Move, AtLimitCheck
  <2>8. CASE Opened(t)
    BY <2>1, <2>2, <2>3, <2>8 DEF Opened, Move
  <2>9. CASE Wire(t)
    BY <2>1, <2>2, <2>3, <2>9 DEF Wire, Move
  <2>10. CASE ReportLoss(t)
    BY <2>1, <2>2, <2>3, <2>10, DistinctAssumption DEF ReportLoss, Move
  <2>11. CASE DialFail(t)
    BY <2>1, <2>2, <2>3, <2>11 DEF DialFail, Move, CountInv
  <2>12. CASE DialOk(t)
    BY <2>1, <2>2, <2>3, <2>12 DEF DialOk, Move
  <2>13. CASE Drain(t)
    BY <2>1, <2>2, <2>3, <2>13 DEF Drain, Move
  <2>14. CASE TakeOut(t)
    BY <2>1, <2>2, <2>3, <2>14 DEF TakeOut, Move
  <2>15. CASE WriteOk(t) \/ CloseSent(t) \/ WriteFail(t) \/ Lose(t)
    BY <2>1, <2>2, <2>3, <2>15 DEF WriteOk, CloseSent, WriteFail, Lose, Move
  <2>16. ASSUME NEW c \in Cmds, Response(t, c)
         PROVE  CellInv'
    BY <2>2, <2>3, <2>16 DEF Response
  <2> QED BY <1>4, <2>4, <2>5, <2>6, <2>7, <2>8, <2>9, <2>10, <2>11, <2>12, <2>13,
             <2>14, <2>15, <2>16 DEF TaskStep, NetworkStep
<1>5. CASE UNCHANGED vars
  BY <1>5 DEF vars, Undisturbed
<1> QED BY <1>1, <1>2, <1>3, <1>4, <1>5 DEF Next

\* CellInv holds in every state of a connection with one connect call.
LEMMA CellInvHolds ==
  ASSUME OneConnect
  PROVE  Spec => []CellInv
<1>1. Init => CellInv
  BY DistinctAssumption DEF Init, CellInv, CellsAgree
<1>2. TypeOK /\ TaskInv /\ CountInv /\ CellInv /\ [Next]_vars => CellInv'
  BY CellsInductive
<1> QED BY <1>1, <1>2, TypeCorrect, TaskInvHolds, CountInvHolds, PTL DEF Spec

\* Until a disconnect begins, what subscribers were told, whether write_tx is
\* set, and the state cell are functions of where the one task is: no reader of
\* one of them is misled about the others.
THEOREM CellsStayTogether ==
  ASSUME OneConnect
  PROVE  Spec => []CellsAgree
<1>1. CellInv => CellsAgree
  BY DEF CellInv
<1> QED BY <1>1, CellInvHolds, PTL

\* Until a disconnect begins, no dial follows a failed dial unless the
\* reconnection was announced and the backoff was entered in between.
THEOREM RedialsAnnounced ==
  ASSUME OneConnect
  PROVE  Spec => RedialIsAnnounced
<1> DEFINE Announced ==
       \A t \in Connectors :
         attempt[t] > 0 /\ task'[t] = "dialing" /\ task[t] # "dialing" /\ Undisturbed =>
           task[t] = "backoff" /\ state = "Reconnecting" /\ link = "Reconnecting"
<1>1. TypeOK /\ CountInv /\ CellInv /\ [Next]_vars => [Announced]_vars
  <2> SUFFICES ASSUME TypeOK, CountInv, CellInv, [Next]_vars,
                      NEW t \in Connectors, attempt[t] > 0, task'[t] = "dialing",
                      task[t] # "dialing", Undisturbed
               PROVE  task[t] = "backoff"
    BY DEF CellInv
  <2> USE DEF TypeOK
  \* Only a dial takes a task there.
  <2>1. ASSUME NEW k \in Connectors, ConnectStep(k)
        PROVE  FALSE
    BY <2>1 DEF ConnectStep, CheckConnect, SpawnTask, StoreHandle
  <2>2. ASSUME NEW c \in Cmds, Register(c) \/ SendStep(c) \/ Cancel(c)
        PROVE  FALSE
    <3>1. UNCHANGED task
      BY <2>2, Zenon DEF SendStep, Register, SendNone, Enqueue, BlockSend,
         SendClosed, Receive, Timeout, Expire, Cancel
    <3> QED BY <3>1
  <2>3. ASSUME NEW d \in Disconnectors, CallDisconnect(d) \/ DisconnectStep(d)
        PROVE  FALSE
    <3>1. UNCHANGED task
      BY <2>3, Zenon DEF DisconnectStep, CallDisconnect, DisconnectNoSender, SendClose, BlockClose,
         CloseFails, GraceOver, Abort, ClearSender, FinishDisconnect
    <3> QED BY <3>1
  <2>4. ASSUME NEW u \in Connectors, TaskStep(u) \/ NetworkStep(u) \/ Drop(u)
        PROVE  task[t] = "backoff"
    <3>1. CASE Dial(u)
      BY <3>1 DEF Dial, Move, AtLimitCheck, CountInv
    <3>2. CASE \/ Announce(u) \/ GiveUp(u) \/ Opened(u) \/ Wire(u) \/ TakeOut(u)
               \/ ReportLoss(u) \/ Drain(u) \/ DialFail(u) \/ DialOk(u) \/ Drop(u)
      BY <3>2 DEF Announce, GiveUp, Opened, Wire, TakeOut, ReportLoss, Drain,
         DialFail, DialOk, Drop, Move
    <3>3. CASE WriteOk(u) \/ CloseSent(u) \/ WriteFail(u) \/ Lose(u)
      BY <3>3 DEF WriteOk, CloseSent, WriteFail, Lose, Move
    <3>4. ASSUME NEW c \in Cmds, Response(u, c)
          PROVE  FALSE
      BY <3>4 DEF Response
    <3> QED BY <2>4, <3>1, <3>2, <3>3, <3>4 DEF TaskStep, NetworkStep
  <2>5. CASE UNCHANGED vars
    BY <2>5 DEF vars
  <2> QED BY <2>1, <2>2, <2>3, <2>4, <2>5 DEF Next
<1>2. Spec => [][Announced]_vars
  BY <1>1, TypeCorrect, CountInvHolds, CellInvHolds, PTL DEF Spec
<1> QED BY <1>2 DEF RedialIsAnnounced

-------------------------------------------------------------------------------
(* Connection implements Lifecycle *)

\* What Lifecycle lets become of a life, with the event that goes with it.
Allowed(l, m, e) ==
    \/ l.stage = "new" /\ m = Spawned(l) /\ e = "none"
    \/ [event |-> e, life |-> m] \in Steps(l)
    \/ (m \in Aborts(l) \/ m = Finished(l)) /\ e = "none"

\* The same, field by field.
Changes(l, m, e) ==
    \/ /\ l.stage = "new" /\ m.stage = "dialing" /\ m.state = "Connecting"
       /\ m.aborted = l.aborted /\ e = "none"
    \/ /\ l.stage = "dialing" /\ m.stage = "up" /\ m.state = "Connected"
       /\ m.aborted = l.aborted /\ e = "Connected"
    \/ /\ l.stage = "dialing" /\ m.stage = Parked(l) /\ m.state = "Reconnecting"
       /\ m.aborted = l.aborted /\ e = "Reconnecting"
    \/ /\ l.stage = "up" /\ m.stage = "down" /\ m.state = l.state
       /\ m.aborted = l.aborted /\ e = "Disconnected"
    \/ /\ l.stage = "down" /\ m.stage = Parked(l) /\ m.state = l.state
       /\ m.aborted = l.aborted /\ e = "none"
    \/ /\ l.aborted /\ l.stage # "over" /\ m.stage = "over" /\ m.state = l.state
       /\ m.aborted = l.aborted /\ e = "none"
    \/ /\ m.stage = l.stage \/ (l.stage = "dialing" /\ m.stage = "over")
       /\ m.state = l.state /\ m.aborted = TRUE /\ e = "none"
    \/ /\ m.stage = l.stage /\ m.state = "Disconnected"
       /\ m.aborted = l.aborted /\ e = "none"

\* A change of the fields that Changes names is one Lifecycle allows.
LEMMA ChangesAllowed ==
  ASSUME NEW l \in Lives, NEW m \in Lives, NEW e, Changes(l, m, e)
  PROVE  Allowed(l, m, e)
<1> DEFINE with(f, g) == m.state = f /\ m.aborted = l.aborted /\ e = g
<1> USE DEF Lives
<1>1. CASE l.stage = "new" /\ m.stage = "dialing" /\ with("Connecting", "none")
  <2>1. m = [l EXCEPT !.stage = "dialing", !.state = "Connecting"]
    BY <1>1
  <2> QED BY <1>1, <2>1, Zenon DEF Allowed, Spawned
<1>2. CASE l.stage = "dialing" /\ m.stage = "up" /\ with("Connected", "Connected")
  <2>1. m = [l EXCEPT !.stage = "up", !.state = "Connected"]
    BY <1>2
  <2> QED BY <1>2, <2>1, Zenon DEF Allowed, Steps
<1>3. CASE l.stage = "dialing" /\ m.stage = Parked(l) /\ with("Reconnecting", "Reconnecting")
  <2>1. m = [l EXCEPT !.stage = Parked(l), !.state = "Reconnecting"]
    BY <1>3
  <2> QED BY <1>3, <2>1, Zenon DEF Allowed, Steps
<1>4. CASE l.stage = "up" /\ m.stage = "down" /\ with(l.state, "Disconnected")
  <2>1. m = [l EXCEPT !.stage = "down"]
    BY <1>4
  <2> QED BY <1>4, <2>1, Zenon DEF Allowed, Steps
<1>5. CASE l.stage = "down" /\ m.stage = Parked(l) /\ with(l.state, "none")
  <2>1. m = [l EXCEPT !.stage = Parked(l)]
    BY <1>5
  <2> QED BY <1>5, <2>1, Zenon DEF Allowed, Steps
<1>6. CASE l.aborted /\ l.stage # "over" /\ m.stage = "over" /\ with(l.state, "none")
  <2>1. m = [l EXCEPT !.stage = "over"]
    BY <1>6
  <2> QED BY <1>6, <2>1, Zenon DEF Allowed, Steps
<1>7. CASE /\ m.stage = l.stage \/ (l.stage = "dialing" /\ m.stage = "over")
           /\ m.state = l.state /\ m.aborted = TRUE /\ e = "none"
  <2>1. m = [l EXCEPT !.aborted = TRUE, !.stage = m.stage]
    BY <1>7
  <2>2. m.stage \in {l.stage} \cup (IF l.stage = "dialing" THEN {"over"} ELSE {})
    BY <1>7
  <2>3. m \in Aborts(l)
    BY <2>1, <2>2, Zenon DEF Aborts
  <2> QED BY <1>7, <2>3 DEF Allowed
<1>8. CASE m.stage = l.stage /\ with("Disconnected", "none")
  <2>1. m = [l EXCEPT !.state = "Disconnected"]
    BY <1>8
  <2> QED BY <1>8, <2>1, Zenon DEF Allowed, Finished
<1> QED BY <1>1, <1>2, <1>3, <1>4, <1>5, <1>6, <1>7, <1>8 DEF Changes

\* A change of the one task's life is a step of it.
LEMMA LifeChanges ==
  ASSUME NEW t \in Connectors, NEW l \in Lives, NEW m \in Lives, NEW e,
         l = Life(t), m = Life(t)', Changes(l, m, e),
         link' = IF e = "none" THEN link ELSE e
  PROVE  LifeStep(t)
<1>1. Allowed(l, m, e)
  BY ChangesAllowed
<1>2. CASE l.stage = "new" /\ m = Spawned(l) /\ e = "none"
  BY <1>2 DEF LifeStep
<1>3. CASE [event |-> e, life |-> m] \in Steps(l)
  <2>1. \E s \in Steps(l) : m = s.life /\ link' = IF s.event = "none" THEN link ELSE s.event
    BY <1>3
  <2> QED BY <2>1, Zenon DEF LifeStep
<1>4. CASE (m \in Aborts(l) \/ m = Finished(l)) /\ e = "none"
  BY <1>4 DEF LifeStep
<1> QED BY <1>1, <1>2, <1>3, <1>4 DEF Allowed

\* Where a task is says where its life is.
LEMMA StageIs ==
  ASSUME NEW t \in Connectors
  PROVE  /\ task[t] = "unborn" => Stage(t) = "new"
         /\ task[t] \in {"done", "dropped"} => Stage(t) = "over"
         /\ task[t] \in {"spawned", "backoff", "dialing"} =>
              Stage(t) = IF aborted[t] THEN "over" ELSE "dialing"
         /\ task[t] = "opened" => Stage(t) = "dialing"
         /\ task[t] = "head" => Stage(t) = IF attempt[t] = 0 THEN "down" ELSE "dialing"
         /\ task[t] \in {"wiring", "running", "writing", "lost"} => Stage(t) = "up"
         /\ task[t] = "draining" => Stage(t) = "down"
BY DEF Stage, Stopped, CanRun

\* Every step of the connection is a step of the task's life, or leaves it and
\* the last event alone.
LEMMA StepsRefine ==
  ASSUME OneConnect, MaxReconnect = NoLimit, TypeOK, TypeOK', TaskInv, CountInv,
         [Next]_vars, NEW t \in Connectors
  PROVE  LifeStep(t) \/ UNCHANGED <<Life(t), link>>
<1> DEFINE S(p, n, a) ==
      CASE p = "unborn"                                            -> "new"
        [] p \in {"done", "dropped"}
           \/ (a /\ p \in {"spawned", "backoff", "dialing"})       -> "over"
        [] p \in {"wiring", "running", "writing", "lost"}          -> "up"
        [] p = "draining" \/ (p = "head" /\ n = 0)                 -> "down"
        [] OTHER                                                   -> "dialing"
<1>1. Life(t) = [stage |-> S(task[t], attempt[t], aborted[t]), state |-> state,
                 aborted |-> aborted[t]]
  BY DEF Life, Stage, Stopped, CanRun
<1>2. Life(t)' = [stage |-> S(task'[t], attempt'[t], aborted'[t]), state |-> state',
                  aborted |-> aborted'[t]]
  BY DEF Life, Stage, Stopped, CanRun
<1>3. PICK l : l = Life(t)
  OBVIOUS
<1>4. PICK m : m = Life(t)'
  OBVIOUS
<1>5. /\ l \in Lives /\ l.state = state /\ l.aborted = aborted[t]
      /\ l.stage = S(task[t], attempt[t], aborted[t])
  BY <1>1, <1>3 DEF Lives, TypeOK, States
<1>6. /\ m \in Lives /\ m.state = state' /\ m.aborted = aborted'[t]
      /\ m.stage = S(task'[t], attempt'[t], aborted'[t])
  BY <1>2, <1>4 DEF Lives, TypeOK, States
<1>7. ASSUME NEW e, Changes(l, m, e), link' = IF e = "none" THEN link ELSE e
      PROVE  LifeStep(t)
  BY <1>3, <1>4, <1>5, <1>6, <1>7, LifeChanges
<1>8. ASSUME UNCHANGED <<lifecycle, aborted, task, attempt>>
      PROVE  UNCHANGED <<Life(t), link>>
  BY <1>1, <1>2, <1>8
<1>9. /\ task \in [Connectors -> TaskPcs] /\ aborted \in [Connectors -> BOOLEAN]
      /\ attempt \in [Connectors -> 0 .. AttemptBound]
      /\ \A k \in Connectors : k = t
  BY DEF TypeOK, OneConnect
<1>10. ASSUME NEW k \in Connectors, ConnectStep(k)
       PROVE  LifeStep(t) \/ UNCHANGED <<Life(t), link>>
  <2>1. CASE SpawnTask(k)
    <3>1. k = t /\ task[t] = "unborn" /\ ~aborted[t]
      BY <1>9, <2>1 DEF SpawnTask, TaskInv, TaskOrigin
    <3>2. Changes(l, m, "none")
      BY <1>5, <1>6, <1>9, <2>1, <3>1 DEF SpawnTask, Changes
    <3> QED BY <1>7, <2>1, <3>2 DEF SpawnTask
  <2>2. CASE CheckConnect(k) \/ StoreHandle(k)
    BY <1>8, <2>2 DEF CheckConnect, StoreHandle
  <2> QED BY <1>10, <2>1, <2>2 DEF ConnectStep
<1>11. ASSUME NEW c \in Cmds, Register(c) \/ SendStep(c) \/ Cancel(c)
       PROVE  UNCHANGED <<Life(t), link>>
  <2>1. UNCHANGED <<lifecycle, aborted, task, attempt>>
    BY <1>11, Zenon DEF SendStep, Register, SendNone, Enqueue, BlockSend,
       SendClosed, Receive, Timeout, Expire, Cancel
  <2> QED BY <1>8, <2>1
<1>12. ASSUME NEW d \in Disconnectors, CallDisconnect(d) \/ DisconnectStep(d)
       PROVE  LifeStep(t) \/ UNCHANGED <<Life(t), link>>
  <2>1. CASE Abort(d)
    <3>1. UNCHANGED <<lifecycle, task, attempt>>
      BY <2>1 DEF Abort
    <3>2. CASE taskHandle = t
      <4>1. aborted'[t] = TRUE
        BY <2>1, <3>2 DEF Abort
      <4>2. Changes(l, m, "none")
        BY <1>5, <1>6, <1>9, <3>1, <4>1 DEF Changes, TaskPcs
      <4> QED BY <1>7, <3>1, <4>2
    <3>3. CASE taskHandle # t
      BY <1>8, <1>9, <2>1, <3>1, <3>3 DEF Abort
    <3> QED BY <3>2, <3>3
  <2>2. CASE FinishDisconnect(d)
    <3>1. Changes(l, m, "none")
      BY <1>5, <1>6, <2>2 DEF FinishDisconnect, Changes
    <3> QED BY <1>7, <2>2, <3>1 DEF FinishDisconnect
  <2>3. CASE CallDisconnect(d) \/ DisconnectNoSender(d) \/ SendClose(d) \/ BlockClose(d)
              \/ CloseFails(d) \/ GraceOver(d) \/ ClearSender(d)
    <3>1. UNCHANGED <<lifecycle, aborted, task, attempt>>
      BY <2>3, Zenon DEF CallDisconnect, DisconnectNoSender, SendClose, BlockClose, CloseFails,
         GraceOver, ClearSender
    <3> QED BY <1>8, <3>1
  <2> QED BY <1>12, <2>1, <2>2, <2>3 DEF DisconnectStep
<1>13. ASSUME NEW u \in Connectors, TaskStep(u) \/ NetworkStep(u) \/ Drop(u)
       PROVE  LifeStep(t) \/ UNCHANGED <<Life(t), link>>
  <2>1. u = t
    BY <1>9
  <2>2. CASE Announce(u)
    <3>1. Changes(l, m, "Reconnecting")
      BY <1>5, <1>6, <1>9, <2>1, <2>2 DEF Announce, Move, Changes, Parked
    <3> QED BY <1>7, <2>2, <3>1 DEF Announce
  <2>3. CASE GiveUp(u)
    BY <2>3 DEF GiveUp, LimitReached
  <2>4. CASE Dial(u)
    <3>1. UNCHANGED <<lifecycle, aborted>> /\ attempt'[t] > 0 /\ task'[t] = "dialing"
      BY <1>9, <2>1, <2>4, AttemptAssumption DEF Dial, Move
    <3>2. CASE task[t] = "head"
      <4>1. Changes(l, m, "none")
        BY <1>5, <1>6, <2>1, <2>4, <3>1, <3>2 DEF Dial, AtLimitCheck, Changes, Parked
      <4> QED BY <1>7, <3>1, <4>1
    <3>3. CASE task[t] # "head"
      BY <1>1, <1>2, <2>1, <2>4, <3>1, <3>3 DEF Dial, AtLimitCheck, Move, CanRun
    <3> QED BY <3>2, <3>3
  <2>5. CASE DialFail(u)
    <3>1. ~aborted[t] /\ task[t] = "dialing" /\ attempt[t] > 0 /\ task'[t] = "head"
      BY <1>9, <2>1, <2>5 DEF DialFail, Move, CanRun, CountInv
    <3> QED BY <1>1, <1>2, <1>9, <2>5, <3>1 DEF DialFail
  <2>6. CASE DialOk(u)
    <3>1. ~aborted[t] /\ task[t] = "dialing" /\ task'[t] = "opened"
      BY <1>9, <2>1, <2>6 DEF DialOk, Move, CanRun
    <3> QED BY <1>1, <1>2, <2>6, <3>1 DEF DialOk
  <2>7. CASE Opened(u)
    <3>1. Changes(l, m, "Connected")
      BY <1>5, <1>6, <1>9, <2>1, <2>7 DEF Opened, Move, Changes
    <3> QED BY <1>7, <2>7, <3>1 DEF Opened
  <2>8. CASE Wire(u) \/ TakeOut(u) \/ WriteOk(u) \/ CloseSent(u) \/ WriteFail(u) \/ Lose(u)
    <3>1. /\ task[t] \in {"wiring", "running", "writing", "lost"}
          /\ task'[t] \in {"wiring", "running", "writing", "lost"}
          /\ UNCHANGED <<lifecycle, aborted>>
      BY <1>9, <2>1, <2>8 DEF Wire, TakeOut, WriteOk, CloseSent, WriteFail, Lose, Move
    <3> QED BY <1>1, <1>2, <3>1
  <2>9. CASE ReportLoss(u)
    <3>1. Changes(l, m, "Disconnected")
      BY <1>5, <1>6, <1>9, <2>1, <2>9 DEF ReportLoss, Move, Changes
    <3> QED BY <1>7, <2>9, <3>1 DEF ReportLoss
  <2>10. CASE Drain(u)
    <3>1. /\ task[t] = "draining" /\ task'[t] = "head" /\ attempt'[t] = 0
          /\ UNCHANGED <<lifecycle, aborted>>
      BY <1>9, <2>1, <2>10 DEF Drain, Move, CountInv
    <3> QED BY <1>1, <1>2, <3>1
  <2>11. CASE Drop(u)
    <3>1. /\ aborted[t] /\ task[t] # "unborn" /\ task'[t] = "dropped"
          /\ UNCHANGED <<lifecycle, aborted>>
      BY <1>9, <2>1, <2>11 DEF Drop, TaskInv, TaskOrigin
    <3>2. CASE l.stage = "over"
      BY <1>1, <1>2, <1>5, <3>1, <3>2
    <3>3. CASE l.stage # "over"
      <4>1. Changes(l, m, "none")
        BY <1>5, <1>6, <3>1, <3>3 DEF Changes
      <4> QED BY <1>7, <3>1, <4>1
    <3> QED BY <3>2, <3>3
  <2>12. ASSUME NEW c \in Cmds, Response(u, c)
         PROVE  UNCHANGED <<Life(t), link>>
    BY <1>8, <2>12 DEF Response
  <2> QED BY <1>13, <2>2, <2>3, <2>4, <2>5, <2>6, <2>7, <2>8, <2>9, <2>10, <2>11,
             <2>12 DEF TaskStep, NetworkStep
<1>14. CASE UNCHANGED vars
  BY <1>8, <1>14 DEF vars
<1> QED BY <1>10, <1>11, <1>12, <1>13, <1>14 DEF Next

\* A connection on which connect() is called once, and whose task never gives
\* up, is a Lifecycle: the state cell and the broadcast events change as Player
\* and Topology assume, whatever its channel, its locks, its calls and its
\* disconnects are at.
THEOREM LifecycleIsImplemented ==
  ASSUME OneConnect, MaxReconnect = NoLimit
  PROVE  Spec => LifecycleRefined
<1> DEFINE Lived == \A t \in Connectors : LifeStep(t)
           seen  == <<[t \in Connectors |-> Life(t)], link>>
<1>1. Init => \A t \in Connectors : Life(t) = NewLife
  <2> SUFFICES ASSUME Init, NEW t \in Connectors
               PROVE  Life(t) = NewLife
    OBVIOUS
  <2>1. task[t] = "unborn" /\ aborted[t] = FALSE /\ state = "Disconnected"
    BY DEF Init
  <2>2. Stage(t) = "new"
    BY <2>1, StageIs
  <2> QED BY <2>1, <2>2 DEF Life, NewLife
<1>2. TypeOK /\ TypeOK' /\ TaskInv /\ CountInv /\ [Next]_vars => [Lived]_seen
  <2> SUFFICES ASSUME TypeOK, TypeOK', TaskInv, CountInv, [Next]_vars
               PROVE  Lived \/ UNCHANGED seen
    OBVIOUS
  <2>1. CASE \A t \in Connectors : UNCHANGED <<Life(t), link>>
    <3>1. CASE Connectors = {}
      BY <3>1
    <3>2. CASE Connectors # {}
      BY <2>1, <3>2
    <3> QED BY <3>1, <3>2
  <2>2. CASE \E t \in Connectors : ~UNCHANGED <<Life(t), link>>
    <3>1. PICK t \in Connectors : ~UNCHANGED <<Life(t), link>>
      BY <2>2
    <3>2. LifeStep(t)
      BY <3>1, StepsRefine
    <3>3. \A u \in Connectors : u = t
      BY DEF OneConnect
    <3> QED BY <3>2, <3>3
  <2> QED BY <2>1, <2>2
<1>3. Spec => [][Lived]_seen
  BY <1>2, TypeCorrect, TaskInvHolds, CountInvHolds, PTL DEF Spec
<1> QED BY <1>1, <1>3, PTL DEF Spec, LifecycleRefined

===============================================================================
