--------------------------- MODULE ConnectionProofs ---------------------------
(* Theorems about Connection, for every value of its constants. *)
EXTENDS ConnectionCommands, SequenceTheorems, TLAPS

USE DEF lifecycle, sender, handles, history, wire, calls, callers

-------------------------------------------------------------------------------
(* The three things that happen to a channel *)

Channels == {q \in [Connectors -> Seq(Message)] :
                \A t \in Connectors : Len(q[t]) <= Capacity}

\* A send that finds room keeps every channel a bounded sequence of messages.
LEMMA PutKeeps ==
  ASSUME NEW q \in Channels, NEW t \in Connectors, NEW m \in Message,
         Len(q[t]) < Capacity
  PROVE  [q EXCEPT ![t] = Append(@, m)] \in Channels
<1>1. Append(q[t], m) \in Seq(Message) /\ Len(Append(q[t], m)) = Len(q[t]) + 1
  BY AppendProperties DEF Channels
<1>2. Len(q[t]) \in Nat
  BY LenProperties DEF Channels
<1> QED BY <1>1, <1>2, CapacityAssumption DEF Channels

\* So does a receive from a channel that is not empty.
LEMMA TakeKeeps ==
  ASSUME NEW q \in Channels, NEW t \in Connectors, q[t] # <<>>
  PROVE  /\ Head(q[t]) \in Message
         /\ [q EXCEPT ![t] = Tail(@)] \in Channels
<1>1. /\ Head(q[t]) \in Message /\ Tail(q[t]) \in Seq(Message)
      /\ Len(Tail(q[t])) = Len(q[t]) - 1
  BY HeadTailProperties DEF Channels
<1>2. Len(q[t]) \in Nat
  BY LenProperties DEF Channels
<1> QED BY <1>1, <1>2, CapacityAssumption DEF Channels

\* So does the receiver that is dropped.
LEMMA EmptyKeeps ==
  ASSUME NEW q \in Channels, NEW t \in Connectors
  PROVE  [q EXCEPT ![t] = <<>>] \in Channels
<1>1. <<>> \in Seq(Message) /\ Len(<<>>) = 0
  OBVIOUS
<1> QED BY <1>1, CapacityAssumption DEF Channels

-------------------------------------------------------------------------------
\* The type invariant is inductive: each step writes values of the cell's type.
THEOREM TypeCorrect == Spec => []TypeOK
<1>1. Init => TypeOK
  BY CapacityAssumption, DistinctAssumption, AttemptAssumption
  DEF Init, TypeOK, States, LinkEvents, TaskPcs, SendPcs, Results, ConnectPcs,
      DisconnectPcs, Message
<1>2. TypeOK /\ [Next]_vars => TypeOK'
  <2> SUFFICES ASSUME TypeOK, [Next]_vars
               PROVE  TypeOK'
    OBVIOUS
  <2> USE DEF TypeOK
  <2>1. ASSUME NEW k \in Connectors, ConnectStep(k)
        PROVE  TypeOK'
    BY <2>1 DEF ConnectStep, CheckConnect, SpawnTask, StoreHandle, States,
                TaskPcs, ConnectPcs
  <2>2. ASSUME NEW c \in Cmds, Register(c) \/ SendStep(c) \/ Cancel(c)
        PROVE  TypeOK'
    <3>1. CASE Enqueue(c)
      <4>1. queue' \in Channels
        BY <3>1, PutKeeps DEF Enqueue, Sendable, Message, Channels
      <4> QED BY <3>1, <4>1 DEF Enqueue, SendPcs, Channels
    <3>2. CASE Register(c) \/ SendNone(c) \/ BlockSend(c) \/ SendClosed(c)
                \/ Receive(c) \/ Timeout(c) \/ Expire(c) \/ Cancel(c)
      BY <3>2 DEF Register, SendNone, BlockSend, SendClosed, Receive, Timeout,
                  Expire, Cancel, Return, SendPcs, Results
    <3> QED BY <2>2, <3>1, <3>2 DEF SendStep
  <2>3. ASSUME NEW d \in Disconnectors, CallDisconnect(d) \/ DisconnectStep(d)
        PROVE  TypeOK'
    <3>1. CASE SendClose(d)
      <4>1. queue' \in Channels
        BY <3>1, PutKeeps DEF SendClose, Sendable, Message, Channels
      <4> QED BY <3>1, <4>1 DEF SendClose, GoOn, DisconnectPcs, Channels
    <3>2. CASE FinishDisconnect(d)
      BY <3>2 DEF FinishDisconnect, GoOn, FailPending, DisconnectPcs, States
    <3>3. CASE CallDisconnect(d) \/ DisconnectNoSender(d) \/ BlockClose(d) \/ CloseFails(d)
                \/ GraceOver(d) \/ Abort(d) \/ ClearSender(d)
      BY <3>3 DEF CallDisconnect, DisconnectNoSender, BlockClose, CloseFails, GraceOver, Abort,
                  ClearSender, GoOn, DisconnectPcs
    <3> QED BY <2>3, <3>1, <3>2, <3>3 DEF DisconnectStep
  <2>4. ASSUME NEW t \in Connectors, TaskStep(t) \/ NetworkStep(t) \/ Drop(t)
        PROVE  TypeOK'
    <3>1. CASE Announce(t) \/ GiveUp(t) \/ Dial(t) \/ Opened(t) \/ Wire(t)
                \/ DialFail(t) \/ DialOk(t)
      <4>1. attempt' \in [Connectors -> 0 .. AttemptBound]
        BY <3>1, AttemptAssumption DEF Announce, GiveUp, Dial, Opened, Wire,
           DialFail, DialOk
      <4>2. \E p \in TaskPcs : task' = [task EXCEPT ![t] = p]
        BY <3>1 DEF Announce, GiveUp, Dial, Opened, Wire, DialFail, DialOk,
                    Move, TaskPcs
      <4> QED BY <3>1, <4>1, <4>2 DEF Announce, GiveUp, Dial, Opened, Wire,
                 DialFail, DialOk, States, LinkEvents
    <3>2. CASE TakeOut(t)
      <4>1. queue' \in Channels /\ Head(queue[t]) \in Message
        BY <3>2, TakeKeeps DEF TakeOut, Channels
      <4> QED BY <3>2, <4>1 DEF TakeOut, Move, TaskPcs, Channels
    <3>3. CASE ReportLoss(t) \/ Drain(t)
      <4>1. CASE ReportLoss(t)
        BY <4>1 DEF ReportLoss, Move, LinkEvents, TaskPcs
      <4>2. CASE Drain(t)
        BY <4>2 DEF Drain, Move, FailPending, TaskPcs
      <4> QED BY <3>3, <4>1, <4>2
    <3>4. CASE WriteOk(t)
      <4>1. written' \in [Cmds -> Nat]
        BY <3>4 DEF WriteOk, Deliver
      <4>2. asked' \in [Connectors -> SUBSET Cmds]
        BY <3>4 DEF WriteOk, Move, Message
      <4> QED BY <3>4, <4>1, <4>2 DEF WriteOk, Move, TaskPcs
    <3>5. CASE CloseSent(t) \/ WriteFail(t) \/ Lose(t) \/ Drop(t)
      <4>1. HangUp(t)
        BY <3>5 DEF CloseSent, WriteFail, Lose, Drop
      <4>2. queue' \in Channels
        <5>1. queue \in Channels
          BY DEF Channels
        <5>2. [queue EXCEPT ![t] = <<>>] \in Channels
          BY <5>1, EmptyKeeps
        <5> QED BY <4>1, <5>2 DEF HangUp
      <4>3. written' \in [Cmds -> Nat]
        <5>1. CASE Deliver(t)
          BY <5>1 DEF Deliver
        <5>2. CASE UNCHANGED written
          BY <5>2
        <5>3. Deliver(t) \/ UNCHANGED written
          BY <3>5, Zenon DEF CloseSent, WriteFail, Lose, Drop
        <5> QED BY <5>1, <5>2, <5>3
      <4>4. \E p \in TaskPcs : task' = [task EXCEPT ![t] = p]
        BY <3>5 DEF CloseSent, WriteFail, Lose, Drop, Move, TaskPcs
      <4>5. UNCHANGED <<lifecycle, sender, handles, attempt, carrier, calls, callers>>
        BY <3>5 DEF CloseSent, WriteFail, Lose, Drop
      <4> QED BY <4>1, <4>2, <4>3, <4>4, <4>5 DEF HangUp, Channels
    <3>6. ASSUME NEW c \in Cmds, Response(t, c)
          PROVE  TypeOK'
      BY <3>6 DEF Response
    <3> QED BY <2>4, <3>1, <3>2, <3>3, <3>4, <3>5, <3>6 DEF TaskStep, NetworkStep
  <2>5. CASE UNCHANGED vars
    BY <2>5 DEF vars
  <2> QED BY <2>1, <2>2, <2>3, <2>4, <2>5 DEF Next
<1> QED BY <1>1, <1>2, PTL DEF Spec

-------------------------------------------------------------------------------
(* The calls *)

\* Who touches the calls: a call itself, a drain, or an answer.
LEMMA WhoTouchesCalls ==
  ASSUME [Next]_vars
  PROVE  \/ UNCHANGED calls
         \/ \E c \in Cmds : Register(c) \/ SendStep(c) \/ Cancel(c)
         \/ FailPending /\ UNCHANGED <<unsolicited, sendPc, result>>
         \/ \E t \in Connectors, c \in Cmds : Response(t, c)
<1>1. ASSUME NEW k \in Connectors, ConnectStep(k)
      PROVE  UNCHANGED calls
  BY <1>1 DEF ConnectStep, CheckConnect, SpawnTask, StoreHandle
<1>2. ASSUME NEW d \in Disconnectors, CallDisconnect(d) \/ DisconnectStep(d)
      PROVE  UNCHANGED calls \/ (FailPending /\ UNCHANGED <<unsolicited, sendPc, result>>)
  BY <1>2, Zenon DEF DisconnectStep, CallDisconnect, DisconnectNoSender, SendClose, BlockClose,
     CloseFails, GraceOver, Abort, ClearSender, FinishDisconnect
<1>3. ASSUME NEW t \in Connectors, TaskStep(t) \/ Drop(t)
      PROVE  UNCHANGED calls \/ (FailPending /\ UNCHANGED <<unsolicited, sendPc, result>>)
  BY <1>3, Zenon DEF TaskStep, Announce, GiveUp, Dial, Opened, Wire, TakeOut,
     ReportLoss, Drain, Drop
<1>4. ASSUME NEW t \in Connectors, NetworkStep(t)
      PROVE  UNCHANGED calls \/ \E c \in Cmds : Response(t, c)
  BY <1>4, Zenon DEF NetworkStep, DialFail, DialOk, WriteOk, CloseSent, WriteFail, Lose
<1>5. UNCHANGED vars => UNCHANGED calls
  BY DEF vars
<1> QED BY <1>1, <1>2, <1>3, <1>4, <1>5, Zenon DEF Next

\* Entries, replies and program counters of the calls belong together.
CallInv == EntryOrReply /\ NoOrphanWait /\ PendingAccounted

\* A step keeps entries, replies and program counters together: whoever takes an
\* entry out answers its call, or is the call.
LEMMA CallInvInductive ==
  ASSUME TypeOK, CallInv, [Next]_vars
  PROVE  CallInv'
<1> USE DEF CallInv, EntryOrReply, NoOrphanWait, PendingAccounted
<1>1. CASE UNCHANGED calls
  BY <1>1
<1>2. ASSUME NEW c \in Cmds, Register(c) \/ SendStep(c) \/ Cancel(c)
      PROVE  CallInv'
  <2>1. CASE Register(c)
    BY <2>1 DEF Register, TypeOK, SendPcs
  <2>2. CASE SendNone(c) \/ Expire(c)
    BY <2>2 DEF SendNone, Expire, Return, TypeOK, Sending
  <2>3. CASE Enqueue(c) \/ BlockSend(c) \/ Timeout(c)
    BY <2>3 DEF Enqueue, BlockSend, Timeout, TypeOK, Sending
  <2>4. CASE SendClosed(c) \/ Cancel(c)
    BY <2>4 DEF SendClosed, Cancel, Return, TypeOK, Sending
  <2>5. CASE Receive(c)
    BY <2>5 DEF Receive, Return, TypeOK
  <2> QED BY <1>2, <2>1, <2>2, <2>3, <2>4, <2>5 DEF SendStep
<1>3. CASE FailPending /\ UNCHANGED <<unsolicited, sendPc, result>>
  BY <1>3 DEF FailPending, TypeOK
<1>4. ASSUME NEW t \in Connectors, NEW c \in Cmds, Response(t, c)
      PROVE  CallInv'
  BY <1>4 DEF Response, TypeOK
<1> QED BY <1>1, <1>2, <1>3, <1>4, WhoTouchesCalls

\* CallInv holds in every state.
LEMMA CallInvHolds == Spec => []CallInv
<1>1. Init => CallInv
  BY DEF Init, CallInv, EntryOrReply, NoOrphanWait, PendingAccounted
<1>2. TypeOK /\ CallInv /\ [Next]_vars => CallInv'
  BY CallInvInductive
<1> QED BY <1>1, <1>2, TypeCorrect, PTL DEF Spec

\* No call that has not returned is forgotten: the sender half of its oneshot is
\* dropped only after a reply was sent on it (lines 185-189 never run).
THEOREM NoCallIsOrphaned == Spec => []NoOrphanWait
<1>1. CallInv => NoOrphanWait
  BY DEF CallInv
<1> QED BY <1>1, CallInvHolds, PTL

\* A leftover entry belongs to a call that failed to send or was cancelled.
THEOREM LeftoversAccounted == Spec => []PendingAccounted
<1>1. CallInv => PendingAccounted
  BY DEF CallInv
<1> QED BY <1>1, CallInvHolds, PTL

-------------------------------------------------------------------------------
(* The tasks *)

\* Where tasks come from and whose sender is published.
TaskInv == TaskOrigin /\ StaleSender

\* A step keeps tasks and the published sender together: a task is spawned once,
\* and who hangs up reports it before anything else is published.
LEMMA TaskInvInductive ==
  ASSUME TypeOK, TaskInv, [Next]_vars
  PROVE  TaskInv'
<1> USE DEF TaskInv, TaskOrigin, StaleSender, Open, TypeOK
<1>1. ASSUME NEW k \in Connectors, ConnectStep(k)
      PROVE  TaskInv'
  BY <1>1, DistinctAssumption DEF ConnectStep, CheckConnect, SpawnTask, StoreHandle
<1>2. ASSUME NEW c \in Cmds, Register(c) \/ SendStep(c) \/ Cancel(c)
      PROVE  TaskInv'
  <2>1. UNCHANGED <<writeTx, handles, task, writing, connectPc>>
    BY <1>2, Zenon DEF SendStep, Register, SendNone, Enqueue, BlockSend,
       SendClosed, Receive, Timeout, Expire, Cancel
  <2> QED BY <2>1
<1>3. ASSUME NEW d \in Disconnectors, CallDisconnect(d) \/ DisconnectStep(d)
      PROVE  TaskInv'
  <2>1. CASE Abort(d)
    BY <2>1, DistinctAssumption DEF Abort
  <2>2. CASE ClearSender(d)
    BY <2>2, DistinctAssumption DEF ClearSender
  <2>3. CASE CallDisconnect(d) \/ DisconnectNoSender(d) \/ SendClose(d) \/ BlockClose(d)
              \/ CloseFails(d) \/ GraceOver(d) \/ FinishDisconnect(d)
    <3>1. UNCHANGED <<writeTx, handles, task, writing, connectPc>>
      BY <2>3, Zenon DEF CallDisconnect, DisconnectNoSender, SendClose, BlockClose, CloseFails,
         GraceOver, FinishDisconnect
    <3> QED BY <3>1
  <2> QED BY <1>3, <2>1, <2>2, <2>3 DEF DisconnectStep
<1>4. ASSUME NEW t \in Connectors, TaskStep(t) \/ NetworkStep(t) \/ Drop(t)
      PROVE  TaskInv'
  <2>1. CASE Announce(t) \/ GiveUp(t) \/ Dial(t) \/ Opened(t)
              \/ DialFail(t) \/ DialOk(t) \/ Drain(t)
    BY <2>1 DEF Announce, GiveUp, Dial, Opened, DialFail, DialOk, Drain, Move,
       AtLimitCheck
  <2>2. CASE Wire(t)
    BY <2>2 DEF Wire, Move
  <2>3. CASE TakeOut(t)
    BY <2>3 DEF TakeOut, Move
  <2>4. CASE ReportLoss(t)
    BY <2>4, DistinctAssumption DEF ReportLoss, Move
  <2>5. CASE WriteOk(t)
    BY <2>5 DEF WriteOk, Move
  <2>6. CASE CloseSent(t) \/ WriteFail(t) \/ Lose(t)
    <3>1. UNCHANGED <<writeTx, handles, connectPc>> /\ HangUp(t)
      BY <2>6, Zenon DEF CloseSent, WriteFail, Lose
    <3>2. task[t] \in {"running", "writing"} /\ task' = [task EXCEPT ![t] = "lost"]
      BY <2>6 DEF CloseSent, WriteFail, Lose, Move
    <3> QED BY <3>1, <3>2 DEF HangUp
  <2>7. CASE Drop(t)
    BY <2>7 DEF Drop, HangUp
  <2>8. ASSUME NEW c \in Cmds, Response(t, c)
        PROVE  TaskInv'
    BY <2>8 DEF Response
  <2> QED BY <1>4, <2>1, <2>2, <2>3, <2>4, <2>5, <2>6, <2>7, <2>8
          DEF TaskStep, NetworkStep
<1>5. CASE UNCHANGED vars
  BY <1>5 DEF vars
<1> QED BY <1>1, <1>2, <1>3, <1>4, <1>5 DEF Next

\* TaskInv holds in every state.
LEMMA TaskInvHolds == Spec => []TaskInv
<1>1. Init => TaskInv
  BY DistinctAssumption DEF Init, TaskInv, TaskOrigin, StaleSender
<1>2. TypeOK /\ TaskInv /\ [Next]_vars => TaskInv'
  BY TaskInvInductive
<1> QED BY <1>1, <1>2, TypeCorrect, PTL DEF Spec

\* A published sender belongs to an open connection, to one whose loss is about
\* to be reported, or to an aborted task.
THEOREM SenderIsLive == Spec => []StaleSender
<1>1. TaskInv => StaleSender
  BY DEF TaskInv
<1> QED BY <1>1, TaskInvHolds, PTL

-------------------------------------------------------------------------------
(* What becomes of a message *)

\* A message that is put into a channel is in it, with all that was there.
LEMMA PutHolds ==
  ASSUME NEW q \in Seq(Message), NEW m \in Message
  PROVE  /\ Holds(Append(q, m), m)
         /\ \A x : Holds(q, x) => Holds(Append(q, m), x)
<1>1. /\ Len(q) \in Nat /\ DOMAIN q = 1 .. Len(q)
      /\ DOMAIN Append(q, m) = 1 .. Len(q) + 1
      /\ Append(q, m)[Len(q) + 1] = m
      /\ \A i \in 1 .. Len(q) : Append(q, m)[i] = q[i]
  BY AppendProperties, LenProperties
<1> QED BY <1>1 DEF Holds

\* What a receive does not take out stays in the channel.
LEMMA TakeHolds ==
  ASSUME NEW q \in Seq(Message), q # <<>>, NEW x, Holds(q, x)
  PROVE  x = Head(q) \/ Holds(Tail(q), x)
<1>1. /\ Len(q) \in Nat /\ DOMAIN q = 1 .. Len(q) /\ Len(q) # 0
      /\ Head(q) = q[1]
      /\ Tail(q) \in Seq(Message) /\ Len(Tail(q)) = Len(q) - 1
      /\ \A i \in 1 .. Len(Tail(q)) : Tail(q)[i] = q[i + 1]
  BY HeadTailProperties, LenProperties, EmptySeq
<1>2. DOMAIN Tail(q) = 1 .. Len(q) - 1
  BY <1>1, LenProperties
<1>3. PICK i \in 1 .. Len(q) : q[i] = x
  BY <1>1 DEF Holds
<1>4. CASE i = 1
  BY <1>1, <1>3, <1>4
<1>5. CASE i # 1
  <2>1. i - 1 \in DOMAIN Tail(q) /\ Tail(q)[i - 1] = x
    BY <1>1, <1>2, <1>3, <1>5
  <2> QED BY <2>1 DEF Holds
<1> QED BY <1>4, <1>5

\* A step keeps the message of a waiting call on its way, or leaves a drain due.
LEMMA LossIsReportedInductive ==
  ASSUME TypeOK, CallInv, TaskInv, LossIsReported, [Next]_vars
  PROVE  LossIsReported'
<1> SUFFICES ASSUME NEW c \in Cmds, sendPc'[c] = "waiting", reply'[c] = "none"
             PROVE  Carried(c)'
  BY DEF LossIsReported
<1> USE DEF TypeOK
\* A drain leaves no call without a reply.
<1>1. ASSUME FailPending, UNCHANGED sendPc
      PROVE  FALSE
  BY <1>1 DEF FailPending, CallInv, NoOrphanWait, EntryOrReply
<1>2. ASSUME sendPc[c] = "waiting", reply[c] = "none"
      PROVE  Carried(c)
  BY <1>2 DEF LossIsReported
\* A step that leaves messages and tasks alone leaves the claim alone.
<1>3. ASSUME UNCHANGED <<queue, writing, asked, carrier, task, aborted>>,
             sendPc[c] = "waiting", reply[c] = "none"
      PROVE  Carried(c)'
  BY <1>2, <1>3 DEF Carried
\* A message put into some channel.
<1>4. ASSUME NEW w \in Connectors, NEW m \in Message,
             queue' = [queue EXCEPT ![w] = Append(@, m)],
             UNCHANGED <<writing, asked, task, aborted>>
      PROVE  /\ Holds(queue'[w], m)
             /\ Carried(c) /\ carrier'[c] = carrier[c] => Carried(c)'
  <2>1. queue[w] \in Seq(Message)
    OBVIOUS
  <2>2. /\ Holds(queue'[w], m)
        /\ \A t \in Connectors, x \in Cmds : Holds(queue[t], x) => Holds(queue'[t], x)
    BY <1>4, <2>1, PutHolds
  <2> QED BY <1>4, <2>2 DEF Carried
<1>5. ASSUME NEW k \in Connectors, ConnectStep(k)
      PROVE  Carried(c)'
  <2>1. CASE SpawnTask(k)
    <3>1. task[k] = "unborn"
      BY <2>1 DEF SpawnTask, TaskInv, TaskOrigin
    <3> QED BY <1>2, <2>1, <3>1 DEF SpawnTask, Carried
  <2>2. CASE CheckConnect(k) \/ StoreHandle(k)
    BY <1>3, <2>2 DEF CheckConnect, StoreHandle
  <2> QED BY <1>5, <2>1, <2>2 DEF ConnectStep
<1>6. ASSUME NEW x \in Cmds, Register(x) \/ SendStep(x) \/ Cancel(x)
      PROVE  Carried(c)'
  <2>1. CASE Enqueue(x)
    <3>1. /\ writeTx \in Connectors /\ x \in Message
          /\ queue' = [queue EXCEPT ![writeTx] = Append(@, x)]
          /\ UNCHANGED <<writing, asked, task, aborted, reply>>
      BY <2>1 DEF Enqueue, Sendable, Message
    <3>2. CASE x = c
      BY <1>4, <2>1, <3>1, <3>2 DEF Enqueue, Carried
    <3>3. CASE x # c
      <4>1. sendPc[c] = "waiting" /\ reply[c] = "none" /\ carrier'[c] = carrier[c]
        BY <2>1, <3>3 DEF Enqueue
      <4> QED BY <1>2, <1>4, <3>1, <4>1
    <3> QED BY <3>2, <3>3
  <2>2. CASE Register(x) \/ SendNone(x) \/ BlockSend(x) \/ SendClosed(x)
              \/ Receive(x) \/ Timeout(x) \/ Expire(x) \/ Cancel(x)
    <3>1. UNCHANGED <<queue, writing, asked, carrier, task, aborted, reply>>
      BY <2>2, Zenon DEF Register, SendNone, BlockSend, SendClosed, Receive,
         Timeout, Expire, Cancel
    <3>2. sendPc[c] = "waiting"
      BY <2>2 DEF Register, SendNone, BlockSend, SendClosed, Receive, Timeout,
         Expire, Cancel, Return
    <3> QED BY <1>3, <3>1, <3>2
  <2> QED BY <1>6, <2>1, <2>2 DEF SendStep
<1>7. ASSUME NEW d \in Disconnectors, CallDisconnect(d) \/ DisconnectStep(d)
      PROVE  Carried(c)'
  <2>1. CASE SendClose(d)
    BY <1>2, <1>4, <2>1 DEF SendClose, Sendable, Message
  <2>2. CASE Abort(d)
    BY <1>2, <2>2 DEF Abort, Carried
  <2>3. CASE FinishDisconnect(d)
    BY <1>1, <2>3 DEF FinishDisconnect
  <2>4. CASE CallDisconnect(d) \/ DisconnectNoSender(d) \/ BlockClose(d) \/ CloseFails(d)
              \/ GraceOver(d) \/ ClearSender(d)
    <3>1. UNCHANGED <<queue, writing, asked, carrier, task, aborted, reply, sendPc>>
      BY <2>4, Zenon DEF CallDisconnect, DisconnectNoSender, BlockClose, CloseFails, GraceOver,
         ClearSender
    <3> QED BY <1>3, <3>1
  <2> QED BY <1>7, <2>1, <2>2, <2>3, <2>4 DEF DisconnectStep
<1>8. ASSUME NEW t \in Connectors, TaskStep(t) \/ NetworkStep(t) \/ Drop(t)
      PROVE  Carried(c)'
  <2>1. CASE Drain(t)
    BY <1>1, <2>1 DEF Drain
  <2>2. ASSUME NEW x \in Cmds, Response(t, x)
        PROVE  Carried(c)'
    <3>1. sendPc[c] = "waiting" /\ reply[c] = "none"
      BY <2>2 DEF Response
    <3>2. c \in pending
      BY <3>1 DEF CallInv, NoOrphanWait
    <3>3. x # c
      BY <2>2, <3>2 DEF Response
    <3> QED BY <1>2, <2>2, <3>1, <3>3 DEF Response, Carried
  <2>3. CASE TakeOut(t)
    <3>1. task[t] = "running" /\ queue[t] # <<>> /\ queue[t] \in Seq(Message)
      BY <2>3 DEF TakeOut, Move
    <3>2. writing[t] = Nothing
      BY <3>1 DEF TaskInv, TaskOrigin
    <3>3. Holds(queue[t], c) => c = Head(queue[t]) \/ Holds(Tail(queue[t]), c)
      BY <3>1, TakeHolds
    <3> QED BY <1>2, <2>3, <3>1, <3>2, <3>3, DistinctAssumption
            DEF TakeOut, Move, Carried
  <2>4. CASE WriteOk(t)
    BY <1>2, <2>4 DEF WriteOk, Move, Carried
  \* A connection that hangs up owes a drain.
  <2>5. CASE CloseSent(t) \/ WriteFail(t) \/ Lose(t) \/ Drop(t)
    <3>1. HangUp(t) /\ UNCHANGED <<carrier, aborted, reply, sendPc>>
      BY <2>5, Zenon DEF CloseSent, WriteFail, Lose, Drop
    <3>2. /\ task'[t] = "lost" \/ (aborted[t] /\ task'[t] = "dropped")
          /\ \A u \in Connectors : u # t => task'[u] = task[u]
      BY <2>5 DEF CloseSent, WriteFail, Lose, Drop, Move
    <3> QED BY <1>2, <3>1, <3>2 DEF HangUp, Carried
  <2>6. CASE \/ Announce(t) \/ GiveUp(t) \/ Dial(t) \/ Opened(t) \/ Wire(t)
             \/ DialFail(t) \/ DialOk(t) \/ ReportLoss(t)
    <3>1. UNCHANGED <<queue, writing, asked, carrier, aborted, reply, sendPc>>
      BY <2>6, Zenon DEF Announce, GiveUp, Dial, Opened, Wire, DialFail, DialOk,
         ReportLoss
    <3>2. /\ task[t] \notin {"lost", "draining", "dropped"} \/ task'[t] = "draining"
          /\ \A u \in Connectors : u # t => task'[u] = task[u]
      BY <2>6 DEF Announce, GiveUp, Dial, Opened, Wire, DialFail, DialOk,
         ReportLoss, Move, AtLimitCheck
    <3> QED BY <1>2, <3>1, <3>2 DEF Carried
  <2> QED BY <1>8, <2>1, <2>2, <2>3, <2>4, <2>5, <2>6 DEF TaskStep, NetworkStep
<1>9. CASE UNCHANGED vars
  BY <1>3, <1>9 DEF vars
<1> QED BY <1>5, <1>6, <1>7, <1>8, <1>9 DEF Next

\* A call never sits out its ten seconds for a connection that is gone without
\* a drain that is still to fail it, aborted tasks apart.
THEOREM LossReachesCalls == Spec => []LossIsReported
<1>1. Init => LossIsReported
  BY DEF Init, LossIsReported
<1>2. TypeOK /\ CallInv /\ TaskInv /\ LossIsReported /\ [Next]_vars => LossIsReported'
  BY LossIsReportedInductive
<1> QED BY <1>1, <1>2, TypeCorrect, CallInvHolds, TaskInvHolds, PTL DEF Spec
===============================================================================
