---------------------------- MODULE CommandsProofs ----------------------------
(* Connection implements Commands, for every value of its constants. *)
EXTENDS ConnectionProofs

USE DEF lifecycle, sender, handles, history, wire, calls, callers

-------------------------------------------------------------------------------
(* One copy of a message in a channel *)

\* Putting a message into a channel that does not hold it keeps it single, and
\* puts nothing else there.
LEMMA PutOnce ==
  ASSUME NEW q \in Seq(Message), NEW m \in Message, NEW x,
         Once(q, x), m = x => ~Holds(q, x)
  PROVE  /\ Once(Append(q, m), x)
         /\ m # x => (Holds(Append(q, m), x) => Holds(q, x))
<1>1. /\ Len(q) \in Nat /\ DOMAIN q = 1 .. Len(q)
      /\ DOMAIN Append(q, m) = 1 .. Len(q) + 1
      /\ Append(q, m)[Len(q) + 1] = m
      /\ \A i \in 1 .. Len(q) : Append(q, m)[i] = q[i]
  BY AppendProperties, LenProperties
<1>2. \A i \in 1 .. Len(q) + 1 : i \in 1 .. Len(q) \/ i = Len(q) + 1
  BY <1>1
<1> QED BY <1>1, <1>2 DEF Once, Holds

\* Taking the head leaves the rest single, and takes the only copy.
LEMMA TakeOnce ==
  ASSUME NEW q \in Seq(Message), q # <<>>, NEW x, Once(q, x)
  PROVE  /\ Once(Tail(q), x)
         /\ Holds(Tail(q), x) => Holds(q, x) /\ Head(q) # x
         /\ Head(q) = x => Holds(q, x)
<1>1. /\ Len(q) \in Nat /\ DOMAIN q = 1 .. Len(q) /\ Len(q) # 0
      /\ Head(q) = q[1]
      /\ Tail(q) \in Seq(Message) /\ Len(Tail(q)) = Len(q) - 1
      /\ \A i \in 1 .. Len(Tail(q)) : Tail(q)[i] = q[i + 1]
  BY HeadTailProperties, LenProperties, EmptySeq
<1>2. DOMAIN Tail(q) = 1 .. Len(q) - 1
  BY <1>1, LenProperties
<1>3. \A i \in 1 .. Len(q) - 1 : i + 1 \in 1 .. Len(q) /\ Tail(q)[i] = q[i + 1]
  BY <1>1
<1>4. Once(Tail(q), x)
  BY <1>1, <1>2, <1>3 DEF Once
<1>5. Holds(Tail(q), x) => Holds(q, x) /\ Head(q) # x
  BY <1>1, <1>2, <1>3 DEF Once, Holds
<1>6. Head(q) = x => Holds(q, x)
  BY <1>1 DEF Holds
<1> QED BY <1>4, <1>5, <1>6

\* An empty channel holds nothing.
LEMMA EmptyHolds == \A x : ~Holds(<<>>, x) /\ Once(<<>>, x)
  BY DEF Holds, Once

-------------------------------------------------------------------------------
(* A command is in one place *)

\* Who moves messages: a call or a disconnect that sends, a task, the speaker.
LEMMA WhoTouchesWire ==
  ASSUME [Next]_vars
  PROVE  \/ UNCHANGED wire
         \/ \E c \in Cmds : Enqueue(c)
         \/ \E d \in Disconnectors : SendClose(d)
         \/ \E t \in Connectors : \/ TakeOut(t) \/ WriteOk(t) \/ WriteFail(t)
                                  \/ CloseSent(t) \/ Lose(t) \/ Drop(t)
                                  \/ \E c \in Cmds : Response(t, c)
<1>1. ASSUME NEW k \in Connectors, ConnectStep(k)
      PROVE  UNCHANGED wire
  BY <1>1 DEF ConnectStep, CheckConnect, SpawnTask, StoreHandle
<1>2. ASSUME NEW c \in Cmds, Register(c) \/ SendStep(c) \/ Cancel(c)
      PROVE  UNCHANGED wire \/ Enqueue(c)
  BY <1>2, Zenon DEF SendStep, Register, SendNone, BlockSend, SendClosed,
     Receive, Timeout, Expire, Cancel
<1>3. ASSUME NEW d \in Disconnectors, CallDisconnect(d) \/ DisconnectStep(d)
      PROVE  UNCHANGED wire \/ SendClose(d)
  BY <1>3, Zenon DEF DisconnectStep, CallDisconnect, DisconnectNoSender, BlockClose, CloseFails,
     GraceOver, Abort, ClearSender, FinishDisconnect
<1>4. ASSUME NEW t \in Connectors, TaskStep(t)
      PROVE  UNCHANGED wire \/ TakeOut(t)
  BY <1>4, Zenon DEF TaskStep, Announce, GiveUp, Dial, Opened, Wire, ReportLoss, Drain
<1>5. ASSUME NEW t \in Connectors, NetworkStep(t)
      PROVE  \/ UNCHANGED wire
             \/ WriteOk(t) \/ WriteFail(t) \/ CloseSent(t) \/ Lose(t)
             \/ \E c \in Cmds : Response(t, c)
  BY <1>5, Zenon DEF NetworkStep, DialFail, DialOk
<1>6. UNCHANGED vars => UNCHANGED wire
  BY DEF vars
<1> QED BY <1>1, <1>2, <1>3, <1>4, <1>5, <1>6, Zenon DEF Next

\* A call only starts waiting by handing its message over, and never goes back.
LEMMA CallsMoveOn ==
  ASSUME TypeOK, [Next]_vars, NEW c \in Cmds,
         sendPc'[c] \in {"idle", "registered", "blocked"}
  PROVE  sendPc[c] \in {"idle", "registered", "blocked"}
<1> USE DEF TypeOK
<1>1. ASSUME NEW x \in Cmds, Register(x) \/ SendStep(x) \/ Cancel(x)
      PROVE  sendPc[c] \in {"idle", "registered", "blocked"}
  BY <1>1 DEF SendStep, Register, SendNone, Enqueue, BlockSend, SendClosed,
     Receive, Timeout, Expire, Cancel, Return
<1>2. ASSUME NEW t \in Connectors, NEW x \in Cmds, Response(t, x)
      PROVE  sendPc[c] \in {"idle", "registered", "blocked"}
  BY <1>2 DEF Response
<1> QED BY <1>1, <1>2, WhoTouchesCalls

\* A step moves a command from one place to the next, and never copies it.
LEMMA OnePlaceInductive ==
  ASSUME TypeOK, TaskInv, OnePlace, [Next]_vars
  PROVE  OnePlace'
<1> SUFFICES ASSUME NEW c \in Cmds
             PROVE  /\ sendPc'[c] \in {"idle", "registered", "blocked"} => carrier'[c] = NoTask
                    /\ carrier'[c] = NoTask => written'[c] = 0
                    /\ written'[c] <= 1
                    /\ \A t \in Connectors : At(c, t)'
  BY DEF OnePlace
<1> DEFINE Goal == /\ sendPc'[c] \in {"idle", "registered", "blocked"} => carrier'[c] = NoTask
                   /\ carrier'[c] = NoTask => written'[c] = 0
                   /\ written'[c] <= 1
                   /\ \A t \in Connectors : At(c, t)'
<1> USE DEF TypeOK
<1>0. /\ sendPc'[c] \in {"idle", "registered", "blocked"} => carrier[c] = NoTask
      /\ carrier[c] = NoTask => written[c] = 0
      /\ written[c] <= 1
      /\ \A t \in Connectors : At(c, t)
  BY CallsMoveOn DEF OnePlace
<1>1. CASE UNCHANGED wire
  BY <1>0, <1>1 DEF At
\* Two steps put a message into a channel.
<1>2. ASSUME NEW x \in Cmds, Enqueue(x)
      PROVE  Goal
  <2>1. /\ writeTx \in Connectors /\ x \in Message /\ writeTx # NoTask
        /\ queue[writeTx] \in Seq(Message)
        /\ queue' = [queue EXCEPT ![writeTx] = Append(@, x)]
        /\ carrier' = [carrier EXCEPT ![x] = writeTx]
        /\ UNCHANGED <<writing, asked, written>>
        /\ sendPc' = [sendPc EXCEPT ![x] = "waiting"]
        /\ sendPc[x] \in {"registered", "blocked"}
    BY <1>2 DEF Enqueue, Sendable, Sending, Message
  <2>2. CASE x = c
    <3>1. carrier[c] = NoTask /\ written[c] = 0
      BY <2>1, <2>2 DEF OnePlace
    <3>2. \A t \in Connectors : ~Holds(queue[t], c) /\ writing[t] # c /\ c \notin asked[t]
      BY <1>0, <3>1, DistinctAssumption DEF At
    <3>3. Once(queue'[writeTx], c)
      BY <1>0, <2>1, <2>2, <3>2, PutOnce DEF At
    <3> QED BY <1>0, <2>1, <2>2, <3>1, <3>2, <3>3 DEF At
  <2>3. CASE x # c
    <3>1. /\ Once(queue'[writeTx], c)
          /\ Holds(queue'[writeTx], c) => Holds(queue[writeTx], c)
      BY <1>0, <2>1, <2>3, PutOnce DEF At
    <3> QED BY <1>0, <2>1, <2>3, <3>1 DEF At
  <2> QED BY <2>2, <2>3
<1>3. ASSUME NEW d \in Disconnectors, SendClose(d)
      PROVE  Goal
  <2>1. /\ writeTx \in Connectors /\ Close \in Message /\ Close # c
        /\ queue[writeTx] \in Seq(Message)
        /\ queue' = [queue EXCEPT ![writeTx] = Append(@, Close)]
        /\ UNCHANGED <<writing, asked, written, carrier, sendPc>>
    BY <1>3, DistinctAssumption DEF SendClose, Sendable, Message
  <2>2. /\ Once(queue'[writeTx], c)
        /\ Holds(queue'[writeTx], c) => Holds(queue[writeTx], c)
    BY <1>0, <2>1, PutOnce DEF At
  <2> QED BY <1>0, <2>1, <2>2 DEF At
\* The writer takes the only copy and hands it to the speaker.
<1>4. ASSUME NEW t \in Connectors, TakeOut(t)
      PROVE  Goal
  <2>1. /\ queue[t] # <<>> /\ queue[t] \in Seq(Message)
        /\ queue' = [queue EXCEPT ![t] = Tail(@)]
        /\ writing' = [writing EXCEPT ![t] = Head(queue[t])]
        /\ UNCHANGED <<asked, written, carrier, sendPc>>
    BY <1>4 DEF TakeOut
  <2>2. /\ Once(Tail(queue[t]), c)
        /\ Holds(Tail(queue[t]), c) => Holds(queue[t], c) /\ Head(queue[t]) # c
        /\ Head(queue[t]) = c => Holds(queue[t], c)
    BY <1>0, <2>1, TakeOnce DEF At
  <2> QED BY <1>0, <2>1, <2>2 DEF At
<1>5. ASSUME NEW t \in Connectors, WriteOk(t)
      PROVE  Goal
  <2>1. /\ writing[t] \in Cmds
        /\ written' = [x \in Cmds |-> IF x = writing[t] THEN written[x] + 1 ELSE written[x]]
        /\ asked' = [asked EXCEPT ![t] = @ \cup {writing[t]}]
        /\ writing' = [writing EXCEPT ![t] = Nothing]
        /\ UNCHANGED <<queue, carrier, sendPc>>
    BY <1>5 DEF WriteOk, Deliver
  <2>2. Nothing # c
    BY DistinctAssumption
  <2>3. CASE writing[t] = c
    <3>1. written[c] = 0 /\ t = carrier[c] /\ ~Holds(queue[t], c)
      BY <1>0, <2>3 DEF At
    <3>2. written'[c] = 1 /\ carrier'[c] # NoTask
      BY <2>1, <2>3, <3>1, DistinctAssumption
    <3>3. \A u \in Connectors : u # t => ~Holds(queue[u], c) /\ writing[u] # c /\ c \notin asked[u]
      BY <1>0, <3>1 DEF At
    <3>4. At(c, t)'
      BY <1>0, <2>1, <2>2, <3>1, <3>2 DEF At
    <3>5. ASSUME NEW u \in Connectors, u # t
          PROVE  At(c, u)'
      BY <1>0, <2>1, <3>3, <3>5 DEF At
    <3> QED BY <1>0, <2>1, <3>1, <3>2, <3>4, <3>5, DistinctAssumption
  <2>4. CASE writing[t] # c
    <3>1. written'[c] = written[c]
      BY <2>1, <2>4
    <3> QED BY <1>0, <2>1, <2>2, <2>4, <3>1 DEF At
  <2> QED BY <2>3, <2>4
\* A connection that ends forgets its messages; the one that was being written
\* may have been delivered.
<1>6. ASSUME NEW t \in Connectors, CloseSent(t) \/ WriteFail(t) \/ Lose(t) \/ Drop(t)
      PROVE  Goal
  <2>1. HangUp(t) /\ UNCHANGED <<carrier, sendPc>> /\ (UNCHANGED written \/ Deliver(t))
    BY <1>6, Zenon DEF CloseSent, WriteFail, Lose, Drop
  <2>2. /\ ~Holds(queue'[t], c) /\ Once(queue'[t], c) /\ writing'[t] # c /\ c \notin asked'[t]
        /\ \A u \in Connectors : u # t => /\ queue'[u] = queue[u]
                                          /\ writing'[u] = writing[u]
                                          /\ asked'[u] = asked[u]
    BY <2>1, EmptyHolds, DistinctAssumption DEF HangUp
  <2>3. CASE Deliver(t) /\ writing[t] = c
    <3>1. written[c] = 0 /\ t = carrier[c]
      BY <1>0, <2>3 DEF At
    <3>2. written'[c] = 1
      BY <2>3, <3>1 DEF Deliver
    <3>3. \A u \in Connectors : u # t => ~Holds(queue[u], c) /\ writing[u] # c /\ c \notin asked[u]
      BY <1>0, <3>1 DEF At
    <3>4. At(c, t)'
      BY <2>1, <2>2, <3>1, <3>2 DEF At
    <3>5. ASSUME NEW u \in Connectors, u # t
          PROVE  At(c, u)'
      BY <1>0, <2>1, <2>2, <3>1, <3>3, <3>5 DEF At
    <3>6. carrier'[c] # NoTask
      BY <2>1, <3>1, DistinctAssumption
    <3> QED BY <1>0, <2>1, <3>2, <3>4, <3>5, <3>6
  <2>4. CASE ~(Deliver(t) /\ writing[t] = c)
    <3>1. written'[c] = written[c]
      <4>1. CASE UNCHANGED written
        BY <4>1
      <4>2. CASE Deliver(t)
        BY <2>4, <4>2 DEF Deliver
      <4> QED BY <2>1, <4>1, <4>2
    <3> QED BY <1>0, <2>1, <2>2, <3>1 DEF At
  <2> QED BY <2>3, <2>4
<1>7. ASSUME NEW t \in Connectors, NEW x \in Cmds, Response(t, x)
      PROVE  Goal
  BY <1>0, <1>7 DEF Response, At
<1> QED BY <1>1, <1>2, <1>3, <1>4, <1>5, <1>6, <1>7, WhoTouchesWire

-------------------------------------------------------------------------------
(* A command is answered once *)

\* What AnswerRouting needs to know besides itself.
AnswerInv == OneAnswer /\ AnswerRouting

\* A request that was written and has left the speaker stays that way.
LEMMA AnsweredStays ==
  ASSUME TypeOK, OnePlace, [Next]_vars, NEW c \in Cmds,
         written[c] = 1, \A t \in Connectors : c \notin asked[t]
  PROVE  written'[c] = 1 /\ \A t \in Connectors : c \notin asked'[t]
<1> USE DEF TypeOK
<1>1. \A t \in Connectors : writing[t] # c
  BY DEF OnePlace, At
<1>2. CASE UNCHANGED wire
  BY <1>2
<1>3. ASSUME NEW x \in Cmds, Enqueue(x)
      PROVE  UNCHANGED <<written, asked>>
  BY <1>3 DEF Enqueue
<1>4. ASSUME NEW d \in Disconnectors, SendClose(d)
      PROVE  UNCHANGED <<written, asked>>
  BY <1>4 DEF SendClose
<1>5. ASSUME NEW t \in Connectors, TakeOut(t)
      PROVE  UNCHANGED <<written, asked>>
  BY <1>5 DEF TakeOut
<1>6. ASSUME NEW t \in Connectors, WriteOk(t)
      PROVE  written'[c] = 1 /\ \A u \in Connectors : c \notin asked'[u]
  BY <1>1, <1>6 DEF WriteOk, Deliver
<1>7. ASSUME NEW t \in Connectors, CloseSent(t) \/ WriteFail(t) \/ Lose(t) \/ Drop(t)
      PROVE  written'[c] = 1 /\ \A u \in Connectors : c \notin asked'[u]
  <2>1. HangUp(t) /\ (UNCHANGED written \/ Deliver(t))
    BY <1>7, Zenon DEF CloseSent, WriteFail, Lose, Drop
  <2>2. Deliver(t) => written'[c] = written[c]
    BY <1>1 DEF Deliver
  <2> QED BY <2>1, <2>2 DEF HangUp
<1>8. ASSUME NEW t \in Connectors, NEW x \in Cmds, Response(t, x)
      PROVE  written'[c] = 1 /\ \A u \in Connectors : c \notin asked'[u]
  BY <1>8 DEF Response
<1> QED BY <1>2, <1>3, <1>4, <1>5, <1>6, <1>7, <1>8, WhoTouchesWire

\* A step answers a command only where it was written, and takes the answer.
LEMMA AnswerInvInductive ==
  ASSUME TypeOK, CallInv, OnePlace, AnswerInv, [Next]_vars
  PROVE  AnswerInv'
<1> USE DEF TypeOK
\* The answer: its call has no other, and no second one follows.
<1>1. ASSUME NEW t \in Connectors, NEW x \in Cmds, Response(t, x)
      PROVE  AnswerInv'
  <2>1. /\ written[x] = 1 /\ reply[x] # "ok" /\ x \notin unsolicited
        /\ \A u \in Connectors : x \in asked[u] => u = t
    BY <1>1 DEF Response, OnePlace, At, AnswerInv, OneAnswer
  <2>2. written'[x] = 1 /\ \A u \in Connectors : x \notin asked'[u]
    BY <1>1, <2>1 DEF Response
  <2>3. ASSUME NEW c \in Cmds
        PROVE  /\ reply'[c] = "ok" \/ c \in unsolicited' =>
                     written'[c] = 1 /\ \A u \in Connectors : c \notin asked'[u]
               /\ result'[c] = "ok" => reply'[c] = "ok"
    <3>1. CASE c = x
      BY <1>1, <2>1, <2>2, <3>1 DEF Response, AnswerInv, OneAnswer
    <3>2. CASE c # x
      BY <1>1, <3>2 DEF Response, AnswerInv, OneAnswer
    <3> QED BY <3>1, <3>2
  <2>4. AnswerRouting'
    <3>1. x \notin pending /\ sendPc[x] \in {"waiting", "registered", "blocked"}
            => reply[x] = "closed"
      BY <2>1 DEF CallInv, NoOrphanWait
    <3> QED BY <1>1, <2>1, <3>1 DEF Response, AnswerInv, AnswerRouting, OneAnswer
  <2> QED BY <2>3, <2>4 DEF AnswerInv, OneAnswer
\* The other steps create no answer.
<1>2. ASSUME \A c \in Cmds : /\ c \in unsolicited' => c \in unsolicited
                             /\ reply'[c] = "ok" => reply[c] = "ok"
      PROVE  \A c \in Cmds : reply'[c] = "ok" \/ c \in unsolicited' =>
                 written'[c] = 1 /\ \A u \in Connectors : c \notin asked'[u]
  <2> SUFFICES ASSUME NEW c \in Cmds, reply'[c] = "ok" \/ c \in unsolicited'
               PROVE  written'[c] = 1 /\ \A u \in Connectors : c \notin asked'[u]
    OBVIOUS
  <2>1. written[c] = 1 /\ \A u \in Connectors : c \notin asked[u]
    BY <1>2 DEF AnswerInv, OneAnswer
  <2> QED BY <2>1, AnsweredStays
<1>3. CASE UNCHANGED calls
  BY <1>2, <1>3 DEF AnswerInv, OneAnswer, AnswerRouting
<1>4. CASE FailPending /\ UNCHANGED <<unsolicited, sendPc, result>>
  <2>1. \A c \in Cmds : /\ reply'[c] = "ok" => reply[c] = "ok"
                        /\ reply[c] = "ok" => reply'[c] = "ok"
                        /\ reply[c] = "closed" => reply'[c] = "closed"
    BY <1>4 DEF FailPending, CallInv, EntryOrReply
  <2>2. \A c \in Cmds : reply'[c] = "ok" \/ c \in unsolicited' =>
                 written'[c] = 1 /\ \A u \in Connectors : c \notin asked'[u]
    BY <1>2, <1>4, <2>1
  <2>3. OneAnswer'
    BY <1>4, <2>1, <2>2 DEF AnswerInv, OneAnswer
  <2>4. AnswerRouting'
    BY <1>4, <2>1 DEF AnswerInv, AnswerRouting
  <2> QED BY <2>3, <2>4 DEF AnswerInv
<1>5. ASSUME NEW x \in Cmds, Register(x) \/ SendStep(x) \/ Cancel(x)
      PROVE  AnswerInv'
  <2>1. UNCHANGED <<unsolicited, reply>>
    BY <1>5, Zenon DEF SendStep, Register, SendNone, Enqueue, BlockSend,
       SendClosed, Receive, Timeout, Expire, Cancel
  <2>2. CASE Register(x)
    <3>1. x \notin unsolicited
      BY <2>2 DEF Register, OnePlace, AnswerInv, OneAnswer
    <3> QED BY <1>2, <2>1, <2>2, <3>1 DEF Register, AnswerInv, OneAnswer, AnswerRouting
  <2>3. CASE Enqueue(x) \/ BlockSend(x) \/ Timeout(x)
    <3>1. /\ UNCHANGED result
          /\ \A c \in Cmds : sendPc'[c] \in {"waiting", "registered", "blocked"}
                => sendPc[c] \in {"waiting", "registered", "blocked"}
      BY <2>3 DEF Enqueue, BlockSend, Timeout, Sending
    <3> QED BY <1>2, <2>1, <3>1 DEF AnswerInv, OneAnswer, AnswerRouting
  <2>4. CASE SendNone(x) \/ SendClosed(x) \/ Receive(x) \/ Expire(x) \/ Cancel(x)
    <3>1. /\ \A c \in Cmds : sendPc'[c] \in {"waiting", "registered", "blocked"}
                => sendPc[c] \in {"waiting", "registered", "blocked"}
          /\ \A c \in Cmds : result'[c] = "ok" => result[c] = "ok" \/ reply[c] = "ok"
      BY <2>4 DEF SendNone, SendClosed, Receive, Expire, Cancel, Return
    <3> QED BY <1>2, <2>1, <3>1 DEF AnswerInv, OneAnswer, AnswerRouting
  <2> QED BY <1>5, <2>2, <2>3, <2>4 DEF SendStep
<1> QED BY <1>1, <1>3, <1>4, <1>5, WhoTouchesCalls

\* Both hold in every state.
LEMMA AnswersHold == Spec => [](OnePlace /\ AnswerInv)
<1>1. Init => OnePlace /\ AnswerInv
  BY EmptyHolds, DistinctAssumption
  DEF Init, OnePlace, At, AnswerInv, OneAnswer, AnswerRouting
<1>2. TypeOK /\ CallInv /\ TaskInv /\ OnePlace /\ AnswerInv /\ [Next]_vars
        => (OnePlace /\ AnswerInv)'
  BY OnePlaceInductive, AnswerInvInductive
<1> QED BY <1>1, <1>2, TypeCorrect, CallInvHolds, TaskInvHolds, PTL DEF Spec

\* An answer is broadcast as an event only when its call cannot take it, and no
\* answer is both an event and a result (handle_incoming_message).
THEOREM AnswersAreRouted == Spec => []AnswerRouting
<1>1. AnswerInv => AnswerRouting
  BY DEF AnswerInv
<1> QED BY <1>1, AnswersHold, PTL

-------------------------------------------------------------------------------
(* Connection implements Commands *)

Statuses == [c \in Cmds |-> Status(c)]

\* What a caller knows depends on the program counter and the result of its call.
LEMMA StatusFollows ==
  ASSUME NEW x \in Cmds,
         \A c \in Cmds : c # x => sendPc'[c] = sendPc[c] /\ result'[c] = result[c]
  PROVE  Statuses' = [Statuses EXCEPT ![x] = Status(x)']
<1>1. \A c \in Cmds : c # x => Status(c)' = Status(c)
  BY DEF Status
<1> QED BY <1>1 DEF Statuses

\* The status of a call is a matter of its program counter and its result.
LEMMA StatusStays ==
  ASSUME UNCHANGED <<sendPc, result>>
  PROVE  UNCHANGED Statuses
  BY DEF Statuses, Status

\* The only steps that count a request are the writer's, and they count it once:
\* the request was not counted before, and its call was made.
LEMMA WriteExecutes ==
  ASSUME TypeOK, OnePlace, [Next]_vars, UNCHANGED Statuses
  PROVE  UNCHANGED written \/ \E c \in Cmds : Calls!Execute(c)
<1> USE DEF TypeOK
<1>1. ASSUME NEW t \in Connectors, Deliver(t)
      PROVE  UNCHANGED written \/ \E c \in Cmds : Calls!Execute(c)
  <2>1. CASE writing[t] \notin Cmds
    <3>1. \A c \in Cmds : written'[c] = written[c]
      BY <1>1, <2>1 DEF Deliver
    <3> QED BY <1>1, <3>1 DEF Deliver
  <2>2. CASE writing[t] \in Cmds
    <3> DEFINE c == writing[t]
    <3>1. c \in Cmds /\ written[c] = 0 /\ carrier[c] = t
      BY <2>2 DEF OnePlace, At
    <3>2. sendPc[c] # "idle"
      BY <3>1, DistinctAssumption DEF OnePlace
    <3>3. Status(c) # "new"
      BY <3>1, <3>2 DEF Status, Results
    <3>4. written' = [written EXCEPT ![c] = 1]
      <4>1. written' = [x \in Cmds |-> IF x = c THEN written[x] + 1 ELSE written[x]]
        BY <1>1 DEF Deliver
      <4>2. \A x \in Cmds : written'[x] = IF x = c THEN 1 ELSE written[x]
        BY <3>1, <4>1
      <4> HIDE DEF c
      <4> QED BY <3>1, <4>1, <4>2
    <3>5. Calls!Execute(c)
      BY <3>1, <3>3, <3>4 DEF Calls!Execute, Statuses
    <3> QED BY <3>1, <3>5
  <2> QED BY <2>1, <2>2
<1>2. UNCHANGED written \/ \E t \in Connectors : Deliver(t)
  <2>1. ASSUME NEW t \in Connectors,
               TakeOut(t) \/ WriteOk(t) \/ WriteFail(t) \/ CloseSent(t) \/ Lose(t) \/ Drop(t)
        PROVE  UNCHANGED written \/ Deliver(t)
    BY <2>1, Zenon DEF TakeOut, WriteOk, WriteFail, CloseSent, Lose, Drop, history
  <2>2. ASSUME NEW t \in Connectors, NEW c \in Cmds, Response(t, c)
        PROVE  UNCHANGED written
    BY <2>2 DEF Response
  <2>3. ASSUME NEW c \in Cmds, Enqueue(c)
        PROVE  UNCHANGED written
    BY <2>3 DEF Enqueue
  <2>4. ASSUME NEW d \in Disconnectors, SendClose(d)
        PROVE  UNCHANGED written
    BY <2>4 DEF SendClose
  <2> QED BY <2>1, <2>2, <2>3, <2>4, WhoTouchesWire, Zenon DEF wire, history
<1> QED BY <1>1, <1>2

\* Every step of a call is one of Commands', or none.
LEMMA CallsRefined ==
  ASSUME TypeOK, OneAnswer, NEW x \in Cmds, Register(x) \/ SendStep(x) \/ Cancel(x)
  PROVE  UNCHANGED Statuses \/ \E c \in Cmds : Calls!Start(c) \/ Calls!Succeed(c) \/ Calls!Fail(c)
<1> USE DEF TypeOK
<1>1. UNCHANGED written
  BY Zenon DEF SendStep, Register, SendNone, Enqueue, BlockSend, SendClosed,
     Receive, Timeout, Expire, Cancel, wire, history
<1>2. \A c \in Cmds : c # x => sendPc'[c] = sendPc[c] /\ result'[c] = result[c]
  BY DEF SendStep, Register, SendNone, Enqueue, BlockSend, SendClosed,
     Receive, Timeout, Expire, Cancel, Return
<1>3. Statuses' = [Statuses EXCEPT ![x] = Status(x)']
  BY <1>2, StatusFollows
<1>4. CASE Register(x)
  <2>1. Status(x) = "new" /\ Status(x)' = "open"
    BY <1>4 DEF Register, Status
  <2> QED BY <1>1, <1>3, <2>1 DEF Calls!Start, Statuses
<1>5. CASE Enqueue(x) \/ BlockSend(x) \/ Timeout(x)
  <2>1. Status(x) = "open" /\ Status(x)' = "open"
    BY <1>5 DEF Enqueue, BlockSend, Timeout, Sending, Status
  <2> QED BY <1>3, <2>1 DEF Statuses
<1>6. CASE SendNone(x) \/ SendClosed(x) \/ Expire(x) \/ Cancel(x)
  <2>1. Status(x) = "open" /\ Status(x)' \in Calls!Failures
    BY <1>6 DEF SendNone, SendClosed, Expire, Cancel, Sending, Return, Status, Calls!Failures
  <2> QED BY <1>1, <1>3, <2>1 DEF Calls!Fail, Statuses
<1>7. CASE Receive(x)
  <2>1. Status(x) = "open" /\ Status(x)' = reply[x]
    BY <1>7 DEF Receive, Return, Status
  <2>2. CASE reply[x] = "ok"
    <3>1. written[x] = 1
      BY <2>2 DEF OneAnswer
    <3> QED BY <1>1, <1>3, <2>1, <2>2, <3>1 DEF Calls!Succeed, Statuses
  <2>3. CASE reply[x] = "closed"
    BY <1>1, <1>3, <2>1, <2>3 DEF Calls!Fail, Calls!Failures, Statuses
  <2> QED BY <1>7, <2>2, <2>3 DEF Receive
<1> QED BY <1>4, <1>5, <1>6, <1>7 DEF SendStep

\* Every step of the connection is a step of Commands, or a stutter.
LEMMA StepRefined ==
  ASSUME TypeOK, OnePlace, OneAnswer, [Next]_vars
  PROVE  [Calls!Next]_Calls!vars
<1>1. ASSUME UNCHANGED Statuses
      PROVE  [Calls!Next]_Calls!vars
  <2>1. UNCHANGED written \/ \E c \in Cmds : Calls!Execute(c)
    BY <1>1, WriteExecutes
  <2> QED BY <1>1, <2>1 DEF Calls!Next, Calls!vars, Statuses
<1>2. ASSUME NEW x \in Cmds, Register(x) \/ SendStep(x) \/ Cancel(x)
      PROVE  [Calls!Next]_Calls!vars
  BY <1>1, <1>2, CallsRefined DEF Calls!Next
<1>3. ASSUME UNCHANGED <<sendPc, result>>
      PROVE  [Calls!Next]_Calls!vars
  BY <1>1, <1>3, StatusStays
<1>4. ASSUME NEW t \in Connectors, NEW c \in Cmds, Response(t, c)
      PROVE  UNCHANGED <<sendPc, result>>
  BY <1>4 DEF Response
<1> QED BY <1>2, <1>3, <1>4, WhoTouchesCalls, Zenon DEF calls

\* The connection shows its callers what Commands promises: a call ends once
\* and for all, its request reaches the speaker at most once, and it succeeds
\* only if the request did (send_command and connection_task together).
THEOREM ConnectionImplementsCommands == Spec => CommandsRefined
<1>1. Init => Calls!Init
  BY DEF Init, Calls!Init, Status
<1>2. TypeOK /\ OnePlace /\ AnswerInv /\ [Next]_vars => [Calls!Next]_Calls!vars
  BY StepRefined DEF AnswerInv
<1> QED BY <1>1, <1>2, TypeCorrect, AnswersHold, PTL DEF Spec, CommandsRefined, Calls!Spec
===============================================================================
