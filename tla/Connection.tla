------------------------------ MODULE Connection ------------------------------
(***************************************************************************)
(* One PlayerConnection (src/connection/player_connection.rs): the shared  *)
(* cells of the struct, the calls its clones make on it concurrently       *)
(* (connect, send_command, disconnect) and the connection tasks connect    *)
(* spawns.  A step is the code between two points at which another thread  *)
(* can interfere with what it reads or writes.  Timers are untimed.        *)
(***************************************************************************)
EXTENDS Naturals, Sequences, FiniteSets

CONSTANTS
    Connectors,     \* calls of connect(); also names the task a call spawns
    Disconnectors,  \* calls of disconnect()
    Cmds,           \* calls of send_command(), one command id each
    MayCancel,      \* the calls whose caller may drop the future
    NoTask,         \* None, for write_tx and task_handle
    Unlocked,       \* the write_tx mutex is free
    Close,          \* the WebSocket close frame
    Nothing,        \* no message is being written
    Capacity,       \* of the mpsc channel (32 in the code)
    MaxReconnect,   \* max_reconnect_attempts, NoLimit for None
    NoLimit,
    AttemptBound    \* bound: the attempt counter is exact below it

ASSUME CapacityAssumption == Capacity \in Nat \ {0}
ASSUME AttemptAssumption  == AttemptBound \in Nat \ {0}
ASSUME LimitAssumption    ==
    MaxReconnect = NoLimit \/ MaxReconnect \in 0 .. AttemptBound
ASSUME CancelAssumption   == MayCancel \subseteq Cmds
ASSUME DistinctAssumption ==
    /\ NoTask \notin Connectors
    /\ Close \notin Cmds /\ Nothing \notin Cmds /\ Close # Nothing
    /\ Unlocked \notin Cmds \cup Disconnectors
    /\ Cmds \cap Disconnectors = {}
    /\ NoLimit \notin Nat

VARIABLES
    state,         \* ConnectionState
    link,          \* the last lifecycle event broadcast on event_tx
    writeTx,       \* the task whose channel's sender is in write_tx
    writeLock,     \* who holds the write_tx mutex while suspended
    taskHandle,    \* the task whose JoinHandle is stored
    aborted,       \* aborted[t]: abort() was called on task t
    task,          \* task[t]: where task t is
    attempt,       \* attempt[t]: its attempt counter
    queue,         \* queue[t]: its outgoing mpsc channel
    writing,       \* writing[t]: the message run_connection is sending
    asked,         \* asked[t]: requests the speaker got and did not answer
    written,       \* history: how often the command reached the socket
    carrier,       \* history: the task whose channel took the command
    pending,       \* the keys of pending_commands
    reply,         \* reply[c]: the content of c's oneshot channel
    unsolicited,   \* commands whose answer was broadcast as an event
    sendPc,        \* where the call of send_command for c is
    result,        \* what it returned
    connectPc, disconnectPc

lifecycle == <<state, link>>
sender    == <<writeTx, writeLock>>
handles   == <<taskHandle, aborted>>
history   == <<written, carrier>>
wire      == <<queue, writing, asked, history>>
calls     == <<pending, reply, unsolicited, sendPc, result>>
callers   == <<connectPc, disconnectPc>>
vars      == <<lifecycle, sender, handles, task, attempt, wire, calls, callers>>

Message     == Cmds \cup {Close}
States      == {"Disconnected", "Connecting", "Connected", "Reconnecting"}
LinkEvents  == {"none", "Connected", "Disconnected", "Reconnecting"}
TaskPcs     == {"unborn", "spawned", "head", "backoff", "dialing", "opened",
                "wiring", "running", "writing", "lost", "draining", "done",
                "dropped"}
SendPcs     == {"idle", "registered", "blocked", "waiting", "expired", "returned"}
Results     == {"none", "ok", "closed", "timeout", "cancelled"}
ConnectPcs  == {"idle", "checked", "spawned", "returned"}
DisconnectPcs ==
    {"idle", "called", "closing", "grace", "abort", "clear", "finish", "returned"}

Init ==
    /\ state = "Disconnected" /\ link = "none"
    /\ writeTx = NoTask /\ writeLock = Unlocked
    /\ taskHandle = NoTask /\ aborted = [t \in Connectors |-> FALSE]
    /\ task = [t \in Connectors |-> "unborn"]
    /\ attempt = [t \in Connectors |-> 0]
    /\ queue = [t \in Connectors |-> <<>>]
    /\ writing = [t \in Connectors |-> Nothing]
    /\ asked = [t \in Connectors |-> {}]
    /\ written = [c \in Cmds |-> 0] /\ carrier = [c \in Cmds |-> NoTask]
    /\ pending = {} /\ unsolicited = {}
    /\ reply = [c \in Cmds |-> "none"]
    /\ sendPc = [c \in Cmds |-> "idle"]
    /\ result = [c \in Cmds |-> "none"]
    /\ connectPc = [k \in Connectors |-> "idle"]
    /\ disconnectPc = [d \in Disconnectors |-> "idle"]

-------------------------------------------------------------------------------
(* Helpers *)

\* The receiver of t's channel is alive: its task is inside run_connection.
Open(t) == task[t] \in {"running", "writing"}

\* write_tx holds a sender, and sending on it cannot fail.
Sendable == writeTx # NoTask /\ Open(writeTx)

\* A mutex cell that is free, or that p has kept since it was suspended.
HasLock(p) == writeLock \in {Unlocked, p}

\* Mutant: the drain forgets the entries without answering them.
MutDrainSilently == pending' = {} /\ UNCHANGED reply

\* The drain loop: every registered call is told that the connection closed.
FailPending ==
    /\ reply' = [c \in Cmds |-> IF c \in pending THEN "closed" ELSE reply[c]]
    /\ pending' = {}

\* An aborted task is never polled again once it is parked; between two
\* awaits it runs on, because abort() does not wait for it.
CanRun(t) == aborted[t] => task[t] \notin {"spawned", "backoff", "dialing"}

Move(t, from, to) ==
    /\ task[t] = from /\ CanRun(t)
    /\ task' = [task EXCEPT ![t] = to]

\* run_connection returns: writer, reader and the receiver are dropped.
HangUp(t) ==
    /\ queue' = [queue EXCEPT ![t] = <<>>]
    /\ writing' = [writing EXCEPT ![t] = Nothing]
    /\ asked' = [asked EXCEPT ![t] = {}]

LimitReached(t) == MaxReconnect # NoLimit /\ attempt[t] >= MaxReconnect

Return(c, r) ==
    /\ sendPc' = [sendPc EXCEPT ![c] = "returned"]
    /\ result' = [result EXCEPT ![c] = r]

-------------------------------------------------------------------------------
(* connect() *)

CheckConnect(k) ==
    /\ connectPc[k] = "idle"
    /\ connectPc' = [connectPc EXCEPT ![k] =
           IF state \in {"Connected", "Connecting"} THEN "returned" ELSE "checked"]
    /\ UNCHANGED <<lifecycle, sender, handles, task, attempt, wire, calls, disconnectPc>>

SpawnTask(k) ==
    /\ connectPc[k] = "checked"
    /\ connectPc' = [connectPc EXCEPT ![k] = "spawned"]
    /\ state' = "Connecting"
    /\ task' = [task EXCEPT ![k] = "spawned"]
    /\ UNCHANGED <<link, sender, handles, attempt, wire, calls, disconnectPc>>

StoreHandle(k) ==
    /\ connectPc[k] = "spawned"
    /\ connectPc' = [connectPc EXCEPT ![k] = "returned"]
    /\ taskHandle' = k
    /\ UNCHANGED <<lifecycle, sender, aborted, task, attempt, wire, calls, disconnectPc>>

ConnectStep(k) == CheckConnect(k) \/ SpawnTask(k) \/ StoreHandle(k)

-------------------------------------------------------------------------------
(* send_command() *)

Register(c) ==
    /\ sendPc[c] = "idle"
    /\ sendPc' = [sendPc EXCEPT ![c] = "registered"]
    /\ pending' = pending \cup {c}
    /\ UNCHANGED <<lifecycle, sender, handles, task, attempt, wire, reply,
                   unsolicited, result, callers>>

\* The call is inside the block that locks write_tx.
Sending(c) == sendPc[c] \in {"registered", "blocked"} /\ HasLock(c)

SendNone(c) ==
    /\ Sending(c) /\ writeTx = NoTask
    /\ pending' = pending \ {c}
    /\ Return(c, "closed")
    /\ UNCHANGED <<lifecycle, sender, handles, task, attempt, wire, reply,
                   unsolicited, callers>>

\* Mutant: a channel without a bound.
MutUnbounded(c) ==
    /\ Sending(c) /\ Sendable
    /\ queue' = [queue EXCEPT ![writeTx] = Append(@, c)]
    /\ carrier' = [carrier EXCEPT ![c] = writeTx]
    /\ writeLock' = Unlocked
    /\ sendPc' = [sendPc EXCEPT ![c] = "waiting"]
    /\ UNCHANGED <<lifecycle, writeTx, handles, task, attempt, writing, asked,
                   written, pending, reply, unsolicited, result, callers>>

Enqueue(c) ==
    /\ Sending(c) /\ Sendable /\ Len(queue[writeTx]) < Capacity
    /\ queue' = [queue EXCEPT ![writeTx] = Append(@, c)]
    /\ carrier' = [carrier EXCEPT ![c] = writeTx]
    /\ writeLock' = Unlocked
    /\ sendPc' = [sendPc EXCEPT ![c] = "waiting"]
    /\ UNCHANGED <<lifecycle, writeTx, handles, task, attempt, writing, asked,
                   written, pending, reply, unsolicited, result, callers>>

\* A full channel suspends the call, and the mutex stays locked.
BlockSend(c) ==
    /\ Sending(c) /\ Sendable /\ Len(queue[writeTx]) = Capacity
    /\ sendPc[c] = "registered"
    /\ sendPc' = [sendPc EXCEPT ![c] = "blocked"]
    /\ writeLock' = c
    /\ UNCHANGED <<lifecycle, writeTx, handles, task, attempt, wire, pending,
                   reply, unsolicited, result, callers>>

\* Mutant: the failed send keeps the mutex.
MutKeepLock(c) ==
    /\ Sending(c) /\ writeTx # NoTask /\ ~Open(writeTx)
    /\ Return(c, "closed")
    /\ UNCHANGED <<lifecycle, sender, handles, task, attempt, wire, pending,
                   reply, unsolicited, callers>>

\* The receiver is gone: the call fails, and its entry is not removed.
SendClosed(c) ==
    /\ Sending(c) /\ writeTx # NoTask /\ ~Open(writeTx)
    /\ Return(c, "closed")
    /\ writeLock' = Unlocked
    /\ UNCHANGED <<lifecycle, writeTx, handles, task, attempt, wire, pending,
                   reply, unsolicited, callers>>

\* Mutant: any reply counts as success.
MutAnyReplyOk(c) ==
    /\ sendPc[c] = "waiting" /\ reply[c] # "none"
    /\ Return(c, "ok")
    /\ UNCHANGED <<lifecycle, sender, handles, task, attempt, wire, pending,
                   reply, unsolicited, callers>>

Receive(c) ==
    /\ sendPc[c] = "waiting" /\ reply[c] # "none"
    /\ Return(c, reply[c])
    /\ UNCHANGED <<lifecycle, sender, handles, task, attempt, wire, pending,
                   reply, unsolicited, callers>>

\* The ten seconds are over; the entry is still there until Expire.
Timeout(c) ==
    /\ sendPc[c] = "waiting" /\ reply[c] = "none"
    /\ sendPc' = [sendPc EXCEPT ![c] = "expired"]
    /\ UNCHANGED <<lifecycle, sender, handles, task, attempt, wire, pending,
                   reply, unsolicited, result, callers>>

\* Mutant: the timeout leaves its entry.
MutExpireKeeps(c) ==
    /\ sendPc[c] = "expired"
    /\ Return(c, "timeout")
    /\ UNCHANGED <<lifecycle, sender, handles, task, attempt, wire, pending,
                   reply, unsolicited, callers>>

Expire(c) ==
    /\ sendPc[c] = "expired"
    /\ pending' = pending \ {c}
    /\ Return(c, "timeout")
    /\ UNCHANGED <<lifecycle, sender, handles, task, attempt, wire, reply,
                   unsolicited, callers>>

\* The caller drops the future at an await: guards are released, the entry stays.
Cancel(c) ==
    /\ c \in MayCancel
    /\ sendPc[c] \in {"registered", "blocked", "waiting", "expired"}
    /\ Return(c, "cancelled")
    /\ writeLock' = IF writeLock = c THEN Unlocked ELSE writeLock
    /\ UNCHANGED <<lifecycle, writeTx, handles, task, attempt, wire, pending,
                   reply, unsolicited, callers>>

SendStep(c) ==
    \/ SendNone(c) \/ Enqueue(c) \/ BlockSend(c) \/ SendClosed(c)
    \/ Receive(c) \/ Timeout(c) \/ Expire(c)
-------------------------------------------------------------------------------
(* disconnect() *)

GoOn(d, from, to) ==
    /\ disconnectPc[d] \in from
    /\ disconnectPc' = [disconnectPc EXCEPT ![d] = to]

\* A call, which has to wait for the lock of write_tx.
CallDisconnect(d) ==
    /\ GoOn(d, {"idle"}, "called")
    /\ UNCHANGED <<lifecycle, sender, handles, task, attempt, wire, calls, connectPc>>

DisconnectNoSender(d) ==
    /\ GoOn(d, {"called"}, "abort")
    /\ HasLock(d) /\ writeTx = NoTask
    /\ UNCHANGED <<lifecycle, sender, handles, task, attempt, wire, calls, connectPc>>

SendClose(d) ==
    /\ GoOn(d, {"called", "closing"}, "grace")
    /\ HasLock(d) /\ Sendable /\ Len(queue[writeTx]) < Capacity
    /\ queue' = [queue EXCEPT ![writeTx] = Append(@, Close)]
    /\ writeLock' = Unlocked
    /\ UNCHANGED <<lifecycle, writeTx, handles, task, attempt, writing, asked,
                   history, calls, connectPc>>

BlockClose(d) ==
    /\ GoOn(d, {"called"}, "closing")
    /\ HasLock(d) /\ Sendable /\ Len(queue[writeTx]) = Capacity
    /\ writeLock' = d
    /\ UNCHANGED <<lifecycle, writeTx, handles, task, attempt, wire, calls, connectPc>>

\* Mutant: without drop(write_tx) the guard outlives the block.
MutKeepGuard(d) ==
    /\ GoOn(d, {"called", "closing"}, "grace")
    /\ HasLock(d) /\ writeTx # NoTask /\ ~Open(writeTx)
    /\ UNCHANGED <<lifecycle, sender, handles, task, attempt, wire, calls, connectPc>>

\* "let _ =": a failed send of the close frame is ignored.
CloseFails(d) ==
    /\ GoOn(d, {"called", "closing"}, "grace")
    /\ HasLock(d) /\ writeTx # NoTask /\ ~Open(writeTx)
    /\ writeLock' = Unlocked
    /\ UNCHANGED <<lifecycle, writeTx, handles, task, attempt, wire, calls, connectPc>>

GraceOver(d) ==
    /\ GoOn(d, {"grace"}, "abort")
    /\ UNCHANGED <<lifecycle, sender, handles, task, attempt, wire, calls, connectPc>>

Abort(d) ==
    /\ GoOn(d, {"abort"}, "clear")
    /\ aborted' = [t \in Connectors |-> aborted[t] \/ t = taskHandle]
    /\ taskHandle' = NoTask
    /\ UNCHANGED <<lifecycle, sender, task, attempt, wire, calls, connectPc>>

ClearSender(d) ==
    /\ GoOn(d, {"clear"}, "finish")
    /\ writeLock = Unlocked
    /\ writeTx' = NoTask
    /\ UNCHANGED <<lifecycle, writeLock, handles, task, attempt, wire, calls, connectPc>>

\* The drain and the state write: one step, pending stays locked across both.
FinishDisconnect(d) ==
    /\ GoOn(d, {"finish"}, "returned")
    /\ FailPending
    /\ state' = "Disconnected"
    /\ UNCHANGED <<link, sender, handles, task, attempt, wire, unsolicited,
                   sendPc, result, connectPc>>

DisconnectStep(d) ==
    \/ DisconnectNoSender(d) \/ SendClose(d) \/ BlockClose(d) \/ CloseFails(d)
    \/ GraceOver(d) \/ Abort(d) \/ ClearSender(d) \/ FinishDisconnect(d)
-------------------------------------------------------------------------------
(* connection_task() and run_connection() *)

\* attempt > 0: announce the reconnection, then sleep.
Announce(t) ==
    /\ attempt[t] > 0
    /\ Move(t, "head", "backoff")
    /\ state' = "Reconnecting" /\ link' = "Reconnecting"
    /\ UNCHANGED <<sender, handles, attempt, wire, calls, callers>>

\* Mutant: the loop does not wait after a failed dial.
MutNoBackoff(t) == task[t] \in {"spawned", "backoff", "head"}

\* The top of the loop once no backoff is due, or it is over.
AtLimitCheck(t) ==
    \/ task[t] \in {"spawned", "backoff"}
    \/ task[t] = "head" /\ attempt[t] = 0

\* Mutant: giving up leaves the state alone.
MutGiveUpSilently(t) ==
    /\ AtLimitCheck(t) /\ LimitReached(t)
    /\ Move(t, task[t], "done")
    /\ UNCHANGED <<lifecycle, sender, handles, attempt, wire, calls, callers>>

GiveUp(t) ==
    /\ AtLimitCheck(t) /\ LimitReached(t)
    /\ Move(t, task[t], "done")
    /\ state' = "Disconnected"
    /\ UNCHANGED <<link, sender, handles, attempt, wire, calls, callers>>

\* Mutant: the dial is not counted.
MutUncounted(t) ==
    /\ AtLimitCheck(t) /\ ~LimitReached(t)
    /\ Move(t, task[t], "dialing")
    /\ UNCHANGED <<lifecycle, sender, handles, attempt, wire, calls, callers>>

\* The counter is exact up to AttemptBound, where it stays.
Dial(t) ==
    /\ AtLimitCheck(t) /\ ~LimitReached(t)
    /\ Move(t, task[t], "dialing")
    /\ attempt' = [attempt EXCEPT ![t] =
                     IF @ < AttemptBound THEN @ + 1 ELSE @]
    /\ UNCHANGED <<lifecycle, sender, handles, wire, calls, callers>>

DialFail(t) ==
    /\ Move(t, "dialing", "head")
    /\ UNCHANGED <<lifecycle, sender, handles, attempt, wire, calls, callers>>

DialOk(t) ==
    /\ Move(t, "dialing", "opened")
    /\ attempt' = [attempt EXCEPT ![t] = 0]
    /\ UNCHANGED <<lifecycle, sender, handles, wire, calls, callers>>

\* Mutant: the state cell misses the reconnection.
MutEventOnly(t) ==
    /\ Move(t, "opened", "wiring")
    /\ link' = "Connected"
    /\ UNCHANGED <<state, sender, handles, attempt, wire, calls, callers>>

Opened(t) ==
    /\ Move(t, "opened", "wiring")
    /\ state' = "Connected" /\ link' = "Connected"
    /\ UNCHANGED <<sender, handles, attempt, wire, calls, callers>>

Wire(t) ==
    /\ writeLock = Unlocked
    /\ Move(t, "wiring", "running")
    /\ writeTx' = t
    /\ UNCHANGED <<lifecycle, writeLock, handles, attempt, wire, calls, callers>>

TakeOut(t) ==
    /\ Move(t, "running", "writing")
    /\ queue[t] # <<>>
    /\ writing' = [writing EXCEPT ![t] = Head(queue[t])]
    /\ queue' = [queue EXCEPT ![t] = Tail(@)]
    /\ UNCHANGED <<lifecycle, sender, handles, attempt, asked, history, calls, callers>>

\* The command in writing[t] reaches the speaker.
Deliver(t) ==
    written' = [c \in Cmds |-> IF c = writing[t] THEN written[c] + 1 ELSE written[c]]

WriteOk(t) ==
    /\ writing[t] \in Cmds
    /\ Move(t, "writing", "running")
    /\ Deliver(t)
    /\ asked' = [asked EXCEPT ![t] = @ \cup {writing[t]}]
    /\ writing' = [writing EXCEPT ![t] = Nothing]
    /\ UNCHANGED <<lifecycle, sender, handles, attempt, queue, carrier, calls, callers>>

CloseSent(t) ==
    /\ writing[t] = Close
    /\ Move(t, "writing", "lost")
    /\ HangUp(t)
    /\ UNCHANGED <<lifecycle, sender, handles, attempt, history, calls, callers>>

\* A failed write: the speaker may or may not have got the message.
WriteFail(t) ==
    /\ Move(t, "writing", "lost")
    /\ Deliver(t) \/ UNCHANGED written
    /\ HangUp(t)
    /\ UNCHANGED <<lifecycle, sender, handles, attempt, carrier, calls, callers>>

\* Mutant: the answer to a pending call is broadcast as well.
MutAnswerTwice(t, c) ==
    /\ task[t] = "running" /\ c \in asked[t]
    /\ asked' = [asked EXCEPT ![t] = @ \ {c}]
    /\ reply' = IF c \in pending THEN [reply EXCEPT ![c] = "ok"] ELSE reply
    /\ unsolicited' = unsolicited \cup {c}
    /\ pending' = pending \ {c}
    /\ UNCHANGED <<lifecycle, sender, handles, task, attempt, queue, writing,
                   history, sendPc, result, callers>>

\* The speaker answers c: to its pending call, or else to the event stream.
Response(t, c) ==
    /\ task[t] = "running" /\ c \in asked[t]
    /\ asked' = [asked EXCEPT ![t] = @ \ {c}]
    /\ IF c \in pending
       THEN reply' = [reply EXCEPT ![c] = "ok"] /\ UNCHANGED unsolicited
       ELSE unsolicited' = unsolicited \cup {c} /\ UNCHANGED reply
    /\ pending' = pending \ {c}
    /\ UNCHANGED <<lifecycle, sender, handles, task, attempt, queue, writing,
                   history, sendPc, result, callers>>

\* A close frame, a read error, the end of the stream or a failed pong.
Lose(t) ==
    /\ Move(t, "running", "lost")
    /\ HangUp(t)
    /\ UNCHANGED <<lifecycle, sender, handles, attempt, history, calls, callers>>

\* Mutant: the loss is reported and write_tx stays.
MutKeepSender(t) ==
    /\ writeLock = Unlocked
    /\ Move(t, "lost", "draining")
    /\ link' = "Disconnected"
    /\ UNCHANGED <<state, sender, handles, attempt, wire, calls, callers>>

ReportLoss(t) ==
    /\ writeLock = Unlocked
    /\ Move(t, "lost", "draining")
    /\ writeTx' = NoTask /\ link' = "Disconnected"
    /\ UNCHANGED <<state, writeLock, handles, attempt, wire, calls, callers>>

\* Mutant: the loss does not fail the pending commands.
MutNoDrain(t) ==
    /\ Move(t, "draining", "head")
    /\ UNCHANGED <<lifecycle, sender, handles, attempt, wire, calls, callers>>

Drain(t) ==
    /\ Move(t, "draining", "head")
    /\ FailPending
    /\ UNCHANGED <<lifecycle, sender, handles, attempt, wire, unsolicited,
                   sendPc, result, callers>>

\* The runtime drops an aborted task at the await where it is parked.
Drop(t) ==
    /\ aborted[t] /\ task[t] \notin {"done", "dropped"}
    /\ task' = [task EXCEPT ![t] = "dropped"]
    /\ HangUp(t)
    /\ UNCHANGED <<lifecycle, sender, handles, attempt, history, calls, callers>>

\* What the task does whatever the network does.
TaskStep(t) ==
    \/ Announce(t) \/ GiveUp(t) \/ Dial(t) \/ Opened(t) \/ Wire(t)
    \/ TakeOut(t) \/ ReportLoss(t) \/ Drain(t)

NetworkStep(t) ==
    \/ DialFail(t) \/ DialOk(t) \/ WriteOk(t) \/ CloseSent(t) \/ WriteFail(t)
    \/ Lose(t) \/ \E c \in Cmds : Response(t, c)
-------------------------------------------------------------------------------
Next ==
    \/ \E k \in Connectors : ConnectStep(k)
    \/ \E c \in Cmds : Register(c) \/ SendStep(c) \/ Cancel(c)
    \/ \E d \in Disconnectors : CallDisconnect(d) \/ DisconnectStep(d)
    \/ \E t \in Connectors : TaskStep(t) \/ NetworkStep(t) \/ Drop(t)

Spec == Init /\ [][Next]_vars
-------------------------------------------------------------------------------
(* Fairness *)

\* The runtime polls every task that can run, and every call that was made: the
\* tokio scheduler and the fair mutex.  Calls need not be made.
RuntimeFairness ==
    /\ \A t \in Connectors : WF_vars(TaskStep(t)) /\ WF_vars(Drop(t))
    /\ \A k \in Connectors : WF_vars(SpawnTask(k) \/ StoreHandle(k))
    /\ \A c \in Cmds : WF_vars(SendStep(c))
    /\ \A d \in Disconnectors : WF_vars(DisconnectStep(d))

\* A socket write and a dial end one way or the other (TCP gives up).
SocketFairness ==
    \A t \in Connectors :
        /\ WF_vars(WriteOk(t) \/ CloseSent(t) \/ WriteFail(t))
        /\ WF_vars(DialOk(t) \/ DialFail(t))

FairSpec == Spec /\ RuntimeFairness /\ SocketFairness

-------------------------------------------------------------------------------
(* Safety *)

\* Every cell and program counter has a value of its type, and a channel
\* never holds more than its capacity.
TypeOK ==
    /\ state \in States /\ link \in LinkEvents
    /\ writeTx \in Connectors \cup {NoTask}
    /\ writeLock \in Cmds \cup Disconnectors \cup {Unlocked}
    /\ taskHandle \in Connectors \cup {NoTask}
    /\ aborted \in [Connectors -> BOOLEAN]
    /\ task \in [Connectors -> TaskPcs]
    /\ attempt \in [Connectors -> 0 .. AttemptBound]
    /\ queue \in [Connectors -> Seq(Message)]
    /\ \A t \in Connectors : Len(queue[t]) <= Capacity
    /\ writing \in [Connectors -> Message \cup {Nothing}]
    /\ asked \in [Connectors -> SUBSET Cmds]
    /\ written \in [Cmds -> Nat] /\ carrier \in [Cmds -> Connectors \cup {NoTask}]
    /\ pending \subseteq Cmds /\ unsolicited \subseteq Cmds
    /\ reply \in [Cmds -> {"none", "ok", "closed"}]
    /\ sendPc \in [Cmds -> SendPcs]
    /\ result \in [Cmds -> Results]
    /\ connectPc \in [Connectors -> ConnectPcs]
    /\ disconnectPc \in [Disconnectors -> DisconnectPcs]

\* A reply and an entry exclude each other, and a call that was not made has
\* neither: what removes an entry is what fills the oneshot.
EntryOrReply ==
    \A c \in Cmds :
        /\ reply[c] # "none" => c \notin pending
        /\ sendPc[c] = "idle" => c \notin pending /\ reply[c] = "none"

\* A call that has not returned can still be answered: its entry is in
\* pending_commands or its reply is in the oneshot.  So whoever takes the
\* entry out answers it, and the "channel closed" arm of send_command
\* (lines 185-189) is never taken.
NoOrphanWait ==
    \A c \in Cmds : sendPc[c] \in {"registered", "blocked", "waiting"}
                        => c \in pending \/ reply[c] # "none"

\* An entry outlives its call only if the call was cancelled or failed to
\* send: a reply or a timeout leaves nothing behind, whatever drains and
\* answers ran in between.
PendingAccounted ==
    \A c \in pending :
        sendPc[c] = "returned" => result[c] \in {"closed", "cancelled"}

Holds(q, m) == \E i \in DOMAIN q : q[i] = m

\* The connection that took the message of c still has it on its way, or it is
\* gone and will drain; an aborted task may have been dropped before that.
Carried(c) ==
    LET t == carrier[c] IN
    /\ t \in Connectors
    /\ \/ c \in asked[t] \/ c = writing[t] \/ Holds(queue[t], c)
       \/ task[t] \in {"lost", "draining"}
       \/ aborted[t] /\ task[t] = "dropped"

\* A call waits for its ten seconds in vain only while its message is on its
\* way: if the connection that carried it is gone, a drain that will fail it
\* is due.  The exception is an aborted task dropped before its own drain.
LossIsReported ==
    \A c \in Cmds : sendPc[c] = "waiting" /\ reply[c] = "none" => Carried(c)

\* A task exists from the moment its connect call spawns it, and only a task
\* that exists is stored, aborted or writing.
TaskOrigin ==
    \A t \in Connectors :
        /\ connectPc[t] \in {"idle", "checked"} => task[t] = "unborn"
        /\ connectPc[t] = "spawned" \/ taskHandle = t \/ aborted[t] => task[t] # "unborn"
        /\ writing[t] # Nothing => task[t] = "writing"

\* write_tx holds the sender of a closed channel only between the end of
\* run_connection and the report of the loss, or after an abort.
StaleSender ==
    \A t \in Connectors :
        writeTx = t => Open(t) \/ task[t] = "lost" \/ aborted[t]

\* An answer becomes an event only when its call cannot take it any more: the
\* call was failed by a drain, timed out or returned without it.  It is never
\* an answer the caller also gets as its result.
AnswerRouting ==
    \A c \in unsolicited :
        /\ sendPc[c] \in {"waiting", "registered", "blocked"} => reply[c] = "closed"
        /\ result[c] # "ok" /\ reply[c] # "ok"

Undisturbed == \A d \in Disconnectors : disconnectPc[d] = "idle"

\* One task, until a disconnect begins: write_tx and the events agree with where
\* the task is.  Subscribers saw Connected last exactly while the connection is
\* up or its loss is not yet reported, and write_tx is set exactly from there on.
\* The state cell says Connected for longer: after a loss that was reported it does
\* until the first redial has failed and is announced (line 346 writes no state).
CellsAgree ==
    Undisturbed => \A t \in Connectors :
        /\ link = "Connected" <=> task[t] \in {"wiring", "running", "writing", "lost"}
        /\ writeTx = t <=> task[t] \in {"running", "writing", "lost"}
        /\ state = "Disconnected" <=> task[t] \in {"unborn", "done"}
        /\ state = "Connected" <=> link \in {"Connected", "Disconnected"}
        /\ link = "Disconnected" => task[t] \in {"draining", "head", "dialing", "opened"}
        /\ state = "Reconnecting" =>
              \/ task[t] \in {"backoff", "dialing", "head"} /\ attempt[t] > 0
              \/ task[t] = "opened"

\* One task, until a disconnect begins: it dials again after a failed dial only
\* when the reconnection was announced, in the state cell and as an event, and
\* the backoff slept.
RedialIsAnnounced ==
    [][\A t \in Connectors :
         attempt[t] > 0 /\ task'[t] = "dialing" /\ task[t] # "dialing" /\ Undisturbed =>
           task[t] = "backoff" /\ state = "Reconnecting" /\ link = "Reconnecting"]_vars

-------------------------------------------------------------------------------
(* Liveness *)

\* Every call of send_command returns, also when its connection is lost, when
\* another call holds write_tx, and when the speaker never answers.
CallsReturn == \A c \in Cmds : sendPc[c] = "registered" ~> sendPc[c] = "returned"

\* disconnect() returns once it was called, also when it waits for write_tx behind a
\* call that is suspended with it.
DisconnectReturns ==
    \A d \in Disconnectors : disconnectPc[d] # "idle" ~> disconnectPc[d] = "returned"

\* A lost connection comes back with a sender that works, or its task gives up
\* at the limit or is aborted; it does not stay somewhere in between, whatever
\* the network does.
RecoversOrGivesUp ==
    \A t \in Connectors :
        task[t] = "lost" ~> task[t] = "done" \/ aborted[t] \/ (writeTx = t /\ Open(t))

\* The entry a failed send leaves behind (line 173 returns without removing it)
\* does not stay: the drain that reports the loss takes it, unless the task is
\* aborted before it gets there.
LeakIsDrained ==
    \A c \in Cmds : c \in pending /\ sendPc[c] = "returned"
                        ~> c \notin pending \/ \E t \in Connectors : aborted[t]

-------------------------------------------------------------------------------
(* What documentation or tests say, and the code does not do *)

\* "Check if already connected or connecting" (line 132) and "Handle to the
\* connection task" (line 93): there is one connection task.
OneTask ==
    Cardinality({t \in Connectors : task[t] \notin {"unborn", "done", "dropped"}}) <= 1

\* test_disconnect_clears_state (lines 716-728): once disconnect has returned,
\* the connection it stopped leaves the state Disconnected and write_tx None.
DisconnectSticks ==
    (\A d \in Disconnectors : disconnectPc[d] = "returned")
    /\ (\E t \in Connectors : aborted[t])
        => state = "Disconnected" /\ writeTx = NoTask
===============================================================================
