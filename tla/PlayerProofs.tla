----------------------------- MODULE PlayerProofs -----------------------------
(* The invariants of Player, for every number of calls and every capacity. *)
EXTENDS Player, SequenceTheorems, TLAPS

USE DEF connecting, disconnecting, using, stream

-------------------------------------------------------------------------------
(* The connection *)

\* A task's step starts from a task that runs or was aborted, and keeps what
\* it is: a connection never becomes new, and an abort is never undone.
LEMMA StepsKeep ==
  ASSUME NEW l \in Lives, NEW s \in Steps(l)
  PROVE  /\ s.life \in Lives /\ s.event \in Events \cup {"none"}
         /\ s.life.aborted = l.aborted
         /\ l.stage = "new" => l.aborted
         /\ l.stage # "over" /\ s.life.stage # "new"
<1> DEFINE after(e, m) == s = [event |-> e, life |-> m]
<1>1. \/ l.stage = "dialing" /\ after("Connected", [l EXCEPT !.stage = "up", !.state = "Connected"])
      \/ l.stage = "dialing"
         /\ after("Reconnecting", [l EXCEPT !.stage = Parked(l), !.state = "Reconnecting"])
      \/ l.stage = "up" /\ after("Disconnected", [l EXCEPT !.stage = "down"])
      \/ l.stage = "down" /\ after("none", [l EXCEPT !.stage = Parked(l)])
      \/ l.aborted /\ l.stage # "over" /\ after("none", [l EXCEPT !.stage = "over"])
  BY Zenon DEF Steps
<1>2. Parked(l) \in {"over", "dialing"}
  BY DEF Parked
<1>3. ASSUME NEW e \in Events \cup {"none"}, NEW m \in Lives, after(e, m)
      PROVE  s.event \in Events \cup {"none"} /\ s.life = m
  BY <1>3
<1>4. /\ [l EXCEPT !.stage = "up", !.state = "Connected"] \in Lives
      /\ [l EXCEPT !.stage = Parked(l), !.state = "Reconnecting"] \in Lives
      /\ [l EXCEPT !.stage = "down"] \in Lives
      /\ [l EXCEPT !.stage = Parked(l)] \in Lives
      /\ [l EXCEPT !.stage = "over"] \in Lives
  BY <1>2 DEF Lives
<1> HIDE DEF after
<1>5. CASE l.stage = "dialing"
           /\ after("Connected", [l EXCEPT !.stage = "up", !.state = "Connected"])
  <2>1. s.life = [l EXCEPT !.stage = "up", !.state = "Connected"]
        /\ s.event \in Events \cup {"none"}
    BY <1>3, <1>4, <1>5 DEF Events
  <2> QED BY <1>4, <1>5, <2>1 DEF Lives
<1>6. CASE l.stage = "dialing"
           /\ after("Reconnecting", [l EXCEPT !.stage = Parked(l), !.state = "Reconnecting"])
  <2>1. s.life = [l EXCEPT !.stage = Parked(l), !.state = "Reconnecting"]
        /\ s.event \in Events \cup {"none"}
    BY <1>3, <1>4, <1>6 DEF Events
  <2> QED BY <1>2, <1>4, <1>6, <2>1 DEF Lives
<1>7. CASE l.stage = "up" /\ after("Disconnected", [l EXCEPT !.stage = "down"])
  <2>1. s.life = [l EXCEPT !.stage = "down"] /\ s.event \in Events \cup {"none"}
    BY <1>3, <1>4, <1>7 DEF Events
  <2> QED BY <1>4, <1>7, <2>1 DEF Lives
<1>8. CASE l.stage = "down" /\ after("none", [l EXCEPT !.stage = Parked(l)])
  <2>1. s.life = [l EXCEPT !.stage = Parked(l)] /\ s.event \in Events \cup {"none"}
    BY <1>3, <1>4, <1>8
  <2> QED BY <1>2, <1>4, <1>8, <2>1 DEF Lives
<1>9. CASE l.aborted /\ l.stage # "over" /\ after("none", [l EXCEPT !.stage = "over"])
  <2>1. s.life = [l EXCEPT !.stage = "over"] /\ s.event \in Events \cup {"none"}
    BY <1>3, <1>4, <1>9
  <2> QED BY <1>4, <1>9, <2>1 DEF Lives
<1> QED BY <1>1, <1>5, <1>6, <1>7, <1>8, <1>9

\* What the calls do to a connection.
LEMMA CallsKeep ==
  ASSUME NEW l \in Lives
  PROVE  /\ Spawned(l) \in Lives /\ Spawned(l).aborted = l.aborted
         /\ Spawned(l).stage # "new"
         /\ Finished(l) \in Lives /\ Finished(l).aborted = l.aborted
         /\ Finished(l).stage = l.stage
         /\ \A m \in Aborts(l) : m \in Lives /\ m.aborted /\ m.stage \in {l.stage, "over"}
  BY DEF Lives, Spawned, Finished, Aborts

\* A broadcast keeps the type and the bound of the stream, and loses nothing
\* without leaving a mark.
LEMMA BroadcastKeeps ==
  ASSUME NEW k \in Connects, NEW e \in Events,
         lagged \in [Connects -> BOOLEAN], buffer \in [Connects -> Seq(Events)],
         \A j \in Connects : Len(buffer[j]) <= Capacity,
         Broadcast(k, e)
  PROVE  /\ lagged' \in [Connects -> BOOLEAN] /\ buffer' \in [Connects -> Seq(Events)]
         /\ \A j \in Connects : Len(buffer'[j]) <= Capacity
         /\ \A j \in Connects : lagged[j] => lagged'[j]
<1>1. CASE forwarder[k] = "running"
  <2> DEFINE full == Len(buffer[k]) = Capacity
             rest == IF full THEN Tail(buffer[k]) ELSE buffer[k]
  <2>1. /\ buffer' = [buffer EXCEPT ![k] = Append(rest, e)]
        /\ lagged' = [lagged EXCEPT ![k] = @ \/ full]
    BY <1>1 DEF Broadcast
  <2>2. Len(buffer[k]) \in Nat /\ (full => buffer[k] # <<>>)
    BY PlayerCapacity, EmptySeq, LenProperties
  <2>3. rest \in Seq(Events) /\ Len(rest) < Capacity
    BY <2>2, HeadTailProperties, PlayerCapacity
  <2>4. Append(rest, e) \in Seq(Events) /\ Len(Append(rest, e)) = Len(rest) + 1
    BY <2>3, AppendProperties
  <2>5. Len(rest) \in Nat
    BY <2>3, LenProperties
  <2> HIDE DEF rest
  <2>6. Len(Append(rest, e)) <= Capacity
    BY <2>3, <2>4, <2>5, PlayerCapacity
  <2>7. lagged' \in [Connects -> BOOLEAN] /\ \A j \in Connects : lagged[j] => lagged'[j]
    BY <2>1, Zenon
  <2> QED BY <2>1, <2>4, <2>6, <2>7
<1>2. CASE forwarder[k] # "running"
  BY <1>2 DEF Broadcast
<1> QED BY <1>1, <1>2

\* An event told to the subscribers keeps the type of what they believe.
LEMMA TellKeeps ==
  ASSUME NEW k \in Connects, NEW e, believed \subseteq Connects, Tell(k, e)
  PROVE  believed' \subseteq Connects
  BY DEF Tell

-------------------------------------------------------------------------------
(* The invariant *)

\* A connection is new until its connect() spawns the task, and only a spawned
\* one is waited for, stored and taken out: so no abort meets a new one.  A
\* call that runs has no outcome, and listens with a forwarder.
ConnectInv ==
    \A k \in Connects :
        /\ life[k].stage = "new" => ~life[k].aborted
        /\ connectPc[k] = "idle" => life[k].stage = "new"
        /\ connectPc[k] \notin {"idle", "returned"} => life[k].stage # "new"
        /\ connectPc[k] # "returned" => outcome[k] = "none"
        /\ connectPc[k] = "listening" => forwarder[k] = "running" \/ lagged[k]
        /\ cell = k => life[k].stage # "new"

\* A disconnect that is at work has a connection, which was spawned.
DisconnectInv ==
    \A d \in Disconnects :
        /\ disconnectPc[d] \in {"stopping", "stopped"} => taken[d] \in Connects
        /\ taken[d] \in Connects => life[taken[d]].stage # "new"

PlayerInv ==
    TypeOK /\ ConnectInv /\ DisconnectInv /\ TasksAccounted /\ StoredIsForwarded

\* Before any call the invariant holds: nothing is spawned or stored.
LEMMA InitInv == Init => PlayerInv
<1> SUFFICES ASSUME Init PROVE PlayerInv
  OBVIOUS
<1> USE DEF Init
<1>1. NewLife \in Lives /\ NewLife.stage = "new" /\ ~NewLife.aborted
  BY DEF NewLife, Lives
<1>2. <<>> \in Seq(Events) /\ Len(<<>>) <= Capacity
  BY EmptySeq, PlayerCapacity
<1>3. TypeOK
  BY <1>1, <1>2 DEF TypeOK
<1>4. ConnectInv /\ DisconnectInv
  BY <1>1, PlayerDistinct DEF ConnectInv, DisconnectInv
<1>5. TasksAccounted /\ StoredIsForwarded
  BY <1>1 DEF TasksAccounted, StoredIsForwarded, Running
<1> QED BY <1>3, <1>4, <1>5 DEF PlayerInv

\* What a step does to a connection: only connect() makes a new one run, which
\* no step aborts; an abort is never undone, and what is not running does not
\* start to run.
LifeKept(k) ==
    /\ life'[k].stage = "new" => life[k].stage = "new" /\ life'[k].aborted = life[k].aborted
    /\ life[k].stage = "new" => life'[k].stage = "new" \/ connectPc'[k] = "waiting"
    /\ life[k].aborted => life'[k].aborted
    /\ Running(k)' => Running(k) \/ life[k].stage = "new"

\* Every step of the player keeps connections so.
LEMMA LifeKeeps ==
  ASSUME PlayerInv, [Next]_vars
  PROVE  life' \in [Connects -> Lives] /\ \A k \in Connects : LifeKept(k)
<1>1. life \in [Connects -> Lives] /\ connectPc \in [Connects -> {"idle", "waiting",
          "connected", "listening", "stored", "returned"}]
  BY DEF PlayerInv, TypeOK
<1>2. CASE UNCHANGED life
  BY <1>1, <1>2 DEF LifeKept, Running
<1>3. ASSUME NEW k \in Connects, Begin(k)
      PROVE  life' \in [Connects -> Lives] /\ \A j \in Connects : LifeKept(j)
  <2>1. /\ life' = [life EXCEPT ![k] = Spawned(life[k])]
        /\ connectPc' = [connectPc EXCEPT ![k] = "waiting"] /\ connectPc[k] = "idle"
    BY <1>3 DEF Begin
  <2>2. life[k].stage = "new"
    BY <2>1 DEF PlayerInv, ConnectInv
  <2>3. Spawned(life[k]) \in Lives /\ Spawned(life[k]).aborted = life[k].aborted
        /\ Spawned(life[k]).stage # "new"
    BY <1>1, CallsKeep
  <2> QED BY <1>1, <2>1, <2>2, <2>3 DEF LifeKept, Running
<1>4. ASSUME NEW d \in Disconnects, AbortTask(d)
      PROVE  life' \in [Connects -> Lives] /\ \A j \in Connects : LifeKept(j)
  <2>1. taken[d] \in Connects /\ life[taken[d]].stage # "new"
    BY <1>4 DEF AbortTask, PlayerInv, DisconnectInv
  <2>2. PICK l \in Aborts(life[taken[d]]) : life' = [life EXCEPT ![taken[d]] = l]
    BY <1>4 DEF AbortTask
  <2>3. l \in Lives /\ l.aborted /\ l.stage \in {life[taken[d]].stage, "over"}
    BY <1>1, <2>1, <2>2, CallsKeep
  <2> QED BY <1>1, <2>1, <2>2, <2>3 DEF LifeKept, Running
<1>5. ASSUME NEW d \in Disconnects, TellDisconnected(d)
      PROVE  life' \in [Connects -> Lives] /\ \A j \in Connects : LifeKept(j)
  <2>1. taken[d] \in Connects /\ life' = [life EXCEPT ![taken[d]] = Finished(life[taken[d]])]
    BY <1>5 DEF TellDisconnected, PlayerInv, DisconnectInv
  <2> DEFINE l == Finished(life[taken[d]])
  <2>2. l \in Lives /\ l.aborted = life[taken[d]].aborted /\ l.stage = life[taken[d]].stage
    BY <1>1, <2>1, CallsKeep
  <2> HIDE DEF l
  <2> QED BY <1>1, <2>1, <2>2 DEF LifeKept, Running, l
<1>6. ASSUME NEW k \in Connects, ConnectionMoves(k)
      PROVE  life' \in [Connects -> Lives] /\ \A j \in Connects : LifeKept(j)
  <2>1. PICK s \in Steps(life[k]) : life' = [life EXCEPT ![k] = s.life]
    BY <1>6 DEF ConnectionMoves
  <2>2. /\ s.life \in Lives /\ s.life.aborted = life[k].aborted
        /\ life[k].stage = "new" => life[k].aborted
        /\ life[k].stage # "over" /\ s.life.stage # "new"
    BY <1>1, <2>1, StepsKeep
  <2>3. life[k].stage # "new"
    BY <2>2 DEF PlayerInv, ConnectInv
  <2> QED BY <1>1, <2>1, <2>2, <2>3 DEF LifeKept, Running
<1>7. \/ UNCHANGED life
      \/ \E k \in Connects : Begin(k) \/ ConnectionMoves(k)
      \/ \E d \in Disconnects : AbortTask(d) \/ TellDisconnected(d)
  BY Zenon DEF Next, vars, ConnectStep, ConnectRuns, DisconnectRuns, Forwards, AlreadyConnected,
     RejectUrl, WaitOver, WaitFails, Listen, Store, TellConnected, Take, Require, Answered,
     Notify, Forward, ForwarderEnds
<1> QED BY <1>2, <1>3, <1>4, <1>5, <1>6, <1>7

-------------------------------------------------------------------------------
(* The steps *)

\* What a step does to the stream and the forwarder of a connection: a stream
\* that lost an event stays marked, and a forwarder ends only when its stream is
\* marked or nobody can send on it.
StreamKept(k) ==
    /\ lagged[k] => lagged'[k]
    /\ forwarder[k] = "running" => \/ forwarder'[k] = "running"
                                   \/ lagged'[k]
                                   \/ ~Senders(k) /\ cell' = cell /\ connectPc' = connectPc

\* Every step keeps the streams so, and within their bound.
LEMMA StreamKeeps ==
  ASSUME PlayerInv, [Next]_vars
  PROVE  /\ buffer' \in [Connects -> Seq(Events)] /\ lagged' \in [Connects -> BOOLEAN]
         /\ forwarder' \in [Connects -> {"none", "running", "ended"}]
         /\ \A k \in Connects : Len(buffer'[k]) <= Capacity /\ StreamKept(k)
<1> DEFINE Goal == /\ buffer' \in [Connects -> Seq(Events)] /\ lagged' \in [Connects -> BOOLEAN]
                   /\ forwarder' \in [Connects -> {"none", "running", "ended"}]
                   /\ \A k \in Connects : Len(buffer'[k]) <= Capacity /\ StreamKept(k)
<1>1. /\ buffer \in [Connects -> Seq(Events)] /\ lagged \in [Connects -> BOOLEAN]
      /\ forwarder \in [Connects -> {"none", "running", "ended"}]
      /\ \A k \in Connects : Len(buffer[k]) <= Capacity
      /\ life \in [Connects -> Lives]
  BY DEF PlayerInv, TypeOK
<1>2. CASE UNCHANGED stream /\ UNCHANGED forwarder
  BY <1>1, <1>2 DEF StreamKept
<1>3. ASSUME NEW k \in Connects, Listen(k)  PROVE Goal
  BY <1>1, <1>3 DEF StreamKept, Listen
<1>4. ASSUME NEW k \in Connects, NEW e \in Events, Broadcast(k, e), UNCHANGED forwarder
      PROVE  Goal
  BY <1>1, <1>4, BroadcastKeeps DEF StreamKept
<1>5. ASSUME NEW k \in Connects, ConnectionMoves(k)  PROVE Goal
  <2>1. PICK s \in Steps(life[k]) :
            IF s.event = "none" THEN UNCHANGED stream ELSE Broadcast(k, s.event)
    BY <1>5 DEF ConnectionMoves
  <2>2. s.event \in Events \cup {"none"} /\ UNCHANGED forwarder
    BY <1>1, <1>5, StepsKeep DEF ConnectionMoves
  <2> QED BY <1>2, <1>4, <2>1, <2>2
<1>6. ASSUME NEW k \in Connects, Notify(k)  PROVE Goal
  BY <1>4, <1>6 DEF Notify, Events
<1>7. ASSUME NEW k \in Connects, Forward(k)  PROVE Goal
  <2>1. /\ buffer' = [buffer EXCEPT ![k] = Tail(buffer[k])] /\ buffer[k] # <<>>
        /\ UNCHANGED <<lagged, forwarder>>
    BY <1>7 DEF Forward
  <2>2. Tail(buffer[k]) \in Seq(Events) /\ Len(Tail(buffer[k])) = Len(buffer[k]) - 1
        /\ Len(buffer[k]) \in Nat
    BY <1>1, <2>1, HeadTailProperties, LenProperties
  <2>3. Len(Tail(buffer[k])) <= Capacity
    BY <1>1, <2>2, PlayerCapacity
  <2> QED BY <1>1, <2>1, <2>2, <2>3 DEF StreamKept
<1>8. ASSUME NEW k \in Connects, ForwarderEnds(k)  PROVE Goal
  <2>1. <<>> \in Seq(Events) /\ Len(<<>>) <= Capacity
    BY EmptySeq, PlayerCapacity
  <2> QED BY <1>1, <1>8, <2>1 DEF StreamKept, ForwarderEnds
<1>9. \/ UNCHANGED stream /\ UNCHANGED forwarder
      \/ \E k \in Connects : \/ Listen(k) \/ ConnectionMoves(k) \/ Notify(k)
                             \/ Forward(k) \/ ForwarderEnds(k)
  BY Zenon DEF Next, vars, ConnectStep, ConnectRuns, DisconnectRuns, Forwards, AlreadyConnected,
     RejectUrl, Begin, WaitOver, WaitFails, Store, TellConnected, Take, AbortTask,
     TellDisconnected, Require, Answered
<1> QED BY <1>2, <1>3, <1>5, <1>6, <1>7, <1>8, <1>9

\* No step takes a cell out of its type.
LEMMA TypeKeeps ==
  ASSUME PlayerInv, [Next]_vars
  PROVE  TypeOK'
<1> DEFINE Calls == /\ connectPc \in [Connects -> {"idle", "waiting", "connected", "listening",
                                                   "stored", "returned"}]
                    /\ outcome \in [Connects -> {"none", "ok", "invalid", "timeout"}]
           Others == /\ disconnectPc \in [Disconnects -> {"idle", "stopping", "stopped", "returned"}]
                     /\ taken \in [Disconnects -> Connects \cup {NoConn}]
                     /\ usePc \in [Uses -> {"idle", "sending", "returned"}]
                     /\ held \in [Uses -> Connects \cup {NoConn}]
           Cells == /\ cell \in Connects \cup {NoConn} /\ lock \in Disconnects \cup {Unlocked}
                    /\ replaced \subseteq Connects /\ missed \subseteq Connects
<1>1. TypeOK
  BY DEF PlayerInv
<1>2. Calls'
  <2>1. Calls
    BY <1>1 DEF TypeOK
  <2>2. ASSUME NEW k \in Connects, ConnectStep(k)  PROVE Calls'
    BY <2>1, <2>2 DEF ConnectStep, ConnectRuns, ConnectReturns, AlreadyConnected, RejectUrl, Begin,
       WaitOver, WaitFails, Listen, Store, TellConnected
  <2>3. UNCHANGED <<connectPc, outcome>> \/ \E k \in Connects : ConnectStep(k)
    BY Zenon DEF Next, vars, DisconnectRuns, Forwards, Take, AbortTask, TellDisconnected,
       Require, Answered, ConnectionMoves, Notify, Forward, ForwarderEnds
  <2> QED BY <2>1, <2>2, <2>3
<1>3. Others'
  <2>1. Others /\ cell \in Connects \cup {NoConn}
    BY <1>1 DEF TypeOK
  <2>2. ASSUME NEW d \in Disconnects, Take(d) \/ DisconnectRuns(d)  PROVE Others'
    BY <2>1, <2>2 DEF Take, DisconnectRuns, AbortTask, TellDisconnected
  <2>3. ASSUME NEW c \in Uses, Require(c) \/ Answered(c)  PROVE Others'
    BY <2>1, <2>3 DEF Require, Answered
  <2>4. \/ UNCHANGED <<disconnectPc, taken, usePc, held>>
        \/ \E d \in Disconnects : Take(d) \/ DisconnectRuns(d)
        \/ \E c \in Uses : Require(c) \/ Answered(c)
    BY Zenon DEF Next, vars, ConnectStep, ConnectRuns, AlreadyConnected, RejectUrl, Begin, WaitOver,
       WaitFails, Listen, Store, TellConnected, Forwards, ConnectionMoves, Notify, Forward,
       ForwarderEnds
  <2> QED BY <2>1, <2>2, <2>3, <2>4
<1>4. Cells'
  <2>1. Cells
    BY <1>1 DEF TypeOK
  <2>2. ASSUME NEW k \in Connects, Store(k) \/ ConnectionMoves(k)  PROVE Cells'
    BY <2>1, <2>2 DEF Store, ConnectionMoves
  <2>3. ASSUME NEW d \in Disconnects, Take(d) \/ TellDisconnected(d)  PROVE Cells'
    BY <2>1, <2>3 DEF Take, TellDisconnected
  <2>4. \/ UNCHANGED <<cell, lock, replaced, missed>>
        \/ \E k \in Connects : Store(k) \/ ConnectionMoves(k)
        \/ \E d \in Disconnects : Take(d) \/ TellDisconnected(d)
    BY Zenon DEF Next, vars, ConnectStep, ConnectRuns, DisconnectRuns, AlreadyConnected, RejectUrl,
       Begin, WaitOver, WaitFails, Listen, TellConnected, AbortTask, Require, Answered, Forwards,
       Notify, Forward, ForwarderEnds
  <2> QED BY <2>1, <2>2, <2>3, <2>4
<1>5. believed' \subseteq Connects
  <2>1. believed \subseteq Connects
    BY <1>1 DEF TypeOK
  <2>2. ASSUME NEW k \in Connects, TellConnected(k) \/ Forward(k)
        PROVE  believed' \subseteq Connects
    BY <2>1, <2>2, TellKeeps DEF TellConnected, Forward
  <2>3. ASSUME NEW d \in Disconnects, TellDisconnected(d)  PROVE believed' \subseteq Connects
    BY <2>1, <2>3, TellKeeps DEF TellDisconnected, PlayerInv, DisconnectInv
  <2>4. \/ UNCHANGED believed
        \/ \E k \in Connects : TellConnected(k) \/ Forward(k)
        \/ \E d \in Disconnects : TellDisconnected(d)
    BY Zenon DEF Next, vars, ConnectStep, ConnectRuns, DisconnectRuns, AlreadyConnected, RejectUrl,
       Begin, WaitOver, WaitFails, Listen, Store, Take, AbortTask, Require, Answered, Forwards,
       ConnectionMoves, Notify, ForwarderEnds
  <2> QED BY <2>1, <2>2, <2>3, <2>4
<1> QED BY <1>2, <1>3, <1>4, <1>5, LifeKeeps, StreamKeeps DEF TypeOK

\* What a step does to a call of connect() and to the cell.
ConnectKept(k) ==
    \/ connectPc'[k] = connectPc[k] /\ outcome'[k] = outcome[k]
    \/ connectPc[k] \in {"idle", "stored"} /\ connectPc'[k] = "returned"
    \/ connectPc[k] = "waiting" /\ connectPc'[k] = "returned" /\ outcome'[k] = "timeout"
    \/ connectPc[k] = "idle" /\ connectPc'[k] = "waiting" /\ outcome'[k] = outcome[k]
       /\ life'[k].stage # "new"
    \/ connectPc[k] = "waiting" /\ connectPc'[k] = "connected" /\ outcome'[k] = outcome[k]
    \/ connectPc[k] = "connected" /\ connectPc'[k] = "listening" /\ outcome'[k] = outcome[k]
       /\ forwarder'[k] = "running"
    \/ connectPc[k] = "listening" /\ connectPc'[k] = "stored" /\ outcome'[k] = outcome[k]
       /\ cell' = k

CellKept ==
    \/ UNCHANGED cell
    \/ \E k \in Connects : Store(k)
    \/ cell' = NoConn
       /\ \E d \in Disconnects :
             cell # NoConn => taken'[d] = cell /\ disconnectPc'[d] = "stopping"

\* Every step moves the calls of connect() and the cell so.
LEMMA ConnectMoves ==
  ASSUME PlayerInv, [Next]_vars
  PROVE  CellKept /\ \A k \in Connects : ConnectKept(k)
<1>1. /\ connectPc \in [Connects -> {"idle", "waiting", "connected", "listening",
                                     "stored", "returned"}]
      /\ outcome \in [Connects -> {"none", "ok", "invalid", "timeout"}]
      /\ life \in [Connects -> Lives]
      /\ forwarder \in [Connects -> {"none", "running", "ended"}]
      /\ disconnectPc \in [Disconnects -> {"idle", "stopping", "stopped", "returned"}]
      /\ taken \in [Disconnects -> Connects \cup {NoConn}]
  BY DEF PlayerInv, TypeOK
<1>2. CellKept
  <2>1. ASSUME NEW d \in Disconnects, Take(d)  PROVE CellKept
    BY <1>1, <2>1 DEF CellKept, Take
  <2>2. UNCHANGED cell \/ (\E k \in Connects : Store(k)) \/ (\E d \in Disconnects : Take(d))
    BY Zenon DEF Next, vars, ConnectStep, ConnectRuns, DisconnectRuns, AlreadyConnected, RejectUrl,
       Begin, WaitOver, WaitFails, Listen, TellConnected, AbortTask, TellDisconnected, Require,
       Answered, Forwards, ConnectionMoves, Notify, Forward, ForwarderEnds
  <2> QED BY <2>1, <2>2 DEF CellKept
<1>3. ASSUME NEW k \in Connects  PROVE ConnectKept(k)
  <2>1. ASSUME NEW j \in Connects, ConnectStep(j)  PROVE ConnectKept(k)
    <3>1. CASE AlreadyConnected(j) \/ RejectUrl(j) \/ WaitFails(j) \/ TellConnected(j)
      BY <1>1, <3>1 DEF ConnectKept, ConnectReturns, AlreadyConnected, RejectUrl, WaitFails,
         TellConnected
    <3>2. CASE Begin(j)
      <4>1. Spawned(life[j]).stage # "new" /\ life' = [life EXCEPT ![j] = Spawned(life[j])]
        BY <1>1, <3>2, CallsKeep DEF Begin
      <4> QED BY <1>1, <3>2, <4>1 DEF ConnectKept, Begin
    <3>3. CASE WaitOver(j) \/ Listen(j) \/ Store(j)
      BY <1>1, <3>3 DEF ConnectKept, WaitOver, Listen, Store
    <3> QED BY <2>1, <3>1, <3>2, <3>3 DEF ConnectStep, ConnectRuns
  <2>2. UNCHANGED <<connectPc, outcome>> \/ \E j \in Connects : ConnectStep(j)
    BY Zenon DEF Next, vars, DisconnectRuns, Forwards, Take, AbortTask, TellDisconnected,
       Require, Answered, ConnectionMoves, Notify, Forward, ForwarderEnds
  <2> QED BY <2>1, <2>2 DEF ConnectKept
<1> QED BY <1>2, <1>3

\* The two lemmas above and LifeKeeps decide the next state of a connect.
LEMMA ConnectKeeps ==
  ASSUME PlayerInv, [Next]_vars
  PROVE  ConnectInv'
<1> SUFFICES ASSUME NEW k \in Connects
             PROVE  /\ life'[k].stage = "new" => ~life'[k].aborted
                    /\ connectPc'[k] = "idle" => life'[k].stage = "new"
                    /\ connectPc'[k] \notin {"idle", "returned"} => life'[k].stage # "new"
                    /\ connectPc'[k] # "returned" => outcome'[k] = "none"
                    /\ connectPc'[k] = "listening" => forwarder'[k] = "running" \/ lagged'[k]
                    /\ cell' = k => life'[k].stage # "new"
  BY DEF ConnectInv
<1>1. /\ life[k].stage = "new" => ~life[k].aborted
      /\ connectPc[k] = "idle" => life[k].stage = "new"
      /\ connectPc[k] \notin {"idle", "returned"} => life[k].stage # "new"
      /\ connectPc[k] # "returned" => outcome[k] = "none"
      /\ connectPc[k] = "listening" => forwarder[k] = "running" \/ lagged[k]
      /\ cell = k => life[k].stage # "new"
  BY DEF PlayerInv, ConnectInv
<1>2. LifeKept(k) /\ StreamKept(k) /\ ConnectKept(k)
  BY LifeKeeps, StreamKeeps, ConnectMoves
<1>3. /\ life'[k].stage = "new" => ~life'[k].aborted
      /\ connectPc'[k] = "idle" => life'[k].stage = "new"
      /\ connectPc'[k] \notin {"idle", "returned"} => life'[k].stage # "new"
      /\ connectPc'[k] # "returned" => outcome'[k] = "none"
  BY <1>1, <1>2 DEF LifeKept, ConnectKept
<1>4. connectPc'[k] = "listening" => forwarder'[k] = "running" \/ lagged'[k]
  BY <1>1, <1>2 DEF StreamKept, ConnectKept, Senders
<1>5. cell' = k => life'[k].stage # "new"
  <2>1. ASSUME Store(k)  PROVE life[k].stage # "new"
    BY <1>1, <2>1 DEF Store
  <2>2. cell' = k => cell = k \/ Store(k)
    BY ConnectMoves, PlayerDistinct DEF CellKept, Store
  <2> QED BY <1>1, <1>2, <2>1, <2>2 DEF LifeKept, Store
<1> QED BY <1>3, <1>4, <1>5

\* A disconnect takes only what was stored, which had been spawned.
LEMMA DisconnectKeeps ==
  ASSUME PlayerInv, [Next]_vars
  PROVE  DisconnectInv'
<1> SUFFICES ASSUME NEW d \in Disconnects
             PROVE  /\ disconnectPc'[d] \in {"stopping", "stopped"} => taken'[d] \in Connects
                    /\ taken'[d] \in Connects => life'[taken'[d]].stage # "new"
  BY DEF DisconnectInv
<1>1. /\ disconnectPc[d] \in {"stopping", "stopped"} => taken[d] \in Connects
      /\ taken[d] \in Connects => life[taken[d]].stage # "new"
      /\ cell \in Connects => life[cell].stage # "new"
  BY DEF PlayerInv, DisconnectInv, ConnectInv
<1>2. /\ disconnectPc \in [Disconnects -> {"idle", "stopping", "stopped", "returned"}]
      /\ taken \in [Disconnects -> Connects \cup {NoConn}]
      /\ cell \in Connects \cup {NoConn}
  BY DEF PlayerInv, TypeOK
<1>3. \A k \in Connects : life[k].stage # "new" => life'[k].stage # "new"
  BY LifeKeeps DEF LifeKept
<1>4. \/ taken'[d] = taken[d]
         /\ (disconnectPc'[d] = disconnectPc[d] \/ disconnectPc[d] \in {"stopping", "stopped"})
      \/ taken'[d] = cell /\ (cell = NoConn => disconnectPc'[d] = "returned")
  <2>1. ASSUME NEW e \in Disconnects, Take(e)
        PROVE  \/ taken'[d] = taken[d] /\ disconnectPc'[d] = disconnectPc[d]
               \/ taken'[d] = cell /\ (cell = NoConn => disconnectPc'[d] = "returned")
    BY <1>2, <2>1 DEF Take
  <2>2. ASSUME NEW e \in Disconnects, DisconnectRuns(e)
        PROVE  taken'[d] = taken[d] /\ (\/ disconnectPc'[d] = disconnectPc[d]
                                        \/ disconnectPc[d] \in {"stopping", "stopped"})
    BY <1>2, <2>2 DEF DisconnectRuns, AbortTask, TellDisconnected
  <2>3. \/ UNCHANGED <<disconnectPc, taken>>
        \/ \E e \in Disconnects : Take(e) \/ DisconnectRuns(e)
    BY Zenon DEF Next, vars, ConnectStep, ConnectRuns, AlreadyConnected, RejectUrl, Begin, WaitOver,
       WaitFails, Listen, Store, TellConnected, Require, Answered, Forwards, ConnectionMoves,
       Notify, Forward, ForwarderEnds
  <2> QED BY <2>1, <2>2, <2>3
<1> QED BY <1>1, <1>2, <1>3, <1>4

\* A task that loses one owner has another: Store leaves the old connection in
\* replaced, Take hands it to the disconnect, which aborts it.
LEMMA TasksKeep ==
  ASSUME PlayerInv, [Next]_vars
  PROVE  TasksAccounted'
<1> DEFINE Account(k) ==
             \/ cell = k
             \/ connectPc[k] \in {"waiting", "connected", "listening"}
             \/ \E d \in Disconnects : taken[d] = k /\ disconnectPc[d] = "stopping"
             \/ life[k].aborted
             \/ outcome[k] = "timeout"
             \/ k \in replaced
<1> SUFFICES ASSUME NEW k \in Connects, Running(k)'  PROVE Account(k)'
  BY DEF TasksAccounted
<1>1. LifeKept(k) /\ ConnectKept(k) /\ CellKept
  BY LifeKeeps, ConnectMoves
<1>2. CASE life[k].stage = "new"
  BY <1>1, <1>2 DEF LifeKept, Running
<1>3. CASE life[k].stage # "new"
  <2>1. Account(k) /\ (connectPc[k] # "returned" => outcome[k] = "none") /\ connectPc[k] # "idle"
    BY <1>1, <1>3 DEF LifeKept, PlayerInv, TasksAccounted, ConnectInv
  <2>2. CASE cell = k
    <3>1. k # NoConn
      BY PlayerDistinct
    <3>2. ASSUME NEW j \in Connects, Store(j)  PROVE k \in replaced'
      BY <2>2, <3>1, <3>2 DEF Store
    <3> QED BY <1>1, <2>2, <3>1, <3>2 DEF CellKept
  <2>3. CASE connectPc[k] \in {"waiting", "connected", "listening"} \/ outcome[k] = "timeout"
    BY <1>1, <2>1, <2>3 DEF ConnectKept
  <2>4. ASSUME NEW d \in Disconnects, taken[d] = k, disconnectPc[d] = "stopping"
        PROVE  Account(k)'
    <3>1. \/ taken'[d] = k /\ disconnectPc'[d] = "stopping"
          \/ AbortTask(d)
      <4>1. ASSUME NEW e \in Disconnects, e # d \/ ~AbortTask(e), Take(e) \/ DisconnectRuns(e)
            PROVE  taken'[d] = k /\ disconnectPc'[d] = "stopping"
        BY <2>4, <4>1 DEF Take, DisconnectRuns, AbortTask, TellDisconnected, PlayerInv, TypeOK
      <4>2. \/ UNCHANGED <<disconnectPc, taken>>
            \/ \E e \in Disconnects : Take(e) \/ DisconnectRuns(e)
        BY Zenon DEF Next, vars, ConnectStep, ConnectRuns, AlreadyConnected, RejectUrl, Begin,
           WaitOver, WaitFails, Listen, Store, TellConnected, Require, Answered, Forwards,
           ConnectionMoves, Notify, Forward, ForwarderEnds
      <4> QED BY <2>4, <4>1, <4>2
    <3>2. ASSUME AbortTask(d)  PROVE life'[k].aborted
      <4>1. PICK l \in Aborts(life[k]) : life' = [life EXCEPT ![k] = l]
        BY <2>4, <3>2 DEF AbortTask
      <4> QED BY <4>1, CallsKeep DEF PlayerInv, TypeOK
    <3> QED BY <3>1, <3>2
  <2>5. CASE life[k].aborted
    BY <1>1, <2>5 DEF LifeKept
  <2>6. CASE k \in replaced
    <3>1. replaced \subseteq replaced'
      <4>1. UNCHANGED replaced \/ \E j \in Connects : Store(j)
        BY Zenon DEF Next, vars, ConnectStep, ConnectRuns, DisconnectRuns, AlreadyConnected,
           RejectUrl, Begin, WaitOver, WaitFails, Listen, TellConnected, Take, AbortTask,
           TellDisconnected, Require, Answered, Forwards, ConnectionMoves, Notify, Forward,
           ForwarderEnds
      <4> QED BY <4>1 DEF Store
    <3> QED BY <2>6, <3>1
  <2> QED BY <2>1, <2>2, <2>3, <2>4, <2>5, <2>6
<1> QED BY <1>2, <1>3

\* What is in the cell can send, so that its forwarder has no end to see.
LEMMA StoredKeeps ==
  ASSUME PlayerInv, [Next]_vars
  PROVE  StoredIsForwarded'
<1>1. CASE UNCHANGED cell
  <2>1. ASSUME cell # NoConn  PROVE forwarder'[cell] = "running" \/ lagged'[cell]
    <3>1. cell \in Connects /\ StreamKept(cell) /\ (forwarder[cell] = "running" \/ lagged[cell])
      BY <2>1, StreamKeeps DEF PlayerInv, TypeOK, StoredIsForwarded
    <3> QED BY <3>1 DEF StreamKept, Senders
  <2> QED BY <1>1, <2>1 DEF StoredIsForwarded
<1>2. ASSUME NEW k \in Connects, Store(k)  PROVE StoredIsForwarded'
  BY <1>2 DEF Store, StoredIsForwarded, PlayerInv, ConnectInv
<1>3. CASE cell' = NoConn
  BY <1>3 DEF StoredIsForwarded
<1> QED BY <1>1, <1>2, <1>3, ConnectMoves DEF CellKept

-------------------------------------------------------------------------------
(* The theorems *)

\* The inductive invariant holds in every state.
THEOREM PlayerInvariant == Spec => []PlayerInv
<1>1. PlayerInv /\ [Next]_vars => PlayerInv'
  BY TypeKeeps, ConnectKeeps, DisconnectKeeps, TasksKeep, StoredKeeps DEF PlayerInv
<1> QED BY InitInv, <1>1, PTL DEF Spec

\* Type correctness: in particular no connection's stream of events ever holds
\* more than its channel's capacity.
THEOREM PlayerTypeCorrect == Spec => []TypeOK
<1>1. PlayerInv => TypeOK
  BY DEF PlayerInv
<1> QED BY PlayerInvariant, <1>1, PTL

\* No connection task runs behind the player's back, however many calls of
\* connect() and disconnect() overlap, but for the connects that timed out and
\* the connections that were overwritten.
THEOREM PlayerTasksAccounted == Spec => []TasksAccounted
<1>1. PlayerInv => TasksAccounted
  BY DEF PlayerInv
<1> QED BY PlayerInvariant, <1>1, PTL

\* The connection in the player's cell has a forwarder, which only an overflow
\* of its stream ends.
THEOREM PlayerForwards == Spec => []StoredIsForwarded
<1>1. PlayerInv => StoredIsForwarded
  BY DEF PlayerInv
<1> QED BY PlayerInvariant, <1>1, PTL

===============================================================================
