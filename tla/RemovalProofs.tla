------------------------------ MODULE RemovalProofs ------------------------------
(***************************************************************************)
(* The theorem about Removal: what an update that removed a player leaves  *)
(* running belongs to connects that it could not see.                      *)
(***************************************************************************)
EXTENDS Removal, PlayerProofs

\* Who is stopping a connection holds the lock of the cell.
LockInv ==
    \A d \in Disconnects : disconnectPc[d] \in {"stopping", "stopped"} => lock = d

\* Of the connects that had returned when the update took the cell, nothing can come
\* back into the cell or into the hands of another disconnect.
SettledInv ==
    \A k \in Connects \ late :
        /\ connectPc[k] = "returned" /\ cell # k
        /\ \A d \in Disconnects \ {Update} : disconnectPc[d] = "stopping" => taken[d] # k

Took == updatePc \in {"removing", "published"} /\ disconnectPc[Update] # "idle"

\* As long as the system is not dropped.
RemovalInv ==
    updatePc # "aborted" =>
        /\ PlayerInv /\ LockInv
        /\ updatePc = "idle" => disconnectPc[Update] = "idle"
        /\ updatePc = "published" => disconnectPc[Update] = "returned"
        /\ Took => SettledInv

\* Every step but the drop of the system is one of Player, or none.
LEMMA StepOfPlayer ==
  ASSUME RemovalNext \/ UNCHANGED allVars, ~DropSystem
  PROVE  [Next]_vars
<1>1. CASE ClientCalls
  BY <1>1 DEF ClientCalls, Next
<1>2. CASE TasksMove
  BY <1>2 DEF TasksMove, Next
<1>3. CASE UpdateTakes \/ UpdateDisconnects
  BY <1>3, RemovalUpdate DEF UpdateTakes, UpdateDisconnects, Next
<1>4. CASE Fetch \/ Remove \/ Publish \/ UNCHANGED allVars
  BY Zenon, <1>4 DEF Fetch, Remove, Publish, allVars
<1> QED BY <1>1, <1>2, <1>3, <1>4 DEF RemovalNext, UpdateRuns

\* Nobody takes the cell or ends a disconnect past the one that holds the lock.
LEMMA LockKeeps ==
  ASSUME PlayerInv, LockInv, [Next]_vars
  PROVE  LockInv'
<1>1. /\ disconnectPc \in [Disconnects -> {"idle", "stopping", "stopped", "returned"}]
      /\ Unlocked \notin Disconnects
  BY PlayerDistinct DEF PlayerInv, TypeOK
<1>2. ASSUME NEW d \in Disconnects, Take(d)  PROVE LockInv'
  BY <1>1, <1>2 DEF Take, LockInv
<1>3. ASSUME NEW d \in Disconnects, DisconnectRuns(d)  PROVE LockInv'
  BY <1>1, <1>3 DEF DisconnectRuns, AbortTask, TellDisconnected, LockInv
<1>4. CASE UNCHANGED <<disconnectPc, lock>>
  BY <1>4 DEF LockInv
<1>5. \/ UNCHANGED <<disconnectPc, lock>>
      \/ \E d \in Disconnects : Take(d) \/ DisconnectRuns(d)
  BY Zenon DEF Next, vars, disconnecting, ConnectStep, ConnectRuns, AlreadyConnected, RejectUrl,
     Begin, WaitOver, WaitFails, Listen, Store, TellConnected, Require, Answered, Forwards,
     ConnectionMoves, Notify, Forward, ForwarderEnds
<1> QED BY <1>2, <1>3, <1>4, <1>5

\* The steps of a client and of the tasks keep what the update settled: a connect that
\* returned stores nothing any more.
LEMMA SettledKeeps ==
  ASSUME PlayerInv, SettledInv, UNCHANGED late, [Next]_vars, ~Take(Update)
  PROVE  SettledInv'
<1>1. /\ disconnectPc \in [Disconnects -> {"idle", "stopping", "stopped", "returned"}]
      /\ taken \in [Disconnects -> Connects \cup {NoConn}] /\ NoConn \notin Connects
      /\ connectPc \in [Connects -> {"idle", "waiting", "connected", "listening", "stored",
                                     "returned"}]
  BY PlayerDistinct DEF PlayerInv, TypeOK
<1>2. ASSUME NEW d \in Disconnects, Take(d)  PROVE SettledInv'
  BY <1>1, <1>2 DEF Take, SettledInv, connecting
<1>3. ASSUME NEW d \in Disconnects, DisconnectRuns(d)  PROVE SettledInv'
  BY <1>1, <1>3 DEF DisconnectRuns, AbortTask, TellDisconnected, SettledInv, connecting
<1>4. ASSUME NEW j \in Connects, ConnectStep(j)  PROVE SettledInv'
  <2>1. connectPc[j] # "returned" /\ UNCHANGED disconnecting /\ cell' \in {cell, j}
    BY <1>4 DEF ConnectStep, ConnectRuns, AlreadyConnected, RejectUrl, Begin, WaitOver,
       WaitFails, Listen, Store, TellConnected
  <2>2. \A k \in Connects \ {j} : connectPc'[k] = connectPc[k]
    BY <1>1, <1>4 DEF ConnectStep, ConnectRuns, ConnectReturns, AlreadyConnected, RejectUrl,
       Begin, WaitOver, WaitFails, Listen, Store, TellConnected
  <2> QED BY <2>1, <2>2 DEF SettledInv, disconnecting
<1>5. CASE UNCHANGED <<cell, connecting, disconnecting>>
  BY <1>5 DEF SettledInv, connecting, disconnecting
<1>6. \/ UNCHANGED <<cell, connecting, disconnecting>>
      \/ \E j \in Connects : ConnectStep(j)
      \/ \E d \in Disconnects : Take(d) \/ DisconnectRuns(d)
  BY Zenon DEF Next, vars, Require, Answered, Forwards, ConnectionMoves, Notify, Forward,
     ForwarderEnds
<1> QED BY <1>2, <1>3, <1>4, <1>5, <1>6

\* Taking the cell settles it: the lock is free, so no other disconnect is stopping
\* anything, and the cell is empty.
LEMMA TakeSettles ==
  ASSUME PlayerInv, LockInv, UpdateTakes
  PROVE  SettledInv'
<1>1. NoConn \notin Connects /\ Unlocked \notin Disconnects
  BY PlayerDistinct
<1>2. /\ disconnectPc \in [Disconnects -> {"idle", "stopping", "stopped", "returned"}]
      /\ \A d \in Disconnects : disconnectPc[d] # "stopping"
  BY <1>1 DEF UpdateTakes, Take, LockInv, PlayerInv, TypeOK
<1>3. \A d \in Disconnects \ {Update} : disconnectPc'[d] # "stopping"
  BY <1>2, RemovalUpdate DEF UpdateTakes, Take
<1> QED BY <1>1, <1>3 DEF UpdateTakes, Take, SettledInv, connecting

\* Every step keeps the invariant: the update settles the cell when it takes it, and
\* nothing that moves later undoes it.
LEMMA RemovalKeeps ==
  ASSUME RemovalInv, [RemovalNext]_allVars
  PROVE  RemovalInv'
<1>1. CASE updatePc' = "aborted"
  BY <1>1 DEF RemovalInv
<1>2. CASE updatePc' # "aborted"
  <2>1. updatePc # "aborted" /\ ~DropSystem
    BY Zenon, <1>2 DEF RemovalNext, allVars, system, Fetch, ClientCalls, TasksMove, Remove, UpdateRuns,
       UpdateTakes, UpdateDisconnects, Publish, DropSystem
  <2>2. PlayerInv /\ LockInv /\ [Next]_vars
    BY <2>1, StepOfPlayer DEF RemovalInv
  <2>3. PlayerInv' /\ LockInv'
    BY <2>2, LockKeeps, TypeKeeps, ConnectKeeps, DisconnectKeeps, TasksKeep, StoredKeeps
       DEF PlayerInv
  <2>4. /\ disconnectPc \in [Disconnects -> {"idle", "stopping", "stopped", "returned"}]
        /\ Update \in Disconnects
    BY <2>2, RemovalUpdate DEF PlayerInv, TypeOK
  <2> SUFFICES /\ updatePc' = "idle" => disconnectPc'[Update] = "idle"
               /\ updatePc' = "published" => disconnectPc'[Update] = "returned"
               /\ Took' => SettledInv'
    BY <2>3 DEF RemovalInv
  <2>5. CASE UpdateTakes
    BY <2>2, <2>5, TakeSettles DEF UpdateTakes, Took
  <2>6. CASE UpdateDisconnects
    <3>1. ~Take(Update) /\ disconnectPc[Update] # "idle" /\ UNCHANGED system
      BY <2>6 DEF UpdateDisconnects, DisconnectRuns, AbortTask, TellDisconnected, Take
    <3> QED BY <2>1, <2>2, <2>6, <3>1, SettledKeeps
            DEF UpdateDisconnects, RemovalInv, Took, system
  <2>7. CASE ClientCalls \/ TasksMove
    <3>1. UNCHANGED <<system, disconnectPc[Update]>>
      <4>1. UNCHANGED system
        BY <2>7 DEF ClientCalls, TasksMove
      <4>2. ASSUME NEW d \in Disconnects \ {Update}, Take(d) \/ DisconnectRuns(d)
            PROVE  UNCHANGED disconnectPc[Update]
        BY <2>4, <4>2 DEF Take, DisconnectRuns, AbortTask, TellDisconnected
      <4>3. \/ UNCHANGED disconnectPc
            \/ \E d \in Disconnects \ {Update} : Take(d) \/ DisconnectRuns(d)
        BY Zenon, <2>7 DEF ClientCalls, TasksMove, disconnecting, ConnectStep, ConnectRuns,
           AlreadyConnected, RejectUrl, Begin, WaitOver, WaitFails, Listen, Store, TellConnected,
           Require, Answered, Forwards, ConnectionMoves, Notify, Forward, ForwarderEnds
      <4> QED BY <4>1, <4>2, <4>3
    <3>2. CASE Took
      <4>1. ~Take(Update)
        BY <3>2 DEF Took, Take
      <4> QED BY <2>1, <2>2, <3>1, <3>2, <4>1, SettledKeeps DEF RemovalInv, Took, system
    <3> QED BY <2>1, <3>1, <3>2 DEF RemovalInv, Took, system
  <2>8. CASE Remove
    BY <2>1, <2>8 DEF Remove, RemovalInv, Took, vars, disconnecting
  <2>9. CASE Fetch \/ Publish \/ UNCHANGED allVars
    <3>1. UNCHANGED <<cell, connectPc, disconnectPc, taken, late>>
      BY Zenon, <2>9 DEF Fetch, Publish, allVars, vars, system, connecting, disconnecting
    <3>2. SettledInv => SettledInv'
      BY <3>1 DEF SettledInv
    <3>3. \/ UNCHANGED updatePc
          \/ updatePc = "removing" /\ updatePc' = "published" /\ disconnectPc[Update] = "returned"
      BY <2>9 DEF Fetch, Publish, allVars, system
    <3> QED BY <2>1, <3>1, <3>2, <3>3 DEF RemovalInv, Took
  <2> QED BY <2>1, <2>5, <2>6, <2>7, <2>8, <2>9 DEF RemovalNext, UpdateRuns
<1> QED BY <1>1, <1>2

\* Whatever calls go through clones of the player, and however many, once the removal
\* is published nothing runs for it that was stored when the update took the cell.
THEOREM RemovalStopsAll == RemovalSpec => []RemovalStops
<1>1. RemovalInit => RemovalInv
  BY InitInv, RemovalUpdate DEF RemovalInit, RemovalInv, Init, LockInv, Took
<1>2. RemovalInv /\ [RemovalNext]_allVars => RemovalInv'
  BY RemovalKeeps
<1>3. RemovalInv => RemovalStops
  BY DEF RemovalInv, RemovalStops, Took, SettledInv, PlayerInv, TasksAccounted
<1> QED BY <1>1, <1>2, <1>3, PTL DEF RemovalSpec
===============================================================================
