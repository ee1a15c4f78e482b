-------------------------------- MODULE Player --------------------------------
(***************************************************************************)
(* One Player (src/player.rs) shared by its clones: connect, disconnect    *)
(* and the commands run concurrently, each connect creates a connection    *)
(* that behaves as Lifecycle says, and a forwarder task turns its events   *)
(* into player events.                                                     *)
(***************************************************************************)
EXTENDS Naturals, Sequences, Lifecycle

CONSTANTS
    Connects,      \* calls of connect(); also names the connection it makes
    Disconnects,   \* calls of disconnect()
    Uses,          \* commands sent through the player
    NoConn,        \* None
    Unlocked,      \* nobody holds the connection cell's lock across an await
    Capacity       \* of a connection's broadcast channel (64 in the code)

ASSUME PlayerCapacity == Capacity \in Nat \ {0}
ASSUME PlayerDistinct ==
    NoConn \notin Connects /\ Unlocked \notin Disconnects

VARIABLES
    cell,          \* Player::connection
    lock,          \* its RwLock: the disconnect that holds it for writing
    life,          \* life[k]: the connection k
    buffer,        \* buffer[k]: events the forwarder of k has not received
    lagged,        \* lagged[k]: it lost some of them
    forwarder,     \* forwarder[k]: its forwarder task
    connectPc, outcome,
    disconnectPc,
    taken,         \* taken[d]: the connection disconnect d took out
    usePc, held,   \* held[c]: the connection command c works with
    believed,      \* connections of which the last event sent to the player's
                   \* subscribers was Connected
    replaced,      \* history: connections that a later connect overwrote
    missed         \* history: connections lost before connect told of them

connecting    == <<connectPc, outcome>>
disconnecting == <<disconnectPc, taken>>
using         == <<usePc, held>>
stream        == <<buffer, lagged>>
vars == <<cell, lock, life, stream, forwarder, connecting, disconnecting,
          using, believed, replaced, missed>>

Events == {"Connected", "Disconnected", "Reconnecting", "Message"}

Init ==
    /\ cell = NoConn /\ lock = Unlocked
    /\ life = [k \in Connects |-> NewLife]
    /\ buffer = [k \in Connects |-> <<>>] /\ lagged = [k \in Connects |-> FALSE]
    /\ forwarder = [k \in Connects |-> "none"]
    /\ connectPc = [k \in Connects |-> "idle"]
    /\ outcome = [k \in Connects |-> "none"]
    /\ disconnectPc = [d \in Disconnects |-> "idle"]
    /\ taken = [d \in Disconnects |-> NoConn]
    /\ usePc = [c \in Uses |-> "idle"] /\ held = [c \in Uses |-> NoConn]
    /\ believed = {}
    /\ replaced = {} /\ missed = {}

\* Mutant: only Connected is passed on.
MutTellUp(k, e) == believed' = IF e = "Connected" THEN believed \cup {k} ELSE believed

\* An event about the link of k is sent to the player's subscribers.
Tell(k, e) ==
    believed' = CASE e = "Connected" -> believed \cup {k}
                  [] e = "Message"   -> believed
                  [] OTHER           -> believed \ {k}

-------------------------------------------------------------------------------
(* connect() *)

ConnectReturns(k, r) ==
    /\ connectPc' = [connectPc EXCEPT ![k] = "returned"]
    /\ outcome' = [outcome EXCEPT ![k] = r]

\* The check, which reads the cell and lets it go; then the URL and the
\* hostname, which may be unusable.
AlreadyConnected(k) ==
    /\ connectPc[k] = "idle" /\ lock = Unlocked
    /\ cell # NoConn
    /\ ConnectReturns(k, "ok")
    /\ UNCHANGED <<cell, lock, life, stream, forwarder, disconnecting, using,
                   believed, replaced, missed>>

RejectUrl(k) ==
    /\ connectPc[k] = "idle" /\ lock = Unlocked
    /\ cell = NoConn
    /\ ConnectReturns(k, "invalid")
    /\ UNCHANGED <<cell, lock, life, stream, forwarder, disconnecting, using,
                   believed, replaced, missed>>

Begin(k) ==
    /\ connectPc[k] = "idle" /\ lock = Unlocked
    /\ cell = NoConn
    /\ life' = [life EXCEPT ![k] = Spawned(@)]
    /\ connectPc' = [connectPc EXCEPT ![k] = "waiting"]
    /\ UNCHANGED <<cell, lock, stream, forwarder, outcome, disconnecting, using,
                   believed, replaced, missed>>

WaitOver(k) ==
    /\ connectPc[k] = "waiting" /\ life[k].state = "Connected"
    /\ connectPc' = [connectPc EXCEPT ![k] = "connected"]
    /\ UNCHANGED <<cell, lock, life, stream, forwarder, outcome, disconnecting,
                   using, believed, replaced, missed>>

\* Mutant: the wait has no deadline.
MutWaitForever(k) == FALSE

\* The connection is dropped here; its task runs on.
WaitFails(k) ==
    /\ connectPc[k] = "waiting" /\ life[k].state # "Connected"
    /\ ConnectReturns(k, "timeout")
    /\ UNCHANGED <<cell, lock, life, stream, forwarder, disconnecting, using,
                   believed, replaced, missed>>

Listen(k) ==
    /\ connectPc[k] = "connected"
    /\ forwarder' = [forwarder EXCEPT ![k] = "running"]
    /\ connectPc' = [connectPc EXCEPT ![k] = "listening"]
    /\ UNCHANGED <<cell, lock, life, stream, outcome, disconnecting, using,
                   believed, replaced, missed>>

\* Whatever is in the cell is overwritten, and its task runs on.
Store(k) ==
    /\ connectPc[k] = "listening" /\ lock = Unlocked
    /\ cell' = k
    /\ replaced' = replaced \cup ({cell} \ {NoConn})
    /\ connectPc' = [connectPc EXCEPT ![k] = "stored"]
    /\ UNCHANGED <<lock, life, stream, forwarder, outcome, disconnecting, using,
                   believed, missed>>

TellConnected(k) ==
    /\ connectPc[k] = "stored"
    /\ Tell(k, "Connected")
    /\ ConnectReturns(k, "ok")
    /\ UNCHANGED <<cell, lock, life, stream, forwarder, disconnecting, using,
                   replaced, missed>>

\* What is left of a call once it runs, and does not wait for the connection.
ConnectRuns(k) ==
    WaitOver(k) \/ WaitFails(k) \/ Listen(k) \/ Store(k) \/ TellConnected(k)

ConnectStep(k) == AlreadyConnected(k) \/ RejectUrl(k) \/ Begin(k) \/ ConnectRuns(k)

-------------------------------------------------------------------------------
(* disconnect() *)

\* The write guard lives until the end of the call when there is a connection.
Take(d) ==
    /\ disconnectPc[d] = "idle" /\ lock = Unlocked
    /\ IF cell = NoConn
       THEN disconnectPc' = [disconnectPc EXCEPT ![d] = "returned"] /\ UNCHANGED lock
       ELSE disconnectPc' = [disconnectPc EXCEPT ![d] = "stopping"] /\ lock' = d
    /\ taken' = [taken EXCEPT ![d] = cell]
    /\ cell' = NoConn
    /\ UNCHANGED <<life, stream, forwarder, connecting, using, believed, replaced, missed>>

\* Mutant: the connection is dropped without being disconnected.
MutForget(d) ==
    /\ disconnectPc[d] = "stopping"
    /\ disconnectPc' = [disconnectPc EXCEPT ![d] = "stopped"]
    /\ UNCHANGED <<cell, lock, life, stream, forwarder, connecting, taken, using,
                   believed, replaced, missed>>

AbortTask(d) ==
    /\ disconnectPc[d] = "stopping"
    /\ \E l \in Aborts(life[taken[d]]) : life' = [life EXCEPT ![taken[d]] = l]
    /\ disconnectPc' = [disconnectPc EXCEPT ![d] = "stopped"]
    /\ UNCHANGED <<cell, lock, stream, forwarder, connecting, taken, using, believed,
                   replaced, missed>>

\* Mutant: the guard is kept by a connection that was stopped.
MutKeepGuard(d) ==
    /\ disconnectPc[d] = "stopped"
    /\ life' = [life EXCEPT ![taken[d]] = Finished(@)]
    /\ disconnectPc' = [disconnectPc EXCEPT ![d] = "returned"]
    /\ Tell(taken[d], "Disconnected")
    /\ UNCHANGED <<cell, lock, stream, forwarder, connecting, taken, using,
                   replaced, missed>>

\* Mutant: the end is left to the connection's events, and it sends none.
MutUntold(d) ==
    /\ disconnectPc[d] = "stopped"
    /\ life' = [life EXCEPT ![taken[d]] = Finished(@)]
    /\ disconnectPc' = [disconnectPc EXCEPT ![d] = "returned"]
    /\ lock' = Unlocked
    /\ UNCHANGED <<cell, stream, forwarder, connecting, taken, using, believed,
                   replaced, missed>>

TellDisconnected(d) ==
    /\ disconnectPc[d] = "stopped"
    /\ life' = [life EXCEPT ![taken[d]] = Finished(@)]
    /\ disconnectPc' = [disconnectPc EXCEPT ![d] = "returned"]
    /\ lock' = Unlocked
    /\ Tell(taken[d], "Disconnected")
    /\ UNCHANGED <<cell, stream, forwarder, connecting, taken, using, replaced, missed>>

DisconnectRuns(d) == AbortTask(d) \/ TellDisconnected(d)

-------------------------------------------------------------------------------
(* The commands *)

\* require_connection(): the command works on a clone of what it finds.
Require(c) ==
    /\ usePc[c] = "idle" /\ lock = Unlocked
    /\ usePc' = [usePc EXCEPT ![c] = IF cell = NoConn THEN "returned" ELSE "sending"]
    /\ held' = [held EXCEPT ![c] = cell]
    /\ UNCHANGED <<cell, lock, life, stream, forwarder, connecting, disconnecting,
                   believed, replaced, missed>>

\* send_command() ends one way or the other, and the clone is dropped.
Answered(c) ==
    /\ usePc[c] = "sending"
    /\ usePc' = [usePc EXCEPT ![c] = "returned"]
    /\ held' = [held EXCEPT ![c] = NoConn]
    /\ UNCHANGED <<cell, lock, life, stream, forwarder, connecting, disconnecting,
                   believed, replaced, missed>>

-------------------------------------------------------------------------------
(* The connection's task and the forwarder *)

\* Mutant: a channel without a bound.
MutUnbounded(k, e) ==
    /\ buffer' = [buffer EXCEPT ![k] = Append(@, e)]
    /\ UNCHANGED lagged

\* A broadcast: a full channel loses its oldest event, which the receiver
\* learns; without a receiver nothing happens.
Broadcast(k, e) ==
    IF forwarder[k] = "running"
    THEN LET full == Len(buffer[k]) = Capacity IN
         /\ buffer' = [buffer EXCEPT ![k] = Append(IF full THEN Tail(@) ELSE @, e)]
         /\ lagged' = [lagged EXCEPT ![k] = @ \/ full]
    ELSE UNCHANGED stream

ConnectionMoves(k) ==
    /\ \E s \in Steps(life[k]) :
          /\ life' = [life EXCEPT ![k] = s.life]
          /\ IF s.event = "none" THEN UNCHANGED stream ELSE Broadcast(k, s.event)
          /\ missed' = IF s.event = "Disconnected" /\ connectPc[k] # "returned"
                       THEN missed \cup {k} ELSE missed
    /\ UNCHANGED <<cell, lock, forwarder, connecting, disconnecting, using, believed, replaced>>

\* A notification of the speaker, or the late answer to a command.
Notify(k) ==
    /\ life[k].stage = "up" /\ forwarder[k] = "running"
    /\ Broadcast(k, "Message")
    /\ UNCHANGED <<cell, lock, life, forwarder, connecting, disconnecting, using,
                   believed, replaced, missed>>

\* Mutant: a forwarder that gives up on a reconnection.
MutStopOnLoss(k) ==
    /\ forwarder[k] = "running" /\ ~lagged[k] /\ buffer[k] # <<>>
    /\ buffer' = [buffer EXCEPT ![k] = Tail(@)]
    /\ forwarder' = IF Head(buffer[k]) = "Reconnecting"
                    THEN [forwarder EXCEPT ![k] = "ended"] ELSE forwarder
    /\ Tell(k, Head(buffer[k]))
    /\ UNCHANGED <<cell, lock, life, lagged, connecting, disconnecting, using,
                   replaced, missed>>

Forward(k) ==
    /\ forwarder[k] = "running" /\ ~lagged[k] /\ buffer[k] # <<>>
    /\ buffer' = [buffer EXCEPT ![k] = Tail(@)]
    /\ Tell(k, Head(buffer[k]))
    /\ UNCHANGED <<cell, lock, life, lagged, forwarder, connecting, disconnecting,
                   using, replaced, missed>>

\* Mutant: a closed channel is not an end.
MutNeverClosed(k) == TRUE

\* Somebody can still send on the broadcast channel: the task, or whoever has
\* the connection or a clone of it.
Senders(k) ==
    \/ life[k].stage # "over"
    \/ cell = k
    \/ connectPc[k] \in {"waiting", "connected", "listening"}
    \/ \E d \in Disconnects : taken[d] = k /\ disconnectPc[d] # "returned"
    \/ \E c \in Uses : held[c] = k

\* recv() fails: events were lost, or no sender is left.
ForwarderEnds(k) ==
    /\ forwarder[k] = "running"
    /\ lagged[k] \/ (buffer[k] = <<>> /\ ~Senders(k))
    /\ forwarder' = [forwarder EXCEPT ![k] = "ended"]
    /\ buffer' = [buffer EXCEPT ![k] = <<>>]
    /\ UNCHANGED <<cell, lock, life, lagged, connecting, disconnecting, using,
                   believed, replaced, missed>>

Forwards(k) == Forward(k) \/ ForwarderEnds(k)
-------------------------------------------------------------------------------
Next ==
    \/ \E k \in Connects : ConnectStep(k) \/ ConnectionMoves(k) \/ Notify(k) \/ Forwards(k)
    \/ \E d \in Disconnects : Take(d) \/ DisconnectRuns(d)
    \/ \E c \in Uses : Require(c) \/ Answered(c)

Spec == Init /\ [][Next]_vars

\* What a call that works with connection k may have to wait for: a socket that
\* stalls with the connection's channel full (lines 172 and 231 of player_connection.rs).
\* A connection that is down or over has no such channel.
MayStall(k) == life[k].stage = "up"

\* What runs whatever the socket does.
DisconnectGoesOn(d) == TellDisconnected(d) \/ (AbortTask(d) /\ ~MayStall(taken[d]))
AnsweredClosed(c)   == held[c] # NoConn /\ ~MayStall(held[c]) /\ Answered(c)

\* The runtime polls what can run, and an aborted task is dropped.  Nothing is assumed
\* of the network: a connection that is up may keep its callers waiting for ever.
FairSpec ==
    /\ Spec
    /\ \A k \in Connects : /\ WF_vars(ConnectRuns(k)) /\ WF_vars(Forwards(k))
                           /\ WF_vars(life[k].aborted /\ ConnectionMoves(k))
    /\ \A d \in Disconnects : WF_vars(DisconnectGoesOn(d))
    /\ \A c \in Uses : WF_vars(AnsweredClosed(c))

-------------------------------------------------------------------------------
(* Safety *)

\* Every cell has a value of its type, and an unread stream keeps its bound.
TypeOK ==
    /\ cell \in Connects \cup {NoConn} /\ lock \in Disconnects \cup {Unlocked}
    /\ life \in [Connects -> Lives]
    /\ buffer \in [Connects -> Seq(Events)]
    /\ \A k \in Connects : Len(buffer[k]) <= Capacity
    /\ lagged \in [Connects -> BOOLEAN]
    /\ forwarder \in [Connects -> {"none", "running", "ended"}]
    /\ connectPc \in [Connects -> {"idle", "waiting", "connected", "listening",
                                   "stored", "returned"}]
    /\ outcome \in [Connects -> {"none", "ok", "invalid", "timeout"}]
    /\ disconnectPc \in [Disconnects -> {"idle", "stopping", "stopped", "returned"}]
    /\ taken \in [Disconnects -> Connects \cup {NoConn}]
    /\ usePc \in [Uses -> {"idle", "sending", "returned"}]
    /\ held \in [Uses -> Connects \cup {NoConn}]
    /\ believed \subseteq Connects
    /\ replaced \subseteq Connects /\ missed \subseteq Connects

Running(k) == life[k].stage \notin {"new", "over"}

\* No connection task runs behind the player's back: it belongs to a call that
\* is at work, to the cell, or it was aborted.  The two exceptions are a
\* connect that timed out and one whose connection was overwritten.
TasksAccounted ==
    \A k \in Connects : Running(k) =>
        \/ cell = k
        \/ connectPc[k] \in {"waiting", "connected", "listening"}
        \/ \E d \in Disconnects : taken[d] = k /\ disconnectPc[d] = "stopping"
        \/ life[k].aborted
        \/ outcome[k] = "timeout"
        \/ k \in replaced

\* A connection in the cell has a forwarder as long as it does not lag, whatever
\* calls take connections out, overwrite them or hold clones of them, and
\* whatever the link goes through.
StoredIsForwarded ==
    cell # NoConn => forwarder[cell] = "running" \/ lagged[cell]

-------------------------------------------------------------------------------
(* Liveness *)

\* A connection that is stopped leaves no forwarder behind, though commands
\* still hold clones of it.
StoppedIsSilent ==
    \A d \in Disconnects, k \in Connects :
        taken[d] = k /\ life[k].aborted ~> forwarder[k] # "running"

\* A disconnect that a socket may keep waiting, with the cell's lock (line 142).
Stalls(d) == disconnectPc[d] = "stopping" /\ MayStall(taken[d])

\* The calls return: none waits for the cell for ever, unless a disconnect that holds
\* it meets a connection that is up, and stalls, time and again.
PlayerCallsReturn ==
    /\ \A k \in Connects : connectPc[k] = "waiting" ~>
          connectPc[k] = "returned" \/ \E d \in Disconnects : []<>Stalls(d)
    /\ \A d \in Disconnects : disconnectPc[d] = "stopping" ~>
          disconnectPc[d] = "returned" \/ []<>Stalls(d)

\* Subscribers of a connected player are told of the loss, unless the events
\* lagged or the loss came during connect itself: before the forwarder listens
\* (line 111) nobody hears of it, and after that its event may be overtaken by
\* the Connected of line 136.
LossIsTold ==
    \A k \in Connects :
        cell = k /\ outcome[k] = "ok" /\ life[k].stage = "down" /\ k \notin missed
            ~> k \notin believed \/ lagged[k]

-------------------------------------------------------------------------------
(* What documentation says, and the code does not do *)

\* "Disconnect from this player" (line 141), "If already connected, this is a
\* no-op" (line 82): with all connects over, a disconnect that returns leaves
\* no connection to the player running.
DisconnectStops ==
    (\A k \in Connects : connectPc[k] = "returned")
    /\ (\E d \in Disconnects : disconnectPc[d] = "returned" /\ taken[d] = NoConn)
    /\ cell = NoConn
        => \A k \in Connects : Running(k) => life[k].aborted
===============================================================================
