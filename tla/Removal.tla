-------------------------------- MODULE Removal --------------------------------
(***************************************************************************)
(* A Player in the map of its SonosSystem: a client that looked it up      *)
(* keeps a clone and calls it, while a topology update takes the player    *)
(* out of the map and disconnects it (handle_topology_update), or the      *)
(* system is dropped, which aborts the update where it waits.              *)
(***************************************************************************)
EXTENDS Player

CONSTANT Update      \* the disconnect() that the update makes

ASSUME RemovalUpdate == Update \in Disconnects

VARIABLES
    listed,      \* the player is in the players map
    guard,       \* the update holds the locks of the map and of the topology
    updatePc,    \* idle, removing, published, aborted
    clone,       \* the client's get_player(): none yet, held, absent
    late,        \* history: connects that had not returned when the update took the cell
    orphans      \* history: connections that an aborted update had taken out

system  == <<listed, guard, updatePc, clone, late, orphans>>
allVars == <<vars, system>>

RemovalInit ==
    /\ Init
    /\ listed = TRUE /\ guard = FALSE /\ updatePc = "idle" /\ clone = "none"
    /\ late = {} /\ orphans = {}
-------------------------------------------------------------------------------
(* The client *)

\* get_player() waits for an update that removes and disconnects the player.
Fetch ==
    /\ clone = "none" /\ ~guard /\ updatePc # "aborted"
    /\ clone' = IF listed THEN "held" ELSE "absent"
    /\ UNCHANGED <<vars, listed, guard, updatePc, late, orphans>>

ClientCalls ==
    /\ clone = "held"
    /\ \/ \E k \in Connects : ConnectStep(k)
       \/ \E d \in Disconnects \ {Update} : Take(d) \/ DisconnectRuns(d)
       \/ \E c \in Uses : Require(c) \/ Answered(c)
    /\ UNCHANGED system

TasksMove ==
    /\ \E k \in Connects : ConnectionMoves(k) \/ Notify(k) \/ Forwards(k)
    /\ UNCHANGED system
-------------------------------------------------------------------------------
(* The update *)

Remove ==
    /\ updatePc = "idle" /\ updatePc' = "removing"
    /\ guard' = TRUE /\ listed' = FALSE
    /\ UNCHANGED <<vars, clone, late, orphans>>

UpdateTakes ==
    /\ updatePc = "removing" /\ Take(Update)
    /\ late' = {k \in Connects : connectPc[k] # "returned"}
    /\ UNCHANGED <<listed, guard, updatePc, clone, orphans>>

UpdateDisconnects ==
    /\ updatePc = "removing" /\ DisconnectRuns(Update)
    /\ UNCHANGED system

\* Mutant: the player is only taken out of the map.
MutPublish ==
    /\ updatePc = "removing"
    /\ updatePc' = "published" /\ guard' = FALSE
    /\ UNCHANGED <<vars, listed, clone, late, orphans>>

Publish ==
    /\ updatePc = "removing" /\ disconnectPc[Update] = "returned"
    /\ updatePc' = "published" /\ guard' = FALSE
    /\ UNCHANGED <<vars, listed, clone, late, orphans>>

UpdateRuns == UpdateTakes \/ UpdateDisconnects \/ Publish

\* The last SonosSystem is dropped.  An update is dropped where it waits, with its
\* locks, and what it had taken out of the cell loses its only owner.
DropSystem ==
    /\ updatePc \in {"idle", "removing"} /\ updatePc' = "aborted"
    /\ guard' = FALSE
    /\ orphans' = IF disconnectPc[Update] \in {"stopping", "stopped"} THEN {taken[Update]} ELSE {}
    /\ lock' = IF lock = Update THEN Unlocked ELSE lock
    /\ disconnectPc' = [disconnectPc EXCEPT ![Update] = "returned"]
    /\ UNCHANGED <<cell, life, stream, forwarder, connecting, taken, using, believed,
                   replaced, missed, listed, clone, late>>
-------------------------------------------------------------------------------
RemovalNext == Fetch \/ ClientCalls \/ TasksMove \/ Remove \/ UpdateRuns \/ DropSystem

\* What of the update runs whatever the socket does.
UpdateGoesOn ==
    \/ UpdateTakes \/ Publish
    \/ updatePc = "removing" /\ DisconnectGoesOn(Update) /\ UNCHANGED system

\* The fairness of Player, for the client's calls and for the update.
RemovalSpec ==
    /\ RemovalInit /\ [][RemovalNext]_allVars
    /\ \A k \in Connects :
          /\ WF_allVars(ConnectRuns(k) /\ UNCHANGED system)
          /\ WF_allVars(Forwards(k) /\ UNCHANGED system)
          /\ WF_allVars(life[k].aborted /\ ConnectionMoves(k) /\ UNCHANGED system)
    /\ \A d \in Disconnects \ {Update} : WF_allVars(DisconnectGoesOn(d) /\ UNCHANGED system)
    /\ \A c \in Uses : WF_allVars(AnsweredClosed(c) /\ UNCHANGED system)
    /\ WF_allVars(UpdateGoesOn)
-------------------------------------------------------------------------------
(* Properties *)

\* "Disconnect the player if it was connected" (line 303): once the update is
\* published nothing runs for the player that was stored when it took the cell,
\* whatever clones of the player did meanwhile.  What runs nevertheless belongs to a
\* connect that was under way or came later, through a clone, or leaked before.
RemovalStops ==
    updatePc = "published" =>
        \A k \in Connects : Running(k) =>
            life[k].aborted \/ outcome[k] = "timeout" \/ k \in replaced \/ k \in late

\* The update gets through, though it waits for calls of the client with the locks of
\* the system held, and nothing of the client's waits for ever for what a dropped
\* update held.  The one thing that can hold all of them up for ever is a disconnect
\* that stalls with its socket.
UpdateReturns ==
    LET Stalled == \E d \in Disconnects : []<>Stalls(d) IN
    /\ updatePc = "removing" ~> updatePc \in {"published", "aborted"} \/ Stalled
    /\ lock # Unlocked \/ guard ~> (lock = Unlocked /\ ~guard) \/ Stalled

\* The last event about the link that the forwarder of k has not received says that
\* the link is up.
EndsUp(k) ==
    \E i \in DOMAIN buffer[k] :
        buffer[k][i] = "Connected" /\ \A j \in i + 1 .. Len(buffer[k]) : buffer[k][j] = "Message"

\* Subscribers who are told of a disconnect (line 145 of player.rs) while the forwarder
\* has older events to pass on are not left with a connection that is gone: that it is
\* up is not said afterwards.  It is if the forwarder had not received the last return
\* of the link, or connect had not sent its own Connected yet (line 136); and nothing
\* is told if a dropped system took the update with it before line 145.
StopIsTold ==
    \A d \in Disconnects, k \in Connects :
        disconnectPc[d] = "stopped" /\ taken[d] = k /\ life[k].stage = "over"
            /\ connectPc[k] = "returned" /\ ~EndsUp(k)
                ~> [](k \notin believed) \/ k \in orphans
===============================================================================
