------------------------------- MODULE Topology -------------------------------
(***************************************************************************)
(* SonosSystem (src/system.rs): it discovers players, starts over a        *)
(* connection to one of them, which behaves as Lifecycle says, subscribes  *)
(* to the groups of the household, and a task turns the groups events into *)
(* the players map, the topology and the events of the system.  The        *)
(* speaker is external.                                                    *)
(***************************************************************************)
EXTENDS Discovery, Lifecycle

CONSTANTS
    Ids,          \* players of the household
    Capacity,     \* of the connection's broadcast channel (64 in the code)
    MaxChanges    \* bound: changes of the household

ASSUME TopologyIds      == IsFiniteSet(Ids)
ASSUME TopologyCapacity == Capacity \in Nat \ {0}
ASSUME TopologyChanges  == MaxChanges \in Nat

VARIABLES
    household,    \* external: its players, and which of them lead a group
    changes,      \* bound on the changes
    subscribed,   \* external: the speaker sends groups events on this link
    owed,         \* external: the event that follows the answer to subscribe
    life,         \* the topology connection
    buffer,       \* what the task has not received
    lagged,       \* it lost some of it
    taskPc,       \* the topology task
    update,       \* the response it handles
    leaving,      \* old players it has still to remove
    players,      \* the keys of the players map
    topology,     \* the Topology value
    told,         \* PlayerAdded and PlayerRemoved, added up
    early         \* history: the last groups event came before the task listened

speaker == <<household, changes, subscribed, owed>>
stream  == <<buffer, lagged, early>>
handler == <<taskPc, update, leaving>>
shared  == <<players, topology, told>>
begun   == <<startPc, discovery>>
vars    == <<speaker, life, begun, stream, handler, shared>>

\* A groups response and the Topology value made of it: the players, and the
\* coordinators of the groups, which are players.
Topologies == {t \in [players : SUBSET Ids, coordinators : SUBSET Ids] :
                  t.coordinators \subseteq t.players /\ (t.players = {} <=> t.coordinators = {})}
Empty == [players |-> {}, coordinators |-> {}]

Groups(t) == [groups |-> TRUE, response |-> t]
Other     == [groups |-> FALSE, response |-> Empty]

Init ==
    /\ DiscoveryInit
    /\ household \in Topologies /\ changes = 0
    /\ subscribed = FALSE /\ owed = FALSE
    /\ life = NewLife
    /\ buffer = <<>> /\ lagged = FALSE /\ early = FALSE
    /\ taskPc = "none" /\ update = Empty /\ leaving = {}
    /\ players = {} /\ topology = Empty /\ told = {}

Listening == taskPc \notin {"none", "ended"}

\* Mutant: a channel without a bound.
MutUnbounded(e) ==
    /\ buffer' = IF Listening THEN Append(buffer, e) ELSE buffer
    /\ UNCHANGED <<lagged, early>>

\* A broadcast to the task: a full channel loses its oldest event.
Broadcast(e) ==
    IF Listening
    THEN LET full == Len(buffer) = Capacity IN
         /\ buffer' = Append(IF full THEN Tail(buffer) ELSE buffer, e)
         /\ lagged' = (lagged \/ full)
         /\ early' = (early /\ ~e.groups)
    ELSE /\ early' = (early \/ (e.groups /\ taskPc = "none"))
         /\ UNCHANGED <<buffer, lagged>>

-------------------------------------------------------------------------------
(* The speaker and the link *)

\* Players come and go, groups form and part; a subscriber is told at once.
Change(t) ==
    /\ changes < MaxChanges /\ changes' = changes + 1
    /\ t # household /\ household' = t
    /\ IF subscribed /\ ~owed THEN Broadcast(Groups(household')) ELSE UNCHANGED stream
    /\ UNCHANGED <<subscribed, owed, life, begun, handler, shared>>

FirstEvent ==
    /\ owed /\ owed' = FALSE
    /\ Broadcast(Groups(household))
    /\ UNCHANGED <<household, changes, subscribed, life, begun, handler, shared>>

\* Events of other namespaces and late answers.
Notify ==
    /\ life.stage = "up" /\ Listening
    /\ Broadcast(Other)
    /\ UNCHANGED <<speaker, life, begun, handler, shared>>

\* The subscription ends with the link it was made on.
LinkMoves ==
    /\ \E s \in Steps(life) :
          /\ life' = s.life
          /\ IF s.event = "none" THEN UNCHANGED stream ELSE Broadcast(Other)
          /\ IF s.event = "Disconnected" THEN subscribed' = FALSE /\ owed' = FALSE
                                         ELSE UNCHANGED <<subscribed, owed>>
    /\ UNCHANGED <<household, changes, begun, handler, shared>>

-------------------------------------------------------------------------------
(* from_discovered() *)

Elsewhere == UNCHANGED <<speaker, life, stream, handler, shared>>

Connect ==
    /\ StartMoves("found", "waiting") /\ Choose
    /\ life' = Spawned(life)
    /\ UNCHANGED <<speaker, stream, handler, shared>>

WaitOver ==
    /\ StartMoves("waiting", "subscribing")
    /\ life.state = "Connected"
    /\ UNCHANGED <<speaker, discovery, life, stream, handler, shared>>

\* Mutant: the wait has no deadline.
MutWaitForever ==
    /\ StartMoves("subscribing", "failed")
    /\ UNCHANGED <<speaker, discovery, life, stream, handler, shared>>

\* The wait ran out, or subscribe failed or was refused: an error, and a
\* connection task that nobody stops.
StartFails ==
    /\ \/ StartMoves("waiting", "failed") /\ life.state # "Connected"
       \/ StartMoves("subscribing", "failed")
    /\ UNCHANGED <<speaker, discovery, life, stream, handler, shared>>

\* The player grants it for its own household only.
Subscribe ==
    /\ StartMoves("subscribing", "answered")
    /\ life.stage = "up" /\ householdId = Home(first.uuid)
    /\ subscribed' = TRUE /\ owed' = TRUE
    /\ UNCHANGED <<household, changes, discovery, life, stream, handler, shared>>

\* Only now the task's receiver exists.
SpawnTask ==
    /\ StartMoves("answered", "running")
    /\ taskPc' = "idle" /\ first' = NoPlayer
    /\ UNCHANGED <<speaker, late, found, householdId, life, stream, update, leaving, shared>>

StartRuns == WaitOver \/ StartFails \/ Subscribe \/ SpawnTask

\* What is left of start(), whatever the daemon and the link do.
Starts ==
    \/ (Deadline \/ (late /\ Browsed) \/ NothingFound) /\ Elsewhere
    \/ Connect \/ StartRuns

-------------------------------------------------------------------------------
(* The topology task *)

\* Both locks are taken here and held until Publish.  The players that are new
\* are added first.
Handle ==
    /\ taskPc = "idle" /\ ~lagged /\ buffer # <<>>
    /\ Head(buffer).groups
    /\ buffer' = Tail(buffer)
    /\ taskPc' = "handling" /\ update' = Head(buffer).response
    /\ players' = players \cup update'.players
    /\ told' = told \cup (update'.players \ players)
    /\ leaving' = players \ update'.players
    /\ UNCHANGED <<speaker, life, begun, lagged, early, topology>>

\* Mutant: the task ends at an event it does not know.
MutStop ==
    /\ taskPc = "idle" /\ ~lagged /\ buffer # <<>>
    /\ ~Head(buffer).groups
    /\ taskPc' = "ended"
    /\ UNCHANGED <<speaker, life, begun, stream, update, leaving, shared>>

Ignore ==
    /\ taskPc = "idle" /\ ~lagged /\ buffer # <<>>
    /\ ~Head(buffer).groups
    /\ buffer' = Tail(buffer)
    /\ UNCHANGED <<speaker, life, begun, lagged, early, handler, shared>>

\* Mutant: removals are reported before the map is changed, and it is not.
MutReportOnly(p) ==
    /\ taskPc = "handling" /\ p \in leaving
    /\ leaving' = leaving \ {p} /\ told' = told \ {p}
    /\ UNCHANGED <<speaker, life, begun, stream, taskPc, update, players, topology>>

\* A player is removed and disconnected, which takes its time, and reported.
Remove(p) ==
    /\ taskPc = "handling" /\ p \in leaving
    /\ leaving' = leaving \ {p}
    /\ players' = players \ {p} /\ told' = told \ {p}
    /\ UNCHANGED <<speaker, life, begun, stream, taskPc, update, topology>>

Publish ==
    /\ taskPc = "handling" /\ leaving = {}
    /\ topology' = update
    /\ taskPc' = "idle"
    /\ UNCHANGED <<speaker, life, begun, stream, update, leaving, players, told>>

\* recv() fails: the task takes lost events for a closed channel.
TaskEnds ==
    /\ taskPc = "idle" /\ lagged
    /\ taskPc' = "ended" /\ buffer' = <<>>
    /\ UNCHANGED <<speaker, life, begun, lagged, early, update, leaving, shared>>

TaskRuns == Handle \/ Ignore \/ (\E p \in Ids : Remove(p)) \/ Publish \/ TaskEnds

-------------------------------------------------------------------------------
\* All that the topology task has no part in.
Outside ==
    \/ \E t \in Topologies : Change(t)
    \/ FirstEvent \/ Notify \/ LinkMoves
    \/ Discovers /\ Elsewhere
    \/ Connect \/ StartRuns

Next == Outside \/ TaskRuns

Spec == Init /\ [][Next]_vars

\* What the task does without a call that may stall with a socket, as the disconnect of
\* a player that is removed may (UpdateReturns of Removal).
TaskGoesOn == Handle \/ Ignore \/ Publish \/ TaskEnds

\* The runtime polls the task and the start, whose waits have deadlines, and time
\* passes; the speaker sends the event it owes.  Nothing is assumed of the link, nor of
\* the connections of the players that are removed.
FairSpec ==
    /\ Spec
    /\ WF_vars(Starts) /\ WF_vars(TaskGoesOn) /\ WF_vars(FirstEvent)

-------------------------------------------------------------------------------
(* Properties *)

\* Every cell has a value of its type, and an unread stream keeps its bound.
TypeOK ==
    /\ household \in Topologies /\ changes \in 0 .. MaxChanges
    /\ subscribed \in BOOLEAN /\ owed \in BOOLEAN /\ lagged \in BOOLEAN /\ early \in BOOLEAN
    /\ life \in Lives
    /\ startPc \in {"browsing", "found", "waiting", "subscribing", "answered", "running",
                    "failed"}
    /\ found \in Seq(DiscoveredPlayers) /\ Len(found) <= Cardinality(Uuids)
    /\ late \in BOOLEAN /\ first \in DiscoveredPlayers
    /\ householdId \in {Ours, Theirs, Missing}
    /\ buffer \in Seq([groups : BOOLEAN, response : Topologies]) /\ Len(buffer) <= Capacity
    /\ taskPc \in {"none", "idle", "handling", "ended"}
    /\ update \in Topologies /\ topology \in Topologies
    /\ leaving \subseteq Ids /\ players \subseteq Ids /\ told \subseteq Ids

\* Whoever gets the locks between two updates finds players and topology about
\* the same household, and one who added up the events knows it as well:
\* whatever updates came in, at whatever point the task ended.
ViewsAgree ==
    taskPc # "handling" => players = topology.players /\ told = players

\* What keeps the system from hearing of the household: the link the
\* subscription was made on is lost, events were lost, or the last groups event
\* came before the task listened (lines 111 to 219).
Deaf == ~subscribed \/ lagged \/ early

\* The task waits for the disconnect of a player (line 304), with its locks held.
Removing == leaving # {}

\* A running system shows the household as it is, unless it is deaf or a removal
\* stalls: no update is left behind by the ones that follow it or by the link's own
\* events.
CatchesUp == startPc = "running" ~> topology = household \/ Deaf \/ []Removing

\* start() ends however often the daemon repeats itself and whatever becomes of the
\* connection.
StartReturns == startPc = "browsing" ~> startPc \in {"running", "failed"}

\* "The one connection used for topology subscription (kept alive)" (line 34): while it
\* is up, the topology follows the household, as long as no event is lost, the task
\* heard the last one, and no removal stalls.
UpdatesResume ==
    startPc = "running" ~>
        topology = household \/ life.stage # "up" \/ lagged \/ early \/ []Removing
===============================================================================
