--------------------------------- MODULE Client ---------------------------------
(***************************************************************************)
(* A client of SonosSystem as the repository writes them                   *)
(* (examples/subscribe.rs): it listens to the system events and keeps a    *)
(* connected Player for the coordinator of each group of the last          *)
(* topology.  The calls of Player are seen from outside: they succeed or   *)
(* fail.                                                                   *)
(***************************************************************************)
EXTENDS Topology

CONSTANT NewsCapacity      \* of the broadcast channel of system events (64 in the code)

ASSUME ClientCapacity == NewsCapacity \in Nat \ {0}

VARIABLES
    made,          \* made[p]: the Player objects made for p so far; the last is in the map
    clientPc,      \* start, listen, visit, connect
    news,          \* system events the client has not received
    behind,        \* some were lost, of which recv() has not told yet
    visit,         \* coordinators of the topology received, still to look at
    current,       \* all of them
    coordinators,  \* coordinators[p]: the Player object kept for p, 0 for none
    fetched,       \* the Player it connects to
    failed,        \* history: coordinators it could not get hold of this time
    unheard,       \* history: the last topology came before the client listened
    lost           \* history: topologies were lost

loop    == <<clientPc, visit, current, coordinators, fetched, failed>>
inbox   == <<news, behind, unheard, lost>>
client  == <<made, loop, inbox>>

Updated(t) == [update |-> TRUE, topology |-> t]
PlayerNews == [update |-> FALSE, topology |-> Empty]
Nobody     == [player |-> "none", object |-> 0]

ClientInit ==
    /\ Init
    /\ made = [p \in Ids |-> 0]
    /\ clientPc = "start" /\ news = <<>> /\ behind = FALSE
    /\ visit = {} /\ current = {} /\ coordinators = [p \in Ids |-> 0]
    /\ fetched = Nobody /\ failed = {} /\ unheard = FALSE /\ lost = FALSE

\* System events are sent: a full channel loses its oldest ones.
Send(es) ==
    IF clientPc = "start"
    THEN /\ unheard' = (unheard \/ \E i \in DOMAIN es : es[i].update)
         /\ UNCHANGED <<news, behind, lost>>
    ELSE LET all == news \o es
             over == Max({0, Len(all) - NewsCapacity})
         IN /\ news' = SubSeq(all, over + 1, Len(all))
            /\ behind' = (behind \/ over > 0)
            /\ lost' = (lost \/ \E i \in 1 .. over : all[i].update)
            /\ unheard' = (unheard /\ \A i \in DOMAIN es : ~es[i].update)
-------------------------------------------------------------------------------
(* What the topology task does, seen with its events and its Player objects *)

AddPlayers ==
    /\ Handle
    /\ LET added == players' \ players IN
       /\ made' = [p \in Ids |-> IF p \in added THEN made[p] + 1 ELSE made[p]]
       /\ Send([i \in 1 .. Cardinality(added) |-> PlayerNews])
    /\ UNCHANGED loop

RemovePlayer(p) == Remove(p) /\ Send(<<PlayerNews>>) /\ UNCHANGED <<made, loop>>

TellTopology == Publish /\ Send(<<Updated(update)>>) /\ UNCHANGED <<made, loop>>

SystemMoves ==
    \/ AddPlayers \/ TellTopology \/ \E p \in Ids : RemovePlayer(p)
    \/ (Ignore \/ TaskEnds) /\ UNCHANGED client
-------------------------------------------------------------------------------
(* The client *)

\* start() has returned and, a moment later, events() is called.
Listen ==
    /\ clientPc = "start" /\ startPc = "running"
    /\ clientPc' = "listen"
    /\ UNCHANGED <<vars, made, inbox, visit, current, coordinators, fetched, failed>>

\* Mutant: a receiver that lags is taken for a closed one.
MutGiveUp ==
    /\ clientPc = "listen" /\ behind
    /\ behind' = FALSE /\ news' = <<>> /\ clientPc' = "ended"
    /\ UNCHANGED <<vars, made, unheard, lost, visit, current, coordinators, fetched, failed>>

\* recv() says that events were lost: the branch is off for this turn of select!.
Lagged ==
    /\ clientPc = "listen" /\ behind
    /\ behind' = FALSE
    /\ UNCHANGED <<vars, made, loop, news, unheard, lost>>

ReceivePlayerNews ==
    /\ clientPc = "listen" /\ ~behind /\ news # <<>> /\ ~Head(news).update
    /\ news' = Tail(news)
    /\ UNCHANGED <<vars, made, loop, behind, unheard, lost>>

ReceiveTopology ==
    /\ clientPc = "listen" /\ ~behind /\ news # <<>> /\ Head(news).update
    /\ news' = Tail(news)
    /\ clientPc' = "visit"
    /\ current' = Head(news).topology.coordinators /\ visit' = current'
    /\ failed' = {}
    /\ UNCHANGED <<vars, made, behind, unheard, lost, coordinators, fetched>>

\* get_player() gets the lock: no update holds it.
CanRead == taskPc # "handling"

\* A group in turn.  Its coordinator is kept already; or it is looked up, for which
\* the task must not hold the locks, and found or not.
Visit(p) ==
    /\ clientPc = "visit" /\ p \in visit
    /\ visit' = visit \ {p}
    /\ \/ coordinators[p] # 0 /\ UNCHANGED <<clientPc, fetched, failed>>
       \/ /\ coordinators[p] = 0 /\ CanRead /\ p \in players
          /\ clientPc' = "connect"
          /\ fetched' = [player |-> p, object |-> made[p]]
          /\ UNCHANGED failed
       \/ /\ coordinators[p] = 0 /\ CanRead /\ p \notin players
          /\ failed' = failed \cup {p}
          /\ UNCHANGED <<clientPc, fetched>>
    /\ UNCHANGED <<vars, made, inbox, current, coordinators>>

\* connect and subscribe_all succeed, or one of them fails; much can happen in between.
Connected ==
    /\ clientPc = "connect" /\ clientPc' = "visit"
    /\ fetched' = Nobody
    /\ \/ /\ coordinators' = [coordinators EXCEPT ![fetched.player] = fetched.object]
          /\ UNCHANGED failed
       \/ /\ failed' = failed \cup {fetched.player}
          /\ UNCHANGED coordinators
    /\ UNCHANGED <<vars, made, inbox, visit, current>>

\* Mutant: nothing is removed.
MutRetain ==
    /\ clientPc = "visit" /\ visit = {}
    /\ clientPc' = "listen" /\ current' = {}
    /\ UNCHANGED <<vars, made, inbox, visit, coordinators, fetched, failed>>

\* Whoever coordinates no group any more is dropped, and not disconnected.
Retain ==
    /\ clientPc = "visit" /\ visit = {}
    /\ coordinators' = [p \in Ids |-> IF p \in current THEN coordinators[p] ELSE 0]
    /\ clientPc' = "listen" /\ current' = {}
    /\ UNCHANGED <<vars, made, inbox, visit, fetched, failed>>

Listens ==
    \/ Lagged \/ ReceivePlayerNews \/ ReceiveTopology
    \/ (\E p \in Ids : Visit(p)) \/ Connected \/ Retain
-------------------------------------------------------------------------------
ClientNext ==
    \/ SystemMoves \/ Listen \/ Listens
    \/ Outside /\ UNCHANGED client

clientVars == <<vars, client>>
ClientSpec == ClientInit /\ [][ClientNext]_clientVars

\* What the task and the client do without a call that may stall with a socket.
SystemGoesOn == AddPlayers \/ TellTopology \/ ((Ignore \/ TaskEnds) /\ UNCHANGED client)
ClientGoesOn == Lagged \/ ReceivePlayerNews \/ ReceiveTopology \/ (\E p \in Ids : Visit(p)) \/ Retain

\* As FairSpec.  Nothing is assumed of the players the client connects to.
ClientFairSpec ==
    /\ ClientSpec
    /\ WF_clientVars(Starts /\ UNCHANGED client)
    /\ WF_clientVars(FirstEvent /\ UNCHANGED client)
    /\ WF_clientVars(SystemGoesOn) /\ WF_clientVars(Listen) /\ WF_clientVars(ClientGoesOn)
-------------------------------------------------------------------------------
(* Properties *)

\* What it keeps, and what it could not get hold of: the coordinators it knows of.
Known == {p \in Ids : coordinators[p] # 0} \cup failed

\* A client that has read all its news, none of which was lost, keeps the very
\* Player objects that are in the map: none of a player that left, or that left and
\* came back as a new object while the client was connecting the old one.
KeptIsCurrent ==
    clientPc = "listen" /\ news = <<>> /\ taskPc # "handling" /\ ~lost
        => \A p \in Ids : coordinators[p] # 0 => p \in players /\ coordinators[p] = made[p]

\* The client ends up with the coordinators of the household, whatever was lost of
\* its news: the last topology never is.  It does not when the system is deaf, when
\* the last topology came between start() and events() (lines 28 to 36), or when a
\* removal, or the client's connect or subscribe_all, stalls.
ClientLearns ==
    clientPc # "start" ~>
        \/ Known = household.coordinators \/ Deaf \/ unheard
        \/ []Removing \/ [](clientPc = "connect")
===============================================================================
