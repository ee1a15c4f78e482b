----------------------------- MODULE TopologyProofs -----------------------------
(***************************************************************************)
(* Theorems about Topology: between two updates the players map, the       *)
(* topology and the events agree, and a player that names its household is *)
(* asked for that one; and about Client: what it keeps is current.         *)
(***************************************************************************)
EXTENDS Client, FiniteSetTheorems, SequenceTheorems, TLAPS

\* While an update is handled, the map holds the new players and those of the old
\* ones that have still to leave.
UpdateInv ==
    /\ startPc # "running" => taskPc = "none"
    /\ taskPc = "handling" =>
          /\ told = players /\ leaving \subseteq players
          /\ players \ leaving = update.players
    /\ ViewsAgree

\* What is not the task's leaves its cells alone, or starts it.
LEMMA OutsideKeeps ==
  ASSUME Outside
  PROVE  /\ UNCHANGED <<update, leaving, shared>>
         /\ \/ UNCHANGED taskPc /\ (startPc' = "running" <=> startPc = "running")
            \/ startPc = "answered" /\ startPc' = "running" /\ taskPc' = "idle"
<1> USE DEF Outside, handler, shared, begun, speaker, stream
<1>1. ASSUME NEW t \in Topologies, Change(t)  PROVE UNCHANGED <<begun, handler, shared>>
  BY Zenon, <1>1 DEF Change
<1>2. ASSUME FirstEvent \/ Notify \/ LinkMoves  PROVE UNCHANGED <<begun, handler, shared>>
  BY Zenon, <1>2 DEF FirstEvent, Notify, LinkMoves
<1>3. CASE Discovers /\ Elsewhere
  BY <1>3 DEF Discovers, Elsewhere, Deadline, Browsed, NothingFound, Resolved, StartMoves
<1>4. CASE Connect
  BY <1>4 DEF Connect, StartMoves
<1>5. CASE WaitOver \/ StartFails \/ Subscribe
  BY <1>5 DEF WaitOver, StartFails, Subscribe, StartMoves, discovery
<1>6. CASE SpawnTask
  BY <1>6 DEF SpawnTask, StartMoves
<1> QED BY <1>1, <1>2, <1>3, <1>4, <1>5, <1>6 DEF StartRuns

\* Before the first update, everything is empty.
LEMMA UpdateInit == Init => UpdateInv
  BY DEF Init, DiscoveryInit, UpdateInv, ViewsAgree, Empty

\* The update opens what is to be told of, each removal takes one out of it, and the
\* publication finds it empty.
LEMMA UpdateKeeps ==
  ASSUME UpdateInv, [Next]_vars
  PROVE  UpdateInv'
<1> USE DEF UpdateInv, ViewsAgree
<1>1. CASE Outside
  BY <1>1, OutsideKeeps DEF shared
<1>2. CASE Handle
  BY <1>2 DEF Handle, begun
<1>3. CASE Ignore
  BY <1>3 DEF Ignore, begun, handler, shared
<1>4. ASSUME NEW p \in Ids, Remove(p)  PROVE UpdateInv'
  BY <1>4 DEF Remove, begun
<1>5. CASE Publish
  BY <1>5 DEF Publish, begun
<1>6. CASE TaskEnds
  BY <1>6 DEF TaskEnds, begun, shared
<1>7. CASE UNCHANGED vars
  BY <1>7 DEF vars, begun, handler, shared
<1> QED BY <1>1, <1>2, <1>3, <1>4, <1>5, <1>6, <1>7 DEF Next, TaskRuns

\* Whoever gets the locks between two updates finds players, topology and events
\* about the same household, for any number of players and changes, wherever the
\* link and the buffer lose events.
THEOREM TopologyViewsAgree == Spec => []ViewsAgree
<1>1. UpdateInv /\ [Next]_vars => UpdateInv'
  BY UpdateKeeps
<1>2. UpdateInv => ViewsAgree
  BY DEF UpdateInv
<1> QED BY UpdateInit, <1>1, <1>2, PTL DEF Spec

-------------------------------------------------------------------------------
(* Types *)

\* What was found are players with a uuid, none twice.
Distinct ==
    /\ found \in Seq(DiscoveredPlayers)
    /\ \A i \in 1 .. Len(found) : found[i].uuid \in Uuids
    /\ \A i, j \in 1 .. Len(found) : found[i].uuid = found[j].uuid => i = j

Responses == [groups : BOOLEAN, response : Topologies]

\* The cells of the discovery, of the stream and the task.
DiscoveryTyped ==
    /\ startPc \in {"browsing", "found", "waiting", "subscribing", "answered", "running",
                    "failed"}
    /\ Distinct /\ late \in BOOLEAN /\ first \in DiscoveredPlayers
    /\ householdId \in {Ours, Theirs, Missing}

StreamTyped ==
    /\ buffer \in Seq(Responses) /\ Len(buffer) <= Capacity
    /\ lagged \in BOOLEAN /\ early \in BOOLEAN

TaskTyped ==
    /\ taskPc \in {"none", "idle", "handling", "ended"}
    /\ update \in Topologies /\ topology \in Topologies
    /\ leaving \subseteq Ids /\ players \subseteq Ids /\ told \subseteq Ids

SpeakerTyped ==
    /\ household \in Topologies /\ changes \in 0 .. MaxChanges
    /\ subscribed \in BOOLEAN /\ owed \in BOOLEAN /\ life \in Lives

SystemTyped == DiscoveryTyped /\ StreamTyped /\ TaskTyped /\ SpeakerTyped

\* No more players are found than there are.
LEMMA FoundBound ==
  ASSUME Distinct
  PROVE  Len(found) \in Nat /\ Len(found) <= Cardinality(Uuids)
<1> DEFINE f == [i \in 1 .. Len(found) |-> found[i].uuid]
<1>1. Len(found) \in Nat
  BY LenProperties DEF Distinct
<1>2. f \in Injection(1 .. Len(found), Uuids)
  BY DEF Distinct, Injection, IsInjective
<1>3. Cardinality(1 .. Len(found)) = Len(found)
  BY <1>1, FS_Interval
<1> QED BY <1>1, <1>2, <1>3, FS_Injection, DiscoveryUuids

\* A set of numbers that is not empty has a least one.
LEMMA LeastNumber ==
  ASSUME NEW T, T \subseteq Nat, T # {}
  PROVE  Min(T) \in T
<1>1. \E x \in T : \A y \in T : x <= y
  <2>1. PICK x \in T : \A y \in T : <<y, x>> \notin OpToRel(<, Nat)
    <3> HIDE DEF OpToRel
    <3> QED BY NatLessThanWellFounded, WFMin
  <2>2. \A y \in T : x \in Nat /\ y \in Nat /\ ~(y < x)
    BY <2>1 DEF OpToRel
  <2>3. \A y \in T : x <= y
    BY <2>2
  <2> QED BY <2>3
<1> QED BY <1>1 DEF Min

\* The next life is a life.
LEMMA LivesGoOn ==
  ASSUME life \in Lives
  PROVE  Spawned(life) \in Lives /\ \A s \in Steps(life) : s.life \in Lives
<1> DEFINE l == life
           step(b, e, m) == IF b THEN {[event |-> e, life |-> m]} ELSE {}
<1>1. Spawned(l) \in Lives
  BY DEF Lives, Spawned
<1>2. /\ [l EXCEPT !.stage = "up", !.state = "Connected"] \in Lives
      /\ [l EXCEPT !.stage = Parked(l), !.state = "Reconnecting"] \in Lives
      /\ [l EXCEPT !.stage = "down"] \in Lives /\ [l EXCEPT !.stage = Parked(l)] \in Lives
      /\ [l EXCEPT !.stage = "over"] \in Lives
  BY DEF Lives, Parked
<1>3. \A b, e : \A m \in Lives : \A s \in step(b, e, m) : s.life \in Lives
  OBVIOUS
<1>4. Steps(l) = step(l.stage = "dialing", "Connected",
                      [l EXCEPT !.stage = "up", !.state = "Connected"])
        \cup step(l.stage = "dialing", "Reconnecting",
                  [l EXCEPT !.stage = Parked(l), !.state = "Reconnecting"])
        \cup step(l.stage = "up", "Disconnected", [l EXCEPT !.stage = "down"])
        \cup step(l.stage = "down", "none", [l EXCEPT !.stage = Parked(l)])
        \cup step(l.aborted /\ l.stage # "over", "none", [l EXCEPT !.stage = "over"])
  BY DEF Steps
<1> HIDE DEF step
<1> QED BY <1>1, <1>2, <1>3, <1>4

\* A broadcast keeps the bound of the channel.
LEMMA BroadcastTyped ==
  ASSUME StreamTyped, NEW e \in Responses, Broadcast(e) \/ UNCHANGED stream
  PROVE  StreamTyped'
<1> USE DEF StreamTyped
<1>1. Len(buffer) \in Nat /\ e.groups \in BOOLEAN
  BY LenProperties DEF Responses
<1>2. CASE UNCHANGED stream
  BY <1>2 DEF stream
<1>3. CASE Broadcast(e) /\ Listening
  <2>1. lagged' \in BOOLEAN /\ early' \in BOOLEAN
    BY <1>1, <1>3 DEF Broadcast
  <2>2. CASE Len(buffer) = Capacity
    <3>1. /\ buffer' = Append(Tail(buffer), e) /\ buffer # <<>>
      BY <1>3, <2>2, TopologyCapacity DEF Broadcast
    <3>2. Tail(buffer) \in Seq(Responses) /\ Len(Tail(buffer)) = Len(buffer) - 1
      BY <3>1, HeadTailProperties
    <3>3. buffer' \in Seq(Responses) /\ Len(buffer') = Len(Tail(buffer)) + 1
      BY <3>1, <3>2, AppendProperties
    <3> QED BY <1>1, <2>1, <2>2, <3>2, <3>3
  <2>3. CASE Len(buffer) # Capacity
    <3>1. buffer' = Append(buffer, e)
      BY <1>3, <2>3 DEF Broadcast
    <3>2. buffer' \in Seq(Responses) /\ Len(buffer') = Len(buffer) + 1
      BY <3>1, AppendProperties
    <3> QED BY <1>1, <2>1, <2>3, <3>2, TopologyCapacity
  <2> QED BY <2>2, <2>3
<1>4. CASE Broadcast(e) /\ ~Listening
  BY <1>1, <1>4 DEF Broadcast
<1> QED BY <1>2, <1>3, <1>4

\* The discovery keeps its types, and finds no player twice.
LEMMA DiscoversTyped ==
  ASSUME DiscoveryTyped, Discovers \/ Connect \/ StartRuns
  PROVE  DiscoveryTyped'
<1> USE DEF DiscoveryTyped, Distinct
<1>1. NoPlayer \in DiscoveredPlayers
  BY DiscoveryMissing DEF NoPlayer, DiscoveredPlayers
<1>2. CASE Deadline \/ Browsed \/ NothingFound
  BY <1>2 DEF Deadline, Browsed, NothingFound, StartMoves, discovery
<1>3. ASSUME NEW p \in DiscoveredPlayers, Resolved(p)
      PROVE  DiscoveryTyped'
  <2>1. CASE p.uuid = Missing \/ \E i \in DOMAIN found : found[i].uuid = p.uuid
    BY <1>3, <2>1 DEF Resolved
  <2>2. CASE ~(p.uuid = Missing \/ \E i \in DOMAIN found : found[i].uuid = p.uuid)
    <3>1. found' = Append(found, p) /\ UNCHANGED <<startPc, late, first, householdId>>
      BY <1>3, <2>2 DEF Resolved
    <3>2. /\ found' \in Seq(DiscoveredPlayers) /\ Len(found') = Len(found) + 1
          /\ \A i \in 1 .. Len(found) : found'[i] = found[i]
          /\ found'[Len(found) + 1] = p
      BY <3>1, AppendProperties
    <3>3. p.uuid \in Uuids /\ Len(found) \in Nat /\ DOMAIN found = 1 .. Len(found)
      BY <2>2, LenProperties DEF DiscoveredPlayers
    <3> QED BY <2>2, <3>1, <3>2, <3>3
  <2> QED BY <2>1, <2>2
<1>4. CASE Connect
  <2>1. found' = <<>> /\ late' = FALSE /\ first' = found[1] /\ found # <<>> /\ startPc' = "waiting"
    BY <1>4 DEF Connect, Choose, StartMoves
  <2>2. found[1] \in DiscoveredPlayers /\ DOMAIN found = 1 .. Len(found)
    BY <2>1, LenProperties, EmptySeq
  <2>3. householdId' \in {Ours, Theirs, Missing}
    <3> DEFINE named == {i \in DOMAIN found : found[i].mhhid # Missing}
    <3>1. CASE named = {}
      BY <1>4, <3>1 DEF Connect, Choose
    <3>2. CASE named # {}
      <4>1. householdId' = found[Min(named)].mhhid
        BY <1>4, <3>2 DEF Connect, Choose
      <4>2. Min(named) \in named
        <5>1. named \subseteq Nat
          BY <2>2
        <5> HIDE DEF named
        <5> QED BY <3>2, <5>1, LeastNumber
      <4>3. found[Min(named)] \in DiscoveredPlayers
        BY <2>2, <4>2
      <4> QED BY <4>1, <4>3 DEF DiscoveredPlayers
    <3> QED BY <3>1, <3>2
  <2>4. Len(found') = 0 /\ found' \in Seq(DiscoveredPlayers) /\ \A i \in 1 .. 0 : FALSE
    BY <2>1, EmptySeq
  <2>5. Distinct'
    BY <2>4
  <2> HIDE DEF Distinct
  <2> QED BY <2>1, <2>2, <2>3, <2>5
<1>5. CASE WaitOver \/ StartFails \/ Subscribe
  BY <1>5 DEF WaitOver, StartFails, Subscribe, StartMoves, discovery
<1>6. CASE SpawnTask
  BY <1>1, <1>6 DEF SpawnTask, StartMoves
<1> QED BY <1>2, <1>3, <1>4, <1>5, <1>6 DEF Discovers, StartRuns

\* The update in hand came over the stream.
LEMMA TaskKeepsTypes ==
  ASSUME SystemTyped, TaskRuns
  PROVE  SystemTyped'
<1> USE DEF SystemTyped, StreamTyped, TaskTyped
<1>1. UNCHANGED <<speaker, life, begun, lagged, early>>
  BY Zenon DEF TaskRuns, Handle, Ignore, Remove, Publish, TaskEnds, stream
<1>2. DiscoveryTyped' /\ SpeakerTyped'
  BY <1>1 DEF DiscoveryTyped, Distinct, SpeakerTyped, speaker, begun, discovery
<1>3. buffer # <<>> =>
         /\ Tail(buffer) \in Seq(Responses) /\ Len(Tail(buffer)) <= Capacity
         /\ Head(buffer).response \in Topologies
  <2> SUFFICES ASSUME buffer # <<>>
               PROVE  /\ Tail(buffer) \in Seq(Responses) /\ Len(Tail(buffer)) <= Capacity
                      /\ Head(buffer).response \in Topologies
    OBVIOUS
  <2>1. /\ Tail(buffer) \in Seq(Responses) /\ Len(Tail(buffer)) = Len(buffer) - 1
        /\ Head(buffer) \in Responses /\ Len(buffer) \in Nat
    BY HeadTailProperties, LenProperties
  <2> QED BY <2>1, TopologyCapacity DEF Responses
<1>4. \A t \in Topologies : t.players \subseteq Ids
  BY DEF Topologies
<1>5. CASE Handle
  BY <1>1, <1>2, <1>3, <1>4, <1>5 DEF Handle
<1>6. CASE Ignore
  BY <1>1, <1>2, <1>3, <1>6 DEF Ignore, handler, shared
<1>7. ASSUME NEW p \in Ids, Remove(p)  PROVE SystemTyped'
  BY <1>1, <1>2, <1>7 DEF Remove, stream
<1>8. CASE Publish
  BY <1>1, <1>2, <1>8 DEF Publish, stream
<1>9. CASE TaskEnds
  <2>1. buffer' \in Seq(Responses) /\ Len(buffer') <= Capacity
    BY <1>9, EmptySeq, TopologyCapacity DEF TaskEnds
  <2> QED BY <1>1, <1>2, <1>9, <2>1 DEF TaskEnds, shared
<1> QED BY <1>5, <1>6, <1>7, <1>8, <1>9 DEF TaskRuns

\* What is not the task's broadcasts responses at most.
LEMMA OutsideKeepsTypes ==
  ASSUME SystemTyped, Outside
  PROVE  SystemTyped'
<1> USE DEF SystemTyped
<1>1. TaskTyped'
  <2>1. /\ UNCHANGED <<update, leaving, players, topology, told>>
        /\ UNCHANGED taskPc \/ taskPc' = "idle"
    BY OutsideKeeps DEF shared
  <2> QED BY <2>1 DEF TaskTyped
<1>2. Other \in Responses /\ \A t \in Topologies : Groups(t) \in Responses
  BY DEF Other, Groups, Responses, Empty, Topologies
<1>3. ASSUME NEW t \in Topologies, Change(t)  PROVE SystemTyped'
  <2>1. StreamTyped'
    <3>1. \E e \in Responses : Broadcast(e) \/ UNCHANGED stream
      BY <1>2, <1>3 DEF Change
    <3> QED BY <3>1, BroadcastTyped
  <2>2. DiscoveryTyped'
    BY <1>3 DEF Change, DiscoveryTyped, Distinct, begun, discovery
  <2>3. SpeakerTyped'
    BY <1>3, TopologyChanges DEF Change, SpeakerTyped
  <2> QED BY <1>1, <2>1, <2>2, <2>3
<1>4. CASE FirstEvent \/ Notify \/ LinkMoves
  <2>1. StreamTyped'
    <3>1. \E e \in Responses : Broadcast(e) \/ UNCHANGED stream
      <4>1. household \in Topologies
        BY DEF SpeakerTyped
      <4> QED BY <1>2, <1>4, <4>1 DEF FirstEvent, Notify, LinkMoves
    <3> QED BY <3>1, BroadcastTyped
  <2>2. DiscoveryTyped'
    BY <1>4 DEF FirstEvent, Notify, LinkMoves, DiscoveryTyped, Distinct, begun, discovery
  <2>3. SpeakerTyped'
    <3>1. life' \in Lives
      BY <1>4, LivesGoOn DEF FirstEvent, Notify, LinkMoves, SpeakerTyped
    <3>2. UNCHANGED <<household, changes>> /\ subscribed' \in BOOLEAN /\ owed' \in BOOLEAN
      BY <1>4 DEF FirstEvent, Notify, LinkMoves, SpeakerTyped, speaker
    <3> QED BY <3>1, <3>2 DEF SpeakerTyped
  <2> QED BY <1>1, <2>1, <2>2, <2>3
<1>5. CASE (Discovers /\ Elsewhere) \/ Connect \/ StartRuns
  <2>1. UNCHANGED stream /\ UNCHANGED <<household, changes>>
    BY <1>5 DEF Elsewhere, Connect, StartRuns, WaitOver, StartFails, Subscribe, SpawnTask, speaker
  <2>2. StreamTyped'
    BY <2>1 DEF StreamTyped, stream
  <2>3. DiscoveryTyped'
    BY <1>5, DiscoversTyped
  <2>4. life' \in Lives
    BY <1>5, LivesGoOn DEF Elsewhere, Connect, StartRuns, WaitOver, StartFails, Subscribe,
       SpawnTask, SpeakerTyped
  <2>5. subscribed' \in BOOLEAN /\ owed' \in BOOLEAN
    BY <1>5 DEF Elsewhere, Connect, StartRuns, WaitOver, StartFails, Subscribe, SpawnTask,
       speaker, SpeakerTyped
  <2> QED BY <1>1, <2>1, <2>2, <2>3, <2>4, <2>5 DEF SpeakerTyped
<1> QED BY <1>3, <1>4, <1>5 DEF Outside

\* The types hold at the start.
LEMMA TypedInit == Init => SystemTyped
<1> SUFFICES ASSUME Init  PROVE SystemTyped
  OBVIOUS
<1>1. Empty \in Topologies
  BY DEF Empty, Topologies
<1>2. DiscoveryTyped
  <2>1. NoPlayer \in DiscoveredPlayers
    BY DiscoveryMissing DEF NoPlayer, DiscoveredPlayers
  <2>2. Distinct
    <3>1. found \in Seq(DiscoveredPlayers) /\ Len(found) = 0
      BY EmptySeq DEF Init, DiscoveryInit
    <3> QED BY <3>1 DEF Distinct
  <2> QED BY <2>1, <2>2 DEF Init, DiscoveryInit, DiscoveryTyped
<1>3. StreamTyped
  <2>1. /\ buffer = <<>> /\ <<>> \in Seq(Responses) /\ Len(buffer) = 0
        /\ lagged \in BOOLEAN /\ early \in BOOLEAN
    BY EmptySeq DEF Init
  <2> QED BY <2>1, TopologyCapacity DEF StreamTyped
<1>4. TaskTyped
  BY <1>1 DEF Init, TaskTyped
<1>5. SpeakerTyped
  <2>1. life \in Lives
    BY DEF Init, NewLife, Lives
  <2>2. changes = 0 /\ 0 \in 0 .. MaxChanges
    BY TopologyChanges DEF Init
  <2> QED BY <2>1, <2>2 DEF Init, SpeakerTyped
<1> QED BY <1>2, <1>3, <1>4, <1>5 DEF SystemTyped

\* Every step keeps the types.
LEMMA TypedKeeps ==
  ASSUME SystemTyped, [Next]_vars
  PROVE  SystemTyped'
<1>1. CASE UNCHANGED vars
  <2>1. UNCHANGED vars
    BY <1>1
  <2> QED BY <2>1 DEF SystemTyped, DiscoveryTyped, Distinct, StreamTyped, TaskTyped, SpeakerTyped,
     vars, speaker, begun, discovery, stream, handler, shared
<1> QED BY <1>1, OutsideKeepsTypes, TaskKeepsTypes DEF Next

\* Every cell of the system has a value of its type, for any number of players: the
\* discovery ends with no more players than there are, however often the daemon repeats
\* itself, and the stream never holds more than the channel.
THEOREM TopologyTypeCorrect == Spec => []TypeOK
<1>1. SystemTyped => TypeOK
  BY FoundBound DEF SystemTyped, DiscoveryTyped, Distinct, StreamTyped, TaskTyped, SpeakerTyped,
     TypeOK, Responses
<1>2. SystemTyped /\ [Next]_vars => SystemTyped'
  BY TypedKeeps
<1> QED BY TypedInit, <1>1, <1>2, PTL DEF Spec

-------------------------------------------------------------------------------
(* The client: what it keeps is current *)

NewsItems == [update : BOOLEAN, topology : Topologies]

ClientTyped ==
    /\ clientPc \in {"start", "listen", "visit", "connect"}
    /\ news \in Seq(NewsItems)
    /\ visit \subseteq current /\ current \subseteq Ids
    /\ made \in [Ids -> Nat] /\ coordinators \in [Ids -> Nat]
    /\ clientPc = "connect" => fetched \in [player : current, object : Nat]
    /\ clientPc = "start" => \A p \in Ids : coordinators[p] = 0

\* A topology without p is on its way to the client; the task is about to send one;
\* or the object o is the one in the map.
Pending(p) ==
    \E i \in 1 .. Len(news) : news[i].update /\ p \notin news[i].topology.coordinators
Leaves(p) == taskPc = "handling" /\ p \notin update.players
Accounted(p, o) == (p \in players /\ o = made[p]) \/ Leaves(p) \/ Pending(p)

\* What the client keeps is accounted for, or it is about to drop it.
KeptInv ==
    ~lost => \A p \in Ids :
        /\ coordinators[p] # 0 => \/ Accounted(p, coordinators[p])
                                  \/ clientPc \in {"visit", "connect"} /\ p \notin current
        /\ clientPc = "connect" /\ fetched.player = p => Accounted(p, fetched.object)

\* The larger of 0 and x.
LEMMA MaxOfTwo ==
  ASSUME NEW x \in Int
  PROVE  Max({0, x}) = IF x >= 0 THEN x ELSE 0
<1> DEFINE m == IF x >= 0 THEN x ELSE 0
<1>1. m \in {0, x} /\ \A y \in {0, x} : m >= y
  OBVIOUS
<1>2. \A z \in {0, x} : (\A y \in {0, x} : z >= y) => z = m
  OBVIOUS
<1> HIDE DEF m
<1>3. Max({0, x}) = m
  BY <1>1, <1>2 DEF Max
<1> QED BY <1>3 DEF m

\* What is sent reaches the news, unless topologies are lost.
LEMMA SendKeeps ==
  ASSUME ClientTyped, NEW es \in Seq(NewsItems), Send(es)
  PROVE  /\ news' \in Seq(NewsItems)
         /\ clientPc # "start" /\ ~lost' =>
               /\ ~lost
               /\ \A p : Pending(p) \/ (\E i \in 1 .. Len(es) :
                            es[i].update /\ p \notin es[i].topology.coordinators)
                         => Pending(p)'
<1>1. news \in Seq(NewsItems)
  BY DEF ClientTyped
<1>2. CASE clientPc = "start"
  BY <1>1, <1>2 DEF Send
<1>3. CASE clientPc # "start"
  <2> DEFINE all == news \o es
             over == Max({0, Len(all) - NewsCapacity})
  <2>1. /\ all \in Seq(NewsItems) /\ Len(all) = Len(news) + Len(es)
        /\ Len(news) \in Nat /\ Len(es) \in Nat
        /\ \A i \in 1 .. Len(news) : all[i] = news[i]
        /\ \A i \in 1 .. Len(es) : all[Len(news) + i] = es[i]
    BY <1>1, ConcatProperties, LenProperties
  <2>2. /\ news' = SubSeq(all, over + 1, Len(all))
        /\ ~lost' => ~lost /\ ~\E i \in 1 .. over : all[i].update
    BY <1>3 DEF Send
  <2> HIDE DEF all
  <2>3. over \in 0 .. Len(all) /\ Len(all) \in Nat
    <3>1. Len(all) \in Nat /\ NewsCapacity \in Nat /\ Len(all) - NewsCapacity \in Int
      BY <2>1, ClientCapacity
    <3>2. over = IF Len(all) - NewsCapacity >= 0 THEN Len(all) - NewsCapacity ELSE 0
      BY <3>1, MaxOfTwo
    <3> QED BY <3>1, <3>2
  <2> HIDE DEF over
  <2>4. /\ news' \in Seq(NewsItems) /\ Len(news') = Len(all) - over
        /\ \A i \in 1 .. Len(news') : news'[i] = all[over + i]
    BY <2>1, <2>2, <2>3, SubSeqProperties
  <2>5. ASSUME ~lost', NEW p, NEW k \in 1 .. Len(all),
               all[k].update, p \notin all[k].topology.coordinators
        PROVE  Pending(p)'
    <3>1. k > over
      <4>1. k \notin 1 .. over
        BY <2>2, <2>5
      <4> QED BY <2>3, <4>1
    <3>2. k - over \in 1 .. Len(news') /\ news'[k - over] = all[k]
      BY <2>3, <2>4, <3>1
    <3> QED BY <2>5, <3>2 DEF Pending
  <2>6. ASSUME ~lost', NEW p, Pending(p)  PROVE Pending(p)'
    <3>1. PICK i \in 1 .. Len(news) : news[i].update /\ p \notin news[i].topology.coordinators
      BY <2>6 DEF Pending
    <3>2. i \in 1 .. Len(all) /\ all[i] = news[i]
      BY <2>1
    <3> QED BY <2>5, <2>6, <3>1, <3>2
  <2>7. ASSUME ~lost', NEW p, NEW i \in 1 .. Len(es),
               es[i].update, p \notin es[i].topology.coordinators
        PROVE  Pending(p)'
    <3>1. Len(news) + i \in 1 .. Len(all) /\ all[Len(news) + i] = es[i]
      BY <2>1
    <3> QED BY <2>5, <2>7, <3>1
  <2> QED BY <2>2, <2>4, <2>6, <2>7
<1> QED BY <1>2, <1>3

\* The steps of the system leave the client as it is, and what it keeps accounted for.
LEMMA SystemAccounts ==
  ASSUME SystemTyped, UpdateInv, ClientTyped,
         SystemMoves \/ (Outside /\ UNCHANGED client) \/ UNCHANGED clientVars
  PROVE  /\ UNCHANGED loop /\ made' \in [Ids -> Nat] /\ news' \in Seq(NewsItems)
         /\ clientPc # "start" /\ ~lost' =>
               ~lost /\ \A p \in Ids : \A o : Accounted(p, o) => Accounted(p, o)'
<1> USE DEF loop, client, clientVars
<1>1. made \in [Ids -> Nat] /\ news \in Seq(NewsItems)
  BY DEF ClientTyped
<1>2. update \in Topologies /\ PlayerNews \in NewsItems /\ Updated(update) \in NewsItems
  BY DEF SystemTyped, TaskTyped, PlayerNews, Updated, NewsItems, Empty, Topologies
<1>3. CASE UNCHANGED <<client, players>> /\ ((taskPc = "handling") => UNCHANGED <<taskPc, update>>)
  BY <1>1, <1>3 DEF Accounted, Leaves, Pending, inbox
<1>4. CASE AddPlayers
  <2> DEFINE added == players' \ players
             es == [i \in 1 .. Cardinality(added) |-> PlayerNews]
  <2>1. /\ Handle /\ UNCHANGED loop /\ Send(es)
        /\ made' = [p \in Ids |-> IF p \in added THEN made[p] + 1 ELSE made[p]]
    BY <1>4 DEF AddPlayers
  <2>2. es \in Seq(NewsItems)
    <3>1. players' \subseteq Ids
      BY <2>1, TaskKeepsTypes DEF TaskRuns, SystemTyped, TaskTyped
    <3>2. Cardinality(added) \in Nat
      BY <3>1, TopologyIds, FS_Subset, FS_CardinalityType
    <3> QED BY <1>2, <3>2
  <2>3. \A p \in Ids : p \in players => p \in players' /\ made'[p] = made[p]
    BY <2>1 DEF Handle
  <2>4. made' \in [Ids -> Nat]
    BY <1>1, <2>1
  <2>5. \A p : ~Leaves(p)
    BY <2>1 DEF Handle, Leaves
  <2> QED BY <2>1, <2>2, <2>3, <2>4, <2>5, SendKeeps DEF Accounted
<1>5. ASSUME NEW q \in Ids, RemovePlayer(q)
      PROVE  /\ UNCHANGED loop /\ made' \in [Ids -> Nat] /\ news' \in Seq(NewsItems)
             /\ clientPc # "start" /\ ~lost' =>
                   ~lost /\ \A p \in Ids : \A o : Accounted(p, o) => Accounted(p, o)'
  <2>1. Remove(q) /\ Send(<<PlayerNews>>) /\ UNCHANGED <<made, loop>>
    BY <1>5 DEF RemovePlayer
  <2>2. <<PlayerNews>> \in Seq(NewsItems)
    BY <1>2
  <2>3. /\ taskPc = "handling" /\ players' = players \ {q} /\ UNCHANGED <<taskPc, update>>
        /\ q \notin update.players
    BY <2>1 DEF Remove, UpdateInv
  <2>4. \A p \in Ids : Leaves(p) => Leaves(p)'
    BY <2>3 DEF Leaves
  <2>5. \A p \in Ids : p \in players => p \in players' \/ Leaves(p)'
    BY <2>3 DEF Leaves
  <2> QED BY <1>1, <2>1, <2>2, <2>4, <2>5, SendKeeps DEF Accounted
<1>6. CASE TellTopology
  <2>1. Publish /\ Send(<<Updated(update)>>) /\ UNCHANGED <<made, loop>>
    BY <1>6 DEF TellTopology
  <2>2. <<Updated(update)>> \in Seq(NewsItems) /\ Len(<<Updated(update)>>) = 1
    BY <1>2
  <2>3. UNCHANGED players
    BY <2>1 DEF Publish
  <2>4. \A p : Leaves(p) => \E i \in 1 .. Len(<<Updated(update)>>) :
           LET e == <<Updated(update)>>[i] IN e.update /\ p \notin e.topology.coordinators
    <3>1. update.coordinators \subseteq update.players
      BY <1>2 DEF Topologies
    <3> QED BY <2>2, <3>1 DEF Leaves, Updated
  <2> QED BY <1>1, <2>1, <2>2, <2>3, <2>4, SendKeeps DEF Accounted
<1>7. ASSUME (Ignore \/ TaskEnds) /\ UNCHANGED client
      PROVE  UNCHANGED <<client, players>> /\ taskPc # "handling"
  BY <1>7 DEF Ignore, TaskEnds, shared
<1>8. ASSUME (Outside /\ UNCHANGED client) \/ UNCHANGED clientVars
      PROVE  UNCHANGED <<client, players>> /\ ((taskPc = "handling") => UNCHANGED <<taskPc, update>>)
  <2>1. CASE Outside /\ UNCHANGED client
    BY <2>1, OutsideKeeps DEF UpdateInv, shared
  <2>2. CASE UNCHANGED clientVars
    BY <2>2 DEF vars, handler, shared
  <2> QED BY <1>8, <2>1, <2>2
<1> QED BY <1>3, <1>4, <1>5, <1>6, <1>7, <1>8 DEF SystemMoves

\* The steps of the client: it looks at the topologies in turn, and drops whoever is
\* not in the last one it looked at.
LEMMA ClientKeeps ==
  ASSUME SystemTyped, ClientTyped, KeptInv, Listen \/ Listens
  PROVE  ClientTyped' /\ KeptInv' /\ UNCHANGED vars
<1> USE DEF ClientTyped, vars
<1>1. UNCHANGED <<vars, made>>
  BY DEF Listens, Listen, Lagged, ReceivePlayerNews, ReceiveTopology, Visit, Connected, Retain
<1>2. \A p \in Ids : \A o : \/ ~Accounted(p, o)
                        \/ (p \in players' /\ o = made'[p]) \/ Leaves(p)'
                        \/ Pending(p)
  BY <1>1 DEF Accounted, Leaves, handler, shared
<1>3. ASSUME UNCHANGED news, NEW p \in Ids, NEW o, Accounted(p, o)
      PROVE  Accounted(p, o)'
  BY <1>2, <1>3 DEF Accounted, Pending
<1>4. news # <<>> => /\ Tail(news) \in Seq(NewsItems) /\ Head(news) \in NewsItems
                     /\ Len(news) \in Nat /\ Len(Tail(news)) = Len(news) - 1
                     /\ Head(news) = news[1]
                     /\ \A i \in 1 .. Len(Tail(news)) : Tail(news)[i] = news[i + 1]
  BY HeadTailProperties, LenProperties
<1>5. ASSUME news # <<>>, news' = Tail(news), NEW p, Pending(p)
      PROVE  Pending(p)' \/ (Head(news).update /\ p \notin Head(news).topology.coordinators)
  <2>1. PICK i \in 1 .. Len(news) : news[i].update /\ p \notin news[i].topology.coordinators
    BY <1>5 DEF Pending
  <2>2. CASE i = 1
    BY <1>4, <1>5, <2>1, <2>2
  <2>3. CASE i # 1
    <3>1. i - 1 \in 1 .. Len(news') /\ news'[i - 1] = news[i]
      BY <1>4, <1>5, <2>1, <2>3
    <3> QED BY <2>1, <3>1 DEF Pending
  <2> QED BY <2>2, <2>3
<1>14. ASSUME ~lost' => \A p \in Ids : \A o :
                 /\ o = coordinators'[p] /\ o # 0 =>
                       Accounted(p, o)' \/ (clientPc' \in {"visit", "connect"} /\ p \notin current')
                 /\ clientPc' = "connect" /\ fetched'.player = p /\ o = fetched'.object
                       => Accounted(p, o)'
       PROVE  KeptInv'
  BY <1>14 DEF KeptInv, Accounted, Leaves, Pending
<1>6. CASE Listen \/ Lagged
  <2>1. /\ UNCHANGED <<news, lost, visit, current, coordinators, made>>
        /\ clientPc' = "listen" /\ clientPc \in {"start", "listen"}
    BY <1>6 DEF Listen, Lagged, loop, inbox
  <2>2. ClientTyped'
    BY <2>1
  <2>3. KeptInv'
    BY <1>3, <2>1 DEF KeptInv
  <2> QED BY <1>1, <2>2, <2>3
<1>7. CASE ReceivePlayerNews
  <2>1. /\ news # <<>> /\ news' = Tail(news) /\ ~Head(news).update /\ clientPc = "listen"
        /\ UNCHANGED <<loop, lost, made>>
    BY <1>7 DEF ReceivePlayerNews
  <2>2. \A p : Pending(p) => Pending(p)'
    BY <1>5, <2>1
  <2>3. ClientTyped'
    BY <1>4, <2>1 DEF loop
  <2>4. KeptInv'
    BY <1>2, <2>1, <2>2 DEF KeptInv, Accounted, loop
  <2> QED BY <1>1, <2>3, <2>4
<1>8. CASE ReceiveTopology
  <2>1. /\ news # <<>> /\ news' = Tail(news) /\ Head(news).update
        /\ clientPc = "listen" /\ clientPc' = "visit"
        /\ current' = Head(news).topology.coordinators /\ visit' = current'
        /\ UNCHANGED <<coordinators, lost, made>>
    BY <1>8 DEF ReceiveTopology
  <2>2. \A p : Pending(p) => Pending(p)' \/ p \notin current'
    BY <1>5, <2>1
  <2>3. ClientTyped'
    <3>1. Head(news).topology \in Topologies
      BY <1>4, <2>1 DEF NewsItems
    <3>2. current' \subseteq Ids
      BY <2>1, <3>1 DEF Topologies
    <3> QED BY <1>4, <2>1, <3>2
  <2>4. KeptInv'
    BY <1>2, <2>1, <2>2 DEF KeptInv, Accounted
  <2> QED BY <1>1, <2>3, <2>4
<1>9. ASSUME NEW q \in Ids, Visit(q)
      PROVE  ClientTyped' /\ KeptInv'
  <2>1. /\ clientPc = "visit" /\ q \in visit /\ visit' = visit \ {q}
        /\ UNCHANGED <<news, lost, made, current, coordinators>>
    BY <1>9 DEF Visit, inbox
  <2>2. \/ clientPc' = "visit"
        \/ /\ clientPc' = "connect" /\ fetched' = [player |-> q, object |-> made[q]]
           /\ q \in players /\ UNCHANGED players
    BY <1>1, <1>9, <2>1 DEF Visit, shared
  <2>3. ClientTyped'
    BY <2>1, <2>2
  <2>4. \A p \in Ids : \A o : Accounted(p, o) => Accounted(p, o)'
    BY <1>3, <2>1
  <2>5. ASSUME ~lost, NEW p \in Ids, NEW o, o = coordinators'[p], o # 0
        PROVE  Accounted(p, o)' \/ (clientPc' \in {"visit", "connect"} /\ p \notin current')
    BY <2>1, <2>2, <2>4, <2>5 DEF KeptInv
  <2>6. ASSUME NEW p \in Ids, NEW o, clientPc' = "connect", fetched'.player = p, o = fetched'.object
        PROVE  Accounted(p, o)'
    <3>1. p = q /\ o = made[p] /\ p \in players
      BY <2>1, <2>2, <2>6
    <3> QED BY <2>4, <3>1 DEF Accounted
  <2>7. KeptInv'
    BY <1>14, <2>1, <2>5, <2>6
  <2> QED BY <2>3, <2>7
<1>10. CASE Connected
  <2>1. /\ clientPc = "connect" /\ clientPc' = "visit"
        /\ UNCHANGED <<news, lost, made, current, visit>>
        /\ \/ coordinators' = [coordinators EXCEPT ![fetched.player] = fetched.object]
           \/ UNCHANGED coordinators
    BY <1>10 DEF Connected, inbox
  <2>2. fetched.player \in current /\ fetched.object \in Nat
    BY <2>1
  <2>3. ClientTyped'
    BY <2>1, <2>2
  <2>4. KeptInv'
    <3>1. ASSUME ~lost, NEW p \in Ids, coordinators'[p] # 0
          PROVE  Accounted(p, coordinators'[p]) \/ p \notin current
      <4>1. CASE coordinators'[p] = coordinators[p]
        BY <3>1, <4>1 DEF KeptInv
      <4>2. CASE fetched.player = p /\ coordinators'[p] = fetched.object
        BY <2>1, <3>1, <4>2 DEF KeptInv
      <4> QED BY <2>1, <2>2, <4>1, <4>2
    <3>2. \A p \in Ids : \A o : Accounted(p, o) => Accounted(p, o)'
      BY <1>3, <2>1
    <3>3. ASSUME ~lost, NEW p \in Ids, NEW o, o = coordinators'[p], o # 0
          PROVE  Accounted(p, o)' \/ p \notin current
      BY <3>1, <3>2, <3>3
    <3>4. ~lost' => \A p \in Ids : \A o :
             /\ o = coordinators'[p] /\ o # 0 =>
                   Accounted(p, o)' \/ (clientPc' \in {"visit", "connect"} /\ p \notin current')
             /\ clientPc' = "connect" /\ fetched'.player = p /\ o = fetched'.object
                   => Accounted(p, o)'
      BY <2>1, <3>3
    <3> QED BY <1>14, <3>4
  <2> QED BY <1>1, <2>3, <2>4
<1>11. CASE Retain
  <2>1. /\ clientPc = "visit" /\ clientPc' = "listen" /\ UNCHANGED <<news, lost, made, visit>>
        /\ visit = {} /\ current' = {}
        /\ coordinators' = [p \in Ids |-> IF p \in current THEN coordinators[p] ELSE 0]
    BY <1>11 DEF Retain, inbox
  <2>2. ClientTyped'
    BY <2>1
  <2>3. ASSUME ~lost, NEW p \in Ids, coordinators'[p] # 0
        PROVE  coordinators'[p] = coordinators[p] /\ Accounted(p, coordinators[p])
    BY <2>1, <2>3 DEF KeptInv
  <2>4. \A p \in Ids : \A o : Accounted(p, o) => Accounted(p, o)'
    BY <1>3, <2>1
  <2>5. ~lost' => \A p \in Ids : \A o :
             /\ o = coordinators'[p] /\ o # 0 =>
                   Accounted(p, o)' \/ (clientPc' \in {"visit", "connect"} /\ p \notin current')
             /\ clientPc' = "connect" /\ fetched'.player = p /\ o = fetched'.object
                   => Accounted(p, o)'
    BY <2>1, <2>3, <2>4
  <2>6. KeptInv'
    BY <1>14, <2>5
  <2> QED BY <1>1, <2>2, <2>6
<1>12. Listens => \/ Lagged \/ ReceivePlayerNews \/ ReceiveTopology
                  \/ (\E p \in Ids : Visit(p)) \/ Connected \/ Retain
  BY DEF Listens
<1> QED BY <1>1, <1>6, <1>7, <1>8, <1>9, <1>10, <1>11, <1>12

\* The types of what the client has, and of what it does to them.
LEMMA ClientInitInv == ClientInit => SystemTyped /\ UpdateInv /\ ClientTyped /\ KeptInv
<1> SUFFICES ASSUME ClientInit  PROVE SystemTyped /\ UpdateInv /\ ClientTyped /\ KeptInv
  OBVIOUS
<1>1. SystemTyped /\ UpdateInv
  BY TypedInit, UpdateInit DEF ClientInit
<1>2. /\ clientPc = "start" /\ news = <<>> /\ visit = {} /\ current = {}
      /\ made = [p \in Ids |-> 0] /\ coordinators = [p \in Ids |-> 0]
  BY DEF ClientInit
<1>3. ClientTyped
  BY <1>2, EmptySeq DEF ClientTyped
<1>4. KeptInv
  BY <1>2 DEF KeptInv
<1> QED BY <1>1, <1>3, <1>4

\* Every step keeps the client's invariant.
LEMMA ClientStep ==
  ASSUME SystemTyped, UpdateInv, ClientTyped, KeptInv, [ClientNext]_clientVars
  PROVE  [Next]_vars /\ SystemTyped' /\ UpdateInv' /\ ClientTyped' /\ KeptInv'
<1>1. CASE Listen \/ Listens
  <2>1. UNCHANGED vars /\ ClientTyped' /\ KeptInv'
    BY <1>1, ClientKeeps
  <2> QED BY <2>1, TypedKeeps, UpdateKeeps
<1>2. CASE SystemMoves \/ (Outside /\ UNCHANGED client) \/ UNCHANGED clientVars
  <2>1. [Next]_vars
    BY <1>2 DEF SystemMoves, AddPlayers, RemovePlayer, TellTopology, Next, TaskRuns, clientVars
  <2>2. /\ UNCHANGED loop /\ made' \in [Ids -> Nat] /\ news' \in Seq(NewsItems)
        /\ clientPc # "start" /\ ~lost' =>
              ~lost /\ \A p \in Ids : \A o : Accounted(p, o) => Accounted(p, o)'
    BY <1>2, SystemAccounts
  <2>3. UNCHANGED <<clientPc, visit, current, coordinators, fetched>>
    BY <2>2 DEF loop
  <2>4. ClientTyped'
    BY <2>2, <2>3 DEF ClientTyped
  <2>5. KeptInv'
    <3>1. CASE clientPc = "start"
      BY <2>3, <3>1 DEF KeptInv, ClientTyped
    <3>2. CASE clientPc # "start"
      <4>1. ASSUME ~lost', NEW p \in Ids, NEW o
            PROVE  /\ o = coordinators[p] /\ o # 0 =>
                         Accounted(p, o)' \/ (clientPc \in {"visit", "connect"} /\ p \notin current)
                   /\ clientPc = "connect" /\ fetched.player = p /\ o = fetched.object
                         => Accounted(p, o)'
        BY <2>2, <3>2, <4>1 DEF KeptInv
      <4> QED BY <2>3, <4>1 DEF KeptInv, Accounted, Leaves, Pending
    <3> QED BY <3>1, <3>2
  <2> QED BY <2>1, <2>4, <2>5, TypedKeeps, UpdateKeeps
<1> QED BY <1>1, <1>2 DEF ClientNext

\* The system a client sees is the system, so that what is proved of the one holds of
\* the other.
THEOREM ClientSystem == ClientSpec => Spec
<1>1. ClientInit => Init
  BY DEF ClientInit
<1> DEFINE I == SystemTyped /\ UpdateInv /\ ClientTyped /\ KeptInv
<1>2. I /\ [ClientNext]_clientVars => I' /\ [Next]_vars
  BY ClientStep
<1>3. ClientInit => I
  BY ClientInitInv
<1> HIDE DEF I
<1> QED BY <1>1, <1>2, <1>3, PTL DEF ClientSpec, Spec

\* A client that has read all its news, none of which was lost, keeps the very Player
\* objects that are in the map, for any number of players, updates and lost events.
THEOREM ClientKeepsCurrent == ClientSpec => []KeptIsCurrent
<1> DEFINE I == SystemTyped /\ UpdateInv /\ ClientTyped /\ KeptInv
<1>1. I /\ [ClientNext]_clientVars => I'
  BY ClientStep
<1>2. I => KeptIsCurrent
  <2> SUFFICES ASSUME KeptInv, clientPc = "listen", news = <<>>, taskPc # "handling", ~lost,
                      NEW p \in Ids, coordinators[p] # 0
               PROVE  p \in players /\ coordinators[p] = made[p]
    BY DEF KeptIsCurrent
  <2>1. ~Pending(p) /\ ~Leaves(p)
    BY EmptySeq DEF Pending, Leaves
  <2> QED BY <2>1 DEF KeptInv, Accounted
<1>3. ClientInit => I
  BY ClientInitInv
<1> HIDE DEF I
<1> QED BY <1>1, <1>2, <1>3, PTL DEF ClientSpec

===============================================================================
