------------------------------- MODULE Discovery -------------------------------
(***************************************************************************)
(* discover_players (src/discovery.rs), a loop with a deadline over the    *)
(* events of an mDNS daemon, and the choices that from_discovered          *)
(* (src/system.rs) makes among the players found.  The daemon is external: *)
(* it reports players of any household, and may report one twice.          *)
(***************************************************************************)
EXTENDS Naturals, Sequences, FiniteSetsExt

CONSTANTS
    Uuids,        \* the players that announce themselves
    Neighbours,   \* those of another household
    Ours, Theirs, \* the two households
    Missing       \* an absent TXT value: the empty string

ASSUME DiscoveryUuids == IsFiniteSet(Uuids)
ASSUME DiscoveryNeighbours == Neighbours \subseteq Uuids
ASSUME DiscoveryMissing == Missing \notin Uuids \cup {Ours, Theirs}

VARIABLES
    startPc,      \* start(), then from_discovered()
    late,         \* the deadline has passed
    found,        \* the players resolved so far, in order
    first,        \* the player connected to
    householdId   \* the household subscribed to

discovery == <<late, found, first, householdId>>

Home(u) == IF u \in Neighbours THEN Theirs ELSE Ours

\* What is resolved, as far as the TXT values are looked at.
DiscoveredPlayers == {p \in [uuid : Uuids \cup {Missing}, mhhid : {Ours, Theirs, Missing}] :
                         p.uuid \in Uuids => p.mhhid \in {Home(p.uuid), Missing}}
NoPlayer == [uuid |-> Missing, mhhid |-> Missing]

DiscoveryInit ==
    /\ startPc = "browsing" /\ late = FALSE /\ found = <<>>
    /\ first = NoPlayer /\ householdId = Missing

StartMoves(from, to) == startPc = from /\ startPc' = to

\* Time passes: looked at before each receive, which waits for the rest of it.
Deadline ==
    /\ startPc = "browsing" /\ late' = TRUE
    /\ UNCHANGED <<startPc, found, first, householdId>>

\* A service without a uuid, or with one seen before, is passed over.
Resolved(p) ==
    /\ startPc = "browsing" /\ ~late
    /\ found' = IF p.uuid = Missing \/ \E i \in DOMAIN found : found[i].uuid = p.uuid
                THEN found ELSE Append(found, p)
    /\ UNCHANGED <<startPc, late, first, householdId>>

\* The deadline passed, or the daemon closed the channel.  If the daemon cannot be
\* shut down, what was found is lost.
Browsed ==
    /\ \/ StartMoves("browsing", "found")
       \/ StartMoves("browsing", "failed")
    /\ UNCHANGED discovery

NothingFound ==
    /\ StartMoves("found", "failed") /\ found = <<>>
    /\ UNCHANGED discovery

\* The first household that is named, and the first player, whichever that is.
Choose ==
    /\ found # <<>>
    /\ first' = found[1]
    /\ LET named == {i \in DOMAIN found : found[i].mhhid # Missing} IN
       householdId' = IF named = {} THEN Missing ELSE found[Min(named)].mhhid
    /\ found' = <<>> /\ late' = FALSE

Discovers == Deadline \/ Browsed \/ NothingFound \/ \E p \in DiscoveredPlayers : Resolved(p)
===============================================================================
