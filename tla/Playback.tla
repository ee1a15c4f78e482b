------------------------------- MODULE Playback -------------------------------
(***************************************************************************)
(* The commands and the events of one connected Player (src/player.rs):    *)
(* programs of requests, each of which is a call of send_command as        *)
(* Commands describes it, and the events that handle_message makes of      *)
(* every other message of the speaker, which reach it through the          *)
(* connection's broadcast channel and the forwarder task.  The speaker is  *)
(* external.  A state of the speaker is a version number per namespace; a  *)
(* body is what it holds, and decodes as a type if it has the fields the   *)
(* type requires.                                                          *)
(***************************************************************************)
EXTENDS Naturals, Sequences, SequencesExt

CONSTANTS
    Subscribers,  \* calls of subscribe_all
    Singles,      \* calls of the methods that send one request
    Namespaces,   \* bound: those the calls are about
    Tried,        \* bound: the single requests that are tried
    MaxChanges,   \* bound: changes of the speaker's state on its own
    MaxInbox,     \* bound: messages of the speaker on their way
    Capacity,     \* messages the connection's broadcast channel holds, 64 in the code
    None          \* no request

ASSUME PlaybackBounds     == MaxChanges \in Nat /\ MaxInbox \in Nat
ASSUME PlaybackCapacity   == Capacity \in Nat \ {0}
ASSUME PlaybackNamespaces == {"playback", "groupVolume", "playbackMetadata"} \cap Namespaces # {}
ASSUME PlaybackDistinct   == None \notin (Subscribers \cup Singles) \X (1 .. 3)

VARIABLES
    version,      \* external: version[n]: the state of namespace n
    changes,      \* bound on the changes
    subs,         \* external: what the speaker reports on this link
    owed,         \* external: first notifications, after a subscribe
    link,         \* the connection's link: up, down or over (disconnected)
    inbox,        \* messages of the speaker that were not handled yet, in order
    stored,       \* how many of them, the first, are in the broadcast channel
    lagged,       \* the channel overflowed: the forwarder's next receive fails, its last
    status, executed, \* the requests, see Commands
    program,      \* program[c]: the requests of call c, in order
    step,         \* step[c]: which of them is under way
    outcome,      \* outcome[c]: what c returned
    since, got,   \* since[c]: the version when a read began; got[c]: the one it read
    listening,    \* somebody holds a receiver of Player::events
    view,         \* view[n]: the version in the last event of n they got
    blank,        \* the last MetadataChanged they got had no field set
    refused, broken, unheard \* history: requests that the speaker refused; calls
                  \* that saw a loss; namespaces with an event nobody listened to

speaker == <<version, changes, subs, owed>>
sent    == <<status, executed>>
calls   == <<program, step, outcome, since, got>>
forwarder == <<stored, lagged>>
client  == <<listening, view, blank>>
history == <<refused, broken, unheard>>
vars    == <<speaker, link, inbox, forwarder, sent, calls, client, history>>

-------------------------------------------------------------------------------
(* Messages and their types *)

PlaybackStatus      == {"playbackState"}
GroupVolume         == {"volume", "muted"}
PlayerVolume        == {"volume"}
MetadataStatus      == {}
PlaybackSession     == {"sessionId"}
MusicServiceAccount == {"id", "userIdHashCode", "nickname", "isGuest", "service"}

\* The fields a value of the type of a namespace must have.
Required == [playback |-> PlaybackStatus, groupVolume |-> GroupVolume,
             playerVolume |-> PlayerVolume, playbackMetadata |-> MetadataStatus,
             playbackSession |-> PlaybackSession,
             musicServiceAccounts |-> MusicServiceAccount]

\* The namespaces that have subscriptions and events.
Topics == Namespaces \cap {"playback", "groupVolume", "playerVolume", "playbackMetadata"}

Message(n, b, v, r) == [namespace |-> n, body |-> b, version |-> v, cmdId |-> r]

\* What a body holds: the state asked for, or nothing of it at all (the answer to
\* a command, and a refusal, whose error is in the header).
Fields(m) ==
    IF m.body = "state" THEN Required[m.namespace] ELSE {}

Decodes(m) == Required[m.namespace] \subseteq Fields(m)

\* handle_message: the event made of a message, or none.  Only a playbackError
\* event has an error in its body, and then it has the errorCode.
Event(m) ==
    CASE m.namespace \notin Topics -> "none"
      [] m.body = "error"          -> "PlaybackError"
      [] OTHER                     -> IF Decodes(m) THEN "Changed" ELSE "none"

-------------------------------------------------------------------------------
(* The methods of Player as programs *)

Request(op, n) == [op |-> op, namespace |-> n]

\* One request, if the instance is about its namespace.
Ask(op, n) == IF n \in Namespaces THEN <<Request(op, n)>> ELSE <<>>

SubscribeAll ==
    Ask("subscribe", "playback") \o Ask("subscribe", "groupVolume")
        \o Ask("subscribe", "playbackMetadata")

\* subscribe_playback, subscribe_volume, subscribe_metadata, subscribe_player_volume.
Subscriptions == {Request("subscribe", n) : n \in Topics}

\* The answer is not looked at: play, pause, stop, skip, seek, toggle; set the volume,
\* mute, change the volume, of a group and of a player; load a cloud queue.
PlaybackControls     == Request("control", "playback")
VolumeControls       == Request("control", "groupVolume")
PlayerVolumeControls == Request("control", "playerVolume")
LoadCloudQueue       == Request("control", "playbackSession")

\* The answer is decoded.
GetVolume             == Request("query", "groupVolume")
GetPlayerVolume       == Request("query", "playerVolume")
GetPlaybackStatus     == Request("query", "playback")
GetMetadata           == Request("query", "playbackMetadata")
MatchAccount          == Request("query", "musicServiceAccounts")
CreatePlaybackSession == Request("query", "playbackSession")

Methods == {r \in Subscriptions \cup {PlaybackControls, VolumeControls, PlayerVolumeControls,
                 LoadCloudQueue, GetVolume, GetPlayerVolume, GetPlaybackStatus, GetMetadata,
                 MatchAccount, CreatePlaybackSession} : r.namespace \in Namespaces}

Calls == Subscribers \cup Singles

Programs(c) == IF c \in Subscribers THEN {SubscribeAll} ELSE {<<r>> : r \in Methods \cap Tried}

Requests == Calls \X (1 .. Len(SubscribeAll))
Command  == INSTANCE Commands WITH Cmds <- Requests

Asked(r)   == program[r[1]][r[2]]
Current(c) == <<c, step[c]>>

Init ==
    /\ version = [n \in Topics |-> 1] /\ changes = 0 /\ subs = {} /\ owed = {}
    /\ link = "up" /\ inbox = <<>> /\ stored = 0 /\ lagged = FALSE
    /\ Command!Init
    /\ program = [c \in Calls |-> <<>>] /\ step = [c \in Calls |-> 0]
    /\ outcome = [c \in Calls |-> "none"]
    /\ since = [c \in Calls |-> 0] /\ got = [c \in Calls |-> 0]
    /\ listening = FALSE /\ view = [n \in Topics |-> 0] /\ blank = FALSE
    /\ refused = {} /\ broken = {} /\ unheard = {}

-------------------------------------------------------------------------------
(* The speaker and the link *)

Versioned(n) == IF n \in Topics THEN version[n] ELSE 0

\* The state of n is now v: subscribers are told.
Changes(n, v, before) ==
    /\ version' = [version EXCEPT ![n] = v]
    /\ inbox' = inbox \o before \o (IF n \in subs THEN <<Message(n, "state", v, None)>> ELSE <<>>)

Room(k) == Len(inbox) + k <= MaxInbox

\* (What it does after the end of the connection is not followed.)
Change(n) ==
    /\ changes < MaxChanges /\ changes' = changes + 1
    /\ link # "over"
    /\ Room(1)
    /\ Changes(n, version[n] + 1, <<>>)
    /\ UNCHANGED <<subs, owed, link, forwarder, sent, calls, client, history>>

\* Playback fails on the speaker: a playbackError event.
Fault ==
    /\ changes < MaxChanges /\ changes' = changes + 1
    /\ "playback" \in subs /\ Room(1)
    /\ inbox' = Append(inbox, Message("playback", "error", 0, None))
    /\ UNCHANGED <<version, subs, owed, link, forwarder, sent, calls, client, history>>

\* The speaker gets request r, carries it out and answers.
Accept(r) ==
    LET n  == Asked(r).namespace
        op == Asked(r).op
        ok == IF op = "query" THEN Message(n, "state", Versioned(n), r)
                              ELSE Message(n, "empty", 0, r)
    IN
    /\ link = "up" /\ Room(2)
    /\ Command!Execute(r)
    /\ IF op = "control" /\ n \in Topics
       THEN Changes(n, version[n] + 1, <<ok>>)
       ELSE inbox' = Append(inbox, ok) /\ UNCHANGED version
    /\ IF op = "subscribe" THEN subs' = subs \cup {n} /\ owed' = owed \cup {n}
                           ELSE UNCHANGED <<subs, owed>>
    /\ UNCHANGED <<changes, link, forwarder, status, calls, client, history>>

\* Or it refuses, in a message with or without the command id.
Refuse(r) ==
    /\ link = "up" /\ Room(1)
    /\ Command!Execute(r)
    /\ \E id \in {r, None} :
          inbox' = Append(inbox, Message(Asked(r).namespace, "empty", 0, id))
    /\ refused' = refused \cup {r}
    /\ UNCHANGED <<speaker, link, forwarder, status, calls, client, broken, unheard>>

\* A subscription starts with a notification of the state.
FirstEvent(n) ==
    /\ n \in owed /\ owed' = owed \ {n}
    /\ Room(1)
    /\ inbox' = Append(inbox, Message(n, "state", version[n], None))
    /\ UNCHANGED <<version, changes, subs, link, forwarder, sent, calls, client, history>>

\* The link is lost, with the subscriptions the speaker kept for it and what the
\* connection did not read of it.
LinkEnds ==
    /\ \E k \in stored .. Len(inbox) : inbox' = SubSeq(inbox, 1, k)
    /\ subs' = {} /\ owed' = {} /\ unheard' = {}
    /\ broken' = broken \cup {c \in Calls : step[c] > 0}
    /\ UNCHANGED <<version, changes, forwarder, sent, calls, client, refused>>

Lose      == link = "up" /\ link' = "down" /\ LinkEnds
Reconnect ==
    /\ link = "down" /\ link' = "up"
    /\ UNCHANGED <<speaker, inbox, forwarder, sent, calls, client, history>>

\* The connection announces its loss, a redial or its return on the channel, which is
\* full.  (One that finds a slot tells the subscribers nothing of a namespace.)
Announce ==
    /\ link = "down" /\ stored = Capacity
    /\ lagged' = TRUE /\ stored' = 0
    /\ inbox' = SubSeq(inbox, stored + 1, Len(inbox))
    /\ UNCHANGED <<speaker, link, sent, calls, client, history>>

\* Player::disconnect takes the connection out of the cell and stops it.
Disconnect == link # "over" /\ link' = "over" /\ LinkEnds

-------------------------------------------------------------------------------
(* The calls *)

\* require_connection and send_command for request i of call c.
Send(c, i) ==
    IF link # "over"
    THEN /\ Command!Start(<<c, i>>)
         /\ step' = [step EXCEPT ![c] = i]
         /\ UNCHANGED outcome
    ELSE /\ outcome' = [outcome EXCEPT ![c] = "not_connected"]
         /\ UNCHANGED <<sent, step>>

Begin(c) ==
    /\ step[c] = 0 /\ outcome[c] = "none"
    /\ \E p \in Programs(c) :
          /\ program' = [program EXCEPT ![c] = p]
          /\ since' = [since EXCEPT ![c] = IF p[1].op = "query" THEN Versioned(p[1].namespace) ELSE 0]
    /\ Send(c, 1)
    /\ UNCHANGED <<speaker, link, inbox, forwarder, got, client, history>>

Return(c, o) == outcome' = [outcome EXCEPT ![c] = o]

\* Mutant: one request too many.
MutReply(r, m) ==
    LET c == r[1] IN
    /\ Command!Succeed(r)
    /\ IF step[c] <= Len(program[c])
       THEN step' = [step EXCEPT ![c] = @ + 1] /\ UNCHANGED <<outcome, got>>
       ELSE Return(c, "ok") /\ UNCHANGED <<step, got>>
    /\ UNCHANGED <<program, since>>

\* Mutant: subscribe_all goes on after a failure.
MutFail(r) ==
    LET c == r[1] IN
    /\ status[r] = "open"
    /\ IF step[c] < Len(program[c])
       THEN /\ status' = [status EXCEPT ![r] = "timeout", ![<<c, step[c] + 1>>] = "open"]
            /\ step' = [step EXCEPT ![c] = @ + 1]
            /\ UNCHANGED <<executed, outcome>>
       ELSE Command!Fail(r) /\ Return(c, "failed") /\ UNCHANGED step
    /\ UNCHANGED <<speaker, link, inbox, forwarder, program, since, got, client, history>>

\* The wait ends without an answer, and with it the call; what becomes of the
\* request is open.  (A closed connection does the same, and nobody drops the
\* future of a command here.)
Fail(r) ==
    /\ Command!Fail(r) /\ status'[r] = "timeout"
    /\ Return(r[1], "failed")
    /\ UNCHANGED <<speaker, link, inbox, forwarder, program, step, since, got, client, history>>

\* The call gets m as the answer to its request r: the answer to a query is
\* decoded, other answers are not looked at, and the next request is sent.  (The
\* request has its result before the call goes on.)
Reply(r, m) ==
    LET c == r[1] IN
    /\ status[r] = "open" /\ executed[r] = 1
    /\ IF step[c] < Len(program[c]) /\ link # "over"
       THEN /\ status' = [status EXCEPT ![r] = "ok", ![<<c, step[c] + 1>>] = "open"]
            /\ step' = [step EXCEPT ![c] = @ + 1]
            /\ UNCHANGED <<executed, outcome, got>>
       ELSE /\ Command!Succeed(r)
            /\ Return(c, CASE step[c] < Len(program[c])               -> "not_connected"
                           [] Asked(r).op = "query" /\ ~Decodes(m) -> "undecodable"
                           [] OTHER                                -> "ok")
            /\ got' = IF Asked(r).op = "query" THEN [got EXCEPT ![c] = m.version] ELSE got
            /\ UNCHANGED step
    /\ UNCHANGED <<program, since>>

-------------------------------------------------------------------------------
(* The connection's task *)

\* The oldest message that the task has not handled.
Unread     == inbox[stored + 1]
Awaited(m) == m.cmdId # None /\ status[m.cmdId] = "open"

\* Mutant: each message is handled by a task of its own, in no order.
MutAnyOrder ==
    \E i \in stored + 1 .. Len(inbox) :
        /\ ~Awaited(inbox[i]) /\ stored < Capacity
        /\ inbox' = InsertAt(RemoveAt(inbox, i), stored + 1, inbox[i])
        /\ stored' = stored + 1
        /\ UNCHANGED <<speaker, link, lagged, sent, calls, client, history>>

\* Mutant: an answer goes to an open request of its namespace.
MutByNamespace ==
    /\ stored < Len(inbox)
    /\ \E c \in Calls :
          /\ step[c] > 0
          /\ Asked(Current(c)).namespace = Unread.namespace
          /\ Reply(Current(c), Unread)
    /\ inbox' = RemoveAt(inbox, stored + 1)
    /\ UNCHANGED <<speaker, link, forwarder, client, history>>

\* The broadcast of an event to a forwarder that keeps up, or that has Capacity
\* events to handle and loses them (RecvError::Lagged).  One that lost events is told
\* no more: its loop ends at the error.
Broadcast ==
    IF stored < Capacity /\ ~lagged
    THEN stored' = stored + 1 /\ UNCHANGED <<inbox, lagged>>
    ELSE /\ lagged' = TRUE /\ stored' = 0
         /\ inbox' = SubSeq(inbox, stored + 2, Len(inbox))

\* Mutant: an answer is broadcast as well.
MutBroadcastAll ==
    /\ stored < Len(inbox)
    /\ Broadcast
    /\ IF Awaited(Unread) THEN Reply(Unread.cmdId, Unread) ELSE UNCHANGED <<sent, calls>>
    /\ UNCHANGED <<speaker, link, client, history>>

\* Mutant: the task stops at an event that it cannot decode.
MutStuck ==
    /\ stored < Len(inbox)
    /\ \/ /\ Awaited(Unread)
          /\ Reply(Unread.cmdId, Unread)
          /\ inbox' = RemoveAt(inbox, stored + 1)
          /\ UNCHANGED forwarder
       \/ /\ ~Awaited(Unread) /\ Event(Unread) # "none"
          /\ Broadcast
          /\ UNCHANGED <<sent, calls>>
    /\ UNCHANGED <<speaker, link, client, history>>

\* A message that answers an open request goes to its caller, any other is an
\* event, the answer to a call that failed among them.
Receive ==
    /\ stored < Len(inbox)
    /\ \/ /\ Awaited(Unread)
          /\ Reply(Unread.cmdId, Unread)
          /\ inbox' = RemoveAt(inbox, stored + 1)
          /\ UNCHANGED forwarder
       \/ /\ ~Awaited(Unread)
          /\ Broadcast
          /\ UNCHANGED <<sent, calls>>
    /\ UNCHANGED <<speaker, link, client, history>>

-------------------------------------------------------------------------------
(* The forwarder *)

\* handle_message: what the subscribers are told of m.
Tell(m) ==
    LET told == Event(m) = "Changed" IN
    /\ view' = IF told /\ listening /\ m.body = "state"
               THEN [view EXCEPT ![m.namespace] = m.version] ELSE view
    /\ blank' = IF told /\ listening /\ m.namespace = "playbackMetadata"
                THEN m.body # "state" ELSE blank
    /\ unheard' = CASE ~told \/ m.body # "state" -> unheard
                    [] listening  -> unheard \ {m.namespace}
                    [] OTHER      -> unheard \cup {m.namespace}

\* The forwarder handles the oldest event of the channel.
Forward ==
    /\ stored > 0
    /\ stored' = stored - 1 /\ inbox' = Tail(inbox)
    /\ Tell(Head(inbox))
    /\ UNCHANGED <<speaker, link, lagged, sent, calls, listening, refused, broken>>

\* A client calls events().
Listen ==
    /\ ~listening /\ listening' = TRUE
    /\ UNCHANGED <<speaker, link, inbox, forwarder, sent, calls, view, blank, history>>

-------------------------------------------------------------------------------
Next ==
    \/ \E n \in Topics : Change(n) \/ FirstEvent(n)
    \/ Fault \/ Lose \/ Announce \/ Reconnect \/ Disconnect
    \/ \E r \in Requests : Accept(r) \/ Refuse(r) \/ Fail(r)
    \/ \E c \in Calls : Begin(c)
    \/ Receive \/ Forward \/ Listen

Spec == Init /\ [][Next]_vars

\* The runtime polls the tasks; the speaker sends the notification it owes.
\* Nothing is assumed of the link or the calls.
FairSpec ==
    /\ Spec
    /\ WF_vars(Receive) /\ WF_vars(Forward)
    /\ WF_vars(\E n \in Topics : FirstEvent(n))

-------------------------------------------------------------------------------
(* Properties *)

\* Every cell has a value of its type; the channel holds Capacity events at most,
\* and a forwarder that lagged finds none.
TypeOK ==
    /\ version \in [Topics -> Nat] /\ changes \in 0 .. MaxChanges
    /\ subs \subseteq Topics /\ owed \subseteq subs
    /\ link \in {"up", "down", "over"}
    /\ \A i \in DOMAIN inbox :
          /\ inbox[i].namespace \in DOMAIN Required
          /\ inbox[i].body \in {"state", "error", "empty"}
          /\ inbox[i].version \in Nat /\ inbox[i].cmdId \in Requests \cup {None}
    /\ Len(inbox) <= MaxInbox
    /\ stored \in 0 .. Len(inbox) /\ stored <= Capacity
    /\ lagged \in BOOLEAN /\ (lagged => stored = 0)
    /\ status \in [Requests -> {"new", "open", "ok"} \cup Command!Failures]
    /\ executed \in [Requests -> {0, 1}]
    /\ \A c \in Calls : program[c] \in Programs(c) \cup {<<>>} /\ step[c] \in 0 .. Len(program[c])
    /\ outcome \in [Calls -> {"none", "ok", "failed", "undecodable", "not_connected"}]
    /\ since \in [Calls -> Nat] /\ got \in [Calls -> Nat]
    /\ listening \in BOOLEAN /\ view \in [Topics -> Nat] /\ blank \in BOOLEAN
    /\ refused \subseteq Requests /\ broken \subseteq Calls /\ unheard \subseteq Topics

\* What subscribers are told of a namespace never goes back to an older state of
\* it: neither a late answer that passes for an event nor a lost link, with new
\* subscriptions on the next one, brings an old value after a newer one.
InOrder == [][\A n \in Topics : view[n] <= view'[n]]_vars

\* A read returns a state the speaker was in after the call began, also when
\* answers to other requests in its namespace come late.  (A refused getMetadata
\* returns an empty value as a success.)
ReadsAreFresh ==
    \A c \in Calls :
        outcome[c] = "ok" /\ program[c][1].op = "query" /\ <<c, 1>> \notin refused
            => got[c] >= since[c]

\* After a subscribe, or subscribe_all with its three requests in a row, returned
\* a success, the speaker reports all the namespaces, but for those it refused
\* (the refusal is not looked at) and if the link was lost in between.
OkSubscribes ==
    \A c \in Calls : outcome[c] = "ok" /\ c \notin broken =>
        \A i \in DOMAIN program[c] :
            program[c][i].op = "subscribe" /\ <<c, i>> \notin refused
                => program[c][i].namespace \in subs

\* A request whose answer no caller got, or will get.
AnswersLate(r) == executed[r] = 1 /\ status[r] # "ok"

\* A MetadataChanged without any field comes from the answer to a request that
\* its caller did not get: an answered call leaves no trace in the events.
BlankIsLate ==
    blank => \E r \in Requests : AnswersLate(r) /\ Asked(r).namespace = "playbackMetadata"

\* Whoever listens is told the state of a subscribed namespace in the end, and for
\* metadata as the last event, unless a late answer came as a blank one (BlankIsLate);
\* the subscription ended with its link; its last event came before they listened
\* (examples/subscribe.rs calls events() after subscribe_all); or the forwarder lagged,
\* after which nothing is told any more.
Told(n) == view[n] = version[n] /\ ~(n = "playbackMetadata" /\ blank)

Follows ==
    \A n \in Topics :
        n \in subs /\ listening ~>
            \/ Told(n)
            \/ n = "playbackMetadata" /\ \E r \in Requests :
                  AnswersLate(r) /\ Asked(r).namespace = n
            \/ n \notin subs \/ n \in unheard \/ lagged
===============================================================================
