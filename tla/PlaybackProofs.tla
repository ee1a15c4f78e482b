----------------------------- MODULE PlaybackProofs -----------------------------
(***************************************************************************)
(* Theorems about Playback: what answers and events amount to, for any     *)
(* number of calls, changes of the speaker and losses of the link.         *)
(***************************************************************************)
EXTENDS Playback, SequenceTheorems, TLAPS

USE DEF speaker, forwarder, sent, calls, client, history

\* The messages of the speaker.
Messages == [namespace : DOMAIN Required, body : {"state", "error", "empty"},
             version : Nat, cmdId : Requests \cup {None}]

\* TypeOK, with the domains it leaves open.
Typed ==
    /\ version \in [Topics -> Nat] /\ changes \in 0 .. MaxChanges
    /\ subs \subseteq Topics /\ owed \subseteq subs
    /\ link \in {"up", "down", "over"}
    /\ inbox \in Seq(Messages) /\ Len(inbox) <= MaxInbox
    /\ stored \in 0 .. Len(inbox) /\ stored <= Capacity
    /\ lagged \in BOOLEAN /\ (lagged => stored = 0)
    /\ status \in [Requests -> {"new", "open", "ok"} \cup Command!Failures]
    /\ executed \in [Requests -> {0, 1}]
    /\ DOMAIN program = Calls /\ \A c \in Calls : program[c] \in Programs(c) \cup {<<>>}
    /\ step \in [Calls -> Nat] /\ \A c \in Calls : step[c] <= Len(program[c])
    /\ outcome \in [Calls -> {"none", "ok", "failed", "undecodable", "not_connected"}]
    /\ since \in [Calls -> Nat] /\ got \in [Calls -> Nat]
    /\ listening \in BOOLEAN /\ view \in [Topics -> Nat] /\ blank \in BOOLEAN
    /\ refused \subseteq Requests /\ broken \subseteq Calls /\ unheard \subseteq Topics

\* A call is at one of its requests: those before it were carried out, those after
\* it were not sent, and only a call that has not returned has one that is open.
Progress(c) ==
    \A i \in 1 .. Len(SubscribeAll) : LET r == <<c, i>> IN
        /\ status[r] = "new" <=> step[c] < i
        /\ status[r] = "open" => i = step[c] /\ outcome[c] = "none"
        /\ executed[r] = 1 => i <= step[c]
        /\ i < step[c] => executed[r] = 1
        /\ outcome[c] = "ok" => step[c] = Len(program[c]) /\ (i = step[c] => executed[r] = 1)

ProgressInv == \A c \in Calls : Progress(c)

\* The link that carried out a subscribe is the one that is up, or the call saw a loss.
SubscribedInv ==
    \A r \in Requests :
        executed[r] = 1 /\ r[1] \notin broken /\ r \notin refused /\ Asked(r).op = "subscribe"
            => Asked(r).namespace \in subs

\* No answer to r will come any more, and none came.
Unanswered(r) ==
    executed[r] = 1 /\ status[r] # "ok" /\ \A i \in DOMAIN inbox : inbox[i].cmdId # r

GoesBlank == \E r \in Requests : Unanswered(r) /\ Asked(r).namespace = "playbackMetadata"

\* Who is answered was heard.  An answer is on its way once, and was not given; an
\* answer without a command id is a refusal, for which there will be no other answer.
AnswersInv ==
    /\ \A r \in Requests : status[r] = "ok" => executed[r] = 1
    /\ \A i \in DOMAIN inbox :
          /\ inbox[i].cmdId # None =>
                /\ executed[inbox[i].cmdId] = 1 /\ status[inbox[i].cmdId] # "ok"
                /\ inbox[i].namespace = Asked(inbox[i].cmdId).namespace
                /\ \A j \in DOMAIN inbox : inbox[j].cmdId = inbox[i].cmdId => i = j
          /\ inbox[i].cmdId = None /\ inbox[i].body = "empty"
                /\ inbox[i].namespace = "playbackMetadata" => GoesBlank
    /\ blank => GoesBlank

\* A read began in the past of the speaker, and what it is answered with is not older.
BegunBefore ==
    \A r \in Requests : status[r] # "new" /\ Asked(r).op = "query"
        => since[r[1]] <= Versioned(Asked(r).namespace)

FreshAnswers ==
    \A i \in DOMAIN inbox : LET r == inbox[i].cmdId IN
        r # None /\ r \notin refused /\ Asked(r).op = "query" => since[r[1]] <= inbox[i].version

FreshInv == BegunBefore /\ FreshAnswers /\ ReadsAreFresh

\* The states of a namespace are on their way in the order of their versions, none
\* older than what was told of it, none newer than the speaker's.
States(n) == {i \in DOMAIN inbox : inbox[i].namespace = n /\ inbox[i].body = "state"}

OrderInv ==
    \A n \in Topics :
        /\ view[n] <= version[n]
        /\ \A i \in States(n) :
              /\ view[n] <= inbox[i].version /\ inbox[i].version <= version[n]
              /\ \A j \in States(n) : i <= j => inbox[i].version <= inbox[j].version

-------------------------------------------------------------------------------
(* Programs *)

\* subscribe_all is a sequence of subscribes, not empty.
LEMMA AllSubscribe ==
  /\ SubscribeAll \in Seq(Subscriptions) /\ Len(SubscribeAll) \in 1 .. 3
  /\ \A i \in 1 .. Len(SubscribeAll) : SubscribeAll[i].op = "subscribe"
<1>1. SubscribeAll \in Seq(Subscriptions) /\ Len(SubscribeAll) \in 1 .. 3
  <2> DEFINE ask(n) == Ask("subscribe", n)
             three == {"playback", "groupVolume", "playbackMetadata"}
  <2>1. \A n \in three :
           /\ ask(n) \in Seq(Subscriptions) /\ Len(ask(n)) \in {0, 1}
           /\ n \in Namespaces => Len(ask(n)) = 1
    <3>1. ASSUME NEW n \in three, n \in Namespaces
          PROVE  ask(n) \in Seq(Subscriptions) /\ Len(ask(n)) = 1
      <4>1. Request("subscribe", n) \in Subscriptions
        BY <3>1 DEF Subscriptions, Topics
      <4> QED BY <3>1, <4>1 DEF Ask
    <3>2. ASSUME NEW n \in three, n \notin Namespaces
          PROVE  ask(n) \in Seq(Subscriptions) /\ Len(ask(n)) = 0
      BY <3>2 DEF Ask
    <3> HIDE DEF ask
    <3> QED BY <3>1, <3>2
  <2>2. /\ SubscribeAll \in Seq(Subscriptions)
        /\ Len(SubscribeAll) = Len(ask("playback")) + Len(ask("groupVolume"))
                                  + Len(ask("playbackMetadata"))
    <3> HIDE DEF ask
    <3> QED BY <2>1, ConcatProperties DEF SubscribeAll, ask
  <2>3. \E n \in three : Len(ask(n)) = 1
    BY <2>1, PlaybackNamespaces
  <2> HIDE DEF ask
  <2>4. /\ Len(ask("playback")) \in {0, 1} /\ Len(ask("groupVolume")) \in {0, 1}
        /\ Len(ask("playbackMetadata")) \in {0, 1}
    BY <2>1
  <2>5. \/ Len(ask("playback")) = 1 \/ Len(ask("groupVolume")) = 1
        \/ Len(ask("playbackMetadata")) = 1
    BY <2>3
  <2>6. \A x, y, z \in {0, 1} : x = 1 \/ y = 1 \/ z = 1 => x + y + z \in 1 .. 3
    OBVIOUS
  <2> QED BY Zenon, <2>2, <2>4, <2>5, <2>6
<1>2. \A r \in Subscriptions : r.op = "subscribe"
  BY DEF Subscriptions, Request
<1> QED BY <1>1, <1>2

\* What a call may run: a sequence of requests as long as subscribe_all at most, where
\* a query stands alone; each is about a namespace that has a type.
LEMMA ProgramShape ==
  ASSUME NEW c \in Calls, NEW p \in Programs(c) \cup {<<>>}
  PROVE  /\ Len(p) \in 0 .. Len(SubscribeAll) /\ (p \in Programs(c) => Len(p) > 0)
         /\ \A i \in 1 .. Len(p) :
               /\ p[i].namespace \in DOMAIN Required /\ p[i].op \in {"subscribe", "control", "query"}
               /\ p[i].op = "query" => i = 1 /\ Len(p) = 1
               /\ p[i].op = "subscribe" => p[i].namespace \in Topics
<1>1. \A r \in Subscriptions : /\ r.op = "subscribe" /\ r.namespace \in Topics
                               /\ r.namespace \in DOMAIN Required
  BY DEF Subscriptions, Request, Topics, Required
<1>2. CASE c \in Subscribers /\ p \in Programs(c)
  BY <1>1, <1>2, AllSubscribe DEF Programs
<1>3. CASE c \notin Subscribers /\ p \in Programs(c)
  <2>1. PICK r \in Methods : p = <<r>>
    BY <1>3 DEF Programs
  <2>2. /\ r.namespace \in DOMAIN Required /\ r.op \in {"subscribe", "control", "query"}
        /\ r.op = "subscribe" => r.namespace \in Topics
    BY <1>1 DEF Methods, Request, Required, PlaybackControls, VolumeControls,
       PlayerVolumeControls, LoadCloudQueue, GetVolume, GetPlayerVolume, GetPlaybackStatus,
       GetMetadata, MatchAccount, CreatePlaybackSession
  <2> QED BY <2>1, <2>2, AllSubscribe
<1>4. CASE p = <<>> /\ p \notin Programs(c)
  BY <1>4, AllSubscribe
<1> QED BY <1>2, <1>3, <1>4

-------------------------------------------------------------------------------
(* What a step does to the messages on their way *)

\* Messages of M join at the end, of which only the first may have a command id.
Joins(M) ==
    /\ inbox' \in Seq(Messages) /\ Len(inbox) <= Len(inbox')
    /\ \A i \in DOMAIN inbox : inbox'[i] = inbox[i]
    /\ \A i \in DOMAIN inbox' \ DOMAIN inbox :
          inbox'[i] \in M /\ (inbox'[i].cmdId # None => i = Len(inbox) + 1)

\* The d messages after the first k leave, and maybe some of the last ones.
Was(k, d, i) == IF i <= k THEN i ELSE i + d

Leave(k, d) ==
    /\ inbox' \in Seq(Messages) /\ Len(inbox') <= Len(inbox)
    /\ \A i \in DOMAIN inbox' : /\ Was(k, d, i) \in DOMAIN inbox
                                /\ inbox'[i] = inbox[Was(k, d, i)]

\* Messages keep their order.
LEMMA WasGrows ==
  ASSUME NEW k \in Nat, NEW d \in Nat, NEW i \in Nat, NEW j \in Nat
  PROVE  /\ i <= j => Was(k, d, i) <= Was(k, d, j)
         /\ Was(k, d, i) = Was(k, d, j) => i = j
BY DEF Was

\* One message arrives.
LEMMA OneJoins ==
  ASSUME inbox \in Seq(Messages), NEW m \in Messages, inbox' = Append(inbox, m)
  PROVE  Joins({m}) /\ Len(inbox') = Len(inbox) + 1
BY AppendProperties DEF Joins

\* Two messages arrive.
LEMMA TwoJoin ==
  ASSUME inbox \in Seq(Messages), NEW m \in Messages, NEW e \in Messages, e.cmdId = None,
         inbox' = Append(Append(inbox, m), e)
  PROVE  Joins({m, e}) /\ Len(inbox') = Len(inbox) + 2
<1>1. /\ Append(inbox, m) \in Seq(Messages) /\ Len(Append(inbox, m)) = Len(inbox) + 1
      /\ \A i \in DOMAIN inbox : Append(inbox, m)[i] = inbox[i]
      /\ Append(inbox, m)[Len(inbox) + 1] = m
  BY AppendProperties
<1> DEFINE q == Append(inbox, m)
<1> HIDE DEF q
<1>2. /\ inbox' \in Seq(Messages) /\ Len(inbox') = Len(q) + 1
      /\ \A i \in DOMAIN q : inbox'[i] = q[i]
      /\ inbox'[Len(q) + 1] = e
  BY <1>1, AppendProperties DEF q
<1> QED BY <1>1, <1>2 DEF Joins, q

\* A change of the state of n, alone or with the answer that goes before it.
LEMMA ChangesJoin ==
  ASSUME inbox \in Seq(Messages), NEW n \in Topics, NEW v \in Nat
  PROVE  /\ Changes(n, v, <<>>) =>
               Joins({Message(n, "state", v, None)}) /\ Len(inbox') <= Len(inbox) + 1
         /\ \A m \in Messages : Changes(n, v, <<m>>) =>
               Joins({m, Message(n, "state", v, None)}) /\ Len(inbox') <= Len(inbox) + 2
<1> DEFINE e == Message(n, "state", v, None)
<1>1. e \in Messages /\ e.cmdId = None
  BY DEF Message, Messages, Topics, Required
<1> HIDE DEF e
<1>2. ASSUME Changes(n, v, <<>>)
      PROVE  Joins({e}) /\ Len(inbox') <= Len(inbox) + 1
  <2>1. inbox' = IF n \in subs THEN Append(inbox, e) ELSE inbox
    BY <1>1, <1>2, ConcatEmptySeq, AppendIsConcat DEF Changes, e
  <2>2. CASE n \in subs
    BY <1>1, <2>1, <2>2, OneJoins
  <2>3. CASE n \notin subs
    BY <2>1, <2>3, LenProperties DEF Joins
  <2> QED BY <2>2, <2>3
<1>3. ASSUME NEW m \in Messages, Changes(n, v, <<m>>)
      PROVE  Joins({m, e}) /\ Len(inbox') <= Len(inbox) + 2
  <2>1. Append(inbox, m) \in Seq(Messages) /\ Append(inbox, m) = inbox \o <<m>>
    BY AppendProperties, AppendIsConcat
  <2>2. inbox' = IF n \in subs THEN Append(Append(inbox, m), e) ELSE Append(inbox, m)
    BY <1>1, <1>3, <2>1, ConcatEmptySeq, AppendIsConcat DEF Changes, e
  <2>3. CASE n \in subs
    BY <1>1, <2>2, <2>3, TwoJoin, LenProperties
  <2>4. CASE n \notin subs
    BY <2>2, <2>4, OneJoins, LenProperties DEF Joins
  <2> QED BY <2>3, <2>4
<1> QED BY <1>2, <1>3 DEF e

\* The first message is taken, or the one behind those of the channel; the channel
\* loses what it holds; or the link ends with some of the last unread.
LEMMA SomeLeave ==
  ASSUME inbox \in Seq(Messages), stored \in 0 .. Len(inbox)
  PROVE  /\ stored > 0 /\ inbox' = Tail(inbox) =>
               /\ Leave(0, 1) /\ Head(inbox) = inbox[1] /\ 1 \in DOMAIN inbox
               /\ Len(inbox') = Len(inbox) - 1
         /\ stored < Len(inbox) /\ inbox' = RemoveAt(inbox, stored + 1) =>
               Leave(stored, 1) /\ Len(inbox') = Len(inbox) - 1
         /\ \A k \in 1 .. Len(inbox) + 1 : inbox' = SubSeq(inbox, k, Len(inbox)) => Leave(0, k - 1)
         /\ (\E k \in stored .. Len(inbox) : inbox' = SubSeq(inbox, 1, k)) =>
               Leave(0, 0) /\ stored <= Len(inbox')
         /\ UNCHANGED inbox => Leave(0, 0)
<1>0. /\ DOMAIN inbox = 1 .. Len(inbox) /\ Len(inbox) \in Nat /\ stored \in Nat
      /\ \A i \in DOMAIN inbox : inbox[i] \in Messages
  BY LenProperties, ElementOfSeq
<1>1. ASSUME stored > 0, inbox' = Tail(inbox)
      PROVE  /\ Leave(0, 1) /\ Head(inbox) = inbox[1] /\ 1 \in DOMAIN inbox
             /\ Len(inbox') = Len(inbox) - 1
  <2>1. inbox # <<>> /\ 1 \in DOMAIN inbox
    BY <1>0, <1>1
  <2>2. /\ Tail(inbox) \in Seq(Messages) /\ Len(Tail(inbox)) = Len(inbox) - 1
        /\ \A i \in 1 .. Len(Tail(inbox)) : Tail(inbox)[i] = inbox[i + 1]
    BY <2>1, HeadTailProperties
  <2>3. DOMAIN inbox' = 1 .. Len(inbox) - 1
    BY <1>1, <2>2, LenProperties
  <2> QED BY <1>0, <1>1, <2>1, <2>2, <2>3 DEF Leave, Was
<1>2. ASSUME stored < Len(inbox), inbox' = RemoveAt(inbox, stored + 1)
      PROVE  Leave(stored, 1) /\ Len(inbox') = Len(inbox) - 1
  <2> DEFINE first == SubSeq(inbox, 1, stored)
             last  == SubSeq(inbox, stored + 2, Len(inbox))
  <2>0. stored < Len(inbox) /\ stored \in Nat /\ Len(inbox) \in Nat
    BY <1>0, <1>2
  <2>1. inbox' = first \o last
    <3>1. (stored + 1) - 1 = stored /\ (stored + 1) + 1 = stored + 2
      BY <2>0
    <3>2. inbox' = SubSeq(inbox, 1, (stored + 1) - 1) \o SubSeq(inbox, (stored + 1) + 1, Len(inbox))
      BY <1>2, Zenon DEF RemoveAt
    <3> QED BY <3>1, <3>2, Zenon
  <2>2. /\ first \in Seq(Messages) /\ Len(first) = stored
        /\ \A i \in 1 .. stored : first[i] = inbox[i]
    <3>1. \A i \in 1 .. stored : inbox[i] \in Messages
      BY <1>0, <1>2
    <3>2. /\ first \in Seq(Messages)
          /\ Len(first) = IF 1 <= stored THEN stored - 1 + 1 ELSE 0
          /\ \A i \in 1 .. stored - 1 + 1 : first[i] = inbox[1 + i - 1]
      BY <1>0, <3>1, SubSeqProperties
    <3> HIDE DEF first
    <3> QED BY <1>0, <3>2
  <2>3. /\ last \in Seq(Messages) /\ Len(last) = Len(inbox) - stored - 1
        /\ \A i \in 1 .. Len(inbox) - stored - 1 : last[i] = inbox[stored + 1 + i]
    <3>1. \A i \in stored + 2 .. Len(inbox) : inbox[i] \in Messages
      BY <1>0, <1>2
    <3>2. /\ last \in Seq(Messages)
          /\ Len(last) = IF stored + 2 <= Len(inbox) THEN Len(inbox) - (stored + 2) + 1 ELSE 0
          /\ \A i \in 1 .. Len(inbox) - (stored + 2) + 1 : last[i] = inbox[stored + 2 + i - 1]
      BY <1>0, <3>1, SubSeqProperties
    <3> HIDE DEF last
    <3>3. Len(last) = Len(inbox) - stored - 1
      <4>1. CASE stored + 2 <= Len(inbox)
        BY <1>0, <3>2, <4>1
      <4>2. CASE ~(stored + 2 <= Len(inbox))
        <5>1. Len(inbox) = stored + 1
          BY <2>0, <4>2
        <5>2. Len(last) = 0
          BY <3>2, <4>2
        <5> QED BY <2>0, <5>1, <5>2
      <4> QED BY <4>1, <4>2
    <3>4. ASSUME NEW i \in 1 .. Len(inbox) - stored - 1
          PROVE  last[i] = inbox[stored + 1 + i]
      <4>1. /\ i \in 1 .. Len(inbox) - (stored + 2) + 1
            /\ stored + 2 + i - 1 = stored + 1 + i
        BY <1>0, <1>2
      <4>2. last[i] = inbox[stored + 2 + i - 1]
        BY <3>2, <4>1
      <4> QED BY <4>1, <4>2
    <3> QED BY <3>2, <3>3, <3>4
  <2> HIDE DEF first, last
  <2>4. /\ inbox' \in Seq(Messages) /\ Len(inbox') = Len(inbox) - 1
        /\ \A i \in 1 .. Len(inbox) - 1 :
              inbox'[i] = IF i <= stored THEN first[i] ELSE last[i - stored]
    <3>1. /\ first \o last \in Seq(Messages)
          /\ Len(first \o last) = Len(first) + Len(last)
          /\ \A i \in 1 .. Len(first) + Len(last) :
                (first \o last)[i] = IF i <= Len(first) THEN first[i] ELSE last[i - Len(first)]
      BY <2>2, <2>3, ConcatProperties
    <3>2. Len(first) + Len(last) = Len(inbox) - 1 /\ Len(first) = stored
      BY <1>0, <2>2, <2>3
    <3> QED BY <2>1, <3>1, <3>2
  <2>5. DOMAIN inbox' = 1 .. Len(inbox) - 1
    BY <2>4, LenProperties
  <2>6. ASSUME NEW i \in DOMAIN inbox'
        PROVE  Was(stored, 1, i) \in DOMAIN inbox /\ inbox'[i] = inbox[Was(stored, 1, i)]
    <3>1. CASE i <= stored
      BY <1>0, <2>2, <2>4, <2>5, <3>1 DEF Was
    <3>2. CASE ~(i <= stored)
      <4>1. i - stored \in 1 .. Len(inbox) - stored - 1 /\ stored + 1 + (i - stored) = i + 1
        BY <1>0, <2>5, <3>2
      <4> QED BY <1>0, <2>3, <2>4, <2>5, <3>2, <4>1 DEF Was
    <3> QED BY <3>1, <3>2
  <2>7. Len(inbox') <= Len(inbox)
    BY <1>0, <2>4
  <2> QED BY <2>4, <2>6, <2>7 DEF Leave
<1>3. ASSUME NEW k \in 1 .. Len(inbox) + 1, inbox' = SubSeq(inbox, k, Len(inbox))
      PROVE  Leave(0, k - 1)
  <2>1. \A i \in k .. Len(inbox) : inbox[i] \in Messages
    BY <1>0
  <2>2. /\ inbox' \in Seq(Messages)
        /\ Len(inbox') = IF k <= Len(inbox) THEN Len(inbox) - k + 1 ELSE 0
        /\ \A i \in 1 .. Len(inbox) - k + 1 : inbox'[i] = inbox[k + i - 1]
    BY <1>0, <1>3, <2>1, SubSeqProperties
  <2>3. DOMAIN inbox' = 1 .. Len(inbox')
    BY <2>2, LenProperties
  <2> QED BY <1>0, <2>2, <2>3 DEF Leave, Was
<1>4. ASSUME NEW k \in stored .. Len(inbox), inbox' = SubSeq(inbox, 1, k)
      PROVE  Leave(0, 0) /\ stored <= Len(inbox')
  <2>1. \A i \in 1 .. k : inbox[i] \in Messages
    BY <1>0
  <2>2. /\ inbox' \in Seq(Messages)
        /\ Len(inbox') = IF 1 <= k THEN k - 1 + 1 ELSE 0
        /\ \A i \in 1 .. k - 1 + 1 : inbox'[i] = inbox[1 + i - 1]
    BY <1>0, <1>4, <2>1, SubSeqProperties
  <2>3. DOMAIN inbox' = 1 .. k /\ Len(inbox') = k
    BY <1>0, <2>2, LenProperties
  <2> QED BY <1>0, <2>2, <2>3 DEF Leave, Was
<1>5. UNCHANGED inbox => Leave(0, 0)
  BY <1>0 DEF Leave, Was
<1> QED BY <1>1, <1>2, <1>3, <1>4, <1>5

\* What is on its way are messages.
LEMMA InboxTyped ==
  ASSUME Typed
  PROVE  /\ inbox \in Seq(Messages) /\ DOMAIN inbox = 1 .. Len(inbox) /\ Len(inbox) \in Nat
         /\ \A i \in DOMAIN inbox : inbox[i] \in Messages
<1>1. inbox \in Seq(Messages)
  BY DEF Typed
<1> QED BY <1>1, LenProperties, ElementOfSeq

\* The connection's task takes an answer out, or hands an event to the channel, which
\* may lose what it holds.
LEMMA ReceiveMoves ==
  ASSUME Typed, Receive
  PROVE  /\ stored + 1 \in DOMAIN inbox /\ Unread \in Messages
         /\ UNCHANGED <<speaker, link, client, history>>
         /\ stored' \in 0 .. Len(inbox') /\ stored' <= Capacity
         /\ lagged' \in BOOLEAN /\ (lagged' => stored' = 0)
         /\ \/ /\ Awaited(Unread) /\ Unread.cmdId \in Requests
               /\ Reply(Unread.cmdId, Unread) /\ Leave(stored, 1)
            \/ /\ UNCHANGED <<sent, calls>>
               /\ \E d \in Nat : Leave(0, d)
<1>1. /\ stored \in 0 .. Len(inbox) /\ stored < Len(inbox) /\ stored <= Capacity
      /\ lagged \in BOOLEAN /\ (lagged => stored = 0)
  BY DEF Typed, Receive
<1>2. stored + 1 \in DOMAIN inbox /\ Unread \in Messages
  BY <1>1, InboxTyped DEF Unread
<1>5. UNCHANGED <<speaker, link, client, history>>
  BY DEF Receive
<1>3. CASE /\ Awaited(Unread) /\ Reply(Unread.cmdId, Unread)
           /\ inbox' = RemoveAt(inbox, stored + 1) /\ UNCHANGED forwarder
  <2>1. Leave(stored, 1) /\ Len(inbox') = Len(inbox) - 1
    BY <1>1, <1>3, SomeLeave, InboxTyped
  <2>2. Unread.cmdId \in Requests
    BY <1>2, <1>3 DEF Awaited, Messages
  <2>3. stored' \in 0 .. Len(inbox')
    BY <1>1, <1>3, <2>1, InboxTyped
  <2> QED BY <1>1, <1>2, <1>3, <1>5, <2>1, <2>2, <2>3
<1>4. CASE Broadcast /\ UNCHANGED <<sent, calls>>
  <2>1. CASE stored < Capacity /\ ~lagged
    <3>1. stored' = stored + 1 /\ UNCHANGED <<inbox, lagged>>
      BY <1>4, <2>1 DEF Broadcast
    <3>2. Leave(0, 0)
      BY <1>1, <3>1, SomeLeave, InboxTyped
    <3>3. stored' \in 0 .. Len(inbox') /\ stored' <= Capacity
      BY <1>1, <2>1, <3>1, InboxTyped, PlaybackCapacity
    <3>4. lagged' = FALSE
      BY <1>1, <2>1, <3>1
    <3> QED BY <1>2, <1>4, <1>5, <3>1, <3>2, <3>3, <3>4
  <2>2. CASE ~(stored < Capacity /\ ~lagged)
    <3>1. /\ lagged' = TRUE /\ stored' = 0
          /\ inbox' = SubSeq(inbox, stored + 2, Len(inbox))
      BY <1>4, <2>2 DEF Broadcast
    <3>2. PICK k \in 1 .. Len(inbox) + 1 : k = stored + 2 /\ k - 1 \in Nat
      BY <1>1, InboxTyped
    <3>3. Leave(0, k - 1)
      BY <1>1, <3>1, <3>2, SomeLeave, InboxTyped
    <3>4. stored' \in 0 .. Len(inbox') /\ stored' <= Capacity
      BY <3>1, <3>3, LenProperties, PlaybackCapacity DEF Leave
    <3> QED BY <1>2, <1>4, <1>5, <3>1, <3>2, <3>3, <3>4
  <2> QED BY <2>1, <2>2
<1> QED BY <1>3, <1>4 DEF Receive

\* The forwarder takes the first message.
LEMMA ForwardMoves ==
  ASSUME Typed, Forward
  PROVE  /\ Leave(0, 1) /\ 1 \in DOMAIN inbox /\ inbox[1] \in Messages /\ Tell(inbox[1])
         /\ stored' \in 0 .. Len(inbox') /\ stored' <= Capacity /\ ~lagged'
         /\ UNCHANGED <<speaker, link, sent, calls, listening, refused, broken>>
<1>1. /\ stored \in 0 .. Len(inbox) /\ stored > 0 /\ stored <= Capacity
      /\ lagged \in BOOLEAN /\ (lagged => stored = 0)
      /\ stored' = stored - 1 /\ inbox' = Tail(inbox) /\ UNCHANGED lagged
  BY DEF Typed, Forward
<1>2. /\ Leave(0, 1) /\ Head(inbox) = inbox[1] /\ 1 \in DOMAIN inbox
      /\ Len(inbox') = Len(inbox) - 1
  BY <1>1, SomeLeave, InboxTyped
<1>3. stored' \in 0 .. Len(inbox') /\ stored' <= Capacity /\ ~lagged'
  BY <1>1, <1>2, InboxTyped, PlaybackCapacity
<1> QED BY <1>2, <1>3, InboxTyped DEF Forward

\* The link ends, or its announcement finds the channel full.
LEMMA LinkMoves ==
  ASSUME Typed, LinkEnds \/ Announce
  PROVE  /\ \E d \in Nat : Leave(0, d)
         /\ stored' \in 0 .. Len(inbox') /\ stored' <= Capacity
         /\ lagged' \in BOOLEAN /\ (lagged' => stored' = 0)
         /\ UNCHANGED <<version, changes, sent, calls, client, refused>>
<1>1. /\ stored \in 0 .. Len(inbox) /\ stored <= Capacity /\ stored \in Nat
      /\ lagged \in BOOLEAN /\ (lagged => stored = 0)
  BY DEF Typed
<1>2. CASE LinkEnds
  <2>1. Leave(0, 0) /\ stored <= Len(inbox') /\ UNCHANGED forwarder
    BY <1>1, <1>2, SomeLeave, InboxTyped DEF LinkEnds
  <2>2. Len(inbox') \in Nat
    BY <2>1, LenProperties DEF Leave
  <2> QED BY <1>1, <1>2, <2>1, <2>2 DEF LinkEnds
<1>3. CASE Announce
  <2>1. /\ lagged' = TRUE /\ stored' = 0
        /\ inbox' = SubSeq(inbox, stored + 1, Len(inbox))
    BY <1>3 DEF Announce
  <2>2. PICK k \in 1 .. Len(inbox) + 1 : k = stored + 1 /\ k - 1 \in Nat
    BY <1>1, InboxTyped
  <2>3. Leave(0, k - 1)
    BY <1>1, <2>1, <2>2, SomeLeave, InboxTyped
  <2>4. stored' \in 0 .. Len(inbox') /\ stored' <= Capacity
    BY <2>1, <2>3, LenProperties, PlaybackCapacity DEF Leave
  <2> QED BY <1>3, <2>1, <2>2, <2>3, <2>4 DEF Announce
<1> QED BY <1>2, <1>3

-------------------------------------------------------------------------------
(* Types and progress *)

\* A request that was sent is one of its call's program.
LEMMA SentIsAsked ==
  ASSUME Typed, ProgressInv, NEW r \in Requests, status[r] # "new"
  PROVE  LET c == r[1]  i == r[2] IN
         /\ r = <<c, i>> /\ c \in Calls /\ i \in 1 .. step[c] /\ i \in 1 .. Len(SubscribeAll)
         /\ Asked(r) = program[c][i]
         /\ Asked(r).namespace \in DOMAIN Required
         /\ Asked(r).op \in {"subscribe", "control", "query"}
         /\ Asked(r).op = "query" => i = 1 /\ step[c] = 1 /\ Len(program[c]) = 1
         /\ Asked(r).op = "subscribe" => Asked(r).namespace \in Topics
<1>1. PICK c \in Calls, i \in 1 .. Len(SubscribeAll) : r = <<c, i>>
  BY DEF Requests
<1>2. r[1] = c /\ r[2] = i
  BY <1>1
<1>3. i \in 1 .. step[c] /\ step[c] \in 1 .. Len(program[c])
  BY <1>1, AllSubscribe DEF ProgressInv, Progress, Typed
<1>4. i \in 1 .. Len(program[c])
  BY <1>3, AllSubscribe
<1>5. program[c] \in Programs(c) \cup {<<>>}
  BY DEF Typed
<1>6. /\ program[c][i].namespace \in DOMAIN Required
      /\ program[c][i].op \in {"subscribe", "control", "query"}
      /\ program[c][i].op = "query" => i = 1 /\ Len(program[c]) = 1
      /\ program[c][i].op = "subscribe" => program[c][i].namespace \in Topics
  BY <1>4, <1>5, ProgramShape
<1>7. Len(program[c]) = 1 => step[c] = 1
  BY <1>3
<1> QED BY <1>1, <1>2, <1>3, <1>6, <1>7 DEF Asked

\* The answer to a request that is carried out.
Answer(r) ==
    LET n == Asked(r).namespace IN
    IF Asked(r).op = "query" THEN Message(n, "state", Versioned(n), r)
                             ELSE Message(n, "empty", 0, r)

\* The speaker carries out a request: the answer joins, and the new state that follows.
LEMMA AcceptJoins ==
  ASSUME Typed, ProgressInv, NEW r \in Requests, Accept(r)
  PROVE  LET n == Asked(r).namespace IN
         /\ n \in DOMAIN Required /\ Answer(r) \in Messages /\ Len(inbox') <= MaxInbox
         /\ \/ Joins({Answer(r)}) /\ UNCHANGED version
            \/ /\ Asked(r).op # "query" /\ n \in Topics
               /\ Joins({Answer(r), Message(n, "state", version'[n], None)})
               /\ version' = [version EXCEPT ![n] = version[n] + 1]
<1> DEFINE n  == Asked(r).namespace
           op == Asked(r).op
           ok == Answer(r)
<1>1. /\ status[r] # "new" /\ Len(inbox) + 2 <= MaxInbox /\ inbox \in Seq(Messages)
      /\ version \in [Topics -> Nat]
  BY DEF Accept, Command!Execute, Room, Typed
<1>2. n \in DOMAIN Required
  BY <1>1, SentIsAsked
<1>3. ok \in Messages
  BY <1>1, <1>2 DEF Answer, Message, Messages, Versioned
<1>4. CASE op = "control" /\ n \in Topics
  <2>1. Changes(n, version[n] + 1, <<ok>>)
    BY <1>4 DEF Accept, Answer
  <2>2. Joins({ok, Message(n, "state", version[n] + 1, None)}) /\ Len(inbox') <= Len(inbox) + 2
    <3>1. version[n] + 1 \in Nat /\ n \in Topics
      BY <1>1, <1>4
    <3> HIDE DEF ok, n
    <3> QED BY <1>1, <1>3, <3>1, <2>1, ChangesJoin
  <2>3. /\ version' = [version EXCEPT ![n] = version[n] + 1]
        /\ version'[n] = version[n] + 1
    BY <1>1, <1>4, <2>1 DEF Changes
  <2>4. Len(inbox') \in Nat /\ Len(inbox) \in Nat
    BY <1>1, <2>2, LenProperties DEF Joins
  <2>5. Len(inbox') <= MaxInbox
    BY <1>1, <2>2, <2>4, PlaybackBounds
  <2> QED BY <1>2, <1>3, <1>4, <2>2, <2>3, <2>5
<1>5. CASE ~(op = "control" /\ n \in Topics)
  <2>1. inbox' = Append(inbox, ok) /\ UNCHANGED version
    BY <1>5 DEF Accept, Answer
  <2>2. Joins({ok}) /\ Len(inbox') = Len(inbox) + 1
    <3> HIDE DEF ok
    <3> QED BY <1>1, <1>3, <2>1, OneJoins
  <2>3. Len(inbox) \in Nat
    BY <1>1, LenProperties
  <2>4. Len(inbox') <= MaxInbox
    BY <1>1, <2>2, <2>3, PlaybackBounds
  <2> QED BY <1>2, <1>3, <2>1, <2>2, <2>4
<1> QED BY <1>4, <1>5

\* What the speaker says on its own: a new state, a fault, a first notification.
LEMMA NoticeJoins ==
  ASSUME Typed, NEW n \in Topics, Change(n) \/ Fault \/ FirstEvent(n)
  PROVE  /\ Len(inbox') <= MaxInbox
         /\ \/ Joins({Message(n, "state", version'[n], None)})
            \/ Joins({Message("playback", "error", 0, None)})
         /\ \/ UNCHANGED version
            \/ version' = [version EXCEPT ![n] = version[n] + 1]
<1>1. inbox \in Seq(Messages) /\ version \in [Topics -> Nat] /\ Len(inbox) \in Nat
  BY LenProperties DEF Typed
<1>2. CASE Change(n)
  <2>1. Changes(n, version[n] + 1, <<>>) /\ Len(inbox) + 1 <= MaxInbox
    BY <1>2 DEF Change, Room
  <2>2. Joins({Message(n, "state", version[n] + 1, None)}) /\ Len(inbox') <= Len(inbox) + 1
    <3>1. version[n] + 1 \in Nat
      BY <1>1
    <3> QED BY <1>1, <2>1, <3>1, ChangesJoin
  <2>3. version' = [version EXCEPT ![n] = version[n] + 1] /\ version'[n] = version[n] + 1
    BY <1>1, <2>1 DEF Changes
  <2>4. Len(inbox') \in Nat
    BY <2>2, LenProperties DEF Joins
  <2> QED BY <1>1, <2>1, <2>2, <2>3, <2>4, PlaybackBounds
<1>3. ASSUME NEW m \in Messages, inbox' = Append(inbox, m), Room(1)
      PROVE  Joins({m}) /\ Len(inbox') <= MaxInbox
  BY <1>1, <1>3, OneJoins, PlaybackBounds DEF Room
<1>4. CASE Fault
  <2>1. Message("playback", "error", 0, None) \in Messages
    BY DEF Message, Messages, Required
  <2> QED BY <1>3, <1>4, <2>1 DEF Fault
<1>5. CASE FirstEvent(n)
  <2>1. Message(n, "state", version[n], None) \in Messages
    BY <1>1 DEF Message, Messages, Topics, Required
  <2> QED BY <1>3, <1>5, <2>1 DEF FirstEvent
<1> QED BY <1>2, <1>4, <1>5

\* A reply moves its call on, or ends it; nothing else of the calls changes.
LEMMA ReplyMoves ==
  ASSUME Typed, ProgressInv, NEW r \in Requests, NEW m \in Messages, Reply(r, m)
  PROVE  LET c == r[1] IN
         /\ c \in Calls /\ r = <<c, step[c]>> /\ executed[r] = 1 /\ outcome[c] = "none"
         /\ UNCHANGED <<program, since, executed>>
         /\ \/ /\ step[c] < Len(program[c]) /\ <<c, step[c] + 1>> \in Requests
               /\ status' = [status EXCEPT ![r] = "ok", ![<<c, step[c] + 1>>] = "open"]
               /\ step' = [step EXCEPT ![c] = @ + 1] /\ UNCHANGED <<outcome, got>>
            \/ /\ status' = [status EXCEPT ![r] = "ok"] /\ UNCHANGED step
               /\ \E o \in {"ok", "undecodable", "not_connected"} :
                     /\ outcome' = [outcome EXCEPT ![c] = o]
                     /\ o = "ok" => step[c] >= Len(program[c])
               /\ got' = IF Asked(r).op = "query" THEN [got EXCEPT ![c] = m.version] ELSE got
<1> DEFINE c == r[1]
<1>1. status[r] = "open" /\ executed[r] = 1 /\ UNCHANGED <<program, since>>
  BY DEF Reply
<1>2. c \in Calls /\ r = <<c, r[2]>> /\ r[2] \in 1 .. Len(SubscribeAll)
  BY <1>1, SentIsAsked
<1>3. r[2] = step[c] /\ outcome[c] = "none"
  BY <1>1, <1>2 DEF ProgressInv, Progress
<1>4. CASE step[c] < Len(program[c]) /\ link # "over"
  <2>1. <<c, step[c] + 1>> \in Requests
    <3>1. program[c] \in Programs(c) \cup {<<>>} /\ step[c] \in Nat
      BY <1>2 DEF Typed
    <3>2. Len(program[c]) \in 0 .. Len(SubscribeAll) /\ Len(SubscribeAll) \in 1 .. 3
      BY <1>2, <3>1, ProgramShape, AllSubscribe
    <3> QED BY <1>2, <1>4, <3>1, <3>2 DEF Requests
  <2> QED BY <1>1, <1>2, <1>3, <1>4, <2>1 DEF Reply
<1>5. CASE ~(step[c] < Len(program[c]) /\ link # "over")
  <2> DEFINE o == CASE step[c] < Len(program[c])               -> "not_connected"
                    [] Asked(r).op = "query" /\ ~Decodes(m) -> "undecodable"
                    [] OTHER                                -> "ok"
  <2>1. /\ status' = [status EXCEPT ![r] = "ok"] /\ UNCHANGED <<executed, step>>
        /\ got' = IF Asked(r).op = "query" THEN [got EXCEPT ![c] = m.version] ELSE got
        /\ outcome' = [outcome EXCEPT ![c] = o]
    BY <1>5 DEF Reply, Command!Succeed, Return
  <2>2. step[c] \in Nat /\ Len(program[c]) \in Nat
    <3>1. program[c] \in Programs(c) \cup {<<>>} /\ step[c] \in Nat
      BY <1>2 DEF Typed
    <3> QED BY <1>2, <3>1, ProgramShape, AllSubscribe
  <2>3. o \in {"ok", "undecodable", "not_connected"} /\ (o = "ok" => step[c] >= Len(program[c]))
    BY <2>2
  <2> HIDE DEF o
  <2> QED BY <1>1, <1>2, <1>3, <2>1, <2>3
<1> QED BY <1>4, <1>5

\* Every step writes values of the types, and at most as many messages as there is room for.
LEMMA TypedKeeps ==
  ASSUME Typed, ProgressInv, [Next]_vars
  PROVE  Typed'
<1> USE DEF Typed
<1>1. ASSUME NEW n \in Topics, Change(n) \/ Fault \/ FirstEvent(n)
      PROVE  Typed'
  <2>1. inbox' \in Seq(Messages) /\ Len(inbox') <= MaxInbox /\ version' \in [Topics -> Nat]
    <3>1. version \in [Topics -> Nat]
      OBVIOUS
    <3> HIDE DEF Typed
    <3> QED BY <1>1, <3>1, NoticeJoins DEF Joins
  <2>2. changes' \in 0 .. MaxChanges
    BY <1>1, PlaybackBounds DEF Change, Fault, FirstEvent
  <2>3. owed' \subseteq subs'
    BY <1>1 DEF Change, Fault, FirstEvent
  <2>4. UNCHANGED <<subs, link, forwarder, sent, calls, client, history>>
    BY <1>1 DEF Change, Fault, FirstEvent
  <2>5. Len(inbox) <= Len(inbox')
    BY <1>1, NoticeJoins DEF Joins
  <2>6. stored' \in 0 .. Len(inbox')
    BY <2>1, <2>4, <2>5, LenProperties
  <2> QED BY <2>1, <2>2, <2>3, <2>4, <2>6
<1>2. ASSUME LinkEnds \/ Announce, link' \in {"up", "down", "over"}
      PROVE  Typed'
  <2>1. inbox' \in Seq(Messages) /\ Len(inbox') <= MaxInbox
    BY <1>2, LinkMoves, LenProperties, PlaybackBounds DEF Leave
  <2>2. /\ stored' \in 0 .. Len(inbox') /\ stored' <= Capacity
        /\ lagged' \in BOOLEAN /\ (lagged' => stored' = 0)
    BY <1>2, LinkMoves
  <2> QED BY <1>2, <2>1, <2>2 DEF LinkEnds, Announce
<1>3. ASSUME NEW r \in Requests, Accept(r)
      PROVE  Typed'
  <2>1. inbox' \in Seq(Messages) /\ Len(inbox') <= MaxInbox /\ version' \in [Topics -> Nat]
    <3> DEFINE n == Asked(r).namespace
    <3>1. \/ Joins({Answer(r)}) /\ UNCHANGED version
          \/ /\ n \in Topics /\ version' = [version EXCEPT ![n] = version[n] + 1]
             /\ Joins({Answer(r), Message(n, "state", version'[n], None)})
      BY <1>3, AcceptJoins
    <3>2. Len(inbox') <= MaxInbox
      BY <1>3, AcceptJoins
    <3>3. version \in [Topics -> Nat]
      OBVIOUS
    <3> HIDE DEF n, Typed
    <3> QED BY <3>1, <3>2, <3>3 DEF Joins
  <2>2. status[r] # "new" /\ executed' = [executed EXCEPT ![r] = 1]
    BY <1>3 DEF Accept, Command!Execute
  <2>3. subs' \subseteq Topics /\ owed' \subseteq subs'
    BY <1>3, <2>2, SentIsAsked DEF Accept
  <2>4. Len(inbox) <= Len(inbox')
    BY <1>3, AcceptJoins DEF Joins
  <2>5. stored' \in 0 .. Len(inbox')
    BY <1>3, <2>1, <2>4, LenProperties DEF Accept
  <2> QED BY <1>3, <2>1, <2>2, <2>3, <2>5 DEF Accept
<1>4. ASSUME NEW r \in Requests, Refuse(r)
      PROVE  Typed'
  <2>1. status[r] # "new" /\ executed' = [executed EXCEPT ![r] = 1]
    BY <1>4 DEF Refuse, Command!Execute
  <2>2. \A id \in {r, None} : Message(Asked(r).namespace, "empty", 0, id) \in Messages
    BY <2>1, SentIsAsked DEF Message, Messages
  <2>3. /\ inbox' \in Seq(Messages) /\ Len(inbox') <= MaxInbox
        /\ stored' \in 0 .. Len(inbox')
    <3>1. \E m \in Messages : inbox' = Append(inbox, m)
      BY <1>4, <2>2 DEF Refuse
    <3>2. Len(inbox) + 1 <= MaxInbox /\ Len(inbox) \in Nat /\ UNCHANGED stored
      BY <1>4, LenProperties DEF Refuse, Room
    <3> QED BY <3>1, <3>2, OneJoins, PlaybackBounds DEF Joins
  <2> QED BY <1>4, <2>1, <2>3 DEF Refuse
<1>5. ASSUME NEW r \in Requests, Fail(r)
      PROVE  Typed'
  <2>1. r[1] \in Calls
    BY DEF Requests
  <2>2. \E f \in Command!Failures : status' = [status EXCEPT ![r] = f]
    BY <1>5 DEF Fail, Command!Fail
  <2> QED BY <1>5, <2>1, <2>2 DEF Fail, Return, Command!Fail
<1>6. ASSUME NEW c \in Calls, Begin(c)
      PROVE  Typed'
  <2>1. PICK p \in Programs(c) :
           /\ program' = [program EXCEPT ![c] = p]
           /\ since' = [since EXCEPT ![c] = IF p[1].op = "query" THEN Versioned(p[1].namespace)
                                                                 ELSE 0]
    BY <1>6 DEF Begin
  <2>2. since' \in [Calls -> Nat]
    BY <2>1 DEF Versioned
  <2>3. Len(p) > 0 /\ Len(p) \in Nat /\ <<c, 1>> \in Requests
    BY ProgramShape, AllSubscribe DEF Requests
  <2>4. /\ status' \in [Requests -> {"new", "open", "ok"} \cup Command!Failures]
        /\ UNCHANGED executed /\ step' \in [Calls -> Nat]
        /\ step'[c] <= 1 /\ \A k \in Calls \ {c} : step'[k] = step[k]
        /\ outcome' \in [Calls -> {"none", "ok", "failed", "undecodable", "not_connected"}]
    <3>1. step[c] = 0 /\ Send(c, 1)
      BY <1>6 DEF Begin
    <3>2. \/ /\ status' = [status EXCEPT ![<<c, 1>>] = "open"]
             /\ step' = [step EXCEPT ![c] = 1] /\ UNCHANGED <<executed, outcome>>
          \/ /\ outcome' = [outcome EXCEPT ![c] = "not_connected"]
             /\ UNCHANGED <<sent, step>>
      BY <3>1 DEF Send, Command!Start
    <3>3. /\ status \in [Requests -> {"new", "open", "ok"} \cup Command!Failures]
          /\ step \in [Calls -> Nat]
          /\ outcome \in [Calls -> {"none", "ok", "failed", "undecodable", "not_connected"}]
      OBVIOUS
    <3> HIDE DEF Typed
    <3>4. CASE UNCHANGED <<sent, step>> /\ outcome' = [outcome EXCEPT ![c] = "not_connected"]
      BY <3>1, <3>3, <3>4
    <3>5. CASE /\ status' = [status EXCEPT ![<<c, 1>>] = "open"]
               /\ step' = [step EXCEPT ![c] = 1] /\ UNCHANGED <<executed, outcome>>
      <4>1. status' \in [Requests -> {"new", "open", "ok"} \cup Command!Failures]
        BY <2>3, <3>3, <3>5
      <4> QED BY <3>3, <3>5, <4>1
    <3> QED BY <3>2, <3>4, <3>5
  <2>5. \A k \in Calls : /\ program'[k] \in Programs(k) \cup {<<>>}
                         /\ step'[k] <= Len(program'[k])
    <3>1. program'[c] = p /\ \A k \in Calls \ {c} : program'[k] = program[k]
      BY <2>1
    <3>2. step'[c] \in Nat
      BY <2>4
    <3>3. step'[c] <= Len(p)
      BY <2>3, <2>4, <3>2
    <3> QED BY <2>4, <3>1, <3>3
  <2> QED BY <1>6, <2>1, <2>2, <2>4, <2>5 DEF Begin
<1>7. CASE Receive
  <2> DEFINE m == Unread
  <2>1. /\ m \in Messages /\ UNCHANGED <<speaker, link, client, history>>
        /\ stored' \in 0 .. Len(inbox') /\ stored' <= Capacity
        /\ lagged' \in BOOLEAN /\ (lagged' => stored' = 0)
    BY <1>7, ReceiveMoves
  <2>2. inbox' \in Seq(Messages) /\ Len(inbox') <= MaxInbox
    BY <1>7, ReceiveMoves, LenProperties, PlaybackBounds DEF Leave
  <2>3. CASE Reply(m.cmdId, m) /\ m.cmdId \in Requests
    <3>1. Reply(m.cmdId, m) /\ m.cmdId \in Requests
      BY <2>3
    <3>2. m.version \in Nat
      BY <2>1 DEF Messages
    <3> HIDE DEF m
    <3>3. /\ status' \in [Requests -> {"new", "open", "ok"} \cup Command!Failures]
          /\ UNCHANGED <<program, since, executed>>
          /\ step' \in [Calls -> Nat] /\ \A c \in Calls : step'[c] <= Len(program[c])
          /\ outcome' \in [Calls -> {"none", "ok", "failed", "undecodable", "not_connected"}]
          /\ got' \in [Calls -> Nat]
      <4> DEFINE r == m.cmdId
                 c == r[1]
      <4>1. /\ c \in Calls /\ UNCHANGED <<program, since, executed>>
            /\ \/ /\ step[c] < Len(program[c]) /\ <<c, step[c] + 1>> \in Requests
                  /\ status' = [status EXCEPT ![r] = "ok", ![<<c, step[c] + 1>>] = "open"]
                  /\ step' = [step EXCEPT ![c] = @ + 1] /\ UNCHANGED <<outcome, got>>
               \/ /\ status' = [status EXCEPT ![r] = "ok"] /\ UNCHANGED step
                  /\ \E o \in {"ok", "undecodable", "not_connected"} :
                        outcome' = [outcome EXCEPT ![c] = o]
                  /\ got' \in {got, [got EXCEPT ![c] = m.version]}
        <5> HIDE DEF Typed
        <5> QED BY <2>1, <3>1, ReplyMoves
      <4>2. Len(program[c]) \in Nat
        BY <4>1, ProgramShape, AllSubscribe
      <4>3. /\ status \in [Requests -> {"new", "open", "ok"} \cup Command!Failures]
            /\ step \in [Calls -> Nat] /\ \A k \in Calls : step[k] <= Len(program[k])
            /\ outcome \in [Calls -> {"none", "ok", "failed", "undecodable", "not_connected"}]
            /\ got \in [Calls -> Nat]
        OBVIOUS
      <4> HIDE DEF r, c, Typed
      <4>4. status' \in [Requests -> {"new", "open", "ok"} \cup Command!Failures]
        BY <4>1, <4>3
      <4>5. step' \in [Calls -> Nat] /\ \A k \in Calls : step'[k] <= Len(program[k])
        <5>1. CASE UNCHANGED step
          BY <4>3, <5>1
        <5>2. CASE step[c] < Len(program[c]) /\ step' = [step EXCEPT ![c] = @ + 1]
          <6>1. step' \in [Calls -> Nat] /\ step'[c] = step[c] + 1 /\ step[c] \in Nat
            BY <4>1, <4>3, <5>2
          <6>2. step'[c] <= Len(program[c])
            BY <4>2, <5>2, <6>1
          <6>3. \A k \in Calls \ {c} : step'[k] = step[k]
            BY <4>3, <5>2
          <6> QED BY <4>3, <6>1, <6>2, <6>3
        <5> QED BY <4>1, <5>1, <5>2
      <4>6. outcome' \in [Calls -> {"none", "ok", "failed", "undecodable", "not_connected"}]
        BY <4>1, <4>3
      <4> QED BY <3>2, <4>1, <4>3, <4>4, <4>5, <4>6
    <3> QED BY <2>1, <2>2, <3>1, <3>3
  <2>4. CASE UNCHANGED <<sent, calls>>
    BY <2>1, <2>2, <2>4
  <2> QED BY <1>7, <2>3, <2>4, ReceiveMoves
<1>11. CASE Forward
  <2> DEFINE m == inbox[1]
  <2>1. /\ m \in Messages /\ Tell(m)
        /\ stored' \in 0 .. Len(inbox') /\ stored' <= Capacity /\ ~lagged'
        /\ UNCHANGED <<speaker, link, sent, calls, listening, refused, broken>>
    BY <1>11, ForwardMoves
  <2>2. inbox' \in Seq(Messages) /\ Len(inbox') <= MaxInbox
    BY <1>11, ForwardMoves, LenProperties, PlaybackBounds DEF Leave
  <2>3. m.version \in Nat
    BY <2>1 DEF Messages
  <2>4. Event(m) = "Changed" => m.namespace \in Topics
    BY DEF Event
  <2> HIDE DEF m
  <2>5. view' \in [Topics -> Nat] /\ blank' \in BOOLEAN
    <3>1. view \in [Topics -> Nat] /\ blank \in BOOLEAN
      OBVIOUS
    <3> HIDE DEF Typed
    <3> QED BY <2>1, <2>3, <2>4, <3>1 DEF Tell
  <2>6. unheard' \subseteq Topics
    <3>1. unheard \subseteq Topics /\ listening \in BOOLEAN
      OBVIOUS
    <3> HIDE DEF Typed
    <3> QED BY <2>1, <2>4, <3>1 DEF Tell
  <2>7. lagged' \in BOOLEAN /\ (lagged' => stored' = 0)
    <3>1. lagged' = FALSE
      BY <1>11 DEF Forward
    <3> QED BY <3>1
  <2> QED BY <2>1, <2>2, <2>5, <2>6, <2>7
<1>8. CASE Reconnect \/ Listen \/ UNCHANGED vars
  <2>1. CASE Reconnect
    BY <2>1 DEF Reconnect
  <2>2. CASE Listen
    BY <2>2 DEF Listen
  <2>3. CASE UNCHANGED vars
    BY <2>3 DEF vars
  <2> QED BY <1>8, <2>1, <2>2, <2>3
<1>9. CASE Lose \/ Disconnect \/ Announce
  BY <1>2, <1>9 DEF Lose, Disconnect, Announce
<1>10. Fault => Topics # {}
  BY DEF Fault
<1> QED BY <1>1, <1>3, <1>4, <1>5, <1>6, <1>7, <1>8, <1>9, <1>10, <1>11 DEF Next

\* A reply keeps the calls' progress.
LEMMA ReplyProgress ==
  ASSUME Typed, ProgressInv, NEW r \in Requests, NEW m \in Messages, Reply(r, m)
  PROVE  ProgressInv'
<1> DEFINE c == r[1]
           n == step[c]
<1>1. /\ c \in Calls /\ r = <<c, n>> /\ executed[r] = 1 /\ outcome[c] = "none"
      /\ UNCHANGED <<program, executed>>
      /\ \/ /\ n < Len(program[c]) /\ <<c, n + 1>> \in Requests
            /\ status' = [status EXCEPT ![r] = "ok", ![<<c, n + 1>>] = "open"]
            /\ step' = [step EXCEPT ![c] = @ + 1] /\ UNCHANGED outcome
         \/ /\ status' = [status EXCEPT ![r] = "ok"] /\ UNCHANGED step
            /\ \E o \in {"ok", "undecodable", "not_connected"} :
                  /\ outcome' = [outcome EXCEPT ![c] = o]
                  /\ o = "ok" => n >= Len(program[c])
  BY ReplyMoves
<1>2. /\ step \in [Calls -> Nat] /\ n \in Nat /\ n <= Len(program[c]) /\ Len(program[c]) \in Nat
      /\ DOMAIN outcome = Calls /\ DOMAIN status = Calls \X (1 .. Len(SubscribeAll))
      /\ Requests = Calls \X (1 .. Len(SubscribeAll)) /\ Len(SubscribeAll) \in Nat
  <2>1. program[c] \in Programs(c) \cup {<<>>}
    BY <1>1 DEF Typed
  <2>2. Len(program[c]) \in Nat
    BY <1>1, <2>1, ProgramShape, AllSubscribe
  <2> QED BY <1>1, <2>2, AllSubscribe DEF Typed, Requests
<1> HIDE DEF c, n
<1>3. ASSUME NEW k \in Calls, k # c  PROVE Progress(k)'
  <2>1. step'[k] = step[k] /\ outcome'[k] = outcome[k]
    BY <1>1, <1>2, <1>3
  <2>2. \A i \in 1 .. Len(SubscribeAll) : status'[<<k, i>>] = status[<<k, i>>]
    BY <1>1, <1>2, <1>3
  <2>3. Progress(k)
    BY DEF ProgressInv
  <2> QED BY <1>1, <2>1, <2>2, <2>3 DEF Progress
<1>4. Progress(c)'
  <2>1. Progress(c) /\ step[c] = n
    BY <1>1 DEF ProgressInv, n
  <2>2. CASE /\ <<c, n + 1>> \in Requests
             /\ status' = [status EXCEPT ![r] = "ok", ![<<c, n + 1>>] = "open"]
             /\ step' = [step EXCEPT ![c] = @ + 1] /\ UNCHANGED outcome
    <3>1. step'[c] = n + 1
      BY <1>1, <1>2, <2>1, <2>2
    <3>2. \A i \in 1 .. Len(SubscribeAll) :
             status'[<<c, i>>] = IF i = n THEN "ok"
                                 ELSE IF i = n + 1 THEN "open" ELSE status[<<c, i>>]
      <4>1. r = <<c, n>> /\ n # n + 1 /\ r \in Requests
        BY <1>1, <1>2
      <4> QED BY <1>2, <2>2, <4>1
    <3>3. outcome'[c] = "none" /\ n + 1 \in 1 .. Len(SubscribeAll)
      BY <1>1, <1>2, <2>2
    <3> SUFFICES ASSUME NEW i \in 1 .. Len(SubscribeAll)
                 PROVE  /\ status'[<<c, i>>] = "new" <=> step'[c] < i
                        /\ status'[<<c, i>>] = "open" => i = step'[c]
                        /\ executed[<<c, i>>] = 1 => i <= step'[c]
                        /\ i < step'[c] => executed[<<c, i>>] = 1
      BY <1>1, <3>3 DEF Progress
    <3>4. /\ status[<<c, i>>] = "new" <=> n < i
          /\ status[<<c, i>>] = "open" => i = n
          /\ executed[<<c, i>>] = 1 => i <= n
          /\ i < n => executed[<<c, i>>] = 1
      BY <2>1 DEF Progress
    <3>5. i < n + 1 => executed[<<c, i>>] = 1
      <4>1. executed[<<c, n>>] = 1
        BY <1>1
      <4>2. i < n + 1 => i < n \/ i = n
        BY <1>2
      <4> QED BY <3>4, <4>1, <4>2
    <3> QED BY <1>2, <3>1, <3>2, <3>4, <3>5
  <2>3. CASE /\ status' = [status EXCEPT ![r] = "ok"] /\ UNCHANGED step
             /\ \E o \in {"ok", "undecodable", "not_connected"} :
                   /\ outcome' = [outcome EXCEPT ![c] = o]
                   /\ o = "ok" => n >= Len(program[c])
    <3>1. \A i \in 1 .. Len(SubscribeAll) :
             status'[<<c, i>>] = IF i = n THEN "ok" ELSE status[<<c, i>>]
      BY <1>1, <1>2, <2>3
    <3>2. outcome'[c] = "ok" => n = Len(program[c])
      BY <1>1, <1>2, <2>3
    <3>3. executed[<<c, n>>] = 1
      BY <1>1
    <3>4. step'[c] = n /\ UNCHANGED <<program, executed>>
      BY <1>1, <2>1, <2>3
    <3> SUFFICES ASSUME NEW i \in 1 .. Len(SubscribeAll)
                 PROVE  /\ status'[<<c, i>>] = "new" <=> n < i
                        /\ status'[<<c, i>>] # "open"
                        /\ executed[<<c, i>>] = 1 => i <= n
                        /\ i < n => executed[<<c, i>>] = 1
                        /\ i = n => executed[<<c, i>>] = 1
      BY <3>2, <3>4 DEF Progress
    <3>5. /\ status[<<c, i>>] = "new" <=> n < i
          /\ status[<<c, i>>] = "open" => i = n
          /\ executed[<<c, i>>] = 1 => i <= n
          /\ i < n => executed[<<c, i>>] = 1
      BY <2>1 DEF Progress
    <3> QED BY <1>2, <3>1, <3>3, <3>5
  <2> QED BY <1>1, <2>2, <2>3
<1> QED BY <1>3, <1>4 DEF ProgressInv

\* Every step keeps the calls' progress.
LEMMA ProgressKeeps ==
  ASSUME Typed, ProgressInv, [Next]_vars
  PROVE  ProgressInv'
<1>1. /\ DOMAIN status = Requests /\ DOMAIN executed = Requests
      /\ DOMAIN outcome = Calls /\ DOMAIN step = Calls /\ DOMAIN program = Calls
      /\ Requests = Calls \X (1 .. Len(SubscribeAll)) /\ Len(SubscribeAll) \in 1 .. 3
      /\ \A c \in Calls : step[c] \in Nat
  BY AllSubscribe DEF Typed, Requests
<1>2. ASSUME UNCHANGED <<sent, program, step, outcome>>
      PROVE  ProgressInv'
  BY <1>2 DEF ProgressInv, Progress
<1>3. ASSUME NEW r \in Requests, Command!Execute(r), UNCHANGED <<program, step, outcome>>
      PROVE  ProgressInv'
  <2>1. status[r] # "new" /\ executed' = [executed EXCEPT ![r] = 1] /\ UNCHANGED status
    BY <1>3 DEF Command!Execute
  <2>2. PICK c \in Calls, n \in 1 .. Len(SubscribeAll) : r = <<c, n>>
    BY <1>1
  <2>3. \A k \in Calls, i \in 1 .. Len(SubscribeAll) :
           executed'[<<k, i>>] = IF k = c /\ i = n THEN 1 ELSE executed[<<k, i>>]
    BY <1>1, <2>1, <2>2
  <2>4. n <= step[c]
    BY <1>1, <2>1, <2>2 DEF ProgressInv, Progress
  <2> SUFFICES ASSUME NEW k \in Calls  PROVE Progress(k)'
    BY DEF ProgressInv
  <2>5. Progress(k)
    BY DEF ProgressInv
  <2>6. status[<<c, n>>] # "new" /\ UNCHANGED <<status, program, step, outcome>>
    BY <1>3, <2>1, <2>2
  <2> QED BY <1>1, <2>3, <2>4, <2>5, <2>6 DEF Progress
<1>4. ASSUME NEW r \in Requests, Fail(r)
      PROVE  ProgressInv'
  <2>1. PICK c \in Calls, n \in 1 .. Len(SubscribeAll) : r = <<c, n>>
    BY <1>1
  <2>2. /\ status[r] = "open" /\ status' = [status EXCEPT ![r] = "timeout"]
        /\ outcome' = [outcome EXCEPT ![c] = "failed"]
        /\ UNCHANGED <<executed, program, step>>
    BY <1>1, <1>4, <2>1 DEF Fail, Command!Fail, Return
  <2>3. \A k \in Calls, i \in 1 .. Len(SubscribeAll) :
           status'[<<k, i>>] = IF k = c /\ i = n THEN "timeout" ELSE status[<<k, i>>]
    BY <1>1, <2>1, <2>2
  <2>4. /\ n = step[c] /\ outcome'[c] = "failed"
        /\ \A k \in Calls \ {c} : outcome'[k] = outcome[k]
    BY <1>1, <2>1, <2>2 DEF ProgressInv, Progress
  <2> SUFFICES ASSUME NEW k \in Calls  PROVE Progress(k)'
    BY DEF ProgressInv
  <2>5. Progress(k)
    BY DEF ProgressInv
  <2>6. status[<<c, n>>] = "open" /\ UNCHANGED <<executed, program, step>>
    BY <2>1, <2>2
  <2> QED BY <1>1, <2>3, <2>4, <2>5, <2>6 DEF Progress
<1>5. ASSUME NEW c \in Calls, Begin(c)
      PROVE  ProgressInv'
  <2>1. /\ step[c] = 0 /\ outcome[c] = "none" /\ UNCHANGED executed
        /\ \A k \in Calls \ {c} : program'[k] = program[k]
        /\ \/ /\ status' = [status EXCEPT ![<<c, 1>>] = "open"]
              /\ step' = [step EXCEPT ![c] = 1] /\ UNCHANGED outcome
           \/ /\ outcome' = [outcome EXCEPT ![c] = "not_connected"]
              /\ UNCHANGED <<status, step>>
    BY <1>1, <1>5 DEF Begin, Send, Command!Start
  <2>2. ASSUME NEW k \in Calls, k # c  PROVE Progress(k)'
    <3>1. step'[k] = step[k] /\ outcome'[k] = outcome[k]
      BY <1>1, <2>1, <2>2
    <3>2. \A i \in 1 .. Len(SubscribeAll) : status'[<<k, i>>] = status[<<k, i>>]
      BY <1>1, <2>1, <2>2
    <3>3. Progress(k)
      BY DEF ProgressInv
    <3> QED BY <2>1, <2>2, <3>1, <3>2, <3>3 DEF Progress
  <2>3. Progress(c)'
    <3>1. Progress(c)
      BY DEF ProgressInv
    <3>2. \A i \in 1 .. Len(SubscribeAll) : status[<<c, i>>] = "new" /\ executed[<<c, i>>] # 1
      BY <1>1, <2>1, <3>1 DEF Progress
    <3>3. CASE /\ status' = [status EXCEPT ![<<c, 1>>] = "open"]
               /\ step' = [step EXCEPT ![c] = 1] /\ UNCHANGED outcome
      <4>1. step'[c] = 1 /\ \A i \in 1 .. Len(SubscribeAll) :
               status'[<<c, i>>] = IF i = 1 THEN "open" ELSE "new"
        BY <1>1, <3>2, <3>3
      <4> QED BY <1>1, <2>1, <3>2, <3>3, <4>1 DEF Progress
    <3>4. CASE /\ outcome' = [outcome EXCEPT ![c] = "not_connected"]
               /\ UNCHANGED <<status, step>>
      BY <1>1, <2>1, <3>2, <3>4 DEF Progress
    <3> QED BY <2>1, <3>3, <3>4
  <2> QED BY <2>2, <2>3 DEF ProgressInv
<1>6. CASE Receive
  BY <1>2, <1>6, ReceiveMoves, ReplyProgress
<1>7. \/ UNCHANGED <<sent, program, step, outcome>>
      \/ \E r \in Requests : Fail(r)
                          \/ (Command!Execute(r) /\ UNCHANGED <<program, step, outcome>>)
      \/ \E c \in Calls : Begin(c)
      \/ Receive
  <2>1. ASSUME NEW r \in Requests, Accept(r) \/ Refuse(r)
        PROVE  Command!Execute(r) /\ UNCHANGED <<program, step, outcome>>
    BY <2>1 DEF Accept, Refuse
  <2>2. ASSUME \/ \E n \in Topics : Change(n) \/ FirstEvent(n)
               \/ Fault \/ Lose \/ Announce \/ Reconnect \/ Disconnect \/ Listen \/ Forward
               \/ UNCHANGED vars
        PROVE  UNCHANGED <<sent, program, step, outcome>>
    BY <2>2 DEF vars, Change, FirstEvent, Fault, Lose, Announce, Reconnect, Disconnect, LinkEnds,
       Listen, Forward
  <2> QED BY <2>1, <2>2 DEF Next
<1> QED BY <1>2, <1>3, <1>4, <1>5, <1>6, <1>7

-------------------------------------------------------------------------------
(* What a step leaves as it was *)

\* What was asked stays, and so does what the speaker heard of it; only an execution
\* makes it heard, only a reply makes it answered.
LEMMA SentStays ==
  ASSUME Typed, ProgressInv, [Next]_vars, NEW r \in Requests
  PROVE  /\ status[r] # "new" => /\ Asked(r)' = Asked(r) /\ since'[r[1]] = since[r[1]]
                                 /\ status'[r] # "new"
         /\ executed[r] = 1 => executed'[r] = 1
         /\ status'[r] = "ok" => \/ status[r] = "ok"
                                \/ /\ stored + 1 \in DOMAIN inbox /\ Leave(stored, 1)
                                   /\ inbox[stored + 1].cmdId = r /\ executed[r] = 1
<1>1. /\ DOMAIN status = Requests /\ DOMAIN executed = Requests /\ DOMAIN program = Calls
      /\ DOMAIN since = Calls /\ DOMAIN step = Calls
  BY DEF Typed
<1>2. PICK c \in Calls, i \in 1 .. Len(SubscribeAll) : r = <<c, i>>
  BY DEF Requests
<1>3. CASE UNCHANGED <<sent, program, since>>
  BY <1>3 DEF Asked
<1>4. ASSUME NEW q \in Requests, Command!Execute(q), UNCHANGED <<program, since>>
      PROVE  /\ executed'[r] = 1 \/ executed'[r] = executed[r]
             /\ UNCHANGED <<status, program, since>>
  BY <1>1, <1>4 DEF Command!Execute
<1>5. ASSUME NEW q \in Requests, Fail(q)
      PROVE  /\ status'[r] = "timeout" \/ status'[r] = status[r]
             /\ UNCHANGED <<executed, program, since>>
  <2>1. status' = [status EXCEPT ![q] = "timeout"] /\ UNCHANGED <<executed, program, since>>
    BY <1>1, <1>5 DEF Fail, Command!Fail
  <2> QED BY <1>1, <2>1
<1>6. ASSUME NEW k \in Calls, Begin(k)
      PROVE  /\ status'[r] = status[r] \/ (status[r] = "new" /\ status'[r] = "open")
             /\ UNCHANGED executed
             /\ status[r] # "new" => program'[c] = program[c] /\ since'[c] = since[c]
  <2>1. /\ step[k] = 0 /\ UNCHANGED executed
        /\ \E p : program' = [program EXCEPT ![k] = p]
        /\ \E v : since' = [since EXCEPT ![k] = v]
        /\ status' = status \/ status' = [status EXCEPT ![<<k, 1>>] = "open"]
    BY <1>6 DEF Begin, Send, Command!Start
  <2>2. \A j \in 1 .. Len(SubscribeAll) : status[<<k, j>>] = "new"
    BY <2>1, AllSubscribe DEF ProgressInv, Progress
  <2>3. c = k => status[r] = "new"
    BY <1>2, <2>2
  <2>4. status'[r] = status[r] \/ (status[r] = "new" /\ status'[r] = "open")
    <3>1. <<k, 1>> \in Requests /\ status[<<k, 1>>] = "new"
      BY <2>2, AllSubscribe DEF Requests
    <3> QED BY <1>1, <2>1, <3>1
  <2> QED BY <1>1, <2>1, <2>3, <2>4
<1>7. ASSUME NEW q \in Requests, NEW m \in Messages, Reply(q, m)
      PROVE  /\ status'[r] \in {status[r], "open"} \/ (r = q /\ executed[r] = 1)
             /\ UNCHANGED <<executed, program, since>>
             /\ status'[r] # "new" \/ status[r] = "new"
  <2>1. /\ executed[q] = 1 /\ UNCHANGED <<executed, program, since>>
        /\ \/ \E n \in Requests : status' = [status EXCEPT ![q] = "ok", ![n] = "open"]
           \/ status' = [status EXCEPT ![q] = "ok"]
    BY <1>7, ReplyMoves
  <2> QED BY <1>1, <2>1
<1>8. CASE Receive
  <2> DEFINE m == Unread
  <2>1. stored + 1 \in DOMAIN inbox /\ m \in Messages /\ m = inbox[stored + 1]
    BY <1>8, ReceiveMoves DEF Unread
  <2>2. CASE Reply(m.cmdId, m) /\ m.cmdId \in Requests /\ Leave(stored, 1)
    <3>1. Reply(m.cmdId, m) /\ m.cmdId \in Requests /\ Leave(stored, 1)
      BY <2>2
    <3> HIDE DEF m
    <3>2. /\ status'[r] \in {status[r], "open"} \/ (r = m.cmdId /\ executed[r] = 1)
          /\ UNCHANGED <<executed, program, since>>
          /\ status'[r] # "new" \/ status[r] = "new"
      BY <1>7, <2>1, <3>1
    <3> QED BY <2>1, <3>1, <3>2 DEF Asked
  <2>3. CASE UNCHANGED <<sent, calls>>
    BY <1>3, <2>3
  <2> QED BY <1>8, <2>2, <2>3, ReceiveMoves
<1>9. ASSUME NEW q \in Requests, Accept(q) \/ Refuse(q)
      PROVE  Command!Execute(q) /\ UNCHANGED <<program, since>>
  BY <1>9 DEF Accept, Refuse
<1>10. ASSUME \/ \E n \in Topics : Change(n) \/ FirstEvent(n)
              \/ Fault \/ Lose \/ Announce \/ Reconnect \/ Disconnect \/ Listen \/ Forward
              \/ UNCHANGED vars
       PROVE  UNCHANGED <<sent, program, since>>
  BY <1>10 DEF vars, Change, FirstEvent, Fault, Lose, Announce, Reconnect, Disconnect, LinkEnds,
     Listen, Forward
<1>11. CASE \E q \in Requests : Accept(q) \/ Refuse(q)
  BY <1>4, <1>9, <1>11 DEF Asked
<1>12. CASE \E q \in Requests : Fail(q)
  BY <1>5, <1>12 DEF Asked
<1>13. CASE \E k \in Calls : Begin(k)
  BY <1>2, <1>6, <1>13 DEF Asked
<1> QED BY <1>3, <1>8, <1>10, <1>11, <1>12, <1>13 DEF Next

\* What a call returned stays, with what it read and asked.
LEMMA ReturnedStays ==
  ASSUME Typed, ProgressInv, [Next]_vars, NEW c \in Calls, outcome[c] # "none"
  PROVE  /\ outcome'[c] = outcome[c] /\ program'[c] = program[c]
         /\ since'[c] = since[c] /\ got'[c] = got[c]
<1>1. /\ DOMAIN outcome = Calls /\ DOMAIN program = Calls
      /\ DOMAIN since = Calls /\ DOMAIN got = Calls
  BY DEF Typed
<1>2. ASSUME NEW r \in Requests, Fail(r)
      PROVE  UNCHANGED <<outcome[c], program, since, got>>
  <2>1. status[r] = "open" /\ outcome' = [outcome EXCEPT ![r[1]] = "failed"]
        /\ UNCHANGED <<program, since, got>>
    BY <1>2 DEF Fail, Command!Fail, Return
  <2>2. PICK k \in Calls, i \in 1 .. Len(SubscribeAll) : r = <<k, i>>
    BY DEF Requests
  <2>3. outcome[k] = "none" /\ r[1] = k
    BY <2>1, <2>2 DEF ProgressInv, Progress
  <2> QED BY <1>1, <2>1, <2>3
<1>3. ASSUME NEW k \in Calls, Begin(k)
      PROVE  /\ outcome'[c] = outcome[c] /\ program'[c] = program[c]
             /\ since'[c] = since[c] /\ UNCHANGED got
  <2>1. /\ outcome[k] = "none" /\ UNCHANGED got
        /\ \E p : program' = [program EXCEPT ![k] = p]
        /\ \E v : since' = [since EXCEPT ![k] = v]
        /\ \E o : outcome' = outcome \/ outcome' = [outcome EXCEPT ![k] = o]
    BY <1>3 DEF Begin, Send
  <2> QED BY <1>1, <2>1
<1>4. ASSUME NEW r \in Requests, NEW m \in Messages, Reply(r, m)
      PROVE  /\ outcome'[c] = outcome[c] /\ UNCHANGED <<program, since>>
             /\ got'[c] = got[c]
  <2>1. /\ outcome[r[1]] = "none" /\ UNCHANGED <<program, since>>
        /\ \E o : outcome' = outcome \/ outcome' = [outcome EXCEPT ![r[1]] = o]
        /\ \E v : got' = got \/ got' = [got EXCEPT ![r[1]] = v]
    BY <1>4, ReplyMoves
  <2> QED BY <1>1, <2>1
<1>5. CASE Receive
  BY <1>4, <1>5, ReceiveMoves
<1>6. ASSUME \/ \E n \in Topics : Change(n) \/ FirstEvent(n)
             \/ Fault \/ Lose \/ Announce \/ Reconnect \/ Disconnect \/ Listen \/ Forward
             \/ UNCHANGED vars
             \/ \E r \in Requests : Accept(r) \/ Refuse(r)
      PROVE  UNCHANGED <<outcome, program, since, got>>
  BY <1>6 DEF vars, Change, FirstEvent, Fault, Lose, Announce, Reconnect, Disconnect, LinkEnds,
     Listen, Forward,
     Accept, Refuse
<1> QED BY <1>2, <1>3, <1>5, <1>6 DEF Next

-------------------------------------------------------------------------------
(* The invariants of the theorems *)

\* A step keeps what the speaker reports, or it ends the link, which every call under
\* way sees.
LEMMA SubscribedKeeps ==
  ASSUME Typed, ProgressInv, SubscribedInv, [Next]_vars
  PROVE  SubscribedInv'
<1>1. DOMAIN executed = Requests /\ Requests \subseteq Calls \X Nat
  BY AllSubscribe DEF Typed, Requests
<1>2. ASSUME NEW r \in Requests, executed[r] = 1
      PROVE  Asked(r)' = Asked(r) /\ executed'[r] = 1 /\ r[1] \in Calls /\ step[r[1]] > 0
  <2>1. PICK c \in Calls, i \in 1 .. Len(SubscribeAll) : r = <<c, i>>
    BY DEF Requests
  <2>2. step[c] >= i /\ step[c] \in Nat /\ status[r] # "new"
    BY <1>2, <2>1, AllSubscribe DEF ProgressInv, Progress, Typed
  <2> QED BY <1>2, <2>1, <2>2, SentStays
<1>3. CASE subs \subseteq subs' /\ UNCHANGED <<executed, broken, refused>>
  BY <1>2, <1>3 DEF SubscribedInv
<1>4. CASE LinkEnds
  <2>1. \A r \in Requests : executed'[r] = 1 => r[1] \in broken'
    BY <1>2, <1>4 DEF LinkEnds
  <2> QED BY <2>1 DEF SubscribedInv
<1>5. ASSUME NEW r \in Requests, Accept(r) \/ Refuse(r)
      PROVE  SubscribedInv'
  <2>1. /\ executed' = [executed EXCEPT ![r] = 1] /\ UNCHANGED <<broken, program>>
        /\ refused \subseteq refused' /\ subs \subseteq subs'
        /\ r \in refused' \/ (Asked(r).op = "subscribe" => Asked(r).namespace \in subs')
    BY <1>5 DEF Accept, Refuse, Command!Execute
  <2>2. \A q \in Requests \ {r} : executed'[q] = executed[q]
    BY <1>1, <2>1
  <2>3. \A q \in Requests : Asked(q)' = Asked(q)
    BY <2>1 DEF Asked
  <2> QED BY <2>1, <2>2, <2>3 DEF SubscribedInv
<1>6. ASSUME NEW r \in Requests, NEW m \in Messages, Reply(r, m)
      PROVE  UNCHANGED executed
  BY <1>6, ReplyMoves
<1>7. CASE Receive
  <2>1. UNCHANGED <<subs, broken, refused>>
    BY <1>7, ReceiveMoves
  <2>2. UNCHANGED executed
    BY <1>6, <1>7, ReceiveMoves
  <2> QED BY <1>3, <2>1, <2>2
<1>8. ASSUME \/ \E n \in Topics : Change(n) \/ FirstEvent(n)
             \/ Fault \/ Announce \/ Reconnect \/ Listen \/ Forward \/ UNCHANGED vars
             \/ \E r \in Requests : Fail(r)
             \/ \E c \in Calls : Begin(c)
      PROVE  UNCHANGED <<executed, subs, broken, refused>>
  BY <1>8 DEF vars, Change, FirstEvent, Fault, Announce, Reconnect, Listen, Forward, Fail,
     Command!Fail, Begin,
     Send, Command!Start
<1>9. CASE Lose \/ Disconnect
  BY <1>4, <1>9 DEF Lose, Disconnect
<1> QED BY <1>3, <1>5, <1>7, <1>8, <1>9 DEF Next

\* Requests are no calls, and not "no request".
LEMMA NoneIsNoRequest == None \notin Requests
BY PlaybackDistinct, AllSubscribe DEF Requests, Calls

\* Messages leave, or some join; an answer joins when its request is carried out.
LEMMA InboxMoves ==
  ASSUME Typed, ProgressInv, [Next]_vars
  PROVE  \/ \E k, d \in Nat : Leave(k, d)
         \/ \E M : /\ Joins(M)
                   /\ \A m \in M : m.cmdId # None =>
                         /\ m.cmdId \in Requests
                         /\ executed[m.cmdId] = 0 /\ executed'[m.cmdId] = 1
<1> DEFINE Goal == \E M : /\ Joins(M)
                          /\ \A m \in M : m.cmdId # None =>
                                /\ m.cmdId \in Requests
                                /\ executed[m.cmdId] = 0 /\ executed'[m.cmdId] = 1
<1>1. /\ inbox \in Seq(Messages) /\ DOMAIN executed = Requests
      /\ stored \in 0 .. Len(inbox) /\ stored \in Nat
  BY DEF Typed
<1>2. ASSUME NEW n \in Topics, Change(n) \/ Fault \/ FirstEvent(n)
      PROVE  Goal
  <2>1. \/ Joins({Message(n, "state", version'[n], None)})
        \/ Joins({Message("playback", "error", 0, None)})
    BY <1>2, NoticeJoins
  <2>2. \A k, b, v : Message(k, b, v, None).cmdId = None
    BY DEF Message
  <2> QED BY <2>1, <2>2
<1>3. ASSUME NEW r \in Requests, Accept(r)
      PROVE  Goal
  <2> DEFINE e == Message(Asked(r).namespace, "state", version'[Asked(r).namespace], None)
             a == Answer(r)
  <2>1. Joins({a}) \/ Joins({a, e})
    BY <1>3, AcceptJoins
  <2>2. a.cmdId = r /\ e.cmdId = None
    BY DEF Answer, Message
  <2>3. executed[r] = 0 /\ executed'[r] = 1
    BY <1>1, <1>3 DEF Accept, Command!Execute
  <2> HIDE DEF e, a
  <2> QED BY <2>1, <2>2, <2>3
<1>4. ASSUME NEW r \in Requests, Refuse(r)
      PROVE  Goal
  <2>1. PICK id \in {r, None} : inbox' = Append(inbox, Message(Asked(r).namespace, "empty", 0, id))
    BY <1>4 DEF Refuse
  <2>2. executed[r] = 0 /\ executed'[r] = 1 /\ status[r] # "new"
    BY <1>1, <1>4 DEF Refuse, Command!Execute
  <2> DEFINE m == Message(Asked(r).namespace, "empty", 0, id)
  <2>3. m \in Messages /\ m.cmdId = id
    BY <2>2, SentIsAsked DEF Message, Messages
  <2> HIDE DEF m
  <2>4. Joins({m})
    BY <1>1, <2>1, <2>3, OneJoins DEF m
  <2> QED BY <2>2, <2>3, <2>4
<1>5. CASE Receive \/ Forward
  BY <1>1, <1>5, ReceiveMoves, ForwardMoves
<1>6. CASE LinkEnds \/ Announce
  BY <1>6, LinkMoves
<1>7. ASSUME \/ Reconnect \/ Listen \/ UNCHANGED vars
             \/ \E r \in Requests : Fail(r)
             \/ \E c \in Calls : Begin(c)
      PROVE  UNCHANGED inbox
  BY <1>7 DEF vars, Reconnect, Listen, Fail, Begin
<1>8. CASE UNCHANGED inbox
  BY <1>1, <1>8, SomeLeave
<1>9. CASE Lose \/ Disconnect \/ Announce
  BY <1>6, <1>9 DEF Lose, Disconnect
<1>10. Fault => Topics # {}
  BY DEF Fault, Typed
<1>11. CASE (\E n \in Topics : Change(n) \/ FirstEvent(n)) \/ Fault
  BY <1>2, <1>10, <1>11
<1>12. CASE \E r \in Requests : Accept(r) \/ Refuse(r)
  BY <1>3, <1>4, <1>12
<1> QED BY <1>5, <1>7, <1>8, <1>9, <1>11, <1>12 DEF Next

\* A request that nothing answers stays so.
LEMMA UnansweredStays ==
  ASSUME Typed, ProgressInv, [Next]_vars
  PROVE  /\ \A r \in Requests : Unanswered(r) => Unanswered(r)'
         /\ GoesBlank => GoesBlank'
<1>1. inbox \in Seq(Messages) /\ DOMAIN inbox = 1 .. Len(inbox)
  BY LenProperties DEF Typed
<1>2. ASSUME NEW r \in Requests, Unanswered(r)
      PROVE  Unanswered(r)' /\ Asked(r)' = Asked(r)
  <2>1. executed[r] = 1 /\ status[r] # "ok" /\ \A i \in DOMAIN inbox : inbox[i].cmdId # r
    BY <1>2 DEF Unanswered
  <2>2. status[r] # "new"
    BY <2>1, AllSubscribe DEF ProgressInv, Progress, Requests, Typed
  <2>3. executed'[r] = 1 /\ Asked(r)' = Asked(r)
    BY <2>1, <2>2, SentStays
  <2>4. status'[r] # "ok"
    BY <2>1, SentStays
  <2>5. \A i \in DOMAIN inbox' : inbox'[i].cmdId # r
    <3>1. CASE \E k, d \in Nat : Leave(k, d)
      BY <2>1, <3>1 DEF Leave
    <3>2. ASSUME NEW M, Joins(M), \A m \in M : m.cmdId # None =>
                    /\ m.cmdId \in Requests
                    /\ executed[m.cmdId] = 0 /\ executed'[m.cmdId] = 1
          PROVE  \A i \in DOMAIN inbox' : inbox'[i].cmdId # r
      <4>1. \A m \in M : m.cmdId # r
        BY <2>1, <3>2, NoneIsNoRequest
      <4> QED BY <2>1, <3>2, <4>1 DEF Joins
    <3> QED BY <3>1, <3>2, InboxMoves
  <2> QED BY <2>3, <2>4, <2>5 DEF Unanswered
<1> QED BY <1>2 DEF GoesBlank

\* Answers stay right where messages join, if the new ones are.
LEMMA AnswersGrow ==
  ASSUME Typed, ProgressInv, AnswersInv, [Next]_vars, NEW M, Joins(M),
         UNCHANGED <<status, blank, program>>,
         \A m \in M :
            /\ m.cmdId # None =>
                  /\ m.cmdId \in Requests
                  /\ executed[m.cmdId] = 0 /\ executed'[m.cmdId] = 1
                  /\ m.namespace = Asked(m.cmdId).namespace
            /\ m.cmdId = None /\ m.body = "empty" /\ m.namespace = "playbackMetadata" => GoesBlank'
  PROVE  AnswersInv'
<1>1. /\ \A r \in Requests : status[r] = "ok" => executed[r] = 1
      /\ \A i \in DOMAIN inbox :
            /\ inbox[i].cmdId # None =>
                  /\ executed[inbox[i].cmdId] = 1 /\ status[inbox[i].cmdId] # "ok"
                  /\ inbox[i].namespace = Asked(inbox[i].cmdId).namespace
                  /\ \A j \in DOMAIN inbox : inbox[j].cmdId = inbox[i].cmdId => i = j
            /\ inbox[i].cmdId = None /\ inbox[i].body = "empty"
                  /\ inbox[i].namespace = "playbackMetadata" => GoesBlank
      /\ blank => GoesBlank
  BY DEF AnswersInv
<1>2. /\ \A i \in DOMAIN inbox : inbox'[i] = inbox[i]
      /\ \A i \in DOMAIN inbox' : \/ i \in DOMAIN inbox
                                  \/ /\ i \notin DOMAIN inbox /\ inbox'[i] \in M
                                     /\ inbox'[i].cmdId # None => i = Len(inbox) + 1
  BY DEF Joins
<1>3. GoesBlank => GoesBlank'
  BY UnansweredStays
<1>4. \A i \in DOMAIN inbox : inbox[i].cmdId \in Requests \cup {None}
  BY InboxTyped DEF Messages
<1>5. \A r \in Requests : executed[r] = 1 =>
         executed'[r] = 1 /\ Asked(r)'.namespace = Asked(r).namespace
  <2>1. \A r \in Requests : executed[r] = 1 => status[r] # "new"
    BY AllSubscribe DEF ProgressInv, Progress, Requests, Typed
  <2> QED BY <2>1, SentStays
<1>6. ASSUME NEW i \in DOMAIN inbox', NEW r, r = inbox'[i].cmdId, r # None
      PROVE  /\ executed'[r] = 1 /\ status'[r] # "ok"
             /\ inbox'[i].namespace = Asked(r)'.namespace
             /\ \A j \in DOMAIN inbox' : inbox'[j].cmdId = r => i = j
  <2>1. CASE i \in DOMAIN inbox
    <3>1. inbox'[i] = inbox[i] /\ r \in Requests /\ executed[r] = 1
      BY <1>1, <1>2, <1>4, <1>6, <2>1
    <3>2. executed'[r] = 1 /\ status[r] # "ok" /\ inbox'[i].namespace = Asked(r)'.namespace
      BY <1>1, <1>5, <1>6, <2>1, <3>1
    <3>3. \A j \in DOMAIN inbox' : inbox'[j].cmdId = r => i = j
      BY <1>1, <1>2, <1>6, <2>1, <3>1
    <3> QED BY <3>2, <3>3
  <2>2. CASE i \notin DOMAIN inbox
    <3>1. inbox'[i] \in M /\ i = Len(inbox) + 1
      BY <1>2, <1>6, <2>2
    <3>2. /\ r \in Requests /\ executed[r] = 0 /\ executed'[r] = 1
          /\ inbox'[i].namespace = Asked(r).namespace
      BY <1>6, <3>1
    <3>3. status[r] # "ok"
      BY <1>1, <3>2
    <3>4. \A j \in DOMAIN inbox' : inbox'[j].cmdId = r => i = j
      BY <1>1, <1>2, <1>6, <3>1, <3>2
    <3>5. Asked(r)' = Asked(r)
      BY DEF Asked
    <3> QED BY <3>2, <3>3, <3>4, <3>5
  <2> QED BY <2>1, <2>2
<1>7. ASSUME NEW i \in DOMAIN inbox', inbox'[i].cmdId = None, inbox'[i].body = "empty",
             inbox'[i].namespace = "playbackMetadata"
      PROVE  GoesBlank'
  BY <1>1, <1>2, <1>3, <1>7
<1>8. \A r \in Requests : status'[r] = "ok" => executed'[r] = 1
  BY <1>1, <1>5
<1> QED BY <1>1, <1>3, <1>6, <1>7, <1>8 DEF AnswersInv, Asked

\* And where messages leave.
LEMMA AnswersShrink ==
  ASSUME Typed, ProgressInv, AnswersInv, [Next]_vars, NEW k \in Nat, NEW d \in Nat, Leave(k, d),
         blank' => GoesBlank'
  PROVE  AnswersInv'
<1>1. /\ \A r \in Requests : status[r] = "ok" => executed[r] = 1
      /\ \A i \in DOMAIN inbox :
            /\ inbox[i].cmdId # None =>
                  /\ executed[inbox[i].cmdId] = 1 /\ status[inbox[i].cmdId] # "ok"
                  /\ inbox[i].namespace = Asked(inbox[i].cmdId).namespace
                  /\ \A j \in DOMAIN inbox : inbox[j].cmdId = inbox[i].cmdId => i = j
            /\ inbox[i].cmdId = None /\ inbox[i].body = "empty"
                  /\ inbox[i].namespace = "playbackMetadata" => GoesBlank
  BY DEF AnswersInv
<1>2. inbox \in Seq(Messages) /\ DOMAIN inbox = 1 .. Len(inbox) /\ Len(inbox) \in Nat
      /\ \A i \in DOMAIN inbox : inbox[i].cmdId \in Requests \cup {None}
  BY InboxTyped DEF Messages
<1>3. /\ \A i \in DOMAIN inbox' : /\ Was(k, d, i) \in DOMAIN inbox
                                  /\ inbox'[i] = inbox[Was(k, d, i)]
      /\ DOMAIN inbox' \subseteq Nat \ {0}
  BY LenProperties DEF Leave
<1>4. \A r \in Requests : executed[r] = 1 =>
         executed'[r] = 1 /\ Asked(r)'.namespace = Asked(r).namespace
  <2>1. \A r \in Requests : executed[r] = 1 => status[r] # "new"
    BY AllSubscribe DEF ProgressInv, Progress, Requests, Typed
  <2> QED BY <2>1, SentStays
<1>5. ASSUME NEW i \in DOMAIN inbox', NEW r, r = inbox'[i].cmdId, r # None
      PROVE  /\ executed'[r] = 1 /\ status'[r] # "ok"
             /\ inbox'[i].namespace = Asked(r)'.namespace
             /\ \A j \in DOMAIN inbox' : inbox'[j].cmdId = r => i = j
  <2>1. Was(k, d, i) \in DOMAIN inbox /\ inbox'[i] = inbox[Was(k, d, i)] /\ r \in Requests
    BY <1>2, <1>3, <1>5
  <2>2. /\ executed[r] = 1 /\ status[r] # "ok" /\ inbox'[i].namespace = Asked(r).namespace
        /\ \A j \in DOMAIN inbox : inbox[j].cmdId = r => Was(k, d, i) = j
    BY <1>1, <1>5, <2>1
  <2>3. status'[r] # "ok"
    <3>1. ASSUME stored + 1 \in DOMAIN inbox, Leave(stored, 1), inbox[stored + 1].cmdId = r
          PROVE  FALSE
      <4>1. Was(stored, 1, i) \in DOMAIN inbox /\ inbox[Was(stored, 1, i)].cmdId = r
        BY <1>5, <3>1 DEF Leave
      <4>2. Was(stored, 1, i) = stored + 1
        BY <2>2, <3>1, <4>1
      <4>3. stored \in Nat /\ i \in Nat
        BY <1>3 DEF Typed
      <4> QED BY <4>2, <4>3 DEF Was
    <3> QED BY <2>1, <2>2, <3>1, SentStays
  <2>4. \A j \in DOMAIN inbox' : inbox'[j].cmdId = r => i = j
    <3> SUFFICES ASSUME NEW j \in DOMAIN inbox', inbox'[j].cmdId = r
                 PROVE  i = j
      OBVIOUS
    <3>1. Was(k, d, j) \in DOMAIN inbox /\ inbox[Was(k, d, j)].cmdId = r
      BY <1>3
    <3>2. Was(k, d, i) = Was(k, d, j)
      BY <2>2, <3>1
    <3> QED BY <1>3, <3>2, WasGrows
  <2> QED BY <1>4, <2>1, <2>2, <2>3, <2>4
<1>6. ASSUME NEW i \in DOMAIN inbox', inbox'[i].cmdId = None, inbox'[i].body = "empty",
             inbox'[i].namespace = "playbackMetadata"
      PROVE  GoesBlank'
  BY <1>1, <1>3, <1>6, UnansweredStays
<1>7. \A r \in Requests : status'[r] = "ok" => executed'[r] = 1
  <2>1. \A r \in Requests : status'[r] = "ok" => executed[r] = 1
    BY <1>1, SentStays
  <2> QED BY <1>4, <2>1
<1> QED BY <1>5, <1>6, <1>7 DEF AnswersInv, Asked

\* Every step keeps the answers on their way right, and the reason of a blank event.
LEMMA AnswersKeep ==
  ASSUME Typed, ProgressInv, AnswersInv, [Next]_vars
  PROVE  AnswersInv'
<1>1. GoesBlank => GoesBlank'
  BY UnansweredStays
<1>2. blank => GoesBlank
  BY DEF AnswersInv
<1>3. inbox \in Seq(Messages) /\ DOMAIN executed = Requests
  BY DEF Typed
<1>4. ASSUME NEW n \in Topics, Change(n) \/ Fault \/ FirstEvent(n)
      PROVE  AnswersInv'
  <2>1. UNCHANGED <<status, blank, program>>
    BY <1>4 DEF Change, Fault, FirstEvent
  <2>2. ASSUME NEW b \in {"state", "error"}, NEW k, NEW v, Joins({Message(k, b, v, None)})
        PROVE  AnswersInv'
    <3>1. Message(k, b, v, None).cmdId = None /\ Message(k, b, v, None).body # "empty"
      BY DEF Message
    <3> QED BY <2>1, <2>2, <3>1, AnswersGrow
  <2> QED BY <1>4, <2>2, NoticeJoins
<1>5. ASSUME NEW r \in Requests, Accept(r)
      PROVE  AnswersInv'
  <2> DEFINE e == Message(Asked(r).namespace, "state", version'[Asked(r).namespace], None)
             a == Answer(r)
  <2>1. UNCHANGED <<status, blank, program>>
    BY <1>5 DEF Accept
  <2>2. Joins({a}) \/ Joins({a, e})
    BY <1>5, AcceptJoins
  <2>3. a.cmdId = r /\ e.cmdId = None /\ e.body # "empty" /\ a.namespace = Asked(r).namespace
    BY DEF Answer, Message
  <2>4. executed[r] = 0 /\ executed'[r] = 1 /\ Asked(r)' = Asked(r)
    BY <1>3, <1>5, <2>1 DEF Accept, Command!Execute, Asked
  <2> HIDE DEF e, a
  <2>5. /\ a.cmdId # None =>
              /\ a.cmdId \in Requests
              /\ executed[a.cmdId] = 0 /\ executed'[a.cmdId] = 1
              /\ a.namespace = Asked(a.cmdId).namespace
        /\ a.cmdId # None
    BY <2>3, <2>4, NoneIsNoRequest
  <2> QED BY <2>1, <2>2, <2>3, <2>5, AnswersGrow
<1>6. ASSUME NEW r \in Requests, Refuse(r)
      PROVE  AnswersInv'
  <2>1. PICK id \in {r, None} : inbox' = Append(inbox, Message(Asked(r).namespace, "empty", 0, id))
    BY <1>6 DEF Refuse
  <2>2. /\ executed[r] = 0 /\ executed'[r] = 1 /\ status[r] # "new"
        /\ UNCHANGED <<status, blank, program>> /\ Asked(r)' = Asked(r)
    BY <1>3, <1>6 DEF Refuse, Command!Execute, Asked
  <2> DEFINE m == Message(Asked(r).namespace, "empty", 0, id)
  <2>3. m \in Messages /\ m.cmdId = id /\ m.namespace = Asked(r).namespace
    BY <2>2, SentIsAsked DEF Message, Messages
  <2> HIDE DEF m
  <2>4. Joins({m})
    BY <1>3, <2>1, <2>3, OneJoins DEF m
  <2>5. m.cmdId # None =>
           /\ m.cmdId \in Requests /\ executed[m.cmdId] = 0 /\ executed'[m.cmdId] = 1
           /\ m.namespace = Asked(m.cmdId).namespace
    BY <2>2, <2>3
  <2>6. m.cmdId = None /\ m.namespace = "playbackMetadata" => GoesBlank'
    <3>1. status'[r] # "ok"
      BY <2>2 DEF AnswersInv
    <3>2. m.cmdId = None => \A i \in DOMAIN inbox' : inbox'[i].cmdId # r
      <4>1. \A i \in DOMAIN inbox : inbox'[i] = inbox[i] /\ inbox[i].cmdId # r
        BY <2>2, <2>4, NoneIsNoRequest DEF AnswersInv, Joins
      <4>2. \A i \in DOMAIN inbox' \ DOMAIN inbox : inbox'[i] = m
        BY <2>4 DEF Joins
      <4> QED BY <4>1, <4>2, NoneIsNoRequest
    <3>3. m.cmdId = None => Unanswered(r)'
      BY <2>2, <3>1, <3>2 DEF Unanswered
    <3> QED BY <2>2, <2>3, <3>3 DEF GoesBlank, Asked
  <2> QED BY <2>2, <2>4, <2>5, <2>6, AnswersGrow
<1>7. ASSUME NEW k \in Nat, NEW d \in Nat, Leave(k, d), UNCHANGED blank
      PROVE  AnswersInv'
  BY <1>1, <1>2, <1>7, AnswersShrink
<1>17. stored \in Nat /\ stored \in 0 .. Len(inbox)
  BY DEF Typed
<1>8. CASE Receive
  <2>1. UNCHANGED blank /\ \E k, d \in Nat : Leave(k, d)
    BY <1>8, <1>17, ReceiveMoves
  <2> QED BY <1>7, <2>1
<1>16. CASE Forward
  <2> DEFINE m == inbox[1]
  <2>1. Leave(0, 1) /\ 1 \in DOMAIN inbox /\ m \in Messages
    BY <1>16, ForwardMoves
  <2>3. AnswersInv'
    <3>1. Tell(m) /\ UNCHANGED <<status, executed, program>>
      BY <1>16, ForwardMoves
    <3>2. blank' => blank \/ (m.namespace = "playbackMetadata" /\ m.body \in {"error", "empty"}
                                                             /\ Event(m) = "Changed")
      <4>1. m.body \in {"state", "error", "empty"}
        BY <2>1 DEF Messages
      <4> HIDE DEF m
      <4> QED BY <3>1, <4>1 DEF Tell
    <3>3. Event(m) = "Changed" => m.body # "error"
      BY DEF Event
    <3>4. m.namespace = "playbackMetadata" /\ m.body = "empty" => GoesBlank'
      <4>1. CASE m.cmdId = None
        BY <1>1, <2>1, <4>1 DEF AnswersInv
      <4>2. CASE m.cmdId # None
        <5>1. PICK r \in Requests : r = m.cmdId
          BY <2>1, <4>2, InboxTyped DEF Messages
        <5>2. /\ executed[r] = 1 /\ status[r] # "ok" /\ m.namespace = Asked(r).namespace
              /\ \A j \in DOMAIN inbox : inbox[j].cmdId = r => 1 = j
          BY <2>1, <4>2, <5>1 DEF AnswersInv
        <5>3. \A i \in DOMAIN inbox' : inbox'[i].cmdId # r
          <6>1. \A i \in DOMAIN inbox' : i \in Nat \ {0} /\ i + 1 \in DOMAIN inbox
                                                         /\ inbox'[i] = inbox[i + 1]
            BY <2>1, LenProperties DEF Leave, Was
          <6> QED BY <5>2, <6>1
        <5> HIDE DEF m
        <5>4. Unanswered(r)'
          BY <3>1, <5>2, <5>3 DEF Unanswered
        <5> QED BY <3>1, <5>1, <5>2, <5>4 DEF GoesBlank, Asked
      <4> QED BY <4>1, <4>2
    <3>5. blank' => GoesBlank'
      BY <1>1, <1>2, <3>2, <3>3, <3>4
    <3> QED BY <2>1, <3>5, AnswersShrink
  <2> QED BY <2>3
<1>9. CASE LinkEnds \/ Announce
  BY <1>7, <1>9, LinkMoves
<1>10. CASE UNCHANGED <<inbox, blank>>
  BY <1>3, <1>7, <1>10, <1>17, SomeLeave
<1>11. ASSUME \/ Reconnect \/ Listen \/ UNCHANGED vars
              \/ \E r \in Requests : Fail(r)
              \/ \E c \in Calls : Begin(c)
       PROVE  UNCHANGED <<inbox, blank>>
  BY <1>11 DEF vars, Reconnect, Listen, Fail, Begin
<1>12. CASE Lose \/ Disconnect \/ Announce
  BY <1>9, <1>12 DEF Lose, Disconnect
<1>13. Fault => Topics # {}
  BY DEF Fault, Typed
<1>14. CASE (\E n \in Topics : Change(n) \/ FirstEvent(n)) \/ Fault
  BY <1>4, <1>13, <1>14
<1>15. CASE \E r \in Requests : Accept(r) \/ Refuse(r)
  BY <1>5, <1>6, <1>15
<1> QED BY <1>8, <1>10, <1>11, <1>12, <1>14, <1>15, <1>16 DEF Next

\* The speaker's states have growing versions.
LEMMA VersionsGrow ==
  ASSUME Typed, ProgressInv, [Next]_vars
  PROVE  /\ \A n \in Topics : version[n] \in Nat /\ version'[n] \in Nat /\ version[n] <= version'[n]
         /\ \A n : Versioned(n) \in Nat /\ Versioned(n) <= Versioned(n)'
<1>1. version \in [Topics -> Nat]
  BY DEF Typed
<1>2. ASSUME NEW n \in Topics, version' = [version EXCEPT ![n] = version[n] + 1]
      PROVE  \A k \in Topics : version'[k] \in Nat /\ version[k] <= version'[k]
  BY <1>1, <1>2
<1>3. ASSUME NEW n \in Topics, Change(n) \/ Fault \/ FirstEvent(n)
      PROVE  UNCHANGED version \/ version' = [version EXCEPT ![n] = version[n] + 1]
  BY <1>3, NoticeJoins
<1>4. ASSUME NEW r \in Requests, Accept(r)
      PROVE  \/ UNCHANGED version
             \/ \E n \in Topics : version' = [version EXCEPT ![n] = version[n] + 1]
  BY <1>4, AcceptJoins
<1>5. ASSUME \/ Fault \/ Lose \/ Announce \/ Reconnect \/ Disconnect \/ Listen \/ Receive
             \/ Forward \/ UNCHANGED vars
             \/ \E r \in Requests : Refuse(r) \/ Fail(r)
             \/ \E c \in Calls : Begin(c)
      PROVE  UNCHANGED version
  BY <1>5 DEF vars, Fault, Lose, Announce, Reconnect, Disconnect, LinkEnds, Listen, Receive,
     Forward, Refuse, Fail, Begin
<1>6. \A n \in Topics : version[n] \in Nat /\ version'[n] \in Nat /\ version[n] <= version'[n]
  BY <1>1, <1>2, <1>3, <1>4, <1>5 DEF Next
<1> QED BY <1>6 DEF Versioned

\* A read begins in the state the speaker is in.
LEMMA BegunKeeps ==
  ASSUME Typed, ProgressInv, BegunBefore, [Next]_vars
  PROVE  BegunBefore'
<1> SUFFICES ASSUME NEW r \in Requests, status'[r] # "new", Asked(r)'.op = "query",
                    NEW n, n = Asked(r)'.namespace
             PROVE  since'[r[1]] <= Versioned(n)'
  BY DEF BegunBefore, Asked, Versioned
<1>1. /\ DOMAIN status = Requests /\ DOMAIN program = Calls /\ DOMAIN since = Calls
  BY DEF Typed
<1>2. PICK c \in Calls, i \in 1 .. Len(SubscribeAll) : r = <<c, i>>
  BY DEF Requests
<1>3. CASE status[r] # "new"
  <2>1. Asked(r)' = Asked(r) /\ since'[r[1]] = since[r[1]]
    BY <1>3, SentStays
  <2>2. since[r[1]] <= Versioned(Asked(r).namespace)
    BY <1>3, <2>1 DEF BegunBefore
  <2>3. since[r[1]] \in Nat
    BY <1>2 DEF Typed
  <2>4. Versioned(n) \in Nat /\ Versioned(n)' \in Nat /\ Versioned(n) <= Versioned(n)'
    BY VersionsGrow DEF Versioned
  <2> QED BY <2>1, <2>2, <2>3, <2>4
<1>4. ASSUME NEW k \in Calls, Begin(k), status[r] = "new"
      PROVE  since'[r[1]] <= Versioned(n)'
  <2>1. PICK p \in Programs(k) :
           /\ program' = [program EXCEPT ![k] = p]
           /\ since' = [since EXCEPT ![k] = IF p[1].op = "query" THEN Versioned(p[1].namespace)
                                                                 ELSE 0]
    BY <1>4 DEF Begin
  <2>2. \/ status' = [status EXCEPT ![<<k, 1>>] = "open"] \/ UNCHANGED status
    BY <1>4 DEF Begin, Send, Command!Start
  <2>3. r = <<k, 1>>
    BY <1>1, <1>4, <2>2
  <2>4. Asked(r)' = p[1] /\ p[1].namespace = n /\ since'[k] = Versioned(n)
    BY <1>1, <2>1, <2>3 DEF Asked
  <2>5. UNCHANGED version
    BY <1>4 DEF Begin
  <2>6. Versioned(n) \in Nat
    BY DEF Versioned, Typed
  <2> QED BY <2>3, <2>4, <2>5, <2>6 DEF Versioned
<1>5. ASSUME NEW q \in Requests, NEW m \in Messages, Reply(q, m)
      PROVE  status[r] # "new"
  <2> DEFINE k == q[1]
  <2>1. /\ k \in Calls /\ q = <<k, step[k]>> /\ UNCHANGED program
        /\ \/ status' = [status EXCEPT ![q] = "ok", ![<<k, step[k] + 1>>] = "open"]
           \/ status' = [status EXCEPT ![q] = "ok"]
    BY <1>5, ReplyMoves
  <2>2. step[k] \in 1 .. Len(SubscribeAll) /\ status[q] # "new"
    BY <1>5, <2>1, AllSubscribe DEF Requests, Reply
  <2> SUFFICES ASSUME status[r] = "new"  PROVE FALSE
    OBVIOUS
  <2>3. c = k /\ i = step[k] + 1
    BY <1>1, <1>2, <2>1, <2>2
  <2>4. program[c][i].op = "query" /\ i > 1
    BY <1>2, <2>1, <2>2, <2>3 DEF Asked
  <2>5. step[k] < Len(program[k])
    BY <1>1, <1>2, <1>5, <2>1, <2>2, <2>3, ReplyMoves
  <2>6. program[c] \in Programs(c) \cup {<<>>}
    BY DEF Typed
  <2>7. i \in 1 .. Len(program[c])
    BY <2>2, <2>3, <2>5, <2>6, ProgramShape, AllSubscribe
  <2> QED BY <2>4, <2>6, <2>7, ProgramShape
<1>6. CASE Receive
  BY <1>3, <1>5, <1>6, ReceiveMoves
<1>7. ASSUME NEW q \in Requests, Accept(q) \/ Refuse(q) \/ Fail(q)
      PROVE  status[r] # "new"
  <2>1. status' = status \/ (status[q] = "open" /\ status' = [status EXCEPT ![q] = "timeout"])
    BY <1>1, <1>7 DEF Accept, Refuse, Fail, Command!Execute, Command!Fail
  <2> QED BY <1>1, <2>1
<1>8. ASSUME \/ \E t \in Topics : Change(t) \/ FirstEvent(t)
             \/ Fault \/ Lose \/ Announce \/ Reconnect \/ Disconnect \/ Listen \/ Forward
             \/ UNCHANGED vars
      PROVE  UNCHANGED status
  BY <1>8 DEF vars, Change, FirstEvent, Fault, Lose, Announce, Reconnect, Disconnect, LinkEnds,
     Listen, Forward
<1> QED BY <1>3, <1>4, <1>6, <1>7, <1>8 DEF Next

\* Answers stay fresh where messages join, if the new ones are, and where some leave.
LEMMA FreshAnswersKeep ==
  ASSUME Typed, ProgressInv, AnswersInv, FreshAnswers, [Next]_vars, refused \subseteq refused',
         \/ \E k, d \in Nat : Leave(k, d)
         \/ \E M : /\ Joins(M) /\ UNCHANGED <<program, since>>
                   /\ \A m \in M : LET r == m.cmdId IN
                        r # None /\ r \notin refused' /\ Asked(r).op = "query"
                           => since[r[1]] <= m.version
  PROVE  FreshAnswers'
<1> SUFFICES ASSUME NEW i \in DOMAIN inbox', NEW r, r = inbox'[i].cmdId,
                    r # None, r \notin refused', Asked(r)'.op = "query"
             PROVE  since'[r[1]] <= inbox'[i].version
  BY DEF FreshAnswers, Asked
<1>1. ASSUME NEW j \in DOMAIN inbox, inbox'[i] = inbox[j]
      PROVE  since'[r[1]] <= inbox'[i].version
  <2>1. r \in Requests /\ executed[r] = 1
    BY <1>1, InboxTyped DEF Messages, AnswersInv
  <2>2. status[r] # "new"
    BY <2>1, AllSubscribe DEF ProgressInv, Progress, Requests, Typed
  <2>3. Asked(r)' = Asked(r) /\ since'[r[1]] = since[r[1]]
    BY <2>1, <2>2, SentStays
  <2> QED BY <1>1, <2>3 DEF FreshAnswers
<1>2. ASSUME NEW k \in Nat, NEW d \in Nat, Leave(k, d)
      PROVE  since'[r[1]] <= inbox'[i].version
  BY <1>1, <1>2 DEF Leave
<1>3. ASSUME NEW M, Joins(M), UNCHANGED <<program, since>>,
             \A m \in M : m.cmdId # None /\ m.cmdId \notin refused' /\ Asked(m.cmdId).op = "query"
                             => since[m.cmdId[1]] <= m.version
      PROVE  since'[r[1]] <= inbox'[i].version
  <2>1. CASE i \in DOMAIN inbox
    BY <1>1, <1>3, <2>1 DEF Joins
  <2>2. CASE i \notin DOMAIN inbox
    <3>1. inbox'[i] \in M /\ Asked(r).op = "query"
      BY <1>3, <2>2 DEF Joins, Asked
    <3> QED BY <1>3, <3>1
  <2> QED BY <2>1, <2>2
<1> QED BY <1>2, <1>3

\* Every step keeps reads fresh.
LEMMA FreshKeeps ==
  ASSUME Typed, ProgressInv, AnswersInv, FreshInv, [Next]_vars
  PROVE  FreshInv'
<1>1. inbox \in Seq(Messages) /\ BegunBefore /\ FreshAnswers /\ ReadsAreFresh
  BY DEF Typed, FreshInv
<1>2. FreshAnswers'
  <2>1. ASSUME NEW n \in Topics, Change(n) \/ Fault \/ FirstEvent(n)
        PROVE  FreshAnswers'
    <3>1. PICK b, k, v : Joins({Message(k, b, v, None)})
      BY <2>1, NoticeJoins
    <3>2. Message(k, b, v, None).cmdId = None
      BY DEF Message
    <3>3. UNCHANGED <<program, since, refused>>
      BY <2>1 DEF Change, Fault, FirstEvent
    <3> QED BY <1>1, <3>1, <3>2, <3>3, FreshAnswersKeep
  <2>2. ASSUME NEW r \in Requests, Accept(r)
        PROVE  FreshAnswers'
    <3> DEFINE e == Message(Asked(r).namespace, "state", version'[Asked(r).namespace], None)
               a == Answer(r)
    <3>1. UNCHANGED <<program, since, refused>> /\ status[r] # "new"
      BY <2>2 DEF Accept, Command!Execute
    <3>2. Joins({a}) \/ Joins({a, e})
      BY <2>2, AcceptJoins
    <3>3. /\ a.cmdId = r /\ e.cmdId = None
          /\ Asked(r).op = "query" => a.version = Versioned(Asked(r).namespace)
      BY DEF Answer, Message
    <3>4. Asked(r).op = "query" => since[r[1]] <= a.version
      BY <1>1, <3>1, <3>3 DEF BegunBefore
    <3> HIDE DEF e, a
    <3>5. ASSUME NEW m \in {a, e}, m.cmdId # None, Asked(m.cmdId).op = "query"
          PROVE  since[m.cmdId[1]] <= m.version
      BY <3>3, <3>4, <3>5
    <3> QED BY <1>1, <3>1, <3>2, <3>5, FreshAnswersKeep
  <2>3. ASSUME NEW r \in Requests, Refuse(r)
        PROVE  FreshAnswers'
    <3>1. PICK id \in {r, None} :
             inbox' = Append(inbox, Message(Asked(r).namespace, "empty", 0, id))
      BY <2>3 DEF Refuse
    <3> DEFINE m == Message(Asked(r).namespace, "empty", 0, id)
    <3>2. m.cmdId = id /\ m \in Messages
      BY <2>3, SentIsAsked DEF Message, Messages, Refuse, Command!Execute
    <3>3. refused' = refused \cup {r} /\ UNCHANGED <<program, since>>
      BY <2>3 DEF Refuse
    <3> HIDE DEF m
    <3>4. Joins({m})
      BY <1>1, <3>1, <3>2, OneJoins DEF m
    <3>5. ASSUME NEW e \in {m}  PROVE ~(e.cmdId # None /\ e.cmdId \notin refused')
      BY <3>2, <3>3
    <3> QED BY <1>1, <3>3, <3>4, <3>5, FreshAnswersKeep
  <2>4. CASE \E k, d \in Nat : Leave(k, d) /\ UNCHANGED refused
    BY <1>1, <2>4, FreshAnswersKeep
  <2>5. CASE LinkEnds \/ Announce \/ Receive \/ Forward \/ UNCHANGED <<inbox, refused>>
    <3>1. UNCHANGED refused
      BY <2>5, LinkMoves, ReceiveMoves, ForwardMoves
    <3>2. stored \in 0 .. Len(inbox) /\ stored \in Nat
      BY DEF Typed
    <3>3. \E k, d \in Nat : Leave(k, d)
      BY <1>1, <2>5, <3>2, SomeLeave, LinkMoves, ReceiveMoves, ForwardMoves
    <3> QED BY <2>4, <3>1, <3>3
  <2>6. ASSUME \/ Reconnect \/ Listen \/ UNCHANGED vars
               \/ \E r \in Requests : Fail(r)
               \/ \E c \in Calls : Begin(c)
        PROVE  UNCHANGED <<inbox, refused>>
    BY <2>6 DEF vars, Reconnect, Listen, Fail, Begin
  <2>7. CASE Lose \/ Disconnect \/ Announce
    BY <2>5, <2>7 DEF Lose, Disconnect
  <2>8. Fault => Topics # {}
    BY DEF Fault, Typed
  <2>9. CASE (\E n \in Topics : Change(n) \/ FirstEvent(n)) \/ Fault
    BY <2>1, <2>8, <2>9
  <2>10. CASE \E r \in Requests : Accept(r) \/ Refuse(r)
    BY <2>2, <2>3, <2>10
  <2> QED BY <2>5, <2>6, <2>7, <2>9, <2>10 DEF Next
<1>3. ReadsAreFresh'
  <2> SUFFICES ASSUME NEW c \in Calls, outcome'[c] = "ok", program'[c][1].op = "query",
                      <<c, 1>> \notin refused'
               PROVE  got'[c] >= since'[c]
    BY DEF ReadsAreFresh
  <2>1. refused \subseteq refused'
    <3>1. ASSUME NEW r \in Requests, Refuse(r)  PROVE refused \subseteq refused'
      BY <3>1 DEF Refuse
    <3>2. ASSUME \/ \E n \in Topics : Change(n) \/ FirstEvent(n)
                 \/ Fault \/ Lose \/ Announce \/ Reconnect \/ Disconnect \/ Listen \/ Receive
                 \/ Forward \/ UNCHANGED vars
                 \/ \E r \in Requests : Accept(r) \/ Fail(r)
                 \/ \E k \in Calls : Begin(k)
          PROVE  UNCHANGED refused
      BY <3>2 DEF vars, Change, FirstEvent, Fault, Lose, Announce, Reconnect, Disconnect, LinkEnds,
     Listen, Forward,
         Receive, Accept, Fail, Begin
    <3> QED BY <3>1, <3>2 DEF Next
  <2>2. CASE outcome[c] = "ok"
    BY <1>1, <2>1, <2>2, ReturnedStays DEF ReadsAreFresh
  <2>3. CASE outcome[c] # "ok"
    <3>1. ASSUME NEW r \in Requests, NEW m \in Messages, Reply(r, m), NEW i \in DOMAIN inbox,
                 m = inbox[i], m.cmdId = r, UNCHANGED refused
          PROVE  got'[c] >= since'[c]
      <4> DEFINE k == r[1]
      <4>1. /\ k \in Calls /\ r = <<k, step[k]>> /\ UNCHANGED <<program, since>>
            /\ \/ UNCHANGED outcome
               \/ /\ \E o : /\ outcome' = [outcome EXCEPT ![k] = o]
                            /\ o = "ok" => step[k] >= Len(program[k])
                  /\ got' = IF Asked(r).op = "query" THEN [got EXCEPT ![k] = m.version] ELSE got
        BY <3>1, ReplyMoves
      <4>2. outcome \in [Calls -> {"none", "ok", "failed", "undecodable", "not_connected"}]
            /\ got \in [Calls -> Nat] /\ since \in [Calls -> Nat] /\ step \in [Calls -> Nat]
        BY DEF Typed
      <4> HIDE DEF k
      <4>3. c = k /\ step[c] >= Len(program[c])
        BY <2>3, <4>1, <4>2
      <4>4. program[c] \in Programs(c) \cup {<<>>} /\ step[c] <= Len(program[c])
        BY DEF Typed
      <4>5. step[c] >= 1
        BY <3>1, <4>1, <4>3, AllSubscribe DEF Requests
      <4>6. Len(program[c]) \in Nat /\ 1 \in 1 .. Len(program[c])
        <5>1. Len(program[c]) \in Nat
          BY <4>4, ProgramShape, AllSubscribe
        <5> QED BY <4>2, <4>4, <4>5, <5>1
      <4>7. Len(program[c]) = 1
        BY <4>1, <4>4, <4>6, ProgramShape
      <4>8. step[c] = 1 /\ Asked(r) = program[c][1]
        BY <4>1, <4>2, <4>3, <4>4, <4>5, <4>7 DEF Asked
      <4>9. Asked(r).op = "query" /\ r = <<c, 1>> /\ r \notin refused
        BY <2>1, <4>1, <4>3, <4>8
      <4>10. since[c] <= m.version
        <5>1. r[1] = c
          BY <4>9
        <5> QED BY <1>1, <3>1, <4>9, <5>1, NoneIsNoRequest DEF FreshAnswers
      <4>11. got'[c] = m.version
        BY <2>3, <4>1, <4>2, <4>3, <4>9
      <4>12. m.version \in Nat
        BY <3>1 DEF Messages
      <4> QED BY <4>1, <4>2, <4>10, <4>11, <4>12
    <3>2. CASE Receive
      <4>1. /\ Unread \in Messages /\ Unread = inbox[stored + 1] /\ stored + 1 \in DOMAIN inbox
            /\ UNCHANGED refused
        BY <3>2, ReceiveMoves DEF Unread
      <4>2. CASE Unread.cmdId \in Requests /\ Reply(Unread.cmdId, Unread)
        BY <3>1, <4>1, <4>2
      <4>3. CASE UNCHANGED <<sent, calls>>
        BY <2>3, <4>3
      <4> QED BY <3>2, <4>2, <4>3, ReceiveMoves
    <3>3. outcome \in [Calls -> {"none", "ok", "failed", "undecodable", "not_connected"}]
      BY DEF Typed
    <3>4. ASSUME NEW r \in Requests, Fail(r)  PROVE FALSE
      <4>1. outcome' = [outcome EXCEPT ![r[1]] = "failed"]
        BY <3>4 DEF Fail, Return
      <4> QED BY <2>3, <3>3, <4>1
    <3>5. ASSUME NEW k \in Calls, Begin(k)  PROVE FALSE
      <4>1. UNCHANGED outcome \/ outcome' = [outcome EXCEPT ![k] = "not_connected"]
        BY <3>5 DEF Begin, Send
      <4> QED BY <2>3, <3>3, <4>1
    <3>6. ASSUME \/ \E n \in Topics : Change(n) \/ FirstEvent(n)
                 \/ Fault \/ Lose \/ Announce \/ Reconnect \/ Disconnect \/ Listen \/ Forward
                 \/ UNCHANGED vars
                 \/ \E r \in Requests : Accept(r) \/ Refuse(r)
          PROVE  UNCHANGED outcome
      BY <3>6 DEF vars, Change, FirstEvent, Fault, Lose, Announce, Reconnect, Disconnect, LinkEnds,
     Listen, Forward,
         Accept, Refuse
    <3> QED BY <2>3, <3>2, <3>4, <3>5, <3>6 DEF Next
  <2> QED BY <2>2, <2>3
<1> QED BY <1>1, <1>2, <1>3, BegunKeeps DEF FreshInv

\* States join with the version the speaker is at.
LEMMA OrderGrows ==
  ASSUME Typed, ProgressInv, OrderInv, [Next]_vars, NEW M, Joins(M), UNCHANGED view,
         \A m \in M : m.namespace \in Topics /\ m.body = "state"
                         => m.version = version'[m.namespace]
  PROVE  OrderInv'
<1> SUFFICES ASSUME NEW n \in Topics
             PROVE  /\ view'[n] <= version'[n]
                    /\ \A i \in States(n)' :
                          /\ view'[n] <= inbox'[i].version /\ inbox'[i].version <= version'[n]
                          /\ \A j \in States(n)' :
                                i <= j => inbox'[i].version <= inbox'[j].version
  BY DEF OrderInv
<1>1. /\ view[n] \in Nat /\ version[n] \in Nat /\ version'[n] \in Nat /\ version[n] <= version'[n]
      /\ Len(inbox) \in Nat /\ DOMAIN inbox = 1 .. Len(inbox)
      /\ \A i \in DOMAIN inbox : inbox[i].version \in Nat
  BY VersionsGrow, InboxTyped DEF Typed, Messages
<1>2. /\ view[n] <= version[n]
      /\ \A i \in States(n) :
            /\ view[n] <= inbox[i].version /\ inbox[i].version <= version[n]
            /\ \A j \in States(n) : i <= j => inbox[i].version <= inbox[j].version
  BY DEF OrderInv
<1>3. /\ \A i \in DOMAIN inbox : inbox'[i] = inbox[i]
      /\ \A i \in DOMAIN inbox' \ DOMAIN inbox : inbox'[i] \in M
      /\ DOMAIN inbox' \subseteq Nat \ {0}
  BY LenProperties DEF Joins
<1>4. \A i \in States(n)' : \/ i \in States(n) /\ inbox'[i] = inbox[i] /\ i \in DOMAIN inbox
                            \/ i \notin DOMAIN inbox /\ inbox'[i].version = version'[n]
  BY <1>3 DEF States
<1>5. \A i, j \in DOMAIN inbox' : i \notin DOMAIN inbox /\ j \in DOMAIN inbox => ~(i <= j)
  BY <1>1, <1>3
<1>6. \A i \in States(n)' : i \in DOMAIN inbox'
  BY DEF States
<1>7. ASSUME NEW i \in States(n)'
      PROVE  view'[n] <= inbox'[i].version /\ inbox'[i].version <= version'[n]
  BY <1>1, <1>2, <1>4
<1>8. ASSUME NEW i \in States(n)', NEW j \in States(n)', i <= j
      PROVE  inbox'[i].version <= inbox'[j].version
  <2>1. CASE i \in DOMAIN inbox /\ j \in DOMAIN inbox
    BY <1>2, <1>4, <1>8, <2>1
  <2>2. CASE j \notin DOMAIN inbox
    BY <1>1, <1>4, <1>7, <2>2
  <2> QED BY <1>5, <1>6, <1>8, <2>1, <2>2
<1>9. view'[n] <= version'[n]
  BY <1>1, <1>2
<1> QED BY <1>7, <1>8, <1>9

\* Messages leave; the one that is told of is the first of the states.
LEMMA OrderShrinks ==
  ASSUME Typed, ProgressInv, OrderInv, [Next]_vars, NEW k \in Nat, NEW d \in Nat, Leave(k, d),
         \/ UNCHANGED view
         \/ \E n \in Topics : /\ k = 0 /\ d = 1 /\ 1 \in States(n)
                              /\ view' = [view EXCEPT ![n] = inbox[1].version]
  PROVE  OrderInv' /\ \A n \in Topics : view[n] <= view'[n]
<1> SUFFICES ASSUME NEW n \in Topics
             PROVE  /\ view'[n] <= version'[n] /\ view[n] <= view'[n]
                    /\ \A i \in States(n)' :
                          /\ view'[n] <= inbox'[i].version /\ inbox'[i].version <= version'[n]
                          /\ \A j \in States(n)' :
                                i <= j => inbox'[i].version <= inbox'[j].version
  BY DEF OrderInv
<1>1. /\ view \in [Topics -> Nat]
      /\ view[n] \in Nat /\ version[n] \in Nat /\ version'[n] \in Nat /\ version[n] <= version'[n]
      /\ Len(inbox) \in Nat /\ DOMAIN inbox = 1 .. Len(inbox)
      /\ \A i \in DOMAIN inbox : inbox[i].version \in Nat
  BY VersionsGrow, InboxTyped DEF Typed, Messages
<1>2. /\ view[n] <= version[n]
      /\ \A i \in States(n) :
            /\ i \in DOMAIN inbox /\ i \in Nat
            /\ view[n] <= inbox[i].version /\ inbox[i].version <= version[n]
            /\ \A j \in States(n) : i <= j => inbox[i].version <= inbox[j].version
  BY <1>1 DEF OrderInv, States
<1>3. \A i \in States(n)' : /\ i \in Nat \ {0} /\ Was(k, d, i) \in States(n)
                            /\ inbox'[i] = inbox[Was(k, d, i)]
  BY LenProperties DEF Leave, States
<1>4. \/ view'[n] = view[n]
      \/ k = 0 /\ d = 1 /\ 1 \in States(n) /\ view'[n] = inbox[1].version
  BY <1>1
<1>5. /\ view'[n] <= version'[n] /\ view[n] <= view'[n]
      /\ \A i \in States(n) : i >= 1 => view'[n] <= inbox[i].version
  BY <1>1, <1>2, <1>4
<1>6. ASSUME NEW i \in States(n)'
      PROVE  view'[n] <= inbox'[i].version /\ inbox'[i].version <= version'[n]
  <2>1. Was(k, d, i) \in States(n) /\ Was(k, d, i) >= 1
    BY <1>3 DEF Was
  <2> QED BY <1>1, <1>2, <1>3, <1>5, <2>1
<1>7. ASSUME NEW i \in States(n)', NEW j \in States(n)', i <= j
      PROVE  inbox'[i].version <= inbox'[j].version
  <2>1. /\ Was(k, d, i) \in States(n) /\ Was(k, d, j) \in States(n)
        /\ Was(k, d, i) <= Was(k, d, j)
    BY <1>3, <1>7, WasGrows
  <2> QED BY <1>2, <1>3, <2>1
<1> QED BY <1>5, <1>6, <1>7

\* Every step keeps the order, and what is told does not go back.
LEMMA OrderKeeps ==
  ASSUME Typed, ProgressInv, OrderInv, [Next]_vars
  PROVE  OrderInv' /\ \A n \in Topics : view[n] <= view'[n]
<1>1. inbox \in Seq(Messages) /\ view \in [Topics -> Nat]
  BY DEF Typed
<1>2. UNCHANGED view => \A n \in Topics : view[n] <= view'[n]
  BY <1>1
<1>3. ASSUME NEW n \in Topics, Change(n) \/ Fault \/ FirstEvent(n)
      PROVE  OrderInv' /\ UNCHANGED view
  <2>1. UNCHANGED view
    BY <1>3 DEF Change, Fault, FirstEvent
  <2> DEFINE e == Message(n, "state", version'[n], None)
             f == Message("playback", "error", 0, None)
  <2>2. Joins({e}) \/ Joins({f})
    BY <1>3, NoticeJoins
  <2>3. e.version = version'[n] /\ e.namespace = n /\ f.body = "error"
    BY DEF Message
  <2> HIDE DEF e, f
  <2>4. \A m \in {e, f} : m.namespace \in Topics /\ m.body = "state"
                             => m.version = version'[m.namespace]
    BY <2>3
  <2> QED BY <2>1, <2>2, <2>4, OrderGrows
<1>4. ASSUME NEW r \in Requests, Accept(r)
      PROVE  OrderInv' /\ UNCHANGED view
  <2> DEFINE n == Asked(r).namespace
             e == Message(n, "state", version'[n], None)
             a == Answer(r)
  <2>1. UNCHANGED view
    BY <1>4 DEF Accept
  <2>2. \/ Joins({a}) /\ UNCHANGED version
        \/ Asked(r).op # "query" /\ Joins({a, e})
    BY <1>4, AcceptJoins
  <2>3. /\ e.version = version'[n] /\ e.namespace = n /\ a.namespace = n
        /\ a.body = "state" => Asked(r).op = "query" /\ (n \in Topics => a.version = version[n])
    BY DEF Message, Answer, Versioned
  <2> HIDE DEF e, a, n
  <2> QED BY <2>1, <2>2, <2>3, OrderGrows
<1>5. ASSUME NEW r \in Requests, Refuse(r)
      PROVE  OrderInv' /\ UNCHANGED view
  <2>1. PICK id \in {r, None} :
           inbox' = Append(inbox, Message(Asked(r).namespace, "empty", 0, id))
    BY <1>5 DEF Refuse
  <2> DEFINE m == Message(Asked(r).namespace, "empty", 0, id)
  <2>2. m.body = "empty" /\ m \in Messages /\ UNCHANGED view
    BY <1>5, SentIsAsked DEF Message, Messages, Refuse, Command!Execute
  <2> HIDE DEF m
  <2>3. Joins({m})
    BY <1>1, <2>1, <2>2, OneJoins DEF m
  <2> QED BY <2>2, <2>3, OrderGrows
<1>6. CASE Forward
  <2> DEFINE m == inbox[1]
  <2>1. Leave(0, 1) /\ 1 \in DOMAIN inbox
    BY <1>6, ForwardMoves
  <2>2. CASE UNCHANGED view
    BY <2>1, <2>2, OrderShrinks
  <2>3. CASE ~UNCHANGED view
    <3>1. Tell(m)
      BY <1>6, ForwardMoves
    <3>2. /\ m.body = "state" /\ Event(m) = "Changed"
          /\ view' = [view EXCEPT ![m.namespace] = m.version]
      BY <2>3, <3>1 DEF Tell
    <3>3. m.namespace \in Topics
      BY <3>2 DEF Event
    <3> QED BY <2>1, <3>2, <3>3, OrderShrinks DEF States
  <2> QED BY <2>2, <2>3
<1>7. CASE LinkEnds \/ Announce \/ Receive \/ UNCHANGED <<inbox, view>>
  <2>1. UNCHANGED view
    BY <1>7, LinkMoves, ReceiveMoves
  <2>2. stored \in 0 .. Len(inbox) /\ stored \in Nat
    BY DEF Typed
  <2>3. \E k, d \in Nat : Leave(k, d)
    BY <1>1, <1>7, <2>2, SomeLeave, LinkMoves, ReceiveMoves
  <2> QED BY <2>1, <2>3, OrderShrinks
<1>8. ASSUME \/ Reconnect \/ UNCHANGED vars \/ Listen
             \/ \E r \in Requests : Fail(r)
             \/ \E c \in Calls : Begin(c)
      PROVE  UNCHANGED <<inbox, view>>
  BY <1>8 DEF vars, Reconnect, Listen, Fail, Begin
<1>9. CASE Lose \/ Disconnect \/ Announce \/ Receive
  BY <1>7, <1>9 DEF Lose, Disconnect
<1>10. Fault => Topics # {}
  BY DEF Fault, Typed
<1>11. CASE (\E n \in Topics : Change(n) \/ FirstEvent(n)) \/ Fault
  BY <1>2, <1>3, <1>10, <1>11
<1>12. CASE \E r \in Requests : Accept(r) \/ Refuse(r)
  BY <1>2, <1>4, <1>5, <1>12
<1> QED BY <1>6, <1>7, <1>8, <1>9, <1>11, <1>12 DEF Next

-------------------------------------------------------------------------------
(* The theorems *)

\* The inductive invariant.
Inv == Typed /\ ProgressInv /\ SubscribedInv /\ AnswersInv /\ FreshInv /\ OrderInv

\* Nothing was sent, said or told at the start.
LEMMA InvHolds == Init => Inv
<1> SUFFICES ASSUME Init  PROVE Inv
  OBVIOUS
<1>1. Len(inbox) = 0 /\ inbox \in Seq(Messages) /\ DOMAIN inbox = {}
  BY EmptySeq DEF Init
<1>2. /\ status = [r \in Requests |-> "new"] /\ executed = [r \in Requests |-> 0]
      /\ \A c \in Calls : /\ step[c] = 0 /\ program[c] = <<>> /\ outcome[c] = "none"
  BY DEF Init, Command!Init
<1>3. Typed
  <2>1. /\ inbox \in Seq(Messages) /\ Len(inbox) <= MaxInbox /\ changes \in 0 .. MaxChanges
        /\ stored \in 0 .. Len(inbox) /\ stored <= Capacity /\ lagged = FALSE
    BY <1>1, PlaybackBounds, PlaybackCapacity DEF Init
  <2>2. /\ version \in [Topics -> Nat] /\ view \in [Topics -> Nat]
        /\ since \in [Calls -> Nat] /\ got \in [Calls -> Nat] /\ step \in [Calls -> Nat]
        /\ outcome \in [Calls -> {"none", "ok", "failed", "undecodable", "not_connected"}]
    BY DEF Init
  <2>3. /\ status \in [Requests -> {"new", "open", "ok"} \cup Command!Failures]
        /\ executed \in [Requests -> {0, 1}]
    BY <1>2
  <2>4. /\ DOMAIN program = Calls /\ \A c \in Calls : program[c] \in Programs(c) \cup {<<>>}
        /\ \A c \in Calls : step[c] <= Len(program[c])
    BY <1>2 DEF Init
  <2>5. /\ subs \subseteq Topics /\ owed \subseteq subs /\ link \in {"up", "down", "over"}
        /\ listening \in BOOLEAN /\ blank \in BOOLEAN
        /\ refused \subseteq Requests /\ broken \subseteq Calls /\ unheard \subseteq Topics
    BY DEF Init
  <2> QED BY <2>1, <2>2, <2>3, <2>4, <2>5 DEF Typed
<1>4. ProgressInv
  <2>1. \A c \in Calls, i \in 1 .. Len(SubscribeAll) :
           status[<<c, i>>] = "new" /\ executed[<<c, i>>] = 0 /\ 0 < i /\ ~(i < 0)
    BY <1>2, AllSubscribe DEF Requests
  <2> SUFFICES ASSUME NEW c \in Calls  PROVE Progress(c)
    BY DEF ProgressInv
  <2> QED BY <1>2, <2>1 DEF Progress
<1>5. SubscribedInv /\ FreshInv /\ OrderInv /\ AnswersInv
  <2>1. SubscribedInv
    BY <1>2 DEF SubscribedInv
  <2>2. FreshInv
    BY <1>1, <1>2 DEF FreshInv, BegunBefore, FreshAnswers, ReadsAreFresh
  <2>3. OrderInv
    BY <1>1 DEF OrderInv, States, Init
  <2>4. AnswersInv
    BY <1>1, <1>2 DEF AnswersInv, Init
  <2> QED BY <2>1, <2>2, <2>3, <2>4
<1> QED BY <1>3, <1>4, <1>5 DEF Inv

\* The invariant is inductive.
LEMMA InvKeeps == Inv /\ [Next]_vars => Inv'
BY TypedKeeps, ProgressKeeps, SubscribedKeeps, AnswersKeep, FreshKeeps, OrderKeeps DEF Inv

\* And it holds in every behaviour.
LEMMA InvAlways == Spec => []Inv
BY InvHolds, InvKeeps, PTL DEF Spec

\* Every variable has a value of its type, and the bounds hold.
THEOREM PlaybackTypeCorrect == Spec => []TypeOK
<1>1. Inv => TypeOK
  <2> SUFFICES ASSUME Typed  PROVE TypeOK
    BY DEF Inv
  <2>1. \A i \in DOMAIN inbox :
           /\ inbox[i].namespace \in DOMAIN Required
           /\ inbox[i].body \in {"state", "error", "empty"}
           /\ inbox[i].version \in Nat /\ inbox[i].cmdId \in Requests \cup {None}
    BY InboxTyped DEF Messages
  <2>2. \A c \in Calls : /\ program[c] \in Programs(c) \cup {<<>>}
                         /\ step[c] \in 0 .. Len(program[c])
    <3> TAKE c \in Calls
    <3>1. /\ program[c] \in Programs(c) \cup {<<>>} /\ step[c] \in Nat
          /\ step[c] <= Len(program[c])
      BY DEF Typed
    <3>2. Len(program[c]) \in Nat
      BY <3>1, ProgramShape, AllSubscribe
    <3> QED BY <3>1, <3>2
  <2> QED BY <2>1, <2>2 DEF Typed, TypeOK
<1> QED BY <1>1, InvAlways, PTL

\* A read that returned a state returned one the speaker was in after the call began.
THEOREM ReadsStayFresh == Spec => []ReadsAreFresh
<1>1. Inv => ReadsAreFresh
  BY DEF Inv, FreshInv
<1> QED BY <1>1, InvAlways, PTL

\* A subscribe that succeeded, on a link that lasted, has the speaker report.
THEOREM SubscribesHold == Spec => []OkSubscribes
<1>1. Inv => OkSubscribes
  <2> SUFFICES ASSUME Typed, ProgressInv, SubscribedInv,
                      NEW c \in Calls, outcome[c] = "ok", c \notin broken,
                      NEW i \in DOMAIN program[c],
                      program[c][i].op = "subscribe", <<c, i>> \notin refused
               PROVE  program[c][i].namespace \in subs
    BY DEF Inv, OkSubscribes
  <2>1. program[c] \in Programs(c) \cup {<<>>}
    BY DEF Typed
  <2>2. i \in 1 .. Len(program[c]) /\ Len(program[c]) \in 0 .. Len(SubscribeAll)
    <3>1. \E S : program[c] \in Seq(S)
      <4>1. CASE c \in Subscribers /\ program[c] # <<>>
        BY <2>1, <4>1, AllSubscribe DEF Programs
      <4>2. CASE c \notin Subscribers /\ program[c] # <<>>
        <5>1. PICK q : program[c] = <<q>>
          BY <2>1, <4>2 DEF Programs
        <5>2. <<q>> \in Seq({q})
          OBVIOUS
        <5> QED BY <5>1, <5>2
      <4>3. CASE program[c] = <<>>
        BY <4>3
      <4> QED BY <4>1, <4>2, <4>3
    <3> QED BY <2>1, <3>1, ProgramShape, LenProperties
  <2>3. i \in 1 .. Len(SubscribeAll) /\ <<c, i>> \in Requests
    BY <2>2, AllSubscribe DEF Requests
  <2>4. executed[<<c, i>>] = 1
    <3>1. step[c] = Len(program[c]) /\ (i < step[c] \/ i = step[c])
      BY <2>2, <2>3, AllSubscribe DEF ProgressInv, Progress
    <3> QED BY <2>3, <3>1 DEF ProgressInv, Progress
  <2> QED BY <2>3, <2>4 DEF SubscribedInv, Asked
<1> QED BY <1>1, InvAlways, PTL

\* A blank MetadataChanged comes from an answer that its caller did not get.
THEOREM BlanksAreLate == Spec => []BlankIsLate
<1>1. Inv => BlankIsLate
  BY DEF Inv, AnswersInv, GoesBlank, Unanswered, BlankIsLate, AnswersLate
<1> QED BY <1>1, InvAlways, PTL

\* What subscribers are told of a namespace never goes back.
THEOREM EventsInOrder == Spec => InOrder
<1>1. Inv /\ [Next]_vars => [\A n \in Topics : view[n] <= view'[n]]_vars
  BY OrderKeeps DEF Inv
<1> QED BY <1>1, InvAlways, PTL DEF Spec, InOrder

===============================================================================
