# sonos-websocket: a TLA+ model

The crate controls Sonos speakers over TLS WebSockets. This directory models
the concurrent parts of the crate in TLA+, model-checks it with TLC on small instances
and proves its main safety properties with TLAPS for every instance. Line numbers
refer to `src/src/connection/player_connection.rs` unless another file is named.

## Inventory

| Component | State | Operations | Talks to |
|---|---|---|---|
| **PlayerConnection** (`connection/player_connection.rs`) | `state`, `write_tx`, `pending_commands`, `task_handle`, `event_tx`; per task: attempt counter, mpsc channel, socket | `connect`, `send_command`, `disconnect`, the spawned `connection_task` with `run_connection` and `handle_incoming_message` | the speaker; its events go to Player and SonosSystem |
| **Backoff** (`calculate_backoff`) | none; called with the attempt counter | one function | the connection task |
| **Player** (`player.rs`) | `connection: Option<PlayerConnection>`, `event_tx`, a forwarder task | `connect`, `disconnect`, `require_connection` and about 25 commands, `subscribe_all` | one PlayerConnection; called by users and by SonosSystem |
| **SonosSystem** (`system.rs`) | `players`, `topology`, `event_tx`, the topology task | `start`, `from_discovered`, getters, `handle_topology_update` | one PlayerConnection; disconnects Players it removes |
| **Message** (`message.rs`), **types** (`types.rs`) | the atomic command-id counter | header constructors, parse, build; what a body must have to decode | everyone |
| **Discovery** (`discovery.rs`) | the ids seen so far, a deadline | `discover_players` | mDNS daemon; read by SonosSystem |
| **Client** (`examples/subscribe.rs`) | the coordinators it keeps, its receivers | one `select!` loop | SonosSystem and its Players |
| **tls, error, lib, other examples** | none | one TLS constructor | - |

All objects are shared by clones and used from several threads of a tokio
multi-thread runtime. What is hard in each component:

* *PlayerConnection*: the cells are locked one at a time, so every call and the task
  interleave between locks; `abort()` in `disconnect` is not awaited; the mpsc
  channel is bounded and its send happens with the `write_tx` mutex held; a loss can
  fall between registering, enqueueing and answering a command; answers race the
  ten-second timeout; a caller can drop a future. Correct means: every call ends, its
  result is about its own request, nothing waits on a dead connection, entries do not
  accumulate, the published sender is a live one, the task comes back after a loss.
* *Backoff*: saturation, truncation and jitter. Correct means a delay near the capped
  exponential one, never zero by accident.
* *Player*: check-then-act in `connect`, a wait of ten seconds before the connection
  is stored, a forwarder that ends on a lagged receiver. Correct means at most one
  connection, events that tell whether it is up, nothing left running after
  `disconnect`.
* *SonosSystem*: removal of a player while it is connecting, the order of the
  `subscribe` command and the event subscription, lag, a reconnect without a new
  `subscribe`, locks held across an await. Correct means `players` and `topology`
  agree with the last update that was received and updates keep coming.
* *Commands and events of a Player*: answers, late answers, refusals and events share
  one stream and are told apart by command id, namespace and whether the body decodes;
  subscriptions end with the link. Correct means that reads are answers to what was
  asked, events never go back, and a granted subscription is followed.
* *Discovery*: deduplication, a deadline against a daemon that never falls silent, and
  two households on one network.
* *Client*: it works on clones and on a channel that overflows while it connects.
  Correct means that it ends up with the current coordinators, as current objects.

The hazards, each at its line, are in `PROJECT.json` with the properties that watch them.

## Plan

1. `Connection` - the core; its safety, liveness, and theorems. *Done.*
2. `Commands` - what `send_command` promises; `ConnectionCommands` - the refinement. *Done and proved.*
3. `Lifecycle` - what a connection shows its users; `ConnectionLifecycle` - the refinement. *Done and proved.*
4. `Backoff` - the delays. *Done and proved.*
5. `Player` - connect, disconnect, commands and forwarder over `Lifecycle` connections. *Done, its invariants proved.*
6. `Topology` - start-up, topology task and updates over a `Lifecycle` connection. *Done, its invariants proved.*
7. `Discovery` - the deduplicating deadline loop and the choices made of it; part of `Topology`. *Done, its types proved.*
8. `Client` - the loop of the subscription example over `Topology`. *Done, its invariant proved.*
9. `Removal` - `Player` under the update that removes it and the drop of the system. *Done, its invariant proved.*
10. `Playback` - the methods of a `Player` as requests and the routing of messages, over `Commands`. *Done, its safety proved.*

Every safety property that a passing run checks is now a theorem. Still worth proving: that
the connections of `Removal` are those of `Player` also after the system is dropped, and a
`Lifecycle` with a limit of dials, which `Player` does not use.

## Modules

**`Connection`** models one `PlayerConnection`. `Connectors`, `Disconnectors` and
`Cmds` are the calls made on it; each call runs once and its program counter is
`connectPc`, `disconnectPc` or `sendPc`. A `connect` call that gets past its check
spawns a task, named after the call, so two tasks can exist.

| Code | Model |
|---|---|
| `state` | `state` |
| last lifecycle event sent on `event_tx` | `link` |
| `write_tx`, its mutex while a holder is suspended | `writeTx` (the task whose channel it is), `writeLock` |
| `pending_commands`, the oneshots | `pending`, `reply` |
| `task_handle`, `JoinHandle::abort` | `taskHandle`, `aborted` |
| `connection_task`, `attempt` | `task`, `attempt` |
| mpsc channel, message in `writer.send`, requests the speaker has | `queue`, `writing`, `asked` |
| answers broadcast as `ConnectionEvent::Message` | `unsolicited` |
| history, not in the code | `written`, `carrier` |

Steps are the stretches between two awaits at which others can interfere:
`CheckConnect`, `SpawnTask`, `StoreHandle` for `connect`; `Register`, then `SendNone`,
`Enqueue`, `BlockSend` or `SendClosed`, then `Receive` or `Timeout` and `Expire` for
`send_command`, and `Cancel` at any await for a dropped future; the steps of
`disconnect` in the order of its lines; for the task the loop head (`Announce`,
`GiveUp`, `Dial`), the dial (`DialOk`, `DialFail`), `Opened`, `Wire`, the arms of
`run_connection` (`TakeOut` and the outcome of the write, `Response`, `Lose`), and
after it `ReportLoss` and `Drain`. Some neighbours are merged where nothing that the
other parties read lies between them: a lock that is taken and released within one
stretch, a state write and the event that follows it, the drain and the state write at
the end of `disconnect` (the pending map stays locked).

An aborted task stops where it is parked (`CanRun`), may run on between two awaits,
and is dropped by `Drop`. Sleeps, the grace period and the timeout are untimed:
they may end at any moment. Command ids are distinct, as the counter of `message.rs`
makes them. Pings, parse failures and events without a command id change no cell
here and are not steps; a failed pong is part of `Lose`. The `connect` and
`disconnect` futures are not dropped midway in the model, only `send_command`'s is.

**`Commands`** is the abstract promise: a call goes from new to open to one final
result, its request is executed at most once, success needs an execution.
**`ConnectionCommands`** gives the mapping (`Status`, and `written` for `executed`).
A failure promises nothing about execution: a command registered before a drain and
enqueued after it is told `closed` and still sent on the next connection.

**`Lifecycle`** is a connection as `Player` and `SonosSystem` see it, given that they call
`connect` once on each: the state cell and the events, as a record with the steps it can
take. **`ConnectionLifecycle`** maps a `Connection` to it (`Stage`), so that the two modules
below are built on what the connection was shown to do.

**`Player`** is one player shared by clones. `Connects` names the calls of `connect` and the
connection each makes. `cell` is `Player::connection`, `lock` its write guard while
`disconnect` keeps it across an await, `life` the connections, `buffer` and `lagged` the
broadcast channel of each with the forwarder as its receiver. `Senders` says who keeps that
channel open: the task, the cell, a call at work, a clone held by a command. `believed`
is what subscribers were last told of each connection. The check and the spawn of
`connect` are one step, because nobody else sees the new connection before it is stored.

**`Removal`** puts that player into the map of its system. `clone` is what the client's
`get_player` gave it; its calls are those of `Player` and need a held clone. The update's
`player.disconnect()` is one more disconnect, `Update`, whose steps are `Player`'s own;
`guard` stands for the two locks of `handle_topology_update`, which `get_player` waits
for. `DropSystem` is `TaskHandle::drop`: the update is dropped at the await it is in,
with its locks, and what it had taken out of the cell becomes an orphan.

**`Discovery`** is `discover_players` and what `from_discovered` picks of its result. A player
found is its `uuid` and its `mhhid`, each possibly missing; `Home` is the household it
really belongs to. The deadline is looked at before each receive.

**`Topology`** extends it to the `SonosSystem`: `startPc` follows `start` and `from_discovered`,
`taskPc` the topology task, `players` and `topology` the shared cells, `told` the sum of
the events. A topology is its players and the coordinators of its groups. The two
locks of `handle_topology_update` are the program counter `handling`. The speaker is
external: it grants the subscription for its own household, sends a groups event after
it and at each change, on the link that was subscribed, and its coordinators are players.

**`Client`** extends it to the loop of `examples/subscribe.rs`. Its actions add to those of the
topology task the channel of system events (`news`, with `behind` for a receiver that
lags, which the loop survives) and the Player objects made (`made` counts them per id, so
that an object of a player that left is not the one of the player that came back).
`coordinators` has the object kept for each. Between `Visit`, the lookup, and `Connected`,
the insertion, anything can happen. The calls on the Player succeed or fail.

**`Playback`** is one connected `Player`. A method is a program of requests, `subscribe_all` one
of three and the others of one; a request is a call of `send_command` as `Commands` has it
(`Command`), which `Connection` was proved to implement. The speaker is external: its state
is a version number per namespace, its messages carry a version or nothing, an answer
carries the request it answers. `inbox` has the messages that nobody handled yet, in order:
its first `stored` are in the broadcast channel of the connection, the others on the link. A
loss of the link keeps a prefix that has all of the channel. `Receive` is
`handle_incoming_message`: an answer that a call waits for is taken out, anything else is
moved into the channel (`Broadcast`). A channel that is full when the next event comes
overflows; the forwarder, a task of its own (`Forward`), gets an error from its next
receive, and its loop ends (`lagged`). The connection's own events take part in that only when
they find the channel full (`Announce`). `Forward` does what `handle_message` does (`Tell`):
`Required` says what a body must have for the type of its namespace, and `MetadataStatus`
requires nothing. `timeout` stands for every way in which a call fails.

**`Backoff`** is `calculate_backoff` with its saturating power and product, its cap,
the cut to milliseconds and the jitter, and the loop that calls it. Durations that do
not fit in 63 bits of milliseconds, where the casts of lines 483-491 would wrap, are
excluded.

**`ConnectionProofs`**, **`CommandsProofs`**, **`LifecycleProofs`**, **`PlayerProofs`**,
**`PlaybackProofs`**, **`TopologyProofs`** (with those of `Discovery` and `Client`),
**`RemovalProofs`** and **`BackoffProofs`** hold the theorems. **`MCConnection`** and **`MCPlayback`**
instantiate for TLC.
Definitions named `Mut...` are what a plausible bug would make of the definition they
precede; no specification uses them. They show that each property notices.

## What the runs check

| Run | Instance | Shows |
|---|---|---|
| `connection_safety` | 2 connects, 1 disconnect, 1 command, channel of 1 | with two tasks alive: no call is orphaned (`NoOrphanWait`), a call whose connection is gone is about to be failed (`LossIsReported`), no stale sender outside two windows (`StaleSender`), an answer goes to its call or, if that cannot take it, to the events (`AnswerRouting`) |
| `connection_cancel` | 1 task, 2 disconnects, 2 commands, one of them cancellable, channel of 1 | entries left behind are accounted for (`PendingAccounted`); the calls implement `Commands`; the state cell and the events are those of `Lifecycle` |
| `connection_returns` | 1 task, 1 disconnect, 2 commands, channel of 1, limit of 2 dials, fairness | every call returns, with locks and full channels in the way; until a disconnect, state, events and sender agree with the task (`CellsAgree`) and a redial is announced and slept for (`RedialIsAnnounced`); a loss ends in a working sender or in giving up (`RecoversOrGivesUp`); the entry of a failed send does not stay (`LeakIsDrained`) |
| `backoff_series` | 7 bases, 6 maxima, 7 jitters, 6 failures, width 4 | the delay is within a quarter of the capped one, never zero, and doubles until cut off |
| `find_two_tasks` | 2 connects | finding: `connect` is check-then-act, two tasks run and one handle is lost |
| `find_disconnect` | 1 connect, 1 disconnect | finding: the aborted task writes the state after `disconnect` returned |
| `player_calls` | 2 connects, 1 disconnect, 1 command, buffer of 1 | a running task has an owner, or its `connect` timed out or was overtaken (`TasksAccounted`); the connection in the cell has a forwarder that has not given up (`StoredIsForwarded`) |
| `player_removal` | 1 connect, 1 disconnect, 1 command of a client, 1 update, drop of the system, buffer of 2, fairness | after a published removal only a connect that was under way or later runs (`RemovalStops`); the update and the calls return although they wait for each other's locks, unless a disconnect stalls with its socket, and a dropped update leaves no lock (`UpdateReturns`, `PlayerCallsReturn`); a stopped connection's forwarder ends (`StoppedIsSilent`); a loss is told (`LossIsTold`), and so is a disconnect, which older events do not undo (`StopIsTold`) |
| `playback_calls` | 1 `subscribe_all`, 1 of a command, `get_playback_status` and `get_metadata` (`Tried`), namespaces `playback` and `playbackMetadata`, 1 change, 2 messages under way, channel of 1, fairness | events never go back (`InOrder`), a read is no older than its call (`ReadsAreFresh`), a successful subscribe holds on its link (`OkSubscribes`), an empty `MetadataChanged` comes from a late answer only (`BlankIsLate`), a subscribed client hears the latest state as long as the forwarder keeps up (`Follows`) |
| `topology_updates` | 2 announced players of 2 households, 2 players, 2 changes, buffer of 1, news of 2, fairness | players, topology and events agree between updates (`ViewsAgree`); the system catches up with the household unless it is deaf or a removal stalls (`CatchesUp`); start ends (`StartReturns`); the client has the coordinators (`ClientLearns`) and as objects that are in the map (`KeptIsCurrent`) |
| `find_leak` | 1 connect, 1 disconnect | finding: a `connect` that timed out leaves a task that nothing stops |
| `find_deaf` | 1 player, 1 change | finding: after a reconnection the subscription is gone and the topology stale |

`Player`: a buffer of one lags at once, of two both lags and drains; two connects are a race,
the second disconnect, the update's, meets the lock of the first. `Client`: with two changes
a player leaves and comes back as another object, an update waits behind the one that is
handled and another overflows the buffer; a buffer of one is enough, since the task ends
at its first overflow; two players let one update add and remove at once, and news of
two slots are full after one such update. `Playback`: two calls overlap in all ways, a late
answer and an event fit into the inbox together, and of the two namespaces one requires
fields and one does not; the others repeat the first. One slot overflows at the second event
that the forwarder has not handled. A single call makes at most one read, so that an answer
to an earlier read of the same client is `PlaybackProofs`' matter.

A channel of one slot makes "full" and "blocked with the lock held" frequent; one more
message than slots is all the blocking paths need, and `Close` frames count. Two tasks
are what two racing connects give; a third repeats the second. Two commands give one
that blocks and one that waits for the lock, two disconnects one that blocks and one
that clears. The attempt counter saturates at `AttemptBound`, which is at or above
the limit where there is one, so the limit check is exact and nothing is forced to
succeed. `CHECK_DEADLOCK FALSE`: with all calls returned and no task left the system
rests, as it should; the liveness properties catch a call that is stuck.

Fairness. `RuntimeFairness`: tokio polls what can run, its mutexes are fair, and
timers fire; nothing is assumed about calls being made (`CallDisconnect` and `Register` are
not fair) or futures being dropped.
`SocketFairness`: a write and a dial end in success or failure. It is an assumption
about the network, not about the code: neither the write nor
`establish_connection` has a timeout, so a peer that keeps the socket open and stops
reading, or never finishes the handshake, is excluded. Without it `disconnect` can
wait for ever for a slot with `write_tx` locked (line 231).

In the modules above `Lifecycle` nothing is assumed about the network: a link may stay down
for ever, and the socket of one that is up may stall. `CallsReturn` and `DisconnectReturns`
are shown of `Connection` under `SocketFairness`, so here a command and the disconnect of a
connection that is up (`MayStall`) may take for ever; they are fair only while it is not
(`DisconnectGoesOn`, `AnsweredClosed`), when no channel can be full. A disconnect that stalls
holds the lock of the cell and, in an update, the locks of the map and of the topology:
`PlayerCallsReturn` and `UpdateReturns` say that calls and updates return or such a disconnect
stalls (`Stalls`). In `Topology` and `Client` the removal of a player (`Remove`) and the
client's `connect` and `subscribe_all` (`Connected`) are not fair for the same reason, and the
properties name the stall. What is assumed: the waits of `connect` and `from_discovered` have
deadlines, as has the subscribe request (`StartFails`), time passes for the deadline of the
discovery, which then ends, an aborted task is dropped, the update is polled, and the speaker
sends the event it owes. `Playback` assumes that the connection's task and the forwarder are
polled and first events sent.

What `CatchesUp` excepts (`Deaf`): the link of the subscription is lost, the buffer lagged
(the task takes this for a closed channel and ends, line 248 of `system.rs`), or the first
groups event came before the task listened. `UpdatesResume` excepts lag
and that first event too, so that its violation is the missing resubscription. What
`LossIsTold` excepts: a lag, which ends the forwarder, and a loss during `connect`, which is
either not heard at all or told before the `Connected` of line 136 of `player.rs`.
`StopIsTold` excepts a disconnect that overtakes that `Connected`, or a return of the link the
forwarder had not received, either of which is told last; and an update dropped before line
145. What `RemovalStops` excepts: a connect that had not returned when the update took the
cell; it ends up connected to a player that no map has any more. What `ClientLearns` excepts: a deaf system, and a topology that came between
`start()` and `events()`; `KeptIsCurrent` excepts a client that lost a topology, which may
keep an object that is no longer in the map. What `OkSubscribes` and `ReadsAreFresh` except:
refused requests, whose answer is not looked at (`play` of a refused request returns
`Ok`), and a link lost in between. `Follows`: a link lost, since nobody subscribes
again; events before somebody listened; a lag, after which the forwarder is gone and the
player silent although it is connected; and an empty `MetadataChanged` that a late answer
left as the last one. If the first player names no household, that of another player is asked
for, and start fails if it is not its own (`Choose`, `Subscribe`). A failed start of `SonosSystem` leaks its
connection task as `Player::connect` does.

Not findings, but worth knowing: `state()` is still `Connected` while the task dials for the
first time after a loss (`CellsAgree`: it says Connected exactly while the last event is Connected or Disconnected); the last `Reconnecting` event before giving up is
not followed by an attempt (line 297 before line 308); the jitter takes delays up to
a quarter above `reconnect_max_delay`; a send that fails on a closed channel leaves its
entry to the next drain (line 173); the answer to a command that timed out is
broadcast as an event; a system dropped in the middle of a removal leaves the connection it
had taken out without an owner (`orphans`).

## What is proved

For all constants that satisfy the named assumptions (`CapacityAssumption` and so on:
a positive capacity, distinct model values), `ConnectionProofs` proves

* `TypeCorrect`: `TypeOK`, which is inductive by itself; the channel bound rests on
  `PutKeeps`, `TakeKeeps`, `EmptyKeeps`.
* `NoCallIsOrphaned` and `LeftoversAccounted`: `CallInv` strengthens the two with
  `EntryOrReply` (a reply and an entry exclude each other), without which an answer
  could meet a call that was already answered. `WhoTouchesCalls` reduces the steps to
  the calls' own, drains and answers.
* `SenderIsLive`: `TaskInv` adds `TaskOrigin` (a task does not exist before its
  `connect` spawned it, and only an existing one is stored or aborted), so that a
  spawn cannot revive a task whose sender is published.
* `LossReachesCalls`: `LossIsReported` is inductive relative to both; the step that
  takes a message out of a channel needs that the writer's hands were empty, the
  answer step that a waiting call still has its entry.

`CommandsProofs` proves

* `ConnectionImplementsCommands`: `Spec => CommandsRefined`. The invariant is `OnePlace` with
  `OneAnswer`: a command is in the channel of its carrier, in its writer's hands or at the
  speaker, once, and is counted as written when it leaves the hands, so it is written at
  most once (`PutOnce`, `TakeOnce` for the channel); an answered request was written and is
  nowhere any more. `WriteExecutes` maps the writer's steps, also a failed write that
  arrived, `CallsRefined` the steps of a call; every other step stutters.
* `AnswersAreRouted`: `AnswerRouting` is inductive with `OneAnswer`, which says that the
  speaker has no second answer, and `NoOrphanWait`, which says that a waiting call without
  an entry was failed.

`LifecycleProofs` speaks of a connection on which `connect()` is called once (`OneConnect`; two
racing calls give two tasks, as `find_two_tasks` shows, and then the cells do disagree). It proves

* `CellsStayTogether` (`CellsAgree`) and `RedialsAnnounced` (`RedialIsAnnounced`). `CountInv` says
  what the attempt counter is at each place of the task, for any number of tasks: above zero
  while it dials, zero before the first dial and from the opened socket to the drain. Without
  it a failed dial could come round to the top of the loop as if it were the first.
  `CellInv` adds to `CellsAgree` that until a disconnect begins (`BeginsDisturbed`) the task is
  neither aborted nor dropped, that a limit of zero dials ends it at once, and that the backoff
  stays announced.
* `LifecycleIsImplemented`: `Spec => LifecycleRefined`, for a task without a limit of dials, which
  is how `Player` and `SonosSystem` configure theirs. `StageIs` maps the place of the task, its
  counter and its abort to a stage, `ChangesAllowed` says field by field what `Lifecycle` allows,
  `StepsRefine` takes each action: the announcement, the socket that opened, the report of the
  loss, the dial after a drain, the drop, the abort and the end of a disconnect are its steps
  and all others stutter. It needs `CountInv` (a drain leads to "down" and not to "dialing")
  and `TaskOrigin` (a task is spawned once and never was aborted before). This is what entitles
  `Player`, `Removal` and `Topology` to their `Lifecycle` connections.

`PlayerProofs` proves `PlayerTypeCorrect`, `PlayerTasksAccounted` and `PlayerForwards`
(`TypeOK`, `TasksAccounted`, `StoredIsForwarded`). They need `ConnectInv` (a connection is
new until its `connect` spawned it; a call that runs has no outcome and, while it listens,
a forwarder) and `DisconnectInv` (what a disconnect takes was spawned), so that no abort
meets a connection that a later `connect` spawns. `LifeKept`, `StreamKept` and
`ConnectKept` say what any step does to one connection, its stream and its call; the
steps of the invariant follow from them. A stored connection can still send
(`Senders`), hence its forwarder sees no closed channel.

`PlaybackProofs` proves all safety properties of `Playback` from one inductive invariant, `Inv`:

* `Typed`, with what `TypeOK` says and the messages as records, for `PlaybackTypeCorrect`.
  `Leave` describes how any step thins out `inbox` (some at the front, one in the middle, some at
  the end), so that what is claimed of messages under way is shown to survive once (`SomeLeave`)
  and not for the task, the forwarder, an overflow and a loss in turn;
* `ProgressInv`: where a call is and which of its requests were carried out, so that a success
  of `subscribe_all` means three executed requests;
* `SubscribedInv`: a subscription that was carried out stands unless the call saw a loss; the
  two give `SubscribesHold` (`OkSubscribes`);
* `AnswersInv`: an answer is on its way at most once, to an executed request that has not been
  answered, and a refusal that names no request is the only answer its request will have; it
  gives `BlanksAreLate` (`BlankIsLate`);
* `FreshInv`: what is on its way to a read is no older than the beginning of its call, from
  which `ReadsStayFresh` (`ReadsAreFresh`) follows;
* `OrderInv`: the states of a namespace are on their way in the order of their versions,
  between what was told last and what the speaker has. `EventsInOrder` (`InOrder`) is a
  property of each step from there.

They assume that the calls are about at least one of the three namespaces of `subscribe_all`
(`PlaybackNamespaces`) and that `None` is no request (`PlaybackDistinct`).

`TopologyProofs` proves `TopologyViewsAgree` (`ViewsAgree`). `ViewsAgree` speaks of the time between two updates; `UpdateInv` adds
what holds during one: the map consists of the new players and of the old ones that have
still to leave, and the events have told of exactly the players in the map. `OutsideKeeps`
shows that start-up, daemon and link leave these cells alone.

`TopologyTypeCorrect` (`TypeOK`) needs that the players found are distinct (`Distinct`), so that
there are no more of them than uuids; for this, and to number the messages of an update,
`Uuids` and `Ids` are finite (`DiscoveryUuids`, `TopologyIds`).

`ClientSystem` shows that `ClientSpec` implements the `Spec` of `Topology`: the client adds to the
system's steps and takes none away, so what is proved of the system holds beside a client.
`ClientKeepsCurrent` (`KeptIsCurrent`) rests on `KeptInv`: for each Player object that the client
keeps or has just fetched (`Accounted`), either it is the one in the map, or its player is about
to be removed by the update that is handled, or a topology without it is still among
the news, or is the one being visited. Each of the four is needed: they are the stages in
which the removal of a player reaches the client.

`BackoffProofs` proves `BackoffTypeCorrect`, `BackoffWithinQuarter`, `BackoffNeverHot` and
`BackoffDoubles` (`TypeOK`, `WithinQuarter`, `NeverHot`, `Doubles`) for all widths, durations, jitters
and lengths of the series. The power of two is a recursive function; that it exists, and
doubles, is shown by the least number that would be an exception (`LeastNumber`, `PowersBegin`, `PowersAgree`,
`PowerEquation`, `PowersDouble`). `JitterBounds` has the truncation to milliseconds and the
division by four, `CappedDoubles` the saturation and the maximum.

`RemovalProofs` proves `RemovalStopsAll` (`RemovalStops`). As long as the system is not
dropped each step of `Removal` is one of `Player` or none (`StepOfPlayer`), so the invariant
of `PlayerProofs` carries over. To it come `LockInv`, that who is stopping a connection
holds the lock of the cell, and `SettledInv`, that no connect which had returned when the
update took the cell comes back into it or into the hands of another disconnect: `LockInv`
establishes it when the cell is taken (`TakeSettles`), every later step keeps it
(`SettledKeeps`).

Model-checked only: liveness, which the prover does not handle under fairness, that is
`CallsReturn`, `DisconnectReturns`, `RecoversOrGivesUp`, `LeakIsDrained`, `PlayerCallsReturn`,
`UpdateReturns`, `StoppedIsSilent`, `LossIsTold`, `StopIsTold`, `Follows`, `CatchesUp`, `StartReturns` and
`ClientLearns`.

## Not modelled

The JSON text of messages, header fields other than namespace and command id, and the
TXT values other than `uuid` and `mhhid` are data that no step looks at; `build_message`
cannot fail. The atomic counter of `message.rs` is abstracted to distinct identities.
`track_name` and the other field helpers of `types.rs`, `derive_hostname` and
`parse_websocket_url` are string functions; a URL that cannot be parsed is the step
`RejectUrl`. The getters that read one cell are not steps. `tls.rs` is a
stateless wrapper whose result is `DialOk` or `DialFail`; `error.rs`, `lib.rs` and
`connection/mod.rs` declare. `connect.rs`, `playback.rs` and `discover.rs` are sequential
clients; of `subscribe.rs` the printing of player events and the shutdown, which ends
the program, are left out. A started system whose last clone is dropped outside of
an update only stops its task; its connection task stays, as after a failed start.
The calls of `Client` on a `Player` are its outcomes only, since `Removal` has their
steps; that a player comes back as a new object is in `Client` only.
