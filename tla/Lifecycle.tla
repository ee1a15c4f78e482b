------------------------------- MODULE Lifecycle -------------------------------
(***************************************************************************)
(* A PlayerConnection on which connect() is called once, as its users see  *)
(* it: the state cell and the lifecycle events.  Connection implements it  *)
(* (ConnectionLifecycle); Player and Topology use it.                      *)
(***************************************************************************)

\* stage: dialing (spawned, dialing or backing off), up (from the Connected
\* event to the Disconnected event), down (until it dials again), over.
Lives == [stage   : {"new", "dialing", "up", "down", "over"},
          state   : {"Disconnected", "Connecting", "Connected", "Reconnecting"},
          aborted : BOOLEAN]

NewLife == [stage |-> "new", state |-> "Disconnected", aborted |-> FALSE]

\* connect(): the task is spawned and its handle stored.
Spawned(l) == [l EXCEPT !.stage = "dialing", !.state = "Connecting"]

\* An aborted task stops where it would wait for a dial or a sleep.
Parked(l) == IF l.aborted THEN "over" ELSE "dialing"

\* What the task does next, and the event it broadcasts with it: the dial
\* succeeds, or fails and the reconnection is announced; the connection is
\* lost; it dials again; it is dropped.
Steps(l) ==
    LET step(b, e, m) == IF b THEN {[event |-> e, life |-> m]} ELSE {}
    IN step(l.stage = "dialing", "Connected", [l EXCEPT !.stage = "up", !.state = "Connected"])
       \cup step(l.stage = "dialing", "Reconnecting",
                 [l EXCEPT !.stage = Parked(l), !.state = "Reconnecting"])
       \cup step(l.stage = "up", "Disconnected", [l EXCEPT !.stage = "down"])
       \cup step(l.stage = "down", "none", [l EXCEPT !.stage = Parked(l)])
       \cup step(l.aborted /\ l.stage # "over", "none", [l EXCEPT !.stage = "over"])

\* disconnect() aborts the task, which is over unless it is between two awaits,
\* and writes the state when it is done.
Aborts(l)   == {[l EXCEPT !.aborted = TRUE, !.stage = s] :
                   s \in {l.stage} \cup (IF l.stage = "dialing" THEN {"over"} ELSE {})}
Finished(l) == [l EXCEPT !.state = "Disconnected"]
===============================================================================
