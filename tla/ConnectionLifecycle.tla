-------------------------- MODULE ConnectionLifecycle --------------------------
(* A Connection that never gives up implements Lifecycle. *)
EXTENDS ConnectionCommands, Lifecycle

\* Where the task parks for good once it is aborted.
Stopped(t) == aborted[t] /\ ~CanRun(t)

Stage(t) ==
    CASE task[t] = "unborn"                                          -> "new"
      [] task[t] \in {"done", "dropped"} \/ Stopped(t)               -> "over"
      [] task[t] \in {"wiring", "running", "writing", "lost"}        -> "up"
      [] task[t] = "draining" \/ (task[t] = "head" /\ attempt[t] = 0) -> "down"
      [] OTHER                                                       -> "dialing"

Life(t) == [stage |-> Stage(t), state |-> state, aborted |-> aborted[t]]

LifeStep(t) ==
    \/ Life(t).stage = "new" /\ Life(t)' = Spawned(Life(t)) /\ UNCHANGED link
    \/ \E s \in Steps(Life(t)) :
          Life(t)' = s.life /\ link' = IF s.event = "none" THEN link ELSE s.event
    \/ Life(t)' \in Aborts(Life(t)) /\ UNCHANGED link
    \/ Life(t)' = Finished(Life(t)) /\ UNCHANGED link

\* With one connect call, the state cell and the broadcast events change as
\* Lifecycle says: what Player and SonosSystem are built on is what the
\* connection does, whatever its channel, its locks and its calls are at.
LifecycleRefined ==
    /\ \A t \in Connectors : Life(t) = NewLife
    /\ [][\A t \in Connectors : LifeStep(t)]_<<[t \in Connectors |-> Life(t)], link>>
===============================================================================
