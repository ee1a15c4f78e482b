-------------------------- MODULE ConnectionCommands --------------------------
(* Connection implements Commands. *)
EXTENDS Connection

\* What the caller of send_command for c knows.
Status(c) == CASE sendPc[c] = "idle"     -> "new"
               [] sendPc[c] = "returned" -> result[c]
               [] OTHER                  -> "open"

Calls == INSTANCE Commands WITH
             status   <- [c \in Cmds |-> Status(c)],
             executed <- written

\* Whatever the connection does (losses, reconnects, drains, two tasks, late
\* answers, aborts), a call sees what Commands allows: its request reaches the
\* speaker at most once, and it succeeds only if it did.
CommandsRefined == Calls!Spec

-------------------------------------------------------------------------------
(* Why it holds: a command is in one place. *)

Once(q, m) == \A i, j \in DOMAIN q : q[i] = m /\ q[j] = m => i = j

\* A command is only where its carrier has it: once in the channel, or in the
\* writer's hands, or with the speaker; it is counted as written when it leaves
\* the writer, and with the speaker or answered it has been written.
At(c, t) ==
    /\ Holds(queue[t], c) \/ writing[t] = c \/ c \in asked[t] => t = carrier[c]
    /\ Holds(queue[t], c) \/ writing[t] = c => written[c] = 0
    /\ ~(Holds(queue[t], c) /\ writing[t] = c)
    /\ Once(queue[t], c)
    /\ c \in asked[t] => written[c] = 1

OnePlace ==
    \A c \in Cmds :
        /\ sendPc[c] \in {"idle", "registered", "blocked"} => carrier[c] = NoTask
        /\ carrier[c] = NoTask => written[c] = 0
        /\ written[c] <= 1
        /\ \A t \in Connectors : At(c, t)

\* A success is the answer to a written request, and a request is answered once.
OneAnswer ==
    \A c \in Cmds :
        /\ reply[c] = "ok" \/ c \in unsolicited =>
              written[c] = 1 /\ \A t \in Connectors : c \notin asked[t]
        /\ result[c] = "ok" => reply[c] = "ok"
===============================================================================
