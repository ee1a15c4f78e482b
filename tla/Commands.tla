------------------------------- MODULE Commands -------------------------------
(***************************************************************************)
(* What send_command promises its callers, without the connection: a call  *)
(* ends once and for all, the speaker executes its request at most once,   *)
(* and a success is the answer to a request that was executed.  A failed   *)
(* call promises nothing about execution: the request may still be carried *)
(* out after the caller was told that the connection closed.               *)
(***************************************************************************)
EXTENDS Naturals

CONSTANT Cmds

VARIABLES
    status,    \* what the caller of c knows
    executed   \* how often the speaker got the request

vars == <<status, executed>>

Failures == {"closed", "timeout", "cancelled"}

Init ==
    /\ status = [c \in Cmds |-> "new"]
    /\ executed = [c \in Cmds |-> 0]

Start(c) ==
    /\ status[c] = "new"
    /\ status' = [status EXCEPT ![c] = "open"]
    /\ UNCHANGED executed

Execute(c) ==
    /\ status[c] # "new" /\ executed[c] = 0
    /\ executed' = [executed EXCEPT ![c] = 1]
    /\ UNCHANGED status

Succeed(c) ==
    /\ status[c] = "open" /\ executed[c] = 1
    /\ status' = [status EXCEPT ![c] = "ok"]
    /\ UNCHANGED executed

Fail(c) ==
    /\ status[c] = "open"
    /\ \E f \in Failures : status' = [status EXCEPT ![c] = f]
    /\ UNCHANGED executed

Next == \E c \in Cmds : Start(c) \/ Execute(c) \/ Succeed(c) \/ Fail(c)

Spec == Init /\ [][Next]_vars
===============================================================================
