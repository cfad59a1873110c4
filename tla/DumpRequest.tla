---------------------------- MODULE DumpRequest ----------------------------
(***************************************************************************)
(* What Coredump.doCoredump promises its callers, whatever threads carry   *)
(* it out: requests are served one at a time, an answer is given only for  *)
(* a core that has been dumped, and every request gets one while the       *)
(* process lives.                                                          *)
(***************************************************************************)
CONSTANT Caller

VARIABLES
    req,    \* each caller's request
    alive

vars == <<req, alive>>

Init == req = [c \in Caller |-> "idle"] /\ alive = TRUE

Ask(c) ==
    /\ alive /\ \A d \in Caller : req[d] = "idle"
    /\ req' = [req EXCEPT ![c] = "asked"]
    /\ UNCHANGED alive

Dump(c) ==
    /\ alive /\ req[c] = "asked"
    /\ req' = [req EXCEPT ![c] = "dumped"]
    /\ UNCHANGED alive

\* A caller that was crashing itself dies with its answer.
Answer(c) ==
    /\ alive /\ req[c] = "dumped"
    /\ req' = [req EXCEPT ![c] = "idle"]
    /\ alive' \in BOOLEAN

Die == alive /\ alive' = FALSE /\ UNCHANGED req

Next == Die \/ \E c \in Caller : Ask(c) \/ Dump(c) \/ Answer(c)

Spec == Init /\ [][Next]_vars
             /\ \A c \in Caller : WF_vars(Dump(c)) /\ WF_vars(Answer(c))
===========================================================================
