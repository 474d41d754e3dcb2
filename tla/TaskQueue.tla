------------------------------- MODULE TaskQueue -------------------------------
(***************************************************************************)
(* What pef-event-filtering promises to the callers of doPefTask: calls    *)
(* are taken one at a time, in the order they were made, and each is       *)
(* answered once, when its handler ends or when the daemon is restarted.   *)
(***************************************************************************)
EXTENDS Naturals, Sequences

CONSTANT Event      \* events that doPefTask is called with

VARIABLES
    waiting,        \* calls not yet taken, oldest first
    busy,           \* a call is being handled
    answered        \* number of calls answered

vars == <<waiting, busy, answered>>

Init == waiting = <<>> /\ busy = FALSE /\ answered = 0

Arrive == \E e \in Event : waiting' = Append(waiting, e) /\ UNCHANGED <<busy, answered>>

Take ==
    /\ ~busy /\ waiting # <<>>
    /\ waiting' = Tail(waiting) /\ busy' = TRUE
    /\ UNCHANGED answered

Finish ==
    /\ busy
    /\ busy' = FALSE /\ answered' = answered + 1
    /\ UNCHANGED waiting

\* The callers of whatever is left get an error.
Restart ==
    /\ waiting' = <<>> /\ busy' = FALSE
    /\ answered' = answered + Len(waiting) + (IF busy THEN 1 ELSE 0)

Next == Arrive \/ Take \/ Finish \/ Restart

Spec == Init /\ [][Next]_vars
FairSpec == Spec /\ WF_vars(Take) /\ WF_vars(Finish)
================================================================================
