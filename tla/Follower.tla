------------------------------- MODULE Follower ------------------------------
(***************************************************************************)
(* What the program promises of Docker, without process, loop, timers or   *)
(* flag.  It hears of changes one after another; the first that finds it   *)
(* idle makes a look at Docker due, those that follow before the look are  *)
(* covered by it, and only those that come between the look and the end of *)
(* the work it leads to may go by.  A look that is due is taken, is missed *)
(* or, when the program is to end, given up; it is never forgotten.        *)
(***************************************************************************)
EXTENDS Naturals

VARIABLES
    world,  \* changes made so far
    up,     \* the program runs, and nothing has told it to end
    heard,  \* the last change it has heard of
    work,   \* "none", "due": a look is to come, "after": it is over
    seen,   \* the newest change a look has seen
    missed  \* a look has failed since the program was started

vars == <<world, up, heard, work, seen, missed>>

Init ==
    /\ world = 0
    /\ up = TRUE
    /\ heard = 0
    /\ work = "none"
    /\ seen = 0
    /\ missed = FALSE

Change ==
    /\ world' = world + 1
    /\ UNCHANGED <<up, heard, work, seen, missed>>

\* The first look of all is due without a change, or there is none.
FirstLook ==
    /\ up /\ heard = 0 /\ work = "none"
    /\ work' = "due"
    /\ UNCHANGED <<world, up, heard, seen, missed>>

\* It hears of what comes from now on, with nothing else to do.
Listen ==
    /\ heard = 0 /\ work = "none"
    /\ heard' = world
    /\ UNCHANGED <<world, up, work, seen, missed>>

Hear ==
    /\ heard < world
    /\ heard' = heard + 1
    /\ work' = IF work = "none" THEN "due" ELSE work
    /\ UNCHANGED <<world, up, seen, missed>>

Look ==
    /\ up /\ work = "due"
    /\ work' = "after"
    /\ seen' = world
    /\ UNCHANGED <<world, up, heard, missed>>

\* The look fails, and that is known.  It is not due again by itself.
Miss ==
    /\ work = "due"
    /\ work' \in {"after", "none"}
    /\ missed' = TRUE
    /\ UNCHANGED <<world, up, heard, seen>>

Finish ==
    /\ work = "after"
    /\ work' = "none"
    /\ UNCHANGED <<world, up, heard, seen, missed>>

\* The program is told to end, or ends at once and in the middle of its work.
Stop ==
    /\ up
    /\ up' = FALSE
    /\ work' \in {work, "none"}
    /\ UNCHANGED <<world, heard, seen, missed>>

GiveUp ==
    /\ ~up
    /\ work' = "none"
    /\ UNCHANGED <<world, up, heard, seen, missed>>

Restart ==
    /\ ~up /\ work = "none"
    /\ up' = TRUE
    /\ heard' = 0
    /\ missed' = FALSE
    /\ UNCHANGED <<world, work, seen>>

Next ==
    \/ Change \/ FirstLook \/ Listen \/ Hear \/ Look \/ Miss \/ Finish
    \/ Stop \/ GiveUp \/ Restart

Spec == Init /\ [][Next]_vars
=============================================================================
