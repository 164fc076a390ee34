---------------------------- MODULE SingleServer ----------------------------
(***************************************************************************)
(* What ProxyService promises about wireproxy, seen from outside: the app  *)
(* listens on one fixed port (127.0.0.1:1080), so of all the wireproxy     *)
(* processes it ever creates at most one is left running at a time, a new  *)
(* one is created only when none is left, and a process that died or was   *)
(* told to die never comes back.                                           *)
(***************************************************************************)
EXTENDS Naturals

VARIABLES
    live,      \* processes that run and have not been told to stop
    launched   \* how many processes have been created; the next is launched + 1

vars == <<live, launched>>

Init == live = {} /\ launched = 0

Launch ==
    /\ live = {}
    /\ launched' = launched + 1
    /\ live' = {launched + 1}

Retire ==
    /\ \E p \in live : live' = live \ {p}
    /\ UNCHANGED launched

Next == Launch \/ Retire

Spec == Init /\ [][Next]_vars
=============================================================================
