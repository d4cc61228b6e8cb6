------------------------------ MODULE JobTurns ------------------------------
(***************************************************************************)
(* What the leadership and the locks of the jobs promise together: one     *)
(* process at a time is at work on a job.  Only when Redis has lost its    *)
(* keys may another one begin beside it, and only beside one that was at   *)
(* work at that moment.                                                    *)
(***************************************************************************)
EXTENDS Integers

CONSTANTS Nodes, Jobs

VARIABLES
    working,        \* <<process, job>>: who is at work on what
    exposed,        \* those whose lock Redis has lost
    wipes           \* times that Redis has lost its keys

Init == working = {} /\ exposed = {} /\ wipes = 0

Begin(n, j) ==
    /\ \A m \in Nodes : <<m, j>> \in working => <<m, j>> \in exposed
    /\ <<n, j>> \notin working
    /\ working' = working \cup {<<n, j>>}
    /\ UNCHANGED <<exposed, wipes>>

(* A job ends, or a process dies with all of its jobs. *)
End ==
    /\ working' \subseteq working
    /\ exposed' = exposed \cap working'
    /\ UNCHANGED wipes

Wipe ==
    /\ wipes' = wipes + 1
    /\ exposed' = working
    /\ UNCHANGED working

Next ==
    \/ \E n \in Nodes, j \in Jobs : Begin(n, j)
    \/ End \/ Wipe

Spec == Init /\ [][Next]_<<working, exposed, wipes>>
=============================================================================
