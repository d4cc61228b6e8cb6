----------------------------- MODULE StageLadder -----------------------------
(***************************************************************************)
(* What entering the stages of a strategy promises, whoever asks for it    *)
(* and whatever fails: the stages are bought one after the other, each by  *)
(* one order that the exchange has confirmed, and the strategy climbs to a *)
(* stage only when it is bought.                                           *)
(***************************************************************************)
EXTENDS Integers

CONSTANT Last       \* number of stages

VARIABLES
    stage,          \* the stage the strategy is at
    bought          \* confirmed entry orders: [order, stage] records

Init == stage = 0 /\ bought = {}

Buy ==
    /\ stage < Last
    /\ \A b \in bought : b.stage # stage + 1
    /\ \E b \in bought' \ bought : b.stage = stage + 1 /\ bought' = bought \cup {b}
    /\ UNCHANGED stage

Climb ==
    /\ \E b \in bought : b.stage = stage + 1
    /\ stage' = stage + 1
    /\ UNCHANGED bought

Next == Buy \/ Climb

Spec == Init /\ [][Next]_<<stage, bought>>
=============================================================================
