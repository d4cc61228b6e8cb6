------------------------------ MODULE TpLadder ------------------------------
(***************************************************************************)
(* What the take-profit levels promise, whoever writes the row meanwhile:  *)
(* they are taken in ascending order and each once per ladder.  Only for   *)
(* an order whose answer was lost may a level be taken again.              *)
(***************************************************************************)
EXTENDS Naturals

CONSTANT Levels     \* number of levels

VARIABLES
    taken,          \* per level: orders since the ladder began
    lost            \* orders whose answer was lost

Untaken == [n \in 1 .. Levels |-> 0]

Init == taken = Untaken /\ lost = 0

Take(n) ==
    /\ \A m \in n .. Levels : taken[m] <= lost
    /\ taken' = [taken EXCEPT ![n] = @ + 1]
    /\ lost' \in {lost, lost + 1}

(* The answer to an order of another kind is lost. *)
Miss == lost' = lost + 1 /\ UNCHANGED taken

(* The ladder ends, or begins again. *)
Restart == taken' = Untaken /\ UNCHANGED lost

Next == (\E n \in 1 .. Levels : Take(n)) \/ Miss \/ Restart

Spec == Init /\ [][Next]_<<taken, lost>>
=============================================================================
