----------------------------- MODULE FillLedger -----------------------------
(***************************************************************************)
(* What the ledger of a strategy promises, without rows, events or faults: *)
(* the exchange executes units of an order, and the ledger books them, in  *)
(* any portions, each unit at most once.                                   *)
(***************************************************************************)
EXTENDS Integers

CONSTANT Orders

VARIABLES
    filled,     \* units of each order the exchange has executed
    booked      \* units of each order the strategy has booked

Init == /\ filled = [o \in Orders |-> 0]
        /\ booked = [o \in Orders |-> 0]

Execute(o) ==
    /\ filled'[o] \in Nat /\ filled'[o] > filled[o]
    /\ filled' = [filled EXCEPT ![o] = filled'[o]]
    /\ UNCHANGED booked

Book(o) ==
    /\ booked'[o] \in booked[o] + 1 .. filled[o]
    /\ booked' = [booked EXCEPT ![o] = booked'[o]]
    /\ UNCHANGED filled

Next == \E o \in Orders : Execute(o) \/ Book(o)

Spec == Init /\ [][Next]_<<filled, booked>>
=============================================================================
