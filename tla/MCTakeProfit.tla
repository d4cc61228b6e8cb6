---------------------------- MODULE MCTakeProfit ----------------------------
(***************************************************************************)
(* TakeProfit for TLC: two levels, of which the first, at 100 %, closes    *)
(* the default part of the position and the last one a half.               *)
(***************************************************************************)
EXTENDS TakeProfit

Halves   == <<100, 50>>
SmallRois == {-1, 0, 1, 2}
StopRoi   == -1

Bound(a, s, h, l, r, e, f) ==
    [adds |-> a, settings |-> s, hand |-> h, lost |-> l, refused |-> r,
     events |-> e, redis |-> f]

SomeBudgets == {Bound(1, 0, 0, 0, 0, 0, 1), Bound(0, 1, 1, 1, 1, 1, 1)}
=============================================================================
