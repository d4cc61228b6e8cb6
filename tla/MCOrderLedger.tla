--------------------------- MODULE MCOrderLedger ---------------------------
(***************************************************************************)
(* OrderLedger for TLC: one exit x, one LIMIT addition a.  Scale = 6 is a  *)
(* multiple of every quantity up to 3, so averages are exact.              *)
(***************************************************************************)
EXTENDS OrderLedger

CONSTANTS x, a

ExitAndAdd == [o \in {x, a} |-> IF o = x THEN "EXIT" ELSE "ADD"]
TwoExits   == [o \in {x, a} |-> "EXIT"]
=============================================================================
