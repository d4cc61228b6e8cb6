---------------------------- MODULE MCAutoEntry ----------------------------
(***************************************************************************)
(* AutoEntry for TLC: a job and a closed strategy of one family, whose     *)
(* daily limit is two, and a closed strategy of another, whose limit is    *)
(* one: three entries in all, where one slot and two jobs allow for two.   *)
(***************************************************************************)
EXTENDS AutoEntry, TLC

CONSTANTS w1, o1, o2, n1, n2, n3, bb, re, m1, m2

Family == [x \in {w1, o1, o2} |-> IF x = o2 THEN re ELSE bb]
PerDay == [f \in {bb, re} |-> IF f = bb THEN 2 ELSE 1]
Place  == [x \in {o1, o2} |-> IF x = o1 THEN m1 ELSE m2]
Fresh  == Permutations({n1, n2, n3})
=============================================================================
