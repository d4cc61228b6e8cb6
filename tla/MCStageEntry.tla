---------------------------- MODULE MCStageEntry ----------------------------
(***************************************************************************)
(* StageEntry for TLC.  A budget says how often what may happen; each of   *)
(* SomeBudgets puts other actors and faults together.                      *)
(***************************************************************************)
EXTENDS StageEntry

CONSTANTS s1, c1, c2, p1

Budget(clicks, stops, passes, losses, unanswered) ==
    [clicks |-> clicks, stops |-> stops, passes |-> passes, losses |-> losses,
     unanswered |-> unanswered]

SomeBudgets ==
    {Budget(2, 0, 0, 1, 1), Budget(0, 0, 2, 1, 1), Budget(1, 0, 1, 1, 0),
     Budget(0, 1, 1, 1, 0), Budget(1, 1, 0, 0, 0)}

AnOverlap == {Budget(1, 0, 1, 0, 0)}
=============================================================================
