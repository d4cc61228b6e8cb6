--------------------------- MODULE StrategyStatus ---------------------------
(***************************************************************************)
(* The statuses of a strategy, as strategy_status.py classifies them.      *)
(* The code numbers stages 1 to 10 and take-profit levels 1 to 20; stages  *)
(* 1 and 2 and level 1 stand for all of them here.                         *)
(***************************************************************************)

MANUAL_CLEANUP_REQUIRED == "MANUAL_CLEANUP_REQUIRED"

TERMINAL_STATUSES ==
    {"STOPPED", "COMPLETED", "CLOSED", "CLOSED_BY_TP", "CLOSED_BY_SL",
     "REENTRY_READY", "KILL_SWITCH_TRIGGERED", "STOPPED_CAPITAL_EXHAUSTED"}

TpPartial == {"TP1_DONE_PARTIAL"}

OPEN_LIKE_FOR_ORPHAN_CHECK == {"STAGE1_OPEN", "STAGE2_OPEN"} \cup TpPartial

ACTIVE_WITH_POSITION ==
    OPEN_LIKE_FOR_ORPHAN_CHECK
        \cup {"TRAILING_ARMED", "CRISIS_TP1_DONE", "STOPPING",
              MANUAL_CLEANUP_REQUIRED}

ACTIVE_WAITING ==
    {"STAGE1_OPEN_PENDING", "STAGE2_OPEN_PENDING", "LIQUIDATED_WAITING_RETRY"}

ACTIVE_LIKE == ACTIVE_WITH_POSITION \cup ACTIVE_WAITING

STATUSES == TERMINAL_STATUSES \cup ACTIVE_LIKE
=============================================================================
