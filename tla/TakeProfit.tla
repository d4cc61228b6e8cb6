----------------------------- MODULE TakeProfit -----------------------------
(***************************************************************************)
(* The take-profit ladder of one strategy and the peak it trails.          *)
(*                                                                         *)
(* Every fifteen seconds the tp_sl job loads the rows of all strategies    *)
(* and evaluates one after the other on its copy: the forced stop loss,    *)
(* the retreat from the peak, the next level of the ladder.  What is due   *)
(* is closed and then written as TPn_DONE_PARTIAL or COMPLETED.  The peak  *)
(* lives in Redis; max_profit_pct, meant as its backup, is only written    *)
(* when something else commits the job's session.  Meanwhile the owner     *)
(* adds to the position, which may start the ladder again, or sets another *)
(* first level; the stage trigger enters a stage; the user stream and the  *)
(* reconcile job report what the exchange holds.                           *)
(*                                                                         *)
(* How an order is verified and tried again is in EmergencyClose, how a    *)
(* stage is entered in StageEntry: here both are one step, a pending stage *)
(* is one that is open, and the two events of one trade arrive together.   *)
(***************************************************************************)
EXTENDS Integers, Sequences

CONSTANTS
    Levels,         \* levels of the ladder (TOTAL_TP_LEVELS)
    Ratios,         \* per level: what it closes, in percent of the position
    DefaultRatio,   \* DEFAULT_TP_QTY_RATIO_PCT
    Extras,         \* capital_based in percent of qty_based, at least 100
    MinClose,       \* MIN_CLOSE_NOTIONAL, in steps of the quantity
    FirstLevel,     \* the template's threshold of TP1
    Overrides,      \* what the owner may set instead; 0 turns TP off
    MinTrail,       \* TRAILING_MIN_TP_INDEX
    PeakMin,        \* TRAILING_PEAK_THRESHOLD_PCT
    Retrace,        \* trailing_retrace_pct
    StopAt,         \* the ROI of the forced stop loss
    Rois,           \* ROI values, in units of the distance between two levels
    Held, Lot,      \* the position at the start; what an add or a stage buys
    Budgets,        \* bounds: adds, settings, trades by hand, lost answers,
                    \* refused orders, lost events and losses of Redis; one of
                    \* them is chosen
    Pending,        \* bound: trades on their way through the user stream
    Obv             \* whether stages are entered after a take-profit

NoOverride == -1
Lowest     == -9999     \* no peak is stored

Kinds == {"adds", "settings", "hand", "lost", "refused", "events", "redis"}

ASSUME LadderAssumption ==
    /\ Levels \in Nat \ {0}
    /\ Ratios \in [1 .. Levels -> 1 .. 100]
    /\ DefaultRatio \in 1 .. 99
    /\ Extras \subseteq Nat
    /\ MinClose \in Nat /\ {Held, Pending} \subseteq Nat /\ Lot \in Nat \ {0}

ASSUME RoiAssumption ==
    /\ Rois \subseteq {r \in Int : r > Lowest} /\ 0 \in Rois
    /\ {FirstLevel, MinTrail, PeakMin, StopAt} \subseteq Int
    /\ Retrace \in Nat \ {0}
    /\ Overrides \subseteq Nat
    /\ Budgets \subseteq [Kinds -> Nat]
    /\ Obv \in BOOLEAN

VARIABLES
    status, qty, saved, tp1,    \* the row: saved is max_profit_pct, 0 for NULL
    pos,                        \* external: the position
    peak,                       \* Redis: strategy:{id}:peak_pnl_pct
    stream,                     \* external: trades the user stream will report
    job,                        \* the tp_sl job
    owner,                      \* an add that starts the ladder again
    left,                       \* what is left of the budget
    taken,                      \* per level: orders since the ladder started
    lost,                       \* answers to its orders that were lost
    top,                        \* highest ROI evaluated since peak was deleted
    forgot                      \* Redis has lost the peak, or did not answer

row   == <<status, qty, saved, tp1>>
ghost == <<taken, lost, top, forgot>>
vars  == <<row, pos, peak, stream, job, owner, left, ghost>>

Plain(k) == [kind |-> k, level |-> 0]
Open     == Plain("STAGE_OPEN")
Done(n)  == [kind |-> "TP_DONE_PARTIAL", level |-> n]

EndKinds == {"STOPPED", "COMPLETED", "REENTRY_READY"}
STATUSES == {Done(n) : n \in 1 .. Levels}
               \cup {Plain(k) : k \in EndKinds
                         \cup {"STAGE_OPEN", "STOPPING", "MANUAL_CLEANUP_REQUIRED"}}

IsDone(s) == s.kind = "TP_DONE_PARTIAL"
Ended(s)  == s.kind \in EndKinds

\* Bug variant: a strategy that has taken a profit is not looked after.
OpenOnly(s) == s = Open

(* OPEN_LIKE_FOR_ORPHAN_CHECK *)
OpenLike(s) == s = Open \/ IsDone(s)

Least(x, y)   == IF x < y THEN x ELSE y
Greater(x, y) == IF x > y THEN x ELSE y
NothingTaken  == [n \in 1 .. Levels |-> 0]
Spend(k)      == left[k] > 0 /\ left' = [left EXCEPT ![k] = @ - 1]

IdleJob == [step |-> "idle", status |-> Open, qty |-> 0, saved |-> 0, dirty |-> FALSE,
            tp1 |-> NoOverride, plan |-> "NONE", level |-> 0, want |-> 0]
NoAdd   == [step |-> "idle", status |-> Open, saved |-> 0]

Init ==
    /\ status = Open /\ qty = Held /\ saved = 0
    /\ tp1 \in {NoOverride} \cup Overrides
    /\ pos = Held
    /\ peak = Lowest /\ stream = <<>>
    /\ job = IdleJob /\ owner = NoAdd
    /\ left \in Budgets
    /\ taken = NothingTaken /\ lost = 0 /\ top = Lowest /\ forgot = FALSE

(* The row takes status s; another status than TPn_DONE_PARTIAL ends the   *)
(* ladder that taken counts.                                               *)
Write(s) ==
    /\ status' = s
    /\ taken' = IF IsDone(s) THEN taken ELSE NothingTaken
Keeps == UNCHANGED <<status, taken>>

(* The position becomes x, by an order of the job's for delta or by no     *)
(* order that has a row of its own.                                        *)
Moves(x, delta) ==
    /\ Len(stream) < Pending
    /\ pos' = x
    /\ stream' = Append(stream, [amt |-> x, delta |-> delta])

-----------------------------------------------------------------------------
(***************************************************************************)
(* The tp_sl job.                                                          *)
(***************************************************************************)
(* run_tp_sl_once: one session, in which nothing is read again before a    *)
(* commit.                                                                 *)
CycleLoads ==
    /\ job.step = "idle"
    /\ ~ Ended(status) /\ status # Plain("STOPPING") /\ qty # 0
    /\ job' = [IdleJob EXCEPT !.step = "loaded", !.status = status, !.qty = qty,
                              !.saved = saved, !.tp1 = tp1]
    /\ UNCHANGED <<row, pos, peak, stream, owner, left, ghost>>

Off(c) == c.tp1 = 0

\* Bug variant: trailing waits for a later level.
LateTrailing(c) == c.tp1 > 0 /\ IsDone(c.status) /\ c.status.level >= MinTrail

Trailing(c)          == c.tp1 > 0 /\ IsDone(c.status)
TrailingAnyway(c, p) == IsDone(c.status) /\ c.status.level >= MinTrail /\ p >= PeakMin

(* The first branch asks for a TP1 of the owner's; the second, older one,  *)
(* for strategies with enough stages, does not: also where TP is off.      *)
Retreats(c, roi, p) ==
    /\ roi <= p - Retrace
    /\ Trailing(c) \/ TrailingAnyway(c, p)

(* An override moves the whole ladder. *)
Threshold(c, n) == (IF c.tp1 > 0 THEN c.tp1 ELSE FirstLevel) + n - 1

\* Bug variant: the level that was taken last is due again.
SameLevel(c) == IF c.status.level = 0 THEN 1 ELSE c.status.level

(* The level after the one the status names, never a later one (Fix 183).  *)
NextLevel(c) == c.status.level + 1
Reached(c, roi) ==
    ~ Off(c) /\ NextLevel(c) <= Levels /\ roi >= Threshold(c, NextLevel(c))

(* A level that would close everything closes the default part of it while *)
(* the ladder goes on.                                                     *)
RatioOf(n) == IF n < Levels /\ Ratios[n] >= 100 THEN DefaultRatio ELSE Ratios[n]

Floored(q, n, extra) == Least(q, (q * RatioOf(n) * extra) \div 10000)

\* Bug variant (before Fix 187): small orders are sent as they are.
SmallPart(q, part) == part

(* Everything, if the order or the rest would be too small (Fix 187).      *)
WholeIfSmall(q, part) ==
    IF part > 0 /\ (part < MinClose \/ q - part < MinClose) THEN q ELSE part

CloseQty(q, n, extra) ==
    IF RatioOf(n) >= 100 THEN q
    ELSE LET part == WholeIfSmall(q, Floored(q, n, extra))
         IN  IF part = 0 THEN 1 ELSE part

\* Bug variant: the peak is what is seen now.
ForgetPeak(roi, best) == roi

(* _update_peak_pnl, where Redis answers. *)
UpdatePeak(roi, best) == Greater(best, peak)

(* From here on the copy is only asked for its status and what it would    *)
(* write.                                                                  *)
Resting(c) == [IdleJob EXCEPT !.step = "rest", !.saved = c.saved, !.dirty = c.dirty]

Due(c, plan, n, want) ==
    [Resting(c) EXCEPT !.step = "close", !.status = c.status, !.plan = plan,
                       !.level = n, !.want = want]

(* evaluate_force_stop_loss, then evaluate_take_profit_level. *)
ForceStop(roi) ==
    /\ roi <= StopAt
    /\ job' = Due(job, "FORCE_SL", 0, job.qty)
    /\ UNCHANGED <<peak, left, ghost>>

Decide(c, roi, p) ==
    \/ /\ Retreats(c, roi, p)
       /\ job' = Due(c, "TRAILING_TP", 0, c.qty)
    \/ /\ ~ Retreats(c, roi, p) /\ Reached(c, roi)
       /\ \E extra \in Extras :
             job' = Due(c, "TP", NextLevel(c), CloseQty(c.qty, NextLevel(c), extra))
    \/ /\ ~ Retreats(c, roi, p) /\ ~ Reached(c, roi)
       /\ job' = Resting(c)

(* _update_pnl_extremes: on the copy only. *)
Extremes(c, roi) == IF roi > c.saved THEN [c EXCEPT !.saved = roi, !.dirty = TRUE] ELSE c

Evaluate(roi) ==
    /\ job.step = "loaded"
    /\ \/ ForceStop(roi)
       \/ /\ roi > StopAt
          /\ LET c    == Extremes(job, roi)
                 best == Greater(roi, IF c.saved = 0 THEN Lowest ELSE c.saved)
             IN  \/ /\ peak' = UpdatePeak(roi, best)
                    /\ Decide(c, roi, peak')
                    /\ top' = Greater(top, roi)
                    /\ UNCHANGED <<left, taken, lost, forgot>>
                 \/ /\ Spend("redis")
                    /\ Decide(c, roi, best)
                    /\ top' = Greater(top, roi) /\ forgot' = TRUE
                    /\ UNCHANGED <<peak, taken, lost>>
    /\ UNCHANGED <<row, pos, stream, owner>>

(* The rest of the cycle: max_profit_pct is written if an alert or another *)
(* strategy commits the session, and dropped by db.close() if none does.   *)
CycleEnds(commits) ==
    /\ job.step = "rest"
    /\ saved' = IF commits /\ job.dirty THEN job.saved ELSE saved
    /\ job' = IdleJob
    /\ UNCHANGED <<status, qty, tp1, pos, peak, stream, owner, left, ghost>>

(* EmergencyCloseInProgress: somebody else is closing. *)
Busy ==
    /\ job.step = "close" /\ Spend("refused")
    /\ job' = Resting(job)
    /\ UNCHANGED <<row, pos, peak, stream, owner, ghost>>

SavedAtCommit == saved' = IF job.dirty THEN job.saved ELSE saved

(* emergency_close_position finds no position: STOPPED, and an error that  *)
(* only the forced stop loss goes on after.                                *)
FindsNothing ==
    /\ job.step = "close" /\ pos = 0
    /\ Write(Plain("STOPPED")) /\ qty' = 0 /\ SavedAtCommit
    /\ job' = IF job.plan = "FORCE_SL" THEN [IdleJob EXCEPT !.step = "record", !.plan = job.plan]
              ELSE IdleJob
    /\ UNCHANGED <<tp1, pos, peak, stream, owner, left, lost, top, forgot>>

(* It marks a close of everything, unless a level has been taken. *)
Mark ==
    /\ job.step = "close" /\ pos > 0
    /\ IF job.want >= pos /\ ~ IsDone(job.status) THEN Write(Plain("STOPPING")) ELSE Keeps
    /\ SavedAtCommit
    /\ job' = [IdleJob EXCEPT !.step = "place", !.plan = job.plan, !.level = job.level,
                              !.want = Least(job.want, pos)]
    /\ UNCHANGED <<qty, tp1, pos, peak, stream, owner, left, lost, top, forgot>>

Counted == IF job.plan = "TP" THEN [taken EXCEPT ![job.level] = @ + 1] ELSE taken

(* The exchange takes an order that is large enough or closes everything.  *)
Accepts(want) == pos > 0 /\ (want >= MinClose \/ want >= pos)

Trades ==
    /\ job.step = "place" /\ Accepts(job.want)
    /\ LET x == Least(job.want, pos) IN Moves(pos - x, x)
    /\ taken' = Counted

Place ==
    /\ Trades
    /\ job' = [job EXCEPT !.step = "record", !.want = 0]
    /\ UNCHANGED <<row, peak, owner, left, lost, top, forgot>>

(* The job fails between the order and the status: the answer is lost, or  *)
(* the process dies.                                                       *)
PlaceUnanswered ==
    /\ Trades /\ Spend("lost") /\ lost' = lost + 1
    /\ job' = IdleJob
    /\ UNCHANGED <<row, peak, owner, top, forgot>>

Refused ==
    /\ job.step = "place"
    /\ IF Accepts(job.want) THEN Spend("refused") ELSE UNCHANGED left
    /\ job' = IdleJob
    /\ UNCHANGED <<row, pos, peak, stream, owner, ghost>>

IsFinal == job.plan = "TRAILING_TP" \/ (job.plan = "TP" /\ RatioOf(job.level) >= 100)

(* _execute_take_profit and _execute_force_stop_loss, after the close:     *)
(* whether a level was final is asked of its ratio, not of what it closed. *)
Record ==
    /\ job.step = "record"
    /\ Write(IF job.plan = "FORCE_SL" THEN Plain("STOPPING")
             ELSE IF IsFinal THEN Plain("COMPLETED") ELSE Done(job.level))
    /\ IF IsFinal THEN peak' = Lowest /\ top' = Lowest /\ forgot' = FALSE
       ELSE UNCHANGED <<peak, top, forgot>>
    /\ job' = IdleJob
    /\ UNCHANGED <<qty, saved, tp1, pos, stream, owner, left, lost>>

Job ==
    \/ CycleLoads \/ (\E roi \in Rois : Evaluate(roi)) \/ (\E commits \in BOOLEAN : CycleEnds(commits))
    \/ Busy \/ FindsNothing \/ Mark \/ Place \/ PlaceUnanswered \/ Refused \/ Record

-----------------------------------------------------------------------------
(***************************************************************************)
(* The owner and the stage trigger.                                        *)
(***************************************************************************)
Buys == Spend("adds") /\ Moves(pos + Lot, 0)

(* add_position_now, which looks at no status; in the mode "preserve" the  *)
(* order is all, in the mode "reset" the ladder starts again after it.     *)
OwnerAdds(mode) ==
    /\ owner.step = "idle"
    /\ Buys
    /\ owner' = IF mode = "reset" THEN [NoAdd EXCEPT !.step = "bought"] ELSE owner
    /\ UNCHANGED <<row, peak, job, ghost>>

(* The row is read after the order's commit; the peak goes before the next *)
(* one.                                                                    *)
OwnerForgets ==
    /\ owner.step = "bought"
    /\ owner' = [step |-> "reset", status |-> status, saved |-> saved]
    /\ peak' = Lowest /\ top' = Lowest /\ forgot' = FALSE
    /\ UNCHANGED <<row, pos, stream, job, left, taken, lost>>

(* What the copy already held is not written. *)
OwnerCommits ==
    /\ owner.step = "reset"
    /\ IF owner.status = Open THEN Keeps ELSE Write(Open)
    /\ saved' = IF owner.saved = 0 THEN saved ELSE 0
    /\ owner' = NoAdd
    /\ UNCHANGED <<qty, tp1, pos, peak, stream, job, left, lost, top, forgot>>

(* trigger_next_stage: after a take-profit only with OBV_REVERSE.          *)
StageEnters ==
    /\ status = Open \/ (Obv /\ IsDone(status))
    /\ Buys
    /\ Write(Open)
    /\ UNCHANGED <<qty, saved, tp1, peak, job, owner, lost, top, forgot>>

(* update_tp1_threshold *)
OwnerSetsTp1 ==
    /\ ~ Ended(status) /\ Spend("settings")
    /\ tp1' \in Overrides
    /\ UNCHANGED <<status, qty, saved, pos, peak, stream, job, owner, ghost>>

OwnerClosesByHand ==
    /\ pos > 0 /\ Spend("hand")
    /\ Moves(0, 0)
    /\ UNCHANGED <<row, peak, job, owner, ghost>>

-----------------------------------------------------------------------------
(***************************************************************************)
(* The user stream, the reconcile job and Redis.                           *)
(***************************************************************************)
(* handle_account_update: the quantity of the trade, if anybody is there.  *)
Updated(e) == IF status.kind \in {"REENTRY_READY", "STOPPING", "COMPLETED"} THEN qty ELSE e.amt

FlatStatus == CASE status = Plain("COMPLETED") -> status
                [] status = Plain("STOPPING")  -> Plain("STOPPED")
                [] OTHER                       -> Plain("REENTRY_READY")

(* handle_order_trade_update, for an order of the job's.                   *)
Deliver ==
    /\ stream # <<>>
    /\ LET e == Head(stream)
       IN  IF e.delta = 0
           THEN Keeps /\ qty' = Updated(e)
           ELSE /\ qty' = pos
                /\ IF Updated(e) <= e.delta /\ pos = 0 THEN Write(FlatStatus) ELSE Keeps
    /\ stream' = Tail(stream)
    /\ UNCHANGED <<saved, tp1, pos, peak, job, owner, left, lost, top, forgot>>

Lose ==
    /\ stream # <<>> /\ Spend("events")
    /\ stream' = Tail(stream)
    /\ UNCHANGED <<row, pos, peak, job, owner, ghost>>

ReconcileStops ==
    /\ pos = 0
    /\ OpenLike(status) \/ status = Plain("STOPPING")
    /\ Write(Plain("STOPPED")) /\ qty' = 0
    /\ UNCHANGED <<saved, tp1, pos, peak, stream, job, owner, left, lost, top, forgot>>

ReconcileSyncs ==
    /\ Keeps
    /\ IF Ended(status) THEN qty # 0 /\ qty' = 0 ELSE qty # pos /\ qty' = pos
    /\ UNCHANGED <<saved, tp1, pos, peak, stream, job, owner, left, lost, top, forgot>>

(* _detect_stopping_stuck, after five minutes. *)
ReconcileHandsOver ==
    /\ status = Plain("STOPPING") /\ pos > 0
    /\ Write(Plain("MANUAL_CLEANUP_REQUIRED"))
    /\ UNCHANGED <<qty, saved, tp1, pos, peak, stream, job, owner, left, lost, top, forgot>>

RedisLoses ==
    /\ peak # Lowest /\ Spend("redis")
    /\ peak' = Lowest /\ forgot' = TRUE
    /\ UNCHANGED <<row, pos, stream, job, owner, taken, lost, top>>

Next ==
    \/ Job
    \/ \E mode \in {"reset", "preserve"} : OwnerAdds(mode)
    \/ OwnerForgets \/ OwnerCommits \/ StageEnters \/ OwnerSetsTp1 \/ OwnerClosesByHand
    \/ Deliver \/ Lose
    \/ ReconcileStops \/ ReconcileSyncs \/ ReconcileHandsOver
    \/ RedisLoses

Spec == Init /\ [][Next]_vars

(* The jobs run every fifteen seconds and every two minutes, the stream is *)
(* read, and a request is served to its end.                               *)
Fairness == /\ WF_vars(Job) /\ WF_vars(Deliver)
            /\ WF_vars(ReconcileStops) /\ WF_vars(ReconcileSyncs) /\ WF_vars(ReconcileHandsOver)
            /\ WF_vars(OwnerForgets \/ OwnerCommits)

FairSpec == Spec /\ Fairness

-----------------------------------------------------------------------------
(***************************************************************************)
(* Properties.                                                             *)
(***************************************************************************)
Peaks == Rois \cup {Lowest}
Saves == Rois \cup {0}
Plans == {"NONE", "TP", "TRAILING_TP", "FORCE_SL"}

Jobs == [step : {"idle", "loaded", "rest", "close", "place", "record"},
         status : STATUSES, qty : Nat, saved : Saves, dirty : BOOLEAN,
         tp1 : {NoOverride} \cup Nat, plan : Plans, level : 0 .. Levels, want : Nat]

Adds == [step : {"idle", "bought", "reset"}, status : STATUSES, saved : Saves]

TypeOK ==
    /\ status \in STATUSES /\ qty \in Nat /\ saved \in Saves
    /\ tp1 \in {NoOverride} \cup Nat
    /\ pos \in Nat /\ peak \in Peaks
    /\ stream \in Seq([amt : Nat, delta : Nat])
    /\ job \in Jobs /\ owner \in Adds
    /\ left \in [Kinds -> Nat]
    /\ taken \in [1 .. Levels -> Nat] /\ lost \in Nat /\ top \in Peaks /\ forgot \in BOOLEAN

(* Above level n, no level was ordered oftener than an answer was lost.    *)
FreshAbove(n) == \A m \in 1 .. Levels : m > n => taken[m] <= lost

(* The job is never behind the ladder: its copy may be stale, but what it  *)
(* is about to order has not been ordered yet, and what it has ordered it  *)
(* will write.                                                             *)
JobIsAhead ==
    /\ job.step # "record" => FreshAbove(status.level)
    /\ job.step = "loaded" => FreshAbove(job.status.level)
    /\ job.step \in {"close", "place"} /\ job.plan = "TP" => FreshAbove(job.level - 1)
    /\ job.step = "record" /\ job.plan = "TP" => FreshAbove(job.level)

Planned ==
    /\ job.plan = "NONE" <=> job.step \in {"idle", "loaded", "rest"}
    /\ job.plan = "TP" => job.level \in 1 .. Levels

(* What the job may rely on: it knows what it is doing, it is not behind   *)
(* the ladder, and while Redis has kept it the stored peak is the highest  *)
(* ROI that any cycle has seen.                                            *)
TpInv ==
    /\ TypeOK
    /\ Planned
    /\ JobIsAhead
    /\ forgot \/ top <= peak

(* A level is taken once per ladder, but for each answer that was lost.    *)
LevelsOnce == \A n \in 1 .. Levels : taken[n] <= 1 + lost

(* And after the levels below it: the levels implement TpLadder.           *)
Ladder == INSTANCE TpLadder

TakenInTurn == Ladder!Spec

(* A retreat from the highest ROI that any cycle has seen, on a ladder of  *)
(* the owner's of which a level has been taken.                            *)
Retreat(roi) == /\ IsDone(job.status) /\ job.tp1 > 0
                /\ StopAt < roi /\ roi <= top - Retrace

(* Such a retreat closes the rest, at the very cycle that sees it, unless  *)
(* Redis has forgotten the peak.                                           *)
RetreatIsTaken ==
    [][\A roi \in Rois :
          Evaluate(roi) /\ Retreat(roi) => job'.plan = "TRAILING_TP" \/ forgot']_vars

(* Also where Redis has forgotten it: max_profit_pct keeps the true peak.  *)
PeakOutlivesRedis ==
    [][\A roi \in Rois :
          Evaluate(roi) /\ Retreat(roi) => job'.plan = "TRAILING_TP"]_vars

(* With TP off neither a level nor a retreat closes anything of a position *)
(* that is held.                                                           *)
TpOffStopsAll ==
    [][\A roi \in Rois :
          Evaluate(roi) /\ Off(job) /\ pos > 0 => job'.plan \in {"NONE", "FORCE_SL"}]_vars

(* A strategy whose position is gone does not stay among the live ones,    *)
(* whatever the job has written over what ended it; the owner's clean-up   *)
(* apart.                                                                  *)
FlatEnds ==
    pos = 0 ~> \/ pos > 0 \/ Ended(status)
               \/ status = Plain("MANUAL_CLEANUP_REQUIRED")

BeyondLast(roi) == tp1 # 0 /\ roi >= Threshold([tp1 |-> tp1], Levels)

(* While the price stays beyond the last level the ladder is climbed to    *)
(* its end: no level is too small to be taken (Fix 187).                   *)
LadderIsClimbed ==
    <>[][\A roi \in Rois : Evaluate(roi) => BeyondLast(roi)]_vars
        => <>(pos = 0 \/ Ended(status) \/ status = Done(Levels))
=============================================================================
