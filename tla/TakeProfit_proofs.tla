-------------------------- MODULE TakeProfit_proofs --------------------------
(***************************************************************************)
(* Theorems about TakeProfit, for any ladder, quantities, prices and       *)
(* bounds: its safety properties follow from TpInv, and the levels         *)
(* implement TpLadder.                                                     *)
(***************************************************************************)
EXTENDS TakeProfit, TLAPS

LEMMA Constants ==
    /\ Levels \in Nat /\ Levels >= 1
    /\ Extras \subseteq Nat
    /\ \A r \in Rois : r \in Int /\ r > Lowest
    /\ 0 \in Rois
    /\ Overrides \subseteq Nat
    /\ Held \in Nat /\ Lot \in Nat
    /\ StopAt \in Int /\ Retrace \in Nat
    /\ Budgets \subseteq [Kinds -> Nat]
    /\ Lowest \in Int
  BY LadderAssumption, RoiAssumption DEF Lowest

LEMMA StatusFacts ==
    /\ \A k \in EndKinds \cup {"STAGE_OPEN", "STOPPING", "MANUAL_CLEANUP_REQUIRED"} :
          Plain(k) \in STATUSES /\ ~ IsDone(Plain(k)) /\ Plain(k).level = 0
    /\ \A n \in 1 .. Levels : Done(n) \in STATUSES /\ IsDone(Done(n)) /\ Done(n).level = n
    /\ \A s \in STATUSES : /\ s.level \in 0 .. Levels
                           /\ IsDone(s) => s.level \in 1 .. Levels
  BY Constants DEF STATUSES, Plain, Done, IsDone, EndKinds

LEMMA OpenFacts == Open \in STATUSES /\ ~ IsDone(Open) /\ Open.level = 0
  BY StatusFacts DEF Open

LEMMA Defaults ==
    /\ IdleJob \in Jobs /\ NoAdd \in Adds
    /\ IdleJob.step = "idle" /\ IdleJob.plan = "NONE"
    /\ NothingTaken \in [1 .. Levels -> Nat]
<1>1. IdleJob \in Jobs
  BY OpenFacts, Constants DEF IdleJob, Jobs, Plans, Saves, NoOverride
<1>2. NoAdd \in Adds
  BY OpenFacts DEF NoAdd, Adds, Saves
<1>. QED
  BY <1>1, <1>2 DEF IdleJob, NothingTaken

(* The steps of the module, flat. *)
LEMMA Cases ==
    ASSUME Next
    PROVE  \/ CycleLoads
           \/ \E roi \in Rois : Evaluate(roi)
           \/ \E commits \in BOOLEAN : CycleEnds(commits)
           \/ Busy \/ FindsNothing \/ Mark \/ Place \/ PlaceUnanswered \/ Refused \/ Record
           \/ \E mode \in {"reset", "preserve"} : OwnerAdds(mode)
           \/ OwnerForgets \/ OwnerCommits \/ StageEnters \/ OwnerSetsTp1 \/ OwnerClosesByHand
           \/ Deliver \/ Lose
           \/ ReconcileStops \/ ReconcileSyncs \/ ReconcileHandsOver
           \/ RedisLoses
  BY DEF Next, Job

-----------------------------------------------------------------------------
(***************************************************************************)
(* Records and numbers.                                                    *)
(***************************************************************************)
LEMMA RestingTyped ==
    ASSUME NEW c \in Jobs
    PROVE  /\ Resting(c) \in Jobs
           /\ Resting(c).step = "rest" /\ Resting(c).plan = "NONE"
<1>1. c.saved \in Saves /\ c.dirty \in BOOLEAN
  BY DEF Jobs
<1>2. IdleJob \in Jobs /\ "rest" \in {"idle", "loaded", "rest", "close", "place", "record"}
  BY Defaults
<1>3. Resting(c) \in Jobs
  BY <1>1, <1>2 DEF Resting, Jobs
<1>. QED
  BY <1>3 DEF Resting, IdleJob

LEMMA DueTyped ==
    ASSUME NEW c \in Jobs, NEW plan \in Plans, NEW n \in 0 .. Levels, NEW want \in Nat
    PROVE  /\ Due(c, plan, n, want) \in Jobs
           /\ Due(c, plan, n, want).step = "close"
           /\ Due(c, plan, n, want).plan = plan
           /\ Due(c, plan, n, want).level = n
<1>1. c.status \in STATUSES
  BY DEF Jobs
<1>2. Resting(c) \in Jobs
  BY RestingTyped
<1>. DEFINE r == Resting(c)
<1>3. Due(c, plan, n, want) = [r EXCEPT !.step = "close", !.status = c.status, !.plan = plan,
                                        !.level = n, !.want = want]
  BY DEF Due
<1>. HIDE DEF r
<1>4. r \in Jobs
  BY <1>2 DEF r
<1>. QED
  BY <1>1, <1>3, <1>4 DEF Jobs

LEMMA RatioTyped == \A n \in 1 .. Levels : RatioOf(n) \in 1 .. 100
  BY LadderAssumption DEF RatioOf

LEMMA FlooredTyped ==
    ASSUME NEW q \in Nat, NEW n \in 1 .. Levels, NEW extra \in Extras
    PROVE  Floored(q, n, extra) \in Nat
<1>1. RatioOf(n) \in Nat /\ extra \in Nat
  <2>1. RatioOf(n) \in 1 .. 100
    BY RatioTyped
  <2>2. extra \in Nat
    BY Constants
  <2>. QED
    BY <2>1, <2>2
<1>2. \A x, y \in Nat : x * y \in Nat
  OBVIOUS
<1>3. q * RatioOf(n) \in Nat
  BY <1>1, <1>2
<1>4. (q * RatioOf(n)) * extra \in Nat
  BY <1>1, <1>2, <1>3
<1>5. \A x \in Nat : x \div 10000 \in Nat
  OBVIOUS
<1>6. ((q * RatioOf(n)) * extra) \div 10000 \in Nat
  BY <1>4, <1>5
<1>. QED
  BY <1>6 DEF Floored, Least

LEMMA CloseQtyTyped ==
    ASSUME NEW q \in Nat, NEW n \in 1 .. Levels, NEW extra \in Extras
    PROVE  CloseQty(q, n, extra) \in Nat
<1>1. WholeIfSmall(q, Floored(q, n, extra)) \in Nat
  BY FlooredTyped DEF WholeIfSmall
<1>. QED
  BY <1>1 DEF CloseQty

-----------------------------------------------------------------------------
(***************************************************************************)
(* Types.                                                                  *)
(***************************************************************************)
Trade == [amt : Nat, delta : Nat]

LEMMA SpendTyped ==
    ASSUME TypeOK, NEW k \in Kinds, Spend(k)
    PROVE  left' \in [Kinds -> Nat]
<1>1. left \in [Kinds -> Nat] /\ left[k] \in Nat
  BY DEF TypeOK
<1>2. left[k] - 1 \in Nat
  BY <1>1 DEF Spend
<1>. QED
  BY <1>1, <1>2 DEF Spend

LEMMA WriteTyped ==
    ASSUME TypeOK, NEW s \in STATUSES, Write(s)
    PROVE  status' \in STATUSES /\ taken' \in [1 .. Levels -> Nat]
  BY Defaults DEF TypeOK, Write

LEMMA KeepsTyped ==
    ASSUME TypeOK, Keeps
    PROVE  status' \in STATUSES /\ taken' \in [1 .. Levels -> Nat]
  BY DEF TypeOK, Keeps

LEMMA MovesTyped ==
    ASSUME TypeOK, NEW x \in Nat, NEW d \in Nat, Moves(x, d)
    PROVE  pos' \in Nat /\ stream' \in Seq(Trade)
<1>1. [amt |-> x, delta |-> d] \in Trade
  BY DEF Trade
<1>2. stream \in Seq(Trade)
  BY DEF TypeOK, Trade
<1>. QED
  BY <1>1, <1>2 DEF Moves

LEMMA HeadTyped ==
    ASSUME TypeOK, stream # <<>>
    PROVE  /\ Head(stream).amt \in Nat /\ Head(stream).delta \in Nat
           /\ Tail(stream) \in Seq(Trade)
<1>1. stream \in Seq(Trade)
  BY DEF TypeOK, Trade
<1>2. Head(stream) \in Trade /\ Tail(stream) \in Seq(Trade)
  BY <1>1
<1>. QED
  BY <1>2 DEF Trade

LEMMA InitTypeOK == Init => TypeOK
<1>. SUFFICES ASSUME Init PROVE TypeOK
  OBVIOUS
<1>1. stream \in Seq([amt : Nat, delta : Nat])
  BY DEF Init
<1>2. status \in STATUSES /\ qty \in Nat /\ pos \in Nat
  BY Constants, OpenFacts DEF Init
<1>3. saved \in Saves /\ peak \in Peaks /\ top \in Peaks
  BY DEF Init, Saves, Peaks
<1>4. tp1 \in {NoOverride} \cup Nat
  BY Constants DEF Init
<1>5. job \in Jobs /\ owner \in Adds /\ taken \in [1 .. Levels -> Nat]
  BY Defaults DEF Init
<1>6. left \in [Kinds -> Nat] /\ lost \in Nat /\ forgot \in BOOLEAN
  BY Constants DEF Init
<1>. QED
  BY <1>1, <1>2, <1>3, <1>4, <1>5, <1>6 DEF TypeOK

LEMMA LoadTypeOK == TypeOK /\ CycleLoads => TypeOK'
<1>. SUFFICES ASSUME TypeOK, CycleLoads PROVE TypeOK'
  OBVIOUS
<1>1. job' \in Jobs
  <2>1. status \in STATUSES /\ qty \in Nat /\ saved \in Saves /\ tp1 \in {NoOverride} \cup Nat
    BY DEF TypeOK
  <2>2. IdleJob \in Jobs
    BY Defaults
  <2>3. job' = [IdleJob EXCEPT !.step = "loaded", !.status = status, !.qty = qty,
                               !.saved = saved, !.tp1 = tp1]
    BY DEF CycleLoads
  <2>. QED
    BY <2>1, <2>2, <2>3 DEF Jobs
<1>. QED
  BY <1>1 DEF TypeOK, CycleLoads, row, ghost

LEMMA ExtremesTyped ==
    ASSUME NEW c \in Jobs, NEW roi \in Rois
    PROVE  /\ Extremes(c, roi) \in Jobs
           /\ Extremes(c, roi).status = c.status
           /\ Extremes(c, roi).tp1 = c.tp1
           /\ Extremes(c, roi).qty = c.qty
<1>1. CASE roi > c.saved
  <2>1. Extremes(c, roi) = [c EXCEPT !.saved = roi, !.dirty = TRUE]
    BY <1>1 DEF Extremes
  <2>2. roi \in Saves
    BY DEF Saves
  <2>. QED
    BY <2>1, <2>2 DEF Jobs
<1>2. CASE ~ (roi > c.saved)
  BY <1>2 DEF Extremes
<1>. QED
  BY <1>1, <1>2

(* What an evaluation decides, and that it can be written down. *)
LEMMA DecideFacts ==
    ASSUME NEW c \in Jobs, NEW roi \in Rois, NEW p, Decide(c, roi, p)
    PROVE  /\ job' \in Jobs
           /\ \/ job'.step = "rest" /\ job'.plan = "NONE"
              \/ job'.step = "close" /\ job'.plan = "TRAILING_TP"
              \/ /\ job'.step = "close" /\ job'.plan = "TP"
                 /\ job'.level = c.status.level + 1 /\ job'.level \in 1 .. Levels
<1>1. c.status.level \in 0 .. Levels /\ c.qty \in Nat
  BY StatusFacts DEF Jobs
<1>2. CASE Retreats(c, roi, p)
  <2>1. job' = Due(c, "TRAILING_TP", 0, c.qty)
    BY <1>2 DEF Decide
  <2>2. 0 \in 0 .. Levels /\ "TRAILING_TP" \in Plans
    BY Constants DEF Plans
  <2>. QED
    BY <1>1, <2>1, <2>2, DueTyped
<1>3. CASE ~ Retreats(c, roi, p) /\ Reached(c, roi)
  <2>1. PICK extra \in Extras :
            job' = Due(c, "TP", NextLevel(c), CloseQty(c.qty, NextLevel(c), extra))
    BY <1>3 DEF Decide
  <2>2. NextLevel(c) = c.status.level + 1 /\ NextLevel(c) <= Levels
    BY <1>3 DEF NextLevel, Reached
  <2>3. NextLevel(c) \in 1 .. Levels /\ NextLevel(c) \in 0 .. Levels
    BY <1>1, <2>2, Constants
  <2>4. CloseQty(c.qty, NextLevel(c), extra) \in Nat
    BY <1>1, <2>3, CloseQtyTyped
  <2>5. "TP" \in Plans
    BY DEF Plans
  <2>6. job' \in Jobs /\ job'.step = "close" /\ job'.plan = "TP" /\ job'.level = NextLevel(c)
    BY <2>1, <2>3, <2>4, <2>5, DueTyped
  <2>. QED
    BY <2>2, <2>3, <2>6
<1>4. CASE ~ Retreats(c, roi, p) /\ ~ Reached(c, roi)
  <2>1. job' = Resting(c)
    BY <1>4 DEF Decide
  <2>. QED
    BY <2>1, RestingTyped
<1>. QED
  BY <1>2, <1>3, <1>4

LEMMA GreaterFacts ==
    \A x, y \in Peaks : /\ Greater(x, y) \in Peaks
                        /\ Greater(x, y) >= x /\ Greater(x, y) >= y
<1>1. \A x \in Peaks : x \in Int
  BY Constants DEF Peaks
<1>. QED
  BY <1>1 DEF Greater

(* An evaluation: it stops the strategy, or decides on a copy and a peak,  *)
(* with the answer of Redis or without it.                                 *)
LEMMA EvaluateCases ==
    ASSUME TypeOK, NEW roi \in Rois, Evaluate(roi)
    PROVE  \/ ForceStop(roi)
           \/ /\ roi > StopAt
              /\ top' = Greater(top, roi) /\ taken' = taken /\ lost' = lost
              /\ \E c \in Jobs, p \in Peaks :
                    /\ c.status = job.status /\ c.tp1 = job.tp1
                    /\ Decide(c, roi, p)
                    /\ \/ /\ peak' = p /\ p >= peak /\ p >= roi
                          /\ left' = left /\ forgot' = forgot
                       \/ /\ peak' = peak /\ forgot' = TRUE
                          /\ Spend("redis")
<1>1. CASE ForceStop(roi)
  BY <1>1
<1>2. CASE ~ ForceStop(roi)
  <2>. DEFINE c == Extremes(job, roi)
              best == Greater(roi, IF c.saved = 0 THEN Lowest ELSE c.saved)
  <2>1. c \in Jobs /\ c.status = job.status /\ c.tp1 = job.tp1
    BY ExtremesTyped DEF TypeOK
  <2>2. (IF c.saved = 0 THEN Lowest ELSE c.saved) \in Peaks
    BY <2>1 DEF Jobs, Saves, Peaks
  <2>3. best \in Peaks /\ best >= roi
    BY <2>2, GreaterFacts DEF Peaks
  <2>4. /\ roi > StopAt
        /\ \/ /\ peak' = UpdatePeak(roi, best)
              /\ Decide(c, roi, peak')
              /\ top' = Greater(top, roi)
              /\ UNCHANGED <<left, taken, lost, forgot>>
           \/ /\ Spend("redis")
              /\ Decide(c, roi, best)
              /\ top' = Greater(top, roi) /\ forgot' = TRUE
              /\ UNCHANGED <<peak, taken, lost>>
    BY <1>2 DEF Evaluate
  <2>. HIDE DEF c, best
  <2>5. CASE /\ peak' = UpdatePeak(roi, best)
             /\ Decide(c, roi, peak')
             /\ top' = Greater(top, roi)
             /\ UNCHANGED <<left, taken, lost, forgot>>
    <3>1. peak' = Greater(best, peak)
      BY <2>5 DEF UpdatePeak
    <3>2. peak \in Peaks /\ \A x \in Peaks : x \in Int
      BY Constants DEF TypeOK, Peaks
    <3>3. peak' \in Peaks /\ peak' >= peak /\ peak' >= best
      BY <2>3, <3>1, <3>2, GreaterFacts
    <3>4. peak' >= roi
      BY <2>3, <3>2, <3>3 DEF Peaks
    <3>. QED
      BY <2>1, <2>4, <2>5, <3>3, <3>4
  <2>6. CASE /\ Spend("redis")
             /\ Decide(c, roi, best)
             /\ top' = Greater(top, roi) /\ forgot' = TRUE
             /\ UNCHANGED <<peak, taken, lost>>
    BY <2>1, <2>3, <2>4, <2>6
  <2>. QED
    BY <2>4, <2>5, <2>6
<1>. QED
  BY <1>1, <1>2

LEMMA LeastTyped == \A x, y \in Nat : Least(x, y) \in Nat /\ Least(x, y) <= x /\ Least(x, y) <= y
  BY DEF Least

LEMMA LoadPlanned == TypeOK /\ CycleLoads => Planned'
<1>. SUFFICES ASSUME CycleLoads PROVE Planned'
  OBVIOUS
<1>1. job'.step = "loaded" /\ job'.plan = "NONE"
  BY DEF CycleLoads, IdleJob
<1>. QED
  BY <1>1 DEF Planned

LEMMA IdlePlanned ==
    ASSUME job' = IdleJob
    PROVE  job' \in Jobs /\ Planned'
  BY Defaults DEF Planned

LEMMA RestPlanned ==
    ASSUME NEW c \in Jobs, job' = Resting(c)
    PROVE  job' \in Jobs /\ Planned'
  BY RestingTyped DEF Planned

LEMMA EvaluateTypeOK ==
    ASSUME TypeOK, NEW roi \in Rois, Evaluate(roi)
    PROVE  TypeOK' /\ Planned'
<1>1. /\ status' = status /\ qty' = qty /\ saved' = saved /\ tp1' = tp1
      /\ pos' = pos /\ stream' = stream /\ owner' = owner
  BY DEF Evaluate, row
<1>2. CASE ForceStop(roi)
  <2>1. job \in Jobs /\ job.qty \in Nat /\ 0 \in 0 .. Levels /\ "FORCE_SL" \in Plans
    BY Constants DEF TypeOK, Jobs, Plans
  <2>2. job' = Due(job, "FORCE_SL", 0, job.qty)
    BY <1>2 DEF ForceStop
  <2>3. job' \in Jobs /\ job'.step = "close" /\ job'.plan = "FORCE_SL"
    BY <2>1, <2>2, DueTyped
  <2>4. /\ peak' = peak /\ left' = left /\ taken' = taken /\ lost' = lost
        /\ top' = top /\ forgot' = forgot
    BY <1>2 DEF ForceStop, ghost
  <2>. QED
    BY <1>1, <2>3, <2>4 DEF TypeOK, Planned
<1>3. CASE ~ ForceStop(roi)
  <2>1. top' \in Peaks
    <3>1. top' = Greater(top, roi)
      BY <1>3, EvaluateCases
    <3>2. roi \in Peaks /\ top \in Peaks
      BY DEF TypeOK, Peaks
    <3>. QED
      BY <3>1, <3>2, GreaterFacts
  <2>2. PICK c \in Jobs, p \in Peaks :
            /\ Decide(c, roi, p)
            /\ \/ peak' = p /\ left' = left /\ forgot' = forgot
               \/ peak' = peak /\ forgot' = TRUE /\ Spend("redis")
    BY <1>3, EvaluateCases
  <2>3. job' \in Jobs /\ Planned'
    <3>1. \/ job'.step = "rest" /\ job'.plan = "NONE"
          \/ job'.step = "close" /\ job'.plan = "TRAILING_TP"
          \/ job'.step = "close" /\ job'.plan = "TP" /\ job'.level \in 1 .. Levels
      BY <2>2, DecideFacts
    <3>2. job' \in Jobs
      BY <2>2, DecideFacts
    <3>. QED
      BY <3>1, <3>2 DEF Planned
  <2>4. peak' \in Peaks /\ left' \in [Kinds -> Nat] /\ forgot' \in BOOLEAN
    <3>1. "redis" \in Kinds
      BY DEF Kinds
    <3>2. Spend("redis") => left' \in [Kinds -> Nat]
      BY <3>1, SpendTyped
    <3>. QED
      BY <2>2, <3>2 DEF TypeOK
  <2>5. taken' = taken /\ lost' = lost
    BY <1>3, EvaluateCases
  <2>. QED
    BY <1>1, <2>1, <2>3, <2>4, <2>5 DEF TypeOK
<1>. QED
  BY <1>2, <1>3

LEMMA SavedTyped == TypeOK /\ SavedAtCommit => saved' \in Saves
  BY DEF TypeOK, SavedAtCommit, Jobs

LEMMA CycleEndsTypeOK ==
    ASSUME TypeOK, NEW commits \in BOOLEAN, CycleEnds(commits)
    PROVE  TypeOK' /\ Planned'
<1>1. job' \in Jobs /\ Planned'
  BY IdlePlanned DEF CycleEnds
<1>2. saved' \in Saves
  BY DEF TypeOK, CycleEnds, Jobs
<1>. QED
  BY <1>1, <1>2 DEF TypeOK, CycleEnds, ghost

LEMMA BusyTypeOK == TypeOK /\ Busy => TypeOK' /\ Planned'
<1>. SUFFICES ASSUME TypeOK, Busy PROVE TypeOK' /\ Planned'
  OBVIOUS
<1>1. job' \in Jobs /\ Planned'
  BY RestPlanned DEF Busy, TypeOK
<1>2. left' \in [Kinds -> Nat]
  BY SpendTyped DEF Busy, Kinds
<1>. QED
  BY <1>1, <1>2 DEF TypeOK, Busy, row, ghost

LEMMA PlainTyped ==
    /\ Plain("STOPPED") \in STATUSES /\ Plain("STOPPING") \in STATUSES
    /\ Plain("COMPLETED") \in STATUSES /\ Plain("REENTRY_READY") \in STATUSES
    /\ Plain("MANUAL_CLEANUP_REQUIRED") \in STATUSES
  BY StatusFacts DEF EndKinds

LEMMA PlainNotDone ==
    /\ ~ IsDone(Plain("STOPPED")) /\ ~ IsDone(Plain("STOPPING"))
    /\ ~ IsDone(Plain("COMPLETED")) /\ ~ IsDone(Plain("REENTRY_READY"))
    /\ ~ IsDone(Plain("MANUAL_CLEANUP_REQUIRED"))
  BY StatusFacts DEF EndKinds

LEMMA FindsNothingTypeOK == TypeOK /\ FindsNothing => TypeOK' /\ Planned'
<1>. SUFFICES ASSUME TypeOK, FindsNothing PROVE TypeOK' /\ Planned'
  OBVIOUS
<1>1. job' \in Jobs /\ Planned'
  <2>1. CASE job.plan = "FORCE_SL"
    <3>1. job' = [IdleJob EXCEPT !.step = "record", !.plan = job.plan]
      BY <2>1 DEF FindsNothing
    <3>2. job' \in Jobs
      BY <2>1, <3>1, Defaults DEF Jobs, Plans
    <3>3. job'.step = "record" /\ job'.plan = "FORCE_SL"
      BY <2>1, <3>1 DEF IdleJob
    <3>. QED
      BY <3>2, <3>3 DEF Planned
  <2>2. CASE job.plan # "FORCE_SL"
    BY <2>2, IdlePlanned DEF FindsNothing
  <2>. QED
    BY <2>1, <2>2
<1>2. status' \in STATUSES /\ taken' \in [1 .. Levels -> Nat]
  BY PlainTyped, WriteTyped DEF FindsNothing
<1>3. saved' \in Saves
  BY SavedTyped DEF FindsNothing
<1>. QED
  BY <1>1, <1>2, <1>3 DEF TypeOK, FindsNothing

LEMMA MarkTypeOK == TypeOK /\ Planned /\ Mark => TypeOK' /\ Planned'
<1>. SUFFICES ASSUME TypeOK, Planned, Mark PROVE TypeOK' /\ Planned'
  OBVIOUS
<1>1. job' = [IdleJob EXCEPT !.step = "place", !.plan = job.plan, !.level = job.level,
                             !.want = Least(job.want, pos)]
  BY DEF Mark
<1>2. job' \in Jobs
  <2>1. job.plan \in Plans /\ job.level \in 0 .. Levels /\ job.want \in Nat /\ pos \in Nat
    BY DEF TypeOK, Jobs
  <2>2. Least(job.want, pos) \in Nat
    BY <2>1, LeastTyped
  <2>. QED
    BY <1>1, <2>1, <2>2, Defaults DEF Jobs
<1>3. job'.step = "place" /\ job'.plan = job.plan /\ job'.level = job.level
  BY <1>1 DEF IdleJob
<1>4. Planned'
  BY <1>3 DEF Planned, Mark
<1>5. status' \in STATUSES /\ taken' \in [1 .. Levels -> Nat]
  BY PlainTyped, WriteTyped, KeepsTyped DEF Mark
<1>6. saved' \in Saves
  BY SavedTyped DEF Mark
<1>. QED
  BY <1>2, <1>4, <1>5, <1>6 DEF TypeOK, Mark

LEMMA CountedTyped ==
    TypeOK /\ Planned => Counted \in [1 .. Levels -> Nat]
<1>. SUFFICES ASSUME TypeOK, Planned PROVE Counted \in [1 .. Levels -> Nat]
  OBVIOUS
<1>1. taken \in [1 .. Levels -> Nat]
  BY DEF TypeOK
<1>2. CASE job.plan = "TP"
  <2>1. job.level \in 1 .. Levels /\ taken[job.level] \in Nat
    BY <1>1, <1>2 DEF Planned
  <2>2. taken[job.level] + 1 \in Nat
    BY <2>1
  <2>. QED
    BY <1>1, <1>2, <2>1, <2>2 DEF Counted
<1>3. CASE job.plan # "TP"
  BY <1>1, <1>3 DEF Counted
<1>. QED
  BY <1>2, <1>3

LEMMA TradesTyped ==
    ASSUME TypeOK, Planned, Trades
    PROVE  /\ pos' \in Nat /\ stream' \in Seq(Trade)
           /\ taken' \in [1 .. Levels -> Nat]
<1>. DEFINE x == Least(job.want, pos)
<1>1. job.want \in Nat /\ pos \in Nat
  BY DEF TypeOK, Jobs
<1>2. x \in Nat /\ x <= pos
  BY <1>1, LeastTyped
<1>3. Moves(pos - x, x)
  BY DEF Trades
<1>. HIDE DEF x
<1>4. pos - x \in Nat
  BY <1>1, <1>2
<1>5. pos' \in Nat /\ stream' \in Seq(Trade)
  BY <1>2, <1>3, <1>4, MovesTyped
<1>6. taken' \in [1 .. Levels -> Nat]
  BY CountedTyped DEF Trades
<1>. QED
  BY <1>5, <1>6

LEMMA PlaceTypeOK == TypeOK /\ Planned /\ Place => TypeOK' /\ Planned'
<1>. SUFFICES ASSUME TypeOK, Planned, Place PROVE TypeOK' /\ Planned'
  OBVIOUS
<1>1. pos' \in Nat /\ stream' \in Seq(Trade) /\ taken' \in [1 .. Levels -> Nat]
  BY TradesTyped DEF Place
<1>2. job \in Jobs
  BY DEF TypeOK
<1>3. job' \in Jobs
  BY <1>2 DEF Place, Jobs
<1>4. job'.step = "record" /\ job'.plan = job.plan /\ job'.level = job.level
  BY <1>2 DEF Place, Jobs
<1>5. job.step = "place"
  BY DEF Place, Trades
<1>6. Planned'
  BY <1>4, <1>5 DEF Planned
<1>. QED
  BY <1>1, <1>3, <1>6 DEF TypeOK, Trade, Place, row

LEMMA PlaceUnansweredTypeOK == TypeOK /\ Planned /\ PlaceUnanswered => TypeOK' /\ Planned'
<1>. SUFFICES ASSUME TypeOK, Planned, PlaceUnanswered PROVE TypeOK' /\ Planned'
  OBVIOUS
<1>1. pos' \in Nat /\ stream' \in Seq(Trade) /\ taken' \in [1 .. Levels -> Nat]
  BY TradesTyped DEF PlaceUnanswered
<1>2. job' \in Jobs /\ Planned'
  BY IdlePlanned DEF PlaceUnanswered
<1>3. left' \in [Kinds -> Nat]
  BY SpendTyped DEF PlaceUnanswered, Kinds
<1>4. lost' \in Nat
  BY DEF PlaceUnanswered, TypeOK
<1>. QED
  BY <1>1, <1>2, <1>3, <1>4 DEF TypeOK, Trade, PlaceUnanswered, row

LEMMA RefusedTypeOK == TypeOK /\ Refused => TypeOK' /\ Planned'
<1>. SUFFICES ASSUME TypeOK, Refused PROVE TypeOK' /\ Planned'
  OBVIOUS
<1>1. job' \in Jobs /\ Planned'
  BY IdlePlanned DEF Refused
<1>2. left' \in [Kinds -> Nat]
  <2>1. Spend("refused") \/ left' = left
    BY DEF Refused
  <2>2. Spend("refused") => left' \in [Kinds -> Nat]
    BY SpendTyped DEF Kinds
  <2>. QED
    BY <2>1, <2>2 DEF TypeOK
<1>. QED
  BY <1>1, <1>2 DEF TypeOK, Refused, row, ghost

Recorded == IF job.plan = "FORCE_SL" THEN Plain("STOPPING")
            ELSE IF IsFinal THEN Plain("COMPLETED") ELSE Done(job.level)

LEMMA RecordedTyped ==
    ASSUME TypeOK, Planned, Record
    PROVE  /\ Recorded \in STATUSES
           /\ IsDone(Recorded) => job.plan = "TP" /\ Recorded.level = job.level
<1>1. CASE job.plan = "FORCE_SL"
  BY <1>1, PlainTyped, PlainNotDone DEF Recorded
<1>2. CASE job.plan # "FORCE_SL" /\ IsFinal
  BY <1>2, PlainTyped, PlainNotDone DEF Recorded
<1>3. CASE job.plan # "FORCE_SL" /\ ~ IsFinal
  <2>1. job.step = "record" /\ job.plan \in Plans
    BY DEF Record, TypeOK, Jobs
  <2>2. job.plan # "NONE"
    BY <2>1 DEF Planned
  <2>3. job.plan = "TP"
    BY <1>3, <2>1, <2>2 DEF Plans, IsFinal
  <2>4. job.level \in 1 .. Levels
    BY <2>3 DEF Planned
  <2>5. Recorded = Done(job.level)
    BY <1>3 DEF Recorded
  <2>. QED
    BY <2>3, <2>4, <2>5, StatusFacts
<1>. QED
  BY <1>1, <1>2, <1>3

LEMMA RecordTypeOK == TypeOK /\ Planned /\ Record => TypeOK' /\ Planned'
<1>. SUFFICES ASSUME TypeOK, Planned, Record PROVE TypeOK' /\ Planned'
  OBVIOUS
<1>1. job' \in Jobs /\ Planned'
  BY IdlePlanned DEF Record
<1>2. Write(Recorded)
  BY DEF Record, Recorded
<1>3. status' \in STATUSES /\ taken' \in [1 .. Levels -> Nat]
  BY <1>2, RecordedTyped, WriteTyped
<1>4. peak' \in Peaks /\ top' \in Peaks /\ forgot' \in BOOLEAN
  <2>1. Lowest \in Peaks
    BY DEF Peaks
  <2>2. CASE IsFinal
    <3>1. peak' = Lowest /\ top' = Lowest /\ forgot' = FALSE
      BY <2>2 DEF Record
    <3>. QED
      BY <2>1, <3>1
  <2>3. CASE ~ IsFinal
    <3>1. peak' = peak /\ top' = top /\ forgot' = forgot
      BY <2>3 DEF Record
    <3>. QED
      BY <3>1 DEF TypeOK
  <2>. QED
    BY <2>2, <2>3
<1>. QED
  BY <1>1, <1>3, <1>4 DEF TypeOK, Record

-----------------------------------------------------------------------------
(* Everybody else leaves the job alone. *)
LEMMA PlannedKept == Planned /\ job' = job => Planned'
  BY DEF Planned

LEMMA BuysTyped ==
    ASSUME TypeOK, Buys
    PROVE  /\ pos' \in Nat /\ stream' \in Seq(Trade)
           /\ left' \in [Kinds -> Nat]
<1>1. pos + Lot \in Nat /\ 0 \in Nat
  BY Constants DEF TypeOK
<1>2. pos' \in Nat /\ stream' \in Seq(Trade)
  BY <1>1, MovesTyped DEF Buys
<1>3. left' \in [Kinds -> Nat]
  BY SpendTyped DEF Buys, Kinds
<1>. QED
  BY <1>2, <1>3

LEMMA OwnerAddsTypeOK ==
    ASSUME TypeOK, NEW mode, OwnerAdds(mode)
    PROVE  TypeOK'
<1>1. pos' \in Nat /\ stream' \in Seq(Trade) /\ left' \in [Kinds -> Nat]
  BY BuysTyped DEF OwnerAdds
<1>2. owner' \in Adds
  BY Defaults DEF OwnerAdds, TypeOK, Adds
<1>. QED
  BY <1>1, <1>2 DEF TypeOK, Trade, OwnerAdds, row, ghost

LEMMA OwnerForgetsTypeOK == TypeOK /\ OwnerForgets => TypeOK'
<1>. SUFFICES ASSUME TypeOK, OwnerForgets PROVE TypeOK'
  OBVIOUS
<1>1. owner' \in Adds
  BY DEF OwnerForgets, TypeOK, Adds
<1>2. Lowest \in Peaks
  BY DEF Peaks
<1>. QED
  BY <1>1, <1>2 DEF TypeOK, OwnerForgets, row

LEMMA OwnerCommitsTypeOK == TypeOK /\ OwnerCommits => TypeOK'
<1>. SUFFICES ASSUME TypeOK, OwnerCommits PROVE TypeOK'
  OBVIOUS
<1>1. status' \in STATUSES /\ taken' \in [1 .. Levels -> Nat]
  BY OpenFacts, WriteTyped, KeepsTyped DEF OwnerCommits
<1>2. saved' \in Saves
  BY DEF OwnerCommits, TypeOK, Saves
<1>3. owner' \in Adds
  BY Defaults DEF OwnerCommits
<1>. QED
  BY <1>1, <1>2, <1>3 DEF TypeOK, OwnerCommits

LEMMA StageEntersTypeOK == TypeOK /\ StageEnters => TypeOK'
<1>. SUFFICES ASSUME TypeOK, StageEnters PROVE TypeOK'
  OBVIOUS
<1>1. pos' \in Nat /\ stream' \in Seq(Trade) /\ left' \in [Kinds -> Nat]
  BY BuysTyped DEF StageEnters
<1>2. status' \in STATUSES /\ taken' \in [1 .. Levels -> Nat]
  BY OpenFacts, WriteTyped DEF StageEnters
<1>. QED
  BY <1>1, <1>2 DEF TypeOK, Trade, StageEnters

LEMMA OwnerSetsTp1TypeOK == TypeOK /\ OwnerSetsTp1 => TypeOK'
<1>. SUFFICES ASSUME TypeOK, OwnerSetsTp1 PROVE TypeOK'
  OBVIOUS
<1>1. tp1' \in {NoOverride} \cup Nat
  BY Constants DEF OwnerSetsTp1
<1>2. left' \in [Kinds -> Nat]
  BY SpendTyped DEF OwnerSetsTp1, Kinds
<1>. QED
  BY <1>1, <1>2 DEF TypeOK, OwnerSetsTp1, ghost

LEMMA OwnerClosesTypeOK == TypeOK /\ OwnerClosesByHand => TypeOK'
<1>. SUFFICES ASSUME TypeOK, OwnerClosesByHand PROVE TypeOK'
  OBVIOUS
<1>1. pos' \in Nat /\ stream' \in Seq(Trade)
  BY MovesTyped DEF OwnerClosesByHand
<1>2. left' \in [Kinds -> Nat]
  BY SpendTyped DEF OwnerClosesByHand, Kinds
<1>. QED
  BY <1>1, <1>2 DEF TypeOK, Trade, OwnerClosesByHand, row, ghost

LEMMA DeliverTypeOK == TypeOK /\ Deliver => TypeOK'
<1>. SUFFICES ASSUME TypeOK, Deliver PROVE TypeOK'
  OBVIOUS
<1>. DEFINE e == Head(stream)
<1>1. stream # <<>>
  BY DEF Deliver
<1>2. e.amt \in Nat /\ stream' \in Seq(Trade)
  BY <1>1, HeadTyped DEF Deliver
<1>3. Updated(e) \in Nat
  BY <1>2 DEF Updated, TypeOK
<1>. HIDE DEF e
<1>4. \/ Keeps /\ qty' = Updated(e)
      \/ qty' = pos /\ (Write(FlatStatus) \/ Keeps)
  BY DEF Deliver, e
<1>5. qty' \in Nat
  BY <1>3, <1>4 DEF TypeOK
<1>6. FlatStatus \in STATUSES
  BY PlainTyped DEF FlatStatus, TypeOK
<1>7. status' \in STATUSES /\ taken' \in [1 .. Levels -> Nat]
  BY <1>4, <1>6, WriteTyped, KeepsTyped
<1>. QED
  BY <1>2, <1>5, <1>7 DEF TypeOK, Trade, Deliver

LEMMA LoseTypeOK == TypeOK /\ Lose => TypeOK'
<1>. SUFFICES ASSUME TypeOK, Lose PROVE TypeOK'
  OBVIOUS
<1>1. stream' \in Seq(Trade)
  BY HeadTyped DEF Lose
<1>2. left' \in [Kinds -> Nat]
  BY SpendTyped DEF Lose, Kinds
<1>. QED
  BY <1>1, <1>2 DEF TypeOK, Trade, Lose, row, ghost

LEMMA ReconcileTypeOK ==
    ASSUME TypeOK, ReconcileStops \/ ReconcileSyncs \/ ReconcileHandsOver
    PROVE  TypeOK'
<1>1. CASE ReconcileStops
  <2>1. status' \in STATUSES /\ taken' \in [1 .. Levels -> Nat] /\ qty' \in Nat
    BY <1>1, PlainTyped, WriteTyped DEF ReconcileStops
  <2>. QED
    BY <1>1, <2>1 DEF TypeOK, ReconcileStops
<1>2. CASE ReconcileSyncs
  <2>1. status' \in STATUSES /\ taken' \in [1 .. Levels -> Nat]
    BY <1>2, KeepsTyped DEF ReconcileSyncs
  <2>2. qty' \in Nat
    BY <1>2 DEF ReconcileSyncs, TypeOK
  <2>. QED
    BY <1>2, <2>1, <2>2 DEF TypeOK, ReconcileSyncs
<1>3. CASE ReconcileHandsOver
  <2>1. status' \in STATUSES /\ taken' \in [1 .. Levels -> Nat]
    BY <1>3, PlainTyped, WriteTyped DEF ReconcileHandsOver
  <2>. QED
    BY <1>3, <2>1 DEF TypeOK, ReconcileHandsOver
<1>. QED
  BY <1>1, <1>2, <1>3

LEMMA RedisLosesTypeOK == TypeOK /\ RedisLoses => TypeOK'
<1>. SUFFICES ASSUME TypeOK, RedisLoses PROVE TypeOK'
  OBVIOUS
<1>1. left' \in [Kinds -> Nat]
  BY SpendTyped DEF RedisLoses, Kinds
<1>2. Lowest \in Peaks
  BY DEF Peaks
<1>. QED
  BY <1>1, <1>2 DEF TypeOK, RedisLoses, row

(* What everybody but the job does leaves its record alone. *)
Others == \/ \E mode \in {"reset", "preserve"} : OwnerAdds(mode)
          \/ OwnerForgets \/ OwnerCommits \/ StageEnters \/ OwnerSetsTp1 \/ OwnerClosesByHand
          \/ Deliver \/ Lose
          \/ ReconcileStops \/ ReconcileSyncs \/ ReconcileHandsOver
          \/ RedisLoses

LEMMA OthersKeepJob == Others => job' = job
  BY DEF Others, OwnerAdds, OwnerForgets, OwnerCommits, StageEnters, OwnerSetsTp1,
         OwnerClosesByHand, Deliver, Lose, ReconcileStops, ReconcileSyncs,
         ReconcileHandsOver, RedisLoses

LEMMA StutterTypeOK == TypeOK /\ Planned /\ UNCHANGED vars => TypeOK' /\ Planned'
  BY DEF TypeOK, Planned, vars, row, ghost

LEMMA StepTypeOK == TypeOK /\ Planned /\ [Next]_vars => TypeOK' /\ Planned'
<1>. SUFFICES ASSUME TypeOK, Planned, [Next]_vars PROVE TypeOK' /\ Planned'
  OBVIOUS
<1>1. CASE Others
  <2>1. TypeOK'
    BY <1>1, OwnerAddsTypeOK, OwnerForgetsTypeOK, OwnerCommitsTypeOK, StageEntersTypeOK,
       OwnerSetsTp1TypeOK, OwnerClosesTypeOK, DeliverTypeOK, LoseTypeOK, ReconcileTypeOK,
       RedisLosesTypeOK DEF Others
  <2>. QED
    BY <1>1, <2>1, OthersKeepJob, PlannedKept
<1>2. CASE \E roi \in Rois : Evaluate(roi)
  BY <1>2, EvaluateTypeOK
<1>3. CASE \E commits \in BOOLEAN : CycleEnds(commits)
  BY <1>3, CycleEndsTypeOK
<1>4. CASE \/ CycleLoads \/ Busy \/ FindsNothing \/ Mark \/ Place \/ PlaceUnanswered
           \/ Refused \/ Record
  BY <1>4, LoadTypeOK, LoadPlanned, BusyTypeOK, FindsNothingTypeOK, MarkTypeOK, PlaceTypeOK,
     PlaceUnansweredTypeOK, RefusedTypeOK, RecordTypeOK
<1>5. CASE UNCHANGED vars
  BY <1>5, StutterTypeOK
<1>. QED
  BY <1>1, <1>2, <1>3, <1>4, <1>5, Cases DEF Others

-----------------------------------------------------------------------------
(***************************************************************************)
(* The job is never behind the ladder.                                     *)
(***************************************************************************)
LEMMA FreshStart ==
    ASSUME taken' = NothingTaken, lost' \in Nat
    PROVE  JobIsAhead'
<1>1. \A m \in 1 .. Levels : taken'[m] <= lost'
  BY DEF NothingTaken
<1>. QED
  BY <1>1 DEF JobIsAhead, FreshAbove

LEMMA WritesPlain ==
    ASSUME NEW s, ~ IsDone(s), Write(s), lost' \in Nat
    PROVE  JobIsAhead'
<1>1. taken' = NothingTaken
  BY DEF Write
<1>. QED
  BY <1>1, FreshStart

LEMMA AheadKept ==
    ASSUME JobIsAhead, job' = job, status' = status, taken' = taken, lost' = lost
    PROVE  JobIsAhead'
  BY DEF JobIsAhead, FreshAbove

(* The others never write that a level was taken. *)
LEMMA OthersWrites ==
    ASSUME TypeOK, Others
    PROVE  /\ lost' = lost
           /\ \/ status' = status /\ taken' = taken
              \/ taken' = NothingTaken
<1>1. CASE \/ \E mode \in {"reset", "preserve"} : OwnerAdds(mode)
           \/ OwnerForgets \/ OwnerSetsTp1 \/ OwnerClosesByHand \/ Lose \/ RedisLoses
  BY <1>1 DEF OwnerAdds, OwnerForgets, OwnerSetsTp1, OwnerClosesByHand, Lose, RedisLoses,
              row, ghost
<1>2. CASE OwnerCommits
  BY <1>2, OpenFacts DEF OwnerCommits, Write, Keeps
<1>3. CASE StageEnters
  BY <1>3, OpenFacts DEF StageEnters, Write
<1>4. CASE ReconcileStops
  BY <1>4, PlainNotDone DEF ReconcileStops, Write
<1>5. CASE ReconcileSyncs
  BY <1>5 DEF ReconcileSyncs, Keeps
<1>6. CASE ReconcileHandsOver
  BY <1>6, PlainNotDone DEF ReconcileHandsOver, Write
<1>7. CASE Deliver
  <2>1. ~ IsDone(FlatStatus)
    BY PlainNotDone DEF FlatStatus
  <2>2. Keeps \/ Write(FlatStatus)
    BY <1>7 DEF Deliver
  <2>3. lost' = lost
    BY <1>7 DEF Deliver
  <2>. QED
    BY <2>1, <2>2, <2>3 DEF Keeps, Write
<1>. QED
  BY <1>1, <1>2, <1>3, <1>4, <1>5, <1>6, <1>7 DEF Others

LEMMA OthersAhead ==
    ASSUME TypeOK, JobIsAhead, Others
    PROVE  JobIsAhead'
<1>1. job' = job /\ lost' = lost
  BY OthersKeepJob, OthersWrites
<1>2. CASE status' = status /\ taken' = taken
  BY <1>1, <1>2, AheadKept
<1>3. CASE taken' = NothingTaken
  BY <1>1, <1>3, FreshStart DEF TypeOK
<1>. QED
  BY <1>2, <1>3, OthersWrites

LEMMA LoadAhead == JobIsAhead /\ CycleLoads => JobIsAhead'
<1>. SUFFICES ASSUME JobIsAhead, CycleLoads PROVE JobIsAhead'
  OBVIOUS
<1>1. FreshAbove(status.level)
  BY DEF JobIsAhead, CycleLoads
<1>2. job'.step = "loaded" /\ job'.status = status
  BY DEF CycleLoads, IdleJob
<1>3. status' = status /\ taken' = taken /\ lost' = lost
  BY DEF CycleLoads, row, ghost
<1>. QED
  BY <1>1, <1>2, <1>3 DEF JobIsAhead, FreshAbove

LEMMA EvaluateAhead ==
    ASSUME TypeOK, JobIsAhead, NEW roi \in Rois, Evaluate(roi)
    PROVE  JobIsAhead'
<1>1. FreshAbove(status.level) /\ FreshAbove(job.status.level)
  BY DEF JobIsAhead, Evaluate
<1>2. status' = status
  BY DEF Evaluate, row
<1>3. CASE ForceStop(roi)
  <2>1. job \in Jobs /\ job.qty \in Nat /\ 0 \in 0 .. Levels /\ "FORCE_SL" \in Plans
    BY Constants DEF TypeOK, Jobs, Plans
  <2>2. job' = Due(job, "FORCE_SL", 0, job.qty)
    BY <1>3 DEF ForceStop
  <2>3. job'.step = "close" /\ job'.plan = "FORCE_SL"
    BY <2>1, <2>2, DueTyped
  <2>4. taken' = taken /\ lost' = lost
    BY <1>3 DEF ForceStop, ghost
  <2>. QED
    BY <1>1, <1>2, <2>3, <2>4 DEF JobIsAhead, FreshAbove
<1>4. CASE ~ ForceStop(roi)
  <2>1. taken' = taken /\ lost' = lost
    BY <1>4, EvaluateCases
  <2>2. PICK c \in Jobs, p \in Peaks : c.status = job.status /\ Decide(c, roi, p)
    BY <1>4, EvaluateCases
  <2>3. \/ job'.step = "rest" /\ job'.plan = "NONE"
        \/ job'.step = "close" /\ job'.plan = "TRAILING_TP"
        \/ job'.step = "close" /\ job'.plan = "TP" /\ job'.level = job.status.level + 1
    BY <2>2, DecideFacts
  <2>4. job.status.level \in Nat
    BY StatusFacts DEF TypeOK, Jobs
  <2>5. FreshAbove(status.level)'
    BY <1>1, <1>2, <2>1 DEF FreshAbove
  <2>6. job'.plan = "TP" => FreshAbove(job.level - 1)'
    <3>. SUFFICES ASSUME job'.plan = "TP" PROVE FreshAbove(job.level - 1)'
      OBVIOUS
    <3>1. job'.level - 1 = job.status.level
      BY <2>3, <2>4
    <3>2. \A m \in 1 .. Levels : m > job.status.level => taken'[m] <= lost'
      BY <1>1, <2>1 DEF FreshAbove
    <3>. QED
      BY <3>1, <3>2 DEF FreshAbove
  <2>. QED
    BY <2>3, <2>5, <2>6 DEF JobIsAhead
<1>. QED
  BY <1>3, <1>4

LEMMA BackToRest ==
    ASSUME JobIsAhead, job.step # "record", job'.step \in {"idle", "rest"},
           status' = status, taken' = taken, lost' = lost
    PROVE  JobIsAhead'
  BY DEF JobIsAhead, FreshAbove

LEMMA QuietAhead ==
    ASSUME TypeOK, JobIsAhead,
           (\E commits \in BOOLEAN : CycleEnds(commits)) \/ Busy \/ Refused
    PROVE  JobIsAhead'
<1>1. job.step # "record" /\ status' = status /\ taken' = taken /\ lost' = lost
  BY DEF CycleEnds, Busy, Refused, row, ghost
<1>2. job'.step \in {"idle", "rest"}
  <2>1. job \in Jobs
    BY DEF TypeOK
  <2>. QED
    BY <2>1, Defaults, RestingTyped DEF CycleEnds, Busy, Refused
<1>. QED
  BY <1>1, <1>2, BackToRest

LEMMA MarkAhead == TypeOK /\ JobIsAhead /\ Mark => JobIsAhead'
<1>. SUFFICES ASSUME TypeOK, JobIsAhead, Mark PROVE JobIsAhead'
  OBVIOUS
<1>1. lost' = lost /\ lost \in Nat
  BY DEF Mark, TypeOK
<1>2. CASE Write(Plain("STOPPING"))
  BY <1>1, <1>2, PlainNotDone, WritesPlain
<1>3. CASE Keeps
  <2>1. job'.step = "place" /\ job'.plan = job.plan /\ job'.level = job.level
    BY DEF Mark, IdleJob
  <2>2. status' = status /\ taken' = taken
    BY <1>3 DEF Keeps
  <2>3. job.step = "close"
    BY DEF Mark
  <2>. QED
    BY <1>1, <2>1, <2>2, <2>3 DEF JobIsAhead, FreshAbove
<1>. QED
  BY <1>2, <1>3 DEF Mark

LEMMA CountedGrows ==
    TypeOK /\ Planned => \A m \in 1 .. Levels :
        /\ Counted[m] \in Nat /\ Counted[m] <= taken[m] + 1
        /\ (job.plan = "TP" => m # job.level) => Counted[m] = taken[m]
<1>. SUFFICES ASSUME TypeOK, Planned, NEW m \in 1 .. Levels
              PROVE  /\ Counted[m] \in Nat /\ Counted[m] <= taken[m] + 1
                     /\ (job.plan = "TP" => m # job.level) => Counted[m] = taken[m]
  OBVIOUS
<1>1. taken \in [1 .. Levels -> Nat] /\ taken[m] \in Nat
  BY DEF TypeOK
<1>2. Counted[m] = IF job.plan = "TP" /\ m = job.level THEN taken[m] + 1 ELSE taken[m]
  BY <1>1 DEF Counted
<1>. QED
  BY <1>1, <1>2

LEMMA PlaceAhead == TypeOK /\ Planned /\ JobIsAhead /\ Place => JobIsAhead'
<1>. SUFFICES ASSUME TypeOK, Planned, JobIsAhead, Place PROVE JobIsAhead'
  OBVIOUS
<1>1. job'.step = "record" /\ job'.plan = job.plan /\ job'.level = job.level
  BY DEF Place, TypeOK, Jobs
<1>2. taken' = Counted /\ lost' = lost /\ job.step = "place"
  BY DEF Place, Trades
<1>3. ASSUME job.plan = "TP" PROVE FreshAbove(job.level)'
  <2>1. FreshAbove(job.level - 1) /\ job.level \in Nat
    BY <1>2, <1>3 DEF JobIsAhead, Planned
  <2>2. ASSUME NEW m \in 1 .. Levels, m > job.level PROVE Counted[m] <= lost
    <3>1. Counted[m] = taken[m]
      BY <2>1, <2>2, CountedGrows
    <3>2. taken[m] <= lost
      BY <2>1, <2>2 DEF FreshAbove
    <3>. QED
      BY <3>1, <3>2
  <2>. QED
    BY <1>1, <1>2, <2>2 DEF FreshAbove
<1>. QED
  BY <1>1, <1>3 DEF JobIsAhead

LEMMA UnansweredAhead == TypeOK /\ Planned /\ JobIsAhead /\ PlaceUnanswered => JobIsAhead'
<1>. SUFFICES ASSUME TypeOK, Planned, JobIsAhead, PlaceUnanswered PROVE JobIsAhead'
  OBVIOUS
<1>1. job'.step = "idle"
  BY Defaults DEF PlaceUnanswered
<1>2. taken' = Counted /\ lost' = lost + 1 /\ job.step = "place" /\ status' = status
  BY DEF PlaceUnanswered, Trades, row
<1>3. FreshAbove(status.level)
  BY <1>2 DEF JobIsAhead
<1>4. ASSUME NEW m \in 1 .. Levels, m > status.level PROVE Counted[m] <= lost + 1
  <2>1. taken[m] <= lost /\ taken[m] \in Nat /\ lost \in Nat
    BY <1>3, <1>4 DEF FreshAbove, TypeOK
  <2>2. Counted[m] <= taken[m] + 1 /\ Counted[m] \in Nat
    BY CountedGrows
  <2>. QED
    BY <2>1, <2>2
<1>5. FreshAbove(status.level)'
  BY <1>2, <1>4 DEF FreshAbove
<1>. QED
  BY <1>1, <1>5 DEF JobIsAhead

LEMMA RecordAhead == TypeOK /\ Planned /\ JobIsAhead /\ Record => JobIsAhead'
<1>. SUFFICES ASSUME TypeOK, Planned, JobIsAhead, Record PROVE JobIsAhead'
  OBVIOUS
<1>1. Write(Recorded) /\ lost' = lost /\ lost \in Nat /\ job.step = "record"
  BY DEF Record, Recorded, TypeOK
<1>2. CASE IsDone(Recorded)
  <2>1. job.plan = "TP" /\ Recorded.level = job.level
    BY <1>2, RecordedTyped
  <2>2. FreshAbove(job.level)
    BY <1>1, <2>1 DEF JobIsAhead
  <2>3. status'.level = job.level /\ taken' = taken
    BY <1>1, <1>2, <2>1 DEF Write
  <2>4. job'.step = "idle"
    BY Defaults DEF Record
  <2>5. FreshAbove(status.level)'
    BY <1>1, <2>2, <2>3 DEF FreshAbove
  <2>. QED
    BY <2>4, <2>5 DEF JobIsAhead
<1>3. CASE ~ IsDone(Recorded)
  BY <1>1, <1>3, WritesPlain
<1>. QED
  BY <1>2, <1>3

LEMMA FindsNothingAhead == TypeOK /\ FindsNothing => JobIsAhead'
<1>. SUFFICES ASSUME TypeOK, FindsNothing PROVE JobIsAhead'
  OBVIOUS
<1>1. Write(Plain("STOPPED")) /\ lost' \in Nat
  BY DEF FindsNothing, TypeOK
<1>. QED
  BY <1>1, PlainNotDone, WritesPlain

LEMMA StepAhead ==
    TypeOK /\ Planned /\ JobIsAhead /\ [Next]_vars => JobIsAhead'
<1>. SUFFICES ASSUME TypeOK, Planned, JobIsAhead, [Next]_vars PROVE JobIsAhead'
  OBVIOUS
<1>1. CASE Others
  BY <1>1, OthersAhead
<1>2. CASE \E roi \in Rois : Evaluate(roi)
  BY <1>2, EvaluateAhead
<1>3. CASE (\E commits \in BOOLEAN : CycleEnds(commits)) \/ Busy \/ Refused
  BY <1>3, QuietAhead
<1>4. CASE CycleLoads \/ FindsNothing \/ Mark \/ Place \/ PlaceUnanswered \/ Record
  BY <1>4, LoadAhead, FindsNothingAhead, MarkAhead, PlaceAhead, UnansweredAhead, RecordAhead
<1>5. CASE UNCHANGED vars
  <2>1. job' = job /\ status' = status /\ taken' = taken /\ lost' = lost
    BY <1>5 DEF vars, row, ghost
  <2>. QED
    BY <2>1, AheadKept
<1>. QED
  BY <1>1, <1>2, <1>3, <1>4, <1>5, Cases DEF Others

-----------------------------------------------------------------------------
(***************************************************************************)
(* The peak.                                                               *)
(***************************************************************************)
PeakIsHighest == forgot \/ top <= peak

LEMMA PeakKept ==
    ASSUME PeakIsHighest, peak' = peak, top' = top, forgot' = forgot
    PROVE  PeakIsHighest'
  BY DEF PeakIsHighest

LEMMA PeakDeleted ==
    ASSUME peak' = Lowest, top' = Lowest
    PROVE  PeakIsHighest'
  BY Constants DEF PeakIsHighest

LEMMA EvaluatePeak ==
    ASSUME TypeOK, PeakIsHighest, NEW roi \in Rois, Evaluate(roi)
    PROVE  PeakIsHighest'
<1>1. CASE ForceStop(roi)
  <2>1. peak' = peak /\ top' = top /\ forgot' = forgot
    BY <1>1 DEF ForceStop, ghost
  <2>. QED
    BY <2>1, PeakKept
<1>2. CASE ~ ForceStop(roi)
  <2>1. top' = Greater(top, roi)
    BY <1>2, EvaluateCases
  <2>2. \/ \E p \in Peaks : peak' = p /\ p >= peak /\ p >= roi /\ forgot' = forgot
        \/ forgot' = TRUE
    BY <1>2, EvaluateCases
  <2>3. CASE forgot' = TRUE
    BY <2>3 DEF PeakIsHighest
  <2>4. CASE \E p \in Peaks : peak' = p /\ p >= peak /\ p >= roi /\ forgot' = forgot
    <3>1. /\ peak' \in Int /\ peak \in Int /\ top \in Int /\ roi \in Int
          /\ peak' >= peak /\ peak' >= roi /\ forgot' = forgot
      BY <2>4, Constants DEF TypeOK, Peaks
    <3>. QED
      BY <2>1, <3>1 DEF PeakIsHighest, Greater
  <2>. QED
    BY <2>2, <2>3, <2>4
<1>. QED
  BY <1>1, <1>2

LEMMA RecordPeak == PeakIsHighest /\ Record => PeakIsHighest'
<1>. SUFFICES ASSUME PeakIsHighest, Record PROVE PeakIsHighest'
  OBVIOUS
<1>1. CASE IsFinal
  BY <1>1, PeakDeleted DEF Record
<1>2. CASE ~ IsFinal
  BY <1>2, PeakKept DEF Record
<1>. QED
  BY <1>1, <1>2

LEMMA OthersPeak ==
    ASSUME PeakIsHighest, Others
    PROVE  PeakIsHighest'
<1>1. CASE OwnerForgets
  BY <1>1, PeakDeleted DEF OwnerForgets
<1>2. CASE RedisLoses
  BY <1>2 DEF RedisLoses, PeakIsHighest
<1>3. CASE ~ OwnerForgets /\ ~ RedisLoses
  <2>1. peak' = peak /\ top' = top /\ forgot' = forgot
    BY <1>3 DEF Others, OwnerAdds, OwnerCommits, StageEnters, OwnerSetsTp1, OwnerClosesByHand,
                Deliver, Lose, ReconcileStops, ReconcileSyncs, ReconcileHandsOver, ghost
  <2>. QED
    BY <2>1, PeakKept
<1>. QED
  BY <1>1, <1>2, <1>3

LEMMA StepPeak == TypeOK /\ PeakIsHighest /\ [Next]_vars => PeakIsHighest'
<1>. SUFFICES ASSUME TypeOK, PeakIsHighest, [Next]_vars PROVE PeakIsHighest'
  OBVIOUS
<1>1. CASE Others
  BY <1>1, OthersPeak
<1>2. CASE \E roi \in Rois : Evaluate(roi)
  BY <1>2, EvaluatePeak
<1>3. CASE Record
  BY <1>3, RecordPeak
<1>4. CASE \/ \E commits \in BOOLEAN : CycleEnds(commits)
           \/ CycleLoads \/ Busy \/ FindsNothing \/ Mark \/ Place \/ PlaceUnanswered \/ Refused
           \/ UNCHANGED vars
  <2>1. peak' = peak /\ top' = top /\ forgot' = forgot
    BY <1>4 DEF CycleLoads, CycleEnds, Busy, FindsNothing, Mark, Place, PlaceUnanswered,
                Refused, ghost, vars
  <2>. QED
    BY <2>1, PeakKept
<1>. QED
  BY <1>1, <1>2, <1>3, <1>4, Cases DEF Others

-----------------------------------------------------------------------------
(***************************************************************************)
(* Theorems.                                                               *)
(***************************************************************************)
LEMMA TpInvParts == TpInv <=> TypeOK /\ Planned /\ JobIsAhead /\ PeakIsHighest
  BY DEF TpInv, PeakIsHighest

LEMMA InitTpInv == Init => TpInv
<1>. SUFFICES ASSUME Init PROVE TpInv
  OBVIOUS
<1>1. TypeOK
  BY InitTypeOK
<1>2. Planned
  BY Defaults DEF Init, Planned
<1>3. JobIsAhead
  <2>1. \A m \in 1 .. Levels : taken[m] <= lost
    BY DEF Init, NothingTaken
  <2>. QED
    BY <2>1 DEF JobIsAhead, FreshAbove
<1>4. PeakIsHighest
  BY Constants DEF Init, PeakIsHighest
<1>. QED
  BY <1>1, <1>2, <1>3, <1>4, TpInvParts

LEMMA StepTpInv == TpInv /\ [Next]_vars => TpInv'
<1>. SUFFICES ASSUME TpInv, [Next]_vars PROVE TpInv'
  OBVIOUS
<1>1. TypeOK /\ Planned /\ JobIsAhead /\ PeakIsHighest
  BY TpInvParts
<1>2. TypeOK' /\ Planned' /\ JobIsAhead' /\ PeakIsHighest'
  BY <1>1, StepTypeOK, StepAhead, StepPeak
<1>. QED
  BY <1>2 DEF TpInv, PeakIsHighest

(* The job knows what it is doing, its stale copy never puts it behind the *)
(* ladder, and the peak that Redis keeps is the highest ROI of any cycle:  *)
(* what run_tp_sl_once may rely on while everybody else writes the row.    *)
THEOREM TpInvariant == Spec => []TpInv
<1>1. Init => TpInv
  BY InitTpInv
<1>2. TpInv /\ [Next]_vars => TpInv'
  BY StepTpInv
<1>. QED
  BY <1>1, <1>2, PTL DEF Spec

(* The first order of a level finds it untaken, but for lost answers.      *)
LEMMA TakenOnce ==
    ASSUME TpInv, LevelsOnce, job.step = "place", NEW m \in 1 .. Levels
    PROVE  Counted[m] <= 1 + lost
<1>1. TypeOK /\ Planned /\ JobIsAhead
  BY TpInvParts
<1>2. Counted[m] \in Nat /\ Counted[m] <= taken[m] + 1 /\ taken[m] \in Nat /\ lost \in Nat
  BY <1>1, CountedGrows DEF TypeOK
<1>3. CASE job.plan = "TP" /\ m = job.level
  <2>1. FreshAbove(job.level - 1) /\ m > job.level - 1
    BY <1>1, <1>3 DEF JobIsAhead
  <2>2. taken[m] <= lost
    BY <2>1 DEF FreshAbove
  <2>. QED
    BY <1>2, <2>2
<1>4. CASE ~ (job.plan = "TP" /\ m = job.level)
  <2>1. Counted[m] = taken[m]
    BY <1>1, <1>4, CountedGrows
  <2>. QED
    BY <2>1 DEF LevelsOnce
<1>. QED
  BY <1>3, <1>4

LEMMA OnceKept ==
    ASSUME LevelsOnce, lost' = lost, lost \in Nat,
           taken' = taken \/ taken' = NothingTaken
    PROVE  LevelsOnce'
<1>1. CASE taken' = taken
  BY <1>1 DEF LevelsOnce
<1>2. CASE taken' = NothingTaken
  <2>1. \A n \in 1 .. Levels : taken'[n] = 0
    BY <1>2 DEF NothingTaken
  <2>2. 0 <= 1 + lost
    OBVIOUS
  <2>. QED
    BY <2>1, <2>2 DEF LevelsOnce
<1>. QED
  BY <1>1, <1>2

LEMMA WriteOnce ==
    ASSUME NEW s, Write(s) \/ Keeps
    PROVE  taken' = taken \/ taken' = NothingTaken
  BY DEF Write, Keeps

LEMMA StepOnce == TpInv /\ LevelsOnce /\ [Next]_vars => LevelsOnce'
<1>. SUFFICES ASSUME TpInv, LevelsOnce, [Next]_vars PROVE LevelsOnce'
  OBVIOUS
<1>1. TypeOK /\ Planned /\ lost \in Nat
  BY TpInvParts DEF TypeOK
<1>2. CASE Place \/ PlaceUnanswered
  <2>1. job.step = "place" /\ taken' = Counted /\ (lost' = lost \/ lost' = lost + 1)
    BY <1>2 DEF Place, PlaceUnanswered, Trades
  <2>2. \A m \in 1 .. Levels : Counted[m] <= 1 + lost /\ Counted[m] \in Nat
    BY <1>1, <2>1, TakenOnce, CountedGrows
  <2>. QED
    BY <1>1, <2>1, <2>2 DEF LevelsOnce
<1>3. CASE Others
  BY <1>1, <1>3, OthersWrites, OnceKept
<1>4. CASE \E roi \in Rois : Evaluate(roi)
  <2>1. taken' = taken /\ lost' = lost
    BY <1>1, <1>4, EvaluateCases DEF ForceStop, ghost
  <2>. QED
    BY <1>1, <2>1, OnceKept
<1>5. CASE FindsNothing \/ Mark \/ Record
  <2>1. lost' = lost
    BY <1>5 DEF FindsNothing, Mark, Record
  <2>2. taken' = taken \/ taken' = NothingTaken
    BY <1>5 DEF FindsNothing, Mark, Record, Write, Keeps
  <2>. QED
    BY <1>1, <2>1, <2>2, OnceKept
<1>6. CASE \/ \E commits \in BOOLEAN : CycleEnds(commits)
           \/ CycleLoads \/ Busy \/ Refused \/ UNCHANGED vars
  <2>1. taken' = taken /\ lost' = lost
    BY <1>6 DEF CycleLoads, CycleEnds, Busy, Refused, ghost, vars
  <2>. QED
    BY <1>1, <2>1, OnceKept
<1>. QED
  BY <1>2, <1>3, <1>4, <1>5, <1>6, Cases DEF Others

(* However stale the copy of the job is when it orders, no level of a      *)
(* ladder is taken twice, but for each answer of the exchange that was     *)
(* lost: _execute_take_profit writes TPn_DONE after the order only.        *)
THEOREM LevelsAreTakenOnce == Spec => []LevelsOnce
<1>1. Init => TpInv /\ LevelsOnce
  <2>1. Init => LevelsOnce
    BY DEF Init, LevelsOnce, NothingTaken
  <2>. QED
    BY <2>1, InitTpInv
<1>2. TpInv /\ LevelsOnce /\ [Next]_vars => (TpInv /\ LevelsOnce)'
  BY StepTpInv, StepOnce
<1>. QED
  BY <1>1, <1>2, PTL DEF Spec

LEMMA RetreatSeen ==
    ASSUME TpInv, NEW roi \in Rois, Evaluate(roi), Retreat(roi)
    PROVE  job'.plan = "TRAILING_TP" \/ forgot'
<1>1. TypeOK /\ PeakIsHighest
  BY TpInvParts
<1>2. /\ roi \in Int /\ top \in Int /\ peak \in Int /\ StopAt \in Int /\ Retrace \in Nat
      /\ StopAt < roi /\ roi <= top - Retrace
      /\ IsDone(job.status) /\ job.tp1 > 0
  BY <1>1, Constants DEF TypeOK, Peaks, Retreat
<1>3. ~ ForceStop(roi)
  BY <1>2 DEF ForceStop
<1>4. PICK c \in Jobs, p \in Peaks :
          /\ c.status = job.status /\ c.tp1 = job.tp1
          /\ Decide(c, roi, p)
          /\ forgot' = TRUE \/ (p >= peak /\ forgot' = forgot)
  BY <1>1, <1>3, EvaluateCases
<1>5. CASE forgot'
  BY <1>5
<1>6. CASE ~ forgot'
  <2>1. p >= peak /\ top <= peak /\ p \in Int
    BY <1>1, <1>4, <1>6, Constants DEF PeakIsHighest, Peaks
  <2>2. roi <= p - Retrace
    BY <1>2, <2>1
  <2>3. Retreats(c, roi, p)
    BY <1>2, <1>4, <2>2 DEF Retreats, Trailing
  <2>4. job' = Due(c, "TRAILING_TP", 0, c.qty)
    BY <1>4, <2>3 DEF Decide
  <2>5. c.qty \in Nat /\ 0 \in 0 .. Levels /\ "TRAILING_TP" \in Plans
    BY Constants DEF Jobs, Plans
  <2>. QED
    BY <2>4, <2>5, DueTyped
<1>. QED
  BY <1>5, <1>6

(* Once a level of the owner's ladder has been taken, a retreat from the   *)
(* highest ROI of all cycles closes the rest at the cycle that sees it,    *)
(* unless Redis lost the peak: evaluate_take_profit_level's first          *)
(* trailing branch with _update_peak_pnl.                                  *)
THEOREM RetreatsAreTaken == Spec => RetreatIsTaken
<1>1. TpInv /\ [Next]_vars =>
        [\A roi \in Rois :
            Evaluate(roi) /\ Retreat(roi) => job'.plan = "TRAILING_TP" \/ forgot']_vars
  BY RetreatSeen
<1>. QED
  BY <1>1, TpInvariant, PTL DEF Spec, RetreatIsTaken

-----------------------------------------------------------------------------
(***************************************************************************)
(* The levels implement TpLadder.                                          *)
(***************************************************************************)
(* The row is written once by a step, and with it the ladder goes on or    *)
(* begins again.                                                           *)
LEMMA LadderRests ==
    ASSUME lost' = lost, taken' = taken \/ taken' = NothingTaken
    PROVE  [Ladder!Next]_<<taken, lost>>
BY DEF Ladder!Next, Ladder!Restart, Ladder!Untaken, NothingTaken

(* What the job orders is the lowest level not yet taken, or no level.     *)
LEMMA TradesInTurn ==
    ASSUME TpInv, Place \/ PlaceUnanswered
    PROVE  [Ladder!Next]_<<taken, lost>>
<1>1. /\ TypeOK /\ Planned /\ JobIsAhead
      /\ job.step = "place" /\ taken' = Counted
      /\ lost' \in {lost, lost + 1}
  BY TpInvParts DEF Place, PlaceUnanswered, Trades
<1>2. CASE job.plan = "TP"
  <2>. DEFINE n == job.level
  <2>1. n \in 1 .. Levels /\ n \in Int /\ FreshAbove(n - 1)
    BY <1>1, <1>2 DEF Planned, JobIsAhead
  <2>2. taken' = [taken EXCEPT ![n] = @ + 1]
    BY <1>1, <1>2 DEF Counted
  <2>. HIDE DEF n
  <2>3. \A m \in n .. Levels : taken[m] <= lost
    <3>. SUFFICES ASSUME NEW m \in n .. Levels PROVE taken[m] <= lost
      OBVIOUS
    <3>1. m \in 1 .. Levels /\ m > n - 1
      BY <2>1, Constants
    <3>. QED
      BY <2>1, <3>1 DEF FreshAbove
  <2>. QED
    BY <1>1, <2>1, <2>2, <2>3 DEF Ladder!Next, Ladder!Take
<1>3. CASE job.plan # "TP"
  <2>1. taken' = taken
    BY <1>1, <1>3 DEF Counted
  <2>. QED
    BY <1>1, <2>1 DEF Ladder!Next, Ladder!Miss
<1>. QED
  BY <1>2, <1>3

LEMMA StepInTurn == TpInv /\ [Next]_vars => [Ladder!Next]_<<taken, lost>>
<1>. SUFFICES ASSUME TpInv, [Next]_vars PROVE [Ladder!Next]_<<taken, lost>>
  OBVIOUS
<1>1. TypeOK
  BY TpInvParts
<1>2. CASE Others
  BY <1>1, <1>2, OthersWrites, LadderRests
<1>3. CASE \E roi \in Rois : Evaluate(roi)
  <2>1. taken' = taken /\ lost' = lost
    BY <1>1, <1>3, EvaluateCases DEF ForceStop, ghost
  <2>. QED
    BY <2>1
<1>4. CASE FindsNothing \/ Mark \/ Record
  <2>1. lost' = lost
    BY <1>4 DEF FindsNothing, Mark, Record
  <2>2. taken' = taken \/ taken' = NothingTaken
    BY <1>4 DEF FindsNothing, Mark, Record, Write, Keeps
  <2>. QED
    BY <2>1, <2>2, LadderRests
<1>5. CASE \/ \E commits \in BOOLEAN : CycleEnds(commits)
           \/ CycleLoads \/ Busy \/ Refused \/ UNCHANGED vars
  <2>1. taken' = taken /\ lost' = lost
    BY <1>5 DEF CycleLoads, CycleEnds, Busy, Refused, ghost, vars
  <2>. QED
    BY <2>1
<1>. QED
  BY <1>2, <1>3, <1>4, <1>5, TradesInTurn, Cases DEF Others

(* The levels are taken in ascending order, each once per ladder but for   *)
(* lost answers, while the owner, the stage trigger, the stream and the    *)
(* reconcile job write the row that the job has read.                      *)
THEOREM ImplementsTpLadder == Spec => TakenInTurn
<1>1. Init => Ladder!Init
  BY DEF Init, Ladder!Init, Ladder!Untaken, NothingTaken
<1>2. TpInv /\ [Next]_vars => [Ladder!Next]_<<taken, lost>>
  BY StepInTurn
<1>. QED
  BY <1>1, <1>2, TpInvariant, PTL DEF Spec, TakenInTurn, Ladder!Spec

-----------------------------------------------------------------------------
(* What TpLadder promises is enough: of whatever implements it no level is *)
(* taken more often than once and once again for each lost answer.         *)
THEOREM LadderSuffices == TakenInTurn => []LevelsOnce
<1>. DEFINE Inv == taken \in [1 .. Levels -> Nat] /\ lost \in Nat /\ LevelsOnce
<1>1. Ladder!Init => Inv
  BY DEF Ladder!Init, Ladder!Untaken, LevelsOnce
<1>2. Inv /\ [Ladder!Next]_<<taken, lost>> => Inv'
  <2>. SUFFICES ASSUME Inv, [Ladder!Next]_<<taken, lost>> PROVE Inv'
    OBVIOUS
  <2>1. ASSUME NEW n \in 1 .. Levels, Ladder!Take(n) PROVE Inv'
    <3>1. taken[n] <= lost /\ lost' \in {lost, lost + 1} /\ taken' = [taken EXCEPT ![n] = @ + 1]
      BY <2>1, Constants DEF Ladder!Take
    <3>. QED
      BY <3>1 DEF LevelsOnce
  <2>2. CASE Ladder!Miss
    BY <2>2 DEF Ladder!Miss, LevelsOnce
  <2>3. CASE Ladder!Restart
    BY <2>3 DEF Ladder!Restart, Ladder!Untaken, LevelsOnce
  <2>4. CASE UNCHANGED <<taken, lost>>
    BY <2>4 DEF LevelsOnce
  <2>. QED
    BY <2>1, <2>2, <2>3, <2>4 DEF Ladder!Next
<1>. QED
  BY <1>1, <1>2, PTL DEF TakenInTurn, Ladder!Spec
=============================================================================
