------------------------- MODULE CloseLeaves_proofs -------------------------
(***************************************************************************)
(* Theorems about what a close leaves, in EmergencyClose: a partial close  *)
(* leaves its part and a strategy that lives, and a close that ends the    *)
(* strategy leaves no LIMIT entry.  EmergencyClose_proofs has the others.  *)
(***************************************************************************)
EXTENDS EmergencyClose_proofs

USE ActorAssumption, QuantityAssumption

(***************************************************************************)
(* The position after a partial close.                                     *)
(***************************************************************************)
(* One partial close that nobody disturbs, and whose query is answered.    *)
PartialOnly ==
    /\ Stops = {} /\ Plans \subseteq {"TRIM", "TP1"} /\ Cycles <= 1
    /\ 0 < Keep /\ Keep < Held /\ Resting = 0 /\ HandCloses = 0
    /\ "query" \notin Fails /\ ~ Late

Alive == {"STAGE1_OPEN", "TP1_DONE_PARTIAL"}

(* A caller closes no more than the part it was asked to.                  *)
Measured(c) ==
    /\ c.step \in {"idle", "enter", "query", "mark", "place", "verify", "retry",
                   "recheck", "post"}
    /\ c.step # "idle" => c.plan \in {"TRIM", "TP1"}
    /\ c.step \in {"enter", "query", "mark"} => 0 < c.req /\ c.req + Keep <= pos
    /\ c.step = "mark" => c.actual = pos
    /\ c.step = "place" => c.actual = pos
    /\ c.step \in {"place", "verify", "retry", "recheck"} => c.want + Keep <= c.actual
    /\ c.step = "retry" => c.retry + Keep <= pos

(* What the reconcile job has read is a strategy that lives.               *)
SeenAlive ==
    /\ recon.step \in {"loaded", "seen"} => recon.cached \in Alive
    /\ recon.step = "seen" => recon.pos >= Keep

(* Before the decision, the row says what the exchange holds.              *)
NotYet ==
    /\ At(Job, "idle") /\ stream = <<>>
    /\ qty = Held /\ pos = Held
    /\ recon.step = "seen" => recon.pos = Held

PartInv ==
    /\ status \in Alive /\ pos >= Keep /\ late = {}
    /\ Measured(call[Job])
    /\ SeenAlive
    /\ bounds.cycles = 0 => NotYet

LEMMA OnlyTheJob == PartialOnly => Actors = {Job} /\ NothingOpens
BY DEF PartialOnly, Actors, NothingOpens, Unasked

LEMMA AliveFacts ==
    Alive \cap (TERMINAL_STATUSES \cup {"STOPPING", MANUAL_CLEANUP_REQUIRED,
                                        "STAGE2_OPEN_PENDING"}) = {}
BY DEF Alive, TERMINAL_STATUSES, MANUAL_CLEANUP_REQUIRED

LEMMA InitPart ==
    ASSUME PartialOnly, Init
    PROVE  PartInv
<1>1. call[Job].step = "idle" /\ recon.step = "idle"
  BY DEF Init, Idle, Waiting, Actors
<1>2. /\ status = "STAGE1_OPEN" /\ qty = Held /\ pos = Held /\ pos >= Keep
      /\ late = {} /\ stream = <<>>
  BY DEF Init, PartialOnly
<1>3. Measured(call[Job]) /\ SeenAlive /\ NotYet
  BY <1>1, <1>2 DEF Measured, SeenAlive, NotYet, At
<1>. QED
  BY <1>2, <1>3 DEF PartInv, Alive

(* Where the job is after a step of its own. *)
LEMMA JobMoves ==
    ASSUME TypeOK, NEW c \in Calls, call' = [call EXCEPT ![Job] = c]
    PROVE  call'[Job] = c
BY DEF TypeOK, Actors

LEMMA MovedTo ==
    ASSUME TypeOK, NEW step \in Steps, NEW cached \in Copies, Move(Job, step, cached)
    PROVE  /\ call'[Job].step = step
           /\ call'[Job].plan = call[Job].plan /\ call'[Job].req = call[Job].req
           /\ call'[Job].actual = call[Job].actual /\ call'[Job].want = call[Job].want
           /\ call'[Job].retry = call[Job].retry
<1>. DEFINE c == [call[Job] EXCEPT !.step = step, !.cached = cached]
<1>1. call[Job] \in Calls /\ Job \in Actors
  BY DEF TypeOK, Actors
<1>2. /\ c.step = step /\ c.plan = call[Job].plan /\ c.req = call[Job].req
      /\ c.actual = call[Job].actual /\ c.want = call[Job].want
      /\ c.retry = call[Job].retry
  BY <1>1 DEF Calls
<1>3. call'[Job] = c
  BY <1>1 DEF Move, TypeOK
<1>. QED
  BY <1>2, <1>3

LEMMA LeftOrEnded ==
    ASSUME TypeOK, NEW cached \in Copies, Leave(Job, cached) \/ End(Job), PartInv,
           call[Job].step # "idle"
    PROVE  Measured(call[Job])'
<1>1. Job \in Actors /\ call[Job].plan \in {"TRIM", "TP1"}
  BY DEF Actors, PartInv, Measured
<1>2. CASE Leave(Job, cached)
  <2>1. /\ call'[Job].step = "post" /\ call'[Job].plan = call[Job].plan
    BY <1>1, <1>2 DEF Leave, TypeOK, Idle
  <2>. QED
    BY <1>1, <2>1 DEF Measured
<1>3. CASE End(Job)
  <2>1. call'[Job].step = "idle"
    BY <1>1, <1>3 DEF End, TypeOK, Idle
  <2>. QED
    BY <2>1 DEF Measured
<1>. QED
  BY <1>2, <1>3

(* A decision has been made: the start need not be remembered.             *)
LEMMA Decided ==
    ASSUME TypeOK, PartInv, ~ At(Job, "idle")
    PROVE  bounds.cycles # 0
BY DEF PartInv, NotYet

LEMMA DecidesPart ==
    ASSUME PartialOnly, TypeOK, PartInv, NEW plan \in Plans, JobDecides(plan)
    PROVE  PartInv'
<1>. DEFINE c == [Idle EXCEPT !.step = "enter", !.plan = plan,
                              !.cached = status, !.req = Amount(plan)]
<1>1. plan \in {"TRIM", "TP1"} /\ plan \in AllPlans
  BY DEF PartialOnly
<1>2. bounds.cycles = 0 /\ bounds'.cycles = 1
  BY DEF JobDecides, PartialOnly, TypeOK
<1>3. Amount(plan) \in Nat /\ 0 < Amount(plan) /\ Amount(plan) + Keep <= pos
  BY <1>1, <1>2 DEF PartInv, NotYet, Amount, Abs, PartialOnly
<1>4. c \in Calls
  BY <1>1, <1>3, CopyTyped DEF Idle, Calls, Steps
<1>5. c.step = "enter" /\ c.plan = plan /\ c.req = Amount(plan)
  BY DEF Idle
<1>6. call' = [call EXCEPT ![Job] = c]
  BY DEF JobDecides
<1>. HIDE DEF c
<1>7. Measured(call[Job])'
  BY <1>1, <1>3, <1>4, <1>5, <1>6, JobMoves DEF Measured, JobDecides
<1>. QED
  BY <1>1, <1>2, <1>7 DEF JobDecides, PartInv, SeenAlive, row

(* A step of the call that leaves row and exchange alone.                  *)
LEMMA CallsOn ==
    ASSUME TypeOK, PartInv, ~ At(Job, "idle"), Measured(call[Job])',
           status' \in Alive, pos' >= Keep, late' = {}, UNCHANGED <<recon, bounds>>
    PROVE  PartInv'
BY Decided DEF PartInv, SeenAlive

LEMMA EnterPart ==
    ASSUME PartialOnly, TypeOK, PartInv, Enter(Job)
    PROVE  PartInv'
<1>1. At(Job, "enter") /\ UNCHANGED <<status, pos, late, recon, bounds>>
  BY DEF Enter, row, exchange
<1>2. call[Job].cached \in Copies /\ Expired \in Copies
  BY DEF TypeOK, Calls, Actors, Copies
<1>3. Measured(call[Job])'
  <2>1. CASE lock = Nobody
    <3>1. Move(Job, "query", call[Job].cached)
      BY <2>1 DEF Enter
    <3>. QED
      BY <1>1, <1>2, <3>1, MovedTo DEF PartInv, Measured, At, Steps
  <2>2. CASE lock # Nobody
    BY <1>1, <1>2, <2>2, LeftOrEnded DEF Enter, At
  <2>. QED
    BY <2>1, <2>2
<1>. QED
  BY <1>1, <1>3, CallsOn DEF PartInv, At

LEMMA QueryPart ==
    ASSUME PartialOnly, TypeOK, PartInv, Query(Job)
    PROVE  PartInv'
<1>. DEFINE c == [call[Job] EXCEPT !.actual = pos, !.step = "mark"]
<1>1. At(Job, "query") /\ UNCHANGED <<status, pos, late, recon, bounds>>
  BY DEF Query, row, exchange
<1>2. call[Job] \in Calls /\ Job \in Actors /\ pos \in Nat /\ pos > 0
  BY DEF TypeOK, Actors, PartInv, PartialOnly
<1>3. Ask("query") = {pos} /\ pos # NoAnswer
  BY <1>2 DEF Ask, PartialOnly, NoAnswer
<1>4. call' = [call EXCEPT ![Job] = c]
  <2>1. PICK answer \in Ask("query") :
          LET actual == IF answer = NoAnswer THEN call[Job].req ELSE answer
          IN  call' = [call EXCEPT ![Job] =
                          [@ EXCEPT !.actual = actual,
                                    !.step = IF actual = 0 THEN "none" ELSE "mark"]]
    BY DEF Query
  <2>2. answer = pos /\ answer # NoAnswer /\ pos # 0
    BY <1>2, <1>3
  <2>. QED
    BY <2>1, <2>2
<1>5. c.step = "mark" /\ c.plan = call[Job].plan /\ c.req = call[Job].req /\ c.actual = pos
  BY <1>2 DEF Calls
<1>. HIDE DEF c
<1>6. call'[Job] = c
  BY <1>2, <1>4 DEF TypeOK
<1>7. Measured(call[Job])'
  BY <1>1, <1>5, <1>6 DEF Measured, PartInv, At
<1>. QED
  BY <1>1, <1>7, CallsOn DEF PartInv, At

LEMMA MarkPart ==
    ASSUME PartialOnly, TypeOK, PartInv, Mark(Job)
    PROVE  PartInv'
<1>. DEFINE w == Least(call[Job].req, call[Job].actual)
            c == [call[Job] EXCEPT !.want = w, !.req = 0, !.step = "place", !.cached = Expired]
<1>1. At(Job, "mark") /\ UNCHANGED <<pos, recon, bounds>>
  BY DEF Mark
<1>2. call[Job] \in Calls /\ Job \in Actors /\ pos \in Nat /\ Keep \in Nat /\ Keep > 0
  BY DEF TypeOK, Actors, PartialOnly
<1>3. call[Job].req \in Nat /\ call[Job].req + Keep <= pos /\ call[Job].actual = pos
  BY <1>1, <1>2 DEF PartInv, Measured, At, Calls
<1>4. ~ Ends(Job) /\ w = call[Job].req
  BY <1>2, <1>3 DEF Ends, Full, Least
<1>5. status' = status /\ late' = late
  BY <1>4 DEF Mark, CancelsOrders
<1>6. call' = [call EXCEPT ![Job] = c]
  BY DEF Mark
<1>7. c.step = "place" /\ c.plan = call[Job].plan /\ c.want = w /\ c.actual = pos
  BY <1>2, <1>3 DEF Calls
<1>. HIDE DEF c, w
<1>8. call'[Job] = c
  BY <1>2, <1>6 DEF TypeOK
<1>9. Measured(call[Job])'
  BY <1>1, <1>3, <1>4, <1>7, <1>8 DEF Measured, PartInv, At
<1>. QED
  BY <1>1, <1>5, <1>9, CallsOn DEF PartInv, At

LEMMA PlacePart ==
    ASSUME PartialOnly, TypeOK, PartInv, Place(Job)
    PROVE  PartInv'
<1>1. At(Job, "place") /\ UNCHANGED <<status, recon, bounds>>
  BY DEF Place, row
<1>2. PICK x \in 0 .. Least(call[Job].want, pos) : pos' = pos - x
  BY DEF Place
<1>3. late' = {}
  BY DEF Place, PartInv, PartialOnly
<1>4. call[Job].want \in Nat /\ pos \in Nat /\ Keep \in Nat
  BY DEF TypeOK, Calls, Actors
<1>5. call[Job].want + Keep <= call[Job].actual /\ call[Job].actual = pos
  BY <1>1 DEF PartInv, Measured, At
<1>6. pos' >= Keep
  BY <1>2, <1>4, <1>5 DEF Least
<1>7. Measured(call[Job])'
  BY <1>1, <1>5, MovedTo, CopyTyped DEF Place, PartInv, Measured, At, Steps
<1>. QED
  BY <1>1, <1>3, <1>6, <1>7, CallsOn DEF PartInv, At

LEMMA VerifyPart ==
    ASSUME PartialOnly, TypeOK, PartInv, Verify(Job)
    PROVE  PartInv'
<1>1. At(Job, "verify") /\ UNCHANGED <<status, pos, late, recon, bounds>>
  BY DEF Verify, row, exchange
<1>2. call[Job] \in Calls /\ Job \in Actors /\ pos \in Nat /\ Keep \in Nat
  BY DEF TypeOK, Actors
<1>3. PICK p \in Ask("verify") :
          IF p = NoAnswer \/ Successful(Job, p) \/ RetryQty(Job, p) <= 0
          THEN Leave(Job, status) /\ Release(Job)
          ELSE call' = [call EXCEPT ![Job] = [@ EXCEPT !.step = "retry", !.cached = Expired,
                                                       !.retry = RetryQty(Job, p)]]
  BY DEF Verify
<1>4. call[Job].want + Keep <= call[Job].actual
      /\ call[Job].want \in Nat /\ call[Job].actual \in Nat
  BY <1>1, <1>2 DEF PartInv, Measured, At, Calls
<1>5. CASE p = NoAnswer \/ Successful(Job, p) \/ RetryQty(Job, p) <= 0
  BY <1>1, <1>3, <1>5, LeftOrEnded, CopyTyped, CallsOn DEF At, PartInv
<1>6. CASE ~ (p = NoAnswer \/ Successful(Job, p) \/ RetryQty(Job, p) <= 0)
  <2>. DEFINE r == RetryQty(Job, p)
              c == [call[Job] EXCEPT !.step = "retry", !.cached = Expired, !.retry = r]
  <2>1. p = pos
    BY <1>6, AskTyped
  <2>2. r + Keep <= pos
    BY <1>2, <1>4, <1>6, <2>1 DEF RetryQty, Least
  <2>3. call' = [call EXCEPT ![Job] = c]
    BY <1>3, <1>6
  <2>4. /\ c.step = "retry" /\ c.retry = r /\ c.plan = call[Job].plan
        /\ c.want = call[Job].want /\ c.actual = call[Job].actual
    BY <1>2 DEF Calls
  <2>. HIDE DEF c, r
  <2>5. call'[Job] = c
    BY <1>2, <2>3 DEF TypeOK
  <2>6. Measured(call[Job])'
    BY <1>1, <1>4, <2>2, <2>4, <2>5 DEF Measured, PartInv, At
  <2>. QED
    BY <1>1, <2>6, CallsOn DEF PartInv, At
<1>. QED
  BY <1>5, <1>6

LEMMA RetryPart ==
    ASSUME PartialOnly, TypeOK, PartInv, Retry(Job)
    PROVE  PartInv'
<1>1. At(Job, "retry") /\ UNCHANGED <<status, recon, bounds>>
  BY DEF Retry, row
<1>2. PICK x \in 0 .. Least(call[Job].retry, pos) : pos' = pos - x
  BY DEF Retry
<1>3. late' = {}
  BY DEF Retry, PartInv, PartialOnly
<1>4. call[Job].retry \in Nat /\ pos \in Nat /\ Keep \in Nat
  BY DEF TypeOK, Calls, Actors
<1>5. pos' >= Keep
  BY <1>1, <1>2, <1>4 DEF Least, PartInv, Measured, At
<1>6. Measured(call[Job])'
  BY <1>1, MovedTo, CopyTyped DEF Retry, PartInv, Measured, At, Steps
<1>. QED
  BY <1>1, <1>3, <1>5, <1>6, CallsOn DEF PartInv, At

(* After the retry: a partial close that failed is reported only.          *)
LEMMA EndsPart ==
    ASSUME PartialOnly, TypeOK, PartInv, Recheck(Job) \/ RetryFails(Job) \/ PlaceFails(Job)
    PROVE  PartInv'
<1>1. call[Job].step # "idle" /\ UNCHANGED <<pos, late, recon, bounds>>
  BY DEF Recheck, RetryFails, PlaceFails, At, row, exchange
<1>2. call[Job].want \in Nat /\ call[Job].actual \in Nat /\ Keep \in Nat /\ Keep > 0
  BY DEF TypeOK, Calls, Actors, PartialOnly
<1>3. status' = status
  BY <1>2 DEF Recheck, RetryFails, PlaceFails, GivesUp, row, At, PartInv, Measured
<1>4. Measured(call[Job])'
  BY <1>1, LeftOrEnded, CopyTyped DEF Recheck, RetryFails, PlaceFails
<1>. QED
  BY <1>1, <1>3, <1>4, CallsOn DEF PartInv, At

LEMMA PostPart ==
    ASSUME PartialOnly, TypeOK, PartInv, Post(Job)
    PROVE  PartInv'
<1>1. At(Job, "post") /\ UNCHANGED <<pos, late, recon, bounds>>
  BY DEF Post, exchange
<1>2. call[Job].plan \in {"TRIM", "TP1"}
  BY <1>1 DEF PartInv, Measured, At
<1>3. status' \in Alive /\ End(Job)
  BY <1>2 DEF Post, Alive, PartInv
<1>4. Measured(call[Job])'
  BY <1>1, <1>3, LeftOrEnded, CopyTyped DEF At
<1>. QED
  BY <1>1, <1>3, <1>4, CallsOn DEF PartInv, At

LEMMA CallStepPart ==
    ASSUME PartialOnly, TypeOK, PartInv, NEW a \in Actors, CallStep(a)
    PROVE  PartInv'
<1>1. a = Job
  BY OnlyTheJob
<1>2. ~ NoPosition(Job) /\ ~ MarkReentryReady(Job) /\ ~ PlaceLimit(Job)
  BY DEF NoPosition, MarkReentryReady, PlaceLimit, At, PartInv, Measured, PartialOnly
<1>. QED
  BY <1>1, <1>2, EnterPart, QueryPart, MarkPart, PlacePart, VerifyPart, RetryPart,
     EndsPart, PostPart DEF CallStep

(* The position is not touched, and the strategy stays as it is. *)
LEMMA Beside ==
    ASSUME TypeOK, PartInv, UNCHANGED <<status, pos, late, call, bounds>>,
           bounds.cycles = 0 => stream' = <<>> /\ qty' = Held,
           SeenAlive', recon'.step = "seen" => recon'.pos = pos \/ recon' = recon
    PROVE  PartInv'
BY DEF PartInv, Measured, NotYet, At

LEMMA DeliverPart ==
    ASSUME PartialOnly, TypeOK, CloseInv, PartInv, Deliver
    PROVE  PartInv'
<1>. DEFINE e == Head(stream)
<1>1. e.type # "ENTRY"
  BY TailSafe DEF Deliver
<1>2. AccountUpdate(e) \/ ExitFilled(e)
  BY <1>1 DEF Deliver, EntryFilled
<1>3. bounds.cycles # 0
  BY DEF Deliver, PartInv, NotYet
<1>. HIDE DEF e
<1>4. pos \in Nat /\ pos > 0
  BY DEF TypeOK, PartInv, PartialOnly
<1>5. status' = status
  <2>1. CASE AccountUpdate(e)
    BY <2>1 DEF AccountUpdate
  <2>2. CASE ExitFilled(e)
    <3>1. PICK p \in Ask("stream") : FlatExit(e, p) \/ UNCHANGED status
      BY <2>2 DEF ExitFilled
    <3>2. p # 0
      BY <1>4, AskTyped
    <3>. QED
      BY <3>1, <3>2 DEF FlatExit, SeenEmpty
  <2>. QED
    BY <1>2, <2>1, <2>2
<1>. QED
  BY <1>3, <1>5, Beside DEF Deliver, PartInv, SeenAlive

LEMMA ReconcilePart ==
    ASSUME PartialOnly, TypeOK, PartInv, Reconcile
    PROVE  PartInv'
<1>1. recon \in Passes /\ pos \in Nat /\ pos > 0 /\ Keep \in Nat /\ Keep > 0
  BY DEF TypeOK, PartInv, PartialOnly
<1>2. CASE ReconcileLoads
  <2>1. qty' = qty /\ UNCHANGED <<status, exchange, call, bounds>>
    BY <1>2, AliveFacts DEF ReconcileLoads, EnforcedQty, PartInv
  <2>2. recon' = recon \/ (recon'.step = "loaded" /\ recon'.cached = status)
    BY <1>1, <1>2 DEF ReconcileLoads, Passes
  <2>3. SeenAlive'
    BY <2>2 DEF PartInv, SeenAlive
  <2>. QED
    BY <2>1, <2>2, <2>3, Beside DEF exchange, PartInv, NotYet
<1>3. CASE ReconcileAsks
  <2>1. PICK p \in Ask("reconcile"), listed \in Listed :
          recon' = IF p = NoAnswer
                   THEN [Waiting EXCEPT !.step = "stuck"]
                   ELSE [recon EXCEPT !.step = "seen", !.pos = p, !.listed = listed]
    BY <1>3 DEF ReconcileAsks
  <2>2. \/ recon'.step = "stuck"
        \/ recon'.step = "seen" /\ recon'.pos = pos /\ recon'.cached = recon.cached
    BY <1>1, <2>1, AskTyped DEF Passes, Waiting
  <2>3. SeenAlive'
    BY <1>3, <2>2 DEF PartInv, SeenAlive, ReconcileAsks, exchange
  <2>. QED
    BY <1>3, <2>2, <2>3, Beside DEF ReconcileAsks, row, exchange, PartInv, NotYet
<1>4. CASE ReconcileCommits
  <2>1. recon.step = "seen" /\ recon.cached \in Alive /\ recon.pos >= Keep
    BY <1>4 DEF ReconcileCommits, PartInv, SeenAlive
  <2>2. ReconcileSyncs
    BY <1>1, <1>4, <2>1 DEF ReconcileCommits, ReconcileStops, Passes
  <2>3. status' = status
    BY <2>1, <2>2, AliveFacts DEF ReconcileSyncs
  <2>4. recon'.step = "stuck"
    BY <1>4 DEF ReconcileCommits, Waiting
  <2>5. bounds.cycles = 0 => qty' = Held
    BY <2>1, <2>2 DEF ReconcileSyncs, PartInv, NotYet
  <2>6. SeenAlive'
    BY <2>4 DEF SeenAlive
  <2>. QED
    BY <1>4, <2>2, <2>3, <2>4, <2>5, <2>6, Beside
       DEF ReconcileCommits, ReconcileSyncs, PartInv, NotYet
<1>5. CASE DetectStuck
  <2>1. status' = status
    BY <1>5, AliveFacts DEF DetectStuck, PartInv
  <2>2. recon'.step = "idle"
    BY <1>5 DEF DetectStuck, Waiting
  <2>3. SeenAlive'
    BY <2>2 DEF SeenAlive
  <2>. QED
    BY <1>5, <2>1, <2>2, <2>3, Beside DEF DetectStuck, exchange, PartInv, NotYet
<1>. QED
  BY <1>2, <1>3, <1>4, <1>5 DEF Reconcile

LEMMA StepPart ==
    ASSUME PartialOnly, TypeOK, CloseInv, PartInv, [Next]_vars
    PROVE  PartInv'
<1>1. CASE \E plan \in Plans : JobDecides(plan)
  BY <1>1, DecidesPart
<1>2. CASE \E s \in Stops, mode \in {"close", "cancel_only"} : StopBegins(s, mode)
  BY <1>2 DEF PartialOnly
<1>3. CASE \E a \in Actors : CallStep(a)
  BY <1>3, CallStepPart
<1>4. CASE \E o \in late : LateDies(o) \/ \E x \in 1 .. o.qty : LateFill(o, x)
  BY <1>4 DEF PartInv
<1>5. CASE EntryFills
  BY <1>5 DEF EntryFills, CloseInv
<1>6. CASE OwnerTrades
  BY <1>6 DEF OwnerTrades, PartialOnly, TypeOK
<1>7. CASE Acknowledge
  BY <1>7, AliveFacts DEF Acknowledge, PartInv
<1>8. CASE Deliver
  BY <1>8, DeliverPart
<1>9. CASE LoseEvent
  BY <1>9, Beside DEF LoseEvent, row, PartInv, NotYet, SeenAlive
<1>10. CASE Reconcile
  BY <1>10, ReconcilePart
<1>11. CASE LockExpires \/ UNCHANGED vars
  BY <1>11, Beside DEF LockExpires, vars, row, exchange, PartInv, NotYet, SeenAlive
<1>. QED
  BY <1>1, <1>2, <1>3, <1>4, <1>5, <1>6, <1>7, <1>8, <1>9, <1>10, <1>11 DEF Next

LEMMA PartAlways ==
    ASSUME PartialOnly
    PROVE  Spec => []PartInv
<1>1. NothingOpens
  BY OnlyTheJob
<1>2. Spec => []TypeOK /\ []CloseInv
  BY <1>1, TypeCorrect, CloseIsSafe DEF NothingOpens
<1>. QED
  BY <1>2, InitPart, StepPart, PTL DEF Spec

(* A partial close, verified and tried again, leaves what it was to leave. *)
THEOREM ThePartIsLeft ==
    ASSUME PartialOnly
    PROVE  Spec => []PartialCloseKeepsRest
<1>1. PartInv => PartialCloseKeepsRest
  BY DEF PartInv, PartialCloseKeepsRest
<1>. QED
  BY <1>1, PartAlways, PTL

(* And no fill of its own, and no pass of the reconcile job, ends the      *)
(* strategy.                                                               *)
THEOREM TheStrategyLives ==
    ASSUME PartialOnly
    PROVE  Spec => []PartialCloseKeepsTheStrategy
<1>1. PartInv => PartialCloseKeepsTheStrategy
  BY AliveFacts DEF PartInv, PartialCloseKeepsTheStrategy
<1>. QED
  BY <1>1, PartAlways, PTL

(***************************************************************************)
(* The LIMIT entry after a close.                                          *)
(***************************************************************************)
(* Whoever closes on its own asks for everything, an order is cancelled    *)
(* when that is asked for, and the exchange lists the symbol.              *)
CancelsFirst ==
    /\ Plans \subseteq {"TP_FINAL", "SL", "FORCE_SL"}
    /\ "cancel" \notin Fails /\ FALSE \notin Listed

Open == {"STAGE2_OPEN_PENDING", "STAGE2_OPEN"}

(* A caller that has placed nothing yet and has asked for all there is.    *)
AsksForAll(c) ==
    /\ c.step \in {"idle", "enter", "query", "none", "mark", "done"}
    /\ c.plan # "TRIM"
    /\ c.step \in {"enter", "query"} => c.req >= pos
    /\ c.step = "mark" => c.req >= c.actual

NoneBelow(events) ==
    \A k \in 1 .. Len(events) : events[k].type = "ACCOUNT" /\ events[k].amt >= pos

(* As long as the LIMIT entry rests, the strategy is open, nobody has      *)
(* placed a close, and nobody knows of less than the exchange holds.       *)
Untouched ==
    /\ status \in Open
    /\ qty >= pos
    /\ late = {} /\ NoneBelow(stream)
    /\ \A a \in Actors : AsksForAll(call[a])
    /\ recon.step = "seen" => recon.pos >= pos /\ recon.listed

RestInv == limit > 0 => Untouched

LEMMA OpenFacts ==
    Open \cap (TERMINAL_STATUSES \cup {"STOPPING", MANUAL_CLEANUP_REQUIRED}) = {}
BY DEF Open, TERMINAL_STATUSES, MANUAL_CLEANUP_REQUIRED

LEMMA InitRest ==
    ASSUME CancelsFirst, Init
    PROVE  RestInv
<1>. SUFFICES ASSUME limit > 0 PROVE Untouched
  BY DEF RestInv
<1>1. status = "STAGE2_OPEN_PENDING" /\ qty = Held /\ pos = Held
      /\ late = {} /\ stream = <<>> /\ recon.step = "idle"
  BY DEF Init, Waiting
<1>2. \A a \in Actors : AsksForAll(call[a])
  BY DEF Init, AsksForAll, Idle
<1>. QED
  BY <1>1, <1>2, Quantities DEF Untouched, Open, NoneBelow

LEMMA CancelWorks ==
    ASSUME CancelsFirst, CancelAll \/ AllCancelled
    PROVE  limit' = 0
BY DEF CancelsFirst, CancelAll, AllCancelled

(* Where the order still rests and only one caller has moved. *)
LEMMA OneAsks ==
    ASSUME TypeOK, Untouched, NEW a \in Actors, NEW c, AsksForAll(c),
           call' = [call EXCEPT ![a] = c],
           UNCHANGED <<row, pos, late, stream, recon>>
    PROVE  Untouched'
<1>1. \A b \in Actors : AsksForAll(call[b])'
  <2>. SUFFICES ASSUME NEW b \in Actors PROVE AsksForAll(call[b])'
    OBVIOUS
  <2>1. call'[b] = IF b = a THEN c ELSE call[b]
    BY DEF TypeOK
  <2>. QED
    BY <2>1 DEF Untouched, AsksForAll
<1>. QED
  BY <1>1 DEF Untouched, NoneBelow, row

LEMMA DecidesRest ==
    ASSUME CancelsFirst, TypeOK, Untouched, NEW plan \in Plans, JobDecides(plan), limit' > 0
    PROVE  Untouched'
<1>. DEFINE c == [Idle EXCEPT !.step = "enter", !.plan = plan,
                              !.cached = status, !.req = Amount(plan)]
<1>1. plan \in {"TP_FINAL", "SL"} /\ UNCHANGED <<limit, late>>
  <2>1. ~ CancelAll
    BY CancelWorks
  <2>. QED
    BY <2>1 DEF JobDecides, CancelsFirst
<1>2. Amount(plan) = Abs(qty)
  BY <1>1 DEF Amount
<1>3. Abs(qty) >= pos
  BY DEF Abs, TypeOK, Untouched
<1>4. c.step = "enter" /\ c.plan = plan /\ c.req = Amount(plan)
  BY DEF Idle
<1>5. call' = [call EXCEPT ![Job] = c] /\ Job \in Actors
  BY DEF JobDecides, Actors
<1>. HIDE DEF c
<1>6. AsksForAll(c)
  BY <1>1, <1>2, <1>3, <1>4 DEF AsksForAll
<1>. QED
  BY <1>1, <1>5, <1>6, OneAsks DEF JobDecides

LEMMA EnterRest ==
    ASSUME TypeOK, Untouched, NEW a \in Actors, Enter(a)
    PROVE  Untouched'
<1>1. call[a] \in Calls /\ AsksForAll(call[a]) /\ call[a].step = "enter"
  BY DEF TypeOK, Untouched, Enter, At
<1>2. UNCHANGED <<row, pos, late, stream, recon>>
  BY DEF Enter, exchange
<1>3. CASE lock = Nobody
  <2>. DEFINE c == [call[a] EXCEPT !.step = "query", !.cached = call[a].cached]
  <2>1. call' = [call EXCEPT ![a] = c]
    BY <1>3 DEF Enter, Move
  <2>2. c.step = "query" /\ c.plan = call[a].plan /\ c.req = call[a].req
    BY <1>1 DEF Calls
  <2>. HIDE DEF c
  <2>3. AsksForAll(c)
    BY <1>1, <2>2 DEF AsksForAll
  <2>. QED
    BY <1>2, <2>1, <2>3, OneAsks
<1>4. CASE lock # Nobody
  <2>. DEFINE c == [Idle EXCEPT !.step = IF a = Job THEN "idle" ELSE "done"]
  <2>1. call' = [call EXCEPT ![a] = c]
    BY <1>4 DEF Enter, End
  <2>2. c.step \in {"idle", "done"} /\ c.plan = "STOP"
    BY DEF Idle
  <2>. HIDE DEF c
  <2>3. AsksForAll(c)
    BY <2>2 DEF AsksForAll
  <2>. QED
    BY <1>2, <2>1, <2>3, OneAsks
<1>. QED
  BY <1>3, <1>4

LEMMA QueryRest ==
    ASSUME TypeOK, Untouched, NEW a \in Actors, Query(a)
    PROVE  Untouched'
<1>1. PICK answer \in Ask("query") :
          LET actual == IF answer = NoAnswer THEN call[a].req ELSE answer
          IN  call' = [call EXCEPT ![a] =
                          [@ EXCEPT !.actual = actual,
                                    !.step = IF actual = 0 THEN "none" ELSE "mark"]]
  BY DEF Query
<1>. DEFINE actual == IF answer = NoAnswer THEN call[a].req ELSE answer
            c == [call[a] EXCEPT !.actual = actual,
                                 !.step = IF actual = 0 THEN "none" ELSE "mark"]
<1>2. call[a] \in Calls /\ AsksForAll(call[a]) /\ call[a].req >= pos
      /\ call[a].req \in Nat
  BY DEF TypeOK, Untouched, Query, At, AsksForAll, Calls
<1>3. actual <= call[a].req /\ actual \in Int
  BY <1>2, AskTyped DEF TypeOK
<1>4. /\ c.step = IF actual = 0 THEN "none" ELSE "mark"
      /\ c.plan = call[a].plan /\ c.req = call[a].req /\ c.actual = actual
  BY <1>2 DEF Calls
<1>5. call' = [call EXCEPT ![a] = c]
  BY <1>1
<1>. HIDE DEF c, actual
<1>6. AsksForAll(c)
  BY <1>2, <1>3, <1>4 DEF AsksForAll
<1>. QED
  BY <1>5, <1>6, OneAsks DEF Query, exchange

(* A close that asks for everything cancels the order first.               *)
LEMMA MarkCancels ==
    ASSUME CancelsFirst, TypeOK, Untouched, NEW a \in Actors, Mark(a)
    PROVE  limit' = 0
<1>1. AsksForAll(call[a]) /\ call[a].step = "mark"
  BY DEF Untouched, Mark, At
<1>2. Ends(a)
  BY <1>1 DEF Ends, Full, AsksForAll
<1>. QED
  BY <1>2, CancelWorks DEF Mark, CancelsOrders

LEMMA CallStepRest ==
    ASSUME CancelsFirst, TypeOK, Untouched, NEW a \in Actors, CallStep(a), limit' > 0
    PROVE  Untouched'
<1>1. call[a].step \in {"idle", "enter", "query", "none", "mark", "done"}
  BY DEF Untouched, AsksForAll
<1>2. ~ NoPosition(a) /\ ~ Mark(a)
  BY CancelWorks, MarkCancels DEF NoPosition
<1>3. Enter(a) \/ Query(a)
  BY <1>1, <1>2 DEF CallStep, Place, PlaceFails, PlaceLimit, Verify, Retry, RetryFails,
     Recheck, Post, MarkReentryReady, At
<1>. QED
  BY <1>3, EnterRest, QueryRest

LEMMA OwnerTradesRest ==
    ASSUME TypeOK, Untouched, OwnerTrades
    PROVE  Untouched'
<1>1. PICK x \in 1 .. pos : pos' = pos - x /\ stream' = stream \o Moved(x)
  BY DEF OwnerTrades
<1>2. pos' \in Nat /\ pos' <= pos /\ pos \in Nat /\ qty \in Int /\ x \in 0 .. pos
      /\ recon \in Passes
  BY <1>1 DEF TypeOK
<1>3. NoneBelow(stream)'
  <2>1. stream \in Seq(Events) /\ [type |-> "ACCOUNT", amt |-> pos - x] \in Events
    BY <1>1, <1>2 DEF TypeOK, Events
  <2>2. stream' = Append(stream, [type |-> "ACCOUNT", amt |-> pos - x])
    BY <1>1, <1>2, <2>1 DEF Moved
  <2>3. \A k \in 1 .. Len(stream) : stream[k] \in Events /\ stream[k].type = "ACCOUNT"
                                     /\ stream[k].amt >= pos
    BY <2>1 DEF Untouched, NoneBelow
  <2>4. \A k \in 1 .. Len(stream) : stream[k].amt \in Nat
    BY <2>3 DEF Events
  <2>5. Len(stream') = Len(stream) + 1
        /\ \A k \in 1 .. Len(stream') :
              stream'[k] = IF k <= Len(stream) THEN stream[k]
                           ELSE [type |-> "ACCOUNT", amt |-> pos - x]
    BY <2>1, <2>2
  <2>. SUFFICES ASSUME NEW k \in 1 .. Len(stream')
                PROVE  stream'[k].type = "ACCOUNT" /\ stream'[k].amt >= pos'
    BY DEF NoneBelow
  <2>6. CASE k <= Len(stream)
    <3>1. k \in 1 .. Len(stream) /\ stream'[k] = stream[k]
      BY <2>1, <2>5, <2>6
    <3>. QED
      BY <1>2, <2>3, <2>4, <3>1
  <2>7. CASE ~ k <= Len(stream)
    BY <1>1, <1>2, <2>5, <2>7
  <2>. QED
    BY <2>6, <2>7
<1>4. \A a \in Actors : AsksForAll(call[a])'
  <2>. SUFFICES ASSUME NEW a \in Actors PROVE AsksForAll(call[a])'
    OBVIOUS
  <2>1. call' = call /\ AsksForAll(call[a]) /\ call[a] \in Calls /\ call[a].req \in Nat
    BY DEF OwnerTrades, Untouched, TypeOK, Calls
  <2>. QED
    BY <1>2, <2>1 DEF AsksForAll
<1>5. recon'.step = "seen" => recon'.pos >= pos' /\ recon'.listed
  BY <1>2 DEF OwnerTrades, Untouched, Passes
<1>. QED
  BY <1>2, <1>3, <1>4, <1>5 DEF OwnerTrades, Untouched, row

LEMMA DeliverRest ==
    ASSUME TypeOK, Untouched, Deliver \/ LoseEvent
    PROVE  Untouched'
<1>1. stream # <<>> /\ stream' = Tail(stream) /\ stream \in Seq(Events)
  BY DEF Deliver, LoseEvent, TypeOK
<1>2. Head(stream).type = "ACCOUNT" /\ Head(stream).amt >= pos
  BY <1>1 DEF Untouched, NoneBelow
<1>3. \A k \in 1 .. Len(stream') : k + 1 \in 1 .. Len(stream) /\ stream'[k] = stream[k + 1]
  BY <1>1
<1>4. NoneBelow(stream)'
  BY <1>3 DEF Untouched, NoneBelow, Deliver, LoseEvent
<1>5. status' = status /\ qty' >= pos
  BY <1>2 DEF Deliver, LoseEvent, AccountUpdate, EntryFilled, ExitFilled, row, Untouched
<1>. QED
  BY <1>4, <1>5 DEF Deliver, LoseEvent, Untouched, AsksForAll

LEMMA ReconcileRest ==
    ASSUME CancelsFirst, TypeOK, Untouched, Reconcile, limit' > 0
    PROVE  Untouched'
<1>1. recon \in Passes /\ UNCHANGED <<pos, stream, call>>
  BY DEF TypeOK, Reconcile, ReconcileLoads, ReconcileAsks, ReconcileCommits, DetectStuck,
     exchange
<1>2. CASE ReconcileLoads
  <2>1. qty' = qty /\ UNCHANGED <<status, late>>
    BY <1>2, OpenFacts DEF ReconcileLoads, EnforcedQty, Untouched, exchange
  <2>2. recon' = recon \/ recon'.step = "loaded"
    BY <1>1, <1>2 DEF ReconcileLoads, Passes
  <2>. QED
    BY <1>1, <2>1, <2>2 DEF Untouched, AsksForAll, NoneBelow
<1>3. CASE ReconcileAsks
  <2>1. PICK p \in Ask("reconcile"), listed \in Listed :
          recon' = IF p = NoAnswer
                   THEN [Waiting EXCEPT !.step = "stuck"]
                   ELSE [recon EXCEPT !.step = "seen", !.pos = p, !.listed = listed]
    BY <1>3 DEF ReconcileAsks
  <2>2. listed = TRUE
    BY DEF CancelsFirst
  <2>3. recon'.step = "seen" => recon'.pos >= pos /\ recon'.listed
    BY <1>1, <2>1, <2>2, AskTyped DEF Passes, Waiting, TypeOK
  <2>. QED
    BY <1>1, <1>3, <2>3 DEF ReconcileAsks, row, exchange, Untouched, AsksForAll, NoneBelow
<1>4. CASE ReconcileCommits
  <2>1. recon.pos >= pos /\ recon.listed /\ recon'.step = "stuck"
    BY <1>4 DEF ReconcileCommits, Untouched, Waiting
  <2>2. ~ ReconcileStops
    BY <2>1, CancelWorks DEF ReconcileStops
  <2>3. qty' >= pos /\ late' = late /\ status' \in Open
    BY <1>4, <2>1, <2>2 DEF ReconcileCommits, ReconcileSyncs, Untouched, Open
  <2>. QED
    BY <1>1, <2>1, <2>3 DEF Untouched, AsksForAll, NoneBelow
<1>5. CASE DetectStuck
  <2>1. status' = status /\ recon'.step = "idle"
    BY <1>5, OpenFacts DEF DetectStuck, Untouched, Waiting
  <2>. QED
    BY <1>1, <1>5, <2>1 DEF DetectStuck, Untouched, AsksForAll, NoneBelow, exchange
<1>. QED
  BY <1>2, <1>3, <1>4, <1>5 DEF Reconcile

(* An order that rests now has rested before: none is ever added.          *)
LEMMA RestedBefore ==
    ASSUME TypeOK, [Next]_vars, limit' > 0
    PROVE  limit > 0
<1>1. limit' = limit \/ limit' = 0
  <2>1. ASSUME NEW a \in Actors, CallStep(a)
        PROVE  limit' = limit \/ limit' = 0
    BY <2>1 DEF CallStep, Enter, Query, NoPosition, Mark, CancelsOrders, Place, PlaceFails,
       PlaceLimit, Verify, Retry, RetryFails, Recheck, Post, MarkReentryReady, CancelAll,
       AllCancelled, exchange
  <2>2. CASE Reconcile
    BY <2>2 DEF Reconcile, ReconcileLoads, ReconcileAsks, ReconcileCommits, ReconcileStops,
       ReconcileSyncs, DetectStuck, CancelAll, AllCancelled, exchange
  <2>3. CASE \/ \E plan \in Plans : JobDecides(plan)
             \/ \E s \in Stops, mode \in {"close", "cancel_only"} : StopBegins(s, mode)
    BY <2>3 DEF JobDecides, StopBegins, CancelAll, AllCancelled
  <2>4. CASE \/ LockExpires
             \/ \E o \in late : LateDies(o) \/ \E x \in 1 .. o.qty : LateFill(o, x)
             \/ EntryFills \/ OwnerTrades \/ Acknowledge \/ Deliver \/ LoseEvent
             \/ UNCHANGED vars
    BY <2>4 DEF LockExpires, LateDies, LateFill, EntryFills, OwnerTrades, Acknowledge,
       Deliver, LoseEvent, vars, exchange
  <2>. QED
    BY <2>1, <2>2, <2>3, <2>4 DEF Next
<1>. QED
  BY <1>1

LEMMA StepRest ==
    ASSUME CancelsFirst, TypeOK, RestInv, [Next]_vars
    PROVE  RestInv'
<1>. SUFFICES ASSUME limit' > 0 PROVE Untouched'
  BY DEF RestInv
<1>1. limit > 0 /\ Untouched
  BY RestedBefore DEF RestInv
<1>2. CASE \E plan \in Plans : JobDecides(plan)
  BY <1>1, <1>2, DecidesRest
<1>3. CASE \E s \in Stops, mode \in {"close", "cancel_only"} : StopBegins(s, mode)
  BY <1>3, CancelWorks DEF StopBegins
<1>4. CASE \E a \in Actors : CallStep(a)
  BY <1>1, <1>4, CallStepRest
<1>5. CASE \E o \in late : LateDies(o) \/ \E x \in 1 .. o.qty : LateFill(o, x)
  BY <1>1, <1>5 DEF Untouched
<1>6. CASE EntryFills
  BY <1>6 DEF EntryFills
<1>7. CASE OwnerTrades
  BY <1>1, <1>7, OwnerTradesRest
<1>8. CASE Acknowledge
  BY <1>1, <1>8, OpenFacts DEF Acknowledge, Untouched
<1>9. CASE Deliver \/ LoseEvent
  BY <1>1, <1>9, DeliverRest
<1>10. CASE Reconcile
  BY <1>1, <1>10, ReconcileRest
<1>11. CASE LockExpires \/ UNCHANGED vars
  BY <1>1, <1>11 DEF LockExpires, vars, row, exchange, Untouched, AsksForAll, NoneBelow
<1>. QED
  BY <1>2, <1>3, <1>4, <1>5, <1>6, <1>7, <1>8, <1>9, <1>10, <1>11 DEF Next

(* A strategy that has ended has no LIMIT entry resting, whoever closed it *)
(* and however its queries failed.                                         *)
THEOREM NoEntryOutlives ==
    ASSUME CancelsFirst
    PROVE  Spec => []NoZombieEntry
<1>1. TypeOK /\ RestInv => NoZombieEntry
  BY OpenFacts DEF TypeOK, RestInv, Untouched, NoZombieEntry
<1>2. TypeOK /\ RestInv /\ [Next]_vars => RestInv'
  BY StepRest
<1>. QED
  BY <1>1, <1>2, InitRest, TypeCorrect, PTL DEF Spec
=============================================================================
