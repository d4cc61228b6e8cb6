----------------------------- MODULE StageEntry -----------------------------
(***************************************************************************)
(* The stage ladder of one strategy: who places the entry order of a       *)
(* stage, and what becomes of the status, the current stage and the plan.  *)
(*                                                                         *)
(* Stage 1 is started by a request or an entry job (start_stage1), later   *)
(* stages by the stage trigger job (trigger_next_stage) or by the owner    *)
(* who asks for the next stage at market (enter_stage_at_market).  Each    *)
(* asks the exchange several things, may first trim the position, places   *)
(* the order, and only then writes the stage and STAGEn_OPEN_PENDING.      *)
(* The user stream and the reconcile job turn a pending stage into an open *)
(* one; a stop request cancels, closes and writes STOPPING.                *)
(*                                                                         *)
(* Only the owner's requests claim a stage (is_triggered) before they act. *)
(***************************************************************************)
EXTENDS Integers, Sequences, FiniteSets

CONSTANTS
    Starts,         \* start requests, or entry jobs, for stage 1
    Clicks,         \* requests of the owner to enter the next stage now
    Stops,          \* stop requests
    Job,            \* the stage trigger job
    Last,           \* number of stages of the template
    Modes,          \* trigger modes, a subset of AllModes
    Lots,           \* what an entry adds to the position
    Keep,           \* what a trim leaves of it (10 USDT)
    Budgets,        \* bounds: clicks, stops, passes of the job, events lost, and
                    \* answers to an accepted order lost; one of them is chosen
    Together,       \* whether a click may overlap with a start or the job
    TrimOn,         \* whether the position is trimmed before a stage
    Partial         \* whether a trim may close less than was asked

AllModes == {"PRICE", "OBV"}

Lefts    == [clicks : Nat, stops : Nat, passes : Nat, losses : Nat, unanswered : Nat]

ASSUME ActorAssumption ==
    /\ Job \notin Starts \cup Clicks \cup Stops
    /\ Starts \cap Clicks = {} /\ Starts \cap Stops = {} /\ Clicks \cap Stops = {}

ASSUME NumberAssumption ==
    /\ Last \in Nat \ {0} /\ Lots \in Nat
    /\ Budgets \subseteq Lefts
    /\ Keep \in Nat \ {0}
    /\ Modes \subseteq AllModes
    /\ {Together, TrimOn, Partial} \subseteq BOOLEAN

Placers   == Starts \cup Clicks \cup {Job}
Unclaimed == Starts \cup {Job}
Actors    == Placers \cup Stops
Stages    == 1 .. Last

VARIABLES
    status,         \* strategy_instances.status
    stage, qty,     \* current_stage and current_position_qty
    triggered,      \* is_triggered of each stage's plan
    mode,           \* how the template triggers stages
    pos,            \* external: the position
    orders,         \* entry orders accepted by the exchange, and their rows
    stream,         \* external: user stream events on their way
    call,           \* the actors: where they are and what they remember
    recon,          \* the status the reconcile job has loaded, if it is at work
    left            \* what is left of the budget

row  == <<status, stage, qty, triggered>>
vars == <<row, mode, pos, orders, stream, call, recon, left>>

Open(n)    == [kind |-> "OPEN", stage |-> n]
Pending(n) == [kind |-> "PENDING", stage |-> n]
Plain(k)   == [kind |-> k, stage |-> 0]

PlainKinds == {"WAITING", "STOPPING", "STOPPED", "REENTRY_READY", "MANUAL_CLEANUP_REQUIRED"}
STATUSES   == {Open(n) : n \in Stages} \cup {Pending(n) : n \in Stages}
                  \cup {Plain(k) : k \in PlainKinds}

TERMINAL_STATUSES == {Plain("STOPPED"), Plain("REENTRY_READY")}
ENDING            == TERMINAL_STATUSES \cup {Plain("STOPPING"), Plain("MANUAL_CLEANUP_REQUIRED")}

(* The job looks at these (STAGES_WITH_NEXT). *)
ACTIVE_STAGE_STATUSES == {Open(n) : n \in 1 .. Last - 1} \cup {Pending(n) : n \in 1 .. Last - 1}

Row   == [status |-> status, stage |-> stage, qty |-> qty]
Idle  == [step |-> "idle", target |-> 0, seen |-> 0, copy |-> [status |-> Plain("WAITING"), stage |-> 0, qty |-> 0]]
NoJob == Plain("OFF")

Init ==
    /\ status = Plain("WAITING") /\ stage = 0 /\ qty = 0
    /\ triggered = [n \in Stages |-> FALSE]
    /\ mode \in Modes
    /\ pos = 0 /\ orders = <<>> /\ stream = <<>>
    /\ call = [a \in Actors |-> Idle]
    /\ recon = NoJob
    /\ left \in Budgets

Spend(what)      == left[what] > 0 /\ left' = [left EXCEPT ![what] = @ - 1]
At(a, step)      == call[a].step = step
Move(a, step)    == call' = [call EXCEPT ![a].step = step]
Resting          == {i \in DOMAIN orders : orders[i].state = "RESTING"}
Executed(n)      == \E i \in DOMAIN orders : orders[i].stage = n /\ orders[i].state = "FILLED"
AllCancelled     == orders' = [i \in DOMAIN orders |->
                        IF i \in Resting THEN [orders[i] EXCEPT !.state = "CANCELED"] ELSE orders[i]]
AsTold(x, y)     == x                        \* bug: closes what it was asked
Least(x, y)      == IF x < y THEN x ELSE y
Active(a)        == ~ At(a, "idle") /\ ~ At(a, "done")

(* What is assumed of the owner unless Together: a click and an unclaimed  *)
(* entry are not at work on this strategy at the same time, nor are two    *)
(* unclaimed ones.  Nothing in the code sees to it.                        *)
Free(a) == \/ Together
           \/ \A b \in Placers \ {a} : (a \in Unclaimed \/ b \in Unclaimed) => ~ Active(b)

(* An actor ends: the job waits for its next pass. *)
Ended(a) == [Idle EXCEPT !.step = IF a = Job THEN "idle" ELSE "done"]

-----------------------------------------------------------------------------
(***************************************************************************)
(* The start of stage 1, the job's pass and the owner's click, up to the   *)
(* trim.                                                                   *)
(***************************************************************************)
StartBegins(s) ==
    /\ At(s, "idle") /\ Free(s)
    /\ status = Plain("WAITING")
    /\ call' = [call EXCEPT ![s].step = "gates", ![s].target = 1]
    /\ UNCHANGED <<row, mode, pos, orders, stream, recon, left>>

(* The rows are read once, at the start of the pass. *)
JobLoads ==
    /\ At(Job, "idle") /\ Free(Job)
    /\ status \in ACTIVE_STAGE_STATUSES
    /\ call' = [call EXCEPT ![Job].step = "loaded", ![Job].copy = Row]
    /\ Spend("passes")
    /\ UNCHANGED <<row, mode, pos, orders, stream, recon>>

(* Bug: a pending stage 1 without a position is not passed over. *)
EagerMayEnter(c, n) ==
    /\ n <= Last
    /\ ~ triggered[n]
    /\ mode = "OBV" /\ n > 1 => triggered[n - 1]

(* A pending stage 1 that has bought nothing waits; so does a stage whose  *)
(* plan is triggered; by OBV the stage before must have been triggered.    *)
MayEnter(c, n) ==
    /\ n <= Last
    /\ ~ (c.status.kind = "PENDING" /\ c.qty = 0)
    /\ ~ triggered[n]
    /\ mode = "OBV" /\ n > 1 => triggered[n - 1]

(* The copy is loaded again if an earlier strategy of the pass committed.  *)
JobPicks(c) ==
    /\ At(Job, "loaded")
    /\ c \in {call[Job].copy, Row}
    /\ MayEnter(c, c.stage + 1)
    /\ call' = [call EXCEPT ![Job] = [Idle EXCEPT !.step = "gates", !.target = c.stage + 1]]
    /\ UNCHANGED <<row, mode, pos, orders, stream, recon, left>>

(* Nothing to enter, no signal, no price, no capital, a cooldown, a ban.   *)
JobWaits ==
    /\ At(Job, "loaded")
    /\ call' = [call EXCEPT ![Job] = Idle]
    /\ UNCHANGED <<row, mode, pos, orders, stream, recon, left>>

(* An entry order of the stage that rests refuses the click. *)
ClickReads(c) ==
    /\ At(c, "idle") /\ Free(c)
    /\ status \notin TERMINAL_STATUSES
    /\ stage + 1 <= Last
    /\ ~ \E i \in Resting : orders[i].known /\ orders[i].stage = stage + 1
    /\ call' = [call EXCEPT ![c].step = "read", ![c].target = stage + 1]
    /\ Spend("clicks")
    /\ UNCHANGED <<row, mode, pos, orders, stream, recon>>

(* Bug: the claim does not look whether it is taken. *)
BlindClickClaims(c) ==
    /\ At(c, "read")
    /\ triggered' = [triggered EXCEPT ![call[c].target] = TRUE]
    /\ Move(c, "claimed")
    /\ UNCHANGED <<status, stage, qty, mode, pos, orders, stream, recon, left>>

(* UPDATE ... SET is_triggered WHERE NOT is_triggered, committed. *)
ClickClaims(c) ==
    /\ At(c, "read")
    /\ IF triggered[call[c].target]
         THEN /\ call' = [call EXCEPT ![c] = Ended(c)]
              /\ UNCHANGED triggered
         ELSE /\ triggered' = [triggered EXCEPT ![call[c].target] = TRUE]
              /\ Move(c, "claimed")
    /\ UNCHANGED <<status, stage, qty, mode, pos, orders, stream, recon, left>>

(* The claim's commit expired the copy: the status is read again. *)
ClickEnters(c) ==
    /\ At(c, "claimed")
    /\ status \notin ENDING
    /\ Move(c, "gates")
    /\ UNCHANGED <<row, mode, pos, orders, stream, recon, left>>

(* What a failed entry leaves: a failed start stops the strategy, a failed *)
(* click gives its claim back.                                             *)
FailedStatus(a, s) == IF a \in Starts THEN Plain("STOPPED") ELSE s
KeptClaim(a)       == triggered             \* bug: a failed click keeps its claim
FailedClaim(a)     == IF a \in Clicks THEN [triggered EXCEPT ![call[a].target] = FALSE]
                                      ELSE triggered

(* Before the order: a kill switch, a halt, a gate, margin, a query.       *)
Fails(a) ==
    /\ \E step \in {"claimed", "gates", "trim", "place"} : At(a, step)
    /\ status' = FailedStatus(a, status)
    /\ triggered' = FailedClaim(a)
    /\ call' = [call EXCEPT ![a] = Ended(a)]
    /\ UNCHANGED <<stage, qty, mode, pos, orders, stream, recon, left>>

-----------------------------------------------------------------------------
(***************************************************************************)
(* The trim before a stage, and the order.                                 *)
(***************************************************************************)
LateTrims(a) == TrimOn /\ call[a].target > 2      \* bug: off by one
Trims(a) == TrimOn /\ call[a].target > 1

(* In profit nothing is trimmed: the job does not enter (Fails), the       *)
(* owner's click does.                                                     *)
TrimAsks(a) ==
    /\ At(a, "gates")
    /\ \/ /\ Trims(a) /\ pos > Keep
          /\ call' = [call EXCEPT ![a].step = "trim", ![a].seen = pos]
       \/ /\ ~ Trims(a) \/ pos <= Keep \/ a \in Clicks
          /\ Move(a, "place")
    /\ UNCHANGED <<row, mode, pos, orders, stream, recon, left>>

(* emergency_close_position finds nothing to close: it stops the strategy, *)
(* and the entry fails.                                                    *)
TrimFindsNothing(a) ==
    /\ At(a, "trim")
    /\ pos = 0
    /\ status' = Plain("STOPPED") /\ qty' = 0
    /\ triggered' = FailedClaim(a)
    /\ AllCancelled
    /\ call' = [call EXCEPT ![a] = Ended(a)]
    /\ UNCHANGED <<stage, mode, pos, stream, recon, left>>

(* It closes x of what was asked, or all if there is less; a close of all  *)
(* that did not happen is handed to the owner, any other only reported.    *)
TrimCloses(a) ==
    /\ At(a, "trim")
    /\ pos > 0
    /\ LET asked == Least(call[a].seen - Keep, pos) IN
         \E x \in (IF Partial THEN 0 .. asked ELSE {asked}) :
           /\ pos' = pos - x
           /\ stream' = IF x = 0 THEN stream ELSE Append(stream, [type |-> "EXIT", order |-> 0])
           /\ status' = IF asked = pos /\ x < asked THEN Plain("MANUAL_CLEANUP_REQUIRED") ELSE status
    /\ call' = [call EXCEPT ![a].step = "place", ![a].seen = 0]
    /\ UNCHANGED <<stage, qty, triggered, mode, orders, recon, left>>

OrderTypes(a) == IF a \in Clicks \/ (a = Job /\ mode = "OBV") THEN {"MARKET"} ELSE {"LIMIT", "MARKET"}

(* A market order fills when it is accepted. *)
NewOrder(a, type, answered) ==
    [stage |-> call[a].target, by |-> a, type |-> type, answered |-> answered, known |-> FALSE,
     state |-> IF type = "MARKET" THEN "FILLED" ELSE "RESTING"]

Accepted(a, type, answered) ==
    /\ orders' = Append(orders, NewOrder(a, type, answered))
    /\ IF type = "MARKET"
         THEN /\ pos' = pos + Lots
              /\ stream' = Append(stream, [type |-> "ENTRY", order |-> Len(orders) + 1])
         ELSE UNCHANGED <<pos, stream>>

Places(a) ==
    /\ At(a, "place")
    /\ \E type \in OrderTypes(a) : Accepted(a, type, TRUE)
    /\ call' = [call EXCEPT ![a].step = "placed", ![a].seen = Len(orders) + 1]
    /\ UNCHANGED <<row, mode, recon, left>>

(* The exchange has the order, the caller an exception; no row is written. *)
PlacesUnanswered(a) ==
    /\ At(a, "place")
    /\ \E type \in OrderTypes(a) : Accepted(a, type, FALSE)
    /\ Spend("unanswered")
    /\ status' = FailedStatus(a, status)
    /\ triggered' = FailedClaim(a)
    /\ call' = [call EXCEPT ![a] = Ended(a)]
    /\ UNCHANGED <<stage, qty, mode, recon>>

Known(a) == [orders EXCEPT ![call[a].seen].known = TRUE]

(* A click commits the order's row before it looks whether the position    *)
(* has grown; so does a market order that sets the plan's price.           *)
CommitsRow(a) ==
    /\ At(a, "placed")
    /\ a \in Clicks \/ orders[call[a].seen].state = "FILLED"
    /\ orders' = Known(a)
    /\ Move(a, "written")
    /\ UNCHANGED <<row, mode, pos, stream, recon, left>>

(* The status is written whatever it has become meanwhile. *)
CommitsStage(a) ==
    /\ At(a, "written") \/ (At(a, "placed") /\ a \notin Clicks)
    /\ orders' = Known(a)
    /\ stage' = call[a].target
    /\ status' = Pending(call[a].target)
    /\ triggered' = IF a \in Clicks THEN [triggered EXCEPT ![call[a].target] = TRUE] ELSE triggered
    /\ call' = [call EXCEPT ![a] = Ended(a)]
    /\ UNCHANGED <<qty, mode, pos, stream, recon, left>>

-----------------------------------------------------------------------------
(***************************************************************************)
(* The stop request: cancel, close what the row says, write STOPPING.      *)
(***************************************************************************)
StopCancels(s) ==
    /\ At(s, "idle")
    /\ status \notin TERMINAL_STATUSES
    /\ AllCancelled
    /\ call' = [call EXCEPT ![s].step = IF qty = 0 THEN "last" ELSE "close", ![s].seen = qty]
    /\ Spend("stops")
    /\ UNCHANGED <<row, mode, pos, stream, recon>>

StopCloses(s) ==
    /\ At(s, "close")
    /\ IF pos = 0
         THEN /\ status' = Plain("STOPPED") /\ qty' = 0
              /\ AllCancelled
              /\ call' = [call EXCEPT ![s] = Ended(s)]
              /\ UNCHANGED <<pos, stream>>
         ELSE /\ IF call[s].seen >= pos
                   THEN /\ AllCancelled
                        /\ status' = IF status \in TERMINAL_STATUSES THEN status ELSE Plain("STOPPING")
                   ELSE UNCHANGED <<status, orders>>
              /\ pos' = pos - Least(call[s].seen, pos)
              /\ stream' = Append(stream, [type |-> "EXIT", order |-> 0])
              /\ call' = [call EXCEPT ![s].step = "last", ![s].seen = 0]
              /\ UNCHANGED qty
    /\ UNCHANGED <<stage, triggered, mode, recon, left>>

StopFinishes(s) ==
    /\ At(s, "last")
    /\ status' = Plain("STOPPING")
    /\ call' = [call EXCEPT ![s] = Ended(s)]
    /\ UNCHANGED <<stage, qty, triggered, mode, pos, orders, stream, recon, left>>

-----------------------------------------------------------------------------
(***************************************************************************)
(* The exchange and the user stream.                                       *)
(***************************************************************************)
LimitFills(i) ==
    /\ i \in Resting
    /\ orders' = [orders EXCEPT ![i].state = "FILLED"]
    /\ pos' = pos + Lots
    /\ stream' = Append(stream, [type |-> "ENTRY", order |-> i])
    /\ UNCHANGED <<row, mode, call, recon, left>>

(* The quantity comes from the account update and a query; an event whose  *)
(* order has no row changes nothing else.                                  *)
EntryFilled(i) ==
    /\ qty' = pos
    /\ IF orders[i].known
         THEN /\ status' = Open(orders[i].stage)
              /\ triggered' = [triggered EXCEPT ![orders[i].stage] = TRUE]
         ELSE UNCHANGED <<status, triggered>>

(* Only an exit after which the exchange has no position ends a strategy. *)
ExitFilled ==
    /\ qty' = pos
    /\ status' = IF pos > 0 THEN status
                 ELSE IF status = Plain("STOPPING") THEN Plain("STOPPED")
                 ELSE Plain("REENTRY_READY")
    /\ UNCHANGED triggered

Deliver ==
    /\ stream # <<>>
    /\ stream' = Tail(stream)
    /\ IF Head(stream).type = "ENTRY" THEN EntryFilled(Head(stream).order) ELSE ExitFilled
    /\ UNCHANGED <<stage, mode, pos, orders, call, recon, left>>

Lose ==
    /\ stream # <<>>
    /\ stream' = Tail(stream)
    /\ Spend("losses")
    /\ UNCHANGED <<row, mode, pos, orders, call, recon>>

(***************************************************************************)
(* The reconcile job: it loads the rows, asks the exchange, and writes a   *)
(* pending stage open if the plan is triggered or the stage has filled.    *)
(***************************************************************************)
ReconcileLoads ==
    /\ recon = NoJob
    /\ status.kind = "PENDING"
    /\ recon' = status
    /\ UNCHANGED <<row, mode, pos, orders, stream, call, left>>

(* Bugs: a position is evidence for every stage; the exchange is not asked. *)
AnyEvidence(n, asked) == TRUE
NoEvidence(n, asked)  == n = 1

(* Stage 1 needs no evidence beyond a position. *)
FillEvidence(n, asked) ==
    \/ n = 1
    \/ asked /\ \E i \in DOMAIN orders :
                    orders[i].known /\ orders[i].stage = n /\ orders[i].state = "FILLED"

ReconcileCommits(asked) ==
    /\ recon # NoJob
    /\ LET n == recon.stage IN
         IF pos > 0 /\ (triggered[n] \/ FillEvidence(n, asked))
           THEN /\ triggered' = [triggered EXCEPT ![n] = TRUE]
                /\ status' = Open(n)
           ELSE UNCHANGED <<status, triggered>>
    /\ qty' = pos
    /\ recon' = NoJob
    /\ UNCHANGED <<stage, mode, pos, orders, stream, call, left>>

Enters(a) ==
    \/ Fails(a) \/ TrimAsks(a) \/ TrimFindsNothing(a) \/ TrimCloses(a)
    \/ Places(a) \/ PlacesUnanswered(a) \/ CommitsRow(a) \/ CommitsStage(a)

Click(c) == ClickReads(c) \/ ClickClaims(c) \/ ClickEnters(c)
Stop(s)  == StopCancels(s) \/ StopCloses(s) \/ StopFinishes(s)

Next ==
    \/ \E s \in Starts : StartBegins(s)
    \/ JobLoads \/ JobWaits
    \/ \E c \in {call[Job].copy, Row} : JobPicks(c)
    \/ \E c \in Clicks : Click(c)
    \/ \E a \in Placers : Enters(a)
    \/ \E s \in Stops : Stop(s)
    \/ \E i \in DOMAIN orders : LimitFills(i)
    \/ Deliver \/ Lose
    \/ ReconcileLoads
    \/ \E asked \in BOOLEAN : ReconcileCommits(asked)

(* The reconcile job runs every two minutes, and some day its query for    *)
(* the order is answered.                                                  *)
Fairness == WF_vars(ReconcileLoads) /\ SF_vars(ReconcileCommits(TRUE))

Spec == Init /\ [][Next]_vars /\ Fairness

-----------------------------------------------------------------------------
Events == [type : {"ENTRY", "EXIT"}, order : Nat]
Orders == [stage : Stages, by : Placers, type : {"LIMIT", "MARKET"}, answered : BOOLEAN, known : BOOLEAN,
           state : {"RESTING", "FILLED", "CANCELED"}]
Steps  == {"idle", "loaded", "read", "claimed", "gates", "trim", "place", "placed",
           "written", "close", "last", "done"}
Copies == [status : STATUSES, stage : 0 .. Last, qty : Nat]
Calls  == [step : Steps, target : 0 .. Last, seen : Nat, copy : Copies]

(* The variables hold what their columns and messages can hold. *)
TypeOK ==
    /\ status \in STATUSES /\ stage \in 0 .. Last /\ qty \in Nat
    /\ triggered \in [Stages -> BOOLEAN]
    /\ mode \in Modes
    /\ pos \in Nat
    /\ orders \in Seq(Orders) /\ stream \in Seq(Events)
    /\ call \in [Actors -> Calls]
    /\ recon \in STATUSES \cup {NoJob}
    /\ left \in Lefts

(* A stage is entered once: two orders of one stage are on the exchange    *)
(* only if the answer to one was lost.  The claim of a click, its release  *)
(* and the current stage have to agree for this to hold, and an entry that *)
(* claims nothing must not overlap another.                                *)
StagePlacedOnce ==
    \A i, j \in DOMAIN orders :
        orders[i].answered /\ orders[j].answered /\ orders[i].stage = orders[j].stage => i = j

(* Clicks among themselves keep this whatever else is at work, a start or  *)
(* the job too: the claim is theirs alone, and only a click that has not   *)
(* ordered gives it back.                                                  *)
ByClick(i) == orders[i].answered /\ orders[i].by \in Clicks

ClicksBuyOnce ==
    \A i, j \in DOMAIN orders :
        ByClick(i) /\ ByClick(j) /\ orders[i].stage = orders[j].stage => i = j

(* So the stages are bought one after the other, and climbed as they were  *)
(* bought: the ladder implements StageLadder.                              *)
Confirmed == {[order |-> i, stage |-> orders[i].stage] :
                  i \in {j \in DOMAIN orders : orders[j].answered}}

Ladder == INSTANCE StageLadder WITH bought <- Confirmed

ClimbsTheLadder == Ladder!Spec

(* A stage marked as entered has been entered, or a click is at it: a      *)
(* failed click gives its claim back, and no stage of the ladder is lost.  *)
Sent(n) == \E i \in DOMAIN orders : orders[i].stage = n

NoStageIsLost ==
    \A n \in Stages : triggered[n] =>
        \/ Sent(n)
        \/ \E c \in Clicks : Active(c) /\ call[c].target = n

(* A stage above the first is called open only when its own order has      *)
(* filled, although every earlier stage keeps the position non-zero.       *)
OpenMeansFilled == \A n \in 2 .. Last : status = Open(n) => Executed(n)

(* What the ladder rests on when an unclaimed entry never overlaps with    *)
(* another one or a click: an actor at work holds the next stage, at most  *)
(* one click does, what is marked was bought or is held, and rows, events  *)
(* and copies speak of stages that were reached.                           *)
Busy       == {"claimed", "gates", "trim", "place", "placed", "written"}
Working(a) == call[a].step \in Busy
Ordered(a) == At(a, "placed") \/ At(a, "written")

TargetsAreStages ==
    \A a \in Placers : Working(a) \/ At(a, "read") => call[a].target \in Stages

Alone == \A a, b \in Placers : Active(a) /\ Active(b) => a = b \/ {a, b} \subseteq Clicks

NextStageOnly ==
    /\ \A a \in Placers : Working(a) => call[a].target = stage + 1
    /\ At(Job, "loaded") => call[Job].copy.stage = stage
    /\ status = Plain("WAITING") => stage = 0

OneHolder ==
    /\ \A c, d \in Clicks : Working(c) /\ Working(d) => c = d
    /\ \A c \in Clicks : Working(c) => triggered[call[c].target]
    /\ \A c \in Clicks : At(c, "read") =>
          /\ call[c].target <= stage + 1
          /\ call[c].target <= stage => triggered[call[c].target]

OrdersClimb ==
    /\ \A a \in Placers : Ordered(a) =>
          /\ call[a].seen \in DOMAIN orders
          /\ orders[call[a].seen].stage = call[a].target
          /\ a \in Clicks => orders[call[a].seen].state = "FILLED"
    /\ \A i \in DOMAIN orders : orders[i].answered =>
          orders[i].stage <= stage \/ \E a \in Placers : Ordered(a) /\ call[a].seen = i
    /\ \A n \in 1 .. stage : Sent(n)

MarkedIsBought ==
    \A n \in Stages : triggered[n] =>
        \/ \E c \in Clicks : Working(c) /\ call[c].target = n
        \/ IF n = 1 THEN Sent(n) ELSE Executed(n)

ReportsAreTrue ==
    /\ \A k \in DOMAIN stream : stream[k].type = "ENTRY" =>
          stream[k].order \in DOMAIN orders /\ orders[stream[k].order].state = "FILLED"
    /\ \A s \in {status, recon} : s.kind = "PENDING" => s.stage <= stage

EntryInv ==
    /\ Alone /\ NextStageOnly /\ OneHolder
    /\ OrdersClimb /\ MarkedIsBought /\ ReportsAreTrue

(* The job buys a further stage only on top of one that has bought: it     *)
(* passes over a pending stage 1 that has not filled, and in OBV mode over *)
(* any stage before the next that has not.  (A stop in the middle of the   *)
(* pass is not looked at again.)                                           *)
JobClimbsOnFills ==
    [][Places(Job) => LET n == call[Job].target IN
          /\ (\E m \in Stages : Executed(m)) \/ (\E s \in Stops : ~ At(s, "idle"))
          /\ mode = "OBV" /\ n > 2 => Executed(n - 1)]_vars

(* With the trim on, the job adds a stage to no more than what the trim    *)
(* leaves (Fix 304): entries at market never pile up.  (A limit entry may  *)
(* fill between the trim and the order.)                                   *)
AllMarket    == \A i \in DOMAIN orders : orders[i].type = "MARKET"
TrimmedFirst == [][Places(Job) /\ TrimOn /\ AllMarket => pos <= Keep]_vars

(* A pending stage whose order has filled does not stay pending, even if   *)
(* the stream's event is lost.  (An order without a row is no evidence.)   *)
Bought(n) == \E i \in DOMAIN orders :
                 orders[i].stage = n /\ orders[i].known /\ orders[i].state = "FILLED"

PendingResolves ==
    \A n \in Stages :
        (status = Pending(n) /\ pos > 0 /\ Bought(n)) ~> (status # Pending(n) \/ pos = 0)

(* The job and a click never enter the same stage: a limit order the job   *)
(* has placed would fill on top of the click's (control.py, fix v2, v3).   *)
NoDoubling ==
    \A i, j \in DOMAIN orders :
        orders[i].by = Job /\ orders[j].by \in Clicks => orders[i].stage # orders[j].stage

(* A click does not take a strategy that the owner has stopped back to a   *)
(* pending stage (execution_service.py, v127).                             *)
StopWins == [][\A c \in Clicks : CommitsStage(c) => status \notin ENDING]_vars
=============================================================================
