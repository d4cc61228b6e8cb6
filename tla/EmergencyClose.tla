--------------------------- MODULE EmergencyClose ---------------------------
(***************************************************************************)
(* Closing the position of one strategy.                                   *)
(*                                                                         *)
(* Whoever closes - the stop API, or the tp_sl job on a stop loss or a     *)
(* take profit - calls ExecutionService.emergency_close_position, which    *)
(* under a Redis lock asks the exchange for the position, marks the        *)
(* strategy, sends a market order, looks three seconds later whether the   *)
(* position shrank, tries once more ten seconds after that, and gives up.  *)
(* Then the caller writes a status of its own.  Meanwhile the user stream  *)
(* handles the fills, the reconcile job compares the strategy with the     *)
(* exchange, and the owner closes by hand or acknowledges a clean-up.      *)
(*                                                                         *)
(* A step is what the code does between two calls to the exchange, two     *)
(* commits or two sleeps.  Every caller works on its own ORM copy of the   *)
(* strategy: assigning the status the copy already has writes nothing.     *)
(***************************************************************************)
EXTENDS Integers, Sequences, FiniteSetsExt, StrategyStatus

CONSTANTS
    Stops,          \* stop requests of the owner, each handled once
    Job,            \* the tp_sl job
    Nobody,         \* the lock's value when it is free
    Plans,          \* what the job may decide, a subset of AllPlans
    Cycles,         \* bound: decisions of the job
    Held,           \* the position at the start
    Keep,           \* what a partial stop loss leaves (compute_trim)
    Resting,        \* quantity of a LIMIT entry order resting at the start
    AfterExit,      \* status after an unmarked full exit
    Patience,       \* reconcile cycles that STOPPING may last (five minutes)
    HandCloses,     \* bound: times the owner trades by hand
    Listed,         \* whether the exchange lists flat positions, a set
    Fails,          \* which calls may fail, a subset of AllFails
    Expires,        \* whether the lock's TTL may pass under its holder
    Late            \* whether an order may fill after it was looked at

AllPlans == {"TRIM", "TP1", "TP_FINAL", "FORCE_SL", "SL"}
AllFails == {"query", "verify", "stream", "reconcile", "ack", "cancel", "event"}

ASSUME ActorAssumption ==
    /\ Job \notin Stops
    /\ Nobody \notin Stops \cup {Job}
    /\ Plans \subseteq AllPlans
    /\ Fails \subseteq AllFails
    /\ Listed \subseteq BOOLEAN
    /\ {Expires, Late} \subseteq BOOLEAN

ASSUME QuantityAssumption ==
    /\ {Cycles, Held, Keep, Resting, Patience, HandCloses} \subseteq Nat
    /\ AfterExit \in {"REENTRY_READY", "LIQUIDATED_WAITING_RETRY"}

Actors   == Stops \cup {Job}
NoAnswer == -1          \* a position query that failed
Expired  == "EXPIRED"   \* an ORM copy to be loaded again when it is used

VARIABLES
    status, qty,    \* the row of strategy_instances
    pos,            \* external: the position on the exchange
    limit,          \* external: what rests of the LIMIT entry order
    entered,        \* external: whether that order has filled
    late,           \* external: accepted close orders not yet done
    stream,         \* external: user stream events on their way
    lock,           \* Redis: lock:strategy:{id}:emergency_close
    call,           \* the actors: where they are and what they remember
    recon,          \* the reconcile job: likewise
    since,          \* Redis: reconcile cycles since STOPPING was first seen
    blind,          \* an acknowledgement went through without an answer
    bounds          \* decisions and hand trades so far

row      == <<status, qty>>
exchange == <<pos, limit, entered, late, stream>>
vars     == <<row, exchange, lock, call, recon, since, blind, bounds>>

Idle == [step |-> "idle", plan |-> "STOP", cached |-> Expired,
         req |-> 0, actual |-> 0, want |-> 0, retry |-> 0]

Waiting == [step |-> "idle", cached |-> Expired, qty |-> 0, pos |-> 0, listed |-> TRUE]

Init ==
    /\ status = IF Resting > 0 THEN "STAGE2_OPEN_PENDING" ELSE "STAGE1_OPEN"
    /\ qty = Held /\ pos = Held /\ limit = Resting /\ entered = FALSE
    /\ late = {} /\ stream = <<>>
    /\ lock = Nobody
    /\ call = [a \in Actors |-> Idle]
    /\ recon = Waiting
    /\ since = 0 /\ blind = FALSE
    /\ bounds = [cycles |-> 0, hand |-> 0]

Least(x, y) == IF x < y THEN x ELSE y
Abs(x)      == IF x < 0 THEN - x ELSE x

(* The answers get_position_risk may give where it is called. *)
Ask(where) == {pos} \cup (IF where \in Fails THEN {NoAnswer} ELSE {})

(* cancel_all_orders: every LIMIT order of the symbol goes.  Its callers   *)
(* log a failure and go on, but for the stop API.                          *)
AllCancelled == /\ limit' = 0
                /\ late' = {o \in late : o.type = "MARKET"}
CancelAll == \/ AllCancelled
             \/ "cancel" \in Fails /\ UNCHANGED <<limit, late>>

(* The caller's ORM copy takes status s and is committed. *)
Store(a, s) == status' = IF call[a].cached = s THEN status ELSE s

At(a, step) == call[a].step = step

Move(a, step, cached) ==
    call' = [call EXCEPT ![a] = [@ EXCEPT !.step = step, !.cached = cached]]

(* A caller that has left emergency_close_position keeps only its plan and *)
(* its copy; one that has ended keeps nothing.                             *)
Leave(a, cached) ==
    call' = [call EXCEPT ![a] = [Idle EXCEPT !.step = "post", !.plan = call[a].plan,
                                             !.cached = cached]]

End(a) ==
    call' = [call EXCEPT ![a] = [Idle EXCEPT !.step = IF a = Job THEN "idle" ELSE "done"]]

Release(a) == lock' = IF lock = a THEN Nobody ELSE lock

(* The events of x units traded, and of x units of an order with a row.    *)
Moved(x)        == IF x = 0 THEN <<>> ELSE <<[type |-> "ACCOUNT", amt |-> pos - x]>>
Filled(x, done) == IF x = 0 THEN <<>>
                   ELSE <<[type |-> "EXIT", delta |-> x, done |-> done]>>

(***************************************************************************)
(* The callers decide.                                                     *)
(***************************************************************************)
Amount(plan) == CASE plan = "TRIM" -> Abs(qty) - Keep
                  [] plan = "TP1"  -> 1
                  [] OTHER         -> Abs(qty)

(* run_tp_sl_once and run_for_strategy: what is due for this strategy.     *)
Due(plan) ==
    /\ status \notin TERMINAL_STATUSES \cup {"STOPPING"}
    /\ qty # 0
    /\ plan = "TRIM" => Abs(qty) > Keep
    /\ plan = "TP1" => Abs(qty) > 1 /\ status \notin TpPartial

JobDecides(plan) ==
    /\ At(Job, "idle")
    /\ bounds.cycles < Cycles
    /\ Due(plan)
    /\ call' = [call EXCEPT ![Job] = [Idle EXCEPT !.step = "enter", !.plan = plan,
                                        !.cached = status, !.req = Amount(plan)]]
    /\ IF plan = "FORCE_SL" THEN CancelAll ELSE UNCHANGED <<limit, late>>
    /\ bounds' = [bounds EXCEPT !.cycles = @ + 1]
    /\ UNCHANGED <<row, pos, entered, stream, lock, recon, since, blind>>

(* stop_strategy: nothing to do in a terminal status.                      *)
StopBegins(s, mode) ==
    /\ At(s, "idle")
    /\ status \notin TERMINAL_STATUSES
    /\ AllCancelled
    /\ LET next == IF mode = "cancel_only" \/ qty = 0 THEN "post" ELSE "enter"
       IN  call' = [call EXCEPT ![s] = [Idle EXCEPT !.step = next, !.cached = status,
                                          !.req = Abs(qty)]]
    /\ UNCHANGED <<row, pos, entered, stream, lock, recon, since, blind, bounds>>

(***************************************************************************)
(* emergency_close_position.                                               *)
(***************************************************************************)
(* The lock is taken, or EmergencyCloseInProgress ends the caller. *)
Enter(a) ==
    /\ At(a, "enter")
    /\ IF lock = Nobody
       THEN lock' = a /\ Move(a, "query", call[a].cached)
       ELSE UNCHANGED lock /\ End(a)
    /\ UNCHANGED <<row, exchange, recon, since, blind, bounds>>

LockExpires ==
    /\ Expires /\ lock # Nobody
    /\ lock' = Nobody
    /\ UNCHANGED <<row, exchange, call, recon, since, blind, bounds>>

(* A query that fails counts as the quantity asked for. *)
Query(a) ==
    /\ At(a, "query")
    /\ \E answer \in Ask("query") :
          LET actual == IF answer = NoAnswer THEN call[a].req ELSE answer
          IN  call' = [call EXCEPT ![a] =
                          [@ EXCEPT !.actual = actual,
                                    !.step = IF actual = 0 THEN "none" ELSE "mark"]]
    /\ UNCHANGED <<row, exchange, lock, recon, since, blind, bounds>>

(* No position: STOPPED, and a ValueError, which the forced stop loss      *)
(* swallows before it goes on to its own status.                           *)
NoPosition(a) ==
    /\ At(a, "none")
    /\ CancelAll
    /\ Store(a, "STOPPED") /\ qty' = 0
    /\ Release(a)
    /\ IF call[a].plan = "FORCE_SL" THEN Leave(a, Expired) ELSE End(a)
    /\ UNCHANGED <<pos, entered, stream, recon, since, blind, bounds>>

Full(a)  == call[a].req >= call[a].actual

(* Whether the close ends the strategy: all of it, and no stage to follow. *)
Ends(a) == Full(a) /\ call[a].plan # "TRIM"

Protected == {"COMPLETED", "REENTRY_READY", "STOPPED"} \cup TpPartial

(* Bug variant (before v127): a full close leaves the LIMIT orders.        *)
KeepsOrders(a) == UNCHANGED <<limit, late>>

CancelsOrders(a) == IF Ends(a) THEN CancelAll ELSE UNCHANGED <<limit, late>>

Mark(a) ==
    /\ At(a, "mark")
    /\ CancelsOrders(a)
    /\ IF Ends(a) /\ call[a].cached \notin Protected
       THEN Store(a, "STOPPING") ELSE UNCHANGED status
    /\ call' = [call EXCEPT ![a] =
                    [@ EXCEPT !.want = Least(call[a].req, call[a].actual),
                              !.req = 0, !.step = "place", !.cached = Expired]]
    /\ UNCHANGED <<qty, pos, entered, stream, lock, recon, since, blind, bounds>>

(* The market order fills x units at once; the rest is dropped or is late. *)
Place(a) ==
    /\ At(a, "place")
    /\ \E x \in 0 .. Least(call[a].want, pos) :
          LET rest == call[a].want - x
          IN  /\ pos' = pos - x
              /\ stream' = stream \o Moved(x) \o Filled(x, rest = 0)
              /\ \/ UNCHANGED late
                 \/ /\ Late /\ rest > 0
                    /\ late' = late \cup {[type |-> "MARKET", by |-> a,
                                           qty |-> rest, row |-> TRUE]}
    /\ Move(a, "verify", Expired)
    /\ UNCHANGED <<row, entered, limit, lock, recon, since, blind, bounds>>

(* The exchange refuses the order: the error ends the caller. *)
PlaceFails(a) ==
    /\ At(a, "place")
    /\ End(a)
    /\ Release(a)
    /\ UNCHANGED <<row, exchange, recon, since, blind, bounds>>

(* -4131: a LIMIT order instead, which is not verified. *)
PlaceLimit(a) ==
    /\ At(a, "place")
    /\ Late
    /\ late' = late \cup {[type |-> "LIMIT", by |-> a, qty |-> call[a].want, row |-> TRUE]}
    /\ Leave(a, Expired)
    /\ Release(a)
    /\ UNCHANGED <<row, pos, entered, limit, stream, recon, since, blind, bounds>>

(* _is_close_successful: nine tenths of what was asked for.                *)
Successful(a, p) == 10 * (call[a].actual - p) >= 9 * call[a].want

(* Bug variant (before Fix 305): the retry takes all that is left.         *)
RetryAll(a, p) == p

RetryQty(a, p) ==
    LET shortfall == call[a].want - (call[a].actual - p)
    IN  Least(p, IF shortfall > 0 THEN shortfall ELSE 0)

Verify(a) ==
    /\ At(a, "verify")
    /\ \E p \in Ask("verify") :
          IF p = NoAnswer \/ Successful(a, p) \/ RetryQty(a, p) <= 0
          THEN Leave(a, status) /\ Release(a)
          ELSE /\ call' = [call EXCEPT ![a] = [@ EXCEPT !.step = "retry", !.cached = Expired,
                                                        !.retry = RetryQty(a, p)]]
               /\ UNCHANGED lock
    /\ UNCHANGED <<row, exchange, recon, since, blind, bounds>>

(* The second order has no row: its fills reach the strategy only as       *)
(* account updates.                                                        *)
Retry(a) ==
    /\ At(a, "retry")
    /\ \E x \in 0 .. Least(call[a].retry, pos) :
          LET rest == call[a].retry - x
          IN  /\ pos' = pos - x
              /\ stream' = stream \o Moved(x)
              /\ \/ UNCHANGED late
                 \/ /\ Late /\ rest > 0
                    /\ late' = late \cup {[type |-> "MARKET", by |-> a,
                                           qty |-> rest, row |-> FALSE]}
    /\ Move(a, "recheck", status)
    /\ UNCHANGED <<row, entered, limit, lock, recon, since, blind, bounds>>

(* A full close that failed twice is the owner's to clean up; a partial    *)
(* one is only reported.                                                   *)
GivesUp(a) ==
    IF call[a].want >= call[a].actual
    THEN Store(a, MANUAL_CLEANUP_REQUIRED) ELSE UNCHANGED status

Recheck(a) ==
    /\ At(a, "recheck")
    /\ \E p \in Ask("verify") :
          IF p # NoAnswer /\ Successful(a, p) THEN UNCHANGED status ELSE GivesUp(a)
    /\ Leave(a, Expired)
    /\ Release(a)
    /\ UNCHANGED <<qty, exchange, recon, since, blind, bounds>>

(* The second order is refused. *)
RetryFails(a) ==
    /\ At(a, "retry")
    /\ Leave(a, Expired)
    /\ \/ call[a].want < call[a].actual /\ UNCHANGED status
       \/ /\ call[a].want >= call[a].actual
          /\ status' = MANUAL_CLEANUP_REQUIRED
    /\ Release(a)
    /\ UNCHANGED <<qty, exchange, recon, since, blind, bounds>>

(***************************************************************************)
(* What the caller writes when emergency_close_position has returned.      *)
(***************************************************************************)
Post(a) ==
    /\ At(a, "post")
    /\ CASE call[a].plan = "TRIM"     -> UNCHANGED status
         [] call[a].plan = "TP1"      -> status' = "TP1_DONE_PARTIAL"
         [] call[a].plan = "TP_FINAL" -> status' = "COMPLETED"
         [] OTHER                     -> Store(a, "STOPPING")
    /\ IF call[a].plan = "SL" THEN Move(a, "reentry", Expired) ELSE End(a)
    /\ UNCHANGED <<qty, exchange, lock, recon, since, blind, bounds>>

(* mark_reentry_ready, after the stop-loss alert was sent. *)
MarkReentryReady(a) ==
    /\ At(a, "reentry")
    /\ status' = "REENTRY_READY"
    /\ End(a)
    /\ UNCHANGED <<qty, exchange, lock, recon, since, blind, bounds>>

CallStep(a) ==
    \/ Enter(a) \/ Query(a) \/ NoPosition(a) \/ Mark(a)
    \/ Place(a) \/ PlaceFails(a) \/ PlaceLimit(a) \/ Verify(a)
    \/ Retry(a) \/ RetryFails(a) \/ Recheck(a)
    \/ Post(a) \/ MarkReentryReady(a)

(***************************************************************************)
(* The exchange and the owner (external).                                  *)
(***************************************************************************)
LateFill(o, x) ==
    /\ o \in late /\ x <= Least(o.qty, pos)
    /\ pos' = pos - x
    /\ late' = (late \ {o}) \cup
               (IF x < o.qty THEN {[o EXCEPT !.qty = @ - x]} ELSE {})
    /\ stream' = stream \o Moved(x)
                        \o (IF o.row THEN Filled(x, x = o.qty) ELSE <<>>)
    /\ UNCHANGED <<row, entered, limit, lock, call, recon, since, blind, bounds>>

LateDies(o) ==
    /\ o \in late
    /\ late' = late \ {o}
    /\ UNCHANGED <<row, pos, entered, limit, stream, lock, call, recon, since, blind, bounds>>

EntryFills ==
    /\ limit > 0
    /\ pos' = pos + limit /\ limit' = 0 /\ entered' = TRUE
    /\ stream' = stream \o <<[type |-> "ACCOUNT", amt |-> pos + limit],
                             [type |-> "ENTRY"]>>
    /\ UNCHANGED <<row, late, lock, call, recon, since, blind, bounds>>

OwnerTrades ==
    /\ bounds.hand < HandCloses
    /\ \E x \in 1 .. pos : pos' = pos - x /\ stream' = stream \o Moved(x)
    /\ bounds' = [bounds EXCEPT !.hand = @ + 1]
    /\ UNCHANGED <<row, entered, limit, late, lock, call, recon, since, blind>>

(* acknowledge_manual_cleanup: refused while a position is seen, allowed   *)
(* when the exchange does not answer.                                      *)
Acknowledge ==
    /\ status = MANUAL_CLEANUP_REQUIRED
    /\ \E p \in Ask("ack") : /\ p <= 0
                             /\ blind' = (blind \/ p = NoAnswer)
    /\ status' = "STOPPED" /\ qty' = 0
    /\ UNCHANGED <<exchange, lock, call, recon, since, bounds>>

(***************************************************************************)
(* The user stream.                                                        *)
(***************************************************************************)
(* handle_account_update *)
AccountUpdate(e) ==
    /\ e.type = "ACCOUNT"
    /\ qty' = IF status \in {"REENTRY_READY", "CLOSED", "STOPPING", "COMPLETED"}
              THEN qty ELSE e.amt
    /\ UNCHANGED status

(* handle_order_trade_update, the entry of a stage *)
EntryFilled(e) ==
    /\ e.type = "ENTRY"
    /\ status' = "STAGE2_OPEN"
    /\ \E p \in Ask("stream") : qty' = IF p = NoAnswer THEN qty ELSE p

(* Bug variant (before Fix 167): no answer is taken for an empty position. *)
EmptyUnlessSeen(p) == p <= 0

SeenEmpty(p) == p = 0

\* Bug variant (before #120): a full close by the database is one.
FullByDatabase(e, p) == e.done /\ Abs(qty) <= e.delta

(* The strategy is flat: by the database, and by the exchange when asked. *)
FlatExit(e, p) == e.done /\ Abs(qty) <= e.delta /\ SeenEmpty(p)

(* handle_order_trade_update, an exit *)
ExitFilled(e) ==
    /\ e.type = "EXIT"
    /\ \E p \in Ask("stream") :
          IF FlatExit(e, p)
          THEN /\ qty' = 0
               /\ status' = CASE status = "COMPLETED" -> "COMPLETED"
                              [] status = "STOPPING"  -> "STOPPED"
                              [] OTHER                -> AfterExit
          ELSE /\ qty' = CASE p # NoAnswer                   -> p
                           [] e.done /\ Abs(qty) <= e.delta  -> qty
                           [] OTHER                          -> Abs(qty) - e.delta
               /\ UNCHANGED status

Deliver ==
    /\ stream # <<>>
    /\ \/ AccountUpdate(Head(stream))
       \/ EntryFilled(Head(stream))
       \/ ExitFilled(Head(stream))
    /\ stream' = Tail(stream)
    /\ UNCHANGED <<pos, entered, limit, late, lock, call, recon, since, blind, bounds>>

LoseEvent ==
    /\ "event" \in Fails /\ stream # <<>>
    /\ stream' = Tail(stream)
    /\ UNCHANGED <<row, pos, entered, limit, late, lock, call, recon, since, blind, bounds>>

(***************************************************************************)
(* The reconcile job: its rows are read, then the exchange is asked, then  *)
(* everything is committed at once, and last come the stuck strategies.    *)
(***************************************************************************)
\* Bug variant: terminal rows keep the quantity they had.
KeepsTerminalQty == qty

EnforcedQty == IF status \in TERMINAL_STATUSES THEN 0 ELSE qty

ReconcileLoads ==
    /\ recon.step = "idle"
    /\ status \in ACTIVE_LIKE \/ qty # 0
    /\ qty' = EnforcedQty
    /\ IF status \in ACTIVE_LIKE
       THEN recon' = [recon EXCEPT !.step = "loaded", !.cached = status, !.qty = qty]
       ELSE UNCHANGED recon
    /\ since' = IF status \in ACTIVE_LIKE \ {"STOPPING"} THEN 0 ELSE since
    /\ UNCHANGED <<status, exchange, lock, call, blind, bounds>>

ReconcileAsks ==
    /\ recon.step = "loaded"
    /\ \E p \in Ask("reconcile"), listed \in Listed :
          recon' = IF p = NoAnswer
                   THEN [Waiting EXCEPT !.step = "stuck"]
                   ELSE [recon EXCEPT !.step = "seen", !.pos = p, !.listed = listed]
    /\ UNCHANGED <<row, exchange, lock, call, since, blind, bounds>>

(* A strategy without a position that the exchange does not list keeps its *)
(* LIMIT orders if it was open.                                            *)
ReconcileStops ==
    /\ recon.pos = 0
    /\ recon.cached \in OPEN_LIKE_FOR_ORPHAN_CHECK \cup {"STOPPING"}
    /\ status' = "STOPPED"
    /\ qty' = IF recon.qty = 0 THEN qty ELSE 0
    /\ IF recon.listed \/ recon.cached = "STOPPING"
       THEN CancelAll ELSE UNCHANGED <<limit, late>>

ReconcileSyncs ==
    /\ recon.pos > 0 \/ recon.cached \notin OPEN_LIKE_FOR_ORPHAN_CHECK \cup {"STOPPING"}
    /\ qty' = IF recon.qty = recon.pos \/ (recon.pos = 0 /\ ~recon.listed)
              THEN qty ELSE recon.pos
    /\ IF recon.cached = "STAGE2_OPEN_PENDING" /\ recon.pos > 0 /\ entered
       THEN status' = "STAGE2_OPEN" ELSE UNCHANGED status
    /\ UNCHANGED <<limit, late>>

ReconcileCommits ==
    /\ recon.step = "seen"
    /\ ReconcileStops \/ ReconcileSyncs
    /\ recon' = [Waiting EXCEPT !.step = "stuck", !.pos = recon.pos]
    /\ UNCHANGED <<pos, entered, stream, lock, call, since, blind, bounds>>

\* Bug variant (before Fix 417): the age of the row, which a sync renews.
AgeOfRow == IF recon.pos > 0 THEN 0 ELSE since + 1

Age == since + 1

(* Bug variant (before v103): stuck for long is only reported.             *)
OnlyReports == status' = status /\ since' = Age

HandsOver == IF Age > Patience
             THEN status' = MANUAL_CLEANUP_REQUIRED /\ since' = 0
             ELSE since' = Age /\ UNCHANGED status

(* _detect_stopping_stuck *)
DetectStuck ==
    /\ recon.step = "stuck"
    /\ IF status = "STOPPING" THEN HandsOver ELSE UNCHANGED <<status, since>>
    /\ recon' = Waiting
    /\ UNCHANGED <<qty, exchange, lock, call, blind, bounds>>

Reconcile == ReconcileLoads \/ ReconcileAsks \/ ReconcileCommits \/ DetectStuck

Next ==
    \/ \E plan \in Plans : JobDecides(plan)
    \/ \E s \in Stops, mode \in {"close", "cancel_only"} : StopBegins(s, mode)
    \/ \E a \in Actors : CallStep(a)
    \/ LockExpires
    \/ \E o \in late : LateDies(o) \/ \E x \in 1 .. o.qty : LateFill(o, x)
    \/ EntryFills \/ OwnerTrades \/ Acknowledge
    \/ Deliver \/ LoseEvent
    \/ Reconcile

Spec == Init /\ [][Next]_vars

(* Calls run to their end, the stream is read and the reconcile job runs   *)
(* every two minutes.                                                      *)
Fairness == /\ \A a \in Actors : WF_vars(CallStep(a))
            /\ WF_vars(Deliver)
            /\ WF_vars(Reconcile)

FairSpec == Spec /\ Fairness
(***************************************************************************)
(* Properties.                                                             *)
(***************************************************************************)
Steps == {"idle", "enter", "query", "none", "mark", "place", "verify", "retry",
          "recheck", "post", "reentry", "done"}

Orders == [type : {"MARKET", "LIMIT"}, by : Actors, qty : Nat, row : BOOLEAN]

Events == [type : {"ACCOUNT"}, amt : Nat] \cup [type : {"ENTRY"}]
              \cup [type : {"EXIT"}, delta : Nat, done : BOOLEAN]

Copies == STATUSES \cup {Expired}

Calls == [step : Steps, plan : AllPlans \cup {"STOP"}, cached : Copies,
          req : Nat, actual : Nat, want : Nat, retry : Nat]

Passes == [step : {"idle", "loaded", "seen", "stuck"}, cached : Copies,
           qty : Int, pos : Nat, listed : BOOLEAN]

(* Every variable has its type; STOPPING is never observed for longer than *)
(* _detect_stopping_stuck allows.                                          *)
TypeOK ==
    /\ status \in STATUSES /\ qty \in Int
    /\ pos \in Nat /\ limit \in Nat /\ entered \in BOOLEAN
    /\ late \subseteq Orders /\ stream \in Seq(Events)
    /\ lock \in Actors \cup {Nobody}
    /\ call \in [Actors -> Calls]
    /\ recon \in Passes
    /\ since \in 0 .. Patience /\ blind \in BOOLEAN
    /\ bounds \in [cycles : Nat, hand : Nat]

(* A terminal strategy owns no position: nothing watches it any more, and  *)
(* the orphan detection would stop the whole account.  The exception is an *)
(* acknowledgement that the exchange could not confirm (Fix 170).          *)
NoOrphan == status \in TERMINAL_STATUSES => pos = 0 \/ blind

NoEntry(events) == \A k \in 1 .. Len(events) : events[k].type # "ENTRY"

(* The statuses a caller writes without having looked: a final take profit *)
(* and a stop loss that is re-entered close first and ask nobody after.    *)
Unasked == {s \in {"COMPLETED"} : "TP_FINAL" \in Plans}
               \cup {s \in {"REENTRY_READY"} : "SL" \in Plans}

NoOrphanButUnasked == status \in TERMINAL_STATUSES \ Unasked => pos = 0 \/ blind

Prudent(c) ==
    /\ c.plan \in Plans \cup {"STOP"}
    /\ c.step = "reentry" => c.plan = "SL"
    /\ c.step \in {"enter", "query"} => c.req > 0
    /\ c.step = "none" => pos = 0

(* NoOrphan made inductive, where no order adds to the position: whoever   *)
(* is about to write a terminal status that is not unasked has seen the    *)
(* position empty - a failed query that counts as the quantity asked for   *)
(* is never taken for zero, since zero is never asked for - and empty it   *)
(* stays.                                                                  *)
CloseInv ==
    /\ NoOrphanButUnasked
    /\ limit = 0 /\ NoEntry(stream)
    /\ \A a \in Actors : Prudent(call[a])
    /\ recon.step = "seen" /\ recon.pos = 0 => pos = 0

(* A partial stop loss or take profit leaves what compute_trim keeps, also *)
(* when it is verified and tried again (Fix 305).                          *)
PartialCloseKeepsRest == pos >= Keep

(* And it leaves the strategy alive: no event of its own fills and no pass *)
(* of the reconcile job ends it (Fix 305, Fix 319, #120).                  *)
PartialCloseKeepsTheStrategy ==
    status \notin TERMINAL_STATUSES \cup {"STOPPING", MANUAL_CLEANUP_REQUIRED}

(* A stop request never takes a strategy out of a terminal status (#90).   *)
StopKeepsTerminal ==
    [][(status \in TERMINAL_STATUSES) => status' # "STOPPING"]_vars

(* A terminal strategy has no LIMIT entry order that could fill unwatched. *)
NoZombieEntry == status \in TERMINAL_STATUSES => limit = 0

(* STOPPING, in which no stop loss is evaluated, does not last: the        *)
(* strategy stops or is handed to its owner (Fix 417).                     *)
StoppingResolves == status = "STOPPING" ~> status # "STOPPING"

(* Whatever was lost or came late, in the end the row holds what the       *)
(* exchange holds, a terminal row nothing, unless the owner is to act.     *)
QtyFollows == <>[](\/ status = MANUAL_CLEANUP_REQUIRED
                   \/ qty = pos
                   \/ status \in TERMINAL_STATUSES /\ qty = 0)
=============================================================================
