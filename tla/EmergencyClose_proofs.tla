----------------------- MODULE EmergencyClose_proofs -----------------------
(***************************************************************************)
(* Theorems about EmergencyClose, for any stop requests, plans, quantities *)
(* and bounds, and whatever may fail: every variable keeps its type; and   *)
(* where no entry order rests, no strategy with a terminal status owns a   *)
(* position, but for the statuses the code writes without asking.          *)
(***************************************************************************)
EXTENDS EmergencyClose, TLAPS

USE ActorAssumption, QuantityAssumption

(* The statuses that the actions write. *)
LEMMA StatusFacts ==
    /\ {"STAGE1_OPEN", "STAGE2_OPEN", "STAGE2_OPEN_PENDING", "STOPPING", "STOPPED",
        "COMPLETED", "REENTRY_READY", "LIQUIDATED_WAITING_RETRY",
        "TP1_DONE_PARTIAL", MANUAL_CLEANUP_REQUIRED} \subseteq STATUSES
    /\ {"STAGE1_OPEN", "STAGE2_OPEN", "STAGE2_OPEN_PENDING", "STOPPING",
        "TP1_DONE_PARTIAL", "LIQUIDATED_WAITING_RETRY",
        MANUAL_CLEANUP_REQUIRED} \cap TERMINAL_STATUSES = {}
BY DEF STATUSES, TERMINAL_STATUSES, ACTIVE_LIKE, ACTIVE_WITH_POSITION, ACTIVE_WAITING,
       OPEN_LIKE_FOR_ORPHAN_CHECK, TpPartial, MANUAL_CLEANUP_REQUIRED

LEMMA AskTyped ==
    ASSUME TypeOK, NEW where, NEW p \in Ask(where)
    PROVE  p \in Int /\ (p # NoAnswer => p = pos) /\ NoAnswer = -1
BY DEF Ask, TypeOK, NoAnswer

LEMMA CancelTyped ==
    ASSUME TypeOK, AllCancelled \/ CancelAll
    PROVE  /\ limit' \in Nat /\ late' \subseteq Orders
           /\ limit = 0 => limit' = 0
BY DEF CancelAll, AllCancelled, TypeOK

LEMMA IdleTyped == Idle \in Calls
BY DEF Idle, Calls, Steps, Copies

LEMMA MoveTyped ==
    ASSUME TypeOK, NEW a \in Actors, NEW step \in Steps, NEW cached \in Copies,
           Move(a, step, cached)
    PROVE  call' \in [Actors -> Calls]
<1>1. call[a] \in Calls
  BY DEF TypeOK
<1>. DEFINE c == [call[a] EXCEPT !.step = step, !.cached = cached]
<1>2. c \in Calls
  BY <1>1 DEF Calls
<1>3. call' = [call EXCEPT ![a] = c]
  BY DEF Move
<1>. HIDE DEF c
<1>. QED
  BY <1>2, <1>3 DEF TypeOK

LEMMA LeaveTyped ==
    ASSUME TypeOK, NEW a \in Actors, NEW cached \in Copies, Leave(a, cached)
    PROVE  call' \in [Actors -> Calls]
BY DEF Leave, TypeOK, Calls, Idle, Steps

LEMMA EndTyped ==
    ASSUME TypeOK, NEW a \in Actors, End(a)
    PROVE  call' \in [Actors -> Calls]
BY DEF End, TypeOK, Calls, Idle, Steps, Copies

LEMMA ReleaseTyped ==
    ASSUME TypeOK, NEW a \in Actors, Release(a)
    PROVE  lock' \in Actors \cup {Nobody}
BY DEF Release, TypeOK

LEMMA CopyTyped ==
    ASSUME TypeOK
    PROVE  Expired \in Copies /\ status \in Copies
BY DEF Copies, TypeOK

LEMMA StoreTyped ==
    ASSUME TypeOK, NEW a \in Actors, NEW s \in STATUSES, Store(a, s)
    PROVE  status' \in STATUSES
BY DEF Store, TypeOK

(* The events of a fill are well-formed, and none is an entry's. *)
LEMMA EventsTyped ==
    ASSUME TypeOK, NEW x \in 0 .. pos, NEW done \in BOOLEAN
    PROVE  /\ Moved(x) \in Seq(Events) /\ Filled(x, done) \in Seq(Events)
           /\ \A k \in 1 .. Len(Moved(x)) : Moved(x)[k].type # "ENTRY"
           /\ \A k \in 1 .. Len(Filled(x, done)) : Filled(x, done)[k].type # "ENTRY"
<1>1. pos - x \in Nat
  BY DEF TypeOK
<1>2. [type |-> "ACCOUNT", amt |-> pos - x] \in Events
  BY <1>1 DEF Events
<1>3. [type |-> "EXIT", delta |-> x, done |-> done] \in Events
  BY DEF Events
<1>. QED
  BY <1>2, <1>3 DEF Moved, Filled

LEMMA Quantities ==
    /\ Cycles \in Nat /\ Held \in Nat /\ Keep \in Nat /\ Resting \in Nat
    /\ Patience \in Nat /\ HandCloses \in Nat
    /\ 0 \in 0 .. Patience
OBVIOUS

LEMMA InitTyped == Init => TypeOK
<1>. SUFFICES ASSUME Init PROVE TypeOK
  OBVIOUS
<1>1. call \in [Actors -> Calls]
  BY IdleTyped DEF Init
<1>2. recon \in Passes
  BY DEF Init, Waiting, Passes, Copies
<1>3. stream \in Seq(Events)
  BY DEF Init
<1>4. status \in STATUSES
  BY StatusFacts DEF Init
<1>5. qty \in Int /\ pos \in Nat /\ limit \in Nat
  BY Quantities DEF Init
<1>10. entered \in BOOLEAN
  BY DEF Init
<1>6. late \subseteq Orders
  BY DEF Init
<1>7. lock \in Actors \cup {Nobody} /\ blind \in BOOLEAN
  BY DEF Init
<1>8. since \in 0 .. Patience
  BY Quantities DEF Init
<1>9. bounds \in [cycles : Nat, hand : Nat]
  BY DEF Init
<1>. QED
  BY <1>1, <1>2, <1>3, <1>4, <1>5, <1>6, <1>7, <1>8, <1>9, <1>10 DEF TypeOK

(***************************************************************************)
(* Every action preserves the types.                                       *)
(***************************************************************************)
LEMMA AmountTyped ==
    ASSUME TypeOK, NEW plan \in AllPlans, Due(plan)
    PROVE  Amount(plan) \in Nat
BY Quantities DEF Due, Amount, Abs, TypeOK, AllPlans

LEMMA JobDecidesTyped ==
    ASSUME TypeOK, NEW plan \in Plans, JobDecides(plan)
    PROVE  TypeOK'
<1>. DEFINE c == [Idle EXCEPT !.step = "enter", !.plan = plan,
                              !.cached = status, !.req = Amount(plan)]
<1>1. plan \in AllPlans
  OBVIOUS
<1>2. Amount(plan) \in Nat
  BY <1>1, AmountTyped DEF JobDecides
<1>3. c \in Calls
  BY <1>1, <1>2, CopyTyped DEF Idle, Calls, Steps
<1>4. call' = [call EXCEPT ![Job] = c]
  BY DEF JobDecides
<1>. HIDE DEF c
<1>5. call' \in [Actors -> Calls]
  BY <1>3, <1>4 DEF TypeOK
<1>6. limit' \in Nat /\ late' \subseteq Orders
  BY CancelTyped DEF JobDecides, TypeOK
<1>7. bounds' \in [cycles : Nat, hand : Nat]
  BY DEF JobDecides, TypeOK
<1>. QED
  BY <1>5, <1>6, <1>7 DEF JobDecides, TypeOK, row

LEMMA StopBeginsTyped ==
    ASSUME TypeOK, NEW s \in Stops, NEW mode \in {"close", "cancel_only"},
           StopBegins(s, mode)
    PROVE  TypeOK'
<1>. DEFINE next == IF mode = "cancel_only" \/ qty = 0 THEN "post" ELSE "enter"
            c    == [Idle EXCEPT !.step = next, !.cached = status, !.req = Abs(qty)]
<1>1. Abs(qty) \in Nat
  BY DEF Abs, TypeOK
<1>2. c \in Calls
  BY <1>1, CopyTyped DEF Idle, Calls, Steps
<1>3. call' = [call EXCEPT ![s] = c]
  BY DEF StopBegins
<1>. HIDE DEF c
<1>4. call' \in [Actors -> Calls]
  BY <1>2, <1>3 DEF TypeOK, Actors
<1>5. limit' \in Nat /\ late' \subseteq Orders
  BY CancelTyped DEF StopBegins
<1>. QED
  BY <1>4, <1>5 DEF StopBegins, TypeOK, row

LEMMA EnterTyped ==
    ASSUME TypeOK, NEW a \in Actors, Enter(a)
    PROVE  TypeOK'
<1>1. call[a].cached \in Copies
  BY DEF TypeOK, Calls
<1>2. call' \in [Actors -> Calls]
  <2>1. CASE lock = Nobody
    BY <1>1, <2>1, MoveTyped DEF Enter, Steps
  <2>2. CASE lock # Nobody
    BY <2>2, EndTyped DEF Enter
  <2>. QED
    BY <2>1, <2>2
<1>3. lock' \in Actors \cup {Nobody}
  BY DEF Enter, TypeOK
<1>. QED
  BY <1>2, <1>3 DEF Enter, TypeOK, row, exchange

LEMMA LockExpiresTyped ==
    ASSUME TypeOK, LockExpires
    PROVE  TypeOK'
BY DEF LockExpires, TypeOK, row, exchange

LEMMA QueryTyped ==
    ASSUME TypeOK, NEW a \in Actors, Query(a)
    PROVE  TypeOK'
<1>1. PICK answer \in Ask("query") :
          LET actual == IF answer = NoAnswer THEN call[a].req ELSE answer
          IN  call' = [call EXCEPT ![a] =
                          [@ EXCEPT !.actual = actual,
                                    !.step = IF actual = 0 THEN "none" ELSE "mark"]]
  BY DEF Query
<1>. DEFINE actual == IF answer = NoAnswer THEN call[a].req ELSE answer
            c == [call[a] EXCEPT !.actual = actual,
                                 !.step = IF actual = 0 THEN "none" ELSE "mark"]
<1>2. call[a] \in Calls
  BY DEF TypeOK
<1>3. actual \in Nat
  BY <1>2, AskTyped DEF TypeOK, Calls
<1>4. c \in Calls
  <2>. HIDE DEF actual
  <2>. QED
    BY <1>2, <1>3 DEF Calls, Steps
<1>5. call' = [call EXCEPT ![a] = c]
  BY <1>1
<1>. HIDE DEF c
<1>6. call' \in [Actors -> Calls]
  BY <1>4, <1>5 DEF TypeOK
<1>. QED
  BY <1>6 DEF Query, TypeOK, row, exchange

LEMMA NoPositionTyped ==
    ASSUME TypeOK, NEW a \in Actors, NoPosition(a)
    PROVE  TypeOK'
<1>1. call' \in [Actors -> Calls]
  BY LeaveTyped, EndTyped, CopyTyped DEF NoPosition
<1>2. limit' \in Nat /\ late' \subseteq Orders
  BY CancelTyped DEF NoPosition
<1>3. lock' \in Actors \cup {Nobody}
  BY ReleaseTyped DEF NoPosition
<1>4. status' \in STATUSES
  BY StoreTyped, StatusFacts DEF NoPosition
<1>. QED
  BY <1>1, <1>2, <1>3, <1>4 DEF NoPosition, TypeOK

LEMMA MarkTyped ==
    ASSUME TypeOK, NEW a \in Actors, Mark(a)
    PROVE  TypeOK'
<1>. DEFINE w == Least(call[a].req, call[a].actual)
            c == [call[a] EXCEPT !.want = w, !.req = 0, !.step = "place", !.cached = Expired]
<1>1. call[a] \in Calls
  BY DEF TypeOK
<1>2. w \in Nat
  BY <1>1 DEF Calls, Least
<1>3. c \in Calls
  <2>. HIDE DEF w
  <2>. QED
    BY <1>1, <1>2, CopyTyped DEF Calls, Steps
<1>4. call' = [call EXCEPT ![a] = c]
  BY DEF Mark
<1>. HIDE DEF c
<1>5. call' \in [Actors -> Calls]
  BY <1>3, <1>4 DEF TypeOK
<1>6. limit' \in Nat /\ late' \subseteq Orders
  BY CancelTyped DEF Mark, CancelsOrders, TypeOK
<1>7. status' \in STATUSES
  BY StoreTyped, StatusFacts DEF Mark, TypeOK
<1>. QED
  BY <1>5, <1>6, <1>7 DEF Mark, TypeOK

LEMMA AppendTyped ==
    ASSUME TypeOK, NEW u \in Seq(Events)
    PROVE  stream \o u \in Seq(Events)
BY DEF TypeOK

(* An order of the caller that is late. *)
LEMMA LateTyped ==
    ASSUME TypeOK, NEW a \in Actors, NEW type \in {"MARKET", "LIMIT"},
           NEW n \in Nat, NEW r \in BOOLEAN
    PROVE  late \cup {[type |-> type, by |-> a, qty |-> n, row |-> r]} \subseteq Orders
BY DEF TypeOK, Orders

LEMMA PlaceTyped ==
    ASSUME TypeOK, NEW a \in Actors, Place(a)
    PROVE  TypeOK'
<1>1. PICK x \in 0 .. Least(call[a].want, pos) :
          LET rest == call[a].want - x
          IN  /\ pos' = pos - x
              /\ stream' = stream \o Moved(x) \o Filled(x, rest = 0)
              /\ \/ UNCHANGED late
                 \/ /\ Late /\ rest > 0
                    /\ late' = late \cup {[type |-> "MARKET", by |-> a,
                                           qty |-> rest, row |-> TRUE]}
  BY DEF Place
<1>2. call[a].want \in Nat /\ pos \in Nat
  BY DEF TypeOK, Calls
<1>3. x \in 0 .. pos /\ pos - x \in Nat /\ call[a].want - x \in Nat
  BY <1>2 DEF Least
<1>4. stream' \in Seq(Events)
  <2>. DEFINE done == call[a].want - x = 0
  <2>1. stream' = stream \o Moved(x) \o Filled(x, done)
    BY <1>1
  <2>2. done \in BOOLEAN
    OBVIOUS
  <2>. HIDE DEF done
  <2>3. Moved(x) \in Seq(Events) /\ Filled(x, done) \in Seq(Events)
    BY <1>3, <2>2, EventsTyped
  <2>. QED
    BY <2>1, <2>3 DEF TypeOK
<1>5. late' \subseteq Orders
  <2>. DEFINE rest == call[a].want - x
  <2>1. rest \in Nat
    BY <1>3
  <2>2. late' = late \/ late' = late \cup {[type |-> "MARKET", by |-> a,
                                            qty |-> rest, row |-> TRUE]}
    BY <1>1
  <2>. HIDE DEF rest
  <2>. QED
    BY <2>1, <2>2, LateTyped DEF TypeOK
<1>6. call' \in [Actors -> Calls]
  BY MoveTyped, CopyTyped DEF Place, Steps
<1>. QED
  BY <1>1, <1>3, <1>4, <1>5, <1>6 DEF Place, TypeOK, row

LEMMA PlaceFailsTyped ==
    ASSUME TypeOK, NEW a \in Actors, PlaceFails(a)
    PROVE  TypeOK'
<1>1. call' \in [Actors -> Calls] /\ lock' \in Actors \cup {Nobody}
  BY EndTyped, ReleaseTyped DEF PlaceFails
<1>. QED
  BY <1>1 DEF PlaceFails, TypeOK, row, exchange

LEMMA PlaceLimitTyped ==
    ASSUME TypeOK, NEW a \in Actors, PlaceLimit(a)
    PROVE  TypeOK'
<1>1. call' \in [Actors -> Calls] /\ lock' \in Actors \cup {Nobody}
  BY LeaveTyped, ReleaseTyped, CopyTyped DEF PlaceLimit
<1>2. call[a].want \in Nat
  BY DEF TypeOK, Calls
<1>3. late' \subseteq Orders
  BY <1>2, LateTyped DEF PlaceLimit
<1>. QED
  BY <1>1, <1>3 DEF PlaceLimit, TypeOK, row

LEMMA RetryQtyTyped ==
    ASSUME TypeOK, NEW a \in Actors, NEW p \in Nat
    PROVE  RetryQty(a, p) \in Nat
<1>1. call[a].want \in Nat /\ call[a].actual \in Nat
  BY DEF TypeOK, Calls
<1>. QED
  BY <1>1 DEF RetryQty, Least

LEMMA VerifyTyped ==
    ASSUME TypeOK, NEW a \in Actors, Verify(a)
    PROVE  TypeOK'
<1>1. PICK p \in Ask("verify") :
          IF p = NoAnswer \/ Successful(a, p) \/ RetryQty(a, p) <= 0
          THEN Leave(a, status) /\ Release(a)
          ELSE /\ call' = [call EXCEPT ![a] = [@ EXCEPT !.step = "retry", !.cached = Expired,
                                                        !.retry = RetryQty(a, p)]]
               /\ UNCHANGED lock
  BY DEF Verify
<1>2. CASE p = NoAnswer \/ Successful(a, p) \/ RetryQty(a, p) <= 0
  <2>1. Leave(a, status) /\ Release(a)
    BY <1>1, <1>2
  <2>2. call' \in [Actors -> Calls] /\ lock' \in Actors \cup {Nobody}
    BY <2>1, LeaveTyped, ReleaseTyped, CopyTyped
  <2>. QED
    BY <2>2 DEF Verify, TypeOK, row, exchange
<1>3. CASE ~(p = NoAnswer \/ Successful(a, p) \/ RetryQty(a, p) <= 0)
  <2>. DEFINE r == RetryQty(a, p)
              c == [call[a] EXCEPT !.step = "retry", !.cached = Expired, !.retry = r]
  <2>1. call' = [call EXCEPT ![a] = c] /\ UNCHANGED lock
    BY <1>1, <1>3
  <2>2. p \in Nat
    BY <1>3, AskTyped DEF TypeOK
  <2>3. r \in Nat
    BY <2>2, RetryQtyTyped
  <2>4. call[a] \in Calls
    BY DEF TypeOK
  <2>5. c \in Calls
    <3>. HIDE DEF r
    <3>. QED
      BY <2>3, <2>4, CopyTyped DEF Calls, Steps
  <2>. HIDE DEF c
  <2>6. call' \in [Actors -> Calls]
    BY <2>1, <2>5 DEF TypeOK
  <2>. QED
    BY <2>1, <2>6 DEF Verify, TypeOK, row, exchange
<1>. QED
  BY <1>2, <1>3

LEMMA RetryTyped ==
    ASSUME TypeOK, NEW a \in Actors, Retry(a)
    PROVE  TypeOK'
<1>1. PICK x \in 0 .. Least(call[a].retry, pos) :
          LET rest == call[a].retry - x
          IN  /\ pos' = pos - x
              /\ stream' = stream \o Moved(x)
              /\ \/ UNCHANGED late
                 \/ /\ Late /\ rest > 0
                    /\ late' = late \cup {[type |-> "MARKET", by |-> a,
                                           qty |-> rest, row |-> FALSE]}
  BY DEF Retry
<1>2. call[a].retry \in Nat /\ pos \in Nat
  BY DEF TypeOK, Calls
<1>3. x \in 0 .. pos /\ pos - x \in Nat /\ call[a].retry - x \in Nat
  BY <1>2 DEF Least
<1>4. stream' \in Seq(Events)
  BY <1>1, <1>3, EventsTyped, AppendTyped
<1>5. late' \subseteq Orders
  <2>. DEFINE rest == call[a].retry - x
  <2>1. rest \in Nat
    BY <1>3
  <2>2. late' = late \/ late' = late \cup {[type |-> "MARKET", by |-> a,
                                            qty |-> rest, row |-> FALSE]}
    BY <1>1
  <2>. HIDE DEF rest
  <2>. QED
    BY <2>1, <2>2, LateTyped DEF TypeOK
<1>6. call' \in [Actors -> Calls]
  BY MoveTyped, CopyTyped DEF Retry, Steps
<1>. QED
  BY <1>1, <1>3, <1>4, <1>5, <1>6 DEF Retry, TypeOK, row

LEMMA RecheckTyped ==
    ASSUME TypeOK, NEW a \in Actors, Recheck(a)
    PROVE  TypeOK'
<1>1. status' = status \/ Store(a, MANUAL_CLEANUP_REQUIRED)
  BY DEF Recheck, GivesUp
<1>2. status' \in STATUSES
  BY <1>1, StoreTyped, StatusFacts DEF TypeOK
<1>3. call' \in [Actors -> Calls] /\ lock' \in Actors \cup {Nobody}
  BY LeaveTyped, ReleaseTyped, CopyTyped DEF Recheck
<1>. QED
  BY <1>2, <1>3 DEF Recheck, TypeOK, exchange

LEMMA RetryFailsTyped ==
    ASSUME TypeOK, NEW a \in Actors, RetryFails(a)
    PROVE  TypeOK'
<1>1. status' \in STATUSES
  BY StatusFacts DEF RetryFails, TypeOK
<1>2. call' \in [Actors -> Calls] /\ lock' \in Actors \cup {Nobody}
  BY LeaveTyped, ReleaseTyped, CopyTyped DEF RetryFails
<1>. QED
  BY <1>1, <1>2 DEF RetryFails, TypeOK, exchange

LEMMA PostTyped ==
    ASSUME TypeOK, NEW a \in Actors, Post(a)
    PROVE  TypeOK'
<1>1. status' \in {status, "TP1_DONE_PARTIAL", "COMPLETED", "STOPPING"}
  BY DEF Post, Store
<1>2. status' \in STATUSES
  BY <1>1, StatusFacts DEF TypeOK
<1>3. call' \in [Actors -> Calls]
  BY MoveTyped, EndTyped, CopyTyped DEF Post, Steps
<1>. QED
  BY <1>2, <1>3 DEF Post, TypeOK, exchange

LEMMA MarkReentryReadyTyped ==
    ASSUME TypeOK, NEW a \in Actors, MarkReentryReady(a)
    PROVE  TypeOK'
<1>1. status' \in STATUSES
  BY StatusFacts DEF MarkReentryReady
<1>2. call' \in [Actors -> Calls]
  BY EndTyped DEF MarkReentryReady
<1>. QED
  BY <1>1, <1>2 DEF MarkReentryReady, TypeOK, exchange

LEMMA CallStepTyped ==
    ASSUME TypeOK, NEW a \in Actors, CallStep(a)
    PROVE  TypeOK'
BY EnterTyped, QueryTyped, NoPositionTyped, MarkTyped, PlaceTyped, PlaceFailsTyped,
   PlaceLimitTyped, VerifyTyped, RetryTyped, RetryFailsTyped, RecheckTyped,
   PostTyped, MarkReentryReadyTyped DEF CallStep

LEMMA LateFillTyped ==
    ASSUME TypeOK, NEW o \in late, NEW x \in 1 .. o.qty, LateFill(o, x)
    PROVE  TypeOK'
<1>1. o \in Orders /\ o.qty \in Nat
  BY DEF TypeOK, Orders
<1>2. x \in 0 .. pos /\ pos - x \in Nat /\ o.qty - x \in Nat
  <2>. DEFINE n == o.qty
  <2>1. n \in Nat /\ x \in 1 .. n /\ x <= Least(n, pos) /\ pos \in Nat
    BY <1>1 DEF LateFill, TypeOK
  <2>. HIDE DEF n
  <2>2. x <= n /\ x <= pos
    BY <2>1 DEF Least
  <2>3. x \in 0 .. pos /\ pos - x \in Nat /\ n - x \in Nat
    BY <2>1, <2>2
  <2>. QED
    BY <2>3 DEF n
<1>3. late' \subseteq Orders
  <2>. DEFINE r == [o EXCEPT !.qty = @ - x]
  <2>1. r \in Orders
    BY <1>1, <1>2 DEF Orders
  <2>2. late' \subseteq late \cup {r}
    BY DEF LateFill
  <2>. HIDE DEF r
  <2>. QED
    BY <2>1, <2>2 DEF TypeOK
<1>4. stream' \in Seq(Events)
  <2>. DEFINE done == x = o.qty
              last == IF o.row THEN Filled(x, done) ELSE <<>>
  <2>1. stream' = stream \o Moved(x) \o last
    BY DEF LateFill
  <2>2. done \in BOOLEAN
    OBVIOUS
  <2>. HIDE DEF done
  <2>3. Moved(x) \in Seq(Events) /\ Filled(x, done) \in Seq(Events)
    BY <1>2, <2>2, EventsTyped
  <2>4. last \in Seq(Events)
    BY <2>3
  <2>. HIDE DEF last
  <2>. QED
    BY <2>1, <2>3, <2>4 DEF TypeOK
<1>. QED
  BY <1>2, <1>3, <1>4 DEF LateFill, TypeOK, row

LEMMA LateDiesTyped ==
    ASSUME TypeOK, NEW o \in late, LateDies(o)
    PROVE  TypeOK'
BY DEF LateDies, TypeOK, row

LEMMA EntryFillsTyped ==
    ASSUME TypeOK, EntryFills
    PROVE  TypeOK'
<1>. DEFINE e == [type |-> "ACCOUNT", amt |-> pos + limit]
            f == [type |-> "ENTRY"]
<1>1. pos + limit \in Nat
  BY DEF TypeOK
<1>2. e \in Events /\ f \in Events
  BY <1>1 DEF Events
<1>3. stream' = stream \o <<e, f>>
  BY DEF EntryFills
<1>. HIDE DEF e, f
<1>4. stream' \in Seq(Events)
  BY <1>2, <1>3 DEF TypeOK
<1>5. pos' \in Nat /\ limit' = 0 /\ entered' = TRUE
  BY <1>1 DEF EntryFills
<1>. QED
  BY <1>4, <1>5 DEF EntryFills, TypeOK, row

LEMMA OwnerTradesTyped ==
    ASSUME TypeOK, OwnerTrades
    PROVE  TypeOK'
<1>1. PICK x \in 1 .. pos : pos' = pos - x /\ stream' = stream \o Moved(x)
  BY DEF OwnerTrades
<1>2. x \in 0 .. pos /\ pos - x \in Nat
  BY DEF TypeOK
<1>3. stream' \in Seq(Events)
  BY <1>1, <1>2, EventsTyped, AppendTyped
<1>4. bounds' \in [cycles : Nat, hand : Nat]
  <2>1. bounds \in [cycles : Nat, hand : Nat]
    BY DEF TypeOK
  <2>2. bounds' = [bounds EXCEPT !.hand = @ + 1]
    BY DEF OwnerTrades
  <2>. QED
    BY <2>1, <2>2
<1>. QED
  BY <1>1, <1>2, <1>3, <1>4 DEF OwnerTrades, TypeOK, row

LEMMA AcknowledgeTyped ==
    ASSUME TypeOK, Acknowledge
    PROVE  TypeOK'
<1>1. status' \in STATUSES
  BY StatusFacts DEF Acknowledge
<1>2. blind' \in BOOLEAN
  BY DEF Acknowledge, TypeOK
<1>. QED
  BY <1>1, <1>2 DEF Acknowledge, TypeOK, exchange

(* The event at the head of the stream is one. *)
LEMMA HeadTyped ==
    ASSUME TypeOK, stream # <<>>
    PROVE  Head(stream) \in Events /\ Tail(stream) \in Seq(Events)
BY DEF TypeOK

LEMMA EventFields ==
    ASSUME NEW e \in Events
    PROVE  /\ e.type = "ACCOUNT" => e.amt \in Nat
           /\ e.type = "EXIT" => e.delta \in Nat /\ e.done \in BOOLEAN
BY DEF Events

LEMMA DeliverTyped ==
    ASSUME TypeOK, Deliver
    PROVE  TypeOK'
<1>. DEFINE e == Head(stream)
<1>1. e \in Events /\ stream' \in Seq(Events)
  BY HeadTyped DEF Deliver
<1>2. qty \in Int /\ status \in STATUSES
  BY DEF TypeOK
<1>3. AccountUpdate(e) \/ EntryFilled(e) \/ ExitFilled(e)
  BY DEF Deliver
<1>. HIDE DEF e
<1>4. status' \in STATUSES /\ qty' \in Int
  <2>1. CASE AccountUpdate(e)
    BY <1>1, <1>2, <2>1, EventFields DEF AccountUpdate
  <2>2. CASE EntryFilled(e)
    <3>1. status' \in STATUSES
      BY <2>2, StatusFacts DEF EntryFilled
    <3>2. qty' \in Int
      BY <1>2, <2>2, AskTyped DEF EntryFilled
    <3>. QED
      BY <3>1, <3>2
  <2>3. CASE ExitFilled(e)
    <3>1. PICK p \in Ask("stream") :
             IF FlatExit(e, p)
             THEN /\ qty' = 0
                  /\ status' = CASE status = "COMPLETED" -> "COMPLETED"
                                 [] status = "STOPPING"  -> "STOPPED"
                                 [] OTHER                -> AfterExit
             ELSE /\ qty' = CASE p # NoAnswer                   -> p
                              [] e.done /\ Abs(qty) <= e.delta  -> qty
                              [] OTHER                          -> Abs(qty) - e.delta
                  /\ UNCHANGED status
      BY <2>3 DEF ExitFilled
    <3>2. e.delta \in Nat /\ p \in Int /\ Abs(qty) \in Nat
      BY <1>1, <1>2, <2>3, EventFields, AskTyped DEF ExitFilled, Abs
    <3>3. CASE FlatExit(e, p)
      <4>1. status' \in {"COMPLETED", "STOPPED", AfterExit}
        BY <3>1, <3>3
      <4>. QED
        BY <3>1, <3>3, <4>1, StatusFacts
    <3>4. CASE ~FlatExit(e, p)
      <4>1. qty' \in {p, qty, Abs(qty) - e.delta} /\ status' = status
        BY <3>1, <3>4
      <4>. QED
        BY <1>2, <3>2, <4>1
    <3>. QED
      BY <3>3, <3>4
  <2>. QED
    BY <1>3, <2>1, <2>2, <2>3
<1>. QED
  BY <1>1, <1>4 DEF Deliver, TypeOK

LEMMA LoseEventTyped ==
    ASSUME TypeOK, LoseEvent
    PROVE  TypeOK'
<1>1. stream' \in Seq(Events)
  BY HeadTyped DEF LoseEvent
<1>. QED
  BY <1>1 DEF LoseEvent, TypeOK, row

LEMMA ReconcileLoadsTyped ==
    ASSUME TypeOK, ReconcileLoads
    PROVE  TypeOK'
<1>1. qty' \in Int
  BY DEF ReconcileLoads, EnforcedQty, TypeOK
<1>2. since' \in 0 .. Patience
  BY Quantities DEF ReconcileLoads, TypeOK
<1>3. recon' \in Passes
  <2>. DEFINE r == [recon EXCEPT !.step = "loaded", !.cached = status, !.qty = qty]
  <2>1. recon \in Passes /\ qty \in Int
    BY DEF TypeOK
  <2>2. r \in Passes
    BY <2>1, CopyTyped DEF Passes
  <2>3. recon' \in {recon, r}
    BY DEF ReconcileLoads
  <2>. HIDE DEF r
  <2>. QED
    BY <2>1, <2>2, <2>3
<1>. QED
  BY <1>1, <1>2, <1>3 DEF ReconcileLoads, TypeOK, exchange

LEMMA WaitingTyped ==
    ASSUME NEW step \in {"idle", "stuck"}, NEW p \in Nat
    PROVE  /\ [Waiting EXCEPT !.step = step, !.pos = p] \in Passes
           /\ [Waiting EXCEPT !.step = step] \in Passes
<1>1. Waiting \in Passes
  BY DEF Waiting, Passes, Copies
<1>. QED
  BY <1>1 DEF Passes

LEMMA ReconcileAsksTyped ==
    ASSUME TypeOK, ReconcileAsks
    PROVE  TypeOK'
<1>1. PICK p \in Ask("reconcile"), listed \in Listed :
          recon' = IF p = NoAnswer
                   THEN [Waiting EXCEPT !.step = "stuck"]
                   ELSE [recon EXCEPT !.step = "seen", !.pos = p, !.listed = listed]
  BY DEF ReconcileAsks
<1>2. listed \in BOOLEAN /\ recon \in Passes
  BY DEF TypeOK
<1>3. CASE p = NoAnswer
  <2>1. recon' \in Passes
    BY <1>1, <1>3, WaitingTyped
  <2>. QED
    BY <2>1 DEF ReconcileAsks, TypeOK, row, exchange
<1>4. CASE p # NoAnswer
  <2>1. p \in Nat
    BY <1>4, AskTyped DEF TypeOK
  <2>2. recon' \in Passes
    BY <1>1, <1>2, <1>4, <2>1 DEF Passes
  <2>. QED
    BY <2>2 DEF ReconcileAsks, TypeOK, row, exchange
<1>. QED
  BY <1>3, <1>4

LEMMA ReconcileCommitsTyped ==
    ASSUME TypeOK, ReconcileCommits
    PROVE  TypeOK'
<1>1. recon.pos \in Nat
  BY DEF TypeOK, Passes
<1>2. recon' \in Passes
  BY <1>1, WaitingTyped DEF ReconcileCommits
<1>3. /\ status' \in STATUSES /\ qty' \in Int
      /\ limit' \in Nat /\ late' \subseteq Orders
  <2>1. CASE ReconcileStops
    <3>1. limit' \in Nat /\ late' \subseteq Orders
      BY <2>1, CancelTyped DEF ReconcileStops, TypeOK
    <3>2. status' \in STATUSES /\ qty' \in Int
      BY <2>1, StatusFacts DEF ReconcileStops, TypeOK
    <3>. QED
      BY <3>1, <3>2
  <2>2. CASE ReconcileSyncs
    <3>1. status' \in STATUSES
      BY <2>2, StatusFacts DEF ReconcileSyncs, TypeOK
    <3>2. qty' \in Int /\ limit' \in Nat /\ late' \subseteq Orders
      BY <1>1, <2>2 DEF ReconcileSyncs, TypeOK
    <3>. QED
      BY <3>1, <3>2
  <2>. QED
    BY <2>1, <2>2 DEF ReconcileCommits
<1>. QED
  BY <1>2, <1>3 DEF ReconcileCommits, TypeOK

LEMMA DetectStuckTyped ==
    ASSUME TypeOK, DetectStuck
    PROVE  TypeOK'
<1>1. since \in 0 .. Patience /\ Patience \in Nat
  BY Quantities DEF TypeOK
<1>2. since' \in 0 .. Patience
  BY <1>1 DEF DetectStuck, HandsOver, Age
<1>3. status' \in STATUSES
  BY StatusFacts DEF DetectStuck, HandsOver, TypeOK
<1>4. recon' \in Passes
  BY DEF DetectStuck, Waiting, Passes, Copies
<1>. QED
  BY <1>2, <1>3, <1>4 DEF DetectStuck, TypeOK, exchange

LEMMA StutterTyped ==
    ASSUME TypeOK, UNCHANGED vars
    PROVE  TypeOK'
BY DEF TypeOK, vars, row, exchange

(* Every variable keeps its type, and STOPPING is never observed for       *)
(* longer than _detect_stopping_stuck allows, whatever may fail.           *)
THEOREM TypeCorrect == Spec => []TypeOK
<1>1. TypeOK /\ [Next]_vars => TypeOK'
  <2>. SUFFICES ASSUME TypeOK, [Next]_vars PROVE TypeOK'
    OBVIOUS
  <2>1. CASE \E plan \in Plans : JobDecides(plan)
    BY <2>1, JobDecidesTyped
  <2>2. CASE \E s \in Stops, mode \in {"close", "cancel_only"} : StopBegins(s, mode)
    BY <2>2, StopBeginsTyped
  <2>3. CASE \E a \in Actors : CallStep(a)
    BY <2>3, CallStepTyped
  <2>4. CASE \E o \in late : LateDies(o) \/ \E x \in 1 .. o.qty : LateFill(o, x)
    BY <2>4, LateDiesTyped, LateFillTyped
  <2>5. CASE LockExpires \/ EntryFills \/ OwnerTrades \/ Acknowledge
    BY <2>5, LockExpiresTyped, EntryFillsTyped, OwnerTradesTyped, AcknowledgeTyped
  <2>6. CASE Deliver \/ LoseEvent
    BY <2>6, DeliverTyped, LoseEventTyped
  <2>7. CASE Reconcile
    BY <2>7, ReconcileLoadsTyped, ReconcileAsksTyped, ReconcileCommitsTyped,
       DetectStuckTyped DEF Reconcile
  <2>8. CASE UNCHANGED vars
    BY <2>8, StutterTyped
  <2>. QED
    BY <2>1, <2>2, <2>3, <2>4, <2>5, <2>6, <2>7, <2>8 DEF Next
<1>. QED
  BY InitTyped, <1>1, PTL DEF Spec

(***************************************************************************)
(* No terminal strategy owns a position.  Each action is shown to preserve *)
(* what CloseInv says of the part it changes; the parts meet in Preserved. *)
(***************************************************************************)
NothingOpens == Resting = 0 /\ Unasked = {}

LEMMA Preserved ==
    ASSUME TypeOK, CloseInv, pos' \in 0 .. pos,
           status' \in TERMINAL_STATUSES \ Unasked => status' = status \/ pos' = 0 \/ blind',
           blind => blind',
           limit' = 0, NoEntry(stream)',
           \A a \in Actors : Prudent(call[a])',
           \/ recon' = recon
           \/ recon'.step = "seen" /\ recon'.pos = 0 => pos = 0
    PROVE  CloseInv'
<1>1. pos \in Nat /\ pos' \in Nat /\ (pos = 0 => pos' = 0)
  BY DEF TypeOK
<1>2. NoOrphanButUnasked'
  BY <1>1 DEF CloseInv, NoOrphanButUnasked
<1>3. (recon.step = "seen" /\ recon.pos = 0 => pos = 0)'
  BY <1>1 DEF CloseInv
<1>. QED
  BY <1>2, <1>3 DEF CloseInv

LEMMA SamePrudent ==
    ASSUME TypeOK, CloseInv, pos' \in 0 .. pos, call' = call
    PROVE  \A a \in Actors : Prudent(call[a])'
BY DEF CloseInv, Prudent, TypeOK

(* One caller moves; the others see the position shrink at most. *)
LEMMA OnePrudent ==
    ASSUME TypeOK, CloseInv, pos' \in 0 .. pos,
           NEW a \in Actors, NEW c, Prudent(c), call' = [call EXCEPT ![a] = c]
    PROVE  \A b \in Actors : Prudent(call[b])'
<1>1. pos = 0 => pos' = 0
  BY DEF TypeOK
<1>2. Prudent(c)'
  BY <1>1 DEF Prudent
<1>. SUFFICES ASSUME NEW b \in Actors PROVE Prudent(call[b])'
  OBVIOUS
<1>3. CASE b = a
  <2>1. call'[b] = c
    BY <1>3 DEF TypeOK
  <2>. QED
    BY <1>2, <2>1 DEF Prudent
<1>4. CASE b # a
  <2>1. call'[b] = call[b] /\ Prudent(call[b])
    BY <1>4 DEF TypeOK, CloseInv
  <2>. QED
    BY <1>1, <2>1 DEF Prudent
<1>. QED
  BY <1>3, <1>4

LEMMA MovePrudent ==
    ASSUME TypeOK, CloseInv, pos' \in 0 .. pos, NEW a \in Actors,
           NEW step \in {"query", "verify", "recheck"}, NEW cached \in Copies,
           Move(a, step, cached),
           step = "query" => call[a].req > 0
    PROVE  \A b \in Actors : Prudent(call[b])'
<1>. DEFINE c == [call[a] EXCEPT !.step = step, !.cached = cached]
<1>1. call[a] \in Calls /\ Prudent(call[a])
  BY DEF TypeOK, CloseInv
<1>2. c.step = step /\ c.req = call[a].req /\ c.plan = call[a].plan
  BY <1>1 DEF Calls
<1>3. call' = [call EXCEPT ![a] = c]
  BY DEF Move
<1>. HIDE DEF c
<1>4. Prudent(c)
  BY <1>1, <1>2 DEF Prudent
<1>. QED
  BY <1>3, <1>4, OnePrudent

LEMMA LeavePrudent ==
    ASSUME TypeOK, CloseInv, pos' \in 0 .. pos, NEW a \in Actors, NEW cached \in Copies,
           Leave(a, cached)
    PROVE  \A b \in Actors : Prudent(call[b])'
<1>. DEFINE c == [Idle EXCEPT !.step = "post", !.plan = call[a].plan, !.cached = cached]
<1>1. Prudent(call[a])
  BY DEF CloseInv
<1>2. Prudent(c)
  BY <1>1 DEF Prudent, Idle
<1>3. call' = [call EXCEPT ![a] = c]
  BY DEF Leave
<1>. HIDE DEF c
<1>. QED
  BY <1>2, <1>3, OnePrudent

LEMMA EndPrudent ==
    ASSUME TypeOK, CloseInv, pos' \in 0 .. pos, NEW a \in Actors, End(a)
    PROVE  \A b \in Actors : Prudent(call[b])'
<1>. DEFINE c == [Idle EXCEPT !.step = IF a = Job THEN "idle" ELSE "done"]
<1>1. Prudent(c)
  BY DEF Prudent, Idle
<1>2. call' = [call EXCEPT ![a] = c]
  BY DEF End
<1>. HIDE DEF c
<1>. QED
  BY <1>1, <1>2, OnePrudent

(* Cancelling leaves no order that adds to the position. *)
LEMMA CancelledStays ==
    ASSUME CloseInv, AllCancelled \/ CancelAll \/ UNCHANGED <<limit, late>>
    PROVE  limit' = 0
BY DEF CancelAll, AllCancelled, CloseInv

LEMMA SamePos ==
    ASSUME TypeOK
    PROVE  pos \in 0 .. pos
BY DEF TypeOK

(* No event of an exit is an entry's. *)
LEMMA NoEntryJoined ==
    ASSUME NEW u \in Seq(Events), NEW v \in Seq(Events), NoEntry(u), NoEntry(v)
    PROVE  u \o v \in Seq(Events) /\ NoEntry(u \o v)
BY DEF NoEntry

LEMMA FillSafe ==
    ASSUME TypeOK, CloseInv, NEW x \in 0 .. pos, NEW done \in BOOLEAN,
           \/ stream' = stream \o Moved(x)
           \/ stream' = stream \o Moved(x) \o Filled(x, done)
    PROVE  NoEntry(stream)'
<1>1. /\ Moved(x) \in Seq(Events) /\ Filled(x, done) \in Seq(Events)
      /\ NoEntry(Moved(x)) /\ NoEntry(Filled(x, done))
  BY EventsTyped DEF NoEntry
<1>2. stream \in Seq(Events) /\ NoEntry(stream)
  BY DEF TypeOK, CloseInv
<1>. DEFINE t == stream \o Moved(x)
<1>3. t \in Seq(Events) /\ NoEntry(t)
  BY <1>1, <1>2, NoEntryJoined
<1>4. stream' = t \/ stream' = t \o Filled(x, done)
  OBVIOUS
<1>. HIDE DEF t
<1>5. NoEntry(t \o Filled(x, done))
  BY <1>1, <1>3, NoEntryJoined
<1>6. NoEntry(stream')
  BY <1>3, <1>4, <1>5
<1>. QED
  BY <1>6 DEF NoEntry

LEMMA TailSafe ==
    ASSUME TypeOK, CloseInv, stream # <<>>, stream' = Tail(stream)
    PROVE  NoEntry(stream)' /\ Head(stream).type # "ENTRY"
BY DEF TypeOK, CloseInv, NoEntry

(***************************************************************************)
(* The steps.                                                              *)
(***************************************************************************)
LEMMA JobDecidesSafe ==
    ASSUME TypeOK, CloseInv, NEW plan \in Plans, JobDecides(plan)
    PROVE  CloseInv'
<1>. DEFINE c == [Idle EXCEPT !.step = "enter", !.plan = plan,
                              !.cached = status, !.req = Amount(plan)]
<1>1. plan \in AllPlans
  BY ActorAssumption
<1>2. Amount(plan) > 0
  BY <1>1, Quantities DEF JobDecides, Due, Amount, Abs, TypeOK, AllPlans
<1>3. Prudent(c)
  BY <1>1, <1>2 DEF Prudent, Idle
<1>4. call' = [call EXCEPT ![Job] = c]
  BY DEF JobDecides
<1>. HIDE DEF c
<1>5. \A a \in Actors : Prudent(call[a])'
  BY <1>3, <1>4, OnePrudent, SamePos DEF JobDecides, Actors
<1>6. limit' = 0
  BY CancelledStays DEF JobDecides
<1>7. NoEntry(stream)'
  BY DEF JobDecides, CloseInv, NoEntry
<1>. QED
  BY <1>5, <1>6, <1>7, Preserved, SamePos DEF JobDecides, row

LEMMA StopBeginsSafe ==
    ASSUME TypeOK, CloseInv, NEW s \in Stops, NEW mode \in {"close", "cancel_only"},
           StopBegins(s, mode)
    PROVE  CloseInv'
<1>. DEFINE next == IF mode = "cancel_only" \/ qty = 0 THEN "post" ELSE "enter"
            c    == [Idle EXCEPT !.step = next, !.cached = status, !.req = Abs(qty)]
<1>1. next = "enter" => Abs(qty) > 0
  BY DEF Abs, TypeOK
<1>2. Prudent(c)
  BY <1>1 DEF Prudent, Idle
<1>3. call' = [call EXCEPT ![s] = c]
  BY DEF StopBegins
<1>. HIDE DEF c
<1>4. \A a \in Actors : Prudent(call[a])'
  BY <1>2, <1>3, OnePrudent, SamePos DEF StopBegins, Actors
<1>5. limit' = 0
  BY CancelledStays DEF StopBegins
<1>6. NoEntry(stream)'
  BY DEF StopBegins, CloseInv, NoEntry
<1>. QED
  BY <1>4, <1>5, <1>6, Preserved, SamePos DEF StopBegins, row

(* Steps that change neither row nor exchange, but the callers. *)
LEMMA OnlyCalls ==
    ASSUME TypeOK, CloseInv, UNCHANGED <<row, exchange, recon, blind>>,
           \A a \in Actors : Prudent(call[a])'
    PROVE  CloseInv'
<1>1. limit' = 0 /\ NoEntry(stream)'
  BY DEF CloseInv, NoEntry, exchange
<1>. QED
  BY <1>1, Preserved, SamePos DEF row, exchange

LEMMA EnterSafe ==
    ASSUME TypeOK, CloseInv, NEW a \in Actors, Enter(a)
    PROVE  CloseInv'
<1>1. call[a].req > 0 /\ call[a].cached \in Copies
  BY DEF Enter, At, CloseInv, Prudent, TypeOK, Calls
<1>2. pos' \in 0 .. pos
  BY SamePos DEF Enter, exchange
<1>3. \A b \in Actors : Prudent(call[b])'
  <2>1. CASE lock = Nobody
    BY <1>1, <1>2, <2>1, MovePrudent DEF Enter
  <2>2. CASE lock # Nobody
    BY <1>2, <2>2, EndPrudent DEF Enter
  <2>. QED
    BY <2>1, <2>2
<1>. QED
  BY <1>3, OnlyCalls DEF Enter

LEMMA QuerySafe ==
    ASSUME TypeOK, CloseInv, NEW a \in Actors, Query(a)
    PROVE  CloseInv'
<1>1. PICK answer \in Ask("query") :
          LET actual == IF answer = NoAnswer THEN call[a].req ELSE answer
          IN  call' = [call EXCEPT ![a] =
                          [@ EXCEPT !.actual = actual,
                                    !.step = IF actual = 0 THEN "none" ELSE "mark"]]
  BY DEF Query
<1>. DEFINE actual == IF answer = NoAnswer THEN call[a].req ELSE answer
            c == [call[a] EXCEPT !.actual = actual,
                                 !.step = IF actual = 0 THEN "none" ELSE "mark"]
<1>2. call[a] \in Calls /\ Prudent(call[a]) /\ call[a].req > 0
  BY DEF TypeOK, CloseInv, Query, At, Prudent
<1>3. actual = 0 => pos = 0
  BY <1>2, AskTyped
<1>4. /\ c.step = IF actual = 0 THEN "none" ELSE "mark"
      /\ c.plan = call[a].plan
  BY <1>2 DEF Calls
<1>5. call' = [call EXCEPT ![a] = c]
  BY <1>1
<1>. HIDE DEF c, actual
<1>6. Prudent(c)
  BY <1>2, <1>3, <1>4 DEF Prudent
<1>7. pos' \in 0 .. pos
  BY SamePos DEF Query, exchange
<1>8. \A b \in Actors : Prudent(call[b])'
  BY <1>5, <1>6, <1>7, OnePrudent
<1>. QED
  BY <1>8, OnlyCalls DEF Query

LEMMA NoPositionSafe ==
    ASSUME TypeOK, CloseInv, NEW a \in Actors, NoPosition(a)
    PROVE  CloseInv'
<1>1. pos = 0
  BY DEF NoPosition, At, CloseInv, Prudent
<1>2. pos' \in 0 .. pos /\ pos' = 0
  BY <1>1, SamePos DEF NoPosition
<1>3. \A b \in Actors : Prudent(call[b])'
  BY <1>2, LeavePrudent, EndPrudent, CopyTyped DEF NoPosition
<1>4. limit' = 0
  BY CancelledStays DEF NoPosition
<1>5. NoEntry(stream)'
  BY DEF NoPosition, CloseInv, NoEntry
<1>. QED
  BY <1>2, <1>3, <1>4, <1>5, Preserved DEF NoPosition

(* STOPPING and the owner's clean-up are not terminal. *)
LEMMA StoreSafe ==
    ASSUME NEW a, NEW s \in {"STOPPING", MANUAL_CLEANUP_REQUIRED}, Store(a, s)
    PROVE  status' \in TERMINAL_STATUSES => status' = status
BY StatusFacts DEF Store

LEMMA MarkSafe ==
    ASSUME TypeOK, CloseInv, NEW a \in Actors, Mark(a)
    PROVE  CloseInv'
<1>. DEFINE w == Least(call[a].req, call[a].actual)
            c == [call[a] EXCEPT !.want = w, !.req = 0, !.step = "place", !.cached = Expired]
<1>1. call[a] \in Calls /\ Prudent(call[a])
  BY DEF TypeOK, CloseInv
<1>2. c.step = "place" /\ c.plan = call[a].plan
  BY <1>1 DEF Calls
<1>3. call' = [call EXCEPT ![a] = c]
  BY DEF Mark
<1>. HIDE DEF c
<1>4. Prudent(c)
  BY <1>1, <1>2 DEF Prudent
<1>5. pos' \in 0 .. pos
  BY SamePos DEF Mark
<1>6. \A b \in Actors : Prudent(call[b])'
  BY <1>3, <1>4, <1>5, OnePrudent
<1>7. limit' = 0
  BY CancelledStays DEF Mark, CancelsOrders
<1>8. status' \in TERMINAL_STATUSES => status' = status
  BY StoreSafe DEF Mark
<1>9. NoEntry(stream)'
  BY DEF Mark, CloseInv, NoEntry
<1>. QED
  BY <1>5, <1>6, <1>7, <1>8, <1>9, Preserved DEF Mark

LEMMA PlaceSafe ==
    ASSUME TypeOK, CloseInv, NEW a \in Actors, Place(a)
    PROVE  CloseInv'
<1>1. PICK x \in 0 .. Least(call[a].want, pos) :
          /\ pos' = pos - x
          /\ stream' = stream \o Moved(x) \o Filled(x, call[a].want - x = 0)
  BY DEF Place
<1>2. call[a].want \in Nat /\ pos \in Nat
  BY DEF TypeOK, Calls
<1>3. x \in 0 .. pos /\ pos' \in 0 .. pos
  BY <1>1, <1>2 DEF Least
<1>4. NoEntry(stream)'
  <2>. DEFINE done == call[a].want - x = 0
  <2>1. stream' = stream \o Moved(x) \o Filled(x, done) /\ done \in BOOLEAN
    BY <1>1
  <2>. HIDE DEF done
  <2>. QED
    BY <1>3, <2>1, FillSafe
<1>5. \A b \in Actors : Prudent(call[b])'
  BY <1>3, MovePrudent, CopyTyped DEF Place
<1>6. limit' = 0
  BY DEF Place, CloseInv
<1>. QED
  BY <1>3, <1>4, <1>5, <1>6, Preserved DEF Place, row

LEMMA PlaceFailsSafe ==
    ASSUME TypeOK, CloseInv, NEW a \in Actors, PlaceFails(a)
    PROVE  CloseInv'
<1>1. pos' \in 0 .. pos
  BY SamePos DEF PlaceFails, exchange
<1>. QED
  BY <1>1, EndPrudent, OnlyCalls DEF PlaceFails

LEMMA PlaceLimitSafe ==
    ASSUME TypeOK, CloseInv, NEW a \in Actors, PlaceLimit(a)
    PROVE  CloseInv'
<1>1. pos' \in 0 .. pos
  BY SamePos DEF PlaceLimit
<1>2. \A b \in Actors : Prudent(call[b])'
  BY <1>1, LeavePrudent, CopyTyped DEF PlaceLimit
<1>3. limit' = 0 /\ NoEntry(stream)'
  BY DEF PlaceLimit, CloseInv, NoEntry
<1>. QED
  BY <1>1, <1>2, <1>3, Preserved DEF PlaceLimit, row

LEMMA VerifySafe ==
    ASSUME TypeOK, CloseInv, NEW a \in Actors, Verify(a)
    PROVE  CloseInv'
<1>1. PICK p \in Ask("verify") :
          \/ Leave(a, status)
          \/ call' = [call EXCEPT ![a] = [@ EXCEPT !.step = "retry", !.cached = Expired,
                                                   !.retry = RetryQty(a, p)]]
  BY DEF Verify
<1>2. pos' \in 0 .. pos
  BY SamePos DEF Verify, exchange
<1>3. \A b \in Actors : Prudent(call[b])'
  <2>. DEFINE r == RetryQty(a, p)
              c == [call[a] EXCEPT !.step = "retry", !.cached = Expired, !.retry = r]
  <2>1. CASE Leave(a, status)
    BY <1>2, <2>1, LeavePrudent, CopyTyped
  <2>2. CASE call' = [call EXCEPT ![a] = c]
    <3>1. call[a] \in Calls /\ Prudent(call[a])
      BY DEF TypeOK, CloseInv
    <3>2. c.step = "retry" /\ c.plan = call[a].plan
      BY <3>1 DEF Calls
    <3>3. Prudent(c)
      <4>. HIDE DEF c
      <4>. QED
        BY <3>1, <3>2 DEF Prudent
    <3>. HIDE DEF c
    <3>. QED
      BY <1>2, <2>2, <3>3, OnePrudent
  <2>. QED
    BY <1>1, <2>1, <2>2
<1>. QED
  BY <1>3, OnlyCalls DEF Verify

LEMMA RetrySafe ==
    ASSUME TypeOK, CloseInv, NEW a \in Actors, Retry(a)
    PROVE  CloseInv'
<1>1. PICK x \in 0 .. Least(call[a].retry, pos) :
          pos' = pos - x /\ stream' = stream \o Moved(x)
  BY DEF Retry
<1>2. call[a].retry \in Nat /\ pos \in Nat
  BY DEF TypeOK, Calls
<1>3. x \in 0 .. pos /\ pos' \in 0 .. pos
  BY <1>1, <1>2 DEF Least
<1>4. NoEntry(stream)'
  BY <1>1, <1>3, FillSafe
<1>5. \A b \in Actors : Prudent(call[b])'
  BY <1>3, MovePrudent, CopyTyped DEF Retry
<1>6. limit' = 0
  BY DEF Retry, CloseInv
<1>. QED
  BY <1>3, <1>4, <1>5, <1>6, Preserved DEF Retry, row

LEMMA RecheckSafe ==
    ASSUME TypeOK, CloseInv, NEW a \in Actors, Recheck(a) \/ RetryFails(a)
    PROVE  CloseInv'
<1>1. pos' \in 0 .. pos
  BY SamePos DEF Recheck, RetryFails, exchange
<1>2. \A b \in Actors : Prudent(call[b])'
  BY <1>1, LeavePrudent, CopyTyped DEF Recheck, RetryFails
<1>3. status' \in TERMINAL_STATUSES => status' = status
  <2>1. \/ status' = status
        \/ Store(a, MANUAL_CLEANUP_REQUIRED)
        \/ status' = MANUAL_CLEANUP_REQUIRED
    BY DEF Recheck, GivesUp, RetryFails
  <2>. QED
    BY <2>1, StoreSafe, StatusFacts
<1>4. limit' = 0 /\ NoEntry(stream)' /\ recon' = recon /\ blind' = blind
  BY DEF Recheck, RetryFails, CloseInv, NoEntry, exchange
<1>. QED
  BY <1>1, <1>2, <1>3, <1>4, Preserved

LEMMA PostSafe ==
    ASSUME TypeOK, CloseInv, NEW a \in Actors, Post(a)
    PROVE  CloseInv'
<1>1. call[a] \in Calls /\ Prudent(call[a])
  BY DEF TypeOK, CloseInv
<1>2. pos' \in 0 .. pos
  BY SamePos DEF Post, exchange
<1>3. \A b \in Actors : Prudent(call[b])'
  <2>1. CASE call[a].plan # "SL"
    BY <1>2, <2>1, EndPrudent DEF Post
  <2>2. CASE call[a].plan = "SL"
    <3>. DEFINE c == [call[a] EXCEPT !.step = "reentry", !.cached = Expired]
    <3>1. c.step = "reentry" /\ c.plan = "SL"
      BY <1>1, <2>2 DEF Calls
    <3>2. call' = [call EXCEPT ![a] = c]
      BY <2>2 DEF Post, Move
    <3>. HIDE DEF c
    <3>3. Prudent(c)
      BY <1>1, <2>2, <3>1 DEF Prudent
    <3>. QED
      BY <1>2, <3>2, <3>3, OnePrudent
  <2>. QED
    BY <2>1, <2>2
<1>4. status' \in TERMINAL_STATUSES \ Unasked => status' = status
  <2>1. CASE call[a].plan = "TP_FINAL"
    BY <1>1, <2>1 DEF Post, Prudent, Unasked
  <2>2. CASE call[a].plan # "TP_FINAL"
    <3>1. status' = status \/ status' = "TP1_DONE_PARTIAL" \/ Store(a, "STOPPING")
      BY <2>2 DEF Post
    <3>. QED
      BY <3>1, StoreSafe, StatusFacts
  <2>. QED
    BY <2>1, <2>2
<1>5. limit' = 0 /\ NoEntry(stream)' /\ recon' = recon /\ blind' = blind
  BY DEF Post, CloseInv, NoEntry, exchange
<1>. QED
  BY <1>2, <1>3, <1>4, <1>5, Preserved

LEMMA MarkReentryReadySafe ==
    ASSUME TypeOK, CloseInv, NEW a \in Actors, MarkReentryReady(a)
    PROVE  CloseInv'
<1>1. pos' \in 0 .. pos
  BY SamePos DEF MarkReentryReady, exchange
<1>2. \A b \in Actors : Prudent(call[b])'
  BY <1>1, EndPrudent DEF MarkReentryReady
<1>3. status' \in Unasked
  <2>1. "SL" \in Plans
    BY DEF MarkReentryReady, At, CloseInv, Prudent
  <2>. QED
    BY <2>1 DEF MarkReentryReady, Unasked
<1>4. limit' = 0 /\ NoEntry(stream)' /\ recon' = recon /\ blind' = blind
  BY DEF MarkReentryReady, CloseInv, NoEntry, exchange
<1>. QED
  BY <1>1, <1>2, <1>3, <1>4, Preserved

LEMMA CallStepSafe ==
    ASSUME TypeOK, CloseInv, NEW a \in Actors, CallStep(a)
    PROVE  CloseInv'
BY EnterSafe, QuerySafe, NoPositionSafe, MarkSafe, PlaceSafe, PlaceFailsSafe, PlaceLimitSafe,
   VerifySafe, RetrySafe, RecheckSafe, PostSafe, MarkReentryReadySafe DEF CallStep

LEMMA LateFillSafe ==
    ASSUME TypeOK, CloseInv, NEW o \in late, NEW x \in 1 .. o.qty, LateFill(o, x)
    PROVE  CloseInv'
<1>1. x \in 0 .. pos /\ pos' = pos - x
  <2>. DEFINE n == o.qty
  <2>1. n \in Nat /\ x \in 1 .. n /\ x <= Least(n, pos) /\ pos \in Nat
    BY DEF LateFill, TypeOK, Orders
  <2>. HIDE DEF n
  <2>2. x \in 0 .. pos
    BY <2>1 DEF Least
  <2>. QED
    BY <2>2 DEF LateFill
<1>2. pos' \in 0 .. pos
  BY <1>1 DEF TypeOK
<1>3. NoEntry(stream)'
  <2>. DEFINE done == x = o.qty
  <2>1. stream' = stream \o Moved(x) \o (IF o.row THEN Filled(x, done) ELSE <<>>)
    BY DEF LateFill
  <2>2. done \in BOOLEAN
    OBVIOUS
  <2>. HIDE DEF done
  <2>3. CASE o.row
    BY <1>1, <2>1, <2>2, <2>3, FillSafe
  <2>4. CASE ~o.row
    <3>1. Moved(x) \in Seq(Events) /\ stream \in Seq(Events)
      BY <1>1, EventsTyped DEF TypeOK
    <3>. DEFINE t == stream \o Moved(x)
    <3>2. t \in Seq(Events) /\ stream' = t \o <<>>
      BY <2>1, <2>4, <3>1
    <3>. HIDE DEF t
    <3>3. stream' = t
      BY <3>2
    <3>. QED
      BY <1>1, <3>3, FillSafe DEF t
  <2>. QED
    BY <2>3, <2>4
<1>4. \A b \in Actors : Prudent(call[b])'
  BY <1>2, SamePrudent DEF LateFill
<1>5. limit' = 0
  BY DEF LateFill, CloseInv
<1>. QED
  BY <1>2, <1>3, <1>4, <1>5, Preserved DEF LateFill, row

(* Steps of the environment that change no caller. *)
LEMMA Environment ==
    ASSUME TypeOK, CloseInv, UNCHANGED <<row, pos, limit, stream, call, recon, blind>>
    PROVE  CloseInv'
<1>1. pos' \in 0 .. pos
  BY SamePos
<1>2. limit' = 0 /\ NoEntry(stream)'
  BY DEF CloseInv, NoEntry
<1>. QED
  BY <1>1, <1>2, SamePrudent, Preserved DEF row

LEMMA OwnerTradesSafe ==
    ASSUME TypeOK, CloseInv, OwnerTrades
    PROVE  CloseInv'
<1>1. PICK x \in 1 .. pos : pos' = pos - x /\ stream' = stream \o Moved(x)
  BY DEF OwnerTrades
<1>2. x \in 0 .. pos /\ pos' \in 0 .. pos
  BY <1>1 DEF TypeOK
<1>3. NoEntry(stream)'
  BY <1>1, <1>2, FillSafe
<1>4. limit' = 0
  BY DEF OwnerTrades, CloseInv
<1>. QED
  BY <1>2, <1>3, <1>4, SamePrudent, Preserved DEF OwnerTrades, row

LEMMA AcknowledgeSafe ==
    ASSUME TypeOK, CloseInv, Acknowledge
    PROVE  CloseInv'
<1>1. PICK p \in Ask("ack") : p <= 0 /\ blind' = (blind \/ p = NoAnswer)
  BY DEF Acknowledge
<1>2. pos' \in 0 .. pos
  BY SamePos DEF Acknowledge, exchange
<1>3. pos' = 0 \/ blind'
  <2>1. CASE p = NoAnswer
    BY <1>1, <2>1
  <2>2. CASE p # NoAnswer
    BY <1>1, <2>2, AskTyped DEF TypeOK, Acknowledge, exchange
  <2>. QED
    BY <2>1, <2>2
<1>4. blind => blind'
  BY <1>1
<1>5. limit' = 0 /\ NoEntry(stream)'
  BY DEF Acknowledge, CloseInv, NoEntry, exchange
<1>6. \A b \in Actors : Prudent(call[b])'
  BY <1>2, SamePrudent DEF Acknowledge
<1>. QED
  BY <1>2, <1>3, <1>4, <1>5, <1>6, Preserved DEF Acknowledge

LEMMA DeliverSafe ==
    ASSUME TypeOK, CloseInv, Deliver
    PROVE  CloseInv'
<1>. DEFINE e == Head(stream)
<1>1. NoEntry(stream)' /\ e.type # "ENTRY"
  BY TailSafe DEF Deliver
<1>2. pos' \in 0 .. pos
  BY SamePos DEF Deliver
<1>3. AccountUpdate(e) \/ ExitFilled(e)
  BY <1>1 DEF Deliver, EntryFilled
<1>. HIDE DEF e
<1>4. status' = status \/ pos' = 0
  <2>1. CASE AccountUpdate(e)
    BY <2>1 DEF AccountUpdate
  <2>2. CASE ExitFilled(e)
    <3>1. PICK p \in Ask("stream") : FlatExit(e, p) \/ UNCHANGED status
      BY <2>2 DEF ExitFilled
    <3>2. CASE FlatExit(e, p)
      <4>1. p = 0 /\ p # NoAnswer
        BY <3>2 DEF FlatExit, SeenEmpty, NoAnswer
      <4>2. pos = 0
        BY <4>1, AskTyped
      <4>. QED
        BY <4>2 DEF Deliver
    <3>. QED
      BY <3>1, <3>2
  <2>. QED
    BY <1>3, <2>1, <2>2
<1>5. \A b \in Actors : Prudent(call[b])'
  BY <1>2, SamePrudent DEF Deliver
<1>6. limit' = 0
  BY DEF Deliver, CloseInv
<1>. QED
  BY <1>1, <1>2, <1>4, <1>5, <1>6, Preserved DEF Deliver

LEMMA LoseEventSafe ==
    ASSUME TypeOK, CloseInv, LoseEvent
    PROVE  CloseInv'
<1>1. pos' \in 0 .. pos
  BY SamePos DEF LoseEvent
<1>2. NoEntry(stream)'
  BY TailSafe DEF LoseEvent
<1>3. \A b \in Actors : Prudent(call[b])'
  BY <1>1, SamePrudent DEF LoseEvent
<1>4. limit' = 0
  BY DEF LoseEvent, CloseInv
<1>. QED
  BY <1>1, <1>2, <1>3, <1>4, Preserved DEF LoseEvent, row

LEMMA ReconcileSafe ==
    ASSUME TypeOK, CloseInv, Reconcile
    PROVE  CloseInv'
<1>1. pos' \in 0 .. pos /\ NoEntry(stream)' /\ call' = call /\ blind' = blind
  BY SamePos DEF Reconcile, ReconcileLoads, ReconcileAsks, ReconcileCommits, DetectStuck,
     exchange, CloseInv, NoEntry
<1>2. \A b \in Actors : Prudent(call[b])'
  BY <1>1, SamePrudent
<1>3. recon \in Passes
  BY DEF TypeOK
<1>4. CASE ReconcileLoads
  <2>1. recon' = recon \/ recon'.step = "loaded"
    BY <1>3, <1>4 DEF ReconcileLoads, Passes
  <2>2. status' = status /\ limit' = 0
    BY <1>4 DEF ReconcileLoads, exchange, CloseInv
  <2>. QED
    BY <1>1, <1>2, <2>1, <2>2, Preserved
<1>5. CASE ReconcileAsks
  <2>1. PICK p \in Ask("reconcile"), listed \in Listed :
          recon' = IF p = NoAnswer
                   THEN [Waiting EXCEPT !.step = "stuck"]
                   ELSE [recon EXCEPT !.step = "seen", !.pos = p, !.listed = listed]
    BY <1>5 DEF ReconcileAsks
  <2>2. CASE p = NoAnswer
    <3>1. recon'.step = "stuck"
      BY <2>1, <2>2 DEF Waiting
    <3>. QED
      BY <1>1, <1>2, <1>5, <3>1, Preserved DEF ReconcileAsks, row, exchange, CloseInv
  <2>3. CASE p # NoAnswer
    <3>1. recon'.pos = p /\ p = pos
      BY <1>3, <2>1, <2>3, AskTyped DEF Passes
    <3>. QED
      BY <1>1, <1>2, <1>5, <3>1, Preserved DEF ReconcileAsks, row, exchange, CloseInv
  <2>. QED
    BY <2>2, <2>3
<1>6. CASE ReconcileCommits
  <2>1. recon'.step = "stuck"
    BY <1>6 DEF ReconcileCommits, Waiting
  <2>2. CASE ReconcileStops
    <3>1. pos' = 0
      BY <1>6, <2>2 DEF ReconcileCommits, ReconcileStops, CloseInv
    <3>2. limit' = 0
      BY <2>2, CancelledStays DEF ReconcileStops
    <3>. QED
      BY <1>1, <1>2, <2>1, <3>1, <3>2, Preserved
  <2>3. CASE ReconcileSyncs
    <3>1. status' = status \/ status' = "STAGE2_OPEN"
      BY <2>3 DEF ReconcileSyncs
    <3>2. limit' = 0
      BY <2>3 DEF ReconcileSyncs, CloseInv
    <3>. QED
      BY <1>1, <1>2, <2>1, <3>1, <3>2, StatusFacts, Preserved
  <2>. QED
    BY <1>6, <2>2, <2>3 DEF ReconcileCommits
<1>7. CASE DetectStuck
  <2>1. status' = status \/ status' = MANUAL_CLEANUP_REQUIRED
    BY <1>7 DEF DetectStuck, HandsOver
  <2>2. recon'.step = "idle" /\ limit' = 0
    BY <1>7 DEF DetectStuck, Waiting, exchange, CloseInv
  <2>. QED
    BY <1>1, <1>2, <2>1, <2>2, StatusFacts, Preserved
<1>. QED
  BY <1>4, <1>5, <1>6, <1>7 DEF Reconcile

LEMMA InitSafe ==
    ASSUME Resting = 0, Init
    PROVE  CloseInv
BY StatusFacts DEF Init, CloseInv, NoOrphanButUnasked, NoEntry, Prudent, Idle, Waiting

(* Where no entry rests that adds to the position, the inductive invariant *)
(* holds, whatever is decided: whoever is about to write a terminal status *)
(* has seen the position empty, except where the code asks nobody.         *)
THEOREM CloseIsSafe ==
    ASSUME Resting = 0
    PROVE  Spec => []CloseInv
<1>1. TypeOK /\ CloseInv /\ [Next]_vars => CloseInv'
  <2>. SUFFICES ASSUME TypeOK, CloseInv, [Next]_vars PROVE CloseInv'
    OBVIOUS
  <2>1. CASE \E plan \in Plans : JobDecides(plan)
    BY <2>1, JobDecidesSafe
  <2>2. CASE \E s \in Stops, mode \in {"close", "cancel_only"} : StopBegins(s, mode)
    BY <2>2, StopBeginsSafe
  <2>3. CASE \E a \in Actors : CallStep(a)
    BY <2>3, CallStepSafe
  <2>4. CASE \E o \in late : LateDies(o) \/ \E x \in 1 .. o.qty : LateFill(o, x)
    BY <2>4, LateFillSafe, Environment DEF LateDies
  <2>5. CASE LockExpires
    BY <2>5, Environment DEF LockExpires, row, exchange
  <2>6. CASE EntryFills
    BY <2>6 DEF EntryFills, CloseInv
  <2>7. CASE OwnerTrades \/ Acknowledge
    BY <2>7, OwnerTradesSafe, AcknowledgeSafe
  <2>8. CASE Deliver \/ LoseEvent
    BY <2>8, DeliverSafe, LoseEventSafe
  <2>9. CASE Reconcile
    BY <2>9, ReconcileSafe
  <2>10. CASE UNCHANGED vars
    BY <2>10, Environment DEF vars, row, exchange
  <2>. QED
    BY <2>1, <2>2, <2>3, <2>4, <2>5, <2>6, <2>7, <2>8, <2>9, <2>10 DEF Next
<1>. QED
  BY InitSafe, <1>1, TypeCorrect, PTL DEF Spec

(* Without a final take profit or a re-entered stop loss no terminal       *)
(* strategy owns a position, however calls fail, events are lost, the lock *)
(* expires and stop requests and the job overlap.                          *)
THEOREM NoOrphanIsLeft ==
    ASSUME NothingOpens
    PROVE  Spec => []NoOrphan
<1>1. CloseInv => NoOrphan
  BY DEF NothingOpens, CloseInv, NoOrphanButUnasked, NoOrphan
<1>. QED
  BY <1>1, CloseIsSafe, PTL DEF NothingOpens
=============================================================================
