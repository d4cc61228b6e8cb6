-------------------------- MODULE StageJob_proofs --------------------------
(***************************************************************************)
(* Theorems about the stage trigger job of StageEntry, where it is never   *)
(* at work together with another entry ([]Alone): it buys on top of stages *)
(* that have bought, and, where a trim closes what it was asked to         *)
(* (~ Partial), on top of no more than the trim leaves.  StageEntry_proofs *)
(* has the ladder.                                                         *)
(***************************************************************************)
EXTENDS StageEntry_proofs

USE ActorAssumption, NumberAssumption

-----------------------------------------------------------------------------
(***************************************************************************)
(* Who moves.                                                              *)
(***************************************************************************)
LEMMA WhoEntersWorks ==
    ASSUME NEW a \in Placers, Enters(a)
    PROVE  Working(a) /\ Active(a)
<1>1. Working(a)
  BY DEF Enters, Fails, TrimAsks, TrimFindsNothing, TrimCloses, Places, PlacesUnanswered,
         CommitsRow, CommitsStage, Working, Busy, At
<1>. QED
  BY <1>1, ActiveSteps

JobSteps == JobLoads \/ JobWaits \/ \E c \in {call[Job].copy, Row} : JobPicks(c)

LEMMA OthersEnter ==
    ASSUME TypeInv, NEW a \in Placers, a # Job, Enters(a)
    PROVE  call'[Job] = call[Job]
<1>. Job \in Actors /\ call \in [Actors -> Calls]
  BY ActorFacts DEF TypeInv, TypeOK
<1>. QED
  BY DEF Enters, Fails, TrimAsks, TrimFindsNothing, TrimCloses, Places, PlacesUnanswered,
         CommitsRow, CommitsStage, Move

(* A step of somebody else leaves the job where it is. *)
LEMMA JobRests ==
    ASSUME TypeInv, [Next]_vars, ~ JobSteps, ~ Enters(Job)
    PROVE  call'[Job] = call[Job]
<1>0. Job \in Actors /\ call \in [Actors -> Calls]
  BY ActorFacts DEF TypeInv, TypeOK
<1>1. ASSUME NEW s \in Starts, StartBegins(s)
      PROVE  call'[Job] = call[Job]
  BY <1>0, <1>1 DEF StartBegins
<1>2. ASSUME NEW c \in Clicks, Click(c)
      PROVE  call'[Job] = call[Job]
  BY <1>0, <1>2 DEF Click, ClickReads, ClickClaims, ClickEnters, Move
<1>3. ASSUME NEW a \in Placers, Enters(a)
      PROVE  call'[Job] = call[Job]
  BY <1>3, OthersEnter
<1>4. ASSUME NEW s \in Stops, Stop(s)
      PROVE  call'[Job] = call[Job]
  BY <1>0, <1>4 DEF Stop, StopCancels, StopCloses, StopFinishes
<1>5. ASSUME \/ \E i \in DOMAIN orders : LimitFills(i)
             \/ Deliver \/ Lose \/ ReconcileLoads
             \/ \E asked \in BOOLEAN : ReconcileCommits(asked)
             \/ UNCHANGED vars
      PROVE  call'[Job] = call[Job]
  BY <1>5 DEF LimitFills, Deliver, Lose, ReconcileLoads, ReconcileCommits, vars
<1>. QED
  BY <1>1, <1>2, <1>3, <1>4, <1>5 DEF Next, JobSteps

(* A stop that has begun is never idle again. *)
Stopped == \E s \in Stops : ~ At(s, "idle")

LEMMA StopsStay ==
    ASSUME TypeInv, [Next]_vars, Stopped
    PROVE  Stopped'
<1>1. PICK s \in Stops : ~ At(s, "idle")
  BY DEF Stopped
<1>2. s \in Actors /\ s \notin Placers /\ call \in [Actors -> Calls]
  BY ActorFacts DEF TypeInv, TypeOK
<1>3. ASSUME NEW a \in Placers,
             \/ Enters(a) \/ StartBegins(a) \/ Click(a)
             \/ a = Job /\ JobSteps
      PROVE  call'[s] = call[s]
  BY <1>2, <1>3
  DEF Enters, Fails, TrimAsks, TrimFindsNothing, TrimCloses, Places, PlacesUnanswered,
      CommitsRow, CommitsStage, Move, StartBegins, Click, ClickReads, ClickClaims, ClickEnters,
      JobSteps, JobLoads, JobWaits, JobPicks
<1>4. ASSUME NEW t \in Stops, Stop(t)
      PROVE  call'[s] = call[s] \/ call'[s].step # "idle"
  <2>1. t \in Actors /\ t # Job /\ Ended(t).step = "done"
    BY ActorFacts DEF Ended, Idle
  <2>. QED
    BY <1>2, <1>4, <2>1 DEF Stop, StopCancels, StopCloses, StopFinishes, TypeInv, TypeOK, Calls
<1>5. ASSUME \/ \E i \in DOMAIN orders : LimitFills(i)
             \/ Deliver \/ Lose \/ ReconcileLoads
             \/ \E asked \in BOOLEAN : ReconcileCommits(asked)
             \/ UNCHANGED vars
      PROVE  call'[s] = call[s]
  BY <1>5 DEF LimitFills, Deliver, Lose, ReconcileLoads, ReconcileCommits, vars
<1>6. call'[s] = call[s] \/ call'[s].step # "idle"
  BY <1>3, <1>4, <1>5, ActorFacts DEF Next, JobSteps
<1>. QED
  BY <1>1, <1>6 DEF Stopped, At

LEMMA ModeStays == [Next]_vars => mode' = mode
BY DEF Next, StartBegins, JobLoads, JobWaits, JobPicks, Click, ClickReads, ClickClaims, ClickEnters,
       Enters, Fails, TrimAsks, TrimFindsNothing, TrimCloses, Places, PlacesUnanswered, CommitsRow,
       CommitsStage, Stop, StopCancels, StopCloses, StopFinishes, LimitFills, Deliver, Lose,
       ReconcileLoads, ReconcileCommits, vars

-----------------------------------------------------------------------------
(***************************************************************************)
(* The job buys on what has bought.  Until something has, or the owner has *)
(* asked for a stop, the strategy holds nothing and the job passes it over.*)
(***************************************************************************)
HasBought == \E n \in Stages : Executed(n)

Unbought ==
    /\ pos = 0 /\ qty = 0
    /\ \A k \in DOMAIN stream : stream[k].type # "EXIT"
    /\ status.kind \in {"WAITING", "PENDING", "STOPPED"}
    /\ ~ Working(Job)
    /\ At(Job, "loaded") => /\ status.kind = "PENDING"
                            /\ call[Job].copy.status.kind = "PENDING"
                            /\ call[Job].copy.qty = 0

StageBefore ==
    Working(Job) /\ mode = "OBV" /\ call[Job].target > 2 => Executed(call[Job].target - 1)

Backed == (HasBought \/ Stopped \/ Unbought) /\ StageBefore

LEMMA FilledIsBought ==
    /\ \A i \in DOMAIN orders : TypeInv /\ orders[i].state = "FILLED" => HasBought
    /\ \A i \in DOMAIN orders' : TypeInv' /\ orders'[i].state = "FILLED" => HasBought'
<1>1. ASSUME NEW i \in DOMAIN orders, TypeInv
      PROVE  orders[i].stage \in Stages
  <2>1. orders \in Seq(Orders)
    BY <1>1 DEF TypeInv, TypeOK
  <2>2. orders[i] \in Orders
    BY <2>1
  <2>. QED
    BY <2>2 DEF Orders
<1>2. ASSUME NEW i \in DOMAIN orders', TypeInv'
      PROVE  orders'[i].stage \in Stages
  <2>1. orders' \in Seq(Orders)
    BY <1>2 DEF TypeInv, TypeOK
  <2>2. orders'[i] \in Orders
    BY <2>1
  <2>. QED
    BY <2>2 DEF Orders
<1>. QED
  BY <1>1, <1>2 DEF HasBought, Executed

LEMMA BoughtForGood ==
    ASSUME TypeInv, [Next]_vars
    PROVE  /\ HasBought => HasBought'
           /\ \A n \in Stages : Executed(n) => Executed(n)'
BY OrdersStay, BoughtStaysBought DEF HasBought

(* An order at market has bought; a resting one has changed nothing else.  *)
LEMMA UnboughtPlaces ==
    ASSUME TypeInv, NEW a \in Placers, Working(a), NEW type \in {"LIMIT", "MARKET"},
           NEW answered \in BOOLEAN, Accepted(a, type, answered), recon' = recon, TypeInv'
    PROVE  HasBought' \/ (pos' = pos /\ stream' = stream)
<1>1. CASE type = "MARKET"
  <2>1. NewOrder(a, type, answered).state = "FILLED"
    BY <1>1 DEF NewOrder
  <2>2. orders' \in Seq(Orders) /\ Len(orders) \in Nat /\ Len(orders') = Len(orders) + 1
    BY OrderAccepted DEF TypeInv, TypeOK
  <2>3. Len(orders) + 1 \in DOMAIN orders' /\ orders'[Len(orders) + 1].state = "FILLED"
    BY <2>1, <2>2, OrderAccepted
  <2>. QED
    BY <2>3, FilledIsBought
<1>2. CASE type # "MARKET"
  BY <1>2 DEF Accepted
<1>. QED
  BY <1>1, <1>2

LEMMA UnboughtEnters ==
    ASSUME TypeInv, TypeInv', EntryInv, Unbought, NEW a \in Placers, Enters(a)
    PROVE  HasBought' \/ Unbought'
<1>1. Working(a) /\ Active(a) /\ a # Job
  BY WhoEntersWorks DEF Unbought
<1>2. call'[Job] = call[Job]
  BY <1>1, OthersEnter
<1>3. ~ Active(Job)
  BY <1>1, ActorFacts DEF EntryInv, Alone
<1>4. ~ At(Job, "loaded")
  BY <1>3 DEF Active, At
<1>5. ~ Working(Job)' /\ ~ At(Job, "loaded")'
  BY <1>2, <1>4 DEF Working, At, Unbought
<1>6. FailedStatus(a, status).kind \in {"WAITING", "PENDING", "STOPPED"}
  BY DEF FailedStatus, Plain, Unbought
<1>7. CASE Fails(a)
  BY <1>5, <1>6, <1>7 DEF Fails, Unbought
<1>8. CASE TrimAsks(a) \/ CommitsRow(a)
  BY <1>5, <1>8 DEF TrimAsks, CommitsRow, row, Unbought
<1>9. CASE TrimFindsNothing(a)
  BY <1>5, <1>9 DEF TrimFindsNothing, Plain, Unbought
<1>10. CASE TrimCloses(a)
  BY <1>10 DEF TrimCloses, Unbought
<1>11. CASE Places(a) \/ PlacesUnanswered(a)
  <2>1. PICK type \in {"LIMIT", "MARKET"}, answered \in BOOLEAN : Accepted(a, type, answered)
    BY <1>11 DEF Places, PlacesUnanswered, OrderTypes
  <2>2. recon' = recon /\ qty' = qty /\ status' \in {status, FailedStatus(a, status)}
    BY <1>11 DEF Places, PlacesUnanswered, row
  <2>3. HasBought' \/ (pos' = pos /\ stream' = stream)
    BY <1>1, <2>1, <2>2, UnboughtPlaces
  <2>. QED
    BY <1>5, <1>6, <2>2, <2>3 DEF Unbought
<1>12. CASE CommitsStage(a)
  BY <1>5, <1>12 DEF CommitsStage, Pending, Unbought
<1>. QED
  BY <1>7, <1>8, <1>9, <1>10, <1>11, <1>12 DEF Enters

(* The job loads a pending strategy without a quantity, and waits. *)
LEMMA UnboughtJob ==
    ASSUME TypeInv, Unbought, JobSteps
    PROVE  Unbought'
<1>. Job \in Actors /\ call \in [Actors -> Calls]
  BY ActorFacts DEF TypeInv, TypeOK
<1>1. CASE JobLoads
  <2>1. status.kind \in {"OPEN", "PENDING"}
    BY <1>1 DEF JobLoads, ACTIVE_STAGE_STATUSES, Open, Pending
  <2>2. status.kind = "PENDING"
    BY <2>1 DEF Unbought
  <2>3. /\ call'[Job] = [call[Job] EXCEPT !.step = "loaded", !.copy = Row]
        /\ UNCHANGED <<status, qty, pos, stream>>
    BY <1>1 DEF JobLoads, row
  <2>4. /\ call'[Job].step = "loaded"
        /\ call'[Job].copy.status = status /\ call'[Job].copy.qty = qty
    BY <2>3 DEF Calls, Row
  <2>. QED
    BY <2>2, <2>3, <2>4 DEF Unbought, Working, Busy, At
<1>2. CASE JobWaits
  BY <1>2 DEF JobWaits, row, Unbought, Working, Busy, At, Idle
<1>3. ASSUME NEW c \in {call[Job].copy, Row}, JobPicks(c)
      PROVE  FALSE
  <2>1. c.status.kind = "PENDING" /\ c.qty = 0
    BY <1>3 DEF JobPicks, Unbought, Row
  <2>. QED
    BY <1>3, <2>1 DEF JobPicks, MayEnter
<1>. QED
  BY <1>1, <1>2, <1>3 DEF JobSteps

LEMMA UnboughtStream ==
    ASSUME TypeInv, EntryInv, Unbought, Deliver \/ Lose
    PROVE  HasBought \/ Unbought'
<1>1. /\ stream # <<>> /\ stream' = Tail(stream) /\ UNCHANGED <<orders, recon, pos, call>>
  BY DEF Deliver, Lose
<1>2. /\ Head(stream) = stream[1] /\ 1 \in DOMAIN stream
      /\ \A k \in DOMAIN stream' : k + 1 \in DOMAIN stream /\ stream'[k] = stream[k + 1]
  BY <1>1, EventTaken
<1>3. \A k \in DOMAIN stream' : stream'[k].type # "EXIT"
  BY <1>2 DEF Unbought
<1>4. CASE Lose
  BY <1>1, <1>3, <1>4 DEF Lose, row, Unbought, Working, At
<1>5. CASE Deliver
  <2>1. Head(stream) \in Events /\ Head(stream).type # "EXIT"
    BY <1>1, <1>2, EventTaken DEF Unbought
  <2>2. Head(stream).type = "ENTRY"
    BY <2>1 DEF Events
  <2>3. Head(stream).order \in DOMAIN orders /\ orders[Head(stream).order].state = "FILLED"
    BY <1>2, <2>2 DEF EntryInv, ReportsAreTrue
  <2>. QED
    BY <2>3, FilledIsBought
<1>. QED
  BY <1>4, <1>5

LEMMA UnboughtRests ==
    ASSUME Unbought, call'[Job] = call[Job], UNCHANGED <<status, pos, stream>>, qty' = 0
    PROVE  Unbought'
BY DEF Unbought, Working, At

LEMMA BoughtStep ==
    ASSUME TypeInv, TypeInv', EntryInv, HasBought \/ Stopped \/ Unbought, [Next]_vars
    PROVE  HasBought' \/ Stopped' \/ Unbought'
<1>1. CASE HasBought \/ Stopped
  BY <1>1, BoughtForGood, StopsStay
<1>. SUFFICES ASSUME Unbought
              PROVE  HasBought' \/ Stopped' \/ Unbought'
  BY <1>1
<1>2. CASE JobSteps
  BY <1>2, UnboughtJob
<1>3. ASSUME NEW a \in Placers, Enters(a)
      PROVE  HasBought' \/ Unbought'
  BY <1>3, UnboughtEnters
<1>4. CASE \/ \E s \in Starts : StartBegins(s)
           \/ \E c \in Clicks : Click(c)
           \/ ReconcileLoads
           \/ UNCHANGED vars
  <2>1. UNCHANGED <<status, qty, pos, stream>>
    BY <1>4 DEF StartBegins, Click, ClickReads, ClickClaims, ClickEnters, ReconcileLoads, row, vars
  <2>2. call'[Job] = call[Job]
    BY <1>4, ActorFacts DEF StartBegins, Click, ClickReads, ClickClaims, ClickEnters, Move,
                            ReconcileLoads, vars, TypeInv, TypeOK
  <2>. QED
    BY <2>1, <2>2, UnboughtRests DEF Unbought
<1>5. ASSUME NEW s \in Stops, Stop(s)
      PROVE  Stopped'
  <2>1. CASE StopCancels(s)
    <3>1. call'[s].step \in {"last", "close"}
      BY <2>1, ActorFacts DEF StopCancels, TypeInv, TypeOK, Calls
    <3>. QED
      BY <3>1 DEF Stopped, At
  <2>2. CASE StopCloses(s) \/ StopFinishes(s)
    BY <2>2, StopsStay DEF StopCloses, StopFinishes, Stopped, At
  <2>. QED
    BY <1>5, <2>1, <2>2 DEF Stop
<1>6. ASSUME NEW i \in DOMAIN orders, LimitFills(i)
      PROVE  HasBought'
  <2>1. orders \in Seq(Orders)
    BY DEF TypeInv, TypeOK
  <2>2. orders[i] \in Orders
    BY <2>1
  <2>3. i \in DOMAIN orders' /\ orders'[i].state = "FILLED"
    BY <1>6, <2>2 DEF LimitFills, Orders
  <2>. QED
    BY <2>3, FilledIsBought
<1>7. CASE Deliver \/ Lose
  BY <1>7, UnboughtStream, BoughtForGood
<1>8. ASSUME NEW asked \in BOOLEAN, ReconcileCommits(asked)
      PROVE  Unbought'
  BY <1>8, UnboughtRests DEF ReconcileCommits, Unbought
<1>. QED
  BY <1>2, <1>3, <1>4, <1>5, <1>6, <1>7, <1>8 DEF Next, JobSteps, Click, Stop

(* By OBV the stage before has to be marked, and what is marked and not    *)
(* held by a click has bought.                                             *)
LEMMA StageBeforeStep ==
    ASSUME TypeInv, EntryInv, StageBefore, [Next]_vars
    PROVE  StageBefore'
<1>. SUFFICES ASSUME Working(Job)', mode' = "OBV", call'[Job].target > 2,
                     NEW n, n = call'[Job].target - 1
              PROVE  Executed(n)'
  BY DEF StageBefore
<1>0. Job \in Actors /\ call \in [Actors -> Calls] /\ mode = "OBV"
  BY ActorFacts, ModeStays DEF TypeInv, TypeOK
<1>1. ASSUME Working(Job), call'[Job].target = call[Job].target
      PROVE  Executed(n)'
  <2>1. call[Job].target \in Stages
    BY <1>1, ActorFacts DEF TypeInv, TargetsAreStages
  <2>2. n \in Stages
    BY <1>1, <2>1, Numbers DEF Stages
  <2>. QED
    BY <1>0, <1>1, <2>2, BoughtForGood DEF StageBefore
<1>2. CASE Enters(Job)
  <2>1. call'[Job] = Ended(Job) \/ call'[Job].target = call[Job].target
    BY <1>0, <1>2 DEF Enters, Fails, TrimAsks, TrimFindsNothing, TrimCloses, Places,
                      PlacesUnanswered, CommitsRow, CommitsStage, Move, Calls
  <2>2. call'[Job] # Ended(Job)
    BY DEF Ended, Idle, Working, Busy
  <2>. QED
    BY <1>1, <1>2, <2>1, <2>2, WhoEntersWorks, ActorFacts
<1>3. CASE JobLoads \/ JobWaits
  BY <1>0, <1>3 DEF JobLoads, JobWaits, Working, Busy, Idle, Calls
<1>4. ASSUME NEW c \in {call[Job].copy, Row}, JobPicks(c)
      PROVE  Executed(n)'
  <2>1. At(Job, "loaded") /\ MayEnter(c, c.stage + 1) /\ call'[Job].target = c.stage + 1
    BY <1>0, <1>4 DEF JobPicks, Idle
  <2>2. c.stage \in 0 .. Last
    BY <1>0 DEF Row, Calls, Copies, TypeInv, TypeOK
  <2>3. c.stage \in Stages /\ c.stage # 1 /\ triggered[c.stage]
    BY <1>0, <2>1, <2>2, Numbers DEF MayEnter, Stages
  <2>4. \A k \in Clicks : ~ Working(k)
    BY <2>1, ActiveSteps, ActorFacts DEF EntryInv, Alone
  <2>5. Executed(c.stage)
    BY <2>3, <2>4 DEF EntryInv, MarkedIsBought
  <2>6. n = c.stage
    BY <2>1, <2>2, Numbers
  <2>. QED
    BY <2>3, <2>5, <2>6, BoughtForGood
<1>5. CASE ~ JobSteps /\ ~ Enters(Job)
  <2>1. call'[Job] = call[Job]
    BY <1>5, JobRests
  <2>. QED
    BY <1>1, <2>1 DEF Working
<1>. QED
  BY <1>2, <1>3, <1>4, <1>5 DEF JobSteps

(* The job adds a stage only to one that has bought, in OBV mode to the    *)
(* stage right below (a stop in the middle of its pass apart), unless      *)
(* another entry is at work together with it.                              *)
THEOREM TheJobClimbs == Spec /\ []Alone => JobClimbsOnFills
<1>1. Init => Backed
  BY ActorFacts DEF Init, Backed, Unbought, StageBefore, Working, Busy, At, Idle, Plain
<1>2. /\ TypeInv /\ EntryInv /\ Backed /\ Alone' /\ [Next]_vars
      => TypeInv' /\ EntryInv' /\ Backed'
  BY StepTyped, StepSafe, BoughtStep, StageBeforeStep DEF Backed
<1>3. TypeInv /\ Backed /\ [Next]_vars
      => [Places(Job) => LET n == call[Job].target IN
            /\ (\E m \in Stages : Executed(m)) \/ (\E s \in Stops : ~ At(s, "idle"))
            /\ mode = "OBV" /\ n > 2 => Executed(n - 1)]_vars
  <2>1. Places(Job) => Working(Job)
    BY DEF Places, Working, Busy, At
  <2>. QED
    BY <2>1 DEF Backed, HasBought, Stopped, Unbought, StageBefore
<1>. QED
  BY <1>1, <1>2, <1>3, InitTyped, InitClimbs, PTL DEF Spec, JobClimbsOnFills

-----------------------------------------------------------------------------
(***************************************************************************)
(* The trim.  What it may rely on: an order at market fills at once, and   *)
(* the job never places the first stage, for which nothing is trimmed: a   *)
(* status it looks at is written after a stage was (or a click is about to *)
(* write one).                                                             *)
(***************************************************************************)
MarketAtOnce == \A i \in DOMAIN orders : orders[i].type = "MARKET" => orders[i].state = "FILLED"

RowWritten == stage >= 1 \/ \E a \in Placers : At(a, "written")

StageReached ==
    /\ Active(Job) => stage >= 1
    /\ status.kind = "OPEN" => RowWritten
    /\ \A i \in DOMAIN orders : orders[i].known => RowWritten

Trimmed ==
    TrimOn /\ AllMarket =>
        /\ At(Job, "trim") => pos <= call[Job].seen
        /\ At(Job, "place") => pos <= Keep

TrimInv == MarketAtOnce /\ StageReached /\ Trimmed

(* The rows of the orders: no type changes, only a resting order moves, and*)
(* a row is known when its placer has committed it.                        *)
RowsKept ==
    \A i \in DOMAIN orders :
        /\ i \in DOMAIN orders'
        /\ orders'[i].type = orders[i].type
        /\ orders'[i].state = orders[i].state \/ orders[i].state = "RESTING"

NoneNew == DOMAIN orders' = DOMAIN orders /\ \A i \in DOMAIN orders : orders'[i].known = orders[i].known

Commits == \E a \in Placers : CommitsRow(a) \/ CommitsStage(a)
Enter   == \E a \in Placers : Places(a) \/ PlacesUnanswered(a)

LEMMA AcceptedRows ==
    ASSUME TypeInv, Enter
    PROVE  /\ RowsKept
           /\ \A i \in DOMAIN orders' :
                 \/ i \in DOMAIN orders /\ orders'[i] = orders[i]
                 \/ /\ orders'[i].type = "MARKET" => orders'[i].state = "FILLED"
                    /\ ~ orders'[i].known
<1>1. PICK a \in Placers : Places(a) \/ PlacesUnanswered(a)
  BY DEF Enter
<1>2. Working(a) /\ recon' = recon
  BY <1>1 DEF Places, PlacesUnanswered, Working, Busy, At
<1>3. PICK type \in {"LIMIT", "MARKET"}, answered \in BOOLEAN : Accepted(a, type, answered)
  BY <1>1 DEF Places, PlacesUnanswered, OrderTypes
<1>4. /\ orders' \in Seq(Orders) /\ Len(orders') = Len(orders) + 1
      /\ \A i \in DOMAIN orders : i \in DOMAIN orders' /\ orders'[i] = orders[i]
      /\ orders'[Len(orders) + 1] = NewOrder(a, type, answered)
  BY <1>2, <1>3, OrderAccepted
<1>5. DOMAIN orders = 1 .. Len(orders) /\ Len(orders) \in Nat
  BY DEF TypeInv, TypeOK
<1>6. \A i \in DOMAIN orders' : i \in DOMAIN orders \/ i = Len(orders) + 1
  BY <1>4, <1>5
<1>7. /\ NewOrder(a, type, answered).type = "MARKET"
            => NewOrder(a, type, answered).state = "FILLED"
      /\ ~ NewOrder(a, type, answered).known
  BY DEF NewOrder
<1>. QED
  BY <1>4, <1>6, <1>7 DEF RowsKept

LEMMA WhatRowsDo ==
    ASSUME TypeInv, [Next]_vars, ~ Enter
    PROVE  /\ RowsKept /\ DOMAIN orders' = DOMAIN orders
           /\ NoneNew \/ Commits
<1>1. \A i \in DOMAIN orders : orders[i] \in Orders
  <2>1. orders \in Seq(Orders)
    BY DEF TypeInv, TypeOK
  <2>. QED
    BY <2>1
<1>2. ASSUME orders' = orders
      PROVE  RowsKept /\ NoneNew
  BY <1>2 DEF RowsKept, NoneNew
<1>3. ASSUME AllCancelled
      PROVE  RowsKept /\ NoneNew
  <2>1. \A o \in Orders : /\ [o EXCEPT !.state = "CANCELED"].type = o.type
                          /\ [o EXCEPT !.state = "CANCELED"].known = o.known
    BY DEF Orders
  <2>2. DOMAIN orders' = DOMAIN orders
    BY <1>3 DEF AllCancelled
  <2>3. \A i \in DOMAIN orders :
            \/ orders'[i] = orders[i]
            \/ orders[i].state = "RESTING" /\ orders'[i] = [orders[i] EXCEPT !.state = "CANCELED"]
    BY <1>3 DEF AllCancelled, Resting
  <2>. QED
    BY <1>1, <2>1, <2>2, <2>3 DEF RowsKept, NoneNew
<1>4. ASSUME NEW a \in Placers, orders' = Known(a)
      PROVE  RowsKept /\ DOMAIN orders' = DOMAIN orders
  <2>1. \A o \in Orders : /\ [o EXCEPT !.known = TRUE].type = o.type
                          /\ [o EXCEPT !.known = TRUE].state = o.state
    BY DEF Orders
  <2>2. DOMAIN orders' = DOMAIN orders
    BY <1>4 DEF Known
  <2>3. \A i \in DOMAIN orders :
            orders'[i] = orders[i] \/ orders'[i] = [orders[i] EXCEPT !.known = TRUE]
    BY <1>4 DEF Known
  <2>. QED
    BY <1>1, <2>1, <2>2, <2>3 DEF RowsKept
<1>5. ASSUME NEW i \in DOMAIN orders, LimitFills(i)
      PROVE  RowsKept /\ NoneNew
  <2>1. \A o \in Orders : /\ [o EXCEPT !.state = "FILLED"].type = o.type
                          /\ [o EXCEPT !.state = "FILLED"].known = o.known
    BY DEF Orders
  <2>2. DOMAIN orders' = DOMAIN orders
    BY <1>5 DEF LimitFills
  <2>3. \A j \in DOMAIN orders :
            \/ orders'[j] = orders[j]
            \/ orders[j].state = "RESTING" /\ orders'[j] = [orders[j] EXCEPT !.state = "FILLED"]
    BY <1>5 DEF LimitFills, Resting
  <2>. QED
    BY <1>1, <2>1, <2>2, <2>3 DEF RowsKept, NoneNew
<1>6. ASSUME NEW a \in Placers, Enters(a)
      PROVE  /\ RowsKept /\ DOMAIN orders' = DOMAIN orders
             /\ NoneNew \/ Commits
  <2>1. CASE CommitsRow(a) \/ CommitsStage(a)
    BY <1>4, <2>1 DEF CommitsRow, CommitsStage, Commits
  <2>2. CASE Fails(a) \/ TrimAsks(a) \/ TrimFindsNothing(a) \/ TrimCloses(a)
    <3>1. orders' = orders \/ AllCancelled
      BY <2>2 DEF Fails, TrimAsks, TrimFindsNothing, TrimCloses
    <3>. QED
      BY <1>2, <1>3, <3>1 DEF NoneNew
  <2>. QED
    BY <1>6, <2>1, <2>2 DEF Enters, Enter
<1>7. ASSUME NEW s \in Stops, Stop(s)
      PROVE  RowsKept /\ NoneNew
  <2>1. orders' = orders \/ AllCancelled
    BY <1>7 DEF Stop, StopCancels, StopCloses, StopFinishes
  <2>. QED
    BY <1>2, <1>3, <2>1
<1>8. ASSUME \/ \E s \in Starts : StartBegins(s)
             \/ JobSteps
             \/ \E c \in Clicks : Click(c)
             \/ Deliver \/ Lose \/ ReconcileLoads
             \/ \E asked \in BOOLEAN : ReconcileCommits(asked)
             \/ UNCHANGED vars
      PROVE  RowsKept /\ NoneNew
  <2>1. orders' = orders
    BY <1>8 DEF StartBegins, JobSteps, JobLoads, JobWaits, JobPicks, Click, ClickReads, ClickClaims,
                ClickEnters, Deliver, Lose, ReconcileLoads, ReconcileCommits, vars
  <2>. QED
    BY <1>2, <2>1
<1>9. NoneNew => DOMAIN orders' = DOMAIN orders
  BY DEF NoneNew
<1>. QED
  BY <1>5, <1>6, <1>7, <1>8, <1>9 DEF Next, JobSteps

LEMMA RowsStay ==
    ASSUME TypeInv, [Next]_vars
    PROVE  /\ RowsKept
           /\ AllMarket' => AllMarket
           /\ MarketAtOnce => MarketAtOnce'
<1>1. RowsKept
  BY WhatRowsDo, AcceptedRows
<1>2. AllMarket' => AllMarket
  BY <1>1 DEF RowsKept, AllMarket
<1>3. ASSUME Enter, MarketAtOnce
      PROVE  MarketAtOnce'
  BY <1>3, AcceptedRows DEF MarketAtOnce
<1>4. ASSUME ~ Enter, MarketAtOnce
      PROVE  MarketAtOnce'
  BY <1>1, <1>4, WhatRowsDo DEF RowsKept, MarketAtOnce
<1>. QED
  BY <1>1, <1>2, <1>3, <1>4

-----------------------------------------------------------------------------
(* The current stage only grows, and who has written its row goes on to    *)
(* write the stage.                                                        *)
LEMMA WrittenStays ==
    ASSUME TypeInv, EntryInv, [Next]_vars
    PROVE  stage' >= stage /\ (RowWritten => RowWritten')
<1>0. stage \in Nat /\ call \in [Actors -> Calls] /\ Placers \subseteq Actors
  BY ActorFacts DEF TypeInv, TypeOK
<1>1. ASSUME NEW a \in Placers, CommitsStage(a)
      PROVE  stage' = stage + 1
  <2>1. Working(a)
    BY <1>1 DEF CommitsStage, Working, Busy, At
  <2>. QED
    BY <1>1, <2>1 DEF CommitsStage, EntryInv, NextStageOnly
<1>2. ASSUME NEW b \in Placers, At(b, "written"), ~ \E a \in Placers : CommitsStage(a)
      PROVE  At(b, "written")'
  <2>1. ASSUME NEW a \in Placers, Enters(a) \/ StartBegins(a) \/ Click(a) \/ (a = Job /\ JobSteps)
        PROVE  call'[b] = call[b]
    <3>1. a # b
      BY <1>2, <2>1 DEF Enters, Fails, TrimAsks, TrimFindsNothing, TrimCloses, Places,
                        PlacesUnanswered, CommitsRow, StartBegins, Click, ClickReads, ClickClaims,
                        ClickEnters, JobSteps, JobLoads, JobWaits, JobPicks, At
    <3>. QED
      BY <1>0, <2>1, <3>1
      DEF Enters, Fails, TrimAsks, TrimFindsNothing, TrimCloses, Places, PlacesUnanswered,
          CommitsRow, CommitsStage, Move, StartBegins, Click, ClickReads, ClickClaims, ClickEnters,
          JobSteps, JobLoads, JobWaits, JobPicks
  <2>2. ASSUME NEW s \in Stops, Stop(s)
        PROVE  call'[b] = call[b]
    BY <1>0, <2>2, ActorFacts DEF Stop, StopCancels, StopCloses, StopFinishes
  <2>3. ASSUME \/ \E i \in DOMAIN orders : LimitFills(i)
               \/ Deliver \/ Lose \/ ReconcileLoads
               \/ \E asked \in BOOLEAN : ReconcileCommits(asked)
               \/ UNCHANGED vars
        PROVE  call'[b] = call[b]
    BY <2>3 DEF LimitFills, Deliver, Lose, ReconcileLoads, ReconcileCommits, vars
  <2>. QED
    BY <1>2, <2>1, <2>2, <2>3, ActorFacts DEF Next, JobSteps, At
<1>3. ASSUME ~ \E a \in Placers : CommitsStage(a)
      PROVE  stage' = stage
  BY <1>3 DEF Next, StartBegins, JobLoads, JobWaits, JobPicks, Click, ClickReads, ClickClaims,
              ClickEnters, Enters, Fails, TrimAsks, TrimFindsNothing, TrimCloses, Places,
              PlacesUnanswered, CommitsRow, Stop, StopCancels, StopCloses, StopFinishes, LimitFills,
              Deliver, Lose, ReconcileLoads, ReconcileCommits, row, vars
<1>. QED
  BY <1>0, <1>1, <1>2, <1>3 DEF RowWritten

LEMMA ReachedStep ==
    ASSUME TypeInv, EntryInv, StageReached, ~ Together \/ Alone', [Next]_vars
    PROVE  StageReached'
<1>0. /\ stage \in Nat /\ stage' \in Nat /\ stage' >= stage
      /\ Job \in Actors /\ call \in [Actors -> Calls]
  BY WrittenStays, StepTyped, ActorFacts DEF TypeInv, TypeOK
<1>1. Commits => RowWritten'
  <2>1. ASSUME NEW a \in Placers, CommitsRow(a)
        PROVE  RowWritten'
    BY <2>1, ActorFacts DEF CommitsRow, Move, RowWritten, At, TypeInv, TypeOK, Calls
  <2>2. ASSUME NEW a \in Placers, CommitsStage(a)
        PROVE  stage' >= 1
    <3>1. Working(a)
      BY <2>2 DEF CommitsStage, Working, Busy, At
    <3>. QED
      BY <1>0, <2>2, <3>1 DEF CommitsStage, EntryInv, NextStageOnly
  <2>. QED
    BY <2>1, <2>2 DEF Commits, RowWritten
<1>2. ASSUME NEW i \in DOMAIN orders', orders'[i].known
      PROVE  RowWritten'
  <2>1. CASE Enter
    BY <1>2, <2>1, AcceptedRows, WrittenStays DEF StageReached
  <2>2. CASE ~ Enter /\ NoneNew
    BY <1>2, <2>2, WrittenStays DEF StageReached, NoneNew
  <2>. QED
    BY <1>1, <2>1, <2>2, WhatRowsDo
<1>3. ASSUME status'.kind = "OPEN"
      PROVE  RowWritten'
  <2>1. CASE status' = status
    BY <1>3, <2>1, WrittenStays DEF StageReached
  <2>2. CASE Deliver /\ status' # status
    <3>1. /\ Head(stream).type = "ENTRY" /\ orders[Head(stream).order].known
          /\ stream # <<>> /\ stream' = Tail(stream) /\ UNCHANGED <<orders, recon>>
      BY <1>3, <2>2 DEF Deliver, EntryFilled, ExitFilled, Plain
    <3>2. Head(stream) = stream[1] /\ 1 \in DOMAIN stream
      BY <3>1, EventTaken
    <3>3. Head(stream).order \in DOMAIN orders
      BY <3>1, <3>2 DEF EntryInv, ReportsAreTrue
    <3>. QED
      BY <3>1, <3>3, WrittenStays DEF StageReached
  <2>3. ASSUME NEW asked \in BOOLEAN, ReconcileCommits(asked)
        PROVE  RowWritten'
    <3>1. recon # NoJob
      BY <2>3 DEF ReconcileCommits
    <3>2. recon.kind = "PENDING" /\ recon \in STATUSES
      BY <3>1 DEF TypeInv, TypeOK, ReportsExist
    <3>3. recon.stage \in Stages /\ recon.stage <= stage
      BY <3>2, StatusFacts DEF EntryInv, ReportsAreTrue
    <3>4. stage >= 1
      <4>1. recon.stage \in Nat /\ recon.stage >= 1
        BY <3>3, Numbers
      <4>. QED
        BY <1>0, <3>3, <4>1
    <3>. QED
      BY <3>4, WrittenStays DEF RowWritten
  <2>. QED
    BY <1>3, <2>1, <2>2, <2>3, OnlyTwoOpen
<1>4. ASSUME Active(Job)'
      PROVE  stage' >= 1
  <2>1. CASE Active(Job)
    BY <1>0, <2>1 DEF StageReached
  <2>2. CASE JobLoads
    <3>1. \A b \in Placers \ {Job} : ~ Active(b)
      <4>1. Active(Job)' /\ Free(Job) /\ OthersRest(Job)
        BY <1>0, <1>4, <2>2, ActorFacts DEF JobLoads, OthersRest
      <4>. QED
        BY <4>1, BeginsAlone, ActorFacts DEF Unclaimed
    <3>2. ~ \E b \in Placers : At(b, "written")
      BY <2>2, <3>1 DEF JobLoads, At, Active
    <3>3. CASE status.kind = "OPEN"
      <4>1. stage >= 1
        BY <3>2, <3>3 DEF StageReached, RowWritten
      <4>. QED
        BY <1>0, <4>1
    <3>4. CASE status.kind = "PENDING"
      <4>1. status.stage \in Stages /\ status.stage <= stage
        BY <3>4, StatusFacts DEF EntryInv, ReportsAreTrue, TypeInv, TypeOK
      <4>2. status.stage \in Nat /\ status.stage >= 1
        BY <4>1, Numbers
      <4>. QED
        BY <1>0, <4>1, <4>2
    <3>. QED
      BY <2>2, <3>3, <3>4 DEF JobLoads, ACTIVE_STAGE_STATUSES, Open, Pending
  <2>3. CASE ~ Active(Job) /\ ~ JobLoads
    <3>1. ~ JobSteps
      BY <2>3 DEF JobSteps, JobWaits, JobPicks, Active, At
    <3>2. ~ Enters(Job)
      BY <2>3, WhoEntersWorks, ActorFacts
    <3>3. call'[Job] = call[Job]
      BY <3>1, <3>2, JobRests
    <3>. QED
      BY <1>4, <2>3, <3>3 DEF Active, At
  <2>. QED
    BY <2>1, <2>2, <2>3
<1>. QED
  BY <1>2, <1>3, <1>4 DEF StageReached

-----------------------------------------------------------------------------
(* Apart from the entries only a trim moves the position up or down; what  *)
(* a stop closes makes it smaller.                                         *)
LEMMA PositionShrinks ==
    ASSUME TypeInv, [Next]_vars, \A a \in Placers : ~ Enters(a), \A i \in DOMAIN orders : ~ LimitFills(i)
    PROVE  pos' <= pos
<1>1. pos \in Nat /\ call \in [Actors -> Calls]
  BY DEF TypeInv, TypeOK
<1>2. ASSUME NEW s \in Stops, StopCloses(s)
      PROVE  pos' <= pos
  <2>1. call[s].seen \in Nat
    BY <1>1, ActorFacts DEF Calls
  <2>2. pos' = pos \/ pos' = pos - Least(call[s].seen, pos)
    BY <1>2 DEF StopCloses
  <2>. QED
    BY <1>1, <2>1, <2>2 DEF Least
<1>3. ASSUME ~ \E s \in Stops : StopCloses(s)
      PROVE  pos' = pos
  BY <1>3 DEF Next, StartBegins, JobLoads, JobWaits, JobPicks, Click, ClickReads, ClickClaims,
              ClickEnters, Stop, StopCancels, StopFinishes, Deliver, Lose, ReconcileLoads,
              ReconcileCommits, vars
<1>. QED
  BY <1>1, <1>2, <1>3

LEMMA JobTrims ==
    ASSUME TypeInv, EntryInv, StageReached, Trimmed, ~ Partial, TrimOn, AllMarket, Enters(Job)
    PROVE  /\ At(Job, "trim")' => pos' <= call'[Job].seen
           /\ At(Job, "place")' => pos' <= Keep
<1>1. /\ Job \in Actors /\ call \in [Actors -> Calls] /\ call[Job] \in Calls
      /\ pos \in Nat /\ Keep \in Nat /\ call[Job].seen \in Nat
  BY ActorFacts DEF TypeInv, TypeOK, Calls
<1>2. CASE TrimAsks(Job)
  <2>1. Working(Job) /\ Active(Job) /\ Job \notin Clicks
    BY <1>2, WhoEntersWorks, ActorFacts
  <2>2. call[Job].target > 1
    <3>1. call[Job].target = stage + 1 /\ stage >= 1 /\ stage \in Nat
      BY <2>1, ActorFacts DEF EntryInv, NextStageOnly, StageReached, TypeInv, TypeOK
    <3>. QED
      BY <3>1
  <2>3. pos' = pos
    BY <1>2 DEF TrimAsks
  <2>4. \/ call'[Job].step = "trim" /\ call'[Job].seen = pos
        \/ call'[Job].step = "place" /\ pos <= Keep
    BY <1>1, <1>2, <2>1, <2>2 DEF TrimAsks, Trims, Move, Calls
  <2>. QED
    BY <1>1, <2>3, <2>4 DEF At
<1>3. CASE TrimCloses(Job)
  <2>1. pos <= call[Job].seen
    BY <1>3 DEF TrimCloses, Trimmed
  <2>2. pos' = pos - Least(call[Job].seen - Keep, pos) /\ call'[Job].step = "place"
    BY <1>1, <1>3 DEF TrimCloses, Calls
  <2>3. pos' <= Keep
    BY <1>1, <2>1, <2>2 DEF Least
  <2>. QED
    BY <2>2, <2>3 DEF At
<1>4. CASE ~ TrimAsks(Job) /\ ~ TrimCloses(Job)
  <2>1. call'[Job].step \in {"idle", "placed", "written"}
    BY <1>1, <1>4 DEF Enters, Fails, TrimFindsNothing, Places, PlacesUnanswered, CommitsRow,
                      CommitsStage, Move, Ended, Idle, Calls
  <2>. QED
    BY <2>1 DEF At
<1>. QED
  BY <1>2, <1>3, <1>4

LEMMA TrimmedStep ==
    ASSUME TypeInv, EntryInv, TrimInv, ~ Partial, [Next]_vars
    PROVE  Trimmed'
<1>. SUFFICES ASSUME TrimOn, AllMarket'
              PROVE  /\ At(Job, "trim")' => pos' <= call'[Job].seen
                     /\ At(Job, "place")' => pos' <= Keep
  BY DEF Trimmed
<1>1. /\ Job \in Actors /\ call \in [Actors -> Calls]
      /\ pos \in Nat /\ Keep \in Nat /\ call[Job].seen \in Nat
  BY ActorFacts DEF TypeInv, TypeOK, Calls
<1>2. AllMarket
  BY RowsStay
<1>3. CASE Enters(Job)
  BY <1>2, <1>3, JobTrims DEF TrimInv
<1>4. CASE JobSteps
  <2>1. Idle.step = "idle"
    BY DEF Idle
  <2>2. call'[Job].step \in {"idle", "loaded", "gates"}
    <3>1. CASE JobLoads
      BY <1>1, <3>1 DEF JobLoads, Calls
    <3>2. CASE JobWaits
      BY <1>1, <2>1, <3>2 DEF JobWaits
    <3>3. ASSUME NEW c \in {call[Job].copy, Row}, JobPicks(c)
          PROVE  call'[Job].step = "gates"
      BY <1>1, <3>3 DEF JobPicks, Idle
    <3>. QED
      BY <1>4, <3>1, <3>2, <3>3 DEF JobSteps
  <2>. QED
    BY <2>2 DEF At
<1>5. CASE ~ Enters(Job) /\ ~ JobSteps
  <2>1. call'[Job] = call[Job]
    BY <1>5, JobRests
  <2>2. CASE Active(Job)
    <3>1. ASSUME NEW a \in Placers, Enters(a)
          PROVE  FALSE
      BY <1>5, <2>2, <3>1, WhoEntersWorks, ActorFacts DEF EntryInv, Alone
    <3>2. ASSUME NEW i \in DOMAIN orders, LimitFills(i)
          PROVE  FALSE
      BY <1>2, <3>2 DEF LimitFills, Resting, AllMarket, TrimInv, MarketAtOnce
    <3>3. pos' <= pos /\ pos' \in Nat
      BY <3>1, <3>2, PositionShrinks, StepTyped DEF TypeInv, TypeOK
    <3>. QED
      BY <1>1, <1>2, <2>1, <3>3 DEF TrimInv, Trimmed, At
  <2>3. CASE ~ Active(Job)
    BY <2>1, <2>3 DEF Active, At
  <2>. QED
    BY <2>2, <2>3
<1>. QED
  BY <1>3, <1>4, <1>5

(* Where every entry is at market and a trim closes what it was asked to,  *)
(* the job adds a stage to no more than the trim leaves, unless another    *)
(* entry is at work together with it.                                      *)
THEOREM TheTrimIsFirst == ASSUME ~ Partial PROVE Spec /\ []Alone => TrimmedFirst
<1>1. Init => TrimInv
  BY ActorFacts DEF Init, TrimInv, MarketAtOnce, StageReached, Trimmed, Active, At, Idle, Plain
<1>2. /\ TypeInv /\ EntryInv /\ TrimInv /\ Alone' /\ [Next]_vars
      => TypeInv' /\ EntryInv' /\ TrimInv'
  BY StepTyped, StepSafe, RowsStay, ReachedStep, TrimmedStep DEF TrimInv
<1>3. TrimInv /\ [Next]_vars => [Places(Job) /\ TrimOn /\ AllMarket => pos <= Keep]_vars
  BY DEF TrimInv, Trimmed, Places
<1>. QED
  BY <1>1, <1>2, <1>3, InitTyped, InitClimbs, PTL DEF Spec, TrimmedFirst
=============================================================================
