------------------------- MODULE StageEntry_proofs -------------------------
(***************************************************************************)
(* Theorems about StageEntry, for any requests, stages, quantities and     *)
(* bounds.  Types, that no stage is lost and that clicks buy a stage once  *)
(* hold however the actors overlap.  That nobody buys it again, that an    *)
(* open stage has filled and that the stages implement StageLadder rest on *)
(* EntryInv, which nothing in the code keeps when a start or a pass of the *)
(* job is at work together with another entry: those theorems say []Alone. *)
(***************************************************************************)
EXTENDS StageEntry, TLAPS

USE ActorAssumption, NumberAssumption

(* The actions write these statuses. *)
LEMMA StatusFacts ==
    /\ \A k \in PlainKinds : Plain(k) \in STATUSES
    /\ \A n \in Stages : Open(n) \in STATUSES /\ Pending(n) \in STATUSES
    /\ \A s \in STATUSES : s.kind = "PENDING" => s.stage \in Stages /\ s = Pending(s.stage)
    /\ \A s \in STATUSES, n \in Stages : s = Open(n) => s.kind = "OPEN" /\ s.stage = n
    /\ NoJob.kind = "OFF" /\ NoJob.stage = 0 /\ NoJob \notin STATUSES
<1>1. \A k \in PlainKinds : Plain(k) \in STATUSES
  BY DEF STATUSES
<1>2. \A n \in Stages : Open(n) \in STATUSES /\ Pending(n) \in STATUSES
  BY DEF STATUSES
<1>3. ASSUME NEW s \in STATUSES
      PROVE  \/ \E n \in Stages : s = Open(n)
             \/ \E n \in Stages : s = Pending(n)
             \/ \E k \in PlainKinds : s = Plain(k)
  BY DEF STATUSES
<1>4. ASSUME NEW s \in STATUSES, s.kind = "PENDING"
      PROVE  s.stage \in Stages /\ s = Pending(s.stage)
  BY <1>3, <1>4 DEF Plain, Open, Pending, PlainKinds
<1>5. ASSUME NEW n \in Stages
      PROVE  Open(n).kind = "OPEN" /\ Open(n).stage = n
  BY DEF Open
<1>6. NoJob.kind = "OFF" /\ NoJob.stage = 0
  BY DEF NoJob, Plain
<1>7. NoJob \notin STATUSES
  BY <1>3, <1>6 DEF Plain, Open, Pending, PlainKinds
<1>. QED
  BY <1>1, <1>2, <1>4, <1>5, <1>6, <1>7

LEMMA Numbers ==
    /\ Last \in Nat /\ Last >= 1 /\ Lots \in Nat /\ Keep \in Nat
    /\ Stages \subseteq Nat /\ 1 \in Stages
    /\ \A n \in Stages : n \in 0 .. Last /\ n >= 1
BY DEF Stages

LEMMA ActorFacts ==
    /\ Placers \subseteq Actors /\ Stops \subseteq Actors /\ Job \in Placers
    /\ Starts \subseteq Placers /\ Clicks \subseteq Placers
    /\ Unclaimed \cap Clicks = {} /\ Placers = Unclaimed \cup Clicks
    /\ Placers \cap Stops = {}
BY DEF Placers, Actors, Unclaimed

LEMMA SetCall ==
    ASSUME TypeOK, NEW a \in Actors, NEW c \in Calls, call' = [call EXCEPT ![a] = c]
    PROVE  /\ call' \in [Actors -> Calls] /\ call'[a] = c
           /\ \A b \in Actors : b # a => call'[b] = call[b]
BY DEF TypeOK

LEMMA IdleTyped == Idle \in Calls /\ \A a \in Actors : Ended(a) \in Calls
BY StatusFacts, Numbers DEF Idle, Ended, Calls, Steps, Copies, PlainKinds

LEMMA MoveIsSet ==
    ASSUME TypeOK, NEW a \in Actors, NEW step \in Steps, Move(a, step)
    PROVE  LET c == [call[a] EXCEPT !.step = step]
           IN  c \in Calls /\ call' = [call EXCEPT ![a] = c]
BY DEF TypeOK, Move, Calls

LEMMA CancelTyped ==
    ASSUME TypeOK, AllCancelled
    PROVE  /\ orders' \in Seq(Orders) /\ DOMAIN orders' = DOMAIN orders
           /\ Len(orders') = Len(orders)
           /\ \A i \in DOMAIN orders : /\ orders'[i].stage = orders[i].stage
                                       /\ orders'[i].answered = orders[i].answered
                                       /\ orders'[i].by = orders[i].by
                                       /\ orders[i].state = "FILLED" => orders'[i].state = "FILLED"
<1>1. orders \in Seq(Orders)
  BY DEF TypeOK
<1>2. \A i \in DOMAIN orders : orders[i] \in Orders
  BY <1>1
<1>3. \A i \in DOMAIN orders : [orders[i] EXCEPT !.state = "CANCELED"] \in Orders
  BY <1>2 DEF Orders
<1>. QED
  BY <1>1, <1>2, <1>3 DEF AllCancelled, Resting, Orders

-----------------------------------------------------------------------------
(***************************************************************************)
(* The types: with them, an actor at work has a stage for its target, and  *)
(* what is reported exists.                                                *)
(***************************************************************************)
ReportsExist ==
    /\ \A k \in DOMAIN stream : stream[k].type = "ENTRY" => stream[k].order \in DOMAIN orders
    /\ recon # NoJob => recon.kind = "PENDING"

TypeInv == TypeOK /\ TargetsAreStages /\ ReportsExist

(* An actor that moves keeps the calls typed. *)
LEMMA ActorMoves ==
    ASSUME TypeInv, NEW a \in Actors, NEW c \in Calls, call' = [call EXCEPT ![a] = c],
           c.step \in Busy \cup {"read"} => c.target \in Stages
    PROVE  call' \in [Actors -> Calls] /\ TargetsAreStages'
BY SetCall, ActorFacts DEF TypeInv, TargetsAreStages, Working, At

LEMMA ActorSteps ==
    ASSUME TypeInv, NEW a \in Placers, NEW step \in Steps, Move(a, step),
           Working(a) \/ At(a, "read")
    PROVE  call' \in [Actors -> Calls] /\ TargetsAreStages'
<1>. DEFINE c == [call[a] EXCEPT !.step = step]
<1>1. a \in Actors
  BY ActorFacts
<1>2. c \in Calls /\ call' = [call EXCEPT ![a] = c]
  BY <1>1, MoveIsSet DEF TypeInv
<1>3. c.target \in Stages
  BY <1>1 DEF TypeInv, TypeOK, TargetsAreStages, Calls
<1>. HIDE DEF c
<1>. QED
  BY <1>1, <1>2, <1>3, ActorMoves

LEMMA ActorEnds ==
    ASSUME TypeInv, NEW a \in Actors, call' = [call EXCEPT ![a] = Ended(a)]
    PROVE  call' \in [Actors -> Calls] /\ TargetsAreStages'
<1>1. Ended(a) \in Calls /\ Ended(a).step \notin Busy \cup {"read"}
  BY IdleTyped DEF Ended, Idle, Busy
<1>. QED
  BY <1>1, ActorMoves

LEMMA Spent ==
    ASSUME TypeOK, NEW what \in {"clicks", "stops", "passes", "losses", "unanswered"}, Spend(what)
    PROVE  left' \in Lefts
<1>1. left \in Lefts
  BY DEF TypeOK
<1>2. left[what] > 0 /\ left' = [left EXCEPT ![what] = left[what] - 1]
  BY DEF Spend
<1>3. left[what] \in Nat
  BY <1>1 DEF Lefts
<1>4. left[what] - 1 \in Nat
  BY <1>2, <1>3
<1>. DEFINE less == left[what] - 1
<1>5. left' = [left EXCEPT ![what] = less]
  BY <1>2
<1>. HIDE DEF less
<1>6. less \in Nat
  BY <1>4 DEF less
<1>. QED
  BY <1>1, <1>5, <1>6 DEF Lefts

(* A new event, a new order, an old event dropped. *)
LEMMA EventAppended ==
    ASSUME TypeInv, NEW e \in Events, stream' = Append(stream, e), recon' = recon,
           DOMAIN orders \subseteq DOMAIN orders',
           e.type = "ENTRY" => e.order \in DOMAIN orders'
    PROVE  stream' \in Seq(Events) /\ ReportsExist'
<1>1. stream \in Seq(Events)
  BY DEF TypeInv, TypeOK
<1>2. /\ stream' \in Seq(Events) /\ DOMAIN stream' = 1 .. Len(stream) + 1
      /\ \A k \in DOMAIN stream : stream'[k] = stream[k]
      /\ stream'[Len(stream) + 1] = e
  BY <1>1
<1>. QED
  BY <1>1, <1>2 DEF TypeInv, ReportsExist

LEMMA EventTaken ==
    ASSUME TypeInv, stream # <<>>, stream' = Tail(stream), UNCHANGED <<orders, recon>>
    PROVE  /\ stream' \in Seq(Events) /\ ReportsExist'
           /\ Head(stream) \in Events /\ Head(stream) = stream[1] /\ 1 \in DOMAIN stream
           /\ \A k \in DOMAIN stream' : k + 1 \in DOMAIN stream /\ stream'[k] = stream[k + 1]
<1>1. stream \in Seq(Events)
  BY DEF TypeInv, TypeOK
<1>2. /\ stream' \in Seq(Events)
      /\ Head(stream) \in Events /\ Head(stream) = stream[1] /\ 1 \in DOMAIN stream
      /\ \A k \in DOMAIN stream' : k + 1 \in DOMAIN stream /\ stream'[k] = stream[k + 1]
  BY <1>1
<1>. QED
  BY <1>1, <1>2 DEF TypeInv, ReportsExist

LEMMA OrderAccepted ==
    ASSUME TypeInv, NEW a \in Placers, Working(a), NEW type \in {"LIMIT", "MARKET"},
           NEW answered \in BOOLEAN, Accepted(a, type, answered), recon' = recon
    PROVE  /\ orders' \in Seq(Orders) /\ Len(orders') = Len(orders) + 1
           /\ \A i \in DOMAIN orders : i \in DOMAIN orders' /\ orders'[i] = orders[i]
           /\ orders'[Len(orders) + 1] = NewOrder(a, type, answered)
           /\ pos' \in Nat /\ stream' \in Seq(Events) /\ ReportsExist'
<1>1. call[a].target \in Stages
  BY DEF TypeInv, TargetsAreStages
<1>2. NewOrder(a, type, answered) \in Orders
  BY <1>1 DEF NewOrder, Orders
<1>3. orders \in Seq(Orders) /\ pos \in Nat /\ stream \in Seq(Events)
  BY DEF TypeInv, TypeOK
<1>4. /\ orders' \in Seq(Orders) /\ Len(orders') = Len(orders) + 1
      /\ \A i \in DOMAIN orders : i \in DOMAIN orders' /\ orders'[i] = orders[i]
      /\ orders'[Len(orders) + 1] = NewOrder(a, type, answered)
  BY <1>2, <1>3 DEF Accepted
<1>5. CASE type = "MARKET"
  <2>1. [type |-> "ENTRY", order |-> Len(orders) + 1] \in Events
    BY <1>3 DEF Events
  <2>2. Len(orders) + 1 \in DOMAIN orders' /\ DOMAIN orders \subseteq DOMAIN orders'
    BY <1>3, <1>4
  <2>3. stream' = Append(stream, [type |-> "ENTRY", order |-> Len(orders) + 1])
    BY <1>5 DEF Accepted
  <2>4. stream' \in Seq(Events) /\ ReportsExist'
    BY <2>1, <2>2, <2>3, EventAppended
  <2>5. pos' \in Nat
    BY <1>3, <1>5, Numbers DEF Accepted
  <2>. QED
    BY <1>4, <2>4, <2>5
<1>6. CASE type # "MARKET"
  BY <1>3, <1>4, <1>6 DEF Accepted, TypeInv, ReportsExist
<1>. QED
  BY <1>5, <1>6

LEMMA RowCommitted ==
    ASSUME TypeInv, NEW a \in Placers, orders' = Known(a)
    PROVE  /\ orders' \in Seq(Orders) /\ DOMAIN orders' = DOMAIN orders
           /\ Len(orders') = Len(orders)
           /\ \A i \in DOMAIN orders : /\ orders'[i].stage = orders[i].stage
                                       /\ orders'[i].answered = orders[i].answered
                                       /\ orders'[i].by = orders[i].by
                                       /\ orders'[i].state = orders[i].state
<1>1. orders \in Seq(Orders)
  BY DEF TypeInv, TypeOK
<1>2. \A i \in DOMAIN orders : orders[i] \in Orders
  BY <1>1
<1>3. \A o \in Orders : /\ [o EXCEPT !.known = TRUE] \in Orders
                        /\ [o EXCEPT !.known = TRUE].stage = o.stage
                        /\ [o EXCEPT !.known = TRUE].answered = o.answered
                        /\ [o EXCEPT !.known = TRUE].by = o.by
                        /\ [o EXCEPT !.known = TRUE].state = o.state
  BY DEF Orders
<1>4. DOMAIN orders' = DOMAIN orders
  BY DEF Known
<1>5. ASSUME NEW i \in DOMAIN orders
      PROVE  orders'[i] = orders[i] \/ orders'[i] = [orders[i] EXCEPT !.known = TRUE]
  BY DEF Known
<1>6. orders' = [i \in DOMAIN orders |-> orders'[i]]
  BY DEF Known
<1>7. \A i \in DOMAIN orders : orders'[i] \in Orders
  <2>. TAKE i \in DOMAIN orders
  <2>. QED
    BY <1>2, <1>3, <1>5
<1>8. orders' \in Seq(Orders) /\ Len(orders') = Len(orders)
  <2>1. DOMAIN orders = 1 .. Len(orders) /\ Len(orders) \in Nat
    BY <1>1
  <2>. QED
    BY <1>6, <1>7, <2>1
<1>. QED
  BY <1>2, <1>3, <1>4, <1>5, <1>8

LEMMA InitTyped == Init => TypeInv
<1>. SUFFICES ASSUME Init PROVE TypeInv
  OBVIOUS
<1>1. call \in [Actors -> Calls] /\ TargetsAreStages
  BY IdleTyped, ActorFacts DEF Init, Idle, TargetsAreStages, Working, Busy, At
<1>2. status \in STATUSES /\ recon = NoJob
  BY StatusFacts DEF Init, PlainKinds
<1>3. orders \in Seq(Orders) /\ stream \in Seq(Events) /\ DOMAIN stream = {}
  BY DEF Init
<1>. QED
  BY <1>1, <1>2, <1>3, Numbers DEF Init, TypeInv, TypeOK, ReportsExist

LEMMA StartBeginsTyped ==
    ASSUME TypeInv, NEW s \in Starts, StartBegins(s)
    PROVE  TypeInv'
<1>. DEFINE c == [call[s] EXCEPT !.step = "gates", !.target = 1]
<1>1. s \in Actors
  BY ActorFacts
<1>2. c \in Calls /\ c.target \in Stages
  BY <1>1, Numbers DEF TypeInv, TypeOK, Calls, Steps
<1>3. call' = [call EXCEPT ![s] = c]
  BY DEF StartBegins
<1>. HIDE DEF c
<1>4. call' \in [Actors -> Calls] /\ TargetsAreStages'
  BY <1>1, <1>2, <1>3, ActorMoves
<1>. QED
  BY <1>4 DEF StartBegins, TypeInv, TypeOK, ReportsExist, row

LEMMA JobTyped ==
    ASSUME TypeInv, JobLoads \/ JobWaits \/ \E c \in {call[Job].copy, Row} : JobPicks(c)
    PROVE  TypeInv'
<1>1. Job \in Actors /\ call[Job] \in Calls
  BY ActorFacts DEF TypeInv, TypeOK
<1>2. call[Job].copy \in Copies /\ Row \in Copies
  BY <1>1 DEF TypeInv, TypeOK, Row, Copies, Calls
<1>3. CASE JobLoads
  <2>. DEFINE c == [call[Job] EXCEPT !.step = "loaded", !.copy = Row]
  <2>1. c \in Calls /\ c.step \notin Busy \cup {"read"}
    BY <1>1, <1>2 DEF Calls, Steps, Busy
  <2>2. call' = [call EXCEPT ![Job] = c]
    BY <1>3 DEF JobLoads
  <2>. HIDE DEF c
  <2>3. call' \in [Actors -> Calls] /\ TargetsAreStages'
    BY <1>1, <2>1, <2>2, ActorMoves
  <2>4. left' \in Lefts
    BY <1>3, Spent DEF JobLoads, TypeInv
  <2>. QED
    BY <1>3, <2>3, <2>4 DEF JobLoads, TypeInv, TypeOK, ReportsExist, row
<1>4. CASE JobWaits
  <2>1. Idle \in Calls /\ Idle.step \notin Busy \cup {"read"}
    BY IdleTyped DEF Idle, Busy
  <2>2. call' \in [Actors -> Calls] /\ TargetsAreStages'
    BY <1>1, <1>4, <2>1, ActorMoves DEF JobWaits
  <2>. QED
    BY <1>4, <2>2 DEF JobWaits, TypeInv, TypeOK, ReportsExist, row
<1>5. ASSUME NEW copy \in {call[Job].copy, Row}, JobPicks(copy)
      PROVE  TypeInv'
  <2>. DEFINE c == [Idle EXCEPT !.step = "gates", !.target = copy.stage + 1]
  <2>1. copy.stage \in 0 .. Last /\ copy.stage + 1 <= Last
    BY <1>2, <1>5 DEF Copies, JobPicks, MayEnter
  <2>2. copy.stage + 1 \in Stages
    BY <2>1, Numbers DEF Stages
  <2>3. c \in Calls /\ c.target \in Stages
    BY <2>2, IdleTyped, Numbers DEF Idle, Calls, Steps
  <2>4. call' = [call EXCEPT ![Job] = c]
    BY <1>5 DEF JobPicks
  <2>. HIDE DEF c
  <2>5. call' \in [Actors -> Calls] /\ TargetsAreStages'
    BY <1>1, <2>3, <2>4, ActorMoves
  <2>. QED
    BY <1>5, <2>5 DEF JobPicks, TypeInv, TypeOK, ReportsExist, row
<1>. QED
  BY <1>3, <1>4, <1>5

LEMMA ClickTyped ==
    ASSUME TypeInv, NEW c \in Clicks, Click(c)
    PROVE  TypeInv'
<1>1. c \in Actors /\ c \in Placers /\ call[c] \in Calls
  BY ActorFacts DEF TypeInv, TypeOK
<1>2. CASE ClickReads(c)
  <2>. DEFINE d == [call[c] EXCEPT !.step = "read", !.target = stage + 1]
  <2>1. stage + 1 \in Stages
    BY <1>2, Numbers DEF ClickReads, TypeInv, TypeOK, Stages
  <2>2. d \in Calls /\ d.target \in Stages
    BY <1>1, <2>1, Numbers DEF Calls, Steps
  <2>3. call' = [call EXCEPT ![c] = d]
    BY <1>2 DEF ClickReads
  <2>. HIDE DEF d
  <2>4. call' \in [Actors -> Calls] /\ TargetsAreStages'
    BY <1>1, <2>2, <2>3, ActorMoves
  <2>5. left' \in Lefts
    BY <1>2, Spent DEF ClickReads, TypeInv
  <2>. QED
    BY <1>2, <2>4, <2>5 DEF ClickReads, TypeInv, TypeOK, ReportsExist, row
<1>3. CASE ClickClaims(c)
  <2>1. call[c].target \in Stages
    BY <1>1, <1>3 DEF ClickClaims, TypeInv, TargetsAreStages
  <2>2. call' \in [Actors -> Calls] /\ TargetsAreStages'
    <3>1. CASE triggered[call[c].target]
      BY <1>1, <1>3, <3>1, ActorEnds DEF ClickClaims
    <3>2. CASE ~ triggered[call[c].target]
      BY <1>1, <1>3, <3>2, ActorSteps DEF ClickClaims, Steps
    <3>. QED
      BY <3>1, <3>2
  <2>3. triggered' \in [Stages -> BOOLEAN]
    BY <1>3 DEF ClickClaims, TypeInv, TypeOK
  <2>. QED
    BY <1>3, <2>2, <2>3 DEF ClickClaims, TypeInv, TypeOK, ReportsExist
<1>4. CASE ClickEnters(c)
  <2>1. call' \in [Actors -> Calls] /\ TargetsAreStages'
    BY <1>1, <1>4, ActorSteps DEF ClickEnters, Working, Busy, At, Steps
  <2>. QED
    BY <1>4, <2>1 DEF ClickEnters, TypeInv, TypeOK, ReportsExist, row
<1>. QED
  BY <1>2, <1>3, <1>4 DEF Click

LEMMA FailureTyped ==
    ASSUME TypeInv, NEW a \in Placers
    PROVE  /\ FailedStatus(a, status) \in STATUSES
           /\ FailedClaim(a) \in [Stages -> BOOLEAN]
BY StatusFacts DEF FailedStatus, FailedClaim, TypeInv, TypeOK, PlainKinds

LEMMA StopTyped ==
    ASSUME TypeInv, NEW s \in Stops, Stop(s)
    PROVE  TypeInv'
<1>1. s \in Actors /\ call[s] \in Calls
  BY ActorFacts DEF TypeInv, TypeOK
<1>2. CASE StopCancels(s)
  <2>. DEFINE c == [call[s] EXCEPT !.step = IF qty = 0 THEN "last" ELSE "close", !.seen = qty]
  <2>1. c \in Calls /\ c.step \notin Busy \cup {"read"}
    BY <1>1 DEF TypeInv, TypeOK, Calls, Steps, Busy
  <2>2. call' = [call EXCEPT ![s] = c]
    BY <1>2 DEF StopCancels
  <2>. HIDE DEF c
  <2>3. call' \in [Actors -> Calls] /\ TargetsAreStages'
    BY <1>1, <2>1, <2>2, ActorMoves
  <2>4. left' \in Lefts /\ orders' \in Seq(Orders) /\ DOMAIN orders' = DOMAIN orders
    BY <1>2, Spent, CancelTyped DEF StopCancels, TypeInv
  <2>. QED
    BY <1>2, <2>3, <2>4 DEF StopCancels, TypeInv, TypeOK, ReportsExist, row
<1>3. CASE StopCloses(s)
  <2>1. CASE pos = 0
    <3>1. call' \in [Actors -> Calls] /\ TargetsAreStages'
      BY <1>1, <1>3, <2>1, ActorEnds DEF StopCloses
    <3>2. orders' \in Seq(Orders) /\ DOMAIN orders' = DOMAIN orders
      BY <1>3, <2>1, CancelTyped DEF StopCloses, TypeInv
    <3>. QED
      BY <1>3, <2>1, <3>1, <3>2, StatusFacts
      DEF StopCloses, TypeInv, TypeOK, ReportsExist, PlainKinds
  <2>2. CASE pos # 0
    <3>. DEFINE c == [call[s] EXCEPT !.step = "last", !.seen = 0]
                e == [type |-> "EXIT", order |-> 0]
    <3>1. c \in Calls /\ c.step \notin Busy \cup {"read"}
      BY <1>1 DEF Calls, Steps, Busy
    <3>2. call' = [call EXCEPT ![s] = c]
      BY <1>3, <2>2 DEF StopCloses
    <3>3. e \in Events /\ e.type # "ENTRY"
      BY DEF Events
    <3>4. stream' = Append(stream, e) /\ recon' = recon
      BY <1>3, <2>2 DEF StopCloses
    <3>. HIDE DEF c, e
    <3>5. call' \in [Actors -> Calls] /\ TargetsAreStages'
      BY <1>1, <3>1, <3>2, ActorMoves
    <3>6. orders' \in Seq(Orders) /\ DOMAIN orders' = DOMAIN orders
      BY <1>3, <2>2, CancelTyped DEF StopCloses, TypeInv, TypeOK
    <3>7. stream' \in Seq(Events) /\ ReportsExist'
      BY <3>3, <3>4, <3>6, EventAppended
    <3>8. status' \in STATUSES
      BY <1>3, <2>2, StatusFacts DEF StopCloses, TypeInv, TypeOK, PlainKinds
    <3>9. pos' \in Nat
      BY <1>1, <1>3, <2>2 DEF StopCloses, TypeInv, TypeOK, Least, Calls
    <3>. QED
      BY <1>3, <2>2, <3>5, <3>6, <3>7, <3>8, <3>9 DEF StopCloses, TypeInv, TypeOK
  <2>. QED
    BY <2>1, <2>2
<1>4. CASE StopFinishes(s)
  <2>1. call' \in [Actors -> Calls] /\ TargetsAreStages'
    BY <1>1, <1>4, ActorEnds DEF StopFinishes
  <2>. QED
    BY <1>4, <2>1, StatusFacts DEF StopFinishes, TypeInv, TypeOK, ReportsExist, PlainKinds
<1>. QED
  BY <1>2, <1>3, <1>4 DEF Stop

LEMMA EntersTyped ==
    ASSUME TypeInv, NEW a \in Placers, Enters(a)
    PROVE  TypeInv'
<1>1. a \in Actors /\ call[a] \in Calls
  BY ActorFacts DEF TypeInv, TypeOK
<1>2. CASE Fails(a)
  <2>1. call' \in [Actors -> Calls] /\ TargetsAreStages'
    BY <1>1, <1>2, ActorEnds DEF Fails
  <2>. QED
    BY <1>2, <2>1, FailureTyped DEF Fails, TypeInv, TypeOK, ReportsExist
<1>3. CASE TrimAsks(a)
  <2>1. Working(a) /\ call[a].target \in Stages
    BY <1>3 DEF TrimAsks, Working, Busy, At, TypeInv, TargetsAreStages
  <2>2. call' \in [Actors -> Calls] /\ TargetsAreStages'
    <3>1. CASE call' = [call EXCEPT ![a].step = "trim", ![a].seen = pos]
      <4>. DEFINE c == [call[a] EXCEPT !.step = "trim", !.seen = pos]
      <4>1. c \in Calls /\ c.target \in Stages
        BY <1>1, <2>1 DEF TypeInv, TypeOK, Calls, Steps
      <4>2. call' = [call EXCEPT ![a] = c]
        BY <3>1
      <4>. HIDE DEF c
      <4>. QED
        BY <1>1, <4>1, <4>2, ActorMoves
    <3>2. CASE Move(a, "place")
      BY <2>1, <3>2, ActorSteps DEF Steps
    <3>. QED
      BY <1>3, <3>1, <3>2 DEF TrimAsks
  <2>. QED
    BY <1>3, <2>2 DEF TrimAsks, TypeInv, TypeOK, ReportsExist, row
<1>4. CASE TrimFindsNothing(a)
  <2>1. call' \in [Actors -> Calls] /\ TargetsAreStages'
    BY <1>1, <1>4, ActorEnds DEF TrimFindsNothing
  <2>2. orders' \in Seq(Orders) /\ DOMAIN orders' = DOMAIN orders
    BY <1>4, CancelTyped DEF TrimFindsNothing, TypeInv
  <2>. QED
    BY <1>4, <2>1, <2>2, FailureTyped, StatusFacts
    DEF TrimFindsNothing, TypeInv, TypeOK, ReportsExist, PlainKinds
<1>5. CASE TrimCloses(a)
  <2>. DEFINE c     == [call[a] EXCEPT !.step = "place", !.seen = 0]
              e     == [type |-> "EXIT", order |-> 0]
              asked == Least(call[a].seen - Keep, pos)
  <2>1. Working(a) /\ call[a].target \in Stages
    BY <1>5 DEF TrimCloses, Working, Busy, At, TypeInv, TargetsAreStages
  <2>2. c \in Calls /\ c.target \in Stages
    BY <1>1, <2>1 DEF Calls, Steps
  <2>3. call' = [call EXCEPT ![a] = c]
    BY <1>5 DEF TrimCloses
  <2>4. PICK x \in (IF Partial THEN 0 .. asked ELSE {asked}) :
           /\ pos' = pos - x
           /\ stream' = IF x = 0 THEN stream ELSE Append(stream, e)
           /\ status' = IF asked = pos /\ x < asked THEN Plain("MANUAL_CLEANUP_REQUIRED") ELSE status
    BY <1>5 DEF TrimCloses
  <2>5. e \in Events /\ e.type # "ENTRY"
    BY DEF Events
  <2>6. asked \in Int /\ asked <= pos /\ pos \in Nat
    BY <1>1 DEF TypeInv, TypeOK, Least, Calls
  <2>7. pos' \in Nat
    BY <2>4, <2>6
  <2>8. status' \in STATUSES
    BY <2>4, StatusFacts DEF TypeInv, TypeOK, PlainKinds
  <2>. HIDE DEF c, e, asked
  <2>9. call' \in [Actors -> Calls] /\ TargetsAreStages'
    BY <1>1, <2>2, <2>3, ActorMoves
  <2>10. UNCHANGED <<orders, recon>>
    BY <1>5 DEF TrimCloses
  <2>11. stream' \in Seq(Events) /\ ReportsExist'
    <3>1. CASE stream' = Append(stream, e)
      BY <2>5, <2>10, <3>1, EventAppended
    <3>2. CASE stream' = stream
      BY <2>10, <3>2 DEF TypeInv, TypeOK, ReportsExist
    <3>. QED
      BY <2>4, <3>1, <3>2
  <2>. QED
    BY <1>5, <2>7, <2>8, <2>9, <2>11 DEF TrimCloses, TypeInv, TypeOK
<1>6. CASE Places(a)
  <2>. DEFINE c == [call[a] EXCEPT !.step = "placed", !.seen = Len(orders) + 1]
  <2>1. Working(a) /\ call[a].target \in Stages
    BY <1>6 DEF Places, Working, Busy, At, TypeInv, TargetsAreStages
  <2>0. Len(orders) + 1 \in Nat
    BY DEF TypeInv, TypeOK
  <2>2. c \in Calls /\ c.target \in Stages
    BY <1>1, <2>0, <2>1 DEF Calls, Steps
  <2>3. call' = [call EXCEPT ![a] = c]
    BY <1>6 DEF Places
  <2>4. PICK type \in OrderTypes(a) : Accepted(a, type, TRUE)
    BY <1>6 DEF Places
  <2>5. type \in {"LIMIT", "MARKET"}
    BY DEF OrderTypes
  <2>. HIDE DEF c
  <2>6. call' \in [Actors -> Calls] /\ TargetsAreStages'
    BY <1>1, <2>2, <2>3, ActorMoves
  <2>7. orders' \in Seq(Orders) /\ pos' \in Nat /\ stream' \in Seq(Events) /\ ReportsExist'
    BY <1>6, <2>1, <2>4, <2>5, OrderAccepted DEF Places
  <2>. QED
    BY <1>6, <2>6, <2>7 DEF Places, TypeInv, TypeOK, row
<1>7. CASE PlacesUnanswered(a)
  <2>1. Working(a)
    BY <1>7 DEF PlacesUnanswered, Working, Busy, At
  <2>2. PICK type \in OrderTypes(a) : Accepted(a, type, FALSE)
    BY <1>7 DEF PlacesUnanswered
  <2>3. type \in {"LIMIT", "MARKET"}
    BY DEF OrderTypes
  <2>4. call' \in [Actors -> Calls] /\ TargetsAreStages'
    BY <1>1, <1>7, ActorEnds DEF PlacesUnanswered
  <2>5. orders' \in Seq(Orders) /\ pos' \in Nat /\ stream' \in Seq(Events) /\ ReportsExist'
    BY <1>7, <2>1, <2>2, <2>3, OrderAccepted DEF PlacesUnanswered
  <2>6. left' \in Lefts
    BY <1>7, Spent DEF PlacesUnanswered, TypeInv
  <2>. QED
    BY <1>7, <2>4, <2>5, <2>6, FailureTyped DEF PlacesUnanswered, TypeInv, TypeOK
<1>8. CASE CommitsRow(a)
  <2>1. call' \in [Actors -> Calls] /\ TargetsAreStages'
    BY <1>8, ActorSteps DEF CommitsRow, Working, Busy, At, Steps
  <2>. QED
    BY <1>8, <2>1, RowCommitted DEF CommitsRow, TypeInv, TypeOK, ReportsExist, row
<1>9. CASE CommitsStage(a)
  <2>1. call[a].target \in Stages /\ call[a].target \in 0 .. Last
    BY <1>1, <1>9 DEF CommitsStage, Working, Busy, At, TypeInv, TargetsAreStages, Calls
  <2>2. call' \in [Actors -> Calls] /\ TargetsAreStages'
    BY <1>1, <1>9, ActorEnds DEF CommitsStage
  <2>3. triggered' \in [Stages -> BOOLEAN]
    BY <1>9 DEF CommitsStage, TypeInv, TypeOK
  <2>. QED
    BY <1>9, <2>1, <2>2, <2>3, RowCommitted, StatusFacts
    DEF CommitsStage, TypeInv, TypeOK, ReportsExist
<1>. QED
  BY <1>2, <1>3, <1>4, <1>5, <1>6, <1>7, <1>8, <1>9 DEF Enters

LEMMA ExchangeTyped ==
    ASSUME TypeInv, Deliver \/ Lose \/ \E i \in DOMAIN orders : LimitFills(i)
    PROVE  TypeInv'
<1>1. ASSUME NEW i \in DOMAIN orders, LimitFills(i)
      PROVE  TypeInv'
  <2>. DEFINE e == [type |-> "ENTRY", order |-> i]
  <2>1. orders \in Seq(Orders) /\ i \in Nat
    BY DEF TypeInv, TypeOK
  <2>2. [orders[i] EXCEPT !.state = "FILLED"] \in Orders
    <3>1. orders[i] \in Orders
      BY <2>1
    <3>. QED
      BY <3>1 DEF Orders
  <2>3. orders' \in Seq(Orders) /\ DOMAIN orders' = DOMAIN orders
    BY <1>1, <2>1, <2>2 DEF LimitFills
  <2>4. e \in Events /\ e.order = i
    BY <2>1 DEF Events
  <2>5. stream' = Append(stream, e) /\ recon' = recon
    BY <1>1 DEF LimitFills
  <2>. HIDE DEF e
  <2>6. stream' \in Seq(Events) /\ ReportsExist'
    BY <2>3, <2>4, <2>5, EventAppended
  <2>7. pos' \in Nat
    BY <1>1, Numbers DEF LimitFills, TypeInv, TypeOK
  <2>. QED
    BY <1>1, <2>3, <2>6, <2>7
    DEF LimitFills, TypeInv, TypeOK, TargetsAreStages, Working, At, row
<1>2. CASE Deliver
  <2>. DEFINE e == Head(stream)
  <2>1. /\ stream' \in Seq(Events) /\ ReportsExist'
        /\ e \in Events /\ e = stream[1] /\ 1 \in DOMAIN stream
    BY <1>2, EventTaken DEF Deliver
  <2>2. CASE e.type = "ENTRY"
    <3>1. e.order \in DOMAIN orders
      BY <2>1, <2>2 DEF TypeInv, ReportsExist
    <3>2. orders[e.order] \in Orders
      BY <3>1 DEF TypeInv, TypeOK
    <3>3. orders[e.order].stage \in Stages
      BY <3>2 DEF Orders
    <3>4. EntryFilled(e.order)
      BY <1>2, <2>2 DEF Deliver
    <3>5. status' \in STATUSES /\ qty' = pos
      BY <3>3, <3>4, StatusFacts DEF EntryFilled, TypeInv, TypeOK
    <3>6. triggered' \in [Stages -> BOOLEAN]
      BY <3>4 DEF EntryFilled, TypeInv, TypeOK
    <3>. QED
      BY <1>2, <2>1, <3>5, <3>6 DEF Deliver, TypeInv, TypeOK, TargetsAreStages, Working, At
  <2>3. CASE e.type # "ENTRY"
    <3>1. ExitFilled
      BY <1>2, <2>3 DEF Deliver
    <3>2. status' \in STATUSES /\ triggered' = triggered /\ qty' = pos
      BY <3>1, StatusFacts DEF ExitFilled, TypeInv, TypeOK, PlainKinds
    <3>. QED
      BY <1>2, <2>1, <3>2 DEF Deliver, TypeInv, TypeOK, TargetsAreStages, Working, At
  <2>. QED
    BY <2>2, <2>3
<1>3. CASE Lose
  <2>1. stream' \in Seq(Events) /\ ReportsExist'
    BY <1>3, EventTaken DEF Lose
  <2>2. left' \in Lefts
    BY <1>3, Spent DEF Lose, TypeInv
  <2>. QED
    BY <1>3, <2>1, <2>2 DEF Lose, TypeInv, TypeOK, TargetsAreStages, Working, At, row
<1>. QED
  BY <1>1, <1>2, <1>3

LEMMA ReconcileTyped ==
    ASSUME TypeInv, ReconcileLoads \/ \E asked \in BOOLEAN : ReconcileCommits(asked)
    PROVE  TypeInv'
<1>1. CASE ReconcileLoads
  BY <1>1 DEF ReconcileLoads, TypeInv, TypeOK, ReportsExist, TargetsAreStages, Working, At, row
<1>2. ASSUME NEW asked \in BOOLEAN, ReconcileCommits(asked)
      PROVE  TypeInv'
  <2>1. recon.stage \in Stages
    BY <1>2, StatusFacts DEF ReconcileCommits, TypeInv, TypeOK, ReportsExist
  <2>2. status' \in STATUSES
    BY <1>2, <2>1, StatusFacts DEF ReconcileCommits, TypeInv, TypeOK
  <2>3. triggered' \in [Stages -> BOOLEAN]
    BY <1>2 DEF ReconcileCommits, TypeInv, TypeOK
  <2>. QED
    BY <1>2, <2>2, <2>3
    DEF ReconcileCommits, TypeInv, TypeOK, ReportsExist, TargetsAreStages, Working, At
<1>. QED
  BY <1>1, <1>2

LEMMA StepTyped == TypeInv /\ [Next]_vars => TypeInv'
<1>. SUFFICES ASSUME TypeInv, [Next]_vars PROVE TypeInv'
  OBVIOUS
<1>1. CASE UNCHANGED vars
  BY <1>1 DEF vars, row, TypeInv, TypeOK, ReportsExist, TargetsAreStages, Working, At
<1>. QED
  BY <1>1, StartBeginsTyped, JobTyped, ClickTyped, EntersTyped, StopTyped, ExchangeTyped,
     ReconcileTyped DEF Next

(* Every reachable state is well typed, however the actors overlap: what   *)
(* an actor aims at is a stage of the template, a trim never closes more   *)
(* than there is, and an event names an order.                             *)
THEOREM TypeCorrect == Spec => []TypeOK
<1>1. TypeInv => TypeOK
  BY DEF TypeInv
<1>. QED
  BY <1>1, InitTyped, StepTyped, PTL DEF Spec

-----------------------------------------------------------------------------
(***************************************************************************)
(* The ladder, when unclaimed entries are alone.  First what a step may    *)
(* change, then the actions.                                               *)
(***************************************************************************)
BoughtStage(n) == IF n = 1 THEN Sent(n) ELSE Executed(n)

(* What was ordered stays, and what was filled stays filled. *)
OrdersKept ==
    \A i \in DOMAIN orders : /\ i \in DOMAIN orders'
                             /\ orders'[i].stage = orders[i].stage
                             /\ orders'[i].answered = orders[i].answered
                             /\ orders'[i].by = orders[i].by
                             /\ orders[i].state = "FILLED" => orders'[i].state = "FILLED"

OthersRest(a) == \A b \in Placers : b # a => call'[b] = call[b]

LEMMA BoughtStaysBought ==
    ASSUME OrdersKept, NEW n \in Stages
    PROVE  /\ Sent(n) => Sent(n)'
           /\ Executed(n) => Executed(n)'
           /\ BoughtStage(n) => BoughtStage(n)'
BY DEF OrdersKept, Sent, Executed, BoughtStage

LEMMA ActiveSteps ==
    \A a \in Placers : Working(a) \/ At(a, "read") \/ At(a, "loaded") => Active(a)
BY DEF Working, Busy, At, Active

(* No placer moves. *)
LEMMA PlacersRest ==
    ASSUME TypeInv, EntryInv, \A a \in Placers : call'[a] = call[a], stage' = stage,
           status' = Plain("WAITING") => status = Plain("WAITING"),
           \A n \in Stages : triggered[n] => triggered'[n]
    PROVE  Alone' /\ NextStageOnly' /\ OneHolder'
<1>1. \A a \in Placers : call[a].target \in Nat
  BY ActorFacts DEF TypeInv, TypeOK, Calls
<1>2. Alone'
  BY DEF EntryInv, Alone, Active, At
<1>3. NextStageOnly'
  BY ActorFacts DEF EntryInv, NextStageOnly, Working, At
<1>4. OneHolder'
  BY <1>1, ActorFacts DEF EntryInv, OneHolder, Working, At, TypeInv, TargetsAreStages
<1>. QED
  BY <1>2, <1>3, <1>4

(* A placer goes on with its stage. *)
LEMMA PlacerAdvances ==
    ASSUME TypeInv, EntryInv, NEW a \in Placers, OthersRest(a), Working(a), Working(a)',
           call'[a].target = call[a].target, stage' = stage, triggered' = triggered,
           status' = Plain("WAITING") => status = Plain("WAITING")
    PROVE  Alone' /\ NextStageOnly' /\ OneHolder'
<1>1. Alone'
  BY ActiveSteps DEF EntryInv, Alone, Active, At, OthersRest
<1>2. NextStageOnly'
  BY ActorFacts DEF EntryInv, NextStageOnly, Working, Busy, At, OthersRest
<1>3. OneHolder'
  BY ActorFacts DEF EntryInv, OneHolder, Working, Busy, At, OthersRest
<1>. QED
  BY <1>1, <1>2, <1>3

(* A placer gives up, with its claim. *)
LEMMA PlacerQuits ==
    ASSUME TypeInv, EntryInv, NEW a \in Placers, OthersRest(a), Working(a),
           call'[a] = Ended(a), stage' = stage, triggered' = FailedClaim(a),
           status' = Plain("WAITING") => status = Plain("WAITING")
    PROVE  Alone' /\ NextStageOnly' /\ OneHolder'
<1>1. call'[a].step \notin Busy \cup {"read", "loaded"} /\ ~ Active(a)'
  BY DEF Ended, Idle, Busy, Active, At
<1>2. Alone'
  BY <1>1 DEF EntryInv, Alone, Active, At, OthersRest
<1>3. NextStageOnly'
  BY <1>1, ActorFacts DEF EntryInv, NextStageOnly, Working, At, OthersRest
<1>4. \A c \in Clicks : c # a => call'[c] = call[c]
  BY ActorFacts DEF OthersRest
<1>5. \A c \in Clicks : call[c].target \in Nat /\ stage \in Nat
  BY ActorFacts DEF TypeInv, TypeOK, Calls
<1>6. CASE a \in Clicks
  <2>1. call[a].target = stage + 1
    BY DEF EntryInv, NextStageOnly
  <2>2. \A n \in Stages : triggered'[n] = IF n = call[a].target THEN FALSE ELSE triggered[n]
    BY <1>6 DEF FailedClaim, TypeInv, TypeOK
  <2>3. \A c \in Clicks : Working(c)' => FALSE
    BY <1>1, <1>4, <1>6 DEF EntryInv, OneHolder, Working
  <2>4. \A c \in Clicks : At(c, "read")' => At(c, "read") /\ c # a
    BY <1>1, <1>4 DEF At
  <2>5. ASSUME NEW c \in Clicks, At(c, "read")'
        PROVE  /\ call'[c].target <= stage' + 1
               /\ call'[c].target <= stage' => triggered'[call'[c].target]
    <3>1. At(c, "read") /\ call'[c] = call[c]
      BY <1>4, <2>4, <2>5
    <3>2. call[c].target \in Stages
      BY <3>1, ActorFacts DEF TypeInv, TargetsAreStages
    <3>3. /\ call[c].target <= stage + 1
          /\ call[c].target <= stage => triggered[call[c].target]
      BY <3>1 DEF EntryInv, OneHolder
    <3>4. call[c].target <= stage => call[c].target # call[a].target
      BY <1>5, <2>1
    <3>. QED
      BY <2>2, <3>1, <3>2, <3>3, <3>4
  <2>6. OneHolder'
    BY <2>3, <2>5 DEF OneHolder
  <2>. QED
    BY <1>2, <1>3, <2>6
<1>7. CASE a \notin Clicks
  <2>1. triggered' = triggered
    BY <1>7 DEF FailedClaim
  <2>2. OneHolder'
    BY <1>4, <1>7, <2>1 DEF EntryInv, OneHolder, Working, At
  <2>. QED
    BY <1>2, <1>3, <2>2
<1>. QED
  BY <1>6, <1>7

(* Marks: what is newly marked has been bought. *)
LEMMA MarksRest ==
    ASSUME TypeInv, EntryInv, OrdersKept,
           \A c \in Clicks : Working(c) => Working(c)' /\ call'[c].target = call[c].target,
           \A n \in Stages : triggered'[n] => triggered[n] \/ BoughtStage(n)'
    PROVE  MarkedIsBought'
BY BoughtStaysBought DEF EntryInv, MarkedIsBought, BoughtStage

LEMMA MarksGivenBack ==
    ASSUME TypeInv, EntryInv, OrdersKept, NEW a \in Placers, OthersRest(a), Working(a),
           triggered' = FailedClaim(a)
    PROVE  MarkedIsBought'
<1>1. \A c \in Clicks : c # a => call'[c] = call[c]
  BY ActorFacts DEF OthersRest
<1>2. ASSUME NEW n \in Stages, triggered'[n]
      PROVE  triggered[n] /\ (a \in Clicks => n # call[a].target)
  BY <1>2 DEF FailedClaim, TypeInv, TypeOK
<1>. QED
  BY <1>1, <1>2, BoughtStaysBought DEF EntryInv, MarkedIsBought, BoughtStage, Working

(* Who has an order keeps it, and no order is new. *)
LEMMA OrdersRest ==
    ASSUME TypeInv, EntryInv, OrdersKept, DOMAIN orders' = DOMAIN orders, stage' = stage,
           \A a \in Placers : Ordered(a) <=> Ordered(a)',
           \A a \in Placers : Ordered(a) => /\ call'[a].seen = call[a].seen
                                            /\ call'[a].target = call[a].target
    PROVE  OrdersClimb'
<1>1. \A a \in Placers : Ordered(a)' =>
          /\ call'[a].seen \in DOMAIN orders'
          /\ orders'[call'[a].seen].stage = call'[a].target
          /\ a \in Clicks => orders'[call'[a].seen].state = "FILLED"
  BY DEF EntryInv, OrdersClimb, OrdersKept
<1>2. \A i \in DOMAIN orders' : orders'[i].answered =>
          orders'[i].stage <= stage' \/ \E a \in Placers : Ordered(a)' /\ call'[a].seen = i
  BY DEF EntryInv, OrdersClimb, OrdersKept
<1>3. \A n \in 1 .. stage' : Sent(n)'
  BY DEF EntryInv, OrdersClimb, OrdersKept, Sent
<1>. QED
  BY <1>1, <1>2, <1>3 DEF OrdersClimb

LEMMA ReportsRest ==
    ASSUME TypeInv, EntryInv, OrdersKept, stage <= stage', stage' \in Nat,
           \A k \in DOMAIN stream' : stream'[k].type = "ENTRY" =>
               \/ \E j \in DOMAIN stream : stream[j] = stream'[k]
               \/ /\ stream'[k].order \in DOMAIN orders'
                  /\ orders'[stream'[k].order].state = "FILLED",
           status' = status \/ status'.kind # "PENDING" \/ status'.stage <= stage',
           recon' = recon \/ recon' = status \/ recon' = NoJob
    PROVE  ReportsAreTrue'
<1>1. \A s \in {status, recon} : s.kind = "PENDING" => s.stage <= stage /\ s.stage \in Nat
  BY StatusFacts, Numbers DEF EntryInv, ReportsAreTrue, TypeInv, TypeOK
<1>2. stage \in Nat
  BY DEF TypeInv, TypeOK
<1>3. \A s \in {status', recon'} : s.kind = "PENDING" => s.stage <= stage'
  BY <1>1, <1>2, StatusFacts
<1>4. \A k \in DOMAIN stream' : stream'[k].type = "ENTRY" =>
          stream'[k].order \in DOMAIN orders' /\ orders'[stream'[k].order].state = "FILLED"
  BY DEF EntryInv, ReportsAreTrue, OrdersKept
<1>. QED
  BY <1>3, <1>4 DEF ReportsAreTrue

LEMMA CancelKeeps ==
    ASSUME TypeInv, AllCancelled
    PROVE  OrdersKept /\ DOMAIN orders' = DOMAIN orders
<1>1. TypeOK
  BY DEF TypeInv
<1>2. /\ DOMAIN orders' = DOMAIN orders
      /\ \A i \in DOMAIN orders : /\ orders'[i].stage = orders[i].stage
                                  /\ orders'[i].answered = orders[i].answered
                                  /\ orders'[i].by = orders[i].by
                                  /\ orders[i].state = "FILLED" => orders'[i].state = "FILLED"
  BY <1>1, CancelTyped
<1>3. ASSUME NEW i \in DOMAIN orders
      PROVE  /\ i \in DOMAIN orders'
             /\ orders'[i].stage = orders[i].stage
             /\ orders'[i].answered = orders[i].answered
             /\ orders'[i].by = orders[i].by
             /\ orders[i].state = "FILLED" => orders'[i].state = "FILLED"
  <2>1. i \in DOMAIN orders'
    BY <1>2
  <2>. QED
    BY <1>2, <2>1, Zenon
<1>. QED
  BY <1>2, <1>3, Zenon DEF OrdersKept

LEMMA NothingOrdered == orders' = orders => OrdersKept
BY DEF OrdersKept

LEMMA InitClimbs == Init => EntryInv
<1>. SUFFICES ASSUME Init PROVE EntryInv
  OBVIOUS
<1>1. \A a \in Placers : call[a] = Idle
  BY ActorFacts DEF Init
<1>2. Alone /\ NextStageOnly /\ OneHolder
  BY <1>1, ActorFacts, Numbers DEF Init, Alone, NextStageOnly, OneHolder, Active, Working, Busy, At, Idle
<1>3. OrdersClimb
  BY <1>1 DEF Init, OrdersClimb, Ordered, At, Idle
<1>4. MarkedIsBought
  BY DEF Init, MarkedIsBought
<1>5. ReportsAreTrue
  BY StatusFacts DEF Init, ReportsAreTrue, Plain
<1>. QED
  BY <1>2, <1>3, <1>4, <1>5 DEF EntryInv

(* An entry that begins where unclaimed ones are alone: it is free to, or  *)
(* it would not be alone afterwards.                                       *)
LEMMA BeginsAlone ==
    ASSUME NEW a \in Placers, Free(a), OthersRest(a), Active(a)', ~ Together \/ Alone'
    PROVE  \A b \in Placers : b # a /\ (a \in Unclaimed \/ b \in Unclaimed) => ~ Active(b)
<1>1. CASE ~ Together
  BY <1>1 DEF Free
<1>2. CASE Alone'
  BY <1>2, ActorFacts DEF Alone, OthersRest, Active, At, Unclaimed
<1>. QED
  BY <1>1, <1>2

LEMMA StartBeginsSafe ==
    ASSUME TypeInv, EntryInv, ~ Together \/ Alone', NEW s \in Starts, StartBegins(s)
    PROVE  EntryInv'
<1>1. /\ call'[s].step = "gates" /\ call'[s].target = 1 /\ OthersRest(s) /\ s \in Placers
      /\ s \notin Clicks /\ s # Job /\ s \in Unclaimed
  BY ActorFacts DEF StartBegins, OthersRest, TypeInv, TypeOK, Unclaimed
<1>2. UNCHANGED <<row, orders, stream, recon>> /\ status = Plain("WAITING") /\ stage = 0
  BY DEF StartBegins, EntryInv, NextStageOnly
<1>3. \A b \in Placers : b # s => ~ Active(b)
  <2>1. Active(s)' /\ Free(s)
    BY <1>1 DEF StartBegins, Active, At
  <2>. QED
    BY <1>1, <2>1, BeginsAlone
<1>4. \A b \in Placers : b # s => ~ Active(b)' /\ call'[b].step \in {"idle", "done"}
  BY <1>1, <1>3 DEF Active, At, OthersRest
<1>5. Alone'
  BY <1>4 DEF Alone
<1>6. NextStageOnly'
  BY <1>1, <1>2, <1>4, ActorFacts DEF NextStageOnly, Working, Busy, At, row
<1>7. OneHolder'
  BY <1>1, <1>4, ActorFacts DEF OneHolder, Working, Busy, At
<1>8. OrdersKept
  BY <1>2, NothingOrdered
<1>9. \A c \in Clicks : call'[c] = call[c]
  BY <1>1, ActorFacts DEF OthersRest
<1>10. MarkedIsBought'
  BY <1>2, <1>8, <1>9, MarksRest DEF row, Working
<1>11. OrdersClimb'
  <2>1. \A a \in Placers : ~ Ordered(a) /\ ~ Ordered(a)'
    BY <1>1, <1>3, <1>4 DEF Ordered, At, Active, StartBegins
  <2>. QED
    BY <1>2, <1>8, <2>1, OrdersRest DEF row
<1>12. ReportsAreTrue'
  BY <1>2, <1>8, ReportsRest DEF row, TypeInv, TypeOK
<1>. QED
  BY <1>5, <1>6, <1>7, <1>10, <1>11, <1>12 DEF EntryInv

(* What the steps of a placer that touch neither orders nor reports keep.  *)
LEMMA Quiet ==
    ASSUME TypeInv, EntryInv, UNCHANGED <<orders, stream, recon, stage>>,
           \A a \in Placers : Ordered(a) => call'[a] = call[a],
           \A a \in Placers : Ordered(a)' => Ordered(a),
           status' = status \/ status'.kind # "PENDING"
    PROVE  OrdersKept /\ OrdersClimb' /\ ReportsAreTrue'
<1>1. OrdersKept
  BY NothingOrdered
<1>2. \A a \in Placers : Ordered(a) <=> Ordered(a)'
  BY DEF Ordered, At
<1>3. OrdersClimb'
  BY <1>1, <1>2, OrdersRest
<1>4. ReportsAreTrue'
  BY <1>1, ReportsRest DEF TypeInv, TypeOK
<1>. QED
  BY <1>1, <1>3, <1>4

LEMMA JobSafe ==
    ASSUME TypeInv, EntryInv, ~ Together \/ Alone',
           JobLoads \/ JobWaits \/ \E c \in {call[Job].copy, Row} : JobPicks(c)
    PROVE  EntryInv'
<1>1. /\ Job \in Placers /\ Job \notin Clicks /\ Job \in Unclaimed /\ Job \in Actors
      /\ call \in [Actors -> Calls]
  BY ActorFacts DEF TypeInv, TypeOK, Unclaimed
<1>2. OthersRest(Job) /\ UNCHANGED <<row, orders, stream, recon>>
  BY <1>1, ActorFacts DEF JobLoads, JobWaits, JobPicks, OthersRest
<1>3. ~ Working(Job) /\ ~ Ordered(Job) /\ ~ Ordered(Job)' /\ ~ At(Job, "read")'
  <2>1. call[Job].step \in {"idle", "loaded"}
    BY DEF JobLoads, JobWaits, JobPicks, At
  <2>2. call'[Job].step \in {"idle", "loaded", "gates"}
    <3>1. CASE JobLoads
      BY <1>1, <3>1 DEF JobLoads, Calls
    <3>2. CASE JobWaits
      BY <1>1, <3>2 DEF JobWaits, Idle
    <3>3. CASE \E c \in {call[Job].copy, Row} : JobPicks(c)
      BY <1>1, <3>3 DEF JobPicks, Idle
    <3>. QED
      BY <3>1, <3>2, <3>3
  <2>. QED
    BY <2>1, <2>2 DEF Working, Busy, Ordered, At
<1>4. \A b \in Placers : b # Job => ~ Active(b) /\ ~ Active(b)'
  <2>1. CASE JobLoads
    <3>1. Active(Job)' /\ Free(Job)
      BY <1>1, <2>1 DEF JobLoads, Active, At
    <3>2. \A b \in Placers : b # Job => ~ Active(b)
      BY <1>1, <1>2, <3>1, BeginsAlone
    <3>. QED
      BY <1>2, <3>2 DEF OthersRest, Active, At
  <2>2. CASE JobWaits \/ \E c \in {call[Job].copy, Row} : JobPicks(c)
    <3>1. Active(Job)
      BY <2>2, ActiveSteps, ActorFacts DEF JobWaits, JobPicks
    <3>2. \A b \in Placers : b # Job => ~ Active(b)
      BY <1>1, <3>1 DEF EntryInv, Alone
    <3>. QED
      BY <1>2, <3>2 DEF OthersRest, Active, At
  <2>. QED
    BY <2>1, <2>2
<1>5. Alone'
  BY <1>4 DEF Alone
<1>6. \A c \in Clicks : ~ Working(c) /\ ~ Working(c)' /\ ~ At(c, "read")'
  BY <1>1, <1>4, ActorFacts DEF Working, Busy, At, Active
<1>7. OneHolder'
  BY <1>6 DEF OneHolder
<1>8. NextStageOnly'
  <2>1. \A a \in Placers : Working(a)' => a = Job
    BY <1>4 DEF Working, Busy, At, Active
  <2>2. CASE JobLoads
    <3>1. call'[Job].step = "loaded" /\ call'[Job].copy.stage = stage
      BY <1>1, <2>2 DEF JobLoads, Row
    <3>. QED
      BY <1>2, <2>1, <3>1 DEF NextStageOnly, EntryInv, Working, Busy, At, row
  <2>3. CASE JobWaits
    BY <1>1, <1>2, <2>1, <2>3 DEF JobWaits, NextStageOnly, EntryInv, Working, Busy, At, Idle, row
  <2>4. ASSUME NEW c \in {call[Job].copy, Row}, JobPicks(c)
        PROVE  NextStageOnly'
    <3>1. c.stage = stage
      BY <2>4 DEF JobPicks, EntryInv, NextStageOnly, Row
    <3>2. call'[Job].step = "gates" /\ call'[Job].target = c.stage + 1
      BY <1>1, <2>4 DEF JobPicks, Idle
    <3>. QED
      BY <1>2, <2>1, <3>1, <3>2 DEF NextStageOnly, EntryInv, Working, At, row
  <2>. QED
    BY <2>2, <2>3, <2>4
<1>9. OrdersKept /\ OrdersClimb' /\ ReportsAreTrue'
  BY <1>2, <1>3, Quiet DEF OthersRest, Ordered, At, row
<1>10. MarkedIsBought'
  BY <1>2, <1>6, <1>9, MarksRest DEF row
<1>. QED
  BY <1>5, <1>7, <1>8, <1>9, <1>10 DEF EntryInv

LEMMA ClickReadsSafe ==
    ASSUME TypeInv, EntryInv, ~ Together \/ Alone', NEW c \in Clicks, ClickReads(c)
    PROVE  EntryInv'
<1>1. /\ c \in Placers /\ c \in Actors /\ c \notin Unclaimed /\ c # Job
      /\ call \in [Actors -> Calls]
  BY ActorFacts DEF TypeInv, TypeOK, Unclaimed
<1>2. /\ OthersRest(c) /\ UNCHANGED <<row, orders, stream, recon>>
      /\ call'[c].step = "read" /\ call'[c].target = stage + 1 /\ At(c, "idle")
  BY <1>1, ActorFacts DEF ClickReads, OthersRest
<1>3. ~ Working(c) /\ ~ Ordered(c) /\ ~ Working(c)' /\ ~ Ordered(c)' /\ ~ Active(c)
  BY <1>2 DEF Working, Busy, Ordered, At, Active
<1>4. \A b \in Placers : Active(b) => b \in Clicks
  <2>1. Active(c)' /\ Free(c)
    BY <1>2 DEF ClickReads, Active, At
  <2>2. \A b \in Placers : b # c /\ b \in Unclaimed => ~ Active(b)
    BY <1>1, <1>2, <2>1, BeginsAlone
  <2>. QED
    BY <1>3, <2>2, ActorFacts DEF Unclaimed, Placers
<1>5. Alone'
  BY <1>2, <1>4 DEF Alone, Active, At, OthersRest
<1>6. NextStageOnly'
  BY <1>1, <1>2, <1>3, ActorFacts DEF NextStageOnly, EntryInv, Working, At, OthersRest, row
<1>7. \A d \in Clicks : d # c => call'[d] = call[d]
  BY <1>2, ActorFacts DEF OthersRest
<1>8. OneHolder'
  <2>1. stage \in Nat
    BY DEF TypeInv, TypeOK
  <2>2. \A d \in Clicks : Working(d)' <=> Working(d)
    BY <1>3, <1>7 DEF Working
  <2>3. /\ \A d, e \in Clicks : Working(d)' /\ Working(e)' => d = e
        /\ \A d \in Clicks : Working(d)' => triggered'[call'[d].target]
    BY <1>2, <1>3, <1>7, <2>2 DEF OneHolder, EntryInv, row
  <2>4. ASSUME NEW d \in Clicks, At(d, "read")'
        PROVE  /\ call'[d].target <= stage' + 1
               /\ call'[d].target <= stage' => triggered'[call'[d].target]
    BY <1>2, <1>7, <2>1, <2>4 DEF OneHolder, EntryInv, row, At
  <2>. QED
    BY <2>3, <2>4 DEF OneHolder
<1>9. OrdersKept /\ OrdersClimb' /\ ReportsAreTrue'
  BY <1>2, <1>3, Quiet DEF OthersRest, Ordered, At, row
<1>10. MarkedIsBought'
  BY <1>2, <1>3, <1>7, <1>9, MarksRest DEF row, Working
<1>. QED
  BY <1>5, <1>6, <1>8, <1>9, <1>10 DEF EntryInv

LEMMA ClickClaimsSafe ==
    ASSUME TypeInv, EntryInv, NEW c \in Clicks, ClickClaims(c)
    PROVE  EntryInv'
<1>1. c \in Placers /\ c \in Actors /\ c # Job /\ call[c] \in Calls /\ call \in [Actors -> Calls]
  BY ActorFacts DEF TypeInv, TypeOK, Unclaimed
<1>2. /\ OthersRest(c) /\ UNCHANGED <<orders, stream, recon, stage, status>>
      /\ At(c, "read") /\ ~ Working(c) /\ ~ Ordered(c) /\ Active(c)
  <2>1. OthersRest(c)
    BY <1>1, ActorFacts DEF ClickClaims, Move, OthersRest
  <2>. QED
    BY <2>1 DEF ClickClaims, At, Working, Busy, Ordered, Active
<1>3. \A d \in Clicks : d # c => call'[d] = call[d]
  BY <1>2, ActorFacts DEF OthersRest
<1>4. Alone'
  BY <1>2 DEF EntryInv, Alone, Active, At, OthersRest
<1>5. stage \in Nat /\ call[c].target \in Stages /\ call[c].target \in Nat
  <2>1. call[c].target \in Stages
    BY <1>1, <1>2 DEF TypeInv, TargetsAreStages
  <2>2. stage \in Nat
    BY DEF TypeInv, TypeOK
  <2>. QED
    BY <2>1, <2>2, Numbers
<1>6. CASE triggered[call[c].target]
  <2>1. triggered' = triggered /\ call'[c].step = "done"
    BY <1>1, <1>6 DEF ClickClaims, Ended, Idle
  <2>2. ~ Working(c)' /\ ~ Ordered(c)' /\ ~ At(c, "read")' /\ ~ At(c, "loaded")'
    BY <2>1 DEF Working, Busy, Ordered, At
  <2>3. NextStageOnly'
    BY <1>1, <1>2, <2>1, <2>2, ActorFacts DEF NextStageOnly, EntryInv, Working, At, OthersRest
  <2>4. OneHolder'
    BY <1>2, <1>3, <2>1, <2>2 DEF OneHolder, EntryInv, Working, At
  <2>5. OrdersKept /\ OrdersClimb' /\ ReportsAreTrue'
    BY <1>2, <2>2, Quiet DEF OthersRest, Ordered, At
  <2>6. MarkedIsBought'
    BY <1>2, <1>3, <2>1, <2>5, MarksRest DEF Working
  <2>. QED
    BY <1>4, <2>3, <2>4, <2>5, <2>6 DEF EntryInv
<1>7. CASE ~ triggered[call[c].target]
  <2>1. /\ call'[c].step = "claimed" /\ call'[c].target = call[c].target
        /\ triggered' = [triggered EXCEPT ![call[c].target] = TRUE]
    <3>1. Move(c, "claimed") /\ triggered' = [triggered EXCEPT ![call[c].target] = TRUE]
      BY <1>7 DEF ClickClaims
    <3>. QED
      BY <1>1, <3>1 DEF Move, Calls
  <2>2. Working(c)' /\ ~ Ordered(c)' /\ ~ At(c, "read")'
    BY <2>1 DEF Working, Busy, Ordered, At
  <2>3. call[c].target = stage + 1
    BY <1>2, <1>5, <1>7 DEF EntryInv, OneHolder
  <2>4. \A n \in Stages : triggered'[n] <=> triggered[n] \/ n = call[c].target
    BY <2>1, <1>5 DEF TypeInv, TypeOK
  <2>5. \A d \in Clicks : ~ Working(d)
    BY <1>7, <2>3, ActorFacts DEF EntryInv, OneHolder, NextStageOnly
  <2>6. \A d \in Clicks : Working(d)' => d = c
    BY <1>3, <2>5 DEF Working
  <2>7. NextStageOnly'
    BY <1>1, <1>2, <2>1, <2>3, ActorFacts DEF NextStageOnly, EntryInv, Working, At, OthersRest
  <2>8. ASSUME NEW d \in Clicks, At(d, "read")'
        PROVE  /\ call'[d].target <= stage' + 1
               /\ call'[d].target <= stage' => triggered'[call'[d].target]
    <3>1. call'[d] = call[d] /\ At(d, "read")
      BY <1>3, <2>2, <2>8 DEF At
    <3>2. call[d].target \in Stages
      BY <3>1, ActorFacts DEF TypeInv, TargetsAreStages
    <3>. QED
      BY <1>2, <2>4, <3>1, <3>2 DEF EntryInv, OneHolder
  <2>9. OneHolder'
    BY <1>5, <2>1, <2>4, <2>6, <2>8 DEF OneHolder
  <2>10. OrdersKept /\ OrdersClimb' /\ ReportsAreTrue'
    BY <1>2, <2>2, Quiet DEF OthersRest, Ordered, At
  <2>11. MarkedIsBought'
    BY <1>3, <2>1, <2>2, <2>4, <2>5, <2>10, BoughtStaysBought
    DEF EntryInv, MarkedIsBought, BoughtStage
  <2>. QED
    BY <1>4, <2>7, <2>9, <2>10, <2>11 DEF EntryInv
<1>. QED
  BY <1>6, <1>7

(* The steps of a placer that keep its stage and place nothing. *)
LEMMA StaysSafe ==
    ASSUME TypeInv, EntryInv, NEW a \in Placers,
           (a \in Clicks /\ ClickEnters(a)) \/ TrimAsks(a) \/ TrimCloses(a)
    PROVE  EntryInv'
<1>1. a \in Actors /\ call[a] \in Calls /\ call \in [Actors -> Calls]
  BY ActorFacts DEF TypeInv, TypeOK
<1>2. Working(a) /\ ~ Ordered(a)
  BY DEF ClickEnters, TrimAsks, TrimCloses, Working, Busy, Ordered, At
<1>3. /\ OthersRest(a) /\ call'[a].target = call[a].target
      /\ call'[a].step \in {"gates", "trim", "place"}
  <2>1. CASE a \in Clicks /\ ClickEnters(a)
    BY <1>1, <2>1, ActorFacts DEF ClickEnters, Move, OthersRest, Calls
  <2>2. CASE TrimAsks(a)
    BY <1>1, <2>2, ActorFacts DEF TrimAsks, Move, OthersRest, Calls
  <2>3. CASE TrimCloses(a)
    BY <1>1, <2>3, ActorFacts DEF TrimCloses, OthersRest, Calls
  <2>. QED
    BY <2>1, <2>2, <2>3
<1>4. Working(a)' /\ ~ Ordered(a)'
  BY <1>3 DEF Working, Busy, Ordered, At
<1>5. /\ UNCHANGED <<orders, recon, stage, triggered>>
      /\ status' = status \/ status' = Plain("MANUAL_CLEANUP_REQUIRED")
  BY DEF ClickEnters, TrimAsks, TrimCloses, row
<1>6. Alone' /\ NextStageOnly' /\ OneHolder'
  BY <1>2, <1>3, <1>4, <1>5, PlacerAdvances DEF Plain
<1>7. OrdersKept
  BY <1>5, NothingOrdered
<1>8. OrdersClimb'
  BY <1>2, <1>3, <1>4, <1>5, <1>7, OrdersRest DEF OthersRest, Ordered, At
<1>9. ReportsAreTrue'
  <2>1. stream \in Seq(Events)
    BY DEF TypeInv, TypeOK
  <2>2. stream' = stream \/ \E e \in Events : e.type = "EXIT" /\ stream' = Append(stream, e)
    BY DEF ClickEnters, TrimAsks, TrimCloses, Events
  <2>3. \A k \in DOMAIN stream' : stream'[k].type = "ENTRY" => \E j \in DOMAIN stream : stream[j] = stream'[k]
    BY <2>1, <2>2
  <2>. QED
    BY <1>5, <1>7, <2>3, ReportsRest DEF TypeInv, TypeOK, Plain
<1>10. MarkedIsBought'
  BY <1>3, <1>4, <1>5, <1>7, MarksRest, ActorFacts DEF OthersRest, Working
<1>. QED
  BY <1>6, <1>8, <1>9, <1>10 DEF EntryInv

LEMMA QuitsSafe ==
    ASSUME TypeInv, EntryInv, NEW a \in Placers, Fails(a) \/ TrimFindsNothing(a)
    PROVE  EntryInv'
<1>1. a \in Actors /\ call \in [Actors -> Calls]
  BY ActorFacts DEF TypeInv, TypeOK
<1>2. Working(a) /\ ~ Ordered(a)
  BY DEF Fails, TrimFindsNothing, Working, Busy, Ordered, At
<1>3. OthersRest(a) /\ call'[a] = Ended(a)
  BY <1>1, ActorFacts DEF Fails, TrimFindsNothing, OthersRest
<1>4. /\ UNCHANGED <<stream, recon, stage>> /\ triggered' = FailedClaim(a)
      /\ status' = status \/ status' = Plain("STOPPED")
  BY DEF Fails, TrimFindsNothing, FailedStatus
<1>5. Alone' /\ NextStageOnly' /\ OneHolder'
  BY <1>2, <1>3, <1>4, PlacerQuits DEF Plain
<1>6. OrdersKept /\ DOMAIN orders' = DOMAIN orders
  <2>1. CASE Fails(a)
    BY <2>1, NothingOrdered DEF Fails
  <2>2. CASE TrimFindsNothing(a)
    BY <2>2, CancelKeeps DEF TrimFindsNothing
  <2>. QED
    BY <2>1, <2>2
<1>7. ~ Ordered(a)'
  BY <1>3 DEF Ordered, At, Ended, Idle
<1>8. OrdersClimb'
  BY <1>2, <1>3, <1>4, <1>6, <1>7, OrdersRest DEF OthersRest, Ordered, At
<1>9. ReportsAreTrue'
  BY <1>4, <1>6, ReportsRest DEF TypeInv, TypeOK, Plain
<1>10. MarkedIsBought'
  BY <1>2, <1>3, <1>4, <1>6, MarksGivenBack
<1>. QED
  BY <1>5, <1>8, <1>9, <1>10 DEF EntryInv

(* An accepted order is the last one, and its event is true. *)
LEMMA AcceptedKeeps ==
    ASSUME TypeInv, EntryInv, NEW a \in Placers, Working(a), NEW type \in {"LIMIT", "MARKET"},
           NEW answered \in BOOLEAN, Accepted(a, type, answered), recon' = recon, stage' = stage,
           status' = status \/ status'.kind # "PENDING"
    PROVE  /\ OrdersKept /\ ReportsAreTrue'
           /\ DOMAIN orders = 1 .. Len(orders) /\ Len(orders) \in Nat
           /\ DOMAIN orders' = 1 .. Len(orders) + 1
           /\ \A i \in DOMAIN orders : orders'[i] = orders[i]
           /\ orders'[Len(orders) + 1].stage = call[a].target
           /\ orders'[Len(orders) + 1].answered = answered
           /\ type = "MARKET" => orders'[Len(orders) + 1].state = "FILLED"
<1>1. /\ orders' \in Seq(Orders) /\ Len(orders') = Len(orders) + 1
      /\ \A i \in DOMAIN orders : i \in DOMAIN orders' /\ orders'[i] = orders[i]
      /\ orders'[Len(orders) + 1] = NewOrder(a, type, answered)
      /\ stream' \in Seq(Events)
  BY OrderAccepted
<1>2. DOMAIN orders = 1 .. Len(orders) /\ Len(orders) \in Nat /\ stream \in Seq(Events)
  BY DEF TypeInv, TypeOK
<1>3. DOMAIN orders' = 1 .. Len(orders) + 1
  BY <1>1
<1>4. OrdersKept
  BY <1>1 DEF OrdersKept
<1>5. /\ orders'[Len(orders) + 1].stage = call[a].target
      /\ orders'[Len(orders) + 1].answered = answered
      /\ type = "MARKET" => orders'[Len(orders) + 1].state = "FILLED"
  BY <1>1 DEF NewOrder
<1>6. ReportsAreTrue'
  <2>1. ASSUME NEW k \in DOMAIN stream', stream'[k].type = "ENTRY"
        PROVE  \/ \E j \in DOMAIN stream : stream[j] = stream'[k]
               \/ /\ stream'[k].order \in DOMAIN orders'
                  /\ orders'[stream'[k].order].state = "FILLED"
    <3>1. CASE type = "MARKET"
      <4>. DEFINE e == [type |-> "ENTRY", order |-> Len(orders) + 1]
      <4>1. stream' = Append(stream, e) /\ e.order = Len(orders) + 1
        BY <3>1 DEF Accepted
      <4>. HIDE DEF e
      <4>2. (k \in DOMAIN stream /\ stream[k] = stream'[k]) \/ stream'[k] = e
        BY <1>2, <2>1, <4>1
      <4>. QED
        BY <1>2, <1>3, <1>5, <3>1, <4>1, <4>2
    <3>2. CASE type # "MARKET"
      BY <2>1, <3>2 DEF Accepted
    <3>. QED
      BY <3>1, <3>2
  <2>. QED
    BY <1>4, <2>1, ReportsRest DEF TypeInv, TypeOK
<1>. QED
  BY <1>2, <1>1, <1>3, <1>4, <1>5, <1>6

LEMMA PlacesSafe ==
    ASSUME TypeInv, EntryInv, NEW a \in Placers, Places(a)
    PROVE  EntryInv'
<1>1. a \in Actors /\ call[a] \in Calls /\ call \in [Actors -> Calls]
  BY ActorFacts DEF TypeInv, TypeOK
<1>2. Working(a) /\ ~ Ordered(a)
  BY DEF Places, Working, Busy, Ordered, At
<1>3. /\ OthersRest(a) /\ call'[a].step = "placed" /\ call'[a].target = call[a].target
      /\ call'[a].seen = Len(orders) + 1
  BY <1>1, ActorFacts DEF Places, OthersRest, Calls
<1>4. Working(a)' /\ Ordered(a)'
  BY <1>3 DEF Working, Busy, Ordered, At
<1>5. UNCHANGED <<row, recon>>
  BY DEF Places
<1>6. PICK type \in OrderTypes(a) : Accepted(a, type, TRUE)
  BY DEF Places
<1>7. type \in {"LIMIT", "MARKET"} /\ (a \in Clicks => type = "MARKET")
  BY DEF OrderTypes
<1>8. /\ OrdersKept /\ ReportsAreTrue'
      /\ DOMAIN orders = 1 .. Len(orders) /\ Len(orders) \in Nat
      /\ DOMAIN orders' = 1 .. Len(orders) + 1
      /\ \A i \in DOMAIN orders : orders'[i] = orders[i]
      /\ orders'[Len(orders) + 1].stage = call[a].target
      /\ type = "MARKET" => orders'[Len(orders) + 1].state = "FILLED"
  BY <1>2, <1>5, <1>6, <1>7, AcceptedKeeps DEF row
<1>9. Alone' /\ NextStageOnly' /\ OneHolder'
  BY <1>2, <1>3, <1>4, <1>5, PlacerAdvances DEF row
<1>10. OrdersClimb'
  <2>1. \A b \in Placers : b # a => (Ordered(b)' <=> Ordered(b))
    BY <1>3 DEF Ordered, At, OthersRest
  <2>2. ASSUME NEW b \in Placers, Ordered(b)'
        PROVE  /\ call'[b].seen \in DOMAIN orders'
               /\ orders'[call'[b].seen].stage = call'[b].target
               /\ b \in Clicks => orders'[call'[b].seen].state = "FILLED"
    <3>1. CASE b = a
      BY <1>3, <1>7, <1>8, <3>1
    <3>2. CASE b # a
      BY <1>3, <1>8, <2>1, <2>2, <3>2 DEF EntryInv, OrdersClimb, OthersRest
    <3>. QED
      BY <3>1, <3>2
  <2>3. ASSUME NEW i \in DOMAIN orders', orders'[i].answered
        PROVE  orders'[i].stage <= stage' \/ \E b \in Placers : Ordered(b)' /\ call'[b].seen = i
    <3>1. CASE i = Len(orders) + 1
      BY <1>3, <1>4, <3>1
    <3>2. CASE i # Len(orders) + 1
      <4>1. i \in DOMAIN orders /\ orders'[i] = orders[i]
        BY <1>8, <3>2
      <4>2. orders[i].stage <= stage \/ \E b \in Placers : Ordered(b) /\ call[b].seen = i
        BY <2>3, <4>1 DEF EntryInv, OrdersClimb
      <4>. QED
        BY <1>2, <1>3, <1>5, <2>1, <4>1, <4>2 DEF OthersRest, row
    <3>. QED
      BY <3>1, <3>2
  <2>4. \A n \in 1 .. stage' : Sent(n)'
    BY <1>5, <1>8 DEF EntryInv, OrdersClimb, OrdersKept, Sent, row
  <2>. QED
    BY <2>2, <2>3, <2>4 DEF OrdersClimb
<1>11. MarkedIsBought'
  BY <1>3, <1>4, <1>5, <1>8, MarksRest, ActorFacts DEF OthersRest, Working, row
<1>. QED
  BY <1>8, <1>9, <1>10, <1>11 DEF EntryInv

LEMMA PlacesUnansweredSafe ==
    ASSUME TypeInv, EntryInv, NEW a \in Placers, PlacesUnanswered(a)
    PROVE  EntryInv'
<1>1. a \in Actors /\ call \in [Actors -> Calls]
  BY ActorFacts DEF TypeInv, TypeOK
<1>2. Working(a) /\ ~ Ordered(a)
  BY DEF PlacesUnanswered, Working, Busy, Ordered, At
<1>3. OthersRest(a) /\ call'[a] = Ended(a)
  BY <1>1, ActorFacts DEF PlacesUnanswered, OthersRest
<1>4. /\ UNCHANGED <<stage, recon>> /\ triggered' = FailedClaim(a)
      /\ status' = status \/ status' = Plain("STOPPED")
  BY DEF PlacesUnanswered, FailedStatus
<1>5. PICK type \in OrderTypes(a) : Accepted(a, type, FALSE)
  BY DEF PlacesUnanswered
<1>6. type \in {"LIMIT", "MARKET"}
  BY DEF OrderTypes
<1>7. /\ OrdersKept /\ ReportsAreTrue'
      /\ DOMAIN orders = 1 .. Len(orders) /\ Len(orders) \in Nat
      /\ DOMAIN orders' = 1 .. Len(orders) + 1
      /\ \A i \in DOMAIN orders : orders'[i] = orders[i]
      /\ orders'[Len(orders) + 1].answered = FALSE
  <2>1. stage' = stage /\ recon' = recon
    BY <1>4
  <2>2. status' = status \/ status'.kind # "PENDING"
    BY <1>4 DEF Plain
  <2>. QED
    BY <1>2, <1>5, <1>6, <2>1, <2>2, AcceptedKeeps
<1>8. Alone' /\ NextStageOnly' /\ OneHolder'
  BY <1>2, <1>3, <1>4, PlacerQuits DEF Plain
<1>9. OrdersClimb'
  <2>1. ~ Ordered(a)'
    BY <1>3 DEF Ordered, At, Ended, Idle
  <2>2. \A b \in Placers : Ordered(b)' <=> Ordered(b)
    BY <1>2, <1>3, <2>1 DEF Ordered, At, OthersRest
  <2>3. \A b \in Placers : Ordered(b) => call'[b] = call[b]
    BY <1>2, <1>3 DEF OthersRest
  <2>4. ASSUME NEW b \in Placers, Ordered(b)'
        PROVE  /\ call'[b].seen \in DOMAIN orders'
               /\ orders'[call'[b].seen].stage = call'[b].target
               /\ b \in Clicks => orders'[call'[b].seen].state = "FILLED"
    BY <1>7, <2>2, <2>3, <2>4 DEF EntryInv, OrdersClimb
  <2>5. ASSUME NEW i \in DOMAIN orders', orders'[i].answered
        PROVE  orders'[i].stage <= stage' \/ \E b \in Placers : Ordered(b)' /\ call'[b].seen = i
    <3>1. i \in DOMAIN orders /\ orders'[i] = orders[i]
      BY <1>7, <2>5
    <3>2. orders[i].stage <= stage \/ \E b \in Placers : Ordered(b) /\ call[b].seen = i
      BY <2>5, <3>1 DEF EntryInv, OrdersClimb
    <3>. QED
      BY <1>4, <2>2, <2>3, <3>1, <3>2
  <2>6. \A n \in 1 .. stage' : Sent(n)'
    BY <1>4, <1>7 DEF EntryInv, OrdersClimb, OrdersKept, Sent
  <2>. QED
    BY <2>4, <2>5, <2>6 DEF OrdersClimb
<1>10. MarkedIsBought'
  BY <1>2, <1>3, <1>4, <1>7, MarksGivenBack
<1>. QED
  BY <1>7, <1>8, <1>9, <1>10 DEF EntryInv
LEMMA CommitsRowSafe ==
    ASSUME TypeInv, EntryInv, NEW a \in Placers, CommitsRow(a)
    PROVE  EntryInv'
<1>1. a \in Actors /\ call \in [Actors -> Calls] /\ call[a] \in Calls
  BY ActorFacts DEF TypeInv, TypeOK
<1>2. /\ Working(a) /\ Ordered(a) /\ UNCHANGED <<row, stream, recon>>
      /\ orders' = Known(a) /\ call' = [call EXCEPT ![a].step = "written"]
  BY DEF CommitsRow, Working, Busy, Ordered, At, Move
<1>3. /\ OthersRest(a)
      /\ call'[a].step = "written" /\ call'[a].target = call[a].target
      /\ call'[a].seen = call[a].seen
  BY <1>1, <1>2, ActorFacts DEF OthersRest, Calls
<1>4. Working(a)' /\ Ordered(a)'
  BY <1>3 DEF Working, Busy, Ordered, At
<1>5. OrdersKept /\ DOMAIN orders' = DOMAIN orders
  BY <1>2, RowCommitted DEF OrdersKept
<1>6. Alone' /\ NextStageOnly' /\ OneHolder'
  BY <1>2, <1>3, <1>4, PlacerAdvances DEF row
<1>7. OrdersClimb'
  <2>1. \A b \in Placers : Ordered(b) <=> Ordered(b)'
    BY <1>2, <1>3, <1>4 DEF Ordered, At, OthersRest
  <2>2. \A b \in Placers : call'[b].seen = call[b].seen /\ call'[b].target = call[b].target
    BY <1>3 DEF OthersRest
  <2>. QED
    BY <1>2, <1>5, <2>1, <2>2, OrdersRest DEF row
<1>8. MarkedIsBought'
  BY <1>2, <1>3, <1>4, <1>5, MarksRest, ActorFacts DEF OthersRest, Working, row
<1>9. ReportsAreTrue'
  BY <1>2, <1>5, ReportsRest DEF row, TypeInv, TypeOK
<1>. QED
  BY <1>6, <1>7, <1>8, <1>9 DEF EntryInv

(* An actor at work is alone: no other one works, whatever it is. *)
LEMMA OneWorks ==
    ASSUME TypeInv, EntryInv, NEW a \in Placers, NEW b \in Placers, Working(a), Working(b)
    PROVE  a = b
BY ActiveSteps DEF EntryInv, Alone, OneHolder

LEMMA CommitsStageSafe ==
    ASSUME TypeInv, EntryInv, NEW a \in Placers, CommitsStage(a)
    PROVE  EntryInv'
<1>. DEFINE n == call[a].target
<1>1. a \in Actors /\ call \in [Actors -> Calls] /\ call[a] \in Calls
  BY ActorFacts DEF TypeInv, TypeOK
<1>2. /\ Working(a) /\ Ordered(a) /\ Active(a) /\ UNCHANGED <<stream, recon>>
      /\ orders' = Known(a) /\ call' = [call EXCEPT ![a] = Ended(a)]
      /\ stage' = n /\ status' = Pending(n)
      /\ triggered' = IF a \in Clicks THEN [triggered EXCEPT ![n] = TRUE] ELSE triggered
  BY DEF CommitsStage, Working, Busy, Ordered, At, Active
<1>3. /\ n \in Stages /\ n \in Nat /\ stage \in Nat /\ n = stage + 1
  <2>1. n \in Stages /\ stage \in Nat
    BY <1>2 DEF TypeInv, TargetsAreStages, TypeOK
  <2>2. n = stage + 1
    BY <1>2 DEF EntryInv, NextStageOnly
  <2>. QED
    BY <2>1, <2>2, Numbers
<1>4. /\ OthersRest(a)
      /\ ~ Working(a)' /\ ~ Ordered(a)' /\ ~ At(a, "read")' /\ ~ At(a, "loaded")' /\ ~ Active(a)'
  <2>1. OthersRest(a)
    BY <1>1, <1>2, ActorFacts DEF OthersRest
  <2>2. call'[a].step \in {"idle", "done"}
    BY <1>1, <1>2 DEF Ended, Idle
  <2>. QED
    BY <2>1, <2>2 DEF Working, Busy, Ordered, At, Active
<1>5. \A b \in Placers : ~ Working(b)' /\ ~ Ordered(b)'
  <2>1. \A b \in Placers : b # a => ~ Working(b)
    BY <1>2, OneWorks
  <2>2. \A b \in Placers : Ordered(b) => Working(b)
    BY DEF Ordered, Working, Busy, At
  <2>. QED
    BY <1>4, <2>1, <2>2 DEF OthersRest, Working, Ordered, At
<1>6. \A m \in Stages : triggered'[m] <=> triggered[m] \/ (a \in Clicks /\ m = n)
  BY <1>2, <1>3 DEF TypeInv, TypeOK
<1>7. /\ OrdersKept /\ DOMAIN orders' = DOMAIN orders
      /\ \A i \in DOMAIN orders : /\ orders'[i].stage = orders[i].stage
                                  /\ orders'[i].state = orders[i].state
                                  /\ orders'[i].answered = orders[i].answered
                                  /\ orders'[i].by = orders[i].by
  BY <1>2, RowCommitted DEF OrdersKept
<1>8. call[a].seen \in DOMAIN orders /\ orders[call[a].seen].stage = n
      /\ (a \in Clicks => orders[call[a].seen].state = "FILLED")
  BY <1>2 DEF EntryInv, OrdersClimb
<1>9. Alone'
  <2>1. \A b \in Placers : Active(b)' => Active(b) /\ b # a
    BY <1>4 DEF OthersRest, Active, At
  <2>. QED
    BY <2>1 DEF EntryInv, Alone
<1>10. NextStageOnly'
  <2>1. ~ At(Job, "loaded")'
    <3>1. CASE a = Job
      BY <1>4, <3>1
    <3>2. CASE a # Job
      <4>1. ~ At(Job, "loaded")
        BY <1>2, <3>2, ActiveSteps, ActorFacts DEF EntryInv, Alone, Unclaimed
      <4>. QED
        BY <1>4, <3>2, <4>1, ActorFacts DEF OthersRest, At
    <3>. QED
      BY <3>1, <3>2
  <2>2. status' # Plain("WAITING")
    BY <1>2 DEF Pending, Plain
  <2>. QED
    BY <1>5, <2>1, <2>2 DEF NextStageOnly
<1>11. OneHolder'
  <2>1. ASSUME NEW c \in Clicks, At(c, "read")'
        PROVE  /\ call'[c].target <= stage' + 1
               /\ call'[c].target <= stage' => triggered'[call'[c].target]
    <3>1. c \in Placers /\ c # a /\ call'[c] = call[c] /\ At(c, "read")
      BY <1>4, <2>1, ActorFacts DEF OthersRest, At
    <3>2. a \in Clicks
      BY <1>2, <3>1, ActiveSteps DEF EntryInv, Alone
    <3>3. call[c].target \in Stages /\ call[c].target \in Nat
      BY <3>1, Numbers DEF TypeInv, TargetsAreStages
    <3>4. /\ call[c].target <= stage + 1
          /\ call[c].target <= stage => triggered[call[c].target]
      BY <3>1 DEF EntryInv, OneHolder
    <3>. QED
      BY <1>2, <1>3, <1>6, <3>1, <3>2, <3>3, <3>4
  <2>. QED
    BY <1>5, <2>1, ActorFacts DEF OneHolder
<1>12. OrdersClimb'
  <2>1. ASSUME NEW i \in DOMAIN orders', orders'[i].answered
        PROVE  orders'[i].stage <= stage'
    <3>1. i \in DOMAIN orders /\ orders[i].answered /\ orders'[i].stage = orders[i].stage
      BY <1>7, <2>1
    <3>2. CASE orders[i].stage <= stage
      <4>1. orders[i].stage \in Stages
        <5>1. orders \in Seq(Orders)
          BY DEF TypeInv, TypeOK
        <5>2. orders[i] \in Orders
          BY <3>1, <5>1
        <5>. QED
          BY <5>2 DEF Orders
      <4>2. orders[i].stage \in Nat
        BY <4>1, Numbers
      <4>. QED
        BY <1>2, <1>3, <3>1, <3>2, <4>2
    <3>3. CASE \E b \in Placers : Ordered(b) /\ call[b].seen = i
      <4>1. PICK b \in Placers : Ordered(b) /\ call[b].seen = i
        BY <3>3
      <4>2. Working(b)
        BY <4>1 DEF Ordered, Working, Busy, At
      <4>3. b = a
        BY <1>2, <4>2, OneWorks
      <4>. QED
        BY <1>2, <1>3, <1>8, <3>1, <4>1, <4>3
    <3>. QED
      BY <3>1, <3>2, <3>3 DEF EntryInv, OrdersClimb
  <2>2. ASSUME NEW m \in 1 .. stage'
        PROVE  Sent(m)'
    <3>1. m \in 1 .. stage \/ m = n
      BY <1>2, <1>3
    <3>2. Sent(m)
      BY <1>8, <3>1 DEF EntryInv, OrdersClimb, Sent
    <3>. QED
      BY <1>7, <3>2 DEF Sent
  <2>. QED
    BY <1>5, <2>1, <2>2 DEF OrdersClimb
<1>13. MarkedIsBought'
  <2>1. ASSUME NEW m \in Stages, triggered'[m]
        PROVE  BoughtStage(m)'
    <3>1. CASE BoughtStage(m)
      BY <1>7, <3>1, BoughtStaysBought
    <3>2. CASE a \in Clicks /\ m = n
      BY <1>7, <1>8, <3>2 DEF BoughtStage, Sent, Executed
    <3>3. CASE \E c \in Clicks : Working(c) /\ call[c].target = m
      <4>1. PICK c \in Clicks : Working(c) /\ call[c].target = m
        BY <3>3
      <4>2. c = a
        BY <1>2, <4>1, OneWorks, ActorFacts
      <4>. QED
        BY <3>2, <4>1, <4>2
    <3>. QED
      BY <1>6, <2>1, <3>1, <3>2, <3>3 DEF EntryInv, MarkedIsBought, BoughtStage
  <2>. QED
    BY <2>1 DEF MarkedIsBought, BoughtStage
<1>14. ReportsAreTrue'
  <2>1. status'.stage <= stage' /\ stage <= stage' /\ stage' \in Nat
    BY <1>2, <1>3 DEF Pending
  <2>. QED
    BY <1>2, <1>7, <2>1, ReportsRest
<1>. QED
  BY <1>9, <1>10, <1>11, <1>12, <1>13, <1>14 DEF EntryInv

(* Steps of others: no placer moves, and what they mark was bought. *)
LEMMA OutsideSafe ==
    ASSUME TypeInv, EntryInv, \A a \in Placers : call'[a] = call[a], stage' = stage,
           status' = Plain("WAITING") => status = Plain("WAITING"),
           \A n \in Stages : triggered[n] => triggered'[n],
           \A n \in Stages : triggered'[n] => triggered[n] \/ BoughtStage(n)',
           OrdersKept, DOMAIN orders' = DOMAIN orders,
           \A k \in DOMAIN stream' : stream'[k].type = "ENTRY" =>
               \/ \E j \in DOMAIN stream : stream[j] = stream'[k]
               \/ /\ stream'[k].order \in DOMAIN orders'
                  /\ orders'[stream'[k].order].state = "FILLED",
           status' = status \/ status'.kind # "PENDING",
           recon' = recon \/ recon' = status \/ recon' = NoJob
    PROVE  EntryInv'
<1>1. Alone' /\ NextStageOnly' /\ OneHolder'
  BY PlacersRest
<1>2. OrdersClimb'
  BY OrdersRest DEF Ordered, At
<1>3. MarkedIsBought'
  BY MarksRest, ActorFacts DEF Working
<1>4. ReportsAreTrue'
  BY ReportsRest DEF TypeInv, TypeOK
<1>. QED
  BY <1>1, <1>2, <1>3, <1>4 DEF EntryInv
LEMMA StopSafe ==
    ASSUME TypeInv, EntryInv, NEW s \in Stops, Stop(s)
    PROVE  EntryInv'
<1>1. call \in [Actors -> Calls] /\ s \in Actors
  BY ActorFacts DEF TypeInv, TypeOK
<1>2. UNCHANGED <<stage, triggered, recon>> /\ \A a \in Placers : call'[a] = call[a]
  BY <1>1, ActorFacts DEF Stop, StopCancels, StopCloses, StopFinishes, row
<1>3. OrdersKept /\ DOMAIN orders' = DOMAIN orders
  <2>1. AllCancelled \/ orders' = orders
    BY DEF Stop, StopCancels, StopCloses, StopFinishes
  <2>. QED
    BY <2>1, CancelKeeps, NothingOrdered
<1>4. \A k \in DOMAIN stream' : stream'[k].type = "ENTRY" =>
          \E j \in DOMAIN stream : stream[j] = stream'[k]
  <2>1. stream' = stream \/ stream' = Append(stream, [type |-> "EXIT", order |-> 0])
    BY DEF Stop, StopCancels, StopCloses, StopFinishes
  <2>2. stream \in Seq(Events)
    BY DEF TypeInv, TypeOK
  <2>. QED
    BY <2>1, <2>2
<1>5. status' = status \/ status' \in {Plain("STOPPED"), Plain("STOPPING")}
  BY DEF Stop, StopCancels, StopCloses, StopFinishes, row
<1>6. /\ status' = Plain("WAITING") => status = Plain("WAITING")
      /\ status' = status \/ status'.kind # "PENDING"
  BY <1>5 DEF Plain
<1>. QED
  BY <1>2, <1>3, <1>4, <1>6, OutsideSafe

LEMMA LimitFillsSafe ==
    ASSUME TypeInv, EntryInv, NEW i \in DOMAIN orders, LimitFills(i)
    PROVE  EntryInv'
<1>1. orders \in Seq(Orders) /\ stream \in Seq(Events)
  BY DEF TypeInv, TypeOK
<1>2. \A j \in DOMAIN orders : orders[j] \in Orders
  BY <1>1
<1>3. /\ OrdersKept /\ DOMAIN orders' = DOMAIN orders
      /\ orders'[i].state = "FILLED"
  <2>1. orders' = [orders EXCEPT ![i] = [orders[i] EXCEPT !.state = "FILLED"]]
    BY DEF LimitFills
  <2>2. \A o \in Orders : /\ [o EXCEPT !.state = "FILLED"].state = "FILLED"
                          /\ [o EXCEPT !.state = "FILLED"].stage = o.stage
                          /\ [o EXCEPT !.state = "FILLED"].answered = o.answered
                          /\ [o EXCEPT !.state = "FILLED"].by = o.by
    BY DEF Orders
  <2>. QED
    BY <1>2, <2>1, <2>2 DEF OrdersKept
<1>4. /\ UNCHANGED <<stage, triggered, recon, status, call>>
      /\ stream' = Append(stream, [type |-> "ENTRY", order |-> i])
  BY DEF LimitFills, row
<1>5. \A k \in DOMAIN stream' : \/ \E j \in DOMAIN stream : stream[j] = stream'[k]
                                \/ stream'[k] = [type |-> "ENTRY", order |-> i]
  BY <1>1, <1>4
<1>6. \A k \in DOMAIN stream' : \/ \E j \in DOMAIN stream : stream[j] = stream'[k]
                                \/ /\ stream'[k].order \in DOMAIN orders'
                                   /\ orders'[stream'[k].order].state = "FILLED"
  BY <1>3, <1>5
<1>. QED
  BY <1>3, <1>4, <1>6, OutsideSafe

(* An entry event names an order that has filled: its stage was bought. *)
LEMMA ReportedIsBought ==
    ASSUME TypeInv, EntryInv, stream # <<>>, stream' = Tail(stream), UNCHANGED <<orders, recon>>,
           Head(stream).type = "ENTRY"
    PROVE  LET n == orders[Head(stream).order].stage
           IN  n \in Stages /\ BoughtStage(n) /\ Executed(n)
<1>1. Head(stream) = stream[1] /\ 1 \in DOMAIN stream
  BY EventTaken
<1>2. /\ Head(stream).order \in DOMAIN orders
      /\ orders[Head(stream).order].state = "FILLED"
  BY <1>1 DEF EntryInv, ReportsAreTrue
<1>3. orders \in Seq(Orders)
  BY DEF TypeInv, TypeOK
<1>4. orders[Head(stream).order] \in Orders
  BY <1>2, <1>3
<1>. QED
  BY <1>2, <1>4 DEF Orders, BoughtStage, Sent, Executed

LEMMA StreamSafe ==
    ASSUME TypeInv, EntryInv, Deliver \/ Lose
    PROVE  EntryInv'
<1>1. /\ stream # <<>> /\ stream' = Tail(stream) /\ UNCHANGED <<orders, recon, stage, call>>
  BY DEF Deliver, Lose, row
<1>2. \A k \in DOMAIN stream' : \E j \in DOMAIN stream : stream[j] = stream'[k]
  BY <1>1, EventTaken
<1>3. OrdersKept /\ DOMAIN orders' = DOMAIN orders
  BY <1>1, NothingOrdered
<1>. DEFINE n == orders[Head(stream).order].stage
<1>4. CASE Deliver /\ Head(stream).type = "ENTRY" /\ orders[Head(stream).order].known
  <2>1. status' = Open(n) /\ triggered' = [triggered EXCEPT ![n] = TRUE]
    BY <1>4 DEF Deliver, EntryFilled
  <2>2. n \in Stages /\ BoughtStage(n)
    BY <1>1, <1>4, ReportedIsBought
  <2>3. \A m \in Stages : m = n => BoughtStage(m)'
    BY <1>3, <2>2, BoughtStaysBought
  <2>4. \A m \in Stages : triggered'[m] <=> triggered[m] \/ m = n
    BY <2>1, <2>2 DEF TypeInv, TypeOK
  <2>5. status'.kind # "PENDING" /\ status' # Plain("WAITING")
    BY <2>1 DEF Open, Plain
  <2>6. \A m \in Stages : triggered[m] => triggered'[m]
    BY <2>4
  <2>7. \A m \in Stages : triggered'[m] => triggered[m] \/ BoughtStage(m)'
    BY <2>3, <2>4
  <2>. HIDE DEF n
  <2>. QED
    BY <1>1, <1>2, <1>3, <2>5, <2>6, <2>7, OutsideSafe
<1>5. CASE ~ (Deliver /\ Head(stream).type = "ENTRY" /\ orders[Head(stream).order].known)
  <2>1. triggered' = triggered
    BY <1>5 DEF Deliver, Lose, EntryFilled, ExitFilled, row
  <2>2. status' = status \/ status' \in {Plain("STOPPED"), Plain("REENTRY_READY")}
    BY <1>5 DEF Deliver, Lose, EntryFilled, ExitFilled, row
  <2>3. /\ status' = Plain("WAITING") => status = Plain("WAITING")
        /\ status' = status \/ status'.kind # "PENDING"
    BY <2>2 DEF Plain
  <2>. QED
    BY <1>1, <1>2, <1>3, <2>1, <2>3, OutsideSafe
<1>. QED
  BY <1>4, <1>5

(* What the reconcile job has loaded was reached, and so what it marks was *)
(* bought: stage 1 was sent, a higher one has filled.                      *)
LEMMA EvidenceIsBought ==
    ASSUME TypeInv, EntryInv, recon # NoJob
    PROVE  LET n == recon.stage
           IN  /\ n \in Stages /\ n <= stage
               /\ \A asked : FillEvidence(n, asked) => BoughtStage(n)
<1>. DEFINE n == recon.stage
<1>1. recon.kind = "PENDING" /\ recon \in STATUSES
  BY DEF TypeInv, TypeOK, ReportsExist
<1>2. n \in Stages
  BY <1>1, StatusFacts
<1>3. n <= stage
  BY <1>1 DEF EntryInv, ReportsAreTrue
<1>4. ASSUME NEW asked, FillEvidence(n, asked)
      PROVE  BoughtStage(n)
  <2>1. CASE n = 1
    <3>1. stage \in Nat
      BY DEF TypeInv, TypeOK
    <3>2. 1 \in 1 .. stage
      BY <1>3, <2>1, <3>1
    <3>. QED
      BY <2>1, <3>2 DEF EntryInv, OrdersClimb, BoughtStage
  <2>2. CASE n # 1
    BY <1>4, <2>2 DEF FillEvidence, BoughtStage, Executed
  <2>. QED
    BY <2>1, <2>2
<1>. QED
  BY <1>2, <1>3, <1>4

LEMMA ReconcileSafe ==
    ASSUME TypeInv, EntryInv, ReconcileLoads \/ \E asked \in BOOLEAN : ReconcileCommits(asked)
    PROVE  EntryInv'
<1>1. UNCHANGED <<orders, stream, stage, call>>
  BY DEF ReconcileLoads, ReconcileCommits, row
<1>2. \A k \in DOMAIN stream' : \E j \in DOMAIN stream : stream[j] = stream'[k]
  BY <1>1
<1>3. OrdersKept /\ DOMAIN orders' = DOMAIN orders
  BY <1>1, NothingOrdered
<1>4. CASE ReconcileLoads
  BY <1>1, <1>2, <1>3, <1>4, OutsideSafe DEF ReconcileLoads, row
<1>5. ASSUME NEW asked \in BOOLEAN, ReconcileCommits(asked)
      PROVE  EntryInv'
  <2>. DEFINE n == recon.stage
  <2>1. recon # NoJob /\ recon' = NoJob
    BY <1>5 DEF ReconcileCommits
  <2>2. n \in Stages /\ (FillEvidence(n, asked) => BoughtStage(n))
    BY <2>1, EvidenceIsBought
  <2>3. CASE triggered' = triggered /\ status' = status
    BY <1>1, <1>2, <1>3, <2>1, <2>3, OutsideSafe
  <2>4. CASE ~ (triggered' = triggered /\ status' = status)
    <3>1. /\ triggered' = [triggered EXCEPT ![n] = TRUE] /\ status' = Open(n)
          /\ triggered[n] \/ FillEvidence(n, asked)
      BY <1>5, <2>4 DEF ReconcileCommits
    <3>2. \A m \in Stages : triggered'[m] <=> triggered[m] \/ m = n
      BY <2>2, <3>1 DEF TypeInv, TypeOK
    <3>3. status'.kind # "PENDING" /\ status' # Plain("WAITING")
      BY <3>1 DEF Open, Plain
    <3>4. triggered[n] \/ \A m \in Stages : m = n => BoughtStage(m)'
      BY <1>3, <2>2, <3>1, BoughtStaysBought
    <3>5. /\ \A m \in Stages : triggered[m] => triggered'[m]
          /\ \A m \in Stages : triggered'[m] => triggered[m] \/ BoughtStage(m)'
      BY <3>2, <3>4
    <3>. HIDE DEF n
    <3>. QED
      BY <1>1, <1>2, <1>3, <2>1, <3>3, <3>5, OutsideSafe
  <2>. QED
    BY <2>3, <2>4
<1>. QED
  BY <1>4, <1>5
LEMMA EntersSafe ==
    ASSUME TypeInv, EntryInv, NEW a \in Placers, Enters(a)
    PROVE  EntryInv'
BY StaysSafe, QuitsSafe, PlacesSafe, PlacesUnansweredSafe, CommitsRowSafe, CommitsStageSafe
DEF Enters

LEMMA ClickSafe ==
    ASSUME TypeInv, EntryInv, ~ Together \/ Alone', NEW c \in Clicks, Click(c)
    PROVE  EntryInv'
BY ClickReadsSafe, ClickClaimsSafe, StaysSafe, ActorFacts DEF Click

LEMMA StepSafe ==
    ASSUME TypeInv, EntryInv, ~ Together \/ Alone', [Next]_vars
    PROVE  EntryInv'
<1>1. CASE UNCHANGED vars
  BY <1>1 DEF vars, row, EntryInv, Alone, NextStageOnly, OneHolder, OrdersClimb, MarkedIsBought,
              ReportsAreTrue, Active, Working, Ordered, At, Sent, Executed
<1>2. CASE Next
  BY <1>2, StartBeginsSafe, JobSafe, ClickSafe, EntersSafe, StopSafe, LimitFillsSafe, StreamSafe,
     ReconcileSafe DEF Next
<1>. QED
  BY <1>1, <1>2

(* The ladder is climbed one stage at a time, by one actor at a time, and  *)
(* what is marked as entered was bought, in every behaviour in which no    *)
(* start or pass of the job is at work together with another entry.        *)
THEOREM LadderIsClimbed == Spec /\ []Alone => []EntryInv
<1>1. TypeInv /\ EntryInv /\ Alone' /\ [Next]_vars => TypeInv' /\ EntryInv'
  BY StepTyped, StepSafe
<1>. QED
  BY <1>1, InitTyped, InitClimbs, PTL DEF Spec

(* Those are the behaviours of a Spec that lets nothing begin which would  *)
(* overlap, as the one model-checked does.                                 *)
THEOREM ApartIsAlone == ASSUME ~ Together PROVE Spec => []Alone
<1>1. TypeInv /\ EntryInv /\ [Next]_vars => TypeInv' /\ EntryInv'
  BY StepTyped, StepSafe
<1>2. EntryInv => Alone
  BY DEF EntryInv
<1>. QED
  BY <1>1, <1>2, InitTyped, InitClimbs, PTL DEF Spec

-----------------------------------------------------------------------------
(***************************************************************************)
(* A stage is placed once: who places holds the next stage, and no order   *)
(* of that stage has been answered before.                                 *)
(***************************************************************************)
SameOrders == OrdersKept /\ DOMAIN orders' = DOMAIN orders

LEMMA OnlyPlacersOrder ==
    ASSUME TypeInv, [Next]_vars
    PROVE  SameOrders \/ \E a \in Placers : Places(a) \/ PlacesUnanswered(a)
<1>1. orders' = orders => SameOrders
  BY NothingOrdered DEF SameOrders
<1>2. AllCancelled => SameOrders
  BY CancelKeeps DEF SameOrders
<1>3. \A a \in Placers : orders' = Known(a) => SameOrders
  BY RowCommitted DEF SameOrders, OrdersKept
<1>4. ASSUME NEW i \in DOMAIN orders, LimitFills(i)
      PROVE  SameOrders
  <2>1. orders \in Seq(Orders)
    BY DEF TypeInv, TypeOK
  <2>2. \A j \in DOMAIN orders : orders[j] \in Orders
    BY <2>1
  <2>3. orders' = [orders EXCEPT ![i] = [orders[i] EXCEPT !.state = "FILLED"]]
    BY <1>4 DEF LimitFills
  <2>4. \A o \in Orders : /\ [o EXCEPT !.state = "FILLED"].stage = o.stage
                          /\ [o EXCEPT !.state = "FILLED"].answered = o.answered
                          /\ [o EXCEPT !.state = "FILLED"].by = o.by
                          /\ [o EXCEPT !.state = "FILLED"].state = "FILLED"
    BY DEF Orders
  <2>. QED
    BY <2>2, <2>3, <2>4 DEF SameOrders, OrdersKept
<1>5. ASSUME NEW a \in Placers, Enters(a)
      PROVE  SameOrders \/ Places(a) \/ PlacesUnanswered(a)
  BY <1>1, <1>2, <1>3, <1>5
  DEF Enters, Fails, TrimAsks, TrimFindsNothing, TrimCloses, CommitsRow, CommitsStage
<1>6. ASSUME NEW s \in Stops, Stop(s)
      PROVE  SameOrders
  BY <1>1, <1>2, <1>6 DEF Stop, StopCancels, StopCloses, StopFinishes
<1>7. ASSUME \/ \E s \in Starts : StartBegins(s)
             \/ JobLoads \/ JobWaits \/ \E c \in {call[Job].copy, Row} : JobPicks(c)
             \/ \E c \in Clicks : Click(c)
             \/ Deliver \/ Lose \/ ReconcileLoads \/ \E asked \in BOOLEAN : ReconcileCommits(asked)
             \/ UNCHANGED vars
      PROVE  SameOrders
  BY <1>1, <1>7 DEF StartBegins, JobLoads, JobWaits, JobPicks, Click, ClickReads, ClickClaims,
                    ClickEnters, Deliver, Lose, ReconcileLoads, ReconcileCommits, vars
<1>. QED
  BY <1>4, <1>5, <1>6, <1>7 DEF Next

LEMMA OrdersStay ==
    ASSUME TypeInv, [Next]_vars
    PROVE  OrdersKept
<1>1. ASSUME NEW a \in Placers, Places(a) \/ PlacesUnanswered(a)
      PROVE  OrdersKept
  <2>1. Working(a) /\ recon' = recon
    BY <1>1 DEF Places, PlacesUnanswered, Working, Busy, At
  <2>2. PICK type \in {"LIMIT", "MARKET"}, answered \in BOOLEAN : Accepted(a, type, answered)
    BY <1>1 DEF Places, PlacesUnanswered, OrderTypes
  <2>. QED
    BY <2>1, <2>2, OrderAccepted DEF OrdersKept
<1>. QED
  BY <1>1, OnlyPlacersOrder DEF SameOrders

(* The order of an actor that places is the next stage's only one. *)
LEMMA NextIsUnbought ==
    ASSUME TypeInv, EntryInv, NEW a \in Placers, Working(a), ~ Ordered(a),
           NEW i \in DOMAIN orders, orders[i].answered
    PROVE  orders[i].stage # call[a].target
<1>1. CASE orders[i].stage <= stage
  <2>1. stage \in Nat /\ call[a].target = stage + 1
    BY DEF EntryInv, NextStageOnly, TypeInv, TypeOK
  <2>. QED
    BY <1>1, <2>1
<1>2. ASSUME NEW b \in Placers, Ordered(b)
      PROVE  FALSE
  <2>1. Working(b)
    BY <1>2 DEF Ordered, Working, Busy, At
  <2>. QED
    BY <1>2, <2>1, OneWorks
<1>. QED
  BY <1>1, <1>2 DEF EntryInv, OrdersClimb

LEMMA PlacedOnceStep ==
    ASSUME TypeInv, EntryInv, StagePlacedOnce, [Next]_vars
    PROVE  StagePlacedOnce'
<1>1. CASE SameOrders
  BY <1>1 DEF SameOrders, OrdersKept, StagePlacedOnce
<1>2. ASSUME NEW a \in Placers, Places(a) \/ PlacesUnanswered(a)
      PROVE  StagePlacedOnce'
  <2>1. Working(a) /\ ~ Ordered(a)
    BY <1>2 DEF Places, PlacesUnanswered, Working, Busy, Ordered, At
  <2>2. PICK type \in {"LIMIT", "MARKET"}, answered \in BOOLEAN : Accepted(a, type, answered)
    BY <1>2 DEF Places, PlacesUnanswered, OrderTypes
  <2>3. recon' = recon
    BY <1>2 DEF Places, PlacesUnanswered
  <2>4. /\ DOMAIN orders = 1 .. Len(orders) /\ Len(orders) \in Nat
        /\ DOMAIN orders' = 1 .. Len(orders) + 1
    <3>1. orders \in Seq(Orders)
      BY DEF TypeInv, TypeOK
    <3>2. orders' \in Seq(Orders) /\ Len(orders') = Len(orders) + 1
      BY <2>1, <2>2, <2>3, OrderAccepted
    <3>. QED
      BY <3>1, <3>2
  <2>5. /\ \A i \in DOMAIN orders : orders'[i] = orders[i]
        /\ orders'[Len(orders) + 1].stage = call[a].target
    <3>1. /\ \A i \in DOMAIN orders : orders'[i] = orders[i]
          /\ orders'[Len(orders) + 1] = NewOrder(a, type, answered)
      BY <2>1, <2>2, <2>3, OrderAccepted
    <3>2. NewOrder(a, type, answered).stage = call[a].target
      BY DEF NewOrder
    <3>. QED
      BY <3>1, <3>2
  <2>6. ASSUME NEW i \in DOMAIN orders, orders[i].answered
        PROVE  orders[i].stage # call[a].target
    BY <2>1, <2>6, NextIsUnbought
  <2>7. ASSUME NEW i \in DOMAIN orders', NEW j \in DOMAIN orders',
               orders'[i].answered, orders'[j].answered, orders'[i].stage = orders'[j].stage
        PROVE  i = j
    <3>1. CASE i \in DOMAIN orders /\ j \in DOMAIN orders
      BY <2>5, <2>7, <3>1 DEF StagePlacedOnce
    <3>2. CASE i \in DOMAIN orders /\ j \notin DOMAIN orders
      BY <2>4, <2>5, <2>6, <2>7, <3>2
    <3>3. CASE i \notin DOMAIN orders /\ j \in DOMAIN orders
      BY <2>4, <2>5, <2>6, <2>7, <3>3
    <3>4. CASE i \notin DOMAIN orders /\ j \notin DOMAIN orders
      BY <2>4, <3>4
    <3>. QED
      BY <3>1, <3>2, <3>3, <3>4
  <2>. QED
    BY <2>7 DEF StagePlacedOnce
<1>. QED
  BY <1>1, <1>2, OnlyPlacersOrder

(* No stage is entered twice, whatever is retried, claimed, released or    *)
(* refused on the way, unless a start or a pass of the job is at work      *)
(* together with another entry.                                            *)
THEOREM PlacedOnce == Spec /\ []Alone => []StagePlacedOnce
<1>1. Init => StagePlacedOnce
  BY DEF Init, StagePlacedOnce
<1>2. /\ TypeInv /\ EntryInv /\ StagePlacedOnce /\ Alone' /\ [Next]_vars
      => TypeInv' /\ EntryInv' /\ StagePlacedOnce'
  BY StepTyped, StepSafe, PlacedOnceStep
<1>. QED
  BY <1>1, <1>2, InitTyped, InitClimbs, PTL DEF Spec

-----------------------------------------------------------------------------
(***************************************************************************)
(* A status is written open by the stream, after the order has filled, and *)
(* by the reconcile job, which asks for evidence.                          *)
(***************************************************************************)
LEMMA OnlyTwoOpen ==
    ASSUME TypeInv, [Next]_vars
    PROVE  \/ Deliver \/ \E asked \in BOOLEAN : ReconcileCommits(asked)
           \/ status' = status \/ status'.kind # "OPEN"
<1>1. ASSUME NEW a \in Placers, Enters(a)
      PROVE  status' = status \/ status'.kind # "OPEN"
  <2>1. \/ status' \in {status, Plain("STOPPED"), Plain("MANUAL_CLEANUP_REQUIRED")}
        \/ status' = Pending(call[a].target)
    BY <1>1 DEF Enters, Fails, TrimAsks, TrimFindsNothing, TrimCloses, Places, PlacesUnanswered,
                CommitsRow, CommitsStage, FailedStatus, row
  <2>. QED
    BY <2>1 DEF Plain, Pending
<1>2. ASSUME NEW s \in Stops, Stop(s)
      PROVE  status' = status \/ status'.kind # "OPEN"
  BY <1>2 DEF Stop, StopCancels, StopCloses, StopFinishes, row, Plain
<1>3. ASSUME \/ \E s \in Starts : StartBegins(s)
             \/ JobLoads \/ JobWaits \/ \E c \in {call[Job].copy, Row} : JobPicks(c)
             \/ \E c \in Clicks : Click(c)
             \/ \E i \in DOMAIN orders : LimitFills(i)
             \/ Lose \/ ReconcileLoads \/ UNCHANGED vars
      PROVE  status' = status
  BY <1>3 DEF StartBegins, JobLoads, JobWaits, JobPicks, Click, ClickReads, ClickClaims,
              ClickEnters, LimitFills, Lose, ReconcileLoads, row, vars
<1>. QED
  BY <1>1, <1>2, <1>3 DEF Next
LEMMA OpenStep ==
    ASSUME TypeInv, EntryInv, OpenMeansFilled, [Next]_vars
    PROVE  OpenMeansFilled'
<1>. SUFFICES ASSUME NEW n \in 2 .. Last, status' = Open(n)
              PROVE  Executed(n)'
  BY DEF OpenMeansFilled
<1>1. n \in Stages /\ n # 1 /\ status'.kind = "OPEN" /\ status'.stage = n
  BY Numbers DEF Stages, Open
<1>2. Executed(n) => Executed(n)'
  BY <1>1, OrdersStay, BoughtStaysBought
<1>3. CASE status' = status
  BY <1>2, <1>3 DEF OpenMeansFilled
<1>4. CASE Deliver /\ status' # status
  <2>1. stream # <<>> /\ stream' = Tail(stream) /\ UNCHANGED <<orders, recon>>
    BY <1>4 DEF Deliver
  <2>2. Head(stream).type = "ENTRY" /\ status' = Open(orders[Head(stream).order].stage)
    BY <1>1, <1>4 DEF Deliver, EntryFilled, ExitFilled, Plain
  <2>3. orders[Head(stream).order].stage = n
    BY <1>1, <2>2 DEF Open
  <2>4. Executed(n)
    BY <2>1, <2>2, <2>3, ReportedIsBought
  <2>. QED
    BY <1>2, <2>4
<1>5. ASSUME NEW asked \in BOOLEAN, ReconcileCommits(asked), status' # status
      PROVE  Executed(n)'
  <2>1. /\ recon # NoJob /\ status' = Open(recon.stage)
        /\ triggered[recon.stage] \/ FillEvidence(recon.stage, asked)
    BY <1>5 DEF ReconcileCommits
  <2>2. recon.stage = n
    BY <1>1, <2>1 DEF Open
  <2>3. n <= stage /\ n \in Nat /\ stage \in Nat
    BY <1>1, <2>1, <2>2, EvidenceIsBought, Numbers DEF TypeInv, TypeOK
  <2>4. CASE triggered[n]
    <3>1. ASSUME NEW c \in Clicks, Working(c)
          PROVE  call[c].target # n
      BY <2>3, <3>1, ActorFacts DEF EntryInv, NextStageOnly
    <3>. QED
      BY <1>1, <1>2, <2>4, <3>1 DEF EntryInv, MarkedIsBought
  <2>5. CASE FillEvidence(n, asked)
    BY <1>1, <1>2, <2>1, <2>2, <2>5, EvidenceIsBought DEF BoughtStage
  <2>. QED
    BY <2>1, <2>2, <2>4, <2>5
<1>. QED
  BY <1>1, <1>3, <1>4, <1>5, OnlyTwoOpen

(* No stage above the first is called open before its own order filled,    *)
(* though the earlier stages hold a position all the time, unless a start  *)
(* or a pass of the job is at work together with another entry.            *)
THEOREM OpenIsFilled == Spec /\ []Alone => []OpenMeansFilled
<1>1. Init => OpenMeansFilled
  BY DEF Init, OpenMeansFilled, Plain, Open
<1>2. /\ TypeInv /\ EntryInv /\ OpenMeansFilled /\ Alone' /\ [Next]_vars
      => TypeInv' /\ EntryInv' /\ OpenMeansFilled'
  BY StepTyped, StepSafe, OpenStep
<1>. QED
  BY <1>1, <1>2, InitTyped, InitClimbs, PTL DEF Spec

-----------------------------------------------------------------------------
(***************************************************************************)
(* What holds however the actors overlap.                                  *)
(***************************************************************************)
(* An actor that has ordered names its order, a confirmed one of its       *)
(* stage, and a pending stage was ordered.                                 *)
OwnOrder(a) ==
    /\ call[a].seen \in DOMAIN orders
    /\ orders[call[a].seen].stage = call[a].target
    /\ orders[call[a].seen].answered

Traced ==
    /\ \A a \in Placers : Ordered(a) => OwnOrder(a)
    /\ \A s \in {status, recon} : s.kind = "PENDING" => Sent(s.stage)

(* Only a placing actor comes to hold an order. *)
Unordered(b) ==
    /\ \A x \in Actors \ {b} : call'[x] = call[x]
    /\ ~ Ordered(b)'

LEMMA MovesUnordered ==
    ASSUME TypeInv, NEW b \in Actors, NEW step \in Steps, step \notin {"placed", "written"},
           Move(b, step)
    PROVE  Unordered(b)
BY DEF Unordered, TypeInv, TypeOK, Move, Ordered, At, Calls

LEMMA EndsUnordered ==
    ASSUME TypeInv, NEW b \in Actors, call' = [call EXCEPT ![b] = Ended(b)]
    PROVE  Unordered(b)
BY DEF Unordered, TypeInv, TypeOK, Ended, Idle, Ordered, At

LEMMA PlacersUnordered ==
    ASSUME TypeInv, NEW a \in Placers, Enters(a), ~ Places(a), ~ CommitsRow(a)
    PROVE  Unordered(a)
<1>1. a \in Actors /\ call[a] \in Calls
  BY ActorFacts DEF TypeInv, TypeOK
<1>2. ASSUME call' = [call EXCEPT ![a] = Ended(a)]
      PROVE  Unordered(a)
  BY <1>1, <1>2, EndsUnordered
<1>3. CASE Fails(a) \/ TrimFindsNothing(a) \/ PlacesUnanswered(a) \/ CommitsStage(a)
  BY <1>2, <1>3 DEF Fails, TrimFindsNothing, PlacesUnanswered, CommitsStage
<1>4. CASE TrimAsks(a)
  <2>1. \/ call' = [call EXCEPT ![a] = [call[a] EXCEPT !.step = "trim", !.seen = pos]]
        \/ Move(a, "place")
    BY <1>4 DEF TrimAsks
  <2>2. CASE Move(a, "place")
    BY <1>1, <2>2, MovesUnordered DEF Steps
  <2>3. CASE call' = [call EXCEPT ![a] = [call[a] EXCEPT !.step = "trim", !.seen = pos]]
    BY <1>1, <2>3 DEF Unordered, TypeInv, TypeOK, Ordered, At, Calls
  <2>. QED
    BY <2>1, <2>2, <2>3
<1>5. CASE TrimCloses(a)
  <2>1. call' = [call EXCEPT ![a] = [call[a] EXCEPT !.step = "place", !.seen = 0]]
    BY <1>5 DEF TrimCloses
  <2>. QED
    BY <1>1, <2>1 DEF Unordered, TypeInv, TypeOK, Ordered, At, Calls
<1>. QED
  BY <1>3, <1>4, <1>5 DEF Enters

LEMMA RequestsUnordered ==
    ASSUME TypeInv,
           \/ \E s \in Starts : StartBegins(s)
           \/ JobLoads \/ JobWaits \/ \E c \in {call[Job].copy, Row} : JobPicks(c)
           \/ \E c \in Clicks : Click(c)
           \/ \E s \in Stops : Stop(s)
    PROVE  \E b \in Actors : Unordered(b)
<1>1. call \in [Actors -> Calls] /\ Job \in Actors
  BY ActorFacts DEF TypeInv, TypeOK
<1>2. ASSUME NEW s \in Starts, StartBegins(s)
      PROVE  Unordered(s) /\ s \in Actors
  <2>1. s \in Actors /\ call[s] \in Calls
    BY <1>1, ActorFacts
  <2>2. call' = [call EXCEPT ![s] = [call[s] EXCEPT !.step = "gates", !.target = 1]]
    BY <1>2 DEF StartBegins
  <2>. QED
    BY <1>1, <2>1, <2>2 DEF Unordered, Ordered, At, Calls
<1>3. CASE JobLoads
  <2>1. call' = [call EXCEPT ![Job] = [call[Job] EXCEPT !.step = "loaded", !.copy = Row]]
    BY <1>3 DEF JobLoads
  <2>. QED
    BY <1>1, <2>1 DEF Unordered, Ordered, At, Calls
<1>4. CASE JobWaits
  BY <1>1, <1>4 DEF JobWaits, Unordered, Ordered, At, Idle
<1>5. ASSUME NEW c, JobPicks(c)
      PROVE  Unordered(Job)
  BY <1>1, <1>5 DEF JobPicks, Unordered, Ordered, At, Idle
<1>6. ASSUME NEW c \in Clicks, Click(c)
      PROVE  Unordered(c) /\ c \in Actors
  <2>1. c \in Actors /\ call[c] \in Calls
    BY <1>1, ActorFacts
  <2>2. CASE ClickReads(c)
    <3>1. call' = [call EXCEPT ![c] = [call[c] EXCEPT !.step = "read", !.target = stage + 1]]
      BY <2>2 DEF ClickReads
    <3>. QED
      BY <1>1, <2>1, <3>1 DEF Unordered, Ordered, At, Calls
  <2>3. CASE ClickClaims(c)
    <3>1. call' = [call EXCEPT ![c] = Ended(c)] \/ Move(c, "claimed")
      BY <2>3 DEF ClickClaims
    <3>. QED
      BY <2>1, <3>1, MovesUnordered, EndsUnordered DEF Steps
  <2>4. CASE ClickEnters(c)
    BY <2>1, <2>4, MovesUnordered DEF ClickEnters, Steps
  <2>. QED
    BY <1>6, <2>1, <2>2, <2>3, <2>4 DEF Click
<1>7. ASSUME NEW s \in Stops, Stop(s)
      PROVE  Unordered(s) /\ s \in Actors
  <2>1. s \in Actors /\ call[s] \in Calls
    BY <1>1, ActorFacts
  <2>2. CASE StopCancels(s)
    <3>. DEFINE next == IF qty = 0 THEN "last" ELSE "close"
    <3>1. call' = [call EXCEPT ![s] = [call[s] EXCEPT !.step = next, !.seen = qty]]
      BY <2>2 DEF StopCancels
    <3>2. next \notin {"placed", "written"}
      OBVIOUS
    <3>. HIDE DEF next
    <3>. QED
      BY <1>1, <2>1, <3>1, <3>2 DEF Unordered, Ordered, At, Calls
  <2>3. CASE StopCloses(s)
    <3>1. \/ call' = [call EXCEPT ![s] = Ended(s)]
          \/ call' = [call EXCEPT ![s] = [call[s] EXCEPT !.step = "last", !.seen = 0]]
      BY <2>3 DEF StopCloses
    <3>2. CASE call' = [call EXCEPT ![s] = [call[s] EXCEPT !.step = "last", !.seen = 0]]
      BY <1>1, <2>1, <3>2 DEF Unordered, Ordered, At, Calls
    <3>. QED
      BY <2>1, <3>1, <3>2, EndsUnordered
  <2>4. CASE StopFinishes(s)
    BY <2>1, <2>4, EndsUnordered DEF StopFinishes
  <2>. QED
    BY <1>7, <2>1, <2>2, <2>3, <2>4 DEF Stop
<1>. QED
  BY <1>1, <1>2, <1>3, <1>4, <1>5, <1>6, <1>7

(* Who has an order had it before, or has placed it. *)
LEMMA WhoHasOrdered ==
    ASSUME TypeInv, [Next]_vars, NEW a \in Placers, Ordered(a)'
    PROVE  \/ Places(a)
           \/ /\ Ordered(a)
              /\ call'[a].seen = call[a].seen /\ call'[a].target = call[a].target
<1>1. a \in Actors /\ call \in [Actors -> Calls] /\ call[a] \in Calls
  BY ActorFacts DEF TypeInv, TypeOK
<1>2. ASSUME NEW b \in Actors, Unordered(b)
      PROVE  Ordered(a) /\ call'[a] = call[a]
  BY <1>1, <1>2 DEF Unordered, Ordered, At
<1>3. ASSUME NEW b \in Placers, Places(b) \/ CommitsRow(b), ~ Places(a)
      PROVE  Ordered(a) /\ call'[a].seen = call[a].seen /\ call'[a].target = call[a].target
  <2>1. CASE a # b
    <3>1. call'[a] = call[a]
      BY <1>1, <1>3, <2>1 DEF Places, CommitsRow, Move
    <3>. QED
      BY <3>1 DEF Ordered, At
  <2>2. CASE a = b
    <3>1. At(a, "placed") /\ call' = [call EXCEPT ![a] = [call[a] EXCEPT !.step = "written"]]
      BY <1>3, <2>2 DEF CommitsRow, Move
    <3>. QED
      BY <1>1, <3>1 DEF Ordered, At, Calls
  <2>. QED
    BY <2>1, <2>2
<1>4. ASSUME call' = call
      PROVE  Ordered(a) /\ call'[a] = call[a]
  BY <1>4 DEF Ordered, At
<1>5. CASE \/ \E i \in DOMAIN orders : LimitFills(i)
           \/ Deliver \/ Lose \/ ReconcileLoads
           \/ \E asked \in BOOLEAN : ReconcileCommits(asked)
           \/ UNCHANGED vars
  BY <1>4, <1>5 DEF LimitFills, Deliver, Lose, ReconcileLoads, ReconcileCommits, vars
<1>6. ASSUME NEW b \in Placers, Enters(b)
      PROVE  \/ Places(b) \/ CommitsRow(b)
             \/ b \in Actors /\ Unordered(b)
  BY <1>6, PlacersUnordered, ActorFacts
<1>7. ASSUME \/ \E s \in Starts : StartBegins(s)
             \/ JobLoads \/ JobWaits \/ \E c \in {call[Job].copy, Row} : JobPicks(c)
             \/ \E c \in Clicks : Click(c)
             \/ \E s \in Stops : Stop(s)
      PROVE  \E b \in Actors : Unordered(b)
  BY <1>7, RequestsUnordered
<1>. QED
  BY <1>2, <1>3, <1>5, <1>6, <1>7 DEF Next

LEMMA OwnOrderStep ==
    ASSUME TypeInv, Traced, [Next]_vars, NEW a \in Placers, Ordered(a)'
    PROVE  OwnOrder(a)'
<1>1. CASE Places(a)
  <2>1. Working(a) /\ recon' = recon
    BY <1>1 DEF Places, Working, Busy, At
  <2>2. PICK type \in {"LIMIT", "MARKET"} : Accepted(a, type, TRUE)
    BY <1>1 DEF Places, OrderTypes
  <2>3. a \in Actors /\ call \in [Actors -> Calls] /\ call[a] \in Calls /\ orders \in Seq(Orders)
    BY ActorFacts DEF TypeInv, TypeOK
  <2>4. /\ orders' \in Seq(Orders) /\ Len(orders') = Len(orders) + 1
        /\ orders'[Len(orders) + 1] = NewOrder(a, type, TRUE)
    BY <2>1, <2>2, OrderAccepted
  <2>5. call' = [call EXCEPT ![a] = [call[a] EXCEPT !.step = "placed", !.seen = Len(orders) + 1]]
    BY <1>1 DEF Places
  <2>6. call'[a].seen = Len(orders) + 1 /\ call'[a].target = call[a].target
    BY <2>3, <2>5 DEF Calls
  <2>7. Len(orders) + 1 \in DOMAIN orders'
    BY <2>3, <2>4
  <2>8. NewOrder(a, type, TRUE).stage = call[a].target /\ NewOrder(a, type, TRUE).answered
    BY DEF NewOrder
  <2>. QED
    BY <2>4, <2>6, <2>7, <2>8 DEF OwnOrder
<1>2. CASE ~ Places(a)
  <2>1. Ordered(a) /\ call'[a].seen = call[a].seen /\ call'[a].target = call[a].target
    BY <1>2, WhoHasOrdered
  <2>2. OwnOrder(a)
    BY <2>1 DEF Traced
  <2>3. OrdersKept
    BY OrdersStay
  <2>. QED
    BY <2>1, <2>2, <2>3 DEF OwnOrder, OrdersKept
<1>. QED
  BY <1>1, <1>2

(* Only an actor that commits its stage makes it pending. *)
LEMMA WhoIsPending ==
    ASSUME TypeInv, [Next]_vars, status'.kind = "PENDING"
    PROVE  \/ status' = status
           \/ \E a \in Placers : CommitsStage(a) /\ status' = Pending(call[a].target)
<1>1. ASSUME NEW a \in Placers, Enters(a), ~ CommitsStage(a)
      PROVE  status' = status
  <2>1. status' \in {status, Plain("STOPPED"), Plain("MANUAL_CLEANUP_REQUIRED")}
    BY <1>1 DEF Enters, Fails, TrimAsks, TrimFindsNothing, TrimCloses, Places, PlacesUnanswered,
                CommitsRow, FailedStatus, row
  <2>. QED
    BY <2>1 DEF Plain
<1>2. ASSUME NEW s \in Stops, Stop(s)
      PROVE  status' = status
  BY <1>2 DEF Stop, StopCancels, StopCloses, StopFinishes, row, Plain
<1>3. ASSUME \/ \E s \in Starts : StartBegins(s)
             \/ JobLoads \/ JobWaits \/ \E c \in {call[Job].copy, Row} : JobPicks(c)
             \/ \E c \in Clicks : Click(c)
             \/ \E i \in DOMAIN orders : LimitFills(i)
             \/ Lose \/ ReconcileLoads \/ UNCHANGED vars
      PROVE  status' = status
  BY <1>3 DEF StartBegins, JobLoads, JobWaits, JobPicks, Click, ClickReads, ClickClaims,
              ClickEnters, LimitFills, Lose, ReconcileLoads, row, vars
<1>4. CASE Deliver \/ \E asked \in BOOLEAN : ReconcileCommits(asked)
  BY <1>4 DEF Deliver, EntryFilled, ExitFilled, ReconcileCommits, Plain, Open
<1>5. ASSUME NEW a \in Placers, CommitsStage(a)
      PROVE  status' = Pending(call[a].target)
  BY <1>5 DEF CommitsStage
<1>. QED
  BY <1>1, <1>2, <1>3, <1>4, <1>5 DEF Next, Enters

LEMMA ReconStep ==
    ASSUME TypeInv, [Next]_vars
    PROVE  recon' \in {recon, status, NoJob}
BY DEF Next, StartBegins, JobLoads, JobWaits, JobPicks, Click, ClickReads, ClickClaims, ClickEnters,
       Enters, Fails, TrimAsks, TrimFindsNothing, TrimCloses, Places, PlacesUnanswered, CommitsRow,
       CommitsStage, Stop, StopCancels, StopCloses, StopFinishes, LimitFills, Deliver, Lose,
       ReconcileLoads, ReconcileCommits, vars

(* Who commits its stage has ordered it. *)
LEMMA CommittedIsSent ==
    ASSUME TypeInv, Traced, [Next]_vars, NEW a \in Placers, CommitsStage(a)
    PROVE  \E n \in Stages : n = call[a].target /\ Sent(n)'
<1>1. Ordered(a) /\ Working(a)
  BY DEF CommitsStage, Ordered, Working, Busy, At
<1>2. PICK n \in Stages : n = call[a].target
  BY <1>1 DEF TypeInv, TargetsAreStages
<1>3. Sent(n)
  BY <1>1, <1>2 DEF Traced, OwnOrder, Sent
<1>4. Sent(n)'
  BY <1>3, OrdersStay, BoughtStaysBought
<1>. QED
  BY <1>2, <1>4

LEMMA TracedStep == TypeInv /\ Traced /\ [Next]_vars => Traced'
<1>. SUFFICES ASSUME TypeInv, Traced, [Next]_vars PROVE Traced'
  OBVIOUS
<1>1. \A a \in Placers : Ordered(a)' => OwnOrder(a)'
  BY OwnOrderStep
<1>2. ASSUME NEW s \in STATUSES, s.kind = "PENDING", s = status \/ s = recon
      PROVE  Sent(s.stage)'
  <2>. DEFINE n == s.stage
  <2>1. n \in Stages
    BY <1>2, StatusFacts
  <2>2. Sent(n)
    BY <1>2 DEF Traced
  <2>. HIDE DEF n
  <2>3. Sent(n)'
    BY <2>1, <2>2, OrdersStay, BoughtStaysBought
  <2>. QED
    BY <2>3 DEF n
<1>3. ASSUME NEW s \in STATUSES, s.kind = "PENDING", s = status'
      PROVE  Sent(s.stage)'
  <2>1. CASE s = status
    BY <1>2, <1>3, <2>1
  <2>2. ASSUME NEW a \in Placers, CommitsStage(a), status' = Pending(call[a].target)
        PROVE  Sent(s.stage)'
    <3>1. PICK n \in Stages : n = call[a].target /\ Sent(n)'
      BY <2>2, CommittedIsSent
    <3>2. s.stage = n
      BY <1>3, <2>2, <3>1 DEF Pending
    <3>. QED
      BY <3>1, <3>2
  <2>3. s = status \/ \E a \in Placers : CommitsStage(a) /\ status' = Pending(call[a].target)
    BY <1>3, WhoIsPending
  <2>. QED
    BY <2>1, <2>2, <2>3
<1>4. ASSUME NEW s \in STATUSES, s.kind = "PENDING", s = recon'
      PROVE  Sent(s.stage)'
  <2>1. s = recon \/ s = status
    BY <1>4, ReconStep, StatusFacts
  <2>. QED
    BY <1>2, <1>4, <2>1
<1>5. TypeOK'
  BY StepTyped DEF TypeInv
<1>6. status' \in STATUSES /\ (recon'.kind = "PENDING" => recon' \in STATUSES)
  BY <1>5, StatusFacts DEF TypeOK
<1>7. (\A s \in {status, recon} : s.kind = "PENDING" => Sent(s.stage))'
  BY <1>3, <1>4, <1>6 DEF Sent
<1>. QED
  BY <1>1, <1>7 DEF Traced

(* A mark is not alone: the stage was ordered, or a click is at it.        *)
Marked == \A n \in Stages : triggered[n] =>
              Sent(n) \/ \E c \in Clicks : Working(c) /\ call[c].target = n

LEMMA OthersMove ==
    ASSUME TypeInv, NEW c \in Clicks, [Next]_vars, ~ Enters(c), ~ Click(c)
    PROVE  call'[c] = call[c]
<1>1. c \in Actors /\ c \in Placers /\ c \notin Unclaimed /\ call \in [Actors -> Calls]
  BY ActorFacts DEF TypeInv, TypeOK
<1>2. ASSUME NEW a \in Placers, a # c,
             \/ Enters(a) \/ StartBegins(a) \/ Click(a)
             \/ a = Job /\ (JobLoads \/ JobWaits \/ \E d \in {call[Job].copy, Row} : JobPicks(d))
      PROVE  call'[c] = call[c]
  BY <1>1, <1>2
  DEF Enters, Fails, TrimAsks, TrimFindsNothing, TrimCloses, Places, PlacesUnanswered,
      CommitsRow, CommitsStage, Move, StartBegins, Click, ClickReads, ClickClaims, ClickEnters,
      JobLoads, JobWaits, JobPicks
<1>3. ASSUME NEW s \in Stops, Stop(s)
      PROVE  call'[c] = call[c]
  <2>1. s # c
    BY <1>1, ActorFacts
  <2>. QED
    BY <1>1, <1>3, <2>1 DEF Stop, StopCancels, StopCloses, StopFinishes
<1>4. ASSUME \/ \E i \in DOMAIN orders : LimitFills(i)
             \/ Deliver \/ Lose \/ ReconcileLoads
             \/ \E asked \in BOOLEAN : ReconcileCommits(asked)
             \/ UNCHANGED vars
      PROVE  call'[c] = call[c]
  BY <1>4 DEF LimitFills, Deliver, Lose, ReconcileLoads, ReconcileCommits, vars
<1>5. Job # c /\ \A s \in Starts : s # c /\ s \in Placers
  BY <1>1, ActorFacts DEF Unclaimed
<1>. QED
  BY <1>2, <1>3, <1>4, <1>5, ActorFacts DEF Next

(* A click that is done with a marked stage has ordered it, or gives its   *)
(* mark back.                                                              *)
LEMMA ClickHolds ==
    ASSUME TypeInv, Traced, [Next]_vars, NEW c \in Clicks, Working(c),
           NEW n \in Stages, n = call[c].target, triggered'[n]
    PROVE  \/ Sent(n)'
           \/ Working(c)' /\ call'[c].target = n
<1>1. /\ c \in Actors /\ c \in Placers /\ call \in [Actors -> Calls] /\ call[c] \in Calls
      /\ triggered \in [Stages -> BOOLEAN]
  BY ActorFacts DEF TypeInv, TypeOK
<1>3. triggered' # FailedClaim(c)
  BY <1>1 DEF FailedClaim
<1>4. CASE call'[c] = call[c]
  BY <1>4 DEF Working
<1>5. CASE CommitsStage(c)
  BY <1>1, <1>5, CommittedIsSent
<1>6. CASE Enters(c) /\ ~ CommitsStage(c)
  <2>1. TrimAsks(c) \/ TrimCloses(c) \/ Places(c) \/ CommitsRow(c)
    BY <1>3, <1>6 DEF Enters, Fails, TrimFindsNothing, PlacesUnanswered
  <2>2. \E step \in Busy : \E seen :
            call' = [call EXCEPT ![c] = [call[c] EXCEPT !.step = step, !.seen = seen]]
    <3>1. ASSUME NEW step \in Busy, Move(c, step)
          PROVE  call' = [call EXCEPT ![c] = [call[c] EXCEPT !.step = step, !.seen = call[c].seen]]
      BY <1>1, <3>1 DEF Move, Calls
    <3>2. CASE TrimAsks(c)
      <4>1. \/ call' = [call EXCEPT ![c] = [call[c] EXCEPT !.step = "trim", !.seen = pos]]
            \/ Move(c, "place")
        BY <3>2 DEF TrimAsks
      <4>. QED
        BY <3>1, <4>1 DEF Busy
    <3>3. CASE TrimCloses(c)
      BY <3>3 DEF TrimCloses, Busy
    <3>4. CASE Places(c)
      BY <3>4 DEF Places, Busy
    <3>5. CASE CommitsRow(c)
      BY <3>1, <3>5 DEF CommitsRow, Busy
    <3>. QED
      BY <2>1, <3>2, <3>3, <3>4, <3>5
  <2>. QED
    BY <1>1, <2>2 DEF Working, Calls
<1>7. CASE Click(c)
  <2>1. At(c, "claimed") /\ Move(c, "gates")
    BY <1>7 DEF Working, Busy, At, Click, ClickReads, ClickClaims, ClickEnters
  <2>. QED
    BY <1>1, <2>1 DEF Move, Working, Busy, Calls
<1>. QED
  BY <1>4, <1>5, <1>6, <1>7, OthersMove

(* Who marks a stage has ordered it, has seen its order, or is at it. *)
LEMMA WhoMarks ==
    ASSUME TypeInv, Traced, [Next]_vars, NEW n \in Stages, triggered'[n], ~ triggered[n]
    PROVE  \/ Sent(n)'
           \/ \E c \in Clicks : Working(c)' /\ call'[c].target = n
<1>1. triggered \in [Stages -> BOOLEAN] /\ call \in [Actors -> Calls]
  BY DEF TypeInv, TypeOK
<1>2. ASSUME NEW m \in Stages, triggered' = [triggered EXCEPT ![m] = TRUE]
      PROVE  m = n
  BY <1>1, <1>2
<1>3. ASSUME NEW c \in Clicks, Click(c)
      PROVE  Working(c)' /\ call'[c].target = n
  <2>1. c \in Actors /\ c \in Placers /\ call[c] \in Calls
    BY <1>1, ActorFacts
  <2>2. At(c, "read") /\ triggered' = [triggered EXCEPT ![call[c].target] = TRUE] /\ Move(c, "claimed")
    BY <1>3 DEF Click, ClickReads, ClickClaims, ClickEnters, row
  <2>3. call[c].target \in Stages
    BY <2>1, <2>2 DEF TypeInv, TargetsAreStages
  <2>. QED
    BY <1>1, <1>2, <2>1, <2>2, <2>3 DEF Move, Working, Busy, Calls
<1>4. ASSUME NEW a \in Placers, Enters(a)
      PROVE  Sent(n)'
  <2>1. ASSUME triggered' = FailedClaim(a)
        PROVE  FALSE
    BY <1>1, <2>1 DEF FailedClaim
  <2>2. CommitsStage(a) /\ triggered' = [triggered EXCEPT ![call[a].target] = TRUE]
    BY <1>4, <2>1 DEF Enters, Fails, TrimAsks, TrimFindsNothing, TrimCloses, Places,
                      PlacesUnanswered, CommitsRow, CommitsStage, row
  <2>3. PICK m \in Stages : m = call[a].target /\ Sent(m)'
    BY <2>2, CommittedIsSent
  <2>4. m = n
    BY <1>2, <2>2, <2>3
  <2>. QED
    BY <2>3, <2>4
<1>5. CASE Deliver
  <2>. DEFINE e == Head(stream)
  <2>1. e.type = "ENTRY" /\ EntryFilled(e.order) /\ UNCHANGED <<orders, recon>>
    BY <1>5 DEF Deliver, ExitFilled
  <2>2. e.order \in DOMAIN orders
    BY <1>5, <2>1, EventTaken DEF Deliver, TypeInv, ReportsExist
  <2>3. triggered' = [triggered EXCEPT ![orders[e.order].stage] = TRUE]
    BY <2>1 DEF EntryFilled
  <2>4. orders[e.order].stage \in Stages
    <3>1. orders \in Seq(Orders)
      BY DEF TypeInv, TypeOK
    <3>2. orders[e.order] \in Orders
      BY <2>2, <3>1
    <3>. QED
      BY <3>2 DEF Orders
  <2>5. orders[e.order].stage = n
    BY <1>2, <2>3, <2>4
  <2>. HIDE DEF e
  <2>. QED
    BY <2>1, <2>2, <2>5 DEF Sent
<1>6. ASSUME NEW asked \in BOOLEAN, ReconcileCommits(asked)
      PROVE  Sent(n)'
  <2>1. recon # NoJob /\ triggered' = [triggered EXCEPT ![recon.stage] = TRUE] /\ orders' = orders
    BY <1>6 DEF ReconcileCommits
  <2>2. recon.kind = "PENDING" /\ recon.stage \in Stages
    BY <2>1, StatusFacts DEF TypeInv, TypeOK, ReportsExist
  <2>3. recon.stage = n
    BY <1>2, <2>1, <2>2
  <2>. QED
    BY <2>1, <2>2, <2>3 DEF Traced, Sent
<1>7. ASSUME \/ \E s \in Starts : StartBegins(s)
             \/ JobLoads \/ JobWaits \/ \E c \in {call[Job].copy, Row} : JobPicks(c)
             \/ \E i \in DOMAIN orders : LimitFills(i)
             \/ \E s \in Stops : Stop(s)
             \/ Lose \/ ReconcileLoads \/ UNCHANGED vars
      PROVE  FALSE
  BY <1>7 DEF StartBegins, JobLoads, JobWaits, JobPicks, LimitFills, Stop, StopCancels, StopCloses,
              StopFinishes, Lose, ReconcileLoads, row, vars
<1>. QED
  BY <1>3, <1>4, <1>5, <1>6, <1>7 DEF Next

LEMMA MarkedStep == TypeInv /\ Traced /\ Marked /\ [Next]_vars => Marked'
<1>. SUFFICES ASSUME TypeInv, Traced, Marked, [Next]_vars, NEW n \in Stages, triggered'[n]
              PROVE  Sent(n)' \/ \E c \in Clicks : Working(c)' /\ call'[c].target = n
  BY DEF Marked
<1>1. CASE ~ triggered[n]
  BY <1>1, WhoMarks
<1>2. CASE Sent(n)
  BY <1>2, OrdersStay, BoughtStaysBought
<1>3. ASSUME NEW c \in Clicks, Working(c), call[c].target = n
      PROVE  Sent(n)' \/ (Working(c)' /\ call'[c].target = n)
  BY <1>3, ClickHolds
<1>. QED
  BY <1>1, <1>2, <1>3 DEF Marked

(* No stage of the ladder is lost: a stage marked as entered has an order  *)
(* at the exchange, or a click is on its way to place it.                  *)
THEOREM NothingIsLost == Spec => []NoStageIsLost
<1>1. Init => Traced /\ Marked
  <2>. SUFFICES ASSUME Init PROVE Traced /\ Marked
    OBVIOUS
  <2>1. \A a \in Placers : call[a] = Idle
    BY ActorFacts DEF Init
  <2>. QED
    BY <2>1, StatusFacts DEF Init, Traced, Marked, Ordered, At, Idle, Plain
<1>2. TypeInv /\ Traced /\ Marked /\ [Next]_vars => TypeInv' /\ Traced' /\ Marked'
  BY StepTyped, TracedStep, MarkedStep
<1>3. Marked => NoStageIsLost
  BY ActiveSteps, ActorFacts DEF Marked, NoStageIsLost
<1>. QED
  BY <1>1, <1>2, <1>3, InitTyped, PTL DEF Spec

-----------------------------------------------------------------------------
(***************************************************************************)
(* The ladder implements StageLadder.                                      *)
(***************************************************************************)
(* The current stage changes where a stage is committed. *)
LEMMA WhoClimbs ==
    ASSUME TypeInv, [Next]_vars
    PROVE  stage' = stage \/ \E a \in Placers : CommitsStage(a)
BY DEF Next, StartBegins, JobLoads, JobWaits, JobPicks, Click, ClickReads, ClickClaims, ClickEnters,
       Enters, Fails, TrimAsks, TrimFindsNothing, TrimCloses, Places, PlacesUnanswered, CommitsRow,
       Stop, StopCancels, StopCloses, StopFinishes, LimitFills, Deliver, Lose,
       ReconcileLoads, ReconcileCommits, vars, row

LEMMA SameConfirmed ==
    ASSUME SameOrders
    PROVE  Confirmed' = Confirmed
<1>1. \A i \in DOMAIN orders : /\ orders'[i].stage = orders[i].stage
                               /\ orders'[i].answered = orders[i].answered
                               /\ orders'[i].by = orders[i].by
  BY DEF SameOrders, OrdersKept
<1>2. DOMAIN orders' = DOMAIN orders
  BY DEF SameOrders
<1>3. {j \in DOMAIN orders' : orders'[j].answered} = {j \in DOMAIN orders : orders[j].answered}
  BY <1>1, <1>2
<1>. QED
  BY <1>1, <1>2, <1>3, Zenon DEF Confirmed

LEMMA PlacesBuys ==
    ASSUME TypeInv, EntryInv, NEW a \in Placers, Places(a)
    PROVE  Ladder!Buy
<1>1. Working(a) /\ ~ Ordered(a) /\ recon' = recon /\ stage' = stage
  BY DEF Places, Working, Busy, Ordered, At, row
<1>2. PICK type \in {"LIMIT", "MARKET"} : Accepted(a, type, TRUE)
  BY DEF Places, OrderTypes
<1>. DEFINE k == Len(orders) + 1
            n == call[a].target
            b == [order |-> k, stage |-> n]
<1>3. n \in Stages /\ stage \in Nat /\ n = stage + 1 /\ orders \in Seq(Orders)
  BY <1>1 DEF TypeInv, TargetsAreStages, TypeOK, EntryInv, NextStageOnly
<1>4. stage < Last
  BY <1>3, Numbers
<1>5. /\ DOMAIN orders = 1 .. Len(orders) /\ Len(orders) \in Nat /\ DOMAIN orders' = 1 .. k
      /\ \A i \in DOMAIN orders : orders'[i] = orders[i]
      /\ orders'[k].stage = n /\ orders'[k].answered
  <2>1. /\ orders' \in Seq(Orders) /\ Len(orders') = k
        /\ \A i \in DOMAIN orders : orders'[i] = orders[i]
        /\ orders'[k] = NewOrder(a, type, TRUE)
    BY <1>1, <1>2, OrderAccepted
  <2>2. NewOrder(a, type, TRUE).stage = n /\ NewOrder(a, type, TRUE).answered
    BY DEF NewOrder
  <2>3. DOMAIN orders' = 1 .. k /\ DOMAIN orders = 1 .. Len(orders) /\ Len(orders) \in Nat
    BY <1>3, <2>1
  <2>. HIDE DEF k, n
  <2>. QED
    BY <2>1, <2>2, <2>3
<1>. HIDE DEF k, n
<1>6. \A c \in Confirmed : c.stage # n /\ c.order # k
  <2>. SUFFICES ASSUME NEW i \in DOMAIN orders, orders[i].answered
                PROVE  orders[i].stage # n /\ i # k
    BY DEF Confirmed
  <2>. QED
    BY <1>1, <1>5, NextIsUnbought DEF n, k
<1>7. b \notin Confirmed
  BY <1>6
<1>8. Confirmed' = Confirmed \cup {b}
  <2>1. {j \in DOMAIN orders' : orders'[j].answered}
            = {j \in DOMAIN orders : orders[j].answered} \cup {k}
    BY <1>5 DEF k
  <2>. QED
    BY <1>5, <2>1 DEF Confirmed
<1>9. b.stage = stage + 1
  BY <1>3
<1>. HIDE DEF b
<1>. QED
  BY <1>1, <1>3, <1>4, <1>6, <1>7, <1>8, <1>9 DEF Ladder!Buy

LEMMA UnansweredIsNone ==
    ASSUME TypeInv, NEW a \in Placers, PlacesUnanswered(a)
    PROVE  Confirmed' = Confirmed
<1>1. Working(a) /\ recon' = recon
  BY DEF PlacesUnanswered, Working, Busy, At
<1>2. PICK type \in {"LIMIT", "MARKET"} : Accepted(a, type, FALSE)
  BY DEF PlacesUnanswered, OrderTypes
<1>. DEFINE k == Len(orders) + 1
<1>3. /\ DOMAIN orders = 1 .. Len(orders) /\ Len(orders) \in Nat /\ DOMAIN orders' = 1 .. k
      /\ \A i \in DOMAIN orders : orders'[i] = orders[i]
      /\ ~ orders'[k].answered
  <2>1. /\ orders' \in Seq(Orders) /\ Len(orders') = k
        /\ \A i \in DOMAIN orders : orders'[i] = orders[i]
        /\ orders'[k] = NewOrder(a, type, FALSE)
    BY <1>1, <1>2, OrderAccepted
  <2>2. ~ NewOrder(a, type, FALSE).answered
    BY DEF NewOrder
  <2>3. orders \in Seq(Orders)
    BY DEF TypeInv, TypeOK
  <2>4. DOMAIN orders' = 1 .. k /\ DOMAIN orders = 1 .. Len(orders) /\ Len(orders) \in Nat
    BY <2>1, <2>3
  <2>. HIDE DEF k
  <2>. QED
    BY <2>1, <2>2, <2>4
<1>4. {j \in DOMAIN orders' : orders'[j].answered} = {j \in DOMAIN orders : orders[j].answered}
  BY <1>3
<1>. HIDE DEF k
<1>. QED
  BY <1>3, <1>4 DEF Confirmed

LEMMA CommitsClimb ==
    ASSUME TypeInv, EntryInv, Traced, NEW a \in Placers, CommitsStage(a)
    PROVE  Ladder!Climb
<1>1. Ordered(a) /\ Working(a) /\ orders' = Known(a) /\ stage' = call[a].target
  BY DEF CommitsStage, Ordered, Working, Busy, At
<1>2. stage' = stage + 1
  BY <1>1 DEF EntryInv, NextStageOnly
<1>3. Confirmed' = Confirmed
  BY <1>1, RowCommitted, SameConfirmed DEF SameOrders, OrdersKept
<1>4. \E b \in Confirmed : b.stage = stage + 1
  <2>. DEFINE i == call[a].seen
  <2>1. i \in DOMAIN orders /\ orders[i].stage = call[a].target /\ orders[i].answered
    BY <1>1 DEF Traced, OwnOrder
  <2>2. [order |-> i, stage |-> orders[i].stage] \in Confirmed
    BY <2>1 DEF Confirmed
  <2>. QED
    BY <1>1, <1>2, <2>1, <2>2
<1>. QED
  BY <1>2, <1>3, <1>4 DEF Ladder!Climb

LEMMA LadderStep ==
    ASSUME TypeInv, EntryInv, Traced, [Next]_vars
    PROVE  [Ladder!Next]_<<stage, Confirmed>>
<1>1. ASSUME NEW a \in Placers, CommitsStage(a)
      PROVE  Ladder!Next
  BY <1>1, CommitsClimb DEF Ladder!Next
<1>2. ASSUME NEW a \in Placers, Places(a)
      PROVE  Ladder!Next
  BY <1>2, PlacesBuys DEF Ladder!Next
<1>3. ASSUME NEW a \in Placers, PlacesUnanswered(a)
      PROVE  Confirmed' = Confirmed /\ stage' = stage
  BY <1>3, UnansweredIsNone DEF PlacesUnanswered
<1>4. CASE SameOrders
  BY <1>1, <1>4, SameConfirmed, WhoClimbs
<1>. QED
  BY <1>2, <1>3, <1>4, OnlyPlacersOrder

(* The stages are bought one after the other, each by one confirmed order, *)
(* and climbed as they were bought, whoever asks and whatever fails,       *)
(* unless a start or a pass of the job is at work together with another    *)
(* entry.                                                                  *)
THEOREM ImplementsStageLadder == Spec /\ []Alone => ClimbsTheLadder
<1>1. Init => Traced /\ Ladder!Init
  <2>. SUFFICES ASSUME Init PROVE Traced /\ Ladder!Init
    OBVIOUS
  <2>1. \A a \in Placers : call[a] = Idle
    BY ActorFacts DEF Init
  <2>2. Traced
    BY <2>1, StatusFacts DEF Init, Traced, Ordered, At, Idle, Plain
  <2>3. Ladder!Init
    BY DEF Init, Confirmed, Ladder!Init
  <2>. QED
    BY <2>2, <2>3
<1>2. /\ TypeInv /\ EntryInv /\ Traced /\ Alone' /\ [Next]_vars
      => TypeInv' /\ EntryInv' /\ Traced'
  BY StepTyped, StepSafe, TracedStep
<1>3. TypeInv /\ EntryInv /\ Traced /\ [Next]_vars => [Ladder!Next]_<<stage, Confirmed>>
  BY LadderStep
<1>. QED
  BY <1>1, <1>2, <1>3, InitTyped, InitClimbs, PTL DEF Spec, ClimbsTheLadder, Ladder!Spec

-----------------------------------------------------------------------------
(* What StageLadder promises is enough: of whatever implements it, each    *)
(* stage up to the current one has been bought, and no stage twice.        *)
BoughtInFull == \A n \in 1 .. stage : \E b \in Confirmed : b.stage = n

LEMMA ConfirmedOnce ==
    (\A b, c \in Confirmed : b.stage = c.stage => b = c) => StagePlacedOnce
<1>. SUFFICES ASSUME \A b, c \in Confirmed : b.stage = c.stage => b = c,
                     NEW i \in DOMAIN orders, NEW j \in DOMAIN orders,
                     orders[i].answered, orders[j].answered, orders[i].stage = orders[j].stage
              PROVE  i = j
  BY DEF StagePlacedOnce
<1>1. /\ [order |-> i, stage |-> orders[i].stage] \in Confirmed
      /\ [order |-> j, stage |-> orders[j].stage] \in Confirmed
  BY DEF Confirmed
<1>2. [order |-> i, stage |-> orders[i].stage] = [order |-> j, stage |-> orders[j].stage]
  BY <1>1
<1>. QED
  BY <1>2

THEOREM LadderSuffices == ClimbsTheLadder => [](StagePlacedOnce /\ BoughtInFull)
<1>. DEFINE Once == \A b, c \in Confirmed : b.stage = c.stage => b = c
            Inv  == stage \in Nat /\ Once /\ BoughtInFull
<1>1. Ladder!Init => Inv
  BY DEF Ladder!Init, BoughtInFull
<1>2. Inv /\ [Ladder!Next]_<<stage, Confirmed>> => Inv'
  <2>. SUFFICES ASSUME Inv, [Ladder!Next]_<<stage, Confirmed>> PROVE Inv'
    OBVIOUS
  <2>1. CASE Ladder!Buy
    <3>1. PICK b \in Confirmed' \ Confirmed : b.stage = stage + 1 /\ Confirmed' = Confirmed \cup {b}
      BY <2>1 DEF Ladder!Buy
    <3>2. stage' = stage /\ \A c \in Confirmed : c.stage # stage + 1
      BY <2>1 DEF Ladder!Buy
    <3>3. Once'
      BY <3>1, <3>2
    <3>4. BoughtInFull'
      BY <3>1, <3>2 DEF BoughtInFull
    <3>. QED
      BY <3>2, <3>3, <3>4
  <2>2. CASE Ladder!Climb
    <3>1. Confirmed' = Confirmed /\ stage' = stage + 1 /\ \E b \in Confirmed : b.stage = stage + 1
      BY <2>2 DEF Ladder!Climb
    <3>2. BoughtInFull'
      <4>. SUFFICES ASSUME NEW n \in 1 .. stage + 1 PROVE \E b \in Confirmed : b.stage = n
        BY <3>1 DEF BoughtInFull
      <4>1. n \in 1 .. stage \/ n = stage + 1
        OBVIOUS
      <4>. QED
        BY <3>1, <4>1 DEF BoughtInFull
    <3>. QED
      BY <3>1, <3>2
  <2>3. CASE UNCHANGED <<stage, Confirmed>>
    BY <2>3 DEF BoughtInFull
  <2>. QED
    BY <2>1, <2>2, <2>3 DEF Ladder!Next
<1>. QED
  BY <1>1, <1>2, ConfirmedOnce, PTL DEF ClimbsTheLadder, Ladder!Spec

-----------------------------------------------------------------------------
(***************************************************************************)
(* What the claim gives however the actors overlap: of clicks, at most one *)
(* works on a stage, and a stage that one has bought stays marked.         *)
(***************************************************************************)
OneClaims ==
    /\ \A c \in Clicks : Working(c) => triggered[call[c].target]
    /\ \A c, d \in Clicks : Working(c) /\ Working(d) /\ call[c].target = call[d].target => c = d

BoughtIsClaimed ==
    \A i \in DOMAIN orders : ByClick(i) =>
        /\ triggered[orders[i].stage]
        /\ \A c \in Clicks : Working(c) /\ call[c].target = orders[i].stage => Ordered(c)

ClaimInv == OneClaims /\ BoughtIsClaimed /\ ClicksBuyOnce

(* A click moves by its own steps, and keeps its stage while it works. *)
GoesOn(c) == Working(c) /\ call'[c].target = call[c].target /\ (Ordered(c) => Ordered(c)')

LEMMA ClickGoesOn ==
    ASSUME TypeInv, [Next]_vars, NEW c \in Clicks, Working(c)'
    PROVE  GoesOn(c) \/ (ClickClaims(c) /\ ~ triggered[call[c].target]
                            /\ call'[c].target = call[c].target)
<1>1. /\ c \in Actors /\ c \in Placers /\ call \in [Actors -> Calls] /\ call[c] \in Calls
  BY ActorFacts DEF TypeInv, TypeOK
<1>2. CASE ~ Enters(c) /\ ~ Click(c)
  <2>1. call'[c] = call[c]
    BY <1>2, OthersMove
  <2>. QED
    BY <2>1 DEF GoesOn, Working, Ordered, At
<1>3. CASE Click(c)
  <2>1. ASSUME NEW step \in Steps, Move(c, step)
        PROVE  call'[c].step = step /\ call'[c].target = call[c].target
    BY <1>1, <2>1 DEF Move, Calls
  <2>2. CASE ClickReads(c)
    BY <1>1, <2>2 DEF ClickReads, Working, Busy, Calls
  <2>3. CASE ClickClaims(c)
    <3>1. call'[c] # Ended(c)
      BY DEF Working, Busy, Ended, Idle
    <3>2. ~ triggered[call[c].target] /\ Move(c, "claimed")
      BY <1>1, <2>3, <3>1 DEF ClickClaims
    <3>. QED
      BY <2>1, <2>3, <3>2 DEF Steps
  <2>4. CASE ClickEnters(c)
    BY <2>1, <2>4 DEF ClickEnters, GoesOn, Working, Busy, Ordered, At, Steps
  <2>. QED
    BY <1>3, <2>2, <2>3, <2>4 DEF Click
<1>4. CASE Enters(c)
  <2>1. Working(c)
    BY <1>4 DEF Enters, Fails, TrimAsks, TrimFindsNothing, TrimCloses, Places, PlacesUnanswered,
                CommitsRow, CommitsStage, Working, Busy, At
  <2>2. call' # [call EXCEPT ![c] = Ended(c)]
    BY <1>1 DEF Working, Busy, Ended, Idle
  <2>3. TrimAsks(c) \/ TrimCloses(c) \/ Places(c) \/ CommitsRow(c)
    BY <1>4, <2>2 DEF Enters, Fails, TrimFindsNothing, PlacesUnanswered, CommitsStage
  <2>4. call'[c].target = call[c].target
    BY <1>1, <2>3 DEF TrimAsks, TrimCloses, Places, CommitsRow, Move, Calls
  <2>5. Ordered(c) => CommitsRow(c)
    BY <2>3 DEF TrimAsks, TrimCloses, Places, Ordered, At
  <2>6. CommitsRow(c) => Ordered(c)'
    BY <1>1 DEF CommitsRow, Move, Ordered, At, Calls
  <2>. QED
    BY <2>1, <2>4, <2>5, <2>6 DEF GoesOn
<1>. QED
  BY <1>2, <1>3, <1>4

(* A mark is taken off by the click that made it and has not ordered. *)
LEMMA WhoUnmarks ==
    ASSUME TypeInv, [Next]_vars, NEW n \in Stages, triggered[n], ~ triggered'[n]
    PROVE  \E c \in Clicks : Working(c) /\ ~ Ordered(c) /\ call[c].target = n /\ ~ Working(c)'
<1>1. triggered \in [Stages -> BOOLEAN] /\ call \in [Actors -> Calls]
  BY DEF TypeInv, TypeOK
<1>2. \A m : triggered' # [triggered EXCEPT ![m] = TRUE]
  BY <1>1
<1>3. ASSUME NEW a \in Placers, Enters(a)
      PROVE  a \in Clicks /\ Working(a) /\ ~ Ordered(a) /\ call[a].target = n /\ ~ Working(a)'
  <2>1. a \in Actors
    BY ActorFacts
  <2>2. Fails(a) \/ TrimFindsNothing(a) \/ PlacesUnanswered(a)
    BY <1>2, <1>3 DEF Enters, TrimAsks, TrimCloses, Places, CommitsRow, CommitsStage, row
  <2>3. triggered' = FailedClaim(a) /\ call' = [call EXCEPT ![a] = Ended(a)]
    BY <2>2 DEF Fails, TrimFindsNothing, PlacesUnanswered
  <2>4. a \in Clicks /\ call[a].target = n
    BY <1>1, <2>3 DEF FailedClaim
  <2>5. Working(a) /\ ~ Ordered(a)
    BY <2>2 DEF Fails, TrimFindsNothing, PlacesUnanswered, Working, Busy, Ordered, At
  <2>6. ~ Working(a)'
    BY <1>1, <2>1, <2>3 DEF Working, Busy, Ended, Idle
  <2>. QED
    BY <2>4, <2>5, <2>6
<1>4. ASSUME \/ \E s \in Starts : StartBegins(s)
             \/ JobLoads \/ JobWaits \/ \E c \in {call[Job].copy, Row} : JobPicks(c)
             \/ \E c \in Clicks : Click(c)
             \/ \E s \in Stops : Stop(s)
             \/ \E i \in DOMAIN orders : LimitFills(i)
             \/ Deliver \/ Lose \/ ReconcileLoads
             \/ \E asked \in BOOLEAN : ReconcileCommits(asked)
             \/ UNCHANGED vars
      PROVE  FALSE
  BY <1>2, <1>4
  DEF StartBegins, JobLoads, JobWaits, JobPicks, Click, ClickReads, ClickClaims, ClickEnters,
      Stop, StopCancels, StopCloses, StopFinishes, LimitFills, Deliver, EntryFilled, ExitFilled,
      Lose, ReconcileLoads, ReconcileCommits, row, vars
<1>. QED
  BY <1>3, <1>4 DEF Next

(* An order that is new is its placer's, who works on a stage and now has  *)
(* ordered it.                                                             *)
LEMMA NewIsOwn ==
    ASSUME TypeInv, [Next]_vars, NEW i \in DOMAIN orders', ByClick(i)', i \notin DOMAIN orders
    PROVE  \E c \in Clicks : /\ Working(c) /\ ~ Ordered(c) /\ Working(c)' /\ Ordered(c)'
                             /\ orders'[i].stage = call[c].target
                             /\ call'[c].target = call[c].target
                             /\ i = Len(orders) + 1 /\ triggered' = triggered
<1>1. PICK a \in Placers : Places(a) \/ PlacesUnanswered(a)
  BY OnlyPlacersOrder DEF SameOrders
<1>2. Working(a) /\ ~ Ordered(a) /\ recon' = recon /\ a \in Actors /\ call \in [Actors -> Calls]
      /\ call[a] \in Calls
  BY <1>1, ActorFacts
  DEF Places, PlacesUnanswered, Working, Busy, Ordered, At, TypeInv, TypeOK
<1>3. PICK type \in {"LIMIT", "MARKET"}, answered \in BOOLEAN :
        Accepted(a, type, answered) /\ (answered => Places(a))
  <2>1. Places(a) => \E type \in {"LIMIT", "MARKET"} : Accepted(a, type, TRUE)
    BY DEF Places, OrderTypes
  <2>2. PlacesUnanswered(a) => \E type \in {"LIMIT", "MARKET"} : Accepted(a, type, FALSE)
    BY DEF PlacesUnanswered, OrderTypes
  <2>. QED
    BY <1>1, <2>1, <2>2
<1>4. orders' \in Seq(Orders) /\ Len(orders') = Len(orders) + 1
      /\ orders'[Len(orders) + 1] = NewOrder(a, type, answered)
  BY <1>2, <1>3, OrderAccepted
<1>5. orders \in Seq(Orders)
  BY DEF TypeInv, TypeOK
<1>6. i = Len(orders) + 1
  BY <1>4, <1>5
<1>7. /\ orders'[i].by = a /\ orders'[i].answered = answered
      /\ orders'[i].stage = call[a].target
  BY <1>4, <1>6 DEF NewOrder
<1>8. a \in Clicks /\ Places(a)
  BY <1>3, <1>7 DEF ByClick
<1>9. call'[a].step = "placed" /\ call'[a].target = call[a].target /\ triggered' = triggered
  BY <1>2, <1>8 DEF Places, Calls, row
<1>. QED
  BY <1>2, <1>6, <1>7, <1>8, <1>9 DEF Working, Busy, Ordered, At

LEMMA OldIsKept ==
    ASSUME TypeInv, [Next]_vars, NEW i \in DOMAIN orders
    PROVE  i \in DOMAIN orders' /\ orders'[i].stage = orders[i].stage /\ (ByClick(i)' <=> ByClick(i))
BY OrdersStay DEF OrdersKept, ByClick

LEMMA OneClaimsStep ==
    ASSUME TypeInv, OneClaims, [Next]_vars
    PROVE  OneClaims'
<1>1. triggered \in [Stages -> BOOLEAN] /\ TypeInv'
  BY StepTyped DEF TypeInv, TypeOK
<1>2. ASSUME NEW c \in Clicks, Working(c)'
      PROVE  /\ call'[c].target = call[c].target /\ call[c].target \in Stages
             /\ triggered'[call[c].target]
  <2>1. call'[c].target \in Stages
    BY <1>1, <1>2, ActorFacts DEF TypeInv, TargetsAreStages
  <2>2. CASE GoesOn(c)
    <3>1. call'[c].target = call[c].target /\ triggered[call[c].target] /\ Working(c)
      BY <2>2 DEF GoesOn, OneClaims
    <3>2. ASSUME ~ triggered'[call[c].target]
          PROVE  FALSE
      <4>1. PICK d \in Clicks : Working(d) /\ call[d].target = call[c].target /\ ~ Working(d)'
        BY <2>1, <3>1, <3>2, WhoUnmarks
      <4>. QED
        BY <1>2, <3>1, <4>1 DEF OneClaims
    <3>. QED
      BY <2>1, <3>1, <3>2
  <2>3. CASE /\ ClickClaims(c) /\ ~ triggered[call[c].target]
             /\ call'[c].target = call[c].target
    BY <1>1, <2>1, <2>3 DEF ClickClaims
  <2>. QED
    BY <1>2, <2>2, <2>3, ClickGoesOn
<1>3. ASSUME NEW c \in Clicks, NEW d \in Clicks, Working(c)', Working(d)',
             call'[c].target = call'[d].target, c # d
      PROVE  FALSE
  <2>1. call[c].target = call[d].target
    BY <1>2, <1>3
  <2>2. ~ (GoesOn(c) /\ GoesOn(d))
    BY <1>3, <2>1 DEF GoesOn, OneClaims
  <2>3. \A e, f \in Clicks : e # f /\ ClickClaims(e) => ~ ClickClaims(f)
    <3>. SUFFICES ASSUME NEW e \in Clicks, NEW f \in Clicks, e # f, ClickClaims(e), ClickClaims(f)
                  PROVE  FALSE
      OBVIOUS
    <3>1. e \in Actors /\ f \in Actors /\ call \in [Actors -> Calls]
      BY ActorFacts DEF TypeInv, TypeOK
    <3>2. /\ call'[e] = call[e]
          /\ At(e, "read") /\ call'[e].step # "read"
      BY <3>1 DEF ClickClaims, Move, At, Ended, Idle, Calls
    <3>. QED
      BY <3>2 DEF At
  <2>4. \A e, f \in Clicks : GoesOn(e) /\ call[e].target = call[f].target => triggered[call[f].target]
    BY DEF GoesOn, OneClaims
  <2>5. \/ GoesOn(c) /\ ~ triggered[call[d].target]
        \/ GoesOn(d) /\ ~ triggered[call[c].target]
    BY <1>3, <2>2, <2>3, ClickGoesOn
  <2>. QED
    BY <2>1, <2>4, <2>5
<1>. QED
  BY <1>2, <1>3 DEF OneClaims

LEMMA BoughtIsClaimedStep ==
    ASSUME TypeInv, OneClaims, OneClaims', BoughtIsClaimed, [Next]_vars
    PROVE  BoughtIsClaimed'
<1>. SUFFICES ASSUME NEW i \in DOMAIN orders', ByClick(i)'
              PROVE  /\ triggered'[orders'[i].stage]
                     /\ \A c \in Clicks : Working(c)' /\ call'[c].target = orders'[i].stage
                                              => Ordered(c)'
  BY DEF BoughtIsClaimed
<1>. DEFINE n == orders'[i].stage
<1>1. CASE i \in DOMAIN orders
  <2>1. ByClick(i) /\ orders[i].stage = n
    BY <1>1, OldIsKept
  <2>2. triggered[n] /\ \A c \in Clicks : Working(c) /\ call[c].target = n => Ordered(c)
    BY <1>1, <2>1 DEF BoughtIsClaimed
  <2>3. n \in Stages
    <3>1. orders \in Seq(Orders)
      BY DEF TypeInv, TypeOK
    <3>2. orders[i] \in Orders
      BY <1>1, <3>1
    <3>. QED
      BY <2>1, <3>2 DEF Orders
  <2>. HIDE DEF n
  <2>4. triggered'[n]
    BY <2>2, <2>3, WhoUnmarks
  <2>5. ASSUME NEW c \in Clicks, Working(c)', call'[c].target = n
        PROVE  Ordered(c)'
    <3>1. GoesOn(c)
      BY <2>2, <2>5, ClickGoesOn
    <3>. QED
      BY <2>2, <2>5, <3>1 DEF GoesOn
  <2>. QED
    BY <2>4, <2>5 DEF n
<1>2. CASE i \notin DOMAIN orders
  <2>1. PICK c \in Clicks : /\ Working(c)' /\ Ordered(c)' /\ n = call[c].target
                            /\ call'[c].target = call[c].target
    BY <1>2, NewIsOwn
  <2>. QED
    BY <2>1 DEF OneClaims
<1>. QED
  BY <1>1, <1>2

LEMMA ClicksOnceStep ==
    ASSUME TypeInv, BoughtIsClaimed, ClicksBuyOnce, [Next]_vars
    PROVE  ClicksBuyOnce'
<1>1. ASSUME NEW i \in DOMAIN orders', NEW j \in DOMAIN orders', ByClick(i)', ByClick(j)',
             orders'[i].stage = orders'[j].stage, i \in DOMAIN orders, j \notin DOMAIN orders
      PROVE  FALSE
  <2>1. ByClick(i) /\ orders[i].stage = orders'[j].stage
    BY <1>1, OldIsKept
  <2>2. PICK c \in Clicks : Working(c) /\ ~ Ordered(c) /\ orders'[j].stage = call[c].target
    BY <1>1, NewIsOwn
  <2>. QED
    BY <1>1, <2>1, <2>2 DEF BoughtIsClaimed
<1>2. ASSUME NEW i \in DOMAIN orders', NEW j \in DOMAIN orders', ByClick(i)', ByClick(j)',
             orders'[i].stage = orders'[j].stage
      PROVE  i = j
  <2>1. CASE i \in DOMAIN orders /\ j \in DOMAIN orders
    <3>1. ByClick(i) /\ ByClick(j) /\ orders[i].stage = orders[j].stage
      BY <1>2, <2>1, OldIsKept
    <3>. QED
      BY <2>1, <3>1 DEF ClicksBuyOnce
  <2>2. CASE i \notin DOMAIN orders /\ j \notin DOMAIN orders
    BY <1>2, <2>2, NewIsOwn
  <2>. QED
    BY <1>1, <1>2, <2>1, <2>2
<1>. QED
  BY <1>2 DEF ClicksBuyOnce

(* Clicks buy a stage once, however often the owner clicks, whatever fails *)
(* and whoever else is at work: of two answered orders of a stage, one is  *)
(* of an entry that claims nothing.                                        *)
THEOREM ClicksNeverDouble == Spec => []ClicksBuyOnce
<1>1. Init => ClaimInv
  <2>. SUFFICES ASSUME Init PROVE ClaimInv
    OBVIOUS
  <2>1. \A c \in Clicks : ~ Working(c)
    BY ActorFacts DEF Init, Working, Busy, Idle
  <2>2. DOMAIN orders = {}
    BY DEF Init
  <2>. QED
    BY <2>1, <2>2 DEF ClaimInv, OneClaims, BoughtIsClaimed, ClicksBuyOnce
<1>2. TypeInv /\ ClaimInv /\ [Next]_vars => TypeInv' /\ ClaimInv'
  BY StepTyped, OneClaimsStep, BoughtIsClaimedStep, ClicksOnceStep DEF ClaimInv
<1>3. ClaimInv => ClicksBuyOnce
  BY DEF ClaimInv
<1>. QED
  BY <1>1, <1>2, <1>3, InitTyped, PTL DEF Spec
=============================================================================
