------------------------- MODULE OrderLedger_proofs -------------------------
(***************************************************************************)
(* Theorems about OrderLedger, for any orders, quantities, prices and      *)
(* bounds: every variable keeps its type; and if the stream repeats at     *)
(* most its last event, nothing is booked twice, so that the ledger        *)
(* implements FillLedger, and realized_pnl and total_capital are exact     *)
(* once every event is in.                                                 *)
(***************************************************************************)
EXTENDS OrderLedger, FiniteSetTheorems, WellFoundedInduction, TLAPS

-----------------------------------------------------------------------------
(***************************************************************************)
(* Sums over a finite set.  SumFunction(f) is the value at DOMAIN f of a   *)
(* function defined by recursion on the subsets of DOMAIN f: a set gives   *)
(* the value at one of its elements, plus the sum of the others.           *)
(***************************************************************************)
One(s) == CHOOSE x \in s : TRUE

IsSum(f, S, h) ==
    h = [s \in SUBSET S |-> IF s = {} THEN 0 ELSE f[One(s)] + h[s \ {One(s)}]]

Sums(f, S) == CHOOSE h : IsSum(f, S, h)

(* SumFunction as the library defines it.                                  *)
LEMMA SumUnfolds == ASSUME NEW f PROVE SumFunction(f) = Sums(f, DOMAIN f)[DOMAIN f]
BY DEF SumFunction, SumFunctionOnSet, FoldFunctionOnSet, MapThenFoldSet, Sums, IsSum, One

(* A set of subsets of a finite set has a least one, of which no proper    *)
(* subset is in it.                                                        *)
LEMMA Smallest ==
    ASSUME NEW S, IsFiniteSet(S), NEW T \in SUBSET SUBSET S, T # {}
    PROVE  \E s \in T : \A t \in T : t \subseteq s => t = s
<1>1. IsWellFoundedOn(StrictSubsetOrdering(S), SUBSET S)
  BY FS_StrictSubsetOrderingWellFounded, FS_FiniteSubsetsOfFinite
<1>2. PICK s \in T : \A t \in T : ~ (<<t, s>> \in StrictSubsetOrdering(S))
  <2>. HIDE DEF StrictSubsetOrdering
  <2>. QED  BY <1>1, WFMin
<1>3. \A t \in T : t \subseteq s => t = s
  BY <1>2 DEF StrictSubsetOrdering
<1>. QED  BY <1>3

LEMMA OneIsIn == ASSUME NEW s, s # {} PROVE One(s) \in s
BY DEF One

(* Two functions that satisfy the recursion agree.                         *)
LEMMA SumsAgree ==
    ASSUME NEW f, NEW A, NEW B, IsFiniteSet(A), NEW g, NEW h,
           IsSum(f, A, g), IsSum(f, B, h),
           NEW r, r \subseteq A, r \subseteq B
    PROVE  g[r] = h[r]
<1>. DEFINE T == {s \in SUBSET A : s \subseteq B /\ g[s] # h[s]}
<1>1. SUFFICES ASSUME T # {} PROVE FALSE
  OBVIOUS
<1>2. PICK s \in T : \A t \in T : t \subseteq s => t = s
  <2>1. T \in SUBSET SUBSET A
    OBVIOUS
  <2>. HIDE DEF T
  <2>. QED  BY <1>1, <2>1, Smallest
<1>3. s # {}
  BY <1>2 DEF IsSum
<1>4. One(s) \in s
  BY <1>3, OneIsIn
<1>5. g[s \ {One(s)}] = h[s \ {One(s)}]
  BY <1>2, <1>4
<1>6. g[s] = f[One(s)] + g[s \ {One(s)}] /\ h[s] = f[One(s)] + h[s \ {One(s)}]
  BY <1>2, <1>3 DEF IsSum
<1>. QED  BY <1>2, <1>5, <1>6

(* The recursion defines a function.                                       *)
LEMMA SumsExist ==
    ASSUME NEW f, NEW S, IsFiniteSet(S)
    PROVE  \E h : IsSum(f, S, h)
<1>. DEFINE T == {s \in SUBSET S : ~ \E h : IsSum(f, s, h)}
<1>1. SUFFICES ASSUME T # {} PROVE FALSE
  OBVIOUS
<1>2. PICK U \in T : \A t \in T : t \subseteq U => t = U
  <2>1. T \in SUBSET SUBSET S
    OBVIOUS
  <2>. HIDE DEF T
  <2>. QED  BY <1>1, <2>1, Smallest
<1>. DEFINE H(s) == CHOOSE h : IsSum(f, s, h)
            G(s) == H(s)[s]
            K == [s \in SUBSET U |->
                     IF s = U THEN (IF U = {} THEN 0 ELSE f[One(U)] + G(U \ {One(U)}))
                     ELSE G(s)]
<1>3. \A s \in SUBSET U : s # U => IsSum(f, s, H(s))
  BY <1>2
<1>. HIDE DEF H
<1>4. ASSUME NEW s \in SUBSET U
      PROVE  K[s] = IF s = {} THEN 0 ELSE f[One(s)] + K[s \ {One(s)}]
  <2>1. CASE s = {} /\ s = U
    BY <2>1
  <2>2. CASE s = {} /\ s # U
    BY <2>2, <1>3 DEF IsSum
  <2>3. CASE s # {} /\ s = U
    BY <2>3, OneIsIn
  <2>4. CASE s # {} /\ s # U
    <3>1. One(s) \in s
      BY <2>4, OneIsIn
    <3>. DEFINE r == s \ {One(s)}
    <3>2. IsSum(f, s, H(s)) /\ IsSum(f, r, H(r)) /\ r # U /\ r \in SUBSET U
      BY <2>4, <1>3, <3>1
    <3>3. H(s)[s] = f[One(s)] + H(s)[r]
      BY <3>2, <2>4 DEF IsSum
    <3>4. IsFiniteSet(s)
      BY FS_Subset
    <3>5. H(s)[r] = H(r)[r]
      <4>. HIDE DEF r
      <4>1. r \subseteq s
        BY DEF r
      <4>. QED  BY <3>2, <3>4, <4>1, SumsAgree
    <3>. QED  BY <3>1, <3>2, <3>3, <3>5, <2>4
  <2>. QED  BY <2>1, <2>2, <2>3, <2>4
<1>5. IsSum(f, U, K)
  <2>. HIDE DEF G
  <2>1. K = [s \in SUBSET U |-> K[s]]
    OBVIOUS
  <2>. HIDE DEF K
  <2>. QED  BY <1>4, <2>1 DEF IsSum
<1>. QED  BY <1>2, <1>5

(* The recursion, which is all that the lemmas below use.                  *)
LEMMA SumsStep ==
    ASSUME NEW f, IsFiniteSet(DOMAIN f), NEW s \in SUBSET DOMAIN f
    PROVE  Sums(f, DOMAIN f)[s] =
              IF s = {} THEN 0 ELSE f[One(s)] + Sums(f, DOMAIN f)[s \ {One(s)}]
<1>1. \E h : IsSum(f, DOMAIN f, h)
  BY SumsExist
<1>2. IsSum(f, DOMAIN f, Sums(f, DOMAIN f))
  BY <1>1 DEF IsSum, Sums
<1>. QED  BY <1>2 DEF IsSum

(* A sum of integers is an integer.                                        *)
LEMMA SumType ==
    ASSUME NEW S, IsFiniteSet(S), NEW f \in [S -> Int]
    PROVE  SumFunction(f) \in Int
<1>. DEFINE h == Sums(f, S)
            T == {s \in SUBSET S : h[s] \notin Int}
<1>1. SUFFICES T = {}
  BY SumUnfolds
<1>2. SUFFICES ASSUME T # {} PROVE FALSE
  OBVIOUS
<1>3. PICK s \in T : \A t \in T : t \subseteq s => t = s
  <2>1. T \in SUBSET SUBSET S
    OBVIOUS
  <2>. HIDE DEF T
  <2>. QED  BY <1>2, <2>1, Smallest
<1>4. h[s] = IF s = {} THEN 0 ELSE f[One(s)] + h[s \ {One(s)}]
  BY <1>3, SumsStep
<1>. HIDE DEF h
<1>5. s # {} => One(s) \in s /\ h[s \ {One(s)}] \in Int
  BY <1>3, OneIsIn
<1>. QED  BY <1>3, <1>4, <1>5

(* A sum changes by as much as the one term that does.                     *)
LEMMA SumChanges ==
    ASSUME NEW S, IsFiniteSet(S), NEW f \in [S -> Int], NEW g \in [S -> Int],
           NEW o \in S, \A x \in S \ {o} : g[x] = f[x]
    PROVE  SumFunction(g) = SumFunction(f) + g[o] - f[o]
<1>. DEFINE F == Sums(f, S)
            G == Sums(g, S)
            More(s) == IF o \in s THEN g[o] - f[o] ELSE 0
            T == {s \in SUBSET S : ~ (F[s] \in Int /\ G[s] = F[s] + More(s))}
<1>1. SUFFICES T = {}
  BY SumUnfolds, S \in SUBSET S
<1>2. SUFFICES ASSUME T # {} PROVE FALSE
  OBVIOUS
<1>3. PICK s \in T : \A t \in T : t \subseteq s => t = s
  <2>1. T \in SUBSET SUBSET S
    OBVIOUS
  <2>. HIDE DEF T
  <2>. QED  BY <1>2, <2>1, Smallest
<1>. DEFINE r == s \ {One(s)}
<1>4. /\ F[s] = IF s = {} THEN 0 ELSE f[One(s)] + F[r]
      /\ G[s] = IF s = {} THEN 0 ELSE g[One(s)] + G[r]
  BY <1>3, SumsStep
<1>. HIDE DEF F, G
<1>5. s # {}
  BY <1>3, <1>4
<1>6. One(s) \in s
  BY <1>5, OneIsIn
<1>7. F[r] \in Int /\ G[r] = F[r] + More(r)
  BY <1>3, <1>6
<1>8. More(s) = More(r) + (IF o = One(s) THEN g[o] - f[o] ELSE 0)
  BY <1>6
<1>9. g[One(s)] = f[One(s)] + (IF o = One(s) THEN g[o] - f[o] ELSE 0)
  BY <1>3, <1>6
<1>10. More(s) \in Int /\ More(r) \in Int /\ f[One(s)] \in Int /\ g[One(s)] \in Int
  BY <1>3, <1>6
<1>. HIDE DEF More, r
<1>. QED  BY <1>3, <1>4, <1>5, <1>7, <1>8, <1>9, <1>10

(* A sum of zeros is zero.                                                 *)
LEMMA SumOfZeros ==
    ASSUME NEW S, IsFiniteSet(S), NEW f \in [S -> Int], \A x \in S : f[x] = 0
    PROVE  SumFunction(f) = 0
<1>. DEFINE F == Sums(f, S)
            T == {s \in SUBSET S : F[s] # 0}
<1>1. SUFFICES T = {}
  BY SumUnfolds, S \in SUBSET S
<1>2. SUFFICES ASSUME T # {} PROVE FALSE
  OBVIOUS
<1>3. PICK s \in T : \A t \in T : t \subseteq s => t = s
  <2>1. T \in SUBSET SUBSET S
    OBVIOUS
  <2>. HIDE DEF T
  <2>. QED  BY <1>2, <2>1, Smallest
<1>4. F[s] = IF s = {} THEN 0 ELSE f[One(s)] + F[s \ {One(s)}]
  BY <1>3, SumsStep
<1>. HIDE DEF F
<1>5. s # {} => One(s) \in s /\ F[s \ {One(s)}] = 0
  BY <1>3, OneIsIn
<1>. QED  BY <1>3, <1>4, <1>5
-----------------------------------------------------------------------------
USE OrderAssumption, MoneyAssumption, BoundAssumption

USE DEF FillStatus, OpenStatus, FinalStatus, Status, NoOrder

(* The fields of a fill, and a fill with another status.                   *)
LEMMA FillFields ==
    ASSUME NEW f \in Fills
    PROVE  f.status \in Status \cup {NoOrder} /\ f.z \in Nat /\ f.notional \in Nat
BY DEF Fills

LEMMA WithStatus ==
    ASSUME NEW f \in Fills, NEW s \in Status
    PROVE  LET g == [f EXCEPT !.status = s]
           IN  g \in Fills /\ g.status = s /\ g.z = f.z /\ g.notional = f.notional
BY DEF Fills

(* An average price is a natural number of 1/Scale. *)
LEMMA AvgType ==
    ASSUME NEW e \in Event, e.z > 0
    PROVE  Avg(e) \in Nat
<1>1. e.z \in Nat \ {0} /\ e.notional \in Nat
  BY DEF Event
<1>2. Scale \div e.z \in Nat
  BY <1>1
<1>. QED
  BY <1>1, <1>2 DEF Avg

(* What an event adds to realized_pnl and total_capital is an integer. *)
LEMMA MoneyType ==
    ASSUME TypeOK, NEW e \in Event
    PROVE  RealizedBy(e) \in Int /\ CapitalBy(e) \in Int
<1>. DEFINE d == Delta(e)
<1>1. e.order \in Orders /\ e.z \in Nat
  BY DEF Event
<1>2. row[e.order].z \in Nat
  BY <1>1 DEF TypeOK, Fills
<1>3. d \in Int
  BY <1>1, <1>2 DEF Delta
<1>4. Books(e) => e.z > 0
  BY <1>1, <1>2 DEF Books, Delta
<1>5. Books(e) => Avg(e) \in Nat
  BY <1>4, AvgType
<1>6. Entry * Scale \in Int /\ Fee * Scale \in Int /\ Sign \in Int
  OBVIOUS
<1>7. Books(e) => ExitProfit(e, d) \in Int
  <2>. SUFFICES ASSUME Books(e) PROVE ExitProfit(e, d) \in Int
    OBVIOUS
  <2>1. Avg(e) - Entry * Scale \in Int
    BY <1>5, <1>6
  <2>2. d * Sign \in Int
    BY <1>3, <1>6
  <2>. HIDE DEF d
  <2>3. d * Sign * (Avg(e) - Entry * Scale) \in Int
    BY <2>1, <2>2
  <2>. QED
    BY <2>3, <1>6 DEF ExitProfit
<1>8. RealizedBy(e) \in Int
  BY <1>6, <1>7 DEF RealizedBy
<1>9. CapitalBy(e) \in Int
  <2>1. Books(e) => d * Avg(e) \in Int
    BY <1>3, <1>5
  <2>. QED
    BY <2>1 DEF CapitalBy
<1>. QED
  BY <1>8, <1>9

LEMMA InitTyped == Init => TypeOK
BY DEF Init, TypeOK, Nothing, Fills, Event

(* A report puts one well-formed event at the end of the stream. *)
LEMMA ReportTyped ==
    ASSUME TypeOK, NEW o \in Orders, NEW f \in Fills, f.status # NoOrder,
           Report(o, f)
    PROVE  /\ exch' \in [Orders -> Fills]
           /\ stream' \in Seq(Event)
           /\ EventOf(o, f) \in Event
<1>1. EventOf(o, f) \in Event
  BY DEF EventOf, Event, Fills
<1>. QED
  BY <1>1 DEF Report, TypeOK

(* The state an execution leaves an order in. *)
LEMMA TradeFills ==
    ASSUME TypeOK, NEW o \in Orders, NEW q \in 1 .. OrderQty, NEW p \in Prices,
           Trade(o, q, p)
    PROVE  \E f \in Fills : /\ f.status # NoOrder
                            /\ f.z = exch[o].z + q
                            /\ Report(o, f)
<1>. DEFINE f == [status   |-> IF exch[o].z + q = OrderQty THEN "FILLED"
                               ELSE "PARTIALLY_FILLED",
                  z        |-> exch[o].z + q,
                  notional |-> exch[o].notional + q * p]
<1>1. exch[o].z \in Nat /\ exch[o].notional \in Nat /\ q \in Nat /\ p \in Nat
  BY DEF TypeOK, Fills
<1>2. f \in Fills
  BY <1>1 DEF Fills
<1>. QED
  BY <1>2 DEF Trade

(* A report leaves everything but the order, the stream and trades alone. *)
LEMMA NextTyped == TypeOK /\ [Next]_vars => TypeOK'
<1>. SUFFICES ASSUME TypeOK, [Next]_vars PROVE TypeOK'
  OBVIOUS
<1>1. ASSUME NEW o \in Orders, Accept(o) PROVE TypeOK'
  <2>1. /\ [exch[o] EXCEPT !.status = "NEW"] \in Fills
        /\ [exch[o] EXCEPT !.status = "NEW"].status = "NEW"
    <3>1. exch[o] \in Fills
      BY DEF TypeOK
    <3>. QED
      BY <3>1, WithStatus
  <2>. QED
    BY <1>1, <2>1, ReportTyped DEF Accept, Report, TypeOK, money, bounds
<1>2. ASSUME NEW o \in Orders, Cancel(o) PROVE TypeOK'
  <2>1. /\ [exch[o] EXCEPT !.status = "CANCELED"] \in Fills
        /\ [exch[o] EXCEPT !.status = "CANCELED"].status = "CANCELED"
    <3>1. exch[o] \in Fills
      BY DEF TypeOK
    <3>. QED
      BY <3>1, WithStatus
  <2>. QED
    BY <1>2, <2>1, ReportTyped DEF Cancel, Report, TypeOK, money, bounds
<1>3. ASSUME NEW o \in Orders, NEW q \in 1 .. OrderQty, NEW p \in Prices,
             Trade(o, q, p)
      PROVE  TypeOK'
  <2>1. PICK f \in Fills : f.status # NoOrder /\ Report(o, f)
    BY <1>3, TradeFills
  <2>2. trades' \in [Orders -> Nat]
    BY <1>3 DEF Trade, TypeOK
  <2>3. prices' \in [Orders -> SUBSET Prices]
    BY <1>3 DEF Trade, TypeOK
  <2>. QED
    BY <2>1, <2>2, <2>3, ReportTyped DEF Report, TypeOK, money, bounds
<1>4. ASSUME NEW o \in Orders, CreateRow(o) PROVE TypeOK'
  BY <1>4 DEF CreateRow, TypeOK, world, money, bounds, Fills
<1>5. CASE Deliver
  <2>. DEFINE e == Head(stream)
  <2>1a. e \in Event /\ stream' \in Seq(Event)
    BY <1>5 DEF Deliver, TypeOK
  <2>1b. past' \in Seq(Event)
    BY <1>5, <2>1a DEF Deliver, TypeOK
  <2>1. /\ e \in Event /\ e.order \in Orders
        /\ stream' \in Seq(Event) /\ past' \in Seq(Event)
    BY <2>1a, <2>1b DEF Event
  <2>2. CASE DropUnmatched(e)
    BY <1>5, <2>1, <2>2
    DEF Deliver, DropUnmatched, TypeOK, world, money, bounds
  <2>3. CASE ApplyEvent(e)
    <3>1. row' \in [Orders -> Fills]
      BY <2>1, <2>3 DEF ApplyEvent, TypeOK, Event, Fills
    <3>2. booked' \in [Orders -> Nat]
      <4>1. Books(e) => Delta(e) \in Nat
        <5>1. e.z \in Nat /\ row[e.order].z \in Nat
          BY <2>1 DEF TypeOK, Event, Fills
        <5>. QED
          BY <5>1 DEF Books, Delta
      <4>2. booked' = [booked EXCEPT ![e.order] =
                          booked[e.order] + (IF Books(e) THEN Delta(e) ELSE 0)]
        BY <2>3 DEF ApplyEvent
      <4>3. booked[e.order] + (IF Books(e) THEN Delta(e) ELSE 0) \in Nat
        BY <2>1, <4>1 DEF TypeOK
      <4>. HIDE DEF e
      <4>. QED
        BY <2>1, <4>2, <4>3 DEF TypeOK
    <3>3. realized' \in Int /\ capital' \in Int
      <4>1. RealizedBy(e) \in Int /\ CapitalBy(e) \in Int
        BY <2>1, MoneyType
      <4>2. realized' = realized + RealizedBy(e) /\ capital' = capital + CapitalBy(e)
        BY <2>3 DEF ApplyEvent
      <4>. HIDE DEF e
      <4>. QED
        BY <4>1, <4>2 DEF TypeOK
    <3>. QED
      BY <1>5, <2>1, <2>3, <3>1, <3>2, <3>3
      DEF Deliver, ApplyEvent, TypeOK, world, bounds
  <2>. QED
    BY <1>5, <2>2, <2>3 DEF Deliver
<1>6. CASE Lose
  <2>1. Head(stream) \in Event /\ stream' \in Seq(Event)
    BY <1>6 DEF Lose, TypeOK
  <2>2. Head(stream).order \in Orders
    BY <2>1 DEF Event
  <2>3. missed' \in SUBSET Orders /\ lost' \in Nat
    BY <1>6, <2>2 DEF Lose, TypeOK
  <2>. QED
    BY <1>6, <2>1, <2>3 DEF Lose, TypeOK, world, money
<1>7. ASSUME NEW i \in 1 .. Len(past), Repeat(i) PROVE TypeOK'
  <2>1. past[i] \in Event
    BY DEF TypeOK
  <2>2. stream' \in Seq(Event)
    BY <1>7, <2>1 DEF Repeat, TypeOK
  <2>. QED
    BY <1>7, <2>2 DEF Repeat, TypeOK, world, money
<1>8. CASE Repair
  <2>1. PICK old, probed, answered :
             RepairOrphanDbOrders(old, probed, answered)
    BY <1>8 DEF Repair
  <2>2. row' \in [Orders -> Fills]
    BY <2>1 DEF RepairOrphanDbOrders, Repaired, TypeOK, Fills
  <2>. QED
    BY <2>1, <2>2 DEF RepairOrphanDbOrders, TypeOK, world, money, bounds
<1>9. CASE UNCHANGED vars
  BY <1>9 DEF vars, world, money, bounds, TypeOK
<1>. QED
  BY <1>1, <1>2, <1>3, <1>4, <1>5, <1>6, <1>7, <1>8, <1>9 DEF Next

(* Every variable always has its type; what is booked never gets negative  *)
(* (handle_order_trade_update's gate), whatever the stream does.           *)
THEOREM TypeCorrect == Spec => []TypeOK
BY InitTyped, NextTyped, PTL DEF Spec
-----------------------------------------------------------------------------
(***************************************************************************)
(* Nothing is booked twice.  The invariant LedgerInv says that what is     *)
(* still to come of an order is in order and never behind what is booked;  *)
(* it needs a stream that repeats its last event only.                     *)
(***************************************************************************)
Inv == TypeOK /\ InOrder

USE DEF InOrder, StreamInOrder, PastInOrder, RowsInOrder

LEMMA InitInOrder == Init => InOrder
BY DEF Init, Nothing

(* The elements of a sequence of events are events.                        *)
LEMMA EventFields ==
    ASSUME NEW s \in Seq(Event)
    PROVE  /\ Len(s) \in Nat
           /\ \A i \in 1 .. Len(s) : s[i].order \in Orders /\ s[i].z \in Nat
<1>1. Len(s) \in Nat /\ \A i \in 1 .. Len(s) : s[i] \in Event
  OBVIOUS
<1>2. \A e \in Event : e.order \in Orders /\ e.z \in Nat
  BY DEF Event
<1>. QED
  BY <1>1, <1>2

(* Quantities are natural numbers.                                         *)
LEMMA Quantities ==
    ASSUME TypeOK
    PROVE  \A k \in Orders : /\ exch[k].z \in Nat /\ row[k].z \in Nat
                             /\ booked[k] \in Nat
BY DEF TypeOK, Fills

(* A report whose quantity is not below the order's keeps the order.       *)
LEMMA ReportInOrder ==
    ASSUME Inv, NEW o \in Orders, NEW f \in Fills, f.z >= exch[o].z,
           Report(o, f)
    PROVE  InOrder'
<1>. DEFINE n == Len(stream)
<1>1. /\ stream \in Seq(Event) /\ past \in Seq(Event)
      /\ exch \in [Orders -> Fills]
  BY DEF Inv, TypeOK
<1>2. n \in Nat /\ Len(past) \in Nat
  BY <1>1
<1>3. \A i \in 1 .. n : stream[i].order \in Orders /\ stream[i].z \in Nat
  BY <1>1, EventFields
<1>4. \A i \in 1 .. Len(past) : past[i].order \in Orders /\ past[i].z \in Nat
  BY <1>1, EventFields
<1>5. f.z \in Nat
  BY DEF Fills
<1>6. \A k \in Orders : /\ exch[k].z \in Nat /\ row[k].z \in Nat
                        /\ booked[k] \in Nat
  BY Quantities DEF Inv
<1>7. exch'[o] = f /\ \A k \in Orders \ {o} : exch'[k] = exch[k]
  BY <1>1 DEF Report
<1>8. \A k \in Orders : exch'[k].z \in Nat /\ exch'[k].z >= exch[k].z
  <2>. TAKE k \in Orders
  <2>1. CASE k = o
    BY <1>5, <1>7, <2>1
  <2>2. CASE k # o
    BY <1>6, <1>7, <2>2
  <2>. QED
    BY <2>1, <2>2
<1>9. /\ Len(stream') = n + 1
      /\ stream'[n + 1] = EventOf(o, f)
      /\ \A i \in 1 .. n : stream'[i] = stream[i]
  BY <1>1 DEF Report
<1>10. stream'[n + 1].order = o /\ stream'[n + 1].z = f.z
  BY <1>9 DEF EventOf
<1>11. booked' = booked /\ past' = past /\ row' = row
  BY DEF Report, money
<1>12. \A i \in 1 .. n + 1 : i \in 1 .. n \/ i = n + 1
  BY <1>2
<1>13. booked[o] <= f.z
  BY <1>5, <1>6 DEF Inv
<1>14. \A i \in 1 .. n : stream[i].order = o => stream[i].z <= f.z
  BY <1>3, <1>5, <1>6 DEF Inv
<1>15. \A i \in 1 .. Len(past) : past[i].order = o => past[i].z <= f.z
  BY <1>4, <1>5, <1>6 DEF Inv
<1>. HIDE DEF n
<1>16. \A i \in 1 .. n + 1 :
          /\ stream'[i].z <= exch'[stream'[i].order].z
          /\ booked[stream'[i].order] <= stream'[i].z
  <2>. TAKE i \in 1 .. n + 1
  <2>1. CASE i = n + 1
    BY <1>5, <1>7, <1>10, <1>13, <2>1
  <2>2. CASE i \in 1 .. n
    <3>1. /\ stream[i].z <= exch[stream[i].order].z
          /\ booked[stream[i].order] <= stream[i].z
      BY <2>2 DEF Inv, n
    <3>. QED
      <4>1. /\ stream'[i] = stream[i] /\ stream[i].order \in Orders
            /\ stream[i].z \in Nat
        BY <1>3, <1>9, <2>2
      <4>2. /\ exch'[stream[i].order].z >= exch[stream[i].order].z
            /\ exch'[stream[i].order].z \in Nat
            /\ exch[stream[i].order].z \in Nat
        BY <1>6, <1>8, <4>1
      <4>. QED
        BY <3>1, <4>1, <4>2
  <2>. QED
    BY <1>12, <2>1, <2>2
<1>17. \A i, j \in 1 .. n + 1 :
          i < j /\ stream'[i].order = stream'[j].order
             => stream'[i].z <= stream'[j].z
  <2>. SUFFICES ASSUME NEW i \in 1 .. n + 1, NEW j \in 1 .. n + 1, i < j,
                       stream'[i].order = stream'[j].order
                PROVE  stream'[i].z <= stream'[j].z
    OBVIOUS
  <2>1. i \in 1 .. n
    BY <1>2 DEF n
  <2>2. CASE j = n + 1
    BY <1>9, <1>10, <1>14, <2>1, <2>2
  <2>3. CASE j \in 1 .. n
    BY <1>9, <2>1, <2>3 DEF Inv, n
  <2>. QED
    BY <1>12, <2>2, <2>3
<1>18. StreamInOrder'
  BY <1>9, <1>11, <1>16, <1>17
<1>19. \A i \in 1 .. Len(past) :
          /\ past[i].z <= exch'[past[i].order].z
          /\ booked[past[i].order] <= past[i].z
          /\ \A j \in 1 .. n + 1 :
                past[i].order = stream'[j].order => past[i].z <= stream'[j].z
  <2>. TAKE i \in 1 .. Len(past)
  <2>1. past[i].z <= exch[past[i].order].z /\ booked[past[i].order] <= past[i].z
    BY DEF Inv
  <2>2. past[i].z <= exch'[past[i].order].z
    BY <1>4, <1>6, <1>8, <2>1
  <2>3. ASSUME NEW j \in 1 .. n + 1, past[i].order = stream'[j].order
        PROVE  past[i].z <= stream'[j].z
    <3>1. CASE j = n + 1
      BY <1>10, <1>15, <2>3, <3>1
    <3>2. CASE j \in 1 .. n
      BY <1>9, <2>3, <3>2 DEF Inv, n
    <3>. QED
      BY <1>12, <3>1, <3>2
  <2>. QED
    BY <2>1, <2>2, <2>3
<1>20. PastInOrder'
  <2>1. Len(past) <= 1
    BY DEF Inv
  <2>. QED
    BY <1>9, <1>11, <1>19, <2>1
<1>21. RowsInOrder'
  BY <1>6, <1>8, <1>11 DEF Inv
<1>. QED
  BY <1>18, <1>20, <1>21

(* What the consumer does with the first event of the stream keeps the     *)
(* order, as that event is not behind what is booked.                      *)
LEMMA DeliverInOrder ==
    ASSUME Inv, RepeatOld = FALSE, Deliver
    PROVE  InOrder'
<1>. DEFINE e == Head(stream)
           n == Len(stream)
<1>1. stream \in Seq(Event) /\ n \in Nat /\ n > 0
  BY DEF Inv, TypeOK, Deliver
<1>2. /\ e = stream[1] /\ e \in Event
      /\ Len(stream') = n - 1
      /\ \A i \in 1 .. n - 1 : stream'[i] = stream[i + 1]
  BY <1>1 DEF Deliver
<1>3. past' = <<e>>
  BY DEF Deliver
<1>4. \A i \in 1 .. n : stream[i].order \in Orders /\ stream[i].z \in Nat
  BY <1>1, EventFields
<1>5. e.order \in Orders /\ e.z \in Nat
  BY <1>1, <1>2, <1>4
<1>6. exch' = exch
  BY DEF Deliver, world
<1>7. \A k \in Orders : /\ exch[k].z \in Nat /\ row[k].z \in Nat
                        /\ booked[k] \in Nat
  BY DEF Inv, TypeOK, Fills
<1>8. /\ \A k \in Orders \ {e.order} : booked'[k] = booked[k] /\ row'[k] = row[k]
      /\ booked'[e.order] \in Nat /\ row'[e.order].z \in Nat
      /\ booked'[e.order] <= e.z
      /\ booked'[e.order] <= row'[e.order].z
      /\ row'[e.order].z <= exch[e.order].z
  <2>1. booked[e.order] <= e.z /\ e.z <= exch[e.order].z
    BY <1>1, <1>2 DEF Inv
  <2>2. CASE DropUnmatched(e)
    BY <1>5, <1>7, <2>1, <2>2 DEF DropUnmatched, money, Inv
  <2>3. CASE ApplyEvent(e)
    <3>1. row' = [row EXCEPT ![e.order] = [status |-> e.status, z |-> e.z,
                                           notional |-> e.notional]]
      BY <2>3 DEF ApplyEvent
    <3>2. row'[e.order].z = e.z
      BY <1>5, <3>1 DEF Inv, TypeOK
    <3>3. \A k \in Orders \ {e.order} : row'[k] = row[k]
      BY <1>5, <3>1 DEF Inv, TypeOK
    <3>4. \A k \in Orders \ {e.order} : booked'[k] = booked[k]
      BY <1>5, <2>3 DEF ApplyEvent, Inv, TypeOK
    <3>5. CASE Books(e)
      <4>1. booked'[e.order] = booked[e.order] + (e.z - row[e.order].z)
        BY <1>5, <2>3, <3>5 DEF ApplyEvent, Delta, Inv, TypeOK
      <4>2. e.z - row[e.order].z > 0 /\ booked[e.order] <= row[e.order].z
        BY <1>5, <3>5 DEF Books, Delta, Inv
      <4>. QED
        BY <1>5, <1>7, <2>1, <3>2, <3>3, <3>4, <4>1, <4>2
    <3>6. CASE ~Books(e)
      <4>1. booked'[e.order] = booked[e.order]
        BY <1>5, <1>7, <2>3, <3>6 DEF ApplyEvent, Inv, TypeOK
      <4>. QED
        BY <1>5, <1>7, <2>1, <3>2, <3>3, <3>4, <4>1
    <3>. QED
      BY <3>5, <3>6
  <2>. QED
    BY <2>2, <2>3 DEF Deliver
<1>9. \A i \in 1 .. n - 1 : i + 1 \in 1 .. n /\ 1 < i + 1 /\ 1 \in 1 .. n
  BY <1>1
<1>. HIDE DEF n
<1>10. StreamInOrder'
  <2>1. ASSUME NEW i \in 1 .. n - 1
        PROVE  /\ stream'[i].z <= exch[stream'[i].order].z
               /\ booked'[stream'[i].order] <= stream'[i].z
    <3>1. /\ stream'[i] = stream[i + 1] /\ i + 1 \in 1 .. n
          /\ stream[i + 1].z \in Nat /\ stream[i + 1].order \in Orders
      BY <1>2, <1>4, <1>9
    <3>2. /\ stream[i + 1].z <= exch[stream[i + 1].order].z
          /\ booked[stream[i + 1].order] <= stream[i + 1].z
      BY <3>1 DEF Inv, n
    <3>3. CASE stream[i + 1].order = e.order
      <4>1. stream[1].z <= stream[i + 1].z
        BY <1>2, <1>9, <3>1, <3>3 DEF Inv, n
      <4>. QED
        BY <1>2, <1>5, <1>8, <3>1, <3>2, <3>3, <4>1
    <3>4. CASE stream[i + 1].order # e.order
      BY <1>8, <3>1, <3>2, <3>4
    <3>. QED
      BY <3>3, <3>4
  <2>2. ASSUME NEW i \in 1 .. n - 1, NEW j \in 1 .. n - 1, i < j,
               stream'[i].order = stream'[j].order
        PROVE  stream'[i].z <= stream'[j].z
    <3>1. /\ i + 1 \in 1 .. n /\ j + 1 \in 1 .. n /\ i + 1 < j + 1
          /\ stream'[i] = stream[i + 1] /\ stream'[j] = stream[j + 1]
      BY <1>2, <1>9, <2>2
    <3>. QED
      BY <2>2, <3>1 DEF Inv, n
  <2>. QED
    BY <1>2, <1>6, <2>1, <2>2
<1>11. PastInOrder'
  <2>1. e.z <= exch[e.order].z
    BY <1>1, <1>2 DEF Inv, n
  <2>2. ASSUME NEW j \in 1 .. n - 1, e.order = stream'[j].order
        PROVE  e.z <= stream'[j].z
    <3>1. /\ j + 1 \in 1 .. n /\ 1 \in 1 .. n /\ 1 < j + 1
          /\ stream'[j] = stream[j + 1] /\ e = stream[1]
      BY <1>2, <1>9
    <3>. QED
      BY <2>2, <3>1 DEF Inv, n
  <2>3. Len(past') = 1 /\ past'[1] = e
    BY <1>3
  <2>4. \A i \in 1 .. Len(past') : i = 1
    BY <2>3
  <2>. QED
    BY <1>2, <1>6, <1>8, <2>1, <2>2, <2>3, <2>4
<1>12. RowsInOrder'
  BY <1>5, <1>6, <1>7, <1>8 DEF Inv
<1>. QED
  BY <1>10, <1>11, <1>12

(* Losing the first event, or seeing the last one again, keeps the order.  *)
LEMMA TransportInOrder ==
    ASSUME Inv, Lose \/ \E i \in 1 .. Len(past) : Repeat(i)
    PROVE  InOrder'
<1>1. /\ stream \in Seq(Event) /\ Len(stream) \in Nat
      /\ past \in Seq(Event) /\ Len(past) \in Nat
  BY DEF Inv, TypeOK
<1>2. CASE Lose
  <2>1. /\ Len(stream) > 0 /\ Len(stream') = Len(stream) - 1
        /\ \A i \in 1 .. Len(stream) - 1 : /\ stream'[i] = stream[i + 1]
                                           /\ i + 1 \in 1 .. Len(stream)
    BY <1>1, <1>2 DEF Lose
  <2>2. exch' = exch /\ past' = past /\ row' = row /\ booked' = booked
    BY <1>2 DEF Lose, world, money
  <2>. DEFINE n == Len(stream)
  <2>3. \A i, j \in 1 .. n - 1 : i < j => i + 1 < j + 1
    BY <1>1
  <2>4. StreamInOrder /\ PastInOrder /\ RowsInOrder
    BY DEF Inv
  <2>5. \A i \in 1 .. n - 1 : /\ stream'[i].z <= exch[stream'[i].order].z
                              /\ booked[stream'[i].order] <= stream'[i].z
    BY <2>1, <2>4
  <2>6. ASSUME NEW i \in 1 .. n - 1, NEW j \in 1 .. n - 1, i < j,
               stream'[i].order = stream'[j].order
        PROVE  stream'[i].z <= stream'[j].z
    BY <2>1, <2>3, <2>4, <2>6
  <2>7. ASSUME NEW i \in 1 .. Len(past), NEW j \in 1 .. n - 1,
               past[i].order = stream'[j].order
        PROVE  past[i].z <= stream'[j].z
    BY <2>1, <2>4, <2>7
  <2>. QED
    BY <2>1, <2>2, <2>4, <2>5, <2>6, <2>7
<1>3. ASSUME NEW i \in 1 .. Len(past), Repeat(i) PROVE InOrder'
  <2>1. i = 1
    BY <1>1 DEF Inv
  <2>2. /\ Len(stream') = Len(stream) + 1
        /\ stream'[1] = past[1]
        /\ \A k \in 1 .. Len(stream) : stream'[k + 1] = stream[k]
    BY <1>1, <1>3, <2>1 DEF Repeat
  <2>3. exch' = exch /\ past' = past /\ row' = row /\ booked' = booked
    BY <1>3 DEF Repeat, world, money
  <2>4. \A k \in 2 .. Len(stream') : /\ k - 1 \in 1 .. Len(stream)
                                     /\ stream'[k] = stream[k - 1]
    BY <1>1, <2>2
  <2>5. \A k \in 1 .. Len(stream') : k = 1 \/ k \in 2 .. Len(stream')
    BY <1>1, <2>2
  <2>6. 1 \in 1 .. Len(past)
    BY <2>1
  <2>7. \A k \in 1 .. Len(past) : k = 1
    BY <1>1 DEF Inv
  <2>8. past[1].z \in Nat
    BY <1>1, <2>6, EventFields
  <2>. DEFINE m == Len(stream')
  <2>9. m \in Nat /\ 1 \in 1 .. m
    BY <1>1, <2>2
  <2>10. StreamInOrder /\ PastInOrder /\ RowsInOrder
    BY DEF Inv
  <2>. HIDE DEF m
  <2>11. ASSUME NEW k \in 1 .. m
         PROVE  /\ stream'[k].z <= exch[stream'[k].order].z
                /\ booked[stream'[k].order] <= stream'[k].z
                /\ past[1].order = stream'[k].order => past[1].z <= stream'[k].z
    <3>1. CASE k = 1
      BY <2>2, <2>6, <2>8, <2>10, <3>1
    <3>2. CASE k \in 2 .. m
      BY <2>4, <2>6, <2>10, <3>2 DEF m
    <3>. QED
      BY <2>5, <3>1, <3>2 DEF m
  <2>12. ASSUME NEW k \in 1 .. m, NEW j \in 1 .. m, k < j,
                stream'[k].order = stream'[j].order
         PROVE  stream'[k].z <= stream'[j].z
    <3>1. CASE k = 1
      BY <2>2, <2>11, <2>12, <3>1
    <3>2. CASE k \in 2 .. m
      <4>1. j \in 2 .. m /\ k - 1 < j - 1
        BY <2>9, <2>12, <3>2
      <4>. QED
        BY <2>4, <2>10, <2>12, <3>2, <4>1 DEF m
    <3>. QED
      BY <2>5, <3>1, <3>2 DEF m
  <2>13. StreamInOrder'
    BY <2>3, <2>11, <2>12 DEF m
  <2>14. PastInOrder'
    BY <2>3, <2>7, <2>10, <2>11 DEF m
  <2>. QED
    BY <2>3, <2>10, <2>13, <2>14
<1>. QED
  BY <1>2, <1>3

(* A repair raises executed_qty to what the exchange executed, or leaves it. *)
LEMMA RepairInOrder ==
    ASSUME Inv, Repair
    PROVE  InOrder'
<1>1. PICK old, probed, answered : RepairOrphanDbOrders(old, probed, answered)
  BY DEF Repair
<1>2. exch' = exch /\ stream' = stream /\ past' = past /\ booked' = booked
  BY <1>1 DEF RepairOrphanDbOrders, world, money
<1>3. \A o \in Orders : row'[o].z = row[o].z \/ row'[o].z = exch[o].z
  BY <1>1 DEF RepairOrphanDbOrders, Repaired, Inv, TypeOK, Fills
<1>4. \A o \in Orders : /\ exch[o].z \in Nat /\ row[o].z \in Nat
                        /\ booked[o] \in Nat
  BY DEF Inv, TypeOK, Fills
<1>. QED
  BY <1>2, <1>3, <1>4 DEF Inv

LEMMA NextInOrder == Inv /\ RepeatOld = FALSE /\ [Next]_vars => InOrder'
<1>. SUFFICES ASSUME Inv, RepeatOld = FALSE, [Next]_vars PROVE InOrder'
  OBVIOUS
<1>1. ASSUME NEW o \in Orders, Accept(o) \/ Cancel(o) PROVE InOrder'
  <2>1. exch[o] \in Fills
    BY DEF Inv, TypeOK
  <2>3. CASE Accept(o)
    <3>. DEFINE f == [exch[o] EXCEPT !.status = "NEW"]
    <3>1. f \in Fills /\ f.z = exch[o].z /\ exch[o].z \in Nat
      BY <2>1 DEF Fills
    <3>2. Report(o, f) /\ f.z >= exch[o].z
      BY <2>3, <3>1 DEF Accept
    <3>. QED
      BY <3>1, <3>2, ReportInOrder
  <2>4. CASE Cancel(o)
    <3>. DEFINE f == [exch[o] EXCEPT !.status = "CANCELED"]
    <3>1. f \in Fills /\ f.z = exch[o].z /\ exch[o].z \in Nat
      BY <2>1 DEF Fills
    <3>2. Report(o, f) /\ f.z >= exch[o].z
      BY <2>4, <3>1 DEF Cancel
    <3>. QED
      BY <3>1, <3>2, ReportInOrder
  <2>. QED
    BY <1>1, <2>3, <2>4
<1>2. ASSUME NEW o \in Orders, NEW q \in 1 .. OrderQty, NEW p \in Prices,
             Trade(o, q, p)
      PROVE  InOrder'
  <2>1. PICK f \in Fills : f.z = exch[o].z + q /\ Report(o, f)
    BY <1>2, TradeFills DEF Inv
  <2>2. exch[o].z \in Nat
    BY DEF Inv, TypeOK, Fills
  <2>. QED
    BY <2>1, <2>2, ReportInOrder
<1>3. ASSUME NEW o \in Orders, CreateRow(o) PROVE InOrder'
  <2>1. \A k \in Orders : row'[k].z = row[k].z
    BY <1>3 DEF CreateRow, Inv, TypeOK, Fills
  <2>2. exch' = exch /\ stream' = stream /\ past' = past /\ booked' = booked
    BY <1>3 DEF CreateRow, world, money
  <2>. QED
    BY <2>1, <2>2 DEF Inv
<1>4. CASE Deliver
  BY <1>4, DeliverInOrder
<1>5. CASE Lose \/ \E i \in 1 .. Len(past) : Repeat(i)
  BY <1>5, TransportInOrder
<1>6. CASE Repair
  BY <1>6, RepairInOrder
<1>7. CASE UNCHANGED vars
  BY <1>7 DEF vars, world, money, Inv
<1>. QED
  BY <1>1, <1>2, <1>3, <1>4, <1>5, <1>6, <1>7 DEF Next

(* A stream that repeats its last event only keeps every order's events in *)
(* order and never behind what is booked (the inductive invariant).        *)
THEOREM AlwaysInOrder == RepeatOld = FALSE => (Spec => []LedgerInv)
<1>. SUFFICES ASSUME RepeatOld = FALSE PROVE Spec => []LedgerInv
  OBVIOUS
<1>1. Init => Inv
  BY InitTyped, InitInOrder DEF Inv
<1>2. Inv /\ [Next]_vars => Inv'
  BY NextTyped, NextInOrder DEF Inv
<1>3. Inv => LedgerInv
  BY DEF Inv, LedgerInv
<1>. QED
  BY <1>1, <1>2, <1>3, PTL DEF Spec

(* No order ever has more units booked than the exchange executed: the     *)
(* delta of handle_order_trade_update books each unit at most once.        *)
THEOREM BookedAtMostOnce == RepeatOld = FALSE => (Spec => []NeverBookedTwice)
<1>. SUFFICES ASSUME RepeatOld = FALSE PROVE Spec => []NeverBookedTwice
  OBVIOUS
<1>1. Init => Inv
  BY InitTyped, InitInOrder DEF Inv
<1>2. Inv /\ [Next]_vars => Inv'
  BY NextTyped, NextInOrder DEF Inv
<1>3. Inv => NeverBookedTwice
  <2>1. TypeOK => \A o \in Orders : /\ exch[o].z \in Nat /\ row[o].z \in Nat
                                    /\ booked[o] \in Nat
    BY DEF TypeOK, Fills
  <2>. QED
    BY <2>1 DEF Inv, NeverBookedTwice
<1>. QED
  BY <1>1, <1>2, <1>3, PTL DEF Spec
-----------------------------------------------------------------------------
(* An execution step of the exchange is a step of FillLedger.              *)
LEMMA TradeExecutes ==
    ASSUME Inv, NEW o \in Orders, NEW q \in 1 .. OrderQty, NEW p \in Prices,
           Trade(o, q, p)
    PROVE  AtMostOnce!Execute(o)
<1>1. PICK f \in Fills : f.z = exch[o].z + q /\ Report(o, f)
  BY TradeFills DEF Inv
<1>2. exch[o].z \in Nat /\ q \in Nat /\ q > 0
  BY Quantities DEF Inv
<1>3. exch' = [exch EXCEPT ![o] = f] /\ exch \in [Orders -> Fills]
  BY <1>1 DEF Report, Inv, TypeOK
<1>4. Filled'[o] = f.z /\ \A k \in Orders \ {o} : Filled'[k] = Filled[k]
  BY <1>3 DEF Filled
<1>5. Filled' = [Filled EXCEPT ![o] = Filled'[o]]
  BY <1>4 DEF Filled
<1>6. Filled'[o] \in Nat /\ Filled'[o] > Filled[o]
  BY <1>1, <1>2, <1>4 DEF Filled
<1>7. booked' = booked
  BY <1>1 DEF Report, money
<1>. QED
  BY <1>5, <1>6, <1>7 DEF AtMostOnce!Execute

(* A delivery books units the exchange executed and that were not booked.  *)
LEMMA DeliverBooks ==
    ASSUME Inv, Deliver, Head(stream).order \in Orders,
           booked'[Head(stream).order] <= exch[Head(stream).order].z
    PROVE  (\E o \in Orders : AtMostOnce!Book(o))
           \/ UNCHANGED <<Filled, booked>>
<1>. DEFINE e == Head(stream)
           o == e.order
<1>1. exch' = exch
  BY DEF Deliver, world
<1>2. Filled' = Filled
  BY <1>1 DEF Filled
<1>3. CASE DropUnmatched(e)
  BY <1>2, <1>3 DEF DropUnmatched, money
<1>4. CASE ApplyEvent(e) /\ ~Books(e)
  <2>1. booked \in [Orders -> Nat]
    BY DEF Inv, TypeOK
  <2>2. booked' = [booked EXCEPT ![o] = booked[o] + 0]
    BY <1>4 DEF ApplyEvent
  <2>3. booked' = booked
    BY <2>1, <2>2
  <2>. QED
    BY <1>2, <2>3
<1>5. CASE ApplyEvent(e) /\ Books(e)
  <2>1. booked \in [Orders -> Nat] /\ booked[o] \in Nat /\ exch[o].z \in Nat
    BY Quantities DEF Inv, TypeOK
  <2>2. booked' = [booked EXCEPT ![o] = booked[o] + Delta(e)]
    BY <1>5 DEF ApplyEvent
  <2>3. Delta(e) > 0 /\ Delta(e) \in Int
    <3>1. stream \in Seq(Event) /\ stream # <<>>
      BY DEF Inv, TypeOK, Deliver
    <3>2. e = stream[1] /\ 1 \in 1 .. Len(stream)
      BY <3>1
    <3>3. e.z \in Nat /\ row[e.order].z \in Nat
      BY <3>1, <3>2, EventFields, Quantities DEF Inv
    <3>. QED
      BY <1>5, <3>3 DEF Books, Delta
  <2>4. booked'[o] = booked[o] + Delta(e)
    BY <2>1, <2>2
  <2>5. booked' = [booked EXCEPT ![o] = booked'[o]]
    BY <2>2, <2>4
  <2>6. booked'[o] <= Filled[o] /\ Filled[o] \in Nat
    BY <2>1 DEF Filled
  <2>7. booked'[o] \in booked[o] + 1 .. Filled[o]
    BY <2>1, <2>3, <2>4, <2>6
  <2>8. AtMostOnce!Book(o)
    BY <1>2, <2>5, <2>7 DEF AtMostOnce!Book
  <2>. QED
    BY <2>8
<1>. QED
  BY <1>3, <1>4, <1>5 DEF Deliver

LEMMA StepRefines ==
    ASSUME Inv, Inv', [Next]_vars
    PROVE  [AtMostOnce!Next]_<<Filled, booked>>
<1>1. exch \in [Orders -> Fills]
  BY DEF Inv, TypeOK
<1>2. ASSUME NEW o \in Orders, Accept(o) \/ Cancel(o)
      PROVE  UNCHANGED <<Filled, booked>>
  <2>1. PICK f \in Fills : f.z = exch[o].z /\ Report(o, f)
    <3>1. exch[o] \in Fills
      BY <1>1
    <3>2. CASE Accept(o)
      <4>1. /\ [exch[o] EXCEPT !.status = "NEW"] \in Fills
            /\ [exch[o] EXCEPT !.status = "NEW"].z = exch[o].z
        BY <3>1 DEF Fills
      <4>. QED
        BY <3>2, <4>1 DEF Accept
    <3>3. CASE Cancel(o)
      <4>1. /\ [exch[o] EXCEPT !.status = "CANCELED"] \in Fills
            /\ [exch[o] EXCEPT !.status = "CANCELED"].z = exch[o].z
        BY <3>1 DEF Fills
      <4>. QED
        BY <3>3, <4>1 DEF Cancel
    <3>. QED
      BY <1>2, <3>2, <3>3
  <2>2. \A k \in Orders : exch'[k].z = exch[k].z
    BY <1>1, <2>1 DEF Report
  <2>. QED
    BY <2>1, <2>2 DEF Filled, Report, money
<1>3. ASSUME NEW o \in Orders, NEW q \in 1 .. OrderQty, NEW p \in Prices,
             Trade(o, q, p)
      PROVE  AtMostOnce!Next
  BY <1>3, TradeExecutes DEF AtMostOnce!Next
<1>4. ASSUME NEW o \in Orders, CreateRow(o)
      PROVE  UNCHANGED <<Filled, booked>>
  BY <1>4 DEF CreateRow, world, money, Filled
<1>5. CASE Deliver
  <2>1. stream \in Seq(Event) /\ stream # <<>>
    BY <1>5 DEF Inv, TypeOK, Deliver
  <2>2. Head(stream) = stream[1] /\ 1 \in 1 .. Len(stream)
    BY <2>1
  <2>3. Head(stream).order \in Orders
    BY <2>1, <2>2, EventFields
  <2>4. /\ \A k \in Orders : booked'[k] <= row'[k].z /\ row'[k].z <= exch'[k].z
        /\ \A k \in Orders : /\ exch'[k].z \in Nat /\ row'[k].z \in Nat
                             /\ booked'[k] \in Nat
    <3>1. TypeOK' /\ RowsInOrder'
      BY DEF Inv
    <3>2. \A k \in Orders : /\ exch'[k].z \in Nat /\ row'[k].z \in Nat
                            /\ booked'[k] \in Nat
      BY <3>1 DEF TypeOK, Fills
    <3>. QED
      BY <3>1, <3>2
  <2>5. \A k \in Orders : booked'[k] <= exch'[k].z
    BY <2>4
  <2>6. exch' = exch
    BY <1>5 DEF Deliver, world
  <2>. QED
    BY <1>5, <2>3, <2>5, <2>6, DeliverBooks DEF AtMostOnce!Next
<1>6. CASE Lose \/ \E i \in 1 .. Len(past) : Repeat(i)
  BY <1>6 DEF Lose, Repeat, world, money, Filled
<1>7. CASE Repair
  BY <1>7 DEF Repair, RepairOrphanDbOrders, world, money, Filled
<1>8. CASE UNCHANGED vars
  BY <1>8 DEF vars, world, money, Filled
<1>. QED
  BY <1>2, <1>3, <1>4, <1>5, <1>6, <1>7, <1>8 DEF Next

(* The ledger implements FillLedger: every step of stream, repair and      *)
(* exchange executes units, books units not booked before, or does neither.*)
THEOREM ImplementsFillLedger == RepeatOld = FALSE => (Spec => BooksAtMostOnce)
<1>. SUFFICES ASSUME RepeatOld = FALSE PROVE Spec => BooksAtMostOnce
  OBVIOUS
<1>1. Init => Inv
  BY InitTyped, InitInOrder DEF Inv
<1>2. Inv /\ [Next]_vars => Inv'
  BY NextTyped, NextInOrder DEF Inv
<1>3. Init => AtMostOnce!Init
  BY DEF Init, Nothing, Filled, AtMostOnce!Init
<1>4. Inv /\ Inv' /\ [Next]_vars => [AtMostOnce!Next]_<<Filled, booked>>
  BY StepRefines
<1>. QED
  BY <1>1, <1>2, <1>3, <1>4, PTL DEF Spec, BooksAtMostOnce, AtMostOnce!Spec
-----------------------------------------------------------------------------
(***************************************************************************)
(* What is called CANCELED was cancelled by the exchange, which never      *)
(* takes it back; a repair that may look up every row calls no other so.   *)
(***************************************************************************)
CancelsAreReal ==
    /\ \A o \in Orders : row[o].status = "CANCELED" => exch[o].status = "CANCELED"
    /\ \A i \in 1 .. Len(stream) :
          stream[i].status = "CANCELED" => exch[stream[i].order].status = "CANCELED"
    /\ \A i \in 1 .. Len(past) :
          past[i].status = "CANCELED" => exch[past[i].order].status = "CANCELED"

(* The exchange reports on an order that it has not cancelled.             *)
Reports(o) == Accept(o) \/ Cancel(o) \/ \E q \in 1 .. OrderQty, p \in Prices : Trade(o, q, p)

LEMMA WhatIsReported ==
    ASSUME TypeOK, NEW o \in Orders, Reports(o)
    PROVE  \E f \in Fills :
              /\ Report(o, f) /\ f.status # NoOrder
              /\ exch[o].status # "CANCELED"
              /\ f.status = "NEW" => exch[o].status = NoOrder /\ f.z = exch[o].z
<1>1. exch[o] \in Fills
  BY DEF TypeOK
<1>2. CASE Accept(o)
  <2>1. /\ [exch[o] EXCEPT !.status = "NEW"] \in Fills
        /\ [exch[o] EXCEPT !.status = "NEW"].status = "NEW"
        /\ [exch[o] EXCEPT !.status = "NEW"].z = exch[o].z
    BY <1>1, WithStatus
  <2>. QED
    BY <1>2, <2>1 DEF Accept
<1>3. CASE Cancel(o)
  <2>1. /\ [exch[o] EXCEPT !.status = "CANCELED"] \in Fills
        /\ [exch[o] EXCEPT !.status = "CANCELED"].status = "CANCELED"
    BY <1>1, WithStatus
  <2>. QED
    BY <1>3, <2>1 DEF Cancel
<1>4. ASSUME NEW q \in 1 .. OrderQty, NEW p \in Prices, Trade(o, q, p)
      PROVE  \E f \in Fills :
                Report(o, f) /\ f.status \in {"FILLED", "PARTIALLY_FILLED"}
  <2>. DEFINE f == [status   |-> IF exch[o].z + q = OrderQty THEN "FILLED"
                                 ELSE "PARTIALLY_FILLED",
                    z        |-> exch[o].z + q,
                    notional |-> exch[o].notional + q * p]
  <2>1. exch[o].z \in Nat /\ exch[o].notional \in Nat /\ q \in Nat /\ p \in Nat
    BY <1>1, FillFields
  <2>2. f \in Fills
    BY <2>1 DEF Fills
  <2>3. Report(o, f)
    BY <1>4 DEF Trade
  <2>4. f.status \in {"FILLED", "PARTIALLY_FILLED"}
    OBVIOUS
  <2>. HIDE DEF f
  <2>. QED
    BY <2>2, <2>3, <2>4
<1>5. (\E q \in 1 .. OrderQty, p \in Prices : Trade(o, q, p)) => exch[o].status # "CANCELED"
  BY DEF Trade
<1>. QED
  BY <1>2, <1>3, <1>4, <1>5 DEF Reports

LEMMA ReportAppends ==
    ASSUME TypeOK, NEW o \in Orders, NEW f \in Fills, Report(o, f)
    PROVE  /\ Len(stream) \in Nat /\ Len(stream') = Len(stream) + 1
           /\ stream'[Len(stream) + 1] = EventOf(o, f)
           /\ \A i \in 1 .. Len(stream) : stream'[i] = stream[i]
           /\ exch'[o] = f /\ \A k \in Orders \ {o} : exch'[k] = exch[k]
BY DEF TypeOK, Report

LEMMA HeadAndTail ==
    ASSUME TypeOK, stream # <<>>
    PROVE  /\ Len(stream) \in Nat /\ Head(stream) = stream[1] /\ 1 \in 1 .. Len(stream)
           /\ Head(stream) \in Event /\ Head(stream).order \in Orders
           /\ Len(Tail(stream)) = Len(stream) - 1
           /\ \A i \in 1 .. Len(stream) - 1 : /\ Tail(stream)[i] = stream[i + 1]
                                              /\ i + 1 \in 1 .. Len(stream)
<1>1. stream \in Seq(Event)
  BY DEF TypeOK
<1>2. Head(stream) \in Event
  BY <1>1
<1>. QED
  BY <1>1, <1>2 DEF Event

(* A repair with enough look-ups asks for every row it changes.            *)
LEMMA RepairAsks ==
    ASSUME TypeOK, Cardinality(Orders) <= ProbeBudget, Repair, NEW o \in Orders
    PROVE  row'[o].status = "CANCELED" => row[o] = row'[o] \/ exch[o].status = "CANCELED"
<1>1. PICK old \in SUBSET Stale : \E probed \in SUBSET old : \E answered \in SUBSET probed :
             RepairOrphanDbOrders(old, probed, answered)
  BY DEF Repair
<1>2. PICK probed \in SUBSET old : \E answered \in SUBSET probed :
             RepairOrphanDbOrders(old, probed, answered)
  BY <1>1
<1>3. PICK answered \in SUBSET probed : RepairOrphanDbOrders(old, probed, answered)
  BY <1>2
<1>4. old \subseteq Orders /\ IsFiniteSet(old) /\ Cardinality(old) <= Cardinality(Orders)
  BY FS_Subset DEF Stale
<1>5. Cardinality(old) \in Nat /\ Cardinality(Orders) \in Nat
  BY <1>4, FS_CardinalityType
<1>6. Cardinality(probed) = Cardinality(old)
  BY <1>3, <1>4, <1>5 DEF RepairOrphanDbOrders
<1>7. probed = old
  BY <1>4, <1>6, FS_Subset
<1>8. row'[o] = row[o] \/ (o \in old /\ row'[o] = Repaired(o, probed))
  BY <1>3 DEF RepairOrphanDbOrders
<1>9. o \in old => exch[o].status \in FinalStatus
  BY DEF Stale
<1>. QED
  BY <1>7, <1>8, <1>9 DEF Repaired

LEMMA CancelsStep ==
    ASSUME TypeOK, CancelsAreReal, [Next]_vars,
           Cardinality(Orders) <= ProbeBudget \/ ~ WithRepair
    PROVE  CancelsAreReal'
<1>1. ASSUME NEW o \in Orders, Reports(o)
      PROVE  CancelsAreReal'
  <2>1. PICK f \in Fills : Report(o, f) /\ exch[o].status # "CANCELED"
    BY <1>1, WhatIsReported
  <2>2. row' = row /\ past' = past
    BY <2>1 DEF Report
  <2>3. \A k \in Orders : exch[k].status = "CANCELED" => exch'[k].status = "CANCELED"
    BY <2>1, ReportAppends
  <2>4. EventOf(o, f).order = o /\ EventOf(o, f).status = f.status
    BY DEF EventOf
  <2>5. \A i \in 1 .. Len(stream) : stream[i].order \in Orders
    BY EventFields DEF TypeOK
  <2>6. \A i \in 1 .. Len(past) : past[i].order \in Orders
    BY EventFields DEF TypeOK
  <2>7. \A i \in 1 .. Len(stream') : i \in 1 .. Len(stream) \/ i = Len(stream) + 1
    BY <2>1, ReportAppends
  <2>8. exch'[o] = f /\ stream'[Len(stream) + 1] = EventOf(o, f)
    BY <2>1, ReportAppends
  <2>9. \A i \in 1 .. Len(stream) : stream'[i] = stream[i]
    BY <2>1, ReportAppends
  <2>10. ASSUME NEW i \in 1 .. Len(stream'), stream'[i].status = "CANCELED"
         PROVE  exch'[stream'[i].order].status = "CANCELED"
    <3>1. CASE i = Len(stream) + 1
      BY <2>4, <2>8, <2>10, <3>1
    <3>2. CASE i \in 1 .. Len(stream)
      BY <2>3, <2>5, <2>9, <2>10, <3>2 DEF CancelsAreReal
    <3>. QED
      BY <2>7, <3>1, <3>2
  <2>11. \A k \in Orders : row'[k].status = "CANCELED" => exch'[k].status = "CANCELED"
    BY <2>2, <2>3 DEF CancelsAreReal
  <2>12. \A i \in 1 .. Len(past') :
            past'[i].status = "CANCELED" => exch'[past'[i].order].status = "CANCELED"
    BY <2>2, <2>3, <2>6 DEF CancelsAreReal
  <2>. QED
    BY <2>10, <2>11, <2>12 DEF CancelsAreReal
<1>2. ASSUME NEW o \in Orders, CreateRow(o)
      PROVE  CancelsAreReal'
  <2>1. \A k \in Orders : row'[k].status = "CANCELED" => row[k].status = "CANCELED"
    BY <1>2 DEF CreateRow, TypeOK, Fills
  <2>. QED
    BY <1>2, <2>1 DEF CreateRow, world, CancelsAreReal
<1>3. CASE Deliver
  <2>. DEFINE e == Head(stream)
  <2>1. stream # <<>> /\ stream' = Tail(stream) /\ exch' = exch
    BY <1>3 DEF Deliver, world
  <2>2. e.status = "CANCELED" => exch[e.order].status = "CANCELED"
    BY <2>1, HeadAndTail DEF CancelsAreReal
  <2>3. \A i \in 1 .. Len(past') : past'[i] = e \/ \E j \in 1 .. Len(past) : past[j] = past'[i]
    <3>1. past \in Seq(Event) /\ e \in Event
      BY <2>1, HeadAndTail DEF TypeOK
    <3>2. past' = Append(past, e) \/ past' = <<e>>
      BY <1>3 DEF Deliver
    <3>. QED
      BY <3>1, <3>2
  <2>4. \A k \in Orders : row'[k].status = "CANCELED" =>
            row'[k] = row[k] \/ (k = e.order /\ e.status = "CANCELED")
    <3>1. CASE DropUnmatched(e)
      BY <3>1 DEF DropUnmatched
    <3>2. CASE ApplyEvent(e)
      BY <3>2 DEF ApplyEvent, TypeOK
    <3>. QED
      BY <1>3, <3>1, <3>2 DEF Deliver
  <2>5. \A i \in 1 .. Len(stream') : stream'[i].status = "CANCELED"
                                        => exch[stream'[i].order].status = "CANCELED"
    BY <2>1, HeadAndTail DEF CancelsAreReal
  <2>. HIDE DEF e
  <2>6. \A k \in Orders : row'[k].status = "CANCELED" => exch'[k].status = "CANCELED"
    BY <2>1, <2>2, <2>4 DEF CancelsAreReal
  <2>7. ASSUME NEW i \in 1 .. Len(past'), past'[i].status = "CANCELED"
        PROVE  exch'[past'[i].order].status = "CANCELED"
    <3>1. CASE past'[i] = e
      BY <2>1, <2>2, <2>7, <3>1
    <3>2. ASSUME NEW j \in 1 .. Len(past), past[j] = past'[i]
          PROVE  exch[past'[i].order].status = "CANCELED"
      BY <2>7, <3>2 DEF CancelsAreReal
    <3>. QED
      BY <2>1, <2>3, <3>1, <3>2
  <2>. QED
    BY <2>1, <2>5, <2>6, <2>7 DEF CancelsAreReal
<1>4. CASE Lose
  <2>1. /\ stream # <<>> /\ stream' = Tail(stream)
        /\ exch' = exch /\ past' = past /\ row' = row
    BY <1>4 DEF Lose, world
  <2>. QED
    BY <2>1, HeadAndTail DEF CancelsAreReal
<1>5. ASSUME NEW i \in 1 .. Len(past), Repeat(i)
      PROVE  CancelsAreReal'
  <2>1. /\ stream' = <<past[i]>> \o stream
        /\ exch' = exch /\ past' = past /\ row' = row
    BY <1>5 DEF Repeat, world
  <2>2. \A k \in 1 .. Len(stream') : stream'[k] = past[i]
                                        \/ \E j \in 1 .. Len(stream) : stream'[k] = stream[j]
    <3>1. stream \in Seq(Event) /\ past[i] \in Event
      BY DEF TypeOK
    <3>. QED
      BY <2>1, <3>1
  <2>. QED
    BY <2>1, <2>2 DEF CancelsAreReal
<1>6. CASE Repair
  <2>1. WithRepair /\ exch' = exch /\ stream' = stream /\ past' = past
    BY <1>6 DEF Repair, RepairOrphanDbOrders, world
  <2>2. \A o \in Orders : row'[o].status = "CANCELED" =>
                             row[o] = row'[o] \/ exch[o].status = "CANCELED"
    BY <1>6, <2>1, RepairAsks
  <2>. QED
    BY <2>1, <2>2 DEF CancelsAreReal
<1>7. CASE UNCHANGED vars
  BY <1>7 DEF vars, world, CancelsAreReal
<1>. QED
  BY <1>1, <1>2, <1>3, <1>4, <1>5, <1>6, <1>7 DEF Next, Reports

LEMMA InitCancels == Init => CancelsAreReal
BY DEF Init, Nothing, CancelsAreReal

(* No row is marked CANCELED whose order was not, whatever is lost, late   *)
(* or repeated, as long as a repair pass may look up every row.            *)
THEOREM CanceledRowsAreReal ==
    ASSUME Cardinality(Orders) <= ProbeBudget
    PROVE  Spec => []CanceledIsReal
<1>1. TypeOK /\ CancelsAreReal /\ [Next]_vars => TypeOK' /\ CancelsAreReal'
  BY NextTyped, CancelsStep
<1>2. CancelsAreReal => CanceledIsReal
  BY DEF CancelsAreReal, CanceledIsReal
<1>. QED
  BY <1>1, <1>2, InitTyped, InitCancels, PTL DEF Spec
-----------------------------------------------------------------------------
(***************************************************************************)
(* A row that is not CANCELED has all that it shows booked: no report of   *)
(* an acceptance has a quantity, and no other follows a cancellation.      *)
(***************************************************************************)
NewIsEmpty ==
    /\ \A o \in Orders : exch[o].status = NoOrder => exch[o].z = 0
    /\ \A i \in 1 .. Len(stream) : stream[i].status = "NEW" => stream[i].z = 0
    /\ \A i \in 1 .. Len(past) : past[i].status = "NEW" => past[i].z = 0

CanceledIsLast ==
    /\ \A i, j \in 1 .. Len(stream) :
          i < j /\ stream[i].order = stream[j].order /\ stream[i].status = "CANCELED"
             => stream[j].status = "CANCELED"
    /\ \A i \in 1 .. Len(past) : \A j \in 1 .. Len(stream) :
          past[i].order = stream[j].order /\ past[i].status = "CANCELED"
             => stream[j].status = "CANCELED"
    /\ \A o \in Orders : row[o].status = "CANCELED" =>
          /\ \A j \in 1 .. Len(stream) : stream[j].order = o => stream[j].status = "CANCELED"
          /\ \A i \in 1 .. Len(past) : past[i].order = o => past[i].status = "CANCELED"

ShownIsBooked == \A o \in Orders : row[o].status # "CANCELED" => booked[o] = row[o].z

(* No report, no repair: the stream moves or a row is made.                *)
LEMMA OtherSteps ==
    ASSUME [Next]_vars, ~ WithRepair
    PROVE  \/ \E o \in Orders : Reports(o) \/ CreateRow(o)
           \/ Deliver \/ Lose \/ (\E i \in 1 .. Len(past) : Repeat(i))
           \/ UNCHANGED <<exch, stream, past, row, booked>>
BY DEF Next, Reports, Repair, RepairOrphanDbOrders, vars, world, money

LEMMA EmptyStep ==
    ASSUME TypeOK, NewIsEmpty, [Next]_vars, RepeatOld = FALSE, ~ WithRepair
    PROVE  NewIsEmpty'
<1>1. ASSUME NEW o \in Orders, Reports(o)
      PROVE  NewIsEmpty'
  <2>1. PICK f \in Fills : /\ Report(o, f) /\ f.status # NoOrder
                           /\ f.status = "NEW" => exch[o].status = NoOrder /\ f.z = exch[o].z
    BY <1>1, WhatIsReported
  <2>2. f.status = "NEW" => f.z = 0
    BY <2>1 DEF NewIsEmpty
  <2>3. EventOf(o, f).z = f.z /\ EventOf(o, f).status = f.status
    BY DEF EventOf
  <2>4. \A i \in 1 .. Len(stream') : i \in 1 .. Len(stream) \/ i = Len(stream) + 1
    BY <2>1, ReportAppends
  <2>5. past' = past
    BY <2>1 DEF Report
  <2>6. exch'[o] = f /\ \A k \in Orders \ {o} : exch'[k] = exch[k]
    BY <2>1, ReportAppends
  <2>7. /\ stream'[Len(stream) + 1] = EventOf(o, f)
        /\ \A i \in 1 .. Len(stream) : stream'[i] = stream[i]
    BY <2>1, ReportAppends
  <2>8. \A k \in Orders : exch'[k].status = NoOrder => exch'[k].z = 0
    BY <2>1, <2>6 DEF NewIsEmpty
  <2>9. \A i \in 1 .. Len(stream') : stream'[i].status = "NEW" => stream'[i].z = 0
    BY <2>2, <2>3, <2>4, <2>7 DEF NewIsEmpty
  <2>. QED
    BY <2>5, <2>8, <2>9 DEF NewIsEmpty
<1>2. CASE Deliver
  <2>1. stream # <<>> /\ stream' = Tail(stream) /\ exch' = exch /\ past' = <<Head(stream)>>
    BY <1>2 DEF Deliver, world
  <2>2. \A i \in 1 .. Len(stream') : stream'[i].status = "NEW" => stream'[i].z = 0
    BY <2>1, HeadAndTail DEF NewIsEmpty
  <2>3. Len(past') = 1 /\ past'[1] = stream[1] /\ 1 \in 1 .. Len(stream)
    BY <2>1, HeadAndTail
  <2>4. \A i \in 1 .. Len(past') : past'[i].status = "NEW" => past'[i].z = 0
    BY <2>3 DEF NewIsEmpty
  <2>. QED
    BY <2>1, <2>2, <2>4 DEF NewIsEmpty
<1>3. CASE Lose
  <2>1. stream # <<>> /\ stream' = Tail(stream) /\ exch' = exch /\ past' = past
    BY <1>3 DEF Lose, world
  <2>. QED
    BY <2>1, HeadAndTail DEF NewIsEmpty
<1>4. ASSUME NEW i \in 1 .. Len(past), Repeat(i)
      PROVE  NewIsEmpty'
  <2>1. stream' = <<past[i]>> \o stream /\ exch' = exch /\ past' = past
    BY <1>4 DEF Repeat, world
  <2>2. \A k \in 1 .. Len(stream') : stream'[k] = past[i]
                                        \/ \E j \in 1 .. Len(stream) : stream'[k] = stream[j]
    <3>1. stream \in Seq(Event) /\ past[i] \in Event
      BY DEF TypeOK
    <3>. QED
      BY <2>1, <3>1
  <2>. QED
    <3>1. past[i].status = "NEW" => past[i].z = 0
      BY DEF NewIsEmpty
    <3>2. \A k \in 1 .. Len(stream') : stream'[k].status = "NEW" => stream'[k].z = 0
      BY <2>2, <3>1 DEF NewIsEmpty
    <3>. QED
      BY <2>1, <3>2 DEF NewIsEmpty
<1>5. ASSUME NEW o \in Orders, CreateRow(o)
      PROVE  NewIsEmpty'
  BY <1>5 DEF CreateRow, world, NewIsEmpty
<1>6. CASE UNCHANGED <<exch, stream, past, row, booked>>
  BY <1>6 DEF NewIsEmpty
<1>. QED
  BY <1>1, <1>2, <1>3, <1>4, <1>5, <1>6, OtherSteps

LEMMA LastStep ==
    ASSUME Inv, CancelsAreReal, CanceledIsLast, [Next]_vars, RepeatOld = FALSE, ~ WithRepair
    PROVE  CanceledIsLast'
<1>. DEFINE n == Len(stream)
<1>1. ASSUME NEW o \in Orders, Reports(o)
      PROVE  CanceledIsLast'
  <2>1. PICK f \in Fills : Report(o, f) /\ exch[o].status # "CANCELED"
    BY <1>1, WhatIsReported DEF Inv
  <2>2. row' = row /\ past' = past
    BY <2>1 DEF Report
  <2>3. /\ n \in Nat /\ Len(stream') = n + 1 /\ stream'[n + 1].order = o
        /\ \A i \in 1 .. n : stream'[i] = stream[i]
    <3>1. EventOf(o, f).order = o
      BY DEF EventOf
    <3>. QED
      BY <2>1, <3>1, ReportAppends DEF Inv
  <2>4. /\ row[o].status # "CANCELED"
        /\ \A i \in 1 .. n : stream[i].order = o => stream[i].status # "CANCELED"
        /\ \A i \in 1 .. Len(past) : past[i].order = o => past[i].status # "CANCELED"
    BY <2>1 DEF CancelsAreReal
  <2>. HIDE DEF n
  <2>5. \A i \in 1 .. n + 1 : i \in 1 .. n \/ i = n + 1
    BY <2>3
  <2>6. \A i, j \in 1 .. n + 1 : i < j => i \in 1 .. n
    BY <2>3
  <2>7. \A i, j \in 1 .. n + 1 :
            i < j /\ stream'[i].order = stream'[j].order /\ stream'[i].status = "CANCELED"
               => stream'[j].status = "CANCELED"
    BY <2>3, <2>4, <2>5, <2>6 DEF CanceledIsLast, n
  <2>8. \A i \in 1 .. Len(past) : \A j \in 1 .. n + 1 :
            past[i].order = stream'[j].order /\ past[i].status = "CANCELED"
               => stream'[j].status = "CANCELED"
    BY <2>3, <2>4, <2>5 DEF CanceledIsLast, n
  <2>9. \A k \in Orders : row[k].status = "CANCELED" =>
            \A j \in 1 .. n + 1 : stream'[j].order = k => stream'[j].status = "CANCELED"
    BY <2>3, <2>4, <2>5 DEF CanceledIsLast, n
  <2>. QED
    BY <2>2, <2>3, <2>7, <2>8, <2>9 DEF CanceledIsLast
<1>2. ASSUME NEW o \in Orders, CreateRow(o)
      PROVE  CanceledIsLast'
  <2>1. \A k \in Orders : row'[k].status = "CANCELED" => row[k].status = "CANCELED"
    BY <1>2 DEF CreateRow, Inv, TypeOK, Fills
  <2>. QED
    BY <1>2, <2>1 DEF CreateRow, world, CanceledIsLast
<1>3. CASE Deliver
  <2>. DEFINE e == Head(stream)
  <2>1. stream # <<>> /\ stream' = Tail(stream) /\ past' = <<e>>
    BY <1>3 DEF Deliver
  <2>2. /\ n \in Nat /\ 1 \in 1 .. n /\ e = stream[1] /\ Len(stream') = n - 1
        /\ \A i \in 1 .. n - 1 : stream'[i] = stream[i + 1] /\ i + 1 \in 1 .. n
    BY <2>1, HeadAndTail DEF Inv
  <2>3. Len(past') = 1 /\ past'[1] = e
    BY <2>1
  <2>4. \A k \in Orders : row'[k].status = "CANCELED" =>
            row[k].status = "CANCELED" \/ (k = e.order /\ e.status = "CANCELED")
    <3>1. CASE DropUnmatched(e)
      BY <3>1 DEF DropUnmatched
    <3>2. CASE ApplyEvent(e)
      BY <3>2 DEF ApplyEvent, Inv, TypeOK
    <3>. QED
      BY <1>3, <3>1, <3>2 DEF Deliver
  <2>. HIDE DEF e, n
  <2>5. \A i \in 1 .. n - 1 : 1 < i + 1
    BY <2>2
  <2>6. \A i, j \in 1 .. n - 1 : i < j => i + 1 < j + 1
    BY <2>2
  <2>7. \A i, j \in 1 .. n - 1 :
            i < j /\ stream'[i].order = stream'[j].order /\ stream'[i].status = "CANCELED"
               => stream'[j].status = "CANCELED"
    <3>. TAKE i, j \in 1 .. n - 1
    <3>1. /\ i + 1 \in 1 .. n /\ j + 1 \in 1 .. n
          /\ stream'[i] = stream[i + 1] /\ stream'[j] = stream[j + 1]
      BY <2>2
    <3>. QED
      BY <2>6, <3>1 DEF CanceledIsLast, n
  <2>8. \A j \in 1 .. n - 1 : e.order = stream'[j].order /\ e.status = "CANCELED"
                                 => stream'[j].status = "CANCELED"
    BY <2>2, <2>5 DEF CanceledIsLast, n
  <2>9. ASSUME NEW k \in Orders, row'[k].status = "CANCELED"
        PROVE  /\ \A j \in 1 .. n - 1 : stream'[j].order = k => stream'[j].status = "CANCELED"
               /\ e.order = k => e.status = "CANCELED"
    <3>1. CASE row[k].status = "CANCELED"
      <4>1. \A j \in 1 .. n : stream[j].order = k => stream[j].status = "CANCELED"
        BY <3>1 DEF CanceledIsLast, n
      <4>. QED
        BY <2>2, <4>1
    <3>2. CASE k = e.order /\ e.status = "CANCELED"
      BY <2>8, <3>2
    <3>. QED
      BY <2>4, <2>9, <3>1, <3>2
  <2>10. \A i \in 1 .. Len(past') : past'[i] = e
    BY <2>3
  <2>. QED
    BY <2>2, <2>7, <2>8, <2>9, <2>10 DEF CanceledIsLast
<1>4. CASE Lose
  <2>1. /\ stream # <<>> /\ stream' = Tail(stream) /\ past' = past /\ row' = row
    BY <1>4 DEF Lose
  <2>2. /\ n \in Nat /\ Len(stream') = n - 1
        /\ \A i \in 1 .. n - 1 : stream'[i] = stream[i + 1] /\ i + 1 \in 1 .. n
    BY <2>1, HeadAndTail DEF Inv
  <2>. HIDE DEF n
  <2>3. \A i, j \in 1 .. n - 1 : i < j => i + 1 < j + 1
    BY <2>2
  <2>. QED
    BY <2>1, <2>2, <2>3 DEF CanceledIsLast, n
<1>5. ASSUME NEW i \in 1 .. Len(past), Repeat(i)
      PROVE  CanceledIsLast'
  <2>1. stream' = <<past[i]>> \o stream /\ past' = past /\ row' = row
    BY <1>5 DEF Repeat
  <2>2. stream \in Seq(Event) /\ past \in Seq(Event) /\ Len(past) \in Nat /\ past[i] \in Event
    BY DEF Inv, TypeOK
  <2>3. /\ n \in Nat /\ Len(stream') = n + 1 /\ stream'[1] = past[i]
        /\ \A j \in 2 .. n + 1 : stream'[j] = stream[j - 1] /\ j - 1 \in 1 .. n
    BY <2>1, <2>2
  <2>4. \A k \in 1 .. Len(past) : k = i
    BY <2>2 DEF Inv
  <2>. HIDE DEF n
  <2>5. \A j \in 1 .. n + 1 : j = 1 \/ j \in 2 .. n + 1
    BY <2>3
  <2>6. \A k, j \in 2 .. n + 1 : k < j => k - 1 < j - 1
    BY <2>3
  <2>7. \A k, j \in 1 .. n + 1 : k < j => j \in 2 .. n + 1
    BY <2>3
  <2>8. \A j \in 1 .. n + 1 : past[i].order = stream'[j].order /\ past[i].status = "CANCELED"
                                 => stream'[j].status = "CANCELED"
    <3>1. ASSUME NEW j \in 2 .. n + 1, past[i].order = stream'[j].order,
                 past[i].status = "CANCELED"
          PROVE  stream'[j].status = "CANCELED"
      <4>1. j - 1 \in 1 .. n /\ stream'[j] = stream[j - 1]
        BY <2>3
      <4>. QED
        BY <3>1, <4>1 DEF CanceledIsLast, n
    <3>. QED
      BY <2>3, <2>5, <3>1
  <2>9. ASSUME NEW k \in 1 .. n + 1, NEW j \in 1 .. n + 1, k < j,
               stream'[k].order = stream'[j].order, stream'[k].status = "CANCELED"
        PROVE  stream'[j].status = "CANCELED"
    <3>1. CASE k = 1
      BY <2>3, <2>8, <2>9, <3>1
    <3>2. CASE k \in 2 .. n + 1
      <4>1. k - 1 \in 1 .. n /\ j - 1 \in 1 .. n /\ k - 1 < j - 1
        BY <2>3, <2>6, <2>7, <2>9, <3>2
      <4>2. stream'[k] = stream[k - 1] /\ stream'[j] = stream[j - 1]
        BY <2>3, <2>7, <2>9, <3>2
      <4>. QED
        BY <2>9, <4>1, <4>2 DEF CanceledIsLast, n
    <3>. QED
      BY <2>5, <3>1, <3>2
  <2>10. ASSUME NEW k \in Orders, row[k].status = "CANCELED", NEW j \in 1 .. n + 1,
                stream'[j].order = k
         PROVE  stream'[j].status = "CANCELED"
    BY <2>3, <2>5, <2>10 DEF CanceledIsLast, n
  <2>11. \A k \in Orders : row[k].status = "CANCELED" =>
             \A l \in 1 .. Len(past) : past[l].order = k => past[l].status = "CANCELED"
    BY DEF CanceledIsLast
  <2>. QED
    BY <2>1, <2>3, <2>4, <2>8, <2>9, <2>10, <2>11 DEF CanceledIsLast
<1>6. CASE UNCHANGED <<exch, stream, past, row, booked>>
  BY <1>6 DEF CanceledIsLast
<1>. QED
  BY <1>1, <1>2, <1>3, <1>4, <1>5, <1>6, OtherSteps

LEMMA BookedStep ==
    ASSUME Inv, NewIsEmpty, CanceledIsLast, ShownIsBooked, [Next]_vars, ~ WithRepair
    PROVE  ShownIsBooked'
<1>1. CASE Deliver
  <2>. DEFINE e == Head(stream)
  <2>1. stream # <<>> /\ stream' = Tail(stream)
    BY <1>1 DEF Deliver
  <2>2. /\ Len(stream) \in Nat /\ 1 \in 1 .. Len(stream) /\ e = stream[1]
        /\ e \in Event /\ e.order \in Orders
    BY <2>1, HeadAndTail DEF Inv
  <2>3. /\ e.status \in Status /\ e.z \in Nat
        /\ row[e.order].z \in Nat /\ booked[e.order] \in Nat
    BY <2>2, Quantities DEF Inv, Event
  <2>4. booked[e.order] <= e.z
    BY <2>2 DEF Inv
  <2>5. /\ e.status = "NEW" => e.z = 0
        /\ row[e.order].status = "CANCELED" => e.status = "CANCELED"
    BY <2>2 DEF NewIsEmpty, CanceledIsLast
  <2>. HIDE DEF e
  <2>6. CASE DropUnmatched(e)
    BY <2>6 DEF DropUnmatched, money, ShownIsBooked
  <2>7. CASE ApplyEvent(e)
    <3>1. /\ row'[e.order].status = e.status /\ row'[e.order].z = e.z
          /\ booked'[e.order] = booked[e.order] + (IF Books(e) THEN Delta(e) ELSE 0)
          /\ \A k \in Orders \ {e.order} : row'[k] = row[k] /\ booked'[k] = booked[k]
      BY <2>2, <2>7 DEF ApplyEvent, Inv, TypeOK
    <3>2. ASSUME e.status # "CANCELED"
          PROVE  booked'[e.order] = e.z
      <4>1. booked[e.order] = row[e.order].z
        BY <2>2, <2>5, <3>2 DEF ShownIsBooked
      <4>2. Delta(e) \in Nat /\ booked[e.order] + Delta(e) = e.z
        BY <2>3, <2>4, <4>1 DEF Delta
      <4>3. e.status = "NEW" => booked[e.order] = e.z
        BY <2>3, <2>4, <2>5
      <4>4. e.status \in FillStatus \/ e.status = "NEW"
        BY <2>3, <3>2
      <4>5. CASE Delta(e) = 0
        BY <2>3, <3>1, <4>2, <4>5
      <4>6. CASE Delta(e) > 0
        <5>1. e.status \in FillStatus
          BY <2>3, <4>2, <4>3, <4>4, <4>6
        <5>. QED
          BY <3>1, <4>2, <4>6, <5>1 DEF Books
      <4>. QED
        BY <4>2, <4>5, <4>6
    <3>. QED
      BY <3>1, <3>2 DEF ShownIsBooked
  <2>. QED
    BY <1>1, <2>6, <2>7 DEF Deliver, e
<1>2. ASSUME NEW o \in Orders, Reports(o)
      PROVE  ShownIsBooked'
  <2>1. PICK f \in Fills : Report(o, f)
    BY <1>2, WhatIsReported DEF Inv
  <2>. QED
    BY <2>1 DEF Report, money, ShownIsBooked
<1>3. ASSUME NEW o \in Orders, CreateRow(o)
      PROVE  ShownIsBooked'
  <2>1. \A k \in Orders : row'[k].z = row[k].z /\ (row'[k].status = row[k].status
                                                     \/ row[k].status = NoOrder)
    BY <1>3 DEF CreateRow, Inv, TypeOK, Fills
  <2>. QED
    BY <1>3, <2>1 DEF CreateRow, money, ShownIsBooked
<1>4. CASE Lose \/ \E i \in 1 .. Len(past) : Repeat(i)
  BY <1>4 DEF Lose, Repeat, money, ShownIsBooked
<1>5. CASE UNCHANGED <<exch, stream, past, row, booked>>
  BY <1>5 DEF ShownIsBooked
<1>. QED
  BY <1>1, <1>2, <1>3, <1>4, <1>5, OtherSteps

Booking == CancelsAreReal /\ NewIsEmpty /\ CanceledIsLast /\ ShownIsBooked

(* A row whose last event was a fill has everything booked, whatever was   *)
(* lost before: for a stream that repeats its last event only, and without *)
(* the repair.                                                             *)
THEOREM AFillCatchesUp ==
    ASSUME RepeatOld = FALSE, ~ WithRepair
    PROVE  Spec => []CatchesUp
<1>1. Init => Inv /\ Booking
  <2>1. Init => NewIsEmpty /\ CanceledIsLast /\ ShownIsBooked
    BY DEF Init, Nothing, NewIsEmpty, CanceledIsLast, ShownIsBooked
  <2>. QED
    BY <2>1, InitTyped, InitInOrder, InitCancels DEF Inv, Booking
<1>2. Inv /\ Booking /\ [Next]_vars => Inv' /\ Booking'
  BY NextTyped, NextInOrder, CancelsStep, EmptyStep, LastStep, BookedStep DEF Inv, Booking
<1>3. Booking => CatchesUp
  BY DEF Booking, ShownIsBooked, CatchesUp
<1>. QED
  BY <1>1, <1>2, <1>3, PTL DEF Spec
-----------------------------------------------------------------------------
(***************************************************************************)
(* realized_pnl and total_capital are exact as long as no fill was missed. *)
(* The steps once more, with all that they leave in a stream and a row.    *)
(***************************************************************************)

(* What the exchange reports: a new state with nothing executed, or a      *)
(* trade.                                                                  *)
Untraded(o, f) ==
    /\ UNCHANGED <<trades, prices>>
    /\ f.status \in {"NEW", "CANCELED"}
    /\ f.z = exch[o].z /\ f.notional = exch[o].notional

Traded(o, f, q, p) ==
    /\ trades' = [trades EXCEPT ![o] = @ + 1]
    /\ prices' = [prices EXCEPT ![o] = @ \cup {p}]
    /\ f.z = exch[o].z + q /\ f.z <= OrderQty
    /\ f.notional = exch[o].notional + q * p
    /\ f.status = IF f.z = OrderQty THEN "FILLED" ELSE "PARTIALLY_FILLED"

LEMMA AReport ==
    ASSUME TypeOK, NEW o \in Orders, Reports(o)
    PROVE  \E f \in Fills :
              /\ Report(o, f) /\ f.status # NoOrder
              /\ exch[o].status \in OpenStatus \cup {NoOrder}
              /\ \/ Untraded(o, f)
                 \/ \E q \in 1 .. OrderQty, p \in Prices : Traded(o, f, q, p)
<1>1. exch[o] \in Fills
  BY DEF TypeOK
<1>2. CASE Accept(o)
  <2>. DEFINE f == [exch[o] EXCEPT !.status = "NEW"]
  <2>1. f \in Fills /\ f.status = "NEW" /\ f.z = exch[o].z /\ f.notional = exch[o].notional
    BY <1>1, WithStatus
  <2>2. Report(o, f) /\ UNCHANGED <<trades, prices>> /\ exch[o].status = NoOrder
    BY <1>2 DEF Accept
  <2>. HIDE DEF f
  <2>. QED
    BY <2>1, <2>2 DEF Untraded
<1>3. CASE Cancel(o)
  <2>. DEFINE f == [exch[o] EXCEPT !.status = "CANCELED"]
  <2>1. f \in Fills /\ f.status = "CANCELED" /\ f.z = exch[o].z /\ f.notional = exch[o].notional
    BY <1>1, WithStatus
  <2>2. Report(o, f) /\ UNCHANGED <<trades, prices>> /\ exch[o].status \in OpenStatus
    BY <1>3 DEF Cancel
  <2>. HIDE DEF f
  <2>. QED
    BY <2>1, <2>2 DEF Untraded
<1>4. ASSUME NEW q \in 1 .. OrderQty, NEW p \in Prices, Trade(o, q, p)
      PROVE  \E f \in Fills : /\ Report(o, f) /\ f.status # NoOrder
                              /\ exch[o].status \in OpenStatus
                              /\ Traded(o, f, q, p)
  <2>. DEFINE f == [status   |-> IF exch[o].z + q = OrderQty THEN "FILLED"
                                 ELSE "PARTIALLY_FILLED",
                    z        |-> exch[o].z + q,
                    notional |-> exch[o].notional + q * p]
  <2>1. exch[o].z \in Nat /\ exch[o].notional \in Nat /\ q \in Nat /\ p \in Nat
    BY <1>1, FillFields
  <2>2. f \in Fills /\ f.status # NoOrder
    BY <2>1 DEF Fills
  <2>3. Report(o, f) /\ exch[o].status \in OpenStatus
    BY <1>4 DEF Trade
  <2>4. Traded(o, f, q, p)
    BY <1>4 DEF Trade, Traded
  <2>. HIDE DEF f
  <2>. QED
    BY <2>2, <2>3, <2>4
<1>. QED
  BY <1>2, <1>3, <1>4 DEF Reports

(* A missed fill stays missed.                                             *)
LEMMA MissedStays ==
    ASSUME [Next]_vars
    PROVE  missed' = {} => missed = {}
BY DEF Next, Accept, Cancel, Trade, Report, CreateRow, Deliver, DropUnmatched,
       ApplyEvent, Lose, Repeat, Repair, RepairOrphanDbOrders, vars

(* What a delivery leaves, for a stream that repeats its last event only.  *)
Dropped(e) ==
    /\ row[e.order].status = NoOrder
    /\ UNCHANGED <<row, booked, realized, capital>>
    /\ e.status \in FillStatus => missed' # {}

Applied(e) ==
    /\ row[e.order].status # NoOrder
    /\ row'[e.order].status = e.status /\ row'[e.order].z = e.z
    /\ row'[e.order].notional = e.notional
    /\ booked'[e.order] = booked[e.order] + (IF Books(e) THEN Delta(e) ELSE 0)
    /\ \A k \in Orders \ {e.order} : row'[k] = row[k] /\ booked'[k] = booked[k]
    /\ realized' = realized + RealizedBy(e)
    /\ capital' = capital + CapitalBy(e)

LEMMA ADelivery ==
    ASSUME TypeOK, Deliver, RepeatOld = FALSE
    PROVE  \E e \in Event :
              /\ e.order \in Orders /\ e.status \in Status /\ e.z \in Nat /\ e.notional \in Nat
              /\ Len(stream) \in Nat /\ Len(stream) >= 1 /\ stream[1] = e
              /\ Len(stream') = Len(stream) - 1
              /\ \A i \in 1 .. Len(stream') : stream'[i] = stream[i + 1]
              /\ Len(past') = 1 /\ past'[1] = e
              /\ UNCHANGED <<exch, trades, prices>>
              /\ Dropped(e) \/ Applied(e)
<1>. DEFINE e == Head(stream)
<1>1. stream # <<>> /\ stream' = Tail(stream) /\ past' = <<e>>
  BY DEF Deliver
<1>2. /\ Len(stream) \in Nat /\ e = stream[1] /\ 1 \in 1 .. Len(stream)
      /\ e \in Event /\ e.order \in Orders
      /\ Len(stream') = Len(stream) - 1
      /\ \A i \in 1 .. Len(stream) - 1 : stream'[i] = stream[i + 1]
  BY <1>1, HeadAndTail
<1>3. UNCHANGED <<exch, trades, prices>>
  BY DEF Deliver, world
<1>4. DropUnmatched(e) => Dropped(e)
  BY <1>2 DEF DropUnmatched, Dropped, money
<1>5. ApplyEvent(e) => Applied(e)
  <2>. HIDE DEF e
  <2>. QED
    BY <1>2 DEF ApplyEvent, Applied, TypeOK
<1>6. DropUnmatched(e) \/ ApplyEvent(e)
  BY DEF Deliver
<1>7. Len(past') = 1 /\ past'[1] = e
  <2>. HIDE DEF e
  <2>. QED
    BY <1>1
<1>8. e.status \in Status /\ e.z \in Nat /\ e.notional \in Nat
  <2>. HIDE DEF e
  <2>. QED
    BY <1>2 DEF Event
<1>. HIDE DEF e
<1>9. Len(stream) >= 1 /\ stream[1] = e
  BY <1>2
<1>10. \A i \in 1 .. Len(stream') : stream'[i] = stream[i + 1]
  BY <1>2
<1>. QED
  BY <1>2, <1>3, <1>4, <1>5, <1>6, <1>7, <1>8, <1>9, <1>10

(* An event that is lost, and one that comes again.                        *)
LEMMA ALoss ==
    ASSUME TypeOK, Lose
    PROVE  /\ Len(stream) \in Nat /\ Len(stream) >= 1
           /\ Len(stream') = Len(stream) - 1
           /\ \A i \in 1 .. Len(stream') : stream'[i] = stream[i + 1]
           /\ UNCHANGED <<exch, trades, prices, past, row, booked, realized, capital>>
           /\ stream[1].status \in FillStatus => missed' # {}
<1>1. stream # <<>> /\ stream' = Tail(stream)
  BY DEF Lose
<1>2. Head(stream).status \in FillStatus => missed' # {}
  BY DEF Lose
<1>3. /\ Len(stream) \in Nat /\ Head(stream) = stream[1] /\ 1 \in 1 .. Len(stream)
      /\ Len(stream') = Len(stream) - 1
      /\ \A i \in 1 .. Len(stream) - 1 : stream'[i] = stream[i + 1]
  BY <1>1, HeadAndTail
<1>4. UNCHANGED <<exch, trades, prices, past, row, booked, realized, capital>>
  BY DEF Lose, world, money
<1>. QED
  BY <1>2, <1>3, <1>4

LEMMA ARepetition ==
    ASSUME TypeOK, NEW i \in 1 .. Len(past), Repeat(i)
    PROVE  /\ Len(stream) \in Nat /\ Len(stream') = Len(stream) + 1
           /\ stream'[1] = past[i]
           /\ \A k \in 2 .. Len(stream') : stream'[k] = stream[k - 1]
           /\ UNCHANGED <<exch, trades, prices, past, row, booked, realized, capital>>
<1>1. stream' = <<past[i]>> \o stream /\ stream \in Seq(Event)
  BY DEF Repeat, TypeOK
<1>2. UNCHANGED <<exch, trades, prices, past, row, booked, realized, capital>>
  BY DEF Repeat, world, money
<1>. QED
  BY <1>1, <1>2

LEMMA ARow ==
    ASSUME TypeOK, NEW o \in Orders, CreateRow(o)
    PROVE  /\ UNCHANGED <<exch, trades, prices, stream, past, booked, realized, capital>>
           /\ row[o].status = NoOrder /\ row'[o].status = "NEW"
           /\ row'[o].z = row[o].z /\ row'[o].notional = row[o].notional
           /\ \A k \in Orders \ {o} : row'[k] = row[k]
BY DEF CreateRow, TypeOK, Fills, world, money

(* Without the repair these are all the steps.                             *)
LEMMA AStep ==
    ASSUME [Next]_vars, ~ WithRepair
    PROVE  \/ \E o \in Orders : Reports(o) \/ CreateRow(o)
           \/ Deliver \/ Lose \/ (\E i \in 1 .. Len(past) : Repeat(i))
           \/ UNCHANGED <<exch, trades, prices, stream, past, row, booked, realized, capital>>
BY DEF Next, Reports, Repair, RepairOrphanDbOrders, vars, world, money

-----------------------------------------------------------------------------
(* Only a filled order has everything executed.                            *)
FilledIsAll ==
    /\ \A o \in Orders : /\ exch[o].z = OrderQty <=> exch[o].status = "FILLED"
                         /\ row[o].z = OrderQty <=> row[o].status = "FILLED"
                         /\ exch[o].z <= OrderQty
    /\ \A i \in 1 .. Len(stream) : stream[i].z = OrderQty <=> stream[i].status = "FILLED"
    /\ \A i \in 1 .. Len(past) : past[i].z = OrderQty <=> past[i].status = "FILLED"

LEMMA FilledStep ==
    ASSUME TypeOK, FilledIsAll, [Next]_vars, RepeatOld = FALSE, ~ WithRepair
    PROVE  FilledIsAll'
<1>1. ASSUME NEW o \in Orders, Reports(o)
      PROVE  FilledIsAll'
  <2>1. PICK f \in Fills :
            /\ Report(o, f) /\ f.status # NoOrder /\ exch[o].status \in OpenStatus \cup {NoOrder}
            /\ Untraded(o, f) \/ \E q \in 1 .. OrderQty, p \in Prices : Traded(o, f, q, p)
    BY <1>1, AReport
  <2>2. (f.z = OrderQty <=> f.status = "FILLED") /\ f.z <= OrderQty
    BY <2>1 DEF Untraded, Traded, FilledIsAll
  <2>3. /\ Len(stream) \in Nat /\ Len(stream') = Len(stream) + 1
        /\ stream'[Len(stream) + 1] = EventOf(o, f)
        /\ \A i \in 1 .. Len(stream) : stream'[i] = stream[i]
        /\ exch'[o] = f /\ \A k \in Orders \ {o} : exch'[k] = exch[k]
    BY <2>1, ReportAppends
  <2>4. past' = past /\ row' = row
    BY <2>1 DEF Report
  <2>5. EventOf(o, f).z = f.z /\ EventOf(o, f).status = f.status
    BY DEF EventOf
  <2>6. \A i \in 1 .. Len(stream') : i \in 1 .. Len(stream) \/ i = Len(stream) + 1
    BY <2>3
  <2>7. \A i \in 1 .. Len(stream') : stream'[i].z = OrderQty <=> stream'[i].status = "FILLED"
    BY <2>2, <2>3, <2>5, <2>6 DEF FilledIsAll
  <2>8. \A k \in Orders : /\ exch'[k].z = OrderQty <=> exch'[k].status = "FILLED"
                          /\ exch'[k].z <= OrderQty
    BY <2>2, <2>3 DEF FilledIsAll
  <2>. QED
    BY <2>4, <2>7, <2>8 DEF FilledIsAll
<1>2. ASSUME NEW o \in Orders, CreateRow(o)
      PROVE  FilledIsAll'
  <2>1. \A k \in Orders : /\ row'[k].z = row[k].z
                          /\ row'[k].status = "FILLED" <=> row[k].status = "FILLED"
    BY <1>2, ARow
  <2>. QED
    BY <1>2, <2>1, ARow DEF FilledIsAll
<1>3. CASE Deliver
  <2>1. PICK e \in Event :
            /\ e.order \in Orders /\ Len(stream) \in Nat /\ Len(stream) >= 1 /\ stream[1] = e
            /\ Len(stream') = Len(stream) - 1
            /\ \A i \in 1 .. Len(stream') : stream'[i] = stream[i + 1]
            /\ Len(past') = 1 /\ past'[1] = e
            /\ exch' = exch
            /\ Dropped(e) \/ Applied(e)
    BY <1>3, ADelivery
  <2>2. e.z = OrderQty <=> e.status = "FILLED"
    BY <2>1 DEF FilledIsAll
  <2>3. \A k \in Orders : row'[k].z = OrderQty <=> row'[k].status = "FILLED"
    BY <2>1, <2>2 DEF FilledIsAll, Dropped, Applied
  <2>4. \A i \in 1 .. Len(stream') : i + 1 \in 1 .. Len(stream) /\ stream'[i] = stream[i + 1]
    BY <2>1
  <2>5. \A i \in 1 .. Len(stream') : stream'[i].z = OrderQty <=> stream'[i].status = "FILLED"
    BY <2>4 DEF FilledIsAll
  <2>6. \A i \in 1 .. Len(past') : past'[i].z = OrderQty <=> past'[i].status = "FILLED"
    BY <2>1, <2>2
  <2>. QED
    BY <2>1, <2>3, <2>5, <2>6 DEF FilledIsAll
<1>4. CASE Lose
  <2>1. \A i \in 1 .. Len(stream') : i + 1 \in 1 .. Len(stream) /\ stream'[i] = stream[i + 1]
    BY <1>4, ALoss
  <2>2. ASSUME NEW i \in 1 .. Len(stream')
        PROVE  stream'[i].z = OrderQty <=> stream'[i].status = "FILLED"
    <3>1. i + 1 \in 1 .. Len(stream) /\ stream'[i] = stream[i + 1]
      BY <2>1
    <3>. QED
      BY <3>1 DEF FilledIsAll
  <2>3. UNCHANGED <<exch, past, row>>
    BY <1>4, ALoss
  <2>. QED
    BY <2>2, <2>3 DEF FilledIsAll
<1>5. ASSUME NEW i \in 1 .. Len(past), Repeat(i)
      PROVE  FilledIsAll'
  <2>1. \A k \in 1 .. Len(stream') : \/ k = 1 /\ stream'[k] = past[i]
                                     \/ k - 1 \in 1 .. Len(stream) /\ stream'[k] = stream[k - 1]
    BY <1>5, ARepetition
  <2>2. \A k \in 1 .. Len(stream') : stream'[k].z = OrderQty <=> stream'[k].status = "FILLED"
    BY <2>1 DEF FilledIsAll
  <2>3. UNCHANGED <<exch, past, row>>
    BY <1>5, ARepetition
  <2>. QED
    BY <2>2, <2>3 DEF FilledIsAll
<1>6. CASE UNCHANGED <<exch, trades, prices, stream, past, row, booked, realized, capital>>
  BY <1>6 DEF FilledIsAll
<1>. QED
  BY <1>1, <1>2, <1>3, <1>4, <1>5, <1>6, AStep

(* While no fill was missed, everything a row does not know yet is on its  *)
(* way, announced by a fill, and everything a row knows is booked.         *)
Tells(s, i, o, n) == s[i].order = o /\ s[i].status \in FillStatus /\ s[i].z = n

Announced ==
    /\ \A o \in Orders : row[o].z < exch[o].z =>
          \E j \in 1 .. Len(stream) : Tells(stream, j, o, exch[o].z)
    /\ \A i \in 1 .. Len(stream) : row[stream[i].order].z < stream[i].z =>
          \E j \in 1 .. i : Tells(stream, j, stream[i].order, stream[i].z)
    /\ \A i \in 1 .. Len(past) : past[i].z <= row[past[i].order].z
    /\ \A o \in Orders : booked[o] = row[o].z

LEMMA AnnouncedStep ==
    ASSUME Inv, missed = {} => Announced, missed' = {}, [Next]_vars,
           RepeatOld = FALSE, ~ WithRepair
    PROVE  Announced'
<1>0. Announced /\ TypeOK
  BY MissedStays DEF Inv
<1>. USE DEF Tells
<1>a. \A i \in 1 .. Len(stream) : stream[i].order \in Orders /\ stream[i].z \in Nat
  BY EventFields, <1>0 DEF TypeOK
<1>b. \A i \in 1 .. Len(past) : past[i].order \in Orders /\ past[i].z \in Nat
  BY EventFields, <1>0 DEF TypeOK
<1>1. ASSUME NEW o \in Orders, Reports(o)
      PROVE  Announced'
  <2>1. PICK f \in Fills :
            /\ Report(o, f) /\ f.status # NoOrder /\ exch[o].status \in OpenStatus \cup {NoOrder}
            /\ Untraded(o, f) \/ \E q \in 1 .. OrderQty, p \in Prices : Traded(o, f, q, p)
    BY <1>0, <1>1, AReport
  <2>2. /\ Len(stream) \in Nat /\ Len(stream') = Len(stream) + 1
        /\ stream'[Len(stream) + 1] = EventOf(o, f)
        /\ \A i \in 1 .. Len(stream) : stream'[i] = stream[i]
        /\ exch'[o] = f /\ \A k \in Orders \ {o} : exch'[k] = exch[k]
    BY <1>0, <2>1, ReportAppends
  <2>3. past' = past /\ row' = row /\ booked' = booked
    BY <2>1 DEF Report, money
  <2>4. EventOf(o, f).z = f.z /\ EventOf(o, f).status = f.status /\ EventOf(o, f).order = o
    BY DEF EventOf
  <2>. DEFINE n == Len(stream) + 1
  <2>5. f.z = exch[o].z \/ (f.status \in FillStatus /\ Tells(stream', n, o, f.z))
    BY <2>1, <2>2, <2>4 DEF Untraded, Traded
  <2>6. \A i \in 1 .. Len(stream), k \in Orders, m \in Nat : Tells(stream, i, k, m) => Tells(stream', i, k, m)
    BY <2>2
  <2>6a. \A k \in Orders : exch[k].z \in Nat
    BY <1>0, Quantities
  <2>7. ASSUME NEW k \in Orders, row'[k].z < exch'[k].z
        PROVE  \E j \in 1 .. Len(stream') : Tells(stream', j, k, exch'[k].z)
    <3>1. CASE k = o /\ f.z # exch[o].z
      BY <2>2, <2>5, <3>1
    <3>2. CASE k # o \/ f.z = exch[o].z
      <4>1. exch'[k].z = exch[k].z
        BY <2>2, <3>2
      <4>2. PICK j \in 1 .. Len(stream) : Tells(stream, j, k, exch[k].z)
        BY <1>0, <2>3, <2>7, <4>1 DEF Announced
      <4>. QED
        BY <2>2, <2>6, <2>6a, <4>1, <4>2
    <3>. QED
      BY <3>1, <3>2
  <2>8. ASSUME NEW i \in 1 .. Len(stream'), row'[stream'[i].order].z < stream'[i].z
        PROVE  \E j \in 1 .. i : Tells(stream', j, stream'[i].order, stream'[i].z)
    <3>1. CASE i = n /\ f.z # exch[o].z
      BY <2>2, <2>4, <2>5, <3>1
    <3>2. CASE i = n /\ f.z = exch[o].z
      <4>1. PICK j \in 1 .. Len(stream) : Tells(stream, j, o, exch[o].z)
        BY <1>0, <2>2, <2>3, <2>4, <2>8, <3>2 DEF Announced
      <4>. QED
        BY <2>2, <2>4, <2>6, <2>6a, <3>2, <4>1
    <3>3. CASE i \in 1 .. Len(stream)
      <4>1. PICK j \in 1 .. i : Tells(stream, j, stream[i].order, stream[i].z)
        BY <1>0, <2>2, <2>3, <2>8, <3>3 DEF Announced
      <4>. QED
        BY <1>a, <2>2, <2>6, <3>3, <4>1
    <3>. QED
      BY <2>2, <3>1, <3>2, <3>3
  <2>9. \A k \in Orders : booked'[k] = row'[k].z
    BY <1>0, <2>3 DEF Announced
  <2>10. \A i \in 1 .. Len(past') : past'[i].z <= row'[past'[i].order].z
    BY <1>0, <2>3 DEF Announced
  <2>. QED
    BY <2>7, <2>8, <2>9, <2>10 DEF Announced
<1>2. ASSUME NEW o \in Orders, CreateRow(o)
      PROVE  Announced'
  <2>1. \A k \in Orders : row'[k].z = row[k].z
    BY <1>0, <1>2, ARow
  <2>2. UNCHANGED <<exch, stream, past, booked>>
    BY <1>0, <1>2, ARow
  <2>3. /\ \A k \in Orders : row'[k].z < exch'[k].z =>
              \E j \in 1 .. Len(stream') : Tells(stream', j, k, exch'[k].z)
        /\ \A k \in Orders : booked'[k] = row'[k].z
    BY <1>0, <2>1, <2>2 DEF Announced
  <2>4. \A i \in 1 .. Len(stream') : row'[stream'[i].order].z < stream'[i].z =>
           \E j \in 1 .. i : Tells(stream', j, stream'[i].order, stream'[i].z)
    BY <1>0, <1>a, <2>1, <2>2 DEF Announced
  <2>5. \A i \in 1 .. Len(past') : past'[i].z <= row'[past'[i].order].z
    BY <1>0, <1>b, <2>1, <2>2 DEF Announced
  <2>. QED
    BY <2>3, <2>4, <2>5 DEF Announced
<1>3. CASE Deliver
  <2>1. PICK e \in Event :
            /\ e.order \in Orders /\ e.status \in Status /\ e.z \in Nat
            /\ Len(stream) \in Nat /\ Len(stream) >= 1 /\ stream[1] = e
            /\ Len(stream') = Len(stream) - 1
            /\ \A i \in 1 .. Len(stream') : stream'[i] = stream[i + 1]
            /\ Len(past') = 1 /\ past'[1] = e
            /\ exch' = exch
            /\ Dropped(e) \/ Applied(e)
    BY <1>0, <1>3, ADelivery
  <2>2. row[e.order].z < e.z => e.status \in FillStatus
    BY <1>0, <2>1 DEF Announced
  <2>2a. \A k \in Orders : /\ row[k].z \in Nat /\ exch[k].z \in Nat /\ booked[k] \in Nat
                           /\ booked[k] = row[k].z
    BY <1>0, Quantities DEF Announced
  <2>3. row[e.order].z <= e.z
    <3>1. booked[stream[1].order] <= stream[1].z
      BY <2>1 DEF Inv
    <3>. QED
      BY <2>1, <2>2a, <3>1
  <2>4. e.z <= row'[e.order].z /\ row[e.order].z <= row'[e.order].z
    BY <2>1, <2>2, <2>2a, <2>3 DEF Dropped, Applied
  <2>5. \A k \in Orders \ {e.order} : row'[k].z = row[k].z
    BY <2>1 DEF Dropped, Applied
  <2>6. \A k \in Orders : row[k].z <= row'[k].z /\ row'[k].z \in Nat
    BY <2>1, <2>2a, <2>4, <2>5 DEF Dropped, Applied
  <2>7. \A k \in Orders : booked'[k] = row'[k].z
    <3>1. CASE Dropped(e)
      BY <2>2a, <3>1 DEF Dropped
    <3>2. CASE Applied(e)
      <4>1. Books(e) <=> Delta(e) > 0
        BY <2>1, <2>2, <2>2a, <2>3 DEF Books, Delta
      <4>2. booked'[e.order] = e.z
        BY <2>1, <2>2a, <2>3, <3>2, <4>1 DEF Applied, Delta
      <4>. QED
        BY <2>2a, <3>2, <4>2 DEF Applied
    <3>. QED
      BY <2>1, <3>1, <3>2
  \* An event that tells a row something new is not the one delivered.
  <2>8. ASSUME NEW k \in Orders, NEW m \in Nat, row'[k].z < m,
               NEW j \in 1 .. Len(stream), Tells(stream, j, k, m)
        PROVE  j > 1
    <3>1. j = 1 => k = e.order /\ m = e.z
      BY <2>1, <2>8
    <3>2. j = 1 => FALSE
      BY <2>1, <2>4, <2>6, <2>8, <3>1
    <3>. QED
      BY <3>2
  <2>9. \A i \in 1 .. Len(stream') : /\ i + 1 \in 1 .. Len(stream)
                                     /\ stream'[i] = stream[i + 1]
    BY <2>1
  <2>10. \A j \in 2 .. Len(stream) : j - 1 \in 1 .. Len(stream') /\ stream'[j - 1] = stream[j]
    BY <2>1
  <2>11. ASSUME NEW k \in Orders, row'[k].z < exch'[k].z
         PROVE  \E j \in 1 .. Len(stream') : Tells(stream', j, k, exch'[k].z)
    <3>1. row[k].z < exch[k].z
      BY <2>1, <2>2a, <2>6, <2>11
    <3>2. PICK j \in 1 .. Len(stream) : Tells(stream, j, k, exch[k].z)
      BY <1>0, <3>1 DEF Announced
    <3>3. j > 1
      BY <2>1, <2>2a, <2>8, <2>11, <3>2
    <3>4. j - 1 \in 1 .. Len(stream') /\ stream'[j - 1] = stream[j]
      BY <2>10, <3>3
    <3>5. Tells(stream', j - 1, k, exch'[k].z)
      BY <2>1, <3>2, <3>4
    <3>. QED
      BY <3>4, <3>5
  <2>12. ASSUME NEW i \in 1 .. Len(stream'), row'[stream'[i].order].z < stream'[i].z
         PROVE  \E j \in 1 .. i : Tells(stream', j, stream'[i].order, stream'[i].z)
    <3>. DEFINE k == stream[i + 1].order
                m == stream[i + 1].z
    <3>1. k \in Orders /\ m \in Nat /\ i + 1 \in 1 .. Len(stream) /\ stream'[i] = stream[i + 1]
      BY <1>a, <2>9
    <3>2. row[k].z < m /\ row'[k].z < m
      BY <2>2a, <2>6, <2>12, <3>1
    <3>3. PICK j \in 1 .. i + 1 : Tells(stream, j, k, m)
      BY <1>0, <3>1, <3>2 DEF Announced
    <3>4. j \in 1 .. Len(stream)
      BY <3>1, <2>1
    <3>5. j > 1
      BY <2>8, <3>1, <3>2, <3>3, <3>4
    <3>6. j - 1 \in 1 .. i /\ stream'[j - 1] = stream[j]
      BY <2>10, <3>4, <3>5
    <3>7. Tells(stream', j - 1, k, m)
      BY <3>3, <3>6
    <3>. QED
      BY <3>1, <3>6, <3>7
  <2>13. \A i \in 1 .. Len(past') : past'[i].z <= row'[past'[i].order].z
    BY <2>1, <2>4
  <2>. QED
    BY <2>7, <2>11, <2>12, <2>13 DEF Announced
<1>4. CASE Lose
  <2>1. /\ Len(stream) \in Nat /\ Len(stream) >= 1
        /\ Len(stream') = Len(stream) - 1
        /\ \A i \in 1 .. Len(stream') : stream'[i] = stream[i + 1]
        /\ UNCHANGED <<exch, past, row, booked>>
        /\ stream[1].status \notin FillStatus
    BY <1>0, <1>4, ALoss
  <2>2. \A j \in 1 .. Len(stream), k \in Orders, m \in Nat :
            Tells(stream, j, k, m) => j - 1 \in 1 .. Len(stream') /\ Tells(stream', j - 1, k, m)
    BY <2>1
  <2>2a. \A k \in Orders : exch[k].z \in Nat
    BY <1>0, Quantities
  <2>3. \A i \in 1 .. Len(stream') : i + 1 \in 1 .. Len(stream) /\ stream'[i] = stream[i + 1]
    BY <2>1
  <2>4. ASSUME NEW k \in Orders, row'[k].z < exch'[k].z
        PROVE  \E j \in 1 .. Len(stream') : Tells(stream', j, k, exch'[k].z)
    <3>1. PICK j \in 1 .. Len(stream) : Tells(stream, j, k, exch[k].z)
      BY <1>0, <2>1, <2>4 DEF Announced
    <3>. QED
      BY <2>1, <2>2, <2>2a, <3>1
  <2>5. ASSUME NEW i \in 1 .. Len(stream'), row'[stream'[i].order].z < stream'[i].z
        PROVE  \E j \in 1 .. i : Tells(stream', j, stream'[i].order, stream'[i].z)
    <3>1. i + 1 \in 1 .. Len(stream) /\ stream'[i] = stream[i + 1]
      BY <2>3
    <3>2. PICK j \in 1 .. i + 1 : Tells(stream, j, stream[i + 1].order, stream[i + 1].z)
      BY <1>0, <2>1, <2>5, <3>1 DEF Announced
    <3>3. j \in 1 .. Len(stream)
      BY <2>1, <3>1
    <3>4. j - 1 \in 1 .. Len(stream') /\ Tells(stream', j - 1, stream[i + 1].order, stream[i + 1].z)
      BY <1>a, <2>2, <3>1, <3>2, <3>3
    <3>5. j - 1 \in 1 .. i
      BY <3>4
    <3>. QED
      BY <3>1, <3>4, <3>5
  <2>. QED
    BY <1>0, <2>1, <2>4, <2>5 DEF Announced
<1>5. ASSUME NEW i \in 1 .. Len(past), Repeat(i)
      PROVE  Announced'
  <2>1. /\ Len(stream) \in Nat /\ Len(stream') = Len(stream) + 1
        /\ stream'[1] = past[i]
        /\ \A k \in 2 .. Len(stream') : stream'[k] = stream[k - 1]
        /\ UNCHANGED <<exch, past, row, booked>>
    BY <1>0, <1>5, ARepetition
  <2>2. \A j \in 1 .. Len(stream), k \in Orders, m \in Nat :
            Tells(stream, j, k, m) => j + 1 \in 1 .. Len(stream') /\ Tells(stream', j + 1, k, m)
    BY <2>1
  <2>2a. \A k \in Orders : exch[k].z \in Nat /\ row[k].z \in Nat
    BY <1>0, Quantities
  <2>3. \A j \in 2 .. Len(stream') : j - 1 \in 1 .. Len(stream) /\ stream'[j] = stream[j - 1]
    BY <2>1
  <2>4. ASSUME NEW k \in Orders, row'[k].z < exch'[k].z
        PROVE  \E j \in 1 .. Len(stream') : Tells(stream', j, k, exch'[k].z)
    <3>1. PICK j \in 1 .. Len(stream) : Tells(stream, j, k, exch[k].z)
      BY <1>0, <2>1, <2>4 DEF Announced
    <3>2. j + 1 \in 1 .. Len(stream') /\ Tells(stream', j + 1, k, exch[k].z)
      BY <2>2, <2>2a, <3>1
    <3>. QED
      BY <2>1, <3>2
  <2>5. ASSUME NEW h \in 1 .. Len(stream'), row'[stream'[h].order].z < stream'[h].z
        PROVE  \E j \in 1 .. h : Tells(stream', j, stream'[h].order, stream'[h].z)
    <3>0. past[i].z <= row[past[i].order].z /\ past[i].order \in Orders /\ past[i].z \in Nat
      BY <1>0, <1>b DEF Announced
    <3>1. h \in 2 .. Len(stream')
      BY <2>1, <2>2a, <2>5, <3>0
    <3>2. h - 1 \in 1 .. Len(stream) /\ stream'[h] = stream[h - 1]
      BY <2>3, <3>1
    <3>3. PICK j \in 1 .. h - 1 : Tells(stream, j, stream[h - 1].order, stream[h - 1].z)
      BY <1>0, <2>1, <2>5, <3>2 DEF Announced
    <3>4. j \in 1 .. Len(stream)
      BY <2>1, <3>2
    <3>5. stream[h - 1].order \in Orders /\ stream[h - 1].z \in Nat
      BY <1>a, <3>2
    <3>6. Tells(stream', j + 1, stream[h - 1].order, stream[h - 1].z)
      BY <2>2, <3>3, <3>4, <3>5
    <3>. QED
      BY <3>2, <3>6
  <2>. QED
    BY <1>0, <2>1, <2>4, <2>5 DEF Announced
<1>6. CASE UNCHANGED <<exch, trades, prices, stream, past, row, booked, realized, capital>>
  BY <1>0, <1>6 DEF Announced
<1>. QED
  BY <1>1, <1>2, <1>3, <1>4, <1>5, <1>6, AStep

-----------------------------------------------------------------------------
(* An order traded at one price has a notional of that price times the     *)
(* quantity, wherever it is shown.                                         *)
At(x, p) == x.notional = p * x.z

PricedAt(o, p) ==
    /\ At(exch[o], p) /\ At(row[o], p)
    /\ \A i \in 1 .. Len(stream) : stream[i].order = o => At(stream[i], p)
    /\ \A i \in 1 .. Len(past) : past[i].order = o => At(past[i], p)

Priced ==
    /\ \A o \in Orders, p \in Nat : prices[o] \subseteq {p} => PricedAt(o, p)
    /\ \A o \in Orders : exch[o].z > 0 => prices[o] # {}

LEMMA PricedStep ==
    ASSUME TypeOK, Priced, [Next]_vars, RepeatOld = FALSE, ~ WithRepair
    PROVE  Priced'
<1>1. ASSUME NEW o \in Orders, Reports(o)
      PROVE  Priced'
  <2>1. PICK f \in Fills :
            /\ Report(o, f)
            /\ Untraded(o, f) \/ \E q \in 1 .. OrderQty, p \in Prices : Traded(o, f, q, p)
    BY <1>1, AReport
  <2>2. /\ Len(stream) \in Nat /\ Len(stream') = Len(stream) + 1
        /\ stream'[Len(stream) + 1] = EventOf(o, f)
        /\ \A i \in 1 .. Len(stream) : stream'[i] = stream[i]
        /\ exch'[o] = f /\ \A k \in Orders \ {o} : exch'[k] = exch[k]
    BY <2>1, ReportAppends
  <2>3. past' = past /\ row' = row
    BY <2>1 DEF Report
  <2>4. EventOf(o, f).z = f.z /\ EventOf(o, f).notional = f.notional /\ EventOf(o, f).order = o
    BY DEF EventOf
  <2>5. \A k \in Orders : prices[k] \subseteq prices'[k]
    <3>1. CASE Untraded(o, f)
      BY <3>1 DEF Untraded
    <3>2. ASSUME NEW q, NEW p, Traded(o, f, q, p)
          PROVE  \A k \in Orders : prices[k] \subseteq prices'[k]
      <4>1. prices' = [prices EXCEPT ![o] = prices[o] \cup {p}]
        BY <3>2 DEF Traded
      <4>. QED
        BY <4>1 DEF TypeOK
    <3>. QED
      BY <2>1, <3>1, <3>2
  <2>6. ASSUME NEW p \in Nat, prices'[o] \subseteq {p}
        PROVE  At(f, p)
    <3>1. PricedAt(o, p)
      BY <2>5, <2>6 DEF Priced
    <3>2. At(exch[o], p) /\ exch[o].z \in Nat /\ exch[o].notional \in Nat /\ p \in Nat
      BY <3>1, FillFields DEF PricedAt, TypeOK
    <3>3. CASE Untraded(o, f)
      BY <3>2, <3>3 DEF Untraded, At
    <3>4. ASSUME NEW q \in 1 .. OrderQty, NEW r \in Prices, Traded(o, f, q, r)
          PROVE  At(f, p)
      <4>1. r \in prices'[o]
        BY <3>4 DEF Traded, TypeOK
      <4>2. r = p /\ q \in Nat
        BY <2>6, <4>1
      <4>3. f.z = exch[o].z + q /\ f.notional = exch[o].notional + q * p
        BY <3>4, <4>2 DEF Traded
      <4>. QED
        BY <3>2, <4>2, <4>3 DEF At
    <3>. QED
      BY <2>1, <3>3, <3>4
  <2>7. \A i \in 1 .. Len(stream') : i \in 1 .. Len(stream) \/ i = Len(stream) + 1
    BY <2>2
  <2>8. ASSUME NEW k \in Orders, NEW p \in Nat, prices'[k] \subseteq {p}
        PROVE  PricedAt(k, p)'
    <3>1. PricedAt(k, p)
      BY <2>5, <2>8 DEF Priced
    <3>2. k = o => At(f, p)
      BY <2>6, <2>8
    <3>3. \A i \in 1 .. Len(stream') : stream'[i].order = k => At(stream'[i], p)
      BY <2>2, <2>4, <2>7, <3>1, <3>2 DEF PricedAt, At
    <3>4. At(exch'[k], p)
      BY <2>2, <3>1, <3>2 DEF PricedAt
    <3>. QED
      BY <2>3, <3>1, <3>3, <3>4 DEF PricedAt
  <2>9. ASSUME NEW k \in Orders, exch'[k].z > 0
        PROVE  prices'[k] # {}
    <3>1. CASE exch'[k].z = exch[k].z
      BY <2>5, <2>9, <3>1 DEF Priced
    <3>2. CASE exch'[k].z # exch[k].z
      <4>1. k = o /\ ~ Untraded(o, f)
        BY <2>2, <3>2 DEF Untraded
      <4>2. PICK q \in 1 .. OrderQty, p \in Prices : Traded(o, f, q, p)
        BY <2>1, <4>1
      <4>3. p \in prices'[o]
        BY <4>2 DEF Traded, TypeOK
      <4>. QED
        BY <4>1, <4>3
    <3>. QED
      BY <3>1, <3>2
  <2>. QED
    BY <2>8, <2>9 DEF Priced
<1>2. ASSUME NEW o \in Orders, CreateRow(o)
      PROVE  Priced'
  <2>1. \A k \in Orders : row'[k].z = row[k].z /\ row'[k].notional = row[k].notional
    BY <1>2, ARow
  <2>2. UNCHANGED <<exch, prices, stream, past>>
    BY <1>2, ARow
  <2>3. \A k \in Orders, p \in Nat : PricedAt(k, p) => PricedAt(k, p)'
    BY <2>1, <2>2 DEF PricedAt, At
  <2>. QED
    BY <2>2, <2>3 DEF Priced
<1>3. CASE Deliver
  <2>1. PICK e \in Event :
            /\ e.order \in Orders /\ Len(stream) \in Nat /\ Len(stream) >= 1 /\ stream[1] = e
            /\ Len(stream') = Len(stream) - 1
            /\ \A i \in 1 .. Len(stream') : stream'[i] = stream[i + 1]
            /\ Len(past') = 1 /\ past'[1] = e
            /\ UNCHANGED <<exch, prices>>
            /\ Dropped(e) \/ Applied(e)
    BY <1>3, ADelivery
  <2>2. \A i \in 1 .. Len(stream') : i + 1 \in 1 .. Len(stream) /\ stream'[i] = stream[i + 1]
    BY <2>1
  <2>3. ASSUME NEW k \in Orders, NEW p \in Nat, PricedAt(k, p)
        PROVE  PricedAt(k, p)'
    <3>1. k = e.order => At(e, p)
      BY <2>1, <2>3 DEF PricedAt
    <3>2. At(row'[k], p)
      <4>1. CASE Dropped(e)
        BY <2>3, <4>1 DEF Dropped, PricedAt
      <4>2. CASE Applied(e)
        BY <2>3, <3>1, <4>2 DEF Applied, PricedAt, At
      <4>. QED
        BY <2>1, <4>1, <4>2
    <3>3. \A i \in 1 .. Len(stream') : stream'[i].order = k => At(stream'[i], p)
      BY <2>2, <2>3 DEF PricedAt
    <3>4. \A i \in 1 .. Len(past') : past'[i].order = k => At(past'[i], p)
      BY <2>1, <3>1
    <3>5. At(exch'[k], p)
      BY <2>1, <2>3 DEF PricedAt
    <3>. QED
      BY <3>2, <3>3, <3>4, <3>5 DEF PricedAt
  <2>. QED
    BY <2>1, <2>3 DEF Priced
<1>4. CASE Lose
  <2>1. \A i \in 1 .. Len(stream') : i + 1 \in 1 .. Len(stream) /\ stream'[i] = stream[i + 1]
    BY <1>4, ALoss
  <2>2. UNCHANGED <<exch, prices, past, row>>
    BY <1>4, ALoss
  <2>3. ASSUME NEW k \in Orders, NEW p \in Nat, PricedAt(k, p)
        PROVE  PricedAt(k, p)'
    <3>1. \A i \in 1 .. Len(stream') : stream'[i].order = k => At(stream'[i], p)
      BY <2>1, <2>3 DEF PricedAt
    <3>. QED
      BY <2>2, <2>3, <3>1 DEF PricedAt
  <2>. QED
    BY <2>2, <2>3 DEF Priced
<1>5. ASSUME NEW i \in 1 .. Len(past), Repeat(i)
      PROVE  Priced'
  <2>1. \A k \in 1 .. Len(stream') : \/ k = 1 /\ stream'[k] = past[i]
                                     \/ k - 1 \in 1 .. Len(stream) /\ stream'[k] = stream[k - 1]
    BY <1>5, ARepetition
  <2>2. UNCHANGED <<exch, prices, past, row>>
    BY <1>5, ARepetition
  <2>3. ASSUME NEW k \in Orders, NEW p \in Nat, PricedAt(k, p)
        PROVE  PricedAt(k, p)'
    <3>1. \A h \in 1 .. Len(stream') : stream'[h].order = k => At(stream'[h], p)
      BY <2>1, <2>3 DEF PricedAt
    <3>. QED
      BY <2>2, <2>3, <3>1 DEF PricedAt
  <2>. QED
    BY <2>2, <2>3 DEF Priced
<1>6. CASE UNCHANGED <<exch, trades, prices, stream, past, row, booked, realized, capital>>
  BY <1>6 DEF Priced, PricedAt
<1>. QED
  BY <1>1, <1>2, <1>3, <1>4, <1>5, <1>6, AStep

-----------------------------------------------------------------------------
(* The fills of an order that its row does not know yet.                   *)
Fresh(o) == {n \in 1 .. OrderQty :
                /\ row[o].z < n
                /\ \E i \in 1 .. Len(stream) : Tells(stream, i, o, n)}

(* The trades of an order whose commission is deducted: those of an exit   *)
(* whose fill has arrived, and the last one of a filled addition.          *)
Settled(o) == IF Purpose[o] = "EXIT" THEN trades[o] - Cardinality(Fresh(o))
              ELSE IF row[o].status = "FILLED" THEN 1 ELSE 0

Charges == [o \in Orders |-> Fee * Settled(o)]

ProfitSoFar ==
    OneTradeAdds /\ (\A o \in Exits : OnePrice(o))
      => realized = Scale * (SumFunction(Profit(row)) - SumFunction(Charges))

CapitalSoFar ==
    (\A o \in Adds : OnePrice(o)) => capital = Scale * SumFunction(Notional(row))

LEMMA FreshType ==
    ASSUME NEW o \in Orders
    PROVE  IsFiniteSet(Fresh(o)) /\ Cardinality(Fresh(o)) \in Nat
<1>1. IsFiniteSet(1 .. OrderQty)
  BY FS_Interval
<1>. QED
  BY <1>1, FS_Subset, FS_CardinalityType DEF Fresh

LEMMA FreshTypeNext ==
    ASSUME NEW o \in Orders
    PROVE  IsFiniteSet(Fresh(o)') /\ Cardinality(Fresh(o)') \in Nat
<1>1. IsFiniteSet(1 .. OrderQty)
  BY FS_Interval
<1>. QED
  BY <1>1, FS_Subset, FS_CardinalityType DEF Fresh

LEMMA SettledType ==
    ASSUME TypeOK, NEW o \in Orders
    PROVE  Settled(o) \in Int
BY FreshType DEF Settled, TypeOK

(* A step that neither trades nor delivers a fill leaves the same fills to *)
(* come.                                                                   *)
LEMMA SameFresh ==
    ASSUME NEW o \in Orders, row'[o].z = row[o].z,
           \A n \in 1 .. OrderQty : row[o].z < n =>
              ((\E i \in 1 .. Len(stream') : Tells(stream', i, o, n))
                 <=> (\E i \in 1 .. Len(stream) : Tells(stream, i, o, n)))
    PROVE  Fresh(o)' = Fresh(o)
BY DEF Fresh

(* What no step but a booking changes.                                     *)
Quiet ==
    /\ UNCHANGED <<realized, capital>>
    /\ \A o \in Orders : /\ row'[o].z = row[o].z /\ row'[o].notional = row[o].notional
                         /\ Settled(o)' = Settled(o)
    /\ OneTradeAdds' => OneTradeAdds
    /\ \A o \in Orders : prices[o] \subseteq prices'[o]

LEMMA ReportIsQuiet ==
    ASSUME Inv, FilledIsAll, NEW o \in Orders, Reports(o)
    PROVE  Quiet
<1>0. TypeOK
  BY DEF Inv
<1>1. PICK f \in Fills :
          /\ Report(o, f) /\ f.status # NoOrder /\ exch[o].status \in OpenStatus \cup {NoOrder}
          /\ Untraded(o, f) \/ \E q \in 1 .. OrderQty, p \in Prices : Traded(o, f, q, p)
  BY <1>0, AReport
<1>2. /\ Len(stream) \in Nat /\ Len(stream') = Len(stream) + 1
      /\ stream'[Len(stream) + 1] = EventOf(o, f)
      /\ \A i \in 1 .. Len(stream) : stream'[i] = stream[i]
      /\ exch'[o] = f /\ \A k \in Orders \ {o} : exch'[k] = exch[k]
  BY <1>0, <1>1, ReportAppends
<1>3. row' = row /\ realized' = realized /\ capital' = capital
  BY <1>1 DEF Report, money
<1>4. EventOf(o, f).z = f.z /\ EventOf(o, f).status = f.status /\ EventOf(o, f).order = o
  BY DEF EventOf
<1>5. \A i \in 1 .. Len(stream') : i \in 1 .. Len(stream) \/ i = Len(stream) + 1
  BY <1>2
<1>6. \A i \in 1 .. Len(stream) : i \in 1 .. Len(stream')
  BY <1>2
<1>7. ASSUME NEW k \in Orders, k # o \/ f.status \notin FillStatus
      PROVE  Fresh(k)' = Fresh(k)
  <2>1. \A n \in 1 .. OrderQty : (\E i \in 1 .. Len(stream') : Tells(stream', i, k, n))
                                  <=> (\E i \in 1 .. Len(stream) : Tells(stream, i, k, n))
    BY <1>2, <1>4, <1>5, <1>6, <1>7 DEF Tells
  <2>. QED
    BY <1>3, <2>1, SameFresh
<1>8. CASE Untraded(o, f)
  <2>1. f.status \notin FillStatus /\ trades' = trades /\ prices' = prices
    BY <1>8 DEF Untraded
  <2>2. \A k \in Orders : Settled(k)' = Settled(k)
    BY <1>3, <1>7, <2>1 DEF Settled
  <2>3. OneTradeAdds' => OneTradeAdds
    <3>1. \A k \in Orders : exch'[k].status = "FILLED" <=> exch[k].status = "FILLED"
      BY <1>1, <1>2, <2>1
    <3>. QED
      BY <2>1, <3>1 DEF OneTradeAdds, Adds, Exits
  <2>. QED
    BY <1>3, <2>1, <2>2, <2>3 DEF Quiet
<1>9. ASSUME NEW q \in 1 .. OrderQty, NEW p \in Prices, Traded(o, f, q, p)
      PROVE  Quiet
  <2>1. /\ trades'[o] = trades[o] + 1 /\ trades[o] \in Nat
        /\ \A k \in Orders \ {o} : trades'[k] = trades[k]
        /\ \A k \in Orders : prices[k] \subseteq prices'[k]
    <3>1. /\ trades' = [trades EXCEPT ![o] = trades[o] + 1]
          /\ prices' = [prices EXCEPT ![o] = prices[o] \cup {p}]
      BY <1>9 DEF Traded
    <3>. QED
      BY <1>0, <3>1 DEF TypeOK
  <2>2. /\ f.z = exch[o].z + q /\ f.z <= OrderQty /\ f.status \in FillStatus
        /\ f.status = "FILLED" <=> f.z = OrderQty
    BY <1>9 DEF Traded
  <2>3. exch[o].z \in Nat /\ row[o].z \in Nat /\ row[o].z <= exch[o].z /\ q \in Nat /\ q > 0
    BY <1>0, Quantities DEF Inv
  <2>4. f.z \in 1 .. OrderQty /\ exch[o].z < f.z /\ row[o].z < f.z
    BY <2>2, <2>3
  <2>5. Fresh(o)' = Fresh(o) \cup {f.z}
    <3>1. ASSUME NEW n \in 1 .. OrderQty
          PROVE  (\E i \in 1 .. Len(stream') : Tells(stream', i, o, n))
                   <=> (n = f.z \/ \E i \in 1 .. Len(stream) : Tells(stream, i, o, n))
      <4>1. Tells(stream', Len(stream) + 1, o, n) <=> n = f.z
        BY <1>2, <1>4, <2>2 DEF Tells
      <4>2. Len(stream) + 1 \in 1 .. Len(stream')
        BY <1>2
      <4>3. \A i \in 1 .. Len(stream) : Tells(stream', i, o, n) <=> Tells(stream, i, o, n)
        BY <1>2 DEF Tells
      <4>. QED
        BY <1>5, <1>6, <4>1, <4>2, <4>3
    <3>. QED
      BY <1>3, <2>4, <3>1 DEF Fresh
  <2>6. f.z \notin Fresh(o)
    <3>1. ASSUME NEW i \in 1 .. Len(stream), Tells(stream, i, o, f.z)
          PROVE  FALSE
      BY <2>3, <2>4, <3>1 DEF Tells, Inv
    <3>. QED
      BY <3>1 DEF Fresh
  <2>7. Cardinality(Fresh(o)') = Cardinality(Fresh(o)) + 1
    BY <2>5, <2>6, FreshType, FS_AddElement
  <2>8. \A k \in Orders : Settled(k)' = Settled(k)
    <3>1. Settled(o)' = Settled(o)
      BY <1>3, <2>1, <2>7, FreshType DEF Settled
    <3>2. \A k \in Orders \ {o} : Settled(k)' = Settled(k)
      BY <1>3, <1>7, <2>1 DEF Settled
    <3>. QED
      BY <3>1, <3>2
  <2>9. OneTradeAdds' => OneTradeAdds
    <3>1. ASSUME OneTradeAdds', NEW k \in Adds
          PROVE  trades[k] = IF exch[k].status = "FILLED" THEN 1 ELSE 0
      <4>1. CASE k = o
        <5>1. trades'[o] = IF f.status = "FILLED" THEN 1 ELSE 0
          BY <1>2, <3>1, <4>1 DEF OneTradeAdds, Adds, Exits
        <5>. QED
          BY <1>1, <2>1, <4>1, <5>1
      <4>2. CASE k # o
        <5>1. k \in Orders /\ exch'[k] = exch[k] /\ trades'[k] = trades[k]
          BY <1>2, <2>1, <4>2 DEF Adds
        <5>. QED
          BY <3>1, <5>1 DEF OneTradeAdds, Adds, Exits
      <4>. QED
        BY <4>1, <4>2
    <3>. QED
      BY <3>1 DEF OneTradeAdds
  <2>. QED
    BY <1>3, <2>1, <2>8, <2>9 DEF Quiet
<1>. QED
  BY <1>1, <1>8, <1>9

LEMMA OthersAreQuiet ==
    ASSUME Inv, Announced, missed' = {}, [Next]_vars, RepeatOld = FALSE, ~ WithRepair,
           ~ (Deliver /\ Applied(stream[1])), \A o \in Orders : ~ Reports(o)
    PROVE  Quiet
<1>0. TypeOK
  BY DEF Inv
<1>a. \A i \in 1 .. Len(stream) : stream[i].order \in Orders /\ stream[i].z \in Nat
  BY EventFields, <1>0 DEF TypeOK
<1>1. ASSUME UNCHANGED <<exch, trades, prices, realized, capital>>,
             \A k \in Orders : /\ row'[k].z = row[k].z /\ row'[k].notional = row[k].notional
                               /\ row'[k].status = "FILLED" <=> row[k].status = "FILLED",
             \A k \in Orders, n \in 1 .. OrderQty : row[k].z < n =>
                ((\E i \in 1 .. Len(stream') : Tells(stream', i, k, n))
                   <=> (\E i \in 1 .. Len(stream) : Tells(stream, i, k, n)))
      PROVE  Quiet
  <2>1. \A k \in Orders : Fresh(k)' = Fresh(k)
    BY <1>1, SameFresh
  <2>2. \A k \in Orders : Settled(k)' = Settled(k)
    BY <1>1, <2>1 DEF Settled
  <2>3. OneTradeAdds' => OneTradeAdds
    BY <1>1 DEF OneTradeAdds, Adds, Exits
  <2>. QED
    BY <1>1, <2>2, <2>3 DEF Quiet
<1>2. ASSUME NEW o \in Orders, CreateRow(o)
      PROVE  Quiet
  <2>1. /\ UNCHANGED <<exch, trades, prices, stream, realized, capital>>
        /\ \A k \in Orders : /\ row'[k].z = row[k].z /\ row'[k].notional = row[k].notional
                             /\ row'[k].status = "FILLED" <=> row[k].status = "FILLED"
    BY <1>0, <1>2, ARow
  <2>. QED
    BY <1>1, <2>1
\* The first event goes, and it was no fill.
<1>3. ASSUME UNCHANGED <<exch, trades, prices, row, realized, capital>>,
             Len(stream) \in Nat, Len(stream) >= 1,
             Len(stream') = Len(stream) - 1,
             \A i \in 1 .. Len(stream') : stream'[i] = stream[i + 1],
             stream[1].status \notin FillStatus
      PROVE  Quiet
  <2>1. \A i \in 1 .. Len(stream') : i + 1 \in 1 .. Len(stream) /\ stream'[i] = stream[i + 1]
    BY <1>3
  <2>2. \A i \in 2 .. Len(stream) : i - 1 \in 1 .. Len(stream') /\ stream'[i - 1] = stream[i]
    BY <1>3
  <2>3. \A i \in 1 .. Len(stream) : i = 1 \/ i \in 2 .. Len(stream)
    BY <1>3
  <2>4. \A k \in Orders, n \in 1 .. OrderQty :
           (\E i \in 1 .. Len(stream') : Tells(stream', i, k, n))
             <=> (\E i \in 1 .. Len(stream) : Tells(stream, i, k, n))
    BY <1>3, <2>1, <2>2, <2>3 DEF Tells
  <2>. QED
    BY <1>1, <1>3, <2>4
<1>4. CASE Lose
  BY <1>0, <1>3, <1>4, ALoss
<1>5. CASE Deliver
  BY <1>0, <1>3, <1>5, ADelivery DEF Dropped
<1>6. ASSUME NEW i \in 1 .. Len(past), Repeat(i)
      PROVE  Quiet
  <2>1. /\ Len(stream) \in Nat /\ Len(stream') = Len(stream) + 1
        /\ stream'[1] = past[i]
        /\ \A k \in 2 .. Len(stream') : stream'[k] = stream[k - 1]
        /\ UNCHANGED <<exch, trades, prices, row, realized, capital>>
    BY <1>0, <1>6, ARepetition
  <2>2. ASSUME NEW j \in 1 .. Len(stream)
        PROVE  j + 1 \in 1 .. Len(stream') /\ stream'[j + 1] = stream[j]
    <3>1. j + 1 \in 2 .. Len(stream') /\ j + 1 \in 1 .. Len(stream') /\ (j + 1) - 1 = j
      BY <2>1
    <3>2. stream'[j + 1] = stream[(j + 1) - 1]
      BY <2>1, <3>1, Zenon
    <3>. QED
      BY <3>1, <3>2
  <2>3. ASSUME NEW j \in 1 .. Len(stream')
        PROVE  j = 1 \/ (j - 1 \in 1 .. Len(stream) /\ stream'[j] = stream[j - 1])
    <3>1. j = 1 \/ (j \in 2 .. Len(stream') /\ j - 1 \in 1 .. Len(stream))
      BY <2>1
    <3>. QED
      BY <2>1, <3>1, Zenon
  <2>4. past[i].z <= row[past[i].order].z /\ past[i].order \in Orders /\ past[i].z \in Nat
    BY <1>0, EventFields DEF Announced, TypeOK
  <2>4a. \A k \in Orders : row[k].z \in Nat
    BY <1>0, Quantities
  <2>5. ASSUME NEW k \in Orders, NEW n \in 1 .. OrderQty, row[k].z < n
        PROVE  (\E j \in 1 .. Len(stream') : Tells(stream', j, k, n))
                 <=> (\E j \in 1 .. Len(stream) : Tells(stream, j, k, n))
    <3>1. ~ Tells(stream', 1, k, n)
      BY <2>1, <2>4, <2>4a, <2>5 DEF Tells
    <3>2. \A j \in 1 .. Len(stream) : Tells(stream, j, k, n) => Tells(stream', j + 1, k, n)
      BY <2>2 DEF Tells
    <3>3. \A j \in 1 .. Len(stream') : j # 1 /\ Tells(stream', j, k, n)
             => j - 1 \in 1 .. Len(stream) /\ Tells(stream, j - 1, k, n)
      BY <2>3 DEF Tells
    <3>. QED
      BY <2>2, <3>1, <3>2, <3>3
  <2>. QED
    BY <1>1, <2>1, <2>5
<1>7. CASE UNCHANGED <<exch, trades, prices, stream, past, row, booked, realized, capital>>
  BY <1>1, <1>7
<1>. QED
  BY <1>2, <1>4, <1>5, <1>6, <1>7, AStep

(* A booking: what it adds to the commissions and to the profit.           *)
LEMMA BookingSettles ==
    ASSUME Inv, FilledIsAll, Announced, RepeatOld = FALSE, missed' = {}, Deliver,
           NEW e \in Event, e = stream[1], Applied(e)
    PROVE  /\ e.order \in Orders /\ e.z \in Nat /\ e.z <= OrderQty
           /\ UNCHANGED <<exch, trades, prices>>
           /\ Delta(e) \in Nat /\ row[e.order].z \in Nat
           /\ Books(e) <=> Delta(e) > 0
           /\ Settled(e.order)' = Settled(e.order)
                 + (IF Books(e) /\ (Purpose[e.order] = "EXIT" \/ e.status = "FILLED") THEN 1 ELSE 0)
           /\ \A k \in Orders \ {e.order} : Settled(k)' = Settled(k)
<1>. DEFINE o == e.order
<1>0. TypeOK
  BY DEF Inv
<1>1. /\ o \in Orders /\ e.z \in Nat /\ e.status \in Status
      /\ Len(stream) \in Nat /\ Len(stream) >= 1
      /\ Len(stream') = Len(stream) - 1
      /\ \A i \in 1 .. Len(stream') : stream'[i] = stream[i + 1]
      /\ UNCHANGED <<exch, trades, prices>>
  BY <1>0, ADelivery
<1>2. 1 \in 1 .. Len(stream)
  BY <1>1
<1>3. /\ e.z <= exch[o].z /\ booked[o] <= e.z
      /\ \A i \in 1 .. Len(stream) : stream[i].order = o => e.z <= stream[i].z
  <2>1. \A i \in 1 .. Len(stream) : i = 1 \/ 1 < i
    BY <1>1
  <2>. QED
    BY <1>1, <1>2, <2>1 DEF Inv
<1>4. /\ row[o].z \in Nat /\ exch[o].z \in Nat /\ booked[o] = row[o].z /\ exch[o].z <= OrderQty
  BY <1>0, <1>1, Quantities DEF Announced, FilledIsAll
<1>5. row[o].z < e.z => e.status \in FillStatus
  <2>1. row[stream[1].order].z < stream[1].z => \E j \in 1 .. 1 : Tells(stream, j, stream[1].order, stream[1].z)
    BY <1>2 DEF Announced
  <2>. QED
    BY <2>1 DEF Tells
<1>6. Delta(e) = e.z - row[o].z /\ Delta(e) \in Nat
  BY <1>1, <1>3, <1>4 DEF Delta
<1>7. Books(e) <=> Delta(e) > 0
  BY <1>1, <1>4, <1>5, <1>6 DEF Books
<1>8. /\ row'[o].z = e.z /\ row'[o].status = e.status
      /\ \A k \in Orders \ {o} : row'[k] = row[k]
  BY DEF Applied
<1>9. \A i \in 1 .. Len(stream') : i + 1 \in 1 .. Len(stream) /\ stream'[i] = stream[i + 1]
  BY <1>1
<1>10. \A i \in 2 .. Len(stream) : i - 1 \in 1 .. Len(stream') /\ stream'[i - 1] = stream[i]
  BY <1>1
<1>11. \A i \in 1 .. Len(stream) : i = 1 \/ i \in 2 .. Len(stream)
  BY <1>1
<1>12. ASSUME NEW k \in Orders, NEW n \in 1 .. OrderQty, k # o \/ n # e.z
       PROVE  (\E i \in 1 .. Len(stream') : Tells(stream', i, k, n))
                 <=> (\E i \in 1 .. Len(stream) : Tells(stream, i, k, n))
  <2>1. ~ Tells(stream, 1, k, n)
    BY <1>12 DEF Tells
  <2>2. \A i \in 1 .. Len(stream') : Tells(stream', i, k, n) => Tells(stream, i + 1, k, n)
    BY <1>9 DEF Tells
  <2>3. \A i \in 2 .. Len(stream) : Tells(stream, i, k, n) => Tells(stream', i - 1, k, n)
    BY <1>10 DEF Tells
  <2>. QED
    BY <1>9, <1>10, <1>11, <2>1, <2>2, <2>3
<1>13. \A k \in Orders \ {o} : Fresh(k)' = Fresh(k)
  BY <1>8, <1>12, SameFresh
<1>14. Fresh(o)' = Fresh(o) \ {e.z}
  <2>1. \A n \in 1 .. OrderQty, i \in 1 .. Len(stream) : Tells(stream, i, o, n) => e.z <= n
    BY <1>3 DEF Tells
  <2>2. ASSUME NEW n \in 1 .. OrderQty
        PROVE  n \in Fresh(o)' <=> n \in Fresh(o) /\ n # e.z
    <3>1. CASE n = e.z
      BY <1>8, <1>1, <3>1 DEF Fresh
    <3>2. CASE n # e.z
      <4>1. (\E i \in 1 .. Len(stream') : Tells(stream', i, o, n))
               <=> (\E i \in 1 .. Len(stream) : Tells(stream, i, o, n))
        BY <1>1, <1>12, <3>2
      <4>2. (\E i \in 1 .. Len(stream) : Tells(stream, i, o, n)) => row[o].z < n /\ e.z < n
        BY <1>1, <1>3, <1>4, <2>1, <3>2
      <4>. QED
        BY <1>8, <3>2, <4>1, <4>2 DEF Fresh
    <3>. QED
      BY <3>1, <3>2
  <2>. QED
    BY <2>2 DEF Fresh
<1>15. e.z \in Fresh(o) <=> Delta(e) > 0
  <2>1. Delta(e) > 0 => Tells(stream, 1, o, e.z) /\ e.z \in 1 .. OrderQty /\ row[o].z < e.z
    BY <1>1, <1>3, <1>4, <1>5, <1>6 DEF Tells
  <2>2. row[o].z < e.z => Delta(e) > 0
    BY <1>1, <1>4, <1>6
  <2>. QED
    BY <1>2, <2>1, <2>2 DEF Fresh
<1>16. Cardinality(Fresh(o)') = Cardinality(Fresh(o)) - (IF Delta(e) > 0 THEN 1 ELSE 0)
  <2>1. CASE Delta(e) > 0
    <3>1. e.z \in Fresh(o) /\ IsFiniteSet(Fresh(o)) /\ Cardinality(Fresh(o)) \in Nat
      BY <1>1, <1>15, <2>1, FreshType
    <3>2. Cardinality(Fresh(o) \ {e.z}) = Cardinality(Fresh(o)) - 1
      <4>. DEFINE S == Fresh(o)
      <4>. HIDE DEF S
      <4>. QED
        BY <3>1, FS_RemoveElement DEF S
    <3>. QED
      BY <1>14, <2>1, <3>2
  <2>2. CASE ~ (Delta(e) > 0)
    <3>1. Fresh(o)' = Fresh(o)
      BY <1>14, <1>15, <2>2
    <3>. QED
      BY <1>1, <2>2, <3>1, FreshType
  <2>. QED
    BY <2>1, <2>2
<1>17. Purpose[o] # "EXIT" => Settled(o)' = Settled(o) + (IF Books(e) /\ e.status = "FILLED" THEN 1 ELSE 0)
  <2>1. row[o].z = OrderQty <=> row[o].status = "FILLED"
    BY <1>1 DEF FilledIsAll
  <2>2. e.z = OrderQty <=> e.status = "FILLED"
    BY <1>2 DEF FilledIsAll
  <2>3. row[o].status = "FILLED" => e.status = "FILLED" /\ Delta(e) = 0
    BY <1>1, <1>3, <1>4, <1>6, <2>1, <2>2
  <2>4. e.status = "FILLED" /\ row[o].status # "FILLED" => Delta(e) > 0
    BY <1>1, <1>3, <1>4, <1>6, <2>1, <2>2
  <2>. QED
    BY <1>1, <1>6, <1>7, <1>8, <2>3, <2>4 DEF Settled
<1>18. Purpose[o] = "EXIT" => Settled(o)' = Settled(o) + (IF Books(e) THEN 1 ELSE 0)
  <2>1. trades[o] \in Nat /\ Cardinality(Fresh(o)) \in Nat
    BY <1>0, <1>1, FreshType DEF TypeOK
  <2>. QED
    BY <1>1, <1>7, <1>16, <2>1 DEF Settled
<1>19. \A k \in Orders \ {o} : Settled(k)' = Settled(k)
  BY <1>1, <1>8, <1>13 DEF Settled
<1>20. e.z <= OrderQty
  BY <1>1, <1>3, <1>4
<1>. HIDE DEF o
<1>21. Settled(o)' = Settled(o) + (IF Books(e) /\ (Purpose[o] = "EXIT" \/ e.status = "FILLED") THEN 1 ELSE 0)
  BY <1>17, <1>18
<1>. QED
  BY <1>1, <1>4, <1>6, <1>7, <1>19, <1>20, <1>21 DEF o

-----------------------------------------------------------------------------
(* The average of an execution at one price is that price.                 *)
LEMMA AverageIsPrice ==
    ASSUME NEW e \in Event, e.z \in 1 .. OrderQty, NEW p \in Nat, At(e, p)
    PROVE  Avg(e) = p * Scale
<1>. DEFINE w == Scale \div e.z
<1>1. e.z \in Nat \ {0} /\ Scale \in Nat /\ Scale % e.z = 0
  OBVIOUS
<1>2. w \in Nat /\ Scale = w * e.z
  BY <1>1
<1>3. Avg(e) = (p * e.z) * w
  BY DEF Avg, At
<1>. HIDE DEF w
<1>4. (p * e.z) * w = p * (w * e.z)
  BY <1>1, <1>2
<1>. QED
  BY <1>2, <1>3, <1>4

(* What an exit earns with z units at price p, and with those after y.     *)
Gain(p, z)      == Sign * (p * z - z * Entry)
Gained(p, z, y) == (z - y) * Sign * (p * Scale - Entry * Scale)

LEMMA ExitEarns ==
    ASSUME NEW z \in Nat, NEW y \in Nat, NEW p \in Nat
    PROVE  Gained(p, z, y) = Scale * (Gain(p, z) - Gain(p, y))
<1>1. Scale \in Int /\ Entry \in Int
  OBVIOUS
<1>2. (z - y) * (p * Scale - Entry * Scale)
         = Scale * ((p * z - z * Entry) - (p * y - y * Entry))
  BY <1>1
<1>3. CASE Sign = 1
  BY <1>1, <1>2, <1>3 DEF Gain, Gained
<1>4. CASE Sign = -1
  BY <1>1, <1>2, <1>4 DEF Gain, Gained
<1>. QED
  BY <1>3, <1>4

LEMMA OfOnePrice ==
    ASSUME TypeOK, Priced, NEW o \in Orders, OnePrice(o)
    PROVE  \E p \in Nat : PricedAt(o, p)
<1>1. prices[o] \subseteq Prices /\ Prices \subseteq Nat
  BY DEF TypeOK
<1>2. \E p \in Nat : prices[o] \subseteq {p}
  <2>1. CASE prices[o] = {}
    BY <2>1
  <2>2. CASE prices[o] # {}
    BY <1>1, <2>2 DEF OnePrice
  <2>. QED
    BY <2>1, <2>2
<1>. QED
  BY <1>2 DEF Priced

LEMMA ExitsAndAdds ==
    /\ IsFiniteSet(Exits) /\ IsFiniteSet(Adds) /\ IsFiniteSet(Orders)
    /\ \A o \in Orders : (o \in Exits <=> Purpose[o] = "EXIT") /\ (o \in Adds <=> Purpose[o] # "EXIT")
    /\ Exits \subseteq Orders /\ Adds \subseteq Orders
BY FS_Subset DEF Exits, Adds

LEMMA MoneyTerms ==
    ASSUME NEW r \in [Orders -> Fills]
    PROVE  Profit(r) \in [Exits -> Int] /\ Notional(r) \in [Adds -> Int]
<1>1. \A o \in Orders : r[o].z \in Nat /\ r[o].notional \in Nat
  BY FillFields
<1>2. Profit(r) \in [Exits -> Int]
  <2>1. \A o \in Exits : Sign * (r[o].notional - r[o].z * Entry) \in Int
    BY <1>1, ExitsAndAdds
  <2>. QED
    BY <2>1 DEF Profit
<1>3. Notional(r) \in [Adds -> Int]
  BY <1>1, ExitsAndAdds DEF Notional
<1>. QED
  BY <1>2, <1>3

(* What only a booking changes stays exact without one.                    *)
LEMMA QuietMoney ==
    ASSUME Quiet, ProfitSoFar, CapitalSoFar
    PROVE  ProfitSoFar' /\ CapitalSoFar'
<1>1. Profit(row') = Profit(row) /\ Notional(row') = Notional(row)
  BY ExitsAndAdds DEF Quiet, Profit, Notional
<1>2. Charges' = Charges
  BY DEF Quiet, Charges
<1>3. \A o \in Orders : OnePrice(o)' => OnePrice(o)
  BY DEF Quiet, OnePrice
<1>4. ProfitSoFar'
  BY <1>1, <1>2, <1>3, ExitsAndAdds DEF Quiet, ProfitSoFar
<1>5. CapitalSoFar'
  BY <1>1, <1>3, ExitsAndAdds DEF Quiet, CapitalSoFar
<1>. QED
  BY <1>4, <1>5

(* A booking.                                                              *)
LEMMA ProfitBooked ==
    ASSUME Inv, TypeOK', FilledIsAll, Announced, Priced, ProfitSoFar, RepeatOld = FALSE,
           missed' = {}, Deliver, NEW e \in Event, e = stream[1], Applied(e)
    PROVE  ProfitSoFar'
<1>. DEFINE o == e.order
            y == row[o].z
            c == IF Books(e) /\ (Purpose[o] = "EXIT" \/ e.status = "FILLED") THEN 1 ELSE 0
<1>0. TypeOK /\ row \in [Orders -> Fills] /\ row' \in [Orders -> Fills]
  BY DEF Inv, TypeOK
<1>1. /\ o \in Orders /\ e.z \in Nat /\ e.z <= OrderQty
      /\ UNCHANGED <<exch, trades, prices>>
      /\ Delta(e) \in Nat /\ y \in Nat
      /\ Books(e) <=> Delta(e) > 0
      /\ \A k \in Orders \ {o} : Settled(k)' = Settled(k)
      /\ Settled(o)' = Settled(o) + c
  BY BookingSettles
<1>2. Delta(e) = e.z - y
  BY DEF Delta
<1>3. /\ row'[o].z = e.z /\ row'[o].notional = e.notional
      /\ \A k \in Orders \ {o} : row'[k] = row[k]
      /\ realized' = realized + RealizedBy(e)
  BY DEF Applied
<1>3a. c \in {0, 1}
  OBVIOUS
<1>3b. 1 \in 1 .. Len(stream)
  <2>1. Len(stream) \in Nat /\ Len(stream) >= 1
    BY <1>0, ADelivery, Zenon
  <2>. QED
    BY <2>1
<1>. HIDE DEF y, c
<1>4. SUFFICES ASSUME OneTradeAdds', \A k \in Exits : OnePrice(k)'
               PROVE  realized' = Scale * (SumFunction(Profit(row')) - SumFunction(Charges'))
  BY DEF ProfitSoFar
<1>5. OneTradeAdds /\ \A k \in Exits : OnePrice(k)
  BY <1>1, <1>4 DEF OneTradeAdds, OnePrice
<1>6. realized = Scale * (SumFunction(Profit(row)) - SumFunction(Charges))
  BY <1>5 DEF ProfitSoFar
<1>7. Profit(row) \in [Exits -> Int] /\ Profit(row') \in [Exits -> Int]
  BY <1>0, MoneyTerms
<1>8. \A k \in Orders : Settled(k) \in Int /\ Settled(k)' \in Int
  BY <1>0, <1>1, <1>3a, SettledType
<1>9. Charges \in [Orders -> Int] /\ Charges' \in [Orders -> Int]
  BY <1>8 DEF Charges
<1>10. SumFunction(Profit(row)) \in Int /\ SumFunction(Charges) \in Int
  BY <1>7, <1>9, SumType, ExitsAndAdds
<1>11. SumFunction(Charges') = SumFunction(Charges) + Fee * c
  <2>1. \A k \in Orders \ {o} : Charges'[k] = Charges[k]
    BY <1>1 DEF Charges
  <2>2. Charges[o] = Fee * Settled(o) /\ Charges'[o] = Fee * (Settled(o) + c)
    BY <1>1 DEF Charges
  <2>3. Charges'[o] - Charges[o] = Fee * c
    BY <1>1, <1>3a, <1>8, <2>2
  <2>4. SumFunction(Charges') = SumFunction(Charges) + Charges'[o] - Charges[o]
    BY <1>1, <1>9, <2>1, SumChanges, ExitsAndAdds
  <2>5. Charges'[o] \in Int /\ Charges[o] \in Int
    BY <1>1, <1>9
  <2>. QED
    BY <1>10, <2>3, <2>4, <2>5
<1>12. CASE Purpose[o] = "EXIT"
  <2>1. o \in Exits
    BY <1>1, <1>12, ExitsAndAdds
  <2>2. PICK p \in Nat : PricedAt(o, p)
    BY <1>0, <1>1, <1>5, <2>1, OfOnePrice
  <2>3. /\ row[o].notional = p * y /\ e.notional = p * e.z
        /\ At(e, p)
    BY <1>3b, <2>2 DEF PricedAt, At, y
  <2>. DEFINE g == Gain(p, e.z) - Gain(p, y)
  <2>4. SumFunction(Profit(row')) = SumFunction(Profit(row)) + g
    <3>1. \A k \in Exits \ {o} : Profit(row')[k] = Profit(row)[k]
      BY <1>3, ExitsAndAdds DEF Profit
    <3>2. Profit(row')[o] = Gain(p, e.z) /\ Profit(row)[o] = Gain(p, y)
      BY <1>3, <2>1, <2>3 DEF Profit, Gain, y
    <3>3. SumFunction(Profit(row')) = SumFunction(Profit(row)) + Profit(row')[o] - Profit(row)[o]
      BY <1>7, <2>1, <3>1, SumChanges, ExitsAndAdds
    <3>4. Profit(row')[o] \in Int /\ Profit(row)[o] \in Int
      BY <1>7, <2>1
    <3>. HIDE DEF Profit
    <3>. QED
      BY <1>10, <3>2, <3>3, <3>4
  <2>5. g \in Int
    BY <1>1 DEF Gain
  <2>6. RealizedBy(e) = Scale * g - Scale * (Fee * c)
    <3>1. CASE Books(e)
      <4>1. RealizedBy(e) = ExitProfit(e, Delta(e)) /\ c = 1
        BY <1>12, <3>1 DEF RealizedBy, c
      <4>2. e.z \in 1 .. OrderQty
        BY <1>1, <1>2, <3>1
      <4>3. Avg(e) = p * Scale
        BY <2>3, <4>2, AverageIsPrice
      <4>4. ExitProfit(e, Delta(e)) = Gained(p, e.z, y) - Fee * Scale
        BY <1>2, <4>3 DEF ExitProfit, Gained
      <4>5. Gained(p, e.z, y) = Scale * g
        BY <1>1, ExitEarns
      <4>. HIDE DEF g
      <4>6. Fee * Scale = Scale * (Fee * 1)
        OBVIOUS
      <4>. QED
        BY <2>5, <4>1, <4>4, <4>5, <4>6
    <3>2. CASE ~ Books(e)
      <4>1. RealizedBy(e) = 0 /\ c = 0 /\ y = e.z
        BY <1>1, <1>2, <3>2 DEF RealizedBy, c
      <4>2. g = 0
        BY <1>1, <4>1 DEF Gain
      <4>. HIDE DEF g
      <4>3. Scale * 0 = 0 /\ Fee * 0 = 0
        OBVIOUS
      <4>. QED
        BY <4>1, <4>2, <4>3
    <3>. QED
      BY <3>1, <3>2
  <2>. HIDE DEF g
  <2>. DEFINE P == SumFunction(Profit(row))
              C == SumFunction(Charges)
              d == Fee * c
  <2>7. d \in Int /\ P \in Int /\ C \in Int /\ Scale \in Int
    BY <1>3a, <1>10
  <2>8. realized' = Scale * (P - C) + (Scale * g - Scale * d)
    BY <1>3, <1>6, <2>6
  <2>9. SumFunction(Profit(row')) = P + g /\ SumFunction(Charges') = C + d
    BY <1>11, <2>4
  <2>. HIDE DEF P, C, d
  <2>10. Scale * (P - C) + (Scale * g - Scale * d) = Scale * ((P + g) - (C + d))
    BY <2>5, <2>7
  <2>. QED
    BY <2>8, <2>9, <2>10
<1>13. CASE Purpose[o] # "EXIT"
  <2>1. Profit(row') = Profit(row)
    <3>1. \A k \in Exits : row'[k] = row[k]
      BY <1>1, <1>3, <1>13, ExitsAndAdds
    <3>. QED
      BY <3>1 DEF Profit
  <2>2. Purpose[o] = "ADD"
    BY <1>1, <1>13
  <2>3. RealizedBy(e) = - (Scale * (Fee * c))
    <3>1. CASE c = 1
      <4>1. Books(e) /\ e.status = "FILLED"
        BY <1>13, <3>1 DEF c
      <4>2. RealizedBy(e) = - Fee * Scale
        BY <2>2, <4>1 DEF RealizedBy
      <4>3. - Fee * Scale = - (Scale * (Fee * 1))
        OBVIOUS
      <4>. QED
        BY <3>1, <4>2, <4>3
    <3>2. CASE c = 0
      <4>1. RealizedBy(e) = 0
        BY <2>2, <3>2 DEF RealizedBy, c
      <4>2. - (Scale * (Fee * 0)) = 0
        OBVIOUS
      <4>. QED
        BY <3>2, <4>1, <4>2
    <3>. QED
      BY <1>3a, <3>1, <3>2
  <2>. DEFINE P == SumFunction(Profit(row))
              C == SumFunction(Charges)
              d == Fee * c
  <2>4. d \in Int /\ P \in Int /\ C \in Int /\ Scale \in Int
    BY <1>3a, <1>10
  <2>5. realized' = Scale * (P - C) + (- (Scale * d))
    BY <1>3, <1>6, <2>3
  <2>6. SumFunction(Profit(row')) = P /\ SumFunction(Charges') = C + d
    BY <1>11, <2>1
  <2>. HIDE DEF P, C, d
  <2>7. Scale * (P - C) + (- (Scale * d)) = Scale * (P - (C + d))
    BY <2>4
  <2>. QED
    BY <2>5, <2>6, <2>7
<1>. QED
  BY <1>12, <1>13

LEMMA CapitalBooked ==
    ASSUME Inv, TypeOK', FilledIsAll, Announced, Priced, CapitalSoFar, RepeatOld = FALSE,
           missed' = {}, Deliver, NEW e \in Event, e = stream[1], Applied(e)
    PROVE  CapitalSoFar'
<1>. DEFINE o == e.order
            y == row[o].z
<1>0. TypeOK /\ row \in [Orders -> Fills] /\ row' \in [Orders -> Fills]
  BY DEF Inv, TypeOK
<1>1. /\ o \in Orders /\ e.z \in Nat /\ e.z <= OrderQty
      /\ UNCHANGED <<exch, trades, prices>>
      /\ Delta(e) \in Nat /\ y \in Nat
      /\ Books(e) <=> Delta(e) > 0
  BY BookingSettles
<1>2. Delta(e) = e.z - y
  BY DEF Delta
<1>3. /\ row'[o].z = e.z /\ row'[o].notional = e.notional
      /\ \A k \in Orders \ {o} : row'[k] = row[k]
      /\ capital' = capital + CapitalBy(e)
  BY DEF Applied
<1>3b. 1 \in 1 .. Len(stream)
  <2>1. Len(stream) \in Nat /\ Len(stream) >= 1
    BY <1>0, ADelivery, Zenon
  <2>. QED
    BY <2>1
<1>. HIDE DEF y
<1>4. SUFFICES ASSUME \A k \in Adds : OnePrice(k)'
               PROVE  capital' = Scale * SumFunction(Notional(row'))
  BY DEF CapitalSoFar
<1>5. \A k \in Adds : OnePrice(k)
  BY <1>1, <1>4 DEF OnePrice
<1>6. capital = Scale * SumFunction(Notional(row))
  BY <1>5 DEF CapitalSoFar
<1>7. Notional(row) \in [Adds -> Int] /\ Notional(row') \in [Adds -> Int]
  BY <1>0, MoneyTerms
<1>8. SumFunction(Notional(row)) \in Int
  BY <1>7, SumType, ExitsAndAdds
<1>9. CASE Purpose[o] = "ADD"
  <2>1. o \in Adds
    BY <1>1, <1>9, ExitsAndAdds
  <2>2. PICK p \in Nat : PricedAt(o, p)
    BY <1>0, <1>1, <1>5, <2>1, OfOnePrice
  <2>3. row[o].notional = p * y /\ e.notional = p * e.z /\ At(e, p)
    BY <1>3b, <2>2 DEF PricedAt, At, y
  <2>4. SumFunction(Notional(row')) = SumFunction(Notional(row)) + (p * e.z - p * y)
    <3>1. \A k \in Adds \ {o} : Notional(row')[k] = Notional(row)[k]
      BY <1>3, ExitsAndAdds DEF Notional
    <3>2. Notional(row')[o] = p * e.z /\ Notional(row)[o] = p * y
      BY <1>3, <2>1, <2>3 DEF Notional
    <3>3. SumFunction(Notional(row')) = SumFunction(Notional(row)) + Notional(row')[o] - Notional(row)[o]
      BY <1>7, <2>1, <3>1, SumChanges, ExitsAndAdds
    <3>4. Notional(row')[o] \in Int /\ Notional(row)[o] \in Int
      BY <1>7, <2>1
    <3>. HIDE DEF Notional
    <3>. QED
      BY <1>8, <3>2, <3>3, <3>4
  <2>5. CapitalBy(e) = Scale * (p * e.z - p * y)
    <3>1. CASE Books(e)
      <4>1. CapitalBy(e) = (e.z - y) * Avg(e)
        BY <1>2, <1>9, <3>1 DEF CapitalBy
      <4>2. e.z \in 1 .. OrderQty
        BY <1>1, <1>2, <3>1
      <4>3. Avg(e) = p * Scale
        BY <2>3, <4>2, AverageIsPrice
      <4>4. (e.z - y) * (p * Scale) = Scale * (p * e.z - p * y)
        BY <1>1
      <4>. QED
        BY <4>1, <4>3, <4>4
    <3>2. CASE ~ Books(e)
      <4>1. CapitalBy(e) = 0 /\ y = e.z
        BY <1>1, <1>2, <3>2 DEF CapitalBy
      <4>. QED
        BY <1>1, <4>1
    <3>. QED
      BY <3>1, <3>2
  <2>. DEFINE N == SumFunction(Notional(row))
              g == p * e.z - p * y
  <2>6. g \in Int /\ N \in Int /\ Scale \in Int
    BY <1>1, <1>8
  <2>7. capital' = Scale * N + Scale * g
    BY <1>3, <1>6, <2>5
  <2>8. SumFunction(Notional(row')) = N + g
    BY <2>4
  <2>. HIDE DEF N, g
  <2>. QED
    BY <2>6, <2>7, <2>8
<1>10. CASE Purpose[o] # "ADD"
  <2>1. Notional(row') = Notional(row)
    <3>1. o \notin Adds
      BY <1>1, <1>10, ExitsAndAdds
    <3>2. \A k \in Adds : row'[k] = row[k]
      BY <1>3, <3>1, ExitsAndAdds
    <3>. QED
      BY <3>2 DEF Notional
  <2>2. CapitalBy(e) = 0
    BY <1>10 DEF CapitalBy
  <2>. QED
    BY <1>0, <1>3, <1>6, <2>1, <2>2 DEF TypeOK
<1>. QED
  BY <1>9, <1>10

(* As long as nothing was missed.                                          *)
SoFar == missed = {} => Announced /\ ProfitSoFar /\ CapitalSoFar

MoneyInv == Inv /\ FilledIsAll /\ Priced /\ SoFar

LEMMA InitMoney == Init => MoneyInv
<1>. SUFFICES ASSUME Init PROVE MoneyInv
  OBVIOUS
<1>1. Inv
  BY InitTyped, InitInOrder DEF Inv
<1>2. \A o \in Orders : exch[o] = Nothing /\ row[o] = Nothing /\ trades[o] = 0
                        /\ prices[o] = {} /\ booked[o] = 0
  BY DEF Init
<1>3. stream = <<>> /\ past = <<>> /\ realized = 0 /\ capital = 0
  BY DEF Init
<1>4. Nothing.status = NoOrder /\ Nothing.z = 0 /\ Nothing.notional = 0
  BY DEF Nothing
<1>5. FilledIsAll
  BY <1>2, <1>3, <1>4 DEF FilledIsAll
<1>6. Priced
  BY <1>2, <1>3, <1>4 DEF Priced, PricedAt, At
<1>7. Announced
  BY <1>2, <1>3, <1>4 DEF Announced
<1>8. row \in [Orders -> Fills]
  BY <1>1 DEF Inv, TypeOK
<1>9. Profit(row) \in [Exits -> Int] /\ Notional(row) \in [Adds -> Int]
  BY <1>8, MoneyTerms
<1>10. SumFunction(Profit(row)) = 0 /\ SumFunction(Notional(row)) = 0
  <2>1. \A o \in Exits : Profit(row)[o] = 0
    BY <1>2, <1>4, ExitsAndAdds DEF Profit
  <2>2. \A o \in Adds : Notional(row)[o] = 0
    BY <1>2, <1>4, ExitsAndAdds DEF Notional
  <2>. QED
    BY <1>9, <2>1, <2>2, SumOfZeros, ExitsAndAdds
<1>11. SumFunction(Charges) = 0
  <2>1. \A o \in Orders : Fresh(o) = {}
    BY <1>3 DEF Fresh
  <2>2. \A o \in Orders : Settled(o) = 0
    <3>1. \A o \in Orders : Cardinality(Fresh(o)) = 0
      BY <2>1, FreshType, FS_EmptySet
    <3>2. \A o \in Orders : trades[o] = 0 /\ row[o].status # "FILLED"
      BY <1>2, <1>4
    <3>. QED
      BY <3>1, <3>2 DEF Settled
  <2>3. \A o \in Orders : Charges[o] = 0
    BY <2>2 DEF Charges
  <2>4. Charges \in [Orders -> Int]
    BY <2>2 DEF Charges
  <2>. QED
    BY <2>3, <2>4, SumOfZeros, ExitsAndAdds
<1>12. ProfitSoFar /\ CapitalSoFar
  BY <1>3, <1>10, <1>11 DEF ProfitSoFar, CapitalSoFar
<1>. QED
  BY <1>1, <1>5, <1>6, <1>7, <1>12 DEF MoneyInv, SoFar

LEMMA MoneyStep ==
    ASSUME MoneyInv, [Next]_vars, RepeatOld = FALSE, ~ WithRepair
    PROVE  MoneyInv'
<1>1. Inv' /\ TypeOK /\ TypeOK' /\ Inv
  BY NextTyped, NextInOrder DEF Inv, MoneyInv
<1>2. FilledIsAll' /\ Priced'
  BY <1>1, FilledStep, PricedStep DEF MoneyInv
<1>3. ASSUME missed' = {}
      PROVE  Announced' /\ ProfitSoFar' /\ CapitalSoFar'
  <2>1. Announced /\ ProfitSoFar /\ CapitalSoFar
    BY <1>3, MissedStays DEF MoneyInv, SoFar
  <2>2. Announced'
    BY <1>1, <1>3, <2>1, AnnouncedStep
  <2>3. CASE Deliver /\ Applied(stream[1])
    <3>1. stream[1] \in Event
      BY <1>1, <2>3, ADelivery
    <3>. QED
      BY <1>1, <1>3, <2>1, <2>2, <2>3, <3>1, ProfitBooked, CapitalBooked DEF MoneyInv
  <2>4. CASE \E o \in Orders : Reports(o)
    BY <1>1, <2>1, <2>2, <2>4, ReportIsQuiet, QuietMoney DEF MoneyInv
  <2>5. CASE ~ (Deliver /\ Applied(stream[1])) /\ \A o \in Orders : ~ Reports(o)
    BY <1>1, <1>3, <2>1, <2>2, <2>5, OthersAreQuiet, QuietMoney
  <2>. QED
    BY <2>3, <2>4, <2>5
<1>. QED
  BY <1>1, <1>2, <1>3 DEF MoneyInv, SoFar

(* With nothing on its way a row shows what the exchange has.              *)
LEMMA DrainedIsKnown ==
    ASSUME MoneyInv, Drained, NEW o \in Orders
    PROVE  /\ row[o].z = exch[o].z
           /\ (row[o].status = "FILLED") = (exch[o].status = "FILLED")
           /\ Fresh(o) = {}
<1>1. stream = <<>> /\ Announced
  BY DEF MoneyInv, SoFar, Drained
<1>2. exch[o].z \in Nat /\ row[o].z \in Nat /\ row[o].z <= exch[o].z
  BY Quantities DEF MoneyInv, Inv
<1>3. ~ (row[o].z < exch[o].z)
  BY <1>1 DEF Announced
<1>4. row[o].z = exch[o].z
  BY <1>2, <1>3
<1>5. Fresh(o) = {}
  BY <1>1 DEF Fresh
<1>. QED
  BY <1>4, <1>5 DEF MoneyInv, FilledIsAll

LEMMA DrainedIsExact ==
    ASSUME MoneyInv
    PROVE  ProfitIsExact /\ CapitalIsExact
<1>. SUFFICES ASSUME Drained PROVE ProfitIsExact /\ CapitalIsExact
  BY DEF ProfitIsExact, CapitalIsExact
<1>1. ProfitSoFar /\ CapitalSoFar /\ Priced /\ TypeOK
  BY DEF MoneyInv, SoFar, Drained, Inv
<1>2. ASSUME NEW o \in Orders, OnePrice(o)
      PROVE  row[o].notional = exch[o].notional
  <2>1. PICK p \in Nat : PricedAt(o, p)
    BY <1>1, <1>2, OfOnePrice
  <2>. QED
    BY <2>1, DrainedIsKnown DEF PricedAt, At
<1>3. ASSUME OneTradeAdds, \A o \in Exits : OnePrice(o)
      PROVE  realized = NetOfTrades
  <2>1. Profit(row) = Profit(exch)
    BY <1>2, <1>3, DrainedIsKnown, ExitsAndAdds DEF Profit
  <2>2. \A o \in Orders : Settled(o) = trades[o]
    <3>1. \A o \in Exits : Settled(o) = trades[o]
      <4>1. \A o \in Orders : Cardinality(Fresh(o)) = 0 /\ trades[o] \in Nat
        BY <1>1, DrainedIsKnown, FreshType, FS_EmptySet DEF TypeOK
      <4>. QED
        BY <4>1, ExitsAndAdds DEF Settled
    <3>2. \A o \in Adds : Settled(o) = trades[o]
      BY <1>3, DrainedIsKnown, ExitsAndAdds DEF Settled, OneTradeAdds
    <3>. QED
      BY <3>1, <3>2, ExitsAndAdds
  <2>3. Charges = [o \in Orders |-> Fee * trades[o]]
    BY <2>2 DEF Charges
  <2>. QED
    BY <1>1, <1>3, <2>1, <2>3 DEF ProfitSoFar, NetOfTrades
<1>4. ASSUME \A o \in Adds : OnePrice(o)
      PROVE  capital = Scale * SumFunction(Notional(exch))
  <2>1. Notional(row) = Notional(exch)
    BY <1>2, <1>4, ExitsAndAdds DEF Notional
  <2>. QED
    BY <1>1, <1>4, <2>1 DEF CapitalSoFar
<1>. QED
  BY <1>3, <1>4 DEF ProfitIsExact, CapitalIsExact

(* A repair's work is not covered: Drained leaves those runs out.          *)
LEMMA MoneyAlways ==
    ASSUME RepeatOld = FALSE
    PROVE  Spec => [](ProfitIsExact /\ CapitalIsExact)
<1>1. CASE WithRepair
  <2>1. ProfitIsExact /\ CapitalIsExact
    BY <1>1 DEF ProfitIsExact, CapitalIsExact, Drained
  <2>. QED
    BY <2>1, PTL
<1>2. CASE ~ WithRepair
  <2>1. MoneyInv /\ [Next]_vars => MoneyInv'
    BY <1>2, MoneyStep
  <2>2. MoneyInv => ProfitIsExact /\ CapitalIsExact
    BY DrainedIsExact
  <2>. QED
    BY <2>1, <2>2, InitMoney, PTL DEF Spec
<1>. QED
  BY <1>1, <1>2

(* Once every event has come in and no fill was missed, realized_pnl is    *)
(* exactly what the exits earned on the exchange less the commissions: for *)
(* any number of orders and trades, each exit filled at one price.         *)
THEOREM EarnedIsBooked == RepeatOld = FALSE => (Spec => []ProfitIsExact)
<1>. SUFFICES ASSUME RepeatOld = FALSE PROVE Spec => []ProfitIsExact
  OBVIOUS
<1>. QED
  BY MoneyAlways, PTL

(* And total_capital has grown by exactly what was added (Fix 396).        *)
THEOREM AddedIsBooked == RepeatOld = FALSE => (Spec => []CapitalIsExact)
<1>. SUFFICES ASSUME RepeatOld = FALSE PROVE Spec => []CapitalIsExact
  OBVIOUS
<1>. QED
  BY MoneyAlways, PTL

-----------------------------------------------------------------------------
(* What FillLedger promises is enough: of whatever implements it, no order *)
(* has more booked than was executed.                                      *)
THEOREM FillLedgerSuffices == BooksAtMostOnce => []NeverBookedTwice
<1>. DEFINE Good == /\ Filled \in [Orders -> Nat] /\ booked \in [Orders -> Nat]
                    /\ \A o \in Orders : booked[o] <= Filled[o]
<1>1. AtMostOnce!Init => Good
  BY DEF AtMostOnce!Init
<1>2. Good /\ [AtMostOnce!Next]_<<Filled, booked>> => Good'
  <2>. SUFFICES ASSUME Good, [AtMostOnce!Next]_<<Filled, booked>> PROVE Good'
    OBVIOUS
  <2>1. ASSUME NEW o \in Orders, AtMostOnce!Execute(o) PROVE Good'
    <3>1. /\ Filled'[o] \in Nat /\ Filled'[o] > Filled[o] /\ booked' = booked
          /\ Filled' = [Filled EXCEPT ![o] = Filled'[o]]
      BY <2>1 DEF AtMostOnce!Execute
    <3>. QED
      BY <3>1
  <2>2. ASSUME NEW o \in Orders, AtMostOnce!Book(o) PROVE Good'
    <3>1. /\ booked'[o] \in booked[o] + 1 .. Filled[o] /\ Filled' = Filled
          /\ booked' = [booked EXCEPT ![o] = booked'[o]]
      BY <2>2 DEF AtMostOnce!Book
    <3>. QED
      BY <3>1
  <2>. QED
    BY <2>1, <2>2 DEF AtMostOnce!Next
<1>3. Good => NeverBookedTwice
  BY DEF NeverBookedTwice, Filled
<1>. QED
  BY <1>1, <1>2, <1>3, PTL DEF BooksAtMostOnce, AtMostOnce!Spec
=============================================================================
