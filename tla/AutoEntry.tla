------------------------------ MODULE AutoEntry ------------------------------
(***************************************************************************)
(* How strategies come to be without their owner: the entry jobs that act  *)
(* on a signal, and the job that re-enters what has been closed.  They run *)
(* at the same time, each under a lock of its own name, and go the same    *)
(* way: look for a free slot, create a strategy (a duplicate? the kill     *)
(* switch? the account? the family's daily limit?), start its first stage, *)
(* and write it down.  Nothing but the daily limit is looked at under a    *)
(* lock.                                                                   *)
(*                                                                         *)
(* A refusal or a failure on the way is an exception: the re-entry job     *)
(* keeps the closed strategy for another time or gives it up, the others   *)
(* remove the strategy they have created, unless it may hold something.    *)
(*                                                                         *)
(* The model is of one account and one day.                                *)
(***************************************************************************)
EXTENDS Integers, FiniteSets, StrategyStatus

CONSTANTS
    Signals,        \* entry jobs that act on a signal
    Reentry,        \* the job auto_reentry
    Ids,            \* bound: the strategies there will ever be
    Old,            \* those of an earlier day, closed and ready to re-enter
    NoId, Nobody,
    Markets,        \* pairs of a symbol and a side
    Families,       \* families of automatic strategies
    MarketOf,       \* the market of an old strategy
    FamilyOf,       \* the family a signal job or an old strategy belongs to
    DailyMax,       \* daily_max_<family>
    Limit,          \* positions held at the same time
    MaxConcurrent,  \* max_concurrent_strategies_per_account
    Troubles,       \* which of AllTroubles there may be
    MaxTroubles     \* bound: how many of them

AllTroubles == {"switch", "halt", "ban", "unanswered", "crash"}
Jobs        == Signals \cup {Reentry}

ASSUME NameAssumption ==
    /\ Reentry \notin Signals /\ Nobody \notin Jobs
    /\ Old \subseteq Ids /\ NoId \notin Ids
    /\ IsFiniteSet(Signals) /\ IsFiniteSet(Ids)

ASSUME SettingAssumption ==
    /\ Markets # {} /\ Families # {}
    /\ MarketOf \in [Old -> Markets]
    /\ FamilyOf \in [Signals \cup Old -> Families]
    /\ DailyMax \in [Families -> Nat]
    /\ Limit \in Nat /\ MaxConcurrent \in Nat /\ MaxTroubles \in Nat
    /\ Troubles \subseteq AllTroubles

VARIABLES
    rows,           \* strategy_instances
    held,           \* external: strategies whose order the exchange holds
    bought,         \* those whose order it has ever accepted
    locks,          \* Postgres: the advisory lock of each family
    switch,         \* the account's kill switch
    halt,           \* system_settings: auto_trading_halt
    banned,         \* the client's breaker: no request leaves the process
    call,           \* the jobs: where they are and what they remember
    kept,           \* closed strategies a refusal has kept for another time
    spared,         \* jobs that had been cleared when the switch was turned on
    troubles        \* how many there have been

vars == <<rows, held, bought, locks, switch, halt, banned, call, kept, spared, troubles>>

Steps == {"idle", "slot", "looked", "answered", "counted", "created", "cleared",
          "margin", "placed", "started", "cleanup"}

RowStatuses == STATUSES \cup {"NONE", "DELETED", "WAITING", "REENTRY_DONE", "REENTRY_FAILED"}

Rows == [status : RowStatuses, market : Markets, family : Families, today : BOOLEAN,
         entered : BOOLEAN, parent : Ids \cup {NoId}]

Calls == [step : Steps, id : Ids \cup {NoId}, market : Markets, family : Families,
          parent : Ids \cup {NoId}]

AMarket == CHOOSE m \in Markets : TRUE
AFamily == CHOOSE f \in Families : TRUE
Idle    == [step |-> "idle", id |-> NoId, market |-> AMarket, family |-> AFamily, parent |-> NoId]
NoRow   == [status |-> "NONE", market |-> AMarket, family |-> AFamily, today |-> FALSE,
            entered |-> FALSE, parent |-> NoId]

Init ==
    /\ rows = [i \in Ids |-> IF i \in Old
                   THEN [NoRow EXCEPT !.status = "REENTRY_READY", !.market = MarketOf[i],
                                      !.family = FamilyOf[i], !.entered = TRUE]
                   ELSE NoRow]
    /\ held = {} /\ bought = {}
    /\ locks = [f \in Families |-> Nobody]
    /\ switch = FALSE /\ halt = FALSE /\ banned = FALSE
    /\ call = [j \in Jobs |-> Idle]
    /\ kept = {} /\ spared = {} /\ troubles = 0

At(j, step)       == call[j].step = step
Move(j, step)     == call' = [call EXCEPT ![j].step = step]
Trouble(what)     == what \in Troubles /\ troubles < MaxTroubles /\ troubles' = troubles + 1
Released(j)       == [f \in Families |-> IF locks[f] = j THEN Nobody ELSE locks[f]]
Exists(i)         == rows[i].status \notin {"NONE", "DELETED"}
Active            == {i \in Ids : rows[i].status \in ACTIVE_LIKE}
HeldOn(m)         == {i \in held : rows[i].market = m}

(* What the checks read: not archived, and not over.  REENTRY_DONE and     *)
(* REENTRY_FAILED are not among TERMINAL_STATUSES.                         *)
Unended           == {i \in Ids : Exists(i) /\ rows[i].status \notin TERMINAL_STATUSES}
ActiveDuplicates(m) ==                            \* bug: looks for the active ones only
    {i \in Ids : rows[i].status \in ACTIVE_LIKE /\ rows[i].market = m}
Duplicates(m)     == {i \in Unended : rows[i].market = m}

counts_toward_today(i) ==
    rows[i].entered \/ rows[i].status \in ACTIVE_LIKE \cup {"WAITING"}

CountedToday(f) == {i \in Ids : /\ Exists(i) /\ rows[i].today /\ rows[i].family = f
                                /\ counts_toward_today(i)}

-----------------------------------------------------------------------------
(***************************************************************************)
(* A pass: the slot, the creation, the start.                              *)
(***************************************************************************)
SlotFreeOfOpen ==                                 \* bug: orders on their way are not counted
    Cardinality({i \in Ids : rows[i].status \in ACTIVE_WITH_POSITION}) < Limit
SlotFree       == Cardinality(Active) < Limit

Begins(j, m, f, p) ==
    /\ At(j, "idle")
    /\ SlotFree
    /\ call' = [call EXCEPT ![j] = [step |-> "slot", id |-> NoId, market |-> m, family |-> f, parent |-> p]]
    /\ UNCHANGED <<rows, held, bought, locks, switch, halt, banned, kept, spared, troubles>>

SignalBegins(j) == \E m \in Markets : Begins(j, m, FamilyOf[j], NoId)

(* An account noted as banned is passed over; whether a ban of the client  *)
(* has been noted for the account is another matter (core/api_backoff).    *)
ReentryBegins(p) ==
    /\ rows[p].status = "REENTRY_READY"
    /\ Begins(Reentry, rows[p].market, rows[p].family, p)

NotAlone(j) == Duplicates(call[j].market) # {}

CreateLooks(j) ==
    /\ At(j, "slot")
    /\ ~ NotAlone(j) /\ ~ switch /\ Cardinality(Unended) < MaxConcurrent
    /\ Move(j, "looked")
    /\ UNCHANGED <<rows, held, bought, locks, switch, halt, banned, kept, spared, troubles>>

AccountAnswers(j) ==
    /\ At(j, "looked")
    /\ ~ banned /\ HeldOn(call[j].market) = {}
    /\ Move(j, "answered")
    /\ UNCHANGED <<rows, held, bought, locks, switch, halt, banned, kept, spared, troubles>>

(* The lock lives until the transaction ends. *)
UnlockedCounts(j) ==                              \* bug: counts without the lock
    /\ At(j, "answered")
    /\ ~ halt
    /\ Cardinality(CountedToday(call[j].family)) < DailyMax[call[j].family]
    /\ Move(j, "counted")
    /\ UNCHANGED <<rows, held, bought, locks, switch, halt, banned, kept, spared, troubles>>

CreateCounts(j) ==
    /\ At(j, "answered")
    /\ ~ halt
    /\ locks[call[j].family] = Nobody
    /\ Cardinality(CountedToday(call[j].family)) < DailyMax[call[j].family]
    /\ locks' = [locks EXCEPT ![call[j].family] = j]
    /\ Move(j, "counted")
    /\ UNCHANGED <<rows, held, bought, switch, halt, banned, kept, spared, troubles>>

CreateCommits(j, i) ==
    /\ At(j, "counted")
    /\ rows[i].status = "NONE"
    /\ rows' = [rows EXCEPT ![i] = [status |-> "WAITING", market |-> call[j].market,
                                    family |-> call[j].family, today |-> TRUE,
                                    entered |-> FALSE, parent |-> call[j].parent]]
    /\ locks' = Released(j)
    /\ call' = [call EXCEPT ![j].step = "created", ![j].id = i]
    /\ UNCHANGED <<held, bought, switch, halt, banned, kept, spared, troubles>>

(* The daily limit again, without the lock, and without this strategy. *)
OverLimit(j) ==
    Cardinality(CountedToday(call[j].family) \ {call[j].id}) >= DailyMax[call[j].family]

HaltedOnly(j) == halt                            \* bug: the switch is not looked at
Stopped(j)    == switch \/ halt

StartLooks(j) ==
    /\ At(j, "created")
    /\ ~ Stopped(j) /\ ~ OverLimit(j)
    /\ Move(j, "cleared")
    /\ UNCHANGED <<rows, held, bought, locks, switch, halt, banned, kept, spared, troubles>>

MarginIsSet(j) ==
    /\ At(j, "cleared")
    /\ ~ banned
    /\ Move(j, "margin")
    /\ UNCHANGED <<rows, held, bought, locks, switch, halt, banned, kept, spared, troubles>>

Accepted(j) ==
    /\ held' = held \cup {call[j].id}
    /\ bought' = bought \cup {call[j].id}

OrderAnswered(j) ==
    /\ At(j, "margin")
    /\ ~ banned
    /\ Accepted(j)
    /\ Move(j, "placed")
    /\ UNCHANGED <<rows, locks, switch, halt, banned, kept, spared, troubles>>

StartCommits(j) ==
    /\ At(j, "placed")
    /\ rows' = [rows EXCEPT ![call[j].id].status = "STAGE1_OPEN_PENDING", ![call[j].id].entered = TRUE]
    /\ call' = [call EXCEPT ![j] = IF j = Reentry THEN [@ EXCEPT !.step = "started"] ELSE Idle]
    /\ spared' = spared \ {j}
    /\ UNCHANGED <<held, bought, locks, switch, halt, banned, kept, troubles>>

ReentryDone ==
    /\ At(Reentry, "started")
    /\ rows' = [rows EXCEPT ![call[Reentry].parent].status = "REENTRY_DONE"]
    /\ call' = [call EXCEPT ![Reentry] = Idle]
    /\ UNCHANGED <<held, bought, locks, switch, halt, banned, kept, spared, troubles>>

-----------------------------------------------------------------------------
(***************************************************************************)
(* Refusals and failures.                                                  *)
(***************************************************************************)
(* What the re-entry job takes for an answer of the moment. *)
Passing == {"halt", "limit", "ban"}

(* Why a step of job j raises instead.  A request the breaker suppresses   *)
(* is taken for a ban only where its exception has been wrapped in another *)
(* that quotes it: get_account and ensure_isolated_margin, not the order.  *)
Raises(j, why) ==
    \/ /\ why = "error"
       /\ \/ At(j, "slot") /\ (NotAlone(j) \/ switch \/ Cardinality(Unended) >= MaxConcurrent)
          \/ At(j, "looked") /\ ~ banned /\ HeldOn(call[j].market) # {}
          \/ At(j, "created") /\ Stopped(j) /\ switch
          \/ At(j, "margin") /\ banned
    \/ /\ why = "ban"
       /\ banned
       /\ call[j].step \in {"looked", "cleared"}
    \/ /\ why = "halt"
       /\ halt
       /\ \/ At(j, "answered")
          \/ At(j, "created") /\ ~ switch
    \/ /\ why = "limit"
       /\ ~ halt
       /\ \/ /\ At(j, "answered")
             /\ \/ locks[call[j].family] # Nobody
                \/ Cardinality(CountedToday(call[j].family)) >= DailyMax[call[j].family]
          \/ At(j, "created") /\ ~ switch /\ OverLimit(j)

(* The transaction is rolled back.  A row that was committed stays: the    *)
(* re-entry job leaves it, the others look whether it may go.              *)
Fails(j, why) ==
    /\ locks' = Released(j)
    /\ spared' = spared \ {j}
    /\ IF j = Reentry
       THEN LET p == call[j].parent IN
            /\ call' = [call EXCEPT ![j] = Idle]
            /\ rows' = IF why \in Passing THEN rows ELSE [rows EXCEPT ![p].status = "REENTRY_FAILED"]
            /\ kept' = IF why \in Passing THEN kept \cup {p} ELSE kept
       ELSE /\ call' = [call EXCEPT ![j] = IF @.id = NoId THEN Idle ELSE [@ EXCEPT !.step = "cleanup"]]
            /\ UNCHANGED <<rows, kept>>

Refused(j) ==
    /\ \E why \in Passing \cup {"error"} : Raises(j, why) /\ Fails(j, why)
    /\ UNCHANGED <<held, bought, switch, halt, banned, troubles>>

(* The exchange accepts the order, and its answer is lost. *)
OrderUnanswered(j) ==
    /\ At(j, "margin")
    /\ ~ banned /\ Trouble("unanswered")
    /\ Accepted(j)
    /\ Fails(j, "error")
    /\ UNCHANGED <<switch, halt, banned>>

(* Bug: the row is removed without a look. *)
NoResidue(j)  == TRUE
MayDelete(j)  == ~ banned /\ HeldOn(call[j].market) = {}

CleansUp(j) ==
    /\ At(j, "cleanup")
    /\ rows' = IF MayDelete(j)
               THEN [rows EXCEPT ![call[j].id].status = "DELETED"]
               ELSE [rows EXCEPT ![call[j].id].status = "STAGE1_OPEN_PENDING", ![call[j].id].entered = TRUE]
    /\ call' = [call EXCEPT ![j] = Idle]
    /\ UNCHANGED <<held, bought, locks, switch, halt, banned, kept, spared, troubles>>

(* The process that runs the jobs dies: transactions end, locks go. *)
Crash ==
    /\ Trouble("crash")
    /\ call' = [j \in Jobs |-> Idle]
    /\ locks' = [f \in Families |-> Nobody]
    /\ spared' = {}
    /\ UNCHANGED <<rows, held, bought, switch, halt, banned, kept>>

-----------------------------------------------------------------------------
(***************************************************************************)
(* Around the jobs.                                                        *)
(***************************************************************************)
(* The position is closed, and the stream books the end of the strategy. *)
Closes(i, s) ==
    /\ i \in held /\ i \in Active
    /\ held' = held \ {i}
    /\ rows' = [rows EXCEPT ![i].status = s]
    /\ UNCHANGED <<bought, locks, switch, halt, banned, call, kept, spared, troubles>>

Cleared == {j \in Jobs : call[j].step \in {"cleared", "margin"}}

SwitchTriggers ==
    /\ ~ switch /\ Trouble("switch")
    /\ switch' = TRUE /\ spared' = Cleared
    /\ UNCHANGED <<rows, held, bought, locks, halt, banned, call, kept>>

SwitchClears ==
    /\ switch
    /\ switch' = FALSE /\ spared' = {}
    /\ UNCHANGED <<rows, held, bought, locks, halt, banned, call, kept, troubles>>

Halts ==
    /\ \/ ~ halt /\ Trouble("halt") /\ halt' = TRUE
       \/ halt /\ halt' = FALSE /\ UNCHANGED troubles
    /\ UNCHANGED <<rows, held, bought, locks, switch, banned, call, kept, spared>>

Bans ==
    /\ \/ ~ banned /\ Trouble("ban") /\ banned' = TRUE
       \/ banned /\ banned' = FALSE /\ UNCHANGED troubles
    /\ UNCHANGED <<rows, held, bought, locks, switch, halt, call, kept, spared>>

-----------------------------------------------------------------------------
Creates(j) ==
    \/ CreateLooks(j) \/ AccountAnswers(j) \/ CreateCounts(j)
    \/ \E i \in Ids : CreateCommits(j, i)

Starts(j) ==
    \/ StartLooks(j) \/ MarginIsSet(j) \/ OrderAnswered(j) \/ StartCommits(j)
    \/ OrderUnanswered(j)

Next ==
    \/ \E j \in Signals : SignalBegins(j) \/ CleansUp(j)
    \/ \E p \in Ids : ReentryBegins(p)
    \/ \E j \in Jobs : Creates(j) \/ Starts(j) \/ Refused(j)
    \/ ReentryDone \/ Crash
    \/ \E i \in Ids, s \in {"REENTRY_READY", "STOPPED"} : Closes(i, s)
    \/ SwitchTriggers \/ SwitchClears \/ Halts \/ Bans

Spec == Init /\ [][Next]_vars

-----------------------------------------------------------------------------
(***************************************************************************)
(* Properties.                                                             *)
(***************************************************************************)
TypeOK ==
    /\ rows \in [Ids -> Rows]
    /\ held \subseteq Ids /\ bought \subseteq Ids /\ kept \subseteq Ids
    /\ locks \in [Families -> Jobs \cup {Nobody}]
    /\ switch \in BOOLEAN /\ halt \in BOOLEAN /\ banned \in BOOLEAN
    /\ call \in [Jobs -> Calls]
    /\ spared \subseteq Jobs
    /\ troubles \in 0 .. MaxTroubles

(* However the jobs interleave, fail or die, no more of today's strategies *)
(* of a family exist to be counted, or have ever been bought, than its     *)
(* daily limit (auto_family_registry).                                     *)
BoughtOf(f) == {i \in bought : rows[i].family = f}
FamilyDailyCap ==
    \A f \in Families : Cardinality(CountedToday(f) \cup BoughtOf(f)) <= DailyMax[f]

(* An entry the exchange holds that nobody will count: its row still waits *)
(* and no job is at work on it (a crash, or a lost answer).                *)
Lost == {i \in held \ Active : \A j \in Jobs : call[j].id # i}

Taken == (Active \cup held) \ Lost

(* The slot limit is looked at before the creation and not again: jobs at  *)
(* work together may pass it, but never by more than one position each but *)
(* the first (position_limit, and the recheck of Fix 168).                 *)
SlotBound ==
    Cardinality(Taken) <= Limit + Cardinality(Jobs) - 1

(* Once the kill switch is on, the only orders are those of starts that    *)
(* had already passed the check of start_stage1.                           *)
SwitchStops ==
    [][\A i \in bought' \ bought : switch => \E j \in spared : call[j].id = i]_vars

(* The jobs, with all that may go wrong with them, enter as EntryLicence   *)
(* allows: within the limit of a family, nothing twice, and after the kill *)
(* switch only what start_stage1 had let through.                          *)
LetThrough == {call[j].id : j \in spared \cap Cleared}
Licence    == INSTANCE EntryLicence WITH
                  Entries <- Ids, Licensed <- DailyMax, Starters <- Cardinality(Jobs),
                  entered <- [f \in Families |-> BoughtOf(f)], stopped <- switch,
                  through <- LetThrough
EntersByLicence == Licence!Spec

(* Whatever went wrong with an entry, the row of one the exchange holds is *)
(* never removed: the clean-up looks first (Fix 162).                      *)
EntriesAreKnown == \A i \in held : Exists(i)

(* A closed strategy is re-entered once at a time, also when the job dies  *)
(* between the start and REENTRY_DONE, or leaves the new row behind.       *)
Children(p) == {i \in Ids : rows[i].parent = p /\ rows[i].status \in ACTIVE_LIKE \cup {"WAITING"}}
ReentryOnce == \A p \in Ids : Cardinality(Children(p)) <= 1

(* Promised of a halt or a ban: the chance to re-enter is kept until it is *)
(* over (auto_reentry_worker.py:189, 195).  It is not given up because of  *)
(* the row the refused attempt itself has left.                            *)
ChanceIsKept ==
    \A p \in kept : rows[p].status = "REENTRY_FAILED" =>
        \A i \in Children(p) : rows[i].status # "WAITING"

(* Promised of a failed re-entry: it is over (SYSTEM-SPEC.md:178), so that *)
(* it does not keep others from its market.                                *)
EndedFreesMarket ==
    \A j \in Jobs : At(j, "slot") /\ NotAlone(j) =>
        \E i \in Duplicates(call[j].market) : rows[i].status # "REENTRY_FAILED"

-----------------------------------------------------------------------------
(***************************************************************************)
(* The inductive invariant.                                                *)
(***************************************************************************)
WithRow  == {"created", "cleared", "margin", "placed", "cleanup"}
Unbought == {"created", "cleared", "margin"}
Creating == {"slot", "looked", "answered", "counted"}

(* A job that has created a row is the only one to know it; the row waits, *)
(* and is bought exactly when the order has been sent.                     *)
CallFits(j) ==
    /\ call[j].step \in WithRow =>
          /\ call[j].id \in Ids /\ rows[call[j].id].status = "WAITING"
          /\ rows[call[j].id].market = call[j].market
    /\ call[j].step \in Creating \cup {"idle"} => call[j].id = NoId
    /\ call[j].step \in Unbought => call[j].id \notin bought
    /\ At(j, "placed") => call[j].id \in held
    /\ At(j, "cleanup") => j # Reentry
    /\ At(j, "started") =>
          /\ j = Reentry /\ call[j].id \in Ids
          /\ Exists(call[j].id) /\ rows[call[j].id].status # "WAITING"
    /\ j # Reentry => call[j].parent = NoId

CallsFit == \A j \in Jobs : CallFits(j)

IdsDiffer == \A j, k \in Jobs : call[j].id = call[k].id /\ call[j].id # NoId => j = k

Written == {"NONE", "DELETED", "WAITING", "STAGE1_OPEN_PENDING", "STOPPED",
            "REENTRY_READY", "REENTRY_DONE", "REENTRY_FAILED"}

RowFits(i) ==
    /\ rows[i].status \in Written
    /\ i \in held => i \in bought /\ rows[i].status \in {"WAITING", "STAGE1_OPEN_PENDING"}
    /\ i \in bought => Exists(i) /\ rows[i].today /\ counts_toward_today(i)
    /\ i \in bought /\ rows[i].status = "WAITING" => i \in held
    /\ rows[i].status = "STAGE1_OPEN_PENDING" => rows[i].entered
    /\ rows[i].status = "WAITING" => rows[i].today

RowsFit == \A i \in Ids : RowFits(i)

LocksFit ==
    /\ \A f \in Families, j \in Jobs : locks[f] = j <=> At(j, "counted") /\ call[j].family = f
    /\ \A f \in Families :
          /\ Cardinality(CountedToday(f)) <= DailyMax[f]
          /\ locks[f] # Nobody => Cardinality(CountedToday(f)) < DailyMax[f]

(* Jobs that have found a slot and not taken it yet. *)
Pend == {j \in Jobs : \/ call[j].step \in Creating \cup Unbought
                      \/ At(j, "cleanup") /\ call[j].id \notin held}

SlotsFit == Cardinality(Taken) + Cardinality(Pend) <= Limit + Cardinality(Jobs) - 1

SwitchFits ==
    /\ switch => Cleared \subseteq spared
    /\ ~ switch => spared = {}

ParentsFit ==
    /\ ~ At(Reentry, "idle") =>
          /\ call[Reentry].parent \in Ids
          /\ rows[call[Reentry].parent].status = "REENTRY_READY"
          /\ rows[call[Reentry].parent].market = call[Reentry].market
    /\ call[Reentry].step \in {"looked", "answered", "counted"} => Children(call[Reentry].parent) = {}
    /\ \A i \in Ids : Exists(i) /\ rows[i].parent # NoId =>
          /\ rows[rows[i].parent].status \in {"REENTRY_READY", "REENTRY_DONE", "REENTRY_FAILED"}
          /\ rows[i].market = rows[rows[i].parent].market
    /\ \A p \in Ids : \A i, k \in Children(p) : i = k

(* What makes the rest inductive: who knows which row, who holds a lock,   *)
(* and how many slots are taken or spoken for.                             *)
AutoInv ==
    /\ TypeOK /\ CallsFit /\ IdsDiffer /\ RowsFit /\ LocksFit /\ SlotsFit /\ SwitchFits /\ ParentsFit
=============================================================================
