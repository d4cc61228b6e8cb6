-------------------------- MODULE AutoEntry_proofs --------------------------
(***************************************************************************)
(* Theorems about AutoEntry, for any jobs, strategies, families, limits    *)
(* and troubles: its invariants follow from AutoInv, and the jobs          *)
(* implement EntryLicence.                                                 *)
(***************************************************************************)
EXTENDS AutoEntry, FiniteSetTheorems, TLAPS

USE NameAssumption, SettingAssumption

(* Of the statuses the module writes, one counts as active. *)
LEMMA StatusFacts ==
    /\ Written \subseteq RowStatuses
    /\ \A s \in Written : s \in ACTIVE_LIKE <=> s = "STAGE1_OPEN_PENDING"
    /\ "WAITING" \notin TERMINAL_STATUSES /\ "STAGE1_OPEN_PENDING" \notin TERMINAL_STATUSES
  BY DEF Written, RowStatuses, STATUSES, ACTIVE_LIKE, ACTIVE_WAITING, ACTIVE_WITH_POSITION,
         OPEN_LIKE_FOR_ORPHAN_CHECK, TpPartial, MANUAL_CLEANUP_REQUIRED, TERMINAL_STATUSES

LEMMA Defaults ==
    /\ AMarket \in Markets /\ AFamily \in Families
    /\ Idle \in Calls /\ NoRow \in Rows
<1>1. AMarket \in Markets /\ AFamily \in Families
  BY DEF AMarket, AFamily
<1>2. Idle \in Calls
  BY <1>1 DEF Idle, Calls, Steps
<1>3. NoRow \in Rows
  BY <1>1, StatusFacts DEF NoRow, Rows, Written
<1>. QED
  BY <1>1, <1>2, <1>3

(* The moves that change nothing but a job's step. *)
MovesOn(j) == CreateLooks(j) \/ AccountAnswers(j) \/ StartLooks(j) \/ MarginIsSet(j)

Around == SwitchTriggers \/ SwitchClears \/ Halts \/ Bans

(* The steps of the module, flat. *)
LEMMA Cases ==
    ASSUME Next
    PROVE  \/ \E j \in Signals, m \in Markets : Begins(j, m, FamilyOf[j], NoId)
           \/ \E p \in Ids : ReentryBegins(p)
           \/ \E j \in Jobs : MovesOn(j)
           \/ \E j \in Jobs : CreateCounts(j)
           \/ \E j \in Jobs, i \in Ids : CreateCommits(j, i)
           \/ \E j \in Jobs : OrderAnswered(j)
           \/ \E j \in Jobs : StartCommits(j)
           \/ \E j \in Jobs : OrderUnanswered(j)
           \/ \E j \in Jobs : Refused(j)
           \/ \E j \in Signals : CleansUp(j)
           \/ ReentryDone
           \/ Crash
           \/ \E i \in Ids, s \in {"REENTRY_READY", "STOPPED"} : Closes(i, s)
           \/ Around
  BY DEF Next, SignalBegins, Creates, Starts, MovesOn, Around

-----------------------------------------------------------------------------
(***************************************************************************)
(* Types.                                                                  *)
(***************************************************************************)
LEMMA InitTypeOK == Init => TypeOK
<1>. SUFFICES ASSUME Init PROVE TypeOK
  OBVIOUS
<1>1. rows \in [Ids -> Rows]
  <2>. SUFFICES ASSUME NEW i \in Ids PROVE rows[i] \in Rows
    BY DEF Init
  <2>1. CASE i \in Old
    <3>1. FamilyOf[i] \in Families /\ MarketOf[i] \in Markets
      BY <2>1
    <3>2. "REENTRY_READY" \in RowStatuses
      BY StatusFacts DEF Written
    <3>. QED
      BY <2>1, <3>1, <3>2, Defaults DEF Init, Rows, NoRow
  <2>2. CASE i \notin Old
    BY <2>2, Defaults DEF Init
  <2>. QED
    BY <2>1, <2>2
<1>2. call \in [Jobs -> Calls]
  BY Defaults DEF Init
<1>3. locks \in [Families -> Jobs \cup {Nobody}]
  BY DEF Init
<1>4. troubles \in 0 .. MaxTroubles
  <2>1. troubles = 0 /\ MaxTroubles \in Nat
    BY DEF Init
  <2>. QED
    BY <2>1
<1>5. /\ held \subseteq Ids /\ bought \subseteq Ids /\ kept \subseteq Ids /\ spared \subseteq Jobs
      /\ switch \in BOOLEAN /\ halt \in BOOLEAN /\ banned \in BOOLEAN
  BY DEF Init
<1>. QED
  BY <1>1, <1>2, <1>3, <1>4, <1>5 DEF TypeOK

(* A change of one row's status, or of its status and entered. *)
LEMMA RowTypes ==
    ASSUME TypeOK, NEW i, NEW s \in Written, NEW e \in BOOLEAN
    PROVE  /\ [rows EXCEPT ![i].status = s] \in [Ids -> Rows]
           /\ [rows EXCEPT ![i].status = s, ![i].entered = e] \in [Ids -> Rows]
<1>1. s \in RowStatuses
  BY StatusFacts
<1>2. \A k \in Ids : [rows[k] EXCEPT !.status = s] \in Rows
  BY <1>1 DEF TypeOK, Rows
<1>3. \A k \in Ids : [rows[k] EXCEPT !.status = s, !.entered = e] \in Rows
  <2>. TAKE k \in Ids
  <2>1. [rows[k] EXCEPT !.status = s] \in Rows
    BY <1>2
  <2>2. \A r \in Rows : [r EXCEPT !.entered = e] \in Rows
    BY DEF Rows
  <2>3. [rows[k] EXCEPT !.status = s, !.entered = e] = [[rows[k] EXCEPT !.status = s] EXCEPT !.entered = e]
    BY DEF TypeOK, Rows
  <2>. QED
    BY <2>1, <2>2, <2>3
<1>4. rows \in [Ids -> Rows]
  BY DEF TypeOK
<1>5. [rows EXCEPT ![i].status = s] \in [Ids -> Rows]
  BY <1>2, <1>4
<1>6. [rows EXCEPT ![i].status = s, ![i].entered = e] \in [Ids -> Rows]
  <2>. DEFINE r == [rows EXCEPT ![i].status = s, ![i].entered = e]
  <2>1. \A k \in Ids : r[k] = IF k = i THEN [rows[k] EXCEPT !.status = s, !.entered = e] ELSE rows[k]
    BY <1>4 DEF Rows
  <2>. QED
    BY <1>3, <1>4, <2>1
<1>. QED
  BY <1>5, <1>6

LEMMA CallTypes ==
    ASSUME TypeOK, NEW j
    PROVE  /\ \A s \in Steps : [call EXCEPT ![j].step = s] \in [Jobs -> Calls]
           /\ [call EXCEPT ![j] = Idle] \in [Jobs -> Calls]
           /\ \A i \in Ids, s \in Steps : [call EXCEPT ![j].step = s, ![j].id = i] \in [Jobs -> Calls]
  BY Defaults DEF TypeOK, Calls

LEMMA ReleasedType == ASSUME TypeOK, NEW j PROVE Released(j) \in [Families -> Jobs \cup {Nobody}]
  BY DEF TypeOK, Released

LEMMA FailsTypes ==
    ASSUME TypeOK, NEW j \in Jobs, NEW why, Fails(j, why), held' \subseteq Ids, bought' \subseteq Ids,
           switch' \in BOOLEAN /\ halt' \in BOOLEAN /\ banned' \in BOOLEAN,
           troubles' \in 0 .. MaxTroubles, call[j].parent \in Ids \/ j # Reentry
    PROVE  TypeOK'
<1>1. rows' \in [Ids -> Rows]
  <2>1. "REENTRY_FAILED" \in Written
    BY DEF Written
  <2>2. rows' = rows \/ rows' = [rows EXCEPT ![call[j].parent].status = "REENTRY_FAILED"]
    BY DEF Fails
  <2>3. rows \in [Ids -> Rows]
    BY DEF TypeOK
  <2>4. [rows EXCEPT ![call[j].parent].status = "REENTRY_FAILED"] \in [Ids -> Rows]
    BY <2>1, RowTypes
  <2>. QED
    BY <2>2, <2>3, <2>4
<1>2. call' \in [Jobs -> Calls]
  <2>1. "cleanup" \in Steps
    BY DEF Steps
  <2>2. CASE call' = [call EXCEPT ![j] = Idle]
    BY <2>2, CallTypes
  <2>3. CASE call' = [call EXCEPT ![j].step = "cleanup"]
    BY <2>1, <2>3, CallTypes
  <2>4. call' = [call EXCEPT ![j] = Idle] \/ call' = [call EXCEPT ![j].step = "cleanup"]
    BY DEF Fails, TypeOK
  <2>. QED
    BY <2>2, <2>3, <2>4
<1>3. locks' \in [Families -> Jobs \cup {Nobody}]
  BY ReleasedType DEF Fails
<1>4. kept' \subseteq Ids /\ spared' \subseteq Jobs
  BY DEF Fails, TypeOK
<1>. QED
  BY <1>1, <1>2, <1>3, <1>4 DEF TypeOK

LEMMA NextTypeOK ==
    ASSUME TypeOK, CallsFit, ParentsFit, [Next]_vars
    PROVE  TypeOK'
<1>. USE DEF At, Move
<1>1. CASE \E j \in Signals, m \in Markets : Begins(j, m, FamilyOf[j], NoId)
  <2>1. PICK j \in Signals, m \in Markets : Begins(j, m, FamilyOf[j], NoId)
    BY <1>1
  <2>2. FamilyOf[j] \in Families
    OBVIOUS
  <2>. QED
    BY <2>1, <2>2 DEF TypeOK, Begins, Calls, Steps
<1>2. CASE \E p \in Ids : ReentryBegins(p)
  <2>1. PICK p \in Ids : ReentryBegins(p)
    BY <1>2
  <2>2. rows[p].market \in Markets /\ rows[p].family \in Families
    BY DEF TypeOK, Rows
  <2>3. call' \in [Jobs -> Calls]
    BY <2>1, <2>2 DEF TypeOK, ReentryBegins, Begins, Calls, Steps
  <2>. QED
    BY <2>1, <2>3 DEF TypeOK, ReentryBegins, Begins
<1>3. CASE \E j \in Jobs : MovesOn(j)
  <2>1. PICK j \in Jobs : MovesOn(j)
    BY <1>3
  <2>2. {"looked", "answered", "cleared", "margin"} \subseteq Steps
    BY DEF Steps
  <2>3. call' \in [Jobs -> Calls]
    BY <2>1, <2>2, CallTypes DEF MovesOn, CreateLooks, AccountAnswers, StartLooks, MarginIsSet
  <2>. QED
    BY <2>1, <2>3 DEF TypeOK, MovesOn, CreateLooks, AccountAnswers, StartLooks, MarginIsSet
<1>4. CASE \E j \in Jobs : CreateCounts(j)
  <2>1. PICK j \in Jobs : CreateCounts(j)
    BY <1>4
  <2>2. call' \in [Jobs -> Calls]
    BY <2>1, CallTypes DEF CreateCounts, Steps
  <2>. QED
    BY <2>1, <2>2 DEF TypeOK, CreateCounts
<1>5. CASE \E j \in Jobs, i \in Ids : CreateCommits(j, i)
  <2>1. PICK j \in Jobs, i \in Ids : CreateCommits(j, i)
    BY <1>5
  <2>2. call' \in [Jobs -> Calls]
    BY <2>1, CallTypes DEF CreateCommits, Steps
  <2>3. "WAITING" \in RowStatuses
    BY StatusFacts DEF Written
  <2>4. rows' \in [Ids -> Rows]
    BY <2>1, <2>3 DEF CreateCommits, TypeOK, Rows, Calls
  <2>. QED
    BY <2>1, <2>2, <2>4, ReleasedType DEF TypeOK, CreateCommits
<1>6. CASE \E j \in Jobs : OrderAnswered(j)
  <2>1. PICK j \in Jobs : OrderAnswered(j)
    BY <1>6
  <2>2. call' \in [Jobs -> Calls]
    BY <2>1, CallTypes DEF OrderAnswered, Steps
  <2>3. call[j].id \in Ids
    BY <2>1 DEF OrderAnswered, CallsFit, CallFits, WithRow
  <2>. QED
    BY <2>1, <2>2, <2>3 DEF TypeOK, OrderAnswered, Accepted
<1>7. CASE \E j \in Jobs : StartCommits(j)
  <2>1. PICK j \in Jobs : StartCommits(j)
    BY <1>7
  <2>2. call' = [call EXCEPT ![j] = Idle] \/ call' = [call EXCEPT ![j].step = "started"]
    BY <2>1 DEF StartCommits, TypeOK
  <2>. "started" \in Steps
    BY DEF Steps
  <2>3. call' \in [Jobs -> Calls]
    BY <2>2, CallTypes
  <2>4. rows' \in [Ids -> Rows]
    BY <2>1, RowTypes DEF StartCommits, Written
  <2>. QED
    BY <2>1, <2>3, <2>4 DEF TypeOK, StartCommits
<1>8. CASE \E j \in Jobs : OrderUnanswered(j)
  <2>1. PICK j \in Jobs : OrderUnanswered(j)
    BY <1>8
  <2>2. call[j].id \in Ids /\ (j = Reentry => call[j].parent \in Ids)
    BY <2>1 DEF OrderUnanswered, CallsFit, CallFits, WithRow, ParentsFit
  <2>3. troubles' \in 0 .. MaxTroubles
    BY <2>1 DEF OrderUnanswered, Trouble, TypeOK
  <2>. QED
    BY <2>1, <2>2, <2>3, FailsTypes DEF TypeOK, OrderUnanswered, Accepted
<1>9. CASE \E j \in Jobs : Refused(j)
  <2>1. PICK j \in Jobs : Refused(j)
    BY <1>9
  <2>2. PICK why : Raises(j, why) /\ Fails(j, why)
    BY <2>1 DEF Refused
  <2>3. j = Reentry => call[j].parent \in Ids
    BY <2>2 DEF Raises, ParentsFit
  <2>. QED
    BY <2>1, <2>2, <2>3, FailsTypes DEF TypeOK, Refused
<1>10. CASE \E j \in Signals : CleansUp(j)
  <2>1. PICK j \in Signals : CleansUp(j)
    BY <1>10
  <2>2. rows' \in [Ids -> Rows]
    BY <2>1, RowTypes DEF CleansUp, Written
  <2>. QED
    BY <2>1, <2>2, CallTypes DEF TypeOK, CleansUp
<1>11. CASE ReentryDone
  <2>1. rows' \in [Ids -> Rows]
    BY <1>11, RowTypes DEF ReentryDone, Written
  <2>. QED
    BY <1>11, <2>1, CallTypes DEF TypeOK, ReentryDone
<1>12. CASE Crash
  BY <1>12, Defaults DEF TypeOK, Crash, Trouble
<1>13. CASE \E i \in Ids, s \in {"REENTRY_READY", "STOPPED"} : Closes(i, s)
  <2>1. PICK i \in Ids, s \in {"REENTRY_READY", "STOPPED"} : Closes(i, s)
    BY <1>13
  <2>2. rows' \in [Ids -> Rows]
    BY <2>1, RowTypes DEF Closes, Written
  <2>. QED
    BY <2>1, <2>2 DEF TypeOK, Closes
<1>14. CASE Around
  <2>1. UNCHANGED <<rows, held, bought, locks, call, kept>>
    BY <1>14 DEF Around, SwitchTriggers, SwitchClears, Halts, Bans
  <2>2. troubles' = troubles \/ (troubles < MaxTroubles /\ troubles' = troubles + 1)
    BY <1>14 DEF Around, SwitchTriggers, SwitchClears, Halts, Bans, Trouble
  <2>3. troubles' \in 0 .. MaxTroubles
    BY <2>2 DEF TypeOK
  <2>4. switch' \in BOOLEAN /\ halt' \in BOOLEAN /\ banned' \in BOOLEAN
    BY <1>14, Zenon DEF TypeOK, Around, SwitchTriggers, SwitchClears, Halts, Bans
  <2>5. spared' \subseteq Jobs
    BY <1>14 DEF TypeOK, Around, SwitchTriggers, SwitchClears, Halts, Bans, Cleared
  <2>. QED
    BY <2>1, <2>3, <2>4, <2>5 DEF TypeOK
<1>15. CASE UNCHANGED vars
  BY <1>15 DEF TypeOK, vars
<1>. QED
  BY <1>1, <1>2, <1>3, <1>4, <1>5, <1>6, <1>7, <1>8, <1>9, <1>10, <1>11, <1>12, <1>13, <1>14, <1>15, Cases

-----------------------------------------------------------------------------
(***************************************************************************)
(* Who knows which row: CallsFit, IdsDiffer and RowsFit.                   *)
(***************************************************************************)
Known == CallsFit /\ IdsDiffer /\ RowsFit

LEMMA Typed ==
    ASSUME TypeOK
    PROVE  /\ \A j \in Jobs : call[j] \in Calls
           /\ \A i \in Ids : rows[i] \in Rows
           /\ DOMAIN call = Jobs /\ DOMAIN rows = Ids
  BY DEF TypeOK

(* No row, order or purchase changes, and one job's call does. *)
LEMMA KnownOneCall ==
    ASSUME Known, NEW j \in Jobs, UNCHANGED <<rows, held, bought>>,
           \A k \in Jobs : k # j => call'[k] = call[k],
           call'[j].id \in {call[j].id, NoId}, CallFits(j)'
    PROVE  Known'
<1>1. CallsFit'
  <2>. SUFFICES ASSUME NEW k \in Jobs, k # j PROVE CallFits(k)'
    BY DEF CallsFit
  <2>. QED
    BY DEF Known, CallsFit, CallFits, At, Exists
<1>2. IdsDiffer'
  BY DEF Known, IdsDiffer
<1>3. RowsFit'
  BY DEF Known, RowsFit, RowFits, Exists, counts_toward_today
<1>. QED
  BY <1>1, <1>2, <1>3 DEF Known

LEMMA KnownBegins ==
    ASSUME TypeOK, Known, NEW j \in Jobs, NEW m, NEW f, NEW p, Begins(j, m, f, p), j # Reentry => p = NoId
    PROVE  Known'
<1>1. call'[j] = [step |-> "slot", id |-> NoId, market |-> m, family |-> f, parent |-> p]
  BY Typed DEF Begins
<1>2. CallFits(j)'
  BY <1>1 DEF CallFits, At, WithRow, Creating, Unbought
<1>3. \A k \in Jobs : k # j => call'[k] = call[k]
  BY Typed DEF Begins
<1>. QED
  BY <1>1, <1>2, <1>3, KnownOneCall DEF Begins

(* A move from one step to the next, with nothing else. *)
LEMMA KnownMoves ==
    ASSUME TypeOK, Known, NEW j \in Jobs, MovesOn(j) \/ CreateCounts(j)
    PROVE  Known'
<1>1. PICK s : /\ call' = [call EXCEPT ![j].step = s]
               /\ \/ call[j].step \in Creating /\ s \in Creating
                  \/ call[j].step \in Unbought /\ s \in Unbought
  <2>1. CASE CreateLooks(j)
    BY <2>1 DEF CreateLooks, At, Move, Creating
  <2>2. CASE AccountAnswers(j)
    BY <2>2 DEF AccountAnswers, At, Move, Creating
  <2>3. CASE StartLooks(j)
    BY <2>3 DEF StartLooks, At, Move, Unbought
  <2>4. CASE MarginIsSet(j)
    BY <2>4 DEF MarginIsSet, At, Move, Unbought
  <2>5. CASE CreateCounts(j)
    BY <2>5 DEF CreateCounts, At, Move, Creating
  <2>. QED
    BY <2>1, <2>2, <2>3, <2>4, <2>5 DEF MovesOn
<1>2. UNCHANGED <<rows, held, bought>>
  BY DEF MovesOn, CreateLooks, AccountAnswers, StartLooks, MarginIsSet, CreateCounts
<1>3. /\ call'[j].step = s /\ call'[j].id = call[j].id
      /\ call'[j].market = call[j].market /\ call'[j].parent = call[j].parent
  BY <1>1, Typed DEF Calls
<1>4. CallFits(j)
  BY DEF Known, CallsFit
<1>5. CallFits(j)'
  BY <1>1, <1>2, <1>3, <1>4 DEF CallFits, At, Exists, WithRow, Creating, Unbought
<1>6. \A k \in Jobs : k # j => call'[k] = call[k]
  BY <1>1, Typed
<1>. QED
  BY <1>2, <1>3, <1>5, <1>6, KnownOneCall

LEMMA KnownCommits ==
    ASSUME TypeOK, Known, NEW j \in Jobs, NEW i \in Ids, CreateCommits(j, i)
    PROVE  Known'
<1>1. /\ call'[j].step = "created" /\ call'[j].id = i
      /\ call'[j].market = call[j].market /\ call'[j].parent = call[j].parent
  BY Typed DEF CreateCommits, Calls
<1>2. \A k \in Jobs : k # j => call'[k] = call[k]
  BY Typed DEF CreateCommits
<1>3. /\ rows'[i].status = "WAITING" /\ rows'[i].market = call[j].market
      /\ rows'[i].today
  BY Typed DEF CreateCommits
<1>4. \A k \in Ids : k # i => rows'[k] = rows[k]
  BY Typed DEF CreateCommits
<1>5. held' = held /\ bought' = bought /\ rows[i].status = "NONE"
  BY DEF CreateCommits
<1>6. i \notin bought /\ i \notin held
  BY <1>5 DEF Known, RowsFit, RowFits, Exists
<1>7. \A k \in Jobs : call[k].id # i
  <2>. TAKE k \in Jobs
  <2>1. CallFits(k) /\ call[k] \in Calls
    BY Typed DEF Known, CallsFit
  <2>. QED
    BY <1>5, <2>1 DEF CallFits, At, Exists, Calls, Steps, WithRow, Creating
<1>8. CallsFit'
  <2>. SUFFICES ASSUME NEW k \in Jobs PROVE CallFits(k)'
    BY DEF CallsFit
  <2>1. CASE k = j
    <3>1. CallFits(j)
      BY DEF Known, CallsFit
    <3>. QED
      BY <1>1, <1>3, <1>5, <1>6, <2>1, <3>1 DEF CallFits, At, WithRow, Creating, Unbought
  <2>2. CASE k # j
    BY <1>2, <1>4, <1>5, <1>7, <2>2 DEF Known, CallsFit, CallFits, At, Exists, WithRow
  <2>. QED
    BY <2>1, <2>2
<1>9. IdsDiffer'
  BY <1>1, <1>2, <1>7 DEF Known, IdsDiffer
<1>10. RowsFit'
  <2>. SUFFICES ASSUME NEW k \in Ids PROVE RowFits(k)'
    BY DEF RowsFit
  <2>1. CASE k = i
    BY <1>3, <1>5, <1>6, <2>1 DEF RowFits, Written
  <2>2. CASE k # i
    BY <1>4, <1>5, <2>2 DEF Known, RowsFit, RowFits, Exists, counts_toward_today
  <2>. QED
    BY <2>1, <2>2
<1>. QED
  BY <1>8, <1>9, <1>10 DEF Known

(* The exchange accepts the order of job j, whatever the job makes of it. *)
LEMMA RowsFitAccepted ==
    ASSUME Known, NEW j \in Jobs, At(j, "margin"), Accepted(j), rows' = rows
    PROVE  RowsFit'
<1>1. CallFits(j)
  BY DEF Known, CallsFit
<1>. SUFFICES ASSUME NEW k \in Ids PROVE RowFits(k)'
  BY DEF RowsFit
<1>2. RowFits(k)
  BY DEF Known, RowsFit
<1>3. CASE k = call[j].id
  BY <1>1, <1>2, <1>3 DEF RowFits, CallFits, At, Accepted, Exists, counts_toward_today, WithRow
<1>4. CASE k # call[j].id
  BY <1>2, <1>4 DEF RowFits, Accepted, Exists, counts_toward_today
<1>. QED
  BY <1>3, <1>4

LEMMA KnownAnswered ==
    ASSUME TypeOK, Known, NEW j \in Jobs, OrderAnswered(j)
    PROVE  Known'
<1>1. /\ call'[j].step = "placed" /\ call'[j].id = call[j].id
      /\ call'[j].market = call[j].market /\ call'[j].parent = call[j].parent
  BY Typed DEF OrderAnswered, Move, Calls
<1>2. \A k \in Jobs : k # j => call'[k] = call[k]
  BY Typed DEF OrderAnswered, Move
<1>3. /\ rows' = rows /\ held' = held \cup {call[j].id} /\ bought' = bought \cup {call[j].id}
      /\ call[j].step = "margin"
  BY DEF OrderAnswered, Accepted, At
<1>4. CallsFit'
  <2>. SUFFICES ASSUME NEW k \in Jobs PROVE CallFits(k)'
    BY DEF CallsFit
  <2>1. CallFits(k) /\ CallFits(j)
    BY DEF Known, CallsFit
  <2>2. CASE k = j
    BY <1>1, <1>3, <2>1, <2>2 DEF CallFits, At, WithRow, Creating, Unbought
  <2>3. CASE k # j
    <3>1. call[k].step \in Unbought => call[k].id # call[j].id
      BY <1>3, <2>1, <2>3 DEF Known, IdsDiffer, CallFits, WithRow, Unbought
    <3>. QED
      BY <1>2, <1>3, <2>1, <2>3, <3>1 DEF CallFits, At, Exists
  <2>. QED
    BY <2>2, <2>3
<1>5. IdsDiffer'
  BY <1>1, <1>2 DEF Known, IdsDiffer
<1>6. RowsFit'
  BY <1>3, RowsFitAccepted DEF OrderAnswered
<1>. QED
  BY <1>4, <1>5, <1>6 DEF Known

LEMMA KnownStarts ==
    ASSUME TypeOK, Known, NEW j \in Jobs, StartCommits(j)
    PROVE  Known'
<1>. DEFINE i == call[j].id
<1>1. call'[j] = Idle \/ (j = Reentry /\ call'[j] = [call[j] EXCEPT !.step = "started"])
  BY Typed DEF StartCommits
<1>2. \A k \in Jobs : k # j => call'[k] = call[k]
  BY Typed DEF StartCommits
<1>3. CallFits(j) /\ call[j].step = "placed" /\ held' = held /\ bought' = bought
  BY DEF Known, CallsFit, StartCommits, At
<1>4. i \in Ids /\ rows[i].status = "WAITING" /\ i \in held
  BY <1>3 DEF CallFits, At, WithRow
<1>5. \A k \in Ids : k # i => rows'[k] = rows[k]
  BY Typed DEF StartCommits
<1>6. /\ rows'[i].status = "STAGE1_OPEN_PENDING" /\ rows'[i].entered
      /\ rows'[i].today = rows[i].today
  BY <1>4, Typed DEF StartCommits, Rows
<1>7. call'[j] = Idle \/ (/\ j = Reentry /\ call'[j].step = "started" /\ call'[j].id = i
                          /\ call'[j].parent = call[j].parent)
  BY <1>1, Typed DEF Calls
<1>8. CallsFit'
  <2>. SUFFICES ASSUME NEW k \in Jobs PROVE CallFits(k)'
    BY DEF CallsFit
  <2>1. CASE k = j
    BY <1>3, <1>4, <1>6, <1>7, <2>1 DEF CallFits, At, Exists, Idle, WithRow, Creating, Unbought
  <2>2. CASE k # j
    <3>1. call[k].id # i
      BY <1>4, <2>2 DEF Known, IdsDiffer
    <3>. QED
      BY <1>2, <1>3, <1>5, <2>2, <3>1 DEF Known, CallsFit, CallFits, At, Exists
  <2>. QED
    BY <2>1, <2>2
<1>9. IdsDiffer'
  BY <1>2, <1>4, <1>7 DEF Known, IdsDiffer, Idle
<1>10. RowsFit'
  <2>. SUFFICES ASSUME NEW k \in Ids PROVE RowFits(k)'
    BY DEF RowsFit
  <2>0. RowFits(k)
    BY DEF Known, RowsFit
  <2>1. CASE k = i
    BY <1>3, <1>4, <1>6, <2>0, <2>1 DEF RowFits, Written, Exists, counts_toward_today
  <2>2. CASE k # i
    BY <1>3, <1>5, <2>0, <2>2 DEF RowFits, Exists, counts_toward_today
  <2>. QED
    BY <2>1, <2>2
<1>. QED
  BY <1>8, <1>9, <1>10 DEF Known

Whys == Passing \cup {"error"}

(* A pass that fails: with an order the exchange has accepted, or without. *)
LEMMA KnownFails ==
    ASSUME TypeOK, Known, ParentsFit, NEW j \in Jobs, NEW why \in Whys, Fails(j, why),
           call[j].step \in {"slot", "looked", "answered", "created", "cleared", "margin"},
           (held' = held /\ bought' = bought) \/ (At(j, "margin") /\ Accepted(j))
    PROVE  Known'
<1>. DEFINE i == call[j].id
            p == call[j].parent
<1>1. CallFits(j)
  BY DEF Known, CallsFit
<1>2. call'[j] = Idle \/ (/\ j # Reentry /\ i # NoId /\ call'[j].step = "cleanup" /\ call'[j].id = i
                          /\ call'[j].market = call[j].market /\ call'[j].parent = p)
  BY Typed DEF Fails, Calls
<1>3. \A k \in Jobs : k # j => call'[k] = call[k]
  BY Typed DEF Fails
<1>4. \/ rows' = rows
      \/ /\ p \in Ids /\ rows[p].status = "REENTRY_READY" /\ rows'[p].status = "REENTRY_FAILED"
         /\ rows'[p].entered = rows[p].entered /\ rows'[p].today = rows[p].today
         /\ \A k \in Ids : k # p => rows'[k] = rows[k]
  <2>1. CASE j = Reentry
    <3>1. p \in Ids /\ rows[p].status = "REENTRY_READY"
      BY <2>1 DEF ParentsFit, At
    <3>2. rows' = rows \/ rows' = [rows EXCEPT ![p].status = "REENTRY_FAILED"]
      BY <2>1 DEF Fails
    <3>. QED
      BY <3>1, <3>2, Typed DEF Rows
  <2>2. CASE j # Reentry
    BY <2>2 DEF Fails
  <2>. QED
    BY <2>1, <2>2
<1>5. \/ held' = held /\ bought' = bought
      \/ /\ call[j].step = "margin" /\ i \in Ids /\ rows[i].status = "WAITING"
         /\ held' = held \cup {i} /\ bought' = bought \cup {i}
  BY <1>1 DEF Accepted, At, CallFits, WithRow
<1>6. CallsFit'
  <2>. SUFFICES ASSUME NEW k \in Jobs PROVE CallFits(k)'
    BY DEF CallsFit
  <2>1. CASE k = j
    <3>1. CASE call'[j] = Idle
      BY <1>1, <2>1, <3>1 DEF CallFits, At, Idle, WithRow, Creating, Unbought
    <3>2. CASE call'[j] # Idle
      <4>1. i \in Ids /\ rows[i].status = "WAITING" /\ rows[i].market = call[j].market
        BY <1>1, <1>2, <3>2 DEF CallFits, WithRow, Creating
      <4>2. rows'[i] = rows[i]
        BY <1>4, <4>1
      <4>. QED
        BY <1>1, <1>2, <2>1, <3>2, <4>1, <4>2 DEF CallFits, At, WithRow, Creating, Unbought
    <3>. QED
      BY <3>1, <3>2
  <2>2. CASE k # j
    <3>1. CallFits(k) /\ call'[k] = call[k]
      BY <1>3, <2>2 DEF Known, CallsFit
    <3>2. call[k].step \in WithRow => rows'[call[k].id] = rows[call[k].id]
      BY <1>4, <3>1 DEF CallFits
    <3>3. At(k, "started") => Exists(call[k].id)' /\ rows'[call[k].id].status # "WAITING"
      BY <1>4, <3>1 DEF CallFits, At, Exists
    <3>4. call[k].step \in Unbought => call[k].id \notin bought'
      BY <1>5, <2>2, <3>1 DEF CallFits, Unbought, WithRow, Known, IdsDiffer
    <3>. QED
      BY <1>5, <3>1, <3>2, <3>3, <3>4 DEF CallFits, At
  <2>. QED
    BY <2>1, <2>2
<1>7. IdsDiffer'
  BY <1>2, <1>3 DEF Known, IdsDiffer, Idle
<1>8. RowsFit'
  <2>. SUFFICES ASSUME NEW k \in Ids PROVE RowFits(k)'
    BY DEF RowsFit
  <2>1. RowFits(k)
    BY DEF Known, RowsFit
  <2>2. CASE rows'[k] = rows[k]
    BY <1>1, <1>5, <2>1, <2>2 DEF RowFits, CallFits, Exists, counts_toward_today, Unbought, WithRow
  <2>3. CASE rows'[k] # rows[k]
    <3>1. /\ rows[k].status = "REENTRY_READY" /\ rows'[k].status = "REENTRY_FAILED"
          /\ rows'[k].entered = rows[k].entered /\ rows'[k].today = rows[k].today
      BY <1>4, <2>3
    <3>2. (k \in held' <=> k \in held) /\ (k \in bought' <=> k \in bought)
      BY <1>5, <3>1
    <3>. QED
      BY <2>1, <3>1, <3>2, StatusFacts DEF RowFits, Exists, counts_toward_today, Written
  <2>. QED
    BY <2>2, <2>3
<1>. QED
  BY <1>6, <1>7, <1>8 DEF Known

LEMMA KnownRefused ==
    ASSUME TypeOK, Known, ParentsFit, NEW j \in Jobs, Refused(j)
    PROVE  Known'
<1>1. PICK why \in Whys : Raises(j, why) /\ Fails(j, why)
  BY DEF Refused, Whys
<1>2. call[j].step \in {"slot", "looked", "answered", "created", "cleared", "margin"}
  BY <1>1 DEF Raises, At
<1>3. held' = held /\ bought' = bought
  BY DEF Refused
<1>4. Fails(j, why)
  BY <1>1
<1>. QED
  BY <1>2, <1>3, <1>4, KnownFails

LEMMA KnownUnanswered ==
    ASSUME TypeOK, Known, ParentsFit, NEW j \in Jobs, OrderUnanswered(j)
    PROVE  Known'
<1>1. call[j].step = "margin" /\ "error" \in Whys
  BY DEF OrderUnanswered, At, Whys
<1>. QED
  BY <1>1, KnownFails DEF OrderUnanswered

LEMMA KnownCleansUp ==
    ASSUME TypeOK, Known, NEW j \in Jobs, CleansUp(j)
    PROVE  Known'
<1>. DEFINE i == call[j].id
<1>1. call'[j] = Idle /\ call[j].step = "cleanup" /\ held' = held /\ bought' = bought
  BY Typed DEF CleansUp, At
<1>2. \A k \in Jobs : k # j => call'[k] = call[k]
  BY Typed DEF CleansUp
<1>3. CallFits(j)
  BY DEF Known, CallsFit
<1>4. i \in Ids /\ rows[i].status = "WAITING" /\ rows[i].market = call[j].market
  BY <1>1, <1>3 DEF CallFits, WithRow
<1>5. \A k \in Ids : k # i => rows'[k] = rows[k]
  BY Typed DEF CleansUp
<1>6. \/ rows'[i].status = "DELETED" /\ i \notin held
      \/ rows'[i].status = "STAGE1_OPEN_PENDING" /\ rows'[i].entered /\ rows'[i].today = rows[i].today
  <2>1. CASE MayDelete(j)
    BY <1>4, <2>1, Typed DEF CleansUp, MayDelete, HeldOn, Rows
  <2>2. CASE ~ MayDelete(j)
    BY <1>4, <2>2, Typed DEF CleansUp, Rows
  <2>. QED
    BY <2>1, <2>2
<1>7. CallsFit'
  <2>. SUFFICES ASSUME NEW k \in Jobs PROVE CallFits(k)'
    BY DEF CallsFit
  <2>1. CASE k = j
    BY <1>1, <1>3, <2>1 DEF CallFits, At, Idle, WithRow, Creating, Unbought
  <2>2. CASE k # j
    <3>1. call[k].id # i
      BY <1>4, <2>2 DEF Known, IdsDiffer
    <3>. QED
      BY <1>1, <1>2, <1>5, <2>2, <3>1 DEF Known, CallsFit, CallFits, At, Exists
  <2>. QED
    BY <2>1, <2>2
<1>8. IdsDiffer'
  BY <1>1, <1>2 DEF Known, IdsDiffer, Idle
<1>9. RowsFit'
  <2>. SUFFICES ASSUME NEW k \in Ids PROVE RowFits(k)'
    BY DEF RowsFit
  <2>0. RowFits(k)
    BY DEF Known, RowsFit
  <2>1. CASE k = i
    BY <1>1, <1>4, <1>6, <2>0, <2>1 DEF RowFits, Written, Exists, counts_toward_today
  <2>2. CASE k # i
    BY <1>1, <1>5, <2>0, <2>2 DEF RowFits, Exists, counts_toward_today
  <2>. QED
    BY <2>1, <2>2
<1>. QED
  BY <1>7, <1>8, <1>9 DEF Known

(* Neither a row that waits nor one that a job has just started changes. *)
LEMMA KnownRowEnds ==
    ASSUME TypeOK, Known, NEW i \in Ids, NEW s \in {"REENTRY_READY", "STOPPED", "REENTRY_DONE"},
           rows' = [rows EXCEPT ![i].status = s], rows[i].status # "WAITING",
           rows[i].entered \/ i \notin bought, Exists(i),
           held' \subseteq held \ {i}, held \ {i} \subseteq held', bought' = bought,
           \A k \in Jobs : call'[k] = call[k] \/ call'[k] = Idle
    PROVE  Known'
<1>1. \A k \in Ids : k # i => rows'[k] = rows[k]
  BY Typed
<1>2. rows'[i].status = s /\ rows'[i].entered = rows[i].entered /\ rows'[i].today = rows[i].today
  BY Typed DEF Rows
<1>3. CallsFit'
  <2>. SUFFICES ASSUME NEW k \in Jobs PROVE CallFits(k)'
    BY DEF CallsFit
  <2>1. CallFits(k)
    BY DEF Known, CallsFit
  <2>2. CASE call'[k] = Idle
    BY <2>1, <2>2 DEF CallFits, At, Idle, WithRow, Creating, Unbought
  <2>3. CASE call'[k] = call[k]
    <3>1. call[k].step \in WithRow => call[k].id # i /\ rows'[call[k].id] = rows[call[k].id]
      BY <1>1, <2>1 DEF CallFits
    <3>2. At(k, "placed") => call[k].id \in held'
      BY <2>1, <3>1 DEF CallFits, At, WithRow
    <3>3. At(k, "started") => Exists(call[k].id)' /\ rows'[call[k].id].status # "WAITING"
      BY <1>1, <1>2, <2>1, <2>3 DEF CallFits, At, Exists
    <3>. QED
      BY <2>1, <2>3, <3>1, <3>2, <3>3 DEF CallFits, At
  <2>. QED
    BY <2>2, <2>3
<1>4. IdsDiffer'
  BY DEF Known, IdsDiffer, Idle
<1>5. RowsFit'
  <2>. SUFFICES ASSUME NEW k \in Ids PROVE RowFits(k)'
    BY DEF RowsFit
  <2>0. RowFits(k)
    BY DEF Known, RowsFit
  <2>1. CASE k = i
    BY <1>2, <2>0, <2>1 DEF RowFits, Written, Exists, counts_toward_today
  <2>2. CASE k # i
    BY <1>1, <2>0, <2>2 DEF RowFits, Exists, counts_toward_today
  <2>. QED
    BY <2>1, <2>2
<1>. QED
  BY <1>3, <1>4, <1>5 DEF Known

LEMMA KnownDone ==
    ASSUME TypeOK, Known, ParentsFit, ReentryDone
    PROVE  Known'
<1>. DEFINE p == call[Reentry].parent
<1>1. p \in Ids /\ rows[p].status = "REENTRY_READY"
  BY DEF ParentsFit, ReentryDone, At
<1>2. RowFits(p)
  BY <1>1 DEF Known, RowsFit
<1>3. (rows[p].entered \/ p \notin bought) /\ p \notin held
  BY <1>1, <1>2, StatusFacts DEF RowFits, counts_toward_today, Written
<1>4. Exists(p) /\ rows[p].status # "WAITING"
  BY <1>1 DEF Exists
<1>5. \A k \in Jobs : call'[k] = call[k] \/ call'[k] = Idle
  BY Typed DEF ReentryDone
<1>. QED
  BY <1>1, <1>3, <1>4, <1>5, KnownRowEnds DEF ReentryDone

LEMMA KnownCloses ==
    ASSUME TypeOK, Known, NEW i \in Ids, NEW s \in {"REENTRY_READY", "STOPPED"}, Closes(i, s)
    PROVE  Known'
<1>1. RowFits(i) /\ rows[i].status \in ACTIVE_LIKE
  BY DEF Known, RowsFit, Closes, Active
<1>2. rows[i].status = "STAGE1_OPEN_PENDING" /\ rows[i].entered
  BY <1>1, StatusFacts DEF RowFits
<1>. QED
  BY <1>2, KnownRowEnds DEF Closes, Exists

LEMMA KnownCrash ==
    ASSUME TypeOK, Known, Crash
    PROVE  Known'
<1>1. \A k \in Jobs : call'[k] = Idle
  BY DEF Crash
<1>2. UNCHANGED <<rows, held, bought>>
  BY DEF Crash
<1>3. CallsFit'
  BY <1>1, <1>2 DEF Known, CallsFit, CallFits, At, Idle, WithRow, Creating, Unbought
<1>4. IdsDiffer' /\ RowsFit'
  BY <1>1, <1>2 DEF Known, IdsDiffer, RowsFit, RowFits, Exists, counts_toward_today, Idle
<1>. QED
  BY <1>3, <1>4 DEF Known

LEMMA KnownUnchanged ==
    ASSUME Known, UNCHANGED <<rows, held, bought, call>>
    PROVE  Known'
  BY DEF Known, CallsFit, CallFits, IdsDiffer, RowsFit, RowFits, Exists, counts_toward_today, At

LEMMA KnownNext ==
    ASSUME TypeOK, Known, ParentsFit, [Next]_vars
    PROVE  Known'
<1>1. CASE Around \/ UNCHANGED vars
  <2>1. UNCHANGED <<rows, held, bought, call>>
    BY <1>1 DEF Around, SwitchTriggers, SwitchClears, Halts, Bans, vars
  <2>. QED
    BY <2>1, KnownUnchanged
<1>2. CASE \E j \in Signals, m \in Markets : Begins(j, m, FamilyOf[j], NoId)
  BY <1>2, KnownBegins DEF Jobs
<1>3. CASE \E p \in Ids : ReentryBegins(p)
  BY <1>3, KnownBegins DEF ReentryBegins, Jobs
<1>. QED
  BY <1>1, <1>2, <1>3, Cases, KnownMoves, KnownCommits, KnownAnswered, KnownStarts, KnownUnanswered,
     KnownRefused, KnownCleansUp, KnownDone, KnownCrash, KnownCloses DEF Jobs

-----------------------------------------------------------------------------
(***************************************************************************)
(* What may happen to the rows but for a creation.                         *)
(***************************************************************************)
Over(k)   == rows[k].status \in {"REENTRY_READY", "REENTRY_DONE", "REENTRY_FAILED"}
Living(k) == rows[k].status \in ACTIVE_LIKE \cup {"WAITING"}

Settles(k) ==
    /\ rows'[k].parent = rows[k].parent /\ rows'[k].market = rows[k].market
    /\ rows'[k].family = rows[k].family /\ rows'[k].today = rows[k].today
    /\ Exists(k)' => Exists(k)
    /\ Living(k)' => Living(k)
    /\ counts_toward_today(k)' => counts_toward_today(k)
    /\ Over(k) => Over(k)'
    /\ rows[k].status = "REENTRY_READY" =>
          rows'[k].status = "REENTRY_READY" \/ call'[Reentry].step = "idle"

LEMMA SettlesUnchanged ==
    ASSUME NEW k, rows'[k] = rows[k]
    PROVE  Settles(k)
  BY DEF Settles, Exists, Living, counts_toward_today, Over

(* The fields a change of status, or of status and entered, leaves alone. *)
LEMMA StatusChange ==
    ASSUME TypeOK, NEW i \in Ids, NEW s,
           rows' = [rows EXCEPT ![i].status = s] \/ rows' = [rows EXCEPT ![i].status = s, ![i].entered = TRUE]
    PROVE  /\ \A k \in Ids : k # i => rows'[k] = rows[k]
           /\ rows'[i].parent = rows[i].parent /\ rows'[i].market = rows[i].market
           /\ rows'[i].family = rows[i].family /\ rows'[i].today = rows[i].today
           /\ rows'[i].status = s
           /\ rows' = [rows EXCEPT ![i].status = s] => rows'[i].entered = rows[i].entered
  BY Typed DEF Rows

LEMMA SettlesStarted ==
    ASSUME TypeOK, NEW i \in Ids, rows[i].status = "WAITING",
           rows' = [rows EXCEPT ![i].status = "STAGE1_OPEN_PENDING", ![i].entered = TRUE]
    PROVE  \A k \in Ids : Settles(k)
<1>1. Settles(i)
  BY StatusChange DEF Settles, Exists, Living, counts_toward_today, Over
<1>. QED
  BY <1>1, StatusChange, SettlesUnchanged

LEMMA SettlesEnded ==
    ASSUME TypeOK, NEW i \in Ids, Exists(i),
           NEW s \in {"DELETED", "STOPPED", "REENTRY_READY", "REENTRY_DONE", "REENTRY_FAILED"},
           rows' = [rows EXCEPT ![i].status = s],
           Over(i) => s \in {"REENTRY_DONE", "REENTRY_FAILED"} /\ call'[Reentry].step = "idle"
    PROVE  \A k \in Ids : Settles(k)
<1>1. s \in Written /\ s \notin ACTIVE_LIKE /\ s # "WAITING"
  BY StatusFacts DEF Written
<1>2. Settles(i)
  BY <1>1, StatusChange DEF Settles, Exists, Living, counts_toward_today, Over
<1>. QED
  BY <1>2, StatusChange, SettlesUnchanged

LEMMA SettlesFails ==
    ASSUME TypeOK, ParentsFit, NEW j \in Jobs, NEW why \in Whys, Fails(j, why), ~ At(j, "idle")
    PROVE  \A k \in Ids : Settles(k)
<1>. DEFINE p == call[j].parent
<1>1. CASE rows' = rows
  BY <1>1, SettlesUnchanged
<1>2. CASE rows' # rows
  <2>1. j = Reentry /\ rows' = [rows EXCEPT ![p].status = "REENTRY_FAILED"]
    BY <1>2 DEF Fails
  <2>2. p \in Ids /\ rows[p].status = "REENTRY_READY"
    BY <2>1 DEF ParentsFit, At
  <2>3. call'[Reentry].step = "idle"
    BY <2>1, Typed DEF Fails, Idle
  <2>. QED
    BY <2>1, <2>2, <2>3, SettlesEnded DEF Exists
<1>. QED
  BY <1>1, <1>2

LEMMA RowsSettle ==
    ASSUME TypeOK, Known, ParentsFit, [Next]_vars,
           ~ \E j \in Jobs, i \in Ids : CreateCommits(j, i)
    PROVE  \A k \in Ids : Settles(k)
<1>1. CASE rows' = rows
  BY <1>1, SettlesUnchanged
<1>2. ASSUME NEW j \in Jobs, StartCommits(j) PROVE \A k \in Ids : Settles(k)
  <2>1. call[j].id \in Ids /\ rows[call[j].id].status = "WAITING"
    BY <1>2 DEF StartCommits, At, Known, CallsFit, CallFits, WithRow
  <2>. QED
    BY <1>2, <2>1, SettlesStarted DEF StartCommits
<1>3. ASSUME NEW j \in Jobs, OrderUnanswered(j) PROVE \A k \in Ids : Settles(k)
  BY <1>3, SettlesFails DEF OrderUnanswered, Whys, At
<1>4. ASSUME NEW j \in Jobs, Refused(j) PROVE \A k \in Ids : Settles(k)
  <2>1. PICK why \in Whys : Raises(j, why) /\ Fails(j, why)
    BY <1>4 DEF Refused, Whys
  <2>2. ~ At(j, "idle")
    BY <2>1 DEF Raises, At
  <2>. QED
    BY <2>1, <2>2, SettlesFails
<1>5. ASSUME NEW j \in Jobs, CleansUp(j) PROVE \A k \in Ids : Settles(k)
  <2>1. call[j].id \in Ids /\ rows[call[j].id].status = "WAITING"
    BY <1>5 DEF CleansUp, At, Known, CallsFit, CallFits, WithRow
  <2>2. CASE MayDelete(j)
    BY <1>5, <2>1, <2>2, SettlesEnded DEF CleansUp, Exists, Over
  <2>3. CASE ~ MayDelete(j)
    BY <1>5, <2>1, <2>3, SettlesStarted DEF CleansUp
  <2>. QED
    BY <2>2, <2>3
<1>6. CASE ReentryDone
  <2>1. call[Reentry].parent \in Ids /\ rows[call[Reentry].parent].status = "REENTRY_READY"
    BY <1>6 DEF ReentryDone, ParentsFit, At
  <2>2. call'[Reentry].step = "idle"
    BY <1>6, Typed DEF ReentryDone, Jobs, Idle
  <2>. QED
    BY <1>6, <2>1, <2>2, SettlesEnded DEF ReentryDone, Exists
<1>7. ASSUME NEW i \in Ids, NEW s \in {"REENTRY_READY", "STOPPED"}, Closes(i, s)
      PROVE  \A k \in Ids : Settles(k)
  <2>1. rows[i].status = "STAGE1_OPEN_PENDING"
    BY <1>7, StatusFacts DEF Closes, Active, Known, RowsFit, RowFits
  <2>. QED
    BY <1>7, <2>1, SettlesEnded DEF Closes, Exists, Over
<1>8. CASE Around \/ UNCHANGED vars \/ Crash
  BY <1>8, <1>1 DEF Around, SwitchTriggers, SwitchClears, Halts, Bans, vars, Crash
<1>9. ASSUME NEW j \in Jobs, MovesOn(j) \/ CreateCounts(j) \/ OrderAnswered(j) PROVE rows' = rows
  BY <1>9 DEF MovesOn, CreateLooks, AccountAnswers, StartLooks, MarginIsSet, CreateCounts, OrderAnswered
<1>10. CASE \E j \in Signals, m \in Markets : Begins(j, m, FamilyOf[j], NoId)
  BY <1>10, <1>1 DEF Begins
<1>11. CASE \E p \in Ids : ReentryBegins(p)
  BY <1>11, <1>1 DEF ReentryBegins, Begins
<1>. QED
  BY <1>1, <1>2, <1>3, <1>4, <1>5, <1>6, <1>7, <1>8, <1>9, <1>10, <1>11, Cases DEF Jobs

-----------------------------------------------------------------------------
(***************************************************************************)
(* A closed strategy and its re-entries: ParentsFit.                       *)
(***************************************************************************)
Looked == {"looked", "answered", "counted"}

(* The re-entry job stays with its strategy, and looks at no new one. *)
LEMMA ParentsKept ==
    ASSUME TypeOK, ParentsFit, \A k \in Ids : Settles(k),
           call'[Reentry].step # "idle" =>
              /\ call[Reentry].step # "idle" /\ call'[Reentry].parent = call[Reentry].parent
              /\ call'[Reentry].market = call[Reentry].market
              /\ call'[Reentry].step \in Looked => call[Reentry].step \in Looked
    PROVE  ParentsFit'
<1>0. \A p \in Ids : Children(p)' \subseteq Children(p)
  BY DEF Children, Settles, Living
<1>1. ASSUME ~ At(Reentry, "idle")'
      PROVE  /\ call'[Reentry].parent \in Ids
             /\ rows'[call'[Reentry].parent].status = "REENTRY_READY"
             /\ rows'[call'[Reentry].parent].market = call'[Reentry].market
  <2>1. call'[Reentry].step # "idle"
    BY <1>1 DEF At
  <2>. QED
    BY <2>1 DEF ParentsFit, Settles, At
<1>2. ASSUME call'[Reentry].step \in Looked PROVE Children(call[Reentry].parent)' = {}
  <2>1. call'[Reentry].step # "idle"
    BY <1>2 DEF Looked
  <2>2. call[Reentry].parent \in Ids /\ Children(call[Reentry].parent) = {}
    BY <1>2, <2>1 DEF ParentsFit, Looked, At
  <2>3. \A q \in Ids : q = call[Reentry].parent => Children(q)' = {}
    BY <1>0, <2>2
  <2>4. call'[Reentry].parent = call[Reentry].parent
    BY <2>1
  <2>. QED
    BY <2>2, <2>3, <2>4
<1>3. ASSUME NEW i \in Ids, Exists(i)', rows'[i].parent # NoId
      PROVE  /\ rows'[rows'[i].parent].status \in {"REENTRY_READY", "REENTRY_DONE", "REENTRY_FAILED"}
             /\ rows'[i].market = rows'[rows'[i].parent].market
  <2>1. Exists(i) /\ rows'[i].parent = rows[i].parent /\ rows'[i].market = rows[i].market
    BY <1>3 DEF Settles
  <2>2. rows[i].parent \in Ids
    BY <1>3, <2>1, Typed DEF Rows
  <2>. QED
    BY <1>3, <2>1, <2>2 DEF ParentsFit, Settles, Over
<1>4. ASSUME NEW p \in Ids, NEW i \in Children(p)', NEW k \in Children(p)' PROVE i = k
  BY <1>0 DEF ParentsFit
<1>. QED
  BY <1>1, <1>2, <1>3, <1>4 DEF ParentsFit, Looked

(* The job takes up a strategy to re-enter. *)
LEMMA ParentsBegins ==
    ASSUME TypeOK, ParentsFit, NEW p \in Ids, ReentryBegins(p)
    PROVE  ParentsFit'
<1>1. /\ call'[Reentry].step = "slot" /\ call'[Reentry].parent = p
      /\ call'[Reentry].market = rows[p].market
  BY Typed DEF ReentryBegins, Begins, Jobs
<1>2. rows' = rows /\ rows[p].status = "REENTRY_READY"
  BY DEF ReentryBegins, Begins
<1>. QED
  BY <1>1, <1>2 DEF ParentsFit, At, Exists, Children

(* No strategy of its market lives: none is a child of the strategy. *)
LEMMA ParentsLooks ==
    ASSUME TypeOK, RowsFit, ParentsFit, CreateLooks(Reentry)
    PROVE  ParentsFit'
<1>. DEFINE p == call[Reentry].parent
<1>1. /\ call'[Reentry].step = "looked" /\ call'[Reentry].parent = p
      /\ call'[Reentry].market = call[Reentry].market
  BY Typed DEF CreateLooks, Move, Jobs, Calls
<1>2. rows' = rows /\ Duplicates(call[Reentry].market) = {}
  BY DEF CreateLooks, NotAlone
<1>3. p \in Ids /\ rows[p].status = "REENTRY_READY" /\ rows[p].market = call[Reentry].market
  BY DEF ParentsFit, CreateLooks, At
<1>4. Children(p) = {}
  <2>1. SUFFICES ASSUME NEW i \in Children(p) PROVE FALSE
    OBVIOUS
  <2>2. rows[i].status \in {"WAITING", "STAGE1_OPEN_PENDING"} /\ i \in Ids /\ rows[i].parent = p
    BY <2>1, StatusFacts DEF Children, RowsFit, RowFits
  <2>3. Exists(i) /\ rows[i].status \notin TERMINAL_STATUSES
    BY <2>2, StatusFacts DEF Exists
  <2>4. rows[i].market = rows[p].market
    BY <1>3, <2>2, <2>3 DEF ParentsFit
  <2>. QED
    BY <1>2, <1>3, <2>2, <2>3, <2>4 DEF Duplicates, Unended
<1>5. \A q \in Ids : Children(q)' = Children(q)
  BY <1>2 DEF Children
<1>. QED
  BY <1>1, <1>2, <1>3, <1>4, <1>5 DEF ParentsFit, At, Exists

(* A new strategy is nobody's child, or the only one of the one re-entered. *)
LEMMA ParentsCommits ==
    ASSUME TypeOK, Known, ParentsFit, NEW j \in Jobs, NEW i \in Ids, CreateCommits(j, i)
    PROVE  ParentsFit'
<1>. DEFINE p == call[j].parent
<1>1. /\ rows[i].status = "NONE" /\ rows'[i].status = "WAITING"
      /\ rows'[i].market = call[j].market /\ rows'[i].parent = p
  BY Typed DEF CreateCommits
<1>2. \A k \in Ids : k # i => rows'[k] = rows[k]
  BY Typed DEF CreateCommits
<1>3. /\ call'[j].step = "created" /\ call'[j].market = call[j].market /\ call'[j].parent = p
      /\ call[j].step = "counted"
      /\ \A k \in Jobs : k # j => call'[k] = call[k]
  BY Typed DEF CreateCommits, Calls, At
<1>4. j # Reentry => p = NoId
  BY DEF Known, CallsFit, CallFits
<1>5. j = Reentry => /\ p \in Ids /\ rows[p].status = "REENTRY_READY"
                     /\ rows[p].market = call[j].market /\ Children(p) = {}
  BY <1>3 DEF ParentsFit, At
<1>6. \A q \in Ids : q # p => Children(q)' = Children(q)
  BY <1>1, <1>2, StatusFacts DEF Children, Written
<1>7. j = Reentry => Children(p)' \subseteq {i}
  <2>. SUFFICES ASSUME j = Reentry, NEW k \in Ids, k # i, rows'[k].parent = p,
                       rows'[k].status \in ACTIVE_LIKE \cup {"WAITING"}
                PROVE  FALSE
    BY <1>3 DEF Children
  <2>. QED
    BY <1>2, <1>5 DEF Children
<1>8. ASSUME ~ At(Reentry, "idle")'
      PROVE  /\ call'[Reentry].parent \in Ids
             /\ rows'[call'[Reentry].parent].status = "REENTRY_READY"
             /\ rows'[call'[Reentry].parent].market = call'[Reentry].market
  <2>1. call'[Reentry].parent = call[Reentry].parent /\ call'[Reentry].market = call[Reentry].market
    BY <1>3 DEF Jobs
  <2>2. ~ At(Reentry, "idle")
    BY <1>3, <1>8 DEF At, Jobs
  <2>. QED
    BY <1>1, <1>2, <2>1, <2>2 DEF ParentsFit
<1>9. ASSUME call'[Reentry].step \in Looked PROVE Children(call[Reentry].parent)' = {}
  <2>1. j # Reentry /\ call'[Reentry] = call[Reentry]
    BY <1>3, <1>9 DEF Looked, Jobs
  <2>2. call[Reentry].parent \in Ids /\ Children(call[Reentry].parent) = {}
    BY <1>9, <2>1 DEF ParentsFit, Looked, At
  <2>3. \A q \in Ids : q = call[Reentry].parent => Children(q)' = {}
    BY <1>4, <1>6, <2>1, <2>2
  <2>. QED
    BY <2>1, <2>2, <2>3
<1>10. ASSUME NEW k \in Ids, Exists(k)', rows'[k].parent # NoId
       PROVE  /\ rows'[rows'[k].parent].status \in {"REENTRY_READY", "REENTRY_DONE", "REENTRY_FAILED"}
              /\ rows'[k].market = rows'[rows'[k].parent].market
  <2>1. CASE k = i
    <3>1. j = Reentry /\ p # i
      BY <1>1, <1>4, <1>5, <1>10, <2>1
    <3>. QED
      BY <1>1, <1>2, <1>5, <2>1, <3>1
  <2>2. CASE k # i
    <3>1. Exists(k) /\ rows'[k] = rows[k] /\ rows[k].parent \in Ids
      BY <1>2, <1>10, <2>2, Typed DEF Exists, Rows
    <3>. QED
      BY <1>1, <1>2, <1>10, <3>1 DEF ParentsFit
  <2>. QED
    BY <2>1, <2>2
<1>11. ASSUME NEW q \in Ids, NEW k \in Children(q)', NEW l \in Children(q)' PROVE k = l
  <2>1. CASE q = p
    <3>1. j = Reentry
      BY <1>4, <2>1
    <3>2. \A r \in Ids : r = p => Children(r)' \subseteq {i}
      BY <1>3, <1>7, <3>1
    <3>. QED
      BY <2>1, <3>2
  <2>2. CASE q # p
    BY <1>6, <2>2 DEF ParentsFit
  <2>. QED
    BY <2>1, <2>2
<1>. QED
  BY <1>8, <1>9, <1>10, <1>11 DEF ParentsFit, Looked

(* Every other step keeps the re-entry job on its strategy, or ends its pass. *)
Stays ==
    call'[Reentry].step # "idle" =>
        /\ call[Reentry].step # "idle" /\ call'[Reentry].parent = call[Reentry].parent
        /\ call'[Reentry].market = call[Reentry].market
        /\ call'[Reentry].step \in Looked => call[Reentry].step \in Looked

LEMMA ReentryStays ==
    ASSUME TypeOK, [Next]_vars, ~ \E i \in Ids : CreateCommits(Reentry, i),
           ~ \E p \in Ids : ReentryBegins(p), ~ CreateLooks(Reentry)
    PROVE  Stays
<1>0. Reentry \in Jobs /\ Reentry \notin Signals
  BY DEF Jobs
<1>1. CASE call'[Reentry] = call[Reentry]
  BY <1>1 DEF Stays
<1>2. ASSUME NEW j \in Jobs, MovesOn(j) \/ CreateCounts(j) \/ OrderAnswered(j) PROVE Stays
  <2>1. CASE j = Reentry
    <3>1. PICK s : /\ call' = [call EXCEPT ![Reentry].step = s]
                   /\ s \in Looked => call[Reentry].step \in Looked
                   /\ call[Reentry].step # "idle"
      <4>1. CASE AccountAnswers(j)
        BY <2>1, <4>1 DEF AccountAnswers, Move, At, Looked
      <4>2. CASE StartLooks(j)
        BY <2>1, <4>2 DEF StartLooks, Move, At, Looked
      <4>3. CASE MarginIsSet(j)
        BY <2>1, <4>3 DEF MarginIsSet, Move, At, Looked
      <4>4. CASE CreateCounts(j)
        BY <2>1, <4>4 DEF CreateCounts, Move, At, Looked
      <4>5. CASE OrderAnswered(j)
        BY <2>1, <4>5 DEF OrderAnswered, Move, At, Looked
      <4>. QED
        BY <1>2, <2>1, <4>1, <4>2, <4>3, <4>4, <4>5 DEF MovesOn
    <3>2. /\ call'[Reentry].step = s /\ call'[Reentry].parent = call[Reentry].parent
          /\ call'[Reentry].market = call[Reentry].market
      BY <1>0, <3>1, Typed DEF Calls
    <3>. QED
      BY <3>1, <3>2 DEF Stays
  <2>2. CASE j # Reentry
    <3>1. call'[Reentry] = call[Reentry]
      BY <1>0, <1>2, <2>2, Typed
         DEF MovesOn, CreateLooks, AccountAnswers, StartLooks, MarginIsSet, CreateCounts, OrderAnswered, Move
    <3>. QED
      BY <1>1, <3>1
  <2>. QED
    BY <2>1, <2>2
<1>3. ASSUME NEW j \in Jobs, NEW i \in Ids, CreateCommits(j, i) PROVE Stays
  <2>1. j # Reentry
    BY <1>3
  <2>2. call'[Reentry] = call[Reentry]
    BY <1>0, <1>3, <2>1, Typed DEF CreateCommits
  <2>. QED
    BY <1>1, <2>2
<1>4. ASSUME NEW j \in Jobs, StartCommits(j) PROVE Stays
  <2>1. CASE j = Reentry
    <3>1. call' = [call EXCEPT ![Reentry].step = "started"]
      BY <1>0, <1>4, <2>1, Typed DEF StartCommits
    <3>2. /\ call'[Reentry].step = "started" /\ call'[Reentry].parent = call[Reentry].parent
          /\ call'[Reentry].market = call[Reentry].market
      BY <1>0, <3>1, Typed DEF Calls
    <3>. QED
      BY <1>4, <2>1, <3>2 DEF Stays, Looked, StartCommits, At
  <2>2. CASE j # Reentry
    <3>1. call'[Reentry] = call[Reentry]
      BY <1>0, <1>4, <2>2, Typed DEF StartCommits
    <3>. QED
      BY <1>1, <3>1
  <2>. QED
    BY <2>1, <2>2
<1>5. ASSUME NEW j \in Jobs, NEW why, Fails(j, why) PROVE Stays
  <2>1. CASE j = Reentry
    BY <1>0, <1>5, <2>1, Typed DEF Fails, Stays, Idle
  <2>2. CASE j # Reentry
    <3>1. call'[Reentry] = call[Reentry]
      BY <1>0, <1>5, <2>2, Typed DEF Fails
    <3>. QED
      BY <1>1, <3>1
  <2>. QED
    BY <2>1, <2>2
<1>6. ASSUME NEW j \in Jobs, OrderUnanswered(j) \/ Refused(j) PROVE Stays
  BY <1>5, <1>6 DEF OrderUnanswered, Refused
<1>7. ASSUME NEW j \in Signals, CleansUp(j) PROVE Stays
  BY <1>0, <1>1, <1>7, Typed DEF CleansUp, Jobs
<1>8. CASE ReentryDone \/ Crash
  BY <1>0, <1>8, Typed DEF ReentryDone, Crash, Idle, Stays
<1>9. CASE \E i \in Ids, s \in {"REENTRY_READY", "STOPPED"} : Closes(i, s)
  BY <1>1, <1>9 DEF Closes
<1>10. CASE Around \/ UNCHANGED vars
  BY <1>1, <1>10 DEF Around, SwitchTriggers, SwitchClears, Halts, Bans, vars
<1>11. CASE \E j \in Signals, m \in Markets : Begins(j, m, FamilyOf[j], NoId)
  BY <1>0, <1>1, <1>11, Typed DEF Begins, Jobs
<1>. QED
  BY <1>2, <1>3, <1>4, <1>6, <1>7, <1>8, <1>9, <1>10, <1>11, Cases

LEMMA ParentsNext ==
    ASSUME TypeOK, Known, ParentsFit, [Next]_vars
    PROVE  ParentsFit'
<1>0. Reentry \in Jobs
  BY DEF Jobs
<1>1. CASE \E j \in Jobs, i \in Ids : CreateCommits(j, i)
  BY <1>1, ParentsCommits
<1>2. CASE \E p \in Ids : ReentryBegins(p)
  BY <1>2, ParentsBegins
<1>3. CASE CreateLooks(Reentry)
  BY <1>3, ParentsLooks DEF Known
<1>4. CASE ~ (\E j \in Jobs, i \in Ids : CreateCommits(j, i)) /\ ~ (\E p \in Ids : ReentryBegins(p)) /\ ~ CreateLooks(Reentry)
  <2>1. \A k \in Ids : Settles(k)
    BY <1>4, RowsSettle
  <2>2. Stays
    BY <1>0, <1>4, ReentryStays
  <2>. QED
    BY <2>1, <2>2, ParentsKept DEF Stays
<1>. QED
  BY <1>1, <1>2, <1>3, <1>4

-----------------------------------------------------------------------------
(***************************************************************************)
(* The kill switch: SwitchFits.                                            *)
(***************************************************************************)
LEMMA SwitchKept ==
    ASSUME SwitchFits, switch' = switch, spared' \subseteq spared,
           \A k \in Jobs : call'[k].step \in {"cleared", "margin"} =>
               /\ switch => call[k].step \in {"cleared", "margin"}
               /\ k \in spared => k \in spared'
    PROVE  SwitchFits'
  BY DEF SwitchFits, Cleared

LEMMA SwitchNext ==
    ASSUME TypeOK, SwitchFits, [Next]_vars
    PROVE  SwitchFits'
<1>1. CASE \E j \in Signals, m \in Markets : Begins(j, m, FamilyOf[j], NoId)
  BY <1>1, Typed, SwitchKept DEF Begins
<1>2. CASE \E p \in Ids : ReentryBegins(p)
  BY <1>2, Typed, SwitchKept DEF ReentryBegins, Begins
<1>3. ASSUME NEW j \in Jobs, CreateLooks(j) \/ AccountAnswers(j) \/ CreateCounts(j) PROVE SwitchFits'
  <2>1. PICK s \in {"looked", "answered", "counted"} : call' = [call EXCEPT ![j].step = s]
    BY <1>3 DEF CreateLooks, AccountAnswers, CreateCounts, Move
  <2>2. switch' = switch /\ spared' = spared
    BY <1>3 DEF CreateLooks, AccountAnswers, CreateCounts
  <2>. QED
    BY <2>1, <2>2, Typed, SwitchKept DEF Calls
<1>4. ASSUME NEW j \in Jobs, StartLooks(j) PROVE SwitchFits'
  BY <1>4 DEF StartLooks, Stopped, SwitchFits
<1>5. ASSUME NEW j \in Jobs, MarginIsSet(j) PROVE SwitchFits'
  BY <1>5, Typed, SwitchKept DEF MarginIsSet, Move, At
<1>6. ASSUME NEW j \in Jobs, OrderAnswered(j) PROVE SwitchFits'
  BY <1>6, Typed, SwitchKept DEF OrderAnswered, Move, Calls
<1>7. ASSUME NEW j \in Jobs, NEW i \in Ids, CreateCommits(j, i) PROVE SwitchFits'
  BY <1>7, Typed, SwitchKept DEF CreateCommits, Calls
<1>8. ASSUME NEW j \in Jobs, StartCommits(j) PROVE SwitchFits'
  <2>1. call'[j].step \in {"idle", "started"}
    BY <1>8, Typed DEF StartCommits, Idle, Calls
  <2>2. \A k \in Jobs : k # j => call'[k] = call[k]
    BY <1>8, Typed DEF StartCommits
  <2>. QED
    BY <1>8, <2>1, <2>2, SwitchKept DEF StartCommits
<1>9. ASSUME NEW j \in Jobs, NEW why, Fails(j, why), switch' = switch PROVE SwitchFits'
  <2>1. call'[j].step \in {"idle", "cleanup"}
    BY <1>9, Typed DEF Fails, Idle, Calls
  <2>2. \A k \in Jobs : k # j => call'[k] = call[k]
    BY <1>9, Typed DEF Fails
  <2>. QED
    BY <1>9, <2>1, <2>2, SwitchKept DEF Fails
<1>10. ASSUME NEW j \in Jobs, OrderUnanswered(j) \/ Refused(j) PROVE SwitchFits'
  BY <1>9, <1>10 DEF OrderUnanswered, Refused
<1>11. ASSUME NEW j \in Signals, CleansUp(j) PROVE SwitchFits'
  BY <1>11, Typed, SwitchKept DEF CleansUp, Idle
<1>12. CASE ReentryDone
  BY <1>12, Typed, SwitchKept DEF ReentryDone, Idle
<1>13. CASE Crash
  BY <1>13, SwitchKept DEF Crash, Idle
<1>14. CASE \E i \in Ids, s \in {"REENTRY_READY", "STOPPED"} : Closes(i, s)
  BY <1>14, SwitchKept DEF Closes
<1>15. CASE SwitchTriggers \/ SwitchClears
  BY <1>15 DEF SwitchTriggers, SwitchClears, SwitchFits, Cleared
<1>16. CASE Halts \/ Bans \/ UNCHANGED vars
  BY <1>16, SwitchKept DEF Halts, Bans, vars
<1>. QED
  BY <1>1, <1>2, <1>3, <1>4, <1>5, <1>6, <1>7, <1>8, <1>10, <1>11, <1>12, <1>13, <1>14, <1>15, <1>16,
     Cases DEF MovesOn, Around

-----------------------------------------------------------------------------
(***************************************************************************)
(* The daily limit of a family: LocksFit.                                  *)
(***************************************************************************)
LEMMA Numbers ==
    /\ \A S \in SUBSET Ids : IsFiniteSet(S) /\ Cardinality(S) \in Nat
    /\ \A S \in SUBSET Ids : \A T \in SUBSET S : Cardinality(T) <= Cardinality(S)
    /\ \A S \in SUBSET Ids, i \in Ids : Cardinality(S \cup {i}) <= Cardinality(S) + 1
<1>1. \A S \in SUBSET Ids : IsFiniteSet(S) /\ Cardinality(S) \in Nat
  BY FS_Subset, FS_CardinalityType
<1>2. ASSUME NEW S \in SUBSET Ids, NEW T \in SUBSET S PROVE Cardinality(T) <= Cardinality(S)
  BY <1>1, FS_Subset
<1>3. ASSUME NEW S \in SUBSET Ids, NEW i \in Ids PROVE Cardinality(S \cup {i}) <= Cardinality(S) + 1
  BY <1>1, FS_AddElement
<1>. QED
  BY <1>1, <1>2, <1>3

LocksSame ==
    /\ locks' = locks
    /\ \A k \in Jobs : /\ call'[k].step = "counted" <=> call[k].step = "counted"
                       /\ call[k].step = "counted" => call'[k].family = call[k].family

LocksHeld == \A f \in Families, j \in Jobs : locks[f] = j <=> At(j, "counted") /\ call[j].family = f

LEMMA LocksKept ==
    ASSUME TypeOK, LocksFit, \A k \in Ids : Settles(k), LocksHeld',
           \A f \in Families : locks'[f] # Nobody =>
               locks[f] # Nobody \/ Cardinality(CountedToday(f)) < DailyMax[f]
    PROVE  LocksFit'
<1>1. \A f \in Families : CountedToday(f)' \in SUBSET CountedToday(f)
  BY DEF CountedToday, Settles
<1>2. \A f \in Families : CountedToday(f) \in SUBSET Ids
  BY DEF CountedToday
<1>3. ASSUME NEW f \in Families
      PROVE  /\ Cardinality(CountedToday(f)') <= DailyMax[f]
             /\ locks'[f] # Nobody => Cardinality(CountedToday(f)') < DailyMax[f]
  <2>1. /\ Cardinality(CountedToday(f)) \in Nat /\ Cardinality(CountedToday(f)') \in Nat
        /\ Cardinality(CountedToday(f)') <= Cardinality(CountedToday(f))
    BY <1>1, <1>2, Numbers
  <2>2. DailyMax[f] \in Nat
    OBVIOUS
  <2>3. /\ Cardinality(CountedToday(f)) <= DailyMax[f]
        /\ locks[f] # Nobody => Cardinality(CountedToday(f)) < DailyMax[f]
    BY DEF LocksFit
  <2>. QED
    BY <2>1, <2>2, <2>3
<1>. QED
  BY <1>3 DEF LocksFit, LocksHeld

LEMMA LocksStay ==
    ASSUME TypeOK, LocksFit, \A k \in Ids : Settles(k), LocksSame
    PROVE  LocksFit'
<1>1. LocksHeld'
  BY DEF LocksFit, LocksHeld, LocksSame, At
<1>. QED
  BY <1>1, LocksKept DEF LocksSame

LEMMA LocksCounts ==
    ASSUME TypeOK, LocksFit, \A k \in Ids : Settles(k), NEW j \in Jobs, CreateCounts(j)
    PROVE  LocksFit'
<1>. DEFINE g == call[j].family
<1>1. /\ call'[j].step = "counted" /\ call'[j].family = g /\ call[j].step = "answered"
      /\ \A k \in Jobs : k # j => call'[k] = call[k]
  BY Typed DEF CreateCounts, Move, At, Calls
<1>2. g \in Families /\ locks[g] = Nobody /\ Cardinality(CountedToday(g)) < DailyMax[g]
  BY Typed DEF CreateCounts, Calls
<1>3. locks'[g] = j /\ \A f \in Families : f # g => locks'[f] = locks[f]
  BY <1>2 DEF CreateCounts, TypeOK
<1>4. LocksHeld'
  <2>. SUFFICES ASSUME NEW f \in Families, NEW k \in Jobs
                PROVE  locks'[f] = k <=> call'[k].step = "counted" /\ call'[k].family = f
    BY DEF LocksHeld, At
  <2>1. locks[f] = k <=> call[k].step = "counted" /\ call[k].family = f
    BY DEF LocksFit, At
  <2>2. Nobody # k
    OBVIOUS
  <2>. QED
    BY <1>1, <1>2, <1>3, <2>1, <2>2
<1>. QED
  BY <1>2, <1>3, <1>4, LocksKept

LEMMA LocksCommits ==
    ASSUME TypeOK, LocksFit, NEW j \in Jobs, NEW i \in Ids, CreateCommits(j, i)
    PROVE  LocksFit'
<1>. DEFINE g == call[j].family
<1>1. /\ call'[j].step = "created" /\ call[j].step = "counted"
      /\ \A k \in Jobs : k # j => call'[k] = call[k]
  BY Typed DEF CreateCommits, At, Calls
<1>2. g \in Families /\ locks[g] = j
  BY <1>1, Typed DEF LocksFit, At, Calls
<1>3. \A f \in Families : locks'[f] = IF locks[f] = j THEN Nobody ELSE locks[f]
  BY DEF CreateCommits, Released
<1>4. LocksHeld'
  <2>. SUFFICES ASSUME NEW f \in Families, NEW k \in Jobs
                PROVE  locks'[f] = k <=> call'[k].step = "counted" /\ call'[k].family = f
    BY DEF LocksHeld, At
  <2>1. locks[f] = k <=> call[k].step = "counted" /\ call[k].family = f
    BY DEF LocksFit, At
  <2>2. Nobody # k
    OBVIOUS
  <2>. QED
    BY <1>1, <1>3, <2>1, <2>2
<1>5. rows'[i].family = g /\ \A k \in Ids : k # i => rows'[k] = rows[k]
  BY Typed DEF CreateCommits
<1>6. ASSUME NEW f \in Families
      PROVE  CountedToday(f)' \in SUBSET (CountedToday(f) \cup (IF f = g THEN {i} ELSE {}))
  BY <1>5 DEF CountedToday, Exists, counts_toward_today
<1>7. ASSUME NEW f \in Families
      PROVE  /\ Cardinality(CountedToday(f)') <= DailyMax[f]
             /\ locks'[f] # Nobody => Cardinality(CountedToday(f)') < DailyMax[f]
  <2>1. /\ DailyMax[f] \in Nat /\ Cardinality(CountedToday(f)) <= DailyMax[f]
        /\ locks[f] # Nobody => Cardinality(CountedToday(f)) < DailyMax[f]
    BY DEF LocksFit
  <2>2. CountedToday(f) \in SUBSET Ids
    BY DEF CountedToday
  <2>3. CASE f = g
    <3>1. CountedToday(f)' \in SUBSET (CountedToday(f) \cup {i})
      BY <1>6, <2>3
    <3>2. CountedToday(f) \cup {i} \in SUBSET Ids
      BY <2>2
    <3>3. /\ Cardinality(CountedToday(f)') <= Cardinality(CountedToday(f) \cup {i})
          /\ Cardinality(CountedToday(f) \cup {i}) <= Cardinality(CountedToday(f)) + 1
          /\ Cardinality(CountedToday(f)) \in Nat /\ Cardinality(CountedToday(f) \cup {i}) \in Nat
          /\ Cardinality(CountedToday(f)') \in Nat
      BY <2>2, <3>1, <3>2, Numbers
    <3>4. locks[f] # Nobody /\ locks'[f] = Nobody
      BY <1>2, <1>3, <2>3
    <3>. QED
      BY <2>1, <3>3, <3>4
  <2>4. CASE f # g
    <3>1. CountedToday(f)' \in SUBSET CountedToday(f)
      BY <1>6, <2>4
    <3>2. /\ Cardinality(CountedToday(f)') <= Cardinality(CountedToday(f))
          /\ Cardinality(CountedToday(f)) \in Nat /\ Cardinality(CountedToday(f)') \in Nat
      BY <2>2, <3>1, Numbers
    <3>3. locks'[f] # Nobody => locks[f] # Nobody
      BY <1>3
    <3>. QED
      BY <2>1, <3>2, <3>3
  <2>. QED
    BY <2>3, <2>4
<1>. QED
  BY <1>4, <1>7 DEF LocksFit, LocksHeld

LEMMA LocksFails ==
    ASSUME TypeOK, LocksFit, \A k \in Ids : Settles(k), NEW j \in Jobs, NEW why, Fails(j, why),
           ~ At(j, "counted")
    PROVE  LocksFit'
<1>1. \A f \in Families : locks[f] # j
  BY DEF LocksFit
<1>2. locks' = locks
  BY <1>1 DEF Fails, Released, TypeOK
<1>3. call'[j].step \in {"idle", "cleanup"} /\ \A k \in Jobs : k # j => call'[k] = call[k]
  BY Typed DEF Fails, Idle, Calls
<1>4. LocksSame
  BY <1>2, <1>3 DEF LocksSame, At
<1>. QED
  BY <1>4, LocksStay

LEMMA LocksNext ==
    ASSUME TypeOK, Known, ParentsFit, LocksFit, [Next]_vars
    PROVE  LocksFit'
<1>1. CASE \E j \in Jobs, i \in Ids : CreateCommits(j, i)
  BY <1>1, LocksCommits
<1>2. CASE ~ \E j \in Jobs, i \in Ids : CreateCommits(j, i)
  <2>. \A k \in Ids : Settles(k)
    BY <1>2, RowsSettle
  <2>1. CASE \E j \in Signals, m \in Markets : Begins(j, m, FamilyOf[j], NoId)
    BY <2>1, Typed, LocksStay DEF Begins, LocksSame, At
  <2>2. CASE \E p \in Ids : ReentryBegins(p)
    BY <2>2, Typed, LocksStay DEF ReentryBegins, Begins, LocksSame, At
  <2>3. ASSUME NEW j \in Jobs, MovesOn(j) \/ OrderAnswered(j) PROVE LocksFit'
    <3>1. PICK s \in {"looked", "answered", "cleared", "margin", "placed"} :
              call' = [call EXCEPT ![j].step = s]
      BY <2>3 DEF MovesOn, CreateLooks, AccountAnswers, StartLooks, MarginIsSet, OrderAnswered, Move
    <3>2. locks' = locks /\ call[j].step # "counted"
      BY <2>3 DEF MovesOn, CreateLooks, AccountAnswers, StartLooks, MarginIsSet, OrderAnswered, At
    <3>3. call'[j].step = s /\ \A k \in Jobs : k # j => call'[k] = call[k]
      BY <3>1, Typed DEF Calls
    <3>4. LocksSame
      BY <3>2, <3>3 DEF LocksSame
    <3>. QED
      BY <3>4, LocksStay
  <2>4. ASSUME NEW j \in Jobs, CreateCounts(j) PROVE LocksFit'
    BY <2>4, LocksCounts
  <2>5. ASSUME NEW j \in Jobs, StartCommits(j) PROVE LocksFit'
    <3>1. call'[j].step \in {"idle", "started"} /\ call[j].step = "placed"
      BY <2>5, Typed DEF StartCommits, Idle, Calls, At
    <3>2. \A k \in Jobs : k # j => call'[k] = call[k]
      BY <2>5, Typed DEF StartCommits
    <3>3. LocksSame
      BY <2>5, <3>1, <3>2 DEF LocksSame, StartCommits
    <3>. QED
      BY <3>3, LocksStay
  <2>6. ASSUME NEW j \in Jobs, OrderUnanswered(j) PROVE LocksFit'
    BY <2>6, LocksFails DEF OrderUnanswered, At
  <2>7. ASSUME NEW j \in Jobs, Refused(j) PROVE LocksFit'
    <3>1. PICK why : Raises(j, why) /\ Fails(j, why)
      BY <2>7 DEF Refused
    <3>2. ~ At(j, "counted")
      BY <3>1 DEF Raises, At
    <3>. QED
      BY <3>1, <3>2, LocksFails
  <2>8. ASSUME NEW j \in Signals, CleansUp(j) PROVE LocksFit'
    BY <2>8, Typed, LocksStay DEF CleansUp, LocksSame, Idle, At
  <2>9. CASE ReentryDone
    BY <2>9, Typed, LocksStay DEF ReentryDone, LocksSame, Idle, At
  <2>10. CASE Crash
    <3>1. LocksHeld'
      BY <2>10 DEF Crash, LocksHeld, Idle, At
    <3>2. \A f \in Families : locks'[f] = Nobody
      BY <2>10 DEF Crash
    <3>. QED
      BY <3>1, <3>2, LocksKept
  <2>11. CASE \E i \in Ids, s \in {"REENTRY_READY", "STOPPED"} : Closes(i, s)
    BY <2>11, LocksStay DEF Closes, LocksSame
  <2>12. CASE Around \/ UNCHANGED vars
    BY <2>12, LocksStay DEF Around, SwitchTriggers, SwitchClears, Halts, Bans, vars, LocksSame
  <2>. QED
    BY <1>2, <2>1, <2>2, <2>3, <2>4, <2>5, <2>6, <2>7, <2>8, <2>9, <2>10, <2>11, <2>12, Cases
<1>. QED
  BY <1>1, <1>2

-----------------------------------------------------------------------------
(***************************************************************************)
(* Slots: SlotsFit.                                                        *)
(***************************************************************************)
LEMMA JobNumbers ==
    /\ \A S \in SUBSET Jobs : IsFiniteSet(S) /\ Cardinality(S) \in Nat
    /\ \A S \in SUBSET Jobs : \A T \in SUBSET S : Cardinality(T) <= Cardinality(S)
    /\ \A S \in SUBSET Jobs : \A j \in S : Cardinality(S \ {j}) = Cardinality(S) - 1
    /\ \A S \in SUBSET Jobs : Cardinality(Jobs \ S) = Cardinality(Jobs) - Cardinality(S)
<1>1. IsFiniteSet(Jobs)
  BY FS_AddElement DEF Jobs
<1>2. \A S \in SUBSET Jobs : IsFiniteSet(S) /\ Cardinality(S) \in Nat
  BY <1>1, FS_Subset, FS_CardinalityType
<1>3. ASSUME NEW S \in SUBSET Jobs, NEW T \in SUBSET S PROVE Cardinality(T) <= Cardinality(S)
  BY <1>2, FS_Subset
<1>4. ASSUME NEW S \in SUBSET Jobs, NEW j \in S PROVE Cardinality(S \ {j}) = Cardinality(S) - 1
  BY <1>2, FS_RemoveElement
<1>5. ASSUME NEW S \in SUBSET Jobs PROVE Cardinality(Jobs \ S) = Cardinality(Jobs) - Cardinality(S)
  <2>1. Jobs \cap S = S
    OBVIOUS
  <2>. QED
    BY <1>1, <2>1, FS_Difference
<1>. QED
  BY <1>2, <1>3, <1>4, <1>5

Owned == {i \in held : \E j \in Jobs : call[j].id = i}

LEMMA TakenIs == Taken = Active \cup Owned
  BY DEF Taken, Lost, Owned

(* No slot is taken, and no job finds one. *)
LEMMA SlotsFewer ==
    ASSUME TypeOK, SlotsFit, Taken' \subseteq Taken, Pend' \subseteq Pend
    PROVE  SlotsFit'
<1>1. Taken \in SUBSET Ids /\ Pend \in SUBSET Jobs
  BY TakenIs DEF TypeOK, Active, Owned, Pend
<1>2. /\ Cardinality(Taken) \in Nat /\ Cardinality(Taken') \in Nat
      /\ Cardinality(Pend) \in Nat /\ Cardinality(Pend') \in Nat
      /\ Cardinality(Taken') <= Cardinality(Taken) /\ Cardinality(Pend') <= Cardinality(Pend)
  BY <1>1, Numbers, JobNumbers
<1>3. Cardinality(Jobs) \in Nat
  BY JobNumbers
<1>. QED
  BY <1>2, <1>3 DEF SlotsFit

(* A job takes the slot it has found. *)
LEMMA SlotsTaken ==
    ASSUME TypeOK, SlotsFit, NEW i \in Ids, NEW j \in Pend, Taken' \subseteq Taken \cup {i},
           Pend' \subseteq Pend \ {j}
    PROVE  SlotsFit'
<1>1. Taken \in SUBSET Ids /\ Pend \in SUBSET Jobs
  BY TakenIs DEF TypeOK, Active, Owned, Pend
<1>2. Taken \cup {i} \in SUBSET Ids /\ Pend \ {j} \in SUBSET Jobs
  BY <1>1
<1>3. /\ Cardinality(Taken) \in Nat /\ Cardinality(Taken \cup {i}) \in Nat /\ Cardinality(Taken') \in Nat
      /\ Cardinality(Taken') <= Cardinality(Taken \cup {i})
      /\ Cardinality(Taken \cup {i}) <= Cardinality(Taken) + 1
  BY <1>1, <1>2, Numbers
<1>4. /\ Cardinality(Pend) \in Nat /\ Cardinality(Pend \ {j}) \in Nat /\ Cardinality(Pend') \in Nat
      /\ Cardinality(Pend') <= Cardinality(Pend \ {j})
      /\ Cardinality(Pend \ {j}) = Cardinality(Pend) - 1
  BY <1>1, <1>2, JobNumbers
<1>5. Cardinality(Jobs) \in Nat
  BY JobNumbers
<1>. QED
  BY <1>3, <1>4, <1>5 DEF SlotsFit

(* Of the strategies that are not active, each that holds a slot has a job *)
(* of its own, that looks for none.                                        *)
LEMMA Owners ==
    ASSUME TypeOK, Known
    PROVE  \E owner : owner \in Injection(Owned \ Active, Jobs \ Pend)
                      /\ \A i \in Owned \ Active : call[owner[i]].id = i
<1>. DEFINE owner == [i \in Owned \ Active |-> CHOOSE j \in Jobs : call[j].id = i]
<1>1. ASSUME NEW i \in Owned \ Active PROVE owner[i] \in Jobs /\ call[owner[i]].id = i
  BY <1>1 DEF Owned
<1>2. ASSUME NEW i \in Owned \ Active PROVE owner[i] \notin Pend
  <2>1. i \in held /\ i \in Ids /\ i \notin Active
    BY <1>2 DEF Owned, TypeOK
  <2>2. rows[i].status = "WAITING" /\ i \in bought /\ i # NoId
    BY <2>1, StatusFacts DEF Known, RowsFit, RowFits, Active
  <2>3. CallFits(owner[i]) /\ call[owner[i]].id = i
    BY <1>1 DEF Known, CallsFit
  <2>. QED
    BY <2>1, <2>2, <2>3 DEF CallFits, Pend, At
<1>3. ASSUME NEW i \in Owned \ Active, NEW k \in Owned \ Active, owner[i] = owner[k] PROVE i = k
  BY <1>1, <1>3
<1>4. owner \in [Owned \ Active -> Jobs \ Pend]
  BY <1>1, <1>2
<1>5. owner \in Injection(Owned \ Active, Jobs \ Pend)
  BY <1>3, <1>4 DEF Injection, IsInjective
<1>. QED
  BY <1>1, <1>5

(* A job that finds a free slot joins those that look for one. *)
LEMMA SlotsFound ==
    ASSUME TypeOK, Known, SlotFree, NEW j \in Jobs, NEW m, NEW f, NEW p, Begins(j, m, f, p)
    PROVE  SlotsFit'
<1>1. call[j].step = "idle" /\ call[j].id = NoId
  BY DEF Begins, At, Known, CallsFit, CallFits
<1>2. call'[j].id = NoId /\ \A k \in Jobs : k # j => call'[k] = call[k]
  BY Typed DEF Begins
<1>3. rows' = rows /\ held' = held
  BY DEF Begins
<1>4. Active' = Active /\ Owned' = Owned /\ Taken' = Active' \cup Owned'
  BY <1>1, <1>2, <1>3 DEF Active, Owned, Taken, Lost
<1>5. Pend' \subseteq Pend \cup {j}
  BY <1>2, <1>3 DEF Pend, At
<1>6. PICK owner \in Injection(Owned \ Active, Jobs \ Pend) :
          \A i \in Owned \ Active : call[owner[i]].id = i
  BY Owners
<1>7. owner \in Injection(Owned \ Active, Jobs \ (Pend \cup {j}))
  <2>1. ASSUME NEW i \in Owned \ Active PROVE owner[i] # j
    <3>1. i # NoId
      BY <2>1 DEF Owned, TypeOK
    <3>. QED
      BY <1>1, <1>6, <2>1, <3>1
  <2>. QED
    BY <1>6, <2>1 DEF Injection
<1>8. Cardinality(Owned \ Active) <= Cardinality(Jobs) - Cardinality(Pend \cup {j})
  <2>1. Pend \cup {j} \in SUBSET Jobs /\ Jobs \ (Pend \cup {j}) \in SUBSET Jobs
    BY DEF Pend
  <2>2. IsFiniteSet(Jobs \ (Pend \cup {j}))
    BY <2>1, JobNumbers
  <2>3. Cardinality(Owned \ Active) <= Cardinality(Jobs \ (Pend \cup {j}))
    BY <1>7, <2>2, FS_Injection
  <2>. QED
    BY <2>1, <2>3, JobNumbers
<1>9. Cardinality(Taken') <= Cardinality(Active) + Cardinality(Owned \ Active)
  <2>1. Taken' = Active \cup (Owned \ Active) /\ Active \cap (Owned \ Active) = {}
    BY <1>4, TakenIs
  <2>2. Active \in SUBSET Ids /\ Owned \ Active \in SUBSET Ids
    BY DEF Active, Owned, TypeOK
  <2>3. IsFiniteSet(Active) /\ IsFiniteSet(Owned \ Active)
    BY <2>2, Numbers
  <2>4. Cardinality(Active \cup (Owned \ Active)) = Cardinality(Active) + Cardinality(Owned \ Active) - Cardinality({})
    BY <2>1, <2>3, FS_Union
  <2>5. Cardinality({}) = 0 /\ Cardinality(Active) \in Nat /\ Cardinality(Owned \ Active) \in Nat
    BY <2>2, Numbers, FS_EmptySet
  <2>. QED
    BY <2>1, <2>4, <2>5
<1>10. /\ Cardinality(Pend') <= Cardinality(Pend \cup {j})
       /\ Cardinality(Pend') \in Nat /\ Cardinality(Pend \cup {j}) \in Nat /\ Cardinality(Jobs) \in Nat
  <2>1. Pend \cup {j} \in SUBSET Jobs
    BY DEF Pend
  <2>2. Pend' \in SUBSET (Pend \cup {j}) /\ Pend' \in SUBSET Jobs
    BY <1>5, <2>1
  <2>. QED
    BY <2>1, <2>2, JobNumbers
<1>11. /\ Cardinality(Taken') \in Nat /\ Cardinality(Active) \in Nat /\ Cardinality(Owned \ Active) \in Nat
  <2>1. Taken' \in SUBSET Ids /\ Active \in SUBSET Ids /\ Owned \ Active \in SUBSET Ids
    BY <1>4, TakenIs DEF Active, Owned, TypeOK
  <2>. QED
    BY <2>1, Numbers
<1>12. Cardinality(Active) < Limit /\ Limit \in Nat
  BY DEF SlotFree
<1>. QED
  BY <1>8, <1>9, <1>10, <1>11, <1>12 DEF SlotsFit

(* The parts the slots depend on, where the rows' statuses change little. *)
LEMMA SlotsAlike ==
    ASSUME TypeOK, SlotsFit, Active' \subseteq Active, held' = held,
           \A k \in Jobs : /\ call'[k].id \in {call[k].id, NoId} \/ call'[k].id \notin held
                           /\ call'[k].step \in Creating \cup Unbought => k \in Pend
                           /\ call'[k].step = "cleanup" /\ call'[k].id \notin held => k \in Pend
    PROVE  SlotsFit'
<1>1. Taken' = Active' \cup Owned' /\ Taken = Active \cup Owned
  BY DEF Taken, Lost, Owned
<1>2. Owned' \subseteq Owned
  <2>. SUFFICES ASSUME NEW i \in held, NEW k \in Jobs, call'[k].id = i PROVE i \in Owned
    BY DEF Owned
  <2>1. i # NoId
    BY DEF TypeOK
  <2>. QED
    BY <2>1 DEF Owned
<1>3. Pend' \subseteq Pend
  BY DEF Pend, At
<1>. QED
  BY <1>1, <1>2, <1>3, SlotsFewer

LEMMA SlotsMoves ==
    ASSUME TypeOK, SlotsFit, NEW j \in Jobs, MovesOn(j) \/ CreateCounts(j)
    PROVE  SlotsFit'
<1>1. PICK s \in {"looked", "answered", "cleared", "margin", "counted"} : call' = [call EXCEPT ![j].step = s]
  BY DEF MovesOn, CreateLooks, AccountAnswers, StartLooks, MarginIsSet, CreateCounts, Move
<1>2. call[j].step \in Creating \cup Unbought
  BY DEF MovesOn, CreateLooks, AccountAnswers, StartLooks, MarginIsSet, CreateCounts, At, Creating, Unbought
<1>3. rows' = rows /\ held' = held
  BY DEF MovesOn, CreateLooks, AccountAnswers, StartLooks, MarginIsSet, CreateCounts
<1>4. /\ call'[j].id = call[j].id /\ call'[j].step = s
      /\ \A k \in Jobs : k # j => call'[k] = call[k]
  BY <1>1, Typed DEF Calls
<1>5. Active' = Active
  BY <1>3 DEF Active
<1>. QED
  BY <1>2, <1>3, <1>4, <1>5, SlotsAlike DEF Pend, At

LEMMA SlotsCommits ==
    ASSUME TypeOK, Known, SlotsFit, NEW j \in Jobs, NEW i \in Ids, CreateCommits(j, i)
    PROVE  SlotsFit'
<1>1. /\ call'[j].step = "created" /\ call'[j].id = i /\ call[j].step = "counted"
      /\ \A k \in Jobs : k # j => call'[k] = call[k]
  BY Typed DEF CreateCommits, At, Calls
<1>2. i \notin held
  BY DEF CreateCommits, Known, RowsFit, RowFits
<1>3. rows'[i].status = "WAITING" /\ \A k \in Ids : k # i => rows'[k] = rows[k]
  BY Typed DEF CreateCommits
<1>4. Active' \subseteq Active
  BY <1>3, StatusFacts DEF Active, Written
<1>5. j \in Pend /\ held' = held
  BY <1>1 DEF Pend, Creating, CreateCommits
<1>. QED
  BY <1>1, <1>2, <1>4, <1>5, SlotsAlike DEF Pend, At

(* The order is accepted: the job's slot becomes the strategy's. *)
LEMMA SlotsAccepted ==
    ASSUME TypeOK, Known, SlotsFit, NEW j \in Jobs, At(j, "margin"), Accepted(j), Active' \subseteq Active,
           \A k \in Jobs : k # j => call'[k] = call[k],
           call'[j].id \in {call[j].id, NoId}, call'[j].step \in {"placed", "idle", "cleanup"},
           call'[j].step = "cleanup" => call'[j].id = call[j].id
    PROVE  SlotsFit'
<1>. DEFINE i == call[j].id
<1>1. i \in Ids
  BY DEF Known, CallsFit, CallFits, At, WithRow
<1>2. held' = held \cup {i}
  BY DEF Accepted
<1>3. Taken' = Active' \cup Owned' /\ Taken = Active \cup Owned
  BY DEF Taken, Lost, Owned
<1>4. Owned' \subseteq Owned \cup {i}
  <2>. SUFFICES ASSUME NEW n \in held, n # i, NEW k \in Jobs, call'[k].id = n PROVE n \in Owned
    BY <1>2 DEF Owned
  <2>1. n # NoId
    BY DEF TypeOK
  <2>. QED
    BY <2>1 DEF Owned
<1>5. j \in Pend
  BY DEF Pend, At, Unbought
<1>6. Pend' \subseteq Pend \ {j}
  <2>. SUFFICES ASSUME NEW k \in Jobs, k \in Pend' PROVE k \in Pend /\ k # j
    BY DEF Pend
  <2>1. k # j
    BY <1>2 DEF Pend, At, Creating, Unbought
  <2>. QED
    BY <1>2, <2>1 DEF Pend, At
<1>. QED
  BY <1>1, <1>3, <1>4, <1>5, <1>6, SlotsTaken

LEMMA SlotsAnswered ==
    ASSUME TypeOK, Known, SlotsFit, NEW j \in Jobs, OrderAnswered(j)
    PROVE  SlotsFit'
<1>1. /\ call'[j].step = "placed" /\ call'[j].id = call[j].id
      /\ \A k \in Jobs : k # j => call'[k] = call[k]
  BY Typed DEF OrderAnswered, Move, Calls
<1>2. Active' = Active
  BY DEF OrderAnswered, Active
<1>. QED
  BY <1>1, <1>2, SlotsAccepted DEF OrderAnswered

LEMMA SlotsStarts ==
    ASSUME TypeOK, Known, SlotsFit, NEW j \in Jobs, StartCommits(j)
    PROVE  SlotsFit'
<1>. DEFINE i == call[j].id
<1>1. /\ call[j].step = "placed" /\ i \in Ids /\ i \in held /\ rows[i].status = "WAITING"
  BY DEF StartCommits, At, Known, CallsFit, CallFits, WithRow
<1>2. call'[j].id \in {i, NoId} /\ call'[j].step \in {"idle", "started"}
  BY Typed DEF StartCommits, Idle, Calls
<1>3. held' = held /\ \A k \in Jobs : k # j => call'[k] = call[k]
  BY Typed DEF StartCommits
<1>4. \A k \in Ids : k # i => rows'[k] = rows[k]
  BY <1>1, StatusChange DEF StartCommits
<1>5. Taken' = Active' \cup Owned' /\ Taken = Active \cup Owned
  BY DEF Taken, Lost, Owned
<1>6. Owned' \subseteq Owned
  <2>. SUFFICES ASSUME NEW n \in held, NEW k \in Jobs, call'[k].id = n PROVE n \in Owned
    BY <1>3 DEF Owned
  <2>1. n # NoId
    BY DEF TypeOK
  <2>. QED
    BY <1>2, <1>3, <2>1 DEF Owned
<1>7. Active' \subseteq Active \cup {i}
  BY <1>4 DEF Active
<1>8. i \in Owned
  BY <1>1 DEF Owned
<1>9. Pend' \subseteq Pend
  BY <1>2, <1>3 DEF Pend, At, Creating, Unbought
<1>. QED
  BY <1>5, <1>6, <1>7, <1>8, <1>9, SlotsFewer

(* A pass that fails gives its slot back, or keeps it for its order. *)
LEMMA ActiveFails ==
    ASSUME TypeOK, ParentsFit, NEW j \in Jobs, NEW why, Fails(j, why), ~ At(j, "idle")
    PROVE  Active' \subseteq Active
<1>1. CASE rows' = rows
  BY <1>1 DEF Active
<1>2. CASE rows' # rows
  <2>1. j = Reentry /\ rows' = [rows EXCEPT ![call[j].parent].status = "REENTRY_FAILED"]
    BY <1>2 DEF Fails
  <2>2. call[j].parent \in Ids
    BY <2>1 DEF ParentsFit, At
  <2>3. "REENTRY_FAILED" \notin ACTIVE_LIKE
    BY StatusFacts DEF Written
  <2>. QED
    BY <2>1, <2>2, <2>3, StatusChange DEF Active
<1>. QED
  BY <1>1, <1>2

LEMMA FailsMoves ==
    ASSUME TypeOK, NEW j \in Jobs, NEW why, Fails(j, why)
    PROVE  /\ call'[j].step \in {"idle", "cleanup"}
           /\ call'[j].id \in {call[j].id, NoId}
           /\ call'[j].step = "cleanup" => call'[j].id = call[j].id
           /\ \A k \in Jobs : k # j => call'[k] = call[k]
  BY Typed DEF Fails, Idle, Calls

LEMMA SlotsUnanswered ==
    ASSUME TypeOK, Known, ParentsFit, SlotsFit, NEW j \in Jobs, OrderUnanswered(j)
    PROVE  SlotsFit'
<1>1. Active' \subseteq Active
  BY ActiveFails DEF OrderUnanswered, At
<1>. QED
  BY <1>1, FailsMoves, SlotsAccepted DEF OrderUnanswered

LEMMA SlotsRefused ==
    ASSUME TypeOK, Known, ParentsFit, SlotsFit, NEW j \in Jobs, Refused(j)
    PROVE  SlotsFit'
<1>1. PICK why : Raises(j, why) /\ Fails(j, why)
  BY DEF Refused
<1>2. call[j].step \in Creating \cup Unbought /\ ~ At(j, "idle")
  BY <1>1 DEF Raises, At, Creating, Unbought
<1>3. Active' \subseteq Active
  BY <1>1, <1>2, ActiveFails
<1>4. j \in Pend /\ held' = held
  BY <1>2 DEF Pend, Refused
<1>5. /\ call'[j].step \in {"idle", "cleanup"} /\ call'[j].id \in {call[j].id, NoId}
      /\ \A k \in Jobs : k # j => call'[k] = call[k]
  BY <1>1, FailsMoves
<1>. QED
  BY <1>3, <1>4, <1>5, SlotsAlike DEF Pend, At

LEMMA SlotsCleansUp ==
    ASSUME TypeOK, Known, SlotsFit, NEW j \in Signals, CleansUp(j)
    PROVE  SlotsFit'
<1>. DEFINE i == call[j].id
<1>0. j \in Jobs
  BY DEF Jobs
<1>1. call[j].step = "cleanup" /\ i \in Ids
  BY <1>0 DEF CleansUp, At, Known, CallsFit, CallFits, WithRow
<1>2. call'[j] = Idle /\ held' = held /\ \A k \in Jobs : k # j => call'[k] = call[k]
  BY <1>0, Typed DEF CleansUp
<1>3. \A k \in Ids : k # i => rows'[k] = rows[k]
  BY Typed DEF CleansUp
<1>4. Taken' = Active' \cup Owned' /\ Taken = Active \cup Owned
  BY DEF Taken, Lost, Owned
<1>5. Owned' \subseteq Owned
  <2>. SUFFICES ASSUME NEW n \in held, NEW k \in Jobs, call'[k].id = n PROVE n \in Owned
    BY <1>2 DEF Owned
  <2>1. n # NoId
    BY DEF TypeOK
  <2>. QED
    BY <1>2, <2>1 DEF Owned, Idle
<1>6. Active' \subseteq Active \cup {i}
  BY <1>3 DEF Active
<1>7. Pend' \subseteq Pend \ {j}
  BY <1>2 DEF Pend, At, Idle, Creating, Unbought
<1>8. CASE i \in held
  <2>1. i \in Owned
    BY <1>0, <1>8 DEF Owned
  <2>. QED
    BY <1>4, <1>5, <1>6, <1>7, <2>1, SlotsFewer
<1>9. CASE i \notin held
  <2>1. j \in Pend
    BY <1>0, <1>1, <1>9 DEF Pend, At
  <2>. QED
    BY <1>1, <1>4, <1>5, <1>6, <1>7, <2>1, SlotsTaken
<1>. QED
  BY <1>8, <1>9

LEMMA SlotsDone ==
    ASSUME TypeOK, ParentsFit, SlotsFit, ReentryDone
    PROVE  SlotsFit'
<1>1. call'[Reentry] = Idle /\ held' = held /\ \A k \in Jobs : k # Reentry => call'[k] = call[k]
  BY Typed DEF ReentryDone, Jobs
<1>2. call[Reentry].parent \in Ids
  BY DEF ReentryDone, ParentsFit, At
<1>3. "REENTRY_DONE" \notin ACTIVE_LIKE
  BY StatusFacts DEF Written
<1>4. Active' \subseteq Active
  BY <1>2, <1>3, StatusChange DEF ReentryDone, Active
<1>. QED
  BY <1>1, <1>4, SlotsAlike DEF Idle, Pend, At, Creating, Unbought

LEMMA SlotsCrash ==
    ASSUME TypeOK, SlotsFit, Crash
    PROVE  SlotsFit'
<1>1. \A k \in Jobs : call'[k] = Idle
  BY DEF Crash
<1>2. Active' = Active /\ held' = held
  BY DEF Crash, Active
<1>. QED
  BY <1>1, <1>2, SlotsAlike DEF Idle, Creating, Unbought

LEMMA SlotsCloses ==
    ASSUME TypeOK, Known, SlotsFit, NEW i \in Ids, NEW s \in {"REENTRY_READY", "STOPPED"}, Closes(i, s)
    PROVE  SlotsFit'
<1>1. rows[i].status = "STAGE1_OPEN_PENDING"
  BY StatusFacts DEF Closes, Active, Known, RowsFit, RowFits
<1>2. s \notin ACTIVE_LIKE
  BY StatusFacts DEF Written
<1>3. Active' \subseteq Active
  BY <1>2, StatusChange DEF Closes, Active
<1>4. call' = call /\ held' = held \ {i}
  BY DEF Closes
<1>5. Taken' = Active' \cup Owned' /\ Taken = Active \cup Owned
  BY DEF Taken, Lost, Owned
<1>6. Owned' \subseteq Owned
  BY <1>4 DEF Owned
<1>7. Pend' \subseteq Pend
  <2>. SUFFICES ASSUME NEW k \in Jobs, call[k].step = "cleanup", call[k].id \notin held' PROVE k \in Pend
    BY <1>4 DEF Pend, At
  <2>1. rows[call[k].id].status = "WAITING"
    BY DEF Known, CallsFit, CallFits, WithRow
  <2>. QED
    BY <1>1, <1>4, <2>1 DEF Pend, At
<1>. QED
  BY <1>3, <1>5, <1>6, <1>7, SlotsFewer

LEMMA SlotsNext ==
    ASSUME TypeOK, Known, ParentsFit, SlotsFit, [Next]_vars
    PROVE  SlotsFit'
<1>1. CASE \E j \in Signals, m \in Markets : Begins(j, m, FamilyOf[j], NoId)
  BY <1>1, SlotsFound DEF Begins, Jobs
<1>2. CASE \E p \in Ids : ReentryBegins(p)
  BY <1>2, SlotsFound DEF ReentryBegins, Begins, Jobs
<1>3. CASE Around \/ UNCHANGED vars
  <2>1. UNCHANGED <<rows, held, call>>
    BY <1>3 DEF Around, SwitchTriggers, SwitchClears, Halts, Bans, vars
  <2>2. Taken' = Taken /\ Pend' = Pend
    BY <2>1 DEF Taken, Lost, Active, Pend, At
  <2>. QED
    BY <2>2, SlotsFewer
<1>. QED
  BY <1>1, <1>2, <1>3, Cases, SlotsMoves, SlotsCommits, SlotsAnswered, SlotsStarts, SlotsUnanswered,
     SlotsRefused, SlotsCleansUp, SlotsDone, SlotsCrash, SlotsCloses

-----------------------------------------------------------------------------
(***************************************************************************)
(* The theorems.                                                           *)
(***************************************************************************)
LEMMA InitInv == Init => AutoInv
<1>. SUFFICES ASSUME Init PROVE AutoInv
  OBVIOUS
<1>1. \A j \in Jobs : call[j] = Idle
  BY DEF Init
<1>2. \A i \in Ids : /\ rows[i].status \in {"NONE", "REENTRY_READY"} /\ rows[i].parent = NoId
                     /\ ~ rows[i].today
  BY DEF Init, NoRow
<1>3. held = {} /\ bought = {} /\ spared = {} /\ ~ switch /\ \A f \in Families : locks[f] = Nobody
  BY DEF Init
<1>4. CallsFit
  BY <1>1 DEF CallsFit, CallFits, At, Idle, WithRow, Creating, Unbought
<1>5. IdsDiffer
  BY <1>1 DEF IdsDiffer, Idle
<1>6. RowsFit
  BY <1>2, <1>3 DEF RowsFit, RowFits, Written
<1>7. LocksFit
  <2>1. \A f \in Families : CountedToday(f) = {}
    BY <1>2 DEF CountedToday
  <2>2. Cardinality({}) = 0 /\ \A f \in Families : DailyMax[f] \in Nat
    BY FS_EmptySet
  <2>3. \A f \in Families : Cardinality(CountedToday(f)) <= DailyMax[f]
    BY <2>1, <2>2
  <2>. QED
    BY <1>1, <1>3, <2>3 DEF LocksFit, At, Idle
<1>8. SlotsFit
  <2>1. Active = {}
    BY <1>2, StatusFacts DEF Active, Written
  <2>2. Taken = {} /\ Pend = {}
    BY <1>1, <1>3, <2>1 DEF Taken, Pend, At, Idle, Creating, Unbought
  <2>3. Cardinality({}) = 0
    BY FS_EmptySet
  <2>4. Cardinality(Jobs) \in Nat /\ Cardinality(Jobs) >= 1
    <3>1. Reentry \in Jobs /\ {Reentry} \in SUBSET Jobs /\ {} \in SUBSET Jobs
      BY DEF Jobs
    <3>2. Cardinality({Reentry} \ {Reentry}) = Cardinality({Reentry}) - 1
      BY <3>1, JobNumbers
    <3>3. Cardinality({}) = Cardinality({Reentry}) - 1
      <4>1. {Reentry} \ {Reentry} = {}
        OBVIOUS
      <4>. QED
        BY <3>2, <4>1
    <3>4. Cardinality({Reentry}) \in Nat /\ Cardinality({Reentry}) <= Cardinality(Jobs) /\ Cardinality(Jobs) \in Nat
      BY <3>1, JobNumbers
    <3>. QED
      BY <2>3, <3>3, <3>4
  <2>5. Limit \in Nat
    OBVIOUS
  <2>. QED
    BY <2>2, <2>3, <2>4, <2>5 DEF SlotsFit
<1>9. SwitchFits
  BY <1>3 DEF SwitchFits
<1>10. ParentsFit
  BY <1>1, <1>2, StatusFacts DEF ParentsFit, At, Idle, Children, Written, Jobs
<1>. QED
  BY <1>4, <1>5, <1>6, <1>7, <1>8, <1>9, <1>10, InitTypeOK DEF AutoInv

LEMMA NextInv == AutoInv /\ [Next]_vars => AutoInv'
<1>. SUFFICES ASSUME AutoInv, [Next]_vars PROVE AutoInv'
  OBVIOUS
<1>1. TypeOK /\ Known /\ ParentsFit /\ LocksFit /\ SlotsFit /\ SwitchFits
  BY DEF AutoInv, Known
<1>2. TypeOK'
  BY <1>1, NextTypeOK DEF Known
<1>3. Known' /\ ParentsFit'
  BY <1>1, KnownNext, ParentsNext
<1>4. LocksFit' /\ SlotsFit' /\ SwitchFits'
  BY <1>1, LocksNext, SlotsNext, SwitchNext
<1>. QED
  BY <1>2, <1>3, <1>4 DEF AutoInv, Known

(* The invariant the others follow from. *)
THEOREM Invariant == Spec => []AutoInv
  BY InitInv, NextInv, PTL DEF Spec

(* Every variable keeps its type. *)
THEOREM TypeCorrect == Spec => []TypeOK
<1>1. AutoInv => TypeOK
  BY DEF AutoInv
<1>. QED
  BY <1>1, Invariant, PTL

(* A family never has more entries in a day than its limit, whatever the   *)
(* number of jobs, their interleaving and their failures.                  *)
THEOREM DailyLimit == Spec => []FamilyDailyCap
<1>1. AutoInv => FamilyDailyCap
  <2>. SUFFICES ASSUME AutoInv, NEW f \in Families
                PROVE  Cardinality(CountedToday(f) \cup BoughtOf(f)) <= DailyMax[f]
    BY DEF FamilyDailyCap
  <2>1. BoughtOf(f) \subseteq CountedToday(f)
    BY DEF AutoInv, TypeOK, RowsFit, RowFits, BoughtOf, CountedToday
  <2>2. CountedToday(f) \cup BoughtOf(f) = CountedToday(f)
    BY <2>1
  <2>. QED
    BY <2>2 DEF AutoInv, LocksFit
<1>. QED
  BY <1>1, Invariant, PTL

(* The slot limit is passed by at most one position for each job but one. *)
THEOREM SlotsBounded == Spec => []SlotBound
<1>1. AutoInv => SlotBound
  <2>. SUFFICES ASSUME AutoInv PROVE SlotBound
    OBVIOUS
  <2>1. Taken \in SUBSET Ids /\ Pend \in SUBSET Jobs
    BY TakenIs DEF AutoInv, TypeOK, Active, Owned, Pend
  <2>2. /\ Cardinality(Taken) \in Nat /\ Cardinality(Pend) \in Nat /\ Cardinality(Jobs) \in Nat
        /\ Limit \in Nat
    BY <2>1, Numbers, JobNumbers
  <2>. QED
    BY <2>2 DEF AutoInv, SlotsFit, SlotBound
<1>. QED
  BY <1>1, Invariant, PTL

(* Under the kill switch, only what had been cleared before is bought. *)
THEOREM SwitchHolds == Spec => SwitchStops
<1>1. AutoInv /\ [Next]_vars =>
          [\A i \in bought' \ bought : switch => \E j \in spared : call[j].id = i]_vars
  <2>. SUFFICES ASSUME AutoInv, Next, switch, NEW i \in bought' \ bought
                PROVE  \E j \in spared : call[j].id = i
    OBVIOUS
  <2>1. PICK j \in Jobs : OrderAnswered(j) \/ OrderUnanswered(j)
    <3>1. CASE \E j \in Jobs : OrderAnswered(j) \/ OrderUnanswered(j)
      BY <3>1
    <3>2. CASE ~ \E j \in Jobs : OrderAnswered(j) \/ OrderUnanswered(j)
      BY <3>2, Cases
         DEF Begins, ReentryBegins, MovesOn, CreateLooks, AccountAnswers, StartLooks, MarginIsSet,
             CreateCounts, CreateCommits, StartCommits, Refused, CleansUp, ReentryDone, Crash, Closes,
             Around, SwitchTriggers, SwitchClears, Halts, Bans
    <3>. QED
      BY <3>1, <3>2
  <2>2. i = call[j].id /\ call[j].step = "margin"
    BY <2>1 DEF OrderAnswered, OrderUnanswered, Accepted, At
  <2>3. j \in spared
    BY <2>2 DEF AutoInv, SwitchFits, Cleared
  <2>. QED
    BY <2>2, <2>3
<1>. QED
  BY <1>1, Invariant, PTL DEF Spec, SwitchStops

(* The row of an order the exchange holds is never removed. *)
THEOREM EntriesStay == Spec => []EntriesAreKnown
<1>1. AutoInv => EntriesAreKnown
  BY DEF AutoInv, TypeOK, RowsFit, RowFits, EntriesAreKnown, Exists
<1>. QED
  BY <1>1, Invariant, PTL

(* A closed strategy has at most one re-entry that waits or is active. *)
THEOREM OneReentry == Spec => []ReentryOnce
<1>1. AutoInv => ReentryOnce
  <2>. SUFFICES ASSUME AutoInv, NEW p \in Ids PROVE Cardinality(Children(p)) <= 1
    BY DEF ReentryOnce
  <2>1. CASE Children(p) = {}
    BY <2>1, FS_EmptySet
  <2>2. ASSUME NEW i \in Children(p) PROVE Cardinality(Children(p)) <= 1
    <3>1. Children(p) = {} \cup {i}
      BY <2>2 DEF AutoInv, ParentsFit
    <3>2. Cardinality({} \cup {i}) <= Cardinality({}) + 1 /\ Cardinality({}) = 0
      BY <2>2, Numbers, FS_EmptySet DEF Children
    <3>. QED
      BY <3>1, <3>2
  <2>. QED
    BY <2>1, <2>2
<1>. QED
  BY <1>1, Invariant, PTL

-----------------------------------------------------------------------------
(***************************************************************************)
(* The jobs implement EntryLicence.                                        *)
(***************************************************************************)
(* Jobs of those let through: none joins them, none changes its entry.     *)
Kept == /\ bought' = bought /\ switch' = switch
        /\ \A k \in Jobs : k \in (spared \cap Cleared)' =>
              k \in spared \cap Cleared /\ call'[k].id = call[k].id

LEMMA KeptIf ==
    ASSUME bought' = bought, switch' = switch, spared' \subseteq spared, ~ switch => spared = {},
           \A k \in Jobs : call'[k].step \in {"cleared", "margin"} =>
               /\ switch => call[k].step \in {"cleared", "margin"}
               /\ call'[k].id = call[k].id
    PROVE  Kept
  BY DEF Kept, Cleared

LEMMA KeptBy ==
    ASSUME TypeOK, SwitchFits, [Next]_vars
    PROVE  \/ Kept \/ SwitchTriggers \/ SwitchClears
           \/ \E j \in Jobs : OrderAnswered(j) \/ OrderUnanswered(j)
<1>0. ~ switch => spared = {}
  BY DEF SwitchFits
<1>1. CASE \E j \in Signals, m \in Markets : Begins(j, m, FamilyOf[j], NoId)
  BY <1>0, <1>1, Typed, KeptIf DEF Begins
<1>2. CASE \E p \in Ids : ReentryBegins(p)
  BY <1>0, <1>2, Typed, KeptIf DEF ReentryBegins, Begins
<1>3. ASSUME NEW j \in Jobs, CreateLooks(j) \/ AccountAnswers(j) \/ CreateCounts(j) PROVE Kept
  <2>1. PICK s \in {"looked", "answered", "counted"} : call' = [call EXCEPT ![j].step = s]
    BY <1>3 DEF CreateLooks, AccountAnswers, CreateCounts, Move
  <2>2. switch' = switch /\ spared' = spared /\ bought' = bought
    BY <1>3 DEF CreateLooks, AccountAnswers, CreateCounts
  <2>. QED
    BY <1>0, <2>1, <2>2, Typed, KeptIf DEF Calls
<1>4. ASSUME NEW j \in Jobs, StartLooks(j) PROVE Kept
  BY <1>0, <1>4, Typed, KeptIf DEF StartLooks, Stopped, Move, Calls
<1>5. ASSUME NEW j \in Jobs, MarginIsSet(j) PROVE Kept
  BY <1>0, <1>5, Typed, KeptIf DEF MarginIsSet, Move, At, Calls
<1>6. ASSUME NEW j \in Jobs, NEW i \in Ids, CreateCommits(j, i) PROVE Kept
  BY <1>0, <1>6, Typed, KeptIf DEF CreateCommits, Calls
<1>7. ASSUME NEW j \in Jobs, StartCommits(j) PROVE Kept
  <2>1. call'[j].step \in {"idle", "started"}
    BY <1>7, Typed DEF StartCommits, Idle, Calls
  <2>2. \A k \in Jobs : k # j => call'[k] = call[k]
    BY <1>7, Typed DEF StartCommits
  <2>. QED
    BY <1>0, <1>7, <2>1, <2>2, KeptIf DEF StartCommits
<1>8. ASSUME NEW j \in Jobs, Refused(j) PROVE Kept
  <2>1. PICK why : Fails(j, why)
    BY <1>8 DEF Refused
  <2>2. call'[j].step \in {"idle", "cleanup"}
    BY <2>1, Typed DEF Fails, Idle, Calls
  <2>3. \A k \in Jobs : k # j => call'[k] = call[k]
    BY <2>1, Typed DEF Fails
  <2>4. spared' = spared \ {j} /\ bought' = bought /\ switch' = switch
    BY <1>8, <2>1 DEF Fails, Refused
  <2>. QED
    BY <1>0, <2>2, <2>3, <2>4, KeptIf
<1>9. ASSUME NEW j \in Signals, CleansUp(j) PROVE Kept
  BY <1>0, <1>9, Typed, KeptIf DEF CleansUp, Idle
<1>10. CASE ReentryDone
  BY <1>0, <1>10, Typed, KeptIf DEF ReentryDone, Idle
<1>11. CASE Crash
  BY <1>0, <1>11, KeptIf DEF Crash, Idle
<1>12. CASE \E i \in Ids, s \in {"REENTRY_READY", "STOPPED"} : Closes(i, s)
  BY <1>0, <1>12, KeptIf DEF Closes
<1>13. CASE Halts \/ Bans \/ UNCHANGED vars
  BY <1>0, <1>13, KeptIf DEF Halts, Bans, vars
<1>. QED
  BY <1>1, <1>2, <1>3, <1>4, <1>5, <1>6, <1>7, <1>8, <1>9, <1>10, <1>11, <1>12, <1>13, Cases
     DEF MovesOn, Around

(* What was bought stays in its family. *)
LEMMA FamilyStays ==
    ASSUME AutoInv, [Next]_vars, NEW i \in bought
    PROVE  i \in Ids /\ rows'[i].family = rows[i].family
<1>1. i \in Ids /\ rows[i].status # "NONE"
  BY DEF AutoInv, TypeOK, RowsFit, RowFits, Exists
<1>2. CASE \E j \in Jobs, k \in Ids : CreateCommits(j, k)
  BY <1>1, <1>2, Typed DEF CreateCommits, AutoInv
<1>3. CASE ~ \E j \in Jobs, k \in Ids : CreateCommits(j, k)
  BY <1>1, <1>3, RowsSettle DEF AutoInv, Known, Settles
<1>. QED
  BY <1>1, <1>2, <1>3

(* At most one entry of a job is let through. *)
LEMMA ThroughBound ==
    ASSUME NEW S \in SUBSET Jobs, NEW c
    PROVE  Cardinality({c[j].id : j \in S}) <= Cardinality(Jobs)
<1>. DEFINE T == {c[j].id : j \in S}
            f == [j \in S |-> c[j].id]
<1>1. f \in Surjection(S, T)
  BY DEF Surjection
<1>2. IsFiniteSet(S) /\ Cardinality(S) \in Nat /\ Cardinality(S) <= Cardinality(Jobs) /\ Cardinality(Jobs) \in Nat
  BY JobNumbers
<1>3. IsFiniteSet(T) /\ Cardinality(T) <= Cardinality(S)
  BY <1>1, <1>2, FS_Surjection
<1>4. Cardinality(T) \in Nat
  BY <1>3, FS_CardinalityType
<1>. QED
  BY <1>2, <1>3, <1>4

(* Sets are counted alike in both modules. *)
LEMMA SameCount == \A S : Licence!Cardinality(S) = Cardinality(S)
  BY DEF Licence!Cardinality, Cardinality

EntryMap == [f \in Families |-> BoughtOf(f)]

LEMMA LicenceKept ==
    ASSUME AutoInv, [Next]_vars, Kept
    PROVE  Licence!GiveUp
<1>1. \A f \in Families : BoughtOf(f)' = BoughtOf(f)
  BY FamilyStays DEF BoughtOf, Kept
<1>2. LetThrough' \in SUBSET LetThrough
  <2>. SUFFICES ASSUME NEW k \in (spared \cap Cleared)' PROVE call'[k].id \in LetThrough
    BY DEF LetThrough
  <2>1. k \in Jobs
    BY DEF Cleared
  <2>. QED
    BY <2>1 DEF Kept, LetThrough
<1>3. switch' = switch
  BY DEF Kept
<1>. QED
  BY <1>1, <1>2, <1>3 DEF Licence!GiveUp

LEMMA LicenceStop ==
    ASSUME AutoInv, SwitchTriggers
    PROVE  Licence!Stop
<1>1. Cleared' = Cleared /\ spared' = Cleared /\ call' = call
  BY DEF SwitchTriggers, Cleared
<1>2. LetThrough' = {call[j].id : j \in Cleared}
  BY <1>1 DEF LetThrough
<1>3. Cleared \in SUBSET Jobs
  BY DEF Cleared
<1>4. \A j \in Cleared : call[j].id \in Ids /\ call[j].id \notin bought
  BY DEF AutoInv, CallsFit, CallFits, Cleared, WithRow, Unbought
<1>5. LetThrough' \in SUBSET Ids /\ \A f \in Families : LetThrough' \cap BoughtOf(f) = {}
  BY <1>2, <1>4 DEF BoughtOf
<1>6. Cardinality(LetThrough') <= Cardinality(Jobs)
  BY <1>2, <1>3, ThroughBound
<1>7. \A f \in Families : BoughtOf(f)' = BoughtOf(f)
  BY DEF SwitchTriggers, BoughtOf
<1>8. ~ switch /\ switch' = TRUE
  BY DEF SwitchTriggers
<1>9. EntryMap' = EntryMap /\ \A f \in Families : EntryMap[f] = BoughtOf(f)
  BY <1>7 DEF EntryMap
<1>. QED
  BY <1>5, <1>6, <1>8, <1>9, SameCount DEF Licence!Stop, EntryMap

LEMMA LicenceResume ==
    ASSUME SwitchClears
    PROVE  Licence!Resume
<1>1. \A f \in Families : BoughtOf(f)' = BoughtOf(f)
  BY DEF SwitchClears, BoughtOf
<1>2. LetThrough' = {}
  BY DEF SwitchClears, LetThrough
<1>. QED
  BY <1>1, <1>2 DEF Licence!Resume, SwitchClears

(* An order the exchange accepts is an entry within the licence. *)
LEMMA LicenceEnter ==
    ASSUME AutoInv, AutoInv', FamilyDailyCap', [Next]_vars,
           NEW j \in Jobs, OrderAnswered(j) \/ OrderUnanswered(j)
    PROVE  \E e \in Ids, f \in Families : Licence!Enter(e, f)
<1>. PICK e \in Ids \cup {NoId} : e = call[j].id
  BY Typed DEF AutoInv, Calls
<1>1. /\ call[j].step = "margin" /\ bought' = bought \cup {e} /\ switch' = switch
      /\ \A k \in Jobs : k # j => call'[k] = call[k]
  BY Typed DEF AutoInv, OrderAnswered, OrderUnanswered, Accepted, At, Move, Fails
<1>2. e \in Ids /\ e \notin bought /\ e # NoId
  BY <1>1 DEF AutoInv, CallsFit, CallFits, WithRow, Unbought
<1>3. PICK g \in Families : g = rows[e].family
  BY <1>2, Typed DEF AutoInv, Rows
<1>4. spared' \in {spared, spared \ {j}} /\ call'[j].step \notin {"cleared", "margin"}
  BY <1>1, Typed DEF AutoInv, OrderAnswered, OrderUnanswered, Move, Fails, Idle, Calls
<1>5. rows'[e].family = g
  <2>1. CASE OrderAnswered(j)
    BY <1>3, <2>1 DEF OrderAnswered
  <2>2. CASE OrderUnanswered(j)
    <3>1. ~ \E k \in Jobs, i \in Ids : CreateCommits(k, i)
      BY <1>1, <1>2 DEF CreateCommits
    <3>. QED
      BY <1>2, <1>3, <3>1, RowsSettle DEF AutoInv, Known, Settles
  <2>. QED
    BY <2>1, <2>2
<1>6. \A f \in Families : BoughtOf(f)' = IF f = g THEN BoughtOf(f) \cup {e} ELSE BoughtOf(f)
  BY <1>1, <1>5, FamilyStays DEF BoughtOf
<1>7. Cardinality(BoughtOf(g)) < DailyMax[g]
  <2>. DEFINE B == BoughtOf(g)
              C == CountedToday(g)' \cup BoughtOf(g)'
  <2>1. B \in SUBSET Ids /\ C \in SUBSET Ids /\ B \cup {e} \in SUBSET C /\ e \notin B
    <3>1. B \in SUBSET Ids /\ e \notin B
      BY <1>2 DEF BoughtOf, AutoInv, TypeOK
    <3>2. BoughtOf(g)' = B \cup {e}
      BY <1>6
    <3>3. CountedToday(g)' \in SUBSET Ids
      BY DEF CountedToday
    <3>. QED
      BY <1>2, <3>1, <3>2, <3>3
  <2>2. Cardinality(C) <= DailyMax[g]
    BY <1>3 DEF FamilyDailyCap
  <2>3. IsFiniteSet(B) /\ Cardinality(B) \in Nat /\ Cardinality(C) \in Nat /\ DailyMax[g] \in Nat
    BY <1>3, <2>1, Numbers
  <2>4. B \cup {e} \in SUBSET Ids /\ Cardinality(B \cup {e}) <= Cardinality(C)
    BY <1>2, <2>1, Numbers
  <2>5. Cardinality(B \cup {e}) = Cardinality(B) + 1
    BY <2>1, <2>3, FS_AddElement
  <2>. QED
    BY <2>2, <2>3, <2>4, <2>5
<1>8. switch => e \in LetThrough
  BY <1>1 DEF AutoInv, SwitchFits, Cleared, LetThrough
<1>9. LetThrough' = LetThrough \ {e}
  <2>1. \A k \in Jobs : k \in (spared \cap Cleared)' <=> k \in spared \cap Cleared /\ k # j
    BY <1>1, <1>4 DEF Cleared
  <2>2. \A k \in Jobs : k # j => call'[k].id = call[k].id /\ call[k].id # e
    BY <1>1, <1>2 DEF AutoInv, IdsDiffer
  <2>3. spared \cap Cleared \in SUBSET Jobs /\ (spared \cap Cleared)' \in SUBSET Jobs
    BY DEF Cleared
  <2>. QED
    BY <2>1, <2>2, <2>3 DEF LetThrough
<1>10. \A f \in Families : e \notin BoughtOf(f)
  BY <1>2 DEF BoughtOf
<1>11. EntryMap' = [EntryMap EXCEPT ![g] = @ \cup {e}]
  BY <1>3, <1>6 DEF EntryMap
<1>12. \A f \in Families : EntryMap[f] = BoughtOf(f)
  BY DEF EntryMap
<1>13. Licence!Enter(e, g)
  BY <1>1, <1>3, <1>7, <1>8, <1>9, <1>10, <1>11, <1>12, SameCount DEF Licence!Enter, EntryMap
<1>. QED
  BY <1>2, <1>3, <1>13

(* The jobs enter as EntryLicence allows, for any jobs, families, limits   *)
(* and troubles: each step of the detailed module is one of the licence's  *)
(* or leaves it alone.                                                     *)
THEOREM ImplementsEntryLicence == Spec => EntersByLicence
<1>1. Init => Licence!Init
  <2>. SUFFICES ASSUME Init PROVE Licence!Init
    OBVIOUS
  <2>1. \A f \in Families : BoughtOf(f) = {}
    BY DEF Init, BoughtOf
  <2>2. LetThrough = {} /\ ~ switch /\ switch \in BOOLEAN
    BY DEF Init, LetThrough
  <2>. QED
    BY <2>1, <2>2 DEF Licence!Init
<1>2. AutoInv /\ AutoInv' /\ FamilyDailyCap' /\ [Next]_vars => Licence!Next
  <2>. SUFFICES ASSUME AutoInv, AutoInv', FamilyDailyCap', [Next]_vars PROVE Licence!Next
    OBVIOUS
  <2>1. CASE Kept
    BY <2>1, LicenceKept DEF Licence!Next
  <2>2. CASE SwitchTriggers
    BY <2>2, LicenceStop DEF Licence!Next
  <2>3. CASE SwitchClears
    BY <2>3, LicenceResume DEF Licence!Next
  <2>4. CASE \E j \in Jobs : OrderAnswered(j) \/ OrderUnanswered(j)
    BY <2>4, LicenceEnter DEF Licence!Next
  <2>. QED
    BY <2>1, <2>2, <2>3, <2>4, KeptBy DEF AutoInv
<1>. QED
  BY <1>1, <1>2, Invariant, DailyLimit, PTL DEF Spec, EntersByLicence, Licence!Spec

-----------------------------------------------------------------------------
(* What EntryLicence promises is enough: of whatever implements it, no     *)
(* family has bought more than its daily limit.                            *)
WithinLimit == \A f \in Families : /\ BoughtOf(f) \in SUBSET Ids
                                   /\ Cardinality(BoughtOf(f)) <= DailyMax[f]

THEOREM LicenceSuffices == EntersByLicence => []WithinLimit
<1>1. Licence!Init => WithinLimit
  <2>. SUFFICES ASSUME EntryMap = [f \in Families |-> {}], NEW f \in Families
                PROVE  BoughtOf(f) \in SUBSET Ids /\ Cardinality(BoughtOf(f)) <= DailyMax[f]
    BY DEF Licence!Init, EntryMap, WithinLimit
  <2>1. BoughtOf(f) = {}
    BY DEF EntryMap
  <2>2. Cardinality({}) = 0 /\ DailyMax[f] \in Nat
    BY FS_EmptySet
  <2>. QED
    BY <2>1, <2>2
<1>2. WithinLimit /\ [Licence!Next]_<<EntryMap, switch, LetThrough>> => WithinLimit'
  <2>. SUFFICES ASSUME WithinLimit, [Licence!Next]_<<EntryMap, switch, LetThrough>>
                PROVE  WithinLimit'
    OBVIOUS
  <2>1. CASE EntryMap' = EntryMap
    <3>. SUFFICES ASSUME NEW f \in Families PROVE BoughtOf(f)' = BoughtOf(f)
      BY DEF WithinLimit
    <3>1. EntryMap'[f] = BoughtOf(f)' /\ EntryMap[f] = BoughtOf(f)
      BY DEF EntryMap
    <3>. QED
      BY <2>1, <3>1
  <2>2. ASSUME NEW e \in Ids, NEW g \in Families, Licence!Enter(e, g) PROVE WithinLimit'
    <3>1. /\ Cardinality(EntryMap[g]) < DailyMax[g]
          /\ EntryMap' = [EntryMap EXCEPT ![g] = @ \cup {e}]
      BY <2>2, SameCount DEF Licence!Enter, EntryMap
    <3>2. \A f \in Families : EntryMap'[f] = BoughtOf(f)' /\ EntryMap[f] = BoughtOf(f)
      BY DEF EntryMap
    <3>3. \A f \in Families : EntryMap'[f] = IF f = g THEN EntryMap[f] \cup {e} ELSE EntryMap[f]
      BY <3>1 DEF EntryMap
    <3>4. ASSUME NEW f \in Families
          PROVE  BoughtOf(f)' \in SUBSET Ids /\ Cardinality(BoughtOf(f)') <= DailyMax[f]
      <4>1. BoughtOf(f) \in SUBSET Ids /\ Cardinality(BoughtOf(f)) <= DailyMax[f]
        BY DEF WithinLimit
      <4>2. CASE f # g
        BY <3>2, <3>3, <4>1, <4>2
      <4>3. CASE f = g
        <5>1. BoughtOf(f)' = BoughtOf(f) \cup {e} /\ Cardinality(BoughtOf(f)) < DailyMax[f]
          BY <3>1, <3>2, <3>3, <4>3
        <5>2. /\ Cardinality(BoughtOf(f) \cup {e}) <= Cardinality(BoughtOf(f)) + 1
              /\ Cardinality(BoughtOf(f)) \in Nat
          BY <4>1, Numbers
        <5>3. BoughtOf(f) \cup {e} \in SUBSET Ids /\ Cardinality(BoughtOf(f) \cup {e}) \in Nat
          BY <4>1, Numbers
        <5>4. DailyMax[f] \in Nat
          OBVIOUS
        <5>. QED
          BY <5>1, <5>2, <5>3, <5>4
      <4>. QED
        BY <4>2, <4>3
    <3>. QED
      BY <3>4 DEF WithinLimit
  <2>. QED
    BY <2>1, <2>2 DEF Licence!Next, Licence!Stop, Licence!GiveUp, Licence!Resume, EntryMap
<1>. QED
  BY <1>1, <1>2, PTL DEF EntersByLicence, Licence!Spec, EntryMap
=============================================================================
