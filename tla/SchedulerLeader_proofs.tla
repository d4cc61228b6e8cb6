------------------------ MODULE SchedulerLeader_proofs ------------------------
(***************************************************************************)
(* What SchedulerLeader promises, for any processes, jobs, times and       *)
(* bounds.  LeaderInv is inductive: a job at work holds its lock because   *)
(* nobody but time gives a lock back; and a process that has met no other  *)
(* waits for a key that nobody extends.  From it the locks are shown to    *)
(* implement JobTurns.                                                     *)
(***************************************************************************)
EXTENDS SchedulerLeader, TLAPS

USE NodesAssumption, TimesAssumption

States == {"off", "waiting", "up", "asked", "released", "gone"}

(* The leader key and its time to live belong together, and the script     *)
(* that extends or takes the key keeps them so.                            *)
KeyOK == /\ leader \in Nodes \cup {Nobody} /\ left \in 0 .. Ttl
         /\ leader = Nobody <=> left = 0

LEMMA TakeKeepsKey ==
    ASSUME NEW n \in Nodes, Take(n)
    PROVE  KeyOK'
BY DEF Take, KeyOK

(* A failed call is counted within its bound. *)
LEMMA FaultCounts ==
    ASSUME TypeOK, Fault
    PROVE  /\ bounds' \in [wipes : 0 .. MaxWipes, faults : 0 .. MaxFaults]
           /\ bounds'.wipes = bounds.wipes
BY DEF TypeOK, Fault

LEMMA LeavesForgets ==
    ASSUME TypeOK, NEW n \in Nodes, Leaves(n)
    PROVE  /\ waited' \in [Nodes -> 0 .. Wait]
           /\ company' \subseteq Nodes
BY DEF TypeOK, Leaves

-----------------------------------------------------------------------------
LEMMA InitTyped == Init => TypeOK
BY DEF Init, TypeOK

(* Every step keeps the types. *)
LEMMA StepTyped == TypeOK /\ [Next]_vars => TypeOK'
<1> SUFFICES ASSUME TypeOK, [Next]_vars PROVE TypeOK' OBVIOUS
<1>1. ASSUME NEW n \in Nodes, Start(n) PROVE TypeOK'
  BY <1>1 DEF TypeOK, Start, keys
<1>2. ASSUME NEW n \in Nodes, BecomeLeader(n) PROVE TypeOK'
  BY <1>2, TakeKeepsKey, LeavesForgets DEF TypeOK, BecomeLeader, KeyOK
<1>3. ASSUME NEW n \in Nodes, GiveUp(n) PROVE TypeOK'
  BY <1>3, FaultCounts, LeavesForgets DEF TypeOK, GiveUp, keys
<1>4. ASSUME NEW n \in Nodes, Heartbeat(n) PROVE TypeOK'
  BY <1>4, TakeKeepsKey, FaultCounts DEF TypeOK, Heartbeat, Refreshed, KeyOK
<1>5. ASSUME NEW n \in Nodes, NEW j \in Jobs, Check(n, j) PROVE TypeOK'
  BY <1>5, TakeKeepsKey DEF TypeOK, Check, Refreshed, KeyOK
<1>6. ASSUME NEW n \in Nodes, NEW j \in Jobs, Lock(n, j) PROVE TypeOK'
  BY <1>6 DEF TypeOK, Lock
<1>7. ASSUME NEW n \in Nodes, NEW j \in Jobs, Skip(n, j) PROVE TypeOK'
  BY <1>7, FaultCounts DEF TypeOK, Skip, keys
<1>8. ASSUME NEW n \in Nodes, NEW j \in Jobs, Finish(n, j) PROVE TypeOK'
  BY <1>8 DEF TypeOK, Finish, keys
<1>9. ASSUME NEW n \in Nodes, Sigterm(n) PROVE TypeOK'
  BY <1>9 DEF TypeOK, Sigterm, keys
<1>10. ASSUME NEW n \in Nodes, Release(n) PROVE TypeOK'
  BY <1>10, FaultCounts DEF TypeOK, Release, JobLocksAfter, keys
<1>11. ASSUME NEW n \in Nodes, Die(n) PROVE TypeOK'
  BY <1>11, LeavesForgets DEF TypeOK, Die, keys
<1>12. CASE Wipe
  BY <1>12 DEF TypeOK, Wipe
<1>13. CASE Tick
  <2>1. /\ leader' \in Nodes \cup {Nobody} /\ left' \in 0 .. Ttl
        /\ leader' = Nobody <=> left' = 0
    BY <1>13 DEF TypeOK, Tick, Less
  <2>2. /\ holder' \in [Jobs -> Nodes \cup {Nobody}]
        /\ jobLeft' \in [Jobs -> 0 .. JobTtl]
        /\ \A j \in Jobs : holder'[j] = Nobody <=> jobLeft'[j] = 0
    BY <1>13 DEF TypeOK, Tick, Less
  <2>3. waited' \in [Nodes -> 0 .. Wait]
    BY <1>13 DEF TypeOK, Tick, Patience
  <2> QED BY <1>13, <2>1, <2>2, <2>3 DEF TypeOK, Tick
<1>14. CASE UNCHANGED vars
  BY <1>14 DEF TypeOK, vars, keys
<1> QED
  BY <1>1, <1>2, <1>3, <1>4, <1>5, <1>6, <1>7, <1>8, <1>9, <1>10, <1>11, <1>12,
     <1>13, <1>14 DEF Next

(* Every reachable state is well typed, and no key is taken without a time *)
(* to live.                                                                *)
THEOREM TypeCorrect == Spec => []TypeOK
<1>1. QED BY InitTyped, StepTyped, PTL DEF Spec
-----------------------------------------------------------------------------
(* A job at work holds its lock: whoever starts it finds the lock free and *)
(* takes it, the locks outlive the process, and time spares them while     *)
(* their jobs work.                                                        *)
LEMMA StepHoldsLock == TypeOK /\ WorkHoldsLock /\ [Next]_vars => WorkHoldsLock'
<1> SUFFICES ASSUME TypeOK, WorkHoldsLock, [Next]_vars,
                    bounds'.wipes = 0,
                    NEW w \in Nodes, NEW k \in running'[w] \ Slow
             PROVE  holder'[k] = w
  BY DEF WorkHoldsLock
<1> USE DEF TypeOK, WorkHoldsLock
<1>1. ASSUME NEW n \in Nodes,
             Start(n) \/ BecomeLeader(n) \/ Sigterm(n)
      PROVE  holder'[k] = w
  BY <1>1 DEF Start, BecomeLeader, Sigterm, keys
<1>2. ASSUME NEW n \in Nodes, GiveUp(n) \/ Heartbeat(n) \/ Release(n)
      PROVE  holder'[k] = w
  BY <1>2, FaultCounts DEF GiveUp, Heartbeat, Release, JobLocksAfter, keys
<1>3. ASSUME NEW n \in Nodes, NEW j \in Jobs, Check(n, j)
      PROVE  holder'[k] = w
  BY <1>3 DEF Check
<1>4. ASSUME NEW n \in Nodes, NEW j \in Jobs, Lock(n, j)
      PROVE  holder'[k] = w
  BY <1>4 DEF Lock
<1>5. ASSUME NEW n \in Nodes, NEW j \in Jobs, Skip(n, j)
      PROVE  holder'[k] = w
  BY <1>5, FaultCounts DEF Skip, keys
<1>6. ASSUME NEW n \in Nodes, NEW j \in Jobs, Finish(n, j)
      PROVE  holder'[k] = w
  BY <1>6 DEF Finish, keys
<1>7. ASSUME NEW n \in Nodes, Die(n)
      PROVE  holder'[k] = w
  BY <1>7 DEF Die, keys
<1>8. CASE Wipe
  BY <1>8 DEF Wipe
<1>9. CASE Tick
  BY <1>9 DEF Tick
<1>10. CASE UNCHANGED vars
  BY <1>10 DEF vars, keys
<1> QED
  BY <1>1, <1>2, <1>3, <1>4, <1>5, <1>6, <1>7, <1>8, <1>9, <1>10 DEF Next

(* What a process that has met no other waits for runs out: nobody but     *)
(* itself could extend the key, and every period that passes is one less   *)
(* to live.                                                                *)
LEMMA StepRunsOut == TypeOK /\ LeftoverRunsOut /\ [Next]_vars => LeftoverRunsOut'
<1> SUFFICES ASSUME TypeOK, LeftoverRunsOut, [Next]_vars, NEW w \in Nodes
             PROVE  /\ state'[w] = "waiting" /\ w \notin company'
                          => Alone(w)' /\ left' + waited'[w] <= Ttl
                    /\ state'[w] # "waiting" => waited'[w] = 0
  BY DEF LeftoverRunsOut
<1> DEFINE Goal == /\ state'[w] = "waiting" /\ w \notin company'
                          => Alone(w)' /\ left' + waited'[w] <= Ttl
                   /\ state'[w] # "waiting" => waited'[w] = 0
<1> USE DEF TypeOK, LeftoverRunsOut, Alone, Alive
<1>1. ASSUME NEW n \in Nodes, Start(n) PROVE Goal
  BY <1>1 DEF Start, keys
<1>2. ASSUME NEW n \in Nodes, BecomeLeader(n) PROVE Goal
  BY <1>2 DEF BecomeLeader, Leaves
<1>3. ASSUME NEW n \in Nodes, GiveUp(n) PROVE Goal
  BY <1>3 DEF GiveUp, Leaves, keys
<1>4. ASSUME NEW n \in Nodes, Heartbeat(n) PROVE Goal
  BY <1>4 DEF Heartbeat, Started
<1>5. ASSUME NEW n \in Nodes, NEW j \in Jobs, Check(n, j) PROVE Goal
  BY <1>5 DEF Check, Started
<1>6. ASSUME NEW n \in Nodes, NEW j \in Jobs,
             Lock(n, j) \/ Skip(n, j) \/ Finish(n, j)
      PROVE  Goal
  BY <1>6 DEF Lock, Skip, Finish, keys
<1>7. ASSUME NEW n \in Nodes, Sigterm(n) \/ Release(n) PROVE Goal
  BY <1>7 DEF Sigterm, Release, keys
<1>8. ASSUME NEW n \in Nodes, Die(n) PROVE Goal
  BY <1>8 DEF Die, Leaves, keys
<1>9. CASE Wipe
  BY <1>9 DEF Wipe
<1>10. CASE Tick
  BY <1>10 DEF Tick, Less
<1>11. CASE UNCHANGED vars
  BY <1>11 DEF vars, keys
<1> QED
  BY <1>1, <1>2, <1>3, <1>4, <1>5, <1>6, <1>7, <1>8, <1>9, <1>10, <1>11 DEF Next

LEMMA InitInv == Init => LeaderInv
<1>1. Init => WorkHoldsLock BY DEF Init, WorkHoldsLock
<1>2. Init => LeftoverRunsOut BY DEF Init, LeftoverRunsOut
<1> QED BY <1>1, <1>2, InitTyped DEF LeaderInv

LEMMA StepInv == LeaderInv /\ [Next]_vars => LeaderInv'
BY StepTyped, StepHoldsLock, StepRunsOut DEF LeaderInv

(* A job at work holds its lock, and what a lone process waits for runs    *)
(* out within one time to live.                                            *)
THEOREM LeaderIsSafe == Spec => []LeaderInv
<1>1. QED BY InitInv, StepInv, PTL DEF Spec

(* No job that ends before its lock is at work in two processes, however   *)
(* often the leadership changes hands, as long as Redis keeps its keys.    *)
THEOREM JobsRunOnce == Spec => []NoJobTwice
<1>1. LeaderInv => NoJobTwice
  BY DEF LeaderInv, WorkHoldsLock, NoJobTwice, TypeOK
<1>2. QED BY <1>1, LeaderIsSafe, PTL

(* A process that gives up has met another one while it waited: the one    *)
(* that is started after all the others have died leads.                   *)
THEOREM AWaiterOutlivesTheKey == Spec => LoneProcessLeads
<1>1. LeaderInv /\ [Next]_vars => [\A n \in Nodes : GiveUp(n) => n \in company]_vars
  <2> SUFFICES ASSUME LeaderInv, NEW n \in Nodes, GiveUp(n) PROVE n \in company
    OBVIOUS
  <2>1. left \in Nat /\ waited[n] \in Nat /\ waited[n] > Ttl /\ state[n] = "waiting"
    BY DEF LeaderInv, TypeOK, GiveUp, Patience
  <2> QED BY <2>1 DEF LeaderInv, LeftoverRunsOut
<1>2. QED BY <1>1, LeaderIsSafe, PTL DEF Spec, LoneProcessLeads
-----------------------------------------------------------------------------
(* Only the one that takes the key becomes the leader, and one that has    *)
(* been told to release it takes it no more.                               *)
LEMMA WhoTakesTheKey ==
    ASSUME TypeOK, [Next]_vars, NEW w \in Nodes, leader # w, leader' = w
    PROVE  state[w] # "released"
<1>1. leader' \notin {leader, Nobody}
  OBVIOUS
<1>2. ASSUME NEW n \in Nodes, BecomeLeader(n) PROVE state[w] # "released"
  BY <1>2 DEF BecomeLeader, Take
<1>3. ASSUME NEW n \in Nodes, Refreshed(n) PROVE state[w] # "released"
  BY <1>3 DEF Refreshed, Take, MayRetake
<1>4. ASSUME NEW n \in Nodes, Heartbeat(n) PROVE Refreshed(n)
  BY <1>1, <1>4 DEF Heartbeat
<1>5. ASSUME NEW n \in Nodes, Release(n) PROVE FALSE
  BY <1>1, <1>5 DEF Release, keys
<1>6. ASSUME NEW n \in Nodes, Start(n) \/ GiveUp(n) \/ Sigterm(n) \/ Die(n) PROVE FALSE
  BY <1>1, <1>6 DEF Start, GiveUp, Sigterm, Die, keys
<1>7. ASSUME NEW n \in Nodes, NEW j \in Jobs, Lock(n, j) \/ Skip(n, j) \/ Finish(n, j)
      PROVE  FALSE
  BY <1>1, <1>7 DEF Lock, Skip, Finish, keys
<1>8. ASSUME NEW n \in Nodes, NEW j \in Jobs, Check(n, j) PROVE Refreshed(n)
  BY <1>8 DEF Check
<1>9. CASE Wipe \/ Tick \/ UNCHANGED vars
  BY <1>1, <1>9 DEF Wipe, Tick, vars, keys
<1>. QED
  BY <1>2, <1>3, <1>4, <1>5, <1>6, <1>7, <1>8, <1>9 DEF Next

(* A process that has given the leadership up never leads again, also when *)
(* a heartbeat or a job of its own is still under way.                     *)
THEOREM TheStoppedStayOut == Spec => StoppedStaysOut
<1>1. TypeOK /\ [Next]_vars
      => [\A n \in Nodes : state[n] = "released" /\ leader # n => leader' # n]_vars
  BY WhoTakesTheKey
<1>. QED
  BY <1>1, TypeCorrect, PTL DEF Spec, StoppedStaysOut

-----------------------------------------------------------------------------
(***************************************************************************)
(* The locks implement JobTurns.                                           *)
(***************************************************************************)
(* A job that has passed the check is not at work in the same process.     *)
Apart == \A n \in Nodes : checked[n] \cap running[n] = {}

LEMMA StepApart == TypeOK /\ Apart /\ [Next]_vars => Apart'
<1>. SUFFICES ASSUME TypeOK, Apart, [Next]_vars, NEW w \in Nodes
              PROVE  checked'[w] \cap running'[w] = {}
  BY DEF Apart
<1>1. checked[w] \cap running[w] = {} /\ checked \in [Nodes -> SUBSET Jobs]
      /\ running \in [Nodes -> SUBSET Jobs]
  BY DEF Apart, TypeOK
<1>2. ASSUME NEW n \in Nodes, NEW j \in Jobs,
             Check(n, j) \/ Lock(n, j) \/ Skip(n, j) \/ Finish(n, j)
      PROVE  checked'[w] \cap running'[w] = {}
  BY <1>1, <1>2 DEF Check, Lock, Skip, Finish
<1>3. ASSUME NEW n \in Nodes, Die(n)
      PROVE  checked'[w] \cap running'[w] = {}
  BY <1>1, <1>3 DEF Die
<1>4. ASSUME \/ \E n \in Nodes : \/ Start(n) \/ BecomeLeader(n) \/ GiveUp(n)
                                 \/ Heartbeat(n) \/ Sigterm(n) \/ Release(n)
             \/ Wipe \/ Tick \/ UNCHANGED vars
      PROVE  checked'[w] \cap running'[w] = {}
  BY <1>1, <1>4 DEF Start, BecomeLeader, GiveUp, Heartbeat, Sigterm, Release, Wipe, Tick, vars
<1>. QED
  BY <1>2, <1>3, <1>4 DEF Next

LEMMA SameTurns ==
    ASSUME running' = running, holder' = holder
    PROVE  Working' = Working /\ Exposed' = Exposed
BY DEF Working, Exposed

(* A process that leaves jobs leaves their locks. *)
LEMMA LeavesTurns ==
    ASSUME TypeOK, NEW n \in Nodes, NEW S, running' = [running EXCEPT ![n] = S],
           S \subseteq running[n], UNCHANGED <<holder, bounds>>
    PROVE  Turns!End
<1>1. \A m \in Nodes : running'[m] \subseteq running[m]
  BY DEF TypeOK
<1>2. Working' \subseteq Working
  BY <1>1 DEF Working
<1>3. Exposed' = Exposed \cap Working'
  BY <1>2 DEF Exposed
<1>. QED
  BY <1>2, <1>3 DEF Turns!End

LEMMA LockTurns ==
    ASSUME TypeOK, Apart, NEW n \in Nodes, NEW j \in Jobs, Lock(n, j)
    PROVE  [Turns!Next]_<<Working, Exposed, bounds.wipes>>
<1>1. /\ running' = [running EXCEPT ![n] = running[n] \cup {j}] /\ j \notin running[n]
      /\ holder' = [holder EXCEPT ![j] = n] /\ holder[j] = Nobody /\ bounds' = bounds
      /\ running \in [Nodes -> SUBSET Jobs] /\ holder \in [Jobs -> Nodes \cup {Nobody}]
  BY DEF Lock, Apart, TypeOK
<1>2. \A k \in Jobs \ {j} : holder'[k] = holder[k]
  BY <1>1
<1>3. CASE j \in Slow
  <2>1. Working' = Working
    BY <1>1, <1>3 DEF Working
  <2>2. \A p \in Working : holder'[p[2]] = holder[p[2]]
    BY <1>2, <1>3 DEF Working
  <2>3. Exposed' = Exposed
    BY <2>1, <2>2 DEF Exposed
  <2>. QED
    BY <1>1, <2>1, <2>3
<1>4. CASE j \notin Slow
  <2>1. <<n, j>> \notin Working /\ Working' = Working \cup {<<n, j>>}
    <3>1. \A m \in Nodes, k \in Jobs : k \in running'[m] <=> k \in running[m] \/ (m = n /\ k = j)
      BY <1>1
    <3>. QED
      BY <1>1, <1>4, <3>1 DEF Working
  <2>2. \A m \in Nodes : <<m, j>> \in Working => <<m, j>> \in Exposed
    BY <1>1, NodesAssumption DEF Exposed
  <2>3. Exposed' = Exposed
    <3>1. ASSUME NEW p \in Working
          PROVE  holder'[p[2]] # p[1] <=> holder[p[2]] # p[1]
      <4>1. p[1] \in Nodes /\ p[2] \in Jobs /\ p = <<p[1], p[2]>>
        BY DEF Working
      <4>2. CASE p[2] = j
        <5>1. holder'[j] = n /\ p[1] # n
          BY <1>1, <2>1, <4>1, <4>2
        <5>. QED
          BY <1>1, <4>1, <4>2, <5>1, NodesAssumption
      <4>. QED
        BY <1>2, <4>1, <4>2
    <3>2. holder'[<<n, j>>[2]] = <<n, j>>[1]
      BY <1>1
    <3>. QED
      BY <2>1, <3>1, <3>2 DEF Exposed
  <2>4. j \in Jobs \ Slow
    BY <1>4
  <2>. QED
    BY <1>1, <2>1, <2>2, <2>3, <2>4 DEF Turns!Next, Turns!Begin
<1>. QED
  BY <1>3, <1>4

LEMMA WipeTurns ==
    ASSUME TypeOK, Wipe
    PROVE  Turns!Wipe
<1>1. Working' = Working /\ bounds'.wipes = bounds.wipes + 1
  BY DEF Wipe, Working, TypeOK
<1>2. \A p \in Working : holder'[p[2]] = Nobody /\ p[1] \in Nodes
  BY DEF Wipe, Working
<1>3. Exposed' = Working
  BY <1>1, <1>2, NodesAssumption DEF Exposed
<1>. QED
  BY <1>1, <1>3 DEF Turns!Wipe

(* Time takes no lock from a job at work, and gives none. *)
LEMMA TickTurns ==
    ASSUME TypeOK, Tick
    PROVE  Working' = Working /\ Exposed' = Exposed /\ bounds' = bounds
<1>1. Working' = Working /\ bounds' = bounds
  BY DEF Tick, Working
<1>2. ASSUME NEW p \in Working
      PROVE  holder'[p[2]] # p[1] <=> holder[p[2]] # p[1]
  <2>1. p[1] \in Nodes /\ p[2] \in Jobs /\ p[2] \in running[p[1]] \ Slow
    BY DEF Working
  <2>2. holder[p[2]] = p[1] => jobLeft[p[2]] > 1
    BY <2>1 DEF Tick
  <2>3. holder'[p[2]] = IF jobLeft[p[2]] <= 1 THEN Nobody ELSE holder[p[2]]
    BY <2>1 DEF Tick
  <2>4. jobLeft[p[2]] \in Nat
    BY <2>1 DEF TypeOK
  <2>. QED
    BY <2>1, <2>2, <2>3, <2>4, NodesAssumption
<1>. QED
  BY <1>1, <1>2 DEF Exposed

LEMMA StepTurns ==
    ASSUME TypeOK, Apart, [Next]_vars
    PROVE  [Turns!Next]_<<Working, Exposed, bounds.wipes>>
<1>1. ASSUME NEW n \in Nodes, NEW j \in Jobs, Finish(n, j)
      PROVE  Turns!End
  BY <1>1, LeavesTurns DEF Finish, keys
<1>2. ASSUME NEW n \in Nodes, Die(n)
      PROVE  Turns!End
  <2>. DEFINE S == {}
  <2>1. running' = [running EXCEPT ![n] = S] /\ UNCHANGED <<holder, bounds>>
    BY <1>2 DEF Die, keys
  <2>2. S \subseteq running[n]
    OBVIOUS
  <2>. HIDE DEF S
  <2>. QED
    BY <2>1, <2>2, LeavesTurns
<1>3. ASSUME NEW n \in Nodes,
             \/ Start(n) \/ BecomeLeader(n) \/ GiveUp(n) \/ Heartbeat(n) \/ Sigterm(n) \/ Release(n)
             \/ \E j \in Jobs : Check(n, j) \/ Skip(n, j)
      PROVE  Working' = Working /\ Exposed' = Exposed /\ bounds'.wipes = bounds.wipes
  <2>1. running' = running /\ holder' = holder
    BY <1>3 DEF Start, BecomeLeader, GiveUp, Heartbeat, Sigterm, Release, JobLocksAfter, Check,
                Skip, keys
  <2>2. bounds' = bounds \/ Fault
    BY <1>3 DEF Start, BecomeLeader, GiveUp, Heartbeat, Sigterm, Release, Check, Skip
  <2>. QED
    BY <2>1, <2>2, SameTurns, FaultCounts
<1>4. CASE UNCHANGED vars
  BY <1>4, SameTurns DEF vars, keys
<1>. QED
  BY <1>1, <1>2, <1>3, <1>4, LockTurns, WipeTurns, TickTurns DEF Next, Turns!Next

(* Whoever leads, whichever process dies or is replaced and whatever Redis *)
(* loses: only the jobs at work at such a loss may be repeated beside      *)
(* themselves (Fix 420, acquire_job_lock).                                 *)
THEOREM ImplementsJobTurns == Spec => TakesTurns
<1>1. Init => Apart /\ Turns!Init
  <2>. SUFFICES ASSUME Init PROVE Apart /\ Turns!Init
    OBVIOUS
  <2>1. Working = {} /\ Apart /\ bounds.wipes = 0
    BY DEF Init, Working, Apart
  <2>. QED
    BY <2>1 DEF Exposed, Turns!Init
<1>2. TypeOK /\ Apart /\ [Next]_vars => TypeOK' /\ Apart'
  BY StepTyped, StepApart
<1>3. TypeOK /\ Apart /\ [Next]_vars => [Turns!Next]_<<Working, Exposed, bounds.wipes>>
  BY StepTurns
<1>. QED
  BY <1>1, <1>2, <1>3, InitTyped, PTL DEF Spec, TakesTurns, Turns!Spec

-----------------------------------------------------------------------------
(* What JobTurns promises is enough: of whatever implements it, no job is  *)
(* at work in two processes as long as Redis keeps its keys.               *)
OneAtWork == bounds.wipes = 0 =>
             \A n, m \in Nodes, j \in Jobs \ Slow : <<n, j>> \in Working /\ <<m, j>> \in Working => n = m

THEOREM TurnsSuffice == TakesTurns => []OneAtWork
<1>. DEFINE Inv == /\ bounds.wipes \in Nat
                   /\ bounds.wipes = 0 => Exposed = {}
                   /\ Exposed \subseteq Working
                   /\ OneAtWork
<1>1. Turns!Init => Inv
  BY DEF Turns!Init, OneAtWork
<1>2. Inv /\ [Turns!Next]_<<Working, Exposed, bounds.wipes>> => Inv'
  <2>. SUFFICES ASSUME Inv, [Turns!Next]_<<Working, Exposed, bounds.wipes>> PROVE Inv'
    OBVIOUS
  <2>1. ASSUME NEW n \in Nodes, NEW j \in Jobs \ Slow, Turns!Begin(n, j) PROVE Inv'
    <3>1. /\ \A m \in Nodes : <<m, j>> \in Working => <<m, j>> \in Exposed
          /\ Working' = Working \cup {<<n, j>>}
          /\ Exposed' = Exposed /\ bounds'.wipes = bounds.wipes
      BY <2>1 DEF Turns!Begin
    <3>2. OneAtWork'
      <4>. SUFFICES ASSUME bounds.wipes = 0, NEW k \in Nodes, NEW m \in Nodes, NEW i \in Jobs \ Slow,
                           <<k, i>> \in Working \cup {<<n, j>>}, <<m, i>> \in Working \cup {<<n, j>>}
                    PROVE  k = m
        BY <3>1 DEF OneAtWork
      <4>1. CASE i = j
        BY <3>1, <4>1
      <4>2. CASE i # j
        BY <4>2 DEF OneAtWork
      <4>. QED
        BY <4>1, <4>2
    <3>. QED
      BY <3>1, <3>2
  <2>2. CASE Turns!End
    BY <2>2 DEF Turns!End, OneAtWork
  <2>3. CASE Turns!Wipe
    BY <2>3 DEF Turns!Wipe, OneAtWork
  <2>4. CASE UNCHANGED <<Working, Exposed, bounds.wipes>>
    BY <2>4 DEF OneAtWork
  <2>. QED
    BY <2>1, <2>2, <2>3, <2>4 DEF Turns!Next
<1>. QED
  BY <1>1, <1>2, PTL DEF TakesTurns, Turns!Spec
=============================================================================
