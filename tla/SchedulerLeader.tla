--------------------------- MODULE SchedulerLeader ---------------------------
(***************************************************************************)
(* Who runs the scheduled jobs.                                            *)
(*                                                                         *)
(* Every scheduler process waits for the Redis key sched:leader and then   *)
(* fires jobs; each firing checks the leadership again and takes the job's *)
(* own lock, which nobody ever gives back: it runs out.  A heartbeat       *)
(* thread extends the leadership, or takes it again when Redis has lost    *)
(* it (Fix 483); SIGTERM gives it up at once for the next process, and a   *)
(* process that finds the key taken waits before it exits (Fix 420).       *)
(* Processes overlap while one is replaced by the next.                    *)
(*                                                                         *)
(* Time is counted in heartbeats (10 s).                                   *)
(***************************************************************************)
EXTENDS Integers

CONSTANTS
    Nodes,      \* processes, one per start: a node_id holds its start time
    Jobs,
    Slow,       \* jobs that may be at work for longer than their lock lives
    Nobody,     \* the value of a key that does not exist
    Ttl,        \* leader_ttl_seconds, 30 s
    Wait,       \* LEADER_WAIT_SECONDS, 45 s
    JobTtl,     \* ttl_seconds of guarded_job
    MaxWipes,   \* bound: times that Redis loses its keys
    MaxFaults   \* bound: Redis calls that fail

ASSUME NodesAssumption == Nobody \notin Nodes

ASSUME TimesAssumption ==
    /\ {Ttl, Wait, JobTtl} \subseteq Nat \ {0}
    /\ {MaxWipes, MaxFaults} \subseteq Nat
    /\ Wait > Ttl

VARIABLES
    leader,     \* Redis: sched:leader
    left,       \* Redis: its time to live
    holder,     \* Redis: sched:job:<name>
    jobLeft,    \* Redis: their times to live
    state,      \* the processes
    waited,     \* how long each waits for the leadership
    due,        \* whose heartbeat has not been done in this period
    checked,    \* jobs that have passed the leadership check
    running,    \* jobs in their work
    company,    \* who has met another process while it waited
    bounds      \* wipes and faults so far

keys == <<leader, left, holder, jobLeft>>
vars == <<keys, state, waited, due, checked, running, company, bounds>>

Alive(n)    == state[n] \in {"waiting", "up", "asked", "released"}
Started(n)  == state[n] \in {"up", "asked", "released"}
Alone(n)    == \A m \in Nodes \ {n} : ~Alive(m)

Init ==
    /\ leader = Nobody /\ left = 0
    /\ holder = [j \in Jobs |-> Nobody] /\ jobLeft = [j \in Jobs |-> 0]
    /\ state = [n \in Nodes |-> "off"]
    /\ waited = [n \in Nodes |-> 0]
    /\ due = {}
    /\ checked = [n \in Nodes |-> {}] /\ running = [n \in Nodes |-> {}]
    /\ company = {}
    /\ bounds = [wipes |-> 0, faults |-> 0]

(* A Redis call may fail, a bounded number of times. *)
Fault == /\ bounds.faults < MaxFaults
         /\ bounds' = [bounds EXCEPT !.faults = @ + 1]

(***************************************************************************)
(* The leadership.                                                         *)
(***************************************************************************)
Take(n) == leader' = n /\ left' = Ttl

\* Bug variant (before Fix 483): only one's own key is extended.
NeverRetakes(n) == FALSE

\* Bug variant: a process that has released the key takes it again.
RetakesWhileStopping(n) == leader = Nobody

(* The key is gone: whoever finds that takes it, unless it is stopping.    *)
MayRetake(n) == leader = Nobody /\ state[n] # "released"

(* refresh_leader: whether the process leads; one atomic Lua script. *)
Refreshed(n) == Take(n) /\ (leader = n \/ MayRetake(n))

NotLeader(n) == ~(leader = n \/ MayRetake(n))

(* wait_for_leader ends, and what it knew is forgotten. *)
Leaves(n) == /\ waited' = [waited EXCEPT ![n] = 0]
             /\ company' = company \ {n}

Start(n) ==
    /\ state[n] = "off"
    /\ state' = [state EXCEPT ![n] = "waiting"]
    /\ company' = company \cup {m \in Nodes \ {n} : state[m] = "waiting"}
                          \cup (IF Alone(n) THEN {} ELSE {n})
    /\ UNCHANGED <<keys, waited, due, checked, running, bounds>>

BecomeLeader(n) ==
    /\ state[n] = "waiting" /\ leader = Nobody
    /\ Take(n)
    /\ state' = [state EXCEPT ![n] = "up"]
    /\ due' = due \cup {n}
    /\ Leaves(n)
    /\ UNCHANGED <<holder, jobLeft, checked, running, bounds>>

\* Bug variant (before Fix 420): the leadership is tried once.
TriesOnce == 0

Patience == Wait

(* The last try finds the key taken, or Redis does not answer. *)
GiveUp(n) ==
    /\ state[n] = "waiting" /\ waited[n] >= Patience
    /\ \/ leader # Nobody /\ UNCHANGED bounds
       \/ Fault
    /\ state' = [state EXCEPT ![n] = "gone"]
    /\ Leaves(n)
    /\ UNCHANGED <<keys, due, checked, running>>

(* One turn of the heartbeat loop; one under way when SIGTERM comes is     *)
(* still completed.                                                        *)
Heartbeat(n) ==
    /\ Started(n) /\ n \in due
    /\ due' = due \ {n}
    /\ \/ Refreshed(n) /\ UNCHANGED bounds
       \/ NotLeader(n) /\ UNCHANGED <<leader, left, bounds>>
       \/ Fault /\ UNCHANGED <<leader, left>>
    /\ UNCHANGED <<holder, jobLeft, state, waited, checked, running, company>>

(***************************************************************************)
(* The jobs.                                                               *)
(***************************************************************************)
(* guarded_job, up to the leadership check; max_instances = 1. *)
Check(n, j) ==
    /\ Started(n)
    /\ j \notin checked[n] \cup running[n]
    /\ Refreshed(n)
    /\ checked' = [checked EXCEPT ![n] = @ \cup {j}]
    /\ UNCHANGED <<holder, jobLeft, state, waited, due, running, company, bounds>>

(* acquire_job_lock, and the work begins. *)
Lock(n, j) ==
    /\ j \in checked[n] /\ holder[j] = Nobody
    /\ holder' = [holder EXCEPT ![j] = n]
    /\ jobLeft' = [jobLeft EXCEPT ![j] = JobTtl]
    /\ checked' = [checked EXCEPT ![n] = @ \ {j}]
    /\ running' = [running EXCEPT ![n] = @ \cup {j}]
    /\ UNCHANGED <<leader, left, state, waited, due, company, bounds>>

(* The lock is taken, or Redis does not answer. *)
Skip(n, j) ==
    /\ j \in checked[n]
    /\ \/ holder[j] # Nobody /\ UNCHANGED bounds
       \/ Fault
    /\ checked' = [checked EXCEPT ![n] = @ \ {j}]
    /\ UNCHANGED <<keys, state, waited, due, running, company>>

Finish(n, j) ==
    /\ j \in running[n]
    /\ running' = [running EXCEPT ![n] = @ \ {j}]
    /\ UNCHANGED <<keys, state, waited, due, checked, company, bounds>>

(***************************************************************************)
(* Stopping.                                                               *)
(***************************************************************************)
Sigterm(n) ==
    /\ state[n] = "up"
    /\ state' = [state EXCEPT ![n] = "asked"]
    /\ UNCHANGED <<keys, waited, due, checked, running, company, bounds>>

\* Bug variant: the process gives back the locks of its jobs as well.
GivesBackJobLocks(n) ==
    /\ holder' = [j \in Jobs |-> IF holder[j] = n THEN Nobody ELSE holder[j]]
    /\ jobLeft' = [j \in Jobs |-> IF holder[j] = n THEN 0 ELSE jobLeft[j]]

(* The locks of the jobs stay: they may still be at work. *)
JobLocksAfter(n) == UNCHANGED <<holder, jobLeft>>

(* release_leader: only one's own key is deleted. *)
Release(n) ==
    /\ state[n] = "asked"
    /\ state' = [state EXCEPT ![n] = "released"]
    /\ \/ /\ IF leader = n THEN leader' = Nobody /\ left' = 0
                           ELSE UNCHANGED <<leader, left>>
          /\ JobLocksAfter(n)
          /\ UNCHANGED bounds
       \/ Fault /\ UNCHANGED keys
    /\ UNCHANGED <<waited, due, checked, running, company>>

(* The process ends: by itself, by SIGKILL, or it crashes. *)
Die(n) ==
    /\ Alive(n)
    /\ state' = [state EXCEPT ![n] = "gone"]
    /\ due' = due \ {n}
    /\ checked' = [checked EXCEPT ![n] = {}]
    /\ running' = [running EXCEPT ![n] = {}]
    /\ Leaves(n)
    /\ UNCHANGED <<keys, bounds>>

(***************************************************************************)
(* Redis and time (external).                                              *)
(***************************************************************************)
Wipe ==
    /\ bounds.wipes < MaxWipes
    /\ bounds' = [bounds EXCEPT !.wipes = @ + 1]
    /\ leader' = Nobody /\ left' = 0
    /\ holder' = [j \in Jobs |-> Nobody] /\ jobLeft' = [j \in Jobs |-> 0]
    /\ UNCHANGED <<state, waited, due, checked, running, company>>

Less(t) == IF t = 0 THEN 0 ELSE t - 1

(* A period passes: every process that is up has done its heartbeat, and   *)
(* every process that waits has tried (each 2 s) and got an answer.  A job *)
(* that is not slow ends before its lock does.                             *)
Tick ==
    /\ \A n \in due : state[n] # "up"
    /\ \A n \in Nodes : state[n] = "waiting" => leader # Nobody /\ waited[n] < Patience
    /\ \A n \in Nodes : \A j \in running[n] \ Slow : holder[j] = n => jobLeft[j] > 1
    /\ left' = Less(left)
    /\ leader' = IF left <= 1 THEN Nobody ELSE leader
    /\ jobLeft' = [j \in Jobs |-> Less(jobLeft[j])]
    /\ holder' = [j \in Jobs |-> IF jobLeft[j] <= 1 THEN Nobody ELSE holder[j]]
    /\ waited' = [n \in Nodes |-> IF state[n] = "waiting" THEN waited[n] + 1
                                                           ELSE waited[n]]
    /\ due' = due \cup {n \in Nodes : state[n] = "up"}
    /\ UNCHANGED <<state, checked, running, company, bounds>>

Next ==
    \/ \E n \in Nodes :
          \/ Start(n) \/ BecomeLeader(n) \/ GiveUp(n) \/ Heartbeat(n)
          \/ \E j \in Jobs : Check(n, j) \/ Lock(n, j) \/ Skip(n, j) \/ Finish(n, j)
          \/ Sigterm(n) \/ Release(n) \/ Die(n)
    \/ Wipe \/ Tick

Spec == Init /\ [][Next]_vars

(* Time passes, the heartbeat thread runs, a job ends and what was told to *)
(* stop is killed after its grace time; no process has to be started.      *)
Fairness ==
    /\ WF_vars(Tick)
    /\ \A n \in Nodes :
          /\ WF_vars(BecomeLeader(n)) /\ WF_vars(GiveUp(n)) /\ WF_vars(Heartbeat(n))
          /\ \A j \in Jobs : WF_vars(Finish(n, j))
          /\ WF_vars(Die(n) /\ state[n] \in {"asked", "released"})

FairSpec == Spec /\ Fairness
-----------------------------------------------------------------------------
(* Every variable has its type, and a key exists as long as it has time to *)
(* live: what is taken is never taken for good.                            *)
TypeOK ==
    /\ leader \in Nodes \cup {Nobody} /\ left \in 0 .. Ttl
    /\ holder \in [Jobs -> Nodes \cup {Nobody}] /\ jobLeft \in [Jobs -> 0 .. JobTtl]
    /\ leader = Nobody <=> left = 0
    /\ \A j \in Jobs : holder[j] = Nobody <=> jobLeft[j] = 0
    /\ state \in [Nodes -> {"off", "waiting", "up", "asked", "released", "gone"}]
    /\ waited \in [Nodes -> 0 .. Wait]
    /\ due \subseteq Nodes /\ company \subseteq Nodes
    /\ checked \in [Nodes -> SUBSET Jobs] /\ running \in [Nodes -> SUBSET Jobs]
    /\ bounds \in [wipes : 0 .. MaxWipes, faults : 0 .. MaxFaults]

(* A job is at work in one process at a time, also while one process takes *)
(* over from another (Fix 420: the locks of the jobs stay), as long as     *)
(* Redis keeps its keys and the job ends before its lock.                  *)
NoJobTwice ==
    bounds.wipes = 0 => \A n, m \in Nodes : n # m => running[n] \cap running[m] \subseteq Slow

(* Where Redis does lose them, another process may repeat the jobs that    *)
(* are then at work, and no others: the locks implement JobTurns.          *)
Working == {p \in Nodes \X (Jobs \ Slow) : p[2] \in running[p[1]]}
Exposed == {p \in Working : holder[p[2]] # p[1]}

Turns == INSTANCE JobTurns WITH working <- Working, exposed <- Exposed,
                                wipes <- bounds.wipes, Jobs <- Jobs \ Slow

TakesTurns == Turns!Spec

(* A process that has given the leadership up does not lead again: its     *)
(* successor need not wait for it (release_leader's stopping flag).        *)
StoppedStaysOut ==
    [][\A n \in Nodes : state[n] = "released" /\ leader # n => leader' # n]_vars

(* A process that is started after all the others have died does not exit: *)
(* it outwaits the key that the last of them left (Fix 420).               *)
LoneProcessLeads ==
    [][\A n \in Nodes : GiveUp(n) => n \in company]_vars

(* While a process is up the jobs are not left without a leader, though    *)
(* Redis loses the key (Fix 483).                                          *)
LeaderAgain ==
    <>[](\E n \in Nodes : state[n] = "up")
        => []<>(\E n \in Nodes : state[n] = "up" /\ leader = n)
-----------------------------------------------------------------------------
(* Why a job is at work once: one at work holds its lock. *)
WorkHoldsLock ==
    bounds.wipes = 0 => \A n \in Nodes : \A j \in running[n] \ Slow : holder[j] = n

(* Why a lone process leads: the key it finds was left there, and runs out *)
(* before its patience does, which begins anew with every wait.            *)
LeftoverRunsOut ==
    \A n \in Nodes :
        /\ state[n] = "waiting" /\ n \notin company
              => Alone(n) /\ left + waited[n] <= Ttl
        /\ state[n] # "waiting" => waited[n] = 0

(* Both facts, with the types: what every step of the processes, of Redis  *)
(* and of time keeps, whichever process fires a job or extends the key.    *)
LeaderInv == TypeOK /\ WorkHoldsLock /\ LeftoverRunsOut
=============================================================================
