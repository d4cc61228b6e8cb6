---------------------------- MODULE EntryLicence ----------------------------
(***************************************************************************)
(* What the automatic entries of a day may do, whoever makes them: no      *)
(* family enters more often than its licence says, nothing is entered      *)
(* twice, and after a stop only what had been let through before it still  *)
(* enters, at most one for each that was at work.                          *)
(***************************************************************************)
EXTENDS Naturals, FiniteSets

CONSTANTS
    Entries,
    Families,
    Licensed,       \* per family: entries a day
    Starters        \* how many may be at work at once

VARIABLES
    entered,        \* per family: what it has entered
    stopped,        \* entering is stopped
    through         \* entries let through before the stop, not yet made

Init ==
    /\ entered = [f \in Families |-> {}]
    /\ stopped = FALSE /\ through = {}

Enter(e, f) ==
    /\ \A g \in Families : e \notin entered[g]
    /\ Cardinality(entered[f]) < Licensed[f]
    /\ stopped => e \in through
    /\ entered' = [entered EXCEPT ![f] = @ \cup {e}]
    /\ through' = through \ {e}
    /\ UNCHANGED stopped

Stop ==
    /\ ~ stopped /\ stopped' = TRUE
    /\ through' \in SUBSET Entries
    /\ Cardinality(through') <= Starters
    /\ \A f \in Families : through' \cap entered[f] = {}
    /\ UNCHANGED entered

(* One that was let through is refused, or its job dies. *)
GiveUp ==
    /\ through' \in SUBSET through
    /\ UNCHANGED <<entered, stopped>>

Resume ==
    /\ stopped /\ stopped' = FALSE
    /\ through' = {}
    /\ UNCHANGED entered

Next ==
    \/ \E e \in Entries, f \in Families : Enter(e, f)
    \/ Stop \/ GiveUp \/ Resume

Spec == Init /\ [][Next]_<<entered, stopped, through>>
=============================================================================
