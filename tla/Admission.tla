------------------------------ MODULE Admission ------------------------------
(* The admission of workers, on top of the subagents they delegate to: the           *)
(* reservations a dispatcher makes before it spawns (kanban.pre_reserve_ready), the    *)
(* decision each one takes (resources.admit, with its memory and disk gates kept in    *)
(* the state database) and the one of a supervisor, which looks at the drain flag      *)
(* first (Supervisor.can_admit).                                                       *)
EXTENDS Delegation

CONSTANTS Admitter,      \* dispatchers: the controllers of runs, and supervisors
          Supervisor,    \* the admitters that look at the drain flag
          Wave,          \* reservations in one tick
          MaxSequences   \* capacity.max_total_sequences

ASSUME AdmissionAssumption ==
    /\ Supervisor \subseteq Admitter
    /\ Wave \in Nat \ {0} /\ MaxSequences \in Nat

Gate    == {"memory", "disk"}
Reading == {"low", "mid", "high", "unknown"}   \* of pressure; high is below the disk floor

VARIABLES
    closed,      \* meta admission_mem_gate, admission_disk_floor_gate: the closed gates
    drain,       \* the DRAIN file
    at, gate,    \* of an admitter: its step, and the gate it is at
    sawClosed,   \* it has read the flag of the gate as closed
    held,        \* its reservations of this tick
    crossed,     \* gates where a high reading was judged, and no low one since
    mixed        \* two admitters have been at it at the same time; crossed is then given up

gates   == <<closed, drain, crossed, mixed>>
judging == <<at, gate, sawClosed, held>>
vars    == <<gates, judging, delegationVars>>

Init ==
    /\ DelegationInit
    /\ closed = {} /\ drain = FALSE
    /\ at = [a \in Admitter |-> "idle"]
    /\ gate = [a \in Admitter |-> "memory"]
    /\ sawClosed = [a \in Admitter |-> FALSE]
    /\ held = [a \in Admitter |-> 0]
    /\ crossed = {} /\ mixed = FALSE

\* active_lease_credits of every kind.
LeaseCredits == Cardinality(workers) + SubagentCredits

\* hca drain, hca drain --clear, and the start of hca down.
Drain ==
    /\ drain' = ~drain
    /\ UNCHANGED <<closed, crossed, mixed, judging, delegationVars>>

\* A tick begins.  can_admit looks for the flag and takes a decision before the tick does;
\* the tick of a run's controller goes straight to its first ready task.
Begin(a) ==
    /\ at[a] = "idle"
    /\ a \in Supervisor => ~drain
    /\ at' = [at EXCEPT ![a] = "look"]
    /\ mixed' = (mixed \/ \E b \in Admitter \ {a} : at[b] # "idle")
    /\ crossed' = IF mixed' THEN {} ELSE crossed
    /\ UNCHANGED <<closed, drain, gate, sawClosed, held, delegationVars>>

\* get_meta of the gate.
Look(a) ==
    /\ at[a] = "look"
    /\ sawClosed' = [sawClosed EXCEPT ![a] = gate[a] \in closed]
    /\ at' = [at EXCEPT ![a] = "judge"]
    /\ UNCHANGED <<gates, gate, held, delegationVars>>

\* (Mutant: the gate opens as soon as the pressure is no longer high.)
BlockedAtHigh(wasClosed, r) == r = "high"

\* A closed gate opens at the low watermark only, and an open one closes at the high one.
Blocked(wasClosed, r) == IF wasClosed THEN r # "low" ELSE r = "high"

\* What is reserved is spawned, if anything is.
LeaveLoop(a) == [at EXCEPT ![a] = IF held[a] = 0 THEN "idle" ELSE "spawn"]

\* The verdict on what the host was probed for: set_meta, and the return.  An unknown
\* reading leaves the flag as it is.  From the memory gate on to the disk gate, and from
\* there to the credits; a refusal ends the reservations.
Judge(a, r) ==
    LET g == gate[a]
        blocked == Blocked(sawClosed[a], r)
    IN
    /\ at[a] = "judge"
    /\ closed' = IF r = "unknown" \/ blocked = sawClosed[a] THEN closed
                 ELSE IF blocked THEN closed \cup {g} ELSE closed \ {g}
    /\ crossed' = IF mixed THEN {}
                  ELSE CASE r = "high" -> crossed \cup {g}
                         [] r = "low"  -> crossed \ {g}
                         [] OTHER      -> crossed
    /\ at' = IF blocked THEN LeaveLoop(a)
             ELSE [at EXCEPT ![a] = IF g = "memory" THEN "look" ELSE "count"]
    /\ gate' = [gate EXCEPT ![a] = IF blocked \/ g = "disk" THEN "memory" ELSE "disk"]
    /\ sawClosed' = [sawClosed EXCEPT ![a] = FALSE]
    /\ UNCHANGED <<drain, held, mixed, delegationVars>>

\* Another reason to wait: no sequence credit, the run's disk budget, the disk percentage,
\* the backend; or no further ready task with a free slot and role.
Wait(a) ==
    /\ at[a] = "count"
    /\ at' = LeaveLoop(a)
    /\ UNCHANGED <<gates, gate, sawClosed, held, delegationVars>>

\* (Mutant: each reservation is counted as if it were the only one.)
CreditsFitEach(n) == LeaseCredits + 1 <= MaxSequences

\* The n-th reservation is asked for with the credits of those before it.
CreditsFit(n) == LeaseCredits + n <= MaxSequences

ReserveSlot(a) ==
    /\ at[a] = "count"
    /\ CreditsFit(held[a] + 1)
    /\ held' = [held EXCEPT ![a] = @ + 1]
    /\ at' = [at EXCEPT ![a] = IF held[a] + 1 < Wave THEN "look" ELSE "spawn"]
    /\ UNCHANGED <<gates, gate, sawClosed, delegationVars>>

\* Upstream claims a reserved task, and its worker is spawned and leased.
Spawn(a) ==
    /\ at[a] = "spawn" /\ held[a] > 0
    /\ \E s \in Session : Start(s)
    /\ held' = [held EXCEPT ![a] = @ - 1]
    /\ at' = [at EXCEPT ![a] = IF held[a] = 1 THEN "idle" ELSE "spawn"]
    /\ UNCHANGED <<gates, gate, sawClosed>>

\* Upstream claims none of the rest: the reservations end with the tick.
EndTick(a) ==
    /\ at[a] = "spawn"
    /\ held' = [held EXCEPT ![a] = 0]
    /\ at' = [at EXCEPT ![a] = "idle"]
    /\ UNCHANGED <<gates, gate, sawClosed, delegationVars>>

Admitting(a) ==
    \/ Begin(a) \/ Look(a) \/ Wait(a) \/ ReserveSlot(a) \/ Spawn(a) \/ EndTick(a)
    \/ \E r \in Reading : Judge(a, r)

Next ==
    \/ Drain
    \/ \E a \in Admitter : Admitting(a)
    \/ Delegating /\ UNCHANGED <<gates, judging>>

Spec == Init /\ [][Next]_vars
--------------------------------------------------------------------------------
\* Flags, reservations and leases stay within what the fleet has.
AdmissionTypeOK ==
    /\ closed \subseteq Gate /\ crossed \subseteq Gate
    /\ drain \in BOOLEAN /\ mixed \in BOOLEAN
    /\ at \in [Admitter -> {"idle", "look", "judge", "count", "spawn"}]
    /\ gate \in [Admitter -> Gate]
    /\ sawClosed \in [Admitter -> BOOLEAN]
    /\ held \in [Admitter -> 0 .. Wave]
    /\ DelegationTypeOK

\* "Once host memory pressure crosses high the gate stays closed until it falls back below
\* low" (resources.py:42), and the same for the disk floor: as long as admitters come one
\* after the other, nobody gets past the gates in between.  Each reads the flag, and writes
\* it later.
HysteresisKept == \A a \in Admitter : at[a] = "count" => crossed = {}

\* A wave is admitted as a whole: the workers there are and those one tick has reserved stay
\* within the sequence ceiling, though none of a wave is leased before all are reserved, as
\* long as admitters come one after the other (pre_reserve_ready).
CeilingKept == ~mixed => \A a \in Admitter : Cardinality(workers) + held[a] <= MaxSequences
================================================================================
