--------------------------- MODULE CircuitBreaker ---------------------------
(***************************************************************************)
(* The circuit that the readers of one dependency share (resilience.py):   *)
(* its row, the leases of the reads in flight, the readers, each in        *)
(* read_with_policy between two transactions or at the provider, and the   *)
(* operators who reset the circuit.                                        *)
(*                                                                         *)
(* Time is `cooling`, retry_at in the future (a closed row has none), and  *)
(* the leases that have expired are no longer in `leased`.  A probe's      *)
(* lease and its retry_at are the same instant.  Everything that may go    *)
(* wrong with a read is possible until the generation is MaxGeneration.    *)
(***************************************************************************)
EXTENDS Naturals, FiniteSets

CONSTANTS
    Reader,        \* reads that may be in flight at a time, of all processes
    Operator,      \* sessions in which an operator resets the circuit
    Token,         \* probe tokens
    NoToken,       \* no probe token
    DefaultLimit,  \* settings.max_reads_per_dependency
    Limits,        \* the limits an operator may set
    Attempts,      \* attempts of a read that is not a probe: 3 in the code
    MaxGeneration  \* bound: from it on nothing new disturbs a read, and nobody resets

Threshold == 3     \* failures that open the circuit

ASSUME CircuitAssumption ==
    /\ NoToken \notin Token
    /\ DefaultLimit \in Nat \ {0}
    /\ Limits \subseteq Nat \ {0}
    /\ Attempts \in Nat \ {0}
    /\ MaxGeneration \in Nat

VARIABLES
    circuit,    \* the DependencyCircuit row
    leased,     \* readers with a lease row that has not expired
    permit,     \* what each reader's permit says of the row
    reader,     \* where each reader is
    operator,   \* what each operator has read of the row for a reset: nothing, or once
    overlapped  \* history: a reset was written over another change than it had read

vars == <<circuit, leased, permit, reader, operator, overlapped>>

Outcome == {"none", "failure", "limited", "success"}  \* limited: with retry_after
Idle == [pc |-> "idle", left |-> 0, outcome |-> "none"]
Reading(pc, left) == [pc |-> pc, left |-> left, outcome |-> "none"]
Completing(outcome) == [pc |-> "completing", left |-> 0, outcome |-> outcome]

Circuit == [state : {"CLOSED", "OPEN", "HALF_OPEN"}, failures : 0..Threshold,
            cooling : BOOLEAN, limit : Nat, generation : Nat, probe : Token \cup {NoToken}]
Permit == [generation : Nat, probe : Token \cup {NoToken}]
ReadState == [pc : {"idle", "ready", "asked", "answered", "completing", "dead"},
              left : 0..Attempts, outcome : Outcome]
Snapshot == [generation : Nat, closed : BOOLEAN, counted : BOOLEAN, probing : BOOLEAN]

TypeOK ==
    /\ circuit \in Circuit
    /\ leased \subseteq Reader
    /\ permit \in [Reader -> Permit]
    /\ reader \in [Reader -> ReadState]
    /\ operator \in [Operator -> SUBSET Snapshot]
    /\ overlapped \in BOOLEAN

NoPermit == [generation |-> 0, probe |-> NoToken]

Init ==
    /\ circuit = [state |-> "CLOSED", failures |-> 0, cooling |-> FALSE, limit |-> 0,
                  generation |-> 0, probe |-> NoToken]
    /\ leased = {}
    /\ permit = [r \in Reader |-> NoPermit]
    /\ reader = [r \in Reader |-> Idle]
    /\ operator = [p \in Operator |-> {}]
    /\ overlapped = FALSE

Trouble == circuit.generation < MaxGeneration

Goto(r, where) == reader' = [reader EXCEPT ![r] = where]

(***************************************************************************)
(* acquire: a permit, or an exception, which rolls back.                   *)
(***************************************************************************)
MaxInFlight == IF circuit.limit = 0 THEN DefaultLimit ELSE circuit.limit

(* A permit is what the row says once it is written.                       *)
Grants(r, left) ==
    /\ permit' = [permit EXCEPT ![r] = [generation |-> circuit'.generation, probe |-> circuit'.probe]]
    /\ Goto(r, Reading("ready", left))

(* A closed row has a probe token when a reset left one (see CommitReset). *)
AcquireRead(r) ==
    /\ circuit.state = "CLOSED"
    /\ circuit' = [circuit EXCEPT !.limit = MaxInFlight]
    /\ Grants(r, IF circuit.probe = NoToken THEN Attempts ELSE 1)

(* uid(): which new token it is makes no difference.                       *)
FreshTokens == Token \ ({circuit.probe} \cup {permit[q].probe : q \in Reader})

Probe ==
    /\ FreshTokens # {}
    /\ circuit' = [circuit EXCEPT !.state = "HALF_OPEN", !.cooling = TRUE, !.limit = MaxInFlight,
                                  !.generation = @ + 1,
                                  !.probe = CHOOSE token \in FreshTokens : TRUE]

(* Faulty: a probe that died is never replaced.  ("Faulty" marks a         *)
(* definition that is no part of Spec: a plausible bug in the one below.)  *)
AcquireProbeOnce(r) ==
    /\ circuit.state = "OPEN" /\ ~circuit.cooling
    /\ Probe
    /\ Grants(r, 1)

AcquireProbe(r) ==
    /\ circuit.state # "CLOSED" /\ ~circuit.cooling
    /\ Probe
    /\ Grants(r, 1)

HasCapacity == Cardinality(leased) < MaxInFlight

Acquire(r) ==
    /\ reader[r] = Idle
    /\ HasCapacity
    /\ leased' = leased \cup {r}
    /\ AcquireRead(r) \/ AcquireProbe(r)
    /\ UNCHANGED <<operator, overlapped>>

(***************************************************************************)
(* read_with_policy.  authorize may raise before and after each attempt,   *)
(* and leaves no outcome; so does validate_permit.                         *)
(***************************************************************************)
Matches(r) == permit[r] = [generation |-> circuit.generation, probe |-> circuit.probe]

Permitted(r) ==
    /\ r \in leased /\ Matches(r)
    /\ circuit.state # "OPEN"
    /\ circuit.state = "HALF_OPEN" => circuit.cooling

Ask(r) ==
    /\ reader[r].pc = "ready"
    /\ \/ Permitted(r) /\ Goto(r, [reader[r] EXCEPT !.pc = "asked"])
       \/ (Trouble \/ ~Permitted(r)) /\ Goto(r, Completing("none"))
       \/ Trouble /\ Permitted(r) /\ Goto(r, Completing("failure"))  \* UPSTREAM_RETRY_BUDGET
    /\ UNCHANGED <<circuit, leased, permit, operator, overlapped>>

Retries(r) == Trouble /\ reader[r].left > 1

(* An answer; or a transient failure, after which the read is attempted    *)
(* again unless it has no attempt or time left or was told when to retry;  *)
(* or another exception.                                                   *)
Answer(r) ==
    /\ reader[r].pc = "asked"
    /\ \/ Goto(r, [reader[r] EXCEPT !.pc = "answered"])
       \/ Retries(r) /\ Goto(r, Reading("ready", reader[r].left - 1))
       \/ Trouble /\ \E outcome \in {"failure", "limited"} : Goto(r, Completing(outcome))
       \/ Trouble /\ Goto(r, Completing("none"))
    /\ UNCHANGED <<circuit, leased, permit, operator, overlapped>>

Accept(r) ==
    /\ reader[r].pc = "answered"
    /\ \/ Permitted(r) /\ Goto(r, Completing("success"))
       \/ (Trouble \/ ~Permitted(r)) /\ Goto(r, Completing("none"))
    /\ UNCHANGED <<circuit, leased, permit, operator, overlapped>>

(***************************************************************************)
(* complete: only the owner of a live lease and a matching permit counts.  *)
(***************************************************************************)
Counts(r) ==
    /\ r \in leased /\ Matches(r)
    /\ circuit.state = "HALF_OPEN" => circuit.cooling

Closes ==
    circuit' = [circuit EXCEPT !.state = "CLOSED", !.failures = 0, !.cooling = FALSE, !.probe = NoToken,
                               !.generation = IF circuit.state = "HALF_OPEN" THEN @ + 1 ELSE @]

(* The row counts on; more than Threshold is not told apart.               *)
FailuresAfter(outcome) ==
    IF outcome = "none" \/ circuit.failures = Threshold THEN circuit.failures ELSE circuit.failures + 1

Opens(outcome) ==
    \/ circuit.state = "HALF_OPEN"
    \/ outcome = "limited"
    \/ outcome = "failure" /\ FailuresAfter(outcome) >= Threshold

(* Faulty: opening keeps the generation, and so the permits of old reads.  *)
FailsSameGeneration(outcome) ==
    circuit' = IF Opens(outcome)
                 THEN [circuit EXCEPT !.state = "OPEN", !.cooling = TRUE, !.probe = NoToken,
                                      !.failures = FailuresAfter(outcome)]
                 ELSE [circuit EXCEPT !.failures = FailuresAfter(outcome)]

Fails(outcome) ==
    circuit' = IF Opens(outcome)
                 THEN [circuit EXCEPT !.state = "OPEN", !.cooling = TRUE, !.probe = NoToken,
                                      !.generation = @ + 1, !.failures = FailuresAfter(outcome)]
                 ELSE [circuit EXCEPT !.failures = FailuresAfter(outcome)]

(* Without its lease a permit is worth nothing, and is forgotten here.     *)
LosesLease(readers) ==
    /\ leased' = leased \ readers
    /\ permit' = [r \in Reader |-> IF r \in readers THEN NoPermit ELSE permit[r]]

Complete(r) ==
    /\ reader[r].pc = "completing"
    /\ \/ Counts(r) /\ reader[r].outcome = "success" /\ Closes
       \/ Counts(r) /\ reader[r].outcome # "success" /\ Fails(reader[r].outcome)
       \/ ~Counts(r) /\ UNCHANGED circuit
    /\ LosesLease({r})
    /\ Goto(r, Idle)
    /\ UNCHANGED <<operator, overlapped>>

(***************************************************************************)
(* Operators, time and processes.                                          *)
(***************************************************************************)
(* reset_circuit reads the row, and then takes its lock and reads it again *)
(* into the same object of its session, which keeps what it has.  So the   *)
(* UPDATE writes a generation computed from the first read, and the other  *)
(* columns only where that read differs from what it sets them to.         *)
ReadForReset(p) ==
    /\ circuit.generation < MaxGeneration
    /\ operator[p] = {}
    /\ operator' = [operator EXCEPT ![p] = {[generation |-> circuit.generation,
                                             closed |-> circuit.state = "CLOSED",
                                             counted |-> circuit.failures # 0,
                                             probing |-> circuit.probe # NoToken]}]
    /\ UNCHANGED <<circuit, leased, permit, reader, overlapped>>

CommitReset(p) ==
    \E old \in operator[p] :
        /\ circuit' = [circuit EXCEPT !.generation = old.generation + 1,
                                      !.state = IF old.closed THEN @ ELSE "CLOSED",
                                      !.cooling = IF old.closed THEN @ ELSE FALSE,
                                      !.failures = IF old.counted THEN 0 ELSE @,
                                      !.probe = IF old.probing THEN NoToken ELSE @]
        /\ operator' = [operator EXCEPT ![p] = {}]
        /\ overlapped' = (overlapped \/ old.generation # circuit.generation)
        /\ UNCHANGED <<leased, permit, reader>>

(* set_read_limit reads in the same way, but writes one column, and leaves *)
(* it when it read what it sets: one step, at its write or at its read.    *)
SetLimit(n) ==
    /\ circuit' = [circuit EXCEPT !.limit = n]
    /\ UNCHANGED <<leased, permit, reader, operator, overlapped>>

(* A lease (90 s) outlives an undisturbed read (30 s and a last request).  *)
Overdue(r) == Trouble \/ reader[r].pc = "dead"

Probes(r) == circuit.state = "HALF_OPEN" /\ circuit.probe # NoToken /\ permit[r].probe = circuit.probe

(* retry_at passes, and with it the lease of the probe.                    *)
Cool ==
    /\ circuit.cooling
    /\ \A r \in leased : Probes(r) => Overdue(r)
    /\ circuit' = [circuit EXCEPT !.cooling = FALSE]
    /\ LosesLease({r \in leased : Probes(r)})
    /\ UNCHANGED <<reader, operator, overlapped>>

Expire(r) ==
    /\ r \in leased /\ Overdue(r) /\ ~Probes(r)
    /\ LosesLease({r})
    /\ UNCHANGED <<circuit, reader, operator, overlapped>>

(* A dead reader's lease stays until it expires.                           *)
Crash(r) ==
    /\ Trouble /\ reader[r].pc \notin {"idle", "dead"}
    /\ Goto(r, Reading("dead", 0))
    /\ UNCHANGED <<circuit, leased, permit, operator, overlapped>>

Bury(r) ==
    /\ reader[r].pc = "dead" /\ r \notin leased
    /\ Goto(r, Idle)
    /\ UNCHANGED <<circuit, leased, permit, operator, overlapped>>

Next ==
    \/ \E r \in Reader : \/ Acquire(r) \/ Ask(r) \/ Answer(r) \/ Accept(r) \/ Complete(r)
                         \/ Expire(r) \/ Crash(r) \/ Bury(r)
    \/ \E p \in Operator : ReadForReset(p) \/ CommitReset(p)
    \/ \E n \in Limits : SetLimit(n)
    \/ Cool

Spec == Init /\ [][Next]_vars

(* Time passes, reads go on, and tasks keep asking for new ones, also when *)
(* they find the dependency at its capacity now and then.                  *)
Fairness ==
    /\ WF_vars(Cool)
    /\ \A r \in Reader :
         /\ WF_vars(Expire(r) \/ Bury(r))
         /\ SF_vars(Acquire(r))
         /\ WF_vars(Ask(r) \/ Answer(r) \/ Accept(r) \/ Complete(r))

FairSpec == Spec /\ Fairness

(***************************************************************************)
(* Properties.  Those about permits are promised while no reset has been   *)
(* written over a change that it had not read.                             *)
(***************************************************************************)

(* ADR-010, a single half-open probe: while the circuit is not closed, at  *)
(* most one read may still be sent or believed, and none while it is open, *)
(* however many reads were in flight when it opened, was reset or timed    *)
(* out.                                                                    *)
OneProbe ==
    ~overlapped =>
        /\ circuit.state = "OPEN" => \A r \in Reader : ~Permitted(r) /\ ~Counts(r)
        /\ circuit.state = "HALF_OPEN" =>
             \A r, s \in Reader : Permitted(r) /\ Permitted(s) => r = s

(* ADR-010, old requests do not close a new circuit: an open circuit       *)
(* closes only by way of a probe, unless an operator resets it.            *)
ClosesByProbe ==
    [][~overlapped /\ circuit.state = "OPEN" /\ circuit'.state = "CLOSED" => UNCHANGED reader]_vars

(* A closed circuit has not counted to the threshold: no mix of            *)
(* successes, probes, retry hints and resets leaves it closed on failures. *)
ClosedBelowThreshold == ~overlapped /\ circuit.state = "CLOSED" => circuit.failures < Threshold

(* Recovery: once disturbances no longer raise the generation, a circuit   *)
(* closes again without an operator, whatever dead readers, interrupted    *)
(* probes, expired permits, resets and a limit lowered below the reads in  *)
(* flight have left behind (dependency-resilience.md:31, :33).             *)
RecoversByItself == []<>(circuit.state = "CLOSED")

(* The inductive invariant: only a half-open row has a probe token, no     *)
(* permit is newer than the row, nor as new when the row is open, only one *)
(* has the row's token when it has one, and a reset that read the row's    *)
(* generation read the row as it is, but for the failures of a closed one. *)
PermitsMatchState ==
    /\ circuit.state = "CLOSED" => ~circuit.cooling
    /\ circuit.state = "HALF_OPEN" <=> circuit.probe # NoToken
    /\ \A r \in leased :
         /\ permit[r].generation <= circuit.generation
         /\ circuit.state = "OPEN" => permit[r].generation < circuit.generation
    /\ circuit.probe # NoToken =>
         \A r, s \in Reader : permit[r].probe = circuit.probe /\ permit[s].probe = circuit.probe => r = s

ResetsReadTheRow ==
    \A p \in Operator : \A old \in operator[p] :
        /\ old.generation <= circuit.generation
        /\ old.generation = circuit.generation =>
             /\ old.closed <=> circuit.state = "CLOSED"
             /\ old.probing <=> circuit.probe # NoToken
             /\ ~old.closed => (old.counted <=> circuit.failures # 0)

CircuitInv ==
    /\ TypeOK
    /\ ~overlapped => PermitsMatchState /\ ResetsReadTheRow
    /\ ClosedBelowThreshold
=============================================================================
