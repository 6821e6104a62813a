------------------------------ MODULE RepairLoop ------------------------------
(***************************************************************************)
(* The repair of one task (repair.py, with verification.py, sandbox.py and *)
(* patches.py): a run frozen over one source snapshot, its attempts, the   *)
(* paid generation of each attempt's patch, and the verification of the    *)
(* patch in a pair of containers, the baseline's and the candidate's.      *)
(*                                                                         *)
(* Several ticks may work on the task at once: the workflow's, one that    *)
(* Temporal has given up and that goes on, one from the command line.  An  *)
(* action is one transaction or one call outside; between two of them a    *)
(* tick goes by what it has read, which its record holds.                  *)
(*                                                                         *)
(* People stop and resume the task, grants and documents are revoked and   *)
(* restored, source and configuration change and change back, processes    *)
(* die.  All of it meets a tick as a check that refuses, a comparison that *)
(* fails or an end, any of them at any time until the world is calm.       *)
(*                                                                         *)
(* A definition whose comment says "Faulty" is no part of Spec: it is a    *)
(* plausible bug in the definition below it, that some property excludes.  *)
(* A verification token is drawn for each claim of an attempt, and each    *)
(* claim counts, so a token is the pair of the attempt's ordinal and its   *)
(* verification_count after the claim.                                     *)
(***************************************************************************)
EXTENDS Naturals, FiniteSets

CONSTANTS
    Worker,       \* threads that run a tick
    MaxAttempts,  \* RepairBinding.max_attempts
    MaxVerify,    \* claims of one attempt: 3 in the code
    Exit          \* how a container may end

ASSUME RepairAssumption ==
    /\ MaxAttempts \in Nat \ {0}
    /\ MaxVerify \in Nat \ {0}
    /\ Exit \subseteq {"passes", "fails", "other"}

VARIABLES
    calm,      \* from now on nothing refuses, differs or dies
    run,       \* RepairRun.state
    attempt,   \* RepairAttempt rows, by ordinal
    paid,      \* the inference row of each attempt's patch
    report,    \* the candidate-verification artifact of each token
    started,   \* how often each token's containers were started
    retried,   \* the retries that operators were granted for each attempt
    tick       \* where each thread is in RepairHarness.tick

rows == <<run, attempt, paid, report>>
vars == <<calm, rows, started, retried, tick>>

Ordinal == 1 .. MaxAttempts
Number == 1 .. MaxVerify
Token == Ordinal \X Number

(* From how the two containers ended: tests pass, tests fail, or another   *)
(* exit code, the deadline or the output's limit.                          *)
VerdictOf(baseline, candidate) ==
    CASE "other" \in {baseline, candidate} -> "INCONCLUSIVE"
      [] <<baseline, candidate>> = <<"fails", "passes">> -> "REGRESSION_FIXED"
      [] <<baseline, candidate>> = <<"fails", "fails">> -> "CANDIDATE_FAILED"
      [] OTHER -> "BASELINE_NOT_REPRODUCED"
Verdict == {VerdictOf(b, c) : b \in Exit, c \in Exit}

RunEnd == {"CANDIDATE_READY_FOR_REVIEW", "REPAIR_EXHAUSTED", "REPAIR_INCONCLUSIVE"}
Stopped == RunEnd \cup {"REPAIR_INPUT_CHANGED", "REPAIR_EVIDENCE_CHANGED"}
RunState == Stopped \cup {"NONE", "ACTIVE"}

(* claims is verification_count, token is 0 for NULL, and old says that    *)
(* verification_started_at is longer ago than two timeouts and 30 s.       *)
Attempt == [state : {"ABSENT", "GENERATING", "GENERATED", "VERIFYING", "BLOCKED", "VERIFIED"},
            outcome : Verdict \cup {"NONE", "VERIFICATION_INTERRUPTED"},
            claims : 0 .. MaxVerify, token : 0 .. MaxVerify, old : BOOLEAN]
NoAttempt == [state |-> "ABSENT", outcome |-> "NONE", claims |-> 0, token |-> 0, old |-> FALSE]

Rest == [pc |-> "rest"]
Ending(state) == [pc |-> "end", state |-> state]
Tick ==
    {Rest} \cup [pc : {"create", "drift", "stale"}] \cup [pc : {"validate"}, state : RunState]
    \cup [pc : {"add", "generate", "answer", "patch", "claim"}, n : Ordinal]
    \cup [pc : {"recover"}, n : Ordinal, state : {"BLOCKED", "VERIFYING"}, token : Number, old : BOOLEAN]
    \cup [pc : {"launch", "compare", "interrupt"}, n : Ordinal, token : Number]
    \cup [pc : {"verified"}, n : Ordinal, token : Number, outcome : Verdict, launched : BOOLEAN]
    \cup [pc : {"end"}, state : RunEnd]

Init ==
    /\ calm = FALSE
    /\ run = "NONE"
    /\ attempt = [n \in Ordinal |-> NoAttempt]
    /\ paid = [n \in Ordinal |-> "NONE"]
    /\ report = [t \in Token |-> "NONE"]
    /\ started = [t \in Token |-> 0]
    /\ retried = [n \in Ordinal |-> 0]
    /\ tick = [w \in Worker |-> Rest]

Goto(w, place) == tick' = [tick EXCEPT ![w] = place]

(* authorize and Service._executable, of the harness and of the runner: a  *)
(* task that people stopped, a revoked grant, a deadline.  The tick raises.*)
Refuse(w) ==
    /\ ~calm
    /\ tick[w].pc \in {"create", "generate", "patch"}
    /\ Goto(w, Rest)
    /\ UNCHANGED <<calm, rows, started, retried>>

(* The last row of the attempts in order of their ordinals; 0 if none.     *)
Existing == {n \in Ordinal : attempt[n].state # "ABSENT"}
Latest == IF Existing = {} THEN 0 ELSE CHOOSE n \in Existing : \A m \in Existing : m <= n

(***************************************************************************)
(* The tick up to its attempt                                              *)
(***************************************************************************)

(* Checks, binding, configuration and source; one that refuses leaves the  *)
(* rows as they are.  The run is read after them, and what it froze is     *)
(* compared with what was read.                                            *)
Begin(w) ==
    /\ tick[w] = Rest
    /\ \/ run = "NONE" /\ Goto(w, [pc |-> "create"])
       \/ run # "NONE" /\ Goto(w, [pc |-> "validate", state |-> run])
       \/ run # "NONE" /\ ~calm /\ Goto(w, [pc |-> "drift"])
    /\ UNCHANGED <<calm, rows, started, retried>>

(* The snapshot is stored; of two runs the first stays (insert_once).      *)
CreateRun(w) ==
    /\ tick[w].pc = "create"
    /\ run' = IF run = "NONE" THEN "ACTIVE" ELSE run
    /\ Goto(w, Rest)
    /\ UNCHANGED <<calm, attempt, paid, report, started, retried>>

(* Neither mark looks at the state that it replaces.                       *)
MarkRun(w, pc, state) ==
    /\ tick[w].pc = pc
    /\ run' = state
    /\ Goto(w, Rest)
    /\ UNCHANGED <<calm, attempt, paid, report, started, retried>>
Drift(w) == MarkRun(w, "drift", "REPAIR_INPUT_CHANGED")
Stale(w) == MarkRun(w, "stale", "REPAIR_EVIDENCE_CHANGED")

Conclusion(outcome) ==
    IF outcome = "REGRESSION_FIXED" THEN "CANDIDATE_READY_FOR_REVIEW" ELSE "REPAIR_INCONCLUSIVE"

(* Only a candidate that failed is followed by another attempt.            *)
AfterVerdict(n) ==
    IF attempt[n].outcome # "CANDIDATE_FAILED" THEN Ending(Conclusion(attempt[n].outcome))
    ELSE IF n < MaxAttempts THEN [pc |-> "add", n |-> n + 1] ELSE Ending("REPAIR_EXHAUSTED")

(* What the tick does for the last attempt, as it stands.                  *)
ForAttempt(n) ==
    LET row == attempt[n] IN
    IF n = 0 THEN [pc |-> "add", n |-> 1]
    ELSE CASE row.state = "VERIFIED" -> AfterVerdict(n)
           [] row.state \in {"BLOCKED", "VERIFYING"} ->
                [pc |-> "recover", n |-> n, state |-> row.state, token |-> row.token, old |-> row.old]
           [] row.state = "GENERATING" -> [pc |-> "generate", n |-> n]
           [] row.state = "GENERATED" -> [pc |-> "claim", n |-> n]

(* The frozen evidence is validated before the run's state, read earlier,  *)
(* is looked at, and then the attempts are read.                           *)
Validate(w) ==
    /\ tick[w].pc = "validate"
    /\ \/ Goto(w, IF tick[w].state # "ACTIVE" THEN Rest ELSE ForAttempt(Latest))
       \/ ~calm /\ Goto(w, [pc |-> "stale"])
    /\ UNCHANGED <<calm, rows, started, retried>>

AddAttempt(w) ==
    LET n == tick[w].n IN
    /\ tick[w].pc = "add"
    /\ attempt' = IF attempt[n].state # "ABSENT" THEN attempt
                  ELSE [attempt EXCEPT ![n].state = "GENERATING"]
    /\ Goto(w, Rest)
    /\ UNCHANGED <<calm, run, paid, report, started, retried>>

(***************************************************************************)
(* Generation: the patch of an attempt is paid for under one call key      *)
(***************************************************************************)

(* reserve, bind and claim of the inference ledger: a saved decision is    *)
(* used again, and a call that was claimed is not sent again.              *)
Generate(w) ==
    LET n == tick[w].n IN
    /\ tick[w].pc = "generate"
    /\ paid' = IF paid[n] = "NONE" THEN [paid EXCEPT ![n] = "SENT"] ELSE paid
    /\ Goto(w, CASE paid[n] = "NONE" -> [pc |-> "answer", n |-> n]
                 [] paid[n] = "SAVED" -> [pc |-> "patch", n |-> n]
                 [] OTHER -> Rest)
    /\ UNCHANGED <<calm, run, attempt, report, started, retried>>

(* A valid proposal is saved with its cost; any other answer, or none,     *)
(* leaves the call as good as sent: without a decision for ever.           *)
Answer(w) ==
    LET n == tick[w].n IN
    /\ tick[w].pc = "answer"
    /\ \/ paid' = [paid EXCEPT ![n] = "SAVED"] /\ Goto(w, [pc |-> "patch", n |-> n])
       \/ UNCHANGED paid /\ Goto(w, Rest)
    /\ UNCHANGED <<calm, run, attempt, report, started, retried>>

(* The task and the evidence are checked again, the patch is stored, and   *)
(* the attempt takes it if it still waits for one.                         *)
StorePatch(w) ==
    LET n == tick[w].n IN
    /\ tick[w].pc = "patch"
    /\ attempt' = IF attempt[n].state = "GENERATING"
                  THEN [attempt EXCEPT ![n].state = "GENERATED"] ELSE attempt
    /\ Goto(w, Rest)
    /\ UNCHANGED <<calm, run, paid, report, started, retried>>

(***************************************************************************)
(* Verification: who claims an attempt starts its containers               *)
(***************************************************************************)
(* Faulty: a verification under way is taken over.                         *)
ClaimableAgain(n) == attempt[n].state \in {"GENERATED", "VERIFYING"} /\ attempt[n].claims < MaxVerify
Claimable(n) == attempt[n].state = "GENERATED" /\ attempt[n].claims < MaxVerify

Claim(w) ==
    LET n == tick[w].n
        token == attempt[n].claims + 1
    IN
    /\ tick[w].pc = "claim"
    /\ IF Claimable(n)
       THEN /\ attempt' = [attempt EXCEPT ![n] = [@ EXCEPT !.state = "VERIFYING", !.token = token,
                                                          !.claims = token, !.old = FALSE]]
            /\ Goto(w, [pc |-> "launch", n |-> n, token |-> token])
       ELSE Goto(w, Rest) /\ UNCHANGED attempt
    /\ UNCHANGED <<calm, run, paid, report, started, retried>>

(* VerificationRunner.run up to the baseline's container: the task, the    *)
(* oracle's digest and the patch's are checked before it.                  *)
Launch(w) ==
    /\ tick[w].pc = "launch"
    /\ started' = [started EXCEPT ![<<tick[w].n, tick[w].token>>] = @ + 1]
    /\ Goto(w, [tick[w] EXCEPT !.pc = "compare"])
    /\ UNCHANGED <<calm, rows, retried>>

(* The candidate's container, and the report over both of them.            *)
Compare(w) ==
    LET n == tick[w].n
        token == tick[w].token
    IN
    /\ tick[w].pc = "compare"
    /\ \E outcome \in Verdict :
          /\ report' = [report EXCEPT ![<<n, token>>] = outcome]
          /\ Goto(w, [pc |-> "verified", n |-> n, token |-> token, outcome |-> outcome, launched |-> TRUE])
    /\ UNCHANGED <<calm, run, attempt, paid, started, retried>>

(* A check of the runner refuses, the oracle changed, the patch does not   *)
(* fit, docker cannot be started; or, with the report stored, it may not   *)
(* be read, or the transaction that takes it is chosen to end a deadlock   *)
(* (retry_verification locks the task before the attempt, the tick after   *)
(* it).                                                                    *)
VerificationRaises(w) ==
    /\ ~calm
    /\ tick[w].pc \in {"launch", "compare", "verified"}
    /\ Goto(w, IF tick[w].pc = "verified" /\ ~tick[w].launched THEN Rest
               ELSE [pc |-> "interrupt", n |-> tick[w].n, token |-> tick[w].token])
    /\ UNCHANGED <<calm, rows, started, retried>>

(* Faulty: the attempt is known by its ordinal alone.                      *)
HoldsAny(row, token) == row.state = "VERIFYING"
Holds(row, token) == row.state = "VERIFYING" /\ row.token = token

(* Faulty: the outcome is written and the state is not.                    *)
BlockedByOutcome(n, token) ==
    IF Holds(attempt[n], token) THEN [attempt EXCEPT ![n].outcome = "VERIFICATION_INTERRUPTED"]
    ELSE attempt
Blocked(n, token) ==
    IF Holds(attempt[n], token)
    THEN [attempt EXCEPT ![n] = [@ EXCEPT !.state = "BLOCKED", !.outcome = "VERIFICATION_INTERRUPTED"]]
    ELSE attempt

Interrupt(w) ==
    /\ tick[w].pc = "interrupt"
    /\ attempt' = Blocked(tick[w].n, tick[w].token)
    /\ Goto(w, Rest)
    /\ UNCHANGED <<calm, run, paid, report, started, retried>>

(* A verification that another tick began: its report is looked for.  A    *)
(* BLOCKED attempt goes back to VERIFYING for it; without a report, a      *)
(* VERIFYING one is blocked when it is overdue.                            *)
Recover(w) ==
    LET n == tick[w].n
        token == tick[w].token
        found == report[<<n, token>>]
        stillBlocked == attempt[n].state = "BLOCKED" /\ attempt[n].token = token
        take == [pc |-> "verified", n |-> n, token |-> token, outcome |-> found, launched |-> FALSE]
    IN
    /\ tick[w].pc = "recover"
    /\ IF tick[w].state = "BLOCKED"
       THEN IF found # "NONE" /\ stillBlocked
            THEN attempt' = [attempt EXCEPT ![n].state = "VERIFYING"] /\ Goto(w, take)
            ELSE Goto(w, Rest) /\ UNCHANGED attempt
       ELSE IF found # "NONE"
            THEN Goto(w, take) /\ UNCHANGED attempt
            ELSE Goto(w, Rest) /\ attempt' = IF tick[w].old THEN Blocked(n, token) ELSE attempt
    /\ UNCHANGED <<calm, run, paid, report, started, retried>>

(* The receipt agrees with the snapshot, and the attempt takes it if it is *)
(* still verified under this token.                                        *)
Verified(w) ==
    LET n == tick[w].n
        outcome == tick[w].outcome
    IN
    /\ tick[w].pc = "verified"
    /\ IF Holds(attempt[n], tick[w].token)
       THEN /\ attempt' = [attempt EXCEPT ![n] = [@ EXCEPT !.state = "VERIFIED", !.outcome = outcome]]
            /\ Goto(w, IF outcome = "CANDIDATE_FAILED" THEN Rest ELSE Ending(Conclusion(outcome)))
       ELSE Goto(w, Rest) /\ UNCHANGED attempt
    /\ UNCHANGED <<calm, run, paid, report, started, retried>>

(* Faulty: the run's end is written over what the run is by then.          *)
EndAnyway(w) ==
    /\ tick[w].pc = "end"
    /\ run' = tick[w].state
    /\ Goto(w, Rest)
    /\ UNCHANGED <<calm, attempt, paid, report, started, retried>>
End(w) ==
    /\ tick[w].pc = "end"
    /\ run' = IF run = "ACTIVE" THEN tick[w].state ELSE run
    /\ Goto(w, Rest)
    /\ UNCHANGED <<calm, attempt, paid, report, started, retried>>

(* The process dies, or a call raises what nobody handles.                 *)
Crash(w) ==
    /\ tick[w] # Rest /\ ~calm
    /\ Goto(w, Rest)
    /\ UNCHANGED <<calm, rows, started, retried>>

(***************************************************************************)
(* People and time                                                         *)
(***************************************************************************)
Retryable(n) ==
    /\ attempt[n].state = "BLOCKED" /\ attempt[n].outcome = "VERIFICATION_INTERRUPTED"
    /\ attempt[n].claims < MaxVerify

(* retry_verification, by an operator.                                     *)
Retry(n) ==
    /\ run = "ACTIVE" /\ Retryable(n)
    /\ attempt' = [attempt EXCEPT ![n] = [@ EXCEPT !.state = "GENERATED", !.outcome = "NONE",
                                                  !.token = 0, !.old = FALSE]]
    /\ retried' = [retried EXCEPT ![n] = @ + 1]
    /\ UNCHANGED <<calm, run, paid, report, started, tick>>

Age(n) ==
    /\ attempt[n].state = "VERIFYING" /\ ~attempt[n].old
    /\ attempt' = [attempt EXCEPT ![n].old = TRUE]
    /\ UNCHANGED <<calm, run, paid, report, started, retried, tick>>

Calm ==
    /\ ~calm /\ calm' = TRUE
    /\ UNCHANGED <<rows, started, retried, tick>>

TickStep(w) ==
    \/ Begin(w) \/ CreateRun(w) \/ Drift(w) \/ Stale(w) \/ Validate(w) \/ AddAttempt(w)
    \/ Generate(w) \/ Answer(w) \/ StorePatch(w)
    \/ Claim(w) \/ Launch(w) \/ Compare(w) \/ Interrupt(w) \/ Recover(w) \/ Verified(w) \/ End(w)

Fault(w) == Refuse(w) \/ VerificationRaises(w) \/ Crash(w)

Next ==
    \/ \E w \in Worker : TickStep(w) \/ Fault(w)
    \/ \E n \in Ordinal : Retry(n) \/ Age(n)

Spec == Init /\ [][Next]_vars

(* In a calm world a tick that has begun goes on, the workflow begins one  *)
(* after another, and time passes.                                         *)
FairSpec ==
    /\ Init /\ [][Next \/ Calm]_vars
    /\ \A w \in Worker : WF_vars(TickStep(w))
    /\ \A n \in Ordinal : WF_vars(Age(n))

(***************************************************************************)
(* Properties                                                              *)
(***************************************************************************)
TypeOK ==
    /\ calm \in BOOLEAN
    /\ run \in RunState
    /\ attempt \in [Ordinal -> Attempt]
    /\ paid \in [Ordinal -> {"NONE", "SENT", "SAVED"}]
    /\ report \in [Token -> Verdict \cup {"NONE"}]
    /\ started \in [Token -> Nat]
    /\ retried \in [Ordinal -> Nat]
    /\ tick \in [Worker -> Tick]

Launches(n) == {token \in Number : started[<<n, token>>] > 0}

(* Containers are started once for a token, and never again for an         *)
(* attempt unless an operator asked: not by a crash, a second tick, an     *)
(* expiry, or a report that comes late.                                    *)
NoAutomaticRelaunch ==
    \A n \in Ordinal :
        /\ \A token \in Number : started[<<n, token>>] <= 1
        /\ Cardinality(Launches(n)) <= 1 + retried[n]

(* A run ends as its attempts did: each verdict is what the report of the  *)
(* attempt's own token says, a later attempt is made only after a failed   *)
(* one, and the end follows from the last.                                 *)
EndIsEarned ==
    /\ \A n \in Ordinal :
          /\ attempt[n].state = "VERIFIED" =>
                attempt[n].token # 0 /\ report[<<n, attempt[n].token>>] = attempt[n].outcome
          /\ n > 1 /\ attempt[n].state # "ABSENT" =>
                attempt[n - 1].state = "VERIFIED" /\ attempt[n - 1].outcome = "CANDIDATE_FAILED"
    /\ run \in RunEnd =>
          /\ attempt[Latest].state = "VERIFIED"
          /\ run = IF attempt[Latest].outcome = "CANDIDATE_FAILED"
                   THEN "REPAIR_EXHAUSTED" ELSE Conclusion(attempt[Latest].outcome)
          /\ run = "REPAIR_EXHAUSTED" => Latest = MaxAttempts

(* What a verification decided stays, whatever reports come after it; a    *)
(* run that has stopped does not go on, and a late end does not hide that  *)
(* its input changed; and no tick, however old what it read, pays for      *)
(* another patch of a run that has ended.                                  *)
StopsForGood ==
    [][/\ \A n \in Ordinal : attempt[n].state = "VERIFIED" => attempt'[n] = attempt[n]
       /\ run \in Stopped => run' \in {run} \cup (Stopped \ RunEnd)
       /\ run \in RunEnd => \A n \in Ordinal : paid[n] = "NONE" => paid'[n] = "NONE"]_vars

(* The repair has come to rest: its run has stopped, or an operator or a   *)
(* new task must take it further.                                          *)
Settled ==
    \/ run \in Stopped
    \/ Latest # 0 /\ attempt[Latest].state = "BLOCKED" /\ report[<<Latest, attempt[Latest].token>>] = "NONE"
    \/ Latest # 0 /\ attempt[Latest].state = "GENERATING" /\ paid[Latest] = "SENT"

(* Left alone, a repair comes to rest: no verification is pending for      *)
(* ever, no stored report is overlooked, no attempt waits for a tick that  *)
(* will not take it.                                                       *)
RepairSettles == calm ~> []Settled
=============================================================================
