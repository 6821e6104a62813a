---------------------------- MODULE ActionLedger ----------------------------
(***************************************************************************)
(* The durable action ledger of one task: the rows the Service reads and   *)
(* writes (Task, Operation, Approval), the remote authority it dispatches  *)
(* to, and the threads that are between two of its transactions.           *)
(*                                                                         *)
(* One action is one `with db.session()` block: PostgreSQL holds the row   *)
(* locks that tenant_get(lock=True) takes until the block commits, and an  *)
(* exception rolls the block back, so a refused call is a stuttering step. *)
(* A thread that leaves execute's or reconcile's first block is in `call`  *)
(* until it commits _record, and may stop for ever at any point.           *)
(* A definition whose comment says "Faulty" is no part of Spec: it is a    *)
(* plausible bug in the definition below it, that some property excludes.  *)
(* The task's version is left out: under the row lock its compare-and-swap *)
(* fails only for a stale client, whose call changes nothing.              *)
(***************************************************************************)
EXTENDS Naturals

CONSTANTS
    Op,          \* operation identities that may be proposed for the task
    Protected,   \* those whose tool is in APPROVAL_TOOLS
    Executor,    \* threads that call execute (worker ticks, CLI ticks)
    Reconciler,  \* threads of the background reconcile loop
    Gate         \* the external conditions that may close, a part of AllGates

(* The conditions checked at dispatch beside the task row itself.          *)
ExecutableGates == {"RELEASE", "DEADLINE", "GRANT", "EMERGENCY_STOP"}
ResumeGates == {"DEADLINE", "GRANT", "EMERGENCY_STOP"}
DispatchGates == ExecutableGates \cup {"TOOL_DISABLED"}
AllGates == DispatchGates \cup {"APPROVER_GRANT"}

ASSUME LedgerAssumption ==
    /\ Protected \subseteq Op
    /\ Gate \subseteq AllGates

VARIABLES
    task,      \* the Task row
    op,        \* the Operation rows; "ABSENT" is no row yet
    approval,  \* the Approval rows
    remote,    \* the authority: requests received, and whether a receipt exists
    verified,  \* a "verification" artifact is stored for the task
    closed,    \* the gates that refuse at present
    call       \* what each thread is doing between two transactions

vars == <<task, op, approval, remote, verified, closed, call>>

Thread == Executor \cup Reconciler

(***************************************************************************)
(* Types.                                                                  *)
(***************************************************************************)
TaskStatus == {"QUEUED", "RUNNING", "WAITING", "CANCELLING", "TERMINATED"}
Reason == {"NONE", "APPROVAL", "RECONCILIATION", "HUMAN_TAKEOVER", "MANUAL_REVIEW",
           "BLOCKED"}  \* the code of the error that stopped a worker tick
Result == {"NONE", "SUCCESS", "FAILED", "CANCELLED"}
OpStatus == {"ABSENT", "NOT_SUBMITTED", "PENDING", "UNKNOWN", "SUCCEEDED", "FAILED"}
Recovery == {"NONE", "RECONCILING", "MANUAL_REVIEW"}
ApprovalStatus == {"NONE", "PENDING", "APPROVED", "REJECTED"}
(* UNVERIFIED is a receipt that is not a dict with confirmed = True and an *)
(* external_id.                                                            *)
Outcome == {"SUCCEEDED", "UNVERIFIED", "FAILED", "UNKNOWN"}

Idle == [pc |-> "idle"]
Sending(o) == [pc |-> "sending", op |-> o]
Querying(o) == [pc |-> "querying", op |-> o]
Executed(o, out) == [pc |-> "executed", op |-> o, out |-> out]
Queried(o, out) == [pc |-> "queried", op |-> o, out |-> out]
Call == {Idle} \cup [pc : {"sending", "querying"}, op : Op]
               \cup [pc : {"executed", "queried"}, op : Op, out : Outcome]

TaskRow == [status : TaskStatus, reason : Reason, result : Result,
            cancelled : BOOLEAN, takenOver : BOOLEAN]
OpRow == [status : OpStatus, attempts : Nat, recovery : Recovery, old : BOOLEAN]
ApprovalRow == [status : ApprovalStatus, expired : BOOLEAN]
Authority == [requests : Nat, receipt : BOOLEAN]

TypeOK ==
    /\ task \in TaskRow
    /\ op \in [Op -> OpRow]
    /\ approval \in [Op -> ApprovalRow]
    /\ remote \in [Op -> Authority]
    /\ verified \in BOOLEAN
    /\ closed \subseteq Gate
    /\ call \in [Thread -> Call]

Init ==
    /\ task = [status |-> "QUEUED", reason |-> "NONE", result |-> "NONE",
               cancelled |-> FALSE, takenOver |-> FALSE]
    /\ op = [o \in Op |-> [status |-> "ABSENT", attempts |-> 0, recovery |-> "NONE", old |-> FALSE]]
    /\ approval = [o \in Op |-> [status |-> "NONE", expired |-> FALSE]]
    /\ remote = [o \in Op |-> [requests |-> 0, receipt |-> FALSE]]
    /\ verified = FALSE
    /\ closed = {}
    /\ call = [t \in Thread |-> Idle]

(***************************************************************************)
(* What the ledger's handlers test.                                        *)
(***************************************************************************)
Terminated == task.status = "TERMINATED"

(* Faulty: a stopped or a finished task is taken for a live one.           *)
LiveUnlessStopped == ~task.cancelled /\ ~task.takenOver
LiveUnlessCancelled == ~task.cancelled /\ ~Terminated
Live == ~task.cancelled /\ ~task.takenOver /\ ~Terminated

(* Faulty: a dispatch under way counts as resolved.                        *)
UnresolvedOnlyUnknown(o) == op[o].status = "UNKNOWN"
Unresolved(o) == op[o].status \in {"PENDING", "UNKNOWN"}
Open(gates) == closed \cap gates = {}
Waiting(reason) == [task EXCEPT !.status = "WAITING", !.reason = reason]

(* Faulty: nobody clears the status of a task that waited for approval.    *)
ExecutableUnlessWaiting == Live /\ Open(ExecutableGates) /\ task.status # "WAITING"
Executable == Live /\ Open(ExecutableGates)

(* Faulty: a request that nobody has decided yet passes.                   *)
ApprovalNotRejected(o) == approval[o].status # "REJECTED" /\ ~approval[o].expired
ApprovalValid(o) == approval[o].status = "APPROVED" /\ ~approval[o].expired

(***************************************************************************)
(* Control of the task by its owner and the operators.                     *)
(***************************************************************************)
Stop(takeover) ==
    /\ ~Terminated /\ ~task.cancelled /\ ~(task.takenOver /\ takeover)
    /\ task' = [task EXCEPT
                  !.cancelled = ~takeover,
                  !.takenOver = takeover,
                  !.status = IF takeover THEN "WAITING" ELSE "CANCELLING",
                  !.reason = IF takeover THEN "HUMAN_TAKEOVER" ELSE "RECONCILIATION"]
    /\ UNCHANGED <<op, approval, remote, verified, closed, call>>

Resume ==
    /\ ~task.cancelled /\ ~Terminated /\ task.takenOver
    /\ Open(ResumeGates)
    /\ task' = [task EXCEPT !.takenOver = FALSE, !.status = "QUEUED", !.reason = "NONE"]
    /\ UNCHANGED <<op, approval, remote, verified, closed, call>>

Propose(o) ==
    /\ Executable
    /\ op[o].status = "ABSENT"
    /\ op' = [op EXCEPT ![o].status = "NOT_SUBMITTED"]
    /\ IF o \in Protected
         THEN /\ approval' = [approval EXCEPT ![o].status = "PENDING"]
              /\ task' = Waiting("APPROVAL")
         ELSE UNCHANGED <<approval, task>>
    /\ UNCHANGED <<remote, verified, closed, call>>

(* decide reads the task without a lock and writes the approval alone, so  *)
(* one that overlaps a Stop is ordered before it.                          *)
Decide(o, decision) ==
    /\ approval[o].status = "PENDING" /\ ~approval[o].expired
    /\ ~task.cancelled /\ ~task.takenOver
    /\ approval' = [approval EXCEPT ![o].status = decision]
    /\ UNCHANGED <<task, op, remote, verified, closed, call>>

(* ArtifactStore.put of the evidence that _finish asks for.                *)
PutVerification ==
    /\ ~verified
    /\ verified' = TRUE
    /\ UNCHANGED <<task, op, approval, remote, closed, call>>

(***************************************************************************)
(* _finish: a task with unresolved operations waits for reconciliation,    *)
(* and otherwise terminates with the result its ledger shows.              *)
(***************************************************************************)
(* Faulty: the failure decides first.                                      *)
FinishResultFailureFirst ==
    IF \E o \in Op : op[o].status = "FAILED" THEN "FAILED"
    ELSE IF task.cancelled THEN "CANCELLED" ELSE "SUCCESS"

FinishResult ==
    IF task.cancelled THEN "CANCELLED"
    ELSE IF \E o \in Op : op[o].status = "FAILED" THEN "FAILED" ELSE "SUCCESS"

FinishWaits ==
    /\ ~task.takenOver
    /\ \E o \in Op : Unresolved(o)
    /\ task' = Waiting("RECONCILIATION")

FinishTerminates ==
    /\ ~task.takenOver
    /\ \A o \in Op : ~Unresolved(o)
    /\ task.cancelled \/ \A o \in Op : op[o].status # "NOT_SUBMITTED"
    /\ ~Terminated
    /\ FinishResult = "SUCCESS" => verified
    /\ task' = [task EXCEPT !.status = "TERMINATED", !.result = FinishResult, !.reason = "NONE"]

Finish ==
    /\ FinishWaits \/ FinishTerminates
    /\ UNCHANGED <<op, approval, remote, verified, closed, call>>

(***************************************************************************)
(* execute: the dispatch intent commits before the request leaves.         *)
(***************************************************************************)
(* The claim's WHERE clause.  Faulty: an uncertain dispatch is tried again.*)
DispatchableAgain(o) == op[o].status \in {"NOT_SUBMITTED", "UNKNOWN"}
Dispatchable(o) == op[o].status = "NOT_SUBMITTED"

ClaimDispatch(t, o) ==
    /\ call[t] = Idle
    /\ Dispatchable(o)
    /\ Executable
    /\ Open(DispatchGates)
    /\ o \in Protected => ApprovalValid(o) /\ Open({"APPROVER_GRANT"})
    /\ op' = [op EXCEPT ![o] = [@ EXCEPT !.status = "PENDING", !.attempts = op[o].attempts + 1, !.old = FALSE]]
    /\ task' = [task EXCEPT !.status = "RUNNING", !.reason = "NONE"]
    /\ call' = [call EXCEPT ![t] = Sending(o)]
    /\ UNCHANGED <<approval, remote, verified, closed>>

(* The authority commits effect and receipt together; the answer may be    *)
(* the receipt, a receipt without confirmation, or lost.                   *)
RemoteCommits(t, o) ==
    /\ remote' = [remote EXCEPT ![o] = [requests |-> @.requests + 1, receipt |-> TRUE]]
    /\ \E out \in {"SUCCEEDED", "UNVERIFIED", "UNKNOWN"} :
         call' = [call EXCEPT ![t] = Executed(o, out)]

(* ConfirmedFailure: refused with no effect, which a receipt rules out.    *)
RemoteRejects(t, o) ==
    /\ ~remote[o].receipt
    /\ remote' = [remote EXCEPT ![o].requests = @ + 1]
    /\ call' = [call EXCEPT ![t] = Executed(o, "FAILED")]

(* Any other exception: the request had no effect but nobody can tell.     *)
RemoteUnreachable(t, o) ==
    /\ remote' = [remote EXCEPT ![o].requests = @ + 1]
    /\ call' = [call EXCEPT ![t] = Executed(o, "UNKNOWN")]

RemoteExecute(t, o) ==
    /\ call[t] = Sending(o)
    /\ RemoteCommits(t, o) \/ RemoteRejects(t, o) \/ RemoteUnreachable(t, o)
    /\ UNCHANGED <<task, op, approval, verified, closed>>

(***************************************************************************)
(* reconcile: read the row, ask the authority, record the answer.          *)
(***************************************************************************)
StartReconcile(t, o) ==
    /\ call[t] = Idle
    /\ Unresolved(o)
    /\ call' = [call EXCEPT ![t] = Querying(o)]
    /\ UNCHANGED <<task, op, approval, remote, verified, closed>>

(* A receipt, when there is one and it is not hidden, and else None.       *)
QueryFinds(t, o) ==
    /\ call[t] = Querying(o)
    /\ remote[o].receipt
    /\ call' = [call EXCEPT ![t] = Queried(o, "SUCCEEDED")]
    /\ UNCHANGED <<task, op, approval, remote, verified, closed>>

QueryUncertain(t, o) ==
    /\ call[t] = Querying(o)
    /\ \E out \in {"UNKNOWN", "UNVERIFIED"} : call' = [call EXCEPT ![t] = Queried(o, out)]
    /\ UNCHANGED <<task, op, approval, remote, verified, closed>>

(***************************************************************************)
(* _record: SUCCEEDED is absorbing, FAILED yields only to SUCCEEDED, and   *)
(* a repeated UNKNOWN keeps the first uncertainty's timestamp.             *)
(***************************************************************************)
(* Faulty: uncertainty is guessed to be a failure.                         *)
VerdictGuessing(out) == IF out \in {"UNVERIFIED", "UNKNOWN"} THEN "FAILED" ELSE out
Verdict(out) == IF out = "UNVERIFIED" THEN "UNKNOWN" ELSE out

(* Faulty: a late UNKNOWN replaces a failure; or UNKNOWN absorbs.          *)
RecordIgnoredLate(o, status) ==
    \/ op[o].status = "SUCCEEDED"
    \/ op[o].status = "UNKNOWN" /\ status = "UNKNOWN"
RecordIgnoredUnknown(o, status) ==
    op[o].status \in {"SUCCEEDED", "UNKNOWN"} \/ (op[o].status = "FAILED" /\ status # "SUCCEEDED")

RecordIgnored(o, status) ==
    \/ op[o].status = "SUCCEEDED"
    \/ op[o].status = "FAILED" /\ status # "SUCCEEDED"
    \/ op[o].status = "UNKNOWN" /\ status = "UNKNOWN"

OldAfter(o, status) == IF status = "UNKNOWN" THEN op[o].old ELSE FALSE

RecordStatus(o, status) ==
    /\ op' = [op EXCEPT ![o] = [@ EXCEPT
                     !.status = status,
                     !.recovery = IF status = "UNKNOWN" THEN "RECONCILING" ELSE "NONE",
                     !.old = OldAfter(o, status)]]
    /\ task' = IF status = "UNKNOWN" /\ Live THEN Waiting("RECONCILIATION") ELSE task

(* Faulty: each answer touches updated_at, so that polls put off its age.  *)
RecordTouching(o, status) ==
    IF RecordIgnored(o, status) THEN op' = [op EXCEPT ![o].old = FALSE] /\ UNCHANGED task
    ELSE RecordStatus(o, status)

Record(o, status) ==
    IF RecordIgnored(o, status) THEN UNCHANGED <<op, task>> ELSE RecordStatus(o, status)

RecordOutcome(t, o) ==
    /\ \E out \in Outcome :
         /\ call[t] \in {Executed(o, out), Queried(o, out)}
         /\ Record(o, Verdict(out))
    /\ call' = [call EXCEPT ![t] = Idle]
    /\ UNCHANGED <<approval, remote, verified, closed>>

(* updated_at is 15 minutes old and the operation is still unresolved.     *)
EscalateUncertain(o) ==
    /\ Unresolved(o) /\ op[o].old /\ op[o].recovery # "MANUAL_REVIEW"
    /\ op' = [op EXCEPT ![o].recovery = "MANUAL_REVIEW"]
    /\ task' = IF Live THEN Waiting("MANUAL_REVIEW") ELSE task
    /\ UNCHANGED <<approval, remote, verified, closed, call>>

(***************************************************************************)
(* The environment: threads die or their calls raise, time passes, and     *)
(* policy, grants and the release change.  A deadline never reopens.       *)
(***************************************************************************)
Crash(t) ==
    /\ call[t] # Idle
    /\ call' = [call EXCEPT ![t] = Idle]
    /\ UNCHANGED <<task, op, approval, remote, verified, closed>>

Age(o) ==
    /\ Unresolved(o) /\ ~op[o].old
    /\ op' = [op EXCEPT ![o].old = TRUE]
    /\ UNCHANGED <<task, approval, remote, verified, closed, call>>

Expire(o) ==
    /\ approval[o].status # "NONE" /\ ~approval[o].expired
    /\ approval' = [approval EXCEPT ![o].expired = TRUE]
    /\ UNCHANGED <<task, op, remote, verified, closed, call>>

Environment ==
    /\ \E g \in Gate :
         \/ closed' = closed \cup {g}
         \/ g # "DEADLINE" /\ closed' = closed \ {g}
    /\ UNCHANGED <<task, op, approval, remote, verified, call>>

(***************************************************************************)
(* The specification.                                                      *)
(***************************************************************************)
Control ==
    \/ \E takeover \in BOOLEAN : Stop(takeover)
    \/ Resume
    \/ PutVerification
    \/ Finish
    \/ \E o \in Op :
         \/ Propose(o)
         \/ \E decision \in {"APPROVED", "REJECTED"} : Decide(o, decision)

Step(t, o) ==
    \/ RemoteExecute(t, o)
    \/ StartReconcile(t, o)
    \/ QueryFinds(t, o)
    \/ QueryUncertain(t, o)
    \/ RecordOutcome(t, o)

Next ==
    \/ Control
    \/ \E t \in Executor, o \in Op : ClaimDispatch(t, o)
    \/ \E t \in Thread, o \in Op : Step(t, o)
    \/ \E t \in Thread : Crash(t)
    \/ \E o \in Op : EscalateUncertain(o) \/ Age(o) \/ Expire(o)
    \/ Environment

Spec == Init /\ [][Next]_vars

(* The dispatcher's loop calls reconcile and escalate_uncertain for every  *)
(* unresolved operation again and again and survives their exceptions, so  *)
(* it starts over after each crash (weak fairness of the start).  The      *)
(* authority shows a receipt at last and not every attempt dies between    *)
(* its answer and _record (strong fairness of these two).  Time passes.    *)
(* Nothing is assumed of executors, people or policy.                      *)
RecordsReceipt(t, o) == call[t] = Queried(o, "SUCCEEDED") /\ RecordOutcome(t, o)

Fairness ==
    /\ \A o \in Op :
         /\ WF_vars(Age(o))
         /\ WF_vars(EscalateUncertain(o))
         /\ \A t \in Reconciler :
              /\ SF_vars(StartReconcile(t, o))
              /\ SF_vars(QueryFinds(t, o))
              /\ SF_vars(RecordsReceipt(t, o))
    /\ \A t \in Reconciler : WF_vars(\E o \in Op : Step(t, o))

FairSpec == Spec /\ Fairness

(***************************************************************************)
(* Properties.                                                             *)
(***************************************************************************)

(* However many threads call execute on an operation, before or after a    *)
(* crash or a lost answer, the authority receives at most one request for  *)
(* it (execute's claim, service.py:435-448).                               *)
AtMostOneRequest == \A o \in Op : remote[o].requests <= 1

(* The ledger says SUCCEEDED only of an operation whose effect the         *)
(* authority really holds (_record's receipt check, service.py:464-470).   *)
SuccessHasReceipt == \A o \in Op : op[o].status = "SUCCEEDED" => remote[o].receipt

(* ADR-002, UNKNOWN rather than a guessed failure: an operation is FAILED  *)
(* only when it has no effect and no request of it is still under way, so  *)
(* that it can never have one.                                             *)
FailureHasNoEffect ==
    \A o \in Op : op[o].status = "FAILED" =>
        /\ ~remote[o].receipt
        /\ \A t \in Thread : call[t] # Sending(o)

(* Each verdict is true of the outside world and stays so, whichever of    *)
(* dispatch, queries, lost answers and receipts without confirmation came  *)
(* to it first (service.py:464-513).                                       *)
VerdictIsTrue == SuccessHasReceipt /\ FailureHasNoEffect

(* A protected operation that was ever dispatched has an approval, and the *)
(* decision that allowed it is never withdrawn under it.                   *)
DispatchedWasApproved ==
    \A o \in Protected : op[o].attempts > 0 => approval[o].status = "APPROVED"

(* A terminated task is quiet: no operation of it is unresolved, and no    *)
(* thread is about to send a request for it.                               *)
TerminatedIsQuiet ==
    Terminated =>
        /\ \A o \in Op : ~Unresolved(o)
        /\ \A t \in Thread, o \in Op : call[t] # Sending(o)

(* The result shown for a task is what its ledger supports: SUCCESS only   *)
(* if every proposed operation has its effect, FAILED only with a failed   *)
(* operation, CANCELLED exactly for a cancelled task.                      *)
ResultIsTrue ==
    Terminated =>
        /\ task.result # "NONE"
        /\ task.cancelled <=> task.result = "CANCELLED"
        /\ task.result = "SUCCESS" =>
             verified /\ \A o \in Op : op[o].status = "ABSENT" \/ remote[o].receipt
        /\ task.result = "FAILED" => \E o \in Op : op[o].status = "FAILED"

(* Nothing that a late thread, reconciler, escalation or person does       *)
(* changes a terminated task, its operations or the outside world.         *)
TerminatedIsFinal == [][Terminated => UNCHANGED <<task, op, remote>>]_vars

(* A settled operation is settled: neither a late UNKNOWN nor a late       *)
(* failure replaces a verdict, whatever the order of the answers.          *)
SettledIsFinal ==
    [][\A o \in Op : op[o].status \in {"SUCCEEDED", "FAILED"} =>
         op'[o].status = op[o].status]_vars

(* An operation whose outcome stays unknown is brought to a person: polls  *)
(* that keep answering "not yet" do not push its 15 minutes back.          *)
UncertaintyIsEscalated ==
    \A o \in Op : Unresolved(o) ~> (~Unresolved(o) \/ op[o].recovery = "MANUAL_REVIEW")

(* An effect the authority holds reaches the ledger, even if the thread    *)
(* that caused it died and every answer before was lost or late.           *)
EffectIsRecorded ==
    \A o \in Op : remote[o].receipt ~> op[o].status = "SUCCEEDED"

(* The ledger with its threads, lost answers, approvals and polls          *)
(* implements ActionPromise: readers may take a claim for attempts > 0, an *)
(* effect for a receipt, and the verdict and result from the two rows.     *)
Promise == INSTANCE ActionPromise WITH
    claimed <- {o \in Op : op[o].attempts > 0},
    effect <- {o \in Op : remote[o].receipt},
    verdict <- [o \in Op |-> IF op[o].status \in {"SUCCEEDED", "FAILED"}
                              THEN op[o].status ELSE "NONE"],
    result <- task.result

KeepsPromise == Promise!Spec

(***************************************************************************)
(* The inductive invariant that the proofs use: what a thread between two  *)
(* transactions knows, against the row and the authority.                  *)
(***************************************************************************)
AttemptsMatchStatus ==
    \A o \in Op : op[o].attempts = IF op[o].status \in {"ABSENT", "NOT_SUBMITTED"} THEN 0 ELSE 1

SenderOwnsOperation ==
    \A t \in Thread, o \in Op : call[t] = Sending(o) =>
        /\ Unresolved(o)
        /\ remote[o].requests = 0
        /\ \A u \in Thread : call[u] = Sending(o) => u = t

RequestWasClaimed ==
    \A o \in Op :
        /\ remote[o].requests <= op[o].attempts
        /\ remote[o].receipt => remote[o].requests = 1

AnswerIsTrue ==
    \A t \in Thread, o \in Op :
        /\ call[t] \in {Executed(o, "SUCCEEDED"), Queried(o, "SUCCEEDED")} => remote[o].receipt
        /\ call[t] = Executed(o, "FAILED") => ~remote[o].receipt /\ remote[o].requests = 1
        /\ call[t] # Queried(o, "FAILED")

BusyWasClaimed ==
    \A t \in Thread : call[t] # Idle => op[call[t].op].attempts = 1

SettledIsTrue ==
    \A o \in Op :
        /\ op[o].status = "SUCCEEDED" => remote[o].receipt
        /\ op[o].status = "FAILED" => ~remote[o].receipt /\ remote[o].requests = 1

TerminatedIsResolved == Terminated => \A o \in Op : ~Unresolved(o)

LedgerInv ==
    /\ TypeOK
    /\ AttemptsMatchStatus
    /\ BusyWasClaimed
    /\ SenderOwnsOperation
    /\ RequestWasClaimed
    /\ AnswerIsTrue
    /\ SettledIsTrue
    /\ DispatchedWasApproved
    /\ TerminatedIsResolved
=============================================================================
