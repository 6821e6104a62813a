--------------------------- MODULE SimulationTick ---------------------------
(***************************************************************************)
(* The workflow that drives a task: AgentWorkflow runs one agent_tick      *)
(* activity after another, and each SimulationHarness.tick carries the     *)
(* plan one action further, transaction by transaction, over the ledger    *)
(* that people and reconcilers change at the same time.  An operator may   *)
(* run the same tick from the command line beside the workflow's.          *)
(*                                                                         *)
(* A tick reads the task and its operations once and acts on what it read  *)
(* several transactions later.  Ageing and escalation are left to          *)
(* ActionLedger: a tick reads neither updated_at nor recovery_status.      *)
(***************************************************************************)
EXTENDS ActionLedger, Sequences

CONSTANTS
    Plan,        \* the harness's sequence of actions, by operation
    Worker,      \* the executors that run the workflow's activity
    MaxAttempts  \* RetryPolicy.maximum_attempts of the activity

ASSUME TickAssumption ==
    /\ Plan \in Seq(Op) /\ Plan # <<>>
    /\ \A i, j \in 1..Len(Plan) : Plan[i] = Plan[j] => i = j
    /\ Worker \subseteq Executor
    /\ MaxAttempts \in Nat \ {0}

VARIABLES
    tick,      \* where each executor is in harness.tick
    workflow,  \* the AgentWorkflow execution
    failures   \* attempts of the current activity that raised or timed out

tickVars == <<tick, workflow, failures>>
allVars == <<vars, tickVars>>

StepNo == 1..Len(Plan)
Rest == [pc |-> "rest"]
Reconciling(left, stopping) == [pc |-> "reconciling", left |-> left, stopping |-> stopping]
At(pc, i) == [pc |-> pc, step |-> i]
Doing(pc) == [pc |-> pc]
StepPlaces == {"step", "propose", "execute", "dispatched", "approval", "refuse"}
Tick == {Rest} \cup [pc : {"reconciling"}, left : SUBSET Op, stopping : BOOLEAN]
               \cup [pc : StepPlaces, step : StepNo]
               \cup [pc : {"finish", "verify", "complete", "block"}]

TickTypeOK ==
    /\ TypeOK
    /\ tick \in [Executor -> Tick]
    /\ workflow \in {"running", "done", "failed"}
    /\ failures \in 0..MaxAttempts

TickInit ==
    /\ Init
    /\ tick = [t \in Executor |-> Rest]
    /\ workflow = "running"
    /\ failures = 0

(***************************************************************************)
(* How a tick goes on and how it ends.                                     *)
(***************************************************************************)
In(t, pc) == tick[t].pc = pc /\ call[t] = Idle
Goto(t, where) == tick' = [tick EXCEPT ![t] = where] /\ UNCHANGED <<workflow, failures>>

(* The activity returns: the workflow ends if the result says done, and    *)
(* otherwise sleeps and starts the next activity.                          *)
Return(t, done) ==
    /\ tick' = [tick EXCEPT ![t] = Rest]
    /\ IF t \in Worker THEN /\ failures' = 0
                            /\ workflow' = IF done THEN "done" ELSE workflow
                       ELSE UNCHANGED <<workflow, failures>>

(* A DomainError: Activities._tick handles it, the command line does not.  *)
Raise(t) == Goto(t, IF t \in Worker THEN Doing("block") ELSE Rest)

(***************************************************************************)
(* The parts of a tick, in the order of harness.tick.                      *)
(***************************************************************************)
Begin(t) ==
    /\ In(t, "rest")
    /\ t \in Worker => workflow = "running" /\ \A u \in Worker : tick[u] = Rest
    /\ \/ Terminated /\ Return(t, TRUE)
       \/ /\ ~Terminated /\ ~task.takenOver
          /\ Goto(t, Reconciling({o \in Op : Unresolved(o)}, task.cancelled))
    /\ UNCHANGED vars

Reconcile(t) ==
    /\ In(t, "reconciling")
    /\ \E o \in tick[t].left :
         /\ Goto(t, [tick[t] EXCEPT !.left = @ \ {o}])
         /\ IF Unresolved(o) THEN StartReconcile(t, o) ELSE UNCHANGED vars

Query(t) ==
    /\ \E o \in Op : QueryFinds(t, o) \/ QueryUncertain(t, o)
    /\ UNCHANGED tickVars

Reconciled(t) ==
    /\ tick[t].pc = "reconciling"
    /\ \E o \in Op :
         /\ \E out \in Outcome : call[t] = Queried(o, out)
         /\ RecordOutcome(t, o)
         /\ IF op'[o].status = "UNKNOWN" THEN Return(t, FALSE) ELSE UNCHANGED tickVars

(* Faulty: a stopped task is treated like any other.                       *)
ResolvedIgnoringStop(t) ==
    /\ In(t, "reconciling") /\ tick[t].left = {}
    /\ \/ Executable /\ Goto(t, At("step", 1))
       \/ ~Executable /\ Raise(t)
    /\ UNCHANGED vars

(* Nothing left to reconcile: what the first transaction read decides.     *)
Resolved(t) ==
    /\ In(t, "reconciling") /\ tick[t].left = {}
    /\ \/ tick[t].stopping /\ Goto(t, Doing("finish"))
       \/ ~tick[t].stopping /\ Executable /\ Goto(t, At("step", 1))
       \/ ~tick[t].stopping /\ ~Executable /\ Raise(t)
    /\ UNCHANGED vars

AfterStep(i) == IF i = Len(Plan) THEN Doing("verify") ELSE At("step", i + 1)

(* Faulty: a step that was dispatched is taken for one that was done.      *)
AtStepDispatched(i) ==
    CASE op[Plan[i]].status \in {"SUCCEEDED", "PENDING"} -> AfterStep(i)
      [] op[Plan[i]].status = "FAILED" -> Doing("finish")
      [] op[Plan[i]].status = "ABSENT" -> At("propose", i)
      [] OTHER -> At("execute", i)

AtStep(i) ==
    CASE op[Plan[i]].status = "SUCCEEDED" -> AfterStep(i)
      [] op[Plan[i]].status = "FAILED" -> Doing("finish")
      [] op[Plan[i]].status = "ABSENT" -> At("propose", i)
      [] OTHER -> At("execute", i)

PlanStep(t) ==
    /\ In(t, "step")
    /\ Goto(t, AtStep(tick[t].step))
    /\ UNCHANGED vars

TickPropose(t) ==
    /\ In(t, "propose")
    /\ LET i == tick[t].step
       IN  \/ Propose(Plan[i]) /\ Goto(t, At("execute", i))
           \/ /\ Executable /\ op[Plan[i]].status # "ABSENT"  \* the row that is there
              /\ Goto(t, At("execute", i)) /\ UNCHANGED vars
           \/ ~Executable /\ Raise(t) /\ UNCHANGED vars

(* execute claims the dispatch, returns the row of an operation that was   *)
(* dispatched before, or raises; APPROVAL_REQUIRED the harness handles.    *)
TickExecute(t) ==
    /\ In(t, "execute")
    /\ LET i == tick[t].step
           o == Plan[i]
           approved == o \in Protected => ApprovalValid(o)
           allowed == Executable /\ Open(DispatchGates)
       IN  \/ ClaimDispatch(t, o) /\ Goto(t, At("dispatched", i))
           \/ op[o].status # "NOT_SUBMITTED" /\ Return(t, FALSE) /\ UNCHANGED vars
           \/ /\ op[o].status = "NOT_SUBMITTED" /\ allowed /\ ~approved
              /\ Goto(t, At("approval", i)) /\ UNCHANGED vars
           \/ /\ op[o].status = "NOT_SUBMITTED"
              /\ ~allowed \/ (approved /\ o \in Protected /\ ~Open({"APPROVER_GRANT"}))
              /\ Raise(t) /\ UNCHANGED vars

Send(t) ==
    /\ \E o \in Op : RemoteExecute(t, o)
    /\ UNCHANGED tickVars

Dispatched(t) ==
    /\ tick[t].pc = "dispatched"
    /\ \E out \in Outcome : call[t] = Executed(Plan[tick[t].step], out)
    /\ RecordOutcome(t, Plan[tick[t].step])
    /\ Return(t, FALSE)

(* A new transaction reads the approval again.                             *)
ReadApproval(t) ==
    /\ In(t, "approval")
    /\ LET i == tick[t].step
           a == approval[Plan[i]]
       IN  IF a.status = "REJECTED" \/ a.expired THEN Goto(t, At("refuse", i)) ELSE Return(t, FALSE)
    /\ UNCHANGED vars

(* _record(FAILED) of an action that was not approved in time.             *)
Refuse(t) ==
    /\ In(t, "refuse")
    /\ Record(Plan[tick[t].step], "FAILED")
    /\ Goto(t, Doing("finish"))
    /\ UNCHANGED <<approval, remote, verified, closed, call>>

(* _finish also returns without a change, or raises VERIFICATION_REQUIRED. *)
NothingUnresolved == \A o \in Op : ~Unresolved(o)
Undispatched == ~task.cancelled /\ \E o \in Op : op[o].status = "NOT_SUBMITTED"

FinishKeeps ==
    /\ task.takenOver \/ (NothingUnresolved /\ (Undispatched \/ Terminated))
    /\ UNCHANGED task

FinishRaises ==
    /\ ~task.takenOver /\ NothingUnresolved /\ ~Undispatched /\ ~Terminated
    /\ FinishResult = "SUCCESS" /\ ~verified
    /\ UNCHANGED task

(* A failed or cancelled task: done, whatever finish could do.             *)
TickFinish(t) ==
    /\ In(t, "finish")
    /\ \/ (FinishWaits \/ FinishTerminates \/ FinishKeeps) /\ Return(t, TRUE)
       \/ FinishRaises /\ Raise(t)
    /\ UNCHANGED <<op, approval, remote, verified, closed, call>>

(* The plan's last action, once in effect, makes the authority report a    *)
(* healthy resource; ArtifactStore.put is idempotent.                      *)
Verify(t) ==
    /\ In(t, "verify")
    /\ remote[Plan[Len(Plan)]].receipt
    /\ verified' = TRUE
    /\ Goto(t, Doing("complete"))
    /\ UNCHANGED <<task, op, approval, remote, closed, call>>

Complete(t) ==
    /\ In(t, "complete")
    /\ FinishWaits \/ FinishTerminates \/ FinishKeeps
    /\ Return(t, task'.status = "TERMINATED")
    /\ UNCHANGED <<op, approval, remote, verified, closed, call>>

Block(t) ==
    /\ In(t, "block")
    /\ task' = IF Live THEN Waiting("BLOCKED") ELSE task
    /\ Return(t, Terminated)
    /\ UNCHANGED <<op, approval, remote, verified, closed, call>>

(* The process dies, the activity times out or raises something else: it   *)
(* is attempted again, and after MaxAttempts the workflow has failed.      *)
TickCrash(t) ==
    /\ tick[t] # Rest
    /\ call' = [call EXCEPT ![t] = Idle]
    /\ tick' = [tick EXCEPT ![t] = Rest]
    /\ IF t \in Worker
         THEN /\ failures' = failures + 1
              /\ workflow' = IF failures' = MaxAttempts /\ workflow = "running" THEN "failed" ELSE workflow
         ELSE UNCHANGED <<failures, workflow>>
    /\ UNCHANGED <<task, op, approval, remote, verified, closed>>

(***************************************************************************)
(* The specification.                                                      *)
(***************************************************************************)
TickStep(t) ==
    \/ Begin(t) \/ Reconcile(t) \/ Query(t) \/ Reconciled(t) \/ Resolved(t)
    \/ PlanStep(t) \/ TickPropose(t) \/ TickExecute(t) \/ Send(t) \/ Dispatched(t)
    \/ ReadApproval(t) \/ Refuse(t) \/ TickFinish(t) \/ Verify(t) \/ Complete(t) \/ Block(t)

People ==
    \/ \E takeover \in BOOLEAN : Stop(takeover)
    \/ Resume
    \/ \E o \in Op : \/ Propose(o)
                     \/ \E decision \in {"APPROVED", "REJECTED"} : Decide(o, decision)

Background ==
    \/ \E t \in Reconciler : Crash(t) \/ \E o \in Op : Step(t, o)
    \/ \E o \in Op : Expire(o)
    \/ Environment

TickNext ==
    \/ (People \/ Background) /\ UNCHANGED tickVars
    \/ \E t \in Executor : TickStep(t) \/ TickCrash(t)

TickSpec == TickInit /\ [][TickNext]_allVars

(* Temporal starts an activity again and again while the workflow runs,    *)
(* and a tick that does not die goes on.  Nothing is assumed of people, of *)
(* ticks from the command line or of what the authority answers, except    *)
(* that a receipt it holds is shown and recorded at last (SF).             *)
TickFairness ==
    \A t \in Worker :
        /\ WF_allVars(TickStep(t))
        /\ \A o \in Op : /\ SF_allVars(QueryFinds(t, o) /\ UNCHANGED tickVars)
                         /\ SF_allVars(RecordsReceipt(t, o) /\ Reconciled(t))

FairTickSpec == TickSpec /\ TickFairness

(***************************************************************************)
(* Properties.                                                             *)
(***************************************************************************)

(* Side effects happen in the plan's order: the authority is asked for a   *)
(* step only when the step before it is known to have taken effect, even   *)
(* with two ticks at once and people proposing steps out of order; and     *)
(* SUCCESS means that the whole plan took effect, not only that whatever   *)
(* happened to be proposed did (harness.py:98-152 with _finish).           *)
PlanInOrder ==
    /\ \A i \in StepNo \ {1} :
         remote[Plan[i]].requests > 0 => op[Plan[i - 1]].status = "SUCCEEDED"
    /\ task.result = "SUCCESS" => \A i \in StepNo : remote[Plan[i]].receipt

(* A person's takeover or cancellation is not undone by a tick that read   *)
(* the task before it, by a blocked tick's handler or by a late answer:    *)
(* the row of a taken-over task stays as it is until a person changes it,  *)
(* and a cancelled one shows nothing but its reconciliation or its end.    *)
ControlIsKept ==
    [][/\ task.takenOver /\ task'.takenOver => task' = task
       /\ task.cancelled => task'.cancelled /\ task'.reason \in {"RECONCILIATION", "NONE"}]_allVars

(* A cancelled task does terminate, through whatever its ticks and the     *)
(* reconciler were doing, unless an action's outcome stays unknown or the  *)
(* workflow gave the task up.                                              *)
CancelledEnds ==
    task.cancelled ~>
        \/ Terminated \/ workflow # "running"
        \/ \E o \in Op : Unresolved(o) /\ ~remote[o].receipt

(* An approved action whose turn has come is taken: a tick that read the   *)
(* approval too early, crashed or was refused is followed by one that      *)
(* dispatches, unless somebody intervenes or the approval lapses.          *)
ApprovedActionIsTaken ==
    \A i \in StepNo :
        LET o == Plan[i]
        IN  /\ op[o].status = "NOT_SUBMITTED" /\ approval[o].status = "APPROVED"
            /\ \A j \in 1..(i - 1) : op[Plan[j]].status = "SUCCEEDED"
            ~>
            \/ op[o].status # "NOT_SUBMITTED" \/ approval[o].expired
            \/ ~Live \/ closed # {} \/ workflow # "running"

(***************************************************************************)
(* The inductive invariant that the proofs use.  It does not contain       *)
(* SettledIsTrue: Refuse may fail an operation whose request is under way. *)
(***************************************************************************)

(* Every action of the plan before the i-th has taken effect.              *)
Passed(i) == \A j \in 1..(i - 1) : op[Plan[j]].status = "SUCCEEDED"

(* What rows, threads and authority show was claimed, and is a receipt     *)
(* where they say so.                                                      *)
OnlyClaimed ==
    /\ \A o \in Op :
         /\ remote[o].requests > 0 => op[o].attempts > 0
         /\ op[o].status \in {"PENDING", "UNKNOWN", "SUCCEEDED"} => op[o].attempts > 0
    /\ \A t \in Thread : call[t] # Idle => op[call[t].op].attempts > 0

OnlyReceipts ==
    \A o \in Op :
        /\ op[o].status = "SUCCEEDED" => remote[o].receipt
        /\ \A t \in Thread :
             call[t] \in {Executed(o, "SUCCEEDED"), Queried(o, "SUCCEEDED")} => remote[o].receipt

CancelledShows ==
    task.cancelled => ~task.takenOver /\ task.reason \in {"RECONCILIATION", "NONE"}

(* One activity at a time, of a workflow that runs.                        *)
OneActivity ==
    /\ \A t \in Worker : tick[t] # Rest =>
         workflow = "running" /\ \A u \in Worker : tick[u] # Rest => u = t
    /\ workflow = "running" => failures < MaxAttempts

(* A tick is at a step only after the steps before it, and nothing beyond  *)
(* those steps has been claimed by anybody.                                *)
TicksInTurn ==
    \A t \in Executor :
        /\ tick[t].pc \in StepPlaces => Passed(tick[t].step)
        /\ tick[t].pc \in {"verify", "complete"} => Passed(Len(Plan) + 1)

ClaimsInTurn == \A i \in StepNo : op[Plan[i]].attempts > 0 => Passed(i)

EndInTurn ==
    /\ verified => Passed(Len(Plan) + 1)
    /\ task.result = "SUCCESS" => verified

TickInv ==
    /\ TickTypeOK
    /\ OnlyClaimed
    /\ OnlyReceipts
    /\ CancelledShows
    /\ OneActivity
    /\ TicksInTurn
    /\ ClaimsInTurn
    /\ EndInTurn
=============================================================================
