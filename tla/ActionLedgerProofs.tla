-------------------------- MODULE ActionLedgerProofs --------------------------
(***************************************************************************)
(* Proofs about ActionLedger, for every set of operations, threads, gates; *)
(* that it implements ActionPromise; and about SimulationTick, for every   *)
(* plan, number of ticks and of attempts.                                  *)
(***************************************************************************)
EXTENDS SimulationTick, TLAPS

(* A thread is in one place, about one operation, with one answer.         *)
LEMMA CallForms ==
    ASSUME NEW o, NEW p, NEW out, NEW res
    PROVE  /\ Sending(o) # Idle /\ Querying(o) # Idle
           /\ Executed(o, out) # Idle /\ Queried(o, out) # Idle
           /\ Sending(o) # Querying(p) /\ Executed(o, out) # Queried(p, res)
           /\ Sending(o) # Executed(p, out) /\ Sending(o) # Queried(p, out)
           /\ Querying(o) # Executed(p, out) /\ Querying(o) # Queried(p, out)
           /\ Sending(o) = Sending(p) => o = p
           /\ Executed(o, out) = Executed(p, res) => o = p /\ out = res
           /\ Queried(o, out) = Queried(p, res) => o = p /\ out = res
           /\ Sending(o).op = o /\ Querying(o).op = o
           /\ Executed(o, out).op = o /\ Queried(o, out).op = o
<1>1. /\ Idle.pc = "idle"
      /\ \A q : Sending(q).pc = "sending" /\ Sending(q).op = q
      /\ \A q : Querying(q).pc = "querying" /\ Querying(q).op = q
      /\ \A q, r : Executed(q, r).pc = "executed" /\ Executed(q, r).op = q /\ Executed(q, r).out = r
      /\ \A q, r : Queried(q, r).pc = "queried" /\ Queried(q, r).op = q /\ Queried(q, r).out = r
  BY DEF Idle, Sending, Querying, Executed, Queried
<1>2. QED
  BY <1>1

LEMMA CallTypes ==
    /\ Idle \in Call
    /\ \A o \in Op : /\ Sending(o) \in Call
                     /\ Querying(o) \in Call
                     /\ \A out \in Outcome : Executed(o, out) \in Call /\ Queried(o, out) \in Call
  BY DEF Sending, Querying, Executed, Queried, Call

LEMMA TypeInit == Init => TypeOK
<1> SUFFICES ASSUME Init PROVE TypeOK
  OBVIOUS
<1> USE DEF Init
<1>1. task \in TaskRow
  BY DEF TaskRow, TaskStatus, Reason, Result
<1>2. op \in [Op -> OpRow]
  BY DEF OpRow, OpStatus, Recovery
<1>3. approval \in [Op -> ApprovalRow]
  BY DEF ApprovalRow, ApprovalStatus
<1>4. remote \in [Op -> Authority]
  BY DEF Authority
<1>5. QED
  BY <1>1, <1>2, <1>3, <1>4, CallTypes DEF TypeOK

LEMMA TypeStep == TypeOK /\ [Next]_vars => TypeOK'
<1> SUFFICES ASSUME TypeOK, [Next]_vars PROVE TypeOK'
  OBVIOUS
<1> USE DEF TypeOK
<1>0. \A r \in {"APPROVAL", "RECONCILIATION", "MANUAL_REVIEW"} : Waiting(r) \in TaskRow
  BY DEF Waiting, TaskRow, TaskStatus, Reason
<1>1. ASSUME NEW b \in BOOLEAN, Stop(b) PROVE TypeOK'
  BY <1>1 DEF Stop, TaskRow, TaskStatus, Reason
<1>2. CASE Resume
  BY <1>2 DEF Resume, TaskRow, TaskStatus, Reason
<1>3. CASE PutVerification
  BY <1>3 DEF PutVerification
<1>4. CASE Finish
  <2>1. FinishTerminates => task' \in TaskRow
    BY DEF FinishTerminates, FinishResult, TaskRow, TaskStatus, Reason, Result
  <2>2. QED
    BY <1>0, <1>4, <2>1 DEF Finish, FinishWaits
<1>5. ASSUME NEW o \in Op, Propose(o) PROVE TypeOK'
  <2>1. [op[o] EXCEPT !.status = "NOT_SUBMITTED"] \in OpRow
    BY DEF OpRow, OpStatus
  <2>2. [approval[o] EXCEPT !.status = "PENDING"] \in ApprovalRow
    BY DEF ApprovalRow, ApprovalStatus
  <2>3. QED
    BY <1>0, <1>5, <2>1, <2>2 DEF Propose
<1>6. ASSUME NEW o \in Op, NEW d \in {"APPROVED", "REJECTED"}, Decide(o, d) PROVE TypeOK'
  <2>1. [approval[o] EXCEPT !.status = d] \in ApprovalRow
    BY DEF ApprovalRow, ApprovalStatus
  <2>2. QED
    BY <1>6, <2>1 DEF Decide
<1>7. ASSUME NEW t \in Executor, NEW o \in Op, ClaimDispatch(t, o) PROVE TypeOK'
  <2>1. op[o].attempts + 1 \in Nat
    BY DEF OpRow
  <2>2. [op[o] EXCEPT !.status = "PENDING", !.attempts = op[o].attempts + 1, !.old = FALSE] \in OpRow
    BY <2>1 DEF OpRow, OpStatus
  <2>3. op' \in [Op -> OpRow]
    BY <1>7, <2>2 DEF ClaimDispatch, Dispatchable
  <2>4. [task EXCEPT !.status = "RUNNING", !.reason = "NONE"] \in TaskRow
    BY DEF TaskRow, TaskStatus, Reason
  <2>5. call' \in [Thread -> Call]
    BY <1>7, CallTypes DEF ClaimDispatch, Dispatchable, Thread
  <2>6. QED
    BY <1>7, <2>3, <2>4, <2>5 DEF ClaimDispatch, Dispatchable
<1>8. ASSUME NEW t \in Thread, NEW o \in Op, RemoteExecute(t, o) PROVE TypeOK'
  <2>1. /\ [requests |-> remote[o].requests + 1, receipt |-> TRUE] \in Authority
        /\ [remote[o] EXCEPT !.requests = @ + 1] \in Authority
    BY DEF Authority
  <2>2. remote' \in [Op -> Authority]
    BY <1>8, <2>1 DEF RemoteExecute, RemoteCommits, RemoteRejects, RemoteUnreachable
  <2>3. PICK out \in Outcome : call' = [call EXCEPT ![t] = Executed(o, out)]
    BY <1>8 DEF RemoteExecute, RemoteCommits, RemoteRejects, RemoteUnreachable, Outcome
  <2>4. call' \in [Thread -> Call]
    BY <2>3, CallTypes
  <2>5. QED
    BY <1>8, <2>2, <2>4 DEF RemoteExecute
<1>9. ASSUME NEW t \in Thread, NEW o \in Op,
             StartReconcile(t, o) \/ QueryFinds(t, o) \/ QueryUncertain(t, o)
      PROVE TypeOK'
  <2>1. PICK out \in Outcome :
          \/ call' = [call EXCEPT ![t] = Querying(o)]
          \/ call' = [call EXCEPT ![t] = Queried(o, out)]
    BY <1>9 DEF StartReconcile, QueryFinds, QueryUncertain, Outcome
  <2>2. call' \in [Thread -> Call]
    BY <2>1, CallTypes
  <2>3. QED
    BY <1>9, <2>2 DEF StartReconcile, QueryFinds, QueryUncertain
<1>10. ASSUME NEW t \in Thread, NEW o \in Op, RecordOutcome(t, o) PROVE TypeOK'
  <2>1. PICK out \in Outcome : Record(o, Verdict(out))
    BY <1>10 DEF RecordOutcome
  <2>2. Verdict(out) \in {"SUCCEEDED", "FAILED", "UNKNOWN"}
    BY DEF Verdict, Outcome
  <2>3. [op[o] EXCEPT !.status = Verdict(out),
                      !.recovery = IF Verdict(out) = "UNKNOWN" THEN "RECONCILING" ELSE "NONE",
                      !.old = OldAfter(o, Verdict(out))] \in OpRow
    BY <2>2 DEF OpRow, OpStatus, Recovery, OldAfter
  <2>4. op' \in [Op -> OpRow] /\ task' \in TaskRow
    BY <1>0, <2>1, <2>3 DEF Record, RecordStatus
  <2>5. QED
    BY <1>10, <2>4, CallTypes DEF RecordOutcome
<1>11. ASSUME NEW t \in Thread, Crash(t) PROVE TypeOK'
  BY <1>11, CallTypes DEF Crash
<1>12. ASSUME NEW o \in Op, EscalateUncertain(o) PROVE TypeOK'
  <2>1. [op[o] EXCEPT !.recovery = "MANUAL_REVIEW"] \in OpRow
    BY DEF OpRow, Recovery
  <2>2. QED
    BY <1>0, <1>12, <2>1 DEF EscalateUncertain
<1>13. ASSUME NEW o \in Op, Age(o) \/ Expire(o) PROVE TypeOK'
  <2>1. [op[o] EXCEPT !.old = TRUE] \in OpRow /\ [approval[o] EXCEPT !.expired = TRUE] \in ApprovalRow
    BY DEF OpRow, ApprovalRow
  <2>2. QED
    BY <1>13, <2>1 DEF Age, Expire
<1>14. CASE Environment
  BY <1>14 DEF Environment
<1>15. CASE UNCHANGED vars
  BY <1>15 DEF vars
<1>16. QED
  BY <1>1, <1>2, <1>3, <1>4, <1>5, <1>6, <1>7, <1>8, <1>9, <1>10, <1>11, <1>12, <1>13, <1>14, <1>15
  DEF Next, Control, Step

-----------------------------------------------------------------------------
(***************************************************************************)
(* LedgerInv is inductive.                                                 *)
(***************************************************************************)

LEMMA InvInit == Init => LedgerInv
<1> SUFFICES ASSUME Init PROVE LedgerInv
  OBVIOUS
<1>1. TypeOK
  BY TypeInit
<1>2. \A t \in Thread, o \in Op, out \in Outcome :
        call[t] # Sending(o) /\ call[t] # Executed(o, out) /\ call[t] # Queried(o, out)
  BY CallForms DEF Init
<1>3. AttemptsMatchStatus /\ BusyWasClaimed /\ RequestWasClaimed /\ SettledIsTrue
  BY DEF Init, AttemptsMatchStatus, BusyWasClaimed, RequestWasClaimed, SettledIsTrue
<1>4. SenderOwnsOperation /\ AnswerIsTrue
  BY <1>2 DEF SenderOwnsOperation, AnswerIsTrue, Outcome
<1>5. DispatchedWasApproved /\ TerminatedIsResolved
  BY LedgerAssumption DEF Init, DispatchedWasApproved, TerminatedIsResolved, Terminated
<1>6. QED
  BY <1>1, <1>3, <1>4, <1>5 DEF LedgerInv

LEMMA BusyOp ==
    ASSUME TypeOK, NEW t \in Thread, call[t] # Idle
    PROVE  call[t].op \in Op
  BY DEF TypeOK, Call

(* Steps that leave operations, authority and threads alone.               *)
LEMMA FrameStep ==
    ASSUME LedgerInv, UNCHANGED <<op, remote, call>>
    PROVE  /\ AttemptsMatchStatus' /\ BusyWasClaimed' /\ SenderOwnsOperation'
           /\ RequestWasClaimed' /\ AnswerIsTrue' /\ SettledIsTrue'
<1> USE DEF LedgerInv
<1>1. AttemptsMatchStatus' /\ BusyWasClaimed'
  BY DEF AttemptsMatchStatus, BusyWasClaimed
<1>2. SenderOwnsOperation' /\ AnswerIsTrue'
  BY DEF SenderOwnsOperation, AnswerIsTrue, Unresolved
<1>3. RequestWasClaimed' /\ SettledIsTrue'
  BY DEF RequestWasClaimed, SettledIsTrue
<1>4. QED
  BY <1>1, <1>2, <1>3

LEMMA ControlStep ==
    ASSUME LedgerInv, TypeOK',
           (\E b \in BOOLEAN : Stop(b)) \/ Resume \/ PutVerification \/ Finish \/ Environment
    PROVE  LedgerInv'
<1>1. UNCHANGED <<op, approval, remote, call>>
  BY DEF Stop, Resume, PutVerification, Finish, Environment
<1>2. DispatchedWasApproved'
  BY <1>1 DEF LedgerInv, DispatchedWasApproved
<1>3. \/ ~Terminated'
      \/ Terminated' = Terminated
      \/ \A o \in Op : ~Unresolved(o)
  <2>1. (\E b \in BOOLEAN : Stop(b)) => ~Terminated'
    BY DEF Stop, LedgerInv, TypeOK, TaskRow, Terminated
  <2>2. Resume => ~Terminated'
    BY DEF Resume, LedgerInv, TypeOK, TaskRow, Terminated
  <2>3. FinishWaits => ~Terminated'
    BY DEF FinishWaits, Waiting, LedgerInv, TypeOK, TaskRow, Terminated
  <2>4. FinishTerminates => \A o \in Op : ~Unresolved(o)
    BY DEF FinishTerminates
  <2>5. PutVerification \/ Environment => Terminated' = Terminated
    BY DEF PutVerification, Environment, Terminated
  <2>6. QED
    BY <2>1, <2>2, <2>3, <2>4, <2>5 DEF Finish
<1>4. TerminatedIsResolved'
  BY <1>1, <1>3 DEF LedgerInv, TerminatedIsResolved, Unresolved
<1>5. QED
  BY <1>1, <1>2, <1>4, FrameStep DEF LedgerInv

LEMMA ApprovalStep ==
    ASSUME LedgerInv, TypeOK', NEW o \in Op,
           (\E d \in {"APPROVED", "REJECTED"} : Decide(o, d)) \/ Expire(o)
    PROVE  LedgerInv'
<1>1. UNCHANGED <<task, op, remote, call>>
  BY DEF Decide, Expire
<1>2. \A p \in Op : approval[p].status = "APPROVED" => approval'[p].status = "APPROVED"
  BY DEF Decide, Expire, LedgerInv, TypeOK, ApprovalRow
<1>3. DispatchedWasApproved'
  BY <1>1, <1>2, LedgerAssumption DEF LedgerInv, DispatchedWasApproved
<1>4. TerminatedIsResolved'
  BY <1>1 DEF LedgerInv, TerminatedIsResolved, Terminated, Unresolved
<1>5. QED
  BY <1>1, <1>3, <1>4, FrameStep DEF LedgerInv

LEMMA ProposeStep ==
    ASSUME LedgerInv, TypeOK', NEW o \in Op, Propose(o)
    PROVE  LedgerInv'
<1>1. /\ op[o].status = "ABSENT" /\ op'[o].status = "NOT_SUBMITTED"
      /\ op'[o].attempts = op[o].attempts /\ op[o].attempts = 0
      /\ \A p \in Op : p # o => op'[p] = op[p]
  BY DEF Propose, LedgerInv, TypeOK, OpRow, AttemptsMatchStatus
<1>2. UNCHANGED <<remote, call>>
  BY DEF Propose
<1>3. AttemptsMatchStatus' /\ BusyWasClaimed'
  BY <1>1, <1>2, BusyOp DEF LedgerInv, AttemptsMatchStatus, BusyWasClaimed
<1>4. SenderOwnsOperation' /\ AnswerIsTrue'
  BY <1>1, <1>2 DEF LedgerInv, SenderOwnsOperation, AnswerIsTrue, Unresolved
<1>5. RequestWasClaimed' /\ SettledIsTrue'
  BY <1>1, <1>2 DEF LedgerInv, RequestWasClaimed, SettledIsTrue
<1>6. \A p \in Op : p # o => approval'[p] = approval[p]
  BY DEF Propose, LedgerInv, TypeOK
<1>7. DispatchedWasApproved'
  BY <1>1, <1>6, LedgerAssumption DEF LedgerInv, DispatchedWasApproved
<1>8. ~Terminated /\ ~Terminated'
  BY DEF Propose, Executable, Live, Waiting, Terminated, LedgerInv, TypeOK, TaskRow
<1>9. QED
  BY <1>3, <1>4, <1>5, <1>7, <1>8 DEF LedgerInv, TerminatedIsResolved

LEMMA ClaimStep ==
    ASSUME LedgerInv, TypeOK', NEW t \in Executor, NEW o \in Op, ClaimDispatch(t, o)
    PROVE  LedgerInv'
<1>0. t \in Thread
  BY DEF Thread
<1>1. /\ op[o].status = "NOT_SUBMITTED" /\ op'[o].status = "PENDING"
      /\ op[o].attempts = 0 /\ op'[o].attempts = 1
      /\ \A p \in Op : p # o => op'[p] = op[p]
  <2>1. op[o].attempts = 0
    BY DEF ClaimDispatch, Dispatchable, LedgerInv, AttemptsMatchStatus
  <2>2. QED
    BY <2>1 DEF ClaimDispatch, Dispatchable, LedgerInv, TypeOK, OpRow
<1>2. /\ call[t] = Idle /\ call'[t] = Sending(o)
      /\ \A u \in Thread : u # t => call'[u] = call[u]
  BY <1>0 DEF ClaimDispatch, Dispatchable, LedgerInv, TypeOK
<1>3. UNCHANGED <<remote, approval>>
  BY DEF ClaimDispatch, Dispatchable
<1>4. \A u \in Thread : call[u] # Sending(o)
  BY <1>1 DEF LedgerInv, SenderOwnsOperation, Unresolved
<1>5. remote[o].requests = 0
  BY <1>1 DEF LedgerInv, RequestWasClaimed, TypeOK, Authority
<1>6. AttemptsMatchStatus'
  BY <1>1 DEF LedgerInv, AttemptsMatchStatus
<1>7. BusyWasClaimed'
  <2> SUFFICES ASSUME NEW u \in Thread, call'[u] # Idle PROVE op'[call'[u].op].attempts = 1
    BY DEF BusyWasClaimed
  <2>1. CASE u = t
    BY <1>1, <1>2, <2>1, CallForms
  <2>2. CASE u # t
    <3>1. op[call[u].op].attempts = 1 /\ call'[u] = call[u]
      BY <1>2, <2>2 DEF LedgerInv, BusyWasClaimed
    <3>2. call[u].op \in Op
      BY <3>1, BusyOp DEF LedgerInv
    <3>3. QED
      BY <1>1, <3>1, <3>2
  <2>3. QED
    BY <2>1, <2>2
<1>8. SenderOwnsOperation'
  <2> SUFFICES ASSUME NEW u \in Thread, NEW p \in Op, call'[u] = Sending(p)
               PROVE  /\ Unresolved(p)'
                      /\ remote'[p].requests = 0
                      /\ \A v \in Thread : call'[v] = Sending(p) => v = u
    BY DEF SenderOwnsOperation
  <2>1. CASE u = t
    BY <1>1, <1>2, <1>3, <1>4, <1>5, <2>1, CallForms DEF Unresolved
  <2>2. CASE u # t
    BY <1>1, <1>2, <1>3, <1>4, <2>2, CallForms DEF LedgerInv, SenderOwnsOperation, Unresolved
  <2>3. QED
    BY <2>1, <2>2
<1>9. AnswerIsTrue'
  BY <1>2, <1>3, CallForms DEF LedgerInv, AnswerIsTrue
<1>10. RequestWasClaimed' /\ SettledIsTrue'
  BY <1>1, <1>3, <1>5 DEF LedgerInv, RequestWasClaimed, SettledIsTrue
<1>11. DispatchedWasApproved'
  BY <1>1, <1>3, LedgerAssumption DEF ClaimDispatch, Dispatchable, ApprovalValid, LedgerInv, DispatchedWasApproved
<1>12. ~Terminated'
  BY DEF ClaimDispatch, Dispatchable, LedgerInv, TypeOK, TaskRow, Terminated
<1>13. QED
  BY <1>6, <1>7, <1>8, <1>9, <1>10, <1>11, <1>12 DEF LedgerInv, TerminatedIsResolved

LEMMA RemoteStep ==
    ASSUME LedgerInv, TypeOK', NEW t \in Thread, NEW o \in Op, RemoteExecute(t, o)
    PROVE  LedgerInv'
<1>1. PICK out \in Outcome :
        /\ call'[t] = Executed(o, out)
        /\ \A u \in Thread : u # t => call'[u] = call[u]
        /\ out = "SUCCEEDED" => remote'[o].receipt
        /\ out = "FAILED" => ~remote'[o].receipt
  BY DEF RemoteExecute, RemoteCommits, RemoteRejects, RemoteUnreachable, LedgerInv, TypeOK,
         Authority, Outcome
<1>2. /\ remote'[o].requests = remote[o].requests + 1
      /\ \A p \in Op : p # o => remote'[p] = remote[p]
  BY DEF RemoteExecute, RemoteCommits, RemoteRejects, RemoteUnreachable, LedgerInv, TypeOK, Authority
<1>3. UNCHANGED <<task, op, approval>> /\ call[t] = Sending(o)
  BY DEF RemoteExecute
<1>4. /\ Unresolved(o) /\ remote[o].requests = 0
      /\ \A u \in Thread : call[u] = Sending(o) => u = t
  BY <1>3 DEF LedgerInv, SenderOwnsOperation
<1>5. op[o].attempts = 1
  BY <1>3, CallForms DEF LedgerInv, BusyWasClaimed
<1>6. ~remote[o].receipt
  BY <1>4 DEF LedgerInv, RequestWasClaimed
<1>7. AttemptsMatchStatus' /\ BusyWasClaimed'
  BY <1>1, <1>3, <1>5, CallForms DEF LedgerInv, AttemptsMatchStatus, BusyWasClaimed
<1>8. SenderOwnsOperation'
  <2> SUFFICES ASSUME NEW u \in Thread, NEW p \in Op, call'[u] = Sending(p)
               PROVE  /\ Unresolved(p)'
                      /\ remote'[p].requests = 0
                      /\ \A v \in Thread : call'[v] = Sending(p) => v = u
    BY DEF SenderOwnsOperation
  <2>1. u # t /\ call[u] = Sending(p)
    BY <1>1, CallForms
  <2>2. p # o
    BY <1>4, <2>1
  <2>3. /\ Unresolved(p) /\ remote[p].requests = 0
        /\ \A v \in Thread : call[v] = Sending(p) => v = u
    BY <2>1 DEF LedgerInv, SenderOwnsOperation
  <2>4. \A v \in Thread : call'[v] = Sending(p) => call[v] = Sending(p)
    BY <1>1, CallForms
  <2>5. QED
    BY <1>2, <1>3, <2>2, <2>3, <2>4 DEF Unresolved
<1>9. RequestWasClaimed'
  BY <1>2, <1>3, <1>4, <1>5 DEF LedgerInv, RequestWasClaimed
<1>10. AnswerIsTrue'
  <2> SUFFICES ASSUME NEW u \in Thread, NEW p \in Op
               PROVE  /\ call'[u] \in {Executed(p, "SUCCEEDED"), Queried(p, "SUCCEEDED")}
                            => remote'[p].receipt
                      /\ call'[u] = Executed(p, "FAILED")
                            => ~remote'[p].receipt /\ remote'[p].requests = 1
                      /\ call'[u] # Queried(p, "FAILED")
    BY DEF AnswerIsTrue
  <2>1. CASE u = t
    BY <1>1, <1>2, <1>4, <2>1, CallForms
  <2>2. CASE u # t /\ p # o
    BY <1>1, <1>2, <2>2 DEF LedgerInv, AnswerIsTrue
  <2>3. CASE u # t /\ p = o
    BY <1>1, <1>4, <1>6, <2>3 DEF LedgerInv, AnswerIsTrue
  <2>4. QED
    BY <2>1, <2>2, <2>3
<1>11. SettledIsTrue'
  BY <1>2, <1>3, <1>4 DEF LedgerInv, SettledIsTrue, Unresolved
<1>12. DispatchedWasApproved' /\ TerminatedIsResolved'
  BY <1>3 DEF LedgerInv, DispatchedWasApproved, TerminatedIsResolved, Terminated, Unresolved
<1>13. QED
  BY <1>7, <1>8, <1>9, <1>10, <1>11, <1>12 DEF LedgerInv

LEMMA QueryStep ==
    ASSUME LedgerInv, TypeOK', NEW t \in Thread, NEW o \in Op,
           StartReconcile(t, o) \/ QueryFinds(t, o) \/ QueryUncertain(t, o)
    PROVE  LedgerInv'
<1>1. UNCHANGED <<task, op, approval, remote>>
  BY DEF StartReconcile, QueryFinds, QueryUncertain
<1>2. \A u \in Thread : u # t => call'[u] = call[u]
  BY DEF StartReconcile, QueryFinds, QueryUncertain, LedgerInv, TypeOK
<1>3. PICK out \in {"SUCCEEDED", "UNVERIFIED", "UNKNOWN"} :
        /\ call'[t] = Querying(o) \/ call'[t] = Queried(o, out)
        /\ out = "SUCCEEDED" => remote[o].receipt \/ call'[t] = Querying(o)
  BY DEF StartReconcile, QueryFinds, QueryUncertain, LedgerInv, TypeOK
<1>4. op[o].attempts = 1
  BY CallForms DEF StartReconcile, QueryFinds, QueryUncertain, LedgerInv, AttemptsMatchStatus,
                   BusyWasClaimed, Unresolved
<1>5. AttemptsMatchStatus' /\ BusyWasClaimed'
  BY <1>1, <1>2, <1>3, <1>4, CallForms DEF LedgerInv, AttemptsMatchStatus, BusyWasClaimed
<1>6. \A u \in Thread, p \in Op : call'[u] = Sending(p) => call[u] = Sending(p)
  BY <1>2, <1>3, CallForms
<1>7. SenderOwnsOperation'
  BY <1>1, <1>6 DEF LedgerInv, SenderOwnsOperation, Unresolved
<1>8. AnswerIsTrue'
  BY <1>1, <1>2, <1>3, CallForms DEF LedgerInv, AnswerIsTrue
<1>9. RequestWasClaimed' /\ SettledIsTrue'
  BY <1>1 DEF LedgerInv, RequestWasClaimed, SettledIsTrue
<1>10. DispatchedWasApproved' /\ TerminatedIsResolved'
  BY <1>1 DEF LedgerInv, DispatchedWasApproved, TerminatedIsResolved, Terminated, Unresolved
<1>11. QED
  BY <1>5, <1>7, <1>8, <1>9, <1>10 DEF LedgerInv

(* A late or repeated answer: whatever the order, the ledger stays true.   *)
LEMMA RecordStep ==
    ASSUME LedgerInv, TypeOK', NEW t \in Thread, NEW o \in Op, RecordOutcome(t, o)
    PROVE  LedgerInv'
<1>1. PICK out \in Outcome :
        call[t] \in {Executed(o, out), Queried(o, out)} /\ Record(o, Verdict(out))
  BY DEF RecordOutcome
<1> DEFINE status == Verdict(out)
<1>2. /\ call'[t] = Idle
      /\ \A u \in Thread : u # t => call'[u] = call[u]
      /\ UNCHANGED <<approval, remote>>
  BY DEF RecordOutcome, LedgerInv, TypeOK
<1>3. op[o].attempts = 1
  BY <1>1, CallForms DEF LedgerInv, BusyWasClaimed
<1>4. status = "SUCCEEDED" => remote[o].receipt /\ remote[o].requests = 1
  <2>1. status = "SUCCEEDED" => out = "SUCCEEDED"
    BY DEF Verdict
  <2>2. QED
    BY <1>1, <2>1 DEF LedgerInv, AnswerIsTrue, RequestWasClaimed
<1>5. status = "FAILED" => ~remote[o].receipt /\ remote[o].requests = 1
  <2>1. status = "FAILED" => out = "FAILED"
    BY DEF Verdict
  <2>2. QED
    BY <1>1, <2>1 DEF LedgerInv, AnswerIsTrue
<1>6. status \in {"SUCCEEDED", "FAILED", "UNKNOWN"}
  BY DEF Verdict, Outcome
<1>7. \A u \in Thread, p \in Op, r \in Outcome :
        /\ call'[u] = Sending(p) => call[u] = Sending(p)
        /\ call'[u] = Executed(p, r) => call[u] = Executed(p, r)
        /\ call'[u] = Queried(p, r) => call[u] = Queried(p, r)
  BY <1>2, CallForms
<1>8. AnswerIsTrue'
  BY <1>2, <1>7 DEF LedgerInv, AnswerIsTrue, Outcome
<1>9. CASE RecordIgnored(o, status)
  <2>1. UNCHANGED <<op, task>>
    BY <1>1, <1>9 DEF Record, RecordStatus
  <2>2. AttemptsMatchStatus' /\ BusyWasClaimed'
    BY <1>2, <2>1 DEF LedgerInv, AttemptsMatchStatus, BusyWasClaimed
  <2>3. SenderOwnsOperation'
    BY <1>2, <1>7, <2>1 DEF LedgerInv, SenderOwnsOperation, Unresolved
  <2>4. RequestWasClaimed' /\ SettledIsTrue' /\ DispatchedWasApproved' /\ TerminatedIsResolved'
    BY <1>2, <2>1 DEF LedgerInv, RequestWasClaimed, SettledIsTrue, DispatchedWasApproved,
                      TerminatedIsResolved, Terminated, Unresolved
  <2>5. QED
    BY <1>8, <2>2, <2>3, <2>4 DEF LedgerInv
<1>10. CASE ~RecordIgnored(o, status)
  <2>1. Unresolved(o)
    <3>1. op[o].status \in {"PENDING", "UNKNOWN", "SUCCEEDED", "FAILED"}
      BY <1>3 DEF LedgerInv, AttemptsMatchStatus, TypeOK, OpRow, OpStatus
    <3>2. op[o].status # "FAILED"
      BY <1>4, <1>10 DEF RecordIgnored, LedgerInv, SettledIsTrue
    <3>3. QED
      BY <1>10, <3>1, <3>2 DEF RecordIgnored, Unresolved
  <2>2. /\ op'[o].status = status /\ op'[o].attempts = op[o].attempts
        /\ \A p \in Op : p # o => op'[p] = op[p]
    <3> DEFINE row == [op[o] EXCEPT
                         !.status = status,
                         !.recovery = IF status = "UNKNOWN" THEN "RECONCILING" ELSE "NONE",
                         !.old = OldAfter(o, status)]
    <3>1. op' = [op EXCEPT ![o] = row]
      BY <1>1, <1>10 DEF Record, RecordStatus
    <3>2. op[o] \in OpRow /\ op \in [Op -> OpRow]
      BY DEF LedgerInv, TypeOK
    <3>3. row.status = status /\ row.attempts = op[o].attempts
      BY <3>2 DEF OpRow
    <3> HIDE DEF row
    <3>4. QED
      BY <3>1, <3>2, <3>3
  <2>3. AttemptsMatchStatus'
    BY <1>3, <1>6, <2>2 DEF LedgerInv, AttemptsMatchStatus
  <2>4. BusyWasClaimed'
    BY <1>2, <2>2, BusyOp DEF LedgerInv, BusyWasClaimed
  <2>5. SenderOwnsOperation'
    <3> SUFFICES ASSUME NEW u \in Thread, NEW p \in Op, call'[u] = Sending(p)
                 PROVE  /\ Unresolved(p)'
                        /\ remote'[p].requests = 0
                        /\ \A v \in Thread : call'[v] = Sending(p) => v = u
      BY DEF SenderOwnsOperation
    <3>1. /\ Unresolved(p) /\ remote[p].requests = 0
          /\ \A v \in Thread : call'[v] = Sending(p) => v = u
      BY <1>7 DEF LedgerInv, SenderOwnsOperation
    <3>2. p = o => status = "UNKNOWN"
      BY <1>4, <1>5, <1>6, <3>1
    <3>3. Unresolved(p)'
      BY <2>2, <3>1, <3>2 DEF Unresolved
    <3>4. QED
      BY <1>2, <3>1, <3>3
  <2>6. RequestWasClaimed'
    BY <1>2, <2>2 DEF LedgerInv, RequestWasClaimed
  <2>7. SettledIsTrue'
    BY <1>2, <1>4, <1>5, <2>2 DEF LedgerInv, SettledIsTrue
  <2>8. DispatchedWasApproved'
    BY <1>2, <2>2, LedgerAssumption DEF LedgerInv, DispatchedWasApproved
  <2>9. ~Terminated
    BY <2>1 DEF LedgerInv, TerminatedIsResolved
  <2>10. ~Terminated'
    BY <1>1, <1>10, <2>9 DEF Record, RecordStatus, Waiting, Terminated, LedgerInv, TypeOK, TaskRow
  <2>11. QED
    BY <1>8, <2>3, <2>4, <2>5, <2>6, <2>7, <2>8, <2>10 DEF LedgerInv, TerminatedIsResolved
<1>11. QED
  BY <1>9, <1>10

LEMMA CrashStep ==
    ASSUME LedgerInv, TypeOK', NEW t \in Thread, Crash(t)
    PROVE  LedgerInv'
<1>1. UNCHANGED <<task, op, approval, remote>>
  BY DEF Crash
<1>2. \A u \in Thread : call'[u] = Idle \/ call'[u] = call[u]
  BY DEF Crash, LedgerInv, TypeOK
<1>3. \A u \in Thread, p \in Op, r \in Outcome :
        /\ call'[u] = Sending(p) => call[u] = Sending(p)
        /\ call'[u] = Executed(p, r) => call[u] = Executed(p, r)
        /\ call'[u] = Queried(p, r) => call[u] = Queried(p, r)
  BY <1>2, CallForms
<1>4. AttemptsMatchStatus' /\ BusyWasClaimed'
  <2>1. \A u \in Thread : call'[u] # Idle => call'[u] = call[u] /\ op[call[u].op].attempts = 1
    BY <1>2 DEF LedgerInv, BusyWasClaimed
  <2>2. QED
    BY <1>1, <2>1 DEF LedgerInv, AttemptsMatchStatus, BusyWasClaimed
<1>5. SenderOwnsOperation'
  BY <1>1, <1>3 DEF LedgerInv, SenderOwnsOperation, Unresolved, Outcome
<1>6. AnswerIsTrue'
  BY <1>1, <1>3 DEF LedgerInv, AnswerIsTrue, Outcome
<1>7. RequestWasClaimed' /\ SettledIsTrue' /\ DispatchedWasApproved' /\ TerminatedIsResolved'
  BY <1>1 DEF LedgerInv, RequestWasClaimed, SettledIsTrue, DispatchedWasApproved,
              TerminatedIsResolved, Terminated, Unresolved
<1>8. QED
  BY <1>4, <1>5, <1>6, <1>7 DEF LedgerInv

LEMMA WaitingStep ==
    ASSUME LedgerInv, TypeOK', NEW o \in Op, EscalateUncertain(o) \/ Age(o)
    PROVE  LedgerInv'
<1>1. UNCHANGED <<approval, remote, call>>
  BY DEF EscalateUncertain, Age
<1>2. \A p \in Op : op'[p].status = op[p].status /\ op'[p].attempts = op[p].attempts
  <2>1. op[o] \in OpRow /\ op \in [Op -> OpRow]
    BY DEF LedgerInv, TypeOK
  <2>2. /\ [op[o] EXCEPT !.recovery = "MANUAL_REVIEW"].status = op[o].status
        /\ [op[o] EXCEPT !.recovery = "MANUAL_REVIEW"].attempts = op[o].attempts
        /\ [op[o] EXCEPT !.old = TRUE].status = op[o].status
        /\ [op[o] EXCEPT !.old = TRUE].attempts = op[o].attempts
    BY <2>1 DEF OpRow
  <2>3. QED
    BY <2>1, <2>2 DEF EscalateUncertain, Age
<1>3. Unresolved(o)
  BY DEF EscalateUncertain, Age
<1>4. ~Terminated
  BY <1>3 DEF LedgerInv, TerminatedIsResolved
<1>5. ~Terminated'
  BY <1>4 DEF EscalateUncertain, Age, Waiting, Terminated, LedgerInv, TypeOK, TaskRow
<1>6. AttemptsMatchStatus' /\ BusyWasClaimed'
  BY <1>1, <1>2, BusyOp DEF LedgerInv, AttemptsMatchStatus, BusyWasClaimed
<1>7. SenderOwnsOperation' /\ AnswerIsTrue'
  BY <1>1, <1>2 DEF LedgerInv, SenderOwnsOperation, AnswerIsTrue, Unresolved
<1>8. RequestWasClaimed' /\ SettledIsTrue' /\ DispatchedWasApproved'
  BY <1>1, <1>2, LedgerAssumption DEF LedgerInv, RequestWasClaimed, SettledIsTrue, DispatchedWasApproved
<1>9. QED
  BY <1>5, <1>6, <1>7, <1>8 DEF LedgerInv, TerminatedIsResolved

LEMMA InvStep == LedgerInv /\ [Next]_vars => LedgerInv'
<1> SUFFICES ASSUME LedgerInv, [Next]_vars PROVE LedgerInv'
  OBVIOUS
<1>1. TypeOK'
  BY TypeStep DEF LedgerInv
<1>2. CASE Control
  <2>1. CASE (\E b \in BOOLEAN : Stop(b)) \/ Resume \/ PutVerification \/ Finish
    BY <1>1, <2>1, ControlStep
  <2>2. ASSUME NEW o \in Op, Propose(o) PROVE LedgerInv'
    BY <1>1, <2>2, ProposeStep
  <2>3. ASSUME NEW o \in Op, \E d \in {"APPROVED", "REJECTED"} : Decide(o, d) PROVE LedgerInv'
    BY <1>1, <2>3, ApprovalStep
  <2>4. QED
    BY <1>2, <2>1, <2>2, <2>3 DEF Control
<1>3. ASSUME NEW t \in Executor, NEW o \in Op, ClaimDispatch(t, o) PROVE LedgerInv'
  BY <1>1, <1>3, ClaimStep
<1>4. ASSUME NEW t \in Thread, NEW o \in Op, Step(t, o) PROVE LedgerInv'
  BY <1>1, <1>4, RemoteStep, QueryStep, RecordStep DEF Step
<1>5. ASSUME NEW t \in Thread, Crash(t) PROVE LedgerInv'
  BY <1>1, <1>5, CrashStep
<1>6. ASSUME NEW o \in Op, EscalateUncertain(o) \/ Age(o) \/ Expire(o) PROVE LedgerInv'
  BY <1>1, <1>6, WaitingStep, ApprovalStep
<1>7. CASE Environment
  BY <1>1, <1>7, ControlStep
<1>8. CASE UNCHANGED vars
  <2>1. UNCHANGED <<task, op, approval, remote, call>>
    BY <1>8 DEF vars
  <2>2. DispatchedWasApproved' /\ TerminatedIsResolved'
    BY <2>1 DEF LedgerInv, DispatchedWasApproved, TerminatedIsResolved, Terminated, Unresolved
  <2>3. QED
    BY <1>1, <2>1, <2>2, FrameStep DEF LedgerInv
<1>9. QED
  BY <1>2, <1>3, <1>4, <1>5, <1>6, <1>7, <1>8 DEF Next

(* The ledger invariant holds in every reachable state.                    *)
THEOREM LedgerInvariant == Spec => []LedgerInv
<1>1. Init => LedgerInv
  BY InvInit
<1>2. LedgerInv /\ [Next]_vars => LedgerInv'
  BY InvStep
<1>3. QED
  BY <1>1, <1>2, PTL DEF Spec

-----------------------------------------------------------------------------
(***************************************************************************)
(* What follows from it.                                                   *)
(***************************************************************************)

(* Every value the ledger, the authority and the threads hold is typed.    *)
THEOREM LedgerTypes == Spec => []TypeOK
  BY LedgerInvariant, PTL DEF LedgerInv

(* The authority never receives a second request for an operation.         *)
THEOREM AtMostOnce == Spec => []AtMostOneRequest
<1>1. LedgerInv => AtMostOneRequest
  <2>1. LedgerInv => \A o \in Op : op[o].attempts \in {0, 1} /\ remote[o].requests \in Nat
    BY DEF LedgerInv, AttemptsMatchStatus, TypeOK, Authority
  <2>2. LedgerInv => \A o \in Op : remote[o].requests <= op[o].attempts
    BY DEF LedgerInv, RequestWasClaimed
  <2>3. ASSUME LedgerInv, NEW o \in Op PROVE remote[o].requests <= 1
    <3>1. op[o].attempts \in {0, 1} /\ remote[o].requests \in Nat
      BY <2>1, <2>3
    <3>2. remote[o].requests <= op[o].attempts
      BY <2>2, <2>3
    <3>3. QED
      BY <3>1, <3>2
  <2>4. QED
    BY <2>3 DEF AtMostOneRequest
<1>2. QED
  BY <1>1, LedgerInvariant, PTL

(* SUCCEEDED and FAILED are both true of the outside world.                *)
THEOREM VerdictsAreTrue == Spec => []VerdictIsTrue
<1>1. LedgerInv => SuccessHasReceipt
  BY DEF LedgerInv, SettledIsTrue, SuccessHasReceipt
<1>2. LedgerInv => FailureHasNoEffect
  BY DEF LedgerInv, SettledIsTrue, SenderOwnsOperation, FailureHasNoEffect
<1>3. LedgerInv => VerdictIsTrue
  BY <1>1, <1>2 DEF VerdictIsTrue
<1>4. QED
  BY <1>3, LedgerInvariant, PTL

(* Whatever was dispatched under protection has an approval that stands.   *)
THEOREM ApprovalsStand == Spec => []DispatchedWasApproved
  BY LedgerInvariant, PTL DEF LedgerInv

(* Termination leaves nothing unresolved and nothing under way.            *)
THEOREM TerminationIsQuiet == Spec => []TerminatedIsQuiet
<1>1. LedgerInv => TerminatedIsQuiet
  BY DEF LedgerInv, TerminatedIsResolved, SenderOwnsOperation, TerminatedIsQuiet
<1>2. QED
  BY <1>1, LedgerInvariant, PTL

(* Nothing changes a terminated task, its operations or the outside world. *)
LEMMA FinalStep ==
    LedgerInv /\ [Next]_vars => (Terminated => UNCHANGED <<task, op, remote>>)
<1> SUFFICES ASSUME LedgerInv, [Next]_vars, Terminated PROVE UNCHANGED <<task, op, remote>>
  OBVIOUS
<1>1. \A o \in Op : ~Unresolved(o)
  BY DEF LedgerInv, TerminatedIsResolved
<1>2. \A t \in Thread, o \in Op : call[t] # Sending(o)
  BY <1>1 DEF LedgerInv, SenderOwnsOperation
<1>3. ~Executable /\ ~Live
  BY DEF Executable, Live
<1>4. ASSUME NEW t \in Thread, NEW o \in Op, RecordOutcome(t, o) PROVE UNCHANGED <<task, op, remote>>
  <2>1. PICK out \in Outcome :
          call[t] \in {Executed(o, out), Queried(o, out)} /\ Record(o, Verdict(out))
    BY <1>4 DEF RecordOutcome
  <2>2. op[o].status \in {"SUCCEEDED", "FAILED"}
    <3>1. op[o].attempts = 1
      BY <2>1, CallForms DEF LedgerInv, BusyWasClaimed
    <3>2. QED
      BY <1>1, <3>1 DEF LedgerInv, AttemptsMatchStatus, TypeOK, OpRow, OpStatus, Unresolved
  <2>3. Verdict(out) = "SUCCEEDED" => op[o].status = "SUCCEEDED"
    <3>1. Verdict(out) = "SUCCEEDED" => out = "SUCCEEDED"
      BY DEF Verdict
    <3>2. QED
      BY <2>1, <2>2, <3>1 DEF LedgerInv, AnswerIsTrue, SettledIsTrue
  <2>4. RecordIgnored(o, Verdict(out))
    BY <2>2, <2>3 DEF RecordIgnored
  <2>5. QED
    BY <1>4, <2>1, <2>4 DEF Record, RecordStatus, RecordOutcome
<1>5. CASE Control
  <2>1. ~Resume /\ ~Finish /\ \A b \in BOOLEAN : ~Stop(b)
    BY <1>1 DEF Resume, Finish, FinishWaits, FinishTerminates, Stop
  <2>2. \A o \in Op : ~Propose(o)
    BY <1>3 DEF Propose
  <2>3. PutVerification \/ (\E o \in Op : \E d \in {"APPROVED", "REJECTED"} : Decide(o, d))
    BY <1>5, <2>1, <2>2 DEF Control
  <2>4. QED
    BY <2>3 DEF PutVerification, Decide
<1>6. ASSUME NEW t \in Executor, NEW o \in Op, ClaimDispatch(t, o) PROVE FALSE
  BY <1>3, <1>6 DEF ClaimDispatch, Dispatchable
<1>7. ASSUME NEW t \in Thread, NEW o \in Op, Step(t, o) PROVE UNCHANGED <<task, op, remote>>
  BY <1>1, <1>2, <1>4, <1>7 DEF Step, RemoteExecute, StartReconcile, QueryFinds, QueryUncertain
<1>8. ASSUME NEW o \in Op, EscalateUncertain(o) \/ Age(o) \/ Expire(o)
      PROVE UNCHANGED <<task, op, remote>>
  BY <1>1, <1>8 DEF EscalateUncertain, Age, Expire
<1>9. ASSUME NEW t \in Thread, Crash(t) PROVE UNCHANGED <<task, op, remote>>
  BY <1>9 DEF Crash
<1>10. CASE Environment
  BY <1>10 DEF Environment
<1>11. CASE UNCHANGED vars
  BY <1>11 DEF vars
<1>12. QED
  BY <1>5, <1>6, <1>7, <1>8, <1>9, <1>10, <1>11 DEF Next

THEOREM TerminationIsFinal == Spec => TerminatedIsFinal
<1>1. LedgerInv /\ [Next]_vars => [Terminated => UNCHANGED <<task, op, remote>>]_vars
  BY FinalStep
<1>2. QED
  BY <1>1, LedgerInvariant, PTL DEF Spec, TerminatedIsFinal

(* The result of a terminated task says what its ledger says.              *)
LEMMA ResultInit == Init => ResultIsTrue
  BY DEF Init, ResultIsTrue, Terminated

LEMMA OnlyFinishTerminates ==
    ASSUME LedgerInv, [Next]_vars, ~Terminated, Terminated'
    PROVE  Finish
<1> USE DEF LedgerInv, TypeOK, TaskRow, Terminated, Waiting
<1>1. ASSUME NEW b \in BOOLEAN, Stop(b) PROVE FALSE
  BY <1>1 DEF Stop
<1>2. ASSUME Resume PROVE FALSE
  BY <1>2 DEF Resume
<1>3. ASSUME NEW o \in Op, Propose(o) PROVE FALSE
  BY <1>3 DEF Propose
<1>4. ASSUME NEW t \in Executor, NEW o \in Op, ClaimDispatch(t, o) PROVE FALSE
  BY <1>4 DEF ClaimDispatch, Dispatchable
<1>5. ASSUME NEW t \in Thread, NEW o \in Op, RecordOutcome(t, o) PROVE FALSE
  BY <1>5 DEF RecordOutcome, Record, RecordStatus
<1>6. ASSUME NEW o \in Op, EscalateUncertain(o) PROVE FALSE
  BY <1>6 DEF EscalateUncertain
<1>7. UNCHANGED task \/ Finish
  BY <1>1, <1>2, <1>3, <1>4, <1>5, <1>6
  DEF Next, Control, Step, vars, PutVerification, Decide, RemoteExecute,
      StartReconcile, QueryFinds, QueryUncertain, Crash, Age, Expire, Environment
<1>8. QED
  BY <1>7

LEMMA ResultStep ==
    LedgerInv /\ LedgerInv' /\ ResultIsTrue /\ [Next]_vars => ResultIsTrue'
<1> SUFFICES ASSUME LedgerInv, LedgerInv', ResultIsTrue, [Next]_vars, Terminated'
             PROVE  ResultIsTrue'
  BY DEF ResultIsTrue
<1>1. CASE Terminated
  <2>1. UNCHANGED <<task, op, remote>>
    BY <1>1, FinalStep
  <2>2. verified => verified'
    BY DEF Next, Control, Step, vars, Stop, Resume, PutVerification, Finish, Propose, Decide,
           ClaimDispatch, Dispatchable, RemoteExecute, StartReconcile, QueryFinds, QueryUncertain,
           RecordOutcome, Crash, EscalateUncertain, Age, Expire, Environment
  <2>3. QED
    BY <1>1, <2>1, <2>2 DEF ResultIsTrue, Terminated
<1>2. CASE ~Terminated
  <2>1. Finish
    BY <1>2, OnlyFinishTerminates
  <2>2. ~FinishWaits
    BY DEF FinishWaits, Waiting, LedgerInv, TypeOK, TaskRow, Terminated
  <2>3. FinishTerminates /\ UNCHANGED <<op, remote, verified>>
    BY <2>1, <2>2 DEF Finish
  <2>4. task'.result = FinishResult /\ task'.cancelled = task.cancelled
    BY <2>3 DEF FinishTerminates, LedgerInv, TypeOK, TaskRow
  <2>5. FinishResult = "SUCCESS" =>
          /\ verified
          /\ \A o \in Op : op[o].status = "ABSENT" \/ remote[o].receipt
    <3>1. FinishResult = "SUCCESS" =>
            ~task.cancelled /\ \A o \in Op : op[o].status # "FAILED"
      BY DEF FinishResult
    <3>2. QED
      BY <2>3, <3>1 DEF FinishTerminates, Unresolved, LedgerInv, SettledIsTrue, TypeOK, OpRow, OpStatus
  <2>6. FinishResult = "FAILED" => \E o \in Op : op[o].status = "FAILED"
    BY DEF FinishResult
  <2>7. FinishResult # "NONE" /\ (task.cancelled <=> FinishResult = "CANCELLED")
    BY DEF FinishResult
  <2>8. QED
    BY <2>3, <2>4, <2>5, <2>6, <2>7 DEF ResultIsTrue
<1>3. QED
  BY <1>1, <1>2

THEOREM ResultsAreTrue == Spec => []ResultIsTrue
<1>1. LedgerInv /\ LedgerInv' /\ ResultIsTrue /\ [Next]_vars => ResultIsTrue'
  BY ResultStep
<1>2. QED
  BY <1>1, ResultInit, LedgerInvariant, PTL DEF Spec

(* A settled operation keeps its verdict.                                  *)
LEMMA SettledStep ==
    LedgerInv /\ LedgerInv' /\ [Next]_vars =>
      \A o \in Op : op[o].status \in {"SUCCEEDED", "FAILED"} => op'[o].status = op[o].status
<1> SUFFICES ASSUME LedgerInv, [Next]_vars, NEW p \in Op, op[p].status \in {"SUCCEEDED", "FAILED"}
             PROVE  op'[p].status = op[p].status
  OBVIOUS
<1>1. op \in [Op -> OpRow]
  BY DEF LedgerInv, TypeOK
<1>2. ASSUME NEW t \in Thread, NEW o \in Op, RecordOutcome(t, o) PROVE op'[p].status = op[p].status
  <2>1. PICK out \in Outcome :
          call[t] \in {Executed(o, out), Queried(o, out)} /\ Record(o, Verdict(out))
    BY <1>2 DEF RecordOutcome
  <2>2. CASE p # o \/ RecordIgnored(o, Verdict(out))
    BY <1>1, <2>1, <2>2 DEF Record, RecordStatus
  <2>3. CASE p = o /\ ~RecordIgnored(o, Verdict(out))
    <3>1. op[o].status = "FAILED" /\ Verdict(out) = "SUCCEEDED"
      BY <2>3 DEF RecordIgnored
    <3>2. out = "SUCCEEDED"
      BY <3>1 DEF Verdict
    <3>3. QED
      BY <2>1, <3>1, <3>2 DEF LedgerInv, AnswerIsTrue, SettledIsTrue
  <2>4. QED
    BY <2>2, <2>3
<1>3. ASSUME NEW o \in Op, Propose(o) PROVE op'[p].status = op[p].status
  BY <1>1, <1>3 DEF Propose
<1>4. ASSUME NEW t \in Executor, NEW o \in Op, ClaimDispatch(t, o) PROVE op'[p].status = op[p].status
  BY <1>1, <1>4 DEF ClaimDispatch, Dispatchable
<1>5. ASSUME NEW o \in Op, EscalateUncertain(o) \/ Age(o) PROVE op'[p].status = op[p].status
  BY <1>1, <1>5 DEF EscalateUncertain, Age, Unresolved
<1>6. QED
  BY <1>2, <1>3, <1>4, <1>5
  DEF Next, Control, Step, vars, Stop, Resume, PutVerification, Finish, Decide, RemoteExecute,
      StartReconcile, QueryFinds, QueryUncertain, Crash, Expire, Environment

THEOREM VerdictsAreFinal == Spec => SettledIsFinal
<1>1. LedgerInv /\ LedgerInv' /\ [Next]_vars =>
        [\A o \in Op : op[o].status \in {"SUCCEEDED", "FAILED"} => op'[o].status = op[o].status]_vars
  BY SettledStep
<1>2. QED
  BY <1>1, LedgerInvariant, PTL DEF Spec, SettledIsFinal

(***************************************************************************)
(* ActionLedger implements ActionPromise, for any operations, threads and  *)
(* gates: an initial state is one of the promise, and a step is a claim, a *)
(* commit, a judgement or the end, or changes nothing that the promise     *)
(* speaks of.                                                              *)
(***************************************************************************)

(***************************************************************************)
(* The mapping                                                             *)
(***************************************************************************)
Claims == {o \in Op : op[o].attempts > 0}
Effects == {o \in Op : remote[o].receipt}
Verdicts ==
    [o \in Op |-> IF op[o].status \in {"SUCCEEDED", "FAILED"} THEN op[o].status ELSE "NONE"]

Unseen == UNCHANGED <<Claims, Effects, Verdicts, task.result>>

LEMMA StutterStep == Unseen => UNCHANGED Promise!vars
  BY DEF Unseen, Claims, Effects, Verdicts, Promise!vars

(* A task has a result only when it has terminated.                        *)
ResultIsLast == task.result # "NONE" => Terminated

LEMMA TaskKept ==
    ASSUME LedgerInv, [Next]_vars
    PROVE  task'.result = task.result \/ (Finish /\ FinishTerminates)
<1> USE DEF LedgerInv, TypeOK, TaskRow, Waiting
<1>1. ASSUME NEW b \in BOOLEAN, Stop(b) PROVE task'.result = task.result
  BY <1>1 DEF Stop
<1>2. ASSUME Resume PROVE task'.result = task.result
  BY <1>2 DEF Resume
<1>3. ASSUME NEW o \in Op, Propose(o) PROVE task'.result = task.result
  BY <1>3 DEF Propose
<1>4. ASSUME NEW t \in Executor, NEW o \in Op, ClaimDispatch(t, o) PROVE task'.result = task.result
  BY <1>4 DEF ClaimDispatch
<1>5. ASSUME NEW t \in Thread, NEW o \in Op, RecordOutcome(t, o) PROVE task'.result = task.result
  BY <1>5 DEF RecordOutcome, Record, RecordStatus
<1>6. ASSUME NEW o \in Op, EscalateUncertain(o) PROVE task'.result = task.result
  BY <1>6 DEF EscalateUncertain
<1>7. ASSUME Finish, ~FinishTerminates PROVE task'.result = task.result
  BY <1>7 DEF Finish, FinishWaits
<1>8. ASSUME task' = task PROVE task'.result = task.result
  BY <1>8
<1> QED
  BY <1>1, <1>2, <1>3, <1>4, <1>5, <1>6, <1>7, <1>8
  DEF Next, Control, Step, vars, PutVerification, Decide, RemoteExecute, StartReconcile, QueryFinds,
      QueryUncertain, Crash, Age, Expire, Environment

LEMMA ResultIsLastStep == LedgerInv /\ ResultIsLast /\ [Next]_vars => ResultIsLast'
<1> SUFFICES ASSUME LedgerInv, ResultIsLast, [Next]_vars, task'.result # "NONE" PROVE Terminated'
  BY DEF ResultIsLast
<1>1. CASE Terminated
  BY <1>1, FinalStep DEF Terminated
<1>2. CASE ~Terminated
  <2>1. FinishTerminates
    BY <1>2, TaskKept DEF ResultIsLast
  <2>2. task' = [task EXCEPT !.status = "TERMINATED", !.result = FinishResult, !.reason = "NONE"]
    BY <2>1 DEF FinishTerminates
  <2> QED BY <2>2 DEF Terminated, LedgerInv, TypeOK, TaskRow
<1> QED BY <1>1, <1>2

(***************************************************************************)
(* Steps that the promise does not see                                     *)
(***************************************************************************)
LEMMA RowsUnseen ==
    ASSUME task'.result = task.result,
           \A o \in Op : /\ op'[o].attempts = op[o].attempts
                         /\ remote'[o].receipt = remote[o].receipt
                         /\ op'[o].status = op[o].status
                            \/ {op[o].status, op'[o].status} \cap {"SUCCEEDED", "FAILED"} = {}
    PROVE  Unseen
<1>1. Claims' = Claims
  BY DEF Claims
<1>2. Effects' = Effects
  BY DEF Effects
<1>3. Verdicts' = Verdicts
  <2>1. \A o \in Op : (IF op'[o].status \in {"SUCCEEDED", "FAILED"} THEN op'[o].status ELSE "NONE")
                      = IF op[o].status \in {"SUCCEEDED", "FAILED"} THEN op[o].status ELSE "NONE"
    OBVIOUS
  <2> QED BY <2>1 DEF Verdicts
<1> QED BY <1>1, <1>2, <1>3 DEF Unseen

LEMMA QuietSteps ==
    ASSUME LedgerInv,
           \/ \E b \in BOOLEAN : Stop(b)
           \/ Resume \/ PutVerification \/ Environment
           \/ Finish /\ ~FinishTerminates
           \/ \E o \in Op : \/ Propose(o) \/ EscalateUncertain(o) \/ Age(o) \/ Expire(o)
                            \/ \E d \in {"APPROVED", "REJECTED"} : Decide(o, d)
           \/ \E t \in Thread, o \in Op : StartReconcile(t, o) \/ QueryFinds(t, o) \/ QueryUncertain(t, o)
           \/ \E t \in Thread : Crash(t)
           \/ UNCHANGED vars
    PROVE  Unseen
<1>1. remote' = remote
  BY DEF Stop, Resume, PutVerification, Environment, Finish, Propose, EscalateUncertain, Age, Expire, Decide,
         StartReconcile, QueryFinds, QueryUncertain, Crash, vars
<1>2. task'.result = task.result
  <2> USE DEF LedgerInv, TypeOK, TaskRow, Waiting
  <2>1. ASSUME NEW b \in BOOLEAN, Stop(b) PROVE task'.result = task.result
    BY <2>1 DEF Stop
  <2>2. ASSUME Resume \/ (Finish /\ ~FinishTerminates) PROVE task'.result = task.result
    BY <2>2 DEF Resume, Finish, FinishWaits
  <2>3. ASSUME NEW o \in Op, Propose(o) \/ EscalateUncertain(o) PROVE task'.result = task.result
    BY <2>3 DEF Propose, EscalateUncertain
  <2> QED
    BY <2>1, <2>2, <2>3 DEF PutVerification, Environment, Age, Expire, Decide, StartReconcile, QueryFinds,
                            QueryUncertain, Crash, vars
<1>3. \A o \in Op : /\ op'[o].attempts = op[o].attempts
                    /\ op'[o].status = op[o].status
                       \/ {op[o].status, op'[o].status} \cap {"SUCCEEDED", "FAILED"} = {}
  <2>1. op \in [Op -> OpRow]
    BY DEF LedgerInv, TypeOK
  <2>2. ASSUME NEW o \in Op, Propose(o), NEW p \in Op
        PROVE  /\ op'[p].attempts = op[p].attempts
               /\ op'[p].status = op[p].status
                  \/ {op[p].status, op'[p].status} \cap {"SUCCEEDED", "FAILED"} = {}
    BY <2>1, <2>2 DEF Propose, OpRow
  <2>3. ASSUME NEW o \in Op, EscalateUncertain(o) \/ Age(o), NEW p \in Op
        PROVE  op'[p].attempts = op[p].attempts /\ op'[p].status = op[p].status
    BY <2>1, <2>3 DEF EscalateUncertain, Age, OpRow
  <2>4. ASSUME op' = op, NEW p \in Op PROVE op'[p].attempts = op[p].attempts /\ op'[p].status = op[p].status
    BY <2>4
  <2> QED
    BY <2>2, <2>3, <2>4 DEF Stop, Resume, PutVerification, Environment, Finish, Expire, Decide, StartReconcile,
                            QueryFinds, QueryUncertain, Crash, vars
<1> QED BY <1>1, <1>2, <1>3, RowsUnseen

(***************************************************************************)
(* Steps that the promise sees                                             *)
(***************************************************************************)
LEMMA ClaimIsClaim ==
    ASSUME LedgerInv, ResultIsLast, NEW t \in Executor, NEW o \in Op, ClaimDispatch(t, o)
    PROVE  Promise!Claim(o)
<1>1. /\ op[o].attempts = 0 /\ op'[o].attempts = 1 /\ op[o].status = "NOT_SUBMITTED"
      /\ op'[o].status = "PENDING" /\ \A p \in Op \ {o} : op'[p] = op[p]
  BY DEF ClaimDispatch, Dispatchable, LedgerInv, TypeOK, OpRow, AttemptsMatchStatus
<1>2. task.result = "NONE" /\ task'.result = task.result
  BY DEF ClaimDispatch, Executable, Live, ResultIsLast, LedgerInv, TypeOK, TaskRow
<1>3. remote' = remote
  BY DEF ClaimDispatch
<1>4. o \notin Claims /\ Claims' = Claims \cup {o}
  BY <1>1 DEF Claims
<1>5. Verdicts' = Verdicts
  <2>1. \A p \in Op : (IF op'[p].status \in {"SUCCEEDED", "FAILED"} THEN op'[p].status ELSE "NONE")
                      = IF op[p].status \in {"SUCCEEDED", "FAILED"} THEN op[p].status ELSE "NONE"
    BY <1>1
  <2> QED BY <2>1 DEF Verdicts
<1>6. Effects' = Effects
  BY <1>3 DEF Effects
<1> QED BY <1>2, <1>4, <1>5, <1>6 DEF Promise!Claim, Claims, Effects, Verdicts

LEMMA UnresolvedIsUndecided ==
    ASSUME LedgerInv, ResultIsLast, NEW o \in Op, Unresolved(o)
    PROVE  Promise!Undecided(o) /\ o \in Claims /\ task.result = "NONE" /\ Verdicts[o] = "NONE"
<1>1. task.result = "NONE"
  BY DEF LedgerInv, TerminatedIsResolved, ResultIsLast
<1>2. op[o].attempts = 1
  BY DEF LedgerInv, AttemptsMatchStatus, Unresolved
<1>3. o \in Claims
  BY <1>2 DEF Claims
<1>4. Verdicts[o] = "NONE"
  BY DEF Verdicts, Unresolved
<1> QED BY <1>1, <1>3, <1>4 DEF Promise!Undecided, Claims, Verdicts

LEMMA RemoteIsCommit ==
    ASSUME LedgerInv, ResultIsLast, NEW t \in Thread, NEW o \in Op, RemoteExecute(t, o)
    PROVE  Promise!Commit(o) \/ Unseen
<1>1. call[t] = Sending(o) /\ task' = task /\ op' = op
  BY DEF RemoteExecute
<1>2. Unresolved(o) /\ ~remote[o].receipt
  BY <1>1 DEF LedgerInv, SenderOwnsOperation, RequestWasClaimed
<1>3. CASE RemoteCommits(t, o)
  <2>1. remote'[o].receipt /\ \A p \in Op \ {o} : remote'[p] = remote[p]
    BY <1>3 DEF RemoteCommits, LedgerInv, TypeOK, Authority
  <2>2. o \notin Effects /\ Effects' = Effects \cup {o}
    BY <1>2, <2>1 DEF Effects
  <2>3. Claims' = Claims /\ Verdicts' = Verdicts /\ task'.result = task.result
    BY <1>1 DEF Claims, Verdicts
  <2>4. Promise!Undecided(o)
    BY <1>2, UnresolvedIsUndecided
  <2> QED BY <2>2, <2>3, <2>4 DEF Promise!Commit, Claims, Effects, Verdicts
<1>4. CASE RemoteRejects(t, o) \/ RemoteUnreachable(t, o)
  <2>1. \A p \in Op : remote'[p].receipt = remote[p].receipt
    BY <1>4 DEF RemoteRejects, RemoteUnreachable, LedgerInv, TypeOK, Authority
  <2> QED BY <1>1, <2>1, RowsUnseen
<1> QED BY <1>3, <1>4 DEF RemoteExecute

LEMMA RecordIsJudge ==
    ASSUME LedgerInv, ResultIsLast, [Next]_vars, NEW t \in Thread, NEW o \in Op, RecordOutcome(t, o)
    PROVE  (\E v \in {"SUCCEEDED", "FAILED"} : Promise!Judge(o, v)) \/ Unseen
<1>1. PICK out \in Outcome :
          call[t] \in {Executed(o, out), Queried(o, out)} /\ Record(o, Verdict(out))
  BY DEF RecordOutcome
<1>2. PICK status \in {"SUCCEEDED", "FAILED", "UNKNOWN"} : status = Verdict(out)
  BY DEF Verdict, Outcome
<1>3. remote' = remote /\ task'.result = task.result
  BY <1>1 DEF RecordOutcome, Record, RecordStatus, Waiting, LedgerInv, TypeOK, TaskRow
<1>4. CASE RecordIgnored(o, status)
  <2>1. op' = op
    BY <1>1, <1>2, <1>4 DEF Record
  <2> QED BY <1>3, <2>1, RowsUnseen
<1>5. CASE ~RecordIgnored(o, status)
  <2>1. /\ op'[o].status = status /\ op'[o].attempts = op[o].attempts
        /\ \A p \in Op \ {o} : op'[p] = op[p]
    <3>1. RecordStatus(o, status)
      BY <1>1, <1>2, <1>5 DEF Record
    <3>2. op' = [op EXCEPT ![o] = [@ EXCEPT
                     !.status = status,
                     !.recovery = IF status = "UNKNOWN" THEN "RECONCILING" ELSE "NONE",
                     !.old = OldAfter(o, status)]]
      BY <3>1 DEF RecordStatus
    <3> QED BY <3>2 DEF LedgerInv, TypeOK, OpRow
  <2>2. call[t] # Idle /\ call[t].op = o
    BY <1>1 DEF Executed, Queried, Idle
  <2>3. op[o].attempts = 1 /\ op[o].status \in OpStatus
    BY <2>2 DEF LedgerInv, BusyWasClaimed, TypeOK, OpRow
  <2>4. op[o].status \in {"PENDING", "UNKNOWN", "FAILED"}
    BY <1>5, <2>3 DEF RecordIgnored, LedgerInv, AttemptsMatchStatus, OpStatus
  <2>5. op[o].status # "FAILED"
    <3> SUFFICES ASSUME op[o].status = "FAILED" PROVE FALSE
      OBVIOUS
    <3>1. status = "SUCCEEDED"
      BY <1>5 DEF RecordIgnored
    <3>2. out = "SUCCEEDED"
      BY <1>2, <3>1 DEF Verdict
    <3> QED BY <1>1, <3>2 DEF LedgerInv, AnswerIsTrue, SettledIsTrue
  <2>6. Unresolved(o)
    BY <2>4, <2>5 DEF Unresolved
  <2>7. CASE status = "UNKNOWN"
    <3>1. \A p \in Op : /\ op'[p].attempts = op[p].attempts
                        /\ op'[p].status = op[p].status
                           \/ {op[p].status, op'[p].status} \cap {"SUCCEEDED", "FAILED"} = {}
      BY <2>1, <2>4, <2>5, <2>7
    <3> QED BY <1>3, <3>1, RowsUnseen
  <2>8. CASE status # "UNKNOWN"
    <3>1. status = IF o \in Effects THEN "SUCCEEDED" ELSE "FAILED"
      <4>1. out = status
        BY <1>2, <2>8 DEF Verdict
      <4>2. status = "SUCCEEDED" => remote[o].receipt
        BY <1>1, <4>1 DEF LedgerInv, AnswerIsTrue
      <4>3. status = "FAILED" => ~remote[o].receipt
        BY <1>1, <4>1 DEF LedgerInv, AnswerIsTrue
      <4> QED BY <2>8, <4>2, <4>3 DEF Effects
    <3>2. Verdicts' = [Verdicts EXCEPT ![o] = status]
      <4>1. \A p \in Op : (IF op'[p].status \in {"SUCCEEDED", "FAILED"} THEN op'[p].status ELSE "NONE")
                          = IF p = o THEN status
                            ELSE IF op[p].status \in {"SUCCEEDED", "FAILED"} THEN op[p].status ELSE "NONE"
        BY <2>1, <2>8
      <4> QED BY <4>1 DEF Verdicts
    <3>3. Claims' = Claims /\ Effects' = Effects
      BY <1>3, <2>1 DEF Claims, Effects
    <3>4. Promise!Undecided(o)
      BY <2>6, UnresolvedIsUndecided
    <3>5. Promise!Judge(o, status)
      BY <1>3, <3>1, <3>2, <3>3, <3>4 DEF Promise!Judge, Claims, Effects, Verdicts
    <3> QED BY <2>8, <3>5
  <2> QED BY <2>7, <2>8
<1> QED BY <1>4, <1>5

LEMMA FinishIsEnd ==
    ASSUME LedgerInv, ResultIsLast, Finish, FinishTerminates
    PROVE  \E r \in {"SUCCESS", "FAILED", "CANCELLED"} : Promise!End(r)
<1>1. PICK r \in {"SUCCESS", "FAILED", "CANCELLED"} : r = FinishResult
  BY DEF FinishResult
<1>2. op' = op /\ remote' = remote /\ task'.result = r /\ task.result = "NONE"
  <2>1. task' = [task EXCEPT !.status = "TERMINATED", !.result = r, !.reason = "NONE"]
    BY <1>1 DEF FinishTerminates
  <2>2. task'.result = r
    BY <2>1 DEF LedgerInv, TypeOK, TaskRow
  <2>3. task.result = "NONE"
    BY DEF FinishTerminates, ResultIsLast
  <2> QED BY <2>2, <2>3 DEF Finish
<1>3. \A o \in Claims : op[o].status \in {"SUCCEEDED", "FAILED"}
  <2> SUFFICES ASSUME NEW o \in Op, op[o].attempts > 0 PROVE op[o].status \in {"SUCCEEDED", "FAILED"}
    BY DEF Claims
  <2>1. op[o].status \notin {"ABSENT", "NOT_SUBMITTED"}
    BY DEF LedgerInv, AttemptsMatchStatus
  <2>2. ~Unresolved(o) /\ op[o].status \in OpStatus
    BY DEF FinishTerminates, LedgerInv, TypeOK, OpRow
  <2> QED BY <2>1, <2>2 DEF Unresolved, OpStatus
<1>4. \A o \in Claims : Verdicts[o] # "NONE"
  BY <1>3 DEF Verdicts, Claims
<1>5. r = "SUCCESS" => Claims \subseteq Effects
  <2>1. r = "SUCCESS" => \A o \in Op : op[o].status # "FAILED"
    BY <1>1 DEF FinishResult
  <2>2. r = "SUCCESS" => \A o \in Claims : op[o].status = "SUCCEEDED"
    BY <1>3, <2>1 DEF Claims
  <2> QED BY <2>2 DEF LedgerInv, SettledIsTrue, Claims, Effects
<1>6. r = "FAILED" => \E o \in Claims : o \notin Effects
  <2> SUFFICES ASSUME r = "FAILED" PROVE \E o \in Claims : o \notin Effects
    OBVIOUS
  <2>1. PICK o \in Op : op[o].status = "FAILED"
    BY <1>1 DEF FinishResult
  <2>2. op[o].attempts = 1 /\ ~remote[o].receipt
    BY <2>1 DEF LedgerInv, AttemptsMatchStatus, SettledIsTrue
  <2>3. o \in Claims /\ o \notin Effects
    BY <2>2 DEF Claims, Effects
  <2> QED BY <2>3
<1>7. Claims' = Claims /\ Effects' = Effects /\ Verdicts' = Verdicts
  BY <1>2 DEF Claims, Effects, Verdicts
<1>8. Promise!End(r)
  BY <1>2, <1>4, <1>5, <1>6, <1>7 DEF Promise!End, Claims, Effects, Verdicts
<1> QED BY <1>8

(***************************************************************************)
(* The theorem                                                             *)
(***************************************************************************)
LEMMA PromiseInit == Init => Promise!Init
<1> SUFFICES ASSUME Init PROVE Promise!Init
  OBVIOUS
<1>1. \A o \in Op : op[o].attempts = 0 /\ op[o].status = "ABSENT" /\ ~remote[o].receipt
  BY DEF Init
<1>2. task.result = "NONE"
  BY DEF Init
<1>3. Claims = {} /\ Effects = {} /\ Verdicts = [o \in Op |-> "NONE"]
  BY <1>1 DEF Claims, Effects, Verdicts
<1> QED BY <1>2, <1>3 DEF Promise!Init, Claims, Effects, Verdicts

LEMMA PromiseStep == LedgerInv /\ ResultIsLast /\ [Next]_vars => [Promise!Next]_(Promise!vars)
<1> SUFFICES ASSUME LedgerInv, ResultIsLast, [Next]_vars PROVE Promise!Next \/ Unseen
  BY StutterStep
<1>1. ASSUME NEW t \in Executor, NEW o \in Op, ClaimDispatch(t, o) PROVE Promise!Next
  BY <1>1, ClaimIsClaim DEF Promise!Next
<1>2. ASSUME NEW t \in Thread, NEW o \in Op, RemoteExecute(t, o) PROVE Promise!Next \/ Unseen
  BY <1>2, RemoteIsCommit DEF Promise!Next
<1>3. ASSUME NEW t \in Thread, NEW o \in Op, RecordOutcome(t, o) PROVE Promise!Next \/ Unseen
  BY <1>3, RecordIsJudge DEF Promise!Next
<1>4. ASSUME Finish, FinishTerminates PROVE Promise!Next
  BY <1>4, FinishIsEnd DEF Promise!Next
<1>5. CASE \/ \E b \in BOOLEAN : Stop(b)
           \/ Resume \/ PutVerification \/ Environment
           \/ Finish /\ ~FinishTerminates
           \/ \E o \in Op : \/ Propose(o) \/ EscalateUncertain(o) \/ Age(o) \/ Expire(o)
                            \/ \E d \in {"APPROVED", "REJECTED"} : Decide(o, d)
           \/ \E t \in Thread, o \in Op : StartReconcile(t, o) \/ QueryFinds(t, o) \/ QueryUncertain(t, o)
           \/ \E t \in Thread : Crash(t)
           \/ UNCHANGED vars
  BY <1>5, QuietSteps
<1> QED BY <1>1, <1>2, <1>3, <1>4, <1>5 DEF Next, Control, Step

(* The ledger with its threads, lost answers, approvals and polls keeps    *)
(* what ActionPromise promises to its readers: service.py:326-513.         *)
THEOREM LedgerKeepsPromise == Spec => KeepsPromise
<1>1. Init => ResultIsLast
  BY DEF Init, ResultIsLast
<1>2. Spec => []ResultIsLast
  BY <1>1, ResultIsLastStep, LedgerInvariant, PTL DEF Spec
<1> QED
  BY <1>2, PromiseInit, PromiseStep, LedgerInvariant, PTL DEF Spec, KeepsPromise, Promise!Spec

-----------------------------------------------------------------------------
(***************************************************************************)
(* SimulationTick: the ledger under the workflow that drives the task.     *)
(* Every step of it is for the ledger a step of Next, the mark that blocks *)
(* the task, or the refusal of an action that was not approved in time.    *)
(***************************************************************************)
Blocks ==
    /\ task' = IF Live THEN Waiting("BLOCKED") ELSE task
    /\ UNCHANGED <<op, approval, remote, verified, closed, call>>

Refuses(o) ==
    /\ Record(o, "FAILED")
    /\ UNCHANGED <<approval, remote, verified, closed, call>>

(* What a tick, people and the background do beside the three steps that   *)
(* claim a dispatch, store the verification and finish the task.           *)
OtherMove ==
    \/ \E takeover \in BOOLEAN : Stop(takeover)
    \/ Resume \/ Environment \/ Blocks
    \/ \E o \in Op :
         \/ Propose(o) \/ Expire(o) \/ Refuses(o)
         \/ \E decision \in {"APPROVED", "REJECTED"} : Decide(o, decision)
    \/ \E t \in Thread, o \in Op : Step(t, o)
    \/ \E t \in Thread : Crash(t)
    \/ UNCHANGED vars

LedgerMove ==
    \/ OtherMove
    \/ PutVerification
    \/ Finish
    \/ \E t \in Executor, o \in Op : ClaimDispatch(t, o)

(* Which is which.                                                         *)
LEMMA PlanSteps ==
    /\ Len(Plan) \in StepNo
    /\ 1 \in StepNo
    /\ \A i \in StepNo : Plan[i] \in Op /\ i \in Nat \ {0} /\ (i # Len(Plan) => i + 1 \in StepNo)
  BY TickAssumption DEF StepNo

(* The forms of a tick's place.                                            *)
LEMMA TickForms ==
    /\ Rest.pc = "rest" /\ Rest \in Tick
    /\ \A left, stopping :
         /\ Reconciling(left, stopping).pc = "reconciling"
         /\ left \in SUBSET Op /\ stopping \in BOOLEAN => Reconciling(left, stopping) \in Tick
    /\ \A pc, i :
         /\ At(pc, i).pc = pc /\ At(pc, i).step = i
         /\ pc \in StepPlaces /\ i \in StepNo =>
              At(pc, i) \in Tick
    /\ \A pc :
         /\ Doing(pc).pc = pc
         /\ pc \in {"finish", "verify", "complete", "block"} => Doing(pc) \in Tick
  BY DEF Rest, Reconciling, At, Doing, Tick

LEMMA TickPlaces ==
    ASSUME TickTypeOK, NEW t \in Executor
    PROVE  /\ tick[t].pc \in StepPlaces =>
                tick[t].step \in StepNo
           /\ tick[t].pc = "reconciling" => tick[t].left \in SUBSET Op /\ tick[t].stopping \in BOOLEAN
           /\ tick[t].pc = "rest" => tick[t] = Rest
  BY DEF TickTypeOK, Tick, Rest, StepPlaces

LEMMA VerifyIsMove == ASSUME NEW t, Verify(t) PROVE OtherMove \/ PutVerification
  BY DEF Verify, OtherMove, PutVerification, vars

LEMMA FinishIsMove ==
    ASSUME NEW t, TickFinish(t) \/ Complete(t)
    PROVE  OtherMove \/ (FinishTerminates /\ Finish)
           \/ (FinishWaits /\ Finish)
  BY DEF TickFinish, Complete, FinishKeeps, FinishRaises, Finish, OtherMove, vars

LEMMA ExecuteIsMove ==
    ASSUME TickTypeOK, NEW t \in Executor, TickExecute(t)
    PROVE  UNCHANGED vars \/ ClaimDispatch(t, Plan[tick[t].step])
  BY DEF TickExecute

LEMMA OtherTickMoves ==
    ASSUME TickTypeOK, NEW t \in Executor,
           \/ Begin(t) \/ Reconcile(t) \/ Query(t) \/ Reconciled(t) \/ Resolved(t)
           \/ PlanStep(t) \/ TickPropose(t) \/ Send(t) \/ Dispatched(t)
           \/ ReadApproval(t) \/ Refuse(t) \/ Block(t) \/ TickCrash(t)
    PROVE  OtherMove
<1>0. t \in Thread
  BY DEF Thread
<1>1. CASE Begin(t) \/ Resolved(t) \/ PlanStep(t) \/ ReadApproval(t)
  BY <1>1 DEF Begin, Resolved, PlanStep, ReadApproval, OtherMove
<1>2. CASE Reconcile(t)
  <2>1. PICK o \in tick[t].left : StartReconcile(t, o) \/ UNCHANGED vars
    BY <1>2 DEF Reconcile
  <2>2. o \in Op
    BY <1>2, TickPlaces DEF Reconcile, In
  <2>3. QED
    BY <1>0, <2>1, <2>2 DEF OtherMove, Step
<1>3. CASE Query(t)
  BY <1>0, <1>3 DEF Query, OtherMove, Step
<1>4. CASE Reconciled(t)
  BY <1>0, <1>4 DEF Reconciled, OtherMove, Step
<1>5. CASE TickPropose(t)
  <2>1. Plan[tick[t].step] \in Op
    BY <1>5, TickPlaces, PlanSteps DEF TickPropose, In, StepPlaces
  <2>2. QED
    BY <1>5, <2>1 DEF TickPropose, OtherMove
<1>6. CASE Send(t)
  BY <1>0, <1>6 DEF Send, OtherMove, Step
<1>7. CASE Dispatched(t)
  <2>1. Plan[tick[t].step] \in Op
    BY <1>7, TickPlaces, PlanSteps DEF Dispatched, StepPlaces
  <2>2. QED
    BY <1>0, <1>7, <2>1 DEF Dispatched, OtherMove, Step
<1>8. CASE Refuse(t)
  <2>1. Plan[tick[t].step] \in Op
    BY <1>8, TickPlaces, PlanSteps DEF Refuse, In, StepPlaces
  <2>2. QED
    BY <1>8, <2>1 DEF Refuse, Refuses, OtherMove
<1>9. CASE Block(t)
  BY <1>9 DEF Block, Blocks, OtherMove
<1>10. CASE TickCrash(t)
  <2>1. CASE call[t] = Idle
    <3>1. call' = call
      BY <1>0, <1>10, <2>1 DEF TickCrash, TickTypeOK, TypeOK
    <3>2. QED
      BY <1>10, <3>1 DEF TickCrash, OtherMove, vars
  <2>2. CASE call[t] # Idle
    BY <1>0, <1>10, <2>2 DEF TickCrash, Crash, OtherMove
  <2>3. QED
    BY <2>1, <2>2
<1>11. QED
  BY <1>1, <1>2, <1>3, <1>4, <1>5, <1>6, <1>7, <1>8, <1>9, <1>10

LEMMA OutsideMoves == People \/ Background => OtherMove
  BY DEF People, Background, OtherMove, Thread

-----------------------------------------------------------------------------
(***************************************************************************)
(* What the rows, threads and authority show, whatever moves the ledger.   *)
(***************************************************************************)
LEMMA MoveTypes == TypeOK /\ LedgerMove => TypeOK'
<1> SUFFICES ASSUME TypeOK, LedgerMove PROVE TypeOK'
  OBVIOUS
<1>1. CASE [Next]_vars
  BY <1>1, TypeStep
<1>2. CASE Blocks
  BY <1>2 DEF Blocks, Waiting, TypeOK, TaskRow, TaskStatus, Reason
<1>3. ASSUME NEW o \in Op, Refuses(o) PROVE TypeOK'
  <2>1. [op[o] EXCEPT !.status = "FAILED", !.recovery = "NONE", !.old = FALSE] \in OpRow
    BY DEF TypeOK, OpRow, OpStatus, Recovery
  <2>2. QED
    BY <1>3, <2>1 DEF Refuses, Record, RecordStatus, OldAfter, TypeOK
<1>4. LedgerMove => [Next]_vars \/ Blocks \/ \E o \in Op : Refuses(o)
  BY DEF LedgerMove, OtherMove, Next, Control
<1>5. QED
  BY <1>1, <1>2, <1>3, <1>4

(* An answer changes one row, its status to what it says and its claims    *)
(* not at all, and a task that is live to one that waits.                  *)
LEMMA RecordChanges ==
    ASSUME TypeOK, NEW o \in Op, NEW status \in OpStatus, Record(o, status)
    PROVE  /\ \A p \in Op : p # o => op'[p] = op[p]
           /\ op'[o].status \in {op[o].status, status}
           /\ op'[o].attempts = op[o].attempts
           /\ op[o].status = "SUCCEEDED" => op'[o].status = "SUCCEEDED"
           /\ task' = task \/ (Live /\ task' = Waiting("RECONCILIATION"))
<1>1. CASE RecordIgnored(o, status)
  BY <1>1 DEF Record
<1>2. CASE ~RecordIgnored(o, status)
  <2>1. op[o] \in OpRow /\ op[o].status # "SUCCEEDED"
    BY <1>2 DEF RecordIgnored, TypeOK
  <2>2. op'[o].status = status /\ op'[o].attempts = op[o].attempts
    <3>1. PICK recovery, old :
            op' = [op EXCEPT ![o] = [@ EXCEPT !.status = status, !.recovery = recovery, !.old = old]]
      BY <1>2 DEF Record, RecordStatus
    <3>2. op'[o] = [op[o] EXCEPT !.status = status, !.recovery = recovery, !.old = old]
      BY <3>1 DEF TypeOK
    <3>3. QED
      BY <2>1, <3>2 DEF OpRow
  <2>3. \A p \in Op : p # o => op'[p] = op[p]
    BY <1>2 DEF Record, RecordStatus, TypeOK
  <2>4. task' = task \/ (Live /\ task' = Waiting("RECONCILIATION"))
    BY <1>2 DEF Record, RecordStatus
  <2>5. QED
    BY <2>1, <2>2, <2>3, <2>4
<1>3. QED
  BY <1>1, <1>2

LEMMA OutcomeIsRecorded ==
    ASSUME TypeOK, NEW t \in Thread, NEW o \in Op, RecordOutcome(t, o)
    PROVE  \E out \in Outcome :
             /\ call[t] \in {Executed(o, out), Queried(o, out)}
             /\ Verdict(out) \in OpStatus \ {"ABSENT"}
             /\ Verdict(out) = "SUCCEEDED" => out = "SUCCEEDED"
             /\ Record(o, Verdict(out))
             /\ call'[t] = Idle
             /\ \A u \in Thread : u # t => call'[u] = call[u]
  BY DEF RecordOutcome, Outcome, Verdict, OpStatus, TypeOK

(* Only a claim counts as an attempt.                                      *)
LEMMA AttemptsKept ==
    ASSUME TypeOK, OtherMove \/ PutVerification \/ Finish, NEW o \in Op
    PROVE  op'[o].attempts = op[o].attempts
<1>1. ASSUME NEW p \in Op, Propose(p) PROVE op'[o].attempts = op[o].attempts
  BY <1>1 DEF Propose, TypeOK, OpRow
<1>2. ASSUME NEW p \in Op, Refuses(p) PROVE op'[o].attempts = op[o].attempts
  BY <1>2, RecordChanges DEF Refuses, OpStatus
<1>3. ASSUME NEW t \in Thread, NEW p \in Op, RecordOutcome(t, p) PROVE op'[o].attempts = op[o].attempts
  BY <1>3, OutcomeIsRecorded, RecordChanges
<1>4. ASSUME NEW t \in Thread, NEW p \in Op, Step(t, p), ~RecordOutcome(t, p) PROVE op' = op
  BY <1>4 DEF Step, RemoteExecute, StartReconcile, QueryFinds, QueryUncertain
<1>5. ASSUME NEW p \in Op, Expire(p) \/ \E d \in {"APPROVED", "REJECTED"} : Decide(p, d) PROVE op' = op
  BY <1>5 DEF Expire, Decide
<1>6. ASSUME NEW t \in Thread, Crash(t) PROVE op' = op
  BY <1>6 DEF Crash
<1>7. ASSUME \/ \E b \in BOOLEAN : Stop(b)
             \/ Resume \/ Environment \/ Blocks \/ PutVerification \/ Finish \/ UNCHANGED vars
      PROVE  op' = op
  BY <1>7 DEF Stop, Resume, Environment, Blocks, PutVerification, Finish, vars
<1>8. QED
  BY <1>1, <1>2, <1>3, <1>4, <1>5, <1>6, <1>7 DEF OtherMove

(* How a claim changes the rows.                                           *)
LEMMA ClaimChanges ==
    ASSUME TypeOK, NEW t \in Executor, NEW o \in Op, ClaimDispatch(t, o)
    PROVE  /\ \A p \in Op : p # o => op'[p] = op[p]
           /\ op[o].status = "NOT_SUBMITTED" /\ op'[o].status = "PENDING" /\ op'[o].attempts > 0
           /\ call'[t] = Sending(o)
           /\ \A u \in Thread : u # t => call'[u] = call[u]
           /\ UNCHANGED <<remote, verified>>
<1>1. op[o].attempts + 1 > 0 /\ t \in Thread
  BY DEF TypeOK, OpRow, Thread
<1>2. QED
  BY <1>1 DEF ClaimDispatch, Dispatchable, TypeOK, OpRow

LEMMA SuccessStays ==
    ASSUME TypeOK, LedgerMove, NEW o \in Op, op[o].status = "SUCCEEDED"
    PROVE  op'[o].status = "SUCCEEDED"
<1>1. ASSUME NEW p \in Op, Propose(p) PROVE op'[o].status = "SUCCEEDED"
  BY <1>1 DEF Propose, TypeOK, OpRow
<1>2. ASSUME NEW p \in Op, Refuses(p) PROVE op'[o].status = "SUCCEEDED"
  BY <1>2, RecordChanges DEF Refuses, OpStatus
<1>3. ASSUME NEW t \in Thread, NEW p \in Op, RecordOutcome(t, p) PROVE op'[o].status = "SUCCEEDED"
  BY <1>3, OutcomeIsRecorded, RecordChanges
<1>4. ASSUME NEW t \in Executor, NEW p \in Op, ClaimDispatch(t, p) PROVE op'[o].status = "SUCCEEDED"
  BY <1>4, ClaimChanges
<1>5. ASSUME NEW t \in Thread, NEW p \in Op, Step(t, p), ~RecordOutcome(t, p) PROVE op' = op
  BY <1>5 DEF Step, RemoteExecute, StartReconcile, QueryFinds, QueryUncertain
<1>6. ASSUME NEW p \in Op, Expire(p) \/ \E d \in {"APPROVED", "REJECTED"} : Decide(p, d) PROVE op' = op
  BY <1>6 DEF Expire, Decide
<1>7. ASSUME NEW t \in Thread, Crash(t) PROVE op' = op
  BY <1>7 DEF Crash
<1>8. ASSUME \/ \E b \in BOOLEAN : Stop(b)
             \/ Resume \/ Environment \/ Blocks \/ PutVerification \/ Finish \/ UNCHANGED vars
      PROVE  op' = op
  BY <1>8 DEF Stop, Resume, Environment, Blocks, PutVerification, Finish, vars
<1>9. QED
  BY <1>1, <1>2, <1>3, <1>4, <1>5, <1>6, <1>7, <1>8 DEF OtherMove, LedgerMove

LEMMA ItsOpWasClaimed ==
    ASSUME TypeOK, OnlyClaimed, NEW t \in Thread, NEW o \in Op, NEW out,
           call[t] \in {Sending(o), Querying(o), Executed(o, out), Queried(o, out)}
    PROVE  op[o].attempts > 0
  BY CallForms DEF OnlyClaimed

LEMMA ClaimedStep ==
    ASSUME TypeOK, TypeOK', OnlyClaimed, LedgerMove
    PROVE  OnlyClaimed'
<1> DEFINE Kept == \A p \in Op : op'[p].attempts = op[p].attempts
           Rows == \A p \in Op : op'[p].status \in {"PENDING", "UNKNOWN", "SUCCEEDED"} => op'[p].attempts > 0
<1>1. CASE UNCHANGED <<op, remote, call>>
  BY <1>1 DEF OnlyClaimed
<1>2. ASSUME NEW o \in Op, NEW status \in OpStatus, Record(o, status), UNCHANGED remote,
             op[o].attempts > 0 \/ status = "FAILED"
      PROVE  Kept /\ Rows
  BY <1>2, RecordChanges DEF OnlyClaimed
<1>3. ASSUME NEW o \in Op, Refuses(o) PROVE OnlyClaimed'
  <2>1. Kept /\ Rows
    BY <1>2, <1>3 DEF Refuses, OpStatus
  <2>2. \A t \in Thread : call[t] # Idle => call[t].op \in Op
    BY BusyOp
  <2>3. QED
    BY <1>3, <2>1, <2>2 DEF Refuses, OnlyClaimed
<1>4. ASSUME NEW o \in Op, Propose(o) PROVE OnlyClaimed'
  <2>1. Kept
    BY <1>4, AttemptsKept DEF OtherMove
  <2>2. Rows
    BY <1>4, <2>1 DEF Propose, OnlyClaimed, TypeOK, OpRow
  <2>3. \A t \in Thread : call[t] # Idle => call[t].op \in Op
    BY BusyOp
  <2>4. QED
    BY <1>4, <2>1, <2>2, <2>3 DEF Propose, OnlyClaimed
<1>5. ASSUME NEW t \in Executor, NEW o \in Op, ClaimDispatch(t, o) PROVE OnlyClaimed'
  <2>1. \A u \in Thread : u # t /\ call[u] # Idle => call[u].op \in Op
    BY BusyOp
  <2>2. \A p \in Op : op[p].attempts > 0 => op'[p].attempts > 0
    BY <1>5, ClaimChanges
  <2>3. call'[t].op = o
    BY <1>5, ClaimChanges, CallForms
  <2>4. QED
    BY <1>5, <2>1, <2>2, <2>3, ClaimChanges DEF OnlyClaimed
<1>6. ASSUME NEW t \in Thread, NEW o \in Op, RecordOutcome(t, o) PROVE OnlyClaimed'
  <2>1. PICK out \in Outcome :
          /\ call[t] \in {Executed(o, out), Queried(o, out)}
          /\ Verdict(out) \in OpStatus \ {"ABSENT"}
          /\ Record(o, Verdict(out))
          /\ call'[t] = Idle
          /\ \A u \in Thread : u # t => call'[u] = call[u]
    BY <1>6, OutcomeIsRecorded
  <2>2. op[o].attempts > 0 /\ UNCHANGED remote
    BY <1>6, <2>1, ItsOpWasClaimed DEF RecordOutcome
  <2>3. Kept /\ Rows
    BY <1>2, <2>1, <2>2
  <2>4. \A u \in Thread : call[u] # Idle => call[u].op \in Op
    BY BusyOp
  <2>5. QED
    BY <2>1, <2>2, <2>3, <2>4 DEF OnlyClaimed
<1>7. ASSUME NEW t \in Thread, NEW o \in Op, Step(t, o), ~RecordOutcome(t, o) PROVE OnlyClaimed'
  <2>1. PICK out \in Outcome :
          call' = [call EXCEPT ![t] = Querying(o)] \/ call' = [call EXCEPT ![t] = Executed(o, out)]
          \/ call' = [call EXCEPT ![t] = Queried(o, out)]
    BY <1>7 DEF Step, RemoteExecute, RemoteCommits, RemoteRejects, RemoteUnreachable,
                StartReconcile, QueryFinds, QueryUncertain, Outcome
  <2>2. call'[t].op = o /\ \A u \in Thread : u # t => call'[u] = call[u]
    BY <2>1, CallForms DEF TypeOK
  <2>3. op[o].attempts > 0
    BY <1>7, ItsOpWasClaimed DEF Step, RemoteExecute, StartReconcile, QueryFinds, QueryUncertain,
                                    Unresolved, OnlyClaimed
  <2>4. op' = op
    BY <1>7 DEF Step, RemoteExecute, StartReconcile, QueryFinds, QueryUncertain
  <2>5. \A p \in Op : p # o => remote'[p] = remote[p]
    BY <1>7 DEF Step, RemoteExecute, RemoteCommits, RemoteRejects, RemoteUnreachable,
                StartReconcile, QueryFinds, QueryUncertain, TypeOK
  <2>6. QED
    BY <2>2, <2>3, <2>4, <2>5 DEF OnlyClaimed
<1>8. ASSUME NEW t \in Thread, Crash(t) PROVE OnlyClaimed'
  <2>1. \A u \in Thread : call'[u] \in {call[u], Idle}
    BY <1>8 DEF Crash, TypeOK
  <2>2. UNCHANGED <<op, remote>>
    BY <1>8 DEF Crash
  <2>3. QED
    BY <2>1, <2>2 DEF OnlyClaimed
<1>9. ASSUME NEW o \in Op, Expire(o) \/ \E d \in {"APPROVED", "REJECTED"} : Decide(o, d)
      PROVE  UNCHANGED <<op, remote, call>>
  BY <1>9 DEF Expire, Decide
<1>10. ASSUME \/ \E b \in BOOLEAN : Stop(b)
              \/ Resume \/ Environment \/ Blocks \/ PutVerification \/ Finish \/ UNCHANGED vars
       PROVE  UNCHANGED <<op, remote, call>>
  BY <1>10 DEF Stop, Resume, Environment, Blocks, PutVerification, Finish, vars
<1>11. QED
  BY <1>1, <1>3, <1>4, <1>5, <1>6, <1>7, <1>8, <1>9, <1>10 DEF OtherMove, LedgerMove

(* A receipt is never withdrawn.                                           *)
LEMMA ReceiptStays ==
    ASSUME TypeOK, LedgerMove, NEW o \in Op, remote[o].receipt
    PROVE  remote'[o].receipt
<1>1. ASSUME NEW t \in Thread, NEW p \in Op, RemoteExecute(t, p) PROVE remote'[o].receipt
  BY <1>1 DEF RemoteExecute, RemoteCommits, RemoteRejects, RemoteUnreachable, TypeOK, Authority
<1>2. ASSUME NEW t \in Thread, NEW p \in Op, Step(t, p), ~RemoteExecute(t, p) PROVE remote' = remote
  BY <1>2 DEF Step, StartReconcile, QueryFinds, QueryUncertain, RecordOutcome
<1>3. ASSUME NEW p \in Op, \/ Propose(p) \/ Refuses(p) \/ Expire(p)
                           \/ \E d \in {"APPROVED", "REJECTED"} : Decide(p, d)
      PROVE  remote' = remote
  BY <1>3 DEF Propose, Refuses, Expire, Decide
<1>4. ASSUME NEW t \in Executor, NEW p \in Op, ClaimDispatch(t, p) PROVE remote' = remote
  BY <1>4 DEF ClaimDispatch, Dispatchable
<1>5. ASSUME NEW t \in Thread, Crash(t) PROVE remote' = remote
  BY <1>5 DEF Crash
<1>6. ASSUME \/ \E b \in BOOLEAN : Stop(b)
             \/ Resume \/ Environment \/ Blocks \/ PutVerification \/ Finish \/ UNCHANGED vars
      PROVE  remote' = remote
  BY <1>6 DEF Stop, Resume, Environment, Blocks, PutVerification, Finish, vars
<1>7. QED
  BY <1>1, <1>2, <1>3, <1>4, <1>5, <1>6 DEF OtherMove, LedgerMove

LEMMA ReceiptsStep ==
    ASSUME TypeOK, TypeOK', OnlyReceipts, LedgerMove
    PROVE  OnlyReceipts'
<1> DEFINE Shows(t, p) == call[t] \in {Executed(p, "SUCCEEDED"), Queried(p, "SUCCEEDED")}
           Told == \A t \in Thread, p \in Op : Shows(t, p)' => remote'[p].receipt
           Rows == \A p \in Op : op'[p].status = "SUCCEEDED" => remote'[p].receipt
<1>0. Told /\ Rows => OnlyReceipts'
  BY DEF OnlyReceipts
<1>1. \A p \in Op : remote[p].receipt => remote'[p].receipt
  BY ReceiptStays
<1>4. call' = call => Told
  BY <1>1 DEF OnlyReceipts
<1>5. op' = op => Rows
  BY <1>1 DEF OnlyReceipts
<1>6. ASSUME NEW o \in Op, Propose(o) \/ Refuses(o) PROVE OnlyReceipts'
  <2>1. call' = call
    BY <1>6 DEF Propose, Refuses
  <2>2. \A p \in Op : op'[p].status = "SUCCEEDED" => op[p].status = "SUCCEEDED"
    <3>1. CASE Propose(o)
      BY <3>1 DEF Propose, TypeOK, OpRow
    <3>2. CASE Refuses(o)
      BY <3>2, RecordChanges DEF Refuses, OpStatus
    <3>3. QED
      BY <1>6, <3>1, <3>2
  <2>3. QED
    BY <1>0, <1>1, <1>4, <2>1, <2>2 DEF OnlyReceipts
<1>7. ASSUME NEW t \in Executor, NEW o \in Op, ClaimDispatch(t, o) PROVE OnlyReceipts'
  <2>0. \A p \in Op : op'[p].status = "SUCCEEDED" => op[p].status = "SUCCEEDED"
    BY <1>7, ClaimChanges
  <2>1. Rows
    BY <1>1, <2>0 DEF OnlyReceipts
  <2>2. \A p \in Op : ~Shows(t, p)'
    <3>1. call'[t] = Sending(o)
      BY <1>7, ClaimChanges
    <3>2. \A p : Sending(o) # Executed(p, "SUCCEEDED") /\ Sending(o) # Queried(p, "SUCCEEDED")
      BY CallForms
    <3>3. QED
      BY <3>1, <3>2
  <2>3. Told
    BY <1>1, <1>7, <2>2, ClaimChanges DEF OnlyReceipts
  <2>4. QED
    BY <1>0, <2>1, <2>3
<1>8. ASSUME NEW t \in Thread, NEW o \in Op, RecordOutcome(t, o) PROVE OnlyReceipts'
  <2>1. PICK out \in Outcome :
          /\ call[t] \in {Executed(o, out), Queried(o, out)}
          /\ Verdict(out) \in OpStatus \ {"ABSENT"}
          /\ Verdict(out) = "SUCCEEDED" => out = "SUCCEEDED"
          /\ Record(o, Verdict(out))
          /\ call'[t] = Idle
          /\ \A u \in Thread : u # t => call'[u] = call[u]
    BY <1>8, OutcomeIsRecorded
  <2>2. Verdict(out) = "SUCCEEDED" => remote[o].receipt
    BY <2>1 DEF OnlyReceipts
  <2>3. \A p \in Op : op'[p].status = "SUCCEEDED" => op[p].status = "SUCCEEDED" \/ remote[p].receipt
    BY <2>1, <2>2, RecordChanges
  <2>4. \A p \in Op : ~Shows(t, p)'
    BY <2>1, CallForms
  <2>5. Told
    BY <1>1, <2>1, <2>4 DEF OnlyReceipts
  <2>6. QED
    BY <1>0, <1>1, <2>3, <2>5 DEF OnlyReceipts
<1>9. ASSUME NEW t \in Thread, NEW o \in Op, Step(t, o), ~RecordOutcome(t, o) PROVE OnlyReceipts'
  <2>1. op' = op
    BY <1>9 DEF Step, RemoteExecute, StartReconcile, QueryFinds, QueryUncertain
  <2>2. PICK out \in Outcome :
          /\ call'[t] \in {Querying(o), Executed(o, out), Queried(o, out)}
          /\ \A u \in Thread : u # t => call'[u] = call[u]
          /\ out = "SUCCEEDED" => remote'[o].receipt
    BY <1>9 DEF Step, RemoteExecute, RemoteCommits, RemoteRejects, RemoteUnreachable,
                StartReconcile, QueryFinds, QueryUncertain, Outcome, TypeOK, Authority
  <2>3. \A p \in Op : Shows(t, p)' => p = o /\ out = "SUCCEEDED"
    BY <2>2, CallForms
  <2>4. Told
    BY <1>1, <2>2, <2>3 DEF OnlyReceipts
  <2>5. QED
    BY <1>0, <1>5, <2>1, <2>4
<1>10. ASSUME NEW t \in Thread, Crash(t) PROVE OnlyReceipts'
  <2>1. op' = op /\ call'[t] = Idle /\ \A u \in Thread : u # t => call'[u] = call[u]
    BY <1>10 DEF Crash, TypeOK
  <2>2. \A p \in Op : ~Shows(t, p)'
    BY <2>1, CallForms
  <2>3. Told
    BY <1>1, <2>1, <2>2 DEF OnlyReceipts
  <2>4. QED
    BY <1>0, <1>5, <2>1, <2>3
<1>11. ASSUME NEW o \in Op, Expire(o) \/ \E d \in {"APPROVED", "REJECTED"} : Decide(o, d)
       PROVE  UNCHANGED <<op, call>>
  BY <1>11 DEF Expire, Decide
<1>12. ASSUME \/ \E b \in BOOLEAN : Stop(b)
              \/ Resume \/ Environment \/ Blocks \/ PutVerification \/ Finish \/ UNCHANGED vars
       PROVE  UNCHANGED <<op, call>>
  BY <1>12 DEF Stop, Resume, Environment, Blocks, PutVerification, Finish, vars
<1>13. QED
  BY <1>0, <1>4, <1>5, <1>6, <1>7, <1>8, <1>9, <1>10, <1>11, <1>12 DEF OtherMove, LedgerMove

(***************************************************************************)
(* The task row: what can be written over a stop or a takeover.            *)
(***************************************************************************)
ControlKept ==
    /\ task.takenOver /\ task'.takenOver => task' = task
    /\ task.cancelled => task'.cancelled /\ task'.reason \in {"RECONCILIATION", "NONE"}

LEMMA ControlKeptStep ==
    ASSUME TypeOK, TypeOK', CancelledShows, LedgerMove
    PROVE  CancelledShows' /\ ControlKept
<1> USE DEF CancelledShows, ControlKept
<1>0. task \in TaskRow
  BY DEF TypeOK
<1>1. CASE task' = task
  BY <1>1
<1>2. ASSUME NEW r \in Reason, Live, task' = Waiting(r) PROVE CancelledShows' /\ ControlKept
  BY <1>0, <1>2 DEF Live, Waiting, TaskRow
<1>3. ASSUME NEW b \in BOOLEAN, Stop(b) PROVE CancelledShows' /\ ControlKept
  BY <1>0, <1>3 DEF Stop, TaskRow
<1>4. CASE Resume
  BY <1>0, <1>4 DEF Resume, TaskRow
<1>5. CASE Finish
  <2>1. CASE FinishWaits
    BY <1>0, <2>1 DEF FinishWaits, Waiting, TaskRow
  <2>2. CASE FinishTerminates
    BY <1>0, <2>2 DEF FinishTerminates, TaskRow
  <2>3. QED
    BY <1>5, <2>1, <2>2 DEF Finish
<1>6. ASSUME NEW o \in Op, Propose(o) PROVE task' = task \/ (Live /\ task' = Waiting("APPROVAL"))
  BY <1>6 DEF Propose, Executable
<1>7. ASSUME NEW o \in Op, NEW status \in OpStatus, Record(o, status)
      PROVE  task' = task \/ (Live /\ task' = Waiting("RECONCILIATION"))
  BY <1>7, RecordChanges
<1>8. ASSUME NEW o \in Op, Refuses(o) PROVE task' = task \/ (Live /\ task' = Waiting("RECONCILIATION"))
  BY <1>7, <1>8 DEF Refuses, OpStatus
<1>9. ASSUME NEW t \in Thread, NEW o \in Op, RecordOutcome(t, o)
      PROVE  task' = task \/ (Live /\ task' = Waiting("RECONCILIATION"))
  BY <1>7, <1>9, OutcomeIsRecorded
<1>10. ASSUME NEW t \in Thread, NEW o \in Op, Step(t, o), ~RecordOutcome(t, o) PROVE task' = task
  BY <1>10 DEF Step, RemoteExecute, StartReconcile, QueryFinds, QueryUncertain
<1>11. ASSUME NEW t \in Executor, NEW o \in Op, ClaimDispatch(t, o) PROVE CancelledShows' /\ ControlKept
  BY <1>0, <1>11 DEF ClaimDispatch, Dispatchable, Executable, Live, TaskRow
<1>12. CASE Blocks
  BY <1>1, <1>2, <1>12 DEF Blocks, Reason
<1>13. ASSUME NEW o \in Op, Expire(o) \/ \E d \in {"APPROVED", "REJECTED"} : Decide(o, d)
       PROVE  task' = task
  BY <1>13 DEF Expire, Decide
<1>14. ASSUME NEW t \in Thread, Crash(t) PROVE task' = task
  BY <1>14 DEF Crash
<1>15. ASSUME Environment \/ PutVerification \/ UNCHANGED vars PROVE task' = task
  BY <1>15 DEF Environment, PutVerification, vars
<1>16. {"APPROVAL", "RECONCILIATION"} \subseteq Reason
  BY DEF Reason
<1>17. QED
  BY <1>1, <1>2, <1>3, <1>4, <1>5, <1>6, <1>8, <1>9, <1>10, <1>11, <1>12, <1>13, <1>14, <1>15, <1>16
  DEF OtherMove, LedgerMove

(* Evidence and result are touched by nothing but the steps named for it.  *)
LEMMA EndKept ==
    ASSUME TypeOK, OtherMove
    PROVE  verified' = verified /\ task'.result = task.result
<1>0. task \in TaskRow
  BY DEF TypeOK
<1>1. ASSUME NEW r, task' = task \/ task' = Waiting(r) PROVE task'.result = task.result
  BY <1>0, <1>1 DEF Waiting, TaskRow
<1>2. ASSUME NEW b \in BOOLEAN, Stop(b) PROVE verified' = verified /\ task'.result = task.result
  BY <1>0, <1>2 DEF Stop, TaskRow
<1>3. CASE Resume
  BY <1>0, <1>3 DEF Resume, TaskRow
<1>4. CASE Blocks
  BY <1>1, <1>4 DEF Blocks
<1>5. ASSUME NEW o \in Op, Propose(o) PROVE verified' = verified /\ task'.result = task.result
  BY <1>1, <1>5 DEF Propose
<1>6. ASSUME NEW o \in Op, Refuses(o) PROVE verified' = verified /\ task'.result = task.result
  BY <1>1, <1>6, RecordChanges DEF Refuses, OpStatus
<1>7. ASSUME NEW t \in Thread, NEW o \in Op, RecordOutcome(t, o)
      PROVE  verified' = verified /\ task'.result = task.result
  <2>1. verified' = verified
    BY <1>7 DEF RecordOutcome
  <2>2. QED
    BY <1>1, <1>7, <2>1, OutcomeIsRecorded, RecordChanges
<1>8. ASSUME NEW t \in Thread, NEW o \in Op, Step(t, o), ~RecordOutcome(t, o)
      PROVE  UNCHANGED <<task, verified>>
  BY <1>8 DEF Step, RemoteExecute, StartReconcile, QueryFinds, QueryUncertain
<1>9. ASSUME NEW o \in Op, Expire(o) \/ \E d \in {"APPROVED", "REJECTED"} : Decide(o, d)
      PROVE  UNCHANGED <<task, verified>>
  BY <1>9 DEF Expire, Decide
<1>10. ASSUME NEW t \in Thread, Crash(t) PROVE UNCHANGED <<task, verified>>
  BY <1>10 DEF Crash
<1>11. ASSUME Environment \/ UNCHANGED vars PROVE UNCHANGED <<task, verified>>
  BY <1>11 DEF Environment, vars
<1>12. QED
  BY <1>2, <1>3, <1>4, <1>5, <1>6, <1>7, <1>8, <1>9, <1>10, <1>11 DEF OtherMove

-----------------------------------------------------------------------------
(***************************************************************************)
(* Where a tick goes, and what becomes of the workflow's activity.         *)
(***************************************************************************)
InTurn(place) ==
    /\ place.pc \in StepPlaces =>
         Passed(place.step)
    /\ place.pc \in {"verify", "complete"} => Passed(Len(Plan) + 1)

NobodyWorks == \A u \in Worker : tick[u] = Rest

Stays(t, place) ==
    /\ UNCHANGED <<workflow, failures>>
    /\ t \in Worker /\ place # Rest => tick[t] # Rest \/ (workflow = "running" /\ NobodyWorks)

Returns(t, place) ==
    /\ t \in Worker /\ place = Rest /\ (tick[t] # Rest \/ NobodyWorks)
    /\ failures' = 0 /\ workflow' \in {workflow, "done"}

Dies(t, place) ==
    /\ t \in Worker /\ place = Rest /\ tick[t] # Rest
    /\ failures' = failures + 1
    /\ workflow' = IF failures' = MaxAttempts /\ workflow = "running" THEN "failed" ELSE workflow

Goes(t, place) ==
    /\ tick' = [tick EXCEPT ![t] = place]
    /\ Stays(t, place) \/ Returns(t, place) \/ Dies(t, place)

LEMMA ActivityStep ==
    ASSUME TickTypeOK, OneActivity, NEW t \in Executor, NEW place \in Tick, Goes(t, place)
    PROVE  /\ OneActivity'
           /\ tick' \in [Executor -> Tick]
           /\ workflow' \in {"running", "done", "failed"}
           /\ failures' \in 0..MaxAttempts
<1>1. tick' \in [Executor -> Tick] /\ tick'[t] = place /\ \A u \in Executor : u # t => tick'[u] = tick[u]
  BY DEF Goes, TickTypeOK
<1>2. Worker \subseteq Executor /\ MaxAttempts \in Nat \ {0}
  BY TickAssumption
<1>3. CASE Stays(t, place)
  BY <1>1, <1>2, <1>3 DEF Stays, NobodyWorks, OneActivity, TickTypeOK
<1>4. CASE Returns(t, place)
  <2>1. \A u \in Worker : tick'[u] = Rest
    BY <1>1, <1>2, <1>4 DEF Returns, NobodyWorks, OneActivity
  <2>2. QED
    BY <1>1, <1>2, <1>4, <2>1 DEF Returns, OneActivity, TickTypeOK
<1>5. CASE Dies(t, place)
  <2>1. \A u \in Worker : tick'[u] = Rest
    BY <1>1, <1>2, <1>5 DEF Dies, OneActivity
  <2>2. failures + 1 \in 0..MaxAttempts
    BY <1>2, <1>5 DEF Dies, OneActivity, TickTypeOK
  <2>3. QED
    BY <1>1, <1>2, <1>5, <2>1, <2>2 DEF Dies, OneActivity, TickTypeOK
<1>6. QED
  BY <1>3, <1>4, <1>5 DEF Goes

LEMMA PlaceIsInTurn == ASSUME TicksInTurn, NEW t \in Executor PROVE InTurn(tick[t])
  BY DEF TicksInTurn, InTurn

(* Goto, Return and Raise are such moves.                                  *)
LEMMA GotoGoes ==
    ASSUME NEW t \in Executor, NEW place, Goto(t, place), tick[t] # Rest
    PROVE  Goes(t, place)
  BY DEF Goto, Goes, Stays

LEMMA ReturnGoes ==
    ASSUME NEW t \in Executor, NEW done, Return(t, done), tick[t] # Rest \/ NobodyWorks
    PROVE  Goes(t, Rest)
  BY DEF Return, Goes, Stays, Returns

(* A place outside the plan's steps says nothing about them.               *)
LEMMA FreePlaces ==
    /\ InTurn(Rest) /\ InTurn(Doing("finish")) /\ InTurn(Doing("block"))
    /\ \A left, stopping : InTurn(Reconciling(left, stopping))
    /\ InTurn(At("step", 1))
<1>1. Passed(1)
  BY DEF Passed
<1>2. QED
  BY <1>1, TickForms DEF InTurn, StepPlaces

Turns(t) == UNCHANGED tickVars \/ \E place \in Tick : Goes(t, place) /\ InTurn(place)

LEMMA BusyPlaces ==
    ASSUME NEW t, tick[t].pc # "rest"
    PROVE  tick[t] # Rest
  BY TickForms

LEMMA RaiseTurns ==
    ASSUME NEW t \in Executor, Raise(t), tick[t] # Rest
    PROVE  Turns(t)
<1>1. Doing("block") \in Tick /\ Rest \in Tick
  BY TickForms
<1>2. QED
  BY <1>1, GotoGoes, FreePlaces DEF Raise, Turns

LEMMA ReturnTurns ==
    ASSUME NEW t \in Executor, NEW done, Return(t, done), tick[t] # Rest \/ NobodyWorks
    PROVE  Turns(t)
  BY ReturnGoes, FreePlaces, TickForms DEF Turns

LEMMA GotoTurns ==
    ASSUME NEW t \in Executor, NEW place \in Tick, Goto(t, place), tick[t] # Rest, InTurn(place)
    PROVE  Turns(t)
  BY GotoGoes DEF Turns

(* From a step a tick goes on with the same one.                           *)
LEMMA SameStepTurns ==
    ASSUME TickTypeOK, TicksInTurn, NEW t \in Executor, tick[t].pc \in StepPlaces,
           NEW pc \in StepPlaces, Goto(t, At(pc, tick[t].step))
    PROVE  Turns(t)
<1>1. tick[t].step \in StepNo /\ Passed(tick[t].step) /\ tick[t] # Rest
  BY TickPlaces, BusyPlaces DEF TicksInTurn, StepPlaces
<1>2. At(pc, tick[t].step) \in Tick /\ InTurn(At(pc, tick[t].step))
  BY <1>1, TickForms DEF InTurn, StepPlaces
<1>3. QED
  BY <1>1, <1>2, GotoTurns

LEMMA PlanStepTurns ==
    ASSUME TickTypeOK, TicksInTurn, NEW t \in Executor, PlanStep(t)
    PROVE  Turns(t)
<1> DEFINE i == tick[t].step
           s == op[Plan[i]].status
<1>1. i \in StepNo /\ Passed(i) /\ tick[t] # Rest /\ tick[t].pc \in StepPlaces
  BY TickPlaces, BusyPlaces DEF TicksInTurn, PlanStep, In, StepPlaces
<1>2. CASE s = "SUCCEEDED"
  <2>1. AtStep(i) = AfterStep(i)
    BY <1>2 DEF AtStep
  <2>2. Passed(i + 1)
    BY <1>1, <1>2, PlanSteps DEF Passed, StepNo
  <2>3. AfterStep(i) \in Tick /\ InTurn(AfterStep(i))
    <3>1. CASE i = Len(Plan)
      BY <2>2, <3>1, TickForms DEF AfterStep, InTurn, StepPlaces
    <3>2. CASE i # Len(Plan)
      BY <1>1, <2>2, <3>2, TickForms, PlanSteps DEF AfterStep, InTurn, StepPlaces
    <3>3. QED
      BY <3>1, <3>2
  <2>4. QED
    BY <1>1, <2>1, <2>3, GotoTurns DEF PlanStep
<1>3. CASE s = "FAILED"
  BY <1>1, <1>3, GotoTurns, FreePlaces, TickForms DEF PlanStep, AtStep
<1>4. CASE s = "ABSENT"
  BY <1>1, <1>4, SameStepTurns DEF PlanStep, AtStep, StepPlaces
<1>5. CASE s \notin {"SUCCEEDED", "FAILED", "ABSENT"}
  BY <1>1, <1>5, SameStepTurns DEF PlanStep, AtStep, StepPlaces
<1>6. QED
  BY <1>2, <1>3, <1>4, <1>5

LEMMA ReconcileTurns ==
    ASSUME TickTypeOK, NEW t \in Executor, Reconcile(t)
    PROVE  Turns(t)
<1>1. PICK o \in tick[t].left : Goto(t, [tick[t] EXCEPT !.left = @ \ {o}])
  BY DEF Reconcile
<1>2. tick[t].pc = "reconciling" /\ tick[t] # Rest
  BY BusyPlaces DEF Reconcile, In
<1>3. tick[t] \in [pc : {"reconciling"}, left : SUBSET Op, stopping : BOOLEAN]
  BY <1>2 DEF TickTypeOK, Tick, Rest, StepPlaces
<1> DEFINE place == [tick[t] EXCEPT !.left = @ \ {o}]
<1>4. place \in [pc : {"reconciling"}, left : SUBSET Op, stopping : BOOLEAN]
  BY <1>3
<1>5. place \in Tick /\ place.pc = "reconciling"
  BY <1>4 DEF Tick
<1>6. InTurn(place)
  BY <1>5 DEF InTurn, StepPlaces
<1>7. QED
  BY <1>1, <1>2, <1>5, <1>6, GotoTurns

LEMMA BeginTurns ==
    ASSUME TickTypeOK, NEW t \in Executor, Begin(t)
    PROVE  Turns(t)
<1> DEFINE left == {o \in Op : Unresolved(o)}
           place == Reconciling(left, task.cancelled)
<1>0. t \in Worker => workflow = "running" /\ NobodyWorks
  BY DEF Begin, NobodyWorks
<1>1. CASE Return(t, TRUE)
  <2>1. CASE t \in Worker
    BY <1>0, <1>1, <2>1, ReturnTurns
  <2>2. CASE t \notin Worker
    BY <1>1, <2>2, FreePlaces, TickForms DEF Return, Turns, Goes, Stays
  <2>3. QED
    BY <2>1, <2>2
<1>2. CASE Goto(t, place)
  <2>1. left \in SUBSET Op /\ task.cancelled \in BOOLEAN
    BY DEF TickTypeOK, TypeOK, TaskRow
  <2>2. place \in Tick /\ InTurn(place)
    BY <2>1, TickForms, FreePlaces
  <2>3. Goes(t, place)
    BY <1>0, <1>2 DEF Goto, Goes, Stays
  <2>4. QED
    BY <2>2, <2>3 DEF Turns
<1>3. QED
  BY <1>1, <1>2 DEF Begin
LEMMA TickTurns ==
    ASSUME TickTypeOK, TicksInTurn, NEW t \in Executor, TickStep(t) \/ TickCrash(t)
    PROVE  Turns(t)
<1> DEFINE i == tick[t].step
<1>1. CASE Begin(t) \/ Reconcile(t) \/ PlanStep(t)
  BY <1>1, BeginTurns, ReconcileTurns, PlanStepTurns
<1>2. CASE Query(t) \/ Send(t)
  BY <1>2 DEF Query, Send, Turns
<1>3. CASE Reconciled(t)
  BY <1>3, BusyPlaces, ReturnTurns DEF Reconciled, Turns
<1>4. CASE Resolved(t)
  <2>1. tick[t] # Rest
    BY <1>4, BusyPlaces DEF Resolved, In
  <2>2. CASE Goto(t, Doing("finish"))
    BY <2>1, <2>2, GotoTurns, FreePlaces, TickForms
  <2>3. CASE Goto(t, At("step", 1))
    BY <2>1, <2>3, GotoTurns, FreePlaces, TickForms, PlanSteps DEF StepPlaces
  <2>4. CASE Raise(t)
    BY <2>1, <2>4, RaiseTurns
  <2>5. QED
    BY <1>4, <2>2, <2>3, <2>4 DEF Resolved
<1>5. CASE TickPropose(t)
  <2>1. tick[t].pc \in StepPlaces /\ tick[t] # Rest
    BY <1>5, BusyPlaces DEF TickPropose, In, StepPlaces
  <2>2. Goto(t, At("execute", i)) \/ Raise(t)
    BY <1>5 DEF TickPropose
  <2>3. QED
    BY <2>1, <2>2, SameStepTurns, RaiseTurns DEF StepPlaces
<1>6. CASE TickExecute(t)
  <2>1. tick[t].pc \in StepPlaces /\ tick[t] # Rest
    BY <1>6, BusyPlaces DEF TickExecute, In, StepPlaces
  <2>2. Goto(t, At("dispatched", i)) \/ Goto(t, At("approval", i)) \/ Return(t, FALSE) \/ Raise(t)
    BY <1>6 DEF TickExecute
  <2>3. QED
    BY <2>1, <2>2, SameStepTurns, RaiseTurns, ReturnTurns DEF StepPlaces
<1>7. CASE Dispatched(t)
  BY <1>7, BusyPlaces, ReturnTurns DEF Dispatched
<1>8. CASE ReadApproval(t)
  <2>1. tick[t].pc \in StepPlaces /\ tick[t] # Rest
    BY <1>8, BusyPlaces DEF ReadApproval, In, StepPlaces
  <2>2. Goto(t, At("refuse", i)) \/ Return(t, FALSE)
    BY <1>8 DEF ReadApproval
  <2>3. QED
    BY <2>1, <2>2, SameStepTurns, ReturnTurns DEF StepPlaces
<1>9. CASE Refuse(t)
  BY <1>9, BusyPlaces, GotoTurns, FreePlaces, TickForms DEF Refuse, In
<1>10. CASE TickFinish(t)
  <2>1. tick[t] # Rest
    BY <1>10, BusyPlaces DEF TickFinish, In
  <2>2. QED
    BY <1>10, <2>1, ReturnTurns, RaiseTurns DEF TickFinish
<1>11. CASE Verify(t)
  <2>1. tick[t] # Rest /\ Passed(Len(Plan) + 1)
    BY <1>11, BusyPlaces DEF Verify, In, TicksInTurn
  <2>2. Doing("complete") \in Tick /\ InTurn(Doing("complete"))
    BY <2>1, TickForms DEF InTurn, StepPlaces
  <2>3. QED
    BY <1>11, <2>1, <2>2, GotoTurns DEF Verify
<1>12. CASE Complete(t)
  BY <1>12, BusyPlaces, ReturnTurns DEF Complete, In
<1>13. CASE Block(t)
  BY <1>13, BusyPlaces, ReturnTurns DEF Block, In
<1>14. CASE TickCrash(t)
  <2>1. Goes(t, Rest)
    BY <1>14 DEF TickCrash, Goes, Stays, Dies
  <2>2. QED
    BY <2>1, FreePlaces, TickForms DEF Turns
<1>15. QED
  BY <1>1, <1>2, <1>3, <1>4, <1>5, <1>6, <1>7, <1>8, <1>9, <1>10, <1>11, <1>12, <1>13, <1>14
  DEF TickStep

-----------------------------------------------------------------------------
(***************************************************************************)
(* TickInv is inductive.                                                   *)
(***************************************************************************)
(* The three steps of a tick that OtherMove leaves out, and what they need.*)
LEMMA KindsOfStep ==
    ASSUME TickTypeOK, [TickNext]_allVars
    PROVE  \/ OtherMove
           \/ \E t \in Executor :
                \/ In(t, "execute") /\ ClaimDispatch(t, Plan[tick[t].step])
                \/ Verify(t)
           \/ Finish
<1>1. ASSUME NEW t \in Executor, TickStep(t) \/ TickCrash(t)
      PROVE  \/ OtherMove
             \/ In(t, "execute") /\ ClaimDispatch(t, Plan[tick[t].step])
             \/ Verify(t)
             \/ Finish
  <2>1. CASE TickFinish(t) \/ Complete(t)
    BY <2>1, FinishIsMove
  <2>2. CASE TickExecute(t)
    BY <2>2, ExecuteIsMove DEF TickExecute, OtherMove
  <2>3. CASE ~(Verify(t) \/ TickFinish(t) \/ Complete(t) \/ TickExecute(t))
    BY <1>1, <2>3, OtherTickMoves DEF TickStep
  <2>4. QED
    BY <2>1, <2>2, <2>3
<1>2. CASE UNCHANGED allVars
  BY <1>2 DEF allVars, OtherMove
<1>3. QED
  BY <1>1, <1>2, OutsideMoves DEF TickNext

LEMMA TickMoves ==
    ASSUME TickTypeOK, [TickNext]_allVars
    PROVE  LedgerMove
<1>1. \A t \in Executor : In(t, "execute") => Plan[tick[t].step] \in Op
  BY TickPlaces, PlanSteps DEF In, StepPlaces
<1>2. QED
  BY <1>1, KindsOfStep, VerifyIsMove DEF LedgerMove

LEMMA PassedStays ==
    ASSUME TypeOK, LedgerMove, NEW i \in 1..(Len(Plan) + 1), Passed(i)
    PROVE  Passed(i)'
<1>1. \A j \in 1..(i - 1) : Plan[j] \in Op
  BY PlanSteps DEF StepNo
<1>2. QED
  BY <1>1, SuccessStays DEF Passed

LEMMA TurnsStep ==
    ASSUME TickInv, LedgerMove, UNCHANGED tickVars \/ \E t \in Executor : Turns(t)
    PROVE  /\ OneActivity' /\ TicksInTurn'
           /\ tick' \in [Executor -> Tick]
           /\ workflow' \in {"running", "done", "failed"}
           /\ failures' \in 0..MaxAttempts
<1> USE DEF TickInv
<1>1. CASE UNCHANGED tickVars
  <2>1. UNCHANGED <<tick, workflow, failures>>
    BY <1>1 DEF tickVars
  <2>2. OneActivity'
    BY <2>1 DEF OneActivity
  <2>3. \A u \in Executor : tick[u].pc \in StepPlaces => tick[u].step \in 1..(Len(Plan) + 1)
    BY TickPlaces, PlanSteps DEF StepPlaces, StepNo
  <2>4. TicksInTurn'
    BY <2>1, <2>3, PassedStays, PlanSteps DEF TicksInTurn, StepPlaces, TickTypeOK, StepNo
  <2>5. QED
    BY <2>1, <2>2, <2>4 DEF TickTypeOK
<1>2. CASE \E t \in Executor, place \in Tick : Goes(t, place) /\ InTurn(place)
  <2>1. PICK t \in Executor, place \in Tick : Goes(t, place) /\ InTurn(place)
    BY <1>2
  <2>2. \A u \in Executor : tick'[u] \in Tick /\ InTurn(tick'[u])
    <3>1. \A u \in Executor : tick'[u] = IF u = t THEN place ELSE tick[u]
      BY <2>1 DEF Goes, TickTypeOK
    <3>2. QED
      BY <2>1, <3>1, PlaceIsInTurn DEF TickTypeOK
  <2>3. \A w \in Tick : w.pc \in StepPlaces => w.step \in 1..(Len(Plan) + 1)
    BY PlanSteps DEF Tick, Rest, StepPlaces, StepNo
  <2>4. TicksInTurn'
    BY <2>2, <2>3, PassedStays, PlanSteps DEF TicksInTurn, InTurn, StepPlaces, TickTypeOK, StepNo
  <2>5. QED
    BY <2>1, <2>4, ActivityStep
<1>3. QED
  BY <1>1, <1>2 DEF Turns

LEMMA TickInvInit == TickInit => TickInv
<1> SUFFICES ASSUME TickInit PROVE TickInv
  OBVIOUS
<1>1. TypeOK /\ Init
  BY TypeInit DEF TickInit
<1>2. \A t \in Executor : tick[t] = Rest /\ tick[t].pc = "rest"
  BY TickForms DEF TickInit
<1>3. TickTypeOK
  BY <1>1, TickForms, TickAssumption DEF TickInit, TickTypeOK
<1>4. OnlyClaimed
  BY DEF TickInit, Init, OnlyClaimed
<1>5. OnlyReceipts
  <2>1. \A t \in Thread, o \in Op :
          call[t] # Executed(o, "SUCCEEDED") /\ call[t] # Queried(o, "SUCCEEDED")
    BY <1>1, CallForms DEF Init
  <2>2. QED
    BY <1>1, <2>1 DEF Init, OnlyReceipts
<1>6. CancelledShows
  BY <1>1 DEF Init, CancelledShows
<1>7. OneActivity
  BY <1>2, TickAssumption DEF TickInit, OneActivity
<1>8. TicksInTurn
  BY <1>2 DEF TicksInTurn, StepPlaces
<1>9. ClaimsInTurn /\ EndInTurn
  BY <1>1, PlanSteps DEF Init, ClaimsInTurn, EndInTurn
<1>10. QED
  BY <1>3, <1>4, <1>5, <1>6, <1>7, <1>8, <1>9 DEF TickInv

LEMMA ClaimsStep ==
    ASSUME TickInv, [TickNext]_allVars
    PROVE  ClaimsInTurn'
<1> USE DEF TickInv
<1>0. LedgerMove /\ TypeOK
  BY TickMoves DEF TickTypeOK
<1>1. \A i \in StepNo : Plan[i] \in Op /\ i \in 1..(Len(Plan) + 1)
  BY PlanSteps DEF StepNo
<1>2. ASSUME \A o \in Op : op'[o].attempts = op[o].attempts PROVE ClaimsInTurn'
  BY <1>0, <1>1, <1>2, PassedStays DEF ClaimsInTurn
<1>3. CASE OtherMove \/ Finish
  BY <1>0, <1>2, <1>3, AttemptsKept
<1>4. ASSUME NEW t \in Executor, Verify(t) PROVE ClaimsInTurn'
  BY <1>0, <1>2, <1>4, AttemptsKept, VerifyIsMove
<1>5. ASSUME NEW t \in Executor, In(t, "execute"), ClaimDispatch(t, Plan[tick[t].step])
      PROVE  ClaimsInTurn'
  <2> DEFINE k == tick[t].step
  <2>1. k \in StepNo /\ Passed(k)
    BY <1>5, TickPlaces DEF In, TicksInTurn, StepPlaces
  <2>2. \A p \in Op : p # Plan[k] => op'[p] = op[p]
    BY <1>0, <1>1, <1>5, <2>1, ClaimChanges
  <2>3. \A i \in StepNo : Plan[i] = Plan[k] => i = k
    BY <2>1, TickAssumption DEF StepNo
  <2>4. \A i \in StepNo : op'[Plan[i]].attempts > 0 => Passed(i)
    BY <1>1, <2>1, <2>2, <2>3 DEF ClaimsInTurn
  <2>5. QED
    BY <1>0, <1>1, <2>4, PassedStays DEF ClaimsInTurn
<1>6. QED
  BY <1>3, <1>4, <1>5, KindsOfStep

LEMMA EndStep ==
    ASSUME TickInv, [TickNext]_allVars
    PROVE  EndInTurn'
<1> USE DEF TickInv
<1>0. LedgerMove /\ TypeOK
  BY TickMoves DEF TickTypeOK
<1>1. Len(Plan) + 1 \in 1..(Len(Plan) + 1)
  BY PlanSteps DEF StepNo
<1>2. Passed(Len(Plan) + 1) => Passed(Len(Plan) + 1)'
  BY <1>0, <1>1, PassedStays
<1>3. CASE OtherMove
  BY <1>0, <1>2, <1>3, EndKept DEF EndInTurn
<1>4. ASSUME NEW t \in Executor, Verify(t) PROVE EndInTurn'
  BY <1>2, <1>4 DEF Verify, In, TicksInTurn, EndInTurn
<1>5. ASSUME NEW t \in Executor, In(t, "execute"), ClaimDispatch(t, Plan[tick[t].step])
      PROVE  EndInTurn'
  <2>1. verified' = verified /\ task'.result = task.result
    BY <1>0, <1>5 DEF ClaimDispatch, Dispatchable, TypeOK, TaskRow
  <2>2. QED
    BY <1>2, <2>1 DEF EndInTurn
<1>6. CASE Finish
  <2>1. verified' = verified
    BY <1>6 DEF Finish
  <2>2. CASE FinishWaits
    <3>1. task'.result = task.result
      BY <1>0, <2>2 DEF FinishWaits, Waiting, TypeOK, TaskRow
    <3>2. QED
      BY <1>2, <2>1, <3>1 DEF EndInTurn
  <2>3. CASE FinishTerminates
    <3>1. task'.result = FinishResult
      BY <1>0, <2>3 DEF FinishTerminates, TypeOK, TaskRow
    <3>2. QED
      BY <1>2, <2>1, <2>3, <3>1 DEF FinishTerminates, EndInTurn
  <2>4. QED
    BY <1>6, <2>2, <2>3 DEF Finish
<1>7. QED
  BY <1>3, <1>4, <1>5, <1>6, KindsOfStep

LEMMA TickInvStep == TickInv /\ [TickNext]_allVars => TickInv'
<1> SUFFICES ASSUME TickInv, [TickNext]_allVars PROVE TickInv'
  OBVIOUS
<1>1. LedgerMove /\ TickTypeOK /\ TypeOK
  BY TickMoves DEF TickInv, TickTypeOK
<1>2. TypeOK'
  BY <1>1, MoveTypes
<1>3. OnlyClaimed' /\ OnlyReceipts' /\ CancelledShows'
  BY <1>1, <1>2, ClaimedStep, ReceiptsStep, ControlKeptStep DEF TickInv
<1>4. /\ OneActivity' /\ TicksInTurn'
      /\ tick' \in [Executor -> Tick]
      /\ workflow' \in {"running", "done", "failed"}
      /\ failures' \in 0..MaxAttempts
  <2>1. ASSUME NEW t \in Executor, TickStep(t) \/ TickCrash(t) PROVE Turns(t)
    BY <2>1, TickTurns DEF TickInv
  <2>2. QED
    BY <1>1, <2>1, TurnsStep DEF TickNext, allVars, tickVars
<1>5. ClaimsInTurn' /\ EndInTurn'
  BY ClaimsStep, EndStep
<1>6. QED
  BY <1>2, <1>3, <1>4, <1>5 DEF TickInv, TickTypeOK

(* However many ticks, people and reconcilers work on a task at once, what *)
(* they find of it agrees: the inductive invariant of SimulationTick.      *)
THEOREM TickInvariant == TickSpec => []TickInv
<1>1. TickInit => TickInv
  BY TickInvInit
<1>2. TickInv /\ [TickNext]_allVars => TickInv'
  BY TickInvStep
<1>3. QED
  BY <1>1, <1>2, PTL DEF TickSpec

(* The workflow with its activity and retries never leaves its types; in   *)
(* particular an activity is attempted at most MaxAttempts times.          *)
THEOREM TickTypes == TickSpec => []TickTypeOK
<1>1. TickInv => TickTypeOK
  BY DEF TickInv
<1>2. QED
  BY <1>1, TickInvariant, PTL

(* Side effects happen in the plan's order and SUCCESS means the whole     *)
(* plan, for every plan and every number of ticks at once.                 *)
THEOREM PlansGoInOrder == TickSpec => []PlanInOrder
<1>1. TickInv => PlanInOrder
  <2> SUFFICES ASSUME TickInv PROVE PlanInOrder
    OBVIOUS
  <2>1. ASSUME NEW i \in StepNo \ {1}, remote[Plan[i]].requests > 0
        PROVE  op[Plan[i - 1]].status = "SUCCEEDED"
    <3>1. Plan[i] \in Op /\ i - 1 \in 1..(i - 1)
      BY PlanSteps DEF StepNo
    <3>2. Passed(i)
      BY <2>1, <3>1 DEF TickInv, OnlyClaimed, ClaimsInTurn
    <3>3. QED
      BY <3>1, <3>2 DEF Passed
  <2>2. ASSUME task.result = "SUCCESS", NEW i \in StepNo PROVE remote[Plan[i]].receipt
    <3>1. Passed(Len(Plan) + 1)
      BY <2>2 DEF TickInv, EndInTurn
    <3>2. op[Plan[i]].status = "SUCCEEDED"
      BY <3>1, PlanSteps DEF Passed, StepNo
    <3>3. QED
      BY <3>2, PlanSteps DEF TickInv, OnlyReceipts
  <2>3. QED
    BY <2>1, <2>2 DEF PlanInOrder
<1>2. QED
  BY <1>1, TickInvariant, PTL

(* A takeover or a cancellation is not undone by whatever was under way.   *)
THEOREM ControlStays == TickSpec => ControlIsKept
<1>1. TickInv /\ [TickNext]_allVars => ControlKept
  <2> SUFFICES ASSUME TickInv, [TickNext]_allVars PROVE ControlKept
    OBVIOUS
  <2>1. LedgerMove /\ TypeOK
    BY TickMoves DEF TickInv, TickTypeOK
  <2>2. TypeOK'
    BY <2>1, MoveTypes
  <2>3. QED
    BY <2>1, <2>2, ControlKeptStep DEF TickInv
<1>2. QED
  BY <1>1, TickInvariant, PTL DEF TickSpec, ControlIsKept, ControlKept
=============================================================================
