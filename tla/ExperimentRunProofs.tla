-------------------------- MODULE ExperimentRunProofs --------------------------
(***************************************************************************)
(* Proofs about ExperimentRun, for any number of jobs, cases and versions. *)
(* The inductive invariant is ExperimentInv: what the files of a job say   *)
(* of its payment, unless its ledger was lost or has missed the answer,    *)
(* what a runner that has passed the scan may rely on, and that a curated  *)
(* dataset's evidence stays as it was.                                     *)
(***************************************************************************)
EXTENDS ExperimentRun, TLAPS

(***************************************************************************)
(* The invariant                                                           *)
(***************************************************************************)
Working == runner.pc \in {"next", "tick", "sending", "answer", "ready", "done"}
AtJob == runner.pc \in {"tick", "sending", "answer", "ready"}
Ran(j) == job[j].record # "NONE"

(* Files, ledger and payment of one job.                                   *)
RowAgrees(j) ==
    /\ job[j].paid <= 1
    /\ job[j].paid > 0 => Investigation
    /\ job[j].overrun => job[j].paid = 1
    /\ job[j].overrun /\ job[j].call = "decided" => job[j].exceeds
    /\ job[j].call = "decided" => job[j].paid = 1
    /\ job[j].call # "none" => job[j].stage = "task"
    /\ job[j].altered => Ran(j)
    /\ job[j].paid > 0 /\ job[j].call = "none" => job[j].stage = "started" /\ ~Ran(j)
    /\ job[j].stage # "none" => \A i \in 1..(j - 1) : Ran(i) /\ ~job[i].exceeds
    /\ Investigation /\ Ran(j) =>
         /\ job[j].record \in {"ANALYSIS_READY", "BLOCKED", "FAILED", "UNKNOWN"}
         /\ job[j].record = "ANALYSIS_READY" => job[j].analysis /\ job[j].call = "decided"
         /\ job[j].record = "UNKNOWN" <=> job[j].call = "dispatched"

(* What a runner relies on after its scan.                                 *)
Relied(j) ==
    /\ Ran(j) => Intact(j)
    /\ ~Ran(j) /\ job[j].paid > 0 => job[j].call # "none"
RunnerAgrees ==
    /\ Working => \A j \in Job : Relied(j)
    /\ AtJob => /\ Investigation
                /\ \A j \in Job : Ran(j) => ~job[j].exceeds
                /\ \A j \in Job : Current(j) => job[j].stage = "task"
    /\ runner.pc = "sending" =>
          \A j \in Job : Current(j) => job[j].call = "dispatched" /\ job[j].paid = 0
    /\ runner.pc = "answer" =>
          \A j \in Job : Current(j) => job[j].call = "dispatched" /\ job[j].paid = 1

ReportAgrees == report.status = "COMPLETE" => \A j \in Job : Ran(j) /\ Good(j) /\ ~job[j].exceeds
CurationAgrees ==
    /\ CuratedAsReviewed
    /\ curation.files # "none" => review.evidence \subseteq Recorded

ExperimentInv ==
    /\ TypeOK
    /\ \A j \in Job : RowAgrees(j)
    /\ RunnerAgrees
    /\ ReportAgrees
    /\ CurationAgrees

(***************************************************************************)
(* Jobs and rows                                                           *)
(***************************************************************************)
LEMMA RecordedRan == \A j \in Job : j \in Recorded <=> Ran(j)
  BY DEF Recorded, Ran

LEMMA Earlier == \A j \in Job : 1..(j - 1) \subseteq Job
  BY ExperimentAssumption DEF Job

LEMMA OneCurrent ==
    ASSUME NEW i \in Job, NEW j \in Job, Current(i), Current(j)
    PROVE  i = j
<1>1. i \notin Recorded /\ j \notin Recorded
  BY DEF Current
<1>2. i \in Nat /\ j \in Nat /\ 1 <= i /\ 1 <= j
  BY ExperimentAssumption DEF Job
<1>3. CASE i < j
  BY <1>1, <1>2, <1>3 DEF Current
<1>4. CASE j < i
  BY <1>1, <1>2, <1>4 DEF Current
<1> QED BY <1>2, <1>3, <1>4

(* A row's columns.                                                        *)
RowIs(r, stage, call, exceeds, analysis, record, paid, overrun, altered) ==
    /\ r \in JobRow
    /\ r.stage = stage /\ r.call = call /\ r.exceeds = exceeds /\ r.analysis = analysis /\ r.record = record
    /\ r.paid = paid /\ r.overrun = overrun /\ r.altered = altered

LEMMA PutStage ==
    ASSUME NEW r \in JobRow, NEW x \in {"none", "made", "started", "schema", "task"}
    PROVE  RowIs([r EXCEPT !.stage = x], x, r.call, r.exceeds, r.analysis, r.record, r.paid, r.overrun, r.altered)
  BY DEF JobRow, RowIs

LEMMA PutCall ==
    ASSUME NEW r \in JobRow, NEW x \in {"none", "dispatched", "decided"}
    PROVE  RowIs([r EXCEPT !.call = x], r.stage, x, r.exceeds, r.analysis, r.record, r.paid, r.overrun, r.altered)
  BY DEF JobRow, RowIs

LEMMA PutExceeds ==
    ASSUME NEW r \in JobRow, NEW x \in BOOLEAN
    PROVE  RowIs([r EXCEPT !.exceeds = x], r.stage, r.call, x, r.analysis, r.record, r.paid, r.overrun, r.altered)
  BY DEF JobRow, RowIs

LEMMA PutAnalysis ==
    ASSUME NEW r \in JobRow
    PROVE  RowIs([r EXCEPT !.analysis = TRUE], r.stage, r.call, r.exceeds, TRUE, r.record, r.paid, r.overrun, r.altered)
  BY DEF JobRow, RowIs

LEMMA PutRecord ==
    ASSUME NEW r \in JobRow,
           NEW x \in {"ANALYSIS_READY", "BLOCKED", "FAILED", "UNKNOWN", "completed", "short", "failed"}
    PROVE  RowIs([r EXCEPT !.record = x], r.stage, r.call, r.exceeds, r.analysis, x, r.paid, r.overrun, r.altered)
  BY DEF JobRow, Record, RowIs

LEMMA PutPaid ==
    ASSUME NEW r \in JobRow, NEW x \in Nat
    PROVE  RowIs([r EXCEPT !.paid = x], r.stage, r.call, r.exceeds, r.analysis, r.record, x, r.overrun, r.altered)
  BY DEF JobRow, RowIs

LEMMA PutOverrun ==
    ASSUME NEW r \in JobRow, NEW x \in BOOLEAN
    PROVE  RowIs([r EXCEPT !.overrun = x], r.stage, r.call, r.exceeds, r.analysis, r.record, r.paid, x, r.altered)
  BY DEF JobRow, RowIs

LEMMA PutAltered ==
    ASSUME NEW r \in JobRow
    PROVE  RowIs([r EXCEPT !.altered = TRUE], r.stage, r.call, r.exceeds, r.analysis, r.record, r.paid, r.overrun, TRUE)
  BY DEF JobRow, RowIs

(* One row is replaced and the others stay.                                *)
Only(j) == job' \in [Job -> JobRow] /\ \A k \in Job \ {j} : job'[k] = job[k]

LEMMA OneRow ==
    ASSUME TypeOK, NEW j \in Job, NEW row \in JobRow, job' = [job EXCEPT ![j] = row]
    PROVE  Only(j) /\ job'[j] = row
  BY DEF TypeOK, Only

LEMMA Afters ==
    /\ StageAfter("none") = "made" /\ StageAfter("made") = "started"
    /\ StageAfter("started") = "schema" /\ StageAfter("schema") = "task"
  BY Zenon DEF StageAfter

LEMMA OutcomesOf ==
    ASSUME NEW j \in Job
    PROVE  /\ job[j].call = "none" => Outcomes(j) = {"BLOCKED", "FAILED"}
           /\ job[j].call = "dispatched" => Outcomes(j) = {"UNKNOWN"}
           /\ job[j].call = "decided" => Outcomes(j) = {"ANALYSIS_READY", "BLOCKED", "FAILED"}
  BY Zenon DEF Outcomes

(***************************************************************************)
(* What an action leaves of the job it works on                            *)
(***************************************************************************)
LEMMA PrepareRow ==
    ASSUME TypeOK, NEW j \in Job, Prepare(j)
    PROVE  \/ /\ job[j].stage = "task" /\ UNCHANGED job /\ Goto("tick")
           \/ /\ job[j].stage # "task" /\ Only(j) /\ UNCHANGED runner
              /\ \E stage \in {"made", "started", "schema", "task"} :
                   /\ stage = "schema" => job[j].stage = "started"
                   /\ RowIs(job'[j], stage, job[j].call, job[j].exceeds, job[j].analysis, job[j].record,
                            job[j].paid, job[j].overrun, job[j].altered)
<1>1. CASE job[j].stage = "task"
  BY <1>1 DEF Prepare
<1>2. CASE job[j].stage # "task"
  <2>1. job[j] \in JobRow /\ job[j].stage \in {"none", "made", "started", "schema"}
    BY <1>2 DEF TypeOK, JobRow
  <2> DEFINE x == StageAfter(job[j].stage)
  <2>2. x \in {"made", "started", "schema", "task"} /\ (x = "schema" => job[j].stage = "started")
    BY <2>1, Afters
  <2>3. job' = [job EXCEPT ![j] = [job[j] EXCEPT !.stage = x]] /\ UNCHANGED runner
    BY <1>2 DEF Prepare, TypeOK
  <2> HIDE DEF x
  <2>4. RowIs([job[j] EXCEPT !.stage = x], x, job[j].call, job[j].exceeds, job[j].analysis, job[j].record,
              job[j].paid, job[j].overrun, job[j].altered)
    BY <2>1, <2>2, PutStage
  <2>5. Only(j) /\ job'[j] = [job[j] EXCEPT !.stage = x]
    BY <2>3, <2>4, OneRow DEF RowIs
  <2> QED BY <1>2, <2>2, <2>3, <2>4, <2>5
<1> QED BY <1>1, <1>2

LEMMA DispatchRow ==
    ASSUME TypeOK, NEW j \in Job, Dispatch(j)
    PROVE  /\ Only(j)
           /\ RowIs(job'[j], job[j].stage, "dispatched", job[j].exceeds, job[j].analysis, job[j].record,
                    job[j].paid, job[j].overrun, job[j].altered)
<1>1. job[j] \in JobRow
  BY DEF TypeOK
<1>2. job' = [job EXCEPT ![j] = [job[j] EXCEPT !.call = "dispatched"]]
  BY DEF Dispatch
<1> DEFINE row == [job[j] EXCEPT !.call = "dispatched"]
<1>3. RowIs(row, job[j].stage, "dispatched", job[j].exceeds, job[j].analysis, job[j].record,
            job[j].paid, job[j].overrun, job[j].altered)
  BY <1>1, PutCall
<1> HIDE DEF row
<1>4. Only(j) /\ job'[j] = row
  <2>1. row \in JobRow
    BY <1>3 DEF RowIs
  <2>2. job' = [job EXCEPT ![j] = row]
    BY <1>2 DEF row
  <2> QED BY <2>1, <2>2, OneRow
<1> QED BY <1>3, <1>4

LEMMA SendRow ==
    ASSUME TypeOK, NEW j \in Job, Send(j)
    PROVE  /\ Only(j)
           /\ \E over \in BOOLEAN :
                RowIs(job'[j], job[j].stage, job[j].call, job[j].exceeds, job[j].analysis,
                      job[j].record, job[j].paid + 1, over, job[j].altered)
<1>1. PICK over \in BOOLEAN : job' = [job EXCEPT ![j].paid = @ + 1, ![j].overrun = over]
  BY DEF Send
<1>2. job[j] \in JobRow /\ job[j].paid \in Nat
  BY DEF TypeOK, JobRow
<1> DEFINE n == job[j].paid + 1
           a == [job[j] EXCEPT !.paid = n]
           b == [a EXCEPT !.overrun = over]
<1>3. job' = [job EXCEPT ![j] = b]
  BY <1>1, <1>2, Zenon DEF TypeOK, JobRow
<1>4. n \in Nat
  BY <1>2
<1> HIDE DEF n
<1>5. RowIs(a, job[j].stage, job[j].call, job[j].exceeds, job[j].analysis, job[j].record, n,
            job[j].overrun, job[j].altered)
  BY <1>2, <1>4, PutPaid
<1> HIDE DEF a
<1>6. RowIs(b, a.stage, a.call, a.exceeds, a.analysis, a.record, a.paid, over, a.altered)
  BY <1>5, PutOverrun DEF RowIs
<1> HIDE DEF b
<1>7. RowIs(b, job[j].stage, job[j].call, job[j].exceeds, job[j].analysis, job[j].record, n,
            over, job[j].altered)
  BY <1>5, <1>6 DEF RowIs
<1>8. Only(j) /\ job'[j] = b
  BY <1>3, <1>7, OneRow DEF RowIs
<1> QED BY <1>7, <1>8 DEF n

LEMMA SettleRow ==
    ASSUME TypeOK, NEW j \in Job, Settle(j)
    PROVE  \/ UNCHANGED job
           \/ /\ Only(j)
              /\ \E call \in {"dispatched", "decided"}, shows \in BOOLEAN :
                   /\ job[j].overrun => shows
                   /\ RowIs(job'[j], job[j].stage, call, shows, job[j].analysis, job[j].record,
                            job[j].paid, job[j].overrun, job[j].altered)
<1>1. CASE UNCHANGED job
  BY <1>1
<1>2. ASSUME NEW call \in {"dispatched", "decided"},
             job' = [job EXCEPT ![j].call = call, ![j].exceeds = @ \/ job[j].overrun]
      PROVE  Only(j) /\ \E shows \in BOOLEAN :
                /\ job[j].overrun => shows
                /\ RowIs(job'[j], job[j].stage, call, shows, job[j].analysis, job[j].record,
                         job[j].paid, job[j].overrun, job[j].altered)
  <2>1. job[j] \in JobRow /\ job[j].overrun \in BOOLEAN /\ job[j].exceeds \in BOOLEAN
    BY DEF TypeOK, JobRow
  <2> DEFINE shows == job[j].exceeds \/ job[j].overrun
             a == [job[j] EXCEPT !.call = call]
             b == [a EXCEPT !.exceeds = shows]
  <2>2. job' = [job EXCEPT ![j] = b]
    BY <1>2, <2>1, Zenon DEF TypeOK, JobRow
  <2>3. shows \in BOOLEAN /\ (job[j].overrun => shows)
    BY <2>1
  <2> HIDE DEF shows
  <2>4. RowIs(a, job[j].stage, call, job[j].exceeds, job[j].analysis, job[j].record,
              job[j].paid, job[j].overrun, job[j].altered)
    BY <2>1, PutCall
  <2> HIDE DEF a
  <2>5. RowIs(b, a.stage, a.call, shows, a.analysis, a.record, a.paid, a.overrun, a.altered)
    BY <2>3, <2>4, PutExceeds DEF RowIs
  <2> HIDE DEF b
  <2>6. RowIs(b, job[j].stage, call, shows, job[j].analysis, job[j].record,
              job[j].paid, job[j].overrun, job[j].altered)
    BY <2>4, <2>5 DEF RowIs
  <2>7. Only(j) /\ job'[j] = b
    BY <2>2, <2>6, OneRow DEF RowIs
  <2> QED BY <2>3, <2>6, <2>7
<1> QED BY <1>1, <1>2 DEF Settle

LEMMA AnalysisRow ==
    ASSUME TypeOK, NEW j \in Job, PublishAnalysis(j)
    PROVE  /\ Only(j)
           /\ RowIs(job'[j], job[j].stage, job[j].call, job[j].exceeds, TRUE, job[j].record,
                    job[j].paid, job[j].overrun, job[j].altered)
<1> DEFINE row == [job[j] EXCEPT !.analysis = TRUE]
<1>1. job' = [job EXCEPT ![j] = row]
  BY DEF PublishAnalysis
<1>2. RowIs(row, job[j].stage, job[j].call, job[j].exceeds, TRUE, job[j].record,
            job[j].paid, job[j].overrun, job[j].altered)
  BY PutAnalysis DEF TypeOK
<1> HIDE DEF row
<1>3. row \in JobRow
  BY <1>2 DEF RowIs
<1>4. Only(j) /\ job'[j] = row
  BY <1>1, <1>3, OneRow
<1> QED BY <1>2, <1>4

LEMMA RecordRow ==
    ASSUME TypeOK, NEW j \in Job,
           NEW x \in {"ANALYSIS_READY", "BLOCKED", "FAILED", "UNKNOWN", "completed", "short", "failed"},
           job' = [job EXCEPT ![j].record = x]
    PROVE  /\ Only(j)
           /\ RowIs(job'[j], job[j].stage, job[j].call, job[j].exceeds, job[j].analysis, x,
                    job[j].paid, job[j].overrun, job[j].altered)
<1> DEFINE row == [job[j] EXCEPT !.record = x]
<1>1. job' = [job EXCEPT ![j] = row]
  OBVIOUS
<1>2. RowIs(row, job[j].stage, job[j].call, job[j].exceeds, job[j].analysis, x,
            job[j].paid, job[j].overrun, job[j].altered)
  BY PutRecord DEF TypeOK
<1> HIDE DEF row
<1>3. row \in JobRow
  BY <1>2 DEF RowIs
<1>4. Only(j) /\ job'[j] = row
  BY <1>1, <1>3, OneRow
<1> QED BY <1>2, <1>4

LEMMA LostRow ==
    ASSUME TypeOK, NEW j \in Job, LoseLedger(j)
    PROVE  /\ Only(j)
           /\ RowIs(job'[j], "started", "none", FALSE, job[j].analysis, job[j].record,
                    job[j].paid, job[j].overrun, job[j].altered)
<1> DEFINE a == [job[j] EXCEPT !.stage = "started"]
           b == [a EXCEPT !.call = "none"]
           c == [b EXCEPT !.exceeds = FALSE]
<1>1. job' = [job EXCEPT ![j] = c]
  BY Zenon DEF LoseLedger, TypeOK, JobRow
<1>2. RowIs(a, "started", job[j].call, job[j].exceeds, job[j].analysis, job[j].record,
            job[j].paid, job[j].overrun, job[j].altered)
  BY PutStage DEF TypeOK
<1> HIDE DEF a
<1>3. RowIs(b, a.stage, "none", a.exceeds, a.analysis, a.record, a.paid, a.overrun, a.altered)
  BY <1>2, PutCall DEF RowIs
<1> HIDE DEF b
<1>4. RowIs(c, b.stage, b.call, FALSE, b.analysis, b.record, b.paid, b.overrun, b.altered)
  BY <1>3, PutExceeds DEF RowIs
<1> HIDE DEF c
<1>5. RowIs(c, "started", "none", FALSE, job[j].analysis, job[j].record,
            job[j].paid, job[j].overrun, job[j].altered)
  BY <1>2, <1>3, <1>4 DEF RowIs
<1>6. Only(j) /\ job'[j] = c
  BY <1>1, <1>5, OneRow DEF RowIs
<1> QED BY <1>5, <1>6

LEMMA OperateRow ==
    ASSUME TypeOK, NEW j \in Job, Operate(j)
    PROVE  /\ Only(j)
           /\ RowIs(job'[j], job[j].stage, job[j].call, TRUE, job[j].analysis, job[j].record,
                    job[j].paid, job[j].overrun, job[j].altered)
<1> DEFINE row == [job[j] EXCEPT !.exceeds = TRUE]
<1>1. job' = [job EXCEPT ![j] = row]
  BY DEF Operate
<1>2. RowIs(row, job[j].stage, job[j].call, TRUE, job[j].analysis, job[j].record,
            job[j].paid, job[j].overrun, job[j].altered)
  BY PutExceeds DEF TypeOK
<1> HIDE DEF row
<1>3. row \in JobRow
  BY <1>2 DEF RowIs
<1>4. Only(j) /\ job'[j] = row
  BY <1>1, <1>3, OneRow
<1> QED BY <1>2, <1>4

LEMMA AlteredRow ==
    ASSUME TypeOK, NEW j \in Job, Alter(j)
    PROVE  /\ Only(j)
           /\ RowIs(job'[j], job[j].stage, job[j].call, job[j].exceeds, job[j].analysis, job[j].record,
                    job[j].paid, job[j].overrun, TRUE)
<1> DEFINE row == [job[j] EXCEPT !.altered = TRUE]
<1>1. job' = [job EXCEPT ![j] = row]
  BY DEF Alter
<1>2. RowIs(row, job[j].stage, job[j].call, job[j].exceeds, job[j].analysis, job[j].record,
            job[j].paid, job[j].overrun, TRUE)
  BY PutAltered DEF TypeOK
<1> HIDE DEF row
<1>3. row \in JobRow
  BY <1>2 DEF RowIs
<1>4. Only(j) /\ job'[j] = row
  BY <1>1, <1>3, OneRow
<1> QED BY <1>2, <1>4

(***************************************************************************)
(* Types                                                                   *)
(***************************************************************************)
LEMMA Gone ==
    ASSUME TypeOK, NEW pc, Goto(pc), runner # Rest,
           pc \in {"freeze", "scan", "next", "tick", "sending", "answer", "ready", "done", "curate"}
    PROVE  /\ runner' \in [pc : {"freeze", "scan", "next", "tick", "sending", "answer",
                                 "ready", "done", "curate"}, version : Versions]
           /\ runner'.pc = pc
  BY DEF Goto, TypeOK

LEMMA AtWork ==
    ASSUME TypeOK, runner.pc # "rest"
    PROVE  runner # Rest
  BY DEF Rest

LEMMA Summaries ==
    ASSUME TypeOK
    PROVE  /\ Summary \in [status : {"NONE", "INCOMPLETE", "COMPLETE", "INVALID"}, recorded : SUBSET Job]
           /\ [Summary EXCEPT !.status = "INVALID"]
                \in [status : {"NONE", "INCOMPLETE", "COMPLETE", "INVALID"}, recorded : SUBSET Job]
  BY DEF Summary, Status, Recorded

LEMMA TypeInit == Init => TypeOK
  BY ExperimentAssumption DEF Init, TypeOK, JobRow, NoReport

(* The actions on a job.                                                   *)
JobStep(j) == \/ Prepare(j) \/ Dispatch(j) \/ Send(j) \/ Settle(j) \/ PublishAnalysis(j)
              \/ PublishResult(j) \/ Retrieve(j) \/ LoseLedger(j) \/ Operate(j) \/ Alter(j)

LEMMA ResultRow ==
    ASSUME TypeOK, NEW j \in Job, PublishResult(j)
    PROVE  /\ Only(j)
           /\ \E x \in {"ANALYSIS_READY", "BLOCKED", "FAILED", "UNKNOWN"} :
                /\ x \in Outcomes(j)
                /\ x = "ANALYSIS_READY" => job[j].analysis
                /\ RowIs(job'[j], job[j].stage, job[j].call, job[j].exceeds, job[j].analysis, x,
                         job[j].paid, job[j].overrun, job[j].altered)
<1>1. PICK x \in Outcomes(j) : /\ x = "ANALYSIS_READY" => job[j].analysis
                              /\ job' = [job EXCEPT ![j].record = x]
  BY DEF PublishResult
<1>2. job[j].call \in {"none", "dispatched", "decided"}
  BY DEF TypeOK, JobRow
<1>3. x \in {"ANALYSIS_READY", "BLOCKED", "FAILED", "UNKNOWN"}
  BY <1>1, <1>2, OutcomesOf
<1> QED BY <1>1, <1>3, RecordRow

LEMMA RetrieveRow ==
    ASSUME TypeOK, NEW j \in Job, Retrieve(j)
    PROVE  /\ Only(j)
           /\ \E x \in {"completed", "short", "failed"} :
                RowIs(job'[j], job[j].stage, job[j].call, job[j].exceeds, job[j].analysis, x,
                      job[j].paid, job[j].overrun, job[j].altered)
<1>1. PICK x \in {"completed", "short", "failed"} : job' = [job EXCEPT ![j].record = x]
  BY DEF Retrieve
<1> QED BY <1>1, RecordRow

LEMMA JobTypes ==
    ASSUME TypeOK, NEW j \in Job, JobStep(j)
    PROVE  TypeOK'
<1>1. CASE Prepare(j)
  <2>1. job' \in [Job -> JobRow]
    BY <1>1, PrepareRow DEF Only, TypeOK
  <2>2. UNCHANGED runner \/ Goto("tick")
    BY <1>1, PrepareRow
  <2> QED BY <1>1, <2>1, <2>2, Gone, AtWork DEF Prepare, TypeOK
<1>2. CASE Dispatch(j)
  BY <1>2, DispatchRow, Gone, AtWork DEF Dispatch, TypeOK, Only
<1>3. CASE Send(j)
  BY <1>3, SendRow, Gone, AtWork DEF Send, TypeOK, Only
<1>4. CASE PublishAnalysis(j)
  BY <1>4, AnalysisRow, Gone, AtWork DEF PublishAnalysis, TypeOK, Only
<1>5. CASE PublishResult(j)
  <2>1. job' \in [Job -> JobRow]
    BY <1>5, ResultRow DEF Only
  <2> QED BY <1>5, <2>1, Gone, AtWork DEF PublishResult, TypeOK
<1>6. CASE Retrieve(j)
  <2>1. job' \in [Job -> JobRow]
    BY <1>6, RetrieveRow DEF Only
  <2> QED BY <1>6, <2>1 DEF Retrieve, TypeOK
<1>7. CASE LoseLedger(j)
  BY <1>7, LostRow DEF LoseLedger, TypeOK, Only
<1>8. CASE Alter(j)
  BY <1>8, AlteredRow DEF Alter, TypeOK, Only
<1>9. CASE Settle(j)
  BY <1>9, SettleRow, Gone, AtWork DEF Settle, TypeOK, Only
<1>10. CASE Operate(j)
  BY <1>10, OperateRow DEF Operate, TypeOK, Only
<1> QED BY <1>1, <1>2, <1>3, <1>4, <1>5, <1>6, <1>7, <1>8, <1>9, <1>10 DEF JobStep

LEMMA TypeStep ==
    ASSUME TypeOK, [Next]_vars
    PROVE  TypeOK'
<1>1. CASE UNCHANGED vars
  BY <1>1 DEF vars, TypeOK
<1>2. ASSUME NEW j \in Job, JobStep(j) PROVE TypeOK'
  BY <1>2, JobTypes
<1>3. CASE MakeRun
  BY <1>3 DEF MakeRun, TypeOK, At
<1>4. CASE Freeze
  <2>1. runner \in [pc : {"freeze"}, version : Versions] /\ runner # Rest
    BY <1>4 DEF Freeze, TypeOK, Rest
  <2>2. plan' \in [dir : {"frozen"}, version : Versions]
    BY <1>4, <2>1 DEF Freeze
  <2> QED BY <1>4, <2>1, <2>2, Gone DEF Freeze, TypeOK
<1>5. CASE Resume
  BY <1>5 DEF Resume, TypeOK, At
<1>6. CASE Scan
  BY <1>6, Summaries, Gone, AtWork DEF Scan, TypeOK
<1>7. CASE Refuse
  BY <1>7 DEF Refuse, TypeOK
<1>8. CASE PublishReport
  BY <1>8, Summaries, Gone, AtWork DEF PublishReport, TypeOK
<1>9. CASE Finish
  BY <1>9, Summaries DEF Finish, TypeOK
<1>10. CASE Curate
  BY <1>10 DEF Curate, TypeOK, At, Failed, Recorded
<1>11. CASE PublishCuration
  BY <1>11 DEF PublishCuration, TypeOK
<1>12. CASE Crash
  BY <1>12 DEF Crash, TypeOK
<1>13. CASE ChangeSource
  BY <1>13 DEF ChangeSource, TypeOK
<1>14. CASE Review
  <2>1. CasesOf(Job) \subseteq Case
    BY ExperimentAssumption DEF CasesOf, Job
  <2>2. review' \in [evidence : SUBSET Job, cases : SUBSET Case]
    BY <1>14, <2>1 DEF Review, Recorded
  <2> QED BY <1>14, <2>2 DEF Review, TypeOK
<1> QED BY <1>1, <1>2, <1>3, <1>4, <1>5, <1>6, <1>7, <1>8, <1>9, <1>10, <1>11, <1>12, <1>13, <1>14
        DEF Next, JobStep

(***************************************************************************)
(* What is recorded stays so                                               *)
(***************************************************************************)
Grows == \A k \in Job : Ran(k) => job'[k].record = job[k].record /\ job'[k].exceeds = job[k].exceeds

LEMMA JobGrows ==
    ASSUME TypeOK, NEW j \in Job, JobStep(j)
    PROVE  Grows /\ kind' = kind /\ UNCHANGED <<split, report, review, curation>>
<1>1. kind' = kind /\ UNCHANGED <<split, report, review, curation>>
  BY DEF JobStep, Prepare, Dispatch, Send, Settle, PublishAnalysis, PublishResult, Retrieve,
         LoseLedger, Operate, Alter
<1>2. CASE UNCHANGED job
  BY <1>1, <1>2 DEF Grows
<1>3. CASE Only(j) /\ (Ran(j) => job'[j].record = job[j].record /\ job'[j].exceeds = job[j].exceeds)
  BY <1>1, <1>3 DEF Only, Grows
<1>4. Current(j) => ~Ran(j)
  BY RecordedRan DEF Current
<1>5. CASE Prepare(j)
  BY <1>2, <1>3, <1>4, <1>5, PrepareRow DEF Prepare
<1>6. CASE Dispatch(j)
  BY <1>3, <1>4, <1>6, DispatchRow DEF Dispatch
<1>7. CASE Send(j)
  BY <1>3, <1>4, <1>7, SendRow DEF Send
<1>8. CASE PublishAnalysis(j)
  BY <1>3, <1>4, <1>8, AnalysisRow DEF PublishAnalysis
<1>9. CASE PublishResult(j)
  BY <1>3, <1>4, <1>9, ResultRow DEF PublishResult
<1>10. CASE Retrieve(j)
  BY <1>3, <1>4, <1>10, RetrieveRow DEF Retrieve
<1>11. CASE LoseLedger(j)
  BY <1>3, <1>11, LostRow, RecordedRan DEF LoseLedger
<1>12. CASE Alter(j)
  BY <1>3, <1>12, AlteredRow DEF RowIs
<1>13. CASE Settle(j)
  BY <1>2, <1>3, <1>4, <1>13, SettleRow DEF Settle
<1>14. CASE Operate(j)
  BY <1>3, <1>14, OperateRow, RecordedRan DEF Operate
<1> QED BY <1>1, <1>5, <1>6, <1>7, <1>8, <1>9, <1>10, <1>11, <1>12, <1>13, <1>14 DEF JobStep

LEMMA ReportStays ==
    ASSUME TypeOK, TypeOK', Grows, report' = report, ReportAgrees
    PROVE  ReportAgrees'
  BY DEF ReportAgrees, Grows, Ran, Good

LEMMA CurationStays ==
    ASSUME TypeOK, TypeOK', Grows, UNCHANGED <<split, review, curation>>, CurationAgrees
    PROVE  CurationAgrees'
<1>1. CASE curation.files = "none"
  BY <1>1 DEF CurationAgrees, CuratedAsReviewed
<1>2. CASE curation.files # "none"
  <2>1. review.evidence \subseteq Recorded /\ CuratedAsReviewed
    BY <1>2 DEF CurationAgrees
  <2>2. \A k \in review.evidence : k \in Recorded' /\ job'[k].record = job[k].record
    BY <2>1 DEF Grows, Ran, Recorded
  <2>3. {k \in review.evidence \ Baseline : /\ CaseOf[k] \in review.cases
                                            /\ job[k].record \in {"failed", "short"}}
        = {k \in review.evidence \ Baseline : /\ CaseOf[k] \in review.cases
                                              /\ job'[k].record \in {"failed", "short"}}
    BY <2>2
  <2>4. CasesOf(curation.failures)' = CasesOf(curation.failures)
    BY DEF CasesOf
  <2> QED BY <1>2, <2>1, <2>2, <2>3, <2>4 DEF CurationAgrees, CuratedAsReviewed
<1> QED BY <1>1, <1>2

(* A summary is true when it is written.                                   *)
LEMMA SummaryAgrees ==
    ASSUME TypeOK, Status = "COMPLETE"
    PROVE  \A j \in Job : Ran(j) /\ Good(j) /\ ~job[j].exceeds
<1>1. Violations = {} /\ Recorded = Job /\ \A j \in Recorded : Good(j)
  BY DEF Status
<1> QED BY <1>1, RecordedRan DEF Violations

LEMMA Reported ==
    ASSUME TypeOK, UNCHANGED job,
           report' = Summary \/ report' = [Summary EXCEPT !.status = "INVALID"]
    PROVE  ReportAgrees'
<1>1. CASE report'.status = Status
  BY <1>1, SummaryAgrees DEF ReportAgrees, Ran, Good
<1>2. CASE report'.status = "INVALID"
  BY <1>2 DEF ReportAgrees
<1> QED BY <1>1, <1>2 DEF Summary

(***************************************************************************)
(* Rows                                                                    *)
(***************************************************************************)
LEMMA OtherRow ==
    ASSUME TypeOK, Grows, kind' = kind, NEW k \in Job, job'[k] = job[k], RowAgrees(k)
    PROVE  RowAgrees(k)'
<1>1. job[k].stage # "none" => \A i \in 1..(k - 1) : Ran(i)' /\ ~job'[i].exceeds
  BY Earlier DEF Grows, RowAgrees, Ran
<1> QED BY <1>1 DEF RowAgrees, Ran, Investigation

(* A runner that works on a job has the ones before it behind it.          *)
LEMMA Behind ==
    ASSUME NEW j \in Job, Current(j), \A k \in Job : Ran(k) => ~job[k].exceeds
    PROVE  ~Ran(j) /\ \A i \in 1..(j - 1) : Ran(i) /\ ~job[i].exceeds
  BY RecordedRan, Earlier DEF Current

(* The earlier jobs, after the step.                                       *)
LEMMA StillBehind ==
    ASSUME NEW j \in Job, Grows, \A i \in 1..(j - 1) : Ran(i) /\ ~job[i].exceeds
    PROVE  \A i \in 1..(j - 1) : Ran(i)' /\ ~job'[i].exceeds
  BY Earlier DEF Grows, Ran

LEMMA OwnRow ==
    ASSUME ExperimentInv, NEW j \in Job, JobStep(j), Only(j)
    PROVE  RowAgrees(j)'
<1>1. Grows /\ kind' = kind
  BY JobGrows DEF ExperimentInv
<1>2. TypeOK /\ RowAgrees(j) /\ RunnerAgrees
  BY DEF ExperimentInv
<1>3. job[j] \in JobRow /\ job[j].paid \in Nat
  BY <1>2 DEF TypeOK, JobRow
<1>4. ASSUME AtJob, Current(j)
      PROVE  /\ Investigation /\ job[j].stage = "task" /\ ~Ran(j)
             /\ job[j].paid > 0 => job[j].call # "none"
             /\ ~job[j].altered
             /\ \A i \in 1..(j - 1) : Ran(i)' /\ ~job'[i].exceeds
  <2>1. Investigation /\ (\A k \in Job : Ran(k) => ~job[k].exceeds) /\ job[j].stage = "task"
    BY <1>2, <1>4 DEF RunnerAgrees
  <2>2. ~Ran(j) /\ \A i \in 1..(j - 1) : Ran(i) /\ ~job[i].exceeds
    BY <1>4, <2>1, Behind
  <2>3. Working
    BY <1>4 DEF AtJob, Working
  <2>4. job[j].paid > 0 => job[j].call # "none"
    BY <1>2, <2>2, <2>3 DEF RunnerAgrees, Relied
  <2>5. ~job[j].altered
    BY <1>2, <2>2 DEF RowAgrees
  <2> QED BY <1>1, <2>1, <2>2, <2>4, <2>5, StillBehind
<1>5. CASE Prepare(j)
  <2>1. Investigation /\ runner.pc = "next" /\ Current(j) /\ Violations = {}
    BY <1>5 DEF Prepare
  <2>2. \A k \in Job : Ran(k) => ~job[k].exceeds
    BY <2>1, RecordedRan DEF Violations
  <2>3. ~Ran(j) /\ \A i \in 1..(j - 1) : Ran(i)' /\ ~job'[i].exceeds
    BY <1>1, <2>1, <2>2, Behind, StillBehind
  <2>4. job[j].paid > 0 => job[j].call # "none"
    BY <1>2, <2>1, <2>3 DEF RunnerAgrees, Relied, Working
  <2>5. CASE job[j].stage = "task" /\ UNCHANGED job
    BY <1>1, <1>2, <2>5, OtherRow
  <2>6. CASE \E stage \in {"made", "started", "schema", "task"} :
                /\ job[j].stage # "task"
                /\ RowIs(job'[j], stage, job[j].call, job[j].exceeds, job[j].analysis, job[j].record,
                         job[j].paid, job[j].overrun, job[j].altered)
    <3>1. job[j].call = "none" /\ job[j].paid = 0
      BY <1>2, <1>3, <2>4, <2>6 DEF RowAgrees
    <3>2. /\ job'[j].call = "none" /\ job'[j].paid = 0 /\ ~job'[j].overrun
          /\ ~Ran(j)' /\ ~job'[j].altered
      BY <1>2, <2>3, <2>6, <3>1 DEF RowAgrees, RowIs, Ran
    <3> QED BY <2>3, <3>2 DEF RowAgrees
  <2> QED BY <1>2, <1>5, <2>5, <2>6, PrepareRow
<1>6. CASE Dispatch(j)
  <2>1. AtJob /\ Current(j) /\ job[j].call = "none"
    BY <1>6 DEF Dispatch, AtJob
  <2>2. RowIs(job'[j], job[j].stage, "dispatched", job[j].exceeds, job[j].analysis, job[j].record,
              job[j].paid, job[j].overrun, job[j].altered)
    BY <1>2, <1>6, DispatchRow
  <2>3. job'[j].stage = "task" /\ job'[j].call = "dispatched" /\ ~Ran(j)' /\ job'[j].paid = 0
        /\ ~job'[j].overrun /\ ~job'[j].altered
    BY <1>2, <1>3, <1>4, <2>1, <2>2 DEF RowIs, Ran, RowAgrees
  <2> QED BY <1>4, <2>1, <2>3 DEF RowAgrees
<1>7. CASE Send(j)
  <2>1. AtJob /\ Current(j) /\ runner.pc = "sending"
    BY <1>7 DEF Send, AtJob
  <2>2. job[j].paid = 0 /\ job[j].call = "dispatched"
    BY <1>2, <2>1 DEF RunnerAgrees
  <2>3. PICK over \in BOOLEAN :
           RowIs(job'[j], job[j].stage, job[j].call, job[j].exceeds, job[j].analysis,
                 job[j].record, job[j].paid + 1, over, job[j].altered)
    BY <1>2, <1>7, SendRow
  <2>4. job'[j].stage = "task" /\ job'[j].call = "dispatched" /\ ~Ran(j)' /\ job'[j].paid = 1
        /\ ~job'[j].altered
    BY <1>4, <2>1, <2>2, <2>3 DEF RowIs, Ran
  <2> QED BY <1>1, <1>4, <2>1, <2>4 DEF RowAgrees, Investigation
<1>13. CASE Settle(j)
  <2>1. AtJob /\ Current(j) /\ runner.pc = "answer"
    BY <1>13 DEF Settle, AtJob
  <2>2. job[j].paid = 1
    BY <1>2, <2>1 DEF RunnerAgrees
  <2>3. CASE UNCHANGED job
    BY <1>1, <1>2, <2>3, OtherRow
  <2>4. CASE \E call \in {"dispatched", "decided"}, shows \in BOOLEAN :
               /\ job[j].overrun => shows
               /\ RowIs(job'[j], job[j].stage, call, shows, job[j].analysis, job[j].record,
                        job[j].paid, job[j].overrun, job[j].altered)
    <3>1. PICK call \in {"dispatched", "decided"}, shows \in BOOLEAN :
             /\ job[j].overrun => shows
             /\ RowIs(job'[j], job[j].stage, call, shows, job[j].analysis, job[j].record,
                      job[j].paid, job[j].overrun, job[j].altered)
      BY <2>4
    <3>2. job'[j].stage = "task" /\ job'[j].call = call /\ ~Ran(j)' /\ job'[j].paid = 1
          /\ ~job'[j].altered /\ (job'[j].overrun => job'[j].exceeds)
      BY <1>4, <2>1, <2>2, <3>1 DEF RowIs, Ran
    <3> QED BY <1>1, <1>4, <2>1, <3>2 DEF RowAgrees, Investigation
  <2> QED BY <1>2, <1>13, <2>3, <2>4, SettleRow
<1>14. CASE Operate(j)
  <2>1. ~Ran(j) /\ job[j].stage = "task"
    BY <1>14, RecordedRan DEF Operate
  <2>2. \A i \in 1..(j - 1) : Ran(i)' /\ ~job'[i].exceeds
    BY <1>1, <1>2, <2>1, StillBehind DEF RowAgrees
  <2>3. RowIs(job'[j], job[j].stage, job[j].call, TRUE, job[j].analysis, job[j].record,
              job[j].paid, job[j].overrun, job[j].altered)
    BY <1>2, <1>14, OperateRow
  <2>4. ~Ran(j)' /\ ~job'[j].altered /\ job'[j].exceeds
    BY <1>2, <2>1, <2>3 DEF RowIs, Ran, RowAgrees
  <2>5. /\ job'[j].stage = "task" /\ job'[j].call = job[j].call
        /\ job'[j].paid = job[j].paid /\ job'[j].overrun = job[j].overrun
    BY <2>1, <2>3 DEF RowIs
  <2>6. ~(job[j].paid > 0 /\ job[j].call = "none")
    BY <1>2, <2>1 DEF RowAgrees
  <2> QED BY <1>1, <1>2, <2>2, <2>4, <2>5, <2>6 DEF RowAgrees, Investigation
<1>8. CASE PublishAnalysis(j)
  <2>1. AtJob /\ Current(j)
    BY <1>8 DEF PublishAnalysis, AtJob
  <2>2. RowIs(job'[j], job[j].stage, job[j].call, job[j].exceeds, TRUE, job[j].record,
              job[j].paid, job[j].overrun, job[j].altered)
    BY <1>2, <1>8, AnalysisRow
  <2>3. ~Ran(j)' /\ (job[j].paid > 0 => job[j].call # "none")
    BY <1>4, <2>1, <2>2 DEF RowIs, Ran
  <2> QED BY <1>1, <1>2, <1>3, <1>4, <2>1, <2>2, <2>3 DEF RowAgrees, RowIs, Investigation
<1>9. CASE PublishResult(j)
  <2>1. AtJob /\ Current(j)
    BY <1>9 DEF PublishResult, AtJob
  <2>2. PICK x \in {"ANALYSIS_READY", "BLOCKED", "FAILED", "UNKNOWN"} :
           /\ x \in Outcomes(j)
           /\ x = "ANALYSIS_READY" => job[j].analysis
           /\ RowIs(job'[j], job[j].stage, job[j].call, job[j].exceeds, job[j].analysis, x,
                    job[j].paid, job[j].overrun, job[j].altered)
    BY <1>2, <1>9, ResultRow
  <2>3. job[j].call \in {"none", "dispatched", "decided"}
    BY <1>3 DEF JobRow
  <2>4. /\ x = "ANALYSIS_READY" => job[j].call = "decided"
        /\ x = "UNKNOWN" <=> job[j].call = "dispatched"
    BY <2>2, <2>3, OutcomesOf
  <2> QED BY <1>1, <1>2, <1>3, <1>4, <2>1, <2>2, <2>4 DEF RowAgrees, RowIs, Investigation
<1>10. CASE Retrieve(j)
  <2>1. ~Investigation /\ runner.pc = "next" /\ Current(j)
    BY <1>10 DEF Retrieve
  <2>2. job[j].paid > 0 => job[j].call # "none"
    BY <1>2, <2>1, RecordedRan DEF RunnerAgrees, Relied, Working, Current
  <2>3. job[j].stage # "none" => \A i \in 1..(j - 1) : Ran(i)' /\ ~job'[i].exceeds
    BY <1>1, <1>2, StillBehind DEF RowAgrees
  <2>4. PICK x \in {"completed", "short", "failed"} :
           RowIs(job'[j], job[j].stage, job[j].call, job[j].exceeds, job[j].analysis, x,
                 job[j].paid, job[j].overrun, job[j].altered)
    BY <1>2, <1>10, RetrieveRow
  <2>5. ~Investigation'
    BY <1>1, <2>1 DEF Investigation
  <2>6. Ran(j)' /\ ~job[j].altered
    BY <1>2, <2>1, <2>4, RecordedRan DEF RowAgrees, RowIs, Ran, Current
  <2>7. job[j].paid = 0 /\ ~job[j].overrun /\ job[j].call # "decided"
    BY <1>2, <1>3, <2>1 DEF RowAgrees
  <2>8. /\ job'[j].stage = job[j].stage /\ job'[j].call = job[j].call
        /\ job'[j].paid = 0 /\ ~job'[j].overrun /\ ~job'[j].altered
    BY <2>4, <2>6, <2>7 DEF RowIs
  <2> QED BY <1>2, <2>3, <2>5, <2>6, <2>7, <2>8 DEF RowAgrees
<1>11. CASE LoseLedger(j)
  <2>1. ~Ran(j) /\ job[j].stage # "none"
    BY <1>11, RecordedRan DEF LoseLedger
  <2>2. \A i \in 1..(j - 1) : Ran(i)' /\ ~job'[i].exceeds
    BY <1>1, <1>2, <2>1, StillBehind DEF RowAgrees
  <2>3. RowIs(job'[j], "started", "none", FALSE, job[j].analysis, job[j].record,
              job[j].paid, job[j].overrun, job[j].altered)
    BY <1>2, <1>11, LostRow
  <2>4. ~Ran(j)' /\ ~job'[j].altered
    BY <1>2, <2>1, <2>3 DEF RowIs, Ran, RowAgrees
  <2> QED BY <1>1, <1>2, <1>3, <2>2, <2>3, <2>4 DEF RowAgrees, RowIs, Investigation
<1>12. CASE Alter(j)
  <2>1. RowIs(job'[j], job[j].stage, job[j].call, job[j].exceeds, job[j].analysis, job[j].record,
              job[j].paid, job[j].overrun, TRUE)
    BY <1>2, <1>12, AlteredRow
  <2>2. job[j].stage # "none" => \A i \in 1..(j - 1) : Ran(i)' /\ ~job'[i].exceeds
    BY <1>1, <1>2, StillBehind DEF RowAgrees
  <2>3. Ran(j) /\ Ran(j)'
    BY <1>12, <2>1, RecordedRan DEF Alter, RowIs, Ran
  <2> QED BY <1>1, <1>2, <1>3, <2>1, <2>2, <2>3 DEF RowAgrees, RowIs, Investigation
<1> QED BY <1>5, <1>6, <1>7, <1>8, <1>9, <1>10, <1>11, <1>12, <1>13, <1>14 DEF JobStep

LEMMA RowsStep ==
    ASSUME ExperimentInv, NEW j \in Job, JobStep(j)
    PROVE  \A k \in Job : RowAgrees(k)'
<1>1. Grows /\ kind' = kind
  BY JobGrows DEF ExperimentInv
<1>2. TypeOK /\ \A k \in Job : RowAgrees(k)
  BY DEF ExperimentInv
<1>3. Only(j) \/ UNCHANGED job
  BY <1>2, PrepareRow, DispatchRow, SendRow, AnalysisRow, ResultRow, RetrieveRow, LostRow, AlteredRow,
     SettleRow, OperateRow DEF JobStep
<1>4. CASE Only(j)
  <2>1. RowAgrees(j)'
    BY <1>4, OwnRow
  <2>2. \A k \in Job \ {j} : RowAgrees(k)'
    BY <1>1, <1>2, <1>4, OtherRow DEF Only
  <2> QED BY <2>1, <2>2
<1>5. CASE UNCHANGED job
  BY <1>1, <1>2, <1>5, OtherRow
<1> QED BY <1>3, <1>4, <1>5

(***************************************************************************)
(* The runner                                                              *)
(***************************************************************************)
LEMMA ReliedStays ==
    ASSUME TypeOK, NEW j \in Job, Only(j), \A k \in Job : Relied(k), Relied(j)'
    PROVE  \A k \in Job : Relied(k)'
  BY DEF Only, Relied, Ran, Intact

LEMMA CurrentStays ==
    ASSUME NEW j \in Job, Only(j), Ran(j)' <=> Ran(j)
    PROVE  \A k \in Job : (Current(k)' <=> Current(k)) /\ (Ran(k)' <=> Ran(k))
<1>1. \A k \in Job : Ran(k)' <=> Ran(k)
  BY DEF Only, Ran
<1>2. \A k \in Job : k \in Recorded' <=> k \in Recorded
  BY <1>1 DEF Recorded, Ran
<1> QED BY <1>1, <1>2, Earlier DEF Current

(* A runner that stays at the job it works on.                             *)
LEMMA AtJobStays ==
    ASSUME TypeOK, NEW j \in Job, Only(j), Current(j), ~Ran(j)', kind' = kind,
           job'[j].stage = "task", AtJob, RunnerAgrees
    PROVE  /\ Investigation'
           /\ \A k \in Job : Ran(k)' => ~job'[k].exceeds
           /\ \A k \in Job : Current(k)' => k = j /\ job'[k].stage = "task"
<1>1. Ran(j)' <=> Ran(j)
  BY RecordedRan DEF Current
<1>2. \A k \in Job : (Current(k)' <=> Current(k)) /\ (Ran(k)' <=> Ran(k))
  BY <1>1, CurrentStays
<1>3. \A k \in Job : Ran(k)' => ~job'[k].exceeds
  BY <1>2 DEF RunnerAgrees, Only
<1>4. \A k \in Job : Current(k)' => k = j
  BY <1>2, OneCurrent
<1> QED BY <1>3, <1>4 DEF RunnerAgrees, Investigation

LEMMA RunnerStep ==
    ASSUME ExperimentInv, TypeOK', NEW j \in Job, JobStep(j)
    PROVE  RunnerAgrees'
<1>1. TypeOK /\ RowAgrees(j) /\ RunnerAgrees
  BY DEF ExperimentInv
<1>2. Working => \A k \in Job : Relied(k)
  BY <1>1 DEF RunnerAgrees, Relied
<1>3. SUFFICES /\ Working' => \A k \in Job : Relied(k)'
               /\ AtJob' => /\ Investigation'
                            /\ \A k \in Job : Ran(k)' => ~job'[k].exceeds
                            /\ \A k \in Job : Current(k)' => job'[k].stage = "task"
               /\ runner'.pc = "sending" =>
                     \A k \in Job : Current(k)' => job'[k].call = "dispatched" /\ job'[k].paid = 0
               /\ runner'.pc = "answer" =>
                     \A k \in Job : Current(k)' => job'[k].call = "dispatched" /\ job'[k].paid = 1
  BY DEF RunnerAgrees
<1>4. Current(j) => ~Ran(j)
  BY RecordedRan DEF Current
<1>5. job[j] \in JobRow /\ job[j].paid \in Nat
  BY <1>1 DEF TypeOK, JobRow
<1>6. kind' = kind
  BY <1>1, JobGrows
<1>7. AtJob /\ Current(j) => job[j].stage = "task"
  BY <1>1 DEF RunnerAgrees
<1>8. CASE Prepare(j)
  <2>1. Investigation /\ runner.pc = "next" /\ Current(j) /\ Violations = {} /\ runner # Rest
    BY <1>8 DEF Prepare, Rest
  <2>2. CASE job[j].stage = "task" /\ UNCHANGED job /\ Goto("tick")
    <3>1. runner'.pc = "tick"
      BY <1>1, <2>1, <2>2, Gone
    <3>2. \A k \in Job : Relied(k)'
      BY <1>2, <2>1, <2>2 DEF Working, Relied, Ran, Intact
    <3>3. \A k \in Job : Ran(k)' => ~job'[k].exceeds
      BY <2>1, <2>2, RecordedRan DEF Violations, Ran
    <3>4. \A k \in Job : Current(k)' => job'[k].stage = "task"
      BY <2>1, <2>2, OneCurrent DEF Current, Recorded
    <3> QED BY <1>6, <2>1, <3>1, <3>2, <3>3, <3>4 DEF Investigation
  <2>3. CASE Only(j) /\ UNCHANGED runner
             /\ \E stage \in {"made", "started", "schema", "task"} :
                   RowIs(job'[j], stage, job[j].call, job[j].exceeds, job[j].analysis, job[j].record,
                         job[j].paid, job[j].overrun, job[j].altered)
    <3>1. Working /\ runner'.pc = "next"
      BY <2>1, <2>3 DEF Working
    <3>2. Relied(j)'
      BY <1>2, <2>3, <3>1 DEF Relied, RowIs, Ran, Intact
    <3>3. \A k \in Job : Relied(k)'
      BY <1>1, <1>2, <2>3, <3>1, <3>2, ReliedStays
    <3> QED BY <3>1, <3>3 DEF AtJob
  <2> QED BY <1>1, <1>8, <2>2, <2>3, PrepareRow
<1>9. CASE Dispatch(j)
  <2>1. Working /\ AtJob /\ Current(j) /\ job[j].call = "none" /\ Goto("sending") /\ runner # Rest
    BY <1>9 DEF Dispatch, Working, AtJob, Rest
  <2>2. /\ Only(j)
        /\ RowIs(job'[j], job[j].stage, "dispatched", job[j].exceeds, job[j].analysis, job[j].record,
                 job[j].paid, job[j].overrun, job[j].altered)
    BY <1>1, <1>9, DispatchRow
  <2>3. runner'.pc = "sending"
    BY <1>1, <2>1, Gone
  <2>4. /\ job'[j].stage = "task" /\ job'[j].call = "dispatched" /\ ~Ran(j)'
        /\ job'[j].paid = 0 /\ Relied(j)'
    BY <1>1, <1>2, <1>4, <1>5, <1>7, <2>1, <2>2 DEF RowIs, Ran, Relied, RowAgrees
  <2>5. \A k \in Job : Relied(k)'
    BY <1>1, <1>2, <2>1, <2>2, <2>4, ReliedStays
  <2>6. /\ Investigation'
        /\ \A k \in Job : Ran(k)' => ~job'[k].exceeds
        /\ \A k \in Job : Current(k)' => k = j /\ job'[k].stage = "task"
    BY <1>1, <1>6, <2>1, <2>2, <2>4, AtJobStays
  <2> QED BY <2>3, <2>4, <2>5, <2>6
<1>10. CASE Send(j)
  <2>1. Working /\ AtJob /\ Current(j) /\ Goto("answer") /\ runner # Rest
    BY <1>10 DEF Send, Working, AtJob, Rest
  <2>2. /\ Only(j)
        /\ \E over \in BOOLEAN :
             RowIs(job'[j], job[j].stage, job[j].call, job[j].exceeds, job[j].analysis,
                   job[j].record, job[j].paid + 1, over, job[j].altered)
    BY <1>1, <1>10, SendRow
  <2>3. runner'.pc = "answer" /\ job[j].call = "dispatched" /\ job[j].paid = 0
    BY <1>1, <1>10, <2>1, Gone DEF RunnerAgrees, Send
  <2>4. /\ job'[j].stage = "task" /\ ~Ran(j)' /\ Relied(j)'
        /\ job'[j].call = "dispatched" /\ job'[j].paid = 1
    BY <1>4, <1>7, <2>1, <2>2, <2>3 DEF RowIs, Ran, Relied
  <2>5. \A k \in Job : Relied(k)'
    BY <1>1, <1>2, <2>1, <2>2, <2>4, ReliedStays
  <2>6. /\ Investigation'
        /\ \A k \in Job : Ran(k)' => ~job'[k].exceeds
        /\ \A k \in Job : Current(k)' => k = j /\ job'[k].stage = "task"
    BY <1>1, <1>6, <2>1, <2>2, <2>4, AtJobStays
  <2> QED BY <2>3, <2>4, <2>5, <2>6
<1>15. CASE Settle(j)
  <2>1. Working /\ AtJob /\ Current(j) /\ Goto("tick") /\ runner # Rest
    BY <1>15 DEF Settle, Working, AtJob, Rest
  <2>2. runner'.pc = "tick"
    BY <1>1, <2>1, Gone
  <2>3. CASE UNCHANGED job
    <3>1. \A k \in Job : Relied(k)'
      BY <1>2, <2>1, <2>3 DEF Relied, Ran, Intact
    <3>2. /\ \A k \in Job : Ran(k)' => ~job'[k].exceeds
          /\ \A k \in Job : Current(k)' => job'[k].stage = "task"
          /\ Investigation'
      BY <1>1, <1>6, <2>1, <2>3 DEF RunnerAgrees, Ran, Current, Recorded, Investigation
    <3> QED BY <2>2, <3>1, <3>2
  <2>4. CASE /\ Only(j)
             /\ \E call \in {"dispatched", "decided"}, shows \in BOOLEAN :
                  RowIs(job'[j], job[j].stage, call, shows, job[j].analysis, job[j].record,
                        job[j].paid, job[j].overrun, job[j].altered)
    <3>1. job'[j].stage = "task" /\ ~Ran(j)' /\ Relied(j)'
      BY <1>4, <1>7, <2>1, <2>4 DEF RowIs, Ran, Relied
    <3>2. \A k \in Job : Relied(k)'
      BY <1>1, <1>2, <2>1, <2>4, <3>1, ReliedStays
    <3>3. /\ Investigation'
          /\ \A k \in Job : Ran(k)' => ~job'[k].exceeds
          /\ \A k \in Job : Current(k)' => k = j /\ job'[k].stage = "task"
      BY <1>1, <1>6, <2>1, <2>4, <3>1, AtJobStays
    <3> QED BY <2>2, <3>2, <3>3
  <2> QED BY <1>1, <1>15, <2>3, <2>4, SettleRow
<1>11. CASE PublishAnalysis(j)
  <2>1. Working /\ AtJob /\ Current(j) /\ Goto("ready") /\ runner # Rest
    BY <1>11 DEF PublishAnalysis, Working, AtJob, Rest
  <2>2. /\ Only(j)
        /\ RowIs(job'[j], job[j].stage, job[j].call, job[j].exceeds, TRUE, job[j].record,
                 job[j].paid, job[j].overrun, job[j].altered)
    BY <1>1, <1>11, AnalysisRow
  <2>3. runner'.pc = "ready"
    BY <1>1, <2>1, Gone
  <2>4. job'[j].stage = "task" /\ ~Ran(j)' /\ Relied(j)'
    BY <1>2, <1>4, <1>7, <2>1, <2>2 DEF RowIs, Ran, Relied
  <2>5. \A k \in Job : Relied(k)'
    BY <1>1, <1>2, <2>1, <2>2, <2>4, ReliedStays
  <2>6. /\ Investigation'
        /\ \A k \in Job : Ran(k)' => ~job'[k].exceeds
        /\ \A k \in Job : Current(k)' => k = j /\ job'[k].stage = "task"
    BY <1>1, <1>6, <2>1, <2>2, <2>4, AtJobStays
  <2> QED BY <2>3, <2>5, <2>6
<1>12. CASE PublishResult(j)
  <2>1. Working /\ Current(j) /\ Goto("done") /\ runner # Rest
    BY <1>12 DEF PublishResult, Working, Rest
  <2>2. /\ Only(j)
        /\ \E x \in {"ANALYSIS_READY", "BLOCKED", "FAILED", "UNKNOWN"} :
             RowIs(job'[j], job[j].stage, job[j].call, job[j].exceeds, job[j].analysis, x,
                   job[j].paid, job[j].overrun, job[j].altered)
    BY <1>1, <1>12, ResultRow
  <2>3. runner'.pc = "done"
    BY <1>1, <2>1, Gone
  <2>4. Ran(j)' /\ Intact(j)'
    BY <1>1, <1>4, <2>1, <2>2 DEF RowIs, Ran, Intact, RowAgrees
  <2>5. \A k \in Job : Relied(k)'
    BY <1>1, <1>2, <2>1, <2>2, <2>4, ReliedStays DEF Relied
  <2> QED BY <2>3, <2>5 DEF AtJob
<1>13. CASE Retrieve(j)
  <2>1. Working /\ Current(j) /\ UNCHANGED runner /\ runner.pc = "next"
    BY <1>13 DEF Retrieve, Working
  <2>2. /\ Only(j)
        /\ \E x \in {"completed", "short", "failed"} :
             RowIs(job'[j], job[j].stage, job[j].call, job[j].exceeds, job[j].analysis, x,
                   job[j].paid, job[j].overrun, job[j].altered)
    BY <1>1, <1>13, RetrieveRow
  <2>3. Ran(j)' /\ Intact(j)'
    BY <1>1, <1>4, <2>1, <2>2 DEF RowIs, Ran, Intact, RowAgrees
  <2>4. \A k \in Job : Relied(k)'
    BY <1>1, <1>2, <2>1, <2>2, <2>3, ReliedStays DEF Relied
  <2> QED BY <2>1, <2>4 DEF AtJob
<1>14. CASE LoseLedger(j) \/ Operate(j) \/ Alter(j)
  <2>1. runner'.pc = "rest"
    BY <1>14 DEF LoseLedger, Operate, Alter, Rest
  <2> QED BY <2>1 DEF Working, AtJob
<1> QED BY <1>8, <1>9, <1>10, <1>11, <1>12, <1>13, <1>14, <1>15 DEF JobStep

(***************************************************************************)
(* The steps that touch no job                                             *)
(***************************************************************************)
LEMMA JobsStay ==
    ASSUME ExperimentInv, UNCHANGED <<kind, job>>
    PROVE  \A k \in Job : RowAgrees(k)'
  BY Earlier DEF ExperimentInv, RowAgrees, Ran, Investigation

(* No runner works, or one works on as it did.                             *)
LEMMA RunnerIdle ==
    ASSUME runner'.pc \in {"rest", "freeze", "scan", "curate"}
    PROVE  RunnerAgrees'
  BY DEF RunnerAgrees, Working, AtJob

LEMMA RunnerNext ==
    ASSUME ExperimentInv, UNCHANGED <<kind, job>>, runner'.pc = "next",
           \/ Working
           \/ Sound
    PROVE  RunnerAgrees'
<1>1. \A k \in Job : Relied(k)
  <2>1. CASE Working
    BY <2>1 DEF ExperimentInv, RunnerAgrees, Relied
  <2>2. CASE Sound
    <3>1. TAKE k \in Job
    <3>2. TypeOK /\ RowAgrees(k)
      BY DEF ExperimentInv
    <3>3. job[k].paid > 0 /\ job[k].call = "none" => job[k].stage = "started"
      BY <3>2 DEF RowAgrees
    <3>4. Ran(k) => Intact(k)
      BY <2>2, RecordedRan DEF Sound
    <3>5. ~Ran(k) => job[k].stage # "started"
      BY <2>2, RecordedRan DEF Sound, Recoverable
    <3> QED BY <3>3, <3>4, <3>5 DEF Relied
  <2> QED BY <2>1, <2>2
<1>2. \A k \in Job : Relied(k)'
  BY <1>1 DEF Relied, Ran, Intact
<1> QED BY <1>2 DEF RunnerAgrees, AtJob, Relied

LEMMA QuietGrows ==
    ASSUME UNCHANGED job
    PROVE  Grows
  BY DEF Grows

(* The failures of the chosen cases are those that the request's evidence  *)
(* has, because that is all that is recorded.                              *)
LEMMA CuratedNow ==
    ASSUME Curate
    PROVE  CurationAgrees'
<1> DEFINE F == {j \in Failed : CaseOf[j] \in review.cases}
<1>1. /\ UNCHANGED <<split, job, review>> /\ curation' = [files |-> "dataset", failures |-> F]
      /\ split = "development" /\ review.evidence = Recorded
      /\ review.cases \subseteq CasesOf(Failed)
  BY DEF Curate, Audited
<1>2. F = {j \in review.evidence \ Baseline : /\ CaseOf[j] \in review.cases
                                             /\ job[j].record \in {"failed", "short"}}
  BY <1>1 DEF Failed
<1>3. CasesOf(F) = review.cases
  BY <1>1 DEF CasesOf
<1>4. Recorded' = Recorded /\ CasesOf(curation.failures)' = CasesOf(F)
  BY <1>1 DEF Recorded, CasesOf
<1> QED BY <1>1, <1>2, <1>3, <1>4 DEF CurationAgrees, CuratedAsReviewed

LEMMA InvInit == Init => ExperimentInv
<1> SUFFICES ASSUME Init PROVE ExperimentInv
  OBVIOUS
<1>1. TypeOK
  BY TypeInit
<1>2. \A j \in Job : RowAgrees(j)
  BY DEF Init, RowAgrees, Ran
<1>3. RunnerAgrees
  BY DEF Init, RunnerAgrees, Working, AtJob, Rest
<1>4. ReportAgrees /\ CurationAgrees
  BY DEF Init, ReportAgrees, CurationAgrees, CuratedAsReviewed, NoReport
<1> QED BY <1>1, <1>2, <1>3, <1>4 DEF ExperimentInv

LEMMA InvStep ==
    ASSUME ExperimentInv, [Next]_vars
    PROVE  ExperimentInv'
<1>1. TypeOK /\ TypeOK'
  BY TypeStep DEF ExperimentInv
<1>2. ASSUME NEW j \in Job, JobStep(j) PROVE ExperimentInv'
  <2>1. Grows /\ UNCHANGED <<split, report, review, curation>>
    BY <1>1, <1>2, JobGrows
  <2>2. (\A k \in Job : RowAgrees(k)') /\ RunnerAgrees'
    BY <1>1, <1>2, RowsStep, RunnerStep
  <2>3. ReportAgrees' /\ CurationAgrees'
    BY <1>1, <2>1, ReportStays, CurationStays DEF ExperimentInv
  <2> QED BY <1>1, <2>2, <2>3 DEF ExperimentInv
<1>3. ASSUME UNCHANGED <<kind, job>>, RunnerAgrees', ReportAgrees', CurationAgrees' PROVE ExperimentInv'
  BY <1>1, <1>3, JobsStay DEF ExperimentInv
<1>4. ASSUME UNCHANGED <<job, report>> PROVE ReportAgrees'
  BY <1>1, <1>4, QuietGrows, ReportStays DEF ExperimentInv
<1>5. ASSUME UNCHANGED <<job, split, review, curation>> PROVE CurationAgrees'
  BY <1>1, <1>5, QuietGrows, CurationStays DEF ExperimentInv
<1>6. ASSUME UNCHANGED <<kind, job, runner>> PROVE RunnerAgrees'
  BY <1>6 DEF ExperimentInv, RunnerAgrees, Relied, Working, AtJob, Ran, Intact, Current, Recorded, Investigation
<1>7. CASE UNCHANGED vars
  BY <1>3, <1>4, <1>5, <1>6, <1>7 DEF vars
<1>8. CASE MakeRun
  <2>1. runner'.pc = "freeze"
    BY <1>8 DEF MakeRun, At
  <2> QED BY <1>3, <1>4, <1>5, <1>8, <2>1, RunnerIdle DEF MakeRun
<1>9. CASE Freeze
  <2>1. runner'.pc = "scan"
    BY <1>1, <1>9, Gone, AtWork DEF Freeze
  <2> QED BY <1>3, <1>4, <1>5, <1>9, <2>1, RunnerIdle DEF Freeze
<1>10. CASE Resume
  <2>1. runner'.pc = "scan"
    BY <1>10 DEF Resume, At
  <2> QED BY <1>3, <1>4, <1>5, <1>10, <2>1, RunnerIdle DEF Resume
<1>11. CASE Scan
  <2>1. runner'.pc = "next"
    BY <1>1, <1>11, Gone, AtWork DEF Scan
  <2>2. RunnerAgrees'
    BY <1>11, <2>1, RunnerNext DEF Scan
  <2>3. ReportAgrees'
    BY <1>1, <1>11, Reported DEF Scan
  <2> QED BY <1>3, <1>5, <1>11, <2>2, <2>3 DEF Scan
<1>12. CASE Refuse \/ Crash
  <2>1. runner'.pc = "rest"
    BY <1>12 DEF Refuse, Crash, Rest
  <2> QED BY <1>3, <1>4, <1>5, <1>12, <2>1, RunnerIdle DEF Refuse, Crash
<1>13. CASE PublishReport
  <2>1. runner'.pc = "next" /\ Working
    BY <1>1, <1>13, Gone, AtWork DEF PublishReport, Working
  <2>2. RunnerAgrees'
    BY <1>13, <2>1, RunnerNext DEF PublishReport
  <2>3. ReportAgrees'
    BY <1>1, <1>13, Reported DEF PublishReport
  <2> QED BY <1>3, <1>5, <1>13, <2>2, <2>3 DEF PublishReport
<1>14. CASE Finish
  <2>1. runner'.pc = "rest"
    BY <1>14 DEF Finish, Rest
  <2>2. ReportAgrees'
    BY <1>1, <1>14, Reported DEF Finish
  <2> QED BY <1>3, <1>5, <1>14, <2>1, <2>2, RunnerIdle DEF Finish
<1>15. CASE Curate
  <2>1. runner'.pc = "curate"
    BY <1>15 DEF Curate, At
  <2>2. CurationAgrees'
    BY <1>15, CuratedNow DEF Curate
  <2> QED BY <1>3, <1>4, <1>15, <2>1, <2>2, RunnerIdle DEF Curate
<1>16. CASE PublishCuration
  <2>1. runner'.pc \in {"curate", "rest"}
    BY <1>16 DEF PublishCuration, Rest
  <2>2. curation'.failures = curation.failures /\ curation.files # "none"
    BY <1>1, <1>16 DEF PublishCuration, TypeOK
  <2>3. CurationAgrees'
    BY <1>16, <2>2 DEF PublishCuration, ExperimentInv, CurationAgrees, CuratedAsReviewed, Recorded, CasesOf
  <2> QED BY <1>3, <1>4, <1>16, <2>1, <2>3, RunnerIdle DEF PublishCuration
<1>17. CASE ChangeSource
  BY <1>3, <1>4, <1>5, <1>6, <1>17 DEF ChangeSource
<1>18. CASE Review
  <2>1. runner'.pc = "rest" /\ curation' = curation /\ curation.files = "none"
    BY <1>18 DEF Review, Rest
  <2>2. CurationAgrees'
    BY <2>1 DEF CurationAgrees, CuratedAsReviewed
  <2> QED BY <1>3, <1>4, <1>18, <2>1, <2>2, RunnerIdle DEF Review
<1> QED BY <1>2, <1>7, <1>8, <1>9, <1>10, <1>11, <1>12, <1>13, <1>14, <1>15, <1>16, <1>17, <1>18
        DEF Next, JobStep

(* Files, ledgers, the runner, reports and curated datasets agree, for any *)
(* number of jobs and implementations: what was paid and never settled is  *)
(* left to the records of unknown outcomes.                                *)
THEOREM ExperimentInvariant == Spec => []ExperimentInv
<1> QED BY InvInit, InvStep, PTL DEF Spec

(***************************************************************************)
(* Theorems                                                                *)
(***************************************************************************)
LEMMA BoundedNow == ExperimentInv => SpendingIsBounded
<1> SUFFICES ASSUME ExperimentInv PROVE SpendingIsBounded
  OBVIOUS
<1> SUFFICES ASSUME NEW j \in Job
             PROVE  /\ job[j].paid <= 1
                    /\ job[j].paid > 0 =>
                         \A i \in 1..(j - 1) :
                            /\ i \in Recorded /\ ~job[i].exceeds
                            /\ job[i].overrun => job[i].record = "UNKNOWN"
                    /\ runner.pc = "sending" /\ Current(j) => \A i \in Recorded : Intact(i)
  BY DEF SpendingIsBounded
<1>1. TypeOK /\ RowAgrees(j) /\ RunnerAgrees
  BY DEF ExperimentInv
<1>2. job[j].paid > 0 => job[j].stage # "none"
  BY <1>1 DEF RowAgrees
<1>3. job[j].paid > 0 => \A i \in 1..(j - 1) : i \in Recorded /\ ~job[i].exceeds
  BY <1>1, <1>2, Earlier, RecordedRan DEF RowAgrees
<1>4. ASSUME NEW i \in Recorded, job[i].overrun, ~job[i].exceeds PROVE job[i].record = "UNKNOWN"
  <2>1. i \in Job /\ Ran(i) /\ RowAgrees(i)
    BY <1>4 DEF ExperimentInv, Recorded, Ran
  <2>2. job[i].paid = 1 /\ Investigation /\ job[i].call # "decided" /\ job[i].call # "none"
    BY <1>4, <2>1 DEF RowAgrees
  <2>3. job[i].call = "dispatched"
    BY <1>1, <2>1, <2>2 DEF TypeOK, JobRow
  <2> QED BY <2>1, <2>2, <2>3 DEF RowAgrees
<1>5. runner.pc = "sending" => \A i \in Recorded : Intact(i)
  BY <1>1, RecordedRan DEF RunnerAgrees, Relied, Working, Recorded
<1> QED BY <1>1, <1>3, <1>4, <1>5 DEF RowAgrees

(* Each call is paid once, none after a job whose ledger shows an overrun  *)
(* and none over altered evidence; an overrun that no ledger shows belongs *)
(* to an outcome recorded as unknown (investigation_experiments.py:472-477 *)
(* and 624-660).                                                           *)
THEOREM CallsArePaidOnce == Spec => []SpendingIsBounded
<1> QED BY ExperimentInvariant, BoundedNow, PTL

LEMMA TrueNow == ExperimentInv => EvidenceIsTrue
<1> SUFFICES ASSUME ExperimentInv PROVE EvidenceIsTrue
  OBVIOUS
<1>1. ASSUME NEW j \in Recorded, Investigation
      PROVE  /\ job[j].record = "ANALYSIS_READY" => job[j].analysis /\ job[j].paid = 1
             /\ job[j].record = "UNKNOWN" <=> job[j].call = "dispatched"
  <2>1. j \in Job /\ Ran(j) /\ RowAgrees(j)
    BY <1>1 DEF ExperimentInv, Recorded, Ran
  <2> QED BY <1>1, <2>1 DEF RowAgrees
<1>2. ASSUME report.status = "COMPLETE", NEW j \in Job PROVE Good(j) /\ ~job[j].overrun
  <2>1. Ran(j) /\ Good(j) /\ ~job[j].exceeds /\ RowAgrees(j)
    BY <1>2 DEF ExperimentInv, ReportAgrees
  <2>2. ASSUME job[j].overrun PROVE FALSE
    <3>1. Investigation
      BY <2>1, <2>2 DEF RowAgrees
    <3>2. job[j].record = "ANALYSIS_READY"
      BY <2>1, <3>1 DEF RowAgrees, Good
    <3> QED BY <2>1, <2>2, <3>1, <3>2 DEF RowAgrees
  <2> QED BY <2>1, <2>2
<1> QED BY <1>1, <1>2 DEF EvidenceIsTrue

(* Reports and records say what happened                                   *)
(* (investigation_experiments.py:336-375, summarize).                      *)
THEOREM RecordsAreTrue == Spec => []EvidenceIsTrue
<1> QED BY ExperimentInvariant, TrueNow, PTL

(* A curated dataset is made of the failures that its reviewer's audit had *)
(* for the cases they chose, whatever is resumed and edited between the    *)
(* audit and the curation and afterwards (experiment_review.py:204-216).   *)
THEOREM CurationsAreReviewed == Spec => []CuratedAsReviewed
<1>1. ExperimentInv => CuratedAsReviewed
  BY DEF ExperimentInv, CurationAgrees
<1> QED BY <1>1, ExperimentInvariant, PTL
===============================================================================
