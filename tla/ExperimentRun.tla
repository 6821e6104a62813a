----------------------------- MODULE ExperimentRun -----------------------------
(***************************************************************************)
(* An experiment in its output directory: the runner that carries out its  *)
(* jobs in the order of the plan and may die between any two of its files, *)
(* the resumed runs after it, and the audit and curation that read what    *)
(* they left (investigation_experiments.py, retrieval_experiments.py,      *)
(* experiment_review.py, experiment_datasets.py).                          *)
(*                                                                         *)
(* publish_json puts each file in place at once and never replaces one,    *)
(* except report.json, so a file is published in one step.  The directory  *)
(* is locked while a runner works on it; one that finds it locked, made or *)
(* changed gives up without a trace, and is left out.  A job of an         *)
(* investigation has a directory of its own with the ledger of its paid    *)
(* calls, of which one stands for all (a second one needs the decision of  *)
(* the first); a retrieval costs nothing and leaves only its record.       *)
(***************************************************************************)
EXTENDS Naturals, FiniteSets

CONSTANTS
    Kinds,     \* the runners that may own the directory
    Jobs,      \* the number of jobs the plan schedules
    Case,      \* the cases of the dataset
    CaseOf,    \* the case of each job
    Baseline,  \* the jobs of a retrieval with the strategy "none"
    Versions   \* implementation identities that the checkout may have

ASSUME ExperimentAssumption ==
    /\ Kinds \subseteq {"investigation", "retrieval"}
    /\ Jobs \in Nat \ {0} /\ Versions # {}
    /\ CaseOf \in [1..Jobs -> Case] /\ Baseline \subseteq 1..Jobs

VARIABLES
    kind,      \* which of the two runners the directory belongs to
    split,     \* the part of the dataset that is run, development or not
    source,    \* the checkout's implementation
    plan,      \* the directory and the implementation its plan froze
    job,       \* each job's files and ledger, and what the provider did
    report,    \* report.json
    runner,    \* the process that holds the lock
    review,    \* somebody's curation request: the evidence they saw and chose from
    curation   \* the files of a curated dataset made from this archive

vars == <<kind, split, source, plan, job, report, runner, review, curation>>

Job == 1..Jobs
Investigation == kind = "investigation"

(* Its files and its ledger: how far its start came, its paid call,        *)
(* whether it shows more than the job's budget or an operation, its        *)
(* analysis and its record; and what happened: payments, whether they      *)
(* exceeded the budget, and whether a file was altered afterwards.         *)
Record == {"ANALYSIS_READY", "BLOCKED", "FAILED", "UNKNOWN", "completed", "short", "failed"}
JobRow == [stage : {"none", "made", "started", "schema", "task"},
           call : {"none", "dispatched", "decided"}, exceeds : BOOLEAN, analysis : BOOLEAN,
           record : {"NONE"} \cup Record, paid : Nat, overrun : BOOLEAN, altered : BOOLEAN]
NoReport == [status |-> "NONE", recorded |-> {}]
Rest == [pc |-> "rest"]
At(pc, version) == [pc |-> pc, version |-> version]

TypeOK ==
    /\ kind \in {"investigation", "retrieval"} /\ split \in {"development", "holdout"}
    /\ source \in Versions
    /\ plan \in [dir : {"absent", "made"}] \cup [dir : {"frozen"}, version : Versions]
    /\ job \in [Job -> JobRow]
    /\ report \in [status : {"NONE", "INCOMPLETE", "COMPLETE", "INVALID"}, recorded : SUBSET Job]
    /\ runner \in {Rest} \cup [pc : {"freeze", "scan", "next", "tick", "sending", "answer",
                                     "ready", "done", "curate"}, version : Versions]
    /\ review \in [evidence : SUBSET Job, cases : SUBSET Case]
    /\ curation \in [files : {"none", "dataset", "lineage", "complete"}, failures : SUBSET Job]

Init ==
    /\ kind \in Kinds /\ split \in {"development", "holdout"}
    /\ source \in Versions
    /\ plan = [dir |-> "absent"]
    /\ job = [j \in Job |-> [stage |-> "none", call |-> "none", exceeds |-> FALSE, analysis |-> FALSE,
                             record |-> "NONE", paid |-> 0, overrun |-> FALSE, altered |-> FALSE]]
    /\ report = NoReport
    /\ runner = Rest
    /\ review = [evidence |-> {}, cases |-> {}]
    /\ curation = [files |-> "none", failures |-> {}]

(***************************************************************************)
(* summarize.                                                              *)
(***************************************************************************)
Recorded == {j \in Job : job[j].record # "NONE"}
Good(j) == job[j].record \in {"ANALYSIS_READY", "completed", "short"}
Violations == {j \in Recorded : job[j].exceeds}

(* Faulty: complete when all that was recorded is good.  ("Faulty" marks a *)
(* definition that is no part of Spec: a plausible bug in the next one.)   *)
StatusOfRecorded ==
    IF Violations # {} THEN "INVALID"
    ELSE IF Recorded # {} /\ \A j \in Recorded : Good(j) THEN "COMPLETE" ELSE "INCOMPLETE"
Status ==
    IF Violations # {} THEN "INVALID"
    ELSE IF Recorded = Job /\ \A j \in Recorded : Good(j) THEN "COMPLETE" ELSE "INCOMPLETE"
Summary == [status |-> Status, recorded |-> Recorded]

(***************************************************************************)
(* Starting a run and resuming it.                                         *)
(***************************************************************************)
Goto(pc) == runner' = [runner EXCEPT !.pc = pc]

MakeRun ==
    /\ runner = Rest /\ plan.dir = "absent"
    /\ plan' = [dir |-> "made"]
    /\ runner' = At("freeze", source)
    /\ UNCHANGED <<kind, split, source, job, report, review, curation>>

(* dataset.json, plan.json and the directory of the jobs; a run that dies  *)
(* before the last of them is never resumed.                               *)
Freeze ==
    /\ runner.pc = "freeze"
    /\ plan' = [dir |-> "frozen", version |-> runner.version]
    /\ Goto("scan")
    /\ UNCHANGED <<kind, split, source, job, report, review, curation>>

Resume ==
    /\ runner = Rest
    /\ plan.dir = "frozen" /\ plan.version = source
    /\ runner' = At("scan", source)
    /\ UNCHANGED <<kind, split, source, plan, job, report, review, curation>>

(* Faulty: a job that was started is started again when it has no ledger.  *)
RecoverableFromStart(j) == job[j].stage \in {"none", "started", "task"}
(* started.json, and a state.db with the task of this job and no other.    *)
Recoverable(j) == job[j].stage \in {"none", "task"}

(* A record agrees with its digest, its job, its analysis and the plan.    *)
Intact(j) == ~job[j].altered

(* All old evidence is verified before any new job, and reported.          *)
Sound == (\A j \in Recorded : Intact(j)) /\ (\A j \in Job \ Recorded : Recoverable(j))

Scan ==
    /\ runner.pc = "scan" /\ Sound
    /\ report' = Summary
    /\ Goto("next")
    /\ UNCHANGED <<kind, split, source, plan, job, review, curation>>

Refuse ==
    /\ runner.pc = "scan" /\ ~Sound
    /\ runner' = Rest
    /\ UNCHANGED <<kind, split, source, plan, job, report, review, curation>>

(***************************************************************************)
(* The jobs, in the order of the schedule.                                 *)
(***************************************************************************)
Current(j) == j \notin Recorded /\ \A i \in 1..(j - 1) : i \in Recorded

(* The files of a new job: its directory, started.json, then state.db with *)
(* its schema and documents, and the task in it.                           *)
StageAfter(stage) ==
    CASE stage = "none" -> "made"
      [] stage = "made" -> "started"
      [] stage = "started" -> "schema"
      [] stage = "schema" -> "task"

Prepare(j) ==
    /\ Investigation /\ runner.pc = "next" /\ Current(j)
    /\ Violations = {}
    /\ IF job[j].stage = "task"
         THEN Goto("tick") /\ UNCHANGED job
         ELSE job' = [job EXCEPT ![j].stage = StageAfter(@)] /\ UNCHANGED runner
    /\ UNCHANGED <<kind, split, source, plan, report, review, curation>>

(* The harness commits the dispatch of the call before the request leaves. *)
Dispatch(j) ==
    /\ runner.pc = "tick" /\ Current(j)
    /\ job[j].call = "none"
    /\ job' = [job EXCEPT ![j].call = "dispatched"]
    /\ Goto("sending")
    /\ UNCHANGED <<kind, split, source, plan, report, review, curation>>

(* The provider is paid, perhaps more than the job's budget.               *)
Send(j) ==
    /\ runner.pc = "sending" /\ Current(j)
    /\ \E over \in BOOLEAN : job' = [job EXCEPT ![j].paid = @ + 1, ![j].overrun = over]
    /\ Goto("answer")
    /\ UNCHANGED <<kind, split, source, plan, report, review, curation>>

(* The call is settled with the usage that its answer states, and with the *)
(* decision if it is a valid one.  Of an answer that is lost or unreadable *)
(* the ledger has the maximum that was reserved, which the budget covers,  *)
(* whatever the provider took.                                             *)
Settle(j) ==
    /\ runner.pc = "answer" /\ Current(j)
    /\ \/ UNCHANGED job
       \/ \E call \in {"dispatched", "decided"} :
            job' = [job EXCEPT ![j].call = call, ![j].exceeds = @ \/ job[j].overrun]
    /\ Goto("tick")
    /\ UNCHANGED <<kind, split, source, plan, report, review, curation>>

(* What execute_job makes of the ledger: without a call the task was       *)
(* blocked (evidence, budget, deadline), and so may be one with a decision *)
(* whose deadline passed before a resumed run used it; any other exception *)
(* is a failure.                                                           *)
Outcomes(j) ==
    CASE job[j].call = "none" -> {"BLOCKED", "FAILED"}
      [] job[j].call = "dispatched" -> {"UNKNOWN"}
      [] job[j].call = "decided" -> {"ANALYSIS_READY", "BLOCKED", "FAILED"}

PublishAnalysis(j) ==
    /\ runner.pc = "tick" /\ Current(j)
    /\ "ANALYSIS_READY" \in Outcomes(j) /\ ~job[j].analysis
    /\ job' = [job EXCEPT ![j].analysis = TRUE]
    /\ Goto("ready")
    /\ UNCHANGED <<kind, split, source, plan, report, review, curation>>

PublishResult(j) ==
    /\ runner.pc \in {"tick", "ready"} /\ Current(j)
    /\ \E outcome \in Outcomes(j) :
         /\ outcome = "ANALYSIS_READY" => job[j].analysis
         /\ runner.pc = "ready" => outcome = "ANALYSIS_READY"
         /\ job' = [job EXCEPT ![j].record = outcome]
    /\ Goto("done")
    /\ UNCHANGED <<kind, split, source, plan, report, review, curation>>

PublishReport ==
    /\ runner.pc = "done"
    /\ report' = Summary
    /\ Goto("next")
    /\ UNCHANGED <<kind, split, source, plan, job, review, curation>>

(* A retrieval is done again if its record was not published.  One that is *)
(* short has completed and missed evidence that its case names, as the     *)
(* baseline does, which retrieves nothing.                                 *)
Retrieve(j) ==
    /\ ~Investigation /\ runner.pc = "next" /\ Current(j)
    /\ \E outcome \in {"completed", "short", "failed"} :
         /\ j \in Baseline => outcome = "short"
         /\ job' = [job EXCEPT ![j].record = outcome]
    /\ UNCHANGED <<kind, split, source, plan, report, runner, review, curation>>

(* No job is left, or an overrun stops them; an implementation that        *)
(* changed meanwhile makes the run invalid.                                *)
Finish ==
    /\ runner.pc = "next"
    /\ Recorded = Job \/ (Investigation /\ Violations # {})
    /\ report' = IF source # runner.version THEN [Summary EXCEPT !.status = "INVALID"] ELSE Summary
    /\ runner' = Rest
    /\ UNCHANGED <<kind, split, source, plan, job, review, curation>>

(***************************************************************************)
(* Curation of a retrieval archive, which is locked until it ends or dies. *)
(***************************************************************************)
Verified == plan.dir = "frozen" /\ \A j \in Recorded : Intact(j)

(* The review queue: failures and shortfalls, but for the baseline's.      *)
Failed == {j \in Recorded \ Baseline : job[j].record \in {"failed", "short"}}
CasesOf(jobs) == {CaseOf[j] : j \in jobs}

(* Somebody audits the archive, whose digest stands for what is recorded,  *)
(* and writes the request to curate some of its cases.                     *)
Review ==
    /\ ~Investigation /\ runner = Rest /\ curation.files = "none"
    /\ Verified
    /\ \E cases \in SUBSET CasesOf(Job) \ {{}} : review' = [evidence |-> Recorded, cases |-> cases]
    /\ UNCHANGED <<kind, split, source, plan, job, report, runner, curation>>

(* The request is for this evidence.  Faulty: the evidence is verified     *)
(* anew, and may have more records than the request pins.                  *)
AuditedNow == Verified /\ report = Summary /\ split = "development"
Audited == Verified /\ report = Summary /\ split = "development" /\ review.evidence = Recorded

Curate ==
    /\ ~Investigation /\ runner = Rest
    /\ curation.files = "none" /\ Audited
    /\ review.cases # {} /\ review.cases \subseteq CasesOf(Failed)
    /\ curation' = [files |-> "dataset", failures |-> {j \in Failed : CaseOf[j] \in review.cases}]
    /\ runner' = At("curate", source)
    /\ UNCHANGED <<kind, split, source, plan, job, report, review>>

(* complete.json is the last.                                              *)
PublishCuration ==
    /\ runner.pc = "curate"
    /\ \/ /\ curation.files = "dataset"
          /\ curation' = [curation EXCEPT !.files = "lineage"]
          /\ UNCHANGED runner
       \/ /\ curation.files = "lineage"
          /\ curation' = [curation EXCEPT !.files = "complete"]
          /\ runner' = Rest
    /\ UNCHANGED <<kind, split, source, plan, job, report, review>>

(***************************************************************************)
(* Processes die, checkouts change, files are lost and altered.            *)
(***************************************************************************)
Crash ==
    /\ runner # Rest
    /\ runner' = Rest
    /\ UNCHANGED <<kind, split, source, plan, job, report, review, curation>>

ChangeSource ==
    /\ \E version \in Versions \ {source} : source' = version
    /\ UNCHANGED <<kind, split, plan, job, report, runner, review, curation>>

(* The ledger of a recorded job is not read again.                         *)
LoseLedger(j) ==
    /\ runner = Rest /\ j \notin Recorded
    /\ job[j].stage \in {"schema", "task"}
    /\ job' = [job EXCEPT ![j].stage = "started", ![j].call = "none", ![j].exceeds = FALSE]
    /\ UNCHANGED <<kind, split, source, plan, report, runner, review, curation>>

(* An operation appears in a ledger: no investigation makes one.           *)
Operate(j) ==
    /\ runner = Rest /\ j \notin Recorded /\ job[j].stage = "task"
    /\ job' = [job EXCEPT ![j].exceeds = TRUE]
    /\ UNCHANGED <<kind, split, source, plan, report, runner, review, curation>>

(* A record or an analysis that somebody edits between two runs.           *)
Alter(j) ==
    /\ runner = Rest /\ j \in Recorded
    /\ job' = [job EXCEPT ![j].altered = TRUE]
    /\ UNCHANGED <<kind, split, source, plan, report, runner, review, curation>>

Next ==
    \/ MakeRun \/ Freeze \/ Resume \/ Scan \/ Refuse
    \/ \E j \in Job :
         \/ Prepare(j) \/ Dispatch(j) \/ Send(j) \/ Settle(j) \/ PublishAnalysis(j) \/ PublishResult(j)
         \/ Retrieve(j) \/ LoseLedger(j) \/ Operate(j) \/ Alter(j)
    \/ PublishReport \/ Finish
    \/ Review \/ Curate \/ PublishCuration
    \/ Crash \/ ChangeSource

Spec == Init /\ [][Next]_vars

(***************************************************************************)
(* Properties.                                                             *)
(***************************************************************************)

(* Spending is bounded: through crashes, resumes and lost ledgers each     *)
(* call is paid once; nothing is paid after a job whose ledger shows that  *)
(* it went over its budget, though its runner may die before it has        *)
(* recorded that, and an overrun that no ledger shows is one of a call     *)
(* whose outcome is on record as unknown; and no call leaves while the     *)
(* evidence of an earlier job is known to be altered                       *)
(* (investigation_experiments.py:472-477 and 624-660, model.py:212-285).   *)
SpendingIsBounded ==
    \A j \in Job :
        /\ job[j].paid <= 1
        /\ job[j].paid > 0 =>
             \A i \in 1..(j - 1) :
                /\ i \in Recorded /\ ~job[i].exceeds
                /\ job[i].overrun => job[i].record = "UNKNOWN"
        /\ runner.pc = "sending" /\ Current(j) => \A i \in Recorded : Intact(i)

(* What the directory says is true of what happened: a report of a         *)
(* complete experiment covers every job with a good result that the        *)
(* provider was paid no more for than the budget, and a job that does not  *)
(* know what it paid for is no blocked one, however the runs that wrote    *)
(* all this ended (investigation_experiments.py:336-375, summarize).       *)
EvidenceIsTrue ==
    /\ report.status = "COMPLETE" => \A j \in Job : Good(j) /\ ~job[j].overrun
    /\ \A j \in Recorded : Investigation =>
         /\ job[j].record = "ANALYSIS_READY" => job[j].analysis /\ job[j].paid = 1
         /\ job[j].record = "UNKNOWN" <=> job[j].call = "dispatched"

(* What a curated dataset was made from is what its reviewer saw: all the  *)
(* failures and shortfalls, but for the baseline's, that their audit had   *)
(* for the cases they chose, none that was recorded or altered after it,   *)
(* and none of a holdout, though runs are resumed and files are edited     *)
(* between the audit and the curation, and afterwards                      *)
(* (experiment_review.py:115 and 204-216).                                 *)
CuratedAsReviewed ==
    curation.files # "none" =>
        /\ split = "development"
        /\ curation.failures = {j \in review.evidence \ Baseline :
                                  /\ CaseOf[j] \in review.cases
                                  /\ job[j].record \in {"failed", "short"}}
        /\ review.cases = CasesOf(curation.failures)
=============================================================================
