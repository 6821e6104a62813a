---------------------------- MODULE Investigation ----------------------------
(***************************************************************************)
(* A read-only investigation of one task: evidence is collected, compiled  *)
(* into a bundle for a query, and put before the model in a paid call.     *)
(* The workflow "investigate" (investigation.py) asks once.  The workflow  *)
(* "investigation_loop" (investigation_loop.py) asks at most MaxRounds     *)
(* times: each round's query and bundle are frozen in a row before its     *)
(* call, and each tick goes from the first row to where it pays for a      *)
(* decision or reports.                                                    *)
(*                                                                         *)
(* An action is one transaction or call of a tick, several of which may be *)
(* at work, while documents are imported and revoked.  Whatever else makes *)
(* a tick raise (people stop the task, grants, deadlines, sources, a dead  *)
(* process) may happen at any time until the world is calm.                *)
(* A bundle is the set of its documents, which its digest stands for.      *)
(* A definition whose comment says "Faulty" is no part of Spec: it is a    *)
(* plausible bug in the definition below it, that some property excludes.  *)
(***************************************************************************)
EXTENDS Naturals, Sequences

CONSTANTS
    Worker,      \* threads that run a tick
    MaxRounds,   \* 3 in the code
    Query,       \* search queries
    Goal,        \* the task's goal, the query of the first round
    Normal,      \* normalized: the query with case and spaces folded
    Document,    \* versions of documents
    About,       \* the documents that a query's terms retrieve
    Maximum,     \* the cost that is reserved for a question about a bundle, by its size
    Source       \* the sources of the collection manifest, each the set of
                 \* the documents that it may answer with

ASSUME InvestigationAssumption ==
    /\ MaxRounds \in Nat \ {0}
    /\ Goal \in Query
    /\ Normal \in [Query -> Query]
    /\ About \in [Query -> SUBSET Document]
    /\ Maximum \in [SUBSET Document -> Nat]
    /\ Source \subseteq SUBSET Document

VARIABLES
    workflow,   \* contract["workflow"]
    calm,       \* from now on only documents change and only calls fail
    document,   \* the Document rows
    rounds,     \* the InvestigationRound rows, by ordinal
    paid,       \* the Reservation row of each ordinal's call key
    reports,    \* the model-analysis artifacts
    reason,     \* Task.waiting_reason, as far as the workflows set it
    tick        \* where each thread is

rows == <<document, rounds, paid, reports, reason>>
vars == <<workflow, calm, rows, tick>>

Ordinal == 1 .. MaxRounds
Bundle == SUBSET Document
Stop == "stop"
Decision == Query \cup {Stop}
Loop == workflow = "investigation_loop"

(* history, queries and bundles of a tick, in one sequence.                *)
Entry == [query : Query, bundle : Bundle, decision : Decision]
History == UNION {[1 .. n -> Entry] : n \in 0 .. MaxRounds}
StopReason == {"NO_EVIDENCE", "NO_PROGRESS", "MODEL_STOP", "REPEATED_QUERY", "ROUND_LIMIT", "DECIDED"}
Report == [seen : History, why : StopReason]

Request == [bundle : Bundle, query : Query, history : History]
Unpaid == [state |-> "NONE"]
Paid == {Unpaid} \cup [state : {"RESERVED"}, maximum : Nat]
        \cup [state : {"BOUND", "SENT"}, request : Request]
        \cup [state : {"SAVED"}, request : Request, decision : Decision]
Sent == {"SENT", "SAVED"}
Bound == {"BOUND"} \cup Sent
NoRow == [frozen |-> FALSE]
Row == {NoRow} \cup [frozen : {TRUE}, query : Query, bundle : Bundle]

(* calls counts the calls that the tick has paid for.                      *)
Rest == [pc |-> "rest"]
Tick == {Rest} \cup [pc : {"review"}]
        \cup [pc : {"started", "collect", "compile", "require", "round", "freeze",
                    "ask", "decide", "bind", "claim", "answer", "decided"},
              n : Ordinal, query : Query, bundle : Bundle, seen : History, left : SUBSET Source,
              recovered : BOOLEAN, calls : Nat]
        \cup [pc : {"report"}, seen : History, why : StopReason]

Init ==
    /\ workflow \in {"investigate", "investigation_loop"}
    /\ calm = FALSE
    /\ document = [d \in Document |-> "ABSENT"]
    /\ rounds = [n \in Ordinal |-> NoRow]
    /\ paid = [n \in Ordinal |-> Unpaid]
    /\ reports = {}
    /\ reason = "OTHER"
    /\ tick = [w \in Worker |-> Rest]

At(w, pc) == tick[w].pc = pc
Goto(w, place) == tick' = [tick EXCEPT ![w] = place]
Go(w, place) == Goto(w, place) /\ UNCHANGED reason

(* A DomainError, whose code Activities._tick leaves as the reason.        *)
Raise(w) == Goto(w, Rest) /\ reason' = "OTHER"

Begin(w) ==
    /\ tick[w] = Rest
    /\ Go(w, [pc |-> IF Loop THEN "round" ELSE "started", n |-> 1, query |-> Goal, bundle |-> {},
              seen |-> <<>>, left |-> {}, recovered |-> FALSE, calls |-> 0])
    /\ UNCHANGED <<workflow, calm, document, rounds, paid, reports>>

(***************************************************************************)
(* Evidence                                                                *)
(***************************************************************************)
Valid == {d \in Document : document[d] = "VALID"}
Bundles(seen) == {seen[i].bundle : i \in DOMAIN seen}

(* compiler.validate of the bundles that the tick goes by.                 *)
AllValid(bundles) == \A b \in bundles : b \subseteq Valid

(* "investigate" collects only while its call is not reserved.             *)
Started(w) ==
    /\ At(w, "started")
    /\ Go(w, IF paid[1].state = "NONE" THEN [tick[w] EXCEPT !.pc = "collect", !.left = Source]
             ELSE [tick[w] EXCEPT !.pc = "compile"])
    /\ UNCHANGED <<workflow, calm, document, rounds, paid, reports>>

(* One source after the other; one that answers with what was revoked      *)
(* makes the tick raise, and what the others brought stays.                *)
Collect(w) ==
    /\ At(w, "collect")
    /\ \E source \in tick[w].left : \E d \in source :
          IF document[d] = "REVOKED" THEN Raise(w) /\ UNCHANGED document
          ELSE /\ document' = [document EXCEPT ![d] = "VALID"]
               /\ Go(w, [tick[w] EXCEPT !.left = @ \ {source}])
    /\ UNCHANGED <<workflow, calm, rounds, paid, reports>>

Found(query) == Valid \cap About[query]

(* Nothing found in the first round: evidence is asked for.                *)
Compile(w) ==
    LET t == tick[w]
        found == Found(t.query)
    IN
    /\ At(w, "compile") \/ (At(w, "collect") /\ t.left = {})
    /\ Go(w, [t EXCEPT !.bundle = found,
                !.pc = IF found = {} /\ t.seen = <<>> THEN "require" ELSE IF Loop THEN "freeze" ELSE "ask"])
    /\ UNCHANGED <<workflow, calm, document, rounds, paid, reports>>

RequireEvidence(w) ==
    /\ At(w, "require")
    /\ reason' = "EVIDENCE_REQUIRED" /\ Goto(w, Rest)
    /\ UNCHANGED <<workflow, calm, document, rounds, paid, reports>>

(***************************************************************************)
(* The rounds                                                              *)
(***************************************************************************)
Concluded(seen, why) == [pc |-> "report", seen |-> seen, why |-> why]

(* What the tick does with a round goes by the row, not by what it has     *)
(* compiled itself.  Faulty: it asks about its own bundle.                 *)
JudgedOwn(t, row) ==
    IF row.bundle = {} THEN Concluded(t.seen, "NO_EVIDENCE")
    ELSE IF row.bundle \in Bundles(t.seen) THEN Concluded(t.seen, "NO_PROGRESS")
    ELSE [t EXCEPT !.pc = "ask", !.bundle = IF t.pc = "freeze" THEN t.bundle ELSE row.bundle]
Judged(t, row) ==
    IF row.bundle = {} THEN Concluded(t.seen, "NO_EVIDENCE")
    ELSE IF row.bundle \in Bundles(t.seen) THEN Concluded(t.seen, "NO_PROGRESS")
    ELSE [t EXCEPT !.pc = "ask", !.bundle = row.bundle]

(* Or INVESTIGATION_DRIFT is raised.                                       *)
GoBy(w, row) ==
    IF row.query # tick[w].query THEN Raise(w) ELSE Go(w, Judged(tick[w], row))

ReadRound(w) ==
    LET t == tick[w]
        row == rounds[t.n]
    IN
    /\ At(w, "round")
    /\ IF row.frozen THEN GoBy(w, row)
       ELSE IF ~AllValid(Bundles(t.seen)) THEN Raise(w)
       ELSE Go(w, IF t.n = 1 THEN [t EXCEPT !.pc = "collect", !.left = Source]
                  ELSE [t EXCEPT !.pc = "compile"])
    /\ UNCHANGED <<workflow, calm, document, rounds, paid, reports>>

(* insert_once: of competing ticks the first writes the row.  Faulty: each *)
(* writes its own.                                                         *)
FrozenAgain(t) == [frozen |-> TRUE, query |-> t.query, bundle |-> t.bundle]
Frozen(t) ==
    IF rounds[t.n].frozen THEN rounds[t.n]
    ELSE [frozen |-> TRUE, query |-> t.query, bundle |-> t.bundle]

Freeze(w) ==
    LET row == Frozen(tick[w]) IN
    /\ At(w, "freeze")
    /\ rounds' = [rounds EXCEPT ![tick[w].n] = row]
    /\ GoBy(w, row)
    /\ UNCHANGED <<workflow, calm, document, paid, reports>>

(* The evidence is validated, and then a saved decision looked for: only   *)
(* one that is there by now counts as recovered.                           *)
Ask(w) ==
    LET t == tick[w] IN
    /\ At(w, "ask")
    /\ IF AllValid(Bundles(t.seen) \cup {t.bundle})
       THEN Go(w, [t EXCEPT !.pc = "decide", !.recovered = paid[t.n].state = "SAVED"])
       ELSE Raise(w)
    /\ UNCHANGED <<workflow, calm, document, rounds, paid, reports>>

(***************************************************************************)
(* The paid call                                                           *)
(***************************************************************************)
RequestOf(t) == [bundle |-> t.bundle, query |-> t.query, history |-> t.seen]

(* Three transactions: the maximum is reserved, the request bound to the   *)
(* row, and the row claimed for the one sending.  A row that was reserved  *)
(* or bound for something else is a conflict, for this tick and the next.  *)
ReservedFor(row) == IF row.state = "RESERVED" THEN row.maximum ELSE Maximum[row.request.bundle]

Decide(w) ==
    LET t == tick[w]
        row == paid[t.n]
    IN
    /\ At(w, "decide")
    /\ IF row.state = "NONE"
       THEN /\ paid' = [paid EXCEPT ![t.n] = [state |-> "RESERVED", maximum |-> Maximum[t.bundle]]]
            /\ Go(w, [t EXCEPT !.pc = "bind"])
       ELSE /\ UNCHANGED paid
            /\ IF ReservedFor(row) = Maximum[t.bundle] THEN Go(w, [t EXCEPT !.pc = "bind"]) ELSE Raise(w)
    /\ UNCHANGED <<workflow, calm, document, rounds, reports>>

BoundTo(row, request) ==
    IF row.state = "RESERVED" THEN [state |-> "BOUND", request |-> request] ELSE row

(* A saved decision answers the request that it was made for; a call that  *)
(* was sent has been settled without one, or is refused by the claim.      *)
Bind(w) ==
    LET t == tick[w]
        row == BoundTo(paid[t.n], RequestOf(t))
    IN
    /\ At(w, "bind")
    /\ paid' = [paid EXCEPT ![t.n] = row]
    /\ \/ row.request # RequestOf(t) /\ Raise(w)
       \/ row.request = RequestOf(t) /\ row.state = "SAVED" /\ Go(w, [t EXCEPT !.pc = "decided"])
       \/ row.request = RequestOf(t) /\ row.state # "SAVED" /\ Go(w, [t EXCEPT !.pc = "claim"])
       \/ row.request = RequestOf(t) /\ row.state = "SENT" /\ Raise(w)
    /\ UNCHANGED <<workflow, calm, document, rounds, reports>>

Claim(w) ==
    LET t == tick[w]
        row == paid[t.n]
    IN
    /\ At(w, "claim")
    /\ IF row.state = "BOUND"
       THEN /\ paid' = [paid EXCEPT ![t.n] = [state |-> "SENT", request |-> row.request]]
            /\ Go(w, [t EXCEPT !.pc = "answer", !.calls = @ + 1])
       ELSE UNCHANGED paid /\ Raise(w)
    /\ UNCHANGED <<workflow, calm, document, rounds, reports>>

(* A valid decision is saved with its cost; any other answer, or none,     *)
(* leaves the call without one for ever.                                   *)
Answer(w) ==
    LET t == tick[w] IN
    /\ At(w, "answer")
    /\ \/ \E d \in Decision :
             /\ paid' = [paid EXCEPT ![t.n] = [state |-> "SAVED", request |-> @.request, decision |-> d]]
             /\ Go(w, [t EXCEPT !.pc = "decided"])
       \/ Raise(w) /\ UNCHANGED paid
    /\ UNCHANGED <<workflow, calm, document, rounds, reports>>

Known(query, seen) == Normal[query] \in {Normal[seen[i].query] : i \in DOMAIN seen}

(* A decision that was not there when the tick came ends it.  Faulty: the  *)
(* tick goes on with what it has just paid for; or with no decision.       *)
YieldsNever(t) == FALSE
YieldsAlways(t) == TRUE
Yields(t) == ~t.recovered

Follows(t, d) ==
    LET seen == Append(t.seen, [query |-> t.query, bundle |-> t.bundle, decision |-> d]) IN
    CASE ~Loop -> Concluded(seen, "DECIDED")
      [] Loop /\ d = Stop -> Concluded(seen, "MODEL_STOP")
      [] Loop /\ d # Stop /\ Known(d, seen) -> Concluded(seen, "REPEATED_QUERY")
      [] Loop /\ d # Stop /\ ~Known(d, seen) ->
           IF t.n = MaxRounds THEN Concluded(seen, "ROUND_LIMIT")
           ELSE IF Yields(t) THEN Rest
           ELSE [t EXCEPT !.pc = "round", !.n = @ + 1, !.query = d, !.bundle = {}, !.seen = seen,
                          !.recovered = FALSE]

Decided(w) ==
    LET t == tick[w] IN
    /\ At(w, "decided")
    /\ IF AllValid(Bundles(t.seen) \cup {t.bundle}) THEN Go(w, Follows(t, paid[t.n].decision)) ELSE Raise(w)
    /\ UNCHANGED <<workflow, calm, document, rounds, paid, reports>>

(***************************************************************************)
(* The report                                                              *)
(***************************************************************************)
PutReport(w) ==
    LET t == tick[w] IN
    /\ At(w, "report")
    /\ IF Loop /\ ~AllValid(Bundles(t.seen)) THEN Raise(w) /\ UNCHANGED reports
       ELSE /\ reports' = reports \cup {[seen |-> t.seen, why |-> t.why]}
            /\ Go(w, [pc |-> "review"])
    /\ UNCHANGED <<workflow, calm, document, rounds, paid>>

Review(w) ==
    /\ At(w, "review")
    /\ reason' = "HUMAN_REVIEW" /\ Goto(w, Rest)
    /\ UNCHANGED <<workflow, calm, document, rounds, paid, reports>>

(***************************************************************************)
(* People, faults and time                                                 *)
(***************************************************************************)
Import(d) ==
    /\ document[d] = "ABSENT"
    /\ document' = [document EXCEPT ![d] = "VALID"]
    /\ UNCHANGED <<workflow, calm, rounds, paid, reports, reason, tick>>

Revoke(d) ==
    /\ document[d] = "VALID"
    /\ document' = [document EXCEPT ![d] = "REVOKED"]
    /\ UNCHANGED <<workflow, calm, rounds, paid, reports, reason, tick>>

(* A check refuses, a source or the database fails, the process dies.      *)
Fault(w) ==
    /\ ~calm /\ tick[w] # Rest
    /\ Raise(w) \/ Go(w, Rest)
    /\ UNCHANGED <<workflow, calm, document, rounds, paid, reports>>

Calm ==
    /\ ~calm /\ calm' = TRUE
    /\ UNCHANGED <<workflow, rows, tick>>

TickStep(w) ==
    \/ Begin(w) \/ Started(w) \/ Collect(w) \/ Compile(w) \/ RequireEvidence(w)
    \/ ReadRound(w) \/ Freeze(w) \/ Ask(w) \/ Decide(w) \/ Bind(w) \/ Claim(w) \/ Answer(w)
    \/ Decided(w) \/ PutReport(w) \/ Review(w)

Next ==
    \/ \E w \in Worker : TickStep(w) \/ Fault(w)
    \/ \E d \in Document : Import(d) \/ Revoke(d)
    \/ Calm

Spec == Init /\ [][Next]_vars

(* The workflow starts one tick after another, and one that begins goes on.*)
FairSpec == Spec /\ \A w \in Worker : WF_vars(TickStep(w))

(***************************************************************************)
(* What people are shown (investigation_details)                           *)
(***************************************************************************)
StopAt(n) ==
    IF rounds[n].bundle = {} THEN "NO_EVIDENCE"
    ELSE IF \E m \in 1 .. n - 1 : rounds[m].bundle = rounds[n].bundle THEN "NO_PROGRESS"
    ELSE IF paid[n].state # "SAVED" THEN "NONE"
    ELSE IF paid[n].decision = Stop THEN "MODEL_STOP"
    ELSE IF \E m \in 1 .. n : Normal[rounds[m].query] = Normal[paid[n].decision] THEN "REPEATED_QUERY"
    ELSE IF n = MaxRounds THEN "ROUND_LIMIT" ELSE "NONE"

FrozenRounds == {n \in Ordinal : rounds[n].frozen}
ShownStops == {StopAt(n) : n \in FrozenRounds} \ {"NONE"}
ShownDecisions == {n \in FrozenRounds : paid[n].state = "SAVED"}

(***************************************************************************)
(* Properties                                                              *)
(***************************************************************************)
TypeOK ==
    /\ workflow \in {"investigate", "investigation_loop"}
    /\ calm \in BOOLEAN
    /\ document \in [Document -> {"ABSENT", "VALID", "REVOKED"}]
    /\ rounds \in [Ordinal -> Row]
    /\ paid \in [Ordinal -> Paid]
    /\ reports \subseteq Report
    /\ reason \in {"OTHER", "EVIDENCE_REQUIRED", "HUMAN_REVIEW"}
    /\ tick \in [Worker -> Tick]

(* A tick that comes again meets what was frozen and saved: it asks each   *)
(* round's own question, whoever froze the round and whatever documents    *)
(* came or went since, so that no decision is paid for in vain.            *)
Reproducible ==
    \A w \in Worker :
        LET t == tick[w] IN
        /\ t.pc \in {"round", "freeze"} /\ rounds[t.n].frozen => rounds[t.n].query = t.query
        /\ Loop /\ t.pc = "decide" /\ paid[t.n].state # "NONE" =>
             ReservedFor(paid[t.n]) = Maximum[t.bundle]
        /\ Loop /\ t.pc \in {"decide", "bind"} /\ paid[t.n].state \in Bound =>
             paid[t.n].request = RequestOf(t)

(* There is one report however many ticks write it, it holds every         *)
(* decision that was paid for, and it says what people are shown.          *)
OneReport ==
    \A r \in reports :
        /\ reports = {r}
        /\ \A n \in Ordinal : paid[n].state # "NONE" <=> n \in DOMAIN r.seen
        /\ \A n \in DOMAIN r.seen :
              paid[n].state = "SAVED" /\ paid[n].decision = r.seen[n].decision
        /\ Loop => ShownStops = {r.why} /\ ShownDecisions = DOMAIN r.seen

(* A call is paid for only while the investigation is going on, after      *)
(* every earlier round's decision, about evidence that no earlier round    *)
(* had; and no tick pays twice.                                            *)
NoWastedCall ==
    [][/\ \A n \in Ordinal : paid[n].state \notin Sent /\ paid'[n].state \in Sent =>
             /\ reports = {} /\ ShownStops = {}
             /\ \A m \in 1 .. n - 1 : paid[m].state = "SAVED" /\ rounds[m].bundle # rounds[n].bundle
       /\ \A w \in Worker : tick'[w].pc = "answer" => tick'[w].calls = 1]_vars

(* What an investigation cannot go beyond: a call whose answer was lost;   *)
(* frozen evidence that was revoked; sources that answer with what was     *)
(* revoked; no evidence; and, since "investigate" compiles its bundle anew *)
(* in each tick, a call that was reserved, bound or decided for another.   *)
Lost == \E n \in Ordinal : paid[n].state = "SENT" /\ \A w \in Worker : ~At(w, "answer")
Conflict ==
    \/ paid[1].state = "RESERVED" /\ paid[1].maximum # Maximum[Found(Goal)]
    \/ paid[1].state \in Bound /\ paid[1].request.bundle # Found(Goal)
Stuck ==
    \/ Lost
    \/ \E n \in FrozenRounds : ~AllValid({rounds[n].bundle})
    \/ \E source \in Source : \E d \in source : document[d] = "REVOKED"
    \/ ~rounds[1].frozen /\ Found(Goal) = {}
    \/ ~Loop /\ Conflict

(* Left alone, an investigation reaches people with its report, unless it  *)
(* stays in one of the above for good.                                     *)
InvestigationEnds == calm ~> (reason = "HUMAN_REVIEW" \/ []Stuck)

(***************************************************************************)
(* The inductive invariant                                                 *)
(***************************************************************************)
Asking == {"ask", "decide", "bind", "claim", "answer", "decided"}
Working == {"started", "collect", "compile", "require", "round", "freeze"} \cup Asking

(* The rounds that do not end the investigation, those that are reached    *)
(* with them behind, and those whose evidence no earlier round had.        *)
Stops == [n \in Ordinal |-> StopAt(n)]
GoingOn == {n \in FrozenRounds : paid[n].state = "SAVED" /\ Stops[n] = "NONE"}
Reached == {n \in Ordinal : 1 .. n - 1 \subseteq GoingOn}
Fresh ==
    {n \in FrozenRounds : /\ rounds[n].bundle # {}
                          /\ \A m \in 1 .. n - 1 : rounds[m].bundle # rounds[n].bundle}

(* The question of a round, and the history up to one, follow from rows.   *)
Question == [n \in Ordinal |-> IF n = 1 THEN Goal ELSE paid[n - 1].decision]
Log ==
    [n \in 0 .. MaxRounds |->
       [m \in 1 .. n |-> [query |-> rounds[m].query, bundle |-> rounds[m].bundle,
                          decision |-> paid[m].decision]]]

(* What may be reported: in the loop, how the last round ended it.         *)
Ending == {n \in FrozenRounds \cap Reached : Stops[n] # "NONE"}
LoopReports ==
    {[seen |-> Log[IF paid[n].state = "SAVED" THEN n ELSE n - 1], why |-> Stops[n]] : n \in Ending}
OnceReports ==
    IF paid[1].state # "SAVED" THEN {}
    ELSE {[seen |-> <<[query |-> Goal, bundle |-> paid[1].request.bundle, decision |-> paid[1].decision]>>,
           why |-> "DECIDED"]}
Reports == IF Loop THEN LoopReports ELSE OnceReports

RowsFollow ==
    \A n \in Ordinal :
        /\ n \in FrozenRounds => n \in Reached /\ rounds[n].query = Question[n]
        /\ paid[n].state # "NONE" => n \in Fresh
        /\ paid[n].state = "RESERVED" => paid[n].maximum = Maximum[rounds[n].bundle]
        /\ paid[n].state \in Bound =>
             paid[n].request = [bundle |-> rounds[n].bundle, query |-> rounds[n].query,
                                history |-> Log[n - 1]]
NoRows == FrozenRounds = {} /\ \A n \in Ordinal \ {1} : paid[n].state = "NONE"

(* Ticks that the rows lead to, whichever tick wrote them.                 *)
LoopTicks ==
    {t \in Tick : t.pc \in Working =>
        /\ t.pc # "started"
        /\ t.n \in Reached /\ t.query = Question[t.n] /\ t.seen = Log[t.n - 1]
        /\ t.pc \in Asking => t.n \in Fresh /\ t.bundle = rounds[t.n].bundle}
OnceTicks ==
    {t \in Tick : t.pc \in Working =>
        t.pc \notin {"round", "freeze"} /\ t.n = 1 /\ t.query = Goal /\ t.seen = <<>>}
ReportTicks == {t \in Tick : t.pc = "report" => [seen |-> t.seen, why |-> t.why] \in Reports}

(* A tick answers or uses the call that it has asked for, and pays once.   *)
PayingTicks ==
    {t \in Tick : t.pc \in Working =>
        /\ t.pc = "bind" => paid[t.n].state # "NONE"
        /\ t.pc \in {"claim", "answer", "decided"} =>
             paid[t.n].state \in Bound /\ paid[t.n].request = RequestOf(t)
        /\ t.pc = "answer" => paid[t.n].state = "SENT" /\ t.calls = 1
        /\ t.pc = "decided" \/ (t.pc \in {"decide", "bind", "claim"} /\ t.recovered) =>
             paid[t.n].state = "SAVED"
        /\ t.calls # 0 => t.pc \in {"answer", "decided"} /\ ~t.recovered}
AnswersApart ==
    \A v, w \in Worker : v # w /\ At(v, "answer") /\ At(w, "answer") => tick[v].n # tick[w].n

GoodTicks == (IF Loop THEN LoopTicks ELSE OnceTicks) \cap ReportTicks \cap PayingTicks

InvestigationInv ==
    /\ TypeOK
    /\ IF Loop THEN RowsFollow ELSE NoRows
    /\ reports \subseteq Reports
    /\ \A w \in Worker : tick[w] \in GoodTicks
    /\ AnswersApart
=============================================================================
