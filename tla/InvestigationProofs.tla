------------------------- MODULE InvestigationProofs -------------------------
(***************************************************************************)
(* An investigation is reproducible, has one report and pays for no call   *)
(* in vain, for any workers, documents, queries and number of rounds.      *)
(***************************************************************************)
EXTENDS Investigation, SequenceTheorems, TLAPS

(***************************************************************************)
(* Types                                                                   *)
(***************************************************************************)
WorkTick ==
    [pc : Working, n : Ordinal, query : Query, bundle : Bundle, seen : History,
     left : SUBSET Source, recovered : BOOLEAN, calls : Nat]
IdleTick == {Rest} \cup [pc : {"review"}]
ReportTick == [pc : {"report"}, seen : History, why : StopReason]

LEMMA TickKinds ==
    /\ Tick = IdleTick \cup WorkTick \cup ReportTick
    /\ \A t \in Tick : /\ t.pc \in Working => t \in WorkTick
                       /\ t.pc = "report" => t \in ReportTick
                       /\ t.pc \notin Working /\ t.pc # "report" => t \in IdleTick
<1>1. Tick = IdleTick \cup WorkTick \cup ReportTick
  BY DEF Tick, IdleTick, WorkTick, ReportTick, Working, Asking
<1>2. \A t \in IdleTick : t.pc \in {"rest", "review"}
  BY DEF IdleTick, Rest
<1>3. \A t \in WorkTick : t.pc \in Working
  BY DEF WorkTick
<1>4. \A t \in ReportTick : t.pc = "report"
  BY DEF ReportTick
<1> QED BY <1>1, <1>2, <1>3, <1>4 DEF Working, Asking

LEMMA Ordinals == \A n \in Ordinal : n \in Nat /\ n >= 1 /\ n <= MaxRounds /\ 1 \in Ordinal
                                     /\ (\A m \in 1 .. n - 1 : m \in Ordinal /\ m < n)
  BY InvestigationAssumption DEF Ordinal

(* A row's fields have their types once it is frozen or paid for.          *)
LEMMA RowTypes ==
    ASSUME TypeOK, NEW n \in Ordinal
    PROVE  /\ rounds[n].frozen \in BOOLEAN
           /\ rounds[n].frozen => rounds[n].query \in Query /\ rounds[n].bundle \in Bundle
           /\ paid[n].state \in {"NONE", "RESERVED"} \cup Bound
           /\ paid[n].state \in Bound => paid[n].request \in Request
           /\ paid[n].state = "SAVED" => paid[n].decision \in Decision
<1>1. rounds[n] \in Row /\ paid[n] \in Paid
  BY DEF TypeOK
<1>2. /\ rounds[n].frozen \in BOOLEAN
      /\ rounds[n].frozen => rounds[n].query \in Query /\ rounds[n].bundle \in Bundle
  <2>1. CASE rounds[n] = NoRow
    BY <2>1 DEF NoRow
  <2>2. CASE rounds[n] \in [frozen : {TRUE}, query : Query, bundle : Bundle]
    <3>1. rounds[n].frozen = TRUE /\ rounds[n].query \in Query /\ rounds[n].bundle \in Bundle
      BY <2>2
    <3> QED BY <3>1
  <2> QED BY <1>1, <2>1, <2>2 DEF Row
<1>3. /\ paid[n].state \in {"NONE", "RESERVED"} \cup Bound
      /\ paid[n].state \in Bound => paid[n].request \in Request
      /\ paid[n].state = "SAVED" => paid[n].decision \in Decision
  BY <1>1 DEF Paid, Unpaid, Bound, Sent
<1> QED BY <1>2, <1>3

(* Histories: what a decision adds to one.                                 *)
LEMMA AppendHistory ==
    ASSUME NEW n \in Nat, NEW s \in [1 .. n -> Entry], NEW e \in Entry
    PROVE  /\ Append(s, e) = [m \in 1 .. n + 1 |-> IF m = n + 1 THEN e ELSE s[m]]
           /\ Append(s, e) \in [1 .. n + 1 -> Entry]
<1>1. s \in Seq(Entry) /\ Len(s) = n
  BY LenProperties
<1>2. /\ Append(s, e) \in Seq(Entry) /\ Len(Append(s, e)) = n + 1
      /\ \A m \in 1 .. n : Append(s, e)[m] = s[m]
      /\ Append(s, e)[n + 1] = e
  BY <1>1, AppendProperties
<1>3. Append(s, e) = [m \in 1 .. n + 1 |-> Append(s, e)[m]]
  BY <1>2, LenProperties
<1> QED BY <1>1, <1>2, <1>3

LEMMA HistoryTypes ==
    ASSUME NEW n \in 0 .. MaxRounds
    PROVE  [1 .. n -> Entry] \subseteq History
  BY DEF History

(***************************************************************************)
(* The rows                                                                *)
(***************************************************************************)

(* What the decision of a round with new evidence means.                   *)
Verdict(n) ==
    IF paid[n].decision = Stop THEN "MODEL_STOP"
    ELSE IF \E m \in 1 .. n : Normal[rounds[m].query] = Normal[paid[n].decision] THEN "REPEATED_QUERY"
    ELSE IF n = MaxRounds THEN "ROUND_LIMIT" ELSE "NONE"

LEMMA StopCases ==
    ASSUME NEW n \in Ordinal
    PROVE  /\ rounds[n].bundle = {} => Stops[n] = "NO_EVIDENCE"
           /\ rounds[n].bundle # {} /\ (\E m \in 1 .. n - 1 : rounds[m].bundle = rounds[n].bundle) =>
                Stops[n] = "NO_PROGRESS"
           /\ n \in Fresh /\ paid[n].state # "SAVED" => Stops[n] = "NONE"
           /\ n \in Fresh /\ paid[n].state = "SAVED" => Stops[n] = Verdict(n)
           /\ Stops[n] \in StopReason \cup {"NONE"}
<1> USE DEF Stops, StopAt, Fresh
<1>1. rounds[n].bundle = {} => Stops[n] = "NO_EVIDENCE"
  OBVIOUS
<1>2. rounds[n].bundle # {} /\ (\E m \in 1 .. n - 1 : rounds[m].bundle = rounds[n].bundle) =>
        Stops[n] = "NO_PROGRESS"
  OBVIOUS
<1>3. n \in Fresh /\ paid[n].state # "SAVED" => Stops[n] = "NONE"
  OBVIOUS
<1>4. n \in Fresh /\ paid[n].state = "SAVED" => Stops[n] = Verdict(n)
  BY DEF Verdict
<1>5. Stops[n] \in StopReason \cup {"NONE"}
  BY DEF StopReason
<1> QED BY <1>1, <1>2, <1>3, <1>4, <1>5

LEMMA StopKept ==
    ASSUME NEW n \in Ordinal, \A m \in 1 .. n : rounds'[m] = rounds[m], paid'[n] = paid[n]
    PROVE  Stops'[n] = Stops[n]
<1>1. n \in 1 .. n /\ \A m \in 1 .. n - 1 : m \in 1 .. n
  BY Ordinals
<1>2. /\ rounds'[n] = rounds[n] /\ \A m \in 1 .. n - 1 : rounds'[m] = rounds[m]
  BY <1>1
<1> QED BY <1>1, <1>2 DEF Stops, StopAt

(* What is said of a round's row, and of the row of its call.              *)
RoundFollows(n) == n \in FrozenRounds => n \in Reached /\ rounds[n].query = Question[n]
CallFollows(n) ==
    /\ paid[n].state # "NONE" => n \in Fresh
    /\ paid[n].state = "RESERVED" => paid[n].maximum = Maximum[rounds[n].bundle]
    /\ paid[n].state \in Bound =>
         paid[n].request = [bundle |-> rounds[n].bundle, query |-> rounds[n].query,
                            history |-> Log[n - 1]]

(* Rows are written once, a bound call keeps its request and a saved       *)
(* decision stays: what follows from them stays too.                       *)
Grows ==
    /\ \A n \in Ordinal : rounds[n].frozen => rounds'[n] = rounds[n]
    /\ \A n \in Ordinal : paid[n].state # "NONE" => paid'[n].state # "NONE"
    /\ \A n \in Ordinal : paid[n].state \in Bound =>
          paid'[n].state \in Bound /\ paid'[n].request = paid[n].request
    /\ \A n \in Ordinal : paid[n].state = "SAVED" \/ n \in Ending => paid'[n] = paid[n]

LEMMA EarlierRounds ==
    ASSUME RowsFollow
    PROVE  /\ \A n \in FrozenRounds : n \in Reached
           /\ \A n \in Reached : \A m \in 1 .. n - 1 :
                /\ m \in GoingOn /\ m \in FrozenRounds /\ m \in Ordinal /\ m < n
                /\ rounds[m].frozen /\ paid[m].state = "SAVED" /\ Stops[m] = "NONE"
           /\ \A n \in FrozenRounds : \A m \in 1 .. n : m \in FrozenRounds
<1>1. \A n \in FrozenRounds : n \in Reached
  BY DEF RowsFollow, FrozenRounds
<1>2. \A n \in Reached : \A m \in 1 .. n - 1 :
         /\ m \in GoingOn /\ m \in FrozenRounds /\ m \in Ordinal /\ m < n
         /\ rounds[m].frozen /\ paid[m].state = "SAVED" /\ Stops[m] = "NONE"
  BY Ordinals DEF Reached, GoingOn, FrozenRounds
<1>3. \A n \in FrozenRounds : \A m \in 1 .. n : m \in FrozenRounds
  <2> SUFFICES ASSUME NEW n \in FrozenRounds, NEW m \in 1 .. n PROVE m \in FrozenRounds
    OBVIOUS
  <2>1. n \in Ordinal /\ (m = n \/ m \in 1 .. n - 1)
    BY Ordinals DEF FrozenRounds
  <2> QED BY <2>1, <1>1, <1>2
<1> QED BY <1>1, <1>2, <1>3

LEMMA RowsGrow ==
    ASSUME RowsFollow, Grows
    PROVE  /\ GoingOn \subseteq GoingOn' /\ Reached \subseteq Reached'
           /\ Fresh \subseteq Fresh' /\ Ending \subseteq Ending'
           /\ \A n \in Reached : Question'[n] = Question[n] /\ Log'[n - 1] = Log[n - 1]
           /\ LoopReports \subseteq LoopReports'
<1>1. \A n \in FrozenRounds : \A m \in 1 .. n : rounds'[m] = rounds[m]
  BY EarlierRounds DEF Grows, FrozenRounds
<1>2. \A n \in FrozenRounds : rounds'[n] = rounds[n] /\ n \in FrozenRounds'
  BY DEF Grows, FrozenRounds
<1>3. \A n \in GoingOn \cup Ending : n \in FrozenRounds /\ n \in Ordinal /\ paid'[n] = paid[n]
  BY DEF Grows, GoingOn, Ending, FrozenRounds
<1>4. \A n \in GoingOn \cup Ending : Stops'[n] = Stops[n]
  BY <1>1, <1>3, StopKept
<1>5. GoingOn \subseteq GoingOn'
  BY <1>2, <1>3, <1>4 DEF GoingOn
<1>6. Reached \subseteq Reached'
  BY <1>5 DEF Reached
<1>7. Fresh \subseteq Fresh'
  <2> SUFFICES ASSUME NEW n \in Fresh PROVE n \in Fresh'
    OBVIOUS
  <2>1. n \in FrozenRounds /\ n \in Ordinal
    BY DEF Fresh, FrozenRounds
  <2>2. rounds'[n] = rounds[n] /\ \A m \in 1 .. n - 1 : rounds'[m] = rounds[m]
    BY <1>1, <1>2, <2>1, Ordinals
  <2> QED BY <1>2, <2>1, <2>2 DEF Fresh
<1>8. Ending \subseteq Ending'
  BY <1>2, <1>4, <1>6 DEF Ending
<1>9. \A n \in Reached : Question'[n] = Question[n] /\ Log'[n - 1] = Log[n - 1]
  <2> SUFFICES ASSUME NEW n \in Reached PROVE Question'[n] = Question[n] /\ Log'[n - 1] = Log[n - 1]
    OBVIOUS
  <2>1. n \in Ordinal /\ n \in Nat /\ n >= 1 /\ n <= MaxRounds
    BY Ordinals DEF Reached
  <2>2. \A m \in 1 .. n - 1 : rounds'[m] = rounds[m] /\ paid'[m] = paid[m]
    BY EarlierRounds, <1>2, <1>3
  <2>3. n # 1 => n - 1 \in 1 .. n - 1
    BY <2>1
  <2>4. n - 1 \in 0 .. MaxRounds
    BY <2>1, InvestigationAssumption
  <2>5. Question'[n] = Question[n]
    BY <2>1, <2>2, <2>3 DEF Question
  <2>6. Log'[n - 1] = Log[n - 1]
    BY <2>2, <2>4 DEF Log
  <2> QED BY <2>5, <2>6
<1>10. \A n \in Ending : paid[n].state = "SAVED" => Log'[n] = Log[n]
  <2> SUFFICES ASSUME NEW n \in Ending, paid[n].state = "SAVED" PROVE Log'[n] = Log[n]
    OBVIOUS
  <2>1. n \in Ordinal /\ n \in Reached /\ n \in FrozenRounds
    BY DEF Ending, FrozenRounds
  <2>2. n \in 0 .. MaxRounds /\ \A m \in 1 .. n : m = n \/ m \in 1 .. n - 1
    BY <2>1, Ordinals, InvestigationAssumption
  <2>3. \A m \in 1 .. n : rounds'[m] = rounds[m] /\ paid'[m] = paid[m]
    BY <2>1, <2>2, EarlierRounds, <1>1, <1>3
  <2> QED BY <2>2, <2>3 DEF Log
<1>11. LoopReports \subseteq LoopReports'
  <2> SUFFICES ASSUME NEW n \in Ending
               PROVE  [seen |-> Log[IF paid[n].state = "SAVED" THEN n ELSE n - 1], why |-> Stops[n]]
                        \in LoopReports'
    BY DEF LoopReports
  <2>1. n \in Reached /\ n \in Ending' /\ Stops'[n] = Stops[n] /\ paid'[n] = paid[n]
    BY <1>3, <1>4, <1>8 DEF Ending
  <2>2. Log'[IF paid'[n].state = "SAVED" THEN n ELSE n - 1]
          = Log[IF paid[n].state = "SAVED" THEN n ELSE n - 1]
    BY <2>1, <1>9, <1>10
  <2> QED BY <2>1, <2>2 DEF LoopReports
<1> QED BY <1>5, <1>6, <1>7, <1>8, <1>9, <1>11

(***************************************************************************)
(* The ticks                                                               *)
(***************************************************************************)
LEMMA InvFacts ==
    ASSUME InvestigationInv
    PROVE  /\ TypeOK /\ reports \subseteq Reports /\ AnswersApart
           /\ Loop => RowsFollow
           /\ ~Loop => NoRows /\ Ending = {}
           /\ \A w \in Worker : /\ tick[w] \in GoodTicks /\ tick[w] \in Tick
                                /\ tick[w] \in ReportTicks /\ tick[w] \in PayingTicks
                                /\ Loop => tick[w] \in LoopTicks
                                /\ ~Loop => tick[w] \in OnceTicks
<1>1. ~Loop => Ending = {}
  BY DEF InvestigationInv, NoRows, Ending
<1>2. \A w \in Worker : /\ tick[w] \in GoodTicks /\ tick[w] \in Tick
                        /\ tick[w] \in ReportTicks /\ tick[w] \in PayingTicks
                        /\ Loop => tick[w] \in LoopTicks
                        /\ ~Loop => tick[w] \in OnceTicks
  BY DEF InvestigationInv, GoodTicks, TypeOK
<1> QED BY <1>1, <1>2 DEF InvestigationInv

LEMMA ReportsGrow ==
    ASSUME InvestigationInv, Grows, UNCHANGED workflow
    PROVE  Reports \subseteq Reports'
<1>1. CASE Loop
  BY <1>1, InvFacts, RowsGrow DEF Reports, Loop
<1>2. CASE ~Loop
  <2>1. 1 \in Ordinal
    BY InvestigationAssumption DEF Ordinal
  <2>2. OnceReports \subseteq OnceReports'
    BY <2>1 DEF OnceReports, Grows
  <2> QED BY <1>2, <2>2 DEF Reports, Loop
<1> QED BY <1>1, <1>2

(* A tick goes on as it was, unless the answer it waits for changes.       *)
LEMMA TicksStay ==
    ASSUME InvestigationInv, Grows, UNCHANGED workflow,
           NEW t \in GoodTicks, t.pc = "answer" => paid'[t.n] = paid[t.n]
    PROVE  t \in GoodTicks'
<1>1. t \in Tick /\ (t.pc \in Working => t.n \in Ordinal)
  <2>1. t \in Tick
    BY DEF GoodTicks, PayingTicks
  <2> QED BY <2>1, TickKinds DEF WorkTick
<1>2. t \in ReportTicks'
  BY <1>1, ReportsGrow DEF GoodTicks, ReportTicks
<1>3. t \in PayingTicks'
  <2>1. t \in PayingTicks
    BY DEF GoodTicks
  <2> QED BY <1>1, <2>1 DEF PayingTicks, Grows, RequestOf
<1>4. CASE Loop
  <2>1. t \in LoopTicks
    BY <1>4 DEF GoodTicks
  <2>2. RowsFollow
    BY <1>4, InvFacts
  <2>3. t.pc \in Working /\ t.pc \in Asking => rounds'[t.n] = rounds[t.n]
    BY <2>1 DEF LoopTicks, Fresh, FrozenRounds, Grows
  <2>4. t \in LoopTicks'
    BY <1>1, <2>1, <2>2, <2>3, RowsGrow DEF LoopTicks
  <2> QED BY <1>2, <1>3, <1>4, <2>4 DEF GoodTicks, Loop
<1>5. CASE ~Loop
  <2>1. t \in OnceTicks'
    BY <1>5 DEF GoodTicks, OnceTicks
  <2> QED BY <1>2, <1>3, <1>5, <2>1 DEF GoodTicks, Loop
<1> QED BY <1>4, <1>5

(* Steps after which every tick is as it was or goes on from the rows.     *)
LEMMA NextInv ==
    ASSUME InvestigationInv, TypeOK', Grows, UNCHANGED workflow,
           Loop => RowsFollow', ~Loop => NoRows',
           reports' \subseteq Reports', AnswersApart',
           \A v \in Worker :
               \/ tick'[v] = tick[v] /\ (tick[v].pc = "answer" => paid'[tick[v].n] = paid[tick[v].n])
               \/ tick'[v] \in GoodTicks'
    PROVE  InvestigationInv'
<1>1. \A v \in Worker : tick'[v] \in GoodTicks'
  <2> SUFFICES ASSUME NEW v \in Worker PROVE tick'[v] \in GoodTicks'
    OBVIOUS
  <2>1. CASE tick'[v] = tick[v] /\ (tick[v].pc = "answer" => paid'[tick[v].n] = paid[tick[v].n])
    BY <2>1, InvFacts, TicksStay
  <2> QED BY <2>1
<1> QED BY <1>1 DEF InvestigationInv, Loop

(* Steps that leave the rows alone and send nothing.                       *)
Quiet == UNCHANGED <<workflow, rounds, paid, reports>>

LEMMA RowsKept ==
    ASSUME UNCHANGED <<rounds, paid>>
    PROVE  (RowsFollow' <=> RowsFollow) /\ (NoRows' <=> NoRows)
<1>1. RowsFollow' <=> RowsFollow
  BY DEF RowsFollow, FrozenRounds, Reached, GoingOn, Stops, StopAt, Question, Fresh, Log
<1>2. NoRows' <=> NoRows
  BY DEF NoRows, FrozenRounds
<1> QED BY <1>1, <1>2

LEMMA QuietStep ==
    ASSUME InvestigationInv, Quiet, tick' \in [Worker -> Tick],
           calm' \in BOOLEAN, document' \in [Document -> {"ABSENT", "VALID", "REVOKED"}],
           reason' \in {"OTHER", "EVIDENCE_REQUIRED", "HUMAN_REVIEW"},
           \A v \in Worker : \/ tick'[v] = tick[v]
                             \/ tick'[v] \in GoodTicks \cup GoodTicks' /\ tick'[v].pc # "answer"
    PROVE  InvestigationInv'
<1>1. Grows /\ UNCHANGED <<workflow, paid>>
  BY DEF Grows, Quiet
<1>2. TypeOK'
  BY InvFacts DEF TypeOK, Quiet
<1>3. (Loop => RowsFollow') /\ (~Loop => NoRows')
  BY RowsKept, InvFacts DEF Quiet
<1>4. reports' \subseteq Reports'
  BY <1>1, ReportsGrow, InvFacts DEF Quiet
<1>5. AnswersApart'
  BY InvFacts DEF AnswersApart, At
<1>6. \A t \in GoodTicks : t \in GoodTicks'
  BY <1>1, TicksStay
<1> QED BY <1>1, <1>2, <1>3, <1>4, <1>5, <1>6, NextInv

(***************************************************************************)
(* Where a tick goes                                                       *)
(***************************************************************************)
LEMMA AtWork ==
    ASSUME InvestigationInv, NEW w \in Worker, tick[w].pc \in Working
    PROVE  /\ tick[w] \in WorkTick /\ tick[w].n \in Ordinal
           /\ tick[w].pc \notin {"answer", "decided"} => tick[w].calls = 0
           /\ ~Loop => /\ tick[w].pc \notin {"round", "freeze"}
                       /\ tick[w].n = 1 /\ tick[w].query = Goal /\ tick[w].seen = <<>>
           /\ Loop => /\ tick[w].pc # "started"
                      /\ tick[w].n \in Reached /\ tick[w].query = Question[tick[w].n]
                      /\ tick[w].seen = Log[tick[w].n - 1]
                      /\ tick[w].pc \in Asking =>
                           tick[w].n \in Fresh /\ tick[w].bundle = rounds[tick[w].n].bundle
<1>1. tick[w] \in WorkTick /\ tick[w].n \in Ordinal
  BY InvFacts, TickKinds DEF WorkTick
<1>2. tick[w].pc \notin {"answer", "decided"} => tick[w].calls = 0
  BY InvFacts DEF PayingTicks
<1>3. ~Loop => /\ tick[w].pc \notin {"round", "freeze"}
               /\ tick[w].n = 1 /\ tick[w].query = Goal /\ tick[w].seen = <<>>
  BY InvFacts DEF OnceTicks
<1>4. Loop => /\ tick[w].pc # "started"
              /\ tick[w].n \in Reached /\ tick[w].query = Question[tick[w].n]
              /\ tick[w].seen = Log[tick[w].n - 1]
              /\ tick[w].pc \in Asking =>
                   tick[w].n \in Fresh /\ tick[w].bundle = rounds[tick[w].n].bundle
  BY InvFacts DEF LoopTicks
<1> QED BY <1>1, <1>2, <1>3, <1>4

LEMMA IdleIsGood ==
    /\ IdleTick \subseteq GoodTicks /\ Rest \in IdleTick /\ [pc |-> "review"] \in IdleTick
    /\ \A p \in IdleTick : p.pc # "answer"
<1>1. \A p \in IdleTick : p \in Tick /\ p.pc \in {"rest", "review"}
  BY TickKinds DEF IdleTick, Rest
<1>2. IdleTick \subseteq GoodTicks
  BY <1>1 DEF GoodTicks, LoopTicks, OnceTicks, ReportTicks, PayingTicks, Working, Asking
<1>3. Rest \in IdleTick /\ [pc |-> "review"] \in IdleTick
  BY DEF IdleTick
<1> QED BY <1>1, <1>2, <1>3

(* A tick that goes on with its round.                                     *)
LEMMA SameRound ==
    ASSUME InvestigationInv, NEW w \in Worker, tick[w].pc \in Working, NEW p \in WorkTick,
           p.n = tick[w].n, p.query = tick[w].query, p.seen = tick[w].seen, p.calls = 0,
           p.pc \in {"collect", "compile", "require", "freeze", "ask", "decide", "bind", "claim", "decided"},
           p.pc = "freeze" => Loop,
           Loop /\ p.pc \in Asking => p.n \in Fresh /\ p.bundle = rounds[p.n].bundle,
           p.pc = "bind" => paid[p.n].state # "NONE",
           p.pc \in {"claim", "decided"} => paid[p.n].state \in Bound /\ paid[p.n].request = RequestOf(p),
           p.pc = "decided" \/ (p.pc \in {"decide", "bind", "claim"} /\ p.recovered) =>
             paid[p.n].state = "SAVED"
    PROVE  p \in GoodTicks /\ p.pc # "answer"
<1>1. p \in Tick
  BY TickKinds
<1>2. p \in ReportTicks
  BY <1>1 DEF ReportTicks
<1>3. p \in PayingTicks
  BY <1>1 DEF PayingTicks
<1>4. Loop => p \in LoopTicks
  BY <1>1, AtWork DEF LoopTicks
<1>5. ~Loop => p \in OnceTicks
  BY <1>1, AtWork DEF OnceTicks
<1> QED BY <1>2, <1>3, <1>4, <1>5 DEF GoodTicks

LEMMA ReportIsGood ==
    ASSUME NEW s \in History, NEW y \in StopReason, [seen |-> s, why |-> y] \in Reports
    PROVE  Concluded(s, y) \in GoodTicks /\ Concluded(s, y).pc # "answer"
<1> DEFINE p == Concluded(s, y)
<1>1. p.pc = "report" /\ p.seen = s /\ p.why = y
  BY DEF Concluded
<1>2. p \in ReportTick
  BY DEF Concluded, ReportTick
<1>3. p \in Tick /\ p.pc \notin Working
  BY <1>1, <1>2, TickKinds DEF Working, Asking
<1> HIDE DEF p
<1>4. p \in ReportTicks /\ p \in PayingTicks /\ p \in LoopTicks /\ p \in OnceTicks
  BY <1>1, <1>3 DEF ReportTicks, PayingTicks, LoopTicks, OnceTicks
<1> QED BY <1>1, <1>4 DEF p, GoodTicks

(* One tick moves, to a place that the rows lead to.                       *)
LEMMA Moves ==
    ASSUME InvestigationInv, Quiet, NEW w \in Worker, NEW p \in Tick,
           tick' = [tick EXCEPT ![w] = p],
           calm' \in BOOLEAN, document' \in [Document -> {"ABSENT", "VALID", "REVOKED"}],
           reason' \in {"OTHER", "EVIDENCE_REQUIRED", "HUMAN_REVIEW"},
           p \in GoodTicks \cup GoodTicks', p.pc # "answer"
    PROVE  InvestigationInv'
<1>1. tick \in [Worker -> Tick]
  BY InvFacts DEF TypeOK
<1>2. tick' \in [Worker -> Tick] /\ \A v \in Worker : tick'[v] = IF v = w THEN p ELSE tick[v]
  BY <1>1
<1> QED BY <1>2, QuietStep

LEMMA Rests ==
    ASSUME InvestigationInv, Quiet, NEW w \in Worker, Goto(w, Rest),
           calm' \in BOOLEAN, document' \in [Document -> {"ABSENT", "VALID", "REVOKED"}],
           reason' \in {"OTHER", "EVIDENCE_REQUIRED", "HUMAN_REVIEW"}
    PROVE  InvestigationInv'
<1>1. Rest \in Tick /\ Rest \in GoodTicks /\ Rest.pc # "answer"
  BY IdleIsGood, TickKinds
<1> QED BY <1>1, Moves DEF Goto

(* What the world outside the rows and ticks is after a step of a tick.    *)
LEMMA WorldKept ==
    ASSUME InvestigationInv
    PROVE  /\ UNCHANGED calm => calm' \in BOOLEAN
           /\ UNCHANGED document => document' \in [Document -> {"ABSENT", "VALID", "REVOKED"}]
           /\ UNCHANGED reason \/ reason' \in {"OTHER", "EVIDENCE_REQUIRED", "HUMAN_REVIEW"} =>
                reason' \in {"OTHER", "EVIDENCE_REQUIRED", "HUMAN_REVIEW"}
  BY InvFacts DEF TypeOK

(***************************************************************************)
(* The steps that write no row                                             *)
(***************************************************************************)
LEMMA InvInit == Init => InvestigationInv
<1> SUFFICES ASSUME Init PROVE InvestigationInv
  OBVIOUS
<1>1. \A w \in Worker : tick[w] = Rest /\ tick[w] \in GoodTicks /\ tick[w] \in Tick
  BY IdleIsGood, TickKinds DEF Init
<1>2. TypeOK
  BY <1>1 DEF Init, TypeOK, Row, Paid
<1>3. \A n \in Ordinal : ~rounds[n].frozen /\ paid[n].state = "NONE"
  BY DEF Init, NoRow, Unpaid
<1>4. IF Loop THEN RowsFollow ELSE NoRows
  BY <1>3 DEF RowsFollow, NoRows, FrozenRounds, Bound, Sent
<1>5. AnswersApart /\ reports \subseteq Reports
  BY <1>1 DEF AnswersApart, At, Rest, Init
<1> QED BY <1>1, <1>2, <1>4, <1>5 DEF InvestigationInv

LEMMA BeginInv ==
    ASSUME InvestigationInv, NEW w \in Worker, Begin(w)
    PROVE  InvestigationInv'
<1> DEFINE p == [pc |-> IF Loop THEN "round" ELSE "started", n |-> 1, query |-> Goal, bundle |-> {},
                 seen |-> <<>>, left |-> {}, recovered |-> FALSE, calls |-> 0]
<1>1. Quiet /\ tick' = [tick EXCEPT ![w] = p] /\ UNCHANGED <<calm, document, reason>>
  BY DEF Begin, Go, Goto, Quiet
<1>2. 1 \in Ordinal /\ 0 \in 0 .. MaxRounds /\ 1 .. 1 - 1 = {}
  BY InvestigationAssumption DEF Ordinal
<1>3. <<>> \in [1 .. 0 -> Entry] /\ Log[0] = <<>>
  BY <1>2 DEF Log
<1>4. p \in WorkTick
  <2>1. <<>> \in History
    BY <1>2, <1>3, HistoryTypes
  <2> QED BY <2>1, <1>2, InvestigationAssumption DEF WorkTick, Working, Bundle
<1>5. 1 \in Reached /\ Question[1] = Goal
  BY <1>2 DEF Reached, Question
<1>6. /\ p.pc = (IF Loop THEN "round" ELSE "started") /\ p.n = 1 /\ p.query = Goal
      /\ p.seen = <<>> /\ p.calls = 0
  OBVIOUS
<1>7. p \in Tick
  BY <1>4, TickKinds
<1> HIDE DEF p
<1>8. p \in ReportTicks /\ p \in PayingTicks
  BY <1>6, <1>7 DEF ReportTicks, PayingTicks
<1>9. (Loop => p \in LoopTicks) /\ (~Loop => p \in OnceTicks)
  BY <1>3, <1>5, <1>6, <1>7 DEF LoopTicks, OnceTicks, Asking
<1>10. p \in GoodTicks /\ p.pc # "answer"
  BY <1>6, <1>8, <1>9 DEF GoodTicks
<1> QED BY <1>1, <1>7, <1>10, Moves, WorldKept

LEMMA StartedInv ==
    ASSUME InvestigationInv, NEW w \in Worker, Started(w)
    PROVE  InvestigationInv'
<1> DEFINE t == tick[w]
<1>1. t.pc = "started" /\ t.pc \in Working
  BY DEF Started, At, Working
<1>2. t \in WorkTick /\ t.calls = 0 /\ ~Loop
  BY <1>1, AtWork
<1>3. /\ Quiet /\ UNCHANGED <<calm, document, reason>>
      /\ \/ tick' = [tick EXCEPT ![w] = [t EXCEPT !.pc = "collect", !.left = Source]]
         \/ tick' = [tick EXCEPT ![w] = [t EXCEPT !.pc = "compile"]]
  BY DEF Started, Go, Goto, Quiet
<1>4. ASSUME NEW p, p = [t EXCEPT !.pc = "collect", !.left = Source] \/ p = [t EXCEPT !.pc = "compile"],
             tick' = [tick EXCEPT ![w] = p]
      PROVE  InvestigationInv'
  <2>1. p \in WorkTick
    BY <1>2, <1>4 DEF WorkTick, Working
  <2>2. /\ p.n = t.n /\ p.query = t.query /\ p.seen = t.seen /\ p.calls = 0
        /\ p.pc \in {"collect", "compile"}
    BY <1>2, <1>4 DEF WorkTick
  <2>3. p \in GoodTicks /\ p.pc # "answer" /\ p \in Tick
    BY <1>1, <1>2, <2>1, <2>2, SameRound, TickKinds
  <2> QED BY <1>3, <1>4, <2>3, Moves, WorldKept
<1> QED BY <1>3, <1>4

LEMMA CollectInv ==
    ASSUME InvestigationInv, NEW w \in Worker, Collect(w)
    PROVE  InvestigationInv'
<1> DEFINE t == tick[w]
<1>1. t.pc = "collect" /\ t.pc \in Working
  BY DEF Collect, At, Working
<1>2. t \in WorkTick /\ t.calls = 0
  BY <1>1, AtWork
<1>3. PICK source \in t.left :
         \E d \in source :
           IF document[d] = "REVOKED" THEN Raise(w) /\ UNCHANGED document
           ELSE /\ document' = [document EXCEPT ![d] = "VALID"]
                /\ Go(w, [t EXCEPT !.left = @ \ {source}])
  BY DEF Collect
<1>4. PICK d \in source :
        IF document[d] = "REVOKED" THEN Raise(w) /\ UNCHANGED document
        ELSE /\ document' = [document EXCEPT ![d] = "VALID"]
             /\ Go(w, [t EXCEPT !.left = @ \ {source}])
  BY <1>3
<1>5. Quiet /\ UNCHANGED calm
  BY DEF Collect, Quiet
<1>6. document' \in [Document -> {"ABSENT", "VALID", "REVOKED"}]
  BY <1>4, InvFacts DEF TypeOK
<1>7. CASE document[d] = "REVOKED"
  BY <1>4, <1>5, <1>6, <1>7, Rests, WorldKept DEF Raise
<1>8. CASE document[d] # "REVOKED"
  <2> DEFINE p == [t EXCEPT !.left = @ \ {source}]
  <2>1. tick' = [tick EXCEPT ![w] = p] /\ UNCHANGED reason
    BY <1>4, <1>8 DEF Go, Goto
  <2>2. p \in WorkTick
    BY <1>2 DEF WorkTick
  <2>3. p.n = t.n /\ p.query = t.query /\ p.seen = t.seen /\ p.calls = 0 /\ p.pc = "collect"
    BY <1>1, <1>2 DEF WorkTick
  <2> HIDE DEF p
  <2>4. p \in GoodTicks /\ p.pc # "answer" /\ p \in Tick
    BY <1>1, <2>2, <2>3, SameRound, TickKinds DEF Asking
  <2> QED BY <1>5, <1>6, <2>1, <2>4, Moves, WorldKept
<1> QED BY <1>7, <1>8

LEMMA CompileInv ==
    ASSUME InvestigationInv, NEW w \in Worker, Compile(w)
    PROVE  InvestigationInv'
<1> DEFINE t == tick[w]
           found == Found(t.query)
           pc == IF found = {} /\ t.seen = <<>> THEN "require" ELSE IF Loop THEN "freeze" ELSE "ask"
           p == [t EXCEPT !.bundle = found, !.pc = pc]
<1>1. t.pc \in {"compile", "collect"} /\ t.pc \in Working
  BY DEF Compile, At, Working
<1>2. t \in WorkTick /\ t.calls = 0
  BY <1>1, AtWork
<1>3. Quiet /\ UNCHANGED <<calm, document, reason>> /\ tick' = [tick EXCEPT ![w] = p]
  BY DEF Compile, Go, Goto, Quiet
<1>4. pc \in {"require", "freeze", "ask"} /\ (pc = "freeze" => Loop) /\ (pc = "ask" => ~Loop)
  OBVIOUS
<1>5. found \in Bundle
  BY DEF Found, Valid, Bundle
<1> HIDE DEF pc, found
<1>6. p \in WorkTick
  BY <1>2, <1>4, <1>5 DEF WorkTick, Working, Asking
<1>7. p.n = t.n /\ p.query = t.query /\ p.seen = t.seen /\ p.calls = 0 /\ p.pc = pc
  BY <1>2 DEF WorkTick
<1> HIDE DEF p
<1>8. p \in GoodTicks /\ p.pc # "answer" /\ p \in Tick
  BY <1>1, <1>4, <1>6, <1>7, SameRound, TickKinds DEF Asking
<1> QED BY <1>3, <1>8, Moves, WorldKept

LEMMA AskInv ==
    ASSUME InvestigationInv, NEW w \in Worker, Ask(w)
    PROVE  InvestigationInv'
<1> DEFINE t == tick[w]
           p == [t EXCEPT !.pc = "decide", !.recovered = paid[t.n].state = "SAVED"]
<1>1. t.pc = "ask" /\ t.pc \in Working
  BY DEF Ask, At, Working, Asking
<1>2. t \in WorkTick /\ t.calls = 0 /\ (Loop => t.n \in Fresh /\ t.bundle = rounds[t.n].bundle)
  BY <1>1, AtWork DEF Asking
<1>3. Quiet /\ UNCHANGED <<calm, document>>
  BY DEF Ask, Quiet
<1>4. CASE Raise(w)
  BY <1>3, <1>4, Rests, WorldKept DEF Raise
<1>5. CASE Go(w, p)
  <2>1. tick' = [tick EXCEPT ![w] = p] /\ UNCHANGED reason
    BY <1>5 DEF Go, Goto
  <2>2. p \in WorkTick
    BY <1>2 DEF WorkTick, Working, Asking
  <2>3. /\ p.n = t.n /\ p.query = t.query /\ p.seen = t.seen /\ p.calls = 0 /\ p.pc = "decide"
        /\ p.bundle = t.bundle /\ (p.recovered => paid[t.n].state = "SAVED")
    BY <1>2 DEF WorkTick
  <2> HIDE DEF p
  <2>4. p \in GoodTicks /\ p.pc # "answer" /\ p \in Tick
    BY <1>1, <1>2, <2>2, <2>3, SameRound, TickKinds
  <2> QED BY <1>3, <2>1, <2>4, Moves, WorldKept
<1> QED BY <1>4, <1>5 DEF Ask

LEMMA WorldInv ==
    ASSUME InvestigationInv,
           \/ \E w \in Worker : RequireEvidence(w) \/ Review(w) \/ Fault(w)
           \/ \E d \in Document : Import(d) \/ Revoke(d)
           \/ Calm
    PROVE  InvestigationInv'
<1>1. ASSUME NEW w \in Worker, RequireEvidence(w) \/ Review(w) \/ Fault(w) PROVE InvestigationInv'
  <2>1. /\ Goto(w, Rest) /\ UNCHANGED <<workflow, calm, document, rounds, paid, reports>>
        /\ UNCHANGED reason \/ reason' \in {"OTHER", "EVIDENCE_REQUIRED", "HUMAN_REVIEW"}
    BY <1>1 DEF RequireEvidence, Review, Fault, Raise, Go
  <2> QED BY <2>1, Rests, WorldKept DEF Quiet
<1>2. ASSUME UNCHANGED <<workflow, rounds, paid, reports, reason, tick>>, calm' \in BOOLEAN,
             document' \in [Document -> {"ABSENT", "VALID", "REVOKED"}]
      PROVE  InvestigationInv'
  BY <1>2, QuietStep, InvFacts DEF Quiet, TypeOK
<1>3. ASSUME NEW d \in Document, Import(d) \/ Revoke(d) PROVE InvestigationInv'
  <2>1. /\ UNCHANGED <<workflow, calm, rounds, paid, reports, reason, tick>>
        /\ \/ document' = [document EXCEPT ![d] = "VALID"]
           \/ document' = [document EXCEPT ![d] = "REVOKED"]
    BY <1>3 DEF Import, Revoke
  <2> QED BY <2>1, <1>2, InvFacts DEF TypeOK
<1>4. ASSUME Calm PROVE InvestigationInv'
  <2>1. UNCHANGED <<workflow, rounds, paid, reports, reason, tick, document>> /\ calm' = TRUE
    BY <1>4 DEF Calm, rows
  <2> QED BY <2>1, <1>2, InvFacts DEF TypeOK
<1> QED BY <1>1, <1>3, <1>4

(* What a tick makes of a frozen row leads it on or to a report that ends  *)
(* the investigation there.                                                *)
LEMMA JudgedIsGood ==
    ASSUME rounds' \in [Ordinal -> Row], RowsFollow', Loop', NEW t \in WorkTick, t.pc \in {"round", "freeze"},
           t.calls = 0, t.n \in Reached', t.query = Question'[t.n], t.seen = Log'[t.n - 1],
           rounds'[t.n].frozen
    PROVE  LET p == Judged(t, rounds'[t.n])
           IN  p \in Tick /\ p \in GoodTicks' /\ p.pc # "answer"
<1> DEFINE n == t.n
           row == rounds'[t.n]
<1>1. /\ n \in Ordinal /\ n \in Nat /\ n >= 1 /\ n <= MaxRounds /\ t.seen \in History
      /\ \A m \in 1 .. n - 1 : m \in Ordinal
  BY Ordinals DEF WorkTick
<1>2. n \in FrozenRounds'
  BY <1>1 DEF FrozenRounds
<1>3. row.bundle \in Bundle
  <2>1. row \in Row /\ row.frozen
    BY <1>1
  <2>2. row # NoRow
    BY <2>1 DEF NoRow
  <2>3. row \in [frozen : {TRUE}, query : Query, bundle : Bundle]
    BY <2>1, <2>2 DEF Row
  <2> HIDE DEF row
  <2> QED BY <2>3
<1>4. Bundles(t.seen) = {rounds'[m].bundle : m \in 1 .. n - 1}
  <2>1. n - 1 \in 0 .. MaxRounds
    BY <1>1, InvestigationAssumption
  <2>2. Log'[n - 1] = [m \in 1 .. n - 1 |-> [query |-> rounds'[m].query, bundle |-> rounds'[m].bundle,
                                             decision |-> paid'[m].decision]]
    BY <2>1 DEF Log
  <2>3. DOMAIN t.seen = 1 .. n - 1 /\ \A m \in 1 .. n - 1 : t.seen[m].bundle = rounds'[m].bundle
    BY <2>2
  <2> QED BY <2>3 DEF Bundles
<1>5. /\ row.bundle = {} => Stops'[n] = "NO_EVIDENCE"
      /\ row.bundle # {} /\ row.bundle \in Bundles(t.seen) => Stops'[n] = "NO_PROGRESS"
  BY <1>1, <1>4 DEF Stops, StopAt
<1>6. row.bundle # {} /\ row.bundle \notin Bundles(t.seen) => n \in Fresh'
  BY <1>2, <1>4 DEF Fresh
<1>7. ASSUME NEW why \in {"NO_EVIDENCE", "NO_PROGRESS"}, Stops'[n] = why, n \notin Fresh'
      PROVE  LET p == Concluded(t.seen, why) IN p \in Tick /\ p \in GoodTicks' /\ p.pc # "answer"
  <2>1. n \in Ending'
    BY <1>2, <1>7 DEF Ending
  <2>2. paid'[n].state # "SAVED"
    BY <1>1, <1>7 DEF RowsFollow
  <2>3. [seen |-> t.seen, why |-> why] \in LoopReports'
    BY <2>1, <2>2, <1>7 DEF LoopReports
  <2> DEFINE p == Concluded(t.seen, why)
  <2>4. p.pc = "report" /\ p.seen = t.seen /\ p.why = why
    BY DEF Concluded
  <2>5. p \in Tick /\ p.pc \notin Working
    BY <1>1, <2>4, TickKinds DEF Concluded, ReportTick, StopReason, Working, Asking
  <2> HIDE DEF p
  <2>6. p \in ReportTicks' /\ p \in PayingTicks' /\ p \in LoopTicks'
    BY <2>3, <2>4, <2>5 DEF ReportTicks, PayingTicks, LoopTicks, Reports, Loop
  <2>7. p \in GoodTicks'
    BY <2>6 DEF GoodTicks, Loop
  <2> QED BY <2>4, <2>5, <2>7 DEF p
<1>8. CASE row.bundle = {}
  <2>1. n \notin Fresh'
    BY <1>8 DEF Fresh
  <2> QED BY <1>5, <1>7, <1>8, <2>1 DEF Judged
<1>9. CASE row.bundle # {} /\ row.bundle \in Bundles(t.seen)
  <2>1. n \notin Fresh'
    BY <1>4, <1>9 DEF Fresh
  <2> QED BY <1>5, <1>7, <1>9, <2>1 DEF Judged
<1>10. CASE row.bundle # {} /\ row.bundle \notin Bundles(t.seen)
  <2> DEFINE p == [t EXCEPT !.pc = "ask", !.bundle = row.bundle]
  <2>1. p \in WorkTick
    BY <1>3 DEF WorkTick, Working, Asking
  <2>2. /\ p.pc = "ask" /\ p.n = n /\ p.query = t.query /\ p.seen = t.seen /\ p.calls = 0
        /\ p.bundle = row.bundle
    BY DEF WorkTick
  <2>3. p \in Tick
    BY <2>1, TickKinds
  <2> HIDE DEF p
  <2>4. p \in ReportTicks' /\ p \in PayingTicks' /\ p \in LoopTicks'
    BY <1>6, <1>10, <2>2, <2>3 DEF ReportTicks, PayingTicks, LoopTicks
  <2>5. p \in GoodTicks'
    BY <2>4 DEF GoodTicks, Loop
  <2>6. p = Judged(t, row)
    BY <1>10 DEF Judged, p
  <2> HIDE DEF n, row
  <2> QED BY <2>2, <2>3, <2>5, <2>6 DEF n, row
<1> QED BY <1>8, <1>9, <1>10

LEMMA ReadRoundInv ==
    ASSUME InvestigationInv, NEW w \in Worker, ReadRound(w)
    PROVE  InvestigationInv'
<1> DEFINE t == tick[w]
<1>1. t.pc = "round" /\ t.pc \in Working
  BY DEF ReadRound, At, Working
<1>2. /\ t \in WorkTick /\ t.calls = 0 /\ Loop /\ RowsFollow
      /\ t.n \in Reached /\ t.query = Question[t.n] /\ t.seen = Log[t.n - 1]
  BY <1>1, AtWork, InvFacts
<1>3. Quiet /\ UNCHANGED <<calm, document>> /\ Grows
  BY DEF ReadRound, Quiet, Grows
<1>4. CASE Raise(w)
  BY <1>3, <1>4, Rests, WorldKept DEF Raise
<1>5. CASE rounds[t.n].frozen /\ Go(w, Judged(t, rounds[t.n]))
  <2> DEFINE p == Judged(t, rounds[t.n])
  <2>1. tick' = [tick EXCEPT ![w] = p] /\ UNCHANGED reason
    BY <1>5 DEF Go, Goto
  <2>2. rounds' = rounds /\ Loop'
    BY <1>2, <1>3 DEF Quiet, Loop
  <2>3. /\ t.n \in Reached' /\ t.query = Question'[t.n] /\ t.seen = Log'[t.n - 1]
    BY <1>2, <1>3, RowsGrow
  <2>4. RowsFollow'
    BY <1>2, <1>3, RowsKept DEF Quiet
  <2>5. rounds' \in [Ordinal -> Row]
    BY <1>3, InvFacts DEF TypeOK, Quiet
  <2>6. p \in Tick /\ p \in GoodTicks' /\ p.pc # "answer"
    BY <1>1, <1>2, <1>5, <2>2, <2>3, <2>4, <2>5, JudgedIsGood
  <2> HIDE DEF p
  <2> QED BY <1>3, <2>1, <2>6, Moves, WorldKept
<1>6. CASE ~rounds[t.n].frozen /\ ~Raise(w)
  <2>1. PICK p : /\ p \in {[t EXCEPT !.pc = "collect", !.left = Source], [t EXCEPT !.pc = "compile"]}
                 /\ Go(w, p)
    BY <1>6 DEF ReadRound
  <2>2. tick' = [tick EXCEPT ![w] = p] /\ UNCHANGED reason
    BY <2>1 DEF Go, Goto
  <2>3. p \in WorkTick
    BY <1>2, <2>1 DEF WorkTick, Working
  <2>4. /\ p.n = t.n /\ p.query = t.query /\ p.seen = t.seen /\ p.calls = 0
        /\ p.pc \in {"collect", "compile"}
    BY <1>2, <2>1 DEF WorkTick
  <2>5. p \in GoodTicks /\ p.pc # "answer" /\ p \in Tick
    BY <1>1, <2>3, <2>4, SameRound, TickKinds DEF Asking
  <2> QED BY <1>3, <2>2, <2>5, Moves, WorldKept
<1> QED BY <1>4, <1>5, <1>6 DEF ReadRound, GoBy

(***************************************************************************)
(* The steps that write rows                                               *)
(***************************************************************************)

(* Reports, and rows that are not written, keep following from the rest.   *)
LEMMA RowFollows ==
    ASSUME InvestigationInv, Loop, Grows, NEW n \in Ordinal
    PROVE  /\ n \in FrozenRounds => n \in FrozenRounds' /\ RoundFollows(n)'
           /\ paid'[n] = paid[n] => CallFollows(n)'
<1>1. RowsFollow
  BY InvFacts
<1>2. n \in FrozenRounds => n \in FrozenRounds' /\ RoundFollows(n)'
  BY <1>1, RowsGrow DEF RowsFollow, RoundFollows, Grows, FrozenRounds
<1>3. CASE paid[n].state = "NONE"
  BY <1>2, <1>3 DEF CallFollows, Bound, Sent
<1>4. CASE paid[n].state # "NONE"
  <2>1. n \in Fresh /\ n \in FrozenRounds /\ CallFollows(n)
    BY <1>1, <1>4 DEF RowsFollow, CallFollows, Fresh
  <2>2. n \in Reached
    BY <1>1, <2>1, EarlierRounds
  <2>3. rounds'[n] = rounds[n] /\ n \in Fresh' /\ Log'[n - 1] = Log[n - 1]
    BY <1>1, <2>1, <2>2, RowsGrow DEF Grows, FrozenRounds
  <2>4. paid'[n] = paid[n] => CallFollows(n)'
    BY <2>1, <2>3 DEF CallFollows
  <2> QED BY <1>2, <2>4
<1> QED BY <1>3, <1>4

LEMMA FreezeInv ==
    ASSUME InvestigationInv, NEW w \in Worker, Freeze(w)
    PROVE  InvestigationInv'
<1> DEFINE t == tick[w]
           n == tick[w].n
           row == Frozen(tick[w])
<1>1. t.pc = "freeze" /\ t.pc \in Working
  BY DEF Freeze, At, Working
<1>2. /\ t \in WorkTick /\ t.calls = 0 /\ Loop /\ RowsFollow /\ n \in Ordinal
      /\ n \in Reached /\ t.query = Question[n] /\ t.seen = Log[n - 1]
  BY <1>1, AtWork, InvFacts
<1>3. /\ rounds' = [rounds EXCEPT ![n] = row] /\ GoBy(w, row)
      /\ UNCHANGED <<workflow, calm, document, paid, reports>>
  BY DEF Freeze
<1>4. /\ rounds[n].frozen => row = rounds[n]
      /\ ~rounds[n].frozen => row = [frozen |-> TRUE, query |-> t.query, bundle |-> t.bundle]
  BY DEF Frozen
<1>5. rounds \in [Ordinal -> Row] /\ tick \in [Worker -> Tick]
  BY InvFacts DEF TypeOK
<1>6. row \in Row /\ row.frozen
  <2>1. CASE rounds[n].frozen
    BY <1>2, <1>4, <1>5, <2>1
  <2>2. CASE ~rounds[n].frozen
    <3>1. t.query \in Query /\ t.bundle \in Bundle
      BY <1>2 DEF WorkTick
    <3>2. row = [frozen |-> TRUE, query |-> t.query, bundle |-> t.bundle]
      BY <1>4, <2>2
    <3>3. row \in [frozen : {TRUE}, query : Query, bundle : Bundle] /\ row.frozen
      BY <3>1, <3>2
    <3> QED BY <3>3 DEF Row
  <2> QED BY <2>1, <2>2
<1> HIDE DEF row, n, t
<1>7. rounds' \in [Ordinal -> Row] /\ rounds'[n] = row /\ \A m \in Ordinal : m # n => rounds'[m] = rounds[m]
  BY <1>2, <1>3, <1>5, <1>6
<1>8. Grows
  BY <1>2, <1>3, <1>4, <1>7 DEF Grows
<1>9. n \in Reached' /\ t.query = Question'[n] /\ t.seen = Log'[n - 1] /\ Loop'
  BY <1>2, <1>3, <1>8, RowsGrow DEF Loop
<1>10. RowsFollow'
  <2> SUFFICES ASSUME NEW m \in Ordinal PROVE RoundFollows(m)' /\ CallFollows(m)'
    BY DEF RowsFollow, RoundFollows, CallFollows
  <2>1. paid'[m] = paid[m]
    BY <1>3
  <2>2. CASE m \in FrozenRounds \/ m \notin FrozenRounds'
    BY <1>2, <1>8, <2>1, <2>2, RowFollows DEF RoundFollows
  <2>3. CASE m \notin FrozenRounds /\ m \in FrozenRounds'
    <3>1. m = n /\ ~rounds[n].frozen
      BY <1>7, <2>3 DEF FrozenRounds
    <3>2. rounds'[m].query = t.query
      BY <1>4, <1>7, <3>1
    <3> QED BY <1>2, <1>8, <1>9, <2>1, <3>1, <3>2, RowFollows DEF RoundFollows
  <2> QED BY <2>2, <2>3
<1>11. PICK p : p \in Tick /\ p \in GoodTicks' /\ p.pc # "answer" /\ tick' = [tick EXCEPT ![w] = p]
                /\ (UNCHANGED reason \/ reason' = "OTHER")
  <2>1. CASE Raise(w)
    <3>1. Rest \in Tick /\ Rest \in GoodTicks /\ Rest.pc # "answer"
      BY IdleIsGood, TickKinds
    <3>2. Rest \in GoodTicks'
      BY <1>3, <1>8, <3>1, TicksStay
    <3> QED BY <2>1, <3>1, <3>2 DEF Raise, Goto
  <2>2. CASE Go(w, Judged(t, row))
    <3>1. LET p == Judged(t, row) IN p \in Tick /\ p \in GoodTicks' /\ p.pc # "answer"
      BY <1>1, <1>2, <1>6, <1>7, <1>9, <1>10, JudgedIsGood DEF n, t
    <3> QED BY <2>2, <3>1 DEF Go, Goto
  <2> QED BY <1>3, <2>1, <2>2 DEF GoBy, t
<1>12. tick' \in [Worker -> Tick] /\ \A v \in Worker : tick'[v] = IF v = w THEN p ELSE tick[v]
  BY <1>5, <1>11
<1>13. TypeOK'
  BY <1>3, <1>7, <1>11, <1>12, InvFacts DEF TypeOK
<1>14. AnswersApart'
  BY <1>11, <1>12, InvFacts DEF AnswersApart, At
<1>15. reports' \subseteq Reports'
  BY <1>3, <1>8, ReportsGrow, InvFacts
<1> QED BY <1>2, <1>3, <1>8, <1>10, <1>11, <1>12, <1>13, <1>14, <1>15, NextInv

LEMMA PutReportInv ==
    ASSUME InvestigationInv, NEW w \in Worker, PutReport(w)
    PROVE  InvestigationInv'
<1> DEFINE t == tick[w]
           r == [seen |-> t.seen, why |-> t.why]
<1>1. /\ t.pc = "report" /\ UNCHANGED <<workflow, calm, document, rounds, paid>>
      /\ \/ Raise(w) /\ UNCHANGED reports
         \/ reports' = reports \cup {r} /\ Go(w, [pc |-> "review"])
  BY DEF PutReport, At
<1>2. t \in ReportTick /\ r \in Reports
  BY <1>1, InvFacts, TickKinds DEF ReportTicks
<1>3. r \in Report
  BY <1>2 DEF ReportTick, Report
<1> HIDE DEF r
<1>4. Grows
  BY <1>1 DEF Grows
<1>5. PICK p \in IdleTick : tick' = [tick EXCEPT ![w] = p] /\ (UNCHANGED reason \/ reason' = "OTHER")
  BY <1>1, IdleIsGood DEF Raise, Go, Goto
<1>6. tick \in [Worker -> Tick] /\ p \in Tick /\ p \in GoodTicks /\ p.pc # "answer"
  BY InvFacts, IdleIsGood, TickKinds DEF TypeOK
<1>7. tick' \in [Worker -> Tick] /\ \A v \in Worker : tick'[v] = IF v = w THEN p ELSE tick[v]
  BY <1>5, <1>6
<1>8. p \in GoodTicks'
  BY <1>1, <1>4, <1>6, TicksStay
<1>9. TypeOK'
  BY <1>1, <1>3, <1>5, <1>7, InvFacts DEF TypeOK
<1>10. AnswersApart'
  BY <1>6, <1>7, InvFacts DEF AnswersApart, At
<1>11. reports' \subseteq Reports'
  BY <1>1, <1>2, <1>4, ReportsGrow, InvFacts
<1>12. (Loop => RowsFollow') /\ (~Loop => NoRows')
  BY <1>1, RowsKept, InvFacts
<1> QED BY <1>1, <1>4, <1>7, <1>8, <1>9, <1>10, <1>11, <1>12, NextInv

(* A tick reserves, binds or claims a call, or saves its answer.           *)
LEMMA PaidStep ==
    ASSUME InvestigationInv, NEW w \in Worker, tick[w].pc \in {"decide", "bind", "claim", "answer"},
           NEW row \in Paid, row.state # "NONE",
           row.state = "RESERVED" => row.maximum = Maximum[tick[w].bundle],
           row.state \in Bound => row.request = RequestOf(tick[w]),
           paid[tick[w].n].state # "SAVED",
           paid[tick[w].n].state \in Bound =>
             row.state \in Bound /\ row.request = paid[tick[w].n].request,
           paid' = [paid EXCEPT ![tick[w].n] = row],
           UNCHANGED <<workflow, calm, document, rounds, reports, reason>>,
           NEW p \in WorkTick, tick' = [tick EXCEPT ![w] = p],
           p.n = tick[w].n, p.query = tick[w].query, p.seen = tick[w].seen,
           p.bundle = tick[w].bundle, ~p.recovered,
           p.pc \in {"bind", "claim", "answer", "decided"},
           p.pc # "bind" => row.state \in Bound,
           p.pc = "answer" => row.state = "SENT",
           p.pc = "decided" => row.state = "SAVED",
           p.calls = (IF p.pc \in {"answer", "decided"} THEN 1 ELSE 0),
           \A v \in Worker \ {w} : ~(tick[v].pc = "answer" /\ tick[v].n = tick[w].n)
    PROVE  InvestigationInv'
<1> DEFINE t == tick[w]
           n == tick[w].n
<1>1. /\ t \in WorkTick /\ n \in Ordinal /\ t.pc \in Working /\ t.pc \in Asking
      /\ ~Loop => n = 1 /\ t.query = Goal /\ t.seen = <<>>
      /\ Loop => /\ RowsFollow /\ n \in Reached /\ t.query = Question[n] /\ t.seen = Log[n - 1]
                 /\ n \in Fresh /\ t.bundle = rounds[n].bundle
  BY AtWork, InvFacts DEF Working, Asking
<1>2. p.pc \in Working /\ p.pc \in Asking
  BY DEF Working, Asking
<1>3. paid \in [Ordinal -> Paid] /\ tick \in [Worker -> Tick] /\ p \in Tick
  BY InvFacts, TickKinds DEF TypeOK
<1>4. row.state \in Bound => RequestOf(p) = row.request
  BY DEF RequestOf
<1>5. row.state \in Bound => row.request = [bundle |-> t.bundle, query |-> t.query, history |-> t.seen]
  BY DEF RequestOf
<1> HIDE DEF n, t
<1>6. paid' \in [Ordinal -> Paid] /\ paid'[n] = row /\ \A m \in Ordinal : m # n => paid'[m] = paid[m]
  BY <1>1, <1>3 DEF n
<1>7. n \notin Ending
  <2>1. CASE Loop
    BY <1>1, <2>1, StopCases DEF Ending, n
  <2>2. CASE ~Loop
    BY <2>2, InvFacts
  <2> QED BY <2>1, <2>2
<1>8. Grows
  BY <1>6, <1>7 DEF Grows, n
<1>9. Loop => RowsFollow'
  <2> SUFFICES ASSUME Loop, NEW m \in Ordinal PROVE RoundFollows(m)' /\ CallFollows(m)'
    BY DEF RowsFollow, RoundFollows, CallFollows
  <2>1. FrozenRounds' = FrozenRounds
    BY DEF FrozenRounds
  <2>2. RoundFollows(m)'
    BY <1>8, <2>1, RowFollows DEF RoundFollows
  <2>3. CASE m # n
    BY <1>6, <1>8, <2>2, <2>3, RowFollows
  <2>4. CASE m = n
    <3>1. n \in Fresh' /\ Log'[n - 1] = Log[n - 1]
      BY <1>1, <1>8, RowsGrow
    <3>2. rounds'[n].query = t.query /\ rounds'[n].bundle = t.bundle
      BY <1>1 DEF RowsFollow, Fresh
    <3>3. row.state = "RESERVED" => row.maximum = Maximum[t.bundle]
      BY DEF t
    <3>4. CallFollows(m)'
      BY <1>1, <1>5, <1>6, <2>4, <3>1, <3>2, <3>3 DEF CallFollows
    <3> QED BY <2>2, <3>4
  <2> QED BY <2>3, <2>4
<1>10. ~Loop => NoRows'
  BY <1>1, <1>6, InvFacts DEF NoRows, FrozenRounds
<1>11. tick' \in [Worker -> Tick] /\ \A v \in Worker : tick'[v] = IF v = w THEN p ELSE tick[v]
  BY <1>3
<1>12. TypeOK'
  BY <1>6, <1>11, InvFacts DEF TypeOK
<1>13. AnswersApart'
  BY <1>11, InvFacts DEF AnswersApart, At
<1>14. p \in PayingTicks' /\ p \in ReportTicks'
  BY <1>2, <1>3, <1>4, <1>6 DEF PayingTicks, ReportTicks, n, RequestOf
<1>15. (Loop => p \in LoopTicks') /\ (~Loop => p \in OnceTicks')
  <2>1. ASSUME Loop PROVE p \in LoopTicks'
    <3>1. n \in Reached' /\ n \in Fresh' /\ Question'[n] = Question[n] /\ Log'[n - 1] = Log[n - 1]
      BY <1>1, <1>8, <2>1, RowsGrow
    <3> QED BY <1>1, <1>3, <2>1, <3>1 DEF LoopTicks, n, t
  <2>2. ASSUME ~Loop PROVE p \in OnceTicks'
    BY <1>1, <1>3, <2>2 DEF OnceTicks, n, t
  <2> QED BY <2>1, <2>2
<1>16. p \in GoodTicks'
  BY <1>14, <1>15 DEF GoodTicks, Loop
<1>17. \A v \in Worker :
          \/ tick'[v] = tick[v] /\ (tick[v].pc = "answer" => paid'[tick[v].n] = paid[tick[v].n])
          \/ tick'[v] \in GoodTicks'
  <2> SUFFICES ASSUME NEW v \in Worker \ {w}, tick[v].pc = "answer"
               PROVE  paid'[tick[v].n] = paid[tick[v].n]
    BY <1>11, <1>16
  <2>1. tick[v].n \in Ordinal
    BY AtWork DEF Working, Asking
  <2> QED BY <1>6, <2>1 DEF n
<1>18. reports' \subseteq Reports'
  BY <1>8, ReportsGrow, InvFacts
<1> QED BY <1>8, <1>9, <1>10, <1>12, <1>13, <1>17, <1>18, NextInv

LEMMA DecideInv ==
    ASSUME InvestigationInv, NEW w \in Worker, Decide(w)
    PROVE  InvestigationInv'
<1> DEFINE t == tick[w]
           n == tick[w].n
           p == [t EXCEPT !.pc = "bind"]
<1>1. /\ t.pc = "decide" /\ t.pc \in Working /\ t.pc \in Asking
      /\ UNCHANGED <<workflow, calm, document, rounds, reports>>
  BY DEF Decide, At, Working, Asking
<1>2. /\ t \in WorkTick /\ n \in Ordinal /\ t.calls = 0
      /\ (t.recovered => paid[n].state = "SAVED")
      /\ Loop => n \in Fresh /\ t.bundle = rounds[n].bundle
  BY <1>1, AtWork, InvFacts DEF PayingTicks
<1>3. p \in WorkTick
  BY <1>2 DEF WorkTick, Working, Asking
<1>4. /\ p.n = n /\ p.query = t.query /\ p.seen = t.seen /\ p.bundle = t.bundle
      /\ p.calls = 0 /\ p.recovered = t.recovered /\ p.pc = "bind"
  BY <1>2 DEF WorkTick
<1>5. CASE paid[n].state = "NONE"
  <2> DEFINE row == [state |-> "RESERVED", maximum |-> Maximum[t.bundle]]
  <2>1. paid' = [paid EXCEPT ![n] = row] /\ tick' = [tick EXCEPT ![w] = p] /\ UNCHANGED reason
    BY <1>5 DEF Decide, Go, Goto
  <2>2. row \in Paid /\ row.state = "RESERVED" /\ row.maximum = Maximum[t.bundle]
    <3>1. Maximum[t.bundle] \in Nat
      BY <1>2, InvestigationAssumption DEF WorkTick, Bundle
    <3> QED BY <3>1 DEF Paid
  <2>3. ~p.recovered
    BY <1>2, <1>3, <1>4, <1>5 DEF WorkTick
  <2>4. \A v \in Worker \ {w} : ~(tick[v].pc = "answer" /\ tick[v].n = n)
    BY <1>5, InvFacts DEF PayingTicks, Working, Asking
  <2> HIDE DEF row, p
  <2> QED BY <1>1, <1>3, <1>4, <1>5, <2>1, <2>2, <2>3, <2>4, PaidStep DEF Bound, Sent
<1>6. CASE paid[n].state # "NONE"
  <2>1. Quiet /\ UNCHANGED <<calm, document>>
    BY <1>1, <1>6 DEF Decide, Quiet
  <2>2. CASE Raise(w)
    BY <2>1, <2>2, Rests, WorldKept DEF Raise
  <2>3. CASE Go(w, p)
    <3>1. tick' = [tick EXCEPT ![w] = p] /\ UNCHANGED reason
      BY <2>3 DEF Go, Goto
    <3> HIDE DEF p
    <3>2. p \in GoodTicks /\ p.pc # "answer" /\ p \in Tick
      BY <1>1, <1>2, <1>3, <1>4, <1>6, SameRound, TickKinds
    <3> QED BY <2>1, <3>1, <3>2, Moves, WorldKept
  <2> QED BY <1>6, <2>2, <2>3 DEF Decide
<1> QED BY <1>5, <1>6

LEMMA BindInv ==
    ASSUME InvestigationInv, NEW w \in Worker, Bind(w)
    PROVE  InvestigationInv'
<1> DEFINE t == tick[w]
           n == tick[w].n
           row == BoundTo(paid[tick[w].n], RequestOf(tick[w]))
<1>1. /\ t.pc = "bind" /\ t.pc \in Working /\ t.pc \in Asking
      /\ UNCHANGED <<workflow, calm, document, rounds, reports>>
      /\ paid' = [paid EXCEPT ![n] = row]
  BY DEF Bind, At, Working, Asking
<1>2. /\ t \in WorkTick /\ n \in Ordinal /\ t.calls = 0 /\ paid[n].state # "NONE"
      /\ (t.recovered => paid[n].state = "SAVED")
      /\ Loop => n \in Fresh /\ t.bundle = rounds[n].bundle
  BY <1>1, AtWork, InvFacts DEF PayingTicks
<1>3. ASSUME NEW pc \in {"claim", "decided"}
      PROVE  LET p == [t EXCEPT !.pc = pc] IN
             /\ p \in WorkTick /\ p.n = n /\ p.query = t.query /\ p.seen = t.seen
             /\ p.bundle = t.bundle /\ p.calls = 0 /\ p.recovered = t.recovered /\ p.pc = pc
  BY <1>2 DEF WorkTick, Working, Asking
<1>4. CASE paid[n].state = "RESERVED"
  <2> DEFINE p == [t EXCEPT !.pc = "claim"]
  <2>1. row = [state |-> "BOUND", request |-> RequestOf(t)]
    BY <1>4 DEF BoundTo
  <2>2. row \in Paid /\ row.state = "BOUND" /\ row.request = RequestOf(t)
    <3>1. RequestOf(t) \in Request
      BY <1>2 DEF RequestOf, Request, WorkTick
    <3> QED BY <2>1, <3>1 DEF Paid
  <2>3. tick' = [tick EXCEPT ![w] = p] /\ UNCHANGED reason
    BY <2>2 DEF Bind, Go, Goto
  <2>4. \A v \in Worker \ {w} : ~(tick[v].pc = "answer" /\ tick[v].n = n)
    BY <1>4, InvFacts DEF PayingTicks, Working, Asking
  <2>5. /\ p \in WorkTick /\ p.n = n /\ p.query = t.query /\ p.seen = t.seen
        /\ p.bundle = t.bundle /\ p.calls = 0 /\ ~p.recovered /\ p.pc = "claim"
    BY <1>2, <1>3, <1>4 DEF WorkTick
  <2> HIDE DEF row, p
  <2> QED BY <1>1, <1>4, <2>2, <2>3, <2>4, <2>5, PaidStep DEF Bound, Sent
<1>5. CASE paid[n].state # "RESERVED"
  <2>1. paid[n].state \in Bound /\ row = paid[n]
    BY <1>2, <1>5, RowTypes, InvFacts DEF BoundTo
  <2>2. Quiet /\ UNCHANGED <<calm, document>>
    <3>1. paid \in [Ordinal -> Paid]
      BY InvFacts DEF TypeOK
    <3> HIDE DEF row
    <3>2. UNCHANGED paid
      BY <1>1, <1>2, <2>1, <3>1
    <3> QED BY <1>1, <3>2 DEF Quiet
  <2>3. CASE Raise(w)
    BY <2>2, <2>3, Rests, WorldKept DEF Raise
  <2>4. ASSUME NEW pc \in {"claim", "decided"}, Go(w, [t EXCEPT !.pc = pc]), row.request = RequestOf(t),
               pc = "decided" => row.state = "SAVED"
        PROVE  InvestigationInv'
    <3> DEFINE p == [t EXCEPT !.pc = pc]
    <3>1. tick' = [tick EXCEPT ![w] = p] /\ UNCHANGED reason
      BY <2>4 DEF Go, Goto
    <3>2. /\ p \in WorkTick /\ p.n = n /\ p.query = t.query /\ p.seen = t.seen
          /\ p.bundle = t.bundle /\ p.calls = 0 /\ p.recovered = t.recovered /\ p.pc = pc
      BY <1>3
    <3> HIDE DEF p
    <3>3. RequestOf(p) = RequestOf(t)
      BY <3>2 DEF RequestOf
    <3>4. p \in GoodTicks /\ p.pc # "answer" /\ p \in Tick
      BY <1>1, <1>2, <2>1, <2>4, <3>2, <3>3, SameRound, TickKinds
    <3> QED BY <2>2, <3>1, <3>4, Moves, WorldKept
  <2> QED BY <2>3, <2>4 DEF Bind
<1> QED BY <1>4, <1>5

LEMMA ClaimInv ==
    ASSUME InvestigationInv, NEW w \in Worker, Claim(w)
    PROVE  InvestigationInv'
<1> DEFINE t == tick[w]
           n == tick[w].n
<1>1. /\ t.pc = "claim" /\ t.pc \in Working /\ t.pc \in Asking
      /\ UNCHANGED <<workflow, calm, document, rounds, reports>>
  BY DEF Claim, At, Working, Asking
<1>2. /\ t \in WorkTick /\ n \in Ordinal /\ t.calls = 0
      /\ paid[n].request = RequestOf(t) /\ (t.recovered => paid[n].state = "SAVED")
  BY <1>1, AtWork, InvFacts DEF PayingTicks
<1>3. CASE paid[n].state = "BOUND"
  <2> DEFINE row == [state |-> "SENT", request |-> paid[n].request]
             p == [t EXCEPT !.pc = "answer", !.calls = @ + 1]
  <2>1. paid' = [paid EXCEPT ![n] = row] /\ tick' = [tick EXCEPT ![w] = p] /\ UNCHANGED reason
    BY <1>3 DEF Claim, Go, Goto
  <2>2. row \in Paid /\ row.state = "SENT" /\ row.request = RequestOf(t) /\ row.request = paid[n].request
    <3>1. RequestOf(t) \in Request
      BY <1>2 DEF RequestOf, Request, WorkTick
    <3> QED BY <1>2, <3>1 DEF Paid
  <2>3. p \in WorkTick
    <3>1. t.calls + 1 \in Nat /\ "answer" \in Working
      BY <1>2 DEF Working, Asking
    <3> QED BY <1>2, <3>1 DEF WorkTick
  <2>4. /\ p.n = n /\ p.query = t.query /\ p.seen = t.seen /\ p.bundle = t.bundle
        /\ p.calls = 1 /\ ~p.recovered /\ p.pc = "answer"
    BY <1>2, <1>3 DEF WorkTick
  <2>5. \A v \in Worker \ {w} : ~(tick[v].pc = "answer" /\ tick[v].n = n)
    BY <1>3, InvFacts DEF PayingTicks, Working, Asking
  <2> HIDE DEF row, p
  <2> QED BY <1>1, <1>3, <2>1, <2>2, <2>3, <2>4, <2>5, PaidStep DEF Bound, Sent
<1>4. CASE paid[n].state # "BOUND"
  <2>1. Quiet /\ UNCHANGED <<calm, document>> /\ Raise(w)
    BY <1>1, <1>4 DEF Claim, Quiet
  <2> QED BY <2>1, Rests, WorldKept DEF Raise
<1> QED BY <1>3, <1>4

LEMMA AnswerInv ==
    ASSUME InvestigationInv, NEW w \in Worker, Answer(w)
    PROVE  InvestigationInv'
<1> DEFINE t == tick[w]
           n == tick[w].n
<1>1. /\ t.pc = "answer" /\ t.pc \in Working
      /\ UNCHANGED <<workflow, calm, document, rounds, reports>>
  BY DEF Answer, At, Working, Asking
<1>2. /\ t \in WorkTick /\ n \in Ordinal /\ t.calls = 1 /\ ~t.recovered
      /\ paid[n].state = "SENT" /\ paid[n].request = RequestOf(t)
  BY <1>1, AtWork, InvFacts DEF PayingTicks
<1>3. CASE Raise(w) /\ UNCHANGED paid
  BY <1>1, <1>3, Rests, WorldKept DEF Raise, Quiet
<1>4. ASSUME NEW d \in Decision,
             paid' = [paid EXCEPT ![n] = [state |-> "SAVED", request |-> @.request, decision |-> d]],
             Go(w, [t EXCEPT !.pc = "decided"])
      PROVE  InvestigationInv'
  <2> DEFINE row == [state |-> "SAVED", request |-> paid[n].request, decision |-> d]
             p == [t EXCEPT !.pc = "decided"]
  <2>1. paid' = [paid EXCEPT ![n] = row] /\ tick' = [tick EXCEPT ![w] = p] /\ UNCHANGED reason
    BY <1>4 DEF Go, Goto
  <2>2. row \in Paid /\ row.state = "SAVED" /\ row.request = RequestOf(t)
    <3>1. paid[n].request \in Request
      BY <1>2, RowTypes, InvFacts DEF Bound, Sent
    <3> QED BY <1>2, <3>1 DEF Paid
  <2>3. p \in WorkTick
    BY <1>2 DEF WorkTick, Working, Asking
  <2>4. /\ p.n = n /\ p.query = t.query /\ p.seen = t.seen /\ p.bundle = t.bundle
        /\ p.calls = 1 /\ ~p.recovered /\ p.pc = "decided"
    BY <1>2 DEF WorkTick
  <2>5. \A v \in Worker \ {w} : ~(tick[v].pc = "answer" /\ tick[v].n = n)
    BY <1>1, InvFacts DEF AnswersApart, At
  <2>6. row.request = paid[n].request
    OBVIOUS
  <2> HIDE DEF row, p
  <2> QED BY <1>1, <1>2, <2>1, <2>2, <2>3, <2>4, <2>5, <2>6, PaidStep DEF Bound, Sent
<1> QED BY <1>3, <1>4 DEF Answer

(* What a tick makes of a decision leads it on, or to the report of the    *)
(* round that it ends the investigation in.                                *)
LEMMA DecidedInv ==
    ASSUME InvestigationInv, NEW w \in Worker, Decided(w)
    PROVE  InvestigationInv'
<1> DEFINE t == tick[w]
           n == tick[w].n
           d == paid[tick[w].n].decision
           e == [query |-> t.query, bundle |-> t.bundle, decision |-> d]
           seen == Append(t.seen, e)
<1>1. /\ t.pc = "decided" /\ t.pc \in Working /\ t.pc \in Asking
      /\ Quiet /\ UNCHANGED <<calm, document>>
  BY DEF Decided, At, Working, Asking, Quiet
<1>2. /\ t \in WorkTick /\ n \in Ordinal /\ n \in Nat /\ n >= 1 /\ n <= MaxRounds
      /\ paid[n].state = "SAVED" /\ paid[n].request = RequestOf(t)
      /\ t.calls # 0 => ~t.recovered
  BY <1>1, AtWork, Ordinals, InvFacts DEF PayingTicks
<1>3. d \in Decision
  BY <1>2, RowTypes, InvFacts
<1>4. e \in Entry
  BY <1>2, <1>3 DEF Entry, WorkTick
<1>5. ASSUME NEW why \in StopReason, [seen |-> seen, why |-> why] \in Reports, seen \in History,
             Go(w, Concluded(seen, why))
      PROVE  InvestigationInv'
  <2> DEFINE p == Concluded(seen, why)
  <2>1. p \in GoodTicks /\ p.pc # "answer"
    BY <1>5, ReportIsGood
  <2>2. p \in Tick
    BY <2>1 DEF GoodTicks, ReportTicks
  <2>3. tick' = [tick EXCEPT ![w] = p] /\ UNCHANGED reason
    BY <1>5 DEF Go, Goto
  <2> HIDE DEF p, seen
  <2> QED BY <1>1, <2>1, <2>2, <2>3, Moves, WorldKept
<1>6. CASE Raise(w)
  BY <1>1, <1>6, Rests, WorldKept DEF Raise
<1>7. CASE ~Loop /\ Go(w, Follows(t, d))
  <2>1. n = 1 /\ t.query = Goal /\ t.seen = <<>> /\ t.bundle = paid[1].request.bundle
    BY <1>1, <1>2, <1>7, AtWork DEF RequestOf
  <2>2. seen = <<e>> /\ <<e>> \in [1 .. 1 -> Entry]
    BY <1>4, <2>1
  <2>3. seen \in History
    <3>1. 1 \in 0 .. MaxRounds /\ seen \in [1 .. 1 -> Entry]
      BY <2>2, InvestigationAssumption
    <3> HIDE DEF seen
    <3> QED BY <3>1, HistoryTypes
  <2>4. [seen |-> seen, why |-> "DECIDED"] \in Reports
    BY <1>2, <1>7, <2>1, <2>2 DEF Reports, OnceReports
  <2>5. Go(w, Concluded(seen, "DECIDED"))
    BY <1>7 DEF Follows
  <2> HIDE DEF seen
  <2> QED BY <1>5, <2>3, <2>4, <2>5 DEF StopReason
<1>8. CASE Loop /\ Go(w, Follows(t, d))
  <2>1. /\ RowsFollow /\ n \in Reached /\ t.query = Question[n] /\ t.seen = Log[n - 1]
        /\ n \in Fresh /\ t.bundle = rounds[n].bundle /\ n \in FrozenRounds
    BY <1>1, <1>8, AtWork, InvFacts DEF Fresh
  <2>2. t.query = rounds[n].query
    BY <1>2, <2>1 DEF RowsFollow
  <2>3. \A m \in 1 .. n - 1 : rounds[m].query \in Query /\ rounds[m].bundle \in Bundle
                              /\ paid[m].decision \in Decision
    BY <2>1, EarlierRounds, RowTypes, InvFacts
  <2>4. /\ n - 1 \in 0 .. MaxRounds /\ n \in 0 .. MaxRounds
        /\ \A m \in 1 .. n : m = n \/ m \in 1 .. n - 1
    BY <1>2, InvestigationAssumption
  <2>5. t.seen \in [1 .. n - 1 -> Entry]
    BY <2>1, <2>3, <2>4 DEF Log, Entry
  <2>6. seen = Log[n] /\ seen \in History
    <3>1. n - 1 + 1 = n /\ n - 1 \in Nat
      BY <1>2
    <3>2. /\ seen = [m \in 1 .. n |-> IF m = n THEN e ELSE t.seen[m]]
          /\ seen \in [1 .. n -> Entry]
      <4> HIDE DEF e, n, t
      <4>1. /\ seen = [m \in 1 .. n - 1 + 1 |-> IF m = n - 1 + 1 THEN e ELSE t.seen[m]]
            /\ seen \in [1 .. n - 1 + 1 -> Entry]
        BY <1>4, <2>5, <3>1, AppendHistory
      <4> QED BY <3>1, <4>1
    <3>3. \A m \in 1 .. n : (IF m = n THEN e ELSE t.seen[m])
                              = [query |-> rounds[m].query, bundle |-> rounds[m].bundle,
                                 decision |-> paid[m].decision]
      BY <2>1, <2>2, <2>4 DEF Log
    <3>4. Log[n] = [m \in 1 .. n |-> [query |-> rounds[m].query, bundle |-> rounds[m].bundle,
                                      decision |-> paid[m].decision]]
      BY <2>4 DEF Log
    <3> HIDE DEF seen, e
    <3> QED BY <2>4, <3>2, <3>3, <3>4, HistoryTypes
  <2>7. Known(d, seen) <=> \E m \in 1 .. n : Normal[rounds[m].query] = Normal[d]
    <3> HIDE DEF seen, d, n
    <3>1. DOMAIN seen = 1 .. n /\ \A m \in 1 .. n : seen[m].query = rounds[m].query
      BY <2>4, <2>6 DEF Log
    <3> QED BY <3>1 DEF Known
  <2>8. Stops[n] = Verdict(n)
    BY <1>2, <2>1, StopCases
  <2>9. Stops[n] = (IF d = Stop THEN "MODEL_STOP" ELSE IF Known(d, seen) THEN "REPEATED_QUERY"
                    ELSE IF n = MaxRounds THEN "ROUND_LIMIT" ELSE "NONE")
    BY <2>7, <2>8 DEF Verdict
  <2> HIDE DEF seen, e, d
  <2>10. Stops[n] # "NONE" => [seen |-> seen, why |-> Stops[n]] \in Reports
    BY <1>2, <1>8, <2>1, <2>6 DEF Reports, LoopReports, Ending
  <2>11. CASE Stops[n] # "NONE"
    <3>1. Go(w, Concluded(seen, Stops[n]))
      BY <1>8, <2>9, <2>11 DEF Follows, seen, e
    <3>2. Stops[n] \in StopReason
      BY <1>2, <2>11, StopCases
    <3> QED BY <1>5, <2>6, <2>10, <2>11, <3>1, <3>2
  <2>12. CASE Stops[n] = "NONE"
    <3> DEFINE p == [t EXCEPT !.pc = "round", !.n = @ + 1, !.query = d, !.bundle = {}, !.seen = seen,
                              !.recovered = FALSE]
    <3>1. d # Stop /\ ~Known(d, seen) /\ n # MaxRounds
      BY <2>9, <2>12
    <3>2. Go(w, IF Yields(t) THEN Rest ELSE p)
      BY <1>8, <3>1 DEF Follows, seen, e
    <3>3. CASE Yields(t)
      BY <1>1, <3>2, <3>3, Rests, WorldKept DEF Go
    <3>4. CASE ~Yields(t)
      <4>1. t.calls = 0 /\ tick' = [tick EXCEPT ![w] = p] /\ UNCHANGED reason
        BY <1>2, <3>2, <3>4 DEF Yields, Go, Goto, WorkTick
      <4>2. n + 1 \in Ordinal /\ n + 1 - 1 = n /\ n + 1 # 1
        BY <1>2, <3>1, InvestigationAssumption DEF Ordinal
      <4>3. n + 1 \in Reached
        <5>1. n \in GoingOn
          BY <1>2, <2>1, <2>12 DEF GoingOn
        <5>2. \A m \in 1 .. n : m \in GoingOn
          BY <2>1, <2>4, <5>1, EarlierRounds
        <5> HIDE DEF n
        <5>3. 1 .. n + 1 - 1 \subseteq GoingOn
          BY <4>2, <5>2
        <5> QED BY <1>2, <4>2, <5>3 DEF Reached
      <4>4. Question[n + 1] = d
        <5> HIDE DEF n
        <5>1. Question[n + 1] = paid[n + 1 - 1].decision
          BY <1>2, <4>2 DEF Question
        <5> QED BY <4>2, <5>1 DEF d, n
      <4>5. d \in Query
        BY <1>3, <3>1 DEF Decision, d
      <4>6. p \in WorkTick
        BY <1>2, <2>6, <4>2, <4>5 DEF WorkTick, Working, Bundle
      <4>7. p.pc = "round" /\ p.n = n + 1 /\ p.query = d /\ p.seen = seen /\ p.calls = 0
        BY <1>2, <4>1 DEF WorkTick
      <4>8. p \in Tick
        BY <4>6, TickKinds
      <4> HIDE DEF p
      <4>9. p \in LoopTicks /\ p \in PayingTicks /\ p \in ReportTicks
        <5> HIDE DEF n
        <5>1. p.seen = Log[p.n - 1] /\ p.n \in Reached /\ p.query = Question[p.n]
          <6>1. p.n - 1 = n
            BY <1>2, <4>2, <4>7
          <6> QED BY <2>6, <4>3, <4>4, <4>7, <6>1
        <5>2. p \in LoopTicks
          BY <4>7, <4>8, <5>1 DEF LoopTicks, Asking
        <5>3. p \in PayingTicks /\ p \in ReportTicks
          BY <4>7, <4>8 DEF PayingTicks, ReportTicks
        <5> QED BY <5>2, <5>3
      <4>10. p \in GoodTicks /\ p.pc # "answer"
        BY <1>8, <4>7, <4>9 DEF GoodTicks
      <4> QED BY <1>1, <4>1, <4>8, <4>10, Moves, WorldKept
    <3> QED BY <3>3, <3>4
  <2> QED BY <2>11, <2>12
<1> QED BY <1>6, <1>7, <1>8 DEF Decided

LEMMA InvStep == InvestigationInv /\ [Next]_vars => InvestigationInv'
<1> SUFFICES ASSUME InvestigationInv, [Next]_vars PROVE InvestigationInv'
  OBVIOUS
<1>1. CASE UNCHANGED vars
  <2>1. Quiet /\ UNCHANGED <<calm, document, reason, tick>>
    BY <1>1 DEF vars, rows, Quiet
  <2> QED BY <2>1, QuietStep, InvFacts DEF TypeOK
<1>2. CASE Next
  BY <1>2, WorldInv, BeginInv, StartedInv, CollectInv, CompileInv, ReadRoundInv, FreezeInv, AskInv,
     DecideInv, BindInv, ClaimInv, AnswerInv, DecidedInv, PutReportInv DEF Next, TickStep
<1> QED BY <1>1, <1>2

(***************************************************************************)
(* The theorems                                                            *)
(***************************************************************************)

(* What ticks, rows and reports say of an investigation follows from the   *)
(* rows that were written, for every instance.                             *)
THEOREM InvestigationInvariant == Spec => []InvestigationInv
  BY InvInit, InvStep, PTL DEF Spec

(* Rows, reports and ticks have the values that the code writes.           *)
THEOREM InvestigationTypes == Spec => []TypeOK
<1>1. InvestigationInv => TypeOK
  BY DEF InvestigationInv
<1> QED BY <1>1, InvestigationInvariant, PTL

(* Each tick asks again what was frozen and paid for, for any number of    *)
(* workers, rounds and documents (investigation_loop.py tick).             *)
THEOREM InvestigationsAreReproducible == Spec => []Reproducible
<1>1. InvestigationInv => Reproducible
  <2> SUFFICES ASSUME InvestigationInv, NEW w \in Worker
               PROVE  LET t == tick[w] IN
                      /\ t.pc \in {"round", "freeze"} /\ rounds[t.n].frozen => rounds[t.n].query = t.query
                      /\ Loop /\ t.pc = "decide" /\ paid[t.n].state # "NONE" =>
                           ReservedFor(paid[t.n]) = Maximum[t.bundle]
                      /\ Loop /\ t.pc \in {"decide", "bind"} /\ paid[t.n].state \in Bound =>
                           paid[t.n].request = RequestOf(t)
    BY DEF Reproducible
  <2> DEFINE t == tick[w]
  <2>1. ASSUME t.pc \in {"round", "freeze"}, rounds[t.n].frozen PROVE rounds[t.n].query = t.query
    <3>1. Loop /\ RowsFollow /\ t.query = Question[t.n] /\ t.n \in Ordinal
      BY <2>1, AtWork, InvFacts DEF Working
    <3> QED BY <2>1, <3>1 DEF RowsFollow, FrozenRounds
  <2>2. ASSUME Loop, t.pc \in {"decide", "bind"}, paid[t.n].state # "NONE"
        PROVE  /\ paid[t.n].state \in Bound => paid[t.n].request = RequestOf(t)
               /\ ReservedFor(paid[t.n]) = Maximum[t.bundle]
    <3>1. /\ RowsFollow /\ t.query = Question[t.n] /\ t.n \in Ordinal /\ t.seen = Log[t.n - 1]
          /\ t.bundle = rounds[t.n].bundle /\ t.n \in Fresh
      BY <2>2, AtWork, InvFacts DEF Working, Asking
    <3>2. rounds[t.n].query = t.query
      BY <3>1 DEF RowsFollow, Fresh
    <3>3. paid[t.n].state \in Bound => paid[t.n].request = RequestOf(t)
      BY <2>2, <3>1, <3>2 DEF RowsFollow, RequestOf
    <3>4. paid[t.n].state = "RESERVED" => paid[t.n].maximum = Maximum[t.bundle]
      BY <2>2, <3>1 DEF RowsFollow
    <3>5. paid[t.n].state = "RESERVED" \/ paid[t.n].state \in Bound
      BY <2>2, <3>1, RowTypes, InvFacts
    <3> QED BY <3>3, <3>4, <3>5 DEF ReservedFor, RequestOf, Bound, Sent
  <2>3. paid[t.n].state \in Bound => paid[t.n].state # "NONE"
    BY DEF Bound, Sent
  <2> QED BY <2>1, <2>2, <2>3
<1> QED BY <1>1, InvestigationInvariant, PTL

(* A round that ends the investigation is its last.                        *)
LEMMA LastRound ==
    ASSUME InvestigationInv, Loop, NEW n \in Ending
    PROVE  /\ n \in Ordinal /\ n \in FrozenRounds
           /\ paid[n].state \in {"NONE", "SAVED"}
           /\ \A m \in Ordinal : m < n =>
                m \in FrozenRounds /\ paid[m].state = "SAVED" /\ Stops[m] = "NONE"
           /\ \A m \in Ordinal : m > n => m \notin FrozenRounds /\ paid[m].state = "NONE"
           /\ \A m \in Ending : m = n
<1>1. RowsFollow /\ TypeOK
  BY InvFacts
<1>2. /\ n \in Ordinal /\ n \in FrozenRounds /\ n \in Reached /\ Stops[n] # "NONE"
  BY DEF Ending, FrozenRounds
<1>3. paid[n].state \in {"NONE", "SAVED"}
  BY <1>1, <1>2, StopCases, RowTypes DEF RowsFollow
<1>4. \A m \in Ordinal : m < n => m \in 1 .. n - 1
  BY <1>2, Ordinals
<1>5. ASSUME NEW m \in Reached PROVE ~(m > n)
  <2>1. m > n => n \in 1 .. m - 1
    BY <1>2, Ordinals DEF Reached
  <2> QED BY <1>1, <1>2, <2>1, EarlierRounds
<1>6. \A m \in Ordinal : m > n => m \notin FrozenRounds /\ paid[m].state = "NONE"
  BY <1>1, <1>5 DEF RowsFollow, Fresh
<1>7. ASSUME NEW m \in Ending PROVE m = n
  <2>1. m \in Reached /\ m \in Ordinal /\ Stops[m] # "NONE"
    BY DEF Ending, FrozenRounds
  <2>2. ~(m > n) /\ ~(m < n)
    BY <1>1, <1>2, <1>4, <1>5, <2>1, EarlierRounds
  <2> QED BY <1>2, <2>1, <2>2, Ordinals
<1> QED BY <1>1, <1>2, <1>3, <1>4, <1>6, <1>7, EarlierRounds

(* However many ticks write the report there is one, of all that was paid  *)
(* for, and people are shown the same (_finish, investigation_details).    *)
THEOREM ReportsAreOne == Spec => []OneReport
<1>1. InvestigationInv => OneReport
  <2> SUFFICES ASSUME InvestigationInv, NEW r \in reports
               PROVE  /\ reports = {r}
                      /\ \A n \in Ordinal : paid[n].state # "NONE" <=> n \in DOMAIN r.seen
                      /\ \A n \in DOMAIN r.seen :
                            paid[n].state = "SAVED" /\ paid[n].decision = r.seen[n].decision
                      /\ Loop => ShownStops = {r.why} /\ ShownDecisions = DOMAIN r.seen
    BY DEF OneReport
  <2>1. CASE Loop
    <3>1. reports \subseteq LoopReports
      BY <2>1, InvFacts DEF Reports
    <3>2. PICK n \in Ending :
            r = [seen |-> Log[IF paid[n].state = "SAVED" THEN n ELSE n - 1], why |-> Stops[n]]
      BY <3>1 DEF LoopReports
    <3>3. reports = {r}
      BY <2>1, <3>1, <3>2, LastRound DEF LoopReports
    <3> DEFINE k == IF paid[n].state = "SAVED" THEN n ELSE n - 1
    <3>4. /\ n \in Ordinal /\ n \in Nat /\ n >= 1 /\ n <= MaxRounds /\ k \in 0 .. MaxRounds
      BY <2>1, LastRound, Ordinals, InvestigationAssumption
    <3>5. /\ DOMAIN r.seen = 1 .. k /\ r.why = Stops[n]
          /\ \A m \in 1 .. k : r.seen[m].decision = paid[m].decision
      BY <3>2, <3>4 DEF Log
    <3>6. \A m \in Ordinal : /\ m \in 1 .. k <=> m < n \/ (m = n /\ paid[n].state = "SAVED")
                             /\ m < n \/ m = n \/ m > n
      BY <3>4, Ordinals
    <3> HIDE DEF k
    <3>7. \A m \in 1 .. k : m \in Ordinal
      BY <3>4, InvestigationAssumption DEF Ordinal
    <3>8. \A m \in Ordinal : /\ m \in 1 .. k => m \in FrozenRounds /\ paid[m].state = "SAVED"
                             /\ m \notin 1 .. k => paid[m].state = "NONE"
      BY <2>1, <3>4, <3>6, LastRound
    <3>9. ShownDecisions = 1 .. k
      BY <3>7, <3>8 DEF ShownDecisions, FrozenRounds
    <3>10. ShownStops = {Stops[n]}
      <4>1. \A m \in FrozenRounds : Stops[m] = StopAt(m) /\ m \in Ordinal
        BY DEF Stops, FrozenRounds
      <4>2. n \in FrozenRounds /\ Stops[n] # "NONE"
        BY DEF Ending
      <4>3. \A m \in FrozenRounds : m # n => Stops[m] = "NONE"
        BY <2>1, <3>6, <4>1, LastRound
      <4> QED BY <4>1, <4>2, <4>3 DEF ShownStops
    <3> QED BY <3>3, <3>5, <3>7, <3>8, <3>9, <3>10
  <2>2. CASE ~Loop
    <3>1. reports \subseteq OnceReports /\ NoRows
      BY <2>2, InvFacts DEF Reports
    <3>2. /\ paid[1].state = "SAVED" /\ reports = {r}
          /\ r.seen = <<[query |-> Goal, bundle |-> paid[1].request.bundle, decision |-> paid[1].decision]>>
      BY <3>1 DEF OnceReports
    <3>3. DOMAIN r.seen = {1} /\ r.seen[1].decision = paid[1].decision
      BY <3>2
    <3>4. \A n \in Ordinal : n # 1 => paid[n].state = "NONE"
      BY <3>1 DEF NoRows
    <3> QED BY <2>2, <3>2, <3>3, <3>4
  <2> QED BY <2>1, <2>2
<1> QED BY <1>1, InvestigationInvariant, PTL

(* What NoWastedCall says of a step.                                       *)
CallIsOwed(n) ==
    /\ reports = {} /\ ShownStops = {}
    /\ \A m \in 1 .. n - 1 : paid[m].state = "SAVED" /\ rounds[m].bundle # rounds[n].bundle

LEMMA CallsAreOwed ==
    ASSUME InvestigationInv, [Next]_vars, NEW n \in Ordinal,
           paid[n].state \notin Sent, paid'[n].state \in Sent
    PROVE  CallIsOwed(n)
<1>1. PICK w \in Worker : tick[w].pc = "claim" /\ tick[w].n = n
  <2>1. PICK w \in Worker : Decide(w) \/ Bind(w) \/ Claim(w) \/ Answer(w)
    BY DEF Next, TickStep, vars, rows, Begin, Started, Collect, Compile, RequireEvidence, ReadRound,
           Freeze, Ask, Decided, PutReport, Review, Fault, Import, Revoke, Calm
  <2>2. tick[w].pc \in {"decide", "bind", "claim", "answer"} /\ tick[w].n \in Ordinal
    BY <2>1, AtWork DEF Decide, Bind, Claim, Answer, At, Working, Asking
  <2>3. paid \in [Ordinal -> Paid]
    BY InvFacts DEF TypeOK
  <2>4. \A m \in Ordinal : m # tick[w].n => paid'[m] = paid[m]
    BY <2>1, <2>3 DEF Decide, Bind, Claim, Answer
  <2>5. tick[w].n = n
    BY <2>4
  <2>6. ~Answer(w)
    BY <2>5, InvFacts DEF PayingTicks, Working, Asking, Answer, At, Sent
  <2>7. ~Decide(w)
    <3>1. Decide(w) => paid' = paid \/ paid'[n].state = "RESERVED"
      BY <2>3, <2>5 DEF Decide
    <3> QED BY <3>1 DEF Sent
  <2>8. ~Bind(w)
    <3>1. Bind(w) => paid'[n] = BoundTo(paid[n], RequestOf(tick[w]))
      BY <2>3, <2>5 DEF Bind
    <3> QED BY <3>1 DEF BoundTo, Sent
  <2> QED BY <2>1, <2>5, <2>6, <2>7, <2>8 DEF Claim, At
<1>2. Loop => n \in Fresh /\ n \in Reached /\ Ending = {} /\ RowsFollow
  <2> SUFFICES ASSUME Loop PROVE n \in Fresh /\ n \in Reached /\ Ending = {} /\ RowsFollow
    OBVIOUS
  <2>1. n \in Fresh /\ n \in Reached /\ RowsFollow
    BY <1>1, AtWork, InvFacts DEF Working, Asking
  <2>2. Stops[n] = "NONE"
    BY <2>1, StopCases DEF Sent
  <2>3. ASSUME NEW m \in Ending PROVE FALSE
    <3>1. m < n \/ m = n \/ m > n
      BY Ordinals, LastRound
    <3>2. m # n
      BY <2>2 DEF Ending
    <3>3. ~(m < n)
      BY <2>1, LastRound DEF Fresh
    <3>4. ~(m > n)
      BY LastRound DEF Sent
    <3> QED BY <3>1, <3>2, <3>3, <3>4
  <2> QED BY <2>1, <2>3
<1>3. CASE Loop
  <2>1. reports = {}
    BY <1>2, <1>3, InvFacts DEF Reports, LoopReports
  <2>2. ShownStops = {}
    <3>1. \A m \in FrozenRounds : Stops[m] = StopAt(m) /\ m \in Reached
      BY <1>2, <1>3, EarlierRounds DEF Stops, FrozenRounds
    <3> QED BY <1>2, <1>3, <3>1 DEF ShownStops, Ending
  <2>3. \A m \in 1 .. n - 1 : paid[m].state = "SAVED" /\ rounds[m].bundle # rounds[n].bundle
    BY <1>2, <1>3, EarlierRounds DEF Fresh
  <2> QED BY <2>1, <2>2, <2>3 DEF CallIsOwed
<1>4. CASE ~Loop
  <2>1. n = 1 /\ NoRows
    BY <1>1, <1>4, AtWork, InvFacts DEF Working, Asking
  <2>2. reports = {}
    BY <1>4, <2>1, InvFacts DEF Reports, OnceReports, Sent
  <2>3. ShownStops = {} /\ 1 .. n - 1 = {}
    BY <2>1 DEF ShownStops, NoRows
  <2> QED BY <2>2, <2>3 DEF CallIsOwed
<1> QED BY <1>3, <1>4

(* A call is paid for only while the investigation goes on, with every     *)
(* earlier decision and about new evidence, and once in a tick             *)
(* (investigation_loop.py tick, service.py paid_json).                     *)
THEOREM CallsAreNotWasted == Spec => NoWastedCall
<1> DEFINE Step == /\ \A n \in Ordinal : paid[n].state \notin Sent /\ paid'[n].state \in Sent =>
                        /\ reports = {} /\ ShownStops = {}
                        /\ \A m \in 1 .. n - 1 : paid[m].state = "SAVED" /\ rounds[m].bundle # rounds[n].bundle
                   /\ \A w \in Worker : tick'[w].pc = "answer" => tick'[w].calls = 1
<1>1. InvestigationInv /\ InvestigationInv' /\ [Next]_vars => [Step]_vars
  <2> SUFFICES ASSUME InvestigationInv, InvestigationInv', [Next]_vars PROVE Step
    OBVIOUS
  <2>1. \A w \in Worker : tick'[w].pc = "answer" => tick'[w].calls = 1
    BY DEF InvestigationInv, GoodTicks, PayingTicks, Working, Asking
  <2> QED BY <2>1, CallsAreOwed DEF CallIsOwed
<1> QED BY <1>1, InvestigationInvariant, PTL DEF Spec, NoWastedCall
=============================================================================
