--------------------------- MODULE RepairLoopProofs ---------------------------
(***************************************************************************)
(* Proofs about RepairLoop, for any number of ticks, attempts and claims.  *)
(*                                                                         *)
(* The inductive invariant is RepairInv.  A tick goes by what it has read, *)
(* and the rows may have changed since; what is still so when it acts      *)
(* (GoesBy) rests on what never goes back (Grown) and on the only tick     *)
(* that holds a claimed token (OneOwner).                                  *)
(***************************************************************************)
EXTENDS RepairLoop, FiniteSetTheorems, TLAPS

Step == Next \/ Calm

(***************************************************************************)
(* The invariant                                                           *)
(***************************************************************************)
Failed(n) == attempt[n].state = "VERIFIED" /\ attempt[n].outcome = "CANDIDATE_FAILED"

(* Claims are paid for by retries but for one, which is under way or done. *)
RowAgrees(n) ==
    /\ attempt[n].state \in {"VERIFYING", "BLOCKED", "VERIFIED"} =>
          attempt[n].token \in Number /\ attempt[n].claims <= retried[n] + 1
    /\ attempt[n].state \notin {"VERIFYING", "BLOCKED", "VERIFIED"} =>
          attempt[n].claims <= retried[n]
    /\ attempt[n].state \notin {"ABSENT", "GENERATING"} => paid[n] = "SAVED"
    /\ attempt[n].state = "VERIFIED" =>
          attempt[n].outcome \in Verdict /\ attempt[n].outcome = report[<<n, attempt[n].token>>]
RowsAgree == \A n \in Ordinal : RowAgrees(n)

TokensAgree ==
    \A n \in Ordinal, k \in Number :
        /\ started[<<n, k>>] <= 1
        /\ started[<<n, k>>] > 0 => k <= attempt[n].claims
        /\ report[<<n, k>>] # "NONE" => k <= attempt[n].claims

(* The attempts are 1, 2, ... up to the last, and all before it failed.    *)
Chain ==
    /\ \E k \in 0 .. MaxAttempts : Existing = 1 .. k
    /\ \A n \in Ordinal : attempt[n].state # "ABSENT" => \A m \in 1 .. (n - 1) : Failed(m)

(* An end that follows from the last attempt.                              *)
EarnedBy(n, state) ==
    /\ attempt[n].state = "VERIFIED"
    /\ state = IF attempt[n].outcome = "CANDIDATE_FAILED"
               THEN "REPAIR_EXHAUSTED" ELSE Conclusion(attempt[n].outcome)
    /\ state = "REPAIR_EXHAUSTED" => n = MaxAttempts
    /\ \A m \in Ordinal : m > n => attempt[m].state = "ABSENT"
Earned(state) == \E n \in Ordinal : EarnedBy(n, state)

Owner(t) == t.pc \in {"launch", "compare"}
OneOwner ==
    \A v, w \in Worker :
        v # w /\ Owner(tick[v]) /\ Owner(tick[w]) =>
            tick[v].n # tick[w].n \/ tick[v].token # tick[w].token

(* What a tick goes by when it acts next.                                  *)
GoesBy(t) ==
    /\ Owner(t) => t.token <= attempt[t.n].claims /\ report[<<t.n, t.token>>] = "NONE"
    /\ t.pc = "launch" => started[<<t.n, t.token>>] = 0
    /\ t.pc = "verified" => report[<<t.n, t.token>>] = t.outcome
    /\ t.pc = "add" => \A m \in 1 .. (t.n - 1) : Failed(m)
    /\ t.pc = "generate" => attempt[t.n].state # "ABSENT"
    /\ t.pc = "answer" => paid[t.n] # "NONE"
    /\ t.pc = "patch" => paid[t.n] = "SAVED"
    /\ t.pc = "end" => Earned(t.state)

RepairInv ==
    /\ TypeOK
    /\ RowsAgree
    /\ TokensAgree
    /\ Chain
    /\ run \in RunEnd => Earned(run)
    /\ OneOwner
    /\ \A w \in Worker : GoesBy(tick[w])

(***************************************************************************)
(* Values                                                                  *)
(***************************************************************************)
LEMMA VerdictValues ==
    Verdict \subseteq {"INCONCLUSIVE", "REGRESSION_FIXED", "CANDIDATE_FAILED", "BASELINE_NOT_REPRODUCED"}
  BY DEF Verdict, VerdictOf

LEMMA NoVerdict == "NONE" \notin Verdict /\ "VERIFICATION_INTERRUPTED" \notin Verdict
  BY VerdictValues

LEMMA Conclusions == \A outcome : Conclusion(outcome) \in RunEnd \ {"REPAIR_EXHAUSTED"}
  BY DEF Conclusion, RunEnd

LEMMA EarnedIsEnd == \A state : Earned(state) => state \in RunEnd
  BY DEF Earned, EarnedBy, RunEnd, Conclusion

(* What each place of a tick carries.                                      *)
LEMMA Places ==
    ASSUME NEW t \in Tick
    PROVE  /\ t.pc \in {"add", "generate", "answer", "patch", "claim", "recover", "launch", "compare",
                        "interrupt", "verified"} => t.n \in Ordinal
           /\ t.pc \in {"recover", "launch", "compare", "interrupt", "verified"} => t.token \in Number
           /\ t.pc = "verified" => t.outcome \in Verdict /\ t.launched \in BOOLEAN
           /\ t.pc = "recover" => t.state \in {"BLOCKED", "VERIFYING"} /\ t.old \in BOOLEAN
           /\ t.pc = "validate" => t.state \in RunState
           /\ t.pc = "end" => t.state \in RunEnd
  BY DEF Tick, Rest

LEMMA PlacesBack ==
    /\ Rest \in Tick
    /\ \A pc \in {"create", "drift", "stale"} : [pc |-> pc] \in Tick
    /\ \A state \in RunState : [pc |-> "validate", state |-> state] \in Tick
    /\ \A state \in RunEnd : Ending(state) \in Tick
    /\ \A n \in Ordinal :
          /\ \A pc \in {"add", "generate", "answer", "patch", "claim"} : [pc |-> pc, n |-> n] \in Tick
          /\ \A k \in Number :
                /\ \A pc \in {"launch", "compare", "interrupt"} : [pc |-> pc, n |-> n, token |-> k] \in Tick
                /\ \A state \in {"BLOCKED", "VERIFYING"}, old \in BOOLEAN :
                      [pc |-> "recover", n |-> n, state |-> state, token |-> k, old |-> old] \in Tick
                /\ \A outcome \in Verdict, launched \in BOOLEAN :
                      [pc |-> "verified", n |-> n, token |-> k, outcome |-> outcome, launched |-> launched]
                          \in Tick
<1>1. Rest \in Tick /\ \A pc \in {"create", "drift", "stale"} : [pc |-> pc] \in Tick
  BY DEF Tick
<1>2. \A state \in RunState : [pc |-> "validate", state |-> state] \in Tick
  BY DEF Tick
<1>3. \A state \in RunEnd : Ending(state) \in Tick
  BY DEF Tick, Ending
<1>4. \A n \in Ordinal, pc \in {"add", "generate", "answer", "patch", "claim"} : [pc |-> pc, n |-> n] \in Tick
  BY DEF Tick
<1>5. \A n \in Ordinal, k \in Number, pc \in {"launch", "compare", "interrupt"} :
          [pc |-> pc, n |-> n, token |-> k] \in Tick
  BY DEF Tick
<1>6. \A n \in Ordinal, k \in Number, state \in {"BLOCKED", "VERIFYING"}, old \in BOOLEAN :
          [pc |-> "recover", n |-> n, state |-> state, token |-> k, old |-> old] \in Tick
  BY DEF Tick
<1>7. \A n \in Ordinal, k \in Number, outcome \in Verdict, launched \in BOOLEAN :
          [pc |-> "verified", n |-> n, token |-> k, outcome |-> outcome, launched |-> launched] \in Tick
  BY DEF Tick
<1> QED BY <1>1, <1>2, <1>3, <1>4, <1>5, <1>6, <1>7

LEMMA RowValues ==
    ASSUME NEW row \in Attempt
    PROVE  /\ row.state \in {"ABSENT", "GENERATING", "GENERATED", "VERIFYING", "BLOCKED", "VERIFIED"}
           /\ row.outcome \in Verdict \cup {"NONE", "VERIFICATION_INTERRUPTED"}
           /\ row.claims \in 0 .. MaxVerify
           /\ row.token \in 0 .. MaxVerify
           /\ row.old \in BOOLEAN
  BY RepairAssumption DEF Attempt, Number

(* The last attempt.                                                       *)
LEMMA LatestAttempt ==
    ASSUME TypeOK, Chain
    PROVE  \/ Latest = 0 /\ \A n \in Ordinal : attempt[n].state = "ABSENT"
           \/ /\ Latest \in Ordinal
              /\ attempt[Latest].state # "ABSENT"
              /\ \A m \in Ordinal : m > Latest => attempt[m].state = "ABSENT"
<1>1. PICK k \in 0 .. MaxAttempts : Existing = 1 .. k
  BY DEF Chain
<1>2. CASE k = 0
  <2>1. Existing = {}
    BY <1>1, <1>2
  <2> QED BY <2>1 DEF Latest, Existing
<1>3. CASE k # 0
  <2>1. k \in Existing /\ \A m \in Existing : m <= k
    BY <1>1, <1>3
  <2>2. \A n \in Existing : (\A m \in Existing : m <= n) => n = k
    BY <1>1, <2>1
  <2>3. Latest = k
    BY <2>1, <2>2 DEF Latest
  <2>4. \A m \in Ordinal : m > k => m \notin Existing
    BY <1>1
  <2> QED BY <2>1, <2>3, <2>4 DEF Existing
<1> QED BY <1>2, <1>3

(***************************************************************************)
(* Types                                                                   *)
(***************************************************************************)
LEMMA TypeInit == Init => TypeOK
<1> SUFFICES ASSUME Init PROVE TypeOK
  OBVIOUS
<1>1. NoAttempt \in Attempt
  BY RepairAssumption DEF NoAttempt, Attempt
<1>2. Rest \in Tick
  BY PlacesBack
<1> QED BY <1>1, <1>2 DEF Init, TypeOK, RunState

LEMMA RowUpdates ==
    ASSUME NEW row \in Attempt
    PROVE  /\ \A state \in {"ABSENT", "GENERATING", "GENERATED", "VERIFYING", "BLOCKED", "VERIFIED"} :
                 [row EXCEPT !.state = state] \in Attempt
           /\ \A outcome \in Verdict \cup {"NONE", "VERIFICATION_INTERRUPTED"} :
                 [row EXCEPT !.outcome = outcome] \in Attempt
           /\ \A k \in 0 .. MaxVerify :
                 [row EXCEPT !.token = k] \in Attempt /\ [row EXCEPT !.claims = k] \in Attempt
           /\ \A old \in BOOLEAN : [row EXCEPT !.old = old] \in Attempt
  BY DEF Attempt

(* What the tick does for its last attempt is a place of a tick.           *)
LEMMA ForAttemptType ==
    ASSUME TypeOK, RowsAgree, Chain
    PROVE  ForAttempt(Latest) \in Tick
<1>1. CASE Latest = 0
  <2>1. 1 \in Ordinal
    BY RepairAssumption DEF Ordinal
  <2> QED BY <1>1, <2>1, PlacesBack DEF ForAttempt
<1>2. CASE Latest # 0
  <2>1. Latest \in Ordinal /\ attempt[Latest].state # "ABSENT"
    BY <1>2, LatestAttempt
  <2> DEFINE row == attempt[Latest]
  <2>2. row \in Attempt
    BY <2>1 DEF TypeOK
  <2>3. row.state \in {"GENERATING", "GENERATED", "VERIFYING", "BLOCKED", "VERIFIED"} /\ row.old \in BOOLEAN
    BY <2>1, <2>2, RowValues
  <2>4. row.state \in {"VERIFYING", "BLOCKED"} => row.token \in Number
    BY <2>1 DEF RowsAgree, RowAgrees
  <2>5. CASE row.state = "VERIFIED" /\ row.outcome # "CANDIDATE_FAILED"
    <3>1. ForAttempt(Latest) = Ending(Conclusion(row.outcome))
      BY <1>2, <2>5 DEF ForAttempt, AfterVerdict
    <3> QED BY <3>1, Conclusions, PlacesBack
  <2>6. CASE row.state = "VERIFIED" /\ row.outcome = "CANDIDATE_FAILED"
    <3>1. ForAttempt(Latest) = IF Latest < MaxAttempts THEN [pc |-> "add", n |-> Latest + 1]
                               ELSE Ending("REPAIR_EXHAUSTED")
      BY <1>2, <2>6 DEF ForAttempt, AfterVerdict
    <3>2. Latest < MaxAttempts => Latest + 1 \in Ordinal
      BY <2>1, RepairAssumption DEF Ordinal
    <3> QED BY <3>1, <3>2, PlacesBack DEF RunEnd
  <2>7. CASE row.state \in {"BLOCKED", "VERIFYING"}
    <3>1. ForAttempt(Latest) = [pc |-> "recover", n |-> Latest, state |-> row.state,
                                token |-> row.token, old |-> row.old]
      BY <1>2, <2>7 DEF ForAttempt
    <3>2. row.token \in Number
      BY <2>4, <2>7
    <3>3. \A state \in {"BLOCKED", "VERIFYING"}, k \in Number, old \in BOOLEAN :
              [pc |-> "recover", n |-> Latest, state |-> state, token |-> k, old |-> old] \in Tick
      BY <2>1, PlacesBack
    <3> QED BY <2>3, <2>7, <3>1, <3>2, <3>3
  <2>8. CASE row.state = "GENERATING"
    <3>1. ForAttempt(Latest) = [pc |-> "generate", n |-> Latest]
      BY <1>2, <2>8 DEF ForAttempt
    <3> QED BY <2>1, <3>1, PlacesBack
  <2>9. CASE row.state = "GENERATED"
    <3>1. ForAttempt(Latest) = [pc |-> "claim", n |-> Latest]
      BY <1>2, <2>9 DEF ForAttempt
    <3> QED BY <2>1, <3>1, PlacesBack
  <2> QED BY <2>3, <2>5, <2>6, <2>7, <2>8, <2>9
<1> QED BY <1>1, <1>2

LEMMA GotoType ==
    ASSUME TypeOK, NEW w \in Worker, NEW place \in Tick, Goto(w, place)
    PROVE  tick' \in [Worker -> Tick]
  BY DEF TypeOK, Goto

LEMMA RowType ==
    ASSUME TypeOK, NEW n \in Ordinal, NEW row \in Attempt, attempt' = [attempt EXCEPT ![n] = row]
    PROVE  attempt' \in [Ordinal -> Attempt]
  BY DEF TypeOK

LEMMA BlockedType ==
    ASSUME TypeOK, NEW n \in Ordinal, NEW token
    PROVE  Blocked(n, token) \in [Ordinal -> Attempt]
<1>1. [attempt[n] EXCEPT !.state = "BLOCKED", !.outcome = "VERIFICATION_INTERRUPTED"] \in Attempt
  BY DEF TypeOK, Attempt
<1> QED BY <1>1 DEF Blocked, TypeOK

LEMMA TypeStep == TypeOK /\ RowsAgree /\ Chain /\ [Step]_vars => TypeOK'
<1> SUFFICES ASSUME TypeOK, RowsAgree, Chain, [Step]_vars PROVE TypeOK'
  OBVIOUS
<1>0. ASSUME NEW w \in Worker PROVE tick[w] \in Tick
  BY <1>0 DEF TypeOK
<1>1. ASSUME NEW w \in Worker, Begin(w) PROVE TypeOK'
  <2>1. PICK place \in Tick : Goto(w, place)
    BY <1>1, PlacesBack DEF Begin, TypeOK
  <2> QED BY <1>1, <2>1, GotoType DEF Begin, TypeOK, rows
<1>2. ASSUME NEW w \in Worker, CreateRun(w) PROVE TypeOK'
  BY <1>2, GotoType, PlacesBack DEF CreateRun, TypeOK, RunState
<1>3. ASSUME NEW w \in Worker, Drift(w) \/ Stale(w) PROVE TypeOK'
  BY <1>3, GotoType, PlacesBack DEF Drift, Stale, MarkRun, TypeOK, RunState, Stopped
<1>4. ASSUME NEW w \in Worker, Validate(w) PROVE TypeOK'
  <2>1. PICK place \in Tick : Goto(w, place)
    BY <1>4, PlacesBack, ForAttemptType DEF Validate
  <2> QED BY <1>4, <2>1, GotoType DEF Validate, TypeOK, rows
<1>5. ASSUME NEW w \in Worker, AddAttempt(w) PROVE TypeOK'
  <2>1. tick[w].n \in Ordinal
    BY <1>0, <1>5, Places DEF AddAttempt
  <2>2. [attempt[tick[w].n] EXCEPT !.state = "GENERATING"] \in Attempt
    BY <2>1 DEF TypeOK, Attempt
  <2>3. attempt' \in [Ordinal -> Attempt]
    BY <1>5, <2>1, <2>2 DEF AddAttempt, TypeOK
  <2> QED BY <1>5, <2>3, GotoType, PlacesBack DEF AddAttempt, TypeOK
<1>6. ASSUME NEW w \in Worker, Generate(w) PROVE TypeOK'
  <2>1. tick[w].n \in Ordinal
    BY <1>0, <1>6, Places DEF Generate
  <2>2. PICK place \in Tick : Goto(w, place)
    BY <1>6, <2>1, PlacesBack DEF Generate
  <2> QED BY <1>6, <2>1, <2>2, GotoType DEF Generate, TypeOK
<1>7. ASSUME NEW w \in Worker, Answer(w) PROVE TypeOK'
  <2>1. tick[w].n \in Ordinal
    BY <1>0, <1>7, Places DEF Answer
  <2>2. PICK place \in Tick : Goto(w, place)
    BY <1>7, <2>1, PlacesBack DEF Answer
  <2> QED BY <1>7, <2>1, <2>2, GotoType DEF Answer, TypeOK
<1>8. ASSUME NEW w \in Worker, StorePatch(w) PROVE TypeOK'
  <2>1. tick[w].n \in Ordinal
    BY <1>0, <1>8, Places DEF StorePatch
  <2>2. [attempt[tick[w].n] EXCEPT !.state = "GENERATED"] \in Attempt
    BY <2>1 DEF TypeOK, Attempt
  <2>3. attempt' \in [Ordinal -> Attempt]
    BY <1>8, <2>1, <2>2 DEF StorePatch, TypeOK
  <2> QED BY <1>8, <2>3, GotoType, PlacesBack DEF StorePatch, TypeOK
<1>9. ASSUME NEW w \in Worker, Claim(w) PROVE TypeOK'
  <2> DEFINE n == tick[w].n  token == attempt[n].claims + 1
  <2>1. n \in Ordinal
    BY <1>0, <1>9, Places DEF Claim
  <2>2. CASE Claimable(n)
    <3>1. attempt[n] \in Attempt /\ token \in Number
      BY <2>1, <2>2, RowValues, RepairAssumption DEF Claimable, TypeOK, Number
    <3>2. [attempt[n] EXCEPT !.state = "VERIFYING", !.token = token, !.claims = token, !.old = FALSE] \in Attempt
      <4> DEFINE a == [attempt[n] EXCEPT !.state = "VERIFYING"]
                 b == [a EXCEPT !.token = token]
                 c == [b EXCEPT !.claims = token]
      <4>1. a \in Attempt
        BY <3>1, RowUpdates
      <4>2. token \in 0 .. MaxVerify
        BY <3>1, RepairAssumption DEF Number
      <4>3. b \in Attempt
        BY <4>1, <4>2, RowUpdates
      <4>4. c \in Attempt
        BY <4>2, <4>3, RowUpdates
      <4> QED BY <4>4, RowUpdates
    <3>3. attempt' \in [Ordinal -> Attempt]
      BY <1>9, <2>1, <2>2, <3>2 DEF Claim, TypeOK
    <3>4. Goto(w, [pc |-> "launch", n |-> n, token |-> token])
      BY <1>9, <2>2 DEF Claim
    <3>5. [pc |-> "launch", n |-> n, token |-> token] \in Tick
      BY <2>1, <3>1, PlacesBack
    <3>6. tick' \in [Worker -> Tick]
      BY <3>4, <3>5, GotoType
    <3> QED BY <1>9, <3>3, <3>6 DEF Claim, TypeOK
  <2>3. CASE ~Claimable(n)
    BY <1>9, <2>3, GotoType, PlacesBack DEF Claim, TypeOK
  <2> QED BY <2>2, <2>3
<1>10. ASSUME NEW w \in Worker, Launch(w) PROVE TypeOK'
  <2>1. tick[w].n \in Ordinal /\ tick[w].token \in Number
    BY <1>0, <1>10, Places DEF Launch
  <2>2. [tick[w] EXCEPT !.pc = "compare"] \in Tick
    BY <1>0, <1>10 DEF Launch, Tick, Rest
  <2>3. started' \in [Token -> Nat]
    BY <1>10, <2>1 DEF Launch, TypeOK, Token
  <2> QED BY <1>10, <2>2, <2>3, GotoType DEF Launch, TypeOK, rows
<1>11. ASSUME NEW w \in Worker, Compare(w) PROVE TypeOK'
  <2>1. tick[w].n \in Ordinal /\ tick[w].token \in Number
    BY <1>0, <1>11, Places DEF Compare
  <2>2. report' \in [Token -> Verdict \cup {"NONE"}]
    BY <1>11, <2>1 DEF Compare, TypeOK, Token
  <2>3. PICK place \in Tick : Goto(w, place)
    BY <1>11, <2>1, PlacesBack DEF Compare
  <2> QED BY <1>11, <2>2, <2>3, GotoType DEF Compare, TypeOK
<1>12. ASSUME NEW w \in Worker, Interrupt(w) PROVE TypeOK'
  <2>1. tick[w].n \in Ordinal
    BY <1>0, <1>12, Places DEF Interrupt
  <2> QED BY <1>12, <2>1, BlockedType, GotoType, PlacesBack DEF Interrupt, TypeOK
<1>13. ASSUME NEW w \in Worker, Recover(w) PROVE TypeOK'
  <2>1. tick[w].n \in Ordinal /\ tick[w].token \in Number
    BY <1>0, <1>13, Places DEF Recover
  <2>2. [attempt[tick[w].n] EXCEPT !.state = "VERIFYING"] \in Attempt
    BY <2>1 DEF TypeOK, Attempt
  <2>3. attempt' \in [Ordinal -> Attempt]
    BY <1>13, <2>1, <2>2, BlockedType DEF Recover, TypeOK
  <2>4. report[<<tick[w].n, tick[w].token>>] \in Verdict \cup {"NONE"}
    BY <2>1 DEF TypeOK, Token
  <2>5. PICK place \in Tick : Goto(w, place)
    <3> DEFINE found == report[<<tick[w].n, tick[w].token>>]
               take == [pc |-> "verified", n |-> tick[w].n, token |-> tick[w].token,
                        outcome |-> found, launched |-> FALSE]
    <3>1. found # "NONE" => take \in Tick
      BY <2>1, <2>4, PlacesBack
    <3>2. Goto(w, Rest) \/ (found # "NONE" /\ Goto(w, take))
      BY <1>13 DEF Recover
    <3> QED BY <3>1, <3>2, PlacesBack
  <2> QED BY <1>13, <2>3, <2>5, GotoType DEF Recover, TypeOK
<1>14. ASSUME NEW w \in Worker, Verified(w) PROVE TypeOK'
  <2>1. tick[w].n \in Ordinal /\ tick[w].outcome \in Verdict
    BY <1>0, <1>14, Places DEF Verified
  <2>2. [attempt[tick[w].n] EXCEPT !.state = "VERIFIED", !.outcome = tick[w].outcome] \in Attempt
    <3> DEFINE a == [attempt[tick[w].n] EXCEPT !.state = "VERIFIED"]
               b == [a EXCEPT !.outcome = tick[w].outcome]
    <3>1. a \in Attempt
      BY <2>1 DEF TypeOK, Attempt
    <3>2. b \in Attempt
      BY <2>1, <3>1 DEF Attempt
    <3>3. [attempt[tick[w].n] EXCEPT !.state = "VERIFIED", !.outcome = tick[w].outcome] = b
      BY <2>1 DEF TypeOK, Attempt
    <3> QED BY <3>2, <3>3
  <2>3. attempt' \in [Ordinal -> Attempt]
    BY <1>14, <2>1, <2>2 DEF Verified, TypeOK
  <2>4. PICK place \in Tick : Goto(w, place)
    BY <1>14, PlacesBack, Conclusions DEF Verified
  <2> QED BY <1>14, <2>3, <2>4, GotoType DEF Verified, TypeOK
<1>15. ASSUME NEW w \in Worker, End(w) PROVE TypeOK'
  <2>1. tick[w].state \in RunEnd
    BY <1>0, <1>15, Places DEF End
  <2> QED BY <1>15, <2>1, GotoType, PlacesBack DEF End, TypeOK, RunState, Stopped
<1>16. ASSUME NEW w \in Worker, Refuse(w) \/ Crash(w) PROVE TypeOK'
  BY <1>16, GotoType, PlacesBack DEF Refuse, Crash, TypeOK, rows
<1>17. ASSUME NEW w \in Worker, VerificationRaises(w) PROVE TypeOK'
  <2>1. tick[w].n \in Ordinal /\ tick[w].token \in Number
    BY <1>0, <1>17, Places DEF VerificationRaises
  <2>2. PICK place \in Tick : Goto(w, place)
    BY <1>17, <2>1, PlacesBack DEF VerificationRaises
  <2> QED BY <1>17, <2>2, GotoType DEF VerificationRaises, TypeOK, rows
<1>18. ASSUME NEW n \in Ordinal, Retry(n) PROVE TypeOK'
  <2>1. [attempt[n] EXCEPT !.state = "GENERATED", !.outcome = "NONE", !.token = 0, !.old = FALSE] \in Attempt
    <3> DEFINE a == [attempt[n] EXCEPT !.state = "GENERATED"]
               b == [a EXCEPT !.outcome = "NONE"]
               c == [b EXCEPT !.token = 0]
    <3>1. a \in Attempt
      BY RowUpdates DEF TypeOK
    <3>2. b \in Attempt
      BY <3>1, RowUpdates
    <3>3. 0 \in 0 .. MaxVerify
      BY RepairAssumption
    <3>4. c \in Attempt
      BY <3>2, <3>3, RowUpdates
    <3> QED BY <3>4, RowUpdates
  <2> QED BY <1>18, <2>1, RowType DEF Retry, TypeOK
<1>19. ASSUME NEW n \in Ordinal, Age(n) PROVE TypeOK'
  <2>1. [attempt[n] EXCEPT !.old = TRUE] \in Attempt
    BY DEF TypeOK, Attempt
  <2> QED BY <1>19, <2>1 DEF Age, TypeOK
<1>20. CASE Calm
  BY <1>20 DEF Calm, TypeOK, rows
<1>21. CASE UNCHANGED vars
  BY <1>21 DEF vars, rows, TypeOK
<1> QED
  BY <1>1, <1>2, <1>3, <1>4, <1>5, <1>6, <1>7, <1>8, <1>9, <1>10, <1>11, <1>12, <1>13, <1>14, <1>15,
     <1>16, <1>17, <1>18, <1>19, <1>20, <1>21 DEF Step, Next, TickStep, Fault

(***************************************************************************)
(* What each action does to the rows                                       *)
(***************************************************************************)
OthersStay(n) == \A m \in Ordinal \ {n} : attempt'[m] = attempt[m]
Stays(n) == attempt'[n] = attempt[n]

(* A row that changes its state, and not its claims and its token.         *)
Turns(n, from, to) ==
    /\ attempt[n].state = from /\ attempt'[n].state = to
    /\ attempt'[n].claims = attempt[n].claims
    /\ attempt'[n].token = attempt[n].token

LEMMA AddRow ==
    ASSUME TypeOK, NEW w \in Worker, AddAttempt(w)
    PROVE  OthersStay(tick[w].n) /\ (Stays(tick[w].n) \/ Turns(tick[w].n, "ABSENT", "GENERATING"))
<1>1. tick[w].n \in Ordinal
  BY Places DEF AddAttempt, TypeOK
<1> QED BY <1>1 DEF AddAttempt, TypeOK, OthersStay, Stays, Turns, Attempt

LEMMA PatchRow ==
    ASSUME TypeOK, NEW w \in Worker, StorePatch(w)
    PROVE  OthersStay(tick[w].n) /\ (Stays(tick[w].n) \/ Turns(tick[w].n, "GENERATING", "GENERATED"))
<1>1. tick[w].n \in Ordinal
  BY Places DEF StorePatch, TypeOK
<1> QED BY <1>1 DEF StorePatch, TypeOK, OthersStay, Stays, Turns, Attempt

LEMMA ClaimRow ==
    ASSUME TypeOK, NEW w \in Worker, Claim(w), NEW n, n = tick[w].n, Claimable(n)
    PROVE  /\ OthersStay(n)
           /\ attempt[n].state = "GENERATED" /\ attempt'[n].state = "VERIFYING"
           /\ attempt[n].claims + 1 \in Number
           /\ attempt'[n].claims = attempt[n].claims + 1
           /\ attempt'[n].token = attempt[n].claims + 1
<1>0. n \in Ordinal
  BY Places DEF Claim, TypeOK
<1> DEFINE k == attempt[n].claims + 1
           a == [attempt[n] EXCEPT !.state = "VERIFYING"]
           b == [a EXCEPT !.token = k]
           c == [b EXCEPT !.claims = k]
           d == [c EXCEPT !.old = FALSE]
<1>1. attempt' = [attempt EXCEPT ![n] = d]
  BY DEF Claim
<1>2. a \in Attempt /\ a.state = "VERIFYING"
  BY <1>0 DEF TypeOK, Attempt
<1>3. k \in Number /\ k \in 0 .. MaxVerify
  BY <1>0, RepairAssumption DEF TypeOK, Attempt, Claimable, Number
<1> HIDE DEF a, k
<1>4. b \in Attempt /\ b.state = "VERIFYING" /\ b.token = k
  BY <1>2, <1>3 DEF Attempt
<1> HIDE DEF b
<1>5. c \in Attempt /\ c.state = "VERIFYING" /\ c.token = k /\ c.claims = k
  BY <1>3, <1>4 DEF Attempt
<1> HIDE DEF c
<1>6. d.state = "VERIFYING" /\ d.token = k /\ d.claims = k
  BY <1>5 DEF Attempt
<1> HIDE DEF d
<1>7. OthersStay(n) /\ attempt'[n] = d
  BY <1>0, <1>1 DEF OthersStay, TypeOK
<1> QED BY <1>3, <1>6, <1>7 DEF k, Claimable

LEMMA BlockedRow ==
    ASSUME TypeOK, NEW n \in Ordinal, NEW token, attempt' = Blocked(n, token)
    PROVE  OthersStay(n) /\ (Stays(n) \/ Turns(n, "VERIFYING", "BLOCKED"))
<1>1. CASE Holds(attempt[n], token)
  <2> DEFINE a == [attempt[n] EXCEPT !.state = "BLOCKED"]
             b == [a EXCEPT !.outcome = "VERIFICATION_INTERRUPTED"]
  <2>1. attempt' = [attempt EXCEPT ![n] = b]
    BY <1>1 DEF Blocked
  <2>2. /\ a \in Attempt /\ a.state = "BLOCKED"
        /\ a.claims = attempt[n].claims /\ a.token = attempt[n].token
    BY DEF TypeOK, Attempt
  <2> HIDE DEF a
  <2>3. b.state = "BLOCKED" /\ b.claims = a.claims /\ b.token = a.token
    BY <2>2 DEF Attempt
  <2> HIDE DEF b
  <2>4. OthersStay(n) /\ attempt'[n] = b
    BY <2>1 DEF OthersStay, TypeOK
  <2> QED BY <1>1, <2>2, <2>3, <2>4 DEF Turns, Holds
<1>2. CASE ~Holds(attempt[n], token)
  BY <1>2 DEF Blocked, OthersStay, Stays
<1> QED BY <1>1, <1>2

LEMMA InterruptRow ==
    ASSUME TypeOK, NEW w \in Worker, Interrupt(w)
    PROVE  OthersStay(tick[w].n) /\ (Stays(tick[w].n) \/ Turns(tick[w].n, "VERIFYING", "BLOCKED"))
<1>1. tick[w].n \in Ordinal
  BY Places DEF Interrupt, TypeOK
<1> QED BY <1>1, BlockedRow DEF Interrupt

LEMMA RecoverRow ==
    ASSUME TypeOK, NEW w \in Worker, Recover(w), NEW n, n = tick[w].n
    PROVE  /\ OthersStay(n)
           /\ Stays(n) \/ Turns(n, "VERIFYING", "BLOCKED") \/ Turns(n, "BLOCKED", "VERIFYING")
<1>1. n \in Ordinal
  BY Places DEF Recover, TypeOK
<1>2. CASE attempt' = Blocked(n, tick[w].token)
  BY <1>1, <1>2, BlockedRow
<1>3. CASE attempt[n].state = "BLOCKED" /\ attempt' = [attempt EXCEPT ![n].state = "VERIFYING"]
  BY <1>1, <1>3 DEF TypeOK, Attempt, OthersStay, Turns
<1>4. CASE attempt' = attempt
  BY <1>4 DEF OthersStay, Stays
<1> QED BY <1>2, <1>3, <1>4 DEF Recover

LEMMA VerifiedRow ==
    ASSUME TypeOK, NEW w \in Worker, Verified(w), NEW n, n = tick[w].n
    PROVE  /\ OthersStay(n)
           /\ \/ Stays(n) /\ tick' = [tick EXCEPT ![w] = Rest]
              \/ /\ Turns(n, "VERIFYING", "VERIFIED")
                 /\ attempt[n].token = tick[w].token
                 /\ attempt'[n].outcome = tick[w].outcome
                 /\ Goto(w, IF tick[w].outcome = "CANDIDATE_FAILED" THEN Rest
                            ELSE Ending(Conclusion(tick[w].outcome)))
<1>0. n \in Ordinal /\ tick[w].outcome \in Verdict
  BY Places DEF Verified, TypeOK
<1>1. CASE Holds(attempt[n], tick[w].token)
  <2> DEFINE a == [attempt[n] EXCEPT !.state = "VERIFIED"]
             b == [a EXCEPT !.outcome = tick[w].outcome]
  <2>1. attempt' = [attempt EXCEPT ![n] = b]
    BY <1>1 DEF Verified
  <2>2. /\ a \in Attempt /\ a.state = "VERIFIED"
        /\ a.claims = attempt[n].claims /\ a.token = attempt[n].token
    BY <1>0 DEF TypeOK, Attempt
  <2> HIDE DEF a
  <2>3. /\ b.state = "VERIFIED" /\ b.claims = a.claims /\ b.token = a.token
        /\ b.outcome = tick[w].outcome
    BY <2>2 DEF Attempt
  <2> HIDE DEF b
  <2>4. OthersStay(n) /\ attempt'[n] = b
    BY <1>0, <2>1 DEF OthersStay, TypeOK
  <2>5. Goto(w, IF tick[w].outcome = "CANDIDATE_FAILED" THEN Rest ELSE Ending(Conclusion(tick[w].outcome)))
    BY <1>1 DEF Verified
  <2>6. attempt[n].token = tick[w].token /\ attempt[n].state = "VERIFYING"
    BY <1>1 DEF Holds
  <2> QED BY <2>2, <2>3, <2>4, <2>5, <2>6 DEF Turns
<1>2. CASE ~Holds(attempt[n], tick[w].token)
  BY <1>2 DEF Verified, OthersStay, Stays, Goto
<1> QED BY <1>1, <1>2

LEMMA RetryRow ==
    ASSUME TypeOK, NEW n \in Ordinal, Retry(n)
    PROVE  /\ OthersStay(n)
           /\ attempt[n].state = "BLOCKED" /\ attempt'[n].state = "GENERATED"
           /\ attempt'[n].claims = attempt[n].claims
<1> DEFINE a == [attempt[n] EXCEPT !.state = "GENERATED"]
           b == [a EXCEPT !.outcome = "NONE"]
           c == [b EXCEPT !.token = 0]
           d == [c EXCEPT !.old = FALSE]
<1>1. attempt' = [attempt EXCEPT ![n] = d]
  BY DEF Retry
<1>2. a \in Attempt /\ a.state = "GENERATED" /\ a.claims = attempt[n].claims
  BY DEF TypeOK, Attempt
<1> HIDE DEF a
<1>3. b \in Attempt /\ b.state = "GENERATED" /\ b.claims = a.claims
  BY <1>2 DEF Attempt
<1> HIDE DEF b
<1>4. c \in Attempt /\ c.state = "GENERATED" /\ c.claims = b.claims
  BY <1>3, RepairAssumption DEF Attempt
<1> HIDE DEF c
<1>5. d.state = "GENERATED" /\ d.claims = c.claims
  BY <1>4 DEF Attempt
<1> HIDE DEF d
<1>6. OthersStay(n) /\ attempt'[n] = d
  BY <1>1 DEF OthersStay, TypeOK
<1> QED BY <1>2, <1>3, <1>4, <1>5, <1>6 DEF Retry, Retryable

LEMMA AgeRow ==
    ASSUME TypeOK, NEW n \in Ordinal, Age(n)
    PROVE  OthersStay(n) /\ Turns(n, "VERIFYING", "VERIFYING")
  BY DEF Age, TypeOK, Attempt, OthersStay, Turns

(***************************************************************************)
(* What never goes back                                                    *)
(***************************************************************************)
Grown ==
    \A n \in Ordinal :
        /\ attempt[n].claims <= attempt'[n].claims
        /\ attempt[n].state # "ABSENT" => attempt'[n].state # "ABSENT"
        /\ attempt[n].state = "VERIFIED" => attempt'[n] = attempt[n]
        /\ paid[n] = "SAVED" => paid'[n] = "SAVED"
        /\ paid[n] # "NONE" => paid'[n] # "NONE"

(* A row comes to be only by a tick that adds it.                          *)
Added(m) == \E w \in Worker : tick[w].pc = "add" /\ tick[w].n = m /\ attempt'[m].state = "GENERATING"
AbsentStays == \A m \in Ordinal : attempt[m].state = "ABSENT" => attempt'[m].state = "ABSENT" \/ Added(m)

LEMMA ClaimsAreNumbers ==
    ASSUME TypeOK, NEW n \in Ordinal
    PROVE  attempt[n].claims \in Nat /\ attempt[n].claims <= attempt[n].claims
  BY RepairAssumption DEF TypeOK, Attempt

LEMMA TurnGrows ==
    ASSUME TypeOK, NEW n \in Ordinal, OthersStay(n), paid' = paid,
           \/ Stays(n)
           \/ \E from \in {"GENERATING", "VERIFYING", "BLOCKED"}, to \in {"GENERATED", "VERIFYING", "BLOCKED", "VERIFIED"} :
                 Turns(n, from, to)
    PROVE  Grown /\ AbsentStays
  BY ClaimsAreNumbers DEF OthersStay, Stays, Turns, Grown, AbsentStays

LEMMA GrownStep == TypeOK /\ [Step]_vars => Grown /\ AbsentStays
<1> SUFFICES ASSUME TypeOK, [Step]_vars PROVE Grown /\ AbsentStays
  OBVIOUS
<1>0. ASSUME NEW w \in Worker PROVE tick[w] \in Tick
  BY <1>0 DEF TypeOK
<1>1. CASE attempt' = attempt /\ paid' = paid
  BY <1>1, ClaimsAreNumbers DEF Grown, AbsentStays
<1>2. ASSUME NEW w \in Worker,
             Begin(w) \/ CreateRun(w) \/ Drift(w) \/ Stale(w) \/ Validate(w) \/ Launch(w) \/ Compare(w)
                \/ End(w) \/ Fault(w)
      PROVE  attempt' = attempt /\ paid' = paid
  BY <1>2 DEF Begin, CreateRun, Drift, Stale, MarkRun, Validate, Launch, Compare, End, Fault, Refuse,
              VerificationRaises, Crash, rows
<1>3. ASSUME NEW w \in Worker, Generate(w) \/ Answer(w) PROVE Grown /\ AbsentStays
  <2>1. tick[w].n \in Ordinal
    BY <1>0, <1>3, Places DEF Generate, Answer
  <2>2. /\ attempt' = attempt
        /\ \A n \in Ordinal : /\ paid[n] = "SAVED" => paid'[n] = "SAVED"
                              /\ paid[n] # "NONE" => paid'[n] # "NONE"
    BY <1>3, <2>1 DEF Generate, Answer, TypeOK
  <2> QED BY <2>2, ClaimsAreNumbers DEF Grown, AbsentStays
<1>4. ASSUME NEW w \in Worker, AddAttempt(w) PROVE Grown /\ AbsentStays
  <2>1. tick[w].n \in Ordinal /\ tick[w].pc = "add" /\ paid' = paid
    BY <1>0, <1>4, Places DEF AddAttempt
  <2>2. OthersStay(tick[w].n) /\ (Stays(tick[w].n) \/ Turns(tick[w].n, "ABSENT", "GENERATING"))
    BY <1>4, AddRow
  <2>3. CASE Stays(tick[w].n)
    BY <2>1, <2>2, <2>3, TurnGrows
  <2>4. CASE Turns(tick[w].n, "ABSENT", "GENERATING")
    <3>1. Added(tick[w].n)
      BY <2>1, <2>4 DEF Added, Turns
    <3> QED BY <2>1, <2>2, <2>4, <3>1, ClaimsAreNumbers DEF OthersStay, Turns, Grown, AbsentStays
  <2> QED BY <2>2, <2>3, <2>4
<1>5. ASSUME NEW w \in Worker, StorePatch(w) \/ Interrupt(w) \/ Recover(w) PROVE Grown /\ AbsentStays
  <2>1. tick[w].n \in Ordinal /\ paid' = paid
    BY <1>0, <1>5, Places DEF StorePatch, Interrupt, Recover
  <2>2. /\ OthersStay(tick[w].n)
        /\ \/ Stays(tick[w].n)
           \/ Turns(tick[w].n, "GENERATING", "GENERATED")
           \/ Turns(tick[w].n, "VERIFYING", "BLOCKED")
           \/ Turns(tick[w].n, "BLOCKED", "VERIFYING")
    BY <1>5, PatchRow, InterruptRow, RecoverRow
  <2> QED BY <2>1, <2>2, TurnGrows
<1>6. ASSUME NEW w \in Worker, Claim(w) PROVE Grown /\ AbsentStays
  <2>1. tick[w].n \in Ordinal /\ paid' = paid
    BY <1>0, <1>6, Places DEF Claim
  <2>2. CASE Claimable(tick[w].n)
    <3>1. /\ OthersStay(tick[w].n)
          /\ attempt[tick[w].n].state = "GENERATED" /\ attempt'[tick[w].n].state = "VERIFYING"
          /\ attempt'[tick[w].n].claims = attempt[tick[w].n].claims + 1
      BY <1>6, <2>2, ClaimRow
    <3> QED BY <2>1, <3>1, ClaimsAreNumbers DEF OthersStay, Grown, AbsentStays
  <2>3. CASE ~Claimable(tick[w].n)
    BY <1>1, <1>6, <2>3 DEF Claim
  <2> QED BY <2>2, <2>3
<1>7. ASSUME NEW w \in Worker, Verified(w) PROVE Grown /\ AbsentStays
  <2>1. tick[w].n \in Ordinal /\ paid' = paid
    BY <1>0, <1>7, Places DEF Verified
  <2>2. OthersStay(tick[w].n) /\ (Stays(tick[w].n) \/ Turns(tick[w].n, "VERIFYING", "VERIFIED"))
    BY <1>7, VerifiedRow
  <2> QED BY <2>1, <2>2, TurnGrows
<1>8. ASSUME NEW n \in Ordinal, Retry(n) PROVE Grown /\ AbsentStays
  <2>1. paid' = paid
    BY <1>8 DEF Retry
  <2> QED BY <1>8, <2>1, RetryRow, ClaimsAreNumbers DEF OthersStay, Grown, AbsentStays
<1>9. ASSUME NEW n \in Ordinal, Age(n) PROVE Grown /\ AbsentStays
  <2>1. paid' = paid
    BY <1>9 DEF Age
  <2> QED BY <1>9, <2>1, AgeRow, TurnGrows
<1>10. CASE Calm \/ UNCHANGED vars
  BY <1>1, <1>10 DEF Calm, vars, rows
<1> QED
  BY <1>1, <1>2, <1>3, <1>4, <1>5, <1>6, <1>7, <1>8, <1>9, <1>10 DEF Step, Next, TickStep

LEMMA EarnedStays ==
    ASSUME RepairInv, Grown, AbsentStays, NEW state, Earned(state)
    PROVE  Earned(state)'
<1>1. PICK n \in Ordinal : EarnedBy(n, state)
  BY DEF Earned
<1>2. attempt'[n] = attempt[n]
  BY <1>1 DEF EarnedBy, Grown
<1>3. ASSUME NEW m \in Ordinal, m > n PROVE attempt'[m].state = "ABSENT"
  <2>1. attempt[m].state = "ABSENT"
    BY <1>1, <1>3 DEF EarnedBy
  <2>2. SUFFICES ASSUME Added(m) PROVE FALSE
    BY <2>1 DEF AbsentStays
  <2>3. PICK w \in Worker : tick[w].pc = "add" /\ tick[w].n = m
    BY <2>2 DEF Added
  <2>4. n \in 1 .. (m - 1)
    BY <1>3 DEF Ordinal
  <2>5. Failed(n)
    BY <2>3, <2>4 DEF RepairInv, GoesBy
  <2>6. n = MaxAttempts
    BY <1>1, <2>5 DEF EarnedBy, Failed
  <2> QED BY <1>3, <2>6, RepairAssumption DEF Ordinal
<1>4. EarnedBy(n, state)'
  BY <1>1, <1>2, <1>3 DEF EarnedBy, Conclusion
<1> QED BY <1>4 DEF Earned, Ordinal

LEMMA FailedStays ==
    ASSUME Grown, NEW m \in Ordinal, Failed(m)
    PROVE  Failed(m)'
  BY DEF Grown, Failed

(* The report of a token is written once, by the tick that owns the token. *)
ReportStays ==
    \A n \in Ordinal, k \in Number :
        report[<<n, k>>] # "NONE" => report'[<<n, k>>] = report[<<n, k>>]

LEMMA CompareReport ==
    ASSUME RepairInv, NEW w \in Worker, Compare(w)
    PROVE  /\ tick[w].n \in Ordinal /\ tick[w].token \in Number
           /\ report[<<tick[w].n, tick[w].token>>] = "NONE"
           /\ \E outcome \in Verdict :
                 /\ report' = [report EXCEPT ![<<tick[w].n, tick[w].token>>] = outcome]
                 /\ Goto(w, [pc |-> "verified", n |-> tick[w].n, token |-> tick[w].token,
                             outcome |-> outcome, launched |-> TRUE])
           /\ \A n \in Ordinal, k \in Number :
                 n # tick[w].n \/ k # tick[w].token => report'[<<n, k>>] = report[<<n, k>>]
<1>1. tick[w].n \in Ordinal /\ tick[w].token \in Number /\ tick[w].pc = "compare"
  BY Places DEF Compare, RepairInv, TypeOK
<1>2. report[<<tick[w].n, tick[w].token>>] = "NONE"
  BY <1>1 DEF RepairInv, GoesBy, Owner
<1>3. PICK outcome \in Verdict :
          /\ report' = [report EXCEPT ![<<tick[w].n, tick[w].token>>] = outcome]
          /\ Goto(w, [pc |-> "verified", n |-> tick[w].n, token |-> tick[w].token,
                      outcome |-> outcome, launched |-> TRUE])
  BY DEF Compare
<1>4. ASSUME NEW n \in Ordinal, NEW k \in Number, n # tick[w].n \/ k # tick[w].token
      PROVE  report'[<<n, k>>] = report[<<n, k>>]
  <2>1. <<n, k>> # <<tick[w].n, tick[w].token>> /\ <<n, k>> \in Token
    BY <1>4 DEF Token
  <2> QED BY <1>3, <2>1 DEF RepairInv, TypeOK
<1> QED BY <1>1, <1>2, <1>3, <1>4

LEMMA OtherReports ==
    ASSUME NEW w \in Worker,
           \/ TickStep(w) /\ ~Compare(w)
           \/ Fault(w)
    PROVE  report' = report
  BY DEF TickStep, Fault, Begin, CreateRun, Drift, Stale, MarkRun, Validate, AddAttempt, Generate, Answer,
         StorePatch, Claim, Launch, Interrupt, Recover, Verified, End, Refuse, VerificationRaises, Crash, rows

LEMMA ReportStep == RepairInv /\ [Step]_vars => ReportStays
<1> SUFFICES ASSUME RepairInv, [Step]_vars PROVE ReportStays
  OBVIOUS
<1>1. ASSUME NEW w \in Worker, Compare(w) PROVE ReportStays
  BY <1>1, CompareReport DEF ReportStays
<1>2. ASSUME report' = report PROVE ReportStays
  BY <1>2 DEF ReportStays
<1>3. ASSUME NEW n \in Ordinal, Retry(n) \/ Age(n) PROVE report' = report
  BY <1>3 DEF Retry, Age
<1>4. CASE Calm \/ UNCHANGED vars
  BY <1>2, <1>4 DEF Calm, vars, rows
<1> QED BY <1>1, <1>2, <1>3, <1>4, OtherReports DEF Step, Next

(***************************************************************************)
(* Rows                                                                    *)
(***************************************************************************)
LEMMA RowKept ==
    ASSUME RepairInv, Grown, ReportStays, NEW n \in Ordinal, Stays(n), retried'[n] = retried[n]
    PROVE  RowAgrees(n)'
<1>1. RowAgrees(n)
  BY DEF RepairInv, RowsAgree
<1>2. paid[n] = "SAVED" => paid'[n] = "SAVED"
  BY DEF Grown
<1>3. attempt[n].state = "VERIFIED" => report'[<<n, attempt[n].token>>] = report[<<n, attempt[n].token>>]
  BY <1>1, NoVerdict DEF RowAgrees, ReportStays
<1> QED BY <1>1, <1>2, <1>3 DEF RowAgrees, Stays

LEMMA RowTurned ==
    ASSUME RepairInv, Grown, NEW n \in Ordinal, retried'[n] = retried[n],
           NEW from, NEW to, Turns(n, from, to),
           \/ from = "ABSENT" /\ to = "GENERATING"
           \/ from = "GENERATING" /\ to = "GENERATED" /\ paid[n] = "SAVED"
           \/ from \in {"VERIFYING", "BLOCKED"} /\ to \in {"VERIFYING", "BLOCKED"}
           \/ /\ from = "VERIFYING" /\ to = "VERIFIED"
              /\ attempt'[n].outcome \in Verdict
              /\ attempt'[n].outcome = report'[<<n, attempt'[n].token>>]
    PROVE  RowAgrees(n)'
<1>1. RowAgrees(n)
  BY DEF RepairInv, RowsAgree
<1>2. paid[n] = "SAVED" => paid'[n] = "SAVED"
  BY DEF Grown
<1> QED BY <1>1, <1>2 DEF RowAgrees, Turns

LEMMA RowsStep == RepairInv /\ [Step]_vars => RowsAgree'
<1> SUFFICES ASSUME RepairInv, [Step]_vars, NEW m \in Ordinal PROVE RowAgrees(m)'
  BY DEF RowsAgree, Ordinal
<1>a. TypeOK /\ Grown /\ ReportStays /\ \A w \in Worker : tick[w] \in Tick
  BY GrownStep, ReportStep DEF RepairInv, TypeOK
<1>b. ASSUME retried' = retried, Stays(m) PROVE RowAgrees(m)'
  BY <1>a, <1>b, RowKept
<1>1. CASE attempt' = attempt /\ retried' = retried
  BY <1>1, <1>b DEF Stays
<1>2. ASSUME NEW w \in Worker,
             Begin(w) \/ CreateRun(w) \/ Drift(w) \/ Stale(w) \/ Validate(w) \/ Launch(w) \/ Compare(w)
                \/ End(w) \/ Fault(w) \/ Generate(w) \/ Answer(w)
      PROVE  attempt' = attempt /\ retried' = retried
  BY <1>2 DEF Begin, CreateRun, Drift, Stale, MarkRun, Validate, Launch, Compare, End, Fault, Refuse,
              VerificationRaises, Crash, rows, Generate, Answer
<1>3. ASSUME NEW w \in Worker, AddAttempt(w) PROVE RowAgrees(m)'
  <2>1. retried' = retried /\ OthersStay(tick[w].n)
        /\ (Stays(tick[w].n) \/ Turns(tick[w].n, "ABSENT", "GENERATING"))
    BY <1>3, <1>a, AddRow DEF AddAttempt
  <2>2. Stays(m) \/ Turns(m, "ABSENT", "GENERATING")
    BY <2>1 DEF OthersStay, Stays
  <2> QED BY <1>a, <1>b, <2>1, <2>2, RowTurned
<1>4. ASSUME NEW w \in Worker, StorePatch(w) PROVE RowAgrees(m)'
  <2>1. /\ retried' = retried /\ OthersStay(tick[w].n) /\ paid[tick[w].n] = "SAVED"
        /\ (Stays(tick[w].n) \/ Turns(tick[w].n, "GENERATING", "GENERATED"))
    BY <1>4, <1>a, PatchRow DEF StorePatch, RepairInv, GoesBy
  <2>2. CASE m # tick[w].n
    BY <1>b, <2>1, <2>2 DEF OthersStay, Stays
  <2>3. CASE m = tick[w].n /\ Stays(m)
    BY <1>b, <2>1, <2>3
  <2>4. CASE m = tick[w].n /\ Turns(m, "GENERATING", "GENERATED")
    BY <1>a, <2>1, <2>4, RowTurned
  <2> QED BY <2>1, <2>2, <2>3, <2>4
<1>5. ASSUME NEW w \in Worker, Interrupt(w) \/ Recover(w) PROVE RowAgrees(m)'
  <2>1. /\ retried' = retried /\ OthersStay(tick[w].n)
        /\ \/ Stays(tick[w].n)
           \/ Turns(tick[w].n, "VERIFYING", "BLOCKED")
           \/ Turns(tick[w].n, "BLOCKED", "VERIFYING")
    BY <1>5, <1>a, InterruptRow, RecoverRow DEF Interrupt, Recover
  <2>2. CASE m # tick[w].n
    BY <1>b, <2>1, <2>2 DEF OthersStay, Stays
  <2>3. CASE m = tick[w].n /\ Stays(m)
    BY <1>b, <2>1, <2>3
  <2>4. CASE m = tick[w].n /\ (Turns(m, "VERIFYING", "BLOCKED") \/ Turns(m, "BLOCKED", "VERIFYING"))
    BY <1>a, <2>1, <2>4, RowTurned
  <2> QED BY <2>1, <2>2, <2>3, <2>4
<1>6. ASSUME NEW w \in Worker, Claim(w) PROVE RowAgrees(m)'
  <2>1. tick[w].n \in Ordinal /\ retried' = retried
    BY <1>a, <1>6, Places DEF Claim
  <2>2. CASE Claimable(tick[w].n)
    <3>1. /\ OthersStay(tick[w].n)
          /\ attempt[tick[w].n].state = "GENERATED" /\ attempt'[tick[w].n].state = "VERIFYING"
          /\ attempt[tick[w].n].claims + 1 \in Number
          /\ attempt'[tick[w].n].claims = attempt[tick[w].n].claims + 1
          /\ attempt'[tick[w].n].token = attempt[tick[w].n].claims + 1
      BY <1>a, <1>6, <2>2, ClaimRow
    <3>2. CASE m = tick[w].n
      <4>1. RowAgrees(m) /\ retried[m] \in Nat /\ attempt[m].claims \in Nat
        BY <1>a, ClaimsAreNumbers DEF RepairInv, RowsAgree, TypeOK
      <4>2. paid[m] = "SAVED" /\ paid'[m] = "SAVED" /\ attempt[m].claims <= retried[m]
        BY <1>a, <3>1, <3>2, <4>1 DEF RowAgrees, Grown
      <4> QED BY <2>1, <3>1, <3>2, <4>1, <4>2 DEF RowAgrees
    <3>3. CASE m # tick[w].n
      BY <1>b, <2>1, <3>1, <3>3 DEF OthersStay, Stays
    <3> QED BY <3>2, <3>3
  <2>3. CASE ~Claimable(tick[w].n)
    BY <1>1, <1>6, <2>3 DEF Claim
  <2> QED BY <2>2, <2>3
<1>7. ASSUME NEW w \in Worker, Verified(w) PROVE RowAgrees(m)'
  <2>1. /\ tick[w].n \in Ordinal /\ tick[w].token \in Number /\ tick[w].outcome \in Verdict
        /\ tick[w].pc = "verified" /\ retried' = retried /\ report' = report
    BY <1>a, <1>7, Places DEF Verified
  <2>2. report[<<tick[w].n, tick[w].token>>] = tick[w].outcome
    BY <2>1 DEF RepairInv, GoesBy
  <2>3. /\ OthersStay(tick[w].n)
        /\ \/ Stays(tick[w].n)
           \/ /\ Turns(tick[w].n, "VERIFYING", "VERIFIED")
              /\ attempt[tick[w].n].token = tick[w].token
              /\ attempt'[tick[w].n].outcome = tick[w].outcome
    BY <1>a, <1>7, VerifiedRow
  <2>4. CASE m # tick[w].n \/ Stays(tick[w].n)
    BY <1>b, <2>1, <2>3, <2>4 DEF OthersStay, Stays
  <2>5. CASE m = tick[w].n /\ ~Stays(m)
    <3>1. /\ Turns(m, "VERIFYING", "VERIFIED")
          /\ attempt'[m].outcome \in Verdict
          /\ attempt'[m].outcome = report'[<<m, attempt'[m].token>>]
      BY <2>1, <2>2, <2>3, <2>5 DEF Turns
    <3> QED BY <1>a, <2>1, <3>1, RowTurned
  <2> QED BY <2>4, <2>5
<1>8. ASSUME NEW n \in Ordinal, Retry(n) PROVE RowAgrees(m)'
  <2>1. /\ OthersStay(n) /\ attempt[n].state = "BLOCKED" /\ attempt'[n].state = "GENERATED"
        /\ attempt'[n].claims = attempt[n].claims
    BY <1>a, <1>8, RetryRow
  <2>2. retried' = [retried EXCEPT ![n] = @ + 1]
    BY <1>8 DEF Retry
  <2>3. CASE m = n
    <3>1. RowAgrees(m) /\ retried[m] \in Nat /\ retried'[m] = retried[m] + 1
      BY <2>2, <2>3 DEF RepairInv, RowsAgree, TypeOK
    <3> QED BY <1>a, <2>1, <2>3, <3>1 DEF RowAgrees, Grown
  <2>4. CASE m # n
    <3>1. Stays(m) /\ retried'[m] = retried[m]
      BY <2>1, <2>2, <2>4 DEF OthersStay, Stays, RepairInv, TypeOK
    <3> QED BY <1>a, <3>1, RowKept
  <2> QED BY <2>3, <2>4
<1>9. ASSUME NEW n \in Ordinal, Age(n) PROVE RowAgrees(m)'
  <2>1. OthersStay(n) /\ Turns(n, "VERIFYING", "VERIFYING") /\ retried' = retried
    BY <1>a, <1>9, AgeRow DEF Age
  <2>2. Stays(m) \/ Turns(m, "VERIFYING", "VERIFYING")
    BY <2>1 DEF OthersStay, Stays
  <2> QED BY <1>a, <1>b, <2>1, <2>2, RowTurned
<1>10. CASE Calm \/ UNCHANGED vars
  BY <1>1, <1>10 DEF Calm, vars, rows
<1> QED
  BY <1>1, <1>2, <1>3, <1>4, <1>5, <1>6, <1>7, <1>8, <1>9, <1>10 DEF Step, Next, TickStep

(***************************************************************************)
(* Tokens                                                                  *)
(***************************************************************************)
LEMMA LaunchStart ==
    ASSUME RepairInv, NEW w \in Worker, Launch(w)
    PROVE  /\ tick[w].pc = "launch" /\ tick[w].n \in Ordinal /\ tick[w].token \in Number
           /\ started[<<tick[w].n, tick[w].token>>] = 0
           /\ started'[<<tick[w].n, tick[w].token>>] = 1
           /\ \A n \in Ordinal, k \in Number :
                 n # tick[w].n \/ k # tick[w].token => started'[<<n, k>>] = started[<<n, k>>]
           /\ attempt' = attempt /\ report' = report /\ paid' = paid /\ run' = run
           /\ Goto(w, [tick[w] EXCEPT !.pc = "compare"])
<1>1. tick[w].n \in Ordinal /\ tick[w].token \in Number /\ tick[w].pc = "launch"
  BY Places DEF Launch, RepairInv, TypeOK
<1>2. started[<<tick[w].n, tick[w].token>>] = 0
  BY <1>1 DEF RepairInv, GoesBy
<1>3. <<tick[w].n, tick[w].token>> \in Token
  BY <1>1 DEF Token
<1>4. started' = [started EXCEPT ![<<tick[w].n, tick[w].token>>] = @ + 1]
  BY DEF Launch
<1>5. started'[<<tick[w].n, tick[w].token>>] = 1
  BY <1>2, <1>3, <1>4 DEF RepairInv, TypeOK
<1>6. ASSUME NEW n \in Ordinal, NEW k \in Number, n # tick[w].n \/ k # tick[w].token
      PROVE  started'[<<n, k>>] = started[<<n, k>>]
  <2>1. <<n, k>> # <<tick[w].n, tick[w].token>> /\ <<n, k>> \in Token
    BY <1>6 DEF Token
  <2> QED BY <1>4, <2>1 DEF RepairInv, TypeOK
<1> QED BY <1>1, <1>2, <1>5, <1>6 DEF Launch, rows

LEMMA OtherStarts ==
    ASSUME NEW w \in Worker,
           \/ TickStep(w) /\ ~Launch(w)
           \/ Fault(w)
    PROVE  started' = started
  BY DEF TickStep, Fault, Begin, CreateRun, Drift, Stale, MarkRun, Validate, AddAttempt, Generate, Answer,
         StorePatch, Claim, Compare, Interrupt, Recover, Verified, End, Refuse, VerificationRaises, Crash

LEMMA TokensStep == RepairInv /\ [Step]_vars => TokensAgree'
<1> SUFFICES ASSUME RepairInv, [Step]_vars, NEW n \in Ordinal, NEW k \in Number
             PROVE  /\ started'[<<n, k>>] <= 1
                    /\ started'[<<n, k>>] > 0 => k <= attempt'[n].claims
                    /\ report'[<<n, k>>] # "NONE" => k <= attempt'[n].claims
  BY DEF TokensAgree, Ordinal, Number
<1>1. /\ started[<<n, k>>] <= 1
      /\ started[<<n, k>>] > 0 => k <= attempt[n].claims
      /\ report[<<n, k>>] # "NONE" => k <= attempt[n].claims
  BY DEF RepairInv, TokensAgree
<1>2. attempt[n].claims \in Nat /\ attempt'[n].claims \in Nat /\ attempt[n].claims <= attempt'[n].claims
  <2>1. TypeOK /\ TypeOK'
    BY TypeStep DEF RepairInv
  <2>2. attempt[n] \in Attempt /\ attempt'[n] \in Attempt
    BY <2>1 DEF TypeOK, Ordinal, Attempt
  <2> QED BY <2>1, <2>2, GrownStep, RepairAssumption DEF Grown, Attempt
<1>3. k \in Nat
  BY RepairAssumption DEF Number
<1>4. started[<<n, k>>] > 0 \/ report[<<n, k>>] # "NONE" => k <= attempt'[n].claims
  BY <1>1, <1>2, <1>3
<1>5. CASE started' = started /\ report' = report
  BY <1>1, <1>4, <1>5
<1>6. ASSUME NEW w \in Worker, tick[w].n = n, tick[w].token = k, Owner(tick[w]) PROVE k <= attempt'[n].claims
  <2>1. k <= attempt[n].claims
    BY <1>6 DEF RepairInv, GoesBy
  <2> QED BY <1>2, <1>3, <2>1
<1>7. ASSUME NEW w \in Worker, Launch(w)
      PROVE  /\ started'[<<n, k>>] <= 1
             /\ started'[<<n, k>>] > 0 => k <= attempt'[n].claims
             /\ report'[<<n, k>>] # "NONE" => k <= attempt'[n].claims
  <2>1. CASE n = tick[w].n /\ k = tick[w].token
    <3>1. started'[<<n, k>>] = 1 /\ report' = report /\ tick[w].pc = "launch"
      BY <1>7, <2>1, LaunchStart
    <3>2. k <= attempt'[n].claims
      BY <1>6, <2>1, <3>1 DEF Owner
    <3> QED BY <3>1, <3>2
  <2>2. CASE n # tick[w].n \/ k # tick[w].token
    BY <1>1, <1>4, <1>7, <2>2, LaunchStart
  <2> QED BY <2>1, <2>2
<1>8. ASSUME NEW w \in Worker, Compare(w)
      PROVE  /\ started'[<<n, k>>] <= 1
             /\ started'[<<n, k>>] > 0 => k <= attempt'[n].claims
             /\ report'[<<n, k>>] # "NONE" => k <= attempt'[n].claims
  <2>0. started' = started /\ tick[w].pc = "compare"
    BY <1>8 DEF Compare
  <2>1. CASE n = tick[w].n /\ k = tick[w].token
    BY <1>1, <1>4, <1>6, <2>0, <2>1 DEF Owner
  <2>2. CASE n # tick[w].n \/ k # tick[w].token
    <3>1. report'[<<n, k>>] = report[<<n, k>>]
      BY <1>8, <2>2, CompareReport
    <3> QED BY <1>1, <1>4, <2>0, <3>1
  <2> QED BY <2>1, <2>2
<1>9. ASSUME NEW m \in Ordinal, Retry(m) \/ Age(m) PROVE started' = started /\ report' = report
  BY <1>9 DEF Retry, Age
<1>10. CASE Calm \/ UNCHANGED vars
  BY <1>5, <1>10 DEF Calm, vars, rows
<1>11. ASSUME NEW w \in Worker, TickStep(w) \/ Fault(w), ~Launch(w), ~Compare(w)
       PROVE  started' = started /\ report' = report
  BY <1>11, OtherStarts, OtherReports
<1> QED BY <1>5, <1>7, <1>8, <1>9, <1>10, <1>11 DEF Step, Next

(***************************************************************************)
(* The chain of attempts, and the end                                      *)
(***************************************************************************)
LEMMA AddedRow ==
    ASSUME RepairInv, [Step]_vars, NEW n \in Ordinal, attempt[n].state = "ABSENT", attempt'[n].state # "ABSENT"
    PROVE  (\A m \in 1 .. (n - 1) : Failed(m)) /\ Added(n)
<1>1. Added(n)
  BY GrownStep DEF RepairInv, AbsentStays
<1>2. PICK w \in Worker : tick[w].pc = "add" /\ tick[w].n = n
  BY <1>1 DEF Added
<1> QED BY <1>1, <1>2 DEF RepairInv, GoesBy

LEMMA ChainStep == RepairInv /\ [Step]_vars => Chain'
<1> SUFFICES ASSUME RepairInv, [Step]_vars PROVE Chain'
  OBVIOUS
<1>1. Grown
  BY GrownStep DEF RepairInv
<1>2. ASSUME NEW n \in Ordinal, attempt'[n].state # "ABSENT", NEW m \in 1 .. (n - 1) PROVE Failed(m)'
  <2>1. m \in Ordinal
    BY RepairAssumption DEF Ordinal
  <2>2. Failed(m)
    <3>1. CASE attempt[n].state # "ABSENT"
      BY <3>1 DEF RepairInv, Chain
    <3>2. CASE attempt[n].state = "ABSENT"
      BY <1>2, <3>2, AddedRow
    <3> QED BY <3>1, <3>2
  <2> QED BY <1>1, <2>1, <2>2, FailedStays
<1>3. PICK k \in 0 .. MaxAttempts : Existing = 1 .. k
  BY DEF RepairInv, Chain
<1>4. Existing \subseteq Existing'
  BY <1>1 DEF Existing, Grown, Ordinal
<1>5. ASSUME Existing' = Existing PROVE \E j \in 0 .. MaxAttempts : Existing' = 1 .. j
  BY <1>3, <1>5
<1>6. ASSUME Existing' # Existing PROVE \E j \in 0 .. MaxAttempts : Existing' = 1 .. j
  <2>1. PICK n \in Ordinal : attempt[n].state = "ABSENT" /\ attempt'[n].state # "ABSENT"
    BY <1>4, <1>6 DEF Existing, Ordinal
  <2>2. \A m \in Ordinal : attempt'[m].state # "ABSENT" => m \in 1 .. k \/ m = k + 1
    <3> SUFFICES ASSUME NEW m \in Ordinal, attempt'[m].state # "ABSENT", m \notin 1 .. k, m # k + 1
                 PROVE  FALSE
      OBVIOUS
    <3>1. attempt[m].state = "ABSENT"
      BY <1>3 DEF Existing
    <3>2. k + 1 \in 1 .. (m - 1) /\ k + 1 \in Ordinal
      BY RepairAssumption DEF Ordinal
    <3>3. Failed(k + 1)
      BY <3>1, <3>2, AddedRow
    <3>4. k + 1 \in Existing
      BY <3>2, <3>3 DEF Failed, Existing
    <3> QED BY <1>3, <3>4
  <2>3. n = k + 1
    BY <1>3, <2>1, <2>2 DEF Existing
  <2>4. Existing' = 1 .. (k + 1)
    BY <1>3, <1>4, <2>1, <2>2, <2>3, RepairAssumption DEF Existing, Ordinal
  <2>5. k + 1 \in 0 .. MaxAttempts
    BY <2>3 DEF Ordinal
  <2> QED BY <2>4, <2>5
<1>7. \E j \in 0 .. MaxAttempts : Existing' = 1 .. j
  BY <1>5, <1>6
<1> QED BY <1>2, <1>7 DEF Chain, Ordinal

LEMMA RunStep == RepairInv /\ [Step]_vars => (run \in RunEnd => Earned(run))'
<1> SUFFICES ASSUME RepairInv, [Step]_vars, run' \in RunEnd PROVE Earned(run)'
  OBVIOUS
<1>1. Grown /\ AbsentStays
  BY GrownStep DEF RepairInv
<1>2. CASE run' = run
  BY <1>1, <1>2, EarnedStays DEF RepairInv, Earned, EarnedBy
<1>3. ASSUME NEW w \in Worker, End(w), run' # run PROVE Earned(run)'
  <2>1. tick[w].pc = "end" /\ run' = tick[w].state
    BY <1>3 DEF End
  <2>2. Earned(tick[w].state)
    BY <2>1 DEF RepairInv, GoesBy
  <2> DEFINE s == tick[w].state
  <2>3. \A state : Earned(state) => Earned(state)'
    BY <1>1, EarnedStays
  <2> QED BY <2>1, <2>2, <2>3 DEF Earned, EarnedBy
<1>4. ASSUME NEW w \in Worker, CreateRun(w) \/ Drift(w) \/ Stale(w) PROVE run' = run \/ run' \notin RunEnd
  BY <1>4 DEF CreateRun, Drift, Stale, MarkRun, RunEnd
<1>5. ASSUME NEW w \in Worker, TickStep(w) \/ Fault(w), ~CreateRun(w), ~Drift(w), ~Stale(w), ~End(w)
      PROVE  run' = run
  BY <1>5 DEF TickStep, Fault, Begin, Validate, AddAttempt, Generate, Answer, StorePatch, Claim, Launch,
              Compare, Interrupt, Recover, Verified, Refuse, VerificationRaises, Crash, rows
<1>6. ASSUME NEW n \in Ordinal, Retry(n) \/ Age(n) PROVE run' = run
  BY <1>6 DEF Retry, Age
<1>7. CASE Calm \/ UNCHANGED vars
  BY <1>2, <1>7 DEF Calm, vars, rows
<1> QED BY <1>2, <1>3, <1>4, <1>5, <1>6, <1>7 DEF Step, Next

(***************************************************************************)
(* Ticks                                                                   *)
(***************************************************************************)
Moves(w) == \A v \in Worker \ {w} : tick'[v] = tick[v]

LEMMA OneMoves ==
    ASSUME TypeOK, NEW w \in Worker, TickStep(w) \/ Fault(w)
    PROVE  Moves(w)
<1>1. ASSUME NEW place, Goto(w, place) PROVE Moves(w)
  BY <1>1 DEF Goto, Moves, TypeOK
<1>2. \E place : Goto(w, place)
  BY DEF TickStep, Fault, Begin, CreateRun, Drift, Stale, MarkRun, Validate, AddAttempt, Generate, Answer,
         StorePatch, Claim, Launch, Compare, Interrupt, Recover, Verified, End, Refuse, VerificationRaises, Crash
<1> QED BY <1>1, <1>2

LEMMA Arrives ==
    ASSUME TypeOK, NEW w \in Worker, NEW place, Goto(w, place)
    PROVE  tick'[w] = place
  BY DEF Goto, TypeOK

(* A tick that claims is the first to hold its token.                      *)
LEMMA ClaimPlace ==
    ASSUME RepairInv, NEW w \in Worker, Claim(w), Claimable(tick[w].n)
    PROVE  /\ tick'[w].pc = "launch" /\ tick'[w].n = tick[w].n /\ tick[w].n \in Ordinal
           /\ tick'[w].token = attempt[tick[w].n].claims + 1
           /\ tick'[w].token \in Number
           /\ attempt'[tick[w].n].claims = attempt[tick[w].n].claims + 1
<1>1. tick[w].n \in Ordinal
  BY Places DEF Claim, RepairInv, TypeOK
<1>2. tick'[w] = [pc |-> "launch", n |-> tick[w].n, token |-> attempt[tick[w].n].claims + 1]
  BY Arrives DEF Claim, RepairInv
<1> QED BY <1>1, <1>2, ClaimRow DEF RepairInv

LEMMA FreePlace ==
    ASSUME NEW t, t.pc \in {"rest", "create", "drift", "stale", "validate", "claim", "recover", "interrupt"}
    PROVE  GoesBy(t) /\ GoesBy(t)' /\ ~Owner(t)
  BY DEF GoesBy, Owner

(* Most steps end at a place that goes by nothing, or that owns no token.  *)
LEMMA FreeSteps ==
    ASSUME TypeOK, NEW w \in Worker,
           \/ Begin(w) \/ CreateRun(w) \/ Drift(w) \/ Stale(w) \/ AddAttempt(w) \/ StorePatch(w)
           \/ Interrupt(w) \/ End(w) \/ Fault(w)
           \/ Claim(w) /\ ~Claimable(tick[w].n)
    PROVE  tick'[w].pc \in {"rest", "create", "drift", "validate", "interrupt"}
<1>1. ASSUME NEW place, Goto(w, place) PROVE tick'[w] = place
  BY <1>1, Arrives
<1> QED BY <1>1 DEF Begin, CreateRun, Drift, Stale, MarkRun, AddAttempt, StorePatch, Interrupt, End, Fault,
                   Refuse, Crash, VerificationRaises, Claim, Rest

LEMMA AttemptPlace ==
    ASSUME RepairInv
    PROVE  /\ GoesBy(ForAttempt(Latest))
           /\ ForAttempt(Latest).pc \in {"add", "generate", "claim", "recover", "end"}
<1>1. CASE Latest = 0
  <2>1. ForAttempt(Latest) = [pc |-> "add", n |-> 1]
    BY <1>1 DEF ForAttempt
  <2> QED BY <2>1 DEF GoesBy, Owner
<1>2. CASE Latest # 0
  <2>1. /\ Latest \in Ordinal /\ attempt[Latest].state # "ABSENT"
        /\ \A m \in Ordinal : m > Latest => attempt[m].state = "ABSENT"
    BY <1>2, LatestAttempt DEF RepairInv
  <2> DEFINE row == attempt[Latest]
  <2>2. row.state \in {"GENERATING", "GENERATED", "VERIFYING", "BLOCKED", "VERIFIED"}
    BY <2>1, RowValues DEF RepairInv, TypeOK
  <2>3. \A m \in 1 .. (Latest - 1) : Failed(m)
    BY <2>1 DEF RepairInv, Chain
  <2>4. CASE row.state = "VERIFIED" /\ row.outcome # "CANDIDATE_FAILED"
    <3>1. ForAttempt(Latest) = Ending(Conclusion(row.outcome))
      BY <1>2, <2>4 DEF ForAttempt, AfterVerdict
    <3>2. Conclusion(row.outcome) # "REPAIR_EXHAUSTED"
      BY Conclusions
    <3>3. EarnedBy(Latest, Conclusion(row.outcome))
      BY <2>1, <2>4, <3>2 DEF EarnedBy
    <3>4. Earned(Conclusion(row.outcome))
      BY <2>1, <3>3 DEF Earned
    <3> QED BY <3>1, <3>4 DEF Ending, GoesBy, Owner
  <2>5. CASE row.state = "VERIFIED" /\ row.outcome = "CANDIDATE_FAILED"
    <3>1. ForAttempt(Latest) = IF Latest < MaxAttempts THEN [pc |-> "add", n |-> Latest + 1]
                               ELSE Ending("REPAIR_EXHAUSTED")
      BY <1>2, <2>5 DEF ForAttempt, AfterVerdict
    <3>2. CASE Latest < MaxAttempts
      <4>1. ForAttempt(Latest).pc = "add" /\ ForAttempt(Latest).n = Latest + 1
        BY <3>1, <3>2
      <4>2. \A m \in 1 .. (ForAttempt(Latest).n - 1) : m \in 1 .. (Latest - 1) \/ m = Latest
        BY <2>1, <4>1, RepairAssumption DEF Ordinal
      <4>3. \A m \in 1 .. (ForAttempt(Latest).n - 1) : Failed(m)
        BY <2>3, <2>5, <4>2 DEF Failed
      <4> QED BY <4>1, <4>3 DEF GoesBy, Owner
    <3>3. CASE ~(Latest < MaxAttempts)
      <4>1. Latest = MaxAttempts
        BY <2>1, <3>3, RepairAssumption DEF Ordinal
      <4>2. EarnedBy(Latest, "REPAIR_EXHAUSTED")
        BY <2>1, <2>5, <4>1 DEF EarnedBy
      <4>3. Earned("REPAIR_EXHAUSTED")
        BY <2>1, <4>2 DEF Earned
      <4> QED BY <3>1, <3>3, <4>3 DEF Ending, GoesBy, Owner
    <3> QED BY <3>2, <3>3
  <2>6. CASE row.state \in {"BLOCKED", "VERIFYING"}
    <3>1. ForAttempt(Latest) = [pc |-> "recover", n |-> Latest, state |-> row.state,
                                token |-> row.token, old |-> row.old]
      BY <1>2, <2>6 DEF ForAttempt
    <3> QED BY <3>1 DEF GoesBy, Owner
  <2>7. CASE row.state = "GENERATING"
    <3>1. ForAttempt(Latest) = [pc |-> "generate", n |-> Latest]
      BY <1>2, <2>7 DEF ForAttempt
    <3> QED BY <2>1, <3>1 DEF GoesBy, Owner
  <2>8. CASE row.state = "GENERATED"
    <3>1. ForAttempt(Latest) = [pc |-> "claim", n |-> Latest]
      BY <1>2, <2>8 DEF ForAttempt
    <3> QED BY <3>1 DEF GoesBy, Owner
  <2> QED BY <2>2, <2>4, <2>5, <2>6, <2>7, <2>8
<1> QED BY <1>1, <1>2

(* What a tick goes by that does not move.                                 *)
LEMMA GoesByKept ==
    ASSUME RepairInv, TypeOK', Grown, AbsentStays, ReportStays, NEW v \in Worker, tick'[v] = tick[v],
           Owner(tick[v]) => /\ report'[<<tick[v].n, tick[v].token>>] = report[<<tick[v].n, tick[v].token>>]
                             /\ started'[<<tick[v].n, tick[v].token>>] = started[<<tick[v].n, tick[v].token>>]
    PROVE  GoesBy(tick[v])'
<1> DEFINE t == tick[v]
<1>0. t \in Tick /\ GoesBy(t)
  BY DEF RepairInv, TypeOK
<1>1. ASSUME Owner(t) PROVE t.token <= attempt'[t.n].claims
  <2>1. t.n \in Ordinal /\ t.token \in Number
    BY <1>0, <1>1, Places DEF Owner
  <2>2. t.token <= attempt[t.n].claims /\ attempt[t.n].claims <= attempt'[t.n].claims
    BY <1>0, <1>1, <2>1 DEF GoesBy, Grown
  <2>3. attempt[t.n] \in Attempt /\ attempt'[t.n] \in Attempt
    BY <2>1 DEF RepairInv, TypeOK, Ordinal, Attempt
  <2>4. attempt[t.n].claims \in Nat /\ attempt'[t.n].claims \in Nat /\ t.token \in Nat
    BY <2>1, <2>3, RepairAssumption DEF Attempt, Number
  <2> QED BY <2>2, <2>4
<1>2. ASSUME t.pc = "verified" PROVE report'[<<t.n, t.token>>] = t.outcome
  <2>1. t.n \in Ordinal /\ t.token \in Number /\ t.outcome \in Verdict
    BY <1>0, <1>2, Places
  <2>2. report[<<t.n, t.token>>] = t.outcome /\ t.outcome # "NONE"
    BY <1>0, <1>2, <2>1, NoVerdict DEF GoesBy
  <2> QED BY <2>1, <2>2 DEF ReportStays
<1>3. ASSUME t.pc = "add", NEW m \in 1 .. (t.n - 1) PROVE Failed(m)'
  <2>1. m \in Ordinal
    BY <1>0, <1>3, Places, RepairAssumption DEF Ordinal
  <2> QED BY <1>0, <1>3, <2>1, FailedStays DEF GoesBy
<1>4. t.pc = "generate" => attempt'[t.n].state # "ABSENT"
  BY <1>0, Places DEF GoesBy, Grown
<1>5. (t.pc = "patch" => paid'[t.n] = "SAVED") /\ (t.pc = "answer" => paid'[t.n] # "NONE")
  BY <1>0, Places DEF GoesBy, Grown
<1>6. ASSUME t.pc = "end" PROVE Earned(tick[v].state)'
  <2>1. Earned(t.state)
    BY <1>0, <1>6 DEF GoesBy
  <2>2. \A state : Earned(state) => Earned(state)'
    BY EarnedStays
  <2> QED BY <2>1, <2>2 DEF Earned, EarnedBy
<1>7. /\ Owner(t) => report'[<<t.n, t.token>>] = "NONE"
      /\ t.pc = "launch" => started'[<<t.n, t.token>>] = 0
  BY <1>0 DEF GoesBy, Owner
<1>8. tick'[v] = t
  OBVIOUS
<1>9. (\A m \in 1 .. (tick[v].n - 1) : Failed(m))' <=> \A m \in 1 .. (t.n - 1) : Failed(m)'
  BY <1>8
<1> HIDE DEF t
<1> QED BY <1>1, <1>2, <1>3, <1>4, <1>5, <1>6, <1>7, <1>8, <1>9 DEF GoesBy, Owner

LEMMA OwnerStep == RepairInv /\ [Step]_vars => OneOwner'
<1> SUFFICES ASSUME RepairInv, [Step]_vars PROVE OneOwner'
  OBVIOUS
<1>1. CASE tick' = tick
  BY <1>1 DEF RepairInv, OneOwner, Owner
<1>2. ASSUME NEW w \in Worker, Moves(w), ~Owner(tick'[w]) PROVE OneOwner'
  BY <1>2 DEF RepairInv, OneOwner, Owner, Moves
<1>3. ASSUME NEW w \in Worker, Moves(w), Owner(tick[w]),
             tick'[w].n = tick[w].n, tick'[w].token = tick[w].token
      PROVE  OneOwner'
  BY <1>3 DEF RepairInv, OneOwner, Owner, Moves
<1>4. ASSUME NEW w \in Worker, Claim(w), Claimable(tick[w].n) PROVE OneOwner'
  <2>1. Moves(w)
    BY <1>4, OneMoves DEF TickStep, RepairInv
  <2>2. /\ tick'[w].n = tick[w].n /\ tick[w].n \in Ordinal
        /\ tick'[w].token = attempt[tick[w].n].claims + 1
    BY <1>4, ClaimPlace
  <2>3. ASSUME NEW v \in Worker \ {w}, Owner(tick[v])
        PROVE  tick[v].n # tick'[w].n \/ tick[v].token # tick'[w].token
    <3>1. tick[v].n \in Ordinal /\ tick[v].token \in Number /\ tick[v].token <= attempt[tick[v].n].claims
      BY <2>3, Places DEF RepairInv, TypeOK, GoesBy, Owner
    <3>2. attempt[tick[v].n].claims \in Nat
      BY <3>1, ClaimsAreNumbers DEF RepairInv
    <3> QED BY <2>2, <3>1, <3>2, RepairAssumption DEF Number
  <2> QED BY <2>1, <2>3 DEF RepairInv, OneOwner, Owner, Moves
<1>5. ASSUME NEW w \in Worker, Launch(w) PROVE OneOwner'
  <2>1. Moves(w)
    BY <1>5, OneMoves DEF TickStep, RepairInv
  <2>2. tick'[w] = [tick[w] EXCEPT !.pc = "compare"] /\ tick[w].pc = "launch" /\ tick[w] \in Tick
    BY <1>5, Arrives DEF Launch, RepairInv, TypeOK
  <2>3. tick'[w].n = tick[w].n /\ tick'[w].token = tick[w].token
    BY <2>2 DEF Tick, Rest
  <2> QED BY <1>3, <2>1, <2>2, <2>3 DEF Owner
<1>6. ASSUME NEW w \in Worker,
             Validate(w) \/ Generate(w) \/ Answer(w) \/ Compare(w) \/ Recover(w) \/ Verified(w)
      PROVE  ~Owner(tick'[w])
  <2>1. ASSUME NEW place, Goto(w, place) PROVE tick'[w] = place
    BY <2>1, Arrives DEF RepairInv
  <2>2. CASE Validate(w)
    BY <2>1, <2>2, AttemptPlace DEF Validate, Rest, Owner
  <2>3. CASE Generate(w) \/ Answer(w) \/ Compare(w)
    <3>1. CASE Generate(w)
      <4>1. \E place \in {Rest, [pc |-> "answer", n |-> tick[w].n], [pc |-> "patch", n |-> tick[w].n]} :
               Goto(w, place)
        BY <3>1 DEF Generate
      <4> QED BY <2>1, <4>1 DEF Rest, Owner
    <3>2. CASE Answer(w)
      BY <2>1, <3>2 DEF Answer, Rest, Owner
    <3>3. CASE Compare(w)
      BY <2>1, <3>3 DEF Compare, Owner
    <3> QED BY <2>3, <3>1, <3>2, <3>3
  <2>4. CASE Recover(w) \/ Verified(w)
    BY <2>1, <2>4 DEF Recover, Verified, Rest, Ending, Owner
  <2> QED BY <1>6, <2>2, <2>3, <2>4
<1>7. ASSUME NEW w \in Worker,
             \/ Begin(w) \/ CreateRun(w) \/ Drift(w) \/ Stale(w) \/ AddAttempt(w) \/ StorePatch(w)
             \/ Interrupt(w) \/ End(w) \/ Fault(w)
             \/ Claim(w) /\ ~Claimable(tick[w].n)
      PROVE  ~Owner(tick'[w])
  BY <1>7, FreeSteps, FreePlace DEF RepairInv, Owner
<1>8. ASSUME NEW w \in Worker, TickStep(w) \/ Fault(w) PROVE OneOwner'
  <2>1. Moves(w)
    BY <1>8, OneMoves DEF RepairInv
  <2> QED BY <1>2, <1>4, <1>5, <1>6, <1>7, <1>8, <2>1 DEF TickStep
<1>9. ASSUME NEW n \in Ordinal, Retry(n) \/ Age(n) PROVE tick' = tick
  BY <1>9 DEF Retry, Age
<1>10. CASE Calm \/ UNCHANGED vars
  BY <1>1, <1>10 DEF Calm, vars
<1> QED BY <1>1, <1>8, <1>9, <1>10 DEF Step, Next

(* Where a tick has moved to, it goes by what is so after its step.        *)
LEMMA MoverGoesBy ==
    ASSUME RepairInv, [Step]_vars, NEW w \in Worker, TickStep(w) \/ Fault(w)
    PROVE  GoesBy(tick[w])'
<1>a. /\ TypeOK /\ TypeOK' /\ Grown /\ AbsentStays /\ ReportStays
      /\ tick[w] \in Tick /\ GoesBy(tick[w])
  BY TypeStep, GrownStep, ReportStep DEF RepairInv, TypeOK
<1>b. ASSUME NEW place, Goto(w, place) PROVE tick'[w] = place
  BY <1>a, <1>b, Arrives
<1>c. ASSUME tick'[w].pc \in {"rest", "create", "drift", "stale", "validate", "claim", "recover", "interrupt"}
      PROVE  GoesBy(tick[w])'
  BY <1>c DEF GoesBy, Owner
<1>1. CASE \/ Begin(w) \/ CreateRun(w) \/ Drift(w) \/ Stale(w) \/ AddAttempt(w) \/ StorePatch(w)
           \/ Interrupt(w) \/ End(w) \/ Fault(w)
           \/ Claim(w) /\ ~Claimable(tick[w].n)
  BY <1>1, <1>a, <1>c, FreeSteps
<1>2. CASE Validate(w)
  <2>1. UNCHANGED <<rows, started>> /\ tick'[w] \in {Rest, ForAttempt(Latest), [pc |-> "stale"]}
    BY <1>2, <1>b DEF Validate
  <2>2. CASE tick'[w] = ForAttempt(Latest)
    <3> DEFINE place == ForAttempt(Latest)
    <3>1. GoesBy(place)
      BY AttemptPlace
    <3> HIDE DEF place
    <3>2. tick'[w] = place
      BY <2>2 DEF place
    <3> QED BY <2>1, <3>1, <3>2 DEF GoesBy, Owner, Failed, Earned, EarnedBy, rows
  <2>3. CASE tick'[w] = Rest \/ tick'[w] = [pc |-> "stale"]
    BY <1>c, <2>3 DEF Rest
  <2> QED BY <2>1, <2>2, <2>3
<1>3. CASE Generate(w)
  <2>1. CASE paid[tick[w].n] = "SAVED"
    <3>1. tick'[w] = [pc |-> "patch", n |-> tick[w].n] /\ paid' = paid
      BY <1>3, <1>b, <2>1 DEF Generate
    <3> QED BY <2>1, <3>1 DEF GoesBy, Owner
  <2>2. CASE paid[tick[w].n] # "SAVED"
    <3>1. CASE paid[tick[w].n] = "NONE"
      <4>1. paid' = [paid EXCEPT ![tick[w].n] = "SENT"] /\ tick[w].n \in Ordinal
        BY <1>3, <1>a, <3>1, Places DEF Generate
      <4>2. tick'[w].pc = "answer" /\ tick'[w].n = tick[w].n
        BY <1>3, <1>b, <3>1 DEF Generate
      <4>3. paid'[tick[w].n] = "SENT"
        BY <1>a, <4>1 DEF TypeOK
      <4> QED BY <4>2, <4>3 DEF GoesBy, Owner
    <3>2. CASE paid[tick[w].n] # "NONE"
      <4>1. Goto(w, Rest)
        BY <1>3, <2>2, <3>2 DEF Generate
      <4>2. tick'[w].pc = "rest"
        BY <1>b, <4>1 DEF Rest
      <4> QED BY <1>c, <4>2
    <3> QED BY <3>1, <3>2
  <2> QED BY <2>1, <2>2
<1>4. CASE Answer(w)
  <2>1. tick[w].n \in Ordinal
    BY <1>4, <1>a, Places DEF Answer
  <2>2. CASE paid' = [paid EXCEPT ![tick[w].n] = "SAVED"] /\ Goto(w, [pc |-> "patch", n |-> tick[w].n])
    <3>1. tick'[w].pc = "patch" /\ tick'[w].n = tick[w].n /\ paid'[tick[w].n] = "SAVED"
      BY <1>a, <1>b, <2>1, <2>2 DEF TypeOK
    <3> QED BY <3>1 DEF GoesBy, Owner
  <2>3. CASE Goto(w, Rest)
    BY <1>b, <1>c, <2>3 DEF Rest
  <2> QED BY <1>4, <2>2, <2>3 DEF Answer
<1>5. CASE Claim(w) /\ Claimable(tick[w].n)
  <2> DEFINE n == tick[w].n  k == tick'[w].token
  <2>1. /\ tick'[w].pc = "launch" /\ tick'[w].n = n /\ n \in Ordinal /\ k \in Number
        /\ k = attempt[n].claims + 1 /\ attempt'[n].claims = attempt[n].claims + 1
    BY <1>5, ClaimPlace
  <2>2. attempt[n].claims \in Nat /\ started[<<n, k>>] \in Nat
    BY <1>a, <2>1, ClaimsAreNumbers DEF TypeOK, Token
  <2>3. /\ started[<<n, k>>] > 0 => k <= attempt[n].claims
        /\ report[<<n, k>>] # "NONE" => k <= attempt[n].claims
    BY <2>1 DEF RepairInv, TokensAgree
  <2>4. report[<<n, k>>] = "NONE" /\ started[<<n, k>>] = 0 /\ k <= attempt'[n].claims
    BY <2>1, <2>2, <2>3
  <2>5. report' = report /\ started' = started
    BY <1>5 DEF Claim
  <2> QED BY <2>1, <2>4, <2>5 DEF GoesBy, Owner
<1>6. CASE Launch(w)
  <2>1. /\ tick[w].pc = "launch" /\ attempt' = attempt /\ report' = report
        /\ tick'[w] = [tick[w] EXCEPT !.pc = "compare"]
    BY <1>6, <1>b, LaunchStart
  <2>2. tick'[w].pc = "compare" /\ tick'[w].n = tick[w].n /\ tick'[w].token = tick[w].token
    BY <1>a, <2>1 DEF Tick, Rest
  <2>3. tick[w].token <= attempt[tick[w].n].claims /\ report[<<tick[w].n, tick[w].token>>] = "NONE"
    BY <1>a, <2>1 DEF GoesBy, Owner
  <2> QED BY <2>1, <2>2, <2>3 DEF GoesBy, Owner
<1>7. CASE Compare(w)
  <2>1. PICK outcome \in Verdict :
            /\ report' = [report EXCEPT ![<<tick[w].n, tick[w].token>>] = outcome]
            /\ Goto(w, [pc |-> "verified", n |-> tick[w].n, token |-> tick[w].token,
                        outcome |-> outcome, launched |-> TRUE])
    BY <1>7, CompareReport
  <2>2. <<tick[w].n, tick[w].token>> \in Token
    BY <1>7, CompareReport DEF Token
  <2>3. report'[<<tick[w].n, tick[w].token>>] = outcome
    BY <1>a, <2>1, <2>2 DEF TypeOK
  <2>4. tick'[w] = [pc |-> "verified", n |-> tick[w].n, token |-> tick[w].token,
                    outcome |-> outcome, launched |-> TRUE]
    BY <1>b, <2>1
  <2> QED BY <2>3, <2>4 DEF GoesBy, Owner
<1>8. CASE Recover(w)
  <2>1. \/ tick'[w] = Rest
        \/ tick'[w] = [pc |-> "verified", n |-> tick[w].n, token |-> tick[w].token,
                       outcome |-> report[<<tick[w].n, tick[w].token>>], launched |-> FALSE]
    BY <1>8, <1>b DEF Recover
  <2>2. report' = report
    BY <1>8 DEF Recover
  <2>3. CASE tick'[w] = Rest
    BY <1>c, <2>3 DEF Rest
  <2> QED BY <2>1, <2>2, <2>3 DEF GoesBy, Owner
<1>9. CASE Verified(w)
  <2>0. PICK n \in Ordinal, outcome \in Verdict : n = tick[w].n /\ outcome = tick[w].outcome
    BY <1>9, <1>a, Places DEF Verified
  <2>1. CASE tick'[w] = Rest
    BY <1>c, <2>1 DEF Rest
  <2>2. CASE tick'[w] # Rest
    <3>1. /\ Turns(n, "VERIFYING", "VERIFIED")
          /\ attempt'[n].outcome = outcome
          /\ Goto(w, IF outcome = "CANDIDATE_FAILED" THEN Rest ELSE Ending(Conclusion(outcome)))
      <4>1. \/ tick' = [tick EXCEPT ![w] = Rest]
            \/ /\ Turns(n, "VERIFYING", "VERIFIED")
               /\ attempt'[n].outcome = outcome
               /\ Goto(w, IF outcome = "CANDIDATE_FAILED" THEN Rest ELSE Ending(Conclusion(outcome)))
        BY <1>9, <1>a, <2>0, VerifiedRow
      <4> QED BY <1>b, <2>2, <4>1 DEF Goto
    <3>2. outcome # "CANDIDATE_FAILED" /\ tick'[w] = Ending(Conclusion(outcome))
      BY <1>b, <2>2, <3>1
    <3>3. attempt'[n].state = "VERIFIED" /\ ~Failed(n)'
      BY <3>1, <3>2 DEF Turns, Failed
    <3>4. \A m \in Ordinal : attempt'[m].state # "ABSENT" => \A j \in 1 .. (m - 1) : Failed(j)'
      BY ChainStep DEF Chain, Ordinal
    <3>5. ASSUME NEW m \in Ordinal, m > n PROVE attempt'[m].state = "ABSENT"
      <4>1. n \in 1 .. (m - 1)
        BY <3>5, RepairAssumption DEF Ordinal
      <4> QED BY <3>3, <3>4, <4>1
    <3>6. Conclusion(outcome) # "REPAIR_EXHAUSTED"
      BY Conclusions
    <3>7. EarnedBy(n, Conclusion(outcome))'
      BY <3>1, <3>2, <3>3, <3>5, <3>6 DEF EarnedBy, Conclusion, Ordinal
    <3>8. Earned(Conclusion(outcome))'
      BY <3>7 DEF Earned, Ordinal
    <3>9. tick'[w].pc = "end" /\ tick'[w].state = Conclusion(outcome)
      BY <3>2 DEF Ending
    <3>10. Earned(tick[w].state)'
      BY <3>8, <3>9 DEF Earned, EarnedBy
    <3> QED BY <3>9, <3>10 DEF GoesBy, Owner
  <2> QED BY <2>1, <2>2
<1> QED BY <1>1, <1>2, <1>3, <1>4, <1>5, <1>6, <1>7, <1>8, <1>9 DEF TickStep

LEMMA GoesByStep == RepairInv /\ [Step]_vars => \A v \in Worker : GoesBy(tick[v])'
<1> SUFFICES ASSUME RepairInv, [Step]_vars, NEW v \in Worker PROVE GoesBy(tick[v])'
  OBVIOUS
<1>1. TypeOK /\ TypeOK' /\ Grown /\ AbsentStays /\ ReportStays
  BY TypeStep, GrownStep, ReportStep DEF RepairInv
<1>2. CASE tick' = tick /\ report' = report /\ started' = started
  BY <1>1, <1>2, GoesByKept
<1>3. ASSUME NEW w \in Worker, TickStep(w) \/ Fault(w) PROVE GoesBy(tick[v])'
  <2>1. CASE v = w
    BY <1>3, <2>1, MoverGoesBy
  <2>2. CASE v # w
    <3>1. tick'[v] = tick[v]
      BY <1>1, <1>3, <2>2, OneMoves DEF Moves
    <3>2. ASSUME Owner(tick[v])
          PROVE  /\ report'[<<tick[v].n, tick[v].token>>] = report[<<tick[v].n, tick[v].token>>]
                 /\ started'[<<tick[v].n, tick[v].token>>] = started[<<tick[v].n, tick[v].token>>]
      <4>1. tick[v].n \in Ordinal /\ tick[v].token \in Number
        BY <1>1, <3>2, Places DEF Owner, TypeOK
      <4>2. CASE Compare(w)
        <5>1. tick[v].n # tick[w].n \/ tick[v].token # tick[w].token
          BY <2>2, <3>2, <4>2 DEF Compare, Owner, RepairInv, OneOwner
        <5>2. started' = started
          BY <4>2 DEF Compare
        <5> QED BY <4>1, <4>2, <5>1, <5>2, CompareReport
      <4>3. CASE Launch(w)
        <5>1. tick[v].n # tick[w].n \/ tick[v].token # tick[w].token
          BY <2>2, <3>2, <4>3 DEF Launch, Owner, RepairInv, OneOwner
        <5> QED BY <4>1, <4>3, <5>1, LaunchStart
      <4>4. CASE ~Compare(w) /\ ~Launch(w)
        BY <1>3, <4>4, OtherReports, OtherStarts
      <4> QED BY <4>2, <4>3, <4>4
    <3> QED BY <1>1, <3>1, <3>2, GoesByKept
  <2> QED BY <2>1, <2>2
<1>4. ASSUME NEW n \in Ordinal, Retry(n) \/ Age(n) PROVE tick' = tick /\ report' = report /\ started' = started
  BY <1>4 DEF Retry, Age
<1>5. CASE Calm \/ UNCHANGED vars
  BY <1>2, <1>5 DEF Calm, vars, rows
<1> QED BY <1>2, <1>3, <1>4, <1>5 DEF Step, Next

(***************************************************************************)
(* The theorems                                                            *)
(***************************************************************************)
LEMMA InvInit == Init => RepairInv
<1> SUFFICES ASSUME Init PROVE RepairInv
  OBVIOUS
<1>1. TypeOK
  BY TypeInit
<1>2. \A n \in Ordinal : attempt[n].state = "ABSENT" /\ attempt[n].claims = 0 /\ retried[n] = 0
  BY DEF Init, NoAttempt
<1>3. RowsAgree
  BY <1>2 DEF RowsAgree, RowAgrees
<1>4. TokensAgree
  BY DEF Init, TokensAgree, Token
<1>5. Chain
  <2>1. Existing = {} /\ 0 \in 0 .. MaxAttempts /\ {} = 1 .. 0
    BY <1>2, RepairAssumption DEF Existing
  <2> QED BY <1>2, <2>1 DEF Chain
<1>6. run \notin RunEnd
  BY DEF Init, RunEnd
<1>7. \A w \in Worker : ~Owner(tick[w]) /\ GoesBy(tick[w])
  BY DEF Init, Rest, Owner, GoesBy
<1> QED BY <1>1, <1>3, <1>4, <1>5, <1>6, <1>7 DEF RepairInv, OneOwner

LEMMA InvStep == RepairInv /\ [Step]_vars => RepairInv'
<1> SUFFICES ASSUME RepairInv, [Step]_vars PROVE RepairInv'
  OBVIOUS
<1>1. TypeOK'
  BY TypeStep DEF RepairInv
<1>2. RowsAgree' /\ TokensAgree' /\ Chain' /\ (run \in RunEnd => Earned(run))'
  BY RowsStep, TokensStep, ChainStep, RunStep
<1>3. OneOwner' /\ \A w \in Worker : GoesBy(tick[w])'
  BY OwnerStep, GoesByStep
<1> QED BY <1>1, <1>2, <1>3 DEF RepairInv

(* The rows, the places of the ticks and what they go by agree, in every   *)
(* state that the repair can reach.                                        *)
THEOREM RepairInvariant == FairSpec => []RepairInv
<1>1. Next \/ Calm <=> Step
  BY DEF Step
<1> QED BY <1>1, InvInit, InvStep, PTL DEF FairSpec

(* Each token's containers are started at most once, and an attempt's at   *)
(* most once more than operators asked for: verification.py:100-138,       *)
(* repair.py:446-590.                                                      *)
THEOREM RelaunchIsAsked == FairSpec => []NoAutomaticRelaunch
<1>1. RepairInv => NoAutomaticRelaunch
  <2> SUFFICES ASSUME RepairInv, NEW n \in Ordinal
               PROVE  /\ \A token \in Number : started[<<n, token>>] <= 1
                      /\ Cardinality(Launches(n)) <= 1 + retried[n]
    BY DEF NoAutomaticRelaunch
  <2>1. \A token \in Number : started[<<n, token>>] <= 1
    BY DEF RepairInv, TokensAgree
  <2>2. Launches(n) \subseteq 1 .. attempt[n].claims
    <3>1. \A k \in Number : started[<<n, k>>] > 0 => k <= attempt[n].claims
      BY DEF RepairInv, TokensAgree
    <3>2. attempt[n].claims \in Nat
      BY ClaimsAreNumbers DEF RepairInv
    <3> QED BY <3>1, <3>2, RepairAssumption DEF Launches, Number
  <2>3. attempt[n].claims \in Nat /\ retried[n] \in Nat /\ attempt[n].claims <= retried[n] + 1
    <3>1. RowAgrees(n) /\ attempt[n].claims \in Nat /\ retried[n] \in Nat
      BY ClaimsAreNumbers DEF RepairInv, RowsAgree, TypeOK
    <3> QED BY <3>1 DEF RowAgrees
  <2>4. IsFiniteSet(1 .. attempt[n].claims) /\ Cardinality(1 .. attempt[n].claims) = attempt[n].claims
    <3>1. 1 \in Int /\ attempt[n].claims \in Int
      BY <2>3
    <3>2. /\ IsFiniteSet(1 .. attempt[n].claims)
          /\ Cardinality(1 .. attempt[n].claims) =
                IF 1 > attempt[n].claims THEN 0 ELSE attempt[n].claims - 1 + 1
      BY <3>1, FS_Interval
    <3>3. (IF 1 > attempt[n].claims THEN 0 ELSE attempt[n].claims - 1 + 1) = attempt[n].claims
      BY <2>3
    <3> QED BY <3>2, <3>3
  <2>5. /\ Cardinality(Launches(n)) \in Nat
        /\ Cardinality(Launches(n)) <= attempt[n].claims
    BY <2>2, <2>4, FS_Subset, FS_CardinalityType
  <2> QED BY <2>1, <2>3, <2>5
<1> QED BY <1>1, RepairInvariant, PTL

(* A run ends as its attempts did: repair.py:227-357.                      *)
THEOREM EndFollows == FairSpec => []EndIsEarned
<1>1. RepairInv => EndIsEarned
  <2> SUFFICES ASSUME RepairInv PROVE EndIsEarned
    OBVIOUS
  <2>1. ASSUME NEW n \in Ordinal, attempt[n].state = "VERIFIED"
        PROVE  attempt[n].token # 0 /\ report[<<n, attempt[n].token>>] = attempt[n].outcome
    <3>1. RowAgrees(n)
      BY DEF RepairInv, RowsAgree
    <3> QED BY <2>1, <3>1 DEF RowAgrees, Number
  <2>2. ASSUME NEW n \in Ordinal, n > 1, attempt[n].state # "ABSENT"
        PROVE  attempt[n - 1].state = "VERIFIED" /\ attempt[n - 1].outcome = "CANDIDATE_FAILED"
    <3>1. n - 1 \in 1 .. (n - 1)
      BY <2>2, RepairAssumption DEF Ordinal
    <3>2. Failed(n - 1)
      BY <2>2, <3>1 DEF RepairInv, Chain
    <3> QED BY <3>2 DEF Failed
  <2>3. ASSUME run \in RunEnd
        PROVE  /\ attempt[Latest].state = "VERIFIED"
               /\ run = IF attempt[Latest].outcome = "CANDIDATE_FAILED"
                        THEN "REPAIR_EXHAUSTED" ELSE Conclusion(attempt[Latest].outcome)
               /\ run = "REPAIR_EXHAUSTED" => Latest = MaxAttempts
    <3>1. PICK n \in Ordinal : EarnedBy(n, run)
      BY <2>3 DEF RepairInv, Earned
    <3>2. attempt[n].state # "ABSENT" /\ \A m \in Ordinal : m > n => attempt[m].state = "ABSENT"
      BY <3>1 DEF EarnedBy
    <3>3. Latest = n
      BY <3>2, LatestAttempt, RepairAssumption DEF RepairInv, Ordinal
    <3> QED BY <3>1, <3>3 DEF EarnedBy
  <2> QED BY <2>1, <2>2, <2>3 DEF EndIsEarned
<1> QED BY <1>1, RepairInvariant, PTL

(* Verdicts and ends stay, and nothing is paid for a run that has ended:   *)
(* repair.py:293-357 and 359-444.                                          *)
THEOREM StopIsForGood == FairSpec => StopsForGood
<1>1. ASSUME RepairInv, [Step]_vars, NEW n \in Ordinal, attempt[n].state = "VERIFIED"
      PROVE  attempt'[n] = attempt[n]
  BY <1>1, GrownStep DEF RepairInv, Grown
<1>2. ASSUME RepairInv, [Step]_vars, run \in Stopped
      PROVE  run' \in {run} \cup (Stopped \ RunEnd)
  <2>1. ASSUME NEW w \in Worker, Drift(w) \/ Stale(w) PROVE run' \in Stopped \ RunEnd
    BY <2>1 DEF Drift, Stale, MarkRun, Stopped, RunEnd
  <2>2. ASSUME NEW w \in Worker, TickStep(w) \/ Fault(w), ~Drift(w), ~Stale(w) PROVE run' = run
    BY <1>2, <2>2 DEF TickStep, Fault, Begin, CreateRun, Validate, AddAttempt, Generate, Answer, StorePatch,
          Claim, Launch, Compare, Interrupt, Recover, Verified, End, Refuse, VerificationRaises, Crash, rows,
          Stopped, RunEnd
  <2>3. ASSUME NEW n \in Ordinal, Retry(n) \/ Age(n) PROVE run' = run
    BY <2>3 DEF Retry, Age
  <2>4. CASE Calm \/ UNCHANGED vars
    BY <2>4 DEF Calm, vars, rows
  <2> QED BY <1>2, <2>1, <2>2, <2>3, <2>4 DEF Step, Next
<1>3. ASSUME RepairInv, [Step]_vars, run \in RunEnd, NEW n \in Ordinal, paid[n] = "NONE"
      PROVE  paid'[n] = "NONE"
  <2>1. PICK m \in Ordinal : EarnedBy(m, run)
    BY <1>3 DEF RepairInv, Earned
  <2>2. ASSUME NEW k \in Ordinal, attempt[k].state # "ABSENT" PROVE attempt[k].state = "VERIFIED"
    <3>1. ~(k > m)
      BY <2>1, <2>2 DEF EarnedBy
    <3>2. k = m \/ k \in 1 .. (m - 1)
      BY <3>1, RepairAssumption DEF Ordinal
    <3>3. \A j \in 1 .. (m - 1) : Failed(j)
      BY <1>3, <2>1 DEF EarnedBy, RepairInv, Chain
    <3> QED BY <2>1, <3>2, <3>3 DEF EarnedBy, Failed
  <2>3. ASSUME NEW k \in Ordinal, attempt[k].state # "ABSENT" PROVE paid[k] = "SAVED"
    <3>1. RowAgrees(k) /\ attempt[k].state = "VERIFIED"
      BY <1>3, <2>2, <2>3 DEF RepairInv, RowsAgree
    <3> QED BY <3>1 DEF RowAgrees
  <2>4. ASSUME NEW w \in Worker, Generate(w) PROVE paid' = paid
    <3>1. tick[w].pc = "generate" /\ tick[w].n \in Ordinal
      BY <1>3, <2>4, Places DEF Generate, RepairInv, TypeOK
    <3>2. attempt[tick[w].n].state # "ABSENT"
      BY <3>1, <1>3 DEF RepairInv, GoesBy
    <3>3. paid[tick[w].n] = "SAVED"
      BY <2>3, <3>1, <3>2
    <3> QED BY <2>4, <3>3 DEF Generate
  <2>5. ASSUME NEW w \in Worker, Answer(w) PROVE paid'[n] = paid[n]
    <3>1. tick[w].pc = "answer" /\ tick[w].n \in Ordinal
      BY <1>3, <2>5, Places DEF Answer, RepairInv, TypeOK
    <3>2. paid[tick[w].n] # "NONE"
      BY <1>3, <3>1 DEF RepairInv, GoesBy
    <3>3. n # tick[w].n
      BY <1>3, <3>2
    <3> QED BY <1>3, <2>5, <3>3 DEF Answer, RepairInv, TypeOK
  <2>6. ASSUME NEW w \in Worker, TickStep(w) \/ Fault(w), ~Generate(w), ~Answer(w) PROVE paid' = paid
    BY <2>6 DEF TickStep, Fault, Begin, CreateRun, Drift, Stale, MarkRun, Validate, AddAttempt, StorePatch,
          Claim, Launch, Compare, Interrupt, Recover, Verified, End, Refuse, VerificationRaises, Crash, rows
  <2>7. ASSUME NEW k \in Ordinal, Retry(k) \/ Age(k) PROVE paid' = paid
    BY <2>7 DEF Retry, Age
  <2>8. CASE Calm \/ UNCHANGED vars
    BY <1>3, <2>8 DEF Calm, vars, rows
  <2> QED BY <1>3, <2>4, <2>5, <2>6, <2>7, <2>8 DEF Step, Next
<1>4. RepairInv /\ [Step]_vars =>
          [/\ \A n \in Ordinal : attempt[n].state = "VERIFIED" => attempt'[n] = attempt[n]
           /\ run \in Stopped => run' \in {run} \cup (Stopped \ RunEnd)
           /\ run \in RunEnd => \A n \in Ordinal : paid[n] = "NONE" => paid'[n] = "NONE"]_vars
  BY <1>1, <1>2, <1>3
<1>5. Next \/ Calm <=> Step
  BY DEF Step
<1> QED BY <1>4, <1>5, RepairInvariant, PTL DEF FairSpec, StopsForGood

===============================================================================
