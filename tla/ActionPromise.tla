---------------------------- MODULE ActionPromise ----------------------------
(***************************************************************************)
(* What a task's action ledger promises to whoever reads it, without       *)
(* threads, lost answers, approvals or polling: an action has an effect    *)
(* only after it was claimed and before it was judged; a verdict is true   *)
(* of the outside world, is given once, and forecloses a later effect; the *)
(* task's result is given once, when every claimed action was judged.      *)
(***************************************************************************)
CONSTANT Op

VARIABLES claimed, effect, verdict, result

vars == <<claimed, effect, verdict, result>>

Init ==
    /\ claimed = {}
    /\ effect = {}
    /\ verdict = [o \in Op |-> "NONE"]
    /\ result = "NONE"

Undecided(o) == result = "NONE" /\ o \in claimed /\ verdict[o] = "NONE"

Claim(o) ==
    /\ result = "NONE"
    /\ o \notin claimed
    /\ claimed' = claimed \cup {o}
    /\ UNCHANGED <<effect, verdict, result>>

Commit(o) ==
    /\ Undecided(o)
    /\ o \notin effect
    /\ effect' = effect \cup {o}
    /\ UNCHANGED <<claimed, verdict, result>>

Judge(o, v) ==
    /\ Undecided(o)
    /\ v = IF o \in effect THEN "SUCCEEDED" ELSE "FAILED"
    /\ verdict' = [verdict EXCEPT ![o] = v]
    /\ UNCHANGED <<claimed, effect, result>>

End(r) ==
    /\ result = "NONE"
    /\ \A o \in claimed : verdict[o] # "NONE"
    /\ r = "SUCCESS" => claimed \subseteq effect
    /\ r = "FAILED" => \E o \in claimed : o \notin effect
    /\ result' = r
    /\ UNCHANGED <<claimed, effect, verdict>>

Next ==
    \/ \E o \in Op : \/ Claim(o)
                     \/ Commit(o)
                     \/ \E v \in {"SUCCEEDED", "FAILED"} : Judge(o, v)
    \/ \E r \in {"SUCCESS", "FAILED", "CANCELLED"} : End(r)

Spec == Init /\ [][Next]_vars
=============================================================================
