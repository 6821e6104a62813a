---------------------------- MODULE ReconcileRound ----------------------------
(***************************************************************************)
(* The two stages of a dispatcher's round that look after operations whose *)
(* outcome is not known: reconcile_once (runtime.py), which pages through  *)
(* a tenant's unresolved operations behind a cursor kept in memory, and    *)
(* consume (webhooks.py), which follows the connector's notices.  What a   *)
(* reconciliation does to its operation step by step is in ActionLedger;   *)
(* here it is one step that settles the operation or leaves it, and the    *)
(* question is which operations and notices ever get one.                  *)
(***************************************************************************)
EXTENDS Naturals, FiniteSets, FiniteSetsExt, SequencesExt

CONSTANTS
    Operation,   \* operation identities, in the order of the database
    Notice,      \* event identities that the connector signs
    Dispatcher,
    Page,        \* operations that reconcile_once reads at once (100)
    NoticePage,  \* notices that consume reads at once (100)
    MaxCrashes   \* how often each dispatcher dies; its cursor dies with it

ASSUME RoundAssumption ==
    /\ Operation \subseteq Nat \ {0} /\ IsFiniteSet(Operation)
    /\ Page \in Nat \ {0} /\ NoticePage \in Nat \ {0}
    /\ MaxCrashes \in Nat

VARIABLES
    op,      \* the status of each operation
    inbox,   \* the Inbox rows
    cursor,  \* service.reconcile_cursors of each process; 0 is ""
    round,   \* where each dispatcher is
    crashes

vars == <<op, inbox, cursor, round, crashes>>

Missing == [processed |-> FALSE, about |-> 0]
Rest == [pc |-> "rest"]
Stage(pc) == [pc |-> pc]
Polling(pc, rows) == [pc |-> pc, rows |-> rows]
Following(pc, left) == [pc |-> pc, left |-> left]

TypeOK ==
    /\ op \in [Operation -> {"ABSENT", "UNRESOLVED", "SETTLED"}]
    /\ inbox \in [Notice -> {Missing} \cup [processed : BOOLEAN, about : Operation]]
    /\ cursor \in [Dispatcher -> Operation \cup {0}]
    /\ \A d \in Dispatcher :
         \/ round[d] \in {Rest, Stage("inbox")}
         \/ round[d].pc \in {"polling", "polled"} /\ round[d].rows \in Seq(Operation)
         \/ round[d].pc = "following" /\ round[d].left \subseteq Notice
         \/ round[d].pc = "followed" /\ round[d].left \subseteq Notice /\ round[d].notice \in Notice
    /\ crashes \in [Dispatcher -> 0..MaxCrashes]

Init ==
    /\ op = [o \in Operation |-> "ABSENT"]
    /\ inbox = [n \in Notice |-> Missing]
    /\ cursor = [d \in Dispatcher |-> 0]
    /\ round = [d \in Dispatcher |-> Rest]
    /\ crashes = [d \in Dispatcher |-> 0]

(***************************************************************************)
(* Operations come and are settled by the threads that dispatch them; the  *)
(* connector's notices arrive, before their operation or again and again.  *)
(***************************************************************************)
Arise(o) ==
    /\ op[o] = "ABSENT"
    /\ op' = [op EXCEPT ![o] = "UNRESOLVED"]
    /\ UNCHANGED <<inbox, cursor, round, crashes>>

Settle(o) ==
    /\ op[o] = "UNRESOLVED"
    /\ op' = [op EXCEPT ![o] = "SETTLED"]
    /\ UNCHANGED <<inbox, cursor, round, crashes>>

(* An identity that is there is not stored again: the same payload gets    *)
(* the same answer, another one is refused as a conflict.                  *)
Receive(n, o) ==
    /\ inbox[n] = Missing
    /\ inbox' = [inbox EXCEPT ![n] = [processed |-> FALSE, about |-> o]]
    /\ UNCHANGED <<op, cursor, round, crashes>>

(***************************************************************************)
(* reconcile_once.                                                         *)
(***************************************************************************)
Goto(d, state) == round' = [round EXCEPT ![d] = state]
Unresolved == {o \in Operation : op[o] = "UNRESOLVED"}
SomeOf(S, n) == {T \in SUBSET S : Cardinality(T) = IF Cardinality(S) < n THEN Cardinality(S) ELSE n}

(* Faulty: the page is in no order.                                        *)
AnyPage(S) == {SetToSeq(T) : T \in SomeOf(S, Page)}
PageOf(S) ==
    {SetToSortSeq(T, <) : T \in {T \in SomeOf(S, Page) : \A o \in T, u \in S \ T : o < u}}

(* Behind the cursor, or from the start again when nothing is behind it.   *)
Candidates(d) ==
    LET behind == {o \in Unresolved : o > cursor[d]}
    IN  IF behind = {} THEN Unresolved ELSE behind

FetchPage(d) ==
    /\ round[d] = Rest
    /\ \E rows \in PageOf(Candidates(d)) :
         /\ cursor' = [cursor EXCEPT ![d] = IF rows = <<>> THEN 0 ELSE Last(rows)]
         /\ Goto(d, IF rows = <<>> THEN Stage("inbox") ELSE Polling("polling", rows))
    /\ UNCHANGED <<op, inbox, crashes>>

Polls(d, o) == round[d].pc = "polling" /\ Head(round[d].rows) = o

(* The authority's answer settles the operation or is uncertain; an        *)
(* exception is logged and changes nothing.                                *)
Poll(d, o) ==
    /\ Polls(d, o)
    /\ op' \in {op, [op EXCEPT ![o] = "SETTLED"]}
    /\ Goto(d, Polling("polled", round[d].rows))
    /\ UNCHANGED <<inbox, cursor, crashes>>

(* Then comes escalate_uncertain, whose exception ends the stage.          *)
Escalate(d, o) ==
    /\ round[d].pc = "polled" /\ Head(round[d].rows) = o
    /\ Goto(d, IF Len(round[d].rows) = 1 THEN Stage("inbox") ELSE Polling("polling", Tail(round[d].rows)))
    /\ UNCHANGED <<op, inbox, cursor, crashes>>

EscalateRaises(d) ==
    /\ round[d].pc = "polled"
    /\ Goto(d, Stage("inbox"))
    /\ UNCHANGED <<op, inbox, cursor, crashes>>

(***************************************************************************)
(* consume.                                                                *)
(***************************************************************************)
(* Faulty: the limit comes before the filter.                              *)
Received == {n \in Notice : inbox[n] # Missing}
Waiting == {n \in Notice : inbox[n] # Missing /\ ~inbox[n].processed}

(* Up to a page of them, in whatever order the database returns.           *)
FetchNotices(d) ==
    /\ round[d] = Stage("inbox")
    /\ \E left \in SomeOf(Waiting, NoticePage) : Goto(d, IF left = {} THEN Rest ELSE Following("following", left))
    /\ UNCHANGED <<op, inbox, cursor, crashes>>

(* A notice of an operation that is unknown or settled asks nobody.        *)
Follow(d, n) ==
    /\ round[d].pc = "following" /\ n \in round[d].left
    /\ LET o == inbox[n].about
       IN  op' \in IF o \in Unresolved THEN {op, [op EXCEPT ![o] = "SETTLED"]} ELSE {op}
    /\ Goto(d, [pc |-> "followed", left |-> round[d].left, notice |-> n])
    /\ UNCHANGED <<inbox, cursor, crashes>>

(* reconcile raises: the notices behind this one wait for another round.   *)
FollowRaises(d) ==
    /\ round[d].pc = "following"
    /\ \E n \in round[d].left : inbox[n].about \in Unresolved
    /\ Goto(d, Rest)
    /\ UNCHANGED <<op, inbox, cursor, crashes>>

MarkProcessed(d, n) ==
    /\ round[d].pc = "followed" /\ round[d].notice = n
    /\ inbox' = [inbox EXCEPT ![n].processed = TRUE]
    /\ LET left == round[d].left \ {n}
       IN  Goto(d, IF left = {} THEN Rest ELSE Following("following", left))
    /\ UNCHANGED <<op, cursor, crashes>>

Crash(d) ==
    /\ crashes[d] < MaxCrashes
    /\ crashes' = [crashes EXCEPT ![d] = @ + 1]
    /\ cursor' = [cursor EXCEPT ![d] = 0]
    /\ Goto(d, Rest)
    /\ UNCHANGED <<op, inbox>>

(***************************************************************************)
(* The specification.                                                      *)
(***************************************************************************)
RoundStep(d) ==
    \/ FetchPage(d) \/ EscalateRaises(d) \/ FetchNotices(d) \/ FollowRaises(d)
    \/ \E o \in Operation : Poll(d, o) \/ Escalate(d, o)
    \/ \E n \in Notice : Follow(d, n) \/ MarkProcessed(d, n)

Next ==
    \/ \E o \in Operation : Arise(o) \/ Settle(o)
    \/ \E n \in Notice, o \in Operation : Receive(n, o)
    \/ \E d \in Dispatcher : RoundStep(d) \/ Crash(d)

Spec == Init /\ [][Next]_vars

(* serve_dispatcher goes round for ever.  The exceptions of escalation and *)
(* of a notice's reconciliation come and go: none of them meets every      *)
(* attempt of one operation or notice.                                     *)
Fairness ==
    \A d \in Dispatcher :
        /\ WF_vars(RoundStep(d))
        /\ \A o \in Operation : SF_vars(Escalate(d, o))
        /\ \A n \in Notice : SF_vars(Follow(d, n))

FairSpec == Spec /\ Fairness

(***************************************************************************)
(* Properties.                                                             *)
(***************************************************************************)

(* The cursor forgets nobody: an operation is polled again and again until *)
(* it is settled, though others come and go on both sides of the cursor    *)
(* and a page may be cut short (runtime.py:186-202).                       *)
EveryOperationIsPolled ==
    \A o \in Operation : []<>(op[o] # "UNRESOLVED" \/ \E d \in Dispatcher : Polls(d, o))

(* Each notice is followed at last, past failing reconciliations and dead  *)
(* dispatchers, and whatever the order in which the rows come back         *)
(* (webhooks.py:75-95).                                                    *)
EveryNoticeIsFollowed ==
    \A n \in Notice : inbox[n] # Missing ~> inbox[n].processed
=============================================================================
