--------------------------- MODULE InferenceLedger ---------------------------
(***************************************************************************)
(* Paid model calls of one tenant (AnthropicGateway._generate over the     *)
(* Service's reserve, bind_inference, claim_inference and settle): the     *)
(* reservation of each call, what the tasks and the days have spent and    *)
(* reserved, the provider, and the threads in between.                     *)
(*                                                                         *)
(* Each of the four is one transaction; reserve locks the task, claim and  *)
(* settle the reservation, and all take reservation, task and day in this  *)
(* order.  A thread may die after any of them.  reserve's caller handles   *)
(* an IntegrityError of a competing insert, which the task's lock excludes *)
(* on PostgreSQL.  A request is what its digest stands for.                *)
(***************************************************************************)
EXTENDS Naturals, FiniteSets, Functions

CONSTANTS
    Task,
    Call,         \* call keys, each of one task
    TaskOf,       \* the task of a call
    Request,      \* payloads a tick may build for a call
    Maximum,      \* what a request may cost by its size and max_tokens
    Charge,       \* what the provider may charge for a request
    Decision,     \* valid decisions a model may answer
    None,         \* no digest, no decision
    Thread,       \* the ticks that may be in _generate at a time
    TaskBudget,   \* contract.budget_micro_usd
    DayBudget,    \* settings.daily_budget_micro_usd
    LastDay       \* bound: days are 0..LastDay

ASSUME InferenceAssumption ==
    /\ IsFiniteSet(Call)
    /\ TaskOf \in [Call -> Task]
    /\ Maximum \in [Request -> Nat \ {0}]
    /\ Charge \subseteq Nat
    /\ None \notin Request /\ None \notin Decision
    /\ TaskBudget \in Nat /\ DayBudget \in Nat /\ LastDay \in Nat

VARIABLES
    executable,   \* the tasks that pass _executable
    today,
    reservation,  \* the Reservation rows; maximum 0 is no row yet
    spent,        \* Task.spent
    reserved,     \* Task.reserved
    day,          \* the DailyBudget rows
    provider,     \* requests received, and money charged, for each call
    thread        \* where each thread is in _generate

vars == <<executable, today, reservation, spent, reserved, day, provider, thread>>

Day == 0..LastDay
NoRow == [maximum |-> 0, day |-> 0, request |-> None, dispatched |-> FALSE,
          settled |-> FALSE, actual |-> 0, decision |-> None]
Idle == [pc |-> "idle"]
At(pc, c, q) == [pc |-> pc, call |-> c, request |-> q]
Holding(pc, c, q, actual, d) ==
    [pc |-> pc, call |-> c, request |-> q, actual |-> actual, decision |-> d]

Reservation == [maximum : Nat, day : Day, request : Request \cup {None}, dispatched : BOOLEAN,
                settled : BOOLEAN, actual : Nat, decision : Decision \cup {None}]
Generation == {Idle} \cup [pc : {"bind", "claim", "send"}, call : Call, request : Request]
                     \cup [pc : {"settle", "returned"}, call : Call, request : Request,
                           actual : Nat, decision : Decision \cup {None}]

TypeOK ==
    /\ executable \subseteq Task
    /\ today \in Day
    /\ reservation \in [Call -> Reservation]
    /\ spent \in [Task -> Nat] /\ reserved \in [Task -> Nat]
    /\ day \in [Day -> [spent : Nat, reserved : Nat]]
    /\ provider \in [Call -> [requests : Nat, charged : Nat]]
    /\ thread \in [Thread -> Generation]

Init ==
    /\ executable = Task
    /\ today = 0
    /\ reservation = [c \in Call |-> NoRow]
    /\ spent = [t \in Task |-> 0] /\ reserved = [t \in Task |-> 0]
    /\ day = [d \in Day |-> [spent |-> 0, reserved |-> 0]]
    /\ provider = [c \in Call |-> [requests |-> 0, charged |-> 0]]
    /\ thread = [w \in Thread |-> Idle]

Goto(w, where) == thread' = [thread EXCEPT ![w] = where]

(***************************************************************************)
(* reserve: an old reservation of the same size, or a new one that fits    *)
(* both budgets.                                                           *)
(***************************************************************************)
FitsDay(amount) == day[today].spent + day[today].reserved + amount <= DayBudget
FitsTask(t, amount) == spent[t] + reserved[t] + amount <= TaskBudget

NewReservation(c, amount) ==
    /\ FitsDay(amount) /\ FitsTask(TaskOf[c], amount)
    /\ reservation' = [reservation EXCEPT ![c].maximum = amount, ![c].day = today]
    /\ day' = [day EXCEPT ![today].reserved = @ + amount]
    /\ reserved' = [reserved EXCEPT ![TaskOf[c]] = @ + amount]

Reserve(w, c, q) ==
    /\ thread[w] = Idle
    /\ TaskOf[c] \in executable
    /\ \/ reservation[c].maximum = Maximum[q] /\ UNCHANGED <<reservation, day, reserved>>
       \/ reservation[c].maximum = 0 /\ NewReservation(c, Maximum[q])
    /\ Goto(w, At("bind", c, q))
    /\ UNCHANGED <<executable, today, spent, provider>>

(***************************************************************************)
(* bind_inference: the first request that comes is the call's request for  *)
(* good.  What the row shows then decides how the caller goes on.          *)
(***************************************************************************)
RequestAfter(c, q) ==
    IF reservation[c].request = None /\ ~reservation[c].dispatched THEN q ELSE reservation[c].request

(* Faulty: the saved decision is returned for whatever was asked.          *)
(* ("Faulty" marks a definition that is no part of Spec: a plausible bug   *)
(* in the one below it.)                                                   *)
AfterBindAny(c, q) ==
    IF reservation[c].decision # None
      THEN Holding("returned", c, q, reservation[c].actual, reservation[c].decision)
    ELSE IF RequestAfter(c, q) # q \/ reservation[c].settled THEN Idle
    ELSE At("claim", c, q)

AfterBind(c, q) ==
    IF RequestAfter(c, q) = q /\ reservation[c].decision # None
      THEN Holding("returned", c, q, reservation[c].actual, reservation[c].decision)
    ELSE IF RequestAfter(c, q) # q \/ reservation[c].settled THEN Idle
    ELSE At("claim", c, q)

Bind(w) ==
    /\ thread[w].pc = "bind"
    /\ LET c == thread[w].call
           q == thread[w].request
       IN  /\ reservation' = [reservation EXCEPT ![c].request = RequestAfter(c, q)]
           /\ Goto(w, AfterBind(c, q))
    /\ UNCHANGED <<executable, today, spent, reserved, day, provider>>

(***************************************************************************)
(* claim_inference, the request, and settle in its `finally`.              *)
(***************************************************************************)
(* Faulty: a call that was sent but not settled is sent again.             *)
ClaimableUntilSettled(c) == ~reservation[c].settled
Claimable(c) == ~reservation[c].dispatched /\ ~reservation[c].settled

Claim(w) ==
    /\ thread[w].pc = "claim"
    /\ LET c == thread[w].call
       IN  \/ /\ TaskOf[c] \in executable /\ Claimable(c)
              /\ reservation' = [reservation EXCEPT ![c].dispatched = TRUE]
              /\ Goto(w, At("send", c, thread[w].request))
           \/ /\ TaskOf[c] \notin executable \/ ~Claimable(c)
              /\ Goto(w, Idle) /\ UNCHANGED reservation
    /\ UNCHANGED <<executable, today, spent, reserved, day, provider>>

(* Faulty: what is not known to have cost anything cost nothing.           *)
UnknownCostsNothing(q) == 0
(* `actual, decision = maximum, None` until the answer's usage was read.   *)
UnknownCosts(q) == Maximum[q]

(* The provider charges and its answer is a decision, an answer without a  *)
(* valid one, or unusable or lost; or the request does not arrive.         *)
Send(w) ==
    /\ thread[w].pc = "send"
    /\ LET c == thread[w].call
           q == thread[w].request
       IN  \/ \E charge \in Charge :
                /\ provider' = [provider EXCEPT ![c] = [requests |-> @.requests + 1,
                                                        charged |-> @.charged + charge]]
                /\ \/ \E d \in Decision \cup {None} : Goto(w, Holding("settle", c, q, charge, d))
                   \/ Goto(w, Holding("settle", c, q, UnknownCosts(q), None))
           \/ /\ Goto(w, Holding("settle", c, q, UnknownCosts(q), None))
              /\ UNCHANGED provider
    /\ UNCHANGED <<executable, today, reservation, spent, reserved, day>>

(* Faulty: the money is booked on the day it is settled.                   *)
BookedToday(c) == today
BookedOn(c) == reservation[c].day

(* The exception that left no decision, or settle's conflict, goes on.     *)
Settle(w) ==
    /\ thread[w].pc = "settle"
    /\ LET c == thread[w].call
           t == TaskOf[c]
           h == thread[w]
       IN  \/ /\ ~reservation[c].settled
              /\ reservation' = [reservation EXCEPT ![c] =
                   [@ EXCEPT !.settled = TRUE, !.actual = h.actual, !.decision = h.decision]]
              /\ reserved' = [reserved EXCEPT ![t] = @ - reservation[c].maximum]
              /\ spent' = [spent EXCEPT ![t] = @ + h.actual]
              /\ day' = [day EXCEPT ![BookedOn(c)] =
                   [spent |-> @.spent + h.actual, reserved |-> @.reserved - reservation[c].maximum]]
              /\ Goto(w, IF h.decision = None THEN Idle ELSE [h EXCEPT !.pc = "returned"])
           \/ /\ reservation[c].settled
              /\ Goto(w, IF h.decision = None \/ reservation[c].actual # h.actual
                           THEN Idle ELSE [h EXCEPT !.pc = "returned"])
              /\ UNCHANGED <<reservation, reserved, spent, day>>
    /\ UNCHANGED <<executable, today, provider>>

(* The caller is done with the decision, or its process dies.              *)
Leave(w) ==
    /\ thread[w] # Idle
    /\ Goto(w, Idle)
    /\ UNCHANGED <<executable, today, reservation, spent, reserved, day, provider>>

(* Tasks are stopped and resumed, releases and grants change; days pass.   *)
Environment ==
    /\ \/ executable' \in SUBSET Task /\ UNCHANGED today
       \/ today < LastDay /\ today' = today + 1 /\ UNCHANGED executable
    /\ UNCHANGED <<reservation, spent, reserved, day, provider, thread>>

Next ==
    \/ \E w \in Thread :
         \/ \E c \in Call, q \in Request : Reserve(w, c, q)
         \/ Bind(w) \/ Claim(w) \/ Send(w) \/ Settle(w) \/ Leave(w)
    \/ Environment

Spec == Init /\ [][Next]_vars

(***************************************************************************)
(* Properties.                                                             *)
(***************************************************************************)

(* A call is paid for once: however many ticks build it, before or after   *)
(* a crash or a lost answer, the provider receives at most one request for *)
(* it (claim_inference's compare-and-swap, service.py:680-698).            *)
OnePaidRequest == \A c \in Call : provider[c].requests <= 1

(* A decision that a tick goes on with is the one that was saved with the  *)
(* call's cost, and answers the very request the tick asked.               *)
ReturnedIsSaved ==
    \A w \in Thread : thread[w].pc = "returned" =>
        LET row == reservation[thread[w].call]
        IN  /\ row.settled /\ row.decision = thread[w].decision
            /\ row.request = thread[w].request /\ row.actual = thread[w].actual

Open == {c \in Call : ~reservation[c].settled}
CallsOf(t) == {c \in Call : TaskOf[c] = t}
CallsOn(d) == {c \in Call : reservation[c].maximum # 0 /\ reservation[c].day = d}
Maxima == [c \in Call |-> reservation[c].maximum]
Actuals == [c \in Call |-> reservation[c].actual]
Charges == [c \in Call |-> provider[c].charged]
Overrun(paid, maximum) == IF paid > maximum THEN paid - maximum ELSE 0
Overruns == [c \in Call |-> Overrun(provider[c].charged, reservation[c].maximum)]

(* The books balance: what tasks and days have spent and reserved is the   *)
(* sum over their calls, whichever tasks, days and ticks wrote it.         *)
BooksBalance ==
    /\ \A t \in Task :
         /\ spent[t] = SumFunctionOnSet(Actuals, CallsOf(t))
         /\ reserved[t] = SumFunctionOnSet(Maxima, CallsOf(t) \cap Open)
    /\ \A d \in Day :
         /\ day[d].spent = SumFunctionOnSet(Actuals, CallsOn(d))
         /\ day[d].reserved = SumFunctionOnSet(Maxima, CallsOn(d) \cap Open)

(* What the provider charged, to dead, failed and unfinished ticks as      *)
(* well, is covered by the books, and the books by the budgets, but for    *)
(* what the provider itself charges beyond a request's maximum.            *)
MoneyIsCovered ==
    /\ \A t \in Task :
         LET over == SumFunctionOnSet(Overruns, CallsOf(t))
         IN  /\ SumFunctionOnSet(Charges, CallsOf(t)) <= spent[t] + reserved[t] + over
             /\ spent[t] + reserved[t] <= TaskBudget + over
    /\ \A d \in Day :
         LET over == SumFunctionOnSet(Overruns, CallsOn(d))
         IN  /\ SumFunctionOnSet(Charges, CallsOn(d)) <= day[d].spent + day[d].reserved + over
             /\ day[d].spent + day[d].reserved <= DayBudget + over

(***************************************************************************)
(* The inductive invariant behind the first two: who may still send or     *)
(* settle a call is alone with it, and knows what its row shows.           *)
(***************************************************************************)
RowTypes ==
    /\ today \in Day
    /\ reservation \in [Call -> Reservation]
    /\ provider \in [Call -> [requests : Nat, charged : Nat]]
    /\ thread \in [Thread -> Generation]

Busy(w, c) == thread[w].pc \in {"send", "settle"} /\ thread[w].call = c

BusyIsAlone ==
    \A w \in Thread, c \in Call : Busy(w, c) =>
        /\ reservation[c].dispatched /\ ~reservation[c].settled
        /\ thread[w].pc = "send" => provider[c].requests = 0
        /\ \A v \in Thread : Busy(v, c) => v = w

BoundToRow ==
    \A w \in Thread : thread[w].pc \in {"claim", "send", "settle"} =>
        reservation[thread[w].call].request = thread[w].request

RowsAreHonest ==
    \A c \in Call :
        /\ reservation[c].decision # None => reservation[c].settled
        /\ reservation[c].settled => reservation[c].dispatched
        /\ provider[c].requests <= IF reservation[c].dispatched THEN 1 ELSE 0

CallInv == RowTypes /\ BusyIsAlone /\ BoundToRow /\ RowsAreHonest /\ ReturnedIsSaved

(***************************************************************************)
(* The inductive invariant behind the other two.  What a settled call has  *)
(* cost is what was charged, or its maximum when that was not known; and   *)
(* an account, of a task or of a day, exceeds its budget by no more than   *)
(* its settled calls exceeded what was reserved for them.                  *)
(***************************************************************************)
MoneyTypes ==
    /\ spent \in [Task -> Nat] /\ reserved \in [Task -> Nat]
    /\ day \in [Day -> [spent : Nat, reserved : Nat]]

CostsAreKnown ==
    /\ \A c \in Call :
         LET row == reservation[c]
         IN  /\ row.maximum = 0 => ~row.dispatched
             /\ ~row.settled => row.actual = 0
             /\ row.settled => row.actual \in {provider[c].charged, row.maximum}
             /\ provider[c].requests = 0 => provider[c].charged = 0
    /\ \A w \in Thread :
         /\ thread[w].pc # "idle" => reservation[thread[w].call].maximum = Maximum[thread[w].request]
         /\ thread[w].pc = "settle" =>
              thread[w].actual \in {provider[thread[w].call].charged, reservation[thread[w].call].maximum}

ActualIn(C) == [c \in Call |-> IF c \in C THEN reservation[c].actual ELSE 0]
OpenIn(C) == [c \in Call |-> IF c \in C /\ ~reservation[c].settled THEN reservation[c].maximum ELSE 0]
ExcessIn(C) == [c \in Call |-> IF c \in C THEN Overrun(reservation[c].actual, reservation[c].maximum) ELSE 0]

Account(C, used, held, budget) ==
    /\ used = SumFunctionOnSet(ActualIn(C), Call)
    /\ held = SumFunctionOnSet(OpenIn(C), Call)
    /\ used + held <= budget + SumFunctionOnSet(ExcessIn(C), Call)

AccountsAgree ==
    /\ \A t \in Task : Account(CallsOf(t), spent[t], reserved[t], TaskBudget)
    /\ \A d \in Day : Account(CallsOn(d), day[d].spent, day[d].reserved, DayBudget)

MoneyInv == CallInv /\ MoneyTypes /\ CostsAreKnown /\ AccountsAgree
=============================================================================
