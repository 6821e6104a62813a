------------------------------ MODULE Admission ------------------------------
(***************************************************************************)
(* Admission of worker ticks for one tenant (scheduling.py): the rows of   *)
(* work_leases, each a waiting ticket or an owned lease, the tenant's      *)
(* limit, and the threads of the workers that run ticks on them.           *)
(*                                                                         *)
(* acquire, release and admission_limit each hold the tenant's gate row,   *)
(* so each is one action.  Time is the set of rows whose expires_at has    *)
(* passed.  Two durations of the code order it: a lease (at least 330 s,   *)
(* config.py) outlives the activity that took it (300 s, runtime.py), and  *)
(* the workflow of a punctual task polls again (15 s) before its ticket    *)
(* expires (90 s).  A token is the thread that got it: a thread has one    *)
(* tick at a time, and a row that a dead tick left is never found again    *)
(* under (task, token) by the thread's next tick.                          *)
(***************************************************************************)
EXTENDS Naturals, FiniteSets

CONSTANTS
    Task,
    Worker,        \* threads that run ticks, of all worker processes
    Nobody,        \* no owner_token
    Punctual,      \* tasks whose workflow polls before the ticket expires
    DefaultLimit,  \* settings.max_active_per_tenant
    Limits         \* the limits an operator may set

ASSUME AdmissionAssumption ==
    /\ IsFiniteSet(Task)
    /\ Nobody \notin Worker
    /\ Punctual \subseteq Task
    /\ DefaultLimit \in Nat \ {0}
    /\ Limits \subseteq Nat \ {0}

VARIABLES
    control,  \* what people did with each task
    queue,    \* tasks with a waiting ticket
    ahead,    \* the order of enqueued_at: the older tickets of each
    holder,   \* the owner_token of each task's row
    stale,    \* tasks whose row has expired and is still there
    limit,    \* the gate's max_active; 0 until the first poll
    thread    \* the tick that each thread runs

vars == <<control, queue, ahead, holder, stale, limit, thread>>

Idle == [mode |-> "idle"]
(* Temporal waits for a current tick; it has given up a late one, which    *)
(* still ends by releasing; an abandoned one was cancelled and will not.   *)
Running == [mode : {"current", "late", "abandoned"}, task : Task, leased : BOOLEAN]

NewTick(k, leased) == [mode |-> "current", task |-> k, leased |-> leased]

TypeOK ==
    /\ control \in [Task -> {"live", "takenOver", "cancelled", "terminated"}]
    /\ queue \subseteq Task
    /\ ahead \in [Task -> SUBSET Task]
    /\ holder \in [Task -> Worker \cup {Nobody}]
    /\ stale \subseteq Task
    /\ limit \in Nat
    /\ thread \in [Worker -> {Idle} \cup Running]

Init ==
    /\ control = [k \in Task |-> "live"]
    /\ queue = {}
    /\ ahead = [k \in Task |-> {}]
    /\ holder = [k \in Task |-> Nobody]
    /\ stale = {}
    /\ limit = 0
    /\ thread = [w \in Worker |-> Idle]

Leases == {k \in Task : holder[k] # Nobody}
Runs(w, k) == thread[w] # Idle /\ thread[w].task = k
Current(w, k) == Runs(w, k) /\ thread[w].mode = "current"
ValidToken(w, k) == holder[k] = w /\ k \notin stale

(***************************************************************************)
(* acquire.  It first deletes what has expired and the tickets, but not    *)
(* the leases, of stopped tasks.                                           *)
(***************************************************************************)
Waiting == {k \in queue : k \notin stale /\ control[k] = "live"}

(* Faulty: the lease of a dead worker is valid.  ("Faulty" marks a         *)
(* definition that is no part of Spec: a plausible bug in the one below.)  *)
HeldForEver == holder
Held == [k \in Task |-> IF k \in stale THEN Nobody ELSE holder[k]]

(* A new ticket is behind all others; one that polls again keeps its place.*)
Older(k) == IF k \in Waiting THEN ahead[k] \cap Waiting ELSE Waiting
OrderOf(tickets) == [k \in Task |-> IF k \in tickets THEN ahead[k] \cap tickets ELSE {}]

MaxActive == IF limit = 0 THEN DefaultLimit ELSE limit
Active == Cardinality({k \in Task : Held[k] # Nobody})
(* Faulty: whoever polls first after a release gets the place.             *)
AdmittedOutOfTurn(k) == Active < MaxActive
(* k's ticket is among the first MaxActive - Active.                       *)
Admitted(k) == Active + Cardinality(Older(k)) < MaxActive

ControlOnly(w, k) ==
    /\ control[k] # "live"
    /\ thread' = [thread EXCEPT ![w] = NewTick(k, FALSE)]
    /\ UNCHANGED <<control, queue, ahead, holder, stale, limit>>

DuplicateTick(k) ==
    /\ control[k] = "live" /\ Held[k] # Nobody
    /\ queue' = Waiting /\ ahead' = OrderOf(Waiting)
    /\ holder' = Held /\ stale' = {}
    /\ UNCHANGED <<control, limit, thread>>

Poll(w, k) ==
    /\ control[k] = "live" /\ Held[k] = Nobody
    /\ limit' = MaxActive
    /\ stale' = {}
    /\ \/ /\ Admitted(k)
          /\ queue' = Waiting \ {k}
          /\ ahead' = OrderOf(Waiting \ {k})
          /\ holder' = [Held EXCEPT ![k] = w]
          /\ thread' = [thread EXCEPT ![w] = NewTick(k, TRUE)]
       \/ /\ ~Admitted(k)
          /\ queue' = Waiting \cup {k}
          /\ ahead' = [OrderOf(Waiting) EXCEPT ![k] = Older(k)]
          /\ holder' = Held
          /\ UNCHANGED thread
    /\ UNCHANGED control

(* Temporal has one attempt of a task's activity at a time, and starts     *)
(* none for a task that terminated.                                        *)
Acquire(w, k) ==
    /\ thread[w] = Idle
    /\ \A v \in Worker : ~Current(v, k)
    /\ control[k] # "terminated"
    /\ ControlOnly(w, k) \/ DuplicateTick(k) \/ Poll(w, k)

(***************************************************************************)
(* The tick: _executable with check_execution_lease, which lets a tick     *)
(* without admission context pass; _finish, which does not check; the end. *)
(***************************************************************************)
LeaseChecked(w) == thread[w].leased => ValidToken(w, thread[w].task)

(* _executable passes: the tick may propose and dispatch.  What it then    *)
(* does to the task's operations is in ActionLedger, and is no change here.*)
MayDispatch(w) == thread[w] # Idle /\ control[thread[w].task] = "live" /\ LeaseChecked(w)

Finish(w) ==
    /\ thread[w] # Idle /\ control[thread[w].task] \in {"live", "cancelled"}
    /\ control' = [control EXCEPT ![thread[w].task] = "terminated"]
    /\ UNCHANGED <<queue, ahead, holder, stale, limit, thread>>

(* Temporal gives up: the time is out, or the activity is cancelled.       *)
GiveUp(w) ==
    /\ thread[w] # Idle /\ thread[w].mode = "current"
    /\ \E mode \in {"late", "abandoned"} : thread' = [thread EXCEPT ![w].mode = mode]
    /\ UNCHANGED <<control, queue, ahead, holder, stale, limit>>

(* Faulty: release deletes the task's row by task alone.                   *)
ReleasesAny(w) == thread[w].leased /\ thread[w].mode # "abandoned"
(* release deletes the row of this task and this token, whoever waits.     *)
Releases(w) == thread[w].leased /\ thread[w].mode # "abandoned" /\ holder[thread[w].task] = w

End(w) ==
    /\ thread[w] # Idle
    /\ IF Releases(w)
         THEN /\ holder' = [holder EXCEPT ![thread[w].task] = Nobody]
              /\ stale' = stale \ {thread[w].task}
         ELSE UNCHANGED <<holder, stale>>
    /\ thread' = [thread EXCEPT ![w] = Idle]
    /\ UNCHANGED <<control, queue, ahead, limit>>

Crash(w) ==
    /\ thread[w] # Idle
    /\ thread' = [thread EXCEPT ![w] = Idle]
    /\ UNCHANGED <<control, queue, ahead, holder, stale, limit>>

(***************************************************************************)
(* People and time.                                                        *)
(***************************************************************************)
Stop(k) ==
    /\ \/ control[k] \in {"live", "takenOver"} /\ control' = [control EXCEPT ![k] = "cancelled"]
       \/ control[k] = "live" /\ control' = [control EXCEPT ![k] = "takenOver"]
    /\ UNCHANGED <<queue, ahead, holder, stale, limit, thread>>

Resume(k) ==
    /\ control[k] = "takenOver"
    /\ control' = [control EXCEPT ![k] = "live"]
    /\ UNCHANGED <<queue, ahead, holder, stale, limit, thread>>

SetLimit(n) ==
    /\ limit' = n
    /\ UNCHANGED <<control, queue, ahead, holder, stale, thread>>

(* Temporal still waits for the tick that got this lease.                  *)
InUse(k) == \E w \in Worker : holder[k] = w /\ Current(w, k) /\ thread[w].leased

Expire(k) ==
    /\ k \notin stale
    /\ \/ k \in queue \ Punctual
       \/ holder[k] # Nobody /\ ~InUse(k)
    /\ stale' = stale \cup {k}
    /\ UNCHANGED <<control, queue, ahead, holder, limit, thread>>

Next ==
    \/ \E w \in Worker : \/ \E k \in Task : Acquire(w, k)
                         \/ Finish(w) \/ GiveUp(w) \/ End(w) \/ Crash(w)
    \/ \E k \in Task : Stop(k) \/ Resume(k) \/ Expire(k)
    \/ \E n \in Limits : SetLimit(n)

Spec == Init /\ [][Next]_vars

(* Ticks end, time passes, and Temporal's task queue hands the polls of a  *)
(* punctual task to a free thread again and again, though the threads are  *)
(* all busy now and then (strong fairness).  People do not resume tasks    *)
(* for ever, always just after the poll of a taken-over one.               *)
Fairness ==
    /\ \A w \in Worker : WF_vars(End(w))
    /\ \A k \in Task : WF_vars(Expire(k))
    /\ \A k \in Punctual : SF_vars(\E w \in Worker : Acquire(w, k))
    /\ <>[][\A k \in Task : ~Resume(k)]_vars

FairSpec == Spec /\ Fairness

(***************************************************************************)
(* Properties.                                                             *)
(***************************************************************************)

(* A leased tick that Temporal still waits for keeps its lease: no purge   *)
(* for another task, late release by an older tick of the same task, stop  *)
(* and resume, or expiry takes it away (operations.md: one valid token per *)
(* task, and an old worker cannot release the new token).                  *)
CurrentTickHoldsLease ==
    \A w \in Worker, k \in Task : Current(w, k) /\ thread[w].leased => ValidToken(w, k)

(* Admission is bounded and in turn: whenever a token is granted, the      *)
(* leases that are then valid and the older tickets still waiting fit into *)
(* the limit together, so that each older ticket still finds its place.    *)
Valid == Leases \ stale
StillAhead(k) == (IF k \in queue \ stale THEN ahead[k] ELSE queue) \cap queue'

GrantsInTurn ==
    [][\A k \in Valid' \ Valid : Cardinality(Valid') + Cardinality(StillAhead(k)) <= limit']_vars

(* No starvation: while its workflow polls, a live task gets its turn,     *)
(* past tickets of dead workflows, crashed workers and changing limits.    *)
EveryTicketIsServed ==
    \A k \in Punctual : k \in queue ~> (holder[k] # Nobody \/ control[k] # "live")

(* operations.md: the execution entry checks the token and its validity,   *)
(* so that a worker dispatches only under a valid lease.                   *)
EveryDispatchIsLeased ==
    \A w \in Worker : MayDispatch(w) => ValidToken(w, thread[w].task)
=============================================================================
