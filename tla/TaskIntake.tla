------------------------------ MODULE TaskIntake ------------------------------
(***************************************************************************)
(* How a task comes into being and gets its workflow: clients that create  *)
(* tasks under an idempotency key (service.py, _create_task), the outbox   *)
(* row that each creation commits with its task, and the dispatchers that  *)
(* start a workflow for every row and then mark it delivered (runtime.py,  *)
(* dispatch_once).  The tasks are those of one tenant, in the order of     *)
(* their outbox rows.                                                      *)
(*                                                                         *)
(* A creation is one transaction, but only its second half holds the       *)
(* tenant's gate row: what it read before, others may have changed.  The   *)
(* rows' constraint on (tenant, request_key) is not reached while the gate *)
(* excludes a second insertion of a key, so the handler of its error is    *)
(* left out; requests that validation, a grant, the release or the mode    *)
(* refuses change nothing and are left out as well.                        *)
(***************************************************************************)
EXTENDS Naturals, Sequences, FiniteSets

CONSTANTS
    Key,         \* idempotency keys
    Body,        \* contracts, by their digest
    Release,     \* the releases that API processes and dispatchers run
    Client,      \* concurrent creations
    Dispatcher,  \* dispatcher processes
    Serves,      \* the release of each dispatcher
    MaxQueue,    \* settings.max_queue_per_tenant
    Batch        \* outbox rows a dispatcher takes at once (20)

ASSUME IntakeAssumption ==
    /\ IsFiniteSet(Key)
    /\ Serves \in [Dispatcher -> Release]
    /\ MaxQueue \in Nat
    /\ Batch \in Nat \ {0}

VARIABLES
    tasks,    \* the tasks with their outbox rows and workflows, oldest first
    request,  \* what each client's creation has seen
    round     \* the rows that each dispatcher still has to start

vars == <<tasks, request, round>>

TaskRow == [key : Key, body : Body, release : Release,
            status : {"QUEUED", "OTHER"}, resumed : BOOLEAN,
            delivered : BOOLEAN, workflow : {"none", "running", "closed"}]

Idle == [pc |-> "idle"]
Asking(pc, k, b) == [pc |-> pc, key |-> k, body |-> b]
Answered(k, b, i) == [pc |-> "answered", key |-> k, body |-> b, task |-> i]
Rest == [pc |-> "rest"]
Delivering(pc, rows) == [pc |-> pc, rows |-> rows]

TypeOK ==
    /\ tasks \in Seq(TaskRow)
    /\ request \in [Client -> {Idle} \cup [pc : {"looked", "counted"}, key : Key, body : Body]
                              \cup [pc : {"answered"}, key : Key, body : Body, task : 1..Len(tasks)]]
    /\ \A d \in Dispatcher :
         \/ round[d] = Rest
         \/ /\ round[d].pc \in {"starting", "started"}
            /\ round[d].rows \in Seq(1..Len(tasks))

Init ==
    /\ tasks = <<>>
    /\ request = [c \in Client |-> Idle]
    /\ round = [d \in Dispatcher |-> Rest]

(***************************************************************************)
(* _create_task.                                                           *)
(***************************************************************************)
Set(c, state) == request' = [request EXCEPT ![c] = state]
With(k) == {i \in DOMAIN tasks : tasks[i].key = k}
Queued == {i \in DOMAIN tasks : tasks[i].status = "QUEUED"}

(* Faulty: the key alone identifies a request.  ("Faulty" marks a          *)
(* definition that is no part of Spec: a plausible bug in the next one.)   *)
BoundToAny(i, b) == TRUE
BoundTo(i, b) == tasks[i].body = b

(* The row that has the key answers for its own body; another body is      *)
(* refused with IDEMPOTENCY_CONFLICT.                                      *)
Resolve(c, k, b) ==
    \E i \in With(k) : Set(c, IF BoundTo(i, b) THEN Answered(k, b, i) ELSE Idle)

Lookup(c, k, b) ==
    /\ request[c] = Idle
    /\ \/ Resolve(c, k, b)
       \/ With(k) = {} /\ Set(c, Asking("looked", k, b))
    /\ UNCHANGED <<tasks, round>>

(* lock_tenant's update waits for the transaction that holds the gate.     *)
(* Faulty: the row is read, not written, and holds nobody up.              *)
GateReadable(c) == TRUE
GateFree(c) == \A u \in Client : request[u].pc # "counted"

(* The second look at the key, and the count of the queue, under the gate. *)
Count(c) ==
    /\ request[c].pc = "looked"
    /\ GateFree(c)
    /\ LET k == request[c].key
           b == request[c].body
       IN  \/ Resolve(c, k, b)
           \/ /\ With(k) = {}
              /\ Set(c, IF Cardinality(Queued) >= MaxQueue THEN Idle ELSE Asking("counted", k, b))
    /\ UNCHANGED <<tasks, round>>

(* Task, outbox row and task.created commit together and free the gate.    *)
Insert(c, r) ==
    /\ request[c].pc = "counted"
    /\ With(request[c].key) = {}
    /\ tasks' = Append(tasks, [key |-> request[c].key, body |-> request[c].body,
                               release |-> r, status |-> "QUEUED", resumed |-> FALSE,
                               delivered |-> FALSE, workflow |-> "none"])
    /\ Set(c, Answered(request[c].key, request[c].body, Len(tasks) + 1))
    /\ UNCHANGED round

(* The process dies or the connection breaks (before the commit, and the   *)
(* transaction rolls back), or the client has, or has lost, its answer.    *)
Leave(c) ==
    /\ request[c] # Idle
    /\ Set(c, Idle)
    /\ UNCHANGED <<tasks, round>>

(***************************************************************************)
(* What ticks and people do to the tasks meanwhile.                        *)
(***************************************************************************)
Change(i, field, value) ==
    /\ tasks' = [tasks EXCEPT ![i][field] = value]
    /\ UNCHANGED <<request, round>>

TakeUp(i) == tasks[i].status = "QUEUED" /\ Change(i, "status", "OTHER")

(* resume puts the task back without a look at the limit.                  *)
Requeue(i) ==
    /\ tasks[i].status = "OTHER"
    /\ tasks' = [tasks EXCEPT ![i].status = "QUEUED", ![i].resumed = TRUE]
    /\ UNCHANGED <<request, round>>

Close(i) == tasks[i].workflow = "running" /\ Change(i, "workflow", "closed")

(***************************************************************************)
(* dispatch_once.                                                          *)
(***************************************************************************)
Goto(d, state) == round' = [round EXCEPT ![d] = state]
First(rows) == SubSeq(rows, 1, IF Len(rows) < Batch THEN Len(rows) ELSE Batch)
ByAge == [i \in 1..Len(tasks) |-> i]

(* Faulty: the limit comes before the filter, so that the rows of another  *)
(* release fill the batch.                                                 *)
DueAfterLimit(d) ==
    SelectSeq(First(ByAge), LAMBDA i : ~tasks[i].delivered /\ tasks[i].release = Serves[d])
Due(d) ==
    First(SelectSeq(ByAge, LAMBDA i : ~tasks[i].delivered /\ tasks[i].release = Serves[d]))

Fetch(d) ==
    /\ round[d] = Rest
    /\ Due(d) # <<>>
    /\ Goto(d, Delivering("starting", Due(d)))
    /\ UNCHANGED <<tasks, request>>

Starts(d, i) == round[d].pc = "starting" /\ Head(round[d].rows) = i

(* The workflow's identifier is the task's, so that a running one is not   *)
(* started again; one that has ended meanwhile is.                         *)
StartWorkflow(d, i) ==
    /\ Starts(d, i)
    /\ tasks' = [tasks EXCEPT ![i].workflow = "running"]
    /\ Goto(d, Delivering("started", round[d].rows))
    /\ UNCHANGED request

(* start_workflow raises, with or without having reached the server: the   *)
(* rows behind it wait for the next round.                                 *)
StartRaises(d, i) ==
    /\ Starts(d, i)
    /\ tasks' \in {tasks, [tasks EXCEPT ![i].workflow = "running"]}
    /\ Goto(d, Rest)
    /\ UNCHANGED request

MarkDelivered(d, i) ==
    /\ round[d].pc = "started" /\ Head(round[d].rows) = i
    /\ tasks' = [tasks EXCEPT ![i].delivered = TRUE]
    /\ Goto(d, IF Len(round[d].rows) = 1 THEN Rest ELSE Delivering("starting", Tail(round[d].rows)))
    /\ UNCHANGED request

Crash(d) ==
    /\ round[d] # Rest
    /\ Goto(d, Rest)
    /\ UNCHANGED <<tasks, request>>

(***************************************************************************)
(* The specification.                                                      *)
(***************************************************************************)
Create(c) ==
    \/ \E k \in Key, b \in Body : Lookup(c, k, b)
    \/ Count(c)
    \/ \E r \in Release : Insert(c, r)
    \/ Leave(c)

Evolve(i) == TakeUp(i) \/ Requeue(i) \/ Close(i)

Deliver(d) ==
    \/ Fetch(d)
    \/ \E i \in DOMAIN tasks : StartWorkflow(d, i) \/ StartRaises(d, i) \/ MarkDelivered(d, i)

Next ==
    \/ \E c \in Client : Create(c)
    \/ \E i \in DOMAIN tasks : Evolve(i)
    \/ \E d \in Dispatcher : Deliver(d) \/ Crash(d)

Spec == Init /\ [][Next]_vars

(* serve_dispatcher goes round for ever and survives the exceptions of a   *)
(* stage; not every start of a task's workflow fails, and not every        *)
(* attempt dies between the start and its mark.  Nothing is assumed of     *)
(* clients, ticks or people.                                               *)
Fairness ==
    \A d \in Dispatcher :
        /\ WF_vars(Deliver(d))
        /\ \A i \in 1..Cardinality(Key) :
             /\ SF_vars(i \in DOMAIN tasks /\ StartWorkflow(d, i))
             /\ SF_vars(i \in DOMAIN tasks /\ MarkDelivered(d, i))

FairSpec == Spec /\ Fairness

(***************************************************************************)
(* Properties.                                                             *)
(***************************************************************************)

(* Whoever creates a task gets one made from the very request he sent,     *)
(* whatever other creations of the same key, with this body or another,    *)
(* ran beside it, and however often lost answers made him repeat it        *)
(* (service.py:103-139).                                                   *)
AnswerIsOwn ==
    \A c \in Client : request[c].pc = "answered" =>
        LET row == tasks[request[c].task]
        IN  /\ row.key = request[c].key
            /\ row.body = request[c].body
            /\ With(row.key) = {request[c].task}

(* Concurrent creations never fill the queue beyond its limit: what is     *)
(* above it are tasks that people resumed (service.py:140-147).            *)
QueueKeepsLimit == Cardinality({i \in Queued : ~tasks[i].resumed}) <= MaxQueue

(* The outbox loses nothing: the workflow of every accepted task is        *)
(* started, past dispatchers that die anywhere, starts that fail and       *)
(* release backlogs that nobody serves (runtime.py:137-176).               *)
EveryTaskIsStarted ==
    \A i \in 1..Cardinality(Key) :
        i \in DOMAIN tasks /\ (\E d \in Dispatcher : Serves[d] = tasks[i].release)
            ~> i \in DOMAIN tasks /\ tasks[i].workflow # "none"
=============================================================================
