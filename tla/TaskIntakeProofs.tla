--------------------------- MODULE TaskIntakeProofs ---------------------------
(***************************************************************************)
(* Proofs about TaskIntake, for any number of clients, keys, bodies and    *)
(* dispatchers and any limit.  The inductive invariant is IntakeInv: the   *)
(* rows' keys differ, and while a creation holds the tenant's gate, what   *)
(* it counted is still below the limit.                                    *)
(***************************************************************************)
EXTENDS TaskIntake, FiniteSetTheorems, TLAPS

Fresh == {i \in Queued : ~tasks[i].resumed}

RowsTyped == tasks \in Seq(TaskRow)

RequestsTyped ==
    request \in [Client -> {Idle} \cup [pc : {"looked", "counted"}, key : Key, body : Body]
                           \cup [pc : {"answered"}, key : Key, body : Body, task : 1..Len(tasks)]]

KeysDiffer == \A i, j \in DOMAIN tasks : tasks[i].key = tasks[j].key => i = j

AnswersMatch ==
    \A c \in Client : request[c].pc = "answered" =>
        /\ request[c].task \in DOMAIN tasks
        /\ tasks[request[c].task].key = request[c].key
        /\ tasks[request[c].task].body = request[c].body

GateHolds ==
    \A c \in Client : request[c].pc = "counted" =>
        /\ Cardinality(Fresh) < MaxQueue
        /\ \A u \in Client : request[u].pc = "counted" => u = c

IntakeInv ==
    /\ RowsTyped
    /\ RequestsTyped
    /\ KeysDiffer
    /\ AnswersMatch
    /\ GateHolds
    /\ Cardinality(Fresh) <= MaxQueue

(***************************************************************************)
(* Sets of rows                                                            *)
(***************************************************************************)
LEMMA RowsAreFinite ==
    ASSUME RowsTyped
    PROVE  /\ IsFiniteSet(Queued) /\ IsFiniteSet(Fresh)
           /\ Cardinality(Queued) \in Nat /\ Cardinality(Fresh) \in Nat
           /\ Cardinality(Fresh) <= Cardinality(Queued)
<1>1. Len(tasks) \in Nat /\ DOMAIN tasks = 1 .. Len(tasks)
  BY DEF RowsTyped
<1>2. IsFiniteSet(1 .. Len(tasks))
  BY <1>1, FS_Interval
<1>3. Queued \subseteq 1 .. Len(tasks) /\ Fresh \subseteq Queued
  BY <1>1 DEF Queued, Fresh
<1>4. IsFiniteSet(Queued)
  BY <1>2, <1>3, FS_Subset
<1>5. IsFiniteSet(Fresh) /\ Cardinality(Fresh) <= Cardinality(Queued)
  BY <1>3, <1>4, FS_Subset
<1> QED BY <1>4, <1>5, FS_CardinalityType

(***************************************************************************)
(* What people, ticks and dispatchers do to a row                          *)
(***************************************************************************)

(* Nothing that the invariant is about, but for a row that leaves the      *)
(* queue or comes back to it as resumed.                                   *)
RowsKept ==
    /\ RowsTyped'
    /\ Len(tasks') = Len(tasks)
    /\ \A i \in DOMAIN tasks : tasks'[i].key = tasks[i].key /\ tasks'[i].body = tasks[i].body
    /\ Fresh' \subseteq Fresh

LEMMA FieldKept ==
    ASSUME RowsTyped, NEW i \in DOMAIN tasks,
           \/ tasks' = [tasks EXCEPT ![i].status = "OTHER"]
           \/ \E w \in {"running", "closed"} : tasks' = [tasks EXCEPT ![i].workflow = w]
           \/ tasks' = [tasks EXCEPT ![i].delivered = TRUE]
    PROVE  RowsKept
<1>1. PICK row \in TaskRow :
          /\ tasks' = [tasks EXCEPT ![i] = row]
          /\ row.key = tasks[i].key /\ row.body = tasks[i].body /\ row.resumed = tasks[i].resumed
          /\ row.status = "QUEUED" => tasks[i].status = "QUEUED"
  <2>0. tasks[i] \in TaskRow
    BY DEF RowsTyped
  <2>1. CASE tasks' = [tasks EXCEPT ![i].status = "OTHER"]
    <3> DEFINE row == [tasks[i] EXCEPT !.status = "OTHER"]
    <3>1. /\ row \in TaskRow /\ row.key = tasks[i].key /\ row.body = tasks[i].body
          /\ row.resumed = tasks[i].resumed /\ row.status = "OTHER"
      BY <2>0 DEF TaskRow
    <3>2. tasks' = [tasks EXCEPT ![i] = row]
      BY <2>1
    <3> QED BY <3>1, <3>2
  <2>2. ASSUME NEW w \in {"running", "closed"}, tasks' = [tasks EXCEPT ![i].workflow = w]
        PROVE  \E row \in TaskRow :
                  /\ tasks' = [tasks EXCEPT ![i] = row]
                  /\ row.key = tasks[i].key /\ row.body = tasks[i].body /\ row.resumed = tasks[i].resumed
                  /\ row.status = "QUEUED" => tasks[i].status = "QUEUED"
    <3> DEFINE row == [tasks[i] EXCEPT !.workflow = w]
    <3>1. /\ row \in TaskRow /\ row.key = tasks[i].key /\ row.body = tasks[i].body
          /\ row.resumed = tasks[i].resumed /\ row.status = tasks[i].status
      BY <2>0 DEF TaskRow
    <3>2. tasks' = [tasks EXCEPT ![i] = row]
      BY <2>2
    <3> QED BY <3>1, <3>2
  <2>3. CASE tasks' = [tasks EXCEPT ![i].delivered = TRUE]
    <3> DEFINE row == [tasks[i] EXCEPT !.delivered = TRUE]
    <3>1. /\ row \in TaskRow /\ row.key = tasks[i].key /\ row.body = tasks[i].body
          /\ row.resumed = tasks[i].resumed /\ row.status = tasks[i].status
      BY <2>0 DEF TaskRow
    <3>2. tasks' = [tasks EXCEPT ![i] = row]
      BY <2>3
    <3> QED BY <3>1, <3>2
  <2> QED BY <2>1, <2>2, <2>3
<1>2. /\ tasks' \in Seq(TaskRow) /\ Len(tasks') = Len(tasks) /\ DOMAIN tasks' = DOMAIN tasks
      /\ tasks'[i] = row /\ \A j \in DOMAIN tasks \ {i} : tasks'[j] = tasks[j]
  BY <1>1 DEF RowsTyped
<1>3. Fresh' \subseteq Fresh
  BY <1>1, <1>2 DEF Fresh, Queued
<1> QED BY <1>1, <1>2, <1>3 DEF RowsKept, RowsTyped

LEMMA RequeueKept ==
    ASSUME RowsTyped, NEW i \in DOMAIN tasks, Requeue(i)
    PROVE  RowsKept
<1> DEFINE a == [tasks[i] EXCEPT !.status = "QUEUED"]
           row == [a EXCEPT !.resumed = TRUE]
<1>1. tasks[i] \in TaskRow
  BY DEF RowsTyped
<1>2. a \in TaskRow /\ a.key = tasks[i].key /\ a.body = tasks[i].body
  BY <1>1 DEF TaskRow
<1> HIDE DEF a
<1>3. row \in TaskRow /\ row.key = tasks[i].key /\ row.body = tasks[i].body /\ row.resumed
  BY <1>2 DEF TaskRow
<1> DEFINE b == [tasks EXCEPT ![i] = a]
<1>4. b \in Seq(TaskRow) /\ Len(b) = Len(tasks) /\ b[i] = a /\ DOMAIN b = DOMAIN tasks
      /\ \A j \in DOMAIN tasks \ {i} : b[j] = tasks[j]
  BY <1>2 DEF RowsTyped
<1>5. tasks' = [b EXCEPT ![i].resumed = TRUE]
  BY DEF Requeue, a
<1> HIDE DEF b
<1>6. tasks' = [b EXCEPT ![i] = row]
  BY <1>4, <1>5
<1> HIDE DEF row
<1>7. /\ tasks' \in Seq(TaskRow) /\ Len(tasks') = Len(tasks) /\ DOMAIN tasks' = DOMAIN tasks
      /\ tasks'[i] = row /\ \A j \in DOMAIN tasks \ {i} : tasks'[j] = tasks[j]
  BY <1>3, <1>4, <1>6
<1>8. Fresh' \subseteq Fresh
  BY <1>3, <1>7 DEF Fresh, Queued
<1> QED BY <1>3, <1>7, <1>8 DEF RowsKept, RowsTyped

LEMMA KeptKeepsInv ==
    ASSUME IntakeInv, RowsKept, request' = request
    PROVE  IntakeInv'
<1>1. DOMAIN tasks' = DOMAIN tasks
  BY DEF RowsKept, RowsTyped, IntakeInv
<1>2. KeysDiffer' /\ AnswersMatch' /\ RequestsTyped'
  BY <1>1 DEF IntakeInv, KeysDiffer, AnswersMatch, RequestsTyped, RowsKept
<1>3. /\ Cardinality(Fresh') <= Cardinality(Fresh)
      /\ Cardinality(Fresh') \in Nat /\ Cardinality(Fresh) \in Nat
  <2>1. IsFiniteSet(Fresh) /\ Cardinality(Fresh) \in Nat
    BY RowsAreFinite DEF IntakeInv
  <2>2. IsFiniteSet(Fresh') /\ Cardinality(Fresh') <= Cardinality(Fresh)
    BY <2>1, FS_Subset DEF RowsKept
  <2> QED BY <2>1, <2>2, FS_CardinalityType
<1>4. GateHolds' /\ Cardinality(Fresh') <= MaxQueue
  BY <1>3, IntakeAssumption DEF IntakeInv, GateHolds
<1> QED BY <1>2, <1>4 DEF IntakeInv, RowsKept

(***************************************************************************)
(* What creations do                                                       *)
(***************************************************************************)
Request(tasksLen) ==
    {Idle} \cup [pc : {"looked", "counted"}, key : Key, body : Body]
           \cup [pc : {"answered"}, key : Key, body : Body, task : 1..tasksLen]

(* A creation that neither counts nor inserts.                             *)
LEMMA AskKeepsInv ==
    ASSUME IntakeInv, NEW c \in Client, NEW state \in Request(Len(tasks)), Set(c, state), tasks' = tasks,
           state.pc # "counted",
           state.pc = "answered" =>
              /\ state.task \in DOMAIN tasks
              /\ tasks[state.task].key = state.key /\ tasks[state.task].body = state.body
    PROVE  IntakeInv'
<1>1. /\ request' \in [Client -> Request(Len(tasks))] /\ request'[c] = state
      /\ \A u \in Client \ {c} : request'[u] = request[u]
  BY DEF IntakeInv, RequestsTyped, Set, Request
<1>2. RequestsTyped'
  BY <1>1 DEF RequestsTyped, Request
<1>3. AnswersMatch'
  BY <1>1 DEF IntakeInv, AnswersMatch
<1>4. GateHolds'
  <2>1. Fresh' = Fresh
    BY DEF Fresh, Queued
  <2> QED BY <1>1, <2>1 DEF IntakeInv, GateHolds
<1>5. RowsTyped' /\ KeysDiffer' /\ (Cardinality(Fresh) <= MaxQueue)'
  BY DEF IntakeInv, RowsTyped, KeysDiffer, Fresh, Queued
<1> QED BY <1>2, <1>3, <1>4, <1>5 DEF IntakeInv

LEMMA RequestForms ==
    /\ Idle \in Request(Len(tasks)) /\ Idle.pc = "idle"
    /\ \A k \in Key, b \in Body :
          /\ Asking("looked", k, b) \in Request(Len(tasks)) /\ Asking("looked", k, b).pc = "looked"
          /\ Asking("counted", k, b) \in Request(Len(tasks)) /\ Asking("counted", k, b).pc = "counted"
  BY DEF Request, Idle, Asking

LEMMA ResolveKeepsInv ==
    ASSUME IntakeInv, NEW c \in Client, NEW k \in Key, NEW b \in Body, Resolve(c, k, b), tasks' = tasks
    PROVE  IntakeInv'
<1>1. PICK i \in With(k) : Set(c, IF BoundTo(i, b) THEN Answered(k, b, i) ELSE Idle)
  BY DEF Resolve
<1>2. i \in DOMAIN tasks /\ tasks[i].key = k /\ DOMAIN tasks = 1 .. Len(tasks)
  BY <1>1 DEF With, IntakeInv, RowsTyped
<1>3. CASE BoundTo(i, b)
  <2> DEFINE state == Answered(k, b, i)
  <2>1. /\ state \in Request(Len(tasks)) /\ state.pc = "answered"
        /\ state.task = i /\ state.key = k /\ state.body = b
    BY <1>2 DEF Answered, Request
  <2>2. tasks[i].body = b /\ Set(c, state)
    BY <1>1, <1>3 DEF BoundTo
  <2> HIDE DEF state
  <2> QED BY <1>2, <2>1, <2>2, AskKeepsInv
<1>4. CASE ~BoundTo(i, b)
  <2>1. Set(c, Idle)
    BY <1>1, <1>4
  <2> QED BY <2>1, RequestForms, AskKeepsInv
<1> QED BY <1>3, <1>4

LEMMA RequestFields ==
    ASSUME IntakeInv, NEW c \in Client, request[c].pc \in {"looked", "counted"}
    PROVE  request[c].key \in Key /\ request[c].body \in Body
  BY DEF IntakeInv, RequestsTyped, Idle

LEMMA CountKeepsInv ==
    ASSUME IntakeInv, NEW c \in Client, Count(c)
    PROVE  IntakeInv'
<1> DEFINE k == request[c].key  b == request[c].body
<1>1. k \in Key /\ b \in Body /\ tasks' = tasks
  BY RequestFields DEF Count
<1>2. CASE Resolve(c, k, b)
  <2>1. PICK key \in Key, body \in Body : key = k /\ body = b
    BY <1>1
  <2> QED BY <1>1, <1>2, <2>1, ResolveKeepsInv
<1>3. CASE Set(c, Idle)
  BY <1>1, <1>3, RequestForms, AskKeepsInv
<1>4. CASE Cardinality(Queued) < MaxQueue /\ Set(c, Asking("counted", k, b))
  <2>1. PICK state \in Request(Len(tasks)) : state = Asking("counted", k, b) /\ state.pc = "counted"
    BY <1>1, RequestForms
  <2>2. /\ request' \in [Client -> Request(Len(tasks))] /\ request'[c] = state
        /\ \A u \in Client \ {c} : request'[u] = request[u]
    BY <1>4, <2>1 DEF IntakeInv, RequestsTyped, Set, Request
  <2>3. RequestsTyped'
    BY <1>1, <2>2 DEF RequestsTyped, Request
  <2>4. AnswersMatch'
    BY <1>1, <2>1, <2>2 DEF IntakeInv, AnswersMatch
  <2>5. Fresh' = Fresh /\ Cardinality(Fresh) < MaxQueue
    <3>1. Fresh' = Fresh
      BY <1>1 DEF Fresh, Queued
    <3>2. Cardinality(Fresh) <= Cardinality(Queued) /\ Cardinality(Fresh) \in Nat /\ Cardinality(Queued) \in Nat
      BY RowsAreFinite DEF IntakeInv
    <3> QED BY <1>4, <3>1, <3>2, IntakeAssumption
  <2>6. GateHolds'
    <3>1. \A u \in Client : request[u].pc # "counted"
      BY DEF Count, GateFree
    <3>2. \A u \in Client : request'[u].pc = "counted" => u = c
      BY <2>2, <3>1
    <3> QED BY <2>5, <3>2 DEF GateHolds
  <2>7. RowsTyped' /\ KeysDiffer' /\ (Cardinality(Fresh) <= MaxQueue)'
    BY <1>1, <2>5 DEF IntakeInv, RowsTyped, KeysDiffer
  <2> QED BY <2>3, <2>4, <2>6, <2>7 DEF IntakeInv
<1>5. \/ Resolve(c, k, b)
      \/ Set(c, IF Cardinality(Queued) >= MaxQueue THEN Idle ELSE Asking("counted", k, b))
  BY DEF Count
<1>6. Cardinality(Queued) >= MaxQueue \/ Cardinality(Queued) < MaxQueue
  BY RowsAreFinite, IntakeAssumption DEF IntakeInv
<1>7. \/ Resolve(c, k, b) \/ Set(c, Idle)
      \/ Cardinality(Queued) < MaxQueue /\ Set(c, Asking("counted", k, b))
  BY <1>5, <1>6
<1> QED BY <1>2, <1>3, <1>4, <1>7

LEMMA InsertKeepsInv ==
    ASSUME IntakeInv, NEW c \in Client, NEW r \in Release, Insert(c, r)
    PROVE  IntakeInv'
<1>1. PICK k \in Key, b \in Body : k = request[c].key /\ b = request[c].body
  BY RequestFields DEF Insert
<1>2. PICK row \in TaskRow :
          /\ row.key = k /\ row.body = b /\ row.status = "QUEUED" /\ ~row.resumed
          /\ tasks' = Append(tasks, row)
  <2> DEFINE row == [key |-> k, body |-> b, release |-> r, status |-> "QUEUED", resumed |-> FALSE,
                     delivered |-> FALSE, workflow |-> "none"]
  <2>1. row \in TaskRow
    BY DEF TaskRow
  <2>2. tasks' = Append(tasks, row)
    BY <1>1 DEF Insert
  <2> QED BY <2>1, <2>2
<1>3. PICK n \in Nat : n = Len(tasks)
  BY DEF IntakeInv, RowsTyped
<1>4. /\ tasks' \in Seq(TaskRow) /\ Len(tasks') = n + 1 /\ DOMAIN tasks' = 1 .. (n + 1)
      /\ DOMAIN tasks = 1 .. n
      /\ tasks'[n + 1] = row /\ \A i \in 1 .. n : tasks'[i] = tasks[i]
  BY <1>2, <1>3 DEF IntakeInv, RowsTyped
<1>5. PICK state \in Request(n + 1) :
          /\ state.pc = "answered" /\ state.key = k /\ state.body = b /\ state.task = n + 1
          /\ request' = [request EXCEPT ![c] = state]
  <2>1. Answered(k, b, n + 1) \in Request(n + 1)
    BY DEF Answered, Request
  <2>2. request' = [request EXCEPT ![c] = Answered(k, b, n + 1)]
    BY <1>1, <1>3 DEF Insert, Set
  <2>3. /\ Answered(k, b, n + 1).pc = "answered" /\ Answered(k, b, n + 1).key = k
        /\ Answered(k, b, n + 1).body = b /\ Answered(k, b, n + 1).task = n + 1
    BY DEF Answered
  <2> QED BY <2>1, <2>2, <2>3
<1>6. /\ request \in [Client -> Request(n)] /\ Request(n) \subseteq Request(n + 1)
  BY <1>3 DEF IntakeInv, RequestsTyped, Request
<1>7. /\ request' \in [Client -> Request(n + 1)] /\ request'[c] = state
      /\ \A u \in Client \ {c} : request'[u] = request[u]
  BY <1>5, <1>6
<1>8. RowsTyped' /\ RequestsTyped'
  BY <1>4, <1>7 DEF RowsTyped, RequestsTyped, Request
<1>9. KeysDiffer'
  <2>1. \A i \in 1 .. n : tasks[i].key # k
    BY <1>1, <1>4 DEF Insert, With
  <2>2. \A i, j \in 1 .. n : tasks[i].key = tasks[j].key => i = j
    BY <1>4 DEF IntakeInv, KeysDiffer
  <2>3. \A i \in 1 .. (n + 1) : i \in 1 .. n \/ i = n + 1
    OBVIOUS
  <2> QED BY <1>2, <1>4, <2>1, <2>2, <2>3 DEF KeysDiffer
<1>10. AnswersMatch'
  <2> SUFFICES ASSUME NEW u \in Client, request'[u].pc = "answered"
               PROVE  /\ request'[u].task \in DOMAIN tasks'
                      /\ tasks'[request'[u].task].key = request'[u].key
                      /\ tasks'[request'[u].task].body = request'[u].body
    BY DEF AnswersMatch
  <2>1. CASE u = c
    BY <1>2, <1>4, <1>5, <1>7, <2>1
  <2>2. CASE u # c
    BY <1>4, <1>7, <2>2 DEF IntakeInv, AnswersMatch
  <2> QED BY <2>1, <2>2
<1>11. Fresh' = Fresh \cup {n + 1} /\ n + 1 \notin Fresh
  <2>1. \A i \in 1 .. (n + 1) : i \in 1 .. n \/ i = n + 1
    OBVIOUS
  <2>2. n + 1 \in 1 .. (n + 1) /\ n + 1 \notin 1 .. n /\ 1 .. n \subseteq 1 .. (n + 1)
    OBVIOUS
  <2> QED BY <1>2, <1>4, <2>1, <2>2 DEF Fresh, Queued
<1>12. Cardinality(Fresh) < MaxQueue /\ \A u \in Client : request[u].pc = "counted" => u = c
  BY DEF Insert, IntakeInv, GateHolds
<1>13. (Cardinality(Fresh) <= MaxQueue)'
  <2>1. IsFiniteSet(Fresh) /\ Cardinality(Fresh) \in Nat
    BY RowsAreFinite DEF IntakeInv
  <2>2. Cardinality(Fresh') = Cardinality(Fresh) + 1
    BY <1>11, <2>1, FS_AddElement
  <2> QED BY <1>12, <2>1, <2>2, IntakeAssumption
<1>14. GateHolds'
  BY <1>5, <1>7, <1>12 DEF GateHolds
<1> QED BY <1>8, <1>9, <1>10, <1>13, <1>14 DEF IntakeInv

(***************************************************************************)
(* The invariant and the theorems                                          *)
(***************************************************************************)
LEMMA InvInit == Init => IntakeInv
<1> SUFFICES ASSUME Init PROVE IntakeInv
  OBVIOUS
<1>1. RowsTyped /\ DOMAIN tasks = {}
  BY DEF Init, RowsTyped
<1>2. RequestsTyped /\ \A c \in Client : request[c].pc = "idle"
  BY DEF Init, RequestsTyped, Idle
<1>3. Fresh = {}
  BY <1>1 DEF Fresh, Queued
<1>4. Cardinality(Fresh) = 0
  BY <1>3, FS_EmptySet
<1> QED BY <1>1, <1>2, <1>4, IntakeAssumption DEF IntakeInv, KeysDiffer, AnswersMatch, GateHolds

LEMMA InvStep == IntakeInv /\ [Next]_vars => IntakeInv'
<1> SUFFICES ASSUME IntakeInv, [Next]_vars PROVE IntakeInv'
  OBVIOUS
<1>0. RowsTyped
  BY DEF IntakeInv
<1>a. ASSUME tasks' = tasks, request' = request PROVE IntakeInv'
  <2>1. RowsKept
    BY <1>0, <1>a DEF RowsKept, RowsTyped, Fresh, Queued
  <2> QED BY <1>a, <2>1, KeptKeepsInv
<1>1. ASSUME NEW c \in Client, NEW k \in Key, NEW b \in Body, Lookup(c, k, b) PROVE IntakeInv'
  <2>1. CASE Resolve(c, k, b)
    BY <1>1, <2>1, ResolveKeepsInv DEF Lookup
  <2>2. CASE Set(c, Asking("looked", k, b))
    BY <1>1, <2>2, RequestForms, AskKeepsInv DEF Lookup
  <2> QED BY <1>1, <2>1, <2>2 DEF Lookup
<1>2. ASSUME NEW c \in Client, Count(c) PROVE IntakeInv'
  BY <1>2, CountKeepsInv
<1>3. ASSUME NEW c \in Client, NEW r \in Release, Insert(c, r) PROVE IntakeInv'
  BY <1>3, InsertKeepsInv
<1>4. ASSUME NEW c \in Client, Leave(c) PROVE IntakeInv'
  BY <1>4, RequestForms, AskKeepsInv DEF Leave
<1>5. ASSUME NEW i \in DOMAIN tasks, Evolve(i) PROVE IntakeInv'
  <2>1. CASE TakeUp(i)
    <3>1. tasks' = [tasks EXCEPT ![i].status = "OTHER"] /\ request' = request
      BY <2>1 DEF TakeUp, Change
    <3> QED BY <1>0, <3>1, FieldKept, KeptKeepsInv
  <2>2. CASE Requeue(i)
    BY <1>0, <2>2, RequeueKept, KeptKeepsInv DEF Requeue
  <2>3. CASE Close(i)
    <3>1. tasks' = [tasks EXCEPT ![i].workflow = "closed"] /\ request' = request
      BY <2>3 DEF Close, Change
    <3> QED BY <1>0, <3>1, FieldKept, KeptKeepsInv
  <2> QED BY <1>5, <2>1, <2>2, <2>3 DEF Evolve
<1>6. ASSUME NEW d \in Dispatcher, NEW i \in DOMAIN tasks,
             StartWorkflow(d, i) \/ StartRaises(d, i) \/ MarkDelivered(d, i)
      PROVE  IntakeInv'
  <2>1. /\ request' = request
        /\ \/ tasks' = tasks
           \/ tasks' = [tasks EXCEPT ![i].workflow = "running"]
           \/ tasks' = [tasks EXCEPT ![i].delivered = TRUE]
    BY <1>6 DEF StartWorkflow, StartRaises, MarkDelivered
  <2> QED BY <1>0, <1>a, <2>1, FieldKept, KeptKeepsInv
<1>7. ASSUME NEW d \in Dispatcher, Fetch(d) \/ Crash(d) PROVE IntakeInv'
  BY <1>7, <1>a DEF Fetch, Crash
<1>8. CASE UNCHANGED vars
  BY <1>8, <1>a DEF vars
<1> QED BY <1>1, <1>2, <1>3, <1>4, <1>5, <1>6, <1>7, <1>8 DEF Next, Create, Deliver

(* What a creation has seen, the rows and the gate agree in every state    *)
(* that the intake can reach.                                              *)
THEOREM IntakeInvariant == Spec => []IntakeInv
  BY InvInit, InvStep, PTL DEF Spec

(* The answer to a creation is a task of its own key and body, the only    *)
(* one of that key: service.py:103-139.                                    *)
THEOREM AnswersAreOwn == Spec => []AnswerIsOwn
<1>1. IntakeInv => AnswerIsOwn
  BY DEF IntakeInv, AnswersMatch, KeysDiffer, AnswerIsOwn, With
<1> QED BY <1>1, IntakeInvariant, PTL

(* Whatever creations run beside each other, the tasks that nobody resumed *)
(* stay within the queue's limit: service.py:140-147.                      *)
THEOREM QueueStaysWithinLimit == Spec => []QueueKeepsLimit
<1>1. IntakeInv => QueueKeepsLimit
  BY DEF IntakeInv, QueueKeepsLimit, Fresh
<1> QED BY <1>1, IntakeInvariant, PTL

===============================================================================
