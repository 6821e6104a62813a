--------------------------- MODULE AdmissionProofs ---------------------------
(***************************************************************************)
(* Proofs about Admission, for any number of tasks, threads and limits.    *)
(* The inductive invariant is AdmissionInv: that a current tick's row is   *)
(* not taken away needs that no ticket and no other lease is that row      *)
(* (RowsAreConsistent), and the order of the tickets needs that a purge    *)
(* keeps it.                                                               *)
(***************************************************************************)
EXTENDS Admission, FiniteSetTheorems, TLAPS

(***************************************************************************)
(* The invariant.                                                          *)
(***************************************************************************)

(* A task's one row is a ticket or a lease, only rows that are there       *)
(* expire, and the tickets are in one order.                               *)
RowsAreConsistent ==
    /\ queue \cap Leases = {}
    /\ stale \subseteq queue \cup Leases
    /\ \A k \in Task : ahead[k] \subseteq queue
    /\ \A j, k \in queue : j \in ahead[k] <=> (j # k /\ k \notin ahead[j])
    /\ \A k \in queue : \A j \in ahead[k] : ahead[j] \subseteq ahead[k]

AdmissionInv == TypeOK /\ RowsAreConsistent /\ CurrentTickHoldsLease

(***************************************************************************)
(* Ticks and rows.                                                         *)
(***************************************************************************)

(* A tick is never mistaken for an idle thread.                            *)
LEMMA TickForms ==
    ASSUME NEW k \in Task, NEW leased \in BOOLEAN
    PROVE  /\ NewTick(k, leased) \in Running
           /\ NewTick(k, leased) # Idle
           /\ NewTick(k, leased).mode = "current"
           /\ NewTick(k, leased).task = k
           /\ NewTick(k, leased).leased = leased
  BY DEF NewTick, Running, Idle

LEMMA HeldRows ==
    ASSUME TypeOK
    PROVE  /\ Held \in [Task -> Worker \cup {Nobody}]
           /\ \A k \in Task : Held[k] # Nobody <=> k \in Valid
           /\ \A k \in Task \ stale : Held[k] = holder[k]
  BY DEF TypeOK, Held, Valid, Leases

LEMMA OlderTickets ==
    ASSUME TypeOK, NEW k \in Task
    PROVE  Older(k) \subseteq Waiting /\ Waiting \subseteq queue /\ Waiting \subseteq Task
  BY DEF TypeOK, Older, Waiting

LEMMA OrderType ==
    ASSUME TypeOK, NEW tickets \in SUBSET Task
    PROVE  OrderOf(tickets) \in [Task -> SUBSET Task]
  BY DEF TypeOK, OrderOf

(***************************************************************************)
(* Types.                                                                  *)
(***************************************************************************)
LEMMA TypeInit == Init => TypeOK
  BY DEF Init, TypeOK

LEMMA AcquireType ==
    ASSUME TypeOK, NEW w \in Worker, NEW k \in Task, Acquire(w, k)
    PROVE  TypeOK'
<1>1. CASE ControlOnly(w, k)
  BY <1>1, TickForms DEF ControlOnly, TypeOK
<1>2. CASE DuplicateTick(k)
  <2>1. Waiting \in SUBSET Task
    BY OlderTickets
  <2>2. OrderOf(Waiting) \in [Task -> SUBSET Task]
    BY <2>1, OrderType
  <2> QED BY <1>2, <2>1, <2>2, HeldRows DEF DuplicateTick, TypeOK
<1>3. CASE Poll(w, k)
  <2>1. Waiting \in SUBSET Task /\ Older(k) \in SUBSET Task
    BY OlderTickets
  <2>2. /\ OrderOf(Waiting) \in [Task -> SUBSET Task]
        /\ OrderOf(Waiting \ {k}) \in [Task -> SUBSET Task]
    BY <2>1, OrderType
  <2>3. limit' \in Nat /\ stale' \subseteq Task /\ control' = control
    BY <1>3, AdmissionAssumption DEF Poll, TypeOK, MaxActive
  <2>4. queue' \subseteq Task /\ ahead' \in [Task -> SUBSET Task]
    BY <1>3, <2>1, <2>2 DEF Poll
  <2>5. holder' \in [Task -> Worker \cup {Nobody}]
    BY <1>3, HeldRows DEF Poll
  <2>6. thread' \in [Worker -> {Idle} \cup Running]
    BY <1>3, TickForms DEF Poll, TypeOK
  <2> QED BY <2>3, <2>4, <2>5, <2>6 DEF TypeOK
<1> QED BY <1>1, <1>2, <1>3 DEF Acquire

LEMMA TypeStep == TypeOK /\ [Next]_vars => TypeOK'
<1> SUFFICES ASSUME TypeOK, [Next]_vars PROVE TypeOK'
  OBVIOUS
<1>1. ASSUME NEW w \in Worker, NEW k \in Task, Acquire(w, k) PROVE TypeOK'
  BY <1>1, AcquireType
<1>2. ASSUME NEW w \in Worker, Finish(w) PROVE TypeOK'
  BY <1>2 DEF Finish, TypeOK
<1>3. ASSUME NEW w \in Worker, GiveUp(w) PROVE TypeOK'
  <2>1. PICK mode \in {"late", "abandoned"} : thread' = [thread EXCEPT ![w].mode = mode]
    BY <1>3 DEF GiveUp
  <2>2. thread[w] \in Running
    BY <1>3 DEF GiveUp, TypeOK
  <2>3. [thread[w] EXCEPT !.mode = mode] \in Running
    BY <2>2 DEF Running
  <2> QED BY <1>3, <2>1, <2>3 DEF GiveUp, TypeOK
<1>4. ASSUME NEW w \in Worker, End(w) PROVE TypeOK'
  BY <1>4 DEF End, TypeOK
<1>5. ASSUME NEW w \in Worker, Crash(w) PROVE TypeOK'
  BY <1>5 DEF Crash, TypeOK
<1>6. ASSUME NEW k \in Task, Stop(k) \/ Resume(k) \/ Expire(k) PROVE TypeOK'
  BY <1>6 DEF Stop, Resume, Expire, TypeOK
<1>7. ASSUME NEW n \in Limits, SetLimit(n) PROVE TypeOK'
  BY <1>7, AdmissionAssumption DEF SetLimit, TypeOK
<1>8. CASE UNCHANGED vars
  BY <1>8 DEF vars, TypeOK
<1> QED BY <1>1, <1>2, <1>3, <1>4, <1>5, <1>6, <1>7, <1>8 DEF Next

(***************************************************************************)
(* The rows.                                                               *)
(***************************************************************************)

(* A purge keeps the order of the tickets that stay.                       *)
LEMMA PurgeKeepsOrder ==
    ASSUME TypeOK, RowsAreConsistent, NEW q \in SUBSET queue
    PROVE  /\ \A k \in Task : OrderOf(q)[k] \subseteq q
           /\ \A j, k \in q : j \in OrderOf(q)[k] <=> (j # k /\ k \notin OrderOf(q)[j])
           /\ \A k \in q : \A j \in OrderOf(q)[k] : OrderOf(q)[j] \subseteq OrderOf(q)[k]
<1>1. q \subseteq Task
  BY DEF TypeOK
<1>2. \A k \in Task : OrderOf(q)[k] = IF k \in q THEN ahead[k] \cap q ELSE {}
  BY DEF OrderOf
<1>3. /\ \A j, k \in queue : j \in ahead[k] <=> (j # k /\ k \notin ahead[j])
      /\ \A k \in queue : \A j \in ahead[k] : ahead[j] \subseteq ahead[k]
  BY DEF RowsAreConsistent
<1>4. \A k \in Task : OrderOf(q)[k] \subseteq q
  BY <1>2
<1>5. ASSUME NEW j \in q, NEW k \in q
      PROVE  j \in OrderOf(q)[k] <=> (j # k /\ k \notin OrderOf(q)[j])
  <2>1. j \in Task /\ k \in Task /\ j \in queue /\ k \in queue
    BY <1>1
  <2>2. OrderOf(q)[k] = ahead[k] \cap q /\ OrderOf(q)[j] = ahead[j] \cap q
    BY <1>2, <2>1
  <2>3. j \in ahead[k] <=> (j # k /\ k \notin ahead[j])
    BY <1>3, <2>1
  <2> QED BY <2>2, <2>3
<1>6. ASSUME NEW k \in q, NEW j \in OrderOf(q)[k]
      PROVE  OrderOf(q)[j] \subseteq OrderOf(q)[k]
  <2>1. k \in Task /\ k \in queue /\ j \in q
    BY <1>1, <1>4
  <2>2. OrderOf(q)[k] = ahead[k] \cap q
    BY <1>2, <2>1
  <2>3. OrderOf(q)[j] = ahead[j] \cap q
    BY <1>1, <1>2, <2>1
  <2>4. ahead[j] \subseteq ahead[k]
    BY <1>3, <2>1, <2>2
  <2> QED BY <2>2, <2>3, <2>4
<1> QED BY <1>4, <1>5, <1>6

LEMMA PollRows ==
    ASSUME TypeOK, RowsAreConsistent, NEW w \in Worker, NEW k \in Task, Poll(w, k)
    PROVE  RowsAreConsistent'
<1>1. /\ queue \cap Leases = {}
      /\ k \notin Valid /\ Valid \subseteq Leases
      /\ Waiting \subseteq queue /\ Waiting \subseteq Task
      /\ Older(k) \subseteq Waiting
  BY HeldRows, OlderTickets DEF RowsAreConsistent, Poll, Valid
<1>2. CASE queue' = Waiting \ {k} /\ ahead' = OrderOf(Waiting \ {k}) /\ holder' = [Held EXCEPT ![k] = w]
  <2>1. Leases' \subseteq Valid \cup {k}
    BY <1>2, HeldRows DEF Leases
  <2>2. queue' \cap Leases' = {} /\ stale' = {}
    BY <1>1, <1>2, <2>1 DEF Poll
  <2>3. queue' \in SUBSET queue
    BY <1>1, <1>2
  <2> DEFINE q == Waiting \ {k}
  <2>4. /\ \A j \in Task : OrderOf(q)[j] \subseteq q
        /\ \A i, j \in q : i \in OrderOf(q)[j] <=> (i # j /\ j \notin OrderOf(q)[i])
        /\ \A j \in q : \A i \in OrderOf(q)[j] : OrderOf(q)[i] \subseteq OrderOf(q)[j]
    BY <1>2, <2>3, PurgeKeepsOrder
  <2>5. queue' = q /\ ahead' = OrderOf(q)
    BY <1>2
  <2> HIDE DEF q
  <2> QED BY <2>2, <2>4, <2>5 DEF RowsAreConsistent
<1>3. CASE queue' = Waiting \cup {k} /\ ahead' = [OrderOf(Waiting) EXCEPT ![k] = Older(k)] /\ holder' = Held
  <2>1. Leases' = Valid /\ stale' = {}
    BY <1>3, HeldRows DEF Leases, Poll, Valid
  <2>2. queue' \cap Leases' = {}
    BY <1>1, <1>3, <2>1
  <2>3. OrderOf(Waiting) \in [Task -> SUBSET Task]
    BY <1>1, OrderType
  <2>4. \A j \in Task : ahead'[j] = IF j = k THEN Older(k) ELSE OrderOf(Waiting)[j]
    BY <1>3, <2>3
  <2>5. /\ \A j \in Task : OrderOf(Waiting)[j] \subseteq Waiting
        /\ \A i, j \in Waiting : i \in OrderOf(Waiting)[j] <=> (i # j /\ j \notin OrderOf(Waiting)[i])
        /\ \A j \in Waiting : \A i \in OrderOf(Waiting)[j] : OrderOf(Waiting)[i] \subseteq OrderOf(Waiting)[j]
    BY <1>1, PurgeKeepsOrder
  <2>6. CASE k \in Waiting
    <3>1. Older(k) = OrderOf(Waiting)[k]
      BY <2>6 DEF Older, OrderOf
    <3>2. queue' = Waiting /\ \A j \in Task : ahead'[j] = OrderOf(Waiting)[j]
      BY <1>3, <2>4, <2>6, <3>1
    <3> QED BY <1>1, <2>1, <2>2, <2>5, <3>2 DEF RowsAreConsistent
  <2>7. CASE k \notin Waiting
    <3>1. Older(k) = Waiting
      BY <2>7 DEF Older
    <3>2. \A j \in Task : ahead'[j] \subseteq queue'
      BY <1>3, <2>4, <2>5, <3>1
    <3>3. \A i, j \in queue' : i \in ahead'[j] <=> (i # j /\ j \notin ahead'[i])
      BY <1>1, <1>3, <2>4, <2>5, <2>7, <3>1
    <3>4. \A j \in queue' : \A i \in ahead'[j] : ahead'[i] \subseteq ahead'[j]
      BY <1>1, <1>3, <2>4, <2>5, <2>7, <3>1
    <3> QED BY <2>1, <2>2, <3>2, <3>3, <3>4 DEF RowsAreConsistent
  <2> QED BY <2>6, <2>7
<1> QED BY <1>2, <1>3 DEF Poll

LEMMA RowsStep ==
    ASSUME TypeOK, RowsAreConsistent, [Next]_vars
    PROVE  RowsAreConsistent'
<1>1. ASSUME NEW w \in Worker, NEW k \in Task, ControlOnly(w, k) PROVE RowsAreConsistent'
  BY <1>1 DEF ControlOnly, RowsAreConsistent, Leases
<1>2. ASSUME NEW k \in Task, DuplicateTick(k) PROVE RowsAreConsistent'
  <2>1. Leases' = Valid /\ stale' = {} /\ queue' = Waiting
    BY <1>2, HeldRows DEF DuplicateTick, Leases, Valid
  <2>2. queue' \in SUBSET queue /\ queue' \cap Leases' = {}
    BY <2>1, OlderTickets DEF RowsAreConsistent, Valid, Waiting
  <2> QED BY <1>2, <2>1, <2>2, PurgeKeepsOrder DEF DuplicateTick, RowsAreConsistent
<1>3. ASSUME NEW w \in Worker, NEW k \in Task, Poll(w, k) PROVE RowsAreConsistent'
  BY <1>3, PollRows
<1>4. ASSUME NEW w \in Worker, End(w) PROVE RowsAreConsistent'
  <2>1. CASE Releases(w)
    <3>1. thread[w].task \in Task
      BY <1>4 DEF End, TypeOK, Running
    <3>2. Leases' = Leases \ {thread[w].task} /\ stale' = stale \ {thread[w].task}
      BY <1>4, <2>1, <3>1 DEF End, TypeOK, Leases
    <3> QED BY <1>4, <3>2 DEF End, RowsAreConsistent
  <2>2. CASE ~Releases(w)
    BY <1>4, <2>2 DEF End, RowsAreConsistent, Leases
  <2> QED BY <2>1, <2>2
<1>5. ASSUME NEW w \in Worker, Finish(w) \/ GiveUp(w) \/ Crash(w) PROVE RowsAreConsistent'
  BY <1>5 DEF Finish, GiveUp, Crash, RowsAreConsistent, Leases
<1>6. ASSUME NEW k \in Task, Stop(k) \/ Resume(k) PROVE RowsAreConsistent'
  BY <1>6 DEF Stop, Resume, RowsAreConsistent, Leases
<1>7. ASSUME NEW k \in Task, Expire(k) PROVE RowsAreConsistent'
  BY <1>7 DEF Expire, RowsAreConsistent, Leases
<1>8. ASSUME NEW n \in Limits, SetLimit(n) PROVE RowsAreConsistent'
  BY <1>8 DEF SetLimit, RowsAreConsistent, Leases
<1>9. CASE UNCHANGED vars
  BY <1>9 DEF vars, RowsAreConsistent, Leases
<1> QED BY <1>1, <1>2, <1>3, <1>4, <1>5, <1>6, <1>7, <1>8, <1>9 DEF Next, Acquire

(***************************************************************************)
(* The lease of a tick that Temporal waits for.                            *)
(***************************************************************************)
LEMMA TickStep ==
    ASSUME AdmissionInv, [Next]_vars
    PROVE  CurrentTickHoldsLease'
<1> SUFFICES ASSUME NEW v \in Worker, NEW j \in Task,
                    (Current(v, j) /\ thread[v].leased)'
             PROVE  ValidToken(v, j)'
  BY DEF CurrentTickHoldsLease
<1>1. TypeOK /\ RowsAreConsistent /\ v # Nobody
  BY AdmissionAssumption DEF AdmissionInv
(* What was true of an unchanged tick is enough in most cases.             *)
<1>2. thread'[v] = thread[v] => Current(v, j) /\ thread[v].leased /\ holder[j] = v /\ j \notin stale
  BY DEF AdmissionInv, CurrentTickHoldsLease, Current, Runs, ValidToken
<1>3. ASSUME NEW w \in Worker, NEW k \in Task, ControlOnly(w, k) PROVE ValidToken(v, j)'
  <2>1. v # w
    BY <1>1, <1>3, TickForms DEF ControlOnly, TypeOK
  <2>2. thread'[v] = thread[v]
    BY <1>1, <1>3, <2>1 DEF ControlOnly, TypeOK
  <2> QED BY <1>2, <1>3, <2>2 DEF ControlOnly, ValidToken
<1>4. ASSUME NEW k \in Task, DuplicateTick(k) PROVE ValidToken(v, j)'
  BY <1>1, <1>2, <1>4, HeldRows DEF DuplicateTick, ValidToken
<1>5. ASSUME NEW w \in Worker, NEW k \in Task, Acquire(w, k), Poll(w, k) PROVE ValidToken(v, j)'
  <2>1. CASE holder' = Held /\ thread' = thread
    BY <1>1, <1>2, <1>5, <2>1, HeldRows DEF Poll, ValidToken
  <2>2. CASE holder' = [Held EXCEPT ![k] = w] /\ thread' = [thread EXCEPT ![w] = NewTick(k, TRUE)]
    <3>1. CASE v = w
      <4>1. thread'[v] = NewTick(k, TRUE)
        BY <1>1, <2>2, <3>1 DEF TypeOK
      <4>2. j = k
        BY <4>1, TickForms DEF Current, Runs
      <4> QED BY <1>1, <1>5, <2>2, <3>1, <4>2, HeldRows DEF Poll, ValidToken
    <3>2. CASE v # w
      <4>1. thread'[v] = thread[v]
        BY <1>1, <2>2, <3>2 DEF TypeOK
      <4>2. j # k
        BY <1>2, <1>5, <4>1 DEF Acquire
      <4> QED BY <1>1, <1>2, <1>5, <2>2, <4>1, <4>2, HeldRows DEF Poll, ValidToken
    <3> QED BY <3>1, <3>2
  <2> QED BY <1>5, <2>1, <2>2 DEF Poll
<1>6. ASSUME NEW w \in Worker, GiveUp(w) PROVE ValidToken(v, j)'
  <2>1. CASE v = w
    <3>1. thread'[v].mode \in {"late", "abandoned"}
      BY <1>1, <1>6, <2>1 DEF GiveUp, TypeOK, Running
    <3> QED BY <3>1 DEF Current
  <2>2. CASE v # w
    BY <1>1, <1>2, <1>6, <2>2 DEF GiveUp, ValidToken, TypeOK
  <2> QED BY <2>1, <2>2
<1>7. ASSUME NEW w \in Worker, End(w) PROVE ValidToken(v, j)'
  <2>1. v # w
    BY <1>1, <1>7 DEF End, Current, Runs, TypeOK
  <2>2. thread'[v] = thread[v]
    BY <1>1, <1>7, <2>1 DEF End, TypeOK
  <2>3. holder'[j] = holder[j] /\ j \notin stale'
    BY <1>1, <1>2, <1>7, <2>1, <2>2 DEF End, Releases, TypeOK
  <2> QED BY <1>2, <2>2, <2>3 DEF ValidToken
<1>8. ASSUME NEW w \in Worker, Crash(w) PROVE ValidToken(v, j)'
  <2>1. v # w
    BY <1>1, <1>8 DEF Crash, Current, Runs, TypeOK
  <2> QED BY <1>1, <1>2, <1>8, <2>1 DEF Crash, ValidToken, TypeOK
<1>9. ASSUME NEW w \in Worker, Finish(w) PROVE ValidToken(v, j)'
  BY <1>2, <1>9 DEF Finish, ValidToken
<1>10. ASSUME NEW k \in Task, Stop(k) \/ Resume(k) PROVE ValidToken(v, j)'
  BY <1>2, <1>10 DEF Stop, Resume, ValidToken
<1>11. ASSUME NEW k \in Task, Expire(k) PROVE ValidToken(v, j)'
  <2>1. Current(v, j) /\ thread[v].leased /\ holder[j] = v /\ j \notin stale
    BY <1>2, <1>11 DEF Expire
  <2>2. j \notin queue /\ InUse(j)
    BY <1>1, <2>1 DEF RowsAreConsistent, Leases, InUse
  <2>3. j # k
    BY <1>11, <2>2 DEF Expire
  <2> QED BY <1>11, <2>1, <2>3 DEF Expire, ValidToken
<1>12. ASSUME NEW n \in Limits, SetLimit(n) PROVE ValidToken(v, j)'
  BY <1>2, <1>12 DEF SetLimit, ValidToken
<1>13. CASE UNCHANGED vars
  BY <1>2, <1>13 DEF vars, ValidToken
<1> QED BY <1>3, <1>4, <1>5, <1>6, <1>7, <1>8, <1>9, <1>10, <1>11, <1>12, <1>13 DEF Next, Acquire

(***************************************************************************)
(* The theorems.                                                           *)
(***************************************************************************)

(* The inductive invariant of admission holds, whatever the tasks, the     *)
(* threads and the limits.                                                 *)
THEOREM AdmissionInvariant == Spec => []AdmissionInv
<1>1. Init => AdmissionInv
  <2> SUFFICES ASSUME Init PROVE AdmissionInv
    OBVIOUS
  <2>1. RowsAreConsistent
    BY DEF Init, RowsAreConsistent, Leases
  <2>2. CurrentTickHoldsLease
    BY DEF Init, CurrentTickHoldsLease, Current, Runs
  <2> QED BY <2>1, <2>2, TypeInit DEF AdmissionInv
<1>2. AdmissionInv /\ [Next]_vars => AdmissionInv'
  BY TypeStep, RowsStep, TickStep DEF AdmissionInv
<1> QED BY <1>1, <1>2, PTL DEF Spec

(* A leased tick that Temporal waits for holds its lease: purges, late     *)
(* releases, stops and resumes never take it (scheduling.py:31-108).       *)
THEOREM LeasesAreKept == Spec => []CurrentTickHoldsLease
<1>1. AdmissionInv => CurrentTickHoldsLease
  BY DEF AdmissionInv
<1> QED BY <1>1, AdmissionInvariant, PTL

(* Only a poll that is admitted makes a row a valid lease.                 *)
LEMMA OnlyPollGrants ==
    ASSUME AdmissionInv, [Next]_vars, NEW j \in Valid' \ Valid
    PROVE  \E w \in Worker :
             /\ j \in Task /\ control[j] = "live"
             /\ Admitted(j) /\ j \notin Valid
             /\ limit' = MaxActive
             /\ queue' = Waiting \ {j}
             /\ Valid' = Valid \cup {j}
<1>1. TypeOK
  BY DEF AdmissionInv
<1>2. ASSUME NEW w \in Worker, NEW k \in Task, ControlOnly(w, k) PROVE FALSE
  BY <1>2 DEF ControlOnly, Valid, Leases
<1>3. ASSUME NEW k \in Task, DuplicateTick(k) PROVE FALSE
  BY <1>1, <1>3, HeldRows DEF DuplicateTick, Valid, Leases
<1>4. ASSUME NEW w \in Worker, Finish(w) \/ GiveUp(w) \/ Crash(w) PROVE FALSE
  BY <1>4 DEF Finish, GiveUp, Crash, Valid, Leases
<1>5. ASSUME NEW w \in Worker, End(w) PROVE FALSE
  BY <1>1, <1>5 DEF End, Valid, Leases, TypeOK
<1>6. ASSUME NEW k \in Task, Stop(k) \/ Resume(k) \/ Expire(k) PROVE FALSE
  BY <1>6 DEF Stop, Resume, Expire, Valid, Leases
<1>7. ASSUME NEW n \in Limits, SetLimit(n) PROVE FALSE
  BY <1>7 DEF SetLimit, Valid, Leases
<1>8. ~UNCHANGED vars
  BY DEF vars, Valid, Leases
<1>9. PICK w \in Worker, k \in Task : Poll(w, k)
  BY <1>2, <1>3, <1>4, <1>5, <1>6, <1>7, <1>8 DEF Next, Acquire
<1>10. k \notin Valid /\ stale' = {}
  BY <1>1, <1>9, HeldRows DEF Poll
<1>11. CASE holder' = Held
  BY <1>1, <1>10, <1>11, HeldRows DEF Valid, Leases
<1>12. CASE Admitted(k) /\ queue' = Waiting \ {k} /\ holder' = [Held EXCEPT ![k] = w]
  <2>1. Valid' = Valid \cup {k}
    BY <1>1, <1>10, <1>12, HeldRows, AdmissionAssumption DEF Valid, Leases
  <2>2. j = k
    BY <2>1
  <2> QED BY <1>9, <1>10, <1>12, <2>1, <2>2 DEF Poll
<1> QED BY <1>9, <1>11, <1>12 DEF Poll

(* Every grant keeps the tenant within its limit and leaves room for each  *)
(* older ticket (scheduling.py:70-96).                                     *)
THEOREM AdmissionIsInTurn == Spec => GrantsInTurn
<1>1. AdmissionInv /\ [Next]_vars =>
        [\A k \in Valid' \ Valid : Cardinality(Valid') + Cardinality(StillAhead(k)) <= limit']_vars
  <2> SUFFICES ASSUME AdmissionInv, [Next]_vars, NEW k \in Valid' \ Valid
               PROVE  Cardinality(Valid') + Cardinality(StillAhead(k)) <= limit'
    OBVIOUS
  <2>1. /\ k \in Task /\ control[k] = "live" /\ Admitted(k)
        /\ limit' = MaxActive /\ queue' = Waiting \ {k} /\ Valid' = Valid \cup {k}
    BY OnlyPollGrants
  <2>2. TypeOK
    BY DEF AdmissionInv
  <2>3. IsFiniteSet(Valid) /\ IsFiniteSet(Older(k))
    BY <2>1, <2>2, OlderTickets, FS_Subset, AdmissionAssumption DEF Valid, Leases
  <2>4. Cardinality(Valid') = Cardinality(Valid) + 1 /\ Cardinality(Valid) \in Nat
    BY <2>1, <2>3, FS_AddElement, FS_CardinalityType
  <2>5. StillAhead(k) \subseteq Older(k)
    BY <2>1 DEF StillAhead, Older, Waiting
  <2>6. /\ Cardinality(StillAhead(k)) <= Cardinality(Older(k))
        /\ Cardinality(StillAhead(k)) \in Nat /\ Cardinality(Older(k)) \in Nat
    BY <2>3, <2>5, FS_Subset, FS_CardinalityType
  <2>7. {i \in Task : Held[i] # Nobody} = Valid
    BY <2>2, HeldRows DEF Valid, Leases
  <2>8. Cardinality(Valid) + Cardinality(Older(k)) < MaxActive /\ MaxActive \in Nat
    BY <2>1, <2>2, <2>7, AdmissionAssumption DEF Admitted, Active, MaxActive, TypeOK
  <2> QED BY <2>1, <2>4, <2>6, <2>8
<1> QED BY <1>1, AdmissionInvariant, PTL DEF Spec, GrantsInTurn
=============================================================================
