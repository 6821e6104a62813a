------------------------ MODULE CircuitBreakerProofs ------------------------
(***************************************************************************)
(* Proofs about CircuitBreaker, for every set of readers and operators,    *)
(* every limit and any number of generations: CircuitInv is inductive, and *)
(* with it the safety properties that the runs check on two readers.       *)
(***************************************************************************)
EXTENDS CircuitBreaker, TLAPS

(* Records of the shapes the actions write are records of their types.     *)
LEMMA ReadStates ==
    /\ Idle \in ReadState
    /\ \A outcome \in Outcome : Completing(outcome) \in ReadState
    /\ \A left \in 0..Attempts : \A pc \in {"ready", "dead"} : Reading(pc, left) \in ReadState
BY CircuitAssumption DEF Idle, Completing, Reading, ReadState, Outcome

(* A limit is a natural number, whether or not the row has been made.      *)
LEMMA LimitIsNat ==
    ASSUME TypeOK
    PROVE  MaxInFlight \in Nat
BY CircuitAssumption DEF TypeOK, Circuit, MaxInFlight

(* A row is its six columns, and a record of such columns is a row.        *)
LEMMA RowColumns ==
    ASSUME NEW row \in Circuit
    PROVE  row = [state |-> row.state, failures |-> row.failures, cooling |-> row.cooling,
                  limit |-> row.limit, generation |-> row.generation, probe |-> row.probe]
BY DEF Circuit

LEMMA RowOf ==
    ASSUME NEW s \in {"CLOSED", "OPEN", "HALF_OPEN"}, NEW f \in 0..Threshold, NEW c \in BOOLEAN,
           NEW l \in Nat, NEW g \in Nat, NEW p \in Token \cup {NoToken}
    PROVE  [state |-> s, failures |-> f, cooling |-> c, limit |-> l, generation |-> g, probe |-> p]
             \in Circuit
BY DEF Circuit

LEMMA ColumnTypes ==
    ASSUME NEW row \in Circuit
    PROVE  /\ row.state \in {"CLOSED", "OPEN", "HALF_OPEN"} /\ row.failures \in 0..Threshold
           /\ row.cooling \in BOOLEAN /\ row.limit \in Nat /\ row.generation \in Nat
           /\ row.probe \in Token \cup {NoToken}
BY DEF Circuit

(* A probe's token is one, and in nobody's hands.                          *)
LEMMA ProbeIsNew ==
    ASSUME TypeOK, Probe
    PROVE  /\ circuit' \in Circuit
           /\ circuit'.state = "HALF_OPEN" /\ circuit'.generation = circuit.generation + 1
           /\ circuit'.probe \in Token
           /\ circuit'.probe # NoToken
           /\ \A q \in Reader : permit[q].probe # circuit'.probe
<1> DEFINE new == CHOOSE token \in FreshTokens : TRUE
<1>1. new \in FreshTokens
    BY DEF Probe
<1>2. new \in Token /\ new # NoToken /\ \A q \in Reader : permit[q].probe # new
    BY <1>1, CircuitAssumption DEF FreshTokens
<1>3. circuit' = [circuit EXCEPT !.state = "HALF_OPEN", !.cooling = TRUE, !.limit = MaxInFlight,
                                 !.generation = @ + 1, !.probe = new]
    BY DEF Probe
<1> HIDE DEF new
<1>4. circuit \in Circuit /\ MaxInFlight \in Nat
    BY LimitIsNat DEF TypeOK
<1>5. circuit' = [state |-> "HALF_OPEN", failures |-> circuit.failures, cooling |-> TRUE,
                  limit |-> MaxInFlight, generation |-> circuit.generation + 1, probe |-> new]
    <2>1. circuit = [state |-> circuit.state, failures |-> circuit.failures, cooling |-> circuit.cooling,
                     limit |-> circuit.limit, generation |-> circuit.generation, probe |-> circuit.probe]
        BY <1>4, RowColumns
    <2> QED
        BY <1>3, <2>1
<1>6. circuit'.state = "HALF_OPEN" /\ circuit'.generation = circuit.generation + 1 /\ circuit'.probe = new
    BY <1>5
<1>7. circuit' \in Circuit
    <2>1. circuit.failures \in 0..Threshold /\ circuit.generation + 1 \in Nat
        BY <1>4, ColumnTypes
    <2>2. new \in Token \cup {NoToken} /\ MaxInFlight \in Nat
        BY <1>2, <1>4
    <2>3. [state |-> "HALF_OPEN", failures |-> circuit.failures, cooling |-> TRUE,
           limit |-> MaxInFlight, generation |-> circuit.generation + 1, probe |-> new] \in Circuit
        BY <2>1, <2>2, RowOf
    <2> QED
        BY <1>5, <2>3
<1> QED
    BY <1>2, <1>6, <1>7

(* Initially the circuit is closed and nobody reads or resets it.          *)
LEMMA InitCircuit == Init => CircuitInv
<1> SUFFICES ASSUME Init
             PROVE  CircuitInv
    OBVIOUS
<1>1. 0 \in 0..Threshold /\ 0 < Threshold
    BY DEF Threshold
<1>2. circuit \in Circuit
    BY <1>1, RowOf DEF Init
<1>3. TypeOK
    BY <1>2, ReadStates DEF Init, TypeOK, Permit, NoPermit
<1>4. ClosedBelowThreshold
    BY <1>1 DEF Init, ClosedBelowThreshold
<1>5. PermitsMatchState /\ ResetsReadTheRow
    BY DEF Init, PermitsMatchState, ResetsReadTheRow
<1> QED
    BY <1>3, <1>4, <1>5 DEF CircuitInv

(* A permit is granted: one of many when closed, the only one otherwise.   *)
LEMMA AcquireReadKeeps ==
    ASSUME CircuitInv, NEW r \in Reader, Acquire(r), AcquireRead(r)
    PROVE  CircuitInv'
<1> DEFINE left == IF circuit.probe = NoToken THEN Attempts ELSE 1
<1>1. TypeOK
    BY DEF CircuitInv
<1>2. left \in 0..Attempts
    BY CircuitAssumption
<1>3. circuit' \in Circuit
      /\ circuit'.state = circuit.state /\ circuit'.cooling = circuit.cooling
      /\ circuit'.failures = circuit.failures
      /\ circuit'.generation = circuit.generation /\ circuit'.probe = circuit.probe
    BY <1>1, LimitIsNat DEF AcquireRead, TypeOK, Circuit
<1>4. permit' = [permit EXCEPT ![r] = [generation |-> circuit.generation, probe |-> circuit.probe]]
    BY <1>3 DEF AcquireRead, Grants
<1>5. [generation |-> circuit.generation, probe |-> circuit.probe] \in Permit
    BY <1>1 DEF TypeOK, Circuit, Permit
<1>6. reader' \in [Reader -> ReadState]
    <2>1. Reading("ready", left) \in ReadState
        BY <1>2, ReadStates
    <2> QED
        BY <1>1, <2>1 DEF AcquireRead, Grants, Goto, TypeOK
<1>7. leased' = leased \cup {r} /\ operator' = operator /\ overlapped' = overlapped
    BY DEF Acquire
<1>8. TypeOK'
    BY <1>1, <1>3, <1>4, <1>5, <1>6, <1>7 DEF TypeOK
<1>9. ClosedBelowThreshold'
    BY <1>3, <1>7 DEF CircuitInv, ClosedBelowThreshold
<1>10. ASSUME ~overlapped'
       PROVE  (PermitsMatchState /\ ResetsReadTheRow)'
    <2>1. PermitsMatchState /\ ResetsReadTheRow
        BY <1>7, <1>10 DEF CircuitInv
    <2>2. circuit.state = "CLOSED" /\ circuit.probe = NoToken /\ circuit.generation \in Nat
        BY <1>1, <2>1 DEF AcquireRead, PermitsMatchState, TypeOK, Circuit
    <2>3. permit \in [Reader -> Permit]
        BY <1>1 DEF TypeOK
    <2>4. permit'[r].generation = circuit.generation
        BY <1>4, <2>3
    <2> QED
        BY <1>3, <1>4, <1>7, <2>1, <2>2, <2>3, <2>4 DEF PermitsMatchState, ResetsReadTheRow
<1> QED
    BY <1>8, <1>9, <1>10 DEF CircuitInv

LEMMA AcquireProbeKeeps ==
    ASSUME CircuitInv, NEW r \in Reader, Acquire(r), AcquireProbe(r)
    PROVE  CircuitInv'
<1>1. TypeOK
    BY DEF CircuitInv
<1>2. Probe
    BY DEF AcquireProbe
<1>3. circuit' \in Circuit /\ circuit'.state = "HALF_OPEN" /\ circuit'.probe \in Token
      /\ circuit'.generation = circuit.generation + 1 /\ circuit'.probe # NoToken
      /\ \A q \in Reader : permit[q].probe # circuit'.probe
    BY <1>1, <1>2, ProbeIsNew
<1>4. permit' = [permit EXCEPT ![r] = [generation |-> circuit'.generation, probe |-> circuit'.probe]]
    BY DEF AcquireProbe, Grants
<1>5. [generation |-> circuit'.generation, probe |-> circuit'.probe] \in Permit
    BY <1>3 DEF Circuit, Permit
<1>6. reader' \in [Reader -> ReadState]
    <2>1. Reading("ready", 1) \in ReadState
        BY ReadStates, CircuitAssumption
    <2> QED
        BY <1>1, <2>1 DEF AcquireProbe, Grants, Goto, TypeOK
<1>7. leased' = leased \cup {r} /\ operator' = operator /\ overlapped' = overlapped
    BY DEF Acquire
<1>8. TypeOK'
    BY <1>1, <1>3, <1>4, <1>5, <1>6, <1>7 DEF TypeOK
<1>9. ClosedBelowThreshold'
    BY <1>3 DEF ClosedBelowThreshold
<1>10. ASSUME ~overlapped'
       PROVE  (PermitsMatchState /\ ResetsReadTheRow)'
    <2>1. PermitsMatchState /\ ResetsReadTheRow
        BY <1>7, <1>10 DEF CircuitInv
    <2>2. circuit.generation \in Nat /\ permit \in [Reader -> Permit] /\ leased \subseteq Reader
          /\ operator \in [Operator -> SUBSET Snapshot]
        BY <1>1 DEF TypeOK, Circuit
    <2>3. permit'[r].probe = circuit'.probe /\ permit'[r].generation = circuit'.generation
          /\ \A q \in Reader \ {r} : permit'[q] = permit[q]
        BY <1>4, <2>2
    <2>4. \A q \in leased' : permit'[q].generation <= circuit'.generation
        BY <1>3, <1>7, <2>1, <2>2, <2>3 DEF PermitsMatchState, Permit
    <2>5. \A q, u \in Reader : permit'[q].probe = circuit'.probe /\ permit'[u].probe = circuit'.probe
                                 => q = u
        BY <1>3, <2>3
    <2>6. PermitsMatchState'
        BY <1>3, <2>4, <2>5 DEF PermitsMatchState
    <2>7. ResetsReadTheRow'
        BY <1>3, <1>7, <2>1, <2>2 DEF ResetsReadTheRow, Snapshot
    <2> QED
        BY <2>6, <2>7
<1> QED
    BY <1>8, <1>9, <1>10 DEF CircuitInv

(* Reading goes on: the row, the leases, the permits and the resets stay.  *)
LEMMA ReaderMoves ==
    ASSUME CircuitInv, NEW r \in Reader, NEW where \in ReadState, Goto(r, where),
           UNCHANGED <<circuit, leased, permit, operator, overlapped>>
    PROVE  CircuitInv'
BY DEF CircuitInv, TypeOK, PermitsMatchState, ResetsReadTheRow, ClosedBelowThreshold, Goto

LEMMA ReadKeeps ==
    ASSUME CircuitInv, NEW r \in Reader, Ask(r) \/ Answer(r) \/ Accept(r)
    PROVE  CircuitInv'
<1>1. reader[r] \in ReadState
    BY DEF CircuitInv, TypeOK
<1>2. \A outcome \in {"none", "failure", "limited", "success"} : Completing(outcome) \in ReadState
    BY ReadStates DEF Outcome
<1>3. \A pc \in {"asked", "answered"} : [reader[r] EXCEPT !.pc = pc] \in ReadState
    BY <1>1 DEF ReadState
<1>4. CASE Ask(r)
    BY <1>2, <1>3, <1>4, ReaderMoves DEF Ask
<1>5. CASE Answer(r)
    <2>1. reader[r].left \in 0..Attempts
        BY <1>1 DEF ReadState
    <2>2. reader[r].left > 1 => Reading("ready", reader[r].left - 1) \in ReadState
        BY <2>1, ReadStates, CircuitAssumption
    <2> QED
        BY <1>2, <1>3, <1>5, <2>2, ReaderMoves DEF Answer, Retries
<1>6. CASE Accept(r)
    BY <1>2, <1>6, ReaderMoves DEF Accept
<1> QED
    BY <1>4, <1>5, <1>6

(* Leases that end take nothing from the invariant, with the row that      *)
(* stays or changes as the assumptions say.                                *)
LEMMA LeasesEnd ==
    ASSUME CircuitInv, NEW readers \in SUBSET Reader, LosesLease(readers),
           reader' \in [Reader -> ReadState],
           UNCHANGED <<operator, overlapped>>,
           circuit' \in Circuit,
           ~overlapped =>
             /\ circuit'.state = "CLOSED" => ~circuit'.cooling /\ circuit'.failures < Threshold
             /\ circuit'.state = "HALF_OPEN" <=> circuit'.probe # NoToken
             /\ \/ circuit'.generation = circuit.generation + 1 /\ circuit'.probe = NoToken
                \/ /\ circuit'.generation = circuit.generation /\ circuit'.probe = circuit.probe
                   /\ circuit'.state = circuit.state
                   /\ circuit.state = "CLOSED" \/ circuit'.failures = circuit.failures
    PROVE  CircuitInv'
<1>1. TypeOK /\ circuit.generation \in Nat /\ permit \in [Reader -> Permit] /\ leased \subseteq Reader
      /\ operator \in [Operator -> SUBSET Snapshot]
    BY DEF CircuitInv, TypeOK, Circuit
<1>2. leased' = leased \ readers
      /\ permit' = [q \in Reader |-> IF q \in readers THEN NoPermit ELSE permit[q]]
    BY DEF LosesLease
<1>3. TypeOK'
    BY <1>1, <1>2 DEF TypeOK, NoPermit, Permit
<1>4. ClosedBelowThreshold'
    BY DEF ClosedBelowThreshold
<1>5. ASSUME ~overlapped'
      PROVE  (PermitsMatchState /\ ResetsReadTheRow)'
    <2>1. PermitsMatchState /\ ResetsReadTheRow /\ ~overlapped
        BY <1>5 DEF CircuitInv
    <2>2. \A q \in leased' : q \in leased /\ permit'[q] = permit[q]
        BY <1>1, <1>2
    <2>3. \A q \in leased : permit[q].generation \in Nat
        BY <1>1 DEF Permit
    <2>4. \A q \in leased' : /\ permit'[q].generation <= circuit'.generation
                             /\ circuit'.state = "OPEN" => permit'[q].generation < circuit'.generation
        BY <1>1, <2>1, <2>2, <2>3 DEF PermitsMatchState
    <2>5. circuit'.probe # NoToken =>
            \A q, u \in Reader : permit'[q].probe = circuit'.probe /\ permit'[u].probe = circuit'.probe
                                   => q = u
        BY <1>2, <2>1 DEF PermitsMatchState, NoPermit
    <2>6. PermitsMatchState'
        BY <2>1, <2>4, <2>5 DEF PermitsMatchState
    <2>7. ResetsReadTheRow'
        BY <1>1, <2>1 DEF ResetsReadTheRow, Snapshot
    <2> QED
        BY <2>6, <2>7
<1> QED
    BY <1>3, <1>4, <1>5 DEF CircuitInv

(* A read ends: what it counts depends on its permit and its outcome.      *)
LEMMA FailuresAreCounted ==
    ASSUME CircuitInv, NEW outcome \in Outcome
    PROVE  FailuresAfter(outcome) \in 0..Threshold
BY DEF CircuitInv, TypeOK, Circuit, FailuresAfter, Threshold

(* Nobody counts while the circuit is open.                                *)
LEMMA OpenCountsNobody ==
    ASSUME CircuitInv, ~overlapped, NEW r \in Reader, Counts(r)
    PROVE  circuit.state \in {"CLOSED", "HALF_OPEN"}
<1>1. r \in leased /\ permit[r].generation = circuit.generation /\ circuit.generation \in Nat
    BY DEF CircuitInv, TypeOK, Circuit, Counts, Matches
<1>2. PermitsMatchState /\ circuit.state \in {"CLOSED", "OPEN", "HALF_OPEN"}
    BY DEF CircuitInv, TypeOK, Circuit
<1> QED
    BY <1>1, <1>2 DEF PermitsMatchState

LEMMA CompleteKeeps ==
    ASSUME CircuitInv, NEW r \in Reader, Complete(r)
    PROVE  CircuitInv'
<1> DEFINE outcome == reader[r].outcome
<1>1. outcome \in Outcome /\ circuit \in Circuit /\ 0 \in 0..Threshold /\ 0 < Threshold
    BY DEF CircuitInv, TypeOK, ReadState, Threshold
<1>2. LosesLease({r}) /\ reader' \in [Reader -> ReadState] /\ UNCHANGED <<operator, overlapped>>
    BY ReadStates DEF Complete, Goto, CircuitInv, TypeOK
<1>3. ~overlapped => PermitsMatchState /\ (circuit.state = "CLOSED" => circuit.failures < Threshold)
    BY DEF CircuitInv, ClosedBelowThreshold
<1>4. CASE Counts(r) /\ Closes
    <2>1. circuit' \in Circuit /\ circuit'.state = "CLOSED" /\ circuit'.probe = NoToken
          /\ circuit'.failures = 0 /\ ~circuit'.cooling
          /\ circuit'.generation = IF circuit.state = "HALF_OPEN" THEN circuit.generation + 1
                                                                  ELSE circuit.generation
        <3> DEFINE g == IF circuit.state = "HALF_OPEN" THEN circuit.generation + 1
                                                       ELSE circuit.generation
        <3>1. circuit = [state |-> circuit.state, failures |-> circuit.failures,
                         cooling |-> circuit.cooling, limit |-> circuit.limit,
                         generation |-> circuit.generation, probe |-> circuit.probe]
            BY <1>1, RowColumns
        <3>2. circuit' = [state |-> "CLOSED", failures |-> 0, cooling |-> FALSE,
                          limit |-> circuit.limit, generation |-> g, probe |-> NoToken]
            BY <1>4, <3>1 DEF Closes
        <3>3. g \in Nat
            BY <1>1, ColumnTypes
        <3> HIDE DEF g
        <3>4. circuit' \in Circuit
            BY <1>1, <3>2, <3>3, RowOf, ColumnTypes
        <3> QED
            BY <3>2, <3>4 DEF g
    <2>2. ~overlapped /\ circuit.state # "HALF_OPEN" =>
            circuit.state = "CLOSED" /\ circuit.probe = NoToken
        BY <1>3, <1>4, OpenCountsNobody DEF PermitsMatchState
    <2> QED
        BY <1>1, <1>2, <2>1, <2>2, LeasesEnd
<1>5. CASE Counts(r) /\ outcome # "success" /\ Fails(outcome)
    <2>1. FailuresAfter(outcome) \in 0..Threshold
        BY <1>1, FailuresAreCounted
    <2>2. CASE Opens(outcome)
        <3>1. circuit' = [circuit EXCEPT !.state = "OPEN", !.cooling = TRUE, !.probe = NoToken,
                                         !.generation = @ + 1, !.failures = FailuresAfter(outcome)]
            BY <1>5, <2>2 DEF Fails
        <3>2. circuit' \in Circuit /\ circuit'.state = "OPEN" /\ circuit'.probe = NoToken
              /\ circuit'.generation = circuit.generation + 1
            <4>1. circuit = [state |-> circuit.state, failures |-> circuit.failures,
                             cooling |-> circuit.cooling, limit |-> circuit.limit,
                             generation |-> circuit.generation, probe |-> circuit.probe]
                BY <1>1, RowColumns
            <4>2. circuit' = [state |-> "OPEN", failures |-> FailuresAfter(outcome), cooling |-> TRUE,
                              limit |-> circuit.limit, generation |-> circuit.generation + 1,
                              probe |-> NoToken]
                BY <3>1, <4>1
            <4>3. circuit.limit \in Nat /\ circuit.generation + 1 \in Nat
                BY <1>1, ColumnTypes
            <4>4. circuit' \in Circuit
                BY <2>1, <4>2, <4>3, RowOf
            <4> QED
                BY <4>2, <4>4
        <3> QED
            BY <1>2, <3>2, LeasesEnd
    <2>3. CASE ~Opens(outcome)
        <3>1. circuit' = [circuit EXCEPT !.failures = FailuresAfter(outcome)]
            BY <1>5, <2>3 DEF Fails
        <3>2. circuit' \in Circuit /\ circuit'.state = circuit.state /\ circuit'.probe = circuit.probe
              /\ circuit'.generation = circuit.generation /\ circuit'.cooling = circuit.cooling
              /\ circuit'.failures = FailuresAfter(outcome)
            BY <1>1, <2>1, <3>1 DEF Circuit
        <3>3. ~overlapped => circuit.state = "CLOSED"
            BY <1>5, <2>3, OpenCountsNobody DEF Opens
        <3>4. circuit.failures \in 0..Threshold
            BY <1>1 DEF Circuit
        <3>5. ~overlapped => FailuresAfter(outcome) < Threshold
            BY <1>1, <1>3, <1>5, <2>1, <2>3, <3>3, <3>4
               DEF Opens, FailuresAfter, Outcome, Threshold
        <3>6. ~overlapped => ~circuit.cooling /\ (circuit.state = "HALF_OPEN" <=> circuit.probe # NoToken)
            BY <1>3, <3>3 DEF PermitsMatchState
        <3> QED
            BY <1>2, <3>2, <3>3, <3>5, <3>6, LeasesEnd
    <2> QED
        BY <2>2, <2>3
<1>6. CASE UNCHANGED circuit
    <2>1. ~overlapped => /\ circuit.state = "CLOSED" => ~circuit.cooling /\ circuit.failures < Threshold
                         /\ circuit.state = "HALF_OPEN" <=> circuit.probe # NoToken
        BY <1>3 DEF PermitsMatchState
    <2> QED
        BY <1>1, <1>2, <1>6, <2>1, LeasesEnd
<1> QED
    BY <1>4, <1>5, <1>6 DEF Complete

(* Operators reset the circuit: a reset that was not overlapped leaves it  *)
(* closed, with a generation of its own.                                   *)
LEMMA ReadForResetKeeps ==
    ASSUME CircuitInv, NEW p \in Operator, ReadForReset(p)
    PROVE  CircuitInv'
<1> DEFINE old == [generation |-> circuit.generation, closed |-> circuit.state = "CLOSED",
                   counted |-> circuit.failures # 0, probing |-> circuit.probe # NoToken]
<1>1. circuit \in Circuit /\ operator \in [Operator -> SUBSET Snapshot]
    BY DEF CircuitInv, TypeOK
<1>2. operator' = [operator EXCEPT ![p] = {old}]
      /\ UNCHANGED <<circuit, leased, permit, reader, overlapped>>
    BY DEF ReadForReset
<1>3. old \in Snapshot /\ old.generation = circuit.generation
      /\ (old.closed <=> circuit.state = "CLOSED") /\ (old.counted <=> circuit.failures # 0)
      /\ (old.probing <=> circuit.probe # NoToken)
    BY <1>1 DEF Circuit, Snapshot
<1> HIDE DEF old
<1>4. circuit.generation \in Nat
    BY <1>1 DEF Circuit
<1>5. TypeOK'
    BY <1>1, <1>2, <1>3 DEF CircuitInv, TypeOK
<1>6. ASSUME ResetsReadTheRow
      PROVE  ResetsReadTheRow'
    <2> SUFFICES ASSUME NEW q \in Operator, NEW o \in operator'[q]
                 PROVE  /\ o.generation <= circuit.generation
                        /\ o.generation = circuit.generation =>
                             /\ o.closed <=> circuit.state = "CLOSED"
                             /\ o.probing <=> circuit.probe # NoToken
                             /\ ~o.closed => (o.counted <=> circuit.failures # 0)
        BY <1>2 DEF ResetsReadTheRow
    <2>1. o = old \/ o \in operator[q]
        BY <1>1, <1>2
    <2> QED
        BY <1>3, <1>4, <1>6, <2>1 DEF ResetsReadTheRow
<1>7. PermitsMatchState => PermitsMatchState'
    BY <1>2 DEF PermitsMatchState
<1> QED
    BY <1>2, <1>5, <1>6, <1>7 DEF CircuitInv, ClosedBelowThreshold

LEMMA CommitResetKeeps ==
    ASSUME CircuitInv, NEW p \in Operator, CommitReset(p)
    PROVE  CircuitInv'
<1>1. PICK old \in operator[p] :
        /\ circuit' = [circuit EXCEPT !.generation = old.generation + 1,
                                      !.state = IF old.closed THEN @ ELSE "CLOSED",
                                      !.cooling = IF old.closed THEN @ ELSE FALSE,
                                      !.failures = IF old.counted THEN 0 ELSE @,
                                      !.probe = IF old.probing THEN NoToken ELSE @]
        /\ operator' = [operator EXCEPT ![p] = {}]
        /\ overlapped' = (overlapped \/ old.generation # circuit.generation)
        /\ UNCHANGED <<leased, permit, reader>>
    BY DEF CommitReset
<1>2. TypeOK /\ circuit \in Circuit /\ operator \in [Operator -> SUBSET Snapshot]
      /\ permit \in [Reader -> Permit] /\ leased \subseteq Reader
    BY DEF CircuitInv, TypeOK
<1>3. old \in Snapshot /\ 0 \in 0..Threshold /\ 0 < Threshold
    BY <1>2 DEF Threshold
<1>4. circuit'.generation = old.generation + 1
      /\ circuit'.state = (IF old.closed THEN circuit.state ELSE "CLOSED")
      /\ circuit'.cooling = (IF old.closed THEN circuit.cooling ELSE FALSE)
      /\ circuit'.failures = (IF old.counted THEN 0 ELSE circuit.failures)
      /\ circuit'.probe = (IF old.probing THEN NoToken ELSE circuit.probe)
      /\ circuit' \in Circuit
    <2>1. circuit = [state |-> circuit.state, failures |-> circuit.failures, cooling |-> circuit.cooling,
                     limit |-> circuit.limit, generation |-> circuit.generation, probe |-> circuit.probe]
        BY <1>2, RowColumns
    <2>2. circuit' = [state |-> IF old.closed THEN circuit.state ELSE "CLOSED",
                      failures |-> IF old.counted THEN 0 ELSE circuit.failures,
                      cooling |-> IF old.closed THEN circuit.cooling ELSE FALSE,
                      limit |-> circuit.limit, generation |-> old.generation + 1,
                      probe |-> IF old.probing THEN NoToken ELSE circuit.probe]
        BY <1>1, <2>1
    <2>3. old.generation + 1 \in Nat
        BY <1>3 DEF Snapshot
    <2> DEFINE st == IF old.closed THEN circuit.state ELSE "CLOSED"
               fl == IF old.counted THEN 0 ELSE circuit.failures
               co == IF old.closed THEN circuit.cooling ELSE FALSE
               pr == IF old.probing THEN NoToken ELSE circuit.probe
    <2>4. /\ st \in {"CLOSED", "OPEN", "HALF_OPEN"} /\ fl \in 0..Threshold /\ co \in BOOLEAN
          /\ pr \in Token \cup {NoToken} /\ circuit.limit \in Nat
        <3>1. /\ circuit.state \in {"CLOSED", "OPEN", "HALF_OPEN"} /\ circuit.failures \in 0..Threshold
              /\ circuit.cooling \in BOOLEAN /\ circuit.probe \in Token \cup {NoToken}
              /\ circuit.limit \in Nat
            BY <1>2, ColumnTypes
        <3> QED
            BY <1>3, <3>1
    <2>5. circuit' = [state |-> st, failures |-> fl, cooling |-> co, limit |-> circuit.limit,
                      generation |-> old.generation + 1, probe |-> pr]
        BY <2>2
    <2> HIDE DEF st, fl, co, pr
    <2>6. circuit' \in Circuit
        <3>1. [state |-> st, failures |-> fl, cooling |-> co, limit |-> circuit.limit,
               generation |-> old.generation + 1, probe |-> pr] \in Circuit
            BY <2>3, <2>4, RowOf
        <3> QED
            BY <2>5, <3>1
    <2> QED
        BY <2>2, <2>6
<1>5. TypeOK'
    BY <1>1, <1>2, <1>4 DEF TypeOK
<1>6. ASSUME ~overlapped'
      PROVE  (PermitsMatchState /\ ResetsReadTheRow /\ ClosedBelowThreshold)'
    <2>1. ~overlapped /\ old.generation = circuit.generation /\ circuit.generation \in Nat
        BY <1>1, <1>2, <1>6 DEF Circuit
    <2>2. PermitsMatchState /\ ResetsReadTheRow /\ ClosedBelowThreshold
        BY <2>1 DEF CircuitInv
    <2>3. /\ old.closed <=> circuit.state = "CLOSED"
          /\ old.probing <=> circuit.probe # NoToken
          /\ ~old.closed => (old.counted <=> circuit.failures # 0)
        BY <2>1, <2>2 DEF ResetsReadTheRow
    <2>4. circuit'.state = "CLOSED" /\ circuit'.probe = NoToken /\ ~circuit'.cooling
          /\ circuit'.generation = circuit.generation + 1 /\ circuit'.failures < Threshold
        BY <1>3, <1>4, <2>1, <2>2, <2>3 DEF PermitsMatchState, ClosedBelowThreshold
    <2>5. \A q \in leased : permit[q].generation \in Nat
        BY <1>2 DEF Permit
    <2>6. PermitsMatchState'
        BY <1>1, <2>1, <2>2, <2>4, <2>5 DEF PermitsMatchState
    <2>7. ASSUME NEW q \in Operator, NEW o \in operator'[q]
          PROVE  o.generation < circuit'.generation
        <3>1. o \in operator[q] /\ o.generation \in Nat
            BY <1>1, <1>2, <2>7 DEF Snapshot
        <3> QED
            BY <2>1, <2>2, <2>4, <3>1 DEF ResetsReadTheRow
    <2>8. ResetsReadTheRow'
        <3>1. \A q \in Operator : \A o \in operator'[q] : o.generation \in Nat
            BY <1>5 DEF TypeOK, Snapshot
        <3>2. circuit'.generation \in Nat
            BY <1>4 DEF Circuit
        <3> QED
            BY <2>7, <3>1, <3>2 DEF ResetsReadTheRow
    <2> QED
        BY <2>4, <2>6, <2>8 DEF ClosedBelowThreshold
<1> QED
    BY <1>5, <1>6 DEF CircuitInv, ClosedBelowThreshold

(* Limits, time and dying processes.                                       *)
LEMMA SurroundingsKeep ==
    ASSUME CircuitInv,
           \/ Cool
           \/ \E n \in Limits : SetLimit(n)
           \/ \E r \in Reader : Expire(r) \/ Crash(r) \/ Bury(r)
    PROVE  CircuitInv'
<1>1. circuit \in Circuit /\ reader \in [Reader -> ReadState]
    BY DEF CircuitInv, TypeOK
<1>2. ~overlapped =>
        /\ circuit.state = "CLOSED" => ~circuit.cooling /\ circuit.failures < Threshold
        /\ circuit.state = "HALF_OPEN" <=> circuit.probe # NoToken
    BY DEF CircuitInv, PermitsMatchState, ClosedBelowThreshold
<1>3. CASE Cool
    <2>1. circuit' = [circuit EXCEPT !.cooling = FALSE] /\ UNCHANGED <<reader, operator, overlapped>>
        BY <1>3 DEF Cool
    <2>2. circuit' \in Circuit /\ circuit'.state = circuit.state /\ circuit'.probe = circuit.probe
          /\ circuit'.generation = circuit.generation /\ circuit'.failures = circuit.failures
          /\ ~circuit'.cooling
        BY <1>1, <2>1 DEF Circuit
    <2>3. {r \in leased : Probes(r)} \in SUBSET Reader
        BY DEF CircuitInv, TypeOK
    <2>4. LosesLease({r \in leased : Probes(r)})
        BY <1>3 DEF Cool
    <2> QED
        BY <1>1, <1>2, <2>1, <2>2, <2>3, <2>4, LeasesEnd
<1>4. ASSUME NEW n \in Limits, SetLimit(n)
      PROVE  CircuitInv'
    <2>1. circuit' \in Circuit /\ circuit'.state = circuit.state /\ circuit'.probe = circuit.probe
          /\ circuit'.generation = circuit.generation /\ circuit'.failures = circuit.failures
          /\ circuit'.cooling = circuit.cooling
        BY <1>1, <1>4, CircuitAssumption DEF SetLimit, Circuit
    <2> QED
        BY <1>4, <2>1 DEF SetLimit, CircuitInv, TypeOK, PermitsMatchState, ResetsReadTheRow,
                          ClosedBelowThreshold
<1>5. ASSUME NEW r \in Reader, Expire(r)
      PROVE  CircuitInv'
    BY <1>1, <1>2, <1>5, LeasesEnd DEF Expire
<1>6. ASSUME NEW r \in Reader, Crash(r)
      PROVE  CircuitInv'
    <2>1. Reading("dead", 0) \in ReadState
        BY ReadStates, CircuitAssumption
    <2> QED
        BY <1>6, <2>1, ReaderMoves DEF Crash
<1>7. ASSUME NEW r \in Reader, Bury(r)
      PROVE  CircuitInv'
    BY <1>7, ReadStates, ReaderMoves DEF Bury
<1> QED
    BY <1>3, <1>4, <1>5, <1>6, <1>7

LEMMA CircuitStep == CircuitInv /\ [Next]_vars => CircuitInv'
<1> SUFFICES ASSUME CircuitInv, [Next]_vars
             PROVE  CircuitInv'
    OBVIOUS
<1>1. CASE UNCHANGED vars
    BY <1>1 DEF vars, CircuitInv, TypeOK, PermitsMatchState, ResetsReadTheRow, ClosedBelowThreshold
<1>2. CASE Next
    BY <1>2, AcquireReadKeeps, AcquireProbeKeeps, ReadKeeps, CompleteKeeps, ReadForResetKeeps,
       CommitResetKeeps, SurroundingsKeep DEF Next, Acquire
<1> QED
    BY <1>1, <1>2

(* The row, the leases and the permits keep their types; and as long as no *)
(* reset was written over a change that it had not read, no permit is      *)
(* ahead of the row, at most one has its probe token, none matches an open *)
(* row, and a closed circuit is below its threshold.                       *)
THEOREM CircuitInvariant == Spec => []CircuitInv
BY InitCircuit, CircuitStep, PTL DEF Spec

(* While the circuit is not closed at most one read is let through, and    *)
(* none while it is open, for any number of readers and operators, as long *)
(* as no reset was overlapped.                                             *)
THEOREM SingleProbe == Spec => []OneProbe
<1>1. ASSUME CircuitInv
      PROVE  OneProbe
    <2> SUFFICES ASSUME ~overlapped
                 PROVE  /\ circuit.state = "OPEN" => \A r \in Reader : ~Permitted(r) /\ ~Counts(r)
                        /\ circuit.state = "HALF_OPEN" =>
                             \A r, s \in Reader : Permitted(r) /\ Permitted(s) => r = s
        BY DEF OneProbe
    <2>1. circuit.state = "OPEN" => \A r \in Reader : ~Permitted(r) /\ ~Counts(r)
        BY <1>1, OpenCountsNobody DEF Permitted
    <2>2. PermitsMatchState
        BY <1>1 DEF CircuitInv
    <2>3. \A r \in Reader : Permitted(r) => permit[r].probe = circuit.probe
        BY DEF Permitted, Matches
    <2> QED
        BY <2>1, <2>2, <2>3 DEF PermitsMatchState
<1> QED
    BY <1>1, CircuitInvariant, PTL

(* However outcomes of different kinds arrive, failures open the circuit.  *)
THEOREM ThresholdOpens == Spec => []ClosedBelowThreshold
<1>1. CircuitInv => ClosedBelowThreshold
    BY DEF CircuitInv
<1> QED
    BY <1>1, CircuitInvariant, PTL

(* No reader, however late its completion, closes a circuit that is open,  *)
(* as long as no reset was overlapped.                                     *)
THEOREM OnlyProbesClose == Spec => ClosesByProbe
<1> DEFINE A == ~overlapped /\ circuit.state = "OPEN" /\ circuit'.state = "CLOSED" => UNCHANGED reader
<1>1. ASSUME CircuitInv, [Next]_vars
      PROVE  [A]_vars
    <2> SUFFICES ASSUME Next, ~overlapped, circuit.state = "OPEN", circuit'.state = "CLOSED"
                 PROVE  UNCHANGED reader
        BY <1>1
    <2>1. ASSUME NEW r \in Reader
          PROVE  ~Acquire(r) /\ ~Complete(r)
        <3>1. ~AcquireRead(r)
            BY DEF AcquireRead
        <3>2. ~AcquireProbe(r)
            BY <1>1, ProbeIsNew DEF AcquireProbe, CircuitInv
        <3>3. ~Counts(r)
            BY <1>1, OpenCountsNobody
        <3> QED
            BY <3>1, <3>2, <3>3 DEF Acquire, Complete
    <2>2. ASSUME NEW r \in Reader
          PROVE  ~Ask(r) /\ ~Answer(r) /\ ~Accept(r) /\ ~Expire(r) /\ ~Crash(r) /\ ~Bury(r)
        BY <2>2 DEF Ask, Answer, Accept, Expire, Crash, Bury
    <2> QED
        BY <2>1, <2>2 DEF Next, ReadForReset, CommitReset, Cool, SetLimit
<1> QED
    BY <1>1, CircuitInvariant, PTL DEF Spec, ClosesByProbe
=============================================================================
