----------------------- MODULE InferenceLedgerProofs -----------------------
(***************************************************************************)
(* One paid request and one saved decision a call, books that balance and  *)
(* money that is covered, for any tasks, calls, requests and threads.      *)
(***************************************************************************)
EXTENDS InferenceLedger, FiniteSetTheorems, WellFoundedInduction, TLAPS

(* The places of a thread are of the right type and told apart by pc.      *)
LEMMA Places ==
    ASSUME NEW c \in Call, NEW q \in Request
    PROVE  /\ Idle \in Generation /\ Idle.pc = "idle"
           /\ \A pc \in {"bind", "claim", "send"} :
                /\ At(pc, c, q) \in Generation
                /\ At(pc, c, q).pc = pc /\ At(pc, c, q).call = c /\ At(pc, c, q).request = q
           /\ \A pc \in {"settle", "returned"}, actual \in Nat, d \in Decision \cup {None} :
                /\ Holding(pc, c, q, actual, d) \in Generation
                /\ Holding(pc, c, q, actual, d).pc = pc
                /\ Holding(pc, c, q, actual, d).call = c
                /\ Holding(pc, c, q, actual, d).request = q
                /\ Holding(pc, c, q, actual, d).actual = actual
                /\ Holding(pc, c, q, actual, d).decision = d
  BY DEF Idle, At, Holding, Generation

LEMMA CallInit == Init => CallInv
<1> SUFFICES ASSUME Init PROVE CallInv
  OBVIOUS
<1>1. NoRow \in Reservation
  BY InferenceAssumption DEF NoRow, Reservation, Day
<1>2. RowTypes
  BY <1>1, InferenceAssumption DEF Init, RowTypes, Generation, Day
<1>3. \A w \in Thread : thread[w].pc = "idle"
  BY DEF Init, Idle
<1>4. BusyIsAlone /\ BoundToRow /\ ReturnedIsSaved
  BY <1>3 DEF BusyIsAlone, BoundToRow, ReturnedIsSaved, Busy
<1>5. RowsAreHonest
  BY DEF Init, RowsAreHonest, NoRow
<1> QED BY <1>2, <1>4, <1>5 DEF CallInv

(* A thread that goes where nothing is claimed of it, while the rows of    *)
(* calls keep what the others rely on.                                     *)
LEMMA QuietStep ==
    ASSUME CallInv, NEW w \in Thread, NEW where \in Generation,
           where.pc \in {"idle", "bind"}, Goto(w, where), UNCHANGED <<today, provider>>,
           reservation' \in [Call -> Reservation],
           \A c \in Call : /\ reservation'[c].request = reservation[c].request
                           /\ reservation'[c].dispatched = reservation[c].dispatched
                           /\ reservation'[c].settled = reservation[c].settled
                           /\ reservation'[c].decision = reservation[c].decision
                           /\ reservation'[c].actual = reservation[c].actual
    PROVE  CallInv'
<1>1. thread' = [thread EXCEPT ![w] = where] /\ thread \in [Thread -> Generation]
  BY DEF Goto, CallInv, RowTypes
<1>2. RowTypes'
  BY <1>1 DEF CallInv, RowTypes
<1>3. \A v \in Thread : thread'[v] = thread[v] \/ thread'[v].pc \in {"idle", "bind"}
  BY <1>1
<1>4. \A v \in Thread, c \in Call : Busy(v, c)' => Busy(v, c) /\ thread'[v] = thread[v]
  BY <1>3 DEF Busy
<1>5. BusyIsAlone'
  BY <1>4 DEF CallInv, BusyIsAlone
<1>6. \A v \in Thread : thread[v].pc \in {"claim", "send", "settle", "returned"} => thread[v].call \in Call
  BY DEF CallInv, RowTypes, Generation, Idle
<1>7. BoundToRow'
  BY <1>3, <1>6 DEF CallInv, BoundToRow
<1>8. ReturnedIsSaved'
  BY <1>3, <1>6 DEF CallInv, ReturnedIsSaved
<1>9. RowsAreHonest'
  BY DEF CallInv, RowsAreHonest
<1> QED BY <1>2, <1>5, <1>7, <1>8, <1>9 DEF CallInv

LEMMA ReserveStep ==
    ASSUME CallInv, NEW w \in Thread, NEW c \in Call, NEW q \in Request, Reserve(w, c, q)
    PROVE  CallInv'
<1>1. At("bind", c, q) \in Generation /\ At("bind", c, q).pc = "bind"
  BY Places
<1>2. CASE UNCHANGED reservation
  BY <1>1, <1>2, QuietStep DEF Reserve, CallInv, RowTypes
<1>3. CASE NewReservation(c, Maximum[q])
  <2>1. reservation' = [reservation EXCEPT ![c].maximum = Maximum[q], ![c].day = today]
    BY <1>3 DEF NewReservation
  <2>2. Maximum[q] \in Nat /\ today \in Day /\ reservation \in [Call -> Reservation]
    BY InferenceAssumption DEF CallInv, RowTypes
  <2> DEFINE row == [[reservation[c] EXCEPT !.maximum = Maximum[q]] EXCEPT !.day = today]
  <2>3. /\ row \in Reservation
        /\ row.request = reservation[c].request /\ row.dispatched = reservation[c].dispatched
        /\ row.settled = reservation[c].settled /\ row.decision = reservation[c].decision
        /\ row.actual = reservation[c].actual
    BY <2>2 DEF Reservation
  <2>4. reservation' = [reservation EXCEPT ![c] = row]
    BY <2>1, <2>2 DEF Reservation
  <2> HIDE DEF row
  <2>5. reservation' \in [Call -> Reservation]
    BY <2>2, <2>3, <2>4
  <2>6. \A e \in Call : /\ reservation'[e].request = reservation[e].request
                        /\ reservation'[e].dispatched = reservation[e].dispatched
                        /\ reservation'[e].settled = reservation[e].settled
                        /\ reservation'[e].decision = reservation[e].decision
                        /\ reservation'[e].actual = reservation[e].actual
    BY <2>2, <2>3, <2>4
  <2> QED BY <1>1, <2>5, <2>6, QuietStep DEF Reserve
<1> QED BY <1>2, <1>3 DEF Reserve

(* Where a thread's place says it is with a call and a request.            *)
LEMMA PlaceTypes ==
    ASSUME RowTypes, NEW w \in Thread, thread[w].pc # "idle"
    PROVE  /\ thread[w].call \in Call /\ thread[w].request \in Request
           /\ thread[w].pc \in {"settle", "returned"} =>
                /\ thread[w].actual \in Nat /\ thread[w].decision \in Decision \cup {None}
                /\ [thread[w] EXCEPT !.pc = "returned"] =
                     Holding("returned", thread[w].call, thread[w].request,
                             thread[w].actual, thread[w].decision)
  BY DEF RowTypes, Generation, Holding, Idle

LEMMA LeaveStep ==
    ASSUME CallInv, NEW w \in Thread, Goto(w, Idle),
           UNCHANGED <<today, reservation, provider>>
    PROVE  CallInv'
<1>1. Idle \in Generation /\ Idle.pc = "idle"
  BY DEF Idle, Generation
<1> QED BY <1>1, QuietStep DEF CallInv, RowTypes

(* bind_inference never changes the request of a call that was claimed or  *)
(* decided, and lets a thread on only with the row's own request.          *)
LEMMA BindStep ==
    ASSUME CallInv, NEW w \in Thread, Bind(w)
    PROVE  CallInv'
<1> DEFINE c == thread[w].call
           q == thread[w].request
<1>1. RowTypes /\ c \in Call /\ q \in Request
  BY PlaceTypes DEF CallInv, Bind
<1>2. /\ reservation' = [reservation EXCEPT ![c].request = RequestAfter(c, q)]
      /\ thread' = [thread EXCEPT ![w] = AfterBind(c, q)]
      /\ UNCHANGED <<today, provider>>
  BY DEF Bind, Goto
<1>3. reservation[c] \in Reservation /\ RequestAfter(c, q) \in Request \cup {None}
  BY <1>1 DEF RowTypes, RequestAfter, Reservation
<1>4. /\ reservation' \in [Call -> Reservation]
      /\ reservation'[c].request = RequestAfter(c, q)
      /\ \A e \in Call :
           /\ e # c => reservation'[e] = reservation[e]
           /\ reservation'[e].dispatched = reservation[e].dispatched
           /\ reservation'[e].settled = reservation[e].settled
           /\ reservation'[e].decision = reservation[e].decision
           /\ reservation'[e].actual = reservation[e].actual
           /\ reservation[e].dispatched => reservation'[e].request = reservation[e].request
           /\ reservation[e].request # None => reservation'[e].request = reservation[e].request
  BY <1>1, <1>2, <1>3 DEF RowTypes, Reservation, RequestAfter
<1>5. /\ reservation[c].actual \in Nat /\ reservation[c].decision \in Decision \cup {None}
  BY <1>3 DEF Reservation
<1>6. \/ AfterBind(c, q) = Idle
      \/ AfterBind(c, q) = At("claim", c, q) /\ RequestAfter(c, q) = q
      \/ /\ AfterBind(c, q) = Holding("returned", c, q, reservation[c].actual, reservation[c].decision)
         /\ RequestAfter(c, q) = q /\ reservation[c].decision # None
  BY DEF AfterBind
<1>7. AfterBind(c, q) \in Generation /\ AfterBind(c, q).pc \in {"idle", "claim", "returned"}
  BY <1>1, <1>5, <1>6, Places
<1>8. RowTypes'
  BY <1>1, <1>2, <1>4, <1>7 DEF RowTypes
<1>9. \A v \in Thread : v # w => thread'[v] = thread[v]
  BY <1>1, <1>2 DEF RowTypes
<1>10. thread'[w] = AfterBind(c, q)
  BY <1>1, <1>2 DEF RowTypes
<1>11. \A v \in Thread, e \in Call : Busy(v, e)' => Busy(v, e) /\ thread'[v] = thread[v]
  BY <1>7, <1>9, <1>10 DEF Busy
<1>12. BusyIsAlone'
  BY <1>2, <1>4, <1>11 DEF CallInv, BusyIsAlone
<1>13. BoundToRow'
  <2> SUFFICES ASSUME NEW v \in Thread, thread'[v].pc \in {"claim", "send", "settle"}
               PROVE  reservation'[thread'[v].call].request = thread'[v].request
    BY DEF BoundToRow
  <2>1. CASE v = w
    <3>1. thread'[w] = At("claim", c, q) /\ RequestAfter(c, q) = q
      <4>1. AfterBind(c, q).pc = "claim"
        BY <2>1, <1>7, <1>10
      <4>2. Holding("returned", c, q, reservation[c].actual, reservation[c].decision).pc = "returned"
        BY <1>1, <1>5, Places
      <4> QED BY <4>1, <4>2, <1>1, <1>6, <1>10, Places
    <3>2. thread'[w].call = c /\ thread'[w].request = q
      BY <3>1, <1>1, Places
    <3> QED BY <2>1, <3>1, <3>2, <1>4
  <2>2. CASE v # w
    <3>1. thread[v].call \in Call /\ thread[v].request \in Request
      BY <2>2, <1>1, <1>9, PlaceTypes
    <3>2. reservation[thread[v].call].request = thread[v].request
      BY <2>2, <1>9 DEF CallInv, BoundToRow
    <3> QED BY <2>2, <3>1, <3>2, <1>4, <1>9, InferenceAssumption
  <2> QED BY <2>1, <2>2
<1>14. ReturnedIsSaved'
  <2> SUFFICES ASSUME NEW v \in Thread, thread'[v].pc = "returned"
               PROVE  LET row == reservation'[thread'[v].call]
                      IN  /\ row.settled /\ row.decision = thread'[v].decision
                          /\ row.request = thread'[v].request /\ row.actual = thread'[v].actual
    BY DEF ReturnedIsSaved
  <2>1. CASE v = w
    <3>1. /\ thread'[w] = Holding("returned", c, q, reservation[c].actual, reservation[c].decision)
          /\ RequestAfter(c, q) = q /\ reservation[c].decision # None
      BY <2>1, <1>1, <1>6, <1>10, Places
    <3>2. reservation[c].settled
      BY <1>1, <3>1 DEF CallInv, RowsAreHonest
    <3>3. LET h == thread'[w]
          IN  /\ h.call = c /\ h.request = q
              /\ h.actual = reservation[c].actual /\ h.decision = reservation[c].decision
      BY <3>1, <1>1, <1>5, Places
    <3>4. /\ reservation'[c].settled /\ reservation'[c].decision = reservation[c].decision
          /\ reservation'[c].actual = reservation[c].actual /\ reservation'[c].request = q
      BY <3>1, <3>2, <1>1, <1>4
    <3> HIDE DEF c, q
    <3> QED BY <2>1, <3>3, <3>4
  <2>2. CASE v # w
    <3>1. thread[v].call \in Call
      BY <2>2, <1>1, <1>9, PlaceTypes
    <3>2. LET row == reservation[thread[v].call]
          IN  /\ row.settled /\ row.decision = thread[v].decision /\ row.dispatched
              /\ row.request = thread[v].request /\ row.actual = thread[v].actual
      BY <2>2, <3>1, <1>9 DEF CallInv, ReturnedIsSaved, RowsAreHonest
    <3> QED BY <2>2, <3>1, <3>2, <1>4, <1>9
  <2> QED BY <2>1, <2>2
<1>15. RowsAreHonest'
  BY <1>2, <1>4 DEF CallInv, RowsAreHonest
<1> QED BY <1>8, <1>12, <1>13, <1>14, <1>15 DEF CallInv

(* Only a call that nobody sends or settles can be claimed.                *)
LEMMA ClaimStep ==
    ASSUME CallInv, NEW w \in Thread, Claim(w)
    PROVE  CallInv'
<1> DEFINE c == thread[w].call
           q == thread[w].request
<1>1. /\ RowTypes /\ c \in Call /\ q \in Request
      /\ reservation[c].request = q
      /\ UNCHANGED <<today, provider>>
  BY PlaceTypes DEF CallInv, BoundToRow, Claim
<1>2. CASE Goto(w, Idle) /\ UNCHANGED reservation
  BY <1>1, <1>2, LeaveStep
<1>3. CASE /\ Claimable(c)
           /\ reservation' = [reservation EXCEPT ![c].dispatched = TRUE]
           /\ Goto(w, At("send", c, q))
  <2>1. /\ At("send", c, q) \in Generation /\ At("send", c, q).pc = "send"
        /\ At("send", c, q).call = c /\ At("send", c, q).request = q
    BY <1>1, Places
  <2>2. /\ reservation' \in [Call -> Reservation]
        /\ reservation'[c].dispatched
        /\ \A e \in Call :
             /\ e # c => reservation'[e] = reservation[e]
             /\ reservation'[e].request = reservation[e].request
             /\ reservation'[e].settled = reservation[e].settled
             /\ reservation'[e].decision = reservation[e].decision
             /\ reservation'[e].actual = reservation[e].actual
    <3> DEFINE row == [reservation[c] EXCEPT !.dispatched = TRUE]
    <3>1. /\ row \in Reservation /\ row.dispatched
          /\ row.request = reservation[c].request /\ row.settled = reservation[c].settled
          /\ row.decision = reservation[c].decision /\ row.actual = reservation[c].actual
      BY <1>1 DEF RowTypes, Reservation
    <3>2. reservation' = [reservation EXCEPT ![c] = row]
      BY <1>3
    <3> HIDE DEF row, c
    <3> QED BY <1>1, <3>1, <3>2 DEF RowTypes
  <2>3. /\ thread' \in [Thread -> Generation]
        /\ thread'[w] = At("send", c, q)
        /\ \A v \in Thread : v # w => thread'[v] = thread[v]
    BY <1>1, <1>3, <2>1 DEF RowTypes, Goto
  <2>4. RowTypes'
    BY <1>1, <2>2, <2>3 DEF RowTypes
  <2>5. provider[c].requests = 0 /\ \A v \in Thread : ~Busy(v, c)
    <3>1. ~reservation[c].dispatched /\ provider[c].requests \in Nat
      BY <1>1, <1>3 DEF Claimable, RowTypes
    <3> QED BY <1>1, <3>1 DEF CallInv, RowsAreHonest, BusyIsAlone
  <2>6. BusyIsAlone'
    <3> SUFFICES ASSUME NEW v \in Thread, NEW e \in Call, Busy(v, e)'
                 PROVE  /\ reservation'[e].dispatched /\ ~reservation'[e].settled
                        /\ thread'[v].pc = "send" => provider'[e].requests = 0
                        /\ \A u \in Thread : Busy(u, e)' => u = v
      BY DEF BusyIsAlone
    <3>1. CASE v = w
      BY <3>1, <1>1, <1>3, <2>1, <2>2, <2>3, <2>5 DEF Busy, Claimable
    <3>2. CASE v # w
      <4>1. Busy(v, e) /\ e # c
        BY <3>2, <2>3, <2>5 DEF Busy
      <4>2. \A u \in Thread : Busy(u, e)' => Busy(u, e)
        BY <4>1, <2>1, <2>3 DEF Busy
      <4> QED BY <3>2, <4>1, <4>2, <1>1, <2>2, <2>3 DEF CallInv, BusyIsAlone
    <3> QED BY <3>1, <3>2
  <2>7. BoundToRow'
    <3> SUFFICES ASSUME NEW v \in Thread, thread'[v].pc \in {"claim", "send", "settle"}
                 PROVE  reservation'[thread'[v].call].request = thread'[v].request
      BY DEF BoundToRow
    <3>1. CASE v = w
      BY <3>1, <1>1, <2>1, <2>2, <2>3
    <3>2. CASE v # w
      <4>1. thread'[v] = thread[v] /\ thread[v].call \in Call
        BY <3>2, <1>1, <2>3, PlaceTypes
      <4> QED BY <4>1, <2>2 DEF CallInv, BoundToRow
    <3> QED BY <3>1, <3>2
  <2>8. ReturnedIsSaved'
    <3> SUFFICES ASSUME NEW v \in Thread, thread'[v].pc = "returned"
                 PROVE  LET row == reservation'[thread'[v].call]
                        IN  /\ row.settled /\ row.decision = thread'[v].decision
                            /\ row.request = thread'[v].request /\ row.actual = thread'[v].actual
      BY DEF ReturnedIsSaved
    <3>1. thread'[v] = thread[v]
      BY <2>1, <2>3
    <3>2. thread[v].call \in Call
      BY <3>1, <1>1, PlaceTypes
    <3> QED BY <3>1, <3>2, <2>2 DEF CallInv, ReturnedIsSaved
  <2>9. RowsAreHonest'
    BY <1>1, <2>2, <2>5 DEF CallInv, RowsAreHonest
  <2> QED BY <2>4, <2>6, <2>7, <2>8, <2>9 DEF CallInv
<1> QED BY <1>2, <1>3 DEF Claim

(* The request leaves once, and its sender goes on to settle.              *)
LEMMA SendStep ==
    ASSUME CallInv, NEW w \in Thread, Send(w)
    PROVE  CallInv'
<1> DEFINE c == thread[w].call
           q == thread[w].request
<1>1. /\ RowTypes /\ c \in Call /\ q \in Request /\ Busy(w, c)
      /\ reservation[c].request = q /\ reservation[c].dispatched
      /\ provider[c].requests = 0
      /\ UNCHANGED <<today, reservation>>
  BY PlaceTypes DEF CallInv, BoundToRow, BusyIsAlone, Send, Busy
<1>2. PICK actual \in Nat, d \in Decision \cup {None} : Goto(w, Holding("settle", c, q, actual, d))
  BY <1>1, InferenceAssumption DEF Send, UnknownCosts
<1>3. /\ provider' \in [Call -> [requests : Nat, charged : Nat]]
      /\ provider'[c].requests <= 1
      /\ \A e \in Call : e # c => provider'[e] = provider[e]
  <2>1. CASE UNCHANGED provider
    BY <2>1, <1>1 DEF RowTypes
  <2>2. ASSUME NEW charge \in Charge,
               provider' = [provider EXCEPT ![c] = [requests |-> @.requests + 1,
                                                    charged |-> @.charged + charge]]
        PROVE  /\ provider' \in [Call -> [requests : Nat, charged : Nat]]
               /\ provider'[c].requests <= 1
               /\ \A e \in Call : e # c => provider'[e] = provider[e]
    BY <2>2, <1>1, InferenceAssumption DEF RowTypes
  <2> QED BY <2>1, <2>2 DEF Send
<1>4. /\ thread' \in [Thread -> Generation]
      /\ thread'[w].pc = "settle" /\ thread'[w].call = c /\ thread'[w].request = q
      /\ \A v \in Thread : v # w => thread'[v] = thread[v]
  BY <1>1, <1>2, Places DEF RowTypes, Goto
<1>5. RowTypes'
  BY <1>1, <1>3, <1>4 DEF RowTypes
<1>6. \A v \in Thread, e \in Call : Busy(v, e)' <=> Busy(v, e)
  BY <1>1, <1>4 DEF Busy
<1>7. \A v \in Thread : Busy(v, c) => v = w
  BY <1>1 DEF CallInv, BusyIsAlone
<1>8. BusyIsAlone'
  <2> SUFFICES ASSUME NEW v \in Thread, NEW e \in Call, Busy(v, e)'
               PROVE  /\ reservation'[e].dispatched /\ ~reservation'[e].settled
                      /\ thread'[v].pc = "send" => provider'[e].requests = 0
                      /\ \A u \in Thread : Busy(u, e)' => u = v
    BY DEF BusyIsAlone
  <2>1. Busy(v, e)
    BY <1>6
  <2>2. thread'[v].pc = "send" => v # w /\ e # c
    BY <2>1, <1>4, <1>7
  <2> QED BY <2>1, <2>2, <1>1, <1>3, <1>4, <1>6 DEF CallInv, BusyIsAlone
<1>9. BoundToRow' /\ ReturnedIsSaved'
  BY <1>1, <1>4 DEF CallInv, BoundToRow, ReturnedIsSaved
<1>10. RowsAreHonest'
  BY <1>1, <1>3 DEF CallInv, RowsAreHonest
<1> QED BY <1>5, <1>8, <1>9, <1>10 DEF CallInv

(* Whoever settles is alone with a call that is not settled yet, so that   *)
(* nobody has returned another decision for it.                            *)
LEMMA SettleStep ==
    ASSUME CallInv, NEW w \in Thread, Settle(w)
    PROVE  CallInv'
<1> DEFINE c == thread[w].call
           q == thread[w].request
           h == thread[w]
<1>1. /\ RowTypes /\ c \in Call /\ q \in Request /\ Busy(w, c)
      /\ h.actual \in Nat /\ h.decision \in Decision \cup {None}
      /\ [h EXCEPT !.pc = "returned"] = Holding("returned", c, q, h.actual, h.decision)
      /\ reservation[c].request = q /\ reservation[c].dispatched /\ ~reservation[c].settled
      /\ UNCHANGED <<today, provider>>
  BY PlaceTypes DEF CallInv, BoundToRow, BusyIsAlone, Settle, Busy
<1>2. /\ reservation' = [reservation EXCEPT ![c] =
           [@ EXCEPT !.settled = TRUE, !.actual = h.actual, !.decision = h.decision]]
      /\ Goto(w, IF h.decision = None THEN Idle ELSE [h EXCEPT !.pc = "returned"])
  BY <1>1 DEF Settle
<1>3. /\ reservation' \in [Call -> Reservation]
      /\ reservation'[c].settled
      /\ reservation'[c].actual = h.actual /\ reservation'[c].decision = h.decision
      /\ \A e \in Call :
           /\ e # c => reservation'[e] = reservation[e]
           /\ reservation'[e].request = reservation[e].request
           /\ reservation'[e].dispatched = reservation[e].dispatched
  <2> DEFINE row == [reservation[c] EXCEPT !.settled = TRUE, !.actual = h.actual,
                                           !.decision = h.decision]
  <2>1. reservation[c] \in Reservation
    BY <1>1 DEF RowTypes
  <2>2. /\ row \in Reservation /\ row.settled
        /\ row.actual = h.actual /\ row.decision = h.decision
        /\ row.request = reservation[c].request /\ row.dispatched = reservation[c].dispatched
    BY <1>1, <2>1 DEF Reservation
  <2>3. reservation' = [reservation EXCEPT ![c] = row]
    BY <1>2
  <2> HIDE DEF row
  <2> QED BY <1>1, <2>2, <2>3 DEF RowTypes
<1>4. /\ Idle \in Generation /\ Idle.pc = "idle"
      /\ Holding("returned", c, q, h.actual, h.decision) \in Generation
      /\ Holding("returned", c, q, h.actual, h.decision).pc = "returned"
      /\ Holding("returned", c, q, h.actual, h.decision).call = c
      /\ Holding("returned", c, q, h.actual, h.decision).request = q
      /\ Holding("returned", c, q, h.actual, h.decision).actual = h.actual
      /\ Holding("returned", c, q, h.actual, h.decision).decision = h.decision
  BY <1>1, Places
<1>5. /\ thread' \in [Thread -> Generation]
      /\ thread'[w] \in {Idle, Holding("returned", c, q, h.actual, h.decision)}
      /\ \A v \in Thread : v # w => thread'[v] = thread[v]
  BY <1>1, <1>2, <1>4 DEF RowTypes, Goto
<1>6. RowTypes'
  BY <1>1, <1>3, <1>5 DEF RowTypes
<1>7. \A v \in Thread, e \in Call : Busy(v, e)' => Busy(v, e) /\ v # w /\ e # c
  <2>1. \A v \in Thread : Busy(v, c) => v = w
    BY <1>1 DEF CallInv, BusyIsAlone
  <2> QED BY <2>1, <1>4, <1>5 DEF Busy
<1>8. BusyIsAlone'
  BY <1>1, <1>3, <1>5, <1>7 DEF CallInv, BusyIsAlone
<1>9. BoundToRow'
  <2> SUFFICES ASSUME NEW v \in Thread, thread'[v].pc \in {"claim", "send", "settle"}
               PROVE  reservation'[thread'[v].call].request = thread'[v].request
    BY DEF BoundToRow
  <2>1. thread'[v] = thread[v]
    BY <1>4, <1>5
  <2>2. thread[v].call \in Call
    BY <2>1, <1>1, PlaceTypes
  <2> QED BY <2>1, <2>2, <1>3 DEF CallInv, BoundToRow
<1>10. ReturnedIsSaved'
  <2> SUFFICES ASSUME NEW v \in Thread, thread'[v].pc = "returned"
               PROVE  LET row == reservation'[thread'[v].call]
                      IN  /\ row.settled /\ row.decision = thread'[v].decision
                          /\ row.request = thread'[v].request /\ row.actual = thread'[v].actual
    BY DEF ReturnedIsSaved
  <2>1. CASE v = w
    BY <2>1, <1>1, <1>3, <1>4, <1>5
  <2>2. CASE v # w
    <3>1. thread[v].call \in Call
      BY <2>2, <1>1, <1>5, PlaceTypes
    <3>2. LET row == reservation[thread[v].call]
          IN  /\ row.settled /\ row.decision = thread[v].decision
              /\ row.request = thread[v].request /\ row.actual = thread[v].actual
      BY <2>2, <1>5 DEF CallInv, ReturnedIsSaved
    <3> QED BY <2>2, <3>1, <3>2, <1>1, <1>3, <1>5
  <2> QED BY <2>1, <2>2
<1>11. RowsAreHonest'
  BY <1>1, <1>3 DEF CallInv, RowsAreHonest
<1> QED BY <1>6, <1>8, <1>9, <1>10, <1>11 DEF CallInv

LEMMA EnvironmentStep ==
    ASSUME CallInv, today' \in Day, UNCHANGED <<reservation, provider, thread>>
    PROVE  CallInv'
  BY DEF CallInv, RowTypes, BusyIsAlone, BoundToRow, RowsAreHonest, ReturnedIsSaved, Busy

LEMMA CallStep == CallInv /\ [Next]_vars => CallInv'
<1> SUFFICES ASSUME CallInv, [Next]_vars PROVE CallInv'
  OBVIOUS
<1>1. ASSUME NEW w \in Thread, Leave(w) PROVE CallInv'
  BY <1>1, LeaveStep DEF Leave
<1>2. CASE Environment
  <2>1. today' \in Day
    BY <1>2, InferenceAssumption DEF Environment, CallInv, RowTypes, Day
  <2> QED BY <1>2, <2>1, EnvironmentStep DEF Environment
<1>3. CASE UNCHANGED vars
  BY <1>3, EnvironmentStep DEF vars, CallInv, RowTypes
<1> QED BY <1>1, <1>2, <1>3, ReserveStep, BindStep, ClaimStep, SendStep, SettleStep DEF Next

(* What a thread may do with a call and what the call's row shows stay     *)
(* consistent, for every instance.                                         *)
THEOREM CallInvariant == Spec => []CallInv
  BY CallInit, CallStep, PTL DEF Spec

(* The provider is asked at most once for a call, whatever ticks run,      *)
(* crash or return (service.py:680-698).                                   *)
THEOREM PaidOnce == Spec => []OnePaidRequest
<1>1. CallInv => OnePaidRequest
  <2> SUFFICES ASSUME CallInv, NEW c \in Call PROVE provider[c].requests <= 1
    BY DEF OnePaidRequest
  <2>1. provider[c].requests \in Nat
    BY DEF CallInv, RowTypes
  <2> QED BY <2>1 DEF CallInv, RowsAreHonest
<1> QED BY <1>1, CallInvariant, PTL

(* Every decision that is used is the saved one, for the request asked.    *)
THEOREM DecisionsAreSaved == Spec => []ReturnedIsSaved
<1>1. CallInv => ReturnedIsSaved
  BY DEF CallInv
<1> QED BY <1>1, CallInvariant, PTL

(***************************************************************************)
(* Sums of a function over a finite set.  SumFunctionOnSet chooses a       *)
(* recursive function on the subsets: that there is one, and only one,     *)
(* is shown by induction over the cardinality, which the least number of a *)
(* set stands for.                                                         *)
(***************************************************************************)

LEMMA LeastOf ==
    ASSUME NEW T \in SUBSET Nat, T # {}
    PROVE  \E n \in T : \A m \in T : n <= m
<1>1. IsWellFoundedOn(OpToRel(<, Nat), Nat)
  BY NatLessThanWellFounded, Zenon
<1>2. PICK n \in T : \A m \in T : ~(<<m, n>> \in OpToRel(<, Nat))
  BY <1>1, WFMin, Zenon
<1>3. \A m \in T : ~(m < n)
  BY <1>2 DEF OpToRel
<1> QED BY <1>3

(* Induction over the subsets of a finite set, for a set of them.          *)
LEMMA SubsetInduction ==
    ASSUME NEW S, IsFiniteSet(S), NEW P,
           \A s \in SUBSET S : (\A x \in s : s \ {x} \in P) => s \in P
    PROVE  SUBSET S \subseteq P
<1> SUFFICES ASSUME NEW r \in SUBSET S, r \notin P PROVE FALSE
  OBVIOUS
<1>1. \A s \in SUBSET S : IsFiniteSet(s) /\ Cardinality(s) \in Nat
  BY FS_Subset, FS_CardinalityType
<1> DEFINE T == {Cardinality(s) : s \in {s \in SUBSET S : s \notin P}}
<1>2. T \in SUBSET Nat /\ T # {}
  BY <1>1
<1>3. PICK n \in T : \A m \in T : n <= m
  BY <1>2, LeastOf
<1>4. PICK s \in SUBSET S : s \notin P /\ Cardinality(s) = n
  BY <1>3
<1>5. PICK x \in s : s \ {x} \notin P
  BY <1>4
<1>6. Cardinality(s \ {x}) = Cardinality(s) - 1
  BY <1>1, FS_RemoveElement
<1>7. s \ {x} \in SUBSET S
  OBVIOUS
<1>8. Cardinality(s \ {x}) \in T
  BY <1>5, <1>7
<1>9. n <= Cardinality(s \ {x})
  BY <1>3, <1>8
<1> QED BY <1>1, <1>4, <1>6, <1>9

Pick(s) == CHOOSE x \in s : TRUE
SumStep(f, g, s) == IF s = {} THEN 0 ELSE f[Pick(s)] + g[s \ {Pick(s)}]
UpTo(S, n) == {s \in SUBSET S : Cardinality(s) <= n}

LEMMA SumExists ==
    ASSUME NEW f, NEW S, IsFiniteSet(S)
    PROVE  \E g : g = [s \in SUBSET S |-> SumStep(f, g, s)]
<1> DEFINE Good(n) == \E g : g = [s \in UpTo(S, n) |-> SumStep(f, g, s)]
<1>1. \A s \in SUBSET S : IsFiniteSet(s) /\ Cardinality(s) \in Nat /\ Cardinality(s) <= Cardinality(S)
  BY FS_Subset, FS_CardinalityType
<1>2. Good(0)
  <2> DEFINE g == [s \in UpTo(S, 0) |-> 0]
  <2>1. \A s \in UpTo(S, 0) : s = {}
    BY <1>1, FS_EmptySet DEF UpTo
  <2>2. g = [s \in UpTo(S, 0) |-> SumStep(f, g, s)]
    BY <2>1 DEF SumStep
  <2> QED BY <2>2
<1>3. ASSUME NEW n \in Nat, Good(n) PROVE Good(n + 1)
  <2>1. PICK g : g = [s \in UpTo(S, n) |-> SumStep(f, g, s)]
    BY <1>3
  <2> DEFINE h == [s \in UpTo(S, n + 1) |-> SumStep(f, g, s)]
  <2>2. UpTo(S, n) \subseteq UpTo(S, n + 1)
    BY <1>1 DEF UpTo
  <2>3. \A s \in UpTo(S, n) : h[s] = g[s]
    BY <2>1, <2>2
  <2>4. ASSUME NEW s \in UpTo(S, n + 1), s # {} PROVE s \ {Pick(s)} \in UpTo(S, n)
    <3>1. Pick(s) \in s
      BY <2>4 DEF Pick
    <3>2. Cardinality(s \ {Pick(s)}) = Cardinality(s) - 1
      BY <3>1, <1>1, FS_RemoveElement DEF UpTo
    <3> QED BY <3>2, <1>1 DEF UpTo
  <2>5. \A s \in UpTo(S, n + 1) : SumStep(f, g, s) = SumStep(f, h, s)
    BY <2>3, <2>4 DEF SumStep
  <2>6. h = [s \in UpTo(S, n + 1) |-> SumStep(f, h, s)]
    BY <2>5
  <2> QED BY <2>6
<1> HIDE DEF Good
<1>4. \A n \in Nat : Good(n)
  <2> SUFFICES ASSUME NEW k \in Nat, ~Good(k) PROVE FALSE
    OBVIOUS
  <2> DEFINE T == {n \in Nat : ~Good(n)}
  <2>1. PICK n \in T : \A m \in T : n <= m
    BY LeastOf
  <2>2. n # 0 /\ n - 1 \in Nat
    BY <2>1, <1>2
  <2>3. Good(n - 1)
    BY <2>1, <2>2
  <2> QED BY <2>1, <2>2, <2>3, <1>3
<1>5. UpTo(S, Cardinality(S)) = SUBSET S /\ Cardinality(S) \in Nat
  BY <1>1 DEF UpTo
<1> QED BY <1>4, <1>5 DEF Good

IsSum(g, f, S) == g = [s \in SUBSET S |-> SumStep(f, g, s)]

LEMMA TotalIsSum ==
    ASSUME NEW f, NEW S, IsFiniteSet(S)
    PROVE  \E g : IsSum(g, f, S) /\ SumFunctionOnSet(f, S) = g[S]
<1> DEFINE g == CHOOSE h : h = [s \in SUBSET S |-> SumStep(f, h, s)]
<1>1. g = [s \in SUBSET S |-> SumStep(f, g, s)]
  BY SumExists
<1>2. SumFunctionOnSet(f, S) = g[S]
  BY Zenon DEF SumFunctionOnSet, FoldFunctionOnSet, MapThenFoldSet, SumStep, Pick
<1> QED BY <1>1, <1>2 DEF IsSum

LEMMA SumsAgree ==
    ASSUME NEW f, NEW S, IsFiniteSet(S), NEW T \in SUBSET S, NEW g, NEW h,
           IsSum(g, f, S), IsSum(h, f, T)
    PROVE  \A s \in SUBSET T : g[s] = h[s]
<1> DEFINE P == {s \in SUBSET T : g[s] = h[s]}
<1>1. IsFiniteSet(T)
  BY FS_Subset
<1>2. ASSUME NEW s \in SUBSET T, \A x \in s : s \ {x} \in P PROVE s \in P
  <2>1. g[s] = SumStep(f, g, s) /\ h[s] = SumStep(f, h, s)
    BY DEF IsSum
  <2>2. s # {} => Pick(s) \in s
    BY DEF Pick
  <2>3. SumStep(f, g, s) = SumStep(f, h, s)
    BY <1>2, <2>2 DEF SumStep
  <2> QED BY <2>1, <2>3
<1> HIDE DEF P
<1>3. SUBSET T \subseteq P
  BY <1>1, <1>2, SubsetInduction
<1> QED BY <1>3 DEF P

(* What is added up are the values, in whichever order.                    *)
LEMMA SumAnyOrder ==
    ASSUME NEW S, IsFiniteSet(S), NEW f, \A x \in S : f[x] \in Nat, NEW g, IsSum(g, f, S)
    PROVE  \A s \in SUBSET S : g[s] \in Nat /\ \A x \in s : g[s] = f[x] + g[s \ {x}]
<1>1. \A s \in SUBSET S : g[s] = SumStep(f, g, s)
  BY DEF IsSum
<1>2. \A s \in SUBSET S : s # {} => Pick(s) \in s
  BY DEF Pick
<1>3. \A s \in SUBSET S : g[s] \in Nat
  <2> DEFINE P == {s \in SUBSET S : g[s] \in Nat}
  <2>1. ASSUME NEW s \in SUBSET S, \A x \in s : s \ {x} \in P PROVE s \in P
    <3>1. CASE s = {}
      <4>1. g[s] = 0
        BY <3>1, <1>1 DEF SumStep
      <4> QED BY <4>1
    <3>2. CASE s # {}
      <4>1. Pick(s) \in s /\ g[s] = f[Pick(s)] + g[s \ {Pick(s)}]
        BY <3>2, <1>1, <1>2 DEF SumStep
      <4>2. g[s \ {Pick(s)}] \in Nat /\ f[Pick(s)] \in Nat
        BY <2>1, <4>1
      <4> QED BY <4>1, <4>2
    <3> QED BY <3>1, <3>2
  <2> HIDE DEF P
  <2>2. SUBSET S \subseteq P
    BY <2>1, SubsetInduction
  <2> QED BY <2>2 DEF P
<1> DEFINE P == {s \in SUBSET S : \A x \in s : g[s] = f[x] + g[s \ {x}]}
<1>4. ASSUME NEW s \in SUBSET S, \A x \in s : s \ {x} \in P PROVE s \in P
  <2> SUFFICES ASSUME NEW x \in s PROVE g[s] = f[x] + g[s \ {x}]
    OBVIOUS
  <2> DEFINE y == Pick(s)
  <2>1. y \in s /\ g[s] = f[y] + g[s \ {y}]
    BY <1>1, <1>2 DEF SumStep
  <2>2. CASE x # y
    <3> DEFINE r == (s \ {x}) \ {y}
    <3>1. (s \ {y}) \ {x} = r
      OBVIOUS
    <3>2. g[s \ {y}] = f[x] + g[r]
      BY <1>4, <2>1, <2>2, <3>1
    <3>3. g[s \ {x}] = f[y] + g[r]
      BY <1>4, <2>1, <2>2
    <3>4. g[r] \in Nat /\ f[x] \in Nat /\ f[y] \in Nat
      BY <1>3, <2>1
    <3> HIDE DEF r, y
    <3> QED BY <3>2, <3>3, <3>4, <2>1
  <2> QED BY <2>1, <2>2
<1> HIDE DEF P
<1>5. SUBSET S \subseteq P
  BY <1>4, SubsetInduction
<1> QED BY <1>3, <1>5 DEF P

(* The four facts that the books need.                                     *)
LEMMA TotalEmpty == \A f : SumFunctionOnSet(f, {}) = 0
<1> SUFFICES ASSUME NEW f PROVE SumFunctionOnSet(f, {}) = 0
  OBVIOUS
<1>1. IsFiniteSet({})
  BY FS_EmptySet
<1>2. PICK g : IsSum(g, f, {}) /\ SumFunctionOnSet(f, {}) = g[{}]
  BY <1>1, TotalIsSum
<1> QED BY <1>2 DEF IsSum, SumStep

LEMMA TotalIn ==
    ASSUME NEW S, IsFiniteSet(S), NEW f, \A x \in S : f[x] \in Nat
    PROVE  SumFunctionOnSet(f, S) \in Nat
<1>1. PICK g : IsSum(g, f, S) /\ SumFunctionOnSet(f, S) = g[S]
  BY TotalIsSum
<1> QED BY <1>1, SumAnyOrder

LEMMA TotalWithout ==
    ASSUME NEW S, IsFiniteSet(S), NEW f, \A x \in S : f[x] \in Nat, NEW x \in S
    PROVE  SumFunctionOnSet(f, S) = f[x] + SumFunctionOnSet(f, S \ {x})
<1>1. PICK g : IsSum(g, f, S) /\ SumFunctionOnSet(f, S) = g[S]
  BY TotalIsSum
<1>2. IsFiniteSet(S \ {x})
  BY FS_Subset
<1>3. PICK h : IsSum(h, f, S \ {x}) /\ SumFunctionOnSet(f, S \ {x}) = h[S \ {x}]
  BY <1>2, TotalIsSum
<1>4. g[S \ {x}] = h[S \ {x}]
  <2> DEFINE T == S \ {x}
  <2>1. T \in SUBSET S /\ T \in SUBSET T
    OBVIOUS
  <2>2. IsSum(h, f, T)
    BY <1>3
  <2> HIDE DEF T
  <2>3. g[T] = h[T]
    BY <1>1, <2>1, <2>2, SumsAgree
  <2> QED BY <2>3 DEF T
<1>5. g[S] = f[x] + g[S \ {x}]
  BY <1>1, SumAnyOrder
<1> QED BY <1>1, <1>3, <1>4, <1>5

LEMMA TotalSame ==
    ASSUME NEW S, IsFiniteSet(S), NEW f, NEW h, \A x \in S : f[x] = h[x]
    PROVE  SumFunctionOnSet(f, S) = SumFunctionOnSet(h, S)
<1>1. PICK g : IsSum(g, f, S) /\ SumFunctionOnSet(f, S) = g[S]
  BY TotalIsSum
<1>2. PICK k : IsSum(k, h, S) /\ SumFunctionOnSet(h, S) = k[S]
  BY TotalIsSum
<1>3. \A s \in SUBSET S : SumStep(f, g, s) = SumStep(h, g, s)
  BY DEF SumStep, Pick
<1>4. IsSum(g, h, S)
  BY <1>1, <1>3 DEF IsSum
<1> QED BY <1>1, <1>2, <1>4, SumsAgree

(* A sum of which at most one value changes moves by that value.           *)
LEMMA TotalChanges ==
    ASSUME NEW S, IsFiniteSet(S), NEW f, NEW h, NEW x \in S,
           \A y \in S : f[y] \in Nat /\ h[y] \in Nat,
           \A y \in S \ {x} : f[y] = h[y]
    PROVE  SumFunctionOnSet(h, S) + f[x] = SumFunctionOnSet(f, S) + h[x]
<1>1. IsFiniteSet(S \ {x})
  BY FS_Subset
<1>2. SumFunctionOnSet(f, S \ {x}) = SumFunctionOnSet(h, S \ {x})
  BY <1>1, TotalSame
<1>3. SumFunctionOnSet(f, S) = f[x] + SumFunctionOnSet(f, S \ {x}) /\ SumFunctionOnSet(h, S) = h[x] + SumFunctionOnSet(h, S \ {x})
  BY TotalWithout
<1>4. SumFunctionOnSet(f, S \ {x}) \in Nat
  BY <1>1, TotalIn
<1> QED BY <1>2, <1>3, <1>4

LEMMA TotalAtMost ==
    ASSUME NEW S, IsFiniteSet(S), NEW f, NEW h,
           \A x \in S : f[x] \in Nat /\ h[x] \in Nat /\ f[x] <= h[x]
    PROVE  SumFunctionOnSet(f, S) <= SumFunctionOnSet(h, S)
<1> DEFINE P == {s \in SUBSET S : SumFunctionOnSet(f, s) <= SumFunctionOnSet(h, s)}
<1>1. ASSUME NEW s \in SUBSET S, \A x \in s : s \ {x} \in P PROVE s \in P
  <2>1. CASE s = {}
    BY <2>1, TotalEmpty
  <2>2. CASE s # {}
    <3>1. PICK x \in s : TRUE
      BY <2>2
    <3>2. IsFiniteSet(s) /\ IsFiniteSet(s \ {x})
      BY FS_Subset
    <3>3. SumFunctionOnSet(f, s) = f[x] + SumFunctionOnSet(f, s \ {x}) /\ SumFunctionOnSet(h, s) = h[x] + SumFunctionOnSet(h, s \ {x})
      BY <3>2, TotalWithout
    <3>4. SumFunctionOnSet(f, s \ {x}) \in Nat /\ SumFunctionOnSet(h, s \ {x}) \in Nat
      BY <3>2, TotalIn
    <3>5. SumFunctionOnSet(f, s \ {x}) <= SumFunctionOnSet(h, s \ {x})
      BY <1>1
    <3> QED BY <3>3, <3>4, <3>5
  <2> QED BY <2>1, <2>2
<1> HIDE DEF P
<1>2. SUBSET S \subseteq P
  BY <1>1, SubsetInduction
<1> QED BY <1>2 DEF P

(* Three sums together cover one that they cover value by value.           *)
LEMMA TotalCovered ==
    ASSUME NEW S, IsFiniteSet(S), NEW f, NEW a, NEW b, NEW c,
           \A x \in S : f[x] \in Nat /\ a[x] \in Nat /\ b[x] \in Nat /\ c[x] \in Nat,
           \A x \in S : f[x] <= a[x] + b[x] + c[x]
    PROVE  SumFunctionOnSet(f, S) <=
             SumFunctionOnSet(a, S) + SumFunctionOnSet(b, S) + SumFunctionOnSet(c, S)
<1> DEFINE P == {s \in SUBSET S : SumFunctionOnSet(f, s) <=
             SumFunctionOnSet(a, s) + SumFunctionOnSet(b, s) + SumFunctionOnSet(c, s)}
<1>1. ASSUME NEW s \in SUBSET S, \A x \in s : s \ {x} \in P PROVE s \in P
  <2>1. CASE s = {}
    <3>1. SumFunctionOnSet(f, s) = 0 /\ SumFunctionOnSet(a, s) = 0
          /\ SumFunctionOnSet(b, s) = 0 /\ SumFunctionOnSet(c, s) = 0
      BY <2>1, TotalEmpty
    <3> QED BY <3>1
  <2>2. CASE s # {}
    <3>1. PICK x \in s : TRUE
      BY <2>2
    <3> DEFINE r == s \ {x}
    <3>2. IsFiniteSet(s) /\ IsFiniteSet(r)
      BY FS_Subset
    <3>3. /\ SumFunctionOnSet(f, s) = f[x] + SumFunctionOnSet(f, r)
          /\ SumFunctionOnSet(a, s) = a[x] + SumFunctionOnSet(a, r)
          /\ SumFunctionOnSet(b, s) = b[x] + SumFunctionOnSet(b, r)
          /\ SumFunctionOnSet(c, s) = c[x] + SumFunctionOnSet(c, r)
      BY <3>2, TotalWithout
    <3>4. /\ SumFunctionOnSet(f, r) \in Nat /\ SumFunctionOnSet(a, r) \in Nat
          /\ SumFunctionOnSet(b, r) \in Nat /\ SumFunctionOnSet(c, r) \in Nat
      BY <3>2, TotalIn
    <3>5. SumFunctionOnSet(f, r) <= SumFunctionOnSet(a, r) + SumFunctionOnSet(b, r) + SumFunctionOnSet(c, r)
      BY <1>1
    <3>6. f[x] \in Nat /\ a[x] \in Nat /\ b[x] \in Nat /\ c[x] \in Nat /\ f[x] <= a[x] + b[x] + c[x]
      OBVIOUS
    <3> HIDE DEF r
    <3> QED BY <3>3, <3>4, <3>5, <3>6
  <2> QED BY <2>1, <2>2
<1> HIDE DEF P
<1>2. SUBSET S \subseteq P
  BY <1>1, SubsetInduction
<1> QED BY <1>2 DEF P

(* The sum over a part is that over the whole with nothing elsewhere.      *)
LEMMA TotalOfPart ==
    ASSUME NEW S, IsFiniteSet(S), NEW f, NEW T \in SUBSET S, \A x \in S : f[x] \in Nat
    PROVE  SumFunctionOnSet(f, T) = SumFunctionOnSet([x \in S |-> IF x \in T THEN f[x] ELSE 0], S)
<1> DEFINE h == [x \in S |-> IF x \in T THEN f[x] ELSE 0]
           P == {s \in SUBSET S : SumFunctionOnSet(f, T \cap s) = SumFunctionOnSet(h, s)}
<1>1. ASSUME NEW s \in SUBSET S, \A x \in s : s \ {x} \in P PROVE s \in P
  <2>1. CASE s = {}
    <3>1. T \cap s = {}
      BY <2>1
    <3> QED BY <2>1, <3>1, TotalEmpty
  <2>2. CASE s # {}
    <3>1. PICK x \in s : TRUE
      BY <2>2
    <3>2. IsFiniteSet(s) /\ IsFiniteSet(s \ {x}) /\ IsFiniteSet(T \cap s) /\ IsFiniteSet(T \cap (s \ {x}))
      BY FS_Subset
    <3>3. \A y \in S : h[y] \in Nat
      OBVIOUS
    <3>4. h[x] = IF x \in T THEN f[x] ELSE 0
      OBVIOUS
    <3>5. SumFunctionOnSet(f, T \cap (s \ {x})) = SumFunctionOnSet(h, s \ {x})
      BY <1>1
    <3> HIDE DEF h
    <3>6. SumFunctionOnSet(h, s) = h[x] + SumFunctionOnSet(h, s \ {x}) /\ SumFunctionOnSet(h, s \ {x}) \in Nat
      BY <3>2, <3>3, TotalWithout, TotalIn
    <3>7. CASE x \in T
      <4>1. (T \cap s) \ {x} = T \cap (s \ {x})
        OBVIOUS
      <4>2. SumFunctionOnSet(f, T \cap s) = f[x] + SumFunctionOnSet(f, (T \cap s) \ {x})
        BY <3>2, <3>7, TotalWithout
      <4> QED BY <4>1, <4>2, <3>4, <3>5, <3>6, <3>7
    <3>8. CASE x \notin T
      <4>1. T \cap s = T \cap (s \ {x})
        BY <3>8
      <4>2. SumFunctionOnSet(f, T \cap s) = SumFunctionOnSet(h, s \ {x})
        BY <4>1, <3>5
      <4>3. SumFunctionOnSet(h, s) = SumFunctionOnSet(h, s \ {x})
        BY <3>4, <3>6, <3>8
      <4> QED BY <4>2, <4>3
    <3> QED BY <3>7, <3>8
  <2> QED BY <2>1, <2>2
<1>2. T \cap S = T
  OBVIOUS
<1> HIDE DEF P
<1>3. SUBSET S \subseteq P
  BY <1>1, SubsetInduction
<1> QED BY <1>2, <1>3 DEF P

(***************************************************************************)
(* The books.                                                              *)
(***************************************************************************)

LEMMA AccountTypes ==
    ASSUME reservation \in [Call -> Reservation], NEW C
    PROVE  \A x \in Call : /\ ActualIn(C)[x] \in Nat /\ OpenIn(C)[x] \in Nat
                           /\ ExcessIn(C)[x] \in Nat
                           /\ x \notin C => /\ ActualIn(C)[x] = 0 /\ OpenIn(C)[x] = 0
                                            /\ ExcessIn(C)[x] = 0
  BY DEF ActualIn, OpenIn, ExcessIn, Overrun, Reservation

(* Steps that write no money leave every account as it is.                 *)
MoneyKept ==
    /\ \A c \in Call : /\ reservation'[c].maximum = reservation[c].maximum
                       /\ reservation'[c].day = reservation[c].day
                       /\ reservation'[c].settled = reservation[c].settled
                       /\ reservation'[c].actual = reservation[c].actual
    /\ UNCHANGED <<spent, reserved, day>>

LEMMA AccountsKept ==
    ASSUME AccountsAgree, MoneyKept
    PROVE  AccountsAgree'
<1>1. \A d \in Day : CallsOn(d)' = CallsOn(d)
  BY DEF MoneyKept, CallsOn
<1>2. ASSUME NEW C
      PROVE  ActualIn(C)' = ActualIn(C) /\ OpenIn(C)' = OpenIn(C) /\ ExcessIn(C)' = ExcessIn(C)
  <2>1. [c \in Call |-> IF c \in C THEN reservation'[c].actual ELSE 0] = ActualIn(C)
    BY DEF MoneyKept, ActualIn
  <2>2. [c \in Call |-> IF c \in C /\ ~reservation'[c].settled THEN reservation'[c].maximum ELSE 0]
          = OpenIn(C)
    BY DEF MoneyKept, OpenIn
  <2>3. [c \in Call |-> IF c \in C THEN Overrun(reservation'[c].actual, reservation'[c].maximum)
                        ELSE 0] = ExcessIn(C)
    BY DEF MoneyKept, ExcessIn
  <2> QED BY <2>1, <2>2, <2>3 DEF ActualIn, OpenIn, ExcessIn
<1>3. ASSUME NEW t \in Task PROVE Account(CallsOf(t), spent[t], reserved[t], TaskBudget)'
  <2>1. Account(CallsOf(t), spent[t], reserved[t], TaskBudget)
    BY DEF AccountsAgree
  <2> QED BY <2>1, <1>2 DEF Account, MoneyKept, CallsOf
<1>4. ASSUME NEW d \in Day PROVE Account(CallsOn(d), day[d].spent, day[d].reserved, DayBudget)'
  <2>1. Account(CallsOn(d), day[d].spent, day[d].reserved, DayBudget)
    BY DEF AccountsAgree
  <2> QED BY <2>1, <1>1, <1>2 DEF Account, MoneyKept
<1> QED BY <1>3, <1>4 DEF AccountsAgree

LEMMA MoneyInit == Init => MoneyInv
<1> SUFFICES ASSUME Init PROVE MoneyInv
  OBVIOUS
<1>1. CallInv /\ MoneyTypes /\ CostsAreKnown
  BY CallInit, InferenceAssumption DEF Init, MoneyTypes, CostsAreKnown, NoRow, Idle
<1>2. IsFiniteSet(Call) /\ TaskBudget \in Nat /\ DayBudget \in Nat
  BY InferenceAssumption
<1>3. ASSUME NEW f, \A c \in Call : f[c] = 0 PROVE SumFunctionOnSet(f, Call) = 0
  <2> DEFINE P == {s \in SUBSET Call : SumFunctionOnSet(f, s) = 0}
  <2>1. ASSUME NEW s \in SUBSET Call, \A x \in s : s \ {x} \in P PROVE s \in P
    <3>1. CASE s = {}
      BY <3>1, TotalEmpty
    <3>2. CASE s # {}
      <4>1. PICK x \in s : TRUE
        BY <3>2
      <4>2. SumFunctionOnSet(f, s) = f[x] + SumFunctionOnSet(f, s \ {x})
        BY <1>2, <1>3, FS_Subset, TotalWithout
      <4>3. SumFunctionOnSet(f, s \ {x}) = 0 /\ f[x] = 0
        BY <2>1, <1>3
      <4> QED BY <4>2, <4>3
    <3> QED BY <3>1, <3>2
  <2> HIDE DEF P
  <2>2. SUBSET Call \subseteq P
    BY <2>1, <1>2, SubsetInduction
  <2> QED BY <2>2 DEF P
<1>4. ASSUME NEW C, NEW budget \in Nat PROVE Account(C, 0, 0, budget)
  <2>1. /\ \A c \in Call : ActualIn(C)[c] = 0
        /\ \A c \in Call : OpenIn(C)[c] = 0
        /\ \A c \in Call : ExcessIn(C)[c] = 0
    BY DEF Init, NoRow, ActualIn, OpenIn, ExcessIn, Overrun
  <2>2. /\ SumFunctionOnSet(ActualIn(C), Call) = 0
        /\ SumFunctionOnSet(OpenIn(C), Call) = 0
        /\ SumFunctionOnSet(ExcessIn(C), Call) = 0
    BY <2>1, <1>3
  <2> QED BY <2>2 DEF Account
<1>5. AccountsAgree
  <2>1. \A t \in Task : spent[t] = 0 /\ reserved[t] = 0
    BY DEF Init
  <2>2. \A d \in Day : day[d].spent = 0 /\ day[d].reserved = 0
    BY DEF Init
  <2> QED BY <2>1, <2>2, <1>2, <1>4 DEF AccountsAgree
<1> QED BY <1>1, <1>5 DEF MoneyInv

(* A step that moves no money: threads come, go on or go, and no row is    *)
(* claimed that is not reserved.                                           *)
LEMMA QuietMoney ==
    ASSUME MoneyInv, CallInv', MoneyKept, UNCHANGED provider,
           \A c \in Call : reservation'[c].dispatched =>
               reservation[c].dispatched \/ reservation[c].maximum # 0,
           \A v \in Thread :
               \/ thread'[v] = thread[v]
               \/ thread'[v].pc = "idle"
               \/ /\ thread'[v].pc # "settle"
                  /\ reservation[thread'[v].call].maximum = Maximum[thread'[v].request]
    PROVE  MoneyInv'
<1>1. MoneyTypes' /\ AccountsAgree'
  BY AccountsKept DEF MoneyInv, MoneyTypes, MoneyKept
<1>2. \A v \in Thread : thread'[v].pc # "idle" => thread'[v].call \in Call
  BY DEF CallInv, RowTypes, Generation, Idle
<1>3. \A c \in Call :
         LET row == reservation'[c]
         IN  /\ row.maximum = 0 => ~row.dispatched
             /\ ~row.settled => row.actual = 0
             /\ row.settled => row.actual \in {provider'[c].charged, row.maximum}
             /\ provider'[c].requests = 0 => provider'[c].charged = 0
  BY DEF MoneyInv, CostsAreKnown, MoneyKept
<1>4. ASSUME NEW v \in Thread, thread'[v].pc # "idle"
      PROVE  /\ reservation'[thread'[v].call].maximum = Maximum[thread'[v].request]
             /\ thread'[v].pc = "settle" =>
                  thread'[v].actual \in {provider'[thread'[v].call].charged,
                                         reservation'[thread'[v].call].maximum}
  BY <1>2, <1>4 DEF MoneyInv, CostsAreKnown, MoneyKept
<1>5. CostsAreKnown'
  BY <1>3, <1>4 DEF CostsAreKnown
<1> QED BY <1>1, <1>5 DEF MoneyInv

LEMMA BindMoney ==
    ASSUME MoneyInv, NEW w \in Thread, Bind(w)
    PROVE  MoneyInv'
<1> DEFINE c == thread[w].call
           q == thread[w].request
<1>1. CallInv' /\ CallInv /\ c \in Call /\ q \in Request
  BY BindStep, PlaceTypes DEF MoneyInv, CallInv, Bind
<1>2. /\ reservation' = [reservation EXCEPT ![c].request = RequestAfter(c, q)]
      /\ thread' = [thread EXCEPT ![w] = AfterBind(c, q)]
      /\ UNCHANGED <<provider, spent, reserved, day>>
  BY DEF Bind, Goto
<1>3. /\ MoneyKept
      /\ \A e \in Call : reservation'[e].dispatched = reservation[e].dispatched
  BY <1>1, <1>2 DEF MoneyKept, CallInv, RowTypes, Reservation
<1>4. reservation[c].actual \in Nat /\ reservation[c].decision \in Decision \cup {None}
  BY <1>1 DEF CallInv, RowTypes, Reservation
<1>5. AfterBind(c, q).pc = "idle" \/ (/\ AfterBind(c, q).pc # "settle" /\ AfterBind(c, q).call = c
                                      /\ AfterBind(c, q).request = q)
  BY <1>1, <1>4, Places DEF AfterBind
<1>6. reservation[c].maximum = Maximum[q]
  BY DEF MoneyInv, CostsAreKnown, Bind
<1>7. \A v \in Thread : thread'[v] = IF v = w THEN AfterBind(c, q) ELSE thread[v]
  BY <1>1, <1>2 DEF CallInv, RowTypes
<1> HIDE DEF c, q
<1> QED BY <1>1, <1>2, <1>3, <1>5, <1>6, <1>7, QuietMoney

LEMMA ClaimMoney ==
    ASSUME MoneyInv, NEW w \in Thread, Claim(w)
    PROVE  MoneyInv'
<1> DEFINE c == thread[w].call
           q == thread[w].request
<1>1. CallInv' /\ CallInv /\ c \in Call /\ q \in Request
  BY ClaimStep, PlaceTypes DEF MoneyInv, CallInv, Claim
<1>2. /\ UNCHANGED <<provider, spent, reserved, day>>
      /\ \/ reservation' = [reservation EXCEPT ![c].dispatched = TRUE] /\ Goto(w, At("send", c, q))
         \/ UNCHANGED reservation /\ Goto(w, Idle)
  BY DEF Claim
<1>3. reservation[c].maximum = Maximum[q] /\ Maximum[q] # 0
  BY <1>1, InferenceAssumption DEF MoneyInv, CostsAreKnown, Claim
<1>4. /\ MoneyKept
      /\ \A e \in Call : e # c => reservation'[e].dispatched = reservation[e].dispatched
  <2> DEFINE row == [reservation[c] EXCEPT !.dispatched = TRUE]
  <2>1. reservation \in [Call -> Reservation]
    BY <1>1 DEF CallInv, RowTypes
  <2>2. /\ row.maximum = reservation[c].maximum /\ row.day = reservation[c].day
        /\ row.settled = reservation[c].settled /\ row.actual = reservation[c].actual
    BY <1>1, <2>1 DEF Reservation
  <2>3. reservation' = [reservation EXCEPT ![c] = row] \/ UNCHANGED reservation
    BY <1>2
  <2> HIDE DEF row, c
  <2> QED BY <1>1, <1>2, <2>1, <2>2, <2>3 DEF MoneyKept
<1>5. /\ At("send", c, q).pc = "send" /\ At("send", c, q).call = c /\ At("send", c, q).request = q
      /\ Idle.pc = "idle"
  BY <1>1, Places
<1>6. \A v \in Thread : (v = w /\ thread'[v] \in {At("send", c, q), Idle}) \/ thread'[v] = thread[v]
  BY <1>1, <1>2 DEF CallInv, RowTypes, Goto
<1> HIDE DEF c, q
<1> QED BY <1>1, <1>2, <1>3, <1>4, <1>5, <1>6, QuietMoney

(* What was charged is known to the thread that settles, or the maximum is.*)
LEMMA SendMoney ==
    ASSUME MoneyInv, NEW w \in Thread, Send(w)
    PROVE  MoneyInv'
<1> DEFINE c == thread[w].call
           q == thread[w].request
<1>1. /\ CallInv' /\ CallInv /\ c \in Call /\ q \in Request /\ Busy(w, c)
      /\ provider[c].requests = 0 /\ ~reservation[c].settled
      /\ UNCHANGED <<reservation, spent, reserved, day>>
  BY SendStep, PlaceTypes DEF MoneyInv, CallInv, Send, Busy, BusyIsAlone
<1>2. /\ provider[c].charged = 0 /\ reservation[c].maximum = Maximum[q] /\ Maximum[q] \in Nat
  BY <1>1, InferenceAssumption DEF MoneyInv, CostsAreKnown, Send
<1> DEFINE Went(charge, actual, d) ==
             /\ actual \in {charge, Maximum[q]}
             /\ Goto(w, Holding("settle", c, q, actual, d))
             /\ \/ provider' = [provider EXCEPT ![c] = [requests |-> @.requests + 1,
                                                        charged |-> @.charged + charge]]
                \/ UNCHANGED provider /\ charge = 0
<1>3. PICK charge \in Nat, actual \in Nat, d \in Decision \cup {None} : Went(charge, actual, d)
  <2>1. CASE UNCHANGED provider /\ Goto(w, Holding("settle", c, q, Maximum[q], None))
    <3>1. Went(0, Maximum[q], None)
      BY <2>1
    <3> QED BY <3>1, <1>2
  <2>2. ASSUME NEW charge \in Charge, NEW d \in Decision \cup {None},
               provider' = [provider EXCEPT ![c] = [requests |-> @.requests + 1,
                                                    charged |-> @.charged + charge]],
               \/ Goto(w, Holding("settle", c, q, charge, d))
               \/ Goto(w, Holding("settle", c, q, Maximum[q], None))
        PROVE  \E charged \in Nat, actual \in Nat, dd \in Decision \cup {None} : Went(charged, actual, dd)
    <3>1. Went(charge, charge, d) \/ Went(charge, Maximum[q], None)
      BY <2>2
    <3>2. charge \in Nat
      BY InferenceAssumption
    <3> HIDE DEF Went
    <3> QED BY <3>1, <3>2, <1>2
  <2>3. None \in Decision \cup {None}
    OBVIOUS
  <2> QED BY <2>1, <2>2, <2>3 DEF Send, UnknownCosts
<1>4. /\ provider'[c].charged = charge
      /\ provider'[c].requests = 0 => charge = 0
      /\ \A e \in Call : e # c => provider'[e] = provider[e]
  <2>1. provider \in [Call -> [requests : Nat, charged : Nat]]
    BY <1>1 DEF CallInv, RowTypes
  <2>2. provider[c] \in [requests : Nat, charged : Nat]
    BY <2>1, <1>1
  <2> HIDE DEF c, q
  <2> QED BY <2>1, <2>2, <1>1, <1>2, <1>3
<1>5. actual \in {charge, Maximum[q]} /\ Goto(w, Holding("settle", c, q, actual, d))
  BY <1>3
<1> HIDE DEF Went
<1>11. LET h == Holding("settle", c, q, actual, d)
      IN  h.pc = "settle" /\ h.call = c /\ h.request = q /\ h.actual = actual
  BY <1>1, <1>2, <1>3, Places
<1>6. /\ thread'[w] = Holding("settle", c, q, actual, d)
      /\ \A v \in Thread : v # w => thread'[v] = thread[v]
  BY <1>1, <1>5 DEF CallInv, RowTypes, Goto
<1>7. \A v \in Thread : v # w /\ thread[v].pc = "settle" => thread[v].call # c
  BY <1>1 DEF CallInv, BusyIsAlone, Busy
<1>8. \A v \in Thread : thread[v].pc # "idle" => thread[v].call \in Call
  BY <1>1, PlaceTypes DEF CallInv
<1>9. MoneyTypes' /\ AccountsAgree'
  BY <1>1, AccountsKept DEF MoneyInv, MoneyTypes, MoneyKept
<1>10. CostsAreKnown'
  <2>1. ASSUME NEW e \in Call
        PROVE LET row == reservation'[e]
              IN  /\ row.maximum = 0 => ~row.dispatched
                  /\ ~row.settled => row.actual = 0
                  /\ row.settled => row.actual \in {provider'[e].charged, row.maximum}
                  /\ provider'[e].requests = 0 => provider'[e].charged = 0
    BY <1>1, <1>4 DEF MoneyInv, CostsAreKnown
  <2>2. ASSUME NEW v \in Thread, thread'[v].pc # "idle"
        PROVE  /\ reservation'[thread'[v].call].maximum = Maximum[thread'[v].request]
               /\ thread'[v].pc = "settle" =>
                    thread'[v].actual \in {provider'[thread'[v].call].charged,
                                           reservation'[thread'[v].call].maximum}
    <3>1. CASE v = w
      <4> HIDE DEF c, q
      <4> QED BY <3>1, <1>1, <1>2, <1>4, <1>5, <1>6, <1>11
    <3>2. CASE v # w
      BY <3>2, <2>2, <1>1, <1>4, <1>6, <1>7, <1>8 DEF MoneyInv, CostsAreKnown
    <3> QED BY <3>1, <3>2
  <2> QED BY <2>1, <2>2 DEF CostsAreKnown
<1> QED BY <1>1, <1>9, <1>10 DEF MoneyInv

(* What the functions of an account are after a step.                      *)
NextActual(C) == [c \in Call |-> IF c \in C THEN reservation'[c].actual ELSE 0]
NextOpen(C) == [c \in Call |-> IF c \in C /\ ~reservation'[c].settled THEN reservation'[c].maximum ELSE 0]
NextExcess(C) ==
    [c \in Call |-> IF c \in C THEN Overrun(reservation'[c].actual, reservation'[c].maximum) ELSE 0]
NextAccount(C, used, held, budget) ==
    /\ used = SumFunctionOnSet(NextActual(C), Call)
    /\ held = SumFunctionOnSet(NextOpen(C), Call)
    /\ used + held <= budget + SumFunctionOnSet(NextExcess(C), Call)

LEMMA NextAccounts ==
    ASSUME \A t \in Task : NextAccount(CallsOf(t), spent'[t], reserved'[t], TaskBudget),
           \A d \in Day : NextAccount(CallsOn(d)', day'[d].spent, day'[d].reserved, DayBudget)
    PROVE  AccountsAgree'
<1>1. ASSUME NEW t \in Task PROVE Account(CallsOf(t), spent[t], reserved[t], TaskBudget)'
  <2>1. NextAccount(CallsOf(t), spent'[t], reserved'[t], TaskBudget)
    OBVIOUS
  <2>2. CallsOf(t)' = CallsOf(t)
    BY DEF CallsOf
  <2> QED BY <2>1, <2>2 DEF NextAccount, NextActual, NextOpen, NextExcess, Account, ActualIn, OpenIn, ExcessIn
<1>2. ASSUME NEW d \in Day PROVE Account(CallsOn(d), day[d].spent, day[d].reserved, DayBudget)'
  <2>1. NextAccount(CallsOn(d)', day'[d].spent, day'[d].reserved, DayBudget)
    OBVIOUS
  <2> QED BY <2>1 DEF NextAccount, NextActual, NextOpen, NextExcess, Account, ActualIn, OpenIn, ExcessIn
<1> QED BY <1>1, <1>2 DEF AccountsAgree

(* The step changes one call: an account it is not in stays as it is.      *)
LEMMA AccountWithout ==
    ASSUME NEW C, NEW CC, NEW c \in Call, NEW used, NEW held, NEW budget,
           Account(C, used, held, budget), c \notin C, c \notin CC,
           \A e \in Call \ {c} : reservation'[e] = reservation[e] /\ (e \in CC <=> e \in C)
    PROVE  NextAccount(CC, used, held, budget)
<1>1. NextActual(CC) = ActualIn(C)
  BY DEF NextActual, ActualIn
<1>2. NextOpen(CC) = OpenIn(C)
  BY DEF NextOpen, OpenIn
<1>3. NextExcess(CC) = ExcessIn(C)
  BY DEF NextExcess, ExcessIn
<1> QED BY <1>1, <1>2, <1>3 DEF NextAccount, Account

(* An account that it is in, or enters, moves with it.                     *)
LEMMA AccountWith ==
    ASSUME NEW C, NEW CC, NEW c \in Call, NEW used, NEW held, NEW used2, NEW held2, NEW budget \in Nat,
           Account(C, used, held, budget), c \in CC,
           reservation \in [Call -> Reservation], reservation' \in [Call -> Reservation],
           \A e \in Call \ {c} : reservation'[e] = reservation[e] /\ (e \in CC <=> e \in C),
           ~reservation[c].settled, reservation[c].actual = 0,
           c \notin C => reservation[c].maximum = 0,
           used2 = used + reservation'[c].actual,
           held2 = held - reservation[c].maximum + NextOpen(CC)[c],
           \/ used2 + held2 <= budget
           \/ reservation'[c].settled /\ reservation'[c].maximum = reservation[c].maximum
    PROVE  NextAccount(CC, used2, held2, budget)
<1> DEFINE a == ActualIn(C)
           o == OpenIn(C)
           e == ExcessIn(C)
           aa == NextActual(CC)
           oo == NextOpen(CC)
           ee == NextExcess(CC)
<1>1. /\ reservation[c].maximum \in Nat /\ reservation'[c].maximum \in Nat
      /\ reservation'[c].actual \in Nat
  BY DEF Reservation
<1>2. \A x \in Call : a[x] \in Nat /\ o[x] \in Nat /\ e[x] \in Nat
  BY AccountTypes
<1>3. \A x \in Call : aa[x] \in Nat /\ oo[x] \in Nat /\ ee[x] \in Nat
  BY DEF NextActual, NextOpen, NextExcess, Overrun, Reservation
<1>4. \A x \in Call \ {c} : aa[x] = a[x] /\ oo[x] = o[x] /\ ee[x] = e[x]
  BY DEF NextActual, NextOpen, NextExcess, ActualIn, OpenIn, ExcessIn
<1>5. a[c] = 0 /\ e[c] = 0 /\ o[c] = reservation[c].maximum
  BY <1>1 DEF ActualIn, OpenIn, ExcessIn, Overrun
<1>6. aa[c] = reservation'[c].actual
  BY DEF NextActual
<1>7. reservation'[c].settled /\ reservation'[c].maximum = reservation[c].maximum =>
        aa[c] + oo[c] <= o[c] + ee[c]
  BY <1>1, <1>5 DEF NextActual, NextOpen, NextExcess, Overrun
<1>8. /\ used = SumFunctionOnSet(a, Call) /\ held = SumFunctionOnSet(o, Call)
      /\ used + held <= budget + SumFunctionOnSet(e, Call)
  BY DEF Account
<1> HIDE DEF a, o, e, aa, oo, ee
<1>9. IsFiniteSet(Call)
  BY InferenceAssumption
<1>10. /\ SumFunctionOnSet(aa, Call) + a[c] = SumFunctionOnSet(a, Call) + aa[c]
       /\ SumFunctionOnSet(a, Call) \in Nat /\ SumFunctionOnSet(aa, Call) \in Nat
  <2>1. \A y \in Call : a[y] \in Nat /\ aa[y] \in Nat
    BY <1>2, <1>3
  <2>2. \A y \in Call \ {c} : a[y] = aa[y]
    BY <1>4
  <2>3. SumFunctionOnSet(aa, Call) + a[c] = SumFunctionOnSet(a, Call) + aa[c]
    BY <1>9, <2>1, <2>2, TotalChanges
  <2>4. SumFunctionOnSet(a, Call) \in Nat /\ SumFunctionOnSet(aa, Call) \in Nat
    BY <1>9, <2>1, TotalIn
  <2> QED BY <2>3, <2>4
<1>11. /\ SumFunctionOnSet(oo, Call) + o[c] = SumFunctionOnSet(o, Call) + oo[c]
       /\ SumFunctionOnSet(o, Call) \in Nat /\ SumFunctionOnSet(oo, Call) \in Nat
  <2>1. \A y \in Call : o[y] \in Nat /\ oo[y] \in Nat
    BY <1>2, <1>3
  <2>2. \A y \in Call \ {c} : o[y] = oo[y]
    BY <1>4
  <2>3. SumFunctionOnSet(oo, Call) + o[c] = SumFunctionOnSet(o, Call) + oo[c]
    BY <1>9, <2>1, <2>2, TotalChanges
  <2>4. SumFunctionOnSet(o, Call) \in Nat /\ SumFunctionOnSet(oo, Call) \in Nat
    BY <1>9, <2>1, TotalIn
  <2> QED BY <2>3, <2>4
<1>12. /\ SumFunctionOnSet(ee, Call) + e[c] = SumFunctionOnSet(e, Call) + ee[c]
       /\ SumFunctionOnSet(e, Call) \in Nat /\ SumFunctionOnSet(ee, Call) \in Nat
  <2>1. \A y \in Call : e[y] \in Nat /\ ee[y] \in Nat
    BY <1>2, <1>3
  <2>2. \A y \in Call \ {c} : e[y] = ee[y]
    BY <1>4
  <2>3. SumFunctionOnSet(ee, Call) + e[c] = SumFunctionOnSet(e, Call) + ee[c]
    BY <1>9, <2>1, <2>2, TotalChanges
  <2>4. SumFunctionOnSet(e, Call) \in Nat /\ SumFunctionOnSet(ee, Call) \in Nat
    BY <1>9, <2>1, TotalIn
  <2> QED BY <2>3, <2>4
<1>13. aa[c] \in Nat /\ oo[c] \in Nat /\ ee[c] \in Nat
  BY <1>3
<1>14. used2 = SumFunctionOnSet(aa, Call) /\ held2 = SumFunctionOnSet(oo, Call)
  <2>1. used2 = used + aa[c]
    BY <1>6
  <2>2. held2 = held - o[c] + oo[c]
    BY <1>5 DEF oo
  <2>3. SumFunctionOnSet(aa, Call) + 0 = SumFunctionOnSet(a, Call) + aa[c]
    BY <1>5, <1>10
  <2>4. o[c] \in Nat
    BY <1>1, <1>5
  <2>5. used2 = SumFunctionOnSet(aa, Call)
    BY <2>1, <2>3, <1>8, <1>10, <1>13
  <2>6. held2 = SumFunctionOnSet(oo, Call)
    BY <2>2, <2>4, <1>8, <1>11, <1>13
  <2> QED BY <2>5, <2>6
<1>15. SumFunctionOnSet(aa, Call) + SumFunctionOnSet(oo, Call)
         <= budget + SumFunctionOnSet(ee, Call)
  <2>1. used2 + held2 <= budget \/ aa[c] + oo[c] <= o[c] + ee[c]
    BY <1>7
  <2>2. o[c] \in Nat
    BY <1>1, <1>5
  <2> QED BY <2>1, <2>2, <1>5, <1>8, <1>10, <1>11, <1>12, <1>13, <1>14
<1> QED BY <1>14, <1>15 DEF NextAccount, aa, oo, ee

LEMMA NextTypes ==
    ASSUME reservation' \in [Call -> Reservation]
    PROVE  \A C : SumFunctionOnSet(NextOpen(C), Call) \in Nat
<1> SUFFICES ASSUME NEW C PROVE SumFunctionOnSet(NextOpen(C), Call) \in Nat
  OBVIOUS
<1>1. \A x \in Call : NextOpen(C)[x] \in Nat
  BY DEF NextOpen, Reservation
<1> QED BY <1>1, InferenceAssumption, TotalIn

(* An account's sums are those over its own calls.                         *)
LEMMA AccountIsSum ==
    ASSUME reservation \in [Call -> Reservation], NEW C \in SUBSET Call,
           NEW used, NEW held, NEW budget, Account(C, used, held, budget)
    PROVE  used = SumFunctionOnSet(Actuals, C) /\ held = SumFunctionOnSet(Maxima, C \cap Open)
<1>1. IsFiniteSet(Call) /\ C \cap Open \in SUBSET Call
  BY InferenceAssumption
<1>2. \A x \in Call : Actuals[x] \in Nat /\ Maxima[x] \in Nat
  BY DEF Actuals, Maxima, Reservation
<1>3. [x \in Call |-> IF x \in C THEN Actuals[x] ELSE 0] = ActualIn(C)
  BY DEF Actuals, ActualIn
<1>4. [x \in Call |-> IF x \in C \cap Open THEN Maxima[x] ELSE 0] = OpenIn(C)
  BY DEF Maxima, OpenIn, Open
<1>5. SumFunctionOnSet(Actuals, C) = SumFunctionOnSet(ActualIn(C), Call)
  BY <1>1, <1>2, <1>3, TotalOfPart
<1>6. SumFunctionOnSet(Maxima, C \cap Open) = SumFunctionOnSet(OpenIn(C), Call)
  BY <1>1, <1>2, <1>4, TotalOfPart
<1> QED BY <1>5, <1>6 DEF Account

LEMMA AccountCovers ==
    ASSUME MoneyInv, NEW C \in SUBSET Call, NEW used, NEW held, NEW budget \in Nat,
           Account(C, used, held, budget)
    PROVE  LET over == SumFunctionOnSet(Overruns, C)
           IN  /\ SumFunctionOnSet(Charges, C) <= used + held + over
               /\ used + held <= budget + over
<1> DEFINE charged == [x \in Call |-> IF x \in C THEN Charges[x] ELSE 0]
           overrun == [x \in Call |-> IF x \in C THEN Overruns[x] ELSE 0]
           a == ActualIn(C)
           o == OpenIn(C)
           e == ExcessIn(C)
<1>1. IsFiniteSet(Call)
  BY InferenceAssumption
<1>2. \A x \in Call : /\ reservation[x].maximum \in Nat /\ reservation[x].actual \in Nat
                      /\ provider[x].charged \in Nat /\ Overruns[x] \in Nat /\ Charges[x] \in Nat
                      /\ Charges[x] = provider[x].charged
                      /\ Overruns[x] = Overrun(provider[x].charged, reservation[x].maximum)
  BY DEF MoneyInv, CallInv, RowTypes, Reservation, Charges, Overruns, Overrun
<1>3. \A x \in Call : /\ ~reservation[x].settled => reservation[x].actual = 0
                      /\ reservation[x].settled =>
                           reservation[x].actual \in {provider[x].charged, reservation[x].maximum}
  BY DEF MoneyInv, CostsAreKnown
<1>4. \A x \in Call : /\ charged[x] \in Nat /\ overrun[x] \in Nat
                      /\ a[x] \in Nat /\ o[x] \in Nat /\ e[x] \in Nat
  BY <1>2 DEF ActualIn, OpenIn, ExcessIn, Overrun
<1>5. \A x \in Call : charged[x] <= a[x] + o[x] + overrun[x]
  BY <1>2, <1>3 DEF ActualIn, OpenIn, Overrun
<1>6. \A x \in Call : e[x] <= overrun[x]
  BY <1>2, <1>3 DEF ExcessIn, Overrun
<1>7. /\ SumFunctionOnSet(Charges, C) = SumFunctionOnSet(charged, Call)
      /\ SumFunctionOnSet(Overruns, C) = SumFunctionOnSet(overrun, Call)
  BY <1>1, <1>2, TotalOfPart
<1>8. /\ used = SumFunctionOnSet(a, Call) /\ held = SumFunctionOnSet(o, Call)
      /\ used + held <= budget + SumFunctionOnSet(e, Call)
  BY DEF Account
<1> HIDE DEF charged, overrun, a, o, e
<1>9. SumFunctionOnSet(charged, Call) <=
        SumFunctionOnSet(a, Call) + SumFunctionOnSet(o, Call) + SumFunctionOnSet(overrun, Call)
  BY <1>1, <1>4, <1>5, TotalCovered
<1>10. SumFunctionOnSet(e, Call) <= SumFunctionOnSet(overrun, Call)
  BY <1>1, <1>4, <1>6, TotalAtMost
<1>11. /\ SumFunctionOnSet(a, Call) \in Nat /\ SumFunctionOnSet(o, Call) \in Nat
       /\ SumFunctionOnSet(e, Call) \in Nat /\ SumFunctionOnSet(overrun, Call) \in Nat
  BY <1>1, <1>4, TotalIn
<1> QED BY <1>7, <1>8, <1>9, <1>10, <1>11

(* A new reservation fits the budgets of its task and of the day, and no   *)
(* thread is at work on a call that has no row.                            *)
LEMMA ReserveMoney ==
    ASSUME MoneyInv, NEW w \in Thread, NEW c \in Call, NEW q \in Request, Reserve(w, c, q)
    PROVE  MoneyInv'
<1>1. /\ CallInv' /\ CallInv /\ MoneyTypes /\ CostsAreKnown /\ AccountsAgree
      /\ At("bind", c, q).pc = "bind" /\ At("bind", c, q).call = c /\ At("bind", c, q).request = q
  BY ReserveStep, Places DEF MoneyInv
<1>2. /\ UNCHANGED <<spent, provider>> /\ Goto(w, At("bind", c, q))
      /\ Maximum[q] \in Nat /\ Maximum[q] # 0 /\ TaskBudget \in Nat /\ DayBudget \in Nat
      /\ TaskOf[c] \in Task /\ \A r \in Request : Maximum[r] # 0
  BY InferenceAssumption DEF Reserve
<1>3. \A v \in Thread : thread'[v] = IF v = w THEN At("bind", c, q) ELSE thread[v]
  BY <1>1, <1>2 DEF CallInv, RowTypes, Goto
<1>4. CASE reservation[c].maximum = Maximum[q] /\ UNCHANGED <<reservation, day, reserved>>
  <2>1. MoneyKept
    BY <1>2, <1>4 DEF MoneyKept
  <2> QED BY <2>1, <1>1, <1>2, <1>3, <1>4, QuietMoney
<1>5. CASE reservation[c].maximum = 0 /\ NewReservation(c, Maximum[q])
  <2> DEFINE m == Maximum[q]
  <2>1. /\ reservation \in [Call -> Reservation] /\ reservation' \in [Call -> Reservation]
        /\ today \in Day
        /\ spent \in [Task -> Nat] /\ reserved \in [Task -> Nat]
        /\ day \in [Day -> [spent : Nat, reserved : Nat]]
    BY <1>1 DEF CallInv, RowTypes, MoneyTypes
  <2>2. /\ ~reservation[c].settled /\ ~reservation[c].dispatched /\ reservation[c].actual = 0
    BY <1>1, <1>5 DEF CallInv, RowsAreHonest, CostsAreKnown
  <2>3. /\ \A e \in Call \ {c} : reservation'[e] = reservation[e]
        /\ reservation'[c].maximum = m /\ reservation'[c].day = today
        /\ ~reservation'[c].settled /\ ~reservation'[c].dispatched /\ reservation'[c].actual = 0
    BY <1>5, <2>1, <2>2 DEF NewReservation, Reservation
  <2>4. /\ day' = [day EXCEPT ![today].reserved = @ + m]
        /\ reserved' = [reserved EXCEPT ![TaskOf[c]] = @ + m]
        /\ day[today].spent + day[today].reserved + m <= DayBudget
        /\ spent[TaskOf[c]] + reserved[TaskOf[c]] + m <= TaskBudget
    BY <1>5 DEF NewReservation, FitsDay, FitsTask
  <2>5. /\ \A d \in Day : day[d].spent \in Nat /\ day[d].reserved \in Nat
        /\ \A d \in Day : day'[d].spent = day[d].spent
        /\ \A d \in Day \ {today} : day'[d] = day[d]
        /\ day'[today].reserved = day[today].reserved + m
        /\ day' \in [Day -> [spent : Nat, reserved : Nat]]
    BY <2>1, <2>4, <1>2
  <2>6. MoneyTypes'
    BY <1>2, <2>1, <2>4, <2>5 DEF MoneyTypes
  <2>7. ASSUME NEW t \in Task PROVE NextAccount(CallsOf(t), spent'[t], reserved'[t], TaskBudget)
    <3>1. Account(CallsOf(t), spent[t], reserved[t], TaskBudget) /\ spent'[t] = spent[t]
      BY <1>1, <1>2 DEF AccountsAgree
    <3>2. CASE t = TaskOf[c]
      <4>1. c \in CallsOf(t)
        BY <3>2 DEF CallsOf
      <4>2. NextOpen(CallsOf(t))[c] = m
        BY <4>1, <2>3 DEF NextOpen
      <4>3. reserved'[t] = reserved[t] + m /\ spent[t] \in Nat /\ reserved[t] \in Nat
        BY <2>1, <2>4, <3>2
      <4>4. /\ spent'[t] = spent[t] + reservation'[c].actual
            /\ reserved'[t] = reserved[t] - reservation[c].maximum + NextOpen(CallsOf(t))[c]
            /\ spent'[t] + reserved'[t] <= TaskBudget
        BY <4>2, <4>3, <1>2, <1>5, <2>3, <2>4, <3>1, <3>2
      <4> HIDE DEF m
      <4> QED BY <4>1, <4>4, <1>2, <1>5, <2>1, <2>2, <2>3, <3>1, AccountWith
    <3>3. CASE t # TaskOf[c]
      <4>1. c \notin CallsOf(t) /\ reserved'[t] = reserved[t]
        BY <3>3, <2>1, <2>4 DEF CallsOf
      <4> QED BY <4>1, <3>1, <2>3, AccountWithout
    <3> QED BY <3>2, <3>3
  <2>8. ASSUME NEW d \in Day PROVE NextAccount(CallsOn(d)', day'[d].spent, day'[d].reserved, DayBudget)
    <3>1. Account(CallsOn(d), day[d].spent, day[d].reserved, DayBudget) /\ day'[d].spent = day[d].spent
      BY <1>1, <2>5 DEF AccountsAgree
    <3>2. \A e \in Call \ {c} : reservation'[e] = reservation[e] /\ (e \in CallsOn(d)' <=> e \in CallsOn(d))
      BY <2>3 DEF CallsOn
    <3>3. c \notin CallsOn(d) /\ (c \in CallsOn(d)' <=> d = today)
      BY <1>2, <1>5, <2>3 DEF CallsOn
    <3>4. CASE d = today
      <4>1. NextOpen(CallsOn(d)')[c] = m
        BY <3>3, <3>4, <2>3 DEF NextOpen
      <4>2. /\ day'[d].spent = day[d].spent + reservation'[c].actual
            /\ day'[d].reserved = day[d].reserved - reservation[c].maximum + NextOpen(CallsOn(d)')[c]
            /\ day'[d].spent + day'[d].reserved <= DayBudget
        BY <4>1, <1>2, <1>5, <2>3, <2>4, <2>5, <3>1, <3>4
      <4> HIDE DEF m
      <4> QED BY <4>2, <1>2, <1>5, <2>1, <2>2, <2>3, <3>1, <3>2, <3>3, <3>4, AccountWith
    <3>5. CASE d # today
      <4>1. day'[d].reserved = day[d].reserved
        BY <3>5, <2>5
      <4> QED BY <4>1, <3>1, <3>2, <3>3, <3>5, AccountWithout
    <3> QED BY <3>4, <3>5
  <2>9. AccountsAgree'
    BY <2>7, <2>8, NextAccounts
  <2>10. CostsAreKnown'
    <3>1. ASSUME NEW e \in Call
          PROVE LET row == reservation'[e]
                IN  /\ row.maximum = 0 => ~row.dispatched
                    /\ ~row.settled => row.actual = 0
                    /\ row.settled => row.actual \in {provider'[e].charged, row.maximum}
                    /\ provider'[e].requests = 0 => provider'[e].charged = 0
      BY <1>1, <1>2, <2>3 DEF CostsAreKnown
    <3>2. ASSUME NEW v \in Thread, thread'[v].pc # "idle"
          PROVE  /\ reservation'[thread'[v].call].maximum = Maximum[thread'[v].request]
                 /\ thread'[v].pc = "settle" =>
                      thread'[v].actual \in {provider'[thread'[v].call].charged,
                                             reservation'[thread'[v].call].maximum}
      <4>1. CASE v = w
        BY <4>1, <1>1, <1>3, <2>3
      <4>2. CASE v # w
        <5>1. thread'[v] = thread[v] /\ thread[v].call \in Call /\ thread[v].request \in Request
          BY <4>2, <3>2, <1>1, <1>3, PlaceTypes DEF CallInv
        <5>2. thread[v].call # c
          BY <5>1, <3>2, <1>1, <1>2, <1>5 DEF CostsAreKnown
        <5> QED BY <5>1, <5>2, <3>2, <1>1, <1>2, <2>3 DEF CostsAreKnown
      <4> QED BY <4>1, <4>2
    <3> QED BY <3>1, <3>2 DEF CostsAreKnown
  <2> QED BY <1>1, <2>6, <2>9, <2>10 DEF MoneyInv
<1> QED BY <1>4, <1>5 DEF Reserve

(* Settling moves a call's maximum out of what is reserved, and its cost   *)
(* into what is spent, on the accounts of its task and of its day.         *)
LEMMA SettleMoney ==
    ASSUME MoneyInv, NEW w \in Thread, Settle(w)
    PROVE  MoneyInv'
<1> DEFINE c == thread[w].call
           h == thread[w]
<1>1. /\ CallInv' /\ CallInv /\ MoneyTypes /\ CostsAreKnown /\ AccountsAgree
      /\ c \in Call /\ h.request \in Request /\ Busy(w, c)
      /\ h.actual \in Nat /\ h.decision \in Decision \cup {None}
      /\ ~reservation[c].settled
      /\ [h EXCEPT !.pc = "returned"] = Holding("returned", c, h.request, h.actual, h.decision)
      /\ UNCHANGED provider
  BY SettleStep, PlaceTypes DEF MoneyInv, CallInv, Settle, Busy, BusyIsAlone
<1>2. /\ reservation[c].actual = 0 /\ reservation[c].maximum = Maximum[h.request]
      /\ reservation[c].maximum # 0 /\ h.actual \in {provider[c].charged, reservation[c].maximum}
  BY <1>1, InferenceAssumption DEF CostsAreKnown, Settle
<1>3. /\ reservation' = [reservation EXCEPT ![c] =
           [@ EXCEPT !.settled = TRUE, !.actual = h.actual, !.decision = h.decision]]
      /\ reserved' = [reserved EXCEPT ![TaskOf[c]] = @ - reservation[c].maximum]
      /\ spent' = [spent EXCEPT ![TaskOf[c]] = @ + h.actual]
      /\ day' = [day EXCEPT ![reservation[c].day] =
           [spent |-> @.spent + h.actual, reserved |-> @.reserved - reservation[c].maximum]]
      /\ Goto(w, IF h.decision = None THEN Idle ELSE [h EXCEPT !.pc = "returned"])
  BY <1>1 DEF Settle, BookedOn
<1>4. /\ reservation \in [Call -> Reservation] /\ reservation' \in [Call -> Reservation]
      /\ spent \in [Task -> Nat] /\ reserved \in [Task -> Nat]
      /\ day \in [Day -> [spent : Nat, reserved : Nat]]
      /\ TaskOf[c] \in Task /\ reservation[c].day \in Day /\ reservation[c].maximum \in Nat
      /\ TaskBudget \in Nat /\ DayBudget \in Nat
  BY <1>1, InferenceAssumption DEF CallInv, RowTypes, MoneyTypes, Reservation
<1>5. /\ \A e \in Call \ {c} : reservation'[e] = reservation[e]
      /\ reservation'[c].settled /\ reservation'[c].actual = h.actual
      /\ reservation'[c].maximum = reservation[c].maximum /\ reservation'[c].day = reservation[c].day
      /\ reservation'[c].dispatched = reservation[c].dispatched
  <2> DEFINE row == [reservation[c] EXCEPT !.settled = TRUE, !.actual = h.actual,
                                           !.decision = h.decision]
  <2>1. /\ row.settled /\ row.actual = h.actual /\ row.maximum = reservation[c].maximum
        /\ row.day = reservation[c].day /\ row.dispatched = reservation[c].dispatched
    BY <1>1, <1>4 DEF Reservation
  <2>2. reservation' = [reservation EXCEPT ![c] = row]
    BY <1>3
  <2> HIDE DEF row
  <2> QED BY <2>1, <2>2, <1>1, <1>4
<1>6. \A e \in Call, d \in Day : e \in CallsOn(d)' <=> e \in CallsOn(d)
  BY <1>5 DEF CallsOn
<1>7. \A C : c \in C => NextOpen(C)[c] = 0
  BY <1>1, <1>5 DEF NextOpen
<1> HIDE DEF c, h
<1>8. ASSUME NEW t \in Task
      PROVE  /\ NextAccount(CallsOf(t), spent'[t], reserved'[t], TaskBudget)
             /\ spent'[t] \in Nat
    <3>1. Account(CallsOf(t), spent[t], reserved[t], TaskBudget) /\ spent[t] \in Nat /\ reserved[t] \in Nat
      BY <1>1, <1>4 DEF AccountsAgree
    <3>2. CASE t = TaskOf[c]
      <4>1. c \in CallsOf(t)
        BY <3>2, <1>1 DEF CallsOf
      <4>2. reserved'[t] = reserved[t] - reservation[c].maximum /\ spent'[t] = spent[t] + h.actual
        BY <1>3, <1>4, <3>2
      <4>3. /\ spent'[t] = spent[t] + reservation'[c].actual
            /\ reserved'[t] = reserved[t] - reservation[c].maximum + NextOpen(CallsOf(t))[c]
        BY <4>1, <4>2, <1>4, <1>5, <1>7, <3>1
      <4>4. \A e \in Call \ {c} : reservation'[e] = reservation[e]
                                 /\ (e \in CallsOf(t) <=> e \in CallsOf(t))
        BY <1>5
      <4>5. NextAccount(CallsOf(t), spent'[t], reserved'[t], TaskBudget)
        <5> DEFINE C == CallsOf(t)
        <5>1. Account(C, spent[t], reserved[t], TaskBudget) /\ c \in C
          BY <3>1, <4>1
        <5>2. \A e \in Call \ {c} : reservation'[e] = reservation[e] /\ (e \in C <=> e \in C)
          BY <4>4
        <5>3. /\ spent'[t] = spent[t] + reservation'[c].actual
              /\ reserved'[t] = reserved[t] - reservation[c].maximum + NextOpen(C)[c]
          BY <4>3
        <5> HIDE DEF C
        <5>4. c \in Call /\ TaskBudget \in Nat /\ reservation \in [Call -> Reservation]
              /\ reservation' \in [Call -> Reservation] /\ ~reservation[c].settled
              /\ reservation[c].actual = 0 /\ reservation'[c].settled
              /\ reservation'[c].maximum = reservation[c].maximum
          BY <1>1, <1>2, <1>4, <1>5
        <5>5. NextAccount(C, spent'[t], reserved'[t], TaskBudget)
          BY <5>1, <5>2, <5>3, <5>4, AccountWith
        <5> QED BY <5>5 DEF C
      <4>6. spent'[t] \in Nat
        BY <4>2, <3>1, <1>1
      <4> QED BY <4>5, <4>6
    <3>3. CASE t # TaskOf[c]
      <4>1. c \notin CallsOf(t) /\ reserved'[t] = reserved[t] /\ spent'[t] = spent[t]
        BY <3>3, <1>3, <1>4 DEF CallsOf
      <4> QED BY <4>1, <3>1, <1>1, <1>5, AccountWithout
    <3> QED BY <3>2, <3>3
<1>9. ASSUME NEW d \in Day
      PROVE  /\ NextAccount(CallsOn(d)', day'[d].spent, day'[d].reserved, DayBudget)
             /\ day'[d].spent \in Nat
    <3>1. /\ Account(CallsOn(d), day[d].spent, day[d].reserved, DayBudget)
          /\ day[d].spent \in Nat /\ day[d].reserved \in Nat
      BY <1>1, <1>4 DEF AccountsAgree
    <3>2. c \in CallsOn(d) <=> d = reservation[c].day
      BY <1>1, <1>2 DEF CallsOn
    <3>3. \A e \in Call \ {c} : reservation'[e] = reservation[e] /\ (e \in CallsOn(d)' <=> e \in CallsOn(d))
      BY <1>5, <1>6
    <3>4. CASE d = reservation[c].day
      <4>1. c \in CallsOn(d) /\ c \in CallsOn(d)'
        BY <3>2, <3>4, <1>1, <1>6
      <4>2. /\ day'[d].reserved = day[d].reserved - reservation[c].maximum
            /\ day'[d].spent = day[d].spent + h.actual
        BY <1>3, <1>4, <3>4
      <4>3. /\ day'[d].spent = day[d].spent + reservation'[c].actual
            /\ day'[d].reserved = day[d].reserved - reservation[c].maximum + NextOpen(CallsOn(d)')[c]
        BY <4>1, <4>2, <1>4, <1>5, <1>7, <3>1
      <4>4. NextAccount(CallsOn(d)', day'[d].spent, day'[d].reserved, DayBudget)
        <5> DEFINE C == CallsOn(d)
                   CC == CallsOn(d)'
        <5>1. Account(C, day[d].spent, day[d].reserved, DayBudget) /\ c \in C /\ c \in CC
          BY <3>1, <4>1
        <5>2. \A e \in Call \ {c} : reservation'[e] = reservation[e] /\ (e \in CC <=> e \in C)
          BY <3>3
        <5>3. /\ day'[d].spent = day[d].spent + reservation'[c].actual
              /\ day'[d].reserved = day[d].reserved - reservation[c].maximum + NextOpen(CC)[c]
          BY <4>3
        <5> HIDE DEF C, CC
        <5>4. c \in Call /\ DayBudget \in Nat /\ reservation \in [Call -> Reservation]
              /\ reservation' \in [Call -> Reservation] /\ ~reservation[c].settled
              /\ reservation[c].actual = 0 /\ reservation'[c].settled
              /\ reservation'[c].maximum = reservation[c].maximum
          BY <1>1, <1>2, <1>4, <1>5
        <5>5. NextAccount(CC, day'[d].spent, day'[d].reserved, DayBudget)
          BY <5>1, <5>2, <5>3, <5>4, AccountWith
        <5> QED BY <5>5 DEF CC
      <4>5. day'[d].spent \in Nat
        BY <4>2, <3>1, <1>1
      <4> QED BY <4>4, <4>5
    <3>5. CASE d # reservation[c].day
      <4>1. c \notin CallsOn(d) /\ c \notin CallsOn(d)' /\ day'[d] = day[d]
        BY <3>2, <3>5, <1>1, <1>3, <1>4, <1>6
      <4> QED BY <4>1, <3>1, <3>3, <1>1, AccountWithout
    <3> QED BY <3>4, <3>5
<1>10. AccountsAgree'
  BY <1>8, <1>9, NextAccounts
<1>11. MoneyTypes'
  <2>1. \A t \in Task : reserved'[t] \in Nat
    <3>1. \A t \in Task : reserved'[t] = SumFunctionOnSet(NextOpen(CallsOf(t)), Call)
      BY <1>8 DEF NextAccount
    <3> QED BY <3>1, <1>4, NextTypes
  <2>2. \A d \in Day : day'[d].reserved \in Nat
    <3>1. \A d \in Day : day'[d].reserved = SumFunctionOnSet(NextOpen(CallsOn(d)'), Call)
      BY <1>9 DEF NextAccount
    <3> QED BY <3>1, <1>4, NextTypes
  <2>3. day' \in [Day -> [spent : Int, reserved : Int]]
    <3> DEFINE b == [spent |-> day[reservation[c].day].spent + h.actual,
                     reserved |-> day[reservation[c].day].reserved - reservation[c].maximum]
    <3>1. day' = [day EXCEPT ![reservation[c].day] = b]
      BY <1>3
    <3>2. b \in [spent : Int, reserved : Int]
      BY <1>1, <1>4
    <3>3. \A d \in Day : day[d] \in [spent : Int, reserved : Int]
      BY <1>4
    <3> HIDE DEF b
    <3> QED BY <3>1, <3>2, <3>3, <1>4
  <2>4. day' \in [Day -> [spent : Nat, reserved : Nat]]
    BY <2>2, <2>3, <1>9
  <2>5. spent' \in [Task -> Nat]
    <3>1. spent' = [t \in Task |-> spent'[t]]
      BY <1>3, <1>4
    <3> QED BY <3>1, <1>8
  <2>6. reserved' \in [Task -> Nat]
    <3>1. reserved' = [t \in Task |-> reserved'[t]]
      BY <1>3, <1>4
    <3> QED BY <3>1, <2>1
  <2> QED BY <2>4, <2>5, <2>6 DEF MoneyTypes
<1>12. CostsAreKnown'
  <2>1. ASSUME NEW e \in Call
        PROVE LET row == reservation'[e]
              IN  /\ row.maximum = 0 => ~row.dispatched
                  /\ ~row.settled => row.actual = 0
                  /\ row.settled => row.actual \in {provider'[e].charged, row.maximum}
                  /\ provider'[e].requests = 0 => provider'[e].charged = 0
    BY <1>1, <1>2, <1>5 DEF CostsAreKnown
  <2>2. ASSUME NEW v \in Thread, thread'[v].pc # "idle"
        PROVE  /\ reservation'[thread'[v].call].maximum = Maximum[thread'[v].request]
               /\ thread'[v].pc = "settle" =>
                    thread'[v].actual \in {provider'[thread'[v].call].charged,
                                           reservation'[thread'[v].call].maximum}
    <3>1. CASE v = w
      <4>1. thread'[w] = Holding("returned", c, h.request, h.actual, h.decision)
        BY <2>2, <3>1, <1>1, <1>3, Places DEF CallInv, RowTypes, Goto
      <4>2. thread'[w].pc = "returned" /\ thread'[w].call = c /\ thread'[w].request = h.request
        BY <4>1, <1>1, Places
      <4> QED BY <4>2, <3>1, <1>2, <1>5
    <3>2. CASE v # w
      <4>1. thread'[v] = thread[v]
        BY <3>2, <1>1, <1>3 DEF CallInv, RowTypes, Goto
      <4>2. thread[v].call \in Call
        BY <4>1, <2>2, <1>1, PlaceTypes DEF CallInv
      <4>3. reservation'[thread[v].call].maximum = reservation[thread[v].call].maximum
        BY <4>2, <1>5
      <4> QED BY <4>1, <4>2, <4>3, <2>2, <1>1 DEF CostsAreKnown
    <3> QED BY <3>1, <3>2
  <2> QED BY <2>1, <2>2 DEF CostsAreKnown
<1> QED BY <1>1, <1>10, <1>11, <1>12 DEF MoneyInv

LEMMA MoneyStep == MoneyInv /\ [Next]_vars => MoneyInv'
<1> SUFFICES ASSUME MoneyInv, [Next]_vars PROVE MoneyInv'
  OBVIOUS
<1>1. CallInv' /\ CallInv
  BY CallStep DEF MoneyInv
<1>2. ASSUME NEW w \in Thread, Leave(w) PROVE MoneyInv'
  <2>1. MoneyKept /\ UNCHANGED <<provider, reservation>>
    BY <1>2 DEF Leave, MoneyKept
  <2>2. \A v \in Thread : thread'[v] = thread[v] \/ thread'[v].pc = "idle"
    BY <1>1, <1>2 DEF Leave, Goto, CallInv, RowTypes, Idle
  <2> QED BY <1>1, <2>1, <2>2, QuietMoney
<1>3. CASE Environment \/ UNCHANGED vars
  <2>1. MoneyKept /\ UNCHANGED <<provider, reservation, thread>>
    BY <1>3 DEF Environment, vars, MoneyKept
  <2> QED BY <1>1, <2>1, QuietMoney
<1> QED BY <1>2, <1>3, ReserveMoney, BindMoney, ClaimMoney, SendMoney, SettleMoney DEF Next

(* What rows, threads and accounts say of money agrees, for every instance.*)
THEOREM MoneyInvariant == Spec => []MoneyInv
  BY MoneyInit, MoneyStep, PTL DEF Spec

(* Tasks and days have spent and reserved the sum over their calls, for    *)
(* any number of calls, tasks, days and ticks (service.py reserve, settle).*)
THEOREM BooksAlwaysBalance == Spec => []BooksBalance
<1>1. MoneyInv => BooksBalance
  <2> SUFFICES ASSUME MoneyInv PROVE BooksBalance
    OBVIOUS
  <2>1. ASSUME NEW C \in SUBSET Call, NEW used, NEW held, NEW budget, Account(C, used, held, budget)
        PROVE  used = SumFunctionOnSet(Actuals, C) /\ held = SumFunctionOnSet(Maxima, C \cap Open)
    BY <2>1, AccountIsSum DEF MoneyInv, CallInv, RowTypes
  <2>2. \A t \in Task : CallsOf(t) \in SUBSET Call /\ Account(CallsOf(t), spent[t], reserved[t], TaskBudget)
    BY DEF MoneyInv, AccountsAgree, CallsOf
  <2>3. \A d \in Day : CallsOn(d) \in SUBSET Call
                       /\ Account(CallsOn(d), day[d].spent, day[d].reserved, DayBudget)
    BY DEF MoneyInv, AccountsAgree, CallsOn
  <2> QED BY <2>1, <2>2, <2>3 DEF BooksBalance
<1> QED BY <1>1, MoneyInvariant, PTL

(* The provider's charges are covered by the books and the books by the    *)
(* budgets, but for what it charges beyond a request's maximum.            *)
THEOREM MoneyStaysCovered == Spec => []MoneyIsCovered
<1>1. MoneyInv => MoneyIsCovered
  <2> SUFFICES ASSUME MoneyInv PROVE MoneyIsCovered
    OBVIOUS
  <2>1. TaskBudget \in Nat /\ DayBudget \in Nat
    BY InferenceAssumption
  <2>2. ASSUME NEW t \in Task
        PROVE  LET over == SumFunctionOnSet(Overruns, CallsOf(t))
               IN  /\ SumFunctionOnSet(Charges, CallsOf(t)) <= spent[t] + reserved[t] + over
                   /\ spent[t] + reserved[t] <= TaskBudget + over
    <3>1. CallsOf(t) \in SUBSET Call /\ Account(CallsOf(t), spent[t], reserved[t], TaskBudget)
      BY DEF MoneyInv, AccountsAgree, CallsOf
    <3> QED BY <2>1, <3>1, AccountCovers
  <2>3. ASSUME NEW d \in Day
        PROVE  LET over == SumFunctionOnSet(Overruns, CallsOn(d))
               IN  /\ SumFunctionOnSet(Charges, CallsOn(d)) <= day[d].spent + day[d].reserved + over
                   /\ day[d].spent + day[d].reserved <= DayBudget + over
    <3>1. CallsOn(d) \in SUBSET Call /\ Account(CallsOn(d), day[d].spent, day[d].reserved, DayBudget)
      BY DEF MoneyInv, AccountsAgree, CallsOn
    <3> QED BY <2>1, <3>1, AccountCovers
  <2> QED BY <2>2, <2>3 DEF MoneyIsCovered
<1> QED BY <1>1, MoneyInvariant, PTL

=============================================================================
