------------------------- MODULE MidtransWebhookProofs -------------------------
(***************************************************************************)
(* Proofs about MidtransWebhook, for every number of orders, of requests   *)
(* handled at a time, of moves, repeated notifications and failures.       *)
(***************************************************************************)
EXTENDS MidtransWebhook, SequenceTheorems, TLAPS

(***************************************************************************)
(* The order of statuses.                                                  *)
(***************************************************************************)
Known == Status \ {"unknown"}

\* b is a status that a row with status a has, or may still get.
Leq(a, b) == a = b \/ ShouldApplyStatusUpdate(a, b)

\* ShouldApplyStatusUpdate orders the known statuses: no sequence of accepted updates
\* leads back to a status that was left, and a status that several updates reach is
\* accepted in one, which is why a notification may be skipped or come late.
THEOREM UpdatesAreAnOrder ==
    /\ \A a, b \in Known : Leq(a, b) /\ Leq(b, a) => a = b
    /\ \A a, b, c \in Known : Leq(a, b) /\ Leq(b, c) => Leq(a, c)
<1>1. ASSUME NEW a \in Known, NEW b \in Known, Leq(a, b), Leq(b, a)
      PROVE  a = b
    BY <1>1 DEF Known, Status, Leq, ShouldApplyStatusUpdate, AfterPending, AfterPaid
<1>2. ASSUME NEW a \in Known, NEW b \in Known, NEW c \in Known, Leq(a, b), Leq(b, c)
      PROVE  Leq(a, c)
    BY <1>2 DEF Known, Status, Leq, ShouldApplyStatusUpdate, AfterPending, AfterPaid
<1>. QED
    BY <1>1, <1>2

\* Every status of Midtrans is mapped to a known status.
LEMMA PaymentStatus ==
    ASSUME NEW p \in Payment
    PROVE  MapMidtransStatus(p) \in Known
BY PaymentAssumption DEF Known

(***************************************************************************)
(* Types.                                                                  *)
(***************************************************************************)
\* What Updated returns: a row with the old status or an accepted new one.
LEMMA UpdatedRow ==
    ASSUME NEW row \in Row, NEW n \in Notification
    PROVE  /\ Updated(row, n) \in Row
           /\ Updated(row, n).status = row.status
              \/ /\ ShouldApplyStatusUpdate(row.status, MapMidtransStatus(n.payment))
                 /\ Updated(row, n).status = MapMidtransStatus(n.payment)
<1> DEFINE s == MapMidtransStatus(n.payment)
<1>1. n.payment \in Payment /\ n.time \in Nat
    BY WebhookBoundAssumption DEF Notification
<1>2. s \in Status
    BY <1>1, PaymentStatus DEF Known
<1> HIDE DEF s
<1>3. BuildTimestampUpdate(row, s, n) \in [Stamped -> Nat]
    BY <1>1 DEF BuildTimestampUpdate, TimeOf, Row
<1>4. CASE ShouldApplyStatusUpdate(row.status, s)
    <2>1. Updated(row, n) = [status |-> s, at |-> BuildTimestampUpdate(row, s, n)]
        BY <1>4 DEF Updated, s
    <2>. QED
        BY <2>1, <1>2, <1>3, <1>4 DEF Row, s
<1>5. CASE ~ShouldApplyStatusUpdate(row.status, s)
    BY <1>5 DEF Updated, s
<1>. QED
    BY <1>4, <1>5

\* A function on 1..n is a sequence of length n.
LEMMA FunctionIsSeq ==
    ASSUME NEW n \in Nat, NEW f \in [1..n -> Event]
    PROVE  f \in Seq(Event) /\ Len(f) = n
<1>1. f \in Seq(Event)
    BY SeqDef
<1>2. Len(f) \in Nat /\ DOMAIN f = 1..Len(f)
    BY <1>1, LenProperties
<1>3. 1..n = 1..Len(f)
    BY <1>2
<1>4. n \in 1..n \/ n = 0
    OBVIOUS
<1>5. Len(f) \in 1..Len(f) \/ Len(f) = 0
    BY <1>2
<1>. QED
    BY <1>1, <1>2, <1>3, <1>4, <1>5

\* A new entry of the events.
LEMMA AppendTypes ==
    ASSUME NEW es \in Seq(Event), NEW e \in Event
    PROVE  /\ Append(es, e) \in Seq(Event)
           /\ Len(es) \in Nat
           /\ Len(Append(es, e)) = Len(es) + 1
           /\ Append(es, e)[Len(es) + 1] = e
           /\ \A i \in 1..Len(es) : Append(es, e)[i] = es[i]
BY AppendProperties, LenProperties

(***************************************************************************)
(* The inductive invariant.                                                *)
(***************************************************************************)

\* A row appears once, from the answer to a charge that Midtrans accepted.
ChargeInv ==
    \A o \in Order :
        /\ response[o] # NoRow => trx[o] = NoRow /\ payment[o] # NoRow
        /\ payment[o] = NoRow => trx[o] = NoRow

\* A handler that has read the row holds its lock, and what it read is current.
RequestInv ==
    \A r \in Request :
        LET o == message[r].order IN
        /\ pc[r] # "idle" => message[r] \in sent
        /\ pc[r] = "update" => lock[o] = r /\ trx[o] # NoRow /\ read[r] = trx[o]
        /\ pc[r] = "enqueue" => entry[r] \in 1..Len(events[o])

Inv == TypeOK /\ ChargeInv /\ RequestInv /\ EventTrail

\* The first state satisfies the invariant.
LEMMA InvInit == Init => Inv
<1> SUFFICES ASSUME Init PROVE Inv
    OBVIOUS
<1> USE WebhookBoundAssumption
<1>1. TypeOK
    BY EmptySeq DEF Init, TypeOK
<1>2. ChargeInv /\ RequestInv
    BY DEF Init, ChargeInv, RequestInv
<1>3. \A o \in Order : Len(events[o]) = 0
    BY EmptySeq DEF Init
<1>4. EventTrail
    BY <1>3 DEF EventTrail
<1>. QED
    BY <1>1, <1>2, <1>4 DEF Inv

\* Only the state of deliveries changes in the events.
Marks ==
    /\ events' \in [Order -> Seq(Event)]
    /\ \A o \in Order :
         /\ Len(events'[o]) = Len(events[o])
         /\ \A i \in 1..Len(events[o]) : /\ events'[o][i].previous = events[o][i].previous
                                         /\ events'[o][i].new = events[o][i].new

\* A step that leaves the events alone keeps their statuses.
LEMMA NoChangeMarks ==
    ASSUME TypeOK, UNCHANGED events
    PROVE  Marks
BY DEF TypeOK, Marks

\* What a handler that runs works on.
LEMMA MessageFields ==
    ASSUME TypeOK, RequestInv, NEW r \in Request, pc[r] # "idle"
    PROVE  /\ message[r] \in Notification
           /\ message[r].order \in Order
           /\ message[r].payment \in Payment
           /\ message[r] \in sent
BY DEF TypeOK, RequestInv, Notification

\* Marking the delivery of an event keeps its statuses, and the other events.
LEMMA SetDeliveryMarks ==
    ASSUME TypeOK, RequestInv, NEW r \in Request, pc[r] = "enqueue",
           NEW st \in {"queued", "lost"}, SetDelivery(r, st)
    PROVE  LET o == message[r].order IN
           /\ Marks
           /\ entry[r] \in 1..Len(events[o]) /\ events'[o][entry[r]].delivery = st
           /\ \A i \in 1..Len(events[o]) : i # entry[r] => events'[o][i] = events[o][i]
           /\ \A u \in Order : u # o => events'[u] = events[u]
<1> DEFINE o  == message[r].order
           es == events[o]
           e  == [es[entry[r]] EXCEPT !.delivery = st]
           ds == [es EXCEPT ![entry[r]] = e]
<1>1. o \in Order /\ es \in Seq(Event)
    BY MessageFields DEF TypeOK
<1>2. entry[r] \in 1..Len(es)
    BY DEF RequestInv
<1>3. es[entry[r]] \in Event
    BY <1>1, <1>2, ElementOfSeq
<1>4. /\ e \in Event /\ e.previous = es[entry[r]].previous /\ e.new = es[entry[r]].new
      /\ e.delivery = st
    BY <1>3 DEF Event
<1> HIDE DEF e
<1>5. /\ ds \in Seq(Event)
      /\ Len(ds) = Len(es)
      /\ \A i \in 1..Len(es) : ds[i] = IF i = entry[r] THEN e ELSE es[i]
    BY <1>1, <1>2, <1>4, ExceptSeq
<1>6. events' = [events EXCEPT ![o] = ds]
    BY DEF SetDelivery, e
<1> HIDE DEF ds
<1>7. Marks
    BY <1>1, <1>4, <1>5, <1>6 DEF Marks, TypeOK
<1>8. events'[o] = ds /\ \A u \in Order : u # o => events'[u] = events[u]
    BY <1>1, <1>6 DEF TypeOK
<1>. QED
    BY <1>2, <1>4, <1>5, <1>7, <1>8

\* A crash changes only the deliveries of the events, and none that is enqueued.
LEMMA CrashMarks ==
    ASSUME TypeOK, Crash
    PROVE  /\ Marks
           /\ \A o \in Order : \A i \in 1..Len(events[o]) :
                 events[o][i].delivery = "queued" => events'[o][i].delivery = "queued"
<1> SUFFICES ASSUME NEW o \in Order
             PROVE  /\ events'[o] \in Seq(Event)
                    /\ Len(events'[o]) = Len(events[o])
                    /\ \A i \in 1..Len(events[o]) :
                         /\ events'[o][i].previous = events[o][i].previous
                         /\ events'[o][i].new = events[o][i].new
                         /\ events[o][i].delivery = "queued" =>
                               events'[o][i].delivery = "queued"
    BY DEF Crash, Marks
<1> DEFINE es == events[o]
           f(i) == IF es[i].delivery = "owed" THEN [es[i] EXCEPT !.delivery = "lost"] ELSE es[i]
<1>1. es \in Seq(Event) /\ Len(es) \in Nat /\ DOMAIN es = 1..Len(es)
    BY LenProperties DEF TypeOK
<1>2. ASSUME NEW i \in 1..Len(es)
      PROVE  /\ f(i) \in Event /\ f(i).previous = es[i].previous /\ f(i).new = es[i].new
             /\ es[i].delivery = "queued" => f(i).delivery = "queued"
    <2> DEFINE e == es[i]
    <2>1. e \in Event
        BY <1>1, ElementOfSeq
    <2> HIDE DEF e
    <2>2. [e EXCEPT !.delivery = "lost"] \in Event
        BY <2>1 DEF Event
    <2>3. f(i) = IF e.delivery = "owed" THEN [e EXCEPT !.delivery = "lost"] ELSE e
        BY DEF e
    <2>. QED
        BY <2>1, <2>2, <2>3 DEF e, Event
<1>3. events'[o] = [i \in 1..Len(es) |-> f(i)]
    BY <1>1 DEF Crash
<1> HIDE DEF f
<1>4. events'[o] \in [1..Len(es) -> Event]
    BY <1>2, <1>3
<1>5. events'[o] \in Seq(Event) /\ Len(events'[o]) = Len(es)
    BY <1>1, <1>4, FunctionIsSeq
<1>. QED
    BY <1>2, <1>3, <1>5

\* The effect of a COMMIT.
LEMMA WriteEffect ==
    ASSUME TypeOK, RequestInv, NEW r \in Request, pc[r] = "update",
           NEW st \in {"owed", "lost"}, Write(r, st)
    PROVE  LET o   == message[r].order
               row == Updated(trx[o], message[r])
           IN  /\ o \in Order /\ trx[o] \in Row /\ row \in Row
               /\ trx' = [trx EXCEPT ![o] = row]
               /\ events' \in [Order -> Seq(Event)]
               /\ \A u \in Order : u # o => events'[u] = events[u]
               /\ Len(events'[o]) = Len(events[o]) + 1
               /\ \A i \in 1..Len(events[o]) : events'[o][i] = events[o][i]
               /\ events'[o][Len(events[o]) + 1].previous = trx[o].status
               /\ events'[o][Len(events[o]) + 1].new = row.status
               /\ events'[o][Len(events[o]) + 1].delivery =
                     IF o \in HasCallback THEN st ELSE "none"
<1> DEFINE o   == message[r].order
           row == Updated(trx[o], message[r])
           e   == [previous |-> trx[o].status, new |-> row.status,
                   delivery |-> IF o \in HasCallback THEN st ELSE "none"]
<1>1. o \in Order /\ message[r] \in Notification
    BY MessageFields
<1>2. trx[o] \in Row /\ read[r] = trx[o]
    BY <1>1 DEF RequestInv, TypeOK
<1>3. row \in Row
    BY <1>1, <1>2, UpdatedRow
<1>4. e \in Event
    BY <1>2, <1>3 DEF Event, Row
<1>5. trx' = [trx EXCEPT ![o] = row] /\ events' = [events EXCEPT ![o] = Append(events[o], e)]
    BY <1>2 DEF Write
<1>6. /\ e.previous = trx[o].status /\ e.new = row.status
      /\ e.delivery = IF o \in HasCallback THEN st ELSE "none"
    OBVIOUS
<1> HIDE DEF row, e
<1>7. events[o] \in Seq(Event)
    BY <1>1 DEF TypeOK
<1>8. /\ Append(events[o], e) \in Seq(Event)
      /\ Len(Append(events[o], e)) = Len(events[o]) + 1
      /\ Append(events[o], e)[Len(events[o]) + 1] = e
      /\ \A i \in 1..Len(events[o]) : Append(events[o], e)[i] = events[o][i]
    BY <1>4, <1>7, AppendTypes
<1>9. events'[o] = Append(events[o], e) /\ \A u \in Order : u # o => events'[u] = events[u]
    BY <1>1, <1>5 DEF TypeOK
<1>10. events' \in [Order -> Seq(Event)]
    BY <1>1, <1>5, <1>8 DEF TypeOK
<1>. QED
    BY <1>1, <1>2, <1>3, <1>5, <1>6, <1>8, <1>9, <1>10 DEF row

(***************************************************************************)
(* Every step keeps the invariant.                                         *)
(***************************************************************************)
LEMMA MoveTypes ==
    ASSUME TypeOK, NEW o \in Order, NEW p \in Payment, Move(o, p)
    PROVE  /\ payment' \in [Order -> Payment \union {NoRow}]
           /\ moves' \in [Order -> 0..MaxMoves]
           /\ sent' \subseteq Notification /\ sent \subseteq sent'
           /\ payment'[o] = p /\ \A u \in Order : u # o => payment'[u] = payment[u]
<1>1. moves[o] + 1 \in 1..MaxMoves
    BY WebhookBoundAssumption DEF TypeOK, Move
<1>2. [order |-> o, payment |-> p, time |-> moves[o] + 1] \in Notification
    BY <1>1 DEF Notification
<1>. QED
    BY <1>1, <1>2 DEF TypeOK, Move

\* Types after a handler has ended.
LEMMA FinishTypes ==
    ASSUME TypeOK, NEW r \in Request, Finish(r)
    PROVE  /\ lock' \in [Order -> Request \union {NoRow}]
           /\ pc' \in [Request -> {"idle", "begin", "update", "enqueue"}]
           /\ message' \in [Request -> Notification \union {NoRow}]
           /\ read' \in [Request -> Row \union {NoRow}]
           /\ entry' \in [Request -> Nat]
BY DEF TypeOK, Finish

\* Types after a transaction has written.
LEMMA WriteTypes ==
    ASSUME TypeOK, RequestInv, NEW r \in Request, pc[r] = "update",
           NEW st \in {"owed", "lost"}, Write(r, st)
    PROVE  /\ trx' \in [Order -> Row \union {NoRow}]
           /\ events' \in [Order -> Seq(Event)]
BY WriteEffect DEF TypeOK

\* Every step keeps the types.
LEMMA TypeStep == TypeOK /\ RequestInv /\ [Next]_vars => TypeOK'
<1> SUFFICES ASSUME TypeOK, RequestInv, [Next]_vars PROVE TypeOK'
    OBVIOUS
<1> USE WebhookBoundAssumption DEF TypeOK, midtransVars, rowVars, requestVars
<1>1. ASSUME NEW o \in Order, AcceptCharge(o)
      PROVE  TypeOK'
    <2>1. PICK p \in Initial : Move(o, p) /\ response' = [response EXCEPT ![o] = p]
        BY <1>1 DEF AcceptCharge
    <2>2. p \in Payment
        BY PaymentAssumption
    <2>. QED
        BY <1>1, <2>1, <2>2, MoveTypes DEF AcceptCharge
<1>2. ASSUME NEW o \in Order, MovePayment(o)
      PROVE  TypeOK'
    <2>1. PICK p \in Moves[payment[o]] : Move(o, p)
        BY <1>2 DEF MovePayment
    <2>2. p \in Payment
        BY <1>2, PaymentAssumption DEF MovePayment
    <2>. QED
        BY <1>2, <2>1, <2>2, MoveTypes DEF MovePayment
<1>3. ASSUME NEW o \in Order, PersistCharge(o)
      PROVE  TypeOK'
    <2>1. [status |-> MapMidtransStatus(response[o]), at |-> [u \in Stamped |-> 0]] \in Row
        BY <1>3, PaymentStatus DEF PersistCharge, Row, Known
    <2>. QED
        BY <1>3, <2>1 DEF PersistCharge
<1>4. ASSUME NEW o \in Order, LoseCharge(o)
      PROVE  TypeOK'
    BY <1>4 DEF LoseCharge
<1>5. ASSUME NEW r \in Request, NEW n \in sent, Receive(r, n)
      PROVE  TypeOK'
    BY <1>5 DEF Receive
<1>6. ASSUME NEW r \in Request, NotFound(r)
      PROVE  TypeOK'
    <2>1. message[r] \in sent
        BY <1>6, MessageFields DEF NotFound
    <2>. QED
        BY <1>6, <2>1, FinishTypes DEF NotFound, Acknowledge
<1>7. ASSUME NEW r \in Request, GetTransactionState(r)
      PROVE  TypeOK'
    <2>1. message[r].order \in Order
        BY <1>7, MessageFields DEF GetTransactionState
    <2>. QED
        BY <1>7, <2>1 DEF GetTransactionState
<1>8. ASSUME NEW r \in Request, Commit(r)
      PROVE  TypeOK'
    <2>1. message[r] \in sent /\ message[r].order \in Order
        BY <1>8, MessageFields DEF Commit
    <2>2. trx' \in [Order -> Row \union {NoRow}] /\ events' \in [Order -> Seq(Event)]
        BY <1>8, WriteTypes DEF Commit
    <2>3. Len(events[message[r].order]) + 1 \in Nat
        BY <2>1, LenProperties
    <2>4. /\ acked' \subseteq sent /\ acked \subseteq acked'
          /\ lock' \in [Order -> Request \union {NoRow}]
          /\ pc' \in [Request -> {"idle", "begin", "update", "enqueue"}]
          /\ message' \in [Request -> Notification \union {NoRow}]
          /\ read' \in [Request -> Row \union {NoRow}]
          /\ entry' \in [Request -> Nat]
        <3>1. CASE message[r].order \in HasCallback
            <4> DEFINE k == Len(events[message[r].order]) + 1
            <4>1. k \in Nat
                BY <2>3
            <4>2. /\ pc' = [pc EXCEPT ![r] = "enqueue"] /\ entry' = [entry EXCEPT ![r] = k]
                  /\ lock' = [lock EXCEPT ![message[r].order] = NoRow]
                  /\ read' = [read EXCEPT ![r] = NoRow] /\ acked' = acked /\ message' = message
                BY <1>8, <3>1 DEF Commit
            <4> HIDE DEF k
            <4>. QED
                BY <2>1, <4>1, <4>2
        <3>2. CASE message[r].order \notin HasCallback
            BY <1>8, <2>1, <3>2, FinishTypes DEF Commit, Acknowledge
        <3>. QED
            BY <3>1, <3>2
    <2>. QED
        BY <1>8, <2>2, <2>4 DEF Commit
<1>9. ASSUME NEW r \in Request, Enqueue(r)
      PROVE  TypeOK'
    <2>1. message[r] \in sent
        BY <1>9, MessageFields DEF Enqueue
    <2>2. Marks
        BY <1>9, SetDeliveryMarks DEF Enqueue
    <2>. QED
        BY <1>9, <2>1, <2>2, FinishTypes DEF Enqueue, Acknowledge, Marks
<1>10. ASSUME NEW r \in Request, RollBack(r)
       PROVE  TypeOK'
    BY <1>10, FinishTypes DEF RollBack, Fault
<1>11. ASSUME NEW r \in Request, CommitAnswerLost(r)
       PROVE  TypeOK'
    BY <1>11, FinishTypes, WriteTypes DEF CommitAnswerLost, Fault
<1>12. ASSUME NEW r \in Request, EnqueueFails(r)
       PROVE  TypeOK'
    <2>1. Marks
        BY <1>12, SetDeliveryMarks DEF EnqueueFails
    <2>. QED
        BY <1>12, <2>1, FinishTypes DEF EnqueueFails, Fault, Marks
<1>13. CASE Crash
    <2>1. Marks
        BY <1>13, CrashMarks
    <2>2. /\ response' = [o \in Order |-> NoRow] /\ lock' = [o \in Order |-> NoRow]
          /\ pc' = [u \in Request |-> "idle"] /\ message' = [u \in Request |-> NoRow]
          /\ read' = [u \in Request |-> NoRow] /\ entry' = [u \in Request |-> 0]
          /\ faults' \in 0..MaxFaults
          /\ UNCHANGED <<payment, moves, sent, trx, acked, dropped, duplicates>>
        BY <1>13 DEF Crash, Fault
    <2>. QED
        BY <2>1, <2>2 DEF Marks
<1>14. CASE UNCHANGED vars
    BY <1>14 DEF vars
<1>. QED
    BY <1>1, <1>2, <1>3, <1>4, <1>5, <1>6, <1>7, <1>8, <1>9, <1>10, <1>11, <1>12, <1>13,
       <1>14 DEF Next, Handle

\* Every step keeps ChargeInv.
LEMMA ChargeStep == TypeOK /\ ChargeInv /\ RequestInv /\ [Next]_vars => ChargeInv'
<1> SUFFICES ASSUME TypeOK, ChargeInv, RequestInv, [Next]_vars PROVE ChargeInv'
    OBVIOUS
<1>0. NoRow \notin Payment /\ NoRow \notin Row
    BY NoRowAssumption
<1> USE DEF ChargeInv, midtransVars, rowVars
<1>1. ASSUME NEW o \in Order, AcceptCharge(o)
      PROVE  ChargeInv'
    <2>1. PICK p \in Initial : Move(o, p) /\ response' = [response EXCEPT ![o] = p]
        BY <1>1 DEF AcceptCharge
    <2>2. p \in Payment
        BY PaymentAssumption
    <2>3. payment[o] = NoRow /\ UNCHANGED trx
        BY <1>1 DEF AcceptCharge
    <2>. QED
        BY <1>0, <2>1, <2>2, <2>3, MoveTypes DEF TypeOK
<1>2. ASSUME NEW o \in Order, MovePayment(o)
      PROVE  ChargeInv'
    <2>1. PICK p \in Moves[payment[o]] : Move(o, p)
        BY <1>2 DEF MovePayment
    <2>2. p \in Payment
        BY <1>2, PaymentAssumption DEF MovePayment, TypeOK
    <2>. QED
        BY <1>0, <1>2, <2>1, <2>2, MoveTypes DEF MovePayment
<1>3. ASSUME NEW o \in Order, PersistCharge(o)
      PROVE  ChargeInv'
    BY <1>3 DEF PersistCharge, TypeOK
<1>4. ASSUME NEW o \in Order, LoseCharge(o)
      PROVE  ChargeInv'
    BY <1>4 DEF LoseCharge, TypeOK
<1>5. ASSUME NEW r \in Request, NEW st \in {"owed", "lost"}, pc[r] = "update", Write(r, st),
             UNCHANGED <<payment, response>>
      PROVE  ChargeInv'
    <2> DEFINE o == message[r].order
    <2>1. trx[o] # NoRow /\ \A u \in Order : u # o => trx'[u] = trx[u]
        BY <1>5, WriteEffect DEF RequestInv, TypeOK
    <2>. QED
        BY <1>5, <2>1
<1>6. ASSUME UNCHANGED <<payment, response, trx>>
      PROVE  ChargeInv'
    BY <1>6
<1>7. ASSUME NEW r \in Request, Commit(r) \/ CommitAnswerLost(r)
      PROVE  ChargeInv'
    BY <1>5, <1>7 DEF Commit, CommitAnswerLost
<1>8. CASE Crash
    BY <1>8 DEF Crash
<1>. QED
    BY <1>1, <1>2, <1>3, <1>4, <1>6, <1>7, <1>8
    DEF Next, Handle, Receive, NotFound, GetTransactionState, Enqueue, RollBack, EnqueueFails,
        vars

\* What RequestInv says of one request.
Fits(r) ==
    LET o == message[r].order IN
    /\ pc[r] # "idle" => message[r] \in sent
    /\ pc[r] = "update" => lock[o] = r /\ trx[o] # NoRow /\ read[r] = trx[o]
    /\ pc[r] = "enqueue" => entry[r] \in 1..Len(events[o])

\* RequestInv, handler by handler.
LEMMA FitsAll == RequestInv <=> \A r \in Request : Fits(r)
BY DEF RequestInv, Fits

\* A request that ends releases its own lock only.
LEMMA FinishFits ==
    ASSUME TypeOK, RequestInv, NEW r \in Request, Finish(r), Marks, UNCHANGED <<trx, sent>>
    PROVE  RequestInv'
<1> SUFFICES ASSUME NEW u \in Request PROVE Fits(u)'
    BY DEF Fits, RequestInv
<1>1. CASE u = r
    BY <1>1 DEF Finish, Fits, TypeOK
<1>2. CASE u # r
    <2>1. pc'[u] = pc[u] /\ message'[u] = message[u] /\ read'[u] = read[u] /\ entry'[u] = entry[u]
        BY <1>2 DEF Finish, TypeOK
    <2>2. Fits(u)
        BY FitsAll
    <2>3. CASE pc[u] = "idle"
        BY <2>1, <2>3 DEF Fits
    <2>4. CASE pc[u] # "idle"
        <3> DEFINE o == message[u].order
        <3>1. o \in Order
            BY <2>4, MessageFields
        <3>2. lock[o] = u => lock'[o] = u
            BY <1>2, <3>1 DEF Finish
        <3>3. Len(events'[o]) = Len(events[o])
            BY <3>1 DEF Marks
        <3>. QED
            BY <2>1, <2>2, <3>2, <3>3 DEF Fits
    <2>. QED
        BY <2>3, <2>4
<1>. QED
    BY <1>1, <1>2

\* A COMMIT changes a row that no other handler has read.
LEMMA WriteFits ==
    ASSUME TypeOK, RequestInv, NEW r \in Request, pc[r] = "update",
           NEW st \in {"owed", "lost"}, Write(r, st), UNCHANGED sent,
           NEW u \in Request, u # r,
           pc'[u] = pc[u], message'[u] = message[u], read'[u] = read[u], entry'[u] = entry[u],
           \A o \in Order : lock[o] = u => lock'[o] = u
    PROVE  Fits(u)'
<1> DEFINE o == message[r].order
           v == message[u].order
<1>1. Fits(u) /\ Fits(r)
    BY FitsAll
<1>2. CASE pc[u] = "idle"
    BY <1>2 DEF Fits
<1>3. CASE pc[u] # "idle"
    <2>1. v \in Order /\ o \in Order
        BY <1>3, MessageFields
    <2>2. trx' = [trx EXCEPT ![o] = Updated(trx[o], message[r])]
        BY WriteEffect
    <2>3. ASSUME pc[u] = "update"
          PROVE  v # o /\ trx'[v] = trx[v] /\ lock'[v] = u
        <3>1. lock[v] = u /\ lock[o] = r
            BY <1>1, <2>3 DEF Fits
        <3>. QED
            BY <2>1, <2>2, <3>1 DEF TypeOK
    <2>4. 1..Len(events[v]) \subseteq 1..Len(events'[v])
        <3>1. Len(events'[v]) = Len(events[v]) \/ Len(events'[v]) = Len(events[v]) + 1
            BY <2>1, WriteEffect
        <3>2. Len(events[v]) \in Nat
            BY <2>1, LenProperties DEF TypeOK
        <3>. QED
            BY <3>1, <3>2
    <2>. QED
        BY <1>1, <1>3, <2>3, <2>4 DEF Fits
<1>. QED
    BY <1>2, <1>3

\* Every step keeps RequestInv.
LEMMA RequestStep == TypeOK /\ ChargeInv /\ RequestInv /\ [Next]_vars => RequestInv'
<1> SUFFICES ASSUME TypeOK, ChargeInv, RequestInv, [Next]_vars PROVE RequestInv'
    OBVIOUS
<1>0. NoRow \notin Request
    BY NoRowAssumption
<1> USE DEF midtransVars, rowVars, requestVars
<1>1. ASSUME NEW o \in Order, AcceptCharge(o) \/ MovePayment(o)
      PROVE  RequestInv'
    <2>1. sent \subseteq sent'
        BY <1>1 DEF AcceptCharge, MovePayment, Move
    <2>2. UNCHANGED <<pc, message, lock, trx, read, entry, events>>
        BY <1>1 DEF AcceptCharge, MovePayment
    <2>. QED
        BY <2>1, <2>2 DEF RequestInv
<1>2. ASSUME NEW o \in Order, PersistCharge(o)
      PROVE  RequestInv'
    <2>1. trx[o] = NoRow /\ \A u \in Order : u # o => trx'[u] = trx[u]
        BY <1>2 DEF PersistCharge, ChargeInv, TypeOK
    <2>2. \A r \in Request : pc[r] = "update" => message[r].order \in Order
        BY MessageFields
    <2>3. UNCHANGED <<pc, message, lock, read, entry, events, sent>>
        BY <1>2 DEF PersistCharge
    <2>. QED
        BY <2>1, <2>2, <2>3 DEF RequestInv
<1>3. ASSUME NEW o \in Order, LoseCharge(o)
      PROVE  RequestInv'
    BY <1>3 DEF LoseCharge, RequestInv
<1>4. ASSUME NEW r \in Request, NEW n \in sent, Receive(r, n)
      PROVE  RequestInv'
    BY <1>4 DEF Receive, RequestInv, TypeOK
<1>5. ASSUME NEW r \in Request, NotFound(r) \/ RollBack(r)
      PROVE  RequestInv'
    <2>1. Finish(r) /\ UNCHANGED <<trx, sent, events>>
        BY <1>5 DEF NotFound, RollBack
    <2>. QED
        BY <2>1, FinishFits, NoChangeMarks
<1>6. ASSUME NEW r \in Request, Enqueue(r) \/ EnqueueFails(r)
      PROVE  RequestInv'
    <2>1. Finish(r) /\ UNCHANGED <<trx, sent>>
        BY <1>6 DEF Enqueue, EnqueueFails
    <2>2. Marks
        BY <1>6, SetDeliveryMarks DEF Enqueue, EnqueueFails
    <2>. QED
        BY <2>1, <2>2, FinishFits
<1>7. ASSUME NEW r \in Request, GetTransactionState(r)
      PROVE  RequestInv'
    <2> DEFINE o == message[r].order
    <2>1. o \in Order
        BY <1>7, MessageFields DEF GetTransactionState
    <2>2. \A u \in Request : pc[u] = "update" => message[u].order # o
        BY <1>0, <1>7 DEF GetTransactionState, RequestInv
    <2>3. /\ lock' = [lock EXCEPT ![o] = r] /\ read' = [read EXCEPT ![r] = trx[o]]
          /\ pc' = [pc EXCEPT ![r] = "update"] /\ pc[r] = "begin" /\ trx[o] # NoRow
          /\ UNCHANGED <<message, entry, events, sent, trx>>
        BY <1>7 DEF GetTransactionState
    <2>4. Fits(r)'
        BY <2>1, <2>3 DEF Fits, RequestInv, TypeOK
    <2>5. \A u \in Request : u # r => Fits(u)'
        BY <2>1, <2>2, <2>3 DEF Fits, RequestInv, TypeOK
    <2>6. \A u \in Request : Fits(u)'
        BY <2>4, <2>5
    <2>. QED
        BY <2>6 DEF Fits, RequestInv
<1>8. ASSUME NEW r \in Request, Commit(r) \/ CommitAnswerLost(r)
      PROVE  RequestInv'
    <2> DEFINE o == message[r].order
    <2>1. pc[r] = "update" /\ UNCHANGED sent /\ \E st \in {"owed", "lost"} : Write(r, st)
        BY <1>8 DEF Commit, CommitAnswerLost
    <2>2. o \in Order /\ message[r] \in sent /\ lock[o] = r
        BY <2>1, MessageFields DEF RequestInv
    <2>3. ASSUME Finish(r)
          PROVE  Fits(r)' /\ \A u \in Request : u # r =>
                     /\ pc'[u] = pc[u] /\ message'[u] = message[u]
                     /\ read'[u] = read[u] /\ entry'[u] = entry[u]
                     /\ \A v \in Order : lock[v] = u => lock'[v] = u
        BY <2>3 DEF Finish, Fits, TypeOK
    <2>4. ASSUME o \in HasCallback, Commit(r)
          PROVE  Fits(r)' /\ \A u \in Request : u # r =>
                     /\ pc'[u] = pc[u] /\ message'[u] = message[u]
                     /\ read'[u] = read[u] /\ entry'[u] = entry[u]
                     /\ \A v \in Order : lock[v] = u => lock'[v] = u
        <3>1. /\ pc' = [pc EXCEPT ![r] = "enqueue"]
              /\ entry' = [entry EXCEPT ![r] = Len(events[o]) + 1]
              /\ lock' = [lock EXCEPT ![o] = NoRow]
              /\ read' = [read EXCEPT ![r] = NoRow] /\ message' = message
            BY <2>4 DEF Commit
        <3>2. Len(events'[o]) = Len(events[o]) + 1 /\ Len(events[o]) \in Nat
            BY <2>1, <2>2, WriteEffect, LenProperties DEF TypeOK
        <3>3. entry'[r] = Len(events[o]) + 1 /\ pc'[r] = "enqueue" /\ message'[r] = message[r]
            BY <3>1 DEF TypeOK
        <3>4. entry'[r] \in 1..Len(events'[o])
            BY <3>2, <3>3
        <3>5. Fits(r)'
            BY <2>1, <2>2, <3>3, <3>4 DEF Fits
        <3>. QED
            BY <2>2, <3>1, <3>5 DEF TypeOK
    <2>5. Finish(r) \/ (o \in HasCallback /\ Commit(r))
        BY <1>8 DEF Commit, CommitAnswerLost
    <2>6. Fits(r)' /\ \A u \in Request : u # r => Fits(u)'
        BY <2>1, <2>3, <2>4, <2>5, WriteFits
    <2>7. \A u \in Request : Fits(u)'
        BY <2>6
    <2>. QED
        BY <2>7 DEF Fits, RequestInv
<1>9. CASE Crash
    BY <1>9 DEF Crash, RequestInv
<1>10. CASE UNCHANGED vars
    BY <1>10 DEF vars, RequestInv
<1>. QED
    BY <1>1, <1>2, <1>3, <1>4, <1>5, <1>6, <1>7, <1>8, <1>9, <1>10 DEF Next, Handle

\* The events of an order have a length.
LEMMA EventsLen ==
    ASSUME TypeOK, NEW o \in Order
    PROVE  Len(events[o]) \in Nat
BY LenProperties DEF TypeOK

\* The statuses in the events of o form a chain that ends at the row.
Chain(o) ==
    LET e == events[o] IN
    /\ \A i \in 1..Len(e) - 1 : e[i].new = e[i + 1].previous
    /\ Len(e) > 0 => trx[o] # NoRow /\ e[Len(e)].new = trx[o].status

\* A step that keeps the row and the statuses of the events keeps the chain.
LEMMA MarksChain ==
    ASSUME TypeOK, EventTrail, Marks, NEW o \in Order,
           UNCHANGED trx \/ (trx[o] = NoRow) \/ trx'[o] = trx[o]
    PROVE  Chain(o)'
<1>1. Chain(o) /\ Len(events[o]) \in Nat
    BY EventsLen DEF EventTrail, Chain
<1>2. /\ Len(events'[o]) = Len(events[o])
      /\ \A i \in 1..Len(events[o]) : /\ events'[o][i].previous = events[o][i].previous
                                      /\ events'[o][i].new = events[o][i].new
    BY DEF Marks
<1>3. \A i \in 1..Len(events[o]) - 1 : i \in 1..Len(events[o]) /\ i + 1 \in 1..Len(events[o])
    BY <1>1
<1>4. \A i \in 1..Len(events[o]) - 1 : events'[o][i].new = events'[o][i + 1].previous
    BY <1>1, <1>2, <1>3 DEF Chain
<1>5. Len(events[o]) > 0 => Len(events[o]) \in 1..Len(events[o])
    BY <1>1
<1>6. Len(events[o]) > 0 =>
        trx'[o] # NoRow /\ events'[o][Len(events[o])].new = trx'[o].status
    BY <1>1, <1>2, <1>5 DEF Chain
<1>. QED
    BY <1>2, <1>4, <1>6 DEF Chain

\* The transaction appends the status it read and the one it wrote: the chain goes on.
LEMMA WriteChain ==
    ASSUME TypeOK, RequestInv, EventTrail, NEW r \in Request, pc[r] = "update",
           NEW st \in {"owed", "lost"}, Write(r, st), NEW o \in Order
    PROVE  Chain(o)'
<1>1. Chain(o) /\ Len(events[o]) \in Nat
    BY EventsLen DEF EventTrail, Chain
<1>2. CASE o # message[r].order
    BY <1>1, <1>2, WriteEffect DEF Chain, TypeOK
<1>3. CASE o = message[r].order
    <2> DEFINE n == Len(events[o])
               row == Updated(trx[o], message[r])
    <2>1. /\ Len(events'[o]) = n + 1
          /\ \A i \in 1..n : events'[o][i] = events[o][i]
          /\ events'[o][n + 1].previous = trx[o].status
          /\ events'[o][n + 1].new = row.status
          /\ trx' = [trx EXCEPT ![o] = row] /\ row \in Row
        BY <1>3, WriteEffect
    <2> HIDE DEF row
    <2>2. trx'[o] # NoRow /\ events'[o][n + 1].new = trx'[o].status
        BY <2>1, NoRowAssumption DEF TypeOK
    <2>3. ASSUME NEW i \in 1..n
          PROVE  events'[o][i].new = events'[o][i + 1].previous
        <3>1. CASE i = n
            BY <1>1, <2>1, <3>1 DEF Chain
        <3>2. CASE i # n
            <4>1. i \in 1..n - 1 /\ i + 1 \in 1..n
                BY <1>1, <3>2
            <4>. QED
                BY <1>1, <2>1, <4>1 DEF Chain
        <3>. QED
            BY <3>1, <3>2
    <2>4. 1..Len(events'[o]) - 1 = 1..n
        BY <1>1, <2>1
    <2>. QED
        BY <2>1, <2>2, <2>3, <2>4 DEF Chain
<1>. QED
    BY <1>2, <1>3

\* Every step keeps EventTrail.
LEMMA TrailStep == Inv /\ [Next]_vars => EventTrail'
<1> SUFFICES ASSUME Inv, [Next]_vars, NEW o \in Order PROVE Chain(o)'
    BY DEF Chain, EventTrail
<1> USE DEF Inv, midtransVars, rowVars
<1>1. ASSUME UNCHANGED <<trx, events>>
      PROVE  Chain(o)'
    BY <1>1, NoChangeMarks, MarksChain
<1>2. ASSUME NEW u \in Order, PersistCharge(u)
      PROVE  Chain(o)'
    <2>1. trx[u] = NoRow /\ (o # u => trx'[o] = trx[o]) /\ UNCHANGED events
        BY <1>2 DEF PersistCharge, ChargeInv, TypeOK
    <2>. QED
        BY <2>1, NoChangeMarks, MarksChain
<1>3. ASSUME NEW r \in Request, Enqueue(r) \/ EnqueueFails(r)
      PROVE  Chain(o)'
    <2>1. Marks /\ UNCHANGED trx
        BY <1>3, SetDeliveryMarks DEF Enqueue, EnqueueFails
    <2>. QED
        BY <2>1, MarksChain
<1>4. ASSUME NEW r \in Request, Commit(r) \/ CommitAnswerLost(r)
      PROVE  Chain(o)'
    BY <1>4, WriteChain DEF Commit, CommitAnswerLost
<1>5. CASE Crash
    <2>1. Marks /\ UNCHANGED trx
        BY <1>5, CrashMarks DEF Crash
    <2>. QED
        BY <2>1, MarksChain
<1>. QED
    BY <1>1, <1>2, <1>3, <1>4, <1>5
    DEF Next, Handle, AcceptCharge, MovePayment, LoseCharge, Receive, NotFound,
        GetTransactionState, RollBack, vars

\* Inv is an invariant: a row appears once, a handler between its SELECT and its COMMIT
\* holds the lock and knows the current row, and the events follow the status.
THEOREM Invariance == Spec => []Inv
<1>1. Init => Inv
    BY InvInit
<1>2. Inv /\ [Next]_vars => Inv'
    BY TypeStep, ChargeStep, RequestStep, TrailStep DEF Inv
<1>. QED
    BY <1>1, <1>2, PTL DEF Spec

\* Type correctness of the notifications, the rows and the handlers.
THEOREM TypeCorrect == Spec => []TypeOK
<1>1. Inv => TypeOK
    BY DEF Inv
<1>. QED
    BY <1>1, Invariance, PTL

\* The transaction_events of every order are a gapless record of its status, for any
\* number of handlers, failures and repeated notifications.
THEOREM EventTrailHolds == Spec => []EventTrail
<1>1. Inv => EventTrail
    BY DEF Inv
<1>. QED
    BY <1>1, Invariance, PTL

(***************************************************************************)
(* The rows implement TransactionLifecycle.                                *)
(***************************************************************************)
LEMMA UpdatedTimes ==
    ASSUME NEW row \in Row, NEW s, NEW n \in Notification
    PROVE  BuildTimestampUpdate(row, s, n) = Lifecycle!FirstTime(row.at, s, TimeOf(n))
<1>1. row.at \in [Stamped -> Nat]
    BY DEF Row
<1>. QED
    BY <1>1 DEF BuildTimestampUpdate, Lifecycle!FirstTime, Stamped, Lifecycle!Stamped

\* The transaction is an update of TransactionLifecycle, or leaves the row alone.
LEMMA WriteRefines ==
    ASSUME TypeOK, RequestInv, NEW r \in Request, pc[r] = "update",
           NEW st \in {"owed", "lost"}, Write(r, st)
    PROVE  Lifecycle!Update(message[r].order) \/ UNCHANGED trx
<1> DEFINE o == message[r].order
           n == message[r]
           s == MapMidtransStatus(n.payment)
           row == Updated(trx[o], n)
<1>1. /\ o \in Order /\ trx[o] \in Row /\ n \in Notification /\ trx[o] # NoRow
      /\ trx' = [trx EXCEPT ![o] = row]
    BY WriteEffect, MessageFields DEF RequestInv
<1>2. CASE ShouldApplyStatusUpdate(trx[o].status, s)
    <2>0. n.payment \in Payment /\ n.time \in 1..MaxMoves
        BY <1>1 DEF Notification
    <2>1. s \in Lifecycle!Status /\ TimeOf(n) \in 0..MaxMoves
        <3>1. TimeOf(n) \in 0..MaxMoves
            BY <2>0, WebhookBoundAssumption DEF TimeOf
        <3>. QED
            BY <2>0, <3>1, PaymentStatus DEF Known, Status, Lifecycle!Status
    <2>2. row = [status |-> s, at |-> Lifecycle!FirstTime(trx[o].at, s, TimeOf(n))]
        BY <1>1, <1>2, UpdatedTimes DEF Updated
    <2>3. Lifecycle!ShouldApplyStatusUpdate(trx[o].status, s)
        BY <1>2 DEF ShouldApplyStatusUpdate, AfterPaid, AfterPending,
           Lifecycle!ShouldApplyStatusUpdate, Lifecycle!AfterPaid, Lifecycle!AfterPending
    <2> HIDE DEF row, s
    <2>. QED
        BY <1>1, <2>1, <2>2, <2>3 DEF Lifecycle!Update
<1>3. CASE ~ShouldApplyStatusUpdate(trx[o].status, s)
    <2>1. row = trx[o]
        BY <1>3 DEF Updated
    <2>. QED
        BY <1>1, <2>1 DEF TypeOK
<1>. QED
    BY <1>2, <1>3

\* Charges, notifications, retries and failures together implement the life of a row
\* of transactions.
THEOREM ImplementsLifecycleHolds == Spec => ImplementsLifecycle
<1>1. Init => Lifecycle!Init
    BY DEF Init, Lifecycle!Init
<1>2. Inv /\ [Next]_vars => [Lifecycle!Next]_trx
    <2> SUFFICES ASSUME Inv, [Next]_vars PROVE [Lifecycle!Next]_trx
        OBVIOUS
    <2> USE DEF Inv, rowVars
    <2>1. ASSUME NEW o \in Order, PersistCharge(o)
          PROVE  Lifecycle!Next
        <3>1. trx[o] = NoRow /\ response[o] \in Payment
            BY <2>1 DEF PersistCharge, ChargeInv, TypeOK
        <3>2. MapMidtransStatus(response[o]) \in Lifecycle!Status
            BY <3>1, PaymentStatus DEF Known, Status, Lifecycle!Status
        <3>3. trx' = [trx EXCEPT ![o] = [status |-> MapMidtransStatus(response[o]),
                                        at |-> Lifecycle!Unset]]
            BY <2>1 DEF PersistCharge, Lifecycle!Unset, Stamped, Lifecycle!Stamped
        <3>. QED
            BY <3>1, <3>2, <3>3 DEF Lifecycle!Next, Lifecycle!Persist
    <2>2. ASSUME NEW r \in Request, Commit(r) \/ CommitAnswerLost(r)
          PROVE  Lifecycle!Next \/ UNCHANGED trx
        <3>1. pc[r] = "update" /\ \E st \in {"owed", "lost"} : Write(r, st)
            BY <2>2 DEF Commit, CommitAnswerLost
        <3>2. message[r].order \in Order
            BY <3>1, MessageFields
        <3>. QED
            BY <3>1, <3>2, WriteRefines DEF Lifecycle!Next
    <2>. QED
        BY <2>1, <2>2
        DEF Next, Handle, AcceptCharge, MovePayment, LoseCharge, Receive, NotFound,
            GetTransactionState, Enqueue, RollBack, EnqueueFails, Crash, vars
<1>. QED
    BY <1>1, <1>2, Invariance, PTL DEF Spec, ImplementsLifecycle, Lifecycle!Spec

(***************************************************************************)
(* The row catches up with Midtrans.                                       *)
(***************************************************************************)
StatusOf(o) == MapMidtransStatus(payment[o])
Current(o)  == trx[o] # NoRow /\ trx[o].status = StatusOf(o)

\* Everything the service knows of a payment lies behind its status at Midtrans.
BehindInv ==
    /\ \A n \in sent : /\ payment[n.order] # NoRow
                       /\ n.time <= moves[n.order]
                       /\ Leq(MapMidtransStatus(n.payment), StatusOf(n.order))
    /\ \A o \in Order : response[o] # NoRow => Leq(MapMidtransStatus(response[o]), StatusOf(o))
    /\ \A o \in Order : trx[o] # NoRow => trx[o].status \in Known
                                          /\ Leq(trx[o].status, StatusOf(o))

\* A handler that has committed the latest notification has made the row current.
CaughtUpInv ==
    /\ CaughtUp
    /\ \A r \in Request :
         pc[r] = "enqueue" /\ message[r] = Latest(message[r].order) => Current(message[r].order)

\* Leq is transitive.
LEMMA LeqTransitive ==
    ASSUME NEW a \in Known, NEW b \in Known, NEW c \in Known, Leq(a, b), Leq(b, c)
    PROVE  Leq(a, c)
BY UpdatesAreAnOrder

\* A move of Midtrans leaves everything that was behind the payment behind it.
LEMMA MoveForward ==
    ASSUME ForwardMoves, TypeOK, NEW o \in Order, payment[o] # NoRow,
           NEW p \in Moves[payment[o]], NEW s \in Known, Leq(s, StatusOf(o))
    PROVE  Leq(s, MapMidtransStatus(p))
<1>1. payment[o] \in Payment /\ p \in Payment
    BY PaymentAssumption DEF TypeOK
<1>2. Leq(StatusOf(o), MapMidtransStatus(p))
    BY <1>1 DEF ForwardMoves, Leq, StatusOf
<1>. QED
    BY <1>1, <1>2, PaymentStatus, LeqTransitive DEF StatusOf

\* Midtrans moving on keeps BehindInv.
LEMMA BehindMove ==
    ASSUME Inv, BehindInv, NEW o \in Order, NEW p \in Payment, Move(o, p), UNCHANGED trx,
           response' = response \/ response' = [response EXCEPT ![o] = p],
           \A s \in Known : Leq(s, StatusOf(o)) /\ payment[o] # NoRow =>
                              Leq(s, MapMidtransStatus(p))
    PROVE  BehindInv'
<1> DEFINE m == [order |-> o, payment |-> p, time |-> moves[o] + 1]
<1> USE DEF Inv
<1>1. /\ payment' = [payment EXCEPT ![o] = p] /\ moves' = [moves EXCEPT ![o] = moves[o] + 1]
      /\ sent' = sent \union {m} /\ moves[o] \in Nat /\ p # NoRow
    BY NoRowAssumption DEF Move, TypeOK
<1>2. \A u \in Order : StatusOf(u)' = IF u = o THEN MapMidtransStatus(p) ELSE StatusOf(u)
    BY <1>1 DEF StatusOf, TypeOK
<1>3. ASSUME NEW n \in sent'
      PROVE  /\ payment'[n.order] # NoRow /\ n.time <= moves'[n.order]
             /\ Leq(MapMidtransStatus(n.payment), StatusOf(n.order)')
    <2>1. CASE n = m
        BY <1>1, <1>2, <2>1 DEF Leq, TypeOK
    <2>2. CASE n \in sent
        <3>1. n.order \in Order /\ n.payment \in Payment /\ n.time \in Nat
            BY <2>2, WebhookBoundAssumption DEF TypeOK, Notification
        <3>2. /\ payment[n.order] # NoRow /\ n.time <= moves[n.order]
              /\ Leq(MapMidtransStatus(n.payment), StatusOf(n.order))
            BY <2>2 DEF BehindInv
        <3>3. moves[n.order] \in Nat
            BY <3>1 DEF TypeOK
        <3>. QED
            BY <1>1, <1>2, <3>1, <3>2, <3>3, PaymentStatus DEF TypeOK
    <2>. QED
        BY <1>1, <2>1, <2>2
<1>4. ASSUME NEW u \in Order, response'[u] # NoRow
      PROVE  Leq(MapMidtransStatus(response'[u]), StatusOf(u)')
    <2>1. CASE u = o /\ response'[u] = p
        BY <1>2, <2>1 DEF Leq
    <2>2. CASE response'[u] = response[u]
        <3>1. response[u] \in Payment /\ payment[u] # NoRow
            BY <1>4, <2>2 DEF TypeOK, ChargeInv
        <3>2. Leq(MapMidtransStatus(response[u]), StatusOf(u))
            BY <1>4, <2>2 DEF BehindInv
        <3>. QED
            BY <1>2, <2>2, <3>1, <3>2, PaymentStatus
    <2>. QED
        BY <2>1, <2>2 DEF TypeOK
<1>5. ASSUME NEW u \in Order, trx[u] # NoRow
      PROVE  trx[u].status \in Known /\ Leq(trx[u].status, StatusOf(u)')
    BY <1>2, <1>5 DEF BehindInv, ChargeInv
<1>. QED
    BY <1>3, <1>4, <1>5 DEF BehindInv, StatusOf

\* A transaction keeps BehindInv.
LEMMA BehindWrite ==
    ASSUME Inv, BehindInv, NEW r \in Request, pc[r] = "update",
           NEW st \in {"owed", "lost"}, Write(r, st), UNCHANGED <<payment, moves, sent, response>>
    PROVE  BehindInv'
<1> DEFINE o == message[r].order
           row == Updated(trx[o], message[r])
<1>1. /\ o \in Order /\ trx[o] \in Row /\ trx' = [trx EXCEPT ![o] = row]
      /\ message[r] \in sent /\ message[r] \in Notification /\ message[r].payment \in Payment
      /\ trx[o] # NoRow
    BY WriteEffect, MessageFields DEF Inv, RequestInv
<1>2. row.status = trx[o].status \/ row.status = MapMidtransStatus(message[r].payment)
    BY <1>1, UpdatedRow
<1>3. row.status \in Known /\ Leq(row.status, StatusOf(o))
    BY <1>1, <1>2, PaymentStatus DEF BehindInv
<1> HIDE DEF row
<1>4. \A u \in Order : trx'[u] # NoRow =>
         trx'[u].status \in Known /\ Leq(trx'[u].status, StatusOf(u))
    BY <1>1, <1>3 DEF BehindInv, Inv, TypeOK
<1>. QED
    BY <1>4 DEF BehindInv, StatusOf

\* Every step keeps BehindInv, when Midtrans only moves forward.
LEMMA BehindStep == ForwardMoves /\ Inv /\ BehindInv /\ [Next]_vars => BehindInv'
<1> SUFFICES ASSUME ForwardMoves, Inv, BehindInv, [Next]_vars PROVE BehindInv'
    OBVIOUS
<1> USE DEF midtransVars, rowVars
<1>1. ASSUME NEW o \in Order, AcceptCharge(o)
      PROVE  BehindInv'
    <2>1. PICK p \in Initial : Move(o, p) /\ response' = [response EXCEPT ![o] = p]
        BY <1>1 DEF AcceptCharge
    <2>2. p \in Payment /\ payment[o] = NoRow /\ UNCHANGED trx
        BY <1>1, PaymentAssumption DEF AcceptCharge
    <2>. QED
        BY <2>1, <2>2, BehindMove
<1>2. ASSUME NEW o \in Order, MovePayment(o)
      PROVE  BehindInv'
    <2>1. PICK p \in Moves[payment[o]] : Move(o, p)
        BY <1>2 DEF MovePayment
    <2>2. /\ p \in Payment /\ payment[o] # NoRow
          /\ UNCHANGED <<trx, response>>
        BY <1>2, PaymentAssumption DEF MovePayment, Inv, TypeOK
    <2>3. \A s \in Known : Leq(s, StatusOf(o)) => Leq(s, MapMidtransStatus(p))
        BY <2>2, MoveForward DEF Inv
    <2>. QED
        BY <2>1, <2>2, <2>3, BehindMove
<1>3. ASSUME NEW o \in Order, PersistCharge(o)
      PROVE  BehindInv'
    <2>1. MapMidtransStatus(response[o]) \in Known /\ Leq(MapMidtransStatus(response[o]), StatusOf(o))
        BY <1>3, PaymentStatus DEF PersistCharge, BehindInv, Inv, TypeOK
    <2>2. /\ UNCHANGED <<payment, moves, sent>>
          /\ \A u \in Order : /\ response'[u] # NoRow => response'[u] = response[u]
                              /\ u # o => trx'[u] = trx[u]
          /\ trx'[o].status = MapMidtransStatus(response[o])
        BY <1>3 DEF PersistCharge, Inv, TypeOK
    <2>. QED
        BY <2>1, <2>2 DEF BehindInv, StatusOf
<1>4. ASSUME UNCHANGED <<payment, moves, sent, trx>>,
             \A u \in Order : response'[u] # NoRow => response'[u] = response[u]
      PROVE  BehindInv'
    BY <1>4 DEF BehindInv, StatusOf
<1>5. ASSUME NEW o \in Order, LoseCharge(o)
      PROVE  BehindInv'
    BY <1>4, <1>5 DEF LoseCharge, Inv, TypeOK
<1>6. ASSUME NEW r \in Request, Commit(r) \/ CommitAnswerLost(r)
      PROVE  BehindInv'
    BY <1>6, BehindWrite DEF Commit, CommitAnswerLost
<1>7. CASE Crash
    BY <1>4, <1>7 DEF Crash
<1>. QED
    BY <1>1, <1>2, <1>3, <1>4, <1>5, <1>6, <1>7
    DEF Next, Handle, Receive, NotFound, GetTransactionState, Enqueue, RollBack, EnqueueFails,
        vars

\* Midtrans moving on keeps CaughtUpInv: its latest notification is a new one.
LEMMA CaughtUpMove ==
    ASSUME Inv, BehindInv, CaughtUpInv, NEW o \in Order, NEW p \in Payment, Move(o, p),
           UNCHANGED <<trx, acked, dropped, pc, message>>
    PROVE  CaughtUpInv'
<1> USE DEF Inv
<1>1. /\ payment' = [payment EXCEPT ![o] = p] /\ moves' = [moves EXCEPT ![o] = moves[o] + 1]
      /\ moves[o] \in Nat
    BY DEF Move, TypeOK
<1>2. \A u \in Order : u # o => Latest(u)' = Latest(u) /\ (Current(u)' <=> Current(u))
                                /\ (payment'[u] = payment[u])
    BY <1>1 DEF Latest, Current, StatusOf, TypeOK
<1>3. Latest(o)' \notin sent
    <2>1. Latest(o)'.order = o /\ Latest(o)'.time = moves[o] + 1
        BY <1>1 DEF Latest, TypeOK
    <2>. QED
        BY <1>1, <2>1 DEF BehindInv
<1>4. CaughtUp'
    BY <1>2, <1>3 DEF CaughtUpInv, CaughtUp, TypeOK, Current, StatusOf
<1>5. ASSUME NEW r \in Request, pc[r] = "enqueue", message[r] = Latest(message[r].order)'
      PROVE  Current(message[r].order)'
    <2>1. message[r] \in sent /\ message[r].order \in Order
        BY <1>5, MessageFields
    <2>2. message[r].order # o
        BY <1>3, <1>5, <2>1
    <2>. QED
        BY <1>2, <1>5, <2>1, <2>2 DEF CaughtUpInv
<1>. QED
    BY <1>4, <1>5 DEF CaughtUpInv

\* A COMMIT makes the row current if it handles the latest notification, and leaves a
\* current row current.
LEMMA WriteCurrent ==
    ASSUME Inv, BehindInv, NEW r \in Request, pc[r] = "update",
           NEW st \in {"owed", "lost"}, Write(r, st), UNCHANGED payment,
           NEW o \in Order, o = message[r].order
    PROVE  /\ message[r] = Latest(o) => Current(o)'
           /\ \A u \in Order : Current(u) => Current(u)'
<1> DEFINE row == Updated(trx[o], message[r])
           s   == MapMidtransStatus(message[r].payment)
<1>1. /\ o \in Order /\ trx[o] \in Row /\ row \in Row /\ trx' = [trx EXCEPT ![o] = row]
      /\ message[r] \in sent /\ message[r] \in Notification /\ message[r].payment \in Payment
      /\ trx[o] # NoRow
    BY WriteEffect, MessageFields DEF Inv, RequestInv
<1>2. /\ Leq(s, StatusOf(o)) /\ Leq(trx[o].status, StatusOf(o))
      /\ trx[o].status \in Known /\ s \in Known /\ StatusOf(o) \in Known
    BY <1>1, PaymentStatus DEF BehindInv, StatusOf, Inv, TypeOK
<1>3. row.status = IF ShouldApplyStatusUpdate(trx[o].status, s) THEN s ELSE trx[o].status
    BY DEF Updated
<1>4. ASSUME s = StatusOf(o) \/ trx[o].status = StatusOf(o)
      PROVE  row.status = StatusOf(o)
    <2> HIDE DEF row, s
    <2>. QED
        BY <1>2, <1>3, <1>4, UpdatesAreAnOrder DEF Leq
<1> HIDE DEF row
<1>5. row # NoRow
    BY <1>1, NoRowAssumption
<1>6. message[r] = Latest(o) => s = StatusOf(o)
    BY DEF Latest, StatusOf
<1>7. trx'[o] = row /\ \A u \in Order : u # o => trx'[u] = trx[u]
    BY <1>1 DEF Inv, TypeOK
<1>8. \A u \in Order : StatusOf(u)' = StatusOf(u)
    BY DEF StatusOf
<1>9. Current(o)' <=> row.status = StatusOf(o)
    BY <1>1, <1>5, <1>7, <1>8 DEF Current
<1> HIDE DEF s
<1>10. ASSUME NEW u \in Order, Current(u)
       PROVE  Current(u)'
    BY <1>4, <1>7, <1>8, <1>9, <1>10 DEF Current
<1>. QED
    BY <1>1, <1>4, <1>6, <1>9, <1>10

\* Every step keeps CaughtUpInv.
LEMMA CaughtUpStep == Inv /\ BehindInv /\ CaughtUpInv /\ [Next]_vars => CaughtUpInv'
<1> SUFFICES ASSUME Inv, BehindInv, CaughtUpInv, [Next]_vars PROVE CaughtUpInv'
    OBVIOUS
<1> USE DEF midtransVars, rowVars, requestVars
\* What a step that neither moves a payment nor acknowledges a notification has to keep.
<1>1. ASSUME UNCHANGED <<payment, moves>>, \A u \in Order : Current(u) => Current(u)',
             acked' \ dropped' \subseteq acked \ dropped,
             \A r \in Request : pc'[r] = "enqueue" /\ pc[r] = "enqueue" => message'[r] = message[r],
             \A r \in Request : pc'[r] = "enqueue" /\ pc[r] # "enqueue"
                                  /\ (message[r] = Latest(message[r].order))'
                                     => Current(message[r].order)'
      PROVE  CaughtUpInv'
    <2>1. \A u \in Order : Latest(u)' = Latest(u)
        BY <1>1 DEF Latest
    <2>2. CaughtUp'
        BY <1>1, <2>1 DEF CaughtUpInv, CaughtUp, Current, StatusOf
    <2>3. ASSUME NEW r \in Request, pc'[r] = "enqueue", pc[r] = "enqueue",
                 (message[r] = Latest(message[r].order))'
          PROVE  Current(message[r].order)'
        <3>1. message'[r] = message[r] /\ message[r].order \in Order
            BY <1>1, <2>3, MessageFields DEF Inv
        <3>2. message[r] = Latest(message[r].order)
            BY <2>1, <2>3, <3>1
        <3>. QED
            BY <1>1, <2>3, <3>1, <3>2 DEF CaughtUpInv
    <2>. QED
        BY <1>1, <2>2, <2>3 DEF CaughtUpInv
<1>2. ASSUME NEW o \in Order, AcceptCharge(o) \/ MovePayment(o)
      PROVE  CaughtUpInv'
    <2>1. PICK p \in Payment : Move(o, p)
        BY <1>2, PaymentAssumption DEF AcceptCharge, MovePayment, Inv, TypeOK
    <2>2. UNCHANGED <<trx, acked, dropped, pc, message>>
        BY <1>2 DEF AcceptCharge, MovePayment
    <2>. QED
        BY <2>1, <2>2, CaughtUpMove
<1>3. ASSUME NEW o \in Order, PersistCharge(o)
      PROVE  CaughtUpInv'
    <2>1. trx[o] = NoRow /\ (\A u \in Order : u # o => trx'[u] = trx[u])
          /\ UNCHANGED <<payment, moves, acked, dropped, pc, message>>
        BY <1>3 DEF PersistCharge, Inv, ChargeInv, TypeOK
    <2>. QED
        BY <1>1, <2>1 DEF Current, StatusOf
<1>4. ASSUME UNCHANGED <<payment, moves, trx>>, acked' \ dropped' \subseteq acked \ dropped,
             \A r \in Request : pc'[r] = "enqueue" => pc[r] = "enqueue" /\ message'[r] = message[r]
      PROVE  CaughtUpInv'
    BY <1>1, <1>4 DEF Current, StatusOf
<1>5. ASSUME NEW r \in Request, NEW n \in sent, Receive(r, n)
      PROVE  CaughtUpInv'
    BY <1>4, <1>5 DEF Receive, Inv, TypeOK
<1>6. ASSUME NEW r \in Request, NotFound(r) \/ RollBack(r) \/ EnqueueFails(r)
      PROVE  CaughtUpInv'
    <2>1. \A u \in Request : pc'[u] = "enqueue" => pc[u] = "enqueue" /\ message'[u] = message[u]
        BY <1>6 DEF NotFound, RollBack, EnqueueFails, Finish, Inv, TypeOK
    <2>2. acked' \ dropped' \subseteq acked \ dropped /\ UNCHANGED <<payment, moves, trx>>
        BY <1>6 DEF NotFound, RollBack, EnqueueFails, Acknowledge
    <2>. QED
        BY <1>4, <2>1, <2>2
<1>7. ASSUME NEW r \in Request, GetTransactionState(r)
      PROVE  CaughtUpInv'
    BY <1>4, <1>7 DEF GetTransactionState, Inv, TypeOK
<1>8. ASSUME NEW r \in Request, Commit(r), message[r].order \in HasCallback
      PROVE  CaughtUpInv'
    <2>1. pc[r] = "update" /\ UNCHANGED <<payment, moves, acked, dropped, message>>
          /\ pc' = [pc EXCEPT ![r] = "enqueue"]
        BY <1>8 DEF Commit
    <2>2. PICK o \in Order : o = message[r].order
        BY <2>1, MessageFields DEF Inv
    <2>3. /\ message[r] = Latest(o) => Current(o)'
          /\ \A u \in Order : Current(u) => Current(u)'
          /\ Latest(o)' = Latest(o)
        BY <1>8, <2>1, <2>2, WriteCurrent DEF Commit, Latest
    <2>4. ASSUME (message[r] = Latest(message[r].order))'
          PROVE  Current(message[r].order)'
        <3>1. message'[r].order = o
            BY <2>1, <2>2
        <3>2. message[r] = Latest(o)
            BY <2>1, <2>3, <2>4, <3>1 DEF Latest
        <3>. QED
            BY <2>3, <3>1, <3>2 DEF Current, StatusOf
    <2>5. \A u \in Request : pc'[u] = "enqueue" /\ pc[u] # "enqueue" => u = r
        BY <2>1 DEF Inv, TypeOK
    <2>. QED
        BY <1>1, <2>1, <2>3, <2>4, <2>5
<1>9. ASSUME NEW r \in Request, NEW o \in Order, o = message[r].order, Finish(r),
             UNCHANGED <<payment, moves, dropped>>, acked' \subseteq acked \union {message[r]},
             message[r] \in acked' /\ message[r] = Latest(o) => Current(o)',
             \A u \in Order : Current(u) => Current(u)'
      PROVE  CaughtUpInv'
    <2>1. \A u \in Request : pc'[u] = "enqueue" => pc[u] = "enqueue" /\ message'[u] = message[u]
        BY <1>9 DEF Finish, Inv, TypeOK
    <2>2. \A u \in Order : Latest(u)' = Latest(u)
        BY <1>9 DEF Latest
    <2>3. CaughtUp'
        <3> SUFFICES ASSUME NEW u \in Order, payment[u] # NoRow, Latest(u) \in acked' \ dropped
                     PROVE  Current(u)'
            BY <1>9, <2>2 DEF CaughtUp, Current, StatusOf
        <3>1. CASE Latest(u) \in acked
            BY <1>9, <3>1 DEF CaughtUpInv, CaughtUp, Current, StatusOf
        <3>2. CASE Latest(u) = message[r]
            <4>1. Latest(u).order = u
                BY DEF Latest
            <4>. QED
                BY <1>9, <3>2, <4>1
        <3>. QED
            BY <1>9, <3>1, <3>2
    <2>4. \A u \in Request : pc[u] = "enqueue" => message[u].order \in Order
        BY MessageFields DEF Inv
    <2>. QED
        BY <1>9, <2>1, <2>2, <2>3, <2>4 DEF CaughtUpInv
<1>10. ASSUME NEW r \in Request,
              CommitAnswerLost(r) \/ (Commit(r) /\ message[r].order \notin HasCallback)
       PROVE  CaughtUpInv'
    <2>1. /\ pc[r] = "update" /\ Finish(r) /\ UNCHANGED <<payment, moves, dropped>>
          /\ acked' \subseteq acked \union {message[r]}
          /\ \E st \in {"owed", "lost"} : Write(r, st)
        BY <1>10 DEF Commit, CommitAnswerLost, Acknowledge
    <2>2. PICK o \in Order : o = message[r].order
        BY <2>1, MessageFields DEF Inv
    <2>3. message[r] = Latest(o) => Current(o)'
        BY <2>1, <2>2, WriteCurrent
    <2>4. \A u \in Order : Current(u) => Current(u)'
        BY <2>1, <2>2, WriteCurrent
    <2>. QED
        BY <1>9, <2>1, <2>2, <2>3, <2>4
<1>11. ASSUME NEW r \in Request, Enqueue(r)
       PROVE  CaughtUpInv'
    <2>1. /\ pc[r] = "enqueue" /\ Finish(r) /\ UNCHANGED <<payment, moves, trx, dropped>>
          /\ acked' = acked \union {message[r]}
        BY <1>11 DEF Enqueue, Acknowledge
    <2>2. PICK o \in Order : o = message[r].order
        BY <2>1, MessageFields DEF Inv
    <2>3. \A u \in Order : Current(u) => Current(u)'
        BY <2>1 DEF Current, StatusOf
    <2>4. message[r] = Latest(o) => Current(o)
        BY <2>1, <2>2 DEF CaughtUpInv
    <2>. QED
        BY <1>9, <2>1, <2>2, <2>3, <2>4
<1>12. CASE Crash
    BY <1>4, <1>12 DEF Crash
<1>13. ASSUME NEW o \in Order, LoseCharge(o)
       PROVE  CaughtUpInv'
    BY <1>4, <1>13 DEF LoseCharge
<1>14. CASE UNCHANGED vars
    BY <1>4, <1>14 DEF vars
<1>. QED
    BY <1>2, <1>3, <1>5, <1>6, <1>7, <1>8, <1>10, <1>11, <1>12, <1>13, <1>14 DEF Next, Handle

\* If Midtrans only moves a payment forward, the row agrees with Midtrans from the
\* moment the latest notification is applied, whatever older or repeated notifications
\* are handled at the same time or later.
THEOREM CaughtUpHolds ==
    ASSUME ForwardMoves
    PROVE  Spec => []CaughtUp
<1>1. Init => BehindInv /\ CaughtUpInv
    BY DEF Init, BehindInv, CaughtUpInv, CaughtUp
<1>2. Inv /\ BehindInv /\ CaughtUpInv /\ [Next]_vars => BehindInv' /\ CaughtUpInv'
    BY BehindStep, CaughtUpStep
<1>3. CaughtUpInv => CaughtUp
    BY DEF CaughtUpInv
<1>. QED
    BY <1>1, <1>2, <1>3, Invariance, PTL DEF Spec

(***************************************************************************)
(* The merchant is told before Midtrans is answered.                       *)
(***************************************************************************)
AnnouncedIn(o, s) ==
    \E i \in 1..Len(events[o]) : events[o][i].new = s /\ events[o][i].delivery = "queued"

\* The handler of r has still to enqueue the delivery of its own event, which tells the
\* status of the payment if the notification is the latest.
Owes(r) ==
    LET o == message[r].order IN
    pc[r] = "enqueue" =>
        /\ events[o][entry[r]].delivery = "owed"
        /\ message[r] = Latest(o) => events[o][entry[r]].new = StatusOf(o)
        /\ \A u \in Request :
              pc[u] = "enqueue" /\ u # r /\ message[u].order = o => entry[u] # entry[r]

AnnouncedInv ==
    /\ \A o \in HasCallback :
          payment[o] # NoRow /\ Latest(o) \in acked \ dropped => AnnouncedIn(o, StatusOf(o))
    /\ \A r \in Request : Owes(r)

\* The events of a sequence are numbered from 1.
LEMMA AnnouncedInEvents ==
    ASSUME TypeOK, NEW o \in Order, NEW s
    PROVE  AnnouncedIn(o, s) <=> Announced(o, s)
BY LenProperties DEF TypeOK, AnnouncedIn, Announced

\* No event is lost, none changes its status, and none that is enqueued is taken back.
EventsKept ==
    \A o \in Order : \A i \in 1..Len(events[o]) :
        /\ i \in 1..Len(events'[o]) /\ events'[o][i].new = events[o][i].new
        /\ events[o][i].delivery = "queued" => events'[o][i].delivery = "queued"

\* A COMMIT keeps the events.
LEMMA WriteKeeps ==
    ASSUME Inv, NEW r \in Request, pc[r] = "update", NEW st \in {"owed", "lost"}, Write(r, st)
    PROVE  /\ EventsKept
           /\ \A o \in Order : \A i \in 1..Len(events[o]) : events'[o][i] = events[o][i]
<1> DEFINE v == message[r].order
<1> SUFFICES ASSUME NEW o \in Order, NEW i \in 1..Len(events[o])
             PROVE  i \in 1..Len(events'[o]) /\ events'[o][i] = events[o][i]
    BY DEF EventsKept
<1>1. Len(events[o]) \in Nat
    BY EventsLen DEF Inv
<1>2. CASE o = v
    BY <1>1, <1>2, WriteEffect DEF Inv
<1>3. CASE o # v
    BY <1>3, WriteEffect DEF Inv
<1>. QED
    BY <1>2, <1>3

\* What is enqueued for a status stays enqueued.
LEMMA AnnouncedStays ==
    ASSUME EventsKept, NEW o \in Order, NEW s, AnnouncedIn(o, s)
    PROVE  \E i \in 1..Len(events'[o]) :
              events'[o][i].new = s /\ events'[o][i].delivery = "queued"
BY DEF EventsKept, AnnouncedIn

\* What a step that starts no call of Redis and moves no payment has to keep.
LEMMA AnnouncedOutside ==
    ASSUME Inv, AnnouncedInv, UNCHANGED <<payment, moves>>, EventsKept,
           \A u \in Request : pc'[u] = "enqueue" =>
               /\ pc[u] = "enqueue" /\ message'[u] = message[u] /\ entry'[u] = entry[u]
               /\ events'[message[u].order][entry[u]] = events[message[u].order][entry[u]],
           \A o \in HasCallback :
               Latest(o) \in acked' \ dropped' =>
                   Latest(o) \in acked \ dropped \/ AnnouncedIn(o, StatusOf(o))'
    PROVE  AnnouncedInv'
<1>1. \A o \in Order : Latest(o)' = Latest(o) /\ StatusOf(o)' = StatusOf(o)
    BY DEF Latest, StatusOf
<1>2. ASSUME NEW o \in HasCallback, payment'[o] # NoRow, Latest(o) \in acked' \ dropped'
      PROVE  AnnouncedIn(o, StatusOf(o))'
    <2>1. o \in Order
        BY OrderAssumption
    <2>2. CASE Latest(o) \in acked \ dropped
        <3>1. AnnouncedIn(o, StatusOf(o))
            BY <1>2, <2>2 DEF AnnouncedInv
        <3>. QED
            BY <1>1, <2>1, <3>1, AnnouncedStays DEF AnnouncedIn
    <2>. QED
        BY <1>2, <2>2
<1>3. ASSUME NEW r \in Request
      PROVE  Owes(r)'
    <2>1. SUFFICES ASSUME pc'[r] = "enqueue" PROVE Owes(r)'
        BY DEF Owes
    <2>2. Owes(r) /\ message[r].order \in Order
        BY <2>1, MessageFields DEF AnnouncedInv, Inv
    <2>. QED
        BY <1>1, <2>1, <2>2 DEF Owes
<1>. QED
    BY <1>1, <1>2, <1>3, OrderAssumption DEF AnnouncedInv

\* The latest notification is a new one after every move of Midtrans.
LEMMA AnnouncedMove ==
    ASSUME Inv, BehindInv, AnnouncedInv, NEW o \in Order, NEW p \in Payment, Move(o, p),
           UNCHANGED <<events, acked, dropped, pc, message, entry>>
    PROVE  AnnouncedInv'
<1> USE DEF Inv
<1>1. /\ payment' = [payment EXCEPT ![o] = p] /\ moves' = [moves EXCEPT ![o] = moves[o] + 1]
      /\ moves[o] \in Nat
    BY DEF Move, TypeOK
<1>2. \A u \in Order : u # o => Latest(u)' = Latest(u) /\ StatusOf(u)' = StatusOf(u)
                                /\ payment'[u] = payment[u]
    BY <1>1 DEF Latest, StatusOf, TypeOK
<1>3. Latest(o)' \notin sent
    <2>1. Latest(o)'.order = o /\ Latest(o)'.time = moves[o] + 1
        BY <1>1 DEF Latest, TypeOK
    <2>. QED
        BY <1>1, <2>1 DEF BehindInv
<1>4. ASSUME NEW u \in HasCallback, payment'[u] # NoRow, Latest(u)' \in acked \ dropped
      PROVE  AnnouncedIn(u, StatusOf(u))'
    <2>1. u \in Order /\ u # o
        BY <1>3, <1>4, OrderAssumption DEF TypeOK
    <2>2. AnnouncedIn(u, StatusOf(u))
        BY <1>2, <1>4, <2>1 DEF AnnouncedInv
    <2>. QED
        BY <1>2, <2>1, <2>2 DEF AnnouncedIn
<1>5. ASSUME NEW r \in Request, pc[r] = "enqueue"
      PROVE  Owes(r)'
    <2>1. Owes(r) /\ message[r] \in sent /\ message[r].order \in Order
        BY <1>5, MessageFields DEF AnnouncedInv
    <2>2. ASSUME message[r] = Latest(message[r].order)'
          PROVE  events[message[r].order][entry[r]].new = StatusOf(message[r].order)'
        <3>1. message[r].order # o
            BY <1>3, <2>1, <2>2
        <3>. QED
            BY <1>2, <1>5, <2>1, <2>2, <3>1 DEF Owes
    <2>. QED
        BY <1>5, <2>1, <2>2 DEF Owes, Latest, StatusOf
<1>6. \A r \in Request : Owes(r)'
    BY <1>5 DEF Owes
<1>. QED
    BY <1>4, <1>6 DEF AnnouncedInv

\* A COMMIT whose handler goes on to Redis makes an event of its own.
LEMMA AnnouncedCommit ==
    ASSUME Inv, BehindInv, AnnouncedInv, NEW r \in Request, Commit(r),
           message[r].order \in HasCallback
    PROVE  AnnouncedInv'
<1>1. /\ pc[r] = "update" /\ Write(r, "owed")
      /\ UNCHANGED <<payment, moves, acked, dropped, message>>
      /\ pc' = [pc EXCEPT ![r] = "enqueue"]
      /\ entry' = [entry EXCEPT ![r] = Len(events[message[r].order]) + 1]
    BY DEF Commit, midtransVars
<1>2. PICK o \in Order : o = message[r].order
    BY <1>1, MessageFields DEF Inv
<1> DEFINE n == Len(events[o])
           row == Updated(trx[o], message[r])
<1>3. /\ events'[o][n + 1].new = row.status /\ events'[o][n + 1].delivery = "owed"
      /\ trx' = [trx EXCEPT ![o] = row]
    BY <1>1, <1>2, WriteEffect DEF Inv
<1>4. /\ EventsKept
      /\ \A u \in Order : \A i \in 1..Len(events[u]) : events'[u][i] = events[u][i]
    BY <1>1, WriteKeeps
<1>5. \A u \in Order : Latest(u)' = Latest(u) /\ StatusOf(u)' = StatusOf(u)
    BY <1>1 DEF Latest, StatusOf
<1>6. message[r] = Latest(o) => row.status = StatusOf(o)
    <2>1. message[r] = Latest(o) => Current(o)'
        BY <1>1, <1>2, WriteCurrent
    <2>2. trx'[o] = row
        BY <1>2, <1>3 DEF Inv, TypeOK
    <2>. QED
        BY <1>5, <2>1, <2>2 DEF Current
<1> HIDE DEF row
<1>7. \A u \in Request : u # r => pc'[u] = pc[u] /\ entry'[u] = entry[u]
    BY <1>1 DEF Inv, TypeOK
<1>8. pc'[r] = "enqueue" /\ entry'[r] = n + 1 /\ n \in Nat
    BY <1>1, <1>2, EventsLen DEF Inv, TypeOK
<1>9. \A u \in Request : pc[u] = "enqueue" =>
         message[u].order \in Order /\ entry[u] \in 1..Len(events[message[u].order])
    BY MessageFields DEF Inv, RequestInv
<1>10. ASSUME NEW u \in HasCallback, payment'[u] # NoRow, Latest(u)' \in acked' \ dropped'
       PROVE  AnnouncedIn(u, StatusOf(u))'
    <2>1. u \in Order /\ AnnouncedIn(u, StatusOf(u))
        BY <1>1, <1>5, <1>10, OrderAssumption DEF AnnouncedInv
    <2>2. \E i \in 1..Len(events'[u]) :
             events'[u][i].new = StatusOf(u) /\ events'[u][i].delivery = "queued"
        BY <1>4, <2>1, AnnouncedStays
    <2>3. StatusOf(u)' = StatusOf(u)
        BY <1>5, <2>1
    <2>. QED
        BY <2>2, <2>3 DEF AnnouncedIn
<1>11. Owes(r)'
    <2>1. \A u \in Request : pc'[u] = "enqueue" /\ u # r /\ message[u].order = o
                                => entry'[u] # n + 1
        BY <1>7, <1>8, <1>9
    <2>. QED
        BY <1>1, <1>2, <1>3, <1>5, <1>6, <1>8, <2>1 DEF Owes
<1>12. ASSUME NEW u \in Request, u # r, pc[u] = "enqueue"
       PROVE  Owes(u)'
    <2>1. Owes(u)
        BY DEF AnnouncedInv
    <2> DEFINE v == message[u].order
    <2>2. v \in Order /\ entry[u] \in 1..Len(events[v])
        BY <1>9, <1>12
    <2>3. events'[v][entry[u]] = events[v][entry[u]]
        BY <1>4, <2>2
    <2>4. v = o => entry[u] # n + 1
        BY <1>8, <2>2
    <2>. QED
        BY <1>1, <1>2, <1>5, <1>7, <1>8, <1>12, <2>1, <2>2, <2>3, <2>4 DEF Owes
<1>13. \A u \in Request : Owes(u)'
    BY <1>7, <1>11, <1>12 DEF Owes
<1>. QED
    BY <1>10, <1>13 DEF AnnouncedInv

\* Every step keeps AnnouncedInv.
LEMMA AnnouncedStep == Inv /\ BehindInv /\ AnnouncedInv /\ [Next]_vars => AnnouncedInv'
<1> SUFFICES ASSUME Inv, BehindInv, AnnouncedInv, [Next]_vars PROVE AnnouncedInv'
    OBVIOUS
<1> USE DEF midtransVars, rowVars, requestVars
<1>1. ASSUME NEW o \in Order, AcceptCharge(o) \/ MovePayment(o)
      PROVE  AnnouncedInv'
    <2>1. PICK p \in Payment : Move(o, p)
        BY <1>1, PaymentAssumption DEF AcceptCharge, MovePayment, Inv, TypeOK
    <2>2. UNCHANGED <<events, acked, dropped, pc, message, entry>>
        BY <1>1 DEF AcceptCharge, MovePayment
    <2>. QED
        BY <2>1, <2>2, AnnouncedMove
\* A step that leaves the events alone.
<1>2. ASSUME UNCHANGED <<payment, moves, events>>, acked' \ dropped' \subseteq acked \ dropped,
             \A u \in Request : pc'[u] = "enqueue" =>
                 pc[u] = "enqueue" /\ message'[u] = message[u] /\ entry'[u] = entry[u]
      PROVE  AnnouncedInv'
    <2>1. EventsKept
        BY <1>2 DEF EventsKept
    <2>. QED
        BY <1>2, <2>1, AnnouncedOutside
\* The handler of r ends.
<1>3. ASSUME NEW r \in Request, pc[r] # "idle", Finish(r), UNCHANGED <<payment, moves, dropped>>,
             EventsKept, acked' = acked \/ acked' = acked \union {message[r]},
             \A o \in HasCallback :
                 acked' # acked /\ message[r] = Latest(o) => AnnouncedIn(o, StatusOf(o))',
             \A u \in Request : pc[u] = "enqueue" /\ u # r =>
                 events'[message[u].order][entry[u]] = events[message[u].order][entry[u]]
      PROVE  AnnouncedInv'
    <2>1. \A u \in Request : pc'[u] = "enqueue" =>
             u # r /\ pc[u] = "enqueue" /\ message'[u] = message[u] /\ entry'[u] = entry[u]
        BY <1>3 DEF Finish, Inv, TypeOK
    <2>2. ASSUME NEW o \in HasCallback, Latest(o) \in acked' \ dropped',
                 Latest(o) \notin acked \ dropped
          PROVE  AnnouncedIn(o, StatusOf(o))'
        <3>1. message[r] = Latest(o) /\ acked' # acked
            BY <1>3, <2>2
        <3>. QED
            BY <1>3, <3>1
    <2>. QED
        BY <1>3, <2>1, <2>2, AnnouncedOutside
<1>4. ASSUME NEW r \in Request, NEW n \in sent, Receive(r, n)
      PROVE  AnnouncedInv'
    BY <1>2, <1>4 DEF Receive, Inv, TypeOK
<1>5. ASSUME NEW r \in Request, NotFound(r) \/ RollBack(r)
      PROVE  AnnouncedInv'
    <2>1. \A u \in Request : pc'[u] = "enqueue" =>
             pc[u] = "enqueue" /\ message'[u] = message[u] /\ entry'[u] = entry[u]
        BY <1>5 DEF NotFound, RollBack, Finish, Inv, TypeOK
    <2>2. acked' \ dropped' \subseteq acked \ dropped /\ UNCHANGED <<payment, moves, events>>
        BY <1>5 DEF NotFound, RollBack, Acknowledge
    <2>. QED
        BY <1>2, <2>1, <2>2
<1>6. ASSUME NEW r \in Request, GetTransactionState(r)
      PROVE  AnnouncedInv'
    BY <1>2, <1>6 DEF GetTransactionState, Inv, TypeOK
<1>7. \A u \in Request : pc[u] = "enqueue" =>
         message[u].order \in Order /\ entry[u] \in 1..Len(events[message[u].order])
    BY MessageFields DEF Inv, RequestInv
<1>8. ASSUME NEW r \in Request,
             CommitAnswerLost(r) \/ (Commit(r) /\ message[r].order \notin HasCallback)
      PROVE  AnnouncedInv'
    <2>1. /\ pc[r] = "update" /\ Finish(r) /\ UNCHANGED <<payment, moves, dropped>>
          /\ \E st \in {"owed", "lost"} : Write(r, st)
          /\ \/ acked' = acked
             \/ acked' = acked \union {message[r]} /\ message[r].order \notin HasCallback
        BY <1>8 DEF Commit, CommitAnswerLost, Acknowledge
    <2>2. /\ EventsKept
          /\ \A o \in Order : \A i \in 1..Len(events[o]) : events'[o][i] = events[o][i]
        BY <2>1, WriteKeeps
    <2>3. \A o \in HasCallback : acked' = acked \/ message[r] # Latest(o)
        BY <2>1 DEF Latest
    <2>. QED
        BY <1>3, <1>7, <2>1, <2>2, <2>3
<1>9. ASSUME NEW r \in Request, Enqueue(r) \/ EnqueueFails(r)
      PROVE  AnnouncedInv'
    <2>1. PICK st \in {"queued", "lost"} :
             /\ SetDelivery(r, st)
             /\ acked' = acked \/ (acked' = acked \union {message[r]} /\ st = "queued")
        BY <1>9 DEF Enqueue, EnqueueFails, Acknowledge
    <2>2. pc[r] = "enqueue" /\ Finish(r) /\ UNCHANGED <<payment, moves, dropped>>
        BY <1>9 DEF Enqueue, EnqueueFails
    <2>3. PICK o \in Order : o = message[r].order
        BY <1>7, <2>2
    <2>4. /\ Marks
          /\ entry[r] \in 1..Len(events[o]) /\ events'[o][entry[r]].delivery = st
          /\ \A i \in 1..Len(events[o]) : i # entry[r] => events'[o][i] = events[o][i]
          /\ \A u \in Order : u # o => events'[u] = events[u]
        BY <2>1, <2>2, <2>3, SetDeliveryMarks DEF Inv
    <2>5. Owes(r)
        BY DEF AnnouncedInv
    <2>6. EventsKept
        <3> SUFFICES ASSUME NEW u \in Order, NEW i \in 1..Len(events[u])
                     PROVE  /\ i \in 1..Len(events'[u]) /\ events'[u][i].new = events[u][i].new
                            /\ events[u][i].delivery = "queued" => events'[u][i].delivery = "queued"
            BY DEF EventsKept
        <3>1. i \in 1..Len(events'[u]) /\ events'[u][i].new = events[u][i].new
            BY <2>4 DEF Marks
        <3>2. u = o /\ i = entry[r] => events[u][i].delivery = "owed"
            BY <2>2, <2>3, <2>5 DEF Owes
        <3>3. u # o \/ i # entry[r] => events'[u][i] = events[u][i]
            BY <2>4
        <3>. QED
            BY <3>1, <3>2, <3>3
    <2>7. ASSUME acked' # acked, message[r] = Latest(o)
          PROVE  AnnouncedIn(o, StatusOf(o))'
        <3>1. events'[o][entry[r]].new = StatusOf(o) /\ entry[r] \in 1..Len(events'[o])
            BY <2>2, <2>3, <2>4, <2>5, <2>7 DEF Owes, Marks
        <3>2. events'[o][entry[r]].delivery = "queued"
            BY <2>1, <2>4, <2>7
        <3>. QED
            BY <2>2, <3>1, <3>2 DEF AnnouncedIn, StatusOf
    <2>8. \A u \in Request : pc[u] = "enqueue" /\ u # r =>
             events'[message[u].order][entry[u]] = events[message[u].order][entry[u]]
        BY <1>7, <2>2, <2>3, <2>4, <2>5 DEF Owes
    <2>9. \A u \in HasCallback :
             acked' # acked /\ message[r] = Latest(u) => AnnouncedIn(u, StatusOf(u))'
        <3> SUFFICES ASSUME NEW u \in HasCallback, acked' # acked, message[r] = Latest(u)
                     PROVE  AnnouncedIn(u, StatusOf(u))'
            OBVIOUS
        <3>1. u = o
            BY <2>3 DEF Latest
        <3>. QED
            BY <2>7, <3>1
    <2>. QED
        BY <1>3, <2>1, <2>2, <2>6, <2>8, <2>9
<1>10. CASE Crash
    <2>1. EventsKept
        <3>1. \A o \in Order : Len(events'[o]) = Len(events[o])
            BY <1>10, CrashMarks DEF Inv, Marks
        <3>. QED
            BY <1>10, <3>1, CrashMarks DEF Inv, Marks, EventsKept
    <2>2. UNCHANGED <<payment, moves, acked, dropped>> /\ \A u \in Request : pc'[u] = "idle"
        BY <1>10 DEF Crash
    <2>. QED
        BY <2>1, <2>2, AnnouncedOutside
<1>11. ASSUME NEW o \in Order, PersistCharge(o) \/ LoseCharge(o)
       PROVE  AnnouncedInv'
    BY <1>2, <1>11 DEF PersistCharge, LoseCharge
<1>12. CASE UNCHANGED vars
    BY <1>2, <1>12 DEF vars
<1>. QED
    BY <1>1, <1>4, <1>5, <1>6, <1>8, <1>9, <1>10, <1>11, <1>12, AnnouncedCommit
       DEF Next, Handle

\* If Midtrans only moves a payment forward, its latest notification is answered with 200
\* only after the delivery that tells the merchant of the payment's status is enqueued,
\* for any number of handlers, failures, crashes and repeated notifications.
THEOREM AcknowledgedIsAnnouncedHolds ==
    ASSUME ForwardMoves
    PROVE  Spec => []AcknowledgedIsAnnounced
<1>1. Init => BehindInv /\ AnnouncedInv
    BY DEF Init, BehindInv, AnnouncedInv, Owes
<1>2. Inv /\ BehindInv /\ AnnouncedInv /\ [Next]_vars => BehindInv' /\ AnnouncedInv'
    BY BehindStep, AnnouncedStep
<1>3. Inv /\ AnnouncedInv => AcknowledgedIsAnnounced
    BY AnnouncedInEvents, OrderAssumption
       DEF Inv, AnnouncedInv, AcknowledgedIsAnnounced, StatusOf
<1>. QED
    BY <1>1, <1>2, <1>3, Invariance, PTL DEF Spec
================================================================================
