------------------------- MODULE WireTransferProofs -------------------------
(***************************************************************************)
(* Proofs about WireTransfer, for any number of trades and of concurrent   *)
(* calls: the type invariant, that a filled trade was paid, that the lists *)
(* of the trades hold every booking once, and that the calls take effect   *)
(* one at a time, as Settlement promises; that the moves ExchangeMonitor   *)
(* expects are all the moves there are, when the order of the banks'       *)
(* reports counts, and why a call starts over finitely often.              *)
(***************************************************************************)
EXTENDS WireTransfer, FoldTheorems, TLAPS

USE InitialAssumption

LEMMA StatusTypes ==
  /\ InitialStatuses \subseteq Statuses
  /\ \A st \in Statuses : \A sent, recv, need : StatusAfterPayment(st, sent, recv, need) \in Statuses
  <1>1. InitialStatuses \subseteq Statuses
    BY DEF Statuses
  <1>2. ASSUME NEW st \in Statuses, NEW sent, NEW recv, NEW need
        PROVE  StatusAfterPayment(st, sent, recv, need) \in Statuses
    BY DEF StatusAfterPayment, Statuses
  <1> QED
    BY <1>1, <1>2

LEMMA FreshType == \A st \in Statuses : Fresh(st) \in Documents
  BY DEF Fresh, Documents

\* What a call writes is a document again.
LEMMA WrittenType ==
  ASSUME NEW p \in Payments, NEW t \in Trades, NEW doc \in Documents
  PROVE  /\ Written(p, t, doc) \in Documents
         /\ Effect(p, t, doc) \in {"send", "receive", "refund", "nothing"}
  <1>1. Ident[p] \in Idents /\ PayAmount[p] \in Nat
    BY WireAssumption
  <1>2. AfterRefund(p, doc) \in Documents
    <2> DEFINE noted == IF Ident[p] \in Owed(doc)
                        THEN [doc EXCEPT !.refunded[Ident[p]] = @ + PayAmount[p]]
                        ELSE doc
    <2>1. noted \in Documents
      BY <1>1 DEF Documents
    <2>2. [noted EXCEPT !.status = "canceled"] \in Documents
      BY <2>1 DEF Documents, Statuses
    <2> QED
      BY <2>1, <2>2 DEF AfterRefund
  <1>3. AfterPayment(p, t, doc) \in Documents
    <2> DEFINE noted == IF Paid[p]
                        THEN [doc EXCEPT !.sent = @ + PayAmount[p]]
                        ELSE [doc EXCEPT !.received[Ident[p]] = @ + PayAmount[p]]
               st == StatusAfterPayment(noted.status, noted.sent, Received(noted), Price[t])
    <2>1. noted \in Documents
      BY <1>1 DEF Documents
    <2>2. noted.status \in Statuses
      BY <2>1 DEF Documents
    <2>3. st \in Statuses
      BY <2>2, StatusTypes
    <2> HIDE DEF noted, st
    <2>4. [noted EXCEPT !.status = st] \in Documents
      BY <2>1, <2>3 DEF Documents
    <2> QED
      BY <2>4 DEF AfterPayment, noted, st
  <1>4. Effect(p, t, doc) \in {"send", "receive", "refund", "nothing"}
    BY DEF Effect
  <1> QED
    BY <1>2, <1>3, <1>4 DEF Written

LEMMA NoPickType == NoPick \in [trade : Trades \cup {0}, rev : Nat, doc : Documents]
  BY FreshType DEF NoPick, Statuses

-----------------------------------------------------------------------------

LEMMA TypeInit == Init => TypeOK
  <1> SUFFICES ASSUME Init PROVE TypeOK
    OBVIOUS
  <1>1. trade \in [Trades -> Documents]
    BY StatusTypes, FreshType DEF Init
  <1>2. pick \in [Payments -> [trade : Trades \cup {0}, rev : Nat, doc : Documents]]
    BY NoPickType DEF Init
  <1>3. booked \in [Payments -> Bookings]
    BY DEF Init, NotBooked, Bookings
  <1> QED
    BY <1>1, <1>2, <1>3 DEF Init, TypeOK

LEMMA TypeStep == TypeOK /\ [Next]_vars => TypeOK'
  <1> SUFFICES ASSUME TypeOK, [Next]_vars PROVE TypeOK'
    OBVIOUS
  <1> DEFINE Picks == [trade : Trades \cup {0}, rev : Nat, doc : Documents]
  <1>1. ASSUME NEW p \in Payments, Query(p) PROVE TypeOK'
    <2>1. CASE Rows(p) = {}
      BY <1>1, <2>1 DEF Query, TypeOK
    <2>2. CASE Rows(p) # {}
      <3>1. PICK t \in Rows(p) :
              /\ pick' = [pick EXCEPT ![p] =
                            [trade |-> t, rev |-> rev[t], doc |-> trade[t]]]
              /\ phase' = [phase EXCEPT ![p] = "put"]
        BY <1>1, <2>2 DEF Query
      <3>2. t \in Trades
        BY DEF Rows
      <3>3. [trade |-> t, rev |-> rev[t], doc |-> trade[t]] \in Picks
        BY <3>2 DEF TypeOK
      <3>4. pick' \in [Payments -> Picks]
        BY <3>1, <3>3 DEF TypeOK
      <3>5. \A q \in Payments : phase'[q] = "put" => pick'[q].trade \in Trades
        BY <3>1, <3>2 DEF TypeOK
      <3> QED
        BY <1>1, <3>1, <3>4, <3>5 DEF Query, TypeOK
    <2> QED
      BY <2>1, <2>2
  <1>2. ASSUME NEW p \in Payments, Put(p) PROVE TypeOK'
    <2> DEFINE t == pick[p].trade
               doc == pick[p].doc
    <2>1. t \in Trades /\ doc \in Documents
      BY <1>2 DEF Put, TypeOK
    <2>2. Written(p, t, doc) \in Documents
          /\ Effect(p, t, doc) \in {"send", "receive", "refund", "nothing"}
      BY <2>1, WrittenType
    <2>3. trade' \in [Trades -> Documents] /\ rev' \in [Trades -> Nat]
      BY <1>2, <2>1, <2>2 DEF Put, Write, TypeOK
    <2>4. booked' \in [Payments -> Bookings]
      <3>1. [trade |-> t, as |-> Effect(p, t, doc)] \in Bookings
        BY <2>1, <2>2 DEF Bookings
      <3> QED
        BY <1>2, <3>1 DEF Put, Write, TypeOK
    <2>5. pick' \in [Payments -> Picks]
      BY <1>2, NoPickType DEF Put, Write, TypeOK
    <2>6. phase' \in [Payments -> {"query", "put", "done"}]
          /\ \A q \in Payments : phase'[q] = "put" => pick'[q].trade \in Trades
      BY <1>2 DEF Put, Write, TypeOK
    <2> QED
      BY <1>2, <2>3, <2>4, <2>5, <2>6 DEF Put, Write, TypeOK
  <1>3. ASSUME NEW p \in Payments, Conflict(p) PROVE TypeOK'
    <2>1. pick' \in [Payments -> Picks]
      BY <1>3, NoPickType DEF Conflict, TypeOK
    <2>2. phase' \in [Payments -> {"query", "put", "done"}]
          /\ \A q \in Payments : phase'[q] = "put" => pick'[q].trade \in Trades
      BY <1>3 DEF Conflict, TypeOK
    <2> QED
      BY <1>3, <2>1, <2>2 DEF Conflict, TypeOK
  <1>4. ASSUME NEW t \in Trades, UserEdit(t) PROVE TypeOK'
    BY <1>4 DEF UserEdit, TypeOK
  <1>5. ASSUME NEW t \in Trades, NEW s \in Statuses, UserMove(t, s) PROVE TypeOK'
    <2>1. trade' \in [Trades -> Documents]
      BY <1>5 DEF UserMove, TypeOK, Documents
    <2> QED
      BY <1>5, <2>1 DEF UserMove, TypeOK
  <1>6. CASE UNCHANGED vars
    BY <1>6 DEF vars, TypeOK
  <1> QED
    BY <1>1, <1>2, <1>3, <1>4, <1>5, <1>6 DEF Next, Call

\* Documents, revisions and picks keep their shape under any interleaving.
THEOREM TypeCorrect == Spec => []TypeOK
  <1>1. Init => TypeOK
    BY TypeInit
  <1>2. TypeOK /\ [Next]_vars => TypeOK'
    BY TypeStep
  <1> QED
    BY <1>1, <1>2, PTL DEF Spec

-----------------------------------------------------------------------------
(* Statuses that payments leave *)

\* A call that acts on a document fills it only with the price in both its lists.
LEMMA FilledByPayment ==
  ASSUME NEW p \in Payments, NEW t \in Trades, NEW doc \in Documents,
         Acts(p, t, doc.status), Written(p, t, doc).status = "filled"
  PROVE  LET new == Written(p, t, doc)
         IN  PaidInFull(new.sent, Received(new), Price[t])
  <1>1. Matched(doc.status) /\ doc.status # "filled" /\ doc.status \in Statuses
    BY DEF Acts, Matched, Documents
  <1>2. Ident[p] \in Idents /\ PayAmount[p] \in Nat
    BY WireAssumption
  <1>3. CASE RefundRow(p, t)
    <2>1. AfterRefund(p, doc).status \in {doc.status, "canceled"}
      BY <1>2 DEF AfterRefund, Documents
    <2> QED
      BY <1>1, <1>3, <2>1 DEF Written
  <1>4. CASE ~RefundRow(p, t)
    <2> DEFINE noted == IF Paid[p]
                        THEN [doc EXCEPT !.sent = @ + PayAmount[p]]
                        ELSE [doc EXCEPT !.received[Ident[p]] = @ + PayAmount[p]]
               st == StatusAfterPayment(noted.status, noted.sent, Received(noted), Price[t])
               new == [noted EXCEPT !.status = st]
    <2>1. noted \in Documents /\ noted.status = doc.status
      BY <1>2 DEF Documents
    <2>2. Written(p, t, doc) = new
      BY <1>4 DEF Written, AfterPayment
    <2> HIDE DEF noted
    <2>3. new.status = st /\ new.sent = noted.sent /\ new.received = noted.received
      BY <2>1 DEF Documents
    <2>4. Received(new) = Received(noted)
      BY <2>3 DEF Received
    <2>5. st = "filled" => PaidInFull(noted.sent, Received(noted), Price[t])
      BY <1>1, <2>1 DEF StatusAfterPayment
    <2> QED
      BY <2>2, <2>3, <2>4, <2>5
  <1> QED
    BY <1>3, <1>4

-----------------------------------------------------------------------------
(* What a call knows when its write is accepted *)

\* A write of one trade makes what other calls hold of it stale, and changes
\* no other trade.
LEMMA WriteKeepsPicks ==
  ASSUME TypeOK, PickCurrent, NEW t \in Trades,
         rev' = [rev EXCEPT ![t] = @ + 1],
         \A u \in Trades \ {t} : trade'[u] = trade[u],
         NEW p \in Payments, phase[p] = "put", phase'[p] = phase[p], pick'[p] = pick[p]
  PROVE  LET u == pick'[p].trade
         IN  /\ pick'[p].rev <= rev'[u]
             /\ pick'[p].rev = rev'[u] =>
                   pick'[p].doc = trade'[u] /\ Acts(p, u, trade'[u].status)
  <1> DEFINE u == pick[p].trade
  <1>1. u \in Trades /\ pick[p].rev \in Nat /\ rev[u] \in Nat
    BY DEF TypeOK
  <1>2. /\ pick[p].rev <= rev[u]
        /\ pick[p].rev = rev[u] => pick[p].doc = trade[u] /\ Acts(p, u, trade[u].status)
    BY DEF PickCurrent
  <1>3. rev'[u] = IF u = t THEN rev[u] + 1 ELSE rev[u]
    BY <1>1 DEF TypeOK
  <1>4. u # t => trade'[u] = trade[u]
    BY <1>1
  <1> QED
    BY <1>1, <1>2, <1>3, <1>4

LEMMA PickStep == TypeOK /\ PickCurrent /\ [Next]_vars => PickCurrent'
  <1> SUFFICES ASSUME TypeOK, PickCurrent, [Next]_vars, NEW q \in Payments, phase'[q] = "put"
               PROVE  LET u == pick'[q].trade
                      IN  /\ pick'[q].rev <= rev'[u]
                          /\ pick'[q].rev = rev'[u] =>
                                pick'[q].doc = trade'[u] /\ Acts(q, u, trade'[u].status)
    BY DEF PickCurrent
  <1>1. ASSUME NEW p \in Payments, Query(p)
        PROVE  LET u == pick'[q].trade
               IN  /\ pick'[q].rev <= rev'[u]
                   /\ pick'[q].rev = rev'[u] =>
                         pick'[q].doc = trade'[u] /\ Acts(q, u, trade'[u].status)
    <2>1. UNCHANGED <<trade, rev>>
      BY <1>1 DEF Query
    <2>2. CASE phase[q] = "put" /\ pick'[q] = pick[q]
      BY <2>1, <2>2 DEF PickCurrent
    <2>3. CASE p = q /\ Rows(p) # {}
      <3>1. PICK t \in Rows(p) :
              pick' = [pick EXCEPT ![p] = [trade |-> t, rev |-> rev[t], doc |-> trade[t]]]
        BY <1>1, <2>3 DEF Query
      <3>2. t \in Trades /\ Acts(p, t, trade[t].status)
        BY DEF Rows
      <3>3. pick'[q] = [trade |-> t, rev |-> rev[t], doc |-> trade[t]]
        BY <2>3, <3>1 DEF TypeOK
      <3>4. rev[t] \in Nat
        BY <3>2 DEF TypeOK
      <3> QED
        BY <2>1, <2>3, <3>2, <3>3, <3>4
    <2>4. p # q => phase[q] = "put" /\ pick'[q] = pick[q]
      BY <1>1 DEF Query, TypeOK
    <2>5. p = q => Rows(p) # {}
      BY <1>1 DEF Query, TypeOK
    <2> QED
      BY <2>2, <2>3, <2>4, <2>5
  <1>2. ASSUME NEW p \in Payments, Put(p)
        PROVE  LET u == pick'[q].trade
               IN  /\ pick'[q].rev <= rev'[u]
                   /\ pick'[q].rev = rev'[u] =>
                         pick'[q].doc = trade'[u] /\ Acts(q, u, trade'[u].status)
    <2> DEFINE t == pick[p].trade
    <2>1. t \in Trades
      BY <1>2 DEF Put, TypeOK
    <2>2. q # p /\ phase[q] = "put" /\ phase'[q] = phase[q] /\ pick'[q] = pick[q]
      BY <1>2 DEF Put, Write, TypeOK
    <2>3. /\ rev' = [rev EXCEPT ![t] = @ + 1]
          /\ \A u \in Trades \ {t} : trade'[u] = trade[u]
      BY <1>2 DEF Put, Write, TypeOK
    <2> QED
      BY <2>1, <2>2, <2>3, WriteKeepsPicks
  <1>3. ASSUME NEW p \in Payments, Conflict(p)
        PROVE  LET u == pick'[q].trade
               IN  /\ pick'[q].rev <= rev'[u]
                   /\ pick'[q].rev = rev'[u] =>
                         pick'[q].doc = trade'[u] /\ Acts(q, u, trade'[u].status)
    <2>1. phase[q] = "put" /\ pick'[q] = pick[q] /\ UNCHANGED <<trade, rev>>
      BY <1>3 DEF Conflict, TypeOK
    <2> QED
      BY <2>1 DEF PickCurrent
  <1>4. ASSUME NEW t \in Trades, UserEdit(t) \/ \E s \in Statuses : UserMove(t, s)
        PROVE  LET u == pick'[q].trade
               IN  /\ pick'[q].rev <= rev'[u]
                   /\ pick'[q].rev = rev'[u] =>
                         pick'[q].doc = trade'[u] /\ Acts(q, u, trade'[u].status)
    <2>1. /\ rev' = [rev EXCEPT ![t] = @ + 1]
          /\ \A u \in Trades \ {t} : trade'[u] = trade[u]
          /\ UNCHANGED <<phase, pick>>
      BY <1>4 DEF UserEdit, UserMove, TypeOK
    <2> QED
      BY <2>1, WriteKeepsPicks
  <1>5. CASE UNCHANGED vars
    BY <1>5 DEF vars, PickCurrent
  <1> QED
    BY <1>1, <1>2, <1>3, <1>4, <1>5 DEF Next, Call

-----------------------------------------------------------------------------

LEMMA FilledStep ==
  TypeOK /\ PickCurrent /\ FilledWasPaid /\ [Next]_vars => FilledWasPaid'
  <1> SUFFICES ASSUME TypeOK, PickCurrent, FilledWasPaid, [Next]_vars,
                      NEW u \in Trades, u \notin finished', trade'[u].status = "filled"
               PROVE  PaidInFull(trade'[u].sent, Received(trade'[u]), Price[u])
    BY DEF FilledWasPaid
  <1>1. ASSUME UNCHANGED <<trade, finished>>
        PROVE  PaidInFull(trade'[u].sent, Received(trade'[u]), Price[u])
    BY <1>1 DEF FilledWasPaid
  <1>2. ASSUME NEW p \in Payments, Put(p)
        PROVE  PaidInFull(trade'[u].sent, Received(trade'[u]), Price[u])
    <2> DEFINE t == pick[p].trade
    <2>1. t \in Trades /\ pick[p].doc = trade[t] /\ Acts(p, t, trade[t].status)
      BY <1>2 DEF Put, TypeOK, PickCurrent
    <2>2. trade' = [trade EXCEPT ![t] = Written(p, t, trade[t])] /\ UNCHANGED finished
      BY <1>2, <2>1 DEF Put, Write
    <2>3. CASE u = t
      <3>1. trade'[u] = Written(p, u, trade[u]) /\ trade[u] \in Documents
        BY <2>2, <2>3 DEF TypeOK
      <3> QED
        BY <2>1, <2>3, <3>1, FilledByPayment
    <2>4. CASE u # t
      BY <2>2, <2>4 DEF TypeOK, FilledWasPaid
    <2> QED
      BY <2>3, <2>4
  <1>3. ASSUME NEW t \in Trades, NEW s \in Statuses, UserMove(t, s)
        PROVE  PaidInFull(trade'[u].sent, Received(trade'[u]), Price[u])
    <2>1. CASE u = t
      <3>1. trade'[u].status = s
        BY <1>3, <2>1 DEF UserMove, TypeOK, Documents
      <3> QED
        BY <1>3, <2>1, <3>1 DEF UserMove
    <2>2. CASE u # t
      <3>1. trade'[u] = trade[u] /\ u \notin finished
        BY <1>3, <2>2 DEF UserMove, TypeOK
      <3> QED
        BY <3>1 DEF FilledWasPaid
    <2> QED
      BY <2>1, <2>2
  <1>4. ASSUME NEW p \in Payments, Query(p) \/ Conflict(p)
        PROVE  UNCHANGED <<trade, finished>>
    BY <1>4 DEF Query, Conflict
  <1>5. ASSUME NEW t \in Trades, UserEdit(t) PROVE UNCHANGED <<trade, finished>>
    BY <1>5 DEF UserEdit
  <1>6. UNCHANGED vars => UNCHANGED <<trade, finished>>
    BY DEF vars
  <1> QED
    BY <1>1, <1>2, <1>3, <1>4, <1>5, <1>6 DEF Next, Call

\* However the calls of two banks interleave with each other and with users, a trade
\* is filled, and its bitcoins leave, only when both banks reported its price.
THEOREM FilledTradesPaid == Spec => []FilledWasPaid
  <1>1. Init => TypeOK /\ PickCurrent /\ FilledWasPaid
    <2>1. Init => PickCurrent
      BY DEF Init, PickCurrent
    <2>2. Init => FilledWasPaid
      BY InitialAssumption DEF Init, Fresh, FilledWasPaid
    <2> QED
      BY <2>1, <2>2, TypeInit
  <1>2. TypeOK /\ PickCurrent /\ FilledWasPaid /\ [Next]_vars
            => TypeOK' /\ PickCurrent' /\ FilledWasPaid'
    BY TypeStep, PickStep, FilledStep
  <1> QED
    BY <1>1, <1>2, PTL DEF Spec

-----------------------------------------------------------------------------
(* The lists hold every booking once *)

\* One more payment in a list of accounts raises its sum by its amount.
LEMMA ListGrows ==
  ASSUME NEW list \in [Idents -> Nat], NEW i \in Idents, NEW n \in Nat
  PROVE  /\ sumAmount(list) \in Nat
         /\ sumAmount([list EXCEPT ![i] = @ + n]) = sumAmount(list) + n
  <1>1. /\ IsFiniteSet(Idents) /\ Idents \in SUBSET Idents /\ list \in [Idents -> Int]
        /\ list[i] \in Nat /\ list[i] + n \in Int
    BY WireAssumption
  <1>2. sumAmount(list) \in Nat
    BY <1>1, SumNat DEF sumAmount
  <1> DEFINE new == [list EXCEPT ![i] = @ + n]
  <1>3. \A y \in Idents : list[y] \in Int /\ new[y] \in Int /\ (y # i => new[y] = list[y])
    OBVIOUS
  <1>4. new[i] = list[i] + n
    OBVIOUS
  <1> HIDE DEF new
  <1>5. sumAmount(new) = sumAmount(list) - list[i] + new[i]
    BY <1>1, <1>3, SumChange DEF sumAmount
  <1> QED
    BY <1>1, <1>2, <1>4, <1>5 DEF new

\* The sums of the lists of a document.
Listed(doc, list) ==
    CASE list = "send" -> doc.sent
      [] list = "receive" -> Received(doc)
      [] list = "refund" -> sumAmount(doc.refunded)

\* A write adds the payment to the list it is booked on, and to no other.
LEMMA WrittenLists ==
  ASSUME NEW p \in Payments, NEW t \in Trades, NEW doc \in Documents,
         NEW list \in {"send", "receive", "refund"}
  PROVE  Listed(Written(p, t, doc), list)
             = Listed(doc, list) + (IF Effect(p, t, doc) = list THEN PayAmount[p] ELSE 0)
  <1> DEFINE i == Ident[p]
             n == PayAmount[p]
  <1>1. i \in Idents /\ n \in Nat
    BY WireAssumption
  <1>2. doc.sent \in Nat /\ doc.received \in [Idents -> Nat] /\ doc.refunded \in [Idents -> Nat]
    BY DEF Documents
  <1>3. /\ Listed(doc, "send") = doc.sent
        /\ Listed(doc, "receive") = sumAmount(doc.received)
        /\ Listed(doc, "refund") = sumAmount(doc.refunded)
    BY DEF Listed, Received
  <1>4. /\ sumAmount(doc.received) \in Nat /\ sumAmount(doc.refunded) \in Nat
        /\ sumAmount([doc.received EXCEPT ![i] = @ + n]) = sumAmount(doc.received) + n
        /\ sumAmount([doc.refunded EXCEPT ![i] = @ + n]) = sumAmount(doc.refunded) + n
    BY <1>1, <1>2, ListGrows
  <1>5. CASE RefundRow(p, t)
    <2> DEFINE new == AfterRefund(p, doc)
    <2>1. /\ new.sent = doc.sent /\ new.received = doc.received
          /\ new.refunded = IF i \in Owed(doc) THEN [doc.refunded EXCEPT ![i] = @ + n]
                                               ELSE doc.refunded
      <3> DEFINE noted == IF i \in Owed(doc) THEN [doc EXCEPT !.refunded[i] = @ + n] ELSE doc
      <3>1. /\ noted.sent = doc.sent /\ noted.received = doc.received
            /\ noted.refunded = IF i \in Owed(doc) THEN [doc.refunded EXCEPT ![i] = @ + n]
                                                   ELSE doc.refunded
            /\ noted \in Documents
        BY <1>1 DEF Documents
      <3>2. new = IF Owed(noted) = {} THEN [noted EXCEPT !.status = "canceled"] ELSE noted
        BY DEF AfterRefund
      <3> HIDE DEF noted, new
      <3> QED
        BY <3>1, <3>2 DEF Documents
    <2>2. Effect(p, t, doc) = IF i \in Owed(doc) THEN "refund" ELSE "nothing"
      BY <1>5 DEF Effect
    <2>3. Written(p, t, doc) = new
      BY <1>5 DEF Written
    <2> HIDE DEF new, i, n
    <2>4. /\ Listed(new, "send") = new.sent
          /\ Listed(new, "receive") = sumAmount(new.received)
          /\ Listed(new, "refund") = sumAmount(new.refunded)
      BY DEF Listed, Received
    <2> QED
      BY <1>1, <1>2, <1>3, <1>4, <2>1, <2>2, <2>3, <2>4 DEF n
  <1>6. CASE ~RefundRow(p, t)
    <2> DEFINE new == AfterPayment(p, t, doc)
    <2>1. /\ new.refunded = doc.refunded
          /\ new.sent = IF Paid[p] THEN doc.sent + n ELSE doc.sent
          /\ new.received = IF Paid[p] THEN doc.received ELSE [doc.received EXCEPT ![i] = @ + n]
      BY <1>1 DEF AfterPayment, Documents
    <2>2. Effect(p, t, doc) = IF Paid[p] THEN "send" ELSE "receive"
      BY <1>6 DEF Effect
    <2>3. Written(p, t, doc) = new
      BY <1>6 DEF Written
    <2> HIDE DEF new, i, n
    <2>4. /\ Listed(new, "send") = new.sent
          /\ Listed(new, "receive") = sumAmount(new.received)
          /\ Listed(new, "refund") = sumAmount(new.refunded)
      BY DEF Listed, Received
    <2> QED
      BY <1>1, <1>2, <1>3, <1>4, <2>1, <2>2, <2>3, <2>4 DEF n
  <1> QED
    BY <1>5, <1>6

LEMMA PaymentsSum ==
  ASSUME NEW P, P \subseteq Payments
  PROVE  IsFiniteSet(P) /\ SumFunctionOnSet(PayAmount, P) \in Int
  <1>1. IsFiniteSet(P)
    BY WireAssumption, FS_Subset
  <1>2. \A q \in P : PayAmount[q] \in Int
    BY WireAssumption
  <1> QED
    BY <1>1, <1>2, SumInt

\* A payment not booked before joins the sum of the list it is booked on.
LEMMA BookedSumGrows ==
  ASSUME NEW p \in Payments, NEW old, NEW new, old[p] = NotBooked,
         \A q \in Payments \ {p} : new[q] = old[q],
         NEW u \in Trades, NEW list
  PROVE  BookedSum(new, u, list) = BookedSum(old, u, list)
             + (IF new[p] = [trade |-> u, as |-> list] THEN PayAmount[p] ELSE 0)
  <1> DEFINE on == [trade |-> u, as |-> list]
             before == {q \in Payments : old[q] = on}
             after == {q \in Payments : new[q] = on}
  <1>1. NotBooked # on
    BY WireAssumption DEF NotBooked
  <1>2. before \subseteq Payments /\ p \notin before
    BY <1>1
  <1>3. after = IF new[p] = on THEN before \cup {p} ELSE before
    <2> HIDE DEF on
    <2> QED
      BY <1>1
  <1>4. /\ BookedSum(new, u, list) = SumFunctionOnSet(PayAmount, after)
        /\ BookedSum(old, u, list) = SumFunctionOnSet(PayAmount, before)
    BY DEF BookedSum
  <1> HIDE DEF on, before, after
  <1>5. SumFunctionOnSet(PayAmount, before) \in Int /\ IsFiniteSet(before)
    BY <1>2, PaymentsSum
  <1>6. \A q \in before \cup {p} : PayAmount[q] \in Int
    BY <1>2, WireAssumption
  <1>7. SumFunctionOnSet(PayAmount, before \cup {p})
          = PayAmount[p] + SumFunctionOnSet(PayAmount, before)
    BY <1>2, <1>5, <1>6, SumWith
  <1>8. PayAmount[p] \in Int
    BY <1>6
  <1> QED
    BY <1>3, <1>4, <1>5, <1>7, <1>8 DEF on

\* What a call has not written yet is booked nowhere.
OnceBooked == \A p \in Payments : phase[p] # "done" => booked[p] = NotBooked

\* The lists and the bookings agree.
ListsAgree ==
    \A t \in Trades : \A list \in {"send", "receive", "refund"} :
        Listed(trade[t], list) = BookedSum(booked, t, list)

LEMMA ListsAreBooks == ListsAgree <=> BookingsListed
  BY DEF ListsAgree, BookingsListed, Listed

LEMMA OnceBookedStep == TypeOK /\ OnceBooked /\ [Next]_vars => OnceBooked'
  <1> SUFFICES ASSUME TypeOK, OnceBooked, [Next]_vars PROVE OnceBooked'
    OBVIOUS
  <1>1. ASSUME NEW p \in Payments, Call(p) PROVE OnceBooked'
    BY <1>1 DEF Call, Query, Put, Write, Conflict, OnceBooked, TypeOK
  <1>2. ASSUME NEW t \in Trades, UserEdit(t) \/ \E s \in Statuses : UserMove(t, s)
        PROVE  OnceBooked'
    BY <1>2 DEF UserEdit, UserMove, OnceBooked
  <1>3. CASE UNCHANGED vars
    BY <1>3 DEF vars, OnceBooked
  <1> QED
    BY <1>1, <1>2, <1>3 DEF Next

LEMMA ListsStep ==
  TypeOK /\ PickCurrent /\ OnceBooked /\ ListsAgree /\ [Next]_vars => ListsAgree'
  <1> SUFFICES ASSUME TypeOK, PickCurrent, OnceBooked, ListsAgree, [Next]_vars,
                      NEW u \in Trades, NEW list \in {"send", "receive", "refund"}
               PROVE  Listed(trade'[u], list) = BookedSum(booked', u, list)
    BY DEF ListsAgree
  <1>1. Listed(trade[u], list) = BookedSum(booked, u, list)
    BY DEF ListsAgree
  <1>2. ASSUME NEW p \in Payments, Put(p)
        PROVE  Listed(trade'[u], list) = BookedSum(booked', u, list)
    <2>0. PICK t \in Trades : t = pick[p].trade
      BY <1>2 DEF Put, TypeOK
    <2> DEFINE e == Effect(p, t, trade[t])
    <2>1. pick[p].doc = trade[t] /\ trade[t] \in Documents
      BY <1>2, <2>0 DEF Put, PickCurrent, TypeOK
    <2>2. /\ trade' = [trade EXCEPT ![t] = Written(p, t, trade[t])]
          /\ booked' = [booked EXCEPT ![p] = [trade |-> t, as |-> e]]
      BY <1>2, <2>0, <2>1 DEF Put, Write
    <2>3. /\ booked[p] = NotBooked /\ booked'[p] = [trade |-> t, as |-> e]
          /\ \A q \in Payments \ {p} : booked'[q] = booked[q]
      BY <1>2, <2>2 DEF Put, OnceBooked, TypeOK
    <2>4. BookedSum(booked', u, list) = BookedSum(booked, u, list)
            + (IF booked'[p] = [trade |-> u, as |-> list] THEN PayAmount[p] ELSE 0)
      BY <2>3, BookedSumGrows
    <2> HIDE DEF e
    <2>5. BookedSum(booked', u, list)
            = BookedSum(booked, u, list) + (IF t = u /\ e = list THEN PayAmount[p] ELSE 0)
      BY <2>3, <2>4
    <2>6. CASE t = u
      <3>1. Listed(trade'[u], list)
              = Listed(trade[u], list) + (IF e = list THEN PayAmount[p] ELSE 0)
        BY <2>1, <2>2, <2>6, WrittenLists DEF e, TypeOK
      <3> QED
        BY <1>1, <2>5, <2>6, <3>1
    <2>7. CASE t # u
      <3>1. trade'[u] = trade[u]
        BY <2>2, <2>7 DEF TypeOK
      <3>2. BookedSum(booked, u, list) \in Int
        <4> DEFINE on == {q \in Payments : booked[q] = [trade |-> u, as |-> list]}
        <4>1. on \subseteq Payments /\ BookedSum(booked, u, list) = SumFunctionOnSet(PayAmount, on)
          BY DEF BookedSum
        <4> HIDE DEF on
        <4> QED
          BY <4>1, PaymentsSum
      <3> QED
        BY <1>1, <2>5, <2>7, <3>1, <3>2
    <2> QED
      BY <2>6, <2>7
  <1>3. ASSUME NEW p \in Payments, Query(p) \/ Conflict(p)
        PROVE  UNCHANGED <<trade, booked>>
    BY <1>3 DEF Query, Conflict
  <1>4. ASSUME NEW t \in Trades, NEW s \in Statuses, UserMove(t, s)
        PROVE  Listed(trade'[u], list) = BookedSum(booked', u, list)
    <2>1. /\ trade'[u].sent = trade[u].sent /\ trade'[u].received = trade[u].received
          /\ trade'[u].refunded = trade[u].refunded /\ UNCHANGED booked
      BY <1>4 DEF UserMove, TypeOK, Documents
    <2>2. Listed(trade'[u], list) = Listed(trade[u], list)
      BY <2>1 DEF Listed, Received
    <2> QED
      BY <1>1, <2>1, <2>2
  <1>5. ASSUME NEW t \in Trades, UserEdit(t) PROVE UNCHANGED <<trade, booked>>
    BY <1>5 DEF UserEdit
  <1>6. UNCHANGED vars => UNCHANGED <<trade, booked>>
    BY DEF vars
  <1> QED
    BY <1>1, <1>2, <1>3, <1>4, <1>5, <1>6 DEF Next, Call

-----------------------------------------------------------------------------
(* A trade that is not open has refunded what its seller received *)

FreeOwesNothing ==
    \A t \in Trades : trade[t].status \in {"created", "canceled"} => Owed(trade[t]) = {}

LEMMA SameListsOwe ==
  ASSUME NEW doc, NEW new, new.received = doc.received, new.refunded = doc.refunded
  PROVE  Owed(new) = Owed(doc)
  BY DEF Owed

\* A write that leaves a trade canceled leaves no debt.
LEMMA WrittenOwes ==
  ASSUME NEW p \in Payments, NEW t \in Trades, NEW doc \in Documents,
         Acts(p, t, doc.status), doc.status = "canceled" => Owed(doc) = {},
         Written(p, t, doc).status \in {"created", "canceled"}
  PROVE  Owed(Written(p, t, doc)) = {}
  <1> DEFINE i == Ident[p]
             n == PayAmount[p]
  <1>1. i \in Idents /\ n \in Nat \ {0}
    BY WireAssumption
  <1>2. doc.status # "created"
    BY DEF Acts, Matched
  <1>3. CASE RefundRow(p, t)
    <2> DEFINE noted == IF i \in Owed(doc) THEN [doc EXCEPT !.refunded[i] = @ + n] ELSE doc
               canceled == [noted EXCEPT !.status = "canceled"]
    <2>1. noted \in Documents /\ noted.status = doc.status
      BY <1>1 DEF Documents
    <2>2. Owed(doc) = {} => noted = doc
      OBVIOUS
    <2>3. Written(p, t, doc) = IF Owed(noted) = {} THEN canceled ELSE noted
      BY <1>3 DEF Written, AfterRefund
    <2> HIDE DEF noted
    <2>4. Owed(canceled) = Owed(noted)
      <3>1. canceled.received = noted.received /\ canceled.refunded = noted.refunded
        BY <2>1 DEF Documents
      <3> HIDE DEF canceled
      <3> QED
        BY <3>1, SameListsOwe
    <2> HIDE DEF canceled
    <2> QED
      BY <1>2, <2>1, <2>2, <2>3, <2>4
  <1>4. CASE ~RefundRow(p, t)
    <2> DEFINE noted == IF Paid[p] THEN [doc EXCEPT !.sent = @ + n]
                                   ELSE [doc EXCEPT !.received[i] = @ + n]
               st == StatusAfterPayment(noted.status, noted.sent, Received(noted), Price[t])
               new == [noted EXCEPT !.status = st]
    <2>1. /\ noted \in Documents /\ noted.status = doc.status /\ noted.refunded = doc.refunded
          /\ noted.received = IF Paid[p] THEN doc.received ELSE [doc.received EXCEPT ![i] = @ + n]
      BY <1>1 DEF Documents
    <2>2. Written(p, t, doc) = new
      BY <1>4 DEF Written, AfterPayment
    <2> HIDE DEF noted
    <2>3. new.status = st /\ new.received = noted.received /\ new.refunded = noted.refunded
      BY <2>1 DEF Documents
    <2>4. Matched(doc.status) /\ Bookable(doc.status)
      BY <1>4 DEF Acts
    <2>5. doc.status = "canceled" /\ ~(Received(noted) > 0)
      BY <2>1, <2>2, <2>3, <2>4 DEF StatusAfterPayment, Matched, Bookable
    <2>6. Paid[p]
      <3>1. ASSUME ~Paid[p] PROVE FALSE
        <4>1. doc.received \in [Idents -> Nat]
          BY DEF Documents
        <4>2. /\ sumAmount(doc.received) \in Nat
              /\ sumAmount([doc.received EXCEPT ![i] = @ + n]) = sumAmount(doc.received) + n
          BY <1>1, <4>1, ListGrows
        <4> HIDE DEF i
        <4>3. Received(noted) = sumAmount(doc.received) + n
          BY <2>1, <3>1, <4>2 DEF Received
        <4> QED
          BY <1>1, <2>5, <4>2, <4>3
      <3> QED
        BY <3>1, WireAssumption
    <2> HIDE DEF st, new
    <2>7. Owed(new) = Owed(doc)
      BY <2>1, <2>3, <2>6, SameListsOwe
    <2> QED
      BY <2>2, <2>5, <2>7
  <1> QED
    BY <1>3, <1>4

LEMMA OwesStep ==
  TypeOK /\ PickCurrent /\ FreeOwesNothing /\ [Next]_vars => FreeOwesNothing'
  <1> SUFFICES ASSUME TypeOK, PickCurrent, FreeOwesNothing, [Next]_vars,
                      NEW u \in Trades, trade'[u].status \in {"created", "canceled"}
               PROVE  Owed(trade'[u]) = {}
    BY DEF FreeOwesNothing, Owed
  <1>1. ASSUME UNCHANGED trade PROVE Owed(trade'[u]) = {}
    BY <1>1 DEF FreeOwesNothing
  <1>2. ASSUME NEW p \in Payments, Put(p) PROVE Owed(trade'[u]) = {}
    <2>0. PICK t \in Trades : t = pick[p].trade
      BY <1>2 DEF Put, TypeOK
    <2>1. pick[p].doc = trade[t] /\ trade[t] \in Documents /\ Acts(p, t, trade[t].status)
      BY <1>2, <2>0 DEF Put, PickCurrent, TypeOK
    <2>2. trade' = [trade EXCEPT ![t] = Written(p, t, trade[t])]
      BY <1>2, <2>0, <2>1 DEF Put, Write
    <2>3. CASE u = t
      <3>1. trade'[u] = Written(p, t, trade[t])
        BY <2>2, <2>3 DEF TypeOK
      <3>2. trade[t].status = "canceled" => Owed(trade[t]) = {}
        BY DEF FreeOwesNothing
      <3> QED
        BY <2>1, <3>1, <3>2, WrittenOwes
    <2>4. CASE u # t
      <3>1. trade'[u] = trade[u]
        BY <2>2, <2>4 DEF TypeOK
      <3> QED
        BY <3>1 DEF FreeOwesNothing
    <2> QED
      BY <2>3, <2>4
  <1>3. ASSUME NEW t \in Trades, NEW s \in Statuses, UserMove(t, s)
        PROVE  Owed(trade'[u]) = {}
    <2>1. /\ trade'[u].received = trade[u].received /\ trade'[u].refunded = trade[u].refunded
          /\ trade'[u].status = IF u = t THEN s ELSE trade[u].status
      BY <1>3 DEF UserMove, TypeOK, Documents
    <2>2. trade[u].status \in {"created", "canceled"}
      BY <1>3, <2>1 DEF UserMove, UserMoves
    <2> QED
      BY <2>1, <2>2, SameListsOwe DEF FreeOwesNothing
  <1>4. ASSUME NEW p \in Payments, Query(p) \/ Conflict(p) PROVE UNCHANGED trade
    BY <1>4 DEF Query, Conflict
  <1>5. ASSUME NEW t \in Trades, UserEdit(t) PROVE UNCHANGED trade
    BY <1>5 DEF UserEdit
  <1>6. UNCHANGED vars => UNCHANGED trade
    BY DEF vars
  <1> QED
    BY <1>1, <1>2, <1>3, <1>4, <1>5, <1>6 DEF Next, Call

\* Before any payment the lists are empty, and so are the bookings.
LEMMA BooksInit == Init => OnceBooked /\ ListsAgree /\ FreeOwesNothing
  <1> SUFFICES ASSUME Init PROVE OnceBooked /\ ListsAgree /\ FreeOwesNothing
    OBVIOUS
  <1>1. OnceBooked
    BY DEF Init, OnceBooked
  <1> DEFINE none == [i \in Idents |-> 0]
  <1>2. ASSUME NEW t \in Trades
        PROVE  trade[t].sent = 0 /\ trade[t].received = none /\ trade[t].refunded = none
    BY DEF Init, Fresh
  <1>3. FreeOwesNothing
    BY <1>2 DEF FreeOwesNothing, Owed
  <1>4. sumAmount(none) = 0
    <2> DEFINE g == [T \in SUBSET Idents |-> 0]
    <2>1. Summing(none, Idents, g)
      BY DEF Summing
    <2>2. IsFiniteSet(Idents) /\ g[Idents] = 0
      BY WireAssumption
    <2> HIDE DEF none, g
    <2> QED
      BY <2>1, <2>2, SumIsSumming DEF sumAmount
  <1>5. ASSUME NEW t \in Trades, NEW list \in {"send", "receive", "refund"}
        PROVE  Listed(trade[t], list) = BookedSum(booked, t, list)
    <2>1. Listed(trade[t], list) = 0
      <3> HIDE DEF none
      <3> QED
        BY <1>2, <1>4 DEF Listed, Received
    <2>2. {p \in Payments : booked[p] = [trade |-> t, as |-> list]} = {}
      BY WireAssumption DEF Init, NotBooked
    <2> QED
      BY <2>1, <2>2, SumOfNone DEF BookedSum
  <1> QED
    BY <1>1, <1>3, <1>5 DEF ListsAgree

\* However the calls interleave, the lists of the trades hold every payment that was
\* booked exactly once, and a canceled trade has refunded what is booked as received.
THEOREM BooksAlwaysAgree == Spec => []BooksAgree
  <1> DEFINE Inv == TypeOK /\ PickCurrent /\ OnceBooked /\ ListsAgree /\ FreeOwesNothing
  <1>1. Init => Inv
    <2>1. Init => PickCurrent
      BY DEF Init, PickCurrent
    <2> QED
      BY <2>1, TypeInit, BooksInit
  <1>2. Inv /\ [Next]_vars => Inv'
    BY TypeStep, PickStep, OnceBookedStep, ListsStep, OwesStep
  <1>3. Inv => BooksAgree
    <2>1. FreeOwesNothing => CanceledOwesNothing
      BY DEF FreeOwesNothing, CanceledOwesNothing
    <2> QED
      BY <2>1, ListsAreBooks DEF BooksAgree
  <1> QED
    BY <1>1, <1>2, <1>3, PTL DEF Spec

-----------------------------------------------------------------------------
(* Each step is a step of Settlement or leaves it alone *)

Left == {p \in Payments : phase[p] # "done"}

LEMMA StepRefines ==
  ASSUME TypeOK, PickCurrent, [Next]_vars
  PROVE  [S!Next]_(S!settlementVars)
  <1>1. ASSUME NEW p \in Payments, Query(p) PROVE [S!Next]_(S!settlementVars)
    <2>1. CASE Rows(p) = {}
      <3>1. p \in Left /\ Left' = Left \ {p}
        BY <1>1, <2>1 DEF Query, Left, TypeOK
      <3>2. S!Miss(p)
        BY <1>1, <2>1, <3>1 DEF S!Miss, Query, Rows, Left
      <3> QED
        BY <3>2 DEF S!Next
    <2>2. CASE Rows(p) # {}
      <3>1. Left' = Left
        BY <1>1, <2>2 DEF Query, Left, TypeOK
      <3> QED
        BY <1>1, <3>1 DEF Query, S!settlementVars, Left
    <2> QED
      BY <2>1, <2>2
  <1>2. ASSUME NEW p \in Payments, Put(p) PROVE [S!Next]_(S!settlementVars)
    <2>0. PICK t \in Trades : t = pick[p].trade
      BY <1>2 DEF Put, TypeOK
    <2>1. pick[p].doc = trade[t] /\ Acts(p, t, trade[t].status)
      BY <1>2, <2>0 DEF Put, PickCurrent
    <2>2. p \in Left /\ Left' = Left \ {p}
      BY <1>2 DEF Put, Write, Left, TypeOK
    <2>3. /\ trade' = [trade EXCEPT ![t] = Written(p, t, trade[t])]
          /\ booked' = [booked EXCEPT ![p] =
                          [trade |-> t, as |-> Effect(p, t, trade[t])]]
          /\ UNCHANGED finished
      BY <1>2, <2>0, <2>1 DEF Put, Write
    <2>4. S!Book(p, t)
      BY <2>1, <2>2, <2>3 DEF S!Book, Left
    <2> QED
      BY <2>4 DEF S!Next
  <1>3. ASSUME NEW p \in Payments, Conflict(p) PROVE [S!Next]_(S!settlementVars)
    <2>1. Left' = Left
      BY <1>3 DEF Conflict, Left, TypeOK
    <2> QED
      BY <1>3, <2>1 DEF Conflict, S!settlementVars, Left
  <1>4. ASSUME NEW t \in Trades, UserEdit(t) PROVE [S!Next]_(S!settlementVars)
    BY <1>4 DEF UserEdit, S!settlementVars
  <1>5. ASSUME NEW t \in Trades, NEW s \in Statuses, UserMove(t, s)
        PROVE  [S!Next]_(S!settlementVars)
    <2>1. S!UserMove(t, s)
      BY <1>5 DEF UserMove, S!UserMove
    <2> QED
      BY <2>1 DEF S!Next
  <1>6. CASE UNCHANGED vars
    BY <1>6 DEF vars, S!settlementVars
  <1> QED
    BY <1>1, <1>2, <1>3, <1>4, <1>5, <1>6 DEF Next, Call

LEMMA InitRefines == Init => S!Init
  BY DEF Init, S!Init

\* Concurrent calls of processWireTransfer take effect one at a time: each
\* books its payment on a trade it acts on at that moment, or acts on none.
THEOREM CallsLinearize == Spec => Linearizable
  <1>1. Init => TypeOK /\ PickCurrent
    <2>1. Init => PickCurrent
      BY DEF Init, PickCurrent
    <2> QED
      BY <2>1, TypeInit
  <1>2. TypeOK /\ PickCurrent /\ [Next]_vars => TypeOK' /\ PickCurrent'
    BY TypeStep, PickStep
  <1>3. TypeOK /\ PickCurrent /\ [Next]_vars => [S!Next]_(S!settlementVars)
    BY StepRefines
  <1> QED
    BY <1>1, <1>2, <1>3, InitRefines, PTL DEF Spec, Linearizable, S!Spec

-----------------------------------------------------------------------------
(* The changes of status the monitor of the exchange reckons with *)

LEMMA WrittenMoves ==
  ASSUME NEW p \in Payments, NEW t \in Trades, NEW doc \in Documents, Acts(p, t, doc.status)
  PROVE  LET st == Written(p, t, doc).status
         IN  st = doc.status \/ <<doc.status, st>> \in WireMoves
  <1>1. Ident[p] \in Idents /\ PayAmount[p] \in Nat
    BY WireAssumption
  <1>2. CASE RefundRow(p, t)
    <2>1. AfterRefund(p, doc).status \in {doc.status, "canceled"}
      BY <1>1 DEF AfterRefund, Documents
    <2>2. Written(p, t, doc) = AfterRefund(p, doc)
      BY <1>2 DEF Written
    <2>3. <<doc.status, "canceled">> \in WireMoves
      BY DEF Acts, Matched, WireMoves
    <2> QED
      BY <2>1, <2>2, <2>3
  <1>3. CASE ~RefundRow(p, t)
    <2> DEFINE st == Written(p, t, doc).status
    <2>1. PICK sent, recv : st = StatusAfterPayment(doc.status, sent, recv, Price[t])
      <3> DEFINE noted == IF Paid[p]
                          THEN [doc EXCEPT !.sent = @ + PayAmount[p]]
                          ELSE [doc EXCEPT !.received[Ident[p]] = @ + PayAmount[p]]
                 new == StatusAfterPayment(noted.status, noted.sent, Received(noted), Price[t])
      <3>1. noted \in Documents /\ noted.status = doc.status
        BY <1>1 DEF Documents
      <3>2. Written(p, t, doc) = [noted EXCEPT !.status = new]
        BY <1>3 DEF Written, AfterPayment
      <3> HIDE DEF noted
      <3>3. st = new
        BY <3>1, <3>2 DEF Documents
      <3> QED
        BY <3>1, <3>3
    <2> HIDE DEF st
    <2>2. Bookable(doc.status)
      BY <1>3 DEF Acts
    <2>3. CASE doc.status \in {"open", "open_recv", "open_send"}
      <3>1. st \in {"filled", "open_send", "open_recv", doc.status}
        BY <2>1, <2>3 DEF StatusAfterPayment
      <3> QED
        BY <2>3, <3>1 DEF WireMoves, st
    <2>4. CASE doc.status = "attantion"
      <3>1. st \in {"filled", doc.status}
        BY <2>1, <2>4 DEF StatusAfterPayment
      <3> QED
        BY <2>4, <3>1 DEF WireMoves, st
    <2>5. CASE doc.status = "canceled"
      <3>1. st \in {"attantion", doc.status}
        BY <2>1, <2>5 DEF StatusAfterPayment
      <3> QED
        BY <2>5, <3>1 DEF WireMoves, st
    <2> QED
      BY <2>2, <2>3, <2>4, <2>5 DEF Bookable
  <1> QED
    BY <1>2, <1>3

\* What ExchangeMonitor lets others do with the status of a trade.
StatusMoves ==
    [][\A t \in Trades : trade'[t].status = trade[t].status
                         \/ <<trade[t].status, trade'[t].status>> \in TradeMoves]_vars

\* Users and processWireTransfer, with all its calls and conflicts, change the status of
\* a trade in no way but those under which ExchangeMonitor keeps the balances covered.
THEOREM MonitorKnowsAllMoves == Spec => StatusMoves
  <1> DEFINE Known == \A t \in Trades : trade'[t].status = trade[t].status
                           \/ <<trade[t].status, trade'[t].status>> \in TradeMoves
  <1>1. ASSUME TypeOK, PickCurrent, [Next]_vars PROVE Known
    <2> SUFFICES ASSUME NEW u \in Trades
                 PROVE  trade'[u].status = trade[u].status
                        \/ <<trade[u].status, trade'[u].status>> \in TradeMoves
      OBVIOUS
    <2>1. ASSUME NEW p \in Payments, Put(p)
          PROVE  trade'[u].status = trade[u].status
                 \/ <<trade[u].status, trade'[u].status>> \in TradeMoves
      <3> DEFINE t == pick[p].trade
      <3>1. t \in Trades /\ pick[p].doc = trade[t] /\ Acts(p, t, trade[t].status)
        BY <1>1, <2>1 DEF Put, TypeOK, PickCurrent
      <3>2. trade' = [trade EXCEPT ![t] = Written(p, t, trade[t])]
        BY <2>1, <3>1 DEF Put, Write
      <3>3. CASE u = t
        <4>1. trade'[u] = Written(p, u, trade[u]) /\ trade[u] \in Documents
          BY <1>1, <3>2, <3>3 DEF TypeOK
        <4> QED
          BY <3>1, <3>3, <4>1, WrittenMoves DEF TradeMoves
      <3>4. CASE u # t
        BY <1>1, <3>2, <3>4 DEF TypeOK
      <3> QED
        BY <3>3, <3>4
    <2>2. ASSUME NEW t \in Trades, NEW s \in Statuses, UserMove(t, s)
          PROVE  trade'[u].status = trade[u].status
                 \/ <<trade[u].status, trade'[u].status>> \in TradeMoves
      <3>1. CASE u = t
        <4>1. trade'[u].status = s
          BY <1>1, <2>2, <3>1 DEF UserMove, TypeOK, Documents
        <4> QED
          BY <2>2, <3>1, <4>1 DEF UserMove, TradeMoves
      <3>2. CASE u # t
        BY <1>1, <2>2, <3>2 DEF UserMove, TypeOK
      <3> QED
        BY <3>1, <3>2
    <2>3. ASSUME NEW p \in Payments, Query(p) \/ Conflict(p) PROVE trade' = trade
      BY <2>3 DEF Query, Conflict
    <2>4. ASSUME NEW t \in Trades, UserEdit(t) PROVE trade' = trade
      BY <2>4 DEF UserEdit
    <2>5. UNCHANGED vars => trade' = trade
      BY DEF vars
    <2> QED
      BY <1>1, <2>1, <2>2, <2>3, <2>4, <2>5 DEF Next, Call
  <1>2. Init => TypeOK /\ PickCurrent
    BY TypeInit DEF Init, PickCurrent
  <1>3. TypeOK /\ PickCurrent /\ [Next]_vars => TypeOK' /\ PickCurrent'
    BY TypeStep, PickStep
  <1> QED
    BY <1>1, <1>2, <1>3, PTL DEF Spec, StatusMoves

-----------------------------------------------------------------------------
(* The order of the reports *)

\* What a payment leaves of a document, field by field.
Wrote(p, t, doc, new) ==
    /\ new \in Documents /\ new.refunded = doc.refunded
    /\ new.sent = IF Paid[p] THEN doc.sent + PayAmount[p] ELSE doc.sent
    /\ new.received = IF Paid[p] THEN doc.received
                      ELSE [doc.received EXCEPT ![Ident[p]] = @ + PayAmount[p]]
    /\ Received(new) \in Nat
    /\ Received(new) = IF Paid[p] THEN Received(doc) ELSE Received(doc) + PayAmount[p]
    /\ new.status = StatusAfterPayment(doc.status, new.sent, Received(new), Price[t])

LEMMA PaymentWrites ==
  ASSUME NEW p \in Payments, NEW t \in Trades, NEW doc \in Documents, ~RefundRow(p, t),
         NEW new, new = Written(p, t, doc)
  PROVE  Wrote(p, t, doc, new)
  <1>1. /\ Ident[p] \in Idents /\ PayAmount[p] \in Nat
        /\ doc.sent \in Nat /\ doc.received \in [Idents -> Nat]
    BY WireAssumption DEF Documents
  <1> DEFINE noted == IF Paid[p]
                      THEN [doc EXCEPT !.sent = @ + PayAmount[p]]
                      ELSE [doc EXCEPT !.received[Ident[p]] = @ + PayAmount[p]]
             st == StatusAfterPayment(noted.status, noted.sent, Received(noted), Price[t])
  <1>2. /\ noted \in Documents /\ noted.status = doc.status /\ noted.refunded = doc.refunded
        /\ noted.sent = IF Paid[p] THEN doc.sent + PayAmount[p] ELSE doc.sent
        /\ noted.received = IF Paid[p] THEN doc.received
                            ELSE [doc.received EXCEPT ![Ident[p]] = @ + PayAmount[p]]
    BY <1>1 DEF Documents
  <1>3. new = [noted EXCEPT !.status = st]
    BY DEF Written, AfterPayment
  <1> HIDE DEF noted
  <1>4. /\ new.status = st /\ new.sent = noted.sent /\ new.received = noted.received
        /\ new.refunded = noted.refunded
    BY <1>2, <1>3 DEF Documents
  <1>5. Received(new) = Received(noted)
    BY <1>4 DEF Received
  <1>6. /\ sumAmount(doc.received) \in Nat
        /\ sumAmount([doc.received EXCEPT ![Ident[p]] = @ + PayAmount[p]])
             = sumAmount(doc.received) + PayAmount[p]
    BY <1>1, ListGrows
  <1>7. Received(new) = IF Paid[p] THEN Received(doc) ELSE Received(doc) + PayAmount[p]
    BY <1>2, <1>4, <1>6 DEF Received
  <1>8. new \in Documents
    BY WrittenType
  <1>9. Received(doc) \in Nat
    BY <1>6 DEF Received
  <1> QED
    BY <1>1, <1>2, <1>4, <1>5, <1>7, <1>8, <1>9 DEF Wrote

\* A document is its fields.
LEMMA DocumentEqual ==
  ASSUME NEW x \in Documents, NEW y \in Documents, x.status = y.status, x.sent = y.sent,
         x.received = y.received, x.refunded = y.refunded
  PROVE  x = y
  BY DEF Documents

\* As long as neither of them fills it, a trade that is neither canceled nor filled says
\* the same of two payments in whatever order the banks report them.
THEOREM ReportsCommute ==
  ASSUME NEW p \in Payments, NEW q \in Payments, NEW t \in Trades, NEW doc \in Documents,
         ~RefundRow(p, t), ~RefundRow(q, t),
         Bookable(doc.status), doc.status # "canceled",
         Written(p, t, doc).status # "filled", Written(q, t, doc).status # "filled"
  PROVE  Written(q, t, Written(p, t, doc)) = Written(p, t, Written(q, t, doc))
  <1> DEFINE P == Written(p, t, doc)
             Q == Written(q, t, doc)
             PQ == Written(q, t, P)
             QP == Written(p, t, Q)
  <1>0. /\ PayAmount[p] \in Nat \ {0} /\ PayAmount[q] \in Nat \ {0}
        /\ Ident[p] \in Idents /\ Ident[q] \in Idents
        /\ doc.sent \in Nat /\ doc.received \in [Idents -> Nat]
    BY WireAssumption DEF Documents
  <1>1. Wrote(p, t, doc, P)
    BY PaymentWrites
  <1>2. Wrote(q, t, doc, Q)
    BY PaymentWrites
  <1>3. /\ P \in Documents /\ P.status # "filled"
        /\ Q \in Documents /\ Q.status # "filled"
    BY <1>1, <1>2 DEF Wrote
  <1> HIDE DEF P, Q
  <1>4. Wrote(q, t, P, PQ)
    BY <1>3, PaymentWrites
  <1>5. Wrote(p, t, Q, QP)
    BY <1>3, PaymentWrites
  <1> HIDE DEF PQ, QP
  <1> USE DEF Wrote
  <1>6. PQ.sent = QP.sent /\ PQ.refunded = QP.refunded /\ PQ.sent \in Nat
    BY <1>0, <1>1, <1>2, <1>4, <1>5
  <1>7. PQ.received = QP.received
    <2>1. CASE ~Paid[p] /\ ~Paid[q]
      BY <1>0, <1>1, <1>2, <1>4, <1>5, <2>1
    <2>2. CASE Paid[p] \/ Paid[q]
      BY <1>1, <1>2, <1>4, <1>5, <2>2
    <2> QED
      BY <2>1, <2>2
  <1>8. Received(PQ) = Received(QP)
    BY <1>7 DEF Received
  <1>9. PQ.sent > 0 \/ Received(PQ) > 0
    BY <1>0, <1>1, <1>4
  <1>10. PQ.status = QP.status
    <2>1. CASE doc.status = "attantion"
      <3>1. P.status = "attantion" /\ Q.status = "attantion"
        BY <1>1, <1>2, <1>3, <2>1 DEF StatusAfterPayment
      <3> QED
        BY <1>4, <1>5, <1>6, <1>8, <3>1
    <2>2. CASE doc.status \in {"open", "open_recv", "open_send"}
      <3>1. /\ P.status \in {"open", "open_recv", "open_send"}
            /\ Q.status \in {"open", "open_recv", "open_send"}
        BY <1>1, <1>2, <1>3, <2>2 DEF StatusAfterPayment
      <3> DEFINE st == IF PaidInFull(PQ.sent, Received(PQ), Price[t]) THEN "filled"
                       ELSE IF Received(PQ) > 0 THEN "open_send" ELSE "open_recv"
      <3>2. PQ.status = st
        BY <1>4, <1>9, <3>1 DEF StatusAfterPayment
      <3>3. QP.status = st
        BY <1>5, <1>6, <1>8, <1>9, <3>1 DEF StatusAfterPayment
      <3> QED
        BY <3>2, <3>3
    <2> QED
      BY <2>1, <2>2 DEF Bookable
  <1>11. PQ = QP
    BY <1>4, <1>5, <1>6, <1>7, <1>10, DocumentEqual
  <1> QED
    BY <1>11 DEF PQ, QP, P, Q

\* Of a canceled trade it does not: when the buyer's bank is the first to report the
\* price, the trade is left to its seller, when the seller's is, it is filled.
THEOREM LateReportsDoNotCommute ==
  ASSUME NEW p \in Payments, NEW q \in Payments, NEW t \in Trades, NEW doc \in Documents,
         BuyerRow(p, t), SellerRow(q, t), PayAmount[p] = Price[t], PayAmount[q] = Price[t],
         doc.status = "canceled", doc.sent = 0, Received(doc) = 0
  PROVE  /\ Written(q, t, Written(p, t, doc)).status = "attantion"
         /\ Written(p, t, Written(q, t, doc)).status = "filled"
  <1> DEFINE P == Written(p, t, doc)
             Q == Written(q, t, doc)
             PQ == Written(q, t, P)
             QP == Written(p, t, Q)
  <1>1. /\ Price[t] \in Nat \ {0} /\ Paid[p] /\ ~Paid[q]
        /\ ~RefundRow(p, t) /\ ~RefundRow(q, t)
        /\ doc.sent \in Nat
    BY WireAssumption DEF BuyerRow, SellerRow, RefundRow, Documents
  <1>2. Wrote(p, t, doc, P)
    BY <1>1, PaymentWrites
  <1>3. Wrote(q, t, doc, Q)
    BY <1>1, PaymentWrites
  <1>4. P \in Documents /\ Q \in Documents
    BY <1>2, <1>3 DEF Wrote
  <1> HIDE DEF P, Q
  <1>5. Wrote(q, t, P, PQ)
    BY <1>1, <1>4, PaymentWrites
  <1>6. Wrote(p, t, Q, QP)
    BY <1>1, <1>4, PaymentWrites
  <1> HIDE DEF PQ, QP
  <1> USE DEF Wrote
  <1>7. /\ P.sent = Price[t] /\ Received(P) = 0 /\ PQ.sent = Price[t] /\ Received(PQ) = Price[t]
        /\ Q.sent = 0 /\ Received(Q) = Price[t] /\ QP.sent = Price[t] /\ Received(QP) = Price[t]
    BY <1>1, <1>2, <1>3, <1>5, <1>6
  <1>8. P.status = "canceled" /\ Q.status = "attantion"
    BY <1>1, <1>2, <1>3, <1>7 DEF StatusAfterPayment
  <1>9. PaidInFull(Price[t], Price[t], Price[t])
    BY <1>1 DEF PaidInFull
  <1>10. PQ.status = "attantion" /\ QP.status = "filled"
    BY <1>1, <1>5, <1>6, <1>7, <1>8, <1>9 DEF StatusAfterPayment
  <1> QED
    BY <1>10 DEF PQ, QP, P, Q

-----------------------------------------------------------------------------
(* Why calls end *)

Ended == {p \in Payments : phase[p] = "done"}

\* A trade was written once for each edit and each call that ended, at most.
WritesCounted == \A t \in Trades : rev[t] <= 1 + edits + Cardinality(Ended)

\* A call that has to start over finds a document that was written since it read it.
ConflictsHaveCause ==
    [][\A p \in Payments : Conflict(p) => pick[p].rev < rev[pick[p].trade]]_vars

\* A call starts over only when somebody else has written the trade since; users write it
\* as often as they edit and calls once each, so what makes a call start over runs out.
THEOREM ConflictsRunOut == Spec => []WritesCounted /\ ConflictsHaveCause
  <1> DEFINE Inv == TypeOK /\ PickCurrent /\ WritesCounted
  <1>0. IsFiniteSet(Payments)
    BY WireAssumption
  <1>1. Init => Inv
    <2>1. ASSUME Init PROVE WritesCounted
      <3>1. Ended = {}
        BY <2>1 DEF Init, Ended
      <3>2. Cardinality(Ended) = 0
        BY <3>1, FS_EmptySet
      <3> QED
        BY <2>1, <3>2 DEF Init, WritesCounted
    <2> QED
      BY <2>1, TypeInit DEF Init, PickCurrent
  <1>2. ASSUME Inv, [Next]_vars PROVE WritesCounted'
    <2>1. /\ Ended \in SUBSET Payments /\ IsFiniteSet(Ended) /\ Cardinality(Ended) \in Nat
          /\ Ended' \in SUBSET Payments /\ IsFiniteSet(Ended') /\ Cardinality(Ended') \in Nat
      BY <1>0, FS_Subset, FS_CardinalityType DEF Ended
    <2>2. edits \in Nat /\ rev \in [Trades -> Nat]
      BY <1>2 DEF TypeOK
    <2>3. ASSUME NEW p \in Payments, Call(p) PROVE WritesCounted'
      <3>1. edits' = edits
        BY <2>3 DEF Call, Query, Put, Write, Conflict
      <3>2. CASE Put(p)
        <4>1. Ended' = Ended \cup {p} /\ p \notin Ended
          BY <1>2, <3>2 DEF Put, Write, Ended, TypeOK
        <4>2. Cardinality(Ended') = Cardinality(Ended) + 1
          BY <2>1, <4>1, FS_AddElement
        <4>3. \A t \in Trades : rev'[t] <= rev[t] + 1
          BY <2>2, <3>2 DEF Put, Write
        <4>4. rev' \in [Trades -> Nat]
          BY <1>2, TypeStep DEF TypeOK
        <4> QED
          BY <1>2, <2>1, <2>2, <3>1, <4>2, <4>3, <4>4 DEF WritesCounted
      <3>3. CASE Query(p) \/ Conflict(p)
        <4>1. Ended \subseteq Ended' /\ rev' = rev
          BY <1>2, <3>3 DEF Query, Conflict, Ended, TypeOK
        <4>2. Cardinality(Ended) <= Cardinality(Ended')
          BY <2>1, <4>1, FS_Subset
        <4> QED
          BY <1>2, <2>1, <2>2, <3>1, <4>1, <4>2 DEF WritesCounted
      <3> QED
        BY <2>3, <3>2, <3>3 DEF Call
    <2>4. ASSUME NEW t \in Trades, UserEdit(t) \/ \E s \in Statuses : UserMove(t, s)
          PROVE  WritesCounted'
      <3>1. /\ edits' = edits + 1 /\ Ended' = Ended
            /\ rev' = [rev EXCEPT ![t] = @ + 1]
        BY <2>4 DEF UserEdit, UserMove, Ended
      <3> QED
        BY <1>2, <2>1, <2>2, <3>1 DEF WritesCounted
    <2>5. CASE UNCHANGED vars
      BY <1>2, <2>5 DEF vars, WritesCounted, Ended
    <2> QED
      BY <1>2, <2>3, <2>4, <2>5 DEF Next
  <1>3. ASSUME Inv, NEW p \in Payments, Conflict(p) PROVE pick[p].rev < rev[pick[p].trade]
    <2>1. phase[p] = "put" /\ pick[p].rev # rev[pick[p].trade]
      BY <1>3 DEF Conflict
    <2>2. pick[p].trade \in Trades /\ pick[p].rev \in Nat /\ rev[pick[p].trade] \in Nat
      BY <1>3, <2>1 DEF TypeOK
    <2>3. pick[p].rev <= rev[pick[p].trade]
      BY <1>3, <2>1 DEF PickCurrent
    <2> QED
      BY <2>1, <2>2, <2>3
  <1>4. Inv /\ [Next]_vars => Inv'
    BY <1>2, TypeStep, PickStep
  <1>5. Inv => WritesCounted
    OBVIOUS
  <1>6. Inv => [\A p \in Payments : Conflict(p) => pick[p].rev < rev[pick[p].trade]]_vars
    BY <1>3
  <1> HIDE DEF Inv
  <1> QED
    BY <1>1, <1>4, <1>5, <1>6, PTL DEF Spec, ConflictsHaveCause
=============================================================================
