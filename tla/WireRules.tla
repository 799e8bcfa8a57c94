----------------------------- MODULE WireRules -----------------------------
(***************************************************************************)
(* What Exchange::processWireTransfer does to one trade document with one  *)
(* payment a bank connection reports: which rows of the open_trades view   *)
(* act on it, and what is written.  Pure definitions, used by Settlement   *)
(* and by WireTransfer.                                                    *)
(***************************************************************************)
EXTENDS Integers, FiniteSets, Functions, TradeStatus

CONSTANTS
    Trades,        \* document ids; the view returns its rows in their order
    Payments,      \* calls of processWireTransfer
    Idents,        \* bank accounts payments come from
    Buyer, Seller, \* the bank connections of a trade
    Price,         \* wire.amount of a trade, in cents
    Paid,          \* wident.paid: the connection sent the money
    Connection,    \* wident.connection
    Ident,         \* wident.ident: the account at the other end
    PayAmount,     \* wident.amount
    Identifies     \* the trades whose reference, symbols and other side fit

ASSUME WireAssumption ==
    /\ Trades \subseteq Nat \ {0}
    /\ IsFiniteSet(Payments) /\ IsFiniteSet(Idents)
    /\ Price \in [Trades -> Nat]
    /\ \A t \in Trades : Buyer[t] # Seller[t]
    /\ Paid \in [Payments -> BOOLEAN]
    /\ Ident \in [Payments -> Idents]
    /\ PayAmount \in [Payments -> Nat \ {0}]
    /\ Identifies \in [Payments -> SUBSET Trades]

\* A trade document: its status and the sums of its lists of payments, those
\* the seller received and refunded told apart by account.
Documents == [status : Statuses, sent : Nat,
              received : [Idents -> Nat], refunded : [Idents -> Nat]]

sumAmount(list) == SumFunctionOnSet(list, Idents)
Received(doc) == sumAmount(doc.received)

-----------------------------------------------------------------------------
(* The rows *)

RefundRow(p, t) == Paid[p] /\ Seller[t] = Connection[p]
BuyerRow(p, t)  == Paid[p] /\ Buyer[t] = Connection[p]
SellerRow(p, t) == ~Paid[p] /\ Seller[t] = Connection[p]

\* A row the loop acts on: it does not continue with the next one.  A refund
\* row acts whatever the payment is for.
Acts(p, t, st) ==
    /\ Matched(st)
    /\ \/ RefundRow(p, t)
       \/ /\ BuyerRow(p, t) \/ SellerRow(p, t)
          /\ t \in Identifies[p]
          /\ Bookable(st)

-----------------------------------------------------------------------------
(* The writes *)

\* The accounts that have not got all their money back.
Owed(doc) == {i \in Idents : doc.received[i] > doc.refunded[i]}

\* Mutant: it suffices that the account just paid is owed nothing.
AfterRefundOfOne(p, doc) ==
    LET noted == IF Ident[p] \in Owed(doc)
                 THEN [doc EXCEPT !.refunded[Ident[p]] = @ + PayAmount[p]]
                 ELSE doc
    IN  IF Ident[p] \notin Owed(noted) THEN [noted EXCEPT !.status = "canceled"] ELSE noted

\* An outgoing payment of the seller is noted when it pays back an account;
\* once nothing is owed, whether noted or not, the trade is canceled.
AfterRefund(p, doc) ==
    LET noted == IF Ident[p] \in Owed(doc)
                 THEN [doc EXCEPT !.refunded[Ident[p]] = @ + PayAmount[p]]
                 ELSE doc
    IN  IF Owed(noted) = {} THEN [noted EXCEPT !.status = "canceled"] ELSE noted

\* A payment of the buyer, or one the seller received, joins its list; then
\* the sums decide the status.
AfterPayment(p, t, doc) ==
    LET noted == IF Paid[p]
                 THEN [doc EXCEPT !.sent = @ + PayAmount[p]]
                 ELSE [doc EXCEPT !.received[Ident[p]] = @ + PayAmount[p]]
    IN  [noted EXCEPT !.status =
            StatusAfterPayment(@, noted.sent, Received(noted), Price[t])]

Written(p, t, doc) ==
    IF RefundRow(p, t) THEN AfterRefund(p, doc) ELSE AfterPayment(p, t, doc)

\* The list a payment joins.
Effect(p, t, doc) ==
    IF RefundRow(p, t)
    THEN IF Ident[p] \in Owed(doc) THEN "refund" ELSE "nothing"
    ELSE IF Paid[p] THEN "send" ELSE "receive"

NotBooked == [trade |-> 0, as |-> "nothing"]
Bookings == [trade : Trades \cup {0}, as : {"send", "receive", "refund", "nothing"}]

\* The sum of the payments booked to a list of a trade.
BookedSum(booked, t, list) ==
    SumFunctionOnSet(PayAmount, {p \in Payments : booked[p] = [trade |-> t, as |-> list]})
=============================================================================
