---------------------------- MODULE TradeStatus ----------------------------
(***************************************************************************)
(* What the exchange's code knows of the status of a trade ("ex."          *)
(* document): which statuses reserve the seller's balance, which appear in *)
(* the open_trades view, what a bank payment and a user may turn each of   *)
(* them into.  Pure definitions, shared by the modules of the exchange.    *)
(***************************************************************************)
EXTENDS Naturals

\* A trade document without a status: it waits for the monitor's decision.
Undecided == "undecided"

Statuses == {"created", "open", "open_recv", "open_send",
             "filled", "attantion", "refund", "canceled"}

\* The states of a trade document; "absent" before it is posted.
TradeStates == {"absent", Undecided, "deleted"} \cup Statuses

\* order_balance counts every trade that has a status other than canceled.
Blocking(st) == st \in Statuses \ {"canceled"}

\* The variable cm of the open_trades view: the trades payments are matched
\* against.
Matched(st) == st \in {"open", "open_recv", "open_send",
                       "attantion", "refund", "canceled"}

InOpenTradesView(st) == Matched(st) \/ st = "created"

-----------------------------------------------------------------------------
(* Bank payments *)

\* Both banks report the same amount, at least the price and at most one
\* per mille above it.
PaidInFull(sent, recv, need) ==
    /\ sent = recv
    /\ need <= recv
    /\ recv <= need + (need \div 1000)

\* Mutant: the report of the seller's bank is enough.
StatusAfterReceipt(st, sent, recv, need) ==
    CASE st \in {"open", "open_recv", "open_send"} ->
            IF PaidInFull(recv, recv, need) THEN "filled"
            ELSE IF recv > 0 THEN "open_send"
            ELSE IF sent > 0 THEN "open_recv" ELSE st
      [] st = "attantion" -> IF PaidInFull(recv, recv, need) THEN "filled" ELSE st
      [] st = "canceled" -> IF recv > 0 THEN "attantion" ELSE st
      [] OTHER -> st

\* The status a matched payment of the buyer or the seller leaves, given the
\* amounts each bank has reported so far.
StatusAfterPayment(st, sent, recv, need) ==
    CASE st \in {"open", "open_recv", "open_send"} ->
            IF PaidInFull(sent, recv, need) THEN "filled"
            ELSE IF recv > 0 THEN "open_send"
            ELSE IF sent > 0 THEN "open_recv" ELSE st
      [] st = "attantion" -> IF PaidInFull(sent, recv, need) THEN "filled" ELSE st
      [] st = "canceled" -> IF recv > 0 THEN "attantion" ELSE st
      [] OTHER -> st

\* A payment only books against these; for others the search goes on.
Bookable(st) == st \in {"open", "open_recv", "open_send", "attantion", "canceled"}

\* Every change of status a bank payment can make.
WireMoves ==
         ({"open", "open_recv", "open_send"} \X {"open_recv", "open_send", "filled"})
    \cup {<<"attantion", "filled">>, <<"canceled", "attantion">>}
    \cup ({"open", "open_recv", "open_send", "attantion", "refund", "canceled"}
             \X {"canceled"})

-----------------------------------------------------------------------------
(* Users *)

\* What buyers and sellers do through the web application, which this
\* repository does not contain: the buyer confirms or gives up a created
\* trade, the seller finishes or refunds one that needs attention.
UserMoves == {<<"created", "open">>, <<"created", "canceled">>,
              <<"attantion", "filled">>, <<"attantion", "refund">>}

TradeMoves == WireMoves \cup UserMoves
=============================================================================
