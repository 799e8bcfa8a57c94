------------------------- MODULE MCExchangeMonitor -------------------------
(***************************************************************************)
(* Small instances of ExchangeMonitor for TLC.                             *)
(***************************************************************************)
EXTENDS ExchangeMonitor

CONSTANTS o1, o2, d1, d2, t1, t2, s1

\* One order with one deposit: each new trade fits alone, not both.
OneOrder == [d \in Entries |-> o1]
\* Two orders, each with a deposit and a trade.
TwoOrders == [d \in Entries |-> IF d \in {t2, d2} THEN o2 ELSE o1]

Amounts == [d \in Entries |-> CASE d \in Deposits -> 12
                                [] d = t1 -> 6 [] d = t2 -> 5 [] OTHER -> 3]
Fees == [t \in Trades |-> 1]
Withdraws == [t \in Trades |-> t = t2]
=============================================================================
