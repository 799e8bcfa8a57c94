-------------------------- MODULE MCWireTransfer --------------------------
(***************************************************************************)
(* Small instances of WireTransfer.  The seller s of trade 1 buys in trade *)
(* 2; account a pays trade 1, from which the seller also pays back and     *)
(* buys.                                                                   *)
(***************************************************************************)
EXTENDS WireTransfer

Buyers == [t \in Trades |-> IF t = 1 THEN "b" ELSE "s"]
Sellers == [t \in Trades |-> IF t = 1 THEN "s" ELSE "z"]
Prices == [t \in Trades |-> IF t = 1 THEN 1000 ELSE 500]

\* 1: b pays; 2, 3: s receives; 4: s pays back; 5: s buys.
Sends == [p \in Payments |-> p \notin {2, 3}]
Connections == [p \in Payments |-> IF p = 1 THEN "b" ELSE "s"]
Accounts == [p \in Payments |-> IF p = 3 THEN "a2" ELSE IF p = 5 THEN "z" ELSE "a1"]
Targets == [p \in Payments |-> IF p = 5 THEN Trades \cap {2} ELSE {1}]

\* The seller receives in two parts, the second from another account.
InParts == [p \in Payments |-> CASE p = 2 -> 600 [] p = 3 -> 400 [] p = 4 -> 600
                                 [] OTHER -> 1000]
=============================================================================
