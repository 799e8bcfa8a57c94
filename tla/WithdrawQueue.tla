--------------------------- MODULE WithdrawQueue ---------------------------
(***************************************************************************)
(* The withdraw queue of the exchange: the views to_pay and by_invoice,    *)
(* getInvoiceToPay and markInvoice.  A service that pays withdrawals takes *)
(* the first invoice of the queue, pays it through Wallet::lnpay and marks *)
(* the result; users replace the invoices of their trades meanwhile.       *)
(***************************************************************************)
EXTENDS Integers, FiniteSets

CONSTANTS
    Trades,      \* filled trades; a view returns rows of one key in their order
    Invoices,
    None,        \* no invoice
    MaxEdits,    \* bound: edits by users
    MaxPays      \* bound: rounds of the paying service

ASSUME QueueAssumption ==
    /\ Trades \subseteq Nat \ {0}
    /\ None \notin Invoices
    /\ MaxPays \in Nat

VARIABLES
    invoice,     \* asset.invoice of each trade
    state,       \* its field state.withdraw, which the views read
    withdraw,    \* its field withdraw, which markInvoice writes
    rev,         \* its revision
    settled,     \* the wallet: what became of each invoice
    pc,          \* the next step of the service
    job,         \* the invoice it pays
    result,      \* PayResult
    pick,        \* markInvoice: the row it found
    marked,      \* observation: the marks, each with the invoice it was put on
    pays, edits

vars == <<invoice, state, withdraw, rev, settled, pc, job, result, pick,
          marked, pays, edits>>

Marks == [timestamp : Nat, filled : BOOLEAN, failed : BOOLEAN]
Unmarked == [timestamp |-> 0, filled |-> FALSE, failed |-> FALSE]
Results == {"paid", "retry", "failed"}
NoPick == [trade |-> 0, rev |-> 0, invoice |-> None, withdraw |-> Unmarked]

-----------------------------------------------------------------------------
(* The views *)

\* Trades with an invoice that is neither paid nor given up.
Waiting == {t \in Trades : /\ invoice[t] # None
                           /\ ~state[t].filled /\ ~state[t].failed}

\* to_pay orders them by the time of the last attempt.
Before(t, u) == \/ state[t].timestamp < state[u].timestamp
                \/ state[t].timestamp = state[u].timestamp /\ t <= u
Front(t) == t \in Waiting /\ \A u \in Waiting : Before(t, u)

\* by_invoice, the first row.
Holder(t, i) == /\ t \in Waiting /\ invoice[t] = i
                /\ \A u \in Waiting : invoice[u] = i => t <= u

-----------------------------------------------------------------------------
(* The users *)

SetInvoice(t, i) ==
    /\ edits < MaxEdits /\ edits' = edits + 1
    /\ invoice' = [invoice EXCEPT ![t] = i]
    /\ rev' = [rev EXCEPT ![t] = @ + 1]
    /\ UNCHANGED <<state, withdraw, settled, pc, job, result, pick, marked, pays>>

-----------------------------------------------------------------------------
(* The paying service *)

documents == <<invoice, state, withdraw, rev, edits>>

\* The first row; its amount, which the code reads from the wrong element and
\* always takes for 0, is left out.
GetInvoiceToPay ==
    /\ pc = "idle" /\ pays < MaxPays
    /\ \E t \in Trades : Front(t) /\ job' = invoice[t]
    /\ pays' = pays + 1 /\ pc' = "pay"
    /\ UNCHANGED <<documents, settled, result, pick, marked>>

\* Wallet::lnpay: of an invoice that was paid or has expired the wallet says so
\* again; of any other the answer may also be lost, with or without a payment.
\* The service takes an expired or invalid invoice for a failure.
LnPay ==
    /\ pc = "pay"
    /\ IF settled[job] # "open"
       THEN result' = settled[job] /\ UNCHANGED settled
       ELSE /\ result' \in Results
            /\ \E s \in IF result' = "retry" THEN {"open", "paid"} ELSE {result'} :
                  settled' = [settled EXCEPT ![job] = s]
    /\ pc' = "query"
    /\ UNCHANGED <<documents, job, pick, marked, pays>>

\* The first attempt and each one after a conflict: by_invoice.
MarkQuery ==
    /\ pc = "query"
    /\ IF \E t \in Trades : Holder(t, job)
       THEN /\ \E t \in Trades :
                 /\ Holder(t, job)
                 /\ pick' = [trade |-> t, rev |-> rev[t], invoice |-> invoice[t],
                             withdraw |-> withdraw[t]]
            /\ pc' = "put" /\ UNCHANGED <<job, result>>
       ELSE pc' = "idle" /\ job' = None /\ result' = "retry" /\ UNCHANGED pick
    /\ UNCHANGED <<documents, settled, marked, pays>>

\* Mutant: a failure is noted as a success.
MarkFailedAsFilled(mark) == [mark EXCEPT !.timestamp = pays,
                                         !.filled = @ \/ result # "retry"]

\* What markInvoice sets in the field withdraw; time is the count of rounds.
Mark(mark) == [mark EXCEPT !.timestamp = pays,
                           !.filled = @ \/ result = "paid",
                           !.failed = @ \/ result = "failed"]

Put ==
    /\ withdraw' = [withdraw EXCEPT ![pick.trade] = Mark(pick.withdraw)]
    /\ invoice' = [invoice EXCEPT ![pick.trade] = pick.invoice]
    /\ rev' = [rev EXCEPT ![pick.trade] = @ + 1]
    /\ marked' = marked \cup {[trade |-> pick.trade, paid |-> job, result |-> result,
                               held |-> invoice[pick.trade]]}
    /\ pc' = "idle" /\ job' = None /\ result' = "retry" /\ pick' = NoPick
    /\ UNCHANGED <<state, settled, pays, edits>>

\* Mutant: the document is written whatever its revision.
MarkPutForced == pc = "put" /\ Put

MarkPut == pc = "put" /\ rev[pick.trade] = pick.rev /\ Put

MarkConflict ==
    /\ pc = "put" /\ rev[pick.trade] # pick.rev
    /\ pc' = "query" /\ pick' = NoPick
    /\ UNCHANGED <<documents, settled, job, result, marked, pays>>

-----------------------------------------------------------------------------

Init ==
    /\ invoice \in [Trades -> Invoices \cup {None}]
    /\ state = [t \in Trades |-> Unmarked]
    /\ withdraw = [t \in Trades |-> Unmarked]
    /\ rev = [t \in Trades |-> 1]
    /\ settled = [i \in Invoices |-> "open"]
    /\ pc = "idle" /\ job = None /\ result = "retry" /\ pick = NoPick
    /\ marked = {} /\ pays = 0 /\ edits = 0

Service == GetInvoiceToPay \/ LnPay \/ MarkQuery \/ MarkPut \/ MarkConflict

Next == Service \/ \E t \in Trades, i \in Invoices : SetInvoice(t, i)

Spec == Init /\ [][Next]_vars

-----------------------------------------------------------------------------
(* Properties *)

\* The type invariant: a round that goes on has an invoice, and one that is
\* about to write has found a trade.
TypeOK ==
    /\ invoice \in [Trades -> Invoices \cup {None}]
    /\ state \in [Trades -> Marks] /\ withdraw \in [Trades -> Marks]
    /\ rev \in [Trades -> Nat]
    /\ settled \in [Invoices -> {"open", "paid", "failed"}]
    /\ pc \in {"idle", "pay", "query", "put"}
    /\ job \in Invoices \cup {None}
    /\ pc # "idle" => job # None
    /\ result \in Results
    /\ pick \in [trade : Trades \cup {0}, rev : Nat,
                 invoice : Invoices \cup {None}, withdraw : Marks]
    /\ pc = "put" => pick.trade \in Trades
    /\ marked \subseteq [trade : Trades, paid : Invoices, result : Results,
                        held : Invoices \cup {None}]
    /\ pays \in 0 .. MaxPays /\ edits \in Nat

\* What a trade says of its payment is true: a result is marked on a trade that
\* holds the very invoice that was paid, also when its user replaces it during the
\* payment; it is marked as paid only when an invoice it held was paid, and as
\* failed only when one was refused for good.
MarksAreTrue ==
    /\ \A m \in marked : m.held = m.paid
    /\ \A t \in Trades :
         /\ withdraw[t].filled =>
               \E m \in marked : m.trade = t /\ settled[m.held] = "paid"
         /\ withdraw[t].failed =>
               \E m \in marked : m.trade = t /\ settled[m.held] = "failed"

-----------------------------------------------------------------------------
(* What the documentation says and the code does not do *)

\* docs/transakce.md: once the coins are transferred, this is noted in the
\* field state.withdraw of the trade.
PaidIsNoted ==
    \A m \in marked : m.result = "paid" => state[m.trade].filled
=============================================================================
