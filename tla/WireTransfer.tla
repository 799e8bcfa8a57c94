---------------------------- MODULE WireTransfer ----------------------------
(***************************************************************************)
(* Exchange::processWireTransfer, called at the same time for payments of  *)
(* several bank connections while users write the same trades.  A call     *)
(* queries the open_trades view, works on the document of the first row    *)
(* that acts, and writes it with the revision it read; after a conflict it *)
(* starts again.                                                           *)
(***************************************************************************)
EXTENDS WireRules

CONSTANTS InitialStatuses,
          MaxEdits           \* bound: writes by users

ASSUME InitialAssumption == InitialStatuses \subseteq {"created", "open"}

VARIABLES
    trade,    \* the trade documents
    rev,      \* their revisions
    phase,    \* of each call: "query", "put", "done"
    pick,     \* of each call: the row it works on, as it was read
    booked,   \* observation: where the payment was booked
    finished, \* observation: trades the seller finished by hand
    edits

vars == <<trade, rev, phase, pick, booked, finished, edits>>

Fresh(st) == [status |-> st, sent |-> 0,
              received |-> [i \in Idents |-> 0], refunded |-> [i \in Idents |-> 0]]
NoPick == [trade |-> 0, rev |-> 0, doc |-> Fresh("created")]

Init ==
    /\ \E st \in [Trades -> InitialStatuses] : trade = [t \in Trades |-> Fresh(st[t])]
    /\ rev = [t \in Trades |-> 1]
    /\ phase = [p \in Payments |-> "query"]
    /\ pick = [p \in Payments |-> NoPick]
    /\ booked = [p \in Payments |-> NotBooked]
    /\ finished = {} /\ edits = 0

-----------------------------------------------------------------------------
(* The call *)

Rows(p) == {t \in Trades : Acts(p, t, trade[t].status)}

\* The query, with the documents, and the loop up to the first row that acts.
Query(p) ==
    /\ phase[p] = "query"
    /\ IF Rows(p) = {}
       THEN phase' = [phase EXCEPT ![p] = "done"] /\ UNCHANGED pick
       ELSE \E t \in Rows(p) :
              /\ \A u \in Rows(p) : t <= u
              /\ pick' = [pick EXCEPT ![p] =
                            [trade |-> t, rev |-> rev[t], doc |-> trade[t]]]
              /\ phase' = [phase EXCEPT ![p] = "put"]
    /\ UNCHANGED <<trade, rev, booked, finished, edits>>

Write(p) ==
    LET t == pick[p].trade
        doc == pick[p].doc
    IN  /\ trade' = [trade EXCEPT ![t] = Written(p, t, doc)]
        /\ rev' = [rev EXCEPT ![t] = @ + 1]
        /\ booked' = [booked EXCEPT ![p] = [trade |-> t, as |-> Effect(p, t, doc)]]
        /\ phase' = [phase EXCEPT ![p] = "done"]
        /\ pick' = [pick EXCEPT ![p] = NoPick]
        /\ UNCHANGED <<finished, edits>>

\* Mutant: the write is forced, whatever the revision.
PutForced(p) == phase[p] = "put" /\ Write(p)

Put(p) ==
    /\ phase[p] = "put" /\ pick[p].rev = rev[pick[p].trade]
    /\ Write(p)

\* Mutant: after a conflict the call gives up.
ConflictGivesUp(p) ==
    /\ phase[p] = "put" /\ pick[p].rev # rev[pick[p].trade]
    /\ phase' = [phase EXCEPT ![p] = "done"]
    /\ pick' = [pick EXCEPT ![p] = NoPick]
    /\ UNCHANGED <<trade, rev, booked, finished, edits>>

\* Mutant: after a conflict the write is tried again as it is.
ConflictTriesAgain(p) ==
    /\ phase[p] = "put" /\ pick[p].rev # rev[pick[p].trade]
    /\ UNCHANGED vars

\* Mutant: after a conflict the document is dropped but not read again.
ConflictForgets(p) ==
    /\ phase[p] = "put" /\ pick[p].rev # rev[pick[p].trade]
    /\ pick' = [pick EXCEPT ![p] = NoPick]
    /\ UNCHANGED <<trade, rev, phase, booked, finished, edits>>

Conflict(p) ==
    /\ phase[p] = "put" /\ pick[p].rev # rev[pick[p].trade]
    /\ phase' = [phase EXCEPT ![p] = "query"]
    /\ pick' = [pick EXCEPT ![p] = NoPick]
    /\ UNCHANGED <<trade, rev, booked, finished, edits>>

-----------------------------------------------------------------------------
(* The users *)

UserMove(t, s) ==
    /\ edits < MaxEdits /\ edits' = edits + 1
    /\ <<trade[t].status, s>> \in UserMoves
    /\ trade' = [trade EXCEPT ![t].status = s]
    /\ rev' = [rev EXCEPT ![t] = @ + 1]
    /\ finished' = IF s = "filled" THEN finished \cup {t} ELSE finished
    /\ UNCHANGED <<phase, pick, booked>>

UserEdit(t) ==
    /\ edits < MaxEdits /\ edits' = edits + 1
    /\ rev' = [rev EXCEPT ![t] = @ + 1]
    /\ UNCHANGED <<trade, phase, pick, booked, finished>>

Call(p) == Query(p) \/ Put(p) \/ Conflict(p)

Next == \/ \E p \in Payments : Call(p)
        \/ \E t \in Trades : UserEdit(t) \/ \E s \in Statuses : UserMove(t, s)

Spec == Init /\ [][Next]_vars
\* A call is not abandoned by its thread.
FairSpec == Spec /\ \A p \in Payments : WF_vars(Call(p))

-----------------------------------------------------------------------------
(* Properties *)

\* The type invariant: documents keep their shape, and a call that is about to
\* write has picked a trade.
TypeOK ==
    /\ trade \in [Trades -> Documents] /\ rev \in [Trades -> Nat]
    /\ phase \in [Payments -> {"query", "put", "done"}]
    /\ pick \in [Payments -> [trade : Trades \cup {0}, rev : Nat, doc : Documents]]
    /\ \A p \in Payments : phase[p] = "put" => pick[p].trade \in Trades
    /\ booked \in [Payments -> Bookings]
    /\ finished \subseteq Trades /\ edits \in Nat

\* Concurrent calls overwrite no booking and make none twice: the lists of every
\* trade hold exactly the payments whose calls booked them there.  A call may
\* also end without a booking, which is none of this property's concern: no row
\* acted on its payment, or a refund row took it that owed its account nothing.
BookingsListed ==
    \A t \in Trades :
        /\ trade[t].sent = BookedSum(booked, t, "send")
        /\ Received(trade[t]) = BookedSum(booked, t, "receive")
        /\ sumAmount(trade[t].refunded) = BookedSum(booked, t, "refund")

\* A trade is filled, and its bitcoins leave, only when both banks confirmed
\* the price, unless its seller finished it by hand.
FilledWasPaid ==
    \A t \in Trades \ finished :
        trade[t].status = "filled" =>
            PaidInFull(trade[t].sent, Received(trade[t]), Price[t])

\* The seller of a canceled trade, whose balance is free again, has paid back
\* what every account is booked to have paid him, also when a payment arrives
\* after the cancellation.  What the buyer reports as sent may stand there.
CanceledOwesNothing ==
    \A t \in Trades : trade[t].status = "canceled" => Owed(trade[t]) = {}

\* The lists of the trades are the bookings the calls made, each of them once, and
\* a canceled trade has refunded all that its seller is booked to have received.
BooksAgree == BookingsListed /\ CanceledOwesNothing

\* Every call ends in spite of conflicts, once users stop writing.
CallsEnd == \A p \in Payments : <>(phase[p] = "done")

\* The concurrent calls take effect one at a time.
S == INSTANCE Settlement WITH left <- {p \in Payments : phase[p] # "done"}
Linearizable == S!Spec

\* While the revision it read is current, a call holds the current document,
\* on which it still acts.
PickCurrent ==
    \A p \in Payments :
        LET t == pick[p].trade
        IN  phase[p] = "put" =>
              /\ pick[p].rev <= rev[t]
              /\ pick[p].rev = rev[t] =>
                    pick[p].doc = trade[t] /\ Acts(p, t, trade[t].status)

=============================================================================
