--------------------------- MODULE WalletService ---------------------------
(***************************************************************************)
(* The wallet service.  The change thread gives new deposits an invoice    *)
(* and reads the invoices of users' buy orders (processWalletRequest).     *)
(* The scheduler thread asks the wallet every two seconds which of its     *)
(* requests were paid or have expired, settles their deposits and removes  *)
(* them (WalletControl::checkState, onInvoiceChange).  Users write the     *)
(* same documents; the index of the invoices view may lag behind them.     *)
(***************************************************************************)
EXTENDS Integers, FiniteSets

CONSTANTS
    Deposits,    \* documents "dp."
    Buys,        \* documents "ub.", the buy orders of users
    Requests,    \* payment requests of the wallet
    None,        \* no request
    PingPeriod,  \* checks between two reports of the balance: 50
    MaxEdits,    \* bound: edits by users
    MaxFaults    \* bound: calls of the wallet or the database that fail

Docs == Deposits \cup Buys

ASSUME WalletAssumption ==
    /\ Deposits \cap Buys = {}
    /\ None \notin Docs \cup Requests
    /\ PingPeriod \in Nat /\ MaxEdits \in Nat

VARIABLES
    \* the database
    doc,         \* deposits: [state, req, filled]
    buy,         \* buy orders: [invoice, parsed], the version of the invoice
                 \* and the one its hash and amount were taken from, 0: none
    rev,         \* revisions of all documents, 0: absent
    index,       \* the rows of the invoices view, as last indexed
    \* the wallet
    request,     \* the state of each request
    depositOf,   \* the deposit a request was created for
    \* the change thread
    cpc, ev,     \* its next step, and the event it handles
    newReq,      \* the request it created
    seen,        \* the last revision of each document delivered to it
    \* the scheduler thread
    spc,         \* its next step
    rows,        \* the rest of the list of requests
    row,         \* the request it settles
    pick,        \* the deposit it found: [id, rev, doc]
    pingCounter,
    lastReport,  \* observation: the last call of the monitor callback
    \* observation
    everPaid,    \* requests that were paid
    edits, faults

change == <<cpc, ev, newReq, seen>>
sched == <<spc, rows, row, pick, pingCounter, lastReport>>
database == <<doc, buy, rev, index>>
wallet == <<request, depositOf, everPaid>>
vars == <<database, wallet, change, sched, edits, faults>>

DepositDocs == [state : {"absent", "live", "deleted"},
                req : Requests \cup {None}, filled : BOOLEAN]
Absent == [state |-> "absent", req |-> None, filled |-> FALSE]
NoBuy == [invoice |-> 0, parsed |-> 0]
NoEvent == [id |-> None, rev |-> 0, doc |-> Absent, buy |-> NoBuy]
NoPick == [id |-> None, rev |-> 0, doc |-> Absent]

\* A write of a deposit.
StoreDeposit(d, content) ==
    /\ doc' = [doc EXCEPT ![d] = content]
    /\ rev' = [rev EXCEPT ![d] = @ + 1]
    /\ UNCHANGED <<buy, index>>

\* A write of a buy order.
StoreBuy(u, content) ==
    /\ buy' = [buy EXCEPT ![u] = content]
    /\ rev' = [rev EXCEPT ![u] = @ + 1]
    /\ UNCHANGED <<doc, index>>

\* The invoices view: the deposits that wait for their payment.
Waiting == {[id |-> d, req |-> doc[d].req] :
              d \in {x \in Deposits : /\ doc[x].state = "live" /\ ~doc[x].filled
                                      /\ doc[x].req # None}}

Fault == faults < MaxFaults /\ faults' = faults + 1

-----------------------------------------------------------------------------
(* Users, payers and time *)

PostDeposit(d) ==
    /\ doc[d].state = "absent"
    /\ StoreDeposit(d, [Absent EXCEPT !.state = "live"])
    /\ UNCHANGED <<wallet, change, sched, edits, faults>>

\* An edit that leaves alone what the service reads.
EditDeposit(d) ==
    /\ doc[d].state = "live" /\ edits < MaxEdits /\ edits' = edits + 1
    /\ StoreDeposit(d, doc[d])
    /\ UNCHANGED <<wallet, change, sched, faults>>

\* A user puts the first invoice into a buy order, or a new one.
SetInvoice(u) ==
    /\ IF buy[u].invoice = 0 THEN UNCHANGED edits
       ELSE edits < MaxEdits /\ edits' = edits + 1
    /\ StoreBuy(u, [buy[u] EXCEPT !.invoice = @ + 1])
    /\ UNCHANGED <<wallet, change, sched, faults>>

\* Only an invoice that a deposit shows to its user is paid.
Pay(r) ==
    /\ request[r] = "pending"
    /\ doc[depositOf[r]].req = r /\ doc[depositOf[r]].state = "live"
    /\ request' = [request EXCEPT ![r] = "paid"]
    /\ everPaid' = everPaid \cup {r}
    /\ UNCHANGED <<database, depositOf, change, sched, edits, faults>>

Expire(r) ==
    /\ request[r] = "pending"
    /\ request' = [request EXCEPT ![r] = "expired"]
    /\ UNCHANGED <<database, depositOf, everPaid, change, sched, edits, faults>>

IndexUpdate ==
    /\ index' = Waiting
    /\ UNCHANGED <<doc, buy, rev, wallet, change, sched, edits, faults>>

-----------------------------------------------------------------------------
(* processWalletRequest *)

changeRest == <<wallet, sched, edits, faults>>

\* Mutant: a deposit gets an invoice whether it has one or not.
AlwaysWantsInvoice(content) == ~content.filled

\* Mutant: the test of the flag is inverted.
WantsInvoiceFilled(content) == content.req = None /\ content.filled

\* A deposit wants an invoice; that it may be the tombstone of a deleted one
\* is not looked at.
WantsInvoice(content) == content.req = None /\ ~content.filled

\* Mutant: only the first invoice of a buy order is read.
WantsParsingOnce(content) == content.invoice > 0 /\ content.parsed = 0

\* The hash of the invoice differs from the one noted.
WantsParsing(content) == content.invoice > 0 /\ content.invoice # content.parsed

\* The next event, with the document as it is now.
Deliver(x) ==
    /\ cpc = "wait" /\ seen[x] < rev[x]
    /\ seen' = [seen EXCEPT ![x] = rev[x]]
    /\ LET content == IF x \in Deposits THEN doc[x] ELSE Absent
           order == IF x \in Buys THEN buy[x] ELSE NoBuy
       IN  IF IF x \in Deposits THEN WantsInvoice(content) ELSE WantsParsing(order)
           THEN /\ ev' = [id |-> x, rev |-> rev[x], doc |-> content, buy |-> order]
                /\ cpc' = IF x \in Deposits THEN "create" ELSE "parse"
           ELSE UNCHANGED <<ev, cpc>>
    /\ UNCHANGED <<database, newReq, changeRest>>

\* The wallet creates a lightning request, with some new id.
CreateInvoice(r) ==
    /\ cpc = "create" /\ request[r] = "unused"
    /\ r = CHOOSE x \in Requests : request[x] = "unused"
    /\ request' = [request EXCEPT ![r] = "pending"]
    /\ depositOf' = [depositOf EXCEPT ![r] = ev.id]
    /\ newReq' = r /\ cpc' = "put"
    /\ UNCHANGED <<database, everPaid, ev, seen, sched, edits, faults>>

EndOfEvent == cpc' = "wait" /\ ev' = NoEvent /\ newReq' = None /\ UNCHANGED seen

PutInvoice ==
    /\ cpc = "put" /\ rev[ev.id] = ev.rev
    /\ StoreDeposit(ev.id, [ev.doc EXCEPT !.req = newReq])
    /\ EndOfEvent /\ UNCHANGED changeRest

\* The wallet decodes the invoice of a buy order.
ParseInvoice ==
    /\ cpc = "parse" /\ cpc' = "putParsed"
    /\ UNCHANGED <<database, ev, newReq, seen, changeRest>>

\* Mutant: the document is written whatever its revision.
PutParsedForced ==
    /\ cpc = "putParsed"
    /\ StoreBuy(ev.id, [ev.buy EXCEPT !.parsed = ev.buy.invoice])
    /\ EndOfEvent /\ UNCHANGED changeRest

PutParsed ==
    /\ cpc = "putParsed" /\ rev[ev.id] = ev.rev
    /\ StoreBuy(ev.id, [ev.buy EXCEPT !.parsed = ev.buy.invoice])
    /\ EndOfEvent /\ UNCHANGED changeRest

\* A conflict is logged and forgotten.
PutConflict ==
    /\ cpc \in {"put", "putParsed"} /\ rev[ev.id] # ev.rev
    /\ EndOfEvent /\ UNCHANGED <<database, changeRest>>

\* So is every other exception.
ChangeFails ==
    /\ cpc # "wait" /\ Fault
    /\ EndOfEvent /\ UNCHANGED <<database, wallet, sched, edits>>

-----------------------------------------------------------------------------
(* checkState and onInvoiceChange *)

schedRest == <<change, edits, faults>>

\* Mutant: a failure forgets what was reported last.
ReportDownAgain ==
    /\ spc' = "idle" /\ rows' = {} /\ row' = None /\ pick' = NoPick
    /\ IF pingCounter >= 0
       THEN lastReport' = "down" /\ pingCounter' = 0
       ELSE UNCHANGED <<lastReport, pingCounter>>

\* The wallet does not answer: reported once, until it answers again.
ReportDown ==
    /\ spc' = "idle" /\ rows' = {} /\ row' = None /\ pick' = NoPick
    /\ IF pingCounter >= 0
       THEN lastReport' = "down" /\ pingCounter' = 0 - 1
       ELSE UNCHANGED <<lastReport, pingCounter>>

\* Mutant: only expired requests are looked for.
ListExpired ==
    /\ spc = "idle"
    /\ rows' = {r \in Requests : request[r] = "expired"}
    /\ spc' = "rows"
    /\ UNCHANGED <<database, wallet, row, pick, pingCounter, lastReport, schedRest>>

ListRequests ==
    /\ spc = "idle"
    /\ rows' = {r \in Requests : request[r] \in {"paid", "expired"}}
    /\ spc' = "rows"
    /\ UNCHANGED <<database, wallet, row, pick, pingCounter, lastReport, schedRest>>

ListFails ==
    /\ spc = "idle" /\ Fault /\ ReportDown
    /\ UNCHANGED <<database, wallet, change, edits>>

NextRow(r) ==
    /\ spc = "rows" /\ r \in rows
    /\ row' = r /\ rows' = rows \ {r} /\ spc' = "lookup"
    /\ UNCHANGED <<database, wallet, pick, pingCounter, lastReport, schedRest>>

\* The exception of a row is logged; the next row follows.
SkipRow == spc' = "rows" /\ row' = None /\ pick' = NoPick
           /\ UNCHANGED <<rows, pingCounter, lastReport>>

RowPaid == request[row] = "paid"

\* The view, by the id of the request, with its document as it is now.
\* Without a row an expired request may go and a paid one is kept; a row
\* whose document is gone ends in an exception.
Lookup ==
    /\ spc = "lookup"
    /\ LET found == {x \in index : x.req = row} IN
         IF found = {}
         THEN IF RowPaid THEN SkipRow
              ELSE spc' = "remove" /\ UNCHANGED <<rows, row, pick, pingCounter, lastReport>>
         ELSE \E x \in found :
                IF doc[x.id].state = "live"
                THEN /\ pick' = [id |-> x.id, rev |-> rev[x.id], doc |-> doc[x.id]]
                     /\ spc' = "put"
                     /\ UNCHANGED <<rows, row, pingCounter, lastReport>>
                ELSE SkipRow
    /\ UNCHANGED <<database, wallet, schedRest>>

\* Mutant: paid and expired are mixed up.
SettledSwapped(content) ==
    IF RowPaid THEN [content EXCEPT !.state = "deleted"]
    ELSE [content EXCEPT !.filled = TRUE]

\* The tombstone keeps none of the fields.
Settled(content) ==
    IF RowPaid THEN [content EXCEPT !.filled = TRUE]
    ELSE [Absent EXCEPT !.state = "deleted"]

PutStatus ==
    /\ spc = "put" /\ rev[pick.id] = pick.rev
    /\ StoreDeposit(pick.id, Settled(pick.doc))
    /\ spc' = "remove" /\ pick' = NoPick
    /\ UNCHANGED <<rows, row, pingCounter, lastReport, wallet, schedRest>>

\* Mutant: after a conflict the request is removed all the same.
StatusConflictRemoves ==
    /\ spc = "put" /\ rev[pick.id] # pick.rev
    /\ spc' = "remove" /\ pick' = NoPick
    /\ UNCHANGED <<rows, row, pingCounter, lastReport, database, wallet, schedRest>>

StatusConflict ==
    /\ spc = "put" /\ rev[pick.id] # pick.rev
    /\ SkipRow /\ UNCHANGED <<database, wallet, schedRest>>

RemoveRequest ==
    /\ spc = "remove"
    /\ request' = [request EXCEPT ![row] = "removed"]
    /\ SkipRow /\ UNCHANGED <<database, depositOf, everPaid, schedRest>>

RowFails ==
    /\ spc \in {"lookup", "put", "remove"} /\ Fault
    /\ SkipRow /\ UNCHANGED <<database, wallet, change, edits>>

\* Mutant: the counter is not set again.
PingWithoutReset ==
    /\ spc = "rows" /\ rows = {}
    /\ pingCounter' = pingCounter - 1
    /\ lastReport' = IF pingCounter <= 0 THEN "up" ELSE lastReport
    /\ spc' = "idle"
    /\ UNCHANGED <<rows, row, pick, database, wallet, schedRest>>

\* After the last row the balance is asked for and reported now and then.
Ping ==
    /\ spc = "rows" /\ rows = {}
    /\ IF pingCounter <= 0
       THEN pingCounter' = PingPeriod /\ lastReport' = "up"
       ELSE pingCounter' = pingCounter - 1 /\ UNCHANGED lastReport
    /\ spc' = "idle"
    /\ UNCHANGED <<rows, row, pick, database, wallet, schedRest>>

PingFails ==
    /\ spc = "rows" /\ rows = {} /\ pingCounter <= 0 /\ Fault
    /\ ReportDown
    /\ UNCHANGED <<database, wallet, change, edits>>

-----------------------------------------------------------------------------

Init ==
    /\ doc = [d \in Deposits |-> Absent] /\ buy = [u \in Buys |-> NoBuy]
    /\ rev = [x \in Docs |-> 0] /\ seen = [x \in Docs |-> 0]
    /\ index = {}
    /\ request = [r \in Requests |-> "unused"]
    /\ depositOf = [r \in Requests |-> None]
    /\ cpc = "wait" /\ ev = NoEvent /\ newReq = None
    /\ spc = "idle" /\ rows = {} /\ row = None /\ pick = NoPick
    /\ pingCounter = 0 /\ lastReport = "none"
    /\ everPaid = {} /\ edits = 0 /\ faults = 0

Environment ==
    \/ \E d \in Deposits : PostDeposit(d) \/ EditDeposit(d)
    \/ \E u \in Buys : SetInvoice(u)
    \/ \E r \in Requests : Pay(r) \/ Expire(r)

ChangeThread ==
    \/ \E x \in Docs : Deliver(x)
    \/ \E r \in Requests : CreateInvoice(r)
    \/ PutInvoice \/ ParseInvoice \/ PutParsed \/ PutConflict

SchedulerThread ==
    \/ ListRequests \/ (\E r \in rows : NextRow(r)) \/ Lookup
    \/ PutStatus \/ StatusConflict \/ RemoveRequest \/ Ping

Faults == ChangeFails \/ ListFails \/ RowFails \/ PingFails

Next == Environment \/ IndexUpdate \/ ChangeThread \/ SchedulerThread \/ Faults

Spec == Init /\ [][Next]_vars

\* Both threads run, and the index catches up between two writes.
FairSpec == /\ Spec
            /\ WF_vars(ChangeThread) /\ WF_vars(SchedulerThread)
            /\ WF_vars(IndexUpdate)

-----------------------------------------------------------------------------
(* Properties *)

\* The type invariant: documents, requests and the locals of both threads keep
\* their shape, a thread that is about to write knows what, and a wallet counts as
\* silent from the report of its silence to that of its return.
TypeOK ==
    /\ doc \in [Deposits -> DepositDocs]
    /\ buy \in [Buys -> [invoice : Nat, parsed : Nat]]
    /\ rev \in [Docs -> Nat] /\ seen \in [Docs -> Nat]
    /\ index \subseteq [id : Deposits, req : Requests]
    /\ request \in [Requests -> {"unused", "pending", "paid", "expired", "removed"}]
    /\ depositOf \in [Requests -> Deposits \cup {None}]
    /\ cpc \in {"wait", "create", "put", "parse", "putParsed"}
    /\ ev \in [id : Docs \cup {None}, rev : Nat, doc : DepositDocs,
               buy : [invoice : Nat, parsed : Nat]]
    /\ cpc \in {"create", "put"} => ev.id \in Deposits
    /\ cpc \in {"parse", "putParsed"} => ev.id \in Buys
    /\ newReq \in Requests \cup {None} /\ (cpc = "put" => newReq # None)
    /\ spc \in {"idle", "rows", "lookup", "put", "remove"}
    /\ rows \subseteq Requests /\ row \in Requests \cup {None}
    /\ spc \in {"lookup", "put", "remove"} => row # None
    /\ pick \in [id : Deposits \cup {None}, rev : Nat, doc : DepositDocs]
    /\ spc = "put" => pick.id # None
    /\ pingCounter \in -1 .. PingPeriod
    /\ lastReport \in {"none", "up", "down"}
    /\ pingCounter = 0 - 1 <=> lastReport = "down"
    /\ everPaid \subseteq Requests /\ edits \in Nat /\ faults \in Nat

\* No payment is dropped: a request somebody paid leaves the wallet only after
\* its deposit was filled, whatever fails, conflicts or lags.
PaidStaysUntilFilled ==
    \A r \in everPaid :
        request[r] = "paid" \/ doc[depositOf[r]].filled

\* No deposit is credited without its payment: a filled deposit names a
\* request that was paid for it.
FilledWasPaid ==
    \A d \in Deposits : doc[d].filled =>
        doc[d].req \in everPaid /\ depositOf[doc[d].req] = d

\* The invoice a user may have before him is never replaced.
InvoiceKept ==
    [][\A d \in Deposits : doc[d].req # None /\ doc'[d].state = "live"
          => doc'[d].req = doc[d].req]_vars

\* The service never writes an older invoice over the user's newer one.
UserInvoiceKept ==
    [][\A u \in Buys : buy[u].invoice <= buy'[u].invoice]_vars

\* Unless a call fails, every payment reaches its deposit, and its request
\* leaves the wallet, however the index lags.
PaidIsSettled ==
    \A r \in Requests :
        request[r] = "paid" ~> request[r] = "removed" \/ faults > 0

\* Unless a call fails, the invoice of a buy order is eventually the one that
\* was read, however often its user replaces it meanwhile.
InvoiceIsParsed ==
    \A u \in Buys : <>[](buy[u].parsed = buy[u].invoice \/ faults > 0)

\* Unless a call fails, every deposit gets an invoice, also when its user edits
\* it while the wallet creates one.
DepositGetsInvoice ==
    \A d \in Deposits : doc[d].state = "live" /\ doc[d].req = None
        ~> doc[d].req # None \/ faults > 0

\* What users wait for comes, whoever else writes: deposits get invoices, and
\* invoices of buy orders are read.
RequestsAnswered == DepositGetsInvoice /\ InvoiceIsParsed

-----------------------------------------------------------------------------
(* What makes PaidStaysUntilFilled and FilledWasPaid inductive *)

\* A payment has a live deposit that names it until its request is removed;
\* what has been removed was filled.
Paid ==
    /\ \A r \in Requests : request[r] = "paid" => r \in everPaid
    /\ \A r \in everPaid :
          /\ request[r] \in {"paid", "removed"}
          /\ depositOf[r] \in Deposits
          /\ doc[depositOf[r]].state = "live" /\ doc[depositOf[r]].req = r

\* A deposit names a request that was created for it.
Named ==
    /\ \A d \in Deposits : doc[d].req # None =>
          depositOf[doc[d].req] = d /\ request[doc[d].req] # "unused"
    /\ cpc = "put" => depositOf[newReq] = ev.id /\ request[newReq] # "unused"
    /\ \A r \in Requests : request[r] # "unused" => depositOf[r] \in Deposits

\* A deposit that was never written has no content.
Unwritten == \A d \in Deposits : doc[d].state = "absent" =>
                rev[d] = 0 /\ doc[d].req = None /\ ~doc[d].filled

\* The event of the change thread is a deposit without an invoice, or a buy
\* order, and still the document as it is while its revision is current.
EventTrue ==
    /\ cpc \in {"create", "put"} =>
          /\ ev.rev <= rev[ev.id]
          /\ ev.doc.state # "absent" /\ ev.doc.req = None /\ ~ev.doc.filled
          /\ ev.rev = rev[ev.id] => doc[ev.id] = ev.doc
    /\ cpc \in {"parse", "putParsed"} =>
          /\ ev.rev <= rev[ev.id]
          /\ ev.rev = rev[ev.id] => buy[ev.id] = ev.buy

\* A row of the index is right about every live deposit, however old it is.
IndexTrue == \A x \in index : /\ doc[x.id].state # "absent"
                              /\ doc[x.id].state = "live" => doc[x.id].req = x.req

\* The scheduler thread settles a request that was paid or has expired, with
\* the deposit that names it.
RowTrue ==
    /\ \A r \in rows : request[r] \in {"paid", "expired"} /\ r # row
    /\ spc \in {"lookup", "put", "remove"} => request[row] \in {"paid", "expired"}
    /\ spc \notin {"lookup", "put", "remove"} => row = None
    /\ spc = "put" =>
          /\ pick.id \in Deposits /\ pick.rev <= rev[pick.id]
          /\ pick.doc.state = "live" /\ pick.doc.req = row
          /\ pick.rev = rev[pick.id] => doc[pick.id] = pick.doc
    /\ spc = "remove" /\ request[row] = "paid" => doc[depositOf[row]].filled

SettleInv == /\ TypeOK /\ Paid /\ Named /\ Unwritten /\ EventTrue /\ IndexTrue /\ RowTrue
             /\ PaidStaysUntilFilled /\ FilledWasPaid
=============================================================================
