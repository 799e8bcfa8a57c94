------------------------ MODULE WalletServiceProofs ------------------------
(***************************************************************************)
(* Proofs about WalletService, for any number of deposits, buy orders and  *)
(* requests, any number of edits and failures, and an index as old as it   *)
(* likes: no payment is dropped, no deposit is credited without one, no    *)
(* thread overwrites an invoice it should keep, and ExchangeMonitor sees   *)
(* each deposit settled once.                                              *)
(***************************************************************************)
EXTENDS WalletService, TLAPS

USE WalletAssumption
USE DEF Docs, database, wallet, change, sched, changeRest, schedRest

LEMMA DocumentTypes ==
  /\ Absent \in DepositDocs
  /\ [Absent EXCEPT !.state = "live"] \in DepositDocs
  /\ [Absent EXCEPT !.state = "deleted"] \in DepositDocs
  BY DEF Absent, DepositDocs

LEMMA SettleInit == Init => SettleInv
  <1> SUFFICES ASSUME Init PROVE SettleInv
    OBVIOUS
  <1>1. TypeOK
    BY DocumentTypes DEF Init, TypeOK, NoEvent, NoPick, NoBuy
  <1>2. Paid /\ Named /\ Unwritten /\ EventTrue /\ IndexTrue /\ RowTrue
    BY DEF Init, Paid, Named, Unwritten, EventTrue, IndexTrue, RowTrue, Absent
  <1>3. PaidStaysUntilFilled /\ FilledWasPaid
    BY DEF Init, PaidStaysUntilFilled, FilledWasPaid, Absent
  <1> QED
    BY <1>1, <1>2, <1>3 DEF SettleInv

-----------------------------------------------------------------------------
(* One lemma per action: it keeps each conjunct that it can disturb. *)

LEMMA PostDepositKeeps ==
  ASSUME SettleInv, NEW d \in Deposits, PostDeposit(d)
  PROVE  SettleInv'
  <1>1. TypeOK'
    <2>1. [Absent EXCEPT !.state = "live"] \in DepositDocs
      BY DocumentTypes
    <2> QED
      BY <2>1 DEF SettleInv, TypeOK, PostDeposit, StoreDeposit
  <1>2. Paid'
    BY DEF SettleInv, TypeOK, Paid, PostDeposit, StoreDeposit, Absent,
       DepositDocs
  <1>3. Named'
    BY DEF SettleInv, TypeOK, Named, PostDeposit, StoreDeposit, Absent,
       DepositDocs
  <1>4. Unwritten'
    BY DEF SettleInv, TypeOK, Unwritten, PostDeposit, StoreDeposit, Absent,
       DepositDocs
  <1>5. EventTrue'
    BY DEF SettleInv, TypeOK, EventTrue, PostDeposit, StoreDeposit, Absent,
       DepositDocs
  <1>6. IndexTrue'
    BY DEF SettleInv, TypeOK, IndexTrue, PostDeposit, StoreDeposit, Absent,
       DepositDocs
  <1>7. RowTrue'
    BY DEF SettleInv, TypeOK, Paid, Named, EventTrue, IndexTrue, RowTrue,
       PaidStaysUntilFilled, PostDeposit, StoreDeposit, Absent, DepositDocs
  <1>8. PaidStaysUntilFilled'
    BY DEF SettleInv, TypeOK, Paid, Named, EventTrue, RowTrue,
       PaidStaysUntilFilled, PostDeposit, StoreDeposit, Absent, DepositDocs
  <1>9. FilledWasPaid'
    BY DEF SettleInv, TypeOK, FilledWasPaid, PostDeposit, StoreDeposit,
       Absent, DepositDocs
  <1> QED
    BY <1>1, <1>2, <1>3, <1>4, <1>5, <1>6, <1>7, <1>8, <1>9 DEF SettleInv,
       PostDeposit, StoreDeposit, Absent, DepositDocs

LEMMA EditDepositKeeps ==
  ASSUME SettleInv, NEW d \in Deposits, EditDeposit(d)
  PROVE  SettleInv'
  <1>1. TypeOK'
    BY DEF SettleInv, TypeOK, EditDeposit, StoreDeposit
  <1>2. Paid'
    BY DEF SettleInv, TypeOK, Paid, EditDeposit, StoreDeposit
  <1>3. Named'
    BY DEF SettleInv, TypeOK, Named, EditDeposit, StoreDeposit
  <1>4. Unwritten'
    BY DEF SettleInv, TypeOK, Unwritten, EditDeposit, StoreDeposit
  <1>5. EventTrue'
    BY DEF SettleInv, TypeOK, EventTrue, EditDeposit, StoreDeposit
  <1>6. IndexTrue'
    BY DEF SettleInv, TypeOK, IndexTrue, EditDeposit, StoreDeposit
  <1>7. RowTrue'
    BY DEF SettleInv, TypeOK, RowTrue, EditDeposit, StoreDeposit
  <1>8. PaidStaysUntilFilled'
    BY DEF SettleInv, TypeOK, PaidStaysUntilFilled, EditDeposit, StoreDeposit
  <1>9. FilledWasPaid'
    BY DEF SettleInv, TypeOK, FilledWasPaid, EditDeposit, StoreDeposit
  <1> QED
    BY <1>1, <1>2, <1>3, <1>4, <1>5, <1>6, <1>7, <1>8, <1>9 DEF SettleInv,
       EditDeposit, StoreDeposit

LEMMA SetInvoiceKeeps ==
  ASSUME SettleInv, NEW u \in Buys, SetInvoice(u)
  PROVE  SettleInv'
  <1>1. TypeOK'
    BY DEF SettleInv, TypeOK, SetInvoice, StoreBuy
  <1>2. Unwritten'
    BY DEF SettleInv, TypeOK, Unwritten, SetInvoice, StoreBuy
  <1>3. EventTrue'
    BY DEF SettleInv, TypeOK, EventTrue, SetInvoice, StoreBuy
  <1>4. RowTrue'
    BY DEF SettleInv, TypeOK, RowTrue, SetInvoice, StoreBuy
  <1> QED
    BY <1>1, <1>2, <1>3, <1>4 DEF SettleInv, Paid, Named, IndexTrue,
       PaidStaysUntilFilled, FilledWasPaid, SetInvoice, StoreBuy

LEMMA PayKeeps ==
  ASSUME SettleInv, NEW r \in Requests, Pay(r)
  PROVE  SettleInv'
  <1>1. TypeOK'
    BY DEF SettleInv, TypeOK, Pay
  <1>2. Paid'
    BY DEF SettleInv, TypeOK, Paid, Named, RowTrue, FilledWasPaid, Pay
  <1>3. Named'
    BY DEF SettleInv, TypeOK, Named, Pay
  <1>4. RowTrue'
    BY DEF SettleInv, TypeOK, RowTrue, Pay
  <1>5. PaidStaysUntilFilled'
    BY DEF SettleInv, TypeOK, PaidStaysUntilFilled, Pay
  <1>6. FilledWasPaid'
    BY DEF SettleInv, TypeOK, FilledWasPaid, Pay
  <1> QED
    BY <1>1, <1>2, <1>3, <1>4, <1>5, <1>6 DEF SettleInv, Unwritten, EventTrue,
       IndexTrue, Pay

LEMMA ExpireKeeps ==
  ASSUME SettleInv, NEW r \in Requests, Expire(r)
  PROVE  SettleInv'
  <1>1. TypeOK'
    BY DEF SettleInv, TypeOK, Expire
  <1>2. Paid'
    BY DEF SettleInv, TypeOK, Paid, Expire
  <1>3. Named'
    BY DEF SettleInv, TypeOK, Named, Expire
  <1>4. RowTrue'
    BY DEF SettleInv, TypeOK, RowTrue, Expire
  <1>5. PaidStaysUntilFilled'
    BY DEF SettleInv, TypeOK, PaidStaysUntilFilled, Expire
  <1> QED
    BY <1>1, <1>2, <1>3, <1>4, <1>5 DEF SettleInv, Unwritten, EventTrue,
       IndexTrue, FilledWasPaid, Expire

LEMMA IndexUpdateKeeps ==
  ASSUME SettleInv, IndexUpdate
  PROVE  SettleInv'
  <1>1. TypeOK'
    <2>1. Waiting \subseteq [id : Deposits, req : Requests]
      BY DEF SettleInv, TypeOK, Waiting, DepositDocs
    <2> QED
      BY <2>1 DEF SettleInv, TypeOK, IndexUpdate
  <1>2. IndexTrue'
    BY DEF SettleInv, TypeOK, IndexTrue, IndexUpdate, Waiting
  <1> QED
    BY <1>1, <1>2 DEF SettleInv, Paid, Named, Unwritten, EventTrue, RowTrue,
       PaidStaysUntilFilled, FilledWasPaid, IndexUpdate, Waiting

LEMMA DeliverKeeps ==
  ASSUME SettleInv, NEW x \in Docs, Deliver(x)
  PROVE  SettleInv'
  <1>1. TypeOK'
    <2>1. CASE x \in Deposits /\ WantsInvoice(doc[x])
      <3>1. /\ ev' = [id |-> x, rev |-> rev[x], doc |-> doc[x], buy |-> NoBuy]
            /\ cpc' = "create" /\ seen' = [seen EXCEPT ![x] = rev[x]]
        BY <2>1 DEF Deliver
      <3> QED
        BY <2>1, <3>1 DEF SettleInv, TypeOK, Deliver, NoBuy
    <2>2. CASE x \in Buys /\ WantsParsing(buy[x])
      <3>1. /\ ev' = [id |-> x, rev |-> rev[x], doc |-> Absent, buy |-> buy[x]]
            /\ cpc' = "parse" /\ seen' = [seen EXCEPT ![x] = rev[x]]
        BY <2>2 DEF Deliver
      <3> QED
        BY <2>2, <3>1, DocumentTypes DEF SettleInv, TypeOK, Deliver
    <2>3. CASE UNCHANGED <<ev, cpc>>
      BY <2>3 DEF SettleInv, TypeOK, Deliver
    <2> QED
      BY <2>1, <2>2, <2>3 DEF Deliver
  <1>2. Named'
    BY DEF SettleInv, TypeOK, Named, Deliver, WantsInvoice, WantsParsing,
       Absent, NoBuy, DepositDocs
  <1>3. EventTrue'
    BY DEF SettleInv, TypeOK, Unwritten, EventTrue, Deliver, WantsInvoice,
       WantsParsing, Absent, NoBuy, DepositDocs
  <1> QED
    BY <1>1, <1>2, <1>3 DEF SettleInv, Paid, Unwritten, IndexTrue, RowTrue,
       PaidStaysUntilFilled, FilledWasPaid, Deliver, WantsInvoice,
       WantsParsing, Absent, NoBuy, DepositDocs

LEMMA CreateInvoiceKeeps ==
  ASSUME SettleInv, NEW r \in Requests, CreateInvoice(r)
  PROVE  SettleInv'
  <1>1. TypeOK'
    BY DEF SettleInv, TypeOK, CreateInvoice
  <1>2. Paid'
    BY DEF SettleInv, TypeOK, Paid, CreateInvoice
  <1>3. Named'
    BY DEF SettleInv, TypeOK, Named, CreateInvoice
  <1>4. EventTrue'
    BY DEF SettleInv, TypeOK, EventTrue, CreateInvoice
  <1>5. RowTrue'
    BY DEF SettleInv, TypeOK, RowTrue, CreateInvoice
  <1>6. PaidStaysUntilFilled'
    BY DEF SettleInv, TypeOK, Paid, Named, EventTrue, RowTrue,
       PaidStaysUntilFilled, CreateInvoice
  <1>7. FilledWasPaid'
    BY DEF SettleInv, TypeOK, Paid, Named, Unwritten, EventTrue, RowTrue,
       FilledWasPaid, CreateInvoice
  <1> QED
    BY <1>1, <1>2, <1>3, <1>4, <1>5, <1>6, <1>7 DEF SettleInv, Unwritten,
       IndexTrue, CreateInvoice

LEMMA PutInvoiceKeeps ==
  ASSUME SettleInv, PutInvoice
  PROVE  SettleInv'
  <1>1. TypeOK'
    BY DEF SettleInv, TypeOK, Paid, Named, Unwritten, EventTrue, IndexTrue,
       RowTrue, PaidStaysUntilFilled, FilledWasPaid, PutInvoice, StoreDeposit,
       EndOfEvent, NoEvent, NoBuy, Absent, DepositDocs
  <1>2. Paid'
    BY DEF SettleInv, TypeOK, Paid, Named, Unwritten, EventTrue, IndexTrue,
       RowTrue, PaidStaysUntilFilled, FilledWasPaid, PutInvoice, StoreDeposit,
       EndOfEvent, NoEvent, NoBuy, Absent, DepositDocs
  <1>3. Named'
    BY DEF SettleInv, TypeOK, Named, PutInvoice, StoreDeposit, EndOfEvent,
       NoEvent, NoBuy, Absent, DepositDocs
  <1>4. Unwritten'
    BY DEF SettleInv, TypeOK, Unwritten, EventTrue, IndexTrue, RowTrue,
       PutInvoice, StoreDeposit, EndOfEvent, NoEvent, NoBuy, Absent,
       DepositDocs
  <1>5. EventTrue'
    BY DEF SettleInv, TypeOK, EventTrue, PutInvoice, StoreDeposit, EndOfEvent,
       NoEvent, NoBuy, Absent, DepositDocs
  <1>6. IndexTrue'
    BY DEF SettleInv, TypeOK, Unwritten, EventTrue, IndexTrue, RowTrue,
       PutInvoice, StoreDeposit, EndOfEvent, NoEvent, NoBuy, Absent,
       DepositDocs
  <1>7. RowTrue'
    BY DEF SettleInv, TypeOK, Paid, Named, EventTrue, IndexTrue, RowTrue,
       PaidStaysUntilFilled, PutInvoice, StoreDeposit, EndOfEvent, NoEvent,
       NoBuy, Absent, DepositDocs
  <1>8. PaidStaysUntilFilled'
    BY DEF SettleInv, TypeOK, Paid, Named, EventTrue, RowTrue,
       PaidStaysUntilFilled, PutInvoice, StoreDeposit, EndOfEvent, NoEvent,
       NoBuy, Absent, DepositDocs
  <1>9. FilledWasPaid'
    BY DEF SettleInv, TypeOK, Paid, Named, Unwritten, EventTrue, RowTrue,
       FilledWasPaid, PutInvoice, StoreDeposit, EndOfEvent, NoEvent, NoBuy,
       Absent, DepositDocs
  <1> QED
    BY <1>1, <1>2, <1>3, <1>4, <1>5, <1>6, <1>7, <1>8, <1>9 DEF SettleInv,
       PutInvoice, StoreDeposit, EndOfEvent, NoEvent, NoBuy, Absent,
       DepositDocs

LEMMA ParseInvoiceKeeps ==
  ASSUME SettleInv, ParseInvoice
  PROVE  SettleInv'
  <1>1. TypeOK'
    BY DEF SettleInv, TypeOK, ParseInvoice
  <1>2. Named'
    BY DEF SettleInv, TypeOK, Named, ParseInvoice
  <1>3. EventTrue'
    BY DEF SettleInv, TypeOK, EventTrue, ParseInvoice
  <1> QED
    BY <1>1, <1>2, <1>3 DEF SettleInv, Paid, Unwritten, IndexTrue, RowTrue,
       PaidStaysUntilFilled, FilledWasPaid, ParseInvoice

LEMMA PutParsedKeeps ==
  ASSUME SettleInv, PutParsed
  PROVE  SettleInv'
  <1>1. TypeOK'
    BY DEF SettleInv, TypeOK, PutParsed, StoreBuy, EndOfEvent, NoEvent, NoBuy,
       Absent, DepositDocs
  <1>2. Named'
    BY DEF SettleInv, TypeOK, Named, PutParsed, StoreBuy, EndOfEvent, NoEvent,
       NoBuy, Absent, DepositDocs
  <1>3. Unwritten'
    BY DEF SettleInv, TypeOK, Unwritten, PutParsed, StoreBuy, EndOfEvent,
       NoEvent, NoBuy, Absent, DepositDocs
  <1>4. EventTrue'
    BY DEF SettleInv, TypeOK, EventTrue, PutParsed, StoreBuy, EndOfEvent,
       NoEvent, NoBuy, Absent, DepositDocs
  <1>5. RowTrue'
    BY DEF SettleInv, TypeOK, RowTrue, PutParsed, StoreBuy, EndOfEvent,
       NoEvent, NoBuy, Absent, DepositDocs
  <1> QED
    BY <1>1, <1>2, <1>3, <1>4, <1>5 DEF SettleInv, Paid, IndexTrue,
       PaidStaysUntilFilled, FilledWasPaid, PutParsed, StoreBuy, EndOfEvent,
       NoEvent, NoBuy, Absent, DepositDocs

LEMMA PutConflictKeeps ==
  ASSUME SettleInv, PutConflict
  PROVE  SettleInv'
  <1>1. TypeOK'
    BY DEF SettleInv, TypeOK, PutConflict, EndOfEvent, NoEvent, NoBuy, Absent,
       DepositDocs
  <1>2. Named'
    BY DEF SettleInv, TypeOK, Named, PutConflict, EndOfEvent, NoEvent, NoBuy,
       Absent, DepositDocs
  <1>3. EventTrue'
    BY DEF SettleInv, TypeOK, EventTrue, PutConflict, EndOfEvent, NoEvent,
       NoBuy, Absent, DepositDocs
  <1> QED
    BY <1>1, <1>2, <1>3 DEF SettleInv, Paid, Unwritten, IndexTrue, RowTrue,
       PaidStaysUntilFilled, FilledWasPaid, PutConflict, EndOfEvent, NoEvent,
       NoBuy, Absent, DepositDocs

LEMMA ListRequestsKeeps ==
  ASSUME SettleInv, ListRequests
  PROVE  SettleInv'
  <1>1. TypeOK'
    BY DEF SettleInv, TypeOK, ListRequests
  <1>2. RowTrue'
    BY DEF SettleInv, TypeOK, RowTrue, ListRequests
  <1> QED
    BY <1>1, <1>2 DEF SettleInv, Paid, Named, Unwritten, EventTrue, IndexTrue,
       PaidStaysUntilFilled, FilledWasPaid, ListRequests

LEMMA NextRowKeeps ==
  ASSUME SettleInv, NEW r \in rows, NextRow(r)
  PROVE  SettleInv'
  <1>1. TypeOK'
    BY DEF SettleInv, TypeOK, NextRow
  <1>2. RowTrue'
    BY DEF SettleInv, TypeOK, RowTrue, NextRow
  <1> QED
    BY <1>1, <1>2 DEF SettleInv, Paid, Named, Unwritten, EventTrue, IndexTrue,
       PaidStaysUntilFilled, FilledWasPaid, NextRow

LEMMA LookupKeeps ==
  ASSUME SettleInv, Lookup
  PROVE  SettleInv'
  <1>1. TypeOK'
    <2>1. CASE UNCHANGED pick
      BY <2>1, DocumentTypes DEF SettleInv, TypeOK, Lookup, SkipRow, NoPick
    <2>2. CASE SkipRow
      <3>1. pick' \in [id : Deposits \cup {None}, rev : Nat, doc : DepositDocs]
        BY <2>2, DocumentTypes DEF SkipRow, NoPick
      <3>2. spc' = "rows" /\ row' = None /\ UNCHANGED <<rows, pingCounter, lastReport>>
        BY <2>2 DEF SkipRow
      <3> QED
        BY <3>1, <3>2 DEF SettleInv, TypeOK, Lookup
    <2>3. CASE \E y \in index : /\ spc' = "put" /\ UNCHANGED row
                              /\ pick' = [id |-> y.id, rev |-> rev[y.id], doc |-> doc[y.id]]
      <3>1. PICK y \in index : /\ spc' = "put" /\ UNCHANGED row
                              /\ pick' = [id |-> y.id, rev |-> rev[y.id], doc |-> doc[y.id]]
        BY <2>3
      <3>2. y.id \in Deposits
        BY DEF SettleInv, TypeOK
      <3>3. pick' \in [id : Deposits \cup {None}, rev : Nat, doc : DepositDocs] /\ pick'.id \in Deposits
        BY <3>1, <3>2 DEF SettleInv, TypeOK
      <3> QED
        BY <3>1, <3>3 DEF SettleInv, TypeOK, Lookup, SkipRow
    <2> QED
      BY <2>1, <2>2, <2>3 DEF Lookup, SkipRow
  <1>2. RowTrue'
    BY DEF SettleInv, TypeOK, Paid, Named, EventTrue, IndexTrue, RowTrue,
       PaidStaysUntilFilled, Lookup, SkipRow, NoPick, RowPaid, Absent,
       DepositDocs
  <1> QED
    BY <1>1, <1>2 DEF SettleInv, Paid, Named, Unwritten, EventTrue, IndexTrue,
       PaidStaysUntilFilled, FilledWasPaid, Lookup, SkipRow, NoPick, RowPaid,
       Absent, DepositDocs

LEMMA PutStatusKeeps ==
  ASSUME SettleInv, PutStatus
  PROVE  SettleInv'
  <1>1. TypeOK'
    <2>1. Settled(pick.doc) \in DepositDocs
      BY DocumentTypes DEF SettleInv, TypeOK, Settled, DepositDocs
    <2> QED
      BY <2>1, DocumentTypes DEF SettleInv, TypeOK, PutStatus, StoreDeposit, NoPick
  <1>2. Paid'
    BY DEF SettleInv, TypeOK, Paid, Named, RowTrue, FilledWasPaid, PutStatus,
       StoreDeposit, Settled, RowPaid, NoPick, Absent, DepositDocs
  <1>3. Named'
    BY DEF SettleInv, TypeOK, Paid, Named, EventTrue, RowTrue, PutStatus,
       StoreDeposit, Settled, RowPaid, NoPick, Absent, DepositDocs
  <1>4. Unwritten'
    BY DEF SettleInv, TypeOK, Unwritten, EventTrue, IndexTrue, RowTrue,
       PutStatus, StoreDeposit, Settled, RowPaid, NoPick, Absent, DepositDocs
  <1>5. EventTrue'
    BY DEF SettleInv, TypeOK, EventTrue, PutStatus, StoreDeposit, Settled,
       RowPaid, NoPick, Absent, DepositDocs
  <1>6. IndexTrue'
    BY DEF SettleInv, TypeOK, Unwritten, EventTrue, IndexTrue, RowTrue,
       PutStatus, StoreDeposit, Settled, RowPaid, NoPick, Absent, DepositDocs
  <1>7. RowTrue'
    BY DEF SettleInv, TypeOK, Paid, Named, EventTrue, IndexTrue, RowTrue,
       PaidStaysUntilFilled, PutStatus, StoreDeposit, Settled, RowPaid,
       NoPick, Absent, DepositDocs
  <1>8. PaidStaysUntilFilled'
    BY DEF SettleInv, TypeOK, Paid, Named, EventTrue, RowTrue,
       PaidStaysUntilFilled, PutStatus, StoreDeposit, Settled, RowPaid,
       NoPick, Absent, DepositDocs
  <1>9. FilledWasPaid'
    BY DEF SettleInv, TypeOK, Paid, Named, Unwritten, EventTrue, RowTrue,
       FilledWasPaid, PutStatus, StoreDeposit, Settled, RowPaid, NoPick,
       Absent, DepositDocs
  <1> QED
    BY <1>1, <1>2, <1>3, <1>4, <1>5, <1>6, <1>7, <1>8, <1>9 DEF SettleInv,
       PutStatus, StoreDeposit, Settled, RowPaid, NoPick, Absent, DepositDocs

LEMMA StatusConflictKeeps ==
  ASSUME SettleInv, StatusConflict
  PROVE  SettleInv'
  <1>1. TypeOK'
    BY DEF SettleInv, TypeOK, StatusConflict, SkipRow, NoPick, Absent,
       DepositDocs
  <1>2. RowTrue'
    BY DEF SettleInv, TypeOK, RowTrue, StatusConflict, SkipRow, NoPick,
       Absent, DepositDocs
  <1> QED
    BY <1>1, <1>2 DEF SettleInv, Paid, Named, Unwritten, EventTrue, IndexTrue,
       PaidStaysUntilFilled, FilledWasPaid, StatusConflict, SkipRow, NoPick,
       Absent, DepositDocs

LEMMA RemoveRequestKeeps ==
  ASSUME SettleInv, RemoveRequest
  PROVE  SettleInv'
  <1>1. TypeOK'
    BY DEF SettleInv, TypeOK, RemoveRequest, SkipRow, NoPick, Absent,
       DepositDocs
  <1>2. Paid'
    BY DEF SettleInv, TypeOK, Paid, RemoveRequest, SkipRow, NoPick, Absent,
       DepositDocs
  <1>3. Named'
    BY DEF SettleInv, TypeOK, Paid, Named, EventTrue, RowTrue, RemoveRequest,
       SkipRow, NoPick, Absent, DepositDocs
  <1>4. RowTrue'
    BY DEF SettleInv, TypeOK, RowTrue, RemoveRequest, SkipRow, NoPick, Absent,
       DepositDocs
  <1>5. PaidStaysUntilFilled'
    BY DEF SettleInv, TypeOK, Paid, Named, EventTrue, RowTrue,
       PaidStaysUntilFilled, RemoveRequest, SkipRow, NoPick, Absent,
       DepositDocs
  <1> QED
    BY <1>1, <1>2, <1>3, <1>4, <1>5 DEF SettleInv, Unwritten, EventTrue,
       IndexTrue, FilledWasPaid, RemoveRequest, SkipRow, NoPick, Absent,
       DepositDocs

LEMMA PingKeeps ==
  ASSUME SettleInv, Ping
  PROVE  SettleInv'
  <1>1. TypeOK'
    BY DEF SettleInv, TypeOK, Ping
  <1>2. RowTrue'
    BY DEF SettleInv, TypeOK, RowTrue, Ping
  <1> QED
    BY <1>1, <1>2 DEF SettleInv, Paid, Named, Unwritten, EventTrue, IndexTrue,
       PaidStaysUntilFilled, FilledWasPaid, Ping

LEMMA ChangeFailsKeeps ==
  ASSUME SettleInv, ChangeFails
  PROVE  SettleInv'
  <1>1. TypeOK'
    BY DEF SettleInv, TypeOK, ChangeFails, Fault, EndOfEvent, NoEvent, NoBuy,
       Absent, DepositDocs
  <1>2. Named'
    BY DEF SettleInv, TypeOK, Named, ChangeFails, Fault, EndOfEvent, NoEvent,
       NoBuy, Absent, DepositDocs
  <1>3. EventTrue'
    BY DEF SettleInv, TypeOK, EventTrue, ChangeFails, Fault, EndOfEvent,
       NoEvent, NoBuy, Absent, DepositDocs
  <1> QED
    BY <1>1, <1>2, <1>3 DEF SettleInv, Paid, Unwritten, IndexTrue, RowTrue,
       PaidStaysUntilFilled, FilledWasPaid, ChangeFails, Fault, EndOfEvent,
       NoEvent, NoBuy, Absent, DepositDocs

LEMMA ListFailsKeeps ==
  ASSUME SettleInv, ListFails
  PROVE  SettleInv'
  <1>1. TypeOK'
    BY DEF SettleInv, TypeOK, ListFails, Fault, ReportDown, NoPick, Absent,
       DepositDocs
  <1>2. RowTrue'
    BY DEF SettleInv, TypeOK, RowTrue, ListFails, Fault, ReportDown, NoPick,
       Absent, DepositDocs
  <1> QED
    BY <1>1, <1>2 DEF SettleInv, Paid, Named, Unwritten, EventTrue, IndexTrue,
       PaidStaysUntilFilled, FilledWasPaid, ListFails, Fault, ReportDown,
       NoPick, Absent, DepositDocs

LEMMA RowFailsKeeps ==
  ASSUME SettleInv, RowFails
  PROVE  SettleInv'
  <1>1. TypeOK'
    BY DEF SettleInv, TypeOK, RowFails, Fault, SkipRow, NoPick, Absent,
       DepositDocs
  <1>2. RowTrue'
    BY DEF SettleInv, TypeOK, RowTrue, RowFails, Fault, SkipRow, NoPick,
       Absent, DepositDocs
  <1> QED
    BY <1>1, <1>2 DEF SettleInv, Paid, Named, Unwritten, EventTrue, IndexTrue,
       PaidStaysUntilFilled, FilledWasPaid, RowFails, Fault, SkipRow, NoPick,
       Absent, DepositDocs

LEMMA PingFailsKeeps ==
  ASSUME SettleInv, PingFails
  PROVE  SettleInv'
  <1>1. TypeOK'
    BY DEF SettleInv, TypeOK, PingFails, Fault, ReportDown, NoPick, Absent,
       DepositDocs
  <1>2. RowTrue'
    BY DEF SettleInv, TypeOK, RowTrue, PingFails, Fault, ReportDown, NoPick,
       Absent, DepositDocs
  <1> QED
    BY <1>1, <1>2 DEF SettleInv, Paid, Named, Unwritten, EventTrue, IndexTrue,
       PaidStaysUntilFilled, FilledWasPaid, PingFails, Fault, ReportDown,
       NoPick, Absent, DepositDocs

-----------------------------------------------------------------------------

LEMMA SettleStep == SettleInv /\ [Next]_vars => SettleInv'
  <1> SUFFICES ASSUME SettleInv, [Next]_vars PROVE SettleInv'
    OBVIOUS
  <1>1. CASE Environment
    BY <1>1, PostDepositKeeps, EditDepositKeeps, SetInvoiceKeeps, PayKeeps, ExpireKeeps
       DEF Environment
  <1>2. CASE IndexUpdate
    BY <1>2, IndexUpdateKeeps
  <1>3. CASE ChangeThread
    BY <1>3, DeliverKeeps, CreateInvoiceKeeps, PutInvoiceKeeps, ParseInvoiceKeeps,
       PutParsedKeeps, PutConflictKeeps DEF ChangeThread
  <1>4. CASE SchedulerThread
    BY <1>4, ListRequestsKeeps, NextRowKeeps, LookupKeeps, PutStatusKeeps,
       StatusConflictKeeps, RemoveRequestKeeps, PingKeeps DEF SchedulerThread
  <1>5. CASE Faults
    BY <1>5, ChangeFailsKeeps, ListFailsKeeps, RowFailsKeeps, PingFailsKeeps DEF Faults
  <1>6. CASE UNCHANGED vars
    BY <1>6 DEF vars, SettleInv, TypeOK, Paid, Named, Unwritten, EventTrue, IndexTrue,
       RowTrue, PaidStaysUntilFilled, FilledWasPaid
  <1> QED
    BY <1>1, <1>2, <1>3, <1>4, <1>5, <1>6 DEF Next

\* Every behaviour of the service keeps the inductive invariant.
THEOREM SettleInvariant == Spec => []SettleInv
  BY SettleInit, SettleStep, PTL DEF Spec

\* Documents, requests and both threads keep their types.
THEOREM TypeCorrect == Spec => []TypeOK
  <1>1. SettleInv => TypeOK
    BY DEF SettleInv
  <1> QED
    BY <1>1, SettleInvariant, PTL

\* checkState removes a paid request only after onInvoiceChange has filled its
\* deposit, however the scheduler thread is interrupted or overtaken.
THEOREM NoPaymentDropped == Spec => []PaidStaysUntilFilled
  <1>1. SettleInv => PaidStaysUntilFilled
    BY DEF SettleInv
  <1> QED
    BY <1>1, SettleInvariant, PTL

\* onInvoiceChange fills a deposit only for a request that was paid for it.
THEOREM NoCreditWithoutPayment == Spec => []FilledWasPaid
  <1>1. SettleInv => FilledWasPaid
    BY DEF SettleInv
  <1> QED
    BY <1>1, SettleInvariant, PTL

\* processWalletRequest gives a deposit that shows an invoice no second one,
\* and the scheduler thread never changes it on a deposit that stays.
THEOREM InvoicesKept == Spec => InvoiceKept
  <1> DEFINE Kept == \A d \in Deposits : doc[d].req # None /\ doc'[d].state = "live"
                        => doc'[d].req = doc[d].req
  <1>1. ASSUME SettleInv, [Next]_vars PROVE [Kept]_vars
    <2>1. ASSUME UNCHANGED doc PROVE Kept
      BY <2>1
    <2>2. ASSUME NEW d \in Deposits, PostDeposit(d) \/ EditDeposit(d) PROVE Kept
      <3>1. doc \in [Deposits -> DepositDocs]
        BY <1>1 DEF SettleInv, TypeOK
      <3>2. CASE PostDeposit(d)
        <4>1. doc[d].req = None
          BY <1>1, <3>2 DEF SettleInv, Unwritten, PostDeposit
        <4>2. \A x \in Deposits : x # d => doc'[x] = doc[x]
          BY <3>1, <3>2 DEF PostDeposit, StoreDeposit
        <4> QED
          BY <4>1, <4>2
      <3>3. CASE EditDeposit(d)
        <4>1. doc' = doc
          BY <3>1, <3>3 DEF EditDeposit, StoreDeposit
        <4> QED
          BY <2>1, <4>1
      <3> QED
        BY <2>2, <3>2, <3>3
    <2>3. CASE PutInvoice
      BY <1>1, <2>3 DEF SettleInv, TypeOK, EventTrue, PutInvoice, StoreDeposit, DepositDocs
    <2>4. CASE PutStatus
      BY <1>1, <2>4 DEF SettleInv, TypeOK, RowTrue, PutStatus, StoreDeposit, Settled,
         Absent, DepositDocs
    <2>5. CASE Environment
      BY <2>1, <2>2, <2>5 DEF Environment, SetInvoice, StoreBuy, Pay, Expire
    <2>6. CASE ChangeThread
      BY <2>1, <2>3, <2>6 DEF ChangeThread, Deliver, CreateInvoice, ParseInvoice,
         PutParsed, StoreBuy, PutConflict
    <2>7. CASE SchedulerThread
      BY <2>1, <2>4, <2>7 DEF SchedulerThread, ListRequests, NextRow, Lookup,
         StatusConflict, RemoveRequest, Ping
    <2>8. CASE Faults \/ IndexUpdate \/ UNCHANGED vars
      BY <2>1, <2>8 DEF Faults, ChangeFails, ListFails, RowFails, PingFails, IndexUpdate, vars
    <2> QED
      BY <1>1, <2>5, <2>6, <2>7, <2>8 DEF Next
  <1> QED
    BY <1>1, SettleInvariant, PTL DEF Spec, InvoiceKept

\* processWalletRequest writes the hash of an invoice only into the revision
\* that holds this invoice: what a user enters meanwhile is never undone.
THEOREM UserInvoicesKept == Spec => UserInvoiceKept
  <1> DEFINE Kept == \A u \in Buys : buy[u].invoice <= buy'[u].invoice
  <1>1. ASSUME SettleInv, [Next]_vars PROVE [Kept]_vars
    <2>1. ASSUME UNCHANGED buy PROVE Kept
      BY <1>1, <2>1 DEF SettleInv, TypeOK
    <2>2. ASSUME NEW u \in Buys, SetInvoice(u) PROVE Kept
      BY <1>1, <2>2 DEF SettleInv, TypeOK, SetInvoice, StoreBuy
    <2>3. CASE PutParsed
      BY <1>1, <2>3 DEF SettleInv, TypeOK, EventTrue, PutParsed, StoreBuy
    <2>4. CASE Environment
      BY <2>1, <2>2, <2>4 DEF Environment, PostDeposit, EditDeposit, StoreDeposit, Pay, Expire
    <2>5. CASE ChangeThread
      BY <2>1, <2>3, <2>5 DEF ChangeThread, Deliver, CreateInvoice, ParseInvoice,
         PutInvoice, StoreDeposit, PutConflict
    <2>6. CASE SchedulerThread
      BY <2>1, <2>6 DEF SchedulerThread, ListRequests, NextRow, Lookup, PutStatus,
         StoreDeposit, StatusConflict, RemoveRequest, Ping
    <2>7. CASE Faults \/ IndexUpdate \/ UNCHANGED vars
      BY <2>1, <2>7 DEF Faults, ChangeFails, ListFails, RowFails, PingFails, IndexUpdate, vars
    <2> QED
      BY <1>1, <2>4, <2>5, <2>6, <2>7 DEF Next
  <1> QED
    BY <1>1, SettleInvariant, PTL DEF Spec, UserInvoiceKept

-----------------------------------------------------------------------------
(* What the exchange sees of deposits *)

\* The status of a deposit document.
DepositState(content) ==
    IF content.state = "live" THEN (IF content.filled THEN "filled" ELSE "unpaid")
    ELSE content.state

\* The moves ExchangeMonitor lets others make: to enter a deposit, and to settle it once.
DepositMoves == {<<"absent", "unpaid">>, <<"unpaid", "filled">>, <<"unpaid", "deleted">>}

DepositsSettledOnce ==
    [][\A d \in Deposits :
          \/ DepositState(doc'[d]) = DepositState(doc[d])
          \/ <<DepositState(doc[d]), DepositState(doc'[d])>> \in DepositMoves]_vars

\* The change thread and the scheduler thread write the same documents, with an index
\* that lags and calls that fail: still a deposit is settled once and for good, one that
\* was filled is never taken for expired, and none that was deleted comes back.
THEOREM MonitorKnowsAllDeposits == Spec => DepositsSettledOnce
  <1> DEFINE Moved(d) == \/ DepositState(doc'[d]) = DepositState(doc[d])
                         \/ <<DepositState(doc[d]), DepositState(doc'[d])>> \in DepositMoves
             Moves == \A d \in Deposits : Moved(d)
  <1>1. ASSUME SettleInv, [Next]_vars PROVE [Moves]_vars
    <2>0. doc \in [Deposits -> DepositDocs]
      BY <1>1 DEF SettleInv, TypeOK
    <2>1. ASSUME UNCHANGED doc PROVE Moves
      BY <2>1
    <2>2. ASSUME NEW x \in Deposits, NEW new, doc' = [doc EXCEPT ![x] = new],
                 \/ DepositState(new) = DepositState(doc[x])
                 \/ <<DepositState(doc[x]), DepositState(new)>> \in DepositMoves
          PROVE  Moves
      BY <2>0, <2>2
    <2>3. ASSUME NEW d \in Deposits, PostDeposit(d) PROVE Moves
      <3>1. doc[d].state = "absent" /\ doc' = [doc EXCEPT ![d] = [Absent EXCEPT !.state = "live"]]
        BY <2>3 DEF PostDeposit, StoreDeposit
      <3>2. /\ DepositState([Absent EXCEPT !.state = "live"]) = "unpaid"
            /\ DepositState(doc[d]) = "absent"
        BY <3>1 DEF DepositState, Absent
      <3> QED
        BY <2>2, <3>1, <3>2 DEF DepositMoves
    <2>4. ASSUME NEW d \in Deposits, EditDeposit(d) PROVE Moves
      BY <2>2, <2>4 DEF EditDeposit, StoreDeposit
    <2>5. CASE PutInvoice
      <3>1. ev.id \in Deposits /\ ev.doc = doc[ev.id] /\ ev.doc \in DepositDocs
        BY <1>1, <2>5 DEF SettleInv, TypeOK, EventTrue, PutInvoice
      <3>2. DepositState([ev.doc EXCEPT !.req = newReq]) = DepositState(ev.doc)
        BY <3>1 DEF DepositState, DepositDocs
      <3>3. doc' = [doc EXCEPT ![ev.id] = [ev.doc EXCEPT !.req = newReq]]
        BY <2>5 DEF PutInvoice, StoreDeposit
      <3> QED
        BY <2>2, <3>1, <3>2, <3>3
    <2>6. CASE PutStatus
      <3>1. /\ pick.id \in Deposits /\ pick.doc = doc[pick.id] /\ pick.doc \in DepositDocs
            /\ pick.doc.state = "live" /\ pick.doc.req = row
            /\ row \in Requests /\ request[row] \in {"paid", "expired"}
        BY <1>1, <2>6 DEF SettleInv, TypeOK, RowTrue, PutStatus
      <3>2. doc' = [doc EXCEPT ![pick.id] = Settled(pick.doc)]
        BY <2>6 DEF PutStatus, StoreDeposit
      <3>3. CASE RowPaid
        <4>1. DepositState(Settled(pick.doc)) = "filled"
          BY <3>1, <3>3 DEF DepositState, Settled, DepositDocs
        <4>2. DepositState(doc[pick.id]) \in {"filled", "unpaid"}
          BY <3>1 DEF DepositState
        <4> QED
          BY <2>2, <3>1, <3>2, <4>1, <4>2 DEF DepositMoves
      <3>4. CASE ~RowPaid
        <4>1. row \notin everPaid
          BY <1>1, <3>1, <3>4 DEF SettleInv, Paid, RowPaid
        <4>2. ~doc[pick.id].filled
          BY <1>1, <3>1, <4>1 DEF SettleInv, FilledWasPaid
        <4>3. DepositState(doc[pick.id]) = "unpaid"
          BY <3>1, <4>2 DEF DepositState
        <4>4. DepositState(Settled(pick.doc)) = "deleted"
          BY <3>4 DEF DepositState, Settled, Absent
        <4> QED
          BY <2>2, <3>1, <3>2, <4>3, <4>4 DEF DepositMoves
      <3> QED
        BY <3>3, <3>4
    <2> HIDE DEF Moves
    <2>7. CASE Environment
      BY <2>1, <2>3, <2>4, <2>7 DEF Environment, SetInvoice, StoreBuy, Pay, Expire
    <2>8. CASE ChangeThread
      BY <2>1, <2>5, <2>8 DEF ChangeThread, Deliver, CreateInvoice, ParseInvoice,
         PutParsed, StoreBuy, PutConflict
    <2>9. CASE SchedulerThread
      BY <2>1, <2>6, <2>9 DEF SchedulerThread, ListRequests, NextRow, Lookup,
         StatusConflict, RemoveRequest, Ping
    <2>10. CASE Faults \/ IndexUpdate \/ UNCHANGED vars
      BY <2>1, <2>10 DEF Faults, ChangeFails, ListFails, RowFails, PingFails, IndexUpdate, vars
    <2> QED
      BY <1>1, <2>7, <2>8, <2>9, <2>10 DEF Next
  <1> QED
    BY <1>1, SettleInvariant, PTL DEF Spec, DepositsSettledOnce
=============================================================================
