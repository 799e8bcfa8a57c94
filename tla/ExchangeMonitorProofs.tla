----------------------- MODULE ExchangeMonitorProofs -----------------------
(***************************************************************************)
(* Proofs about ExchangeMonitor, for every set of documents, every amount  *)
(* and every bound: the type invariant, that locking never overbooks an    *)
(* order, and that no trade, timeout or balance is forgotten.              *)
(***************************************************************************)
EXTENDS ExchangeMonitor, FoldTheorems, TLAPS

LEMMA StatusFacts == /\ Statuses \subseteq States /\ Undecided \in States
                     /\ DepositStates \subseteq States
                     /\ Undecided \notin Statuses
  BY DEF Statuses, States, TradeStates, DepositStates, Undecided

\* The view emits an integer for every document.
LEMMA EmittedType == \A d \in Entries, s \in States : Emitted(d, s) \in Int
  BY DocsAssumption DEF Emitted, Reserve, Entries

LEMMA AsSatoshiType == \A n \in Int : AsSatoshi(n) \in Nat
  BY DocsAssumption DEF AsSatoshi

LEMMA IdleFacts == Idle \in Events /\ Idle.rev = 0
  BY DEF Idle, Events, States, TradeStates

LEMMA TouchType ==
  ASSUME TypeOK, NEW d \in Docs, Touch(d)
  PROVE  seq' \in Nat /\ rev' \in [Docs -> Nat]
  BY DEF TypeOK, Touch

LEMMA StoreType ==
  ASSUME TypeOK, NEW d \in Entries, NEW s \in States, Store(d, s)
  PROVE  /\ seq' \in Nat /\ rev' \in [Docs -> Nat]
         /\ state' \in [Entries -> States]
         /\ ledger' \in [Orders -> Int] /\ balance' \in [Orders -> Nat]
  <1>1. d \in Docs
    BY DEF Docs
  <1>2. seq' \in Nat /\ rev' \in [Docs -> Nat]
    BY <1>1, TouchType DEF Store
  <1>3. state' \in [Entries -> States]
    BY DEF Store, TypeOK
  <1>4. OrderOf[d] \in Orders /\ state[d] \in States
    BY DocsAssumption DEF TypeOK
  <1>5. Emitted(d, state[d]) \in Int /\ Emitted(d, s) \in Int
    BY <1>4, EmittedType
  <1>6. ledger' \in [Orders -> Int]
    BY <1>4, <1>5 DEF Store, TypeOK
  <1>7. balance' \in [Orders -> Nat]
    BY DEF Store, TypeOK
  <1> QED
    BY <1>2, <1>3, <1>6, <1>7

-----------------------------------------------------------------------------
(* Type correctness *)

\* Every step keeps the types.
LEMMA TypeStep == TypeOK /\ [Next]_vars => TypeOK'
  <1> SUFFICES ASSUME TypeOK, [Next]_vars PROVE TypeOK'
    OBVIOUS
  <1> USE StatusFacts
  <1>1. CASE Environment
    <2>1. ASSUME NEW d \in Entries, NEW s \in States, Store(d, s),
                 UNCHANGED monitor, revived' \subseteq Orders,
                 moves' \in Nat, UNCHANGED <<faults, crashes>>
          PROVE  TypeOK'
      <3>1. /\ seq' \in Nat /\ rev' \in [Docs -> Nat]
            /\ state' \in [Entries -> States]
            /\ ledger' \in [Orders -> Int] /\ balance' \in [Orders -> Nat]
        BY <2>1, StoreType
      <3> QED
        BY <2>1, <3>1 DEF TypeOK, monitor, timers, flush
    <2>2. ASSUME NEW t \in Trades, PostTrade(t) PROVE TypeOK'
      <3>1. t \in Entries
        BY DEF Entries
      <3>2. Store(t, Undecided) /\ UNCHANGED <<monitor, revived, bounds>>
        BY <2>2 DEF PostTrade
      <3> QED
        BY <2>1, <3>1, <3>2 DEF TypeOK, bounds
    <2>3. ASSUME NEW d \in Deposits, PostDeposit(d) PROVE TypeOK'
      <3>1. d \in Entries /\ "unpaid" \in States
        BY DEF Entries, States, DepositStates
      <3>2. Store(d, "unpaid") /\ UNCHANGED <<monitor, revived, bounds>>
        BY <2>3 DEF PostDeposit
      <3> QED
        BY <2>1, <3>1, <3>2 DEF TypeOK, bounds
    <2>4. ASSUME NEW d \in Deposits, NEW paid \in BOOLEAN, ChangeInvoiceStatus(d, paid)
          PROVE TypeOK'
      <3> DEFINE s == IF paid THEN "filled" ELSE "deleted"
      <3>1. d \in Entries /\ s \in States
        BY DEF Entries, States, DepositStates
      <3>2. Store(d, s) /\ UNCHANGED <<monitor, revived, bounds>>
        BY <2>4 DEF ChangeInvoiceStatus
      <3> QED
        BY <2>1, <3>1, <3>2 DEF TypeOK, bounds
    <2>5. ASSUME NEW t \in Trades, NEW s \in Statuses, MoveTrade(t, s) PROVE TypeOK'
      <3>1. t \in Entries /\ s \in States
        BY DEF Entries
      <3>2. revived' \subseteq Orders
        BY <2>5, <3>1, DocsAssumption DEF MoveTrade, TypeOK
      <3>3. /\ Store(t, s) /\ UNCHANGED monitor /\ moves' \in Nat
            /\ UNCHANGED <<faults, crashes>>
        BY <2>5 DEF MoveTrade, Moved, TypeOK
      <3> QED
        BY <2>1, <3>1, <3>2, <3>3
    <2>6. ASSUME NEW d \in Docs, EditDoc(d) PROVE TypeOK'
      <3>1. seq' \in Nat /\ rev' \in [Docs -> Nat]
        BY <2>6, TouchType DEF EditDoc
      <3> QED
        BY <2>6, <3>1 DEF EditDoc, Moved, TypeOK, monitor, timers, flush
    <2> QED
      BY <1>1, <2>2, <2>3, <2>4, <2>5, <2>6 DEF Environment
  <1>2. CASE Fetch
    <2>1. \A d \in Docs : Event(d) \in Events /\ Event(d).id \in Docs
      <3> TAKE d \in Docs
      <3>1. (IF d \in Entries THEN state[d] ELSE "order") \in States
        BY DEF TypeOK, States
      <3>2. rev[d] \in Nat
        BY DEF TypeOK
      <3> QED
        BY <3>1, <3>2 DEF Event, Events
    <2>2. feed' \subseteq Events /\ \A e \in feed' : e.id \in Docs
      BY <1>2, <2>1 DEF Fetch
    <2> QED
      BY <1>2, <2>2 DEF Fetch, TypeOK, db, timers, flush, bounds
  <1>3. CASE (\E e \in feed : Deliver(e)) \/ DeliverIdle
    <2>1. StartOfOnChange \in {"saveSeq", "query", "timeouts"}
      BY DEF StartOfOnChange
    <2> QED
      BY <1>3, <2>1 DEF Deliver, DeliverIdle, TypeOK, db, timers, flush, bounds, Pcs
  <1>4. CASE TickSeq \/ TickOrders
    BY <1>4 DEF TickSeq, TickOrders, Expire, TypeOK, db, flush, bounds
  <1>5. CASE SaveSeq \/ SaveSeqRefused
    <2>1. AfterSave \in {"query", "timeouts"}
      BY DEF AfterSave
    <2> QED
      BY <1>5, <2>1 DEF SaveSeq, SaveSeqRefused, TypeOK, db, timers, flush, bounds, Pcs
  <1>6. CASE QueryBalance
    <2>1. need' \in [Orders -> Nat]
      BY <1>6, AsSatoshiType DEF QueryBalance, TypeOK
    <2> QED
      BY <1>6, <2>1 DEF QueryBalance, TypeOK, db, flushRest, Pcs
  <1>7. CASE ReadOrders
    <2>1. chset' \subseteq Orders \X Nat
      BY <1>7 DEF ReadOrders, TypeOK, Docs
    <2> QED
      BY <1>7, <2>1 DEF ReadOrders, TypeOK, db, flushRest, Pcs
  <1>8. ASSUME NEW p \in chset, CommitOrder(p) \/ CommitOrderFails(p) PROVE TypeOK'
    <2>1. p[1] \in Orders /\ p[1] \in Docs
      BY DEF TypeOK, Docs
    <2>2. CASE CommitOrder(p) /\ rev[p[1]] = p[2]
      <3>1. seq' \in Nat /\ rev' \in [Docs -> Nat]
        BY <2>1, <2>2, TouchType DEF CommitOrder
      <3> QED
        BY <2>1, <2>2, <3>1 DEF CommitOrder, TypeOK, flushRest
    <2>3. CASE CommitOrder(p) /\ rev[p[1]] # p[2]
      BY <2>1, <2>3 DEF CommitOrder, TypeOK, db, flushRest
    <2>4. CASE CommitOrderFails(p)
      BY <2>1, <2>4 DEF CommitOrderFails, TypeOK, db, flushRest
    <2> QED
      BY <1>8, <2>2, <2>3, <2>4
  <1>9. CASE CommitDone \/ UpdateFails
    BY <1>9 DEF CommitDone, UpdateFails, FlushEnds, TypeOK, db, flushRest, Pcs
  <1>10. CASE TimeoutsUndefined \/ Crash
    <2>1. Idle \in Events /\ Idle.rev = 0
      BY IdleFacts
    <2>2. crashes' \in Nat
      BY <1>10 DEF TimeoutsUndefined, Crash, TypeOK
    <2>3. Stop
      BY <1>10 DEF TimeoutsUndefined, Crash
    <2>4. pc' = "down" /\ pc' \in Pcs
      BY <2>3 DEF Stop, Pcs
    <2>5. ev' \in Events /\ ~(ev'.rev > 0) /\ pc' \notin {"lockQuery", "lockPut"}
      BY <2>1, <2>3 DEF Stop
    <2> QED
      BY <2>2, <2>3, <2>4, <2>5 DEF Stop, TypeOK, db
  <1>11. CASE Restart
    BY <1>11 DEF Restart, ReloadOpenTrades, TypeOK, db, flush, bounds, Pcs
  <1>12. CASE Rest
    BY <1>12 DEF Rest, TypeOK, db, timers, flush, bounds, Pcs
  <1>13. CASE Dispatch
    <2>1. Idle \in Events /\ Idle.rev = 0
      BY IdleFacts
    <2>2. ev.rev \in Nat /\ ev.id \in Docs
      BY <1>13 DEF Dispatch, TypeOK, Events
    <2>3. CASE ev.id \in Trades /\ ev.st = Undecided
      BY <1>13, <2>2, <2>3 DEF Dispatch, TypeOK, db, flush, bounds, Pcs
    <2>4. CASE ~(ev.id \in Trades /\ ev.st = Undecided)
      <3>1. \/ UNCHANGED <<ordTimer, ordersToUpdate>>
            \/ ev.id \in Entries /\ MustUpdate(OrderOf[ev.id])
        BY <1>13, <2>4 DEF Dispatch, Entries
      <3>2. ordersToUpdate' \subseteq Orders /\ ordTimer' \in {"off", "armed", "due"}
        BY <3>1, DocsAssumption DEF MustUpdate, TypeOK
      <3>3. openTrades' \subseteq Trades
        BY <1>13, <2>4 DEF Dispatch, UpdateTrade, TypeOK
      <3> QED
        BY <1>13, <2>1, <2>2, <2>4, <3>2, <3>3 DEF Dispatch, TypeOK, db, flush, bounds, Pcs
    <2> QED
      BY <2>3, <2>4
  <1>14. CASE LockQuery
    BY <1>14 DEF LockQuery, TypeOK, db, timers, flush, bounds, Pcs
  <1>15. CASE LockPut
    <2>1. ev.id \in Entries /\ Decision(ev.id) \in States
      BY <1>15 DEF LockPut, TypeOK, Entries, Decision, States, TradeStates, Statuses
    <2>2. /\ seq' \in Nat /\ rev' \in [Docs -> Nat]
          /\ state' \in [Entries -> States]
          /\ ledger' \in [Orders -> Int] /\ balance' \in [Orders -> Nat]
      BY <1>15, <2>1, StoreType DEF LockPut
    <2>3. Idle \in Events /\ Idle.rev = 0
      BY IdleFacts
    <2>4. ev' \in Events /\ ~(ev'.rev > 0)
      BY <1>15, <2>3 DEF LockPut
    <2> QED
      BY <1>15, <2>2, <2>4 DEF LockPut, TypeOK, timers, flush, bounds, Pcs
  <1>16. CASE LockConflict \/ OnChangeThrows
    <2>1. Idle \in Events /\ Idle.rev = 0
      BY IdleFacts
    <2>2. cursor' \in Nat
      BY <1>16 DEF LockConflict, OnChangeThrows, Abandon, TypeOK, Events
    <2>3. ev' \in Events /\ ~(ev'.rev > 0)
      BY <1>16, <2>1 DEF LockConflict, OnChangeThrows, Abandon
    <2>4. pc' = "wait" /\ grant' = FALSE /\ feed' \subseteq feed /\ faults' \in Nat
      BY <1>16 DEF LockConflict, OnChangeThrows, Abandon, TypeOK
    <2> QED
      BY <1>16, <2>2, <2>3, <2>4
      DEF LockConflict, OnChangeThrows, Abandon, TypeOK, db, timers, flush, bounds, Pcs
  <1>17. CASE UNCHANGED vars
    BY <1>17 DEF vars, TypeOK, db, timers, flush, bounds
  <1> QED
    BY <1>1, <1>2, <1>3, <1>4, <1>5, <1>6, <1>7, <1>8, <1>9, <1>10, <1>11,
       <1>12, <1>13, <1>14, <1>15, <1>16, <1>17
    DEF Next, OnChange, Faults

LEMMA TypeInit == Init => TypeOK
  <1> SUFFICES ASSUME Init PROVE TypeOK
    OBVIOUS
  <1> USE StatusFacts, DocsAssumption
  <1>1. state \in [Entries -> States]
    BY DEF Init, States, TradeStates, Statuses
  <1>2. rev \in [Docs -> Nat]
    BY DEF Init
  <1>3. Idle \in Events /\ Idle.rev = 0
    BY DEF Idle, Events, States, TradeStates
  <1>4. ev \in Events /\ ~(ev.rev > 0)
    BY <1>3 DEF Init
  <1>5. /\ ledger \in [Orders -> Int] /\ balance \in [Orders -> Nat]
        /\ need \in [Orders -> Nat] /\ openTrades \subseteq Trades
    BY DEF Init
  <1> QED
    BY <1>1, <1>2, <1>4, <1>5 DEF Init, TypeOK, Pcs

\* The monitor and everyone it shares the database with keep every variable in
\* its type.
THEOREM TypeCorrect == Spec => []TypeOK
  <1>1. Init => TypeOK
    BY TypeInit
  <1>2. TypeOK /\ [Next]_vars => TypeOK'
    BY TypeStep
  <1> QED
    BY <1>1, <1>2, PTL DEF Spec

-----------------------------------------------------------------------------
(* Snapshots: an event tells the truth while its revision is current *)

\* A write makes every event of the written document stale and leaves the
\* others alone.
LEMMA TouchCurrent ==
  ASSUME TypeOK, NEW d \in Docs, Touch(d),
         \A x \in Entries \ {d} : state'[x] = state[x],
         NEW e \in Events, e.rev <= seq, Current(e)
  PROVE  e.rev <= seq' /\ Current(e)'
  <1>1. seq \in Nat /\ e.rev \in Nat /\ seq' = seq + 1
    BY DEF TypeOK, Events, Touch
  <1>2. CASE e.id = d
    BY <1>1, <1>2 DEF Touch, TypeOK, Current
  <1>3. CASE e.id # d
    BY <1>1, <1>3 DEF Touch, TypeOK, Current, Docs
  <1> QED
    BY <1>2, <1>3

LEMMA TouchRev ==
  ASSUME TypeOK, SnapshotsTrue, NEW d \in Docs, Touch(d)
  PROVE  \A x \in Docs : rev'[x] <= seq'
  BY DEF TypeOK, SnapshotsTrue, Touch

\* A write by anyone that leaves the monitor alone.
LEMMA WriteKeepsSnapshots ==
  ASSUME TypeOK, SnapshotsTrue, NEW d \in Docs, Touch(d),
         \A x \in Entries \ {d} : state'[x] = state[x],
         UNCHANGED <<pc, ev, feed>>
  PROVE  SnapshotsTrue'
  <1>1. \A x \in Docs : rev'[x] <= seq'
    BY TouchRev
  <1>2. ASSUME NEW e \in feed PROVE e.rev <= seq' /\ Current(e)'
    BY <1>2, TouchCurrent DEF TypeOK, SnapshotsTrue
  <1>3. ev.rev <= seq' /\ Current(ev)'
    <2>1. ASSUME NEW e \in Events, e = ev PROVE e.rev <= seq' /\ Current(e)'
      BY <2>1, TouchCurrent DEF SnapshotsTrue
    <2>2. ev \in Events /\ ev' = ev
      BY DEF TypeOK
    <2> QED
      BY <2>1, <2>2 DEF Current
  <1> QED
    BY <1>1, <1>2, <1>3 DEF SnapshotsTrue

LEMMA SnapshotsStep == TypeOK /\ SnapshotsTrue /\ [Next]_vars => SnapshotsTrue'
  <1> SUFFICES ASSUME TypeOK, SnapshotsTrue, [Next]_vars PROVE SnapshotsTrue'
    OBVIOUS
  <1>1. CASE Environment
    <2>1. ASSUME NEW d \in Entries, NEW s, Store(d, s), UNCHANGED monitor
          PROVE  SnapshotsTrue'
      <3>1. /\ d \in Docs /\ Touch(d) /\ UNCHANGED <<pc, ev, feed>>
            /\ \A x \in Entries \ {d} : state'[x] = state[x]
        BY <2>1 DEF Store, monitor, Docs, TypeOK
      <3> QED
        BY <3>1, WriteKeepsSnapshots
    <2>2. ASSUME NEW d \in Docs, EditDoc(d) PROVE SnapshotsTrue'
      <3>1. Touch(d) /\ UNCHANGED <<pc, ev, feed, state>>
        BY <2>2 DEF EditDoc, Moved, monitor
      <3> QED
        BY <3>1, WriteKeepsSnapshots
    <2> QED
      BY <1>1, <2>1, <2>2
      DEF Environment, PostTrade, PostDeposit, ChangeInvoiceStatus, MoveTrade,
          Moved, Entries
  <1>2. CASE Fetch
    <2>1. \A e \in feed' : e.rev <= seq /\ Current(e)
      BY <1>2 DEF Fetch, Event, Current, SnapshotsTrue
    <2> QED
      BY <1>2, <2>1 DEF Fetch, SnapshotsTrue, Current, db
  <1>3. ASSUME NEW e \in feed, Deliver(e) PROVE SnapshotsTrue'
    <2>1. StartOfOnChange \notin {"lockQuery", "lockPut"}
      BY DEF StartOfOnChange
    <2> QED
      BY <1>3, <2>1 DEF Deliver, SnapshotsTrue, Current, db
  <1>4. CASE UNCHANGED <<db, ev, feed>> /\ pc' \notin {"lockQuery", "lockPut"}
    BY <1>4 DEF SnapshotsTrue, Current, db
  <1>5. ASSUME UNCHANGED db, feed' \subseteq feed, ev' = Idle,
               pc' \notin {"lockQuery", "lockPut"}
        PROVE  SnapshotsTrue'
    <2>1. Idle.rev <= seq /\ ~(Idle.rev > 0)
      BY DEF TypeOK, Idle
    <2>2. ev'.rev <= seq' /\ Current(ev)'
      BY <1>5, <2>1 DEF Current, db
    <2> QED
      BY <1>5, <2>2 DEF SnapshotsTrue, Current, db
  <1>6. ASSUME NEW p \in chset, CommitOrder(p) PROVE SnapshotsTrue'
    <2>1. p[1] \in Docs
      BY DEF TypeOK, Docs
    <2>2. CASE rev[p[1]] = p[2]
      <3>1. Touch(p[1]) /\ UNCHANGED <<state, pc, ev, feed>>
        BY <1>6, <2>2 DEF CommitOrder, flushRest
      <3> QED
        BY <2>1, <3>1, WriteKeepsSnapshots
    <2>3. CASE rev[p[1]] # p[2]
      BY <1>6, <2>3 DEF CommitOrder, flushRest, SnapshotsTrue, Current, db
    <2> QED
      BY <2>2, <2>3
  <1>7. CASE Dispatch
    <2>1. CASE pc' = "lockQuery"
      <3>1. UNCHANGED <<db, ev, feed>> /\ ev.rev > 0 /\ ev.st = Undecided
        BY <1>7, <2>1 DEF Dispatch
      <3> QED
        BY <2>1, <3>1 DEF SnapshotsTrue, Current, db
    <2>2. CASE pc' # "lockQuery"
      <3>1. UNCHANGED <<db, feed>> /\ ev' = Idle /\ pc' = "wait"
        BY <1>7, <2>2 DEF Dispatch
      <3> QED
        BY <3>1, <1>5
    <2> QED
      BY <2>1, <2>2
  <1>8. CASE LockQuery
    BY <1>8 DEF LockQuery, SnapshotsTrue, Current, db
  <1>9. CASE LockPut
    <2>1. ev.id \in Entries /\ ev.id \in Docs
      BY <1>9 DEF LockPut, TypeOK, Entries, Docs
    <2>2. Touch(ev.id) /\ \A x \in Entries \ {ev.id} : state'[x] = state[x]
      BY <1>9, <2>1 DEF LockPut, Store, TypeOK
    <2>3. \A x \in Docs : rev'[x] <= seq'
      BY <2>1, <2>2, TouchRev
    <2>4. ASSUME NEW e \in feed PROVE e.rev <= seq' /\ Current(e)'
      BY <2>1, <2>2, <2>4, TouchCurrent DEF TypeOK, SnapshotsTrue
    <2>5. ev' = Idle /\ feed' = feed /\ pc' = "wait"
      BY <1>9 DEF LockPut
    <2>6. Idle.rev <= seq' /\ ~(Idle.rev > 0)
      BY <2>2 DEF TypeOK, Idle, Touch
    <2>7. ev'.rev <= seq' /\ Current(ev)'
      BY <2>5, <2>6 DEF Current
    <2> QED
      BY <2>3, <2>4, <2>5, <2>7 DEF SnapshotsTrue
  <1>10. CASE \/ TickSeq \/ TickOrders \/ DeliverIdle \/ SaveSeq \/ SaveSeqRefused
              \/ QueryBalance \/ ReadOrders \/ CommitDone \/ UpdateFails
              \/ (\E p \in chset : CommitOrderFails(p)) \/ Rest
    <2>1. StartOfOnChange \notin {"lockQuery", "lockPut"}
          /\ AfterSave \notin {"lockQuery", "lockPut"}
      BY DEF StartOfOnChange, AfterSave
    <2>2. UNCHANGED <<db, ev, feed>> /\ pc' \notin {"lockQuery", "lockPut"}
      BY <1>10, <2>1
      DEF TickSeq, TickOrders, Expire, DeliverIdle, SaveSeq, SaveSeqRefused,
          QueryBalance, ReadOrders, CommitDone, UpdateFails, CommitOrderFails,
          FlushEnds, Rest, flushRest
    <2> QED
      BY <2>2, <1>4
  <1>11. CASE TimeoutsUndefined \/ Crash \/ LockConflict \/ OnChangeThrows
    <2>1. /\ UNCHANGED db /\ feed' \subseteq feed /\ ev' = Idle
          /\ pc' \notin {"lockQuery", "lockPut"}
      BY <1>11 DEF TimeoutsUndefined, Crash, Stop, LockConflict, OnChangeThrows, Abandon
    <2> QED
      BY <2>1, <1>5
  <1>12. CASE Restart
    BY <1>12, <1>4 DEF Restart
  <1>13. CASE UNCHANGED vars
    BY <1>13 DEF vars, db, SnapshotsTrue, Current
  <1> QED
    BY <1>1, <1>2, <1>3, <1>6, <1>7, <1>8, <1>9, <1>10, <1>11, <1>12, <1>13
    DEF Next, OnChange, Faults

-----------------------------------------------------------------------------
(* Locking *)

\* The view moves by what the written document emits now and emitted before.
LEMMA StoreLedger ==
  ASSUME TypeOK, NEW d \in Entries, NEW s \in States, Store(d, s)
  PROVE  /\ OrderOf[d] \in Orders
         /\ Emitted(d, s) \in Int /\ Emitted(d, state[d]) \in Int
         /\ ledger'[OrderOf[d]] =
              ledger[OrderOf[d]] - Emitted(d, state[d]) + Emitted(d, s)
         /\ \A o \in Orders : o # OrderOf[d] => ledger'[o] = ledger[o]
  <1>1. OrderOf[d] \in Orders /\ state[d] \in States
    BY DocsAssumption DEF TypeOK
  <1>2. Emitted(d, s) \in Int /\ Emitted(d, state[d]) \in Int
    BY <1>1, EmittedType
  <1> QED
    BY <1>1, <1>2 DEF Store, TypeOK

LEMMA ReserveFacts ==
  \A t \in Trades : Reserve(t) \in Nat /\ Reserve(t) <= Amount[t] + Fee[t]
  BY DocsAssumption DEF Reserve, Entries

\* A trade of a live status reserves at least what any later one does.
LEMMA MoveEmits ==
  ASSUME NEW t \in Trades, NEW a, NEW b,
         <<a, b>> \in TradeMoves, a # "canceled"
  PROVE  Emitted(t, a) <= Emitted(t, b)
  <1>1. a \in Statuses \ {"canceled"} /\ b \in Statuses
    <2> DEFINE m == <<a, b>>
    <2>1. m[1] = a /\ m[2] = b
      OBVIOUS
    <2>2. m \in WireMoves => m[1] \in Statuses /\ m[2] \in Statuses
      BY DEF WireMoves, Statuses
    <2>3. m \in UserMoves => m[1] \in Statuses /\ m[2] \in Statuses
      BY DEF UserMoves, Statuses
    <2> QED
      BY <2>1, <2>2, <2>3 DEF TradeMoves
  <1>2. t \notin Deposits
    BY DocsAssumption
  <1>3. Emitted(t, a) = 0 - Reserve(t)
    BY <1>1, <1>2 DEF Emitted, Blocking
  <1>4. Emitted(t, b) = 0 - Reserve(t) \/ Emitted(t, b) = 0
    BY <1>2 DEF Emitted, Blocking
  <1> QED
    BY <1>3, <1>4, ReserveFacts

\* Users, the wallet and the banks take balance from an order only by reviving
\* one of its canceled trades.
LEMMA EnvironmentKeepsLedger ==
  ASSUME TypeOK, Environment
  PROVE  /\ UNCHANGED <<pc, ev, grant>> /\ revived \subseteq revived'
         /\ \A o \in Orders \ revived' : ledger[o] <= ledger'[o]
  <1>1. ASSUME NEW d \in Entries, NEW s \in States, Store(d, s),
               Emitted(d, state[d]) <= Emitted(d, s) \/ OrderOf[d] \in revived'
        PROVE  \A o \in Orders \ revived' : ledger[o] <= ledger'[o]
    BY <1>1, StoreLedger DEF TypeOK
  <1>2. ASSUME NEW t \in Trades, PostTrade(t)
        PROVE  \A o \in Orders \ revived' : ledger[o] <= ledger'[o]
    <2>1. t \in Entries /\ Store(t, Undecided) /\ state[t] = "absent"
      BY <1>2 DEF PostTrade, Entries
    <2>2. Emitted(t, "absent") = 0 /\ Emitted(t, Undecided) = 0
      BY DocsAssumption DEF Emitted, Blocking, Statuses, Undecided
    <2> QED
      BY <1>1, <2>1, <2>2, StatusFacts
  <1>3. ASSUME NEW d \in Deposits, PostDeposit(d)
        PROVE  \A o \in Orders \ revived' : ledger[o] <= ledger'[o]
    <2>1. /\ d \in Entries /\ "unpaid" \in States
          /\ Store(d, "unpaid") /\ state[d] = "absent"
      BY <1>3 DEF PostDeposit, Entries, States, DepositStates
    <2>2. Emitted(d, "absent") = 0 /\ Emitted(d, "unpaid") = 0
      BY DocsAssumption DEF Emitted
    <2> QED
      BY <1>1, <2>1, <2>2
  <1>4. ASSUME NEW d \in Deposits, NEW paid \in BOOLEAN, ChangeInvoiceStatus(d, paid)
        PROVE  \A o \in Orders \ revived' : ledger[o] <= ledger'[o]
    <2> DEFINE s == IF paid THEN "filled" ELSE "deleted"
    <2>1. d \in Entries /\ s \in States /\ Store(d, s) /\ state[d] = "unpaid"
      BY <1>4 DEF ChangeInvoiceStatus, Entries, States, DepositStates
    <2>2. Emitted(d, "unpaid") = 0 /\ 0 <= Emitted(d, s)
      BY <2>1, DocsAssumption DEF Emitted
    <2> QED
      BY <1>1, <2>1, <2>2
  <1>5. ASSUME NEW t \in Trades, NEW s \in Statuses, MoveTrade(t, s)
        PROVE  /\ revived \subseteq revived'
               /\ \A o \in Orders \ revived' : ledger[o] <= ledger'[o]
    <2>1. /\ t \in Entries /\ s \in States /\ Store(t, s)
          /\ <<state[t], s>> \in TradeMoves
      BY <1>5, StatusFacts DEF MoveTrade, Entries
    <2>2. Emitted(t, state[t]) <= Emitted(t, s) \/ OrderOf[t] \in revived'
      BY <1>5, <2>1, MoveEmits DEF MoveTrade
    <2> QED
      BY <1>1, <1>5, <2>1, <2>2 DEF MoveTrade
  <1>6. ASSUME NEW d \in Docs, EditDoc(d)
        PROVE  \A o \in Orders \ revived' : ledger[o] <= ledger'[o]
    BY <1>6 DEF EditDoc, TypeOK
  <1>7. UNCHANGED <<pc, ev, grant>>
    <2>1. UNCHANGED monitor
      BY DEF Environment, PostTrade, PostDeposit, ChangeInvoiceStatus, MoveTrade,
             EditDoc, Moved
    <2> QED
      BY <2>1 DEF monitor
  <1>8. revived \subseteq revived'
    <2>1. (\E t \in Trades, s \in Statuses : MoveTrade(t, s)) \/ UNCHANGED revived
      BY DEF Environment, PostTrade, PostDeposit, ChangeInvoiceStatus, EditDoc
    <2> QED
      BY <1>5, <2>1
  <1> QED
    BY <1>2, <1>3, <1>4, <1>5, <1>6, <1>7, <1>8 DEF Environment

LEMMA LockStep == LockInv /\ [Next]_vars => GrantCovered' /\ NoOverbooking'
  <1> SUFFICES ASSUME TypeOK, SnapshotsTrue, GrantCovered, NoOverbooking, [Next]_vars
               PROVE  GrantCovered' /\ NoOverbooking'
    BY DEF LockInv
  <1>1. CASE Environment
    <2>1. /\ UNCHANGED <<pc, ev, grant>> /\ revived \subseteq revived'
          /\ \A o \in Orders \ revived' : ledger[o] <= ledger'[o]
      BY <1>1, EnvironmentKeepsLedger
    <2>2. ledger' \in [Orders -> Int]
      BY TypeStep DEF TypeOK
    <2>3. NoOverbooking'
      BY <2>1, <2>2 DEF NoOverbooking, TypeOK
    <2>4. GrantCovered'
      <3> SUFFICES ASSUME pc = "lockPut", grant, OrderOf[ev.id] \notin revived'
                   PROVE  Amount[ev.id] + Fee[ev.id] <= ledger'[OrderOf[ev.id]]
        BY <2>1 DEF GrantCovered
      <3>1. /\ OrderOf[ev.id] \in Orders
            /\ Amount[ev.id] \in Nat /\ Fee[ev.id] \in Nat
        BY DocsAssumption DEF TypeOK, Entries
      <3>2. Amount[ev.id] + Fee[ev.id] <= ledger[OrderOf[ev.id]]
        BY <2>1 DEF GrantCovered
      <3>3. ledger[OrderOf[ev.id]] <= ledger'[OrderOf[ev.id]]
        BY <2>1, <3>1
      <3> QED
        BY <2>2, <3>1, <3>2, <3>3 DEF TypeOK
    <2> QED
      BY <2>3, <2>4
  <1>2. CASE UNCHANGED <<ledger, revived>> /\ pc' # "lockPut"
    BY <1>2 DEF GrantCovered, NoOverbooking
  <1>3. CASE \/ Fetch \/ DeliverIdle \/ TickSeq \/ TickOrders
             \/ (\E e \in feed : Deliver(e)) \/ Restart \/ Crash \/ Faults
             \/ SaveSeq \/ QueryBalance \/ ReadOrders \/ CommitDone
             \/ (\E p \in chset : CommitOrder(p)) \/ TimeoutsUndefined
             \/ Rest \/ Dispatch \/ LockConflict
    <2>1. StartOfOnChange # "lockPut" /\ AfterSave # "lockPut"
      BY DEF StartOfOnChange, AfterSave
    <2>2. UNCHANGED <<ledger, revived>> /\ pc' # "lockPut"
      BY <1>3, <2>1
      DEF Fetch, DeliverIdle, TickSeq, TickOrders, Expire, Deliver, Restart,
          Crash, Stop, Faults, SaveSeqRefused, UpdateFails, CommitOrderFails,
          OnChangeThrows, Abandon, SaveSeq, QueryBalance, ReadOrders, CommitDone,
          FlushEnds, CommitOrder, TimeoutsUndefined, Rest, Dispatch, LockConflict,
          flushRest, db
    <2> QED
      BY <2>2, <1>2
  <1>4. CASE LockQuery
    <2>1. OrderOf[ev.id] \in Orders
      BY <1>4, DocsAssumption DEF LockQuery, TypeOK, Entries
    <2>2. GrantCovered'
      <3>1. /\ UNCHANGED <<ledger, revived, ev>>
            /\ grant' => Amount[ev.id] + Fee[ev.id] <= AsSatoshi(ledger[OrderOf[ev.id]])
        BY <1>4 DEF LockQuery, db
      <3>2. OrderOf[ev.id] \notin revived =>
              AsSatoshi(ledger[OrderOf[ev.id]]) = ledger[OrderOf[ev.id]]
        BY <2>1 DEF NoOverbooking, AsSatoshi
      <3> QED
        BY <3>1, <3>2 DEF GrantCovered
    <2>3. NoOverbooking'
      BY <1>4 DEF LockQuery, NoOverbooking, db
    <2> QED
      BY <2>2, <2>3
  <1>5. CASE LockPut
    <2> DEFINE t == ev.id
    <2>1. /\ t \in Trades /\ t \in Entries /\ t \notin Deposits
          /\ OrderOf[t] \in Orders /\ Amount[t] \in Nat /\ Fee[t] \in Nat
      BY <1>5, DocsAssumption DEF LockPut, TypeOK, Entries
    <2>2. state[t] = Undecided
      BY <1>5, <2>1 DEF LockPut, SnapshotsTrue, Current
    <2>3. Decision(t) \in {"deleted", "filled", "created"} /\ Decision(t) \in States
      BY DEF Decision, States, TradeStates, Statuses
    <2>4. Store(t, Decision(t)) /\ pc' = "wait" /\ UNCHANGED revived
      BY <1>5 DEF LockPut
    <2>5. Emitted(t, Undecided) = 0
      BY <2>1 DEF Emitted, Blocking, Statuses, Undecided
    <2>6. /\ ~grant => Emitted(t, Decision(t)) = 0
          /\ 0 - (Amount[t] + Fee[t]) <= Emitted(t, Decision(t))
      <3>1. ~grant => Emitted(t, Decision(t)) = 0
        BY <2>1 DEF Emitted, Blocking, Statuses, Decision
      <3>2. Emitted(t, Decision(t)) = 0 - Reserve(t) \/ Emitted(t, Decision(t)) = 0
        BY <2>1, <2>3 DEF Emitted
      <3> QED
        BY <2>1, <3>1, <3>2, ReserveFacts
    <2>7. /\ Emitted(t, Decision(t)) \in Int
          /\ ledger'[OrderOf[t]] = ledger[OrderOf[t]] + Emitted(t, Decision(t))
          /\ \A o \in Orders : o # OrderOf[t] => ledger'[o] = ledger[o]
      BY <2>1, <2>2, <2>3, <2>4, <2>5, StoreLedger DEF TypeOK
    <2>8. OrderOf[t] \notin revived => 0 <= ledger'[OrderOf[t]]
      <3>1. grant /\ OrderOf[t] \notin revived =>
              Amount[t] + Fee[t] <= ledger[OrderOf[t]]
        BY <1>5 DEF GrantCovered, LockPut
      <3>2. OrderOf[t] \notin revived => 0 <= ledger[OrderOf[t]]
        BY <2>1 DEF NoOverbooking
      <3>3. ledger[OrderOf[t]] \in Int
        BY <2>1 DEF TypeOK
      <3> QED
        BY <2>1, <2>6, <2>7, <3>1, <3>2, <3>3
    <2>9. NoOverbooking'
      BY <2>4, <2>7, <2>8 DEF NoOverbooking
    <2> QED
      BY <2>4, <2>9 DEF GrantCovered
  <1>6. CASE UNCHANGED vars
    BY <1>6 DEF vars, db, GrantCovered, NoOverbooking
  <1> QED
    BY <1>1, <1>3, <1>4, <1>5, <1>6 DEF Next, OnChange

LEMMA LockInit == Init => LockInv
  <1> SUFFICES ASSUME Init PROVE LockInv
    OBVIOUS
  <1>1. TypeOK
    BY TypeInit
  <1>2. SnapshotsTrue
    BY DEF Init, SnapshotsTrue, Current, Idle
  <1>3. GrantCovered /\ NoOverbooking
    BY DEF Init, GrantCovered, NoOverbooking
  <1> QED
    BY <1>1, <1>2, <1>3 DEF LockInv

\* Locking never takes more than the filled deposits of an order brought, as
\* long as no late payment revives one of its canceled trades: for any number
\* of orders, trades and deposits, any amounts, conflicts, faults and crashes.
THEOREM LockingIsSafe == Spec => []NoOverbooking
  <1>1. Init => LockInv
    BY LockInit
  <1>2. LockInv /\ [Next]_vars => LockInv'
    BY TypeStep, SnapshotsStep, LockStep DEF LockInv
  <1>3. LockInv => NoOverbooking
    BY DEF LockInv
  <1> QED
    BY <1>1, <1>2, <1>3, PTL DEF Spec

-----------------------------------------------------------------------------
(* The view is the deposits less the trades *)

EntriesOf(o) == {d \in Entries : OrderOf[d] = o}

\* What the view emits for every document.
Emissions == [d \in Entries |-> Emitted(d, state[d])]

LedgerSums == \A o \in Orders : ledger[o] = SumFunctionOnSet(Emissions, EntriesOf(o))

LEMMA EntriesFinite == IsFiniteSet(Entries) /\ \A o : IsFiniteSet(EntriesOf(o))
  <1>1. IsFiniteSet(Entries)
    BY DocsAssumption, FS_Subset DEF Docs
  <1>2. \A o : EntriesOf(o) \subseteq Entries
    BY DEF EntriesOf
  <1> QED
    BY <1>1, <1>2, FS_Subset

\* Only a write of a document moves the view.
LEMMA StoresOrNot ==
  ASSUME TypeOK, [Next]_vars
  PROVE  \/ \E d \in Entries, s \in States : Store(d, s)
         \/ UNCHANGED <<state, ledger>>
  <1>1. ASSUME NEW t \in Trades, PostTrade(t) PROVE \E d \in Entries, s \in States : Store(d, s)
    BY <1>1, StatusFacts DEF PostTrade, Entries
  <1>2. ASSUME NEW d \in Deposits, PostDeposit(d)
        PROVE  \E x \in Entries, s \in States : Store(x, s)
    BY <1>2 DEF PostDeposit, Entries, States, DepositStates
  <1>3. ASSUME NEW d \in Deposits, NEW paid \in BOOLEAN, ChangeInvoiceStatus(d, paid)
        PROVE  \E x \in Entries, s \in States : Store(x, s)
    <2> DEFINE s == IF paid THEN "filled" ELSE "deleted"
    <2>1. d \in Entries /\ s \in States /\ Store(d, s)
      BY <1>3 DEF ChangeInvoiceStatus, Entries, States, DepositStates
    <2> QED
      BY <2>1
  <1>4. ASSUME NEW t \in Trades, NEW s \in Statuses, MoveTrade(t, s)
        PROVE  \E d \in Entries, x \in States : Store(d, x)
    BY <1>4, StatusFacts DEF MoveTrade, Entries
  <1>5. ASSUME LockPut PROVE \E d \in Entries, s \in States : Store(d, s)
    <2>1. ev.id \in Entries /\ Decision(ev.id) \in States /\ Store(ev.id, Decision(ev.id))
      BY <1>5 DEF LockPut, TypeOK, Entries, Decision, States, TradeStates, Statuses
    <2> QED
      BY <2>1
  <1>6. CASE ~Environment /\ ~LockPut
    BY <1>6
    DEF Next, OnChange, SaveSeq, QueryBalance, ReadOrders, CommitOrder, CommitDone, FlushEnds,
        TimeoutsUndefined, Stop, Rest, Dispatch, LockQuery, LockConflict, Abandon, Faults,
        SaveSeqRefused, UpdateFails, OnChangeThrows, CommitOrderFails, Fetch, Deliver,
        DeliverIdle, TickSeq, TickOrders, Expire, Crash, Restart, flushRest, db, vars
  <1> QED
    BY <1>1, <1>2, <1>3, <1>4, <1>5, <1>6 DEF Environment, EditDoc

LEMMA LedgerStep == TypeOK /\ LedgerSums /\ [Next]_vars => LedgerSums'
  <1> SUFFICES ASSUME TypeOK, LedgerSums, [Next]_vars, NEW o \in Orders
               PROVE  ledger'[o] = SumFunctionOnSet(Emissions', EntriesOf(o))
    BY DEF LedgerSums, EntriesOf
  <1>1. IsFiniteSet(EntriesOf(o)) /\ ledger[o] = SumFunctionOnSet(Emissions, EntriesOf(o))
    BY EntriesFinite DEF LedgerSums
  <1>2. ASSUME NEW d \in Entries, NEW s \in States, Store(d, s)
        PROVE  ledger'[o] = SumFunctionOnSet(Emissions', EntriesOf(o))
    <2>1. /\ Emissions[d] = Emitted(d, state[d]) /\ Emissions'[d] = Emitted(d, s)
          /\ \A x \in Entries \ {d} : Emissions'[x] = Emissions[x]
      BY <1>2 DEF Emissions, Store, TypeOK
    <2>2. \A x \in Entries : Emissions[x] \in Int /\ Emissions'[x] \in Int
      <3>1. \A x \in Entries : Emissions[x] \in Int
        BY EmittedType DEF Emissions, TypeOK
      <3>2. Emissions'[d] \in Int
        BY <2>1, EmittedType
      <3> QED
        BY <2>1, <3>1, <3>2
    <2>3. \A x \in EntriesOf(o) : x \in Entries
      BY DEF EntriesOf
    <2>4. CASE OrderOf[d] = o
      <3>1. d \in EntriesOf(o)
        BY <2>4 DEF EntriesOf
      <3>2. \A x \in EntriesOf(o) : /\ Emissions[x] \in Int /\ Emissions'[x] \in Int
                                    /\ x # d => Emissions'[x] = Emissions[x]
        BY <2>1, <2>2, <2>3
      <3>3. SumFunctionOnSet(Emissions', EntriesOf(o))
              = SumFunctionOnSet(Emissions, EntriesOf(o)) - Emissions[d] + Emissions'[d]
        BY <1>1, <3>1, <3>2, SumChange
      <3>4. ledger'[o] = ledger[o] - Emissions[d] + Emissions'[d]
        BY <1>2, <2>1, <2>4, StoreLedger
      <3> QED
        BY <1>1, <3>3, <3>4
    <2>5. CASE OrderOf[d] # o
      <3>1. \A x \in EntriesOf(o) : Emissions[x] \in Int /\ Emissions'[x] = Emissions[x]
        BY <2>1, <2>2, <2>5 DEF EntriesOf
      <3>2. SumFunctionOnSet(Emissions', EntriesOf(o)) = SumFunctionOnSet(Emissions, EntriesOf(o))
        BY <1>1, <3>1, SumSame
      <3>3. ledger'[o] = ledger[o]
        BY <1>2, <2>5, StoreLedger
      <3> QED
        BY <1>1, <3>2, <3>3
    <2> QED
      BY <2>4, <2>5
  <1>3. CASE UNCHANGED <<state, ledger>>
    <2>1. Emissions' = Emissions /\ ledger'[o] = ledger[o]
      BY <1>3 DEF Emissions
    <2> QED
      BY <1>1, <2>1
  <1> QED
    BY <1>2, <1>3, StoresOrNot

\* A sum of the view is what the filled deposits brought less what the blocking
\* trades took.
LEMMA EmissionsSplit ==
  ASSUME TypeOK, NEW o \in Orders
  PROVE  SumFunctionOnSet(Emissions, EntriesOf(o)) = Book!Brought(o) - Book!Taken(o)
  <1> DEFINE S == EntriesOf(o)
             h == [t \in Trades |-> Amount[t] + Fee[t]]
             A == {d \in Deposits : OrderOf[d] = o /\ state[d] = "filled"}
             B == {t \in Trades : OrderOf[t] = o /\ Blocking(state[t]) /\ Amount[t] > 0}
  <1>1. IsFiniteSet(S)
    BY EntriesFinite
  <1>2. (\A x \in A : Amount[x] \in Int) /\ (\A x \in B : h[x] \in Int)
    BY DocsAssumption DEF Entries
  <1>3. \A x \in S : Emissions[x]
                       = (IF x \in A THEN Amount[x] ELSE 0) - (IF x \in B THEN h[x] ELSE 0)
    <2> SUFFICES ASSUME NEW x \in S
                 PROVE  Emissions[x]
                       = (IF x \in A THEN Amount[x] ELSE 0) - (IF x \in B THEN h[x] ELSE 0)
      OBVIOUS
    <2>1. x \in Entries /\ OrderOf[x] = o /\ Emissions[x] = Emitted(x, state[x]) /\ Amount[x] \in Nat
      BY DocsAssumption DEF Emissions, EntriesOf
    <2>2. CASE x \in Trades
      <3>1. x \notin A /\ h[x] = Amount[x] + Fee[x] /\ Fee[x] \in Nat
        BY <2>2, DocsAssumption
      <3>2. x \in B <=> Blocking(state[x]) /\ Amount[x] > 0
        BY <2>1, <2>2
      <3>3. Emitted(x, state[x]) = IF Blocking(state[x]) THEN 0 - Reserve(x) ELSE 0
        BY <2>2, DocsAssumption DEF Emitted
      <3> HIDE DEF A, B, h
      <3> QED
        BY <2>1, <3>1, <3>2, <3>3 DEF Reserve
    <2>3. CASE x \in Deposits
      <3>1. x \notin B /\ (x \in A <=> state[x] = "filled")
        BY <2>1, <2>3, DocsAssumption
      <3>2. Emitted(x, state[x]) = IF state[x] = "filled" THEN Amount[x] ELSE 0
        BY <2>3, DocsAssumption DEF Emitted
      <3> HIDE DEF A, B, h
      <3> QED
        BY <2>1, <3>1, <3>2
    <2> QED
      BY <2>1, <2>2, <2>3 DEF Entries
  <1>4. A \in SUBSET S /\ B \in SUBSET S
    BY DEF EntriesOf, Entries
  <1>5. Book!Brought(o) = SumFunctionOnSet(Amount, A) /\ Book!Taken(o) = SumFunctionOnSet(h, B)
    BY DEF Book!Brought, Book!Taken
  <1> HIDE DEF S, A, B, A, B, h
  <1>6. SumFunctionOnSet(Emissions, S)
          = SumFunctionOnSet(Amount, A) - SumFunctionOnSet(h, B)
    BY <1>1, <1>2, <1>3, <1>4, SumSplit
  <1> QED
    BY <1>5, <1>6 DEF S

LEMMA TakenType ==
  ASSUME TypeOK, NEW o \in Orders
  PROVE  Book!Brought(o) \in Int /\ Book!Taken(o) \in Int
  <1> DEFINE h == [t \in Trades |-> Amount[t] + Fee[t]]
             SA == {d \in Deposits : OrderOf[d] = o /\ state[d] = "filled"}
             SB == {t \in Trades : OrderOf[t] = o /\ Blocking(state[t]) /\ Amount[t] > 0}
  <1>1. SA \subseteq Entries /\ SB \subseteq Entries
    BY DEF Entries
  <1>2. (\A x \in SA : Amount[x] \in Int) /\ (\A x \in SB : h[x] \in Int)
    BY DocsAssumption DEF Entries
  <1>3. Book!Brought(o) = SumFunctionOnSet(Amount, SA) /\ Book!Taken(o) = SumFunctionOnSet(h, SB)
    BY DEF Book!Brought, Book!Taken
  <1> HIDE DEF SA, SB, h
  <1>4. IsFiniteSet(SA) /\ IsFiniteSet(SB)
    BY <1>1, EntriesFinite, FS_Subset
  <1> QED
    BY <1>2, <1>3, <1>4, SumInt

LEMMA LedgerInit == Init => LedgerSums
  <1> SUFFICES ASSUME Init, NEW o \in Orders
               PROVE  ledger[o] = SumFunctionOnSet(Emissions, EntriesOf(o))
    BY DEF LedgerSums
  <1> DEFINE g == [T \in SUBSET EntriesOf(o) |-> 0]
  <1>1. \A d \in EntriesOf(o) : Emissions[d] = 0
    BY DocsAssumption DEF Init, EntriesOf, Emissions, Emitted, Blocking, Statuses, Entries
  <1>2. Summing(Emissions, EntriesOf(o), g)
    BY <1>1 DEF Summing
  <1>3. g[EntriesOf(o)] = 0 /\ ledger[o] = 0
    BY DEF Init
  <1> HIDE DEF g
  <1> QED
    BY <1>2, <1>3, EntriesFinite, SumIsSumming

\* The filled deposits of an order cover the amounts and fees of all its trades that
\* block its balance, unless a late payment revived a canceled one: for any number of
\* documents and any amounts, conflicts, faults and crashes (lockOrderBalance).
THEOREM DepositsCover == Spec => []DepositsCoverTrades
  <1>1. Init => LockInv /\ LedgerSums
    BY LockInit, LedgerInit
  <1>2. LockInv /\ LedgerSums /\ [Next]_vars => LockInv' /\ LedgerSums'
    BY TypeStep, SnapshotsStep, LockStep, LedgerStep DEF LockInv
  <1>3. LockInv /\ LedgerSums => DepositsCoverTrades
    <2> SUFFICES ASSUME LockInv, LedgerSums, NEW o \in Orders, o \notin revived
                 PROVE  Book!Taken(o) <= Book!Brought(o)
      BY DEF DepositsCoverTrades
    <2>1. ledger[o] = Book!Brought(o) - Book!Taken(o) /\ 0 <= ledger[o]
      BY EmissionsSplit DEF LockInv, LedgerSums, NoOverbooking
    <2>2. Book!Brought(o) \in Int /\ Book!Taken(o) \in Int
      BY TakenType DEF LockInv
    <2> QED
      BY <2>1, <2>2
  <1> QED
    BY <1>1, <1>2, <1>3, PTL DEF Spec

\* ... and so says the view (order_balance).
THEOREM BalancesAreCovered == Spec => []BalancesCovered
  BY LockingIsSafe, DepositsCover, PTL DEF BalancesCovered

-----------------------------------------------------------------------------
(* Decisions take effect at one instant *)

\* Who posts, pays or moves a document does what the book knows.
LEMMA EnvironmentIsBooked ==
  ASSUME TypeOK, Environment
  PROVE  Book!Next \/ UNCHANGED <<state, revived>>
  <1>1. \A d \in Entries : \A s : Store(d, s) /\ s # state[d] =>
           state' = [state EXCEPT ![d] = s] /\ state' # state
    BY DEF Store, TypeOK
  <1>2. ASSUME NEW t \in Trades, PostTrade(t) PROVE Book!Next
    <2>1. Book!Post(t) /\ state' # state
      BY <1>1, <1>2 DEF PostTrade, Undecided, Book!Post, Book!Becomes, Entries
    <2> QED
      BY <2>1 DEF Book!Next
  <1>3. ASSUME NEW d \in Deposits, PostDeposit(d) PROVE Book!Next
    <2>1. d \notin Trades
      BY DocsAssumption
    <2>2. Book!Post(d) /\ state' # state
      BY <1>1, <1>3, <2>1 DEF PostDeposit, Book!Post, Book!Becomes, Entries
    <2> QED
      BY <2>2 DEF Book!Next
  <1>4. ASSUME NEW d \in Deposits, NEW paid \in BOOLEAN, ChangeInvoiceStatus(d, paid)
        PROVE  Book!Next
    <2> DEFINE s == IF paid THEN "filled" ELSE "deleted"
    <2>1. s \in {"filled", "deleted"} /\ state[d] = "unpaid" /\ Store(d, s) /\ s # state[d]
      BY <1>4 DEF ChangeInvoiceStatus
    <2> HIDE DEF s
    <2>2. Book!Settle(d) /\ state' # state
      BY <1>1, <1>4, <2>1 DEF ChangeInvoiceStatus, Book!Settle, Book!Becomes, Entries
    <2> QED
      BY <2>2 DEF Book!Next
  <1>5. ASSUME NEW t \in Trades, NEW s \in Statuses, MoveTrade(t, s) PROVE Book!Next
    <2>1. Book!Move(t, s) /\ state' # state
      BY <1>1, <1>5 DEF MoveTrade, Book!Move, Book!Becomes, Entries
    <2> QED
      BY <2>1 DEF Book!Next
  <1> QED
    BY <1>2, <1>3, <1>4, <1>5 DEF Environment, EditDoc

\* What was granted when lockOrderBalance read the view is covered when it writes.
LEMMA LockPutIsBooked ==
  ASSUME LockInv, LedgerSums, LockPut
  PROVE  Book!Next
  <1> DEFINE t == ev.id
             o == OrderOf[t]
  <1>1. TypeOK /\ SnapshotsTrue /\ GrantCovered
    BY DEF LockInv
  <1>2. t \in Trades /\ t \in Entries /\ o \in Orders
    BY <1>1, DocsAssumption DEF LockPut, TypeOK, Entries
  <1>3. state[t] = Undecided
    BY <1>1, <1>2 DEF LockPut, SnapshotsTrue, Current
  <1>4. /\ state' = [state EXCEPT ![t] = Decision(t)] /\ UNCHANGED revived
        /\ Decision(t) # Undecided
    BY DEF LockPut, Store, Decision, Undecided
  <1>5. state' # state
    BY <1>1, <1>2, <1>3, <1>4 DEF TypeOK
  <1>6. CASE ~grant
    <2>1. Book!Refuse(t)
      BY <1>3, <1>4, <1>6 DEF Decision, Book!Refuse, Book!Becomes
    <2> QED
      BY <1>2, <1>5, <2>1 DEF Book!Next
  <1>7. CASE grant
    <2>1. o \in revived \/ Amount[t] + Fee[t] <= ledger[o]
      BY <1>1, <1>7 DEF GrantCovered, LockPut
    <2>2. ledger[o] = Book!Brought(o) - Book!Taken(o)
      BY <1>1, <1>2, EmissionsSplit DEF LedgerSums
    <2>3. Book!Brought(o) \in Int /\ Book!Taken(o) \in Int
      BY <1>1, <1>2, TakenType
    <2>4. Amount[t] \in Int /\ Fee[t] \in Int
      BY <1>2, DocsAssumption
    <2>5. Book!Covers(t)
      BY <2>1, <2>2, <2>3, <2>4 DEF Book!Covers
    <2>6. Book!Accept(t)
      BY <1>3, <1>4, <1>7, <2>5 DEF Decision, Book!Accept, Book!Becomes
    <2> QED
      BY <1>2, <1>5, <2>6 DEF Book!Next
  <1> QED
    BY <1>6, <1>7

LEMMA StepIsBooked ==
  ASSUME LockInv, LedgerSums, [Next]_vars
  PROVE  [Book!Next]_(Book!bookVars)
  <1>1. CASE Environment
    BY <1>1, EnvironmentIsBooked DEF LockInv, Book!bookVars
  <1>2. CASE LockPut
    BY <1>2, LockPutIsBooked
  <1>3. CASE ~Environment /\ ~LockPut
    <2>1. UNCHANGED <<state, revived>>
      BY <1>3
      DEF Next, OnChange, SaveSeq, QueryBalance, ReadOrders, CommitOrder, Touch, CommitDone,
          FlushEnds, TimeoutsUndefined, Stop, Rest, Dispatch, LockQuery, LockConflict, Abandon,
          Faults, SaveSeqRefused, UpdateFails, OnChangeThrows, CommitOrderFails, Fetch, Deliver,
          DeliverIdle, TickSeq, TickOrders, Expire, Crash, Restart, flushRest, db, vars
    <2> QED
      BY <2>1 DEF Book!bookVars
  <1> QED
    BY <1>1, <1>2, <1>3

LEMMA InitIsBooked == Init => Book!Init
  <1> SUFFICES ASSUME Init PROVE Book!Init
    OBVIOUS
  <1>1. /\ openTrades \in Seeds
        /\ state = [d \in Trades \cup Deposits |->
                      IF d \in openTrades THEN "canceled" ELSE "absent"]
    BY DEF Init, Entries
  <1> QED
    BY <1>1 DEF Init, Book!Init

\* The monitor keeps the promise of OrderBook: lockOrderBalance reads the view at one
\* time and writes the trade at another, and yet every trade is decided once and at one
\* instant, and taken only if its order covers it then; for any documents and amounts,
\* and whatever others write, fails, crashes or is delivered again meanwhile.
THEOREM DecisionsAreAtomic == Spec => DecisionsAtomic
  <1>1. Init => LockInv /\ LedgerSums
    BY LockInit, LedgerInit
  <1>2. LockInv /\ LedgerSums /\ [Next]_vars => LockInv' /\ LedgerSums'
    BY TypeStep, SnapshotsStep, LockStep, LedgerStep DEF LockInv
  <1>3. LockInv /\ LedgerSums /\ [Next]_vars => [Book!Next]_(Book!bookVars)
    BY StepIsBooked
  <1> QED
    BY <1>1, <1>2, <1>3, InitIsBooked, PTL DEF Spec, DecisionsAtomic, Book!Spec

-----------------------------------------------------------------------------
(* The position in the feed: nothing the monitor has not handled is behind it *)

Locks == {"lockQuery", "lockPut"}

\* The monitor still has a write of the document before it; the idle event is of none.
Ahead(d) == rev[d] > cursor \/ (ev.rev > 0 /\ ev.id = d) \/ \E e \in feed : e.id = d

\* An event of the feed is the last write of its document, or a later one comes again.
Fresh(e) ==
    /\ e.rev > 1 /\ e.rev <= cursor /\ e.rev <= rev[e.id]
    /\ e.rev = rev[e.id] \/ rev[e.id] > cursor

\* The feed delivers every write after the position, in the order of the writes.
FeedTrue ==
    /\ 1 <= cursor /\ cursor <= seq /\ 1 <= since /\ since <= seq /\ seqId <= seq
    /\ pc = "saveSeq" => seqId > 0
    /\ pc \in {"wait", "down"} => ev.rev = 0
    /\ pc = "down" => feed = {}
    /\ \A e \in feed : Fresh(e)
    /\ ev.rev > 0 => Fresh(ev) /\ \A f \in feed : ev.rev < f.rev
    /\ \A e, f \in feed : e.rev = f.rev => e = f
    /\ \A d, x \in Docs : d # x /\ rev[d] = rev[x] => rev[d] <= 1

position == <<since, ev, feed, cursor, seqId>>

Writes == \E d \in Docs : Touch(d) /\ UNCHANGED <<position, pc>>

Quiet ==
    /\ UNCHANGED <<db, position>>
    /\ pc' = "saveSeq" => pc' = pc \/ seqId > 0
    /\ pc' = "down" => pc' = pc
    /\ pc' \in {"wait", "down"} => pc' = pc \/ ev.rev = 0
    /\ pc \in Locks => pc' \in Locks
    /\ pc = "down" => pc' = pc

Stops == Stop /\ pc' = "down"
Throws == Abandon /\ pc \in {"saveSeq", "lockQuery", "lockPut"}
          /\ (faults' = faults => pc = "lockPut" /\ rev[ev.id] # ev.rev)

\* What a step does to the database and to the position.
LEMMA Kinds ==
  ASSUME TypeOK, [Next]_vars
  PROVE  \/ Writes \/ Quiet \/ Fetch \/ (\E e \in feed : Deliver(e)) \/ SaveSeq
         \/ Dispatch \/ LockPut \/ Throws \/ Stops \/ Restart
  <1> USE DEF position
  <1>1. CASE Environment
    <2>1. ASSUME NEW d \in Entries, NEW s, Store(d, s), UNCHANGED monitor PROVE Writes
      BY <2>1 DEF Store, Writes, monitor, Docs
    <2>2. ASSUME NEW d \in Docs, EditDoc(d) PROVE Writes
      BY <2>2 DEF EditDoc, Moved, monitor, Writes
    <2> QED
      BY <1>1, <2>1, <2>2
      DEF Environment, PostTrade, PostDeposit, ChangeInvoiceStatus, MoveTrade, Moved, Entries
  <1>2. CASE DeliverIdle
    <2>1. StartOfOnChange = "saveSeq" => seqId > 0
      BY DEF StartOfOnChange
    <2>2. StartOfOnChange \notin {"wait", "down"}
      BY DEF StartOfOnChange
    <2> QED
      BY <1>2, <2>1, <2>2 DEF DeliverIdle, Quiet, Locks
  <1>3. CASE TickSeq \/ TickOrders
    BY <1>3 DEF TickSeq, TickOrders, Expire, Quiet, Locks
  <1>4. CASE SaveSeqRefused \/ QueryBalance \/ ReadOrders \/ CommitDone \/ UpdateFails
             \/ \E p \in chset : CommitOrderFails(p)
    <2>1. AfterSave \in {"query", "timeouts"}
      BY DEF AfterSave
    <2> QED
      BY <1>4, <2>1 DEF SaveSeqRefused, QueryBalance, ReadOrders, CommitDone, UpdateFails,
                        CommitOrderFails, FlushEnds, flushRest, Quiet, Locks
  <1>5. ASSUME NEW p \in chset, CommitOrder(p) PROVE Writes \/ Quiet
    <2>1. p[1] \in Docs
      BY DEF TypeOK, Docs
    <2> QED
      BY <1>5, <2>1 DEF CommitOrder, Writes, Quiet, flushRest, Locks
  <1>6. CASE Rest \/ LockQuery
    BY <1>6 DEF Rest, LockQuery, TimeoutsSkipped, Quiet, Locks
  <1>7. CASE TimeoutsUndefined \/ Crash
    BY <1>7 DEF TimeoutsUndefined, Crash, Stop, Stops
  <1>8. CASE LockConflict \/ OnChangeThrows
    BY <1>8 DEF LockConflict, OnChangeThrows, Throws, TypeOK
  <1>9. CASE UNCHANGED vars
    BY <1>9 DEF vars, Quiet, Locks
  <1> QED
    BY <1>1, <1>2, <1>3, <1>4, <1>5, <1>6, <1>7, <1>8, <1>9 DEF Next, OnChange, Faults

LEMMA FeedInit == Init => FeedTrue
  <1> SUFFICES ASSUME Init PROVE FeedTrue
    OBVIOUS
  <1>1. \A d \in Docs : rev[d] <= 1
    BY DEF Init
  <1>2. ev.rev = 0
    BY IdleFacts DEF Init
  <1> QED
    BY <1>1, <1>2 DEF Init, FeedTrue

\* A write by anyone is a new one, and lies ahead.
LEMMA WriteIsAhead ==
  ASSUME TypeOK, SnapshotsTrue, FeedTrue, NEW d \in Docs, Touch(d), UNCHANGED <<position, pc>>
  PROVE  FeedTrue' /\ Ahead(d)' /\ \A x \in Docs : Ahead(x) => Ahead(x)'
  <1>0. /\ seq \in Nat /\ cursor \in Nat /\ since \in Nat /\ seqId \in Nat
        /\ seq' = seq + 1 /\ rev' = [rev EXCEPT ![d] = seq + 1]
        /\ rev \in [Docs -> Nat]
        /\ UNCHANGED <<since, ev, feed, cursor, seqId, pc>>
    BY DEF TypeOK, Touch, position
  <1>1. \A x \in Docs : rev'[x] = IF x = d THEN seq + 1 ELSE rev[x]
    BY <1>0
  <1>2. \A x \in Docs : rev[x] \in Nat /\ rev[x] <= seq
    BY <1>0 DEF SnapshotsTrue
  <1>3. \A x \in Docs : Ahead(x) => Ahead(x)'
    BY <1>0, <1>1 DEF Ahead, FeedTrue
  <1>4. Ahead(d)'
    BY <1>0, <1>1 DEF Ahead, FeedTrue
  <1>5. ASSUME NEW e \in Events, e.id \in Docs, Fresh(e) PROVE Fresh(e)'
    <2>1. e.rev \in Nat
      BY DEF Events
    <2> QED
      BY <1>0, <1>1, <1>2, <1>5, <2>1 DEF Fresh, FeedTrue
  <1>6. \A e \in feed' : Fresh(e)'
    BY <1>0, <1>5 DEF FeedTrue, TypeOK
  <1>7. ev'.rev > 0 => Fresh(ev)'
    <2>1. ev.rev > 0 => Fresh(ev) /\ ev \in Events /\ ev.id \in Docs
      BY DEF FeedTrue, TypeOK
    <2>2. ASSUME NEW e, e = ev, ev.rev > 0 PROVE Fresh(e)'
      BY <1>5, <2>1, <2>2
    <2> QED
      BY <1>0, <2>2 DEF Fresh
  <1>8. \A y, x \in Docs : y # x /\ rev'[y] = rev'[x] => rev'[y] <= 1
    BY <1>0, <1>1, <1>2 DEF FeedTrue
  <1> QED
    BY <1>0, <1>3, <1>4, <1>6, <1>7, <1>8 DEF FeedTrue

\* The feed brings every document written after the cursor.
LEMMA FetchKeeps ==
  ASSUME TypeOK, SnapshotsTrue, FeedTrue, Fetch
  PROVE  FeedTrue' /\ \A x \in Docs : Ahead(x) => Ahead(x)'
  <1>0. /\ seq \in Nat /\ cursor \in Nat /\ rev \in [Docs -> Nat] /\ cursor < seq
        /\ feed = {} /\ ev.rev = 0 /\ pc = "wait" /\ 1 <= cursor
        /\ feed' = {Event(d) : d \in {x \in Docs : rev[x] > cursor}} /\ cursor' = seq
        /\ UNCHANGED <<seq, rev, since, pc, ev, seqId>>
    BY DEF TypeOK, FeedTrue, Fetch, db
  <1>1. \A d \in Docs : rev[d] \in Nat /\ rev[d] <= seq
    BY <1>0 DEF SnapshotsTrue
  <1>2. \A d \in Docs : Event(d).id = d /\ Event(d).rev = rev[d]
    BY DEF Event
  <1>3. \A e \in feed' : Fresh(e)'
    BY <1>0, <1>1, <1>2 DEF Fresh
  <1>4. \A e, f \in feed' : e.rev = f.rev => e = f
    BY <1>0, <1>1, <1>2 DEF FeedTrue
  <1>5. \A x \in Docs : Ahead(x) => Ahead(x)'
    BY <1>0, <1>2 DEF Ahead
  <1> QED
    BY <1>0, <1>3, <1>4, <1>5 DEF FeedTrue

LEMMA DeliverKeeps ==
  ASSUME TypeOK, FeedTrue, NEW e \in feed, Deliver(e)
  PROVE  FeedTrue' /\ \A x \in Docs : Ahead(x) => Ahead(x)'
  <1>0. /\ pc = "wait" /\ ev.rev = 0 /\ ev' = e /\ feed' = feed \ {e}
        /\ \A f \in feed : e.rev <= f.rev
        /\ UNCHANGED <<seq, rev, since, cursor, seqId>>
    BY DEF Deliver, FeedTrue, db
  <1>1. \A f \in feed : f.rev \in Nat
    BY DEF TypeOK, Events
  <1>2. \A f \in feed' : e.rev < f.rev
    BY <1>0, <1>1 DEF FeedTrue
  <1>3. \A f \in feed : Fresh(f)' /\ f.rev > 0
    BY <1>0, <1>1 DEF FeedTrue, Fresh
  <1>4. Fresh(ev)'
    <2>1. ASSUME NEW f, f = e PROVE Fresh(f)'
      BY <1>3, <2>1
    <2> QED
      BY <1>0, <2>1 DEF Fresh
  <1>5. pc' \notin {"wait", "down"} /\ (pc' = "saveSeq" => seqId > 0)
    BY DEF Deliver, StartOfOnChange
  <1>6. \A x \in Docs : Ahead(x) => Ahead(x)'
    BY <1>0, <1>3 DEF Ahead
  <1> QED
    BY <1>0, <1>2, <1>3, <1>4, <1>5, <1>6 DEF FeedTrue

\* An event that is left behind has been superseded, or told the truth.
LEMMA DropKeeps ==
  ASSUME TypeOK, FeedTrue, UNCHANGED <<seq, rev, since, feed, cursor>>, ev' = Idle,
         pc' = "wait", seqId' \in Nat, seqId' <= seq
  PROVE  /\ FeedTrue'
         /\ \A x \in Docs : Ahead(x) /\ (x = ev.id => rev[x] # ev.rev) => Ahead(x)'
  <1>0. ev'.rev = 0
    BY IdleFacts
  <1>1. \A f \in feed : Fresh(f)'
    BY DEF FeedTrue, Fresh
  <1>2. \A x \in Docs : Ahead(x) /\ (x = ev.id => rev[x] # ev.rev) => Ahead(x)'
    BY DEF FeedTrue, Fresh, Ahead
  <1> QED
    BY <1>0, <1>1, <1>2 DEF FeedTrue

\* After an exception the feed goes on, or starts again before the event.
LEMMA ThrowKeeps ==
  ASSUME TypeOK, SnapshotsTrue, FeedTrue, Throws
  PROVE  FeedTrue' /\ (faults' = faults => \A x \in Docs : Ahead(x) => Ahead(x)')
  <1>0. /\ pc' = "wait" /\ ev' = Idle /\ UNCHANGED <<db, seq, rev, since, seqId>>
        /\ faults' = faults => rev[ev.id] # ev.rev
        /\ seqId \in Nat /\ seqId <= seq
    BY DEF Throws, Abandon, TypeOK, FeedTrue, db
  <1>1. CASE UNCHANGED <<feed, cursor>>
    BY <1>0, <1>1, DropKeeps
  <1>2. CASE ev.rev > 0 /\ feed' = {} /\ cursor' = ev.rev - 1
    <2>1. /\ ev.rev \in Nat /\ cursor \in Nat /\ seq \in Nat /\ rev \in [Docs -> Nat]
          /\ Fresh(ev) /\ \A f \in feed : Fresh(f) /\ ev.rev < f.rev
          /\ \A f \in feed : f.rev \in Nat /\ f.id \in Docs
      BY <1>2 DEF TypeOK, Events, FeedTrue
    <2>2. ev'.rev = 0
      BY <1>0, IdleFacts
    <2>3. 1 <= cursor' /\ cursor' <= seq
      BY <1>2, <2>1 DEF Fresh, FeedTrue
    <2>4. FeedTrue'
      BY <1>0, <1>2, <2>2, <2>3 DEF FeedTrue
    <2>5. ASSUME NEW x \in Docs, Ahead(x) PROVE rev[x] > cursor'
      <3>1. CASE rev[x] > cursor
        BY <1>2, <2>1, <3>1 DEF Fresh
      <3>2. CASE ev.id = x
        BY <1>2, <2>1, <3>2 DEF Fresh
      <3>3. ASSUME NEW f \in feed, f.id = x PROVE rev[x] > cursor'
        <4>1. ev.rev < f.rev /\ f.rev <= rev[x] /\ rev[x] \in Nat /\ f.rev \in Nat
          BY <2>1, <3>3 DEF Fresh
        <4> QED
          BY <1>2, <2>1, <4>1
      <3> QED
        BY <2>5, <3>1, <3>2, <3>3 DEF Ahead
    <2> QED
      BY <1>0, <2>4, <2>5 DEF Ahead
  <1> QED
    BY <1>1, <1>2 DEF Throws, Abandon

\* LockPut: the decided trade comes again.
LEMMA LockPutKeeps ==
  ASSUME TypeOK, SnapshotsTrue, FeedTrue, LockPut, NEW t, t = ev.id
  PROVE  FeedTrue' /\ Ahead(t)' /\ \A x \in Docs : Ahead(x) => Ahead(x)'
  <1>0. /\ seq \in Nat /\ cursor \in Nat /\ seqId \in Nat /\ rev \in [Docs -> Nat]
        /\ seq' = seq + 1 /\ rev' = [rev EXCEPT ![t] = seq + 1]
        /\ pc' = "wait" /\ ev' = Idle /\ UNCHANGED <<since, feed, cursor, seqId>>
        /\ t \in Docs
    BY DEF TypeOK, LockPut, Store, Touch, Docs, Entries
  <1>1. \A x \in Docs : /\ rev'[x] = IF x = t THEN seq + 1 ELSE rev[x]
                        /\ rev[x] \in Nat /\ rev[x] <= seq
    BY <1>0 DEF SnapshotsTrue
  <1>2. ev'.rev = 0
    BY <1>0, IdleFacts
  <1>3. Ahead(t)' /\ \A x \in Docs : Ahead(x) => Ahead(x)'
    <2>1. rev'[t] > cursor'
      BY <1>0, <1>1 DEF FeedTrue
    <2>2. ASSUME NEW x \in Docs, Ahead(x), x # t
          PROVE  rev'[x] > cursor' \/ \E f \in feed' : f.id = x
      BY <1>0, <1>1, <2>2 DEF Ahead
    <2> QED
      BY <2>1, <2>2 DEF Ahead
  <1>4. ASSUME NEW f \in feed PROVE Fresh(f)'
    <2>1. f.rev \in Nat /\ f.id \in Docs /\ Fresh(f)
      BY DEF TypeOK, Events, FeedTrue
    <2> QED
      BY <1>0, <1>1, <2>1 DEF Fresh, FeedTrue
  <1>5. \A y, x \in Docs : y # x /\ rev'[y] = rev'[x] => rev'[y] <= 1
    BY <1>0, <1>1 DEF FeedTrue
  <1>6. \A f \in feed' : Fresh(f)'
    BY <1>0, <1>4
  <1>7. cursor' <= seq' /\ since' <= seq' /\ seqId' <= seq' /\ 1 <= cursor' /\ 1 <= since'
    BY <1>0 DEF FeedTrue, TypeOK
  <1>8. \A e, f \in feed' : e.rev = f.rev => e = f
    BY <1>0 DEF FeedTrue
  <1> QED
    BY <1>0, <1>2, <1>3, <1>5, <1>6, <1>7, <1>8 DEF FeedTrue

LEMMA FeedStep == TypeOK /\ SnapshotsTrue /\ FeedTrue /\ [Next]_vars => FeedTrue'
  <1> SUFFICES ASSUME TypeOK, SnapshotsTrue, FeedTrue, [Next]_vars PROVE FeedTrue'
    OBVIOUS
  <1>1. CASE Writes
    BY <1>1, WriteIsAhead DEF Writes
  <1>2. CASE Quiet
    BY <1>2 DEF Quiet, position, db, FeedTrue, Fresh
  <1>3. CASE SaveSeq
    <2>1. /\ since' = seqId /\ seqId' = 0 /\ seqId > 0 /\ seqId <= seq /\ seqId \in Nat
          /\ seq \in Nat /\ UNCHANGED <<seq, rev, ev, feed, cursor>>
          /\ pc' \notin {"saveSeq", "wait", "down"}
      BY <1>3 DEF SaveSeq, AfterSave, TypeOK, FeedTrue, db
    <2>2. \A f \in feed : Fresh(f)'
      BY <2>1 DEF FeedTrue, Fresh
    <2>3. ev'.rev > 0 => Fresh(ev)'
      BY <2>1 DEF FeedTrue, Fresh
    <2> QED
      BY <2>1, <2>2, <2>3 DEF FeedTrue
  <1>4. CASE Dispatch
    <2>0. /\ UNCHANGED <<seq, rev, since, feed, cursor>> /\ seqId' = ev.rev
          /\ ev.rev \in Nat /\ ev.rev <= seq
      BY <1>4 DEF Dispatch, TypeOK, Events, SnapshotsTrue, db
    <2>1. CASE pc' = "lockQuery"
      <3>1. ev' = ev
        BY <1>4, <2>1 DEF Dispatch
      <3> QED
        BY <2>0, <2>1, <3>1 DEF FeedTrue, Fresh
    <2>2. CASE pc' # "lockQuery"
      <3>1. ev' = Idle /\ pc' = "wait"
        BY <1>4, <2>2 DEF Dispatch
      <3> QED
        BY <2>0, <3>1, DropKeeps
    <2> QED
      BY <2>1, <2>2
  <1>5. CASE Stops
    <2>1. /\ ev'.rev = 0 /\ feed' = {} /\ seqId' = 0 /\ pc' = "down"
          /\ UNCHANGED <<seq, rev, since, cursor>> /\ seq \in Nat
      BY <1>5, IdleFacts DEF Stops, Stop, TypeOK, db
    <2> QED
      BY <2>1 DEF FeedTrue
  <1>6. CASE Restart
    <2>1. /\ UNCHANGED <<seq, rev, since, ev, feed, seqId>> /\ cursor' = since
          /\ pc' = "wait" /\ pc = "down"
      BY <1>6 DEF Restart, db
    <2> QED
      BY <2>1 DEF FeedTrue, Fresh
  <1> QED
    BY <1>1, <1>2, <1>3, <1>4, <1>5, <1>6, Kinds, FetchKeeps, DeliverKeeps, ThrowKeeps,
       LockPutKeeps

-----------------------------------------------------------------------------
(* What the monitor has not handled stays ahead *)

LEMMA FaultsGrow == TypeOK /\ [Next]_vars => faults <= faults' /\ crashes <= crashes'
  <1> SUFFICES ASSUME TypeOK, [Next]_vars PROVE faults <= faults' /\ crashes <= crashes'
    OBVIOUS
  <1>1. /\ faults' = faults \/ faults' = faults + 1
        /\ crashes' = crashes \/ crashes' = crashes + 1
    <2>1. CASE Environment
      BY <2>1 DEF Environment, PostTrade, PostDeposit, ChangeInvoiceStatus, MoveTrade, EditDoc,
                  Moved, bounds
    <2>2. CASE OnChange
      BY <2>2 DEF OnChange, SaveSeq, QueryBalance, ReadOrders, CommitOrder, CommitDone, FlushEnds,
                  TimeoutsUndefined, Stop, Rest, Dispatch, LockQuery, LockPut, LockConflict,
                  Abandon, flushRest, bounds
    <2>3. CASE Faults
      BY <2>3 DEF Faults, SaveSeqRefused, UpdateFails, OnChangeThrows, CommitOrderFails, Abandon,
                  flushRest
    <2> QED
      BY <2>1, <2>2, <2>3
      DEF Next, Fetch, Deliver, DeliverIdle, TickSeq, TickOrders, Expire, Crash, Stop, Restart,
          bounds, vars
  <1>2. faults \in Nat /\ crashes \in Nat
    BY DEF TypeOK
  <1> QED
    BY <1>1, <1>2

LEMMA AheadStep ==
  ASSUME TypeOK, SnapshotsTrue, FeedTrue, [Next]_vars, faults' = faults,
         pc # "down", pc' # "down", NEW x \in Docs, Ahead(x)
  PROVE  \/ Ahead(x)'
         \/ Dispatch /\ pc' = "wait" /\ ev.rev > 0 /\ x = ev.id /\ rev[x] = ev.rev
  <1>1. CASE Writes
    BY <1>1, WriteIsAhead DEF Writes
  <1>2. CASE Quiet \/ SaveSeq
    BY <1>2 DEF Quiet, SaveSeq, position, db, Ahead
  <1>3. CASE Dispatch
    <2>1. CASE pc' = "lockQuery"
      BY <1>3, <2>1 DEF Dispatch, db, Ahead
    <2>2. CASE pc' # "lockQuery"
      <3>1. /\ UNCHANGED <<seq, rev, since, feed, cursor>> /\ ev' = Idle /\ pc' = "wait"
            /\ seqId' = ev.rev /\ ev.rev > 0 /\ ev.rev \in Nat /\ ev.rev <= seq
        BY <1>3, <2>2 DEF Dispatch, TypeOK, Events, SnapshotsTrue, db
      <3> QED
        BY <1>3, <3>1, DropKeeps
    <2> QED
      BY <2>1, <2>2
  <1>4. CASE Stops \/ Restart
    BY <1>4 DEF Stops, Restart
  <1> QED
    BY <1>1, <1>2, <1>3, <1>4, Kinds, FetchKeeps, DeliverKeeps, ThrowKeeps, LockPutKeeps

\* Whoever changes the state of a document, the change lies ahead.
LEMMA ChangedIsAhead ==
  ASSUME TypeOK, SnapshotsTrue, FeedTrue, [Next]_vars, NEW d \in Entries, state'[d] # state[d]
  PROVE  /\ Ahead(d)' /\ rev'[d] = seq + 1
         /\ UNCHANGED <<position, pc>> \/ (LockPut /\ d = ev.id)
  <1>0. d \in Docs /\ rev \in [Docs -> Nat]
    BY DEF Docs, TypeOK
  <1>1. ASSUME NEW y \in Entries, NEW s, Store(y, s), UNCHANGED monitor
        PROVE  y = d /\ Touch(d) /\ UNCHANGED <<position, pc>>
    BY <1>1 DEF Store, monitor, position, TypeOK
  <1>2. CASE Environment
    <2>1. Touch(d) /\ UNCHANGED <<position, pc>>
      BY <1>1, <1>2
      DEF Environment, PostTrade, PostDeposit, ChangeInvoiceStatus, MoveTrade, EditDoc, Moved,
          Entries
    <2> QED
      BY <1>0, <2>1, WriteIsAhead DEF Touch
  <1>3. CASE LockPut
    <2>1. d = ev.id
      BY <1>3 DEF LockPut, Store, TypeOK
    <2>2. rev'[d] = seq + 1
      BY <1>0, <1>3, <2>1 DEF LockPut, Store, Touch
    <2> QED
      BY <1>3, <2>1, <2>2, LockPutKeeps
  <1>4. CASE ~Environment /\ ~LockPut
    <2>1. UNCHANGED state
      BY <1>4
      DEF Next, OnChange, SaveSeq, QueryBalance, ReadOrders, CommitOrder, CommitDone, FlushEnds,
          TimeoutsUndefined, Stop, Rest, Dispatch, LockQuery, LockConflict, Abandon, Faults,
          SaveSeqRefused, UpdateFails, OnChangeThrows, CommitOrderFails, Fetch, Deliver,
          DeliverIdle, TickSeq, TickOrders, Expire, Crash, Restart, flushRest, db, vars
    <2> QED
      BY <2>1
  <1> QED
    BY <1>2, <1>3, <1>4

-----------------------------------------------------------------------------
(* No trade is forgotten *)

UndecidedInv ==
    faults = 0 =>
        \A t \in Trades : state[t] = Undecided =>
            /\ rev[t] > since
            /\ pc # "down" => Ahead(t)
            /\ rev[t] > seqId \/ (pc \in Locks /\ ev.id = t /\ ev.rev = rev[t])

LEMMA UndecidedStep ==
  TypeOK /\ SnapshotsTrue /\ FeedTrue /\ UndecidedInv /\ [Next]_vars => UndecidedInv'
  <1> SUFFICES ASSUME TypeOK, SnapshotsTrue, FeedTrue, UndecidedInv, [Next]_vars, faults' = 0,
                      NEW t \in Trades, state'[t] = Undecided
               PROVE  /\ rev'[t] > since'
                      /\ pc' # "down" => Ahead(t)'
                      /\ rev'[t] > seqId' \/ (pc' \in Locks /\ ev'.id = t /\ ev'.rev = rev'[t])
    BY DEF UndecidedInv
  <1>0. /\ faults = 0 /\ t \in Entries /\ t \in Docs
        /\ seq \in Nat /\ since \in Nat /\ seqId \in Nat /\ cursor \in Nat /\ rev[t] \in Nat
        /\ since <= seq /\ seqId <= seq /\ 1 <= since
    BY FaultsGrow DEF TypeOK, Entries, Docs, FeedTrue
  <1>1. CASE state[t] # Undecided
    <2>1. /\ Ahead(t)' /\ rev'[t] = seq + 1
          /\ UNCHANGED <<position, pc>> \/ (LockPut /\ t = ev.id)
      BY <1>0, <1>1, ChangedIsAhead
    <2>2. ~(LockPut /\ t = ev.id)
      <3>1. Decision(t) # Undecided
        BY DEF Decision, Undecided
      <3> QED
        BY <1>0, <3>1 DEF LockPut, Store, TypeOK
    <2> QED
      BY <1>0, <2>1, <2>2 DEF position
  <1>2. CASE state[t] = Undecided
    <2>0. /\ rev[t] > since
          /\ pc # "down" => Ahead(t)
          /\ rev[t] > seqId \/ (pc \in Locks /\ ev.id = t /\ ev.rev = rev[t])
      BY <1>0, <1>2 DEF UndecidedInv
    <2>1. CASE Writes
      <3>1. PICK d \in Docs : Touch(d) /\ UNCHANGED <<position, pc>>
        BY <2>1 DEF Writes
      <3>2. rev'[t] = rev[t] \/ rev'[t] = seq + 1
        BY <1>0, <3>1 DEF Touch, TypeOK
      <3>3. pc' # "down" => Ahead(t)'
        BY <1>0, <2>0, <3>1, WriteIsAhead
      <3> QED
        BY <1>0, <2>0, <3>1, <3>2, <3>3 DEF position
    <2>2. CASE Quiet
      BY <2>0, <2>2 DEF Quiet, position, db, Ahead
    <2>3. CASE Fetch \/ \E e \in feed : Deliver(e)
      <3>1. pc = "wait" /\ UNCHANGED <<rev, since, seqId>>
        BY <2>3 DEF Fetch, Deliver, db
      <3>2. Ahead(t)'
        BY <1>0, <2>0, <2>3, <3>1, FetchKeeps, DeliverKeeps
      <3> QED
        BY <2>0, <3>1, <3>2 DEF Locks
    <2>4. CASE SaveSeq
      BY <1>0, <2>0, <2>4 DEF SaveSeq, Locks, Ahead, db
    <2>5. CASE Dispatch
      <3>1. /\ UNCHANGED <<rev, since, seq>> /\ seqId' = ev.rev /\ ev.rev > 0 /\ ev.rev \in Nat
            /\ pc = "timeouts" /\ Ahead(t) /\ Fresh(ev) /\ \A f \in feed : ev.rev < f.rev
            /\ \A f \in feed : Fresh(f) /\ f.rev \in Nat
        BY <2>0, <2>5 DEF Dispatch, TimeoutsSkipped, TypeOK, Events, FeedTrue, db
      <3>2. ev.id = t /\ ev.rev = rev[t] =>
              pc' = "lockQuery" /\ ev' = ev
        BY <1>0, <1>2, <2>5, <3>1 DEF Dispatch, SnapshotsTrue, Current
      <3>3. Ahead(t)'
        <4>1. pc # "down" /\ pc' # "down" /\ faults' = faults
          BY <1>0, <2>5 DEF Dispatch, TimeoutsSkipped
        <4> QED
          BY <1>0, <3>1, <3>2, <4>1, AheadStep
      <3>4. rev[t] > ev.rev \/ (ev.id = t /\ ev.rev = rev[t])
        <4>1. CASE ev.id = t
          BY <1>0, <3>1, <4>1 DEF Fresh
        <4>2. CASE ev.id # t
          <5>1. CASE rev[t] > cursor
            BY <1>0, <3>1, <5>1 DEF Fresh
          <5>2. ASSUME NEW f \in feed, f.id = t PROVE rev[t] > ev.rev
            <6>1. ev.rev < f.rev /\ f.rev <= rev[t] /\ f.rev \in Nat
              BY <3>1, <5>2 DEF Fresh
            <6> QED
              BY <1>0, <3>1, <6>1
          <5> QED
            BY <3>1, <4>2, <5>1, <5>2 DEF Ahead
        <4> QED
          BY <4>1, <4>2
      <3> QED
        BY <2>0, <3>1, <3>2, <3>3, <3>4 DEF Locks
    <2>6. CASE LockPut
      <3>1. t # ev.id
        <4>1. Decision(t) # Undecided
          BY DEF Decision, Undecided
        <4> QED
          BY <1>0, <2>6, <4>1 DEF LockPut, Store, TypeOK
      <3>2. rev'[t] = rev[t] /\ UNCHANGED <<since, seqId>>
        BY <1>0, <2>6, <3>1 DEF LockPut, Store, Touch, TypeOK
      <3>3. Ahead(t)'
        BY <1>0, <2>0, <2>6, LockPutKeeps DEF LockPut
      <3> QED
        BY <2>0, <3>1, <3>2, <3>3
    <2>7. CASE Throws
      <3>1. faults' = faults /\ pc = "lockPut" /\ rev[ev.id] # ev.rev
        BY <1>0, <2>7 DEF Throws
      <3>2. UNCHANGED <<rev, since, seqId>> /\ Ahead(t)'
        BY <1>0, <2>0, <2>7, <3>1, ThrowKeeps DEF Throws, Abandon, db
      <3> QED
        BY <2>0, <3>1, <3>2
    <2>8. CASE Stops
      BY <1>0, <2>0, <2>8 DEF Stops, Stop, db
    <2>9. CASE Restart
      BY <1>0, <2>0, <2>9 DEF Restart, Ahead, Locks, db
    <2> QED
      BY <2>1, <2>2, <2>3, <2>4, <2>5, <2>6, <2>7, <2>8, <2>9, Kinds
  <1> QED
    BY <1>1, <1>2

LEMMA FeedAlways == Spec => [](TypeOK /\ SnapshotsTrue /\ FeedTrue)
  <1>1. Init => TypeOK /\ SnapshotsTrue /\ FeedTrue
    BY LockInit, FeedInit DEF LockInv
  <1>2. TypeOK /\ SnapshotsTrue /\ FeedTrue /\ [Next]_vars => (TypeOK /\ SnapshotsTrue /\ FeedTrue)'
    BY TypeStep, SnapshotsStep, FeedStep
  <1> QED
    BY <1>1, <1>2, PTL DEF Spec

LEMMA AheadIsUnseen == \A x : Ahead(x) => Unseen(x)
  BY DEF Ahead, Unseen

\* However writes, fetches, conflicts and crashes interleave: a trade without a status
\* is still to come in the running feed, and in the one a restart would begin at the
\* saved position (onChange, changesFeed, init_monitor).
THEOREM NoTradeForgotten == Spec => []UndecidedAhead
  <1>1. Init => UndecidedInv
    <2> SUFFICES ASSUME Init, NEW t \in Trades PROVE state[t] # Undecided
      BY DEF UndecidedInv
    <2>1. t \in Entries /\ (state[t] = "canceled" \/ state[t] = "absent")
      BY DEF Init, Entries
    <2> QED
      BY <2>1 DEF Undecided
  <1>2. UndecidedInv => UndecidedAhead
    BY AheadIsUnseen DEF UndecidedInv, UndecidedAhead
  <1> QED
    BY <1>1, <1>2, FeedAlways, UndecidedStep, PTL DEF Spec

\* What is saved and what is to be saved are behind all that is still delivered; an
\* event that was dropped after its position was noted may come a second time.
SavedBehind ==
    /\ since <= cursor + 1 /\ seqId <= cursor + 1
    /\ seqId > 0 => since <= seqId
    /\ pc = "down" => seqId = 0
    /\ \A e \in feed \cup {ev} : e.rev > 0 => since <= e.rev /\ seqId <= e.rev

LEMMA SavedStep ==
  ASSUME TypeOK, SnapshotsTrue, FeedTrue, SavedBehind, [Next]_vars
  PROVE  SavedBehind' /\ since <= since'
  <1>0. /\ seq \in Nat /\ since \in Nat /\ cursor \in Nat /\ seqId \in Nat
        /\ ev.rev \in Nat /\ \A e \in feed : e.rev \in Nat
        /\ Idle.rev = 0
    BY IdleFacts DEF TypeOK, Events
  <1>1. CASE Writes
    BY <1>0, <1>1 DEF Writes, position, SavedBehind
  <1>2. CASE Quiet
    BY <1>0, <1>2 DEF Quiet, position, SavedBehind
  <1>3. CASE Fetch
    <2>1. /\ \A e \in feed' : e.rev \in Nat /\ cursor < e.rev
          /\ cursor' = seq /\ cursor < seq /\ UNCHANGED <<since, seqId, ev, pc>>
      BY <1>0, <1>3 DEF Fetch, Event, TypeOK
    <2> QED
      BY <1>0, <2>1 DEF SavedBehind
  <1>4. CASE \E e \in feed : Deliver(e)
    <2>1. /\ ev' \in feed /\ feed' \subseteq feed /\ UNCHANGED <<since, seqId, cursor>>
          /\ pc' # "down"
      BY <1>4 DEF Deliver, StartOfOnChange
    <2> QED
      BY <1>0, <2>1 DEF SavedBehind
  <1>5. CASE SaveSeq
    <2>1. since' = seqId /\ seqId' = 0 /\ seqId > 0 /\ UNCHANGED <<ev, feed, cursor>>
      BY <1>5 DEF SaveSeq, FeedTrue
    <2> QED
      BY <1>0, <2>1 DEF SavedBehind
  <1>6. CASE Dispatch
    <2>1. /\ seqId' = ev.rev /\ ev.rev > 0 /\ ev' \in {ev, Idle}
          /\ UNCHANGED <<since, feed, cursor>> /\ pc' # "down"
      BY <1>6 DEF Dispatch
    <2>2. ev.rev <= cursor /\ \A f \in feed : ev.rev < f.rev
      BY <2>1 DEF FeedTrue, Fresh
    <2> QED
      BY <1>0, <2>1, <2>2 DEF SavedBehind
  <1>7. CASE LockPut
    BY <1>0, <1>7 DEF LockPut, SavedBehind
  <1>8. CASE Throws
    <2>1. ev' = Idle /\ UNCHANGED <<since, seqId>> /\ pc' = "wait"
      BY <1>8 DEF Throws, Abandon
    <2>2. CASE UNCHANGED <<feed, cursor>>
      BY <1>0, <2>1, <2>2 DEF SavedBehind
    <2>3. CASE ev.rev > 0 /\ feed' = {} /\ cursor' = ev.rev - 1
      BY <1>0, <2>1, <2>3 DEF SavedBehind
    <2> QED
      BY <1>8, <2>2, <2>3 DEF Throws, Abandon
  <1>9. CASE Stops
    BY <1>0, <1>9 DEF Stops, Stop, SavedBehind
  <1>10. CASE Restart
    <2>1. pc = "down" /\ cursor' = since /\ UNCHANGED <<since, ev, feed, seqId>>
      BY <1>10 DEF Restart
    <2>2. feed = {} /\ ev.rev = 0 /\ seqId = 0
      BY <2>1 DEF FeedTrue, SavedBehind
    <2> QED
      BY <1>0, <2>1, <2>2 DEF SavedBehind
  <1> QED
    BY <1>1, <1>2, <1>3, <1>4, <1>5, <1>6, <1>7, <1>8, <1>9, <1>10, Kinds

\* The position saved for the next process never goes back, though onChange notes an
\* event before it is handled, and exceptions and crashes deliver it again: no restart
\* begins before one that an earlier process could have begun at.
THEOREM PositionNeverGoesBack == Spec => [][since <= since']_vars
  <1>1. Init => SavedBehind
    BY IdleFacts DEF Init, SavedBehind
  <1>2. TypeOK /\ SnapshotsTrue /\ FeedTrue /\ SavedBehind /\ [Next]_vars
          => SavedBehind' /\ since <= since'
    BY SavedStep
  <1> QED
    BY <1>1, <1>2, FeedAlways, PTL DEF Spec

-----------------------------------------------------------------------------
(* The heap *)

HeapInv ==
    faults = 0 /\ pc # "down" =>
        \A t \in Trades : InOpenTradesView(state[t]) => t \in openTrades \/ Ahead(t)

LEMMA OpenTradesGrow ==
  ASSUME [Next]_vars, pc # "down", pc' # "down"
  PROVE  openTrades \subseteq openTrades'
  <1>1. CASE Environment
    BY <1>1 DEF Environment, PostTrade, PostDeposit, ChangeInvoiceStatus, MoveTrade, EditDoc,
                Moved, monitor
  <1>2. CASE Dispatch
    BY <1>2 DEF Dispatch, UpdateTrade
  <1> QED
    BY <1>1, <1>2
    DEF Next, OnChange, SaveSeq, QueryBalance, ReadOrders, CommitOrder, CommitDone, FlushEnds,
        TimeoutsUndefined, Stop, Rest, LockQuery, LockPut, LockConflict, Abandon, Faults,
        SaveSeqRefused, UpdateFails, OnChangeThrows, CommitOrderFails, Fetch, Deliver,
        DeliverIdle, TickSeq, TickOrders, Expire, Crash, Restart, flushRest, vars

\* From a crash there is no way but the restart.
LEMMA DownRestarts ==
  ASSUME TypeOK, [Next]_vars, pc = "down", pc' # "down"
  PROVE  Restart
  BY Kinds DEF Writes, Quiet, Fetch, Deliver, SaveSeq, Dispatch, TimeoutsSkipped, LockPut, Throws, Stops

LEMMA ViewIsStatuses == \A s : InOpenTradesView(s) => s \in Statuses
  BY DEF InOpenTradesView, Matched, Statuses

LEMMA HeapStep ==
  TypeOK /\ SnapshotsTrue /\ FeedTrue /\ HeapInv /\ [Next]_vars => HeapInv'
  <1> SUFFICES ASSUME TypeOK, SnapshotsTrue, FeedTrue, HeapInv, [Next]_vars,
                      faults' = 0, pc' # "down",
                      NEW t \in Trades, InOpenTradesView(state'[t])
               PROVE  t \in openTrades' \/ Ahead(t)'
    BY DEF HeapInv, InOpenTradesView, Matched
  <1>0. faults = 0 /\ t \in Entries /\ t \in Docs
    BY FaultsGrow DEF TypeOK, Entries, Docs
  <1>1. CASE state'[t] # state[t]
    BY <1>0, <1>1, ChangedIsAhead
  <1>2. CASE state'[t] = state[t] /\ pc = "down"
    BY <1>2, DownRestarts DEF Restart, ReloadOpenTrades
  <1>3. CASE state'[t] = state[t] /\ pc # "down"
    <2>1. t \in openTrades \/ Ahead(t)
      BY <1>0, <1>3 DEF HeapInv
    <2>2. CASE t \in openTrades
      BY <1>3, <2>2, OpenTradesGrow
    <2>3. CASE Ahead(t) /\ ~Ahead(t)'
      <3>1. Dispatch /\ pc' = "wait" /\ ev.rev > 0 /\ t = ev.id /\ rev[t] = ev.rev
        BY <1>0, <1>3, <2>3, AheadStep
      <3>2. ev.st \in Statuses
        BY <1>0, <1>3, <3>1, ViewIsStatuses DEF SnapshotsTrue, Current
      <3> QED
        BY <3>1, <3>2 DEF Dispatch, UpdateTrade
    <2> QED
      BY <2>1, <2>2, <2>3
  <1> QED
    BY <1>1, <1>2, <1>3

\* Every trade of the open_trades view is in the heap of timeouts, or a write of it is
\* still to come, also after a crash (updateTrade, reloadOpenTrades).
THEOREM HeapIsComplete == Spec => []HeapCoversOpen
  <1>1. Init => HeapInv
    <2> SUFFICES ASSUME Init, NEW t \in Trades, InOpenTradesView(state[t]) PROVE t \in openTrades
      BY DEF HeapInv
    <2>1. t \in Entries
      BY DEF Entries
    <2>2. ~InOpenTradesView("absent")
      BY DEF InOpenTradesView, Matched
    <2> QED
      BY <2>1, <2>2 DEF Init
  <1>2. HeapInv => HeapCoversOpen
    BY AheadIsUnseen DEF HeapInv, HeapCoversOpen
  <1> QED
    BY <1>1, <1>2, FeedAlways, HeapStep, PTL DEF Spec

-----------------------------------------------------------------------------
(* The stored balances *)

\* The view counts the document, or counted it before it was canceled.
Live(d) == (d \in Trades /\ state[d] \in Statuses) \/ (d \in Deposits /\ state[d] = "filled")

Stored(o) == balance[o] = AsSatoshi(ledger[o])
Coming(o) == \E d \in Entries : OrderOf[d] = o /\ Live(d) /\ Ahead(d)
Written(o) == \E d \in Entries : OrderOf[d] = o /\ Live(d) /\ rev[d] > 1

\* What updateOrderBalance works on, at every stage, are orders to update.
FlushTrue ==
    /\ ordersToUpdate # {} => ordTimer # "off"
    /\ keys \subseteq ordersToUpdate /\ conflicts \subseteq keys /\ \A p \in chset : p[1] \in keys
    /\ pc \in {"read", "commit"} =>
          \A o \in ordersToUpdate : need[o] = AsSatoshi(ledger[o]) \/ Coming(o)
    /\ pc = "read" => \A o \in ordersToUpdate : o \in keys \/ balance[o] = need[o]
    /\ pc = "commit" =>
          \A o \in ordersToUpdate :
              balance[o] = need[o] \/ o \in conflicts \/ \E p \in chset : p[1] = o

\* A process whose heap is empty has handled no event, and so has none that ended
\* without a crash.
FirstRun ==
    openTrades = {} \/ pc = "down" =>
        /\ ordersToUpdate = {} /\ seqId = 0 /\ since = 1
        /\ \A o \in Orders : Stored(o) \/ Written(o)

BalanceInv ==
    faults = 0 /\ crashes = 0 =>
        /\ FirstRun /\ FlushTrue
        /\ pc # "down" => \A o \in Orders : Stored(o) \/ o \in ordersToUpdate \/ Coming(o)

LEMMA LiveStays ==
  ASSUME TypeOK, SnapshotsTrue, [Next]_vars, NEW d \in Entries, Live(d)
  PROVE  Live(d)'
  <1>0. d \in Trades => d \notin Deposits
    BY DocsAssumption
  <1>1. CASE state'[d] = state[d]
    BY <1>1 DEF Live
  <1>2. CASE state'[d] # state[d]
    <2>1. ASSUME NEW y \in Entries, NEW s, Store(y, s) PROVE y = d /\ state'[d] = s
      BY <1>2, <2>1 DEF Store, TypeOK
    <2>2. ASSUME NEW t \in Trades, PostTrade(t) PROVE Live(d)'
      <3>1. t = d /\ state[d] = "absent"
        BY <2>1, <2>2 DEF PostTrade, Entries
      <3> QED
        BY <1>0, <2>2, <3>1 DEF Live, Statuses
    <2>3. ASSUME NEW y \in Deposits, PostDeposit(y) PROVE Live(d)'
      <3>1. y = d /\ state[d] = "absent"
        BY <2>1, <2>3 DEF PostDeposit, Entries
      <3> QED
        BY <1>0, <2>3, <3>1 DEF Live
    <2>4. ASSUME NEW y \in Deposits, NEW paid \in BOOLEAN, ChangeInvoiceStatus(y, paid)
          PROVE  Live(d)'
      <3>1. y = d /\ state[d] = "unpaid"
        BY <2>1, <2>4 DEF ChangeInvoiceStatus, Entries
      <3> QED
        BY <1>0, <2>4, <3>1 DEF Live
    <2>5. ASSUME NEW t \in Trades, NEW s \in Statuses, MoveTrade(t, s) PROVE Live(d)'
      BY <2>1, <2>5 DEF MoveTrade, Live, Entries
    <2>6. CASE LockPut
      <3>1. /\ d = ev.id /\ ev.id \in Trades /\ state[d] = Undecided
        BY <1>2, <2>6 DEF LockPut, Store, TypeOK, SnapshotsTrue, Current, Entries
      <3> QED
        BY <1>0, <3>1, StatusFacts DEF Live
    <2>7. CASE ~Environment /\ ~LockPut
      <3>1. UNCHANGED state
        BY <2>7
        DEF Next, OnChange, SaveSeq, QueryBalance, ReadOrders, CommitOrder, CommitDone, FlushEnds,
            TimeoutsUndefined, Stop, Rest, Dispatch, LockQuery, LockConflict, Abandon, Faults,
            SaveSeqRefused, UpdateFails, OnChangeThrows, CommitOrderFails, Fetch, Deliver,
            DeliverIdle, TickSeq, TickOrders, Expire, Crash, Restart, flushRest, db, vars
      <3> QED
        BY <1>2, <3>1
    <2> QED
      BY <1>2, <2>2, <2>3, <2>4, <2>5, <2>6, <2>7 DEF Environment, EditDoc
  <1> QED
    BY <1>1, <1>2

\* The sum of an order moves with the state of a document the view counts.
LEMMA LedgerMoves ==
  ASSUME TypeOK, SnapshotsTrue, [Next]_vars, NEW o \in Orders, ledger'[o] # ledger[o]
  PROVE  \E d \in Entries : OrderOf[d] = o /\ Live(d)' /\ state'[d] # state[d]
  <1>1. ASSUME NEW d \in Entries, NEW s \in States, Store(d, s)
        PROVE  OrderOf[d] = o /\ Emitted(d, s) # Emitted(d, state[d]) /\ state'[d] = s
    <2>1. state'[d] = s
      BY <1>1 DEF Store, TypeOK
    <2>2. OrderOf[d] = o
      BY <1>1, StoreLedger
    <2>3. /\ ledger'[o] = ledger[o] - Emitted(d, state[d]) + Emitted(d, s)
          /\ Emitted(d, s) \in Int /\ Emitted(d, state[d]) \in Int /\ ledger[o] \in Int
      BY <1>1, <2>2, StoreLedger DEF TypeOK
    <2> QED
      BY <2>1, <2>2, <2>3
  <1>2. ASSUME NEW d \in Entries, NEW s \in States, Store(d, s),
               Emitted(d, s) # 0 \/ (s # state[d] /\ d \in Trades /\ s \in Statuses)
        PROVE  \E x \in Entries : OrderOf[x] = o /\ Live(x)' /\ state'[x] # state[x]
    <2>1. OrderOf[d] = o /\ state'[d] = s /\ state'[d] # state[d]
      BY <1>1, <1>2
    <2>2. Live(d)'
      BY <1>2, <2>1 DEF Live, Emitted, Blocking
    <2> QED
      BY <2>1, <2>2
  <1> DEFINE Goal == \E d \in Entries : OrderOf[d] = o /\ Live(d)' /\ state'[d] # state[d]
  <1>3. ASSUME NEW t \in Trades, PostTrade(t) PROVE Goal
    <2>1. t \in Entries /\ Store(t, Undecided) /\ state[t] = "absent" /\ Undecided \in States
      BY <1>3, StatusFacts DEF PostTrade, Entries
    <2>2. Emitted(t, "absent") = 0 /\ Emitted(t, Undecided) = 0
      BY DocsAssumption DEF Emitted, Blocking, Statuses, Undecided
    <2> QED
      BY <1>1, <2>1, <2>2
  <1>4. ASSUME NEW d \in Deposits, PostDeposit(d) PROVE Goal
    <2>1. d \in Entries /\ "unpaid" \in States /\ Store(d, "unpaid") /\ state[d] = "absent"
      BY <1>4 DEF PostDeposit, Entries, States, DepositStates
    <2>2. Emitted(d, "absent") = 0 /\ Emitted(d, "unpaid") = 0
      BY DocsAssumption DEF Emitted
    <2> QED
      BY <1>1, <2>1, <2>2
  <1>5. ASSUME NEW d \in Deposits, NEW paid \in BOOLEAN, ChangeInvoiceStatus(d, paid) PROVE Goal
    <2> DEFINE s == IF paid THEN "filled" ELSE "deleted"
    <2>1. d \in Entries /\ s \in States /\ Store(d, s) /\ state[d] = "unpaid"
      BY <1>5 DEF ChangeInvoiceStatus, Entries, States, DepositStates
    <2>2. Emitted(d, "unpaid") = 0
      BY DocsAssumption DEF Emitted
    <2> QED
      BY <1>1, <1>2, <2>1, <2>2
  <1>6. ASSUME NEW t \in Trades, NEW s \in Statuses, MoveTrade(t, s) PROVE Goal
    BY <1>2, <1>6, StatusFacts DEF MoveTrade, Entries
  <1>7. CASE LockPut
    <2> DEFINE t == ev.id
    <2>1. /\ t \in Trades /\ t \in Entries /\ t \notin Deposits
          /\ Store(t, Decision(t)) /\ Decision(t) \in States
      BY <1>7, DocsAssumption
      DEF LockPut, TypeOK, Entries, Decision, States, TradeStates, Statuses
    <2>2. state[t] = Undecided
      BY <1>7, <2>1 DEF LockPut, SnapshotsTrue, Current
    <2>3. Emitted(t, Undecided) = 0
      BY <2>1 DEF Emitted, Blocking, Statuses, Undecided
    <2> QED
      BY <1>1, <1>2, <2>1, <2>2, <2>3
  <1>8. CASE UNCHANGED ledger
    BY <1>8
  <1>9. CASE ~Environment /\ ~LockPut
    <2>1. UNCHANGED ledger
      BY <1>9
      DEF Next, OnChange, SaveSeq, QueryBalance, ReadOrders, CommitOrder, CommitDone, FlushEnds,
          TimeoutsUndefined, Stop, Rest, Dispatch, LockQuery, LockConflict, Abandon, Faults,
          SaveSeqRefused, UpdateFails, OnChangeThrows, CommitOrderFails, Fetch, Deliver,
          DeliverIdle, TickSeq, TickOrders, Expire, Crash, Restart, flushRest, db, vars
    <2> QED
      BY <2>1
  <1> QED
    BY <1>3, <1>4, <1>5, <1>6, <1>7, <1>8, <1>9 DEF Environment, EditDoc

LEMMA MovedIsComing ==
  ASSUME TypeOK, SnapshotsTrue, FeedTrue, [Next]_vars, NEW o \in Orders, ledger'[o] # ledger[o]
  PROVE  Coming(o)' /\ Written(o)'
  <1>1. PICK d \in Entries : OrderOf[d] = o /\ Live(d)' /\ state'[d] # state[d]
    BY LedgerMoves
  <1>2. Ahead(d)' /\ rev'[d] = seq + 1
    BY <1>1, ChangedIsAhead
  <1>3. seq + 1 > 1
    BY DEF FeedTrue, TypeOK
  <1> QED
    BY <1>1, <1>2, <1>3 DEF Coming, Written

LEMMA ComingStep ==
  ASSUME TypeOK, SnapshotsTrue, FeedTrue, [Next]_vars, faults' = faults,
         pc # "down", pc' # "down", NEW o \in Orders, Coming(o)
  PROVE  Coming(o)' \/ (Dispatch /\ pc' = "wait" /\ o \in ordersToUpdate')
  <1>1. PICK d \in Entries : OrderOf[d] = o /\ Live(d) /\ Ahead(d)
    BY DEF Coming
  <1>2. Live(d)' /\ d \in Docs
    BY <1>1, LiveStays DEF Docs
  <1>3. CASE Ahead(d)'
    BY <1>1, <1>2, <1>3 DEF Coming
  <1>4. CASE Dispatch /\ pc' = "wait" /\ ev.rev > 0 /\ d = ev.id /\ rev[d] = ev.rev
    <2>1. ev.st = state[d]
      BY <1>4 DEF SnapshotsTrue, Current
    <2> QED
      BY <1>1, <1>4, <2>1 DEF Live, Dispatch, MustUpdate
  <1> QED
    BY <1>1, <1>2, <1>3, <1>4, AheadStep

LEMMA WrittenStep ==
  ASSUME TypeOK, SnapshotsTrue, FeedTrue, [Next]_vars, NEW o \in Orders, Written(o)
  PROVE  Written(o)'
  <1>1. PICK d \in Entries : OrderOf[d] = o /\ Live(d) /\ rev[d] > 1
    BY DEF Written
  <1>2. Live(d)' /\ d \in Docs
    BY <1>1, LiveStays DEF Docs
  <1>3. rev'[d] = rev[d] \/ rev'[d] = seq + 1
    <2>1. ASSUME NEW y \in Docs, Touch(y) PROVE rev'[d] = rev[d] \/ rev'[d] = seq + 1
      BY <1>2, <2>1 DEF Touch, TypeOK
    <2>2. CASE Writes
      BY <2>1, <2>2 DEF Writes
    <2>3. CASE LockPut
      BY <2>1, <2>3 DEF LockPut, Store, TypeOK, Docs, Entries
    <2> QED
      BY <2>2, <2>3, Kinds
      DEF Quiet, Fetch, Deliver, SaveSeq, Dispatch, Throws, Abandon, Stops, Stop, Restart, db
  <1>4. seq + 1 > 1
    BY DEF FeedTrue, TypeOK
  <1> QED
    BY <1>1, <1>2, <1>3, <1>4 DEF Written

\* What a step does to updateOrderBalance.
Aside == /\ UNCHANGED <<flush, balance>>
         /\ pc' \in {"read", "commit"} => pc' = pc /\ UNCHANGED ordersToUpdate
         /\ \/ UNCHANGED <<ordersToUpdate, ordTimer>>
            \/ UNCHANGED ordersToUpdate /\ ordTimer' = "due"
            \/ Dispatch

LEMMA FlushKinds ==
  ASSUME TypeOK, [Next]_vars, faults' = faults
  PROVE  \/ QueryBalance \/ ReadOrders \/ (\E p \in chset : CommitOrder(p)) \/ CommitDone
         \/ (Stop /\ pc' = "down") \/ Aside
  <1>0. faults \in Nat
    BY DEF TypeOK
  <1>1. CASE Environment
    <2>1. UNCHANGED monitor /\ UNCHANGED balance
      BY <1>1 DEF Environment, PostTrade, PostDeposit, ChangeInvoiceStatus, MoveTrade, EditDoc,
                  Moved, Store
    <2> QED
      BY <2>1 DEF monitor, timers, Aside
  <1>2. CASE (\E e \in feed : Deliver(e)) \/ DeliverIdle
    <2>1. StartOfOnChange \notin {"read", "commit"}
      BY DEF StartOfOnChange
    <2> QED
      BY <1>2, <2>1 DEF Deliver, DeliverIdle, timers, db, Aside
  <1>3. CASE SaveSeq \/ SaveSeqRefused
    <2>1. AfterSave \notin {"read", "commit"}
      BY DEF AfterSave
    <2> QED
      BY <1>3, <2>1 DEF SaveSeq, SaveSeqRefused, timers, db, Aside
  <1>4. CASE Dispatch
    BY <1>4 DEF Dispatch, db, Aside
  <1>5. CASE Fetch \/ TickSeq \/ TickOrders
    BY <1>5 DEF Fetch, TickSeq, TickOrders, Expire, timers, db, Aside
  <1>6. CASE Rest \/ LockQuery \/ LockPut \/ LockConflict \/ OnChangeThrows
    BY <1>6 DEF Rest, LockQuery, LockPut, LockConflict, OnChangeThrows, Abandon, Store, timers, db,
                Aside
  <1>7. CASE UpdateFails \/ \E p \in chset : CommitOrderFails(p)
    BY <1>0, <1>7 DEF UpdateFails, CommitOrderFails
  <1>8. CASE TimeoutsUndefined \/ Crash
    BY <1>8 DEF TimeoutsUndefined, Crash, Stop
  <1>9. CASE Restart
    BY <1>9 DEF Restart, db, Aside
  <1>10. CASE UNCHANGED vars
    BY <1>10 DEF vars, timers, db, Aside
  <1> QED
    BY <1>1, <1>2, <1>3, <1>4, <1>5, <1>6, <1>7, <1>8, <1>9, <1>10 DEF Next, OnChange, Faults

LEMMA FlushStep ==
  ASSUME TypeOK, SnapshotsTrue, FeedTrue, FlushTrue, [Next]_vars, faults' = faults
  PROVE  FlushTrue'
  <1>1. CASE QueryBalance
    <2>1. /\ need' = [o \in Orders |-> IF o \in ordersToUpdate THEN AsSatoshi(ledger[o]) ELSE 0]
          /\ keys' = ordersToUpdate /\ pc' = "read"
          /\ UNCHANGED <<ledger, balance, ordTimer, ordersToUpdate, chset, conflicts>>
      BY <1>1 DEF QueryBalance, db
    <2>2. \A o \in ordersToUpdate : need'[o] = AsSatoshi(ledger[o])
      BY <2>1 DEF TypeOK
    <2> QED
      BY <2>1, <2>2 DEF FlushTrue, AsSatoshi
  <1>2. CASE ReadOrders
    <2>1. /\ pc = "read" /\ pc' = "commit" /\ conflicts' = {}
          /\ chset' = {<<o, rev[o]>> : o \in {k \in keys : balance[k] # need[k]}}
          /\ UNCHANGED <<db, ordTimer, ordersToUpdate, need, keys, ev, feed, cursor>>
      BY <1>2 DEF ReadOrders, flushRest
    <2>2. \A p \in chset' : p[1] \in keys
      BY <2>1
    <2>3. \A o \in ordersToUpdate : balance[o] = need[o] \/ \E p \in chset' : p[1] = o
      <3> SUFFICES ASSUME NEW o \in ordersToUpdate, balance[o] # need[o]
                   PROVE  \E p \in chset' : p[1] = o
        OBVIOUS
      <3>1. <<o, rev[o]>> \in chset' /\ <<o, rev[o]>>[1] = o
        BY <2>1 DEF FlushTrue
      <3> QED
        BY <3>1
    <2>4. \A o \in Orders : Coming(o) => Coming(o)'
      BY <2>1 DEF Coming, Live, Ahead, db
    <2> QED
      BY <2>1, <2>2, <2>3, <2>4 DEF FlushTrue, db, AsSatoshi, TypeOK
  <1>3. ASSUME NEW p \in chset, CommitOrder(p) PROVE FlushTrue'
    <2>1. /\ pc = "commit" /\ pc' = "commit" /\ chset' = chset \ {p}
          /\ UNCHANGED <<ordTimer, ordersToUpdate, need, keys, ledger, ev, feed, cursor>>
          /\ p[1] \in Orders /\ p[1] \in keys
          /\ \/ balance' = [balance EXCEPT ![p[1]] = need[p[1]]] /\ UNCHANGED conflicts
             \/ UNCHANGED balance /\ conflicts' = conflicts \cup {p[1]}
      BY <1>3 DEF CommitOrder, flushRest, db, FlushTrue, TypeOK
    <2>2. \A o \in ordersToUpdate :
              balance'[o] = need[o] \/ o \in conflicts' \/ \E q \in chset' : q[1] = o
      <3> SUFFICES ASSUME NEW o \in ordersToUpdate
                   PROVE  balance'[o] = need[o] \/ o \in conflicts' \/ \E q \in chset' : q[1] = o
        OBVIOUS
      <3>1. balance[o] = need[o] \/ o \in conflicts \/ \E q \in chset : q[1] = o
        BY <2>1 DEF FlushTrue
      <3>2. balance \in [Orders -> Nat] /\ o \in Orders
        BY DEF TypeOK
      <3>3. CASE o = p[1]
        BY <2>1, <3>2, <3>3
      <3>4. CASE o # p[1]
        BY <2>1, <3>1, <3>2, <3>4
      <3> QED
        BY <3>3, <3>4
    <2>3. \A o \in ordersToUpdate : need[o] = AsSatoshi(ledger[o]) \/ Coming(o)'
      <3>1. pc # "down" /\ pc' # "down" /\ ~(Dispatch /\ pc' = "wait")
        BY <2>1
      <3> QED
        BY <2>1, <3>1, ComingStep DEF FlushTrue, TypeOK
    <2> QED
      BY <2>1, <2>2, <2>3 DEF FlushTrue, AsSatoshi
  <1>4. CASE CommitDone
    <2>1. pc = "commit" /\ chset = {} /\ UNCHANGED <<db, ev, feed, cursor>>
      BY <1>4 DEF CommitDone, flushRest
    <2>2. CASE /\ keys' = conflicts /\ pc' = "read"
               /\ UNCHANGED <<ordTimer, ordersToUpdate, need, chset, conflicts>>
      <3>1. \A o \in Orders : Coming(o) => Coming(o)'
        BY <2>1 DEF Coming, Live, Ahead, db
      <3> QED
        BY <2>1, <2>2, <3>1 DEF FlushTrue, db, AsSatoshi, TypeOK
    <2>3. CASE FlushEnds({}, "off") \/ FlushEnds(ordersToUpdate, "armed")
      BY <2>3 DEF FlushEnds, FlushTrue
    <2> QED
      BY <1>4, <2>2, <2>3 DEF CommitDone
  <1>5. CASE Stop /\ pc' = "down"
    BY <1>5 DEF Stop, FlushTrue
  <1>6. CASE Aside
    <2>1. ordersToUpdate \subseteq ordersToUpdate' /\ (ordersToUpdate' # {} => ordTimer' # "off")
      BY <1>6 DEF Aside, Dispatch, MustUpdate, FlushTrue
    <2>2. UNCHANGED <<need, keys, chset, conflicts, balance>>
      BY <1>6 DEF Aside, flush
    <2>3. ASSUME pc' \in {"read", "commit"}, NEW o \in ordersToUpdate'
          PROVE  need[o] = AsSatoshi(ledger'[o]) \/ Coming(o)'
      <3>1. pc' = pc /\ o \in ordersToUpdate /\ o \in Orders
        BY <1>6, <2>3 DEF Aside, TypeOK
      <3>2. need[o] = AsSatoshi(ledger[o]) \/ Coming(o)
        BY <2>3, <3>1 DEF FlushTrue
      <3>3. CASE ledger'[o] # ledger[o]
        BY <3>1, <3>3, MovedIsComing
      <3>4. CASE Coming(o)
        BY <2>3, <3>1, <3>4, ComingStep
      <3> QED
        BY <3>2, <3>3, <3>4
    <2>4. pc' \in {"read", "commit"} => pc' = pc /\ UNCHANGED ordersToUpdate
      BY <1>6 DEF Aside
    <2> QED
      BY <2>1, <2>2, <2>3, <2>4 DEF FlushTrue, AsSatoshi
  <1> QED
    BY <1>1, <1>2, <1>3, <1>4, <1>5, <1>6, FlushKinds

\* The step of an order whose sum does not move.
LEMMA StoredStep ==
  ASSUME TypeOK, FlushTrue, [Next]_vars, faults' = faults, NEW o \in Orders,
         Stored(o), ledger'[o] = ledger[o], o \notin ordersToUpdate
  PROVE  Stored(o)'
  <1>1. CASE UNCHANGED balance
    BY <1>1 DEF Stored, AsSatoshi
  <1>2. ASSUME NEW p \in chset, CommitOrder(p) PROVE balance'[o] = balance[o]
    <2>1. p[1] # o
      BY DEF FlushTrue
    <2> QED
      BY <1>2, <2>1 DEF CommitOrder, db, TypeOK
  <1>3. CASE QueryBalance \/ ReadOrders \/ CommitDone \/ Stop
    BY <1>1, <1>3 DEF QueryBalance, ReadOrders, CommitDone, Stop, db
  <1> QED
    BY <1>1, <1>2, <1>3, FlushKinds DEF Aside, Stored, AsSatoshi

LEMMA FirstRunStep ==
  ASSUME TypeOK, SnapshotsTrue, FeedTrue, FlushTrue, FirstRun, [Next]_vars,
         faults' = faults, crashes' = crashes
  PROVE  FirstRun'
  <1> SUFFICES ASSUME openTrades' = {} \/ pc' = "down"
               PROVE  /\ ordersToUpdate' = {} /\ seqId' = 0 /\ since' = 1
                      /\ \A o \in Orders : Stored(o)' \/ Written(o)'
    BY DEF FirstRun
  <1>1. openTrades = {} \/ pc = "down"
    <2>1. CASE pc' # "down"
      BY <2>1, OpenTradesGrow
    <2>2. CASE pc' = "down" /\ pc # "down"
      <3>1. TimeoutsUndefined \/ Crash
        BY <2>2
        DEF Next, Environment, PostTrade, PostDeposit, ChangeInvoiceStatus, MoveTrade, EditDoc,
            Moved, monitor, OnChange, SaveSeq, AfterSave, QueryBalance, ReadOrders, CommitOrder,
            CommitDone, FlushEnds, Rest, Dispatch, LockQuery, LockPut, LockConflict, Abandon,
            Faults, SaveSeqRefused, UpdateFails, OnChangeThrows, CommitOrderFails, Fetch, Deliver,
            DeliverIdle, StartOfOnChange, TickSeq, TickOrders, Expire, Restart, flushRest, vars
      <3>2. ~Crash
        BY DEF Crash, TypeOK
      <3> QED
        BY <3>1, <3>2 DEF TimeoutsUndefined
    <2> QED
      BY <2>1, <2>2
  <1>2. /\ ordersToUpdate = {} /\ seqId = 0 /\ since = 1 /\ chset = {}
        /\ \A o \in Orders : Stored(o) \/ Written(o)
    BY <1>1 DEF FirstRun, FlushTrue
  <1>3. ~Dispatch /\ ~SaveSeq
    BY <1>1, <1>2 DEF Dispatch, TimeoutsSkipped, SaveSeq, FeedTrue
  <1>4. ordersToUpdate' = {} /\ seqId' = 0 /\ since' = 1
    <2>1. ordersToUpdate' \subseteq ordersToUpdate
      BY <1>3, FlushKinds
      DEF QueryBalance, ReadOrders, CommitOrder, CommitDone, FlushEnds, Stop, Aside
    <2>2. since' = since /\ (seqId' = seqId \/ seqId' = 0)
      BY <1>3, Kinds
      DEF Writes, Quiet, Fetch, Deliver, LockPut, Throws, Abandon, Stops, Stop, Restart, position
    <2> QED
      BY <1>2, <2>1, <2>2
  <1>5. ASSUME NEW o \in Orders PROVE Stored(o)' \/ Written(o)'
    <2>1. CASE ledger'[o] # ledger[o]
      BY <2>1, MovedIsComing
    <2>2. CASE Written(o)
      BY <2>2, WrittenStep
    <2>3. CASE ledger'[o] = ledger[o] /\ Stored(o)
      BY <1>2, <2>3, StoredStep
    <2> QED
      BY <1>2, <2>1, <2>2, <2>3
  <1> QED
    BY <1>4, <1>5

LEMMA BalanceStep ==
  TypeOK /\ SnapshotsTrue /\ FeedTrue /\ BalanceInv /\ [Next]_vars => BalanceInv'
  <1> SUFFICES ASSUME TypeOK, SnapshotsTrue, FeedTrue, BalanceInv, [Next]_vars,
                      faults' = 0, crashes' = 0
               PROVE  /\ FirstRun' /\ FlushTrue'
                      /\ pc' # "down" => \A o \in Orders :
                            Stored(o)' \/ o \in ordersToUpdate' \/ Coming(o)'
    BY DEF BalanceInv
  <1>0. /\ faults = 0 /\ crashes = 0 /\ faults' = faults /\ crashes' = crashes
        /\ FirstRun /\ FlushTrue
        /\ pc # "down" => \A o \in Orders : Stored(o) \/ o \in ordersToUpdate \/ Coming(o)
    BY FaultsGrow DEF TypeOK, BalanceInv
  <1>1. FirstRun' /\ FlushTrue'
    BY <1>0, FirstRunStep, FlushStep
  <1>2. ASSUME pc' # "down", NEW o \in Orders
        PROVE  Stored(o)' \/ o \in ordersToUpdate' \/ Coming(o)'
    <2>1. CASE ledger'[o] # ledger[o]
      BY <2>1, MovedIsComing
    <2>2. CASE pc = "down" /\ ledger'[o] = ledger[o]
      <3>1. Restart
        BY <1>2, <2>2, DownRestarts
      <3>2. Stored(o) => Stored(o)'
        BY <3>1 DEF Restart, db, Stored, AsSatoshi
      <3>3. Written(o) => Coming(o)'
        BY <1>0, <2>2, <3>1 DEF Restart, db, FirstRun, Written, Coming, Live, Ahead
      <3> QED
        BY <1>0, <2>2, <3>2, <3>3 DEF FirstRun
    <2>3. CASE pc # "down" /\ ledger'[o] = ledger[o]
      <3>1. CASE Coming(o)
        BY <1>0, <1>2, <2>3, <3>1, ComingStep
      <3>2. CASE Stored(o) /\ o \notin ordersToUpdate
        BY <1>0, <2>3, <3>2, StoredStep
      <3>3. CASE o \in ordersToUpdate /\ ~Coming(o)
        <4>1. CASE ordersToUpdate \subseteq ordersToUpdate'
          BY <3>3, <4>1
        <4>2. CASE CommitDone /\ ~(ordersToUpdate \subseteq ordersToUpdate')
          <5>1. conflicts = {} /\ chset = {} /\ pc = "commit" /\ UNCHANGED balance
            BY <4>2 DEF CommitDone, FlushEnds, db
          <5>2. balance[o] = need[o] /\ need[o] = AsSatoshi(ledger[o])
            BY <1>0, <3>3, <5>1 DEF FlushTrue
          <5> QED
            BY <2>3, <5>1, <5>2 DEF Stored, AsSatoshi
        <4> QED
          BY <1>0, <1>2, <4>1, <4>2, FlushKinds
          DEF QueryBalance, ReadOrders, CommitOrder, Aside, Dispatch, MustUpdate
      <3> QED
        BY <1>0, <2>3, <3>1, <3>2, <3>3
    <2> QED
      BY <2>1, <2>2, <2>3
  <1> QED
    BY <1>1, <1>2

\* Until a call of the database fails, no balance is forgotten: whatever deposits and
\* trades do before, between and after the calls of updateOrderBalance, an order whose
\* stored balance is not that of the view is to be updated, or an event of one of its
\* documents is still to come (onChange, updateOrderBalance, mustUpdate).
THEOREM NoBalanceForgotten == Spec => []BalanceTracked
  <1>1. Init => BalanceInv
    <2> SUFFICES ASSUME Init PROVE FirstRun /\ FlushTrue /\ \A o \in Orders : Stored(o)
      BY DEF BalanceInv
    <2>1. \A o \in Orders : Stored(o)
      BY DEF Init, Stored, AsSatoshi
    <2> QED
      BY <2>1 DEF Init, FirstRun, FlushTrue
  <1>2. BalanceInv => BalanceTracked
    BY AheadIsUnseen DEF BalanceInv, BalanceTracked, FlushTrue, Stored, Coming
  <1> QED
    BY <1>1, <1>2, FeedAlways, BalanceStep, PTL DEF Spec
=============================================================================
