-------------------------- MODULE ExchangeMonitor --------------------------
(***************************************************************************)
(* The exchange monitor: Exchange::onChange and what it calls, run by the  *)
(* thread that delivers the changes of the database.  The monitor decides  *)
(* new trades by locking the balance of their order, and keeps the balance *)
(* stored in each order document equal to the order_balance view.          *)
(*                                                                         *)
(* A handler is cut where it calls the database, for users, the wallet and *)
(* bank connections write the same documents in between.  Every write      *)
(* carries the revision it read; the database refuses a stale one.         *)
(***************************************************************************)
EXTENDS Integers, FiniteSets, Functions, TradeStatus

CONSTANTS
    Orders, Trades, Deposits,  \* the documents
    Seeds,       \* sets of trades that may be canceled when the system starts
    OrderOf,     \* the order of a trade or a deposit
    Amount,      \* asset.amount of a trade, amount of a deposit
    Fee,         \* asset.fee of a trade
    IsWithdraw,  \* the flag withdraw of a trade
    NegativeAs,  \* what getUIntLong() returns for a negative number
    MaxMoves,    \* bound: writes by users and bank connections
    MaxFaults,   \* bound: database calls that fail
    MaxCrashes   \* bound: crashes of the process

Entries == Trades \cup Deposits
Docs == Orders \cup Entries

ASSUME DocsAssumption ==
    /\ IsFiniteSet(Docs)
    /\ Orders \cap Entries = {} /\ Trades \cap Deposits = {}
    /\ Seeds \subseteq SUBSET Trades
    /\ OrderOf \in [Entries -> Orders]
    /\ Amount \in [Entries -> Nat]
    /\ Fee \in [Trades -> Nat]
    /\ IsWithdraw \in [Trades -> BOOLEAN]
    /\ NegativeAs \in Nat

VARIABLES
    \* the database
    seq,        \* sequence number of its last write
    rev,        \* sequence number of the last write of each document, 0: none
    state,      \* the status of a trade, the state of a deposit
    ledger,     \* the order_balance view: for each order, the sum
    balance,    \* the balance stored in each order document
    since,      \* the local document exchange_lastid
    \* the monitor
    pc,         \* what the change thread does next
    ev,         \* the event onChange handles
    feed,       \* changes received and not yet delivered
    cursor,     \* the sequence number the feed continues from
    seqId,      \* sequence number to be saved, 0: undefined
    seqTimer, ordTimer,    \* delayed_seqId and delayed_orders
    ordersToUpdate,
    need, keys, chset, conflicts, errors,  \* locals of updateOrderBalance
    grant,      \* what lockOrderBalance decided
    openTrades, \* the trades in the timeout heap
    \* observation
    revived,    \* orders of a canceled trade that a late payment revived
    moves, faults, crashes

db      == <<seq, rev, state, ledger, balance>>
flush   == <<need, keys, chset, conflicts, errors>>
timers  == <<seqTimer, ordTimer>>
bounds  == <<moves, faults, crashes>>
vars == <<db, since, pc, ev, feed, cursor, seqId, timers, ordersToUpdate,
          flush, grant, openTrades, revived, bounds>>

-----------------------------------------------------------------------------
(* The database *)

DepositStates == {"absent", "unpaid", "filled", "deleted"}
States == TradeStates \cup DepositStates \cup {"order"}

\* What a trade takes from its order while it blocks.
Reserve(t) == IF Amount[t] > 0 THEN Amount[t] + Fee[t] ELSE 0

\* What order_balance emits for a document in state s.
Emitted(d, s) ==
    CASE d \in Trades /\ Blocking(s) -> 0 - Reserve(d)
      [] d \in Deposits /\ s = "filled" -> Amount[d]
      [] OTHER -> 0

\* The view has a row for the order.
HasRows(o) == \E d \in Entries : /\ OrderOf[d] = o /\ Amount[d] > 0
                                 /\ \/ d \in Trades /\ Blocking(state[d])
                                    \/ d \in Deposits /\ state[d] = "filled"

\* Mutant: the sum is read as a signed number.
AsSatoshiSigned(n) == n

\* A sum of the view as the code reads it, an unsigned number.
AsSatoshi(n) == IF n >= 0 THEN n ELSE NegativeAs

\* A write that leaves the state of a document alone.
Touch(d) == /\ seq' = seq + 1
            /\ rev' = [rev EXCEPT ![d] = seq + 1]

\* A write of a trade or a deposit; the view follows.
Store(d, s) ==
    /\ Touch(d)
    /\ state' = [state EXCEPT ![d] = s]
    /\ ledger' = [ledger EXCEPT ![OrderOf[d]] =
                     @ - Emitted(d, state[d]) + Emitted(d, s)]
    /\ UNCHANGED balance

Event(d) == [id |-> d, rev |-> rev[d],
             st |-> IF d \in Entries THEN state[d] ELSE "order"]
Idle == [id |-> "none", rev |-> 0, st |-> "absent"]
Events == [id : Docs \cup {"none"}, rev : Nat, st : States]

-----------------------------------------------------------------------------
(* The others: users, the wallet service, bank connections *)

monitor == <<since, pc, ev, feed, cursor, seqId, timers, ordersToUpdate,
             flush, grant, openTrades>>

Moved == /\ moves < MaxMoves /\ moves' = moves + 1
         /\ UNCHANGED <<monitor, faults, crashes>>

PostTrade(t) ==
    /\ state[t] = "absent"
    /\ Store(t, Undecided)
    /\ UNCHANGED <<monitor, revived, bounds>>

\* createDeposit
PostDeposit(d) ==
    /\ state[d] = "absent"
    /\ Store(d, "unpaid")
    /\ UNCHANGED <<monitor, revived, bounds>>

\* changeInvoiceStatus: the wallet reports a paid or an expired invoice.
ChangeInvoiceStatus(d, paid) ==
    /\ state[d] = "unpaid"
    /\ Store(d, IF paid THEN "filled" ELSE "deleted")
    /\ UNCHANGED <<monitor, revived, bounds>>

\* A bank payment or a user changes the status of a trade.
MoveTrade(t, s) ==
    /\ <<state[t], s>> \in TradeMoves
    /\ s # state[t]
    /\ Store(t, s)
    /\ revived' = IF state[t] = "canceled" THEN revived \cup {OrderOf[t]}
                                           ELSE revived
    /\ Moved

\* Any other edit, of a live trade or of an order.
EditDoc(d) ==
    /\ rev[d] > 0
    /\ d \in Orders \cup Trades
    /\ d \in Trades => state[d] # "deleted"
    /\ Touch(d)
    /\ UNCHANGED <<state, ledger, balance, revived>>
    /\ Moved

Environment ==
    \/ \E t \in Trades : PostTrade(t)
    \/ \E d \in Deposits : PostDeposit(d)
    \/ \E d \in Deposits, paid \in BOOLEAN : ChangeInvoiceStatus(d, paid)
    \/ \E t \in Trades, s \in Statuses : MoveTrade(t, s)
    \/ \E d \in Docs : EditDoc(d)

-----------------------------------------------------------------------------
(* The changes feed *)

\* The feed returns the changes after the cursor, each document once, as it
\* is now.
Fetch ==
    /\ pc = "wait" /\ feed = {} /\ cursor < seq
    /\ feed' = {Event(d) : d \in {x \in Docs : rev[x] > cursor}}
    /\ cursor' = seq
    /\ UNCHANGED <<db, since, pc, ev, seqId, timers, ordersToUpdate, flush,
                   grant, openTrades, revived, bounds>>

\* The tests of now against the two timers at the head of onChange.
StartOfOnChange ==
    IF seqTimer = "due" /\ seqId > 0 THEN "saveSeq"
    ELSE IF ordTimer = "due" THEN "query" ELSE "timeouts"
AfterSave == IF ordTimer = "due" THEN "query" ELSE "timeouts"

\* onChange is called with the next event, or with the idle event.
Deliver(e) ==
    /\ pc = "wait" /\ e \in feed
    /\ \A f \in feed : e.rev <= f.rev
    /\ ev' = e /\ feed' = feed \ {e}
    /\ pc' = StartOfOnChange
    /\ UNCHANGED <<db, since, cursor, seqId, timers, ordersToUpdate, flush,
                   grant, openTrades, revived, bounds>>

\* The feed is idle when it has nothing to deliver.
DeliverIdle ==
    /\ pc = "wait" /\ feed = {} /\ cursor = seq
    /\ pc' = StartOfOnChange
    /\ UNCHANGED <<db, since, ev, feed, cursor, seqId, timers, ordersToUpdate,
                   flush, grant, openTrades, revived, bounds>>

\* A second passes.
Expire(timer, other) ==
    /\ pc = "wait" /\ timer = "armed" /\ timer' = "due" /\ UNCHANGED other
    /\ UNCHANGED <<db, since, pc, ev, feed, cursor, seqId, ordersToUpdate,
                   flush, grant, openTrades, revived, bounds>>
TickSeq == Expire(seqTimer, ordTimer)
TickOrders == Expire(ordTimer, seqTimer)

-----------------------------------------------------------------------------
(* onChange: the position in the feed is saved a second after an event *)

\* Mutant: the position of the feed is saved, not that of the last event.
SaveSeqOfFeed ==
    /\ pc = "saveSeq"
    /\ since' = cursor /\ seqId' = 0
    /\ seqTimer' = "off"
    /\ pc' = AfterSave
    /\ UNCHANGED <<db, ev, feed, cursor, ordTimer, ordersToUpdate, flush,
                   grant, openTrades, revived, bounds>>

SaveSeq ==
    /\ pc = "saveSeq"
    /\ since' = seqId /\ seqId' = 0
    /\ seqTimer' = "off"
    /\ pc' = AfterSave
    /\ UNCHANGED <<db, ev, feed, cursor, ordTimer, ordersToUpdate, flush,
                   grant, openTrades, revived, bounds>>

\* A refused write is swallowed; the next event tries again.
SaveSeqRefused ==
    /\ pc = "saveSeq" /\ faults < MaxFaults
    /\ pc' = AfterSave /\ faults' = faults + 1
    /\ UNCHANGED <<db, since, ev, feed, cursor, seqId, timers, ordersToUpdate,
                   flush, grant, openTrades, revived, moves, crashes>>

-----------------------------------------------------------------------------
(* updateOrderBalance *)

flushRest == <<since, ev, feed, cursor, seqId, seqTimer, grant, openTrades,
               revived, moves, crashes>>

\* The sums are read once; the retries after a conflict use them again.
QueryBalance ==
    /\ pc = "query"
    /\ need' = [o \in Orders |->
                  IF o \in ordersToUpdate THEN AsSatoshi(ledger[o]) ELSE 0]
    /\ keys' = ordersToUpdate
    /\ pc' = "read"
    /\ UNCHANGED <<db, ordTimer, ordersToUpdate, chset, conflicts, errors,
                   flushRest, faults>>

\* A round of the loop: the orders whose balance differs enter the changeset
\* with the revision they were read at.
ReadOrders ==
    /\ pc = "read"
    /\ chset' = {<<o, rev[o]>> : o \in {k \in keys : balance[k] # need[k]}}
    /\ conflicts' = {} /\ errors' = {}
    /\ pc' = "commit"
    /\ UNCHANGED <<db, ordTimer, ordersToUpdate, need, keys, flushRest, faults>>

\* The bulk write stores or refuses each document on its own.
CommitOrder(p) ==
    /\ pc = "commit" /\ p \in chset
    /\ chset' = chset \ {p}
    /\ IF rev[p[1]] = p[2]
       THEN /\ Touch(p[1])
            /\ balance' = [balance EXCEPT ![p[1]] = need[p[1]]]
            /\ UNCHANGED <<state, ledger, conflicts>>
       ELSE /\ conflicts' = conflicts \cup {p[1]}
            /\ UNCHANGED db
    /\ UNCHANGED <<pc, ordTimer, ordersToUpdate, need, keys, errors, flushRest,
                   faults>>

\* An error other than a conflict for one document.
CommitOrderFails(p) ==
    /\ pc = "commit" /\ p \in chset /\ faults < MaxFaults
    /\ chset' = chset \ {p} /\ errors' = errors \cup {p[1]}
    /\ faults' = faults + 1
    /\ UNCHANGED <<db, pc, ordTimer, ordersToUpdate, need, keys, conflicts,
                   flushRest>>

FlushEnds(orders, timer) ==
    /\ ordersToUpdate' = orders /\ ordTimer' = timer
    /\ need' = [o \in Orders |-> 0]
    /\ keys' = {} /\ chset' = {} /\ conflicts' = {} /\ errors' = {}
    /\ pc' = "timeouts"

\* Mutant: conflicts are taken for success.
CommitDoneDespiteConflicts ==
    /\ pc = "commit" /\ chset = {}
    /\ FlushEnds({}, "off")
    /\ UNCHANGED <<db, flushRest, faults>>

\* After a conflict only the conflicting orders are tried again, whatever
\* else failed; errors without a conflict are thrown.
CommitDone ==
    /\ pc = "commit" /\ chset = {}
    /\ \/ /\ conflicts # {}
          /\ keys' = conflicts /\ pc' = "read"
          /\ UNCHANGED <<ordTimer, ordersToUpdate, need, chset, conflicts, errors>>
       \/ conflicts = {} /\ errors = {} /\ FlushEnds({}, "off")
       \/ conflicts = {} /\ errors # {} /\ FlushEnds(ordersToUpdate, "armed")
    /\ UNCHANGED <<db, flushRest, faults>>

\* Any call of updateOrderBalance throws: it is tried again in a second.
UpdateFails ==
    /\ pc \in {"query", "read", "commit"} /\ faults < MaxFaults
    /\ FlushEnds(ordersToUpdate, "armed")
    /\ faults' = faults + 1
    /\ UNCHANGED <<db, flushRest>>

-----------------------------------------------------------------------------
(* processTimeouts, and the crash of the process *)

Stop ==
    /\ pc' = "down" /\ ev' = Idle /\ feed' = {} /\ seqId' = 0
    /\ seqTimer' = "off" /\ ordTimer' = "off" /\ ordersToUpdate' = {}
    /\ need' = [o \in Orders |-> 0]
    /\ keys' = {} /\ chset' = {} /\ conflicts' = {} /\ errors' = {}
    /\ grant' = FALSE /\ openTrades' = {}
    /\ UNCHANGED <<db, since, cursor, revived, moves, faults>>

\* The loop of processTimeouts runs while the heap is empty: not at all when
\* it holds a trade.
TimeoutsSkipped == pc = "timeouts" /\ openTrades # {}

\* With an empty heap its first element is read all the same, through the
\* null pointer of a vector that never held one.
TimeoutsUndefined ==
    /\ pc = "timeouts" /\ openTrades = {}
    /\ Stop /\ UNCHANGED crashes

Crash ==
    /\ pc # "down" /\ crashes < MaxCrashes
    /\ Stop /\ crashes' = crashes + 1

\* reloadOpenTrades; the times of the heap are left out.
ReloadOpenTrades == {t \in Trades : InOpenTradesView(state[t])}

\* Mutant: the next process does not reload the open trades.
RestartWithoutReload ==
    /\ pc = "down"
    /\ openTrades' = {}
    /\ cursor' = since
    /\ seqTimer' = "due" /\ ordTimer' = "due"
    /\ pc' = "wait"
    /\ UNCHANGED <<db, since, ev, feed, seqId, ordersToUpdate, flush, grant,
                   revived, bounds>>

\* init_monitor of the next process.
Restart ==
    /\ pc = "down"
    /\ openTrades' = ReloadOpenTrades
    /\ cursor' = since
    /\ seqTimer' = "due" /\ ordTimer' = "due"
    /\ pc' = "wait"
    /\ UNCHANGED <<db, since, ev, feed, seqId, ordersToUpdate, flush, grant,
                   revived, bounds>>

-----------------------------------------------------------------------------
(* onChange: the event itself *)

\* Mutant: the timer is armed only when other orders already wait.
MustUpdateInverted(o) ==
    /\ ordersToUpdate' = ordersToUpdate \cup {o}
    /\ ordTimer' = IF ordersToUpdate # {} THEN "armed" ELSE ordTimer

MustUpdate(o) ==
    /\ ordersToUpdate' = ordersToUpdate \cup {o}
    /\ ordTimer' = IF ordersToUpdate = {} THEN "armed" ELSE ordTimer

\* updateTrade: a trade with any status enters the heap, or stays in it.
UpdateTrade(t) == openTrades \cup {t}

\* An idle event ends here.
Rest ==
    /\ TimeoutsSkipped /\ ev.rev = 0
    /\ pc' = "wait"
    /\ UNCHANGED <<db, since, ev, feed, cursor, seqId, timers, ordersToUpdate,
                   flush, grant, openTrades, revived, bounds>>

\* The position is noted before the event is handled.
Dispatch ==
    /\ TimeoutsSkipped /\ ev.rev > 0
    /\ seqId' = ev.rev /\ seqTimer' = "armed"
    /\ IF ev.id \in Trades /\ ev.st = Undecided
       THEN /\ pc' = "lockQuery"
            /\ UNCHANGED <<ev, ordTimer, ordersToUpdate, openTrades>>
       ELSE /\ pc' = "wait" /\ ev' = Idle
            /\ IF \/ ev.id \in Trades /\ ev.st \in Statuses
                  \/ ev.id \in Deposits /\ ev.st = "filled"
               THEN MustUpdate(OrderOf[ev.id])
               ELSE UNCHANGED <<ordTimer, ordersToUpdate>>
            /\ openTrades' = IF ev.id \in Trades /\ ev.st \in Statuses
                             THEN UpdateTrade(ev.id) ELSE openTrades
    /\ UNCHANGED <<db, since, feed, cursor, flush, grant, revived, bounds>>

\* Mutant: the fee is left out of the comparison.
LockQueryWithoutFee ==
    /\ pc = "lockQuery"
    /\ LET o == OrderOf[ev.id] IN
         grant' = (HasRows(o) /\ Amount[ev.id] <= AsSatoshi(ledger[o]))
    /\ pc' = "lockPut"
    /\ UNCHANGED <<db, since, ev, feed, cursor, seqId, timers, ordersToUpdate,
                   flush, openTrades, revived, bounds>>

\* lockOrderBalance: the view, then the write.
LockQuery ==
    /\ pc = "lockQuery"
    /\ LET o == OrderOf[ev.id] IN
         grant' = (HasRows(o) /\ Amount[ev.id] + Fee[ev.id] <= AsSatoshi(ledger[o]))
    /\ pc' = "lockPut"
    /\ UNCHANGED <<db, since, ev, feed, cursor, seqId, timers, ordersToUpdate,
                   flush, openTrades, revived, bounds>>

Decision(t) == IF ~grant THEN "deleted"
               ELSE IF IsWithdraw[t] THEN "filled" ELSE "created"

\* Mutant: a trade its order cannot cover is left alone.
LockPutGranted ==
    /\ pc = "lockPut" /\ rev[ev.id] = ev.rev
    /\ IF grant THEN Store(ev.id, Decision(ev.id)) ELSE UNCHANGED db
    /\ pc' = "wait" /\ ev' = Idle /\ grant' = FALSE
    /\ UNCHANGED <<since, feed, cursor, seqId, timers, ordersToUpdate, flush,
                   openTrades, revived, bounds>>

LockPut ==
    /\ pc = "lockPut" /\ rev[ev.id] = ev.rev
    /\ Store(ev.id, Decision(ev.id))
    /\ pc' = "wait" /\ ev' = Idle /\ grant' = FALSE
    /\ UNCHANGED <<since, feed, cursor, seqId, timers, ordersToUpdate, flush,
                   openTrades, revived, bounds>>

\* An exception leaves onChange: whoever delivers the changes drops the event
\* or starts the feed again before it.
Abandon ==
    /\ pc' = "wait" /\ ev' = Idle /\ grant' = FALSE
    /\ \/ UNCHANGED <<feed, cursor>>
       \/ ev.rev > 0 /\ feed' = {} /\ cursor' = ev.rev - 1
    /\ UNCHANGED <<db, since, seqId, timers, ordersToUpdate, flush, openTrades,
                   revived, moves, crashes>>

LockConflict ==
    /\ pc = "lockPut" /\ rev[ev.id] # ev.rev
    /\ Abandon /\ UNCHANGED faults

OnChangeThrows ==
    /\ pc \in {"saveSeq", "lockQuery", "lockPut"} /\ faults < MaxFaults
    /\ Abandon /\ faults' = faults + 1

-----------------------------------------------------------------------------

OnChange ==
    \/ SaveSeq \/ QueryBalance \/ ReadOrders
    \/ \E p \in chset : CommitOrder(p)
    \/ CommitDone \/ TimeoutsUndefined
    \/ Rest \/ Dispatch \/ LockQuery \/ LockPut \/ LockConflict

Faults == \/ SaveSeqRefused \/ UpdateFails \/ OnChangeThrows
          \/ \E p \in chset : CommitOrderFails(p)

Init ==
    /\ openTrades \in Seeds
    /\ seq = 1
    /\ rev = [d \in Docs |-> IF d \in Orders \cup openTrades THEN 1 ELSE 0]
    /\ state = [d \in Entries |-> IF d \in openTrades THEN "canceled" ELSE "absent"]
    /\ ledger = [o \in Orders |-> 0] /\ balance = [o \in Orders |-> 0]
    /\ since = 1 /\ cursor = 1
    /\ pc = "wait" /\ ev = Idle /\ feed = {}
    /\ seqId = 0 /\ seqTimer = "due" /\ ordTimer = "due"
    /\ ordersToUpdate = {} /\ need = [o \in Orders |-> 0]
    /\ keys = {} /\ chset = {} /\ conflicts = {} /\ errors = {}
    /\ grant = FALSE
    /\ revived = {} /\ moves = 0 /\ faults = 0 /\ crashes = 0

Next == \/ Environment
        \/ Fetch \/ (\E e \in feed : Deliver(e)) \/ DeliverIdle
        \/ TickSeq \/ TickOrders
        \/ OnChange \/ Faults \/ Crash \/ Restart

Spec == Init /\ [][Next]_vars

\* The change thread keeps running, the feed delivers what it fetched and is
\* idle from time to time, and time passes.  Nobody else is obliged to act.
Fairness ==
    /\ WF_vars(OnChange) /\ WF_vars(Fetch)
    /\ WF_vars(\E e \in feed : Deliver(e)) /\ WF_vars(DeliverIdle)
    /\ SF_vars(TickSeq) /\ SF_vars(TickOrders)

FairSpec == Spec /\ Fairness

-----------------------------------------------------------------------------
(* Properties *)

Pcs == {"wait", "saveSeq", "query", "read", "commit", "timeouts",
        "lockQuery", "lockPut", "down"}

\* The type invariant: every variable keeps the shape the code gives it, and
\* an event that is being decided is one of a trade.
TypeOK ==
    /\ seq \in Nat /\ rev \in [Docs -> Nat]
    /\ state \in [Entries -> States]
    /\ ledger \in [Orders -> Int] /\ balance \in [Orders -> Nat]
    /\ since \in Nat /\ cursor \in Nat /\ seqId \in Nat
    /\ pc \in Pcs /\ ev \in Events /\ feed \subseteq Events
    /\ \A e \in feed : e.id \in Docs
    /\ ev.rev > 0 => ev.id \in Docs
    /\ pc \in {"lockQuery", "lockPut"} => ev.id \in Trades
    /\ seqTimer \in {"off", "armed", "due"} /\ ordTimer \in {"off", "armed", "due"}
    /\ ordersToUpdate \subseteq Orders
    /\ need \in [Orders -> Nat]
    /\ keys \subseteq Orders /\ conflicts \subseteq Orders /\ errors \subseteq Orders
    /\ chset \subseteq Orders \X Nat
    /\ grant \in BOOLEAN /\ openTrades \subseteq Trades /\ revived \subseteq Orders
    /\ moves \in Nat /\ faults \in Nat /\ crashes \in Nat

\* Locking is safe: as long as no late payment revived one of its canceled
\* trades, an order never has more in blocking trades than its filled deposits
\* brought, however the changes, users' edits, conflicts, faults and crashes
\* interleave between the query of lockOrderBalance and its write.
NoOverbooking == \A o \in Orders \ revived : ledger[o] >= 0

\* What the exchange promises about the balances of orders.
Book == INSTANCE OrderBook WITH Moves <- TradeMoves, Sum <- SumFunctionOnSet

\* Locking is safe, told from the documents: unless a late payment revived one
\* of its canceled trades, the filled deposits of an order cover the amounts
\* and fees of all its trades that have a status other than canceled.
DepositsCoverTrades == \A o \in Orders \ revived : Book!Taken(o) <= Book!Brought(o)

\* Both: the view and the documents agree that no order has given too much.
BalancesCovered == NoOverbooking /\ DepositsCoverTrades

\* Every trade is decided once and at one instant, at which its order covers it,
\* though lockOrderBalance reads the balance at one time and writes the trade at
\* another, and whatever crashes, is delivered again or fails in between.
DecisionsAtomic == Book!Spec

\* The monitor still has a write of the document before it.
Unseen(d) == rev[d] > cursor \/ ev.id = d \/ \E e \in feed : e.id = d

\* No balance is forgotten: until a call of the database fails, an order whose
\* stored balance differs from the view is due for updateOrderBalance, or a
\* write of one of its trades or deposits is still on its way to the monitor.
BalanceTracked ==
    faults = 0 /\ crashes = 0 /\ pc # "down" =>
        \A o \in Orders :
            \/ balance[o] = AsSatoshi(ledger[o])
            \/ o \in ordersToUpdate /\ ordTimer # "off"
            \/ \E d \in Entries : OrderOf[d] = o /\ Unseen(d)

\* No trade is forgotten: until a call of the database fails, a trade without
\* a status lies ahead of the position a restart would continue from, and of
\* the running feed; so the debounced, eager saving of seqId loses none.
UndecidedAhead ==
    faults = 0 =>
        \A t \in Trades : state[t] = Undecided =>
            /\ rev[t] > since
            /\ pc # "down" => Unseen(t)

\* The heap of timeouts knows every trade of the open_trades view whose last
\* write the monitor has seen, also after a restart.
HeapCoversOpen ==
    faults = 0 /\ pc # "down" =>
        \A t \in Trades : InOpenTradesView(state[t]) =>
            t \in openTrades \/ Unseen(t)

\* Every posted trade is eventually accepted or removed.
EveryTradeDecided ==
    \A t \in Trades : state[t] = Undecided ~> state[t] # Undecided

\* Once users, wallet and banks are quiet, the stored balances become those
\* of the view and stay so.
BalancesConverge ==
    \A o \in Orders : <>[](balance[o] = AsSatoshi(ledger[o]))

\* exchange.h calls init_monitor all that is needed "to service handling whole
\* exchange": the monitor must not stop by itself.
MonitorSurvives == crashes = 0 => pc # "down"

-----------------------------------------------------------------------------
(* What makes NoOverbooking inductive *)

\* An event whose revision is still the current one tells the current state.
Current(e) == e.rev > 0 /\ e.id \in Entries /\ rev[e.id] = e.rev
                 => state[e.id] = e.st

SnapshotsTrue ==
    /\ \A d \in Docs : rev[d] <= seq
    /\ \A e \in feed : e.rev <= seq /\ Current(e)
    /\ ev.rev <= seq /\ Current(ev)
    /\ pc \in {"lockQuery", "lockPut"} => ev.rev > 0 /\ ev.st = Undecided

\* Nothing that happens between the query of lockOrderBalance and its write
\* takes the granted balance away, but the revival of a canceled trade.
GrantCovered ==
    pc = "lockPut" /\ grant /\ OrderOf[ev.id] \notin revived =>
        Amount[ev.id] + Fee[ev.id] <= ledger[OrderOf[ev.id]]

LockInv == TypeOK /\ SnapshotsTrue /\ GrantCovered /\ NoOverbooking
=============================================================================
