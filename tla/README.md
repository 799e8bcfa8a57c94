# A verification of lnex

lnex is an exchange of bank money for Bitcoin over Lightning. Its server part
(`src/main`, C++) keeps every order, deposit and trade as a document of a
CouchDB database and reacts to the changes of that database; its web part
(`www`, JavaScript) is a small library of a single-page application. This
directory holds TLA+ models of the parts whose correctness depends on what
happens *between* two steps, the TLC configurations that check them on small
instances, and theorems about them that the TLA+ proof system checks for every
value of their constants. Paths and line numbers refer to the repository.

Contents: [the system](#1-the-system), [what can go wrong](#2-what-can-go-wrong),
[the modules](#3-the-modules), [the runs](#4-the-runs), [fairness](#5-fairness),
[the proofs](#6-the-proofs), [what the runs found](#7-what-the-runs-found),
[what is left out](#8-what-is-left-out), [the plan](#9-the-plan).

## 1. The system

| Component | State | Operations | Talks to |
|---|---|---|---|
| **Exchange: monitor** (`exchange.cpp` 103-114, 197-335, 472-558) | `lastId` (the position saved in the local document `exchange_lastid`), `seqId`, the timers `delayed_seqId` and `delayed_orders`, `ordersToUpdate`, the heap `openTrades` | `init_monitor`, `onChange`, `updateOrderBalance`, `lockOrderBalance`, `reloadOpenTrades`, `updateTrade`, `processTimeouts` | the feed of changes calls it; it reads the views `order_balance` and `open_trades` and writes orders and trades |
| **Exchange: payments** (`exchange.cpp` 337-470) | none of its own: the `recv`, `send` and `refund` lists and the status of the trade documents | `processWireTransfer` | connections to banks call it, in threads of their own; it reads `open_trades`, writes trades |
| **Exchange: deposits** (`exchange.cpp` 116-149) | deposit documents (`dp.`) | `createDeposit`, `changeInvoiceStatus` | the monitor sees their changes |
| **Exchange: withdraw queue** (`exchange.cpp` 30-60, 151-195, `withdraw.*`) | the withdraw record of a trade | `getInvoiceToPay`, `markInvoice`, `init_withdraw` | a paying service, not in the repository, and the wallet |
| **WalletService** (`walletsvc.cpp`) | the invoices of deposit and buy-order documents | `processWalletRequest` (change thread), `checkWalletState` and `onInvoiceChange` (scheduler thread) | the feed of changes, WalletControl, the view `invoices` |
| **WalletControl** (`wallet.cpp`) | the flag whether the loss of the wallet was reported, the count of rounds to the next ping | `createInvoice`, `parseInvoice`, `checkState`, `lnpay` | the wallet's JSON-RPC server |
| **Sessions** (`user.cpp`) | two generations of verified tokens | `AuthUser::operator()` = `parse` + `remberToken` | threads that serve requests |
| **Server and start** (`server.cpp`, `start.cpp`, `units.h`) | configuration | wiring of the library's HTTP server | `start.cpp` runs the WalletService only; nothing in the repository calls the Exchange yet |
| **RPC client** (`rpc.js`) | calls that wait, the socket, the counts of retries and losses, the context | `RpcClient.call2`, `methods`, `createObject`; `WsRpcClient.call2`, `connect`, `onclose`, `onmessage` | the server, the pages |
| **Helpers** (`helpers.js`) | items gathered for the next batch, a cache of promises, a deferred action | `delayAction`, `resolver`, `cache`; `isEqual`, `createDiff`; conversions | the pages, which resolve items through the RPC client |
| **Views** (`template.js` 1-485) | the elements on the page, the classes of their animations, light boxes, `lock_replace`, the list of waits and their one observer | `open`, `openModal`, `close`, `replace`, `clearContent`, `waitForRender`, `waitForRemove` | the pages; frames, timers and events of the browser |
| **Forms and lists** (`template.js` 486-1344) | the content of a view with the map of its named elements, marks, the default action, the handler of the focus, the rows of a list | `setData`, `readData`, `setContent`, `mark`, `setDefaultAction`, `GroupManager` | the pages, promises of values |
| **Widgets** (`ui.js`) | the value, the label and the list of suggestions of an `X-SELECT` | handlers of the keyboard, the mouse and the focus; answers of the page's callback | forms, the page |

How they interact: everybody writes the same documents. A write carries the
revision that was read and is refused when the document has changed since
(*conflict*); a feed of changes tells of writes later, each document once and as
it is at that time; views are sums and indexes over all documents. There are no
locks between the components, so each handler is a sequence of reads and writes
between which users, banks, the wallet and the other handlers act. The
documentation of the intended behaviour is `docs/transakce.md` (in Czech).
The web part runs in one thread, so a handler is not interrupted; what interleaves
there are the calls of the page with frames, ends of animations, timers, answers and
the keys the user presses. It has no document but its code.

What makes each component correct:

- monitor: an order is never promised beyond its deposits; every trade is
  decided; every stored balance becomes that of the view; a restart forgets
  nothing;
- payments: a payment that is booked is booked once, on a trade that was waiting for
  it, and no other booking is overwritten; a trade is filled only by money both banks
  reported; concurrent calls behave as if one followed the other;
- deposits and wallet: a payment of an invoice always reaches its deposit, and
  no deposit is credited without one; invoices once shown are kept;
- withdraw queue: a result is noted on the trade whose invoice was paid;
- sessions: the memory is bounded, and what was remembered last stays remembered;
- RPC client: a call is executed or given up, never forgotten; it is repeated for a
  cause and not for ever; the context of the client is the latest;
- helpers: an item is asked for once and nobody waits in vain; a difference leads
  from the old object to the new one;
- views: however calls overlap, the page comes to rest without a lock, a light box,
  a class or a mark that belongs to a call before; who waits for an element hears of it;
- forms and lists: rows keep their elements and their order; a value that was read
  can be set again; a late answer does not show in other content; Tab does not leave
  a view;
- widgets: what is shown is what is read.

## 2. What can go wrong

`PROJECT.json` lists each hazard at its line with the property that would catch
it. The hard kinds are: documents that change between a query and the write that
depends on it (`exchange.cpp` 313, 353, 272, `walletsvc.cpp` 62, 76, 105), an
index that lags behind the documents (`walletsvc.cpp` 97), a position of the feed
that is saved early and in bulk (`exchange.cpp` 201), work kept in memory that a
crash loses (246, 476), bulk writes of which a part fails (302), an order of rows
that decides which trade a payment belongs to (356), sums read as unsigned numbers
(315), retries after conflicts and after losses of a connection. In the web part they
are: calls repeated without knowing whether they were executed (`rpc.js` 80, 265),
answers that bring contexts in any order (68), batches that fail (`helpers.js` 166),
views closed and replaced while they are being replaced (`template.js` 366), classes set
two frames after the call (252), animations whose end is reported late or never (189),
one observer for all waits (118), lists set while rows of the last one close (875),
promised values that come after their content has gone (1110), and suggestions that
arrive in any order (`ui.js` 133).

## 3. The modules

| Module | Models | Used by |
|---|---|---|
| `TradeStatus` | the life of a trade: which status reserves, matches, may be booked; what payments and users turn it into (`exchange.cpp` 18-93, 429-456) | `ExchangeMonitor`, `WireRules` |
| `OrderBook` | the abstract specification of balances: each trade is decided at one instant, at which its order covers it | `ExchangeMonitor` (refinement) |
| `ExchangeMonitor` | the monitor with the deposits, composed with users, wallet, banks and the database | `MCExchangeMonitor`, `ExchangeMonitorProofs` |
| `WireRules` | what `processWireTransfer` does to one trade, as functions of a payment and a document | `WireTransfer` |
| `Settlement` | the abstract specification of payments: each call takes effect at one instant | `WireTransfer` (refinement) |
| `WireTransfer` | `processWireTransfer` as concurrent calls: query, row after row, put, conflict and retry | `MCWireTransfer`, `WireTransferProofs` |
| `WalletService` | both threads of the service with WalletControl, the wallet and the lagging index | its own cfg, `WalletServiceProofs` |
| `WithdrawQueue` | `getInvoiceToPay`, `markInvoice`, a service that pays with `lnpay` | `MCQueueSessions`, its own cfg, `QueueSessionsProofs` |
| `SessionCache` | AuthUser called by several threads | `MCQueueSessions`, its own cfg, `QueueSessionsProofs` |
| `WsRpc` | WsRpcClient with a socket that is lost and a server | `MCRpcClients`, `RpcClientsProofs` |
| `HttpRpc` | RpcClient: requests that fail on the way there or back, retries, errors, the context, `methods`, `createObject` | `MCRpcClients`, `RpcClientsProofs` |
| `DataCache` | `resolver` and `cache` with their batches, `delayAction` | `MCRpcClients`, `RpcClientsProofs` |
| `Json` | `isEqual` and `createDiff` as recursive functions on the depth of documents, with what they promise | `MCRpcClients`, `RpcClientsProofs` |
| `RenderWatch` | `waitForRender`, `waitForRemove` and their observer | `PageViews` (instance) |
| `PageViews` | views opened, closed and replaced, with frames and animations | `MCPageViews`, `PageViewsProofs` |
| `Sieve` | what is left of a sequence of elements, waits or rows, as a fold | `PageViews`, `RenderWatch`, `RowGroup` |
| `RowGroup` | `GroupManager`: a list set again and again | `MCForm`, `FormProofs` |
| `FormFields` | a view as a form: fields, promises, content, marks, default action | `MCForm`, `FormProofs` |
| `FocusCycle` | the handler of the focus, the keys of the user, the page that disables elements or replaces them | `MCForm`, `FormProofs` |
| `XSelect` | the widget `X-SELECT` | `MCForm`, `FormProofs` |
| `MC...` | values of the constants for TLC; `MCQueueSessions`, `MCRpcClients` and `MCForm` put several components into one run, see below | cfgs |
| `...Proofs` | theorems about the module of that name; `QueueSessionsProofs`, `RpcClientsProofs` and `FormProofs` about the parts of those runs, `PageViewsProofs` about `RenderWatch` too | |
| `FoldTheorems` | lemmas about sums over sets, folds, and what is left of a sequence and in which order | `...Proofs` |

**ExchangeMonitor.** A handler is cut where it calls the database, and only
there: `pc` says which call is next. `onChange` is `Deliver` or `DeliverIdle`,
`SaveSeq` (199-212), `QueryBalance`, `ReadOrders`, `CommitOrder`, `CommitDone`
(`updateOrderBalance`, with a round for each retry), the loop of
`processTimeouts`, then `Dispatch` (230-263) and, for a trade without a status,
`LockQuery` and `LockPut` or `LockConflict`. A document is its state and the
sequence number of its last write, which stands for its revision; `ledger` is
the view `order_balance`. Amounts are numbers. What an order holds besides its
balance, names and times are left out. Like every flaw of the code the inverted
condition of the loop at line 513 is modelled as it is: with an empty heap it reads the first element of an empty vector
(`TimeoutsUndefined` stops the process), with a trade in the heap it does not run
(`TimeoutsSkipped`); `processTimeoutedTrade` is therefore never called with a
trade and is not modelled. An exception that leaves `onChange` is given to the
library that delivers the changes, which drops the event or starts the feed
again before it (`Abandon`): both are allowed.

**WireTransfer.** A call reads the rows of `open_trades` for its connection at
once, looks at them in the order of their trades' ids, and picks the first trade
it acts on together with the document and revision as read: this is one step
(`Query`), since nothing is written before the put. `Put` writes if the revision is
still that one, `Conflict` starts over. A document is its status and the sums of
its three lists, those of received and refunded payments for each account. `WireRules` gives the result of a payment as a function;
`Settlement` uses the same functions in a single step, so that the refinement
tells whether interleaving changes anything.

**WalletService.** The change thread takes one event at a time: `CreateInvoice`
(a call of the wallet) then `PutInvoice`, or `ParseInvoice` then `PutParsed`; which
new id the wallet gives a request does not matter, so it is a `CHOOSE`. The
scheduler thread goes through the requests the wallet listed as paid or expired:
`Lookup` reads the index as it is, `PutStatus` writes, `RemoveRequest` forgets the
request. The index is updated by a step of its own.

**WithdrawQueue.** Users replace invoices while a round (`GetInvoiceToPay`,
`LnPay`, `MarkQuery`, `MarkPut`) is under way. `state.withdraw`, which the views
read, and `withdraw`, which `markInvoice` writes, are two variables because they
are two fields. The amount of an invoice is left out.

**SessionCache.** `Parse` runs under the shared lock, `RemberToken` later under
the exclusive one, so several threads can have verified a token in between, or the
same one twice. `since` observes, of each token, which others were remembered after it:
it tells what the two generations are for, and no step of the code reads it.

**WsRpc.** Requests are numbered; a call is the page's request, and each repetition
has a number of its own. `own` is the request whose promise the page holds. The
decision to retry is taken by a timer and acts on whatever waits at that time; it
numbers the waiting requests anew in their order (`Nth`). An error of a call is given to
`onError`; where the page has put a function of its own (`Considered`), the request is
`pondered` until that function is done, perhaps much later, and the call is made again if it
gave nothing (`OnErrorDone`).

**HttpRpc.** `state` says where a call is. `CallFails` is a failure on the way there as well as
on the way back, between which the client cannot tell; `lostBack` counts the latter.
Contexts are numbered in the order in which the server issues them. `MethodsFails` comes
to the same as `CallFails`, though by way of two names the code does not declare. A name of
a method is the sequence of its parts; `ObjectOf` is `createObject` with the prefix, whole
parts of which are left out of the paths.

**DataCache.** `Resolve` is a call of the cached function, `Fire` the end of the resolver's
delay, `Arrive` the answer of the page's function `cb`. A batch that fails is `stuck`, because
the code calls a method that promises do not have; in strict mode every batch is, because
it assigns a variable that is not declared.

**Json.** An object or an array has its keys in an order and a value for each; a key it does
not have has the value `Undefined`. `EqualStep` and `DiffStep` are the bodies of `isEqual` and
`createDiff`, told by what the calls inside them return; the functions `isEqual[n]` and
`createDiff[n]` are on documents n deep at most. `AlikeStep` and `PatchStep` say in the same
way what a difference is meant to be. Keys, values and depth are constants.

**PageViews.** `body` is the sequence of what the page shows: roots of views, light boxes,
marks that keep the place of a replacement. A step is a call of the page, a frame or the
end of an animation together with the callbacks that follow at once; only a `replace` that
waited for another has a step of its own (`Chained`). `Page` is the state as a
record, and the operators `Added`, `Removed`, `Closed`, `Replaced` are the functions of the same
name or purpose on it. A promise is `frame`, `anim`, `chain`, done or failed. The observer
of the document is `RenderWatch`, told of every step that touches the page.

**RowGroup.** An element is a number, its id is found through `idmap`; `dom` is the order of
the elements, closing ones among them. `Arranged` is the loop of `finish`, `Merged` one round
of it. `broken` says that a list with a duplicate id was refused after part of the map had
been moved. `ReadRows` is the list `readData` gives: the rows by their ids, as integer keys are
enumerated, in whatever order they stand. The page may set that list again, too.

**FormFields.** Each content of the form holds one field of any kind, because fields do not
touch one another; what a field holds is a set (of checked boxes, of the selected
option, of the text, of the rows, whose order is `RowGroup`'s). `Written` and `Read` are the
conversions of each kind, `Fulfil` is the arrival of a promised value. A list of options may
flag one as selected (`Flagged`).

**FocusCycle.** A position is that of an element in the document, with the two guards
`focus-begin` and `focus-end` around the content and the rest of the page around them.
`TabEnds` is the pass over the tab indexes as a fold; `InstallFocus` puts the guards where it
found something. `Sooner` is the order of Tab *as HTML has it*, positive indexes
ascending and then 0: it owes nothing to the order the code assumes. A guard that gets
the focus starts a timer (`turns`), and the user may press keys before it is due. Elements are
disabled and enabled, content is replaced, and the guards go with it.

**XSelect.** The user's events, and answers that come in any order or never. The `value` is
what the form reads (`info.value`), `input` what the user sees.

**Runs of several components.** `MCQueueSessions`, `MCRpcClients` and `MCForm` join components
that share no state and do not call one another; a behaviour chooses one of them at the
start (`part`), so the run explores their sum and not their product. Where components do
work together they are composed: in `MCRpcClients` the cache asks over HTTP, and the n-th
batch *is* the n-th call of `HttpRpc`; `PageViews` drives `RenderWatch`.

## 4. The runs

| Run | Checks | Instance, and why it is enough |
|---|---|---|
| `ExchangeLock` | `TypeOK`, `BalancesCovered`, `DecisionsAtomic` | one order whose deposit of 12 covers either new trade (6+1, 5+1) and the old one (3+1), not both; one write by users or banks, which is enough to revive the old trade or to spoil the revision of the one being decided; the second trade is a withdrawal (2,902,532 states) |
| `ExchangeRecovery` | `BalanceTracked`, `UndecidedAhead`, `HeapCoversOpen` | two orders, each with a trade, so that both may be in one bulk write; one write by users or banks, one failing call and one crash, at any point; started with an open trade, and without one, where `processTimeouts` stops the process at once |
| `ExchangeProgress` | `EveryTradeDecided`, `BalancesConverge` | one new and one old trade, one write by others, under fairness |
| `WireBooking` | `TypeOK`, `FilledWasPaid`, `BooksAgree`, `Linearizable`, `CallsEnd` | two trades, the seller of one buys in the other; the buyer's payment, two parts received from two accounts, one paid back, one for the other trade; all five calls at once, two edits by users, so a call may meet two conflicts and more by the other calls (197,768 states) |
| `WalletService` | `TypeOK`, `PaidStaysUntilFilled`, `FilledWasPaid`, `InvoiceKept`, `UserInvoiceKept`, `PaidIsSettled`, `RequestsAnswered` | a deposit and a buy order, which share the change thread; one edit and one failing call; three requests: one lost in a conflict, one shown, one for the tombstone of the deposit (83,853 states). Several deposits are the theorems' part |
| `QueueAndSessions` | `MarksAreTrue`, `CacheBounded`, `RecentKept` | two trades that may hold the same invoice, two invoices, two edits, three rounds: enough for a replaced, a repeated and a conflicting mark. Or two threads, four good tokens and a forged one, generations of one: both turn, also by two tokens, or one twice, verified at once (244,875 states) |
| `RpcClients` | `CallsKept`, `RetriesCounted`, `ItemsCarried`, `FunctionsAgree`, `ContextIsLatest`, `ClientsAnswer` | two calls over the socket, one with a falsy result, one loss repaired and three losses, of which the third may be the one that is not repaired; nine requests, as many as two calls, three repetitions of both and one call made again by `onError` can use. Over HTTP two retries instead of four, so that a call may fail, be repeated and be given up; two items, two batches, two deferred calls. Objects of two levels with every pair of kinds of value, lists of methods under every prefix (283,831 states) |
| `Page` | `TypeOK`, `NoMissedRender`, `RestsInOrder`, `ComesToRest` | three views: one with animations, shown at first, one whose closing class plays nothing, one with transitions; three calls of the page, which overlap at will, so a view is replaced while it replaces; one wait, of two rounds (443,169 states) |
| `Form` | `FormTypeOK`, `RowsInOrder`, `ShownIsRead`, `TabCycles`, `RowsKept`, `Restores`, `AnswersStay` | lists of up to three rows over three ids and rows without one, set three times; two contents with a field of each kind and five steps; two items, five texts and four questions of the widget; up to three elements of the tab indexes 0 and 1, in a page of either, and two timers at once (1,447,342 states) |

Runs named in section 7 check what a document says and the code does not do.

Some properties are conjunctions, each named part of which stands with its comment in
its module: `BalancesCovered` is `NoOverbooking` (by the view) and `DepositsCoverTrades` (by
the documents); `BooksAgree` is `BookingsListed` and `CanceledOwesNothing`; `RequestsAnswered` is
`DepositGetsInvoice` and `InvoiceIsParsed`; `CallsKept` is `UnansweredWaits` and
`LostAfterRetries`; `RetriesCounted` is `ExecutedForCause` and `GivenUpInTime`; `ItemsCarried` is
`AskedOnce`, `WaitingIsCarried` and `LastCallRuns`; `FunctionsAgree` is `DiffRestores`,
`EqualIsSame` and `ObjectHasMethods`; `ClientsAnswer` is `EveryCallReached` and `ItemsArrive`;
`RestsInOrder` is `LockedByPending`, `LightBoxHasView`, `StyleAgrees` and `MarksGo`; `TabCycles` is
`FocusStays` and `WalksRound`.

Bounds are constants in the guards of the steps they bound: `MaxMoves`,
`MaxEdits` (writes by users), `MaxFaults` (failing calls), `MaxCrashes`,
`MaxPays` (rounds of the paying service), `MaxLosses`, `MaxRequests`, `MaxAgain` (calls the page
makes again), `MaxBatches`, `MaxExecs`, `MaxCalls`, `MaxWaits`, `MaxId`, `MaxRows`, `MaxSets`, `MaxSteps`,
`MaxAsks`, `MaxElements`, `MaxTurns`, `MaxRepeats`. `LastRetry`, `MaxRetryCnt`, `CacheSize`, `PingPeriod` and `Timeouts` are numbers of the
code, made smaller. Sequence numbers and revisions are unbounded but follow from
these. Deadlock is checked except in `WireBooking`, `QueueAndSessions`,
`WithdrawQueueNoted`, `RpcClients`, `Page` and `Form`, whose systems rest when every payment,
round or call is done.

What the invariants say, in the words of the code, stands above each of them in
its module. Three of them deserve a remark. `NoOverbooking` exempts the orders of
`revived` trades: a payment that arrives for a canceled trade makes it block again
(line 448), and the code reserves nothing for that. `BalanceTracked`,
`UndecidedAhead`, `HeapCoversOpen` hold until a call of the database fails, as a
failing call may drop an event; a crash alone is covered by the last two and not
by the first, since `ordersToUpdate` is lost by it. `Linearizable` is the refinement
of `Settlement`: its instants are those of the successful put, or of the query that
found no trade. So is `DecisionsAtomic` of `OrderBook`: its instant is the put of
`lockOrderBalance`, at which the documents themselves cover the trade, though the
balance was read from the view before; all other steps of the monitor, its crashes and
what the feed delivers again are stutters.

What two others do not say: `BooksAgree` speaks of payments that were *booked*. A payment
nobody acts on, for want of a row or because a refund row takes it that owes its
account nothing, is noted nowhere (section 7); and a canceled trade may keep what the
buyer reported as sent. `TabCycles` speaks of views whose elements have the same tab index
(`Alike`), as all pages of the repository have them; with others the code does not keep the focus
(section 7). It also exempts a view whose first or last element was disabled when the focus was sent
there (`missed`).

## 5. Fairness

- `ExchangeMonitor`: the change thread is a loop, so each enabled step of it is
  taken (weak fairness of `OnChange`, `Fetch`, `Deliver`); the library calls
  `onChange` when nothing happens (`DeliverIdle`); time passes, however often the
  timers are armed again in between (strong fairness of the ticks). Users, banks
  and the wallet owe nothing. No fairness of `Restart`: nobody promises one.
- `WireTransfer`: each call is a thread that runs (weak fairness of each call's
  steps). A conflict needs a write by somebody else, and these are finitely many.
- `WalletService`: both threads run, and the index is updated again and again
  (CouchDB does so in the background and when it is queried). The properties that
  something happens end with "or a call failed": the code retries no failed
  `createInvoice`, and a failed removal leaves a request for good.
- `RpcClients`: the browser runs callbacks and timers, a socket that opens is not slow
  for ever, the server answers each request it has got over a living socket; a request
  over HTTP succeeds or fails, and the timers of retries and batches end. Losses and
  failures owe nothing, and the page need not call.
- `PageViews`: the browser draws frames, and ends each animation or its time; callbacks of
  promises run. `AnimationEnd` may be the event or the timeout, so nothing is assumed of the
  event.
- The other modules claim no progress and state no fairness.

## 6. The proofs

Checked by TLAPS with Z3, Zenon and LS4, from the `ASSUME`s of the modules (the documents
are finite and disjoint sets, amounts are natural numbers, and the like), which TLC
evaluates in the runs.

- `ExchangeMonitorProofs`: `TypeCorrect` and `LockingIsSafe`. `NoOverbooking` is
  not inductive: that a write decides by an old sum is safe only because
  whatever happens in between cannot lower the sum. `LockInv` adds `SnapshotsTrue` (an event whose
  revision is current tells the current state, so the trade being decided still
  reserves nothing) and `GrantCovered` (between query and write the sum covers what was
  granted, unless a canceled trade of the order was revived: the only moves that
  take from an order are decisions, which the one change thread makes, and
  revivals).
  `DecisionsAreAtomic` proves the refinement `DecisionsAtomic`: at the instant of `LockPut` the granted trade is
  covered (`GrantCovered`, carried over from the view to the documents by `LedgerSums`), every step of the
  environment that changes a state is one of `OrderBook`, and no other step changes one.
  `PositionNeverGoesBack`: `SavedBehind` says that the saved position and the one to be saved are behind all
  that the feed still brings, and the former behind the latter while there is one.
  `NoTradeForgotten`, `HeapIsComplete` and `NoBalanceForgotten` prove `UndecidedAhead`, `HeapCoversOpen`
  and `BalanceTracked`. They rest on `FeedTrue`, which says what the feed still holds:
  revisions are unique, the events come in their order, and an event that was fetched tells
  the last write of its document unless a later one is still to be fetched. `Ahead(d)` says that the feed still brings `d`; `Kinds` sorts all steps by what
  they do to one document and to the position, and `AheadStep` shows that a document
  stays ahead until the monitor handles it. `UndecidedInv` adds the trade whose lock is
  being decided at this moment, `HeapInv` is `HeapCoversOpen` with `Ahead` in it. For the balances, `FlushTrue` relates the rounds of
  `updateOrderBalance` to the orders still to update, and `FirstRun` says that a process
  with an empty heap has handled no event, since `processTimeouts` would have stopped it.
  `DepositsCover` proves `DepositsCoverTrades`, the same fact told by the documents instead of the view: what
  the trades of an order took is covered by the deposits that brought money in. `LedgerSums` says that
  the view is the sum over the documents, and changes by the same number as the sum does when one
  document is written; the rest is `LockInv`. `BalancesAreCovered` joins the two.
- `WireTransferProofs`: `TypeCorrect`, `CallsLinearize` and `FilledTradesPaid`. The step invariant
  `PickCurrent` says that a call about to write holds a document which, as long as
  its revision is current, is the stored one; so what `Put` writes is what
  `Settlement` books at that instant, and every other step is a stutter of `Settlement`. That a
  filled trade was paid follows from the same step: only a payment fills one
  (`FilledByPayment`), and it does so by the sums it writes.
  `BooksAlwaysAgree` proves `BooksAgree`: `OnceBooked` says that a call has booked its payment exactly when it
  has ended with success, `ListsAgree` that the lists of all trades together hold what the calls booked,
  account by account, and `FreeOwesNothing` that a canceled trade has paid back what it is booked to have received.
  `MonitorKnowsAllMoves` ties this module to `ExchangeMonitor`: users and calls change a status only by
  `TradeMoves`, which are the moves the monitor allows its environment. `ReportsCommute` and
  `LateReportsDoNotCommute` say when the order in which two banks report counts: not for a trade that is
  live and that neither report fills; for a canceled trade it does, because a payment by the buyer leaves
  it canceled and one by the seller does not. `ConflictsRunOut` is the argument why calls end: a conflict has
  a write by somebody else for its cause, and a document is written once for each edit and each call at most.
- `WalletServiceProofs`: `TypeCorrect`, `NoPaymentDropped`, `NoCreditWithoutPayment`,
  `InvoicesKept`, `UserInvoicesKept`, all from `SettleInv`. It relates what the threads have
  copied to what is true: a row of the index is right about the request of its deposit as long as that is
  live (`IndexTrue`); the row being settled was paid or has expired, and its pick is the deposit that names it
  while the revision is current (`RowTrue`); the event being handled tells the document of its revision
  (`EventTrue`); a deposit that was never written has no content (`Unwritten`); a deposit names a request that
  was created for it (`Named`), and a payment has a live deposit (`Paid`). `MonitorKnowsAllDeposits` follows from the same invariant: as
  `ExchangeMonitor` sees deposits, they are entered and settled once, so the two threads together make no
  move that `ChangeInvoiceStatus` does not allow.
- `QueueSessionsProofs`, the withdraw queue: `TypeCorrect` and `MarksTrue`. `PickTrue` says that the row
  `markInvoice` found is the document while its revision is current, `ResultTrue` that a result of `lnpay`
  other than "retry" is what became of the invoice. `NoInvoiceOverwritten` and `NoMarkTakenBack` follow from
  `PickTrue`: the write of a whole document that was read before changes nothing but the mark. Sessions: `MemoryBounded` and `RecentStaysKept`.
  `Bounded` adds to `CacheBounded` that a thread remembers at most the one token it verified, so a
  generation exceeds its size by at most one before it turns. `Remembered` says why a token is still known: it is in
  the new generation, or in the old one, and then the new one has only what came after it; a token that left
  both was followed by a whole generation. `QueueAndSessionsApart` and
  `QueueAndSessionsCorrect` carry all this to the composition the run checks.
- `RpcClientsProofs`, over HTTP: `RetriesBounded` and `ContextsLatest`. `Retrying` ties the failures of a
  call to its retries in every state, `Caused` its executions to lost answers; `Newer` says that while
  calls follow one another the one under way brings a newer context than the client's. The cache:
  `NothingInVain`, from `Shape` (a timer runs exactly while something is gathered), `Carried` (a kept item
  is gathered, asked for, stuck or settled) and `LastOfAll` for `delayAction`. The socket: `NoneForgotten`.
  `AnsweredIsExecuted` says that an answer under way is for an executed call, `LossesCounted` that no more
  losses are counted than happened. The repetition renumbers the requests by their rank; `NthExists` shows
  that each has a place of its own, `RepeatKeeps` that no call is dropped by it, `OnErrorKeeps` that
  none is by a call made again.
  `FunctionsAlwaysAgree` proves `FunctionsAgree` for objects of any depth. `NestedIs` says which documents there are
  of each depth; `IsEqualIs`, `CreateDiffIs`, `AlikeIs` and `PatchedIs` that the recursive functions exist;
  `EqualAgrees` and `DiffAlwaysRestores` are inductions on the depth, whose step is a lemma about `EqualStep`,
  `DiffStep` and `PatchStep` for any functions below them (`StepRestores`). `ObjectIsPut` does the same for
  `createObject`, for any list and any prefix: after m names the object has those under the prefix
  that none of the m displaced (`PutOf`, `PutNext`).
  `ClientsAreTheirParts` shows that a behaviour of the composition is one of each client, which needs that
  batch n of the cache is a call of the page (`ClientsAssumption`), so `ClientsCorrect` collects what is proved
  of the parts.
- `FormProofs`: `SelectShowsValue` proves `ShownIsRead`, from `SelectInv`: the shown text may differ from the
  value only while the label that was asked for has not come. `ReadRestores` and `LateAnswersStay` prove
  `Restores` and `AnswersStay`, from `FieldInv`: what was read is a value the field could hold, and a promise
  keeps a value of the kind of field it was given to. `TabAlwaysCycles` proves `TabCycles` for views of any
  size on any page. `FocusStays` is nearly inductive: `Fenced` adds that the guards have the tab index of an
  element, so that with equal indexes nothing of the page around comes between them and the content, and from
  an element Tab reaches an element or a guard (`FenceIs`, `TabStays`), the latter with its timer. `TabLeads` and
  `RoundInv` say where it leads; that the ends found are the first and the last is the invariant of the fold
  (`ScanStepKeeps`, `ScanOfForm`). `FormIsItsParts` carries these results to the composed form.
- `FormProofs`, the rows: `RowsStayInOrder` and `RowsAreKept` prove `RowsInOrder` and `RowsKept`, for lists of
  any length. `Placed` is what holds even after a list was refused: each element stands once, a row has one of
  its own and it is neither closing nor stale. `Ordered` is the order itself, which the loop of `finish` has to
  bring about for the new list. `Orderly` is the invariant of that loop: what was put in or passed stands in the
  new order before the element `ep` (`InPlace`); the rows of the old order that are still to come, those moved
  forward excepted, stand in the old order from `ep` on (`InLine`); `moved` has every row that was put
  in although the old order has still to come to it (`Tracked`). `SteppedOrderly` and `InsertedOrderly` are the
  two kinds of round, `Gone` counts the rounds, so that the loop has come to the end of both orders, and a row
  is taken out of its place only if two rows that stay have changed their order (`Crossed`). It follows that
  the loop never runs out of rows of the new order (`OnlyTwiceRefuses`): only an id that comes twice makes
  `setData` throw, as long as none did before. `ReadRowsType` shows that what
  `readData` lists never is one that is refused. `FormTypeCorrect` joins the type invariants of the four parts.
- `PageViewsProofs`: `PageTypeCorrect`, `NobodyMissesRender` and `OverlapsLeaveOrder`, which prove `TypeOK`,
  `NoMissedRender` and `RestsInOrder`. `RestsInOrder` speaks of a page at rest only; `Sound` says of a page in
  any state who is going to bring that order about. A lock is *held* (`Locked`): following the chain of
  promises that wait for one another one comes to a promise that will release it, or to a failed one. A mark
  belongs to a replacement under way (`Marked`); a light box has a view that is shown or that a replacement
  will show (`Boxed`); a view without its classes is one that a promise will remove (`Styled`); each frame that
  removes a view has a promise of its own waiting for it (`Awaited`). Within one step of the
  code several calls follow one another and some promises are between two states: `Apart(s, X, Y)` is
  `Sound` but for the promises in `X` and `Y`, and there is a lemma for each function on the page (`Added`,
  `Removed`, `Replaced`...) and for each action. `Watched` is the observer's part.
- `FoldTheorems`: what a fold, a sum, `Outside` and the operations on sequences return. They are defined
  by recursion over a set; that the recursion has a solution (`FoldExists`) and what it returns is shown
  with a smallest set for which it fails (`SmallestSubset`, `SetInduction`, `RangeInduction`), so no induction
  rule with a formula as its parameter is needed. In the same way `NatSetInduction` is induction over the
  set of numbers for which a claim holds, and `RecursionExists` says that a recursive function on numbers
  exists and is what its definition says.

Assumptions that the code justifies and the proofs needed: the widget may ask at least once (`MaxAsks`
is positive, as it asks for the label of its first value at the start), and a form has a named option
(`Named` is not empty: a select without options has nothing to restore).

Only model-checked are the liveness properties, since TLAPS has no rule for `ENABLED`:
`EveryTradeDecided`, `BalancesConverge`, `CallsEnd`, `PaidIsSettled`, `RequestsAnswered`, `ClientsAnswer`
and `ComesToRest`. Every other property of a passing run is stated by a theorem.

## 7. What the runs found

| Run | The code | The document |
|---|---|---|
| `ExchangeFirstEvent` | with no open trade, the first event makes `processTimeouts` read the first element of an empty heap (513) | `exchange.h:49`: the monitor serves the whole exchange |
| `WithdrawQueueNoted` | `markInvoice` notes the result in `withdraw`, the queue reads `state.withdraw` (166): a paid invoice stays in the queue | `transakce.md:147` |
| `SessionRefused` | a session found in the cache is refused (`user.cpp:38`) | `user.cpp:76`: "Invalid session" |

Each of them is a counterexample TLC finds, kept as a run so that a repair of the
code, carried over to the model, makes it pass. Other differences met while
modelling, which no run keeps:

- `exchange.cpp:382`: a payment sent by the seller cancels an open trade that nobody has
  paid (`transakce.md:163-167`: a confirmed refund cancels a trade in `refund`);
- `exchange.cpp:513`: with a trade in the heap no timeout is ever processed, so a
  created trade is never opened (`transakce.md:122`: automatically);
- `exchange.cpp:448`: a payment received for a canceled trade makes it `attantion`
  (`transakce.md:180`: `refund`); a payment sent to it before that leaves it canceled, so that the order of the
  banks' reports decides whether it is filled (`LateReportsDoNotCommute`);
- `exchange.cpp:441`: a payment below the price, confirmed by both banks, leaves the
  trade in `open_send` (`transakce.md:136`: `attantion`);
- `exchange.cpp:356`: the refund row of a trade somebody sells in takes his payment
  for another trade, whatever its reference says; when it owes the account nothing, the
  payment is swallowed, and like one no row acts on it is noted in no document;
- `exchange.cpp:382` and 448: a canceled trade may keep the buyer's `sent`;
- `exchange.cpp:156` reads the amount of an invoice from its type, `exchange.cpp:507` a
  field nothing writes;
- `rpc.js:265` assigns the promise of a repeated call instead of passing it on, so
  that the promise the page holds never settles after a loss; `rpc.js:280` takes a
  falsy result for no answer; a retry over HTTP executes a call twice when its answer
  was lost; of overlapping calls an older context may replace a newer one (68);
  `rpc.js:118` and 129 use `xhr` and `fail`, which are not declared, 332 calls `sendSiccess`;
  165 makes a method from its name without the prefix, so that an object made with a prefix calls
  other methods than were listed;
- `helpers.js:161` assigns `res`, which is not declared, 166 calls `x.cancel`, which promises
  do not have; `parseRatio` (135) returns the second number, which is missing, and not the first;
- `template.js`: a lock of `replace` is never released when the view was taken from the
  page during its animation (183); two replacements of one view by different ones, one after
  the other but without the lock, show both; `replace` overwrites the light box of the view it
  brings (378); `close` ignores its parameter for skipping the animation (427); the handler of
  the focus is not installed again after the content was replaced, because the `return` at 714 is
  outside the condition above it, and Tab then leaves the view, against 767: "ensures that focus will not leave the
  current View by pressing TAB"; the pass over the tab indexes (732) takes 0 for the
  first, which Tab visits last, and where indexes differ the guards, which have the highest one, do not stand at
  both ends of the order: Tab or Shift+Tab leaves the view, or elements are left out; Tab gets out through a first or last
  element that was disabled later (717); a duplicate id
  leaves a list half updated (840), and a row without an id takes its position for one (1078);
  content with a list that is put back has lost the template of its rows (974); `readData` lists rows with
  integer ids by their ids and not as they stand (891), so that setting what was read may move them; null cannot
  clear a checkbox, radio buttons or a date, and empties the options of a select (1187-1211);
- `ui.js:230` compares the type of an array instead of the array, so the test never holds;
  a label that arrives after its value was replaced is shown (248).

## 8. What is left out

- Amounts are exact: conversions of currencies, `satoshiToBTC`, `numToText` and
  formatting are not modelled.
- Times of the heap: see `ExchangeMonitor` above.
- Database calls fail in `ExchangeMonitor` and `WalletService`; in `WireTransfer` and
  `WithdrawQueue` a failure other than a conflict would only end the call, which
  changes nothing.
- A payment has no identity in the code: a bank statement that is read twice books
  twice. Whoever calls `processWireTransfer` has to prevent it.
- The web application that moves trades (`UserMoves`) is not in the repository: its moves
  are the ones `transakce.md` gives to users.
- WalletControl's requests on the chain, which nothing calls, and the transport.
- `helpers.js`: `tokenize`, `parseRatio`, `replaceDate`, `copyObject` and the loops over keys only convert
  their arguments; so do `fixUrl` and the debug switch of `rpc.js`.
- A view of the database and the documents included with its rows are read at one instant
  (`Query` of `WireTransfer`, `MarkQuery` of `WithdrawQueue`). CouchDB may return a document newer than the
  row that led to it.
- `createObject` compares the prefix character by character; the model takes whole parts of a name.
- The focus: groups of radio buttons, of which Tab visits one, elements hidden by those around
  them, and tab indexes below -1.
- Rows with ids that are not integers: `readData` lists those in the order of the last `setData`.
- `template.js`: attributes, classes and events set through `setData`, templates with several
  roots, lists in lists, visibility, loading of templates. `ui.js`: `X-SLIDER` and
  `X-SWITCH`, which convert values.
- HTTP server, start, configuration, the empty page (`main.js`), vendored code: no
  behaviour of the kind described in section 2, or not the program's own.

## 9. The plan

1. *Done.* `TradeStatus`, `OrderBook`, `ExchangeMonitor` with the theorems on locking, on the
   refinement, on the position in the feed, on the heap and on the balances.
2. *Done.* `WireRules`, `Settlement`, `WireTransfer` with the refinement proved.
3. *Done.* `WalletService` with its safety proved.
4. *Done.* `WithdrawQueue`, `SessionCache`, `WsRpc`, model-checked and proved.
5. *Done.* `HttpRpc`, `DataCache` and `Json`, composed, model-checked and proved.
6. *Done.* `PageViews` with `RenderWatch`, `FormFields`, `FocusCycle`, `XSelect`, `RowGroup`, model-checked and proved.
7. `Amounts`: `satoshiToBTC` and `numToText` against decimal notation over bounded inputs.
8. `ExchangeMonitor` with the times of the heap (`TradeTimeouts`), as it would be with the
   loop the right way round, if the code is repaired.
