----------------------------- MODULE DataCache -----------------------------
(***************************************************************************)
(* resolver and cache of the helpers: the page asks for items one by one,  *)
(* the resolver gathers what is asked within a moment and asks for it in   *)
(* one go, and the cache keeps the promise of each item.  delayAction      *)
(* defers an action until the page has not called for it for some time.    *)
(***************************************************************************)
EXTENDS Integers, SequencesExt, FiniteSetsExt

CONSTANTS
    Wanted,       \* items
    MaxBatches,   \* bound: calls of cb
    MaxExecs      \* bound: calls of exec

ASSUME CacheAssumption == MaxBatches \in Nat /\ MaxExecs \in Nat

VARIABLES
    strict,     \* the page is built into one file, which is in strict mode
    kept,       \* the cache: items that have a promise
    map,        \* items gathered
    timer,      \* the timer of the resolver runs
    batches,    \* of each call of cb: its items and state, "asked", "done" or "stuck"
    settled,    \* items whose promise was fulfilled
    execs,      \* calls of exec
    deferred,   \* those that wait for the one promise of delayAction
    delay       \* its timer: the call whose arguments it has, 0 for none

cacheVars == <<strict, kept, map, timer, batches, settled>>
delayVars == <<execs, deferred, delay>>
dataVars == <<cacheVars, delayVars>>

-----------------------------------------------------------------------------
\* Mutant: an item is asked for again until its promise is fulfilled.
ResolveAgain(i) ==
    /\ i \notin settled \cup map
    /\ kept' = kept \cup {i} /\ map' = map \cup {i} /\ timer' = TRUE
    /\ UNCHANGED <<strict, batches, settled, delayVars>>

\* Mutant: tm is not cleared when the timer fires.
ResolveOnce(i) ==
    /\ i \notin kept
    /\ kept' = kept \cup {i} /\ map' = map \cup {i} /\ timer' = (timer \/ kept = {})
    /\ UNCHANGED <<strict, batches, settled, delayVars>>

\* Cache.resolve of an item it does not have.
Resolve(i) ==
    /\ i \notin kept
    /\ kept' = kept \cup {i} /\ map' = map \cup {i} /\ timer' = TRUE
    /\ UNCHANGED <<strict, batches, settled, delayVars>>

\* The timer: cb is called with what was gathered.
Fire ==
    /\ timer /\ Len(batches) < MaxBatches
    /\ timer' = FALSE /\ map' = {}
    /\ batches' = Append(batches, [items |-> map, st |-> "asked"])
    /\ UNCHANGED <<strict, kept, settled, delayVars>>

\* cb is answered.  The answer goes to a variable nobody declared, which throws in
\* strict mode; and what is thrown, like a failure of cb, ends in the call of a
\* method that promises of the batch do not have.
Arrive(b, ok) ==
    /\ b \in DOMAIN batches /\ batches[b].st = "asked"
    /\ \/ /\ ok /\ ~strict
          /\ batches' = [batches EXCEPT ![b].st = "done"]
          /\ settled' = settled \cup batches[b].items
       \/ /\ ~ok \/ strict
          /\ batches' = [batches EXCEPT ![b].st = "stuck"]
          /\ UNCHANGED settled
    /\ UNCHANGED <<strict, kept, map, timer, delayVars>>

-----------------------------------------------------------------------------
(* delayAction *)

\* Mutant: the timer of an earlier call is left, and a new one not set.
ExecFirst ==
    /\ execs < MaxExecs /\ execs' = execs + 1
    /\ delay' = IF delay = 0 THEN execs' ELSE delay
    /\ deferred' = deferred \cup {execs'}
    /\ UNCHANGED cacheVars

\* exec: the timer starts again, for the arguments of this call.
Exec ==
    /\ execs < MaxExecs /\ execs' = execs + 1
    /\ delay' = execs' /\ deferred' = deferred \cup {execs'}
    /\ UNCHANGED cacheVars

\* Its time is over: all that waited get the result of the action.
Elapse ==
    /\ delay # 0
    /\ delay' = 0 /\ deferred' = {}
    /\ UNCHANGED <<execs, cacheVars>>

-----------------------------------------------------------------------------
DataInit ==
    /\ strict \in BOOLEAN
    /\ kept = {} /\ map = {} /\ timer = FALSE /\ batches = <<>> /\ settled = {}
    /\ execs = 0 /\ deferred = {} /\ delay = 0

\* Whether cb succeeds is up to the page.
DataNext ==
    \/ \E i \in Wanted : Resolve(i)
    \/ Fire \/ Exec \/ Elapse
    \/ \E b \in DOMAIN batches, ok \in BOOLEAN : Arrive(b, ok)

DataSpec == DataInit /\ [][DataNext]_dataVars

-----------------------------------------------------------------------------
(* Properties *)

Stuck == UNION {batches[b].items : b \in {k \in DOMAIN batches : batches[k].st = "stuck"}}
Asked == UNION {batches[b].items : b \in {k \in DOMAIN batches : batches[k].st = "asked"}}

DataTypeOK ==
    /\ settled \subseteq kept /\ map \subseteq kept /\ kept \subseteq Wanted
    /\ \A b \in DOMAIN batches : batches[b].items \in SUBSET kept \ {{}}
    /\ timer \in BOOLEAN /\ delay \in 0 .. execs /\ deferred \subseteq 1 .. execs

\* An item is asked for once, whatever is asked in between and however long the
\* answer takes.
AskedOnce ==
    /\ \A a, b \in DOMAIN batches : a # b => batches[a].items \cap batches[b].items = {}
    /\ \A b \in DOMAIN batches : map \cap batches[b].items = {}

\* Whoever waits for an item waits for a timer or for an answer, or for a call of cb
\* that failed, which nobody will end.
WaitingIsCarried == kept \subseteq settled \cup Asked \cup Stuck \cup (IF timer THEN map ELSE {})

\* The action runs once for calls that follow closely, with the arguments of the last.
LastCallRuns == deferred # {} => delay = Max(deferred)

\* Nobody waits in vain, and nothing is asked for or run twice.
ItemsCarried == AskedOnce /\ WaitingIsCarried /\ LastCallRuns
=============================================================================
