------------------------------ MODULE HttpRpc ------------------------------
(***************************************************************************)
(* RpcClient: the calls of a page over HTTP, each a request of its own.    *)
(* A request that fails, on the way there, on the way back or in the       *)
(* server that should take it, is repeated after a delay, a few times; the *)
(* client cannot tell whether it was executed.  An answer may bring a      *)
(* context, which the following requests carry.                            *)
(***************************************************************************)
EXTENDS Integers, SequencesExt, FiniteSetsExt

CONSTANTS
    Posts,         \* calls of the page
    Listing,       \* those that are "methods", which lists the methods of the server
    LastRetry,     \* the last count of retries that is followed by another: 3
    Insistent,     \* those whose errors onError may answer with undefined
    MaxAgain,      \* bound: times it does so for a call
    Names          \* methods of the server: paths

ASSUME HttpAssumption ==
    Listing \cup Insistent \subseteq Posts /\ LastRetry \in Nat /\ MaxAgain \in Nat

VARIABLES
    state,      \* "idle", "asked", "answered", "delayed", "ended"
    retries,    \* retryCnt of the request under way
    answer,     \* on its way: [ok, ctx]
    result,     \* how the promise of the call was settled
    context,    \* the context of the client; contexts are numbered as they are issued
    issued,
    served,     \* observation: executions of each call
    failures,   \* observation: requests of each call that failed since it was made
    lostBack,   \* observation: answers of each call that were lost
    again,      \* times onError has asked for the call again
    overlapped  \* observation: two calls have been under way at once

httpVars == <<state, retries, answer, result, context, issued, served, failures,
              lostBack, again, overlapped>>

NoAnswer == [ok |-> FALSE, ctx |-> 0]
UnderWay == {c \in Posts : state[c] \notin {"idle", "ended"}}

-----------------------------------------------------------------------------
First(c) ==
    /\ state[c] = "idle"
    /\ state' = [state EXCEPT ![c] = "asked"]
    /\ overlapped' = (overlapped \/ UnderWay # {})
    /\ UNCHANGED <<retries, answer, result, context, issued, served, failures,
                   lostBack, again>>

\* call2, and methods, for the first time.
Post(c) == c \notin Listing /\ First(c)
ListMethods(c) == c \in Listing /\ First(c)

\* The server executes the request and answers, perhaps with an error; any answer but
\* an error may bring a context.
Serve(c) ==
    /\ state[c] = "asked"
    /\ state' = [state EXCEPT ![c] = "answered"]
    /\ served' = [served EXCEPT ![c] = @ + 1]
    /\ \E ok, ctx \in BOOLEAN :
         /\ c \in Listing => ok /\ ~ctx
         /\ ctx => ok
         /\ issued' = IF ctx THEN issued + 1 ELSE issued
         /\ answer' = [answer EXCEPT ![c] = [ok |-> ok, ctx |-> IF ctx THEN issued' ELSE 0]]
    /\ UNCHANGED <<retries, result, context, failures, lostBack, again, overlapped>>

\* Mutant: one retry less.
ConnectionErrorEarly(c) ==
    IF retries[c] >= LastRetry
    THEN state' = [state EXCEPT ![c] = "ended"] /\ result' = [result EXCEPT ![c] = "lost"]
    ELSE state' = [state EXCEPT ![c] = "delayed"] /\ UNCHANGED result

\* onConnectionError: another retry after a delay, or the call is given up.
ConnectionError(c) ==
    IF retries[c] > LastRetry
    THEN state' = [state EXCEPT ![c] = "ended"] /\ result' = [result EXCEPT ![c] = "lost"]
    ELSE state' = [state EXCEPT ![c] = "delayed"] /\ UNCHANGED result

\* The request or its answer is lost, or comes with another status, or cannot be
\* parsed.
Fail(c) ==
    /\ state[c] \in {"asked", "answered"}
    /\ ConnectionError(c)
    /\ failures' = [failures EXCEPT ![c] = @ + 1]
    /\ lostBack' = [lostBack EXCEPT ![c] = IF state[c] = "answered" THEN @ + 1 ELSE @]
    /\ answer' = [answer EXCEPT ![c] = NoAnswer]
    /\ UNCHANGED <<retries, context, issued, served, again, overlapped>>

\* In methods another status leads to the same delay through a ReferenceError, of xhr,
\* and the end of the retries to a rejection through another one, of fail.
CallFails(c) == c \notin Listing /\ Fail(c)
MethodsFails(c) == c \in Listing /\ Fail(c)

\* retryCallback after the delay.
PostAgain(c) ==
    /\ state[c] = "delayed"
    /\ state' = [state EXCEPT ![c] = "asked"]
    /\ retries' = [retries EXCEPT ![c] = @ + 1]
    /\ UNCHANGED <<answer, result, context, issued, served, failures, lostBack,
                   again, overlapped>>

\* Mutant: the context is the one the last answer brought, also if it brought none.
TakeContextAlways(c) ==
    /\ state[c] = "answered" /\ answer[c].ok
    /\ context' = answer[c].ctx
    /\ state' = [state EXCEPT ![c] = "ended"]
    /\ result' = [result EXCEPT ![c] = "result"]
    /\ UNCHANGED <<retries, answer, issued, served, failures, lostBack, again, overlapped>>

\* The result comes, and updateContext.
Take(c) ==
    /\ state[c] = "answered" /\ answer[c].ok
    /\ context' = IF answer[c].ctx # 0 THEN answer[c].ctx ELSE context
    /\ state' = [state EXCEPT ![c] = "ended"]
    /\ result' = [result EXCEPT ![c] = "result"]
    /\ UNCHANGED <<retries, answer, issued, served, failures, lostBack, again, overlapped>>

\* Mutant: an error is taken for a failure of the connection.
TakeErrorRetries(c) ==
    /\ state[c] = "answered" /\ ~answer[c].ok
    /\ state' = [state EXCEPT ![c] = "delayed"]
    /\ answer' = [answer EXCEPT ![c] = NoAnswer]
    /\ retries[c] < LastRetry
    /\ UNCHANGED <<retries, result, context, issued, served, failures, lostBack, again,
                   overlapped>>

\* An error comes.  onError rejects; one the page puts in its place may answer
\* undefined, and the call is made again, as if for the first time.
TakeError(c) ==
    /\ state[c] = "answered" /\ ~answer[c].ok
    /\ \/ /\ state' = [state EXCEPT ![c] = "ended"]
          /\ result' = [result EXCEPT ![c] = "error"]
          /\ UNCHANGED <<retries, answer, failures, again>>
       \/ /\ c \in Insistent /\ again[c] < MaxAgain /\ again' = [again EXCEPT ![c] = @ + 1]
          /\ state' = [state EXCEPT ![c] = "asked"]
          /\ retries' = [retries EXCEPT ![c] = 0]
          /\ answer' = [answer EXCEPT ![c] = NoAnswer]
          /\ failures' = [failures EXCEPT ![c] = 0]
          /\ UNCHANGED result
    /\ UNCHANGED <<context, issued, served, lostBack, overlapped>>

-----------------------------------------------------------------------------
(* createObject *)

\* Mutant: only the longer name gives way to the shorter one.
AddedOver(obj, n) == {m \in obj : ~IsPrefix(n, m)} \cup {n}

\* A method is put at its path: one on the way to it gives way to an object, and an
\* object, with what it holds, to the method.
Added(obj, n) == {m \in obj : ~IsPrefix(n, m) /\ ~IsPrefix(m, n)} \cup {n}

\* With a prefix, only the methods under it, under the rest of their names.  Prefixes
\* are whole parts of a name.
Under(prefix, n) == IsPrefix(prefix, n) /\ n # prefix
Rest(prefix, n) == SubSeq(n, Len(prefix) + 1, Len(n))

ObjectOf(prefix, list) ==
    FoldLeft(LAMBDA obj, n : IF Under(prefix, n) THEN Added(obj, Rest(prefix, n)) ELSE obj,
             {}, list)

-----------------------------------------------------------------------------
HttpInit ==
    /\ state = [c \in Posts |-> "idle"] /\ retries = [c \in Posts |-> 0]
    /\ answer = [c \in Posts |-> NoAnswer] /\ result = [c \in Posts |-> "none"]
    /\ context = 0 /\ issued = 0
    /\ served = [c \in Posts |-> 0] /\ failures = [c \in Posts |-> 0]
    /\ lostBack = [c \in Posts |-> 0] /\ again = [c \in Posts |-> 0]
    /\ overlapped = FALSE

Advance(c) == Serve(c) \/ CallFails(c) \/ MethodsFails(c) \/ PostAgain(c) \/ Take(c) \/ TakeError(c)

HttpNext == \E c \in Posts : Post(c) \/ ListMethods(c) \/ Advance(c)

HttpSpec == HttpInit /\ [][HttpNext]_httpVars

-----------------------------------------------------------------------------
(* Properties *)

\* Calls, answers and contexts are of the expected form, and a call has a result when
\* it has ended.
HttpTypeOK ==
    /\ state \in [Posts -> {"idle", "asked", "answered", "delayed", "ended"}]
    /\ retries \in [Posts -> 0 .. LastRetry + 1]
    /\ result \in [Posts -> {"none", "result", "error", "lost"}]
    /\ answer \in [Posts -> [ok : BOOLEAN, ctx : 0 .. issued]]
    /\ issued \in Nat /\ context \in 0 .. issued /\ again \in [Posts -> 0 .. MaxAgain]
    /\ {served, failures, lostBack} \subseteq [Posts -> Nat] /\ overlapped \in BOOLEAN
    /\ \A c \in Posts : state[c] = "ended" <=> result[c] # "none"

\* The server executes a call a second time only because an answer was lost, or the
\* page asked for it: whatever fails, a call is repeated for nothing else.
ExecutedForCause == \A c \in Posts : served[c] <= 1 + lostBack[c] + again[c]

\* A call is given up after LastRetry + 2 failed requests, no sooner and no later.
GivenUpInTime ==
    \A c \in Posts : failures[c] <= LastRetry + 2
                    /\ (result[c] = "lost" <=> failures[c] = LastRetry + 2)

\* A call is repeated for a cause, and neither more nor less often than the client
\* means to.
RetriesCounted == ExecutedForCause /\ GivenUpInTime

\* As long as calls follow one another, the context is the last one that arrived:
\* none that has arrived is replaced by an older one or dropped.
ContextIsLatest == [][~overlapped' => context' >= context]_httpVars

\* The object has every method that is listed under the prefix, but for those a later
\* one takes the place of: a name that is the beginning of another cannot stand
\* beside it.
Displaced(m, n) == m # n /\ (IsPrefix(m, n) \/ IsPrefix(n, m))

ObjectHasMethods ==
    \A list \in SeqOf(Names, 3), prefix \in Names \cup {<<>>} :
        ObjectOf(prefix, list) =
            {Rest(prefix, list[i]) : i \in {k \in DOMAIN list :
                /\ Under(prefix, list[k])
                /\ \A j \in k + 1 .. Len(list) : Under(prefix, list[j]) =>
                       ~Displaced(Rest(prefix, list[k]), Rest(prefix, list[j]))}}
=============================================================================
