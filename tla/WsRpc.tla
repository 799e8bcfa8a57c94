------------------------------- MODULE WsRpc -------------------------------
(***************************************************************************)
(* WsRpcClient: the calls of a web page over one web socket, which is      *)
(* opened by the first call and again after it was lost.  A request waits  *)
(* for its answer in the table "waiting"; when the socket is lost, every   *)
(* waiting request is repeated under a new id after a delay, or all are    *)
(* given up after too many losses.  The page holds the promise of its own  *)
(* request only: what settles a repeated one is not seen by it.            *)
(***************************************************************************)
EXTENDS Integers, Sequences, FiniteSets

CONSTANTS
    Calls,         \* what the page calls: a method with its arguments
    Falsy,         \* calls whose result is false, 0, "" or null
    Considered,    \* calls whose error an onError of the page's own considers
    MaxRetryCnt,   \* losses in a row that are repaired: 3
    MaxRequests,   \* bound: ids
    MaxLosses,     \* bound: losses of a socket
    MaxRepeats     \* bound: calls made again after their error

ASSUME ClientAssumption ==
    /\ Falsy \subseteq Calls /\ Considered \subseteq Calls
    /\ MaxRetryCnt \in Nat /\ MaxRequests \in Nat
    /\ MaxLosses \in Nat /\ MaxRepeats \in Nat

Ids == 1 .. MaxRequests

VARIABLES
    callOf,     \* the call each request is for, in the order of their ids
    own,        \* of each call: the request whose promise the page holds
    outcome,    \* of each call: how this promise was settled
    waiting,    \* requests that wait for an answer
    pondered,   \* requests whose error the page considers
    socket,     \* "null", "opening", "open"
    queued,     \* requests that wait for the socket to open
    alive,      \* the network under the open socket
    sent,       \* requests on their way to the server
    replies,    \* answers on their way to the client: [id, ok]
    retryCnt,
    decisions,  \* retries decided by onConnectionError, whose delay runs
    executed,   \* observation: calls the server has executed
    givenUp,    \* observation: calls onclose has given up
    losses, repeats

client == <<callOf, own, outcome, waiting, pondered, queued, retryCnt, decisions>>
network == <<socket, alive, sent, replies>>
vars == <<client, network, executed, givenUp, losses, repeats>>

-----------------------------------------------------------------------------
(* call2 *)

\* Requests for the given calls get the next ids and join those that wait;
\* they are sent, or queued until the socket is open.
Register(calls, kept) ==
    LET ids == Len(callOf) + 1 .. Len(callOf) + Len(calls)
    IN  /\ callOf' = callOf \o calls
        /\ waiting' = kept \cup ids
        /\ IF socket = "open"
           THEN /\ sent' = IF alive THEN sent \cup ids ELSE sent
                /\ UNCHANGED <<socket, queued>>
           ELSE /\ queued' = queued \cup ids
                /\ socket' = IF ids # {} THEN "opening" ELSE socket
                /\ UNCHANGED sent

Call(c) ==
    /\ own[c] = 0 /\ Len(callOf) < MaxRequests
    /\ Register(<<c>>, waiting)
    /\ own' = [own EXCEPT ![c] = Len(callOf) + 1]
    /\ UNCHANGED <<outcome, pondered, alive, replies, retryCnt, decisions, executed,
                   givenUp, losses, repeats>>

-----------------------------------------------------------------------------
(* The socket *)

\* The promise of the socket is fulfilled: everything queued is sent.
Open ==
    /\ socket = "opening"
    /\ socket' = "open" /\ alive' = TRUE
    /\ sent' = queued /\ queued' = {} /\ replies' = {}
    /\ UNCHANGED <<callOf, own, outcome, waiting, pondered, retryCnt, decisions,
                   executed, givenUp, losses, repeats>>

\* Mutant: one loss fewer is repaired.
GivesUpEarly == retryCnt >= MaxRetryCnt

\* onConnectionError, with the count before it is raised.
GivesUp == retryCnt > MaxRetryCnt

\* onclose with onConnectionError: the waiting requests are given up at once,
\* or repeated after a delay.
OnClose ==
    /\ socket' = "null" /\ queued' = {} /\ sent' = {} /\ replies' = {}
    /\ alive' = FALSE
    /\ IF waiting = {} THEN UNCHANGED <<retryCnt, waiting, outcome, givenUp, decisions>>
       ELSE /\ retryCnt' = retryCnt + 1
            /\ IF GivesUp
               THEN /\ waiting' = {}
                    /\ givenUp' = givenUp \cup {callOf[i] : i \in waiting}
                    /\ outcome' = [c \in Calls |-> IF own[c] \in waiting THEN "lost"
                                                   ELSE outcome[c]]
                    /\ UNCHANGED decisions
               ELSE decisions' = decisions + 1 /\ UNCHANGED <<waiting, outcome, givenUp>>

\* The socket cannot be opened.
OpenFails ==
    /\ socket = "opening" /\ losses < MaxLosses
    /\ losses' = losses + 1
    /\ OnClose
    /\ UNCHANGED <<callOf, own, pondered, executed, repeats>>

\* The network breaks down; the page hears of it later.
Break ==
    /\ socket = "open" /\ alive /\ losses < MaxLosses
    /\ alive' = FALSE /\ losses' = losses + 1
    /\ sent' = {} /\ replies' = {}
    /\ UNCHANGED <<client, socket, executed, givenUp, repeats>>

Close ==
    /\ socket = "open" /\ ~alive
    /\ OnClose
    /\ UNCHANGED <<callOf, own, pondered, executed, losses, repeats>>

\* Mutant: the table is emptied without new requests.
RepeatNothing(ids) == <<>>

\* The k-th of some ids.
Nth(ids, k) == CHOOSE i \in ids : Cardinality({j \in ids : j <= i}) = k

\* Whatever waits is called again, in the order of the ids.
Repeat(ids) == [k \in 1 .. Cardinality(ids) |-> callOf[Nth(ids, k)]]

\* The delay is over.  The promises of the old requests are left as they are.
Retry ==
    /\ decisions > 0 /\ decisions' = decisions - 1
    /\ Len(callOf) + Cardinality(waiting) <= MaxRequests
    /\ Register(Repeat(waiting), {})
    /\ UNCHANGED <<own, outcome, pondered, alive, replies, retryCnt, executed, givenUp,
                   losses, repeats>>

-----------------------------------------------------------------------------
(* The server, and onmessage *)

Execute(i) ==
    /\ i \in sent /\ sent' = sent \ {i}
    /\ executed' = executed \cup {callOf[i]}
    /\ \E ok \in BOOLEAN : replies' = replies \cup {[id |-> i, ok |-> ok]}
    /\ UNCHANGED <<client, socket, alive, givenUp, losses, repeats>>

Settled(i, as) == [c \in Calls |-> IF own[c] = i THEN as ELSE outcome[c]]

\* An answer to a request that waits settles its promise; one whose result is
\* falsy is no answer.  An error goes to onError, which rejects the promise, unless
\* the page has one of its own, which may take its time.
OnMessage(m) ==
    /\ m \in replies /\ replies' = replies \ {m}
    /\ retryCnt' = 0
    /\ \/ m.ok /\ callOf[m.id] \in Falsy /\ UNCHANGED <<waiting, outcome, pondered>>
       \/ m.id \notin waiting /\ UNCHANGED <<waiting, outcome, pondered>>
       \/ /\ m.id \in waiting /\ waiting' = waiting \ {m.id}
          /\ \/ m.ok /\ callOf[m.id] \notin Falsy
                /\ outcome' = Settled(m.id, "result") /\ UNCHANGED pondered
             \/ ~m.ok /\ callOf[m.id] \notin Considered
                /\ outcome' = Settled(m.id, "error") /\ UNCHANGED pondered
             \/ ~m.ok /\ callOf[m.id] \in Considered
                /\ pondered' = pondered \cup {m.id} /\ UNCHANGED outcome
    /\ UNCHANGED <<callOf, own, queued, decisions, socket, alive, sent,
                   executed, givenUp, losses, repeats>>

\* The page's onError gives a result, or throws, or resolves to undefined: then the
\* call is made again, and its promise settles as that of the new request.
OnErrorDone(i) ==
    /\ i \in pondered /\ pondered' = pondered \ {i}
    /\ \/ /\ outcome' \in {Settled(i, "result"), Settled(i, "error")}
          /\ UNCHANGED <<callOf, own, waiting, queued, socket, sent, repeats>>
       \/ /\ repeats < MaxRepeats /\ repeats' = repeats + 1
          /\ Len(callOf) < MaxRequests
          /\ Register(<<callOf[i]>>, waiting)
          /\ own' = [c \in Calls |-> IF own[c] = i THEN Len(callOf) + 1 ELSE own[c]]
          /\ UNCHANGED outcome
    /\ UNCHANGED <<alive, replies, retryCnt, decisions, executed, givenUp, losses>>

\* onnotify: the server calls the page.  Its request is never answered: an answer is
\* given to the promise of the socket, which cannot send, or to a function that
\* does not exist.
OnNotify ==
    /\ socket = "open" /\ alive
    /\ retryCnt' = 0
    /\ UNCHANGED <<callOf, own, outcome, waiting, pondered, queued, decisions, network,
                   executed, givenUp, losses, repeats>>

-----------------------------------------------------------------------------

Init ==
    /\ callOf = <<>>
    /\ own = [c \in Calls |-> 0] /\ outcome = [c \in Calls |-> "pending"]
    /\ waiting = {} /\ pondered = {} /\ socket = "null" /\ queued = {} /\ alive = FALSE
    /\ sent = {} /\ replies = {} /\ retryCnt = 0 /\ decisions = 0
    /\ executed = {} /\ givenUp = {} /\ losses = 0 /\ repeats = 0

Progress == \/ Open \/ Close \/ Retry
            \/ \E i \in Ids : Execute(i)
            \/ \E m \in replies : OnMessage(m)

Next == \/ Progress \/ OnNotify \/ OpenFails \/ Break
        \/ \E c \in Calls : Call(c)
        \/ \E i \in pondered : OnErrorDone(i)

Spec == Init /\ [][Next]_vars

\* The page runs its callbacks and timers, sockets open, the server answers.
FairSpec == Spec /\ WF_vars(Open) /\ WF_vars(Close) /\ WF_vars(Retry)
                 /\ WF_vars(\E i \in Ids : Execute(i))
                 /\ WF_vars(\E m \in replies : OnMessage(m))

-----------------------------------------------------------------------------
(* Properties *)

\* The type invariant: what travels or waits has an id, and only an open
\* socket carries anything.
TypeOK ==
    /\ callOf \in Seq(Calls)
    /\ own \in [Calls -> 0 .. Len(callOf)]
    /\ outcome \in [Calls -> {"pending", "result", "error", "lost"}]
    /\ waiting \cup queued \cup sent \cup pondered \subseteq DOMAIN callOf
    /\ replies \subseteq [id : DOMAIN callOf, ok : BOOLEAN]
    /\ socket \in {"null", "opening", "open"} /\ alive \in BOOLEAN
    /\ queued # {} => socket = "opening"
    /\ (sent # {} \/ replies # {}) => alive
    /\ alive => socket = "open"
    /\ retryCnt \in Nat /\ decisions \in Nat /\ losses \in 0 .. MaxLosses
    /\ repeats \in 0 .. MaxRepeats
    /\ executed \subseteq Calls /\ givenUp \subseteq Calls

\* No call is forgotten: until the server has executed it or it was given up,
\* a request for it waits, through any number of losses, retries and calls made
\* in between.
UnansweredWaits ==
    \A c \in Calls : own[c] # 0 /\ c \notin givenUp /\ c \notin executed =>
        \E i \in waiting : callOf[i] = c

\* Calls are given up only after more losses than are repaired.
LostAfterRetries == givenUp # {} => losses >= MaxRetryCnt + 2

\* A call is neither dropped nor given up early.
CallsKept == UnansweredWaits /\ LostAfterRetries

\* Every call is executed by the server or given up, whatever is lost.
EveryCallReached ==
    \A c \in Calls : own[c] # 0 ~> c \in executed \cup givenUp
=============================================================================
