-------------------------- MODULE RpcClientsProofs --------------------------
(***************************************************************************)
(* Proofs about WsRpc, HttpRpc, DataCache and Json, for any calls of the   *)
(* page, any number of losses and of retries, any items, and documents of  *)
(* any depth: no call is dropped by the renumbering of the requests; a     *)
(* call is repeated for a cause and given up in time, with the latest      *)
(* context; nobody waits for an item that no timer and no answer brings;   *)
(* the difference of two objects leads from the one to the other.  At the  *)
(* end, that the clients together do what each of them does.               *)
(***************************************************************************)
EXTENDS MCRpcClients, FoldTheorems

-----------------------------------------------------------------------------
(* Calls over a socket *)

USE ClientAssumption

\* What an answer is on its way for, the server has executed.
AnsweredIsExecuted == \A m \in replies : callOf[m.id] \in executed

\* Every loss that is repaired has happened; a broken socket is counted when the page
\* hears of it.
LossesCounted == retryCnt + (IF socket = "open" /\ ~alive THEN 1 ELSE 0) <= losses

KeptInv ==
    TypeOK /\ AnsweredIsExecuted /\ LossesCounted /\ UnansweredWaits /\ LostAfterRetries

-----------------------------------------------------------------------------
(* The order of the ids *)

Rank(ids, i) == Cardinality({j \in ids : j <= i})

LEMMA RankBounds ==
  ASSUME NEW ids, IsFiniteSet(ids), ids \subseteq Nat, NEW i \in ids
  PROVE  Rank(ids, i) \in 1 .. Cardinality(ids)
  <1> DEFINE upTo == {j \in ids : j <= i}
  <1>1. upTo \in SUBSET ids /\ i \in upTo
    OBVIOUS
  <1>2. IsFiniteSet(upTo) /\ Cardinality(upTo) <= Cardinality(ids)
    BY <1>1, FS_Subset
  <1>3. Cardinality(upTo) \in Nat /\ Cardinality(upTo) # 0 /\ Cardinality(ids) \in Nat
    BY <1>1, <1>2, FS_CardinalityType, FS_EmptySet
  <1> QED
    BY <1>2, <1>3 DEF Rank

LEMMA RankGrows ==
  ASSUME NEW ids, IsFiniteSet(ids), ids \subseteq Nat, NEW i \in ids, NEW j \in ids, i < j
  PROVE  Rank(ids, i) # Rank(ids, j)
  <1> DEFINE low == {k \in ids : k <= i}
             high == {k \in ids : k <= j}
  <1>1. low \in SUBSET high /\ j \in high /\ j \notin low
    <2>1. i \in Nat /\ j \in Nat /\ \A k \in ids : k \in Nat
      OBVIOUS
    <2>2. j <= j /\ ~(j <= i) /\ \A k \in ids : k <= i => k <= j
      BY <2>1
    <2> QED
      BY <2>2, Zenon
  <1>2. IsFiniteSet(high)
    <2>1. high \in SUBSET ids
      OBVIOUS
    <2> QED
      BY <2>1, FS_Subset
  <1>3. Cardinality(high) # Cardinality(low)
    BY <1>1, <1>2, FS_Subset
  <1> QED
    BY <1>3 DEF Rank

\* Each id has a place of its own, and each place its id.
LEMMA NthExists ==
  ASSUME NEW ids, IsFiniteSet(ids), ids \subseteq Nat
  PROVE  /\ \A i \in ids : Rank(ids, i) \in 1 .. Cardinality(ids) /\ Nth(ids, Rank(ids, i)) = i
         /\ \A k \in 1 .. Cardinality(ids) : Nth(ids, k) \in ids
  <1> DEFINE n == Cardinality(ids)
             f == [i \in ids |-> Rank(ids, i)]
  <1>1. n \in Nat
    BY FS_CardinalityType
  <1>2. IsFiniteSet(1 .. n) /\ Cardinality(1 .. n) = n
    BY <1>1, FS_Interval
  <1>3. \A i, j \in ids : Rank(ids, i) = Rank(ids, j) => i = j
    <2> SUFFICES ASSUME NEW i \in ids, NEW j \in ids, i # j PROVE Rank(ids, i) # Rank(ids, j)
      OBVIOUS
    <2>1. i < j \/ j < i
      OBVIOUS
    <2> QED
      BY <2>1, RankGrows
  <1>4. f \in Injection(ids, 1 .. n)
    BY <1>3, RankBounds DEF Injection, IsInjective
  <1>5. f \in Surjection(ids, 1 .. n)
    BY <1>2, <1>4, FS_Injection
  <1>6. ASSUME NEW k \in 1 .. n PROVE Nth(ids, k) \in ids /\ Rank(ids, Nth(ids, k)) = k
    <2>1. \E i \in ids : Rank(ids, i) = k
      BY <1>5 DEF Surjection
    <2> QED
      BY <2>1 DEF Nth, Rank
  <1> QED
    BY <1>3, <1>6, RankBounds

\* The calls of some requests, one after the other: none is left out.
LEMMA RepeatKeeps ==
  ASSUME callOf \in Seq(Calls), NEW ids, ids \subseteq DOMAIN callOf
  PROVE  /\ IsFiniteSet(ids) /\ Cardinality(ids) \in Nat
         /\ Repeat(ids) \in Seq(Calls) /\ Len(Repeat(ids)) = Cardinality(ids)
         /\ \A i \in ids : \E k \in 1 .. Cardinality(ids) : Repeat(ids)[k] = callOf[i]
  <1>1. IsFiniteSet(DOMAIN callOf) /\ ids \in SUBSET DOMAIN callOf /\ ids \subseteq Nat
    <2>1. DOMAIN callOf = 1 .. Len(callOf) /\ Len(callOf) \in Int
      OBVIOUS
    <2> QED
      BY <2>1, FS_Interval
  <1>2. IsFiniteSet(ids) /\ Cardinality(ids) \in Nat
    BY <1>1, FS_Subset, FS_CardinalityType
  <1>3. /\ \A i \in ids : Rank(ids, i) \in 1 .. Cardinality(ids) /\ Nth(ids, Rank(ids, i)) = i
        /\ \A k \in 1 .. Cardinality(ids) : Nth(ids, k) \in ids
    BY <1>1, <1>2, NthExists
  <1>4. Repeat(ids) \in [1 .. Cardinality(ids) -> Calls]
    BY <1>1, <1>3 DEF Repeat
  <1>5. Repeat(ids) \in Seq(Calls) /\ Len(Repeat(ids)) = Cardinality(ids)
    BY <1>2, <1>4
  <1>6. \A i \in ids : Repeat(ids)[Rank(ids, i)] = callOf[i]
    BY <1>3 DEF Repeat
  <1> QED
    BY <1>2, <1>3, <1>5, <1>6
-----------------------------------------------------------------------------
(* New requests *)

\* The requests that are registered get ids of their own, beside those there are.
LEMMA RegisterTypes ==
  ASSUME TypeOK, NEW calls \in Seq(Calls), NEW stays \in SUBSET waiting, Register(calls, stays),
         UNCHANGED <<alive, replies>>
  PROVE  /\ callOf' \in Seq(Calls) /\ Len(callOf') = Len(callOf) + Len(calls)
         /\ \A i \in DOMAIN callOf : i \in DOMAIN callOf' /\ callOf'[i] = callOf[i]
         /\ \A k \in 1 .. Len(calls) : /\ Len(callOf) + k \in waiting'
                                      /\ callOf'[Len(callOf) + k] = calls[k]
         /\ stays \subseteq waiting'
         /\ waiting' \cup queued' \cup sent' \cup pondered \subseteq DOMAIN callOf'
         /\ replies' \subseteq [id : DOMAIN callOf', ok : BOOLEAN]
         /\ socket' \in {"null", "opening", "open"}
         /\ queued' # {} => socket' = "opening"
         /\ (sent' # {} \/ replies' # {}) => alive'
         /\ alive' => socket' = "open"
         /\ socket' = "open" => socket = "open"
  <1> DEFINE n == Len(callOf)
             ids == n + 1 .. n + Len(calls)
  <1>1. /\ callOf \in Seq(Calls) /\ n \in Nat /\ Len(calls) \in Nat
        /\ DOMAIN callOf = 1 .. n /\ waiting \cup queued \cup sent \cup pondered \subseteq DOMAIN callOf
    BY DEF TypeOK
  <1>2. /\ callOf' \in Seq(Calls) /\ Len(callOf') = n + Len(calls)
        /\ DOMAIN callOf' = 1 .. n + Len(calls)
        /\ \A i \in 1 .. n : callOf'[i] = callOf[i]
        /\ \A k \in 1 .. Len(calls) : callOf'[n + k] = calls[k]
    BY <1>1 DEF Register
  <1>3. waiting' = stays \cup ids
    BY DEF Register
  <1>4. ids \subseteq DOMAIN callOf' /\ DOMAIN callOf \subseteq DOMAIN callOf'
    BY <1>1, <1>2
  <1>5. \A k \in 1 .. Len(calls) : n + k \in ids
    BY <1>1
  <1>6. replies' \subseteq [id : DOMAIN callOf', ok : BOOLEAN]
    <2>1. replies \subseteq [id : DOMAIN callOf, ok : BOOLEAN]
      BY DEF TypeOK
    <2> QED
      BY <1>4, <2>1
  <1>7. CASE socket = "open"
    <2>1. sent' \subseteq sent \cup ids /\ (sent' # sent => alive) /\ UNCHANGED <<socket, queued>>
      BY <1>7 DEF Register
    <2> QED
      BY <1>1, <1>2, <1>3, <1>4, <1>5, <1>6, <1>7, <2>1 DEF TypeOK
  <1>8. CASE socket # "open"
    <2>1. /\ queued' = queued \cup ids /\ UNCHANGED sent
          /\ socket' = IF ids # {} THEN "opening" ELSE socket
      BY <1>8 DEF Register
    <2>2. queued' # {} => socket' = "opening"
      BY <2>1 DEF TypeOK
    <2>3. sent = {} /\ replies = {} /\ ~alive /\ socket' # "open"
      BY <1>8, <2>1 DEF TypeOK
    <2> QED
      BY <1>1, <1>2, <1>3, <1>4, <1>5, <1>6, <2>1, <2>2, <2>3 DEF TypeOK
  <1> QED
    BY <1>7, <1>8

-----------------------------------------------------------------------------
LEMMA KeptStart == Init => KeptInv
  <1> SUFFICES ASSUME Init PROVE KeptInv
    OBVIOUS
  <1>1. TypeOK
    <2>1. callOf \in Seq(Calls) /\ own \in [Calls -> 0 .. Len(callOf)]
      BY DEF Init
    <2>2. outcome \in [Calls -> {"pending", "result", "error", "lost"}]
      BY DEF Init
    <2>3. 0 \in 0 .. MaxLosses /\ 0 \in 0 .. MaxRepeats
      OBVIOUS
    <2> QED
      BY <2>1, <2>2, <2>3 DEF Init, TypeOK
  <1> QED
    BY <1>1 DEF Init, KeptInv, AnsweredIsExecuted, LossesCounted, UnansweredWaits, LostAfterRetries

LEMMA CallKeeps == ASSUME KeptInv, NEW c \in Calls, Call(c) PROVE KeptInv'
  <1> DEFINE calls == <<c>>
  <1>0. /\ calls \in Seq(Calls) /\ Len(calls) = 1 /\ calls[1] = c /\ 1 \in 1 .. Len(calls)
        /\ waiting \in SUBSET waiting
    OBVIOUS
  <1>1. /\ TypeOK /\ Register(calls, waiting) /\ own' = [own EXCEPT ![c] = Len(callOf) + 1]
        /\ UNCHANGED <<outcome, pondered, alive, replies, retryCnt, decisions, executed, givenUp,
                       losses, repeats>>
    BY DEF KeptInv, Call
  <1> HIDE DEF calls
  <1>2. /\ callOf' \in Seq(Calls) /\ Len(callOf') = Len(callOf) + 1
        /\ \A i \in DOMAIN callOf : i \in DOMAIN callOf' /\ callOf'[i] = callOf[i]
        /\ Len(callOf) + 1 \in waiting' /\ callOf'[Len(callOf) + 1] = c
        /\ waiting \subseteq waiting'
        /\ waiting' \cup queued' \cup sent' \cup pondered \subseteq DOMAIN callOf'
        /\ replies' \subseteq [id : DOMAIN callOf', ok : BOOLEAN]
        /\ socket' \in {"null", "opening", "open"}
        /\ queued' # {} => socket' = "opening"
        /\ (sent' # {} \/ replies' # {}) => alive'
        /\ alive' => socket' = "open"
        /\ socket' = "open" => socket = "open"
    BY <1>0, <1>1, RegisterTypes
  <1>3. own' \in [Calls -> 0 .. Len(callOf')]
    BY <1>1, <1>2 DEF TypeOK
  <1>4. TypeOK'
    BY <1>1, <1>2, <1>3 DEF TypeOK
  <1>5. AnsweredIsExecuted'
    BY <1>1, <1>2 DEF KeptInv, TypeOK, AnsweredIsExecuted
  <1>6. LossesCounted' /\ LostAfterRetries'
    <2>1. retryCnt \in Nat /\ losses \in Nat
      BY <1>1 DEF TypeOK
    <2> QED
      BY <1>1, <1>2, <2>1 DEF KeptInv, LossesCounted, LostAfterRetries
  <1>7. UnansweredWaits'
    <2> SUFFICES ASSUME NEW d \in Calls, own'[d] # 0, d \notin givenUp, d \notin executed
                 PROVE  \E i \in waiting' : callOf'[i] = d
      BY <1>1 DEF UnansweredWaits
    <2>1. CASE d = c
      BY <1>2, <2>1
    <2>2. CASE d # c
      <3>1. own[d] # 0
        BY <1>1, <2>2 DEF TypeOK
      <3>2. PICK i \in waiting : callOf[i] = d
        BY <3>1 DEF KeptInv, UnansweredWaits
      <3> QED
        BY <1>1, <1>2, <3>2 DEF TypeOK
    <2> QED
      BY <2>1, <2>2
  <1> QED
    BY <1>4, <1>5, <1>6, <1>7 DEF KeptInv

LEMMA RetryKeeps == ASSUME KeptInv, Retry PROVE KeptInv'
  <1> DEFINE calls == Repeat(waiting)
  <1>1. /\ TypeOK /\ waiting \subseteq DOMAIN callOf /\ callOf \in Seq(Calls)
        /\ Register(calls, {}) /\ decisions' = decisions - 1 /\ decisions > 0
        /\ UNCHANGED <<own, outcome, pondered, alive, replies, retryCnt, executed, givenUp,
                       losses, repeats>>
    BY DEF KeptInv, Retry, TypeOK
  <1>2. /\ calls \in Seq(Calls) /\ Len(calls) = Cardinality(waiting) /\ Len(calls) \in Nat
        /\ \A i \in waiting : \E k \in 1 .. Len(calls) : calls[k] = callOf[i]
    BY <1>1, RepeatKeeps
  <1> HIDE DEF calls
  <1>3. /\ callOf' \in Seq(Calls) /\ Len(callOf') = Len(callOf) + Len(calls)
        /\ \A i \in DOMAIN callOf : i \in DOMAIN callOf' /\ callOf'[i] = callOf[i]
        /\ \A k \in 1 .. Len(calls) : /\ Len(callOf) + k \in waiting'
                                     /\ callOf'[Len(callOf) + k] = calls[k]
        /\ waiting' \cup queued' \cup sent' \cup pondered \subseteq DOMAIN callOf'
        /\ replies' \subseteq [id : DOMAIN callOf', ok : BOOLEAN]
        /\ socket' \in {"null", "opening", "open"}
        /\ queued' # {} => socket' = "opening"
        /\ (sent' # {} \/ replies' # {}) => alive'
        /\ alive' => socket' = "open"
        /\ socket' = "open" => socket = "open"
    BY <1>1, <1>2, RegisterTypes
  <1>4. own' \in [Calls -> 0 .. Len(callOf')]
    BY <1>1, <1>2, <1>3 DEF TypeOK
  <1>5. TypeOK'
    BY <1>1, <1>3, <1>4 DEF TypeOK
  <1>6. AnsweredIsExecuted'
    BY <1>1, <1>3 DEF KeptInv, TypeOK, AnsweredIsExecuted
  <1>7. LossesCounted' /\ LostAfterRetries'
    <2>1. retryCnt \in Nat /\ losses \in Nat
      BY <1>1 DEF TypeOK
    <2> QED
      BY <1>1, <1>3, <2>1 DEF KeptInv, LossesCounted, LostAfterRetries
  <1>8. UnansweredWaits'
    <2> SUFFICES ASSUME NEW d \in Calls, own[d] # 0, d \notin givenUp, d \notin executed
                 PROVE  \E i \in waiting' : callOf'[i] = d
      BY <1>1 DEF UnansweredWaits
    <2>1. PICK i \in waiting : callOf[i] = d
      BY DEF KeptInv, UnansweredWaits
    <2>2. PICK k \in 1 .. Len(calls) : calls[k] = d
      BY <1>2, <2>1
    <2> QED
      BY <1>3, <2>2
  <1> QED
    BY <1>5, <1>6, <1>7, <1>8 DEF KeptInv

\* The loss of the socket: what waits goes on waiting for a retry, or all of it is
\* given up.
LEMMA OnCloseKeeps ==
  ASSUME KeptInv, OnClose, UNCHANGED <<callOf, own, pondered, executed, repeats>>,
         losses' \in 0 .. MaxLosses, losses' >= losses,
         losses' >= losses + 1 \/ (socket = "open" /\ ~alive)
  PROVE  KeptInv'
  <1>1. /\ socket' = "null" /\ queued' = {} /\ sent' = {} /\ replies' = {} /\ alive' = FALSE
        /\ callOf' = callOf /\ own' = own /\ executed' = executed
        /\ pondered' = pondered /\ repeats' = repeats
    BY DEF OnClose
  <1>2. /\ TypeOK /\ retryCnt \in Nat /\ losses \in Nat /\ losses' \in Nat
        /\ retryCnt + 1 <= losses'
    BY DEF KeptInv, TypeOK, LossesCounted
  <1>3. /\ waiting' \subseteq waiting
        /\ outcome' \in [Calls -> {"pending", "result", "error", "lost"}]
        /\ decisions' \in Nat /\ retryCnt' \in Nat /\ retryCnt' <= losses'
        /\ givenUp' \subseteq Calls
    <2>1. CASE waiting = {}
      BY <1>2, <2>1 DEF OnClose, TypeOK
    <2>2. CASE waiting # {} /\ GivesUp
      <3>1. /\ waiting' = {} /\ retryCnt' = retryCnt + 1 /\ decisions' = decisions
            /\ outcome' = [c \in Calls |-> IF own[c] \in waiting THEN "lost" ELSE outcome[c]]
            /\ givenUp' = givenUp \cup {callOf[i] : i \in waiting}
        BY <2>2 DEF OnClose
      <3>2. \A i \in waiting : callOf[i] \in Calls
        BY <1>2 DEF TypeOK
      <3>3. givenUp' \subseteq Calls
        BY <1>2, <3>1, <3>2 DEF TypeOK
      <3>4. outcome' \in [Calls -> {"pending", "result", "error", "lost"}] /\ decisions' \in Nat
        BY <1>2, <3>1 DEF TypeOK
      <3> QED
        BY <1>2, <3>1, <3>3, <3>4
    <2>3. CASE waiting # {} /\ ~GivesUp
      <3>1. retryCnt' = retryCnt + 1 /\ decisions' = decisions + 1
            /\ UNCHANGED <<waiting, outcome, givenUp>>
        BY <2>3 DEF OnClose
      <3>2. /\ decisions \in Nat /\ givenUp \subseteq Calls
            /\ outcome \in [Calls -> {"pending", "result", "error", "lost"}]
        BY <1>2 DEF TypeOK
      <3> QED
        BY <1>2, <3>1, <3>2
    <2> QED
      BY <2>1, <2>2, <2>3
  <1>4. TypeOK'
    <2>1. waiting' \cup queued' \cup sent' \cup pondered' \subseteq DOMAIN callOf'
      BY <1>1, <1>2, <1>3 DEF TypeOK
    <2> QED
      BY <1>1, <1>2, <1>3, <2>1 DEF TypeOK
  <1>5. AnsweredIsExecuted' /\ LossesCounted'
    <2>1. replies' = {} /\ socket' # "open" /\ retryCnt' \in Nat /\ retryCnt' <= losses'
      BY <1>1, <1>3
    <2> QED
      BY <2>1 DEF AnsweredIsExecuted, LossesCounted
  <1>6. LostAfterRetries'
    <2>1. CASE givenUp' = givenUp
      BY <1>2, <2>1 DEF KeptInv, LostAfterRetries
    <2>2. CASE givenUp' # givenUp
      <3>1. retryCnt > MaxRetryCnt
        BY <2>2 DEF OnClose, GivesUp
      <3> QED
        BY <1>2, <3>1 DEF LostAfterRetries
    <2> QED
      BY <2>1, <2>2
  <1>7. UnansweredWaits'
    <2> SUFFICES ASSUME NEW c \in Calls, own[c] # 0, c \notin givenUp', c \notin executed
                 PROVE  \E i \in waiting' : callOf[i] = c
      BY <1>1 DEF UnansweredWaits
    <2>1. givenUp \subseteq givenUp'
      BY DEF OnClose
    <2>2. PICK i \in waiting : callOf[i] = c
      BY <2>1 DEF KeptInv, UnansweredWaits
    <2>3. waiting' = waiting
      BY <2>2 DEF OnClose
    <2> QED
      BY <2>2, <2>3
  <1> QED
    BY <1>4, <1>5, <1>6, <1>7 DEF KeptInv

\* The socket opens or breaks: what waits and what it waits for stay.
LEMMA SocketKeeps == ASSUME KeptInv, Open \/ Break \/ OnNotify PROVE KeptInv'
  <1>1. /\ callOf' = callOf /\ own' = own /\ outcome' = outcome /\ waiting' = waiting
        /\ pondered' = pondered /\ repeats' = repeats
        /\ decisions' = decisions /\ executed' = executed /\ givenUp' = givenUp
    BY DEF Open, Break, OnNotify, client, network
  <1>2. TypeOK'
    <2>1. CASE Open
      BY <2>1 DEF KeptInv, TypeOK, Open
    <2>2. CASE Break
      <3>1. losses' \in 0 .. MaxLosses
        BY <2>2 DEF KeptInv, TypeOK, Break
      <3>2. sent' = {} /\ replies' = {} /\ alive' = FALSE
            /\ UNCHANGED <<client, socket, executed, givenUp, repeats>>
        BY <2>2 DEF Break
      <3> QED
        BY <3>1, <3>2 DEF KeptInv, TypeOK, client
    <2>3. CASE OnNotify
      BY <2>3 DEF KeptInv, TypeOK, OnNotify, network
    <2> QED
      BY <2>1, <2>2, <2>3
  <1>3. replies' \subseteq replies
    BY DEF Open, Break, OnNotify, client, network
  <1>4. LossesCounted' /\ losses' >= losses
    <2>1. retryCnt \in Nat /\ losses \in Nat
      BY DEF KeptInv, TypeOK
    <2> QED
      BY <2>1 DEF KeptInv, LossesCounted, Open, Break, OnNotify, client, network
  <1>5. LostAfterRetries'
    BY <1>1, <1>2, <1>4 DEF KeptInv, TypeOK, LostAfterRetries
  <1> QED
    BY <1>1, <1>2, <1>3, <1>4, <1>5 DEF KeptInv, AnsweredIsExecuted, UnansweredWaits

LEMMA ExecuteKeeps == ASSUME KeptInv, NEW i \in Ids, Execute(i) PROVE KeptInv'
  <1>1. PICK ok \in BOOLEAN : replies' = replies \cup {[id |-> i, ok |-> ok]}
    BY DEF Execute
  <1>2. /\ i \in sent /\ sent' = sent \ {i} /\ executed' = executed \cup {callOf[i]}
        /\ UNCHANGED <<callOf, own, outcome, waiting, pondered, queued, retryCnt, decisions, socket,
                       alive, givenUp, losses, repeats>>
    BY DEF Execute, client
  <1>3. i \in DOMAIN callOf /\ callOf[i] \in Calls /\ alive
    BY <1>2 DEF KeptInv, TypeOK
  <1>4. replies' \subseteq [id : DOMAIN callOf, ok : BOOLEAN]
    BY <1>1, <1>3 DEF KeptInv, TypeOK
  <1>5. TypeOK'
    BY <1>2, <1>3, <1>4 DEF KeptInv, TypeOK
  <1>6. AnsweredIsExecuted'
    BY <1>1, <1>2 DEF KeptInv, AnsweredIsExecuted
  <1> QED
    BY <1>2, <1>5, <1>6 DEF KeptInv, LossesCounted, UnansweredWaits, LostAfterRetries

LEMMA OnMessageKeeps == ASSUME KeptInv, NEW m \in replies, OnMessage(m) PROVE KeptInv'
  <1>1. /\ replies' \subseteq replies /\ retryCnt' = 0
        /\ UNCHANGED <<callOf, own, queued, decisions, socket, alive, sent,
                       executed, givenUp, losses, repeats>>
        /\ waiting' \subseteq waiting /\ pondered' \subseteq pondered \cup waiting /\ waiting \ {m.id} \subseteq waiting'
    BY DEF OnMessage
  <1>2. outcome' \in [Calls -> {"pending", "result", "error", "lost"}]
    BY DEF KeptInv, TypeOK, OnMessage, Settled
  <1>3. TypeOK'
    BY <1>1, <1>2 DEF KeptInv, TypeOK
  <1>4. AnsweredIsExecuted' /\ LostAfterRetries'
    BY <1>1 DEF KeptInv, AnsweredIsExecuted, LostAfterRetries
  <1>5. LossesCounted'
    <2>1. retryCnt \in Nat /\ losses \in Nat
      BY DEF KeptInv, TypeOK
    <2> QED
      BY <1>1, <2>1 DEF KeptInv, LossesCounted
  <1>6. UnansweredWaits'
    <2> SUFFICES ASSUME NEW c \in Calls, own[c] # 0, c \notin givenUp, c \notin executed
                 PROVE  \E i \in waiting' : callOf[i] = c
      BY <1>1 DEF UnansweredWaits
    <2>1. PICK i \in waiting : callOf[i] = c
      BY DEF KeptInv, UnansweredWaits
    <2>2. i # m.id
      BY <2>1 DEF KeptInv, AnsweredIsExecuted
    <2> QED
      BY <1>1, <2>1, <2>2
  <1> QED
    BY <1>3, <1>4, <1>5, <1>6 DEF KeptInv

\* The page's onError is done; a call it makes again joins those that wait.
LEMMA OnErrorKeeps == ASSUME KeptInv, NEW i \in pondered, OnErrorDone(i) PROVE KeptInv'
  <1>0. /\ TypeOK /\ pondered' = pondered \ {i}
        /\ UNCHANGED <<alive, replies, retryCnt, decisions, executed, givenUp, losses>>
    BY DEF KeptInv, OnErrorDone
  <1>1. CASE UNCHANGED <<callOf, own, waiting, queued, socket, sent, repeats>>
    <2>1. outcome' \in [Calls -> {"pending", "result", "error", "lost"}]
      BY <1>0 DEF OnErrorDone, Settled, TypeOK
    <2>2. TypeOK'
      BY <1>0, <1>1, <2>1 DEF TypeOK
    <2> QED
      BY <1>0, <1>1, <2>2 DEF KeptInv, AnsweredIsExecuted, LossesCounted, UnansweredWaits,
                              LostAfterRetries
  <1>2. CASE /\ repeats < MaxRepeats /\ repeats' = repeats + 1
             /\ Register(<<callOf[i]>>, waiting)
             /\ own' = [c \in Calls |-> IF own[c] = i THEN Len(callOf) + 1 ELSE own[c]]
             /\ UNCHANGED outcome
    <2> DEFINE calls == <<callOf[i]>>
    <2>0. callOf[i] \in Calls
      BY <1>0 DEF TypeOK
    <2>1. /\ calls \in Seq(Calls) /\ Len(calls) = 1 /\ calls[1] = callOf[i] /\ 1 \in 1 .. Len(calls)
          /\ waiting \in SUBSET waiting /\ Register(calls, waiting)
      BY <1>2, <2>0
    <2> HIDE DEF calls
    <2>2. /\ callOf' \in Seq(Calls) /\ Len(callOf') = Len(callOf) + 1
          /\ \A j \in DOMAIN callOf : j \in DOMAIN callOf' /\ callOf'[j] = callOf[j]
          /\ Len(callOf) + 1 \in waiting' /\ callOf'[Len(callOf) + 1] = callOf[i]
          /\ waiting \subseteq waiting'
          /\ waiting' \cup queued' \cup sent' \cup pondered \subseteq DOMAIN callOf'
          /\ replies' \subseteq [id : DOMAIN callOf', ok : BOOLEAN]
          /\ socket' \in {"null", "opening", "open"}
          /\ queued' # {} => socket' = "opening"
          /\ (sent' # {} \/ replies' # {}) => alive'
          /\ alive' => socket' = "open"
          /\ socket' = "open" => socket = "open"
      BY <1>0, <2>1, RegisterTypes
    <2>3. own' \in [Calls -> 0 .. Len(callOf')]
      <3>1. Len(callOf) \in Nat /\ own \in [Calls -> 0 .. Len(callOf)]
        BY <1>0 DEF TypeOK
      <3> QED
        BY <1>2, <2>2, <3>1
    <2>4. repeats' \in 0 .. MaxRepeats
      BY <1>0, <1>2 DEF TypeOK
    <2>5. TypeOK'
      BY <1>0, <1>2, <2>2, <2>3, <2>4 DEF TypeOK
    <2>6. AnsweredIsExecuted'
      BY <1>0, <2>2 DEF KeptInv, TypeOK, AnsweredIsExecuted
    <2>7. LossesCounted' /\ LostAfterRetries'
      <3>1. retryCnt \in Nat /\ losses \in Nat
        BY <1>0 DEF TypeOK
      <3> QED
        BY <1>0, <2>2, <3>1 DEF KeptInv, LossesCounted, LostAfterRetries
    <2>8. UnansweredWaits'
      <3> SUFFICES ASSUME NEW d \in Calls, own'[d] # 0, d \notin givenUp, d \notin executed
                   PROVE  \E j \in waiting' : callOf'[j] = d
        BY <1>0 DEF UnansweredWaits
      <3>1. own[d] # 0
        <4>1. i # 0
          BY <1>0 DEF TypeOK
        <4> QED
          BY <1>2, <4>1
      <3>2. PICK j \in waiting : callOf[j] = d
        BY <3>1 DEF KeptInv, UnansweredWaits
      <3> QED
        BY <1>0, <2>2, <3>2 DEF TypeOK
    <2> QED
      BY <2>5, <2>6, <2>7, <2>8 DEF KeptInv
  <1> QED
    BY <1>1, <1>2 DEF OnErrorDone

LEMMA KeptStep == KeptInv /\ [Next]_vars => KeptInv'
  <1> SUFFICES ASSUME KeptInv, [Next]_vars PROVE KeptInv'
    OBVIOUS
  <1>0. losses \in 0 .. MaxLosses
    BY DEF KeptInv, TypeOK
  <1>1. CASE OpenFails
    <2>1. losses' = losses + 1 /\ losses < MaxLosses /\ OnClose /\ UNCHANGED <<callOf, own, pondered, executed, repeats>>
      BY <1>1 DEF OpenFails
    <2>2. losses' \in 0 .. MaxLosses /\ losses' >= losses /\ losses' >= losses + 1
      BY <1>0, <2>1
    <2> QED
      BY <2>1, <2>2, OnCloseKeeps
  <1>2. CASE Close
    <2>1. /\ losses' = losses /\ OnClose /\ UNCHANGED <<callOf, own, pondered, executed, repeats>>
          /\ socket = "open" /\ ~alive
      BY <1>2 DEF Close
    <2>2. losses' \in 0 .. MaxLosses /\ losses' >= losses
      BY <1>0, <2>1
    <2> QED
      BY <2>1, <2>2, OnCloseKeeps
  <1>3. CASE UNCHANGED vars
    BY <1>3 DEF vars, client, network, KeptInv, TypeOK, AnsweredIsExecuted, LossesCounted,
                UnansweredWaits, LostAfterRetries
  <1> QED
    BY <1>1, <1>2, <1>3, CallKeeps, RetryKeeps, SocketKeeps, ExecuteKeeps, OnMessageKeeps,
       OnErrorKeeps
    DEF Next, Progress

\* Through any number of losses, retries, answers and calls made in between, no call
\* is dropped by the renumbering of the requests that wait, and none is given up
\* before MaxRetryCnt + 2 losses (onclose, onConnectionError, call2).
THEOREM NoneForgotten == Spec => []CallsKept
  <1>1. KeptInv => CallsKept
    BY DEF KeptInv, CallsKept
  <1> QED
    BY <1>1, KeptStart, KeptStep, PTL DEF Spec

HIDE ClientAssumption

-----------------------------------------------------------------------------
(* Calls over HTTP *)

USE HttpAssumption

\* What makes RetriesCounted inductive: the failures of a call are its retries, one
\* more while the next is delayed.
Retrying ==
    \A c \in Posts :
        /\ state[c] = "idle" => failures[c] = 0 /\ retries[c] = 0
        /\ state[c] \in {"asked", "answered"} => failures[c] = retries[c]
        /\ state[c] = "delayed" => failures[c] = retries[c] + 1 /\ retries[c] <= LastRetry
        /\ state[c] = "ended" =>
              failures[c] = LastRetry + 2 \/ (result[c] # "lost" /\ failures[c] <= LastRetry + 1)
        /\ failures[c] = LastRetry + 2 => result[c] = "lost"

\* Each execution but the one whose answer is awaited or came has its cause.
Caused ==
    \A c \in Posts :
        served[c] <= lostBack[c] + again[c]
                        + (IF state[c] \in {"answered", "ended"} THEN 1 ELSE 0)

CountInv == HttpTypeOK /\ Retrying /\ Caused

LEMMA CountInit == HttpInit => CountInv
  <1> SUFFICES ASSUME HttpInit PROVE CountInv
    OBVIOUS
  <1>1. answer \in [Posts -> [ok : BOOLEAN, ctx : 0 .. issued]]
    BY DEF HttpInit, NoAnswer
  <1>2. {served, failures, lostBack} \subseteq [Posts -> Nat]
    BY DEF HttpInit
  <1>3. HttpTypeOK
    <2>1. 0 \in 0 .. LastRetry + 1 /\ 0 \in 0 .. MaxAgain /\ 0 \in 0 .. 0
      OBVIOUS
    <2>2. retries \in [Posts -> 0 .. LastRetry + 1] /\ again \in [Posts -> 0 .. MaxAgain]
      BY <2>1 DEF HttpInit
    <2>3. issued \in Nat /\ context \in 0 .. issued
      BY <2>1 DEF HttpInit
    <2>4. \A c \in Posts : state[c] = "ended" <=> result[c] # "none"
      BY DEF HttpInit
    <2> QED
      BY <1>1, <1>2, <2>2, <2>3, <2>4 DEF HttpInit, HttpTypeOK
  <1>4. Retrying /\ Caused
    BY DEF HttpInit, Retrying, Caused
  <1> QED
    BY <1>3, <1>4 DEF CountInv

\* Contexts that were issued stay issued.
LEMMA AnswersGrow ==
  ASSUME HttpTypeOK, NEW n \in Nat, n >= issued
  PROVE  answer \in [Posts -> [ok : BOOLEAN, ctx : 0 .. n]]
  <1>1. \A c \in Posts : answer[c] \in [ok : BOOLEAN, ctx : 0 .. n]
    BY DEF HttpTypeOK
  <1> QED
    BY <1>1 DEF HttpTypeOK

LEMMA NoAnswerType == ASSUME issued \in Nat PROVE NoAnswer \in [ok : BOOLEAN, ctx : 0 .. issued]
  BY DEF NoAnswer

LEMMA TypeStep == HttpTypeOK /\ Retrying /\ [HttpNext]_httpVars => HttpTypeOK'
  <1> SUFFICES ASSUME HttpTypeOK, Retrying, [HttpNext]_httpVars PROVE HttpTypeOK'
    OBVIOUS
  <1>0. NoAnswer \in [ok : BOOLEAN, ctx : 0 .. issued]
    BY NoAnswerType DEF HttpTypeOK
  <1>1. ASSUME NEW c \in Posts, First(c) PROVE HttpTypeOK'
    BY <1>1 DEF First, HttpTypeOK
  <1>2. ASSUME NEW c \in Posts, Serve(c) PROVE HttpTypeOK'
    <2>1. PICK ok \in BOOLEAN, ctx \in BOOLEAN :
            /\ issued' = IF ctx THEN issued + 1 ELSE issued
            /\ answer' = [answer EXCEPT ![c] = [ok |-> ok, ctx |-> IF ctx THEN issued' ELSE 0]]
      BY <1>2 DEF Serve
    <2>2. issued' \in Nat /\ issued' >= issued
      BY <2>1 DEF HttpTypeOK
    <2>3. answer' \in [Posts -> [ok : BOOLEAN, ctx : 0 .. issued']]
      <3>1. [ok |-> ok, ctx |-> IF ctx THEN issued' ELSE 0] \in [ok : BOOLEAN, ctx : 0 .. issued']
        BY <2>2
      <3>2. answer \in [Posts -> [ok : BOOLEAN, ctx : 0 .. issued']]
        BY <2>2, AnswersGrow
      <3> QED
        BY <2>1, <3>1, <3>2
    <2>4. context' \in 0 .. issued'
      BY <1>2, <2>2 DEF Serve, HttpTypeOK
    <2>5. served' \in [Posts -> Nat]
      BY <1>2 DEF Serve, HttpTypeOK
    <2> QED
      BY <1>2, <2>2, <2>3, <2>4, <2>5 DEF Serve, HttpTypeOK
  <1>3. ASSUME NEW c \in Posts, Fail(c) PROVE HttpTypeOK'
    <2>1. answer' \in [Posts -> [ok : BOOLEAN, ctx : 0 .. issued]]
      BY <1>0, <1>3 DEF Fail, HttpTypeOK
    <2>2. failures' \in [Posts -> Nat] /\ lostBack' \in [Posts -> Nat]
      BY <1>3 DEF Fail, HttpTypeOK
    <2>3. result[c] = "none"
      BY <1>3 DEF Fail, HttpTypeOK
    <2>4. /\ state' \in [Posts -> {"idle", "asked", "answered", "delayed", "ended"}]
          /\ result' \in [Posts -> {"none", "result", "error", "lost"}]
          /\ \A d \in Posts : state'[d] = "ended" <=> result'[d] # "none"
      BY <1>3, <2>3 DEF Fail, ConnectionError, HttpTypeOK
    <2> QED
      BY <1>3, <2>1, <2>2, <2>4 DEF Fail, HttpTypeOK
  <1>4. ASSUME NEW c \in Posts, PostAgain(c) PROVE HttpTypeOK'
    <2>1. retries' \in [Posts -> 0 .. LastRetry + 1]
      BY <1>4 DEF PostAgain, HttpTypeOK, Retrying
    <2> QED
      BY <1>4, <2>1 DEF PostAgain, HttpTypeOK
  <1>5. ASSUME NEW c \in Posts, Take(c) PROVE HttpTypeOK'
    <2>1. context' \in 0 .. issued
      BY <1>5 DEF Take, HttpTypeOK
    <2> QED
      BY <1>5, <2>1 DEF Take, HttpTypeOK
  <1>6. ASSUME NEW c \in Posts, TakeError(c) PROVE HttpTypeOK'
    <2>1. answer' \in [Posts -> [ok : BOOLEAN, ctx : 0 .. issued]]
      BY <1>0, <1>6 DEF TakeError, HttpTypeOK
    <2>2. failures' \in [Posts -> Nat] /\ again' \in [Posts -> 0 .. MaxAgain]
          /\ retries' \in [Posts -> 0 .. LastRetry + 1]
      BY <1>6 DEF TakeError, HttpTypeOK
    <2>3. /\ state' \in [Posts -> {"idle", "asked", "answered", "delayed", "ended"}]
          /\ result' \in [Posts -> {"none", "result", "error", "lost"}]
          /\ \A d \in Posts : state'[d] = "ended" <=> result'[d] # "none"
      <3>1. result[c] = "none"
        BY <1>6 DEF TakeError, HttpTypeOK
      <3>2. CASE /\ state' = [state EXCEPT ![c] = "ended"]
                 /\ result' = [result EXCEPT ![c] = "error"]
        BY <3>1, <3>2 DEF HttpTypeOK
      <3>3. CASE state' = [state EXCEPT ![c] = "asked"] /\ UNCHANGED result
        BY <3>1, <3>3 DEF HttpTypeOK
      <3> QED
        BY <1>6, <3>2, <3>3 DEF TakeError
    <2> QED
      BY <1>6, <2>1, <2>2, <2>3 DEF TakeError, HttpTypeOK
  <1>7. CASE UNCHANGED httpVars
    BY <1>7 DEF httpVars, HttpTypeOK
  <1> QED
    BY <1>1, <1>2, <1>3, <1>4, <1>5, <1>6, <1>7
    DEF HttpNext, Advance, Post, ListMethods, CallFails, MethodsFails

-----------------------------------------------------------------------------

LEMMA CountStep == CountInv /\ [HttpNext]_httpVars => Retrying' /\ Caused'
  <1> SUFFICES ASSUME HttpTypeOK, Retrying, Caused, [HttpNext]_httpVars
               PROVE  Retrying' /\ Caused'
    BY DEF CountInv
  <1>0. \A d \in Posts : /\ retries[d] \in Nat /\ again[d] \in Nat
                         /\ served[d] \in Nat /\ failures[d] \in Nat /\ lostBack[d] \in Nat
    BY DEF HttpTypeOK
  <1>1. ASSUME NEW c \in Posts, First(c) PROVE Retrying' /\ Caused'
    BY <1>0, <1>1 DEF First, HttpTypeOK, Retrying, Caused
  <1>2. ASSUME NEW c \in Posts, Serve(c) PROVE Retrying' /\ Caused'
    <2>1. /\ state[c] = "asked" /\ state' = [state EXCEPT ![c] = "answered"]
          /\ served' = [served EXCEPT ![c] = @ + 1]
          /\ UNCHANGED <<retries, result, failures, lostBack, again>>
      BY <1>2 DEF Serve
    <2>2. Retrying'
      BY <1>0, <2>1 DEF HttpTypeOK, Retrying
    <2>3. Caused'
      BY <1>0, <2>1 DEF HttpTypeOK, Caused
    <2> QED
      BY <2>2, <2>3
  <1>3. ASSUME NEW c \in Posts, Fail(c) PROVE Retrying' /\ Caused'
    <2>1. /\ state[c] \in {"asked", "answered"}
          /\ failures' = [failures EXCEPT ![c] = @ + 1]
          /\ lostBack' = [lostBack EXCEPT ![c] = IF state[c] = "answered" THEN @ + 1 ELSE @]
          /\ UNCHANGED <<retries, served, again>>
      BY <1>3 DEF Fail
    <2>2. CASE retries[c] > LastRetry
      <3>1. state' = [state EXCEPT ![c] = "ended"] /\ result' = [result EXCEPT ![c] = "lost"]
        BY <1>3, <2>2 DEF Fail, ConnectionError
      <3>2. Retrying'
        BY <1>0, <2>1, <2>2, <3>1 DEF HttpTypeOK, Retrying
      <3>3. Caused'
        BY <1>0, <2>1, <3>1 DEF HttpTypeOK, Caused
      <3> QED
        BY <3>2, <3>3
    <2>3. CASE ~(retries[c] > LastRetry)
      <3>1. state' = [state EXCEPT ![c] = "delayed"] /\ UNCHANGED result
        BY <1>3, <2>3 DEF Fail, ConnectionError
      <3>2. Retrying'
        BY <1>0, <2>1, <2>3, <3>1 DEF HttpTypeOK, Retrying
      <3>3. Caused'
        BY <1>0, <2>1, <3>1 DEF HttpTypeOK, Caused
      <3> QED
        BY <3>2, <3>3
    <2> QED
      BY <2>2, <2>3
  <1>4. ASSUME NEW c \in Posts, PostAgain(c) PROVE Retrying' /\ Caused'
    <2>1. Retrying'
      BY <1>0, <1>4 DEF PostAgain, HttpTypeOK, Retrying
    <2>2. Caused'
      BY <1>0, <1>4 DEF PostAgain, HttpTypeOK, Caused
    <2> QED
      BY <2>1, <2>2
  <1>5. ASSUME NEW c \in Posts, Take(c) PROVE Retrying' /\ Caused'
    <2>1. Retrying'
      BY <1>0, <1>5 DEF Take, HttpTypeOK, Retrying
    <2>2. Caused'
      BY <1>0, <1>5 DEF Take, HttpTypeOK, Caused
    <2> QED
      BY <2>1, <2>2
  <1>6. ASSUME NEW c \in Posts, TakeError(c) PROVE Retrying' /\ Caused'
    <2>1. state[c] = "answered" /\ UNCHANGED <<served, lostBack>>
      BY <1>6 DEF TakeError
    <2>2. CASE /\ state' = [state EXCEPT ![c] = "ended"]
               /\ result' = [result EXCEPT ![c] = "error"]
               /\ UNCHANGED <<retries, failures, again>>
      <3>1. Retrying'
        BY <1>0, <2>1, <2>2 DEF HttpTypeOK, Retrying
      <3>2. Caused'
        BY <1>0, <2>1, <2>2 DEF HttpTypeOK, Caused
      <3> QED
        BY <3>1, <3>2
    <2>3. CASE /\ again' = [again EXCEPT ![c] = @ + 1]
               /\ state' = [state EXCEPT ![c] = "asked"]
               /\ retries' = [retries EXCEPT ![c] = 0]
               /\ failures' = [failures EXCEPT ![c] = 0]
               /\ UNCHANGED result
      <3>1. Retrying'
        BY <1>0, <2>1, <2>3 DEF HttpTypeOK, Retrying
      <3>2. Caused'
        BY <1>0, <2>1, <2>3 DEF HttpTypeOK, Caused
      <3> QED
        BY <3>1, <3>2
    <2> QED
      BY <1>6, <2>2, <2>3 DEF TakeError
  <1>7. CASE UNCHANGED httpVars
    BY <1>7 DEF httpVars, Retrying, Caused
  <1> QED
    BY <1>1, <1>2, <1>3, <1>4, <1>5, <1>6, <1>7
    DEF HttpNext, Advance, Post, ListMethods, CallFails, MethodsFails

LEMMA CountsAgree == CountInv => RetriesCounted
  <1> SUFFICES ASSUME CountInv, NEW c \in Posts
               PROVE  /\ served[c] <= 1 + lostBack[c] + again[c]
                      /\ failures[c] <= LastRetry + 2
                      /\ result[c] = "lost" <=> failures[c] = LastRetry + 2
    BY DEF RetriesCounted, ExecutedForCause, GivenUpInTime
  <1>1. /\ retries[c] \in 0 .. LastRetry + 1 /\ again[c] \in Nat
        /\ served[c] \in Nat /\ failures[c] \in Nat /\ lostBack[c] \in Nat
        /\ state[c] \in {"idle", "asked", "answered", "delayed", "ended"}
        /\ state[c] = "ended" <=> result[c] # "none"
    BY DEF CountInv, HttpTypeOK
  <1> QED
    BY <1>1 DEF CountInv, Retrying, Caused

LEMMA CountAlways == HttpSpec => []CountInv
  <1>1. CountInv /\ [HttpNext]_httpVars => CountInv'
    BY TypeStep, CountStep DEF CountInv
  <1> QED
    BY <1>1, CountInit, PTL DEF HttpSpec

\* Whatever fails, on the way there or back, a call runs a second time only because
\* an answer was lost or the page asked for it, and it is given up after
\* LastRetry + 2 failures (call2, onConnectionError).
THEOREM RetriesBounded == HttpSpec => []RetriesCounted
  BY CountAlways, CountsAgree, PTL

-----------------------------------------------------------------------------
(* The context *)

\* While calls follow one another, at most one is under way, and the context it
\* brings is newer than the one the client has.
Newer ==
    ~overlapped =>
        /\ \A c, d \in UnderWay : c = d
        /\ \A c \in Posts : state[c] = "answered" /\ answer[c].ctx # 0 =>
              answer[c].ctx >= context

LEMMA NewerStep == HttpTypeOK /\ Newer /\ [HttpNext]_httpVars => Newer'
  <1> SUFFICES ASSUME HttpTypeOK, Newer, [HttpNext]_httpVars, ~overlapped'
               PROVE  /\ \A c, d \in UnderWay' : c = d
                      /\ \A c \in Posts : state'[c] = "answered" /\ answer'[c].ctx # 0 =>
                            answer'[c].ctx >= context'
    BY DEF Newer
  <1> DEFINE Goal == /\ \A c, d \in UnderWay' : c = d
                     /\ \A c \in Posts : state'[c] = "answered" /\ answer'[c].ctx # 0 =>
                           answer'[c].ctx >= context'
  <1>1. ASSUME NEW c \in Posts, First(c) PROVE Goal
    <2>1. ~overlapped /\ UnderWay = {}
      BY <1>1 DEF First, HttpTypeOK
    <2>2. UnderWay' = {c} /\ \A d \in Posts : state'[d] # "answered"
      BY <1>1, <2>1 DEF First, UnderWay, HttpTypeOK
    <2> QED
      BY <2>2
  <1>2. ASSUME NEW c \in Posts, Serve(c) PROVE Goal
    <2>1. /\ UnderWay' = UnderWay /\ c \in UnderWay /\ ~overlapped
          /\ \A d \in Posts \ {c} : state'[d] = state[d]
      BY <1>2 DEF Serve, UnderWay, HttpTypeOK
    <2>2. \A d \in Posts \ {c} : state'[d] # "answered"
      BY <2>1 DEF Newer, UnderWay
    <2>3. answer'[c].ctx # 0 => answer'[c].ctx >= context
      BY <1>2 DEF Serve, HttpTypeOK
    <2>4. UNCHANGED context
      BY <1>2 DEF Serve
    <2> QED
      BY <2>1, <2>2, <2>3, <2>4 DEF Newer
  <1>3. ASSUME NEW c \in Posts, Fail(c) \/ PostAgain(c) PROVE Goal
    <2>1. /\ UnderWay' \subseteq UnderWay /\ ~overlapped /\ UNCHANGED context
          /\ \A d \in Posts : state'[d] = "answered" => state[d] = "answered" /\ answer'[d] = answer[d]
      BY <1>3 DEF Fail, ConnectionError, PostAgain, UnderWay, HttpTypeOK
    <2> QED
      BY <2>1 DEF Newer
  <1>4. ASSUME NEW c \in Posts, Take(c) PROVE Goal
    <2>1. ~overlapped /\ c \in UnderWay /\ UnderWay' = UnderWay \ {c}
      BY <1>4 DEF Take, UnderWay, HttpTypeOK
    <2>2. UnderWay' = {}
      BY <2>1 DEF Newer
    <2>3. \A d \in Posts : state'[d] # "answered"
      BY <2>2 DEF UnderWay
    <2> QED
      BY <2>2, <2>3
  <1>5. ASSUME NEW c \in Posts, TakeError(c) PROVE Goal
    <2>1. /\ UnderWay' \subseteq UnderWay /\ ~overlapped /\ UNCHANGED context
          /\ \A d \in Posts : state'[d] = "answered" => state[d] = "answered" /\ answer'[d] = answer[d]
      BY <1>5 DEF TakeError, UnderWay, HttpTypeOK
    <2> QED
      BY <2>1 DEF Newer
  <1>6. CASE UNCHANGED httpVars
    BY <1>6 DEF httpVars, Newer, UnderWay
  <1> QED
    BY <1>1, <1>2, <1>3, <1>4, <1>5, <1>6
    DEF HttpNext, Advance, Post, ListMethods, CallFails, MethodsFails

LEMMA ContextStep ==
  HttpTypeOK /\ Newer /\ [HttpNext]_httpVars => [~overlapped' => context' >= context]_httpVars
  <1> SUFFICES ASSUME HttpTypeOK, Newer, HttpNext, ~overlapped' PROVE context' >= context
    OBVIOUS
  <1>0. context \in Nat
    BY DEF HttpTypeOK
  <1>1. ASSUME NEW c \in Posts, Take(c) PROVE context' >= context
    BY <1>0, <1>1 DEF Take, Newer
  <1>2. ASSUME NEW c \in Posts, First(c) \/ Serve(c) \/ Fail(c) \/ PostAgain(c) \/ TakeError(c)
        PROVE  context' >= context
    BY <1>0, <1>2 DEF First, Serve, Fail, PostAgain, TakeError
  <1> QED
    BY <1>1, <1>2 DEF HttpNext, Advance, Post, ListMethods, CallFails, MethodsFails

\* While calls follow one another, no context that has arrived is replaced by an
\* older one or dropped, in spite of retries that run a call twice (updateContext).
THEOREM ContextsLatest == HttpSpec => ContextIsLatest
  <1>1. HttpInit => Newer
    BY DEF HttpInit, Newer, UnderWay
  <1>2. CountInv => HttpTypeOK
    BY DEF CountInv
  <1> QED
    BY <1>1, <1>2, CountAlways, NewerStep, ContextStep, PTL DEF HttpSpec, ContextIsLatest

HIDE HttpAssumption

-----------------------------------------------------------------------------
(* The cache of items, and delayAction *)

USE CacheAssumption

Batch == [items : SUBSET Wanted, st : {"asked", "done", "stuck"}]

\* The shape of the state: what is gathered or asked for is kept by the cache, and a
\* timer runs exactly while something is gathered.
Shape ==
    /\ strict \in BOOLEAN /\ kept \subseteq Wanted /\ settled \subseteq kept
    /\ map \subseteq kept /\ batches \in Seq(Batch)
    /\ timer <=> map # {}
    /\ \A b \in DOMAIN batches : batches[b].items \subseteq kept

\* An item is gathered, asked for, stuck in a batch that failed, or settled.
Carried ==
    \A i \in kept :
        i \in settled \cup map
        \/ \E b \in DOMAIN batches : i \in batches[b].items /\ batches[b].st \in {"asked", "stuck"}

\* The timer of delayAction has the arguments of the last call that waits.
LastOfAll ==
    /\ execs \in Nat /\ delay \in 0 .. execs /\ deferred \subseteq 1 .. execs
    /\ deferred # {} => delay \in deferred /\ \A d \in deferred : d <= delay

CacheInv == Shape /\ AskedOnce /\ Carried
DataInv == CacheInv /\ LastOfAll

-----------------------------------------------------------------------------
LEMMA DataStart == DataInit => DataInv
  BY DEF DataInit, DataInv, CacheInv, Shape, AskedOnce, Carried, LastOfAll, Batch

LEMMA ResolveKeeps == ASSUME CacheInv, NEW i \in Wanted, Resolve(i) PROVE CacheInv'
  <1>1. /\ i \notin kept /\ kept' = kept \cup {i} /\ map' = map \cup {i} /\ timer' = TRUE
        /\ batches' = batches /\ settled' = settled /\ strict' = strict
    BY DEF Resolve
  <1>2. Shape'
    BY <1>1 DEF CacheInv, Shape
  <1>3. AskedOnce'
    BY <1>1 DEF CacheInv, Shape, AskedOnce
  <1>4. Carried'
    BY <1>1 DEF CacheInv, Carried
  <1> QED
    BY <1>2, <1>3, <1>4 DEF CacheInv

LEMMA FireKeeps == ASSUME CacheInv, Fire PROVE CacheInv'
  <1> DEFINE new == [items |-> map, st |-> "asked"]
  <1>1. /\ map' = {} /\ timer' = FALSE /\ batches' = Append(batches, new)
        /\ kept' = kept /\ settled' = settled /\ strict' = strict
    BY DEF Fire
  <1>2. /\ batches' \in Seq(Batch) /\ DOMAIN batches' = DOMAIN batches \cup {Len(batches) + 1}
        /\ Len(batches) + 1 \notin DOMAIN batches
        /\ batches'[Len(batches) + 1] = new
        /\ \A b \in DOMAIN batches : batches'[b] = batches[b]
    BY <1>1 DEF CacheInv, Shape, Batch
  <1>3. Shape'
    BY <1>1, <1>2 DEF CacheInv, Shape
  <1>4. AskedOnce'
    BY <1>1, <1>2 DEF CacheInv, AskedOnce
  <1>5. Carried'
    <2> SUFFICES ASSUME NEW i \in kept, i \notin settled
                 PROVE  \E b \in DOMAIN batches' :
                            i \in batches'[b].items /\ batches'[b].st \in {"asked", "stuck"}
      BY <1>1 DEF Carried
    <2>1. CASE i \in map
      BY <1>2, <2>1
    <2>2. CASE i \notin map
      BY <1>2, <2>2 DEF CacheInv, Carried
    <2> QED
      BY <2>1, <2>2
  <1> QED
    BY <1>3, <1>4, <1>5 DEF CacheInv

LEMMA ArriveKeeps ==
  ASSUME CacheInv, NEW b \in DOMAIN batches, NEW ok \in BOOLEAN, Arrive(b, ok)
  PROVE  CacheInv'
  <1>0. /\ map' = map /\ timer' = timer /\ kept' = kept /\ strict' = strict
    BY DEF Arrive
  <1>1. PICK st \in {"done", "stuck"} :
          /\ batches' = [batches EXCEPT ![b].st = st]
          /\ settled' = IF st = "done" THEN settled \cup batches[b].items ELSE settled
    BY DEF Arrive
  <1>2. /\ DOMAIN batches' = DOMAIN batches
        /\ batches'[b] = [batches[b] EXCEPT !.st = st]
        /\ \A d \in DOMAIN batches \ {b} : batches'[d] = batches[d]
    BY <1>1 DEF CacheInv, Shape, Batch
  <1>3. batches[b] \in Batch
    BY DEF CacheInv, Shape
  <1>4. /\ batches'[b].items = batches[b].items /\ batches'[b].st = st
        /\ batches'[b] \in Batch
    BY <1>2, <1>3 DEF Batch
  <1>5. \A d \in DOMAIN batches : batches'[d].items = batches[d].items
    BY <1>2, <1>4
  <1>6. batches' \in Seq(Batch)
    <2>1. batches' = [batches EXCEPT ![b] = batches'[b]]
      BY <1>1, <1>2 DEF CacheInv, Shape
    <2> QED
      BY <2>1, <1>4 DEF CacheInv, Shape
  <1>7. Shape'
    BY <1>0, <1>1, <1>2, <1>5, <1>6 DEF CacheInv, Shape
  <1>8. AskedOnce'
    BY <1>0, <1>2, <1>5 DEF CacheInv, AskedOnce
  <1>9. Carried'
    <2> SUFFICES ASSUME NEW i \in kept, i \notin settled' \cup map
                 PROVE  \E d \in DOMAIN batches' :
                            i \in batches'[d].items /\ batches'[d].st \in {"asked", "stuck"}
      BY <1>0 DEF Carried
    <2>1. PICK d \in DOMAIN batches :
            i \in batches[d].items /\ batches[d].st \in {"asked", "stuck"}
      BY <1>1 DEF CacheInv, Carried
    <2>2. d # b \/ st = "stuck"
      BY <1>1, <2>1
    <2> QED
      BY <1>2, <1>4, <1>5, <2>1, <2>2
  <1> QED
    BY <1>7, <1>8, <1>9 DEF CacheInv

LEMMA DelayKeeps == ASSUME LastOfAll, Exec \/ Elapse PROVE LastOfAll'
  <1>1. CASE Exec
    BY <1>1 DEF Exec, LastOfAll
  <1>2. CASE Elapse
    BY <1>2 DEF Elapse, LastOfAll
  <1> QED
    BY <1>1, <1>2

LEMMA DataStep == DataInv /\ [DataNext]_dataVars => DataInv'
  <1> SUFFICES ASSUME CacheInv, LastOfAll, [DataNext]_dataVars PROVE CacheInv' /\ LastOfAll'
    BY DEF DataInv
  <1>1. ASSUME UNCHANGED delayVars PROVE LastOfAll'
    BY <1>1 DEF delayVars, LastOfAll
  <1>2. ASSUME UNCHANGED cacheVars PROVE CacheInv'
    BY <1>2 DEF cacheVars, CacheInv, Shape, AskedOnce, Carried
  <1>3. ASSUME NEW i \in Wanted, Resolve(i) PROVE CacheInv' /\ LastOfAll'
    BY <1>1, <1>3, ResolveKeeps DEF Resolve, delayVars
  <1>4. CASE Fire
    BY <1>1, <1>4, FireKeeps DEF Fire, delayVars
  <1>5. ASSUME NEW b \in DOMAIN batches, NEW ok \in BOOLEAN, Arrive(b, ok)
        PROVE  CacheInv' /\ LastOfAll'
    BY <1>1, <1>5, ArriveKeeps DEF Arrive, delayVars
  <1>6. CASE Exec \/ Elapse
    BY <1>2, <1>6, DelayKeeps DEF Exec, Elapse, cacheVars
  <1>7. CASE UNCHANGED dataVars
    BY <1>1, <1>2, <1>7 DEF dataVars
  <1> QED
    BY <1>3, <1>4, <1>5, <1>6, <1>7 DEF DataNext

LEMMA LastIsMax == LastOfAll => LastCallRuns
  <1> SUFFICES ASSUME LastOfAll, deferred # {} PROVE delay = Max(deferred)
    BY DEF LastCallRuns
  <1>1. /\ delay \in deferred /\ \A d \in deferred : d <= delay
        /\ deferred \subseteq Int
    BY DEF LastOfAll
  <1>2. \A x \in deferred : (\A y \in deferred : x >= y) => x = delay
    BY <1>1
  <1> QED
    BY <1>1, <1>2 DEF Max

LEMMA CarriedIsWaited == CacheInv => WaitingIsCarried
  <1> SUFFICES ASSUME CacheInv, NEW i \in kept, i \notin settled, ~(timer /\ i \in map)
               PROVE  i \in Asked \cup Stuck
    BY DEF WaitingIsCarried
  <1>1. i \notin map
    BY DEF CacheInv, Shape
  <1>2. PICK b \in DOMAIN batches :
          i \in batches[b].items /\ (batches[b].st = "asked" \/ batches[b].st = "stuck")
    BY <1>1 DEF CacheInv, Carried
  <1> QED
    BY <1>2 DEF Asked, Stuck

\* Whatever is asked, answered, failed or deferred, in any order: no item is asked
\* for twice, nobody waits without a timer or an answer, and the last call's
\* arguments are those that are used (resolver, Cache, delayAction).
THEOREM NothingInVain == DataSpec => []ItemsCarried
  <1>1. DataInv => ItemsCarried
    BY LastIsMax, CarriedIsWaited DEF DataInv, CacheInv, ItemsCarried
  <1> QED
    BY <1>1, DataStart, DataStep, PTL DEF DataSpec

-----------------------------------------------------------------------------
(* Documents: recursion on their depth *)

LEMMA NestedIs ==
  ASSUME NEW L
  PROVE  /\ Nested(L)[0] = L
         /\ \A n \in Nat : Nested(L)[n + 1] = L \cup Holders(Nested(L)[n])
<1> DEFINE Upto(m, g) == g = [n \in 0 .. m |-> IF n = 0 THEN L ELSE L \cup Holders(g[n - 1])]
           Rec(g) == g = [n \in Nat |-> IF n = 0 THEN L ELSE L \cup Holders(g[n - 1])]
           G == {m \in Nat : \E g : Upto(m, g)}
           iter == CHOOSE g : Rec(g)
<1>1. 0 \in G
  <2> DEFINE g == [n \in 0 .. 0 |-> L]
  <2>1. \A n \in 0 .. 0 : n = 0
    OBVIOUS
  <2>2. Upto(0, g)
    BY <2>1
  <2> QED
    BY <2>2
<1>2. ASSUME NEW m \in Nat, m \in G PROVE m + 1 \in G
  <2>1. PICK g : Upto(m, g)
    BY <1>2
  <2> DEFINE h == [n \in 0 .. m + 1 |-> IF n = m + 1 THEN L \cup Holders(g[m]) ELSE g[n]]
  <2>2. \A n \in 0 .. m + 1 : n = m + 1 \/ n \in 0 .. m
    OBVIOUS
  <2>3. ASSUME NEW n \in 0 .. m + 1
        PROVE  h[n] = IF n = 0 THEN L ELSE L \cup Holders(h[n - 1])
    <3>1. CASE n = m + 1
      <4>1. n # 0 /\ n - 1 = m /\ m \in 0 .. m /\ m \in 0 .. m + 1 /\ m # m + 1
        BY <3>1
      <4>2. h[n] = L \cup Holders(g[m]) /\ h[m] = g[m]
        BY <3>1, <4>1
      <4> QED
        BY <3>1, <4>1, <4>2
    <3>2. CASE n \in 0 .. m
      <4>1. n # m + 1 /\ (n # 0 => n - 1 \in 0 .. m /\ n - 1 \in 0 .. m + 1 /\ n - 1 # m + 1)
        BY <3>2
      <4>2. h[n] = g[n] /\ (n # 0 => h[n - 1] = g[n - 1])
        BY <4>1
      <4>3. g[n] = IF n = 0 THEN L ELSE L \cup Holders(g[n - 1])
        BY <2>1, <3>2
      <4> QED
        BY <4>2, <4>3
    <3> QED
      BY <2>2, <3>1, <3>2
  <2>4. h = [n \in 0 .. m + 1 |-> h[n]]
    OBVIOUS
  <2> HIDE DEF h
  <2>5. Upto(m + 1, h)
    BY <2>3, <2>4
  <2> QED
    BY <2>5
<1>3. \A m \in Nat : \E g : Upto(m, g)
  <2>1. \A m \in Nat : m \in G
    <3> HIDE DEF G
    <3> QED
      BY <1>1, <1>2, NatSetInduction
  <2> QED
    BY <2>1
<1> DEFINE at == [m \in Nat |-> CHOOSE g : Upto(m, g)]
           f == [m \in Nat |-> at[m][m]]
<1>4. \A m \in Nat : Upto(m, at[m])
  <2> HIDE DEF Upto
  <2> QED
    BY <1>3
<1> HIDE DEF at
<1>5. \A m \in Nat : at[m + 1][m] = at[m][m]
  <2> TAKE m \in Nat
  <2> DEFINE H == {n \in Nat : n \in 0 .. m => at[m + 1][n] = at[m][n]}
  <2>0. /\ \A n \in 0 .. m : at[m][n] = IF n = 0 THEN L ELSE L \cup Holders(at[m][n - 1])
        /\ \A n \in 0 .. m + 1 :
             at[m + 1][n] = IF n = 0 THEN L ELSE L \cup Holders(at[m + 1][n - 1])
    <3>1. Upto(m, at[m]) /\ Upto(m + 1, at[m + 1])
      <4>1. m + 1 \in Nat
        OBVIOUS
      <4> HIDE DEF Upto
      <4> QED
        BY <1>4, <4>1
    <3> QED
      BY <3>1
  <2>1. 0 \in H
    <3>1. 0 \in 0 .. m /\ 0 \in 0 .. m + 1
      OBVIOUS
    <3>2. at[m][0] = L /\ at[m + 1][0] = L
      BY <2>0, <3>1
    <3> QED
      BY <3>2
  <2>2. ASSUME NEW n \in Nat, n \in H PROVE n + 1 \in H
    <3> SUFFICES ASSUME n + 1 \in 0 .. m PROVE at[m + 1][n + 1] = at[m][n + 1]
      OBVIOUS
    <3>1. n \in 0 .. m /\ n + 1 \in 0 .. m + 1 /\ n + 1 # 0 /\ (n + 1) - 1 = n
      OBVIOUS
    <3> QED
      BY <2>0, <2>2, <3>1
  <2>3. \A n \in Nat : n \in H
    <3> HIDE DEF H
    <3> QED
      BY <2>1, <2>2, NatSetInduction
  <2> QED
    BY <2>3
<1>6. ASSUME NEW n \in Nat
      PROVE  f[n] = IF n = 0 THEN L ELSE L \cup Holders(f[n - 1])
  <2>1. Upto(n, at[n]) /\ n \in 0 .. n
    BY <1>4
  <2>2. at[n][n] = IF n = 0 THEN L ELSE L \cup Holders(at[n][n - 1])
    BY <2>1
  <2>3. CASE n = 0
    BY <2>2, <2>3
  <2>4. CASE n # 0
    <3>1. n - 1 \in Nat /\ (n - 1) + 1 = n
      BY <2>4
    <3>2. at[n][n - 1] = at[n - 1][n - 1]
      BY <1>5, <3>1
    <3> QED
      BY <2>2, <2>4, <3>1, <3>2
  <2> QED
    BY <2>3, <2>4
<1>7. f = [n \in Nat |-> f[n]]
  OBVIOUS
<1> HIDE DEF f
<1>8. Rec(f)
  BY <1>6, <1>7
<1> HIDE DEF Rec
<1>9. Rec(iter)
  BY <1>8
<1>10. Nested(L) = iter
  BY DEF Nested, Rec
<1> HIDE DEF iter
<1>11. \A n \in Nat : iter[n] = IF n = 0 THEN L ELSE L \cup Holders(iter[n - 1])
  BY <1>9 DEF Rec
<1>12. \A n \in Nat : n + 1 \in Nat /\ n + 1 # 0 /\ (n + 1) - 1 = n
  OBVIOUS
<1> QED
  BY <1>10, <1>11, <1>12

-----------------------------------------------------------------------------
(* Documents and differences *)

LEMMA Levels ==
  /\ Doc(0) = Leaves /\ \A n \in Nat : Doc(n + 1) = Leaves \cup Holders(Doc(n))
  /\ Tree(0) = Leaves \cup {Deleted}
  /\ \A n \in Nat : Tree(n + 1) = Leaves \cup {Deleted} \cup Holders(Tree(n))
<1> HIDE DEF Leaves, Deleted
<1>1. /\ Nested(Leaves)[0] = Leaves
      /\ \A n \in Nat : Nested(Leaves)[n + 1] = Leaves \cup Holders(Nested(Leaves)[n])
  BY NestedIs
<1> DEFINE L == Leaves \cup {Deleted}
<1> HIDE DEF L
<1>2. Nested(L)[0] = L /\ \A n \in Nat : Nested(L)[n + 1] = L \cup Holders(Nested(L)[n])
  BY NestedIs
<1> QED
  BY <1>1, <1>2 DEF Doc, Tree, L

LEMMA LeafIs ==
  ASSUME NEW x \in Leaves \cup {Deleted}
  PROVE  IsLeaf(x) /\ ~IsObject(x) /\ x # Undefined
BY DEF Leaves, Deleted, Null, Num, IsLeaf, IsObject, Undefined

LEMMA DeletedIsNone == Deleted \notin Leaves /\ IsLeaf(Deleted) /\ ~IsObject(Deleted)
BY DEF Leaves, Deleted, Null, Num, IsLeaf, IsObject

\* What a document with values in S is made of.
Made(x, S) ==
    /\ ~IsLeaf(x) /\ x # Undefined /\ x # Deleted
    /\ x.keys \in Seq(KeyNames) /\ IsInjective(x.keys) /\ KeySet(x) \subseteq KeyNames
    /\ \A k \in KeySet(x) : x.at[k] \in S /\ x.at[k] # Undefined
    /\ \A k \in KeyNames : k \notin KeySet(x) => x.at[k] = Undefined

LEMMA HolderIs == ASSUME NEW S, NEW x \in Holders(S) PROVE Made(x, S)
<1>1. /\ x.t \in {"array", "object"} /\ x.keys \in Seq(KeyNames)
      /\ x.at \in [KeyNames -> S \cup {Undefined}] /\ IsInjective(x.keys)
      /\ \A k \in KeyNames : k \in KeySet(x) <=> x.at[k] # Undefined
  BY DEF Holders
<1>2. ~IsLeaf(x) /\ x # Undefined /\ x # Deleted
  BY <1>1 DEF IsLeaf, Undefined, Deleted
<1>3. KeySet(x) \subseteq KeyNames
  BY <1>1 DEF KeySet, ToSet
<1> QED
  BY <1>1, <1>2, <1>3 DEF Made

LEMMA HolderMakes ==
  ASSUME NEW S, NEW ks \in Seq(KeyNames), IsInjective(ks), NEW f,
         \A k \in ToSet(ks) : f[k] \in S /\ f[k] # Undefined,
         NEW x, x = Holder("object", ks, f)
  PROVE  x \in Objs(S) /\ x.keys = ks /\ \A k \in ToSet(ks) : x.at[k] = f[k]
<1> DEFINE m == [k \in KeyNames |-> IF Contains(ks, k) THEN f[k] ELSE Undefined]
<1>1. x = [t |-> "object", keys |-> ks, at |-> m]
  BY DEF Holder
<1>2. \A k \in KeyNames : Contains(ks, k) <=> k \in ToSet(ks)
  BY DEF Contains, ToSet
<1>3. ToSet(ks) \subseteq KeyNames
  BY DEF ToSet
<1>4. /\ m \in [KeyNames -> S \cup {Undefined}]
      /\ \A k \in KeyNames : k \in ToSet(ks) <=> m[k] # Undefined
      /\ \A k \in ToSet(ks) : m[k] = f[k]
  BY <1>2, <1>3
<1> HIDE DEF m
<1>5. x \in [t : {"array", "object"}, keys : Seq(KeyNames), at : [KeyNames -> S \cup {Undefined}]]
  BY <1>1, <1>4
<1>6. x.t = "object" /\ x.keys = ks /\ x.at = m
  BY <1>1
<1> QED
  BY <1>4, <1>5, <1>6 DEF Objs, Holders, IsObject, KeySet

LEMMA HoldersGrow == ASSUME NEW S, NEW R, S \subseteq R PROVE Holders(S) \subseteq Holders(R)
BY DEF Holders

LEMMA DocInTree == \A n \in Nat : Doc(n) \subseteq Tree(n)
<1> DEFINE G == {n \in Nat : Doc(n) \subseteq Tree(n)}
<1>1. 0 \in G
  BY Levels
<1>2. ASSUME NEW m \in Nat, m \in G PROVE m + 1 \in G
  <2>1. Holders(Doc(m)) \subseteq Holders(Tree(m))
    BY <1>2, HoldersGrow
  <2> QED
    BY <2>1, Levels
<1>3. \A n \in Nat : n \in G
  <2> HIDE DEF G
  <2> QED
    BY <1>1, <1>2, NatSetInduction
<1> QED
  BY <1>3

\* A document n deep is a leaf, or has values n - 1 deep.
LEMMA DocIs ==
  ASSUME NEW n \in Nat, NEW x \in Doc(n)
  PROVE  x \in Leaves \/ (n # 0 /\ x \in Holders(Doc(n - 1)))
<1>1. CASE n = 0
  BY <1>1, Levels
<1>2. CASE n # 0
  <2>1. n - 1 \in Nat /\ (n - 1) + 1 = n
    BY <1>2
  <2>2. Doc(n) = Leaves \cup Holders(Doc(n - 1))
    BY <2>1, Levels
  <2> QED
    BY <1>2, <2>2
<1> QED
  BY <1>1, <1>2

LEMMA TreeIs ==
  ASSUME NEW n \in Nat, NEW x \in Tree(n)
  PROVE  x \in Leaves \cup {Deleted} \/ (n # 0 /\ x \in Holders(Tree(n - 1)))
<1>1. CASE n = 0
  BY <1>1, Levels
<1>2. CASE n # 0
  <2>1. n - 1 \in Nat /\ (n - 1) + 1 = n
    BY <1>2
  <2>2. Tree(n) = Leaves \cup {Deleted} \cup Holders(Tree(n - 1))
    BY <2>1, Levels
  <2> QED
    BY <1>2, <2>2
<1> QED
  BY <1>1, <1>2

\* Of those which are an object or not there is nothing else.
LEMMA ObjectIs ==
  ASSUME NEW n \in Nat, NEW x, IsObject(x)
  PROVE  /\ x \in Doc(n) => n # 0 /\ x \in Objs(Doc(n - 1))
         /\ x \in Tree(n) => n # 0 /\ x \in Objs(Tree(n - 1))
<1>1. x \notin Leaves \cup {Deleted}
  BY LeafIs
<1> QED
  BY <1>1, DocIs, TreeIs DEF Objs

-----------------------------------------------------------------------------
(* isEqual and alike *)

LEMMA IsEqualIs ==
  \A n \in Nat :
    isEqual[n] = [u \in Doc(n) \X Doc(n) |->
      EqualStep(IF n = 0 THEN <<>> ELSE isEqual[n - 1], u[1], u[2])]
<1> DEFINE Body(f, n) == [u \in Doc(n) \X Doc(n) |->
             EqualStep(IF n = 0 THEN <<>> ELSE f[n - 1], u[1], u[2])]
           Rec(f) == f = [n \in Nat |-> Body(f, n)]
           iter == CHOOSE f : Rec(f)
           T == [n \in Nat |-> [Doc(n) \X Doc(n) -> BOOLEAN]]
           base == [u \in Doc(0) \X Doc(0) |-> EqualStep(<<>>, u[1], u[2])]
           F == [n \in Nat |-> [g \in T[n] |->
                   [u \in Doc(n + 1) \X Doc(n + 1) |-> EqualStep(g, u[1], u[2])]]]
<1>1. base \in T[0]
  BY DEF EqualStep
<1>2. \A n \in Nat : F[n] \in [T[n] -> T[n + 1]]
  <2> TAKE n \in Nat
  <2>0. n + 1 \in Nat /\ T[n + 1] = [Doc(n + 1) \X Doc(n + 1) -> BOOLEAN]
    OBVIOUS
  <2>1. ASSUME NEW g \in T[n]
        PROVE  [u \in Doc(n + 1) \X Doc(n + 1) |-> EqualStep(g, u[1], u[2])] \in T[n + 1]
    <3>1. \A x, y : EqualStep(g, x, y) \in BOOLEAN
      BY DEF EqualStep
    <3> QED
      BY <2>0, <3>1
  <2>2. F[n] = [g \in T[n] |-> [u \in Doc(n + 1) \X Doc(n + 1) |->
                                EqualStep(g, u[1], u[2])]]
    OBVIOUS
  <2> HIDE DEF T, F
  <2> QED
    BY <2>1, <2>2
<1> HIDE DEF base, T, F
<1>3. PICK f : /\ f = [n \in Nat |-> IF n = 0 THEN base ELSE F[n - 1][f[n - 1]]]
               /\ \A n \in Nat : f[n] \in T[n]
  BY <1>1, <1>2, RecursionExists
<1>4. \A n \in Nat : f[n] = Body(f, n)
  <2> TAKE n \in Nat
  <2>1. f[n] = IF n = 0 THEN base ELSE F[n - 1][f[n - 1]]
    BY <1>3
  <2>2. CASE n = 0
    BY <2>1, <2>2 DEF base
  <2>3. CASE n # 0
    <3>1. n - 1 \in Nat /\ (n - 1) + 1 = n /\ f[n - 1] \in T[n - 1]
      BY <1>3, <2>3
    <3>2. F[n - 1][f[n - 1]] = [u \in Doc(n) \X Doc(n) |-> EqualStep(f[n - 1], u[1], u[2])]
      BY <3>1 DEF F
    <3> QED
      BY <2>1, <2>3, <3>2
  <2> QED
    BY <2>2, <2>3
<1>5. Rec(f)
  <2>1. f = [n \in Nat |-> f[n]]
    BY <1>3
  <2> HIDE DEF Body
  <2> QED
    BY <1>4, <2>1
<1>6. isEqual = iter
  BY DEF isEqual
<1> HIDE DEF Rec
<1>7. Rec(iter)
  BY <1>5
<1> HIDE DEF iter
<1> QED
  BY <1>6, <1>7 DEF Rec

LEMMA AlikeIs ==
  \A n \in Nat :
    alike[n] = [u \in Tree(n) \X Tree(n) |->
      AlikeStep(IF n = 0 THEN <<>> ELSE alike[n - 1], u[1], u[2])]
<1> DEFINE Body(f, n) == [u \in Tree(n) \X Tree(n) |->
             AlikeStep(IF n = 0 THEN <<>> ELSE f[n - 1], u[1], u[2])]
           Rec(f) == f = [n \in Nat |-> Body(f, n)]
           iter == CHOOSE f : Rec(f)
           T == [n \in Nat |-> [Tree(n) \X Tree(n) -> BOOLEAN]]
           base == [u \in Tree(0) \X Tree(0) |-> AlikeStep(<<>>, u[1], u[2])]
           F == [n \in Nat |-> [g \in T[n] |->
                   [u \in Tree(n + 1) \X Tree(n + 1) |-> AlikeStep(g, u[1], u[2])]]]
<1>1. base \in T[0]
  BY DEF AlikeStep
<1>2. \A n \in Nat : F[n] \in [T[n] -> T[n + 1]]
  <2> TAKE n \in Nat
  <2>0. n + 1 \in Nat /\ T[n + 1] = [Tree(n + 1) \X Tree(n + 1) -> BOOLEAN]
    OBVIOUS
  <2>1. ASSUME NEW g \in T[n]
        PROVE  [u \in Tree(n + 1) \X Tree(n + 1) |-> AlikeStep(g, u[1], u[2])] \in T[n + 1]
    <3>1. \A x, y : AlikeStep(g, x, y) \in BOOLEAN
      BY DEF AlikeStep
    <3> QED
      BY <2>0, <3>1
  <2>2. F[n] = [g \in T[n] |-> [u \in Tree(n + 1) \X Tree(n + 1) |->
                                AlikeStep(g, u[1], u[2])]]
    OBVIOUS
  <2> HIDE DEF T, F
  <2> QED
    BY <2>1, <2>2
<1> HIDE DEF base, T, F
<1>3. PICK f : /\ f = [n \in Nat |-> IF n = 0 THEN base ELSE F[n - 1][f[n - 1]]]
               /\ \A n \in Nat : f[n] \in T[n]
  BY <1>1, <1>2, RecursionExists
<1>4. \A n \in Nat : f[n] = Body(f, n)
  <2> TAKE n \in Nat
  <2>1. f[n] = IF n = 0 THEN base ELSE F[n - 1][f[n - 1]]
    BY <1>3
  <2>2. CASE n = 0
    BY <2>1, <2>2 DEF base
  <2>3. CASE n # 0
    <3>1. n - 1 \in Nat /\ (n - 1) + 1 = n /\ f[n - 1] \in T[n - 1]
      BY <1>3, <2>3
    <3>2. F[n - 1][f[n - 1]] = [u \in Tree(n) \X Tree(n) |-> AlikeStep(f[n - 1], u[1], u[2])]
      BY <3>1 DEF F
    <3> QED
      BY <2>1, <2>3, <3>2
  <2> QED
    BY <2>2, <2>3
<1>5. Rec(f)
  <2>1. f = [n \in Nat |-> f[n]]
    BY <1>3
  <2> HIDE DEF Body
  <2> QED
    BY <1>4, <2>1
<1>6. alike = iter
  BY DEF alike
<1> HIDE DEF Rec
<1>7. Rec(iter)
  BY <1>5
<1> HIDE DEF iter
<1> QED
  BY <1>6, <1>7 DEF Rec

LEMMA EqualValue ==
  ASSUME NEW n \in Nat, NEW x \in Doc(n), NEW y \in Doc(n)
  PROVE  isEqual[n][<<x, y>>] = EqualStep(IF n = 0 THEN <<>> ELSE isEqual[n - 1], x, y)
<1> DEFINE D == Doc(n) \X Doc(n)
           below == IF n = 0 THEN <<>> ELSE isEqual[n - 1]
<1>1. isEqual[n] = [u \in D |-> EqualStep(below, u[1], u[2])]
  BY IsEqualIs
<1>2. <<x, y>> \in D
  OBVIOUS
<1> HIDE DEF D, below
<1>3. isEqual[n][<<x, y>>] = EqualStep(below, x, y)
  BY <1>1, <1>2
<1> QED
  BY <1>3 DEF below

LEMMA AlikeValue ==
  ASSUME NEW n \in Nat, NEW x \in Tree(n), NEW y \in Tree(n)
  PROVE  alike[n][<<x, y>>] = AlikeStep(IF n = 0 THEN <<>> ELSE alike[n - 1], x, y)
<1> DEFINE D == Tree(n) \X Tree(n)
           below == IF n = 0 THEN <<>> ELSE alike[n - 1]
<1>1. alike[n] = [u \in D |-> AlikeStep(below, u[1], u[2])]
  BY AlikeIs
<1>2. <<x, y>> \in D
  OBVIOUS
<1> HIDE DEF D, below
<1>3. alike[n][<<x, y>>] = AlikeStep(below, x, y)
  BY <1>1, <1>2
<1> QED
  BY <1>3 DEF below

\* Documents with values are alike if they have the same keys and alike values.
LEMMA AlikeHolders ==
  ASSUME NEW n \in Nat, NEW x \in Holders(Tree(n)), NEW y \in Holders(Tree(n)),
         KeySet(x) = KeySet(y), \A k \in KeySet(x) : alike[n][<<x.at[k], y.at[k]>>]
  PROVE  alike[n + 1][<<x, y>>]
<1>1. x \in Tree(n + 1) /\ y \in Tree(n + 1)
  BY Levels
<1>2. n + 1 \in Nat /\ n + 1 # 0 /\ (n + 1) - 1 = n
  OBVIOUS
<1>3. alike[n + 1][<<x, y>>] = AlikeStep(IF n + 1 = 0 THEN <<>> ELSE alike[(n + 1) - 1], x, y)
  BY <1>1, <1>2, AlikeValue
<1>4. Made(x, Tree(n)) /\ Made(y, Tree(n))
  BY HolderIs
<1>5. alike[n + 1][<<x, y>>] = AlikeStep(alike[n], x, y)
  BY <1>2, <1>3
<1>6. AlikeStep(alike[n], x, y)
  BY <1>4 DEF AlikeStep, Made
<1> QED
  BY <1>5, <1>6

LEMMA AlikeLeaf ==
  ASSUME NEW n \in Nat, NEW x \in Tree(n), IsLeaf(x)
  PROVE  alike[n][<<x, x>>]
<1>1. alike[n][<<x, x>>] = AlikeStep(IF n = 0 THEN <<>> ELSE alike[n - 1], x, x)
  BY AlikeValue
<1>2. \A g : AlikeStep(g, x, x)
  BY DEF AlikeStep
<1> QED
  BY <1>1, <1>2

LEMMA AlikeSelf == \A n \in Nat : \A x \in Tree(n) : alike[n][<<x, x>>]
<1> DEFINE G == {n \in Nat : \A x \in Tree(n) : alike[n][<<x, x>>]}
<1>1. 0 \in G
  <2>1. ASSUME NEW x \in Tree(0) PROVE alike[0][<<x, x>>]
    <3>1. IsLeaf(x)
      BY Levels, LeafIs
    <3> QED
      BY <3>1, AlikeLeaf
  <2> QED
    BY <2>1
<1>2. ASSUME NEW m \in Nat, m \in G PROVE m + 1 \in G
  <2>1. ASSUME NEW x \in Tree(m + 1) PROVE alike[m + 1][<<x, x>>]
    <3>1. CASE x \in Leaves \cup {Deleted}
      <4>1. IsLeaf(x) /\ m + 1 \in Nat
        BY <3>1, LeafIs
      <4> QED
        BY <4>1, AlikeLeaf
    <3>2. CASE x \in Holders(Tree(m))
      <4>1. \A k \in KeySet(x) : x.at[k] \in Tree(m)
        BY <3>2, HolderIs DEF Made
      <4>2. \A k \in KeySet(x) : alike[m][<<x.at[k], x.at[k]>>]
        BY <1>2, <4>1
      <4> QED
        BY <3>2, <4>2, AlikeHolders
    <3> QED
      BY <3>1, <3>2, Levels
  <2> QED
    BY <2>1
<1>3. \A n \in Nat : n \in G
  <2> HIDE DEF G
  <2> QED
    BY <1>1, <1>2, NatSetInduction
<1> QED
  BY <1>3

\* isEqual and alike agree on documents n deep.
EqualAt(n) ==
    \A x, y \in Doc(n) : /\ isEqual[n][<<x, y>>] => alike[n][<<x, y>>]
                         /\ isEqual[n][<<x, x>>]

LEMMA EqualAgrees == \A n \in Nat : EqualAt(n)
<1> DEFINE G == {n \in Nat : EqualAt(n)}
<1>1. ASSUME NEW n \in Nat, NEW x \in Doc(n), NEW y \in Doc(n), IsLeaf(x) \/ IsLeaf(y)
      PROVE  /\ isEqual[n][<<x, y>>] => alike[n][<<x, y>>]
             /\ x = y => isEqual[n][<<x, y>>]
  <2>1. isEqual[n][<<x, y>>] = EqualStep(IF n = 0 THEN <<>> ELSE isEqual[n - 1], x, y)
    BY EqualValue
  <2>2. \A g : EqualStep(g, x, y) = (x = y)
    BY <1>1 DEF EqualStep
  <2>3. isEqual[n][<<x, y>>] = (x = y)
    BY <2>1, <2>2
  <2>4. x \in Tree(n)
    BY DocInTree
  <2>5. alike[n][<<x, x>>]
    BY <2>4, AlikeSelf
  <2> QED
    BY <2>3, <2>5
<1>2. 0 \in G
  <2>1. ASSUME NEW x \in Doc(0), NEW y \in Doc(0)
        PROVE  /\ isEqual[0][<<x, y>>] => alike[0][<<x, y>>]
               /\ isEqual[0][<<x, x>>]
    <3>1. IsLeaf(x)
      BY Levels, LeafIs
    <3> QED
      BY <1>1, <3>1
  <2> QED
    BY <2>1 DEF EqualAt
<1>3. ASSUME NEW m \in Nat, m \in G PROVE m + 1 \in G
  <2>0. m + 1 \in Nat /\ m + 1 # 0 /\ (m + 1) - 1 = m
    OBVIOUS
  <2>1. ASSUME NEW x \in Doc(m + 1), NEW y \in Doc(m + 1), ~IsLeaf(x), ~IsLeaf(y)
        PROVE  /\ isEqual[m + 1][<<x, y>>] => alike[m + 1][<<x, y>>]
               /\ x = y => isEqual[m + 1][<<x, y>>]
    <3>1. x \in Holders(Doc(m)) /\ y \in Holders(Doc(m))
      BY <2>0, <2>1, Levels, LeafIs
    <3>2. Made(x, Doc(m)) /\ Made(y, Doc(m))
      BY <3>1, HolderIs
    <3>3. isEqual[m + 1][<<x, y>>] =
            EqualStep(IF m + 1 = 0 THEN <<>> ELSE isEqual[(m + 1) - 1], x, y)
      BY <2>0, EqualValue
    <3>4. isEqual[m + 1][<<x, y>>] =
            (x.keys = y.keys /\ \A k \in KeySet(x) : isEqual[m][<<x.at[k], y.at[k]>>])
      BY <2>0, <2>1, <3>3 DEF EqualStep
    <3>5. ASSUME isEqual[m + 1][<<x, y>>] PROVE alike[m + 1][<<x, y>>]
      <4>1. x.keys = y.keys /\ \A k \in KeySet(x) : isEqual[m][<<x.at[k], y.at[k]>>]
        BY <3>4, <3>5
      <4>2. KeySet(x) = KeySet(y)
        BY <4>1 DEF KeySet
      <4>3. \A k \in KeySet(x) : x.at[k] \in Doc(m) /\ y.at[k] \in Doc(m)
        BY <3>2, <4>2 DEF Made
      <4>4. \A k \in KeySet(x) : alike[m][<<x.at[k], y.at[k]>>]
        BY <1>3, <4>1, <4>3 DEF EqualAt
      <4>5. x \in Holders(Tree(m)) /\ y \in Holders(Tree(m))
        BY <3>1, DocInTree, HoldersGrow
      <4> QED
        BY <4>2, <4>4, <4>5, AlikeHolders
    <3>6. ASSUME x = y PROVE isEqual[m + 1][<<x, y>>]
      <4>1. \A k \in KeySet(x) : x.at[k] \in Doc(m)
        BY <3>2 DEF Made
      <4>2. \A k \in KeySet(x) : isEqual[m][<<x.at[k], x.at[k]>>]
        BY <1>3, <4>1 DEF EqualAt
      <4> QED
        BY <3>4, <3>6, <4>2
    <3> QED
      BY <3>5, <3>6
  <2>2. ASSUME NEW x \in Doc(m + 1), NEW y \in Doc(m + 1)
        PROVE  /\ isEqual[m + 1][<<x, y>>] => alike[m + 1][<<x, y>>]
               /\ x = y => isEqual[m + 1][<<x, y>>]
    <3>1. CASE IsLeaf(x) \/ IsLeaf(y)
      BY <1>1, <2>0, <3>1
    <3>2. CASE ~IsLeaf(x) /\ ~IsLeaf(y)
      BY <2>1, <3>2
    <3> QED
      BY <3>1, <3>2
  <2> QED
    BY <2>0, <2>2 DEF EqualAt
<1>4. \A n \in Nat : n \in G
  <2> HIDE DEF G
  <2> QED
    BY <1>2, <1>3, NatSetInduction
<1> QED
  BY <1>4

-----------------------------------------------------------------------------
(* createDiff *)

\* What DiffStep says key by key.
Both(x, y, k) == IsObject(x.at[k]) /\ IsObject(y.at[k])
Same(below, equal, x, y, k) ==
    IF Both(x, y, k) THEN below[<<x.at[k], y.at[k]>>].keys = <<>> ELSE equal[<<x.at[k], y.at[k]>>]
IsDiff(below, equal, x, y, d) ==
    /\ KeySet(d) = (KeySet(x) \ KeySet(y))
                   \cup {k \in KeySet(y) : k \in KeySet(x) => ~Same(below, equal, x, y, k)}
    /\ \A k \in KeySet(x) \ KeySet(y) : d.at[k] = Deleted
    /\ \A k \in KeySet(d) \cap KeySet(y) :
         d.at[k] = IF Both(x, y, k) THEN below[<<x.at[k], y.at[k]>>] ELSE y.at[k]

LEMMA DiffStepIs ==
  ASSUME NEW n \in Nat, NEW x \in Objs(Doc(n)), NEW y \in Objs(Doc(n)), NEW below, NEW equal,
         \A k \in KeySet(y) : Both(x, y, k) => below[<<x.at[k], y.at[k]>>] \in Tree(n),
         NEW d, d = DiffStep(below, equal, x, y)
  PROVE  d \in Objs(Tree(n)) /\ IsDiff(below, equal, x, y, d)
<1> DEFINE value == [k \in KeyNames |->
                       CASE y.at[k] = Undefined -> Deleted
                         [] Both(x, y, k) -> below[<<x.at[k], y.at[k]>>]
                         [] OTHER -> y.at[k]]
           A == {k \in KeySet(x) \cap KeySet(y) : Same(below, equal, x, y, k)}
           gone == Outside(x.keys, KeySet(y))
           changed == Outside(y.keys, A)
           ks == gone \o changed
<1>1. Made(x, Doc(n)) /\ Made(y, Doc(n))
  BY HolderIs DEF Objs
<1>2. \A k \in KeySet(x) \cap KeySet(y) : k \in KeyNames /\ y.at[k] # Undefined
  BY <1>1 DEF Made
<1>3. {k \in KeySet(x) \cap KeySet(y) :
         IF Both(x, y, k) THEN value[k].keys = <<>> ELSE equal[<<x.at[k], y.at[k]>>]} = A
  BY <1>2 DEF Same
<1>4. DiffStep(below, equal, x, y) = Holder("object", ks, value)
  <2> DEFINE B == {k \in KeySet(x) \cap KeySet(y) :
                     IF Both(x, y, k) THEN value[k].keys = <<>> ELSE equal[<<x.at[k], y.at[k]>>]}
  <2>1. DiffStep(below, equal, x, y) = Holder("object", gone \o Outside(y.keys, B), value)
    BY Zenon DEF DiffStep, Both
  <2> QED
    BY <1>3, <2>1
<1>5. /\ gone \in Seq(KeyNames) /\ IsInjective(gone) /\ ToSet(gone) = KeySet(x) \ KeySet(y)
      /\ changed \in Seq(KeyNames) /\ IsInjective(changed) /\ ToSet(changed) = KeySet(y) \ A
  <2>1. /\ x.keys \in Seq(KeyNames) /\ IsInjective(x.keys)
        /\ y.keys \in Seq(KeyNames) /\ IsInjective(y.keys)
    BY <1>1 DEF Made
  <2> HIDE DEF A
  <2> QED
    BY <2>1, OutsideProperties DEF KeySet
<1> HIDE DEF gone, changed
<1>6. /\ ks \in Seq(KeyNames) /\ IsInjective(ks)
      /\ ToSet(ks) = (KeySet(x) \ KeySet(y)) \cup (KeySet(y) \ A)
  <2>1. ToSet(gone) \cap ToSet(changed) = {}
    BY <1>5
  <2>2. ks \in Seq(KeyNames) /\ IsInjective(ks) /\ ToSet(ks) = ToSet(gone) \cup ToSet(changed)
    BY <1>5, <2>1, JoinedWith
  <2> QED
    BY <1>5, <2>2
<1> HIDE DEF ks
<1>7. ToSet(ks) = (KeySet(x) \ KeySet(y))
                  \cup {k \in KeySet(y) : k \in KeySet(x) => ~Same(below, equal, x, y, k)}
  BY <1>6
<1>8. \A k \in KeySet(x) \ KeySet(y) : k \in KeyNames /\ y.at[k] = Undefined /\ value[k] = Deleted
  <2> TAKE k \in KeySet(x) \ KeySet(y)
  <2>1. k \in KeyNames /\ y.at[k] = Undefined
    BY <1>1 DEF Made
  <2>2. ~Both(x, y, k)
    BY <2>1 DEF Both, IsObject, Undefined
  <2> QED
    BY <2>1, <2>2
<1>9. \A k \in KeySet(y) :
        /\ k \in KeyNames /\ y.at[k] # Undefined /\ y.at[k] \in Doc(n)
        /\ value[k] = IF Both(x, y, k) THEN below[<<x.at[k], y.at[k]>>] ELSE y.at[k]
  BY <1>1 DEF Made
<1> HIDE DEF value
<1>10. \A k \in ToSet(ks) : value[k] \in Tree(n) /\ value[k] # Undefined
  <2>1. \A z \in Tree(n) : z # Undefined
    BY TreeIs, LeafIs, HolderIs DEF Made
  <2>2. Deleted \in Tree(n)
    <3>1. CASE n = 0
      BY <3>1, Levels
    <3>2. CASE n # 0
      <4>1. n - 1 \in Nat /\ (n - 1) + 1 = n
        BY <3>2
      <4> QED
        BY <4>1, Levels
    <3> QED
      BY <3>1, <3>2
  <2>3. \A k \in ToSet(ks) : k \in KeySet(y) \/ k \in KeySet(x) \ KeySet(y)
    BY <1>7
  <2>4. \A k \in KeySet(y) : value[k] \in Tree(n)
    BY <1>9, DocInTree
  <2> QED
    BY <1>8, <2>1, <2>2, <2>3, <2>4
<1>11. d \in Objs(Tree(n)) /\ d.keys = ks /\ \A k \in ToSet(ks) : d.at[k] = value[k]
  BY <1>4, <1>6, <1>10, HolderMakes
<1>12. IsDiff(below, equal, x, y, d)
  <2>1. KeySet(d) = ToSet(ks)
    BY <1>11 DEF KeySet
  <2>2. \A k \in KeySet(x) \ KeySet(y) : d.at[k] = Deleted
    BY <1>7, <1>8, <1>11
  <2>3. \A k \in KeySet(d) \cap KeySet(y) :
          d.at[k] = IF Both(x, y, k) THEN below[<<x.at[k], y.at[k]>>] ELSE y.at[k]
    BY <1>9, <1>11, <2>1
  <2> QED
    BY <1>7, <2>1, <2>2, <2>3 DEF IsDiff
<1> QED
  BY <1>11, <1>12

\* An object under a key of an object is less deep.
LEMMA InsideIs ==
  ASSUME NEW n \in Nat, NEW x, NEW k \in KeyNames, IsObject(x.at[k])
  PROVE  /\ x \in Objs(Doc(n)) => n # 0 /\ k \in KeySet(x) /\ x.at[k] \in Objs(Doc(n - 1))
         /\ x \in Objs(Tree(n)) => n # 0 /\ k \in KeySet(x) /\ x.at[k] \in Objs(Tree(n - 1))
<1>1. ~IsObject(Undefined)
  BY DEF IsObject, Undefined
<1>2. ASSUME x \in Objs(Doc(n)) PROVE n # 0 /\ k \in KeySet(x) /\ x.at[k] \in Objs(Doc(n - 1))
  <2>1. Made(x, Doc(n))
    BY <1>2, HolderIs DEF Objs
  <2>2. k \in KeySet(x) /\ x.at[k] \in Doc(n)
    BY <1>1, <2>1 DEF Made
  <2> QED
    BY <2>2, ObjectIs
<1>3. ASSUME x \in Objs(Tree(n)) PROVE n # 0 /\ k \in KeySet(x) /\ x.at[k] \in Objs(Tree(n - 1))
  <2>1. Made(x, Tree(n))
    BY <1>3, HolderIs DEF Objs
  <2>2. k \in KeySet(x) /\ x.at[k] \in Tree(n)
    BY <1>1, <2>1 DEF Made
  <2> QED
    BY <2>2, ObjectIs
<1> QED
  BY <1>2, <1>3

LEMMA ObjsInTree == \A n \in Nat : n # 0 => Objs(Tree(n - 1)) \subseteq Tree(n)
<1> SUFFICES ASSUME NEW n \in Nat, n # 0 PROVE Holders(Tree(n - 1)) \subseteq Tree(n)
  BY DEF Objs
<1>1. n - 1 \in Nat /\ (n - 1) + 1 = n
  OBVIOUS
<1> QED
  BY <1>1, Levels

\* What PatchStep says key by key.
IsPatch(below, x, df, p) ==
    /\ KeySet(p) = (KeySet(x) \ KeySet(df)) \cup {k \in KeySet(df) : df.at[k] # Deleted}
    /\ \A k \in KeySet(x) \ KeySet(df) : p.at[k] = x.at[k]
    /\ \A k \in KeySet(p) \cap KeySet(df) :
         p.at[k] = IF Both(x, df, k) THEN below[<<x.at[k], df.at[k]>>] ELSE df.at[k]

LEMMA PatchStepIs ==
  ASSUME NEW n \in Nat, NEW x \in Objs(Doc(n)), NEW df \in Objs(Tree(n)), NEW below,
         \A k \in KeySet(df) : Both(x, df, k) => below[<<x.at[k], df.at[k]>>] \in Tree(n),
         NEW p, p = PatchStep(below, x, df)
  PROVE  p \in Objs(Tree(n)) /\ IsPatch(below, x, df, p)
<1> DEFINE value == [k \in KeyNames |->
                       CASE df.at[k] = Undefined -> x.at[k]
                         [] IsObject(x.at[k]) /\ IsObject(df.at[k]) -> below[<<x.at[k], df.at[k]>>]
                         [] OTHER -> df.at[k]]
           A == {k \in KeySet(df) : df.at[k] = Deleted}
           rest == Outside(x.keys, KeySet(df))
           put == Outside(df.keys, A)
           ks == rest \o put
<1>1. Made(x, Doc(n)) /\ Made(df, Tree(n))
  BY HolderIs DEF Objs
<1>4. PatchStep(below, x, df) = Holder("object", ks, value)
  BY Zenon DEF PatchStep
<1>5. /\ rest \in Seq(KeyNames) /\ IsInjective(rest) /\ ToSet(rest) = KeySet(x) \ KeySet(df)
      /\ put \in Seq(KeyNames) /\ IsInjective(put) /\ ToSet(put) = KeySet(df) \ A
  <2>1. /\ x.keys \in Seq(KeyNames) /\ IsInjective(x.keys)
        /\ df.keys \in Seq(KeyNames) /\ IsInjective(df.keys)
    BY <1>1 DEF Made
  <2> HIDE DEF A
  <2> QED
    BY <2>1, OutsideProperties DEF KeySet
<1> HIDE DEF rest, put
<1>6. /\ ks \in Seq(KeyNames) /\ IsInjective(ks)
      /\ ToSet(ks) = (KeySet(x) \ KeySet(df)) \cup (KeySet(df) \ A)
  <2>1. ToSet(rest) \cap ToSet(put) = {}
    BY <1>5
  <2>2. ks \in Seq(KeyNames) /\ IsInjective(ks) /\ ToSet(ks) = ToSet(rest) \cup ToSet(put)
    BY <1>5, <2>1, JoinedWith
  <2> QED
    BY <1>5, <2>2
<1> HIDE DEF ks
<1>7. ToSet(ks) = (KeySet(x) \ KeySet(df)) \cup {k \in KeySet(df) : df.at[k] # Deleted}
  BY <1>6
<1>8. \A k \in KeySet(x) \ KeySet(df) :
        k \in KeyNames /\ value[k] = x.at[k] /\ x.at[k] \in Doc(n)
  <2> TAKE k \in KeySet(x) \ KeySet(df)
  <2>1. k \in KeyNames /\ df.at[k] = Undefined /\ x.at[k] \in Doc(n)
    BY <1>1 DEF Made
  <2>2. ~IsObject(df.at[k])
    BY <2>1 DEF IsObject, Undefined
  <2> QED
    BY <2>1, <2>2
<1>9. \A k \in KeySet(df) :
        /\ k \in KeyNames /\ df.at[k] \in Tree(n)
        /\ value[k] = IF Both(x, df, k) THEN below[<<x.at[k], df.at[k]>>] ELSE df.at[k]
  <2> TAKE k \in KeySet(df)
  <2>1. k \in KeyNames /\ df.at[k] # Undefined /\ df.at[k] \in Tree(n)
    BY <1>1 DEF Made
  <2> QED
    BY <2>1 DEF Both
<1> HIDE DEF value
<1>10. \A k \in ToSet(ks) : value[k] \in Tree(n) /\ value[k] # Undefined
  <2>1. \A z \in Tree(n) : z # Undefined
    BY TreeIs, LeafIs, HolderIs DEF Made
  <2>3. \A k \in ToSet(ks) : k \in KeySet(df) \/ k \in KeySet(x) \ KeySet(df)
    BY <1>7
  <2>4. \A k \in KeySet(df) : value[k] \in Tree(n)
    BY <1>9
  <2>5. \A k \in KeySet(x) \ KeySet(df) : value[k] \in Tree(n)
    BY <1>8, DocInTree
  <2> QED
    BY <2>1, <2>3, <2>4, <2>5
<1>11. p \in Objs(Tree(n)) /\ p.keys = ks /\ \A k \in ToSet(ks) : p.at[k] = value[k]
  BY <1>4, <1>6, <1>10, HolderMakes
<1>12. IsPatch(below, x, df, p)
  <2>1. KeySet(p) = ToSet(ks)
    BY <1>11 DEF KeySet
  <2>2. \A k \in KeySet(x) \ KeySet(df) : p.at[k] = x.at[k]
    BY <1>7, <1>8, <1>11
  <2>3. \A k \in KeySet(p) \cap KeySet(df) :
          p.at[k] = IF Both(x, df, k) THEN below[<<x.at[k], df.at[k]>>] ELSE df.at[k]
    BY <1>9, <1>11, <2>1
  <2> QED
    BY <1>7, <2>1, <2>2, <2>3 DEF IsPatch
<1> QED
  BY <1>11, <1>12
\* What DiffStep and PatchStep say of the values has the type that they ask for.
LEMMA DiffTypes ==
  ASSUME NEW n \in Nat, NEW g \in [Objs(Doc(n)) \X Objs(Doc(n)) -> Objs(Tree(n))], NEW equal,
         NEW x \in Objs(Doc(n + 1)), NEW y \in Objs(Doc(n + 1)),
         NEW d, d = DiffStep(g, equal, x, y)
  PROVE  d \in Objs(Tree(n + 1)) /\ IsDiff(g, equal, x, y, d)
<1>1. n + 1 \in Nat /\ n + 1 # 0 /\ (n + 1) - 1 = n
  OBVIOUS
<1>2. \A k \in KeySet(y) : Both(x, y, k) => g[<<x.at[k], y.at[k]>>] \in Tree(n + 1)
  <2> SUFFICES ASSUME NEW k \in KeySet(y), Both(x, y, k)
               PROVE  g[<<x.at[k], y.at[k]>>] \in Tree(n + 1)
    OBVIOUS
  <2>1. k \in KeyNames
    BY HolderIs DEF Objs, Made
  <2>2. x.at[k] \in Objs(Doc(n)) /\ y.at[k] \in Objs(Doc(n))
    BY <1>1, <2>1, InsideIs DEF Both
  <2>3. g[<<x.at[k], y.at[k]>>] \in Objs(Tree(n))
    BY <2>2
  <2> QED
    BY <1>1, <2>3, ObjsInTree
<1> QED
  BY <1>1, <1>2, DiffStepIs

LEMMA PatchTypes ==
  ASSUME NEW n \in Nat, NEW g \in [Objs(Doc(n)) \X Objs(Tree(n)) -> Objs(Tree(n))],
         NEW x \in Objs(Doc(n + 1)), NEW df \in Objs(Tree(n + 1)),
         NEW p, p = PatchStep(g, x, df)
  PROVE  p \in Objs(Tree(n + 1)) /\ IsPatch(g, x, df, p)
<1>1. n + 1 \in Nat /\ n + 1 # 0 /\ (n + 1) - 1 = n
  OBVIOUS
<1>2. \A k \in KeySet(df) : Both(x, df, k) => g[<<x.at[k], df.at[k]>>] \in Tree(n + 1)
  <2> SUFFICES ASSUME NEW k \in KeySet(df), Both(x, df, k)
               PROVE  g[<<x.at[k], df.at[k]>>] \in Tree(n + 1)
    OBVIOUS
  <2>1. k \in KeyNames
    BY HolderIs DEF Objs, Made
  <2>2. x.at[k] \in Objs(Doc(n)) /\ df.at[k] \in Objs(Tree(n))
    BY <1>1, <2>1, InsideIs DEF Both
  <2>3. g[<<x.at[k], df.at[k]>>] \in Objs(Tree(n))
    BY <2>2
  <2> QED
    BY <1>1, <2>3, ObjsInTree
<1> QED
  BY <1>1, <1>2, PatchStepIs

\* Objects without objects in them.
LEMMA FlatTypes ==
  ASSUME NEW x \in Objs(Doc(0)), NEW g
  PROVE  /\ \A equal : \A y \in Objs(Doc(0)) :
              /\ DiffStep(g, equal, x, y) \in Objs(Tree(0))
              /\ IsDiff(g, equal, x, y, DiffStep(g, equal, x, y))
         /\ \A df \in Objs(Tree(0)) :
              /\ PatchStep(g, x, df) \in Objs(Tree(0)) /\ IsPatch(g, x, df, PatchStep(g, x, df))
<1>1. \A k \in KeyNames : ~IsObject(x.at[k])
  BY InsideIs
<1>2. ASSUME NEW y \in Objs(Doc(0)), NEW equal, NEW d, d = DiffStep(g, equal, x, y)
      PROVE  d \in Objs(Tree(0)) /\ IsDiff(g, equal, x, y, d)
  <2>1. \A k \in KeySet(y) : ~Both(x, y, k)
    BY <1>1, HolderIs DEF Objs, Made, Both
  <2> QED
    BY <1>2, <2>1, DiffStepIs
<1>3. ASSUME NEW df \in Objs(Tree(0)), NEW p, p = PatchStep(g, x, df)
      PROVE  p \in Objs(Tree(0)) /\ IsPatch(g, x, df, p)
  <2>1. \A k \in KeySet(df) : ~Both(x, df, k)
    BY <1>1, HolderIs DEF Objs, Made, Both
  <2> QED
    BY <1>3, <2>1, PatchStepIs
<1> QED
  BY <1>2, <1>3

LEMMA CreateDiffIs ==
  \A n \in Nat :
    createDiff[n] = [u \in Objs(Doc(n)) \X Objs(Doc(n)) |->
      DiffStep(IF n = 0 THEN <<>> ELSE createDiff[n - 1], isEqual[n], u[1], u[2])]
<1> DEFINE Body(f, n) == [u \in Objs(Doc(n)) \X Objs(Doc(n)) |->
             DiffStep(IF n = 0 THEN <<>> ELSE f[n - 1], isEqual[n], u[1], u[2])]
           Rec(f) == f = [n \in Nat |-> Body(f, n)]
           iter == CHOOSE f : Rec(f)
           T == [n \in Nat |-> [Objs(Doc(n)) \X Objs(Doc(n)) -> Objs(Tree(n))]]
           base == [u \in Objs(Doc(0)) \X Objs(Doc(0)) |-> DiffStep(<<>>, isEqual[0], u[1], u[2])]
           F == [n \in Nat |-> [g \in T[n] |->
                   [u \in Objs(Doc(n + 1)) \X Objs(Doc(n + 1)) |->
                      DiffStep(g, isEqual[n + 1], u[1], u[2])]]]
<1>1. base \in T[0]
  <2>1. \A u \in Objs(Doc(0)) \X Objs(Doc(0)) : DiffStep(<<>>, isEqual[0], u[1], u[2]) \in Objs(Tree(0))
    BY FlatTypes
  <2> QED
    BY <2>1
<1>2. \A n \in Nat : F[n] \in [T[n] -> T[n + 1]]
  <2> TAKE n \in Nat
  <2>0. n + 1 \in Nat /\ T[n + 1] = [Objs(Doc(n + 1)) \X Objs(Doc(n + 1)) -> Objs(Tree(n + 1))]
    OBVIOUS
  <2>1. ASSUME NEW g \in T[n]
        PROVE  [u \in Objs(Doc(n + 1)) \X Objs(Doc(n + 1)) |->
                  DiffStep(g, isEqual[n + 1], u[1], u[2])] \in T[n + 1]
    <3>1. \A u \in Objs(Doc(n + 1)) \X Objs(Doc(n + 1)) :
            DiffStep(g, isEqual[n + 1], u[1], u[2]) \in Objs(Tree(n + 1))
      BY DiffTypes
    <3> QED
      BY <2>0, <3>1
  <2>2. F[n] = [g \in T[n] |-> [u \in Objs(Doc(n + 1)) \X Objs(Doc(n + 1)) |->
                                DiffStep(g, isEqual[n + 1], u[1], u[2])]]
    OBVIOUS
  <2> HIDE DEF T, F
  <2> QED
    BY <2>1, <2>2
<1> HIDE DEF base, T, F
<1>3. PICK f : /\ f = [n \in Nat |-> IF n = 0 THEN base ELSE F[n - 1][f[n - 1]]]
               /\ \A n \in Nat : f[n] \in T[n]
  BY <1>1, <1>2, RecursionExists
<1>4. \A n \in Nat : f[n] = Body(f, n)
  <2> TAKE n \in Nat
  <2>1. f[n] = IF n = 0 THEN base ELSE F[n - 1][f[n - 1]]
    BY <1>3
  <2>2. CASE n = 0
    BY <2>1, <2>2 DEF base
  <2>3. CASE n # 0
    <3>1. n - 1 \in Nat /\ (n - 1) + 1 = n /\ f[n - 1] \in T[n - 1]
      BY <1>3, <2>3
    <3>2. F[n - 1][f[n - 1]] =
            [u \in Objs(Doc(n)) \X Objs(Doc(n)) |-> DiffStep(f[n - 1], isEqual[n], u[1], u[2])]
      BY <3>1 DEF F
    <3> QED
      BY <2>1, <2>3, <3>2
  <2> QED
    BY <2>2, <2>3
<1>5. Rec(f)
  <2>1. f = [n \in Nat |-> f[n]]
    BY <1>3
  <2> HIDE DEF Body
  <2> QED
    BY <1>4, <2>1
<1>6. createDiff = iter
  BY DEF createDiff
<1> HIDE DEF Rec
<1>7. Rec(iter)
  BY <1>5
<1> HIDE DEF iter
<1> QED
  BY <1>6, <1>7 DEF Rec

LEMMA PatchedIs ==
  \A n \in Nat :
    patched[n] = [u \in Objs(Doc(n)) \X Objs(Tree(n)) |->
      PatchStep(IF n = 0 THEN <<>> ELSE patched[n - 1], u[1], u[2])]
<1> DEFINE Body(f, n) == [u \in Objs(Doc(n)) \X Objs(Tree(n)) |->
             PatchStep(IF n = 0 THEN <<>> ELSE f[n - 1], u[1], u[2])]
           Rec(f) == f = [n \in Nat |-> Body(f, n)]
           iter == CHOOSE f : Rec(f)
           T == [n \in Nat |-> [Objs(Doc(n)) \X Objs(Tree(n)) -> Objs(Tree(n))]]
           base == [u \in Objs(Doc(0)) \X Objs(Tree(0)) |-> PatchStep(<<>>, u[1], u[2])]
           F == [n \in Nat |-> [g \in T[n] |->
                   [u \in Objs(Doc(n + 1)) \X Objs(Tree(n + 1)) |-> PatchStep(g, u[1], u[2])]]]
<1>1. base \in T[0]
  <2>1. \A u \in Objs(Doc(0)) \X Objs(Tree(0)) : PatchStep(<<>>, u[1], u[2]) \in Objs(Tree(0))
    BY FlatTypes
  <2> QED
    BY <2>1
<1>2. \A n \in Nat : F[n] \in [T[n] -> T[n + 1]]
  <2> TAKE n \in Nat
  <2>0. n + 1 \in Nat /\ T[n + 1] = [Objs(Doc(n + 1)) \X Objs(Tree(n + 1)) -> Objs(Tree(n + 1))]
    OBVIOUS
  <2>1. ASSUME NEW g \in T[n]
        PROVE  [u \in Objs(Doc(n + 1)) \X Objs(Tree(n + 1)) |-> PatchStep(g, u[1], u[2])] \in T[n + 1]
    <3>1. \A u \in Objs(Doc(n + 1)) \X Objs(Tree(n + 1)) :
            PatchStep(g, u[1], u[2]) \in Objs(Tree(n + 1))
      BY PatchTypes
    <3> QED
      BY <2>0, <3>1
  <2>2. F[n] = [g \in T[n] |-> [u \in Objs(Doc(n + 1)) \X Objs(Tree(n + 1)) |->
                                PatchStep(g, u[1], u[2])]]
    OBVIOUS
  <2> HIDE DEF T, F
  <2> QED
    BY <2>1, <2>2
<1> HIDE DEF base, T, F
<1>3. PICK f : /\ f = [n \in Nat |-> IF n = 0 THEN base ELSE F[n - 1][f[n - 1]]]
               /\ \A n \in Nat : f[n] \in T[n]
  BY <1>1, <1>2, RecursionExists
<1>4. \A n \in Nat : f[n] = Body(f, n)
  <2> TAKE n \in Nat
  <2>1. f[n] = IF n = 0 THEN base ELSE F[n - 1][f[n - 1]]
    BY <1>3
  <2>2. CASE n = 0
    BY <2>1, <2>2 DEF base
  <2>3. CASE n # 0
    <3>1. n - 1 \in Nat /\ (n - 1) + 1 = n /\ f[n - 1] \in T[n - 1]
      BY <1>3, <2>3
    <3>2. F[n - 1][f[n - 1]] = [u \in Objs(Doc(n)) \X Objs(Tree(n)) |-> PatchStep(f[n - 1], u[1], u[2])]
      BY <3>1 DEF F
    <3> QED
      BY <2>1, <2>3, <3>2
  <2> QED
    BY <2>2, <2>3
<1>5. Rec(f)
  <2>1. f = [n \in Nat |-> f[n]]
    BY <1>3
  <2> HIDE DEF Body
  <2> QED
    BY <1>4, <2>1
<1>6. patched = iter
  BY DEF patched
<1> HIDE DEF Rec
<1>7. Rec(iter)
  BY <1>5
<1> HIDE DEF iter
<1> QED
  BY <1>6, <1>7 DEF Rec

LEMMA DiffTyped == \A n \in Nat : createDiff[n] \in [Objs(Doc(n)) \X Objs(Doc(n)) -> Objs(Tree(n))]
<1> DEFINE G == {n \in Nat : createDiff[n] \in [Objs(Doc(n)) \X Objs(Doc(n)) -> Objs(Tree(n))]}
<1>1. 0 \in G
  <2>1. createDiff[0] = [u \in Objs(Doc(0)) \X Objs(Doc(0)) |->
                           DiffStep(<<>>, isEqual[0], u[1], u[2])]
    BY CreateDiffIs
  <2>2. \A u \in Objs(Doc(0)) \X Objs(Doc(0)) :
          DiffStep(<<>>, isEqual[0], u[1], u[2]) \in Objs(Tree(0))
    BY FlatTypes
  <2> QED
    BY <2>1, <2>2
<1>2. ASSUME NEW m \in Nat, m \in G PROVE m + 1 \in G
  <2>0. m + 1 \in Nat /\ m + 1 # 0 /\ (m + 1) - 1 = m
    OBVIOUS
  <2> DEFINE g == createDiff[m]
  <2>1. createDiff[m + 1] = [u \in Objs(Doc(m + 1)) \X Objs(Doc(m + 1)) |->
                               DiffStep(g, isEqual[m + 1], u[1], u[2])]
    BY <2>0, CreateDiffIs
  <2>2. g \in [Objs(Doc(m)) \X Objs(Doc(m)) -> Objs(Tree(m))]
    BY <1>2
  <2> HIDE DEF g
  <2>3. \A u \in Objs(Doc(m + 1)) \X Objs(Doc(m + 1)) :
          DiffStep(g, isEqual[m + 1], u[1], u[2]) \in Objs(Tree(m + 1))
    BY <2>2, DiffTypes
  <2> QED
    BY <2>0, <2>1, <2>3
<1>3. \A n \in Nat : n \in G
  <2> HIDE DEF G
  <2> QED
    BY <1>1, <1>2, NatSetInduction
<1> QED
  BY <1>3

LEMMA PatchTyped == \A n \in Nat : patched[n] \in [Objs(Doc(n)) \X Objs(Tree(n)) -> Objs(Tree(n))]
<1> DEFINE G == {n \in Nat : patched[n] \in [Objs(Doc(n)) \X Objs(Tree(n)) -> Objs(Tree(n))]}
<1>1. 0 \in G
  <2>1. patched[0] = [u \in Objs(Doc(0)) \X Objs(Tree(0)) |-> PatchStep(<<>>, u[1], u[2])]
    BY PatchedIs
  <2>2. \A u \in Objs(Doc(0)) \X Objs(Tree(0)) : PatchStep(<<>>, u[1], u[2]) \in Objs(Tree(0))
    BY FlatTypes
  <2> QED
    BY <2>1, <2>2
<1>2. ASSUME NEW m \in Nat, m \in G PROVE m + 1 \in G
  <2>0. m + 1 \in Nat /\ m + 1 # 0 /\ (m + 1) - 1 = m
    OBVIOUS
  <2> DEFINE g == patched[m]
  <2>1. patched[m + 1] = [u \in Objs(Doc(m + 1)) \X Objs(Tree(m + 1)) |->
                            PatchStep(g, u[1], u[2])]
    BY <2>0, PatchedIs
  <2>2. g \in [Objs(Doc(m)) \X Objs(Tree(m)) -> Objs(Tree(m))]
    BY <1>2
  <2> HIDE DEF g
  <2>3. \A u \in Objs(Doc(m + 1)) \X Objs(Tree(m + 1)) :
          PatchStep(g, u[1], u[2]) \in Objs(Tree(m + 1))
    BY <2>2, PatchTypes
  <2> QED
    BY <2>0, <2>1, <2>3
<1>3. \A n \in Nat : n \in G
  <2> HIDE DEF G
  <2> QED
    BY <1>1, <1>2, NatSetInduction
<1> QED
  BY <1>3

\* One step of the difference is one step of the way back, if what they say of the
\* values fits.
LEMMA StepRestores ==
  ASSUME NEW n \in Nat, NEW x \in Objs(Doc(n)), NEW y \in Objs(Doc(n)), NEW diff, NEW patch,
         NEW df \in Objs(Tree(n)), IsDiff(diff, isEqual[n], x, y, df),
         NEW p \in Objs(Tree(n)), IsPatch(patch, x, df, p),
         \A k \in KeySet(y) : Both(x, y, k) =>
            LET dd == diff[<<x.at[k], y.at[k]>>]
            IN  /\ IsObject(dd) /\ alike[n][<<patch[<<x.at[k], dd>>], y.at[k]>>]
                /\ dd.keys = <<>> => alike[n][<<x.at[k], y.at[k]>>]
  PROVE  /\ alike[n + 1][<<p, y>>]
         /\ df.keys = <<>> => alike[n + 1][<<x, y>>]
<1>1. Made(x, Doc(n)) /\ Made(y, Doc(n)) /\ Made(df, Tree(n)) /\ Made(p, Tree(n))
  BY HolderIs DEF Objs
<1>2. x \in Holders(Tree(n)) /\ y \in Holders(Tree(n)) /\ p \in Holders(Tree(n))
  BY DocInTree, HoldersGrow DEF Objs
<1>3. ASSUME NEW k \in KeySet(y), k \in KeySet(x), Same(diff, isEqual[n], x, y, k)
      PROVE  alike[n][<<x.at[k], y.at[k]>>]
  <2>1. x.at[k] \in Doc(n) /\ y.at[k] \in Doc(n)
    BY <1>1, <1>3 DEF Made
  <2>2. CASE Both(x, y, k)
    BY <1>3, <2>2 DEF Same
  <2>3. CASE ~Both(x, y, k)
    <3>1. isEqual[n][<<x.at[k], y.at[k]>>]
      BY <1>3, <2>3 DEF Same
    <3> QED
      BY <2>1, <3>1, EqualAgrees DEF EqualAt
  <2> QED
    BY <2>2, <2>3
<1>4. \A z \in Doc(n) : z # Deleted
  BY DocIs, DeletedIsNone, HolderIs DEF Made
<1>5. ASSUME NEW k \in KeySet(y), k \in KeySet(df)
      PROVE  /\ k \in KeySet(p)
             /\ alike[n][<<p.at[k], y.at[k]>>]
  <2>1. y.at[k] \in Doc(n) /\ y.at[k] \in Tree(n)
    BY <1>1, DocInTree DEF Made
  <2>2. df.at[k] = IF Both(x, y, k) THEN diff[<<x.at[k], y.at[k]>>] ELSE y.at[k]
    BY <1>5 DEF IsDiff
  <2>3. k \in KeySet(p) => p.at[k] = IF Both(x, df, k) THEN patch[<<x.at[k], df.at[k]>>]
                                     ELSE df.at[k]
    BY <1>5 DEF IsPatch
  <2>4. df.at[k] # Deleted => k \in KeySet(p)
    BY <1>5 DEF IsPatch
  <2>5. CASE Both(x, y, k)
    <3>1. IsObject(df.at[k]) /\ alike[n][<<patch[<<x.at[k], df.at[k]>>], y.at[k]>>]
      BY <2>2, <2>5
    <3>2. Both(x, df, k) /\ df.at[k] # Deleted
      BY <2>5, <3>1, DeletedIsNone DEF Both
    <3> QED
      BY <2>3, <2>4, <3>1, <3>2
  <2>6. CASE ~Both(x, y, k)
    <3>1. df.at[k] = y.at[k] /\ ~Both(x, df, k) /\ df.at[k] # Deleted
      BY <1>4, <2>1, <2>2, <2>6 DEF Both
    <3> QED
      BY <2>1, <2>3, <2>4, <3>1, AlikeSelf
  <2> QED
    BY <2>5, <2>6
<1>6. ASSUME NEW k \in KeySet(y), k \notin KeySet(df)
      PROVE  k \in KeySet(x) /\ k \in KeySet(p) /\ p.at[k] = x.at[k] /\ alike[n][<<x.at[k], y.at[k]>>]
  <2>1. k \in KeySet(x) /\ Same(diff, isEqual[n], x, y, k)
    BY <1>6 DEF IsDiff
  <2>2. k \in KeySet(p) /\ p.at[k] = x.at[k]
    BY <1>6, <2>1 DEF IsPatch
  <2> QED
    BY <1>3, <2>1, <2>2
<1>7. ASSUME NEW k \in KeySet(p) PROVE k \in KeySet(y)
  BY DEF IsDiff, IsPatch
<1>8. KeySet(p) = KeySet(y) /\ \A k \in KeySet(p) : alike[n][<<p.at[k], y.at[k]>>]
  BY <1>5, <1>6, <1>7
<1>9. alike[n + 1][<<p, y>>]
  BY <1>2, <1>8, AlikeHolders
<1>10. ASSUME df.keys = <<>> PROVE alike[n + 1][<<x, y>>]
  <2>1. KeySet(df) = {}
    BY <1>10 DEF KeySet, ToSet
  <2>2. KeySet(x) \subseteq KeySet(y)
    BY <2>1 DEF IsDiff
  <2>3. KeySet(x) = KeySet(y) /\ \A k \in KeySet(x) : alike[n][<<x.at[k], y.at[k]>>]
    BY <1>6, <2>1, <2>2
  <2> QED
    BY <1>2, <2>3, AlikeHolders
<1> QED
  BY <1>9, <1>10

RestoresAt(n) ==
    \A x, y \in Objs(Doc(n)) :
        LET df == createDiff[n][<<x, y>>]
        IN  /\ alike[n + 1][<<patched[n][<<x, df>>], y>>]
            /\ df.keys = <<>> => alike[n + 1][<<x, y>>]

LEMMA DiffAlwaysRestores == \A n \in Nat : RestoresAt(n)
<1> DEFINE G == {n \in Nat : RestoresAt(n)}
<1>1. 0 \in G
  <2> SUFFICES ASSUME NEW x \in Objs(Doc(0)), NEW y \in Objs(Doc(0)),
                      NEW df, df = createDiff[0][<<x, y>>]
               PROVE  /\ alike[0 + 1][<<patched[0][<<x, df>>], y>>]
                      /\ df.keys = <<>> => alike[0 + 1][<<x, y>>]
    BY DEF RestoresAt
  <2>1. createDiff[0] = [u \in Objs(Doc(0)) \X Objs(Doc(0)) |->
                           DiffStep(<<>>, isEqual[0], u[1], u[2])]
    BY CreateDiffIs
  <2>2. df = DiffStep(<<>>, isEqual[0], x, y)
    BY <2>1
  <2>3. df \in Objs(Tree(0)) /\ IsDiff(<<>>, isEqual[0], x, y, df)
    BY <2>2, FlatTypes
  <2> DEFINE p == patched[0][<<x, df>>]
  <2>4. patched[0] = [u \in Objs(Doc(0)) \X Objs(Tree(0)) |-> PatchStep(<<>>, u[1], u[2])]
    BY PatchedIs
  <2>5. p = PatchStep(<<>>, x, df)
    BY <2>3, <2>4
  <2> HIDE DEF p
  <2>6. p \in Objs(Tree(0)) /\ IsPatch(<<>>, x, df, p)
    BY <2>3, <2>5, FlatTypes
  <2>7. \A k \in KeySet(y) : ~Both(x, y, k)
    BY InsideIs, HolderIs DEF Objs, Made, Both
  <2>8. /\ alike[0 + 1][<<p, y>>]
        /\ df.keys = <<>> => alike[0 + 1][<<x, y>>]
    BY <2>3, <2>6, <2>7, StepRestores
  <2> QED
    BY <2>8 DEF p
<1>2. ASSUME NEW m \in Nat, m \in G PROVE m + 1 \in G
  <2>0. m + 1 \in Nat /\ m + 1 # 0 /\ (m + 1) - 1 = m
    OBVIOUS
  <2> DEFINE n == m + 1
  <2> SUFFICES ASSUME NEW x \in Objs(Doc(n)), NEW y \in Objs(Doc(n)),
                      NEW df, df = createDiff[n][<<x, y>>]
               PROVE  /\ alike[n + 1][<<patched[n][<<x, df>>], y>>]
                      /\ df.keys = <<>> => alike[n + 1][<<x, y>>]
    BY <2>0 DEF RestoresAt
  <2> DEFINE diff == createDiff[m]
             patch == patched[m]
             p == patched[n][<<x, df>>]
  <2>1. /\ createDiff[n] = [u \in Objs(Doc(n)) \X Objs(Doc(n)) |->
                              DiffStep(diff, isEqual[n], u[1], u[2])]
        /\ patched[n] = [u \in Objs(Doc(n)) \X Objs(Tree(n)) |-> PatchStep(patch, u[1], u[2])]
    BY <2>0, CreateDiffIs, PatchedIs
  <2>2. /\ diff \in [Objs(Doc(m)) \X Objs(Doc(m)) -> Objs(Tree(m))]
        /\ patch \in [Objs(Doc(m)) \X Objs(Tree(m)) -> Objs(Tree(m))]
    BY DiffTyped, PatchTyped
  <2>3. \A u \in Objs(Doc(m)), v \in Objs(Doc(m)) :
          LET dd == diff[<<u, v>>]
          IN  /\ alike[n][<<patch[<<u, dd>>], v>>]
              /\ dd.keys = <<>> => alike[n][<<u, v>>]
    BY <1>2 DEF RestoresAt
  <2> HIDE DEF diff, patch
  <2>4. df = DiffStep(diff, isEqual[n], x, y)
    BY <2>1
  <2>5. df \in Objs(Tree(n)) /\ IsDiff(diff, isEqual[n], x, y, df)
    BY <2>2, <2>4, DiffTypes
  <2>6. p = PatchStep(patch, x, df)
    BY <2>1, <2>5
  <2> HIDE DEF p
  <2>7. p \in Objs(Tree(n)) /\ IsPatch(patch, x, df, p)
    BY <2>2, <2>5, <2>6, PatchTypes
  <2>8. ASSUME NEW k \in KeySet(y), Both(x, y, k), NEW dd, dd = diff[<<x.at[k], y.at[k]>>]
        PROVE  /\ IsObject(dd) /\ alike[n][<<patch[<<x.at[k], dd>>], y.at[k]>>]
               /\ dd.keys = <<>> => alike[n][<<x.at[k], y.at[k]>>]
    <3>1. k \in KeyNames
      BY HolderIs DEF Objs, Made
    <3>2. x.at[k] \in Objs(Doc(m)) /\ y.at[k] \in Objs(Doc(m))
      BY <2>0, <2>8, <3>1, InsideIs DEF Both
    <3>3. dd \in Objs(Tree(m))
      BY <2>2, <2>8, <3>2
    <3> QED
      BY <2>3, <2>8, <3>2, <3>3 DEF Objs
  <2>9. \A k \in KeySet(y) : Both(x, y, k) =>
           LET dd == diff[<<x.at[k], y.at[k]>>]
           IN  /\ IsObject(dd) /\ alike[n][<<patch[<<x.at[k], dd>>], y.at[k]>>]
               /\ dd.keys = <<>> => alike[n][<<x.at[k], y.at[k]>>]
    BY <2>8
  <2> HIDE DEF n
  <2>10. n \in Nat
    BY <2>0 DEF n
  <2>11. /\ alike[n + 1][<<p, y>>]
         /\ df.keys = <<>> => alike[n + 1][<<x, y>>]
    BY <2>5, <2>7, <2>9, <2>10, StepRestores
  <2> QED
    BY <2>11 DEF p
<1>3. \A n \in Nat : n \in G
  <2> HIDE DEF G
  <2> QED
    BY <1>1, <1>2, NatSetInduction
<1> QED
  BY <1>3

LEMMA ObjectsCompared ==
  ASSUME old \in Objects, nw \in Objects
  PROVE  DiffRestores /\ EqualIsSame
<1>1. Depth \in Nat /\ old \in Objs(Doc(Depth)) /\ nw \in Objs(Doc(Depth))
  BY JsonAssumption
<1>2. RestoresAt(Depth)
  BY <1>1, DiffAlwaysRestores
<1>3. DiffRestores
  BY <1>1, <1>2 DEF DiffRestores, RestoresAt
<1>4. Depth + 1 \in Nat /\ old \in Doc(Depth + 1) /\ nw \in Doc(Depth + 1)
  BY <1>1, Levels DEF Objs
<1>5. EqualAt(Depth + 1)
  BY <1>4, EqualAgrees
<1>6. EqualIsSame
  BY <1>4, <1>5 DEF EqualIsSame, EqualAt
<1> QED
  BY <1>3, <1>6

-----------------------------------------------------------------------------
(* createObject *)

\* What has been put of the first m methods, and no later one has taken the place of.
Standing(p, list, m) ==
    {k \in 1 .. m :
        /\ Under(p, list[k])
        /\ \A j \in k + 1 .. m : Under(p, list[j]) => ~Displaced(Rest(p, list[k]), Rest(p, list[j]))}
PutOf(p, list, m) == {Rest(p, list[i]) : i \in Standing(p, list, m)}
PutStep(p, obj, n) == IF Under(p, n) THEN Added(obj, Rest(p, n)) ELSE obj

LEMMA PutNext ==
  ASSUME NEW p, NEW n \in Nat, NEW list \in [1 .. n -> Names], NEW m \in 1 .. n
  PROVE  PutStep(p, PutOf(p, list, m - 1), list[m]) = PutOf(p, list, m)
<1> DEFINE U(k) == Under(p, list[k])
           R(k) == Rest(p, list[k])
           Keeps(k, q) == \A j \in k + 1 .. q : U(j) => ~Displaced(R(k), R(j))
           before == PutOf(p, list, m - 1)
<1>1. \A q : \A x : x \in PutOf(p, list, q) <=> \E k \in 1 .. q : U(k) /\ x = R(k) /\ Keeps(k, q)
  BY DEF PutOf, Standing
<1>2. ASSUME U(m) PROVE \A x : x \in PutStep(p, before, list[m]) <=>
                            x = R(m) \/ (x \in before /\ ~Displaced(x, R(m)))
  BY <1>2 DEF PutStep, Added, Displaced
<1>3. ~U(m) => PutStep(p, before, list[m]) = before
  BY DEF PutStep
<1>4. \A k \in 1 .. m - 1 :
        /\ k \in 1 .. m /\ m \in k + 1 .. m
        /\ \A j \in k + 1 .. m : j = m \/ j \in k + 1 .. m - 1
        /\ \A j \in k + 1 .. m - 1 : j \in k + 1 .. m
  OBVIOUS
<1>5. \A k \in 1 .. m : k = m \/ k \in 1 .. m - 1
  OBVIOUS
<1>6. m \in 1 .. m /\ m + 1 .. m = {}
  OBVIOUS
<1>7. \A k \in 1 .. m - 1 : Keeps(k, m) <=> Keeps(k, m - 1) /\ (U(m) => ~Displaced(R(k), R(m)))
  BY <1>4
<1>8. Keeps(m, m)
  BY <1>6
<1>9. \A x : x \in before <=> \E k \in 1 .. m - 1 : U(k) /\ x = R(k) /\ Keeps(k, m - 1)
  BY <1>1
<1> HIDE DEF Keeps, U, R, before
<1>10. ASSUME NEW x PROVE x \in PutStep(p, before, list[m]) <=> x \in PutOf(p, list, m)
  <2>1. ASSUME U(m), x = R(m) PROVE x \in PutOf(p, list, m)
    BY <1>1, <1>6, <1>8, <2>1
  <2>2. ASSUME x \in before, U(m) => ~Displaced(x, R(m)) PROVE x \in PutOf(p, list, m)
    <3>1. PICK k \in 1 .. m - 1 : U(k) /\ x = R(k) /\ Keeps(k, m - 1)
      BY <1>9, <2>2
    <3>2. k \in 1 .. m /\ Keeps(k, m)
      BY <1>4, <1>7, <2>2, <3>1
    <3> QED
      BY <1>1, <3>1, <3>2
  <2>3. ASSUME x \in PutOf(p, list, m)
        PROVE  (U(m) /\ x = R(m)) \/ (x \in before /\ (U(m) => ~Displaced(x, R(m))))
    <3>1. PICK k \in 1 .. m : U(k) /\ x = R(k) /\ Keeps(k, m)
      BY <1>1, <2>3
    <3>2. CASE k = m
      BY <3>1, <3>2
    <3>3. CASE k \in 1 .. m - 1
      BY <1>7, <1>9, <3>1, <3>3
    <3> QED
      BY <1>5, <3>2, <3>3
  <2> QED
    BY <1>2, <1>3, <2>1, <2>2, <2>3
<1> QED
  BY <1>10 DEF before

LEMMA ObjectIsPut ==
  ASSUME NEW p, NEW n \in Nat, NEW list \in [1 .. n -> Names]
  PROVE  ObjectOf(p, list) = PutOf(p, list, n)
<1> DEFINE Body(g, T) == IF T = {} THEN {} ELSE PutStep(p, g[T \ {Max(T)}], list[Max(T)])
           Rec(g) == g = [T \in SUBSET (1 .. n) |-> Body(g, T)]
           iter == CHOOSE g : Rec(g)
           Rests == {Rest(p, name) : name \in Names}
           F == [u \in (SUBSET Rests) \X (1 .. n) |-> PutStep(p, u[1], list[u[2]])]
<1>1. ObjectOf(p, list) = iter[1 .. n]
  <2>1. DOMAIN list = 1 .. n
    OBVIOUS
  <2> QED
    BY <2>1 DEF ObjectOf, FoldLeft, MapThenFoldSet, PutStep
<1>2. F \in [(SUBSET Rests) \X (1 .. n) -> SUBSET Rests] /\ {} \in SUBSET Rests
  BY DEF PutStep, Added
<1> HIDE DEF Rests
<1>3. PICK g : Folding(n, SUBSET Rests, {}, F, g)
  <2> HIDE DEF F
  <2> QED
    BY <1>2, FoldExists
<1>4. Rec(g)
  <2>1. ASSUME NEW T \in SUBSET (1 .. n) PROVE g[T] = Body(g, T)
    <3>1. CASE T = {}
      BY <1>3, <3>1 DEF Folding
    <3>2. CASE T # {}
      <4>1. g[T \ {Max(T)}] \in SUBSET Rests /\ Max(T) \in 1 .. n
        BY <1>3, <3>2, MaxInRange DEF Folding
      <4>2. g[T] = F[<<g[T \ {Max(T)}], Max(T)>>]
        BY <1>3, <3>2 DEF Folding
      <4> QED
        BY <3>2, <4>1, <4>2
    <3> QED
      BY <3>1, <3>2
  <2>2. g = [T \in SUBSET (1 .. n) |-> g[T]]
    BY <1>3 DEF Folding
  <2> HIDE DEF Body
  <2> QED
    BY <2>1, <2>2
<1> HIDE DEF Rec
<1>5. Rec(iter)
  BY <1>4
<1>6. \A T \in SUBSET (1 .. n) : iter[T] = Body(iter, T)
  <2> HIDE DEF iter, Body
  <2> QED
    BY <1>5 DEF Rec
<1> HIDE DEF iter
<1> DEFINE G == {m \in 0 .. n : iter[1 .. m] = PutOf(p, list, m)}
<1>7. 0 \in G
  <2>0. 1 .. 0 = {}
    OBVIOUS
  <2>1. iter[{}] = {}
    BY <1>6
  <2>2. PutOf(p, list, 0) = {}
    BY <2>0 DEF PutOf, Standing
  <2>3. iter[1 .. 0] = PutOf(p, list, 0)
    BY <2>0, <2>1, <2>2
  <2>4. 0 \in 0 .. n
    OBVIOUS
  <2> QED
    BY <2>3, <2>4
<1>8. ASSUME NEW m \in 0 .. n, m # n, m \in G PROVE m + 1 \in G
  <2>1. m + 1 \in 1 .. n /\ m + 1 \in 0 .. n /\ (m + 1) - 1 = m
    BY <1>8
  <2>2. /\ 1 .. m + 1 \in SUBSET (1 .. n) /\ 1 .. m + 1 # {}
        /\ Max(1 .. m + 1) = m + 1 /\ (1 .. m + 1) \ {m + 1} = 1 .. (m + 1) - 1
    BY <2>1, RangeTop
  <2>3. iter[1 .. m + 1] = PutStep(p, iter[1 .. m], list[m + 1])
    BY <1>6, <2>1, <2>2
  <2>4. PutStep(p, PutOf(p, list, (m + 1) - 1), list[m + 1]) = PutOf(p, list, m + 1)
    BY <2>1, PutNext
  <2> QED
    BY <1>8, <2>1, <2>3, <2>4
<1> HIDE DEF G, F, Body
<1>9. \A m \in 0 .. n : m \in G
  BY <1>7, <1>8, RangeInduction
<1>10. n \in 0 .. n
  OBVIOUS
<1> QED
  BY <1>1, <1>9, <1>10 DEF G

LEMMA MethodsPut == ObjectHasMethods
<1> SUFFICES ASSUME NEW list \in SeqOf(Names, 3), NEW p \in Names \cup {<<>>}
             PROVE  ObjectOf(p, list) =
                      {Rest(p, list[i]) : i \in {k \in DOMAIN list :
                          /\ Under(p, list[k])
                          /\ \A j \in k + 1 .. Len(list) : Under(p, list[j]) =>
                                 ~Displaced(Rest(p, list[k]), Rest(p, list[j]))}}
  BY DEF ObjectHasMethods
<1>1. PICK n \in 0 .. 3 : list \in [1 .. n -> Names]
  BY DEF SeqOf
<1>2. n \in Nat /\ DOMAIN list = 1 .. n /\ Len(list) = n
  BY <1>1
<1>3. ObjectOf(p, list) = PutOf(p, list, n)
  BY <1>1, <1>2, ObjectIsPut
<1> QED
  BY <1>2, <1>3 DEF PutOf, Standing

\* isEqual and createDiff do with any two objects what is meant, and createObject with
\* any list of methods; they keep no state, so at any time.
THEOREM FunctionsAlwaysAgree == ClientsSpec => []FunctionsAgree
<1> DEFINE TheObjects == old \in Objects /\ nw \in Objects
<1>1. ClientsInit => TheObjects
  BY DEF ClientsInit
<1>2. TheObjects /\ [ClientsNext]_<<vars, httpVars, dataVars, old, nw, part>> => TheObjects'
  BY DEF ClientsNext
<1>3. TheObjects => FunctionsAgree
  BY ObjectsCompared, MethodsPut DEF FunctionsAgree
<1> QED
  BY <1>1, <1>2, <1>3, PTL DEF ClientsSpec


-----------------------------------------------------------------------------
(* The clients together *)

\* The batches of the cache are calls over HTTP.
LEMMA BatchIsPost ==
  ASSUME CacheInv, Fire, NEW n, n = Len(batches'), Post(n)
  PROVE  [HttpNext]_httpVars /\ [DataNext]_dataVars
<1>1. Len(batches) \in Nat /\ Len(batches) < MaxBatches /\ Len(batches') = Len(batches) + 1
  BY DEF CacheInv, Shape, Fire
<1>2. n \in 1 .. MaxBatches
  BY <1>1
<1>3. n \in Posts
  BY <1>2, ClientsAssumption
<1> QED
  BY <1>3 DEF HttpNext, DataNext

LEMMA PartsStep ==
  ASSUME DataInv, [ClientsNext]_<<vars, httpVars, dataVars, old, nw, part>>
  PROVE  [Next]_vars /\ [HttpNext]_httpVars /\ [DataNext]_dataVars
<1>1. CASE part = "socket" /\ Next /\ UNCHANGED <<httpVars, dataVars, old, nw, part>>
  BY <1>1
<1>2. CASE part = "data" /\ CachePart /\ UNCHANGED <<vars, old, nw, part>>
  <2>1. CASE Fire /\ Post(Len(batches'))
    BY <1>2, <2>1, BatchIsPost DEF DataInv
  <2>2. ASSUME NEW n \in Posts, Arrive(n, result[n] = "result"), UNCHANGED httpVars
        PROVE  [HttpNext]_httpVars /\ [DataNext]_dataVars
    <3>1. n \in DOMAIN batches /\ (result[n] = "result") \in BOOLEAN
      BY <2>2 DEF Arrive
    <3> QED
      BY <2>2, <3>1 DEF DataNext
  <2>3. ASSUME NEW n \in Posts, Advance(n), UNCHANGED dataVars
        PROVE  [HttpNext]_httpVars /\ [DataNext]_dataVars
    BY <2>3 DEF HttpNext
  <2>4. ASSUME NEW i \in Wanted, Resolve(i), UNCHANGED httpVars
        PROVE  [HttpNext]_httpVars /\ [DataNext]_dataVars
    BY <2>4 DEF DataNext
  <2> QED
    BY <1>2, <2>1, <2>2, <2>3, <2>4 DEF CachePart, DataGoesOn
<1>3. CASE part = "others" /\ OthersPart /\ UNCHANGED <<vars, old, nw, part>>
  <2>1. CASE (Exec \/ Elapse) /\ UNCHANGED httpVars
    BY <1>3, <2>1 DEF DataNext
  <2>2. ASSUME NEW n \in {0, 3}, Post(n) \/ ListMethods(n) \/ Advance(n), UNCHANGED dataVars
        PROVE  [HttpNext]_httpVars /\ [DataNext]_dataVars
    BY <2>2, ClientsAssumption DEF HttpNext
  <2> QED
    BY <1>3, <2>1, <2>2 DEF OthersPart
<1>4. CASE UNCHANGED <<vars, httpVars, dataVars, old, nw, part>>
  BY <1>4
<1> QED
  BY <1>1, <1>2, <1>3, <1>4 DEF ClientsNext

\* Whatever the page does with its clients together, each of them sees the steps it has
\* on its own: a batch of the cache is one call over HTTP, and no other.
THEOREM ClientsAreTheirParts == ClientsSpec => Spec /\ HttpSpec /\ DataSpec
<1> DEFINE Steps == [ClientsNext]_<<vars, httpVars, dataVars, old, nw, part>>
<1>1. ClientsInit => Init /\ HttpInit /\ DataInit
  BY DEF ClientsInit
<1>2. DataInv /\ Steps => [Next]_vars /\ [HttpNext]_httpVars /\ [DataNext]_dataVars
  BY PartsStep
<1>3. DataInit => DataInv
  BY DataStart
<1>4. DataInv /\ [DataNext]_dataVars => DataInv'
  BY DataStep
<1> QED
  BY <1>1, <1>2, <1>3, <1>4, PTL DEF ClientsSpec, Spec, HttpSpec, DataSpec

\* So what the clients keep on their own they keep together, and their functions with it.
THEOREM ClientsCorrect ==
  ClientsSpec => /\ [](CallsKept /\ RetriesCounted /\ ItemsCarried /\ FunctionsAgree)
                 /\ ContextIsLatest
  BY ClientsAreTheirParts, NoneForgotten, RetriesBounded, NothingInVain, FunctionsAlwaysAgree,
     ContextsLatest, PTL
=============================================================================
