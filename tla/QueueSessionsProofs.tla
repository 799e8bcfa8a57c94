------------------------ MODULE QueueSessionsProofs -------------------------
(***************************************************************************)
(* Proofs about SessionCache and WithdrawQueue.  Sessions, for any tokens, *)
(* threads and size of a generation: the memory is bounded, and nothing    *)
(* recent is forgotten.  The queue, for any trades, invoices and number of *)
(* rounds: the type invariant, that what is marked on a trade is true and  *)
(* stays, and that no invoice of a user is overwritten.                    *)
(***************************************************************************)
EXTENDS MCQueueSessions, FiniteSetTheorems, TLAPS

-----------------------------------------------------------------------------
(* Sessions *)

USE CacheAssumption

\* A generation is finite and within its bound; a thread remembers at most the
\* one token it has verified.
Bounded ==
    /\ pending \in [Threads -> SUBSET Tokens]
    /\ \A th \in Threads : IsFiniteSet(pending[th]) /\ Cardinality(pending[th]) <= 1
    /\ IsFiniteSet(parsedTokens) /\ IsFiniteSet(parsedTokens2)
    /\ CacheBounded

\* Joining what a thread remembers adds at most one token.
LEMMA JoinedSize ==
  ASSUME NEW A, NEW B, IsFiniteSet(A), IsFiniteSet(B), Cardinality(B) <= 1
  PROVE  IsFiniteSet(A \cup B) /\ Cardinality(A \cup B) <= Cardinality(A) + 1
  <1>1. /\ IsFiniteSet(A \cup B)
        /\ Cardinality(A \cup B) = Cardinality(A) + Cardinality(B) - Cardinality(A \cap B)
    BY FS_Union
  <1>2. IsFiniteSet(A \cap B)
    BY FS_Intersection
  <1>3. Cardinality(A) \in Nat /\ Cardinality(B) \in Nat /\ Cardinality(A \cap B) \in Nat
    BY <1>2, FS_CardinalityType
  <1> QED
    BY <1>1, <1>3

LEMMA BoundedInit == SessionInit => Bounded
  <1> SUFFICES ASSUME SessionInit PROVE Bounded
    OBVIOUS
  <1>1. IsFiniteSet({}) /\ Cardinality({}) = 0
    BY FS_EmptySet
  <1> QED
    BY <1>1 DEF SessionInit, Bounded, CacheBounded

LEMMA BoundedStep == Bounded /\ [SessionNext]_sessionVars => Bounded'
  <1> SUFFICES ASSUME Bounded, [SessionNext]_sessionVars PROVE Bounded'
    OBVIOUS
  <1>1. ASSUME NEW s \in Tokens, Expire(s) PROVE Bounded'
    BY <1>1 DEF Expire, generations, Bounded, CacheBounded
  <1>2. ASSUME NEW th \in Threads, RemberToken(th) PROVE Bounded'
    <2> DEFINE tokens == parsedTokens \cup pending[th]
    <2>1. IsFiniteSet(tokens) /\ Cardinality(tokens) <= CacheSize + 1
      <3>1. IsFiniteSet(tokens) /\ Cardinality(tokens) <= Cardinality(parsedTokens) + 1
        BY JoinedSize DEF Bounded
      <3>2. Cardinality(tokens) \in Nat /\ Cardinality(parsedTokens) \in Nat
        BY <3>1, FS_CardinalityType DEF Bounded
      <3> QED
        BY <3>1, <3>2 DEF Bounded, CacheBounded
    <2>2. Cardinality(tokens) \in Nat
      BY <2>1, FS_CardinalityType
    <2>3. IsFiniteSet({}) /\ Cardinality({}) = 0
      BY FS_EmptySet
    <2>4. /\ pending' \in [Threads -> SUBSET Tokens]
          /\ \A u \in Threads : IsFiniteSet(pending'[u]) /\ Cardinality(pending'[u]) <= 1
      BY <1>2, <2>3 DEF RemberToken, Bounded
    <2>5. CASE Cardinality(tokens) > CacheSize
      <3>1. parsedTokens' = {} /\ parsedTokens2' = tokens
        BY <1>2, <2>5 DEF RemberToken, TurnGenerations
      <3> QED
        BY <2>1, <2>3, <2>4, <3>1 DEF Bounded, CacheBounded
    <2>6. CASE ~(Cardinality(tokens) > CacheSize)
      <3>1. parsedTokens' = tokens /\ UNCHANGED parsedTokens2
        BY <1>2, <2>6 DEF RemberToken
      <3>2. Cardinality(tokens) <= CacheSize
        BY <2>2, <2>6
      <3> QED
        BY <2>1, <2>4, <3>1, <3>2 DEF Bounded, CacheBounded
    <2> QED
      BY <2>5, <2>6
  <1>3. ASSUME NEW th \in Threads, NEW s \in Tokens, Parse(th, s) PROVE Bounded'
    <2>1. /\ IsFiniteSet({}) /\ Cardinality({}) = 0
          /\ IsFiniteSet({s}) /\ Cardinality({s}) = 1
      BY FS_EmptySet, FS_Singleton
    <2>2. /\ pending' \in [Threads -> SUBSET Tokens]
          /\ \A u \in Threads : pending'[u] \in {pending[u], {s}, {}}
      BY <1>3 DEF Parse, Bounded
    <2>3. \A u \in Threads : IsFiniteSet(pending'[u]) /\ Cardinality(pending'[u]) <= 1
      BY <2>1, <2>2 DEF Bounded
    <2> QED
      BY <1>3, <2>2, <2>3 DEF Parse, generations, Bounded, CacheBounded
  <1>4. CASE UNCHANGED sessionVars
    BY <1>4 DEF sessionVars, generations, Bounded, CacheBounded
  <1> QED
    BY <1>1, <1>2, <1>3, <1>4 DEF SessionNext

\* However many threads verify tokens at the same time and remember them later,
\* neither generation outgrows its bound (remberToken).
THEOREM MemoryBounded == SessionSpec => []CacheBounded
  <1>1. Bounded => CacheBounded
    BY DEF Bounded
  <1> QED
    BY <1>1, BoundedInit, BoundedStep, PTL DEF SessionSpec

-----------------------------------------------------------------------------

\* Why a token is still remembered: it is in the new generation, or in the old one, and
\* then the new one has only what was remembered after it; else more than a generation
\* was.
Remembered(s) ==
    \/ s \in parsedTokens
    \/ s \in parsedTokens2 /\ parsedTokens \subseteq since[s]
    \/ Cardinality(since[s]) > CacheSize

Recent ==
    /\ since = [s \in DOMAIN since |-> since[s]]
    /\ \A s \in DOMAIN since : IsFiniteSet(since[s]) /\ Remembered(s)

LEMMA RecentStep == Bounded /\ Recent /\ [SessionNext]_sessionVars => Recent'
  <1> SUFFICES ASSUME Bounded, Recent, [SessionNext]_sessionVars PROVE Recent'
    OBVIOUS
  <1>1. ASSUME UNCHANGED generations PROVE Recent'
    BY <1>1 DEF generations, Recent, Remembered
  <1>2. ASSUME NEW th \in Threads, RemberToken(th) PROVE Recent'
    <2> DEFINE new == pending[th]
               tokens == parsedTokens \cup new
    <2>1. /\ IsFiniteSet(new) /\ IsFiniteSet(parsedTokens)
          /\ \A s \in DOMAIN since : IsFiniteSet(since[s]) /\ Remembered(s)
      BY DEF Bounded, Recent
    <2>2. since' = [s \in DOMAIN since \cup new |-> IF s \in new THEN {} ELSE since[s] \cup new]
      BY <1>2 DEF RemberToken
    <2>3. /\ DOMAIN since' = DOMAIN since \cup new
          /\ \A s \in new : since'[s] = {}
          /\ \A s \in DOMAIN since \ new : since'[s] = since[s] \cup new
          /\ since' = [s \in DOMAIN since' |-> since'[s]]
      BY <2>2
    <2>4. \/ /\ Cardinality(tokens) > CacheSize /\ parsedTokens' = {} /\ parsedTokens2' = tokens
          \/ parsedTokens' = tokens /\ parsedTokens2' = parsedTokens2
      BY <1>2 DEF RemberToken, TurnGenerations
    <2> HIDE DEF new
    <2>5. ASSUME NEW s \in new PROVE IsFiniteSet(since'[s]) /\ Remembered(s)'
      <3>1. since'[s] = {} /\ s \in tokens
        BY <2>3
      <3> QED
        BY <2>4, <3>1, FS_EmptySet DEF Remembered
    <2>6. ASSUME NEW s \in DOMAIN since \ new PROVE IsFiniteSet(since'[s]) /\ Remembered(s)'
      <3>1. /\ since'[s] = since[s] \cup new /\ IsFiniteSet(since'[s])
            /\ Cardinality(since'[s]) \in Nat
        <4>1. since'[s] = since[s] \cup new /\ IsFiniteSet(since[s])
          BY <2>1, <2>3
        <4>2. IsFiniteSet(since[s] \cup new)
          BY <2>1, <4>1, FS_Union
        <4> QED
          BY <4>1, <4>2, FS_CardinalityType
      <3>2. CASE Cardinality(since[s]) > CacheSize
        <4>1. Cardinality(since[s]) <= Cardinality(since'[s]) /\ Cardinality(since[s]) \in Nat
          BY <2>1, <3>1, FS_Subset, FS_CardinalityType
        <4>2. Cardinality(since'[s]) > CacheSize
          BY <3>1, <3>2, <4>1
        <4> QED
          BY <3>1, <4>2 DEF Remembered
      <3>3. CASE s \in parsedTokens
        BY <2>4, <3>1, <3>3 DEF Remembered
      <3>4. CASE s \in parsedTokens2 /\ parsedTokens \subseteq since[s]
        <4>1. tokens \subseteq since'[s]
          BY <3>1, <3>4
        <4>2. CASE parsedTokens' = tokens /\ parsedTokens2' = parsedTokens2
          BY <3>1, <3>4, <4>1, <4>2 DEF Remembered
        <4>3. CASE Cardinality(tokens) > CacheSize
          <5>1. Cardinality(tokens) <= Cardinality(since'[s]) /\ Cardinality(tokens) \in Nat
            <6> HIDE DEF tokens
            <6>1. IsFiniteSet(tokens) /\ Cardinality(tokens) <= Cardinality(since'[s])
              BY <3>1, <4>1, FS_Subset
            <6> QED
              BY <6>1, FS_CardinalityType
          <5>2. Cardinality(since'[s]) > CacheSize
            BY <3>1, <4>3, <5>1
          <5> QED
            BY <3>1, <5>2 DEF Remembered
        <4> QED
          BY <2>4, <4>2, <4>3
      <3> QED
        BY <2>1, <3>2, <3>3, <3>4 DEF Remembered
    <2> QED
      BY <2>3, <2>5, <2>6 DEF Recent
  <1>3. ASSUME NEW s \in Tokens, Expire(s) PROVE Recent'
    BY <1>1, <1>3 DEF Expire
  <1>4. ASSUME NEW th \in Threads, NEW s \in Tokens, Parse(th, s) PROVE Recent'
    BY <1>1, <1>4 DEF Parse
  <1>5. CASE UNCHANGED sessionVars
    BY <1>1, <1>5 DEF sessionVars
  <1> QED
    BY <1>2, <1>3, <1>4, <1>5 DEF SessionNext

\* Whatever the threads verify and in whichever order they remember it, no token is
\* forgotten before more than a generation of others came after it (remberToken).
THEOREM RecentStaysKept == SessionSpec => []RecentKept
  <1>1. SessionInit => Recent
    BY DEF SessionInit, Recent
  <1>2. Bounded /\ Recent => RecentKept
    <2> SUFFICES ASSUME Bounded, Recent, NEW s \in DOMAIN since, Cardinality(since[s]) <= CacheSize
                 PROVE  Cached(s)
      BY DEF RecentKept
    <2>1. Cardinality(since[s]) \in Nat /\ Remembered(s)
      BY FS_CardinalityType DEF Recent
    <2>2. ~(Cardinality(since[s]) > CacheSize)
      BY <2>1
    <2> QED
      BY <2>1, <2>2 DEF Remembered, Cached
  <1> QED
    BY <1>1, <1>2, BoundedInit, BoundedStep, RecentStep, PTL DEF SessionSpec

HIDE CacheAssumption

-----------------------------------------------------------------------------
(* The withdraw queue *)

USE QueueAssumption

Picks == [trade : Trades \cup {0}, rev : Nat, invoice : Invoices \cup {None}, withdraw : Marks]
Notes == [trade : Trades, paid : Invoices, result : Results, held : Invoices \cup {None}]

LEMMA EmptyTypes == Unmarked \in Marks /\ NoPick \in Picks
  BY DEF Unmarked, Marks, NoPick, Picks

LEMMA MarkType == ASSUME TypeOK, NEW mark \in Marks PROVE Mark(mark) \in Marks
  <1> DEFINE filled == mark.filled \/ result = "paid"
             failed == mark.failed \/ result = "failed"
  <1>1. pays \in Nat /\ filled \in BOOLEAN /\ failed \in BOOLEAN
    BY QueueAssumption DEF TypeOK, Marks
  <1> HIDE DEF filled, failed
  <1>2. [mark EXCEPT !.timestamp = pays, !.filled = filled, !.failed = failed] \in Marks
    BY <1>1 DEF Marks
  <1> QED
    BY <1>2 DEF Mark, filled, failed

-----------------------------------------------------------------------------

LEMMA TypeInit == Init => TypeOK
  <1> SUFFICES ASSUME Init PROVE TypeOK
    OBVIOUS
  <1>1. /\ invoice \in [Trades -> Invoices \cup {None}]
        /\ state \in [Trades -> Marks] /\ withdraw \in [Trades -> Marks] /\ rev \in [Trades -> Nat]
    BY EmptyTypes DEF Init
  <1>2. settled \in [Invoices -> {"open", "paid", "failed"}]
    BY DEF Init
  <1> QED
    BY <1>1, <1>2, EmptyTypes DEF Init, TypeOK, Picks, Results

LEMMA TypeStep == TypeOK /\ [Next]_vars => TypeOK'
  <1> SUFFICES ASSUME TypeOK, [Next]_vars PROVE TypeOK'
    OBVIOUS
  <1>1. ASSUME NEW t \in Trades, NEW i \in Invoices, SetInvoice(t, i) PROVE TypeOK'
    BY <1>1 DEF SetInvoice, TypeOK
  <1>2. CASE GetInvoiceToPay
    <2>1. PICK t \in Trades : Front(t) /\ job' = invoice[t]
      BY <1>2 DEF GetInvoiceToPay
    <2>2. job' \in Invoices
      BY <2>1 DEF Front, Waiting, TypeOK
    <2> QED
      BY <1>2, <2>2 DEF GetInvoiceToPay, documents, TypeOK
  <1>3. CASE LnPay
    <2>1. job \in Invoices
      BY <1>3 DEF LnPay, TypeOK
    <2>2. settled[job] \in {"open", "paid", "failed"}
      BY <2>1 DEF TypeOK
    <2>3. CASE settled[job] # "open"
      BY <1>3, <2>2, <2>3 DEF LnPay, documents, TypeOK, Results
    <2>4. CASE settled[job] = "open"
      <3>1. /\ result' \in Results
            /\ \E s \in IF result' = "retry" THEN {"open", "paid"} ELSE {result'} :
                  settled' = [settled EXCEPT ![job] = s]
        BY <1>3, <2>4 DEF LnPay
      <3>2. settled' \in [Invoices -> {"open", "paid", "failed"}]
        BY <3>1 DEF TypeOK, Results
      <3> QED
        BY <1>3, <3>1, <3>2 DEF LnPay, documents, TypeOK
    <2> QED
      BY <2>3, <2>4
  <1>4. CASE MarkQuery
    <2>1. CASE \E t \in Trades : Holder(t, job)
      <3>1. PICK t \in Trades :
              pick' = [trade |-> t, rev |-> rev[t], invoice |-> invoice[t],
                       withdraw |-> withdraw[t]]
        BY <1>4, <2>1 DEF MarkQuery
      <3>2. pick' \in Picks /\ pick'.trade \in Trades
        BY <3>1 DEF TypeOK, Picks
      <3> QED
        BY <1>4, <2>1, <3>2 DEF MarkQuery, documents, TypeOK, Picks
    <2>2. CASE ~ \E t \in Trades : Holder(t, job)
      BY <1>4, <2>2 DEF MarkQuery, documents, TypeOK, Results
    <2> QED
      BY <2>1, <2>2
  <1>5. CASE MarkPut
    <2>1. pick.trade \in Trades /\ pick \in Picks /\ job \in Invoices
      BY <1>5 DEF MarkPut, TypeOK, Picks
    <2>2. Mark(pick.withdraw) \in Marks /\ pick.invoice \in Invoices \cup {None}
      BY <2>1, MarkType DEF Picks
    <2>3. /\ withdraw' \in [Trades -> Marks] /\ invoice' \in [Trades -> Invoices \cup {None}]
          /\ rev' \in [Trades -> Nat]
      BY <1>5, <2>1, <2>2 DEF MarkPut, Put, TypeOK
    <2>4. marked' \subseteq Notes
      <3>1. [trade |-> pick.trade, paid |-> job, result |-> result,
             held |-> invoice[pick.trade]] \in Notes
        BY <2>1 DEF TypeOK, Notes
      <3> QED
        BY <1>5, <3>1 DEF MarkPut, Put, TypeOK, Notes
    <2> QED
      BY <1>5, <2>3, <2>4, EmptyTypes DEF MarkPut, Put, TypeOK, Picks, Notes, Results
  <1>6. CASE MarkConflict
    BY <1>6, EmptyTypes DEF MarkConflict, documents, TypeOK, Picks
  <1>7. CASE UNCHANGED vars
    BY <1>7 DEF vars, TypeOK
  <1> QED
    BY <1>1, <1>2, <1>3, <1>4, <1>5, <1>6, <1>7 DEF Next, Service

\* Trades, marks and the locals of the paying service keep their shape.
THEOREM TypeCorrect == Spec => []TypeOK
  BY TypeInit, TypeStep, PTL DEF Spec

-----------------------------------------------------------------------------
(* What makes MarksAreTrue inductive *)

\* The row markInvoice found holds the invoice that was paid, and is the document as
\* it is while its revision is current.
PickTrue ==
    pc = "put" =>
        /\ pick.invoice = job /\ pick.rev <= rev[pick.trade]
        /\ pick.rev = rev[pick.trade] =>
              invoice[pick.trade] = pick.invoice /\ withdraw[pick.trade] = pick.withdraw

\* A result that says more than "retry" is what became of the invoice.
ResultTrue == pc \in {"query", "put"} /\ result # "retry" => settled[job] = result

MarkInv == TypeOK /\ PickTrue /\ ResultTrue /\ MarksAreTrue

\* Marks stay true while no invoice that was settled changes and none is taken back.
LEMMA MarksStay ==
  ASSUME MarksAreTrue, UNCHANGED <<withdraw, marked>>, TypeOK,
         \A i \in Invoices : settled[i] # "open" => settled'[i] = settled[i]
  PROVE  MarksAreTrue'
  <1>1. \A m \in marked : m.held = m.paid /\ m.paid \in Invoices
    BY DEF MarksAreTrue, TypeOK
  <1>2. ASSUME NEW t \in Trades, NEW r \in {"paid", "failed"},
               \E m \in marked : m.trade = t /\ settled[m.held] = r
        PROVE  \E m \in marked' : m.trade = t /\ settled'[m.held] = r
    <2>1. PICK m \in marked : m.trade = t /\ settled[m.held] = r
      BY <1>2
    <2>2. settled'[m.held] = r
      BY <1>1, <2>1
    <2> QED
      BY <2>1, <2>2
  <1> QED
    BY <1>1, <1>2 DEF MarksAreTrue

LEMMA MarkStep == MarkInv /\ [Next]_vars => PickTrue' /\ ResultTrue' /\ MarksAreTrue'
  <1> SUFFICES ASSUME MarkInv, [Next]_vars PROVE PickTrue' /\ ResultTrue' /\ MarksAreTrue'
    OBVIOUS
  <1> USE DEF MarkInv
  <1>1. ASSUME NEW t \in Trades, NEW i \in Invoices, SetInvoice(t, i)
        PROVE  PickTrue' /\ ResultTrue' /\ MarksAreTrue'
    <2>1. PickTrue'
      <3> SUFFICES ASSUME pc = "put"
                   PROVE  /\ pick.invoice = job /\ pick.rev <= rev'[pick.trade]
                          /\ pick.rev = rev'[pick.trade] =>
                                /\ invoice'[pick.trade] = pick.invoice
                                /\ withdraw[pick.trade] = pick.withdraw
        BY <1>1 DEF SetInvoice, PickTrue
      <3>1. pick.trade \in Trades /\ pick.rev \in Nat
        BY DEF TypeOK
      <3>2. CASE pick.trade = t
        BY <1>1, <3>1, <3>2 DEF SetInvoice, PickTrue, TypeOK
      <3>3. CASE pick.trade # t
        BY <1>1, <3>1, <3>3 DEF SetInvoice, PickTrue, TypeOK
      <3> QED
        BY <3>2, <3>3
    <2> QED
      BY <1>1, <2>1, MarksStay DEF SetInvoice, ResultTrue
  <1>2. CASE GetInvoiceToPay
    BY <1>2, MarksStay DEF GetInvoiceToPay, documents, PickTrue, ResultTrue
  <1>3. CASE LnPay
    <2>1. job \in Invoices /\ settled[job] \in {"open", "paid", "failed"}
      BY <1>3 DEF LnPay, TypeOK
    <2>2. CASE settled[job] # "open"
      BY <1>3, <2>2, MarksStay DEF LnPay, documents, PickTrue, ResultTrue
    <2>3. CASE settled[job] = "open"
      <3>1. PICK s \in IF result' = "retry" THEN {"open", "paid"} ELSE {result'} :
              settled' = [settled EXCEPT ![job] = s]
        BY <1>3, <2>3 DEF LnPay
      <3>2. ResultTrue' /\ PickTrue'
        BY <1>3, <2>1, <3>1 DEF LnPay, documents, PickTrue, ResultTrue, TypeOK
      <3>3. \A i \in Invoices : settled[i] # "open" => settled'[i] = settled[i]
        BY <2>1, <2>3, <3>1 DEF TypeOK
      <3> QED
        BY <1>3, <3>2, <3>3, MarksStay DEF LnPay, documents
    <2> QED
      BY <2>2, <2>3
  <1>4. CASE MarkQuery
    <2>1. MarksAreTrue' /\ ResultTrue'
      BY <1>4, MarksStay DEF MarkQuery, documents, ResultTrue
    <2>2. CASE \E t \in Trades : Holder(t, job)
      <3>1. PICK t \in Trades :
              /\ Holder(t, job)
              /\ pick' = [trade |-> t, rev |-> rev[t], invoice |-> invoice[t],
                          withdraw |-> withdraw[t]]
        BY <1>4, <2>2 DEF MarkQuery
      <3>2. PickTrue'
        BY <1>4, <2>2, <3>1 DEF MarkQuery, documents, PickTrue, Holder, TypeOK
      <3> QED
        BY <2>1, <3>2
    <2>3. CASE ~ \E t \in Trades : Holder(t, job)
      BY <1>4, <2>1, <2>3 DEF MarkQuery, PickTrue
    <2> QED
      BY <2>2, <2>3
  <1>5. CASE MarkPut
    <2> DEFINE t == pick.trade
               m == [trade |-> t, paid |-> job, result |-> result, held |-> invoice[t]]
    <2>1. t \in Trades /\ pick.withdraw \in Marks /\ result \in Results /\ job \in Invoices
      BY <1>5 DEF MarkPut, TypeOK
    <2>2. /\ invoice[t] = job /\ withdraw[t] = pick.withdraw
          /\ result # "retry" => settled[job] = result
      BY <1>5, <2>1 DEF MarkPut, PickTrue, ResultTrue, TypeOK
    <2>3. /\ marked' = marked \cup {m} /\ UNCHANGED settled
          /\ withdraw' = [withdraw EXCEPT ![t] = Mark(pick.withdraw)]
      BY <1>5 DEF MarkPut, Put
    <2>4. m.held = m.paid /\ m.trade = t /\ m.held = job
      BY <2>2
    <2>5. /\ Mark(pick.withdraw).filled = (pick.withdraw.filled \/ result = "paid")
          /\ Mark(pick.withdraw).failed = (pick.withdraw.failed \/ result = "failed")
      BY <2>1 DEF Mark, Marks
    <2>6. ASSUME NEW u \in Trades, withdraw'[u].filled
          PROVE  \E n \in marked' : n.trade = u /\ settled'[n.held] = "paid"
      <3>1. CASE withdraw[u].filled
        BY <2>3, <3>1 DEF MarksAreTrue
      <3>2. CASE ~withdraw[u].filled
        <4>1. u = t /\ result = "paid"
          BY <2>1, <2>2, <2>3, <2>5, <2>6, <3>2 DEF TypeOK
        <4> QED
          BY <2>2, <2>3, <2>4, <4>1
      <3> QED
        BY <3>1, <3>2
    <2>7. ASSUME NEW u \in Trades, withdraw'[u].failed
          PROVE  \E n \in marked' : n.trade = u /\ settled'[n.held] = "failed"
      <3>1. CASE withdraw[u].failed
        BY <2>3, <3>1 DEF MarksAreTrue
      <3>2. CASE ~withdraw[u].failed
        <4>1. u = t /\ result = "failed"
          BY <2>1, <2>2, <2>3, <2>5, <2>7, <3>2 DEF TypeOK
        <4> QED
          BY <2>2, <2>3, <2>4, <4>1
      <3> QED
        BY <3>1, <3>2
    <2>8. MarksAreTrue'
      <3>1. \A n \in marked' : n.held = n.paid
        BY <2>3, <2>4 DEF MarksAreTrue
      <3> HIDE DEF t, m
      <3> QED
        BY <2>6, <2>7, <3>1 DEF MarksAreTrue
    <2>9. pc' = "idle"
      BY <1>5 DEF MarkPut, Put
    <2> QED
      BY <2>8, <2>9 DEF PickTrue, ResultTrue
  <1>6. CASE MarkConflict
    BY <1>6, MarksStay DEF MarkConflict, documents, PickTrue, ResultTrue
  <1>7. CASE UNCHANGED vars
    BY <1>7, MarksStay DEF vars, PickTrue, ResultTrue
  <1> QED
    BY <1>1, <1>2, <1>3, <1>4, <1>5, <1>6, <1>7 DEF Next, Service

LEMMA MarkInvariant == Spec => []MarkInv
  <1>1. Init => MarkInv
    BY TypeInit DEF Init, MarkInv, PickTrue, ResultTrue, MarksAreTrue, Unmarked
  <1>2. MarkInv /\ [Next]_vars => MarkInv'
    BY TypeStep, MarkStep DEF MarkInv
  <1> QED
    BY <1>1, <1>2, PTL DEF Spec

\* Whatever users write while the service pays: a result is marked on a trade that
\* holds the invoice it is about, and a trade says only what became of an invoice it
\* held (markInvoice).
THEOREM MarksTrue == Spec => []MarksAreTrue
  <1>1. MarkInv => MarksAreTrue
    BY DEF MarkInv
  <1> QED
    BY <1>1, MarkInvariant, PTL

-----------------------------------------------------------------------------
(* What markInvoice leaves alone *)

\* An invoice changes only when its user enters another one.
InvoicesAreUsers == [][UNCHANGED edits => UNCHANGED invoice]_vars

\* A trade that was noted as paid, or as refused, stays so.
MarksKept ==
    [][\A t \in Trades : /\ withdraw[t].filled => withdraw'[t].filled
                         /\ withdraw[t].failed => withdraw'[t].failed]_vars

\* markInvoice writes the whole document it read before: it never puts the invoice it
\* paid over a newer one of the user, because such a document has another revision.
THEOREM NoInvoiceOverwritten == Spec => InvoicesAreUsers
  <1>1. MarkInv /\ [Next]_vars => [UNCHANGED edits => UNCHANGED invoice]_vars
    <2> SUFFICES ASSUME MarkInv, [Next]_vars, UNCHANGED edits PROVE UNCHANGED invoice
      OBVIOUS
    <2>1. CASE \E t \in Trades, i \in Invoices : SetInvoice(t, i)
      BY <2>1 DEF SetInvoice, MarkInv, TypeOK
    <2>2. CASE MarkPut
      <3>1. pick.trade \in Trades /\ invoice[pick.trade] = pick.invoice
        BY <2>2 DEF MarkInv, TypeOK, PickTrue, MarkPut
      <3>2. invoice' = [invoice EXCEPT ![pick.trade] = invoice[pick.trade]]
        BY <2>2, <3>1 DEF MarkPut, Put
      <3> QED
        BY <3>2 DEF MarkInv, TypeOK
    <2>3. CASE GetInvoiceToPay \/ LnPay \/ MarkQuery \/ MarkConflict \/ UNCHANGED vars
      BY <2>3 DEF GetInvoiceToPay, LnPay, MarkQuery, MarkConflict, documents, vars
    <2> QED
      BY <2>1, <2>2, <2>3 DEF Next, Service
  <1> QED
    BY <1>1, MarkInvariant, PTL DEF Spec, InvoicesAreUsers

\* Nor does a later round, whatever its result, take back what an earlier one noted.
THEOREM NoMarkTakenBack == Spec => MarksKept
  <1> DEFINE Kept == \A t \in Trades : /\ withdraw[t].filled => withdraw'[t].filled
                                       /\ withdraw[t].failed => withdraw'[t].failed
  <1>1. ASSUME MarkInv, [Next]_vars PROVE Kept
    <2>1. CASE MarkPut
      <3> DEFINE new == Mark(pick.withdraw)
      <3>1. /\ pick.trade \in Trades /\ pick.withdraw \in Marks
            /\ withdraw[pick.trade] = pick.withdraw
        BY <1>1, <2>1 DEF MarkInv, TypeOK, PickTrue, MarkPut
      <3>2. (pick.withdraw.filled => new.filled) /\ (pick.withdraw.failed => new.failed)
        BY <3>1 DEF Mark, Marks
      <3>3. withdraw' = [withdraw EXCEPT ![pick.trade] = new]
        BY <2>1 DEF MarkPut, Put
      <3> HIDE DEF new
      <3>4. withdraw \in [Trades -> Marks]
        BY <1>1 DEF MarkInv, TypeOK
      <3> SUFFICES ASSUME NEW t \in Trades
                   PROVE  /\ withdraw[t].filled => withdraw'[t].filled
                          /\ withdraw[t].failed => withdraw'[t].failed
        OBVIOUS
      <3>5. CASE t = pick.trade
        <4>1. withdraw'[t] = new /\ withdraw[t] = pick.withdraw
          BY <3>1, <3>3, <3>4, <3>5
        <4> QED
          BY <3>2, <4>1
      <3>6. CASE t # pick.trade
        <4>1. withdraw'[t] = withdraw[t]
          BY <3>3, <3>4, <3>6
        <4> QED
          BY <4>1
      <3> QED
        BY <3>5, <3>6
    <2>2. ASSUME UNCHANGED withdraw PROVE Kept
      BY <2>2
    <2>3. CASE \E t \in Trades, i \in Invoices : SetInvoice(t, i)
      BY <2>2, <2>3 DEF SetInvoice
    <2>4. CASE GetInvoiceToPay \/ LnPay \/ MarkQuery \/ MarkConflict \/ UNCHANGED vars
      BY <2>2, <2>4 DEF GetInvoiceToPay, LnPay, MarkQuery, MarkConflict, documents, vars
    <2> QED
      BY <1>1, <2>1, <2>3, <2>4 DEF Next, Service
  <1> HIDE DEF Kept
  <1>2. MarkInv /\ [Next]_vars => [Kept]_vars
    BY <1>1
  <1> QED
    BY <1>2, MarkInvariant, PTL DEF Spec, MarksKept, Kept

-----------------------------------------------------------------------------
(* The two together *)

\* Neither the queue nor the sessions touch what the other keeps.
THEOREM QueueAndSessionsApart == MCSpec => Spec /\ SessionSpec
  <1>1. MCInit => Init /\ SessionInit
    BY DEF MCInit
  <1>2. [MCNext]_<<vars, sessionVars, part>> => [Next]_vars /\ [SessionNext]_sessionVars
    BY DEF MCNext
  <1> QED
    BY <1>1, <1>2, PTL DEF MCSpec, Spec, SessionSpec

\* So all that is said of the one and of the other holds when the server runs both.
THEOREM QueueAndSessionsCorrect ==
  MCSpec => [](TypeOK /\ MarksAreTrue /\ CacheBounded /\ RecentKept)
  BY QueueAndSessionsApart, TypeCorrect, MarksTrue, MemoryBounded, RecentStaysKept, PTL
=============================================================================
