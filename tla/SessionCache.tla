---------------------------- MODULE SessionCache ----------------------------
(***************************************************************************)
(* AuthUser and SessionParser: threads that serve requests check the       *)
(* session token of each, under a shared lock, and remember a token that   *)
(* was verified under an exclusive one.  Two generations of remembered     *)
(* tokens bound the memory.                                                *)
(***************************************************************************)
EXTENDS Integers, FiniteSets

CONSTANTS
    Tokens,      \* session tokens
    Forged,      \* those with a wrong signature
    Threads,
    CacheSize    \* tokens in a generation

ASSUME CacheAssumption ==
    /\ Forged \subseteq Tokens
    /\ CacheSize \in Nat

VARIABLES
    expired,     \* tokens whose time is over
    parsedTokens, parsedTokens2,  \* the generations
    pending,     \* of each thread: the tokens it has verified and will remember
    answer,      \* observation: the last answer of each thread
    good,        \* observation: whether its token was good at that time
    since        \* observation: of each token: those remembered after it was

generations == <<parsedTokens, parsedTokens2, since>>
sessionVars == <<expired, generations, pending, answer, good>>

Good(s) == s \notin Forged \cup expired

-----------------------------------------------------------------------------

\* Time passes.
Expire(s) ==
    /\ s \notin expired
    /\ expired' = expired \cup {s}
    /\ UNCHANGED <<generations, pending, answer, good>>

Cached(s) == s \in parsedTokens \cup parsedTokens2

\* Only a token that was parsed now is valid: the value of a token found in
\* the cache is not looked at.
Accepts(s) == ~Cached(s) /\ Good(s)

\* parse, under the shared lock.
Parse(th, s) ==
    /\ pending[th] = {}
    /\ answer' = [answer EXCEPT ![th] = IF Accepts(s) THEN "valid" ELSE "invalid"]
    /\ good' = [good EXCEPT ![th] = Good(s)]
    /\ pending' = [pending EXCEPT ![th] = IF ~Cached(s) /\ Good(s) THEN {s} ELSE {}]
    /\ UNCHANGED <<expired, generations>>

\* Mutant: the old generation is kept.
TurnGenerationsKeeping(tokens) ==
    /\ parsedTokens' = {} /\ parsedTokens2' = parsedTokens2 \cup tokens

\* Mutant: the new generation is cleared before the two are swapped.
TurnGenerationsCleared(tokens) ==
    /\ parsedTokens' = parsedTokens2 /\ parsedTokens2' = {}

\* The new generation becomes the old one, which is dropped.
TurnGenerations(tokens) ==
    /\ parsedTokens' = {} /\ parsedTokens2' = tokens

\* remberToken, under the exclusive lock.
RemberToken(th) ==
    /\ pending[th] # {}
    /\ LET tokens == parsedTokens \cup pending[th]
       IN  IF Cardinality(tokens) > CacheSize THEN TurnGenerations(tokens)
           ELSE parsedTokens' = tokens /\ UNCHANGED parsedTokens2
    /\ since' = [s \in DOMAIN since \cup pending[th] |->
                    IF s \in pending[th] THEN {} ELSE since[s] \cup pending[th]]
    /\ pending' = [pending EXCEPT ![th] = {}]
    /\ UNCHANGED <<expired, answer, good>>

SessionInit ==
    /\ expired = {}
    /\ parsedTokens = {} /\ parsedTokens2 = {}
    /\ pending = [th \in Threads |-> {}]
    /\ answer = [th \in Threads |-> "none"] /\ good = [th \in Threads |-> FALSE]
    /\ since = [s \in {} |-> {}]

SessionNext ==
    \/ \E s \in Tokens : Expire(s)
    \/ \E th \in Threads : RemberToken(th) \/ \E s \in Tokens : Parse(th, s)

SessionSpec == SessionInit /\ [][SessionNext]_sessionVars

-----------------------------------------------------------------------------
(* Properties *)

\* The memory is bounded, however many threads verify tokens at once: a
\* generation turns as soon as it exceeds its size.
CacheBounded ==
    /\ Cardinality(parsedTokens) <= CacheSize
    /\ Cardinality(parsedTokens2) <= CacheSize + 1

\* Turning the generations forgets nothing recent: a token stays remembered until
\* more than CacheSize others have been since, whichever threads remember them, in
\* whatever order, and also when two threads have verified the same token
\* (remberToken: the swap and the clearing after it).
RecentKept ==
    \A s \in DOMAIN since : Cardinality(since[s]) <= CacheSize => Cached(s)

-----------------------------------------------------------------------------
(* What the answer says and the code does not do *)

\* The answer "Invalid session" is for sessions that are not valid.
RefusedIsBad == \A th \in Threads : answer[th] = "invalid" => ~good[th]
=============================================================================
