----------------------------- MODULE OrderBook -----------------------------
(***************************************************************************)
(* What the exchange promises about the balance of an order: a new trade   *)
(* is decided once, at one instant, and taken only if at that instant the  *)
(* filled deposits of its order cover it beside all the trades that block  *)
(* their balance.  After that users and banks move it, and nobody else.    *)
(***************************************************************************)
EXTENDS Integers

CONSTANTS
    Trades, Deposits, Seeds, Statuses, Undecided,
    OrderOf, Amount, Fee, IsWithdraw,
    Sum(_, _),      \* of a function over a set
    Blocking(_),    \* a trade of the given status blocks balance
    Moves           \* changes of status by users and banks

VARIABLES
    state,     \* the status of a trade, the state of a deposit
    revived    \* orders of a canceled trade that a late payment revived

bookVars == <<state, revived>>

\* The balance an order has given to its trades, and the one it was given.
Taken(o) ==
    Sum([t \in Trades |-> Amount[t] + Fee[t]],
        {t \in Trades : OrderOf[t] = o /\ Blocking(state[t]) /\ Amount[t] > 0})
Brought(o) ==
    Sum(Amount, {d \in Deposits : OrderOf[d] = o /\ state[d] = "filled"})

Covers(t) ==
    LET o == OrderOf[t]
    IN  o \in revived \/ Taken(o) + Amount[t] + Fee[t] <= Brought(o)

-----------------------------------------------------------------------------
Becomes(d, from, to) == state[d] = from /\ state' = [state EXCEPT ![d] = to]

Post(d) ==
    Becomes(d, "absent", IF d \in Trades THEN Undecided ELSE "unpaid") /\ UNCHANGED revived

Settle(d) == (\E s \in {"filled", "deleted"} : Becomes(d, "unpaid", s)) /\ UNCHANGED revived

Accept(t) ==
    /\ Covers(t)
    /\ Becomes(t, Undecided, IF IsWithdraw[t] THEN "filled" ELSE "created")
    /\ UNCHANGED revived

Refuse(t) == Becomes(t, Undecided, "deleted") /\ UNCHANGED revived

Move(t, s) ==
    /\ <<state[t], s>> \in Moves /\ Becomes(t, state[t], s)
    /\ revived' = IF state[t] = "canceled" THEN revived \cup {OrderOf[t]} ELSE revived

-----------------------------------------------------------------------------
Init ==
    /\ \E canceled \in Seeds :
         state = [d \in Trades \cup Deposits |-> IF d \in canceled THEN "canceled" ELSE "absent"]
    /\ revived = {}

\* A write that leaves the state of a document alone is no step here.
Next ==
    /\ state' # state
    /\ \/ \E d \in Trades \cup Deposits : Post(d)
       \/ \E d \in Deposits : Settle(d)
       \/ \E t \in Trades : Accept(t) \/ Refuse(t) \/ \E s \in Statuses : Move(t, s)

Spec == Init /\ [][Next]_bookVars
=============================================================================
