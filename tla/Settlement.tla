---------------------------- MODULE Settlement ----------------------------
(***************************************************************************)
(* What processing payments promises: each call takes effect at one        *)
(* instant.  It either books its payment on one trade that it acts on at   *)
(* that instant, or leaves every trade alone when it acts on none.  What   *)
(* acts and what is written are parameters: WireRules defines them.        *)
(***************************************************************************)
CONSTANTS
    Trades, Payments, Statuses, InitialStatuses,
    UserMoves,          \* changes of status by users
    Fresh(_),           \* a trade document with the given status
    NotBooked,
    Acts(_, _, _),      \* a payment acts on a trade of the given status
    Written(_, _, _),   \* the document a payment leaves
    Effect(_, _, _)     \* the list it joins

VARIABLES
    trade,    \* the trade documents
    booked,   \* where a payment ended
    finished, \* trades the seller finished by hand
    left      \* payments not processed yet

settlementVars == <<trade, booked, finished, left>>

Init ==
    /\ \E st \in [Trades -> InitialStatuses] : trade = [t \in Trades |-> Fresh(st[t])]
    /\ booked = [p \in Payments |-> NotBooked]
    /\ finished = {} /\ left = Payments

Book(p, t) ==
    /\ p \in left /\ left' = left \ {p}
    /\ Acts(p, t, trade[t].status)
    /\ trade' = [trade EXCEPT ![t] = Written(p, t, @)]
    /\ booked' = [booked EXCEPT ![p] =
                    [trade |-> t, as |-> Effect(p, t, trade[t])]]
    /\ UNCHANGED finished

Miss(p) ==
    /\ p \in left /\ left' = left \ {p}
    /\ \A t \in Trades : ~Acts(p, t, trade[t].status)
    /\ UNCHANGED <<trade, booked, finished>>

UserMove(t, s) ==
    /\ <<trade[t].status, s>> \in UserMoves
    /\ trade' = [trade EXCEPT ![t].status = s]
    /\ finished' = IF s = "filled" THEN finished \cup {t} ELSE finished
    /\ UNCHANGED <<booked, left>>

Next == \/ \E p \in Payments : Miss(p) \/ \E t \in Trades : Book(p, t)
        \/ \E t \in Trades, s \in Statuses : UserMove(t, s)

Spec == Init /\ [][Next]_settlementVars
=============================================================================
