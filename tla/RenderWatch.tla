---------------------------- MODULE RenderWatch ----------------------------
(***************************************************************************)
(* waitForRender and waitForRemove: promises that an element will be in    *)
(* the document, or out of it.  One observer of the document serves all of *)
(* them; it is made by the first wait, called after the document changed,  *)
(* and dropped when it is called with nothing left to wait for.            *)
(***************************************************************************)
EXTENDS Integers, Sieve

CONSTANTS
    MaxWaits,      \* bound: waits
    Timeouts       \* rounds a wait for rendering lasts; 10 unless the page says so

VARIABLES
    shown,         \* the elements in the document
    waits,         \* waitForRender_list: [el, st, left]
    observed,      \* there is an observer
    asked          \* waits so far

Forever == -1
IsTrue(w, elems) == (w.el \in elems) = w.st

\* Mutant: only waitForRender makes the observer.
WaitForLazy(el, st) ==
    /\ asked < MaxWaits /\ asked' = asked + 1
    /\ (el \in shown) # st
    /\ waits' = Append(waits, [el |-> el, st |-> st, left |-> IF st THEN Timeouts ELSE Forever])
    /\ observed' = (observed \/ st)

\* waitForRender (st) and waitForRemove (~st) of what is not yet so.
WaitFor(el, st) ==
    /\ asked < MaxWaits /\ asked' = asked + 1
    /\ (el \in shown) # st
    /\ waits' = Append(waits, [el |-> el, st |-> st, left |-> IF st THEN Timeouts ELSE Forever])
    /\ observed' = TRUE

\* waitForRender_callback after a change of the document.  An entry whose state has
\* come is fulfilled; one whose last round was over a second ago has one round
\* less, and is rejected when it has none.
Callback ==
    \/ /\ ~observed
       /\ UNCHANGED <<waits, observed, asked>>
    \/ /\ observed /\ waits = <<>>
       /\ observed' = FALSE /\ UNCHANGED <<waits, asked>>
    \/ /\ observed /\ waits # <<>>
       /\ \E rounds \in {[i \in DOMAIN waits |->
                            IF i \in late THEN [waits[i] EXCEPT !.left = @ - 1] ELSE waits[i]] :
                          late \in SUBSET {i \in DOMAIN waits : waits[i].left # Forever}} :
            waits' = Outside(rounds, {w \in ToSet(rounds) : IsTrue(w, shown') \/ w.left = 0})
       /\ UNCHANGED <<observed, asked>>
=============================================================================
