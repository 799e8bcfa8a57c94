----------------------------- MODULE FocusCycle -----------------------------
(***************************************************************************)
(* How a view keeps the focus.  _installFocusHandler looks for the ends of *)
(* what can get the focus and puts an element before and one behind the    *)
(* content; when either gets the focus, a timer turns it to the other end. *)
(* Meanwhile the user goes on, and the page disables elements or replaces  *)
(* the content.                                                            *)
(*                                                                         *)
(* A position is that of an element in the document: 0 is focus-begin, the *)
(* elements of the content follow, then comes focus-end; what stands on    *)
(* the page before the view is at -1, what stands behind it is last.       *)
(***************************************************************************)
EXTENDS Integers, SequencesExt

CONSTANTS
    TabIndexes,      \* tab indexes an element may have
    MaxElements,     \* bound: elements of a content
    MaxTurns         \* bound: timers that run at the same time

ASSUME FocusAssumption ==
    TabIndexes \subseteq Nat /\ TabIndexes # {} /\ MaxElements \in Nat /\ MaxTurns \in Nat

VARIABLES
    tabIndex, enabled,   \* of the elements of the content; those not disabled or hidden
    around,              \* tab indexes of the page before and behind the view
    scan,                \* what _installFocusHandler has found: focus_top, focus_bottom
    guarded,             \* focus-begin and focus-end are in the view
    focused,             \* the position from which Tab goes on
    turns,               \* the timers of the focus handlers: the elements they go to
    inView,              \* observation: the focus was last set in the view, not outside
    missed               \* observation: a timer went to an element that was disabled

document == <<tabIndex, enabled, around, scan, guarded>>
focusVars == <<document, focused, turns, inView, missed>>

Forms == SeqOf(TabIndexes, MaxElements)
Elements == DOMAIN tabIndex
FocusEnd == Len(tabIndex) + 1
Behind == Len(tabIndex) + 2

-----------------------------------------------------------------------------
(* The scan *)

\* Mutant: the last of equal elements is the first as well.
TabMetLate(s, i, tab) ==
    IF s.first = 0 \/ tab <= s.low THEN [s EXCEPT !.low = tab, !.first = i, !.last = i]
    ELSE IF tab >= s.high THEN [s EXCEPT !.high = tab, !.last = i] ELSE s

\* One element in walkDOM of _installFocusHandler: the i-th, with its tabIndex.
TabMet(s, i, tab) ==
    LET t == IF s.first = 0 THEN [high |-> tab, low |-> tab, first |-> i, last |-> 0]
             ELSE IF tab > s.high THEN [s EXCEPT !.high = tab]
             ELSE IF tab < s.low THEN [s EXCEPT !.low = tab, !.first = i]
             ELSE s
    IN  IF tab = t.high THEN [t EXCEPT !.last = i] ELSE t

\* The elements between which the focus cycles; -1: an element it cannot get.
NoEnds == [high |-> 0, low |-> 0, first |-> 0, last |-> 0]
TabEnds(tabs) ==
    FoldLeft(LAMBDA s, i : IF tabs[i] = -1 THEN s ELSE TabMet(s, i, tabs[i]),
             NoEnds, [i \in DOMAIN tabs |-> i])

Tabs == [i \in Elements |-> IF i \in enabled THEN tabIndex[i] ELSE -1]

-----------------------------------------------------------------------------
(* The keyboard *)

Guards == IF guarded THEN {0, FocusEnd} ELSE {}
Stops == enabled \cup Guards \cup {-1, Behind}

\* Mutant: focus-begin and focus-end have no tab index of their own.
IndexUnset(i) ==
    CASE i = -1 -> around.before [] i = Behind -> around.behind
      [] i \in {0, FocusEnd} -> 0 [] OTHER -> tabIndex[i]

Index(i) ==
    CASE i = -1 -> around.before [] i = Behind -> around.behind
      [] i \in {0, FocusEnd} -> scan.high [] OTHER -> tabIndex[i]

\* The order of Tab: positive indexes ascending, then 0; equal ones as they stand.
Sooner(i, j) ==
    \/ Index(i) = Index(j) /\ i < j
    \/ Index(i) > 0 /\ (Index(j) = 0 \/ Index(i) < Index(j))

TabTo(i, j) ==
    j \in Stops /\ Sooner(i, j) /\ ~\E k \in Stops : Sooner(i, k) /\ Sooner(k, j)
ShiftTabTo(i, j) ==
    j \in Stops /\ Sooner(j, i) /\ ~\E k \in Stops : Sooner(j, k) /\ Sooner(k, i)

\* Where the handler of a guard sends the focus.
Opposite(g) == IF g = 0 THEN scan.last ELSE scan.first

\* Tab or Shift+Tab; a guard that gets the focus starts its timer.
Press ==
    /\ \E j \in Stops :
          /\ TabTo(focused, j) \/ ShiftTabTo(focused, j)
          /\ focused' = j
          /\ turns' = IF j \in Guards THEN Append(turns, Opposite(j)) ELSE turns
    /\ Len(turns') <= MaxTurns
    /\ UNCHANGED <<document, inView, missed>>

\* The timer of a guard, 10 ms later; focus() of a disabled element does nothing.
Turn ==
    /\ turns # <<>> /\ turns' = Tail(turns)
    /\ focused' = IF Head(turns) \in enabled THEN Head(turns) ELSE focused
    /\ inView' = (inView \/ Head(turns) \in enabled)
    /\ missed' = (missed \/ Head(turns) \notin enabled)
    /\ UNCHANGED document

Click(i) ==
    /\ focused' = i /\ inView' = (i \in enabled)
    /\ UNCHANGED <<document, turns, missed>>

-----------------------------------------------------------------------------
(* The page *)

\* open and its _installFocusHandler, which installs once in the life of the view.
InstallFocus ==
    /\ scan.first = 0
    /\ scan' = TabEnds(Tabs)
    /\ guarded' = (scan'.first # 0)
    /\ IF guarded' THEN focused' = scan'.first /\ inView' = TRUE
                   ELSE UNCHANGED <<focused, inView>>
    /\ UNCHANGED <<tabIndex, enabled, around, turns, missed>>

\* Opened again, the view only gives the focus to focus_top, if that is still there.
OpenAgain ==
    /\ guarded /\ scan.first \in enabled
    /\ focused' = scan.first /\ inView' = TRUE
    /\ UNCHANGED <<document, turns, missed>>

\* An element is disabled or hidden, or it is enabled.
Toggle(i) ==
    /\ enabled' = IF i \in enabled THEN enabled \ {i} ELSE enabled \cup {i}
    /\ UNCHANGED <<tabIndex, around, scan, guarded, focused, turns, inView, missed>>

\* setContent and clearContent: the guards go with the content, and a timer finds
\* nothing; focus_top is still set.
ReplaceContent(c) ==
    /\ tabIndex' = c /\ enabled' = DOMAIN c
    /\ guarded' = FALSE /\ turns' = <<>> /\ inView' = FALSE
    /\ focused' = IF focused = Behind THEN Len(c) + 2 ELSE -1
    /\ UNCHANGED <<around, scan, missed>>

-----------------------------------------------------------------------------
FocusInit ==
    /\ tabIndex \in Forms /\ enabled = Elements
    /\ around \in [before : TabIndexes, behind : TabIndexes]
    /\ scan = NoEnds /\ guarded = FALSE
    /\ focused = -1 /\ turns = <<>> /\ inView = FALSE /\ missed = FALSE

FocusNext ==
    \/ Press \/ Turn \/ InstallFocus \/ OpenAgain
    \/ \E i \in enabled \cup {-1, Behind} : Click(i)
    \/ \E i \in Elements : Toggle(i)
    \/ \E c \in Forms : ReplaceContent(c)

FocusSpec == FocusInit /\ [][FocusNext]_focusVars

-----------------------------------------------------------------------------
(* Properties *)

\* The state is of the expected form.
FocusTypeOK ==
    /\ tabIndex \in Forms /\ enabled \subseteq Elements
    /\ around \in [before : TabIndexes, behind : TabIndexes]
    /\ scan \in [high : Int, low : Int, first : Nat, last : Nat] /\ guarded \in BOOLEAN
    /\ (guarded => {scan.first, scan.last} \subseteq Elements)
    /\ focused \in -1 .. Behind /\ turns \in Seq(Elements) /\ Len(turns) <= MaxTurns
    /\ {inView, missed} \subseteq BOOLEAN

\* As on the pages of this repository, which give a tab index only to what Tab has
\* to pass over.  With indexes that differ, Tab does leave a view.
Alike == \A i, j \in Elements : tabIndex[i] = tabIndex[j]

\* Tab does not leave the view (template.js:767): from where it leads out of it, as
\* from a guard before its timer is due, the focus is on its way back.  Exempt is a
\* view whose first or last element was disabled when the focus was sent to it.
FocusStays == guarded /\ Alike /\ inView /\ ~missed => focused \in Elements \/ turns # <<>>

\* The element after i, after the last one the first.
NextAfter(i, j) ==
    /\ j \in enabled
    /\ \/ i < j /\ \A k \in enabled : k <= i \/ k >= j
       \/ \A k \in enabled : k <= i /\ k >= j

\* As long as no element is disabled or enabled, Tab and Shift+Tab lead from each
\* element to the next one, and round the ends, whatever the rest of the page is like.
WalksRound ==
    guarded /\ Alike /\ scan = TabEnds(Tabs) =>
        \A i, j \in enabled : NextAfter(i, j) =>
            IF i < j THEN TabTo(i, j) /\ ShiftTabTo(j, i)
            ELSE /\ TabTo(i, FocusEnd) /\ Opposite(FocusEnd) = j
                 /\ ShiftTabTo(j, 0) /\ Opposite(0) = i

TabCycles == FocusStays /\ WalksRound
=============================================================================
