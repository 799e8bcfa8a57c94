----------------------------- MODULE RowGroup -----------------------------
(***************************************************************************)
(* GroupManager: the rows of a list in a view.  Each setData brings the    *)
(* whole list; a row whose id was there before keeps its element, with the *)
(* focus and what was typed in it, a new id gets a clone of the template,  *)
(* the rest is closed, which may take the time of an animation, in which   *)
(* the page sets the list again, or takes the view out of the document.    *)
(***************************************************************************)
EXTENDS Integers, Sieve, FiniteSetsExt

CONSTANTS
    MaxId,       \* ids of rows: 1 .. MaxId, and the positions of rows without one
    MaxRows,     \* bound: rows of a list
    MaxSets      \* bound: calls of setData

ASSUME RowAssumption == MaxId \in Nat /\ MaxRows \in Nat /\ MaxSets \in Nat

VARIABLES
    dom,         \* the elements after the anchor, in their order
    idmap,       \* of the id of a row: its element
    curOrder,    \* the ids of the last list
    closing,     \* elements whose closing animation runs
    connected,   \* the view is in the document
    made, sets,
    touched,     \* observation: elements the last list took from a place and put back
    stale,       \* observation: rows closed while the view was out of the document
    broken       \* observation: setData has thrown

rowVars == <<dom, idmap, curOrder, closing, connected, made, sets, touched, stale, broken>>

NoElement == 0
After(b, x) ==
    IF \E i \in 1 .. Len(b) - 1 : b[i] = x
    THEN b[1 + CHOOSE i \in 1 .. Len(b) - 1 : b[i] = x] ELSE NoElement
Before(b, x, ref) ==
    IF x = ref THEN b
    ELSE IF ref = NoElement THEN Append(Without(b, x), x)
    ELSE LET c == Without(b, x) IN InsertAt(c, CHOOSE i \in DOMAIN c : c[i] = ref, x)

\* The id of a row is "@id", or its position, from 0, when that is missing or 0.
RowIds(list) == [i \in DOMAIN list |-> IF list[i] = 0 THEN i - 1 ELSE list[i]]

\* Mutant: every row of the list gets an element.
FilledNew(ids) ==
    LET new == ToSet(ids)
    IN  [id \in DOMAIN idmap \cup new |->
            IF id \notin new THEN idmap[id]
            ELSE made + 1 + Cardinality({j \in new : j < id})]

\* setValue for each row: the map with elements for the ids it did not have.
Filled(ids) ==
    LET new == ToSet(ids) \ DOMAIN idmap
    IN  [id \in DOMAIN idmap \cup ToSet(ids) |->
            IF id \in DOMAIN idmap THEN idmap[id]
            ELSE made + 1 + Cardinality({j \in new : j < id})]

-----------------------------------------------------------------------------
(* finish *)

Put(s, el) ==
    [s EXCEPT !.dom = Before(@, el, s.ep), !.new = @ + 1,
              !.touched = IF Contains(s.dom, el) THEN @ \cup {el} ELSE @]

\* Mutants: a row that stays is put in again; or the next one goes before it.
StayedAnew(s, el) == [Put(s, el) EXCEPT !.old = @ + 1]
StayedBehind(s, el) == [s EXCEPT !.old = @ + 1, !.new = @ + 1]

\* The next row of both orders is the same: it is left where it is.
Stayed(s, el) == [s EXCEPT !.old = @ + 1, !.new = @ + 1, !.ep = After(s.dom, el)]

\* One round of the loop that walks the old and the new order.  ep: the element
\* before which the next one goes.  It throws when the new order is used up.
Merged(s, ids, map) ==
    LET old == curOrder[s.old]
    IN  IF s.old > Len(curOrder)
        THEN IF s.new > Len(ids) THEN s ELSE Put(s, map[ids[s.new]])
        ELSE IF old \in DOMAIN map /\ old \notin ToSet(ids)
        THEN [s EXCEPT !.old = @ + 1, !.ep = After(s.dom, map[old])]
        ELSE IF s.new <= Len(ids) /\ old = ids[s.new]
        THEN Stayed(s, map[old])
        ELSE IF old \in s.moved THEN [s EXCEPT !.old = @ + 1]
        ELSE IF s.new > Len(ids) THEN [s EXCEPT !.failed = TRUE]
        ELSE [Put(s, map[ids[s.new]]) EXCEPT !.moved = @ \cup {ids[s.new]}]

Arranged(ids, map) ==
    FoldLeft(LAMBDA s, i : IF s.failed THEN s ELSE Merged(s, ids, map),
             [dom |-> dom, ep |-> IF dom = <<>> THEN NoElement ELSE dom[1],
              old |-> 1, new |-> 1, moved |-> {}, touched |-> {}, failed |-> FALSE],
             [i \in 1 .. Len(curOrder) + Len(ids) |-> i])

\* Mutant: rows that left are forgotten.
DropNothing(els, d) == dom' = d /\ UNCHANGED <<closing, stale>>

\* Rows that left are closed: those of a view out of the document stay where they
\* are, without a word; the others go, at once or when their animation is over.
Drop(els, d) ==
    \/ /\ connected
       /\ \E slow \in SUBSET (els \cap ToSet(d)) :
            /\ closing' = closing \cup slow
            /\ dom' = Outside(d, els \ slow)
       /\ UNCHANGED stale
    \/ /\ ~connected
       /\ stale' = stale \cup (els \cap ToSet(d)) /\ dom' = d
       /\ UNCHANGED closing

\* setData of the list with these ids.  It throws for an id that comes twice, with the map emptied
\* of the rows before that, and when the order and the map no longer agree.
SetRows(ids) ==
    /\ sets < MaxSets /\ sets' = sets + 1
    /\ LET map == Filled(ids)
           twice == {i \in DOMAIN ids : \E j \in 1 .. i - 1 : ids[j] = ids[i]}
           kept(n) == Restrict(map, DOMAIN map \ {ids[i] : i \in 1 .. n})
           s == Arranged(ids, map)
       IN  /\ made' = Max(Range(map) \cup {made})
           /\ \/ /\ twice # {}
                 /\ idmap' = kept((CHOOSE i \in twice : \A j \in twice : i <= j) - 1)
                 /\ broken' = TRUE /\ touched' = {}
                 /\ UNCHANGED <<dom, curOrder, closing, stale>>
              \/ /\ twice = {} /\ s.failed
                 /\ idmap' = kept(Len(ids)) /\ dom' = s.dom
                 /\ broken' = TRUE /\ touched' = s.touched
                 /\ UNCHANGED <<curOrder, closing, stale>>
              \/ /\ twice = {} /\ ~s.failed
                 /\ idmap' = Restrict(map, ToSet(ids)) /\ curOrder' = ids
                 /\ touched' = s.touched
                 /\ Drop({map[id] : id \in DOMAIN map \ ToSet(ids)}, s.dom)
                 /\ UNCHANGED broken
    /\ UNCHANGED connected

-----------------------------------------------------------------------------
\* readData, which lists the rows by their ids, not as they stand: the keys of idmap
\* are integers here, and the browser enumerates those in their order.
ReadRows ==
    {ids \in [1 .. Cardinality(DOMAIN idmap) -> DOMAIN idmap] :
        \A i, j \in DOMAIN ids : i < j => ids[i] < ids[j]}

\* The view is opened, or taken out of the document.
Connect ==
    /\ connected' = ~connected /\ touched' = {}
    /\ UNCHANGED <<dom, idmap, curOrder, closing, made, sets, stale, broken>>

\* The closing animation is over; the row stays if its view was taken out meanwhile.
Leave(el) ==
    /\ el \in closing /\ closing' = closing \ {el}
    /\ dom' = IF connected THEN Without(dom, el) ELSE dom
    /\ stale' = IF connected THEN stale ELSE stale \cup {el}
    /\ touched' = {}
    /\ UNCHANGED <<idmap, curOrder, connected, made, sets, broken>>

-----------------------------------------------------------------------------
RowInit ==
    /\ dom = <<>> /\ idmap = <<>> /\ curOrder = <<>>
    /\ closing = {} /\ connected = FALSE /\ made = 0 /\ sets = 0
    /\ touched = {} /\ stale = {} /\ broken = FALSE

Lists == SeqOf(0 .. MaxId, MaxRows)

RowNext ==
    \/ \E list \in Lists : SetRows(RowIds(list))
    \/ \E ids \in ReadRows : SetRows(ids)
    \/ Connect
    \/ \E el \in closing : Leave(el)

RowSpec == RowInit /\ [][RowNext]_rowVars

-----------------------------------------------------------------------------
(* Properties *)

Ids == 0 .. MaxId + MaxRows
Live == Range(idmap)

\* The state is of the expected form.
RowTypeOK ==
    /\ ToSet(dom) \subseteq 1 .. made /\ IsInjective(dom) /\ IsInjective(idmap)
    /\ DOMAIN idmap \subseteq Ids /\ Live \subseteq 1 .. made
    /\ curOrder \in Seq(Ids) /\ closing \subseteq ToSet(dom)
    /\ stale \subseteq ToSet(dom) /\ sets \in 0 .. MaxSets

\* Among the elements of the document the rows of the last list stand in its order,
\* each once, whatever was inserted, moved, dropped or is still closing between
\* them (the loop of finish); every other element is on its way out, or was closed
\* while the view was out of the document.  A list that was refused ends this for
\* good.
RowsInOrder ==
    ~broken =>
        /\ Within(dom, Live) = [i \in DOMAIN curOrder |-> idmap[curOrder[i]]]
        /\ ToSet(dom) \subseteq Live \cup closing \cup stale

\* A row that stays in the list keeps its element, so what was typed in it remains;
\* and if the rows that stay keep their order among each other, none of them is
\* taken out and put back, which would take the focus from it.
RowsKept ==
    [][LET stay(o) == Within(o, ToSet(curOrder) \cap ToSet(curOrder'))
       IN  ~broken' =>
             /\ \A id \in DOMAIN idmap \cap DOMAIN idmap' : idmap'[id] = idmap[id]
             /\ stay(curOrder) = stay(curOrder') => touched' = {}]_rowVars
=============================================================================
