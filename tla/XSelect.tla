------------------------------ MODULE XSelect ------------------------------
(***************************************************************************)
(* The widget X-SELECT: a text field with a list of suggestions below it.  *)
(* What it offers, and the label of a value, come from a callback of the   *)
(* page that answers later, so the user types, moves the focus and picks   *)
(* while answers are under way, and answers may arrive in any order, or    *)
(* never.  The form reads info.value, the user sees the text.              *)
(***************************************************************************)
EXTENDS Integers, SequencesExt

CONSTANTS
    Items,      \* values of the list
    None,       \* the value null
    Texts,      \* what may stand in the field
    Empty,      \* the text ""
    Label,      \* of an item: the text that shows it
    Found,      \* of a text: the items the callback finds, in its order
    MaxAsks     \* bound: calls of the callback

ASSUME SelectAssumption ==
    /\ None \notin Items /\ Empty \in Texts
    /\ Label \in [Items -> Texts \ {Empty}]
    /\ \A t \in Texts : Found[t] \in Seq(Items)
    /\ MaxAsks \in Nat \ {0}     \* the first label is always asked for

VARIABLES
    value, label,   \* info.value and info.label
    input,          \* the text in the field
    options,        \* the items in the list
    selected,       \* the position selected in it, 0 for none
    hidden,         \* the list is not shown
    focus,          \* "input", "box", "none"; "lost" when the list was hidden under it
    asked,          \* calls of the callback without an answer
    asks,
    crossed         \* observation: an answer came when its question was obsolete

info == <<value, label>>
field == <<input, focus>>
list == <<options, selected, hidden>>
calls == <<asked, asks, crossed>>
vars == <<info, field, list, calls>>

Kinds == {"label", "typed", "down"}
TextOf(v) == IF v = None THEN Empty ELSE Label[v]

-----------------------------------------------------------------------------
(* Questions *)

Ask(kind, about) ==
    /\ asks < MaxAsks
    /\ asks' = asks + 1
    /\ asked' = asked \cup {[id |-> asks + 1, kind |-> kind, about |-> about]}
    /\ UNCHANGED crossed

\* setValue of the form: the label is asked for.
SetValue(v) ==
    /\ Ask("label", v)
    /\ value' = v
    /\ UNCHANGED <<label, field, list>>

Enter ==
    /\ focus \in {"none", "lost"} /\ focus' = "input"
    /\ UNCHANGED <<info, input, list, calls>>

Type(t) ==
    /\ focus = "input"
    /\ input' = t
    /\ Ask("typed", t)
    /\ UNCHANGED <<info, focus, list>>

\* An item of the list becomes the value and is shown.
Pick(i) ==
    /\ value' = options'[i] /\ label' = Label[options'[i]]
    /\ input' = Label[options'[i]] /\ selected' = i

\* ArrowDown in the field: into the list that is shown, or a new one is asked for.
Down ==
    /\ focus = "input" /\ focus' = "box"
    /\ \/ /\ ~hidden /\ options # <<>>
          /\ UNCHANGED <<options, hidden, calls>>
          /\ Pick(1)
       \/ /\ hidden \/ options = <<>>
          /\ options' = <<>> /\ hidden' = FALSE /\ selected' = 0
          /\ Ask("down", input)
          /\ UNCHANGED <<info, input>>

\* The change event of the list; it may end with nothing selected.
Change ==
    /\ focus = "box" /\ ~hidden
    /\ UNCHANGED <<options, hidden, focus, calls>>
    /\ \/ \E i \in DOMAIN options : Pick(i)
       \/ /\ selected # 0 /\ selected' = 0
          /\ value' = None /\ input' = Empty /\ UNCHANGED label

\* ArrowUp at the top of the list, Escape and Enter lead back to the field.
Up ==
    /\ focus = "box" /\ selected < 2
    /\ selected' = 0 /\ focus' = "input"
    /\ UNCHANGED <<info, input, options, hidden, calls>>

CloseList ==
    /\ focus = "box"
    /\ hidden' = TRUE /\ focus' = "input"
    /\ UNCHANGED <<info, input, options, selected, calls>>

\* Mutant: an emptied field leaves the value.
LooseFocusKeeps ==
    /\ focus # "none" /\ focus' = "none"
    /\ hidden' = TRUE
    /\ input' = IF input = Empty THEN Empty ELSE label
    /\ UNCHANGED <<info, options, selected, calls>>

\* looseFocus: the focus leaves the widget, from the field or from the list.
LooseFocus ==
    /\ focus # "none" /\ focus' = "none"
    /\ hidden' = TRUE
    /\ \/ /\ value = None /\ input # Empty /\ options # <<>>
          /\ value' = options[1] /\ label' = Label[options[1]] /\ input' = Label[options[1]]
       \/ /\ value = None /\ input # Empty /\ options = <<>>
          /\ input' = Empty /\ UNCHANGED info
       \/ /\ input = Empty
          /\ value' = None /\ label' = Empty /\ UNCHANGED input
       \/ /\ value # None /\ input # Empty
          /\ input' = label /\ UNCHANGED info
    /\ UNCHANGED <<options, selected, calls>>

-----------------------------------------------------------------------------
(* Answers *)

Answered(q, late) ==
    /\ asked' = asked \ {q}
    /\ crossed' = (crossed \/ late)
    /\ UNCHANGED asks

AnswerLabel(q) ==
    /\ q \in asked /\ q.kind = "label"
    /\ label' = TextOf(q.about) /\ input' = TextOf(q.about)
    /\ Answered(q, q.about # value)
    /\ UNCHANGED <<value, focus, list>>

\* populate: the list is filled; an empty answer hides it and leaves what it held,
\* and a focus in it is gone.
Populate(found) ==
    /\ options' = IF found = <<>> THEN options ELSE found
    /\ hidden' = (found = <<>>)

FocusAfter(found) == IF found = <<>> /\ focus = "box" THEN "lost" ELSE focus

\* Mutant: a list that is filled again keeps the position selected in the old one.
AnswerTypedKeeps(q) ==
    /\ q \in asked /\ q.kind = "typed"
    /\ Populate(Found[q.about])
    /\ value' = IF options' = <<>> THEN None ELSE options'[1]
    /\ label' = IF options' = <<>> THEN label ELSE Label[options'[1]]
    /\ focus' = FocusAfter(Found[q.about])
    /\ Answered(q, focus = "none")
    /\ UNCHANGED <<input, selected>>

AnswerTyped(q) ==
    /\ q \in asked /\ q.kind = "typed"
    /\ Populate(Found[q.about])
    /\ value' = IF options' = <<>> THEN None ELSE options'[1]
    /\ label' = IF options' = <<>> THEN label ELSE Label[options'[1]]
    /\ focus' = FocusAfter(Found[q.about])
    /\ selected' = IF Found[q.about] = <<>> THEN selected ELSE 0
    /\ Answered(q, focus = "none")
    /\ UNCHANGED input

AnswerDown(q) ==
    /\ q \in asked /\ q.kind = "down"
    /\ Populate(Found[q.about])
    /\ \/ /\ options' # <<>> /\ Pick(1)
          /\ focus' = FocusAfter(Found[q.about])
       \/ /\ options' = <<>> /\ focus' = "input"
          /\ value' = None /\ UNCHANGED <<label, input, selected>>
    /\ Answered(q, focus = "none")

\* The callback fails: the rejection is nobody's.
Fail(q) ==
    /\ q \in asked
    /\ Answered(q, q.kind = "label")
    /\ UNCHANGED <<info, field, list>>

-----------------------------------------------------------------------------
Init ==
    /\ value \in Items \cup {None}
    /\ label = Empty /\ input = Empty
    /\ options = <<>> /\ selected = 0 /\ hidden = TRUE
    /\ focus = "none"
    /\ asked = {[id |-> 1, kind |-> "label", about |-> value]} /\ asks = 1
    /\ crossed = FALSE

Answer(q) == AnswerLabel(q) \/ AnswerTyped(q) \/ AnswerDown(q)

Next ==
    \/ \E v \in Items \cup {None} : SetValue(v)
    \/ \E t \in Texts : Type(t)
    \/ Enter \/ Down \/ Change \/ Up \/ CloseList \/ LooseFocus
    \/ \E q \in asked : Answer(q) \/ Fail(q)

Spec == Init /\ [][Next]_vars

-----------------------------------------------------------------------------
(* Properties *)

\* The state is of the expected form.
TypeOK ==
    /\ value \in Items \cup {None} /\ {label, input} \subseteq Texts
    /\ options \in Seq(Items) /\ selected \in 0 .. Len(options) /\ hidden \in BOOLEAN
    /\ focus \in {"none", "input", "box", "lost"}
    /\ asked \subseteq [id : 1 .. asks, kind : Kinds, about : Items \cup {None} \cup Texts]
    /\ asks \in 1 .. MaxAsks /\ crossed \in BOOLEAN

AtRest == focus = "none" /\ asked = {}

\* When the user has left the widget and every answer has come, the text shown is
\* that of the value the form reads, and an empty field reads as null, whatever
\* was typed, picked and answered in between (looseFocus and the three places
\* that write info).  Exempt are answers that nobody waits for any more: a list
\* that arrives after the focus has left, a label of a value replaced meanwhile.
ShownIsRead == AtRest /\ ~crossed => input = TextOf(value)
=============================================================================
