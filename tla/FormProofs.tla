----------------------------- MODULE FormProofs -----------------------------
(***************************************************************************)
(* What holds of a form for every set of contents, values, texts and items, *)
(* whatever the bounds.  The four parts of MCForm share no state, so each  *)
(* has an inductive invariant of its own, which the steps of the others     *)
(* leave as it is.                                                          *)
(***************************************************************************)
EXTENDS MCForm, FoldTheorems, TLAPS

(* X-SELECT *)

Wanted == Items \cup {None}
Question == [id : Nat, kind : {"label"}, about : Wanted]
            \cup [id : Nat, kind : {"typed", "down"}, about : Texts]

\* A label that the form asked for and that has not come yet.
LabelPending == \E q \in asked : q.kind = "label"

\* Until the label of the value has come, the field and the label may differ from it;
\* while the user is in the widget, only the label is that of the value.
SelectInv ==
    /\ TypeOK /\ asked \subseteq Question
    /\ focus = "none" /\ ~crossed => input = TextOf(value) \/ LabelPending
    /\ value # None /\ ~crossed => label = Label[value] \/ LabelPending

LEMMA TextOfType == ASSUME NEW v \in Wanted PROVE TextOf(v) \in Texts
  BY SelectAssumption DEF Wanted, TextOf

LEMMA EmptyList ==
  ASSUME NEW S, NEW s, s = <<>> PROVE s \in Seq(S) /\ 0 \in 0 .. Len(s) /\ Len(s) = 0
<1>1. <<>> \in Seq(S) /\ Len(<<>>) = 0
  OBVIOUS
<1>2. Len(s) = 0
  BY <1>1
<1> QED
  BY <1>1, <1>2

LEMMA SelectInit == Init => SelectInv
<1> SUFFICES ASSUME Init PROVE SelectInv
  OBVIOUS
<1>1. /\ asked \subseteq Question /\ LabelPending
      /\ asked \subseteq [id : 1 .. asks, kind : Kinds, about : Items \cup {None} \cup Texts]
  BY DEF Init, Question, LabelPending, Wanted, Kinds
<1>2. options \in Seq(Items) /\ selected \in 0 .. Len(options)
  BY EmptyList DEF Init
<1>3. /\ value \in Items \cup {None} /\ label \in Texts /\ input \in Texts
      /\ hidden \in BOOLEAN /\ focus \in {"none", "input", "box", "lost"}
      /\ crossed \in BOOLEAN
  BY SelectAssumption DEF Init
<1>4. asks \in 1 .. MaxAsks
  <2>1. asks = 1 /\ MaxAsks \in Nat \ {0}
    BY SelectAssumption DEF Init
  <2> QED
    BY <2>1
<1>5. TypeOK
  BY <1>1, <1>2, <1>3, <1>4 DEF TypeOK
<1> QED
  BY <1>1, <1>5 DEF SelectInv, Init

\* What a new question adds, and what an answer takes away.
LEMMA AskKeeps ==
  ASSUME SelectInv, NEW kd, NEW about, Ask(kd, about),
         \/ kd = "label" /\ about \in Wanted
         \/ kd \in {"typed", "down"} /\ about \in Texts
  PROVE  /\ asked' \subseteq Question
         /\ asked' \subseteq [id : 1 .. asks', kind : Kinds, about : Items \cup {None} \cup Texts]
         /\ asks' \in 1 .. MaxAsks /\ crossed' = crossed
         /\ LabelPending \/ kd = "label" => LabelPending'
<1> DEFINE q == [id |-> asks + 1, kind |-> kd, about |-> about]
<1>1. asks \in 1 .. MaxAsks /\ asks + 1 \in 1 .. MaxAsks /\ asks' = asks + 1
  BY SelectAssumption DEF SelectInv, TypeOK, Ask
<1>2. q \in Question /\ q \in [id : 1 .. asks', kind : Kinds, about : Items \cup {None} \cup Texts]
  BY <1>1, SelectAssumption DEF Question, Kinds, Wanted
<1>3. asked' = asked \cup {q} /\ crossed' = crossed
  BY DEF Ask
<1>4. \A r \in asked : r \in [id : 1 .. asks', kind : Kinds, about : Items \cup {None} \cup Texts]
  <2>1. asked \subseteq [id : 1 .. asks, kind : Kinds, about : Items \cup {None} \cup Texts]
    BY DEF SelectInv, TypeOK
  <2> QED
    BY <1>1, <2>1
<1>5. LabelPending \/ kd = "label" => LabelPending'
  <2>1. LabelPending => LabelPending'
    BY <1>3 DEF LabelPending
  <2>2. q \in asked' /\ q.kind = kd
    BY <1>3
  <2> QED
    BY <2>1, <2>2 DEF LabelPending
<1> HIDE DEF q
<1> QED
  BY <1>1, <1>2, <1>3, <1>4, <1>5 DEF SelectInv

LEMMA AnsweredKeeps ==
  ASSUME SelectInv, NEW q \in asked, NEW late \in BOOLEAN, Answered(q, late)
  PROVE  /\ asked' \subseteq Question
         /\ asked' \subseteq [id : 1 .. asks', kind : Kinds, about : Items \cup {None} \cup Texts]
         /\ asks' \in 1 .. MaxAsks /\ crossed' \in BOOLEAN
         /\ ~crossed' => ~crossed /\ ~late
         /\ LabelPending /\ q.kind # "label" => LabelPending'
  BY DEF SelectInv, TypeOK, Answered, LabelPending

LEMMA SelectStep == SelectInv /\ [Next]_vars => SelectInv'
<1> SUFFICES ASSUME SelectInv, [Next]_vars PROVE SelectInv'
  OBVIOUS
<1> USE SelectAssumption
<1>0. /\ value \in Wanted /\ label \in Texts /\ input \in Texts
      /\ options \in Seq(Items) /\ selected \in 0 .. Len(options) /\ hidden \in BOOLEAN
      /\ focus \in {"none", "input", "box", "lost"} /\ crossed \in BOOLEAN
      /\ asks \in 1 .. MaxAsks /\ asked \subseteq Question
      /\ asked \subseteq [id : 1 .. asks, kind : Kinds, about : Items \cup {None} \cup Texts]
  BY DEF SelectInv, TypeOK, Wanted
<1>i. /\ focus = "none" /\ ~crossed => input = TextOf(value) \/ LabelPending
      /\ value # None /\ ~crossed => label = Label[value] \/ LabelPending
  BY DEF SelectInv
<1>p. ASSUME NEW i \in DOMAIN options', options' \in Seq(Items), Pick(i)
      PROVE  /\ value' \in Items /\ label' = Label[value'] /\ input' = Label[value']
             /\ label' \in Texts /\ input' \in Texts /\ selected' \in 0 .. Len(options')
             /\ input' = TextOf(value')
  BY <1>p DEF Pick, TextOf
\* What is left to show, in one place.
<1>q. ASSUME value' \in Wanted, label' \in Texts, input' \in Texts,
             options' \in Seq(Items), selected' \in 0 .. Len(options'), hidden' \in BOOLEAN,
             focus' \in {"none", "input", "box", "lost"}, crossed' \in BOOLEAN,
             asks' \in 1 .. MaxAsks, asked' \subseteq Question,
             asked' \subseteq [id : 1 .. asks', kind : Kinds, about : Items \cup {None} \cup Texts],
             focus' = "none" /\ ~crossed' => input' = TextOf(value') \/ LabelPending',
             value' # None /\ ~crossed' => label' = Label[value'] \/ LabelPending'
      PROVE  SelectInv'
  BY <1>q DEF SelectInv, TypeOK, Wanted
<1>1. ASSUME NEW v \in Wanted, SetValue(v) PROVE SelectInv'
  <2>1. Ask("label", v) /\ value' = v /\ UNCHANGED <<label, field, list>>
    BY <1>1 DEF SetValue
  <2>2. /\ asked' \subseteq Question /\ LabelPending'
        /\ asked' \subseteq [id : 1 .. asks', kind : Kinds, about : Items \cup {None} \cup Texts]
        /\ asks' \in 1 .. MaxAsks /\ crossed' = crossed
    BY <2>1, AskKeeps
  <2> QED
    BY <1>0, <1>i, <1>q, <2>1, <2>2 DEF field, list
<1>2. ASSUME NEW t \in Texts, Type(t) PROVE SelectInv'
  <2>1. Ask("typed", t) /\ focus = "input" /\ input' = t /\ UNCHANGED <<info, focus, list>>
    BY <1>2 DEF Type
  <2>2. /\ asked' \subseteq Question /\ (LabelPending => LabelPending')
        /\ asked' \subseteq [id : 1 .. asks', kind : Kinds, about : Items \cup {None} \cup Texts]
        /\ asks' \in 1 .. MaxAsks /\ crossed' = crossed
    BY <2>1, AskKeeps
  <2> QED
    BY <1>0, <1>i, <1>q, <2>1, <2>2 DEF info, list
<1>3. CASE Enter
  BY <1>0, <1>i, <1>q, <1>3 DEF Enter, info, list, calls, LabelPending
<1>4. CASE Down
  <2>1. CASE ~hidden /\ options # <<>> /\ UNCHANGED <<options, hidden, calls>> /\ Pick(1)
    <3>1. 1 \in DOMAIN options' /\ options' \in Seq(Items)
      BY <1>0, <2>1
    <3>2. focus' = "box"
      BY <1>4 DEF Down
    <3> QED
      BY <1>0, <1>i, <1>p, <1>q, <2>1, <3>1, <3>2 DEF calls, Wanted
  <2>2. CASE /\ options' = <<>> /\ hidden' = FALSE /\ selected' = 0
             /\ Ask("down", input) /\ UNCHANGED <<info, input>>
    <3>1. focus' = "box"
      BY <1>4 DEF Down
    <3>2. /\ asked' \subseteq Question /\ (LabelPending => LabelPending')
          /\ asked' \subseteq [id : 1 .. asks', kind : Kinds, about : Items \cup {None} \cup Texts]
          /\ asks' \in 1 .. MaxAsks /\ crossed' = crossed
      BY <1>0, <2>2, AskKeeps
    <3>3. options' \in Seq(Items) /\ selected' \in 0 .. Len(options')
      BY <2>2, EmptyList
    <3> QED
      BY <1>0, <1>i, <1>q, <2>2, <3>1, <3>2, <3>3 DEF info
  <2> QED
    BY <1>4, <2>1, <2>2 DEF Down
<1>5. CASE Change
  <2>1. focus = "box" /\ ~hidden /\ UNCHANGED <<options, hidden, focus, calls>>
    BY <1>5 DEF Change
  <2>2. ASSUME NEW i \in DOMAIN options, Pick(i) PROVE SelectInv'
    BY <1>0, <1>i, <1>p, <1>q, <2>1, <2>2 DEF calls, Wanted
  <2>3. CASE selected' = 0 /\ value' = None /\ input' = Empty /\ UNCHANGED label
    BY <1>0, <1>i, <1>q, <2>1, <2>3 DEF calls, Wanted
  <2> QED
    BY <1>5, <2>2, <2>3 DEF Change
<1>6. CASE Up
  BY <1>0, <1>i, <1>q, <1>6 DEF Up, info, calls, LabelPending
<1>7. CASE CloseList
  BY <1>0, <1>i, <1>q, <1>7 DEF CloseList, info, calls, LabelPending
<1>8. CASE LooseFocus
  <2>1. /\ focus' = "none" /\ hidden' = TRUE /\ UNCHANGED <<options, selected, calls>>
        /\ LabelPending <=> LabelPending'
    BY <1>8 DEF LooseFocus, calls, LabelPending
  <2>2. CASE /\ value = None /\ input # Empty /\ options # <<>>
             /\ value' = options[1] /\ label' = Label[options[1]] /\ input' = Label[options[1]]
    <3>1. options[1] \in Items /\ Label[options[1]] \in Texts /\ options[1] # None
      BY <1>0, <2>2
    <3> QED
      BY <1>0, <1>i, <1>q, <2>1, <2>2, <3>1 DEF calls, Wanted, TextOf
  <2>3. CASE value = None /\ input' = Empty /\ UNCHANGED info
    BY <1>0, <1>i, <1>q, <2>1, <2>3 DEF calls, Wanted, TextOf, info
  <2>4. CASE input = Empty /\ value' = None /\ label' = Empty /\ UNCHANGED input
    BY <1>0, <1>i, <1>q, <2>1, <2>4 DEF calls, Wanted, TextOf
  <2>5. CASE value # None /\ input' = label /\ UNCHANGED info
    BY <1>0, <1>i, <1>q, <2>1, <2>5 DEF calls, Wanted, TextOf, info
  <2> QED
    BY <1>8, <2>2, <2>3, <2>4, <2>5 DEF LooseFocus
<1>9. ASSUME NEW q \in asked, Answer(q) PROVE SelectInv'
  <2>a. ASSUME NEW late \in BOOLEAN, Answered(q, late)
        PROVE  /\ asked' \subseteq Question
               /\ asked' \subseteq [id : 1 .. asks', kind : Kinds, about : Items \cup {None} \cup Texts]
               /\ asks' \in 1 .. MaxAsks /\ crossed' \in BOOLEAN
               /\ ~crossed' => ~crossed /\ ~late
               /\ LabelPending /\ q.kind # "label" => LabelPending'
    BY <2>a, AnsweredKeeps
  <2>1. CASE AnswerLabel(q)
    <3>1. /\ q.kind = "label" /\ label' = TextOf(q.about) /\ input' = TextOf(q.about)
          /\ Answered(q, q.about # value) /\ UNCHANGED <<value, focus, list>>
      BY <2>1 DEF AnswerLabel
    <3>2. q.about \in Wanted
      BY <1>0, <3>1 DEF Question
    <3>3. TextOf(q.about) \in Texts
      BY <3>2, TextOfType
    <3>4. ~crossed' => input' = TextOf(value') /\ label' = TextOf(value')
      BY <2>a, <3>1
    <3>5. value' # None => TextOf(value') = Label[value']
      BY DEF TextOf
    <3> QED
      BY <1>0, <1>i, <1>q, <2>a, <3>1, <3>3, <3>4, <3>5 DEF list
  <2>2. CASE AnswerTyped(q)
    <3> DEFINE found == Found[q.about]
    <3>1. /\ q.kind = "typed" /\ Populate(found) /\ focus' = FocusAfter(found)
          /\ value' = IF options' = <<>> THEN None ELSE options'[1]
          /\ label' = IF options' = <<>> THEN label ELSE Label[options'[1]]
          /\ selected' = IF found = <<>> THEN selected ELSE 0
          /\ Answered(q, focus = "none") /\ UNCHANGED input
      BY <2>2 DEF AnswerTyped
    <3>2. found \in Seq(Items)
      BY <1>0, <3>1 DEF Question
    <3> HIDE DEF found
    <3>3. /\ options' \in Seq(Items) /\ hidden' \in BOOLEAN /\ (hidden' => found = <<>>)
          /\ selected' \in 0 .. Len(options')
      <4>1. CASE found = <<>>
        <5>1. options' = options /\ selected' = selected /\ hidden' = TRUE
          BY <3>1, <4>1 DEF Populate
        <5> QED
          BY <1>0, <4>1, <5>1
      <4>2. CASE found # <<>>
        <5>1. options' = found /\ selected' = 0 /\ hidden' = FALSE
          BY <3>1, <4>2 DEF Populate
        <5>2. Len(found) \in Nat
          BY <3>2
        <5>3. 0 \in 0 .. Len(options')
          BY <5>1, <5>2
        <5>4. options' \in Seq(Items)
          BY <3>2, <5>1
        <5> QED
          BY <5>1, <5>3, <5>4, Zenon
      <4> QED
        BY <4>1, <4>2
    <3>4. value' \in Wanted /\ label' \in Texts /\ (value' # None => label' = Label[value'])
      BY <1>0, <3>1, <3>3 DEF Wanted
    <3>5. /\ focus' \in {"none", "input", "box", "lost"} /\ (focus' = "box" => ~hidden')
          /\ focus' = "none" => crossed'
      BY <1>0, <3>1, <3>3, <2>a DEF FocusAfter
    <3> QED
      BY <1>0, <1>q, <2>a, <3>1, <3>3, <3>4, <3>5
  <2>3. CASE AnswerDown(q)
    <3> DEFINE found == Found[q.about]
    <3>1. q.kind = "down" /\ Populate(found) /\ Answered(q, focus = "none")
      BY <2>3 DEF AnswerDown
    <3>2. found \in Seq(Items)
      BY <1>0, <3>1 DEF Question
    <3> HIDE DEF found
    <3>3. options' \in Seq(Items) /\ hidden' \in BOOLEAN /\ (hidden' => found = <<>>)
      BY <1>0, <3>1, <3>2 DEF Populate
    <3>4. CASE options' # <<>> /\ Pick(1) /\ focus' = FocusAfter(Found[q.about])
      <4>1. 1 \in DOMAIN options'
        BY <3>3, <3>4
      <4>2. /\ focus' \in {"none", "input", "box", "lost"} /\ (focus' = "box" => ~hidden')
            /\ focus' = "none" => crossed'
        BY <1>0, <3>1, <3>3, <3>4, <2>a DEF FocusAfter, found
      <4> QED
        BY <1>p, <1>q, <2>a, <3>1, <3>3, <3>4, <4>1, <4>2 DEF Wanted
    <3>5. CASE /\ options' = <<>> /\ focus' = "input" /\ value' = None
               /\ UNCHANGED <<label, input, selected>>
      <4>1. selected' = 0
        <5>1. options = <<>>
          BY <1>0, <3>1, <3>2, <3>5 DEF Populate
        <5> QED
          BY <1>0, <3>5, <5>1, EmptyList
      <4>2. selected' \in 0 .. Len(options')
        BY <3>5, <4>1, EmptyList
      <4> QED
        BY <1>0, <1>q, <4>2, <2>a, <3>1, <3>3, <3>5, <4>1 DEF Wanted
    <3> QED
      BY <2>3, <3>4, <3>5 DEF AnswerDown
  <2> QED
    BY <1>9, <2>1, <2>2, <2>3 DEF Answer
<1>10. ASSUME NEW q \in asked, Fail(q) PROVE SelectInv'
  <2>1. Answered(q, q.kind = "label") /\ UNCHANGED <<info, field, list>>
    BY <1>10 DEF Fail
  <2>2. /\ asked' \subseteq Question
        /\ asked' \subseteq [id : 1 .. asks', kind : Kinds, about : Items \cup {None} \cup Texts]
        /\ asks' \in 1 .. MaxAsks /\ crossed' \in BOOLEAN
        /\ ~crossed' => ~crossed /\ q.kind # "label"
        /\ LabelPending /\ q.kind # "label" => LabelPending'
    BY <2>1, AnsweredKeeps
  <2> QED
    BY <1>0, <1>i, <1>q, <2>1, <2>2 DEF info, field, list
<1>11. CASE UNCHANGED vars
  BY <1>0, <1>i, <1>q, <1>11 DEF vars, info, field, list, calls, LabelPending
<1> QED
  BY <1>1, <1>2, <1>3, <1>4, <1>5, <1>6, <1>7, <1>8, <1>9, <1>10, <1>11 DEF Next, Wanted

LEMMA SelectAlways == Spec => []SelectInv
  BY SelectInit, SelectStep, PTL DEF Spec

\* XSelect: when the user has left the widget and no answer is due, what the field
\* shows is what the form reads.
THEOREM SelectShowsValue == Spec => []ShownIsRead
<1>1. SelectInv => ShownIsRead
  BY DEF SelectInv, ShownIsRead, AtRest, LabelPending
<1> QED
  BY <1>1, SelectAlways, PTL

-----------------------------------------------------------------------------
(* FormFields *)

Written0(k) == IF k \in {"text", "select"} THEN {Str({})} ELSE {}

\* What may be written to a field: what the page gives and what was read from it.
Settable(k) == Values(k) \cup Written0(k)

\* A promise keeps a value for the field it was given to, and what was read is a value
\* the field could hold then.
FieldInv ==
    /\ FieldTypeOK
    /\ held \in [Contents -> SUBSET (Named \cup {On})]
    /\ byName => content \in Contents
    /\ \A q \in awaited : q.at \in Contents /\ q.val \in Values(kind[q.at])
    /\ saved.at \in Contents =>
          \E v \in Holds(kind[saved.at], Named) : saved.val = Read(kind[saved.at], v)

LEMMA HoldsMore ==
  ASSUME NEW k \in FieldKinds, NEW O \in SUBSET Named, NEW v \in Holds(k, O)
  PROVE  v \in Holds(k, Named) /\ v \in SUBSET (Named \cup {On})
<1>1. CASE k \in {"flag", "xcheck"}
  BY <1>1 DEF Holds
<1>2. CASE k \in {"boxes", "rows"}
  BY <1>2 DEF Holds
<1>3. CASE k \in {"radio", "text", "date"}
  BY <1>3 DEF Holds
<1>4. CASE k = "select"
  BY <1>4 DEF Holds
<1> QED
  BY <1>1, <1>2, <1>3, <1>4 DEF FieldKinds

\* Whatever is written, a field holds something of its kind.
LEMMA WrittenHolds ==
  ASSUME NEW k \in FieldKinds, NEW opts \in SUBSET Named, NEW cur \in Holds(k, opts),
         NEW val \in Settable(k)
  PROVE  /\ Options(k, opts, val) \in SUBSET Named
         /\ Written(k, cur, Options(k, opts, val), val) \in Holds(k, Options(k, opts, val))
<1>0. Options(k, opts, val) \in SUBSET Named
  <2>1. CASE k # "select"
    BY <2>1 DEF Options
  <2>2. CASE k = "select"
    BY <2>2 DEF Options, Settable, Values, PlainValues, FlaggedLists, Flagged, Written0, Null, List, Str
  <2> QED
    BY <2>1, <2>2
<1> DEFINE O == Options(k, opts, val)
           W == Written(k, cur, O, val)
<1>1. CASE k \in {"flag", "xcheck"}
  <2>1. \/ val.type = "null" /\ val.v = {}
        \/ val.type = "bool" /\ val.v \in {{}, {On}}
    BY <1>1 DEF Settable, Values, PlainValues, Written0, Null, Bool
  <2>2. Holds(k, opts) = {{}, {On}} /\ Holds(k, O) = {{}, {On}}
    BY <1>1 DEF Holds
  <2>3. W \in {cur, val.v, {}, {On}}
    BY <1>1 DEF Written, Input, XCheck, Ticked
  <2> QED
    BY <1>0, <2>1, <2>2, <2>3
<1>2. CASE k \in {"boxes", "rows"}
  <2>1. val.v \in SUBSET Named
    BY <1>2 DEF Settable, Values, PlainValues, Written0, Null, List, Str
  <2>2. Holds(k, opts) = SUBSET Named /\ Holds(k, O) = SUBSET Named
    BY <1>2 DEF Holds
  <2>3. W \in {cur, val.v, {}}
    BY <1>2 DEF Written, Input, Ticked
  <2> QED
    BY <1>0, <2>1, <2>2, <2>3
<1>3. CASE k \in {"radio", "text", "date"}
  <2>1. val.v \in {{}} \cup {{c} : c \in Named}
    BY <1>3 DEF Settable, Values, PlainValues, Written0, Null, Str, Date
  <2>2. /\ Holds(k, opts) = {{}} \cup {{c} : c \in Named}
        /\ Holds(k, O) = {{}} \cup {{c} : c \in Named}
    BY <1>3 DEF Holds
  <2>3. W \in {cur, val.v}
    BY <1>3 DEF Written, Input, Ticked
  <2> HIDE DEF W, O
  <2>4. W \in Holds(k, O)
    <3>1. CASE W = cur
      BY <2>2, <3>1
    <3>2. CASE W = val.v
      BY <2>1, <2>2, <3>2
    <3> QED
      BY <2>3, <3>1, <3>2
  <2> QED
    BY <1>0, <2>4 DEF W, O
<1>4. CASE k = "select"
  <2> DEFINE s == CASE val.type = "string" -> val.v [] val.type = "flagged" -> val.sel [] OTHER -> cur
  <2>0. cur = {} \/ \E n \in Named : cur = {n}
    BY <1>4 DEF Holds
  <2>1. s = {} \/ \E n \in Named : s = {n}
    <3>1. CASE val \in FlaggedLists
      <4>1. PICK t \in SUBSET Named : \E o \in t : val = Flagged(t, o)
        BY <3>1 DEF FlaggedLists
      <4>2. val.type = "flagged" /\ \E n \in Named : val.sel = {n}
        BY <4>1 DEF Flagged
      <4> QED
        BY <4>2
    <3>2. CASE val \in PlainValues(k) \cup Written0(k)
      <4>1. \/ val.type \in {"null", "list"}
            \/ val.type = "string" /\ (val.v = {} \/ \E n \in Named : val.v = {n})
        BY <1>4, <3>2 DEF PlainValues, Written0, Null, List, Str
      <4> QED
        BY <2>0, <4>1
    <3> QED
      BY <1>4, <3>1, <3>2 DEF Settable, Values
  <2>2. Written(k, cur, O, val) = s \cap O
    BY <1>4 DEF Written, Selected
  <2> HIDE DEF s, O
  <2>3. s \cap O = {} \/ \E n \in O : s \cap O = {n}
    BY <2>1
  <2>4. Holds(k, O) = {{}} \cup {{c} : c \in O}
    BY <1>4 DEF Holds
  <2> QED
    BY <1>0, <2>2, <2>3, <2>4 DEF O
<1> QED
  BY <1>1, <1>2, <1>3, <1>4 DEF FieldKinds

\* What was read can be set, and a field that holds it reads the same.
LEMMA ReadIsSettable ==
  ASSUME NEW k \in FieldKinds, NEW v \in Holds(k, Named)
  PROVE  Read(k, v) = NoValue \/ Read(k, v) \in Settable(k)
<1>1. CASE k \in {"flag", "xcheck"}
  BY <1>1 DEF Holds, Read, Settable, Values, PlainValues
<1>2. CASE k \in {"boxes", "rows"}
  BY <1>2 DEF Holds, Read, Settable, Values, PlainValues
<1>3. CASE k = "radio"
  BY <1>3 DEF Holds, Read, Settable, Values, PlainValues
<1>4. CASE k = "text"
  BY <1>4 DEF Holds, Read, Settable, Values, PlainValues, Written0
<1>5. CASE k = "date"
  BY <1>5 DEF Holds, Read, Settable, Values, PlainValues
<1>6. CASE k = "select"
  BY <1>6 DEF Holds, Read, Settable, Values, PlainValues, Written0
<1> QED
  BY <1>1, <1>2, <1>3, <1>4, <1>5, <1>6 DEF FieldKinds

LEMMA ReadBack ==
  ASSUME NEW k \in FieldKinds, NEW opts \in SUBSET Named, NEW cur, NEW v \in Holds(k, Named),
         Read(k, v) \notin {NoValue, Null}, k = "select" => Read(k, v).v \subseteq opts
  PROVE  Read(k, Written(k, cur, Options(k, opts, Read(k, v)), Read(k, v))) = Read(k, v)
<1>1. CASE k = "flag"
  BY <1>1 DEF Holds, Read, Bool, Written, Input, Ticked
<1>2. CASE k = "boxes"
  BY <1>2 DEF Holds, Read, List, Written, Input, Ticked
<1>3. CASE k = "radio"
  BY <1>3 DEF Holds, Read, Str, NoValue, Written, Input, Ticked
<1>4. CASE k = "text"
  BY <1>4 DEF Holds, Read, Str, Written, Input
<1>5. CASE k = "date"
  BY <1>5 DEF Holds, Read, Date, Null, Written, Input, Ticked
<1>6. CASE k = "rows"
  BY <1>6 DEF Holds, Read, List, Written
<1>7. CASE k = "xcheck"
  BY <1>7 DEF Holds, Read, Bool, Written, XCheck
<1>8. CASE k = "select"
  <2>1. Read(k, v) = Str(v)
    BY <1>8 DEF Read
  <2>2. Options(k, opts, Str(v)) = opts /\ v \subseteq opts
    BY <1>8, <2>1 DEF Options, Str
  <2>3. Written(k, cur, opts, Str(v)) = v
    <3>1. Written(k, cur, opts, Str(v)) = v \cap opts
      BY <1>8 DEF Written, Selected, Str
    <3> QED
      BY <2>2, <3>1
  <2> QED
    BY <2>1, <2>2, <2>3
<1> QED
  BY <1>1, <1>2, <1>3, <1>4, <1>5, <1>6, <1>7, <1>8 DEF FieldKinds

\* Rendering writes one field.
LEMMA RenderKeeps ==
  ASSUME FieldInv, NEW c \in Contents, NEW val \in Settable(kind[c]), Render(c, val)
  PROVE  /\ kind' = kind /\ extracted' = extracted /\ built' \subseteq Contents
         /\ offered' \in [Contents -> SUBSET Named]
         /\ held' \in [Contents -> SUBSET (Named \cup {On})]
         /\ \A d \in Contents : held'[d] \in Holds(kind[d], offered'[d])
         /\ \A d \in Contents \ {c} : held'[d] = held[d]
         /\ held'[c] = Written(kind[c], held[c], Options(kind[c], offered[c], val), val)
<1>1. /\ kind \in [Contents -> FieldKinds] /\ offered \in [Contents -> SUBSET Named]
      /\ held \in [Contents -> SUBSET (Named \cup {On})] /\ built \subseteq Contents
      /\ \A d \in Contents : held[d] \in Holds(kind[d], offered[d])
  BY DEF FieldInv, FieldTypeOK
<1> DEFINE O == Options(kind[c], offered[c], val)
           W == Written(kind[c], held[c], O, val)
<1>2. O \in SUBSET Named /\ W \in Holds(kind[c], O)
  BY <1>1, WrittenHolds
<1>3. W \in SUBSET (Named \cup {On})
  BY <1>1, <1>2, HoldsMore
<1>4. offered' = [offered EXCEPT ![c] = O]
  BY DEF Render
<1>5. held' = [held EXCEPT ![c] = W]
  <2>1. offered'[c] = O
    BY <1>1, <1>4
  <2> QED
    BY <2>1 DEF Render
<1>6. kind' = kind /\ extracted' = extracted /\ built' = built \cup {c}
  BY DEF Render
<1> HIDE DEF O, W
<1>7. \A d \in Contents : held'[d] \in Holds(kind[d], offered'[d])
  <2> SUFFICES ASSUME NEW d \in Contents PROVE held'[d] \in Holds(kind[d], offered'[d])
    OBVIOUS
  <2>1. CASE d = c
    BY <1>1, <1>2, <1>4, <1>5, <2>1
  <2>2. CASE d # c
    <3>1. held'[d] = held[d] /\ offered'[d] = offered[d]
      BY <1>1, <1>4, <1>5, <2>2
    <3> QED
      BY <1>1, <3>1
  <2> QED
    BY <2>1, <2>2
<1> QED
  BY <1>1, <1>2, <1>3, <1>4, <1>5, <1>6, <1>7 DEF O, W

LEMMA FieldInitInv == FieldInit => FieldInv
<1> SUFFICES ASSUME FieldInit PROVE FieldInv
  OBVIOUS
<1>1. PICK k \in FieldKinds : kind = [c \in Contents |-> k]
  BY DEF FieldInit
<1> DEFINE one == {CHOOSE n \in Named : TRUE}
<1>2. \E n \in Named : one = {n}
  BY FieldAssumption
<1> HIDE DEF one
<1>3. /\ offered = [c \in Contents |-> Named]
      /\ held = [c \in Contents |-> IF kind[c] = "select" THEN one ELSE {}]
  BY DEF FieldInit, one
<1>4. kind \in [Contents -> FieldKinds] /\ offered \in [Contents -> SUBSET Named]
  BY <1>1, <1>3
<1>5. \A c \in Contents : held[c] = IF k = "select" THEN one ELSE {}
  BY <1>1, <1>3
<1>6. held \in [Contents -> SUBSET (Named \cup {On})]
  BY <1>2, <1>3
<1>7. \A c \in Contents : held[c] \in Holds(kind[c], offered[c])
  <2> SUFFICES ASSUME NEW c \in Contents PROVE held[c] \in Holds(k, Named)
    BY <1>1, <1>3
  <2>1. CASE k = "select"
    BY <1>2, <1>5, <2>1 DEF Holds
  <2>2. CASE k # "select"
    BY <1>5, <2>2 DEF Holds, FieldKinds
  <2> QED
    BY <2>1, <2>2
<1> QED
  BY <1>4, <1>6, <1>7, FieldAssumption DEF FieldInit, FieldInv, FieldTypeOK

LEMMA FieldStep == FieldInv /\ [FieldNext]_fieldVars => FieldInv'
<1> SUFFICES ASSUME FieldInv, [FieldNext]_fieldVars PROVE FieldInv'
  OBVIOUS
<1>0. /\ kind \in [Contents -> FieldKinds] /\ offered \in [Contents -> SUBSET Named]
      /\ held \in [Contents -> SUBSET (Named \cup {On})]
      /\ \A c \in Contents : held[c] \in Holds(kind[c], offered[c])
      /\ content \in Contents \cup {NoContent} /\ byName \in BOOLEAN
      /\ groups \subseteq extracted /\ extracted \subseteq Contents /\ built \subseteq Contents
      /\ marks \subseteq marked /\ marked \subseteq Contents
      /\ action \in Contents \cup {NoContent}
      /\ (byName => content \in Contents)
      /\ NoContent \notin Contents
  BY FieldAssumption DEF FieldInv, FieldTypeOK
\* The four parts of the invariant, each to be shown where a step disturbs it.
<1> DEFINE ElementsOK == /\ kind' = kind /\ offered' \in [Contents -> SUBSET Named]
                         /\ held' \in [Contents -> SUBSET (Named \cup {On})]
                         /\ \A c \in Contents : held'[c] \in Holds(kind[c], offered'[c])
                         /\ built' \subseteq Contents
           ViewOK == /\ content' \in Contents \cup {NoContent} /\ byName' \in BOOLEAN
                     /\ groups' \subseteq extracted' /\ extracted' \subseteq Contents
                     /\ action' \in Contents \cup {NoContent}
                     /\ (byName' => content' \in Contents)
           MarksOK == /\ marks' \subseteq marked' /\ marked' \subseteq Contents
           ValuesOK == /\ \A q \in awaited' : q.at \in Contents /\ q.val \in Values(kind[q.at])
                       /\ saved'.at \in Contents =>
                            \E v \in Holds(kind[saved'.at], Named) :
                                saved'.val = Read(kind[saved'.at], v)
<1>q. ElementsOK /\ ViewOK /\ MarksOK /\ ValuesOK => FieldInv'
  BY <1>0 DEF FieldInv, FieldTypeOK
<1>e. UNCHANGED elements => ElementsOK /\ UNCHANGED extracted
  BY <1>0 DEF elements
<1>v. UNCHANGED view /\ extracted' = extracted => ViewOK
  BY <1>0 DEF view
<1>m. UNCHANGED <<marked, marks>> => MarksOK
  BY <1>0
<1>s. awaited' \subseteq awaited /\ saved' = saved => ValuesOK
  BY DEF FieldInv
<1>o. UNCHANGED others => MarksOK /\ ValuesOK
  BY <1>m, <1>s DEF others
<1>r. ASSUME NEW c \in Contents, NEW val \in Settable(kind[c]), Render(c, val)
      PROVE  ElementsOK /\ extracted' = extracted
  BY <1>r, RenderKeeps
<1> HIDE DEF ElementsOK, ViewOK, MarksOK, ValuesOK
<1>1. ASSUME NEW val \in Values(kind[content]), SetData(val) PROVE FieldInv'
  BY <1>1, <1>0, <1>r, <1>v, <1>o, <1>q DEF SetData, Settable
<1>2. ASSUME NEW val \in Values(kind[content]), SetPromise(val) PROVE FieldInv'
  <2>1. /\ byName /\ UNCHANGED <<elements, view, saved, marked, marks>>
        /\ awaited' = awaited \cup {[id |-> steps, at |-> content, val |-> val]}
    BY <1>2 DEF SetPromise
  <2>2. content \in Contents
    BY <1>0, <2>1
  <2>3. \A q \in awaited' : q.at \in Contents /\ q.val \in Values(kind[q.at])
    BY <2>1, <2>2 DEF FieldInv
  <2>4. ValuesOK
    BY <2>1, <2>3 DEF FieldInv, ValuesOK
  <2> QED
    BY <1>e, <1>v, <1>m, <1>q, <2>1, <2>4
<1>3. ASSUME NEW q \in awaited, Fulfil(q) PROVE FieldInv'
  <2>1. q.at \in Contents /\ q.val \in Settable(kind[q.at])
    BY DEF FieldInv, Settable
  <2>2. /\ Render(q.at, q.val) /\ awaited' \subseteq awaited
        /\ UNCHANGED <<view, saved, marked, marks>>
    BY <1>3 DEF Fulfil
  <2> QED
    BY <1>r, <1>v, <1>m, <1>s, <1>q, <2>1, <2>2
<1>4. ASSUME NEW v \in Holds(kind[content], offered[content]), content # NoContent, Edit(v)
      PROVE  FieldInv'
  <2>1. /\ held' = [held EXCEPT ![content] = v]
        /\ UNCHANGED <<kind, offered, extracted, built, view, others>>
    BY <1>4 DEF Edit
  <2>2. content \in Contents
    BY <1>0, <1>4
  <2>3. v \in SUBSET (Named \cup {On})
    BY <1>0, <2>2, HoldsMore
  <2>4. ElementsOK
    BY <1>0, <2>1, <2>2, <2>3 DEF ElementsOK
  <2> QED
    BY <1>v, <1>o, <1>q, <2>1, <2>4
<1>5. ASSUME NEW c \in Contents, SetContent(c) PROVE FieldInv'
  <2>1. /\ content' = c /\ groups' = RebuiltGroups(c) /\ extracted' = extracted \cup {c}
        /\ byName' = (kind[c] = "rows" => c \in groups')
        /\ action' = NoContent
        /\ UNCHANGED <<kind, held, offered, built, others>>
    BY <1>5 DEF SetContent
  <2>2. groups' \subseteq extracted'
    BY <1>0, <2>1 DEF RebuiltGroups
  <2>3. ViewOK
    BY <1>0, <2>1, <2>2 DEF ViewOK
  <2>4. ElementsOK
    BY <1>0, <2>1 DEF ElementsOK
  <2> QED
    BY <1>o, <1>q, <2>1, <2>3, <2>4
<1>6. CASE ReadData
  <2>1. /\ byName /\ UNCHANGED <<elements, view, awaited, marked, marks>>
        /\ saved' = [at |-> content, val |-> Read(kind[content], held[content])]
    BY <1>6 DEF ReadData
  <2>2. held[content] \in Holds(kind[content], Named)
    BY <1>0, <2>1, HoldsMore
  <2>3. ValuesOK
    BY <2>1, <2>2 DEF FieldInv, ValuesOK
  <2> QED
    BY <1>e, <1>v, <1>m, <1>q, <2>1, <2>3
<1>7. CASE Restore
  <2>1. /\ byName /\ saved.at = content /\ UNCHANGED <<view, others>>
        /\ IF saved.val = NoValue THEN UNCHANGED elements ELSE Render(content, saved.val)
    BY <1>7 DEF Restore
  <2>2. content \in Contents
    BY <1>0, <2>1
  <2>3. CASE saved.val = NoValue
    BY <1>e, <1>v, <1>o, <1>q, <2>1, <2>3
  <2>4. CASE saved.val # NoValue
    <3>1. saved.val \in Settable(kind[content])
      BY <1>0, <2>1, <2>2, <2>4, ReadIsSettable DEF FieldInv
    <3> QED
      BY <1>r, <1>v, <1>o, <1>q, <2>1, <2>2, <2>4, <3>1
  <2> QED
    BY <2>3, <2>4
<1>8. CASE ClearContent
  <2>1. /\ content' = NoContent /\ byName' = FALSE
        /\ UNCHANGED <<elements, groups, action, others>>
    BY <1>8 DEF ClearContent
  <2>2. ViewOK
    BY <1>0, <1>e, <2>1 DEF ViewOK
  <2> QED
    BY <1>e, <1>o, <1>q, <2>1, <2>2
<1>9. CASE Mark
  <2>1. /\ byName /\ UNCHANGED <<elements, view, awaited, saved>>
        /\ marked' = marked \cup {content} /\ marks' = marks \cup {content}
    BY <1>9 DEF Mark
  <2>2. MarksOK
    BY <1>0, <2>1 DEF MarksOK
  <2> QED
    BY <1>e, <1>v, <1>s, <1>q, <2>1, <2>2
<1>10. CASE Unmark
  <2>1. /\ UNCHANGED <<elements, view, awaited, saved>>
        /\ marked' = {} /\ marks' = marks \ marked
    BY <1>10 DEF Unmark
  <2>2. MarksOK
    BY <1>0, <2>1 DEF MarksOK
  <2> QED
    BY <1>e, <1>v, <1>s, <1>q, <2>1, <2>2
<1>11. CASE SetDefaultAction
  <2>1. action' = content /\ UNCHANGED <<elements, content, byName, groups, others>>
    BY <1>11 DEF SetDefaultAction
  <2>2. ViewOK
    BY <1>0, <1>e, <2>1 DEF ViewOK
  <2> QED
    BY <1>e, <1>o, <1>q, <2>1, <2>2
<1>12. CASE UNCHANGED fieldVars
  BY <1>e, <1>v, <1>o, <1>q, <1>12 DEF fieldVars
<1> QED
  BY <1>0, <1>1, <1>2, <1>3, <1>4, <1>5, <1>6, <1>7, <1>8, <1>9, <1>10, <1>11, <1>12
     DEF FieldNext

LEMMA FieldAlways == FieldSpec => []FieldInv
  BY FieldInitInv, FieldStep, PTL DEF FieldSpec

\* FormFields: a field that was read shows that value again when it is set to it.
THEOREM ReadRestores == FieldSpec => Restores
<1>1. ASSUME FieldInv, [FieldNext]_fieldVars, Restore
      PROVE  \/ Read(kind[content], held'[content]) = saved.val
             \/ saved.val \in {NoValue, Null}
             \/ kind[content] = "select" /\ ~(saved.val.v \subseteq offered[content])
  <2>1. /\ byName /\ saved.at = content
        /\ saved.val # NoValue => Render(content, saved.val)
    BY <1>1 DEF Restore
  <2>2. /\ content \in Contents /\ kind[content] \in FieldKinds
        /\ offered[content] \in SUBSET Named
    BY <1>1, <2>1 DEF FieldInv, FieldTypeOK
  <2>3. PICK v \in Holds(kind[content], Named) : saved.val = Read(kind[content], v)
    BY <1>1, <2>1, <2>2 DEF FieldInv
  <2>4. SUFFICES ASSUME saved.val \notin {NoValue, Null},
                        kind[content] = "select" => saved.val.v \subseteq offered[content]
                 PROVE  Read(kind[content], held'[content]) = saved.val
    OBVIOUS
  <2>5. saved.val \in Settable(kind[content])
    BY <2>2, <2>3, <2>4, ReadIsSettable
  <2>6. held'[content] = Written(kind[content], held[content],
                                 Options(kind[content], offered[content], saved.val), saved.val)
    BY <1>1, <2>1, <2>2, <2>4, <2>5, RenderKeeps
  <2> QED
    BY <2>2, <2>3, <2>4, <2>6, ReadBack
<1> QED
  BY <1>1, FieldAlways, PTL DEF FieldSpec, Restores

\* FormFields: a late answer never shows in content it was not asked for.
THEOREM LateAnswersStay == FieldSpec => AnswersStay
<1>1. ASSUME FieldInv, [FieldNext]_fieldVars PROVE AnswerStays
  <2> SUFFICES ASSUME NEW q \in awaited, q \notin awaited', NEW c \in Contents \ {q.at}
               PROVE  held'[c] = held[c]
    BY DEF AnswerStays
  <2>1. Fulfil(q)
    <3>1. \/ \E r \in awaited : Fulfil(r)
          \/ awaited' = awaited
      BY <1>1 DEF FieldNext, SetData, SetPromise, Edit, SetContent, ReadData, Restore,
                  ClearContent, Mark, Unmark, SetDefaultAction, fieldVars, others
    <3> QED
      BY <3>1 DEF Fulfil
  <2>2. q.at \in Contents /\ q.val \in Settable(kind[q.at]) /\ Render(q.at, q.val)
    BY <1>1, <2>1 DEF FieldInv, Settable, Fulfil
  <2> QED
    BY <1>1, <2>2, RenderKeeps
<1> QED
  BY <1>1, FieldAlways, PTL DEF FieldSpec, AnswersStay

-----------------------------------------------------------------------------
(* The scan for the ends of the focus *)

\* Of the first m elements: where Tab arrives first and last.
Scanned(tabs, m, s) ==
    LET able == {i \in 1 .. m : tabs[i] # -1}
    IN  IF able = {} THEN s.first = 0 /\ s.last = 0
        ELSE /\ s.first \in able /\ s.last \in able
             /\ s.low = tabs[s.first] /\ s.high = tabs[s.last]
             /\ \A i \in able :
                  /\ s.low <= tabs[i] /\ (tabs[i] = s.low => s.first <= i)
                  /\ tabs[i] <= s.high /\ (tabs[i] = s.high => i <= s.last)

Ends(n) == [high : Int, low : Int, first : 0 .. n, last : 0 .. n]
ScanStep(tabs, s, i) == IF tabs[i] = -1 THEN s ELSE TabMet(s, i, tabs[i])

LEMMA ScanStepKeeps ==
  ASSUME NEW n \in Nat, NEW tabs \in [1 .. n -> Int], NEW m \in 1 .. n, NEW s \in Ends(n)
  PROVE  /\ ScanStep(tabs, s, m) \in Ends(n)
         /\ Scanned(tabs, m - 1, s) => Scanned(tabs, m, ScanStep(tabs, s, m))
<1> DEFINE before == {i \in 1 .. m - 1 : tabs[i] # -1}
           able == {i \in 1 .. m : tabs[i] # -1}
           t == ScanStep(tabs, s, m)
           tab == tabs[m]
<1>0. /\ tab \in Int /\ m \in 0 .. n /\ s.high \in Int /\ s.low \in Int
      /\ s.first \in 0 .. n /\ s.last \in 0 .. n
      /\ s = [high |-> s.high, low |-> s.low, first |-> s.first, last |-> s.last]
  BY DEF Ends
<1>1. CASE tab = -1
  <2>1. t = s /\ able = before
    BY <1>1 DEF ScanStep
  <2> QED
    BY <2>1 DEF Scanned
<1>2. CASE tab # -1
  <2>1. able = before \cup {m} /\ m \notin before /\ m \in able
    BY <1>2
  <2>2. t = TabMet(s, m, tab)
    BY <1>2 DEF ScanStep
  <2> HIDE DEF t, tab
  \* The record, field by field.
  <2>3. /\ t.high = IF s.first = 0 \/ tab > s.high THEN tab ELSE s.high
        /\ t.low = IF s.first = 0 \/ (~(tab > s.high) /\ tab < s.low) THEN tab ELSE s.low
        /\ t.first = IF s.first = 0 \/ (~(tab > s.high) /\ tab < s.low) THEN m ELSE s.first
        /\ t.last = IF tab = t.high THEN m ELSE IF s.first = 0 THEN 0 ELSE s.last
        /\ t \in Ends(n)
    BY <1>0, <2>2 DEF TabMet, Ends
  <2>4. ASSUME Scanned(tabs, m - 1, s) PROVE Scanned(tabs, m, t)
    <3>1. CASE before = {}
      <4>1. s.first = 0 /\ able = {m}
        BY <2>1, <2>4, <3>1 DEF Scanned
      <4>2. t.high = tab /\ t.low = tab /\ t.first = m /\ t.last = m
        BY <2>3, <4>1
      <4> QED
        BY <1>0, <4>1, <4>2 DEF Scanned, tab
    <3>2. CASE before # {}
      <4>1. /\ s.first \in before /\ s.last \in before
            /\ s.low = tabs[s.first] /\ s.high = tabs[s.last]
            /\ \A i \in before :
                 /\ s.low <= tabs[i] /\ (tabs[i] = s.low => s.first <= i)
                 /\ tabs[i] <= s.high /\ (tabs[i] = s.high => i <= s.last)
        BY <2>4, <3>2 DEF Scanned
      <4>2. s.first # 0 /\ s.low <= s.high
        BY <1>0, <4>1
      <4>3. \A i \in before : tabs[i] \in Int /\ i < m /\ i \in Int
        OBVIOUS
      <4>4. t.first \in able /\ t.last \in able /\ t.low = tabs[t.first] /\ t.high = tabs[t.last]
        BY <1>0, <2>1, <2>3, <4>1, <4>2 DEF tab
      <4>5. ASSUME NEW i \in able
            PROVE  /\ t.low <= tabs[i] /\ (tabs[i] = t.low => t.first <= i)
                   /\ tabs[i] <= t.high /\ (tabs[i] = t.high => i <= t.last)
        <5>1. CASE i = m
          BY <1>0, <2>3, <4>1, <4>2, <4>3, <5>1 DEF tab
        <5>2. CASE i \in before
          BY <1>0, <2>3, <4>1, <4>2, <4>3, <5>2
        <5> QED
          BY <2>1, <5>1, <5>2
      <4> QED
        BY <2>1, <4>4, <4>5 DEF Scanned
    <3> QED
      BY <3>1, <3>2
  <2> QED
    BY <2>3, <2>4 DEF t
<1> QED
  BY <1>1, <1>2

LEMMA ScanIsFold ==
  ASSUME NEW n \in Nat, NEW tabs \in [1 .. n -> Int]
  PROVE  TabEnds(tabs) \in Ends(n) /\ Scanned(tabs, n, TabEnds(tabs))
<1> DEFINE Body(g, T) ==
             IF T = {} THEN NoEnds ELSE ScanStep(tabs, g[T \ {Max(T)}], Max(T))
           Rec(g) == g = [T \in SUBSET (1 .. n) |-> Body(g, T)]
           iter == CHOOSE g : Rec(g)
           F == [u \in Ends(n) \X (1 .. n) |-> ScanStep(tabs, u[1], u[2])]
<1>1. TabEnds(tabs) = iter[1 .. n]
  <2> DEFINE q == [i \in DOMAIN tabs |-> i]
             Body2(g, T) == IF T = {} THEN NoEnds
                            ELSE ScanStep(tabs, g[T \ {Max(T)}], q[Max(T)])
             iter2 == CHOOSE g : g = [T \in SUBSET (1 .. n) |-> Body2(g, T)]
  <2>1. DOMAIN q = 1 .. n
    OBVIOUS
  <2>2. TabEnds(tabs) = iter2[1 .. n]
    BY <2>1 DEF TabEnds, FoldLeft, MapThenFoldSet, ScanStep
  <2>3. ASSUME NEW g PROVE \A T \in SUBSET (1 .. n) : Body2(g, T) = Body(g, T)
    BY MaxInRange
  <2>4. ASSUME NEW g
        PROVE  g = [T \in SUBSET (1 .. n) |-> Body2(g, T)] <=> Rec(g)
    <3>1. \A T \in SUBSET (1 .. n) : Body2(g, T) = Body(g, T)
      BY <2>3
    <3> HIDE DEF Body, Body2
    <3> QED
      BY <3>1
  <2> HIDE DEF Body2
  <2>5. iter2 = iter
    BY <2>4
  <2> QED
    BY <2>2, <2>5
<1>2. F \in [Ends(n) \X (1 .. n) -> Ends(n)] /\ NoEnds \in Ends(n)
  <2>1. \A u \in Ends(n) \X (1 .. n) : ScanStep(tabs, u[1], u[2]) \in Ends(n)
    BY ScanStepKeeps
  <2> QED
    BY <2>1 DEF NoEnds, Ends
<1>3. PICK g : Folding(n, Ends(n), NoEnds, F, g)
  <2> HIDE DEF F
  <2> QED
    BY <1>2, FoldExists
<1>4. Rec(g)
  <2>1. ASSUME NEW T \in SUBSET (1 .. n) PROVE g[T] = Body(g, T)
    <3>1. CASE T = {}
      BY <1>3, <3>1 DEF Folding
    <3>2. CASE T # {}
      <4>1. g[T \ {Max(T)}] \in Ends(n) /\ Max(T) \in 1 .. n
        BY <1>3, <3>2, MaxInRange DEF Folding
      <4>2. g[T] = F[<<g[T \ {Max(T)}], Max(T)>>]
        BY <1>3, <3>2 DEF Folding
      <4> QED
        BY <3>2, <4>1, <4>2
    <3> QED
      BY <3>1, <3>2
  <2>2. g = [T \in SUBSET (1 .. n) |-> g[T]]
    BY <1>3 DEF Folding
  <2> HIDE DEF Body
  <2> QED
    BY <2>1, <2>2
<1> HIDE DEF Rec
<1>5. Rec(iter)
  BY <1>4
<1>6. \A T \in SUBSET (1 .. n) : iter[T] = Body(iter, T)
  <2> HIDE DEF iter, Body
  <2> QED
    BY <1>5 DEF Rec
<1> HIDE DEF iter
<1> DEFINE G == {m \in 0 .. n : iter[1 .. m] \in Ends(n) /\ Scanned(tabs, m, iter[1 .. m])}
<1>7. 0 \in G
  <2>0. 1 .. 0 = {}
    OBVIOUS
  <2>1. 1 .. 0 = {} /\ iter[{}] = NoEnds
    BY <1>6, <2>0
  <2>2. Scanned(tabs, 0, NoEnds)
    BY DEF Scanned, NoEnds
  <2> QED
    BY <1>2, <2>1, <2>2
<1>8. ASSUME NEW m \in 0 .. n, m # n, m \in G PROVE m + 1 \in G
  <2>1. m + 1 \in 1 .. n /\ m + 1 \in 0 .. n /\ m + 1 - 1 = m
    BY <1>8
  <2>2. 1 .. m + 1 \in SUBSET (1 .. n) /\ 1 .. m + 1 # {} /\ m + 1 \in 1 .. m + 1
    BY <2>1
  <2>3. Max(1 .. m + 1) = m + 1
    <3>1. Max(1 .. m + 1) \in 1 .. m + 1 /\ \A y \in 1 .. m + 1 : Max(1 .. m + 1) >= y
      BY <2>2, MaxInRange
    <3>2. Max(1 .. m + 1) >= m + 1
      BY <2>2, <3>1
    <3> QED
      BY <3>1, <3>2
  <2>4. (1 .. m + 1) \ {m + 1} = 1 .. m
    OBVIOUS
  <2>5. iter[1 .. m + 1] = ScanStep(tabs, iter[1 .. m], m + 1)
    BY <1>6, <2>2, <2>3, <2>4
  <2> QED
    BY <1>8, <2>1, <2>5, ScanStepKeeps
<1> HIDE DEF G, F, Body
<1>9. \A m \in 0 .. n : m \in G
  BY <1>7, <1>8, RangeInduction
<1>10. n \in 0 .. n
  OBVIOUS
<1> QED
  BY <1>1, <1>9, <1>10 DEF G

-----------------------------------------------------------------------------
(* The focus *)

\* focus-begin and focus-end have the tab index of an element.
Fenced == guarded => \E i \in Elements : tabIndex[i] = scan.high

FocusInv == FocusTypeOK /\ Fenced /\ FocusStays

LEMMA FormIs ==
  ASSUME NEW c \in Forms
  PROVE  /\ Len(c) \in Nat /\ Len(c) <= MaxElements /\ DOMAIN c = 1 .. Len(c)
         /\ c \in [1 .. Len(c) -> TabIndexes]
<1>1. PICK n \in 0 .. MaxElements : c \in [1 .. n -> TabIndexes]
  BY FocusAssumption DEF Forms, SeqOf
<1>2. n \in Nat /\ n <= MaxElements
  BY <1>1, FocusAssumption
<1>3. Len(c) = n /\ DOMAIN c = 1 .. n
  <2>1. c \in Seq(TabIndexes)
    BY <1>1, <1>2, SeqDef
  <2> QED
    BY <1>1, <1>2, <2>1, LenProperties
<1> QED
  BY <1>1, <1>2, <1>3

\* Positions and tab indexes in a view whose elements have one index.
Fence(n, h) ==
    /\ n \in Nat /\ h \in Nat /\ Elements = 1 .. n /\ enabled \subseteq 1 .. n
    /\ FocusEnd = n + 1 /\ Behind = n + 2
    /\ Stops = enabled \cup {0, n + 1, -1, n + 2}
    /\ Index(-1) \in Nat /\ Index(n + 2) \in Nat
    /\ \A i \in 0 .. n + 1 : Index(i) = h

LEMMA FenceIs ==
  ASSUME FocusTypeOK, Fenced, guarded, Alike
  PROVE  Fence(Len(tabIndex), scan.high)
<1> DEFINE n == Len(tabIndex)
<1>1. n \in Nat /\ DOMAIN tabIndex = 1 .. n /\ tabIndex \in [1 .. n -> TabIndexes]
  BY FormIs DEF FocusTypeOK
<1>2. PICK i \in 1 .. n : tabIndex[i] = scan.high
  BY <1>1 DEF Fenced, Elements
<1>3. scan.high \in Nat /\ \A j \in 1 .. n : tabIndex[j] = scan.high
  BY <1>1, <1>2, FocusAssumption DEF Alike, Elements
<1>4. around.before \in Nat /\ around.behind \in Nat
  BY FocusAssumption DEF FocusTypeOK
<1>5. Index(-1) \in Nat /\ Index(n + 2) \in Nat
  <2>1. n + 2 # -1 /\ -1 \notin {0, n + 1} /\ n + 2 \notin {0, n + 1}
    BY <1>1
  <2>2. Index(-1) = around.before
    BY <2>1 DEF Index, Behind, FocusEnd
  <2>3. Index(n + 2) = around.behind
    BY <2>1 DEF Index, Behind, FocusEnd
  <2> QED
    BY <1>4, <2>2, <2>3
<1>6. \A k \in 0 .. n + 1 : Index(k) = scan.high
  <2> SUFFICES ASSUME NEW k \in 0 .. n + 1 PROVE Index(k) = scan.high
    OBVIOUS
  <2>1. k # -1 /\ k # n + 2 /\ (k \in {0, n + 1} \/ k \in 1 .. n)
    BY <1>1
  <2> QED
    BY <1>1, <1>3, <2>1 DEF Index, Behind, FocusEnd
<1>7. Stops = enabled \cup {0, n + 1, -1, n + 2}
  BY DEF Stops, Guards, FocusEnd, Behind
<1>8. enabled \subseteq 1 .. n
  BY <1>1 DEF FocusTypeOK, Elements
<1> QED
  BY <1>1, <1>3, <1>5, <1>6, <1>7, <1>8 DEF Fence, Elements, FocusEnd, Behind

\* From an element Tab leads to an element or a guard.
LEMMA TabStays ==
  ASSUME NEW n, NEW h, Fence(n, h), NEW i \in 1 .. n, NEW j,
         TabTo(i, j) \/ ShiftTabTo(i, j)
  PROVE  j \in 0 .. n + 1
<1>1. /\ n \in Nat /\ h \in Nat /\ i \in 0 .. n + 1 /\ 0 \in 0 .. n + 1 /\ n + 1 \in 0 .. n + 1
      /\ Index(i) = h /\ Index(0) = h /\ Index(n + 1) = h
      /\ 0 \in Stops /\ n + 1 \in Stops
  BY DEF Fence
<1>2. j \in Stops /\ (j \in 0 .. n + 1 \/ j = -1 \/ j = n + 2)
  <2>1. j \in Stops
    BY DEF TabTo, ShiftTabTo
  <2>2. j \in 1 .. n \/ j \in {0, n + 1, -1, n + 2}
    BY <2>1 DEF Fence
  <2> QED
    BY <1>1, <2>1, <2>2
<1>3. Index(-1) \in Nat /\ Index(n + 2) \in Nat
  BY DEF Fence
<1>4. ASSUME TabTo(i, j), j = -1 \/ j = n + 2 PROVE FALSE
  <2>1. Sooner(i, j) /\ ~(Sooner(i, n + 1) /\ Sooner(n + 1, j))
    BY <1>1, <1>4 DEF TabTo
  <2> QED
    BY <1>1, <1>3, <1>4, <2>1 DEF Sooner
<1>5. ASSUME ShiftTabTo(i, j), j = -1 \/ j = n + 2 PROVE FALSE
  <2>1. Sooner(j, i) /\ ~(Sooner(j, 0) /\ Sooner(0, i))
    BY <1>1, <1>5 DEF ShiftTabTo
  <2> QED
    BY <1>1, <1>3, <1>5, <2>1 DEF Sooner
<1> QED
  BY <1>2, <1>4, <1>5

\* Between two positions of the view without a stop between them Tab leads.
LEMMA TabLeads ==
  ASSUME NEW n, NEW h, Fence(n, h), NEW i \in 0 .. n + 1, NEW j \in 0 .. n + 1, i < j,
         \A k \in Stops : ~(i < k /\ k < j)
  PROVE  /\ j \in Stops => TabTo(i, j)
         /\ i \in Stops => ShiftTabTo(j, i)
<1>1. n \in Nat /\ h \in Nat /\ Index(i) = h /\ Index(j) = h
  BY DEF Fence
<1>2. Sooner(i, j)
  BY <1>1 DEF Sooner
<1>3. ASSUME NEW k \in Stops, Sooner(i, k), Sooner(k, j) PROVE FALSE
  <2>1. Index(k) \in Nat /\ k \in Int
    BY <1>1 DEF Fence
  <2> QED
    BY <1>1, <1>3, <2>1 DEF Sooner
<1> QED
  BY <1>2, <1>3 DEF TabTo, ShiftTabTo

\* What the scan finds of the elements as they are.
LEMMA ScanOfForm ==
  ASSUME FocusTypeOK
  PROVE  /\ TabEnds(Tabs) \in [high : Int, low : Int, first : Nat, last : Nat]
         /\ enabled = {} => TabEnds(Tabs).first = 0
         /\ enabled # {} =>
              /\ {TabEnds(Tabs).first, TabEnds(Tabs).last} \subseteq enabled
              /\ TabEnds(Tabs).high = tabIndex[TabEnds(Tabs).last]
              /\ Alike => \A i \in enabled : TabEnds(Tabs).first <= i /\ i <= TabEnds(Tabs).last
<1> DEFINE n == Len(tabIndex)
           s == TabEnds(Tabs)
<1>1. /\ n \in Nat /\ Elements = 1 .. n /\ tabIndex \in [1 .. n -> TabIndexes]
      /\ enabled \subseteq 1 .. n
  BY FormIs DEF FocusTypeOK, Elements
<1>2. \A i \in 1 .. n : tabIndex[i] \in Nat
  BY <1>1, FocusAssumption
<1>3. Tabs \in [1 .. n -> Int] /\ \A i \in 1 .. n : Tabs[i] = IF i \in enabled THEN tabIndex[i] ELSE -1
  BY <1>1, <1>2 DEF Tabs
<1>4. {i \in 1 .. n : Tabs[i] # -1} = enabled
  <2>1. ASSUME NEW i \in 1 .. n PROVE Tabs[i] # -1 <=> i \in enabled
    <3>1. tabIndex[i] # -1
      BY <1>2
    <3> QED
      BY <1>3, <3>1
  <2> QED
    BY <1>1, <2>1
<1>5. s \in Ends(n) /\ Scanned(Tabs, n, s)
  BY <1>1, <1>3, ScanIsFold
<1> HIDE DEF s
<1>6. CASE enabled = {}
  BY <1>1, <1>4, <1>5, <1>6 DEF Scanned, Ends, s
<1>7. CASE enabled # {}
  <2>1. /\ s.first \in enabled /\ s.last \in enabled
        /\ s.low = Tabs[s.first] /\ s.high = Tabs[s.last]
        /\ \A i \in enabled :
             /\ s.low <= Tabs[i] /\ (Tabs[i] = s.low => s.first <= i)
             /\ Tabs[i] <= s.high /\ (Tabs[i] = s.high => i <= s.last)
    BY <1>4, <1>5, <1>7 DEF Scanned
  <2>2. s.high = tabIndex[s.last]
    BY <1>1, <1>3, <2>1
  <2>3. ASSUME Alike, NEW i \in enabled PROVE s.first <= i /\ i <= s.last
    <3>1. tabIndex[i] = tabIndex[s.first] /\ tabIndex[i] = tabIndex[s.last]
      BY <1>1, <2>1, <2>3 DEF Alike
    <3>2. Tabs[i] = s.low /\ Tabs[i] = s.high
      BY <1>1, <1>3, <2>1, <3>1
    <3> QED
      BY <2>1, <3>2
  <2>4. s \in [high : Int, low : Int, first : Nat, last : Nat]
    BY <1>1, <1>5 DEF Ends
  <2> QED
    BY <1>7, <2>1, <2>2, <2>3, <2>4 DEF s
<1> QED
  BY <1>6, <1>7

\* Tab leads round, when the scan is that of the elements as they are.
LEMMA RoundInv == FocusTypeOK /\ Fenced => WalksRound
<1> SUFFICES ASSUME FocusTypeOK, Fenced, guarded, Alike, scan = TabEnds(Tabs),
                    NEW i \in enabled, NEW j \in enabled, NextAfter(i, j)
             PROVE  IF i < j THEN TabTo(i, j) /\ ShiftTabTo(j, i)
                    ELSE /\ TabTo(i, FocusEnd) /\ Opposite(FocusEnd) = j
                         /\ ShiftTabTo(j, 0) /\ Opposite(0) = i
  BY DEF WalksRound
<1> DEFINE n == Len(tabIndex)
           h == scan.high
<1>1. Fence(n, h)
  BY FenceIs
<1>2. /\ {scan.first, scan.last} \subseteq enabled
      /\ \A k \in enabled : scan.first <= k /\ k <= scan.last
  BY ScanOfForm
<1> HIDE DEF n, h
<1>3. /\ n \in Nat /\ enabled \subseteq 1 .. n /\ FocusEnd = n + 1
      /\ Stops = enabled \cup {0, n + 1, -1, n + 2}
      /\ 0 \in 0 .. n + 1 /\ n + 1 \in 0 .. n + 1
  BY <1>1 DEF Fence
<1>4. i \in 0 .. n + 1 /\ j \in 0 .. n + 1 /\ i \in Stops /\ j \in Stops
      /\ 0 \in Stops /\ n + 1 \in Stops /\ i < n + 1 /\ 0 < j
  BY <1>3
<1>5. CASE i < j
  <2>1. \A k \in enabled : k <= i \/ k >= j
    BY <1>3, <1>5 DEF NextAfter
  <2>2. \A k \in Stops : ~(i < k /\ k < j)
    BY <1>3, <1>4, <2>1
  <2> QED
    BY <1>1, <1>4, <1>5, <2>2, TabLeads
<1>6. CASE ~(i < j)
  <2>1. \A k \in enabled : k <= i /\ k >= j
    BY <1>3, <1>6 DEF NextAfter
  <2>2. \A k \in Stops : ~(i < k /\ k < n + 1) /\ ~(0 < k /\ k < j)
    <3> SUFFICES ASSUME NEW k \in Stops PROVE ~(i < k /\ k < n + 1) /\ ~(0 < k /\ k < j)
      OBVIOUS
    <3>1. i \in 1 .. n /\ j \in 1 .. n
      BY <1>3
    <3>2. CASE k \in enabled
      <4>1. k \in 1 .. n /\ k <= i /\ k >= j
        BY <1>3, <2>1, <3>2
      <4> QED
        BY <3>1, <4>1
    <3>3. CASE k \in {0, n + 1, -1, n + 2}
      BY <1>3, <3>1, <3>3
    <3> QED
      BY <1>3, <3>2, <3>3
  <2>3. TabTo(i, n + 1) /\ ShiftTabTo(j, 0)
    <3>1. TabTo(i, n + 1)
      BY <1>1, <1>3, <1>4, <2>2, TabLeads
    <3>2. ShiftTabTo(j, 0)
      BY <1>1, <1>3, <1>4, <2>2, TabLeads
    <3> QED
      BY <3>1, <3>2
  <2>4. scan.first = j /\ scan.last = i
    <3>1. /\ scan.first \in 1 .. n /\ scan.last \in 1 .. n /\ i \in 1 .. n /\ j \in 1 .. n
          /\ scan.first \in enabled /\ scan.last \in enabled
      BY <1>2, <1>3
    <3>2. scan.first <= j /\ j <= scan.first /\ scan.last <= i /\ i <= scan.last
      BY <1>2, <2>1, <3>1
    <3> QED
      BY <1>3, <3>1, <3>2
  <2>5. FocusEnd # 0
    BY <1>3
  <2> QED
    BY <1>3, <1>6, <2>3, <2>4, <2>5 DEF Opposite
<1> QED
  BY <1>5, <1>6

LEMMA FocusInitInv == FocusInit => FocusInv
<1> SUFFICES ASSUME FocusInit PROVE FocusInv
  OBVIOUS
<1>1. Len(tabIndex) \in Nat
  BY FormIs DEF FocusInit
<1>2. turns \in Seq(Elements) /\ Len(turns) = 0
  BY DEF FocusInit
<1>3. -1 \in -1 .. Behind
  BY <1>1 DEF Behind
<1>4. scan \in [high : Int, low : Int, first : Nat, last : Nat] /\ MaxTurns \in Nat
  BY FocusAssumption DEF FocusInit, NoEnds
<1>5. ~guarded /\ guarded \in BOOLEAN /\ focused = -1 /\ ~inView /\ {inView, missed} \subseteq BOOLEAN
  BY DEF FocusInit
<1>6. FocusTypeOK
  BY <1>1, <1>2, <1>3, <1>4, <1>5 DEF FocusInit, FocusTypeOK
<1> QED
  BY <1>5, <1>6 DEF FocusInv, Fenced, FocusStays

LEMMA FocusStep == FocusInv /\ [FocusNext]_focusVars => FocusInv'
<1> SUFFICES ASSUME FocusInv, [FocusNext]_focusVars PROVE FocusInv'
  OBVIOUS
<1> DEFINE n == Len(tabIndex)
<1>0. /\ n \in Nat /\ Elements = 1 .. n /\ Behind = n + 2 /\ FocusEnd = n + 1
      /\ enabled \subseteq 1 .. n /\ tabIndex \in Forms
      /\ around \in [before : TabIndexes, behind : TabIndexes]
      /\ scan \in [high : Int, low : Int, first : Nat, last : Nat] /\ guarded \in BOOLEAN
      /\ (guarded => {scan.first, scan.last} \subseteq 1 .. n)
      /\ focused \in -1 .. n + 2 /\ turns \in Seq(1 .. n) /\ Len(turns) <= MaxTurns
      /\ inView \in BOOLEAN /\ missed \in BOOLEAN
  BY FormIs DEF FocusInv, FocusTypeOK, Elements, Behind, FocusEnd
<1> HIDE DEF n
\* What is left to show while the content and the guards stay.
<1>q. ASSUME UNCHANGED <<tabIndex, around, scan, guarded>>, enabled' \subseteq 1 .. n,
             focused' \in -1 .. n + 2, turns' \in Seq(1 .. n), Len(turns') <= MaxTurns,
             inView' \in BOOLEAN, missed' \in BOOLEAN,
             guarded /\ Alike /\ inView' /\ ~missed' => focused' \in 1 .. n \/ turns' # <<>>
      PROVE  FocusInv'
  <2>1. Elements' = Elements /\ Behind' = Behind /\ Alike' = Alike /\ Fenced
    BY <1>q DEF Elements, Behind, Alike, FocusInv
  <2>2. FocusTypeOK'
    BY <1>0, <1>q, <2>1 DEF FocusTypeOK
  <2>3. Fenced' /\ FocusStays'
    BY <1>0, <1>q, <2>1 DEF Fenced, FocusStays
  <2> QED
    BY <2>2, <2>3 DEF FocusInv
<1>s. guarded /\ Alike /\ inView /\ ~missed => focused \in 1 .. n \/ turns # <<>>
  BY <1>0 DEF FocusInv, FocusStays
<1>1. CASE Press
  <2>1. PICK j \in Stops :
          /\ TabTo(focused, j) \/ ShiftTabTo(focused, j)
          /\ focused' = j
          /\ turns' = IF j \in Guards THEN Append(turns, Opposite(j)) ELSE turns
    BY <1>1 DEF Press
  <2>2. Len(turns') <= MaxTurns /\ UNCHANGED <<document, inView, missed>>
    BY <1>1 DEF Press
  <2>3. j \in -1 .. n + 2 /\ (j \in Guards <=> guarded /\ j \in {0, n + 1})
    BY <1>0 DEF Stops, Guards
  <2>4. CASE j \in Guards
    <3>1. Opposite(j) \in 1 .. n
      BY <1>0, <2>3, <2>4 DEF Opposite
    <3>2. turns' = Append(turns, Opposite(j))
      BY <2>1, <2>4
    <3> DEFINE to == Opposite(j)
    <3>3. turns' \in Seq(1 .. n) /\ turns' # <<>>
      <4>1. to \in 1 .. n /\ turns' = Append(turns, to)
        BY <3>1, <3>2
      <4> HIDE DEF to
      <4> QED
        BY <1>0, <4>1
    <3> QED
      BY <1>0, <1>q, <2>1, <2>2, <2>3, <3>3 DEF document
  <2>5. CASE j \notin Guards
    <3>1. turns' = turns
      BY <2>1, <2>5
    <3>2. ASSUME guarded, Alike, inView, ~missed, turns = <<>> PROVE j \in 1 .. n
      <4>1. focused \in 1 .. n
        BY <1>s, <3>2
      <4>2. Fence(n, scan.high)
        BY <3>2, FenceIs DEF FocusInv, n
      <4>3. j \in 0 .. n + 1
        BY <2>1, <4>1, <4>2, TabStays
      <4> QED
        BY <1>0, <2>3, <2>5, <3>2, <4>3
    <3> QED
      BY <1>0, <1>q, <2>1, <2>2, <2>3, <3>1, <3>2 DEF document
  <2> QED
    BY <2>4, <2>5
<1>2. CASE Turn
  <2>1. /\ turns # <<>> /\ turns' = Tail(turns)
        /\ focused' = IF Head(turns) \in enabled THEN Head(turns) ELSE focused
        /\ inView' = (inView \/ Head(turns) \in enabled)
        /\ missed' = (missed \/ Head(turns) \notin enabled)
        /\ UNCHANGED document
    BY <1>2 DEF Turn
  <2>2. Tail(turns) \in Seq(1 .. n) /\ Len(Tail(turns)) = Len(turns) - 1 /\ Len(turns) \in Nat
    BY <1>0, <2>1
  <2>3. Len(turns') <= MaxTurns
    BY <1>0, <2>1, <2>2, FocusAssumption
  <2>4. inView' \in BOOLEAN /\ missed' \in BOOLEAN /\ focused' \in -1 .. n + 2
    BY <1>0, <2>1
  <2>5. ~missed' => focused' \in 1 .. n
    BY <1>0, <2>1
  <2> QED
    BY <1>0, <1>q, <2>1, <2>2, <2>3, <2>4, <2>5 DEF document
<1>3. CASE InstallFocus
  <2>1. /\ scan.first = 0 /\ scan' = TabEnds(Tabs) /\ guarded' = (scan'.first # 0)
        /\ (IF guarded' THEN focused' = scan'.first /\ inView' = TRUE
                        ELSE UNCHANGED <<focused, inView>>)
        /\ UNCHANGED <<tabIndex, enabled, around, turns, missed>>
    BY <1>3 DEF InstallFocus
  <2>2. FocusTypeOK
    BY DEF FocusInv
  <2>3. Elements' = Elements /\ Behind' = Behind /\ ~guarded
    BY <1>0, <2>1 DEF Elements, Behind
  <2>4. /\ scan' \in [high : Int, low : Int, first : Nat, last : Nat] /\ guarded' \in BOOLEAN
        /\ (guarded' => /\ {scan'.first, scan'.last} \subseteq 1 .. n
                        /\ scan'.high = tabIndex[scan'.last])
    BY <1>0, <2>1, <2>2, ScanOfForm
  <2>5. /\ focused' \in -1 .. n + 2 /\ inView' \in BOOLEAN
        /\ (guarded' => focused' \in 1 .. n)
    <3>1. CASE guarded'
      <4>1. focused' = scan'.first /\ inView' = TRUE /\ scan'.first \in 1 .. n
        BY <2>1, <2>4, <3>1
      <4> QED
        BY <1>0, <4>1
    <3>2. CASE ~guarded'
      BY <1>0, <2>1, <3>2
    <3> QED
      BY <3>1, <3>2
  <2>6. FocusTypeOK'
    BY <1>0, <2>1, <2>3, <2>4, <2>5 DEF FocusTypeOK
  <2>7. Fenced' /\ FocusStays'
    BY <1>0, <2>1, <2>3, <2>4, <2>5 DEF Fenced, FocusStays
  <2> QED
    BY <2>6, <2>7 DEF FocusInv
<1>4. CASE OpenAgain
  <2>1. /\ focused' = scan.first /\ inView' = TRUE /\ scan.first \in enabled
        /\ UNCHANGED <<document, turns, missed>>
    BY <1>4 DEF OpenAgain
  <2>2. focused' \in 1 .. n
    BY <1>0, <2>1
  <2> QED
    BY <1>0, <1>q, <2>1, <2>2 DEF document
<1>5. ASSUME NEW i \in enabled \cup {-1, Behind}, Click(i) PROVE FocusInv'
  <2>1. /\ focused' = i /\ inView' = (i \in enabled) /\ i \in -1 .. n + 2
        /\ UNCHANGED <<document, turns, missed>>
    BY <1>0, <1>5 DEF Click
  <2>2. inView' => focused' \in 1 .. n
    BY <1>0, <2>1
  <2> QED
    BY <1>0, <1>q, <2>1, <2>2 DEF document
<1>6. ASSUME NEW i \in Elements, Toggle(i) PROVE FocusInv'
  <2>1. /\ enabled' \subseteq 1 .. n
        /\ UNCHANGED <<tabIndex, around, scan, guarded, focused, turns, inView, missed>>
    BY <1>0, <1>6 DEF Toggle
  <2> QED
    BY <1>0, <1>q, <1>s, <2>1
<1>7. ASSUME NEW c \in Forms, ReplaceContent(c) PROVE FocusInv'
  <2>1. /\ tabIndex' = c /\ enabled' = DOMAIN c /\ guarded' = FALSE
        /\ turns' = <<>> /\ inView' = FALSE /\ UNCHANGED <<around, scan, missed>>
        /\ focused' = (IF focused = Behind THEN Len(c) + 2 ELSE -1)
    BY <1>7 DEF ReplaceContent
  <2>2. Len(c) \in Nat
    BY FormIs
  <2>3. focused' \in -1 .. Behind' /\ Elements' = DOMAIN c
    BY <2>1, <2>2 DEF Behind, Elements
  <2>4. turns' \in Seq(Elements') /\ Len(turns') <= MaxTurns
    BY <2>1, FocusAssumption
  <2>5. FocusTypeOK'
    BY <1>0, <2>1, <2>3, <2>4 DEF FocusTypeOK
  <2>6. Fenced' /\ FocusStays'
    BY <2>1 DEF Fenced, FocusStays
  <2> QED
    BY <2>5, <2>6 DEF FocusInv
<1>8. CASE UNCHANGED focusVars
  BY <1>0, <1>q, <1>s, <1>8 DEF focusVars, document
<1> QED
  BY <1>1, <1>2, <1>3, <1>4, <1>5, <1>6, <1>7, <1>8 DEF FocusNext

LEMMA FocusAlways == FocusSpec => []FocusInv
  BY FocusInitInv, FocusStep, PTL DEF FocusSpec

-----------------------------------------------------------------------------
(* GroupManager *)

\* The map of the rows with the rows of the list.
Filling(ids, map, most) ==
    /\ ids \in Seq(Ids) /\ most \in Nat /\ made \in Nat /\ made <= most
    /\ map \in [DOMAIN idmap \cup ToSet(ids) -> 1 .. most] /\ IsInjective(map)
    /\ \A id \in DOMAIN idmap : map[id] = idmap[id]
    /\ \A id \in ToSet(ids) \ DOMAIN idmap : map[id] \notin 1 .. made

\* What is in the document and in the map; closed rows are not in the map.
Placed ==
    /\ made \in Nat /\ dom \in Seq(1 .. made) /\ IsInjective(dom)
    /\ idmap \in [DOMAIN idmap -> 1 .. made] /\ IsInjective(idmap)
    /\ DOMAIN idmap \subseteq Ids /\ curOrder \in Seq(Ids)
    /\ closing \cup stale \subseteq ToSet(dom) /\ closing \cap stale = {}
    /\ Live \cap (closing \cup stale) = {}

\* The rows of the last list stand in its order, the others are on their way out.
Ordered ==
    /\ IsInjective(curOrder) /\ ToSet(curOrder) = DOMAIN idmap
    /\ Live \subseteq ToSet(dom) /\ ToSet(dom) \subseteq Live \cup closing \cup stale
    /\ \A i, j \in DOMAIN curOrder :
         i < j => Precedes(dom, idmap[curOrder[i]], idmap[curOrder[j]])

RowInv == Placed /\ sets \in 0 .. MaxSets /\ (~broken => Ordered)

LEMMA IdRange == Ids \in SUBSET Nat /\ IsFiniteSet(Ids)
<1>1. 0 \in Int /\ MaxId + MaxRows \in Int
  BY RowAssumption
<1> QED
  BY <1>1, FS_Interval, RowAssumption DEF Ids

-----------------------------------------------------------------------------
(* The order of the elements *)

\* An element is put before another one, or at the end.
PutIn(S, b, t, x, ref) ==
    /\ t \in Seq(S) /\ IsInjective(t) /\ ToSet(t) = ToSet(b) \cup {x}
    /\ x # ref =>
         /\ \A y, w : y # x /\ w # x => (Precedes(t, y, w) <=> Precedes(b, y, w))
         /\ ref # NoElement => Precedes(t, x, ref)
         /\ \A y : y # x /\ (IF ref = NoElement THEN y \in ToSet(b) ELSE Precedes(b, y, ref))
                     => Precedes(t, y, x)

LEMMA BeforeIs ==
  ASSUME NEW S, NoElement \notin S, NEW b \in Seq(S), IsInjective(b), NEW x \in S,
         NEW ref \in ToSet(b) \cup {NoElement}
  PROVE  PutIn(S, b, Before(b, x, ref), x, ref)
<1> USE DEF PutIn
<1> DEFINE c == Without(b, x)
           t == Before(b, x, ref)
<1>1. /\ c \in Seq(S) /\ ToSet(c) = ToSet(b) \ {x} /\ IsInjective(c)
      /\ \A y, w : Precedes(c, y, w) <=> y # x /\ w # x /\ Precedes(b, y, w)
  BY WithoutProperties
<1> HIDE DEF c
<1>2. CASE x = ref
  <2>1. t = b /\ x \in ToSet(b)
    BY <1>2 DEF Before
  <2> QED
    BY <1>2, <2>1
<1>3. CASE x # ref /\ ref = NoElement
  <2>1. t = Append(c, x)
    BY <1>3 DEF Before, c
  <2>2. x \notin ToSet(c)
    BY <1>1
  <2>3. /\ Append(c, x) \in Seq(S) /\ ToSet(Append(c, x)) = ToSet(c) \cup {x}
        /\ IsInjective(Append(c, x))
        /\ \A y, w : Precedes(Append(c, x), y, w) <=>
               Precedes(c, y, w) \/ (w = x /\ y \in ToSet(c))
    BY <1>1, <2>2, PutLast
  <2> HIDE DEF t
  <2> QED
    BY <1>1, <1>3, <2>1, <2>3 DEF t
<1>4. CASE x # ref /\ ref # NoElement
  <2>1. t = InsertAt(c, CHOOSE i \in DOMAIN c : c[i] = ref, x)
    BY <1>4 DEF Before, c
  <2>2. x \notin ToSet(c) /\ ref \in ToSet(c)
    BY <1>1, <1>4
  <2> HIDE DEF t
  <2>3. /\ t \in Seq(S) /\ ToSet(t) = ToSet(c) \cup {x} /\ IsInjective(t)
        /\ \A y, w : Precedes(t, y, w) <=>
               \/ Precedes(c, y, w)
               \/ y = x /\ (w = ref \/ Precedes(c, ref, w))
               \/ w = x /\ Precedes(c, y, ref)
    BY <1>1, <2>1, <2>2, PutBefore
  <2> QED
    BY <1>1, <1>4, <2>3 DEF t
<1> QED
  BY <1>2, <1>3, <1>4

\* The element that follows another one comes first of those behind it.
Follows(b, r, x) ==
    /\ r \in ToSet(b) \cup {NoElement}
    /\ r # NoElement => Precedes(b, x, r)
    /\ \A y : Precedes(b, x, y) => r # NoElement /\ (y = r \/ Precedes(b, r, y))

LEMMA AfterIs ==
  ASSUME NEW S, NoElement \notin S, NEW b \in Seq(S), IsInjective(b), NEW x
  PROVE  Follows(b, After(b, x), x)
<1> USE DEF Follows
<1> DEFINE r == After(b, x)
           n == Len(b)
<1>1. /\ DOMAIN b = 1 .. n /\ n \in Nat /\ \A i \in 1 .. n : b[i] \in S
      /\ \A i, j \in 1 .. n : b[i] = b[j] => i = j
  BY DEF IsInjective
<1> HIDE DEF n
<1>2. CASE \E i \in 1 .. n - 1 : b[i] = x
  <2> DEFINE k == CHOOSE i \in 1 .. n - 1 : b[i] = x
  <2>1. k \in 1 .. n - 1 /\ b[k] = x
    BY <1>2
  <2>2. r = b[1 + k]
    BY <1>2 DEF After, n
  <2> HIDE DEF k, r
  <2>3. k \in 1 .. n /\ 1 + k \in 1 .. n /\ k < 1 + k
    BY <1>1, <2>1
  <2>4. r \in ToSet(b) /\ r # NoElement /\ Precedes(b, x, r)
    BY <1>1, <2>1, <2>2, <2>3 DEF ToSet, Precedes
  <2>5. ASSUME NEW y, Precedes(b, x, y) PROVE y = r \/ Precedes(b, r, y)
    <3>1. PICK i \in 1 .. n, j \in 1 .. n : i < j /\ b[i] = x /\ b[j] = y
      BY <1>1, <2>5 DEF Precedes
    <3>2. i = k
      BY <1>1, <2>1, <2>3, <3>1
    <3>3. j = 1 + k \/ 1 + k < j
      BY <2>3, <3>1, <3>2
    <3> QED
      BY <1>1, <2>2, <2>3, <3>1, <3>3 DEF Precedes
  <2> QED
    BY <2>4, <2>5 DEF r
<1>3. CASE ~\E i \in 1 .. n - 1 : b[i] = x
  <2>1. r = NoElement
    BY <1>3 DEF After, n
  <2>2. ASSUME NEW y, Precedes(b, x, y) PROVE FALSE
    <3>1. PICK i \in 1 .. n, j \in 1 .. n : i < j /\ b[i] = x /\ b[j] = y
      BY <1>1, <2>2 DEF Precedes
    <3>2. i \in 1 .. n - 1
      BY <1>1, <3>1
    <3> QED
      BY <1>3, <3>1, <3>2
  <2> QED
    BY <2>1, <2>2
<1> QED
  BY <1>2, <1>3

-----------------------------------------------------------------------------
(* The map *)

\* setValue for each row: rows there were keep their element, others get one of their own.
LEMMA FilledIs ==
  ASSUME Placed, NEW ids \in Seq(Ids)
  PROVE  LET map == Filled(ids)
         IN  Filling(ids, map, Max(Range(map) \cup {made}))
<1> DEFINE new == ToSet(ids) \ DOMAIN idmap
           all == DOMAIN idmap \cup ToSet(ids)
           below(id) == {j \in new : j < id}
           map == Filled(ids)
           most == Max(Range(map) \cup {made})
<1>1. /\ ToSet(ids) \subseteq Ids /\ DOMAIN idmap \subseteq Ids /\ made \in Nat
      /\ IsFiniteSet(new) /\ new \subseteq Nat /\ all \subseteq Nat
  <2>1. ToSet(ids) \subseteq Ids
    BY InSequence
  <2>2. IsFiniteSet(new)
    BY <2>1, IdRange, FS_Subset
  <2> QED
    BY <2>1, <2>2, IdRange DEF Placed
<1>2. \A id \in new : /\ IsFiniteSet(below(id)) /\ Cardinality(below(id)) \in Nat
                      /\ Cardinality(below(id)) <= Cardinality(new)
  <2> TAKE id \in new
  <2>1. below(id) \subseteq new
    OBVIOUS
  <2> HIDE DEF below, new
  <2> QED
    BY <1>1, <2>1, FS_Subset, FS_CardinalityType
<1>3. \A i, j \in new : i < j => Cardinality(below(i)) < Cardinality(below(j))
  <2> SUFFICES ASSUME NEW i \in new, NEW j \in new, i < j
               PROVE  Cardinality(below(i)) < Cardinality(below(j))
    OBVIOUS
  <2>1. below(i) \subseteq below(j) /\ i \in below(j) /\ i \notin below(i)
    BY <1>1
  <2>2. IsFiniteSet(below(j)) /\ IsFiniteSet(below(i))
    BY <1>2
  <2>3. Cardinality(below(i)) <= Cardinality(below(j)) /\ Cardinality(below(i)) # Cardinality(below(j))
    <3> HIDE DEF below
    <3> QED
      BY <2>1, <2>2, FS_Subset
  <2>4. Cardinality(below(j)) \in Nat /\ Cardinality(below(i)) \in Nat
    BY <1>2
  <2> HIDE DEF below
  <2> QED
    BY <2>3, <2>4
<1>4. /\ DOMAIN map = all
      /\ \A id \in DOMAIN idmap : map[id] = idmap[id] /\ map[id] \in 1 .. made
      /\ \A id \in new : map[id] = made + 1 + Cardinality(below(id))
  <2>1. map = [id \in all |-> IF id \in DOMAIN idmap THEN idmap[id]
                             ELSE made + 1 + Cardinality(below(id))]
    BY DEF Filled
  <2>2. \A id \in DOMAIN idmap : idmap[id] \in 1 .. made
    BY DEF Placed
  <2>3. \A id \in new : id \in all /\ id \notin DOMAIN idmap
    OBVIOUS
  <2> HIDE DEF map, below, new
  <2> QED
    BY <2>1, <2>2, <2>3
<1> HIDE DEF map, below
<1>5. map = [id \in all |-> map[id]]
  BY DEF Filled, map
<1>6. \A id \in all : id \in DOMAIN idmap \/ id \in new
  OBVIOUS
<1> HIDE DEF new, all
<1> DEFINE n == made + 1 + Cardinality(new)
<1>7. n \in Nat /\ \A id \in all : map[id] \in 1 .. n
  <2>1. Cardinality(new) \in Nat
    BY <1>1, FS_CardinalityType
  <2> QED
    BY <1>1, <1>2, <1>4, <1>6, <2>1
<1> HIDE DEF n
<1>8. made \in 0 .. n
  <2>1. Cardinality(new) \in Nat
    BY <1>1, FS_CardinalityType
  <2> QED
    BY <1>1, <2>1 DEF n
<1>9. Range(map) = {map[id] : id \in all}
  BY <1>4 DEF Range
<1>10. most \in Range(map) \cup {made} /\ \A y \in Range(map) \cup {made} : most >= y
  <2>1. Range(map) \cup {made} \in SUBSET (0 .. n) /\ Range(map) \cup {made} # {}
    BY <1>7, <1>8, <1>9
  <2> QED
    BY <1>7, <2>1, MaxOf
<1>11. most \in Nat /\ made <= most /\ \A id \in all : map[id] \in 1 .. most
  BY <1>7, <1>8, <1>9, <1>10
<1> HIDE DEF most
<1>12. \A id \in new : map[id] \notin 1 .. made
  BY <1>1, <1>2, <1>4
<1>13. IsInjective(map)
  <2> SUFFICES ASSUME NEW i \in all, NEW j \in all, map[i] = map[j] PROVE i = j
    BY <1>4 DEF IsInjective
  <2>1. CASE i \in DOMAIN idmap /\ j \in DOMAIN idmap
    BY <1>4, <2>1 DEF Placed, IsInjective
  <2>2. CASE i \in new /\ j \in new
    <3>1. i \in Nat /\ j \in Nat /\ Cardinality(below(i)) = Cardinality(below(j))
      BY <1>1, <1>2, <1>4, <2>2
    <3>2. i = j \/ i < j \/ j < i
      BY <3>1
    <3> QED
      BY <1>2, <1>3, <2>2, <3>1, <3>2
  <2>3. CASE (i \in DOMAIN idmap /\ j \in new) \/ (j \in DOMAIN idmap /\ i \in new)
    BY <1>4, <1>12, <2>3
  <2>4. (i \in DOMAIN idmap \/ i \in new) /\ (j \in DOMAIN idmap \/ j \in new)
    BY <1>6
  <2> QED
    BY <2>1, <2>2, <2>3, <2>4
<1>14. map \in [all -> 1 .. most]
  BY <1>5, <1>11
<1> QED
  BY <1>1, <1>4, <1>11, <1>12, <1>13, <1>14 DEF Filling, map, most, new, all

-----------------------------------------------------------------------------
(* A round of the loop *)

Rounds(ids, most) ==
    [dom : Seq(1 .. most), ep : 0 .. most, old : 1 .. Len(curOrder) + 1,
     new : 1 .. Len(ids) + 1, moved : SUBSET Ids, touched : SUBSET (1 .. most),
     failed : BOOLEAN]

\* The states of the loop: elements are put in and moved, none is taken out.
Walks(ids, map, most) ==
    {s \in Rounds(ids, most) :
       /\ IsInjective(s.dom) /\ ToSet(dom) \subseteq ToSet(s.dom)
       /\ ToSet(s.dom) \subseteq ToSet(dom) \cup {map[id] : id \in ToSet(ids)}
       /\ s.ep \in ToSet(s.dom) \cup {NoElement}}

LEMMA WalkTypes ==
  ASSUME NEW ids, NEW map, NEW most, Filling(ids, map, most),
         NEW s \in Walks(ids, map, most)
  PROVE  /\ s.dom \in Seq(1 .. most) /\ s.ep \in 0 .. most
         /\ s.old \in 1 .. Len(curOrder) + 1 /\ s.new \in 1 .. Len(ids) + 1
         /\ s.moved \in SUBSET Ids /\ s.touched \in SUBSET (1 .. most) /\ s.failed \in BOOLEAN
         /\ IsInjective(s.dom) /\ ToSet(dom) \subseteq ToSet(s.dom)
         /\ ToSet(s.dom) \subseteq ToSet(dom) \cup {map[id] : id \in ToSet(ids)}
         /\ s.ep \in ToSet(s.dom) \cup {NoElement}
         /\ \A i \in 1 .. Len(ids) : /\ ids[i] \in ToSet(ids) /\ ids[i] \in Ids
                                     /\ map[ids[i]] \in 1 .. most
         /\ NoElement \notin 1 .. most /\ s \in Rounds(ids, most)
<1>1. /\ s \in Rounds(ids, most)
      /\ IsInjective(s.dom) /\ ToSet(dom) \subseteq ToSet(s.dom)
      /\ ToSet(s.dom) \subseteq ToSet(dom) \cup {map[id] : id \in ToSet(ids)}
      /\ s.ep \in ToSet(s.dom) \cup {NoElement}
  BY DEF Walks
<1>2. /\ s.dom \in Seq(1 .. most) /\ s.ep \in 0 .. most
      /\ s.old \in 1 .. Len(curOrder) + 1 /\ s.new \in 1 .. Len(ids) + 1
      /\ s.moved \in SUBSET Ids /\ s.touched \in SUBSET (1 .. most) /\ s.failed \in BOOLEAN
  BY <1>1 DEF Rounds
<1>3. /\ ids \in Seq(Ids)
      /\ \A id \in ToSet(ids) : map[id] \in 1 .. most
  BY DEF Filling
<1>4. \A i \in 1 .. Len(ids) : ids[i] \in ToSet(ids) /\ ids[i] \in Ids
  BY <1>3 DEF ToSet
<1>5. NoElement \notin 1 .. most
  BY DEF NoElement
<1> QED
  BY <1>1, <1>2, <1>3, <1>4, <1>5

\* The next row of the new order is put in.
PutNext(s, t, el) ==
    /\ t.dom = Before(s.dom, el, s.ep) /\ t.new = s.new + 1
    /\ t.touched = (IF el \in ToSet(s.dom) THEN s.touched \cup {el} ELSE s.touched)
    /\ t.ep = s.ep /\ t.old = s.old /\ t.failed = s.failed

LEMMA PutWalks ==
  ASSUME NEW ids, NEW map, NEW most, Filling(ids, map, most),
         NEW s \in Walks(ids, map, most), s.new \in 1 .. Len(ids),
         NEW el, el = map[ids[s.new]], NEW t, t = Put(s, el)
  PROVE  t \in Walks(ids, map, most) /\ t.moved = s.moved /\ PutNext(s, t, el)
<1> DEFINE d == Before(s.dom, el, s.ep)
           T == IF el \in ToSet(s.dom) THEN s.touched \cup {el} ELSE s.touched
<1>1. /\ s.dom \in Seq(1 .. most) /\ s.ep \in 0 .. most
      /\ s.old \in 1 .. Len(curOrder) + 1 /\ s.new \in 1 .. Len(ids) + 1
      /\ s.moved \in SUBSET Ids /\ s.touched \in SUBSET (1 .. most) /\ s.failed \in BOOLEAN
      /\ IsInjective(s.dom) /\ ToSet(dom) \subseteq ToSet(s.dom)
      /\ ToSet(s.dom) \subseteq ToSet(dom) \cup {map[id] : id \in ToSet(ids)}
      /\ s.ep \in ToSet(s.dom) \cup {NoElement}
      /\ \A i \in 1 .. Len(ids) : /\ ids[i] \in ToSet(ids) /\ ids[i] \in Ids
                                  /\ map[ids[i]] \in 1 .. most
      /\ NoElement \notin 1 .. most /\ s \in Rounds(ids, most)
  BY WalkTypes
<1>2. el \in 1 .. most /\ el \in {map[id] : id \in ToSet(ids)}
  BY <1>1
<1>3. Contains(s.dom, el) <=> el \in ToSet(s.dom)
  BY <1>1, InSequence
<1>4. d \in Seq(1 .. most) /\ IsInjective(d) /\ ToSet(d) = ToSet(s.dom) \cup {el}
  <2>1. /\ NoElement \notin 1 .. most /\ s.dom \in Seq(1 .. most) /\ IsInjective(s.dom)
        /\ el \in 1 .. most /\ s.ep \in ToSet(s.dom) \cup {NoElement}
    BY <1>1, <1>2
  <2>2. PutIn(1 .. most, s.dom, d, el, s.ep)
    BY <2>1, BeforeIs
  <2> QED
    BY <2>2 DEF PutIn
<1>5. T \in SUBSET (1 .. most) /\ s.new + 1 \in 1 .. Len(ids) + 1
  BY <1>1, <1>2
<1>6. t = [dom |-> d, ep |-> s.ep, old |-> s.old, new |-> s.new + 1, moved |-> s.moved,
           touched |-> T, failed |-> s.failed]
  <2> DEFINE q == IF Contains(s.dom, el) THEN s.touched \cup {el} ELSE s.touched
  <2>1. t = [s EXCEPT !.dom = d, !.new = @ + 1, !.touched = q]
    BY DEF Put
  <2>2. q = T
    BY <1>3
  <2> HIDE DEF d, q, T
  <2> QED
    BY <1>1, <2>1, <2>2 DEF Rounds
<1> HIDE DEF d, T
<1>7. /\ t.dom = d /\ t.ep = s.ep /\ t.old = s.old /\ t.new = s.new + 1 /\ t.moved = s.moved
      /\ t.touched = T /\ t.failed = s.failed
  BY <1>6
<1>8. t \in Rounds(ids, most)
  BY <1>1, <1>4, <1>5, <1>6 DEF Rounds
<1>9. t \in Walks(ids, map, most)
  BY <1>1, <1>2, <1>4, <1>7, <1>8 DEF Walks
<1> QED
  BY <1>7, <1>9 DEF PutNext, d, T

\* The loop goes on to the next row of the old order.
Stepped(s, t, ids, map) ==
    /\ t.dom = s.dom /\ t.touched = s.touched /\ t.failed = s.failed /\ t.moved = s.moved
    /\ t.old = s.old + 1
    /\ \/ t.ep = s.ep /\ t.new = s.new /\ curOrder[s.old] \in s.moved
       \/ /\ t.ep = After(s.dom, map[curOrder[s.old]]) /\ t.new = s.new
          /\ curOrder[s.old] \in DOMAIN map \ ToSet(ids)
       \/ /\ t.ep = After(s.dom, map[curOrder[s.old]]) /\ t.new = s.new + 1
          /\ s.new \in 1 .. Len(ids) /\ curOrder[s.old] = ids[s.new]

\* Or it puts the next row of the new order in.
Inserted(s, t, ids, map) ==
    /\ s.new \in 1 .. Len(ids) /\ PutNext(s, t, map[ids[s.new]])
    /\ \/ s.old = Len(curOrder) + 1 /\ t.moved = s.moved
       \/ /\ s.old \in 1 .. Len(curOrder) /\ t.moved = s.moved \cup {ids[s.new]}
          /\ curOrder[s.old] # ids[s.new] /\ curOrder[s.old] \notin s.moved
          /\ curOrder[s.old] \notin DOMAIN map \ ToSet(ids)

Round(s, t, ids, map) ==
    \/ t = s /\ s.old = Len(curOrder) + 1 /\ s.new = Len(ids) + 1
    \/ s.old \in 1 .. Len(curOrder) /\ Stepped(s, t, ids, map)
    \/ Inserted(s, t, ids, map)
    \/ /\ t.failed /\ s.old \in 1 .. Len(curOrder) /\ s.new = Len(ids) + 1
       /\ curOrder[s.old] \notin s.moved /\ curOrder[s.old] \notin DOMAIN map \ ToSet(ids)

LEMMA MergedWalks ==
  ASSUME NEW ids, NEW map, NEW most, Filling(ids, map, most), curOrder \in Seq(Ids),
         NEW s \in Walks(ids, map, most)
  PROVE  LET t == Merged(s, ids, map)
         IN  t \in Walks(ids, map, most) /\ Round(s, t, ids, map)
<1> DEFINE t == Merged(s, ids, map)
           o == curOrder[s.old]
<1>1. /\ s.dom \in Seq(1 .. most) /\ s.ep \in 0 .. most
      /\ s.old \in 1 .. Len(curOrder) + 1 /\ s.new \in 1 .. Len(ids) + 1
      /\ s.moved \in SUBSET Ids /\ s.touched \in SUBSET (1 .. most) /\ s.failed \in BOOLEAN
      /\ IsInjective(s.dom) /\ ToSet(dom) \subseteq ToSet(s.dom)
      /\ ToSet(s.dom) \subseteq ToSet(dom) \cup {map[id] : id \in ToSet(ids)}
      /\ s.ep \in ToSet(s.dom) \cup {NoElement}
      /\ \A i \in 1 .. Len(ids) : /\ ids[i] \in ToSet(ids) /\ ids[i] \in Ids
                                  /\ map[ids[i]] \in 1 .. most
      /\ NoElement \notin 1 .. most /\ s \in Rounds(ids, most)
  BY WalkTypes
<1>2. Len(ids) \in Nat /\ Len(curOrder) \in Nat /\ s.old \in Nat /\ s.new \in Nat
  BY <1>1 DEF Filling
<1> DEFINE r(el) == After(s.dom, el)
<1>3. \A el : r(el) \in ToSet(s.dom) \cup {NoElement} /\ r(el) \in 0 .. most
  <2> TAKE el
  <2>1. r(el) \in ToSet(s.dom) \cup {NoElement}
    BY <1>1, AfterIs DEF Follows
  <2>2. ToSet(s.dom) \subseteq 1 .. most
    BY <1>1, InSequence
  <2>3. most \in Nat
    BY DEF Filling
  <2> QED
    BY <2>1, <2>2, <2>3 DEF NoElement
<1> HIDE DEF r
<1>4. CASE s.old > Len(curOrder) /\ s.new > Len(ids)
  <2>1. t = s
    BY <1>4 DEF Merged
  <2> QED
    BY <1>1, <1>2, <1>4, <2>1 DEF Round
<1>5. CASE s.old > Len(curOrder) /\ ~(s.new > Len(ids))
  <2>1. t = Put(s, map[ids[s.new]])
    BY <1>5 DEF Merged
  <2>2. s.new \in 1 .. Len(ids) /\ s.old = Len(curOrder) + 1
    BY <1>1, <1>2, <1>5
  <2> DEFINE el == map[ids[s.new]]
  <2> HIDE DEF t, el
  <2>4. t \in Walks(ids, map, most) /\ t.moved = s.moved /\ PutNext(s, t, el)
    <3>1. el = map[ids[s.new]] /\ t = Put(s, el)
      BY <2>1 DEF el
    <3> QED
      BY <2>2, <3>1, PutWalks
  <2>3. t \in Walks(ids, map, most) /\ Inserted(s, t, ids, map)
    BY <2>2, <2>4 DEF Inserted, el
  <2> QED
    BY <2>3 DEF Round, t
<1>6. CASE ~(s.old > Len(curOrder)) /\ o \in DOMAIN map /\ o \notin ToSet(ids)
  <2>1. s.old \in 1 .. Len(curOrder) /\ s.old + 1 \in 1 .. Len(curOrder) + 1
    BY <1>1, <1>2, <1>6
  <2>2. t = [s EXCEPT !.old = @ + 1, !.ep = r(map[o])]
    BY <1>6 DEF Merged, r
  <2> HIDE DEF t
  <2>3. t = [dom |-> s.dom, ep |-> r(map[o]), old |-> s.old + 1, new |-> s.new,
             moved |-> s.moved, touched |-> s.touched, failed |-> s.failed]
    BY <1>1, <2>2 DEF Rounds
  <2>4. t \in Walks(ids, map, most)
    BY <1>1, <1>3, <2>1, <2>3 DEF Walks, Rounds
  <2>5. Stepped(s, t, ids, map)
    BY <1>6, <2>3 DEF Stepped, r
  <2> QED
    BY <2>1, <2>4, <2>5 DEF Round, t
<1>7. CASE /\ ~(s.old > Len(curOrder)) /\ ~(o \in DOMAIN map /\ o \notin ToSet(ids))
           /\ s.new <= Len(ids) /\ o = ids[s.new]
  <2>1. /\ s.old \in 1 .. Len(curOrder) /\ s.old + 1 \in 1 .. Len(curOrder) + 1
        /\ s.new \in 1 .. Len(ids) /\ s.new + 1 \in 1 .. Len(ids) + 1
    BY <1>1, <1>2, <1>7
  <2>2. t = [s EXCEPT !.old = @ + 1, !.new = @ + 1, !.ep = r(map[o])]
    BY <1>7 DEF Merged, Stayed, r
  <2> HIDE DEF t
  <2>3. t = [dom |-> s.dom, ep |-> r(map[o]), old |-> s.old + 1, new |-> s.new + 1,
             moved |-> s.moved, touched |-> s.touched, failed |-> s.failed]
    BY <1>1, <2>2 DEF Rounds
  <2>4. t \in Walks(ids, map, most)
    BY <1>1, <1>3, <2>1, <2>3 DEF Walks, Rounds
  <2>5. Stepped(s, t, ids, map)
    BY <1>7, <2>1, <2>3 DEF Stepped, r
  <2> QED
    BY <2>1, <2>4, <2>5 DEF Round, t
<1> DEFINE rest == /\ ~(s.old > Len(curOrder)) /\ ~(o \in DOMAIN map /\ o \notin ToSet(ids))
                   /\ ~(s.new <= Len(ids) /\ o = ids[s.new])
<1>8. CASE rest /\ o \in s.moved
  <2>1. s.old \in 1 .. Len(curOrder) /\ s.old + 1 \in 1 .. Len(curOrder) + 1
    BY <1>1, <1>2, <1>8
  <2>2. t = [s EXCEPT !.old = @ + 1]
    BY <1>8 DEF Merged
  <2> HIDE DEF t
  <2>3. t = [dom |-> s.dom, ep |-> s.ep, old |-> s.old + 1, new |-> s.new,
             moved |-> s.moved, touched |-> s.touched, failed |-> s.failed]
    BY <1>1, <2>2 DEF Rounds
  <2>4. t \in Walks(ids, map, most)
    BY <1>1, <2>1, <2>3 DEF Walks, Rounds
  <2>5. Stepped(s, t, ids, map)
    BY <1>8, <2>3 DEF Stepped
  <2> QED
    BY <2>1, <2>4, <2>5 DEF Round, t
<1>9. CASE rest /\ o \notin s.moved /\ s.new > Len(ids)
  <2>1. s.old \in 1 .. Len(curOrder) /\ s.new = Len(ids) + 1
    BY <1>1, <1>2, <1>9
  <2>2. t = [s EXCEPT !.failed = TRUE]
    BY <1>9 DEF Merged
  <2> HIDE DEF t
  <2>3. t = [dom |-> s.dom, ep |-> s.ep, old |-> s.old, new |-> s.new,
             moved |-> s.moved, touched |-> s.touched, failed |-> TRUE]
    BY <1>1, <2>2 DEF Rounds
  <2>4. t \in Walks(ids, map, most)
    BY <1>1, <2>1, <2>3 DEF Walks, Rounds
  <2>5. Round(s, t, ids, map)
    BY <1>9, <2>1, <2>3 DEF Round
  <2> QED
    BY <2>4, <2>5 DEF t
<1>10. CASE rest /\ o \notin s.moved /\ ~(s.new > Len(ids))
  <2>1. s.old \in 1 .. Len(curOrder) /\ s.new \in 1 .. Len(ids)
    BY <1>1, <1>2, <1>10
  <2> DEFINE el == map[ids[s.new]]
             u == Put(s, el)
  <2>2. t = [u EXCEPT !.moved = @ \cup {ids[s.new]}]
    BY <1>10 DEF Merged
  <2>3. u \in Walks(ids, map, most) /\ u.moved = s.moved /\ PutNext(s, u, el)
    <3>1. el = map[ids[s.new]] /\ u = Put(s, el)
      OBVIOUS
    <3> HIDE DEF u, el
    <3> QED
      BY <2>1, <3>1, PutWalks
  <2> HIDE DEF u, t, el
  <2>4. /\ u.dom \in Seq(1 .. most) /\ u.ep \in 0 .. most
        /\ u.old \in 1 .. Len(curOrder) + 1 /\ u.new \in 1 .. Len(ids) + 1
        /\ u.moved \in SUBSET Ids /\ u.touched \in SUBSET (1 .. most) /\ u.failed \in BOOLEAN
        /\ IsInjective(u.dom) /\ ToSet(dom) \subseteq ToSet(u.dom)
        /\ ToSet(u.dom) \subseteq ToSet(dom) \cup {map[id] : id \in ToSet(ids)}
        /\ u.ep \in ToSet(u.dom) \cup {NoElement} /\ u \in Rounds(ids, most)
    BY <2>3, WalkTypes
  <2>5. t = [dom |-> u.dom, ep |-> u.ep, old |-> u.old, new |-> u.new,
             moved |-> u.moved \cup {ids[s.new]}, touched |-> u.touched, failed |-> u.failed]
    BY <2>2, <2>4 DEF Rounds
  <2>6. t \in Walks(ids, map, most)
    BY <1>1, <2>1, <2>4, <2>5 DEF Walks, Rounds
  <2>7. Inserted(s, t, ids, map)
    <3>1. /\ curOrder[s.old] # ids[s.new] /\ curOrder[s.old] \notin s.moved
          /\ curOrder[s.old] \notin DOMAIN map \ ToSet(ids)
      BY <1>2, <1>10, <2>1
    <3>2. /\ t.dom = u.dom /\ t.ep = u.ep /\ t.old = u.old /\ t.new = u.new
          /\ t.moved = u.moved \cup {ids[s.new]} /\ t.touched = u.touched /\ t.failed = u.failed
      BY <2>5
    <3>3. PutNext(s, t, el)
      BY <2>3, <3>2 DEF PutNext
    <3> QED
      BY <2>1, <2>3, <3>1, <3>2, <3>3 DEF Inserted, el
  <2> QED
    BY <2>6, <2>7 DEF Round, t
<1> QED
  BY <1>4, <1>5, <1>6, <1>7, <1>8, <1>9, <1>10

-----------------------------------------------------------------------------
(* The loop, when the last list is in its order *)

\* The rows that have been put in or left where they are stand in the new order,
\* before the element where the next one goes.
InPlace(s, ids, map) ==
    /\ ToSet(s.dom) \subseteq ToSet(dom) \cup {map[ids[k]] : k \in 1 .. s.new - 1}
    /\ \A k \in 1 .. s.new - 1 :
         /\ map[ids[k]] \in ToSet(s.dom)
         /\ s.ep = NoElement \/ Precedes(s.dom, map[ids[k]], s.ep)
    /\ \A j, k \in 1 .. s.new - 1 : j < k => Precedes(s.dom, map[ids[j]], map[ids[k]])

\* The rows that the loop has still to come to stand in the old order, behind it.
Due(s, m) == m \in s.old .. Len(curOrder) /\ curOrder[m] \notin s.moved
InLine(s) ==
    /\ \A m \in 1 .. Len(curOrder) : Due(s, m) =>
         /\ s.ep # NoElement
         /\ s.ep = idmap[curOrder[m]] \/ Precedes(s.dom, s.ep, idmap[curOrder[m]])
    /\ \A l, m \in 1 .. Len(curOrder) : Due(s, l) /\ Due(s, m) /\ l < m =>
         Precedes(s.dom, idmap[curOrder[l]], idmap[curOrder[m]])

\* A row is passed or moved when its turn in the new order has come.
Tracked(s, ids) ==
    /\ s.moved \subseteq {ids[k] : k \in 1 .. s.new - 1}
    /\ \A k \in 1 .. s.new - 1, m \in s.old .. Len(curOrder) :
         curOrder[m] = ids[k] => curOrder[m] \in s.moved
    /\ \A m \in 1 .. s.old - 1 : curOrder[m] \in ToSet(ids) =>
         \E k \in 1 .. s.new - 1 : ids[k] = curOrder[m]

\* Two rows that stay in the list have changed their order.
Crossed(ids) == \E x, y : Precedes(curOrder, x, y) /\ Precedes(ids, y, x)

Orderly(s, ids, map) ==
    /\ ~s.failed /\ InPlace(s, ids, map) /\ InLine(s) /\ Tracked(s, ids)
    /\ s.touched # {} => Crossed(ids)

\* The rows of the new list and those of the last one, which are all in the map.
NewRows(ids, map) ==
    /\ Len(ids) \in Nat /\ DOMAIN ids = 1 .. Len(ids)
    /\ \A j, k \in 1 .. Len(ids) : ids[j] = ids[k] \/ map[ids[j]] = map[ids[k]] => j = k
    /\ \A k \in 1 .. Len(ids) : /\ ids[k] \in ToSet(ids) /\ map[ids[k]] # NoElement
                                /\ ids[k] \notin DOMAIN idmap => map[ids[k]] \notin ToSet(dom)
    /\ \A id \in ToSet(ids) : \E k \in 1 .. Len(ids) : ids[k] = id
OldRows(ids, map) ==
    /\ Len(curOrder) \in Nat /\ DOMAIN curOrder = 1 .. Len(curOrder)
    /\ \A l, m \in 1 .. Len(curOrder) : curOrder[l] = curOrder[m] => l = m
    /\ \A m \in 1 .. Len(curOrder) :
         /\ curOrder[m] \in DOMAIN idmap /\ curOrder[m] \in DOMAIN map
         /\ idmap[curOrder[m]] \in ToSet(dom) /\ idmap[curOrder[m]] # NoElement
         /\ map[curOrder[m]] = idmap[curOrder[m]]
         /\ \A k \in 1 .. Len(ids) : map[ids[k]] = idmap[curOrder[m]] => ids[k] = curOrder[m]
    /\ \A id \in DOMAIN idmap : \E m \in 1 .. Len(curOrder) : curOrder[m] = id
BothRows(ids, map) == NewRows(ids, map) /\ OldRows(ids, map)

LEMMA TwoLists ==
  ASSUME Placed, Ordered, NEW ids, NEW map, NEW most, Filling(ids, map, most), IsInjective(ids)
  PROVE  BothRows(ids, map)
<1>1. /\ curOrder \in Seq(Ids) /\ ids \in Seq(Ids) /\ made \in Nat /\ dom \in Seq(1 .. made)
      /\ map \in [DOMAIN idmap \cup ToSet(ids) -> 1 .. most] /\ IsInjective(map)
      /\ idmap \in [DOMAIN idmap -> 1 .. made]
      /\ \A id \in DOMAIN idmap : map[id] = idmap[id]
      /\ \A id \in ToSet(ids) \ DOMAIN idmap : map[id] \notin 1 .. made
      /\ IsInjective(curOrder) /\ ToSet(curOrder) = DOMAIN idmap /\ Live \subseteq ToSet(dom)
  BY DEF Placed, Ordered, Filling
<1>2. /\ Len(curOrder) \in Nat /\ Len(ids) \in Nat
      /\ DOMAIN curOrder = 1 .. Len(curOrder) /\ DOMAIN ids = 1 .. Len(ids)
      /\ \A l, m \in 1 .. Len(curOrder) : curOrder[l] = curOrder[m] => l = m
      /\ \A j, k \in 1 .. Len(ids) : ids[j] = ids[k] => j = k
  BY <1>1 DEF IsInjective
<1>3. ToSet(dom) \subseteq 1 .. made
  BY <1>1, InSequence
<1>4. \A k \in 1 .. Len(ids) : ids[k] \in ToSet(ids)
  BY <1>2 DEF ToSet
<1>5. \A i, j \in DOMAIN idmap \cup ToSet(ids) : map[i] = map[j] => i = j
  BY <1>1 DEF IsInjective
<1>6. \A m \in 1 .. Len(curOrder) : curOrder[m] \in DOMAIN idmap
  BY <1>1, <1>2 DEF ToSet
<1>7. \A id \in DOMAIN idmap : idmap[id] \in ToSet(dom) /\ idmap[id] \in 1 .. made
  BY <1>1 DEF Live, Range
<1>8. \A id \in DOMAIN idmap : \E m \in 1 .. Len(curOrder) : curOrder[m] = id
  BY <1>1, <1>2 DEF ToSet
<1>9. \A id \in ToSet(ids) : \E k \in 1 .. Len(ids) : ids[k] = id
  BY <1>1, <1>2 DEF ToSet
<1>10. \A k \in 1 .. Len(ids) :
         /\ map[ids[k]] # NoElement
         /\ ids[k] \notin DOMAIN idmap => map[ids[k]] \notin ToSet(dom)
  BY <1>1, <1>3, <1>4 DEF NoElement
<1>11. \A m \in 1 .. Len(curOrder) :
         /\ curOrder[m] \in DOMAIN map
         /\ idmap[curOrder[m]] \in ToSet(dom) /\ idmap[curOrder[m]] # NoElement
         /\ map[curOrder[m]] = idmap[curOrder[m]]
         /\ \A k \in 1 .. Len(ids) : map[ids[k]] = idmap[curOrder[m]] => ids[k] = curOrder[m]
  BY <1>1, <1>4, <1>5, <1>6, <1>7 DEF NoElement
<1>12. \A j, k \in 1 .. Len(ids) : ids[j] = ids[k] \/ map[ids[j]] = map[ids[k]] => j = k
  BY <1>2, <1>4, <1>5
<1>13. NewRows(ids, map)
  <2>1. Len(ids) \in Nat /\ DOMAIN ids = 1 .. Len(ids)
    BY <1>2
  <2>2. \A k \in 1 .. Len(ids) : /\ ids[k] \in ToSet(ids) /\ map[ids[k]] # NoElement
                                 /\ ids[k] \notin DOMAIN idmap => map[ids[k]] \notin ToSet(dom)
    BY <1>4, <1>10
  <2> QED
    BY <2>1, <2>2, <1>9, <1>12 DEF NewRows
<1>14. OldRows(ids, map)
  BY <1>2, <1>6, <1>8, <1>11 DEF OldRows
<1> QED
  BY <1>13, <1>14 DEF BothRows

LEMMA SteppedOrderly ==
  ASSUME NEW ids, NEW map, NEW most, Filling(ids, map, most), BothRows(ids, map),
         NEW s \in Walks(ids, map, most), NEW t, s.old \in 1 .. Len(curOrder),
         Stepped(s, t, ids, map), Orderly(s, ids, map), t \in Walks(ids, map, most)
  PROVE  Orderly(t, ids, map)
<1> DEFINE d == s.dom
           o == curOrder[s.old]
           y == idmap[o]
           n == s.new
<1>0. /\ d \in Seq(1 .. most) /\ IsInjective(d) /\ ToSet(dom) \subseteq ToSet(d)
      /\ NoElement \notin 1 .. most /\ n \in 1 .. Len(ids) + 1
      /\ s.ep \in ToSet(d) \cup {NoElement} /\ Len(ids) \in Nat /\ Len(curOrder) \in Nat
  BY WalkTypes DEF BothRows, NewRows, OldRows
<1>1. /\ t.dom = d /\ t.touched = s.touched /\ ~t.failed /\ t.moved = s.moved
      /\ t.old = s.old + 1
  BY DEF Stepped, Orderly
<1>2. /\ InPlace(s, ids, map) /\ InLine(s) /\ Tracked(s, ids)
      /\ s.touched # {} => Crossed(ids)
  BY DEF Orderly
<1>3. \A m \in 1 .. Len(curOrder) : Due(t, m) => Due(s, m) /\ s.old < m
  BY <1>1 DEF Due
<1>4. CASE t.ep = s.ep /\ t.new = s.new /\ o \in s.moved
  <2>1. InPlace(t, ids, map)
    BY <1>1, <1>2, <1>4 DEF InPlace
  <2>2. InLine(t)
    BY <1>1, <1>2, <1>3, <1>4 DEF InLine
  <2>3. Tracked(t, ids)
    <3>1. \E k \in 1 .. n - 1 : ids[k] = o
      BY <1>2, <1>4 DEF Tracked
    <3>2. \A m \in 1 .. t.old - 1 : m = s.old \/ m \in 1 .. s.old - 1
      BY <1>1
    <3>3. \A m \in t.old .. Len(curOrder) : m \in s.old .. Len(curOrder)
      BY <1>1
    <3> QED
      BY <1>1, <1>2, <1>4, <3>1, <3>2, <3>3 DEF Tracked
  <2> QED
    BY <1>1, <1>2, <2>1, <2>2, <2>3 DEF Orderly
<1>5. CASE /\ t.ep = After(d, map[o])
           /\ \/ t.new = n /\ o \in DOMAIN map \ ToSet(ids)
              \/ t.new = n + 1 /\ n \in 1 .. Len(ids) /\ o = ids[n]
  <2>1. y \in ToSet(d) /\ map[o] = y
    BY <1>0 DEF BothRows, NewRows, OldRows
  <2>2. o \notin s.moved
    <3>1. \A k \in 1 .. n - 1 : k \in 1 .. Len(ids) /\ k # n
      BY <1>0
    <3>2. \A k \in 1 .. n - 1 : ids[k] # o
      BY <1>5, <3>1 DEF BothRows, NewRows, OldRows
    <3> QED
      BY <1>2, <3>2 DEF Tracked
  <2>3. Due(s, s.old) /\ s.ep # NoElement /\ (s.ep = y \/ Precedes(d, s.ep, y))
    BY <1>0, <1>2, <2>2 DEF Due, InLine
  <2>4. /\ t.ep # NoElement => Precedes(d, y, t.ep)
        /\ \A w : Precedes(d, y, w) => t.ep # NoElement /\ (w = t.ep \/ Precedes(d, t.ep, w))
    <3>1. Follows(d, After(d, y), y)
      BY <1>0, AfterIs
    <3>2. t.ep = After(d, y)
      BY <1>5, <2>1
    <3> QED
      BY <3>1, <3>2 DEF Follows
  <2>5. \A u, v, w : Precedes(d, u, v) /\ Precedes(d, v, w) => Precedes(d, u, w)
    BY <1>0, LinearIn
  <2>6. \A k \in 1 .. n - 1 : /\ map[ids[k]] \in ToSet(d) /\ Precedes(d, map[ids[k]], y)
                              /\ t.ep = NoElement \/ Precedes(d, map[ids[k]], t.ep)
    BY <1>2, <2>3, <2>4, <2>5 DEF InPlace
  <2>7. \/ t.new = n
        \/ /\ t.new = n + 1 /\ n \in 1 .. Len(ids) /\ ids[n] = o /\ map[ids[n]] = y
    BY <1>5, <2>1
  <2>8. \A k \in 1 .. t.new - 1 : k \in 1 .. n - 1 \/ (k = n /\ t.new = n + 1)
    BY <1>0, <2>7
  <2>9. n - 1 < n /\ \A k \in 1 .. n - 1 : k \in 1 .. t.new - 1 /\ ~(n < k)
    BY <1>0, <2>7
  <2>10. InPlace(t, ids, map)
    <3>1. ToSet(t.dom) \subseteq ToSet(dom) \cup {map[ids[k]] : k \in 1 .. t.new - 1}
      BY <1>1, <1>2, <2>9 DEF InPlace
    <3>2. \A k \in 1 .. t.new - 1 : /\ map[ids[k]] \in ToSet(t.dom)
                                    /\ t.ep = NoElement \/ Precedes(t.dom, map[ids[k]], t.ep)
      BY <1>1, <2>1, <2>4, <2>6, <2>7, <2>8
    <3>3. \A j, k \in 1 .. t.new - 1 : j < k => Precedes(t.dom, map[ids[j]], map[ids[k]])
      <4> SUFFICES ASSUME NEW j \in 1 .. t.new - 1, NEW k \in 1 .. t.new - 1, j < k
                   PROVE  Precedes(t.dom, map[ids[j]], map[ids[k]])
        OBVIOUS
      <4>1. CASE k \in 1 .. n - 1
        <5>1. j \in 1 .. n - 1
          BY <1>0, <4>1
        <5> QED
          BY <1>1, <1>2, <4>1, <5>1 DEF InPlace
      <4>2. CASE k = n
        <5>1. j \in 1 .. n - 1
          BY <1>0, <4>2
        <5> QED
          BY <1>1, <2>6, <2>7, <2>8, <4>2, <5>1
      <4> QED
        BY <2>8, <4>1, <4>2
    <3> QED
      BY <3>1, <3>2, <3>3 DEF InPlace
  <2>11. InLine(t)
    <3>1. \A m \in 1 .. Len(curOrder) : Due(t, m) => Precedes(d, y, idmap[curOrder[m]])
      BY <1>2, <1>3, <2>3 DEF InLine
    <3>2. \A l, m \in 1 .. Len(curOrder) : Due(t, l) /\ Due(t, m) /\ l < m =>
             Precedes(d, idmap[curOrder[l]], idmap[curOrder[m]])
      BY <1>2, <1>3 DEF InLine
    <3> QED
      BY <1>1, <2>4, <3>1, <3>2 DEF InLine
  <2>12. Tracked(t, ids)
    <3>1. t.moved \subseteq {ids[k] : k \in 1 .. t.new - 1}
      BY <1>1, <1>2, <2>9 DEF Tracked
    <3>2. ASSUME NEW k \in 1 .. t.new - 1, NEW m \in t.old .. Len(curOrder), curOrder[m] = ids[k]
          PROVE  curOrder[m] \in t.moved
      <4>1. m \in s.old .. Len(curOrder) /\ m \in 1 .. Len(curOrder) /\ m # s.old
        BY <1>1
      <4>2. CASE k \in 1 .. n - 1
        BY <1>1, <1>2, <3>2, <4>1, <4>2 DEF Tracked
      <4>3. CASE k = n /\ t.new = n + 1
        <5>1. curOrder[m] = o
          BY <1>0, <2>7, <3>2, <4>3
        <5> QED
          BY <4>1, <5>1 DEF BothRows, NewRows, OldRows
      <4> QED
        BY <2>8, <4>2, <4>3
    <3>3. ASSUME NEW m \in 1 .. t.old - 1, curOrder[m] \in ToSet(ids)
          PROVE  \E k \in 1 .. t.new - 1 : ids[k] = curOrder[m]
      <4>1. CASE m = s.old
        <5>1. t.new = n + 1 /\ n \in 1 .. t.new - 1 /\ ids[n] = o
          BY <1>0, <1>5, <3>3, <4>1
        <5> QED
          BY <4>1, <5>1
      <4>2. CASE m \in 1 .. s.old - 1
        <5>1. PICK k \in 1 .. n - 1 : ids[k] = curOrder[m]
          BY <1>2, <3>3, <4>2 DEF Tracked
        <5> QED
          BY <2>9, <5>1
      <4> QED
        BY <1>1, <4>1, <4>2
    <3> QED
      BY <3>1, <3>2, <3>3 DEF Tracked
  <2> QED
    BY <1>1, <1>2, <2>10, <2>11, <2>12 DEF Orderly
<1> QED
  BY <1>4, <1>5 DEF Stepped

LEMMA InsertedOrderly ==
  ASSUME NEW ids, NEW map, NEW most, Filling(ids, map, most), BothRows(ids, map),
         NEW s \in Walks(ids, map, most), NEW t,
         Inserted(s, t, ids, map), Orderly(s, ids, map)
  PROVE  Orderly(t, ids, map)
<1> DEFINE d == s.dom
           n == s.new
           x == map[ids[n]]
           o == curOrder[s.old]
<1>0. /\ d \in Seq(1 .. most) /\ IsInjective(d) /\ ToSet(dom) \subseteq ToSet(d)
      /\ NoElement \notin 1 .. most /\ n \in 1 .. Len(ids)
      /\ s.ep \in ToSet(d) \cup {NoElement} /\ s.old \in 1 .. Len(curOrder) + 1
      /\ x \in 1 .. most /\ Len(ids) \in Nat /\ Len(curOrder) \in Nat
  BY WalkTypes DEF BothRows, NewRows, OldRows, Inserted
<1>1. /\ PutNext(s, t, x)
      /\ \/ s.old = Len(curOrder) + 1 /\ t.moved = s.moved
         \/ /\ s.old \in 1 .. Len(curOrder) /\ t.moved = s.moved \cup {ids[n]}
            /\ o # ids[n] /\ o \notin s.moved /\ o \notin DOMAIN map \ ToSet(ids)
  BY DEF Inserted
<1>2. /\ InPlace(s, ids, map) /\ InLine(s) /\ Tracked(s, ids)
      /\ s.touched # {} => Crossed(ids) /\ ~s.failed
  BY DEF Orderly
<1>3. /\ t.dom = Before(d, x, s.ep) /\ t.new = n + 1 /\ t.ep = s.ep /\ t.old = s.old
      /\ t.touched = (IF x \in ToSet(d) THEN s.touched \cup {x} ELSE s.touched)
      /\ t.failed = s.failed
  BY <1>1 DEF PutNext
<1>4. \A k \in 1 .. n - 1 : k \in 1 .. Len(ids) /\ k # n /\ k < n /\ ~(n < k)
  BY <1>0
<1>5. \A k \in 1 .. n - 1 : ids[k] # ids[n] /\ map[ids[k]] # x
  BY <1>0, <1>4 DEF BothRows, NewRows
<1>6. \A u, v, w : /\ Precedes(d, u, v) /\ Precedes(d, v, w) => Precedes(d, u, w)
                   /\ ~Precedes(d, u, u)
                   /\ Precedes(d, u, v) => u \in ToSet(d) /\ v \in ToSet(d)
  BY <1>0, LinearIn
\* A row that is taken from its place stood behind the next one of the old order.
<1>7. x \in ToSet(d) => x # s.ep /\ Crossed(ids)
  <2> SUFFICES ASSUME x \in ToSet(d) PROVE x # s.ep /\ Crossed(ids)
    OBVIOUS
  <2>1. ids[n] \in DOMAIN idmap
    <3>1. x \in ToSet(dom)
      BY <1>2, <1>5 DEF InPlace
    <3> QED
      BY <1>0, <3>1 DEF BothRows, NewRows
  <2>2. PICK m \in 1 .. Len(curOrder) : curOrder[m] = ids[n]
    BY <2>1 DEF BothRows, OldRows
  <2>3. x = idmap[curOrder[m]] /\ curOrder[m] \in ToSet(ids)
    BY <1>0, <2>2 DEF BothRows, OldRows, NewRows
  <2>4. ~(m \in 1 .. s.old - 1)
    BY <1>2, <1>5, <2>2, <2>3 DEF Tracked
  <2>5. m \in s.old .. Len(curOrder) /\ s.old \in 1 .. Len(curOrder)
    BY <1>0, <2>4
  <2>6. ids[n] \notin s.moved
    BY <1>2, <1>5 DEF Tracked
  <2>7. o # ids[n] /\ o \notin s.moved /\ o \notin DOMAIN map \ ToSet(ids)
    BY <1>0, <1>1, <2>5
  <2>8. s.old < m /\ Due(s, s.old) /\ Due(s, m)
    <3>1. m # s.old
      BY <2>2, <2>7
    <3> QED
      BY <1>0, <2>2, <2>5, <2>6, <2>7, <3>1 DEF Due
  <2>9. /\ s.ep # NoElement /\ (s.ep = idmap[o] \/ Precedes(d, s.ep, idmap[o]))
        /\ Precedes(d, idmap[o], x)
    BY <1>2, <2>3, <2>5, <2>8 DEF InLine
  <2>10. x # s.ep
    BY <1>6, <2>9
  <2>11. o \in ToSet(ids)
    BY <2>5, <2>7 DEF BothRows, OldRows
  <2>12. PICK k \in 1 .. Len(ids) : ids[k] = o
    BY <2>11 DEF BothRows, NewRows
  <2>13. ~(k \in 1 .. n - 1)
    <3>1. s.old \in s.old .. Len(curOrder)
      BY <1>0, <2>5
    <3> QED
      BY <1>2, <2>7, <2>12, <3>1 DEF Tracked
  <2>14. n < k
    <3>1. k # n
      BY <2>7, <2>12
    <3> QED
      BY <1>0, <2>13, <3>1
  <2>15. Precedes(curOrder, o, ids[n]) /\ Precedes(ids, ids[n], o)
    <3>1. DOMAIN curOrder = 1 .. Len(curOrder) /\ DOMAIN ids = 1 .. Len(ids)
      BY DEF BothRows, NewRows, OldRows
    <3> QED
      BY <1>0, <2>2, <2>5, <2>8, <2>12, <2>14, <3>1 DEF Precedes
  <2> QED
    BY <2>10, <2>15 DEF Crossed
<1>8. x # s.ep
  BY <1>0, <1>7
<1>9. PutIn(1 .. most, d, t.dom, x, s.ep)
  <2> HIDE DEF x, d
  <2>1. PutIn(1 .. most, d, Before(d, x, s.ep), x, s.ep)
    BY <1>0, BeforeIs
  <2> QED
    BY <1>3, <2>1
<1> HIDE DEF x
<1>10. /\ ToSet(t.dom) = ToSet(d) \cup {x}
       /\ \A y, w : y # x /\ w # x => (Precedes(t.dom, y, w) <=> Precedes(d, y, w))
       /\ s.ep # NoElement => Precedes(t.dom, x, s.ep)
       /\ \A y : y # x /\ (IF s.ep = NoElement THEN y \in ToSet(d) ELSE Precedes(d, y, s.ep))
                    => Precedes(t.dom, y, x)
  BY <1>8, <1>9 DEF PutIn
<1>11. \A k \in 1 .. t.new - 1 : k \in 1 .. n - 1 \/ k = n
  BY <1>0, <1>3
<1>12. map[ids[n]] = x /\ n \in 1 .. t.new - 1 /\ \A k \in 1 .. n - 1 : k \in 1 .. t.new - 1
  BY <1>0, <1>3 DEF x
<1>13. \A k \in 1 .. n - 1 :
         /\ map[ids[k]] \in ToSet(t.dom) /\ Precedes(t.dom, map[ids[k]], x)
         /\ s.ep = NoElement \/ Precedes(t.dom, map[ids[k]], s.ep)
  <2> TAKE k \in 1 .. n - 1
  <2>1. /\ map[ids[k]] \in ToSet(d) /\ map[ids[k]] # x
        /\ s.ep = NoElement \/ Precedes(d, map[ids[k]], s.ep)
    BY <1>2, <1>5 DEF InPlace, x
  <2> QED
    BY <1>8, <1>10, <2>1
<1>14. InPlace(t, ids, map)
  <2>1. ToSet(t.dom) \subseteq ToSet(dom) \cup {map[ids[k]] : k \in 1 .. t.new - 1}
    BY <1>2, <1>10, <1>12 DEF InPlace
  <2>2. \A k \in 1 .. t.new - 1 : /\ map[ids[k]] \in ToSet(t.dom)
                                  /\ t.ep = NoElement \/ Precedes(t.dom, map[ids[k]], t.ep)
    BY <1>3, <1>10, <1>11, <1>12, <1>13
  <2>3. \A j, k \in 1 .. t.new - 1 : j < k => Precedes(t.dom, map[ids[j]], map[ids[k]])
    <3> SUFFICES ASSUME NEW j \in 1 .. t.new - 1, NEW k \in 1 .. t.new - 1, j < k
                 PROVE  Precedes(t.dom, map[ids[j]], map[ids[k]])
      OBVIOUS
    <3>1. CASE k \in 1 .. n - 1
      <4>1. j \in 1 .. n - 1
        BY <1>0, <3>1
      <4>2. Precedes(d, map[ids[j]], map[ids[k]]) /\ map[ids[j]] # x /\ map[ids[k]] # x
        BY <1>2, <1>5, <3>1, <4>1 DEF InPlace, x
      <4> QED
        BY <1>10, <4>2
    <3>2. CASE k = n
      <4>1. j \in 1 .. n - 1
        BY <1>0, <3>2
      <4> QED
        BY <1>12, <1>13, <3>2, <4>1
    <3> QED
      BY <1>11, <3>1, <3>2
  <2> QED
    BY <2>1, <2>2, <2>3 DEF InPlace
<1>15. \A m \in 1 .. Len(curOrder) : Due(t, m) => Due(s, m) /\ idmap[curOrder[m]] # x
  <2> SUFFICES ASSUME NEW m \in 1 .. Len(curOrder), Due(t, m)
               PROVE  Due(s, m) /\ idmap[curOrder[m]] # x
    OBVIOUS
  <2>1. m \in s.old .. Len(curOrder) /\ curOrder[m] \notin t.moved
    BY <1>3 DEF Due
  <2>2. s.old # Len(curOrder) + 1
    BY <1>0, <2>1
  <2>3. t.moved = s.moved \cup {ids[n]}
    BY <1>1, <2>2
  <2>4. curOrder[m] \notin s.moved /\ curOrder[m] # ids[n]
    BY <2>1, <2>3
  <2>5. idmap[curOrder[m]] # x
    BY <1>0, <2>4 DEF BothRows, OldRows, x
  <2> QED
    BY <2>1, <2>4, <2>5 DEF Due
<1>16. InLine(t)
  <2>1. \A m \in 1 .. Len(curOrder) : Due(t, m) =>
          /\ t.ep # NoElement
          /\ t.ep = idmap[curOrder[m]] \/ Precedes(t.dom, t.ep, idmap[curOrder[m]])
    BY <1>2, <1>3, <1>8, <1>10, <1>15 DEF InLine
  <2>2. \A l, m \in 1 .. Len(curOrder) : Due(t, l) /\ Due(t, m) /\ l < m =>
          Precedes(t.dom, idmap[curOrder[l]], idmap[curOrder[m]])
    BY <1>2, <1>10, <1>15 DEF InLine
  <2> QED
    BY <2>1, <2>2 DEF InLine
<1>17. Tracked(t, ids)
  <2>1. t.moved \subseteq {ids[k] : k \in 1 .. t.new - 1}
    BY <1>1, <1>2, <1>12 DEF Tracked
  <2>2. ASSUME NEW k \in 1 .. t.new - 1, NEW m \in t.old .. Len(curOrder), curOrder[m] = ids[k]
        PROVE  curOrder[m] \in t.moved
    <3>1. m \in s.old .. Len(curOrder) /\ s.old # Len(curOrder) + 1
      BY <1>0, <1>3
    <3>2. t.moved = s.moved \cup {ids[n]}
      BY <1>1, <3>1
    <3>3. CASE k \in 1 .. n - 1
      BY <1>2, <2>2, <3>1, <3>2, <3>3 DEF Tracked
    <3>4. CASE k = n
      BY <2>2, <3>2, <3>4
    <3> QED
      BY <1>11, <3>3, <3>4
  <2>3. ASSUME NEW m \in 1 .. t.old - 1, curOrder[m] \in ToSet(ids)
        PROVE  \E k \in 1 .. t.new - 1 : ids[k] = curOrder[m]
    <3>1. PICK k \in 1 .. n - 1 : ids[k] = curOrder[m]
      BY <1>2, <1>3, <2>3 DEF Tracked
    <3> QED
      BY <1>12, <3>1
  <2> QED
    BY <2>1, <2>2, <2>3 DEF Tracked
<1>18. t.touched # {} => Crossed(ids)
  BY <1>2, <1>3, <1>7 DEF x
<1> QED
  BY <1>2, <1>3, <1>14, <1>16, <1>17, <1>18 DEF Orderly

\* How far the loop has come after m rounds.
Gone(s, ids, m) ==
    s.old + s.new >= m + 2 \/ (s.old = Len(curOrder) + 1 /\ s.new = Len(ids) + 1)

LEMMA RoundOrderly ==
  ASSUME Placed, Ordered, NEW ids, NEW map, NEW most, Filling(ids, map, most),
         IsInjective(ids), NEW s \in Walks(ids, map, most), NEW t \in Walks(ids, map, most),
         Round(s, t, ids, map), Orderly(s, ids, map), NEW m \in Nat, Gone(s, ids, m)
  PROVE  Orderly(t, ids, map) /\ Gone(t, ids, m + 1)
<1>1. BothRows(ids, map)
  BY TwoLists
<1>2. /\ s.old \in 1 .. Len(curOrder) + 1 /\ s.new \in 1 .. Len(ids) + 1
      /\ Len(curOrder) \in Nat /\ Len(ids) \in Nat
  BY <1>1, WalkTypes DEF BothRows, NewRows, OldRows
<1>3. CASE t = s /\ s.old = Len(curOrder) + 1 /\ s.new = Len(ids) + 1
  BY <1>3 DEF Gone
<1>4. CASE s.old \in 1 .. Len(curOrder) /\ Stepped(s, t, ids, map)
  <2>1. Orderly(t, ids, map)
    BY <1>1, <1>4, SteppedOrderly
  <2>2. t.old = s.old + 1 /\ (t.new = s.new \/ t.new = s.new + 1)
    BY <1>4 DEF Stepped
  <2> QED
    BY <1>2, <1>4, <2>1, <2>2 DEF Gone
<1>5. CASE Inserted(s, t, ids, map)
  <2>1. Orderly(t, ids, map)
    BY <1>1, <1>5, InsertedOrderly
  <2>2. t.old = s.old /\ t.new = s.new + 1 /\ s.new \in 1 .. Len(ids)
    BY <1>5 DEF Inserted, PutNext
  <2> QED
    BY <1>2, <2>1, <2>2 DEF Gone
<1>6. CASE /\ t.failed /\ s.old \in 1 .. Len(curOrder) /\ s.new = Len(ids) + 1
           /\ curOrder[s.old] \notin s.moved
           /\ curOrder[s.old] \notin DOMAIN map \ ToSet(ids)
  <2>1. curOrder[s.old] \in ToSet(ids)
    BY <1>1, <1>6 DEF BothRows, OldRows
  <2>2. PICK k \in 1 .. Len(ids) : ids[k] = curOrder[s.old]
    BY <1>1, <2>1 DEF BothRows, NewRows
  <2>3. k \in 1 .. s.new - 1 /\ s.old \in s.old .. Len(curOrder)
    BY <1>2, <1>6
  <2>4. curOrder[s.old] \in s.moved
    BY <2>2, <2>3 DEF Orderly, Tracked
  <2> QED
    BY <1>6, <2>4
<1> QED
  BY <1>3, <1>4, <1>5, <1>6 DEF Round

-----------------------------------------------------------------------------
(* The loop *)

Start == [dom |-> dom, ep |-> IF dom = <<>> THEN NoElement ELSE dom[1],
          old |-> 1, new |-> 1, moved |-> {}, touched |-> {}, failed |-> FALSE]

LEMMA StartsOrderly ==
  ASSUME Placed, NEW ids, NEW map, NEW most, Filling(ids, map, most)
  PROVE  /\ Start \in Walks(ids, map, most)
         /\ Ordered => Orderly(Start, ids, map) /\ Gone(Start, ids, 0)
<1> DEFINE f == IF dom = <<>> THEN NoElement ELSE dom[1]
<1>1. /\ made \in Nat /\ most \in Nat /\ made <= most /\ dom \in Seq(1 .. made)
      /\ IsInjective(dom) /\ ids \in Seq(Ids) /\ curOrder \in Seq(Ids)
      /\ Len(ids) \in Nat /\ Len(curOrder) \in Nat
  BY DEF Placed, Filling
<1>2. dom \in Seq(1 .. most)
  <2>1. 1 .. made \subseteq 1 .. most
    BY <1>1
  <2> QED
    BY <1>1, <2>1, SeqMonotonic
<1>3. /\ dom # <<>> => 1 \in DOMAIN dom /\ f = dom[1] /\ f \in ToSet(dom)
      /\ f \in ToSet(dom) \cup {NoElement}
  <2>1. dom # <<>> => 1 \in 1 .. Len(dom)
    BY <1>1
  <2> QED
    BY <1>1, <2>1 DEF ToSet
<1>4. f \in 0 .. most
  <2>1. ToSet(dom) \subseteq 1 .. most
    BY <1>2, InSequence
  <2> HIDE DEF f
  <2> QED
    BY <1>1, <1>3, <2>1 DEF NoElement
<1> HIDE DEF f
<1>5. Start = [dom |-> dom, ep |-> f, old |-> 1, new |-> 1, moved |-> {}, touched |-> {},
               failed |-> FALSE]
  BY DEF Start, f
<1>6. Start \in Rounds(ids, most)
  BY <1>1, <1>2, <1>4, <1>5 DEF Rounds
<1>7. Start \in Walks(ids, map, most)
  BY <1>1, <1>3, <1>5, <1>6 DEF Walks
<1>8. ASSUME Ordered PROVE Orderly(Start, ids, map) /\ Gone(Start, ids, 0)
  <2>0. /\ Start.dom = dom /\ Start.ep = f /\ Start.old = 1 /\ Start.new = 1 /\ Start.moved = {}
        /\ Start.touched = {} /\ Start.failed = FALSE /\ 1 .. 1 - 1 = {} /\ Start.new - 1 = 0
        /\ 1 .. 0 = {}
    BY <1>5
  <2>1. InPlace(Start, ids, map)
    BY <2>0 DEF InPlace
  <2>2. Tracked(Start, ids)
    BY <2>0 DEF Tracked
  <2>3. InLine(Start)
    <3>1. ASSUME NEW m \in 1 .. Len(curOrder)
          PROVE  f # NoElement /\ (f = idmap[curOrder[m]] \/ Precedes(dom, f, idmap[curOrder[m]]))
      <4>1. idmap[curOrder[m]] \in ToSet(dom)
        <5>1. curOrder[m] \in DOMAIN idmap
          <6>1. curOrder[m] \in ToSet(curOrder)
            BY <1>1 DEF ToSet
          <6> QED
            BY <1>8, <6>1 DEF Ordered
        <5> QED
          BY <1>8, <5>1 DEF Ordered, Live, Range
      <4> DEFINE y == idmap[curOrder[m]]
      <4>5. DOMAIN dom = 1 .. Len(dom) /\ y \in ToSet(dom)
        BY <1>1, <4>1
      <4> HIDE DEF y
      <4>6. \E i \in 1 .. Len(dom) : dom[i] = y
        BY <4>5 DEF ToSet
      <4>2. PICK i \in 1 .. Len(dom) : dom[i] = idmap[curOrder[m]]
        BY <4>6 DEF y
      <4>3. dom # <<>> /\ 1 \in 1 .. Len(dom)
        BY <1>1, <4>2
      <4>4. f = dom[1] /\ f # NoElement
        BY <1>1, <1>3, <4>3 DEF NoElement
      <4>7. i = 1 \/ 1 < i
        BY <4>2
      <4> QED
        BY <1>1, <4>2, <4>3, <4>4, <4>7 DEF Precedes
    <3>2. \A l, m \in 1 .. Len(curOrder) : l < m =>
            Precedes(dom, idmap[curOrder[l]], idmap[curOrder[m]])
      <4>1. DOMAIN curOrder = 1 .. Len(curOrder)
        BY <1>1
      <4>2. \A i, j \in DOMAIN curOrder :
              i < j => Precedes(dom, idmap[curOrder[i]], idmap[curOrder[j]])
        BY <1>8 DEF Ordered
      <4> QED
        BY <4>1, <4>2
    <3> QED
      BY <2>0, <3>1, <3>2 DEF InLine
  <2>4. Gone(Start, ids, 0)
    BY <2>0 DEF Gone
  <2> QED
    BY <2>0, <2>1, <2>2, <2>3, <2>4 DEF Orderly
<1> QED
  BY <1>7, <1>8

\* finish, when the order and the map agree, does not fail, and leaves the rows in the
\* order of the list, without moving one if none has to be moved.
LEMMA ArrangedIs ==
  ASSUME Placed, NEW ids, NEW map, NEW most, Filling(ids, map, most)
  PROVE  LET s == Arranged(ids, map)
         IN  /\ s \in Walks(ids, map, most)
             /\ Ordered /\ IsInjective(ids) =>
                  Orderly(s, ids, map) /\ s.old = Len(curOrder) + 1 /\ s.new = Len(ids) + 1
<1> DEFINE n == Len(curOrder) + Len(ids)
           W == Walks(ids, map, most)
           Step(s, i) == IF s.failed THEN s ELSE Merged(s, ids, map)
           Body(g, T) == IF T = {} THEN Start ELSE Step(g[T \ {Max(T)}], Max(T))
           Rec(g) == g = [T \in SUBSET (1 .. n) |-> Body(g, T)]
           iter == CHOOSE g : Rec(g)
           F == [u \in W \X (1 .. n) |-> Step(u[1], u[2])]
<1>0. n \in Nat /\ Len(curOrder) \in Nat /\ Len(ids) \in Nat /\ curOrder \in Seq(Ids)
  BY DEF Placed, Filling
<1>1. Arranged(ids, map) = iter[1 .. n]
  <2> DEFINE q == [i \in 1 .. n |-> i]
             Body2(g, T) == IF T = {} THEN Start ELSE Step(g[T \ {Max(T)}], q[Max(T)])
             iter2 == CHOOSE g : g = [T \in SUBSET (1 .. n) |-> Body2(g, T)]
  <2>1. DOMAIN q = 1 .. n
    OBVIOUS
  <2>2. Arranged(ids, map) = iter2[1 .. n]
    BY <2>1 DEF Arranged, FoldLeft, MapThenFoldSet, Start
  <2>3. ASSUME NEW g PROVE \A T \in SUBSET (1 .. n) : Body2(g, T) = Body(g, T)
    <3>1. \A T \in SUBSET (1 .. n) : T # {} => q[Max(T)] = Max(T)
      BY <1>0, MaxInRange
    <3> HIDE DEF q, n
    <3> QED
      BY <3>1
  <2>4. ASSUME NEW g
        PROVE  g = [T \in SUBSET (1 .. n) |-> Body2(g, T)] <=> Rec(g)
    <3>1. \A T \in SUBSET (1 .. n) : Body2(g, T) = Body(g, T)
      BY <2>3
    <3> HIDE DEF Body, Body2
    <3> QED
      BY <3>1
  <2> HIDE DEF Body2
  <2>5. iter2 = iter
    BY <2>4
  <2> QED
    BY <2>2, <2>5
<1>2. \A s \in W : \A i \in 1 .. n : Step(s, i) \in W /\ (s.failed \/ Round(s, Step(s, i), ids, map))
  BY <1>0, MergedWalks
<1>3. Start \in W /\ (Ordered => Orderly(Start, ids, map) /\ Gone(Start, ids, 0))
  BY StartsOrderly
<1> HIDE DEF n, W, Step
<1>4. F \in [W \X (1 .. n) -> W]
  BY <1>2
<1>5. PICK g : Folding(n, W, Start, F, g)
  <2> HIDE DEF F
  <2> QED
    BY <1>0, <1>3, <1>4, FoldExists
<1>6. Rec(g)
  <2>1. ASSUME NEW T \in SUBSET (1 .. n) PROVE g[T] = Body(g, T)
    <3>1. CASE T = {}
      BY <1>5, <3>1 DEF Folding
    <3>2. CASE T # {}
      <4>1. g[T \ {Max(T)}] \in W /\ Max(T) \in 1 .. n
        BY <1>0, <1>5, <3>2, MaxInRange DEF Folding
      <4>2. g[T] = F[<<g[T \ {Max(T)}], Max(T)>>]
        BY <1>5, <3>2 DEF Folding
      <4> QED
        BY <3>2, <4>1, <4>2
    <3> QED
      BY <3>1, <3>2
  <2>2. g = [T \in SUBSET (1 .. n) |-> g[T]]
    BY <1>5 DEF Folding
  <2> HIDE DEF Body
  <2> QED
    BY <2>1, <2>2
<1> HIDE DEF Rec
<1>7. Rec(iter)
  BY <1>6
<1>8. \A T \in SUBSET (1 .. n) : iter[T] = Body(iter, T)
  <2> HIDE DEF iter, Body
  <2> QED
    BY <1>7 DEF Rec
<1> HIDE DEF iter
<1> DEFINE Good(s, m) == /\ s \in W
                         /\ Ordered /\ IsInjective(ids) =>
                              Orderly(s, ids, map) /\ Gone(s, ids, m)
           G == {m \in 0 .. n : Good(iter[1 .. m], m)}
<1>9. 0 \in G
  <2>1. 1 .. 0 = {} /\ {} \in SUBSET (1 .. n)
    OBVIOUS
  <2>2. iter[1 .. 0] = Start
    BY <1>8, <2>1
  <2> QED
    BY <1>0, <1>3, <2>2
<1>10. ASSUME NEW k \in 0 .. n, k # n, k \in G PROVE k + 1 \in G
  <2> DEFINE m == k + 1
             x == iter[1 .. k]
  <2>1. m \in 1 .. n /\ m \in 0 .. n /\ k \in Nat /\ m - 1 = k
    BY <1>0, <1>10
  <2>2. Good(x, k)
    BY <1>10
  <2> HIDE DEF m
  <2>3. /\ 1 .. m \in SUBSET (1 .. n) /\ 1 .. m # {}
        /\ Max(1 .. m) = m /\ (1 .. m) \ {m} = 1 .. m - 1
    BY <1>0, <2>1, RangeTop
  <2>4. iter[1 .. m] = Step(x, m)
    BY <1>8, <2>1, <2>3
  <2> HIDE DEF x
  <2>5. Step(x, m) \in W /\ (x.failed \/ Round(x, Step(x, m), ids, map))
    BY <1>2, <2>1, <2>2
  <2>6. ASSUME Ordered, IsInjective(ids)
        PROVE  Orderly(Step(x, m), ids, map) /\ Gone(Step(x, m), ids, m)
    <3>1. Orderly(x, ids, map) /\ Gone(x, ids, k) /\ Round(x, Step(x, m), ids, map)
      BY <2>2, <2>5, <2>6 DEF Orderly
    <3>2. Orderly(Step(x, m), ids, map) /\ Gone(Step(x, m), ids, k + 1)
      BY <2>1, <2>2, <2>5, <2>6, <3>1, RoundOrderly DEF W
    <3> QED
      BY <3>2 DEF m
  <2>7. Good(iter[1 .. m], m)
    BY <2>4, <2>5, <2>6
  <2> QED
    BY <2>1, <2>7 DEF m
<1>11. Good(iter[1 .. n], n)
  <2> HIDE DEF Good
  <2>1. \A m \in 0 .. n : m \in G
    <3> HIDE DEF G
    <3> QED
      BY <1>0, <1>9, <1>10, RangeInduction
  <2> QED
    BY <1>0, <2>1
<1> DEFINE s == Arranged(ids, map)
<1>12. Good(s, n)
  BY <1>1, <1>11
<1> HIDE DEF s
<1>13. ASSUME Ordered, IsInjective(ids)
       PROVE  s.old = Len(curOrder) + 1 /\ s.new = Len(ids) + 1
  <2>1. /\ s \in Walks(ids, map, most) /\ Gone(s, ids, n)
    BY <1>12, <1>13 DEF W
  <2>2. s.old \in 1 .. Len(curOrder) + 1 /\ s.new \in 1 .. Len(ids) + 1
    BY <2>1, WalkTypes
  <2> QED
    BY <1>0, <2>1, <2>2 DEF Gone, n
<1> QED
  BY <1>12, <1>13 DEF W, s

-----------------------------------------------------------------------------
(* The steps of the list *)

LEMMA NoRows ==
  ASSUME NEW S, NEW s, s = <<>>
  PROVE  /\ s \in Seq(S) /\ IsInjective(s) /\ DOMAIN s = {} /\ ToSet(s) = {} /\ Range(s) = {}
         /\ s \in [DOMAIN s -> S]
<1>1. <<>> \in Seq(S) /\ Len(<<>>) = 0
  OBVIOUS
<1>2. DOMAIN s = {} /\ s \in Seq(S)
  BY <1>1
<1>3. s = [i \in {} |-> s[i]]
  BY <1>1, <1>2
<1> QED
  BY <1>2, <1>3 DEF IsInjective, ToSet, Range

LEMMA RowInitInv == RowInit => RowInv
<1> SUFFICES ASSUME RowInit PROVE RowInv
  OBVIOUS
<1>1. /\ made = 0 /\ closing = {} /\ stale = {} /\ sets = 0
      /\ dom = <<>> /\ idmap = <<>> /\ curOrder = <<>>
  BY DEF RowInit
<1>2. dom \in Seq(1 .. made) /\ IsInjective(dom) /\ ToSet(dom) = {}
  BY <1>1, NoRows
<1>3. /\ idmap \in [DOMAIN idmap -> 1 .. made] /\ IsInjective(idmap) /\ DOMAIN idmap = {}
      /\ Live = {}
  BY <1>1, NoRows DEF Live
<1>4. /\ curOrder \in Seq(Ids) /\ IsInjective(curOrder) /\ ToSet(curOrder) = {}
      /\ DOMAIN curOrder = {}
  BY <1>1, NoRows
<1>5. Placed
  BY <1>1, <1>2, <1>3, <1>4 DEF Placed
<1>6. Ordered
  BY <1>2, <1>3, <1>4 DEF Ordered
<1> QED
  BY <1>1, <1>5, <1>6, RowAssumption DEF RowInv

LEMMA RowIdsType == ASSUME NEW rows \in Lists PROVE RowIds(rows) \in Seq(Ids)
<1>1. PICK m \in 0 .. MaxRows : rows \in [1 .. m -> 0 .. MaxId]
  BY DEF Lists, SeqOf
<1>2. m \in Nat /\ MaxId \in Nat /\ MaxRows \in Nat /\ DOMAIN rows = 1 .. m
  BY <1>1, RowAssumption
<1>3. \A i \in 1 .. m : (IF rows[i] = 0 THEN i - 1 ELSE rows[i]) \in 0 .. MaxId + MaxRows
  <2> TAKE i \in 1 .. m
  <2>1. rows[i] \in 0 .. MaxId /\ i - 1 \in 0 .. MaxRows
    BY <1>1, <1>2
  <2> QED
    BY <1>2, <2>1
<1>4. RowIds(rows) \in [1 .. m -> Ids]
  BY <1>2, <1>3 DEF RowIds, Ids
<1> QED
  BY <1>2, <1>4

\* What readData lists is a list without an id that comes twice.
LEMMA ReadRowsType ==
  ASSUME Placed
  PROVE  ReadRows \subseteq Seq(Ids) /\ \A ids \in ReadRows : IsInjective(ids)
<1> SUFFICES ASSUME NEW ids \in ReadRows PROVE ids \in Seq(Ids) /\ IsInjective(ids)
  OBVIOUS
<1> DEFINE m == Cardinality(DOMAIN idmap)
<1>1. DOMAIN idmap \subseteq Ids /\ IsFiniteSet(Ids) /\ Ids \in SUBSET Nat
  BY IdRange DEF Placed
<1>2. m \in Nat
  BY <1>1, FS_Subset, FS_CardinalityType
<1>3. ids \in [1 .. m -> DOMAIN idmap] /\ \A i, j \in DOMAIN ids : i < j => ids[i] < ids[j]
  BY DEF ReadRows
<1> HIDE DEF m
<1>4. ids \in [1 .. m -> Ids] /\ DOMAIN ids = 1 .. m
  BY <1>1, <1>3
<1>5. ids \in Seq(Ids)
  BY <1>2, <1>4
<1>6. \A i, j \in 1 .. m : i # j => ids[i] # ids[j]
  <2> TAKE i, j \in 1 .. m
  <2>1. ids[i] \in Nat /\ ids[j] \in Nat
    BY <1>1, <1>4
  <2> QED
    BY <1>2, <1>3, <1>4, <2>1
<1> QED
  BY <1>4, <1>5, <1>6 DEF IsInjective

\* The ids of a list of which none comes twice.
LEMMA NoneTwice ==
  ASSUME NEW S, NEW ids \in Seq(S),
         {i \in DOMAIN ids : \E j \in 1 .. i - 1 : ids[j] = ids[i]} = {}
  PROVE  IsInjective(ids)
<1> SUFFICES ASSUME NEW i \in DOMAIN ids, NEW j \in DOMAIN ids, ids[i] = ids[j] PROVE i = j
  BY DEF IsInjective
<1>1. i \in 1 .. Len(ids) /\ j \in 1 .. Len(ids) /\ Len(ids) \in Nat
  OBVIOUS
<1>2. ~(i < j) /\ ~(j < i)
  <2>1. i < j => i \in 1 .. j - 1
    BY <1>1
  <2>2. j < i => j \in 1 .. i - 1
    BY <1>1
  <2> QED
    BY <2>1, <2>2
<1> QED
  BY <1>1, <1>2

\* The map with a part of its rows.
Kept(r, D, map, most) ==
    /\ r \in [D -> 1 .. most] /\ DOMAIN r = D /\ IsInjective(r) /\ D \subseteq Ids
    /\ \A id \in D : r[id] = map[id]
    /\ Range(r) \cap (closing \cup stale) = {}

LEMMA RestrictKeeps ==
  ASSUME Placed, NEW ids, NEW map, NEW most, Filling(ids, map, most), NEW D \in SUBSET DOMAIN map,
         NEW r, r = Restrict(map, D)
  PROVE  Kept(r, D, map, most)
<1>1. /\ map \in [DOMAIN idmap \cup ToSet(ids) -> 1 .. most] /\ IsInjective(map)
      /\ ids \in Seq(Ids) /\ dom \in Seq(1 .. made) /\ DOMAIN idmap \subseteq Ids
      /\ closing \cup stale \subseteq ToSet(dom) /\ Live \cap (closing \cup stale) = {}
      /\ \A id \in DOMAIN idmap : map[id] = idmap[id]
      /\ \A id \in ToSet(ids) \ DOMAIN idmap : map[id] \notin 1 .. made
  BY DEF Placed, Filling
<1>2. ToSet(ids) \subseteq Ids /\ ToSet(dom) \subseteq 1 .. made
  BY <1>1, InSequence
<1>3. DOMAIN map = DOMAIN idmap \cup ToSet(ids) /\ DOMAIN map \subseteq Ids
  BY <1>1, <1>2
<1>4. r = [id \in D |-> map[id]]
  BY DEF Restrict
<1>5. \A id \in DOMAIN map : map[id] \notin closing \cup stale
  <2> TAKE id \in DOMAIN map
  <2>1. CASE id \in DOMAIN idmap
    <3>1. map[id] \in Live
      BY <1>1, <2>1 DEF Live, Range
    <3> QED
      BY <1>1, <3>1
  <2>2. CASE id \notin DOMAIN idmap
    BY <1>1, <1>2, <1>3, <2>2
  <2> QED
    BY <2>1, <2>2
<1>6. r \in [D -> 1 .. most] /\ DOMAIN r = D /\ \A id \in D : r[id] = map[id]
  BY <1>1, <1>3, <1>4
<1>7. IsInjective(r)
  BY <1>1, <1>6 DEF IsInjective
<1>8. Range(r) \cap (closing \cup stale) = {}
  BY <1>5, <1>6 DEF Range
<1> QED
  BY <1>3, <1>6, <1>7, <1>8 DEF Kept

\* Rows that left are taken out, are closing, or stay in a view out of the document.
Dropped(els, d, most) ==
    /\ dom' \in Seq(1 .. most) /\ IsInjective(dom')
    /\ closing' \cup stale' \subseteq ToSet(dom') /\ closing' \cap stale' = {}
    /\ closing' \cup stale' \subseteq closing \cup stale \cup els
    /\ ToSet(d) \ els \subseteq ToSet(dom')
    /\ ToSet(dom') \subseteq (ToSet(d) \ els) \cup closing' \cup stale'
    /\ closing \cup stale \subseteq closing' \cup stale'
    /\ \A x, y : x \notin els /\ y \notin els /\ Precedes(d, x, y) => Precedes(dom', x, y)

LEMMA DropKeeps ==
  ASSUME NEW most, NEW d \in Seq(1 .. most), IsInjective(d), NEW els, Drop(els, d),
         closing \cup stale \subseteq ToSet(d), closing \cap stale = {},
         els \cap (closing \cup stale) = {}
  PROVE  Dropped(els, d, most)
<1>1. CASE connected
  <2>1. PICK slow \in SUBSET (els \cap ToSet(d)) :
          closing' = closing \cup slow /\ dom' = Outside(d, els \ slow) /\ stale' = stale
    BY <1>1 DEF Drop
  <2>2. /\ dom' \in Seq(1 .. most) /\ ToSet(dom') = ToSet(d) \ (els \ slow) /\ IsInjective(dom')
        /\ \A x, y : Precedes(dom', x, y) <=>
              x \notin els \ slow /\ y \notin els \ slow /\ Precedes(d, x, y)
    BY <2>1, OutsideProperties
  <2> QED
    BY <2>1, <2>2 DEF Dropped
<1>2. CASE ~connected
  <2>1. stale' = stale \cup (els \cap ToSet(d)) /\ dom' = d /\ closing' = closing
    BY <1>2 DEF Drop
  <2> QED
    BY <2>1 DEF Dropped
<1> QED
  BY <1>1, <1>2

\* What a step says of the rows that stay.
StayingRows ==
    ~broken' => /\ \A id \in DOMAIN idmap \cap DOMAIN idmap' : idmap'[id] = idmap[id]
                /\ touched' # {} => Crossed(curOrder')

LEMMA SetRowsKeeps ==
  ASSUME RowInv, NEW ids \in Seq(Ids), SetRows(ids)
  PROVE  RowInv' /\ StayingRows
<1> DEFINE map == Filled(ids)
           most == Max(Range(map) \cup {made})
           twice == {i \in DOMAIN ids : \E j \in 1 .. i - 1 : ids[j] = ids[i]}
           kept(n) == Restrict(map, DOMAIN map \ {ids[i] : i \in 1 .. n})
           s == Arranged(ids, map)
           new == ToSet(ids)
           els == {map[id] : id \in DOMAIN map \ new}
<1>1. Placed /\ sets \in 0 .. MaxSets /\ (~broken => Ordered)
  BY DEF RowInv
<1>2. Filling(ids, map, most)
  BY <1>1, FilledIs
<1>3. /\ sets' \in 0 .. MaxSets /\ made' = most
      /\ \/ /\ twice # {} /\ \E n : idmap' = kept(n)
            /\ broken' = TRUE /\ UNCHANGED <<dom, curOrder, closing, stale>>
         \/ /\ s.failed /\ idmap' = kept(Len(ids)) /\ dom' = s.dom
            /\ broken' = TRUE /\ UNCHANGED <<curOrder, closing, stale>>
         \/ /\ twice = {} /\ ~s.failed /\ idmap' = Restrict(map, new) /\ curOrder' = ids
            /\ touched' = s.touched /\ Drop(els, s.dom) /\ UNCHANGED broken
  <2>1. sets < MaxSets /\ sets' = sets + 1 /\ MaxSets \in Nat
    BY RowAssumption DEF SetRows
  <2>2. sets' \in 0 .. MaxSets
    BY <1>1, <2>1
  <2> HIDE DEF map, most, s
  <2> QED
    BY <2>2 DEF SetRows, map, most, s
<1>4. twice = {} => IsInjective(ids)
  BY NoneTwice
<1>5. /\ s \in Walks(ids, map, most)
      /\ Ordered /\ IsInjective(ids) => Orderly(s, ids, map) /\ s.new = Len(ids) + 1
  <2> HIDE DEF map, most
  <2> QED
    BY <1>1, <1>2, ArrangedIs
<1> HIDE DEF map, most, s
<1>6. /\ s.dom \in Seq(1 .. most) /\ IsInjective(s.dom) /\ ToSet(dom) \subseteq ToSet(s.dom)
      /\ ToSet(s.dom) \subseteq ToSet(dom) \cup {map[id] : id \in new}
  BY <1>2, <1>5, WalkTypes
<1>7. /\ ids \in Seq(Ids) /\ most \in Nat /\ made \in Nat /\ made <= most
      /\ map \in [DOMAIN idmap \cup new -> 1 .. most] /\ IsInjective(map)
      /\ DOMAIN map = DOMAIN idmap \cup new
      /\ \A id \in DOMAIN idmap : map[id] = idmap[id]
      /\ dom \in Seq(1 .. made) /\ IsInjective(dom) /\ curOrder \in Seq(Ids)
      /\ closing \cup stale \subseteq ToSet(dom) /\ closing \cap stale = {}
      /\ Live \cap (closing \cup stale) = {}
  BY <1>1, <1>2 DEF Placed, Filling
<1>8. dom \in Seq(1 .. most)
  <2>1. 1 .. made \subseteq 1 .. most
    BY <1>7
  <2> QED
    BY <1>7, <2>1, SeqMonotonic
<1>9. ASSUME NEW n, idmap' = kept(n), broken' = TRUE, UNCHANGED <<curOrder, closing, stale>>,
             dom' = dom \/ dom' = s.dom
      PROVE  RowInv' /\ StayingRows
  <2> DEFINE D == DOMAIN map \ {ids[i] : i \in 1 .. n}
  <2>1. D \in SUBSET DOMAIN map /\ idmap' = Restrict(map, D)
    BY <1>9
  <2> HIDE DEF D
  <2>2. Kept(idmap', D, map, most)
    BY <1>1, <1>2, <2>1, RestrictKeeps
  <2>3. dom' \in Seq(1 .. most) /\ IsInjective(dom') /\ ToSet(dom) \subseteq ToSet(dom')
    BY <1>6, <1>7, <1>8, <1>9
  <2>4. closing' = closing /\ stale' = stale /\ curOrder' = curOrder /\ made' = most
    BY <1>3, <1>9
  <2>5. Placed'
    BY <1>7, <2>2, <2>3, <2>4 DEF Placed, Kept, Live
  <2> QED
    BY <1>3, <1>9, <2>5 DEF RowInv, StayingRows
<1>10. CASE /\ twice = {} /\ ~s.failed /\ idmap' = Restrict(map, new) /\ curOrder' = ids
            /\ touched' = s.touched /\ Drop(els, s.dom) /\ UNCHANGED broken
  <2>1. Kept(idmap', new, map, most)
    <3>1. new \in SUBSET DOMAIN map /\ idmap' = Restrict(map, new)
      BY <1>7, <1>10
    <3> HIDE DEF new
    <3> QED
      BY <1>1, <1>2, <3>1, RestrictKeeps
  <2>2. els \subseteq Live
    <3>1. \A id \in DOMAIN map \ new : id \in DOMAIN idmap /\ map[id] = idmap[id]
      BY <1>7
    <3> HIDE DEF new
    <3> QED
      BY <3>1 DEF Live, Range
  <2>3. Live' = {map[id] : id \in new}
    <3>1. DOMAIN idmap' = new /\ \A id \in new : idmap'[id] = map[id]
      BY <2>1 DEF Kept
    <3> HIDE DEF new
    <3> QED
      BY <3>1 DEF Live, Range
  <2>4. els \cap Live' = {}
    <3>1. \A i, j \in DOMAIN map : map[i] = map[j] => i = j
      BY <1>7 DEF IsInjective
    <3>2. new \subseteq DOMAIN map
      BY <1>7
    <3> HIDE DEF new
    <3> QED
      BY <2>3, <3>1, <3>2
  <2>5. Dropped(els, s.dom, most)
    <3>1. /\ closing \cup stale \subseteq ToSet(s.dom) /\ closing \cap stale = {}
          /\ els \cap (closing \cup stale) = {} /\ Drop(els, s.dom)
      BY <1>6, <1>7, <1>10, <2>2
    <3> HIDE DEF els
    <3> QED
      BY <1>6, <3>1, DropKeeps
  <2>6. Placed'
    <3>1. /\ most \in Nat /\ dom' \in Seq(1 .. most) /\ IsInjective(dom')
          /\ closing' \cup stale' \subseteq ToSet(dom') /\ closing' \cap stale' = {}
          /\ closing' \cup stale' \subseteq closing \cup stale \cup els
      BY <1>7, <2>5 DEF Dropped
    <3>2. /\ idmap' \in [DOMAIN idmap' -> 1 .. most] /\ IsInjective(idmap')
          /\ DOMAIN idmap' \subseteq Ids /\ Live' \cap (closing \cup stale) = {}
      BY <2>1 DEF Kept, Live
    <3>3. Live' \cap (closing' \cup stale') = {}
      BY <2>4, <3>1, <3>2
    <3>4. made' = most /\ curOrder' = ids /\ ids \in Seq(Ids)
      BY <1>3, <1>7, <1>10
    <3> HIDE DEF els
    <3> QED
      BY <3>1, <3>2, <3>3, <3>4 DEF Placed
  <2>7. ASSUME ~broken
        PROVE  Ordered' /\ (touched' # {} => Crossed(ids))
    <3>1. Orderly(s, ids, map) /\ s.new = Len(ids) + 1 /\ IsInjective(ids) /\ Ordered
      BY <1>1, <1>4, <1>5, <1>10, <2>7
    <3>2. Len(ids) \in Nat /\ DOMAIN ids = 1 .. Len(ids) /\ s.new - 1 = Len(ids)
      BY <1>7, <3>1
    <3>3. InPlace(s, ids, map) /\ (s.touched # {} => Crossed(ids))
      BY <3>1 DEF Orderly
    <3>4. /\ \A k \in 1 .. Len(ids) : map[ids[k]] \in ToSet(s.dom)
          /\ \A j, k \in 1 .. Len(ids) : j < k => Precedes(s.dom, map[ids[j]], map[ids[k]])
      BY <3>2, <3>3 DEF InPlace
    <3>5. \A id \in new : \E k \in 1 .. Len(ids) : ids[k] = id
      BY <3>2 DEF ToSet
    <3>6. \A k \in 1 .. Len(ids) : ids[k] \in new
      BY <3>2 DEF ToSet
    <3> HIDE DEF new, els
    <3>7. \A k \in 1 .. Len(ids) : map[ids[k]] \in Live' /\ map[ids[k]] \notin els
      BY <2>3, <2>4, <3>6
    <3>8. Live' \subseteq ToSet(s.dom) /\ Live' \subseteq ToSet(dom')
      <4>1. Live' \subseteq ToSet(s.dom)
        BY <2>3, <3>4, <3>5
      <4> QED
        BY <2>4, <2>5, <4>1 DEF Dropped
    <3>9. ToSet(dom') \subseteq Live' \cup closing' \cup stale'
      <4>1. ToSet(dom) \subseteq Live \cup closing \cup stale
        BY <3>1 DEF Ordered
      <4>2. \A x \in Live : x \in els \/ x \in Live'
        <5>1. \A id \in DOMAIN idmap : map[id] = idmap[id] /\ id \in DOMAIN map
          BY <1>7
        <5> QED
          BY <2>3, <5>1 DEF Live, Range, els
      <4> QED
        BY <1>6, <2>3, <2>5, <4>1, <4>2 DEF Dropped
    <3>10. \A i, j \in DOMAIN ids : i < j => Precedes(dom', idmap'[ids[i]], idmap'[ids[j]])
      <4>1. \A k \in 1 .. Len(ids) : idmap'[ids[k]] = map[ids[k]]
        BY <2>1, <3>6 DEF Kept
      <4> QED
        BY <2>5, <3>2, <3>4, <3>7, <4>1 DEF Dropped
    <3>11. DOMAIN idmap' = new /\ curOrder' = ids /\ touched' = s.touched
      BY <1>10, <2>1 DEF Kept
    <3>12. Ordered'
      BY <3>1, <3>8, <3>9, <3>10, <3>11 DEF Ordered, new
    <3> QED
      BY <3>3, <3>11, <3>12
  <2>8. broken' = broken /\ curOrder' = ids
    BY <1>10
  <2>9. \A id \in DOMAIN idmap \cap DOMAIN idmap' : idmap'[id] = idmap[id]
    BY <1>7, <2>1 DEF Kept
  <2> QED
    BY <1>3, <2>6, <2>7, <2>8, <2>9 DEF RowInv, StayingRows
<1> QED
  BY <1>3, <1>9, <1>10

LEMMA ConnectKeeps ==
  ASSUME RowInv, Connect
  PROVE  RowInv' /\ StayingRows
<1>1. /\ UNCHANGED <<dom, idmap, curOrder, closing, made, sets, stale, broken>> /\ touched' = {}
  BY DEF Connect
<1> QED
  BY <1>1 DEF RowInv, Placed, Ordered, Live, StayingRows

LEMMA LeaveKeeps ==
  ASSUME RowInv, NEW el \in closing, Leave(el)
  PROVE  RowInv' /\ StayingRows
<1>1. /\ Placed /\ sets \in 0 .. MaxSets /\ (~broken => Ordered)
      /\ dom \in Seq(1 .. made) /\ IsInjective(dom) /\ Live \cap (closing \cup stale) = {}
      /\ closing \cup stale \subseteq ToSet(dom) /\ closing \cap stale = {}
  BY DEF RowInv, Placed
<1>2. /\ UNCHANGED <<idmap, curOrder, made, sets, broken>> /\ touched' = {} /\ Live' = Live
      /\ closing' = closing \ {el}
  BY DEF Leave, Live
<1>3. /\ dom' \in Seq(1 .. made) /\ IsInjective(dom') /\ closing' \cap stale' = {}
      /\ closing' \cup stale' \subseteq ToSet(dom') /\ closing' \cup stale' \subseteq closing \cup stale
      /\ ToSet(dom) \ {el} \subseteq ToSet(dom')
      /\ ToSet(dom') \subseteq (ToSet(dom) \ {el}) \cup closing' \cup stale'
      /\ closing \cup stale \subseteq closing' \cup stale' \cup {el}
      /\ \A x, y : x # el /\ y # el /\ Precedes(dom, x, y) => Precedes(dom', x, y)
  <2>1. CASE connected
    <3>1. dom' = Without(dom, el) /\ stale' = stale
      BY <2>1 DEF Leave
    <3>2. /\ dom' \in Seq(1 .. made) /\ ToSet(dom') = ToSet(dom) \ {el} /\ IsInjective(dom')
          /\ \A x, y : Precedes(dom', x, y) <=> x # el /\ y # el /\ Precedes(dom, x, y)
      BY <1>1, <3>1, WithoutProperties
    <3> QED
      BY <1>1, <1>2, <3>1, <3>2
  <2>2. CASE ~connected
    <3>1. dom' = dom /\ stale' = stale \cup {el}
      BY <2>2 DEF Leave
    <3> QED
      BY <1>1, <1>2, <3>1
  <2> QED
    BY <2>1, <2>2
<1>4. el \notin Live
  BY <1>1
<1>5. Placed'
  BY <1>1, <1>2, <1>3 DEF Placed
<1>6. ASSUME Ordered PROVE Ordered'
  <2>1. /\ IsInjective(curOrder) /\ ToSet(curOrder) = DOMAIN idmap /\ Live \subseteq ToSet(dom)
        /\ ToSet(dom) \subseteq Live \cup closing \cup stale
        /\ \A i, j \in DOMAIN curOrder :
             i < j => Precedes(dom, idmap[curOrder[i]], idmap[curOrder[j]])
    BY <1>6 DEF Ordered
  <2>2. Live' \subseteq ToSet(dom') /\ ToSet(dom') \subseteq Live' \cup closing' \cup stale'
    BY <1>2, <1>3, <1>4, <2>1
  <2>3. \A i \in DOMAIN curOrder : idmap[curOrder[i]] # el
    <3>1. \A i \in DOMAIN curOrder : curOrder[i] \in DOMAIN idmap
      BY <2>1 DEF ToSet
    <3> QED
      BY <1>4, <3>1 DEF Live, Range
  <2>4. \A i, j \in DOMAIN curOrder' :
          i < j => Precedes(dom', idmap'[curOrder'[i]], idmap'[curOrder'[j]])
    BY <1>2, <1>3, <2>1, <2>3
  <2>5. IsInjective(curOrder') /\ ToSet(curOrder') = DOMAIN idmap'
    BY <1>2, <2>1
  <2> QED
    BY <2>2, <2>4, <2>5 DEF Ordered
<1> QED
  BY <1>1, <1>2, <1>5, <1>6 DEF RowInv, StayingRows

LEMMA RowStep ==
  RowInv /\ [RowNext]_rowVars => RowInv' /\ (StayingRows \/ UNCHANGED rowVars)
<1>1. ASSUME RowInv, UNCHANGED rowVars PROVE RowInv'
  BY <1>1 DEF rowVars, RowInv, Placed, Ordered, Live
<1>2. ASSUME RowInv, RowNext PROVE RowInv' /\ StayingRows
  <2>1. ReadRows \subseteq Seq(Ids)
    BY <1>2, ReadRowsType DEF RowInv
  <2> QED
    BY <1>2, <2>1, RowIdsType, SetRowsKeeps, ConnectKeeps, LeaveKeeps DEF RowNext
<1> QED
  BY <1>1, <1>2

LEMMA RowAlways == RowSpec => []RowInv
<1>1. RowInv /\ [RowNext]_rowVars => RowInv'
  BY RowStep
<1> QED
  BY <1>1, RowInitInv, PTL DEF RowSpec

LEMMA RowInvType == RowInv => RowTypeOK
<1> SUFFICES ASSUME RowInv PROVE RowTypeOK
  OBVIOUS
<1>1. Placed /\ sets \in 0 .. MaxSets
  BY DEF RowInv
<1>2. dom \in Seq(1 .. made) /\ ToSet(dom) \subseteq 1 .. made /\ Live \subseteq 1 .. made
  BY <1>1, InSequence DEF Placed, Live, Range
<1> QED
  BY <1>1, <1>2 DEF Placed, RowTypeOK

\* GroupManager: among the elements of the document the rows of the last list stand in
\* its order, each once, whatever was inserted, moved, dropped or is still closing.
THEOREM RowsStayInOrder == RowSpec => []RowsInOrder
<1>1. RowInv => RowsInOrder
  <2> SUFFICES ASSUME Placed, Ordered PROVE RowsInOrder
    BY DEF RowInv, RowsInOrder
  <2> DEFINE r == [i \in DOMAIN curOrder |-> idmap[curOrder[i]]]
             w == Within(dom, Live)
  <2>1. /\ dom \in Seq(1 .. made) /\ IsInjective(dom) /\ idmap \in [DOMAIN idmap -> 1 .. made]
        /\ IsInjective(idmap) /\ curOrder \in Seq(Ids)
        /\ IsInjective(curOrder) /\ ToSet(curOrder) = DOMAIN idmap
        /\ Live \subseteq ToSet(dom) /\ ToSet(dom) \subseteq Live \cup closing \cup stale
        /\ \A i, j \in DOMAIN curOrder :
             i < j => Precedes(dom, idmap[curOrder[i]], idmap[curOrder[j]])
    BY DEF Placed, Ordered
  <2>2. /\ w \in Seq(1 .. made) /\ ToSet(w) = Live /\ IsInjective(w)
        /\ \A x, y : Precedes(w, x, y) <=> x \in Live /\ y \in Live /\ Precedes(dom, x, y)
    <3>1. /\ w \in Seq(1 .. made) /\ ToSet(w) = ToSet(dom) \cap Live
          /\ IsInjective(dom) => IsInjective(w)
          /\ \A x, y : Precedes(w, x, y) <=> x \in Live /\ y \in Live /\ Precedes(dom, x, y)
      BY <2>1, WithinProperties
    <3> HIDE DEF w
    <3> QED
      BY <2>1, <3>1
  <2>3. DOMAIN curOrder = 1 .. Len(curOrder) /\ Len(curOrder) \in Nat
    BY <2>1
  <2>4. \A i \in DOMAIN curOrder : curOrder[i] \in DOMAIN idmap
    BY <2>1 DEF ToSet
  <2>5. \A id \in DOMAIN idmap : \E i \in DOMAIN curOrder : curOrder[i] = id
    BY <2>1 DEF ToSet
  <2>6. \A i \in DOMAIN curOrder : idmap[curOrder[i]] \in Live /\ idmap[curOrder[i]] \in 1 .. made
    BY <2>1, <2>4 DEF Live, Range
  <2>7. r \in Seq(1 .. made) /\ DOMAIN r = DOMAIN curOrder
    BY <2>3, <2>6
  <2>8. IsInjective(r)
    BY <2>1, <2>4 DEF IsInjective
  <2>9. ToSet(r) = Live
    <3>1. ToSet(r) \subseteq Live
      BY <2>6 DEF ToSet
    <3>2. Live \subseteq ToSet(r)
      BY <2>5 DEF ToSet, Live, Range
    <3> QED
      BY <3>1, <3>2
  <2>10. ASSUME NEW x, NEW y, Precedes(r, x, y) PROVE Precedes(w, x, y)
    <3>1. PICK i \in DOMAIN curOrder, j \in DOMAIN curOrder :
            i < j /\ idmap[curOrder[i]] = x /\ idmap[curOrder[j]] = y
      BY <2>10 DEF Precedes
    <3> QED
      BY <2>1, <2>2, <2>6, <3>1
  <2> HIDE DEF r, w
  <2>11. r = w
    BY <2>2, <2>7, <2>8, <2>9, <2>10, SameOrder
  <2> QED
    BY <2>1, <2>11 DEF RowsInOrder, r, w
<1> QED
  BY <1>1, RowAlways, PTL

\* GroupManager: a row that stays in the list keeps its element; if the rows that stay
\* keep their order among each other, none is taken out and put back.
THEOREM RowsAreKept == RowSpec => RowsKept
<1> DEFINE stay(o) == Within(o, ToSet(curOrder) \cap ToSet(curOrder'))
           Keeps == ~broken' =>
             /\ \A id \in DOMAIN idmap \cap DOMAIN idmap' : idmap'[id] = idmap[id]
             /\ stay(curOrder) = stay(curOrder') => touched' = {}
<1>1. ASSUME RowInv, RowInv', StayingRows PROVE Keeps
  <2> SUFFICES ASSUME ~broken', stay(curOrder) = stay(curOrder'), touched' # {} PROVE FALSE
    BY <1>1 DEF StayingRows
  <2>1. curOrder \in Seq(Ids) /\ curOrder' \in Seq(Ids) /\ IsInjective(curOrder')
    BY <1>1 DEF RowInv, Placed, Ordered
  <2>2. PICK x, y : Precedes(curOrder, x, y) /\ Precedes(curOrder', y, x)
    BY <1>1 DEF StayingRows, Crossed
  <2> DEFINE A == ToSet(curOrder) \cap ToSet(curOrder')
             w == Within(curOrder, A)
             u == Within(curOrder', A)
  <2>3. x \in A /\ y \in A
    BY <2>2 DEF Precedes, ToSet
  <2> HIDE DEF A
  <2>4. Precedes(w, x, y)
    BY <2>1, <2>2, <2>3, WithinProperties
  <2>5. Precedes(u, y, x) /\ u \in Seq(Ids) /\ IsInjective(u)
    BY <2>1, <2>2, <2>3, WithinProperties
  <2>6. w = u
    BY DEF A
  <2> HIDE DEF w, u
  <2> QED
    BY <2>4, <2>5, <2>6, LinearIn
<1>2. RowInv /\ RowInv' /\ [RowNext]_rowVars => [Keeps]_rowVars
  BY <1>1, RowStep
<1>3. [][Keeps]_rowVars => RowsKept
  BY DEF RowsKept
<1> QED
  BY <1>2, <1>3, RowAlways, PTL DEF RowSpec

\* GroupManager: the two orders do not run against each other, so a list that follows
\* lists without an id that comes twice is refused for such an id only.
THEOREM OnlyTwiceRefuses ==
  RowSpec => [][~broken /\ broken' =>
                  \E rows \in Lists : SetRows(RowIds(rows)) /\ ~IsInjective(RowIds(rows))]_rowVars
<1>1. ASSUME RowInv, ~broken, broken', NEW ids \in Seq(Ids), SetRows(ids)
      PROVE  ~IsInjective(ids)
  <2> DEFINE map == Filled(ids)
             most == Max(Range(map) \cup {made})
             s == Arranged(ids, map)
             twice == {i \in DOMAIN ids : \E j \in 1 .. i - 1 : ids[j] = ids[i]}
  <2>1. Placed /\ Ordered /\ ids \in Seq(Ids)
    BY <1>1 DEF RowInv
  <2>2. Filling(ids, map, most)
    BY <2>1, FilledIs
  <2>3. IsInjective(ids) => ~s.failed
    <3> HIDE DEF map, most
    <3> QED
      BY <2>1, <2>2, ArrangedIs DEF Orderly
  <2>4. twice # {} \/ s.failed
    <3> HIDE DEF map, s
    <3> QED
      BY <1>1 DEF SetRows, map, s
  <2>5. IsInjective(ids) => twice = {}
    <3>1. DOMAIN ids = 1 .. Len(ids) /\ Len(ids) \in Nat
      BY <2>1
    <3>2. \A i \in 1 .. Len(ids) : \A j \in 1 .. i - 1 : j \in 1 .. Len(ids) /\ j # i
      BY <3>1
    <3> QED
      BY <3>1, <3>2 DEF IsInjective
  <2> QED
    BY <2>3, <2>4, <2>5
<1>2. ASSUME RowInv, RowNext, ~broken, broken'
      PROVE  \E rows \in Lists : SetRows(RowIds(rows)) /\ ~IsInjective(RowIds(rows))
  <2>1. \/ \E rows \in Lists : SetRows(RowIds(rows))
        \/ \E ids \in ReadRows : SetRows(ids)
    BY <1>2 DEF RowNext, Connect, Leave
  <2>2. ReadRows \subseteq Seq(Ids) /\ \A ids \in ReadRows : IsInjective(ids)
    BY <1>2, ReadRowsType DEF RowInv
  <2> QED
    BY <1>1, <1>2, <2>1, <2>2, RowIdsType
<1> QED
  BY <1>2, RowAlways, PTL DEF RowSpec

-----------------------------------------------------------------------------
(* The form *)

\* A behaviour of the form is one of each of its parts.
THEOREM FormIsItsParts == FormSpec => RowSpec /\ FieldSpec /\ Spec /\ FocusSpec
<1>1. FormInit => RowInit /\ FieldInit /\ Init /\ FocusInit
  BY DEF FormInit
<1>2. [FormNext]_<<rowVars, fieldVars, vars, focusVars, part>>
        => [RowNext]_rowVars /\ [FieldNext]_fieldVars /\ [Next]_vars /\ [FocusNext]_focusVars
  BY DEF FormNext
<1> QED
  BY <1>1, <1>2, PTL DEF FormSpec, RowSpec, FieldSpec, Spec, FocusSpec

\* MCForm: the states of the rows, of the field, of X-SELECT and of the focus keep their form.
THEOREM FormTypeCorrect == FormSpec => []FormTypeOK
<1>1. RowInv /\ FieldInv /\ SelectInv /\ FocusInv => FormTypeOK
  BY RowInvType DEF FieldInv, SelectInv, FocusInv, FormTypeOK
<1> QED
  BY <1>1, FormIsItsParts, RowAlways, FieldAlways, SelectAlways, FocusAlways, PTL

\* MCForm: in a view whose elements have one tab index Tab never leads out for good,
\* and it leads round all of them, for any content, page and speed of the user.
THEOREM TabAlwaysCycles == FormSpec => []TabCycles
<1>1. FocusInv => TabCycles
  BY RoundInv DEF FocusInv, TabCycles
<1> QED
  BY <1>1, FormIsItsParts, FocusAlways, PTL
=============================================================================
