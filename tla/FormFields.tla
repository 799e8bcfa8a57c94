---------------------------- MODULE FormFields ----------------------------
(***************************************************************************)
(* A view as a form: its content, which the page replaces and puts back,   *)
(* the map of its named elements, and a field the page fills with setData, *)
(* the user edits and readData reads.  A value may be a promise, which is  *)
(* fulfilled later, when other content may be shown.                       *)
(*                                                                         *)
(* Fields of a form do not touch one another, so each content holds one    *)
(* field, of a kind that any behaviour chooses for itself.  What a field   *)
(* holds is a set: of the boxes that are checked, the option selected, the *)
(* text that is not empty.                                                 *)
(***************************************************************************)
EXTENDS Integers, SequencesExt, FiniteSetsExt

CONSTANTS
    Contents, NoContent,
    Named,           \* values of boxes and buttons, options, texts, dates, rows
    On,              \* "on", the value of a checkbox without one
    MaxSteps         \* bound: steps of the page and edits of the user

ASSUME FieldAssumption ==
    /\ NoContent \notin Contents /\ MaxSteps \in Nat
    /\ On \notin Named /\ Named # {}     \* a list of options shows one of them

VARIABLES
    kind,            \* of the field in each content
    held, offered,   \* of the field in each content: its value, its options
    content,         \* what the view shows
    byName,          \* the map of the view has the field
    groups,          \* contents whose list of rows is known to the view
    extracted,       \* contents whose template of a row has been taken out
    built,           \* contents whose custom element has been built
    awaited,         \* promises given as values
    saved,           \* what readData returned
    marked, marks,   \* the list of marked elements; elements that bear the class
    action,          \* the content defaultAction was set for
    steps

elements == <<kind, held, offered, extracted, built>>
view == <<content, byName, groups, action>>
others == <<awaited, saved, marked, marks>>
fieldVars == <<elements, view, others, steps>>

FieldKinds == {"flag", "boxes", "radio", "select", "text", "date", "rows", "xcheck"}
Ticked == {"flag", "boxes", "radio"}

Nothing == {}
NoValue == [type |-> "none", v |-> {}]
Null == [type |-> "null", v |-> {}]
Bool(b) == [type |-> "bool", v |-> IF b THEN {On} ELSE {}]
Str(s) == [type |-> "string", v |-> s]
List(s) == [type |-> "list", v |-> s]
Date(s) == [type |-> "date", v |-> s]
\* Options, one of which is flagged as selected (of several, the last one counts).
Flagged(s, o) == [type |-> "flagged", v |-> s, sel |-> {o}]

\* What a field of a kind may hold, as far as the user is concerned.
Holds(k, opts) ==
    CASE k \in {"flag", "xcheck"} -> {{}, {On}}
      [] k \in {"boxes", "rows"} -> SUBSET Named
      [] k \in {"radio", "text", "date"} -> {{}} \cup {{c} : c \in Named}
      [] k = "select" -> {{}} \cup {{c} : c \in opts}

\* Values the page gives to a field of a kind.
FlaggedLists == UNION {{Flagged(s, o) : o \in s} : s \in SUBSET Named}
PlainValues(k) ==
    {Null} \cup
    CASE k \in {"flag", "xcheck"} -> {Bool(b) : b \in BOOLEAN}
      [] k \in {"boxes", "select", "rows"} -> {List(s) : s \in SUBSET Named} \cup {Str({c}) : c \in Named}
      [] k \in {"radio", "text"} -> {Str({c}) : c \in Named}
      [] k = "date" -> {Date({c}) : c \in Named}

Values(k) == PlainValues(k) \cup (IF k = "select" THEN FlaggedLists ELSE {})

-----------------------------------------------------------------------------
(* Writing and reading an element *)

\* Mutant: a list only adds to what is checked.
InputAdds(k, cur, val) ==
    IF k \in Ticked /\ val.type = "list" THEN cur \cup val.v
    ELSE IF k \in {"text", "date"} \/ val.type \in {"bool", "string"} THEN val.v ELSE cur

\* updateInputElement for all elements of the name: a value of another type, null
\* in particular, leaves boxes, buttons and dates as they are.
Input(k, cur, val) ==
    IF k = "text" THEN val.v
    ELSE IF k \in Ticked /\ val.type \in {"bool", "string", "list"} THEN val.v
    ELSE IF k = "date" /\ val.type = "date" THEN val.v ELSE cur

\* updateSelectElement: an object brings the options, and null is one, without any;
\* the value is kept if it is among them and none of them is flagged.
Options(k, opts, val) ==
    IF k = "select" /\ val.type \in {"list", "flagged", "null"} THEN val.v ELSE opts
Selected(cur, opts, val) ==
    opts \cap (CASE val.type = "string" -> val.v
                 [] val.type = "flagged" -> val.sel
                 [] OTHER -> cur)

\* X-CHECKBOX: whatever is not falsy checks it.
XCheck(val) == IF val.v = {} THEN {} ELSE {On}

\* The setters of the elements.
Written(k, cur, opts, val) ==
    CASE k = "select" -> Selected(cur, opts, val)
      [] k = "rows" -> IF val.type = "list" THEN val.v ELSE {}
      [] k = "xcheck" -> XCheck(val)
      [] OTHER -> Input(k, cur, val)

\* readInputElement and the other readers.  No checked button, nothing read.  Of a
\* list only which rows there are: RowGroup has the order in which they are read.
Read(k, v) ==
    CASE k = "radio" -> IF v = {} THEN NoValue ELSE Str(v)
      [] k \in {"flag", "xcheck"} -> Bool(v # {})
      [] k \in {"boxes", "rows"} -> List(v)
      [] k \in {"text", "select"} -> Str(v)
      [] k = "date" -> IF v = {} THEN Null ELSE Date(v)

\* Render a value into the field of content c.
Render(c, val) ==
    /\ offered' = [offered EXCEPT ![c] = Options(kind[c], @, val)]
    /\ held' = [held EXCEPT ![c] = Written(kind[c], @, offered'[c], val)]
    /\ built' = built \cup {c}
    /\ UNCHANGED <<kind, extracted>>

-----------------------------------------------------------------------------
(* Calls of the page, edits of the user *)

Called == steps < MaxSteps /\ steps' = steps + 1

SetData(val) ==
    /\ Called /\ byName
    /\ Render(content, val)
    /\ UNCHANGED <<view, others>>

\* The elements are looked up now, and written when the promise is fulfilled.
SetPromise(val) ==
    /\ Called /\ byName
    /\ awaited' = awaited \cup {[id |-> steps, at |-> content, val |-> val]}
    /\ UNCHANGED <<elements, view, saved, marked, marks>>

\* Mutant: they are looked up when it is fulfilled.
FulfilByName(p) ==
    /\ p \in awaited /\ awaited' = awaited \ {p}
    /\ IF byName THEN Render(content, p.val) ELSE UNCHANGED elements
    /\ UNCHANGED <<view, saved, marked, marks, steps>>

Fulfil(p) ==
    /\ p \in awaited /\ awaited' = awaited \ {p}
    /\ Render(p.at, p.val)
    /\ UNCHANGED <<view, saved, marked, marks, steps>>

\* A custom checkbox cannot be clicked before it was set.
Edit(v) ==
    /\ Called /\ content # NoContent
    /\ kind[content] # "rows"
    /\ kind[content] = "xcheck" => content \in built
    /\ kind[content] \in {"radio", "select"} => v # {}
    /\ v \in Holds(kind[content], offered[content]) /\ v # held[content]
    /\ held' = [held EXCEPT ![content] = v]
    /\ UNCHANGED <<kind, offered, extracted, built, view, others>>

ReadData ==
    /\ Called /\ byName
    /\ saved' = [at |-> content, val |-> Read(kind[content], held[content])]
    /\ UNCHANGED <<elements, view, awaited, marked, marks>>

\* What was read is set again; what was not read is not.
Restore ==
    /\ Called /\ byName /\ saved.at = content
    /\ IF saved.val = NoValue THEN UNCHANGED elements ELSE Render(content, saved.val)
    /\ UNCHANGED <<view, others>>

\* Mutant: the marks of the old content are forgotten.
SetContentUnmarks(c) ==
    /\ Called
    /\ content' = c /\ byName' = (kind[c] = "rows" => c \notin extracted)
    /\ groups' = {c} \ extracted /\ extracted' = extracted \cup {c}
    /\ action' = NoContent /\ marked' = {}
    /\ UNCHANGED <<kind, held, offered, built, awaited, saved, marks>>

\* rebuildMap: the lists the view knows and finds in it.  A list is found by the
\* template of its rows, which is in the content only the first time.
RebuiltGroups(c) == (groups \cap {c}) \cup ({c} \ extracted)

\* setContent.
SetContent(c) ==
    /\ Called
    /\ content' = c
    /\ groups' = RebuiltGroups(c) /\ extracted' = extracted \cup {c}
    /\ byName' = (kind[c] = "rows" => c \in groups')
    /\ action' = NoContent
    /\ UNCHANGED <<kind, held, offered, built, others>>

\* clearContent, which leaves the actions and the lists it knows.
ClearContent ==
    /\ Called /\ content # NoContent
    /\ content' = NoContent /\ byName' = FALSE
    /\ UNCHANGED <<elements, groups, action, others>>

Mark ==
    /\ Called /\ byName
    /\ marked' = marked \cup {content} /\ marks' = marks \cup {content}
    /\ UNCHANGED <<elements, view, awaited, saved>>

Unmark ==
    /\ Called
    /\ marks' = marks \ marked /\ marked' = {}
    /\ UNCHANGED <<elements, view, awaited, saved>>

SetDefaultAction ==
    /\ Called
    /\ action' = content
    /\ UNCHANGED <<elements, content, byName, groups, others>>

-----------------------------------------------------------------------------
FieldInit ==
    /\ \E k \in FieldKinds : kind = [c \in Contents |-> k]
    /\ offered = [c \in Contents |-> Named]
    /\ held = [c \in Contents |->
                    IF kind[c] = "select" THEN {CHOOSE n \in Named : TRUE} ELSE {}]
    /\ content = NoContent /\ byName = FALSE
    /\ groups = {} /\ extracted = {} /\ built = {}
    /\ awaited = {} /\ saved = [at |-> NoContent, val |-> NoValue]
    /\ marked = {} /\ marks = {} /\ action = NoContent
    /\ steps = 0

FieldNext ==
    \/ byName /\ \E val \in Values(kind[content]) : SetData(val) \/ SetPromise(val)
    \/ \E p \in awaited : Fulfil(p)
    \/ content # NoContent /\ \E v \in Holds(kind[content], offered[content]) : Edit(v)
    \/ \E c \in Contents : SetContent(c)
    \/ ReadData \/ Restore \/ ClearContent \/ Mark \/ Unmark
    \/ SetDefaultAction

FieldSpec == FieldInit /\ [][FieldNext]_fieldVars

-----------------------------------------------------------------------------
(* Properties *)

\* The state is of the expected form; unmark can take every mark there is, also from
\* content that is put back.
FieldTypeOK ==
    /\ kind \in [Contents -> FieldKinds] /\ offered \in [Contents -> SUBSET Named]
    /\ \A c \in Contents : held[c] \in Holds(kind[c], offered[c])
    /\ content \in Contents \cup {NoContent} /\ byName \in BOOLEAN
    /\ groups \subseteq extracted /\ extracted \subseteq Contents /\ built \subseteq Contents
    /\ marks \subseteq marked /\ marked \subseteq Contents
    /\ action \in Contents \cup {NoContent}

\* A field the form had read shows that value again when it is set to it, whatever
\* was edited and set in between.  Exempt is what setData cannot express: that no
\* button is checked, that there is no date, an option that has gone.
Restores ==
    [][Restore =>
          \/ Read(kind[content], held'[content]) = saved.val
          \/ saved.val \in {NoValue, Null}
          \/ kind[content] = "select" /\ ~(saved.val.v \subseteq offered[content])]_fieldVars

AnswerStays ==
    \A p \in awaited \ awaited' : \A c \in Contents \ {p.at} : held'[c] = held[c]

\* A late answer never shows in content it was not asked for.
AnswersStay == [][AnswerStays]_fieldVars
=============================================================================
