----------------------------- MODULE PageViews -----------------------------
(***************************************************************************)
(* Views on a page: opened, opened with a light box behind them, closed,   *)
(* replaced by one another.  Adding and removing an element are animated   *)
(* by classes of its style, so that they take two frames and the time of   *)
(* an animation, in which the page goes on calling.  Who waits for an      *)
(* element to appear or to disappear is told by RenderWatch.               *)
(*                                                                         *)
(* A step is a call of the page, a frame or the end of an animation, with  *)
(* the callbacks of promises that follow from it at once; only a replace   *)
(* that waited for another one (lock_replace) has a step of its own, which *)
(* comes before anything else.                                             *)
(***************************************************************************)
EXTENDS Integers, Sieve

CONSTANTS
    Views,
    Opening, Closing,   \* views with data-open-anim, with data-close-anim
    Style,              \* what their style gives them: "none", "animation", "transition"
    Present,            \* the views that the page shows at first, in its order
    MaxCalls,           \* bound: calls of the page
    MaxWaits, Timeouts

ASSUME PageAssumption ==
    /\ Opening \subseteq Views /\ Closing \subseteq Views
    /\ Present \in Seq(Views) /\ IsInjective(Present)
    /\ Style \in [Views -> {"none", "animation", "transition"}]
    /\ MaxCalls \in Nat /\ MaxWaits \in Nat /\ Timeouts \in Nat \ {0}

VARIABLES
    body,       \* what the page shows, in its order
    cls,        \* the classes of the root of each view
    modal,      \* modal_elem: the light box of each view, 0 for none
    promises,   \* what close and replace have returned
    lock,       \* lock_replace of each view: a promise, 0 for none
    frames,     \* callbacks that wait for two frames, in their order
    boxes,      \* light boxes made so far
    calls,
    lost,       \* observation: light boxes whose view took over another one
    waits, observed, asked

tree == <<body, cls, modal, boxes, lost>>
tasks == <<promises, lock, frames>>
watch == <<waits, observed, asked>>
vars == <<tree, tasks, calls, watch>>

Root(v) == <<"view", v>>
Mark(p) == <<"mark", p>>
Box(n) == <<"box", n>>
Shown(b) == {v \in Views : Contains(b, Root(v))}

Watch == INSTANCE RenderWatch WITH shown <- Shown(body)

-----------------------------------------------------------------------------
(* The page as one value, which the parts of a step hand on *)

Page == [body |-> body, cls |-> cls, modal |-> modal, boxes |-> boxes, lost |-> lost,
         promises |-> promises, lock |-> lock, frames |-> frames]

Become(s) ==
    \E t \in {s} :   \* evaluated once
        /\ body' = t.body /\ cls' = t.cls /\ modal' = t.modal /\ boxes' = t.boxes
        /\ lost' = t.lost /\ promises' = t.promises /\ lock' = t.lock /\ frames' = t.frames

\* The observer of the document is called when elements were added or removed,
\* or put where they had been (touched).
Observe(touched) ==
    IF touched \/ body' # body THEN Watch!Callback ELSE UNCHANGED watch

Position(b, x) == CHOOSE i \in DOMAIN b : b[i] = x

\* insertBefore, which moves an element that is in the tree already; next: the
\* element after that of a view, <<>> at the end.
Before(b, x, ref) ==
    IF x = ref THEN b
    ELSE IF ref = <<>> THEN Append(Without(b, x), x)
    ELSE InsertAt(Without(b, x), Position(Without(b, x), ref), x)
Following(b, v) == IF Last(b) = Root(v) THEN <<>> ELSE b[Position(b, Root(v)) + 1]

\* Mutant: only the class of opening goes.
RestyledOpen(s, v) == [s EXCEPT !.cls[v] = @ \ {"open"}]

\* addElement up to insertBefore: the classes of both animations go ...
Restyled(s, v) ==
    [s EXCEPT !.cls[v] = @ \ ({"open"} \cup IF v \in Closing THEN {"close"} ELSE {})]

\* Mutant: a copy of the element is put in.
AddedCopy(s, v, ref) ==
    [Restyled(s, v) EXCEPT
        !.body = IF ref = <<>> THEN Append(@, Root(v))
                 ELSE InsertAt(@, Position(@, ref), Root(v)),
        !.frames = IF v \in Opening THEN Append(@, [do |-> "open", of |-> v]) ELSE @]

\* ... the element is put in, and its class "open" comes two frames later.
Added(s, v, ref) ==
    [Restyled(s, v) EXCEPT
        !.body = Before(@, Root(v), ref),
        !.frames = IF v \in Opening THEN Append(@, [do |-> "open", of |-> v]) ELSE @]

-----------------------------------------------------------------------------
(* Closing *)

\* removeElement plays an animation if there is one and the opening one is over.
Animates(s, v) ==
    /\ Contains(s.body, Root(v)) /\ v \in Closing
    /\ v \in Opening => "open" \in s.cls[v]

\* Mutants: a view that is closed leaves its light box; one that is put in place
\* keeps the lock; or the mark stays.
AfterRemovalDark(s, p) ==
    LET r == s.promises[p]
    IN  IF r.skip \/ ~Contains(s.body, Mark(p)) THEN [s EXCEPT !.promises[p].st = "done"]
        ELSE [Added(s, r.w, Mark(p)) EXCEPT
                 !.body = Without(@, Mark(p)), !.lock[r.w] = 0, !.promises[p].st = "done"]
AfterRemovalLocked(s, p) ==
    LET r == s.promises[p]
        t == [s EXCEPT !.body = Without(@, Box(s.modal[r.v])), !.promises[p].st = "done"]
    IN  IF r.skip \/ ~Contains(t.body, Mark(p)) THEN t
        ELSE [Added(t, r.w, Mark(p)) EXCEPT !.body = Without(@, Mark(p))]
AfterRemovalMarked(s, p) ==
    LET r == s.promises[p]
        t == [s EXCEPT !.body = Without(@, Box(s.modal[r.v])), !.promises[p].st = "done"]
    IN  IF r.skip \/ ~Contains(t.body, Mark(p)) THEN t
        ELSE [Added(t, r.w, Mark(p)) EXCEPT !.lock[r.w] = 0]

\* What follows the removal of the view of promise p: its light box goes; a view
\* that replaces it takes the place of the mark, or nothing if the mark is gone.
AfterRemoval(s, p) ==
    LET r == s.promises[p]
        t == [s EXCEPT !.body = Without(@, Box(s.modal[r.v]))]
    IN  IF r.skip THEN [t EXCEPT !.promises[p].st = "done"]
        ELSE IF Contains(t.body, Mark(p))
        THEN [Added(t, r.w, Mark(p)) EXCEPT
                 !.body = Without(@, Mark(p)), !.lock[r.w] = 0, !.promises[p].st = "done"]
        ELSE [Restyled(t, r.w) EXCEPT !.promises[p].st = "failed"]

Removed(s, p) ==
    AfterRemoval([s EXCEPT !.body = Without(@, Root(s.promises[p].v))], p)

\* View.close on behalf of promise p.
Closed(s, p) ==
    IF Animates(s, s.promises[p].v)
    THEN [s EXCEPT !.promises[p].st = "frame", !.frames = Append(@, [do |-> "close", of |-> p])]
    ELSE Removed(s, p)

\* A promise for the removal of v and, unless it is to skip that, w in its place.
Promised(s, v, w, skip) ==
    [s EXCEPT !.promises = Append(@,
        [st |-> "call", v |-> v, w |-> w, after |-> 0, skip |-> skip])]

-----------------------------------------------------------------------------
(* Replacing *)

\* The light box behind v goes over to w, which forgets its own.
HandedOver(s, v, w) ==
    [s EXCEPT !.modal = [@ EXCEPT ![w] = s.modal[v], ![v] = 0],
              !.lost = @ \cup ({s.modal[w]} \ {0})]

\* replace without a lock, on behalf of promise p.  Without a place in the page it
\* throws.  skip: the new view does not wait for the animation of the old one.
Replaced(s, p) ==
    LET r == s.promises[p]
        t == HandedOver(s, r.v, r.w)
        next == Following(s.body, r.v)
        marked == [t EXCEPT !.body = Before(@, Mark(p), next), !.lock[r.w] = p]
    IN  IF ~Contains(s.body, Root(r.v))
        THEN [(IF r.skip THEN Restyled(t, r.w) ELSE t) EXCEPT !.promises[p].st = "failed"]
        ELSE IF r.skip
        THEN LET n == Len(s.promises) + 1
             IN  [Added(Closed(Promised(t, r.v, r.v, TRUE), n), r.w, next)
                      EXCEPT !.promises[p].st = "done"]
        ELSE Closed(marked, p)

\* replace of v by w, on behalf of promise p: behind the lock of v if it has one.
ReplacedOrChained(s, p, v, w) ==
    LET t == [s EXCEPT !.promises[p].v = v]
    IN  IF s.lock[v] = 0 THEN Replaced(t, p)
        ELSE [t EXCEPT !.promises[p].st = "chain", !.promises[p].after = s.lock[v],
                       !.lock = [@ EXCEPT ![v] = p, ![w] = p]]

-----------------------------------------------------------------------------
(* Calls of the page *)

Pending == {p \in DOMAIN promises : promises[p].st \in {"frame", "anim", "chain"}}
Failed == {p \in DOMAIN promises : promises[p].st = "failed"}
Settling == {p \in Pending : promises[p].st = "chain"
                          /\ promises[promises[p].after].st \in {"done", "failed"}}

Called == Settling = {} /\ calls < MaxCalls /\ calls' = calls + 1

Open(v) ==
    /\ Called
    /\ Become(Added(Page, v, <<>>)) /\ Observe(TRUE)

\* Nothing happens to a view that has a light box, wherever it is.
OpenModal(v) ==
    /\ Called /\ modal[v] = 0
    /\ LET n == boxes + 1
       IN  Become(Added([Page EXCEPT !.boxes = n, !.modal[v] = n,
                                     !.body = Append(@, Box(n))], v, <<>>))
    /\ Observe(TRUE)

Close(v) ==
    /\ Called
    /\ Become(Closed(Promised(Page, v, v, TRUE), Len(promises) + 1))
    /\ Observe(FALSE)

Replace(v, w, skip) ==
    /\ Called /\ v # w
    /\ Become(ReplacedOrChained(Promised(Page, v, w, skip),
                                Len(promises) + 1, v, w))
    /\ Observe(v \in Shown(body))

\* View.clearContent of what holds the views.
ClearContent ==
    /\ Called /\ body # <<>>
    /\ Become([Page EXCEPT !.body = <<>>]) /\ Observe(FALSE)

WaitFor(v, st) ==
    /\ Settling = {}
    /\ Watch!WaitFor(v, st)
    /\ UNCHANGED <<tree, tasks, calls>>

-----------------------------------------------------------------------------
(* Frames, animations and promises *)

\* What Animation reads from the style.  An element taken from the page meanwhile has
\* none, which is taken for an animation, whose restart fails.
AnimationType(v) == IF v \in Shown(body) THEN Style[v] ELSE "animation"
Restarts(v) == AnimationType(v) = "animation"
RestartFails(v) == Restarts(v) /\ v \notin Shown(body)

\* The second frame of waitForDOMUpdate.
Frame ==
    /\ Settling = {} /\ frames # <<>>
    /\ LET f == Head(frames)
           s == [Page EXCEPT !.frames = Tail(@)]
           v == promises[f.of].v
           t == [s EXCEPT !.cls[v] = (@ \ (IF v \in Opening THEN {"open"} ELSE {})) \cup {"close"}]
       IN  \/ /\ f.do = "open"
              /\ Become([s EXCEPT !.cls[f.of] = @ \cup {"open"}])
              /\ UNCHANGED watch
           \/ /\ f.do = "close" /\ RestartFails(v)
              /\ Become([t EXCEPT !.promises[f.of].st = "failed"])
              /\ UNCHANGED watch
           \/ /\ f.do = "close" /\ ~RestartFails(v)
              /\ Become(IF AnimationType(v) = "none" THEN Removed(t, f.of)
                        ELSE [t EXCEPT !.promises[f.of].st = "anim"])
              /\ Observe(Restarts(v))
    /\ UNCHANGED calls

Finish(p) ==
    /\ Settling = {} /\ p \in Pending /\ promises[p].st = "anim"
    /\ Become(Removed(Page, p)) /\ Observe(FALSE)
    /\ UNCHANGED calls

\* The event of the end of an animation, which only an element in the page gets; and
\* the time it lasts.
Once(p) == promises[p].v \in Shown(body) /\ Finish(p)
Delay(p) == Finish(p)

\* Mutant: nothing but the event ends it.
AnimationEvent(p) == Once(p)

\* The animation ends, or its time is over, whichever comes first.
AnimationEnd(p) == Once(p) \/ Delay(p)

\* A replace behind a lock: of the view the other one has put there.
Chained(p) ==
    /\ p \in Settling
    /\ LET r == promises[p]
           before == promises[r.after]
       IN  IF before.st = "failed"
           THEN Become([Page EXCEPT !.promises[p].st = "failed"])
           ELSE Become(ReplacedOrChained([Page EXCEPT !.lock[r.w] = 0], p, before.w, r.w))
    /\ Observe(FALSE)
    /\ UNCHANGED calls

-----------------------------------------------------------------------------
Init ==
    /\ body = [i \in DOMAIN Present |-> Root(Present[i])] /\ boxes = 0 /\ lost = {}
    /\ cls = [v \in Views |-> IF v \in Opening THEN {"open"} ELSE {}]
    /\ modal = [v \in Views |-> 0]
    /\ promises = <<>> /\ lock = [v \in Views |-> 0] /\ frames = <<>>
    /\ calls = 0
    /\ waits = <<>> /\ observed = FALSE /\ asked = 0

Next ==
    \/ \E v \in Views : Open(v) \/ OpenModal(v) \/ Close(v)
    \/ \E v, w \in Views, skip \in BOOLEAN : Replace(v, w, skip)
    \/ ClearContent
    \/ \E v \in Views, st \in BOOLEAN : WaitFor(v, st)
    \/ Frame
    \/ \E p \in DOMAIN promises : AnimationEnd(p) \/ Chained(p)

Spec == Init /\ [][Next]_vars

\* The browser draws frames, ends animations and runs callbacks.
FairSpec ==
    /\ Spec
    /\ WF_vars(Frame)
    /\ WF_vars(\E p \in DOMAIN promises : AnimationEnd(p) \/ Chained(p))

-----------------------------------------------------------------------------
(* Properties *)

Quiet == Pending = {} /\ frames = <<>>

\* The state is of the expected form.
TypeOK ==
    /\ \A i \in DOMAIN body : \/ body[i] \in {Root(v) : v \in Views}
                              \/ body[i] \in {Mark(p) : p \in DOMAIN promises}
                              \/ body[i] \in {Box(n) : n \in 1 .. boxes}
    /\ IsInjective(body)
    /\ cls \in [Views -> SUBSET {"open", "close"}]
    /\ modal \in [Views -> 0 .. boxes] /\ lock \in [Views -> 0 .. Len(promises)]
    /\ calls \in 0 .. MaxCalls /\ observed \in BOOLEAN

\* Between the steps of the page nobody waits for an element to appear that is
\* there, or to go that has gone: the observer is there whenever somebody waits,
\* and nothing changes the document behind its back (waitForRender_callback).
NoMissedRender == \A i \in DOMAIN waits : ~Watch!IsTrue(waits[i], Shown(body))

\* lock_replace is released by whoever ends the replacement it stands for, also
\* when others were chained behind it: a lock that is left belongs to a
\* replacement that is under way, or that failed.
LockedByPending == \A v \in Views : lock[v] # 0 => lock[v] \in Pending \cup Failed

\* At rest a light box covers the page only behind a view that is shown, through
\* every close and every replacement that hands it over; exempt is a box whose
\* view took over that of another one (lost), and a page where a promise failed.
LightBoxHasView ==
    Quiet /\ Failed = {} =>
        \A n \in 1 .. boxes : Contains(body, Box(n)) =>
            n \in lost \/ \E v \in Shown(body) : modal[v] = n

\* At rest a view that is shown bears the class of its opening animation and not
\* that of its closing one, however opening and closing overlapped (addElement,
\* removeElement).
StyleAgrees ==
    Quiet /\ Failed = {} =>
        \A v \in Shown(body) : cls[v] = IF v \in Opening THEN {"open"} ELSE {}

\* While nothing fails and nothing clears the page, no mark of a replacement is
\* left in it at rest.
MarksGo == Quiet /\ Failed = {} => \A p \in DOMAIN promises : ~Contains(body, Mark(p))

\* Overlapping calls leave nothing behind that belongs to a call before: no lock,
\* light box, class or mark.
RestsInOrder == LockedByPending /\ LightBoxHasView /\ StyleAgrees /\ MarksGo

\* The page comes to rest: every close and replace settles, however they overlap.
ComesToRest == []<>Quiet
=============================================================================
