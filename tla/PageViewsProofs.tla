-------------------------- MODULE PageViewsProofs --------------------------
(***************************************************************************)
(* What holds of the views of a page, for any views, styles and numbers of *)
(* calls, however the calls overlap.  The inductive invariant, Sound, is   *)
(* about the page as one value.  In the midst of a step some promises are  *)
(* on their way from one state to the next: Apart leaves out what only     *)
(* they are responsible for.                                               *)
(***************************************************************************)
EXTENDS PageViews, FoldTheorems, TLAPS

Elements == {Root(v) : v \in Views} \cup {Mark(p) : p \in Nat} \cup {Box(n) : n \in Nat}
States == {"call", "frame", "anim", "chain", "done", "failed"}
Promises == [st : States, v : Views, w : Views, after : Nat, skip : BOOLEAN]
Frames == [do : {"open"}, of : Opening] \cup [do : {"close"}, of : Nat]
Pages == [body : Seq(Elements), cls : [Views -> SUBSET {"open", "close"}],
          modal : [Views -> Nat], boxes : Nat, lost : SUBSET Nat,
          promises : Seq(Promises), lock : [Views -> Nat], frames : Seq(Frames)]

In(s, e) == e \in ToSet(s.body)
HasFailed(P) == \E p \in DOMAIN P : P[p].st = "failed"

-----------------------------------------------------------------------------
(* Locks *)

\* A promise that will release the lock of the view it puts in place, or that failed.
Active(r) == r.st \in {"chain", "failed"} \/ (r.st \in {"frame", "anim"} /\ ~r.skip)
Blocks(P, u, q) == q \in DOMAIN P /\ P[q].w = u /\ Active(P[q])

\* Promises that wait, one for another, for one that will release the lock of u.
Behind(P, u, C) ==
    \A c \in C : \/ P[c].st = "failed"
                 \/ P[c].st = "chain" /\ (P[c].after \in C \/ Blocks(P, u, P[c].after))
Held(P, u, q) ==
    Blocks(P, u, q) \/ \E C \in SUBSET DOMAIN P : q \in C /\ Behind(P, u, C)

-----------------------------------------------------------------------------
(* The invariant; X, Y: the promises a step is about *)

Formed(s) ==
    /\ s \in Pages /\ IsInjective(s.body)
    /\ \A n \in Nat : In(s, Box(n)) => n \in 1 .. s.boxes
    /\ \A v \in Views : s.modal[v] <= s.boxes
    /\ \A v \in Views : /\ "open" \in s.cls[v] => v \in Opening
                        /\ "close" \in s.cls[v] => v \in Closing
    /\ \A p \in DOMAIN s.promises :
          /\ s.promises[p].st \in {"frame", "anim"} =>
                /\ s.promises[p].v \in Closing
                /\ s.promises[p].skip => s.promises[p].w = s.promises[p].v
          /\ s.promises[p].st = "chain" => s.promises[p].after \in DOMAIN s.promises

\* A frame that will remove a view is one that its removal waits for.
Awaited(s, X) ==
    /\ \A i \in DOMAIN s.frames : s.frames[i].do = "close" =>
          /\ s.frames[i].of \in DOMAIN s.promises \ X
          /\ s.promises[s.frames[i].of].st = "frame"
    /\ \A i, j \in DOMAIN s.frames :
          (/\ s.frames[i].do = "close" /\ s.frames[j].do = "close"
           /\ s.frames[i].of = s.frames[j].of) => i = j

Locked(s, X) ==
    \A u \in Views : s.lock[u] \notin X \cup {0} => Held(s.promises, u, s.lock[u])

\* A mark is that of a replacement under way, or of one that failed.
Marked(s, X) ==
    \A p \in Nat \ X : In(s, Mark(p)) =>
        /\ p \in DOMAIN s.promises
        /\ \/ s.promises[p].st = "failed"
           \/ s.promises[p].st \in {"frame", "anim"} /\ ~s.promises[p].skip

\* A view that a replacement will put in place.
Comes(s, X, p) == p \in X \/ (s.promises[p].st \in {"frame", "anim"} /\ ~s.promises[p].skip)
Coming(s, X, v) == \E p \in DOMAIN s.promises : Comes(s, X, p) /\ s.promises[p].w = v

\* A view that an animation, or this step, will remove.
Goes(s, Y, p) == p \in Y \/ s.promises[p].st = "anim"
Going(s, Y, v) == \E p \in DOMAIN s.promises : Goes(s, Y, p) /\ s.promises[p].v = v

\* A light box has a view, or lost it to another box.
Owned(s, X, n) ==
    n \in s.lost \/ \E v \in Views : s.modal[v] = n /\ (In(s, Root(v)) \/ Coming(s, X, v))
Boxed(s, X) ==
    HasFailed(s.promises) \/ \A n \in 1 .. s.boxes : In(s, Box(n)) => Owned(s, X, n)

Opens(s, v) == \E i \in DOMAIN s.frames : s.frames[i].do = "open" /\ s.frames[i].of = v
Neat(s, v) ==
    "close" \notin s.cls[v] /\ (v \in Opening => "open" \in s.cls[v] \/ Opens(s, v))
Styled(s, Y) ==
    HasFailed(s.promises) \/ \A v \in Views : In(s, Root(v)) => Neat(s, v) \/ Going(s, Y, v)

Based(s, X) == Formed(s) /\ Awaited(s, X) /\ Locked(s, X) /\ Marked(s, X)
Apart(s, X, Y) == Based(s, X) /\ Boxed(s, X) /\ Styled(s, Y)
Sound(s) == Apart(s, {}, {})

\* The observer is there whenever somebody waits.
Watched ==
    /\ waits \in Seq([el : Views, st : BOOLEAN, left : Int]) /\ observed \in BOOLEAN
    /\ waits # <<>> => observed
    /\ NoMissedRender

PageInv == Sound(Page) /\ Watched /\ calls \in 0 .. MaxCalls

-----------------------------------------------------------------------------
(* The parts of a page *)

LEMMA Distinct ==
  /\ \A v, u \in Views : Root(v) = Root(u) => v = u
  /\ \A p, q \in Nat : Mark(p) = Mark(q) => p = q
  /\ \A p, q \in Nat : Box(p) = Box(q) => p = q
  /\ \A v \in Views, p, q \in Nat : Root(v) # Mark(p) /\ Root(v) # Box(p) /\ Mark(p) # Box(q)
  /\ <<>> \notin Elements
  BY DEF Root, Mark, Box, Elements

LEMMA BeforeIs ==
  ASSUME NEW b \in Seq(Elements), IsInjective(b), NEW x \in Elements,
         NEW ref \in ToSet(b) \cup {<<>>}
  PROVE  /\ Before(b, x, ref) \in Seq(Elements) /\ IsInjective(Before(b, x, ref))
         /\ ToSet(Before(b, x, ref)) = ToSet(b) \cup {x}
<1> DEFINE c == Without(b, x)
<1>1. x # <<>>
  BY Distinct
<1>2. c \in Seq(Elements) /\ IsInjective(c) /\ ToSet(c) = ToSet(b) \ {x}
  BY WithoutProperties
<1> HIDE DEF c
<1>3. CASE x = ref
  BY <1>1, <1>3 DEF Before
<1>4. CASE x # ref /\ ref = <<>>
  <2>1. Before(b, x, ref) = Append(c, x)
    BY <1>4 DEF Before, c
  <2>2. x \notin ToSet(c)
    BY <1>2
  <2> QED
    BY <1>2, <2>1, <2>2, PutLast
<1>5. CASE x # ref /\ ref # <<>>
  <2>1. Before(b, x, ref) = InsertAt(c, CHOOSE i \in DOMAIN c : c[i] = ref, x)
    BY <1>5 DEF Before, c, Position
  <2>2. x \notin ToSet(c) /\ ref \in ToSet(c)
    BY <1>2, <1>5
  <2> QED
    BY <1>2, <2>1, <2>2, PutBefore
<1> QED
  BY <1>3, <1>4, <1>5

\* The classes and the frames of a page where a view is put in.
Cleared(s, v) ==
     [s.cls EXCEPT ![v] = @ \ ({"open"} \cup IF v \in Closing THEN {"close"} ELSE {})]
Opened(s, v) ==
    IF v \in Opening THEN Append(s.frames, [do |-> "open", of |-> v]) ELSE s.frames

LEMMA RestyledIs ==
  ASSUME NEW s \in Pages, NEW v \in Views
  PROVE  LET t == Restyled(s, v)
         IN  /\ t \in Pages /\ t.cls = Cleared(s, v)
             /\ t.body = s.body /\ t.modal = s.modal /\ t.boxes = s.boxes /\ t.lost = s.lost
             /\ t.promises = s.promises /\ t.lock = s.lock /\ t.frames = s.frames
  BY DEF Restyled, Pages, Cleared

LEMMA AddedIs ==
  ASSUME NEW s \in Pages, NEW v \in Views, NEW ref, Before(s.body, Root(v), ref) \in Seq(Elements)
  PROVE  LET t == Added(s, v, ref)
         IN  /\ t \in Pages /\ t.cls = Cleared(s, v)
             /\ t.body = Before(s.body, Root(v), ref) /\ t.frames = Opened(s, v)
             /\ t.modal = s.modal /\ t.boxes = s.boxes /\ t.lost = s.lost
             /\ t.promises = s.promises /\ t.lock = s.lock
<1> DEFINE r == Restyled(s, v)
           b == Before(s.body, Root(v), ref)
           t == Added(s, v, ref)
<1>1. /\ r \in Pages /\ r.cls = Cleared(s, v)
      /\ r.body = s.body /\ r.modal = s.modal /\ r.boxes = s.boxes /\ r.lost = s.lost
      /\ r.promises = s.promises /\ r.lock = s.lock /\ r.frames = s.frames
  BY RestyledIs
<1>2. t = [r EXCEPT !.body = b, !.frames = Opened(s, v)]
  <2>1. t = [r EXCEPT !.body = Before(@, Root(v), ref),
                  !.frames = IF v \in Opening THEN Append(@, [do |-> "open", of |-> v]) ELSE @]
    BY DEF Added
  <2> HIDE DEF r, t
  <2> QED
    BY <1>1, <2>1 DEF Opened
<1> HIDE DEF r, t, b
<1>3. s.frames \in Seq(Frames) /\ (v \in Opening => [do |-> "open", of |-> v] \in Frames)
  BY DEF Frames, Pages
<1>4. Opened(s, v) \in Seq(Frames)
  BY <1>3 DEF Opened
<1>5. b \in Seq(Elements)
  BY DEF b
<1>6. /\ t \in Pages /\ t.cls = r.cls
             /\ t.body = b /\ t.frames = Opened(s, v)
             /\ t.modal = r.modal /\ t.boxes = r.boxes /\ t.lost = r.lost
             /\ t.promises = r.promises /\ t.lock = r.lock
  BY <1>1, <1>2, <1>4, <1>5 DEF Pages
<1> QED
  BY <1>1, <1>6 DEF t, b

LEMMA FieldTypes ==
  ASSUME NEW s \in Pages
  PROVE  /\ s.body \in Seq(Elements) /\ s.cls \in [Views -> SUBSET {"open", "close"}]
         /\ s.modal \in [Views -> Nat] /\ s.boxes \in Nat /\ s.lost \in SUBSET Nat
         /\ s.promises \in Seq(Promises) /\ s.lock \in [Views -> Nat] /\ s.frames \in Seq(Frames)
  BY DEF Pages

LEMMA PromiseTypes ==
  ASSUME NEW P \in Seq(Promises), NEW p \in DOMAIN P
  PROVE  /\ p \in Nat /\ p # 0 /\ P[p] \in Promises /\ P[p].st \in States
         /\ P[p].v \in Views /\ P[p].w \in Views /\ P[p].after \in Nat /\ P[p].skip \in BOOLEAN
<1>1. P[p] \in Promises /\ p \in Nat /\ p # 0
  OBVIOUS
<1> QED
  BY <1>1 DEF Promises

\* The states of one promise change.
LEMMA SettingState ==
  ASSUME NEW P \in Seq(Promises), NEW x \in DOMAIN P, NEW st \in States
  PROVE  LET Q == [P EXCEPT ![x].st = st]
         IN  /\ Q \in Seq(Promises) /\ DOMAIN Q = DOMAIN P /\ Len(Q) = Len(P)
             /\ \A p \in DOMAIN P \ {x} : Q[p] = P[p]
             /\ Q[x].st = st /\ Q[x].v = P[x].v /\ Q[x].w = P[x].w
             /\ Q[x].after = P[x].after /\ Q[x].skip = P[x].skip
<1> DEFINE Q == [P EXCEPT ![x].st = st]
           r == [P[x] EXCEPT !.st = st]
<1>0. P[x] \in Promises
  BY PromiseTypes
<1>1. /\ r \in Promises /\ r.st = st /\ r.v = P[x].v /\ r.w = P[x].w
      /\ r.after = P[x].after /\ r.skip = P[x].skip
  BY <1>0 DEF Promises
<1>2. Q = [P EXCEPT ![x] = r]
  OBVIOUS
<1> HIDE DEF Q, r
<1> QED
  BY <1>1, <1>2 DEF Q

-----------------------------------------------------------------------------
(* What holds a lock *)

LEMMA HeldBySomeone ==
  ASSUME NEW P, NEW u, NEW q, Held(P, u, q)
  PROVE  q \in DOMAIN P /\ (Active(P[q]) \/ P[q].st \in {"failed", "chain"})
  BY DEF Held, Blocks, Behind

\* A promise that is neither done nor in a chain any more changes.
LEMMA HeldOn ==
  ASSUME NEW P, NEW Q, DOMAIN P \subseteq DOMAIN Q, NEW x,
         \A p \in DOMAIN P \ {x} : Q[p] = P[p],
         x \in DOMAIN P => /\ P[x].st # "failed"
                           /\ P[x].st = "chain" => /\ P[x].after \in DOMAIN P
                                                   /\ P[P[x].after].st = "done",
         NEW u, Blocks(P, u, x) => Blocks(Q, u, x),
         NEW q, q # x, Held(P, u, q)
  PROVE  Held(Q, u, q)
<1>1. CASE Blocks(P, u, q)
  BY <1>1 DEF Held, Blocks
<1>2. CASE \E C \in SUBSET DOMAIN P : q \in C /\ Behind(P, u, C)
  <2>1. PICK C \in SUBSET DOMAIN P : q \in C /\ Behind(P, u, C)
    BY <1>2
  <2>2. x \notin C
    <3> SUFFICES ASSUME x \in C PROVE FALSE
      OBVIOUS
    <3>1. P[x].st = "chain" /\ (P[x].after \in C \/ Blocks(P, u, P[x].after))
      BY <2>1 DEF Behind
    <3>2. P[P[x].after].st = "done"
      BY <3>1
    <3> QED
      BY <2>1, <3>1, <3>2 DEF Behind, Blocks, Active
  <2>3. \A c \in C : Q[c] = P[c]
    BY <2>2
  <2>4. \A p : Blocks(P, u, p) => Blocks(Q, u, p)
    BY DEF Blocks
  <2>5. Behind(Q, u, C)
    BY <2>1, <2>3, <2>4 DEF Behind
  <2> QED
    BY <2>1, <2>5 DEF Held
<1> QED
  BY <1>1, <1>2 DEF Held

\* A promise that fails holds whatever it held, and every lock that is its own.
LEMMA HeldByFailed ==
  ASSUME NEW P, NEW Q, DOMAIN Q = DOMAIN P, NEW x \in DOMAIN P,
         \A p \in DOMAIN P \ {x} : Q[p] = P[p],
         Q[x].st = "failed", Q[x].w = P[x].w,
         NEW u, NEW q, q = x \/ Held(P, u, q)
  PROVE  Held(Q, u, q)
<1>1. \A p : Blocks(P, u, p) => Blocks(Q, u, p)
  BY DEF Blocks, Active
<1>2. CASE q = x
  <2>1. {x} \in SUBSET DOMAIN Q /\ Behind(Q, u, {x})
    BY DEF Behind
  <2> QED
    BY <1>2, <2>1 DEF Held
<1>3. CASE Blocks(P, u, q)
  BY <1>1, <1>3 DEF Held
<1>4. CASE \E C \in SUBSET DOMAIN P : q \in C /\ Behind(P, u, C)
  <2>1. PICK C \in SUBSET DOMAIN P : q \in C /\ Behind(P, u, C)
    BY <1>4
  <2>2. Behind(Q, u, C)
    BY <1>1, <2>1 DEF Behind
  <2> QED
    BY <2>1, <2>2 DEF Held
<1> QED
  BY <1>2, <1>3, <1>4 DEF Held

-----------------------------------------------------------------------------
(* The parts of the invariant *)

\* What stands in the page becomes less, but for views, and locks are released.
LEMMA BasedOn ==
  ASSUME NEW s, NEW X, Based(s, X), NEW t \in Pages, IsInjective(t.body),
         \A e \in ToSet(t.body) : e \in ToSet(s.body) \/ \E v \in Views : e = Root(v),
         t.boxes = s.boxes, \A v \in Views : t.modal[v] <= t.boxes,
         \A v \in Views : t.cls[v] \subseteq s.cls[v],
         t.promises = s.promises, \A v \in Views : t.lock[v] \in {0, s.lock[v]},
         \/ t.frames = s.frames
         \/ \E v \in Views : t.frames = Append(s.frames, [do |-> "open", of |-> v])
  PROVE  Based(t, X)
<1>0. s \in Pages /\ Formed(s) /\ Awaited(s, X) /\ Locked(s, X) /\ Marked(s, X)
  BY DEF Based, Formed
<1>1. \A p \in Nat : In(t, Mark(p)) => In(s, Mark(p))
  BY Distinct DEF In
<1>2. \A n \in Nat : In(t, Box(n)) => In(s, Box(n))
  BY Distinct DEF In
<1>3. Formed(t)
  BY <1>0, <1>2 DEF Formed
<1>4. Marked(t, X)
  BY <1>0, <1>1 DEF Marked
<1>5. Locked(t, X)
  BY <1>0 DEF Locked
<1>6. Awaited(t, X)
  <2>1. CASE t.frames = s.frames
    BY <1>0, <2>1 DEF Awaited
  <2>2. CASE \E v \in Views : t.frames = Append(s.frames, [do |-> "open", of |-> v])
    <3>1. PICK v \in Views : t.frames = Append(s.frames, [do |-> "open", of |-> v])
      BY <2>2
    <3>2. s.frames \in Seq(Frames)
      BY <1>0, FieldTypes
    <3>3. \A i \in DOMAIN t.frames : t.frames[i].do = "close" =>
            i \in DOMAIN s.frames /\ t.frames[i] = s.frames[i]
      BY <3>1, <3>2
    <3> QED
      BY <1>0, <3>3 DEF Awaited
  <2> QED
    BY <2>1, <2>2
<1> QED
  BY <1>3, <1>4, <1>5, <1>6 DEF Based

LEMMA StyledOn ==
  ASSUME NEW s, NEW Y, Styled(s, Y), NEW t, t.promises = s.promises,
         \A v \in Views : Opens(s, v) => Opens(t, v),
         \A v \in Views : In(t, Root(v)) => Neat(t, v) \/ (In(s, Root(v)) /\ t.cls[v] = s.cls[v])
  PROVE  Styled(t, Y)
  BY DEF Styled, Neat, Going, Goes

LEMMA BoxedOn ==
  ASSUME NEW s, NEW X, Boxed(s, X), NEW t, t.promises = s.promises, t.boxes = s.boxes,
         s.lost \subseteq t.lost, t.modal = s.modal,
         \A n \in 1 .. s.boxes : In(t, Box(n)) => In(s, Box(n)),
         \A v \in Views : In(s, Root(v)) =>
            In(t, Root(v)) \/ Coming(t, X, v) \/ ~In(t, Box(s.modal[v]))
  PROVE  Boxed(t, X)
<1> SUFFICES ASSUME ~HasFailed(t.promises), NEW n \in 1 .. t.boxes, In(t, Box(n))
             PROVE  Owned(t, X, n)
  BY DEF Boxed
<1>1. Owned(s, X, n)
  BY DEF Boxed
<1>2. \A v : Coming(s, X, v) => Coming(t, X, v)
  BY DEF Coming, Comes
<1> QED
  BY <1>1, <1>2 DEF Owned

\* Promise x goes on from one state to another, with the locks it takes or gives up.
Moves(s, t, x) ==
    LET P == s.promises
        Q == t.promises
    IN  /\ t \in Pages /\ t.body = s.body /\ t.cls = s.cls /\ t.modal = s.modal
        /\ t.boxes = s.boxes
        /\ x \in DOMAIN P /\ DOMAIN Q = DOMAIN P /\ \A p \in DOMAIN P \ {x} : Q[p] = P[p]
        /\ \/ Q[x].st = "failed" /\ Q[x].w = P[x].w
           \/ P[x].st # "failed" /\ (P[x].st = "chain" => P[P[x].after].st = "done")
        /\ \A u \in Views : t.lock[u] # 0 =>
              \/ t.lock[u] = x /\ Held(Q, u, x)
              \/ /\ t.lock[u] # x /\ t.lock[u] = s.lock[u]
                 /\ Blocks(P, u, x) => Blocks(Q, u, x)
        /\ In(s, Mark(x)) => \/ Q[x].st = "failed"
                             \/ Q[x].st \in {"frame", "anim"} /\ ~Q[x].skip
        /\ Q[x].st \in {"frame", "anim"} => Q[x].v \in Closing /\ (Q[x].skip => Q[x].w = Q[x].v)
        /\ Q[x].st = "chain" => Q[x].after \in DOMAIN P
        /\ \/ t.frames = s.frames
           \/ Q[x].st = "frame" /\ t.frames = Append(s.frames, [do |-> "close", of |-> x])

LEMMA BasedMoved ==
  ASSUME NEW s, NEW X, Based(s, X), NEW t, NEW x \in X, Moves(s, t, x)
  PROVE  Based(t, X \ {x})
<1> DEFINE P == s.promises
           Q == t.promises
<1> USE DEF Moves
<1>0. /\ s \in Pages /\ Formed(s) /\ Awaited(s, X) /\ Locked(s, X) /\ Marked(s, X)
      /\ P \in Seq(Promises) /\ x \in Nat
  <2>1. s \in Pages /\ Formed(s) /\ Awaited(s, X) /\ Locked(s, X) /\ Marked(s, X)
    BY DEF Based, Formed
  <2> QED
    BY <2>1, FieldTypes, PromiseTypes
<1>1. Formed(t)
  <2>1. \A p \in DOMAIN Q :
          /\ Q[p].st \in {"frame", "anim"} =>
                /\ Q[p].v \in Closing
                /\ Q[p].skip => Q[p].w = Q[p].v
          /\ Q[p].st = "chain" => Q[p].after \in DOMAIN Q
    BY <1>0 DEF Formed
  <2>2. /\ t \in Pages /\ t.boxes = s.boxes /\ t.modal = s.modal /\ t.cls = s.cls
        /\ \A e : In(t, e) <=> In(s, e)
    BY DEF In
  <2>3. /\ IsInjective(t.body)
        /\ \A n \in Nat : In(t, Box(n)) => n \in 1 .. t.boxes
        /\ \A v \in Views : t.modal[v] <= t.boxes
        /\ \A v \in Views : /\ "open" \in t.cls[v] => v \in Opening
                            /\ "close" \in t.cls[v] => v \in Closing
    BY <1>0, <2>2 DEF Formed
  <2> HIDE DEF Moves
  <2> QED
    BY <2>1, <2>2, <2>3 DEF Formed
<1>2. Marked(t, X \ {x})
  <2> SUFFICES ASSUME NEW p \in Nat \ (X \ {x}), In(t, Mark(p))
               PROVE  /\ p \in DOMAIN Q
                      /\ \/ Q[p].st = "failed"
                         \/ Q[p].st \in {"frame", "anim"} /\ ~Q[p].skip
    BY DEF Marked
  <2>1. CASE p = x
    BY <2>1 DEF In
  <2>2. CASE p # x
    BY <1>0, <2>2 DEF Marked, In
  <2> QED
    BY <2>1, <2>2
<1>3. Locked(t, X \ {x})
  <2> SUFFICES ASSUME NEW u \in Views, t.lock[u] \notin (X \ {x}) \cup {0}
               PROVE  Held(Q, u, t.lock[u])
    BY DEF Locked
  <2>1. CASE t.lock[u] = x
    BY <2>1
  <2>2. CASE t.lock[u] # x
    <3>1. t.lock[u] = s.lock[u] /\ (Blocks(P, u, x) => Blocks(Q, u, x))
      BY <2>2
    <3>2. Held(P, u, t.lock[u])
      BY <1>0, <2>2, <3>1 DEF Locked
    <3>3. CASE Q[x].st = "failed" /\ Q[x].w = P[x].w
      BY <3>2, <3>3, HeldByFailed
    <3>4. CASE /\ P[x].st # "failed"
               /\ P[x].st = "chain" => P[P[x].after].st = "done"
      <4>1. P[x].st = "chain" => P[x].after \in DOMAIN P
        BY <1>0 DEF Formed
      <4>2. DOMAIN P \subseteq DOMAIN Q /\ \A p \in DOMAIN P \ {x} : Q[p] = P[p]
        OBVIOUS
      <4> HIDE DEF Moves
      <4> QED
        BY <2>2, <3>1, <3>2, <3>4, <4>1, <4>2, HeldOn
    <3> QED
      BY <3>3, <3>4
  <2> QED
    BY <2>1, <2>2
<1>4. Awaited(t, X \ {x})
  <2>0. /\ \A i \in DOMAIN s.frames : s.frames[i].do = "close" =>
             /\ s.frames[i].of \in DOMAIN P \ X /\ s.frames[i].of # x
             /\ Q[s.frames[i].of].st = "frame"
        /\ \A i, j \in DOMAIN s.frames :
             (/\ s.frames[i].do = "close" /\ s.frames[j].do = "close"
              /\ s.frames[i].of = s.frames[j].of) => i = j
    BY <1>0 DEF Awaited
  <2>1. CASE t.frames = s.frames
    BY <2>0, <2>1 DEF Awaited
  <2>2. CASE Q[x].st = "frame" /\ t.frames = Append(s.frames, [do |-> "close", of |-> x])
    <3>1. s.frames \in Seq(Frames)
      BY <1>0, FieldTypes
    <3>2. \A i \in DOMAIN t.frames :
            \/ i \in DOMAIN s.frames /\ t.frames[i] = s.frames[i]
            \/ i = Len(s.frames) + 1 /\ t.frames[i] = [do |-> "close", of |-> x]
      BY <2>2, <3>1
    <3>3. \A i \in DOMAIN t.frames : t.frames[i].do = "close" =>
            \/ i \in DOMAIN s.frames /\ t.frames[i] = s.frames[i] /\ t.frames[i].of # x
            \/ i = Len(s.frames) + 1 /\ t.frames[i].of = x
      BY <2>0, <3>2
    <3> QED
      BY <2>0, <2>2, <3>3 DEF Awaited
  <2> QED
    BY <2>1, <2>2
<1> QED
  BY <1>1, <1>2, <1>3, <1>4 DEF Based

-----------------------------------------------------------------------------
(* A view is put in the page *)

LEMMA RestyledApart ==
  ASSUME NEW s, NEW X, Based(s, X), NEW v \in Views
  PROVE  LET t == Restyled(s, v)
         IN  /\ Based(t, X) /\ t.body = s.body /\ t.promises = s.promises /\ t.lock = s.lock
<1> DEFINE t == Restyled(s, v)
<1>1. s \in Pages /\ Formed(s)
  BY DEF Based, Formed
<1>2. /\ t \in Pages /\ t.cls = Cleared(s, v)
      /\ t.body = s.body /\ t.modal = s.modal /\ t.boxes = s.boxes /\ t.lost = s.lost
      /\ t.promises = s.promises /\ t.lock = s.lock /\ t.frames = s.frames
  BY <1>1, RestyledIs
<1> HIDE DEF t
<1>3. \A u \in Views : t.cls[u] \subseteq s.cls[u]
  BY <1>1, <1>2, FieldTypes DEF Cleared
<1>4. IsInjective(t.body) /\ \A u \in Views : t.modal[u] <= t.boxes
  BY <1>1, <1>2 DEF Formed
<1>5. Based(t, X)
  BY <1>2, <1>3, <1>4, BasedOn
<1> QED
  BY <1>2, <1>5 DEF t

LEMMA AddedApart ==
  ASSUME NEW s, NEW X, Based(s, X), NEW v \in Views, NEW ref \in ToSet(s.body) \cup {<<>>}
  PROVE  LET t == Added(s, v, ref)
         IN  /\ Based(t, X) /\ (Boxed(s, X) => Boxed(t, X))
             /\ \A Y : Styled(s, Y) => Styled(t, Y)
             /\ (\A e : In(t, e) <=> In(s, e) \/ e = Root(v)) /\ Neat(t, v)
             /\ t.promises = s.promises /\ t.lock = s.lock
             /\ t.modal = s.modal /\ t.boxes = s.boxes /\ t.lost = s.lost
<1> DEFINE t == Added(s, v, ref)
<1>1. s \in Pages /\ Formed(s) /\ s.body \in Seq(Elements) /\ IsInjective(s.body)
  <2>1. s \in Pages /\ Formed(s)
    BY DEF Based, Formed
  <2> QED
    BY <2>1, FieldTypes DEF Formed
<1>2. Root(v) \in Elements
  BY DEF Elements
<1>3. /\ Before(s.body, Root(v), ref) \in Seq(Elements)
      /\ IsInjective(Before(s.body, Root(v), ref))
      /\ ToSet(Before(s.body, Root(v), ref)) = ToSet(s.body) \cup {Root(v)}
  BY <1>1, <1>2, BeforeIs
<1>4. /\ t \in Pages /\ t.cls = Cleared(s, v)
      /\ t.body = Before(s.body, Root(v), ref) /\ t.frames = Opened(s, v)
      /\ t.modal = s.modal /\ t.boxes = s.boxes /\ t.lost = s.lost
      /\ t.promises = s.promises /\ t.lock = s.lock
  BY <1>1, <1>3, AddedIs
<1> HIDE DEF t
<1>5. ToSet(t.body) = ToSet(s.body) \cup {Root(v)} /\ IsInjective(t.body)
  BY <1>3, <1>4
<1>6. /\ \A u \in Views : t.cls[u] \subseteq s.cls[u] /\ (u # v => t.cls[u] = s.cls[u])
      /\ "open" \notin t.cls[v] /\ "close" \notin t.cls[v]
  <2>1. s.cls \in [Views -> SUBSET {"open", "close"}] /\ ("close" \in s.cls[v] => v \in Closing)
    BY <1>1, FieldTypes DEF Formed
  <2> QED
    BY <1>4, <2>1 DEF Cleared
<1>7. \/ t.frames = s.frames
      \/ \E u \in Views : t.frames = Append(s.frames, [do |-> "open", of |-> u])
  BY <1>4 DEF Opened
<1>8. (\A u \in Views : Opens(s, u) => Opens(t, u)) /\ (v \in Opening => Opens(t, v))
  <2>1. s.frames \in Seq(Frames)
    BY <1>1, FieldTypes
  <2>2. CASE v \notin Opening
    BY <1>4, <2>2 DEF Opens, Opened
  <2>3. CASE v \in Opening
    <3>1. t.frames = Append(s.frames, [do |-> "open", of |-> v])
      BY <1>4, <2>3 DEF Opened
    <3>2. /\ \A i \in DOMAIN s.frames : i \in DOMAIN t.frames /\ t.frames[i] = s.frames[i]
          /\ Len(s.frames) + 1 \in DOMAIN t.frames
          /\ t.frames[Len(s.frames) + 1] = [do |-> "open", of |-> v]
      BY <2>1, <3>1
    <3> QED
      BY <3>2 DEF Opens
  <2> QED
    BY <2>2, <2>3
<1>9. Neat(t, v)
  BY <1>6, <1>8 DEF Neat
<1>10. Based(t, X)
  <2>1. \A u \in Views : t.modal[u] <= t.boxes
    BY <1>1, <1>4 DEF Formed
  <2>2. \A e \in ToSet(t.body) : e \in ToSet(s.body) \/ \E u \in Views : e = Root(u)
    BY <1>5
  <2>3. \A u \in Views : t.lock[u] \in {0, s.lock[u]}
    BY <1>4
  <2> QED
    BY <1>4, <1>5, <1>6, <1>7, <2>1, <2>2, <2>3, BasedOn
<1>11. Boxed(s, X) => Boxed(t, X)
  <2>1. \A n \in 1 .. s.boxes : In(t, Box(n)) => In(s, Box(n))
    <3>1. s.boxes \in Nat
      BY <1>1, FieldTypes
    <3> QED
      BY <1>5, <3>1, Distinct DEF In
  <2>2. \A u \in Views : In(s, Root(u)) => In(t, Root(u))
    BY <1>5 DEF In
  <2> QED
    BY <1>4, <2>1, <2>2, BoxedOn
<1>13. \A e : In(t, e) <=> In(s, e) \/ e = Root(v)
  BY <1>5 DEF In
<1>12. ASSUME NEW Y, Styled(s, Y) PROVE Styled(t, Y)
  <2>1. \A u \in Views : In(t, Root(u)) => Neat(t, u) \/ (In(s, Root(u)) /\ t.cls[u] = s.cls[u])
    BY <1>5, <1>6, <1>9, Distinct DEF In
  <2> QED
    BY <1>4, <1>8, <1>12, <2>1, StyledOn
<1> QED
  BY <1>4, <1>9, <1>10, <1>11, <1>12, <1>13 DEF t

-----------------------------------------------------------------------------
(* A view is removed *)

TakenAway(s, v) ==
    [s EXCEPT !.body = Without(Without(s.body, Root(v)), Box(s.modal[v]))]
Done(s, x) == [s EXCEPT !.promises[x].st = "done"]
PutInPlace(t, v, x) ==
    [Added(t, v, Mark(x)) EXCEPT
        !.body = Without(@, Mark(x)), !.lock[v] = 0, !.promises[x].st = "done"]
NotPut(t, v, x) == [Restyled(t, v) EXCEPT !.promises[x].st = "failed"]

LEMMA RemovedIs ==
  ASSUME NEW s \in Pages, IsInjective(s.body), NEW x \in DOMAIN s.promises
  PROVE  LET r == s.promises[x]
             t == TakenAway(s, r.v)
         IN  Removed(s, x) = IF r.skip THEN Done(t, x)
                             ELSE IF In(t, Mark(x)) THEN PutInPlace(t, r.w, x)
                             ELSE NotPut(t, r.w, x)
<1> DEFINE r == s.promises[x]
           a == [s EXCEPT !.body = Without(@, Root(r.v))]
           t == [a EXCEPT !.body = Without(@, Box(a.modal[a.promises[x].v]))]
<1>1. a.promises = s.promises /\ a.modal = s.modal
  BY DEF Pages
<1>2. t = TakenAway(s, r.v)
  BY <1>1 DEF TakenAway, Pages
<1>3. Contains(t.body, Mark(x)) <=> In(t, Mark(x))
  <2> DEFINE b == Without(s.body, Root(r.v))
             c == Without(b, Box(s.modal[r.v]))
  <2>1. s.body \in Seq(Elements)
    BY FieldTypes
  <2>2. b \in Seq(Elements) /\ IsInjective(b)
    BY <2>1, WithoutProperties
  <2> HIDE DEF b
  <2>3. c \in Seq(Elements)
    BY <2>2, WithoutProperties
  <2>4. t.body = c
    BY <1>2 DEF TakenAway, Pages, b
  <2> HIDE DEF t, c
  <2> QED
    BY <2>3, <2>4, InSequence DEF In
<1>4. Removed(s, x) = AfterRemoval(a, x)
  BY DEF Removed
<1> HIDE DEF a
<1>5. AfterRemoval(a, x) = IF r.skip THEN Done(t, x)
                           ELSE IF Contains(t.body, Mark(x)) THEN PutInPlace(t, r.w, x)
                           ELSE NotPut(t, r.w, x)
  BY <1>1 DEF AfterRemoval, Done, PutInPlace, NotPut
<1> QED
  BY <1>2, <1>3, <1>4, <1>5

LEMMA TakenAwayApart ==
  ASSUME NEW s, NEW X, Based(s, X), NEW v \in Views
  PROVE  LET t == TakenAway(s, v)
         IN  /\ Based(t, X) /\ (Boxed(s, X) => Boxed(t, X))
             /\ \A Y : Styled(s, Y) => Styled(t, Y)
             /\ \A e : In(t, e) <=> In(s, e) /\ e # Root(v) /\ e # Box(s.modal[v])
             /\ t.promises = s.promises /\ t.lock = s.lock /\ t.frames = s.frames
             /\ t.modal = s.modal /\ t.boxes = s.boxes /\ t.lost = s.lost
<1> DEFINE t == TakenAway(s, v)
           b == Without(s.body, Root(v))
           c == Without(b, Box(s.modal[v]))
<1>1. s \in Pages /\ Formed(s) /\ s.body \in Seq(Elements) /\ IsInjective(s.body)
  <2>1. s \in Pages /\ Formed(s)
    BY DEF Based, Formed
  <2> QED
    BY <2>1, FieldTypes DEF Formed
<1>2. /\ c \in Seq(Elements) /\ IsInjective(c)
      /\ ToSet(c) = ToSet(s.body) \ {Root(v), Box(s.modal[v])}
  <2>1. b \in Seq(Elements) /\ IsInjective(b) /\ ToSet(b) = ToSet(s.body) \ {Root(v)}
    BY <1>1, WithoutProperties
  <2> HIDE DEF b
  <2> QED
    BY <2>1, WithoutProperties
<1>3. /\ t \in Pages /\ t.body = c /\ t.cls = s.cls
      /\ t.promises = s.promises /\ t.lock = s.lock /\ t.frames = s.frames
      /\ t.modal = s.modal /\ t.boxes = s.boxes /\ t.lost = s.lost
  <2>1. t = [s EXCEPT !.body = c]
    BY DEF TakenAway
  <2> HIDE DEF t, c
  <2> QED
    BY <1>1, <1>2, <2>1 DEF Pages
<1> HIDE DEF t, c
<1>4. \A e : In(t, e) <=> In(s, e) /\ e # Root(v) /\ e # Box(s.modal[v])
  BY <1>2, <1>3 DEF In
<1>5. Based(t, X)
  <2>1. \A u \in Views : t.modal[u] <= t.boxes
    BY <1>1, <1>3 DEF Formed
  <2>2. /\ \A u \in Views : t.lock[u] \in {0, s.lock[u]} /\ t.cls[u] \subseteq s.cls[u]
        /\ \A e \in ToSet(t.body) : e \in ToSet(s.body)
        /\ IsInjective(t.body)
    BY <1>2, <1>3
  <2> QED
    BY <1>3, <2>1, <2>2, BasedOn
<1>6. Boxed(s, X) => Boxed(t, X)
  <2>1. \A u \in Views : In(s, Root(u)) => In(t, Root(u)) \/ ~In(t, Box(s.modal[u]))
    <3> SUFFICES ASSUME NEW u \in Views, In(s, Root(u)), ~In(t, Root(u))
                 PROVE  ~In(t, Box(s.modal[u]))
      OBVIOUS
    <3>1. Root(u) = Root(v) \/ Root(u) = Box(s.modal[v])
      BY <1>2, <1>3 DEF In
    <3>2. s.modal[v] \in Nat
      BY <1>1, FieldTypes
    <3>3. u = v
      BY <3>1, <3>2, Distinct
    <3> QED
      BY <1>2, <1>3, <3>3 DEF In
  <2> QED
    BY <1>3, <1>4, <2>1, BoxedOn
<1>7. ASSUME NEW Y, Styled(s, Y) PROVE Styled(t, Y)
  <2>1. \A u \in Views : Opens(s, u) => Opens(t, u)
    BY <1>3 DEF Opens
  <2> QED
    BY <1>3, <1>4, <1>7, <2>1, StyledOn
<1> QED
  BY <1>3, <1>4, <1>5, <1>6, <1>7 DEF t

-----------------------------------------------------------------------------
(* A promise is settled *)

Set(s, x, st) == [s EXCEPT !.promises[x].st = st]

LEMMA SetIs ==
  ASSUME NEW s \in Pages, NEW x \in DOMAIN s.promises, NEW st \in States
  PROVE  LET t == Set(s, x, st)
             P == s.promises
             Q == t.promises
         IN  /\ t \in Pages /\ t.body = s.body /\ t.cls = s.cls /\ t.modal = s.modal
             /\ t.boxes = s.boxes /\ t.lost = s.lost /\ t.lock = s.lock /\ t.frames = s.frames
             /\ DOMAIN Q = DOMAIN P /\ \A p \in DOMAIN P \ {x} : Q[p] = P[p]
             /\ Q[x].st = st /\ Q[x].v = P[x].v /\ Q[x].w = P[x].w
             /\ Q[x].after = P[x].after /\ Q[x].skip = P[x].skip
<1> DEFINE t == Set(s, x, st)
           Q == [s.promises EXCEPT ![x].st = st]
<1>1. /\ Q \in Seq(Promises) /\ DOMAIN Q = DOMAIN s.promises
      /\ \A p \in DOMAIN s.promises \ {x} : Q[p] = s.promises[p]
      /\ Q[x].st = st /\ Q[x].v = s.promises[x].v /\ Q[x].w = s.promises[x].w
      /\ Q[x].after = s.promises[x].after /\ Q[x].skip = s.promises[x].skip
  BY FieldTypes, SettingState
<1>2. t = [s EXCEPT !.promises = Q]
  BY DEF Set
<1> HIDE DEF t, Q
<1>3. /\ t \in Pages /\ t.promises = Q
      /\ t.body = s.body /\ t.cls = s.cls /\ t.modal = s.modal
      /\ t.boxes = s.boxes /\ t.lost = s.lost /\ t.lock = s.lock /\ t.frames = s.frames
  BY <1>1, <1>2 DEF Pages
<1> QED
  BY <1>1, <1>3 DEF t

LEMMA FailedApart ==
  ASSUME NEW s, NEW X, Based(s, X), NEW x \in DOMAIN s.promises, x \in X, NEW Y
  PROVE  Apart(Set(s, x, "failed"), X \ {x}, Y)
<1> DEFINE t == Set(s, x, "failed")
           P == s.promises
           Q == t.promises
<1>1. s \in Pages /\ Locked(s, X) /\ Formed(s)
  BY DEF Based, Formed
<1>2. /\ t \in Pages /\ t.body = s.body /\ t.cls = s.cls /\ t.modal = s.modal
      /\ t.boxes = s.boxes /\ t.lost = s.lost /\ t.lock = s.lock /\ t.frames = s.frames
      /\ DOMAIN Q = DOMAIN P /\ \A p \in DOMAIN P \ {x} : Q[p] = P[p]
      /\ Q[x].st = "failed" /\ Q[x].w = P[x].w
  BY <1>1, SetIs DEF States
<1> HIDE DEF t
<1>3. \A u \in Views : t.lock[u] # 0 =>
        \/ t.lock[u] = x /\ Held(Q, u, x)
        \/ /\ t.lock[u] # x /\ t.lock[u] = s.lock[u]
           /\ Blocks(P, u, x) => Blocks(Q, u, x)
  <2>1. \A u : Held(Q, u, x)
    BY <1>2, HeldByFailed
  <2>2. \A u : Blocks(P, u, x) => Blocks(Q, u, x)
    BY <1>2 DEF Blocks, Active
  <2> QED
    BY <1>2, <2>1, <2>2
<1>4. Moves(s, t, x)
  BY <1>2, <1>3 DEF Moves
<1>5. Based(t, X \ {x})
  BY <1>4, BasedMoved
<1>6. HasFailed(t.promises)
  BY <1>2 DEF HasFailed
<1> QED
  BY <1>5, <1>6 DEF Apart, Boxed, Styled, t

LEMMA DoneApart ==
  ASSUME NEW s, NEW X, NEW Y, Apart(s, X, Y), NEW x \in DOMAIN s.promises, x \in X,
         NEW r, r = s.promises[x], r.st \notin {"failed", "done"},
         r.st = "chain" => s.promises[r.after].st = "done",
         \A u \in Views : s.lock[u] # x /\ (Blocks(s.promises, u, x) => s.lock[u] = 0),
         ~In(s, Mark(x)),
         In(s, Root(r.w)) \/ ~In(s, Box(s.modal[r.w])),
         In(s, Root(r.v)) => Neat(s, r.v) \/ (x \notin Y /\ r.st # "anim")
  PROVE  Apart(Done(s, x), X \ {x}, Y \ {x})
<1> DEFINE t == Set(s, x, "done")
           P == s.promises
           Q == t.promises
<1>1. /\ s \in Pages /\ Formed(s) /\ Based(s, X) /\ Boxed(s, X) /\ Styled(s, Y)
      /\ t = Done(s, x)
  BY DEF Apart, Based, Formed, Set, Done
<1>2. /\ t \in Pages /\ t.body = s.body /\ t.cls = s.cls /\ t.modal = s.modal
      /\ t.boxes = s.boxes /\ t.lost = s.lost /\ t.lock = s.lock /\ t.frames = s.frames
      /\ DOMAIN Q = DOMAIN P /\ \A p \in DOMAIN P \ {x} : Q[p] = P[p]
      /\ Q[x].st = "done"
  BY <1>1, SetIs DEF States
<1> HIDE DEF t
<1>3. \A u \in Views : t.lock[u] # 0 =>
        \/ t.lock[u] = x /\ Held(Q, u, x)
        \/ /\ t.lock[u] # x /\ t.lock[u] = s.lock[u]
           /\ Blocks(P, u, x) => Blocks(Q, u, x)
  BY <1>2
<1>4. Based(t, X \ {x})
  <2>1. Moves(s, t, x)
    BY <1>2, <1>3 DEF Moves
  <2> QED
    BY <1>1, <2>1, BasedMoved
<1>5. HasFailed(Q) <=> HasFailed(P)
  BY <1>2 DEF HasFailed
<1>6. \A e : In(t, e) <=> In(s, e)
  BY <1>2 DEF In
<1>7. Boxed(t, X \ {x})
  <2> SUFFICES ASSUME ~HasFailed(Q), NEW n \in 1 .. t.boxes, In(t, Box(n))
               PROVE  Owned(t, X \ {x}, n)
    BY DEF Boxed
  <2>1. Owned(s, X, n)
    BY <1>1, <1>2, <1>5, <1>6 DEF Boxed
  <2>2. \A v : v # r.w /\ Coming(s, X, v) => Coming(t, X \ {x}, v)
    BY <1>2 DEF Coming, Comes
  <2>3. s.modal[r.w] = n => In(s, Root(r.w))
    BY <1>6
  <2> QED
    BY <1>2, <1>6, <2>1, <2>2, <2>3 DEF Owned
<1>8. Styled(t, Y \ {x})
  <2> SUFFICES ASSUME ~HasFailed(Q), NEW v \in Views, In(t, Root(v))
               PROVE  Neat(t, v) \/ Going(t, Y \ {x}, v)
    BY DEF Styled
  <2>1. Neat(s, v) => Neat(t, v)
    BY <1>2 DEF Neat, Opens
  <2>2. Neat(s, v) \/ Going(s, Y, v)
    BY <1>1, <1>5, <1>6 DEF Styled
  <2>3. CASE v # r.v \/ (x \notin Y /\ r.st # "anim")
    <3>1. Going(s, Y, v) => Going(t, Y \ {x}, v)
      BY <1>2, <2>3 DEF Going, Goes
    <3> QED
      BY <2>1, <2>2, <3>1
  <2>4. CASE v = r.v /\ Neat(s, r.v)
    BY <2>1, <2>4
  <2> QED
    BY <1>6, <2>3, <2>4
<1> QED
  BY <1>1, <1>4, <1>7, <1>8 DEF Apart

-----------------------------------------------------------------------------
\* Promise x may remove its view now.
Ready(s, x) ==
    LET r == s.promises[x]
    IN  /\ x \in DOMAIN s.promises /\ r.st \notin {"failed", "done"}
        /\ r.st = "chain" => ~r.skip /\ s.promises[r.after].st = "done"
        /\ \A u \in Views : s.lock[u] = x => u = r.w /\ ~r.skip
        /\ r.skip => r.w = r.v /\ ~In(s, Mark(x))

LEMMA RemovedApart ==
  ASSUME NEW s, NEW X, NEW Y, Apart(s, X, Y), NEW x \in X, Ready(s, x)
  PROVE  Apart(Removed(s, x), X \ {x}, Y \ {x})
<1> DEFINE r == s.promises[x]
           t == TakenAway(s, r.v)
<1>1. /\ s \in Pages /\ Formed(s) /\ Based(s, X) /\ IsInjective(s.body)
      /\ Boxed(s, X) /\ Styled(s, Y)
  BY DEF Apart, Based, Formed
<1>2. /\ x \in DOMAIN s.promises /\ r.v \in Views /\ r.w \in Views /\ x \in Nat
      /\ s.promises \in Seq(Promises) /\ s.modal[r.v] \in Nat
  <2>1. x \in DOMAIN s.promises /\ s.promises \in Seq(Promises) /\ s.modal \in [Views -> Nat]
    BY <1>1, FieldTypes DEF Ready
  <2>2. r.v \in Views /\ r.w \in Views /\ x \in Nat
    BY <2>1, PromiseTypes
  <2> QED
    BY <2>1, <2>2
<1>3. Removed(s, x) = IF r.skip THEN Done(t, x)
                      ELSE IF In(t, Mark(x)) THEN PutInPlace(t, r.w, x)
                      ELSE NotPut(t, r.w, x)
  BY <1>1, <1>2, RemovedIs
<1>4. /\ Based(t, X) /\ Boxed(t, X) /\ Styled(t, Y)
      /\ \A e : In(t, e) <=> In(s, e) /\ e # Root(r.v) /\ e # Box(s.modal[r.v])
      /\ t.promises = s.promises /\ t.lock = s.lock /\ t.modal = s.modal
  <2>1. r.v \in Views /\ Based(s, X)
    BY <1>1, <1>2
  <2> HIDE DEF r
  <2>2. Based(t, X)
    BY <2>1, TakenAwayApart
  <2>3. Boxed(t, X)
    BY <1>1, <2>1, TakenAwayApart
  <2>4. Styled(t, Y)
    BY <1>1, <2>1, TakenAwayApart
  <2>5. \A e : In(t, e) <=> In(s, e) /\ e # Root(r.v) /\ e # Box(s.modal[r.v])
    BY <1>1, <2>1, TakenAwayApart
  <2> QED
    BY <1>1, <2>1, <2>2, <2>3, <2>4, <2>5, TakenAwayApart
<1> HIDE DEF t
<1>5. /\ r.st \notin {"failed", "done"} /\ (r.st = "chain" => ~r.skip)
      /\ r.st = "chain" => s.promises[r.after].st = "done"
      /\ \A u \in Views : s.lock[u] = x => u = r.w /\ ~r.skip
      /\ r.skip => r.w = r.v /\ ~In(s, Mark(x))
  BY DEF Ready
<1>6. \A u : Blocks(s.promises, u, x) => u = r.w /\ ~r.skip
  BY <1>5 DEF Blocks, Active
<1> HIDE DEF r
<1>7. CASE r.skip
  <2>1. \A u \in Views : t.lock[u] # x /\ (Blocks(t.promises, u, x) => t.lock[u] = 0)
    BY <1>4, <1>5, <1>6, <1>7
  <2>2. /\ ~In(t, Mark(x)) /\ ~In(t, Root(r.v)) /\ ~In(t, Box(t.modal[r.w]))
        /\ r = t.promises[x] /\ x \in DOMAIN t.promises
    BY <1>2, <1>4, <1>5, <1>7 DEF r
  <2>3. r.st = "chain" => t.promises[r.after].st = "done"
    BY <1>4, <1>5
  <2>4. Apart(t, X, Y)
    BY <1>4 DEF Apart
  <2>5. Apart(Done(t, x), X \ {x}, Y \ {x})
    BY <1>4, <1>5, <2>1, <2>2, <2>3, <2>4, DoneApart
  <2> QED
    BY <1>3, <1>7, <2>5
<1>8. CASE ~r.skip /\ In(t, Mark(x))
  <2> DEFINE a == Added(t, r.w, Mark(x))
             c == Without(a.body, Mark(x))
             b == [a EXCEPT !.body = c, !.lock[r.w] = 0]
  <2>1. Mark(x) \in ToSet(t.body)
    BY <1>8 DEF In
  <2>2. /\ Based(a, X) /\ Boxed(a, X) /\ Styled(a, Y)
        /\ (\A e : In(a, e) <=> In(t, e) \/ e = Root(r.w)) /\ Neat(a, r.w)
        /\ a.promises = s.promises /\ a.lock = s.lock
    <3>1. r.w \in Views /\ Based(t, X) /\ Mark(x) \in ToSet(t.body) \cup {<<>>}
      BY <1>2, <1>4, <2>1
    <3>2. Based(a, X)
      BY <3>1, AddedApart
    <3>3. Boxed(a, X)
      BY <1>4, <3>1, AddedApart
    <3>4. Styled(a, Y)
      BY <1>4, <3>1, AddedApart
    <3>5. \A e : In(a, e) <=> In(t, e) \/ e = Root(r.w)
      BY <3>1, AddedApart
    <3> QED
      BY <1>4, <3>1, <3>2, <3>3, <3>4, <3>5, AddedApart
  <2> HIDE DEF a
  <2>3. a \in Pages /\ Formed(a) /\ a.body \in Seq(Elements) /\ IsInjective(a.body)
        /\ a.lock \in [Views -> Nat]
    <3>1. a \in Pages /\ Formed(a)
      BY <2>2 DEF Based, Formed
    <3> QED
      BY <3>1, FieldTypes DEF Formed
  <2>4. c \in Seq(Elements) /\ IsInjective(c) /\ ToSet(c) = ToSet(a.body) \ {Mark(x)}
    BY <2>3, WithoutProperties
  <2>5. PutInPlace(t, r.w, x) = Done(b, x)
    BY <2>3 DEF PutInPlace, Done, a, Pages
  <2> HIDE DEF c
  <2>6. /\ b \in Pages /\ b.body = c /\ b.cls = a.cls /\ b.modal = a.modal
        /\ b.boxes = a.boxes /\ b.lost = a.lost /\ b.promises = a.promises
        /\ b.lock = [a.lock EXCEPT ![r.w] = 0] /\ b.frames = a.frames
    BY <1>2, <2>3, <2>4 DEF Pages
  <2> HIDE DEF b
  <2>7. \A e : In(b, e) <=> In(a, e) /\ e # Mark(x)
    BY <2>4, <2>6 DEF In
  <2>8. \A u \in Views : In(b, Root(u)) <=> In(a, Root(u))
    BY <1>2, <2>7, Distinct
  <2>9. \A u \in Views : Opens(a, u) <=> Opens(b, u)
    BY <2>6 DEF Opens
  <2>10. Based(b, X)
    <3>1. \A u \in Views : b.lock[u] \in {0, a.lock[u]} /\ b.cls[u] \subseteq a.cls[u]
      BY <2>3, <2>6
    <3>2. \A u \in Views : b.modal[u] <= b.boxes
      BY <2>3, <2>6 DEF Formed
    <3>3. IsInjective(b.body) /\ \A e \in ToSet(b.body) : e \in ToSet(a.body)
      BY <2>4, <2>6
    <3> QED
      BY <2>2, <2>6, <3>1, <3>2, <3>3, BasedOn
  <2>11. Boxed(b, X)
    BY <2>2, <2>6, <2>7, <2>8, BoxedOn
  <2>12. Styled(b, Y)
    BY <2>2, <2>6, <2>8, <2>9, StyledOn
  <2>13. \A u \in Views : b.lock[u] # x /\ (Blocks(b.promises, u, x) => b.lock[u] = 0)
    BY <1>2, <1>4, <1>5, <1>6, <2>2, <2>3, <2>6, PromiseTypes
  <2>14. /\ r = b.promises[x] /\ x \in DOMAIN b.promises
         /\ r.st = "chain" => b.promises[r.after].st = "done"
    BY <1>2, <1>5, <2>2, <2>6 DEF r
  <2>15. ~In(b, Mark(x)) /\ In(b, Root(r.w))
    BY <1>2, <2>2, <2>7, <2>8
  <2>16. In(b, Root(r.v)) => Neat(b, r.v)
    <3>1. Neat(b, r.w)
      BY <2>2, <2>6, <2>9, <1>2 DEF Neat
    <3>2. In(b, Root(r.v)) => r.v = r.w
      BY <1>2, <1>4, <2>2, <2>7, Distinct
    <3> QED
      BY <3>1, <3>2
  <2>17. Apart(b, X, Y)
    BY <2>10, <2>11, <2>12 DEF Apart
  <2>18. Apart(Done(b, x), X \ {x}, Y \ {x})
    BY <1>5, <2>13, <2>14, <2>15, <2>16, <2>17, DoneApart
  <2> QED
    BY <1>3, <1>8, <2>5, <2>18
<1>9. CASE ~r.skip /\ ~In(t, Mark(x))
  <2> DEFINE a == Restyled(t, r.w)
  <2>1. Based(a, X) /\ a.promises = t.promises
    BY <1>2, <1>4, RestyledApart
  <2>2. NotPut(t, r.w, x) = Set(a, x, "failed")
    BY DEF NotPut, Set
  <2> HIDE DEF a
  <2>3. x \in DOMAIN a.promises
    BY <1>2, <1>4, <2>1
  <2>4. Apart(Set(a, x, "failed"), X \ {x}, Y \ {x})
    BY <2>1, <2>3, FailedApart
  <2> QED
    BY <1>3, <1>9, <2>2, <2>4
<1> QED
  BY <1>7, <1>8, <1>9

-----------------------------------------------------------------------------
(* A view is closed *)

WaitsFrame(s, x) ==
    [s EXCEPT !.promises[x].st = "frame", !.frames = Append(@, [do |-> "close", of |-> x])]

LEMMA WaitsFrameIs ==
  ASSUME NEW s \in Pages, NEW x \in DOMAIN s.promises
  PROVE  LET t == WaitsFrame(s, x)
             P == s.promises
             Q == t.promises
         IN  /\ t \in Pages /\ t.body = s.body /\ t.cls = s.cls /\ t.modal = s.modal
             /\ t.boxes = s.boxes /\ t.lost = s.lost /\ t.lock = s.lock
             /\ t.frames = Append(s.frames, [do |-> "close", of |-> x])
             /\ DOMAIN Q = DOMAIN P /\ \A p \in DOMAIN P \ {x} : Q[p] = P[p]
             /\ Q[x].st = "frame" /\ Q[x].v = P[x].v /\ Q[x].w = P[x].w
             /\ Q[x].after = P[x].after /\ Q[x].skip = P[x].skip
<1> DEFINE t == WaitsFrame(s, x)
           a == Set(s, x, "frame")
           P == s.promises
           Q == a.promises
           frs == Append(s.frames, [do |-> "close", of |-> x])
<1>1. /\ a \in Pages /\ a.body = s.body /\ a.cls = s.cls /\ a.modal = s.modal
      /\ a.boxes = s.boxes /\ a.lost = s.lost /\ a.lock = s.lock /\ a.frames = s.frames
      /\ DOMAIN Q = DOMAIN P /\ \A p \in DOMAIN P \ {x} : Q[p] = P[p]
      /\ Q[x].st = "frame" /\ Q[x].v = P[x].v /\ Q[x].w = P[x].w
      /\ Q[x].after = P[x].after /\ Q[x].skip = P[x].skip
  BY SetIs DEF States
<1>2. t = [a EXCEPT !.frames = frs]
  BY DEF WaitsFrame, Set, Pages
<1>3. frs \in Seq(Frames)
  <2>1. s.frames \in Seq(Frames) /\ x \in Nat
    BY FieldTypes, PromiseTypes
  <2>2. [do |-> "close", of |-> x] \in Frames
    BY <2>1 DEF Frames
  <2> QED
    BY <2>1, <2>2
<1> HIDE DEF t, a, frs
<1>4. /\ t \in Pages /\ t.body = a.body /\ t.cls = a.cls /\ t.modal = a.modal
      /\ t.boxes = a.boxes /\ t.lost = a.lost /\ t.lock = a.lock /\ t.frames = frs
      /\ t.promises = a.promises
  BY <1>1, <1>2, <1>3 DEF Pages
<1> QED
  BY <1>1, <1>4 DEF t, frs

LEMMA WaitsFrameApart ==
  ASSUME NEW s, NEW X, NEW Y, Apart(s, X, Y), NEW x \in X, Ready(s, x), x \notin Y,
         NEW r, r = s.promises[x], r.st # "anim", r.v \in Closing, In(s, Root(r.v))
  PROVE  Apart(WaitsFrame(s, x), X \ {x}, Y)
<1> DEFINE t == WaitsFrame(s, x)
           P == s.promises
           Q == t.promises
<1>1. s \in Pages /\ Formed(s) /\ Based(s, X) /\ Boxed(s, X) /\ Styled(s, Y)
  BY DEF Apart, Based, Formed
<1>2. /\ x \in DOMAIN P /\ r.st \notin {"failed", "done"}
      /\ r.st = "chain" => ~r.skip /\ P[r.after].st = "done"
      /\ \A u \in Views : s.lock[u] = x => u = r.w /\ ~r.skip
      /\ r.skip => r.w = r.v /\ ~In(s, Mark(x))
  BY DEF Ready
<1>3. /\ t \in Pages /\ t.body = s.body /\ t.cls = s.cls /\ t.modal = s.modal
      /\ t.boxes = s.boxes /\ t.lost = s.lost /\ t.lock = s.lock
      /\ t.frames = Append(s.frames, [do |-> "close", of |-> x])
      /\ DOMAIN Q = DOMAIN P /\ \A p \in DOMAIN P \ {x} : Q[p] = P[p]
      /\ Q[x].st = "frame" /\ Q[x].v = r.v /\ Q[x].w = r.w
      /\ Q[x].after = r.after /\ Q[x].skip = r.skip
  BY <1>1, <1>2, WaitsFrameIs
<1> HIDE DEF t
<1>4. \A u : Blocks(P, u, x) => Blocks(Q, u, x)
  BY <1>2, <1>3 DEF Blocks, Active
<1>5. \A u \in Views : t.lock[u] = x => Held(Q, u, x)
  BY <1>2, <1>3 DEF Held, Blocks, Active
<1>6. Moves(s, t, x)
  BY <1>2, <1>3, <1>4, <1>5 DEF Moves
<1>7. Based(t, X \ {x})
  BY <1>1, <1>6, BasedMoved
<1>8. HasFailed(Q) <=> HasFailed(P)
  BY <1>2, <1>3 DEF HasFailed
<1>9. \A e : In(t, e) <=> In(s, e)
  BY <1>3 DEF In
<1>10. Boxed(t, X \ {x})
  <2> SUFFICES ASSUME ~HasFailed(Q), NEW n \in 1 .. t.boxes, In(t, Box(n))
               PROVE  Owned(t, X \ {x}, n)
    BY DEF Boxed
  <2>1. Owned(s, X, n)
    BY <1>1, <1>3, <1>8, <1>9 DEF Boxed
  <2>2. \A v : Coming(s, X, v) => Coming(t, X \ {x}, v) \/ In(s, Root(v))
    <3> SUFFICES ASSUME NEW v, NEW p \in DOMAIN P, Comes(s, X, p), P[p].w = v
                 PROVE  Coming(t, X \ {x}, v) \/ In(s, Root(v))
      BY DEF Coming
    <3>1. CASE p # x
      BY <1>3, <3>1 DEF Coming, Comes
    <3>2. CASE p = x /\ r.skip
      BY <1>2, <3>2
    <3>3. CASE p = x /\ ~r.skip
      BY <1>3, <3>3 DEF Coming, Comes
    <3> QED
      BY <3>1, <3>2, <3>3
  <2> QED
    BY <1>3, <1>9, <2>1, <2>2 DEF Owned
<1>11. Styled(t, Y)
  <2>1. \A v : Opens(s, v) => Opens(t, v)
    <3>1. s.frames \in Seq(Frames)
      BY <1>1, FieldTypes
    <3>2. \A i \in DOMAIN s.frames : i \in DOMAIN t.frames /\ t.frames[i] = s.frames[i]
      BY <1>3, <3>1
    <3> QED
      BY <3>2 DEF Opens
  <2>2. \A v : Neat(s, v) => Neat(t, v)
    BY <1>3, <2>1 DEF Neat
  <2>3. \A v : Going(s, Y, v) => Going(t, Y, v)
    BY <1>3 DEF Going, Goes
  <2> QED
    BY <1>1, <1>8, <1>9, <2>2, <2>3 DEF Styled
<1> QED
  BY <1>7, <1>10, <1>11 DEF Apart, t

LEMMA ClosedApart ==
  ASSUME NEW s, NEW X, NEW Y, Apart(s, X, Y), NEW x \in X, Ready(s, x), x \notin Y,
         s.promises[x].st # "anim"
  PROVE  Apart(Closed(s, x), X \ {x}, Y)
<1> DEFINE r == s.promises[x]
<1>1. CASE Animates(s, r.v)
  <2>1. Closed(s, x) = WaitsFrame(s, x)
    BY <1>1 DEF Closed, WaitsFrame
  <2>2. s.body \in Seq(Elements)
    BY FieldTypes DEF Apart, Based, Formed
  <2>3. r.v \in Closing /\ In(s, Root(r.v))
    BY <1>1, <2>2, InSequence DEF Animates, In
  <2> QED
    BY <2>1, <2>3, WaitsFrameApart
<1>2. CASE ~Animates(s, r.v)
  <2>1. Closed(s, x) = Removed(s, x)
    BY <1>2 DEF Closed
  <2>2. Apart(Removed(s, x), X \ {x}, Y \ {x})
    BY RemovedApart
  <2>3. Y \ {x} = Y
    OBVIOUS
  <2> QED
    BY <2>1, <2>2, <2>3
<1> QED
  BY <1>1, <1>2

\* Closing without a successor does no more than that.
LEMMA ClosedSkipped ==
  ASSUME NEW s \in Pages, IsInjective(s.body), NEW x \in DOMAIN s.promises,
         NEW r, r = s.promises[x], r.skip
  PROVE  LET t == Closed(s, x)
         IN  /\ t.lock = s.lock /\ t.modal = s.modal
             /\ DOMAIN t.promises = DOMAIN s.promises
             /\ \A p \in DOMAIN s.promises \ {x} : t.promises[p] = s.promises[p]
             /\ \A e : In(t, e) => In(s, e)
             /\ \A e : In(s, e) /\ e # Root(r.v) /\ e # Box(s.modal[r.v]) => In(t, e)
<1>1. CASE Animates(s, r.v)
  <2>1. Closed(s, x) = WaitsFrame(s, x)
    BY <1>1 DEF Closed, WaitsFrame
  <2> DEFINE t == WaitsFrame(s, x)
  <2>2. /\ t.body = s.body /\ t.lock = s.lock /\ t.modal = s.modal
        /\ DOMAIN t.promises = DOMAIN s.promises
        /\ \A p \in DOMAIN s.promises \ {x} : t.promises[p] = s.promises[p]
    BY WaitsFrameIs
  <2> HIDE DEF t
  <2>3. \A e : In(t, e) <=> In(s, e)
    BY <2>2 DEF In
  <2> QED
    BY <2>1, <2>2, <2>3 DEF t
<1>2. CASE ~Animates(s, r.v)
  <2> DEFINE a == TakenAway(s, r.v)
             b == Without(s.body, Root(r.v))
             c == Without(b, Box(s.modal[r.v]))
  <2>1. Closed(s, x) = Done(a, x)
    BY <1>2, RemovedIs DEF Closed
  <2>2. s.body \in Seq(Elements)
    BY FieldTypes
  <2>3. b \in Seq(Elements) /\ IsInjective(b) /\ ToSet(b) = ToSet(s.body) \ {Root(r.v)}
    BY <2>2, WithoutProperties
  <2>4. a = [s EXCEPT !.body = c]
    BY DEF TakenAway
  <2> HIDE DEF b
  <2>5. c \in Seq(Elements) /\ ToSet(c) = ToSet(b) \ {Box(s.modal[r.v])}
    BY <2>3, WithoutProperties
  <2> HIDE DEF a, c
  <2>6. /\ a \in Pages /\ a.body = c /\ a.lock = s.lock /\ a.modal = s.modal
        /\ a.promises = s.promises
    BY <2>4, <2>5 DEF Pages
  <2> DEFINE t == Set(a, x, "done")
  <2>7. /\ t.body = a.body /\ t.lock = a.lock /\ t.modal = a.modal
        /\ DOMAIN t.promises = DOMAIN a.promises
        /\ \A p \in DOMAIN a.promises \ {x} : t.promises[p] = a.promises[p]
    BY <2>6, SetIs DEF States
  <2>8. Closed(s, x) = t
    BY <2>1 DEF Done, Set
  <2> HIDE DEF t
  <2>9. \A e : In(t, e) <=> In(s, e) /\ e # Root(r.v) /\ e # Box(s.modal[r.v])
    BY <2>3, <2>5, <2>6, <2>7 DEF In
  <2> QED
    BY <2>6, <2>7, <2>8, <2>9
<1> QED
  BY <1>1, <1>2

-----------------------------------------------------------------------------
(* A promise is made *)

Makes(s, t, n, r) ==
    LET P == s.promises
        Q == t.promises
    IN  /\ t \in Pages /\ t.body = s.body /\ t.cls = s.cls /\ t.modal = s.modal
        /\ t.boxes = s.boxes /\ t.lost = s.lost /\ t.lock = s.lock /\ t.frames = s.frames
        /\ n \in Nat \ {0} /\ n \notin DOMAIN P /\ DOMAIN Q = DOMAIN P \cup {n}
        /\ (\A p \in DOMAIN P : Q[p] = P[p]) /\ Q[n] = r

LEMMA PromisedIs ==
  ASSUME NEW s \in Pages, NEW v \in Views, NEW w \in Views, NEW skip \in BOOLEAN
  PROVE  Makes(s, Promised(s, v, w, skip), Len(s.promises) + 1,
               [st |-> "call", v |-> v, w |-> w, after |-> 0, skip |-> skip])
<1> DEFINE t == Promised(s, v, w, skip)
           r == [st |-> "call", v |-> v, w |-> w, after |-> 0, skip |-> skip]
           Q == Append(s.promises, r)
<1>1. s.promises \in Seq(Promises) /\ r \in Promises
  BY FieldTypes DEF Promises, States
<1>2. t = [s EXCEPT !.promises = Q]
  BY DEF Promised
<1> HIDE DEF r
<1>3. /\ Q \in Seq(Promises) /\ Len(s.promises) + 1 \in Nat \ {0}
      /\ Len(s.promises) + 1 \notin DOMAIN s.promises
      /\ DOMAIN Q = DOMAIN s.promises \cup {Len(s.promises) + 1}
      /\ \A p \in DOMAIN s.promises : Q[p] = s.promises[p]
      /\ Q[Len(s.promises) + 1] = r
  BY <1>1
<1> HIDE DEF t, Q
<1>4. /\ t \in Pages /\ t.promises = Q
      /\ t.body = s.body /\ t.cls = s.cls /\ t.modal = s.modal
      /\ t.boxes = s.boxes /\ t.lost = s.lost /\ t.lock = s.lock /\ t.frames = s.frames
  BY <1>2, <1>3 DEF Pages
<1> QED
  BY <1>3, <1>4 DEF t, r, Makes

LEMMA PromisedApart ==
  ASSUME NEW s, NEW X, Apart(s, X, {}), NEW v \in Views, NEW w \in Views, NEW skip \in BOOLEAN
  PROVE  Apart(Promised(s, v, w, skip), X, {})
<1> DEFINE t == Promised(s, v, w, skip)
           P == s.promises
           Q == t.promises
           n == Len(P) + 1
<1>1. /\ s \in Pages /\ Formed(s) /\ Awaited(s, X) /\ Locked(s, X) /\ Marked(s, X)
      /\ Boxed(s, X) /\ Styled(s, {})
  BY DEF Apart, Based, Formed
<1>2. /\ t \in Pages /\ t.body = s.body /\ t.cls = s.cls /\ t.modal = s.modal
      /\ t.boxes = s.boxes /\ t.lost = s.lost /\ t.lock = s.lock /\ t.frames = s.frames
      /\ n \notin DOMAIN P /\ DOMAIN Q = DOMAIN P \cup {n}
      /\ \A p \in DOMAIN P : Q[p] = P[p]
      /\ Q[n] = [st |-> "call", v |-> v, w |-> w, after |-> 0, skip |-> skip]
  <2>1. Makes(s, t, n, [st |-> "call", v |-> v, w |-> w, after |-> 0, skip |-> skip])
    BY <1>1, PromisedIs
  <2> QED
    BY <2>1 DEF Makes
<1>3. Q[n].st = "call"
  BY <1>2
<1> HIDE DEF t, n
<1>4. Formed(t)
  BY <1>1, <1>2, <1>3 DEF Formed, In
<1>5. Awaited(t, X)
  BY <1>1, <1>2 DEF Awaited
<1>6. Marked(t, X)
  BY <1>1, <1>2 DEF Marked, In
<1>7. Locked(t, X)
  <2> SUFFICES ASSUME NEW u \in Views, t.lock[u] \notin X \cup {0} PROVE Held(Q, u, t.lock[u])
    BY DEF Locked
  <2>1. Held(P, u, t.lock[u])
    BY <1>1, <1>2 DEF Locked
  <2>2. ~Blocks(P, u, n) /\ t.lock[u] # n
    BY <1>2, <2>1, HeldBySomeone DEF Blocks
  <2> QED
    BY <1>2, <2>1, <2>2, HeldOn
<1>8. HasFailed(Q) <=> HasFailed(P)
  BY <1>2, <1>3 DEF HasFailed
<1>9. Boxed(t, X)
  <2>1. \A u : Coming(s, X, u) => Coming(t, X, u)
    BY <1>2 DEF Coming, Comes
  <2> QED
    BY <1>1, <1>2, <1>8, <2>1 DEF Boxed, Owned, In
<1>10. Styled(t, {})
  <2>1. \A u : Going(s, {}, u) => Going(t, {}, u)
    BY <1>2 DEF Going, Goes
  <2>2. \A u : Neat(s, u) => Neat(t, u)
    BY <1>2 DEF Neat, Opens
  <2> QED
    BY <1>1, <1>2, <1>8, <2>1, <2>2 DEF Styled, In
<1> QED
  BY <1>4, <1>5, <1>6, <1>7, <1>9, <1>10 DEF Apart, Based, t

\* A promise that no frame is about may be exempt.
LEMMA Entered ==
  ASSUME NEW s, NEW X, NEW Y, Apart(s, X, Y), NEW x, NEW Z,
         \A i \in DOMAIN s.frames : s.frames[i].do = "close" => s.frames[i].of # x
  PROVE  Apart(s, X \cup {x}, Y \cup Z)
<1>1. Based(s, X \cup {x})
  BY DEF Apart, Based, Awaited, Locked, Marked
<1>2. Boxed(s, X \cup {x})
  BY DEF Apart, Boxed, Owned, Coming, Comes
<1>3. Styled(s, Y \cup Z)
  BY DEF Apart, Styled, Going, Goes
<1> QED
  BY <1>1, <1>2, <1>3 DEF Apart

-----------------------------------------------------------------------------
(* A view is replaced *)

\* The page has a place for what follows a view.
LEMMA FollowingIs ==
  ASSUME NEW b \in Seq(Elements), IsInjective(b), NEW v, Root(v) \in ToSet(b)
  PROVE  Following(b, v) \in (ToSet(b) \ {Root(v)}) \cup {<<>>}
<1> DEFINE i == Position(b, Root(v))
<1>1. b # <<>> /\ DOMAIN b = 1 .. Len(b) /\ Len(b) \in Nat
  BY DEF ToSet
<1>2. i \in DOMAIN b /\ b[i] = Root(v)
  BY DEF ToSet, Position
<1> HIDE DEF i
<1>3. CASE Last(b) = Root(v)
  BY <1>3 DEF Following
<1>4. CASE Last(b) # Root(v)
  <2>1. i # Len(b)
    BY <1>2, <1>4 DEF Last
  <2>2. i + 1 \in DOMAIN b /\ i + 1 # i
    BY <1>1, <1>2, <2>1
  <2>3. b[i + 1] # Root(v)
    BY <1>2, <2>2 DEF IsInjective
  <2>4. Following(b, v) = b[i + 1]
    BY <1>4 DEF Following, i
  <2> QED
    BY <2>2, <2>3, <2>4 DEF ToSet
<1> QED
  BY <1>3, <1>4

LEMMA HandedOverApart ==
  ASSUME NEW s, NEW X, NEW Y, Apart(s, X, Y), NEW x \in X, x \in DOMAIN s.promises,
         NEW v \in Views, NEW w, w = s.promises[x].w
  PROVE  LET t == HandedOver(s, v, w)
         IN  /\ Apart(t, X, Y) /\ t.modal[v] = 0
             /\ t.body = s.body /\ t.cls = s.cls /\ t.promises = s.promises
             /\ t.lock = s.lock /\ t.frames = s.frames /\ t.boxes = s.boxes
<1> DEFINE t == HandedOver(s, v, w)
           m == [s.modal EXCEPT ![w] = s.modal[v], ![v] = 0]
           l == s.lost \cup ({s.modal[w]} \ {0})
<1>1. s \in Pages /\ Formed(s) /\ Based(s, X) /\ Boxed(s, X) /\ Styled(s, Y)
  BY DEF Apart, Based, Formed
<1>2. s.promises \in Seq(Promises) /\ s.modal \in [Views -> Nat] /\ s.lost \in SUBSET Nat
  BY <1>1, FieldTypes
<1>3. w \in Views
  BY <1>2, PromiseTypes
<1>4. /\ m \in [Views -> Nat] /\ l \in SUBSET Nat /\ m[v] = 0
      /\ w # v => m[w] = s.modal[v]
      /\ \A u \in Views \ {v, w} : m[u] = s.modal[u]
  BY <1>2, <1>3
<1>5. t = [s EXCEPT !.modal = m, !.lost = l]
  BY DEF HandedOver
<1> HIDE DEF t, m
<1>6. /\ t \in Pages /\ t.modal = m /\ t.lost = l
      /\ t.body = s.body /\ t.cls = s.cls /\ t.promises = s.promises
      /\ t.lock = s.lock /\ t.frames = s.frames /\ t.boxes = s.boxes
  <2> HIDE DEF l
  <2> QED
    BY <1>1, <1>4, <1>5 DEF Pages
<1>7. \A e : In(t, e) <=> In(s, e)
  BY <1>6 DEF In
<1>8. Based(t, X)
  <2>1. s.boxes \in Nat /\ \A u \in Views : s.modal[u] <= s.boxes
    BY <1>1, FieldTypes DEF Formed
  <2>2. \A u \in Views : m[u] <= t.boxes
    BY <1>3, <1>4, <1>6, <2>1
  <2>3. IsInjective(t.body)
    BY <1>1, <1>6 DEF Formed
  <2> QED
    BY <1>1, <1>6, <2>2, <2>3, BasedOn
<1>9. Styled(t, Y)
  <2>1. \A u \in Views : Opens(s, u) => Opens(t, u)
    BY <1>6 DEF Opens
  <2> QED
    BY <1>1, <1>6, <1>7, <2>1, StyledOn
<1>10. Boxed(t, X)
  <2> SUFFICES ASSUME ~HasFailed(t.promises), NEW n \in 1 .. t.boxes, In(t, Box(n))
               PROVE  Owned(t, X, n)
    BY DEF Boxed
  <2>1. Owned(s, X, n)
    BY <1>1, <1>6, <1>7 DEF Boxed
  <2>2. \A u : Coming(s, X, u) => Coming(t, X, u)
    BY <1>6 DEF Coming, Comes
  <2>3. Coming(t, X, w)
    BY <1>6 DEF Coming, Comes
  <2>4. n # 0 /\ s.lost \subseteq t.lost /\ (s.modal[w] = n => n \in t.lost)
    BY <1>6
  <2>5. CASE n \in s.lost \/ s.modal[w] = n
    BY <2>4, <2>5 DEF Owned
  <2>6. CASE n \notin s.lost /\ s.modal[w] # n
    <3>1. PICK u \in Views : s.modal[u] = n /\ (In(s, Root(u)) \/ Coming(s, X, u))
      BY <2>1, <2>6 DEF Owned
    <3>2. CASE u = v
      <4>1. t.modal[w] = n
        BY <1>4, <1>6, <2>6, <3>1, <3>2
      <4> QED
        BY <1>3, <2>3, <4>1 DEF Owned
    <3>3. CASE u # v
      <4>1. t.modal[u] = n
        BY <1>4, <1>6, <2>6, <3>1, <3>3
      <4> QED
        BY <1>7, <2>2, <3>1, <4>1 DEF Owned
    <3> QED
      BY <3>2, <3>3
  <2> QED
    BY <2>5, <2>6
<1> QED
  BY <1>4, <1>6, <1>8, <1>9, <1>10 DEF Apart, t

Placed(s, x, w, next) == [s EXCEPT !.body = Before(@, Mark(x), next), !.lock[w] = x]

LEMMA PlacedIs ==
  ASSUME NEW s \in Pages, IsInjective(s.body), NEW x \in Nat, NEW w \in Views,
         NEW next \in ToSet(s.body) \cup {<<>>}
  PROVE  LET t == Placed(s, x, w, next)
         IN  /\ t \in Pages /\ IsInjective(t.body) /\ t.cls = s.cls /\ t.modal = s.modal
             /\ t.boxes = s.boxes /\ t.lost = s.lost /\ t.promises = s.promises
             /\ t.frames = s.frames
             /\ \A u \in Views : t.lock[u] = IF u = w THEN x ELSE s.lock[u]
             /\ \A e : In(t, e) <=> In(s, e) \/ e = Mark(x)
<1> DEFINE t == Placed(s, x, w, next)
           b == Before(s.body, Mark(x), next)
           l == [s.lock EXCEPT ![w] = x]
<1>2. s.body \in Seq(Elements) /\ s.lock \in [Views -> Nat] /\ Mark(x) \in Elements
  BY FieldTypes DEF Elements
<1>3. b \in Seq(Elements) /\ IsInjective(b) /\ ToSet(b) = ToSet(s.body) \cup {Mark(x)}
  BY <1>2, BeforeIs
<1>4. l \in [Views -> Nat] /\ \A u \in Views : l[u] = IF u = w THEN x ELSE s.lock[u]
  BY <1>2
<1>5. t = [s EXCEPT !.body = b, !.lock = l]
  BY DEF Placed
<1> HIDE DEF t, b, l
<1>6. /\ t \in Pages /\ t.body = b /\ t.cls = s.cls /\ t.modal = s.modal
      /\ t.boxes = s.boxes /\ t.lost = s.lost /\ t.promises = s.promises
      /\ t.lock = l /\ t.frames = s.frames
  BY <1>3, <1>4, <1>5 DEF Pages
<1>7. \A e : In(t, e) <=> In(s, e) \/ e = Mark(x)
  BY <1>3, <1>6 DEF In
<1> QED
  BY <1>3, <1>4, <1>6, <1>7 DEF t

LEMMA PlacedApart ==
  ASSUME NEW s, NEW X, NEW Y, Apart(s, X, Y), NEW x \in X, x \in Nat,
         NEW w \in Views, NEW next \in ToSet(s.body) \cup {<<>>}
  PROVE  Apart(Placed(s, x, w, next), X, Y)
<1> DEFINE t == Placed(s, x, w, next)
<1>1. /\ s \in Pages /\ Formed(s) /\ Awaited(s, X) /\ Locked(s, X) /\ Marked(s, X)
      /\ Boxed(s, X) /\ Styled(s, Y) /\ IsInjective(s.body)
  BY DEF Apart, Based, Formed
<1>6. /\ t \in Pages /\ IsInjective(t.body) /\ t.cls = s.cls /\ t.modal = s.modal
      /\ t.boxes = s.boxes /\ t.lost = s.lost /\ t.promises = s.promises
      /\ t.frames = s.frames
      /\ \A u \in Views : t.lock[u] = IF u = w THEN x ELSE s.lock[u]
      /\ \A e : In(t, e) <=> In(s, e) \/ e = Mark(x)
  BY <1>1, PlacedIs
<1> HIDE DEF t
<1>8. /\ \A n \in Nat : In(t, Box(n)) <=> In(s, Box(n))
      /\ \A u \in Views : In(t, Root(u)) <=> In(s, Root(u))
      /\ \A p \in Nat : In(t, Mark(p)) <=> In(s, Mark(p)) \/ p = x
  BY <1>6, Distinct
<1>9. Formed(t)
  BY <1>1, <1>6, <1>8 DEF Formed
<1>10. Awaited(t, X)
  BY <1>1, <1>6 DEF Awaited
<1>11. Locked(t, X)
  BY <1>1, <1>6 DEF Locked
<1>12. Marked(t, X)
  BY <1>1, <1>6, <1>8 DEF Marked
<1>13. Boxed(t, X)
  <2>1. s.boxes \in Nat
    BY <1>1, FieldTypes
  <2>2. \A n \in 1 .. s.boxes : In(t, Box(n)) => In(s, Box(n))
    BY <1>8, <2>1
  <2> QED
    BY <1>1, <1>6, <1>8, <2>2, BoxedOn
<1>14. Styled(t, Y)
  <2>1. \A u \in Views : Opens(s, u) => Opens(t, u)
    BY <1>6 DEF Opens
  <2> QED
    BY <1>1, <1>6, <1>8, <2>1, StyledOn
<1> QED
  BY <1>9, <1>10, <1>11, <1>12, <1>13, <1>14 DEF Apart, Based, t

\* Promise x may replace now: nothing waits for it but what its lock stands for.
Free(s, x) ==
    LET r == s.promises[x]
    IN  /\ x \in DOMAIN s.promises /\ r.st \in {"call", "chain"}
        /\ r.st = "chain" => s.promises[r.after].st = "done"
        /\ \A u \in Views : s.lock[u] # x /\ (Blocks(s.promises, u, x) => s.lock[u] = 0)

LEMMA ReplacedIs ==
  ASSUME NEW s \in Pages, NEW x
  PROVE  LET r == s.promises[x]
             t == HandedOver(s, r.v, r.w)
             next == Following(s.body, r.v)
         IN  /\ ~In(s, Root(r.v)) =>
                  Replaced(s, x) = Set(IF r.skip THEN Restyled(t, r.w) ELSE t, x, "failed")
             /\ In(s, Root(r.v)) /\ r.skip =>
                  Replaced(s, x) = Done(Added(Closed(Promised(t, r.v, r.v, TRUE),
                                                     Len(s.promises) + 1), r.w, next), x)
             /\ In(s, Root(r.v)) /\ ~r.skip =>
                  Replaced(s, x) = Closed(Placed(t, x, r.w, next), x)
<1> DEFINE r == s.promises[x]
           t == HandedOver(s, r.v, r.w)
           next == Following(s.body, r.v)
<1>1. Contains(s.body, Root(r.v)) <=> In(s, Root(r.v))
  BY FieldTypes, InSequence DEF In
<1>2. ASSUME ~In(s, Root(r.v))
      PROVE  Replaced(s, x) = Set(IF r.skip THEN Restyled(t, r.w) ELSE t, x, "failed")
  BY <1>1, <1>2 DEF Replaced, Set
<1>3. ASSUME In(s, Root(r.v)), r.skip
      PROVE  Replaced(s, x) = Done(Added(Closed(Promised(t, r.v, r.v, TRUE),
                                                Len(s.promises) + 1), r.w, next), x)
  BY <1>1, <1>3 DEF Replaced, Done
<1>4. ASSUME In(s, Root(r.v)), ~r.skip
      PROVE  Replaced(s, x) = Closed(Placed(t, x, r.w, next), x)
  BY <1>1, <1>4 DEF Replaced, Placed
<1> QED
  BY <1>2, <1>3, <1>4

LEMMA ReplacedSound ==
  ASSUME NEW s, Sound(s), NEW x, Free(s, x)
  PROVE  Sound(Replaced(s, x))
<1> DEFINE r == s.promises[x]
           t == HandedOver(s, r.v, r.w)
           next == Following(s.body, r.v)
<1>1. /\ s \in Pages /\ Formed(s) /\ Awaited(s, {}) /\ Marked(s, {}) /\ Apart(s, {}, {})
      /\ s.promises \in Seq(Promises) /\ s.body \in Seq(Elements) /\ IsInjective(s.body)
      /\ s.boxes \in Nat
  <2>1. /\ s \in Pages /\ Formed(s) /\ Awaited(s, {}) /\ Marked(s, {}) /\ Apart(s, {}, {})
    BY DEF Sound, Apart, Based, Formed
  <2> QED
    BY <2>1, FieldTypes DEF Formed
<1>2. /\ x \in DOMAIN s.promises /\ r.st \in {"call", "chain"}
      /\ r.st = "chain" => s.promises[r.after].st = "done"
      /\ \A u \in Views : s.lock[u] # x /\ (Blocks(s.promises, u, x) => s.lock[u] = 0)
  BY DEF Free
<1>3. x \in Nat /\ r.v \in Views /\ r.w \in Views /\ r.skip \in BOOLEAN
  BY <1>1, <1>2, PromiseTypes
<1>4. ~In(s, Mark(x))
  BY <1>1, <1>2, <1>3 DEF Marked
<1>5. Apart(s, {x}, {})
  <2>1. \A i \in DOMAIN s.frames : s.frames[i].do = "close" => s.frames[i].of # x
    BY <1>1, <1>2 DEF Awaited
  <2>2. Apart(s, {} \cup {x}, {} \cup {})
    BY <1>1, <2>1, Entered
  <2> QED
    BY <2>2
<1>6. /\ Apart(t, {x}, {}) /\ t.modal[r.v] = 0
      /\ t.body = s.body /\ t.cls = s.cls /\ t.promises = s.promises
      /\ t.lock = s.lock /\ t.frames = s.frames /\ t.boxes = s.boxes
  <2> HIDE DEF r
  <2>1. r = s.promises[x]
    BY DEF r
  <2> QED
    BY <1>2, <1>3, <1>5, <2>1, HandedOverApart
<1>7. {x} \ {x} = {}
  OBVIOUS
<1> HIDE DEF t
<1>8. CASE ~In(s, Root(r.v))
  <2> DEFINE a == IF r.skip THEN Restyled(t, r.w) ELSE t
  <2>1. Replaced(s, x) = Set(a, x, "failed")
    BY <1>1, <1>8, ReplacedIs DEF t
  <2>2. Based(t, {x})
    BY <1>6 DEF Apart
  <2>3. Based(a, {x}) /\ a.promises = s.promises
    BY <1>3, <1>6, <2>2, RestyledApart
  <2> HIDE DEF a
  <2>4. x \in DOMAIN a.promises
    BY <1>2, <2>3
  <2>5. Apart(Set(a, x, "failed"), {x} \ {x}, {})
    BY <2>3, <2>4, FailedApart
  <2> QED
    BY <1>7, <2>1, <2>5 DEF Sound
<1>9. In(s, Root(r.v)) => next \in (ToSet(s.body) \ {Root(r.v)}) \cup {<<>>}
  BY <1>1, FollowingIs DEF In
<1>10. CASE In(s, Root(r.v)) /\ ~r.skip
  <2> DEFINE a == Placed(t, x, r.w, next)
  <2>1. Replaced(s, x) = Closed(a, x)
    BY <1>1, <1>10, ReplacedIs DEF t
  <2>2. next \in ToSet(t.body) \cup {<<>>}
    BY <1>6, <1>9, <1>10
  <2>3. /\ Apart(a, {x}, {}) /\ a.promises = t.promises
        /\ \A u \in Views : a.lock[u] = IF u = r.w THEN x ELSE t.lock[u]
    <3>1. r.w \in Views /\ x \in Nat /\ x \in {x} /\ Apart(t, {x}, {})
      BY <1>3, <1>6
    <3> HIDE DEF r, next
    <3>2. Apart(a, {x}, {})
      BY <2>2, <3>1, PlacedApart
    <3>3. t \in Pages /\ IsInjective(t.body)
      BY <1>6 DEF Apart, Based, Formed
    <3>4. a.promises = t.promises
      BY <2>2, <3>1, <3>3, PlacedIs
    <3>5. \A u \in Views : a.lock[u] = IF u = r.w THEN x ELSE t.lock[u]
      BY <2>2, <3>1, <3>3, PlacedIs
    <3> QED
      BY <3>2, <3>4, <3>5
  <2> HIDE DEF a
  <2>4. Ready(a, x)
    BY <1>2, <1>6, <1>10, <2>3 DEF Ready
  <2>5. a.promises[x].st # "anim"
    BY <1>2, <1>6, <2>3
  <2>6. Apart(Closed(a, x), {x} \ {x}, {})
    BY <2>3, <2>4, <2>5, ClosedApart
  <2> QED
    BY <1>7, <2>1, <2>6 DEF Sound
<1>11. CASE In(s, Root(r.v)) /\ r.skip
  <2> DEFINE n == Len(s.promises) + 1
             a == Promised(t, r.v, r.v, TRUE)
             c == Closed(a, n)
             d == Added(c, r.w, next)
  <2>1. Replaced(s, x) = Done(d, x)
    BY <1>1, <1>11, ReplacedIs DEF t
  <2>2. t \in Pages
    BY <1>6 DEF Apart, Based, Formed
  <2>3. /\ a \in Pages /\ a.body = t.body /\ a.modal = t.modal /\ a.lock = t.lock
        /\ a.frames = t.frames
        /\ n \notin DOMAIN s.promises /\ DOMAIN a.promises = DOMAIN s.promises \cup {n}
        /\ \A p \in DOMAIN s.promises : a.promises[p] = s.promises[p]
        /\ a.promises[n] = [st |-> "call", v |-> r.v, w |-> r.v, after |-> 0, skip |-> TRUE]
        /\ n \in Nat
    <3>1. Makes(t, a, Len(t.promises) + 1,
                [st |-> "call", v |-> r.v, w |-> r.v, after |-> 0, skip |-> TRUE])
      BY <1>3, <2>2, PromisedIs
    <3>2. n = Len(t.promises) + 1
      BY <1>6
    <3> HIDE DEF a, n
    <3> QED
      BY <1>6, <3>1, <3>2 DEF Makes
  <2>4. Apart(a, {x}, {})
    <3> HIDE DEF r
    <3> QED
      BY <1>3, <1>6, PromisedApart
  <2> HIDE DEF a, n
  <2>5. Apart(a, {x, n}, {})
    <3>1. \A i \in DOMAIN a.frames : a.frames[i].do = "close" => a.frames[i].of # n
      BY <1>1, <1>6, <2>3 DEF Awaited
    <3>2. Apart(a, {x} \cup {n}, {} \cup {})
      BY <2>4, <3>1, Entered
    <3>3. {x} \cup {n} = {x, n}
      OBVIOUS
    <3> QED
      BY <3>2, <3>3
  <2>6. Ready(a, n)
    <3>1. \A u \in Views : a.lock[u] # n
      <4> SUFFICES ASSUME NEW u \in Views, a.lock[u] = n PROVE FALSE
        OBVIOUS
      <4>1. s.lock[u] = n /\ n # 0
        BY <1>6, <2>3 DEF n
      <4>2. Held(s.promises, u, n)
        BY <1>1, <4>1 DEF Apart, Based, Locked
      <4> QED
        BY <2>3, <4>2, HeldBySomeone
    <3>2. ~In(a, Mark(n))
      BY <1>1, <1>6, <2>3 DEF Marked, In
    <3> QED
      BY <2>3, <3>1, <3>2 DEF Ready
  <2>7. Apart(c, {x}, {})
    <3>1. n \in {x, n} /\ {x, n} \ {n} = {x} /\ a.promises[n].st # "anim"
      BY <1>2, <2>3
    <3>2. Apart(c, {x, n} \ {n}, {})
      BY <2>5, <2>6, <3>1, ClosedApart
    <3> QED
      BY <3>1, <3>2
  <2>8. /\ c.lock = s.lock /\ DOMAIN c.promises = DOMAIN a.promises
        /\ \A p \in DOMAIN s.promises : c.promises[p] = s.promises[p]
        /\ \A e : In(c, e) => In(s, e)
        /\ \A e : In(s, e) /\ e # Root(r.v) /\ e # Box(0) => In(c, e)
    <3> DEFINE q == a.promises[n]
    <3>1. /\ IsInjective(a.body) /\ n \in DOMAIN a.promises /\ q.skip /\ q.v = r.v
          /\ a.modal[q.v] = 0
      BY <1>1, <1>6, <2>3
    <3>2. /\ c.lock = a.lock
          /\ DOMAIN c.promises = DOMAIN a.promises
          /\ \A p \in DOMAIN a.promises \ {n} : c.promises[p] = a.promises[p]
          /\ \A e : In(c, e) => In(a, e)
          /\ \A e : In(a, e) /\ e # Root(q.v) /\ e # Box(a.modal[q.v]) => In(c, e)
      BY <2>3, <3>1, ClosedSkipped
    <3>3. \A e : In(a, e) <=> In(s, e)
      BY <1>6, <2>3 DEF In
    <3> HIDE DEF c, q
    <3> QED
      BY <1>6, <2>3, <3>1, <3>2, <3>3
  <2> HIDE DEF c
  <2>9. next \in ToSet(c.body) \cup {<<>>}
    <3>1. ~In(s, Box(0))
      BY <1>1 DEF Formed
    <3> QED
      BY <1>9, <1>11, <2>8, <3>1 DEF In
  <2>10. /\ Based(d, {x}) /\ Boxed(d, {x}) /\ Styled(d, {})
         /\ \A e : In(d, e) <=> In(c, e) \/ e = Root(r.w)
         /\ d.promises = c.promises /\ d.lock = c.lock
    <3>1. r.w \in Views /\ Based(c, {x}) /\ Boxed(c, {x}) /\ Styled(c, {})
      BY <1>3, <2>7 DEF Apart
    <3> HIDE DEF r, next
    <3>2. Based(d, {x})
      BY <2>9, <3>1, AddedApart
    <3>3. Boxed(d, {x})
      BY <2>9, <3>1, AddedApart
    <3>4. Styled(d, {})
      BY <2>9, <3>1, AddedApart
    <3>5. \A e : In(d, e) <=> In(c, e) \/ e = Root(r.w)
      BY <2>9, <3>1, AddedApart
    <3> QED
      BY <2>9, <3>1, <3>2, <3>3, <3>4, <3>5, AddedApart
  <2> HIDE DEF d
  <2>11. Apart(d, {x}, {})
    BY <2>10 DEF Apart
  <2>12. /\ x \in DOMAIN d.promises /\ r = d.promises[x]
         /\ r.st = "chain" => d.promises[r.after].st = "done"
    <3>1. r.st = "chain" => r.after \in DOMAIN s.promises
      BY <1>1, <1>2 DEF Formed
    <3> QED
      BY <1>2, <2>3, <2>8, <2>10, <3>1
  <2>13. \A u \in Views : d.lock[u] # x /\ (Blocks(d.promises, u, x) => d.lock[u] = 0)
    BY <1>2, <2>8, <2>10 DEF Blocks
  <2>14. ~In(d, Mark(x)) /\ In(d, Root(r.w))
    BY <1>3, <1>4, <2>8, <2>10, Distinct
  <2>15. Apart(Done(d, x), {x} \ {x}, {} \ {x})
    BY <1>2, <2>11, <2>12, <2>13, <2>14, DoneApart
  <2>16. {} \ {x} = {}
    OBVIOUS
  <2> QED
    BY <1>7, <2>1, <2>15, <2>16 DEF Sound
<1> QED
  BY <1>8, <1>10, <1>11

-----------------------------------------------------------------------------
(* A replacement behind a lock *)

\* Only what a promise is about, its state and its place in a chain are new.
Rewrites(s, t, x) ==
    /\ t \in Pages /\ t.body = s.body /\ t.cls = s.cls /\ t.modal = s.modal
    /\ t.boxes = s.boxes /\ t.lost = s.lost /\ t.frames = s.frames
    /\ DOMAIN t.promises = DOMAIN s.promises
    /\ \A p \in DOMAIN s.promises \ {x} : t.promises[p] = s.promises[p]

\* A promise that no animation belongs to remains without one.
LEMMA RewrittenSound ==
  ASSUME NEW s, Sound(s), NEW x \in DOMAIN s.promises, NEW t, Rewrites(s, t, x), Moves(s, t, x),
         s.promises[x].st \in {"call", "chain"}, t.promises[x].st \in {"call", "chain"}
  PROVE  Sound(t)
<1>1. Awaited(s, {}) /\ Apart(s, {}, {}) /\ Boxed(s, {}) /\ Styled(s, {})
  BY DEF Sound, Apart, Based
<1>2. Based(s, {x})
  <2>1. \A i \in DOMAIN s.frames : s.frames[i].do = "close" => s.frames[i].of # x
    BY <1>1 DEF Awaited
  <2>2. Apart(s, {} \cup {x}, {} \cup {})
    BY <1>1, <2>1, Entered
  <2>3. {} \cup {x} = {x}
    OBVIOUS
  <2> QED
    BY <2>2, <2>3 DEF Apart
<1>3. Based(t, {})
  <2>1. Based(t, {x} \ {x})
    BY <1>2, BasedMoved
  <2>2. {x} \ {x} = {}
    OBVIOUS
  <2> QED
    BY <2>1, <2>2
<1> USE DEF Rewrites
<1>4. HasFailed(t.promises) <=> HasFailed(s.promises)
  BY DEF HasFailed
<1>5. \A e : In(t, e) <=> In(s, e)
  BY DEF In
<1>6. Boxed(t, {})
  <2>1. \A u : Coming(s, {}, u) => Coming(t, {}, u)
    BY DEF Coming, Comes
  <2> QED
    BY <1>1, <1>4, <1>5, <2>1 DEF Boxed, Owned
<1>7. Styled(t, {})
  <2>1. \A u : Going(s, {}, u) => Going(t, {}, u)
    BY DEF Going, Goes
  <2>2. \A u : Neat(s, u) => Neat(t, u)
    BY DEF Neat, Opens
  <2> QED
    BY <1>1, <1>4, <1>5, <2>1, <2>2 DEF Styled
<1> QED
  BY <1>3, <1>6, <1>7 DEF Sound, Apart

\* One more waits in a chain.
LEMMA HeldChain ==
  ASSUME NEW P, NEW x \in DOMAIN P, P[x].st = "chain", NEW u, Held(P, u, P[x].after)
  PROVE  Held(P, u, x)
<1> DEFINE q == P[x].after
<1>1. CASE Blocks(P, u, q)
  <2>1. Behind(P, u, {x}) /\ {x} \in SUBSET DOMAIN P
    BY <1>1 DEF Behind
  <2> QED
    BY <2>1 DEF Held
<1>2. CASE \E C \in SUBSET DOMAIN P : q \in C /\ Behind(P, u, C)
  <2>1. PICK C \in SUBSET DOMAIN P : q \in C /\ Behind(P, u, C)
    BY <1>2
  <2>2. Behind(P, u, C \cup {x}) /\ C \cup {x} \in SUBSET DOMAIN P /\ x \in C \cup {x}
    BY <2>1 DEF Behind
  <2> HIDE DEF q
  <2> QED
    BY <2>2 DEF Held
<1> QED
  BY <1>1, <1>2 DEF Held

OfView(s, x, v) == [s EXCEPT !.promises[x].v = v]
InChain(s, x, v, w) ==
    [s EXCEPT !.promises[x].st = "chain", !.promises[x].after = s.lock[v],
              !.lock = [@ EXCEPT ![v] = x, ![w] = x]]

LEMMA OfViewSound ==
  ASSUME NEW s, Sound(s), NEW x, Free(s, x), NEW v \in Views
  PROVE  LET t == OfView(s, x, v)
         IN  /\ Sound(t) /\ Free(t, x) /\ t.promises[x].w = s.promises[x].w
             /\ t.promises[x].v = v
<1> DEFINE t == OfView(s, x, v)
           P == s.promises
           r == [P[x] EXCEPT !.v = v]
           Q == [P EXCEPT ![x] = r]
<1>1. s \in Pages /\ Formed(s) /\ Marked(s, {}) /\ Sound(s)
  BY DEF Sound, Apart, Based, Formed
<1>2. /\ x \in DOMAIN P /\ P[x].st \in {"call", "chain"}
      /\ P[x].st = "chain" => P[P[x].after].st = "done"
      /\ \A u \in Views : s.lock[u] # x /\ (Blocks(P, u, x) => s.lock[u] = 0)
  BY DEF Free
<1>3. P \in Seq(Promises) /\ P[x] \in Promises /\ x \in Nat
  BY <1>1, <1>2, FieldTypes, PromiseTypes
<1>4. /\ r \in Promises /\ r.v = v /\ r.w = P[x].w /\ r.st = P[x].st
      /\ r.after = P[x].after /\ r.skip = P[x].skip
  BY <1>3 DEF Promises
<1>5. t = [s EXCEPT !.promises = Q]
  BY DEF OfView
<1> HIDE DEF r
<1>6. /\ Q \in Seq(Promises) /\ DOMAIN Q = DOMAIN P /\ Q[x] = r
      /\ \A p \in DOMAIN P \ {x} : Q[p] = P[p]
  BY <1>2, <1>3, <1>4
<1> HIDE DEF t, Q
<1>7. /\ t \in Pages /\ t.promises = Q /\ t.body = s.body /\ t.cls = s.cls
      /\ t.modal = s.modal /\ t.boxes = s.boxes /\ t.lost = s.lost /\ t.lock = s.lock
      /\ t.frames = s.frames
  BY <1>1, <1>5, <1>6 DEF Pages
<1>8. ~In(s, Mark(x))
  BY <1>1, <1>2, <1>3 DEF Marked
<1>9. \A u : Blocks(P, u, x) <=> Blocks(Q, u, x)
  BY <1>4, <1>6 DEF Blocks, Active
<1>10. P[x].st = "chain" => P[x].after \in DOMAIN P
  BY <1>1, <1>2 DEF Formed
<1>11. Moves(s, t, x)
  BY <1>2, <1>4, <1>6, <1>7, <1>8, <1>9, <1>10 DEF Moves
<1>12. Rewrites(s, t, x)
  BY <1>6, <1>7 DEF Rewrites
<1>13. Sound(t)
  BY <1>1, <1>2, <1>4, <1>6, <1>7, <1>11, <1>12, RewrittenSound
<1>14. Free(t, x)
  <2>1. Q[x].st = "chain" => Q[Q[x].after].st = "done"
    BY <1>2, <1>4, <1>6, <1>10
  <2> QED
    BY <1>2, <1>4, <1>6, <1>7, <1>9, <2>1 DEF Free
<1> QED
  BY <1>4, <1>6, <1>7, <1>13, <1>14 DEF t

LEMMA InChainSound ==
  ASSUME NEW s, Sound(s), NEW x, Free(s, x), NEW v \in Views, NEW w, w = s.promises[x].w,
         s.lock[v] # 0
  PROVE  Sound(InChain(s, x, v, w))
<1> DEFINE t == InChain(s, x, v, w)
           P == s.promises
           r == [P[x] EXCEPT !.st = "chain", !.after = s.lock[v]]
           Q == [P EXCEPT ![x] = r]
           l == [s.lock EXCEPT ![v] = x, ![w] = x]
<1>1. s \in Pages /\ Formed(s) /\ Marked(s, {}) /\ Locked(s, {}) /\ Sound(s)
  BY DEF Sound, Apart, Based, Formed
<1>2. /\ x \in DOMAIN P /\ P[x].st \in {"call", "chain"}
      /\ P[x].st = "chain" => P[P[x].after].st = "done"
      /\ \A u \in Views : s.lock[u] # x /\ (Blocks(P, u, x) => s.lock[u] = 0)
  BY DEF Free
<1>3. /\ P \in Seq(Promises) /\ P[x] \in Promises /\ x \in Nat /\ w \in Views
      /\ s.lock \in [Views -> Nat] /\ s.lock[v] \in Nat
  BY <1>1, <1>2, FieldTypes, PromiseTypes
<1>4. /\ r \in Promises /\ r.v = P[x].v /\ r.w = w /\ r.st = "chain"
      /\ r.after = s.lock[v] /\ r.skip = P[x].skip
  BY <1>3 DEF Promises, States
<1>5. t = [s EXCEPT !.promises = Q, !.lock = l]
  BY <1>1, <1>2, <1>3 DEF InChain, Pages
<1> HIDE DEF r
<1>6. /\ Q \in Seq(Promises) /\ DOMAIN Q = DOMAIN P /\ Q[x] = r
      /\ \A p \in DOMAIN P \ {x} : Q[p] = P[p]
  BY <1>2, <1>3, <1>4
<1>7. /\ l \in [Views -> Nat] /\ l[v] = x /\ l[w] = x
      /\ \A u \in Views \ {v, w} : l[u] = s.lock[u]
  BY <1>3
<1> HIDE DEF t, Q, l
<1>8. /\ t \in Pages /\ t.promises = Q /\ t.body = s.body /\ t.cls = s.cls
      /\ t.modal = s.modal /\ t.boxes = s.boxes /\ t.lost = s.lost /\ t.lock = l
      /\ t.frames = s.frames
  BY <1>1, <1>5, <1>6, <1>7 DEF Pages
<1>9. ~In(s, Mark(x))
  BY <1>1, <1>2, <1>3 DEF Marked
<1>10. \A u : Blocks(P, u, x) => Blocks(Q, u, x)
  BY <1>2, <1>4, <1>6 DEF Blocks, Active
<1>11. Held(P, v, s.lock[v]) /\ s.lock[v] \in DOMAIN P /\ s.lock[v] # x
  <2>1. Held(P, v, s.lock[v])
    BY <1>1 DEF Locked
  <2> QED
    BY <1>2, <2>1, HeldBySomeone
<1>12. Held(Q, v, x) /\ Held(Q, w, x)
  <2>1. P[x].st = "chain" => P[x].after \in DOMAIN P
    BY <1>1, <1>2 DEF Formed
  <2>2. Held(Q, v, s.lock[v])
    <3>1. DOMAIN P \subseteq DOMAIN Q /\ \A p \in DOMAIN P \ {x} : Q[p] = P[p]
      BY <1>6
    <3>2. x \in DOMAIN P => /\ P[x].st # "failed"
                            /\ P[x].st = "chain" => /\ P[x].after \in DOMAIN P
                                                    /\ P[P[x].after].st = "done"
      BY <1>2, <2>1
    <3>3. (Blocks(P, v, x) => Blocks(Q, v, x)) /\ s.lock[v] # x /\ Held(P, v, s.lock[v])
      BY <1>10, <1>11
    <3> QED
      BY <3>1, <3>2, <3>3, HeldOn
  <2>3. x \in DOMAIN Q /\ Q[x].st = "chain" /\ Q[x].after = s.lock[v]
    BY <1>2, <1>4, <1>6
  <2>4. Held(Q, v, x)
    BY <2>2, <2>3, HeldChain
  <2>5. Blocks(Q, w, x)
    BY <1>4, <1>6, <2>3 DEF Blocks, Active
  <2> QED
    BY <2>4, <2>5 DEF Held
<1>13. \A u \in Views : t.lock[u] # 0 =>
         \/ t.lock[u] = x /\ Held(Q, u, x)
         \/ /\ t.lock[u] # x /\ t.lock[u] = s.lock[u]
            /\ Blocks(P, u, x) => Blocks(Q, u, x)
  BY <1>2, <1>7, <1>8, <1>10, <1>12
<1>14. Moves(s, t, x)
  BY <1>2, <1>4, <1>6, <1>8, <1>9, <1>11, <1>13 DEF Moves
<1>15. Rewrites(s, t, x)
  BY <1>6, <1>8 DEF Rewrites
<1>16. Sound(t)
  BY <1>1, <1>2, <1>4, <1>6, <1>8, <1>14, <1>15, RewrittenSound
<1> QED
  BY <1>16 DEF t

LEMMA ReplacedOrChainedSound ==
  ASSUME NEW s, Sound(s), NEW x, Free(s, x), NEW v \in Views, NEW w, w = s.promises[x].w
  PROVE  Sound(ReplacedOrChained(s, x, v, w))
<1> DEFINE t == OfView(s, x, v)
<1>1. Sound(t) /\ Free(t, x) /\ t.promises[x].w = w
  BY OfViewSound
<1>2. t.lock = s.lock
  BY DEF OfView, Sound, Apart, Based, Formed, Pages
<1>3. ReplacedOrChained(s, x, v, w) = IF t.lock[v] = 0 THEN Replaced(t, x)
                                      ELSE InChain(t, x, v, w)
  BY <1>2 DEF ReplacedOrChained, OfView, InChain
<1> HIDE DEF t
<1>4. CASE t.lock[v] = 0
  BY <1>1, <1>3, <1>4, ReplacedSound
<1>5. CASE t.lock[v] # 0
  BY <1>1, <1>3, <1>5, InChainSound
<1> QED
  BY <1>4, <1>5

-----------------------------------------------------------------------------
(* The steps *)

LEMMA Became ==
  ASSUME NEW STATE s, s \in Pages, Become(s)
  PROVE  Page' = s
<1>1. s = [body |-> s.body, cls |-> s.cls, modal |-> s.modal, boxes |-> s.boxes,
           lost |-> s.lost, promises |-> s.promises, lock |-> s.lock, frames |-> s.frames]
  BY DEF Pages
<1>2. /\ body' = s.body /\ cls' = s.cls /\ modal' = s.modal /\ boxes' = s.boxes
      /\ lost' = s.lost /\ promises' = s.promises /\ lock' = s.lock /\ frames' = s.frames
  BY DEF Become
<1> QED
  BY <1>1, <1>2 DEF Page

LEMMA BecameSound ==
  ASSUME NEW STATE s, Sound(s), Become(s)
  PROVE  Sound(Page)'
<1>1. s \in Pages
  BY DEF Sound, Apart, Based, Formed
<1>2. Page' = s
  BY <1>1, Became
<1> QED
  BY <1>2

LEMMA PageFields ==
  /\ Page.body = body /\ Page.cls = cls /\ Page.modal = modal /\ Page.boxes = boxes
  /\ Page.lost = lost /\ Page.promises = promises /\ Page.lock = lock /\ Page.frames = frames
BY DEF Page

LEMMA SoundInit ==
  ASSUME Init
  PROVE  Sound(Page)
<1> USE PageAssumption DEF Init
<1> DEFINE s == Page
<1>1. /\ s.body = [i \in DOMAIN Present |-> Root(Present[i])] /\ s.boxes = 0 /\ s.lost = {}
      /\ s.cls = [v \in Views |-> IF v \in Opening THEN {"open"} ELSE {}]
      /\ s.modal = [v \in Views |-> 0] /\ s.promises = <<>> /\ s.lock = [v \in Views |-> 0]
      /\ s.frames = <<>>
  BY PageFields
<1>2. body \in Seq(Elements) /\ IsInjective(body) /\ \A e \in ToSet(body) : \E v \in Views : e = Root(v)
  <2>1. Present \in Seq(Views) /\ DOMAIN Present = 1 .. Len(Present)
    OBVIOUS
  <2>2. \A i \in DOMAIN Present : body[i] = Root(Present[i]) /\ Present[i] \in Views
    BY <2>1
  <2>3. \A i \in DOMAIN Present : body[i] \in Elements
    BY <2>2 DEF Elements
  <2>4. body \in Seq(Elements) /\ DOMAIN body = DOMAIN Present
    BY <2>1, <2>3
  <2>5. IsInjective(body)
    BY <2>2, <2>4, Distinct DEF IsInjective
  <2> QED
    BY <2>2, <2>4, <2>5 DEF ToSet
<1>3. s \in Pages
  BY <1>2 DEF Pages, Page
<1>4. \A e : In(s, e) => \E v \in Views : e = Root(v)
  BY <1>1, <1>2 DEF In
<1>5. DOMAIN s.promises = {} /\ DOMAIN s.frames = {}
  BY <1>1
<1> HIDE DEF s
<1>6. Formed(s)
  BY <1>1, <1>2, <1>3, <1>4, <1>5, Distinct DEF Formed
<1>7. Awaited(s, {}) /\ Locked(s, {})
  BY <1>1, <1>5 DEF Awaited, Locked
<1>8. Marked(s, {}) /\ Boxed(s, {})
  BY <1>1, <1>4, Distinct DEF Marked, Boxed
<1>9. Styled(s, {})
  BY <1>1 DEF Styled, Neat
<1> QED
  BY <1>6, <1>7, <1>8, <1>9 DEF Sound, Apart, Based, s

\* A promise just made.
Fresh(s, n, v, w, skip) ==
    /\ n \in DOMAIN s.promises
    /\ s.promises[n] = [st |-> "call", v |-> v, w |-> w, after |-> 0, skip |-> skip]
    /\ \A u \in Views : s.lock[u] # n
    /\ ~In(s, Mark(n))
    /\ \A i \in DOMAIN s.frames : s.frames[i].do = "close" => s.frames[i].of # n

LEMMA PromisedFresh ==
  ASSUME NEW s, Sound(s), NEW v \in Views, NEW w \in Views, NEW skip \in BOOLEAN
  PROVE  LET t == Promised(s, v, w, skip)
         IN  Sound(t) /\ Fresh(t, Len(s.promises) + 1, v, w, skip)
<1> DEFINE t == Promised(s, v, w, skip)
           n == Len(s.promises) + 1
<1>1. s \in Pages /\ Awaited(s, {}) /\ Locked(s, {}) /\ Marked(s, {}) /\ Apart(s, {}, {})
  BY DEF Sound, Apart, Based, Formed
<1>2. Makes(s, t, n, [st |-> "call", v |-> v, w |-> w, after |-> 0, skip |-> skip])
  BY <1>1, PromisedIs
<1>3. Sound(t)
  BY <1>1, PromisedApart DEF Sound
<1> HIDE DEF t, n
<1>4. /\ t.body = s.body /\ t.lock = s.lock /\ t.frames = s.frames
      /\ n \in Nat \ {0} /\ n \notin DOMAIN s.promises /\ n \in DOMAIN t.promises
      /\ t.promises[n] = [st |-> "call", v |-> v, w |-> w, after |-> 0, skip |-> skip]
  BY <1>2 DEF Makes
<1>5. \A u \in Views : t.lock[u] # n
  <2> SUFFICES ASSUME NEW u \in Views, t.lock[u] = n PROVE FALSE
    OBVIOUS
  <2>1. Held(s.promises, u, n)
    BY <1>1, <1>4 DEF Locked
  <2> QED
    BY <1>4, <2>1, HeldBySomeone
<1>6. ~In(t, Mark(n))
  BY <1>1, <1>4 DEF Marked, In
<1>7. \A i \in DOMAIN t.frames : t.frames[i].do = "close" => t.frames[i].of # n
  BY <1>1, <1>4 DEF Awaited
<1>8. Fresh(t, n, v, w, skip)
  BY <1>4, <1>5, <1>6, <1>7 DEF Fresh
<1> QED
  BY <1>3, <1>8 DEF t, n

LEMMA OpenSound ==
  ASSUME Sound(Page), NEW v \in Views, Open(v)
  PROVE  Sound(Page)'
<1> DEFINE t == Added(Page, v, <<>>)
<1>1. Based(Page, {}) /\ Boxed(Page, {}) /\ Styled(Page, {})
  BY DEF Sound, Apart
<1>2. Based(t, {})
  BY <1>1, AddedApart
<1>3. Boxed(t, {})
  BY <1>1, AddedApart
<1>4. Styled(t, {})
  BY <1>1, AddedApart
<1>5. Sound(t)
  BY <1>2, <1>3, <1>4 DEF Sound, Apart
<1>6. Become(t)
  BY DEF Open
<1> QED
  BY <1>5, <1>6, BecameSound

LEMMA CloseSound ==
  ASSUME Sound(Page), NEW v \in Views, Close(v)
  PROVE  Sound(Page)'
<1> DEFINE a == Promised(Page, v, v, TRUE)
           n == Len(promises) + 1
           t == Closed(a, n)
<1>1. Sound(a) /\ Fresh(a, n, v, v, TRUE)
  BY PageFields, PromisedFresh
<1>2. Become(t)
  BY DEF Close
<1> HIDE DEF a, n
<1>3. Apart(a, {n}, {})
  <2>1. Apart(a, {} \cup {n}, {} \cup {})
    BY <1>1, Entered DEF Sound, Fresh
  <2>2. {} \cup {n} = {n}
    OBVIOUS
  <2> QED
    BY <2>1, <2>2
<1>4. Ready(a, n) /\ a.promises[n].st # "anim"
  BY <1>1 DEF Ready, Fresh
<1>5. Apart(t, {n} \ {n}, {})
  BY <1>3, <1>4, ClosedApart
<1>6. {n} \ {n} = {}
  OBVIOUS
<1>7. Sound(t)
  BY <1>5, <1>6 DEF Sound
<1> QED
  BY <1>2, <1>7, BecameSound

LEMMA ReplaceSound ==
  ASSUME Sound(Page), NEW v \in Views, NEW w \in Views, NEW skip \in BOOLEAN, Replace(v, w, skip)
  PROVE  Sound(Page)'
<1> DEFINE a == Promised(Page, v, w, skip)
           n == Len(promises) + 1
           t == ReplacedOrChained(a, n, v, w)
<1>1. Sound(a) /\ Fresh(a, n, v, w, skip)
  BY PageFields, PromisedFresh
<1>2. Become(t)
  BY DEF Replace
<1> HIDE DEF a, n
<1>3. Free(a, n) /\ a.promises[n].w = w
  BY <1>1 DEF Free, Fresh, Blocks, Active
<1>4. Sound(t)
  BY <1>1, <1>3, ReplacedOrChainedSound
<1> QED
  BY <1>2, <1>4, BecameSound

LEMMA OpenModalSound ==
  ASSUME Sound(Page), NEW v \in Views, OpenModal(v)
  PROVE  Sound(Page)'
<1> DEFINE s == Page
           n == boxes + 1
           a == [s EXCEPT !.boxes = n, !.modal[v] = n, !.body = Append(@, Box(n))]
           t == Added(a, v, <<>>)
           m == [s.modal EXCEPT ![v] = n]
           b == Append(s.body, Box(n))
<1>1. /\ s \in Pages /\ Formed(s) /\ Awaited(s, {}) /\ Locked(s, {}) /\ Marked(s, {})
      /\ Boxed(s, {}) /\ Styled(s, {})
  BY DEF Sound, Apart, Based, Formed
<1>2. s.modal[v] = 0 /\ n = s.boxes + 1 /\ Become(t)
  BY PageFields DEF OpenModal
<1>3. a = [s EXCEPT !.boxes = n, !.modal = m, !.body = b]
  OBVIOUS
<1> HIDE DEF s, n
<1>4. /\ s.boxes \in Nat /\ n \in Nat /\ s.body \in Seq(Elements) /\ IsInjective(s.body)
      /\ s.modal \in [Views -> Nat]
  BY <1>1, <1>2, FieldTypes DEF Formed
<1>5. Box(n) \in Elements /\ Box(n) \notin ToSet(s.body)
  BY <1>1, <1>2, <1>4 DEF Formed, In, Elements
<1>6. b \in Seq(Elements) /\ IsInjective(b) /\ ToSet(b) = ToSet(s.body) \cup {Box(n)}
  BY <1>4, <1>5, PutLast
<1>7. m \in [Views -> Nat] /\ m[v] = n /\ \A u \in Views \ {v} : m[u] = s.modal[u]
  BY <1>4
<1> HIDE DEF a, b, m
<1>8. /\ a \in Pages /\ a.body = b /\ a.modal = m /\ a.boxes = n /\ a.cls = s.cls
      /\ a.lost = s.lost /\ a.promises = s.promises /\ a.lock = s.lock /\ a.frames = s.frames
  BY <1>1, <1>3, <1>4, <1>6, <1>7 DEF Pages
<1>9. /\ \A e : In(a, e) <=> In(s, e) \/ e = Box(n)
      /\ \A p \in Nat : In(a, Mark(p)) <=> In(s, Mark(p))
      /\ \A u \in Views : In(a, Root(u)) <=> In(s, Root(u))
      /\ \A k \in Nat : In(a, Box(k)) <=> In(s, Box(k)) \/ k = n
  <2>1. \A e : In(a, e) <=> In(s, e) \/ e = Box(n)
    BY <1>6, <1>8 DEF In
  <2> QED
    BY <1>4, <2>1, Distinct
<1>10. Based(a, {})
  <2>1. \A u \in Views : s.modal[u] <= s.boxes /\ s.modal[u] \in Nat
    BY <1>1, <1>4 DEF Formed
  <2>2. \A u \in Views : a.modal[u] <= a.boxes
    BY <1>2, <1>4, <1>7, <1>8, <2>1
  <2>3. \A k \in Nat : In(a, Box(k)) => k \in 1 .. a.boxes
    BY <1>1, <1>2, <1>4, <1>8, <1>9 DEF Formed
  <2>4. Formed(a)
    BY <1>1, <1>6, <1>8, <2>2, <2>3 DEF Formed
  <2>5. Awaited(a, {}) /\ Locked(a, {}) /\ Marked(a, {})
    BY <1>1, <1>8, <1>9 DEF Awaited, Locked, Marked
  <2> QED
    BY <2>4, <2>5 DEF Based
<1>11. Styled(a, {})
  <2>1. \A u \in Views : Opens(s, u) => Opens(a, u)
    BY <1>8 DEF Opens
  <2> QED
    BY <1>1, <1>8, <1>9, <2>1, StyledOn
<1>12. Based(t, {})
  BY <1>10, AddedApart
<1>13. Styled(t, {})
  BY <1>10, <1>11, AddedApart
<1>14. /\ \A e : In(t, e) <=> In(a, e) \/ e = Root(v)
       /\ t.promises = a.promises /\ t.modal = a.modal /\ t.boxes = a.boxes /\ t.lost = a.lost
  <2>1. \A e : In(t, e) <=> In(a, e) \/ e = Root(v)
    BY <1>10, AddedApart
  <2> QED
    BY <1>10, <2>1, AddedApart
<1> HIDE DEF t
<1>15. Boxed(t, {})
  <2> SUFFICES ASSUME ~HasFailed(t.promises), NEW k \in 1 .. t.boxes, In(t, Box(k))
               PROVE  Owned(t, {}, k)
    BY DEF Boxed
  <2>1. k \in Nat /\ k # 0 /\ In(a, Box(k))
    BY <1>4, <1>8, <1>14, Distinct
  <2>2. CASE k = n
    <3>1. t.modal[v] = k /\ In(t, Root(v))
      BY <1>7, <1>8, <1>14, <2>2
    <3> QED
      BY <3>1 DEF Owned
  <2>3. CASE k # n
    <3>1. In(s, Box(k)) /\ k \in 1 .. s.boxes
      BY <1>1, <1>9, <2>1, <2>3 DEF Formed
    <3>2. Owned(s, {}, k)
      BY <1>1, <1>8, <1>14, <3>1 DEF Boxed
    <3>3. \A u \in Views : s.modal[u] = k => t.modal[u] = k
      BY <1>2, <1>7, <1>8, <1>14, <2>1
    <3>4. \A u : Coming(s, {}, u) => Coming(t, {}, u)
      BY <1>8, <1>14 DEF Coming, Comes
    <3> QED
      BY <1>8, <1>9, <1>14, <3>2, <3>3, <3>4 DEF Owned
  <2> QED
    BY <2>2, <2>3
<1>16. Sound(t)
  BY <1>12, <1>13, <1>15 DEF Sound, Apart
<1> QED
  BY <1>2, <1>16, BecameSound

LEMMA ClearSound ==
  ASSUME Sound(Page), ClearContent
  PROVE  Sound(Page)'
<1> DEFINE s == Page
           b == <<>>
           t == [s EXCEPT !.body = b]
<1>0. b \in Seq(Elements) /\ IsInjective(b) /\ ToSet(b) = {}
  BY DEF IsInjective, ToSet
<1>1. s \in Pages /\ Formed(s) /\ Based(s, {}) /\ Become(t)
  BY DEF Sound, Apart, Based, Formed, ClearContent
<1> HIDE DEF s, b
<1>2. /\ t \in Pages /\ t.body = b /\ t.cls = s.cls /\ t.modal = s.modal
      /\ t.boxes = s.boxes /\ t.promises = s.promises /\ t.lock = s.lock /\ t.frames = s.frames
  BY <1>0, <1>1 DEF Pages
<1> HIDE DEF t
<1>3. \A e : ~In(t, e)
  BY <1>0, <1>2 DEF In
<1>4. Based(t, {})
  <2>1. IsInjective(t.body) /\ \A e : e \notin ToSet(t.body)
    BY <1>0, <1>2
  <2>2. \A v \in Views : t.modal[v] <= t.boxes
    BY <1>1, <1>2 DEF Formed
  <2> QED
    BY <1>1, <1>2, <2>1, <2>2, BasedOn
<1>5. Sound(t)
  BY <1>3, <1>4 DEF Sound, Apart, Boxed, Styled
<1> QED
  BY <1>1, <1>5, BecameSound

-----------------------------------------------------------------------------
(* Frames, the ends of animations and of promises *)

\* What an animation waits for may come.
LEMMA WaitingReady ==
  ASSUME NEW s, Sound(s), NEW x \in DOMAIN s.promises, s.promises[x].st \in {"frame", "anim"}
  PROVE  Ready(s, x)
<1>1. s \in Pages /\ Formed(s) /\ Locked(s, {}) /\ Marked(s, {})
  BY DEF Sound, Apart, Based, Formed
<1>2. x \in Nat /\ x # 0
  BY <1>1, FieldTypes, PromiseTypes
<1>3. \A u \in Views : s.lock[u] = x => u = s.promises[x].w /\ ~s.promises[x].skip
  BY <1>1, <1>2 DEF Locked, Held, Blocks, Behind, Active
<1>4. s.promises[x].skip => s.promises[x].w = s.promises[x].v /\ ~In(s, Mark(x))
  BY <1>1, <1>2 DEF Formed, Marked
<1> QED
  BY <1>3, <1>4 DEF Ready

Tailed(s) == [s EXCEPT !.frames = Tail(@)]

LEMMA TailedIs ==
  ASSUME NEW s \in Pages, s.frames # <<>>
  PROVE  LET t == Tailed(s)
         IN  /\ t \in Pages /\ t.body = s.body /\ t.cls = s.cls /\ t.modal = s.modal
             /\ t.boxes = s.boxes /\ t.lost = s.lost /\ t.promises = s.promises
             /\ t.lock = s.lock
             /\ 1 \in DOMAIN s.frames /\ Head(s.frames) = s.frames[1] /\ s.frames[1] \in Frames
             /\ \A i \in DOMAIN t.frames :
                   i # 0 /\ i + 1 \in DOMAIN s.frames /\ t.frames[i] = s.frames[i + 1]
             /\ \A i \in DOMAIN s.frames \ {1} :
                   i - 1 \in DOMAIN t.frames /\ t.frames[i - 1] = s.frames[i]
<1> DEFINE t == Tailed(s)
           frs == Tail(s.frames)
<1>1. s.frames \in Seq(Frames)
  BY FieldTypes
<1>2. /\ frs \in Seq(Frames) /\ 1 \in DOMAIN s.frames
      /\ Head(s.frames) = s.frames[1] /\ s.frames[1] \in Frames
      /\ \A i \in DOMAIN frs : i # 0 /\ i + 1 \in DOMAIN s.frames /\ frs[i] = s.frames[i + 1]
      /\ \A i \in DOMAIN s.frames \ {1} : i - 1 \in DOMAIN frs /\ frs[i - 1] = s.frames[i]
  BY <1>1
<1>3. t = [s EXCEPT !.frames = frs]
  BY DEF Tailed
<1> HIDE DEF t, frs
<1>4. /\ t \in Pages /\ t.body = s.body /\ t.cls = s.cls /\ t.modal = s.modal
      /\ t.boxes = s.boxes /\ t.lost = s.lost /\ t.promises = s.promises
      /\ t.lock = s.lock /\ t.frames = frs
  BY <1>2, <1>3 DEF Pages
<1> QED
  BY <1>2, <1>4 DEF t

\* The first frame is over; what it is about is done elsewhere.
LEMMA TailedBased ==
  ASSUME NEW s, Sound(s), s.frames # <<>>, NEW f, f = Head(s.frames)
  PROVE  LET t == Tailed(s)
         IN  /\ Based(t, {}) /\ Boxed(t, {})
             /\ \A u \in Views : Opens(s, u) => Opens(t, u) \/ (f.do = "open" /\ f.of = u)
             /\ f.do = "open" => f.of \in Opening
             /\ f.do = "close" => /\ f.of \in DOMAIN s.promises
                                  /\ s.promises[f.of].st = "frame"
                                  /\ \A i \in DOMAIN t.frames :
                                        t.frames[i].do = "close" => t.frames[i].of # f.of
             /\ f.do \in {"open", "close"}
<1> DEFINE t == Tailed(s)
<1>1. /\ s \in Pages /\ Formed(s) /\ Awaited(s, {}) /\ Locked(s, {}) /\ Marked(s, {})
      /\ Boxed(s, {})
  BY DEF Sound, Apart, Based, Formed
<1>2. /\ t \in Pages /\ t.body = s.body /\ t.cls = s.cls /\ t.modal = s.modal
      /\ t.boxes = s.boxes /\ t.lost = s.lost /\ t.promises = s.promises
      /\ t.lock = s.lock
      /\ 1 \in DOMAIN s.frames /\ f = s.frames[1] /\ f \in Frames
      /\ \A i \in DOMAIN t.frames :
            i # 0 /\ i + 1 \in DOMAIN s.frames /\ t.frames[i] = s.frames[i + 1]
      /\ \A i \in DOMAIN s.frames \ {1} :
            i - 1 \in DOMAIN t.frames /\ t.frames[i - 1] = s.frames[i]
  BY <1>1, TailedIs
<1>3. t.frames \in Seq(Frames)
  BY <1>2, FieldTypes
<1> HIDE DEF t
<1>4. \A i \in DOMAIN t.frames : i \in Nat /\ i # 0
  BY <1>2, <1>3
<1>5. \A e : In(t, e) <=> In(s, e)
  BY <1>2 DEF In
<1>6. Formed(t) /\ Locked(t, {}) /\ Marked(t, {})
  BY <1>1, <1>2, <1>5 DEF Formed, Locked, Marked
<1>7. Awaited(t, {})
  <2>1. \A i \in DOMAIN t.frames : t.frames[i].do = "close" =>
          /\ t.frames[i].of \in DOMAIN t.promises \ {}
          /\ t.promises[t.frames[i].of].st = "frame"
    BY <1>1, <1>2 DEF Awaited
  <2>2. ASSUME NEW i \in DOMAIN t.frames, NEW j \in DOMAIN t.frames,
               t.frames[i].do = "close", t.frames[j].do = "close",
               t.frames[i].of = t.frames[j].of
        PROVE  i = j
    <3>1. i + 1 = j + 1
      BY <1>1, <1>2, <2>2 DEF Awaited
    <3> QED
      BY <1>4, <3>1
  <2> QED
    BY <2>1, <2>2 DEF Awaited
<1>8. Boxed(t, {})
  BY <1>1, <1>2, <1>5, BoxedOn
<1>9. \A u \in Views : Opens(s, u) => Opens(t, u) \/ (f.do = "open" /\ f.of = u)
  BY <1>2 DEF Opens
<1>10. f.do \in {"open", "close"} /\ (f.do = "open" => f.of \in Opening)
  BY <1>2 DEF Frames
<1>11. ASSUME f.do = "close"
       PROVE  /\ f.of \in DOMAIN s.promises
              /\ s.promises[f.of].st = "frame"
              /\ \A i \in DOMAIN t.frames : t.frames[i].do = "close" => t.frames[i].of # f.of
  <2>1. f.of \in DOMAIN s.promises /\ s.promises[f.of].st = "frame"
    BY <1>1, <1>2, <1>11 DEF Awaited
  <2>2. ASSUME NEW i \in DOMAIN t.frames, t.frames[i].do = "close", t.frames[i].of = f.of
        PROVE  FALSE
    <3>1. i + 1 = 1
      BY <1>1, <1>2, <1>11, <2>2 DEF Awaited
    <3> QED
      BY <1>4, <3>1
  <2> QED
    BY <2>1, <2>2
<1> QED
  BY <1>2, <1>6, <1>7, <1>8, <1>9, <1>10, <1>11 DEF Based, t

Reclassed(s, v, c) == [s EXCEPT !.cls[v] = c]

LEMMA ReclassedBased ==
  ASSUME NEW s, Based(s, {}), Boxed(s, {}), NEW v \in Views, NEW c \in SUBSET {"open", "close"},
         "open" \in c => v \in Opening, "close" \in c => v \in Closing
  PROVE  LET t == Reclassed(s, v, c)
         IN  /\ Based(t, {}) /\ Boxed(t, {})
             /\ t.cls[v] = c /\ \A u \in Views \ {v} : t.cls[u] = s.cls[u]
             /\ t.body = s.body /\ t.modal = s.modal /\ t.boxes = s.boxes /\ t.lost = s.lost
             /\ t.promises = s.promises /\ t.lock = s.lock /\ t.frames = s.frames
<1> DEFINE t == Reclassed(s, v, c)
           l == [s.cls EXCEPT ![v] = c]
<1>1. s \in Pages /\ Formed(s) /\ Awaited(s, {}) /\ Locked(s, {}) /\ Marked(s, {})
  BY DEF Based, Formed
<1>2. /\ l \in [Views -> SUBSET {"open", "close"}] /\ l[v] = c
      /\ \A u \in Views \ {v} : l[u] = s.cls[u]
  <2>1. s.cls \in [Views -> SUBSET {"open", "close"}]
    BY <1>1, FieldTypes
  <2> QED
    BY <2>1
<1>3. t = [s EXCEPT !.cls = l]
  BY DEF Reclassed
<1> HIDE DEF t, l
<1>4. /\ t \in Pages /\ t.cls = l
      /\ t.body = s.body /\ t.modal = s.modal /\ t.boxes = s.boxes /\ t.lost = s.lost
      /\ t.promises = s.promises /\ t.lock = s.lock /\ t.frames = s.frames
  BY <1>1, <1>2, <1>3 DEF Pages
<1>5. \A e : In(t, e) <=> In(s, e)
  BY <1>4 DEF In
<1>6. Formed(t)
  <2>1. \A u \in Views : /\ "open" \in t.cls[u] => u \in Opening
                         /\ "close" \in t.cls[u] => u \in Closing
    BY <1>1, <1>2, <1>4 DEF Formed
  <2> QED
    BY <1>1, <1>4, <1>5, <2>1 DEF Formed
<1>7. Awaited(t, {}) /\ Locked(t, {}) /\ Marked(t, {})
  BY <1>1, <1>4, <1>5 DEF Awaited, Locked, Marked
<1>8. Boxed(t, {})
  BY <1>4, <1>5, BoxedOn
<1> QED
  BY <1>2, <1>4, <1>6, <1>7, <1>8 DEF Based, t

LEMMA FrameOpens ==
  ASSUME Sound(Page), frames # <<>>, NEW f, f = Head(frames), f.do = "open"
  PROVE  LET s == Tailed(Page)
         IN  Sound(Reclassed(s, f.of, s.cls[f.of] \cup {"open"}))
<1> DEFINE s == Tailed(Page)
           c == s.cls[f.of] \cup {"open"}
           t == Reclassed(s, f.of, c)
<1>1. /\ Based(s, {}) /\ Boxed(s, {})
      /\ \A u \in Views : Opens(Page, u) => Opens(s, u) \/ f.of = u
      /\ f.of \in Opening
  <2>1. f = Head(Page.frames) /\ Page.frames # <<>>
    BY PageFields
  <2>2. Based(s, {}) /\ Boxed(s, {})
    BY <2>1, TailedBased
  <2>3. \A u \in Views : Opens(Page, u) => Opens(s, u) \/ f.of = u
    BY <2>1, TailedBased
  <2> QED
    BY <2>1, <2>2, <2>3, TailedBased
<1>2. s.promises = Page.promises /\ s.cls = Page.cls /\ s.body = Page.body
  <2>1. Page \in Pages /\ Page.frames # <<>>
    BY PageFields DEF Sound, Apart, Based, Formed
  <2> QED
    BY <2>1, TailedIs
<1>3. /\ f.of \in Views /\ c \in SUBSET {"open", "close"}
      /\ "open" \in c /\ ("close" \in c => f.of \in Closing)
      /\ "close" \in c <=> "close" \in s.cls[f.of]
  <2>1. f.of \in Views
    BY <1>1, PageAssumption
  <2>2. s.cls \in [Views -> SUBSET {"open", "close"}]
    BY <1>1, FieldTypes DEF Based, Formed
  <2> QED
    BY <1>1, <2>1, <2>2 DEF Based, Formed
<1> HIDE DEF s, c
<1>4. /\ Based(t, {}) /\ Boxed(t, {})
      /\ t.cls[f.of] = c /\ \A u \in Views \ {f.of} : t.cls[u] = s.cls[u]
      /\ t.body = s.body /\ t.promises = s.promises /\ t.frames = s.frames
  <2> DEFINE v == f.of
  <2>1. v \in Views /\ ("open" \in c => v \in Opening) /\ ("close" \in c => v \in Closing)
    BY <1>1, <1>3
  <2> HIDE DEF v
  <2>2. LET b == Reclassed(s, v, c)
        IN  /\ Based(b, {}) /\ Boxed(b, {})
            /\ b.cls[v] = c /\ \A u \in Views \ {v} : b.cls[u] = s.cls[u]
            /\ b.body = s.body /\ b.promises = s.promises /\ b.frames = s.frames
    BY <1>1, <1>3, <2>1, ReclassedBased
  <2> QED
    BY <2>2 DEF v
<1> HIDE DEF t
<1>5. Styled(t, {})
  <2> SUFFICES ASSUME ~HasFailed(t.promises), NEW u \in Views, In(t, Root(u))
               PROVE  Neat(t, u) \/ Going(t, {}, u)
    BY DEF Styled
  <2>1. Neat(Page, u) \/ Going(Page, {}, u)
    BY <1>2, <1>4 DEF Sound, Apart, Styled, In
  <2>2. Going(Page, {}, u) => Going(t, {}, u)
    BY <1>2, <1>4 DEF Going, Goes
  <2>3. Opens(s, u) => Opens(t, u)
    BY <1>4 DEF Opens
  <2>4. CASE u = f.of
    <3>1. Neat(Page, u) => Neat(t, u)
      BY <1>2, <1>3, <1>4, <2>4 DEF Neat
    <3> QED
      BY <2>1, <2>2, <3>1
  <2>5. CASE u # f.of
    <3>1. Neat(Page, u) => Neat(t, u)
      BY <1>1, <1>2, <1>4, <2>3, <2>5 DEF Neat
    <3> QED
      BY <2>1, <2>2, <3>1
  <2> QED
    BY <2>4, <2>5
<1>6. Sound(t)
  BY <1>4, <1>5 DEF Sound, Apart
<1> QED
  BY <1>6 DEF t, s, c

\* A view begins to close.
ToClose(s, v) ==
    Reclassed(s, v, (s.cls[v] \ (IF v \in Opening THEN {"open"} ELSE {})) \cup {"close"})

LEMMA FrameCloses ==
  ASSUME Sound(Page), frames # <<>>, NEW f, f = Head(frames), f.do = "close",
         NEW x, x = f.of, NEW v, v = promises[x].v
  PROVE  LET t == ToClose(Tailed(Page), v)
         IN  /\ Apart(t, {x}, {x}) /\ Boxed(t, {}) /\ Ready(t, x)
             /\ x \in DOMAIN t.promises /\ t.promises[x].st = "frame"
             /\ t.promises[x].v = v /\ v \in Closing
<1> DEFINE s == Tailed(Page)
           c == (s.cls[v] \ (IF v \in Opening THEN {"open"} ELSE {})) \cup {"close"}
           t == Reclassed(s, v, c)
<1>1. /\ Based(s, {}) /\ Boxed(s, {})
      /\ \A u \in Views : Opens(Page, u) => Opens(s, u)
      /\ x \in DOMAIN promises /\ promises[x].st = "frame"
      /\ \A i \in DOMAIN s.frames : s.frames[i].do = "close" => s.frames[i].of # x
  <2>1. f = Head(Page.frames) /\ Page.frames # <<>> /\ Page.promises = promises
    BY PageFields
  <2>2. Based(s, {}) /\ Boxed(s, {})
    BY <2>1, TailedBased
  <2>3. \A u \in Views : Opens(Page, u) => Opens(s, u)
    BY <2>1, TailedBased
  <2>4. x \in DOMAIN promises /\ promises[x].st = "frame"
    BY <2>1, TailedBased
  <2>5. \A i \in DOMAIN s.frames : s.frames[i].do = "close" => s.frames[i].of # x
    BY <2>1, TailedBased
  <2> QED
    BY <2>2, <2>3, <2>4, <2>5
<1>2. /\ s.promises = promises /\ s.cls = Page.cls /\ s.body = Page.body /\ s.lock = Page.lock
  <2>1. Page \in Pages /\ Page.frames # <<>>
    BY PageFields DEF Sound, Apart, Based, Formed
  <2> QED
    BY <2>1, TailedIs, PageFields
<1>3. v \in Closing /\ v \in Views
  <2>1. v \in Closing
    BY <1>1, <1>2 DEF Based, Formed
  <2> QED
    BY <2>1, PageAssumption
<1>4. c \in SUBSET {"open", "close"} /\ ("open" \in c => v \in Opening)
  <2>1. s.cls[v] \in SUBSET {"open", "close"}
    BY <1>1, <1>3, FieldTypes DEF Based, Formed
  <2>2. "open" \in s.cls[v] => v \in Opening
    BY <1>1, <1>3 DEF Based, Formed
  <2> QED
    BY <2>1, <2>2
<1>5. Ready(Page, x)
  BY <1>1, PageFields, WaitingReady
<1> HIDE DEF s, c
<1>6. /\ Based(t, {}) /\ Boxed(t, {})
      /\ t.cls[v] = c /\ \A u \in Views \ {v} : t.cls[u] = s.cls[u]
      /\ t.body = s.body /\ t.promises = s.promises /\ t.frames = s.frames
      /\ t.lock = s.lock
  BY <1>1, <1>3, <1>4, ReclassedBased
<1> HIDE DEF t
<1>7. Styled(t, {x})
  <2> SUFFICES ASSUME ~HasFailed(t.promises), NEW u \in Views, In(t, Root(u))
               PROVE  Neat(t, u) \/ Going(t, {x}, u)
    BY DEF Styled
  <2>1. Neat(Page, u) \/ Going(Page, {}, u)
    BY <1>2, <1>6, PageFields DEF Sound, Apart, Styled, In
  <2>2. Going(Page, {}, u) => Going(t, {x}, u)
    BY <1>2, <1>6, PageFields DEF Going, Goes
  <2>3. Opens(s, u) => Opens(t, u)
    BY <1>6 DEF Opens
  <2>4. CASE u = v
    BY <1>1, <1>2, <1>6, <2>4 DEF Going, Goes
  <2>5. CASE u # v
    <3>1. Neat(Page, u) => Neat(t, u)
      BY <1>1, <1>2, <1>6, <2>3, <2>5 DEF Neat
    <3> QED
      BY <2>1, <2>2, <3>1
  <2> QED
    BY <2>4, <2>5
<1>8. Apart(t, {x}, {x})
  <2>1. Based(t, {x}) /\ Boxed(t, {x})
    <3>1. \A i \in DOMAIN t.frames : t.frames[i].do = "close" => t.frames[i].of # x
      BY <1>1, <1>6
    <3> QED
      BY <1>6, <3>1 DEF Based, Awaited, Locked, Marked, Boxed, Owned, Coming, Comes
  <2> QED
    BY <1>7, <2>1 DEF Apart
<1>9. Ready(t, x)
  BY <1>2, <1>5, <1>6, PageFields DEF Ready, In
<1>10. ToClose(s, v) = t
  BY DEF ToClose, t, c
<1> QED
  BY <1>1, <1>2, <1>3, <1>6, <1>8, <1>9, <1>10 DEF s

LEMMA AnimatedSound ==
  ASSUME NEW t, NEW x \in DOMAIN t.promises, Apart(t, {x}, {x}), Boxed(t, {}), Ready(t, x),
         t.promises[x].st = "frame", t.promises[x].v \in Closing
  PROVE  Sound(Set(t, x, "anim"))
<1> DEFINE a == Set(t, x, "anim")
           P == t.promises
           Q == a.promises
<1>1. t \in Pages /\ Based(t, {x}) /\ Styled(t, {x})
  BY DEF Apart, Based, Formed
<1>2. /\ a \in Pages /\ a.body = t.body /\ a.cls = t.cls /\ a.modal = t.modal
      /\ a.boxes = t.boxes /\ a.lost = t.lost /\ a.lock = t.lock /\ a.frames = t.frames
      /\ DOMAIN Q = DOMAIN P /\ \A p \in DOMAIN P \ {x} : Q[p] = P[p]
      /\ Q[x].st = "anim" /\ Q[x].v = P[x].v /\ Q[x].w = P[x].w
      /\ Q[x].after = P[x].after /\ Q[x].skip = P[x].skip
  BY <1>1, SetIs DEF States
<1> HIDE DEF a
<1>3. /\ \A u \in Views : t.lock[u] = x => u = P[x].w /\ ~P[x].skip
      /\ P[x].skip => P[x].w = P[x].v /\ ~In(t, Mark(x))
  BY DEF Ready
<1>4. \A u : Blocks(P, u, x) => Blocks(Q, u, x)
  BY <1>2 DEF Blocks, Active
<1>5. \A u \in Views : a.lock[u] = x => Held(Q, u, x)
  BY <1>2, <1>3 DEF Held, Blocks, Active
<1>6. Moves(t, a, x)
  BY <1>2, <1>3, <1>4, <1>5 DEF Moves
<1>7. {x} \ {x} = {}
  OBVIOUS
<1>8. Based(a, {})
  <2>1. Based(a, {x} \ {x})
    BY <1>1, <1>6, BasedMoved
  <2> QED
    BY <1>7, <2>1
<1>9. HasFailed(Q) <=> HasFailed(P)
  BY <1>2 DEF HasFailed
<1>10. Boxed(a, {})
  <2>1. \A u : Coming(t, {}, u) => Coming(a, {}, u)
    BY <1>2 DEF Coming, Comes
  <2> QED
    BY <1>2, <1>9, <2>1 DEF Boxed, Owned, In
<1>11. Styled(a, {})
  <2>1. \A u : Going(t, {x}, u) => Going(a, {}, u)
    BY <1>2 DEF Going, Goes
  <2>2. \A u : Neat(t, u) => Neat(a, u)
    BY <1>2 DEF Neat, Opens
  <2> QED
    BY <1>1, <1>2, <1>9, <2>1, <2>2 DEF Styled, In
<1> QED
  BY <1>8, <1>10, <1>11 DEF Sound, Apart, a

LEMMA FrameSound ==
  ASSUME Sound(Page), Frame
  PROVE  Sound(Page)'
<1> DEFINE f == Head(frames)
           s == Tailed(Page)
           v == promises[f.of].v
           t == ToClose(s, v)
           o == Reclassed(s, f.of, s.cls[f.of] \cup {"open"})
<1>1. frames # <<>>
  BY DEF Frame
<1>2. \/ f.do = "open" /\ Become(o)
      \/ f.do = "close" /\ Become(Set(t, f.of, "failed"))
      \/ f.do = "close" /\ Become(Removed(t, f.of))
      \/ f.do = "close" /\ Become(Set(t, f.of, "anim"))
  <2> DEFINE s2 == [Page EXCEPT !.frames = Tail(@)]
             t2 == [s2 EXCEPT !.cls[v] = (@ \ (IF v \in Opening THEN {"open"} ELSE {})) \cup {"close"}]
             o2 == [s2 EXCEPT !.cls[f.of] = @ \cup {"open"}]
  <2>1. s2 = s
    BY DEF Tailed
  <2>2. t2 = t /\ o2 = o
    BY <2>1 DEF ToClose, Reclassed
  <2> HIDE DEF t, o
  <2>3. \/ f.do = "open" /\ Become(o2)
        \/ f.do = "close" /\ Become([t2 EXCEPT !.promises[f.of].st = "failed"])
        \/ f.do = "close" /\ Become(IF AnimationType(v) = "none" THEN Removed(t2, f.of)
                                    ELSE [t2 EXCEPT !.promises[f.of].st = "anim"])
    BY DEF Frame
  <2> HIDE DEF t2, o2
  <2> QED
    BY <2>2, <2>3 DEF Set
<1>3. CASE f.do = "open" /\ Become(o)
  <2>1. Sound(o)
    BY <1>1, <1>3, FrameOpens
  <2> QED
    BY <1>3, <2>1, BecameSound
<1>4. ASSUME f.do = "close"
      PROVE  /\ Apart(t, {f.of}, {f.of}) /\ Boxed(t, {}) /\ Ready(t, f.of)
             /\ f.of \in DOMAIN t.promises /\ t.promises[f.of].st = "frame"
             /\ t.promises[f.of].v \in Closing
  <2> DEFINE x == f.of
  <2>1. /\ Apart(t, {x}, {x}) /\ Boxed(t, {}) /\ Ready(t, x)
        /\ x \in DOMAIN t.promises /\ t.promises[x].st = "frame"
        /\ t.promises[x].v = v /\ v \in Closing
    BY <1>1, <1>4, FrameCloses
  <2> QED
    BY <2>1
<1> HIDE DEF t, f
<1>5. {f.of} \ {f.of} = {}
  OBVIOUS
<1>6. CASE f.do = "close" /\ Become(Set(t, f.of, "failed"))
  <2>1. Apart(Set(t, f.of, "failed"), {f.of} \ {f.of}, {})
    BY <1>4, <1>6, FailedApart DEF Apart
  <2>2. Sound(Set(t, f.of, "failed"))
    BY <1>5, <2>1 DEF Sound
  <2> QED
    BY <1>6, <2>2, BecameSound
<1>7. CASE f.do = "close" /\ Become(Removed(t, f.of))
  <2>1. Apart(Removed(t, f.of), {f.of} \ {f.of}, {f.of} \ {f.of})
    BY <1>4, <1>7, RemovedApart
  <2>2. Sound(Removed(t, f.of))
    BY <1>5, <2>1 DEF Sound
  <2> QED
    BY <1>7, <2>2, BecameSound
<1>8. CASE f.do = "close" /\ Become(Set(t, f.of, "anim"))
  <2>1. Sound(Set(t, f.of, "anim"))
    BY <1>4, <1>8, AnimatedSound
  <2> QED
    BY <1>8, <2>1, BecameSound
<1> QED
  BY <1>2, <1>3, <1>6, <1>7, <1>8

LEMMA FinishSound ==
  ASSUME Sound(Page), NEW x, Finish(x)
  PROVE  Sound(Page)'
<1> DEFINE s == Page
<1>1. x \in DOMAIN s.promises /\ s.promises[x].st = "anim" /\ Become(Removed(s, x))
  BY PageFields DEF Finish, Pending
<1> HIDE DEF s
<1>2. Sound(s)
  BY DEF s
<1>3. Ready(s, x)
  BY <1>1, <1>2, WaitingReady
<1>4. Apart(s, {x}, {x})
  <2>1. \A i \in DOMAIN s.frames : s.frames[i].do = "close" => s.frames[i].of # x
    BY <1>1, <1>2 DEF Sound, Apart, Based, Awaited
  <2>2. Apart(s, {} \cup {x}, {} \cup {x})
    BY <1>2, <2>1, Entered DEF Sound
  <2>3. {} \cup {x} = {x}
    OBVIOUS
  <2> QED
    BY <2>2, <2>3
<1>5. Apart(Removed(s, x), {x} \ {x}, {x} \ {x})
  BY <1>3, <1>4, RemovedApart
<1>6. {x} \ {x} = {}
  OBVIOUS
<1>7. Sound(Removed(s, x))
  BY <1>5, <1>6 DEF Sound
<1>8. Become(Removed(Page, x)) /\ Sound(Removed(Page, x))
  BY <1>1, <1>7 DEF s
<1> QED
  BY <1>8, BecameSound

LEMMA ChainedSound ==
  ASSUME Sound(Page), NEW x, Chained(x)
  PROVE  Sound(Page)'
<1> DEFINE s == Page
           P == s.promises
           w == P[x].w
           l == [s.lock EXCEPT ![w] = 0]
           a == [s EXCEPT !.lock[w] = 0]
<1>1. /\ s \in Pages /\ Formed(s) /\ Based(s, {}) /\ Awaited(s, {}) /\ Locked(s, {})
      /\ Boxed(s, {}) /\ Styled(s, {}) /\ Apart(s, {}, {})
  BY DEF Sound, Apart, Based, Formed
<1>2. /\ x \in DOMAIN P /\ P[x].st = "chain" /\ P[P[x].after].st \in {"done", "failed"}
      /\ \/ P[P[x].after].st = "failed" /\ Become(Set(s, x, "failed"))
         \/ P[P[x].after].st # "failed"
            /\ Become(ReplacedOrChained(a, x, P[P[x].after].w, w))
  BY PageFields DEF Chained, Settling, Pending, Set
<1> HIDE DEF s
<1>3. /\ P \in Seq(Promises) /\ w \in Views /\ x \in Nat /\ x # 0 /\ P[x].after \in DOMAIN P
      /\ P[P[x].after].w \in Views /\ s.lock \in [Views -> Nat]
  <2>1. P \in Seq(Promises) /\ s.lock \in [Views -> Nat] /\ P[x].after \in DOMAIN P
    BY <1>1, <1>2, FieldTypes DEF Formed
  <2> QED
    BY <1>2, <2>1, PromiseTypes
<1>4. CASE P[P[x].after].st = "failed" /\ Become(Set(s, x, "failed"))
  <2>1. Based(s, {x})
    <3>1. \A i \in DOMAIN s.frames : s.frames[i].do = "close" => s.frames[i].of # x
      BY <1>1, <1>2 DEF Awaited
    <3>2. Apart(s, {} \cup {x}, {} \cup {})
      BY <1>1, <3>1, Entered
    <3>3. {} \cup {x} = {x}
      OBVIOUS
    <3> QED
      BY <3>2, <3>3 DEF Apart
  <2>2. Apart(Set(s, x, "failed"), {x} \ {x}, {})
    BY <1>2, <2>1, FailedApart
  <2>3. {x} \ {x} = {}
    OBVIOUS
  <2>4. Sound(Set(s, x, "failed"))
    BY <2>2, <2>3 DEF Sound
  <2>5. Become(Set(Page, x, "failed")) /\ Sound(Set(Page, x, "failed"))
    BY <1>4, <2>4 DEF s
  <2> QED
    BY <2>5, BecameSound
<1>5. CASE /\ P[P[x].after].st # "failed"
           /\ Become(ReplacedOrChained(a, x, P[P[x].after].w, w))
  <2>1. P[P[x].after].st = "done"
    BY <1>2, <1>5
  <2>2. l \in [Views -> Nat] /\ l[w] = 0 /\ \A u \in Views \ {w} : l[u] = s.lock[u]
    BY <1>3
  <2>3. a = [s EXCEPT !.lock = l]
    OBVIOUS
  <2> HIDE DEF l, w
  <2>4. /\ a \in Pages /\ a.lock = l /\ a.body = s.body /\ a.cls = s.cls /\ a.modal = s.modal
        /\ a.boxes = s.boxes /\ a.lost = s.lost /\ a.promises = P /\ a.frames = s.frames
    <3> HIDE DEF a
    <3> QED
      BY <1>1, <2>2, <2>3 DEF Pages
  <2> HIDE DEF a
  <2>5. \A e : In(a, e) <=> In(s, e)
    BY <2>4 DEF In
  <2>6. Based(a, {})
    <3>1. IsInjective(a.body) /\ \A u \in Views : a.modal[u] <= a.boxes
      BY <1>1, <2>4 DEF Formed
    <3>2. \A u \in Views : a.lock[u] \in {0, s.lock[u]}
      BY <2>2, <2>4
    <3> QED
      BY <1>1, <2>4, <3>1, <3>2, BasedOn
  <2>7. Boxed(a, {})
    BY <1>1, <2>4, <2>5, BoxedOn
  <2>8. Styled(a, {})
    <3>1. \A u \in Views : Opens(s, u) => Opens(a, u)
      BY <2>4 DEF Opens
    <3> QED
      BY <1>1, <2>4, <2>5, <3>1, StyledOn
  <2>9. Sound(a)
    BY <2>6, <2>7, <2>8 DEF Sound, Apart
  <2>10. \A u \in Views : Blocks(P, u, x) => u = w
    BY DEF Blocks, w
  <2>11. \A u \in Views : a.lock[u] # x
    <3> SUFFICES ASSUME NEW u \in Views, a.lock[u] = x PROVE FALSE
      OBVIOUS
    <3>1. u # w /\ s.lock[u] = x
      BY <1>3, <2>2, <2>4
    <3>2. Held(P, u, x)
      BY <1>1, <1>3, <3>1 DEF Locked
    <3>3. ~Blocks(P, u, x)
      BY <2>10, <3>1
    <3>4. PICK C \in SUBSET DOMAIN P : x \in C /\ Behind(P, u, C)
      BY <3>2, <3>3 DEF Held
    <3>5. P[x].after \in C \/ Blocks(P, u, P[x].after)
      BY <1>2, <3>4 DEF Behind
    <3> QED
      BY <2>1, <3>4, <3>5 DEF Behind, Blocks, Active
  <2>12. Free(a, x) /\ a.promises[x].w = w
    <3>1. x \in DOMAIN a.promises /\ a.promises[x].st = "chain" /\ a.promises[x].w = w
          /\ a.promises[a.promises[x].after].st = "done"
      BY <1>2, <2>1, <2>4 DEF w
    <3>2. \A u \in Views : Blocks(a.promises, u, x) => a.lock[u] = 0
      BY <2>2, <2>4, <2>10
    <3> QED
      BY <2>11, <3>1, <3>2 DEF Free
  <2> DEFINE y == P[P[x].after].w
  <2>13. y \in Views
    BY <1>3
  <2> HIDE DEF y
  <2>14. Sound(ReplacedOrChained(a, x, y, w))
    BY <2>9, <2>12, <2>13, ReplacedOrChainedSound
  <2>15. Become(ReplacedOrChained(a, x, y, w))
    BY <1>5 DEF y
  <2> QED
    BY <2>14, <2>15, BecameSound DEF a, y, w, s
<1> QED
  BY <1>2, <1>4, <1>5

-----------------------------------------------------------------------------
(* Who waits for an element *)

Waits == [el : Views, st : BOOLEAN, left : Int]

\* RenderWatch means the same by these.
LEMMA WatchOperators ==
  /\ \A s : Watch!ToSet(s) = ToSet(s)
  /\ \A s, A : Watch!Outside(s, A) = Outside(s, A)
<1>1. \A s : Watch!ToSet(s) = ToSet(s)
  BY DEF Watch!ToSet, ToSet
<1>2. ASSUME NEW s, NEW A PROVE Watch!Outside(s, A) = Outside(s, A)
  BY DEF Watch!Outside, Outside, Watch!FoldLeft, FoldLeft, Watch!MapThenFoldSet, MapThenFoldSet,
         Watch!Max, Max
<1> QED
  BY <1>1, <1>2

LEMMA CallbackWatched ==
  ASSUME Watched, Watch!Callback
  PROVE  Watched'
<1>1. waits \in Seq(Waits) /\ observed \in BOOLEAN /\ (waits # <<>> => observed)
  BY DEF Watched, Waits
<1>2. CASE waits = <<>> /\ waits' = waits /\ observed' \in BOOLEAN
  BY <1>1, <1>2 DEF Watched, NoMissedRender, Waits
<1>3. CASE /\ observed /\ waits # <<>> /\ observed' = observed
           /\ \E rounds \in {[i \in DOMAIN waits |->
                                IF i \in late THEN [waits[i] EXCEPT !.left = @ - 1] ELSE waits[i]] :
                              late \in SUBSET {i \in DOMAIN waits : waits[i].left # Watch!Forever}} :
                waits' = Outside(rounds,
                            {x \in ToSet(rounds) : Watch!IsTrue(x, Shown(body)') \/ x.left = 0})
  <2>1. PICK late : waits' = Outside([i \in DOMAIN waits |->
                                IF i \in late THEN [waits[i] EXCEPT !.left = @ - 1] ELSE waits[i]],
                            {x \in ToSet([i \in DOMAIN waits |->
                                IF i \in late THEN [waits[i] EXCEPT !.left = @ - 1] ELSE waits[i]])
                               : Watch!IsTrue(x, Shown(body)') \/ x.left = 0})
    BY <1>3
  <2> DEFINE rounds == [i \in DOMAIN waits |->
                          IF i \in late THEN [waits[i] EXCEPT !.left = @ - 1] ELSE waits[i]]
             A == {x \in ToSet(rounds) : Watch!IsTrue(x, Shown(body)') \/ x.left = 0}
  <2>2. rounds \in Seq(Waits)
    <3>1. \A i \in DOMAIN waits : waits[i] \in Waits
      BY <1>1
    <3>2. \A i \in DOMAIN waits : [waits[i] EXCEPT !.left = @ - 1] \in Waits
      BY <3>1 DEF Waits
    <3> QED
      BY <1>1, <3>1, <3>2
  <2>3. waits' = Outside(rounds, A)
    BY <2>1
  <2>5. \A x \in ToSet(rounds) \ A : ~Watch!IsTrue(x, Shown(body)')
    OBVIOUS
  <2> HIDE DEF rounds, A
  <2>4. waits' \in Seq(Waits) /\ ToSet(waits') = ToSet(rounds) \ A
    BY <2>2, <2>3, OutsideProperties
  <2>6. \A i \in DOMAIN waits' : waits'[i] \in ToSet(waits')
    BY DEF ToSet
  <2>7. NoMissedRender'
    BY <2>4, <2>5, <2>6 DEF NoMissedRender
  <2> QED
    BY <1>3, <2>4, <2>7 DEF Watched, Waits
<1>4. CASE ~observed /\ UNCHANGED <<waits, observed>>
  BY <1>1, <1>2, <1>4
<1>5. CASE observed /\ waits = <<>> /\ observed' = FALSE /\ UNCHANGED waits
  BY <1>2, <1>5
<1> QED
  BY <1>3, <1>4, <1>5, WatchOperators DEF Watch!Callback

LEMMA SameBodyWatched ==
  ASSUME Watched, UNCHANGED <<body, watch>>
  PROVE  Watched'
BY DEF Watched, NoMissedRender, watch

LEMMA ObserveWatched ==
  ASSUME Watched, NEW STATE touched, Observe(touched)
  PROVE  Watched'
<1>1. CASE Watch!Callback
  BY <1>1, CallbackWatched
<1>2. CASE UNCHANGED <<body, watch>>
  BY <1>2, SameBodyWatched
<1> QED
  BY <1>1, <1>2 DEF Observe

LEMMA FrameWatched ==
  ASSUME Watched, Sound(Page), Frame
  PROVE  Watched'
<1> DEFINE f == Head(frames)
           s == [Page EXCEPT !.frames = Tail(@)]
           v == promises[f.of].v
           t == [s EXCEPT !.cls[v] = (@ \ (IF v \in Opening THEN {"open"} ELSE {})) \cup {"close"}]
           o == [s EXCEPT !.cls[f.of] = @ \cup {"open"}]
           a == [t EXCEPT !.promises[f.of].st = "failed"]
<1>1. o.body = body /\ a.body = body
  BY DEF Page
<1>2. \/ Become(o) /\ UNCHANGED watch
      \/ Become(a) /\ UNCHANGED watch
      \/ Observe(Restarts(v))
  BY DEF Frame
<1> HIDE DEF o, a, v
<1>3. CASE (Become(o) \/ Become(a)) /\ UNCHANGED watch
  <2>1. body' = body
    BY <1>1, <1>3 DEF Become
  <2> QED
    BY <1>3, <2>1, SameBodyWatched
<1>4. CASE Observe(Restarts(v))
  BY <1>4, ObserveWatched
<1> QED
  BY <1>2, <1>3, <1>4

LEMMA WaitForWatched ==
  ASSUME Watched, NEW v \in Views, NEW st \in BOOLEAN, WaitFor(v, st)
  PROVE  Watched'
<1> DEFINE w == [el |-> v, st |-> st, left |-> IF st THEN Timeouts ELSE Watch!Forever]
<1>1. /\ (v \in Shown(body)) # st /\ waits' = Append(waits, w) /\ observed' = TRUE
      /\ body' = body
  BY DEF WaitFor, Watch!WaitFor, tree
<1>2. w \in Waits /\ w.el = v /\ w.st = st
  BY PageAssumption DEF Watch!Forever, Waits
<1> HIDE DEF w
<1>3. waits \in Seq(Waits)
  BY DEF Watched, Waits
<1>4. waits' \in Seq(Waits)
  BY <1>1, <1>2, <1>3
<1>5. \A i \in DOMAIN waits' : waits'[i] = w \/ (i \in DOMAIN waits /\ waits'[i] = waits[i])
  BY <1>1, <1>2, <1>3
<1>6. ~Watch!IsTrue(w, Shown(body))
  BY <1>1, <1>2 DEF Watch!IsTrue
<1>7. Shown(body') = Shown(body)
  BY <1>1
<1>8. \A i \in DOMAIN waits' : ~Watch!IsTrue(waits'[i], Shown(body'))
  BY <1>5, <1>6, <1>7 DEF Watched, NoMissedRender
<1> QED
  BY <1>1, <1>4, <1>8 DEF Watched, NoMissedRender, Waits

-----------------------------------------------------------------------------
(* The invariant holds *)

LEMMA Calls ==
  ASSUME calls \in 0 .. MaxCalls, Called
  PROVE  (calls \in 0 .. MaxCalls)'
BY PageAssumption DEF Called

LEMMA InitInv == Init => PageInv
<1> SUFFICES ASSUME Init PROVE PageInv
  OBVIOUS
<1>1. waits \in Seq(Waits) /\ waits = <<>> /\ DOMAIN waits = {} /\ observed \in BOOLEAN
  <2>1. waits = <<>> /\ observed = FALSE
    BY DEF Init
  <2> DEFINE b == <<>>
  <2>2. b \in Seq(Waits) /\ DOMAIN b = {}
    OBVIOUS
  <2> QED
    BY <2>1, <2>2
<1>2. Watched
  BY <1>1 DEF Watched, NoMissedRender, Waits
<1>3. calls \in 0 .. MaxCalls
  BY PageAssumption DEF Init
<1> QED
  BY <1>2, <1>3, SoundInit DEF PageInv

LEMMA NextInv == PageInv /\ [Next]_vars => PageInv'
<1> SUFFICES ASSUME Sound(Page), Watched, calls \in 0 .. MaxCalls, [Next]_vars
             PROVE  Sound(Page)' /\ Watched' /\ (calls \in 0 .. MaxCalls)'
  BY DEF PageInv
<1>1. CASE UNCHANGED vars
  <2>1. UNCHANGED <<body, watch, calls>> /\ Page' = Page
    BY <1>1, PageFields DEF vars, tree, tasks, Page
  <2> QED
    BY <2>1, SameBodyWatched
<1>2. ASSUME NEW v \in Views, Open(v)
      PROVE  Sound(Page)' /\ Watched' /\ (calls \in 0 .. MaxCalls)'
  BY <1>2, OpenSound, ObserveWatched, Calls DEF Open
<1>3. ASSUME NEW v \in Views, OpenModal(v)
      PROVE  Sound(Page)' /\ Watched' /\ (calls \in 0 .. MaxCalls)'
  <2>1. Observe(TRUE) /\ Called
    BY <1>3 DEF OpenModal
  <2> QED
    BY <1>3, <2>1, OpenModalSound, ObserveWatched, Calls
<1>4. ASSUME NEW v \in Views, Close(v)
      PROVE  Sound(Page)' /\ Watched' /\ (calls \in 0 .. MaxCalls)'
  <2>1. Observe(FALSE) /\ Called
    BY <1>4 DEF Close
  <2> QED
    BY <1>4, <2>1, CloseSound, ObserveWatched, Calls
<1>5. ASSUME NEW v \in Views, NEW w \in Views, NEW skip \in BOOLEAN, Replace(v, w, skip)
      PROVE  Sound(Page)' /\ Watched' /\ (calls \in 0 .. MaxCalls)'
  <2>1. Observe(v \in Shown(body)) /\ Called
    BY <1>5 DEF Replace
  <2>2. Sound(Page)'
    BY <1>5, ReplaceSound
  <2>3. Watched'
    BY <2>1, ObserveWatched
  <2> QED
    BY <2>1, <2>2, <2>3, Calls
<1>6. CASE ClearContent
  <2>1. Observe(FALSE) /\ Called
    BY <1>6 DEF ClearContent
  <2> QED
    BY <1>6, <2>1, ClearSound, ObserveWatched, Calls
<1>7. ASSUME NEW v \in Views, NEW st \in BOOLEAN, WaitFor(v, st)
      PROVE  Sound(Page)' /\ Watched' /\ (calls \in 0 .. MaxCalls)'
  <2>1. UNCHANGED calls /\ Page' = Page
    BY <1>7 DEF WaitFor, tree, tasks, Page
  <2> QED
    BY <1>7, <2>1, WaitForWatched
<1>8. CASE Frame
  <2>1. UNCHANGED calls
    BY <1>8 DEF Frame
  <2> QED
    BY <1>8, <2>1, FrameSound, FrameWatched
<1>9. ASSUME NEW x, Finish(x)
      PROVE  Sound(Page)' /\ Watched' /\ (calls \in 0 .. MaxCalls)'
  <2>1. UNCHANGED calls /\ Observe(FALSE)
    BY <1>9 DEF Finish
  <2> QED
    BY <1>9, <2>1, FinishSound, ObserveWatched
<1>10. ASSUME NEW x, Chained(x)
       PROVE  Sound(Page)' /\ Watched' /\ (calls \in 0 .. MaxCalls)'
  <2>1. UNCHANGED calls /\ Observe(FALSE)
    BY <1>10 DEF Chained
  <2> QED
    BY <1>10, <2>1, ChainedSound, ObserveWatched
<1> QED
  BY <1>1, <1>2, <1>3, <1>4, <1>5, <1>6, <1>7, <1>8, <1>9, <1>10
     DEF Next, AnimationEnd, Once, Delay

\* What holds of the page between its steps.
LEMMA PageIsSound == Spec => []PageInv
  BY InitInv, NextInv, PTL DEF Spec

LEMMA InvType == PageInv => TypeOK
<1> SUFFICES ASSUME PageInv PROVE TypeOK
  OBVIOUS
<1> DEFINE s == Page
<1>1. /\ s \in Pages /\ Formed(s) /\ Locked(s, {}) /\ Marked(s, {})
      /\ s.body = body /\ s.cls = cls /\ s.modal = modal /\ s.boxes = boxes
      /\ s.promises = promises /\ s.lock = lock
  BY PageFields DEF PageInv, Sound, Apart, Based, Formed
<1> HIDE DEF s
<1>2. /\ body \in Seq(Elements) /\ cls \in [Views -> SUBSET {"open", "close"}]
      /\ modal \in [Views -> Nat] /\ boxes \in Nat /\ promises \in Seq(Promises)
      /\ lock \in [Views -> Nat]
  BY <1>1, FieldTypes
<1>3. ASSUME NEW i \in DOMAIN body
      PROVE  \/ body[i] \in {Root(v) : v \in Views}
             \/ body[i] \in {Mark(p) : p \in DOMAIN promises}
             \/ body[i] \in {Box(n) : n \in 1 .. boxes}
  <2>1. body[i] \in Elements /\ In(s, body[i])
    BY <1>1, <1>2 DEF In, ToSet
  <2>2. \A p \in Nat : body[i] = Mark(p) => p \in DOMAIN promises
    BY <1>1, <2>1 DEF Marked
  <2>3. \A n \in Nat : body[i] = Box(n) => n \in 1 .. boxes
    BY <1>1, <2>1 DEF Formed
  <2> QED
    BY <2>1, <2>2, <2>3 DEF Elements
<1>4. IsInjective(body)
  BY <1>1 DEF Formed
<1>5. modal \in [Views -> 0 .. boxes]
  <2>1. \A v \in Views : modal[v] \in 0 .. boxes
    BY <1>1, <1>2 DEF Formed
  <2> QED
    BY <1>2, <2>1
<1>6. lock \in [Views -> 0 .. Len(promises)]
  <2>1. ASSUME NEW v \in Views PROVE lock[v] \in 0 .. Len(promises)
    <3>1. lock[v] # 0 => lock[v] \in DOMAIN promises
      BY <1>1, <2>1, HeldBySomeone DEF Locked
    <3> QED
      BY <1>2, <3>1
  <2> QED
    BY <1>2, <2>1
<1>7. calls \in 0 .. MaxCalls /\ observed \in BOOLEAN
  BY DEF PageInv, Watched
<1> QED
  BY <1>2, <1>3, <1>4, <1>5, <1>6, <1>7 DEF TypeOK

\* The tree holds nothing but what the page shows: a view or a light box once, a mark
\* of a replacement that was asked for (insertBefore, moveOnClose).
THEOREM PageTypeCorrect == Spec => []TypeOK
  BY PageIsSound, InvType, PTL

\* Nobody waits for an element to come that is there, or to go that has gone, whatever
\* the page does and however many wait: every step that changes the document calls
\* waitForRender_callback, as long as anybody waits.
THEOREM NobodyMissesRender == Spec => []NoMissedRender
<1>1. PageInv => NoMissedRender
  BY DEF PageInv, Watched
<1> QED
  BY <1>1, PageIsSound, PTL

LEMMA InvRests == PageInv => RestsInOrder
<1> SUFFICES ASSUME PageInv PROVE RestsInOrder
  OBVIOUS
<1> DEFINE s == Page
<1>1. /\ s \in Pages /\ Formed(s) /\ Locked(s, {}) /\ Marked(s, {}) /\ Boxed(s, {})
      /\ Styled(s, {})
      /\ s.body = body /\ s.cls = cls /\ s.modal = modal /\ s.boxes = boxes /\ s.lost = lost
      /\ s.promises = promises /\ s.lock = lock /\ s.frames = frames
  BY PageFields DEF PageInv, Sound, Apart, Based, Formed
<1> HIDE DEF s
<1>2. \A e : Contains(body, e) <=> In(s, e)
  BY <1>1, FieldTypes, InSequence DEF In
<1>3. LockedByPending
  <2> SUFFICES ASSUME NEW v \in Views, lock[v] # 0 PROVE lock[v] \in Pending \cup Failed
    BY DEF LockedByPending
  <2>1. lock[v] \in DOMAIN promises /\ (Active(promises[lock[v]]) \/ promises[lock[v]].st \in {"failed", "chain"})
    BY <1>1, HeldBySomeone DEF Locked
  <2> QED
    BY <2>1 DEF Active, Pending, Failed
<1>4. ASSUME Quiet, Failed = {}
      PROVE  /\ ~HasFailed(s.promises)
             /\ \A p \in DOMAIN s.promises : s.promises[p].st \notin {"frame", "anim", "failed"}
             /\ s.frames = <<>>
  BY <1>1, <1>4 DEF Quiet, Failed, Pending, HasFailed
<1>5. LightBoxHasView
  <2> SUFFICES ASSUME Quiet, Failed = {}, NEW n \in 1 .. boxes, Contains(body, Box(n))
               PROVE  n \in lost \/ \E v \in Shown(body) : modal[v] = n
    BY DEF LightBoxHasView
  <2>1. Owned(s, {}, n)
    BY <1>1, <1>2, <1>4 DEF Boxed
  <2>2. \A v : ~Coming(s, {}, v)
    BY <1>4 DEF Coming, Comes
  <2> QED
    BY <1>1, <1>2, <2>1, <2>2 DEF Owned, Shown
<1>6. StyleAgrees
  <2> SUFFICES ASSUME Quiet, Failed = {}, NEW v \in Shown(body)
               PROVE  cls[v] = IF v \in Opening THEN {"open"} ELSE {}
    BY DEF StyleAgrees
  <2>1. v \in Views /\ In(s, Root(v))
    BY <1>2 DEF Shown
  <2>2. Neat(s, v)
    BY <1>1, <1>4, <2>1 DEF Styled, Going, Goes
  <2>3. ~Opens(s, v)
    BY <1>4 DEF Opens
  <2>4. cls[v] \subseteq {"open", "close"} /\ ("open" \in cls[v] => v \in Opening)
    BY <1>1, <2>1, FieldTypes DEF Formed
  <2>5. "close" \notin cls[v] /\ (v \in Opening => "open" \in cls[v])
    BY <1>1, <2>2, <2>3 DEF Neat
  <2>6. CASE v \in Opening
    BY <2>4, <2>5, <2>6
  <2>7. CASE v \notin Opening
    BY <2>4, <2>5, <2>7
  <2> QED
    BY <2>6, <2>7
<1>7. MarksGo
  <2> SUFFICES ASSUME Quiet, Failed = {}, NEW p \in DOMAIN promises, Contains(body, Mark(p))
               PROVE  FALSE
    BY DEF MarksGo
  <2>1. p \in Nat
    BY <1>1, FieldTypes, PromiseTypes
  <2> QED
    BY <1>1, <1>2, <1>4, <2>1 DEF Marked
<1> QED
  BY <1>3, <1>5, <1>6, <1>7 DEF RestsInOrder

\* However many calls overlap, on any number of views: a lock belongs to a replacement
\* that is under way or failed, and at rest no mark, light box or class of an animation
\* is left of a call before (replace, moveOnClose, addElement, removeElement).
THEOREM OverlapsLeaveOrder == Spec => []RestsInOrder
  BY PageIsSound, InvRests, PTL
=============================================================================
