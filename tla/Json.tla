-------------------------------- MODULE Json --------------------------------
(***************************************************************************)
(* isEqual and createDiff of the helpers, over documents whose objects     *)
(* have their keys in an order, as JavaScript gives them.  An array is an  *)
(* object to typeof, with its positions for keys.  What the two do with a  *)
(* document they say in terms of what they do with its values, so that     *)
(* each is a recursive function on the depth of documents.                 *)
(***************************************************************************)
EXTENDS Integers, Sieve

CONSTANTS
    KeyNames,     \* keys of objects and positions of arrays
    Positions,    \* the lists of keys of arrays
    Scalars,      \* values that are no objects
    Depth,        \* bound: how deep the values of the objects are
    Objects       \* the objects to compare

VARIABLES old, nw    \* two of them

Null == [t |-> "null"]
Num(n) == [t |-> "number", n |-> n]
Undefined == [t |-> "undefined"]         \* of a key an object does not have
Deleted == [t |-> "deleted"]             \* {"_deleted": true}
Holder(t, ks, f) ==
    [t |-> t, keys |-> ks, at |-> [k \in KeyNames |-> IF Contains(ks, k) THEN f[k] ELSE Undefined]]

Leaves == {Null} \cup {Num(n) : n \in Scalars}
IsLeaf(x) == x.t \in {"null", "number", "deleted"}
IsObject(x) == x.t = "object"
KeySet(x) == ToSet(x.keys)

\* What has values in S.
Holders(S) ==
    {x \in [t : {"array", "object"}, keys : Seq(KeyNames), at : [KeyNames -> S \cup {Undefined}]] :
        /\ IsInjective(x.keys) /\ \A k \in KeyNames : k \in KeySet(x) <=> x.at[k] # Undefined
        /\ x.t = "array" => x.keys \in Positions}
Objs(S) == {x \in Holders(S) : IsObject(x)}

\* What has its leaves in L and is n deep at most: documents, and differences of them.
Nested(L) == LET f[n \in Nat] == IF n = 0 THEN L ELSE L \cup Holders(f[n - 1]) IN f
Doc(n) == Nested(Leaves)[n]
Tree(n) == Nested(Leaves \cup {Deleted})[n]

ASSUME JsonAssumption == Depth \in Nat /\ Objects \subseteq Objs(Doc(Depth))

-----------------------------------------------------------------------------
\* Mutant: the lengths of arrays are not compared.
EqualStepPrefix(below, x, y) ==
    IF IsLeaf(x) \/ IsLeaf(y) THEN x = y
    ELSE /\ {x.t, y.t} = {"array"} \/ x.keys = y.keys
         /\ \A k \in KeySet(x) \cap KeySet(y) : below[<<x.at[k], y.at[k]>>]

\* isEqual of two documents; below is what it says of their values.  The keys are
\* compared in their order.
EqualStep(below, x, y) ==
    IF IsLeaf(x) \/ IsLeaf(y) THEN x = y
    ELSE x.keys = y.keys /\ \A k \in KeySet(x) : below[<<x.at[k], y.at[k]>>]

\* isEqual of documents n deep at most; the functions below are on these in the same way.
isEqual[n \in Nat] ==
    [u \in Doc(n) \X Doc(n) |-> EqualStep(IF n = 0 THEN <<>> ELSE isEqual[n - 1], u[1], u[2])]

\* Mutant: keys that are gone are passed over.
DiffStepKeeps(below, equal, x, y) ==
    LET both(k) == IsObject(x.at[k]) /\ IsObject(y.at[k])
        value == [k \in KeyNames |-> IF both(k) THEN below[<<x.at[k], y.at[k]>>] ELSE y.at[k]]
        same(k) == IF both(k) THEN value[k].keys = <<>> ELSE equal[<<x.at[k], y.at[k]>>]
        changed == Outside(y.keys, {k \in KeySet(x) \cap KeySet(y) : same(k)})
    IN  Holder("object", changed, value)

\* createDiff of two objects; an object without keys stands for null.  below is what it
\* says of their values that are objects, equal what isEqual says of the others.
DiffStep(below, equal, x, y) ==
    LET both(k) == IsObject(x.at[k]) /\ IsObject(y.at[k])
        value == [k \in KeyNames |->
            CASE y.at[k] = Undefined -> Deleted
              [] both(k) -> below[<<x.at[k], y.at[k]>>]
              [] OTHER -> y.at[k]]
        same(k) == IF both(k) THEN value[k].keys = <<>> ELSE equal[<<x.at[k], y.at[k]>>]
        gone == Outside(x.keys, KeySet(y))
        changed == Outside(y.keys, {k \in KeySet(x) \cap KeySet(y) : same(k)})
    IN  Holder("object", gone \o changed, value)

\* createDiff of objects with values n deep at most.
createDiff[n \in Nat] ==
    [u \in Objs(Doc(n)) \X Objs(Doc(n)) |->
        DiffStep(IF n = 0 THEN <<>> ELSE createDiff[n - 1], isEqual[n], u[1], u[2])]

-----------------------------------------------------------------------------
(* What is meant *)

\* The same but for the order of keys, and for what is an array.
AlikeStep(below, x, y) ==
    IF IsLeaf(x) \/ IsLeaf(y) THEN x = y
    ELSE KeySet(x) = KeySet(y) /\ \A k \in KeySet(x) : below[<<x.at[k], y.at[k]>>]

\* ... of differences and documents n deep at most.
alike[n \in Nat] ==
    [u \in Tree(n) \X Tree(n) |-> AlikeStep(IF n = 0 THEN <<>> ELSE alike[n - 1], u[1], u[2])]

\* The object a difference leads to.
PatchStep(below, x, df) ==
    LET kept == Outside(x.keys, KeySet(df))
        put == Outside(df.keys, {k \in KeySet(df) : df.at[k] = Deleted})
        value == [k \in KeyNames |->
            CASE df.at[k] = Undefined -> x.at[k]
              [] IsObject(x.at[k]) /\ IsObject(df.at[k]) -> below[<<x.at[k], df.at[k]>>]
              [] OTHER -> df.at[k]]
    IN  Holder("object", kept \o put, value)

\* ... with values n deep at most.
patched[n \in Nat] ==
    [u \in Objs(Doc(n)) \X Objs(Tree(n)) |->
        PatchStep(IF n = 0 THEN <<>> ELSE patched[n - 1], u[1], u[2])]

-----------------------------------------------------------------------------
(* Properties *)

\* The diff of two objects leads from the one to the other, and there is none only
\* if they are the same; as far as the order of keys does not count, nor whether
\* what has the keys 0, 1, ... is an array.
DiffRestores ==
    LET df == createDiff[Depth][<<old, nw>>]
    IN  /\ alike[Depth + 1][<<patched[Depth][<<old, df>>], nw>>]
        /\ df.keys = <<>> => alike[Depth + 1][<<old, nw>>]

\* What isEqual calls equal is the same in that sense, and a document equals itself.
EqualIsSame ==
    LET equal == isEqual[Depth + 1][<<old, nw>>]
    IN  (equal => alike[Depth + 1][<<old, nw>>]) /\ (old = nw => equal)
=============================================================================
