------------------------------ MODULE MCForm ------------------------------
(***************************************************************************)
(* A form of a page on small instances: the rows of a list, a field, the   *)
(* widget X-SELECT and the focus.  They share no state, so a behaviour     *)
(* exercises one of them, which is chosen at the start.                    *)
(***************************************************************************)
EXTENDS RowGroup, FormFields, XSelect, FocusCycle, TLC

CONSTANTS i1, i2, e, l1, l2, p, z, c1, c2

\* The text p finds both items, z none, the label of an item that item.
Labels == (i1 :> l1) @@ (i2 :> l2)
Finds == (e :> <<i1, i2>>) @@ (p :> <<i1, i2>>) @@ (l1 :> <<i1>>) @@ (l2 :> <<i2>>) @@ (z :> <<>>)

VARIABLE part

FormInit ==
    /\ part \in {"rows", "field", "select", "focus"}
    /\ RowInit /\ FieldInit /\ Init /\ FocusInit
    /\ part # "field" => kind = [c \in Contents |-> "flag"]
    /\ part # "select" => value = None
    /\ part # "focus" => tabIndex = <<>> /\ around = [before |-> 0, behind |-> 0]

FormNext ==
    \/ part = "rows" /\ RowNext /\ UNCHANGED <<fieldVars, vars, focusVars, part>>
    \/ part = "field" /\ FieldNext /\ UNCHANGED <<rowVars, vars, focusVars, part>>
    \/ part = "select" /\ Next /\ UNCHANGED <<rowVars, fieldVars, focusVars, part>>
    \/ part = "focus" /\ FocusNext /\ UNCHANGED <<rowVars, fieldVars, vars, part>>

FormSpec == FormInit /\ [][FormNext]_<<rowVars, fieldVars, vars, focusVars, part>>

-----------------------------------------------------------------------------
(* Properties *)

\* The states of the four parts are of the expected form.
FormTypeOK == RowTypeOK /\ FieldTypeOK /\ TypeOK /\ FocusTypeOK
=============================================================================
