---------------------------- MODULE MCPageViews ----------------------------
(***************************************************************************)
(* Views of a page on a small instance: one with animations that the page  *)
(* shows at first, one whose closing class plays nothing, and one with     *)
(* transitions.                                                            *)
(***************************************************************************)
EXTENDS PageViews, TLC

CONSTANTS v1, v2, v3

Styles == (v1 :> "animation") @@ (v2 :> "none") @@ (v3 :> "transition")
First == <<v1>>
=============================================================================
