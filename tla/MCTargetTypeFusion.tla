------------------------ MODULE MCTargetTypeFusion ------------------------
(* Small instances of TargetTypeFusion for TLC. *)
EXTENDS TargetTypeFusion

Tokens == {"ship", "cargo"}
FamilyOf == [t \in Tokens |-> "ship"]
=============================================================================
