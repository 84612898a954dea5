----------------------------- MODULE MCHookChain -----------------------------
(* Instances of HookChain for TLC.  Function 0 returns nothing and has a    *)
(* string argument, function 1 returns a value.                              *)
EXTENDS HookChain

OneVoid  == {0}
OneValue == {1}
Both     == {0, 1}
None     == {}
=============================================================================
