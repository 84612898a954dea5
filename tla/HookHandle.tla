----------------------------- MODULE HookHandle -----------------------------
(***************************************************************************)
(* The integer handles by which a plugin names a registered callback.      *)
(* CHookManager::addHandler (hook_manager.cpp) packs a function id and a   *)
(* position in that function's list of callbacks into one cell; the sign   *)
(* tells a post callback from a pre callback.  getAmxxHook unpacks it.     *)
(* A module of pure operators: HookChain uses them on its registry.        *)
(***************************************************************************)
EXTENDS Integers

CONSTANT MaxForwards     \* MAX_HOOK_FORWARDS, 1024 in the code

ASSUME MaxForwardsAssumption == MaxForwards \in Nat \ {0}

\* INVALID_HOOKCHAIN: what RegisterHookChain returns when it fails.
InvalidHandle == 0

\* The handle of the callback at position pos (from 1) of a list of func.
Encode(func, pos, post) ==
    LET i == func * MaxForwards + pos
    IN  IF post THEN -i ELSE i

IsPost(handle) == handle < 0

\* A mutant: `handle = -handle' in place of `handle = ~handle'.
OffsetNegated(handle) == IF IsPost(handle) THEN -handle ELSE handle - 1

\* `handle = ~handle' for a post handle, `handle--' for a pre handle.
Offset(handle) == IF IsPost(handle) THEN -handle - 1 ELSE handle - 1

\* `/' of C truncates: the offset -1 of InvalidHandle yields function 0.
FuncOf(handle) ==
    IF Offset(handle) < 0 THEN 0 ELSE Offset(handle) \div MaxForwards

\* `& (MAX_HOOK_FORWARDS - 1)', counted from 1 like a TLA+ sequence.
PosOf(handle) == (Offset(handle) % MaxForwards) + 1
=============================================================================
