------------------------------ MODULE CallStack ------------------------------
(***************************************************************************)
(* What hookchains and message hooks have in common: the results of a      *)
(* plugin callback, and the rule by which a global pointer follows the     *)
(* nesting of dispatches (hook_callback.h, hook_message_manager.cpp).      *)
(* A module of pure operators on a call stack, the innermost frame last.   *)
(***************************************************************************)
EXTENDS Integers

\* What a plugin callback returns (enum HookChainState).
HC_CONTINUE  == 0
HC_SUPERCEDE == 1
HC_BREAK     == 2
HC_BYPASS    == 3
HookChainState == HC_CONTINUE .. HC_BYPASS

\* The two lists of callbacks, named like the phases of a dispatch that
\* iterate over them.
List == {"pre", "post"}

\* A plugin callback that AMX Mod X runs for something else.
Foreign(r) == r.phase = "foreign"

\* What the global pointer (g_hookCtx, g_activeMessageContext) should be after
\* the first n frames of a stack s, by the stack alone: the innermost dispatch,
\* but none while there is no dispatch or the original of the innermost one is
\* executing.
Prescribed(s, c, n) ==
    IF c = 0
    THEN \/ \A i \in 1 .. n : Foreign(s[i])
         \/ \E i \in 1 .. n : /\ s[i].phase = "orig"
                              /\ \A j \in (i + 1) .. n : Foreign(s[j])
    ELSE /\ c \in 1 .. n
         /\ s[c].phase \in List
         /\ \A j \in (c + 1) .. n : Foreign(s[j])
=============================================================================
