------------------------------ MODULE HookCalls ------------------------------
(***************************************************************************)
(* What a hooked call promises its caller and the plugins, without lists   *)
(* of callbacks, their results, contexts and loops: the original runs at   *)
(* most once, between the pre and the post callbacks; a plugin changes the *)
(* innermost call and no other; and the caller gets the plugins' value if  *)
(* they set one, else the original's, and never none.                      *)
(*                                                                         *)
(* HookChain implements this specification (ImplementsHookCalls).          *)
(***************************************************************************)
EXTENDS Integers, Sequences

CONSTANTS
    Func,       \* the hookable functions
    VoidFunc,   \* those that return nothing
    NoFunc      \* stands for the function of a callback of another module

VARIABLES
    calls,      \* the calls in progress, the innermost last
    result      \* what the call that returned last gave its caller

vars == <<calls, result>>

\* "foreign" are plugin callbacks that belong to no hooked call; the others are
\* before, in and after their original.
NewCall(f, stage) ==
    [func |-> f, stage |-> stage, value |-> "none", argument |-> "caller"]

Last        == calls[Len(calls)]
Below       == SubSeq(calls, 1, Len(calls) - 1)
SetLast(r)  == [calls EXCEPT ![Len(calls)] = r]
InStage(st) == calls # <<>> /\ Last.stage = st
HasValue(r) == r.func \in VoidFunc \/ r.value # "none"

\* The call that a plugin's natives act on: none while its original runs.
Current ==
    {c \in DOMAIN calls :
        /\ calls[c].stage \in {"before", "after"}
        /\ \A j \in DOMAIN calls : j > c => calls[j].stage = "foreign"}

-----------------------------------------------------------------------------

Begin(f) ==
    /\ calls' = Append(calls, NewCall(f, "before"))
    /\ UNCHANGED result

BeginForeign ==
    /\ calls' = Append(calls, NewCall(NoFunc, "foreign"))
    /\ UNCHANGED result

EndForeign ==
    /\ InStage("foreign")
    /\ calls' = Below
    /\ UNCHANGED result

SetValue ==
    /\ \E c \in Current : calls' = [calls EXCEPT ![c].value = "plugin"]
    /\ UNCHANGED result

RedirectArgument ==
    /\ \E c \in Current : calls' = [calls EXCEPT ![c].argument = "plugin"]
    /\ UNCHANGED result

OriginalStarts ==
    /\ InStage("before")
    /\ calls' = SetLast([Last EXCEPT !.stage = "in"])
    /\ UNCHANGED result

\* A value that a plugin has set already is kept.
OriginalEnds ==
    /\ InStage("in")
    /\ calls' = SetLast([Last EXCEPT
                   !.stage = "after",
                   !.value = IF HasValue(Last) THEN @ ELSE "original"])
    /\ UNCHANGED result

\* The original may be left out, if there is a value in its place.
OriginalSkipped ==
    /\ InStage("before")
    /\ HasValue(Last)
    /\ calls' = SetLast([Last EXCEPT !.stage = "after"])
    /\ UNCHANGED result

Return ==
    /\ InStage("before") \/ InStage("after")
    /\ HasValue(Last)
    /\ calls' = Below
    /\ result' = IF Last.func \in VoidFunc THEN "none" ELSE Last.value

Restart == calls' = <<>> /\ result' = "none"

Init == calls = <<>> /\ result = "none"

Next ==
    \/ \E f \in Func : Begin(f)
    \/ BeginForeign
    \/ EndForeign
    \/ SetValue
    \/ RedirectArgument
    \/ OriginalStarts
    \/ OriginalEnds
    \/ OriginalSkipped
    \/ Return
    \/ Restart

Spec == Init /\ [][Next]_vars
=============================================================================
