--------------------------- MODULE EntityCallback ---------------------------
(***************************************************************************)
(* Callbacks of single entities: SetThink, SetTouch, SetUse, SetBlocked    *)
(* and SetMoveDone make the game call a plugin when the entity thinks, is  *)
(* touched, ... (entity_callback_dispatcher.h/.cpp, the natives in         *)
(* natives/natives_common.cpp).                                            *)
(*                                                                         *)
(* A callback may replace or remove callbacks, its own included, and may   *)
(* make the game dispatch further callbacks.  A flag says whether a        *)
(* dispatch is in progress; while it is set callbacks are not deleted but  *)
(* marked, and the end of a dispatch deletes the marked ones.              *)
(***************************************************************************)
EXTENDS Integers, Sequences, FiniteSets

CONSTANTS
    Ent,        \* addresses of entities
    Toggle,     \* those whose class derives from CBaseToggle
    Type,       \* CallbackType, without None
    MoveDone,   \* the type that only a CBaseToggle can have
    Addr,       \* bound of the model: addresses of EntityCallback objects
    MaxDepth    \* bound of the model: dispatches on the call stack

ASSUME EntityAssumption ==
    /\ Toggle \subseteq Ent
    /\ MoveDone \in Type
    /\ IsFiniteSet(Addr)
    /\ MaxDepth \in Nat

VARIABLES
    ents,       \* the entities that exist
    armed,      \* the entity functions that point to SUB_Think, SUB_Touch, ...
    callbacks,  \* m_callbacks
    marks,      \* m_callbacksMarkForDeletion
    processing, \* m_bIsProcessingCallbacks
    stack       \* the dispatches in progress, the innermost last

vars == <<ents, armed, callbacks, marks, processing, stack>>

Slot == Ent \X Type

Callback == [addr : Addr, ent : Ent, type : Type]

\* A dispatch that is executing the callback at address addr.
Frame ==
    [ addr      : Addr,
      valid     : BOOLEAN,      \* history: the callback is not yet deleted
      reentered : BOOLEAN ]     \* history: a nested dispatch has ended

-----------------------------------------------------------------------------
(* Lists of callbacks *)

AddressesIn(s) == {s[i].addr : i \in DOMAIN s}
Listed == AddressesIn(callbacks)
Of(e, t)  == {i \in DOMAIN callbacks : callbacks[i].ent = e /\ callbacks[i].type = t}
AddrOf(I) == {callbacks[i].addr : i \in I}

\* The callbacks but those at the addresses A, in their order.
Kept(A)  == {i \in DOMAIN callbacks : callbacks[i].addr \notin A}
Nth(K, n) == CHOOSE i \in K : Cardinality({j \in K : j <= i}) = n
Without(A) == [n \in 1 .. Cardinality(Kept(A)) |-> callbacks[Nth(Kept(A), n)]]

\* The frames after the callbacks at the addresses A have been deleted.
Deleted(s, A) ==
    [i \in DOMAIN s |-> [s[i] EXCEPT !.valid = @ /\ s[i].addr \notin A]]

\* DeleteExistingCallbacks for the callbacks at the addresses A: they are
\* deleted at once, or marked when a dispatch is in progress.
Left(A) == IF processing THEN callbacks ELSE Without(A)

DeleteExisting(A) ==
    /\ marks' = IF processing THEN marks \cup A ELSE marks
    /\ stack' = IF processing THEN stack ELSE Deleted(stack, A)

-----------------------------------------------------------------------------
(* The natives *)

\* A mutant of SetCallback: SetMoveDone without the dynamic_cast.
SetCallbackUnchecked(e, t) ==
    /\ e \in ents
    /\ DeleteExisting(AddrOf(Of(e, t)))
    /\ \E a \in Addr \ AddressesIn(Left(AddrOf(Of(e, t)))) :
          callbacks' = Append(Left(AddrOf(Of(e, t))),
                              [addr |-> a, ent |-> e, type |-> t])
    /\ armed' = armed \cup {<<e, t>>}
    /\ UNCHANGED <<ents, processing>>

\* SetThink and its like: the callbacks the slot had go first, whatever comes
\* of it ...
SetCallback(e, t) ==
    /\ e \in ents
    /\ t = MoveDone => e \in Toggle
    /\ DeleteExisting(AddrOf(Of(e, t)))
    /\ \E a \in Addr \ AddressesIn(Left(AddrOf(Of(e, t)))) :
          callbacks' = Append(Left(AddrOf(Of(e, t))),
                              [addr |-> a, ent |-> e, type |-> t])
    /\ armed' = armed \cup {<<e, t>>}
    /\ UNCHANGED <<ents, processing>>

\* ... then the forward may fail to register, and SetMoveDone may find that
\* the entity is no CBaseToggle.
SetCallbackFails(e, t) ==
    /\ e \in ents
    /\ DeleteExisting(AddrOf(Of(e, t)))
    /\ callbacks' = Left(AddrOf(Of(e, t)))
    /\ UNCHANGED <<ents, armed, processing>>

\* UnsetThink and its like; UnsetMoveDone does nothing to other entities.
UnsetCallback(e, t) ==
    /\ e \in ents
    /\ t = MoveDone => e \in Toggle
    /\ armed' = armed \ {<<e, t>>}
    /\ DeleteExisting(AddrOf(Of(e, t)))
    /\ callbacks' = Left(AddrOf(Of(e, t)))
    /\ UNCHANGED <<ents, processing>>

-----------------------------------------------------------------------------
(* The game *)

CreateEntity(e) ==
    /\ e \notin ents
    /\ ents' = ents \cup {e}
    /\ UNCHANGED <<armed, callbacks, marks, processing, stack>>

\* A mutant of FreeEntity: the test "None == type" is missing.
FreeEntityKeepsCallbacks(e) ==
    /\ e \in ents
    /\ ents' = ents \ {e}
    /\ armed' = {s \in armed : s[1] # e}
    /\ UNCHANGED <<callbacks, marks, processing, stack>>

\* OnFreeEntPrivateData.
FreeEntity(e) ==
    /\ e \in ents
    /\ ents' = ents \ {e}
    /\ armed' = {s \in armed : s[1] # e}
    /\ DeleteExisting(AddrOf(UNION {Of(e, t) : t \in Type}))
    /\ callbacks' = Left(AddrOf(UNION {Of(e, t) : t \in Type}))
    /\ UNCHANGED processing

\* The game gives the entity a function of its own.
GameSetsFunction(e, t) ==
    /\ <<e, t>> \in armed
    /\ armed' = armed \ {<<e, t>>}
    /\ UNCHANGED <<ents, callbacks, marks, processing, stack>>

\* DeleteAllCallbacks, when the map ends.
ServerDeactivate ==
    /\ DeleteExisting(Listed)
    /\ callbacks' = Left(Listed)
    /\ UNCHANGED <<ents, armed, processing>>

-----------------------------------------------------------------------------
(* DispatchCallbacks *)

\* Mutants of EndDispatch: the marks are not cleared ...
EndDispatchKeepsMarks(s) ==
    /\ processing' = FALSE
    /\ callbacks' = Without(marks)
    /\ stack' = [i \in DOMAIN s |-> [Deleted(s, marks)[i] EXCEPT !.reentered = TRUE]]
    /\ UNCHANGED <<ents, armed, marks>>

\* ... or cleared but not followed.
EndDispatchForgetsMarks(s) ==
    /\ processing' = FALSE
    /\ marks' = {}
    /\ stack' = [i \in DOMAIN s |-> [s[i] EXCEPT !.reentered = TRUE]]
    /\ UNCHANGED <<ents, armed, callbacks>>

\* The end of a dispatch, with the frames s below it: the flag is cleared and
\* the marked callbacks are deleted.
EndDispatch(s) ==
    /\ processing' = FALSE
    /\ callbacks' = Without(marks)
    /\ marks' = {}
    /\ stack' = [i \in DOMAIN s |-> [Deleted(s, marks)[i] EXCEPT !.reentered = TRUE]]
    /\ UNCHANGED <<ents, armed>>

CanDispatch(e, t) == <<e, t>> \in armed /\ Len(stack) < MaxDepth

\* A mutant of Dispatch: the flag is not set.
DispatchUnflagged(e, t) ==
    /\ CanDispatch(e, t)
    /\ \E i \in Of(e, t) :
          /\ \A j \in Of(e, t) : i <= j
          /\ stack' = Append(stack, [addr |-> callbacks[i].addr,
                                     valid |-> TRUE, reentered |-> FALSE])
    /\ UNCHANGED <<ents, armed, callbacks, marks, processing>>

\* The first callback of the slot is executed ...
Dispatch(e, t) ==
    /\ CanDispatch(e, t)
    /\ \E i \in Of(e, t) :
          /\ \A j \in Of(e, t) : i <= j
          /\ stack' = Append(stack, [addr |-> callbacks[i].addr,
                                     valid |-> TRUE, reentered |-> FALSE])
    /\ processing' = TRUE
    /\ UNCHANGED <<ents, armed, callbacks, marks>>

\* ... or there is none, and the dispatch is over at once.
DispatchNothing(e, t) ==
    /\ CanDispatch(e, t)
    /\ Of(e, t) = {}
    /\ EndDispatch(stack)

CallbackReturns ==
    /\ stack # <<>>
    /\ EndDispatch(SubSeq(stack, 1, Len(stack) - 1))

-----------------------------------------------------------------------------

Init ==
    /\ ents = Ent
    /\ armed = {}
    /\ callbacks = <<>>
    /\ marks = {}
    /\ processing = FALSE
    /\ stack = <<>>

\* A callback's parameters are copied back when it returns; if the callback
\* has been deleted the memory is no longer its own, and the process may die:
\* the server starts afresh.
Crash ==
    /\ stack # <<>>
    /\ ~stack[Len(stack)].valid
    /\ ents' = Ent
    /\ armed' = {}
    /\ callbacks' = <<>>
    /\ marks' = {}
    /\ processing' = FALSE
    /\ stack' = <<>>

Native(e, t) == SetCallback(e, t) \/ SetCallbackFails(e, t) \/ UnsetCallback(e, t)

Game(e, t) == GameSetsFunction(e, t) \/ Dispatch(e, t) \/ DispatchNothing(e, t)

Next ==
    \/ \E e \in Ent, t \in Type : Native(e, t) \/ Game(e, t)
    \/ \E e \in Ent : CreateEntity(e) \/ FreeEntity(e)
    \/ ServerDeactivate
    \/ CallbackReturns
    \/ Crash

Spec == Init /\ [][Next]_vars

\* A callback that again and again gets control back returns some time.
FairSpec ==
    Spec /\ \A d \in 1 .. MaxDepth : SF_vars(Len(stack) = d /\ CallbackReturns)

-----------------------------------------------------------------------------
(* Properties *)

\* The state has the types of the C++ declarations, and only entities whose
\* class derives from CBaseToggle have a MoveDone function to set.
TypeOK ==
    /\ ents \subseteq Ent
    /\ armed \subseteq ents \X Type
    /\ callbacks \in Seq(Callback)
    /\ marks \subseteq Addr
    /\ processing \in BOOLEAN
    /\ stack \in Seq(Frame)
    /\ \A s \in armed : s[2] = MoveDone => s[1] \in Toggle

\* A mark always points to a callback that is registered, and a dispatch is
\* there to delete it: the address of a deleted callback, which a new one may
\* get, never stays in m_callbacksMarkForDeletion for the next purge to find.
\* And the flag never outlives the dispatches: a callback removed between two of
\* them is deleted at once (m_bIsProcessingCallbacks).
MarksAreListed ==
    /\ marks \subseteq Listed
    /\ marks # {} => processing
    /\ processing => stack # <<>>

\* An entity has at most one callback of a type that is not about to go, no two
\* callbacks share an address (SetThink and its like replace), and none of an
\* entity that is gone survives the dispatch in progress, so that none can be
\* called for the entity that gets its address later (OnFreeEntPrivateData).
OneCallbackPerSlot ==
    /\ \A e \in Ent, t \in Type : Cardinality(AddrOf(Of(e, t)) \ marks) <= 1
    /\ Cardinality(Listed) = Len(callbacks)
    /\ \A i \in DOMAIN callbacks :
          callbacks[i].ent \in ents \/ callbacks[i].addr \in marks

\* A callback is not deleted while it executes, as long as no dispatch nested
\* in it has ended (m_bIsProcessingCallbacks, m_callbacksMarkForDeletion).
ProtectedUntilReentered ==
    \A i \in DOMAIN stack : stack[i].valid \/ stack[i].reentered

\* What is marked for deletion is deleted some time: no purge forgets it, and
\* some dispatch ends with one (DispatchCallbacks).
MarkedAreDeleted == \A a \in Addr : a \in marks ~> a \notin Listed

(* What the comments say and the code does not do *)

\* "This flag is set to true while callback processing to prevent immediate
\* deletion of registered callbacks that may be involved in caused AMXX plugin
\* callbacks": no callback is deleted while it executes.
ExecutingNotDeleted == \A i \in DOMAIN stack : stack[i].valid
=============================================================================
