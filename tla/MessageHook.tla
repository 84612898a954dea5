----------------------------- MODULE MessageHook -----------------------------
(***************************************************************************)
(* Message hooks: how a network message that the engine sends travels      *)
(* through the plugins' pre hooks, the engine and the post hooks           *)
(* (hook_message_manager.h/.cpp), and the natives by which a plugin        *)
(* registers and unregisters hooks and changes the message being           *)
(* dispatched (natives/natives_hookmessage.cpp).                           *)
(*                                                                         *)
(* Unlike a hookchain callback a message hook can be unregistered at any   *)
(* time, also by a hook of the message that is being dispatched, under the *)
(* loop that iterates over its list.  The memory that such a loop reads is *)
(* therefore modelled, and so are the addresses of the hooks.              *)
(***************************************************************************)
EXTENDS CallStack, Sequences, FiniteSets

CONSTANTS
    Msg,            \* ids of the messages
    MaxUserMsgs,    \* MAX_USERMESSAGES, 256 in the code
    Addr,           \* bound of the model: addresses of CAmxxHookBase objects
    MaxRegistered,  \* bound of the model: registrations with ReHLDS
    MaxDepth        \* bound of the model: frames on the call stack

ASSUME MessageAssumption ==
    /\ MaxUserMsgs \in Nat \ {0}
    /\ Msg \subseteq 1 .. (MaxUserMsgs - 1)
    /\ IsFiniteSet(Addr)
    /\ MaxRegistered \in Nat
    /\ MaxDepth \in Nat

\* Handles are packed like those of hookchains, 256 to a message.
H == INSTANCE HookHandle WITH MaxForwards <- MaxUserMsgs

VARIABLES
    hooks,      \* hooks[m]["pre"], hooks[m]["post"]: the vectors of addresses
    object,     \* what is at an address: a hook's state, or FREE memory
    handleOf,   \* history: the handle RegisterMessage returned for a hook
    registered, \* how often a message's hook is registered with ReHLDS
    stack,      \* the dispatches in progress, the innermost last
    active      \* g_activeMessageContext: the frame whose message, 0 if null

registry == <<hooks, object, handleOf, registered>>
vars     == <<hooks, object, handleOf, registered, stack, active>>

NoMsg == 0

\* One activation of DispatchCallbacks, or of a plugin callback that is no
\* message hook.  A loop reads the memory from the begin to the end that its
\* list had when the loop started: rest is what it has yet to read, the hook
\* that is executing included.
Frame ==
    [ msg      : Msg \cup {NoMsg},
      phase    : {"pre", "orig", "post", "foreign"},
      pos      : Nat,               \* the loop's position in the vector
      rest     : Seq(Addr),         \* the memory from there to the loop's end
      running  : BOOLEAN,           \* ExecuteForward is executing plugin code
      stale    : BOOLEAN,           \* the vector has moved away from there
      state    : HookChainState,    \* hookState
      save     : Nat,               \* savedContext
      modified : BOOLEAN,           \* the message's data has been modified
      called   : BOOLEAN,           \* history: the engine has sent it
      heard    : SUBSET {HC_SUPERCEDE, HC_BYPASS}, \* history: of pre hooks
      ran      : SUBSET Addr,       \* history: the hooks this loop has run,
                                    \* as long as it is not shifted
      shifted  : BOOLEAN ]          \* history: a hook left the loop's list

NewDispatch(m) ==
    [ msg |-> m, phase |-> "pre", pos |-> 1, rest |-> hooks[m]["pre"],
      running |-> FALSE, stale |-> FALSE, state |-> HC_CONTINUE,
      save |-> active, modified |-> FALSE, called |-> FALSE, heard |-> {},
      ran |-> {}, shifted |-> FALSE ]

ForeignCall ==
    [ msg |-> NoMsg, phase |-> "foreign", pos |-> 1, rest |-> <<>>,
      running |-> TRUE, stale |-> FALSE, state |-> HC_CONTINUE,
      save |-> active, modified |-> FALSE, called |-> FALSE, heard |-> {},
      ran |-> {}, shifted |-> FALSE ]

-----------------------------------------------------------------------------
(* The call stack *)

Top == stack[Len(stack)]
Below == SubSeq(stack, 1, Len(stack) - 1)
SetTop(r) == [stack EXCEPT ![Len(stack)] = r]

\* Plugin code is executing: it may call ReAPI's natives.
InPlugin == stack # <<>> /\ Top.running

\* A message can be sent: the engine is idle or sending one, or a plugin does.
InGame == stack # <<>> => Top.running \/ Top.phase = "orig"

\* A loop is between two hooks.
Looping == stack # <<>> /\ Top.phase \in List /\ ~Top.running

\* The frame's loop reads the memory of the vector hooks[m][l].
Reads(r, m, l) == r.msg = m /\ r.phase = l /\ ~r.stale

Empty(m) == hooks[m]["pre"] = <<>> /\ hooks[m]["post"] = <<>>

Registered ==
    UNION {UNION {{<<m, l, i>> : i \in DOMAIN hooks[m][l]} : l \in List} : m \in Msg}
At(r) == hooks[r[1]][r[2]][r[3]]

-----------------------------------------------------------------------------
(* The registry *)

\* getAmxxHook: <<m, list, position>> of the hook a handle names, if any.
Resolve(handle) ==
    LET m == H!FuncOf(handle)
        l == IF H!IsPost(handle) THEN "post" ELSE "pre"
        i == H!PosOf(handle)
    IN  IF m \in Msg /\ i \in DOMAIN hooks[m][l] THEN {<<m, l, i>>} ELSE {}

\* What a loop has yet to read once the vector holds v in the same memory; the
\* memory behind the vector keeps what it had.
Reread(r, v) ==
    [j \in DOMAIN r.rest |->
        LET k == r.pos + j - 1
        IN  IF k <= Len(v) THEN v[k] ELSE r.rest[j]]

AddInFront(s, a) == <<a>> \o s               \* a mutant
Add(s, a) == Append(s, a)

EraseLast(s, i) == SubSeq(s, 1, Len(s) - 1)  \* a mutant
Erase(s, i) == SubSeq(s, 1, i - 1) \o SubSeq(s, i + 1, Len(s))

NewHandleUnsigned(m, l) ==                  \* a mutant
    H!Encode(m, Len(hooks[m][l]) + 1, FALSE)
NewHandle(m, l) == H!Encode(m, Len(hooks[m][l]) + 1, l = "post")

FirstHookTooLate(m) == FALSE                \* a mutant: the test after the push
FirstHook(m) == Empty(m)

\* The vector may have to grow; it cannot while there is room behind it that a
\* loop still reads.
addHook(m, l, a, realloc) ==
    LET s == hooks[m][l]
        v == Add(s, a)
    IN
    /\ object[a] = "FREE"
    /\ realloc => \A k \in DOMAIN stack :
                     Reads(stack[k], m, l) =>
                       stack[k].pos + Len(stack[k].rest) - 1 <= Len(s)
    /\ FirstHook(m) => registered[m] < MaxRegistered
    /\ registered' = IF FirstHook(m) THEN [registered EXCEPT ![m] = @ + 1]
                                     ELSE registered
    /\ hooks' = [hooks EXCEPT ![m][l] = v]
    /\ object' = [object EXCEPT ![a] = "ENABLED"]
    /\ handleOf' = [handleOf EXCEPT ![a] = NewHandle(m, l)]
    /\ stack' = [k \in DOMAIN stack |->
                   IF ~Reads(stack[k], m, l) THEN stack[k]
                   ELSE IF realloc THEN [stack[k] EXCEPT !.stale = TRUE]
                   ELSE [stack[k] EXCEPT !.rest = Reread(stack[k], v)]]
    /\ UNCHANGED active

\* The hook r that a handle names.
removeHook(r) ==
    LET v == Erase(hooks[r[1]][r[2]], r[3]) IN
    /\ object' = [object EXCEPT ![At(r)] = "FREE"]
    /\ handleOf' = [handleOf EXCEPT ![At(r)] = H!InvalidHandle]
    /\ hooks' = [hooks EXCEPT ![r[1]][r[2]] = v]
    /\ stack' = [k \in DOMAIN stack |->
             IF stack[k].msg # r[1] \/ stack[k].phase # r[2] THEN stack[k]
             ELSE [stack[k] EXCEPT
                     !.shifted = TRUE, !.ran = {},
                     !.rest = IF stack[k].stale THEN @
                              ELSE Reread(stack[k], v)]]
    /\ UNCHANGED <<registered, active>>

\* A message id that the native refuses, or a public function that the plugin
\* lacks, registers nothing.  svc_bad, 0, is not allowed for a hook.
RegisterMessage(msg_id, post, a, realloc) ==
    /\ InPlugin
    /\ 0 < msg_id /\ msg_id < MaxUserMsgs
    /\ addHook(msg_id, IF post THEN "post" ELSE "pre", a, realloc)

UnregisterMessage(handle) ==
    /\ InPlugin
    /\ \E r \in Resolve(handle) : removeHook(r)

SetState(handle, state) ==
    /\ InPlugin
    /\ \E r \in Resolve(handle) : object' = [object EXCEPT ![At(r)] = state]
    /\ UNCHANGED <<hooks, handleOf, registered, stack, active>>

EnableHookMessage(handle)  == SetState(handle, "ENABLED")
DisableHookMessage(handle) == SetState(handle, "STOPPED")

\* MessageHook::clear unregisters a message that has hooks.
RegisteredLess(m) == registered[m] - 1      \* a mutant: without the test
RegisteredAfterClear(m) ==
    IF Empty(m) THEN registered[m] ELSE registered[m] - 1

\* Clear, when the map ends; AMX Mod X has unloaded the plugins, and nothing is
\* being dispatched.
ServerDeactivate ==
    /\ stack = <<>>
    /\ object' = [a \in Addr |-> "FREE"]
    /\ handleOf' = [a \in Addr |-> H!InvalidHandle]
    /\ hooks' = [m \in Msg |-> [l \in List |-> <<>>]]
    /\ registered' = [m \in Msg |-> RegisteredAfterClear(m)]
    /\ UNCHANGED <<stack, active>>

-----------------------------------------------------------------------------
(* The message being dispatched *)

\* SetMessageData and ResetModifiedMessageData, of the message that
\* g_activeMessageContext points to.
Modify(modified) ==
    /\ InPlugin
    /\ active # 0
    /\ stack' = [stack EXCEPT ![active].modified = modified]
    /\ UNCHANGED <<hooks, object, handleOf, registered, active>>

SetMessageData           == Modify(TRUE)
ResetModifiedMessageData == Modify(FALSE)

\* What the natives that only read find: IsMessageDataModified.
IsMessageDataModified == active # 0 /\ stack[active].modified

-----------------------------------------------------------------------------
(* DispatchCallbacks *)

AtEnd == Top.rest = <<>>
AtHook == Head(Top.rest)
Advance(r) == [r EXCEPT !.pos = @ + 1, !.rest = Tail(@)]
Break(r) == [r EXCEPT !.rest = <<>>]

\* The engine sends a message: its context becomes the active one.
Dispatch(m) ==
    /\ InGame
    /\ registered[m] > 0
    /\ Len(stack) < MaxDepth
    /\ stack' = Append(stack, NewDispatch(m))
    /\ active' = Len(stack) + 1
    /\ UNCHANGED registry

\* A mutant: the loop skips a hook but not past it.
SkipHookStays ==
    /\ Looping
    /\ ~AtEnd
    /\ object[AtHook] # "ENABLED"
    /\ UNCHANGED vars

SkipHook ==
    /\ Looping
    /\ ~AtEnd
    /\ object[AtHook] # "ENABLED"
    /\ stack' = SetTop(Advance(Top))
    /\ UNCHANGED <<hooks, object, handleOf, registered, active>>

ExecuteForward ==
    /\ Looping
    /\ ~AtEnd
    /\ object[AtHook] = "ENABLED"
    /\ stack' = SetTop([Top EXCEPT !.running = TRUE])
    /\ UNCHANGED <<hooks, object, handleOf, registered, active>>

Returned(r) ==
    [r EXCEPT !.running = FALSE,
              !.ran = IF r.shifted THEN {} ELSE @ \cup {Head(r.rest)}]

\* The previous context is active again.
Leave ==
    /\ stack' = Below
    /\ active' = Top.save

\* A mutant: the early return does not restore the context.
BreakKeepsContext ==
    /\ InPlugin /\ Top.phase = "pre"
    /\ stack' = Below
    /\ UNCHANGED <<hooks, object, handleOf, registered, active>>

PreReturnsBreak ==
    /\ InPlugin /\ Top.phase = "pre"
    /\ Leave
    /\ UNCHANGED registry

\* The greatest result counts.
Latest(state, ret) == ret                 \* a mutant
Greatest(state, ret) == IF ret > state THEN ret ELSE state

PreReturns(ret) ==
    /\ InPlugin /\ Top.phase = "pre"
    /\ ret # HC_BREAK
    /\ LET r == [Returned(Top) EXCEPT
                   !.state = Greatest(@, ret),
                   !.heard = @ \cup ({ret} \cap {HC_SUPERCEDE, HC_BYPASS})]
       IN  stack' = SetTop(Advance(r))
    /\ UNCHANGED <<hooks, object, handleOf, registered, active>>

PostReturns(ret) ==
    /\ InPlugin /\ Top.phase = "post"
    /\ stack' = SetTop(IF ret = HC_BREAK THEN Break(Returned(Top))
                                         ELSE Advance(Returned(Top)))
    /\ UNCHANGED <<hooks, object, handleOf, registered, active>>

\* The loop in progress gives way to one over the memory buf.
StartLoop(r, phase, memory) ==
    [r EXCEPT !.phase = phase, !.pos = 1, !.rest = memory,
              !.stale = FALSE, !.ran = {}, !.shifted = FALSE]

StartPost(r) == StartLoop(r, "post", hooks[r.msg]["post"])

\* A mutant: the context stays active while the engine sends the message.
CallNextKeepsContext ==
    /\ Looping /\ Top.phase = "pre" /\ AtEnd
    /\ Top.state # HC_SUPERCEDE
    /\ stack' = SetTop(StartLoop(Top, "orig", <<>>))
    /\ UNCHANGED <<hooks, object, handleOf, registered, active>>

CallNext ==
    /\ Looping /\ Top.phase = "pre" /\ AtEnd
    /\ Top.state # HC_SUPERCEDE
    /\ stack' = SetTop(StartLoop(Top, "orig", <<>>))
    /\ active' = 0
    /\ UNCHANGED registry

SkipNext ==
    /\ Looping /\ Top.phase = "pre" /\ AtEnd
    /\ Top.state = HC_SUPERCEDE
    /\ stack' = SetTop(StartPost(Top))
    /\ UNCHANGED <<hooks, object, handleOf, registered, active>>

NextReturns ==
    /\ stack # <<>> /\ Top.phase = "orig"
    /\ stack' = SetTop(StartPost([Top EXCEPT !.called = TRUE]))
    /\ active' = Len(stack)
    /\ UNCHANGED registry

DispatchReturns ==
    /\ Looping /\ Top.phase = "post" /\ AtEnd
    /\ Leave
    /\ UNCHANGED registry

\* AMX Mod X runs a callback that is no message hook.
PluginCall ==
    /\ InGame
    /\ Len(stack) < MaxDepth
    /\ stack' = Append(stack, ForeignCall)
    /\ UNCHANGED <<hooks, object, handleOf, registered, active>>

PluginReturns ==
    /\ InPlugin /\ Top.phase = "foreign"
    /\ stack' = Below
    /\ UNCHANGED <<hooks, object, handleOf, registered, active>>

-----------------------------------------------------------------------------

Init ==
    /\ hooks = [m \in Msg |-> [l \in List |-> <<>>]]
    /\ object = [a \in Addr |-> "FREE"]
    /\ handleOf = [a \in Addr |-> H!InvalidHandle]
    /\ registered = [m \in Msg |-> 0]
    /\ stack = <<>>
    /\ active = 0

\* Reading the freed memory of a vector that has moved, or of a hook that has
\* been deleted, is undefined: the loop still finds the old contents (the
\* ordinary steps), or the process dies and the server starts afresh.
Crash ==
    /\ Looping /\ ~AtEnd
    /\ Top.stale \/ object[AtHook] = "FREE"
    /\ hooks' = [m \in Msg |-> [l \in List |-> <<>>]]
    /\ object' = [a \in Addr |-> "FREE"]
    /\ handleOf' = [a \in Addr |-> H!InvalidHandle]
    /\ registered' = [m \in Msg |-> 0]
    /\ stack' = <<>>
    /\ active' = 0

\* The handles a plugin may have got at some time, valid or not.
Handles ==
    {H!Encode(m, i, b) : m \in Msg, i \in 1 .. Cardinality(Addr), b \in BOOLEAN}

Native ==
    \/ \E m \in Msg \cup {0, MaxUserMsgs}, post \in BOOLEAN, a \in Addr, b \in BOOLEAN :
          RegisterMessage(m, post, a, b)
    \/ \E h \in Handles : UnregisterMessage(h)
    \/ \E h \in Handles : EnableHookMessage(h)
    \/ \E h \in Handles : DisableHookMessage(h)
    \/ SetMessageData
    \/ ResetModifiedMessageData

Loop ==
    \/ SkipHook
    \/ ExecuteForward
    \/ CallNext
    \/ SkipNext
    \/ DispatchReturns
    \/ Crash

Returns ==
    \/ PreReturnsBreak
    \/ \E ret \in HookChainState : PreReturns(ret)
    \/ \E ret \in HookChainState : PostReturns(ret)
    \/ NextReturns
    \/ PluginReturns

Outside ==
    \/ \E m \in Msg : Dispatch(m)
    \/ Returns
    \/ PluginCall
    \/ ServerDeactivate

Next == Native \/ Loop \/ Outside

Spec == Init /\ [][Next]_vars

\* Hooks and the engine are sequential code that returns: a frame that again
\* and again gets control back returns some time, and ReAPI's loops run on.
FairSpec ==
    /\ Spec
    /\ WF_vars(Loop)
    /\ \A d \in 1 .. MaxDepth : SF_vars(Len(stack) = d /\ Returns)

-----------------------------------------------------------------------------
(* Properties *)

\* The state has the types of the C++ declarations.
TypeOK ==
    /\ hooks \in [Msg -> [List -> Seq(Addr)]]
    /\ object \in [Addr -> {"FREE", "ENABLED", "STOPPED"}]
    /\ handleOf \in [Addr -> Int]
    /\ registered \in [Msg -> Nat]
    /\ stack \in Seq(Frame)
    /\ active \in 0 .. Len(stack)

\* The vectors hold exactly the hooks that are allocated, each once: none is
\* leaked and none dangles, so that neither a native nor a new dispatch ever
\* meets a deleted hook (addHook, removeHook, MessageHook::clear).
ListedAreAlive ==
    /\ {At(r) : r \in Registered} = {a \in Addr : object[a] # "FREE"}
    /\ \A r, q \in Registered : r # q => At(r) # At(q)

\* The message manager calls ReAPI for every message that has a hook, however
\* often hooks came and went (addHook, removeHook, MessageHook::clear).
HookedIsRegistered == \A m \in Msg : ~Empty(m) => registered[m] > 0

\* The natives act on the message whose hook is executing, and report "without
\* active hook" while the engine sends it: g_activeMessageContext always is
\* the context the call stack prescribes.
ActiveIsInnermost == Prescribed(stack, active, Len(stack))

\* What a plugin does changes no message but the one whose hook is executing
\* (SetMessageData, ResetModifiedMessageData).
OnlyActiveMessageChanges ==
    [][\A i \in DOMAIN stack \cap DOMAIN stack' :
          Prescribed(stack, i, Len(stack)) \/ stack'[i].modified = stack[i].modified]_vars

\* A handle that has been overtaken by UnregisterMessage names no hook of
\* another message or list, and none registered before its own.
HandleStaysInList ==
    \A q \in Registered : \A r \in Resolve(handleOf[At(q)]) :
        r[1] = q[1] /\ r[2] = q[2] /\ r[3] >= q[3]

\* A message runs each of its hooks at most once in a loop, whatever its hooks
\* register and unless they unregister one of that list (DispatchCallbacks).
NoHookRunsTwice ==
    \A i \in DOMAIN stack : LET r == stack[i] IN
        r.phase \in List /\ r.running /\ ~r.shifted => Head(r.rest) \notin r.ran

\* A message is withheld only if a hook asked for it, and is withheld if one
\* did, unless another one asked for HC_BYPASS.
WithheldOnDemand ==
    \A i \in DOMAIN stack : LET r == stack[i] IN
        r.phase = "post" =>
            /\ ~r.called => HC_SUPERCEDE \in r.heard
            /\ r.called /\ HC_SUPERCEDE \in r.heard => HC_BYPASS \in r.heard

\* Every dispatch ends, whatever its hooks register and unregister.
EveryDispatchReturns ==
    \A d \in 1 .. MaxDepth : Len(stack) >= d ~> Len(stack) < d

(* What the documentation says and the code does not do *)

\* UnregisterMessage takes "The handle of the message hook to unregister": the
\* handle RegisterMessage returned names its hook as long as that is there.
HandleNamesItsHook ==
    \A q \in Registered : Resolve(handleOf[At(q)]) = {q}
=============================================================================
