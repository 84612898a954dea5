------------------------------ MODULE HookChain ------------------------------
(***************************************************************************)
(* Hookchains: how a call of a hooked engine or game function travels      *)
(* through the plugins' pre callbacks, the original function and the post  *)
(* callbacks (hook_callback.h), and the natives by which a plugin, from    *)
(* inside such a callback, changes the registry or the call in progress    *)
(* (natives/natives_hookchains.cpp, hook_manager.cpp).                     *)
(*                                                                         *)
(* The program has one thread, but it is re-entrant: a callback may call a *)
(* native that makes the game call a hooked function, the original of a    *)
(* hooked function may call hooked functions, and either may make AMX Mod  *)
(* X run a plugin callback that is no hookchain callback at all.  The C++  *)
(* call stack is therefore a variable, and one step of the model is what   *)
(* runs between two points where control changes hands.                    *)
(***************************************************************************)
EXTENDS HookHandle, CallStack, Sequences, FiniteSets

CONSTANTS
    Func,           \* ids of the hookable functions the API offers
    VoidFunc,       \* those that return nothing: callVoidForward
    RefFunc,        \* those that return a reference: Vector &
    StringFunc,     \* those with a string argument: hasStringArgs
    StringsMax,     \* CTempStrings::STRINGS_MAX, 16 in the code
    MaxHandlers,    \* bound of the model: callbacks in one list
    MaxRegistered,  \* bound of the model: callbacks in all lists
    MaxDepth        \* bound of the model: frames on the call stack

ASSUME FuncAssumption ==
    /\ Func \subseteq Nat
    /\ IsFiniteSet(Func)
    /\ VoidFunc \subseteq Func
    /\ RefFunc \subseteq Func \ VoidFunc
    /\ StringFunc \subseteq Func

ASSUME BoundsAssumption ==
    /\ StringsMax \in Nat
    /\ MaxHandlers \in Nat
    /\ MaxRegistered \in Nat
    /\ MaxDepth \in Nat

VARIABLES
    forwards,   \* hook_t::pre and hook_t::post of every function
    chain,      \* how often each hookchain is registered with ReHLDS/ReGameDLL
    wasCalled,  \* hook_t::wasCalled of every function
    stack,      \* the calls in progress, the innermost last
    hookCtx,    \* g_hookCtx: the frame whose hookctx_t it points to, 0 if null
    tempUsed,   \* hookctx_t::s_temp_strings.m_current
    result      \* history: what the last call to return gave its caller

registry == <<forwards, chain>>
calls    == <<wasCalled, stack, hookCtx, tempUsed, result>>
vars     == <<forwards, chain, wasCalled, stack, hookCtx, tempUsed, result>>

-----------------------------------------------------------------------------
(* Data *)

Handler == [index : Int, state : {"ENABLED", "STOPPED"}]

\* Where a string argument of a call points to: the string of the caller,
\* a slot of the stack of temporary strings, or the one buffer that
\* get_temp_string returns when that stack is full.
CallersString == -1
SharedBuffer  == -2
StringArg     == {CallersString, SharedBuffer} \cup (0 .. StringsMax)

\* Whose value retVal holds: nobody's, the original function's, or the value
\* set by a callback of the call that is i-th on the stack (i > 0).
Nobody   == 0
Original == -1

\* What r, the n-th on the stack, has in retVal, by whose value it is; and what
\* a caller gets: "garbage" is memory that holds no value of the type.
Value(r, n) ==
    CASE r.ret = Nobody   -> "none"
      [] r.ret = Original -> "original"
      [] r.ret = n        -> "plugin"
      [] OTHER            -> "stranger"
Result == {"none", "original", "plugin", "stranger", "garbage"}

NoFunc == -1

\* One C++ activation.  "pre", "orig" and "post" are the stages of
\* callForward and callVoidForward; a "foreign" frame is a plugin callback
\* that AMX Mod X runs for something else than a hookchain (plugin_init, a
\* task, another module's forward).
Frame ==
    [ func    : Func \cup {NoFunc},
      phase   : {"pre", "orig", "post", "foreign"},
      pos     : Nat,              \* the loop's next (or running) callback
      end     : Nat,              \* end of the loop, taken when it starts
      running : BOOLEAN,          \* ExecuteForward is executing plugin code
      stale   : BOOLEAN,          \* the loop's iterators no longer are valid
      hc      : HookChainState,   \* hc_state
      index   : Int,              \* hookctx_t::index
      ret     : Int,              \* hookctx_t::retVal, Nobody when not set
      used    : Nat,              \* hookctx_t::tempstrings_used
      arg     : StringArg,        \* the string argument, if there is one
      save    : Nat,              \* `save' of callForward
      base    : Nat,              \* history: tempUsed when the call began
      called  : BOOLEAN,          \* history: the original has returned
      heard   : SUBSET HookChainState ]   \* history: see Heard

NewCall(f, saved, n) ==
    [ func |-> f, phase |-> "pre", pos |-> 1, end |-> n, running |-> FALSE,
      stale |-> FALSE, hc |-> HC_CONTINUE, index |-> 0, ret |-> Nobody,
      used |-> 0, arg |-> CallersString, save |-> saved, base |-> tempUsed,
      called |-> FALSE, heard |-> {} ]

ForeignCall ==
    [NewCall(NoFunc, hookCtx, 0) EXCEPT !.phase = "foreign", !.running = TRUE]

-----------------------------------------------------------------------------
(* The call stack *)

Top       == stack[Len(stack)]
Below     == SubSeq(stack, 1, Len(stack) - 1)
SetTop(r) == [stack EXCEPT ![Len(stack)] = r]

\* Plugin code is executing: it may call ReAPI's natives.
InPlugin == stack # <<>> /\ Top.running

\* A hooked function can be called: the engine is idle, an original function
\* is executing, or a plugin calls a native that makes the game call one.
InGame == stack # <<>> => Top.running \/ Top.phase = "orig"

\* The loop over the callbacks of a call is between two callbacks.
InLoop(list) == stack # <<>> /\ Top.phase = list /\ ~Top.running
Looping      == stack # <<>> /\ Top.phase \in List /\ ~Top.running

Empty(f) == forwards[f]["pre"] = <<>> /\ forwards[f]["post"] = <<>>

Registered == UNION {{<<f, l, i>> : i \in DOMAIN forwards[f][l]} :
                        f \in Func, l \in List}

-----------------------------------------------------------------------------
(* The registry: RegisterHookChain, EnableHookChain, DisableHookChain *)

\* getAmxxHook: <<f, list, position>> of the callback a handle names, if any.
Resolve(handle) ==
    LET f == FuncOf(handle)
        l == IF IsPost(handle) THEN "post" ELSE "pre"
        i == PosOf(handle)
    IN  IF f \in Func /\ i \in DOMAIN forwards[f][l]
        THEN {<<f, l, i>>} ELSE {}

\* A mutant: `first callback' decided by the one list instead of both.
RegisterPerList(f, l, realloc) ==
    /\ InPlugin
    /\ Len(forwards[f][l]) < MaxHandlers
    /\ Cardinality(Registered) < MaxRegistered
    /\ chain' = IF forwards[f][l] = <<>> THEN [chain EXCEPT ![f] = @ + 1] ELSE chain
    /\ LET n == Len(forwards[f][l]) + 1
           h == [index |-> Encode(f, n, l = "post"), state |-> "ENABLED"]
       IN  forwards' = [forwards EXCEPT ![f][l] = Append(@, h)]
    /\ UNCHANGED calls

\* addHandler.  The first callback of a function registers the hookchain.
\* push_back appends to the vector; a loop that is iterating over that vector
\* loses its iterators when the vector has to grow (realloc).
RegisterHookChain(f, l, realloc) ==
    /\ InPlugin
    /\ Len(forwards[f][l]) < MaxHandlers
    /\ Cardinality(Registered) < MaxRegistered
    /\ chain' = IF Empty(f) THEN [chain EXCEPT ![f] = @ + 1] ELSE chain
    /\ LET n == Len(forwards[f][l]) + 1
           h == [index |-> Encode(f, n, l = "post"), state |-> "ENABLED"]
       IN  forwards' = [forwards EXCEPT ![f][l] = Append(@, h)]
    /\ stack' = [i \in DOMAIN stack |->
                   [stack[i] EXCEPT !.stale =
                      @ \/ (realloc /\ stack[i].func = f /\ stack[i].phase = l)]]
    /\ UNCHANGED <<wasCalled, hookCtx, tempUsed, result>>

SetState(handle, state) ==
    /\ InPlugin
    /\ \E r \in Resolve(handle) :
          forwards' = [forwards EXCEPT ![r[1]][r[2]][r[3]].state = state]
    /\ UNCHANGED <<chain, wasCalled, stack, hookCtx, tempUsed, result>>

EnableHookChain(handle)  == SetState(handle, "ENABLED")
DisableHookChain(handle) == SetState(handle, "STOPPED")

\* A mutant: hook_t::clear without its test for callbacks.
DeactivateUnconditionally ==
    /\ \A i \in DOMAIN stack : stack[i].phase = "orig"
    /\ forwards' = [f \in Func |-> [l \in List |-> <<>>]]
    /\ chain' = [f \in Func |-> chain[f] - 1]
    /\ UNCHANGED calls

\* hooklist_t::clear, when the map ends.  AMX Mod X unloads the plugins then,
\* so no plugin callback is on the stack; originals may be (a console command
\* that changes the map runs inside a hooked function).
ServerDeactivate ==
    /\ \A i \in DOMAIN stack : stack[i].phase = "orig"
    /\ forwards' = [f \in Func |-> [l \in List |-> <<>>]]
    /\ chain' = [f \in Func |-> IF Empty(f) THEN chain[f] ELSE chain[f] - 1]
    /\ UNCHANGED calls

-----------------------------------------------------------------------------
(* The call in progress: SetHookChainReturn, SetHookChainArg *)

\* Writes retVal of the call g_hookCtx points to.  The value is modelled by
\* the call whose callback provides it.
SetHookChainReturn ==
    /\ InPlugin
    /\ hookCtx # 0
    /\ \E c \in DOMAIN stack :
          /\ Prescribed(stack, c, Len(stack))
          /\ stack' = [stack EXCEPT ![hookCtx].ret = c]
    /\ UNCHANGED <<forwards, chain, wasCalled, hookCtx, tempUsed, result>>

\* Redirects the string argument of the call g_hookCtx points to to a new
\* temporary string (get_temp_string, CTempStrings::push).  With the stack of
\* temporary strings full it is the buffer of an error message, 14 bytes that
\* getAmxString fills with as much as the plugin's string has: that Overflows,
\* and the process goes on with other static data overwritten (this action:
\* none of the data modelled lies there) or dies (Crash).
SettingString ==
    /\ InPlugin
    /\ hookCtx # 0
    /\ stack[hookCtx].func \in StringFunc
Overflows == SettingString /\ tempUsed = StringsMax
SetHookChainArg ==
    /\ SettingString
    /\ IF tempUsed = StringsMax
       THEN /\ stack' = [stack EXCEPT ![hookCtx].arg = SharedBuffer]
            /\ UNCHANGED tempUsed
       ELSE /\ stack' = [stack EXCEPT ![hookCtx].arg = tempUsed,
                                      ![hookCtx].used = @ + 1]
            /\ tempUsed' = tempUsed + 1
    /\ UNCHANGED <<forwards, chain, wasCalled, hookCtx, result>>

\* What the natives that only read report: GetHookChainReturn,
\* GetCurrentHookChainHandle, IsReapiHookOriginalWasCalled.
GetHookChainReturn == IF hookCtx = 0 THEN Nobody ELSE stack[hookCtx].ret
GetCurrentHookChainHandle ==
    IF hookCtx = 0 THEN InvalidHandle ELSE stack[hookCtx].index
IsReapiHookOriginalWasCalled(f) == wasCalled[f]

-----------------------------------------------------------------------------
(* Dispatch: callVoidForward and callForward *)

\* The engine calls a hooked function: a new hookctx_t becomes current.
Call(f) ==
    /\ InGame
    /\ chain[f] > 0
    /\ Len(stack) < MaxDepth
    /\ stack' = Append(stack, NewCall(f, hookCtx, Len(forwards[f]["pre"])))
    /\ hookCtx' = Len(stack) + 1
    /\ wasCalled' = [wasCalled EXCEPT ![f] = FALSE]
    /\ UNCHANGED <<forwards, chain, tempUsed, result>>

\* The callback the loop is at, and the end of the loop.
Advance(r) == [r EXCEPT !.pos = @ + 1]
Break(r) == [r EXCEPT !.pos = r.end + 1]
AtEndOfList == Top.pos > Len(forwards[Top.func][Top.phase])     \* a mutant
AtEnd      == Top.pos > Top.end
AtHandler  == forwards[Top.func][Top.phase][Top.pos]

\* The loop skips a callback that is not enabled.
SkipHandler ==
    /\ Looping
    /\ ~AtEnd
    /\ AtHandler.state # "ENABLED"
    /\ stack' = SetTop(Advance(Top))
    /\ UNCHANGED <<forwards, chain, wasCalled, hookCtx, tempUsed, result>>

\* SetId, then ExecuteForward hands control to the plugin.
ExecuteForward ==
    /\ Looping
    /\ ~AtEnd
    /\ AtHandler.state = "ENABLED"
    /\ stack' = SetTop([Top EXCEPT !.running = TRUE, !.index = AtHandler.index])
    /\ UNCHANGED <<forwards, chain, wasCalled, hookCtx, tempUsed, result>>

\* ExecuteForward is over: ResetId.
ReturnedKeepsId(r) == [r EXCEPT !.running = FALSE]      \* a mutant
Returned(r) == [r EXCEPT !.running = FALSE, !.index = 0]

\* A mutant: g_hookCtx is set to null instead of `save'.
LeaveToNoContext(given) ==
    /\ stack' = Below
    /\ hookCtx' = 0
    /\ result' = given
    /\ tempUsed' = IF Top.func \in StringFunc
                   THEN tempUsed - Top.used ELSE tempUsed

\* What is in retVal for the caller.  The early return of HC_BREAK refers a
\* caller that expects a reference to retVal itself, whatever is in it.
Given(r) ==
    IF r.func \in VoidFunc THEN "none" ELSE Value(r, Len(stack))
GivenEarly(r) ==
    IF r.func \in RefFunc THEN "garbage" ELSE Given(r)

\* callForward and callVoidForward return: the previous context is current
\* again, and the temporary strings of the call are released.
Leave(given) ==
    /\ stack' = Below
    /\ hookCtx' = Top.save
    /\ result' = given
    /\ tempUsed' = IF Top.func \in StringFunc
                   THEN tempUsed - Top.used ELSE tempUsed

\* A pre callback's result counts: always in _callVoidForward, but in
\* _callForward only SUPERCEDE and BREAK do, and only with a value set.
CountsUnset(ret) ==                                     \* a mutant
    Top.func \in VoidFunc \/ ret \in {HC_SUPERCEDE, HC_BREAK}
CountsVoidOnly(ret) ==                                  \* a mutant
    Top.func \in VoidFunc \/ (ret = HC_BREAK /\ Top.ret # Nobody)
Counts(ret) ==
    \/ Top.func \in VoidFunc
    \/ ret \in {HC_SUPERCEDE, HC_BREAK} /\ Top.ret # Nobody

\* History: what the pre callbacks of a call asked for.  Left out is a demand
\* that a call with a return value refuses with an error: to suppress the
\* original before any callback has set a value.
Heard(r, ret) ==
    IF r.func \notin VoidFunc /\ ret \in {HC_SUPERCEDE, HC_BREAK} /\ r.ret = Nobody
    THEN r.heard ELSE r.heard \cup {ret}

\* A mutant: the early return leaves out clear_temp_strings.
BreakKeepsStrings ==
    /\ InPlugin /\ Top.phase = "pre"
    /\ Counts(HC_BREAK)
    /\ stack' = Below
    /\ hookCtx' = Top.save
    /\ UNCHANGED <<forwards, chain, wasCalled, tempUsed, result>>

PreReturnsBreak ==
    /\ InPlugin /\ Top.phase = "pre"
    /\ Counts(HC_BREAK)
    /\ Leave(GivenEarly(Top))
    /\ UNCHANGED <<forwards, chain, wasCalled>>

\* A mutant: the last result wins, not the greatest.
PreReturnsLast(ret) ==
    /\ InPlugin /\ Top.phase = "pre"
    /\ ~(ret = HC_BREAK /\ Counts(ret))
    /\ LET r == [Returned(Top) EXCEPT !.heard = Heard(Top, ret)]
           s == IF Counts(ret) THEN [r EXCEPT !.hc = ret] ELSE r
       IN  stack' = SetTop(IF Top.func \in VoidFunc /\ ret = HC_BYPASS
                           THEN Break(s) ELSE Advance(s))
    /\ UNCHANGED <<forwards, chain, wasCalled, hookCtx, tempUsed, result>>

PreReturns(ret) ==
    /\ InPlugin /\ Top.phase = "pre"
    /\ ~(ret = HC_BREAK /\ Counts(ret))
    /\ LET r == [Returned(Top) EXCEPT !.heard = Heard(Top, ret)]
           s == IF Counts(ret) /\ ret > r.hc THEN [r EXCEPT !.hc = ret] ELSE r
       IN  stack' = SetTop(IF Top.func \in VoidFunc /\ ret = HC_BYPASS
                           THEN Break(s) ELSE Advance(s))
    /\ UNCHANGED <<forwards, chain, wasCalled, hookCtx, tempUsed, result>>

PostReturns(ret) ==
    /\ InPlugin /\ Top.phase = "post"
    /\ LET r == Returned(Top)
           stop == \/ ret = HC_BREAK
                   \/ Top.func \in VoidFunc /\ ret = HC_BYPASS
       IN  stack' = SetTop(IF stop THEN Break(r) ELSE Advance(r))
    /\ UNCHANGED <<forwards, chain, wasCalled, hookCtx, tempUsed, result>>

\* The loop over the post callbacks starts; in a void call not after BYPASS.
StartPost(r) ==
    [r EXCEPT !.phase = "post", !.pos = 1, !.stale = FALSE,
              !.end = IF r.func \in VoidFunc /\ r.hc = HC_BYPASS
                      THEN 0 ELSE Len(forwards[r.func]["post"])]

\* A mutant: g_hookCtx is not cleared around the original.
OriginalKeepsContext ==
    /\ InLoop("pre") /\ AtEnd
    /\ Top.hc # HC_SUPERCEDE
    /\ stack' = SetTop([Top EXCEPT !.phase = "orig", !.stale = FALSE])
    /\ UNCHANGED <<forwards, chain, wasCalled, hookCtx, tempUsed, result>>

CallOriginal ==
    /\ InLoop("pre") /\ AtEnd
    /\ Top.hc # HC_SUPERCEDE
    /\ stack' = SetTop([Top EXCEPT !.phase = "orig", !.stale = FALSE])
    /\ hookCtx' = 0
    /\ UNCHANGED <<forwards, chain, wasCalled, tempUsed, result>>

SkipOriginal ==
    /\ InLoop("pre") /\ AtEnd
    /\ Top.hc = HC_SUPERCEDE
    /\ stack' = SetTop(StartPost(Top))
    /\ UNCHANGED <<forwards, chain, wasCalled, hookCtx, tempUsed, result>>

\* A mutant: the original's value replaces one that a plugin has set.
OriginalReturnsOverwrites ==
    /\ stack # <<>> /\ Top.phase = "orig"
    /\ LET r == [Top EXCEPT !.called = TRUE,
                            !.ret = IF Top.func \notin VoidFunc
                                    THEN Original ELSE @]
       IN  stack' = SetTop(StartPost(r))
    /\ hookCtx' = Len(stack)
    /\ wasCalled' = [wasCalled EXCEPT ![Top.func] = TRUE]
    /\ UNCHANGED <<forwards, chain, tempUsed, result>>

\* `g_hookCtx = hookCtx' after the original: the frame's own context.
OriginalReturns ==
    /\ stack # <<>> /\ Top.phase = "orig"
    /\ LET r == [Top EXCEPT !.called = TRUE,
                            !.ret = IF Top.func \notin VoidFunc /\ @ = Nobody
                                    THEN Original ELSE @]
       IN  stack' = SetTop(StartPost(r))
    /\ hookCtx' = Len(stack)
    /\ wasCalled' = [wasCalled EXCEPT ![Top.func] = TRUE]
    /\ UNCHANGED <<forwards, chain, tempUsed, result>>

CallReturns ==
    /\ InLoop("post") /\ AtEnd
    /\ Leave(Given(Top))
    /\ wasCalled' = [wasCalled EXCEPT ![Top.func] = FALSE]
    /\ UNCHANGED registry

\* AMX Mod X runs a callback that is no hookchain callback.
PluginCall ==
    /\ InGame
    /\ Len(stack) < MaxDepth
    /\ stack' = Append(stack, ForeignCall)
    /\ UNCHANGED <<forwards, chain, wasCalled, hookCtx, tempUsed, result>>

PluginReturns ==
    /\ InPlugin /\ Top.phase = "foreign"
    /\ stack' = Below
    /\ UNCHANGED <<forwards, chain, wasCalled, hookCtx, tempUsed, result>>

-----------------------------------------------------------------------------

Init ==
    /\ forwards = [f \in Func |-> [l \in List |-> <<>>]]
    /\ chain = [f \in Func |-> 0]
    /\ wasCalled = [f \in Func |-> FALSE]
    /\ stack = <<>>
    /\ hookCtx = 0
    /\ tempUsed = 0
    /\ result = "none"

\* Reading through invalid iterators is undefined: the loop still finds the
\* old contents of the vector (the ordinary steps), or the process dies and
\* the server starts afresh.  So is writing past the end of a buffer.
Crash ==
    /\ \/ Looping /\ Top.stale /\ ~AtEnd
       \/ Overflows
    /\ forwards' = [f \in Func |-> [l \in List |-> <<>>]]
    /\ chain' = [f \in Func |-> 0]
    /\ wasCalled' = [f \in Func |-> FALSE]
    /\ stack' = <<>>
    /\ hookCtx' = 0
    /\ tempUsed' = 0
    /\ result' = "none"

Handles == {forwards[r[1]][r[2]][r[3]].index : r \in Registered}
             \cup {InvalidHandle}

Native ==
    \/ \E f \in Func, l \in List, b \in BOOLEAN : RegisterHookChain(f, l, b)
    \/ \E h \in Handles : EnableHookChain(h)
    \/ \E h \in Handles : DisableHookChain(h)
    \/ SetHookChainReturn
    \/ SetHookChainArg

Loop ==
    \/ SkipHandler
    \/ ExecuteForward
    \/ CallOriginal
    \/ SkipOriginal
    \/ CallReturns
    \/ Crash

Outside ==
    \/ \E f \in Func : Call(f)
    \/ PreReturnsBreak
    \/ \E ret \in HookChainState : PreReturns(ret)
    \/ \E ret \in HookChainState : PostReturns(ret)
    \/ OriginalReturns
    \/ PluginCall
    \/ PluginReturns
    \/ ServerDeactivate

Next == Native \/ Loop \/ Outside

Spec == Init /\ [][Next]_vars

-----------------------------------------------------------------------------
(* Properties *)

\* The state has the types of the C++ declarations; in particular a hookchain
\* is never unregistered more often than it was registered.
TypeOK ==
    /\ forwards \in [Func -> [List -> Seq(Handler)]]
    /\ chain \in [Func -> Nat]
    /\ wasCalled \in [Func -> BOOLEAN]
    /\ stack \in Seq(Frame)
    /\ hookCtx \in 0 .. Len(stack)
    /\ tempUsed \in 0 .. StringsMax
    /\ result \in Result

\* A function's hookchain is registered with the game library exactly while
\* the function has a callback, and once (addHandler, hook_t::clear).
RegisteredOnce ==
    \A f \in Func : chain[f] = IF Empty(f) THEN 0 ELSE 1

\* The handle of a callback resolves to that callback and to no other, so
\* that EnableHookChain and DisableHookChain act on the callback they were
\* given, whatever has been registered since (addHandler, getAmxxHook).
HandleNamesItsHandler ==
    \A r \in Registered : Resolve(forwards[r[1]][r[2]][r[3]].index) = {r}

\* The natives act on the call whose callback is executing, and report "no
\* active hook" inside an original function: g_hookCtx always is the context
\* the call stack prescribes, after any nesting of calls and any way out of
\* them (callForward, callVoidForward).
ContextIsInnermost == Prescribed(stack, hookCtx, Len(stack))

\* What a plugin does changes the return value and the arguments of no call
\* but the one whose callback is executing; the original's value goes to the
\* call of that original (SetHookChainReturn, SetHookChainArg).
OnlyTheCurrentCallChanges ==
    [][\A i \in DOMAIN stack \cap DOMAIN stack' :
          \/ Prescribed(stack, i, Len(stack))
          \/ i = Len(stack) /\ stack[i].phase = "orig"
          \/ stack'[i].ret = stack[i].ret /\ stack'[i].arg = stack[i].arg]_vars

\* A string argument that points to a temporary string points to one in use,
\* and no two arguments share one; all slots are free when no call is in
\* progress (get_temp_string, clear_temp_strings, CTempStrings).
OwnSlot(r) == r.arg \in 0 .. (StringsMax - 1)
TempStringsSound ==
    /\ \A i \in DOMAIN stack : OwnSlot(stack[i]) => stack[i].arg < tempUsed
    /\ \A i, j \in DOMAIN stack :
          i # j /\ OwnSlot(stack[i]) => stack[i].arg # stack[j].arg
    /\ stack = <<>> => tempUsed = 0

\* The value of a call that returns one is there when it is needed: by the
\* post stage it is set, to the value of one of the call's own callbacks or of
\* its own original; the original's value only if the original ran, and a
\* plugin's value if it did not (_callForward).
ReturnValueSound ==
    \A i \in DOMAIN stack : LET r == stack[i] IN
        /\ r.ret \in {Nobody, Original, i}
        /\ r.ret = Original => r.called
        /\ r.phase = "post" /\ r.func \notin VoidFunc =>
              r.ret # Nobody /\ (~r.called => r.ret = i)
        /\ i = Len(stack) /\ r.running /\ r.phase = "post" /\ r.func \notin VoidFunc =>
              GetHookChainReturn \in {Original, i}

\* A further callback of the call runs after HC_BYPASS.
BypassedRuns(r) ==
    r.phase \in List /\ r.running /\ HC_BYPASS \in r.heard

\* The original is skipped only at the demand of a pre callback of this very
\* call, and such a demand is obeyed, in calls with a return value as in those
\* without: the original neither runs nor has run after a SUPERCEDE, unless the
\* call is a void one and a BYPASS has overridden it, and after a BREAK the call
\* is over.  In a void call nothing runs after a BYPASS (enum HookChainState:
\* "Skip calls for all following AMXX plugins").
SkippedOnDemand ==
    \A i \in DOMAIN stack : LET r == stack[i] IN
        /\ r.phase = "post" /\ ~r.called => HC_SUPERCEDE \in r.heard
        /\ (r.phase = "orig" \/ r.called) /\ HC_SUPERCEDE \in r.heard =>
              r.func \in VoidFunc /\ HC_BYPASS \in r.heard
        /\ HC_BREAK \notin r.heard
        /\ r.func \in VoidFunc => ~BypassedRuns(r)

\* What natives answer about calls.  A callback that asks for its handle gets the
\* handle of the callback that is executing in its call, however deeply ReAPI has
\* been re-entered from it meanwhile; outside any callback of the call the handle
\* is invalid (SetId, ResetId, GetCurrentHookChainHandle).  And
\* IsReapiHookOriginalWasCalled never claims too much: while it answers TRUE the
\* innermost call of the function is past its original, which did run.
CallsOf(f) == {i \in DOMAIN stack : stack[i].func = f}
CallAnswersSound ==
    /\ InPlugin /\ hookCtx # 0 =>
          Resolve(GetCurrentHookChainHandle) =
             {<<stack[hookCtx].func, stack[hookCtx].phase, stack[hookCtx].pos>>}
    /\ \A i \in DOMAIN stack :
          stack[i].phase = "foreign" \/ ~stack[i].running =>
             stack[i].index = InvalidHandle
    /\ \A f \in Func : wasCalled[f] =>
          \E i \in CallsOf(f) :
            /\ \A j \in CallsOf(f) : j <= i
            /\ stack[i].phase = "post" /\ stack[i].called

\* A loop over callbacks comes to its end whatever its callbacks do.  How many
\* callbacks it has left is settled when it starts: what they register for the
\* same function never adds to it, only a callback that is left runs, and one
\* that has run or is passed over no longer is left, so that a callback that
\* registers another one each time it runs keeps no call going for ever (the
\* range-based for of callForward and callVoidForward: it takes its end once).
Left(r) == r.end + 1 - r.pos
LoopsRunDown ==
    [][\A i \in DOMAIN stack \cap DOMAIN stack' :
          LET r == stack[i]  s == stack'[i] IN
          r.phase \in List /\ s.phase = r.phase =>
              /\ Left(s) <= Left(r)
              /\ s.running => Left(s) > 0
              /\ r # s /\ ~s.running => Left(s) < Left(r)]_vars

\* HookChain implements HookCalls, where only HC_BREAK and functions that
\* return a reference do not go together.
Stage(r) ==
    CASE r.phase = "pre"  -> "before"
      [] r.phase = "orig" -> "in"
      [] r.phase = "post" -> "after"
      [] OTHER            -> "foreign"
AbstractCall(r, n) ==
    [func |-> r.func, stage |-> Stage(r), value |-> Value(r, n),
     argument |-> IF r.arg = CallersString THEN "caller" ELSE "plugin"]
Calls == INSTANCE HookCalls
            WITH calls <- [i \in DOMAIN stack |-> AbstractCall(stack[i], i)]

\* What a call does to its caller, its original and the calls around it is
\* what HookCalls promises, whatever the callbacks register, return and call
\* (callForward, callVoidForward, SetHookChainReturn, SetHookChainArg).
ImplementsHookCalls == Calls!Spec

(* What the documentation says and the code does not do *)

\* The same for the calls that return a value.
BypassSkips == \A i \in DOMAIN stack : ~BypassedRuns(stack[i])

\* IsReapiHookOriginalWasCalled "Returns true if the API original function was
\* called": in a post callback it tells whether the original of its call ran.
WasCalledExact ==
    InPlugin /\ Top.phase = "post" =>
        IsReapiHookOriginalWasCalled(Top.func) = Top.called

\* HC_BREAK: "Skip all forwards and real function, use my return value".
CallersGetValues == result \in {"none", "original", "plugin"}
=============================================================================
