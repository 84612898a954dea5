# ReAPI in TLA+

ReAPI is a module of AMX Mod X: it lets plugins hook the functions of the
ReHLDS engine and the ReGameDLL game library, hook network messages, attach
callbacks to single entities and reach into the game's objects. This directory
models the parts of it that keep state, checks them with TLC and proves some of
their properties with TLAPS. `src/reapi/src` is meant wherever a source file is
named below.

Everything runs on one thread. What makes the code hard is **re-entrancy**:
between two lines of a ReAPI function AMX Mod X executes plugin code, and plugin
code calls ReAPI's natives, makes the game call hooked functions, sends
messages, frees entities. The models therefore have the C++ call stack as a
variable, and a step of a model is the code between two points where control
passes from ReAPI to a plugin or the game, or back.

## Inventory

| Component | State | Operations | Hard behaviour | Correct when |
|---|---|---|---|---|
| Hookchain registry: `hook_manager.*`, `amx_hook.*` | per function two lists of callbacks with their state; whether the hookchain is registered with the game library | register, enable, disable, clear at the end of a map | a list grows while a loop iterates over it; cleared while originals are on the stack; handles packed into one cell | a handle names its callback and no other; registered with the library exactly while there is a callback |
| Hookchain dispatch: `hook_callback.h` | `g_hookCtx`, one `hookctx_t` per call in progress, `hook_t::wasCalled`, the stack of temporary strings | pre callbacks, the original, post callbacks; early return, skipping, bypassing | calls nested in callbacks and in originals; the results of several callbacks combine | natives act on the call whose callback runs; no value from nowhere; originals are skipped only on demand; strings are released |
| Hookchain natives: `natives/natives_hookchains.*` | two rings of 16 temporary values | return value, arguments, current handle, was-called | values of outer calls overwritten by inner ones | a value survives exactly 15 later ones |
| Hook wrappers and tables: `hook_callback.cpp`, `hook_list.*`, `type_conversion.h` | none of their own | convert arguments and return values to cells and back, find a function by its number | some 200 wrappers written by hand, a dozen conversions, tables beside enumerations | a call through the plugins is the call that the caller made, but for what they changed |
| Entity callbacks: `entity_callback_dispatcher.*`, `amx_SetThink` and its like in `natives/natives_common.cpp` | list of callbacks, list of marks, a flag | set, unset, dispatch, delete | removed while executing, nested dispatch, freed entities and reused addresses | one live callback per entity and type, none outlives its entity, marks never dangle |
| Message hooks: `hook_message_manager.*`, `natives/natives_hookmessage.cpp` | per message two lists; the active message | register, unregister, enable, disable, dispatch, read and change the message | lists change under the loop, nested messages, handles shift when a hook goes, each part of a message converted in its own way | the natives act on the active message; what is set is read back; the original comes back |
| File queries: `mods/queryfile_handler.*`, `natives/natives_rechecker.cpp` | list of queries with two ids each | register, unregister, answer, clear | unregistered inside its own callback | an answer reaches the query it belongs to, once, and is not dropped |
| Life cycle: `main.cpp`, `api_config.*`, `dllapi.cpp`, `engine_api.cpp`, `meta_api.cpp` | which partner APIs are there, which one-shot hooks are armed, the saved map name | attach, detach, map start and end, renaming the map | order of attach and first spawn, version mismatch found late, maps loaded in several ways | one-shot hooks run once a map; nothing of the old map survives; the true name of the map is known |
| Partner APIs: `mods/mod_*_api.cpp` | pointers into the other libraries | find a library and compare versions | a library may be absent, too old or too new, each in its own order | only APIs that fit are used |
| Member access: `member_list.*`, `natives/natives_members.cpp` | none of its own | get and set members by name | parameters counted by hand; widths, signs and strings; tables beside enumerations | what is set is read back, and nothing else changes |
| Team and bomb natives: in `natives/natives_misc.cpp` | the game's teams, counts, bomb and kits | move a player, hand over the bomb, give a kit | plugins run in the middle and do the same to the same players | counts are those of the players; the bomb is in one place |
| Game natives: `natives/natives_misc.cpp`, `natives/natives_common.cpp`, `reapi_utils.cpp`, `common/info.cpp` | almost none; info strings and an entity's model data belong to the engine | some 250 single calls into the game | each chooses its checks by hand; checked before, used after plugins have run | nothing is used that is not there |
| Reunion and voice natives: `natives/natives_reunion.cpp`, `natives/natives_vtc.cpp` | handlers at VoiceTranscoder | single calls | the library may be absent | as above |
| Glue: `amxxmodule.*`, `sdk_util.cpp`, `h_export.cpp` | imported functions | - | - | - |

Components interact through the game: a native called from one component's
callback makes the game call a hooked function, send a message or run an
entity's function, which enters the next component. The map's end
(`ServerDeactivate_Post`) clears all of them in turn.

## Modules and plan

| Module | Models | State |
|---|---|---|
| `HookHandle`, `CallStack`, `HookChain` | registry and dispatch of hookchains | checked, proved |
| `HookCalls` | what a hooked call promises; `HookChain` implements it | checked, proved |
| `EntityCallback` | entity callbacks | checked, proved |
| `MessageHook` | registry and dispatch of message hooks | checked, proved |
| `QueryFile` | file queries | checked, proved |
| `Lifecycle` | the module's and the map's life, versions of the partner APIs | checked, proved |
| `Server` | `Lifecycle` with `QueryFile` | checked, proved |
| `TempRings` | the rings of returned values | checked, proved |
| `Wrappers`, `TypeConversion` | arguments and return values on their way through a wrapper | checked, proved |
| `Members` | members of the game's objects | checked, proved |
| `Natives` | the checks of the natives and what they use | checked, proved |
| `Teams` | teams, bomb, defuse kits | checked, proved |
| `Info` | the engine's key-value strings | checked, proved |
| `MessageData` | the parts of a message | checked, proved |
| `Ids` | numbers of functions and members, and the check of the tables | checked |
| `Models` | bones, sequences and body parts | checked, proved |
| `MCServer` | all from `QueryFile` down, for TLC | checked |

Every safety property of the parts that have state of their own is proved; what the
plan has left is listed under "Proved and only model-checked".

## HookChain

`HookHandle` holds the pure operators that pack and unpack a handle; `CallStack`
holds what dispatch of hookchains and of messages have in common: the results a
callback may return, the two lists, and `Prescribed`, the context that a stack of
activations prescribes. `HookChain` extends both. Variables and what they stand for:

| Variable | Code |
|---|---|
| `forwards[f]["pre"]`, `["post"]` | `hook_t::pre`, `hook_t::post`: sequences of `[index, state]` |
| `chain[f]` | how often the hookchain of f is registered with ReHLDS or ReGameDLL |
| `wasCalled[f]` | `hook_t::wasCalled` |
| `stack` | the activations of `callForward`, `callVoidForward` and of plugin callbacks that are no hookchain callbacks |
| `hookCtx` | `g_hookCtx`, as the position of the frame whose `hookctx_t` it points to |
| `tempUsed` | `CTempStrings::m_current` |
| `result` | history: what the call that returned last gave its caller |

A frame holds the local variables of the activation (the loop's position and
end, `hc_state`, `save`) and its `hookctx_t` (the current handle, the return
value, the temporary strings used). Four fields are history that the code does
not have: `base`, `called` and `heard` are for the properties and no guard reads
them; `stale` says that the vector has grown under the loop.

Abstractions. A return value is modelled by where it comes from: the original,
or the call whose callback set it. `RefFunc` are the functions that return a
reference, for which the early return of `HC_BREAK` hands out something else than
the value (`GivenEarly`). A string argument is modelled by where it
points to. The other arguments carry no state. The functions are natural
numbers; the program's regions of function ids are left out, for what matters
is that ids are distinct.

Actions: one for each native, one for each point where a loop moves on
(`SkipHandler`, `ExecuteForward`), the returns of a callback by their effect
(`PreReturnsBreak`, `PreReturns`, `PostReturns`), the original (`CallOriginal`,
`SkipOriginal`, `OriginalReturns`), the start and end of a call (`Call`,
`CallReturns`), a callback of another module (`PluginCall`, `PluginReturns`),
and the map's end.

Assumptions, all in comments at their actions:

* AMX Mod X unloads the plugins when the map ends, so no plugin callback is on
  the stack then; originals may be.
* Registering a callback in the list that a loop is iterating over may move
  the vector. Going on with the old iterators is undefined behaviour; the
  model has two outcomes, the old contents are still there, or the process
  dies and the server starts afresh (`Crash`).

### HookCalls

`HookCalls` says what a hooked call promises, without callbacks, lists, results,
contexts and loops: a stack of calls, each before, in or after its original and
with a value that is none, the plugins' or the original's. The original runs at
most once and between the pre and the post callbacks, it may be left out only if
there is a value in its place, a value that a plugin has set is kept, plugins act
on the innermost call only, and the caller gets the value.

`HookChain` implements it (`ImplementsHookCalls`): the phases of a frame become
stages, and whose value it holds becomes the value, where the value of any other
call would be a `"stranger"`, which `HookCalls` does not know. Registering,
starting a callback and the results of callbacks are stuttering steps. A call that
ends with `HC_BREAK` implements `Return` only if the function returns no
reference, so the run and the theorem have `RefFunc` empty, and
`hookchain_reference` shows why.

### Runs

| Run | Instance | Shows |
|---|---|---|
| `hookchain` | a void function with a string argument and a function with a value, `MAX_HOOK_FORWARDS` 2, 2 temporary strings, 2 callbacks, 2 frames | six invariants, `OnlyTheCurrentCallChanges` and `ImplementsHookCalls` under every nesting of two calls (824,000 states) |
| `hookchain_lists` | both functions, no strings, 4 callbacks with `MAX_HOOK_FORWARDS` 4, 1 frame | what depends on long lists: handles (`HandleNamesItsHandler`), combined results (`SkippedOnDemand`), and a list that grows under its loop (`LoopsRunDown`; 223,000 states) |
| `hookchain_bypass` | one function with a value | `BypassSkips` fails: see Findings |
| `hookchain_wascalled` | one void function | `WasCalledExact` fails: see Findings |
| `hookchain_reference` | one function that returns a reference | `CallersGetValues` fails: see Findings |

Bounds: `MaxHandlers` callbacks in a list, `MaxRegistered` in all lists,
`MaxDepth` frames. Two callbacks are enough for the results of one to combine
with those of the next; four let a list that has callbacks left to run grow
under its loop, and, with `MAX_HOOK_FORWARDS` 4, a list be full. Two temporary
strings are enough for the stack of strings to be shared by two calls and to run
out. Two frames nest a call of a function in its own callback or original, or a
foreign callback in a hookchain callback. What depends on deeper nesting is the saved
contexts and the temporary strings, and those are proved for any depth.

`LoopsRunDown` is how the runs and the proof see that a loop over callbacks ends. That
every loop ends could not show in a run: the lists are capped, so that a loop which
read the growing list's end anew would come to the cap. What can show is that a
callback registered under the loop adds nothing to what the loop has left to do, and
that this falls with every callback that has run or is passed over. No fairness is
needed.

`SkippedOnDemand` says both that an original is left out on demand only and that a demand that
counts is obeyed, in functions with and without a value; a demand without a value in
its place is refused with an error (`hook_callback.h:253`) and does not count
(`Heard`).

With the stack of temporary strings full, `get_temp_string` hands out a static buffer
of 14 bytes that holds the text of an error (`hook_callback.h:131`), and
`SetHookChainArg` fills it with up to 1023 characters. That (`Overflows`) has two outcomes: the arguments concerned share the
buffer, and what lies behind it is none of the data modelled; or the process dies
(`Crash`).

### Proofs

`HookHandleProofs`: `RoundTrip`, for every function id and every position from 1
to `MAX_HOOK_FORWARDS` unpacking is the inverse of packing.

`HookChainProofs` proves for every set of functions, every bound and every
number of frames:

* `TypeCorrect`: `Spec => []TypeOK`
* `RegisteredOnceAlways`: `Spec => []RegisteredOnce`
* `ContextAlwaysInnermost`: `Spec => []ContextIsInnermost`
* `HandlesNameTheirHandlers`: `Spec => []HandleNamesItsHandler`, if no list
  gets longer than `MAX_HOOK_FORWARDS` (the code does not check that).

All four follow from `Invariance`, `Spec => []IInv`. `ContextIsInnermost` alone
is not inductive: when a call returns, `g_hookCtx` becomes what the call
saved, and that this is the right context for the frames below has to be
known for every frame on the stack, not only the top. `ContextInv` says it: for
every frame that is a hooked call, the saved context is what the frames below it
prescribe. `TempInv` does the same for the temporary strings: the strings used
by the frames add up level by level, so that releasing a call's strings never
takes `m_current` below zero, which `TypeOK` needs. `LoopInv` bounds the
position of each loop by its list, which needs the deactivation's guard.

`HookCallsProofs` goes on from there:

* `ReturnValueAlwaysSound`: `Spec => []ReturnValueSound`
* `ImplementsCalls`: `Spec => ImplementsHookCalls`, if no function returns a
  reference.

Both follow from `ValueInvariance`, `Spec => [](IInv /\ ValueInv)`. That a post
callback finds a value needs to know that a pre callback whose `HC_SUPERCEDE`
counted had set one, and that nobody takes it away again; and that
the value is the call's own needs `ContextIsInnermost`, for
`SetHookChainReturn` writes where `g_hookCtx` points. `ValueInv` says so of every
frame. The refinement has one lemma for each action, which says what it does to
the sequence of calls that the stack stands for (`AbsOf`), and one for each kind
of step of `HookCalls` (`PushStep`, `PopStep`, `LastStep`, `CurrentStep`).

* `SkippedOnDemandAlways`: `Spec => []SkippedOnDemand`
* `TempStringsAlwaysSound`: `Spec => []TempStringsSound`
* `AnswersAlwaysSound`: `Spec => []CallAnswersSound`, if no list gets longer than
  `MAX_HOOK_FORWARDS`, for it speaks of handles
* `OtherCallsUntouched`: `Spec => OnlyTheCurrentCallChanges`
* `LoopsAlwaysRunDown`: `Spec => LoopsRunDown`

These need `InfoInvariance`, `Spec => [](IInv /\ HandleInv /\ CallInfoInv)`.
`CallInfoInv` says of every frame what its loop's state tells of the results so far
(`DemandOK`), that its temporary string lies among its own (`SlotOK`), and whose
handle it has (`IndexOK`). Three parts relate frames. `StringsOK`: the strings of a
call begin where those of the next call below it end, and `m_current` is where the
topmost ends, so that two calls' strings are apart. `WaitsOK`: every frame below
the top is running a callback or its original, without which a loop could move
on under a nested call. `WasCalledOK`: `wasCalled` is set only while the innermost
call of the function is past its original, which is what the flag still promises
although it belongs to the function and not to the call.
`OtherCallsUntouched` follows from `ContextIsInnermost`, one action at a time, and
`LoopsAlwaysRunDown` from what the invariant says of the position and the end of every loop.

The assumptions are those of the modules: `MaxForwards` is positive, the
functions are a finite set of natural numbers with the subsets named, and the
bounds are natural numbers.

## EntityCallback

`callbacks` is `m_callbacks`, in order, each with an address, `marks` is
`m_callbacksMarkForDeletion`, `processing` is `m_bIsProcessingCallbacks`, `armed`
the entity functions that point to `SUB_Think` and its like, `ents` the entities
that exist, and `stack` the dispatches in progress. Addresses are explicit so
that the address of a deleted callback, or of a freed entity, can be given out
again. `valid` and `reentered` are history.

The five types of callbacks differ only in that `MoveDone` needs a
`CBaseToggle`; the runs have `Think` and `MoveDone`. User parameters and the
forwards are left out; that the parameters are copied back to a callback that
has been deleted meanwhile appears as `Crash`.

| Run | Instance | Shows |
|---|---|---|
| `entity` | a door (a `CBaseToggle`) and a box, 3 addresses, dispatches 2 deep, fair | `MarksAreListed`, `OneCallbackPerSlot`, `ProtectedUntilReentered`, and that what is marked is deleted some time (197,000 states) |
| `entity_executing` | a door | `ExecutingNotDeleted` fails: see Findings |

Three addresses let a slot hold a marked callback and its successor while a
third is free to be given out again. Two dispatches are enough for one to end
inside another, which is where the flag and the marks go wrong. Fairness: a callback that gets control back again and
again returns some time, for each depth; nothing is assumed of the game.

`EntityCallbackProofs` proves the four invariants for every set of entities, types
and addresses and any depth: `TypeCorrectness`, `MarksNeverDangle`,
`SlotsAreExclusive`, `ProtectionHolds`. The inductive invariant says of the list and
the marks (`ListOK`) that addresses are unique, that a slot has one
unmarked callback, that unmarked ones have their entity and that marks are listed;
of the stack (`FramesOK`) that the flag is set as long as some dispatch has had none
end inside it; and that marks imply the flag, and the flag a dispatch (`FlagOK`). It is the
last two together that keep the end of a nested dispatch from leaving marks behind
with the flag cleared. What a purge leaves of the list is defined by counting off
the callbacks kept (`Kept`, `Nth`), so that it needs no induction: `WithoutFacts`.

## MessageHook

| Variable | Code |
|---|---|
| `hooks[m]["pre"]`, `["post"]` | `MessageHook::pre`, `MessageHook::post`: sequences of addresses |
| `object[a]` | the `CAmxxHookBase` at an address: its state, or free memory |
| `registered[m]` | how often `RoutineMessageCallbacks` is registered for the message with ReHLDS |
| `stack` | the activations of `DispatchCallbacks` and of plugin callbacks that are no message hooks |
| `active` | `g_activeMessageContext`, as the position of the frame whose message it points to |
| `handleOf` | history: what `RegisterMessage` returned for the hook at an address |

Handles are those of `HookHandle` with 256 positions to a message.

A message hook can be unregistered at any time, which makes the difference from
hookchains: the loop of `DispatchCallbacks` holds an iterator and the end its
vector had at the start, and `UnregisterMessage` deletes a hook and shifts its
successors under it. The model keeps, in `rest`, the memory that the loop has
yet to read. `Reread` is what that memory holds after a change in place: the
vector's new elements, and behind its end what was there before, which may be
the address of a deleted hook. If an addition makes the vector grow, it moves,
and the loop reads on in freed memory (`stale`). Whatever is undefined there has
two outcomes: the old contents are still there, in which case a deleted hook is
either skipped or, when its address has been given to a new hook, run as that
one; or the process dies (`Crash`).

Actions: the natives (`RegisterMessage` and `UnregisterMessage`, which check the
message's number and the handle and call `addHook` and `removeHook`, `EnableHookMessage`,
`DisableHookMessage`, `SetMessageData`, `ResetModifiedMessageData`), the points of
`DispatchCallbacks` (`Dispatch`, `SkipHook`, `ExecuteForward`, `PreReturnsBreak`,
`PreReturns`, `PostReturns`, `CallNext`, `SkipNext`, `NextReturns`,
`DispatchReturns`), callbacks of other modules, and the map's end.

`addHook` registers with ReHLDS whenever both lists are empty, and `removeHook`
never unregisters, so that a message whose hooks come and go is registered again
each time; `registered` counts the calls. What a second registration of the same
function means is ReHLDS's affair and outside this repository. The model lets a
registered message be dispatched again inside its own `callNext`, each dispatch
with a message of its own.

| Run | Instance | Shows |
|---|---|---|
| `message` | one message, registered once; either 2 of 3 addresses and 2 frames ("deep"), or 3 addresses and 1 frame in which nobody changes the message ("long") | `ActiveIsInnermost`, `ListedAreAlive`, `HandleStaysInList`, `NoHookRunsTwice`, `WithheldOnDemand` and `OnlyActiveMessageChanges` under nested messages and for hooks that come and go under the loop (812,000 states) |
| `message_returns` | 2 addresses, registered twice, 1 frame, fair | `HookedIsRegistered`, and every dispatch ends |
| `message_handles` | 2 addresses | `HandleNamesItsHook` fails: see Findings |

Bounds: `Addr`, the addresses that hooks are allocated at, `MaxRegistered`,
registrations of a message with ReHLDS, `MaxDepth` frames. Three addresses let
a hook be erased before, at and behind the loop's position and its address be
given out again; a second registration lets the last hook go and another one
come. One message is enough, for its hooks touch no other message's; that two
messages' handles stay apart is `RoundTrip`. Addresses are interchangeable, hence
the symmetry. The state of the hooks is explored with one frame and nesting
with two hooks, because the two together are out of reach: `MCMessageParts` has
a constant `part` of the behaviour that says which of the two it explores.

Fairness (`FairSpec`): ReAPI's own code between two hooks runs on (weak
fairness of `Loop`; nothing else runs on the thread). Hooks and the engine's sending
are sequential code that returns: a frame at depth d that gets
control again and again returns some time (strong fairness per depth, because
the frame may call out again in between). No fairness is assumed of
anything that starts a dispatch.

`MessageHookProofs` proves the seven invariants and `OnlyActiveMessageChanges` for
every set of messages and of addresses, any depth and any number of registrations;
`HandlesStay` needs that there are no more hooks than a message has handles
(`MAX_USER_MSGS`), which the code does not check. The inductive invariant has two parts.
`RegistryInv`: the hooks alive are the ones listed, each in one place; a hook never
stands behind the position its handle names; a message with hooks is
registered. `StackInv`: for every dispatch, the context it saved is the one its
caller needs back, and the results so far show in the greatest of them
(`DecisionOK`); and as long as no hook has left the list of a loop, what it has yet to
read is a part of the list, with the hooks it has run in front of that (`Within`),
which is why none runs twice. `Within` speaks of the list as it is *now*, so every
registration and removal has to be shown to keep it for every loop on the stack.

## The server: one run for the parts that share little state

The remaining components do not call into each other except through the game, so
that what happens to one does not depend on the state of another, but for the
life of the map. `MCServer` puts their modules side by side and chooses, at the
start of a behaviour, in `part`, which of the parts of the run (`Part`) moves; the others keep a fixed
state. That keeps the product of their state spaces out of the run. The modules
know nothing of `part`. Where two do share state, the part "server" composes
them: `Server` is `Lifecycle` with `QueryFile`.

The run `server` has about 760,000 states in eleven parts:

| Part | Invariants and action properties | Instance | States |
|---|---|---|---|
| "server" | `TrueMapName`, `NothingOutlivesItsMap`, `QueriesAgree`, `AnswersReachTheirQuery` | two maps, one with a name too long, one name of no map, the helpers VoiceTranscoder and ReChecker; one query while every library is there and the map has its own name, and one more while plugins hook nothing | 123,000 |
| "queries" | `QueriesAgree`, `AnswersReachTheirQuery` | 3 queries, forwards and ids | 7,200 |
| "rings" | `IntactForARound` | a ring of 3, 3 holders, up to 4 later allocations | 960 |
| "teams" | `TeamsAgree`, `BombAccounted` | 2 players, natives 2 deep | 38,000 |
| "members" | `SetThenGet` | every shape of member, 3 entities of which 2 have objects, 6 numbers, 4 lengths of text | 116,000 |
| "wrappers" | `ConversionsRoundTrip` | every list of routes, 3 entities, 2 clients, 2 numbers | 224,000 |
| "natives" | `NativesUseWhatIsThere` | 4 edicts, one of them a player's, two items in a slot | 195,000 |
| "info" | `InfoKeepsPairs` | 5 keys, 6 values, strings of 14 characters with texts of up to 4, buffers of 3, 9 and 14 | 20,000 |
| "message" | `SetMessageReadsBack` | a number and a text, buffers of 3 letters | 18,000 |
| "ids" | `IdsResolve` | the arrays as they are, and every single slip | 6,100 |
| "models" | `ModelsIntact` | 3 body parts, 2 sequences, 3 frames | 11,000 |

The run `members` is the part "members" with the documented promise for the arrays
of the game rules, which fails (see Findings).

`ServerTypeOK` conjoins the type invariants of all eleven parts, each while its part moves. Deadlock is checked: something can always happen.

### QueryFile

A plugin asks ReChecker to compare a file of every client with the server's and
gets each answer in a callback. `queries` is `m_hooklist`, a list of addresses;
`handler[a]` the `CQueryFileHandler` at an address with its two names: the
forward of AMX Mod X and the id of ReChecker. `forwardOf` and `asked` are what
AMX Mod X and ReChecker hold. `answer` is the loop of `FireCallback`: the id, the
position, the memory the loop has yet to read, as in `MessageHook`, and whether
the callback is running. `PassOtherQuery`, `RunQueryCallback` and
`AnswerDelivered` are the loop's steps, `QueryCallbackReturns` the callback's
return, and `QueryCrash` the second outcome where the code reads freed memory.
`RegisterQueryFile`, `UnRegisterQueryFile` and `ClearQueries` may come in the
callback, for any query.

`issued` is the counter behind `MAKE_REQUESTID`, bounded by `QueryId`. Three
queries let one be erased in front of, at and behind the loop's position and its
address and forward be given out again. ReChecker answers only what it has been
asked; it forgets a query that is unregistered.

### Lifecycle and Server

`offer` is what there is of each library (missing, another version, fitting, or
fitting but for the interface of `CGameRules` or the message manager), chosen
once; `api` is what `api_cfg` has of it. `phase` follows the engine through a map:
`SpawnServer`, `KeyValue` (worldspawn is parsed), `LoadPlugins`, `InstallGameRules`,
the ways a map ends (`HostMap`, `HostRestart`, `ChangeLevel`), and
`ServerDeactivate_Post`. `Attach` is `OnAmxxAttach`, before the first map or inside
the spawn of its world, `Detach` is `OnMetaDetach`. `armed` are the one-shot
entries of the engine's table (`gFunctionTable` arms `Spawn` and `KeyValue`,
`rh_set_mapname` arms `ResetGlobalState`). `saved` is `g_szMapName`, `name` the
engine's name of the map; `HookLibrary` and `HookMessage` stand for plugins that
register hookchains of a library, or message hooks. `playing` is history: the map
that really runs.

A map that does not exist is not loaded, and a name longer than `g_szMapName` is
cut (`LongName`, `CutName`), so `TrueMapName` promises plugins the name as it was
saved, and a restart of the same map only if its name fits.

`Server` adds the queries: the end of the map and of the module clear them, and
an answer comes while plugins run and ReChecker is there. Two maps are enough for
one to follow the other on every path and for a stale name or pointer to show.

`ServerProofs` proves `TrueMapName`, `NothingOutlivesItsMap`, `QueriesAgree` and
`AnswersReachTheirQuery` of `ServerSpec`, the composition, for every set of maps,
names, addresses, forwards and ids. `LifeInv` ties what is known of the map to the
phase: from the start of a map its name is what the engine has, from the first
entity on it is saved; the engine has another name only while the hook that puts
it back is armed. `QueryInv` lists which query has which forward and which id, in each
direction, and says of the loop of `FireCallback`, before its callback has run, that it reads
the list as it was, none of the queries behind it being the one answered
(`Undelivered`), and afterwards, whatever the callback did to the list, that no address it will
read is that query (`Delivered`). `AnswersReachTheirQuery` follows from these two; that ids
are never given out again (`IssuedOK`) is essential for the second.

### TempRings

`data` and `current` are `CTempAnyData`, `slot[h]` where the return value of the
call h points, `since[h]` how many values were stored after it. The program's rings
have 16 slots (`BUF_MAX`), the run's 3. `IntactForARound` says both that a value
survives 15 later ones and that it does not survive the 16th: nothing reserves a
slot, so a call loses its value if the calls inside it store sixteen.

`PartsProofs` proves it for every size of the ring, any number of calls and any
number of values (`ValuesLiveForARound`). `RingInv`, the inductive invariant, says
where each value is: as many slots behind the current one, around the ring, as
values were stored since. It needs nothing but that the ring has a slot.

### Teams

`rg_set_user_team`, `rg_transfer_c4` and `rg_give_defusekit` do by hand what the
game does when a player joins a team, and call the game between the steps.
There plugins run, and may call the same natives for the same players, so that a native
is a record in `calls` with the step that comes next of it. `team`, `count`,
`hasC4`, `defusers`, `dormant` and `bomb` are the game's; `teamInfo` is what
AMX Mod X has been told. `GiveC4` and `MakeBomber` are the game's, external.
Whether players are alive decides only who may get the bomb, and is left open.
The change of team that is overtaken by another one inside it reports its team
last, and wrongly: `TeamsAgree` excepts it (`overtaken`) and nothing else.

`NativesProofs` proves `TeamsAgree` and `BombAccounted` for every finite set of players
and any depth. Its invariant says what the natives in progress have yet to do:
whoever is in another team than AMX Mod X believes has a native on the stack
that will report it, and all such natives agree (`InfoOK`); the bomb is under way
exactly if one native has it (`FlightOK`); a flag without a bomb has a native that
will clear it (`BombFlagOK`); and a native that will leave a player dormant has
another one of the same player below it that will not (`DormantOK`). The last is stronger
than what `BombAccounted` needs of the empty stack, and the least that is inductive. The
names of the places of the bomb must not be players (`PlayerAssumption`).

### Members and TypeConversion

`TypeConversion` has the dozen functions of `type_conversion.h`. An entity has
three pointers, to its edict, to its `entvars_t` and to its object, placed apart
in a small memory, so that using the wrong conversion gives another value.

`Members` follows one member of a shape that the tables have: a type, one element
or several, a text with or without a room of its own. For each table the module
lists the shapes that occur in it, and for each family of natives
(`set_member`, `set_member_s`, `set_member_game`, `set_entvar`, `set_pmove`,
`set_movevar`, `set_ucmd`, `set_pmtrace`, `set_netchan`, `set_netadr`, `set_rebuy`)
how it finds the element among its parameters, which each does in its own way.
`Stored` and `Converted` are the conversions to memory and back. `EntityRemoved`
takes the entity away that a handle points to. `IsRefsToClass` is the check of the
class that `set_member_s` makes and `set_member` does not; the latter is called for
members that the object has. Two elements stand for all.

The texts, vectors and signals are reduced to a length or one of their numbers.
Cells include the bounds of 1, 8 and 16 bits. Not covered: `TraceResult` and the
members of bots.

`PartsProofs` proves `SetThenGet` for all whole numbers as cells, all lengths and
addresses, and any entities (`MembersReadBack`). First come facts about the tables: every
shape in them is one of `MemberFits`, so that a native is only asked for an
element where it has a parameter for it. Then each conversion is undone by the one
back: `ShortBack` and `ByteBack` from the width of the member, `PortBack` from
`BytesOfPair` and `PairOfBytes`, which take the two bytes apart and exchange them, the
pointers from `TypeConversion`. The invariant, `MemberInv`, says that the
elements are those before the last set but for the one it named, which holds what
`Stored` made of the value (`SetOK`), and that no text is longer than its room
(`RoomKept`). The exceptions are those that `SetThenGet` names: elements that
`set_member_game` (finding 6) or `get_member` of a vector misses, network addresses,
an entity that was removed since, a value that the member's type cannot hold.

### Wrappers

A wrapper in `hook_callback.cpp` turns the arguments of a C++ function into cells,
runs the callbacks, and turns the cells into arguments of the original, and the
return value likewise. The module models a wrapper by the *route* of each argument:
`object`, `pev`, `edict`, `client`, `value`, `bool`, `short`, `vector` and so on,
and lists which combinations of routes occur, by parts of the file. `ToCell` and
`FromCell` are the conversions. Steps: `CallWrapper`, `ChangeInPlace` and
`SetArgument` by a plugin (with the check of the type), `CallOriginal`, `SetReturn`,
`ReturnFromWrapper`. Order and nesting of callbacks are `HookChain`'s. Three
entities, of which one has no object, and two clients let every conversion that
goes wrong name a neighbour or nothing. A `short` is read back from the cell that was written to
the four bytes the parameter has on the stack. Left out is a call of
`CBotManager_OnEvent` with no entity, which the wrapper dereferences all the same.

`PartsProofs` proves `ConversionsRoundTrip` for any number of entities and clients,
any of them with objects, and any numbers (`CallsComeThrough`). `WrapperShape` goes through the lists of functions: every argument has one of the routes, and a client of
a command comes after the command's source. For each conversion a lemma says which
cells it takes back to the pointer they came from (`ObjectBack`, `PevBack`,
`EdictBack`, `ClientBack`). `WrapperInv` says of each argument that its cell is what
the caller gave or what one plugin set (`ArgumentOK`), of the original that it was not
called or got what the cells stood for (`ReceivedOK`), and likewise of the return
value. One change for each call is what the model allows, the run and the theorem
alike; the effect of a second one is that of the second alone.

### Natives

A native is the sequence of steps it takes with its arguments, in the order of its
code: checks, on which it returns early, uses, each of which needs what a check
should have established, and calls of the game, in which plugins run, clients leave and
entities go. Natives that take the same steps coincide, and what else they do is
left out. For each part of the files the module lists the sequences that occur.
`misuse` records an argument that is used for what it is not, after which the
server starts again.

`NativesUseWhatIsThere` says which arguments natives use unchecked, by listing them
(`trusts`), and that there is no other. These lists are part of the result: they
say what a plugin's author has to take care of. Natives whose library is missing
are filled with ones that do nothing (`Filled`), which is why `gated` natives never
find it missing.

Four edicts are the world, a player, and two more, so that one entity may go
while another is used. `rg_give_item` and `rg_give_custom_item` are whole sequences: the
walk over the items of a slot, each removed or dropped in a call, the next one read before
that call, and then the new item spawned and touched and the player used again. Two
bounds are the model's: a slot has two items at most, and one thing goes in a call. A
native that sets a member to an entity checks the value (`EntityValue`,
`AMX_ENTITY_VALIDATE`), and `get_entvar`, unlike `set_entvar`, does not ask for an
object.

`NativesProofs` proves `NativesUseWhatIsThere` for any numbers of edicts and slots
(`NativesUseAlways`), in two parts. The first is about the lists alone:
`RegisterSound` goes through every native's steps and shows that what it uses of an
argument it does not trust was checked before, and that nothing which a call of the
game may take away is used after the call. The lemmas on sequences of steps
(`SoundThen`, `AfterThen`, `LookSound`) let each native be taken apart where its code
is. The second is the invariant `NativesInv` of the native that runs: what its checks
have established holds of the value they were made of, unless that has been
lost in a call since (`Established`); only calls lose anything
(`LostInCalls`), and what was checked and not yet called over is as it was.
The exceptions are those of the run: trusted arguments and the index one past the
last edict, which `CHECK_ISENTITY` lets pass.

### Info, MessageData, Ids, Models

* `Info` models the engine's key-value strings as sequences of texts, and texts
  as sequences of letters, because lengths and prefixes are what matters: keys are
  compared by prefix (`Info_RemoveKey`), and pairs are dropped to make room.
  `set_key_value` is the whole of it; `set_key_value_buffer` lets plugins set a
  whole string, cut to a buffer. The keys have a prefix among them, two important
  ones and the two with rules of their own; 14 characters are room for three pairs. Keys and values
  are copied to buffers of `MAX_KV_LEN` (`MaxKeyValue`, in the run 4), which the natives keep to
  but a string from `set_key_value_buffer` need not. Such an oversized pair is the
  first that `Info_FindLargestKey` gives up when an important key needs room, be it
  important itself or not, as is a key without a value (`common/info.cpp:204-218`,
  `:237-242`); `InfoKeepsPairs` says so. Not modelled is that a text of `MAX_KV_LEN` or
  more characters puts the zero at the end of its copy one past the buffer.
  `PartsProofs` proves `InfoKeepsPairs` for all keys, values and lengths
  (`PairsAreKept`). First come the functions that are defined by recursion: there is a
  row of all texts (`ChainExists`), one text longer for each (`FlattenAppend`), and a
  string for every number of pairs dropped (`WithDroppedIs`). Then what holds of
  the empty string and stays true with one pair more holds of every string of pairs
  (`PairByPair`); so `RemoveKeyIs`: what `Info_RemoveKey` leaves are the pairs whose keys do not
  begin with the key, in a string no longer than before. Every pair that is dropped makes
  the string shorter (`DropsShorten`), so that the dropping ends (`EndsAre`), and what is gone
  then begins with a key that may go (`DropsKeep`): one that is not important, or the cut
  key of an oversized pair (`DroppableIs`). A string that a plugin cut in the middle of
  a pair only has to stay a string (`RemoveShortens`).
* `MessageData` models the natives that read and change the parts of the active
  message, each with its buffers and conversions, the original values, and
  `SetMessageBlock`. What ReHLDS keeps of a message is external. `PartsProofs`
  proves `SetMessageReadsBack` for every list of arguments, any numbers and texts and
  every size of the buffer (`MessageReadsBack`), from the invariant that a part is
  either as it was sent and has not been set, or is what `StoredPart` makes of what
  it was set to last. The names of the other parts must not be those of arguments.
* `Ids` models the load of the module: for each array of functions or members the
  loop that checks its entries against a counter (`InitialiseArray`), from the
  arrays as they are and with each single slip that somebody who edits them may
  make. The regions and their sizes are the program's. `NotNoticed` says which slips
  the check lets pass. The arrays themselves were compared with the enumerations,
  and the enumerations with the headers for plugins, by a script; they agree.
* `Models` models the natives that look at an entity's model. Time and frames are
  whole numbers. All body parts are digits of one number, and
  `GetBonePosition` moves the entity on for a moment and back. `PartsProofs` proves
  `ModelsIntact` for any model, with any number of body parts and of choices
  (`ModelsStayIntact`). The base of a part is the product of the numbers of choices
  in front of it, a function defined by recursion; that there is such a function, and
  what it is, follows from the well-order of the naturals (`InductionTo`, `BaseIs`).
  `BaseMultiple` says that the bases divide each other, and from that
  `SameDigit`, `HigherDigit` and `LowerDigit` say what a new choice does to each
  part's digit.

## Proved and only model-checked

| Component | Proved, for all constants | Only model-checked, and why |
|---|---|---|
| Hookchains | all invariants, `OnlyTheCurrentCallChanges`, `LoopsRunDown`, `ImplementsHookCalls` | |
| Entity callbacks | all invariants | `MarkedAreDeleted`: liveness |
| Message hooks | all invariants, `OnlyActiveMessageChanges` | `EveryDispatchReturns`: liveness |
| File queries, life cycle | `QueriesAgree`, `AnswersReachTheirQuery`, `TrueMapName`, `NothingOutlivesItsMap` | |
| Rings | `IntactForARound` | |
| Teams | `TeamsAgree`, `BombAccounted` | |
| Members, wrappers, message data | `SetThenGet`, `ConversionsRoundTrip`, `SetMessageReadsBack` | |
| Natives | `NativesUseWhatIsThere` | |
| Info strings, models | `InfoKeepsPairs`, `ModelsIntact` | |
| Ids | | `IdsResolve`: tables and sizes are constants of the program, so that no larger instance remains; TLC tries each with each slip |
| The composition for TLC | | `ServerTypeOK`, the types of all parts in `MCServer` |

All proofs rest on the modules' named assumptions and on nothing else. Three theorems
have a hypothesis of their own (`HandlesNameTheirHandlers` and `AnswersAlwaysSound`: no
list longer than `MAX_HOOK_FORWARDS`; `HandlesStay`: no more hooks than handles), because the
code packs positions without checking them, and `ImplementsCalls` has another,
because of finding 3. Each invariant that is proved inductive was checked by TLC first.

## Fairness

Fairness is assumed in `entity` and `message_returns` only, always
of the same: ReAPI's own code runs on, and callbacks, which are sequential code on
the same thread, return. Nothing is assumed of whoever starts a call. The other
parts have no liveness to speak of: a native returns when the game does.

## Findings

1. `hookchain_bypass`. `_callForward` ignores `HC_BYPASS` (`hook_callback.h:249`);
   the comment at `hook_callback.h:13` promises that the following callbacks are
   skipped. `_callVoidForward` keeps the promise.
2. `hookchain_wascalled`. `wasCalled` is kept per function and reset by every
   call (`hook_callback.h:167`, `:211`), so after a nested call of the function
   `IsReapiHookOriginalWasCalled` answers false in a post callback of a call
   whose original ran; `natives/natives_hookchains.cpp:341` says it "Returns true
   if the API original function was called". It never answers true wrongly
   (`CallAnswersSound`).
3. `hookchain_reference`. The early return of `_callForward` (`hook_callback.h:259`)
   converts the value as if the function did not return a reference, unlike the
   return at its end. The caller of `CBaseEntity::FireBullets3`, the one hooked
   function that returns a `Vector &`, gets a reference into the context of the
   call, which is gone by then; `hook_callback.h:10` says of `HC_BREAK` "Skip all
   forwards and real function, use my return value".
4. `entity_executing`. The end of a nested dispatch clears
   `m_bIsProcessingCallbacks` and purges the marks
   (`entity_callback_dispatcher.h:95`), although the comment at `:61` says the
   flag protects callbacks that are executing. They are protected until then
   (`ProtectedUntilReentered`).
5. `message_handles`. `removeHook` erases from the middle of a list
   (`hook_message_manager.cpp:147`) and a handle holds a position, so a handle
   returned by `RegisterMessage` names the hook's successor, or none, once an
   earlier hook of the list is gone; `natives/natives_hookmessage.cpp:61` takes it
   for "The handle of the message hook to unregister". It strays only to hooks
   registered later in the same list (`HandleStaysInList`).
6. `members`. `set_member_game` takes the element only if it has four parameters
   (`natives/natives_members.cpp:261`), and it has three at most, so it always
   stores into the first element; the header for plugins documents
   `set_member_game(member, value, element)` for `m_iMapVotes`
   (`extra/amxmodx/scripting/include/reapi_gamedll_const.inc:1756`).

Met while reading, without a run of their own; where the models touch them they
follow the code.

Members and entities:

* `get_member` of `m_vRecentPath` takes its fourth parameter as a length
  (`natives/natives_members.cpp:77`). `set_netadr` stores the address of the
  plugin's variable instead of its value (`:762`), and a set of a trace result copies
  from the address of the plugin's cell. Unsigned 16-bit members read back with a
  sign. Some members of `netadr_t`, the rebuy structure and `usercmd_t` are
  documented as settable and are not.
* `set_member` trusts that the object has the member. `set_member_s` and
  `get_member_s` call `pfnIsRefsToClass`, which is null for members of structures.
  A member of a `csplayer` or `csentity` of an entity without such an object goes
  through a null pointer; `set_movevar` does before the first spawn.
* `AMX_ENTITY_VALIDATE` and `CHECK_ISENTITY` let the index `maxEntities` pass
  (`natives/natives_helper.h:6`); `set_member` checks an index only from below.

Hooks and messages:

* `SetHookChainArg` writes a whole cell to arguments of 8 and 16 bits, and a whole string
  over a literal when there is no temporary string left (`hook_callback.h:131`).
  `CBasePlayer_StartObserver` shows plugins the caller's vectors and gives the
  original copies. `CBotManager_OnEvent` dereferences entities that may be null.
* `GetMessageOrigData(MsgIndex)` returns the current index
  (`natives/natives_hookmessage.cpp:323`); of no client `GetMessageData` gives 0
  and `GetMessageOrigData` -1. `CHECK_PARAMBOUNDS` logs and goes on, and is off by
  one. `IsMessageDataModified(MsgArg)` logs an error for its documented default.
* The check of the tables at load compares only the place in a region: some slips
  pass (`NotNoticed`).

Game natives:

* `SetBodygroup` and `GetBodygroup` are off by one (`iGroup > numbodyparts`) and check
  nothing from below. With a negative `framerate` a looping sequence ends up at a
  negative frame.
* Second indices are used unchecked, among others, in `rg_switch_weapon`,
  `rg_instant_reload_weapons`, `rg_death_notice`, `rg_trace_line`, `rh_emit_sound2`;
  slots in `rg_remove_items_by_slot` and `rg_drop_items_by_slot`; several natives
  for players do not check that the index is a player's (`rg_round_respawn`,
  `rg_reset_maxspeed`, `rg_send_bartime`). `trusts` in `Natives` has them all.
* `rg_trace_line` leaves `trace_flags` set. `rg_set_weapon_info` of a slot moves no items.
* `Info_RemoveKey` compares over the length of the key given, so setting "rate"
  drops every key that begins with it (`common/info.cpp:149`); when a new pair has
  no room the old one is gone already. An important key whose value is longer than
  `MAX_KV_LEN`, or that is so itself, is dropped before all others
  (`common/info.cpp:213`, `:237`).
* A ReHLDS of another version is refused while `g_RehldsApi` stays set
  (`mods/mod_rehlds_api.cpp`). After a mismatch of the game rules' interface, found
  when the rules are installed, ReAPI's own hook stays registered at detachment.
* `Natives_Checks` lacks the entry that ends the list
  (`natives/natives_common.cpp:804`).

## Not modelled

* What the natives make the game and the engine do. `natives_misc.cpp` is mostly calls
  into ReGameDLL; `Natives` models what they check and use, `Teams` those that keep
  the game's books themselves. The inventory of a player appears only as the walk
  over its items.
* `TraceResult` and the members of bots; the contents of texts and vectors.
* What ReHLDS keeps of a message, what AMX Mod X does with forwards, what ReChecker
  does with queries, and what a second registration of a message means to
  ReHLDS: they are external, modelled from how this code uses them.
* The import of functions at attachment (`amxxmodule.*`, `sdk_util.cpp`), the tables
  that the module exports to Metamod (`h_export.cpp`, `meta_api.cpp`) but for the
  entries it arms, and logging. Nothing of it changes after the attachment.
* The headers of the game and the engine under `include/`: they declare other
  programs.
* Numbers of callbacks, frames and strings are bounded in the runs and unbounded in
  the proofs.
