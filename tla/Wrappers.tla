------------------------------- MODULE Wrappers -------------------------------
(***************************************************************************)
(* The functions of hook_callback.cpp, one for each hookchain: each turns  *)
(* its arguments into what plugins know them by, lets the plugins see and  *)
(* change these, turns them back for the original, and does the same to    *)
(* the value that the original returns.                                    *)
(*                                                                         *)
(* A function is modelled by the route that each of its arguments takes.   *)
(* Which plugins are called and whether the original is, is the business   *)
(* of HookChain; here it is called, or a plugin returns a value instead.   *)
(***************************************************************************)
EXTENDS TypeConversion, Sequences

CONSTANTS
    Number          \* bound of the model: arguments that pass as they are

ASSUME NumberAssumption == Number \subseteq Nat

VARIABLES
    wrapper,        \* the function's arguments, and what it returns
    stage,          \* how far the call is
    given,          \* the arguments of the call
    caller,         \* history: what the caller's vectors have become
    argCell,        \* the arguments as the plugins have them
    changed,        \* history: <<i, c>> for an argument i that a plugin set to c
    received,       \* what the original was called with
    returned,       \* what the original returned
    retCell,        \* the return value as the plugins have it
    retSet,         \* history: {c} if a plugin has set it to c
    outcome         \* what the caller gets

wrapperVars == <<wrapper, stage, given, caller, argCell, changed, received,
                 returned, retCell, retSet, outcome>>

-----------------------------------------------------------------------------
(* Routes.  An argument that may be null has a question mark; "kept" ones     *)
(* are shown to plugins, and the original gets its own whatever they do; a    *)
(* vector is a copy which plugins change in place, a "lost vector" is shown   *)
(* while the original gets a copy of its own.  The source of a command says   *)
(* whether a client, "client of it", gave it.  "real&" and "trace" are the     *)
(* caller's own.                                                              *)

src_client == 0
Nullable == {"object?", "pev?", "client?"}
Plain == {"value", "bool", "short", "real", "real&", "text", "trace"}
AsItIs == Plain \cup {"vector", "lost vector", "source"}

ToCell(route, x) ==
    CASE route = "object" -> IndexOfObject(x)
      [] route = "object?" -> IndexOfPDataAmx(x)
      [] route = "pev" -> IndexOfPev(x)
      [] route = "pev?" -> IndexOfPevAmx(x)
      [] route = "edict" -> IndexOfEdict(x)
      [] route = "client" -> IndexOfClient(x)
      [] route \in {"client?", "kept client?", "client of it"} ->
             IF x # NULL THEN IndexOfClient(x) ELSE AMX_NULLENT
      [] OTHER -> x

FromCell(route, c) ==
    CASE route \in {"object", "object?"} -> GetPrivate(c)
      [] route \in {"pev", "pev?"} -> PEV(c)
      [] route = "edict" -> EdictByIndexAmx(c)
      [] route \in {"client", "client?", "client of it"} -> ClientByIndex(c)
      [] OTHER -> c

\* The types that a plugin's callback is registered with (regfunc, in which
\* getFwdParamType takes them from the function's declaration), and the type that
\* the natives demand when it sets an argument.
ForwardType(route) ==
    CASE route \in {"vector", "lost vector"} -> "FP_ARRAY"
      [] route \in {"real", "real&"} -> "FP_FLOAT"
      [] route = "text" -> "FP_STRING"
      [] OTHER -> "FP_CELL"

ApiType(route) ==
    CASE route = "bool" -> "ATYPE_BOOL"
      [] route \in {"real", "real&"} -> "ATYPE_FLOAT"
      [] route = "text" -> "ATYPE_STRING"
      [] route = "trace" -> "ATYPE_TRACE"
      [] OTHER -> "ATYPE_INTEGER"

AType == {"ATYPE_INTEGER", "ATYPE_FLOAT", "ATYPE_STRING", "ATYPE_BOOL", "ATYPE_TRACE"}

\* What an argument of the type holds when a plugin's cell c has been written to it.
\* A short is a parameter, which the calling convention gives four bytes of its own:
\* the whole cell is written to them, and two of the four are read back.
Held(route, c) ==
    CASE route = "bool" -> IF c # 0 THEN 1 ELSE 0
      [] route = "short" -> c % 2 ^ 16
      [] OTHER -> c

\* What a caller can pass.  A client of no command is not looked at.  Left out is no
\* object for CBotManager_OnEvent, which looks into it all the same.
Passed(route) ==
    CASE route \in {"object", "object?"} ->
             {PrivateData(i) : i \in Private} \cup (IF route = "object?" THEN {NULL} ELSE {})
      [] route \in {"pev", "pev?"} ->
             {PEV(i) : i \in Entity} \cup (IF route = "pev?" THEN {NULL} ELSE {})
      [] route = "edict" -> {EdictByIndexAmx(i) : i \in Entity}
      [] route \in {"client", "client?", "client of it", "kept client?"} ->
             {ClientByIndex(i) : i \in 1 .. MaxClients}
             \cup (IF route \in {"client?", "kept client?"} THEN {NULL} ELSE {})
      [] route = "source" -> {src_client, src_client + 1}
      [] route = "bool" -> {0, 1}
      [] route = "short" -> {1, 2 ^ 16 - 1}
      [] OTHER -> Number

\* What a plugin can change it to.
Changes(route) ==
    IF route \in {"bool", "short"} THEN {0, 2, 2 ^ 16 + 3}
    ELSE IF route \in AsItIs \cup {"kept"} THEN Passed(route)
    ELSE IF route \in {"client", "client?", "client of it", "kept client?"}
         THEN 0 .. MaxClients ELSE {AMX_NULLENT} \cup Entity

-----------------------------------------------------------------------------
(* The functions, by parts of the file.  Neighbouring arguments that pass as *)
(* they are stand for one.                                                   *)

Calls(args) == [args : args, ret : {"value"}]
Returning(ret, args) == [args : args, ret : {ret}]

RehldsStart ==      \* SV_StartSound to SV_EmitPings
    Calls({<<>>, <<"client">>, <<"client", "value">>, <<"client", "value", "client?">>,
           <<"value">>, <<"value", "edict", "value">>})
RehldsEnd ==        \* ED_Alloc to SV_SendResources
    Calls({<<"edict">>, <<"edict", "edict">>, <<"kept client?">>, <<"value">>,
           <<"source", "client of it">>})
    \cup Returning("edict", {<<>>})
PlayerSpawn ==      \* CBasePlayer_Spawn to CBasePlayer_ResetMaxSpeed
    Calls({<<"object">>, <<"object", "object">>, <<"object", "pev", "pev", "value">>,
           <<"object", "pev", "value">>, <<"object", "pev", "value", "vector", "value">>,
           <<"object", "value">>})
PlayerJump ==       \* CBasePlayer_Jump to CBasePlayer_GiveShield
    Calls({<<"object">>, <<"object", "value">>}) \cup Returning("object", {<<"object", "value">>})
PlayerDrop ==       \* SetClientUserInfoModel to ResetSequenceInfo
    Calls({<<"object">>, <<"object", "value">>, <<"object", "lost vector">>})
    \cup Returning("object", {<<"object", "value">>})
MenusAndFlashes ==  \* GetForceCamera to FShouldSwitchWeapon
    Calls({<<"kept">>, <<"object">>, <<"object", "object">>, <<"object", "object", "value">>,
           <<"object", "pev", "pev", "value", "vector">>,
           <<"object", "pev", "pev", "vector", "value">>, <<"object", "value">>, <<"value">>})
    \cup Returning("object", {<<"object", "value">>})
GameRules ==        \* CSGameRules_GetNextBestWeapon to CSGameRules_CleanUpMap
    Calls({<<>>, <<"object">>, <<"object", "object">>, <<"object", "pev", "pev?">>,
           <<"object", "value">>})
    \cup Returning("edict", {<<"object">>})
Rounds ==           \* CSGameRules_RestartRound to CWeaponBox_SetModel
    Calls({<<>>, <<"object">>, <<"object", "object">>, <<"object", "value">>})
    \cup Returning("object", {<<>>, <<"object", "object", "vector", "value">>})
Grenades ==         \* CGrenade_DefuseBombStart to IsPenetrableEntity
    Calls({<<"object">>, <<"object", "object">>, <<"object", "object", "value">>,
           <<"object", "value">>, <<"vector", "pev", "edict">>})
    \cup Returning("object", {<<"pev", "vector", "value">>, <<"pev?", "vector">>})
Weapons ==          \* CBasePlayer_HintMessageEx to CBaseEntity_FireBullets
    Calls({<<"object">>, <<"object", "object">>, <<"object", "value">>,
           <<"object", "value", "vector", "value", "pev">>, <<"pev", "value">>})
    \cup Returning("object", {<<"pev">>, <<"object?", "object?", "value", "vector", "value">>})
Bullets ==          \* CBaseEntity_FireBuckshots to PM_Jump
    Calls({<<"kept">>, <<"object">>, <<"object", "value">>, <<"value", "kept">>,
           <<"object", "value", "vector", "value", "pev">>,
           <<"object", "vector", "value", "pev", "value">>})
Movement ==         \* PM_Duck to CSGameRules_PlayerGotWeapon
    Calls({<<>>, <<"kept">>, <<"object", "object">>, <<"object", "value">>,
           <<"pev", "object", "value">>, <<"pev", "pev">>, <<"value">>, <<"value", "kept">>,
           <<"vector", "value", "kept">>})
BotsAndMessages ==  \* CBotManager_OnEvent to SendSayMessage
    Calls({<<"object">>, <<"object", "object", "value">>, <<"object", "value">>,
           <<"value", "object", "object">>, <<"object?", "object", "object?", "pev?", "value">>})
    \cup Returning("edict", {<<"object">>})
RecheckerCalls ==   \* FileConsistencyProcess to CmdExec
    Calls({<<"client">>, <<"client", "kept", "value", "kept">>})

\* The arguments and return values of the functions that pass as they are, by
\* their types: flag, event number, number, damage, name and trace.
PlainTypes ==
    Calls({<<route>> : route \in Plain})
    \cup UNION {Returning(ret, {<<>>}) : ret \in {"bool", "short", "real"}}

(* The functions by the parts of the header that declares them.              *)

RehldsFunctions == RehldsStart \cup RehldsEnd
PlayerFunctions == PlayerSpawn \cup PlayerJump \cup PlayerDrop
RulesFunctions == MenusAndFlashes \cup GameRules \cup Rounds
EntityFunctionsOfGame == Grenades \cup Weapons \cup Bullets \cup Movement \cup BotsAndMessages

Wrapper ==
    RehldsFunctions \cup PlayerFunctions \cup RulesFunctions \cup EntityFunctionsOfGame
    \cup RecheckerCalls \cup PlainTypes

-----------------------------------------------------------------------------

args == wrapper.args

\* The parameters of the callbacks that plugins register for the function.
Forwards == [i \in DOMAIN args |-> ForwardType(args[i])]

\* The arguments that a caller can pass.
Arguments ==
    {v \in [DOMAIN args -> UNION {Passed(args[i]) : i \in DOMAIN args}] :
        \A i \in DOMAIN args : v[i] \in Passed(args[i])}

\* What the original gets as its argument i: of the client of a command nothing
\* if, by what plugins made of it, no client gave it.
Argument(i) ==
    CASE args[i] \in {"kept", "kept client?", "lost vector"} -> given[i]
      [] args[i] = "client of it" /\ argCell[i - 1] # src_client -> NULL
      [] OTHER -> FromCell(args[i], argCell[i])

\* The game or the engine calls the function.
CallWrapper ==
    /\ stage = "idle"
    /\ stage' = "before"
    /\ given' \in Arguments
    /\ caller' = given'
    /\ argCell' = [i \in DOMAIN args |->
                     IF args[i] = "client of it" /\ given'[i - 1] # src_client THEN AMX_NULLENT
                     ELSE ToCell(args[i], given'[i])]
    /\ UNCHANGED <<wrapper, changed, received, returned, retCell, retSet, outcome>>

\* What becomes of the caller's arguments when i holds c now.
SharedWithCaller(i, c) ==
    IF args[i] \in {"lost vector", "real&", "trace"} THEN [caller EXCEPT ![i] = c] ELSE caller

\* A plugin changes the numbers of an array in place.  Bound of the model: one
\* argument in a call.
ChangeInPlace(i, c) ==
    /\ stage = "before" /\ changed = {}
    /\ Forwards[i] = "FP_ARRAY"
    /\ argCell' = [argCell EXCEPT ![i] = c]
    /\ caller' = SharedWithCaller(i, c)
    /\ changed' = {<<i, c>>}
    /\ UNCHANGED <<wrapper, stage, given, received, returned, retCell, retSet, outcome>>

\* SetHookChainArg, which refuses another type than the argument's.  Bound of the
\* model: plugins do not set the handle of an array.
SetArgument(i, atype, c) ==
    /\ stage = "before" /\ changed = {}
    /\ Forwards[i] # "FP_ARRAY"
    /\ atype = ApiType(args[i])
    /\ argCell' = [argCell EXCEPT ![i] = Held(args[i], c)]
    /\ caller' = SharedWithCaller(i, c)
    /\ changed' = {<<i, c>>}
    /\ UNCHANGED <<wrapper, stage, given, received, returned, retCell, retSet, outcome>>

\* An object may be null where it is returned, also an edict; of a value of 16
\* bits the sign is extended.
ToReturnCell(route, r) ==
    CASE route = "object" -> IndexOfPDataAmx(r)
      [] route = "short" -> IF r >= 2 ^ 15 THEN r - 2 ^ 16 ELSE r
      [] OTHER -> ToCell(route, r)

\* The lambda original of the function.
CallOriginal(r) ==
    /\ stage = "before"
    /\ stage' = "after"
    /\ received' = [i \in DOMAIN args |-> Argument(i)]
    /\ returned' = r
    /\ retCell' = ToReturnCell(wrapper.ret, r)
    /\ UNCHANGED <<wrapper, given, caller, argCell, changed, retSet, outcome>>

\* A plugin sets the return value, in a callback before the original, which is
\* then not called, or after it.
SetReturn(c) ==
    /\ stage \in {"before", "after"}
    /\ stage' = "after"
    /\ retCell' = IF wrapper.ret = "bool" THEN Held("bool", c) ELSE c
    /\ retSet' = {c}
    /\ UNCHANGED <<wrapper, given, caller, argCell, changed, received, returned, outcome>>

ReturnFromWrapper ==
    /\ stage = "after"
    /\ stage' = "returned"
    /\ outcome' = Held(wrapper.ret, FromCell(wrapper.ret, retCell))
    /\ UNCHANGED <<wrapper, given, caller, argCell, changed, received, returned, retCell, retSet>>

\* The caller has the value, and of the call's context nothing is left.
CallIsOver ==
    /\ stage = "returned"
    /\ stage' = "idle"
    /\ given' = <<>> /\ caller' = <<>> /\ argCell' = <<>> /\ received' = <<>>
    /\ changed' = {} /\ retSet' = {}
    /\ returned' = NULL /\ retCell' = NULL /\ outcome' = NULL
    /\ UNCHANGED wrapper

WrappersInit ==
    /\ wrapper \in Wrapper
    /\ stage = "idle"
    /\ given = <<>> /\ caller = <<>> /\ argCell = <<>> /\ received = <<>>
    /\ changed = {} /\ retSet = {}
    /\ returned = NULL /\ retCell = NULL /\ outcome = NULL

\* What originals and plugins return.
Originals(route) == Passed(route) \cup (IF route \in Plain THEN {} ELSE {NULL})

WrappersNext ==
    \/ CallWrapper
    \/ \E i \in DOMAIN args : \E c \in Changes(args[i]) :
          ChangeInPlace(i, c) \/ \E atype \in AType : SetArgument(i, atype, c)
    \/ \E r \in Originals(wrapper.ret) : CallOriginal(r)
    \/ \E c \in Changes(wrapper.ret) : SetReturn(c)
    \/ ReturnFromWrapper
    \/ CallIsOver

WrappersSpec == WrappersInit /\ [][WrappersNext]_wrapperVars

-----------------------------------------------------------------------------
(* Properties *)

WrapperTypeOK ==
    /\ wrapper \in Wrapper
    /\ stage \in {"idle", "before", "after", "returned"}
    /\ {DOMAIN given, DOMAIN caller, DOMAIN argCell} = {IF stage = "idle" THEN {} ELSE DOMAIN args}
    /\ \A i \in DOMAIN given : given[i] \in Passed(args[i]) /\ argCell[i] \in Int
    /\ DOMAIN received \in {{}, DOMAIN args}
    /\ \A p \in changed : p[1] \in DOMAIN args /\ p[2] \in Changes(args[p[1]])
    /\ {returned, retCell, outcome} \subseteq Int /\ retSet \subseteq Changes(wrapper.ret)

\* The index c names something for the route.
Names(route, c) ==
    CASE route \in {"object", "object?"} -> c \in Private
      [] route \in {"client", "client?"} -> c > 0
      [] route \in AsItIs -> TRUE
      [] OTHER -> c # AMX_NULLENT

\* x is a value of the type, and it is c unless the type cannot hold c; but what
\* is not false is true.
InType(route, x, c) ==
    /\ route = "bool" => x \in {0, 1} /\ (x = 0 <=> c = 0)
    /\ route = "short" => x \in 0 .. 2 ^ 16 - 1 /\ (c \in 0 .. 2 ^ 16 - 1 => x = c)

\* x is what plugins know by c.
Known(route, x, c) == IF Names(route, c) THEN ToCell(route, x) = c ELSE x = NULL

\* The original got what it should as its argument i.
Arrived(i) ==
    LET setTo == {p[2] : p \in {q \in changed : q[1] = i}}
        own == args[i] \in {"kept", "kept client?"}
    IN  /\ args[i] = "client of it" /\ changed = {} =>
               received[i] = IF given[i - 1] = src_client THEN given[i] ELSE NULL
        /\ args[i] \notin {"client of it", "lost vector"} =>
               /\ setTo = {} \/ own => received[i] = given[i]
               /\ ~own => \A c \in setTo :
                     IF args[i] \in {"bool", "short"} THEN InType(args[i], received[i], c)
                     ELSE Known(args[i], received[i], c)

\* The caller got what it should.
CameBack ==
    /\ retSet = {} => outcome = returned
    /\ \A c \in retSet :
          IF wrapper.ret \in {"bool", "short"} THEN InType(wrapper.ret, outcome, c)
          ELSE IF Names(wrapper.ret, c) THEN ToReturnCell(wrapper.ret, outcome) = c ELSE outcome = NULL

\* A call that went through the plugins is the call that the caller made, but
\* for what they changed.  The original gets what the caller passed, the same
\* null included, and the caller gets what the original returned.  An argument or
\* return value that a plugin set arrives as that which plugins know by this
\* index, or as a value of its type; what a plugin does to a vector reaches the
\* original and leaves the caller's own alone, except in CBasePlayer_StartObserver,
\* while the caller sees what becomes of a damage or trace that it lent; a command
\* keeps its client as long as it keeps its source (the functions of
\* hook_callback.cpp, type_conversion.h, SetHookChainArg, SetHookChainReturn).
ConversionsRoundTrip ==
    stage = "returned" =>
        /\ \A i \in DOMAIN received : Arrived(i)
        /\ \A i \in DOMAIN given :
              /\ args[i] \in {"real&", "trace"} /\ i \in DOMAIN received =>
                     caller[i] = received[i]
              /\ args[i] \notin {"lost vector", "real&", "trace"} => caller[i] = given[i]
        /\ CameBack
=============================================================================
