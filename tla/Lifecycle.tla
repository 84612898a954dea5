------------------------------ MODULE Lifecycle ------------------------------
(***************************************************************************)
(* The life of the module: AMX Mod X attaches it, it negotiates versions   *)
(* with the libraries it depends on, maps come and go, and the natives     *)
(* that play with the map's name (main.cpp, api_config.cpp, mods/mod_*,    *)
(* dllapi.cpp, amxxmodule.cpp, natives/natives_misc.cpp).                  *)
(*                                                                         *)
(* The engine calls most of these functions through tables in which ReAPI  *)
(* arms and disarms its own entries: KeyValue and Spawn run once a map,    *)
(* ResetGlobalState only after a plugin has renamed the map.               *)
(***************************************************************************)
EXTENDS Naturals

CONSTANTS
    Map,            \* names of maps that exist
    OtherName,      \* names a plugin may give a map, of no map that exists
    LongName,       \* maps whose names do not fit g_szMapName
    CutName,        \* what of such a name fits
    NoMap,          \* no name
    Helper          \* libraries of the engine's that are found through ReHLDS

ASSUME NameAssumption ==
    /\ Helper \subseteq {"vtc", "reunion", "rechecker"}
    /\ LongName \subseteq Map
    /\ CutName \notin Map /\ NoMap \notin Map \cup OtherName \cup {CutName}

VARIABLES
    offer,          \* what there is of each library
    api,            \* api_cfg: the libraries that may be used
    attached,       \* "no", "yes", or "gone" after the detachment
    phase,          \* how far the engine is with the map
    playing,        \* history: the map that the engine has loaded
    nextMap,        \* the map that the engine is going to load
    name,           \* the engine's name of the map, of which gpGlobals has a view
    saved,          \* g_szMapName
    edicts,         \* g_pEdicts: null ("none"), or of this map
    gameRules,      \* g_pGameRules: null, of this map or of an old one
    armed,          \* the entries of g_pFunctionTable that are not null
    gameHook,       \* ReAPI's own hook on InstallGameRules is registered
    voiceHooks,     \* ReAPI's handlers at VoiceTranscoder are registered
    pluginHooks     \* libraries in which plugins have registered hookchains, and
                    \* "messages" if they have registered message hooks

lifeVars == <<offer, api, attached, phase, playing, nextMap, name, saved, edicts,
              gameRules, armed, gameHook, voiceHooks, pluginHooks>>
engine  == <<phase, playing, nextMap>>
reapi   == <<offer, api, attached, gameHook, voiceHooks>>
mapData == <<saved, edicts, gameRules>>

Library == {"rehlds", "regame"} \cup Helper
Hookable == {"rehlds", "regame", "rechecker"}

\* A library is missing, has a version that does not fit, or fits.  ReGameDLL
\* may also fit but for the interface of CGameRules ("norules"), and ReHLDS but
\* for its message manager ("nomessages"; bound of the model: the others fit).
Offers ==
    {o \in [Library -> {"none", "other", "fits", "norules", "nomessages"}] :
       /\ \A l \in Library \ {"regame"} : o[l] # "norules"
       /\ \A l \in Library : o[l] = "nomessages" =>
             l = "rehlds" /\ \A k \in Library \ {l} : o[k] = "fits"}

Phase == {"off", "spawned", "world", "precache", "running", "ending", "restarting"}

\* Plugins are loaded and their callbacks may run.
PluginsRun == attached = "yes" /\ phase \in {"precache", "running", "ending", "restarting"}

-----------------------------------------------------------------------------
(* Attaching and detaching *)

\* The helpers ask for ReHLDS's interface, which there is even if its version
\* does not fit.
RehldsApi_Init(o) == o["rehlds"] \in {"fits", "nomessages"}
RehldsMessageMngr_Init(o) == o["rehlds"] = "fits"
RegamedllApi_Init(o) == o["regame"] \in {"fits", "norules"}
HelperApi_Init(l, o) == o["rehlds"] # "none" /\ l \in Helper /\ o[l] = "fits"
VTC_Api_Init(o) == HelperApi_Init("vtc", o)
ReunionApi_Init(o) == HelperApi_Init("reunion", o)
RecheckerApi_Init(o) == HelperApi_Init("rechecker", o)

Negotiated(o) ==
    {l \in Library : \/ l = "rehlds" /\ RehldsApi_Init(o)
                     \/ l = "regame" /\ RegamedllApi_Init(o)
                     \/ l = "vtc" /\ VTC_Api_Init(o)
                     \/ l = "reunion" /\ ReunionApi_Init(o)
                     \/ l = "rechecker" /\ RecheckerApi_Init(o)}

\* The entries of the engine's table that ReAPI arms.
gFunctionTable == {"Spawn", "KeyValue"}

Saved(m) == IF m \in LongName THEN CutName ELSE m

\* OnAmxxAttach: before the first map, or inside the Spawn of its worldspawn.
Attach ==
    /\ attached = "no"
    /\ phase = "world" \/ (phase = "off" /\ nextMap = NoMap /\ playing = NoMap)
    /\ attached' = "yes"
    /\ api' = Negotiated(offer)
    /\ gameHook' = ("regame" \in Negotiated(offer))
    /\ voiceHooks' = ("vtc" \in Negotiated(offer))
    /\ armed' = gFunctionTable
    /\ edicts' = IF phase = "world" THEN "this" ELSE "none"
    /\ saved' = IF phase = "world" THEN Saved(name) ELSE saved
    /\ UNCHANGED <<offer, engine, name, gameRules, pluginHooks>>

\* OnMetaDetach.  A ReGameDLL whose API has been given up keeps ReAPI's hook.
Detach ==
    /\ attached = "yes" /\ phase = "off"
    /\ attached' = "gone"
    /\ pluginHooks' = {}
    /\ voiceHooks' = (voiceHooks /\ "vtc" \notin api)
    /\ gameHook' = (gameHook /\ "regame" \notin api)
    /\ UNCHANGED <<offer, api, engine, name, mapData, armed>>

-----------------------------------------------------------------------------
(* A map comes *)

\* The engine sets the name and makes the first edict; a map that does not
\* exist is not loaded.
SpawnServer ==
    /\ phase = "off" /\ attached # "gone" /\ nextMap # NoMap
    /\ phase' = IF nextMap \in Map THEN "spawned" ELSE "off"
    /\ playing' = IF nextMap \in Map THEN nextMap ELSE playing
    /\ name' = nextMap
    /\ nextMap' = NoMap
    /\ UNCHANGED <<reapi, mapData, armed, pluginHooks>>

\* The engine parses worldspawn.
KeyValue ==
    /\ phase = "spawned"
    /\ phase' = "world"
    /\ IF attached = "yes" /\ "KeyValue" \in armed
       THEN /\ saved' = Saved(name)
            /\ edicts' = "this"
            /\ armed' = armed \ {"KeyValue"}
       ELSE UNCHANGED <<saved, edicts, armed>>
    /\ UNCHANGED <<reapi, playing, nextMap, name, gameRules, pluginHooks>>

\* The first entity that spawns after ReAPI has been attached, on this map.
DispatchSpawn ==
    /\ attached = "yes" /\ "Spawn" \in armed
    /\ phase \in {"world", "precache", "running"}
    /\ edicts' = "this"
    /\ armed' = armed \ {"Spawn"}
    /\ UNCHANGED <<reapi, engine, name, saved, gameRules, pluginHooks>>

\* AMX Mod X loads the plugins when worldspawn spawns; the first time, it has
\* attached its modules.
LoadPlugins ==
    /\ phase = "world" /\ attached = "yes"
    /\ phase' = "precache"
    /\ UNCHANGED <<reapi, playing, nextMap, name, mapData, armed, pluginHooks>>

\* worldspawn's Spawn installs the game rules, and ReAPI looks whether it
\* understands them.
InstallGameRules ==
    /\ phase = "precache"
    /\ phase' = "running"
    /\ gameRules' = IF gameHook /\ offer["regame"] # "norules" THEN "this"
                                                               ELSE gameRules
    /\ api' = IF gameHook /\ offer["regame"] = "norules" THEN api \ {"regame"}
                                                         ELSE api
    /\ UNCHANGED <<offer, attached, gameHook, voiceHooks, playing, nextMap, name,
                   saved, edicts, armed, pluginHooks>>

-----------------------------------------------------------------------------
(* A map goes *)

\* The engine clears the state of the game, with ResetGlobalState if armed.
ResetGlobalState ==
    IF attached = "yes" /\ "ResetGlobalState" \in armed /\ name # saved
    THEN name' = saved /\ armed' = armed \ {"ResetGlobalState"}
    ELSE UNCHANGED <<name, armed>>

\* The command map.
HostMap(m) ==
    /\ phase \in {"off", "running"} /\ nextMap = NoMap /\ attached # "gone"
    /\ ResetGlobalState
    /\ nextMap' = m
    /\ phase' = IF phase = "running" THEN "ending" ELSE "off"
    /\ UNCHANGED <<reapi, playing, mapData, pluginHooks>>

\* The command restart loads the map that the engine then has the name of.
HostRestart ==
    /\ phase = "running"
    /\ ResetGlobalState
    /\ nextMap' = name'
    /\ phase' = "restarting"
    /\ UNCHANGED <<reapi, playing, mapData, pluginHooks>>

\* A change of level, or without m a shutdown, does not clear the state.
ChangeLevel(m) ==
    /\ phase = "running"
    /\ nextMap' = m
    /\ phase' = "ending"
    /\ UNCHANGED <<reapi, playing, name, mapData, armed, pluginHooks>>

\* What a pointer to something of this map becomes.
Outdated(p) == IF p = "this" THEN "old" ELSE p

ArmedLess == armed \cup {"Spawn"}               \* a mutant: KeyValue is forgotten
ArmedAgain == armed \cup {"Spawn", "KeyValue"}

\* The engine frees the map; CAPI_Config::ServerDeactivate forgets the rules.
ServerDeactivate_Post ==
    /\ phase \in {"ending", "restarting"}
    /\ phase' = "off"
    /\ edicts' = "none"
    /\ gameRules' = IF "regame" \in api THEN "none" ELSE Outdated(gameRules)
    /\ pluginHooks' = {}
    /\ armed' = ArmedAgain
    /\ UNCHANGED <<reapi, playing, nextMap, name, saved>>

-----------------------------------------------------------------------------
(* Natives *)

\* RegisterHookChain asks the library's requirements of the moment.
HookLibrary(l) ==
    /\ PluginsRun /\ l \in Hookable \cap api
    /\ pluginHooks' = pluginHooks \cup {l}
    /\ UNCHANGED <<reapi, engine, name, mapData, armed>>

\* RegisterMessage asks for ReHLDS and its message manager.
HookMessage ==
    /\ PluginsRun /\ "rehlds" \in api /\ RehldsMessageMngr_Init(offer)
    /\ pluginHooks' = pluginHooks \cup {"messages"}
    /\ UNCHANGED <<reapi, engine, name, mapData, armed>>

\* The natives of ReHLDS are there or not since the attachment.
rh_set_mapname(m) ==
    /\ PluginsRun /\ "rehlds" \in api
    /\ name' = m
    /\ armed' = armed \cup {"ResetGlobalState"}
    /\ UNCHANGED <<reapi, engine, mapData, pluginHooks>>

rh_reset_mapname ==
    /\ PluginsRun /\ "rehlds" \in api
    /\ name' = saved
    /\ armed' = armed \ {"ResetGlobalState"}
    /\ UNCHANGED <<reapi, engine, mapData, pluginHooks>>

\* rh_get_mapname with MNT_TRUE and with MNT_SET.
rh_get_mapname == [MNT_TRUE |-> saved, MNT_SET |-> name]

-----------------------------------------------------------------------------

LifeInit ==
    /\ offer \in Offers
    /\ api = {} /\ armed = {} /\ pluginHooks = {}
    /\ attached = "no" /\ phase = "off"
    /\ playing = NoMap /\ nextMap = NoMap /\ name = NoMap /\ saved = NoMap
    /\ edicts = "none" /\ gameRules = "none"
    /\ gameHook = FALSE /\ voiceHooks = FALSE

\* The process ends, in order or not, and the server starts afresh.
ServerStarts ==
    /\ api' = {} /\ armed' = {} /\ pluginHooks' = {}
    /\ attached' = "no" /\ phase' = "off"
    /\ playing' = NoMap /\ nextMap' = NoMap /\ name' = NoMap /\ saved' = NoMap
    /\ edicts' = "none" /\ gameRules' = "none"
    /\ gameHook' = FALSE /\ voiceHooks' = FALSE
    /\ UNCHANGED offer

LifeNative ==
    \/ \E l \in Hookable : HookLibrary(l)
    \/ HookMessage
    \/ \E m \in Map \cup OtherName : rh_set_mapname(m)
    \/ rh_reset_mapname

\* All but the ends of the map and of the module, which clear more than this.
LifeStep ==
    \/ Attach
    \/ SpawnServer
    \/ KeyValue
    \/ DispatchSpawn
    \/ LoadPlugins
    \/ InstallGameRules
    \/ \E m \in Map : HostMap(m)
    \/ HostRestart
    \/ \E m \in Map \cup {NoMap} : ChangeLevel(m)
    \/ attached = "gone" /\ ServerStarts

-----------------------------------------------------------------------------
(* Properties *)

LifeTypeOK ==
    /\ offer \in Offers
    /\ api \subseteq Library /\ pluginHooks \subseteq Hookable \cup {"messages"}
    /\ attached \in {"no", "yes", "gone"} /\ phase \in Phase
    /\ {playing, nextMap} \subseteq Map \cup OtherName \cup {NoMap, CutName}
    /\ {name, saved} \subseteq Map \cup OtherName \cup {NoMap, CutName}
    /\ edicts \in {"none", "this"} /\ gameRules \in {"none", "this", "old"}
    /\ armed \subseteq {"Spawn", "KeyValue", "ResetGlobalState"}
    /\ gameHook \in BOOLEAN /\ voiceHooks \in BOOLEAN

\* Whatever plugins call the map, and on whichever way and in whatever order
\* maps were loaded, plugins are told its true name, and a restart loads the
\* same map again, except for a map with a name longer than g_szMapName
\* (KeyValue, OnAmxxAttach, ResetGlobalState, rh_set_mapname).
TrueMapName ==
    /\ PluginsRun => rh_get_mapname.MNT_TRUE = Saved(playing)
    /\ phase = "restarting" /\ attached = "yes" /\ playing \notin LongName =>
         nextMap = playing

\* While plugins run the world and the game rules that ReAPI points to are those
\* of this map, and the rules are known from their installation on as long as
\* the API of ReGameDLL is not given up, which may happen after plugins hooked
\* into it (InstallGameRules, FailedReGameDllAPI, CAPI_Config::ServerDeactivate).
PointersOfThisMap ==
    /\ PluginsRun => edicts = "this" /\ gameRules # "old"
    /\ PluginsRun /\ phase # "precache" /\ "regame" \in api => gameRules = "this"
=============================================================================
