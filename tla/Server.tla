------------------------------- MODULE Server -------------------------------
(***************************************************************************)
(* ReAPI's parts that share the life of the map: the life cycle and the    *)
(* file queries.  The end of the map and of the module clear the queries,  *)
(* an answer of ReChecker comes while a map is running, plugins register   *)
(* and unregister queries when they run, and only if ReChecker is there.   *)
(***************************************************************************)
EXTENDS Lifecycle, QueryFile

serverVars == <<lifeVars, queryVars>>

\* The engine does not go on while an answer is being delivered.
MapStep == ~Answering /\ LifeStep /\ UNCHANGED queryVars

Natives == QueryNatives /\ LifeNative /\ UNCHANGED queryVars

MapEndKeepsQueries ==                       \* a mutant
    /\ ServerDeactivate_Post
    /\ IF "rechecker" \in api /\ phase # "restarting" THEN ClearQueries
                                                      ELSE UNCHANGED queryVars

\* ServerDeactivate_Post with all it clears.
MapEnd == ServerDeactivate_Post /\ ClearQueries

\* OnMetaDetach with all it clears.
ModuleEnd == Detach /\ ClearQueries

Rechecker ==
    /\ PluginsRun /\ "rechecker" \in api
    /\ QueryStep
    /\ UNCHANGED lifeVars

\* The process dies in the loop over the queries.
Crash == QueryCrash /\ ServerStarts

ServerInit == LifeInit /\ QueryInit

ServerNext == MapStep \/ Natives \/ MapEnd \/ ModuleEnd \/ Rechecker \/ Crash

ServerSpec == ServerInit /\ [][ServerNext]_serverVars

-----------------------------------------------------------------------------
(* Properties *)

\* Nothing of a map outlives it: while plugins run, what ReAPI points to is of
\* this map, and between maps and after the detachment no hookchain, message
\* hook, query or pointer is left, also if the API that a hookchain belongs to was given
\* up meanwhile (ServerDeactivate_Post, OnMetaDetach).
NothingOutlivesItsMap ==
    /\ PointersOfThisMap
    /\ ~PluginsRun => /\ pluginHooks = {} /\ queries = <<>> /\ asked = {}
                      /\ phase = "off" => edicts = "none" /\ gameRules = "none"
=============================================================================
