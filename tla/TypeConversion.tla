---------------------------- MODULE TypeConversion ----------------------------
(***************************************************************************)
(* Entities and clients as plugins name them, by an index, and as the game *)
(* and the engine do, by pointers (type_conversion.h).  One entity has     *)
(* three: of its edict in the engine's array, of its entvars_t inside the  *)
(* edict, and of the game's object, if it has one.                         *)
(***************************************************************************)
EXTENDS Integers

CONSTANTS
    MaxEntities,    \* gpGlobals->maxEntities
    Private,        \* entities that have an object of the game
    MaxClients      \* g_RehldsSvs->GetMaxClients()

ASSUME EntityAssumption ==
    /\ MaxEntities \in Nat \ {0} /\ MaxClients \in Nat \ {0}
    /\ Private \subseteq 0 .. (MaxEntities - 1)

AMX_NULLENT == -1
NULL == 0

\* The memory: any places will do that are apart from each other.
g_pEdicts == 1000
Apart == MaxEntities + 1
EntvarsOffset == Apart          \* from an edict to its entvars_t
ObjectOffset == 2 * Apart       \* from an edict to its object
Clients == g_pEdicts + 3 * Apart

Entity == 0 .. (MaxEntities - 1)
PrivateData(i) == IF i \in Private THEN g_pEdicts + i + ObjectOffset ELSE NULL

\* To an index; the first three take no null.
IndexOfEdict(ed) == ed - g_pEdicts
IndexOfPev(pev) == IndexOfEdict(pev - EntvarsOffset)
IndexOfObject(obj) == IndexOfPev(obj - ObjectOffset + EntvarsOffset)
IndexOfEdictAmx(ed) == IF ed # NULL THEN IndexOfEdict(ed) ELSE AMX_NULLENT
IndexOfPevAmx(pev) == IF pev # NULL THEN IndexOfPev(pev) ELSE AMX_NULLENT
IndexOfPDataAmx(obj) == IF obj # NULL THEN IndexOfObject(obj) ELSE AMX_NULLENT
IndexOfClient(cl) == cl - Clients + 1       \* GetId() + 1

\* From an index.
EdictByIndexAmx(i) == IF i > AMX_NULLENT THEN g_pEdicts + i ELSE NULL
GetPrivate(i) == IF i >= 0 THEN PrivateData(i) ELSE NULL
PEV(i) == IF i >= 0 THEN g_pEdicts + i + EntvarsOffset ELSE NULL
ClientByIndexZero(i) == IF i >= 0 THEN Clients + i ELSE NULL    \* a mutant
ClientByIndex(i) == IF i > 0 THEN Clients + (i - 1) ELSE NULL
=============================================================================
