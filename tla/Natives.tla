------------------------------- MODULE Natives -------------------------------
(***************************************************************************)
(* What the natives of ReAPI check of their arguments before they use them *)
(* (natives_misc.cpp, natives_common.cpp, natives_reunion.cpp,             *)
(* natives_vtc.cpp).                                                       *)
(*                                                                         *)
(* A native is modelled by the steps it takes with its arguments, in the   *)
(* order of its code: checks, on which it returns early, uses, which need  *)
(* what a check should have established, and calls of the game and the     *)
(* engine, in which plugins run and players and entities may go.  Natives  *)
(* that take the same steps coincide; what else they do is left out.       *)
(***************************************************************************)
EXTENDS TypeConversion, Sequences

CONSTANTS
    EdictCount,     \* gpGlobals->maxEntities
    SlotCount       \* gpGlobals->maxClients

ASSUME NativesAssumption ==
    /\ EdictCount \in Nat /\ SlotCount \in Nat
    /\ 0 < SlotCount /\ SlotCount < EdictCount

VARIABLES
    rules,          \* whether there are game rules: g_pGameRules
    client,         \* client_t: whether one is connected, by slot
    entity,         \* the game's object of each edict
    library,        \* whether the library that the native is for is there
    native,         \* the native that a plugin calls
    step,           \* the step it takes next, or 0
    argument,       \* its arguments, those it has looked at
    lost,           \* objects that have gone since the native was called
    misuse          \* history: an argument was used for what it is not

nativeVars == <<rules, client, entity, library, native, step, argument, lost, misuse>>

Edict == 0 .. (EdictCount - 1)
Slot == 1 .. SlotCount
Loose == Edict \ (Slot \cup {0})        \* neither the world nor a player's

-----------------------------------------------------------------------------
(* Steps.  Each is about an argument, or about none.                         *)

Do(op) == << <<op, "-">> >>
About(op, a) == << <<op, a>> >>

Rules == Do("check_rules")              \* CHECK_GAMERULES
Call == Do("call")                      \* into the game or the engine
Maybe == Do("return_or_not")            \* by what the model leaves out
IsPlayer(a) == About("player_index", a)    \* CHECK_ISPLAYER
IsEntity(a) == About("entity_index", a)    \* CHECK_ISENTITY
Connected(a) == About("connected", a)      \* CHECK_CONNECTED
HasObject(a) == About("has_object", a)     \* getPrivate, and the test for null
IsWeapon(a) == About("is_weapon", a)       \* CHECK_INSTANCE_OF, and IsWeapon
As(what, a) == About(what, a)              \* a use

OnPlayer(a) == IsPlayer(a) \o Connected(a) \o As("player", a)
OnObject(a) == IsEntity(a) \o HasObject(a) \o As("object", a)
OnClient(a) == IsPlayer(a) \o About("client_connected", a) \o As("client", a)
OnWeapon(a) == HasObject(a) \o IsWeapon(a) \o As("weapon", a)
OnRules == Rules \o Do("rules")

\* A native trusts an argument if it uses it unchecked, or uses again, after a
\* call, an object that plugins may have removed in it.
Native(steps, trusts) == [steps |-> steps, trusts |-> trusts]
Checked(set) == {Native(steps, {}) : steps \in set}
Trusting(trusts, set) == {Native(steps, trusts) : steps \in set}

-----------------------------------------------------------------------------
(* The natives of natives_misc.cpp that need ReGameDLL, by parts of the file *)

\* RemoveOrDropItem, for each item of a slot: the next item is read before the
\* call for this one.  Bound of the model: two items.
EachItem == About("an_item", "item") \o About("not_null", "item") \o As("weapon", "item")
            \o About("an_item", "next") \o Call
LastItem == About("null", "next")
NextItem == About("not_null", "next") \o As("weapon", "next") \o As("player", "index") \o Call
AnItem == About("an_item", "item") \o About("not_null", "item") \o As("weapon", "item")

\* The items are dropped, or they are removed and each is used after its call.
DroppedItems == {EachItem \o LastItem, EachItem \o NextItem}
RemovedItems ==
    {EachItem \o As("weapon", "item") \o LastItem,
     EachItem \o As("weapon", "item") \o NextItem \o As("weapon", "next")}

\* GiveNamedItemEx, and GiveNamedItemInternal, in which the entity spawns and is
\* touched before it is looked at.
GivenByGame == As("player", "index") \o Call
GivenItem == About("a_new_entity", "made") \o About("not_null", "made") \o As("edict", "made")
             \o As("player", "index") \o Call \o As("edict", "made") \o As("player", "index")
             \o Call \o As("object", "made") \o As("player", "index")

GiveItems ==        \* rg_set_animation to rg_give_custom_item
    Checked({OnPlayer("index") \o Call})
    \cup Trusting({"next"}, {OnPlayer("index") \o items \o GivenByGame : items \in DroppedItems})
    \cup Trusting({"item", "next"},
           {OnPlayer("index") \o items \o GivenByGame : items \in RemovedItems})
    \cup Trusting({"made"}, {OnPlayer("index") \o GivenItem})
    \cup Trusting({"made", "next"},
           {OnPlayer("index") \o items \o GivenItem : items \in DroppedItems})
    \cup Trusting({"made", "item", "next"},
           {OnPlayer("index") \o items \o GivenItem : items \in RemovedItems})
DamageNatives ==    \* rg_give_default_items to rg_multidmg_add
    Checked({OnPlayer("index") \o Call, Call,
             IsEntity("inflictor") \o IsEntity("attacker")
               \o As("entvars", "inflictor") \o As("entvars", "attacker") \o Call,
             IsEntity("inflictor") \o IsEntity("victim") \o About("not_negative", "victim")
               \o As("entvars", "inflictor") \o As("edict_or_null", "victim") \o Call})
FireNatives ==      \* rg_fire_bullets to rg_fire_bullets3
    Trusting({"inflictor"},
       {IsEntity("inflictor") \o IsEntity("attacker") \o As("object", "inflictor")
          \o As("entvars", "attacker") \o Call})
RoundNatives ==     \* rg_round_end, rg_update_teamscores
    Checked({Rules \o Maybe \o Call \o Do("rules"), OnRules \o Call})
FindNatives ==      \* rg_create_entity to rg_find_weapon_bpack_by_name
    Checked({About("a_new_entity", "made") \o About("not_null", "made") \o As("edict", "made"),
             IsEntity("owner"),
             OnPlayer("index") \o Maybe \o AnItem})
    \cup Trusting({"start"}, {As("edict_or_null", "start") \o Call})
ItemNatives ==      \* rg_has_item_by_name
    Checked({OnPlayer("index") \o Maybe \o AnItem})
WeaponInfo ==       \* rg_get_weapon_info
    Checked({About("weapon_id", "id") \o As("weapon_info", "id"),
             About("weapon_id", "id") \o About("has_slot", "id") \o As("weapon_slot", "id"), Call})
SlotNatives ==      \* rg_set_weapon_info to rg_drop_items_by_slot
    Checked({About("weapon_id", "id") \o As("weapon_info", "id")})
    \cup Trusting({"id"}, {About("weapon_id", "id") \o As("weapon_slot", "id")})
    \cup Trusting({"next"},
           {OnPlayer("index") \o items : items \in DroppedItems})
RemoveItems ==      \* rg_remove_all_items to rg_set_user_bpammo
    Checked({OnPlayer("index") \o Call,
             OnPlayer("index") \o About("has_slot", "id") \o As("weapon_slot", "id")
               \o AnItem})
AmmoNatives ==      \* rg_get_user_bpammo to rg_get_user_ammo
    Checked({OnPlayer("index") \o About("has_slot", "id") \o As("weapon_slot", "id")
               \o AnItem})
ArmorNatives ==     \* rg_give_defusekit to rg_set_user_armor
    Checked({Rules \o OnPlayer("index") \o Do("rules") \o Maybe \o Call, OnPlayer("index"),
             OnPlayer("index") \o Call})
TeamNatives ==      \* rg_set_user_team, rg_set_user_model
    Checked({Rules \o OnPlayer("index") \o Do("rules") \o Call \o As("player", "index")
               \o Do("rules"),
             OnPlayer("index") \o Maybe \o Call \o As("player", "index")})
ModelNatives ==     \* rg_reset_user_model to rg_get_user_footsteps
    Checked({OnPlayer("index") \o Call \o As("player", "index"), OnPlayer("index")})
BombNatives ==      \* rg_transfer_c4 to rg_plant_bomb
    Checked({Rules \o OnPlayer("index") \o Maybe \o About("a_slot", "receiver")
               \o Connected("receiver") \o Call \o Maybe \o As("player", "receiver"),
             Rules \o OnPlayer("index") \o Maybe \o About("no_slot", "receiver") \o Do("rules")
               \o Maybe \o Call \o As("player", "index") \o Do("rules"),
             OnPlayer("index") \o About("zero", "weapon") \o Call,
             About("zero", "index") \o Call, About("not_zero", "index") \o OnPlayer("index") \o Call})
    \cup Trusting({"weapon"},
           {OnPlayer("index") \o About("not_zero", "weapon") \o OnWeapon("weapon") \o Call})
AccountNatives ==   \* rg_set_account_rules to rg_switch_team
    Checked({OnRules \o Call, OnPlayer("index") \o Call})
WeaponNatives ==    \* rg_switch_weapon to rg_get_weaponbox_id
    Checked({OnRules \o Call, Rules \o OnPlayer("index") \o Do("rules") \o Call})
    \cup Trusting({"weapon"}, {OnPlayer("index") \o OnWeapon("weapon") \o Call})
    \cup Trusting({"attacker"},
           {Rules \o OnPlayer("index") \o HasObject("attacker") \o As("object", "attacker")
              \o Do("rules") \o Call})
    \cup Trusting({"entity"},
           {IsEntity("entity") \o HasObject("entity") \o As("weapon_box", "entity")})
BarNatives ==       \* rg_round_respawn to rg_send_audio
    Trusting({"index"}, {Connected("index") \o As("player", "index") \o Call,
                         As("edict_or_null", "index") \o Call})
ItemInfo ==         \* rg_set_iteminfo, rg_get_iteminfo
    Checked({IsEntity("index") \o OnWeapon("index") \o Maybe \o As("weapon", "index")})
GlobalItemInfo ==   \* rg_set_global_iteminfo, rg_get_global_iteminfo
    Checked({About("weapon_id", "id") \o Maybe \o As("weapon_info", "id")})
VoiceNatives ==     \* rg_hint_message to rg_set_can_hear_player
    Checked({OnPlayer("index") \o Maybe \o Call, OnRules \o Call,
             Rules \o OnPlayer("index") \o Do("rules") \o Call,
             Rules \o IsPlayer("listener") \o IsPlayer("sender") \o Connected("listener")
               \o Connected("sender") \o Do("rules") \o As("player", "listener")
               \o As("player", "sender") \o Call})
SpawnNatives ==     \* rg_get_can_hear_player to rg_spawn_grenade
    Checked({Rules \o IsPlayer("listener") \o IsPlayer("sender") \o Connected("listener")
               \o Connected("sender") \o Do("rules") \o As("player", "listener")
               \o As("player", "sender") \o Call,
             OnObject("index") \o Call, OnPlayer("index") \o Call})
BoxNatives ==       \* rg_create_weaponbox to rg_add_ammo_registry
    Checked({Maybe \o Call})
    \cup Trusting({"item"},
           {IsEntity("item") \o HasObject("item") \o About("not_positive", "player")
              \o As("weapon", "item") \o Call,
            IsEntity("item") \o HasObject("item") \o About("positive", "player")
              \o OnPlayer("player") \o As("weapon", "item") \o Call})
    \cup Trusting({"entity"}, {OnObject("entity") \o Maybe \o Call \o As("object", "entity")})
    \cup Trusting({"trace"}, {As("pointer", "trace") \o Call})

\* The weapon is given, or is the one that the player holds.
HeldOrGiven(a) ==
    {About("a_slot", a) \o OnPlayer(a) \o Maybe \o About("an_item", "held") \o About("not_null", "held")
       \o IsWeapon("held") \o As("weapon", "held") \o Call,
     About("no_slot", a) \o IsEntity(a) \o OnWeapon(a) \o Call}

ReloadNatives ==    \* rg_weapon_deploy, rg_weapon_reload
    Checked({IsEntity("weapon") \o OnWeapon("weapon") \o Call} \cup HeldOrGiven("weapon"))
ShotgunNatives ==   \* rg_weapon_shotgun_reload, rg_weapon_send_animation
    Checked(HeldOrGiven("weapon"))
KickNatives ==      \* rg_weapon_kickback to rg_disappear
    Checked(HeldOrGiven("weapon")
       \cup {Rules \o OnPlayer("index") \o Maybe \o About("not_zero", "weapon")
               \o IsEntity("weapon") \o OnWeapon("weapon") \o Do("rules") \o Call,
             Rules \o OnPlayer("index") \o Maybe \o About("zero", "weapon")
               \o About("an_item", "held") \o About("not_null", "held") \o IsWeapon("held")
               \o As("weapon", "held") \o Do("rules") \o Call,
             OnPlayer("index") \o Call})
ObserverNatives ==  \* rg_set_observer_mode to rg_player_relationship
    Checked({OnPlayer("index") \o Call,
             Rules \o IsPlayer("index") \o IsEntity("target") \o Connected("index")
               \o As("edict_or_null", "target") \o As("player", "index") \o Do("rules") \o Call})
    \cup Trusting({"inflictor"},
           {Rules \o OnPlayer("index") \o IsEntity("killer") \o As("edict_or_null", "killer")
              \o As("edict_or_null", "inflictor") \o Do("rules") \o Call})
ImpulseNatives ==   \* rg_send_death_message to rg_trace_hull
    Checked({IsPlayer("index") \o IsPlayer("attacker") \o Connected("index")
               \o As("player", "index") \o Maybe \o Connected("attacker")
               \o As("player", "attacker") \o Maybe \o Call})
    \cup Trusting({"inflictor"},
           {Rules \o OnPlayer("victim") \o killer \o assister
              \o As("edict_or_null", "inflictor") \o Do("rules") \o Call :
                killer \in {About("zero", "killer"), About("not_zero", "killer") \o OnPlayer("killer")},
                assister \in {About("zero", "assister"),
                              About("not_zero", "assister") \o OnPlayer("assister")}})
    \cup Trusting({"ignore", "trace"},
           {As("edict_or_null", "ignore") \o As("pointer", "trace") \o Call})

NeedReGameDLL ==
    GiveItems \cup DamageNatives \cup FireNatives \cup RoundNatives \cup FindNatives
    \cup ItemNatives \cup WeaponInfo \cup SlotNatives \cup RemoveItems \cup AmmoNatives
    \cup ArmorNatives \cup TeamNatives \cup ModelNatives \cup BombNatives
    \cup AccountNatives \cup WeaponNatives \cup BarNatives \cup ItemInfo
    \cup GlobalItemInfo \cup VoiceNatives \cup SpawnNatives \cup BoxNatives
    \cup ReloadNatives \cup ShotgunNatives \cup KickNatives \cup ObserverNatives
    \cup ImpulseNatives

-----------------------------------------------------------------------------
(* The natives that need another library, or none                            *)

SoundNatives ==     \* rh_emit_sound2 to rh_drop_client
    Checked({OnClient("index") \o Call})
    \cup Trusting({"entity", "recipient"},
           {HasObject("recipient") \o Connected("recipient") \o About("world_or_player", "recipient")
              \o As("edict_or_null", "entity") \o As("client_or_none", "recipient") \o Call})
ServerNatives ==    \* rh_get_net_from to rh_set_server_pause
    Checked({Call, OnClient("index") \o Maybe})
ReunionNatives ==   \* REU_GetProtocol to REU_SetConnectTime
    Checked({IsPlayer("index") \o As("slot", "index") \o Maybe \o As("slot", "index")})
AuthIdNatives ==    \* REU_GetSerializedId to REU_GetDisplaySteamId
    Checked({IsPlayer("index") \o As("slot", "index") \o Maybe})
VoiceTranscoderNatives ==   \* VTC_IsClientSpeaking to VTC_PlaySound
    Checked({IsPlayer("index") \o As("slot", "index")})

ClassNatives ==     \* FClassnameIs, GetGrenadeType
    Checked({IsEntity("index") \o As("edict", "index"),
             IsEntity("index") \o As("edict", "index") \o Maybe \o HasObject("index")
               \o As("object", "index")})
ViewNatives ==      \* engset_view, get_viewent
    Checked({OnClient("index")})
    \cup Trusting({"entity"}, {OnPlayer("index") \o As("edict_or_null", "entity") \o Call})
KeyValueNatives ==  \* set_key_value_buffer to set_key_value
    Checked({About("not_zero", "buffer") \o As("pointer", "buffer")})
BoneNatives ==      \* GetBonePosition to GetBodygroup
    Checked({IsEntity("index") \o HasObject("index") \o About("not_zero", "index")
               \o As("object", "index")})
BodyNatives ==      \* SetBodygroup to SetThink
    Checked({IsEntity("index") \o HasObject("index") \o About("not_zero", "index")
               \o As("object", "index"),
             OnObject("index") \o Maybe})
CallbackNatives ==  \* SetTouch to SetBlocked
    Checked({OnObject("index") \o Maybe})
MoveDoneNatives == CallbackNatives      \* SetMoveDone, of entities that are CBaseToggle
VisibilityNatives ==    \* CheckVisibilityInOrigin, is_entity
    Checked({OnObject("index") \o Maybe, OnObject("index") \o Maybe \o Call})
AvailabilityNatives ==  \* is_rehlds to has_rechecker, which only tell
    Checked({Maybe})

\* The value of a member that is an entity, set by its index (AMX_ENTITY_VALIDATE).
EntityValue == About("entity_or_none", "value") \o As("edict_or_null", "value")

\* The natives for members, by their tables.  Those for the game's objects look
\* for one behind any index that is not negative.  g_pMove is there from the first
\* spawn on (DispatchSpawn).
ReGameVars_Natives ==
    Checked({OnRules, Rules \o EntityValue \o Do("rules"), Maybe,
             About("not_zero", "trace") \o As("pointer", "trace")})
    \cup Trusting({"index"},
           {About("not_negative", "index") \o HasObject("index") \o As("object", "index"),
            About("not_negative", "index") \o HasObject("index") \o EntityValue
              \o As("object", "index")})
EngineVars_Natives ==
    Checked({IsEntity("index") \o As("entvars", "index"),      \* get_entvar
             IsEntity("index") \o HasObject("index") \o As("entvars", "index"),
             IsEntity("index") \o HasObject("index") \o EntityValue \o As("entvars", "index"),
             OnClient("index"),
             About("not_zero", "pointer") \o As("pointer", "pointer")})

\* A native of which the library is missing is replaced by one that does nothing
\* but to say so.
Gated(set) == {[steps |-> n.steps, trusts |-> n.trusts, gated |-> TRUE] : n \in set}
RegisterNatives ==
    Gated(NeedReGameDLL) \cup Gated(SoundNatives \cup ServerNatives)
    \cup Gated(ReunionNatives \cup AuthIdNatives) \cup Gated(VoiceTranscoderNatives)
    \cup Gated(ReGameVars_Natives)
    \cup {[steps |-> n.steps, trusts |-> n.trusts, gated |-> FALSE] :
             n \in ClassNatives \cup ViewNatives \cup KeyValueNatives \cup BoneNatives
                   \cup BodyNatives \cup CallbackNatives \cup MoveDoneNatives \cup VisibilityNatives
                   \cup AvailabilityNatives \cup EngineVars_Natives}

\* fillNatives
Filled(n) == n.gated /\ library = "missing"

-----------------------------------------------------------------------------
(* Checks and uses                                                           *)

ObjectOf(v) == IF v \in Edict THEN entity[v] ELSE "none"
OfPlayer == {"player", "left"}

\* UTIL_PlayerByIndex knows which indices there are.
NotNullOnly(v) == ObjectOf(v) # "none"      \* a mutant: also who has left
IsConnected(v) == ObjectOf(v) \notin {"none", "left"}

IsEntityIndex(v) == v >= 0 /\ v <= EdictCount

\* Bound of the model: two weapons, of which one can have no slot.
WeaponIds == {1, 2}
IdsWithSlot == {1}

Passes(op, v) ==
    CASE op = "check_rules" -> rules
      [] op = "player_index" -> v > 0 /\ v <= SlotCount
      [] op = "entity_index" -> IsEntityIndex(v)
      [] op = "connected" -> IsConnected(v)
      [] op = "client_connected" -> v \in Slot /\ client[v]
      [] op = "has_object" -> ObjectOf(v) # "none"
      [] op = "is_weapon" -> ObjectOf(v) = "weapon"
      [] op = "world_or_player" -> v = 0 \/ ObjectOf(v) \in OfPlayer
      [] op = "weapon_id" -> v \in WeaponIds
      [] op = "has_slot" -> v \in IdsWithSlot
      [] op = "a_slot" -> v > 0 /\ v <= SlotCount
      [] op = "no_slot" -> v <= 0 \/ v > SlotCount
      [] op = "zero" -> v = 0
      [] op = "not_zero" -> v # 0
      [] op = "positive" -> v > 0
      [] op = "not_positive" -> v <= 0
      [] op = "not_negative" -> v >= 0
      [] op = "not_null" -> v # AMX_NULLENT
      [] op = "null" -> v = AMX_NULLENT
      [] op = "entity_or_none" -> v = AMX_NULLENT \/ IsEntityIndex(v)
      [] OTHER -> TRUE

\* A player who has left in a call is still there; an object that has been
\* removed in one is not.
Fits(op, v) ==
    CASE op = "has_object" -> v < EdictCount        \* looks there, for v >= 0
      [] op = "player" -> ObjectOf(v) = "player" \/ (ObjectOf(v) = "left" /\ v \in lost)
      [] op = "object" -> ObjectOf(v) # "none" /\ v \notin lost
      [] op = "weapon" -> ObjectOf(v) = "weapon" /\ v \notin lost
      [] op = "weapon_box" -> ObjectOf(v) = "box" /\ v \notin lost
      [] op \in {"edict", "entvars"} -> v \in Edict
      [] op = "edict_or_null" -> v < EdictCount
      [] op = "client" -> v \in Slot /\ client[v]
      [] op = "client_or_none" -> v <= SlotCount
      [] op = "slot" -> v \in Slot
      [] op = "pointer" -> v # 0
      [] op = "weapon_info" -> v \in WeaponIds
      [] op = "weapon_slot" -> v \in IdsWithSlot
      [] op = "rules" -> rules
      [] OTHER -> TRUE

-----------------------------------------------------------------------------
(* The game and the engine                                                   *)

NoClients == [i \in Slot |-> FALSE]
NoObjects == [e \in Edict |-> IF e = 0 THEN "thing" ELSE "none"]     \* the world

NoNative == [steps |-> <<>>, trusts |-> {}, gated |-> FALSE]
NoMisuse == [by |-> "-", value |-> 0]
Idle == step = 0
NextStep == IF Idle THEN <<"-", "-">> ELSE native.steps[step]

\* Bound of the model: one of these in a call of a native.
InCall == NextStep[1] = "call" /\ lost = {}

RulesCome ==        \* InstallGameRules
    /\ Idle /\ ~rules
    /\ rules' = TRUE
    /\ UNCHANGED <<client, entity, library, native, step, argument, lost, misuse>>

MapChanges ==       \* the clients stay
    /\ Idle /\ rules
    /\ rules' = FALSE
    /\ entity' = NoObjects
    /\ UNCHANGED <<client, library, native, step, argument, lost, misuse>>

ClientConnects(i) ==
    /\ Idle /\ ~client[i]
    /\ client' = [client EXCEPT ![i] = TRUE]
    /\ UNCHANGED <<rules, entity, library, native, step, argument, lost, misuse>>

PutInServer(i) ==
    /\ Idle /\ client[i] /\ entity[i] # "player"
    /\ entity' = [entity EXCEPT ![i] = "player"]
    /\ UNCHANGED <<rules, client, library, native, step, argument, lost, misuse>>

\* The object stays, and has has_disconnected set.
Disconnects(i) ==
    /\ Idle \/ InCall
    /\ client[i]
    /\ client' = [client EXCEPT ![i] = FALSE]
    /\ entity' = IF entity[i] = "player" THEN [entity EXCEPT ![i] = "left"] ELSE entity
    /\ lost' = IF Idle THEN {} ELSE {i}
    /\ UNCHANGED <<rules, library, native, step, argument, misuse>>

EntityComes(i, kind) ==
    /\ Idle /\ entity[i] = "none"
    /\ entity' = [entity EXCEPT ![i] = kind]
    /\ UNCHANGED <<rules, client, library, native, step, argument, lost, misuse>>

EntityGoes(i) ==
    /\ Idle \/ InCall
    /\ entity[i] # "none"
    /\ entity' = [entity EXCEPT ![i] = "none"]
    /\ lost' = IF Idle THEN {} ELSE {i}
    /\ UNCHANGED <<rules, client, library, native, step, argument, misuse>>

-----------------------------------------------------------------------------
(* A native                                                                  *)

\* A plugin calls it.  Where it says so, it does no more.
CallNative(n) ==
    /\ Idle /\ misuse = NoMisuse
    /\ ~Filled(n)
    /\ native' = n /\ step' = 1
    /\ argument' = [a \in {s[2] : s \in {n.steps[k] : k \in DOMAIN n.steps}} |-> {}]
    /\ UNCHANGED <<rules, client, entity, library, lost, misuse>>

\* What the step can find its argument a to be.
WeaponsThere == {e \in Edict : entity[e] = "weapon"}
Values(op, a) ==
    IF argument[a] # {} THEN argument[a]
    ELSE CASE op = "an_item" -> WeaponsThere \cup {AMX_NULLENT}
           [] op = "a_new_entity" -> {e \in Loose : entity[e] = "none"} \cup {AMX_NULLENT}
           [] op \notin {"an_item", "a_new_entity"} /\ a = "-" -> {0}
           [] OTHER -> AMX_NULLENT .. (EdictCount + 1)

ReturnNow ==
    /\ step' = 0 /\ native' = NoNative /\ argument' = <<>> /\ lost' = {}
    /\ UNCHANGED misuse

StepOn(a, v) ==
    /\ argument' = [argument EXCEPT ![a] = {v}]
    /\ step' = step + 1
    /\ UNCHANGED <<native, lost, misuse>>

\* The library of the native that runs is not there.
Absent == native.gated /\ library = "missing"

\* The next step of the native, with the value v of its argument.
TakeStep(v) ==
    LET op == NextStep[1]
        a == NextStep[2]
    IN  /\ ~Idle /\ misuse = NoMisuse
        /\ v \in Values(op, a)
        /\ entity' = IF op = "a_new_entity" /\ v \in Edict THEN [entity EXCEPT ![v] = "thing"]
                     ELSE entity
        /\ \/ /\ Absent \/ ~Fits(op, v)
              /\ misuse' = [by |-> IF Absent THEN "library" ELSE a, value |-> v]
              /\ UNCHANGED <<native, step, argument, lost>>
           \/ /\ ~Absent /\ Fits(op, v)
              /\ IF Passes(op, v) /\ step < Len(native.steps) THEN StepOn(a, v) ELSE ReturnNow
           \/ /\ op = "return_or_not"
              /\ ReturnNow
        /\ UNCHANGED <<rules, client, library>>

NativesInit ==
    /\ rules = FALSE
    /\ client = NoClients
    /\ entity = NoObjects
    /\ library \in {"there", "missing"}
    /\ native = NoNative /\ step = 0 /\ argument = <<>>
    /\ lost = {} /\ misuse = NoMisuse

\* After a misuse anything can happen; the model starts the server again.
NativeCrash ==
    /\ misuse # NoMisuse
    /\ rules' = FALSE /\ client' = NoClients /\ entity' = NoObjects
    /\ native' = NoNative /\ step' = 0 /\ argument' = <<>>
    /\ lost' = {} /\ misuse' = NoMisuse
    /\ UNCHANGED library

NativesNext ==
    \/ RulesCome
    \/ MapChanges
    \/ \E i \in Slot : ClientConnects(i) \/ PutInServer(i) \/ Disconnects(i)
    \/ \E i \in Loose : EntityGoes(i) \/ \E kind \in {"thing", "weapon", "box"} : EntityComes(i, kind)
    \/ \E n \in RegisterNatives : CallNative(n)
    \/ \E v \in AMX_NULLENT .. (EdictCount + 1) : TakeStep(v)
    \/ NativeCrash

NativesSpec == NativesInit /\ [][NativesNext]_nativeVars

-----------------------------------------------------------------------------
(* Properties                                                                *)

NativesTypeOK ==
    /\ rules \in BOOLEAN /\ client \in [Slot -> BOOLEAN]
    /\ entity \in [Edict -> {"none", "thing", "weapon", "box", "player", "left"}]
    /\ library \in {"there", "missing"}
    /\ native \in RegisterNatives \cup {NoNative} /\ step \in 0 .. Len(native.steps)
    /\ lost \subseteq Edict
    /\ \A a \in DOMAIN argument : argument[a] \in SUBSET (AMX_NULLENT .. (EdictCount + 1))

\* Whatever the arguments are, whoever has left and whatever is not there or has
\* been removed while plugins ran in the middle of it, a native uses players,
\* objects, clients, the game rules and its library only if they are there.
\* Excepted are the arguments that natives are listed above to trust, and the
\* index gpGlobals->maxEntities, one past the last, which CHECK_ISENTITY passes.
NativesUseWhatIsThere ==
    misuse # NoMisuse => misuse.by \in native.trusts \/ misuse.value = EdictCount
=============================================================================
