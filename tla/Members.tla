------------------------------- MODULE Members -------------------------------
(***************************************************************************)
(* Members of the game's and the engine's objects, which plugins read and  *)
(* write by name: set_member, set_entvar, set_pmove and their like         *)
(* (natives/natives_members.cpp, member_list.cpp).                         *)
(*                                                                         *)
(* A member has a type, by which one of 32 bits from a plugin is           *)
(* converted, and may be an array.  All these natives have a variable      *)
(* number of parameters, and what a parameter is follows from their        *)
(* number.  The model follows one member, of any shape that the tables     *)
(* have: a plugin sets elements of it, and can read them back.             *)
(***************************************************************************)
EXTENDS TypeConversion, Sequences

CONSTANTS
    Cell,           \* bound of the model: what plugins set numbers to
    Length,         \* bound of the model: lengths of the texts they set
    AmxAddress      \* bound of the model: addresses of a plugin's variables

ASSUME MembersAssumption ==
    Cell \subseteq Int /\ AmxAddress \subseteq Nat /\ Length \subseteq Nat

VARIABLES
    member,         \* the member and the native's family
    cells,          \* its elements
    removed,        \* entities removed since a set
    lastSet         \* history: the last set, and the elements before it

memberVars == <<member, cells, removed, lastSet>>

-----------------------------------------------------------------------------
(* The shapes of members, by table.  A text has room for its characters and  *)
(* the end, or is allocated.  An array stands for all its elements with its  *)
(* first two.  Structures, which plugins only get pointers to, are left out. *)

Allocated == 0
Shape(types) == [type : types, elements : {1}, room : {Allocated}]
ArrayOf(types) == [type : types, elements : {2}, room : {Allocated}]
CharArray == [type : {"STRING"}, elements : {1}, room : {3}]

GameMembers == Shape({"FLOAT", "INTEGER", "SHORT", "BOOL", "STRING"})
               \cup ArrayOf({"INTEGER", "CLASSPTR"})
BaseMembers == Shape({"FLOAT", "INTEGER", "BOOL"})
AnimatingMembers == Shape({"FLOAT", "INTEGER"})
MonsterMembers == Shape({"EHANDLE", "VECTOR", "FLOAT", "INTEGER"}) \cup ArrayOf({"BYTE"})
PlayerFieldsStart ==        \* as the class declares them, random_seed to m_flNextDecalTime
    Shape({"INTEGER", "BOOL", "FLOAT", "BYTE", "SHORT", "CLASSPTR", "EHANDLE", "EDICT",
           "VECTOR", "SIGNALS"})
    \cup ArrayOf({"CLASSPTR", "VECTOR", "FLOAT", "INTEGER"}) \cup CharArray
PlayerFieldsEnd ==          \* m_szTeamName to m_tmNextAccountHealthUpdate
    Shape({"INTEGER", "BOOL", "FLOAT", "VECTOR", "STRING"}) \cup ArrayOf({"FLOAT"}) \cup CharArray
\* The table leaves m_hintMessageQueue out, which has no type for it.
PlayerMembersStart == PlayerFieldsStart
PlayerMembersEnd == PlayerFieldsEnd
CSPlayerMembers == Shape({"BOOL", "VECTOR", "FLOAT", "INTEGER"})
                   \cup ArrayOf({"BOOL", "INTEGER"}) \cup CharArray
ItemMembers == Shape({"CLASSPTR", "INTEGER"})
WeaponMembers == Shape({"INTEGER", "FLOAT", "BOOL"})
WeaponBoxMembers == Shape({"BOOL", "INTEGER"}) \cup ArrayOf({"CLASSPTR", "INTEGER", "QSTRING"})
ArmouryMembers == Shape({"INTEGER", "BOOL"})
GrenadeMembers == Shape({"INTEGER", "BOOL", "FLOAT", "VECTOR", "EHANDLE", "EDICT", "STRING", "SHORT"})
WeaponsMembers == Shape({"INTEGER", "SHORT", "FLOAT", "BOOL"})
ShieldMembers == Shape({"EHANDLE", "FLOAT"})
NumberMembers == Shape({"INTEGER", "FLOAT"})
CSEntityMembers == Shape({"BYTE", "EVARS"})
Entvars == Shape({"QSTRING", "VECTOR", "FLOAT", "INTEGER", "EDICT"}) \cup ArrayOf({"BYTE"})
PlayerMove == Shape({"INTEGER", "FLOAT", "VECTOR", "BYTE"}) \cup ArrayOf({"VECTOR"}) \cup CharArray
MoveVars == Shape({"FLOAT", "INTEGER"}) \cup CharArray
UCmd == Shape({"SHORT", "BYTE", "VECTOR", "FLOAT", "INTEGER"})
PMTrace == Shape({"INTEGER", "FLOAT", "VECTOR"})
NetChan == Shape({"INTEGER", "FLOAT"})
NetAdr == Shape({"INTEGER", "PORT", "IP"})
RebuyStruct == Shape({"INTEGER"})

(* Classes.  A member is declared for a class.  CKnife is one weapon for all, *)
(* and classes in between that declare no members are left out.               *)

MembersOf ==
    [CBaseEntity |-> BaseMembers, CBaseAnimating |-> AnimatingMembers,
     CBaseMonster |-> MonsterMembers, CBasePlayer |-> PlayerMembersStart \cup PlayerMembersEnd,
     CBasePlayerItem |-> ItemMembers, CBasePlayerWeapon |-> WeaponMembers,
     CWeaponBox |-> WeaponBoxMembers, CArmoury |-> ArmouryMembers, CGrenade |-> GrenadeMembers,
     CKnife |-> WeaponsMembers, CWShield |-> ShieldMembers, CMapInfo |-> NumberMembers,
     CGib |-> NumberMembers, CCSPlayerWeapon |-> NumberMembers, CCSPlayer |-> CSPlayerMembers,
     CCSEntity |-> CSEntityMembers]

BaseClass ==
    [CBaseAnimating |-> "CBaseEntity", CBaseMonster |-> "CBaseAnimating",
     CBasePlayer |-> "CBaseMonster", CBasePlayerItem |-> "CBaseAnimating",
     CBasePlayerWeapon |-> "CBasePlayerItem", CWeaponBox |-> "CBaseEntity",
     CArmoury |-> "CBaseEntity", CGrenade |-> "CBaseMonster", CKnife |-> "CBasePlayerWeapon",
     CWShield |-> "CBaseEntity", CMapInfo |-> "CBaseEntity", CGib |-> "CBaseEntity",
     CCSPlayerWeapon |-> "CCSEntity", CCSPlayer |-> "CCSEntity"]

Bases[c \in DOMAIN MembersOf] == {c} \cup (IF c \in DOMAIN BaseClass THEN Bases[BaseClass[c]] ELSE {})

\* The class of the object that belongs to an entity in the game's interface for
\* other modules.
ApiObject(class) == IF class = "CBasePlayer" THEN "CCSPlayer"
                    ELSE IF class = "CKnife" THEN "CCSPlayerWeapon" ELSE "CCSEntity"

\* get_pdata_custom, for a member of class c: in which object of an entity of the
\* class it is.
Custom(c, class) ==
    IF c \in {"CCSEntity", "CCSPlayer", "CCSPlayerWeapon"} THEN ApiObject(class) ELSE class

\* member_t::pfnIsRefsToClass of a member of class c.
IsRefsToClass(c, class) == c \in Bases[Custom(c, class)]

\* The classes that entities have; a "bare" entity has no object.
EntityClass == {"CBasePlayer", "CWeaponBox", "CArmoury", "CGrenade", "CKnife", "CWShield",
                "CMapInfo", "CGib"}
Bare == "bare"

\* The members by the natives of a family, with the class of the entity that
\* these are called for; set_member trusts that it is right.
Of(family, shapes) == [family : {family}, shape : shapes, class : {"struct"}, entity : {"none"}]
OfEntities(c) ==
    LET having == {class \in EntityClass : IsRefsToClass(c, class)}
        one == CHOOSE class \in having : TRUE
    IN  [family : {"member"}, shape : MembersOf[c], class : {c}, entity : {one, Bare}]
        \cup [family : {"member_s"}, shape : MembersOf[c], class : {c},
              entity : {one, Bare} \cup (EntityClass \ having)]
MemberList ==
    (UNION {OfEntities(c) : c \in DOMAIN MembersOf})
    \cup Of("member_game", GameMembers) \cup Of("entvar", Entvars)
    \cup Of("pmove", PlayerMove) \cup Of("movevar", MoveVars) \cup Of("ucmd", UCmd)
    \cup Of("pmtrace", PMTrace) \cup Of("netchan", NetChan) \cup Of("netadr", NetAdr)
    \cup Of("rebuy", RebuyStruct)

type == member.shape.type
Elements == 0 .. (member.shape.elements - 1)

\* member_t::isTypeReturnable, of the types above.
Returnable == {"FLOAT", "CLASSPTR", "EDICT", "INTEGER", "SHORT", "BYTE", "BOOL", "EVARS"}

-----------------------------------------------------------------------------
(* The parameters *)

\* The parameters of a set without an element, when called as documented.
ParamsOfSet == IF member.family \in {"member_game", "pmove", "movevar"} THEN 2 ELSE 3

\* The element that a set with p parameters takes where e is asked; the sets
\* that are not here know no elements.
set_member(p, e) == IF p = 4 THEN e ELSE 0
set_member_s(p, e) == IF p = 4 THEN e ELSE 0
set_member_game(p, e) == IF p = 4 THEN e ELSE 0
set_entvar(p, e) == IF p = 4 THEN e ELSE 0
set_pmoveFour(p, e) == IF p = 4 THEN e ELSE 0       \* a mutant: like set_member
set_pmove(p, e) == IF p = 3 THEN e ELSE 0

\* The element that a set takes, of a call with one.
ElementOfSet(e) ==
    LET p == ParamsOfSet + 1
    IN  CASE member.family = "member" -> set_member(p, e)
          [] member.family = "member_s" -> set_member_s(p, e)
          [] member.family = "member_game" -> set_member_game(p, e)
          [] member.family = "entvar" -> set_entvar(p, e)
          [] member.family = "pmove" -> set_pmove(p, e)
          [] OTHER -> 0

\* How a get is documented to be called: its parameters after the member.
Documented ==
    LET element == IF member.shape.elements > 1 THEN <<"element">> ELSE <<>>
    IN  CASE type \in {"STRING", "QSTRING"} -> <<"dest", "length">> \o element
          [] type \in {"VECTOR", "SIGNALS"} -> <<"dest">> \o element
          [] OTHER -> element

\* How a get takes n such parameters.
OneParam(returned) == IF type \in returned THEN <<"element">> ELSE <<"dest">>
Buffer == <<"dest", "length">>

get_member(n) ==
    CASE n = 1 -> OneParam(Returnable)
      [] n = 2 -> Buffer
      [] n = 3 -> Buffer \o <<"element">>
      [] OTHER -> <<>>
get_member_s(n) ==
    CASE n = 1 -> OneParam(Returnable)
      [] n = 2 -> Buffer
      [] n = 3 -> Buffer \o <<"element">>
      [] OTHER -> <<>>
get_member_game(n) ==
    CASE n = 1 -> OneParam(Returnable)
      [] n = 2 -> Buffer
      [] OTHER -> <<>>
get_entvar(n) ==
    CASE n = 1 -> OneParam(Returnable \ {"FLOAT"})
      [] n = 2 -> Buffer
      [] OTHER -> <<>>
get_pmove(n) ==
    CASE n = 1 -> OneParam(Returnable \ {"FLOAT"})
      [] n = 2 -> IF type = "STRING" THEN Buffer ELSE <<"dest", "element">>
      [] OTHER -> <<>>
get_movevar(n) == IF n = 2 THEN Buffer ELSE <<>>
get_ucmd(n) == IF n = 1 THEN <<"dest">> ELSE <<>>
get_pmtrace(n) == IF n = 1 THEN <<"dest">> ELSE <<>>
get_netchan(n) == IF n = 1 THEN <<"dest">> ELSE <<>>
get_netadr(n) == IF n = 2 THEN Buffer ELSE <<>>
get_rebuy(n) == <<>>

Taken(n) ==
    CASE member.family = "member" -> get_member(n)
      [] member.family = "member_s" -> get_member_s(n)
      [] member.family = "member_game" -> get_member_game(n)
      [] member.family = "entvar" -> get_entvar(n)
      [] member.family = "pmove" -> get_pmove(n)
      [] member.family = "movevar" -> get_movevar(n)
      [] member.family = "ucmd" -> get_ucmd(n)
      [] member.family = "pmtrace" -> get_pmtrace(n)
      [] member.family = "netchan" -> get_netchan(n)
      [] member.family = "netadr" -> get_netadr(n)
      [] member.family = "rebuy" -> get_rebuy(n)

\* The element that a get as documented takes, where e is asked.
ElementOfGet(e) ==
    IF \E i \in DOMAIN Documented : Documented[i] = "element" /\ Taken(Len(Documented))[i] = "element"
    THEN e ELSE 0

-----------------------------------------------------------------------------
(* Conversions *)

Signed(v, w) == ((v + 2^(w - 1)) % 2^w) - 2^(w - 1)
Least(a, b) == IF a < b THEN a ELSE b
\* ntohs
SwapBytes(v) == (v % 256) * 256 + (v % 65536) \div 256

\* What a plugin may set a member to.
Settable ==
    IF type \in {"CLASSPTR", "EHANDLE", "EDICT", "EVARS"} THEN {AMX_NULLENT} \cup Entity
    ELSE IF type \in {"STRING", "QSTRING"} THEN Length ELSE Cell

\* set_member: what the memory holds then.  Texts are told apart by their
\* length, vectors and signals by one of their numbers.
Stored(v) ==
    CASE type = "CLASSPTR" -> GetPrivate(v)
      [] type \in {"EHANDLE", "EDICT"} -> EdictByIndexAmx(v)
      [] type = "EVARS" -> PEV(v)
      [] type = "STRING" /\ member.shape.room # Allocated -> Least(v, member.shape.room - 1)
      [] type = "SHORT" -> Signed(v, 16)
      [] type = "BYTE" -> v % 256
      [] type = "BOOL" -> IF v # 0 THEN 1 ELSE 0
      [] type = "PORT" -> SwapBytes(v)
      [] OTHER -> v

\* EHANDLE::Get knows that the entity has been removed.
HandleGet(m) == IF IndexOfEdictAmx(m) \in removed THEN NULL ELSE m

\* get_member: what a plugin gets of it, with room for n characters.
Converted(m, n) ==
    CASE type = "CLASSPTR" -> IndexOfPDataAmx(m)
      [] type = "EDICT" -> IndexOfEdictAmx(m)
      [] type = "EVARS" -> IndexOfPevAmx(m)
      [] type = "EHANDLE" -> IndexOfEdictAmx(HandleGet(m))
      [] type \in {"STRING", "QSTRING"} -> Least(m, n)
      [] type = "PORT" -> SwapBytes(m)
      [] OTHER -> m

Got(e, n) == Converted(cells[ElementOfGet(e)], n)

\* The natives for entities do nothing to one without an object, and set_member_s
\* and get_member_s nothing to an object that lacks the member.
LacksMember == member.family = "member_s" /\ ~IsRefsToClass(member.class, member.entity)
SetRefused == member.entity = Bare \/ LacksMember

-----------------------------------------------------------------------------

NoSet == [done |-> FALSE, element |-> 0, value |-> 0, before |-> <<>>]

\* A set of an element, as documented.  set_netadr, alone of the natives with a
\* variable number of parameters, takes the address of its value for the value.
Set(e, v, address) ==
    LET value == IF member.family = "netadr" THEN address ELSE v
    IN  /\ cells' = IF SetRefused THEN cells ELSE [cells EXCEPT ![ElementOfSet(e)] = Stored(value)]
        /\ lastSet' = [done |-> TRUE, element |-> e, value |-> v, before |-> cells]
        /\ removed' = {}
        /\ UNCHANGED member

\* The game removes an entity.
EntityRemoved(i) ==
    /\ lastSet.done
    /\ removed' = removed \cup {i}
    /\ UNCHANGED <<member, cells, lastSet>>

MembersInit ==
    /\ member \in MemberList
    /\ cells = [e \in Elements |-> 0]          \* also NULL
    /\ removed = {}
    /\ lastSet = NoSet

MembersNext ==
    \/ \E e \in Elements, a \in AmxAddress : \E v \in Settable : Set(e, v, a)
    \/ \E i \in Entity : EntityRemoved(i)

MembersSpec == MembersInit /\ [][MembersNext]_memberVars

-----------------------------------------------------------------------------
(* Properties *)

\* The members of which the documented set and get do not take the same element:
\* set_member_game and get_member, of vectors, miss the parameter.
ElementMissed ==
    /\ member.shape.elements > 1
    /\ \/ member.family = "member_game"
       \/ member.family \in {"member", "member_s"} /\ type = "VECTOR"

\* Values that the member can hold, and n characters can show.
Representable(v, n) ==
    CASE type = "CLASSPTR" -> v \in Private \cup {AMX_NULLENT}
      [] type = "EHANDLE" -> v \notin removed
      [] type = "STRING" -> v <= n /\ (member.shape.room # Allocated => v < member.shape.room)
      [] type = "QSTRING" -> v <= n
      [] type = "SHORT" -> v + 2 ^ 15 \in 0 .. 2 ^ 16 - 1
      [] type = "BYTE" -> v \in 0 .. 255
      [] type = "BOOL" -> v \in {0, 1}
      [] type = "PORT" -> v \in 0 .. 2 ^ 16 - 1
      [] OTHER -> TRUE

\* What an element of the member's type can hold, as wide as it is.
ElementType ==
    CASE type = "BYTE" -> 0 .. 255
      [] type = "SHORT" -> -(2 ^ 15) .. 2 ^ 15 - 1
      [] type = "BOOL" -> {0, 1}
      [] type \in {"EHANDLE", "EDICT"} -> {NULL} \cup {g_pEdicts + i : i \in Entity}
      [] OTHER -> Int

MembersTypeOK ==
    /\ member \in MemberList
    /\ DOMAIN cells = Elements /\ \A e \in Elements : cells[e] \in ElementType
    /\ removed \subseteq Entity
    /\ lastSet = NoSet \/ (lastSet.element \in Elements /\ lastSet.value \in Settable)

\* A plugin that sets an element of a member and gets the element, both as they
\* are documented, gets what it set, whichever of the natives they are and
\* whatever the member's type, and an entity's handle is not good for the next
\* entity in its place.
GetsWhatWasSet ==
    lastSet.done =>
        /\ \A n \in Length : Representable(lastSet.value, n) =>
                               Got(lastSet.element, n) = lastSet.value
        /\ type = "EHANDLE" /\ lastSet.value \in removed =>
                               Got(lastSet.element, 0) = AMX_NULLENT

\* So the elements of the game rules' arrays can be set and got, as the header
\* for plugins documents it: set_member_game(member, value, element).
GameElementsAsDocumented == member.family = "member_game" => GetsWhatWasSet

\* It does, and no other element changes, and no text is longer than its room,
\* but for the arrays of the game rules and of vectors, of which only the first
\* elements can be reached, and the network addresses (set_member_game,
\* get_member, set_netadr); and set_member_s only writes to objects that have the
\* member.
SetThenGet ==
    /\ ~SetRefused /\ ~ElementMissed /\ member.family # "netadr" =>
          /\ GetsWhatWasSet
          /\ lastSet.done => \A e \in Elements \ {lastSet.element} : cells[e] = lastSet.before[e]
    /\ member.family = "member_s" /\ cells # [e \in Elements |-> 0] =>
          IsRefsToClass(member.class, member.entity)
    /\ type = "STRING" /\ member.shape.room # Allocated =>
          \A e \in Elements : cells[e] < member.shape.room
=============================================================================
