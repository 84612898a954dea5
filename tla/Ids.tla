---------------------------------- MODULE Ids ----------------------------------
(***************************************************************************)
(* The numbers of hookable functions and of members, in the files          *)
(* hook_list and member_list. A number is a region, of MAX_REGION_RANGE,   *)
(* and a place in it; enumerations give the numbers, and arrays written by *)
(* hand hold what they stand for. When the module is loaded each array's   *)
(* entries are checked against the enumeration, one after the other, and a *)
(* mismatch crashes it.                                                    *)
(*                                                                         *)
(* The model loads the module from the arrays as they are, and from arrays *)
(* with one slip that somebody who adds a function or a member may make.   *)
(***************************************************************************)
EXTENDS Integers, SequencesExt, FiniteSetsExt

CONSTANT MaxRegionRange         \* MAX_REGION_RANGE

VARIABLES
    unit,           \* the source file of which the arrays are initialised
    initialised,    \* how many of its arrays are
    current_cell,   \* the place that the next entry should have
    slip,           \* the slip that was made, if any
    loading         \* what has come of it

idVars == <<unit, initialised, current_cell, slip, loading>>

-----------------------------------------------------------------------------
(* Enumerations: the regions in order, and how many numbers each one has     *)

HookRegions ==
    <<"engine", "gamedll", "animating", "player", "gamerules", "rechecker", "grenade",
      "weaponbox", "weapon", "gib", "cbaseentity", "botmanager">>

GameFunctions == [engine |-> 22, gamedll |-> 33, animating |-> 1, player |-> 61]
EntityFunctions ==
    [grenade |-> 6, weaponbox |-> 1, weapon |-> 7, gamerules |-> 29, gib |-> 3,
     cbaseentity |-> 3, botmanager |-> 1, rechecker |-> 3]

MemberRegions ==
    <<"gamerules", "base", "animating", "basemonster", "player", "entvars", "playermove",
      "movevars", "usercmd", "pmtrace", "csplayer", "baseitem", "baseweapon", "weaponbox",
      "armoury", "grenade", "p228", "scout", "hegrenade", "xm1014", "c4", "mac10", "aug",
      "smokegrenade", "elite", "fiveseven", "ump45", "sg550", "galil", "famas", "usp",
      "glock18", "awp", "mp5n", "m249", "m3", "m4a1", "tmp", "g3sg1", "deagle", "sg552",
      "ak47", "knife", "p90", "shield", "rebuystruct", "mapinfo", "csplayerweapon", "gib",
      "netadr", "csentity", "netchan">>

GameMembersOf == [gamerules |-> 87, base |-> 25, animating |-> 5, basemonster |-> 16]
PlayerMembersToSpray == 148         \* random_seed to m_flNextDecalTime
PlayerMembersFromTeam == 42         \* m_szTeamName to m_tmNextAccountHealthUpdate
PlayerMembersOf == [player |-> PlayerMembersToSpray + PlayerMembersFromTeam]
EntvarsOf == [entvars |-> 123]
EngineMembersOf == [playermove |-> 60, movevars |-> 26, usercmd |-> 12, pmtrace |-> 9,
                    netchan |-> 14, netadr |-> 3]
ItemMembersOf == [csplayer |-> 19, baseitem |-> 3, baseweapon |-> 33, weaponbox |-> 5,
                  armoury |-> 4, grenade |-> 24]
WeaponMembersOf ==
    [p228 |-> 2, scout |-> 2, hegrenade |-> 1, xm1014 |-> 3, c4 |-> 4, mac10 |-> 3, aug |-> 3,
     smokegrenade |-> 1, elite |-> 3, fiveseven |-> 2, ump45 |-> 3, sg550 |-> 2, galil |-> 3,
     famas |-> 3, usp |-> 3, glock18 |-> 2, awp |-> 2, mp5n |-> 3, m249 |-> 3, m3 |-> 3,
     m4a1 |-> 4, tmp |-> 3, g3sg1 |-> 2, deagle |-> 2, sg552 |-> 3, ak47 |-> 3]
OtherMembersOf == [knife |-> 8, p90 |-> 3, shield |-> 2, rebuystruct |-> 10, mapinfo |-> 2,
                   csplayerweapon |-> 2, gib |-> 4, csentity |-> 2]

(* Arrays: in the order of their initialisation, and how many entries each   *)
(* one has                                                                   *)

GameArrays == << <<"engine", 22>>, <<"gamedll", 33>>, <<"animating", 1>> >>
PlayerArrays == << <<"player", 61>> >>
EntityArrays ==
    << <<"gamerules", 29>>, <<"grenade", 6>>, <<"weaponbox", 1>>, <<"weapon", 7>>, <<"gib", 3>>,
       <<"cbaseentity", 3>>, <<"botmanager", 1>>, <<"rechecker", 3>> >>

MemberArrays ==
    << <<"gamerules", 87>>, <<"base", 25>>, <<"animating", 5>>, <<"basemonster", 16>>,
       <<"player", 190>>, <<"entvars", 123>>, <<"playermove", 60>>, <<"movevars", 26>>,
       <<"usercmd", 12>>, <<"pmtrace", 9>>, <<"netchan", 14>>, <<"csplayer", 19>>,
       <<"baseitem", 3>>, <<"baseweapon", 33>>, <<"weaponbox", 5>>, <<"armoury", 4>>,
       <<"grenade", 24>>, <<"p228", 2>>, <<"scout", 2>>, <<"hegrenade", 1>>, <<"xm1014", 3>>,
       <<"c4", 4>>, <<"mac10", 3>>, <<"aug", 3>>, <<"smokegrenade", 1>>, <<"elite", 3>>,
       <<"fiveseven", 2>>, <<"ump45", 3>>, <<"sg550", 2>>, <<"galil", 3>>, <<"famas", 3>>,
       <<"usp", 3>>, <<"glock18", 2>>, <<"awp", 2>>, <<"mp5n", 3>>, <<"m249", 3>>, <<"m3", 3>>,
       <<"m4a1", 4>>, <<"tmp", 3>>, <<"g3sg1", 2>>, <<"deagle", 2>>, <<"sg552", 3>>,
       <<"ak47", 3>>, <<"knife", 8>>, <<"p90", 3>>, <<"shield", 2>>, <<"rebuystruct", 10>>,
       <<"mapinfo", 2>>, <<"csplayerweapon", 2>>, <<"gib", 4>>, <<"netadr", 3>>,
       <<"csentity", 2>> >>

Regions == IF unit = "hook_list" THEN HookRegions ELSE MemberRegions
Numbers == IF unit = "hook_list" THEN GameFunctions @@ EntityFunctions
           ELSE GameMembersOf @@ PlayerMembersOf @@ EntvarsOf @@ EngineMembersOf
                @@ ItemMembersOf @@ WeaponMembersOf @@ OtherMembersOf
Arrays == IF unit = "hook_list" THEN GameArrays \o PlayerArrays \o EntityArrays
          ELSE MemberArrays

BEGIN_REGION(r) == MaxRegionRange * ((CHOOSE k \in DOMAIN Regions : Regions[k] = r) - 1)

-----------------------------------------------------------------------------
(* Loading                                                                   *)

\* An array of n entries, each the number that it is written for; the slip may
\* be an entry left out, two that changed places, or one of another region.
NoSlip == [array |-> "none", kind |-> "none", at |-> 0]
Slips(r, n) ==
    [array : {r}, kind : {"missing", "other"}, at : {1, 2, n} \cap 1 .. n]
    \cup [array : {r}, kind : {"swapped"}, at : {1, 2} \cap 1 .. n - 1]

Written(r, n, s) ==
    LET first == BEGIN_REGION(r)
        right == [i \in 1 .. n |-> first + i - 1]
        other == CHOOSE q \in ToSet(Regions) : q # r
    IN  CASE s.array # r -> right
          [] s.kind = "missing" -> RemoveAt(right, s.at)
          [] s.kind = "swapped" -> [right EXCEPT ![s.at] = first + s.at, ![s.at + 1] = first + s.at - 1]
          [] OTHER -> [right EXCEPT ![s.at] = BEGIN_REGION(other) + s.at - 1]

\* The counter when entry k is reached (k = n + 1: after the last one): it counts
\* on from the last entry that had the first place of a region.
Place(number) == number % MaxRegionRange
CellAt(array, k) ==
    LET firsts == {j \in 1 .. k - 1 : Place(array[j]) = 0}
    IN  IF firsts = {} THEN current_cell + k - 1 ELSE k - Max(firsts)

\* The macros of the entries: only the place in a region is compared, and the
\* first place is always right.
EntryPassesLater(array, k) ==        \* a mutant: later places pass too
    Place(array[k]) = 0 \/ Place(array[k]) >= CellAt(array, k)
EntryPasses(array, k) == Place(array[k]) = 0 \/ Place(array[k]) = CellAt(array, k)

\* The next array is initialised; a slip makes one of the arrays differ.
InitialiseArray ==
    LET r == Arrays[initialised + 1][1]
        n == Arrays[initialised + 1][2]
    IN  /\ loading = "arrays" /\ initialised < Len(Arrays)
        /\ slip' \in IF slip = NoSlip THEN {NoSlip} \cup Slips(r, n) ELSE {slip}
        /\ LET array == Written(r, n, slip')
           IN  /\ current_cell' = CellAt(array, Len(array) + 1)
               /\ loading' = IF \A k \in DOMAIN array : EntryPasses(array, k) THEN "arrays" ELSE "crashed"
        /\ initialised' = initialised + 1
        /\ UNCHANGED unit

Loaded ==
    /\ loading = "arrays" /\ initialised = Len(Arrays)
    /\ loading' = "loaded"
    /\ UNCHANGED <<unit, initialised, current_cell, slip>>

\* The arrays are put right, and the module is built and loaded again.
LoadAgain ==
    /\ loading \in {"crashed", "loaded"}
    /\ initialised' = 0 /\ current_cell' = 1 /\ slip' = NoSlip /\ loading' = "arrays"
    /\ UNCHANGED unit

\* Some arrays are initialised already, without a slip.
IdsInit ==
    /\ unit \in {"hook_list", "member_list"}
    /\ initialised \in 0 .. Len(Arrays) - 1
    /\ current_cell = IF initialised = 0 THEN 1 ELSE Arrays[initialised][2]
    /\ slip = NoSlip /\ loading = "arrays"

IdsNext == InitialiseArray \/ Loaded \/ LoadAgain

-----------------------------------------------------------------------------
(* Lookup: hooklist_t::getHookSafe, memberlist_t::operator[]                 *)

NotFound == -1
ArrayNow(r) == LET a == CHOOSE k \in DOMAIN Arrays : Arrays[k][1] = r
              IN  Written(r, Arrays[a][2], slip)

\* A cell of a plugin is an unsigned number here, and regions that do not exist
\* have no case; nor is an array read behind its end.
Lookup(cell) ==
    LET number == IF cell < 0 THEN cell + 2 ^ 30 ELSE cell      \* above all regions
        region == number \div MaxRegionRange
        place == Place(number)
    IN  IF region >= Len(Regions) THEN NotFound
        ELSE LET array == ArrayNow(Regions[region + 1])
             IN  IF place < Len(array) THEN array[place + 1] ELSE NotFound

-----------------------------------------------------------------------------
(* Properties                                                                *)

IdsTypeOK ==
    /\ unit \in {"hook_list", "member_list"} /\ loading \in {"arrays", "crashed", "loaded"}
    /\ initialised \in 0 .. Len(Arrays) /\ current_cell \in 1 .. MaxRegionRange
    /\ slip = NoSlip \/ \E a \in 1 .. initialised : slip \in Slips(Arrays[a][1], Arrays[a][2])

\* The slips that the check lets pass: the last entry left out; one of another
\* region at the same place; and the first one left out, or behind the second,
\* in the first array, or in one behind an array of a single entry, where the
\* counter happens to have the right value.
NotNoticed(s) ==
    LET a == CHOOSE k \in DOMAIN Arrays : Arrays[k][1] = s.array
    IN  \/ s.kind = "other"
        \/ s.kind = "missing" /\ s.at = Arrays[a][2]
        \/ s.at = 1 /\ (a = 1 \/ Arrays[a - 1][2] = 1)

\* A module that loads finds for each number the entry of that number, and for no
\* other number one, except in an array with one of these slips.
IdsResolve ==
    loading = "loaded" =>
        /\ slip = NoSlip \/ NotNoticed(slip)
        /\ \A r \in ToSet(Regions) \ {slip.array} :
              LET first == BEGIN_REGION(r)
                  n == Numbers[r]
              IN  /\ \A i \in 0 .. n - 1 : Lookup(first + i) = first + i
                  /\ Lookup(first + n) = NotFound
        /\ Lookup(-1) = NotFound /\ Lookup(MaxRegionRange * Len(Regions)) = NotFound
===============================================================================
