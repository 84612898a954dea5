-------------------------------- MODULE Teams --------------------------------
(***************************************************************************)
(* Natives that move players between teams and the bomb between players:   *)
(* rg_set_user_team, rg_transfer_c4 and rg_give_defusekit                  *)
(* (natives/natives_misc.cpp).  They do by hand what the game does when a  *)
(* player joins a team: count, take the bomb or the defuse kit, tell AMX   *)
(* Mod X.                                                                  *)
(*                                                                         *)
(* Between the steps they call the game, which sends messages and calls    *)
(* hooked functions, and so runs plugins, which may call the same natives  *)
(* for the same players.  Which of the players are alive decides only who  *)
(* may get the bomb, and is left open.                                     *)
(***************************************************************************)
EXTENDS Integers, Sequences, FiniteSets

CONSTANTS
    Player,
    MaxNatives      \* bound of the model: natives that call each other

ASSUME PlayerAssumption ==
    IsFiniteSet(Player) /\ Player \cap {"ground", "flight", "lost"} = {}
TERRORIST == 1
CT == 2
SPECTATOR == 3
TeamName == {TERRORIST, CT, SPECTATOR}

VARIABLES
    team,           \* m_iTeam
    count,          \* m_iNumTerrorist, m_iNumCT
    teamInfo,       \* the team that AMX Mod X has for a player
    hasC4,          \* players with m_bHasC4
    defusers,       \* players with m_bHasDefuser
    bomb,           \* who has the bomb, or "ground", "flight", "lost"
    dormant,        \* players with FL_DORMANT
    calls,          \* the natives in progress, the innermost last
    overtaken       \* history: whose team changed inside a change of it

teamVars == <<team, count, teamInfo, hasC4, defusers, bomb, dormant, calls, overtaken>>
people   == <<team, count, teamInfo, defusers, overtaken>>

\* A native at the point where the game runs plugins: what comes next of it.
NativeCall ==
    [ who : Player, to : TeamName \cup Player \cup {0},
      next : {"c4 flag", "c4 give", "team info", "check win",   \* rg_set_user_team
              "make bomber", "give", "flags"},                  \* rg_transfer_c4
      flag : BOOLEAN ]      \* FL_DORMANT of the flags saved

NoReceiver == 0

-----------------------------------------------------------------------------

CallsOn == calls # <<>>
Inner == calls[Len(calls)]
EnterNative(c) == calls' = Append(calls, c)
GoOn(next) == calls' = [calls EXCEPT ![Len(calls)].next = next]
ReturnNative == calls' = SubSeq(calls, 1, Len(calls) - 1)

CanCall == Len(calls) < MaxNatives

\* The numbers of players after one has left prev for next.
CountAfter(prev, next) ==
    [t \in {TERRORIST, CT} |->
        count[t] + (IF t = next THEN 1 ELSE 0) - (IF t = prev THEN 1 ELSE 0)]

DefusersOfCT(p, prev, next) ==          \* a mutant: kept by new spectators
    IF prev = CT /\ next = TERRORIST THEN defusers \ {p} ELSE defusers
DefusersAfter(p, prev, next) ==
    IF prev = CT /\ next # CT THEN defusers \ {p} ELSE defusers

\* The bomb goes to a living terrorist who is not dormant, if there is one.
GiveC4 ==
    \/ \E r \in {p \in Player : team[p] = TERRORIST /\ p \notin dormant} :
          bomb' = r /\ hasC4' = hasC4 \cup {r}
    \/ bomb' = "lost" /\ UNCHANGED hasC4

\* rg_set_user_team up to the point where it calls the game.  A leaving
\* terrorist with a bomb (in a round that is not over, on a map where it can be
\* planted: planting) gives it back if there are others, or drops it if alive.
rg_set_user_team(p, to, planting, alive) ==
    /\ CanCall
    /\ LET prev == team[p]
           leaves == prev = TERRORIST /\ to # prev /\ p \in hasC4 /\ planting
           gives == leaves /\ CountAfter(prev, to)[TERRORIST] > 0 /\ bomb = p
           drops == leaves /\ ~gives /\ alive
       IN  /\ team' = [team EXCEPT ![p] = to]
           /\ count' = CountAfter(prev, to)
           /\ defusers' = DefusersAfter(p, prev, to)
           /\ bomb' = IF gives THEN "flight"
                      ELSE IF drops /\ bomb = p THEN "ground" ELSE bomb
           /\ hasC4' = IF drops /\ bomb = p THEN hasC4 \ {p} ELSE hasC4
           /\ overtaken' = IF \E i \in DOMAIN calls :
                                 calls[i].who = p /\ calls[i].to # to
                                 /\ calls[i].next \in {"c4 flag", "c4 give", "team info"}
                           THEN overtaken \cup {p} ELSE overtaken \ {p}
           /\ EnterNative([who |-> p, to |-> to, flag |-> FALSE,
                           next |-> IF gives THEN "c4 flag" ELSE "team info"])
    /\ UNCHANGED <<teamInfo, dormant>>

FlagForgotten ==                        \* a mutant
    /\ CallsOn /\ Inner.next = "c4 flag"
    /\ GoOn("c4 give")
    /\ UNCHANGED <<people, bomb, hasC4, dormant>>

\* RemovePlayerItem has returned.
FlagCleared ==
    /\ CallsOn /\ Inner.next = "c4 flag"
    /\ hasC4' = hasC4 \ {Inner.who}
    /\ GoOn("c4 give")
    /\ UNCHANGED <<people, bomb, dormant>>

BombGivenBack ==
    /\ CallsOn /\ Inner.next = "c4 give"
    /\ GiveC4
    /\ GoOn("team info")
    /\ UNCHANGED <<people, dormant>>

\* SetPlayerModel and TeamChangeUpdate have returned; AMX Mod X is told the
\* team that the native was called with.
SetPlayerTeamInfo ==
    /\ CallsOn /\ Inner.next = "team info"
    /\ teamInfo' = [teamInfo EXCEPT ![Inner.who] = Inner.to]
    /\ GoOn("check win")
    /\ UNCHANGED <<team, count, defusers, overtaken, hasC4, bomb, dormant>>

TeamChanged ==
    /\ CallsOn /\ Inner.next = "check win"
    /\ ReturnNative
    /\ UNCHANGED <<people, hasC4, bomb, dormant>>

rg_give_defusekit(p, def) ==
    /\ team[p] = CT
    /\ defusers' = IF def THEN defusers \cup {p} ELSE defusers \ {p}
    /\ UNCHANGED <<team, count, teamInfo, overtaken, hasC4, bomb, dormant, calls>>

\* rg_transfer_c4 to a receiver, or to whom the game chooses; without a bomb to
\* remove (RemovePlayerItemEx, which also clears m_bHasC4), or with too few
\* terrorists alive, it does nothing.
rg_transfer_c4(p, receiver) ==
    /\ CanCall
    /\ p \in hasC4 /\ bomb = p
    /\ bomb' = "flight"
    /\ hasC4' = hasC4 \ {p}
    /\ EnterNative([who |-> p, to |-> receiver, flag |-> p \in dormant,
                    next |-> IF receiver = NoReceiver THEN "give" ELSE "make bomber"])
    /\ UNCHANGED <<people, dormant>>

\* The receiver becomes the bomber, or cannot and the bomb is lost.
MakeBomber ==
    /\ CallsOn /\ Inner.next = "make bomber"
    /\ \/ bomb' = Inner.to /\ hasC4' = hasC4 \cup {Inner.to}
       \/ bomb' = "lost" /\ UNCHANGED hasC4
    /\ ReturnNative
    /\ UNCHANGED <<people, dormant>>

\* FL_DORMANT keeps the bomb from going back to where it came from.
GiveWhileDormant ==
    /\ CallsOn /\ Inner.next = "give"
    /\ \/ \E r \in {p \in Player : team[p] = TERRORIST /\ p \notin dormant \cup {Inner.who}} :
             bomb' = r /\ hasC4' = hasC4 \cup {r}
       \/ bomb' = "lost" /\ UNCHANGED hasC4
    /\ dormant' = dormant \cup {Inner.who}
    /\ calls' = [calls EXCEPT ![Len(calls)] =
                   [@ EXCEPT !.next = "flags", !.flag = Inner.who \in dormant]]
    /\ UNCHANGED people

FlagsRestored ==
    /\ CallsOn /\ Inner.next = "flags"
    /\ dormant' = IF Inner.flag THEN dormant \cup {Inner.who}
                                ELSE dormant \ {Inner.who}
    /\ ReturnNative
    /\ UNCHANGED <<people, hasC4, bomb>>

\* The game: a bomb is picked up or dropped, and a new round brings one back.
PickUp(p) ==
    /\ bomb = "ground" /\ team[p] = TERRORIST
    /\ bomb' = p /\ hasC4' = hasC4 \cup {p}
    /\ UNCHANGED <<people, dormant, calls>>

Drop(p) ==
    /\ bomb = p
    /\ bomb' = "ground" /\ hasC4' = hasC4 \ {p}
    /\ UNCHANGED <<people, dormant, calls>>

NewRound ==
    /\ calls = <<>> /\ bomb \in {"lost", "ground"}
    /\ GiveC4
    /\ UNCHANGED <<people, dormant, calls>>

Census(t) == Cardinality({p \in Player : team[p] = t})

TeamsInit ==
    /\ team \in [Player -> {TERRORIST, CT}]
    /\ count = [t \in {TERRORIST, CT} |-> Census(t)]
    /\ teamInfo = team
    /\ hasC4 = {} /\ defusers = {} /\ dormant = {} /\ overtaken = {}
    /\ bomb = "ground"
    /\ calls = <<>>

TeamNative ==
    \/ \E p \in Player, t \in TeamName, b, a \in BOOLEAN : rg_set_user_team(p, t, b, a)
    \/ \E p \in Player, r \in Player \cup {NoReceiver} : rg_transfer_c4(p, r)
    \/ \E p \in Player, d \in BOOLEAN : rg_give_defusekit(p, d)

TeamCallReturns ==
    \/ FlagCleared
    \/ BombGivenBack
    \/ SetPlayerTeamInfo
    \/ TeamChanged
    \/ MakeBomber
    \/ GiveWhileDormant
    \/ FlagsRestored

TeamsNext ==
    \/ TeamNative
    \/ TeamCallReturns
    \/ \E p \in Player : PickUp(p)
    \/ \E p \in Player : Drop(p)
    \/ NewRound

TeamsSpec == TeamsInit /\ [][TeamsNext]_teamVars

-----------------------------------------------------------------------------
(* Properties *)

TeamsTypeOK ==
    /\ team \in [Player -> TeamName] /\ teamInfo \in [Player -> TeamName]
    /\ count \in [{TERRORIST, CT} -> Int]
    /\ hasC4 \subseteq Player /\ defusers \subseteq Player
    /\ dormant \subseteq Player /\ overtaken \subseteq Player
    /\ bomb \in Player \cup {"ground", "flight", "lost"}
    /\ calls \in Seq(NativeCall)

\* Whatever plugins do inside the native, and already while they do it, the
\* game's counts are those of the players in the teams and nobody but a CT has a
\* defuse kit; and once the natives are over AMX Mod X has the right team for
\* everyone whose change was not overtaken by another one inside it: the outer
\* change reports its own team last (rg_set_user_team, rg_give_defusekit).
TeamsAgree ==
    /\ \A t \in {TERRORIST, CT} : count[t] = Census(t)
    /\ \A p \in defusers : team[p] = CT
    /\ ~CallsOn => \A p \in Player \ overtaken : teamInfo[p] = team[p]

\* The bomb is in one place: it is on its way in exactly one native in progress
\* or in none, whoever has it carries the flag, and the flag is without a bomb
\* only while the native that took the bomb has not got around to clearing it.
\* When the natives are over nobody is left dormant (rg_set_user_team,
\* rg_transfer_c4).
BombAccounted ==
    /\ Cardinality({i \in DOMAIN calls :
          calls[i].next \in {"c4 flag", "c4 give", "make bomber", "give"}})
         = (IF bomb = "flight" THEN 1 ELSE 0)
    /\ bomb \in Player => bomb \in hasC4
    /\ \A p \in hasC4 : bomb = p \/
          \E i \in DOMAIN calls : calls[i].who = p /\ calls[i].next = "c4 flag"
    /\ ~CallsOn => dormant = {}
=============================================================================
