------------------------------- MODULE MCServer -------------------------------
(***************************************************************************)
(* The parts of ReAPI that share no state with each other but the map: in  *)
(* every behaviour one part takes steps, and the others stay as they are.  *)
(* The file queries are followed once in the life of the server, with few  *)
(* of them, and once by themselves, with more.                             *)
(***************************************************************************)
EXTENDS Server, TempRings, Teams, Members, Wrappers, Natives, Info,
        MessageData, Ids, Models, TLC

CONSTANT Part       \* the parts that a run follows

VARIABLE part

vars == <<part, serverVars, ringVars, teamVars, memberVars, wrapperVars, nativeVars,
          infoVars, messageVars, idVars, modelVars>>

\* A map is running, with every library there, and nothing hooked.
MapRunning ==
    /\ offer = [l \in Library |-> "fits"] /\ api = Library
    /\ attached = "yes" /\ phase = "running"
    /\ playing \in Map \ LongName /\ nextMap = NoMap /\ name = playing /\ saved = playing
    /\ edicts = "this" /\ gameRules = "this"
    /\ armed = {} /\ pluginHooks = {}
    /\ gameHook = TRUE /\ voiceHooks = ("vtc" \in Library)

MCInit ==
    /\ part \in Part
    /\ IF part = "server" THEN LifeInit ELSE MapRunning
    /\ QueryInit /\ RingInit
    /\ IF part = "teams" THEN TRUE ELSE team = [p \in Player |-> CT]
    /\ TeamsInit
    /\ IF part = "members" THEN TRUE ELSE member = CHOOSE m \in MemberList : TRUE
    /\ MembersInit
    /\ IF part = "wrappers" THEN TRUE ELSE wrapper = CHOOSE w \in Wrapper : TRUE
    /\ WrappersInit
    /\ IF part = "natives" THEN TRUE ELSE library = "there"
    /\ NativesInit
    /\ InfoInit
    /\ IF part = "message" THEN TRUE ELSE message = Sent(NULL)
    /\ MessageInit
    /\ IF part = "ids" THEN TRUE ELSE unit = "hook_list" /\ initialised = 0
    /\ IdsInit
    /\ IF part = "models" THEN TRUE ELSE ent = Standing(FALSE)
    /\ ModelsInit

ServerPart ==
    /\ part = "server" /\ ServerNext
    /\ UNCHANGED <<part, ringVars, teamVars, memberVars, wrapperVars, nativeVars,
                   infoVars, messageVars, idVars, modelVars>>

QueriesPart ==
    /\ part = "queries" /\ (QueryStep \/ ClearQueries \/ QueryCrash)
    /\ UNCHANGED <<part, lifeVars, ringVars, teamVars, memberVars, wrapperVars,
                   nativeVars, infoVars, messageVars, idVars, modelVars>>

RingsPart ==
    /\ part = "rings" /\ RingNext
    /\ UNCHANGED <<part, serverVars, teamVars, memberVars, wrapperVars, nativeVars,
                   infoVars, messageVars, idVars, modelVars>>

TeamsPart ==
    /\ part = "teams" /\ TeamsNext
    /\ UNCHANGED <<part, serverVars, ringVars, memberVars, wrapperVars, nativeVars,
                   infoVars, messageVars, idVars, modelVars>>

MembersPart ==
    /\ part = "members" /\ MembersNext
    /\ UNCHANGED <<part, serverVars, ringVars, teamVars, wrapperVars, nativeVars,
                   infoVars, messageVars, idVars, modelVars>>

WrappersPart ==
    /\ part = "wrappers" /\ WrappersNext
    /\ UNCHANGED <<part, serverVars, ringVars, teamVars, memberVars, nativeVars,
                   infoVars, messageVars, idVars, modelVars>>

NativesPart ==
    /\ part = "natives" /\ NativesNext
    /\ UNCHANGED <<part, serverVars, ringVars, teamVars, memberVars, wrapperVars,
                   infoVars, messageVars, idVars, modelVars>>

InfoPart ==
    /\ part = "info" /\ InfoNext
    /\ UNCHANGED <<part, serverVars, ringVars, teamVars, memberVars, wrapperVars,
                   nativeVars, messageVars, idVars, modelVars>>

MessageDataPart ==
    /\ part = "message" /\ MessageNext
    /\ UNCHANGED <<part, serverVars, ringVars, teamVars, memberVars, wrapperVars,
                   nativeVars, infoVars, idVars, modelVars>>

IdsPart ==
    /\ part = "ids" /\ IdsNext
    /\ UNCHANGED <<part, serverVars, ringVars, teamVars, memberVars, wrapperVars,
                   nativeVars, infoVars, messageVars, modelVars>>

ModelsPart ==
    /\ part = "models" /\ ModelsNext
    /\ UNCHANGED <<part, serverVars, ringVars, teamVars, memberVars, wrapperVars,
                   nativeVars, infoVars, messageVars, idVars>>

MCNext ==
    \/ ServerPart
    \/ QueriesPart
    \/ RingsPart
    \/ TeamsPart
    \/ MembersPart
    \/ WrappersPart
    \/ NativesPart
    \/ InfoPart
    \/ MessageDataPart
    \/ IdsPart
    \/ ModelsPart

MCSpec == MCInit /\ [][MCNext]_vars

\* Bound of the model: in the life of the server one query while every library is
\* there and the map has its own name, and one more while plugins use nothing else.
Quiet == /\ \A l \in Library : offer[l] = "fits"
         /\ name = playing /\ "ResetGlobalState" \notin armed
FewQueries == part = "server" =>
    /\ Cardinality(issued) <= (IF Quiet THEN 1 ELSE 0) + (IF pluginHooks = {} THEN 1 ELSE 0)
    /\ \A f \in QueryForward \ issued : forwardOf[f] = FreeForward
    /\ \A a \in QueryAddr \ issued : handler[a] = FreeMemory

MCCell == {-1, 0, 1, 200, 300, 40000}

\* The keys name, team, n, which name begins with, and r, which like name is
\* important; X is the letter x in upper case.  A value and, in the strings, keys
\* and values are longer than the four letters that the natives can take.
MCNameKey == <<"n", "m">>
MCTeamKey == <<"t">>
MCInfoKey == {Nothing, <<"n">>, <<"r">>, MCNameKey, MCTeamKey}
MCImportant == {<<"r">>, MCNameKey}
MCLongText == <<"x", "x", "x", "x", "x">>
MCInfoValue == {Nothing, <<"x">>, <<"X", "x", "x">>, MCLongText, <<".", ".">>, <<"quote">>}
MCLowerCase == [l \in {"X"} |-> "x"]
MCInfoString == {<< <<"n">>, <<"x">>, MCNameKey, <<"x", "x">>, <<"n">>, <<"X">> >>,
                 << <<"n">>, <<"x">>, MCNameKey, MCLongText >>,
                 << MCNameKey \o <<"x", "x", "x">>, <<"x">>, MCNameKey, <<"x">> >>}

MCArgType == [arg1 |-> "Long", arg2 |-> "String"]
MCMessageCell == {-1, 1, 257}
MCMessageText == {<<"a">>, <<"a", "b", "c">>}

MCNumModels == <<2, 3, 1>>

-----------------------------------------------------------------------------

\* Every part's state has its type; of members, messages, models and the
\* engine's strings also the widths and lengths are in it.
ServerTypeOK ==
    /\ part = "server" => LifeTypeOK
    /\ part \in {"server", "queries"} => QueryTypeOK
    /\ part = "rings" => RingTypeOK
    /\ part = "teams" => TeamsTypeOK
    /\ part = "members" => MembersTypeOK
    /\ part = "wrappers" => WrapperTypeOK
    /\ part = "natives" => NativesTypeOK
    /\ part = "info" => InfoTypeOK
    /\ part = "message" => MessageTypeOK
    /\ part = "ids" => IdsTypeOK
    /\ part = "models" => ModelsTypeOK
=============================================================================
