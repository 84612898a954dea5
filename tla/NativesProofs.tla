---------------------------- MODULE NativesProofs ----------------------------
(***************************************************************************)
(* Natives that plugins run in the middle of.                              *)
(*                                                                         *)
(* Teams, for every finite set of players, however deep the natives call   *)
(* each other.                                                             *)
(*                                                                         *)
(* Natives: what they use is there (NativesUseWhatIsThere), for any        *)
(* numbers of edicts and of slots.  The steps of each native are looked at *)
(* once and for all: what it uses without trust it has checked before, and *)
(* what a call may take away it does not use after one (RegisterSound).    *)
(* And while a native runs, what its checks have established stays true of *)
(* the players, entities and clients that there are, but for those that    *)
(* are lost in a call (NativesInv).                                        *)
(***************************************************************************)
EXTENDS Teams, Natives, SequenceTheorems, FiniteSetTheorems, TLAPS

-----------------------------------------------------------------------------
(* The inductive invariant *)

\* What a call has yet to do.
ToReport == {"c4 flag", "c4 give", "team info"}
InFlight == {"c4 flag", "c4 give", "make bomber", "give"}

Reports(cs, i, p) == cs[i].who = p /\ cs[i].next \in ToReport
Restores(cs, i, p) == cs[i].who = p /\ cs[i].next = "flags"
Clears(cs, i, p) == cs[i].who = p /\ cs[i].next = "c4 flag"

CallsOK(cs) ==
    /\ cs \in Seq(NativeCall)
    /\ \A i \in DOMAIN cs : /\ cs[i].next \in ToReport => cs[i].to \in TeamName
                            /\ cs[i].next = "make bomber" => cs[i].to \in Player

CountsOK(tm, n) == \A t \in {TERRORIST, CT} : n[t] = Cardinality({p \in Player : tm[p] = t})

KitsOK(tm, k) == \A p \in k : tm[p] = CT

\* Whose change is not overtaken: all changes of theirs in progress are to the
\* team they are in, and AMX Mod X knows it or will be told.
InfoOK(cs, tm, ti, ov) ==
    \A p \in Player \ ov :
       /\ \A i \in DOMAIN cs : Reports(cs, i, p) => cs[i].to = tm[p]
       /\ ti[p] = tm[p] \/ \E i \in DOMAIN cs : Reports(cs, i, p)

FlightOK(cs, b) ==
    /\ \A i, j \in DOMAIN cs : cs[i].next \in InFlight /\ cs[j].next \in InFlight => i = j
    /\ b = "flight" <=> \E i \in DOMAIN cs : cs[i].next \in InFlight

BombFlagOK(cs, b, h) ==
    /\ b \in Player => b \in h
    /\ \A p \in h : b = p \/ \E i \in DOMAIN cs : Clears(cs, i, p)

\* A call that will leave a player dormant has another below it that will not.
DormantOK(cs, d) ==
    /\ \A p \in d : \E i \in DOMAIN cs : Restores(cs, i, p)
    /\ \A i \in DOMAIN cs : cs[i].next = "flags" /\ cs[i].flag =>
          \E j \in DOMAIN cs : j < i /\ Restores(cs, j, cs[i].who)

IInv ==
    /\ TeamsTypeOK
    /\ CallsOK(calls)
    /\ CountsOK(team, count) /\ KitsOK(team, defusers)
    /\ InfoOK(calls, team, teamInfo, overtaken)
    /\ FlightOK(calls, bomb) /\ BombFlagOK(calls, bomb, hasC4)
    /\ DormantOK(calls, dormant)

-----------------------------------------------------------------------------
(* The stack of natives *)

\* The stack ds is cs with the call c on top ...
Pushed(cs, ds, c) ==
    \E n : /\ n \notin DOMAIN cs /\ DOMAIN ds = DOMAIN cs \cup {n} /\ ds[n] = c
           /\ \A i \in DOMAIN cs : ds[i] = cs[i] /\ i < n

\* ... is cs with c in place of its innermost call ...
Replaced(cs, ds, c) ==
    /\ DOMAIN ds = DOMAIN cs /\ Len(cs) \in DOMAIN cs /\ ds[Len(cs)] = c
    /\ \A i \in DOMAIN cs : i # Len(cs) => ds[i] = cs[i] /\ i < Len(cs)

\* ... or is cs without that.
Popped(cs, ds) ==
    /\ Len(cs) \in DOMAIN cs /\ DOMAIN ds = DOMAIN cs \ {Len(cs)}
    /\ \A i \in DOMAIN ds : ds[i] = cs[i] /\ i < Len(cs)

LEMMA PushFacts ==
    ASSUME NEW cs \in Seq(NativeCall), NEW c \in NativeCall
    PROVE  Append(cs, c) \in Seq(NativeCall) /\ Pushed(cs, Append(cs, c), c)
<1> DEFINE ds == Append(cs, c)
           n == Len(cs) + 1
<1>1. /\ ds \in Seq(NativeCall) /\ ds[n] = c /\ DOMAIN ds = 1 .. n
      /\ Len(cs) \in Nat /\ DOMAIN cs = 1 .. Len(cs)
      /\ \A i \in 1 .. Len(cs) : ds[i] = cs[i]
  OBVIOUS
<1>. HIDE DEF ds
<1>2. n \notin DOMAIN cs /\ DOMAIN ds = DOMAIN cs \cup {n} /\ \A i \in DOMAIN cs : i < n
  BY <1>1
<1>. QED
  BY <1>1, <1>2 DEF Pushed, ds

LEMMA ReplaceFacts ==
    ASSUME NEW cs \in Seq(NativeCall), cs # <<>>, NEW c \in NativeCall
    PROVE  /\ [cs EXCEPT ![Len(cs)] = c] \in Seq(NativeCall)
           /\ Replaced(cs, [cs EXCEPT ![Len(cs)] = c], c)
           /\ cs[Len(cs)] \in NativeCall
<1> DEFINE ds == [cs EXCEPT ![Len(cs)] = c]
<1>1. /\ Len(cs) \in Nat /\ DOMAIN cs = 1 .. Len(cs) /\ Len(cs) \in DOMAIN cs
      /\ \A i \in DOMAIN cs : cs[i] \in NativeCall
  OBVIOUS
<1>2. /\ ds \in Seq(NativeCall) /\ DOMAIN ds = DOMAIN cs /\ ds[Len(cs)] = c
      /\ \A i \in DOMAIN cs : i # Len(cs) => ds[i] = cs[i]
  BY <1>1
<1>3. \A i \in DOMAIN cs : i # Len(cs) => i < Len(cs)
  BY <1>1
<1>. QED
  BY <1>1, <1>2, <1>3 DEF Replaced

LEMMA PopFacts ==
    ASSUME NEW cs \in Seq(NativeCall), cs # <<>>
    PROVE  /\ SubSeq(cs, 1, Len(cs) - 1) \in Seq(NativeCall)
           /\ Popped(cs, SubSeq(cs, 1, Len(cs) - 1))
<1> DEFINE ds == SubSeq(cs, 1, Len(cs) - 1)
<1>1. Len(cs) \in Nat /\ DOMAIN cs = 1 .. Len(cs) /\ Len(cs) \in DOMAIN cs
  OBVIOUS
<1>2. /\ ds \in Seq(NativeCall) /\ DOMAIN ds = 1 .. Len(cs) - 1
      /\ \A i \in 1 .. Len(cs) - 1 : ds[i] = cs[i]
  BY <1>1
<1>. HIDE DEF ds
<1>3. DOMAIN ds = DOMAIN cs \ {Len(cs)} /\ \A i \in DOMAIN ds : i < Len(cs)
  BY <1>1, <1>2
<1>. QED
  BY <1>1, <1>2, <1>3 DEF Popped, ds

-----------------------------------------------------------------------------
(* Counting players *)

\* The numbers follow a player who changes teams.
LEMMA CountsFollow ==
    ASSUME NEW tm \in [Player -> TeamName], NEW n \in [{TERRORIST, CT} -> Int],
           CountsOK(tm, n), NEW p \in Player, NEW to \in TeamName,
           NEW m, m = [t \in {TERRORIST, CT} |->
                         n[t] + (IF t = to THEN 1 ELSE 0) - (IF t = tm[p] THEN 1 ELSE 0)]
    PROVE  CountsOK([tm EXCEPT ![p] = to], m)
<1> DEFINE tn == [tm EXCEPT ![p] = to]
           S(t) == {q \in Player : tm[q] = t}
           T(t) == {q \in Player : tn[q] = t}
<1>1. tn \in [Player -> TeamName] /\ tn[p] = to /\ \A q \in Player : q # p => tn[q] = tm[q]
  OBVIOUS
<1>. HIDE DEF tn
<1>. SUFFICES ASSUME NEW t \in {TERRORIST, CT} PROVE m[t] = Cardinality(T(t))
  BY DEF CountsOK, tn
<1>2. n[t] = Cardinality(S(t)) /\ n[t] \in Int
  BY DEF CountsOK
<1>3. IsFiniteSet(S(t)) /\ Cardinality(S(t)) \in Nat
  <2>1. S(t) \in SUBSET Player
    OBVIOUS
  <2>. HIDE DEF S
  <2>. QED
    BY <2>1, FS_Subset, FS_CardinalityType, PlayerAssumption
<1>4. CASE t = to /\ t # tm[p]
  <2>1. p \notin S(t) /\ T(t) = S(t) \cup {p}
    BY <1>1, <1>4
  <2>. HIDE DEF S, T
  <2>2. Cardinality(T(t)) = Cardinality(S(t)) + 1
    BY <1>3, <2>1, FS_AddElement
  <2>. QED
    BY <1>2, <1>3, <1>4, <2>2
<1>5. CASE t # to /\ t = tm[p]
  <2>1. p \in S(t) /\ T(t) = S(t) \ {p}
    BY <1>1, <1>5
  <2>. HIDE DEF S, T
  <2>2. Cardinality(T(t)) = Cardinality(S(t)) - 1
    BY <1>3, <2>1, FS_RemoveElement
  <2>. QED
    BY <1>2, <1>3, <1>5, <2>2
<1>6. CASE (t # to /\ t # tm[p]) \/ (t = to /\ t = tm[p])
  <2>1. T(t) = S(t)
    BY <1>1, <1>6
  <2>. HIDE DEF S, T
  <2>. QED
    BY <1>2, <1>3, <1>6, <2>1
<1>. QED
  BY <1>4, <1>5, <1>6

-----------------------------------------------------------------------------
(* The steps *)

LEMMA InnerType ==
    ASSUME IInv, CallsOn
    PROVE  /\ Inner \in NativeCall /\ Inner.who \in Player /\ Inner.flag \in BOOLEAN
           /\ Len(calls) \in DOMAIN calls /\ Inner = calls[Len(calls)]
           /\ calls \in Seq(NativeCall) /\ calls # <<>>
<1>1. calls \in Seq(NativeCall) /\ calls # <<>>
  BY DEF IInv, CallsOK, CallsOn
<1>2. Len(calls) \in DOMAIN calls /\ calls[Len(calls)] \in NativeCall
  BY <1>1
<1>. QED
  BY <1>1, <1>2 DEF Inner, NativeCall

\* The call at k goes on to next, and the other calls wait.
GoesOn(cs, ds, k, next) ==
    /\ DOMAIN ds = DOMAIN cs /\ k \in DOMAIN cs /\ ds[k].next = next
    /\ \A i \in DOMAIN cs : ds[i].who = cs[i].who /\ ds[i].to = cs[i].to
    /\ \A i \in DOMAIN cs : i # k => ds[i].next = cs[i].next /\ ds[i].flag = cs[i].flag

LEMMA GoOnGoes ==
    ASSUME IInv, CallsOn, NEW next \in ToReport \cup {"check win"}, GoOn(next)
    PROVE  calls' \in Seq(NativeCall) /\ GoesOn(calls, calls', Len(calls), next)
<1> DEFINE c == [Inner EXCEPT !.next = next]
<1>1. /\ Inner \in NativeCall /\ Inner.flag \in BOOLEAN /\ calls \in Seq(NativeCall)
      /\ calls # <<>> /\ Inner = calls[Len(calls)] /\ Len(calls) \in DOMAIN calls
  BY InnerType
<1>2. c \in NativeCall /\ c.who = Inner.who /\ c.to = Inner.to /\ c.next = next
  BY <1>1 DEF NativeCall, ToReport
<1>3. calls' = [calls EXCEPT ![Len(calls)] = c]
  BY <1>1 DEF GoOn
<1>. HIDE DEF c
<1>4. calls' \in Seq(NativeCall) /\ Replaced(calls, calls', c)
  BY <1>1, <1>2, <1>3, ReplaceFacts
<1>. QED
  BY <1>1, <1>2, <1>4 DEF GoesOn, Replaced

\* What the other calls do not change.
LEMMA GoesOnCalls ==
    ASSUME NEW cs, NEW ds \in Seq(NativeCall), NEW k, NEW next,
           CallsOK(cs), GoesOn(cs, ds, k, next), cs[k].next \in ToReport,
           next \in ToReport \cup {"check win"}
    PROVE  CallsOK(ds)
BY DEF CallsOK, GoesOn, ToReport

LEMMA GoesOnInfo ==
    ASSUME NEW cs, NEW ds, NEW k, NEW next, NEW tm, NEW ti, NEW ov,
           InfoOK(cs, tm, ti, ov), GoesOn(cs, ds, k, next),
           cs[k].next \in ToReport, next \in ToReport
    PROVE  InfoOK(ds, tm, ti, ov)
<1>1. \A i \in DOMAIN cs : \A p : Reports(ds, i, p) <=> Reports(cs, i, p)
  BY DEF GoesOn, Reports
<1>. QED
  BY <1>1 DEF InfoOK, GoesOn

LEMMA GoesOnDormant ==
    ASSUME NEW cs, NEW ds, NEW k, NEW next, NEW d,
           DormantOK(cs, d), GoesOn(cs, ds, k, next), cs[k].next # "flags", next # "flags"
    PROVE  DormantOK(ds, d)
<1>1. \A i \in DOMAIN cs : \A p : Restores(ds, i, p) <=> Restores(cs, i, p)
  BY DEF GoesOn, Restores
<1>2. \A i \in DOMAIN cs : ds[i].next = "flags" =>
         cs[i].next = "flags" /\ ds[i].flag = cs[i].flag /\ ds[i].who = cs[i].who
  BY DEF GoesOn
<1>. QED
  BY <1>1, <1>2 DEF DormantOK, GoesOn

LEMMA GoesOnFlight ==
    ASSUME NEW cs, NEW ds, NEW k, NEW next, NEW b, NEW c,
           FlightOK(cs, b), GoesOn(cs, ds, k, next), cs[k].next \in InFlight,
           IF next \in InFlight THEN c = "flight" ELSE c # "flight"
    PROVE  FlightOK(ds, c)
<1>1. \A i \in DOMAIN cs : cs[i].next \in InFlight => i = k
  BY DEF FlightOK, GoesOn
<1>2. \A i \in DOMAIN cs : ds[i].next \in InFlight => i = k
  BY <1>1 DEF GoesOn
<1>. QED
  BY <1>2 DEF FlightOK, GoesOn

LEMMA FlagClearedKeepsInv == IInv /\ FlagCleared => IInv'
<1>. SUFFICES ASSUME IInv, FlagCleared PROVE IInv'
  OBVIOUS
<1> DEFINE k == Len(calls)
<1>1. /\ CallsOn /\ Inner.next = "c4 flag" /\ hasC4' = hasC4 \ {Inner.who}
      /\ GoOn("c4 give") /\ UNCHANGED <<people, bomb, dormant>>
  BY DEF FlagCleared
<1>2. calls' \in Seq(NativeCall) /\ GoesOn(calls, calls', k, "c4 give")
  BY <1>1, GoOnGoes DEF ToReport
<1>3. calls[k].next = "c4 flag" /\ calls[k].who = Inner.who /\ k \in DOMAIN calls
  BY <1>1, InnerType
<1>4. /\ CallsOK(calls) /\ InfoOK(calls, team, teamInfo, overtaken)
      /\ DormantOK(calls, dormant) /\ FlightOK(calls, bomb)
      /\ BombFlagOK(calls, bomb, hasC4)
  BY DEF IInv
<1>. HIDE DEF k
<1>5. TeamsTypeOK' /\ CountsOK(team', count') /\ KitsOK(team', defusers')
  BY <1>1, <1>2 DEF IInv, TeamsTypeOK, CountsOK, KitsOK, people
<1>6. CallsOK(calls')
  BY <1>2, <1>3, <1>4, GoesOnCalls DEF ToReport
<1>7. InfoOK(calls', team', teamInfo', overtaken')
  <2>1. InfoOK(calls', team, teamInfo, overtaken)
    BY <1>2, <1>3, <1>4, GoesOnInfo DEF ToReport
  <2>. QED
    BY <1>1, <2>1 DEF people
<1>8. FlightOK(calls', bomb')
  <2>1. bomb = "flight"
    BY <1>3, <1>4 DEF FlightOK, InFlight
  <2>2. FlightOK(calls', bomb)
    BY <1>2, <1>3, <1>4, <2>1, GoesOnFlight DEF InFlight
  <2>. QED
    BY <1>1, <2>2
<1>9. BombFlagOK(calls', bomb', hasC4')
  <2>1. bomb = "flight"
    BY <1>3, <1>4 DEF FlightOK, InFlight
  <2>2. \A i \in DOMAIN calls : \A p : Clears(calls, i, p) /\ p # Inner.who => Clears(calls', i, p)
    BY <1>2, <1>3 DEF GoesOn, Clears
  <2>. QED
    BY <1>1, <1>2, <1>4, <2>1, <2>2, PlayerAssumption DEF BombFlagOK, GoesOn
<1>10. DormantOK(calls', dormant')
  <2>1. DormantOK(calls', dormant)
    BY <1>2, <1>3, <1>4, GoesOnDormant
  <2>. QED
    BY <1>1, <2>1
<1>. QED
  BY <1>5, <1>6, <1>7, <1>8, <1>9, <1>10 DEF IInv

LEMMA GoesOnAside ==
    ASSUME NEW cs, NEW ds, NEW k, NEW next, NEW b,
           FlightOK(cs, b), GoesOn(cs, ds, k, next), cs[k].next \notin InFlight,
           next \notin InFlight
    PROVE  FlightOK(ds, b)
<1>1. \A i \in DOMAIN cs : ds[i].next \in InFlight <=> cs[i].next \in InFlight
  BY DEF GoesOn
<1>. QED
  BY <1>1 DEF FlightOK, GoesOn

LEMMA BombGivenBackKeepsInv == IInv /\ BombGivenBack => IInv'
<1>. SUFFICES ASSUME IInv, BombGivenBack PROVE IInv'
  OBVIOUS
<1> DEFINE k == Len(calls)
<1>1. /\ CallsOn /\ Inner.next = "c4 give" /\ GiveC4
      /\ GoOn("team info") /\ UNCHANGED <<people, dormant>>
  BY DEF BombGivenBack
<1>2. calls' \in Seq(NativeCall) /\ GoesOn(calls, calls', k, "team info")
  BY <1>1, GoOnGoes DEF ToReport
<1>3. calls[k].next = "c4 give" /\ k \in DOMAIN calls
  BY <1>1, InnerType
<1>4. /\ CallsOK(calls) /\ InfoOK(calls, team, teamInfo, overtaken)
      /\ DormantOK(calls, dormant) /\ FlightOK(calls, bomb)
      /\ BombFlagOK(calls, bomb, hasC4)
  BY DEF IInv
<1>5. /\ bomb' \in Player \cup {"lost"} /\ hasC4' \in SUBSET Player
      /\ bomb' \in Player => hasC4' = hasC4 \cup {bomb'}
      /\ bomb' = "lost" => hasC4' = hasC4
  BY <1>1, PlayerAssumption DEF GiveC4, IInv, TeamsTypeOK
<1>. HIDE DEF k
<1>6. TeamsTypeOK' /\ CountsOK(team', count') /\ KitsOK(team', defusers')
  BY <1>1, <1>2, <1>5 DEF IInv, TeamsTypeOK, CountsOK, KitsOK, people
<1>7. CallsOK(calls')
  BY <1>2, <1>3, <1>4, GoesOnCalls DEF ToReport
<1>8. InfoOK(calls', team', teamInfo', overtaken')
  <2>1. InfoOK(calls', team, teamInfo, overtaken)
    BY <1>2, <1>3, <1>4, GoesOnInfo DEF ToReport
  <2>. QED
    BY <1>1, <2>1 DEF people
<1>9. FlightOK(calls', bomb')
  <2>1. bomb' # "flight"
    BY <1>5, PlayerAssumption
  <2>. QED
    BY <1>2, <1>3, <1>4, <2>1, GoesOnFlight DEF InFlight
<1>10. BombFlagOK(calls', bomb', hasC4')
  <2>1. bomb = "flight" /\ \A i \in DOMAIN calls : calls[i].next # "c4 flag"
    BY <1>3, <1>4 DEF FlightOK, InFlight
  <2>2. hasC4 = {}
    BY <1>4, <2>1, PlayerAssumption DEF BombFlagOK, Clears, IInv, TeamsTypeOK
  <2>. QED
    BY <1>5, <2>2 DEF BombFlagOK
<1>11. DormantOK(calls', dormant')
  <2>1. DormantOK(calls', dormant)
    BY <1>2, <1>3, <1>4, GoesOnDormant
  <2>. QED
    BY <1>1, <2>1
<1>. QED
  BY <1>6, <1>7, <1>8, <1>9, <1>10, <1>11 DEF IInv

\* AMX Mod X is told the team that the call was made with.
LEMMA InfoReported ==
    ASSUME NEW cs, NEW ds, NEW k, NEW tm, NEW ti \in [Player -> TeamName], NEW ov,
           cs[k].who \in Player,
           InfoOK(cs, tm, ti, ov), GoesOn(cs, ds, k, "check win"), cs[k].next \in ToReport
    PROVE  InfoOK(ds, tm, [ti EXCEPT ![cs[k].who] = cs[k].to], ov)
<1> DEFINE w == cs[k].who
           tj == [ti EXCEPT ![w] = cs[k].to]
<1>1. tj[w] = cs[k].to /\ \A p \in Player : p # w => tj[p] = ti[p]
  OBVIOUS
<1>2. k \in DOMAIN cs /\ Reports(cs, k, w) /\ DOMAIN ds = DOMAIN cs
  BY DEF GoesOn, Reports
<1>3. \A i \in DOMAIN cs : \A p : Reports(ds, i, p) => Reports(cs, i, p) /\ ds[i].to = cs[i].to
  BY DEF GoesOn, Reports, ToReport
<1>4. \A i \in DOMAIN cs : \A p : Reports(cs, i, p) /\ p # w => Reports(ds, i, p)
  BY DEF GoesOn, Reports
<1>. HIDE DEF tj, w
<1>5. ASSUME NEW p \in Player \ ov
      PROVE  /\ \A i \in DOMAIN ds : Reports(ds, i, p) => ds[i].to = tm[p]
             /\ tj[p] = tm[p] \/ \E i \in DOMAIN ds : Reports(ds, i, p)
  <2>1. \A i \in DOMAIN ds : Reports(ds, i, p) => ds[i].to = tm[p]
    BY <1>2, <1>3 DEF InfoOK
  <2>2. CASE p = w
    <3>1. cs[k].to = tm[p]
      BY <1>2, <2>2 DEF InfoOK
    <3>. QED
      BY <1>1, <2>1, <2>2, <3>1
  <2>3. CASE p # w
    <3>1. tj[p] = ti[p]
      BY <1>1, <2>3
    <3>2. ti[p] = tm[p] \/ \E i \in DOMAIN cs : Reports(cs, i, p)
      BY DEF InfoOK
    <3>. QED
      BY <1>2, <1>4, <2>1, <2>3, <3>1, <3>2
  <2>. QED
    BY <2>2, <2>3
<1>. QED
  BY <1>5 DEF InfoOK, tj, w

LEMMA SetPlayerTeamInfoKeepsInv == IInv /\ SetPlayerTeamInfo => IInv'
<1>. SUFFICES ASSUME IInv, SetPlayerTeamInfo PROVE IInv'
  OBVIOUS
<1> DEFINE k == Len(calls)
<1>1. /\ CallsOn /\ Inner.next = "team info" /\ GoOn("check win")
      /\ teamInfo' = [teamInfo EXCEPT ![Inner.who] = Inner.to]
      /\ UNCHANGED <<team, count, defusers, overtaken, hasC4, bomb, dormant>>
  BY DEF SetPlayerTeamInfo
<1>2. calls' \in Seq(NativeCall) /\ GoesOn(calls, calls', k, "check win")
  BY <1>1, GoOnGoes
<1>3. /\ calls[k].next = "team info" /\ k \in DOMAIN calls /\ calls[k].who \in Player
      /\ teamInfo' = [teamInfo EXCEPT ![calls[k].who] = calls[k].to]
  BY <1>1, InnerType
<1>4. /\ CallsOK(calls) /\ InfoOK(calls, team, teamInfo, overtaken)
      /\ DormantOK(calls, dormant) /\ FlightOK(calls, bomb)
      /\ BombFlagOK(calls, bomb, hasC4) /\ teamInfo \in [Player -> TeamName]
  BY DEF IInv, TeamsTypeOK
<1>. HIDE DEF k
<1>5. TeamsTypeOK' /\ CountsOK(team', count') /\ KitsOK(team', defusers')
  <2>1. calls[k].to \in TeamName
    BY <1>3, <1>4 DEF CallsOK, ToReport
  <2>2. teamInfo' \in [Player -> TeamName]
    BY <1>3, <1>4, <2>1
  <2>. QED
    BY <1>1, <1>2, <2>2 DEF IInv, TeamsTypeOK, CountsOK, KitsOK
<1>6. CallsOK(calls')
  BY <1>2, <1>3, <1>4, GoesOnCalls DEF ToReport
<1>7. InfoOK(calls', team', teamInfo', overtaken')
  <2>1. InfoOK(calls', team, [teamInfo EXCEPT ![calls[k].who] = calls[k].to], overtaken)
    <3>1. calls[k].next \in ToReport
      BY <1>3 DEF ToReport
    <3>. QED
      BY <1>2, <1>3, <1>4, <3>1, InfoReported
  <2>. QED
    BY <1>1, <1>3, <2>1
<1>8. FlightOK(calls', bomb')
  <2>1. FlightOK(calls', bomb)
    BY <1>2, <1>3, <1>4, GoesOnAside DEF InFlight
  <2>. QED
    BY <1>1, <2>1
<1>9. BombFlagOK(calls', bomb', hasC4')
  <2>1. \A i \in DOMAIN calls : \A p : Clears(calls, i, p) => Clears(calls', i, p)
    BY <1>2, <1>3 DEF GoesOn, Clears
  <2>. QED
    BY <1>1, <1>2, <1>4, <2>1 DEF BombFlagOK, GoesOn
<1>10. DormantOK(calls', dormant')
  <2>1. DormantOK(calls', dormant)
    BY <1>2, <1>3, <1>4, GoesOnDormant
  <2>. QED
    BY <1>1, <2>1
<1>. QED
  BY <1>5, <1>6, <1>7, <1>8, <1>9, <1>10 DEF IInv

\* The innermost call returns.
LEMMA PoppedFacts ==
    ASSUME NEW cs, NEW ds \in Seq(NativeCall), Popped(cs, ds), NEW k, k = Len(cs)
    PROVE  /\ CallsOK(cs) => CallsOK(ds)
           /\ \A tm, ti, ov : InfoOK(cs, tm, ti, ov) /\ cs[k].next \notin ToReport =>
                 InfoOK(ds, tm, ti, ov)
           /\ \A d : DormantOK(cs, d) /\ cs[k].next # "flags" => DormantOK(ds, d)
           /\ \A b : FlightOK(cs, b) /\ cs[k].next \notin InFlight => FlightOK(ds, b)
           /\ \A b, c : FlightOK(cs, b) /\ cs[k].next \in InFlight /\ c # "flight" =>
                 FlightOK(ds, c)
<1>1. /\ k \in DOMAIN cs /\ DOMAIN ds = DOMAIN cs \ {k}
      /\ \A i \in DOMAIN ds : ds[i] = cs[i] /\ i < k
  BY DEF Popped
<1>2. CallsOK(cs) => CallsOK(ds)
  BY <1>1 DEF CallsOK
<1>3. \A i \in DOMAIN ds : \A p :
         /\ Reports(ds, i, p) <=> Reports(cs, i, p)
         /\ Restores(ds, i, p) <=> Restores(cs, i, p)
  BY <1>1 DEF Reports, Restores
<1>4. ASSUME NEW tm, NEW ti, NEW ov, InfoOK(cs, tm, ti, ov), cs[k].next \notin ToReport
      PROVE  InfoOK(ds, tm, ti, ov)
  <2>1. \A p : ~Reports(cs, k, p)
    BY <1>4 DEF Reports
  <2>. QED
    BY <1>1, <1>3, <1>4, <2>1 DEF InfoOK
<1>5. ASSUME NEW d, DormantOK(cs, d), cs[k].next # "flags" PROVE DormantOK(ds, d)
  <2>1. \A p : ~Restores(cs, k, p)
    BY <1>5 DEF Restores
  <2>. QED
    BY <1>1, <1>3, <1>5, <2>1 DEF DormantOK
<1>6. ASSUME NEW b, FlightOK(cs, b), cs[k].next \notin InFlight PROVE FlightOK(ds, b)
  BY <1>1, <1>6 DEF FlightOK
<1>7. ASSUME NEW b, NEW c, FlightOK(cs, b), cs[k].next \in InFlight, c # "flight"
      PROVE  FlightOK(ds, c)
  BY <1>1, <1>7 DEF FlightOK
<1>. QED
  BY <1>2, <1>4, <1>5, <1>6, <1>7

LEMMA ReturnFacts ==
    ASSUME IInv, CallsOn, ReturnNative
    PROVE  /\ calls' \in Seq(NativeCall) /\ Popped(calls, calls')
           /\ Len(calls) \in DOMAIN calls /\ Inner = calls[Len(calls)]
           /\ Inner.who \in Player
BY InnerType, PopFacts DEF ReturnNative

LEMMA TeamChangedKeepsInv == IInv /\ TeamChanged => IInv'
<1>. SUFFICES ASSUME IInv, TeamChanged PROVE IInv'
  OBVIOUS
<1> DEFINE k == Len(calls)
<1>1. /\ CallsOn /\ Inner.next = "check win" /\ ReturnNative
      /\ UNCHANGED <<people, hasC4, bomb, dormant>>
  BY DEF TeamChanged
<1>2. /\ calls' \in Seq(NativeCall) /\ Popped(calls, calls')
      /\ calls[k].next = "check win"
  BY <1>1, ReturnFacts
<1>3. /\ CallsOK(calls) /\ InfoOK(calls, team, teamInfo, overtaken)
      /\ DormantOK(calls, dormant) /\ FlightOK(calls, bomb)
      /\ BombFlagOK(calls, bomb, hasC4)
  BY DEF IInv
<1>4. TeamsTypeOK' /\ CountsOK(team', count') /\ KitsOK(team', defusers')
  BY <1>1, <1>2 DEF IInv, TeamsTypeOK, CountsOK, KitsOK, people
<1>5. /\ CallsOK(calls') /\ InfoOK(calls', team, teamInfo, overtaken)
      /\ DormantOK(calls', dormant) /\ FlightOK(calls', bomb)
  BY <1>2, <1>3, PoppedFacts DEF ToReport, InFlight
<1>6. BombFlagOK(calls', bomb, hasC4)
  <2>1. \A i \in DOMAIN calls : \A p : Clears(calls, i, p) =>
           i \in DOMAIN (calls') /\ Clears(calls', i, p)
    BY <1>2 DEF Popped, Clears
  <2>. QED
    BY <1>3, <2>1 DEF BombFlagOK
<1>. QED
  BY <1>1, <1>4, <1>5, <1>6 DEF IInv, people

LEMMA MakeBomberKeepsInv == IInv /\ MakeBomber => IInv'
<1>. SUFFICES ASSUME IInv, MakeBomber PROVE IInv'
  OBVIOUS
<1> DEFINE k == Len(calls)
<1>1. /\ CallsOn /\ Inner.next = "make bomber" /\ ReturnNative
      /\ \/ bomb' = Inner.to /\ hasC4' = hasC4 \cup {Inner.to}
         \/ bomb' = "lost" /\ UNCHANGED hasC4
      /\ UNCHANGED <<people, dormant>>
  BY DEF MakeBomber
<1>2. /\ calls' \in Seq(NativeCall) /\ Popped(calls, calls') /\ k \in DOMAIN calls
      /\ calls[k].next = "make bomber" /\ calls[k].to = Inner.to
  BY <1>1, ReturnFacts
<1>3. /\ CallsOK(calls) /\ InfoOK(calls, team, teamInfo, overtaken)
      /\ DormantOK(calls, dormant) /\ FlightOK(calls, bomb)
      /\ BombFlagOK(calls, bomb, hasC4) /\ hasC4 \subseteq Player
  BY DEF IInv, TeamsTypeOK
<1>. HIDE DEF k
<1>4. Inner.to \in Player
  BY <1>2, <1>3 DEF CallsOK
<1>5. /\ bomb' \in Player \cup {"lost"} /\ hasC4' \in SUBSET Player
      /\ bomb' # "flight"
      /\ bomb' \in Player => hasC4' = hasC4 \cup {bomb'}
      /\ bomb' = "lost" => hasC4' = hasC4
  BY <1>1, <1>3, <1>4, PlayerAssumption
<1>6. TeamsTypeOK' /\ CountsOK(team', count') /\ KitsOK(team', defusers')
  BY <1>1, <1>2, <1>5 DEF IInv, TeamsTypeOK, CountsOK, KitsOK, people
<1>7. /\ CallsOK(calls') /\ InfoOK(calls', team, teamInfo, overtaken)
      /\ DormantOK(calls', dormant) /\ FlightOK(calls', bomb')
  BY <1>2, <1>3, <1>5, PoppedFacts DEF ToReport, InFlight, k
<1>8. BombFlagOK(calls', bomb', hasC4')
  <2>1. bomb = "flight" /\ \A i \in DOMAIN calls : calls[i].next # "c4 flag"
    BY <1>2, <1>3 DEF FlightOK, InFlight
  <2>2. hasC4 = {}
    BY <1>3, <2>1, PlayerAssumption DEF BombFlagOK, Clears
  <2>. QED
    BY <1>5, <2>2 DEF BombFlagOK
<1>. QED
  BY <1>1, <1>6, <1>7, <1>8 DEF IInv, people

\* The flags saved are restored: they are FL_DORMANT only if a call further out
\* is going to clear it.
LEMMA DormantRestored ==
    ASSUME NEW cs, NEW ds, NEW k, k = Len(cs), Popped(cs, ds), NEW d,
           DormantOK(cs, d), cs[k].next = "flags"
    PROVE  DormantOK(ds, IF cs[k].flag THEN d \cup {cs[k].who} ELSE d \ {cs[k].who})
<1>1. /\ k \in DOMAIN cs /\ DOMAIN ds = DOMAIN cs \ {k}
      /\ \A i \in DOMAIN ds : ds[i] = cs[i] /\ i < k
  BY DEF Popped
<1>2. \A i \in DOMAIN ds : \A p : Restores(ds, i, p) <=> Restores(cs, i, p)
  BY <1>1 DEF Restores
<1>3. ASSUME NEW i \in DOMAIN ds, ds[i].next = "flags", ds[i].flag
      PROVE  \E j \in DOMAIN ds : j < i /\ Restores(ds, j, ds[i].who)
  <2>1. PICK j \in DOMAIN cs : j < i /\ Restores(cs, j, cs[i].who)
    BY <1>1, <1>3 DEF DormantOK
  <2>2. j # k
    BY <1>1, <1>3, <2>1
  <2>. QED
    BY <1>1, <1>2, <2>1, <2>2
<1>4. \A p \in d : p # cs[k].who => \E i \in DOMAIN ds : Restores(ds, i, p)
  <2>1. \A p : Restores(cs, k, p) => p = cs[k].who
    BY DEF Restores
  <2>. QED
    BY <1>1, <1>2, <2>1 DEF DormantOK
<1>5. cs[k].flag => \E i \in DOMAIN ds : Restores(ds, i, cs[k].who)
  <2>. SUFFICES ASSUME cs[k].flag PROVE \E i \in DOMAIN ds : Restores(ds, i, cs[k].who)
    OBVIOUS
  <2>1. PICK j \in DOMAIN cs : j < k /\ Restores(cs, j, cs[k].who)
    BY <1>1 DEF DormantOK
  <2>2. j # k
    BY <2>1
  <2>. QED
    BY <1>1, <1>2, <2>1, <2>2
<1>. QED
  BY <1>3, <1>4, <1>5 DEF DormantOK

LEMMA FlagsRestoredKeepsInv == IInv /\ FlagsRestored => IInv'
<1>. SUFFICES ASSUME IInv, FlagsRestored PROVE IInv'
  OBVIOUS
<1> DEFINE k == Len(calls)
<1>1. /\ CallsOn /\ Inner.next = "flags" /\ ReturnNative
      /\ dormant' = IF Inner.flag THEN dormant \cup {Inner.who} ELSE dormant \ {Inner.who}
      /\ UNCHANGED <<people, hasC4, bomb>>
  BY DEF FlagsRestored
<1>2. /\ calls' \in Seq(NativeCall) /\ Popped(calls, calls') /\ k \in DOMAIN calls
      /\ calls[k].next = "flags" /\ Inner = calls[k] /\ Inner.who \in Player
  BY <1>1, ReturnFacts
<1>3. /\ CallsOK(calls) /\ InfoOK(calls, team, teamInfo, overtaken)
      /\ DormantOK(calls, dormant) /\ FlightOK(calls, bomb)
      /\ BombFlagOK(calls, bomb, hasC4)
  BY DEF IInv
<1>4. TeamsTypeOK' /\ CountsOK(team', count') /\ KitsOK(team', defusers')
  BY <1>1, <1>2 DEF IInv, TeamsTypeOK, CountsOK, KitsOK, people
<1>5. CallsOK(calls') /\ InfoOK(calls', team, teamInfo, overtaken) /\ FlightOK(calls', bomb)
  BY <1>2, <1>3, PoppedFacts DEF ToReport, InFlight
<1>6. BombFlagOK(calls', bomb, hasC4)
  <2>1. \A i \in DOMAIN calls : \A p : Clears(calls, i, p) =>
           i \in DOMAIN (calls') /\ Clears(calls', i, p)
    BY <1>2 DEF Popped, Clears
  <2>. QED
    BY <1>3, <2>1 DEF BombFlagOK
<1>7. DormantOK(calls', dormant')
  BY <1>1, <1>2, <1>3, DormantRestored
<1>. QED
  BY <1>1, <1>4, <1>5, <1>6, <1>7 DEF IInv, people

\* FL_DORMANT is set, and the call keeps what it was before.
LEMMA DormantSaved ==
    ASSUME NEW cs, NEW ds, NEW c, Replaced(cs, ds, c), NEW k, k = Len(cs), NEW d,
           DormantOK(cs, d), cs[k].next # "flags",
           c.next = "flags", c.flag <=> c.who \in d
    PROVE  DormantOK(ds, d \cup {c.who})
<1>1. /\ k \in DOMAIN cs /\ DOMAIN ds = DOMAIN cs /\ ds[k] = c
      /\ \A i \in DOMAIN cs : i # k => ds[i] = cs[i] /\ i < k
  BY DEF Replaced
<1>2. \A i \in DOMAIN ds : \A p : Restores(cs, i, p) => i # k /\ i < k /\ Restores(ds, i, p)
  BY <1>1 DEF Restores
<1>3. Restores(ds, k, c.who)
  BY <1>1 DEF Restores
<1>4. ASSUME NEW i \in DOMAIN ds, ds[i].next = "flags", ds[i].flag
      PROVE  \E j \in DOMAIN ds : j < i /\ Restores(ds, j, ds[i].who)
  <2>1. CASE i = k
    <3>1. \E j \in DOMAIN cs : Restores(cs, j, c.who)
      BY <1>1, <1>4, <2>1 DEF DormantOK
    <3>. QED
      BY <1>1, <1>2, <2>1, <3>1
  <2>2. CASE i # k
    BY <1>1, <1>2, <1>4, <2>2 DEF DormantOK
  <2>. QED
    BY <2>1, <2>2
<1>5. \A p \in d \cup {c.who} : \E i \in DOMAIN ds : Restores(ds, i, p)
  BY <1>1, <1>2, <1>3 DEF DormantOK
<1>. QED
  BY <1>4, <1>5 DEF DormantOK

LEMMA GiveWhileDormantKeepsInv == IInv /\ GiveWhileDormant => IInv'
<1>. SUFFICES ASSUME IInv, GiveWhileDormant PROVE IInv'
  OBVIOUS
<1> DEFINE k == Len(calls)
           b == Inner.who \in dormant
           c == [Inner EXCEPT !.next = "flags", !.flag = b]
<1>1. /\ CallsOn /\ Inner.next = "give" /\ dormant' = dormant \cup {Inner.who}
      /\ \/ \E r \in Player : bomb' = r /\ hasC4' = hasC4 \cup {r}
         \/ bomb' = "lost" /\ UNCHANGED hasC4
      /\ UNCHANGED people
  BY DEF GiveWhileDormant
<1>2. /\ Inner \in NativeCall /\ Inner.who \in Player /\ Inner = calls[k]
      /\ k \in DOMAIN calls /\ calls \in Seq(NativeCall) /\ calls # <<>>
      /\ calls[k].next = "give"
  BY <1>1, InnerType
<1>3. calls' = [calls EXCEPT ![k] = c]
  BY <1>2 DEF GiveWhileDormant
<1>4. /\ c \in NativeCall /\ c.who = Inner.who /\ c.to = Inner.to /\ c.next = "flags"
      /\ c.flag <=> c.who \in dormant
  <2>1. b \in BOOLEAN
    OBVIOUS
  <2>2. b <=> Inner.who \in dormant
    OBVIOUS
  <2>. HIDE DEF b
  <2>3. c \in NativeCall /\ c.who = Inner.who /\ c.to = Inner.to /\ c.next = "flags"
    BY <1>2, <2>1 DEF NativeCall
  <2>4. c.flag = b
    BY <1>2 DEF NativeCall
  <2>. QED
    BY <2>2, <2>3, <2>4
<1>. HIDE DEF c
<1>5. calls' \in Seq(NativeCall) /\ Replaced(calls, calls', c)
  BY <1>2, <1>3, <1>4, ReplaceFacts
<1>6. /\ CallsOK(calls) /\ InfoOK(calls, team, teamInfo, overtaken)
      /\ DormantOK(calls, dormant) /\ FlightOK(calls, bomb)
      /\ BombFlagOK(calls, bomb, hasC4) /\ hasC4 \subseteq Player
  BY DEF IInv, TeamsTypeOK
<1>7. GoesOn(calls, calls', k, "flags")
  BY <1>2, <1>4, <1>5 DEF GoesOn, Replaced
<1>8. /\ bomb' \in Player \cup {"lost"} /\ hasC4' \in SUBSET Player
      /\ bomb' # "flight"
      /\ bomb' \in Player => hasC4' = hasC4 \cup {bomb'}
      /\ bomb' = "lost" => hasC4' = hasC4
  BY <1>1, <1>6, PlayerAssumption
<1>. HIDE DEF k
<1>9. TeamsTypeOK' /\ CountsOK(team', count') /\ KitsOK(team', defusers')
  BY <1>1, <1>2, <1>5, <1>8 DEF IInv, TeamsTypeOK, CountsOK, KitsOK, people
<1>10. CallsOK(calls')
  BY <1>5, <1>6, <1>7 DEF CallsOK, GoesOn, ToReport
<1>11. InfoOK(calls', team, teamInfo, overtaken)
  <2>1. \A i \in DOMAIN calls : \A p : Reports(calls', i, p) <=> Reports(calls, i, p)
    BY <1>2, <1>7 DEF GoesOn, Reports, ToReport
  <2>. QED
    BY <1>6, <1>7, <2>1 DEF InfoOK, GoesOn
<1>12. FlightOK(calls', bomb')
  BY <1>2, <1>6, <1>7, <1>8, GoesOnFlight DEF InFlight
<1>13. BombFlagOK(calls', bomb', hasC4')
  <2>1. bomb = "flight" /\ \A i \in DOMAIN calls : calls[i].next # "c4 flag"
    BY <1>2, <1>6 DEF FlightOK, InFlight
  <2>2. hasC4 = {}
    BY <1>6, <2>1, PlayerAssumption DEF BombFlagOK, Clears
  <2>. QED
    BY <1>8, <2>2 DEF BombFlagOK
<1>14. DormantOK(calls', dormant')
  <2>1. DormantOK(calls', dormant \cup {c.who})
    BY <1>2, <1>4, <1>5, <1>6, DormantSaved DEF k
  <2>. QED
    BY <1>1, <1>4, <2>1
<1>. QED
  BY <1>1, <1>9, <1>10, <1>11, <1>12, <1>13, <1>14 DEF IInv, people

\* A call begins.
LEMMA PushedFacts ==
    ASSUME NEW cs, NEW ds \in Seq(NativeCall), NEW c, Pushed(cs, ds, c)
    PROVE  /\ CallsOK(cs) /\ (c.next \in ToReport => c.to \in TeamName)
              /\ (c.next = "make bomber" => c.to \in Player) => CallsOK(ds)
           /\ \A tm, ti, ov : InfoOK(cs, tm, ti, ov) /\ c.next \notin ToReport =>
                 InfoOK(ds, tm, ti, ov)
           /\ \A d : DormantOK(cs, d) /\ c.next # "flags" => DormantOK(ds, d)
           /\ \A b : FlightOK(cs, b) /\ c.next \notin InFlight => FlightOK(ds, b)
           /\ \A b : FlightOK(cs, b) /\ b # "flight" /\ c.next \in InFlight =>
                 FlightOK(ds, "flight")
           /\ \A i \in DOMAIN cs : \A p : Clears(cs, i, p) => i \in DOMAIN ds /\ Clears(ds, i, p)
<1>1. PICK n : /\ n \notin DOMAIN cs /\ DOMAIN ds = DOMAIN cs \cup {n} /\ ds[n] = c
               /\ \A i \in DOMAIN cs : ds[i] = cs[i] /\ i < n
  BY DEF Pushed
<1>2. \A i \in DOMAIN cs : \A p :
         /\ Reports(ds, i, p) <=> Reports(cs, i, p)
         /\ Restores(ds, i, p) <=> Restores(cs, i, p)
         /\ Clears(ds, i, p) <=> Clears(cs, i, p)
  BY <1>1 DEF Reports, Restores, Clears
<1>3. ASSUME CallsOK(cs), c.next \in ToReport => c.to \in TeamName,
             c.next = "make bomber" => c.to \in Player
      PROVE  CallsOK(ds)
  BY <1>1, <1>3 DEF CallsOK
<1>4. ASSUME NEW tm, NEW ti, NEW ov, InfoOK(cs, tm, ti, ov), c.next \notin ToReport
      PROVE  InfoOK(ds, tm, ti, ov)
  <2>1. \A p : ~Reports(ds, n, p)
    BY <1>1, <1>4 DEF Reports
  <2>. QED
    BY <1>1, <1>2, <1>4, <2>1 DEF InfoOK
<1>5. ASSUME NEW d, DormantOK(cs, d), c.next # "flags" PROVE DormantOK(ds, d)
  BY <1>1, <1>2, <1>5 DEF DormantOK
<1>6. ASSUME NEW b, FlightOK(cs, b), c.next \notin InFlight PROVE FlightOK(ds, b)
  BY <1>1, <1>6 DEF FlightOK
<1>7. ASSUME NEW b, FlightOK(cs, b), b # "flight", c.next \in InFlight
      PROVE  FlightOK(ds, "flight")
  BY <1>1, <1>7 DEF FlightOK
<1>. QED
  BY <1>1, <1>2, <1>3, <1>4, <1>5, <1>6, <1>7

\* Someone changes teams: what is still to be reported of them is either the
\* same team, or they are overtaken.
LEMMA ChangePushed ==
    ASSUME NEW cs, NEW ds, NEW c, Pushed(cs, ds, c), c.next \in ToReport,
           NEW p, c.who = p, NEW to, c.to = to,
           NEW tm \in [Player -> TeamName], NEW ti, NEW ov, InfoOK(cs, tm, ti, ov),
           p \in Player, to \in TeamName,
           NEW ow, ow = IF \E i \in DOMAIN cs : Reports(cs, i, p) /\ cs[i].to # to
                        THEN ov \cup {p} ELSE ov \ {p}
    PROVE  InfoOK(ds, [tm EXCEPT ![p] = to], ti, ow)
<1> DEFINE tn == [tm EXCEPT ![p] = to]
<1>1. tn[p] = to /\ \A q \in Player : q # p => tn[q] = tm[q]
  OBVIOUS
<1>. HIDE DEF tn
<1>2. PICK n : /\ n \notin DOMAIN cs /\ DOMAIN ds = DOMAIN cs \cup {n} /\ ds[n] = c
               /\ \A i \in DOMAIN cs : ds[i] = cs[i] /\ i < n
  BY DEF Pushed
<1>3. \A i \in DOMAIN cs : \A q : Reports(ds, i, q) <=> Reports(cs, i, q)
  BY <1>2 DEF Reports
<1>4. Reports(ds, n, p) /\ \A q : q # p => ~Reports(ds, n, q)
  BY <1>2 DEF Reports
<1>5. ASSUME NEW q \in Player \ ow
      PROVE  /\ \A i \in DOMAIN ds : Reports(ds, i, q) => ds[i].to = tn[q]
             /\ ti[q] = tn[q] \/ \E i \in DOMAIN ds : Reports(ds, i, q)
  <2>1. CASE q = p
    <3>1. \A i \in DOMAIN cs : Reports(cs, i, p) => cs[i].to = to
      BY <2>1
    <3>. QED
      BY <1>1, <1>2, <1>3, <1>4, <2>1, <3>1
  <2>2. CASE q # p
    <3>1. q \in Player \ ov
      BY <2>2
    <3>2. /\ \A i \in DOMAIN cs : Reports(cs, i, q) => cs[i].to = tm[q]
          /\ ti[q] = tm[q] \/ \E i \in DOMAIN cs : Reports(cs, i, q)
      BY <3>1 DEF InfoOK
    <3>. QED
      BY <1>1, <1>2, <1>3, <1>4, <2>2, <3>2
  <2>. QED
    BY <2>1, <2>2
<1>. QED
  BY <1>5 DEF InfoOK, tn

LEMMA TransferKeepsInv ==
    ASSUME IInv, NEW p \in Player, NEW r \in Player \cup {NoReceiver}, rg_transfer_c4(p, r)
    PROVE  IInv'
<1> DEFINE d == p \in dormant
           nx == IF r = NoReceiver THEN "give" ELSE "make bomber"
           c == [who |-> p, to |-> r, flag |-> d, next |-> nx]
<1>1. /\ p \in hasC4 /\ bomb = p /\ bomb' = "flight" /\ hasC4' = hasC4 \ {p}
      /\ calls' = Append(calls, c) /\ UNCHANGED <<people, dormant>>
  BY DEF rg_transfer_c4, EnterNative
<1>2. c \in NativeCall /\ c.to = r /\ c.next = nx
  <2>1. d \in BOOLEAN /\ nx \in {"give", "make bomber"}
    OBVIOUS
  <2>. HIDE DEF d, nx
  <2>. QED
    BY <2>1 DEF NativeCall, NoReceiver
<1>3. /\ nx \in InFlight /\ nx \notin ToReport /\ nx # "flags"
      /\ nx = "make bomber" => r \in Player
  BY DEF InFlight, ToReport
<1>. HIDE DEF c, nx
<1>4. /\ CallsOK(calls) /\ InfoOK(calls, team, teamInfo, overtaken)
      /\ DormantOK(calls, dormant) /\ FlightOK(calls, bomb)
      /\ BombFlagOK(calls, bomb, hasC4) /\ hasC4 \subseteq Player
      /\ calls \in Seq(NativeCall)
  BY DEF IInv, TeamsTypeOK
<1>5. calls' \in Seq(NativeCall) /\ Pushed(calls, calls', c)
  BY <1>1, <1>2, <1>4, PushFacts
<1>6. TeamsTypeOK' /\ CountsOK(team', count') /\ KitsOK(team', defusers')
  BY <1>1, <1>5 DEF IInv, TeamsTypeOK, CountsOK, KitsOK, people
<1>7. bomb # "flight"
  BY <1>1, PlayerAssumption
<1>8. /\ CallsOK(calls') /\ InfoOK(calls', team, teamInfo, overtaken)
      /\ DormantOK(calls', dormant) /\ FlightOK(calls', "flight")
  BY <1>2, <1>3, <1>4, <1>5, <1>7, PushedFacts
<1>9. BombFlagOK(calls', bomb', hasC4')
  <2>1. \A i \in DOMAIN calls : \A q : Clears(calls, i, q) =>
           i \in DOMAIN (calls') /\ Clears(calls', i, q)
    BY <1>5, PushedFacts
  <2>. QED
    BY <1>1, <1>4, <2>1, PlayerAssumption DEF BombFlagOK
<1>. QED
  BY <1>1, <1>6, <1>8, <1>9 DEF IInv, people

LEMMA ChangeKeepsInv ==
    ASSUME IInv, NEW p \in Player, NEW to \in TeamName, NEW planting \in BOOLEAN,
           NEW alive \in BOOLEAN, rg_set_user_team(p, to, planting, alive)
    PROVE  IInv'
<1> DEFINE prev == team[p]
           leaves == prev = TERRORIST /\ to # prev /\ p \in hasC4 /\ planting
           gives == leaves /\ CountAfter(prev, to)[TERRORIST] > 0 /\ bomb = p
           drops == leaves /\ ~gives /\ alive
           nx == IF gives THEN "c4 flag" ELSE "team info"
           c == [who |-> p, to |-> to, flag |-> FALSE, next |-> nx]
<1>1. /\ team' = [team EXCEPT ![p] = to] /\ count' = CountAfter(team[p], to)
      /\ defusers' = DefusersAfter(p, team[p], to)
      /\ calls' = Append(calls, c) /\ UNCHANGED <<teamInfo, dormant>>
  BY DEF rg_set_user_team, EnterNative
<1>2. bomb' = (IF gives THEN "flight" ELSE IF drops /\ bomb = p THEN "ground" ELSE bomb)
  BY DEF rg_set_user_team
<1>3. hasC4' = IF drops /\ bomb = p THEN hasC4 \ {p} ELSE hasC4
  BY DEF rg_set_user_team
<1>4. overtaken' = IF \E i \in DOMAIN calls : Reports(calls, i, p) /\ calls[i].to # to
                   THEN overtaken \cup {p} ELSE overtaken \ {p}
  <2>1. (\E i \in DOMAIN calls : Reports(calls, i, p) /\ calls[i].to # to) <=>
        (\E i \in DOMAIN calls :
            calls[i].who = p /\ calls[i].to # to
            /\ calls[i].next \in {"c4 flag", "c4 give", "team info"})
    BY DEF Reports, ToReport
  <2>. QED
    BY <2>1 DEF rg_set_user_team
<1>5. \* the bomb leaves the player, on its way or to the ground, or stays where it is
      \/ nx = "c4 flag" /\ bomb = p /\ bomb' = "flight" /\ hasC4' = hasC4
      \/ nx = "team info" /\ bomb = p /\ bomb' = "ground" /\ hasC4' = hasC4 \ {p}
      \/ nx = "team info" /\ bomb' = bomb /\ hasC4' = hasC4
  BY <1>2, <1>3
<1>6. nx \in ToReport /\ nx # "flags" /\ nx # "make bomber"
      /\ (nx = "c4 flag" => nx \in InFlight) /\ (nx = "team info" => nx \notin InFlight)
  BY DEF InFlight, ToReport
<1>. HIDE DEF gives, drops, leaves, prev, nx
<1>7. c \in NativeCall /\ c.who = p /\ c.to = to /\ c.next = nx
  BY <1>6 DEF NativeCall, ToReport
<1>. HIDE DEF c
<1>8. /\ CallsOK(calls) /\ InfoOK(calls, team, teamInfo, overtaken)
      /\ DormantOK(calls, dormant) /\ FlightOK(calls, bomb)
      /\ BombFlagOK(calls, bomb, hasC4) /\ hasC4 \subseteq Player
      /\ calls \in Seq(NativeCall) /\ team \in [Player -> TeamName]
      /\ CountsOK(team, count) /\ KitsOK(team, defusers) /\ defusers \subseteq Player
      /\ count \in [{TERRORIST, CT} -> Int] /\ overtaken \subseteq Player
      /\ bomb \in Player \cup {"ground", "flight", "lost"}
  BY DEF IInv, TeamsTypeOK
<1>9. calls' \in Seq(NativeCall) /\ Pushed(calls, calls', c)
  BY <1>1, <1>7, <1>8, PushFacts
<1>10. CountsOK(team', count')
  BY <1>1, <1>8, CountsFollow DEF CountAfter
<1>11. TeamsTypeOK'
  <2>1. team' \in [Player -> TeamName]
    BY <1>1, <1>8
  <2>2. count' \in [{TERRORIST, CT} -> Int]
    BY <1>1, <1>8 DEF CountAfter
  <2>3. defusers' \subseteq Player /\ overtaken' \subseteq Player
    BY <1>1, <1>4, <1>8 DEF DefusersAfter
  <2>4. hasC4' \subseteq Player /\ bomb' \in Player \cup {"ground", "flight", "lost"}
    BY <1>5, <1>8
  <2>. QED
    BY <1>1, <1>9, <2>1, <2>2, <2>3, <2>4 DEF IInv, TeamsTypeOK
<1>12. KitsOK(team', defusers')
  <2>1. defusers' \subseteq defusers /\ (p \in defusers' => team[p] # CT \/ to = CT)
    BY <1>1 DEF DefusersAfter
  <2>2. team'[p] = to /\ \A q \in Player : q # p => team'[q] = team[q]
    BY <1>1, <1>8
  <2>. QED
    BY <1>8, <2>1, <2>2 DEF KitsOK
<1>13. CallsOK(calls') /\ DormantOK(calls', dormant')
  BY <1>1, <1>6, <1>7, <1>8, <1>9, PushedFacts
<1>14. InfoOK(calls', team', teamInfo', overtaken')
  <2>1. InfoOK(calls', [team EXCEPT ![p] = to], teamInfo, overtaken')
    BY <1>4, <1>6, <1>7, <1>8, <1>9, ChangePushed
  <2>. QED
    BY <1>1, <2>1
<1>15. \A i \in DOMAIN calls : \A q : Clears(calls, i, q) =>
          i \in DOMAIN (calls') /\ Clears(calls', i, q)
  BY <1>9, PushedFacts
<1>16. FlightOK(calls', bomb') /\ BombFlagOK(calls', bomb', hasC4')
  <2>1. CASE nx = "c4 flag" /\ bomb = p /\ bomb' = "flight" /\ hasC4' = hasC4
    <3>1. bomb # "flight"
      BY <2>1, PlayerAssumption
    <3>2. FlightOK(calls', "flight")
      <4>1. c.next \in InFlight
        BY <1>6, <1>7, <2>1
      <4>. QED
        BY <1>8, <1>9, <3>1, <4>1, PushedFacts
    <3>3. \E i \in DOMAIN (calls') : Clears(calls', i, p)
      BY <1>7, <1>9, <2>1 DEF Pushed, Clears
    <3>. QED
      BY <1>8, <1>15, <2>1, <3>2, <3>3, PlayerAssumption DEF BombFlagOK
  <2>2. CASE nx = "team info" /\ bomb = p /\ bomb' = "ground" /\ hasC4' = hasC4 \ {p}
    <3>1. FlightOK(calls', bomb)
      BY <1>6, <1>7, <1>8, <1>9, <2>2, PushedFacts
    <3>2. FlightOK(calls', bomb')
      BY <2>2, <3>1, PlayerAssumption DEF FlightOK
    <3>. QED
      BY <1>8, <1>15, <2>2, <3>2, PlayerAssumption DEF BombFlagOK
  <2>3. CASE nx = "team info" /\ bomb' = bomb /\ hasC4' = hasC4
    <3>1. FlightOK(calls', bomb)
      BY <1>6, <1>7, <1>8, <1>9, <2>3, PushedFacts
    <3>. QED
      BY <1>8, <1>15, <2>3, <3>1 DEF BombFlagOK
  <2>. QED
    BY <1>5, <2>1, <2>2, <2>3
<1>. QED
  BY <1>10, <1>11, <1>12, <1>13, <1>14, <1>16 DEF IInv

\* The steps that begin or end no call.
LEMMA GameKeepsInv ==
    ASSUME IInv, UNCHANGED <<team, count, teamInfo, overtaken, dormant, calls>>,
           \/ (\E p \in Player, def \in BOOLEAN : rg_give_defusekit(p, def))
           \/ (\E p \in Player : PickUp(p) \/ Drop(p))
           \/ NewRound
    PROVE  IInv'
<1>1. /\ CallsOK(calls) /\ InfoOK(calls, team, teamInfo, overtaken)
      /\ DormantOK(calls, dormant) /\ FlightOK(calls, bomb)
      /\ BombFlagOK(calls, bomb, hasC4) /\ hasC4 \subseteq Player
      /\ KitsOK(team, defusers) /\ defusers \subseteq Player
      /\ bomb \in Player \cup {"ground", "flight", "lost"}
  BY DEF IInv, TeamsTypeOK
<1>2. ASSUME UNCHANGED defusers, FlightOK(calls, bomb'), BombFlagOK(calls, bomb', hasC4'),
             hasC4' \subseteq Player, bomb' \in Player \cup {"ground", "flight", "lost"}
      PROVE  IInv'
  BY <1>2 DEF IInv, TeamsTypeOK
<1>3. ASSUME bomb # "flight", bomb' # "flight" PROVE FlightOK(calls, bomb')
  BY <1>1, <1>3 DEF FlightOK
<1>4. ASSUME NEW p \in Player, NEW def \in BOOLEAN, rg_give_defusekit(p, def) PROVE IInv'
  <2>1. /\ KitsOK(team, defusers') /\ defusers' \subseteq Player
        /\ UNCHANGED <<bomb, hasC4>>
    BY <1>1, <1>4 DEF rg_give_defusekit, KitsOK
  <2>. QED
    BY <2>1 DEF IInv, TeamsTypeOK
<1>5. ASSUME NEW p \in Player, PickUp(p) PROVE IInv'
  <2>1. bomb = "ground" /\ bomb' = p /\ hasC4' = hasC4 \cup {p} /\ UNCHANGED defusers
    BY <1>5 DEF PickUp, people
  <2>2. BombFlagOK(calls, bomb', hasC4')
    BY <1>1, <2>1, PlayerAssumption DEF BombFlagOK
  <2>. QED
    BY <1>1, <1>2, <1>3, <2>1, <2>2, PlayerAssumption
<1>6. ASSUME NEW p \in Player, Drop(p) PROVE IInv'
  <2>1. bomb = p /\ bomb' = "ground" /\ hasC4' = hasC4 \ {p} /\ UNCHANGED defusers
    BY <1>6 DEF Drop, people
  <2>2. BombFlagOK(calls, bomb', hasC4')
    BY <1>1, <2>1, PlayerAssumption DEF BombFlagOK
  <2>. QED
    BY <1>1, <1>2, <1>3, <2>1, <2>2, PlayerAssumption
<1>7. ASSUME NewRound PROVE IInv'
  <2>1. /\ calls = <<>> /\ bomb \in {"lost", "ground"} /\ UNCHANGED defusers
        /\ \/ \E r \in Player : bomb' = r /\ hasC4' = hasC4 \cup {r}
           \/ bomb' = "lost" /\ UNCHANGED hasC4
    BY <1>7 DEF NewRound, GiveC4, people
  <2>2. hasC4 = {}
    BY <1>1, <2>1, PlayerAssumption DEF BombFlagOK
  <2>3. bomb' \in Player \cup {"lost"} /\ bomb' # "flight" /\ hasC4' \subseteq Player
        /\ BombFlagOK(calls, bomb', hasC4')
    BY <2>1, <2>2, PlayerAssumption DEF BombFlagOK
  <2>. QED
    BY <1>1, <1>2, <1>3, <2>1, <2>3
<1>. QED
  BY <1>4, <1>5, <1>6, <1>7

LEMMA NextKeepsInv == IInv /\ [TeamsNext]_teamVars => IInv'
<1>. SUFFICES ASSUME IInv, [TeamsNext]_teamVars PROVE IInv'
  OBVIOUS
<1>1. CASE UNCHANGED teamVars
  BY <1>1 DEF teamVars, IInv, TeamsTypeOK
<1>2. CASE TeamCallReturns
  BY <1>2, FlagClearedKeepsInv, BombGivenBackKeepsInv, SetPlayerTeamInfoKeepsInv,
     TeamChangedKeepsInv, MakeBomberKeepsInv, GiveWhileDormantKeepsInv,
     FlagsRestoredKeepsInv DEF TeamCallReturns
<1>3. ASSUME NEW p \in Player, NEW t \in TeamName, NEW b \in BOOLEAN, NEW a \in BOOLEAN,
             rg_set_user_team(p, t, b, a)
      PROVE  IInv'
  BY <1>3, ChangeKeepsInv
<1>4. ASSUME NEW p \in Player, NEW r \in Player \cup {NoReceiver}, rg_transfer_c4(p, r)
      PROVE  IInv'
  BY <1>4, TransferKeepsInv
<1>5. ASSUME NEW p \in Player, NEW d \in BOOLEAN, rg_give_defusekit(p, d) PROVE IInv'
  <2>1. UNCHANGED <<team, count, teamInfo, overtaken, dormant, calls>>
    BY <1>5 DEF rg_give_defusekit
  <2>. QED
    BY <1>5, <2>1, GameKeepsInv
<1>6. ASSUME NEW p \in Player, PickUp(p) \/ Drop(p) PROVE IInv'
  <2>1. UNCHANGED <<team, count, teamInfo, overtaken, dormant, calls>>
    BY <1>6 DEF PickUp, Drop, people
  <2>. QED
    BY <1>6, <2>1, GameKeepsInv
<1>7. CASE NewRound
  <2>1. UNCHANGED <<team, count, teamInfo, overtaken, dormant, calls>>
    BY <1>7 DEF NewRound, people
  <2>. QED
    BY <1>7, <2>1, GameKeepsInv
<1>. QED
  BY <1>1, <1>2, <1>3, <1>4, <1>5, <1>6, <1>7 DEF TeamsNext, TeamNative

LEMMA InitEstablishesInv == TeamsInit => IInv
<1>. SUFFICES ASSUME TeamsInit PROVE IInv
  OBVIOUS
<1>1. /\ team \in [Player -> TeamName] /\ teamInfo = team
      /\ count = [t \in {TERRORIST, CT} |-> Census(t)]
      /\ hasC4 = {} /\ defusers = {} /\ dormant = {} /\ overtaken = {}
      /\ bomb = "ground" /\ calls = <<>>
  BY DEF TeamsInit, TeamName
<1>2. \A t \in {TERRORIST, CT} :
         count[t] = Cardinality({p \in Player : team[p] = t}) /\ count[t] \in Int
  <2>. SUFFICES ASSUME NEW t \in {TERRORIST, CT}
                PROVE  /\ count[t] = Cardinality({p \in Player : team[p] = t})
                       /\ count[t] \in Int
    OBVIOUS
  <2> DEFINE S == {p \in Player : team[p] = t}
  <2>1. count[t] = Cardinality(S)
    BY <1>1 DEF Census
  <2>2. S \in SUBSET Player
    OBVIOUS
  <2>. HIDE DEF S
  <2>3. Cardinality(S) \in Nat
    BY <2>2, FS_Subset, FS_CardinalityType, PlayerAssumption
  <2>. QED
    BY <2>1, <2>3 DEF S
<1>3. calls \in Seq(NativeCall)
  BY <1>1
<1>4. DOMAIN calls = {}
  BY <1>1
<1>5. count \in [{TERRORIST, CT} -> Int]
  BY <1>1, <1>2
<1>6. TeamsTypeOK /\ CountsOK(team, count) /\ KitsOK(team, defusers)
  BY <1>1, <1>2, <1>3, <1>5 DEF TeamsTypeOK, CountsOK, KitsOK
<1>7. /\ CallsOK(calls) /\ InfoOK(calls, team, teamInfo, overtaken)
      /\ DormantOK(calls, dormant)
  BY <1>1, <1>3, <1>4 DEF CallsOK, InfoOK, DormantOK
<1>8. FlightOK(calls, bomb) /\ BombFlagOK(calls, bomb, hasC4)
  BY <1>1, <1>4, PlayerAssumption DEF FlightOK, BombFlagOK
<1>. QED
  BY <1>6, <1>7, <1>8 DEF IInv

THEOREM TeamsInvariance == TeamsSpec => []IInv
<1>. QED
  BY InitEstablishesInv, NextKeepsInv, PTL DEF TeamsSpec

-----------------------------------------------------------------------------
(* The properties *)

\* The players, the bomb and the stack of natives have their types, whatever
\* natives plugins call inside natives (rg_set_user_team, rg_transfer_c4,
\* rg_give_defusekit).
THEOREM TeamsTypes == TeamsSpec => []TeamsTypeOK
<1>1. IInv => TeamsTypeOK
  BY DEF IInv
<1>. QED
  BY <1>1, TeamsInvariance, PTL

\* The game's counts are those of the players in the teams, only CTs have a
\* defuse kit, and when the natives are over AMX Mod X has the right team for
\* everyone whose change was not overtaken (rg_set_user_team).
THEOREM TeamsStayInStep == TeamsSpec => []TeamsAgree
<1>1. ASSUME IInv PROVE TeamsAgree
  <2>1. \A t \in {TERRORIST, CT} : count[t] = Census(t)
    BY <1>1 DEF IInv, CountsOK, Census
  <2>2. \A p \in defusers : team[p] = CT
    BY <1>1 DEF IInv, KitsOK
  <2>3. ASSUME ~CallsOn PROVE \A p \in Player \ overtaken : teamInfo[p] = team[p]
    <3>1. DOMAIN calls = {}
      BY <2>3 DEF CallsOn
    <3>. QED
      BY <1>1, <3>1 DEF IInv, InfoOK
  <2>. QED
    BY <2>1, <2>2, <2>3 DEF TeamsAgree
<1>. QED
  BY <1>1, TeamsInvariance, PTL

\* The bomb is on its way in exactly one native or is somewhere, its bearer has
\* the flag and nobody else but the one it is being taken from, and nobody stays
\* dormant after the natives (rg_set_user_team, rg_transfer_c4).
THEOREM BombIsAccounted == TeamsSpec => []BombAccounted
<1>1. ASSUME IInv PROVE BombAccounted
  <2> DEFINE F == {i \in DOMAIN calls : calls[i].next \in InFlight}
  <2>1. /\ FlightOK(calls, bomb) /\ BombFlagOK(calls, bomb, hasC4)
        /\ DormantOK(calls, dormant)
    BY <1>1 DEF IInv
  <2>2. Cardinality(F) = IF bomb = "flight" THEN 1 ELSE 0
    <3>1. ASSUME bomb = "flight" PROVE Cardinality(F) = 1
      <4>1. PICK i \in DOMAIN calls : calls[i].next \in InFlight
        BY <2>1, <3>1 DEF FlightOK
      <4>2. F = {i}
        BY <2>1, <4>1 DEF FlightOK
      <4>. HIDE DEF F
      <4>. QED
        BY <4>2, FS_Singleton
    <3>2. ASSUME bomb # "flight" PROVE Cardinality(F) = 0
      <4>1. F = {}
        BY <2>1, <3>2 DEF FlightOK
      <4>. HIDE DEF F
      <4>. QED
        BY <4>1, FS_EmptySet
    <3>. QED
      BY <3>1, <3>2
  <2>3. ASSUME ~CallsOn PROVE dormant = {}
    <3>1. DOMAIN calls = {}
      BY <2>3 DEF CallsOn
    <3>. QED
      BY <2>1, <3>1 DEF DormantOK
  <2>4. bomb \in Player => bomb \in hasC4
    BY <2>1 DEF BombFlagOK
  <2>5. \A p \in hasC4 : bomb = p \/
           \E i \in DOMAIN calls : calls[i].who = p /\ calls[i].next = "c4 flag"
    BY <2>1 DEF BombFlagOK, Clears
  <2>. QED
    BY <2>2, <2>3, <2>4, <2>5 DEF BombAccounted, InFlight
<1>. QED
  BY <1>1, TeamsInvariance, PTL

-----------------------------------------------------------------------------
(* Natives.  Steps that are sound.                                          *)

Use == {"has_object", "player", "object", "weapon", "weapon_box", "edict", "entvars",
        "edict_or_null", "client", "client_or_none", "slot", "pointer", "weapon_info",
        "weapon_slot", "rules"}
Find == {"an_item", "a_new_entity"}

\* What is known after the steps K: Has(K, op, a) that the argument a has been
\* looked at as op, Calm(K) that plugins have not run, New(K, a) that the argument
\* a has not been looked at.
With(K, op, a) == K \cup {<<op, a>>}
Has(K, op, a) == <<op, a>> \in K
Calm(K) == \A p \in K : p[1] # "call"
New(K, a) == \A p \in K : p[2] # a

\* After the steps K a native may use its argument a as op.
Allowed(K, op, a) ==
    \/ op \in {"edict", "entvars", "edict_or_null", "has_object"} /\ Has(K, "entity_index", a)
    \/ op = "edict_or_null" /\ Has(K, "entity_or_none", a)
    \/ op = "edict" /\ Has(K, "a_new_entity", a) /\ Has(K, "not_null", a)
    \/ op = "player" /\ Has(K, "connected", a) /\ (Has(K, "player_index", a) \/ Has(K, "a_slot", a))
    \/ op = "object" /\ Has(K, "has_object", a) /\ Calm(K)
    \/ /\ op = "weapon" /\ Calm(K)
       /\ Has(K, "is_weapon", a) \/ (Has(K, "an_item", a) /\ Has(K, "not_null", a))
    \/ op = "client" /\ Has(K, "client_connected", a) /\ Calm(K)
    \/ op = "slot" /\ Has(K, "player_index", a)
    \/ op = "pointer" /\ Has(K, "not_zero", a)
    \/ op = "weapon_info" /\ Has(K, "weapon_id", a)
    \/ op = "weapon_slot" /\ Has(K, "has_slot", a)
    \/ op = "rules" /\ Has(K, "check_rules", a)

Justified(K, op, a, T) ==
    /\ op \in Use => a \in T \/ Allowed(K, op, a)
    /\ op \in Find => New(K, a)

IsSteps(s) == s # <<>> /\ \E S : s \in Seq(S)
Before(s, k) == {s[j] : j \in 1 .. (k - 1)}
After(K, s) == K \cup {s[k] : k \in DOMAIN s}

\* The steps s are justified in a native that has taken the steps K and trusts
\* the arguments T.
Sound(K, s, T) ==
    \A k \in DOMAIN s : /\ s[k] = <<s[k][1], s[k][2]>>
                        /\ Justified(K \cup Before(s, k), s[k][1], s[k][2], T)

Good(s, T) == IsSteps(s) /\ Sound({}, s, T)
AllGood(N) == \A n \in N : Good(n.steps, n.trusts)

-----------------------------------------------------------------------------
(* Steps one after the other.                                                *)

LEMMA HasWith ==
    ASSUME NEW K, NEW o, NEW b, NEW op, NEW a
    PROVE  Has(With(K, o, b), op, a) <=> (op = o /\ a = b) \/ Has(K, op, a)
BY DEF Has, With

LEMMA NewWith ==
    ASSUME NEW K, NEW o, NEW b, NEW a
    PROVE  New(With(K, o, b), a) <=> a # b /\ New(K, a)
<1>1. <<o, b>>[2] = b
  OBVIOUS
<1>. QED
  BY <1>1 DEF New, With

LEMMA OneStep ==
    ASSUME NEW op, NEW a
    PROVE  /\ IsSteps(About(op, a))
           /\ \A K : After(K, About(op, a)) = With(K, op, a)
           /\ \A K, T : Justified(K, op, a, T) => Sound(K, About(op, a), T)
<1> SUFFICES ASSUME NEW K, NEW T
             PROVE  /\ IsSteps(About(op, a))
                    /\ After(K, About(op, a)) = With(K, op, a)
                    /\ Justified(K, op, a, T) => Sound(K, About(op, a), T)
  OBVIOUS
<1> DEFINE s == About(op, a)
           p == <<op, a>>
<1>1. s \in Seq({p}) /\ DOMAIN s = {1} /\ s[1] = p
  BY DEF About
<1>2. Before(s, 1) = {}
  BY DEF Before
<1>3. p[1] = op /\ p[2] = a /\ p = <<p[1], p[2]>>
  OBVIOUS
<1>0. With(K, op, a) = K \cup {p}
  BY DEF With
<1>. HIDE DEF s, p
<1>4. After(K, s) = K \cup {p}
  BY <1>1 DEF After
<1>5. K \cup Before(s, 1) = K
  BY <1>2
<1>6. Justified(K, op, a, T) => Sound(K, s, T)
  BY <1>1, <1>3, <1>5 DEF Sound
<1>7. IsSteps(s)
  BY <1>1 DEF IsSteps
<1>. QED
  BY <1>0, <1>4, <1>6, <1>7 DEF s, p

LEMMA ThenSteps ==
    ASSUME NEW s, NEW t, IsSteps(s), IsSteps(t)
    PROVE  /\ IsSteps(s \o t)
           /\ \A K : After(K, s \o t) = After(After(K, s), t)
           /\ \A K, T : Sound(K, s, T) /\ Sound(After(K, s), t, T) => Sound(K, s \o t, T)
<1>1. PICK A, B : s \in Seq(A) /\ t \in Seq(B)
  BY DEF IsSteps
<1> DEFINE m == Len(s)
           n == Len(t)
           u == s \o t
           Elems(v) == {v[k] : k \in DOMAIN v}
<1>2. /\ m \in Nat /\ n \in Nat /\ DOMAIN s = 1 .. m /\ DOMAIN t = 1 .. n
      /\ s \in Seq(A \cup B) /\ t \in Seq(A \cup B)
  BY <1>1
<1>3. /\ u \in Seq(A \cup B) /\ DOMAIN u = 1 .. (m + n)
      /\ \A k \in 1 .. m : u[k] = s[k]
      /\ \A k \in 1 .. n : u[m + k] = t[k]
  BY <1>2
<1>. HIDE DEF m, n, u
<1>4. ASSUME NEW k \in 1 .. (m + n), k \notin 1 .. m
      PROVE  k - m \in 1 .. n /\ m + (k - m) = k
  BY <1>2, <1>4
<1>5. Elems(u) = Elems(s) \cup Elems(t)
  <2>1. ASSUME NEW k \in 1 .. (m + n) PROVE u[k] \in Elems(s) \cup Elems(t)
    BY <1>2, <1>3, <1>4
  <2>2. ASSUME NEW k \in 1 .. m PROVE s[k] \in Elems(u)
    <3>1. k \in 1 .. (m + n)
      BY <1>2
    <3>. QED
      BY <1>3, <3>1
  <2>3. ASSUME NEW k \in 1 .. n PROVE t[k] \in Elems(u)
    <3>1. m + k \in 1 .. (m + n)
      BY <1>2
    <3>. QED
      BY <1>3, <3>1
  <2>. QED
    BY <1>2, <1>3, <2>1, <2>2, <2>3
<1>6. \A k \in 1 .. m : Before(u, k) = Before(s, k)
  <2> SUFFICES ASSUME NEW k \in 1 .. m PROVE Before(u, k) = Before(s, k)
    OBVIOUS
  <2>1. \A j \in 1 .. (k - 1) : j \in 1 .. m /\ u[j] = s[j]
    BY <1>2, <1>3
  <2>. QED
    BY <2>1 DEF Before
<1>7. \A k \in 1 .. n : Before(u, m + k) = Elems(s) \cup Before(t, k)
  <2> SUFFICES ASSUME NEW k \in 1 .. n PROVE Before(u, m + k) = Elems(s) \cup Before(t, k)
    OBVIOUS
  <2>1. ASSUME NEW j \in 1 .. ((m + k) - 1) PROVE u[j] \in Elems(s) \cup Before(t, k)
    <3>1. CASE j \in 1 .. m
      BY <1>2, <1>3, <3>1
    <3>2. CASE j \notin 1 .. m
      <4>1. j - m \in 1 .. (k - 1) /\ j - m \in 1 .. n /\ m + (j - m) = j
        BY <1>2, <3>2
      <4>2. u[j] = t[j - m]
        BY <1>3, <4>1
      <4>. QED
        BY <4>1, <4>2 DEF Before
    <3>. QED
      BY <3>1, <3>2
  <2>2. ASSUME NEW j \in 1 .. m PROVE s[j] \in Before(u, m + k)
    <3>1. j \in 1 .. ((m + k) - 1)
      BY <1>2
    <3>. QED
      BY <1>3, <3>1 DEF Before
  <2>3. ASSUME NEW j \in 1 .. (k - 1) PROVE t[j] \in Before(u, m + k)
    <3>1. m + j \in 1 .. ((m + k) - 1) /\ j \in 1 .. n
      BY <1>2
    <3>2. u[m + j] = t[j]
      BY <1>3, <3>1
    <3>. QED
      BY <3>1, <3>2 DEF Before
  <2>4. Before(u, m + k) \subseteq Elems(s) \cup Before(t, k)
    BY <2>1 DEF Before
  <2>5. Elems(s) \subseteq Before(u, m + k)
    BY <1>2, <2>2
  <2>6. Before(t, k) \subseteq Before(u, m + k)
    BY <2>3 DEF Before
  <2>. QED
    BY <2>4, <2>5, <2>6
<1>8. \A K : /\ After(K, u) = K \cup (Elems(s) \cup Elems(t))
             /\ After(After(K, s), t) = (K \cup Elems(s)) \cup Elems(t)
             /\ After(K, s) = K \cup Elems(s)
  BY <1>5 DEF After
<1>9. \A K : After(K, u) = After(After(K, s), t)
  BY <1>8
<1>10. ASSUME NEW K, NEW T, Sound(K, s, T), Sound(K \cup Elems(s), t, T),
              NEW k \in 1 .. (m + n)
       PROVE  u[k] = <<u[k][1], u[k][2]>> /\ Justified(K \cup Before(u, k), u[k][1], u[k][2], T)
  <2>. HIDE DEF Elems
  <2>1. CASE k \in 1 .. m
    BY <1>2, <1>3, <1>6, <1>10, <2>1 DEF Sound
  <2>2. CASE k \notin 1 .. m
    <3> DEFINE j == k - m
    <3>1. j \in 1 .. n /\ u[k] = t[j]
      BY <1>3, <1>4, <2>2
    <3>2. Before(u, k) = Elems(s) \cup Before(t, j)
      BY <1>4, <1>7, <2>2
    <3>3. K \cup Before(u, k) = (K \cup Elems(s)) \cup Before(t, j)
      BY <3>2
    <3>4. t[j] = <<t[j][1], t[j][2]>> /\ Justified((K \cup Elems(s)) \cup Before(t, j), t[j][1], t[j][2], T)
      BY <1>2, <1>10, <3>1 DEF Sound
    <3>. HIDE DEF j
    <3>. QED
      BY <3>1, <3>3, <3>4
  <2>. QED
    BY <2>1, <2>2
<1>11. ASSUME NEW K, NEW T, Sound(K, s, T), Sound(After(K, s), t, T)
       PROVE  Sound(K, u, T)
  <2>1. Sound(K \cup Elems(s), t, T)
    BY <1>8, <1>11
  <2>. QED
    BY <1>3, <1>10, <1>11, <2>1 DEF Sound
<1>12. IsSteps(u)
  <2>1. m # 0
    BY <1>1 DEF IsSteps, m
  <2>2. 1 \in DOMAIN u
    BY <1>2, <1>3, <2>1
  <2>3. DOMAIN << >> = {}
    OBVIOUS
  <2>4. u # << >>
    BY <2>2, <2>3
  <2>. QED
    BY <1>3, <2>4 DEF IsSteps
<1>. QED
  BY <1>9, <1>11, <1>12 DEF u

-----------------------------------------------------------------------------
(* The same, fact by fact: one lemma for each kind of step.                  *)

LEMMA StepsOne == ASSUME NEW op, NEW a PROVE IsSteps(About(op, a))
BY OneStep

LEMMA AfterOne == ASSUME NEW K, NEW op, NEW a PROVE After(K, About(op, a)) = With(K, op, a)
BY OneStep

LEMMA StepsThen ==
    ASSUME NEW s, NEW t, IsSteps(s), IsSteps(t) PROVE IsSteps(s \o t)
BY ThenSteps

LEMMA AfterThen ==
    ASSUME NEW K, NEW s, NEW t, IsSteps(s), IsSteps(t)
    PROVE  After(K, s \o t) = After(After(K, s), t)
BY ThenSteps

LEMMA SoundThen ==
    ASSUME NEW K, NEW s, NEW t, NEW T, IsSteps(s), IsSteps(t), Sound(K, s, T), Sound(After(K, s), t, T)
    PROVE  Sound(K, s \o t, T)
BY ThenSteps

LEMMA StartNew == ASSUME NEW a PROVE New({}, a) /\ Calm({})
BY DEF New, Calm

LEMMA CalmWith ==
    ASSUME NEW K, NEW op, NEW a PROVE Calm(With(K, op, a)) <=> Calm(K) /\ op # "call"
<1>1. <<op, a>>[1] = op
  OBVIOUS
<1>. QED
  BY <1>1 DEF With, Calm

Looks(op) == op \notin Use /\ op \notin Find

LEMMA Looking ==
    /\ Looks("check_rules") /\ Looks("call") /\ Looks("return_or_not") /\ Looks("player_index")
    /\ Looks("entity_index") /\ Looks("connected") /\ Looks("is_weapon") /\ Looks("client_connected")
    /\ Looks("not_null") /\ Looks("not_negative") /\ Looks("weapon_id") /\ Looks("has_slot")
    /\ Looks("a_slot") /\ Looks("no_slot") /\ Looks("zero") /\ Looks("not_zero") /\ Looks("positive")
    /\ Looks("not_positive") /\ Looks("world_or_player") /\ Looks("null") /\ Looks("entity_or_none")
BY DEF Looks, Use, Find

LEMMA LookSound ==
    ASSUME NEW K, NEW op, NEW a, NEW T, Looks(op) PROVE Sound(K, About(op, a), T)
BY OneStep DEF Justified, Looks

LEMMA NotFinding ==
    /\ "player" \notin Find /\ "object" \notin Find /\ "weapon" \notin Find /\ "weapon_box" \notin Find
    /\ "edict_or_null" \notin Find /\ "client_or_none" \notin Find /\ "pointer" \notin Find
    /\ "weapon_slot" \notin Find /\ "has_object" \notin Find
BY DEF Find

LEMMA TrustSound ==
    ASSUME NEW K, NEW op, NEW a, NEW T, a \in T, op \notin Find
    PROVE  Sound(K, About(op, a), T)
BY OneStep DEF Justified

LEMMA FindItem ==
    ASSUME NEW K, NEW a, NEW T, New(K, a)
    PROVE  Sound(K, About("an_item", a), T)
BY OneStep DEF Justified, Use

LEMMA FindEntity ==
    ASSUME NEW K, NEW a, NEW T, New(K, a)
    PROVE  Sound(K, About("a_new_entity", a), T)
BY OneStep DEF Justified, Use

LEMMA UseEntity ==
    ASSUME NEW K, NEW a, NEW T, Has(K, "entity_index", a)
    PROVE  /\ Sound(K, About("edict", a), T)
           /\ Sound(K, About("entvars", a), T)
           /\ Sound(K, About("edict_or_null", a), T)
           /\ Sound(K, About("has_object", a), T)
BY OneStep DEF Justified, Allowed, Find

LEMMA UseValue ==
    ASSUME NEW K, NEW a, NEW T, Has(K, "entity_or_none", a)
    PROVE  Sound(K, About("edict_or_null", a), T)
BY OneStep DEF Justified, Allowed, Find

LEMMA UseMade ==
    ASSUME NEW K, NEW a, NEW T, Has(K, "a_new_entity", a), Has(K, "not_null", a)
    PROVE  Sound(K, About("edict", a), T)
BY OneStep DEF Justified, Allowed, Find

LEMMA UsePlayer ==
    ASSUME NEW K, NEW a, NEW T, Has(K, "connected", a), Has(K, "player_index", a) \/ Has(K, "a_slot", a)
    PROVE  Sound(K, About("player", a), T)
BY OneStep DEF Justified, Allowed, Find

LEMMA UseObject ==
    ASSUME NEW K, NEW a, NEW T, Has(K, "has_object", a), Calm(K)
    PROVE  Sound(K, About("object", a), T)
BY OneStep DEF Justified, Allowed, Find

LEMMA UseWeapon ==
    ASSUME NEW K, NEW a, NEW T, Calm(K),
           Has(K, "is_weapon", a) \/ (Has(K, "an_item", a) /\ Has(K, "not_null", a))
    PROVE  Sound(K, About("weapon", a), T)
BY OneStep DEF Justified, Allowed, Find

LEMMA UseClient ==
    ASSUME NEW K, NEW a, NEW T, Has(K, "client_connected", a), Calm(K)
    PROVE  Sound(K, About("client", a), T)
BY OneStep DEF Justified, Allowed, Find

LEMMA UseSlot ==
    ASSUME NEW K, NEW a, NEW T, Has(K, "player_index", a)
    PROVE  Sound(K, About("slot", a), T)
BY OneStep DEF Justified, Allowed, Find

LEMMA UsePointer ==
    ASSUME NEW K, NEW a, NEW T, Has(K, "not_zero", a)
    PROVE  Sound(K, About("pointer", a), T)
BY OneStep DEF Justified, Allowed, Find

LEMMA UseWeaponInfo ==
    ASSUME NEW K, NEW a, NEW T, Has(K, "weapon_id", a)
    PROVE  Sound(K, About("weapon_info", a), T)
BY OneStep DEF Justified, Allowed, Find

LEMMA UseWeaponSlot ==
    ASSUME NEW K, NEW a, NEW T, Has(K, "has_slot", a)
    PROVE  Sound(K, About("weapon_slot", a), T)
BY OneStep DEF Justified, Allowed, Find

LEMMA UseRules ==
    ASSUME NEW K, NEW a, NEW T, Has(K, "check_rules", a)
    PROVE  Sound(K, About("rules", a), T)
BY OneStep DEF Justified, Allowed, Find

-----------------------------------------------------------------------------
(* The steps that natives share.                                             *)

LEMMA Alone ==
    /\ Call = About("call", "-")
    /\ Maybe = About("return_or_not", "-")
    /\ Rules = About("check_rules", "-")
    /\ Do("rules") = About("rules", "-")
BY DEF Call, Maybe, Rules, Do, About

LEMMA PlayerSteps == ASSUME NEW a PROVE IsSteps(OnPlayer(a))
BY StepsOne, StepsThen DEF OnPlayer, IsPlayer, Connected, As

LEMMA PlayerAfter ==
    ASSUME NEW K, NEW a
    PROVE  After(K, OnPlayer(a)) = With(With(With(K, "player_index", a), "connected", a), "player", a)
BY StepsOne, StepsThen, AfterOne, AfterThen DEF OnPlayer, IsPlayer, Connected, As

LEMMA PlayerSound == ASSUME NEW K, NEW a, NEW T PROVE Sound(K, OnPlayer(a), T)
BY StepsOne, StepsThen, AfterOne, AfterThen, SoundThen, HasWith, Looking, LookSound, UsePlayer
   DEF OnPlayer, IsPlayer, Connected, As

LEMMA ObjectSteps == ASSUME NEW a PROVE IsSteps(OnObject(a))
BY StepsOne, StepsThen DEF OnObject, IsEntity, HasObject, As

LEMMA ObjectSound == ASSUME NEW K, NEW a, NEW T, Calm(K) PROVE Sound(K, OnObject(a), T)
BY StepsOne, StepsThen, AfterOne, AfterThen, SoundThen, HasWith, CalmWith, Looking, LookSound,
   UseEntity, UseObject
   DEF OnObject, IsEntity, HasObject, As

LEMMA ClientSteps == ASSUME NEW a PROVE IsSteps(OnClient(a))
BY StepsOne, StepsThen DEF OnClient, IsPlayer, As

LEMMA ClientSound == ASSUME NEW K, NEW a, NEW T, Calm(K) PROVE Sound(K, OnClient(a), T)
BY StepsOne, StepsThen, AfterOne, AfterThen, SoundThen, HasWith, CalmWith, Looking, LookSound, UseClient
   DEF OnClient, IsPlayer, As

LEMMA WeaponSteps == ASSUME NEW a PROVE IsSteps(OnWeapon(a))
BY StepsOne, StepsThen DEF OnWeapon, HasObject, IsWeapon, As

LEMMA WeaponAfter ==
    ASSUME NEW K, NEW a
    PROVE  After(K, OnWeapon(a)) = With(With(With(K, "has_object", a), "is_weapon", a), "weapon", a)
BY StepsOne, StepsThen, AfterOne, AfterThen DEF OnWeapon, HasObject, IsWeapon, As

LEMMA WeaponSound ==
    ASSUME NEW K, NEW a, NEW T, Calm(K), a \in T \/ Has(K, "entity_index", a)
    PROVE  Sound(K, OnWeapon(a), T)
BY StepsOne, StepsThen, AfterOne, AfterThen, SoundThen, HasWith, CalmWith, Looking, LookSound,
   UseEntity, UseWeapon, TrustSound, NotFinding
   DEF OnWeapon, HasObject, IsWeapon, As

LEMMA RulesSteps == IsSteps(OnRules)
BY StepsOne, StepsThen, Alone DEF OnRules

LEMMA RulesSound == ASSUME NEW K, NEW T PROVE Sound(K, OnRules, T)
BY StepsOne, StepsThen, AfterOne, AfterThen, SoundThen, HasWith, Looking, LookSound, UseRules, Alone
   DEF OnRules

LEMMA HasAfter ==
    ASSUME NEW K, NEW s, NEW op, NEW a, Has(K, op, a) PROVE Has(After(K, s), op, a)
BY DEF Has, After

LEMMA EachSteps == IsSteps(EachItem)
BY StepsOne, StepsThen, Alone DEF EachItem, As

LEMMA EachSound ==
    ASSUME NEW K, NEW T, New(K, "item"), New(K, "next"), Calm(K) PROVE Sound(K, EachItem, T)
BY StepsOne, StepsThen, AfterOne, AfterThen, SoundThen, HasWith, NewWith, CalmWith, Looking, LookSound,
   FindItem, UseWeapon, Alone
   DEF EachItem, As

LEMMA LastSteps == IsSteps(LastItem)
BY StepsOne DEF LastItem

LEMMA LastSound == ASSUME NEW K, NEW T PROVE Sound(K, LastItem, T)
BY Looking, LookSound DEF LastItem

LEMMA NextSteps == IsSteps(NextItem)
BY StepsOne, StepsThen, Alone DEF NextItem, As

LEMMA NextSound ==
    ASSUME NEW K, NEW T, "next" \in T, Has(K, "connected", "index"), Has(K, "player_index", "index")
    PROVE  Sound(K, NextItem, T)
BY StepsOne, StepsThen, AfterOne, AfterThen, SoundThen, HasWith, Looking, LookSound, TrustSound,
   NotFinding, UsePlayer, Alone
   DEF NextItem, As

LEMMA UsedSteps == ASSUME NEW a PROVE IsSteps(As("weapon", a))
BY StepsOne DEF As

LEMMA UsedSound == ASSUME NEW K, NEW a, NEW T, a \in T PROVE Sound(K, As("weapon", a), T)
BY TrustSound, NotFinding DEF As

LEMMA ItemsSteps == ASSUME NEW items \in DroppedItems \cup RemovedItems PROVE IsSteps(items)
BY EachSteps, LastSteps, NextSteps, UsedSteps, StepsThen DEF DroppedItems, RemovedItems

\* The items of a slot, dropped or removed, are used as the native trusts them.
LEMMA ItemsSound ==
    ASSUME NEW K, NEW T, New(K, "item"), New(K, "next"), Calm(K), "next" \in T,
           Has(K, "connected", "index"), Has(K, "player_index", "index"),
           NEW items, items \in DroppedItems \/ (items \in RemovedItems /\ "item" \in T)
    PROVE  Sound(K, items, T)
<1> DEFINE used == EachItem \o As("weapon", "item")
<1>1. Sound(K, EachItem, T) /\ IsSteps(EachItem)
  BY EachSound, EachSteps
<1>2. \A s : /\ Has(After(K, s), "connected", "index") /\ Has(After(K, s), "player_index", "index")
             /\ Sound(After(K, s), LastItem, T) /\ Sound(After(K, s), NextItem, T)
  BY HasAfter, LastSound, NextSound
<1>3. IsSteps(used) /\ ("item" \in T => Sound(K, used, T))
  BY <1>1, UsedSteps, UsedSound, StepsThen, SoundThen
<1>4. CASE items = EachItem \o LastItem
  BY <1>1, <1>2, <1>4, LastSteps, SoundThen
<1>5. CASE items = EachItem \o NextItem
  BY <1>1, <1>2, <1>5, NextSteps, SoundThen
<1>. HIDE DEF used
<1>6. CASE items = used \o LastItem /\ "item" \in T
  BY <1>3, <1>2, <1>6, LastSteps, SoundThen
<1>7. CASE items = used \o NextItem \o As("weapon", "next") /\ "item" \in T
  <2>1. IsSteps(used \o NextItem) /\ Sound(K, used \o NextItem, T)
    BY <1>3, <1>2, <1>7, NextSteps, StepsThen, SoundThen
  <2>. QED
    BY <1>7, <2>1, UsedSteps, UsedSound, SoundThen
<1>. QED
  BY <1>4, <1>5, <1>6, <1>7 DEF DroppedItems, RemovedItems, used

\* They leave what they do not name unseen.
LEMMA ItemsNew ==
    ASSUME NEW K, New(K, "made"), NEW items \in DroppedItems \cup RemovedItems
    PROVE  New(After(K, items), "made")
<1>1. ASSUME NEW L, New(L, "made")
      PROVE  /\ New(After(L, EachItem), "made") /\ New(After(L, LastItem), "made")
             /\ New(After(L, NextItem), "made")
             /\ New(After(L, As("weapon", "item")), "made")
             /\ New(After(L, As("weapon", "next")), "made")
  BY <1>1, StepsOne, StepsThen, AfterOne, AfterThen, NewWith, Alone
     DEF EachItem, LastItem, NextItem, As
<1> DEFINE used == EachItem \o As("weapon", "item")
<1>2. IsSteps(used) /\ New(After(K, used), "made") /\ New(After(K, EachItem), "made")
  BY <1>1, EachSteps, UsedSteps, StepsThen, AfterThen
<1>. HIDE DEF used
<1>3. /\ New(After(K, EachItem \o LastItem), "made") /\ New(After(K, EachItem \o NextItem), "made")
      /\ New(After(K, used \o LastItem), "made") /\ New(After(K, used \o NextItem), "made")
      /\ IsSteps(used \o NextItem)
  BY <1>1, <1>2, EachSteps, LastSteps, NextSteps, StepsThen, AfterThen
<1>4. New(After(K, used \o NextItem \o As("weapon", "next")), "made")
  BY <1>1, <1>3, UsedSteps, AfterThen
<1>. QED
  BY <1>3, <1>4 DEF DroppedItems, RemovedItems, used

LEMMA ByGameSteps == IsSteps(GivenByGame)
BY StepsOne, StepsThen, Alone DEF GivenByGame, As

LEMMA ByGameSound ==
    ASSUME NEW K, NEW T, Has(K, "connected", "index"), Has(K, "player_index", "index")
    PROVE  Sound(K, GivenByGame, T)
BY StepsOne, StepsThen, AfterOne, SoundThen, Looking, LookSound, UsePlayer, Alone
   DEF GivenByGame, As

LEMMA ItemSteps == IsSteps(AnItem)
BY StepsOne, StepsThen DEF AnItem, As

LEMMA ItemSound == ASSUME NEW K, NEW T, New(K, "item"), Calm(K) PROVE Sound(K, AnItem, T)
BY StepsOne, StepsThen, AfterOne, AfterThen, SoundThen, HasWith, CalmWith, Looking, LookSound,
   FindItem, UseWeapon
   DEF AnItem, As

LEMMA GivenSteps == IsSteps(GivenItem)
BY StepsOne, StepsThen, Alone DEF GivenItem, As

LEMMA GivenSound ==
    ASSUME NEW K, NEW T, New(K, "made"), "made" \in T,
           Has(K, "connected", "index"), Has(K, "player_index", "index")
    PROVE  Sound(K, GivenItem, T)
BY StepsOne, StepsThen, AfterOne, AfterThen, SoundThen, HasWith, Looking, LookSound,
   FindEntity, UseMade, UsePlayer, TrustSound, NotFinding, Alone
   DEF GivenItem, As

-----------------------------------------------------------------------------
(* The natives, in the groups in which they are listed.                      *)

LEMMA CheckedGood ==
    ASSUME NEW S, \A s \in S : Good(s, {}) PROVE AllGood(Checked(S))
BY DEF AllGood, Checked, Native

LEMMA TrustingGood ==
    ASSUME NEW S, NEW T, \A s \in S : Good(s, T) PROVE AllGood(Trusting(T, S))
BY DEF AllGood, Trusting, Native

LEMMA BothGood ==
    ASSUME NEW M, NEW N, AllGood(M), AllGood(N) PROVE AllGood(M \cup N)
BY DEF AllGood

LEMMA GiveItemsGood == AllGood(GiveItems)
<1>1. Good(OnPlayer("index") \o Call, {})
  BY StepsOne, StepsThen, SoundThen, PlayerSteps, PlayerSound, Alone, LookSound, Looking
  DEF Good
<1> DEFINE K == After({}, OnPlayer("index"))
<1>2. /\ IsSteps(OnPlayer("index")) /\ \A T : Sound({}, OnPlayer("index"), T)
      /\ New(K, "item") /\ New(K, "next") /\ New(K, "made") /\ Calm(K)
      /\ Has(K, "connected", "index") /\ Has(K, "player_index", "index")
  BY PlayerSteps, PlayerSound, PlayerAfter, StartNew, NewWith, HasWith, CalmWith
<1>. HIDE DEF K
<1>3. ASSUME NEW T, "next" \in T,
             NEW items, items \in DroppedItems \/ (items \in RemovedItems /\ "item" \in T)
      PROVE  /\ Good(OnPlayer("index") \o items \o GivenByGame, T)
             /\ "made" \in T => Good(OnPlayer("index") \o items \o GivenItem, T)
  <2> DEFINE s == OnPlayer("index") \o items
             L == After({}, s)
  <2>1. IsSteps(items) /\ Sound(K, items, T)
    BY <1>2, <1>3, ItemsSteps, ItemsSound
  <2>2. IsSteps(s) /\ Sound({}, s, T) /\ L = After(K, items)
    BY <1>2, <2>1, StepsThen, SoundThen, AfterThen DEF K
  <2>3. New(L, "made") /\ Has(L, "connected", "index") /\ Has(L, "player_index", "index")
    BY <1>2, <1>3, <2>2, ItemsNew, HasAfter
  <2>. HIDE DEF s, L
  <2>4. Good(s \o GivenByGame, T)
    BY <2>2, <2>3, ByGameSteps, ByGameSound, StepsThen, SoundThen DEF Good, L
  <2>5. "made" \in T => Good(s \o GivenItem, T)
    BY <2>2, <2>3, GivenSteps, GivenSound, StepsThen, SoundThen DEF Good, L
  <2>. QED
    BY <2>4, <2>5 DEF s
<1>4. Good(OnPlayer("index") \o GivenItem, {"made"})
  BY <1>2, GivenSteps, GivenSound, StepsThen, SoundThen DEF Good, K
<1>5. ASSUME NEW T, "next" \in T, NEW S, S = DroppedItems \/ (S = RemovedItems /\ "item" \in T)
      PROVE  /\ AllGood(Trusting(T, {OnPlayer("index") \o items \o GivenByGame : items \in S}))
             /\ "made" \in T =>
                   AllGood(Trusting(T, {OnPlayer("index") \o items \o GivenItem : items \in S}))
  BY <1>3, <1>5, TrustingGood
<1>6. AllGood(Checked({OnPlayer("index") \o Call}))
  BY <1>1, CheckedGood
<1>7. AllGood(Trusting({"made"}, {OnPlayer("index") \o GivenItem}))
  BY <1>4, TrustingGood
<1>8. /\ AllGood(Trusting({"next"},
            {OnPlayer("index") \o items \o GivenByGame : items \in DroppedItems}))
      /\ AllGood(Trusting({"item", "next"},
            {OnPlayer("index") \o items \o GivenByGame : items \in RemovedItems}))
      /\ AllGood(Trusting({"made", "next"},
            {OnPlayer("index") \o items \o GivenItem : items \in DroppedItems}))
      /\ AllGood(Trusting({"made", "item", "next"},
            {OnPlayer("index") \o items \o GivenItem : items \in RemovedItems}))
  BY <1>5
<1>. QED
  BY <1>6, <1>7, <1>8, BothGood DEF GiveItems

LEMMA DamageNativesGood == AllGood(DamageNatives)
<1>1. Good(OnPlayer("index") \o Call, {})
  BY StepsOne, StepsThen, SoundThen, PlayerSteps, PlayerSound, Alone, LookSound, Looking
  DEF Good
<1>2. Good(Call, {})
  BY StepsOne, Alone, LookSound, Looking
  DEF Good
<1>3. Good(IsEntity("inflictor") \o IsEntity("attacker") \o As("entvars", "inflictor")
             \o As("entvars", "attacker") \o Call, {})
  BY StepsOne, StepsThen, SoundThen, AfterThen, AfterOne, HasWith, LookSound, Looking, UseEntity,
     Alone
  DEF Good, As, IsEntity
<1>4. Good(IsEntity("inflictor") \o IsEntity("victim") \o About("not_negative", "victim")
             \o As("entvars", "inflictor") \o As("edict_or_null", "victim") \o Call, {})
  BY StepsOne, StepsThen, SoundThen, AfterThen, AfterOne, HasWith, LookSound, Looking, UseEntity,
     Alone
  DEF Good, As, IsEntity
<1>. QED
  BY <1>1, <1>2, <1>3, <1>4, CheckedGood, TrustingGood, BothGood DEF DamageNatives

LEMMA FireNativesGood == AllGood(FireNatives)
<1>1. Good(IsEntity("inflictor") \o IsEntity("attacker") \o As("object", "inflictor")
             \o As("entvars", "attacker") \o Call, {"inflictor"})
  BY StepsOne, StepsThen, SoundThen, AfterThen, AfterOne, HasWith, LookSound, Looking, TrustSound,
     NotFinding, UseEntity, Alone
  DEF Good, As, IsEntity
<1>. QED
  BY <1>1, CheckedGood, TrustingGood, BothGood DEF FireNatives

LEMMA RoundNativesGood == AllGood(RoundNatives)
<1>1. Good(Rules \o Maybe \o Call \o Do("rules"), {})
  BY StepsOne, StepsThen, SoundThen, AfterThen, AfterOne, HasWith, Alone, LookSound, Looking,
     UseRules
  DEF Good
<1>2. Good(OnRules \o Call, {})
  BY StepsOne, StepsThen, SoundThen, RulesSteps, RulesSound, Alone, LookSound, Looking
  DEF Good
<1>. QED
  BY <1>1, <1>2, CheckedGood, TrustingGood, BothGood DEF RoundNatives

LEMMA FindNativesGood == AllGood(FindNatives)
<1>1. Good(About("a_new_entity", "made") \o About("not_null", "made") \o As("edict", "made"), {})
  BY StepsOne, StepsThen, SoundThen, AfterThen, AfterOne, HasWith, NewWith, StartNew, FindEntity,
     LookSound, Looking, UseMade
  DEF Good, As
<1>2. Good(IsEntity("owner"), {})
  BY StepsOne, LookSound, Looking
  DEF Good, IsEntity
<1>3. Good(OnPlayer("index") \o Maybe \o AnItem, {})
  BY StepsOne, StepsThen, SoundThen, AfterThen, AfterOne, CalmWith, NewWith, StartNew,
     PlayerSteps, PlayerSound, Alone, LookSound, Looking, ItemSteps, ItemSound, PlayerAfter
  DEF Good
<1>4. Good(As("edict_or_null", "start") \o Call, {"start"})
  BY StepsOne, StepsThen, SoundThen, TrustSound, NotFinding, Alone, LookSound, Looking
  DEF Good, As
<1>. QED
  BY <1>1, <1>2, <1>3, <1>4, CheckedGood, TrustingGood, BothGood DEF FindNatives

LEMMA ItemNativesGood == AllGood(ItemNatives)
<1>1. Good(OnPlayer("index") \o Maybe \o AnItem, {})
  BY StepsOne, StepsThen, SoundThen, AfterThen, AfterOne, CalmWith, NewWith, StartNew,
     PlayerSteps, PlayerSound, Alone, LookSound, Looking, ItemSteps, ItemSound, PlayerAfter
  DEF Good
<1>. QED
  BY <1>1, CheckedGood, TrustingGood, BothGood DEF ItemNatives

LEMMA WeaponInfoGood == AllGood(WeaponInfo)
<1>1. Good(About("weapon_id", "id") \o As("weapon_info", "id"), {})
  BY StepsOne, StepsThen, SoundThen, AfterOne, HasWith, LookSound, Looking, UseWeaponInfo
  DEF Good, As
<1>2. Good(About("weapon_id", "id") \o About("has_slot", "id") \o As("weapon_slot", "id"), {})
  BY StepsOne, StepsThen, SoundThen, AfterThen, AfterOne, HasWith, LookSound, Looking,
     UseWeaponSlot
  DEF Good, As
<1>3. Good(Call, {})
  BY StepsOne, Alone, LookSound, Looking
  DEF Good
<1>. QED
  BY <1>1, <1>2, <1>3, CheckedGood, TrustingGood, BothGood DEF WeaponInfo

LEMMA SlotNativesGood == AllGood(SlotNatives)
<1>1. Good(About("weapon_id", "id") \o As("weapon_info", "id"), {})
  BY StepsOne, StepsThen, SoundThen, AfterOne, HasWith, LookSound, Looking, UseWeaponInfo
  DEF Good, As
<1>2. Good(About("weapon_id", "id") \o As("weapon_slot", "id"), {"id"})
  BY StepsOne, StepsThen, SoundThen, LookSound, Looking, TrustSound, NotFinding
  DEF Good, As
<1>3. \A items \in DroppedItems : Good(OnPlayer("index") \o items, {"next"})
  BY StepsThen, SoundThen, CalmWith, NewWith, HasWith, StartNew, PlayerSteps, PlayerSound,
     PlayerAfter, ItemsSteps, ItemsSound
  DEF Good
<1>. QED
  BY <1>1, <1>2, <1>3, CheckedGood, TrustingGood, BothGood DEF SlotNatives

LEMMA RemoveItemsGood == AllGood(RemoveItems)
<1>1. Good(OnPlayer("index") \o Call, {})
  BY StepsOne, StepsThen, SoundThen, PlayerSteps, PlayerSound, Alone, LookSound, Looking
  DEF Good
<1>2. Good(OnPlayer("index") \o About("has_slot", "id") \o As("weapon_slot", "id") \o AnItem, {})
  BY StepsOne, StepsThen, SoundThen, AfterThen, AfterOne, HasWith, CalmWith, NewWith, StartNew,
     PlayerSteps, PlayerSound, LookSound, Looking, UseWeaponSlot, ItemSteps, ItemSound,
     PlayerAfter
  DEF Good, As
<1>. QED
  BY <1>1, <1>2, CheckedGood, TrustingGood, BothGood DEF RemoveItems

LEMMA AmmoNativesGood == AllGood(AmmoNatives)
<1>1. Good(OnPlayer("index") \o About("has_slot", "id") \o As("weapon_slot", "id") \o AnItem, {})
  BY StepsOne, StepsThen, SoundThen, AfterThen, AfterOne, HasWith, CalmWith, NewWith, StartNew,
     PlayerSteps, PlayerSound, LookSound, Looking, UseWeaponSlot, ItemSteps, ItemSound,
     PlayerAfter
  DEF Good, As
<1>. QED
  BY <1>1, CheckedGood, TrustingGood, BothGood DEF AmmoNatives

LEMMA ArmorNativesGood == AllGood(ArmorNatives)
<1>1. Good(Rules \o OnPlayer("index") \o Do("rules") \o Maybe \o Call, {})
  BY StepsOne, StepsThen, SoundThen, AfterThen, AfterOne, HasWith, Alone, LookSound, Looking,
     PlayerSteps, PlayerSound, UseRules, PlayerAfter
  DEF Good
<1>2. Good(OnPlayer("index"), {})
  BY PlayerSteps, PlayerSound
  DEF Good
<1>3. Good(OnPlayer("index") \o Call, {})
  BY StepsOne, StepsThen, SoundThen, PlayerSteps, PlayerSound, Alone, LookSound, Looking
  DEF Good
<1>. QED
  BY <1>1, <1>2, <1>3, CheckedGood, TrustingGood, BothGood DEF ArmorNatives

LEMMA TeamNativesGood == AllGood(TeamNatives)
<1>1. Good(Rules \o OnPlayer("index") \o Do("rules") \o Call \o As("player", "index")
             \o Do("rules"), {})
  BY StepsOne, StepsThen, SoundThen, AfterThen, AfterOne, HasWith, Alone, LookSound, Looking,
     PlayerSteps, PlayerSound, UseRules, UsePlayer, PlayerAfter
  DEF Good, As
<1>2. Good(OnPlayer("index") \o Maybe \o Call \o As("player", "index"), {})
  BY StepsOne, StepsThen, SoundThen, AfterThen, AfterOne, HasWith, PlayerSteps, PlayerSound,
     Alone, LookSound, Looking, UsePlayer, PlayerAfter
  DEF Good, As
<1>. QED
  BY <1>1, <1>2, CheckedGood, TrustingGood, BothGood DEF TeamNatives

LEMMA ModelNativesGood == AllGood(ModelNatives)
<1>1. Good(OnPlayer("index") \o Call \o As("player", "index"), {})
  BY StepsOne, StepsThen, SoundThen, AfterThen, AfterOne, HasWith, PlayerSteps, PlayerSound,
     Alone, LookSound, Looking, UsePlayer, PlayerAfter
  DEF Good, As
<1>2. Good(OnPlayer("index"), {})
  BY PlayerSteps, PlayerSound
  DEF Good
<1>. QED
  BY <1>1, <1>2, CheckedGood, TrustingGood, BothGood DEF ModelNatives

LEMMA BombNativesGood == AllGood(BombNatives)
<1>1. Good(Rules \o OnPlayer("index") \o Maybe \o About("a_slot", "receiver")
             \o Connected("receiver") \o Call \o Maybe \o As("player", "receiver"), {})
  BY StepsOne, StepsThen, SoundThen, AfterThen, AfterOne, HasWith, Alone, LookSound, Looking,
     PlayerSteps, PlayerSound, UsePlayer, PlayerAfter
  DEF Good, As, Connected
<1>2. Good(Rules \o OnPlayer("index") \o Maybe \o About("no_slot", "receiver")
             \o Do("rules") \o Maybe \o Call \o As("player", "index") \o Do("rules"), {})
  BY StepsOne, StepsThen, SoundThen, AfterThen, AfterOne, HasWith, Alone, LookSound, Looking,
     PlayerSteps, PlayerSound, UseRules, UsePlayer, PlayerAfter
  DEF Good, As
<1>3. Good(OnPlayer("index") \o About("zero", "weapon") \o Call, {})
  BY StepsOne, StepsThen, SoundThen, PlayerSteps, PlayerSound, LookSound, Looking, Alone
  DEF Good
<1>4. Good(About("zero", "index") \o Call, {})
  BY StepsOne, StepsThen, SoundThen, LookSound, Looking, Alone
  DEF Good
<1>5. Good(About("not_zero", "index") \o OnPlayer("index") \o Call, {})
  BY StepsOne, StepsThen, SoundThen, LookSound, Looking, PlayerSteps, PlayerSound, Alone
  DEF Good
<1>6. Good(OnPlayer("index") \o About("not_zero", "weapon") \o OnWeapon("weapon") \o Call, {"weapon"})
  BY StepsOne, StepsThen, SoundThen, AfterThen, AfterOne, CalmWith, StartNew, PlayerSteps,
     PlayerSound, LookSound, Looking, WeaponSteps, WeaponSound, Alone, PlayerAfter
  DEF Good
<1>. QED
  BY <1>1, <1>2, <1>3, <1>4, <1>5, <1>6, CheckedGood, TrustingGood, BothGood DEF BombNatives

LEMMA AccountNativesGood == AllGood(AccountNatives)
<1>1. Good(OnRules \o Call, {})
  BY StepsOne, StepsThen, SoundThen, RulesSteps, RulesSound, Alone, LookSound, Looking
  DEF Good
<1>2. Good(OnPlayer("index") \o Call, {})
  BY StepsOne, StepsThen, SoundThen, PlayerSteps, PlayerSound, Alone, LookSound, Looking
  DEF Good
<1>. QED
  BY <1>1, <1>2, CheckedGood, TrustingGood, BothGood DEF AccountNatives

LEMMA WeaponNativesGood == AllGood(WeaponNatives)
<1>1. Good(OnRules \o Call, {})
  BY StepsOne, StepsThen, SoundThen, RulesSteps, RulesSound, Alone, LookSound, Looking
  DEF Good
<1>2. Good(Rules \o OnPlayer("index") \o Do("rules") \o Call, {})
  BY StepsOne, StepsThen, SoundThen, AfterThen, AfterOne, HasWith, Alone, LookSound, Looking,
     PlayerSteps, PlayerSound, UseRules, PlayerAfter
  DEF Good
<1>3. Good(OnPlayer("index") \o OnWeapon("weapon") \o Call, {"weapon"})
  BY StepsOne, StepsThen, SoundThen, CalmWith, StartNew, PlayerSteps, PlayerSound, WeaponSteps,
     WeaponSound, Alone, LookSound, Looking, PlayerAfter
  DEF Good
<1>4. Good(Rules \o OnPlayer("index") \o HasObject("attacker") \o As("object", "attacker")
             \o Do("rules") \o Call, {"attacker"})
  BY StepsOne, StepsThen, SoundThen, AfterThen, AfterOne, HasWith, CalmWith, StartNew, Alone,
     LookSound, Looking, PlayerSteps, PlayerSound, TrustSound, NotFinding, UseObject, UseRules,
     PlayerAfter
  DEF Good, As, HasObject
<1>5. Good(IsEntity("entity") \o HasObject("entity") \o As("weapon_box", "entity"), {"entity"})
  BY StepsOne, StepsThen, SoundThen, AfterOne, HasWith, LookSound, Looking, UseEntity, TrustSound,
     NotFinding
  DEF Good, As, HasObject, IsEntity
<1>. QED
  BY <1>1, <1>2, <1>3, <1>4, <1>5, CheckedGood, TrustingGood, BothGood DEF WeaponNatives

LEMMA BarNativesGood == AllGood(BarNatives)
<1>1. Good(Connected("index") \o As("player", "index") \o Call, {"index"})
  BY StepsOne, StepsThen, SoundThen, LookSound, Looking, TrustSound, NotFinding, Alone
  DEF Good, As, Connected
<1>2. Good(As("edict_or_null", "index") \o Call, {"index"})
  BY StepsOne, StepsThen, SoundThen, TrustSound, NotFinding, Alone, LookSound, Looking
  DEF Good, As
<1>. QED
  BY <1>1, <1>2, CheckedGood, TrustingGood, BothGood DEF BarNatives

LEMMA ItemInfoGood == AllGood(ItemInfo)
<1>1. Good(IsEntity("index") \o OnWeapon("index") \o Maybe \o As("weapon", "index"), {})
  BY StepsOne, StepsThen, SoundThen, AfterThen, AfterOne, HasWith, CalmWith, StartNew, LookSound,
     Looking, WeaponSteps, WeaponSound, Alone, UseWeapon, WeaponAfter
  DEF Good, As, IsEntity
<1>. QED
  BY <1>1, CheckedGood, TrustingGood, BothGood DEF ItemInfo

LEMMA GlobalItemInfoGood == AllGood(GlobalItemInfo)
<1>1. Good(About("weapon_id", "id") \o Maybe \o As("weapon_info", "id"), {})
  BY StepsOne, StepsThen, SoundThen, AfterThen, AfterOne, HasWith, LookSound, Looking, Alone,
     UseWeaponInfo
  DEF Good, As
<1>. QED
  BY <1>1, CheckedGood, TrustingGood, BothGood DEF GlobalItemInfo

LEMMA VoiceNativesGood == AllGood(VoiceNatives)
<1>1. Good(OnPlayer("index") \o Maybe \o Call, {})
  BY StepsOne, StepsThen, SoundThen, PlayerSteps, PlayerSound, Alone, LookSound, Looking
  DEF Good
<1>2. Good(OnRules \o Call, {})
  BY StepsOne, StepsThen, SoundThen, RulesSteps, RulesSound, Alone, LookSound, Looking
  DEF Good
<1>3. Good(Rules \o OnPlayer("index") \o Do("rules") \o Call, {})
  BY StepsOne, StepsThen, SoundThen, AfterThen, AfterOne, HasWith, Alone, LookSound, Looking,
     PlayerSteps, PlayerSound, UseRules, PlayerAfter
  DEF Good
<1>4. Good(Rules \o IsPlayer("listener") \o IsPlayer("sender") \o Connected("listener")
             \o Connected("sender") \o Do("rules") \o As("player", "listener")
             \o As("player", "sender") \o Call, {})
  BY StepsOne, StepsThen, SoundThen, AfterThen, AfterOne, HasWith, Alone, LookSound, Looking,
     UseRules, UsePlayer
  DEF Good, As, Connected, IsPlayer
<1>. QED
  BY <1>1, <1>2, <1>3, <1>4, CheckedGood, TrustingGood, BothGood DEF VoiceNatives

LEMMA SpawnNativesGood == AllGood(SpawnNatives)
<1>1. Good(Rules \o IsPlayer("listener") \o IsPlayer("sender") \o Connected("listener")
             \o Connected("sender") \o Do("rules") \o As("player", "listener")
             \o As("player", "sender") \o Call, {})
  BY StepsOne, StepsThen, SoundThen, AfterThen, AfterOne, HasWith, Alone, LookSound, Looking,
     UseRules, UsePlayer
  DEF Good, As, Connected, IsPlayer
<1>2. Good(OnObject("index") \o Call, {})
  BY StepsOne, StepsThen, SoundThen, CalmWith, StartNew, ObjectSteps, ObjectSound, Alone,
     LookSound, Looking
  DEF Good
<1>3. Good(OnPlayer("index") \o Call, {})
  BY StepsOne, StepsThen, SoundThen, PlayerSteps, PlayerSound, Alone, LookSound, Looking
  DEF Good
<1>. QED
  BY <1>1, <1>2, <1>3, CheckedGood, TrustingGood, BothGood DEF SpawnNatives

LEMMA BoxNativesGood == AllGood(BoxNatives)
<1>1. Good(Maybe \o Call, {})
  BY StepsOne, StepsThen, SoundThen, Alone, LookSound, Looking
  DEF Good
<1>2. Good(IsEntity("item") \o HasObject("item") \o About("not_positive", "player")
             \o As("weapon", "item") \o Call, {"item"})
  BY StepsOne, StepsThen, SoundThen, AfterOne, HasWith, LookSound, Looking, UseEntity, TrustSound,
     NotFinding, Alone
  DEF Good, As, HasObject, IsEntity
<1>3. Good(IsEntity("item") \o HasObject("item") \o About("positive", "player")
             \o OnPlayer("player") \o As("weapon", "item") \o Call, {"item"})
  BY StepsOne, StepsThen, SoundThen, AfterOne, HasWith, LookSound, Looking, UseEntity,
     PlayerSteps, PlayerSound, TrustSound, NotFinding, Alone
  DEF Good, As, HasObject, IsEntity
<1>4. Good(OnObject("entity") \o Maybe \o Call \o As("object", "entity"), {"entity"})
  BY StepsOne, StepsThen, SoundThen, CalmWith, StartNew, ObjectSteps, ObjectSound, Alone,
     LookSound, Looking, TrustSound, NotFinding
  DEF Good, As
<1>5. Good(As("pointer", "trace") \o Call, {"trace"})
  BY StepsOne, StepsThen, SoundThen, TrustSound, NotFinding, Alone, LookSound, Looking
  DEF Good, As
<1>. QED
  BY <1>1, <1>2, <1>3, <1>4, <1>5, CheckedGood, TrustingGood, BothGood DEF BoxNatives

\* The weapon that a player holds is looked at after the steps p.
LEMMA HeldWeapon ==
    ASSUME NEW p, IsSteps(p), Sound({}, p, {}), New(After({}, p), "held"), Calm(After({}, p)),
           NEW q, q = p \o About("an_item", "held") \o About("not_null", "held") \o IsWeapon("held")
                        \o As("weapon", "held")
    PROVE  /\ IsSteps(q) /\ Sound({}, q, {})
           /\ After({}, q) = With(With(With(With(After({}, p), "an_item", "held"), "not_null", "held"),
                                      "is_weapon", "held"), "weapon", "held")
<1> DEFINE o == p \o About("an_item", "held")
           r == o \o About("not_null", "held") \o IsWeapon("held")
<1>1. IsSteps(o) /\ Sound({}, o, {}) /\ After({}, o) = With(After({}, p), "an_item", "held")
  BY StepsOne, StepsThen, SoundThen, AfterThen, AfterOne, FindItem
<1>. HIDE DEF o
<1>2. /\ IsSteps(r) /\ Sound({}, r, {})
      /\ After({}, r) = With(With(After({}, o), "not_null", "held"), "is_weapon", "held")
  BY <1>1, StepsOne, StepsThen, SoundThen, AfterThen, AfterOne, LookSound, Looking DEF IsWeapon
<1>. HIDE DEF r
<1>3. IsSteps(As("weapon", "held")) /\ Sound(After({}, r), As("weapon", "held"), {})
  BY <1>1, <1>2, StepsOne, HasWith, CalmWith, UseWeapon DEF As
<1>4. /\ IsSteps(r \o As("weapon", "held")) /\ Sound({}, r \o As("weapon", "held"), {})
      /\ After({}, r \o As("weapon", "held")) = With(After({}, r), "weapon", "held")
  BY <1>2, <1>3, StepsThen, SoundThen, AfterThen, AfterOne DEF As
<1>5. q = r \o As("weapon", "held")
  BY DEF o, r
<1>. QED
  BY <1>1, <1>2, <1>4, <1>5

LEMMA HeldGood ==
    ASSUME NEW a, a # "held"
    PROVE  Good(About("a_slot", a) \o OnPlayer(a) \o Maybe \o About("an_item", "held")
                  \o About("not_null", "held") \o IsWeapon("held") \o As("weapon", "held")
                  \o Call, {})
<1> DEFINE p == About("a_slot", a) \o OnPlayer(a) \o Maybe
<1>1. IsSteps(p) /\ Sound({}, p, {})
  BY StepsOne, StepsThen, SoundThen, PlayerSteps, PlayerSound, Alone, LookSound, Looking
<1>2. New(After({}, p), "held") /\ Calm(After({}, p))
  BY StepsOne, StepsThen, AfterThen, AfterOne, PlayerSteps, PlayerAfter, Alone, NewWith, CalmWith,
     StartNew
<1>. HIDE DEF p
<1> DEFINE q == p \o About("an_item", "held") \o About("not_null", "held") \o IsWeapon("held")
                  \o As("weapon", "held")
<1>3. IsSteps(q) /\ Sound({}, q, {})
  BY <1>1, <1>2, HeldWeapon
<1>. HIDE DEF q
<1>4. Good(q \o Call, {})
  BY <1>3, StepsOne, StepsThen, SoundThen, Alone, LookSound, Looking DEF Good
<1>. QED
  BY <1>4 DEF p, q

LEMMA GivenGood ==
    ASSUME NEW a
    PROVE  Good(About("no_slot", a) \o IsEntity(a) \o OnWeapon(a) \o Call, {})
BY StepsOne, StepsThen, SoundThen, AfterThen, AfterOne, HasWith, CalmWith, StartNew, LookSound,
   Looking, WeaponSteps, WeaponSound, Alone
DEF Good, IsEntity

LEMMA HeldOrGivenGood == \A s \in HeldOrGiven("weapon") : Good(s, {})
BY HeldGood, GivenGood DEF HeldOrGiven

LEMMA ReloadNativesGood == AllGood(ReloadNatives)
<1>1. Good(IsEntity("weapon") \o OnWeapon("weapon") \o Call, {})
  BY StepsOne, StepsThen, SoundThen, AfterOne, HasWith, CalmWith, StartNew, LookSound, Looking,
     WeaponSteps, WeaponSound, Alone
  DEF Good, IsEntity
<1>. QED
  BY <1>1, HeldOrGivenGood, CheckedGood DEF ReloadNatives

LEMMA ShotgunNativesGood == AllGood(ShotgunNatives)
BY HeldOrGivenGood, CheckedGood DEF ShotgunNatives

LEMMA KickNativesGood == AllGood(KickNatives)
<1> DEFINE p == Rules \o OnPlayer("index") \o Maybe
           p1 == p \o About("not_zero", "weapon") \o IsEntity("weapon") \o OnWeapon("weapon")
           p2 == p \o About("zero", "weapon")
           q2 == p2 \o About("an_item", "held") \o About("not_null", "held") \o IsWeapon("held")
                    \o As("weapon", "held")
<1>1. IsSteps(p) /\ Sound({}, p, {})
  BY StepsOne, StepsThen, SoundThen, PlayerSteps, PlayerSound, Alone, LookSound, Looking
<1>2. Has(After({}, p), "check_rules", "-") /\ New(After({}, p), "held") /\ Calm(After({}, p))
  BY StepsOne, StepsThen, AfterThen, AfterOne, PlayerSteps, PlayerAfter, Alone, HasWith, NewWith,
     CalmWith, StartNew
<1>. HIDE DEF p
<1>3. IsSteps(p1) /\ Sound({}, p1, {}) /\ Has(After({}, p1), "check_rules", "-")
  BY <1>1, <1>2, StepsOne, StepsThen, SoundThen, AfterThen, AfterOne, HasWith, HasAfter, CalmWith,
     LookSound, Looking, WeaponSteps, WeaponSound DEF IsEntity
<1>4. /\ IsSteps(p2) /\ Sound({}, p2, {}) /\ Has(After({}, p2), "check_rules", "-")
      /\ New(After({}, p2), "held") /\ Calm(After({}, p2))
  BY <1>1, <1>2, StepsOne, StepsThen, SoundThen, AfterThen, AfterOne, HasWith, NewWith, CalmWith,
     LookSound, Looking
<1>. HIDE DEF p1, p2
<1>5. /\ IsSteps(q2) /\ Sound({}, q2, {})
      /\ After({}, q2) = With(With(With(With(After({}, p2), "an_item", "held"), "not_null", "held"),
                                  "is_weapon", "held"), "weapon", "held")
  BY <1>4, HeldWeapon
<1>. HIDE DEF q2
<1>6. Has(After({}, q2), "check_rules", "-")
  BY <1>4, <1>5, HasWith
<1>7. ASSUME NEW s \in {p1, q2} PROVE Good(s \o Do("rules") \o Call, {})
  BY <1>3, <1>5, <1>6, StepsOne, StepsThen, SoundThen, UseRules, Alone, LookSound, Looking DEF Good
<1>8. Good(OnPlayer("index") \o Call, {})
  BY StepsOne, StepsThen, SoundThen, PlayerSteps, PlayerSound, Alone, LookSound, Looking DEF Good
<1>. QED
  BY <1>7, <1>8, HeldOrGivenGood, CheckedGood DEF KickNatives, p, p1, p2, q2

LEMMA ObserverNativesGood == AllGood(ObserverNatives)
<1>1. Good(OnPlayer("index") \o Call, {})
  BY StepsOne, StepsThen, SoundThen, PlayerSteps, PlayerSound, Alone, LookSound, Looking
  DEF Good
<1>2. Good(Rules \o IsPlayer("index") \o IsEntity("target") \o Connected("index")
             \o As("edict_or_null", "target") \o As("player", "index") \o Do("rules")
             \o Call, {})
  BY StepsOne, StepsThen, SoundThen, AfterThen, AfterOne, HasWith, Alone, LookSound, Looking,
     UseEntity, UsePlayer, UseRules
  DEF Good, As, Connected, IsEntity, IsPlayer
<1>3. Good(Rules \o OnPlayer("index") \o IsEntity("killer") \o As("edict_or_null", "killer")
             \o As("edict_or_null", "inflictor") \o Do("rules") \o Call, {"inflictor"})
  BY StepsOne, StepsThen, SoundThen, AfterThen, AfterOne, HasWith, Alone, LookSound, Looking,
     PlayerSteps, PlayerSound, UseEntity, TrustSound, NotFinding, UseRules, PlayerAfter
  DEF Good, As, IsEntity
<1>. QED
  BY <1>1, <1>2, <1>3, CheckedGood, TrustingGood, BothGood DEF ObserverNatives

\* Nobody, or a player.
LEMMA SomebodyGood ==
    ASSUME NEW a, NEW s \in {About("zero", a), About("not_zero", a) \o OnPlayer(a)}, NEW K, NEW T
    PROVE  IsSteps(s) /\ Sound(K, s, T)
BY StepsOne, StepsThen, SoundThen, LookSound, Looking, PlayerSteps, PlayerSound

LEMMA ImpulseNativesGood == AllGood(ImpulseNatives)
<1>1. Good(IsPlayer("index") \o IsPlayer("attacker") \o Connected("index")
             \o As("player", "index") \o Maybe \o Connected("attacker")
             \o As("player", "attacker") \o Maybe \o Call, {})
  BY StepsOne, StepsThen, SoundThen, AfterThen, AfterOne, HasWith, LookSound, Looking, UsePlayer,
     Alone
  DEF Good, As, Connected, IsPlayer
<1> DEFINE Killer == {About("zero", "killer"), About("not_zero", "killer") \o OnPlayer("killer")}
           Assister == {About("zero", "assister"), About("not_zero", "assister") \o OnPlayer("assister")}
           Death(killer, assister) ==
              Rules \o OnPlayer("victim") \o killer \o assister
                \o As("edict_or_null", "inflictor") \o Do("rules") \o Call
           Deaths == {Death(killer, assister) : killer \in Killer, assister \in Assister}
<1>2. ASSUME NEW killer \in Killer, NEW assister \in Assister
      PROVE  Good(Death(killer, assister), {"inflictor"})
  <2>1. /\ IsSteps(killer) /\ \A K, T : Sound(K, killer, T)
        /\ IsSteps(assister) /\ \A K, T : Sound(K, assister, T)
    BY SomebodyGood
  <2>. QED
    BY <2>1, StepsOne, StepsThen, SoundThen, AfterThen, AfterOne, HasWith, HasAfter, PlayerSteps,
       PlayerSound, Alone, LookSound, Looking, TrustSound, NotFinding, UseRules
    DEF Good, As
<1>3. Good(As("edict_or_null", "ignore") \o As("pointer", "trace") \o Call, {"ignore", "trace"})
  BY StepsOne, StepsThen, SoundThen, TrustSound, NotFinding, Alone, LookSound, Looking
  DEF Good, As
<1>4. AllGood(Trusting({"inflictor"}, Deaths))
  <2>. HIDE DEF Killer, Assister, Death
  <2>1. \A s \in Deaths : Good(s, {"inflictor"})
    BY <1>2
  <2>. QED
    BY <2>1, TrustingGood
<1>5. ImpulseNatives =
         Checked({IsPlayer("index") \o IsPlayer("attacker") \o Connected("index")
                    \o As("player", "index") \o Maybe \o Connected("attacker")
                    \o As("player", "attacker") \o Maybe \o Call})
         \cup Trusting({"inflictor"}, Deaths)
         \cup Trusting({"ignore", "trace"}, {As("edict_or_null", "ignore") \o As("pointer", "trace") \o Call})
  BY DEF ImpulseNatives
<1>. HIDE DEF Deaths
<1>. QED
  BY <1>1, <1>3, <1>4, <1>5, CheckedGood, TrustingGood, BothGood

LEMMA SoundNativesGood == AllGood(SoundNatives)
<1>1. Good(OnClient("index") \o Call, {})
  BY StepsOne, StepsThen, SoundThen, CalmWith, StartNew, ClientSteps, ClientSound, Alone,
     LookSound, Looking
  DEF Good
<1>2. Good(HasObject("recipient") \o Connected("recipient")
             \o About("world_or_player", "recipient") \o As("edict_or_null", "entity")
             \o As("client_or_none", "recipient") \o Call, {"entity", "recipient"})
  BY StepsOne, StepsThen, SoundThen, TrustSound, NotFinding, LookSound, Looking, Alone
  DEF Good, As, Connected, HasObject
<1>. QED
  BY <1>1, <1>2, CheckedGood, TrustingGood, BothGood DEF SoundNatives

LEMMA ServerNativesGood == AllGood(ServerNatives)
<1>1. Good(Call, {})
  BY StepsOne, Alone, LookSound, Looking
  DEF Good
<1>2. Good(OnClient("index") \o Maybe, {})
  BY StepsOne, StepsThen, SoundThen, CalmWith, StartNew, ClientSteps, ClientSound, Alone,
     LookSound, Looking
  DEF Good
<1>. QED
  BY <1>1, <1>2, CheckedGood, TrustingGood, BothGood DEF ServerNatives

LEMMA ReunionNativesGood == AllGood(ReunionNatives)
<1>1. Good(IsPlayer("index") \o As("slot", "index") \o Maybe \o As("slot", "index"), {})
  BY StepsOne, StepsThen, SoundThen, AfterThen, AfterOne, HasWith, LookSound, Looking, UseSlot,
     Alone
  DEF Good, As, IsPlayer
<1>. QED
  BY <1>1, CheckedGood, TrustingGood, BothGood DEF ReunionNatives

LEMMA AuthIdNativesGood == AllGood(AuthIdNatives)
<1>1. Good(IsPlayer("index") \o As("slot", "index") \o Maybe, {})
  BY StepsOne, StepsThen, SoundThen, AfterOne, HasWith, LookSound, Looking, UseSlot, Alone
  DEF Good, As, IsPlayer
<1>. QED
  BY <1>1, CheckedGood, TrustingGood, BothGood DEF AuthIdNatives

LEMMA VoiceTranscoderNativesGood == AllGood(VoiceTranscoderNatives)
<1>1. Good(IsPlayer("index") \o As("slot", "index"), {})
  BY StepsOne, StepsThen, SoundThen, AfterOne, HasWith, LookSound, Looking, UseSlot
  DEF Good, As, IsPlayer
<1>. QED
  BY <1>1, CheckedGood, TrustingGood, BothGood DEF VoiceTranscoderNatives

LEMMA ClassNativesGood == AllGood(ClassNatives)
<1>1. Good(IsEntity("index") \o As("edict", "index"), {})
  BY StepsOne, StepsThen, SoundThen, AfterOne, HasWith, LookSound, Looking, UseEntity
  DEF Good, As, IsEntity
<1>2. Good(IsEntity("index") \o As("edict", "index") \o Maybe \o HasObject("index")
             \o As("object", "index"), {})
  BY StepsOne, StepsThen, SoundThen, AfterThen, AfterOne, HasWith, CalmWith, StartNew, LookSound,
     Looking, UseEntity, Alone, UseObject
  DEF Good, As, HasObject, IsEntity
<1>. QED
  BY <1>1, <1>2, CheckedGood, TrustingGood, BothGood DEF ClassNatives

LEMMA ViewNativesGood == AllGood(ViewNatives)
<1>1. Good(OnClient("index"), {})
  BY CalmWith, StartNew, ClientSteps, ClientSound
  DEF Good
<1>2. Good(OnPlayer("index") \o As("edict_or_null", "entity") \o Call, {"entity"})
  BY StepsOne, StepsThen, SoundThen, PlayerSteps, PlayerSound, TrustSound, NotFinding, Alone,
     LookSound, Looking
  DEF Good, As
<1>. QED
  BY <1>1, <1>2, CheckedGood, TrustingGood, BothGood DEF ViewNatives

LEMMA KeyValueNativesGood == AllGood(KeyValueNatives)
<1>1. Good(About("not_zero", "buffer") \o As("pointer", "buffer"), {})
  BY StepsOne, StepsThen, SoundThen, AfterOne, HasWith, LookSound, Looking, UsePointer
  DEF Good, As
<1>. QED
  BY <1>1, CheckedGood, TrustingGood, BothGood DEF KeyValueNatives

LEMMA BoneNativesGood == AllGood(BoneNatives)
<1>1. Good(IsEntity("index") \o HasObject("index") \o About("not_zero", "index")
             \o As("object", "index"), {})
  BY StepsOne, StepsThen, SoundThen, AfterThen, AfterOne, HasWith, CalmWith, StartNew, LookSound,
     Looking, UseEntity, UseObject
  DEF Good, As, HasObject, IsEntity
<1>. QED
  BY <1>1, CheckedGood, TrustingGood, BothGood DEF BoneNatives

LEMMA BodyNativesGood == AllGood(BodyNatives)
<1>1. Good(IsEntity("index") \o HasObject("index") \o About("not_zero", "index")
             \o As("object", "index"), {})
  BY StepsOne, StepsThen, SoundThen, AfterThen, AfterOne, HasWith, CalmWith, StartNew, LookSound,
     Looking, UseEntity, UseObject
  DEF Good, As, HasObject, IsEntity
<1>2. Good(OnObject("index") \o Maybe, {})
  BY StepsOne, StepsThen, SoundThen, CalmWith, StartNew, ObjectSteps, ObjectSound, Alone,
     LookSound, Looking
  DEF Good
<1>. QED
  BY <1>1, <1>2, CheckedGood, TrustingGood, BothGood DEF BodyNatives

LEMMA CallbackNativesGood == AllGood(CallbackNatives)
<1>1. Good(OnObject("index") \o Maybe, {})
  BY StepsOne, StepsThen, SoundThen, CalmWith, StartNew, ObjectSteps, ObjectSound, Alone,
     LookSound, Looking
  DEF Good
<1>. QED
  BY <1>1, CheckedGood, TrustingGood, BothGood DEF CallbackNatives

LEMMA MoveDoneNativesGood == AllGood(MoveDoneNatives)
BY CallbackNativesGood DEF MoveDoneNatives

LEMMA VisibilityNativesGood == AllGood(VisibilityNatives)
<1>1. Good(OnObject("index") \o Maybe, {})
  BY StepsOne, StepsThen, SoundThen, CalmWith, StartNew, ObjectSteps, ObjectSound, Alone,
     LookSound, Looking
  DEF Good
<1>2. Good(OnObject("index") \o Maybe \o Call, {})
  BY StepsOne, StepsThen, SoundThen, CalmWith, StartNew, ObjectSteps, ObjectSound, Alone,
     LookSound, Looking
  DEF Good
<1>. QED
  BY <1>1, <1>2, CheckedGood, TrustingGood, BothGood DEF VisibilityNatives

LEMMA AvailabilityNativesGood == AllGood(AvailabilityNatives)
<1>1. Good(Maybe, {})
  BY StepsOne, Alone, LookSound, Looking
  DEF Good
<1>. QED
  BY <1>1, CheckedGood, TrustingGood, BothGood DEF AvailabilityNatives

LEMMA ValueSteps == IsSteps(EntityValue)
BY StepsOne, StepsThen DEF EntityValue, As

LEMMA ValueAfter ==
    ASSUME NEW K
    PROVE  After(K, EntityValue) = With(With(K, "entity_or_none", "value"), "edict_or_null", "value")
BY StepsOne, AfterOne, AfterThen DEF EntityValue, As

LEMMA ValueSound == ASSUME NEW K, NEW T PROVE Sound(K, EntityValue, T)
BY StepsOne, AfterOne, SoundThen, HasWith, LookSound, Looking, UseValue DEF EntityValue, As

LEMMA ReGameVars_NativesGood == AllGood(ReGameVars_Natives)
<1>1. Good(OnRules, {})
  BY RulesSteps, RulesSound
  DEF Good
<1>2. Good(Maybe, {})
  BY StepsOne, Alone, LookSound, Looking
  DEF Good
<1>3. Good(About("not_zero", "trace") \o As("pointer", "trace"), {})
  BY StepsOne, StepsThen, SoundThen, AfterOne, HasWith, LookSound, Looking, UsePointer
  DEF Good, As
<1>4. Good(About("not_negative", "index") \o HasObject("index") \o As("object", "index"), {"index"})
  BY StepsOne, StepsThen, SoundThen, AfterThen, AfterOne, HasWith, CalmWith, StartNew, LookSound,
     Looking, TrustSound, NotFinding, UseObject
  DEF Good, As, HasObject
<1>5. Good(About("not_negative", "index") \o HasObject("index") \o EntityValue
             \o As("object", "index"), {"index"})
  BY StepsOne, StepsThen, SoundThen, AfterThen, AfterOne, HasWith, CalmWith, StartNew, LookSound,
     Looking, TrustSound, NotFinding, UseObject, ValueSteps, ValueSound, ValueAfter
  DEF Good, As, HasObject
<1>6. Good(Rules \o EntityValue \o Do("rules"), {})
  BY StepsOne, StepsThen, SoundThen, AfterThen, AfterOne, HasWith, Alone, LookSound, Looking,
     UseRules, ValueSteps, ValueSound, ValueAfter
  DEF Good
<1>. QED
  BY <1>1, <1>2, <1>3, <1>4, <1>5, <1>6, CheckedGood, TrustingGood, BothGood
     DEF ReGameVars_Natives

LEMMA EngineVars_NativesGood == AllGood(EngineVars_Natives)
<1>1. Good(IsEntity("index") \o HasObject("index") \o As("entvars", "index"), {})
  BY StepsOne, StepsThen, SoundThen, AfterThen, AfterOne, HasWith, LookSound, Looking, UseEntity
  DEF Good, As, HasObject, IsEntity
<1>2. Good(OnClient("index"), {})
  BY CalmWith, StartNew, ClientSteps, ClientSound
  DEF Good
<1>3. Good(About("not_zero", "pointer") \o As("pointer", "pointer"), {})
  BY StepsOne, StepsThen, SoundThen, AfterOne, HasWith, LookSound, Looking, UsePointer
  DEF Good, As
<1>4. Good(IsEntity("index") \o As("entvars", "index"), {})
  BY StepsOne, StepsThen, SoundThen, AfterOne, HasWith, LookSound, Looking, UseEntity
  DEF Good, As, IsEntity
<1>5. Good(IsEntity("index") \o HasObject("index") \o EntityValue \o As("entvars", "index"), {})
  BY StepsOne, StepsThen, SoundThen, AfterThen, AfterOne, HasWith, LookSound, Looking, UseEntity,
     ValueSteps, ValueSound, ValueAfter
  DEF Good, As, HasObject, IsEntity
<1>. QED
  BY <1>1, <1>2, <1>3, <1>4, <1>5, CheckedGood, TrustingGood, BothGood DEF EngineVars_Natives

LEMMA GatedGood == ASSUME NEW N, AllGood(N) PROVE AllGood(Gated(N))
BY DEF AllGood, Gated

\* RegisterSound: every native of RegisterNatives checks each argument that it does
\* not trust before it uses it for what the check establishes, and uses nothing after
\* a call of the game that plugins may have taken away in the call.
THEOREM RegisterSound == AllGood(RegisterNatives)
<1>1. AllGood(NeedReGameDLL)
  BY GiveItemsGood, DamageNativesGood, FireNativesGood, RoundNativesGood, FindNativesGood,
     ItemNativesGood, WeaponInfoGood, SlotNativesGood, RemoveItemsGood, AmmoNativesGood,
     ArmorNativesGood, TeamNativesGood, ModelNativesGood, BombNativesGood, AccountNativesGood,
     WeaponNativesGood, BarNativesGood, ItemInfoGood, GlobalItemInfoGood, VoiceNativesGood,
     SpawnNativesGood, BoxNativesGood, ReloadNativesGood, ShotgunNativesGood, KickNativesGood,
     ObserverNativesGood, ImpulseNativesGood
  DEF AllGood, NeedReGameDLL
<1>2. AllGood(SoundNatives \cup ServerNatives) /\ AllGood(ReunionNatives \cup AuthIdNatives)
  BY SoundNativesGood, ServerNativesGood, ReunionNativesGood, AuthIdNativesGood, BothGood
<1> DEFINE free == ClassNatives \cup ViewNatives \cup KeyValueNatives \cup BoneNatives
                     \cup BodyNatives \cup CallbackNatives \cup MoveDoneNatives \cup VisibilityNatives
                     \cup AvailabilityNatives \cup EngineVars_Natives
           open == {[steps |-> n.steps, trusts |-> n.trusts, gated |-> FALSE] : n \in free}
<1>3. AllGood(free)
  BY ClassNativesGood, ViewNativesGood, KeyValueNativesGood, BoneNativesGood, BodyNativesGood,
     CallbackNativesGood, MoveDoneNativesGood, VisibilityNativesGood, AvailabilityNativesGood,
     EngineVars_NativesGood, BothGood
<1>4. RegisterNatives = Gated(NeedReGameDLL) \cup Gated(SoundNatives \cup ServerNatives)
         \cup Gated(ReunionNatives \cup AuthIdNatives) \cup Gated(VoiceTranscoderNatives)
         \cup Gated(ReGameVars_Natives) \cup open
  BY DEF RegisterNatives
<1>. HIDE DEF free
<1>5. AllGood(open)
  BY <1>3 DEF AllGood
<1>. HIDE DEF open
<1>. QED
  BY <1>1, <1>2, <1>4, <1>5, GatedGood, VoiceTranscoderNativesGood, ReGameVars_NativesGood, BothGood

-----------------------------------------------------------------------------
(* What stays true while a native runs.                                      *)

\* What a check or a call has established of the value v, as long as nothing is
\* lost that v may be.
Holds(op, v) ==
    /\ op \in {"player_index", "a_slot"} => v \in Slot
    /\ op = "entity_index" => IsEntityIndex(v)
    /\ op = "entity_or_none" => v = AMX_NULLENT \/ IsEntityIndex(v)
    /\ op = "connected" /\ v \in Slot => entity[v] = "player" \/ (entity[v] = "left" /\ v \in lost)
    /\ op = "client_connected" => v \in Slot /\ (lost = {} => client[v])
    /\ op = "has_object" => lost # {} \/ ObjectOf(v) # "none"
    /\ op = "is_weapon" => lost # {} \/ ObjectOf(v) = "weapon"
    /\ op = "an_item" => lost # {} \/ v = AMX_NULLENT \/ ObjectOf(v) = "weapon"
    /\ op = "a_new_entity" => v = AMX_NULLENT \/ v \in Loose
    /\ op = "not_null" => v # AMX_NULLENT
    /\ op = "not_zero" => v # 0
    /\ op = "weapon_id" => v \in WeaponIds
    /\ op = "has_slot" => v \in IdsWithSlot
    /\ op = "check_rules" => rules

\* The steps that the native has taken.
StepsTaken == Before(native.steps, step)

\* In a player's slot is the player or nobody.
SlotsOfPlayers == \A i \in Slot : entity[i] \in {"none", "player", "left"}

\* The native that runs is one of those registered, and not replaced.
Running ==
    step # 0 => /\ native \in RegisterNatives /\ step \in DOMAIN native.steps /\ ~Absent
                /\ DOMAIN argument = {s[2] : s \in {native.steps[k] : k \in DOMAIN native.steps}}

\* What its steps have established holds of the values of its arguments.
Established ==
    step # 0 => \A p \in StepsTaken : /\ p[2] \in DOMAIN argument /\ argument[p[2]] # {}
                                 /\ \A v \in argument[p[2]] : Holds(p[1], v)
Unseen == step # 0 => \A a \in DOMAIN argument : New(StepsTaken, a) => argument[a] = {}

\* Something is lost only in a call, or after one.
LostInCalls == lost # {} => step # 0 /\ ~Calm(StepsTaken \cup {NextStep})

NativesInv ==
    /\ NativesTypeOK /\ SlotsOfPlayers /\ Running /\ Established /\ Unseen /\ LostInCalls
    /\ NativesUseWhatIsThere

-----------------------------------------------------------------------------
(* A use finds what it needs.                                                *)

LEMMA RegisterStep ==
    ASSUME NEW n \in RegisterNatives
    PROVE  /\ n.steps # << >> /\ \E S : n.steps \in Seq(S)
           /\ Len(n.steps) \in Nat \ {0} /\ DOMAIN n.steps = 1 .. Len(n.steps)
           /\ \A k \in DOMAIN n.steps :
                 /\ n.steps[k] = <<n.steps[k][1], n.steps[k][2]>>
                 /\ Justified(Before(n.steps, k), n.steps[k][1], n.steps[k][2], n.trusts)
<1>1. Good(n.steps, n.trusts)
  BY RegisterSound DEF AllGood
<1>2. PICK S : n.steps \in Seq(S)
  BY <1>1 DEF Good, IsSteps
<1>3. n.steps # << >>
  BY <1>1 DEF Good, IsSteps
<1>4. \A k : {} \cup Before(n.steps, k) = Before(n.steps, k)
  OBVIOUS
<1>5. Len(n.steps) \in Nat \ {0} /\ DOMAIN n.steps = 1 .. Len(n.steps)
  BY <1>2, <1>3
<1>. QED
  BY <1>1, <1>2, <1>3, <1>4, <1>5 DEF Good, Sound

LEMMA FitsOther == ASSUME NEW op, NEW v, op \notin Use PROVE Fits(op, v)
BY DEF Fits, Use

\* What is justified fits, unless it is trusted or one past the last entity.
LEMMA AllowedFits ==
    ASSUME NEW K, NEW op, NEW a, NEW v \in Int, v <= EdictCount + 1, SlotsOfPlayers,
           \A o : Has(K, o, a) => Holds(o, v),
           Calm(K) => lost = {},
           Allowed(K, op, a)
    PROVE  Fits(op, v) \/ v = EdictCount
<1>. USE NativesAssumption
<1>1. CASE op \in {"edict", "entvars", "edict_or_null", "has_object"} /\ Has(K, "entity_index", a)
  <2>1. v >= 0 /\ v <= EdictCount
    BY <1>1 DEF Holds, IsEntityIndex
  <2>2. v # EdictCount => v \in Edict /\ v < EdictCount
    BY <2>1 DEF Edict
  <2>. QED
    BY <1>1, <2>2 DEF Fits
<1>12. CASE op = "edict_or_null" /\ Has(K, "entity_or_none", a)
  <2>1. v = AMX_NULLENT \/ (v >= 0 /\ v <= EdictCount)
    BY <1>12 DEF Holds, IsEntityIndex
  <2>2. v # EdictCount => v < EdictCount
    BY <2>1 DEF AMX_NULLENT
  <2>. QED
    BY <1>12, <2>2 DEF Fits
<1>2. CASE op = "edict" /\ Has(K, "a_new_entity", a) /\ Has(K, "not_null", a)
  <2>1. v \in Edict
    BY <1>2 DEF Holds, Loose
  <2>. QED
    BY <1>2, <2>1 DEF Fits
<1>3. CASE op = "player" /\ Has(K, "connected", a) /\ (Has(K, "player_index", a) \/ Has(K, "a_slot", a))
  <2>1. v \in Slot
    BY <1>3 DEF Holds
  <2>2. entity[v] = "player" \/ (entity[v] = "left" /\ v \in lost)
    BY <1>3, <2>1 DEF Holds
  <2>3. v \in Edict
    BY <2>1 DEF Slot, Edict
  <2>. QED
    BY <1>3, <2>2, <2>3 DEF Fits, ObjectOf
<1>4. CASE op = "object" /\ Has(K, "has_object", a) /\ Calm(K)
  BY <1>4 DEF Holds, Fits
<1>5. CASE /\ op = "weapon" /\ Calm(K)
           /\ Has(K, "is_weapon", a) \/ (Has(K, "an_item", a) /\ Has(K, "not_null", a))
  BY <1>5 DEF Holds, Fits
<1>6. CASE op = "client" /\ Has(K, "client_connected", a) /\ Calm(K)
  BY <1>6 DEF Holds, Fits
<1>7. CASE op = "slot" /\ Has(K, "player_index", a)
  BY <1>7 DEF Holds, Fits
<1>8. CASE op = "pointer" /\ Has(K, "not_zero", a)
  BY <1>8 DEF Holds, Fits
<1>9. CASE op = "weapon_info" /\ Has(K, "weapon_id", a)
  BY <1>9 DEF Holds, Fits
<1>10. CASE op = "weapon_slot" /\ Has(K, "has_slot", a)
  BY <1>10 DEF Holds, Fits
<1>11. CASE op = "rules" /\ Has(K, "check_rules", a)
  BY <1>11 DEF Holds, Fits
<1>. QED
  BY <1>1, <1>2, <1>3, <1>4, <1>5, <1>6, <1>7, <1>8, <1>9, <1>10, <1>11, <1>12 DEF Allowed

-----------------------------------------------------------------------------
(* The steps of the model.                                                   *)

LEMMA FoundHolds ==
    ASSUME NativesTypeOK, SlotsOfPlayers, NEW op, NEW v \in Int, Passes(op, v),
           op = "an_item" => v \in WeaponsThere \cup {AMX_NULLENT},
           op = "a_new_entity" => v \in Loose \cup {AMX_NULLENT}
    PROVE  Holds(op, v)
<1>. USE NativesAssumption
<1>1. CASE op \in {"player_index", "a_slot"}
  BY <1>1 DEF Passes, Holds, Slot
<1>2. CASE op = "connected"
  <2>1. v \in Slot => v \in Edict
    BY DEF Slot, Edict
  <2>. QED
    BY <1>2, <2>1 DEF Passes, Holds, IsConnected, ObjectOf, SlotsOfPlayers
<1>3. CASE op \in {"entity_index", "entity_or_none", "client_connected", "has_object", "is_weapon"}
  BY <1>3 DEF Passes, Holds
<1>4. CASE op \in {"not_null", "not_zero", "weapon_id", "has_slot", "check_rules"}
  BY <1>4 DEF Passes, Holds
<1>5. CASE op = "an_item"
  BY <1>5 DEF Holds, WeaponsThere, ObjectOf
<1>6. CASE op = "a_new_entity"
  BY <1>6 DEF Holds
<1>7. CASE op \notin {"player_index", "a_slot", "connected", "entity_index", "entity_or_none",
                      "client_connected",
                      "has_object", "is_weapon", "not_null", "not_zero", "weapon_id", "has_slot",
                      "check_rules", "an_item", "a_new_entity"}
  BY <1>7 DEF Holds
<1>. QED
  BY <1>1, <1>2, <1>3, <1>4, <1>5, <1>6, <1>7

\* What holds stays true when a native makes an entity, and when it does not.
LEMMA HoldsStays ==
    ASSUME NEW o, NEW w, Holds(o, w), UNCHANGED <<rules, client, lost>>,
           \/ entity' = entity
           \/ \E e \in Loose : entity[e] = "none" /\ entity' = [entity EXCEPT ![e] = "thing"]
    PROVE  Holds(o, w)'
<1>1. CASE entity' = entity
  BY <1>1 DEF Holds, ObjectOf, IsEntityIndex
<1>2. CASE \E e \in Loose : entity[e] = "none" /\ entity' = [entity EXCEPT ![e] = "thing"]
  <2>1. PICK e \in Loose : entity[e] = "none" /\ entity' = [entity EXCEPT ![e] = "thing"]
    BY <1>2
  <2>2. w \in Slot => w # e /\ w \in Edict
    BY <2>1, NativesAssumption DEF Loose, Slot, Edict
  <2>3. ASSUME ObjectOf(w) # "none" PROVE ObjectOf(w)' = ObjectOf(w)
    BY <2>1, <2>3 DEF ObjectOf, Loose
  <2>4. w \in Slot => entity'[w] = entity[w]
    BY <2>1, <2>2
  <2>. QED
    BY <2>3, <2>4 DEF Holds, IsEntityIndex
<1>. QED
  BY <1>1, <1>2

\* What holds stays true when a player or an entity is lost in a call.
LEMMA LossHolds ==
    ASSUME NEW o, NEW w, Holds(o, w), NativesTypeOK, SlotsOfPlayers, lost = {}, rules' = rules,
           NEW i \in Edict, lost' = {i},
           \/ /\ i \in Slot
              /\ entity' = IF entity[i] = "player" THEN [entity EXCEPT ![i] = "left"] ELSE entity
           \/ /\ i \in Loose
              /\ entity' = [entity EXCEPT ![i] = "none"]
    PROVE  Holds(o, w)'
<1>1. w \in Slot => /\ w \in Edict
                    /\ entity[w] = "player" => entity'[w] = "player" \/ (entity'[w] = "left" /\ w \in lost')
  <2>1. w \in Slot => w \in Edict /\ w \notin Loose
    BY NativesAssumption DEF Slot, Edict, Loose
  <2>. QED
    BY <2>1 DEF NativesTypeOK
<1>2. o = "connected" /\ w \in Slot => entity[w] = "player"
  BY DEF Holds
<1>. QED
  BY <1>1, <1>2 DEF Holds, IsEntityIndex

LEMMA Start == NativesInit => NativesInv
<1>. SUFFICES ASSUME NativesInit PROVE NativesInv
  OBVIOUS
<1>. USE NativesAssumption DEF NativesInit
<1>1. NativesTypeOK
  <2>1. Len(native.steps) = 0
    BY DEF NoNative
  <2>2. argument = << >> /\ DOMAIN << >> = {}
    OBVIOUS
  <2>3. \A a \in DOMAIN argument : argument[a] \in SUBSET (AMX_NULLENT .. (EdictCount + 1))
    BY <2>2
  <2>4. client \in [Slot -> BOOLEAN]
    BY DEF NoClients
  <2>5. entity \in [Edict -> {"none", "thing", "weapon", "box", "player", "left"}]
    BY DEF NoObjects
  <2>6. step \in 0 .. Len(native.steps)
    BY <2>1
  <2>. QED
    BY <2>3, <2>4, <2>5, <2>6 DEF NativesTypeOK
<1>2. SlotsOfPlayers
  BY DEF SlotsOfPlayers, NoObjects, Slot, Edict
<1>3. Running /\ Established /\ Unseen /\ LostInCalls /\ NativesUseWhatIsThere
  BY DEF Running, Established, Unseen, LostInCalls, NativesUseWhatIsThere
<1>. QED
  BY <1>1, <1>2, <1>3 DEF NativesInv

LEMMA IdleLost == ASSUME NativesInv, Idle PROVE lost = {}
BY DEF NativesInv, LostInCalls, Idle

\* Between natives the world may change as it likes.
LEMMA QuietStep ==
    ASSUME NativesInv, Idle, UNCHANGED <<native, step, argument, library, misuse>>, lost' = {},
           rules' \in BOOLEAN, client' \in [Slot -> BOOLEAN],
           entity' \in [Edict -> {"none", "thing", "weapon", "box", "player", "left"}],
           \A i \in Slot : entity'[i] \in {"none", "player", "left"}
    PROVE  NativesInv'
BY DEF NativesInv, NativesTypeOK, SlotsOfPlayers, Running, Established, Unseen, LostInCalls,
       NativesUseWhatIsThere, NoMisuse, Idle

\* In a call a player or an entity goes.
LEMMA LossStep ==
    ASSUME NativesInv, ~Idle, InCall, UNCHANGED <<native, step, argument, library, misuse, rules>>,
           NEW i \in Edict, lost' = {i}, client' \in [Slot -> BOOLEAN],
           \/ /\ i \in Slot
              /\ entity' = IF entity[i] = "player" THEN [entity EXCEPT ![i] = "left"] ELSE entity
           \/ /\ i \in Loose
              /\ entity' = [entity EXCEPT ![i] = "none"]
    PROVE  NativesInv'
<1>1. NativesTypeOK'
  BY DEF NativesInv, NativesTypeOK
<1>2. SlotsOfPlayers'
  <2>1. \A j \in Slot : j \in Edict /\ j \notin Loose
    BY NativesAssumption DEF Slot, Edict, Loose
  <2>. QED
    BY <2>1 DEF NativesInv, NativesTypeOK, SlotsOfPlayers
<1>3. Running' /\ Unseen' /\ NativesUseWhatIsThere'
  BY DEF NativesInv, Running, Unseen, NativesUseWhatIsThere, Absent, StepsTaken, NoMisuse
<1>4. Established'
  <2>1. \A o, w : Holds(o, w) => Holds(o, w)'
    BY LossHolds DEF NativesInv, InCall
  <2>. QED
    BY <2>1 DEF NativesInv, Established, StepsTaken
<1>5. LostInCalls'
  <2>1. NextStep \in (StepsTaken \cup {NextStep})' /\ NextStep[1] = "call"
    BY DEF InCall, NextStep, StepsTaken, Idle
  <2>. QED
    BY <2>1 DEF LostInCalls, Calm, Idle
<1>. QED
  BY <1>1, <1>2, <1>3, <1>4, <1>5 DEF NativesInv

LEMMA CallNativeStep == ASSUME NativesInv, NEW n \in RegisterNatives, CallNative(n) PROVE NativesInv'
<1>. USE DEF CallNative
<1>1. native' \in RegisterNatives /\ step' = 1 /\ 1 \in DOMAIN native'.steps /\ 1 \in 0 .. Len(native'.steps)
  BY RegisterStep
<1>2. NativesTypeOK'
  BY <1>1 DEF NativesInv, NativesTypeOK
<1>3. SlotsOfPlayers' /\ NativesUseWhatIsThere'
  BY DEF NativesInv, SlotsOfPlayers, NativesUseWhatIsThere, NoMisuse
<1>4. Running'
  BY <1>1 DEF Running, Absent, Filled
<1>5. StepsTaken' = {}
  BY DEF StepsTaken, Before
<1>6. Established' /\ Unseen'
  BY <1>5 DEF Established, Unseen
<1>7. LostInCalls'
  BY IdleLost DEF LostInCalls
<1>. QED
  BY <1>2, <1>3, <1>4, <1>6, <1>7 DEF NativesInv

\* The native takes its next step: what it knows of the argument.
LEMMA StepKnows ==
    ASSUME NativesInv, ~Idle, NEW v, v \in Values(NextStep[1], NextStep[2])
    PROVE  /\ v \in Int /\ v \in AMX_NULLENT .. (EdictCount + 1)
           /\ \A o : Has(StepsTaken, o, NextStep[2]) => Holds(o, v)
           /\ Justified(StepsTaken, NextStep[1], NextStep[2], native.trusts)
           /\ NextStep[2] \in DOMAIN argument
           /\ NextStep[1] = "an_item" => v \in WeaponsThere \cup {AMX_NULLENT}
           /\ NextStep[1] = "a_new_entity" => v \in {e \in Loose : entity[e] = "none"} \cup {AMX_NULLENT}
<1> DEFINE op == NextStep[1]
           a == NextStep[2]
<1>1. /\ native \in RegisterNatives /\ step \in DOMAIN native.steps /\ step # 0
      /\ NextStep = native.steps[step] /\ a \in DOMAIN argument
  BY DEF NativesInv, Running, Idle, NextStep
<1>2. Justified(StepsTaken, op, a, native.trusts)
  BY <1>1, RegisterStep DEF StepsTaken
<1>3. v \in Values(op, a)
  OBVIOUS
<1>. HIDE DEF op, a
<1>4. argument[a] \in SUBSET (AMX_NULLENT .. (EdictCount + 1))
  BY <1>1 DEF NativesInv, NativesTypeOK
<1>5. op \in Find => argument[a] = {}
  BY <1>1, <1>2 DEF Justified, NativesInv, Unseen
<1>6. v \in AMX_NULLENT .. (EdictCount + 1)
  <2>1. EdictCount \in Nat /\ AMX_NULLENT = -1
    BY NativesAssumption DEF AMX_NULLENT
  <2>2. \A e \in Edict : e \in AMX_NULLENT .. (EdictCount + 1)
    BY <2>1 DEF Edict
  <2>3. AMX_NULLENT \in AMX_NULLENT .. (EdictCount + 1) /\ 0 \in AMX_NULLENT .. (EdictCount + 1)
    BY <2>1
  <2>. QED
    BY <1>4, <1>3, <2>2, <2>3 DEF Values, WeaponsThere, Loose
<1>7. ASSUME NEW o, Has(StepsTaken, o, a) PROVE Holds(o, v)
  <2>1. argument[a] # {} /\ \A w \in argument[a] : Holds(o, w)
    <3>1. <<o, a>> \in StepsTaken /\ <<o, a>>[1] = o /\ <<o, a>>[2] = a
      BY <1>7 DEF Has
    <3>. QED
      BY <1>1, <3>1 DEF NativesInv, Established
  <2>. QED
    BY <1>3, <2>1 DEF Values
<1>8. ASSUME argument[a] = {}
       PROVE  /\ Values("an_item", a) = WeaponsThere \cup {AMX_NULLENT}
              /\ Values("a_new_entity", a) = {e \in Loose : entity[e] = "none"} \cup {AMX_NULLENT}
  BY <1>8 DEF Values
<1>9. op = "an_item" => v \in WeaponsThere \cup {AMX_NULLENT}
  <2>1. "an_item" \in Find
    BY DEF Find
  <2>. QED
    BY <1>5, <1>3, <1>8, <2>1
<1>10. op = "a_new_entity" => v \in {e \in Loose : entity[e] = "none"} \cup {AMX_NULLENT}
  <2>1. "a_new_entity" \in Find
    BY DEF Find
  <2>. QED
    BY <1>5, <1>3, <1>8, <2>1
<1>11. v \in Int
  BY <1>6, NativesAssumption DEF AMX_NULLENT
<1>. QED
  BY <1>1, <1>2, <1>6, <1>7, <1>9, <1>10, <1>11 DEF op, a

\* If its next step misuses something, the argument is trusted, or is the index
\* one past the last entity.
LEMMA StepFits ==
    ASSUME NativesInv, ~Idle, NEW v \in Values(NextStep[1], NextStep[2]),
           ~Fits(NextStep[1], v)
    PROVE  NextStep[2] \in native.trusts \/ v = EdictCount
<1>1. NextStep[1] \in Use
  BY FitsOther
<1>2. CASE Allowed(StepsTaken, NextStep[1], NextStep[2])
  <2>1. Calm(StepsTaken) => lost = {}
    <3>1. NextStep[1] # "call"
      BY <1>1 DEF Use
    <3>. QED
      BY <3>1 DEF Calm, NativesInv, LostInCalls
  <2>2. v \in Int /\ v <= EdictCount + 1 /\ \A o : Has(StepsTaken, o, NextStep[2]) => Holds(o, v)
    BY StepKnows, NativesAssumption DEF AMX_NULLENT
  <2>. QED
    BY <1>2, <2>1, <2>2, AllowedFits DEF NativesInv
<1>. QED
  BY <1>1, <1>2, StepKnows DEF Justified

\* A step that misuses its argument.
LEMMA MisuseStep ==
    ASSUME NativesInv, ~Idle, NEW v, v \in Values(NextStep[1], NextStep[2]), ~Fits(NextStep[1], v),
           misuse' = [by |-> NextStep[2], value |-> v],
           UNCHANGED <<rules, client, entity, library, native, step, argument, lost>>
    PROVE  NativesInv'
<1>1. NextStep[2] \in native.trusts \/ v = EdictCount
  BY StepFits
<1>2. NativesUseWhatIsThere'
  BY <1>1 DEF NativesUseWhatIsThere
<1>3. NativesTypeOK' /\ SlotsOfPlayers' /\ Running'
  BY DEF NativesInv, NativesTypeOK, SlotsOfPlayers, Running, Absent
<1>4. NextStep' = NextStep /\ StepsTaken' = StepsTaken
  BY DEF NextStep, StepsTaken, Idle
<1>5. \A o, w : Holds(o, w) => Holds(o, w)'
  BY HoldsStays
<1>6. Established' /\ Unseen' /\ LostInCalls'
  BY <1>4, <1>5 DEF NativesInv, Established, Unseen, LostInCalls
<1>. QED
  BY <1>2, <1>3, <1>6 DEF NativesInv

\* A new entity is one of those that no player has.
LEMMA NewEntity ==
    ASSUME NativesInv,
           \/ entity' = entity
           \/ \E e \in Loose : entity[e] = "none" /\ entity' = [entity EXCEPT ![e] = "thing"]
    PROVE  /\ entity' \in [Edict -> {"none", "thing", "weapon", "box", "player", "left"}]
           /\ SlotsOfPlayers'
<1>1. \A i \in Slot : i \in Edict /\ i \notin Loose
  BY NativesAssumption DEF Slot, Edict, Loose
<1>. QED
  BY <1>1 DEF NativesInv, NativesTypeOK, SlotsOfPlayers

\* The native returns.
LEMMA NativeReturnStep ==
    ASSUME NativesInv, misuse = NoMisuse, ReturnNow, UNCHANGED <<rules, client, library>>,
           \/ entity' = entity
           \/ \E e \in Loose : entity[e] = "none" /\ entity' = [entity EXCEPT ![e] = "thing"]
    PROVE  NativesInv'
<1>. USE DEF ReturnNow
<1>1. Len(native'.steps) = 0
  BY DEF NoNative
<1>2. argument' = << >> /\ DOMAIN << >> = {}
  OBVIOUS
<1>3. \A a \in DOMAIN argument' : argument'[a] \in SUBSET (AMX_NULLENT .. (EdictCount + 1))
  BY <1>2
<1>4. NativesTypeOK' /\ SlotsOfPlayers'
  BY <1>1, <1>3, NewEntity DEF NativesInv, NativesTypeOK
<1>5. Running' /\ Established' /\ Unseen' /\ LostInCalls' /\ NativesUseWhatIsThere'
  BY DEF Running, Established, Unseen, LostInCalls, NativesUseWhatIsThere, NoMisuse
<1>. QED
  BY <1>4, <1>5 DEF NativesInv

\* The native goes on to its next step.
LEMMA OnStep ==
    ASSUME NativesInv, ~Idle, misuse = NoMisuse,
           NEW v, v \in Values(NextStep[1], NextStep[2]), Passes(NextStep[1], v),
           step < Len(native.steps), StepOn(NextStep[2], v), UNCHANGED <<rules, client, library>>,
           \/ entity' = entity
           \/ \E e \in Loose : entity[e] = "none" /\ entity' = [entity EXCEPT ![e] = "thing"]
    PROVE  NativesInv'
<1> DEFINE a == NextStep[2]
<1>1. /\ v \in Int /\ v \in AMX_NULLENT .. (EdictCount + 1) /\ a \in DOMAIN argument
      /\ \A o : Has(StepsTaken, o, a) => Holds(o, v)
      /\ NextStep[1] = "an_item" => v \in WeaponsThere \cup {AMX_NULLENT}
      /\ NextStep[1] = "a_new_entity" => v \in Loose \cup {AMX_NULLENT}
  BY StepKnows
<1>2. /\ argument' = [argument EXCEPT ![a] = {v}] /\ step' = step + 1
      /\ native' = native /\ lost' = lost /\ misuse' = misuse
  BY DEF StepOn
<1>3. Holds(NextStep[1], v)
  BY <1>1, FoundHolds DEF NativesInv
<1>4. \A o, w : Holds(o, w) => Holds(o, w)'
  BY <1>2, HoldsStays
<1>5. /\ native \in RegisterNatives /\ step # 0 /\ step \in DOMAIN native.steps
      /\ NextStep = native.steps[step]
      /\ DOMAIN argument = {s[2] : s \in {native.steps[k] : k \in DOMAIN native.steps}}
      /\ ~Absent
  BY DEF NativesInv, Running, Idle, NextStep
<1>6. /\ step \in Nat /\ step + 1 \in DOMAIN native.steps /\ step + 1 \in 0 .. Len(native.steps)
      /\ step + 1 # 0 /\ step \in 1 .. ((step + 1) - 1)
      /\ \A k \in 1 .. (step - 1) : k \in 1 .. ((step + 1) - 1) /\ k \in DOMAIN native.steps
      /\ \A k \in 1 .. ((step + 1) - 1) : k = step \/ k \in 1 .. (step - 1)
  <2> DEFINE n == Len(native.steps)
  <2>1. n \in Nat /\ DOMAIN native.steps = 1 .. n
    BY <1>5, RegisterStep
  <2>2. step \in 1 .. n /\ step < n
    BY <1>5, <2>1
  <2>. HIDE DEF n
  <2>3. step \in Nat /\ step + 1 \in 1 .. n /\ step + 1 \in 0 .. n
    BY <2>1, <2>2
  <2>. QED
    BY <2>1, <2>2, <2>3 DEF n
<1>7. \A p \in StepsTaken \cup {NextStep} : p = <<p[1], p[2]>>
  <2>1. \A k \in DOMAIN native.steps : native.steps[k] = <<native.steps[k][1], native.steps[k][2]>>
    BY <1>5, RegisterStep
  <2>2. \A p \in StepsTaken : \E k \in DOMAIN native.steps : p = native.steps[k]
    BY <1>6 DEF StepsTaken, Before
  <2>3. NextStep = native.steps[step] /\ step \in DOMAIN native.steps
    BY <1>5
  <2>. QED
    BY <2>1, <2>2, <2>3
<1>8. StepsTaken' = StepsTaken \cup {NextStep}
  BY <1>2, <1>5, <1>6 DEF StepsTaken, Before
<1>. HIDE DEF a
<1>9. NativesTypeOK' /\ SlotsOfPlayers'
  <2>1. \A b \in DOMAIN argument' : argument'[b] \in SUBSET (AMX_NULLENT .. (EdictCount + 1))
    BY <1>1, <1>2 DEF NativesInv, NativesTypeOK
  <2>. QED
    BY <1>2, <1>6, <2>1, NewEntity DEF NativesInv, NativesTypeOK
<1>10. Running'
  BY <1>2, <1>5, <1>6 DEF Running, Absent
<1>11. Established'
  <2>1. SUFFICES ASSUME NEW p \in StepsTaken \cup {NextStep}
                 PROVE  /\ p[2] \in DOMAIN argument' /\ argument'[p[2]] # {}
                        /\ \A w \in argument'[p[2]] : Holds(p[1], w)
    BY <1>4, <1>8 DEF Established
  <2>2. CASE p = NextStep
    BY <1>1, <1>2, <1>3, <2>2 DEF a
  <2>3. CASE p \in StepsTaken
    <3>1. /\ p[2] \in DOMAIN argument /\ argument[p[2]] # {}
          /\ \A w \in argument[p[2]] : Holds(p[1], w)
      BY <1>5, <2>3 DEF NativesInv, Established
    <3>2. p[2] = a => Holds(p[1], v)
      BY <1>1, <1>7, <2>3 DEF Has
    <3>. QED
      BY <1>2, <3>1, <3>2
  <2>. QED
    BY <2>2, <2>3
<1>12. Unseen'
  <2>1. ASSUME NEW b \in DOMAIN argument', New(StepsTaken', b) PROVE argument'[b] = {}
    <3>1. b # a /\ New(StepsTaken, b)
      BY <1>8, <2>1 DEF New, a
    <3>. QED
      BY <1>2, <1>5, <3>1 DEF NativesInv, Unseen
  <2>. QED
    BY <2>1 DEF Unseen
<1>13. LostInCalls'
  BY <1>2, <1>6, <1>8 DEF NativesInv, LostInCalls, Calm
<1>14. NativesUseWhatIsThere'
  BY <1>2 DEF NativesUseWhatIsThere
<1>. QED
  BY <1>9, <1>10, <1>11, <1>12, <1>13, <1>14 DEF NativesInv

LEMMA TakeStepStep == ASSUME NativesInv, NEW v, TakeStep(v) PROVE NativesInv'
<1>1. ~Idle /\ misuse = NoMisuse /\ v \in Values(NextStep[1], NextStep[2]) /\ UNCHANGED <<rules, client, library>>
  BY DEF TakeStep
<1>2. \/ entity' = entity
      \/ \E e \in Loose : entity[e] = "none" /\ entity' = [entity EXCEPT ![e] = "thing"]
  <2>1. CASE NextStep[1] = "a_new_entity" /\ v \in Edict
    <3>1. v \in Loose /\ entity[v] = "none"
      BY <1>1, <2>1, StepKnows DEF Edict, AMX_NULLENT
    <3>. QED
      BY <2>1, <3>1 DEF TakeStep
  <2>2. CASE ~(NextStep[1] = "a_new_entity" /\ v \in Edict)
    BY <2>2 DEF TakeStep
  <2>. QED
    BY <2>1, <2>2
<1>3. ~Absent
  BY <1>1 DEF NativesInv, Running, Idle
<1>4. CASE Fits(NextStep[1], v) /\ Passes(NextStep[1], v) /\ step < Len(native.steps) /\ StepOn(NextStep[2], v)
  BY <1>1, <1>2, <1>4, OnStep
<1>5. CASE ReturnNow
  BY <1>1, <1>2, <1>5, NativeReturnStep
<1>6. CASE /\ ~Fits(NextStep[1], v) /\ misuse' = [by |-> NextStep[2], value |-> v]
           /\ UNCHANGED <<native, step, argument, lost>>
  <2>1. NextStep[1] # "a_new_entity"
    BY <1>6, FitsOther DEF Use
  <2>2. entity' = entity
    BY <2>1 DEF TakeStep
  <2>. QED
    BY <1>1, <1>6, <2>2, MisuseStep
<1>. QED
  BY <1>3, <1>4, <1>5, <1>6 DEF TakeStep

LEMMA CrashStep == NativesInv /\ NativeCrash => NativesInv'
<1>. SUFFICES ASSUME NativesInv, NativeCrash PROVE NativesInv'
  OBVIOUS
<1>. USE NativesAssumption DEF NativeCrash
<1>1. NativesTypeOK'
  <2>1. Len(native'.steps) = 0
    BY DEF NoNative
  <2>2. argument' = << >> /\ DOMAIN << >> = {}
    OBVIOUS
  <2>3. \A a \in DOMAIN argument' : argument'[a] \in SUBSET (AMX_NULLENT .. (EdictCount + 1))
    BY <2>2
  <2>4. client' \in [Slot -> BOOLEAN]
    BY DEF NoClients
  <2>5. entity' \in [Edict -> {"none", "thing", "weapon", "box", "player", "left"}]
    BY DEF NoObjects
  <2>6. step' \in 0 .. Len(native'.steps) /\ native' \in RegisterNatives \cup {NoNative} /\ lost' \subseteq Edict
    BY <2>1
  <2>7. library' \in {"there", "missing"} /\ rules' \in BOOLEAN
    BY DEF NativesInv, NativesTypeOK
  <2>. HIDE DEF NativeCrash
  <2>. QED
    BY <2>3, <2>4, <2>5, <2>6, <2>7 DEF NativesTypeOK
<1>2. SlotsOfPlayers'
  BY DEF SlotsOfPlayers, NoObjects, Slot, Edict
<1>3. Running' /\ Established' /\ Unseen' /\ LostInCalls' /\ NativesUseWhatIsThere'
  BY DEF Running, Established, Unseen, LostInCalls, NativesUseWhatIsThere
<1>. QED
  BY <1>1, <1>2, <1>3 DEF NativesInv

\* What players, entities and maps do while no native runs, and while one does.
LEMMA WorldStep ==
    ASSUME NativesInv,
           \/ RulesCome
           \/ MapChanges
           \/ \E i \in Slot : ClientConnects(i) \/ PutInServer(i) \/ Disconnects(i)
           \/ \E i \in Loose : EntityGoes(i) \/ \E kind \in {"thing", "weapon", "box"} : EntityComes(i, kind)
    PROVE  NativesInv'
<1>. USE NativesAssumption
<1>1. /\ client \in [Slot -> BOOLEAN] /\ rules \in BOOLEAN
      /\ entity \in [Edict -> {"none", "thing", "weapon", "box", "player", "left"}]
      /\ \A i \in Slot : entity[i] \in {"none", "player", "left"}
      /\ Idle => lost = {}
  BY IdleLost DEF NativesInv, NativesTypeOK, SlotsOfPlayers
<1>2. \A i \in Slot : i \in Edict /\ i # 0 /\ i \notin Loose
  BY DEF Slot, Edict, Loose
<1>3. Loose \subseteq Edict
  BY DEF Loose
<1>4. CASE RulesCome
  BY <1>1, <1>4, QuietStep DEF RulesCome
<1>5. CASE MapChanges
  <2>1. /\ entity' \in [Edict -> {"none", "thing", "weapon", "box", "player", "left"}]
        /\ \A i \in Slot : entity'[i] \in {"none", "player", "left"}
    BY <1>2, <1>5 DEF MapChanges, NoObjects
  <2>. QED
    BY <1>1, <1>5, <2>1, QuietStep DEF MapChanges
<1>6. ASSUME NEW i \in Slot, ClientConnects(i) PROVE NativesInv'
  BY <1>1, <1>6, QuietStep DEF ClientConnects
<1>7. ASSUME NEW i \in Slot, PutInServer(i) PROVE NativesInv'
  <2>1. /\ entity' \in [Edict -> {"none", "thing", "weapon", "box", "player", "left"}]
        /\ \A j \in Slot : entity'[j] \in {"none", "player", "left"}
    BY <1>1, <1>2, <1>7 DEF PutInServer
  <2>. QED
    BY <1>1, <1>7, <2>1, QuietStep DEF PutInServer
<1>8. ASSUME NEW i \in Slot, Disconnects(i) PROVE NativesInv'
  <2>1. /\ entity' \in [Edict -> {"none", "thing", "weapon", "box", "player", "left"}]
        /\ \A j \in Slot : entity'[j] \in {"none", "player", "left"}
        /\ client' \in [Slot -> BOOLEAN]
    BY <1>1, <1>2, <1>8 DEF Disconnects
  <2>2. CASE Idle
    BY <1>1, <1>8, <2>1, <2>2, QuietStep DEF Disconnects
  <2>3. CASE ~Idle
    BY <1>2, <1>8, <2>1, <2>3, LossStep DEF Disconnects
  <2>. QED
    BY <2>2, <2>3
<1>9. ASSUME NEW i \in Loose, EntityGoes(i) PROVE NativesInv'
  <2>1. /\ entity' \in [Edict -> {"none", "thing", "weapon", "box", "player", "left"}]
        /\ \A j \in Slot : entity'[j] \in {"none", "player", "left"}
    BY <1>1, <1>2, <1>3, <1>9 DEF EntityGoes
  <2>2. CASE Idle
    BY <1>1, <1>9, <2>1, <2>2, QuietStep DEF EntityGoes
  <2>3. CASE ~Idle
    BY <1>1, <1>3, <1>9, <2>1, <2>3, LossStep DEF EntityGoes
  <2>. QED
    BY <2>2, <2>3
<1>10. ASSUME NEW i \in Loose, NEW kind \in {"thing", "weapon", "box"}, EntityComes(i, kind)
       PROVE  NativesInv'
  <2>1. /\ entity' \in [Edict -> {"none", "thing", "weapon", "box", "player", "left"}]
        /\ \A j \in Slot : entity'[j] \in {"none", "player", "left"}
    BY <1>1, <1>2, <1>3, <1>10 DEF EntityComes
  <2>. QED
    BY <1>1, <1>10, <2>1, QuietStep DEF EntityComes
<1>. QED
  BY <1>4, <1>5, <1>6, <1>7, <1>8, <1>9, <1>10

LEMMA StaySame == NativesInv /\ UNCHANGED nativeVars => NativesInv'
BY DEF nativeVars, NativesInv, NativesTypeOK, SlotsOfPlayers, Running, Established, Unseen,
       LostInCalls, NativesUseWhatIsThere, Holds, StepsTaken, Absent, Idle, NextStep, ObjectOf

-----------------------------------------------------------------------------

\* What a native's checks have established stays true of its arguments until it
\* returns, whatever its calls let players, plugins and entities do.
THEOREM NativesAlways == NativesSpec => []NativesInv
<1>1. NativesInv /\ [NativesNext]_nativeVars => NativesInv'
  <2>. SUFFICES ASSUME NativesInv, NativesNext PROVE NativesInv'
    BY StaySame
  <2>1. ASSUME NEW n \in RegisterNatives, CallNative(n) PROVE NativesInv'
    BY <2>1, CallNativeStep
  <2>2. ASSUME NEW v, TakeStep(v) PROVE NativesInv'
    BY <2>2, TakeStepStep
  <2>3. CASE NativeCrash
    BY <2>3, CrashStep
  <2>. QED
    BY <2>1, <2>2, <2>3, WorldStep DEF NativesNext
<1>. QED
  BY <1>1, Start, PTL DEF NativesSpec

THEOREM NativesTypeAlways == NativesSpec => []NativesTypeOK
<1>1. NativesInv => NativesTypeOK
  BY DEF NativesInv
<1>. QED
  BY <1>1, NativesAlways, PTL

\* NativesUseWhatIsThere: whatever the arguments are and whoever leaves while
\* plugins run in the middle of it, each native (RegisterNatives) uses players,
\* objects, clients, the game rules and its library only where they are there,
\* but for the arguments that it is listed to trust and the index one past the
\* last that CHECK_ISENTITY passes.
THEOREM NativesUseAlways == NativesSpec => []NativesUseWhatIsThere
<1>1. NativesInv => NativesUseWhatIsThere
  BY DEF NativesInv
<1>. QED
  BY <1>1, NativesAlways, PTL
=============================================================================
