---------------------------- MODULE ServerProofs ----------------------------
(***************************************************************************)
(* What holds of Server, the life cycle of the module with the file        *)
(* queries in it, for every set of maps, of libraries, of addresses, of    *)
(* forwards and of ids.                                                    *)
(***************************************************************************)
EXTENDS Server, SequenceTheorems, FiniteSetTheorems, TLAPS

-----------------------------------------------------------------------------
(* The inductive invariant of the queries *)

In(s, a) == \E i \in DOMAIN s : s[i] = a

\* The ids that have been handed out are the first ones.
IssuedOK(is) == Cardinality(is) \in Nat /\ is = 1 .. Cardinality(is)

\* The list s has the addresses of the queries h, each once.
ListOK(s, h) ==
    /\ s \in Seq(QueryAddr)
    /\ \A i, j \in DOMAIN s : s[i] = s[j] => i = j
    /\ \A a \in QueryAddr : In(s, a) <=> h[a] # FreeMemory

\* What the queries, the forwards fo and ReChecker's queries as say of each
\* other.
RecordsOK(s, h, fo, is, as) ==
    /\ \A a \in QueryAddr : In(s, a) =>
          /\ h[a].amx \in QueryForward /\ fo[h[a].amx] = h[a].uid
          /\ h[a].uid \in is /\ h[a].uid \in as
    /\ \A a, b \in QueryAddr : In(s, a) /\ In(s, b) /\ h[a].uid = h[b].uid => a = b
    /\ \A id \in as : \E a \in QueryAddr : In(s, a) /\ h[a].uid = id
    /\ \A f \in QueryForward : fo[f] # FreeForward =>
          \E a \in QueryAddr : In(s, a) /\ h[a].amx = f

\* Until a callback has run, the loop reads the list as it was.
Undelivered(ans, s, h) ==
    /\ ~ans.running /\ ~ans.stale
    /\ ans.pos + Len(ans.rest) = Len(s) + 1
    /\ \A j \in DOMAIN ans.rest : ans.rest[j] = s[ans.pos + j - 1]
    /\ \A k \in DOMAIN s : k < ans.pos => h[s[k]].uid # ans.uid

\* Afterwards it reads no address of the query that was asked, nor does the list
\* behind the place of the loop have one.
Delivered(ans, s, h) ==
    /\ \A j \in DOMAIN ans.rest : (ans.running => j > 1) => h[ans.rest[j]].uid # ans.uid
    /\ ~ans.stale => \A k \in DOMAIN s :
          k >= ans.pos /\ (ans.running => k > ans.pos) => h[s[k]].uid # ans.uid

AnswerOK(ans, s, h, is, d) == ans.uid # 0 =>
    /\ ans.uid \in is /\ ans.pos >= 1
    /\ ans.running => ans.rest # <<>>
    /\ IF d THEN Delivered(ans, s, h) ELSE Undelivered(ans, s, h)

QueryInv ==
    /\ QueryTypeOK
    /\ IssuedOK(issued)
    /\ ListOK(queries, handler)
    /\ RecordsOK(queries, handler, forwardOf, issued, asked)
    /\ AnswerOK(answer, queries, handler, issued, delivered)

-----------------------------------------------------------------------------
(* The inductive invariant of the life cycle *)

\* From the start of a map on, its name is known, and from the first entity on
\* whatever is armed.
NamesOK ==
    /\ phase \in {"spawned", "world"} => name = playing
    /\ attached = "yes" /\ phase \in {"off", "spawned"} => "KeyValue" \in armed
    /\ attached = "yes" /\ phase \notin {"off", "spawned"} => saved = Saved(playing)
    /\ attached = "yes" /\ phase \in {"spawned", "world", "precache", "running"}
          /\ "ResetGlobalState" \notin armed /\ playing \notin LongName => name = playing
    /\ attached = "yes" /\ phase = "restarting" /\ playing \notin LongName =>
          nextMap = playing

PointersOK ==
    /\ phase = "off" => edicts = "none"
    /\ attached = "yes" /\ phase \notin {"off", "spawned"} => edicts = "this"
    /\ phase \in {"off", "spawned", "world", "precache"} => gameRules = "none"
    /\ gameRules # "old" /\ (gameRules = "this" => "regame" \in api)
    /\ phase \in {"running", "ending", "restarting"} /\ "regame" \in api =>
          gameRules = "this"

HookOK ==
    attached = "yes" =>
       /\ "regame" \in api => gameHook
       /\ gameHook => "regame" \in api \/ offer["regame"] = "norules"

PhasesOK ==
    /\ attached = "no" => phase \in {"off", "spawned", "world"}
    /\ attached = "gone" => phase = "off"
    /\ ~PluginsRun => pluginHooks = {}

LifeInv == LifeTypeOK /\ NamesOK /\ PointersOK /\ HookOK /\ PhasesOK

ServerInv == LifeInv /\ QueryInv /\ (~PluginsRun => queries = <<>>)

-----------------------------------------------------------------------------
(* The steps of the life cycle *)

\* A library that may be used is a library.
LEMMA NegotiatedFacts ==
    Negotiated(offer) \subseteq Library
BY DEF Negotiated

\* Every step of the life cycle keeps its invariant, whatever the queries do.
LEMMA LifeKeepsInv ==
    ASSUME LifeInv,
           \/ LifeStep \/ LifeNative \/ ServerStarts
           \/ ServerDeactivate_Post \/ Detach \/ UNCHANGED lifeVars
    PROVE  LifeInv'
<1>. USE DEF LifeInv
<1>1. ASSUME Attach PROVE LifeInv'
  <2>. USE <1>1 DEF Attach, engine, gFunctionTable
  <2>1. LifeTypeOK'
    BY NameAssumption, NegotiatedFacts DEF LifeTypeOK, Phase, Saved, Hookable, Library
  <2>2. NamesOK'
    BY NameAssumption DEF NamesOK, LifeTypeOK, Phase, Saved, PluginsRun
  <2>3. PointersOK' /\ HookOK' /\ PhasesOK'
    BY DEF PointersOK, HookOK, PhasesOK, PluginsRun, LifeTypeOK, Phase
  <2>. QED
    BY <2>1, <2>2, <2>3
<1>2. ASSUME SpawnServer PROVE LifeInv'
  <2>. USE <1>2 DEF SpawnServer, reapi, mapData
  <2>1. LifeTypeOK'
    BY NameAssumption DEF LifeTypeOK, Phase, Saved, Hookable, Library
  <2>2. NamesOK'
    BY NameAssumption DEF NamesOK, LifeTypeOK, Phase, Saved, PluginsRun
  <2>3. PointersOK' /\ HookOK' /\ PhasesOK'
    BY DEF PointersOK, HookOK, PhasesOK, PluginsRun, LifeTypeOK, Phase
  <2>. QED
    BY <2>1, <2>2, <2>3
<1>3. ASSUME KeyValue PROVE LifeInv'
  <2>. USE <1>3 DEF KeyValue, reapi
  <2>1. LifeTypeOK'
    BY NameAssumption DEF LifeTypeOK, Phase, Saved, Hookable, Library
  <2>2. NamesOK'
    BY NameAssumption DEF NamesOK, LifeTypeOK, Phase, Saved, PluginsRun
  <2>3. PointersOK' /\ HookOK' /\ PhasesOK'
    BY DEF NamesOK, PointersOK, HookOK, PhasesOK, PluginsRun, LifeTypeOK, Phase
  <2>. QED
    BY <2>1, <2>2, <2>3
<1>4. ASSUME DispatchSpawn PROVE LifeInv'
  <2>. USE <1>4 DEF DispatchSpawn, reapi, engine
  <2>1. LifeTypeOK'
    BY NameAssumption DEF LifeTypeOK, Phase, Saved, Hookable, Library
  <2>2. NamesOK'
    BY NameAssumption DEF NamesOK, LifeTypeOK, Phase, Saved, PluginsRun
  <2>3. PointersOK' /\ HookOK' /\ PhasesOK'
    BY DEF PointersOK, HookOK, PhasesOK, PluginsRun, LifeTypeOK, Phase
  <2>. QED
    BY <2>1, <2>2, <2>3
<1>5. ASSUME LoadPlugins PROVE LifeInv'
  <2>. USE <1>5 DEF LoadPlugins, reapi, mapData
  <2>1. LifeTypeOK'
    BY NameAssumption DEF LifeTypeOK, Phase, Saved, Hookable, Library
  <2>2. NamesOK'
    BY NameAssumption DEF NamesOK, LifeTypeOK, Phase, Saved, PluginsRun
  <2>3. PointersOK' /\ HookOK' /\ PhasesOK'
    BY DEF PointersOK, HookOK, PhasesOK, PluginsRun, LifeTypeOK, Phase
  <2>. QED
    BY <2>1, <2>2, <2>3
<1>6. ASSUME InstallGameRules PROVE LifeInv'
  <2>. USE <1>6 DEF InstallGameRules
  <2>1. LifeTypeOK'
    BY NameAssumption DEF LifeTypeOK, Phase, Saved, Hookable, Library
  <2>2. NamesOK'
    BY NameAssumption DEF NamesOK, LifeTypeOK, Phase, Saved, PluginsRun
  <2>3. PointersOK' /\ HookOK' /\ PhasesOK'
    BY DEF PointersOK, HookOK, PhasesOK, PluginsRun, LifeTypeOK, Phase
  <2>. QED
    BY <2>1, <2>2, <2>3
<1>7. ASSUME NEW m \in Map, HostMap(m) PROVE LifeInv'
  <2>. USE <1>7 DEF HostMap, reapi, mapData, ResetGlobalState
  <2>1. LifeTypeOK'
    BY NameAssumption DEF LifeTypeOK, Phase, Saved, Hookable, Library
  <2>2. NamesOK'
    BY NameAssumption DEF NamesOK, LifeTypeOK, Phase, Saved, PluginsRun
  <2>3. PointersOK' /\ HookOK' /\ PhasesOK'
    BY DEF PointersOK, HookOK, PhasesOK, PluginsRun, LifeTypeOK, Phase
  <2>. QED
    BY <2>1, <2>2, <2>3
<1>8. ASSUME HostRestart PROVE LifeInv'
  <2>. USE <1>8 DEF HostRestart, reapi, mapData, ResetGlobalState
  <2>1. LifeTypeOK'
    BY NameAssumption DEF LifeTypeOK, Phase, Saved, Hookable, Library
  <2>2. NamesOK'
    BY NameAssumption DEF NamesOK, LifeTypeOK, Phase, Saved, PluginsRun
  <2>3. PointersOK' /\ HookOK' /\ PhasesOK'
    BY DEF PointersOK, HookOK, PhasesOK, PluginsRun, LifeTypeOK, Phase
  <2>. QED
    BY <2>1, <2>2, <2>3
<1>9. ASSUME NEW m \in Map \cup {NoMap}, ChangeLevel(m) PROVE LifeInv'
  <2>. USE <1>9 DEF ChangeLevel, reapi, mapData
  <2>1. LifeTypeOK'
    BY NameAssumption DEF LifeTypeOK, Phase, Saved, Hookable, Library
  <2>2. NamesOK'
    BY NameAssumption DEF NamesOK, LifeTypeOK, Phase, Saved, PluginsRun
  <2>3. PointersOK' /\ HookOK' /\ PhasesOK'
    BY DEF PointersOK, HookOK, PhasesOK, PluginsRun, LifeTypeOK, Phase
  <2>. QED
    BY <2>1, <2>2, <2>3
<1>10. ASSUME ServerStarts PROVE LifeInv'
  <2>. USE <1>10 DEF ServerStarts
  <2>1. LifeTypeOK'
    BY NameAssumption DEF LifeTypeOK, Phase, Saved, Hookable, Library
  <2>2. NamesOK'
    BY NameAssumption DEF NamesOK, LifeTypeOK, Phase, Saved, PluginsRun
  <2>3. PointersOK' /\ HookOK' /\ PhasesOK'
    BY DEF PointersOK, HookOK, PhasesOK, PluginsRun, LifeTypeOK, Phase
  <2>. QED
    BY <2>1, <2>2, <2>3
<1>11. ASSUME ServerDeactivate_Post PROVE LifeInv'
  <2>. USE <1>11 DEF ServerDeactivate_Post, reapi, ArmedAgain, Outdated
  <2>1. LifeTypeOK'
    BY NameAssumption DEF LifeTypeOK, Phase, Saved, Hookable, Library
  <2>2. NamesOK'
    BY NameAssumption DEF NamesOK, LifeTypeOK, Phase, Saved, PluginsRun
  <2>3. PointersOK' /\ HookOK' /\ PhasesOK'
    BY DEF PointersOK, HookOK, PhasesOK, PluginsRun, LifeTypeOK, Phase
  <2>. QED
    BY <2>1, <2>2, <2>3
<1>12. ASSUME Detach PROVE LifeInv'
  <2>. USE <1>12 DEF Detach, engine, mapData
  <2>1. LifeTypeOK'
    BY NameAssumption DEF LifeTypeOK, Phase, Saved, Hookable, Library
  <2>2. NamesOK'
    BY NameAssumption DEF NamesOK, LifeTypeOK, Phase, Saved, PluginsRun
  <2>3. PointersOK' /\ HookOK' /\ PhasesOK'
    BY DEF PointersOK, HookOK, PhasesOK, PluginsRun, LifeTypeOK, Phase
  <2>. QED
    BY <2>1, <2>2, <2>3
<1>13. ASSUME NEW l \in Hookable, HookLibrary(l) PROVE LifeInv'
  <2>. USE <1>13 DEF HookLibrary, reapi, engine, mapData
  <2>1. LifeTypeOK'
    BY NameAssumption DEF LifeTypeOK, Phase, Saved, Hookable, Library
  <2>2. NamesOK'
    BY NameAssumption DEF NamesOK, LifeTypeOK, Phase, Saved, PluginsRun
  <2>3. PointersOK' /\ HookOK' /\ PhasesOK'
    BY DEF PointersOK, HookOK, PhasesOK, PluginsRun, LifeTypeOK, Phase
  <2>. QED
    BY <2>1, <2>2, <2>3
<1>14. ASSUME HookMessage PROVE LifeInv'
  <2>. USE <1>14 DEF HookMessage, reapi, engine, mapData
  <2>1. LifeTypeOK'
    BY NameAssumption DEF LifeTypeOK, Phase, Saved, Hookable, Library
  <2>2. NamesOK'
    BY NameAssumption DEF NamesOK, LifeTypeOK, Phase, Saved, PluginsRun
  <2>3. PointersOK' /\ HookOK' /\ PhasesOK'
    BY DEF PointersOK, HookOK, PhasesOK, PluginsRun, LifeTypeOK, Phase
  <2>. QED
    BY <2>1, <2>2, <2>3
<1>15. ASSUME NEW m \in Map \cup OtherName, rh_set_mapname(m) PROVE LifeInv'
  <2>. USE <1>15 DEF rh_set_mapname, reapi, engine, mapData
  <2>1. LifeTypeOK'
    BY NameAssumption DEF LifeTypeOK, Phase, Saved, Hookable, Library
  <2>2. NamesOK'
    BY NameAssumption DEF NamesOK, LifeTypeOK, Phase, Saved, PluginsRun
  <2>3. PointersOK' /\ HookOK' /\ PhasesOK'
    BY DEF PointersOK, HookOK, PhasesOK, PluginsRun, LifeTypeOK, Phase
  <2>. QED
    BY <2>1, <2>2, <2>3
<1>16. ASSUME rh_reset_mapname PROVE LifeInv'
  <2>. USE <1>16 DEF rh_reset_mapname, reapi, engine, mapData
  <2>1. LifeTypeOK'
    BY NameAssumption DEF LifeTypeOK, Phase, Saved, Hookable, Library
  <2>2. NamesOK'
    BY NameAssumption DEF NamesOK, LifeTypeOK, Phase, Saved, PluginsRun
  <2>3. PointersOK' /\ HookOK' /\ PhasesOK'
    BY DEF PointersOK, HookOK, PhasesOK, PluginsRun, LifeTypeOK, Phase
  <2>. QED
    BY <2>1, <2>2, <2>3
<1>17. CASE UNCHANGED lifeVars
  BY <1>17 DEF lifeVars, LifeTypeOK, NamesOK, PointersOK, HookOK, PhasesOK, PluginsRun
<1>. QED
  BY <1>1, <1>2, <1>3, <1>4, <1>5, <1>6, <1>7, <1>8, <1>9, <1>10, <1>11, <1>12, <1>13, <1>14, <1>15, <1>16, <1>17
  DEF LifeStep, LifeNative

-----------------------------------------------------------------------------
(* The list of queries *)

LEMMA Ids == QueryId \subseteq Nat \ {0}
<1>1. QueryId = 1 .. Cardinality(QueryId)
  BY QueryAssumption
<1>2. \A n : \A id \in 1 .. n : id \in Nat \ {0}
  OBVIOUS
<1>. QED
  BY <1>1, <1>2

\* Erasing an entry moves those behind it.
LEMMA WithoutEntryFacts ==
    ASSUME NEW S, NEW s \in Seq(S), NEW i \in DOMAIN s
    PROVE  /\ WithoutEntry(s, i) \in Seq(S)
           /\ Len(WithoutEntry(s, i)) = Len(s) - 1
           /\ DOMAIN WithoutEntry(s, i) = 1 .. Len(s) - 1
           /\ \A k \in 1 .. Len(s) - 1 :
                 WithoutEntry(s, i)[k] = IF k < i THEN s[k] ELSE s[k + 1]
<1> DEFINE a == SubSeq(s, 1, i - 1)
           b == SubSeq(s, i + 1, Len(s))
<1>1. i \in 1 .. Len(s) /\ Len(s) \in Nat /\ DOMAIN s = 1 .. Len(s)
  OBVIOUS
<1>2. a \in Seq(S) /\ Len(a) = i - 1 /\ \A k \in 1 .. i - 1 : a[k] = s[k]
  BY <1>1
<1>3. b \in Seq(S) /\ Len(b) = Len(s) - i /\ \A k \in 1 .. Len(s) - i : b[k] = s[k + i]
  BY <1>1
<1>4. WithoutEntry(s, i) = a \o b
  BY DEF WithoutEntry
<1>. HIDE DEF a, b
<1>5. a \o b \in Seq(S) /\ Len(a \o b) = Len(s) - 1
  <2>1. a \o b \in Seq(S)
    BY <1>2, <1>3
  <2>2. Len(a \o b) = Len(a) + Len(b)
    <3>1. a \in Seq(S) /\ b \in Seq(S)
      BY <1>2, <1>3
    <3>. QED
      BY <3>1, ConcatProperties
  <2>. QED
    BY <1>1, <1>2, <1>3, <2>1, <2>2
<1>6. ASSUME NEW k \in 1 .. Len(s) - 1
      PROVE  (a \o b)[k] = IF k < i THEN s[k] ELSE s[k + 1]
  <2>1. CASE k < i
    BY <1>1, <1>2, <1>3, <2>1
  <2>2. CASE ~(k < i)
    <3>1. k - (i - 1) \in 1 .. Len(s) - i /\ k - (i - 1) + i = k + 1
      BY <1>1, <2>2
    <3>2. (a \o b)[k] = b[k - (i - 1)]
      BY <1>1, <1>2, <1>3, <2>2
    <3>. QED
      BY <1>3, <2>2, <3>1, <3>2
  <2>. QED
    BY <2>1, <2>2
<1>7. DOMAIN (a \o b) = 1 .. Len(s) - 1
  BY <1>5
<1>. QED
  BY <1>4, <1>5, <1>6, <1>7

\* The list without one entry has all addresses but that one, each once.
LEMMA WithoutKeepsList ==
    ASSUME NEW s \in Seq(QueryAddr), NEW i \in DOMAIN s,
           \A j, k \in DOMAIN s : s[j] = s[k] => j = k
    PROVE  /\ WithoutEntry(s, i) \in Seq(QueryAddr)
           /\ \A j, k \in DOMAIN WithoutEntry(s, i) :
                 WithoutEntry(s, i)[j] = WithoutEntry(s, i)[k] => j = k
           /\ \A a : In(WithoutEntry(s, i), a) <=> In(s, a) /\ a # s[i]
<1> DEFINE w == WithoutEntry(s, i)
           from(k) == IF k < i THEN k ELSE k + 1
<1>1. /\ w \in Seq(QueryAddr) /\ DOMAIN w = 1 .. Len(s) - 1
      /\ \A k \in 1 .. Len(s) - 1 : w[k] = IF k < i THEN s[k] ELSE s[k + 1]
  BY WithoutEntryFacts
<1>. HIDE DEF w
<1>2. i \in 1 .. Len(s) /\ Len(s) \in Nat /\ DOMAIN s = 1 .. Len(s)
  OBVIOUS
<1>3. \A k \in DOMAIN w : from(k) \in DOMAIN s /\ from(k) # i /\ w[k] = s[from(k)]
  BY <1>1, <1>2
<1>4. \A k, n \in DOMAIN w : from(k) = from(n) => k = n
  BY <1>1, <1>2
<1>5. \A n \in DOMAIN s : n # i => \E k \in DOMAIN w : from(k) = n
  <2>. SUFFICES ASSUME NEW n \in DOMAIN s, n # i
                PROVE  \E k \in DOMAIN w : from(k) = n
    OBVIOUS
  <2>1. CASE n < i
    <3>1. n \in DOMAIN w /\ from(n) = n
      BY <1>1, <1>2, <2>1
    <3>. QED
      BY <3>1
  <2>2. CASE n > i
    <3>1. n - 1 \in DOMAIN w /\ from(n - 1) = n
      BY <1>1, <1>2, <2>2
    <3>. QED
      BY <3>1
  <2>. QED
    BY <1>2, <2>1, <2>2
<1>. HIDE DEF from
<1>6. \A j, k \in DOMAIN w : w[j] = w[k] => j = k
  BY <1>3, <1>4
<1>7. ASSUME NEW a PROVE In(w, a) <=> In(s, a) /\ a # s[i]
  <2>1. In(w, a) => In(s, a) /\ a # s[i]
    BY <1>3 DEF In
  <2>2. In(s, a) /\ a # s[i] => In(w, a)
    BY <1>3, <1>5 DEF In
  <2>. QED
    BY <2>1, <2>2
<1>. QED
  BY <1>1, <1>6, <1>7 DEF w

\* A new entry.
LEMMA AppendFacts ==
    ASSUME NEW s \in Seq(QueryAddr), NEW a \in QueryAddr, ~In(s, a),
           \A j, k \in DOMAIN s : s[j] = s[k] => j = k
    PROVE  /\ Append(s, a) \in Seq(QueryAddr) /\ Len(s) \in Nat
           /\ Len(Append(s, a)) = Len(s) + 1
           /\ DOMAIN Append(s, a) = 1 .. Len(s) + 1 /\ DOMAIN s = 1 .. Len(s)
           /\ Append(s, a)[Len(s) + 1] = a
           /\ \A k \in 1 .. Len(s) : Append(s, a)[k] = s[k]
           /\ \A j, k \in DOMAIN Append(s, a) :
                 Append(s, a)[j] = Append(s, a)[k] => j = k
           /\ \A b : In(Append(s, a), b) <=> In(s, b) \/ b = a
<1> DEFINE t == Append(s, a)
           n == Len(s) + 1
<1>1. /\ t \in Seq(QueryAddr) /\ Len(t) = n /\ DOMAIN t = 1 .. n /\ t[n] = a
      /\ DOMAIN s = 1 .. Len(s) /\ Len(s) \in Nat
      /\ \A k \in 1 .. Len(s) : t[k] = s[k]
  OBVIOUS
<1>2. \A k \in DOMAIN t : k = n \/ k \in DOMAIN s
  BY <1>1
<1>3. \A k \in DOMAIN s : k \in DOMAIN t /\ k # n /\ t[k] = s[k] /\ s[k] # a
  BY <1>1 DEF In
<1>4. n \in DOMAIN t /\ t[n] = a
  BY <1>1
<1>5. /\ t \in Seq(QueryAddr) /\ Len(s) \in Nat /\ Len(t) = Len(s) + 1
      /\ DOMAIN t = 1 .. Len(s) + 1 /\ DOMAIN s = 1 .. Len(s) /\ t[Len(s) + 1] = a
      /\ \A k \in 1 .. Len(s) : t[k] = s[k]
  BY <1>1
<1>. HIDE DEF t, n
<1>6. \A j, k \in DOMAIN t : t[j] = t[k] => j = k
  BY <1>2, <1>3, <1>4
<1>7. \A b : In(t, b) <=> In(s, b) \/ b = a
  BY <1>2, <1>3, <1>4 DEF In
<1>. QED
  BY <1>5, <1>6, <1>7 DEF t

-----------------------------------------------------------------------------
(* The records of the queries *)

HandlerType == [amx : QueryForward \cup {0}, uid : QueryId \cup {0}]

\* The queries h do not have the id u at an address where g has not.
NoNew(g, h, u) == \A a \in QueryAddr : h[a].uid = u => g[a].uid = u

\* The queries at the addresses A are destroyed, and s is the list without them.
LEMMA DestroyFacts ==
    ASSUME QueryInv, NEW A, A \subseteq QueryAddr, \A a \in A : In(queries, a), Destroy(A),
           NEW s \in Seq(QueryAddr), \A i, j \in DOMAIN s : s[i] = s[j] => i = j,
           \A a \in QueryAddr : In(s, a) <=> In(queries, a) /\ a \notin A
    PROVE  /\ handler' \in [QueryAddr -> HandlerType]
           /\ forwardOf' \in [QueryForward -> QueryId \cup {FreeForward}]
           /\ asked' \subseteq issued
           /\ ListOK(s, handler')
           /\ RecordsOK(s, handler', forwardOf', issued, asked')
           /\ \A u \in QueryId : NoNew(handler, handler', u)
<1> DEFINE h == handler'
           fo == forwardOf'
           as == asked'
<1>1. /\ h = [a \in QueryAddr |-> IF a \in A THEN FreeMemory ELSE handler[a]]
      /\ fo = [f \in QueryForward |-> IF \E a \in A : handler[a].amx = f
                                      THEN FreeForward ELSE forwardOf[f]]
      /\ as = asked \ {handler[a].uid : a \in A}
  BY DEF Destroy
<1>. HIDE DEF h, fo, as
<1>2. /\ handler \in [QueryAddr -> HandlerType] /\ FreeMemory \in HandlerType
      /\ forwardOf \in [QueryForward -> QueryId \cup {FreeForward}]
      /\ asked \subseteq issued
  BY DEF QueryInv, QueryTypeOK, HandlerType, FreeMemory
<1>3. h \in [QueryAddr -> HandlerType]
  BY <1>1, <1>2
<1>4. fo \in [QueryForward -> QueryId \cup {FreeForward}] /\ as \subseteq issued
  BY <1>1, <1>2
<1>5. \A a \in A : h[a] = FreeMemory
  BY <1>1
<1>6. \A a \in QueryAddr : a \notin A => h[a] = handler[a]
  BY <1>1
<1>7. ListOK(s, h)
  BY <1>5, <1>6 DEF ListOK, QueryInv
<1>8. ASSUME NEW a \in QueryAddr, In(s, a)
      PROVE  /\ h[a].amx \in QueryForward /\ fo[h[a].amx] = h[a].uid
             /\ h[a].uid \in issued /\ h[a].uid \in as
  <2>1. In(queries, a) /\ a \notin A /\ h[a] = handler[a]
    BY <1>6, <1>8
  <2>2. /\ handler[a].amx \in QueryForward /\ forwardOf[handler[a].amx] = handler[a].uid
        /\ handler[a].uid \in issued /\ handler[a].uid \in asked
    BY <2>1 DEF QueryInv, RecordsOK
  <2>3. \A b \in A : handler[b].uid # handler[a].uid
    BY <2>1 DEF QueryInv, RecordsOK
  <2>4. \A b \in A : handler[b].amx # handler[a].amx
    BY <2>2, <2>3 DEF QueryInv, RecordsOK
  <2>5. fo[handler[a].amx] = forwardOf[handler[a].amx]
    BY <1>1, <2>2, <2>4
  <2>. QED
    BY <1>1, <2>1, <2>2, <2>3, <2>5
<1>9. \A a, b \in QueryAddr : In(s, a) /\ In(s, b) /\ h[a].uid = h[b].uid => a = b
  BY <1>6 DEF QueryInv, RecordsOK
<1>10. \A id \in as : \E a \in QueryAddr : In(s, a) /\ h[a].uid = id
  <2>. SUFFICES ASSUME NEW id \in as PROVE \E a \in QueryAddr : In(s, a) /\ h[a].uid = id
    OBVIOUS
  <2>1. id \in asked /\ \A a \in A : handler[a].uid # id
    BY <1>1
  <2>2. PICK a \in QueryAddr : In(queries, a) /\ handler[a].uid = id
    BY <2>1 DEF QueryInv, RecordsOK
  <2>. QED
    BY <1>6, <2>1, <2>2
<1>11. \A f \in QueryForward : fo[f] # FreeForward =>
          \E a \in QueryAddr : In(s, a) /\ h[a].amx = f
  <2>. SUFFICES ASSUME NEW f \in QueryForward, fo[f] # FreeForward
                PROVE  \E a \in QueryAddr : In(s, a) /\ h[a].amx = f
    OBVIOUS
  <2>1. forwardOf[f] # FreeForward /\ \A a \in A : handler[a].amx # f
    BY <1>1
  <2>2. PICK a \in QueryAddr : In(queries, a) /\ handler[a].amx = f
    BY <2>1 DEF QueryInv, RecordsOK
  <2>. QED
    BY <1>6, <2>1, <2>2
<1>12. \A u \in QueryId : NoNew(handler, h, u)
  BY <1>5, <1>6, Ids DEF NoNew, FreeMemory
<1>13. RecordsOK(s, h, fo, issued, as)
  BY <1>8, <1>9, <1>10, <1>11 DEF RecordsOK
<1>. QED
  BY <1>3, <1>4, <1>7, <1>12, <1>13 DEF h, fo, as

\* MAKE_REQUESTID hands out an id that it has not handed out before.
LEMMA NextId ==
    ASSUME IssuedOK(issued), issued \subseteq QueryId,
           NEW id \in QueryId, id = Cardinality(issued) + 1
    PROVE  id \notin issued /\ IssuedOK(issued \cup {id})
<1> DEFINE n == Cardinality(issued)
<1>1. n \in Nat /\ issued = 1 .. n
  BY DEF IssuedOK
<1>2. id = n + 1
  OBVIOUS
<1>. HIDE DEF n
<1>3. id \notin issued /\ issued \cup {id} = 1 .. id /\ id \in Nat
  BY <1>1, <1>2
<1>4. Cardinality(1 .. id) = IF 1 > id THEN 0 ELSE id - 1 + 1
  BY <1>3, FS_Interval
<1>5. Cardinality(1 .. id) = id
  BY <1>1, <1>2, <1>4
<1>. QED
  BY <1>3, <1>5 DEF IssuedOK

\* A new query at the free address a, with the free forward f and a new id.
LEMMA RegisterFacts ==
    ASSUME QueryInv, NEW a \in QueryAddr, NEW f \in QueryForward, NEW id \in QueryId,
           NEW grows, RegisterQueryFile(a, f, id, grows)
    PROVE  /\ handler' \in [QueryAddr -> HandlerType]
           /\ forwardOf' \in [QueryForward -> QueryId \cup {FreeForward}]
           /\ IssuedOK(issued \cup {id}) /\ issued \cup {id} \subseteq QueryId
           /\ ListOK(Append(queries, a), handler')
           /\ RecordsOK(Append(queries, a), handler', forwardOf',
                        issued \cup {id}, asked \cup {id})
           /\ \A u \in issued : NoNew(handler, handler', u)
<1> DEFINE s == Append(queries, a)
           h == handler'
           fo == forwardOf'
<1>. /\ h = [handler EXCEPT ![a] = [amx |-> f, uid |-> id]]
     /\ fo = [forwardOf EXCEPT ![f] = id]
     /\ handler[a] = FreeMemory /\ forwardOf[f] = FreeForward
     /\ id = Cardinality(issued) + 1
  BY DEF RegisterQueryFile
<1>. HIDE DEF h, fo
<1>1. /\ handler \in [QueryAddr -> HandlerType] /\ [amx |-> f, uid |-> id] \in HandlerType
      /\ forwardOf \in [QueryForward -> QueryId \cup {FreeForward}]
      /\ asked \subseteq issued /\ issued \subseteq QueryId /\ 0 \notin QueryId
  BY Ids DEF QueryInv, QueryTypeOK, HandlerType
<1>2. h \in [QueryAddr -> HandlerType]
      /\ fo \in [QueryForward -> QueryId \cup {FreeForward}]
  BY <1>1
<1>3. /\ h[a].amx = f /\ h[a].uid = id /\ h[a] # FreeMemory
      /\ \A b \in QueryAddr : b # a => h[b] = handler[b]
      /\ fo[f] = id /\ \A g \in QueryForward : g # f => fo[g] = forwardOf[g]
  BY <1>1, Ids DEF FreeMemory
<1>4. id \notin issued /\ IssuedOK(issued \cup {id})
  BY <1>1, NextId DEF QueryInv
<1>5. /\ queries \in Seq(QueryAddr) /\ ~In(queries, a)
      /\ \A j, k \in DOMAIN queries : queries[j] = queries[k] => j = k
  BY DEF QueryInv, ListOK
<1>6. /\ s \in Seq(QueryAddr) /\ \A j, k \in DOMAIN s : s[j] = s[k] => j = k
      /\ \A b : In(s, b) <=> In(queries, b) \/ b = a
  BY <1>5, AppendFacts
<1>. HIDE DEF s
<1>7. ListOK(s, h)
  BY <1>3, <1>6 DEF ListOK, QueryInv
<1>8. ASSUME NEW b \in QueryAddr, In(s, b)
      PROVE  /\ h[b].amx \in QueryForward /\ fo[h[b].amx] = h[b].uid
             /\ h[b].uid \in issued \cup {id} /\ h[b].uid \in asked \cup {id}
  <2>1. CASE b = a
    BY <1>3, <2>1
  <2>2. CASE b # a
    <3>1. In(queries, b) /\ h[b] = handler[b]
      BY <1>3, <1>6, <1>8, <2>2
    <3>2. /\ handler[b].amx \in QueryForward /\ forwardOf[handler[b].amx] = handler[b].uid
          /\ handler[b].uid \in issued /\ handler[b].uid \in asked
      BY <3>1 DEF QueryInv, RecordsOK
    <3>3. handler[b].amx # f
      BY <1>1, <3>2 DEF FreeForward
    <3>. QED
      BY <1>3, <3>1, <3>2, <3>3
  <2>. QED
    BY <2>1, <2>2
<1>9. \A b \in QueryAddr : In(queries, b) => handler[b].uid \in issued /\ b # a
  BY <1>5 DEF QueryInv, RecordsOK
<1>10. \A b, c \in QueryAddr : In(s, b) /\ In(s, c) /\ h[b].uid = h[c].uid => b = c
  BY <1>3, <1>4, <1>6, <1>9 DEF QueryInv, RecordsOK
<1>11. \A x \in asked \cup {id} : \E b \in QueryAddr : In(s, b) /\ h[b].uid = x
  BY <1>3, <1>6, <1>9 DEF QueryInv, RecordsOK
<1>12. \A g \in QueryForward : fo[g] # FreeForward =>
          \E b \in QueryAddr : In(s, b) /\ h[b].amx = g
  BY <1>3, <1>6, <1>9 DEF QueryInv, RecordsOK
<1>13. \A u \in issued : NoNew(handler, h, u)
  BY <1>3, <1>4 DEF NoNew
<1>14. RecordsOK(s, h, fo, issued \cup {id}, asked \cup {id})
  BY <1>8, <1>10, <1>11, <1>12 DEF RecordsOK
<1>. QED
  BY <1>1, <1>2, <1>4, <1>7, <1>13, <1>14 DEF s, h, fo

-----------------------------------------------------------------------------
(* The answer that is delivered *)

AnswerType == [uid : QueryId \cup {0}, pos : Nat, rest : Seq(QueryAddr),
               running : BOOLEAN, stale : BOOLEAN]

\* Plugin code that runs while an answer is delivered is the callback's own or
\* is called by it.
LEMMA CallbackRuns ==
    ASSUME QueryInv, QueryNatives, Answering
    PROVE  /\ answer \in AnswerType /\ answer.uid \in issued /\ answer.pos >= 1
           /\ answer.running /\ answer.rest # <<>> /\ delivered
           /\ Delivered(answer, queries, handler)
<1>1. answer \in AnswerType /\ answer.running /\ delivered \in BOOLEAN
  BY DEF QueryInv, QueryTypeOK, AnswerType, QueryNatives
<1>2. AnswerOK(answer, queries, handler, issued, delivered) /\ answer.uid # 0
  BY DEF QueryInv, Answering
<1>3. delivered
  BY <1>1, <1>2 DEF AnswerOK, Undelivered
<1>. QED
  BY <1>1, <1>2, <1>3 DEF AnswerOK

LEMMA ReadAfterFacts ==
    ASSUME QueryInv, answer.pos >= 1, NEW v \in Seq(QueryAddr)
    PROVE  /\ ReadAfter(v) \in Seq(QueryAddr)
           /\ DOMAIN ReadAfter(v) = DOMAIN answer.rest
           /\ answer.rest # <<>> => ReadAfter(v) # <<>>
           /\ \A j \in DOMAIN answer.rest :
                 \/ ReadAfter(v)[j] = answer.rest[j]
                 \/ /\ answer.pos + j - 1 \in DOMAIN v
                    /\ ReadAfter(v)[j] = v[answer.pos + j - 1]
<1> DEFINE r == answer.rest
           p == answer.pos
           w == ReadAfter(v)
<1>1. /\ r \in Seq(QueryAddr) /\ p \in Nat
  BY DEF QueryInv, QueryTypeOK
<1>2. /\ DOMAIN r = 1 .. Len(r) /\ Len(r) \in Nat /\ \A j \in DOMAIN r : r[j] \in QueryAddr
      /\ DOMAIN v = 1 .. Len(v) /\ Len(v) \in Nat /\ \A j \in DOMAIN v : v[j] \in QueryAddr
  BY <1>1
<1>3. w = [j \in DOMAIN r |-> IF p + j - 1 <= Len(v) THEN v[p + j - 1] ELSE r[j]]
  BY DEF ReadAfter
<1>. HIDE DEF w
<1>4. ASSUME NEW j \in DOMAIN r
      PROVE  w[j] = r[j] \/ (p + j - 1 \in DOMAIN v /\ w[j] = v[p + j - 1])
  <2>1. CASE p + j - 1 <= Len(v)
    <3>1. p + j - 1 \in DOMAIN v
      BY <1>1, <1>2, <2>1
    <3>. QED
      BY <1>3, <2>1, <3>1
  <2>2. CASE ~(p + j - 1 <= Len(v))
    BY <1>3, <2>2
  <2>. QED
    BY <2>1, <2>2
<1>5. \A j \in DOMAIN r : w[j] \in QueryAddr
  BY <1>2, <1>4
<1>6. w \in [1 .. Len(r) -> QueryAddr]
  BY <1>2, <1>3, <1>5
<1>7. w \in Seq(QueryAddr)
  BY <1>2, <1>6
<1>8. r # <<>> => w # <<>>
  BY <1>1, <1>2, <1>6
<1>. QED
  BY <1>3, <1>4, <1>7, <1>8 DEF w

\* What a change of the list to v makes of the answer.
Adjusted(ans, v) ==
    \/ ans = answer /\ answer.stale
    \/ ans = [answer EXCEPT !.stale = TRUE]
    \/ ans = [answer EXCEPT !.rest = ReadAfter(v)] /\ ~answer.stale

\* The list v has no address of the query that was asked behind the loop.
NotBehind(v, h) ==
    \A k \in DOMAIN v : k > answer.pos /\ ~answer.stale => h[v[k]].uid # answer.uid

\* Whatever a callback does to the list, which is v afterwards with the queries
\* h, the loop goes on over: it reads what it read or the list, or its memory is
\* no longer the list's.
LEMMA AnswerSurvives ==
    ASSUME QueryInv, QueryNatives, Answering,
           NEW v \in Seq(QueryAddr), NEW h, NEW is, issued \subseteq is,
           NoNew(handler, h, answer.uid), NotBehind(v, h), NEW ans, Adjusted(ans, v)
    PROVE  ans \in AnswerType /\ AnswerOK(ans, v, h, is, delivered)
<1> DEFINE u == answer.uid
           r == answer.rest
<1>1. /\ answer \in AnswerType /\ u \in issued /\ answer.pos >= 1 /\ answer.pos \in Nat
      /\ answer.running /\ r # <<>> /\ delivered /\ r \in Seq(QueryAddr)
      /\ Delivered(answer, queries, handler)
  BY CallbackRuns DEF AnswerType
<1>2. /\ \A j \in DOMAIN r : r[j] \in QueryAddr
      /\ \A j \in DOMAIN r : j \in Nat
  BY <1>1
<1>3. \A j \in DOMAIN r : j > 1 => h[r[j]].uid # u
  BY <1>1, <1>2 DEF NoNew, Delivered
<1>4. CASE ans = answer /\ answer.stale
  BY <1>1, <1>3, <1>4 DEF AnswerOK, Delivered
<1>5. CASE ans = [answer EXCEPT !.stale = TRUE]
  <2>1. /\ ans \in AnswerType /\ ans.uid = u /\ ans.rest = r /\ ans.running /\ ans.stale
        /\ ans.pos = answer.pos
    BY <1>1, <1>5 DEF AnswerType
  <2>. QED
    BY <1>1, <1>3, <2>1 DEF AnswerOK, Delivered
<1>6. CASE ans = [answer EXCEPT !.rest = ReadAfter(v)] /\ ~answer.stale
  <2> DEFINE w == ReadAfter(v)
  <2>1. /\ w \in Seq(QueryAddr) /\ DOMAIN w = DOMAIN r /\ w # <<>>
        /\ \A j \in DOMAIN r : \/ w[j] = r[j]
                               \/ /\ answer.pos + j - 1 \in DOMAIN v
                                  /\ w[j] = v[answer.pos + j - 1]
    BY <1>1, ReadAfterFacts
  <2>. HIDE DEF w
  <2>2. ans = [answer EXCEPT !.rest = w]
    BY <1>6 DEF w
  <2>3. /\ ans \in AnswerType /\ ans.uid = u /\ ans.rest = w /\ ans.running
        /\ ans.pos = answer.pos
    BY <1>1, <2>1, <2>2 DEF AnswerType
  <2>4. ASSUME NEW j \in DOMAIN w, j > 1 PROVE h[w[j]].uid # u
    <3>1. answer.pos + j - 1 > answer.pos
      BY <1>1, <1>2, <2>1, <2>4
    <3>. QED
      BY <1>3, <1>6, <2>1, <2>4, <3>1 DEF NotBehind
  <2>5. Delivered(ans, v, h)
    BY <1>6, <2>3, <2>4 DEF Delivered, NotBehind
  <2>. QED
    BY <1>1, <2>1, <2>3, <2>5 DEF AnswerOK
<1>. QED
  BY <1>4, <1>5, <1>6 DEF Adjusted

LEMMA RegisterKeepsInv ==
    ASSUME QueryInv, NEW a \in QueryAddr, NEW f \in QueryForward, NEW id \in QueryId,
           NEW g \in BOOLEAN, RegisterQueryFile(a, f, id, g)
    PROVE  QueryInv'
<1> DEFINE h == handler'
           fo == forwardOf'
           ans == answer'
           s == Append(queries, a)
           is == issued \cup {id}
<1>1. /\ QueryNatives /\ handler[a] = FreeMemory /\ forwardOf[f] = FreeForward
      /\ id = Cardinality(issued) + 1
      /\ fo = [forwardOf EXCEPT ![f] = id]
      /\ h = [handler EXCEPT ![a] = [amx |-> f, uid |-> id]]
      /\ issued' = is /\ queries' = s /\ asked' = asked \cup {id}
      /\ delivered' = delivered
      /\ ans = IF ~Answering \/ answer.stale THEN answer
               ELSE IF g THEN [answer EXCEPT !.stale = TRUE]
               ELSE [answer EXCEPT !.rest = ReadAfter(s)]
  BY DEF RegisterQueryFile
<1>. HIDE DEF h, fo, ans
<1>2. /\ h \in [QueryAddr -> HandlerType]
      /\ fo \in [QueryForward -> QueryId \cup {FreeForward}]
      /\ IssuedOK(is) /\ is \subseteq QueryId
      /\ ListOK(s, h) /\ RecordsOK(s, h, fo, is, asked \cup {id})
      /\ \A u \in issued : NoNew(handler, h, u)
  BY RegisterFacts DEF h, fo
<1>3. /\ answer \in AnswerType /\ delivered \in BOOLEAN /\ asked \subseteq issued
  BY DEF QueryInv, QueryTypeOK, AnswerType
<1>4. ans \in AnswerType /\ AnswerOK(ans, s, h, is, delivered)
  <2>1. CASE ~Answering
    BY <1>1, <1>3, <2>1 DEF AnswerOK, Answering
  <2>2. CASE Answering
    <3>1. /\ answer.uid \in issued /\ answer.running
          /\ Delivered(answer, queries, handler)
      BY <1>1, <2>2, CallbackRuns
    <3>2. /\ s \in Seq(QueryAddr) /\ Len(queries) \in Nat
          /\ DOMAIN s = 1 .. Len(queries) + 1 /\ DOMAIN queries = 1 .. Len(queries)
          /\ s[Len(queries) + 1] = a
          /\ \A k \in 1 .. Len(queries) : s[k] = queries[k]
          /\ \A k \in DOMAIN queries : queries[k] \in QueryAddr
      <4>1. /\ queries \in Seq(QueryAddr) /\ ~In(queries, a)
            /\ \A j, k \in DOMAIN queries : queries[j] = queries[k] => j = k
        BY <1>1 DEF QueryInv, ListOK
      <4>. QED
        BY <4>1, AppendFacts
    <3>3. h[a].uid = id /\ id \notin issued
      <4>1. id \notin issued
        BY <1>1, NextId DEF QueryInv, QueryTypeOK
      <4>2. handler \in [QueryAddr -> HandlerType]
        BY DEF QueryInv, QueryTypeOK, HandlerType
      <4>. QED
        BY <1>1, <4>1, <4>2
    <3>4. ASSUME NEW k \in DOMAIN s, k > answer.pos, ~answer.stale
          PROVE  h[s[k]].uid # answer.uid
      <4>1. CASE k = Len(queries) + 1
        BY <3>1, <3>2, <3>3, <4>1
      <4>2. CASE k \in DOMAIN queries
        <5>1. handler[queries[k]].uid # answer.uid
          BY <1>3, <3>1, <3>4, <4>2 DEF Delivered, AnswerType
        <5>. QED
          BY <1>2, <3>1, <3>2, <4>2, <5>1 DEF NoNew
      <4>. QED
        BY <3>2, <4>1, <4>2
    <3>5. NoNew(handler, h, answer.uid) /\ issued \subseteq is
      BY <1>2, <3>1
    <3>6. Adjusted(ans, s) /\ NotBehind(s, h)
      BY <1>1, <2>2, <3>4 DEF Adjusted, NotBehind
    <3>7. s \in Seq(QueryAddr) /\ QueryNatives
      BY <1>1, <3>2
    <3>. HIDE DEF s, is
    <3>. QED
      BY <2>2, <3>5, <3>6, <3>7, AnswerSurvives
  <2>. QED
    BY <2>1, <2>2
<1>. HIDE DEF s, is
<1>5. /\ queries' \in Seq(QueryAddr) /\ issued' \subseteq QueryId
      /\ asked' \subseteq issued' /\ delivered' \in BOOLEAN
  BY <1>1, <1>2, <1>3 DEF ListOK, is
<1>6. QueryTypeOK'
  BY <1>2, <1>4, <1>5 DEF QueryTypeOK, h, fo, ans, HandlerType, AnswerType
<1>. QED
  BY <1>1, <1>2, <1>4, <1>6 DEF QueryInv, h, fo, ans

LEMMA UnRegisterKeepsInv ==
    ASSUME QueryInv, NEW f \in QueryForward, UnRegisterQueryFile(f)
    PROVE  QueryInv'
<1> DEFINE h == handler'
           ans == answer'
<1>1. PICK i \in DOMAIN queries :
         /\ Destroy({queries[i]}) /\ queries' = WithoutEntry(queries, i)
         /\ answer' = IF ~Answering \/ answer.stale THEN answer
                      ELSE [answer EXCEPT !.rest = ReadAfter(WithoutEntry(queries, i))]
  BY DEF UnRegisterQueryFile
<1> DEFINE w == WithoutEntry(queries, i)
<1>2. QueryNatives /\ issued' = issued /\ delivered' = delivered
  BY DEF UnRegisterQueryFile
<1>3. /\ queries \in Seq(QueryAddr) /\ queries[i] \in QueryAddr
      /\ \A k \in DOMAIN queries : queries[k] \in QueryAddr
      /\ \A j, k \in DOMAIN queries : queries[j] = queries[k] => j = k
      /\ In(queries, queries[i])
  BY DEF QueryInv, ListOK, In
<1>4. /\ w \in Seq(QueryAddr)
      /\ \A j, k \in DOMAIN w : w[j] = w[k] => j = k
      /\ \A a : In(w, a) <=> In(queries, a) /\ a # queries[i]
  BY <1>3, WithoutKeepsList
<1>5. /\ DOMAIN queries = 1 .. Len(queries) /\ Len(queries) \in Nat
      /\ DOMAIN w = 1 .. Len(queries) - 1
      /\ \A k \in 1 .. Len(queries) - 1 : w[k] = IF k < i THEN queries[k] ELSE queries[k + 1]
  BY <1>3, WithoutEntryFacts
<1>. HIDE DEF w
<1>6. /\ h \in [QueryAddr -> HandlerType]
      /\ forwardOf' \in [QueryForward -> QueryId \cup {FreeForward}]
      /\ asked' \subseteq issued /\ ListOK(w, h)
      /\ RecordsOK(w, h, forwardOf', issued, asked')
      /\ \A u \in QueryId : NoNew(handler, h, u)
  <2> DEFINE A == {queries[i]}
  <2>1. /\ A \subseteq QueryAddr /\ \A a \in A : In(queries, a)
        /\ Destroy(A) /\ \A a \in QueryAddr : In(w, a) <=> In(queries, a) /\ a \notin A
    BY <1>1, <1>3, <1>4
  <2>. HIDE DEF A
  <2>. QED
    BY <1>4, <2>1, DestroyFacts
<1>7. /\ answer \in AnswerType /\ delivered \in BOOLEAN /\ issued \subseteq QueryId
      /\ IssuedOK(issued)
  BY DEF QueryInv, QueryTypeOK, AnswerType
<1>8. ans = IF ~Answering \/ answer.stale THEN answer
            ELSE [answer EXCEPT !.rest = ReadAfter(w)]
  BY <1>1 DEF w
<1>. HIDE DEF h, ans
<1>9. ans \in AnswerType /\ AnswerOK(ans, w, h, issued, delivered)
  <2>1. CASE ~Answering
    BY <1>7, <1>8, <2>1 DEF AnswerOK, Answering
  <2>2. CASE Answering
    <3>1. /\ answer.uid \in issued /\ answer.running /\ answer.pos >= 1
          /\ answer.pos \in Nat /\ Delivered(answer, queries, handler)
      BY <1>2, <2>2, CallbackRuns DEF AnswerType
    <3>2. NoNew(handler, h, answer.uid)
      BY <1>6, <1>7, <3>1
    <3>3. ASSUME NEW k \in DOMAIN w, k > answer.pos, ~answer.stale
          PROVE  h[w[k]].uid # answer.uid
      <4>1. k \in DOMAIN queries /\ k + 1 \in DOMAIN queries /\ k + 1 > answer.pos
        BY <1>5, <3>1, <3>3
      <4>2. \A n \in DOMAIN queries : n > answer.pos => handler[queries[n]].uid # answer.uid
        <5>1. \A n \in DOMAIN queries : n > answer.pos => n >= answer.pos
          BY <1>5, <3>1
        <5>. QED
          BY <3>1, <3>3, <5>1 DEF Delivered
      <4>3. w[k] = queries[k] \/ w[k] = queries[k + 1]
        BY <1>5
      <4>4. handler[w[k]].uid # answer.uid /\ w[k] \in QueryAddr
        BY <1>3, <3>3, <4>1, <4>2, <4>3
      <4>. QED
        BY <3>2, <4>4 DEF NoNew
    <3>4. Adjusted(ans, w) /\ NotBehind(w, h)
      BY <1>8, <2>2, <3>3 DEF Adjusted, NotBehind
    <3>. QED
      BY <1>2, <1>4, <2>2, <3>2, <3>4, AnswerSurvives
  <2>. QED
    BY <2>1, <2>2
<1>10. queries' = w
  BY <1>1 DEF w
<1>11. QueryTypeOK'
  BY <1>2, <1>4, <1>6, <1>7, <1>9, <1>10 DEF QueryTypeOK, h, ans, HandlerType, AnswerType
<1>. QED
  BY <1>2, <1>6, <1>7, <1>9, <1>10, <1>11 DEF QueryInv, h, ans

LEMMA ClearKeepsInv ==
    ASSUME QueryInv, ClearQueries
    PROVE  QueryInv' /\ queries' = <<>> /\ asked' = {}
<1> DEFINE A == {queries[i] : i \in DOMAIN queries}
<1>1. /\ Destroy(A) /\ queries' = <<>> /\ issued' = issued /\ answer' = answer
      /\ delivered' = delivered /\ answer.uid = 0
  BY DEF ClearQueries, Answering
<1>2. \A a : a \in A <=> In(queries, a)
  BY DEF In
<1>3. A \subseteq QueryAddr
  BY DEF QueryInv, ListOK
<1>. HIDE DEF A
<1>4. <<>> \in Seq(QueryAddr) /\ DOMAIN <<>> = {}
  OBVIOUS
<1> DEFINE e == <<>>
<1>5. /\ e \in Seq(QueryAddr) /\ \A i, j \in DOMAIN e : e[i] = e[j] => i = j
      /\ \A a \in QueryAddr : In(e, a) <=> In(queries, a) /\ a \notin A
      /\ \A a : ~In(e, a)
  BY <1>2, <1>4 DEF In
<1>. HIDE DEF e
<1>6. /\ handler' \in [QueryAddr -> HandlerType]
      /\ forwardOf' \in [QueryForward -> QueryId \cup {FreeForward}]
      /\ asked' \subseteq issued /\ ListOK(e, handler')
      /\ RecordsOK(e, handler', forwardOf', issued, asked')
  BY <1>1, <1>2, <1>3, <1>5, DestroyFacts
<1>7. asked' = {}
  BY <1>5, <1>6 DEF RecordsOK
<1>8. QueryTypeOK'
  BY <1>1, <1>4, <1>6 DEF QueryInv, QueryTypeOK, HandlerType
<1>9. AnswerOK(answer', queries', handler', issued', delivered')
  BY <1>1 DEF AnswerOK
<1>. QED
  BY <1>1, <1>6, <1>7, <1>8, <1>9 DEF QueryInv, e

LEMMA FireKeepsInv ==
    ASSUME QueryInv, NEW id \in QueryId, FireCallback(id)
    PROVE  QueryInv'
<1>1. /\ id \in issued /\ delivered' = FALSE
      /\ answer' = [uid |-> id, pos |-> 1, rest |-> queries,
                    running |-> FALSE, stale |-> FALSE]
      /\ UNCHANGED <<queries, handler, forwardOf, issued, asked>>
  BY DEF FireCallback
<1>2. /\ queries \in Seq(QueryAddr) /\ DOMAIN queries = 1 .. Len(queries)
      /\ Len(queries) \in Nat
  BY DEF QueryInv, ListOK
<1>3. QueryTypeOK'
  BY <1>1, <1>2 DEF QueryInv, QueryTypeOK
<1>4. Undelivered(answer', queries, handler)
  BY <1>1, <1>2 DEF Undelivered
<1>5. AnswerOK(answer', queries, handler, issued, delivered')
  BY <1>1, <1>4 DEF AnswerOK
<1>. QED
  BY <1>1, <1>3, <1>5 DEF QueryInv

\* The loop goes on to the next query.
LEMMA NextQueryFacts ==
    ASSUME QueryInv, Answering, ~AtEndOfQueries
    PROVE  /\ NextQuery(answer) \in AnswerType /\ NextQuery(answer).uid = answer.uid
           /\ NextQuery(answer).pos = answer.pos + 1 /\ answer.pos >= 1
           /\ answer.uid \in issued /\ answer.pos \in Nat /\ answer \in AnswerType
           /\ NextQuery(answer).stale = answer.stale /\ ~NextQuery(answer).running
           /\ Len(answer.rest) \in Nat /\ DOMAIN answer.rest = 1 .. Len(answer.rest)
           /\ Len(answer.rest) > 0 /\ AtQuery = answer.rest[1] /\ AtQuery \in QueryAddr
           /\ Len(NextQuery(answer).rest) = Len(answer.rest) - 1
           /\ DOMAIN NextQuery(answer).rest = 1 .. Len(answer.rest) - 1
           /\ \A j \in 1 .. Len(answer.rest) - 1 :
                 NextQuery(answer).rest[j] = answer.rest[j + 1]
<1>1. answer \in AnswerType /\ answer.uid \in issued /\ answer.pos >= 1
  BY DEF QueryInv, QueryTypeOK, AnswerType, AnswerOK, Answering
<1> DEFINE r == answer.rest
<1>2. r \in Seq(QueryAddr) /\ r # <<>> /\ answer.pos \in Nat
  BY <1>1 DEF AnswerType, AtEndOfQueries
<1>3. /\ Len(r) \in Nat /\ Len(r) > 0 /\ DOMAIN r = 1 .. Len(r)
      /\ Tail(r) \in Seq(QueryAddr) /\ Len(Tail(r)) = Len(r) - 1
      /\ DOMAIN Tail(r) = 1 .. Len(r) - 1
      /\ \A j \in 1 .. Len(r) - 1 : Tail(r)[j] = r[j + 1]
      /\ Head(r) = r[1] /\ r[1] \in QueryAddr
  BY <1>2
<1>4. NextQuery(answer) = [answer EXCEPT !.pos = answer.pos + 1, !.rest = Tail(r),
                                         !.running = FALSE]
  BY DEF NextQuery
<1> DEFINE t == Tail(r)
           n == NextQuery(answer)
<1>5. /\ n \in AnswerType /\ n.uid = answer.uid /\ n.pos = answer.pos + 1
      /\ n.stale = answer.stale /\ ~n.running /\ n.rest = Tail(r)
  <2>. HIDE DEF n
  <2>1. n = [answer EXCEPT !.pos = answer.pos + 1, !.rest = t, !.running = FALSE]
    BY <1>4 DEF n
  <2>2. t \in Seq(QueryAddr) /\ answer.pos + 1 \in Nat
    BY <1>2, <1>3
  <2>3. n.rest = t
    <3>. HIDE DEF t
    <3>. QED
      BY <1>1, <2>1 DEF AnswerType
  <2>. HIDE DEF t
  <2>4. /\ n \in AnswerType /\ n.uid = answer.uid /\ n.pos = answer.pos + 1
        /\ n.stale = answer.stale /\ ~n.running
    BY <1>1, <2>1, <2>2 DEF AnswerType
  <2>. QED
    BY <2>3, <2>4 DEF t
<1>. HIDE DEF n
<1>. QED
  BY <1>1, <1>2, <1>3, <1>5 DEF n, AtQuery

LEMMA PassKeepsInv ==
    ASSUME QueryInv, PassOtherQuery
    PROVE  QueryInv'
<1> DEFINE n == NextQuery(answer)
           r == answer.rest
<1>1. /\ Answering /\ ~answer.running /\ ~AtEndOfQueries
      /\ handler[AtQuery].uid # answer.uid
      /\ answer' = n /\ UNCHANGED <<queries, handler, forwardOf, issued, asked, delivered>>
  BY DEF PassOtherQuery, ReadsOn, IsAsked
<1>2. /\ n \in AnswerType /\ n.uid = answer.uid /\ n.pos = answer.pos + 1
      /\ answer.pos >= 1 /\ answer.uid \in issued /\ answer.pos \in Nat
      /\ n.stale = answer.stale /\ ~n.running
      /\ Len(r) \in Nat /\ DOMAIN r = 1 .. Len(r)
      /\ Len(r) > 0 /\ AtQuery = r[1]
      /\ Len(n.rest) = Len(r) - 1 /\ DOMAIN n.rest = 1 .. Len(r) - 1
      /\ \A j \in 1 .. Len(r) - 1 : n.rest[j] = r[j + 1]
  BY <1>1, NextQueryFacts
<1>. HIDE DEF n
<1>3. /\ queries \in Seq(QueryAddr) /\ Len(queries) \in Nat
      /\ DOMAIN queries = 1 .. Len(queries)
  BY DEF QueryInv, ListOK
<1>4. IF delivered THEN Delivered(answer, queries, handler)
                   ELSE Undelivered(answer, queries, handler)
  BY <1>1 DEF QueryInv, AnswerOK, Answering
<1>5. ASSUME delivered PROVE Delivered(n, queries, handler)
  <2>1. ASSUME NEW j \in DOMAIN n.rest PROVE handler[n.rest[j]].uid # n.uid
    <3>1. j + 1 \in DOMAIN r /\ n.rest[j] = r[j + 1]
      BY <1>2
    <3>. QED
      BY <1>1, <1>2, <1>4, <1>5, <3>1 DEF Delivered
  <2>2. ASSUME NEW k \in DOMAIN queries, k >= n.pos, ~n.stale
        PROVE  handler[queries[k]].uid # n.uid
    <3>1. k >= answer.pos
      BY <1>2, <1>3, <2>2
    <3>. QED
      BY <1>1, <1>2, <1>4, <1>5, <2>2, <3>1 DEF Delivered
  <2>. QED
    BY <1>2, <2>1, <2>2 DEF Delivered
<1>6. ASSUME ~delivered PROVE Undelivered(n, queries, handler)
  <2>1. /\ ~answer.stale /\ answer.pos + Len(r) = Len(queries) + 1
        /\ \A j \in DOMAIN r : r[j] = queries[answer.pos + j - 1]
        /\ \A k \in DOMAIN queries : k < answer.pos => handler[queries[k]].uid # answer.uid
    BY <1>4, <1>6 DEF Undelivered
  <2>2. n.pos + Len(n.rest) = Len(queries) + 1
    <3>1. \A i, l \in Nat : (i + 1) + (l - 1) = i + l
      OBVIOUS
    <3>2. answer.pos \in Nat /\ Len(r) \in Nat
      BY <1>2
    <3>. QED
      BY <1>2, <2>1, <3>1, <3>2
  <2>3. ASSUME NEW j \in DOMAIN n.rest PROVE n.rest[j] = queries[n.pos + j - 1]
    <3>1. j \in 1 .. Len(r) - 1 /\ Len(r) \in Nat /\ answer.pos \in Nat
      BY <1>2
    <3>2. j + 1 \in 1 .. Len(r) /\ answer.pos + (j + 1) - 1 = answer.pos + 1 + j - 1
      BY <3>1
    <3>3. n.rest[j] = r[j + 1] /\ r[j + 1] = queries[answer.pos + (j + 1) - 1]
      BY <1>2, <2>1, <3>1, <3>2
    <3>. QED
      BY <1>2, <3>2, <3>3
  <2>4. ASSUME NEW k \in DOMAIN queries, k < n.pos
        PROVE  handler[queries[k]].uid # n.uid
    <3>1. k < answer.pos \/ k = answer.pos
      BY <1>2, <1>3, <2>4
    <3>2. 1 \in DOMAIN r /\ answer.pos + 1 - 1 = answer.pos
      BY <1>2
    <3>3. r[1] = queries[answer.pos]
      BY <2>1, <3>2
    <3>. QED
      BY <1>1, <1>2, <2>1, <3>1, <3>3
  <2>. QED
    BY <1>2, <2>1, <2>2, <2>3, <2>4 DEF Undelivered
<1>7. AnswerOK(n, queries, handler, issued, delivered)
  BY <1>2, <1>5, <1>6 DEF AnswerOK
<1>8. QueryTypeOK'
  BY <1>1, <1>2 DEF QueryInv, QueryTypeOK, AnswerType
<1>. QED
  BY <1>1, <1>7, <1>8 DEF QueryInv

\* The query whose callback runs is registered, and has not been answered.
LEMMA RunFacts ==
    ASSUME QueryInv, RunQueryCallback
    PROVE  /\ ~delivered /\ Undelivered(answer, queries, handler)
           /\ AtQuery = queries[answer.pos] /\ answer.pos \in DOMAIN queries
           /\ AtQuery = answer.rest[1] /\ AtQuery \in QueryAddr /\ In(queries, AtQuery)
           /\ handler[AtQuery].uid = answer.uid
           /\ handler[AtQuery].amx \in QueryForward
           /\ forwardOf[handler[AtQuery].amx] = answer.uid
<1>1. /\ Answering /\ ~answer.running /\ ~AtEndOfQueries
      /\ handler[AtQuery].uid = answer.uid
  BY DEF RunQueryCallback, ReadsOn, IsAsked
<1> DEFINE r == answer.rest
<1>2. /\ answer.pos >= 1 /\ answer.pos \in Nat
      /\ Len(r) \in Nat /\ DOMAIN r = 1 .. Len(r)
      /\ Len(r) > 0 /\ AtQuery = r[1] /\ AtQuery \in QueryAddr
  BY <1>1, NextQueryFacts
<1>3. 1 \in DOMAIN r
  BY <1>2
<1>4. IF delivered THEN Delivered(answer, queries, handler)
                   ELSE Undelivered(answer, queries, handler)
  BY <1>1 DEF QueryInv, AnswerOK, Answering
<1>5. ~delivered /\ Undelivered(answer, queries, handler)
  BY <1>1, <1>2, <1>3, <1>4 DEF Delivered
<1>6. Len(queries) \in Nat /\ DOMAIN queries = 1 .. Len(queries)
  BY DEF QueryInv, ListOK
<1>7. answer.pos \in DOMAIN queries
  BY <1>2, <1>5, <1>6 DEF Undelivered
<1>8. AtQuery = queries[answer.pos]
  <2>1. answer.pos + 1 - 1 = answer.pos
    BY <1>2
  <2>. QED
    BY <1>2, <1>3, <1>5, <2>1 DEF Undelivered
<1>9. In(queries, AtQuery)
  BY <1>7, <1>8 DEF In
<1>. QED
  BY <1>1, <1>2, <1>5, <1>7, <1>8, <1>9 DEF QueryInv, RecordsOK

LEMMA RunKeepsInv ==
    ASSUME QueryInv, RunQueryCallback
    PROVE  QueryInv'
<1> DEFINE n == [answer EXCEPT !.running = TRUE]
           r == answer.rest
<1>1. /\ answer' = n /\ delivered' = TRUE /\ Answering /\ ~AtEndOfQueries
      /\ UNCHANGED <<queries, handler, forwardOf, issued, asked>>
  BY DEF RunQueryCallback, ReadsOn
<1>2. /\ answer.pos >= 1 /\ answer.uid \in issued /\ answer.pos \in Nat
      /\ Len(r) \in Nat /\ DOMAIN r = 1 .. Len(r) /\ Len(r) > 0 /\ answer \in AnswerType
  BY <1>1, NextQueryFacts
<1>3. /\ ~delivered /\ Undelivered(answer, queries, handler)
      /\ AtQuery = queries[answer.pos] /\ answer.pos \in DOMAIN queries
      /\ AtQuery \in QueryAddr /\ In(queries, AtQuery)
      /\ handler[AtQuery].uid = answer.uid
  BY RunFacts
<1>4. /\ n \in AnswerType /\ n.uid = answer.uid /\ n.pos = answer.pos /\ n.rest = r
      /\ n.running /\ n.stale = answer.stale
  BY <1>2 DEF AnswerType
<1>. HIDE DEF n
<1>5. /\ queries \in Seq(QueryAddr) /\ DOMAIN queries = 1 .. Len(queries)
      /\ Len(queries) \in Nat
      /\ \A k \in DOMAIN queries : queries[k] \in QueryAddr /\ In(queries, queries[k])
      /\ \A j, k \in DOMAIN queries : queries[j] = queries[k] => j = k
  BY DEF QueryInv, ListOK, In
<1>6. ASSUME NEW k \in DOMAIN queries, k > answer.pos
      PROVE  handler[queries[k]].uid # answer.uid
  <2>1. k # answer.pos
    BY <1>2, <1>5, <1>6
  <2>2. queries[k] # AtQuery
    BY <1>3, <1>5, <2>1
  <2>. QED
    BY <1>3, <1>5, <2>2 DEF QueryInv, RecordsOK
<1>7. ASSUME NEW j \in DOMAIN r, j > 1 PROVE handler[r[j]].uid # answer.uid
  <2>1. answer.pos + Len(r) = Len(queries) + 1 /\ r[j] = queries[answer.pos + j - 1]
    BY <1>3 DEF Undelivered
  <2>2. answer.pos + j - 1 \in DOMAIN queries /\ answer.pos + j - 1 > answer.pos
    BY <1>2, <1>5, <1>7, <2>1
  <2>. QED
    BY <1>6, <2>1, <2>2
<1>8. Delivered(n, queries, handler)
  BY <1>4, <1>6, <1>7 DEF Delivered
<1>9. r # <<>>
  BY <1>1 DEF AtEndOfQueries
<1>10. AnswerOK(n, queries, handler, issued, TRUE)
  BY <1>2, <1>4, <1>8, <1>9 DEF AnswerOK
<1>11. QueryTypeOK'
  BY <1>1, <1>4 DEF QueryInv, QueryTypeOK, AnswerType
<1>. QED
  BY <1>1, <1>10, <1>11 DEF QueryInv

LEMMA ReturnKeepsInv ==
    ASSUME QueryInv, QueryCallbackReturns
    PROVE  QueryInv'
<1> DEFINE n == NextQuery(answer)
           r == answer.rest
<1>1. /\ Answering /\ answer.running /\ answer' = n
      /\ UNCHANGED <<queries, handler, forwardOf, issued, asked, delivered>>
  BY DEF QueryCallbackReturns, InQueryCallback
<1>2. delivered /\ r # <<>> /\ Delivered(answer, queries, handler)
  BY <1>1, CallbackRuns DEF QueryNatives
<1>3. /\ n \in AnswerType /\ n.uid = answer.uid /\ n.pos = answer.pos + 1
      /\ answer.pos >= 1 /\ answer.uid \in issued /\ answer.pos \in Nat
      /\ n.stale = answer.stale /\ ~n.running
      /\ Len(r) \in Nat /\ DOMAIN r = 1 .. Len(r)
      /\ DOMAIN n.rest = 1 .. Len(r) - 1
      /\ \A j \in 1 .. Len(r) - 1 : n.rest[j] = r[j + 1]
  BY <1>1, <1>2, NextQueryFacts DEF AtEndOfQueries
<1>. HIDE DEF n
<1>4. ASSUME NEW j \in DOMAIN n.rest PROVE handler[n.rest[j]].uid # n.uid
  <2>1. j + 1 \in DOMAIN r /\ n.rest[j] = r[j + 1] /\ j + 1 > 1
    BY <1>3
  <2>. QED
    BY <1>1, <1>2, <1>3, <2>1 DEF Delivered
<1>5. ASSUME NEW k \in DOMAIN queries, k >= n.pos, ~n.stale
      PROVE  handler[queries[k]].uid # n.uid
  <2>1. DOMAIN queries = 1 .. Len(queries)
    BY DEF QueryInv, ListOK
  <2>2. k > answer.pos /\ k >= answer.pos
    BY <1>3, <1>5, <2>1
  <2>. QED
    BY <1>1, <1>2, <1>3, <1>5, <2>2 DEF Delivered
<1>6. Delivered(n, queries, handler)
  BY <1>3, <1>4, <1>5 DEF Delivered
<1>7. AnswerOK(n, queries, handler, issued, delivered)
  BY <1>2, <1>3, <1>6 DEF AnswerOK
<1>8. QueryTypeOK'
  BY <1>1, <1>3 DEF QueryInv, QueryTypeOK, AnswerType
<1>. QED
  BY <1>1, <1>7, <1>8 DEF QueryInv

LEMMA DeliveredKeepsInv ==
    ASSUME QueryInv, AnswerDelivered
    PROVE  QueryInv'
<1>1. /\ answer' = NoAnswer /\ delivered' = FALSE
      /\ UNCHANGED <<queries, handler, forwardOf, issued, asked>>
  BY DEF AnswerDelivered
<1>2. <<>> \in Seq(QueryAddr)
  OBVIOUS
<1>3. NoAnswer \in AnswerType /\ NoAnswer.uid = 0
  BY <1>2 DEF NoAnswer, AnswerType
<1>4. QueryTypeOK'
  BY <1>1, <1>3 DEF QueryInv, QueryTypeOK, AnswerType
<1>. QED
  BY <1>1, <1>3, <1>4 DEF QueryInv, AnswerOK

\* No query, and no answer.
LEMMA NoQueries ==
    /\ IssuedOK({}) /\ ListOK(<<>>, [a \in QueryAddr |-> FreeMemory])
    /\ RecordsOK(<<>>, [a \in QueryAddr |-> FreeMemory],
                 [f \in QueryForward |-> FreeForward], {}, {})
    /\ <<>> \in Seq(QueryAddr)
    /\ [a \in QueryAddr |-> FreeMemory] \in [QueryAddr -> HandlerType]
    /\ NoAnswer \in AnswerType /\ NoAnswer.uid = 0
<1>1. Cardinality({}) = 0 /\ {} = 1 .. 0
  BY FS_EmptySet
<1>2. <<>> \in Seq(QueryAddr) /\ DOMAIN <<>> = {}
  OBVIOUS
<1> DEFINE e == <<>>
<1>3. e \in Seq(QueryAddr) /\ DOMAIN e = {}
  BY <1>2
<1>. HIDE DEF e
<1>4. \A a : ~In(e, a)
  BY <1>3 DEF In
<1>5. ListOK(e, [a \in QueryAddr |-> FreeMemory])
  BY <1>3, <1>4 DEF ListOK
<1>6. RecordsOK(e, [a \in QueryAddr |-> FreeMemory],
                [f \in QueryForward |-> FreeForward], {}, {})
  BY <1>4 DEF RecordsOK
<1>7. NoAnswer \in AnswerType /\ NoAnswer.uid = 0
  BY <1>2 DEF NoAnswer, AnswerType
<1>8. FreeMemory \in HandlerType
  BY DEF FreeMemory, HandlerType
<1>. QED
  BY <1>1, <1>2, <1>5, <1>6, <1>7, <1>8 DEF IssuedOK, e

LEMMA NoQueriesInv ==
    ASSUME queries = <<>>, handler = [a \in QueryAddr |-> FreeMemory],
           forwardOf = [f \in QueryForward |-> FreeForward],
           issued = {}, asked = {}, answer = NoAnswer, delivered = FALSE
    PROVE  QueryInv
<1>1. QueryTypeOK
  BY NoQueries DEF QueryTypeOK, HandlerType, AnswerType
<1>. QED
  BY <1>1, NoQueries DEF QueryInv, AnswerOK

LEMMA CrashKeepsInv ==
    ASSUME QueryCrash
    PROVE  QueryInv'
<1>1. QueryTypeOK'
  BY NoQueries DEF QueryCrash, QueryTypeOK, HandlerType, AnswerType
<1>. QED
  BY <1>1, NoQueries DEF QueryCrash, QueryInv, AnswerOK

\* Every step of the queries keeps their invariant.
LEMMA QueriesKeepInv ==
    ASSUME QueryInv, QueryStep \/ ClearQueries \/ QueryCrash \/ UNCHANGED queryVars
    PROVE  QueryInv'
<1>1. CASE UNCHANGED queryVars
  BY <1>1 DEF queryVars, QueryInv, QueryTypeOK
<1>2. CASE QueryStep
  BY <1>2, RegisterKeepsInv, UnRegisterKeepsInv, FireKeepsInv, PassKeepsInv,
     RunKeepsInv, ReturnKeepsInv, DeliveredKeepsInv DEF QueryStep, QueryLoop
<1>. QED
  BY <1>1, <1>2, ClearKeepsInv, CrashKeepsInv

-----------------------------------------------------------------------------
(* The server *)

\* No step of the life cycle but the ends of the map and of the module, which
\* clear the queries, takes plugins away.
LEMMA PluginsStay ==
    ASSUME LifeInv, PluginsRun, LifeStep \/ LifeNative \/ UNCHANGED lifeVars
    PROVE  PluginsRun'
<1>. USE DEF PluginsRun
<1>1. CASE LifeStep
  BY <1>1 DEF LifeStep, Attach, SpawnServer, KeyValue, DispatchSpawn, LoadPlugins,
     InstallGameRules, HostMap, HostRestart, ChangeLevel, reapi, engine
<1>2. CASE LifeNative
  BY <1>2 DEF LifeNative, HookLibrary, HookMessage, rh_set_mapname, rh_reset_mapname,
     reapi, engine
<1>3. CASE UNCHANGED lifeVars
  BY <1>3 DEF lifeVars
<1>. QED
  BY <1>1, <1>2, <1>3

LEMMA ServerKeepsInv == ServerInv /\ [ServerNext]_serverVars => ServerInv'
<1>. SUFFICES ASSUME ServerInv, [ServerNext]_serverVars PROVE ServerInv'
  OBVIOUS
<1>. USE DEF ServerInv
<1>1. CASE MapStep
  <2>1. LifeStep /\ UNCHANGED queryVars
    BY <1>1 DEF MapStep
  <2>2. LifeInv' /\ QueryInv'
    BY <2>1, LifeKeepsInv, QueriesKeepInv
  <2>3. ~PluginsRun' => queries' = <<>>
    BY <2>1, PluginsStay DEF queryVars
  <2>. QED
    BY <2>2, <2>3
<1>2. CASE Natives
  <2>1. LifeNative /\ UNCHANGED queryVars
    BY <1>2 DEF Natives
  <2>2. LifeInv' /\ QueryInv'
    BY <2>1, LifeKeepsInv, QueriesKeepInv
  <2>3. ~PluginsRun' => queries' = <<>>
    BY <2>1, PluginsStay DEF queryVars
  <2>. QED
    BY <2>2, <2>3
<1>3. CASE MapEnd
  BY <1>3, LifeKeepsInv, ClearKeepsInv DEF MapEnd
<1>4. CASE ModuleEnd
  BY <1>4, LifeKeepsInv, ClearKeepsInv DEF ModuleEnd
<1>5. CASE Rechecker
  <2>1. PluginsRun /\ QueryStep /\ UNCHANGED lifeVars
    BY <1>5 DEF Rechecker
  <2>2. LifeInv' /\ QueryInv' /\ PluginsRun'
    BY <2>1, LifeKeepsInv, QueriesKeepInv, PluginsStay
  <2>. QED
    BY <2>2
<1>6. CASE Crash
  <2>1. QueryCrash /\ ServerStarts /\ queries' = <<>>
    BY <1>6 DEF Crash, QueryCrash
  <2>. QED
    BY <2>1, LifeKeepsInv, CrashKeepsInv
<1>7. CASE UNCHANGED serverVars
  <2>1. UNCHANGED lifeVars /\ UNCHANGED queryVars
    BY <1>7 DEF serverVars
  <2>2. LifeInv' /\ QueryInv'
    BY <2>1, LifeKeepsInv, QueriesKeepInv
  <2>3. ~PluginsRun' => queries' = <<>>
    BY <2>1, PluginsStay DEF queryVars
  <2>. QED
    BY <2>2, <2>3
<1>. QED
  BY <1>1, <1>2, <1>3, <1>4, <1>5, <1>6, <1>7 DEF ServerNext

LEMMA Invariance == ServerSpec => []ServerInv
<1>1. ServerInit => ServerInv
  <2>. SUFFICES ASSUME ServerInit PROVE ServerInv
    OBVIOUS
  <2>1. QueryInv /\ queries = <<>>
    BY NoQueriesInv DEF ServerInit, QueryInit
  <2>2. LifeInv
    BY DEF ServerInit, LifeInit, LifeInv, LifeTypeOK, NamesOK, PointersOK, HookOK,
       PhasesOK, PluginsRun, Phase
  <2>. QED
    BY <2>1, <2>2 DEF ServerInv
<1>. QED
  BY <1>1, ServerKeepsInv, PTL DEF ServerSpec

-----------------------------------------------------------------------------
(* The theorems *)

\* Every variable of the life cycle and of the queries keeps its type, and
\* ReChecker is asked only under ids that have been handed out.
THEOREM TypeCorrectness == ServerSpec => [](LifeTypeOK /\ QueryTypeOK)
<1>1. ServerInv => LifeTypeOK /\ QueryTypeOK
  BY DEF ServerInv, LifeInv, QueryInv
<1>. QED
  BY <1>1, Invariance, PTL

\* On whichever way maps are loaded and whatever plugins call them, plugins are
\* told the map's true name, and a restart loads the same map again (KeyValue,
\* OnAmxxAttach, ResetGlobalState).
THEOREM MapNameIsTrue == ServerSpec => []TrueMapName
<1>1. ServerInv => TrueMapName
  BY DEF ServerInv, LifeInv, NamesOK, TrueMapName, rh_get_mapname, PluginsRun
<1>. QED
  BY <1>1, Invariance, PTL

\* While plugins run, every pointer is to something of this map, and when none
\* runs nothing of the old map is left: no hook, no query, no pointer
\* (ServerDeactivate_Post, InstallGameRules, OnMetaDetach).
THEOREM MapIsCleared == ServerSpec => []NothingOutlivesItsMap
<1>. SUFFICES ServerInv => NothingOutlivesItsMap
  BY Invariance, PTL
<1>. SUFFICES ASSUME ServerInv PROVE NothingOutlivesItsMap
  OBVIOUS
<1>1. PointersOfThisMap
  BY DEF ServerInv, LifeInv, PointersOK, PointersOfThisMap, PluginsRun
<1>2. phase = "off" => edicts = "none" /\ gameRules = "none"
  BY DEF ServerInv, LifeInv, PointersOK
<1>3. ~PluginsRun => pluginHooks = {} /\ queries = <<>>
  BY DEF ServerInv, LifeInv, PhasesOK
<1>4. queries = <<>> => asked = {}
  <2>1. DOMAIN <<>> = {}
    OBVIOUS
  <2>. QED
    BY <2>1 DEF ServerInv, QueryInv, RecordsOK, In
<1>. QED
  BY <1>1, <1>2, <1>3, <1>4 DEF NothingOutlivesItsMap

\* A list without repetition has as many entries as members.
LEMMA ListedCount ==
    ASSUME QueryInv
    PROVE  Cardinality(ListedQueries) = Len(queries)
<1> DEFINE n == Len(queries)
<1>1. /\ n \in Nat /\ DOMAIN queries = 1 .. n /\ queries = [i \in 1 .. n |-> queries[i]]
      /\ \A i, j \in 1 .. n : queries[i] = queries[j] => i = j
  BY DEF QueryInv, ListOK
<1>. HIDE DEF n
<1>2. /\ queries \in [1 .. n -> ListedQueries]
      /\ \A a \in ListedQueries : \E i \in 1 .. n : queries[i] = a
  BY <1>1 DEF ListedQueries
<1>3. queries \in Bijection(1 .. n, ListedQueries)
  BY <1>1, <1>2 DEF Bijection, Injection, Surjection, IsInjective
<1>4. IsFiniteSet(1 .. n) /\ Cardinality(1 .. n) = n
  <2>1. n \in Nat
    BY <1>1
  <2>2. IsFiniteSet(1 .. n) /\ Cardinality(1 .. n) = IF 1 > n THEN 0 ELSE n - 1 + 1
    BY <2>1, FS_Interval
  <2>. QED
    BY <2>1, <2>2
<1>5. Cardinality(ListedQueries) = Cardinality(1 .. n)
  <2>1. queries \in Bijection(1 .. n, ListedQueries) /\ IsFiniteSet(1 .. n)
    BY <1>3, <1>4
  <2>. QED
    BY <2>1, FS_Bijection DEF ExistsBijection
<1>. QED
  BY <1>4, <1>5 DEF n

\* Whatever a callback unregisters and registers under the loop, the list, AMX
\* Mod X's forwards and ReChecker's queries agree (Add, Remove, Clear).
THEOREM QueriesStayInStep == ServerSpec => []QueriesAgree
<1>. SUFFICES ServerInv => QueriesAgree
  BY Invariance, PTL
<1>. SUFFICES ASSUME ServerInv PROVE QueriesAgree
  OBVIOUS
<1>1. QueryInv
  BY DEF ServerInv
<1>2. \A a : a \in ListedQueries <=> a \in QueryAddr /\ In(queries, a)
  BY <1>1 DEF ListedQueries, In, QueryInv, ListOK
<1>3. ListedQueries = {a \in QueryAddr : handler[a] # FreeMemory}
  BY <1>1, <1>2 DEF QueryInv, ListOK
<1>4. asked = {handler[a].uid : a \in ListedQueries}
  BY <1>1, <1>2 DEF QueryInv, RecordsOK
<1>5. ASSUME NEW f \in QueryForward, NEW id \in QueryId
      PROVE  forwardOf[f] = id <=>
                \E a \in ListedQueries : handler[a] = [amx |-> f, uid |-> id]
  <2>1. id # FreeForward
    BY Ids DEF FreeForward
  <2>2. ASSUME forwardOf[f] = id
        PROVE  \E a \in ListedQueries : handler[a] = [amx |-> f, uid |-> id]
    <3>1. PICK a \in QueryAddr : In(queries, a) /\ handler[a].amx = f
      BY <1>1, <2>1, <2>2 DEF QueryInv, RecordsOK
    <3>2. handler[a].uid = id
      BY <1>1, <2>2, <3>1 DEF QueryInv, RecordsOK
    <3>3. handler[a] \in HandlerType
      BY <1>1 DEF QueryInv, QueryTypeOK, HandlerType
    <3>4. handler[a] = [amx |-> f, uid |-> id]
      BY <3>1, <3>2, <3>3 DEF HandlerType
    <3>. QED
      BY <1>2, <3>1, <3>4
  <2>3. ASSUME NEW a \in ListedQueries, handler[a] = [amx |-> f, uid |-> id]
        PROVE  forwardOf[f] = id
    <3>1. handler[a].amx = f /\ handler[a].uid = id
      BY <2>3
    <3>. QED
      BY <1>1, <1>2, <2>3, <3>1 DEF QueryInv, RecordsOK
  <2>. QED
    BY <2>2, <2>3
<1>. QED
  BY <1>1, <1>3, <1>4, <1>5, ListedCount DEF QueriesAgree

\* An answer runs the callback of the query it answers and no other plugin's, at
\* most once, and is not dropped while that query is asked, whatever memory the
\* loop reads (FireCallback, Remove).
THEOREM AnswersArrive == ServerSpec => AnswersReachTheirQuery
<1> DEFINE A == /\ ~InQueryCallback /\ InQueryCallback' =>
                     /\ ~delivered
                     /\ forwardOf[handler[AtQuery].amx] = answer.uid
                /\ Answering /\ ~Answering' /\ answer.uid \in asked' => delivered
<1>1. ServerInv /\ [ServerNext]_serverVars => [A]_queryVars
  <2>. SUFFICES ASSUME ServerInv, [ServerNext]_serverVars, ~UNCHANGED queryVars PROVE A
    OBVIOUS
  <2>1. QueryInv
    BY DEF ServerInv
  <2>2. QueryStep \/ ClearQueries \/ QueryCrash
    BY DEF ServerNext, MapStep, Natives, MapEnd, ModuleEnd, Rechecker, Crash, serverVars
  <2>3. CASE ClearQueries
    BY <2>3 DEF ClearQueries, Answering, InQueryCallback
  <2>4. CASE QueryCrash
    BY <2>4 DEF QueryCrash, Answering, InQueryCallback, NoAnswer
  <2>5. ASSUME NEW a \in QueryAddr, NEW f \in QueryForward, NEW id \in QueryId,
               NEW g \in BOOLEAN, RegisterQueryFile(a, f, id, g)
        PROVE  A
    <3>1. answer \in AnswerType
      BY <2>1 DEF QueryInv, QueryTypeOK, AnswerType
    <3>2. answer'.uid = answer.uid /\ answer'.running = answer.running
      BY <2>5, <3>1 DEF RegisterQueryFile, AnswerType
    <3>. QED
      BY <3>2 DEF Answering, InQueryCallback
  <2>6. ASSUME NEW f \in QueryForward, UnRegisterQueryFile(f) PROVE A
    <3>1. answer \in AnswerType
      BY <2>1 DEF QueryInv, QueryTypeOK, AnswerType
    <3>2. answer'.uid = answer.uid /\ answer'.running = answer.running
      BY <2>6, <3>1 DEF UnRegisterQueryFile, AnswerType
    <3>. QED
      BY <3>2 DEF Answering, InQueryCallback
  <2>7. ASSUME NEW id \in QueryId, FireCallback(id) PROVE A
    BY <2>7 DEF FireCallback, Answering, InQueryCallback
  <2>8. CASE QueryCallbackReturns \/ PassOtherQuery
    <3>1. Answering /\ ~AtEndOfQueries /\ answer' = NextQuery(answer)
      BY <2>1, <2>8, CallbackRuns
      DEF QueryCallbackReturns, InQueryCallback, PassOtherQuery, ReadsOn, QueryNatives,
          AtEndOfQueries
    <3>2. answer'.uid = answer.uid /\ ~answer'.running
      BY <2>1, <3>1, NextQueryFacts
    <3>. QED
      BY <3>2 DEF Answering, InQueryCallback
  <2>9. CASE RunQueryCallback
    <3>1. ~delivered /\ forwardOf[handler[AtQuery].amx] = answer.uid
      BY <2>1, <2>9, RunFacts
    <3>2. answer \in AnswerType /\ answer' = [answer EXCEPT !.running = TRUE]
      BY <2>1, <2>9 DEF QueryInv, QueryTypeOK, AnswerType, RunQueryCallback
    <3>3. answer'.uid = answer.uid
      BY <3>2 DEF AnswerType
    <3>. QED
      BY <3>1, <3>3 DEF Answering
  <2>10. CASE AnswerDelivered
    <3>1. /\ Answering /\ ~answer.running /\ answer.rest = <<>> /\ answer' = NoAnswer
          /\ asked' = asked
      BY <2>10 DEF AnswerDelivered, ReadsOn, AtEndOfQueries
    <3>2. ASSUME ~delivered PROVE answer.uid \notin asked
      <4>1. Undelivered(answer, queries, handler)
        BY <2>1, <3>1, <3>2 DEF QueryInv, AnswerOK, Answering
      <4>2. /\ Len(queries) \in Nat /\ DOMAIN queries = 1 .. Len(queries)
            /\ answer.pos \in Nat /\ Len(answer.rest) = 0
        BY <2>1, <3>1 DEF QueryInv, ListOK, QueryTypeOK
      <4>3. answer.pos = Len(queries) + 1
        BY <4>1, <4>2 DEF Undelivered
      <4>4. \A k \in DOMAIN queries : k < answer.pos
        BY <4>2, <4>3
      <4>5. \A k \in DOMAIN queries : handler[queries[k]].uid # answer.uid
        BY <4>1, <4>4 DEF Undelivered
      <4>. QED
        BY <2>1, <4>5 DEF QueryInv, RecordsOK, In
    <3>. QED
      BY <3>1, <3>2 DEF InQueryCallback, Answering, NoAnswer
  <2>. QED
    BY <2>2, <2>3, <2>4, <2>5, <2>6, <2>7, <2>8, <2>9, <2>10 DEF QueryStep, QueryLoop
<1>. QED
  BY <1>1, Invariance, PTL DEF ServerSpec, AnswersReachTheirQuery
=============================================================================
