----------------------------- MODULE PartsProofs -----------------------------
(***************************************************************************)
(* What holds of the parts that share no state with each other: the rings  *)
(* of temporary values, the data of messages, the wrappers of hooked       *)
(* calls, the natives for members, those for models, and info strings.     *)
(***************************************************************************)
EXTENDS TempRings, MessageData, Wrappers, Members, Models, Info,
        SequenceTheorems, FiniteSetTheorems, WellFoundedInduction, TLAPS

-----------------------------------------------------------------------------
(* Rings: a value lives for a round, whatever the size of the ring and     *)
(* however many calls take slots.                                          *)

\* Where the n-th slot before the slot c is, for n below RingSize.
Back(c, n) == IF c >= n THEN c - n ELSE c - n + RingSize

\* For IntactForARound to be inductive the place of each value must be known:
\* it is as far behind the current slot as slots were taken since.
Placed(h) ==
    IF since[h] < RingSize THEN slot[h] = Back(current, since[h]) /\ data[slot[h]] = h
                           ELSE data[slot[h]] # h

RingInv == RingTypeOK /\ \A h \in Holder : Holding(h) => Placed(h)

-----------------------------------------------------------------------------

\* Counting around a ring of m slots.
LEMMA AroundTheRing ==
    ASSUME NEW m \in Nat \ {0}, NEW x \in 0 .. (m - 1)
    PROVE  (x + 1) % m = IF x + 1 = m THEN 0 ELSE x + 1
<1>1. CASE x + 1 = m
  <2>1. m % m = 0
    OBVIOUS
  <2>. QED
    BY <1>1, <2>1
<1>2. CASE x + 1 # m
  <2>1. x + 1 \in 0 .. (m - 1)
    BY <1>2
  <2>. QED
    BY <1>2, <2>1
<1>. QED
  BY <1>1, <1>2

\* The next slot follows the current one, around the ring.
LEMMA NextSlotFollows ==
    ASSUME RingTypeOK
    PROVE  /\ NextSlot \in Slots
           /\ NextSlot = IF current + 1 = RingSize THEN 0 ELSE current + 1
<1>1. RingSize \in Nat \ {0} /\ current \in 0 .. (RingSize - 1)
  BY RingAssumption DEF RingTypeOK, Slots
<1>2. (current + 1) % RingSize = IF current + 1 = RingSize THEN 0 ELSE current + 1
  BY <1>1, AroundTheRing
<1>. QED
  BY <1>1, <1>2 DEF NextSlot, Slots

\* At first no call holds a value.
LEMMA RingInvInit == RingInit => RingInv
BY RingAssumption DEF RingInit, RingInv, RingTypeOK, Slots, Holding, NoSlot

\* Another value is stored: it is the current one, and all others are one slot
\* further behind; the one that was RingSize - 1 behind is where it goes.
LEMMA SetTempReturnKeeps ==
    ASSUME RingInv, NEW h \in Holder, SetTempReturn(h)
    PROVE  RingInv'
<1>1. /\ RingSize \in Nat \ {0} /\ h # NoHolder /\ RingTypeOK
      /\ current \in 0 .. (RingSize - 1)
  BY RingAssumption DEF RingInv, RingTypeOK, Slots
<1>2. /\ NextSlot \in Slots
      /\ NextSlot = IF current + 1 = RingSize THEN 0 ELSE current + 1
  BY <1>1, NextSlotFollows
<1>3. /\ current' = NextSlot
      /\ data' = [data EXCEPT ![NextSlot] = h]
      /\ slot' = [slot EXCEPT ![h] = NextSlot]
      /\ since' = [g \in Holder |-> IF g = h \/ ~Holding(g) THEN 0 ELSE since[g] + 1]
  BY DEF SetTempReturn
<1>. HIDE DEF NextSlot
<1>4. RingTypeOK'
  BY <1>1, <1>2, <1>3 DEF RingTypeOK, Slots
<1>5. ASSUME NEW g \in Holder, Holding(g)'
      PROVE  Placed(g)'
  <2>1. CASE g = h
    <3>1. since'[g] = 0 /\ slot'[g] = NextSlot /\ data'[NextSlot] = h
      BY <1>1, <1>2, <1>3, <2>1 DEF RingTypeOK
    <3>. QED
      BY <1>1, <1>2, <1>3, <2>1, <3>1 DEF Placed, Back, Slots
  <2>2. CASE g # h
    <3>1. slot'[g] = slot[g] /\ Holding(g)
      BY <1>1, <1>3, <1>5, <2>2 DEF RingTypeOK, Holding
    <3>2. /\ since[g] \in Nat /\ since'[g] = since[g] + 1
          /\ slot[g] \in Slots
          /\ data'[slot[g]] = IF slot[g] = NextSlot THEN h ELSE data[slot[g]]
      BY <1>1, <1>3, <2>2, <3>1 DEF RingTypeOK, Holding
    <3>3. Placed(g)
      BY <3>1 DEF RingInv
    <3>4. CASE since[g] + 1 < RingSize
      <4>1. slot[g] = Back(current, since[g]) /\ data[slot[g]] = g
        BY <1>1, <3>2, <3>3, <3>4 DEF Placed
      <4>2. slot[g] = Back(NextSlot, since[g] + 1) /\ slot[g] # NextSlot
        BY <1>1, <1>2, <1>3, <3>2, <3>4, <4>1 DEF Back
      <4>. QED
        BY <1>1, <1>2, <1>3, <3>1, <3>2, <3>4, <4>1, <4>2 DEF Placed, Back, Slots
    <3>5. CASE since[g] + 1 = RingSize
      <4>1. slot[g] = Back(current, since[g])
        BY <1>1, <3>2, <3>3, <3>5 DEF Placed
      <4>2. slot[g] = NextSlot
        BY <1>1, <1>2, <3>2, <3>5, <4>1 DEF Back
      <4>. QED
        BY <1>1, <2>2, <3>1, <3>2, <3>5, <4>2 DEF Placed
    <3>6. CASE since[g] >= RingSize
      <4>1. data[slot[g]] # g
        BY <1>1, <3>2, <3>3, <3>6 DEF Placed
      <4>. QED
        BY <1>1, <2>2, <3>1, <3>2, <3>6, <4>1 DEF Placed
    <3>. QED
      BY <1>1, <3>2, <3>4, <3>5, <3>6
  <2>. QED
    BY <2>1, <2>2
<1>. QED
  BY <1>4, <1>5 DEF RingInv

\* A call that returns leaves the values of the others where they are.
LEMMA HolderReturnsKeeps ==
    ASSUME RingInv, NEW h \in Holder, HolderReturns(h)
    PROVE  RingInv'
<1>1. RingTypeOK'
  BY DEF RingInv, RingTypeOK, HolderReturns
<1>2. ASSUME NEW g \in Holder, Holding(g)'
      PROVE  Placed(g)'
  <2>1. g # h
    BY <1>2 DEF RingInv, RingTypeOK, HolderReturns, Holding
  <2>2. Holding(g) /\ slot'[g] = slot[g] /\ since'[g] = since[g]
    BY <1>2, <2>1 DEF RingInv, RingTypeOK, HolderReturns, Holding
  <2>3. Placed(g)
    BY <2>2 DEF RingInv
  <2>. QED
    BY <2>2, <2>3 DEF Placed, Back, HolderReturns
<1>. QED
  BY <1>1, <1>2 DEF RingInv

\* The inductive invariant.
LEMMA RingInvariance == RingSpec => []RingInv
<1>1. RingInv /\ [RingNext]_ringVars => RingInv'
  <2>. SUFFICES ASSUME RingInv, [RingNext]_ringVars PROVE RingInv'
    OBVIOUS
  <2>1. CASE \E h \in Holder : SetTempReturn(h)
    BY <2>1, SetTempReturnKeeps
  <2>2. CASE \E h \in Holder : HolderReturns(h)
    BY <2>2, HolderReturnsKeeps
  <2>3. CASE UNCHANGED ringVars
    BY <2>3 DEF RingInv, RingTypeOK, Placed, Back, Holding, ringVars
  <2>. QED
    BY <2>1, <2>2, <2>3 DEF RingNext
<1>. QED
  BY RingInvInit, <1>1, PTL DEF RingSpec

\* A value that a callback has returned is its call's until exactly RingSize
\* others have been stored, for rings of every size, any number of calls and
\* any number of values (CTempAnyData::Alloc, SetHookChainReturn).
THEOREM ValuesLiveForARound == RingSpec => []IntactForARound
<1>1. RingInv => IntactForARound
  BY DEF RingInv, Placed, IntactForARound
<1>. QED
  BY RingInvariance, <1>1, PTL

-----------------------------------------------------------------------------
(* Parts of a message *)

\* What each part holds: what it was sent with, or what it was set to.
PartOK(p) ==
    \/ put[p] = <<>> /\ message[p] = original[p]
    \/ \E v \in Passable(p) : put[p] = <<v>> /\ message[p] = StoredPart(p, v)

MessageInv ==
    /\ message = [p \in MessagePart |-> message[p]]
    /\ put = [p \in MessagePart |-> put[p]]
    /\ original["Edict"] \in {NULL, g_pEdicts + 1}
    /\ \A p \in MessagePart : PartOK(p)

LEMMA MessageStarts == MessageInit => MessageInv
<1> SUFFICES ASSUME MessageInit PROVE MessageInv
  OBVIOUS
<1>1. PICK ed \in {NULL, g_pEdicts + 1} : message = Sent(ed)
  BY DEF MessageInit
<1>2. original = message /\ put = [p \in MessagePart |-> <<>>]
  BY DEF MessageInit
<1>3. "Edict" \in MessagePart /\ message["Edict"] = ed
  BY <1>1, MessageAssumption DEF MessagePart, Sent, IsText, MessageArgument
<1>. QED
  BY <1>1, <1>2, <1>3 DEF MessageInv, PartOK, Sent

LEMMA MessageKeepsInv ==
    MessageInv /\ [MessageNext]_messageVars => MessageInv'
<1> SUFFICES ASSUME MessageInv, [MessageNext]_messageVars PROVE MessageInv'
  OBVIOUS
<1>1. ASSUME NEW p \in MessagePart, NEW v \in Passable(p), SetMessageData(p, v)
      PROVE  MessageInv'
  <2>1. /\ message' = [message EXCEPT ![p] = StoredPart(p, v)]
        /\ put' = [put EXCEPT ![p] = <<v>>] /\ original' = original
    BY <1>1 DEF SetMessageData
  <2>2. \A q \in MessagePart : PartOK(q)'
    BY <1>1, <2>1 DEF MessageInv, PartOK
  <2>. QED
    BY <2>1, <2>2 DEF MessageInv
<1>2. ASSUME NEW ps, ResetParts(ps) PROVE MessageInv'
  BY <1>2 DEF ResetParts, MessageInv, PartOK
<1>3. ASSUME NEW id, NEW v, SetMessageBlock(id, v) PROVE MessageInv'
  BY <1>3 DEF SetMessageBlock, MessageInv, PartOK
<1>4. ASSUME UNCHANGED messageVars PROVE MessageInv'
  BY <1>4 DEF messageVars, MessageInv, PartOK
<1>. QED
  BY <1>1, <1>2, <1>3, <1>4 DEF MessageNext, ResetModifiedMessageData

LEMMA StoredReadsBack ==
    ASSUME NEW p \in MessagePart, NEW v \in Passable(p), message[p] = StoredPart(p, v)
    PROVE  /\ p = "Edict" => GetMessageData(p) = IF v < 0 THEN 0 ELSE v
           /\ p = "Dest" /\ v \in 0 .. 255 => GetMessageData(p) = v
           /\ IsText(p) /\ Len(v) < TextSize => GetMessageData(p) = v
           /\ p \notin {"Edict", "Dest"} /\ ~IsText(p) => GetMessageData(p) = v
<1>5. IsText(p) => p \notin {"Dest", "Edict"}
  BY MessageAssumption DEF IsText, MessageArgument
<1>1. CASE p = "Edict"
  <2>1. v \in Int /\ StoredPart(p, v) = EdictOrNone(v)
    BY <1>1, MessageAssumption DEF Passable, IsText, MessageArgument, StoredPart
  <2>2. GetMessageData(p) = IF v < 0 THEN 0 ELSE v
    BY <1>1, <2>1 DEF GetMessageData, ReadPart, EdictOrNone, IndexOr, IndexOfEdict, NULL, g_pEdicts
  <2>. QED
    BY <1>1, <1>5, <2>2
<1>2. CASE p = "Dest"
  <2>1. v \in Int /\ StoredPart(p, v) = v % 256
    BY <1>2, MessageAssumption DEF Passable, IsText, MessageArgument, StoredPart, ByteOf
  <2>2. v \in 0 .. 255 => GetMessageData(p) = v
    BY <1>2, <2>1 DEF GetMessageData, ReadPart
  <2>. QED
    BY <1>2, <1>5, <2>2
<1>3. CASE IsText(p)
  <2>1. p \notin {"Dest", "Edict"} /\ v \in Seq(STRING)
    BY <1>3, MessageAssumption DEF Passable, IsText, MessageArgument
  <2>2. StoredPart(p, v) = FirstLetters(v, TextSize - 1)
    BY <1>3, <2>1 DEF StoredPart
  <2>3. Len(v) < TextSize => Len(v) <= TextSize - 1
    BY <2>1, MessageAssumption
  <2>4. Len(v) < TextSize => GetMessageData(p) = v
    BY <2>1, <2>2, <2>3 DEF GetMessageData, ReadPart, FirstLetters
  <2>. QED
    BY <1>3, <2>1, <2>4
<1>4. CASE p \notin {"Dest", "Edict"} /\ ~IsText(p)
  BY <1>4 DEF StoredPart, GetMessageData, ReadPart
<1>. QED
  BY <1>1, <1>2, <1>3, <1>4, <1>5

\* What plugins set a part of a message to is what they read, and the original
\* comes back, whatever they set, read and reset, for every list of arguments.
THEOREM MessageReadsBack == MessageSpec => []SetMessageReadsBack
<1>1. ASSUME MessageInv PROVE SetMessageReadsBack
  <2> SUFFICES ASSUME NEW p \in MessagePart
               PROVE
        /\ put[p] # <<>> => LET v == put[p][1] IN
              /\ p = "Edict" => GetMessageData(p) = IF v < 0 THEN 0 ELSE v
              /\ p = "Dest" /\ v \in 0 .. 255 => GetMessageData(p) = v
              /\ IsText(p) /\ Len(v) < TextSize => GetMessageData(p) = v
              /\ p \notin {"Edict", "Dest"} /\ ~IsText(p) => GetMessageData(p) = v
        /\ p # "Index" =>
              LET sent == GetMessageOrigData(p)
              IN  (IF p = "Edict" /\ sent = -1 THEN 0 ELSE sent) = ReadPart(p, original[p], 0)
        /\ ~IsMessageDataModified({p}) => message[p] = original[p]
    BY DEF SetMessageReadsBack
  <2>1. ASSUME put[p] # <<>>
        PROVE  \E v \in Passable(p) : put[p][1] = v /\ message[p] = StoredPart(p, v)
    BY <1>1, <2>1 DEF MessageInv, PartOK
  <2>2. put[p] = <<>> => message[p] = original[p]
    BY <1>1 DEF MessageInv, PartOK
  <2>3. ASSUME p # "Index"
        PROVE  (IF p = "Edict" /\ GetMessageOrigData(p) = -1 THEN 0 ELSE GetMessageOrigData(p))
                  = ReadPart(p, original[p], 0)
    BY <1>1, <2>3 DEF MessageInv, GetMessageOrigData, OriginalOf, ReadPart, IndexOr,
       IndexOfEdict, NULL, g_pEdicts, AMX_NULLENT
  <2>4. ~IsMessageDataModified({p}) => put[p] = <<>>
    BY DEF IsMessageDataModified
  <2>5. ASSUME put[p] # <<>>
        PROVE  LET v == put[p][1] IN
              /\ p = "Edict" => GetMessageData(p) = IF v < 0 THEN 0 ELSE v
              /\ p = "Dest" /\ v \in 0 .. 255 => GetMessageData(p) = v
              /\ IsText(p) /\ Len(v) < TextSize => GetMessageData(p) = v
              /\ p \notin {"Edict", "Dest"} /\ ~IsText(p) => GetMessageData(p) = v
    <3>1. PICK v \in Passable(p) : put[p][1] = v /\ message[p] = StoredPart(p, v)
      BY <2>1, <2>5
    <3>2. put[p][1] = v
      BY <3>1
    <3>. QED
      BY <3>1, <3>2, StoredReadsBack
  <2>6. ~IsMessageDataModified({p}) => message[p] = original[p]
    BY <2>2, <2>4
  <2>. QED
    BY <2>3, <2>5, <2>6
<1>. QED
  BY <1>1, MessageStarts, MessageKeepsInv, PTL DEF MessageSpec

-----------------------------------------------------------------------------
(* Wrappers: the shape of the functions *)

Objects == {"object", "object?"}
Pevs == {"pev", "pev?"}
SomeClients == {"client", "client?"}
Kept == {"kept", "kept client?"}
Lent == {"real&", "trace"}
Route == Objects \cup Pevs \cup {"edict", "client of it"} \cup SomeClients \cup Kept \cup AsItIs

\* A client of a command comes after the command's source.
RoutesOK(a) ==
    \A i \in DOMAIN a :
       /\ a[i] \in Route
       /\ a[i] = "client of it" => i - 1 \in DOMAIN a /\ a[i - 1] = "source"

ReturnRoute == {"value", "bool", "short", "real", "object", "edict"}
ShapeOK(w) == RoutesOK(w.args) /\ w.ret \in ReturnRoute

LEMMA CallsShape ==
    ASSUME NEW A, \A a \in A : RoutesOK(a)
    PROVE  \A w \in Calls(A) : ShapeOK(w)
BY DEF Calls, ShapeOK, ReturnRoute

LEMMA ReturningShape ==
    ASSUME NEW A, \A a \in A : RoutesOK(a), NEW r \in ReturnRoute
    PROVE  \A w \in Returning(r, A) : ShapeOK(w)
BY DEF Returning, ShapeOK

\* Lists of routes without a command's client.
Simple == Route \ {"client of it"}

LEMMA ListsOfRoutes ==
    /\ RoutesOK(<<>>) /\ RoutesOK(<<"source", "client of it">>)
    /\ \A a \in Simple : RoutesOK(<<a>>)
    /\ \A a, b \in Simple : RoutesOK(<<a, b>>)
    /\ \A a, b, c \in Simple : RoutesOK(<<a, b, c>>)
    /\ \A a, b, c, d \in Simple : RoutesOK(<<a, b, c, d>>)
    /\ \A a, b, c, d, e \in Simple : RoutesOK(<<a, b, c, d, e>>)
<1>1. ASSUME NEW n \in Nat, NEW s, DOMAIN s = 1 .. n, \A i \in 1 .. n : s[i] \in Simple
      PROVE  RoutesOK(s)
  BY <1>1 DEF RoutesOK, Simple
<1>2. RoutesOK(<<>>) /\ RoutesOK(<<"source", "client of it">>)
  <2> DEFINE none == <<>>
             command == <<"source", "client of it">>
  <2>1. DOMAIN none = {}
    OBVIOUS
  <2>2. DOMAIN command = 1 .. 2 /\ command[1] = "source" /\ command[2] = "client of it"
    OBVIOUS
  <2>3. {"source", "client of it"} \subseteq Route /\ "source" # "client of it"
    BY DEF Route, AsItIs
  <2> HIDE DEF none, command
  <2>4. RoutesOK(none)
    BY <2>1 DEF RoutesOK
  <2>5. \A i \in 1 .. 2 : i = 1 \/ i = 2
    OBVIOUS
  <2>6. ASSUME NEW i \in 1 .. 2 PROVE command[i] \in Route
    <3>1. CASE i = 1
      BY <2>2, <2>3, <3>1
    <3>2. CASE i = 2
      BY <2>2, <2>3, <3>2
    <3>. QED
      BY <2>5, <3>1, <3>2
  <2>7. ASSUME NEW i \in 1 .. 2, command[i] = "client of it"
        PROVE  i - 1 \in 1 .. 2 /\ command[i - 1] = "source"
    <3>1. i = 2
      BY <2>2, <2>3, <2>5, <2>7
    <3>2. i - 1 = 1 /\ i - 1 \in 1 .. 2
      BY <3>1
    <3>. QED
      BY <2>2, <3>2
  <2>8. RoutesOK(command)
    BY <2>2, <2>6, <2>7 DEF RoutesOK
  <2>. QED
    BY <2>4, <2>8 DEF none, command
<1>3. \A a \in Simple : RoutesOK(<<a>>)
  <2> TAKE a \in Simple
  <2> DEFINE s == <<a>>
  <2>1. DOMAIN s = 1 .. 1 /\ s[1] = a
    OBVIOUS
  <2>2. \A i \in 1 .. 1 : i = 1
    OBVIOUS
  <2> HIDE DEF s
  <2>3. \A i \in 1 .. 1 : s[i] \in Simple
    BY <2>1, <2>2
  <2>4. RoutesOK(s)
    BY <1>1, <2>1, <2>3
  <2>. QED
    BY <2>4 DEF s
<1>4. \A a, b \in Simple : RoutesOK(<<a, b>>)
  <2> TAKE a, b \in Simple
  <2> DEFINE s == <<a, b>>
  <2>1. DOMAIN s = 1 .. 2 /\ s[1] = a /\ s[2] = b
    OBVIOUS
  <2>2. \A i \in 1 .. 2 : i = 1 \/ i = 2
    OBVIOUS
  <2> HIDE DEF s
  <2>3. \A i \in 1 .. 2 : s[i] \in Simple
    BY <2>1, <2>2
  <2>4. RoutesOK(s)
    BY <1>1, <2>1, <2>3
  <2>. QED
    BY <2>4 DEF s
<1>5. \A a, b, c \in Simple : RoutesOK(<<a, b, c>>)
  <2> TAKE a, b, c \in Simple
  <2> DEFINE s == <<a, b, c>>
  <2>1. DOMAIN s = 1 .. 3 /\ s[1] = a /\ s[2] = b /\ s[3] = c
    OBVIOUS
  <2>2. \A i \in 1 .. 3 : i = 1 \/ i = 2 \/ i = 3
    OBVIOUS
  <2> HIDE DEF s
  <2>3. \A i \in 1 .. 3 : s[i] \in Simple
    BY <2>1, <2>2
  <2>4. RoutesOK(s)
    BY <1>1, <2>1, <2>3
  <2>. QED
    BY <2>4 DEF s
<1>6. \A a, b, c, d \in Simple : RoutesOK(<<a, b, c, d>>)
  <2> TAKE a, b, c, d \in Simple
  <2> DEFINE s == <<a, b, c, d>>
  <2>1. DOMAIN s = 1 .. 4 /\ s[1] = a /\ s[2] = b /\ s[3] = c /\ s[4] = d
    OBVIOUS
  <2>2. \A i \in 1 .. 4 : i = 1 \/ i = 2 \/ i = 3 \/ i = 4
    OBVIOUS
  <2> HIDE DEF s
  <2>3. \A i \in 1 .. 4 : s[i] \in Simple
    BY <2>1, <2>2
  <2>4. RoutesOK(s)
    BY <1>1, <2>1, <2>3
  <2>. QED
    BY <2>4 DEF s
<1>7. \A a, b, c, d, e \in Simple : RoutesOK(<<a, b, c, d, e>>)
  <2> TAKE a, b, c, d, e \in Simple
  <2> DEFINE s == <<a, b, c, d, e>>
  <2>1. DOMAIN s = 1 .. 5 /\ s[1] = a /\ s[2] = b /\ s[3] = c /\ s[4] = d /\ s[5] = e
    OBVIOUS
  <2>2. \A i \in 1 .. 5 : i = 1 \/ i = 2 \/ i = 3 \/ i = 4 \/ i = 5
    OBVIOUS
  <2> HIDE DEF s
  <2>3. \A i \in 1 .. 5 : s[i] \in Simple
    BY <2>1, <2>2
  <2>4. RoutesOK(s)
    BY <1>1, <2>1, <2>3
  <2>. QED
    BY <2>4 DEF s
<1>. QED
  BY <1>1, <1>2, <1>3, <1>4, <1>5, <1>6, <1>7

LEMMA SimpleRoutes ==
    /\ "object" \in Simple /\ "object?" \in Simple /\ "pev" \in Simple /\ "pev?" \in Simple
    /\ "edict" \in Simple /\ "client" \in Simple /\ "client?" \in Simple
    /\ "kept" \in Simple /\ "kept client?" \in Simple
    /\ "vector" \in Simple /\ "lost vector" \in Simple
    /\ "source" \in Simple /\ "value" \in Simple /\ Plain \subseteq Simple
BY DEF Simple, Route, Objects, Pevs, SomeClients, Kept, AsItIs, Plain

LEMMA Lists ==
    /\ RoutesOK(<<>>)
    /\ RoutesOK(<<"client">>) /\ RoutesOK(<<"value">>) /\ RoutesOK(<<"edict">>)
    /\ RoutesOK(<<"kept client?">>) /\ RoutesOK(<<"object">>)
    /\ RoutesOK(<<"kept">>) /\ RoutesOK(<<"pev">>)
    /\ RoutesOK(<<"client", "value">>) /\ RoutesOK(<<"edict", "edict">>)
    /\ RoutesOK(<<"source", "client of it">>) /\ RoutesOK(<<"object", "object">>)
    /\ RoutesOK(<<"object", "value">>) /\ RoutesOK(<<"object", "lost vector">>)
    /\ RoutesOK(<<"pev?", "vector">>) /\ RoutesOK(<<"pev", "value">>)
    /\ RoutesOK(<<"value", "kept">>) /\ RoutesOK(<<"pev", "pev">>)
    /\ RoutesOK(<<"client", "value", "client?">>)
    /\ RoutesOK(<<"value", "edict", "value">>)
    /\ RoutesOK(<<"object", "pev", "value">>)
    /\ RoutesOK(<<"object", "object", "value">>)
    /\ RoutesOK(<<"object", "pev", "pev?">>)
    /\ RoutesOK(<<"vector", "pev", "edict">>)
    /\ RoutesOK(<<"pev", "vector", "value">>)
    /\ RoutesOK(<<"pev", "object", "value">>)
    /\ RoutesOK(<<"vector", "value", "kept">>)
    /\ RoutesOK(<<"value", "object", "object">>)
    /\ RoutesOK(<<"object", "pev", "pev", "value">>)
    /\ RoutesOK(<<"object", "object", "vector", "value">>)
    /\ RoutesOK(<<"client", "kept", "value", "kept">>)
    /\ RoutesOK(<<"object", "pev", "value", "vector", "value">>)
    /\ RoutesOK(<<"object", "pev", "pev", "value", "vector">>)
    /\ RoutesOK(<<"object", "pev", "pev", "vector", "value">>)
    /\ RoutesOK(<<"object", "value", "vector", "value", "pev">>)
    /\ RoutesOK(<<"object?", "object?", "value", "vector", "value">>)
    /\ RoutesOK(<<"object", "vector", "value", "pev", "value">>)
    /\ RoutesOK(<<"object?", "object", "object?", "pev?", "value">>)
<1>1. /\ RoutesOK(<<>>)
  BY ListsOfRoutes, SimpleRoutes, Zenon
<1>2. /\ RoutesOK(<<"client">>) /\ RoutesOK(<<"value">>) /\ RoutesOK(<<"edict">>)
      /\ RoutesOK(<<"kept client?">>) /\ RoutesOK(<<"object">>)
      /\ RoutesOK(<<"kept">>) /\ RoutesOK(<<"pev">>)
  BY ListsOfRoutes, SimpleRoutes, Zenon
<1>3. /\ RoutesOK(<<"client", "value">>) /\ RoutesOK(<<"edict", "edict">>)
      /\ RoutesOK(<<"source", "client of it">>) /\ RoutesOK(<<"object", "object">>)
      /\ RoutesOK(<<"object", "value">>) /\ RoutesOK(<<"object", "lost vector">>)
      /\ RoutesOK(<<"pev?", "vector">>) /\ RoutesOK(<<"pev", "value">>)
      /\ RoutesOK(<<"value", "kept">>) /\ RoutesOK(<<"pev", "pev">>)
  BY ListsOfRoutes, SimpleRoutes, Zenon
<1>4. /\ RoutesOK(<<"client", "value", "client?">>)
      /\ RoutesOK(<<"value", "edict", "value">>)
      /\ RoutesOK(<<"object", "pev", "value">>)
      /\ RoutesOK(<<"object", "object", "value">>)
      /\ RoutesOK(<<"object", "pev", "pev?">>)
      /\ RoutesOK(<<"vector", "pev", "edict">>)
      /\ RoutesOK(<<"pev", "vector", "value">>)
      /\ RoutesOK(<<"pev", "object", "value">>)
      /\ RoutesOK(<<"vector", "value", "kept">>)
      /\ RoutesOK(<<"value", "object", "object">>)
  BY ListsOfRoutes, SimpleRoutes, Zenon
<1>5. /\ RoutesOK(<<"object", "pev", "pev", "value">>)
      /\ RoutesOK(<<"object", "object", "vector", "value">>)
      /\ RoutesOK(<<"client", "kept", "value", "kept">>)
  BY ListsOfRoutes, SimpleRoutes, Zenon
<1>6. /\ RoutesOK(<<"object", "pev", "value", "vector", "value">>)
      /\ RoutesOK(<<"object", "pev", "pev", "value", "vector">>)
      /\ RoutesOK(<<"object", "pev", "pev", "vector", "value">>)
      /\ RoutesOK(<<"object", "value", "vector", "value", "pev">>)
      /\ RoutesOK(<<"object?", "object?", "value", "vector", "value">>)
      /\ RoutesOK(<<"object", "vector", "value", "pev", "value">>)
      /\ RoutesOK(<<"object?", "object", "object?", "pev?", "value">>)
  BY ListsOfRoutes, SimpleRoutes, Zenon
<1>. QED
  BY <1>1, <1>2, <1>3, <1>4, <1>5, <1>6, Zenon

LEMMA WrapperShape == \A w \in Wrapper : ShapeOK(w)
<1>1. \A w \in RehldsStart : ShapeOK(w)
  <2> DEFINE A == {<<>>, <<"client">>, <<"client", "value">>,
                  <<"client", "value", "client?">>, <<"value">>,
                  <<"value", "edict", "value">>}
  <2>1. \A a \in A : RoutesOK(a)
    BY Lists, Zenon
  <2>2. RehldsStart = Calls(A)
    BY DEF RehldsStart
  <2> HIDE DEF A
  <2>. QED
    BY <2>1, <2>2, CallsShape
<1>2. \A w \in RehldsEnd : ShapeOK(w)
  <2> DEFINE A == {<<"edict">>, <<"edict", "edict">>, <<"kept client?">>,
                  <<"value">>, <<"source", "client of it">>}
             B == {<<>>}
  <2>1. (\A a \in A : RoutesOK(a)) /\ (\A a \in B : RoutesOK(a))
    BY Lists, Zenon
  <2>2. RehldsEnd = Calls(A) \cup Returning("edict", B)
    BY DEF RehldsEnd
  <2> HIDE DEF A, B
  <2>. QED
    BY <2>1, <2>2, CallsShape, ReturningShape DEF ReturnRoute
<1>3. \A w \in PlayerSpawn : ShapeOK(w)
  <2> DEFINE A == {<<"object">>, <<"object", "object">>,
                  <<"object", "pev", "pev", "value">>,
                  <<"object", "pev", "value">>,
                  <<"object", "pev", "value", "vector", "value">>,
                  <<"object", "value">>}
  <2>1. \A a \in A : RoutesOK(a)
    BY Lists, Zenon
  <2>2. PlayerSpawn = Calls(A)
    BY DEF PlayerSpawn
  <2> HIDE DEF A
  <2>. QED
    BY <2>1, <2>2, CallsShape
<1>4. \A w \in PlayerJump : ShapeOK(w)
  <2> DEFINE A == {<<"object">>, <<"object", "value">>}
             B == {<<"object", "value">>}
  <2>1. (\A a \in A : RoutesOK(a)) /\ (\A a \in B : RoutesOK(a))
    BY Lists, Zenon
  <2>2. PlayerJump = Calls(A) \cup Returning("object", B)
    BY DEF PlayerJump
  <2> HIDE DEF A, B
  <2>. QED
    BY <2>1, <2>2, CallsShape, ReturningShape DEF ReturnRoute
<1>5. \A w \in PlayerDrop : ShapeOK(w)
  <2> DEFINE A == {<<"object">>, <<"object", "value">>,
                  <<"object", "lost vector">>}
             B == {<<"object", "value">>}
  <2>1. (\A a \in A : RoutesOK(a)) /\ (\A a \in B : RoutesOK(a))
    BY Lists, Zenon
  <2>2. PlayerDrop = Calls(A) \cup Returning("object", B)
    BY DEF PlayerDrop
  <2> HIDE DEF A, B
  <2>. QED
    BY <2>1, <2>2, CallsShape, ReturningShape DEF ReturnRoute
<1>6. \A w \in MenusAndFlashes : ShapeOK(w)
  <2> DEFINE A == {<<"kept">>, <<"object">>, <<"object", "object">>,
                  <<"object", "object", "value">>,
                  <<"object", "pev", "pev", "value", "vector">>,
                  <<"object", "pev", "pev", "vector", "value">>,
                  <<"object", "value">>, <<"value">>}
             B == {<<"object", "value">>}
  <2>1. (\A a \in A : RoutesOK(a)) /\ (\A a \in B : RoutesOK(a))
    BY Lists, Zenon
  <2>2. MenusAndFlashes = Calls(A) \cup Returning("object", B)
    BY DEF MenusAndFlashes
  <2> HIDE DEF A, B
  <2>. QED
    BY <2>1, <2>2, CallsShape, ReturningShape DEF ReturnRoute
<1>7. \A w \in GameRules : ShapeOK(w)
  <2> DEFINE A == {<<>>, <<"object">>, <<"object", "object">>,
                  <<"object", "pev", "pev?">>, <<"object", "value">>}
             B == {<<"object">>}
  <2>1. (\A a \in A : RoutesOK(a)) /\ (\A a \in B : RoutesOK(a))
    BY Lists, Zenon
  <2>2. GameRules = Calls(A) \cup Returning("edict", B)
    BY DEF GameRules
  <2> HIDE DEF A, B
  <2>. QED
    BY <2>1, <2>2, CallsShape, ReturningShape DEF ReturnRoute
<1>8. \A w \in Rounds : ShapeOK(w)
  <2> DEFINE A == {<<>>, <<"object">>, <<"object", "object">>,
                  <<"object", "value">>}
             B == {<<>>, <<"object", "object", "vector", "value">>}
  <2>1. (\A a \in A : RoutesOK(a)) /\ (\A a \in B : RoutesOK(a))
    BY Lists, Zenon
  <2>2. Rounds = Calls(A) \cup Returning("object", B)
    BY DEF Rounds
  <2> HIDE DEF A, B
  <2>. QED
    BY <2>1, <2>2, CallsShape, ReturningShape DEF ReturnRoute
<1>9. \A w \in Grenades : ShapeOK(w)
  <2> DEFINE A == {<<"object">>, <<"object", "object">>,
                  <<"object", "object", "value">>, <<"object", "value">>,
                  <<"vector", "pev", "edict">>}
             B == {<<"pev", "vector", "value">>, <<"pev?", "vector">>}
  <2>1. (\A a \in A : RoutesOK(a)) /\ (\A a \in B : RoutesOK(a))
    BY Lists, Zenon
  <2>2. Grenades = Calls(A) \cup Returning("object", B)
    BY DEF Grenades
  <2> HIDE DEF A, B
  <2>. QED
    BY <2>1, <2>2, CallsShape, ReturningShape DEF ReturnRoute
<1>10. \A w \in Weapons : ShapeOK(w)
  <2> DEFINE A == {<<"object">>, <<"object", "object">>, <<"object", "value">>,
                  <<"object", "value", "vector", "value", "pev">>,
                  <<"pev", "value">>}
             B == {<<"pev">>,
                  <<"object?", "object?", "value", "vector", "value">>}
  <2>1. (\A a \in A : RoutesOK(a)) /\ (\A a \in B : RoutesOK(a))
    BY Lists, Zenon
  <2>2. Weapons = Calls(A) \cup Returning("object", B)
    BY DEF Weapons
  <2> HIDE DEF A, B
  <2>. QED
    BY <2>1, <2>2, CallsShape, ReturningShape DEF ReturnRoute
<1>11. \A w \in Bullets : ShapeOK(w)
  <2> DEFINE A == {<<"kept">>, <<"object">>, <<"object", "value">>,
                  <<"value", "kept">>,
                  <<"object", "value", "vector", "value", "pev">>,
                  <<"object", "vector", "value", "pev", "value">>}
  <2>1. \A a \in A : RoutesOK(a)
    BY Lists, Zenon
  <2>2. Bullets = Calls(A)
    BY DEF Bullets
  <2> HIDE DEF A
  <2>. QED
    BY <2>1, <2>2, CallsShape
<1>12. \A w \in Movement : ShapeOK(w)
  <2> DEFINE A == {<<>>, <<"kept">>, <<"object", "object">>,
                  <<"object", "value">>, <<"pev", "object", "value">>,
                  <<"pev", "pev">>, <<"value">>, <<"value", "kept">>,
                  <<"vector", "value", "kept">>}
  <2>1. \A a \in A : RoutesOK(a)
    BY Lists, Zenon
  <2>2. Movement = Calls(A)
    BY DEF Movement
  <2> HIDE DEF A
  <2>. QED
    BY <2>1, <2>2, CallsShape
<1>13. \A w \in BotsAndMessages : ShapeOK(w)
  <2> DEFINE A == {<<"object">>, <<"object", "object", "value">>,
                  <<"object", "value">>, <<"value", "object", "object">>,
                  <<"object?", "object", "object?", "pev?", "value">>}
             B == {<<"object">>}
  <2>1. (\A a \in A : RoutesOK(a)) /\ (\A a \in B : RoutesOK(a))
    BY Lists, Zenon
  <2>2. BotsAndMessages = Calls(A) \cup Returning("edict", B)
    BY DEF BotsAndMessages
  <2> HIDE DEF A, B
  <2>. QED
    BY <2>1, <2>2, CallsShape, ReturningShape DEF ReturnRoute
<1>14. \A w \in RecheckerCalls : ShapeOK(w)
  <2> DEFINE A == {<<"client">>, <<"client", "kept", "value", "kept">>}
  <2>1. \A a \in A : RoutesOK(a)
    BY Lists, Zenon
  <2>2. RecheckerCalls = Calls(A)
    BY DEF RecheckerCalls
  <2> HIDE DEF A
  <2>. QED
    BY <2>1, <2>2, CallsShape
<1>15. \A w \in PlainTypes : ShapeOK(w)
  <2> DEFINE A == {<<route>> : route \in Plain}
             B == {<<>>}
  <2>1. (\A a \in A : RoutesOK(a)) /\ (\A a \in B : RoutesOK(a))
    BY ListsOfRoutes, SimpleRoutes, Zenon
  <2>2. PlainTypes = Calls(A) \cup UNION {Returning(ret, B) : ret \in {"bool", "short", "real"}}
    BY DEF PlainTypes
  <2> HIDE DEF A, B
  <2>. QED
    BY <2>1, <2>2, CallsShape, ReturningShape DEF ReturnRoute
<1>. QED
  BY <1>1, <1>2, <1>3, <1>4, <1>5, <1>6, <1>7, <1>8, <1>9, <1>10, <1>11, <1>12,
     <1>13, <1>14, <1>15, Zenon
  DEF Wrapper, RehldsFunctions, PlayerFunctions, RulesFunctions, EntityFunctionsOfGame

-----------------------------------------------------------------------------
(* Wrappers: the conversions *)

LEMMA Places == Apart \in Nat /\ Apart > 1
BY EntityAssumption DEF Apart

\* An object, an entvars_t and a client are what their indices name.
LEMMA ObjectBack ==
    /\ \A i \in Private :
          /\ PrivateData(i) # NULL /\ GetPrivate(i) = PrivateData(i)
          /\ IndexOfObject(PrivateData(i)) = i /\ IndexOfPDataAmx(PrivateData(i)) = i
    /\ \A c \in {AMX_NULLENT} \cup Entity : c \notin Private => GetPrivate(c) = NULL
    /\ IndexOfPDataAmx(NULL) = AMX_NULLENT /\ GetPrivate(AMX_NULLENT) = NULL
    /\ AMX_NULLENT \notin Private
<1>1. \A i \in Private : i \in Nat /\ PrivateData(i) = 1000 + i + 2 * Apart
  BY EntityAssumption DEF PrivateData, g_pEdicts, ObjectOffset
<1>2. \A i \in Private : IndexOfObject(1000 + i + 2 * Apart) = i
  BY <1>1, Places DEF IndexOfObject, IndexOfPev, IndexOfEdict, g_pEdicts, ObjectOffset, EntvarsOffset
<1>3. \A i \in Private : PrivateData(i) # NULL /\ GetPrivate(i) = PrivateData(i)
  BY <1>1, Places DEF NULL, GetPrivate
<1>4. \A c \in {AMX_NULLENT} \cup Entity : c \notin Private => GetPrivate(c) = NULL
  BY DEF GetPrivate, PrivateData
<1>. QED
  BY <1>1, <1>2, <1>3, <1>4, EntityAssumption DEF IndexOfPDataAmx, AMX_NULLENT

LEMMA PevBack ==
    /\ \A i \in Entity :
          PEV(i) # NULL /\ IndexOfPev(PEV(i)) = i /\ IndexOfPevAmx(PEV(i)) = i
    /\ PEV(AMX_NULLENT) = NULL /\ IndexOfPevAmx(NULL) = AMX_NULLENT
    /\ AMX_NULLENT \notin Entity
<1>1. \A i \in Entity : i \in Nat /\ PEV(i) = 1000 + i + Apart
  BY EntityAssumption DEF PEV, Entity, g_pEdicts, EntvarsOffset
<1>2. \A i \in Entity : IndexOfPev(1000 + i + Apart) = i
  BY <1>1, Places DEF IndexOfPev, IndexOfEdict, g_pEdicts, EntvarsOffset
<1>3. \A i \in Entity : PEV(i) # NULL
  BY <1>1, Places DEF NULL
<1>. QED
  BY <1>1, <1>2, <1>3 DEF IndexOfPevAmx, PEV, AMX_NULLENT

LEMMA EdictBack ==
    /\ \A i \in Entity : EdictByIndexAmx(i) # NULL /\ IndexOfEdict(EdictByIndexAmx(i)) = i
    /\ EdictByIndexAmx(AMX_NULLENT) = NULL /\ EdictByIndexAmx(IndexOfEdict(NULL)) = NULL
<1>1. ASSUME NEW i \in Entity PROVE i \in Nat /\ EdictByIndexAmx(i) = i + 1000
  <2>1. i \in Nat
    BY EntityAssumption DEF Entity
  <2>2. i > -1 /\ 1000 + i = i + 1000
    BY <2>1
  <2>. QED
    BY <2>1, <2>2 DEF EdictByIndexAmx, g_pEdicts, AMX_NULLENT
<1>. QED
  BY <1>1 DEF EdictByIndexAmx, IndexOfEdict, AMX_NULLENT, NULL, g_pEdicts

LEMMA ClientBack ==
    /\ \A i \in 1 .. MaxClients :
          /\ ClientByIndex(i) # NULL /\ IndexOfClient(ClientByIndex(i)) = i
    /\ ClientByIndex(0) = NULL /\ ClientByIndex(AMX_NULLENT) = NULL
    /\ \A i \in 0 .. MaxClients : i \in Nat /\ (i > 0 <=> i # 0) /\ (i > 0 <=> i \in 1 .. MaxClients)
<1>0. Clients \in Nat \ {0}
  BY Places DEF Clients, g_pEdicts
<1>1. ASSUME NEW i \in 1 .. MaxClients PROVE i \in Nat /\ ClientByIndex(i) = Clients + (i - 1)
  <2>1. i \in Nat /\ i > 0
    BY EntityAssumption
  <2>. QED
    BY <2>1 DEF ClientByIndex
<1>2. \A i \in 0 .. MaxClients : i \in Nat /\ (i > 0 <=> i # 0) /\ (i > 0 <=> i \in 1 .. MaxClients)
  BY EntityAssumption
<1>. QED
  BY <1>0, <1>1, <1>2 DEF ClientByIndex, IndexOfClient, AMX_NULLENT, NULL

\* What is passed comes out of the cell that it was put into.
LEMMA PassedBack ==
    ASSUME NEW r \in Route \ {"kept client?"}, NEW x \in Passed(r)
    PROVE  FromCell(r, ToCell(r, x)) = x
<1>1. CASE r \in Objects
  <2>1. (x = NULL /\ r = "object?") \/ \E i \in Private : x = PrivateData(i)
    BY <1>1 DEF Objects, Passed
  <2>2. CASE r = "object"
    BY <2>1, <2>2, ObjectBack DEF FromCell, ToCell
  <2>3. CASE r = "object?"
    BY <2>1, <2>3, ObjectBack DEF FromCell, ToCell
  <2>. QED
    BY <1>1, <2>2, <2>3 DEF Objects
<1>2. CASE r \in Pevs
  <2>1. (x = NULL /\ r = "pev?") \/ \E i \in Entity : x = PEV(i)
    BY <1>2 DEF Pevs, Passed
  <2>2. CASE r = "pev"
    BY <2>1, <2>2, PevBack DEF FromCell, ToCell
  <2>3. CASE r = "pev?"
    BY <2>1, <2>3, PevBack DEF FromCell, ToCell
  <2>. QED
    BY <1>2, <2>2, <2>3 DEF Pevs
<1>3. CASE r = "edict"
  <2>1. \E i \in Entity : x = EdictByIndexAmx(i)
    BY <1>3 DEF Passed
  <2>. QED
    BY <1>3, <2>1, EdictBack DEF FromCell, ToCell
<1>4. CASE r \in SomeClients \cup {"client of it"}
  <2>1. (x = NULL /\ r = "client?") \/ \E i \in 1 .. MaxClients : x = ClientByIndex(i)
    BY <1>4 DEF SomeClients, Passed
  <2>2. CASE r = "client"
    BY <2>1, <2>2, ClientBack DEF FromCell, ToCell
  <2>3. CASE r \in {"client?", "client of it"}
    BY <2>1, <2>3, ClientBack DEF FromCell, ToCell
  <2>. QED
    BY <1>4, <2>2, <2>3 DEF SomeClients
<1>5. CASE r \in AsItIs \cup {"kept"}
  BY <1>5 DEF AsItIs, Plain, FromCell, ToCell
<1>. QED
  BY <1>1, <1>2, <1>3, <1>4, <1>5 DEF Route, Kept

\* What a plugin names arrives, where it names something.
LEMMA ChangeArrives ==
    ASSUME NEW r \in Route \ (Kept \cup {"client of it", "bool", "short"}),
           NEW c \in Changes(r)
    PROVE  Held(r, c) = c /\ Known(r, FromCell(r, c), c)
<1>0. Held(r, c) = c
  BY DEF Held
<1>1. CASE r \in Objects
  <2>1. c \in {AMX_NULLENT} \cup Entity
    BY <1>1 DEF Objects, Changes, AsItIs, Plain
  <2>2. FromCell(r, c) = GetPrivate(c) /\ (Names(r, c) <=> c \in Private)
    BY <1>1 DEF Objects, FromCell, Names, AsItIs, Plain
  <2>3. c \in Private => ToCell(r, PrivateData(c)) = c
    BY <1>1, ObjectBack DEF Objects, ToCell
  <2>. QED
    BY <1>0, <2>1, <2>2, <2>3, ObjectBack DEF Known
<1>2. CASE r \in Pevs
  <2>1. c \in {AMX_NULLENT} \cup Entity
    BY <1>2 DEF Pevs, Changes, AsItIs, Plain
  <2>2. FromCell(r, c) = PEV(c) /\ (Names(r, c) <=> c # AMX_NULLENT)
    BY <1>2 DEF Pevs, FromCell, Names, AsItIs, Plain
  <2>3. c \in Entity => ToCell(r, PEV(c)) = c
    BY <1>2, PevBack DEF Pevs, ToCell
  <2>. QED
    BY <1>0, <2>1, <2>2, <2>3, PevBack DEF Known
<1>3. CASE r = "edict"
  <2>1. c \in {AMX_NULLENT} \cup Entity
    BY <1>3 DEF Changes, AsItIs, Plain
  <2>2. FromCell(r, c) = EdictByIndexAmx(c) /\ (Names(r, c) <=> c # AMX_NULLENT)
    BY <1>3 DEF FromCell, Names, AsItIs, Plain
  <2>3. c \in Entity => ToCell(r, EdictByIndexAmx(c)) = c
    BY <1>3, EdictBack DEF ToCell
  <2>. QED
    BY <1>0, <2>1, <2>2, <2>3, EdictBack DEF Known
<1>4. CASE r \in SomeClients
  <2>1. c \in 0 .. MaxClients
    BY <1>4 DEF SomeClients, Changes, AsItIs, Plain
  <2>2. FromCell(r, c) = ClientByIndex(c) /\ (Names(r, c) <=> c > 0)
    BY <1>4 DEF SomeClients, FromCell, Names, AsItIs, Plain
  <2>3. c \in 1 .. MaxClients => ToCell(r, ClientByIndex(c)) = c
    BY <1>4, ClientBack DEF SomeClients, ToCell
  <2>. QED
    BY <1>0, <2>1, <2>2, <2>3, ClientBack DEF Known
<1>5. CASE r \in AsItIs \ {"bool", "short"}
  BY <1>0, <1>5 DEF Known, Names, FromCell, ToCell, AsItIs, Plain
<1>. QED
  BY <1>1, <1>2, <1>3, <1>4, <1>5 DEF Route, Kept

LEMMA Powers == 2 ^ 16 = 65536 /\ 2 ^ 15 = 32768
OBVIOUS

LEMMA ChangeInType ==
    ASSUME NEW r \in {"bool", "short"}, NEW c \in Changes(r)
    PROVE  InType(r, Held(r, c), c) /\ InType(r, Held(r, Held(r, c)), c)
<1>1. c \in {0, 2, 65539}
  BY Powers DEF Changes
<1>. QED
  BY <1>1, Powers DEF Held, InType

\* What the original returns comes back to the caller.
LEMMA ReturnedBack ==
    ASSUME NEW ret \in ReturnRoute, NEW r \in Originals(ret)
    PROVE  Held(ret, FromCell(ret, ToReturnCell(ret, r))) = r
<1>1. CASE ret = "object"
  <2>1. r = NULL \/ \E i \in Private : r = PrivateData(i)
    BY <1>1 DEF Originals, Passed
  <2>2. GetPrivate(IndexOfPDataAmx(r)) = r
    BY <2>1, ObjectBack
  <2>. QED
    BY <1>1, <2>2 DEF Held, FromCell, ToReturnCell
<1>2. CASE ret = "edict"
  <2>1. r = NULL \/ \E i \in Entity : r = EdictByIndexAmx(i)
    BY <1>2 DEF Originals, Passed
  <2>2. EdictByIndexAmx(IndexOfEdict(r)) = r
    BY <2>1, EdictBack
  <2>. QED
    BY <1>2, <2>2 DEF Held, FromCell, ToReturnCell, ToCell
<1>3. CASE ret = "bool"
  <2>1. r \in {0, 1}
    BY <1>3 DEF Originals, Passed, Plain
  <2>. QED
    BY <1>3, <2>1 DEF Held, FromCell, ToReturnCell, ToCell
<1>4. CASE ret = "short"
  <2>1. r \in {1, 65535}
    BY <1>4, Powers DEF Originals, Passed, Plain
  <2>2. ToReturnCell(ret, r) \in {1, -1} /\ ToReturnCell(ret, r) % 65536 = r
    BY <1>4, <2>1, Powers DEF ToReturnCell
  <2>. QED
    BY <1>4, <2>2, Powers DEF Held, FromCell
<1>5. CASE ret \in {"value", "real"}
  BY <1>5 DEF Held, FromCell, ToReturnCell, ToCell
<1>. QED
  BY <1>1, <1>2, <1>3, <1>4, <1>5 DEF ReturnRoute

LEMMA SetComesBack ==
    ASSUME NEW ret \in ReturnRoute \ {"bool", "short"}, NEW c \in Changes(ret)
    PROVE  LET x == Held(ret, FromCell(ret, c))
           IN  IF Names(ret, c) THEN ToReturnCell(ret, x) = c ELSE x = NULL
<1>1. Held(ret, FromCell(ret, c)) = FromCell(ret, c)
  BY DEF Held
<1>2. CASE ret = "object"
  <2>1. c \in {AMX_NULLENT} \cup Entity
    BY <1>2 DEF Changes, AsItIs, Plain
  <2>2. FromCell(ret, c) = GetPrivate(c) /\ (Names(ret, c) <=> c \in Private)
    BY <1>2 DEF FromCell, Names, AsItIs, Plain
  <2>3. c \in Private => ToReturnCell(ret, PrivateData(c)) = c
    BY <1>2, ObjectBack DEF ToReturnCell
  <2>. QED
    BY <1>1, <2>1, <2>2, <2>3, ObjectBack
<1>3. CASE ret = "edict"
  <2>1. c \in {AMX_NULLENT} \cup Entity
    BY <1>3 DEF Changes, AsItIs, Plain
  <2>2. FromCell(ret, c) = EdictByIndexAmx(c) /\ (Names(ret, c) <=> c # AMX_NULLENT)
    BY <1>3 DEF FromCell, Names, AsItIs, Plain
  <2>3. c \in Entity => ToReturnCell(ret, EdictByIndexAmx(c)) = c
    BY <1>3, EdictBack DEF ToReturnCell, ToCell
  <2>. QED
    BY <1>1, <2>1, <2>2, <2>3, EdictBack
<1>4. CASE ret \in {"value", "real"}
  BY <1>1, <1>4 DEF FromCell, Names, ToReturnCell, ToCell, AsItIs, Plain
<1>. QED
  BY <1>2, <1>3, <1>4 DEF ReturnRoute

-----------------------------------------------------------------------------
(* Wrappers: the invariant *)

SetTo(i) == {p[2] : p \in {q \in changed : q[1] = i}}

LEMMA NothingSet == ASSUME changed = {} PROVE \A i : SetTo(i) = {}
BY DEF SetTo

LEMMA OneSet ==
    ASSUME NEW i, NEW c, changed' = {<<i, c>>}
    PROVE  SetTo(i)' = {c} /\ \A j : j # i => SetTo(j)' = {}
<1>1. <<i, c>>[1] = i /\ <<i, c>>[2] = c
  OBVIOUS
<1>2. ASSUME NEW j PROVE {q \in changed' : q[1] = j} = IF j = i THEN {<<i, c>>} ELSE {}
  BY <1>1
<1>3. SetTo(i)' = {c}
  <2>1. SetTo(i)' = {p[2] : p \in {q \in changed' : q[1] = i}}
    BY DEF SetTo
  <2>2. {q \in changed' : q[1] = i} = {<<i, c>>}
    BY <1>2
  <2>3. \A p : p = <<i, c>> => p[2] = c
    BY <1>1
  <2>. QED
    BY <2>1, <2>2, <2>3
<1>4. ASSUME NEW j, j # i PROVE SetTo(j)' = {}
  <2>1. SetTo(j)' = {p[2] : p \in {q \in changed' : q[1] = j}}
    BY DEF SetTo
  <2>. QED
    BY <1>2, <1>4, <2>1
<1>. QED
  BY <1>3, <1>4

\* The cell that the argument starts in, and what the caller has of an argument
\* that a plugin set to c.
Shown(i) == IF args[i] = "client of it" /\ given[i - 1] # src_client THEN AMX_NULLENT
            ELSE ToCell(args[i], given[i])
WithCaller(i, c) == IF args[i] \in {"lost vector", "real&", "trace"} THEN c ELSE given[i]

\* The argument is as the caller gave it or as one plugin set it.
ArgumentOK(i) ==
    /\ given[i] \in Passed(args[i])
    /\ SetTo(i) = {} => argCell[i] = Shown(i) /\ caller[i] = given[i]
    /\ \A c \in SetTo(i) : /\ c \in Changes(args[i]) /\ argCell[i] = Held(args[i], c)
                           /\ caller[i] = WithCaller(i, c)

ArgumentsOK ==
    /\ DOMAIN given = DOMAIN args /\ DOMAIN caller = DOMAIN args
    /\ DOMAIN argCell = DOMAIN args
    /\ \A i \in DOMAIN args : ArgumentOK(i)

\* The original was not called, or with these arguments.
ReceivedOK ==
    \/ received = <<>>
    \/ /\ DOMAIN received = DOMAIN args
       /\ \A i \in DOMAIN args : received[i] = Argument(i)

ReturnOK ==
    \/ /\ retSet = {} /\ returned \in Originals(wrapper.ret)
       /\ retCell = ToReturnCell(wrapper.ret, returned)
    \/ \E c \in Changes(wrapper.ret) :
          retSet = {c} /\ retCell = IF wrapper.ret = "bool" THEN Held("bool", c) ELSE c

OutcomeOK == outcome = Held(wrapper.ret, FromCell(wrapper.ret, retCell))

WrapperInv ==
    /\ wrapper \in Wrapper
    /\ stage = "idle" => changed = {}
    /\ stage \in {"idle", "before"} => received = <<>> /\ retSet = {}
    /\ stage # "idle" => ArgumentsOK
    /\ stage \in {"after", "returned"} => ReceivedOK /\ ReturnOK
    /\ stage = "returned" => OutcomeOK

LEMMA WrapperInvInit == WrappersInit => WrapperInv
BY DEF WrappersInit, WrapperInv

\* The steps that leave the arguments, or the return value, alone.
LEMMA ArgumentsStay ==
    ASSUME UNCHANGED <<wrapper, given, caller, argCell, changed>>
    PROVE  /\ ArgumentsOK => ArgumentsOK' 
           /\ \A i : Argument(i)' = Argument(i)
BY DEF ArgumentsOK, ArgumentOK, SetTo, Shown, WithCaller, Argument, args

LEMMA ReceivedStays ==
    ASSUME UNCHANGED <<wrapper, given, caller, argCell, changed, received>>, ReceivedOK
    PROVE  ReceivedOK'
BY ArgumentsStay DEF ReceivedOK, args

LEMMA CallStep == WrapperInv /\ CallWrapper => WrapperInv'
<1> SUFFICES ASSUME WrapperInv, CallWrapper PROVE WrapperInv'
  OBVIOUS
<1>1. args' = args /\ wrapper' = wrapper
  BY DEF CallWrapper, args
<1>2. changed' = {} /\ received' = <<>> /\ retSet' = {} /\ stage' = "before"
  BY DEF CallWrapper, WrapperInv
<1>3. /\ DOMAIN given' = DOMAIN args
      /\ \A i \in DOMAIN args : given'[i] \in Passed(args[i])
  BY DEF CallWrapper, Arguments
<1>4. /\ DOMAIN argCell' = DOMAIN args /\ caller' = given'
      /\ \A i \in DOMAIN args : argCell'[i] = Shown(i)'
  BY <1>1 DEF CallWrapper, Shown
<1>5. \A i : SetTo(i)' = {}
  BY <1>2 DEF SetTo
<1>6. ArgumentsOK'
  BY <1>1, <1>3, <1>4, <1>5 DEF ArgumentsOK, ArgumentOK
<1>. QED
  BY <1>1, <1>2, <1>6 DEF WrapperInv

\* A plugin's change of an argument, in place or through the native.
LEMMA ChangeStep ==
    ASSUME WrapperInv, stage = "before", changed = {},
           NEW i \in DOMAIN args, NEW c \in Changes(args[i]),
           argCell' = [argCell EXCEPT ![i] = Held(args[i], c)],
           caller' = SharedWithCaller(i, c), changed' = {<<i, c>>},
           UNCHANGED <<wrapper, stage, given, received, retSet>>
    PROVE  WrapperInv'
<1>1. args' = args
  BY DEF args
<1>2. ArgumentsOK
  BY DEF WrapperInv
<1>3. /\ DOMAIN given' = DOMAIN args' /\ DOMAIN caller' = DOMAIN args'
      /\ DOMAIN argCell' = DOMAIN args'
  BY <1>1, <1>2 DEF ArgumentsOK, SharedWithCaller
<1>4. ASSUME NEW j \in DOMAIN args PROVE ArgumentOK(j)'
  <2>1. ArgumentOK(j)
    BY <1>2 DEF ArgumentsOK
  <2>2. SetTo(j) = {} /\ Shown(j)' = Shown(j) /\ \A d : WithCaller(j, d)' = WithCaller(j, d)
    BY <1>1, NothingSet DEF Shown, WithCaller
  <2>3. CASE j = i
    <3>1. SetTo(i)' = {c}
      BY OneSet
    <3>2. argCell'[i] = Held(args[i], c)
      BY <1>2 DEF ArgumentsOK
    <3>3. caller'[i] = WithCaller(i, c)
      BY <1>2, <2>1, <2>2, <2>3 DEF ArgumentsOK, ArgumentOK, SharedWithCaller, WithCaller
    <3>. QED
      BY <1>1, <2>1, <2>2, <2>3, <3>1, <3>2, <3>3 DEF ArgumentOK
  <2>4. CASE j # i
    <3>1. SetTo(j)' = {}
      BY <2>4, OneSet
    <3>2. argCell'[j] = argCell[j] /\ caller'[j] = caller[j]
      BY <1>2, <2>4 DEF ArgumentsOK, SharedWithCaller
    <3>. QED
      BY <1>1, <2>1, <2>2, <3>1, <3>2 DEF ArgumentOK
  <2>. QED
    BY <2>3, <2>4
<1>5. ArgumentsOK'
  BY <1>1, <1>3, <1>4 DEF ArgumentsOK
<1>. QED
  BY <1>5 DEF WrapperInv

\* An array is its numbers, whichever type they have.
LEMMA ArraysHold == \A i, c : Forwards[i] = "FP_ARRAY" /\ i \in DOMAIN args => Held(args[i], c) = c
<1> TAKE i, c
<1>1. i \in DOMAIN args /\ ForwardType(args[i]) = "FP_ARRAY" => args[i] \in {"vector", "lost vector"}
  BY DEF ForwardType
<1>. QED
  BY <1>1 DEF Forwards, Held

LEMMA CallOriginalStep ==
    ASSUME WrapperInv, NEW r \in Originals(wrapper.ret), CallOriginal(r)
    PROVE  WrapperInv'
<1>1. wrapper' = wrapper /\ args' = args /\ stage = "before" /\ stage' = "after"
  BY DEF CallOriginal, args
<1>2. ArgumentsOK' /\ \A i : Argument(i)' = Argument(i)
  BY ArgumentsStay DEF CallOriginal, WrapperInv
<1>3. DOMAIN received' = DOMAIN args /\ \A i \in DOMAIN args : received'[i] = Argument(i)
  BY DEF CallOriginal
<1>4. ReceivedOK'
  BY <1>1, <1>2, <1>3 DEF ReceivedOK
<1>5. ReturnOK'
  BY <1>1 DEF CallOriginal, WrapperInv, ReturnOK
<1>. QED
  BY <1>1, <1>2, <1>4, <1>5 DEF WrapperInv

LEMMA SetReturnStep ==
    ASSUME WrapperInv, NEW c \in Changes(wrapper.ret), SetReturn(c)
    PROVE  WrapperInv'
<1>1. wrapper' = wrapper /\ args' = args /\ stage \in {"before", "after"} /\ stage' = "after"
  BY DEF SetReturn, args
<1>2. ArgumentsOK'
  BY <1>1, ArgumentsStay DEF SetReturn, WrapperInv
<1>3. ReceivedOK
  <2>1. CASE stage = "before"
    BY <2>1 DEF WrapperInv, ReceivedOK
  <2>2. CASE stage = "after"
    BY <2>2 DEF WrapperInv
  <2>. QED
    BY <1>1, <2>1, <2>2
<1>4. ReceivedOK'
  BY <1>3, ReceivedStays DEF SetReturn
<1>5. ReturnOK'
  BY <1>1 DEF SetReturn, ReturnOK
<1>. QED
  BY <1>1, <1>2, <1>4, <1>5 DEF WrapperInv

LEMMA ReturnStep == ASSUME WrapperInv, ReturnFromWrapper PROVE WrapperInv'
<1>1. wrapper' = wrapper /\ stage = "after" /\ stage' = "returned"
  BY DEF ReturnFromWrapper
<1>2. ArgumentsOK' /\ ReceivedOK'
  BY ArgumentsStay, ReceivedStays DEF ReturnFromWrapper, WrapperInv
<1>3. ReturnOK' /\ OutcomeOK'
  BY DEF ReturnFromWrapper, WrapperInv, ReturnOK, OutcomeOK
<1>. QED
  BY <1>1, <1>2, <1>3 DEF WrapperInv

LEMMA WrapperInvStep == WrapperInv /\ [WrappersNext]_wrapperVars => WrapperInv'
<1> SUFFICES ASSUME WrapperInv, [WrappersNext]_wrapperVars PROVE WrapperInv'
  OBVIOUS
<1>1. CASE CallWrapper
  BY <1>1, CallStep
<1>2. ASSUME NEW i \in DOMAIN args, NEW c \in Changes(args[i]), ChangeInPlace(i, c)
      PROVE  WrapperInv'
  <2>1. Held(args[i], c) = c
    BY <1>2, ArraysHold DEF ChangeInPlace
  <2>. QED
    BY <1>2, <2>1, ChangeStep DEF ChangeInPlace
<1>3. ASSUME NEW i \in DOMAIN args, NEW c \in Changes(args[i]), NEW atype \in AType,
             SetArgument(i, atype, c)
      PROVE  WrapperInv'
  BY <1>3, ChangeStep DEF SetArgument
<1>4. ASSUME NEW r \in Originals(wrapper.ret), CallOriginal(r) PROVE WrapperInv'
  BY <1>4, CallOriginalStep
<1>5. ASSUME NEW c \in Changes(wrapper.ret), SetReturn(c) PROVE WrapperInv'
  BY <1>5, SetReturnStep
<1>6. CASE ReturnFromWrapper
  BY <1>6, ReturnStep
<1>7. CASE CallIsOver
  BY <1>7 DEF CallIsOver, WrapperInv
<1>8. CASE UNCHANGED wrapperVars
  <2>1. UNCHANGED <<wrapper, stage, given, caller, argCell, changed, received,
                    returned, retCell, retSet, outcome>>
    BY <1>8 DEF wrapperVars
  <2>2. (ArgumentsOK => ArgumentsOK') /\ (ReceivedOK => ReceivedOK')
    BY <2>1, ArgumentsStay, ReceivedStays
  <2>3. (ReturnOK => ReturnOK') /\ (OutcomeOK => OutcomeOK')
    BY <2>1 DEF ReturnOK, OutcomeOK
  <2>. QED
    BY <2>1, <2>2, <2>3 DEF WrapperInv
<1>. QED
  BY <1>1, <1>2, <1>3, <1>4, <1>5, <1>6, <1>7, <1>8 DEF WrappersNext

-----------------------------------------------------------------------------
(* Wrappers: the property *)

LEMMA ShapeOfArgs ==
    ASSUME WrapperInv, NEW i \in DOMAIN args
    PROVE  /\ args[i] \in Route
           /\ args[i] = "client of it" => i - 1 \in DOMAIN args /\ args[i - 1] = "source"
BY WrapperShape DEF WrapperInv, ShapeOK, RoutesOK, args

\* The original's argument, by who has set it.
LEMMA ArgumentArrives ==
    ASSUME WrapperInv, ArgumentsOK, NEW i \in DOMAIN args
    PROVE  /\ args[i] \in Kept => Argument(i) = given[i]
           /\ args[i] = "client of it" /\ changed = {} =>
                 Argument(i) = IF given[i - 1] = src_client THEN given[i] ELSE NULL
           /\ args[i] \notin {"client of it", "lost vector"} /\ SetTo(i) = {} =>
                 Argument(i) = given[i]
           /\ args[i] \notin {"client of it", "lost vector"} \cup Kept =>
                 \A c \in SetTo(i) : /\ c \in Changes(args[i])
                                     /\ Argument(i) = FromCell(args[i], Held(args[i], c))
<1>1. args[i] \in Route /\ ArgumentOK(i)
  BY ShapeOfArgs DEF ArgumentsOK
<1>2. args[i] \in Kept => Argument(i) = given[i]
  BY DEF Kept, Argument
<1>3. args[i] \notin {"client of it", "lost vector"} \cup Kept =>
         Argument(i) = FromCell(args[i], argCell[i])
  BY DEF Kept, Argument
<1>4. args[i] \notin {"client of it", "kept client?"} /\ SetTo(i) = {} =>
         argCell[i] = ToCell(args[i], given[i]) /\ FromCell(args[i], argCell[i]) = given[i]
  BY <1>1, PassedBack DEF ArgumentOK, Shown
<1>5. ASSUME args[i] = "client of it", changed = {}
      PROVE  Argument(i) = IF given[i - 1] = src_client THEN given[i] ELSE NULL
  <2>1. i - 1 \in DOMAIN args /\ args[i - 1] = "source" /\ ArgumentOK(i - 1)
    BY <1>5, ShapeOfArgs DEF ArgumentsOK
  <2>2. SetTo(i) = {} /\ SetTo(i - 1) = {}
    BY <1>5, NothingSet
  <2>3. argCell[i - 1] = given[i - 1]
    BY <2>1, <2>2 DEF ArgumentOK, Shown, ToCell
  <2>4. CASE given[i - 1] # src_client
    BY <1>5, <2>3, <2>4 DEF Argument
  <2>5. CASE given[i - 1] = src_client
    <3>1. argCell[i] = ToCell(args[i], given[i]) /\ given[i] \in Passed(args[i])
      BY <1>1, <2>2, <2>5 DEF ArgumentOK, Shown
    <3>2. Argument(i) = FromCell(args[i], argCell[i])
      BY <1>5, <2>3, <2>5 DEF Argument
    <3>3. FromCell(args[i], ToCell(args[i], given[i])) = given[i]
      BY <1>1, <1>5, <3>1, PassedBack
    <3>. QED
      BY <2>5, <3>1, <3>2, <3>3
  <2>. QED
    BY <2>4, <2>5
<1>. QED
  BY <1>1, <1>2, <1>3, <1>4, <1>5 DEF ArgumentOK, Kept

LEMMA ArgumentsArrive ==
    ASSUME WrapperInv, stage = "returned", NEW i \in DOMAIN received
    PROVE  i \in DOMAIN args /\ received[i] = Argument(i) /\ Arrived(i)
<1>1. ArgumentsOK /\ ReceivedOK
  BY DEF WrapperInv
<1>2. i \in DOMAIN args /\ received[i] = Argument(i)
  BY <1>1 DEF ReceivedOK
<1>3. args[i] \in Route
  BY <1>2, ShapeOfArgs
<1>4. args[i] = "client of it" /\ changed = {} =>
         received[i] = IF given[i - 1] = src_client THEN given[i] ELSE NULL
  BY <1>1, <1>2, ArgumentArrives
<1>5. args[i] \notin {"client of it", "lost vector"} /\ (SetTo(i) = {} \/ args[i] \in Kept) =>
         received[i] = given[i]
  BY <1>1, <1>2, ArgumentArrives
<1>6. ASSUME args[i] \notin {"client of it", "lost vector"} \cup Kept, NEW c \in SetTo(i)
      PROVE  IF args[i] \in {"bool", "short"} THEN InType(args[i], received[i], c)
             ELSE Known(args[i], received[i], c)
  <2>1. c \in Changes(args[i]) /\ received[i] = FromCell(args[i], Held(args[i], c))
    BY <1>1, <1>2, <1>6, ArgumentArrives
  <2>2. CASE args[i] \in {"bool", "short"}
    <3>1. received[i] = Held(args[i], c)
      BY <2>1, <2>2 DEF FromCell
    <3>. QED
      BY <2>1, <2>2, <3>1, ChangeInType
  <2>3. CASE args[i] \notin {"bool", "short"}
    BY <1>3, <1>6, <2>1, <2>3, ChangeArrives
  <2>. QED
    BY <2>2, <2>3
<1>7. Arrived(i)
  BY <1>4, <1>5, <1>6 DEF Arrived, SetTo, Kept
<1>. QED
  BY <1>2, <1>7

\* What has become of the caller's own.
LEMMA CallerSees ==
    ASSUME WrapperInv, stage = "returned", NEW i \in DOMAIN given
    PROVE  /\ args[i] \in Lent /\ i \in DOMAIN received => caller[i] = received[i]
           /\ args[i] \notin Lent \cup {"lost vector"} => caller[i] = given[i]
<1>1. ArgumentsOK /\ i \in DOMAIN args
  BY DEF WrapperInv, ArgumentsOK
<1>2. ArgumentOK(i)
  BY <1>1 DEF ArgumentsOK
<1>3. args[i] \notin Lent \cup {"lost vector"} => caller[i] = given[i]
  BY <1>2 DEF ArgumentOK, WithCaller, Lent
<1>4. ASSUME args[i] \in Lent, i \in DOMAIN received PROVE caller[i] = received[i]
  <2>1. received[i] = Argument(i)
    BY <1>4, ArgumentsArrive
  <2>2. Argument(i) = argCell[i] /\ Held(args[i], caller[i]) = caller[i]
        /\ ToCell(args[i], given[i]) = given[i]
    BY <1>4 DEF Lent, Argument, FromCell, ToCell, Held
  <2>3. args[i] # "client of it" /\ \A c : Held(args[i], c) = c /\ WithCaller(i, c) = c
    BY <1>4 DEF Lent, Held, WithCaller
  <2>4. CASE SetTo(i) = {}
    BY <1>2, <2>1, <2>2, <2>3, <2>4 DEF ArgumentOK, Shown
  <2>5. CASE SetTo(i) # {}
    BY <1>2, <2>1, <2>2, <2>3, <2>5 DEF ArgumentOK
  <2>. QED
    BY <2>4, <2>5
<1>. QED
  BY <1>3, <1>4

LEMMA ReturnComesBack == ASSUME WrapperInv, stage = "returned" PROVE CameBack
<1>1. ReturnOK /\ OutcomeOK /\ wrapper.ret \in ReturnRoute
  BY WrapperShape DEF WrapperInv, ShapeOK
<1>2. CASE /\ retSet = {} /\ returned \in Originals(wrapper.ret)
           /\ retCell = ToReturnCell(wrapper.ret, returned)
  BY <1>1, <1>2, ReturnedBack DEF OutcomeOK, CameBack
<1>3. ASSUME NEW c \in Changes(wrapper.ret), retSet = {c},
             retCell = IF wrapper.ret = "bool" THEN Held("bool", c) ELSE c
      PROVE  CameBack
  <2>1. CASE wrapper.ret \in {"bool", "short"}
    <3>1. FromCell(wrapper.ret, retCell) = retCell
      BY <2>1 DEF FromCell
    <3>2. outcome = Held(wrapper.ret, c) \/ outcome = Held(wrapper.ret, Held(wrapper.ret, c))
      BY <1>1, <1>3, <2>1, <3>1 DEF OutcomeOK
    <3>3. InType(wrapper.ret, outcome, c)
      BY <2>1, <3>2, ChangeInType
    <3>. QED
      BY <1>3, <2>1, <3>3 DEF CameBack
  <2>2. CASE wrapper.ret \notin {"bool", "short"}
    <3>1. outcome = Held(wrapper.ret, FromCell(wrapper.ret, c))
      BY <1>1, <1>3, <2>2 DEF OutcomeOK
    <3>2. IF Names(wrapper.ret, c) THEN ToReturnCell(wrapper.ret, outcome) = c ELSE outcome = NULL
      BY <1>1, <2>2, <3>1, SetComesBack
    <3>. QED
      BY <1>3, <2>2, <3>2 DEF CameBack
  <2>. QED
    BY <2>1, <2>2
<1>. QED
  BY <1>1, <1>2, <1>3 DEF ReturnOK

\* Whatever entities, clients and numbers there are, a call that went through the
\* plugins is the call that the caller made but for what they changed (the
\* functions of hook_callback.cpp).
THEOREM CallsComeThrough == WrappersSpec => []ConversionsRoundTrip
<1>1. WrapperInv => ConversionsRoundTrip
  BY ArgumentsArrive, CallerSees, ReturnComesBack DEF ConversionsRoundTrip, Lent
<1>. QED
  BY <1>1, WrapperInvInit, WrapperInvStep, PTL DEF WrappersSpec

-----------------------------------------------------------------------------
(* Members: the shapes that the tables have *)

ShapeType == {"FLOAT", "INTEGER", "SHORT", "BOOL", "STRING", "CLASSPTR", "EHANDLE", "VECTOR",
              "BYTE", "EDICT", "SIGNALS", "EVARS", "QSTRING", "PORT", "IP"}

\* One element, or an array of two.  Only texts have room.
ShapeFits(s, arrays) ==
    /\ s.type \in ShapeType
    /\ s.elements = 1 \/ (s.elements = 2 /\ s.type \in arrays)
    /\ s.room = Allocated \/ (s.room = 3 /\ s.type = "STRING" /\ s.elements = 1)

LEMMA ShapesFit ==
    ASSUME NEW T \in SUBSET ShapeType, NEW A \in SUBSET ShapeType
    PROVE  /\ \A s \in Shape(T) : ShapeFits(s, A)
           /\ T \subseteq A => \A s \in ArrayOf(T) : ShapeFits(s, A)
           /\ \A s \in CharArray : ShapeFits(s, A)
BY DEF Shape, ArrayOf, CharArray, ShapeFits, ShapeType, Allocated

ClassArrays == {"CLASSPTR", "VECTOR", "FLOAT", "INTEGER", "BOOL", "BYTE", "QSTRING"}

LEMMA ClassShapes ==
    \A c \in DOMAIN MembersOf : \A s \in MembersOf[c] : ShapeFits(s, ClassArrays)
<1>. DEFINE Fit(S) == \A s \in S : ShapeFits(s, ClassArrays)
<1>0. ClassArrays \in SUBSET ShapeType
  BY DEF ClassArrays, ShapeType
<1>1. /\ \A T \in SUBSET ShapeType : Fit(Shape(T))
      /\ \A T \in SUBSET ClassArrays : Fit(ArrayOf(T))
      /\ Fit(CharArray)
  BY <1>0, ShapesFit DEF ClassArrays, ShapeType
<1>2. \A S, U : Fit(S) /\ Fit(U) => Fit(S \cup U)
  OBVIOUS
<1>. HIDE DEF Fit
<1>3. Fit(BaseMembers) /\ Fit(AnimatingMembers) /\ Fit(MonsterMembers)
  <2>1. Fit(BaseMembers)
    BY <1>1 DEF BaseMembers, ShapeType
  <2>2. Fit(AnimatingMembers)
    BY <1>1 DEF AnimatingMembers, ShapeType
  <2>3. Fit(MonsterMembers)
    BY <1>1, <1>2 DEF MonsterMembers, ShapeType, ClassArrays
  <2>. QED
    BY <2>1, <2>2, <2>3
<1>4. Fit(PlayerMembersStart)
  BY <1>1, <1>2 DEF PlayerMembersStart, PlayerFieldsStart, ShapeType, ClassArrays
<1>5. Fit(PlayerMembersEnd)
  BY <1>1, <1>2 DEF PlayerMembersEnd, PlayerFieldsEnd, ShapeType, ClassArrays
<1>6. Fit(PlayerMembersStart \cup PlayerMembersEnd)
  BY <1>2, <1>4, <1>5
<1>7. Fit(CSPlayerMembers) /\ Fit(WeaponBoxMembers)
  <2>1. Fit(CSPlayerMembers)
    BY <1>1, <1>2 DEF CSPlayerMembers, ShapeType, ClassArrays
  <2>2. Fit(WeaponBoxMembers)
    BY <1>1, <1>2 DEF WeaponBoxMembers, ShapeType, ClassArrays
  <2>. QED
    BY <2>1, <2>2
<1>8. /\ Fit(ItemMembers) /\ Fit(WeaponMembers) /\ Fit(ArmouryMembers) /\ Fit(GrenadeMembers)
      /\ Fit(WeaponsMembers) /\ Fit(ShieldMembers) /\ Fit(NumberMembers) /\ Fit(CSEntityMembers)
  <2>1. Fit(ItemMembers) /\ Fit(WeaponMembers) /\ Fit(ArmouryMembers)
    BY <1>1 DEF ItemMembers, WeaponMembers, ArmouryMembers, ShapeType
  <2>2. Fit(GrenadeMembers) /\ Fit(WeaponsMembers)
    BY <1>1 DEF GrenadeMembers, WeaponsMembers, ShapeType
  <2>3. Fit(ShieldMembers) /\ Fit(NumberMembers) /\ Fit(CSEntityMembers)
    BY <1>1 DEF ShieldMembers, NumberMembers, CSEntityMembers, ShapeType
  <2>. QED
    BY <2>1, <2>2, <2>3
<1>9. \A c \in DOMAIN MembersOf : Fit(MembersOf[c])
  BY <1>3, <1>6, <1>7, <1>8 DEF MembersOf
<1>. QED
  BY <1>9 DEF Fit

\* Which arrays there are by the natives of a family.
ArraysOf(family) ==
    CASE family \in {"member", "member_s"} -> ClassArrays
      [] family = "member_game" -> {"INTEGER", "CLASSPTR"}
      [] family = "entvar" -> {"BYTE"}
      [] family = "pmove" -> {"VECTOR"}
      [] OTHER -> {}

MemberFamily == {"member", "member_s", "member_game", "entvar", "pmove", "movevar", "ucmd",
                 "pmtrace", "netchan", "netadr", "rebuy"}

MemberFits(m) ==
    /\ m.family \in MemberFamily
    /\ ShapeFits(m.shape, ArraysOf(m.family))
    /\ m.family = "netadr" => m.shape.type # "STRING"

LEMMA OfFits ==
    ASSUME NEW f \in MemberFamily, NEW S, \A s \in S : ShapeFits(s, ArraysOf(f)),
           f = "netadr" => \A s \in S : s.type # "STRING"
    PROVE  \A m \in Of(f, S) : MemberFits(m)
BY DEF Of, MemberFits

LEMMA OfEntitiesFits ==
    ASSUME NEW c \in DOMAIN MembersOf
    PROVE  \A m \in OfEntities(c) : MemberFits(m)
<1>1. \A s \in MembersOf[c] : ShapeFits(s, ClassArrays)
  BY ClassShapes
<1>2. \A m \in OfEntities(c) : m.family \in {"member", "member_s"} /\ m.shape \in MembersOf[c]
  BY DEF OfEntities
<1>3. \A f \in {"member", "member_s"} : f \in MemberFamily /\ f # "netadr" /\ ArraysOf(f) = ClassArrays
  BY DEF MemberFamily, ArraysOf
<1>. QED
  BY <1>1, <1>2, <1>3 DEF MemberFits

LEMMA StructShapes ==
    /\ \A m \in Of("member_game", GameMembers) : MemberFits(m)
    /\ \A m \in Of("entvar", Entvars) : MemberFits(m)
    /\ \A m \in Of("pmove", PlayerMove) : MemberFits(m)
    /\ \A m \in Of("movevar", MoveVars) : MemberFits(m)
    /\ \A m \in Of("ucmd", UCmd) : MemberFits(m)
    /\ \A m \in Of("pmtrace", PMTrace) : MemberFits(m)
    /\ \A m \in Of("netchan", NetChan) : MemberFits(m)
    /\ \A m \in Of("netadr", NetAdr) : MemberFits(m)
    /\ \A m \in Of("rebuy", RebuyStruct) : MemberFits(m)
<1>. DEFINE Fit(S, f) == \A s \in S : ShapeFits(s, ArraysOf(f))
<1>1. \A f \in MemberFamily : f # "netadr" =>
         \A S : Fit(S, f) => \A m \in Of(f, S) : MemberFits(m)
  BY OfFits
<1>2. \A f \in MemberFamily : ArraysOf(f) \in SUBSET ShapeType
  BY DEF MemberFamily, ArraysOf, ClassArrays, ShapeType
<1>3. \A f \in MemberFamily :
         /\ \A T \in SUBSET ShapeType : Fit(Shape(T), f)
         /\ Fit(CharArray, f)
  BY <1>2, ShapesFit
<1>4. \A f \in MemberFamily, T \in SUBSET ShapeType : T \subseteq ArraysOf(f) => Fit(ArrayOf(T), f)
  BY <1>2, ShapesFit
<1>5. \A S, U, f : Fit(S, f) /\ Fit(U, f) => Fit(S \cup U, f)
  OBVIOUS
<1>6. \A s \in NetAdr : s.type # "STRING"
  BY DEF NetAdr, Shape
<1>7. Fit(NetAdr, "netadr") => \A m \in Of("netadr", NetAdr) : MemberFits(m)
  BY <1>6, OfFits DEF MemberFamily
<1>. HIDE DEF Fit
<1>8. Fit(GameMembers, "member_game")
  <2>1. Fit(ArrayOf({"INTEGER", "CLASSPTR"}), "member_game")
    BY <1>4 DEF ArraysOf, MemberFamily, ShapeType
  <2>2. Fit(Shape({"FLOAT", "INTEGER", "SHORT", "BOOL", "STRING"}), "member_game")
    BY <1>3 DEF MemberFamily, ShapeType
  <2>. QED
    BY <1>5, <2>1, <2>2 DEF GameMembers
<1>9. Fit(Entvars, "entvar")
  <2>1. Fit(ArrayOf({"BYTE"}), "entvar")
    BY <1>4 DEF ArraysOf, MemberFamily, ShapeType
  <2>2. Fit(Shape({"QSTRING", "VECTOR", "FLOAT", "INTEGER", "EDICT"}), "entvar")
    BY <1>3 DEF MemberFamily, ShapeType
  <2>. QED
    BY <1>5, <2>1, <2>2 DEF Entvars
<1>10. Fit(PlayerMove, "pmove")
  <2>1. Fit(ArrayOf({"VECTOR"}), "pmove")
    BY <1>4 DEF ArraysOf, MemberFamily, ShapeType
  <2>2. Fit(Shape({"INTEGER", "FLOAT", "VECTOR", "BYTE"}), "pmove") /\ Fit(CharArray, "pmove")
    BY <1>3 DEF MemberFamily, ShapeType
  <2>. QED
    BY <1>5, <2>1, <2>2 DEF PlayerMove
<1>11. Fit(MoveVars, "movevar")
  BY <1>3, <1>5 DEF MoveVars, MemberFamily, ShapeType
<1>12. Fit(UCmd, "ucmd") /\ Fit(PMTrace, "pmtrace") /\ Fit(NetChan, "netchan")
  BY <1>3 DEF UCmd, PMTrace, NetChan, MemberFamily, ShapeType
<1>13. Fit(NetAdr, "netadr") /\ Fit(RebuyStruct, "rebuy")
  BY <1>3 DEF NetAdr, RebuyStruct, MemberFamily, ShapeType
<1>14. \A f \in {"member_game", "entvar", "pmove", "movevar", "ucmd", "pmtrace", "netchan", "rebuy"} :
          f \in MemberFamily /\ f # "netadr"
  BY DEF MemberFamily
<1>. QED
  BY <1>1, <1>7, <1>8, <1>9, <1>10, <1>11, <1>12, <1>13, <1>14

LEMMA MembersFit == \A m \in MemberList : MemberFits(m)
<1> DEFINE ofClasses == UNION {OfEntities(c) : c \in DOMAIN MembersOf}
<1>1. ASSUME NEW m \in ofClasses PROVE MemberFits(m)
  <2>1. \E c \in DOMAIN MembersOf : m \in OfEntities(c)
    OBVIOUS
  <2>. QED
    BY <2>1, OfEntitiesFits
<1>. HIDE DEF ofClasses
<1>2. MemberList = ofClasses
         \cup Of("member_game", GameMembers) \cup Of("entvar", Entvars)
         \cup Of("pmove", PlayerMove) \cup Of("movevar", MoveVars) \cup Of("ucmd", UCmd)
         \cup Of("pmtrace", PMTrace) \cup Of("netchan", NetChan) \cup Of("netadr", NetAdr)
         \cup Of("rebuy", RebuyStruct)
  BY DEF MemberList, ofClasses
<1>. QED
  BY <1>1, <1>2, StructShapes

-----------------------------------------------------------------------------
(* Members: the elements that natives take *)

LEMMA OneElement ==
    ASSUME MemberFits(member), member.shape.elements # 2
    PROVE  Elements = {0} /\ ElementOfSet(0) = 0 /\ ElementOfGet(0) = 0
<1>1. member.shape.elements = 1
  BY DEF MemberFits, ShapeFits
<1>2. Elements = {0}
  BY <1>1 DEF Elements
<1>3. ElementOfGet(0) = 0
  BY DEF ElementOfGet
<1>4. ElementOfSet(0) = 0
  BY DEF ElementOfSet, set_member, set_member_s, set_member_game, set_entvar, set_pmove
<1>. QED
  BY <1>2, <1>3, <1>4

LEMMA JoinedSeq ==
    ASSUME NEW S, NEW s \in Seq(S), NEW t \in Seq(S), NEW u \in Seq(S),
           Len(u) = Len(s) + Len(t),
           \A i \in 1 .. Len(u) : u[i] = IF i <= Len(s) THEN s[i] ELSE t[i - Len(s)]
    PROVE  s \o t = u
<1>1. s \o t \in Seq(S) /\ Len(s \o t) = Len(u)
  BY ConcatProperties
<1>2. \A i \in 1 .. Len(s \o t) : (s \o t)[i] = u[i]
  BY <1>1, ConcatProperties
<1>. QED
  BY <1>1, <1>2, SeqEqual

LEMMA JoinedThree ==
    ASSUME NEW S, NEW a \in S, NEW b \in S, NEW c \in S
    PROVE  <<a, b>> \o <<c>> = <<a, b, c>>
<1>. DEFINE s == <<a, b>>
            t == <<c>>
            u == <<a, b, c>>
<1>1. s \in Seq(S)
  OBVIOUS
<1>2. t \in Seq(S)
  OBVIOUS
<1>3. u \in Seq(S)
  OBVIOUS
<1>4. Len(s) = 2 /\ Len(t) = 1 /\ Len(u) = 3
  OBVIOUS
<1>5. s[1] = a /\ s[2] = b /\ t[1] = c
  OBVIOUS
<1>6. u[1] = a /\ u[2] = b /\ u[3] = c
  OBVIOUS
<1>. HIDE DEF s, t, u
<1>7. ASSUME NEW i \in 1 .. 3 PROVE u[i] = IF i <= 2 THEN s[i] ELSE t[i - 2]
  <2>1. (i = 1 \/ i = 2 \/ i = 3) /\ 3 - 2 = 1
    OBVIOUS
  <2>. QED
    BY <1>5, <1>6, <2>1
<1>8. /\ Len(u) = Len(s) + Len(t)
      /\ \A i \in 1 .. Len(u) : u[i] = IF i <= Len(s) THEN s[i] ELSE t[i - Len(s)]
  BY <1>4, <1>7
<1>9. s \o t = u
  BY <1>1, <1>2, <1>3, <1>8, JoinedSeq
<1>. QED
  BY <1>9 DEF s, t, u

LEMMA JoinedTwo ==
    ASSUME NEW S, NEW a \in S, NEW b \in S
    PROVE  <<a>> \o <<b>> = <<a, b>>
<1>. DEFINE s == <<a>>
            t == <<b>>
            u == <<a, b>>
<1>1. s \in Seq(S)
  OBVIOUS
<1>2. t \in Seq(S)
  OBVIOUS
<1>3. u \in Seq(S)
  OBVIOUS
<1>4. Len(s) = 1 /\ Len(t) = 1 /\ Len(u) = 2
  OBVIOUS
<1>5. s[1] = a /\ t[1] = b
  OBVIOUS
<1>6. u[1] = a /\ u[2] = b
  OBVIOUS
<1>. HIDE DEF s, t, u
<1>7. ASSUME NEW i \in 1 .. 2 PROVE u[i] = IF i <= 1 THEN s[i] ELSE t[i - 1]
  <2>1. (i = 1 \/ i = 2) /\ 2 - 1 = 1
    OBVIOUS
  <2>. QED
    BY <1>5, <1>6, <2>1
<1>8. /\ Len(u) = Len(s) + Len(t)
      /\ \A i \in 1 .. Len(u) : u[i] = IF i <= Len(s) THEN s[i] ELSE t[i - Len(s)]
  BY <1>4, <1>7
<1>9. s \o t = u
  BY <1>1, <1>2, <1>3, <1>8, JoinedSeq
<1>. QED
  BY <1>9 DEF s, t, u

LEMMA Joined ==
    /\ <<"dest", "length">> \o <<"element">> = <<"dest", "length", "element">>
    /\ <<"dest">> \o <<"element">> = <<"dest", "element">>
<1>. DEFINE S == {"dest", "length", "element"}
<1>1. "dest" \in S /\ "length" \in S /\ "element" \in S
  OBVIOUS
<1>. HIDE DEF S
<1>. QED
  BY <1>1, JoinedThree, JoinedTwo, Zenon

LEMMA TwoElements ==
    ASSUME MemberFits(member), member.shape.elements = 2, ~ElementMissed
    PROVE  /\ Elements = {0, 1}
           /\ \A e : ElementOfSet(e) = e /\ ElementOfGet(e) = e
<1>1. Elements = {0, 1}
  BY DEF Elements
<1>2. /\ member.family \in {"member", "member_s", "entvar", "pmove"}
      /\ member.family \in {"member", "member_s"} => type \in ClassArrays \ {"VECTOR"}
      /\ member.family = "entvar" => type = "BYTE"
      /\ member.family = "pmove" => type = "VECTOR"
  BY DEF MemberFits, ShapeFits, ArraysOf, MemberFamily, ElementMissed, type
<1>3. \A e : ElementOfSet(e) = e
  BY <1>2 DEF ElementOfSet, ParamsOfSet, set_member, set_member_s, set_entvar, set_pmove
<1>4. ASSUME NEW e PROVE ElementOfGet(e) = e
  <2> SUFFICES \E i \in DOMAIN Documented :
                  Documented[i] = "element" /\ Taken(Len(Documented))[i] = "element"
    BY DEF ElementOfGet
  <2>1. CASE type \in ClassArrays \ {"VECTOR", "QSTRING"} /\ member.family \in {"member", "member_s"}
    <3>1. type \in Returnable
      BY <2>1 DEF ClassArrays, Returnable
    <3>2. Documented = <<"element">>
      BY <2>1 DEF Documented, ClassArrays
    <3>3. Len(Documented) = 1 /\ Taken(1) = <<"element">>
      BY <2>1, <3>1, <3>2 DEF Taken, get_member, get_member_s, OneParam
    <3>. QED
      BY <3>2, <3>3
  <2>2. CASE type = "QSTRING" /\ member.family \in {"member", "member_s"}
    <3>1. Documented = <<"dest", "length", "element">>
      BY <2>2, Joined DEF Documented
    <3>2. Len(Documented) = 3 /\ Taken(3) = <<"dest", "length", "element">>
      BY <2>2, <3>1, Joined DEF Taken, get_member, get_member_s, Buffer
    <3>. QED
      BY <3>1, <3>2
  <2>3. CASE type = "BYTE" /\ member.family = "entvar"
    <3>1. type \in Returnable \ {"FLOAT"}
      BY <2>3 DEF Returnable
    <3>2. Documented = <<"element">>
      BY <2>3 DEF Documented
    <3>3. Len(Documented) = 1 /\ Taken(1) = <<"element">>
      BY <2>3, <3>1, <3>2 DEF Taken, get_entvar, OneParam
    <3>. QED
      BY <3>2, <3>3
  <2>4. CASE type = "VECTOR" /\ member.family = "pmove"
    <3>1. Documented = <<"dest", "element">>
      BY <2>4, Joined DEF Documented
    <3>2. Len(Documented) = 2 /\ Taken(2) = <<"dest", "element">>
      BY <2>4, <3>1 DEF Taken, get_pmove
    <3>. QED
      BY <3>1, <3>2
  <2>. QED
    BY <1>2, <2>1, <2>2, <2>3, <2>4
<1>. QED
  BY <1>1, <1>3, <1>4

-----------------------------------------------------------------------------
(* Members: the conversions *)

\* Numbers of 16 and of 8 bits.
LEMMA Below == ASSUME NEW m \in Nat, NEW x \in Nat, x < m PROVE x % m = x
OBVIOUS

LEMMA Shifted ==
    ASSUME NEW h \in Int, NEW m \in Int, NEW v \in Int, v + h \in 0 .. m - 1
    PROVE  ((v + h) % m) - h = v
<1>1. m \in Nat /\ v + h \in Nat /\ v + h < m
  OBVIOUS
<1>2. (v + h) % m = v + h
  BY <1>1, Below
<1>. QED
  BY <1>2

LEMMA ShortBack ==
    ASSUME NEW v \in Int, v + 2 ^ 15 \in 0 .. 2 ^ 16 - 1
    PROVE  Signed(v, 16) = v
<1>. DEFINE h == 2 ^ 15
            m == 2 ^ 16
<1>1. h \in Int /\ m \in Int /\ v + h \in 0 .. m - 1
  BY Powers
<1>2. 16 - 1 = 15
  OBVIOUS
<1>3. Signed(v, 16) = ((v + h) % m) - h
  BY <1>2 DEF Signed
<1>. HIDE DEF h, m
<1>. QED
  BY <1>1, <1>3, Shifted

\* Two bytes make a word.
Byte == 0 .. 255
Word(v) == v \in Nat /\ v < 65536
Pair(high, low) == high * 256 + low

LEMMA BytesOfPair ==
    ASSUME NEW high \in Byte, NEW low \in Byte
    PROVE  /\ Word(Pair(high, low))
           /\ Pair(high, low) % 256 = low /\ Pair(high, low) \div 256 = high
<1>1. Word(high * 256 + low)
  BY DEF Byte, Word
<1>2. (high * 256 + low) % 256 = low
  BY DEF Byte
<1>3. (high * 256 + low) \div 256 = high
  BY DEF Byte
<1>. QED
  BY <1>1, <1>2, <1>3 DEF Pair

LEMMA PairOfBytes ==
    ASSUME NEW v, Word(v)
    PROVE  v % 256 \in Byte /\ v \div 256 \in Byte /\ v = Pair(v \div 256, v % 256)
<1>1. v % 256 \in 0 .. 255
  BY DEF Word
<1>2. v \div 256 \in 0 .. 255
  BY DEF Word
<1>3. v = (v \div 256) * 256 + (v % 256)
  BY DEF Word
<1>. QED
  BY <1>1, <1>2, <1>3 DEF Byte, Pair

LEMMA Swapped ==
    ASSUME NEW v, Word(v)
    PROVE  SwapBytes(v) = Pair(v % 256, v \div 256)
<1>1. v \in Nat /\ 65536 \in Nat /\ v < 65536
  BY DEF Word
<1>2. v % 65536 = v
  BY <1>1, Below
<1>. QED
  BY <1>2 DEF SwapBytes, Pair

LEMMA PortBack == ASSUME NEW v \in 0 .. 2 ^ 16 - 1 PROVE SwapBytes(SwapBytes(v)) = v
<1>1. Word(v)
  BY Powers DEF Word
<1>. DEFINE low == v % 256
            high == v \div 256
<1>2. low \in Byte /\ high \in Byte /\ v = Pair(high, low)
  BY <1>1, PairOfBytes
<1>3. SwapBytes(v) = Pair(low, high)
  BY <1>1, Swapped
<1>. HIDE DEF low, high
<1>4. SwapBytes(Pair(low, high)) = Pair(high, low)
  BY <1>2, BytesOfPair, Swapped
<1>. QED
  BY <1>2, <1>3, <1>4

LEMMA ByteBack == ASSUME NEW v \in 0 .. 255 PROVE v % 256 = v
OBVIOUS

LEMMA EntityTypesBack ==
    ASSUME NEW v \in {AMX_NULLENT} \cup Entity
    PROVE  /\ v \in Private \cup {AMX_NULLENT} => IndexOfPDataAmx(GetPrivate(v)) = v
           /\ IndexOfEdictAmx(EdictByIndexAmx(v)) = v
           /\ IndexOfPevAmx(PEV(v)) = v
           /\ v \notin removed => HandleGet(EdictByIndexAmx(v)) = EdictByIndexAmx(v)
           /\ v \in removed => IndexOfEdictAmx(HandleGet(EdictByIndexAmx(v))) = AMX_NULLENT
<1>1. IndexOfEdictAmx(EdictByIndexAmx(v)) = v
  BY EdictBack DEF IndexOfEdictAmx
<1>2. v \notin removed => HandleGet(EdictByIndexAmx(v)) = EdictByIndexAmx(v)
  BY <1>1 DEF HandleGet
<1>3. v \in removed => IndexOfEdictAmx(HandleGet(EdictByIndexAmx(v))) = AMX_NULLENT
  BY <1>1 DEF HandleGet, IndexOfEdictAmx
<1>. QED
  BY <1>1, <1>2, <1>3, ObjectBack, PevBack

LEMMA TextRoom ==
    ASSUME type = "STRING", member.shape.room = 3, NEW v \in Nat
    PROVE  Stored(v) = Least(v, 2) /\ Stored(v) < 3
<1>1. 3 # Allocated /\ 3 - 1 = 2
  BY DEF Allocated
<1>2. Stored(v) = Least(v, 2)
  BY <1>1 DEF Stored
<1>. QED
  BY <1>2 DEF Least

\* What a member can hold and the buffer can show comes back from the set.
LEMMA StoredBack ==
    ASSUME MemberFits(member), NEW v \in Settable, NEW n \in Length, Representable(v, n)
    PROVE  Converted(Stored(v), n) = v
<1>1. CASE type \in {"CLASSPTR", "EHANDLE", "EDICT", "EVARS"}
  <2>1. v \in {AMX_NULLENT} \cup Entity
    BY <1>1 DEF Settable
  <2>2. CASE type = "CLASSPTR"
    BY <2>1, <2>2, EntityTypesBack DEF Stored, Converted, Representable
  <2>3. CASE type = "EHANDLE"
    BY <2>1, <2>3, EntityTypesBack DEF Stored, Converted, Representable
  <2>4. CASE type = "EDICT"
    BY <2>1, <2>4, EntityTypesBack DEF Stored, Converted, Representable
  <2>5. CASE type = "EVARS"
    BY <2>1, <2>5, EntityTypesBack DEF Stored, Converted, Representable
  <2>. QED
    BY <1>1, <2>2, <2>3, <2>4, <2>5
<1>2. CASE type = "STRING"
  <2>1. v \in Nat /\ n \in Nat
    BY <1>2, MembersAssumption DEF Settable
  <2>2. v <= n /\ (member.shape.room # Allocated => v < member.shape.room)
    BY <1>2 DEF Representable
  <2>3. member.shape.room = Allocated \/ member.shape.room = 3
    BY DEF MemberFits, ShapeFits
  <2>4. Stored(v) = v
    <3>1. CASE member.shape.room = Allocated
      BY <1>2, <3>1 DEF Stored
    <3>2. CASE member.shape.room = 3
      <4>1. v < 3
        BY <2>2, <3>2 DEF Allocated
      <4>2. Least(v, 2) = v
        BY <2>1, <4>1 DEF Least
      <4>. QED
        BY <1>2, <2>1, <3>2, <4>2, TextRoom
    <3>. QED
      BY <2>3, <3>1, <3>2
  <2>5. Converted(v, n) = Least(v, n)
    BY <1>2 DEF Converted
  <2>6. Least(v, n) = v
    BY <2>1, <2>2 DEF Least
  <2>. QED
    BY <2>4, <2>5, <2>6
<1>3. CASE type = "QSTRING"
  <2>1. v \in Nat /\ n \in Nat
    BY <1>3, MembersAssumption DEF Settable
  <2>2. v <= n
    BY <1>3 DEF Representable
  <2>3. Converted(Stored(v), n) = Least(v, n)
    BY <1>3 DEF Stored, Converted
  <2>4. Least(v, n) = v
    BY <2>1, <2>2 DEF Least
  <2>. QED
    BY <2>3, <2>4
<1>4. CASE type = "SHORT"
  <2>1. v \in Int /\ v + 2 ^ 15 \in 0 .. 2 ^ 16 - 1
    BY <1>4, MembersAssumption DEF Settable, Representable
  <2>2. Converted(Stored(v), n) = Signed(v, 16)
    BY <1>4 DEF Stored, Converted
  <2>. QED
    BY <2>1, <2>2, ShortBack
<1>5. CASE type = "BYTE"
  <2>1. v \in 0 .. 255
    BY <1>5 DEF Representable
  <2>2. Converted(Stored(v), n) = v % 256
    BY <1>5 DEF Stored, Converted
  <2>. QED
    BY <2>1, <2>2, ByteBack
<1>6. CASE type = "BOOL"
  BY <1>6 DEF Stored, Converted, Representable
<1>7. CASE type = "PORT"
  <2>1. v \in 0 .. 2 ^ 16 - 1
    BY <1>7 DEF Representable
  <2>2. Converted(Stored(v), n) = SwapBytes(SwapBytes(v))
    BY <1>7 DEF Stored, Converted
  <2>. QED
    BY <2>1, <2>2, PortBack
<1>8. CASE type \in {"FLOAT", "INTEGER", "VECTOR", "SIGNALS", "IP"}
  BY <1>8 DEF Stored, Converted
<1>9. type \in ShapeType
  BY DEF MemberFits, ShapeFits, type
<1>. QED
  BY <1>1, <1>2, <1>3, <1>4, <1>5, <1>6, <1>7, <1>8, <1>9 DEF ShapeType

-----------------------------------------------------------------------------
(* Members: the invariant *)

\* The set came to the element that it takes, unless it was refused.
SetOK ==
    /\ lastSet.element \in Elements /\ lastSet.value \in Settable
    /\ DOMAIN lastSet.before = Elements
    /\ ~SetRefused /\ member.family # "netadr" =>
          cells = [lastSet.before EXCEPT ![ElementOfSet(lastSet.element)] = Stored(lastSet.value)]

Zeroes == [e \in Elements |-> 0]

RoomKept ==
    type = "STRING" /\ member.shape.room # Allocated =>
        \A e \in Elements : cells[e] < member.shape.room

MemberInv ==
    /\ member \in MemberList
    /\ DOMAIN cells = Elements
    /\ SetRefused => cells = Zeroes
    /\ lastSet.done => SetOK
    /\ RoomKept

LEMMA MemberInvInit == MembersInit => MemberInv
<1> SUFFICES ASSUME MembersInit PROVE MemberInv
  OBVIOUS
<1>1. member \in MemberList /\ cells = Zeroes /\ ~lastSet.done
  BY DEF MembersInit, Zeroes, NoSet
<1>2. MemberFits(member)
  BY <1>1, MembersFit
<1>3. RoomKept
  BY <1>1, <1>2 DEF RoomKept, Zeroes, MemberFits, ShapeFits
<1>. QED
  BY <1>1, <1>3 DEF MemberInv, Zeroes

LEMMA SetStep ==
    ASSUME MemberInv, NEW e \in Elements, NEW a \in AmxAddress, NEW v \in Settable, Set(e, v, a)
    PROVE  MemberInv'
<1>1. member' = member /\ lastSet' = [done |-> TRUE, element |-> e, value |-> v, before |-> cells]
  BY DEF Set
<1>2. /\ Elements' = Elements /\ Settable' = Settable /\ SetRefused' = SetRefused
      /\ ElementOfSet(e)' = ElementOfSet(e) /\ Stored(v)' = Stored(v) /\ Zeroes' = Zeroes
  BY <1>1 DEF Elements, Settable, SetRefused, LacksMember, ElementOfSet, ParamsOfSet, Stored, type,
     Zeroes
<1>3. MemberFits(member) /\ DOMAIN cells = Elements /\ RoomKept
  BY MembersFit DEF MemberInv
<1>. DEFINE value == IF member.family = "netadr" THEN a ELSE v
<1>4. cells' = IF SetRefused THEN cells ELSE [cells EXCEPT ![ElementOfSet(e)] = Stored(value)]
  BY DEF Set
<1>5. DOMAIN cells' = Elements'
  BY <1>2, <1>3, <1>4
<1>6. SetRefused' => cells' = Zeroes'
  BY <1>2, <1>4 DEF MemberInv
<1>7. SetOK'
  <2>1. /\ lastSet'.element = e /\ lastSet'.value = v /\ lastSet'.before = cells
    BY <1>1
  <2>2. ~SetRefused' /\ member'.family # "netadr" =>
            cells' = [cells EXCEPT ![ElementOfSet(e)'] = Stored(v)']
    BY <1>1, <1>2, <1>4
  <2>. QED
    BY <1>2, <1>3, <2>1, <2>2 DEF SetOK
<1>8. RoomKept'
  <2> SUFFICES ASSUME type = "STRING", member.shape.room # Allocated, NEW d \in Elements
               PROVE  cells'[d] < member.shape.room
    BY <1>1, <1>2 DEF RoomKept, type
  <2>1. member.shape.room = 3 /\ value = v
    BY <1>3 DEF MemberFits, ShapeFits, type
  <2>2. v \in Nat
    BY MembersAssumption DEF Settable
  <2>3. Stored(value) < 3 /\ cells[d] < 3
    BY <1>3, <2>1, <2>2, TextRoom DEF RoomKept
  <2>4. cells'[d] = cells[d] \/ cells'[d] = Stored(value)
    BY <1>3, <1>4
  <2>. QED
    BY <2>1, <2>3, <2>4
<1>. QED
  BY <1>1, <1>5, <1>6, <1>7, <1>8 DEF MemberInv

LEMMA MemberInvStep == MemberInv /\ [MembersNext]_memberVars => MemberInv'
<1> SUFFICES ASSUME MemberInv, [MembersNext]_memberVars PROVE MemberInv'
  OBVIOUS
<1>1. ASSUME NEW e \in Elements, NEW a \in AmxAddress, NEW v \in Settable, Set(e, v, a)
      PROVE  MemberInv'
  BY <1>1, SetStep
<1>2. ASSUME UNCHANGED <<member, cells, lastSet>> PROVE MemberInv'
  BY <1>2 DEF MemberInv, SetOK, RoomKept, Zeroes, Elements, Settable, SetRefused, LacksMember,
     ElementOfSet, ParamsOfSet, Stored, type
<1>3. ASSUME NEW i \in Entity, EntityRemoved(i) PROVE MemberInv'
  BY <1>2, <1>3 DEF EntityRemoved
<1>4. CASE UNCHANGED memberVars
  BY <1>2, <1>4 DEF memberVars
<1>. QED
  BY <1>1, <1>3, <1>4 DEF MembersNext

LEMMA ComesBack ==
    ASSUME MemberInv, lastSet.done, ~SetRefused, ~ElementMissed, member.family # "netadr"
    PROVE  /\ GetsWhatWasSet
           /\ \A e \in Elements \ {lastSet.element} : cells[e] = lastSet.before[e]
<1>. DEFINE d == lastSet.element
            v == lastSet.value
<1>1. /\ MemberFits(member) /\ d \in Elements /\ v \in Settable
      /\ DOMAIN lastSet.before = Elements
      /\ cells = [lastSet.before EXCEPT ![ElementOfSet(d)] = Stored(v)]
  BY MembersFit DEF MemberInv, SetOK
<1>2. ElementOfSet(d) = d /\ ElementOfGet(d) = d
  <2>1. CASE member.shape.elements = 2
    BY <1>1, <2>1, TwoElements
  <2>2. CASE member.shape.elements # 2
    <3>1. d = 0 /\ ElementOfSet(0) = 0 /\ ElementOfGet(0) = 0
      BY <1>1, <2>2, OneElement
    <3>. QED
      BY <3>1
  <2>. QED
    BY <2>1, <2>2
<1>. HIDE DEF d, v
<1>3. cells[d] = Stored(v)
  BY <1>1, <1>2
<1>4. \A n : Got(d, n) = Converted(Stored(v), n)
  BY <1>2, <1>3 DEF Got
<1>5. \A n \in Length : Representable(v, n) => Got(d, n) = v
  BY <1>1, <1>4, StoredBack
<1>6. type = "EHANDLE" /\ v \in removed => Got(d, 0) = AMX_NULLENT
  <2> SUFFICES ASSUME type = "EHANDLE", v \in removed PROVE Got(d, 0) = AMX_NULLENT
    OBVIOUS
  <2>1. v \in {AMX_NULLENT} \cup Entity
    BY <1>1 DEF Settable
  <2>2. Converted(Stored(v), 0) = IndexOfEdictAmx(HandleGet(EdictByIndexAmx(v)))
    BY DEF Converted, Stored
  <2>. QED
    BY <1>4, <2>1, <2>2, EntityTypesBack
<1>7. \A e \in Elements \ {d} : cells[e] = lastSet.before[e]
  BY <1>1, <1>2
<1>. QED
  BY <1>5, <1>6, <1>7 DEF GetsWhatWasSet, d, v

\* Whatever entities and numbers there are, a plugin that sets an element of a
\* member gets back what it set, where the natives take the element, and nothing
\* else changes (set_member, get_member and their like, cvt.cpp).
THEOREM MembersReadBack == MembersSpec => []SetThenGet
<1>1. ASSUME MemberInv PROVE SetThenGet
  <2>1. ~SetRefused /\ ~ElementMissed /\ member.family # "netadr" =>
          /\ GetsWhatWasSet
          /\ lastSet.done => \A e \in Elements \ {lastSet.element} : cells[e] = lastSet.before[e]
    BY <1>1, ComesBack DEF GetsWhatWasSet
  <2>2. member.family = "member_s" /\ cells # [e \in Elements |-> 0] =>
           IsRefsToClass(member.class, member.entity)
    BY <1>1 DEF MemberInv, Zeroes, SetRefused, LacksMember
  <2>. QED
    BY <1>1, <2>1, <2>2 DEF SetThenGet, MemberInv, RoomKept
<1>. QED
  BY <1>1, MemberInvInit, MemberInvStep, PTL DEF MembersSpec

-----------------------------------------------------------------------------
(* Induction.                                                                *)

\* The least of some natural numbers.
LEMMA LeastNumber ==
    ASSUME NEW S \in SUBSET Nat, S # {}
    PROVE  \E n \in S : \A m \in S : n <= m
<1> DEFINE R == OpToRel(<, Nat)
<1>1. IsWellFoundedOn(R, Nat)
  BY NatLessThanWellFounded
<1>2. \A x, y \in Nat : <<x, y>> \in R <=> x < y
  BY DEF OpToRel
<1>. HIDE DEF R
<1>3. PICK n \in S : \A m \in S : ~(<<m, n>> \in R)
  BY <1>1, WFMin
<1>4. ASSUME NEW m \in S PROVE n <= m
  <2>1. m \in Nat /\ n \in Nat /\ ~(m < n)
    BY <1>2, <1>3
  <2>. QED
    BY <2>1
<1>. QED
  BY <1>4

\* Induction up to the number m, for a set instead of a predicate.
LEMMA InductionTo ==
    ASSUME NEW m \in Nat, NEW S \in SUBSET Nat, 0 \in S, \A n \in S : n < m => n + 1 \in S
    PROVE  \A n \in 0 .. m : n \in S
<1>. SUFFICES ASSUME NEW k \in 0 .. m, k \notin S PROVE FALSE
  OBVIOUS
<1> DEFINE T == {n \in Nat : n <= m /\ n \notin S}
<1>1. T \in SUBSET Nat /\ T # {}
  OBVIOUS
<1>2. PICK n \in T : \A i \in T : n <= i
  BY <1>1, LeastNumber
<1>3. n \in Nat /\ n <= m /\ n \notin S /\ n # 0
  BY <1>2
<1>4. n - 1 \in Nat /\ n - 1 <= m /\ n - 1 < m /\ (n - 1) + 1 = n /\ ~(n <= n - 1)
  BY <1>3
<1>5. n - 1 \in S
  BY <1>2, <1>4
<1>. QED
  BY <1>3, <1>4, <1>5

-----------------------------------------------------------------------------
(* Models: the bases of the body parts                                       *)

Groups == 0 .. Len(NumModels)
BasesTo(n, f) == f = [g \in 0 .. n |-> IF g = 0 THEN 1 ELSE NumModels[g] * f[g - 1]]

\* There are such numbers, so that base is what its definition says.
LEMMA BasesExist == \E f : BasesTo(Len(NumModels), f)
<1> DEFINE S == {n \in Nat : \E f : BasesTo(n, f)}
<1>1. 0 \in S
  <2> DEFINE f == [g \in 0 .. 0 |-> 1]
  <2>1. \A g \in 0 .. 0 : g = 0
    OBVIOUS
  <2>2. BasesTo(0, f)
    BY <2>1 DEF BasesTo
  <2>. QED
    BY <2>2
<1>2. ASSUME NEW n \in S PROVE n + 1 \in S
  <2>1. PICK f : BasesTo(n, f)
    OBVIOUS
  <2> DEFINE h == [g \in 0 .. (n + 1) |-> IF g = n + 1 THEN NumModels[n + 1] * f[n] ELSE f[g]]
  <2>2. \A g \in 0 .. n : h[g] = f[g]
    OBVIOUS
  <2>3. ASSUME NEW g \in 0 .. (n + 1)
        PROVE  h[g] = IF g = 0 THEN 1 ELSE NumModels[g] * h[g - 1]
    <3>1. CASE g = n + 1
      <4>1. g - 1 = n /\ n \in 0 .. n /\ g # 0
        BY <3>1
      <4>2. h[g] = NumModels[g] * f[n]
        BY <3>1
      <4>3. h[n] = f[n]
        BY <2>2, <4>1
      <4>. HIDE DEF h
      <4>. QED
        BY <4>1, <4>2, <4>3
    <3>2. CASE g # n + 1
      <4>1. g \in 0 .. n /\ (g # 0 => g - 1 \in 0 .. n)
        BY <3>2
      <4>2. f[g] = IF g = 0 THEN 1 ELSE NumModels[g] * f[g - 1]
        BY <2>1, <4>1 DEF BasesTo
      <4>3. h[g] = f[g] /\ (g # 0 => h[g - 1] = f[g - 1])
        BY <2>2, <4>1
      <4>. HIDE DEF h
      <4>. QED
        BY <4>2, <4>3
    <3>. QED
      BY <3>1, <3>2
  <2>4. BasesTo(n + 1, h)
    <3>1. h = [g \in 0 .. (n + 1) |-> h[g]]
      OBVIOUS
    <3>. HIDE DEF h
    <3>2. h = [g \in 0 .. (n + 1) |-> IF g = 0 THEN 1 ELSE NumModels[g] * h[g - 1]]
      BY <3>1, <2>3
    <3>. QED
      BY <3>2 DEF BasesTo
  <2>. QED
    BY <2>4
<1>3. Len(NumModels) \in Nat
  BY ModelsAssumption
<1>4. \A n \in 0 .. Len(NumModels) : n \in S
  <2>1. S \in SUBSET Nat
    OBVIOUS
  <2>. HIDE DEF S
  <2>. QED
    BY <1>1, <1>2, <1>3, <2>1, InductionTo
<1>. QED
  BY <1>3, <1>4

LEMMA BaseIs == \A g \in Groups : Base(g) = IF g = 0 THEN 1 ELSE NumModels[g] * Base(g - 1)
<1>1. BasesTo(Len(NumModels), base)
  BY BasesExist DEF base, BasesTo
<1>. HIDE DEF base
<1>. QED
  BY <1>1 DEF BasesTo, Groups, Base

LEMMA BaseType ==
    /\ Len(NumModels) \in Nat
    /\ \A g \in Groups : Base(g) \in Nat \ {0} /\ (g < Len(NumModels) => NumModels[g + 1] \in Nat \ {0})
<1>1. Len(NumModels) \in Nat /\ \A g \in 1 .. Len(NumModels) : NumModels[g] \in Nat \ {0}
  BY ModelsAssumption
<1> DEFINE S == {n \in Nat : n <= Len(NumModels) => Base(n) \in Nat \ {0}}
<1>2. 0 \in S
  BY <1>1, BaseIs DEF Groups
<1>3. ASSUME NEW n \in S, n < Len(NumModels) PROVE n + 1 \in S
  <2>1. n + 1 \in Groups /\ n + 1 # 0 /\ (n + 1) - 1 = n /\ n + 1 \in 1 .. Len(NumModels)
    BY <1>1, <1>3 DEF Groups
  <2>2. Base(n + 1) = NumModels[n + 1] * Base(n)
    BY <2>1, BaseIs
  <2>3. Base(n) \in Nat \ {0} /\ NumModels[n + 1] \in Nat \ {0}
    BY <1>1, <1>3, <2>1
  <2>. QED
    BY <2>2, <2>3
<1>4. \A n \in 0 .. Len(NumModels) : n \in S
  <2>1. S \in SUBSET Nat
    OBVIOUS
  <2>. HIDE DEF S
  <2>. QED
    BY <1>1, <1>2, <1>3, <2>1, InductionTo
<1>. QED
  BY <1>1, <1>4 DEF Groups

\* The base of a body part is a multiple of the choices up to one before it.
LEMMA BaseMultiple ==
    ASSUME NEW h \in Nat, NEW g \in Groups, h < g
    PROVE  \E k \in Nat \ {0} : Base(g) = k * (NumModels[h + 1] * Base(h))
<1>0. Len(NumModels) \in Nat
  BY BaseType
<1>1. h \in Groups /\ h + 1 \in Groups /\ g <= Len(NumModels) /\ g \in Nat
  BY <1>0 DEF Groups
<1> DEFINE S == {n \in Nat : h < n /\ n <= Len(NumModels) =>
                                \E k \in Nat \ {0} : Base(n) = k * (NumModels[h + 1] * Base(h))}
<1>2. 0 \in S
  OBVIOUS
<1>3. ASSUME NEW n \in S, n < Len(NumModels) PROVE n + 1 \in S
  <2>1. n + 1 \in Groups /\ n \in Groups /\ n + 1 # 0 /\ (n + 1) - 1 = n /\ n \in Nat
    BY <1>0, <1>3 DEF Groups
  <2>2. Base(n + 1) = NumModels[n + 1] * Base(n) /\ NumModels[n + 1] \in Nat \ {0}
    BY <1>3, <2>1, BaseIs, BaseType
  <2>3. CASE n < h
    BY <2>1, <2>3
  <2>4. CASE n = h
    <3>1. Base(n + 1) = 1 * (NumModels[h + 1] * Base(h))
      BY <2>1, <2>2, <2>4, BaseType
    <3>. QED
      BY <2>1, <3>1
  <2>5. CASE h < n
    <3>1. PICK k \in Nat \ {0} : Base(n) = k * (NumModels[h + 1] * Base(h))
      BY <1>3, <2>1, <2>5
    <3>2. NumModels[h + 1] * Base(h) \in Nat
      BY <1>1, <1>3, <2>5, BaseType
    <3> DEFINE j == NumModels[n + 1] * k
               x == NumModels[h + 1] * Base(h)
    <3>3. j \in Nat \ {0}
      BY <2>2
    <3>4. Base(n + 1) = j * x
      <4>1. \A a, b \in Nat : \A y \in Nat : a * (b * y) = (a * b) * y
        OBVIOUS
      <4>. QED
        BY <2>2, <3>1, <3>2, <4>1
    <3>. QED
      BY <2>1, <3>3, <3>4
  <2>. QED
    BY <2>1, <2>3, <2>4, <2>5
<1>4. \A n \in 0 .. Len(NumModels) : n \in S
  <2>1. S \in SUBSET Nat
    OBVIOUS
  <2>. HIDE DEF S
  <2>. QED
    BY <1>0, <1>2, <1>3, <2>1, InductionTo
<1>. QED
  BY <1>1, <1>4

-----------------------------------------------------------------------------
(* Models: division                                                          *)

\* The number x is q times n, and r.
Divided(x, n, q, r) ==
    n \in Nat \ {0} /\ q \in Nat /\ r \in 0 .. (n - 1) /\ x \in Nat /\ x = q * n + r

LEMMA OneQuotient ==
    ASSUME NEW x, NEW n, NEW q, NEW r, NEW p, NEW s, Divided(x, n, q, r), Divided(x, n, p, s)
    PROVE  q = p /\ r = s
<1>1. ASSUME NEW a \in Nat \ {0}, NEW b \in Nat, NEW c \in Nat,
             NEW d \in 0 .. (a - 1), NEW e \in 0 .. (a - 1), b * a + d = c * a + e
      PROVE  b = c /\ d = e
  BY <1>1
<1>. QED
  BY <1>1 DEF Divided

LEMMA Divide == ASSUME NEW n \in Nat \ {0}, NEW x \in Nat PROVE Divided(x, n, x \div n, x % n)
BY DEF Divided

LEMMA QuotientIs ==
    ASSUME NEW x, NEW n, NEW q, NEW r, Divided(x, n, q, r)
    PROVE  Quotient(x, n) = q /\ Remainder(x, n) = r /\ q \in Nat /\ r \in 0 .. (n - 1)
<1>1. n \in Nat \ {0} /\ x \in Nat /\ x >= 0 /\ q \in Nat /\ r \in 0 .. (n - 1) /\ x = q * n + r
  BY DEF Divided
<1>2. Divided(x, n, x \div n, x % n)
  BY <1>1, Divide
<1>3. x \div n = q
  BY <1>2, OneQuotient
<1>4. Quotient(x, n) = q
  BY <1>1, <1>3 DEF Quotient
<1>5. x - n * q = r
  BY <1>1
<1>. QED
  BY <1>1, <1>4, <1>5 DEF Remainder

\* Dividing by a product is dividing twice.
LEMMA QuotientTwice ==
    ASSUME NEW x, NEW n, NEW q, NEW r, Divided(x, n, q, r), NEW k \in Nat \ {0}
    PROVE  Quotient(x, k * n) = q \div k
<1> DEFINE p == q \div k
           s == q % k
           m == k * n
           t == s * n + r
<1>1. n \in Nat \ {0} /\ x \in Nat /\ q \in Nat /\ r \in 0 .. (n - 1) /\ x = q * n + r
  BY DEF Divided
<1>2. p \in Nat /\ s \in 0 .. (k - 1) /\ q = p * k + s
  BY <1>1, Divide DEF Divided
<1>. HIDE DEF p, s
<1>3. x = p * m + t
  <2>1. q * n = p * (k * n) + s * n
    BY <1>1, <1>2
  <2>. QED
    BY <1>1, <1>2, <2>1
<1>4. m \in Nat \ {0}
  BY <1>1
<1>5. t \in 0 .. (m - 1)
  <2>1. s * n \in Nat /\ s + 1 <= k /\ s \in Nat /\ r <= n - 1 /\ r \in Nat
    BY <1>1, <1>2
  <2>2. (s + 1) * n <= k * n
    BY <1>1, <2>1
  <2>3. (s + 1) * n = s * n + n
    BY <1>1, <2>1
  <2>. QED
    BY <1>1, <1>4, <2>1, <2>2, <2>3
<1>. HIDE DEF m, t
<1>6. Divided(x, m, p, t)
  BY <1>1, <1>2, <1>3, <1>4, <1>5 DEF Divided
<1>. QED
  BY <1>6, QuotientIs DEF m, p

-----------------------------------------------------------------------------
(* Models: one choice                                                        *)

\* The number b stands for the choice c of a part with n models and the base m, and
\* for q and r of the parts behind it and in front of it.
Digits(b, m, n, q, c, r) ==
    /\ b \in Nat /\ m \in Nat \ {0} /\ n \in Nat \ {0}
    /\ q \in Nat /\ c \in 0 .. (n - 1) /\ r \in 0 .. (m - 1)
    /\ b = (q * n + c) * m + r
Digit(b, m, n) == Remainder(Quotient(b, m), n)

LEMMA HasDigits ==
    ASSUME NEW b \in Nat, NEW m \in Nat \ {0}, NEW n \in Nat \ {0}
    PROVE  \E q, c, r : Digits(b, m, n, q, c, r)
<1> DEFINE d == b \div m
           r == b % m
           q == d \div n
           c == d % n
<1>1. Divided(b, m, d, r)
  BY Divide
<1>. HIDE DEF d, r
<1>2. d \in Nat
  BY <1>1 DEF Divided
<1>3. Divided(d, n, q, c)
  BY <1>2, Divide
<1>. HIDE DEF q, c
<1>4. Digits(b, m, n, q, c, r)
  BY <1>1, <1>3 DEF Digits, Divided
<1>. QED
  BY <1>4

\* The part itself ...
LEMMA SameDigit ==
    ASSUME NEW b, NEW m, NEW n, NEW q, NEW c, NEW r, Digits(b, m, n, q, c, r)
    PROVE  Digit(b, m, n) = c
<1> DEFINE d == q * n + c
<1>1. d \in Nat
  BY DEF Digits
<1>2. Divided(d, n, q, c)
  BY <1>1 DEF Divided, Digits
<1>3. Divided(b, m, d, r)
  BY <1>1 DEF Divided, Digits
<1>. HIDE DEF d
<1>4. Quotient(b, m) = d /\ Remainder(d, n) = c
  BY <1>2, <1>3, QuotientIs
<1>. QED
  BY <1>4 DEF Digit

\* ... those behind it ...
LEMMA HigherDigit ==
    ASSUME NEW b, NEW m, NEW n, NEW q, NEW c, NEW r, Digits(b, m, n, q, c, r), NEW k \in Nat \ {0}
    PROVE  Quotient(b, k * (n * m)) = q \div k
<1> DEFINE t == c * m + r
           w == n * m
<1>0. /\ b \in Nat /\ m \in Nat \ {0} /\ n \in Nat \ {0} /\ q \in Nat
      /\ c \in 0 .. (n - 1) /\ r \in 0 .. (m - 1) /\ b = (q * n + c) * m + r
  BY DEF Digits
<1>1. w \in Nat \ {0}
  BY <1>0
<1>2. t \in 0 .. (w - 1)
  <2>1. c \in Nat /\ c + 1 <= n /\ r \in Nat /\ r <= m - 1 /\ c * m \in Nat
    BY <1>0
  <2>2. (c + 1) * m <= n * m
    BY <1>0, <2>1
  <2>3. (c + 1) * m = c * m + m
    BY <1>0, <2>1
  <2>. QED
    BY <1>0, <1>1, <2>1, <2>2, <2>3
<1>3. b = q * w + t
  <2>1. (q * n + c) * m = q * (n * m) + c * m
    BY <1>0
  <2>. QED
    BY <1>0, <2>1
<1>. HIDE DEF t, w
<1>4. Divided(b, w, q, t)
  BY <1>0, <1>1, <1>2, <1>3 DEF Divided
<1>. QED
  BY <1>4, QuotientTwice DEF w

\* ... and those in front of it, where a multiple of their choices is added.
Shift(z, b, m, n, y, k) ==
    /\ z \in Nat /\ b \in Nat /\ m \in Nat \ {0} /\ n \in Nat \ {0} /\ y \in Int /\ k \in Nat
    /\ z = b + y * (k * (n * m))

LEMMA LowerDigit ==
    ASSUME NEW z, NEW b, NEW m, NEW n, NEW y, NEW k, Shift(z, b, m, n, y, k)
    PROVE  Digit(z, m, n) = Digit(b, m, n)
<1>0. /\ z \in Nat /\ b \in Nat /\ m \in Nat \ {0} /\ n \in Nat \ {0} /\ y \in Int /\ k \in Nat
      /\ z = b + y * (k * (n * m))
  BY DEF Shift
<1>1. PICK q, c, r : Digits(b, m, n, q, c, r)
  BY <1>0, HasDigits
<1> DEFINE p == q + y * k
<1>2. PICK q2, c2, r2 : Digits(z, m, n, q2, c2, r2)
  BY <1>0, HasDigits
<1>3. /\ q \in Nat /\ c \in 0 .. (n - 1) /\ r \in 0 .. (m - 1) /\ b = (q * n + c) * m + r
      /\ q2 \in Nat /\ c2 \in 0 .. (n - 1) /\ r2 \in 0 .. (m - 1) /\ z = (q2 * n + c2) * m + r2
  BY <1>1, <1>2 DEF Digits
<1>4. p \in Int /\ z = (p * n + c) * m + r
  <2>1. y * k \in Int /\ y * (k * (n * m)) = ((y * k) * n) * m
    BY <1>0
  <2>2. ((q + y * k) * n + c) * m = (q * n + c) * m + ((y * k) * n) * m
    BY <1>0, <1>3, <2>1
  <2>. QED
    BY <1>0, <1>3, <2>1, <2>2
<1>. HIDE DEF p
<1>5. p * n + c = q2 * n + c2
  <2>1. ASSUME NEW a \in Int, NEW e \in Int, NEW s \in 0 .. (m - 1), NEW t \in 0 .. (m - 1),
               a * m + s = e * m + t
        PROVE  a = e
    BY <1>0, <2>1
  <2>2. p * n + c \in Int /\ q2 * n + c2 \in Int
    BY <1>0, <1>3, <1>4
  <2>. QED
    BY <1>3, <1>4, <2>1, <2>2
<1>6. c = c2
  <2>1. ASSUME NEW a \in Int, NEW e \in Int, NEW s \in 0 .. (n - 1), NEW t \in 0 .. (n - 1),
               a * n + s = e * n + t
        PROVE  s = t
    BY <1>0, <2>1
  <2>. QED
    BY <1>3, <1>4, <1>5, <2>1
<1>7. Digit(b, m, n) = c /\ Digit(z, m, n) = c2
  BY <1>1, <1>2, SameDigit
<1>. QED
  BY <1>6, <1>7

\* The new number, in terms of the old one.
LEMMA Chosen ==
    ASSUME NEW b, NEW m, NEW n, NEW q, NEW c, NEW r, Digits(b, m, n, q, c, r), NEW v \in 0 .. (n - 1)
    PROVE  Digits(b + (v - Digit(b, m, n)) * m, m, n, q, v, r)
<1>1. /\ b \in Nat /\ m \in Nat \ {0} /\ n \in Nat \ {0} /\ q \in Nat
      /\ c \in 0 .. (n - 1) /\ r \in 0 .. (m - 1) /\ b = (q * n + c) * m + r
  BY DEF Digits
<1>2. Digit(b, m, n) = c
  BY SameDigit
<1> DEFINE y == q * n
<1>3. y \in Nat
  BY <1>1
<1>. HIDE DEF y
<1>4. (y + c) * m + (v - c) * m = (y + v) * m /\ (y + v) * m \in Nat
  BY <1>1, <1>3
<1>5. b = (y + c) * m + r
  BY <1>1 DEF y
<1>6. b + (v - c) * m = (y + v) * m + r
  BY <1>1, <1>3, <1>4, <1>5
<1>7. (y + v) * m + r \in Nat
  BY <1>1, <1>4
<1>. QED
  BY <1>1, <1>2, <1>6, <1>7 DEF Digits, y

-----------------------------------------------------------------------------
(* Models: the invariant                                                     *)

Animated == [model : BOOLEAN, frame : Int, animtime : Int, sequence : Int, rate : Int, body : Nat]
ModelInv == now \in Nat /\ ent \in Animated /\ ModelsIntact

LEMMA AdvanceType ==
    ASSUME NEW e \in Animated, NEW time \in Int
    PROVE  /\ StudioFrameAdvanceEnt(e, time) \in Animated
           /\ \/ StudioFrameAdvanceEnt(e, time) = [e EXCEPT !.animtime = time]
              \/ StudioFrameAdvanceEnt(e, time) = e
              \/ \E f \in Int : StudioFrameAdvanceEnt(e, time) = [e EXCEPT !.frame = f, !.animtime = time]
<1> DEFINE interval == IF time - e.animtime > 0 /\ e.animtime = 0 THEN 0 ELSE time - e.animtime
           f == Wrapped(e.frame + interval * e.rate, e.sequence)
<1>1. ASSUME NEW x \in Int PROVE Wrapped(x, e.sequence) \in Int
  <2>1. Frames \in Nat \ {0}
    BY ModelsAssumption
  <2>2. Quotient(x, Frames) \in Int
    BY <2>1 DEF Quotient
  <2>. HIDE DEF Quotient
  <2>3. x - Quotient(x, Frames) * Frames \in Int /\ 0 \in Int /\ Frames - 1 \in Int
    BY <2>1, <2>2
  <2>4. CASE x >= 0 /\ x < Frames
    BY <2>1, <2>4 DEF Wrapped
  <2>5. CASE (x < 0 \/ x >= Frames) /\ e.sequence \in Looping
    BY <2>1, <2>3, <2>5 DEF Wrapped
  <2>6. CASE (x < 0 \/ x >= Frames) /\ e.sequence \notin Looping
    BY <2>1, <2>3, <2>6 DEF Wrapped
  <2>. QED
    BY <2>1, <2>4, <2>5, <2>6
<1>2. e.frame + interval * e.rate \in Int
  <2>1. interval \in Int /\ e.frame \in Int /\ e.rate \in Int
    BY DEF Animated
  <2>. HIDE DEF interval
  <2>. QED
    BY <2>1
<1>3. f \in Int
  BY <1>1, <1>2
<1>4. \/ StudioFrameAdvanceEnt(e, time) = [e EXCEPT !.animtime = time]
      \/ StudioFrameAdvanceEnt(e, time) = e
      \/ StudioFrameAdvanceEnt(e, time) = [e EXCEPT !.frame = f, !.animtime = time]
  <2>. HIDE DEF f
  <2>1. e.animtime \in Int
    BY DEF Animated
  <2>2. CASE time - e.animtime <= 0
    BY <2>1, <2>2 DEF StudioFrameAdvanceEnt
  <2>3. CASE time - e.animtime > 0 /\ ~HasSequence(e)
    BY <2>1, <2>3 DEF StudioFrameAdvanceEnt
  <2>4. CASE time - e.animtime > 0 /\ HasSequence(e)
    BY <2>1, <2>4 DEF StudioFrameAdvanceEnt, f
  <2>. QED
    BY <2>1, <2>2, <2>3, <2>4
<1>. HIDE DEF f
<1>. QED
  BY <1>3, <1>4 DEF Animated

LEMMA ModelInvInit == ModelsInit => ModelInv
BY DEF ModelsInit, ModelInv, ModelsIntact, Standing, Nobody, Animated

LEMMA BoneStep == ASSUME ModelInv, NEW bone, GetBonePosition(bone) PROVE ModelInv'
<1>1. ent \in Animated /\ now \in Int
  BY DEF ModelInv
<1> DEFINE moved == StudioFrameAdvanceEnt(ent, now)
<1>2. [moved EXCEPT !.frame = ent.frame, !.animtime = ent.animtime] = ent
  <2>1. \/ moved = [ent EXCEPT !.animtime = now]
        \/ moved = ent
        \/ \E f \in Int : moved = [ent EXCEPT !.frame = f, !.animtime = now]
    BY <1>1, AdvanceType
  <2>. HIDE DEF moved
  <2>. QED
    BY <1>1, <2>1 DEF Animated
<1>. HIDE DEF moved
<1>3. ent' = ent /\ now' = now
  BY <1>2 DEF GetBonePosition, moved
<1>4. lastCall'.native = "bone" /\ lastCall'.before = ent
  BY DEF GetBonePosition, CallOf
<1>. QED
  BY <1>1, <1>3, <1>4 DEF ModelInv, ModelsIntact

LEMMA GameStep ==
    ASSUME ModelInv,
           \/ GetSequenceInfo2
           \/ TimePasses
           \/ Animate
           \/ \E sequence \in 0 .. NumSeq, rate \in Rates : PlaySequence(sequence, rate)
    PROVE  ModelInv'
<1>1. ent \in Animated /\ now \in Nat /\ now \in Int
  BY DEF ModelInv
<1>2. CASE GetSequenceInfo2
  BY <1>1, <1>2 DEF GetSequenceInfo2, ModelInv, ModelsIntact, CallOf
<1>3. CASE TimePasses
  <2>1. ModelsIntact'
    BY <1>3 DEF TimePasses, ModelInv, ModelsIntact, GetBodygroup, HasGroup, CurrentOf
  <2>. QED
    BY <1>1, <1>3, <2>1 DEF TimePasses, ModelInv
<1>4. CASE Animate
  <2>1. ent' \in Animated /\ now' = now
    BY <1>1, <1>4, AdvanceType DEF Animate
  <2>2. lastCall'.native = "none" /\ lastCall'.before = ent'
    BY <1>4 DEF Animate, Nobody
  <2>. QED
    BY <1>1, <2>1, <2>2 DEF ModelInv, ModelsIntact
<1>5. ASSUME NEW sequence \in 0 .. NumSeq, NEW rate \in Rates, PlaySequence(sequence, rate) PROVE ModelInv'
  <2>1. sequence \in Int /\ rate \in Int
    BY ModelsAssumption
  <2>2. ent' \in Animated /\ now' = now
    <3>1. ent' = [model |-> ent.model, frame |-> 0, animtime |-> now, sequence |-> sequence,
                  rate |-> rate, body |-> ent.body]
      BY <1>1, <1>5 DEF PlaySequence, Animated
    <3>2. ent.model \in BOOLEAN /\ ent.body \in Nat /\ 0 \in Int
      BY <1>1 DEF Animated
    <3>3. now' = now
      BY <1>5 DEF PlaySequence
    <3>. QED
      BY <1>1, <2>1, <3>1, <3>2, <3>3 DEF Animated
  <2>3. lastCall'.native = "none" /\ lastCall'.before = ent'
    BY <1>5 DEF PlaySequence, Nobody
  <2>. QED
    BY <1>1, <2>2, <2>3 DEF ModelInv, ModelsIntact
<1>. QED
  BY <1>2, <1>3, <1>4, <1>5

LEMMA CurrentIs == ASSUME NEW e, NEW g PROVE CurrentOf(e, g) = Digit(e.body, Base(g), NumModels[g + 1])
BY DEF CurrentOf, Digit

\* A choice for one part is what is read back of it, and leaves all others.
LEMMA ChoiceStays ==
    ASSUME NEW e \in Animated, NEW g \in 0 .. (Len(NumModels) - 1),
           NEW v \in 0 .. (NumModels[g + 1] - 1),
           NEW x, x = e.body + (v - CurrentOf(e, g)) * Base(g)
    PROVE  /\ x \in Nat
           /\ Digit(x, Base(g), NumModels[g + 1]) = v
           /\ \A h \in 0 .. (Len(NumModels) - 1) :
                 h # g => Digit(x, Base(h), NumModels[h + 1]) = Digit(e.body, Base(h), NumModels[h + 1])
<1> DEFINE b == e.body
           m == Base(g)
           n == NumModels[g + 1]
<1>1. Len(NumModels) \in Nat /\ g \in Groups /\ m \in Nat \ {0} /\ n \in Nat \ {0} /\ b \in Nat
  BY BaseType DEF Groups, Animated
<1>2. PICK q, c, r : Digits(b, m, n, q, c, r)
  BY <1>1, HasDigits
<1>3. x = b + (v - Digit(b, m, n)) * m
  BY CurrentIs
<1>. HIDE DEF b, m, n
<1>4. Digits(x, m, n, q, v, r)
  BY <1>2, <1>3, Chosen DEF n
<1>5. x \in Nat /\ Digit(x, m, n) = v
  <2>1. x \in Nat
    BY <1>4 DEF Digits
  <2>. QED
    BY <1>4, <2>1, SameDigit
<1>6. ASSUME NEW h \in 0 .. (Len(NumModels) - 1), g < h
      PROVE  Digit(x, Base(h), NumModels[h + 1]) = Digit(b, Base(h), NumModels[h + 1])
  <2>1. g \in Nat /\ h \in Groups
    BY <1>1 DEF Groups
  <2>2. PICK k \in Nat \ {0} : Base(h) = k * (n * m)
    BY <1>6, <2>1, BaseMultiple DEF n, m
  <2>3. Quotient(x, k * (n * m)) = q \div k /\ Quotient(b, k * (n * m)) = q \div k
    BY <1>2, <1>4, HigherDigit
  <2>. QED
    BY <2>2, <2>3 DEF Digit
<1>7. ASSUME NEW h \in 0 .. (Len(NumModels) - 1), h < g
      PROVE  Digit(x, Base(h), NumModels[h + 1]) = Digit(b, Base(h), NumModels[h + 1])
  <2> DEFINE i == NumModels[h + 1]
             j == Base(h)
  <2>1. h \in Nat /\ h \in Groups /\ i \in Nat \ {0} /\ j \in Nat \ {0}
    <3>1. h \in Nat /\ h \in Groups /\ h < Len(NumModels)
      BY <1>1 DEF Groups
    <3>. QED
      BY <3>1, BaseType
  <2>2. PICK k \in Nat \ {0} : m = k * (i * j)
    BY <1>1, <1>7, <2>1, BaseMultiple DEF m
  <2> DEFINE y == v - Digit(b, m, n)
  <2>3. y \in Int
    <3>1. Digit(b, m, n) = c
      BY <1>2, SameDigit
    <3>2. c \in Int
      BY <1>2 DEF Digits
    <3>. QED
      BY <1>1, <3>1, <3>2 DEF n
  <2>4. x = b + y * (k * (i * j))
    BY <1>3, <2>2
  <2>. HIDE DEF i, j, y
  <2>5. Shift(x, b, j, i, y, k)
    BY <1>1, <1>5, <2>1, <2>3, <2>4 DEF Shift
  <2>6. Digit(x, j, i) = Digit(b, j, i)
    BY <2>5, LowerDigit
  <2>. QED
    BY <2>6 DEF i, j
<1>8. \A h \in 0 .. (Len(NumModels) - 1) : h # g => g < h \/ h < g
  BY <1>1
<1>. QED
  BY <1>5, <1>6, <1>7, <1>8 DEF b, m, n

LEMMA BodyStep == ASSUME ModelInv, NEW g \in Nat, NEW v \in Nat, SetBodygroup(g, v) PROVE ModelInv'
<1>1. ent \in Animated /\ now' = now /\ now \in Nat /\ Len(NumModels) \in Nat
  BY BaseType DEF SetBodygroup, ModelInv
<1>2. /\ lastCall'.native = "body" /\ lastCall'.at = g /\ lastCall'.value = v
      /\ lastCall'.before = ent
  BY DEF SetBodygroup, CallOf
<1>3. CASE HasGroup(ent, g) /\ v < NumModels[g + 1]
  <2>1. g \in 0 .. (Len(NumModels) - 1) /\ g \in Groups /\ g < Len(NumModels) /\ ent.model
    BY <1>1, <1>3 DEF HasGroup, Groups
  <2>2. NumModels[g + 1] \in Nat \ {0} /\ v \in 0 .. (NumModels[g + 1] - 1)
    BY <1>3, <2>1, BaseType
  <2> DEFINE x == ent.body + (v - CurrentOf(ent, g)) * Base(g)
  <2>3. ent' = [ent EXCEPT !.body = x]
    BY <1>3 DEF SetBodygroup, ChooseBody
  <2>4. /\ x \in Nat
        /\ Digit(x, Base(g), NumModels[g + 1]) = v
        /\ \A h \in 0 .. (Len(NumModels) - 1) :
              h # g => Digit(x, Base(h), NumModels[h + 1]) = Digit(ent.body, Base(h), NumModels[h + 1])
    BY <1>1, <2>1, <2>2, ChoiceStays
  <2>. HIDE DEF x
  <2>5. ent' \in Animated /\ ent'.body = x /\ ent'.model = ent.model
    BY <1>1, <2>3, <2>4 DEF Animated
  <2>6. [ent' EXCEPT !.body = 0] = [ent EXCEPT !.body = 0]
    BY <1>1, <2>3 DEF Animated
  <2>7. ASSUME NEW h \in 0 .. (Len(NumModels) - 1)
        PROVE  GetBodygroup(ent', h) = IF h = g THEN v ELSE GetBodygroup(ent, h)
    <3>1. CurrentOf(ent', h) = Digit(x, Base(h), NumModels[h + 1])
      BY <2>5, CurrentIs
    <3>2. CurrentOf(ent, h) = Digit(ent.body, Base(h), NumModels[h + 1])
      BY CurrentIs
    <3>3. CurrentOf(ent', h) = IF h = g THEN v ELSE CurrentOf(ent, h)
      BY <2>4, <3>1, <3>2
    <3>4. HasGroup(ent', h) /\ HasGroup(ent, h)
      BY <1>1, <2>1, <2>5 DEF HasGroup
    <3>5. h = g /\ NumModels[h + 1] <= 1 => v = 0
      BY <2>2
    <3>. QED
      BY <3>3, <3>4, <3>5 DEF GetBodygroup
  <2>8. ModelsIntact'
    BY <1>2, <1>3, <2>1, <2>5, <2>6, <2>7 DEF ModelsIntact
  <2>. QED
    BY <1>1, <2>5, <2>8 DEF ModelInv
<1>4. CASE ~(HasGroup(ent, g) /\ v < NumModels[g + 1])
  <2>1. ent' = ent
    BY <1>4 DEF SetBodygroup
  <2>2. ~(ent.model /\ g < Len(NumModels) /\ v < NumModels[g + 1])
    BY <1>4 DEF HasGroup
  <2>3. ModelsIntact'
    BY <1>2, <2>1, <2>2 DEF ModelsIntact
  <2>. QED
    BY <1>1, <2>1, <2>3 DEF ModelInv
<1>. QED
  BY <1>3, <1>4

LEMMA ModelInvStep == ModelInv /\ [ModelsNext]_modelVars => ModelInv'
<1>. SUFFICES ASSUME ModelInv, [ModelsNext]_modelVars PROVE ModelInv'
  OBVIOUS
<1>1. CASE UNCHANGED modelVars
  BY <1>1 DEF modelVars, ModelInv, ModelsIntact, GetBodygroup, HasGroup, CurrentOf
<1>2. ASSUME NEW bone, GetBonePosition(bone) \/ GetAttachment(bone) PROVE ModelInv'
  BY <1>2, BoneStep DEF GetAttachment
<1>3. ASSUME NEW g \in 0 .. Len(NumModels) + 1,
             NEW v \in UNION {0 .. NumModels[i] : i \in DOMAIN NumModels}, SetBodygroup(g, v)
      PROVE  ModelInv'
  <2>1. v \in Nat
    BY ModelsAssumption
  <2>2. g \in Nat
    BY BaseType
  <2>. QED
    BY <1>3, <2>1, <2>2, BodyStep
<1>. QED
  BY <1>1, <1>2, <1>3, GameStep DEF ModelsNext

\* ModelsIntact: a plugin that asks for the place of a bone leaves the entity as
\* it was, although it is moved on for it and back, and SetBodygroup changes what
\* is chosen of one body part and of no other, in any model.
THEOREM ModelsStayIntact == ModelsSpec => []ModelsIntact
<1>1. ModelInv => ModelsIntact
  BY DEF ModelInv
<1>. QED
  BY <1>1, ModelInvInit, ModelInvStep, PTL DEF ModelsSpec

-----------------------------------------------------------------------------
(* Info: strings and their lengths                                           *)

Text == Seq(STRING)

LEMMA CutIs ==
    ASSUME NEW t \in Text, NEW n \in Nat
    PROVE  /\ Cut(t, n) \in Text /\ Len(t) \in Nat /\ Len(Cut(t, n)) \in Nat
           /\ Len(Cut(t, n)) = IF Len(t) < n THEN Len(t) ELSE n
           /\ \A i \in 1 .. Len(Cut(t, n)) : Cut(t, n)[i] = t[i]
           /\ Len(t) <= n => Cut(t, n) = t
<1> DEFINE m == IF Len(t) < n THEN Len(t) ELSE n
           u == SubSeq(t, 1, m)
<1>1. t \in Seq(STRING) /\ Len(t) \in Nat
  BY LenProperties DEF Text
<1>2. m \in Nat /\ m <= Len(t) /\ (Len(t) <= n => m = Len(t))
  BY <1>1
<1>3. Cut(t, n) = u
  BY DEF Cut
<1>. HIDE DEF m
<1>4. u \in Seq(STRING) /\ Len(u) = m /\ \A i \in 1 .. m : u[i] = t[i]
  BY <1>1, <1>2
<1>5. SubSeq(t, 1, Len(t)) = t
  BY <1>1
<1>6. Len(t) <= n => u = t
  BY <1>2, <1>5
<1>. HIDE DEF u
<1>. QED
  BY <1>1, <1>2, <1>3, <1>4, <1>6 DEF Text, m

\* Cutting twice is cutting once, to the shorter length.
LEMMA CutTwice ==
    ASSUME NEW t \in Text, NEW m \in Nat, NEW n \in Nat, m <= n
    PROVE  Cut(Cut(t, n), m) = Cut(t, m)
<1> DEFINE u == Cut(t, n)
           v == Cut(u, m)
           w == Cut(t, m)
<1>1. /\ u \in Text /\ Len(t) \in Nat /\ Len(u) = IF Len(t) < n THEN Len(t) ELSE n
      /\ \A i \in 1 .. Len(u) : u[i] = t[i]
  BY CutIs
<1>. HIDE DEF u
<1>2. /\ v \in Text /\ Len(v) = IF Len(u) < m THEN Len(u) ELSE m
      /\ \A i \in 1 .. Len(v) : v[i] = u[i]
  BY <1>1, CutIs
<1>3. /\ w \in Text /\ Len(w) = IF Len(t) < m THEN Len(t) ELSE m
      /\ \A i \in 1 .. Len(w) : w[i] = t[i]
  BY CutIs
<1>. HIDE DEF v, w
<1>4. Len(v) = Len(w) /\ Len(v) <= Len(u) /\ Len(v) \in Nat /\ Len(u) \in Nat
  BY <1>1, <1>2, <1>3
<1>5. \A i \in 1 .. Len(v) : i \in 1 .. Len(u)
  BY <1>4
<1>6. \A i \in 1 .. Len(v) : v[i] = w[i]
  BY <1>1, <1>2, <1>3, <1>4, <1>5
<1>7. v = w
  BY <1>2, <1>3, <1>4, <1>6, SeqEqual DEF Text
<1>. QED
  BY <1>7 DEF u, v, w

\* Only one text is cut to one that is shorter than the cut.
LEMMA CutSame ==
    ASSUME NEW t \in Text, NEW u \in Text, NEW n \in Nat, Len(u) < n
    PROVE  Cut(t, n) = u <=> t = u
<1>1. Len(t) \in Nat /\ Len(u) \in Nat /\ Len(Cut(t, n)) = IF Len(t) < n THEN Len(t) ELSE n
  BY CutIs
<1>2. Len(t) <= n => Cut(t, n) = t
  BY CutIs
<1>3. CASE Len(t) < n
  BY <1>1, <1>2, <1>3
<1>4. CASE ~(Len(t) < n)
  BY <1>1, <1>4
<1>. QED
  BY <1>3, <1>4

LEMMA CutPrefix == ASSUME NEW t \in Text, NEW n \in Nat PROVE IsPrefix(Cut(t, n), t)
<1> DEFINE u == Cut(t, n)
<1>1. /\ u \in Text /\ Len(t) \in Nat /\ Len(u) \in Nat
      /\ Len(u) = IF Len(t) < n THEN Len(t) ELSE n
      /\ \A i \in 1 .. Len(u) : u[i] = t[i]
  BY CutIs
<1>. HIDE DEF u
<1>2. Len(u) <= Len(t)
  BY <1>1
<1>3. u \in Seq(STRING) /\ t \in Seq(STRING)
  BY <1>1 DEF Text
<1>4. SubSeq(u, 1, Len(u)) = u
  BY <1>3
<1>5. SubSeq(t, 1, Len(u)) = u
  <2> DEFINE v == SubSeq(t, 1, Len(u))
  <2>1. v \in Seq(STRING) /\ Len(v) = Len(u) /\ \A i \in 1 .. Len(u) : v[i] = t[i]
    BY <1>1, <1>2, <1>3
  <2>. HIDE DEF v
  <2>2. v = u
    BY <1>1, <1>3, <2>1, SeqEqual
  <2>. QED
    BY <2>2 DEF v
<1>. QED
  BY <1>2, <1>4, <1>5 DEF IsPrefix, u

\* A key is taken for itself, one that is cut to the buffers for the one that it is
\* cut from, and one that needs no cut for all that begin with it.
LEMMA SameKeyIs ==
    ASSUME NEW key \in Text
    PROVE  /\ SameKey(key, key)
           /\ Given(Cut(key, MaxKeyValue)) = Given(key)
           /\ Len(key) < MaxKeyValue => Given(key) = key /\ Cut(key, MaxKeyValue) = key
<1>1. /\ MaxKeyValue \in Nat /\ MaxKeyValue - 1 \in Nat /\ MaxKeyValue - 1 <= MaxKeyValue
  BY InfoAssumption
<1>2. Len(key) \in Nat
  BY <1>1, CutIs
<1>3. Len(key) < MaxKeyValue => Len(key) <= MaxKeyValue - 1 /\ Len(key) <= MaxKeyValue
  BY <1>1, <1>2
<1>. QED
  BY <1>1, <1>3, CutIs, CutTwice, CutPrefix DEF SameKey, Given

LEMMA SameKeyGiven == \A key, k : SameKey(key, k) <=> IsPrefix(Given(key), k)
BY DEF SameKey, Given

\* f[i] is the first i sequences of q in a row.
Chain(q, n, f, S) ==
    /\ f \in [1 .. n -> Seq(S)]
    /\ \A i \in 1 .. n : f[i] = IF i = 1 THEN q[i] ELSE f[i - 1] \o q[i]

LEMMA ChainExists ==
    ASSUME NEW S, NEW q \in Seq(Seq(S))
    PROVE  \E f : Chain(q, Len(q), f, S)
<1> DEFINE T == {n \in Nat : n <= Len(q) => \E f : Chain(q, n, f, S)}
<1>1. 0 \in T
  <2> DEFINE f == [i \in 1 .. 0 |-> << >>]
  <2>1. f \in [1 .. 0 -> Seq(S)] /\ \A i \in 1 .. 0 : FALSE
    OBVIOUS
  <2>2. Chain(q, 0, f, S)
    BY <2>1 DEF Chain
  <2>. QED
    BY <2>2
<1>2. ASSUME NEW n \in T, n < Len(q) PROVE n + 1 \in T
  <2>1. n \in Nat /\ n + 1 \in 1 .. Len(q) /\ q[n + 1] \in Seq(S)
    BY <1>2
  <2>2. PICK f : Chain(q, n, f, S)
    BY <1>2
  <2> DEFINE x == IF n = 0 THEN q[n + 1] ELSE f[n] \o q[n + 1]
             h == [i \in 1 .. (n + 1) |-> IF i = n + 1 THEN x ELSE f[i]]
  <2>3. x \in Seq(S)
    <3>1. CASE n = 0
      BY <2>1, <3>1
    <3>2. CASE n # 0
      <4>1. f[n] \in Seq(S)
        BY <2>1, <2>2, <3>2 DEF Chain
      <4>. QED
        BY <2>1, <3>2, <4>1, ConcatProperties
    <3>. QED
      BY <3>1, <3>2
  <2>4. \A i \in 1 .. n : f[i] \in Seq(S) /\ i # n + 1 /\ i \in 1 .. (n + 1)
    BY <2>1, <2>2 DEF Chain
  <2>5. \A i \in 1 .. (n + 1) : i = n + 1 \/ (i # n + 1 /\ i \in 1 .. n)
    BY <2>1
  <2>6. h[n + 1] = x /\ \A i \in 1 .. n : h[i] = f[i]
    <3>. HIDE DEF x
    <3>. QED
      BY <2>1, <2>4
  <2>7. h \in [1 .. (n + 1) -> Seq(S)]
    <3>. HIDE DEF x
    <3>. QED
      BY <2>3, <2>4, <2>5
  <2>8. ASSUME NEW i \in 1 .. (n + 1)
        PROVE  h[i] = IF i = 1 THEN q[i] ELSE h[i - 1] \o q[i]
    <3>. HIDE DEF h
    <3>1. CASE i = n + 1
      <4>1. n # 0 => n \in 1 .. n
        BY <2>1
      <4>2. i - 1 = n /\ (i = 1 <=> n = 0)
        BY <2>1, <3>1
      <4>. QED
        BY <2>6, <3>1, <4>1, <4>2
    <3>2. CASE i \in 1 .. n
      <4>1. i # 1 => i - 1 \in 1 .. n
        BY <2>1, <3>2
      <4>2. f[i] = IF i = 1 THEN q[i] ELSE f[i - 1] \o q[i]
        BY <2>2, <3>2 DEF Chain
      <4>. QED
        BY <2>6, <3>2, <4>1, <4>2
    <3>. QED
      BY <2>5, <3>1, <3>2
  <2>9. Chain(q, n + 1, h, S)
    <3>. HIDE DEF h
    <3>. QED
      BY <2>7, <2>8 DEF Chain
  <2>. QED
    BY <2>1, <2>9
<1>3. Len(q) \in Nat /\ Len(q) \in 0 .. Len(q)
  OBVIOUS
<1>4. \A n \in 0 .. Len(q) : n \in T
  <2>1. T \in SUBSET Nat
    OBVIOUS
  <2>. HIDE DEF T
  <2>. QED
    BY <1>1, <1>2, <1>3, <2>1, InductionTo
<1>5. Len(q) \in T
  <2>. HIDE DEF T
  <2>. QED
    BY <1>3, <1>4
<1>. QED
  BY <1>5

\* Sequences that begin alike have chains that do.
LEMMA ChainsAgree ==
    ASSUME NEW S, NEW q, NEW p, NEW n \in Nat, NEW m \in Nat, n <= m,
           NEW f, NEW h, Chain(q, n, f, S), Chain(p, m, h, S),
           \A i \in 1 .. n : p[i] = q[i]
    PROVE  \A i \in 1 .. n : h[i] = f[i]
<1> DEFINE T == {k \in Nat : k \in 1 .. n => h[k] = f[k]}
<1>1. 0 \in T
  OBVIOUS
<1>2. ASSUME NEW k \in T, k < n PROVE k + 1 \in T
  <2>1. k \in Nat /\ k + 1 \in 1 .. n /\ k + 1 \in 1 .. m /\ (k + 1) - 1 = k
    BY <1>2
  <2>2. f[k + 1] = (IF k + 1 = 1 THEN q[k + 1] ELSE f[k] \o q[k + 1])
    BY <2>1 DEF Chain
  <2>3. h[k + 1] = (IF k + 1 = 1 THEN p[k + 1] ELSE h[k] \o p[k + 1])
    BY <2>1 DEF Chain
  <2>4. k + 1 # 1 => k \in 1 .. n /\ h[k] = f[k]
    BY <1>2, <2>1
  <2>. QED
    BY <2>1, <2>2, <2>3, <2>4
<1>3. \A k \in 0 .. n : k \in T
  <2>1. T \in SUBSET Nat
    OBVIOUS
  <2>. HIDE DEF T
  <2>. QED
    BY <1>1, <1>2, <2>1, InductionTo
<1>. QED
  BY <1>3

LEMMA FlattenIs ==
    ASSUME NEW S, NEW q \in Seq(Seq(S)), q # << >>
    PROVE  \E f : Chain(q, Len(q), f, S) /\ FlattenSeq(q) = f[Len(q)]
<1> DEFINE Is(f) == f = [i \in 1 .. Len(q) |-> IF i = 1 THEN q[i] ELSE f[i - 1] \o q[i]]
           g == CHOOSE f : Is(f)
<1>1. Len(q) # 0 /\ Len(q) \in Nat
  BY EmptySeq
<1>2. PICK f : Chain(q, Len(q), f, S)
  BY ChainExists
<1>3. f = [i \in 1 .. Len(q) |-> f[i]]
  BY <1>2 DEF Chain
<1>4. Is(f)
  BY <1>2, <1>3 DEF Chain
<1>5. Is(g)
  <2>. HIDE DEF Is
  <2>. QED
    BY <1>4
<1>6. \A i \in 1 .. Len(q) : g[i] = IF i = 1 THEN q[i] ELSE g[i - 1] \o q[i]
  <2>. HIDE DEF g
  <2>. QED
    BY <1>5
<1>7. FlattenSeq(q) = g[Len(q)]
  BY <1>1 DEF FlattenSeq
<1>. HIDE DEF g
<1> DEFINE T == {k \in Nat : k \in 1 .. Len(q) => g[k] = f[k]}
<1>8. 0 \in T
  OBVIOUS
<1>9. ASSUME NEW k \in T, k < Len(q) PROVE k + 1 \in T
  <2>1. k \in Nat /\ k + 1 \in 1 .. Len(q) /\ (k + 1) - 1 = k
    BY <1>1, <1>9
  <2>2. f[k + 1] = (IF k + 1 = 1 THEN q[k + 1] ELSE f[k] \o q[k + 1])
    BY <1>2, <2>1 DEF Chain
  <2>3. g[k + 1] = (IF k + 1 = 1 THEN q[k + 1] ELSE g[k] \o q[k + 1])
    BY <1>6, <2>1
  <2>4. k + 1 # 1 => k \in 1 .. Len(q) /\ g[k] = f[k]
    BY <1>9, <2>1
  <2>. QED
    BY <2>1, <2>2, <2>3, <2>4
<1>10. \A k \in 0 .. Len(q) : k \in T
  <2>1. T \in SUBSET Nat
    OBVIOUS
  <2>. HIDE DEF T
  <2>. QED
    BY <1>1, <1>8, <1>9, <2>1, InductionTo
<1>11. g[Len(q)] = f[Len(q)]
  BY <1>1, <1>10
<1>. QED
  BY <1>2, <1>7, <1>11

LEMMA FlattenEmpty == FlattenSeq(<< >>) = << >>
BY DEF FlattenSeq

LEMMA FlattenAppend ==
    ASSUME NEW S, NEW q \in Seq(Seq(S)), NEW x \in Seq(S)
    PROVE  /\ FlattenSeq(q) \in Seq(S)
           /\ FlattenSeq(Append(q, x)) = FlattenSeq(q) \o x
<1> DEFINE p == Append(q, x)
<1>1. p \in Seq(Seq(S)) /\ Len(p) = Len(q) + 1 /\ p # << >> /\ Len(q) \in Nat /\ p[Len(p)] = x
      /\ \A i \in 1 .. Len(q) : p[i] = q[i]
  BY AppendProperties
<1>2. PICK h : Chain(p, Len(p), h, S) /\ FlattenSeq(p) = h[Len(p)]
  BY <1>1, FlattenIs
<1>. HIDE DEF p
<1>3. CASE q = << >>
  <2>1. Len(q) = 0 /\ Len(p) = 1 /\ 1 \in 1 .. 1
    BY <1>1, <1>3
  <2>2. h[1] = x
    BY <1>1, <1>2, <2>1 DEF Chain
  <2>3. FlattenSeq(q) = << >> /\ << >> \o x = x /\ << >> \in Seq(S)
    BY <1>3, FlattenEmpty, ConcatEmptySeq
  <2>. QED
    BY <1>2, <2>1, <2>2, <2>3 DEF p
<1>4. CASE q # << >>
  <2>1. PICK f : Chain(q, Len(q), f, S) /\ FlattenSeq(q) = f[Len(q)]
    BY <1>4, FlattenIs
  <2>2. Len(q) \in 1 .. Len(q) /\ Len(p) \in 1 .. Len(p) /\ Len(p) # 1 /\ Len(p) - 1 = Len(q)
    <3>1. Len(q) # 0
      BY <1>4, EmptySeq
    <3>. QED
      BY <1>1, <3>1
  <2>3. \A i \in 1 .. Len(q) : h[i] = f[i]
    <3> DEFINE n == Len(q)
               m == Len(p)
    <3>1. n \in Nat /\ m \in Nat /\ n <= m /\ \A i \in 1 .. n : p[i] = q[i]
      BY <1>1
    <3>2. Chain(q, n, f, S) /\ Chain(p, m, h, S)
      BY <1>2, <2>1
    <3>. HIDE DEF n, m
    <3>3. \A i \in 1 .. n : h[i] = f[i]
      BY <3>1, <3>2, ChainsAgree
    <3>. QED
      BY <3>3 DEF n
  <2>4. h[Len(p)] = h[Len(q)] \o p[Len(p)]
    BY <1>2, <2>2 DEF Chain
  <2>5. f[Len(q)] \in Seq(S)
    BY <2>1, <2>2 DEF Chain
  <2>. QED
    BY <1>1, <1>2, <2>1, <2>2, <2>3, <2>4, <2>5 DEF p
<1>. QED
  BY <1>3, <1>4

-----------------------------------------------------------------------------
(* Info: a string of pairs, one pair after the other                         *)

Strings == {s \in Seq(Text) : Len(s) % 2 = 0}
Pairs(s) == {<<s[i], s[i + 1]>> : i \in WholePairs(s)}
Distinct(s) == \A i, j \in InfoPairs(s) : s[i] = s[j] => i = j
With(s, k, v) == s \o <<k, v>>

LEMMA EmptyString ==
    /\ << >> \in Strings /\ Pairs(<< >>) = {} /\ Distinct(<< >>)
    /\ StringLength(<< >>) = 0
    /\ \A key : Info_RemoveKey(<< >>, key) = << >>
<1>1. Len(<< >>) = 0 /\ DOMAIN << >> = {} /\ << >> \in Seq(Text)
  OBVIOUS
<1>2. InfoPairs(<< >>) = {} /\ WholePairs(<< >>) = {}
  BY <1>1 DEF InfoPairs, WholePairs
<1>3. << >> \in Strings
  BY <1>1 DEF Strings
<1>4. SubSeq(<< >>, 1, Len(<< >>)) = << >>
  OBVIOUS
<1>5. StringLength(<< >>) = 0
  <2>1. Len(FlattenSeq(SubSeq(<< >>, 1, Len(<< >>)))) = 0
    BY <1>1, <1>4, FlattenEmpty
  <2>2. StringLength(<< >>) = Len(<< >>) + Len(FlattenSeq(SubSeq(<< >>, 1, Len(<< >>))))
    BY DEF StringLength, TextLengths
  <2>. QED
    BY <1>1, <2>1, <2>2
<1>6. ASSUME NEW key PROVE Info_RemoveKey(<< >>, key) = << >>
  <2> DEFINE g == [i \in DOMAIN << >> |->
                     IF SameKey(key, << >>[IF i % 2 = 1 THEN i ELSE i - 1]) THEN <<>> ELSE << << >>[i] >>]
  <2>1. g = << >>
    BY <1>1
  <2>. QED
    BY <2>1, FlattenEmpty DEF Info_RemoveKey
<1>. QED
  BY <1>2, <1>3, <1>5, <1>6 DEF Pairs, Distinct

\* e is the string s with the pair of k and v behind it.
Extends(e, s, k, v) ==
    /\ e \in Seq(Text) /\ Len(s) \in Nat /\ Len(e) = Len(s) + 2
    /\ e[Len(s) + 1] = k /\ e[Len(s) + 2] = v
    /\ \A i \in 1 .. Len(s) : e[i] = s[i]
    /\ e = Append(Append(s, k), v)

LEMMA WithIs ==
    ASSUME NEW s \in Seq(Text), NEW k \in Text, NEW v \in Text
    PROVE  Extends(With(s, k, v), s, k, v)
<1> DEFINE e == Append(Append(s, k), v)
<1>1. e \in Seq(Text) /\ Len(e) = Len(s) + 2 /\ Len(s) \in Nat
  OBVIOUS
<1>2. e[Len(s) + 1] = k /\ e[Len(s) + 2] = v /\ \A i \in 1 .. Len(s) : e[i] = s[i]
  OBVIOUS
<1>3. s \o <<k, v>> = e
  OBVIOUS
<1>. HIDE DEF e
<1>. QED
  BY <1>1, <1>2, <1>3 DEF With, Extends, e

LEMMA WithLength ==
    ASSUME NEW s \in Seq(Text), NEW k \in Text, NEW v \in Text
    PROVE  /\ StringLength(s) \in Nat /\ Len(k) \in Nat /\ Len(v) \in Nat
           /\ StringLength(With(s, k, v)) = StringLength(s) + 2 + Len(k) + Len(v)
<1>1. \A t \in Seq(Text) : StringLength(t) = Len(t) + Len(FlattenSeq(t))
  <2>1. \A t \in Seq(Text) : SubSeq(t, 1, Len(t)) = t
    OBVIOUS
  <2>2. \A t : StringLength(t) = Len(t) + Len(FlattenSeq(SubSeq(t, 1, Len(t))))
    BY DEF StringLength, TextLengths
  <2>. QED
    BY <2>1, <2>2
<1>2. FlattenSeq(s) \in Seq(STRING) /\ FlattenSeq(Append(s, k)) = FlattenSeq(s) \o k
  BY FlattenAppend DEF Text
<1>3. Append(s, k) \in Seq(Text)
  OBVIOUS
<1>4. FlattenSeq(Append(Append(s, k), v)) = FlattenSeq(Append(s, k)) \o v
  BY <1>3, FlattenAppend DEF Text
<1>5. k \in Seq(STRING) /\ v \in Seq(STRING)
  BY DEF Text
<1>6. Len(FlattenSeq(Append(Append(s, k), v))) = Len(FlattenSeq(s)) + Len(k) + Len(v)
  BY <1>2, <1>4, <1>5
<1>7. With(s, k, v) \in Seq(Text) /\ Len(With(s, k, v)) = Len(s) + 2 /\ Len(s) \in Nat
      /\ With(s, k, v) = Append(Append(s, k), v)
  <2>1. Extends(With(s, k, v), s, k, v)
    BY WithIs
  <2>. QED
    BY <2>1 DEF Extends
<1>8. Len(FlattenSeq(s)) \in Nat /\ Len(k) \in Nat /\ Len(v) \in Nat
  BY <1>2, <1>5
<1>9. StringLength(With(s, k, v)) = (Len(s) + 2) + Len(FlattenSeq(Append(Append(s, k), v)))
  BY <1>1, <1>7
<1>10. StringLength(s) = Len(s) + Len(FlattenSeq(s))
  BY <1>1
<1>. QED
  BY <1>6, <1>7, <1>8, <1>9, <1>10

LEMMA WithPairs ==
    ASSUME NEW s \in Strings, NEW k \in Text, NEW v \in Text
    PROVE  /\ With(s, k, v) \in Strings
           /\ Pairs(With(s, k, v)) = Pairs(s) \cup {<<k, v>>}
           /\ Distinct(With(s, k, v)) <=> Distinct(s) /\ \A p \in Pairs(s) : p[1] # k
<1> DEFINE e == With(s, k, v)
           n == Len(s) + 1
<1>1. s \in Seq(Text) /\ Len(s) \in Nat /\ Len(s) % 2 = 0
  BY DEF Strings
<1>2. /\ e \in Seq(Text) /\ Len(e) = Len(s) + 2
      /\ e[Len(s) + 1] = k /\ e[Len(s) + 2] = v /\ \A i \in 1 .. Len(s) : e[i] = s[i]
  <2>1. Extends(e, s, k, v)
    BY <1>1, WithIs
  <2>. QED
    BY <2>1 DEF Extends
<1>. HIDE DEF e
<1>3. e \in Strings
  BY <1>1, <1>2 DEF Strings
<1>4. DOMAIN s = 1 .. Len(s) /\ DOMAIN e = 1 .. (Len(s) + 2)
  BY <1>1, <1>2
<1>5. InfoPairs(e) = InfoPairs(s) \cup {n} /\ n \notin InfoPairs(s)
  BY <1>1, <1>4 DEF InfoPairs
<1>6. WholePairs(e) = WholePairs(s) \cup {n} /\ WholePairs(s) = InfoPairs(s)
  BY <1>1, <1>2, <1>4 DEF InfoPairs, WholePairs
<1>7. \A i \in InfoPairs(s) : i \in 1 .. Len(s) /\ i + 1 \in 1 .. Len(s)
  BY <1>1, <1>4 DEF InfoPairs
<1>8. \A i \in InfoPairs(s) : e[i] = s[i] /\ e[i + 1] = s[i + 1]
  BY <1>2, <1>7
<1>9. e[n] = k /\ e[n + 1] = v
  BY <1>1, <1>2
<1>10. Pairs(e) = Pairs(s) \cup {<<k, v>>}
  BY <1>5, <1>6, <1>8, <1>9 DEF Pairs
<1>11. Distinct(e) <=> Distinct(s) /\ \A p \in Pairs(s) : p[1] # k
  <2>1. (\A p \in Pairs(s) : p[1] # k) <=> \A i \in InfoPairs(s) : s[i] # k
    <3>1. Pairs(s) = {<<s[i], s[i + 1]>> : i \in InfoPairs(s)}
      BY <1>6 DEF Pairs
    <3>2. \A i \in InfoPairs(s) : <<s[i], s[i + 1]>>[1] = s[i]
      OBVIOUS
    <3>. QED
      BY <3>1, <3>2
  <2>2. Distinct(e) <=> Distinct(s) /\ \A i \in InfoPairs(s) : s[i] # k
    <3>. HIDE DEF n
    <3>. QED
      BY <1>5, <1>8, <1>9 DEF Distinct
  <2>. QED
    BY <2>1, <2>2
<1>. QED
  BY <1>3, <1>10, <1>11 DEF e

LEMMA WithRemoved ==
    ASSUME NEW s \in Strings, NEW k \in Text, NEW v \in Text, NEW key
    PROVE  /\ Info_RemoveKey(s, key) \in Seq(Text)
           /\ Info_RemoveKey(With(s, k, v), key) =
                IF SameKey(key, k) THEN Info_RemoveKey(s, key)
                ELSE With(Info_RemoveKey(s, key), k, v)
<1> DEFINE e == With(s, k, v)
           Part(t, i) == IF SameKey(key, t[IF i % 2 = 1 THEN i ELSE i - 1]) THEN << >> ELSE << t[i] >>
           g(t) == [i \in DOMAIN t |-> Part(t, i)]
           one(x) == IF SameKey(key, k) THEN << >> ELSE <<x>>
<1>1. s \in Seq(Text) /\ Len(s) \in Nat /\ Len(s) % 2 = 0 /\ DOMAIN s = 1 .. Len(s)
  BY DEF Strings
<1>2. /\ e \in Seq(Text) /\ Len(e) = Len(s) + 2 /\ DOMAIN e = 1 .. (Len(s) + 2)
      /\ e[Len(s) + 1] = k /\ e[Len(s) + 2] = v /\ \A i \in 1 .. Len(s) : e[i] = s[i]
  <2>1. Extends(e, s, k, v)
    BY <1>1, WithIs
  <2>. HIDE DEF e
  <2>2. e \in Seq(Text) /\ Len(e) = Len(s) + 2
    BY <2>1 DEF Extends
  <2>. QED
    BY <2>1, <2>2 DEF Extends
<1>3. Info_RemoveKey(s, key) = FlattenSeq(g(s)) /\ Info_RemoveKey(e, key) = FlattenSeq(g(e))
  BY DEF Info_RemoveKey
<1>. HIDE DEF e
<1>4. \A i \in 1 .. Len(s) : Part(e, i) = Part(s, i) /\ Part(s, i) \in Seq(Text)
  <2>1. \A i \in 1 .. Len(s) : (IF i % 2 = 1 THEN i ELSE i - 1) \in 1 .. Len(s)
    BY <1>1
  <2>2. \A i \in 1 .. Len(s) : s[i] \in Text
    BY <1>1
  <2>3. \A x \in Text : <<x>> \in Seq(Text) /\ << >> \in Seq(Text)
    OBVIOUS
  <2>. QED
    BY <1>2, <2>1, <2>2, <2>3
<1>5. Part(e, Len(s) + 1) = one(k) /\ Part(e, Len(s) + 2) = one(v)
  <2>1. (Len(s) + 1) % 2 = 1 /\ (Len(s) + 2) % 2 = 0 /\ (Len(s) + 2) - 1 = Len(s) + 1
    BY <1>1
  <2>. QED
    BY <1>2, <2>1
<1>6. one(k) \in Seq(Text) /\ one(v) \in Seq(Text)
  OBVIOUS
<1>. HIDE DEF Part, one
<1>7. g(s) \in Seq(Seq(Text)) /\ Len(g(s)) = Len(s)
  BY <1>1, <1>4
<1>8. g(e) = Append(Append(g(s), one(k)), one(v))
  <2> DEFINE a == Append(Append(g(s), one(k)), one(v))
             b == g(s)
  <2>1. \A i \in 1 .. Len(s) : b[i] = Part(s, i)
    BY <1>1
  <2>. HIDE DEF b
  <2>2. /\ a \in Seq(Seq(Text)) /\ Len(a) = Len(s) + 2
        /\ a[Len(s) + 1] = one(k) /\ a[Len(s) + 2] = one(v)
        /\ \A i \in 1 .. Len(s) : a[i] = b[i]
    <3>1. b \in Seq(Seq(Text)) /\ Len(b) = Len(s)
      BY <1>7 DEF b
    <3>2. a = Append(Append(b, one(k)), one(v))
      BY DEF b
    <3>. HIDE DEF a
    <3>. QED
      BY <1>1, <1>6, <3>1, <3>2
  <2>. HIDE DEF a
  <2>3. a = [i \in 1 .. (Len(s) + 2) |-> a[i]]
    BY <2>2
  <2>4. \A i \in 1 .. (Len(s) + 2) : a[i] = Part(e, i)
    <3>1. \A i \in 1 .. (Len(s) + 2) : i \in 1 .. Len(s) \/ i = Len(s) + 1 \/ i = Len(s) + 2
      BY <1>1
    <3>. QED
      BY <1>4, <1>5, <2>1, <2>2, <3>1
  <2>. QED
    BY <1>2, <2>3, <2>4 DEF a
<1>. HIDE DEF g
<1>9. /\ FlattenSeq(g(s)) \in Seq(Text)
      /\ FlattenSeq(Append(g(s), one(k))) = FlattenSeq(g(s)) \o one(k)
  BY <1>6, <1>7, FlattenAppend
<1>10. Append(g(s), one(k)) \in Seq(Seq(Text))
  BY <1>6, <1>7
<1>11. FlattenSeq(g(e)) = (FlattenSeq(g(s)) \o one(k)) \o one(v)
  BY <1>6, <1>8, <1>9, <1>10, FlattenAppend
<1>12. ASSUME NEW t \in Seq(Text)
       PROVE  (t \o << >>) \o << >> = t /\ (t \o <<k>>) \o <<v>> = t \o <<k, v>>
  <2>1. t \o << >> = t
    OBVIOUS
  <2>2. t \o <<k>> = Append(t, k) /\ Append(t, k) \in Seq(Text)
    OBVIOUS
  <2>3. \A u \in Seq(Text) : u \o <<v>> = Append(u, v)
    OBVIOUS
  <2>4. t \o <<k, v>> = Append(Append(t, k), v)
    BY WithIs DEF With, Extends
  <2>. QED
    BY <2>1, <2>2, <2>3, <2>4
<1>13. CASE SameKey(key, k)
  BY <1>3, <1>9, <1>11, <1>12, <1>13 DEF one, e
<1>14. CASE ~SameKey(key, k)
  BY <1>3, <1>9, <1>11, <1>12, <1>14 DEF one, e, With
<1>. QED
  BY <1>13, <1>14

\* What holds of the empty string, and of a string with one pair more, holds of all.
LEMMA PairByPair ==
    ASSUME NEW W, << >> \in W, \A s \in Strings \cap W : \A k, v \in Text : With(s, k, v) \in W
    PROVE  Strings \subseteq W
<1>. SUFFICES ASSUME NEW s \in Strings PROVE s \in W
  OBVIOUS
<1>1. s \in Seq(Text) /\ Len(s) \in Nat /\ Len(s) % 2 = 0
  BY DEF Strings
<1>2. PICK m \in Nat : Len(s) = 2 * m
  BY <1>1
<1> DEFINE T == {n \in Nat : n <= m => SubSeq(s, 1, 2 * n) \in W}
<1>3. 0 \in T
  <2>1. SubSeq(s, 1, 2 * 0) = << >>
    BY <1>1
  <2>. QED
    BY <2>1
<1>4. ASSUME NEW n \in T, n < m PROVE n + 1 \in T
  <2> DEFINE t == SubSeq(s, 1, 2 * n)
             i == 2 * n
  <2>1. n \in Nat /\ i \in Nat /\ i + 2 <= Len(s) /\ 2 * (n + 1) = i + 2 /\ i % 2 = 0
    BY <1>2, <1>4
  <2>. HIDE DEF i
  <2>2. t = SubSeq(s, 1, i)
    BY DEF i
  <2>3. t \in Seq(Text) /\ Len(t) = i /\ \A j \in 1 .. i : t[j] = s[j]
    BY <1>1, <2>1, <2>2
  <2>4. t \in Strings \cap W
    <3>1. t \in W
      BY <1>4
    <3>. HIDE DEF t
    <3>. QED
      BY <2>1, <2>3, <3>1 DEF Strings
  <2>. HIDE DEF t
  <2>5. s[i + 1] \in Text /\ s[i + 2] \in Text
    BY <1>1, <2>1
  <2>6. SubSeq(s, 1, i + 2) = With(t, s[i + 1], s[i + 2])
    <3> DEFINE a == SubSeq(s, 1, i + 2)
               b == With(t, s[i + 1], s[i + 2])
    <3>1. a \in Seq(Text) /\ Len(a) = i + 2 /\ \A j \in 1 .. (i + 2) : a[j] = s[j]
      BY <1>1, <2>1
    <3>2. /\ b \in Seq(Text) /\ Len(b) = i + 2
          /\ b[i + 1] = s[i + 1] /\ b[i + 2] = s[i + 2] /\ \A j \in 1 .. i : b[j] = t[j]
      <4>1. Extends(b, t, s[i + 1], s[i + 2])
        BY <2>3, <2>5, WithIs
      <4>. HIDE DEF b
      <4>. QED
        BY <2>3, <4>1 DEF Extends
    <3>. HIDE DEF a, b
    <3>3. \A j \in 1 .. (i + 2) : j \in 1 .. i \/ j = i + 1 \/ j = i + 2
      BY <2>1
    <3>4. \A j \in 1 .. (i + 2) : a[j] = b[j]
      BY <2>3, <3>1, <3>2, <3>3
    <3>5. a = b
      BY <3>1, <3>2, <3>4, SeqEqual
    <3>. QED
      BY <3>5 DEF a, b
  <2>7. SubSeq(s, 1, 2 * (n + 1)) \in W
    BY <2>1, <2>4, <2>5, <2>6
  <2>. QED
    BY <2>1, <2>7
<1>5. m \in T
  <2>1. T \in SUBSET Nat /\ m \in 0 .. m
    OBVIOUS
  <2>. HIDE DEF T
  <2>. QED
    BY <1>3, <1>4, <2>1, InductionTo
<1>6. SubSeq(s, 1, Len(s)) = s
  BY <1>1
<1>7. SubSeq(s, 1, 2 * m) \in W
  BY <1>5
<1>. HIDE DEF T
<1>. QED
  BY <1>2, <1>6, <1>7

-----------------------------------------------------------------------------
(* Info: removing a key, and the value of one                                *)

\* r is the string s without the keys that begin with key.
Removed(r, s, key) ==
    /\ r \in Strings /\ Pairs(r) = {p \in Pairs(s) : ~SameKey(key, p[1])}
    /\ Distinct(s) => Distinct(r)
    /\ StringLength(s) \in Nat /\ StringLength(r) \in Nat /\ StringLength(r) <= StringLength(s)
    /\ Len(s) \in Nat /\ Len(r) \in Nat /\ Len(r) <= Len(s)
    /\ (\E p \in Pairs(s) : SameKey(key, p[1])) => Len(r) < Len(s)

LEMMA RemoveKeyIs ==
    ASSUME NEW s \in Strings, NEW key
    PROVE  Removed(Info_RemoveKey(s, key), s, key)
<1> DEFINE W == {t \in Strings : Removed(Info_RemoveKey(t, key), t, key)}
<1>1. << >> \in W
  <2>1. Removed(<< >>, << >>, key)
    <3>1. Len(<< >>) = 0
      OBVIOUS
    <3>. QED
      BY <3>1, EmptyString DEF Removed
  <2>. QED
    BY <2>1, EmptyString
<1>2. ASSUME NEW t \in Strings \cap W, NEW k \in Text, NEW v \in Text PROVE With(t, k, v) \in W
  <2> DEFINE e == With(t, k, v)
             r == Info_RemoveKey(t, key)
             q == Info_RemoveKey(e, key)
  <2>1. Removed(r, t, key)
    BY <1>2
  <2>2. q = IF SameKey(key, k) THEN r ELSE With(r, k, v)
    BY WithRemoved
  <2>3. e \in Strings /\ Pairs(e) = Pairs(t) \cup {<<k, v>>}
        /\ (Distinct(e) <=> Distinct(t) /\ \A p \in Pairs(t) : p[1] # k)
    BY WithPairs
  <2>4. t \in Seq(Text)
    BY DEF Strings
  <2>5. StringLength(t) \in Nat /\ Len(k) \in Nat /\ Len(v) \in Nat
        /\ StringLength(e) = StringLength(t) + 2 + Len(k) + Len(v)
    BY <2>4, WithLength
  <2>6. Len(e) = Len(t) + 2 /\ Len(t) \in Nat
    BY <2>4, WithIs DEF Extends
  <2>7. <<k, v>>[1] = k
    OBVIOUS
  <2>. HIDE DEF e, r, q
  <2>8. ASSUME SameKey(key, k) PROVE Removed(q, e, key)
    <3>1. q = r
      BY <2>2, <2>8
    <3>2. {p \in Pairs(e) : ~SameKey(key, p[1])} = {p \in Pairs(t) : ~SameKey(key, p[1])}
      BY <2>3, <2>7, <2>8
    <3>3. r \in Strings /\ Pairs(r) = {p \in Pairs(e) : ~SameKey(key, p[1])}
          /\ (Distinct(e) => Distinct(r))
      BY <2>1, <2>3, <3>2 DEF Removed
    <3>4. StringLength(r) \in Nat /\ StringLength(r) <= StringLength(t)
          /\ Len(r) \in Nat /\ Len(r) <= Len(t)
      BY <2>1 DEF Removed
    <3>5. StringLength(e) \in Nat /\ StringLength(r) <= StringLength(e)
          /\ Len(e) \in Nat /\ Len(r) < Len(e) /\ Len(r) <= Len(e)
      BY <2>5, <2>6, <3>4
    <3>. QED
      BY <2>5, <3>1, <3>3, <3>4, <3>5 DEF Removed
  <2>9. ASSUME ~SameKey(key, k) PROVE Removed(q, e, key)
    <3>1. q = With(r, k, v) /\ r \in Strings
      BY <2>1, <2>2, <2>9 DEF Removed
    <3>2. r \in Seq(Text)
      BY <3>1 DEF Strings
    <3>3. q \in Strings /\ Pairs(q) = Pairs(r) \cup {<<k, v>>}
          /\ (Distinct(q) <=> Distinct(r) /\ \A p \in Pairs(r) : p[1] # k)
      BY <3>1, WithPairs
    <3>4. StringLength(r) \in Nat /\ StringLength(q) = StringLength(r) + 2 + Len(k) + Len(v)
      BY <3>1, <3>2, WithLength
    <3>5. Len(q) = Len(r) + 2 /\ Len(r) \in Nat
      BY <3>1, <3>2, WithIs DEF Extends
    <3>6. Pairs(r) = {p \in Pairs(t) : ~SameKey(key, p[1])}
      BY <2>1 DEF Removed
    <3>7. Pairs(q) = {p \in Pairs(e) : ~SameKey(key, p[1])}
      BY <2>3, <2>7, <2>9, <3>3, <3>6
    <3>8. Distinct(e) => Distinct(q)
      BY <2>1, <2>3, <3>3, <3>6 DEF Removed
    <3>9. StringLength(r) <= StringLength(t) /\ Len(r) <= Len(t)
      BY <2>1 DEF Removed
    <3>10. StringLength(e) \in Nat /\ StringLength(q) \in Nat /\ StringLength(q) <= StringLength(e)
           /\ Len(e) \in Nat /\ Len(q) \in Nat /\ Len(q) <= Len(e)
      BY <2>5, <2>6, <3>4, <3>5, <3>9
    <3>11. (\E p \in Pairs(e) : SameKey(key, p[1])) => Len(q) < Len(e)
      <4>1. SUFFICES ASSUME NEW p \in Pairs(e), SameKey(key, p[1]) PROVE Len(q) < Len(e)
        OBVIOUS
      <4>2. p \in Pairs(t)
        BY <2>3, <2>7, <2>9, <4>1
      <4>3. Len(r) < Len(t)
        BY <2>1, <4>1, <4>2 DEF Removed
      <4>. QED
        BY <2>6, <3>5, <4>3
    <3>. QED
      BY <3>3, <3>7, <3>8, <3>10, <3>11 DEF Removed
  <2>10. e \in Strings /\ Removed(q, e, key)
    BY <2>3, <2>8, <2>9
  <2>11. With(t, k, v) \in Strings /\ Removed(Info_RemoveKey(With(t, k, v), key), With(t, k, v), key)
    BY <2>10 DEF e, q
  <2>. QED
    BY <2>11
<1>3. Strings \subseteq W
  <2>. HIDE DEF W
  <2>. QED
    BY <1>1, <1>2, PairByPair
<1>. QED
  BY <1>3

LEMMA PairsAre ==
    ASSUME NEW s \in Strings
    PROVE  /\ WholePairs(s) = InfoPairs(s)
           /\ \A i \in InfoPairs(s) : s[i] \in Text /\ s[i + 1] \in Text /\ i \in Nat
           /\ InfoKeys(s) = {p[1] : p \in Pairs(s)}
           /\ \A p \in Pairs(s) : p[1] \in Text /\ p[2] \in Text
<1>1. s \in Seq(Text) /\ Len(s) \in Nat /\ Len(s) % 2 = 0 /\ DOMAIN s = 1 .. Len(s)
  BY DEF Strings
<1>2. WholePairs(s) = InfoPairs(s)
  BY <1>1 DEF WholePairs, InfoPairs
<1>3. \A i \in InfoPairs(s) : i \in 1 .. Len(s) /\ i + 1 \in 1 .. Len(s)
  BY <1>1 DEF InfoPairs
<1>4. \A i \in InfoPairs(s) : s[i] \in Text /\ s[i + 1] \in Text /\ i \in Nat
  BY <1>1, <1>3
<1>5. Pairs(s) = {<<s[i], s[i + 1]>> : i \in InfoPairs(s)}
  BY <1>2 DEF Pairs
<1>6. \A i \in InfoPairs(s) : <<s[i], s[i + 1]>>[1] = s[i] /\ <<s[i], s[i + 1]>>[2] = s[i + 1]
  OBVIOUS
<1>7. InfoKeys(s) = {p[1] : p \in Pairs(s)}
  <2>1. ASSUME NEW k \in InfoKeys(s) PROVE \E p \in Pairs(s) : k = p[1]
    BY <1>5, <1>6 DEF InfoKeys
  <2>2. ASSUME NEW p \in Pairs(s) PROVE p[1] \in InfoKeys(s)
    BY <1>5, <1>6 DEF InfoKeys
  <2>. QED
    BY <2>1, <2>2
<1>8. \A p \in Pairs(s) : p[1] \in Text /\ p[2] \in Text
  BY <1>4, <1>5, <1>6
<1>. QED
  BY <1>2, <1>4, <1>7, <1>8

\* The pairs of which the keys may go when an important key needs room.
MayGo(p) == p[1] \notin Important \/ Len(p[1]) > MaxKeyValue \/ Len(p[2]) > MaxKeyValue

LEMMA DroppableIs ==
    ASSUME NEW s PROVE Droppable(s) = {p[1] : p \in {q \in Pairs(s) : MayGo(q)}}
<1>1. \A i : <<s[i], s[i + 1]>>[1] = s[i] /\ <<s[i], s[i + 1]>>[2] = s[i + 1]
  OBVIOUS
<1>2. \A i : MayGo(<<s[i], s[i + 1]>>) <=> s[i] \notin Important \/ Oversized(s, i)
  BY <1>1 DEF MayGo, Oversized
<1>3. ASSUME NEW k \in Droppable(s) PROVE \E p \in Pairs(s) : MayGo(p) /\ k = p[1]
  <2>1. PICK i \in WholePairs(s) : k = s[i] /\ (s[i] \notin Important \/ Oversized(s, i))
    BY DEF Droppable
  <2>2. <<s[i], s[i + 1]>> \in Pairs(s)
    BY DEF Pairs
  <2>. QED
    BY <1>1, <1>2, <2>1, <2>2
<1>4. ASSUME NEW p \in Pairs(s), MayGo(p) PROVE p[1] \in Droppable(s)
  <2>1. PICK i \in WholePairs(s) : p = <<s[i], s[i + 1]>>
    BY DEF Pairs
  <2>. QED
    BY <1>1, <1>2, <1>4, <2>1 DEF Droppable
<1>. QED
  BY <1>3, <1>4

LEMMA DroppableGrows ==
    ASSUME NEW t, NEW s, Pairs(t) \subseteq Pairs(s) PROVE Droppable(t) \subseteq Droppable(s)
BY DroppableIs

LEMMA ValueIs ==
    ASSUME NEW s \in Strings, Distinct(s)
    PROVE  /\ \A p \in Pairs(s) : Len(p[1]) < MaxKeyValue =>
                 Info_ValueForKey(s, p[1]) = Cut(p[2], MaxKeyValue)
           /\ \A key \in Text : Len(key) < MaxKeyValue /\ key \notin InfoKeys(s) =>
                 Info_ValueForKey(s, key) = Nothing
<1>0. ASSUME NEW key \in Text, Len(key) < MaxKeyValue
      PROVE  {j \in WholePairs(s) : Cut(s[j], MaxKeyValue) = key} = {j \in WholePairs(s) : s[j] = key}
  BY <1>0, PairsAre, CutSame, InfoAssumption
<1>1. ASSUME NEW p \in Pairs(s), Len(p[1]) < MaxKeyValue
      PROVE  Info_ValueForKey(s, p[1]) = Cut(p[2], MaxKeyValue)
  <2>1. PICK i \in WholePairs(s) : p = <<s[i], s[i + 1]>>
    BY DEF Pairs
  <2>2. p[1] = s[i] /\ p[2] = s[i + 1] /\ i \in InfoPairs(s) /\ i \in Nat
    BY <2>1, PairsAre
  <2>5. {j \in WholePairs(s) : s[j] = p[1]} = {i}
    BY <2>1, <2>2, PairsAre DEF Distinct
  <2>3. {j \in WholePairs(s) : Cut(s[j], MaxKeyValue) = p[1]} = {i}
    BY <1>0, <1>1, <2>5, PairsAre
  <2>4. Min({i}) = i
    BY <2>2 DEF Min
  <2>. QED
    BY <2>2, <2>3, <2>4 DEF Info_ValueForKey
<1>2. ASSUME NEW key \in Text, Len(key) < MaxKeyValue, key \notin InfoKeys(s)
      PROVE  Info_ValueForKey(s, key) = Nothing
  <2>1. {j \in WholePairs(s) : s[j] = key} = {}
    BY <1>2, PairsAre DEF InfoKeys
  <2>2. {j \in WholePairs(s) : Cut(s[j], MaxKeyValue) = key} = {}
    BY <1>0, <1>2, <2>1
  <2>. QED
    BY <2>2 DEF Info_ValueForKey
<1>. QED
  BY <1>1, <1>2

LEMMA WellFormedIs ==
    ASSUME NEW s \in Seq(Text)
    PROVE  WellFormed(s) <=> /\ s \in Strings /\ Distinct(s) /\ Nothing \notin InfoKeys(s)
                             /\ StringLength(s) < MaxInfoString
<1> DEFINE P == InfoPairs(s)
           K == InfoKeys(s)
           f == [i \in P |-> s[i]]
<1>1. IsFiniteSet(P)
  <2>1. DOMAIN s = 1 .. Len(s) /\ Len(s) \in Nat
    OBVIOUS
  <2>2. IsFiniteSet(1 .. Len(s)) /\ P \subseteq 1 .. Len(s)
    BY <2>1, FS_Interval DEF InfoPairs
  <2>. QED
    BY <2>2, FS_Subset
<1>2. f \in Surjection(P, K)
  BY DEF Surjection, InfoKeys
<1>3. Cardinality(K) = Cardinality(P) <=> f \in Injection(P, K)
  BY <1>1, <1>2, FS_Surjection
<1>4. f \in Injection(P, K) <=> \A i, j \in P : s[i] = s[j] => i = j
  BY <1>2 DEF Injection, Surjection, IsInjective
<1>. QED
  BY <1>3, <1>4 DEF WellFormed, Distinct, Strings

-----------------------------------------------------------------------------
(* Info: strings with a key that has no value, which plugins may leave       *)

LEMMA LastRemoved ==
    ASSUME NEW s \in Strings, NEW k \in Text, NEW key
    PROVE  Info_RemoveKey(Append(s, k), key) =
                IF SameKey(key, k) THEN Info_RemoveKey(s, key) ELSE Append(Info_RemoveKey(s, key), k)
<1> DEFINE e == Append(s, k)
           Part(t, i) == IF SameKey(key, t[IF i % 2 = 1 THEN i ELSE i - 1]) THEN << >> ELSE << t[i] >>
           g(t) == [i \in DOMAIN t |-> Part(t, i)]
           one == IF SameKey(key, k) THEN << >> ELSE <<k>>
<1>1. s \in Seq(Text) /\ Len(s) \in Nat /\ Len(s) % 2 = 0 /\ DOMAIN s = 1 .. Len(s)
  BY DEF Strings
<1>2. /\ e \in Seq(Text) /\ Len(e) = Len(s) + 1 /\ DOMAIN e = 1 .. (Len(s) + 1)
      /\ e[Len(s) + 1] = k /\ \A i \in 1 .. Len(s) : e[i] = s[i]
  BY <1>1
<1>3. Info_RemoveKey(s, key) = FlattenSeq(g(s)) /\ Info_RemoveKey(e, key) = FlattenSeq(g(e))
  BY DEF Info_RemoveKey
<1>. HIDE DEF e
<1>4. \A i \in 1 .. Len(s) : Part(e, i) = Part(s, i) /\ Part(s, i) \in Seq(Text)
  <2>1. \A i \in 1 .. Len(s) : (IF i % 2 = 1 THEN i ELSE i - 1) \in 1 .. Len(s)
    BY <1>1
  <2>2. \A i \in 1 .. Len(s) : s[i] \in Text
    BY <1>1
  <2>3. \A x \in Text : <<x>> \in Seq(Text) /\ << >> \in Seq(Text)
    OBVIOUS
  <2>. QED
    BY <1>2, <2>1, <2>2, <2>3
<1>5. Part(e, Len(s) + 1) = one
  <2>1. (Len(s) + 1) % 2 = 1
    BY <1>1
  <2>. QED
    BY <1>2, <2>1
<1>6. one \in Seq(Text)
  OBVIOUS
<1>. HIDE DEF Part, one
<1>7. g(s) \in Seq(Seq(Text)) /\ Len(g(s)) = Len(s)
  BY <1>1, <1>4
<1>8. g(e) = Append(g(s), one)
  <2> DEFINE a == Append(g(s), one)
             b == g(s)
  <2>1. \A i \in 1 .. Len(s) : b[i] = Part(s, i)
    BY <1>1
  <2>. HIDE DEF b
  <2>2. /\ a \in Seq(Seq(Text)) /\ Len(a) = Len(s) + 1
        /\ a[Len(s) + 1] = one /\ \A i \in 1 .. Len(s) : a[i] = b[i]
    <3>1. b \in Seq(Seq(Text)) /\ Len(b) = Len(s)
      BY <1>7 DEF b
    <3>2. a = Append(b, one)
      BY DEF b
    <3>. HIDE DEF a
    <3>. QED
      BY <1>1, <1>6, <3>1, <3>2
  <2>. HIDE DEF a
  <2>3. a = [i \in 1 .. (Len(s) + 1) |-> a[i]]
    BY <2>2
  <2>4. \A i \in 1 .. (Len(s) + 1) : a[i] = Part(e, i)
    <3>1. \A i \in 1 .. (Len(s) + 1) : i \in 1 .. Len(s) \/ i = Len(s) + 1
      BY <1>1
    <3>. QED
      BY <1>4, <1>5, <2>1, <2>2, <3>1
  <2>. QED
    BY <1>2, <2>3, <2>4 DEF a
<1>. HIDE DEF g
<1>9. FlattenSeq(g(s)) \in Seq(Text) /\ FlattenSeq(g(e)) = FlattenSeq(g(s)) \o one
  BY <1>6, <1>7, <1>8, FlattenAppend
<1>10. \A t \in Seq(Text) : t \o << >> = t /\ t \o <<k>> = Append(t, k)
  OBVIOUS
<1>. QED
  BY <1>3, <1>9, <1>10 DEF one, e

\* Any string gets shorter if a key is removed that it has.
Shortened(r, s, key) ==
    /\ r \in Seq(Text) /\ Len(r) \in Nat /\ Len(s) \in Nat /\ Len(r) <= Len(s)
    /\ (\E i \in InfoPairs(s) : SameKey(key, s[i])) => Len(r) < Len(s)

LEMMA RemoveShortens ==
    ASSUME NEW s \in Seq(Text), NEW key
    PROVE  Shortened(Info_RemoveKey(s, key), s, key)
<1>1. \A t \in Strings : Shortened(Info_RemoveKey(t, key), t, key)
  <2>. TAKE t \in Strings
  <2> DEFINE r == Info_RemoveKey(t, key)
  <2>1. Removed(r, t, key)
    BY RemoveKeyIs
  <2>. HIDE DEF r
  <2>2. \A i \in InfoPairs(t) : \E p \in Pairs(t) : p[1] = t[i]
    BY PairsAre DEF InfoKeys
  <2>3. Shortened(r, t, key)
    BY <2>1, <2>2 DEF Removed, Shortened, Strings
  <2>. QED
    BY <2>3 DEF r
<1>2. Len(s) \in Nat /\ (Len(s) % 2 = 0 \/ Len(s) % 2 = 1)
  OBVIOUS
<1>3. CASE Len(s) % 2 = 0
  BY <1>1, <1>3 DEF Strings
<1>4. CASE Len(s) % 2 = 1
  <2> DEFINE n == Len(s) - 1
             t == SubSeq(s, 1, n)
             k == s[Len(s)]
             r == Info_RemoveKey(t, key)
             q == Info_RemoveKey(s, key)
  <2>1. n \in Nat /\ Len(s) = n + 1 /\ n % 2 = 0 /\ n <= Len(s)
    BY <1>2, <1>4
  <2>2. t \in Seq(Text) /\ Len(t) = n /\ \A i \in 1 .. n : t[i] = s[i]
    BY <2>1
  <2>3. k \in Text
    BY <2>1
  <2>4. s = Append(t, k)
    <3> DEFINE a == Append(t, k)
    <3>. HIDE DEF n, t, k
    <3>1. a \in Seq(Text) /\ Len(a) = n + 1 /\ a[n + 1] = k /\ \A i \in 1 .. n : a[i] = t[i]
      BY <2>1, <2>2, <2>3
    <3>. HIDE DEF a
    <3>2. \A i \in 1 .. Len(s) : i \in 1 .. n \/ i = n + 1
      BY <2>1
    <3>3. k = s[n + 1]
      BY <2>1 DEF k
    <3>4. s = a
      BY <2>1, <2>2, <3>1, <3>2, <3>3, SeqEqual
    <3>. QED
      BY <3>4 DEF a
  <2>5. t \in Strings
    BY <2>1, <2>2 DEF Strings
  <2>. HIDE DEF n, t, k
  <2>6. q = IF SameKey(key, k) THEN r ELSE Append(r, k)
    BY <2>3, <2>4, <2>5, LastRemoved
  <2>7. Shortened(r, t, key)
    BY <1>1, <2>5
  <2>8. r \in Seq(Text) /\ Len(r) \in Nat /\ Len(r) <= n
    BY <2>2, <2>7 DEF Shortened
  <2>. HIDE DEF q, r
  <2>9. q \in Seq(Text) /\ (SameKey(key, k) => Len(q) = Len(r)) /\ (~SameKey(key, k) => Len(q) = Len(r) + 1)
    BY <2>3, <2>6, <2>8
  <2>10. \A i \in InfoPairs(s) : i \in InfoPairs(t) \/ i = n + 1
    BY <2>1, <2>2 DEF InfoPairs
  <2>11. k = s[n + 1] /\ \A i \in InfoPairs(t) : t[i] = s[i]
    BY <2>1, <2>2 DEF InfoPairs, k
  <2>12. ASSUME NEW i \in InfoPairs(s), SameKey(key, s[i]) PROVE Len(q) < Len(s)
    <3>1. CASE SameKey(key, k)
      BY <2>1, <2>8, <2>9, <3>1
    <3>2. CASE ~SameKey(key, k)
      <4>1. i \in InfoPairs(t) /\ SameKey(key, t[i])
        BY <2>10, <2>11, <2>12, <3>2
      <4>2. Len(r) < n
        BY <2>2, <2>7, <4>1 DEF Shortened
      <4>. QED
        BY <2>1, <2>8, <2>9, <3>2, <4>2
    <3>. QED
      BY <3>1, <3>2
  <2>13. Len(q) \in Nat /\ Len(q) <= Len(s)
    BY <2>1, <2>8, <2>9
  <2>14. Shortened(q, s, key)
    BY <1>2, <2>9, <2>12, <2>13 DEF Shortened
  <2>. QED
    BY <2>14 DEF q
<1>. QED
  BY <1>2, <1>3, <1>4

-----------------------------------------------------------------------------
(* Info: dropping the largest pairs                                          *)

LEMMA MinIs ==
    ASSUME NEW S \in SUBSET Nat, S # {}
    PROVE  Min(S) \in S /\ \A n \in S : Min(S) <= n
BY LeastNumber DEF Min

\* The key that is removed next is that of a pair, as far as it is compared, and
\* one that may go if every key has a value.
LEMMA LargestIs ==
    ASSUME NEW s \in Seq(Text), Info_FindLargestKey(s) # Nothing
    PROVE  \E i \in InfoPairs(s) : /\ Given(Info_FindLargestKey(s)) = Given(s[i])
                                   /\ Len(s) % 2 = 0 => s[i] \in Droppable(s)
<1> DEFINE R == {i \in InfoPairs(s) : i \notin WholePairs(s) \/ Oversized(s, i)}
           D == {i \in WholePairs(s) : s[i] \notin Important /\ PairSize(s, i) > 0}
           L == {i \in D : \A j \in D : PairSize(s, j) <= PairSize(s, i)}
<1>1. Len(s) \in Nat /\ (Len(s) % 2 = 0 \/ Len(s) % 2 = 1) /\ DOMAIN s = 1 .. Len(s)
  OBVIOUS
<1>4. Info_FindLargestKey(s) = IF R # {} THEN Cut(s[Min(R)], MaxKeyValue)
                               ELSE IF D = {} THEN Nothing ELSE s[Min(L)]
  BY DEF Info_FindLargestKey
<1>2. CASE R # {}
  <2>1. R \in SUBSET Nat
    BY <1>1 DEF InfoPairs
  <2> DEFINE i == Min(R)
  <2>2. i \in R
    <3>. HIDE DEF R
    <3>. QED
      BY <1>2, <2>1, MinIs
  <2>3. i \in InfoPairs(s) /\ s[i] \in Text
    BY <1>1, <2>2 DEF InfoPairs
  <2>4. ASSUME Len(s) % 2 = 0 PROVE s[i] \in Droppable(s)
    <3>1. s \in Strings
      BY <2>4 DEF Strings
    <3>2. WholePairs(s) = InfoPairs(s)
      BY <3>1, PairsAre
    <3>3. i \in WholePairs(s) /\ Oversized(s, i)
      BY <2>2, <3>2
    <3>. HIDE DEF i
    <3>. QED
      BY <3>3 DEF Droppable
  <2>. HIDE DEF i, R
  <2>5. Info_FindLargestKey(s) = Cut(s[i], MaxKeyValue)
    BY <1>2, <1>4 DEF i
  <2>6. Given(Info_FindLargestKey(s)) = Given(s[i])
    BY <2>3, <2>5, SameKeyIs
  <2>. QED
    BY <2>3, <2>4, <2>6
<1>3. CASE R = {}
  <2> DEFINE Top(n) == D \cap 1 .. n = {} \/
                         \E i \in D \cap 1 .. n : \A j \in D \cap 1 .. n : PairSize(s, j) <= PairSize(s, i)
  <2>0. Len(s) % 2 = 0
    <3>. SUFFICES ASSUME Len(s) % 2 = 1 PROVE FALSE
      BY <1>1
    <3>1. Len(s) \in InfoPairs(s) /\ Len(s) \notin WholePairs(s)
      BY <1>1 DEF InfoPairs, WholePairs
    <3>. QED
      BY <1>3, <3>1
  <2>1. D # {} /\ Info_FindLargestKey(s) = s[Min(L)]
    BY <1>3, <1>4
  <2>2. s \in Strings
    BY <2>0 DEF Strings
  <2>3. \A i \in D : i \in 1 .. Len(s) /\ i \in InfoPairs(s) /\ s[i] \in Droppable(s)
    BY <1>1, <2>2, PairsAre DEF InfoPairs, Droppable
  <2>4. \A i \in D : PairSize(s, i) \in Nat
    <3>. HIDE DEF D
    <3>. SUFFICES ASSUME NEW i \in D PROVE PairSize(s, i) \in Nat
      OBVIOUS
    <3>1. s[i] \in Seq(STRING) /\ s[i + 1] \in Seq(STRING)
      BY <2>2, <2>3, PairsAre DEF Text
    <3>2. Len(s[i]) \in Nat /\ Len(s[i + 1]) \in Nat
      BY <3>1, LenProperties
    <3>3. \A m, n \in Nat : m + n \in Nat
      OBVIOUS
    <3>. QED
      BY <3>2, <3>3, Zenon DEF PairSize
  <2>. HIDE DEF D
  <2> DEFINE T == {n \in Nat : Top(n)}
  <2>5. 0 \in T
    OBVIOUS
  <2>6. ASSUME NEW n \in T PROVE n + 1 \in T
    <3>1. n \in Nat /\ Top(n) /\ 1 .. (n + 1) = (1 .. n) \cup {n + 1}
      BY <2>6
    <3>. HIDE DEF T
    <3>2. Top(n + 1)
      <4>1. CASE n + 1 \notin D
        <5>1. D \cap 1 .. (n + 1) = D \cap 1 .. n
          BY <3>1, <4>1
        <5>. QED
          BY <3>1, <5>1
      <4>2. CASE n + 1 \in D /\ D \cap 1 .. n = {}
        <5>1. D \cap 1 .. (n + 1) = {n + 1}
          BY <3>1, <4>2
        <5>2. PairSize(s, n + 1) <= PairSize(s, n + 1)
          BY <2>4, <4>2
        <5>. QED
          BY <5>1, <5>2
      <4>3. CASE n + 1 \in D /\ D \cap 1 .. n # {}
        <5>1. PICK i \in D \cap 1 .. n : \A j \in D \cap 1 .. n : PairSize(s, j) <= PairSize(s, i)
          BY <3>1, <4>3
        <5>2. D \cap 1 .. (n + 1) = (D \cap 1 .. n) \cup {n + 1}
          BY <3>1, <4>3
        <5>3. CASE PairSize(s, n + 1) <= PairSize(s, i)
          BY <5>1, <5>2, <5>3
        <5>4. CASE PairSize(s, n + 1) > PairSize(s, i)
          <6>1. \A j \in D \cap 1 .. n : PairSize(s, j) <= PairSize(s, n + 1)
            BY <2>4, <4>3, <5>1, <5>4
          <6>2. PairSize(s, n + 1) <= PairSize(s, n + 1)
            BY <2>4, <4>3
          <6>. QED
            BY <5>2, <6>1, <6>2
        <5>5. PairSize(s, n + 1) <= PairSize(s, i) \/ PairSize(s, n + 1) > PairSize(s, i)
          <6>1. PairSize(s, n + 1) \in Nat /\ PairSize(s, i) \in Nat
            BY <2>4, <4>3, <5>1
          <6>. QED
            BY <6>1
        <5>. QED
          BY <5>3, <5>4, <5>5
      <4>. QED
        BY <4>1, <4>2, <4>3
    <3>. HIDE DEF Top
    <3>. QED
      BY <3>1, <3>2 DEF T
  <2>7. Top(Len(s))
    <3>1. T \in SUBSET Nat /\ Len(s) \in 0 .. Len(s)
      BY <1>1
    <3>2. Len(s) \in T
      <4>. HIDE DEF T
      <4>. QED
        BY <1>1, <2>5, <2>6, <3>1, InductionTo
    <3>. QED
      BY <3>2
  <2>8. D \cap 1 .. Len(s) = D
    BY <2>3
  <2>9. L # {} /\ L \in SUBSET Nat
    BY <2>1, <2>3, <2>7, <2>8
  <2>10. Min(L) \in L
    <3>. HIDE DEF L
    <3>. QED
      BY <2>9, MinIs
  <2>. QED
    BY <2>1, <2>3, <2>10
<1>. QED
  BY <1>2, <1>3

\* The string without its largest pair.
Smaller(s) == Info_RemoveKey(s, Info_FindLargestKey(s))
DroppedTo(n, f, s) == f = [k \in 0 .. n |-> IF k = 0 THEN s ELSE Smaller(f[k - 1])]

LEMMA DroppedExists ==
    ASSUME NEW s, NEW n \in Nat
    PROVE  \E f : DroppedTo(n, f, s)
<1> DEFINE T == {k \in Nat : \E f : DroppedTo(k, f, s)}
<1>1. 0 \in T
  <2> DEFINE f == [k \in 0 .. 0 |-> s]
  <2>1. \A k \in 0 .. 0 : k = 0
    OBVIOUS
  <2>2. DroppedTo(0, f, s)
    BY <2>1 DEF DroppedTo
  <2>. QED
    BY <2>2
<1>2. ASSUME NEW m \in T PROVE m + 1 \in T
  <2>1. PICK f : DroppedTo(m, f, s)
    OBVIOUS
  <2> DEFINE h == [k \in 0 .. (m + 1) |-> IF k = m + 1 THEN Smaller(f[m]) ELSE f[k]]
  <2>2. \A k \in 0 .. m : h[k] = f[k]
    OBVIOUS
  <2>3. ASSUME NEW k \in 0 .. (m + 1)
        PROVE  h[k] = IF k = 0 THEN s ELSE Smaller(h[k - 1])
    <3>1. CASE k = m + 1
      <4>1. k - 1 = m /\ m \in 0 .. m /\ k # 0
        BY <3>1
      <4>2. h[k] = Smaller(f[m])
        BY <3>1
      <4>3. h[m] = f[m]
        BY <2>2, <4>1
      <4>. HIDE DEF h
      <4>. QED
        BY <4>1, <4>2, <4>3
    <3>2. CASE k # m + 1
      <4>1. k \in 0 .. m /\ (k # 0 => k - 1 \in 0 .. m)
        BY <3>2
      <4>2. f[k] = IF k = 0 THEN s ELSE Smaller(f[k - 1])
        BY <2>1, <4>1 DEF DroppedTo
      <4>3. h[k] = f[k] /\ (k # 0 => h[k - 1] = f[k - 1])
        BY <2>2, <4>1
      <4>. HIDE DEF h
      <4>. QED
        BY <4>2, <4>3
    <3>. QED
      BY <3>1, <3>2
  <2>4. DroppedTo(m + 1, h, s)
    <3>1. h = [k \in 0 .. (m + 1) |-> h[k]]
      OBVIOUS
    <3>. HIDE DEF h
    <3>2. h = [k \in 0 .. (m + 1) |-> IF k = 0 THEN s ELSE Smaller(h[k - 1])]
      BY <3>1, <2>3
    <3>. QED
      BY <3>2 DEF DroppedTo
  <2>. QED
    BY <2>4
<1>3. n \in T
  <2>1. T \in SUBSET Nat /\ n \in 0 .. n
    OBVIOUS
  <2>. HIDE DEF T
  <2>. QED
    BY <1>1, <1>2, <2>1, InductionTo
<1>. QED
  BY <1>3

LEMMA DroppedAgree ==
    ASSUME NEW s, NEW n \in Nat, NEW m \in Nat, n <= m, NEW f, NEW h,
           DroppedTo(n, f, s), DroppedTo(m, h, s)
    PROVE  f[n] = h[n]
<1> DEFINE T == {k \in Nat : k <= n => f[k] = h[k]}
<1>1. 0 \in T
  BY DEF DroppedTo
<1>2. ASSUME NEW k \in T, k < n PROVE k + 1 \in T
  <2>1. k \in Nat /\ k + 1 \in 0 .. n /\ k + 1 \in 0 .. m /\ (k + 1) - 1 = k /\ k + 1 # 0
    BY <1>2
  <2>2. f[k + 1] = Smaller(f[k]) /\ h[k + 1] = Smaller(h[k])
    BY <2>1 DEF DroppedTo
  <2>3. f[k] = h[k]
    BY <1>2
  <2>. QED
    BY <2>1, <2>2, <2>3
<1>3. n \in T
  <2>1. T \in SUBSET Nat /\ n \in 0 .. n
    OBVIOUS
  <2>. HIDE DEF T
  <2>. QED
    BY <1>1, <1>2, <2>1, InductionTo
<1>. QED
  BY <1>3

\* WithDropped is what its definition says.
LEMMA WithDroppedIs ==
    ASSUME NEW s
    PROVE  /\ WithDropped(s)[0] = s
           /\ \A n \in Nat : WithDropped(s)[n + 1] = Smaller(WithDropped(s)[n])
<1> DEFINE Is(d) == d = [n \in Nat |-> IF n = 0 THEN s
                            ELSE Info_RemoveKey(d[n - 1], Info_FindLargestKey(d[n - 1]))]
           F(n) == CHOOSE f : DroppedTo(n, f, s)
           h == [n \in Nat |-> F(n)[n]]
<1>1. \A n \in Nat : DroppedTo(n, F(n), s)
  BY DroppedExists
<1>. HIDE DEF F
<1>2. h[0] = s
  <2>1. DroppedTo(0, F(0), s)
    BY <1>1
  <2>. QED
    BY <2>1 DEF DroppedTo
<1>3. ASSUME NEW n \in Nat, n # 0 PROVE h[n] = Smaller(h[n - 1])
  <2>1. n - 1 \in Nat /\ n - 1 <= n /\ n \in 0 .. n
    BY <1>3
  <2>2. F(n - 1)[n - 1] = F(n)[n - 1]
    BY <1>1, <2>1, DroppedAgree
  <2>3. F(n)[n] = Smaller(F(n)[n - 1])
    BY <1>1, <1>3, <2>1 DEF DroppedTo
  <2>. QED
    BY <2>1, <2>2, <2>3
<1>4. Is(h)
  <2>1. h = [n \in Nat |-> h[n]]
    OBVIOUS
  <2>. HIDE DEF h
  <2>. QED
    BY <1>2, <1>3, <2>1 DEF Smaller
<1>5. WithDropped(s) = CHOOSE d : Is(d)
  BY DEF WithDropped
<1>6. Is(WithDropped(s))
  <2>. HIDE DEF Is
  <2>. QED
    BY <1>4, <1>5
<1> DEFINE d == WithDropped(s)
<1>. HIDE DEF d
<1>7. d = [n \in Nat |-> IF n = 0 THEN s ELSE Smaller(d[n - 1])]
  BY <1>6 DEF d, Smaller
<1>8. \A n \in Nat : n + 1 # 0 /\ (n + 1) - 1 = n /\ n + 1 \in Nat
  OBVIOUS
<1>9. d[0] = s /\ \A n \in Nat : d[n + 1] = Smaller(d[n])
  BY <1>7, <1>8
<1>. QED
  BY <1>9 DEF d

\* The largest pairs are dropped as long as there are some.
StillDrops(s, m) == \A i \in 0 .. m : i < m => Info_FindLargestKey(WithDropped(s)[i]) # Nothing

LEMMA DropsShorten ==
    ASSUME NEW s \in Seq(Text), NEW m \in Nat, StillDrops(s, m)
    PROVE  \A n \in 0 .. m : /\ WithDropped(s)[n] \in Seq(Text)
                             /\ Len(WithDropped(s)[n]) \in Nat /\ Len(WithDropped(s)[n]) + n <= Len(s)
<1> DEFINE d == WithDropped(s)
           T == {n \in Nat : d[n] \in Seq(Text) /\ Len(d[n]) \in Nat /\ Len(d[n]) + n <= Len(s)}
<1>1. 0 \in T
  <2>1. d[0] = s /\ Len(s) \in Nat
    BY WithDroppedIs
  <2>. QED
    BY <2>1
<1>2. ASSUME NEW n \in T, n < m PROVE n + 1 \in T
  <2>1. n \in Nat /\ d[n] \in Seq(Text) /\ Len(d[n]) \in Nat /\ Len(d[n]) + n <= Len(s) /\ n \in 0 .. m
    BY <1>2
  <2>2. d[n + 1] = Info_RemoveKey(d[n], Info_FindLargestKey(d[n]))
    BY <2>1, WithDroppedIs DEF Smaller
  <2>3. Info_FindLargestKey(d[n]) # Nothing
    BY <1>2, <2>1 DEF StillDrops
  <2>. HIDE DEF d, T
  <2>4. PICK i \in InfoPairs(d[n]) : Given(d[n][i]) = Given(Info_FindLargestKey(d[n]))
    BY <2>1, <2>3, LargestIs
  <2>5. d[n][i] \in Text
    BY <2>1, <2>4 DEF InfoPairs
  <2>6. SameKey(Info_FindLargestKey(d[n]), d[n][i])
    BY <2>4, <2>5, SameKeyIs, SameKeyGiven
  <2>7. Shortened(d[n + 1], d[n], Info_FindLargestKey(d[n]))
    BY <2>1, <2>2, RemoveShortens
  <2>8. d[n + 1] \in Seq(Text) /\ Len(d[n + 1]) \in Nat /\ Len(d[n + 1]) < Len(d[n])
    BY <2>4, <2>6, <2>7 DEF Shortened
  <2>9. Len(d[n + 1]) + (n + 1) <= Len(s) /\ n + 1 \in Nat
    <3>1. Len(s) \in Nat
      OBVIOUS
    <3>2. \A a, b, c, k \in Nat : a < b /\ b + k <= c => a + (k + 1) <= c /\ k + 1 \in Nat
      OBVIOUS
    <3>. QED
      BY <2>1, <2>8, <3>1, <3>2
  <2>. QED
    BY <2>8, <2>9 DEF T
<1>3. \A n \in 0 .. m : n \in T
  <2>1. T \in SUBSET Nat
    OBVIOUS
  <2>. HIDE DEF T
  <2>. QED
    BY <1>1, <1>2, <2>1, InductionTo
<1>. QED
  BY <1>3

\* When the dropping ends: there is room, or nothing more to drop.
Ends(s, key, value) ==
    {n \in 0 .. Len(s) : \/ HasRoom(WithDropped(s)[n], key, value)
                         \/ Info_FindLargestKey(WithDropped(s)[n]) = Nothing}

LEMMA EndsAre ==
    ASSUME NEW s \in Seq(Text), NEW key, NEW value
    PROVE  LET m == Min(Ends(s, key, value))
           IN  /\ m \in Ends(s, key, value) /\ m \in Nat /\ StillDrops(s, m)
               /\ HasRoom(s, key, value) => m = 0
<1> DEFINE E == Ends(s, key, value)
<1>1. Len(s) \in Nat
  OBVIOUS
<1>2. E \in SUBSET Nat
  BY <1>1 DEF Ends
<1>3. E # {}
  <2>. SUFFICES ASSUME E = {} PROVE FALSE
    OBVIOUS
  <2> DEFINE m == Len(s) + 1
  <2>1. m \in Nat /\ m \in 0 .. m
    BY <1>1
  <2>2. StillDrops(s, m)
    <3>1. \A i \in 0 .. m : i < m => i \in 0 .. Len(s)
      BY <1>1
    <3>. HIDE DEF m
    <3>. QED
      BY <3>1 DEF StillDrops, Ends
  <2>3. Len(WithDropped(s)[m]) \in Nat /\ Len(WithDropped(s)[m]) + m <= Len(s)
    <3>. HIDE DEF m
    <3>. QED
      BY <2>1, <2>2, DropsShorten
  <2>4. \A a, c \in Nat : ~(a + (c + 1) <= c)
    OBVIOUS
  <2>. QED
    BY <1>1, <2>3, <2>4
<1>. HIDE DEF E
<1>4. Min(E) \in E /\ \A n \in E : Min(E) <= n
  BY <1>2, <1>3, MinIs
<1> DEFINE m == Min(E)
<1>. HIDE DEF m
<1>5. m \in Nat /\ m <= Len(s)
  BY <1>1, <1>4 DEF Ends, E, m
<1>6. \A i \in 0 .. m : i < m => i \notin E /\ i \in 0 .. Len(s)
  BY <1>1, <1>4, <1>5 DEF m
<1>7. StillDrops(s, m)
  BY <1>6 DEF StillDrops, Ends, E
<1>8. HasRoom(s, key, value) => m = 0
  <2>. SUFFICES ASSUME HasRoom(s, key, value) PROVE m = 0
    OBVIOUS
  <2>1. 0 \in E
    <3>1. WithDropped(s)[0] = s /\ 0 \in 0 .. Len(s)
      BY <1>1, WithDroppedIs
    <3>. QED
      BY <3>1 DEF Ends, E
  <2>. QED
    BY <1>4, <1>5, <2>1 DEF m
<1>. QED
  BY <1>4, <1>5, <1>7, <1>8 DEF m, E

\* t is what is left of the string s; what is not begins with a key that may go.
Dropped(t, s) ==
    /\ t \in Strings /\ Pairs(t) \subseteq Pairs(s) /\ (Distinct(s) => Distinct(t))
    /\ StringLength(s) \in Nat /\ StringLength(t) \in Nat /\ StringLength(t) <= StringLength(s)
    /\ \A p \in Pairs(s) : p \notin Pairs(t) => \E k \in Droppable(s) : IsPrefix(Given(k), p[1])

LEMMA DropsKeep ==
    ASSUME NEW s \in Strings, NEW m \in Nat, StillDrops(s, m)
    PROVE  Dropped(WithDropped(s)[m], s)
<1> DEFINE d == WithDropped(s)
           T == {n \in Nat : Dropped(d[n], s)}
<1>0. s \in Seq(Text)
  BY DEF Strings
<1>1. 0 \in T
  <2>1. d[0] = s
    BY WithDroppedIs
  <2>2. StringLength(s) \in Nat
    BY RemoveKeyIs DEF Removed
  <2>3. Dropped(s, s)
    BY <2>2 DEF Dropped
  <2>. QED
    BY <2>1, <2>3
<1>2. ASSUME NEW n \in T, n < m PROVE n + 1 \in T
  <2> DEFINE t == d[n]
             r == d[n + 1]
             key == Info_FindLargestKey(d[n])
  <2>1. n \in Nat /\ n + 1 \in Nat /\ n \in 0 .. m /\ Dropped(t, s)
    BY <1>2
  <2>2. r = Info_RemoveKey(t, key)
    BY <2>1, WithDroppedIs DEF Smaller
  <2>3. Info_FindLargestKey(t) # Nothing
    BY <1>2, <2>1 DEF StillDrops
  <2>4. t \in Strings /\ t \in Seq(Text) /\ Len(t) % 2 = 0
    BY <2>1 DEF Dropped, Strings
  <2>5. PICK i \in InfoPairs(t) : Given(t[i]) = Given(Info_FindLargestKey(t)) /\ t[i] \in Droppable(t)
    <3>. HIDE DEF t
    <3>. QED
      BY <2>3, <2>4, LargestIs
  <2>. HIDE DEF d
  <2>6. Removed(r, t, key)
    BY <2>2, <2>4, RemoveKeyIs
  <2>7. PICK k \in Droppable(t) : Given(k) = Given(key)
    BY <2>5
  <2>. HIDE DEF t, r, key
  <2>8. k \in Droppable(s)
    BY <2>1, DroppableGrows DEF Dropped
  <2>9. \A p \in Pairs(s) : p \notin Pairs(r) => \E o \in Droppable(s) : IsPrefix(Given(o), p[1])
    <3>. SUFFICES ASSUME NEW p \in Pairs(s), p \notin Pairs(r)
                  PROVE  \E o \in Droppable(s) : IsPrefix(Given(o), p[1])
      OBVIOUS
    <3>1. CASE p \in Pairs(t)
      BY <2>6, <2>7, <2>8, <3>1, SameKeyGiven DEF Removed
    <3>2. CASE p \notin Pairs(t)
      BY <2>1, <3>2 DEF Dropped
    <3>. QED
      BY <3>1, <3>2
  <2>10. /\ r \in Strings /\ Pairs(r) \subseteq Pairs(s) /\ (Distinct(s) => Distinct(r))
         /\ StringLength(r) \in Nat /\ StringLength(t) \in Nat /\ StringLength(s) \in Nat
         /\ StringLength(r) <= StringLength(t) /\ StringLength(t) <= StringLength(s)
    BY <2>1, <2>6 DEF Dropped, Removed
  <2>11. StringLength(r) <= StringLength(s)
    BY <2>10
  <2>12. Dropped(r, s)
    BY <2>9, <2>10, <2>11 DEF Dropped
  <2>. QED
    BY <2>1, <2>12 DEF r
<1>3. m \in T
  <2>1. T \in SUBSET Nat /\ m \in 0 .. m
    OBVIOUS
  <2>. HIDE DEF T
  <2>. QED
    BY <1>1, <1>2, <2>1, InductionTo
<1>. QED
  BY <1>3

-----------------------------------------------------------------------------
(* Info: what a call of set_key_value leaves                                 *)

\* The string r is what is left of before when it has to make room for a value.
Remains(r, before, key, value) ==
    /\ r \in Strings /\ Distinct(r)
    /\ StringLength(before) \in Nat /\ StringLength(r) \in Nat /\ StringLength(r) <= StringLength(before)
    /\ Pairs(r) \subseteq {p \in Pairs(before) : ~SameKey(key, p[1])}
    /\ \A p \in Pairs(before) : ~SameKey(key, p[1]) /\ p \notin Pairs(r) =>
          /\ key \in Important /\ ~HasRoom(before, key, value)
          /\ \E k \in Droppable(before) : IsPrefix(Given(k), p[1])

\* What InfoKeepsPairs says of the string before such a call and that after it.
KeepsPairs(key, value, before, after) ==
    /\ WellFormed(after)
    /\ Refused(key, value) => after = before
    /\ ~Refused(key, value) => Info_ValueForKey(after, key) \in {StoredValue(key, value), Nothing}
    /\ ~Refused(key, value) /\ HasRoom(before, key, value) =>
          Info_ValueForKey(after, key) = StoredValue(key, value)
    /\ \A other \in InfoKeys(before) : Len(other) < MaxKeyValue /\ ~IsPrefix(key, other) =>
          \/ Info_ValueForKey(after, other) = Info_ValueForKey(before, other)
          \/ /\ key \in Important /\ ~HasRoom(before, key, value)
             /\ \E k \in Droppable(before) : IsPrefix(Given(k), other)

\* A key is kept with its value, if the call has not dropped it.
LEMMA OthersKept ==
    ASSUME NEW before \in Strings, Distinct(before), NEW after \in Strings, Distinct(after),
           NEW r, NEW key \in Text, Len(key) < MaxKeyValue, NEW value,
           Remains(r, before, key, value), Pairs(r) \subseteq Pairs(after),
           NEW other \in InfoKeys(before), Len(other) < MaxKeyValue, ~IsPrefix(key, other)
    PROVE  \/ Info_ValueForKey(after, other) = Info_ValueForKey(before, other)
           \/ /\ key \in Important /\ ~HasRoom(before, key, value)
              /\ \E k \in Droppable(before) : IsPrefix(Given(k), other)
<1>1. PICK p \in Pairs(before) : p[1] = other
  BY PairsAre
<1>2. Info_ValueForKey(before, other) = Cut(p[2], MaxKeyValue)
  BY <1>1, ValueIs
<1>3. CASE p \in Pairs(r)
  <2>1. p \in Pairs(after)
    BY <1>3
  <2>2. Info_ValueForKey(after, other) = Cut(p[2], MaxKeyValue)
    BY <1>1, <2>1, ValueIs
  <2>. QED
    BY <1>2, <2>2
<1>4. CASE p \notin Pairs(r)
  <2>1. ~SameKey(key, p[1])
    BY <1>1, SameKeyIs, SameKeyGiven
  <2>. QED
    BY <1>1, <1>4, <2>1 DEF Remains
<1>. QED
  BY <1>3, <1>4

LEMMA RemainsLack ==
    ASSUME NEW before \in Strings, NEW r, NEW key \in Text, Len(key) < MaxKeyValue, NEW value,
           Remains(r, before, key, value), Nothing \notin InfoKeys(before)
    PROVE  /\ key \notin InfoKeys(r) /\ Nothing \notin InfoKeys(r)
           /\ Info_ValueForKey(r, key) = Nothing
<1>1. r \in Strings /\ Distinct(r) /\ Pairs(r) \subseteq {p \in Pairs(before) : ~SameKey(key, p[1])}
  BY DEF Remains
<1>2. SameKey(key, key)
  BY SameKeyIs
<1>3. key \notin InfoKeys(r) /\ Nothing \notin InfoKeys(r)
  BY <1>1, <1>2, PairsAre
<1>. QED
  BY <1>1, <1>3, ValueIs

LEMMA ShortEnough ==
    ASSUME NEW key \in Text, NEW value, ~Refused(key, value)
    PROVE  Len(key) < MaxKeyValue /\ (value \in Text => Len(value) < MaxKeyValue)
<1>1. MaxKeyValue \in Nat
  BY InfoAssumption
<1>2. Len(key) \in Nat /\ (value \in Text => Len(value) \in Nat)
  BY LenProperties DEF Text
<1>. QED
  BY <1>1, <1>2 DEF Refused

\* The call ends without the new pair.
LEMMA KeepsWithout ==
    ASSUME NEW before \in Seq(Text), WellFormed(before), NEW r, NEW key \in Text, NEW value,
           Remains(r, before, key, value), ~Refused(key, value),
           HasRoom(before, key, value) => StoredValue(key, value) = Nothing
    PROVE  KeepsPairs(key, value, before, r)
<1>1. before \in Strings /\ Distinct(before) /\ Nothing \notin InfoKeys(before)
      /\ StringLength(before) < MaxInfoString
  BY WellFormedIs
<1>2. r \in Strings /\ Distinct(r) /\ r \in Seq(Text)
  BY DEF Remains, Strings
<1>0. Len(key) < MaxKeyValue
  BY ShortEnough
<1>3. key \notin InfoKeys(r) /\ Nothing \notin InfoKeys(r) /\ Info_ValueForKey(r, key) = Nothing
  BY <1>0, <1>1, RemainsLack
<1>4. StringLength(r) < MaxInfoString
  BY <1>1, InfoAssumption DEF Remains
<1>5. WellFormed(r)
  BY <1>2, <1>3, <1>4, WellFormedIs
<1>6. \A other \in InfoKeys(before) : Len(other) < MaxKeyValue /\ ~IsPrefix(key, other) =>
          \/ Info_ValueForKey(r, other) = Info_ValueForKey(before, other)
          \/ /\ key \in Important /\ ~HasRoom(before, key, value)
             /\ \E k \in Droppable(before) : IsPrefix(Given(k), other)
  BY <1>0, <1>1, <1>2, OthersKept
<1>. QED
  BY <1>3, <1>5, <1>6 DEF KeepsPairs

\* The call ends with the new pair.
LEMMA KeepsWith ==
    ASSUME NEW before \in Seq(Text), WellFormed(before), NEW r, NEW key \in Text, NEW value \in Text,
           Remains(r, before, key, value), ~Refused(key, value), HasRoom(r, key, value),
           StoredValue(key, value) \in Text, Len(StoredValue(key, value)) = Len(value)
    PROVE  KeepsPairs(key, value, before, With(r, key, StoredValue(key, value)))
<1> DEFINE v == StoredValue(key, value)
           e == With(r, key, v)
<1>1. before \in Strings /\ Distinct(before) /\ Nothing \notin InfoKeys(before)
      /\ StringLength(before) < MaxInfoString
  BY WellFormedIs
<1>2. r \in Strings /\ Distinct(r) /\ r \in Seq(Text)
  BY DEF Remains, Strings
<1>0. Len(key) < MaxKeyValue /\ Len(value) < MaxKeyValue
  BY ShortEnough
<1>3. key \notin InfoKeys(r) /\ Nothing \notin InfoKeys(r)
  BY <1>0, <1>1, RemainsLack
<1>4. v \in Text /\ Len(v) = Len(value)
  OBVIOUS
<1>. HIDE DEF v
<1>5. e \in Strings /\ Pairs(e) = Pairs(r) \cup {<<key, v>>}
      /\ (Distinct(e) <=> Distinct(r) /\ \A p \in Pairs(r) : p[1] # key)
  BY <1>2, <1>4, WithPairs
<1>6. StringLength(e) = StringLength(r) + 2 + Len(key) + Len(v)
  BY <1>2, <1>4, WithLength
<1>. HIDE DEF e
<1>7. \A p \in Pairs(r) : p[1] # key /\ p[1] # Nothing
  BY <1>2, <1>3, PairsAre
<1>8. Distinct(e) /\ e \in Seq(Text)
  BY <1>2, <1>5, <1>7 DEF Strings
<1>9. <<key, v>>[1] = key /\ <<key, v>>[2] = v /\ <<key, v>> \in Pairs(e)
  BY <1>5
<1>10. Info_ValueForKey(e, key) = v
  <2>1. Info_ValueForKey(e, key) = Cut(v, MaxKeyValue)
    BY <1>0, <1>5, <1>8, <1>9, ValueIs
  <2>. QED
    BY <1>0, <1>4, <2>1, SameKeyIs
<1>11. StringLength(e) < MaxInfoString
  BY <1>4, <1>6 DEF HasRoom
<1>12. key # Nothing
  BY DEF Refused
<1>13. Nothing \notin InfoKeys(e)
  BY <1>5, <1>7, <1>9, <1>12, PairsAre
<1>14. WellFormed(e)
  BY <1>5, <1>8, <1>11, <1>13, WellFormedIs
<1>15. Pairs(r) \subseteq Pairs(e)
  BY <1>5
<1>16. \A other \in InfoKeys(before) : Len(other) < MaxKeyValue /\ ~IsPrefix(key, other) =>
          \/ Info_ValueForKey(e, other) = Info_ValueForKey(before, other)
          \/ /\ key \in Important /\ ~HasRoom(before, key, value)
             /\ \E k \in Droppable(before) : IsPrefix(Given(k), other)
  BY <1>0, <1>1, <1>5, <1>8, <1>15, OthersKept
<1>17. KeepsPairs(key, value, before, e)
  BY <1>10, <1>14, <1>16 DEF KeepsPairs, v
<1>. QED
  BY <1>17 DEF e, v

LEMMA StoredIs ==
    ASSUME NEW key \in Text, NEW value \in Text
    PROVE  /\ StoredValue(key, value) \in Text
           /\ Len(StoredValue(key, value)) = Len(value)
           /\ StoredValue(key, Nothing) = Nothing
<1>1. \A t \in Text : InLowerCase(t) \in Text /\ Len(InLowerCase(t)) = Len(t)
  <2>. TAKE t \in Text
  <2>1. t \in Seq(STRING) /\ DOMAIN t = 1 .. Len(t) /\ Len(t) \in Nat
    BY DEF Text
  <2>2. \A i \in 1 .. Len(t) : (IF t[i] \in DOMAIN LowerCase THEN LowerCase[t[i]] ELSE t[i]) \in STRING
    BY <2>1, InfoAssumption
  <2>3. InLowerCase(t) = [i \in 1 .. Len(t) |->
                             IF t[i] \in DOMAIN LowerCase THEN LowerCase[t[i]] ELSE t[i]]
    BY <2>1 DEF InLowerCase
  <2>. QED
    BY <2>1, <2>2, <2>3 DEF Text
<1>2. Nothing \in Text /\ Len(Nothing) = 0
  BY DEF Nothing, Text
<1>3. InLowerCase(Nothing) = Nothing
  BY <1>1, <1>2, EmptySeq DEF Nothing, Text
<1>. QED
  BY <1>1, <1>3 DEF StoredValue

LEMMA SetValueIs ==
    ASSUME NEW s \in Seq(Text), NEW key \in Text, NEW value \in Text
    PROVE  LET left == Info_RemoveKey(s, key)
               last == WithDropped(left)[Min(Ends(left, key, value))]
           IN  Info_SetValueForStarKey(s, key, value) =
                 IF Refused(key, value) THEN s
                 ELSE IF value = Nothing THEN left
                 ELSE IF ~HasRoom(left, key, value) /\ key \notin Important THEN left
                 ELSE IF HasRoom(last, key, value) THEN With(last, key, StoredValue(key, value))
                 ELSE last
BY DEF Info_SetValueForStarKey, Ends, With

LEMMA SetValueTyped ==
    ASSUME NEW s \in Seq(Text), NEW key \in Text, NEW value \in Text
    PROVE  Info_SetValueForStarKey(s, key, value) \in Seq(Text)
<1> DEFINE left == Info_RemoveKey(s, key)
           m == Min(Ends(left, key, value))
           last == WithDropped(left)[m]
<1>1. left \in Seq(Text)
  BY RemoveShortens DEF Shortened
<1>. HIDE DEF left
<1>2. m \in Nat /\ StillDrops(left, m)
  BY <1>1, EndsAre
<1>3. last \in Seq(Text)
  <2>. HIDE DEF m
  <2>1. m \in 0 .. m
    BY <1>2
  <2>. QED
    BY <1>1, <1>2, <2>1, DropsShorten
<1>. HIDE DEF last
<1>4. With(last, key, StoredValue(key, value)) \in Seq(Text)
  BY <1>3, StoredIs, WithIs DEF Extends
<1>. QED
  BY <1>1, <1>3, <1>4, SetValueIs DEF left, last, m

LEMMA SetValueKeeps ==
    ASSUME NEW s \in Seq(Text), WellFormed(s), NEW key \in Text, NEW value \in Text
    PROVE  KeepsPairs(key, value, s, Info_SetValueForStarKey(s, key, value))
<1> DEFINE left == Info_RemoveKey(s, key)
           m == Min(Ends(left, key, value))
           last == WithDropped(left)[m]
           after == Info_SetValueForStarKey(s, key, value)
           Room(t) == HasRoom(t, key, value)
<1>1. after = IF Refused(key, value) THEN s
              ELSE IF value = Nothing THEN left
              ELSE IF ~Room(left) /\ key \notin Important THEN left
              ELSE IF Room(last) THEN With(last, key, StoredValue(key, value))
              ELSE last
  BY SetValueIs
<1>2. s \in Strings /\ Distinct(s)
  BY WellFormedIs
<1>3. Removed(left, s, key)
  BY <1>2, RemoveKeyIs
<1>. HIDE DEF left
<1>4. left \in Strings /\ left \in Seq(Text) /\ Distinct(left)
  BY <1>2, <1>3 DEF Removed, Strings
<1>5. m \in Nat /\ StillDrops(left, m) /\ (Room(left) => m = 0)
  BY <1>4, EndsAre
<1>6. Room(left) => last = left
  BY <1>5, WithDroppedIs
<1>. HIDE DEF m
<1>7. Dropped(last, left)
  BY <1>4, <1>5, DropsKeep
<1>. HIDE DEF last, after
<1>8. Len(key) \in Nat /\ Len(value) \in Nat
  BY LenProperties DEF Text
<1>9. Room(s) => Room(left)
  <2>1. StringLength(s) \in Nat /\ StringLength(left) \in Nat /\ StringLength(left) <= StringLength(s)
    BY <1>3 DEF Removed
  <2>2. \A a, b, c, d \in Nat : a <= b /\ b + 2 + c + d < MaxInfoString => a + 2 + c + d < MaxInfoString
    BY InfoAssumption
  <2>. QED
    BY <1>8, <2>1, <2>2 DEF HasRoom
<1>. HIDE DEF Room
<1>10. Remains(left, s, key, value)
  BY <1>3, <1>4 DEF Removed, Remains
<1>11. ASSUME Room(left) \/ key \in Important PROVE Remains(last, s, key, value)
  <2>1. CASE Room(left)
    BY <1>6, <1>10, <2>1
  <2>2. CASE ~Room(left)
    <3>1. key \in Important /\ ~HasRoom(s, key, value)
      BY <1>9, <1>11, <2>2 DEF Room
    <3>2. Pairs(left) = {p \in Pairs(s) : ~SameKey(key, p[1])}
      BY <1>3 DEF Removed
    <3>3. Droppable(left) \subseteq Droppable(s)
      BY <3>2, DroppableGrows
    <3>4. \A p \in Pairs(s) : ~SameKey(key, p[1]) /\ p \notin Pairs(last) =>
             \E k \in Droppable(s) : IsPrefix(Given(k), p[1])
      BY <1>7, <3>2, <3>3 DEF Dropped
    <3>5. /\ StringLength(s) \in Nat /\ StringLength(last) \in Nat /\ StringLength(left) \in Nat
          /\ StringLength(last) <= StringLength(left) /\ StringLength(left) <= StringLength(s)
      BY <1>3, <1>7 DEF Removed, Dropped
    <3>6. StringLength(last) <= StringLength(s)
      BY <3>5
    <3>7. last \in Strings /\ Distinct(last) /\ Pairs(last) \subseteq Pairs(left)
      BY <1>4, <1>7 DEF Dropped
    <3>. QED
      BY <3>1, <3>2, <3>4, <3>5, <3>6, <3>7 DEF Remains
  <2>. QED
    BY <2>1, <2>2
<1>12. CASE Refused(key, value)
  <2>1. after = s
    BY <1>1, <1>12
  <2>2. KeepsPairs(key, value, s, s)
    BY <1>12 DEF KeepsPairs
  <2>. QED
    BY <2>1, <2>2 DEF after
<1>13. CASE ~Refused(key, value) /\ value = Nothing
  <2>1. after = left
    BY <1>1, <1>13
  <2>2. StoredValue(key, value) = Nothing
    BY <1>13, StoredIs
  <2>3. KeepsPairs(key, value, s, left)
    BY <1>10, <1>13, <2>2, KeepsWithout
  <2>. QED
    BY <2>1, <2>3 DEF after
<1>14. CASE ~Refused(key, value) /\ value # Nothing /\ ~Room(left) /\ key \notin Important
  <2>1. after = left
    BY <1>1, <1>14
  <2>2. ~HasRoom(s, key, value)
    BY <1>9, <1>14 DEF Room
  <2>3. KeepsPairs(key, value, s, left)
    BY <1>10, <1>14, <2>2, KeepsWithout
  <2>. QED
    BY <2>1, <2>3 DEF after
<1>15. CASE ~Refused(key, value) /\ value # Nothing /\ (Room(left) \/ key \in Important) /\ Room(last)
  <2>1. after = With(last, key, StoredValue(key, value))
    BY <1>1, <1>15
  <2>2. Remains(last, s, key, value) /\ HasRoom(last, key, value)
    BY <1>11, <1>15 DEF Room
  <2>3. StoredValue(key, value) \in Text /\ Len(StoredValue(key, value)) = Len(value)
    BY StoredIs
  <2>4. KeepsPairs(key, value, s, With(last, key, StoredValue(key, value)))
    BY <1>15, <2>2, <2>3, KeepsWith
  <2>. QED
    BY <2>1, <2>4 DEF after
<1>16. CASE ~Refused(key, value) /\ value # Nothing /\ (Room(left) \/ key \in Important) /\ ~Room(last)
  <2>1. after = last
    BY <1>1, <1>16
  <2>2. Remains(last, s, key, value)
    BY <1>11, <1>16
  <2>3. ~HasRoom(s, key, value)
    BY <1>6, <1>9, <1>16 DEF Room
  <2>4. KeepsPairs(key, value, s, last)
    BY <1>16, <2>2, <2>3, KeepsWithout
  <2>. QED
    BY <2>1, <2>4 DEF after
<1>. QED
  BY <1>12, <1>13, <1>14, <1>15, <1>16

-----------------------------------------------------------------------------
(* Info: every string that plugins leave                                     *)

LEMMA MaxIs ==
    ASSUME NEW n \in Nat, NEW S \in SUBSET (0 .. n), S # {}
    PROVE  Max(S) \in S /\ \A k \in S : Max(S) >= k
<1> DEFINE R == {n - k : k \in S}
<1>1. R \in SUBSET Nat /\ R # {}
  <2>1. \A k \in S : n - k \in Nat
    OBVIOUS
  <2>. QED
    BY <2>1
<1>. HIDE DEF R
<1>2. PICK r \in R : \A q \in R : r <= q
  BY <1>1, LeastNumber
<1>3. PICK m \in S : r = n - m
  BY DEF R
<1>4. \A k \in S : m >= k
  <2>. TAKE k \in S
  <2>1. n - k \in R /\ r <= n - k
    BY <1>2 DEF R
  <2>. QED
    BY <1>3, <2>1
<1>. QED
  BY <1>3, <1>4 DEF Max

LEMMA TextLengthsIs ==
    ASSUME NEW s \in Seq(Text), NEW k \in 0 .. Len(s)
    PROVE  /\ TextLengths(s, k) \in Nat /\ TextLengths(s, 0) = 0
           /\ k < Len(s) => TextLengths(s, k + 1) = TextLengths(s, k) + 1 + Len(s[k + 1])
<1> DEFINE t == SubSeq(s, 1, k)
<1>1. Len(s) \in Nat /\ k \in Nat /\ k <= Len(s)
  OBVIOUS
<1>2. t \in Seq(Text) /\ Len(t) = k /\ \A i \in 1 .. k : t[i] = s[i]
  BY <1>1
<1>. HIDE DEF t
<1>3. FlattenSeq(t) \in Seq(STRING) /\ Len(FlattenSeq(t)) \in Nat
  <2>1. << >> \in Seq(STRING) /\ t \in Seq(Seq(STRING))
    BY <1>2 DEF Text
  <2>2. FlattenSeq(t) \in Seq(STRING)
    BY <2>1, FlattenAppend
  <2>. QED
    BY <2>2, LenProperties
<1>4. TextLengths(s, k) = k + Len(FlattenSeq(t))
  BY DEF TextLengths, t
<1>5. TextLengths(s, 0) = 0
  <2>1. SubSeq(s, 1, 0) = << >>
    OBVIOUS
  <2>2. FlattenSeq(SubSeq(s, 1, 0)) = << >>
    BY <2>1, FlattenEmpty
  <2>3. Len(FlattenSeq(SubSeq(s, 1, 0))) = 0
    BY <2>2
  <2>. QED
    BY <2>3 DEF TextLengths
<1>6. ASSUME k < Len(s) PROVE TextLengths(s, k + 1) = TextLengths(s, k) + 1 + Len(s[k + 1])
  <2> DEFINE u == SubSeq(s, 1, k + 1)
             x == s[k + 1]
  <2>1. k + 1 \in 1 .. Len(s) /\ x \in Text
    BY <1>1, <1>6
  <2>2. u \in Seq(Text) /\ Len(u) = k + 1 /\ \A i \in 1 .. (k + 1) : u[i] = s[i]
    BY <1>1, <2>1
  <2>3. TextLengths(s, k + 1) = (k + 1) + Len(FlattenSeq(u))
    BY DEF TextLengths
  <2>. HIDE DEF u
  <2>4. u = Append(t, x)
    <3> DEFINE a == Append(t, x)
    <3>1. x = s[k + 1]
      OBVIOUS
    <3>. HIDE DEF x
    <3>2. a \in Seq(Text) /\ Len(a) = k + 1 /\ a[k + 1] = x /\ \A i \in 1 .. k : a[i] = t[i]
      BY <1>1, <1>2, <2>1
    <3>. HIDE DEF a
    <3>3. \A i \in 1 .. (k + 1) : i \in 1 .. k \/ i = k + 1
      BY <1>1
    <3>4. \A i \in 1 .. (k + 1) : u[i] = a[i]
      BY <1>2, <2>2, <3>1, <3>2, <3>3
    <3>5. u = a
      BY <2>2, <3>2, <3>4, SeqEqual
    <3>. QED
      BY <3>5 DEF a
  <2>5. FlattenSeq(u) = FlattenSeq(t) \o x /\ x \in Seq(STRING)
    BY <1>2, <2>1, <2>4, FlattenAppend DEF Text
  <2>. HIDE DEF x
  <2>6. Len(FlattenSeq(u)) = Len(FlattenSeq(t)) + Len(x) /\ Len(x) \in Nat
    BY <1>3, <2>5, ConcatProperties, LenProperties
  <2>7. TextLengths(s, k + 1) = TextLengths(s, k) + 1 + Len(x)
    <3>1. \A a, b, c \in Nat : (a + 1) + (b + c) = (a + b) + 1 + c
      OBVIOUS
    <3>. QED
      BY <1>1, <1>3, <1>4, <2>3, <2>6, <3>1
  <2>. QED
    BY <2>7 DEF x
<1>7. TextLengths(s, k) \in Nat
  <2>1. \A a, b \in Nat : a + b \in Nat
    OBVIOUS
  <2>. QED
    BY <1>1, <1>3, <1>4, <2>1
<1>. QED
  BY <1>5, <1>6, <1>7

LEMMA FirstOfTyped ==
    ASSUME NEW s \in Seq(Text), NEW n \in Nat
    PROVE  FirstOf(s, n) \in Seq(Text)
<1> DEFINE S == {k \in 0 .. Len(s) : TextLengths(s, k) <= n}
           whole == Max(S)
           rest == n - TextLengths(s, whole)
<1>1. Len(s) \in Nat /\ S \in SUBSET (0 .. Len(s)) /\ 0 \in 0 .. Len(s)
  OBVIOUS
<1>2. 0 \in S
  BY <1>1, TextLengthsIs
<1>. HIDE DEF S
<1>3. whole \in S /\ \A k \in S : whole >= k
  BY <1>1, <1>2, MaxIs
<1>. HIDE DEF whole
<1>4. whole \in 0 .. Len(s) /\ TextLengths(s, whole) \in Nat /\ TextLengths(s, whole) <= n
  BY <1>3, TextLengthsIs DEF S
<1>5. rest \in Nat
  BY <1>4
<1>6. SubSeq(s, 1, whole) \in Seq(Text)
  BY <1>1, <1>4
<1>7. ASSUME rest # 0, whole # Len(s)
      PROVE  Append(SubSeq(s, 1, whole), SubSeq(s[whole + 1], 1, rest - 1)) \in Seq(Text)
  <2> DEFINE t == s[whole + 1]
  <2>1. whole \in Nat /\ whole < Len(s) /\ whole + 1 \in 0 .. Len(s) /\ whole + 1 \in 1 .. Len(s)
    BY <1>1, <1>4, <1>7
  <2>2. whole + 1 \notin S
    BY <1>3, <2>1
  <2>3. TextLengths(s, whole + 1) = TextLengths(s, whole) + 1 + Len(t)
    BY <1>4, <2>1, TextLengthsIs
  <2>4. t \in Seq(STRING)
    BY <2>1 DEF Text
  <2>. HIDE DEF t
  <2>5. Len(t) \in Nat
    BY <2>4, LenProperties
  <2>6. ~(TextLengths(s, whole) + 1 + Len(t) <= n)
    BY <2>1, <2>2, <2>3 DEF S
  <2>7. rest - 1 \in 0 .. Len(t)
    BY <1>4, <1>5, <1>7, <2>5, <2>6
  <2>. HIDE DEF rest
  <2>8. SubSeq(t, 1, rest - 1) \in Seq(STRING)
    BY <2>4, <2>5, <2>7
  <2>. QED
    BY <1>6, <2>8 DEF Text, t
<1>8. FirstOf(s, n) = IF rest = 0 \/ whole = Len(s) THEN SubSeq(s, 1, whole)
                      ELSE Append(SubSeq(s, 1, whole), SubSeq(s[whole + 1], 1, rest - 1))
  BY DEF FirstOf, whole, S
<1>. HIDE DEF rest
<1>. QED
  BY <1>6, <1>7, <1>8

InfoInv ==
    /\ info \in Seq(Text)
    /\ asking # NoInfoCall =>
          /\ asking.before \in Seq(Text) /\ asking.key # Nothing
          /\ asking.key \in Text /\ Len(asking.key) < MaxKeyValue
          /\ WellFormed(asking.before) => KeepsPairs(asking.key, asking.value, asking.before, info)

LEMMA GivenIs ==
    ASSUME NEW t \in Text PROVE Given(t) \in Text /\ Len(Given(t)) < MaxKeyValue
<1>1. MaxKeyValue - 1 \in Nat /\ MaxKeyValue \in Nat
  BY InfoAssumption
<1>2. Cut(t, MaxKeyValue - 1) \in Text /\ Len(t) \in Nat
      /\ Len(Cut(t, MaxKeyValue - 1)) = IF Len(t) < MaxKeyValue - 1 THEN Len(t) ELSE MaxKeyValue - 1
  BY <1>1, CutIs
<1>. QED
  BY <1>1, <1>2 DEF Given

LEMMA InfoStart == InfoInit => InfoInv
<1>. SUFFICES ASSUME InfoInit PROVE InfoInv
  OBVIOUS
<1>1. info \in Seq(Text)
  BY DEF InfoInit, Nothing
<1>. QED
  BY <1>1 DEF InfoInit, InfoInv

LEMMA InfoStep == InfoInv /\ [InfoNext]_infoVars => InfoInv'
<1>. SUFFICES ASSUME InfoInv, [InfoNext]_infoVars PROVE InfoInv'
  OBVIOUS
<1>1. info \in Seq(Text)
  BY DEF InfoInv
<1>2. Nothing \in Seq(Text)
  BY DEF Nothing
<1>3. ASSUME NEW param_key \in InfoKey, NEW param_value \in InfoValue,
             set_key_value(param_key, param_value)
      PROVE  InfoInv'
  <2> DEFINE key == Given(param_key)
             value == Given(param_value)
  <2>1. key \in Text /\ value \in Text /\ Len(key) < MaxKeyValue
    BY GivenIs, InfoAssumption DEF Text
  <2>. HIDE DEF key, value
  <2>4. /\ info' = IF key = Nothing THEN Nothing ELSE Info_SetValueForStarKey(info, key, value)
        /\ asking' = IF key = Nothing THEN NoInfoCall
                     ELSE [key |-> key, value |-> value, before |-> info]
    BY <1>3 DEF set_key_value, key, value
  <2>2. CASE key = Nothing
    BY <1>2, <2>2, <2>4 DEF InfoInv
  <2>3. CASE key # Nothing
    <3> DEFINE after == Info_SetValueForStarKey(info, key, value)
    <3>1. info' = after /\ asking' = [key |-> key, value |-> value, before |-> info]
      BY <2>3, <2>4
    <3>2. after \in Seq(Text)
      BY <1>1, <2>1, SetValueTyped
    <3>3. WellFormed(info) => KeepsPairs(key, value, info, after)
      BY <1>1, <2>1, SetValueKeeps
    <3>. HIDE DEF after
    <3>4. asking'.before = info /\ asking'.key = key /\ asking'.value = value
      BY <3>1
    <3>. QED
      BY <1>1, <2>1, <2>3, <3>1, <3>2, <3>3, <3>4 DEF InfoInv
  <2>. QED
    BY <2>2, <2>3
<1>4. ASSUME NEW s \in InfoString, NEW maxlen \in BufferLength, set_key_value_buffer(s, maxlen) PROVE InfoInv'
  <2>1. s \in Seq(Text) /\ maxlen - 1 \in Nat
    BY InfoAssumption DEF Text
  <2>2. FirstOf(s, maxlen - 1) \in Seq(Text)
    BY <2>1, FirstOfTyped
  <2>. QED
    BY <1>4, <2>2 DEF set_key_value_buffer, InfoInv
<1>5. CASE UNCHANGED infoVars
  BY <1>5 DEF infoVars, InfoInv
<1>. QED
  BY <1>3, <1>4, <1>5 DEF InfoNext

LEMMA InfoKeeps == InfoInv => InfoKeepsPairs
<1>. SUFFICES ASSUME InfoInv, asking # NoInfoCall, WellFormed(asking.before) PROVE InfoKeepsPairs
  BY DEF InfoKeepsPairs
<1>1. /\ KeepsPairs(asking.key, asking.value, asking.before, info)
      /\ asking.key \in Text /\ Len(asking.key) < MaxKeyValue /\ asking.before \in Seq(Text)
  BY DEF InfoInv
<1>2. get_key_value(asking.key) = Info_ValueForKey(info, asking.key)
  BY <1>1, SameKeyIs DEF get_key_value
<1>3. ASSUME NEW other \in InfoKeys(asking.before), Len(other) < MaxKeyValue
      PROVE  get_key_value(other) = Info_ValueForKey(info, other)
  <2>1. other \in Text
    BY <1>1 DEF InfoKeys, InfoPairs
  <2>. QED
    BY <1>3, <2>1, SameKeyIs DEF get_key_value
<1>. QED
  BY <1>1, <1>2, <1>3 DEF InfoKeepsPairs, KeepsPairs

\* InfoKeepsPairs: whatever plugins have made of the string, if it is in order a call of
\* set_key_value leaves it in order and within its length, the new pair can be read back
\* if it has room, and every other key that plugins can ask for keeps its value, but for
\* those that begin with the new key and, when an important key needs the room, those
\* that are not important or that are too long, or have values that are
\* (Info_SetValueForStarKey, Info_FindLargestKey).
THEOREM PairsAreKept == InfoSpec => []InfoKeepsPairs
<1>1. InfoSpec => []InfoInv
  BY InfoStart, InfoStep, PTL DEF InfoSpec
<1>. QED
  BY <1>1, InfoKeeps, PTL
===============================================================================
