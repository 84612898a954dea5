--------------------------------- MODULE Info ---------------------------------
(***************************************************************************)
(* The key-value strings of the engine, such as the info of a user, which  *)
(* plugins change (common/info.cpp, and set_key_value and its like in      *)
(* natives_common.cpp).                                                    *)
(*                                                                         *)
(* The string \k\v\k\v is the sequence of the texts between its slashes,   *)
(* a text is a sequence of letters.                                        *)
(***************************************************************************)
EXTENDS Naturals, SequencesExt

CONSTANTS
    InfoKey,        \* keys that plugins use
    InfoValue,      \* values that they set
    Important,      \* Info_IsKeyImportant: keys that are never dropped
    NameKey,        \* "name", which may have dots in its value
    TeamKey,        \* "team", of which the value is in lower case
    LowerCase,      \* the lower-case letter of each one in upper case
    InfoString,     \* whole strings that they set, cut to one of BufferLength
    BufferLength,
    MaxInfoString,  \* MAX_INFO_STRING
    MaxKeyValue     \* MAX_KV_LEN

Nothing == <<>>                 \* the empty text, or string

ASSUME InfoAssumption ==
    /\ MaxKeyValue \in Nat \ {0} /\ MaxInfoString \in Nat
    /\ 2 * MaxKeyValue + 2 <= MaxInfoString /\ BufferLength \subseteq 1 .. MaxInfoString
    /\ Nothing \in InfoValue
    /\ InfoKey \cup InfoValue \subseteq Seq(STRING) /\ InfoString \subseteq Seq(Seq(STRING))
    /\ \A c \in DOMAIN LowerCase : LowerCase[c] \in STRING

VARIABLES
    info,           \* the string
    asking           \* history: the call of set_key_value that was the last

infoVars == <<info, asking>>

-----------------------------------------------------------------------------
(* Strings                                                                   *)

TextLengths(s, n) == n + Len(FlattenSeq(SubSeq(s, 1, n)))
StringLength(s) == TextLengths(s, Len(s))

\* The pairs of the string; the last key may be without a value.
InfoPairs(s) == {i \in DOMAIN s : i % 2 = 1}
WholePairs(s) == {i \in InfoPairs(s) : i < Len(s)}
PairSize(s, i) == Len(s[i]) + Len(s[i + 1])

\* What a copy of a text holds that takes no more than n letters.
Cut(t, n) == SubSeq(t, 1, IF Len(t) < n THEN Len(t) ELSE n)

Info_ValueForKey(s, key) ==
    LET found == {i \in WholePairs(s) : Cut(s[i], MaxKeyValue) = key}
    IN  IF found = {} THEN Nothing ELSE Cut(s[Min(found) + 1], MaxKeyValue)

\* strncmp, over the length of the key: all that begin with it are taken for it.
SameKey(key, k) == IsPrefix(Cut(key, MaxKeyValue - 1), k)

Info_RemoveKey(s, key) ==
    FlattenSeq([i \in DOMAIN s |->
        IF SameKey(key, s[IF i % 2 = 1 THEN i ELSE i - 1]) THEN <<>> ELSE << s[i] >>])

\* A pair that is too long, which only set_key_value_buffer makes.
Oversized(s, i) == Len(s[i]) > MaxKeyValue \/ Len(s[i + 1]) > MaxKeyValue

LargestAnyway(s) ==             \* a mutant: important ones too
    IF WholePairs(s) = {} THEN Nothing
    ELSE s[CHOOSE i \in WholePairs(s) : \A j \in WholePairs(s) : PairSize(s, j) <= PairSize(s, i)]

\* The key, as far as it was copied, of the first pair that is wrong: it is
\* too long or without a value, be it important or not; else of the first of
\* the longest pairs that are not important.
Info_FindLargestKey(s) ==
    LET wrong == {i \in InfoPairs(s) : i \notin WholePairs(s) \/ Oversized(s, i)}
        dropped == {i \in WholePairs(s) : s[i] \notin Important /\ PairSize(s, i) > 0}
        largest == {i \in dropped : \A j \in dropped : PairSize(s, j) <= PairSize(s, i)}
    IN  CASE wrong # {} -> Cut(s[Min(wrong)], MaxKeyValue)
          [] wrong = {} /\ dropped = {} -> Nothing
          [] OTHER -> s[Min(largest)]

\* The string when n of the largest pairs have been dropped.
WithDropped(s) ==
    LET after[n \in Nat] ==
            IF n = 0 THEN s
            ELSE LET now == after[n - 1] IN Info_RemoveKey(now, Info_FindLargestKey(now))
    IN  after

HasDots(t) == \E i \in 1 .. Len(t) - 1 : t[i] = "." /\ t[i + 1] = "."
HasSign(t) == \E i \in DOMAIN t : t[i] \in {"\\", "quote"}
Refused(key, value) ==
    \/ key = Nothing
    \/ HasSign(key) \/ HasSign(value)
    \/ HasDots(key) \/ (key # NameKey /\ HasDots(value))
    \/ Len(key) >= MaxKeyValue \/ Len(value) >= MaxKeyValue

InLowerCase(t) ==
    [i \in DOMAIN t |-> IF t[i] \in DOMAIN LowerCase THEN LowerCase[t[i]] ELSE t[i]]
StoredValue(key, value) == IF InLowerCase(key) = TeamKey THEN InLowerCase(value) ELSE value

HasRoom(s, key, value) == StringLength(s) + 2 + Len(key) + Len(value) < MaxInfoString

\* What has been removed stays so if there is no room for the new value.
Info_SetValueForStarKey(s, key, value) ==
    LET left == Info_RemoveKey(s, key)
        dropped == WithDropped(left)
        ends == {n \in 0 .. Len(left) : \/ HasRoom(dropped[n], key, value)
                                        \/ Info_FindLargestKey(dropped[n]) = Nothing}
        last == dropped[Min(ends)]
    IN  CASE Refused(key, value) -> s
          [] ~Refused(key, value) /\ value = Nothing -> left
          [] OTHER ->
                IF ~HasRoom(left, key, value) /\ key \notin Important THEN left
                ELSE IF HasRoom(last, key, value) THEN last \o <<key, StoredValue(key, value)>>
                ELSE last

\* The first n characters of a string.
FirstOf(s, n) ==
    LET whole == Max({k \in 0 .. Len(s) : TextLengths(s, k) <= n})
        rest == n - TextLengths(s, whole)
    IN  IF rest = 0 \/ whole = Len(s) THEN SubSeq(s, 1, whole)
        ELSE Append(SubSeq(s, 1, whole), SubSeq(s[whole + 1], 1, rest - 1))

-----------------------------------------------------------------------------
(* The natives                                                               *)

NoInfoCall == [key |-> Nothing, value |-> Nothing, before |-> Nothing]

\* What a plugin gives is cut to the buffers of the native.
Given(t) == Cut(t, MaxKeyValue - 1)
set_key_value(param_key, param_value) ==
    LET key == Given(param_key)
        value == Given(param_value)
    IN  /\ info' = IF key = Nothing THEN Nothing ELSE Info_SetValueForStarKey(info, key, value)
        /\ asking' = IF key = Nothing THEN NoInfoCall
                     ELSE [key |-> key, value |-> value, before |-> info]

\* A plugin may cut the string anywhere.
set_key_value_buffer(s, maxlen) ==
    /\ info' = FirstOf(s, maxlen - 1)
    /\ asking' = NoInfoCall

get_key_value(param_key) == Info_ValueForKey(info, Given(param_key))

InfoInit == info = Nothing /\ asking = NoInfoCall

InfoNext ==
    \/ \E key \in InfoKey, value \in InfoValue : set_key_value(key, value)
    \/ \E s \in InfoString, maxlen \in BufferLength : set_key_value_buffer(s, maxlen)

InfoSpec == InfoInit /\ [][InfoNext]_infoVars

-----------------------------------------------------------------------------
(* Properties                                                                *)

\* Also, the string is in the buffer of the engine.
InfoTypeOK ==
    /\ info \in Seq(Seq(STRING)) /\ StringLength(info) < MaxInfoString
    /\ asking \in [key : Seq(STRING), value : Seq(STRING), before : Seq(Seq(STRING))]
    /\ Len(asking.key) < MaxKeyValue /\ Len(asking.value) < MaxKeyValue

InfoKeys(s) == {s[i] : i \in InfoPairs(s)}
WellFormed(s) ==
    /\ Len(s) % 2 = 0 /\ Nothing \notin InfoKeys(s)
    /\ Cardinality(InfoKeys(s)) = Cardinality(InfoPairs(s))
    /\ StringLength(s) < MaxInfoString

\* What may go when an important key needs room: keys that are not important,
\* and those that are wrong because they or their values are too long.
Droppable(s) == {s[i] : i \in {j \in WholePairs(s) : s[j] \notin Important \/ Oversized(s, j)}}

\* A call of set_key_value on a string in order leaves it in order and within
\* its length.  If the new pair has room it can be read back; if not the key may
\* be gone.  Every key that plugins can ask for and that does not begin with the
\* new one keeps its value, except, when an important key needs the room, those
\* that are droppable, with the keys that begin like one of them.
InfoKeepsPairs ==
    LET key == asking.key
        value == asking.value
        before == asking.before
    IN  asking # NoInfoCall /\ WellFormed(before) =>
            /\ WellFormed(info)
            /\ Refused(key, value) => info = before
            /\ ~Refused(key, value) => get_key_value(key) \in {StoredValue(key, value), Nothing}
            /\ ~Refused(key, value) /\ HasRoom(before, key, value) =>
                  get_key_value(key) = StoredValue(key, value)
            /\ \A other \in InfoKeys(before) : Len(other) < MaxKeyValue /\ ~IsPrefix(key, other) =>
                  \/ get_key_value(other) = Info_ValueForKey(before, other)
                  \/ /\ key \in Important /\ ~HasRoom(before, key, value)
                     /\ \E k \in Droppable(before) : IsPrefix(Given(k), other)
===============================================================================
