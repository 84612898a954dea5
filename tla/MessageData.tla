----------------------------- MODULE MessageData -----------------------------
(***************************************************************************)
(* The natives that read and change the message whose hook is executing,   *)
(* and those that block messages (natives_hookmessage.cpp).                *)
(*                                                                         *)
(* What ReHLDS keeps of a message is a value for each of its parts, and    *)
(* the original one; numbers of arguments that a message does not have are *)
(* left out.                                                               *)
(***************************************************************************)
EXTENDS TypeConversion, Sequences, FiniteSets

CONSTANTS
    ArgType,        \* the type of each argument of the message
    MessageCell,    \* cells that plugins pass
    MessageText,    \* texts that they pass, sequences of letters
    TextSize,       \* of the buffer that a text passes through
    MaxUserMessages \* MAX_USERMESSAGES

ASSUME MessageAssumption ==
    /\ DOMAIN ArgType \cap {"Dest", "Index", "Origin", "Edict"} = {}
    /\ MessageCell \subseteq Int /\ MessageText \subseteq Seq(STRING)
    /\ TextSize \in Nat \ {0} /\ MaxUserMessages \in Nat

VARIABLES
    message,        \* g_activeMessageContext: the value of each part
    original,
    blocks,         \* how each message is blocked
    put             \* what plugins have set each part to since it was reset

messageVars == <<message, original, blocks, put>>

-----------------------------------------------------------------------------
(* Parts of a message, and their values                                      *)

GetMessageArgsNum == Cardinality(DOMAIN ArgType)
GetMessageArgType(arg) == ArgType[arg]
MessageArgument == DOMAIN ArgType
MessagePart == {"Dest", "Index", "Origin", "Edict"} \cup MessageArgument

\* All other types are passed in a cell.
IsText(p) == p \in MessageArgument /\ GetMessageArgType(p) = "String"
Passable(p) == IF IsText(p) THEN MessageText ELSE MessageCell

ByteOf(v) == v % 256            \* enumerations of uint8
EdictOrNone(i) == IF i <= 0 THEN NULL ELSE g_pEdicts + i
IndexOr(nobody, ed) == IF ed # NULL THEN IndexOfEdict(ed) ELSE nobody

FirstLetters(text, n) == IF Len(text) <= n THEN text ELSE SubSeq(text, 1, n)

\* What a plugin sets a part to.
StoredPart(p, v) ==
    CASE p = "Dest" -> ByteOf(v)
      [] p = "Edict" -> EdictOrNone(v)
      [] IsText(p) -> FirstLetters(v, TextSize - 1)
      [] OTHER -> v

\* What it reads, with the index of no edict.
ReadPart(p, v, nobody) == IF p = "Edict" THEN IndexOr(nobody, v) ELSE v

-----------------------------------------------------------------------------
(* The natives                                                               *)

SetMessageData(p, v) ==
    /\ message' = [message EXCEPT ![p] = StoredPart(p, v)]
    /\ put' = [put EXCEPT ![p] = <<v>>]
    /\ UNCHANGED <<original, blocks>>

GetMessageData(p) == ReadPart(p, message[p], 0)

ChangedOf(p) ==                 \* a mutant: arguments as GetMessageData reads them
    IF p = "Index" \/ p \in MessageArgument THEN message[p] ELSE original[p]
OriginalOf(p) == IF p = "Index" THEN message[p] ELSE original[p]

\* Of the index it reads the one that plugins have set.
GetMessageOrigData(p) == ReadPart(p, OriginalOf(p), AMX_NULLENT)

\* Of one part, or of any.
IsMessageDataModified(ps) == \E p \in ps : put[p] # <<>>

ResetParts(ps) ==
    /\ message' = [p \in MessagePart |-> IF p \in ps THEN original[p] ELSE message[p]]
    /\ put' = [p \in MessagePart |-> IF p \in ps THEN <<>> ELSE put[p]]
    /\ UNCHANGED <<original, blocks>>

\* Any part, all arguments, or one of them.
ResetModifiedMessageData ==
    \E ps \in {MessagePart, MessageArgument} \cup {{p} : p \in MessagePart} : ResetParts(ps)

HasBlock(id) == id > 0 /\ id < MaxUserMessages

SetMessageBlock(id, v) ==
    /\ HasBlock(id)
    /\ blocks' = [blocks EXCEPT ![id] = ByteOf(v)]
    /\ UNCHANGED <<message, original, put>>

-----------------------------------------------------------------------------

\* The game sends a message: to somebody or to all.
Sent(ed) == [p \in MessagePart |-> CASE p = "Edict" -> ed
                                     [] IsText(p) -> <<"m">>
                                     [] OTHER -> 1]

MessageInit ==
    /\ \E ed \in {NULL, g_pEdicts + 1} : message = Sent(ed)
    /\ original = message
    /\ blocks = [id \in 1 .. MaxUserMessages - 1 |-> 0]
    /\ put = [p \in MessagePart |-> <<>>]

MessageNext ==
    \/ \E p \in MessagePart : \E v \in Passable(p) : SetMessageData(p, v)
    \/ ResetModifiedMessageData
    \/ \E id \in 0 .. MaxUserMessages, v \in 0 .. 2 : SetMessageBlock(id, v)

MessageSpec == MessageInit /\ [][MessageNext]_messageVars

-----------------------------------------------------------------------------
(* Properties                                                                *)

MessageTypeOK ==
    /\ {DOMAIN message, DOMAIN original, DOMAIN put} = {MessagePart}
    /\ \A p \in MessagePart : IF IsText(p) THEN Len(message[p]) < TextSize ELSE message[p] \in Int
    /\ {message["Dest"], original["Dest"]} \subseteq 0 .. 255
    /\ blocks \in [1 .. MaxUserMessages - 1 -> 0 .. 255]
    /\ \A p \in MessagePart : put[p] = <<>> \/ \E v \in Passable(p) : put[p] = <<v>>

\* What a plugin has set a part to is what it reads, until it is reset; the
\* original stays what the game has sent, and comes back with the reset.  An
\* index of no client reads 0, and -1 where it is the original one; a text is
\* cut, and of the destination a byte is kept.  The original index is excepted.
SetMessageReadsBack ==
    \A p \in MessagePart :
        /\ put[p] # <<>> => LET v == put[p][1] IN
              /\ p = "Edict" => GetMessageData(p) = IF v < 0 THEN 0 ELSE v
              /\ p = "Dest" /\ v \in 0 .. 255 => GetMessageData(p) = v
              /\ IsText(p) /\ Len(v) < TextSize => GetMessageData(p) = v
              /\ p \notin {"Edict", "Dest"} /\ ~IsText(p) => GetMessageData(p) = v
        /\ p # "Index" =>
              LET sent == GetMessageOrigData(p)
              IN  (IF p = "Edict" /\ sent = -1 THEN 0 ELSE sent) = ReadPart(p, original[p], 0)
        /\ ~IsMessageDataModified({p}) => message[p] = original[p]
===============================================================================
