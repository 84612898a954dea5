--------------------------------- MODULE Models ---------------------------------
(***************************************************************************)
(* What plugins ask of an entity's model: the places of bones and          *)
(* attachments, the sequence that it plays, and the choice of body parts   *)
(* (reapi_utils.cpp and the natives in natives_common.cpp that call it).   *)
(*                                                                         *)
(* Time and frames are whole numbers here, and every sequence is played at *)
(* the same rate.                                                          *)
(***************************************************************************)
EXTENDS Integers, Sequences

CONSTANTS
    NumModels,      \* nummodels of each of the model's body parts
    NumBones,       \* bones or attachments
    NumSeq,         \* sequences
    Looping,        \* those of them with STUDIO_LOOPING
    Frames,         \* the 256 frames of a sequence
    Rates,          \* frames per unit of time, by v.framerate
    MaxTime         \* bound of the model

ASSUME ModelsAssumption ==
    /\ NumModels \in Seq(Nat \ {0}) /\ Frames \in Nat \ {0} /\ Rates \subseteq Int
    /\ NumBones \in Nat /\ NumSeq \in Nat /\ MaxTime \in Nat

VARIABLES
    now,            \* gpGlobals->time
    ent,            \* the entity
    lastCall        \* history: the last native, and the entity before it

modelVars == <<now, ent, lastCall>>

-----------------------------------------------------------------------------
(* Helpers                                                                   *)

\* Division and remainder of C++, which go towards zero.
Quotient(a, b) == IF a >= 0 THEN a \div b ELSE -((-a) \div b)
Remainder(a, b) == a - b * Quotient(a, b)

HasSequence(e) == e.sequence >= 0 /\ e.sequence < NumSeq

Wrapped(frame, sequence) ==
    CASE frame >= 0 /\ frame < Frames -> frame
      [] (frame < 0 \/ frame >= Frames) /\ sequence \in Looping ->
            frame - Quotient(frame, Frames) * Frames
      [] OTHER -> IF frame < 0 THEN 0 ELSE Frames - 1

StudioFrameAdvanceEnt(e, time) ==
    LET interval == IF time - e.animtime > 0 /\ e.animtime = 0 THEN 0 ELSE time - e.animtime
    IN  CASE time - e.animtime <= 0 -> [e EXCEPT !.animtime = time]
          [] time - e.animtime > 0 /\ ~HasSequence(e) -> e
          [] OTHER -> [e EXCEPT !.frame = Wrapped(e.frame + interval * e.rate, e.sequence),
                                !.animtime = time]

\* A body part's base is the number of choices for those before it.
base[g \in 0 .. Len(NumModels)] == IF g = 0 THEN 1 ELSE NumModels[g] * base[g - 1]
Base(g) == base[g]
HasGroup(e, g) == e.model /\ g < Len(NumModels)

CurrentOf(e, g) == Remainder(Quotient(e.body, Base(g)), NumModels[g + 1])

GetBodygroup(e, g) == IF ~HasGroup(e, g) \/ NumModels[g + 1] <= 1 THEN 0 ELSE CurrentOf(e, g)

-----------------------------------------------------------------------------
(* The natives                                                               *)

Nobody == [native |-> "none", at |-> 0, value |-> 0, result |-> 0, before |-> ent]
CallOf(native, at, value, result) ==
    [native |-> native, at |-> at, value |-> value, result |-> result, before |-> ent]

\* The place of a bone is that at the present frame: the model stands for it with
\* this frame, and for no place with -1.  The entity is moved on for it, and back.
NoPlace == -1
GetBonePosition(bone) ==
    LET found == ent.model /\ bone >= 0 /\ bone < NumBones
        moved == StudioFrameAdvanceEnt(ent, now)
    IN  /\ ent' = IF found THEN [moved EXCEPT !.frame = ent.frame, !.animtime = ent.animtime]
                  ELSE ent
        /\ lastCall' = CallOf("bone", bone, 0, IF found THEN moved.frame ELSE NoPlace)
        /\ UNCHANGED now

GetAttachment(attachment) == GetBonePosition(attachment)

AddToBody(g, v) ==              \* a mutant: the present choice stays in
    [ent EXCEPT !.body = @ + v * Base(g)]
ChooseBody(g, v) == [ent EXCEPT !.body = @ + (v - CurrentOf(ent, g)) * Base(g)]

SetBodygroup(g, v) ==
    /\ ent' = IF HasGroup(ent, g) /\ v < NumModels[g + 1] THEN ChooseBody(g, v) ELSE ent
    /\ lastCall' = CallOf("body", g, v, 0)
    /\ UNCHANGED now

\* TRUE of a sequence below the number of them.
GetSequenceInfo2 ==
    /\ lastCall' = CallOf("sequence", 0, 0, IF ent.model /\ ent.sequence < NumSeq THEN 1 ELSE 0)
    /\ UNCHANGED <<now, ent>>

-----------------------------------------------------------------------------
(* The game, which has the same function to move the entity on               *)

TimePasses == now < MaxTime /\ now' = now + 1 /\ UNCHANGED <<ent, lastCall>>

Animate ==
    /\ ent' = StudioFrameAdvanceEnt(ent, now)
    /\ lastCall' = [Nobody EXCEPT !.before = ent']
    /\ UNCHANGED now

PlaySequence(sequence, rate) ==
    /\ ent' = [ent EXCEPT !.sequence = sequence, !.rate = rate, !.frame = 0, !.animtime = now]
    /\ lastCall' = [Nobody EXCEPT !.before = ent']
    /\ UNCHANGED now

\* An entity, with a model or without one.
Standing(model) ==
    [model |-> model, frame |-> 0, animtime |-> 0, sequence |-> 0, rate |-> 1, body |-> 0]

ModelsInit ==
    /\ now = 0
    /\ \E model \in BOOLEAN : ent = Standing(model)
    /\ lastCall = Nobody

\* Plugins choose among the models that there are, or beyond them; groups are
\* those of the model, or far beyond.
ModelsNext ==
    \/ \E bone \in -1 .. NumBones : GetBonePosition(bone) \/ GetAttachment(bone)
    \/ \E g \in 0 .. Len(NumModels) + 1, v \in UNION {0 .. NumModels[i] : i \in DOMAIN NumModels} :
          g # Len(NumModels) /\ SetBodygroup(g, v)
    \/ GetSequenceInfo2
    \/ TimePasses
    \/ Animate
    \/ \E sequence \in 0 .. NumSeq, rate \in Rates : PlaySequence(sequence, rate)

ModelsSpec == ModelsInit /\ [][ModelsNext]_modelVars

-----------------------------------------------------------------------------
(* Properties                                                                *)

\* Also, the choices of the body parts are among those that there are.
ModelsTypeOK ==
    /\ now \in 0 .. MaxTime
    /\ ent \in [model : BOOLEAN, frame : -Frames + 1 .. Frames - 1, animtime : 0 .. MaxTime,
               sequence : 0 .. NumSeq, rate : {1} \cup Rates, body : 0 .. Base(Len(NumModels)) - 1]
    /\ lastCall.native \in {"none", "bone", "body", "sequence"}

\* A plugin that looks at a model does not touch it, although the entity is moved
\* on for it and back.  A choice of one body part is what is read back, and
\* leaves all others, as long as plugins choose what there is.
ModelsIntact ==
    LET before == lastCall.before
        chosen == ent.model /\ lastCall.at < Len(NumModels) /\ lastCall.value < NumModels[lastCall.at + 1]
    IN  /\ lastCall.native # "body" => ent = before
        /\ lastCall.native = "body" =>
              /\ [ent EXCEPT !.body = 0] = [before EXCEPT !.body = 0]
              /\ \A g \in 0 .. Len(NumModels) - 1 :
                    GetBodygroup(ent, g) =
                        IF g = lastCall.at /\ chosen THEN lastCall.value ELSE GetBodygroup(before, g)
===============================================================================
