---------------------------- MODULE MCMessageParts ----------------------------
(* Two instances of MessageHook for TLC: messages inside messages with two   *)
(* hooks, and messages of three hooks whose data nobody changes.             *)
EXTENDS MessageHook, TLC

CONSTANTS a1, a2, a3

VARIABLES
    part,           \* which of the two a behaviour is of
    used            \* the addresses used so far, of a deep one

PartSpec ==
    /\ Init /\ part \in {"deep", "long"} /\ used = {}
    /\ [][/\ Next
          /\ part' = part
          /\ used' = IF part = "long" THEN {}
                     ELSE used \cup {a \in Addr : object'[a] # "FREE"}]_<<vars, part, used>>

InPart ==
    CASE part = "deep" -> Cardinality(used) <= 2
      [] part = "long" -> Len(stack) <= 1 /\ \A k \in DOMAIN stack : ~stack[k].modified

\* Addresses are interchangeable.
Addresses == Permutations(Addr)
=============================================================================
