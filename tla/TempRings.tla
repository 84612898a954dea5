------------------------------ MODULE TempRings ------------------------------
(***************************************************************************)
(* The rings of temporary values behind SetHookChainReturn: a string or a  *)
(* vector that a plugin returns is copied into the next slot of a ring     *)
(* (CTempAnyData in natives/natives_hookchains.h), and the call's return   *)
(* value points there until the call returns, however many calls nested in *)
(* it take slots of their own meanwhile.  Nothing reserves a slot.         *)
(***************************************************************************)
EXTENDS Integers

CONSTANTS
    RingSize,       \* BUF_MAX, 16 for strings and for vectors
    Holder,         \* calls that may hold a value at the same time
    NoHolder,       \* none of them
    MaxSince        \* bound of the model: allocations after the one held

ASSUME RingAssumption ==
    /\ RingSize \in Nat \ {0}
    /\ NoHolder \notin Holder
    /\ MaxSince \in Nat

VARIABLES
    current,    \* m_current
    data,       \* m_data: the holder whose value is in a slot, or NoHolder
    slot,       \* slot[h]: where retVal._string of the call h points, or NoSlot
    since       \* history: how many slots were taken after slot[h] was

ringVars == <<current, data, slot, since>>

NoSlot == -1
Slots == 0 .. (RingSize - 1)

Holding(h) == slot[h] # NoSlot

-----------------------------------------------------------------------------

NextSlotUnwrapped == current + 1                    \* a mutant
NextSlotShort == (current + 1) % (RingSize - 1)     \* a mutant
NextSlot == (current + 1) % RingSize

\* SetHookChainReturn with a string or a vector, in a callback of the call h,
\* once or again.
SetTempReturn(h) ==
    /\ \A g \in Holder : since[g] < MaxSince
    /\ current' = NextSlot
    /\ data' = [data EXCEPT ![NextSlot] = h]
    /\ slot' = [slot EXCEPT ![h] = NextSlot]
    /\ since' = [g \in Holder |->
                   IF g = h \/ ~Holding(g) THEN 0 ELSE since[g] + 1]

\* The call h returns the value to its caller.
HolderReturns(h) ==
    /\ Holding(h)
    /\ slot' = [slot EXCEPT ![h] = NoSlot]
    /\ since' = [since EXCEPT ![h] = 0]
    /\ UNCHANGED <<current, data>>

RingInit ==
    /\ current = 0
    /\ data = [i \in Slots |-> NoHolder]
    /\ slot = [h \in Holder |-> NoSlot]
    /\ since = [h \in Holder |-> 0]

RingNext ==
    \/ \E h \in Holder : SetTempReturn(h)
    \/ \E h \in Holder : HolderReturns(h)

RingSpec == RingInit /\ [][RingNext]_ringVars

-----------------------------------------------------------------------------
(* Properties *)

RingTypeOK ==
    /\ current \in Slots
    /\ data \in [Slots -> Holder \cup {NoHolder}]
    /\ slot \in [Holder -> Slots \cup {NoSlot}]
    /\ since \in [Holder -> Nat]

\* The value a call is going to return is the one its own callback set last,
\* exactly as long as fewer than RingSize values were set after it, by calls
\* nested in it or by others: the sixteenth later one overwrites it, and no
\* earlier one does (CTempAnyData::Alloc).
IntactForARound ==
    \A h \in Holder : Holding(h) =>
        (data[slot[h]] = h <=> since[h] < RingSize)
=============================================================================
