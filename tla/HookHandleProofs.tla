-------------------------- MODULE HookHandleProofs --------------------------
(* What a handle says is what was put into it.                             *)
EXTENDS HookHandle, TLAPS

\* Quotient and remainder are unique ...
LEMMA Unique ==
    ASSUME NEW m \in Nat \ {0}, NEW f \in Nat, NEW g \in Int,
           NEW k \in 0 .. (m - 1), NEW r \in 0 .. (m - 1),
           f * m + k = g * m + r
    PROVE  f = g /\ k = r
OBVIOUS

\* ... and \div and % yield them.
LEMMA Division ==
    ASSUME NEW m \in Nat \ {0}, NEW x \in Nat
    PROVE  /\ x \div m \in Int
           /\ x % m \in 0 .. (m - 1)
           /\ x = (x \div m) * m + (x % m)
OBVIOUS

LEMMA DivMod ==
    ASSUME NEW m \in Nat \ {0}, NEW f \in Nat, NEW k \in 0 .. (m - 1)
    PROVE  /\ (f * m + k) \div m = f
           /\ (f * m + k) % m = k
<1> DEFINE x == f * m + k
           q == x \div m
           r == x % m
<1>1. x \in Nat
  OBVIOUS
<1>. HIDE DEF x
<1>2. q \in Int /\ r \in 0 .. (m - 1) /\ x = q * m + r
  BY <1>1, Division
<1>. HIDE DEF q, r
<1>3. f * m + k = q * m + r
  BY <1>2 DEF x
<1>4. f = q /\ k = r
  BY <1>2, <1>3, Unique
<1>. QED
  BY <1>4 DEF q, r, x

\* getAmxxHook takes a handle apart into what addHandler put together, as long
\* as the list the callback is in has at most MAX_HOOK_FORWARDS of them.
THEOREM RoundTrip ==
    ASSUME NEW f \in Nat, NEW i \in 1 .. MaxForwards, NEW post \in BOOLEAN
    PROVE  /\ IsPost(Encode(f, i, post)) <=> post
           /\ FuncOf(Encode(f, i, post)) = f
           /\ PosOf(Encode(f, i, post)) = i
<1> DEFINE h == Encode(f, i, post)
           k == i - 1
<1>1. /\ MaxForwards \in Nat \ {0} /\ k \in 0 .. (MaxForwards - 1)
      /\ f * MaxForwards \in Nat
  BY MaxForwardsAssumption
<1>2. IsPost(h) <=> post
  BY <1>1 DEF Encode, IsPost
<1>3. Offset(h) = f * MaxForwards + k
  BY <1>1 DEF Offset, Encode, IsPost
<1>4. /\ (f * MaxForwards + k) \div MaxForwards = f
      /\ (f * MaxForwards + k) % MaxForwards = k
  BY <1>1, DivMod
<1>5. f * MaxForwards + k >= 0
  BY <1>1
<1>. HIDE DEF h
<1>6. FuncOf(h) = f
  <2> DEFINE o == Offset(h)
  <2>1. o >= 0 /\ o \div MaxForwards = f /\ o \in Int
    BY <1>1, <1>3, <1>4, <1>5
  <2>. HIDE DEF o
  <2>2. ~(o < 0)
    BY <2>1
  <2>. QED
    BY <2>1, <2>2 DEF FuncOf, o
<1>7. PosOf(h) = k + 1
  BY <1>3, <1>4 DEF PosOf
<1>. QED
  BY <1>2, <1>6, <1>7 DEF h
=============================================================================
