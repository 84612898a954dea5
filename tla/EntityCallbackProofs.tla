------------------------ MODULE EntityCallbackProofs ------------------------
(***************************************************************************)
(* What holds of EntityCallback for every set of entities, of types and of *)
(* addresses, however deep dispatches nest.                                *)
(***************************************************************************)
EXTENDS EntityCallback, FiniteSetTheorems, TLAPS

-----------------------------------------------------------------------------
(* The inductive invariant *)

UniqueIn(s) == \A i, j \in DOMAIN s : s[i].addr = s[j].addr => i = j

SlotsOK(s, m) ==
    \A i, j \in DOMAIN s :
       /\ s[i].ent = s[j].ent /\ s[i].type = s[j].type
       /\ s[i].addr \notin m /\ s[j].addr \notin m
       => i = j

OwnersOK(s, m, e) == \A i \in DOMAIN s : s[i].ent \in e \/ s[i].addr \in m

\* The list s of callbacks, with the marks m and the entities e.
ListOK(s, m, e) ==
    /\ s \in Seq(Callback) /\ UniqueIn(s) /\ SlotsOK(s, m) /\ OwnersOK(s, m, e)
    /\ m \subseteq AddressesIn(s)

\* As long as no dispatch nested in it has ended, the flag p protects what a
\* dispatch of the stack s executes.
FramesOK(s, p) ==
    /\ s \in Seq(Frame)
    /\ \A i \in DOMAIN s : ~s[i].reentered => s[i].valid /\ p

FlagOK(m, p, s) == p \in BOOLEAN /\ (m # {} => p) /\ (p => s # <<>>)

ArmedOK(e, a) ==
    /\ e \subseteq Ent /\ a \subseteq e \X Type
    /\ \A s \in a : s[2] = MoveDone => s[1] \in Toggle

IInv ==
    /\ ListOK(callbacks, marks, ents)
    /\ FramesOK(stack, processing)
    /\ FlagOK(marks, processing, stack)
    /\ ArmedOK(ents, armed)

-----------------------------------------------------------------------------
(* The callbacks that stay *)

\* The members of a finite set of numbers can be counted off.
LEMMA NthExists ==
    ASSUME NEW m \in Nat, NEW K \in SUBSET (1 .. m)
    PROVE  /\ IsFiniteSet(K) /\ Cardinality(K) \in Nat
           /\ \A n \in 1 .. Cardinality(K) :
                 Nth(K, n) \in K /\ Cardinality({j \in K : j <= Nth(K, n)}) = n
           /\ \A i \in K : \E n \in 1 .. Cardinality(K) : Nth(K, n) = i
<1> DEFINE upto(i) == {j \in K : j <= i}
           rank == [i \in K |-> Cardinality(upto(i))]
           R == 1 .. Cardinality(K)
<1>1. IsFiniteSet(K) /\ Cardinality(K) \in Nat
  <2>1. IsFiniteSet(1 .. m)
    BY FS_Interval
  <2>. QED
    BY <2>1, FS_Subset, FS_CardinalityType
<1>2. ASSUME NEW i \in K
      PROVE  /\ IsFiniteSet(upto(i)) /\ Cardinality(upto(i)) \in R
  <2>1. upto(i) \in SUBSET K /\ i \in upto(i)
    OBVIOUS
  <2>. HIDE DEF upto
  <2>2. /\ IsFiniteSet(upto(i)) /\ Cardinality(upto(i)) <= Cardinality(K)
        /\ Cardinality(upto(i)) \in Nat
    BY <1>1, <2>1, FS_Subset, FS_CardinalityType
  <2>3. Cardinality(upto(i)) # 0
    BY <2>1, <2>2, FS_EmptySet
  <2>. QED
    BY <1>1, <2>2, <2>3
<1>3. ASSUME NEW i \in K, NEW j \in K, Cardinality(upto(i)) = Cardinality(upto(j)), i < j
      PROVE  FALSE
  <2>1. ASSUME NEW k \in upto(i) PROVE k \in upto(j)
    <3>1. k \in K /\ k <= i /\ k \in Int /\ i \in Int /\ j \in Int
      OBVIOUS
    <3>. QED
      BY <1>3, <3>1
  <2>2. j \in upto(j) /\ j \notin upto(i)
    BY <1>3
  <2>. HIDE DEF upto
  <2>3. upto(i) \in SUBSET upto(j)
    BY <2>1
  <2>4. upto(i) = upto(j)
    BY <1>2, <1>3, <2>3, FS_Subset
  <2>. QED
    BY <2>2, <2>4
<1>4. ASSUME NEW i \in K, NEW j \in K, Cardinality(upto(i)) = Cardinality(upto(j))
      PROVE  i = j
  <2>. HIDE DEF upto
  <2>1. ~(i < j) /\ ~(j < i) /\ i \in Nat /\ j \in Nat
    BY <1>3, <1>4
  <2>. QED
    BY <2>1
<1>5. rank \in Injection(K, R)
  <2>1. rank \in [K -> R] /\ \A i \in K : rank[i] = Cardinality(upto(i))
    BY <1>2
  <2>. HIDE DEF rank, upto
  <2>2. \A i, j \in K : rank[i] = rank[j] => i = j
    BY <1>4, <2>1
  <2>. QED
    BY <2>1, <2>2 DEF Injection, IsInjective
<1>6. IsFiniteSet(R) /\ Cardinality(R) = Cardinality(K)
  <2>. DEFINE c == Cardinality(K)
  <2>1. c \in Nat
    BY <1>1
  <2>. HIDE DEF c
  <2>2. IsFiniteSet(1 .. c) /\ Cardinality(1 .. c) = IF 1 > c THEN 0 ELSE c - 1 + 1
    BY <2>1, FS_Interval
  <2>3. Cardinality(1 .. c) = c
    BY <2>1, <2>2
  <2>. QED
    BY <2>2, <2>3 DEF c
<1>7. rank \in Surjection(K, R)
  <2>. HIDE DEF rank, R
  <2>. QED
    BY <1>1, <1>5, <1>6, FS_Injection
<1>8. ASSUME NEW n \in R
      PROVE  Nth(K, n) \in K /\ Cardinality(upto(Nth(K, n))) = n
  <2>1. \E i \in K : rank[i] = n
    <3>. HIDE DEF rank
    <3>. QED
      BY <1>7, <1>8 DEF Surjection
  <2>2. \E i \in K : Cardinality({j \in K : j <= i}) = n
    BY <2>1
  <2>. QED
    BY <2>2 DEF Nth
<1>9. ASSUME NEW i \in K PROVE \E n \in R : Nth(K, n) = i
  <2>. DEFINE n == Cardinality(upto(i))
  <2>1. n \in R
    BY <1>2
  <2>2. Nth(K, n) \in K /\ Cardinality(upto(Nth(K, n))) = Cardinality(upto(i))
    BY <1>8, <2>1
  <2>3. Nth(K, n) = i
    BY <1>4, <2>2
  <2>. QED
    BY <2>1, <2>3
<1>. QED
  BY <1>1, <1>8, <1>9

LEMMA WithoutFacts ==
    ASSUME callbacks \in Seq(Callback), NEW A
    PROVE  /\ Without(A) \in Seq(Callback)
           /\ UniqueIn(callbacks) => UniqueIn(Without(A))
           /\ \A k \in DOMAIN Without(A) : \E i \in DOMAIN callbacks :
                 Without(A)[k] = callbacks[i] /\ callbacks[i].addr \notin A
           /\ \A i \in DOMAIN callbacks : callbacks[i].addr \notin A =>
                 \E k \in DOMAIN Without(A) : Without(A)[k] = callbacks[i]
<1> DEFINE K == Kept(A)
           c == Cardinality(K)
           w == Without(A)
<1>1. /\ Len(callbacks) \in Nat /\ DOMAIN callbacks = 1 .. Len(callbacks)
      /\ \A i \in DOMAIN callbacks : callbacks[i] \in Callback
  OBVIOUS
<1>2. /\ K \in SUBSET (1 .. Len(callbacks))
      /\ \A i \in DOMAIN callbacks : i \in K <=> callbacks[i].addr \notin A
      /\ \A i \in K : i \in DOMAIN callbacks
  BY <1>1 DEF Kept
<1>3. w = [n \in 1 .. c |-> callbacks[Nth(K, n)]]
  BY DEF Without
<1>. HIDE DEF K, w
<1>4. /\ c \in Nat
      /\ \A n \in 1 .. c : Nth(K, n) \in K /\ Cardinality({j \in K : j <= Nth(K, n)}) = n
      /\ \A i \in K : \E n \in 1 .. c : Nth(K, n) = i
  BY <1>1, <1>2, NthExists
<1>. HIDE DEF c
<1>5. \A n \in 1 .. c : w[n] = callbacks[Nth(K, n)] /\ w[n] \in Callback
  BY <1>1, <1>2, <1>3, <1>4
<1>6. DOMAIN w = 1 .. c
  BY <1>3
<1>7. w \in Seq(Callback)
  <2>1. w \in [1 .. c -> Callback]
    BY <1>3, <1>5
  <2>. QED
    BY <1>4, <2>1
<1>8. ASSUME UniqueIn(callbacks) PROVE UniqueIn(w)
  <2> SUFFICES ASSUME NEW k \in 1 .. c, NEW n \in 1 .. c, w[k].addr = w[n].addr
               PROVE  k = n
    BY <1>6 DEF UniqueIn
  <2>1. Nth(K, k) = Nth(K, n)
    BY <1>2, <1>4, <1>5, <1>8 DEF UniqueIn
  <2>. QED
    BY <1>4, <2>1
<1>9. \A k \in DOMAIN w : \E i \in DOMAIN callbacks :
         w[k] = callbacks[i] /\ callbacks[i].addr \notin A
  <2> TAKE k \in DOMAIN w
  <2>1. Nth(K, k) \in K /\ w[k] = callbacks[Nth(K, k)]
    BY <1>4, <1>5, <1>6
  <2>. QED
    BY <1>2, <2>1
<1>10. \A i \in DOMAIN callbacks : callbacks[i].addr \notin A =>
          \E k \in DOMAIN w : w[k] = callbacks[i]
  BY <1>2, <1>4, <1>5, <1>6
<1>. QED
  BY <1>7, <1>8, <1>9, <1>10 DEF w

-----------------------------------------------------------------------------
(* Deleting and marking *)

\* What is left of the callbacks but those at A: the list c with the marks m.
Remains(c, m, A) ==
    /\ c \in Seq(Callback) /\ UniqueIn(c) /\ SlotsOK(c, m)
    /\ m \subseteq AddressesIn(c)
    /\ \A k \in DOMAIN c : c[k].addr \notin m =>
          \E i \in DOMAIN callbacks :
             c[k] = callbacks[i] /\ callbacks[i].addr \notin A \cup marks

\* Deleting: the list without the callbacks at A, and no mark.
LEMMA WithoutRemains ==
    ASSUME ListOK(callbacks, marks, ents), NEW A, marks \subseteq A
    PROVE  Remains(Without(A), {}, A)
<1> DEFINE w == Without(A)
<1>1. /\ callbacks \in Seq(Callback) /\ UniqueIn(callbacks) /\ SlotsOK(callbacks, marks)
  BY DEF ListOK
<1>2. /\ w \in Seq(Callback) /\ UniqueIn(w)
      /\ \A k \in DOMAIN w : \E i \in DOMAIN callbacks :
            w[k] = callbacks[i] /\ callbacks[i].addr \notin A
  BY <1>1, WithoutFacts
<1>. HIDE DEF w
<1>3. SlotsOK(w, {})
  <2>. SUFFICES ASSUME NEW i \in DOMAIN w, NEW j \in DOMAIN w,
                       w[i].ent = w[j].ent, w[i].type = w[j].type
                PROVE  i = j
    BY DEF SlotsOK
  <2>1. PICK k \in DOMAIN callbacks : w[i] = callbacks[k] /\ callbacks[k].addr \notin A
    BY <1>2
  <2>2. PICK n \in DOMAIN callbacks : w[j] = callbacks[n] /\ callbacks[n].addr \notin A
    BY <1>2
  <2>3. k = n
    BY <1>1, <2>1, <2>2 DEF SlotsOK
  <2>. QED
    BY <1>2, <2>1, <2>2, <2>3 DEF UniqueIn
<1>. QED
  BY <1>2, <1>3 DEF Remains, w

\* Marking: the list as it is, and more marks.
LEMMA MarkedRemains ==
    ASSUME ListOK(callbacks, marks, ents), NEW A, A \subseteq Listed
    PROVE  Remains(callbacks, marks \cup A, A)
<1>1. \A k \in DOMAIN callbacks : callbacks[k].addr \notin marks \cup A =>
         \E i \in DOMAIN callbacks :
            callbacks[k] = callbacks[i] /\ callbacks[i].addr \notin A \cup marks
  OBVIOUS
<1>2. SlotsOK(callbacks, marks \cup A)
  BY DEF ListOK, SlotsOK
<1>3. marks \cup A \subseteq AddressesIn(callbacks)
  BY DEF ListOK, Listed
<1>. QED
  BY <1>1, <1>2, <1>3 DEF ListOK, Remains

LEMMA DeletedFrames ==
    ASSUME NEW s \in Seq(Frame), NEW A
    PROVE  /\ Deleted(s, A) \in Seq(Frame) /\ DOMAIN Deleted(s, A) = DOMAIN s
           /\ \A i \in DOMAIN s : Deleted(s, A)[i].reentered = s[i].reentered
<1>1. Len(s) \in Nat /\ DOMAIN s = 1 .. Len(s) /\ \A i \in DOMAIN s : s[i] \in Frame
  OBVIOUS
<1>2. \A i \in DOMAIN s : /\ Deleted(s, A)[i] \in Frame
                          /\ Deleted(s, A)[i].reentered = s[i].reentered
  BY <1>1 DEF Deleted, Frame
<1>3. DOMAIN Deleted(s, A) = 1 .. Len(s)
  BY <1>1 DEF Deleted
<1>4. Deleted(s, A) \in [1 .. Len(s) -> Frame]
  BY <1>1, <1>2 DEF Deleted
<1>. QED
  BY <1>1, <1>2, <1>3, <1>4

\* DeleteExistingCallbacks.
LEMMA DeleteExistingFacts ==
    ASSUME IInv, NEW A, A \subseteq Listed, DeleteExisting(A)
    PROVE  /\ Remains(Left(A), marks', A)
           /\ FramesOK(stack', processing) /\ FlagOK(marks', processing, stack')
<1>1. CASE processing
  <2>1. Left(A) = callbacks /\ marks' = marks \cup A /\ stack' = stack
    BY <1>1 DEF Left, DeleteExisting
  <2>2. Remains(callbacks, marks \cup A, A)
    BY MarkedRemains DEF IInv
  <2>3. FramesOK(stack, processing) /\ FlagOK(marks \cup A, processing, stack)
    BY <1>1 DEF IInv, FlagOK
  <2>. QED
    BY <2>1, <2>2, <2>3
<1>2. CASE ~processing
  <2>1. Left(A) = Without(A) /\ marks' = marks /\ stack' = Deleted(stack, A)
    BY <1>2 DEF Left, DeleteExisting
  <2>2. marks = {} /\ processing = FALSE
    BY <1>2 DEF IInv, FlagOK
  <2>3. Remains(Without(A), {}, A)
    BY <2>2, WithoutRemains DEF IInv
  <2>4. stack \in Seq(Frame) /\ \A i \in DOMAIN stack : stack[i].reentered
    BY <1>2 DEF IInv, FramesOK
  <2>5. FramesOK(Deleted(stack, A), processing)
    BY <2>4, DeletedFrames DEF FramesOK
  <2>6. FlagOK({}, processing, Deleted(stack, A))
    BY <2>2 DEF FlagOK
  <2>. QED
    BY <2>1, <2>2, <2>3, <2>5, <2>6
<1>. QED
  BY <1>1, <1>2

\* The end of a dispatch.
LEMMA EndDispatchKeepsInv ==
    ASSUME IInv, NEW s \in Seq(Frame), EndDispatch(s)
    PROVE  IInv'
<1>1. Remains(Without(marks), {}, marks)
  BY WithoutRemains DEF IInv
<1>2. callbacks' = Without(marks) /\ marks' = {} /\ processing' = FALSE
      /\ ents' = ents /\ armed' = armed
  BY DEF EndDispatch
<1>3. ListOK(callbacks', marks', ents')
  <2>1. OwnersOK(Without(marks), {}, ents)
    BY <1>1 DEF Remains, OwnersOK, IInv, ListOK
  <2>. QED
    BY <1>1, <1>2, <2>1 DEF Remains, ListOK
<1>4. FramesOK(stack', processing')
  <2>. DEFINE d == Deleted(s, marks)
  <2>1. stack' = [i \in DOMAIN s |-> [d[i] EXCEPT !.reentered = TRUE]]
    BY DEF EndDispatch
  <2>2. d \in Seq(Frame) /\ DOMAIN d = DOMAIN s
    BY DeletedFrames
  <2>. HIDE DEF d
  <2>3. Len(s) \in Nat /\ DOMAIN s = 1 .. Len(s) /\ \A i \in DOMAIN s : d[i] \in Frame
    BY <2>2
  <2>4. \A i \in DOMAIN s : stack'[i] \in Frame /\ stack'[i].reentered
    BY <2>1, <2>3 DEF Frame
  <2>5. DOMAIN (stack') = 1 .. Len(s) /\ stack' \in [1 .. Len(s) -> Frame]
    BY <2>1, <2>3, <2>4
  <2>6. stack' \in Seq(Frame)
    BY <2>3, <2>5
  <2>. QED
    BY <2>3, <2>4, <2>5, <2>6 DEF FramesOK
<1>5. FlagOK(marks', processing', stack')
  BY <1>2 DEF FlagOK
<1>6. ArmedOK(ents', armed')
  BY <1>2 DEF IInv
<1>. QED
  BY <1>3, <1>4, <1>5, <1>6 DEF IInv

-----------------------------------------------------------------------------
(* The steps *)

\* What remains has its entity, if the entities e are those that were there
\* but for some all of whose callbacks are among A.
LEMMA RemainingList ==
    ASSUME IInv, NEW A, NEW c, NEW m, NEW e, Remains(c, m, A),
           \A i \in DOMAIN callbacks :
              callbacks[i].addr \notin A /\ callbacks[i].ent \in ents => callbacks[i].ent \in e
    PROVE  ListOK(c, m, e)
<1>1. OwnersOK(c, m, e)
  <2>. SUFFICES ASSUME NEW k \in DOMAIN c, c[k].addr \notin m PROVE c[k].ent \in e
    BY DEF OwnersOK
  <2>1. PICK i \in DOMAIN callbacks :
           c[k] = callbacks[i] /\ callbacks[i].addr \notin A \cup marks
    BY DEF Remains
  <2>2. callbacks[i].ent \in ents
    BY <2>1 DEF IInv, ListOK, OwnersOK
  <2>. QED
    BY <2>1, <2>2
<1>. QED
  BY <1>1 DEF ListOK, Remains

LEMMA CallbackFields ==
    ASSUME IInv
    PROVE  \A i \in DOMAIN callbacks :
              /\ callbacks[i] \in Callback /\ callbacks[i].addr \in Addr
              /\ callbacks[i].ent \in Ent /\ callbacks[i].type \in Type
<1>1. callbacks \in Seq(Callback)
  BY DEF IInv, ListOK
<1>2. \A i \in DOMAIN callbacks : callbacks[i] \in Callback
  BY <1>1
<1>. QED
  BY <1>2 DEF Callback

\* The addresses of some of the callbacks are addresses of the list.
LEMMA AddrOfListed ==
    ASSUME NEW I, I \subseteq DOMAIN callbacks
    PROVE  /\ AddrOf(I) \subseteq Listed
           /\ \A i \in I : callbacks[i].addr \in AddrOf(I)
BY DEF AddrOf, Listed, AddressesIn

\* A new callback for the slot that all other callbacks have left.
LEMMA AppendKeepsList ==
    ASSUME IInv, NEW c, NEW m, NEW e \in ents, NEW t \in Type, NEW a \in Addr,
           Remains(c, m, AddrOf(Of(e, t))), a \notin AddressesIn(c)
    PROVE  ListOK(Append(c, [addr |-> a, ent |-> e, type |-> t]), m, ents)
<1> DEFINE new == [addr |-> a, ent |-> e, type |-> t]
           d == Append(c, new)
           n == Len(c) + 1
<1>1. ListOK(c, m, ents)
  BY RemainingList
<1>2. new \in Callback /\ new.addr = a /\ new.ent = e /\ new.type = t
  BY DEF Callback, IInv, ArmedOK
<1>. HIDE DEF new
<1>3. /\ c \in Seq(Callback) /\ d \in Seq(Callback) /\ Len(d) = n
      /\ DOMAIN c = 1 .. Len(c) /\ DOMAIN d = 1 .. n /\ Len(c) \in Nat
      /\ d[n] = new /\ \A i \in 1 .. Len(c) : d[i] = c[i]
  BY <1>1, <1>2 DEF ListOK
<1>4. \A i \in DOMAIN d : i = n \/ i \in DOMAIN c
  BY <1>3
<1>5. a \notin m /\ \A i \in DOMAIN c : c[i].addr # a
  BY DEF Remains, AddressesIn
<1>6. \A i \in DOMAIN c : c[i].addr \notin m => c[i].ent # e \/ c[i].type # t
  <2>. SUFFICES ASSUME NEW k \in DOMAIN c, c[k].addr \notin m,
                       c[k].ent = e, c[k].type = t
                PROVE  FALSE
    OBVIOUS
  <2>1. PICK i \in DOMAIN callbacks :
           c[k] = callbacks[i] /\ callbacks[i].addr \notin AddrOf(Of(e, t)) \cup marks
    BY DEF Remains
  <2>2. i \in Of(e, t)
    BY <2>1 DEF Of
  <2>. QED
    BY <2>1, <2>2 DEF AddrOf
<1>. HIDE DEF d, n
<1>7. UniqueIn(d)
  BY <1>1, <1>2, <1>3, <1>4, <1>5 DEF UniqueIn, ListOK
<1>8. SlotsOK(d, m)
  BY <1>1, <1>2, <1>3, <1>4, <1>6 DEF SlotsOK, ListOK
<1>9. OwnersOK(d, m, ents)
  BY <1>1, <1>2, <1>3, <1>4 DEF OwnersOK, ListOK
<1>10. m \subseteq AddressesIn(d)
  <2>1. n \in DOMAIN d /\ \A i \in DOMAIN c : i \in DOMAIN d /\ d[i] = c[i]
    BY <1>3 DEF n
  <2>. QED
    BY <1>1, <2>1 DEF AddressesIn, ListOK
<1>. QED
  BY <1>3, <1>7, <1>8, <1>9, <1>10 DEF ListOK, d, new

LEMMA SetCallbackKeepsInv ==
    ASSUME IInv, NEW e \in Ent, NEW t \in Type, SetCallback(e, t)
    PROVE  IInv'
<1> DEFINE A == AddrOf(Of(e, t))
           c == Left(A)
<1>1. A \subseteq Listed
  BY AddrOfListed DEF Of
<1>2. e \in ents /\ (t = MoveDone => e \in Toggle) /\ DeleteExisting(A)
      /\ armed' = armed \cup {<<e, t>>} /\ ents' = ents /\ processing' = processing
  BY DEF SetCallback
<1>3. PICK a \in Addr \ AddressesIn(c) :
         callbacks' = Append(c, [addr |-> a, ent |-> e, type |-> t])
  BY DEF SetCallback
<1>4. /\ Remains(c, marks', A)
      /\ FramesOK(stack', processing) /\ FlagOK(marks', processing, stack')
  BY <1>1, <1>2, DeleteExistingFacts
<1>. HIDE DEF c
<1>5. \A m : Remains(c, m, A) => ListOK(callbacks', m, ents)
  BY <1>2, <1>3, AppendKeepsList
<1>6. ListOK(callbacks', marks', ents')
  BY <1>2, <1>4, <1>5
<1>7. ArmedOK(ents', armed')
  BY <1>2 DEF IInv, ArmedOK
<1>. QED
  BY <1>2, <1>4, <1>6, <1>7 DEF IInv

\* The steps that only delete.
LEMMA DeletionKeepsInv ==
    ASSUME IInv, NEW A, A \subseteq Listed, DeleteExisting(A), callbacks' = Left(A),
           processing' = processing, ArmedOK(ents', armed'),
           \A i \in DOMAIN callbacks :
              callbacks[i].addr \notin A /\ callbacks[i].ent \in ents
                 => callbacks[i].ent \in ents'
    PROVE  IInv'
<1>1. /\ Remains(Left(A), marks', A)
      /\ FramesOK(stack', processing) /\ FlagOK(marks', processing, stack')
  BY DeleteExistingFacts
<1> DEFINE m == marks'
           e == ents'
           c == Left(A)
<1>2. ListOK(c, m, e)
  <2>1. Remains(c, m, A)
    BY <1>1
  <2>2. \A i \in DOMAIN callbacks :
          callbacks[i].addr \notin A /\ callbacks[i].ent \in ents => callbacks[i].ent \in e
    OBVIOUS
  <2>. HIDE DEF m, e, c
  <2>. QED
    BY <2>1, <2>2, RemainingList
<1>. QED
  BY <1>1, <1>2 DEF IInv

LEMMA FreeEntityKeepsInv ==
    ASSUME IInv, NEW e \in Ent, FreeEntity(e)
    PROVE  IInv'
<1> DEFINE I == UNION {Of(e, t) : t \in Type}
           A == AddrOf(I)
<1>1. A \subseteq Listed /\ \A i \in I : callbacks[i].addr \in A
  BY AddrOfListed DEF Of
<1>2. DeleteExisting(A) /\ callbacks' = Left(A) /\ processing' = processing
      /\ ents' = ents \ {e} /\ armed' = {s \in armed : s[1] # e}
  BY DEF FreeEntity
<1>3. ArmedOK(ents', armed')
  BY <1>2 DEF IInv, ArmedOK
<1>4. ASSUME NEW i \in DOMAIN callbacks,
             callbacks[i].addr \notin A, callbacks[i].ent \in ents
      PROVE  callbacks[i].ent \in ents'
  <2>1. callbacks[i].type \in Type
    BY CallbackFields
  <2>2. i \notin I
    BY <1>1, <1>4
  <2>3. i \notin Of(e, callbacks[i].type)
    BY <2>1, <2>2
  <2>4. callbacks[i].ent # e
    BY <2>3 DEF Of
  <2>. QED
    BY <1>2, <1>4, <2>4
<1>. HIDE DEF A
<1>. QED
  BY <1>1, <1>2, <1>3, <1>4, DeletionKeepsInv

LEMMA DispatchKeepsInv ==
    ASSUME IInv, NEW e \in Ent, NEW t \in Type, Dispatch(e, t)
    PROVE  IInv'
<1>1. PICK i \in DOMAIN callbacks :
         stack' = Append(stack, [addr |-> callbacks[i].addr,
                                 valid |-> TRUE, reentered |-> FALSE])
  BY DEF Dispatch, Of
<1> DEFINE f == [addr |-> callbacks[i].addr, valid |-> TRUE, reentered |-> FALSE]
<1>2. f \in Frame /\ f.valid
  BY CallbackFields DEF Frame
<1>. HIDE DEF f
<1>3. stack \in Seq(Frame) /\ stack' = Append(stack, f)
  BY <1>1 DEF f, IInv, FramesOK
<1>4. /\ stack' \in Seq(Frame) /\ stack' # <<>> /\ Len(stack) \in Nat
      /\ DOMAIN (stack') = 1 .. Len(stack) + 1 /\ stack'[Len(stack) + 1] = f
      /\ \A k \in 1 .. Len(stack) : stack'[k] = stack[k]
  BY <1>2, <1>3
<1>5. processing' = TRUE /\ UNCHANGED <<ents, armed, callbacks, marks>>
  BY DEF Dispatch
<1>6. FramesOK(stack', processing')
  <2>1. \A k \in DOMAIN (stack') : k = Len(stack) + 1 \/ k \in 1 .. Len(stack)
    BY <1>4
  <2>2. \A k \in 1 .. Len(stack) : ~stack[k].reentered => stack[k].valid
    BY <1>3 DEF IInv, FramesOK
  <2>. QED
    BY <1>2, <1>4, <1>5, <2>1, <2>2 DEF FramesOK
<1>7. FlagOK(marks', processing', stack')
  BY <1>4, <1>5 DEF FlagOK
<1>. QED
  BY <1>5, <1>6, <1>7 DEF IInv

\* A server that has just started.
LEMMA FreshStart ==
    /\ ListOK(<<>>, {}, Ent) /\ FramesOK(<<>>, FALSE)
    /\ FlagOK({}, FALSE, <<>>) /\ ArmedOK(Ent, {})
<1>1. <<>> \in Seq(Callback) /\ <<>> \in Seq(Frame)
  OBVIOUS
<1>2. DOMAIN <<>> = {}
  OBVIOUS
<1>. QED
  BY <1>1, <1>2
  DEF ListOK, FramesOK, FlagOK, ArmedOK, UniqueIn, SlotsOK, OwnersOK, AddressesIn

LEMMA NextKeepsInv == IInv /\ [Next]_vars => IInv'
<1>. SUFFICES ASSUME IInv, [Next]_vars PROVE IInv'
  OBVIOUS
<1>1. ASSUME NEW e \in Ent, NEW t \in Type, SetCallback(e, t) PROVE IInv'
  BY <1>1, SetCallbackKeepsInv
<1>2. ASSUME NEW e \in Ent, NEW t \in Type, SetCallbackFails(e, t) PROVE IInv'
  <2>1. AddrOf(Of(e, t)) \subseteq Listed
    BY AddrOfListed DEF Of
  <2>2. ArmedOK(ents', armed') /\ ents' = ents
    BY <1>2 DEF SetCallbackFails, IInv
  <2>. QED
    BY <1>2, <2>1, <2>2, DeletionKeepsInv DEF SetCallbackFails
<1>3. ASSUME NEW e \in Ent, NEW t \in Type, UnsetCallback(e, t) PROVE IInv'
  <2>1. AddrOf(Of(e, t)) \subseteq Listed
    BY AddrOfListed DEF Of
  <2>2. ArmedOK(ents', armed') /\ ents' = ents
    BY <1>3 DEF UnsetCallback, IInv, ArmedOK
  <2>. QED
    BY <1>3, <2>1, <2>2, DeletionKeepsInv DEF UnsetCallback
<1>4. ASSUME NEW e \in Ent, NEW t \in Type, GameSetsFunction(e, t) PROVE IInv'
  BY <1>4 DEF GameSetsFunction, IInv, ArmedOK
<1>5. ASSUME NEW e \in Ent, NEW t \in Type, Dispatch(e, t) PROVE IInv'
  BY <1>5, DispatchKeepsInv
<1>6. ASSUME NEW e \in Ent, NEW t \in Type, DispatchNothing(e, t) PROVE IInv'
  BY <1>6, EndDispatchKeepsInv DEF DispatchNothing, IInv, FramesOK
<1>7. ASSUME NEW e \in Ent, CreateEntity(e) PROVE IInv'
  <2>1. ListOK(callbacks, marks, ents \cup {e})
    BY DEF IInv, ListOK, OwnersOK
  <2>2. ArmedOK(ents \cup {e}, armed)
    BY DEF IInv, ArmedOK
  <2>. QED
    BY <1>7, <2>1, <2>2 DEF CreateEntity, IInv
<1>8. ASSUME NEW e \in Ent, FreeEntity(e) PROVE IInv'
  BY <1>8, FreeEntityKeepsInv
<1>9. CASE ServerDeactivate
  <2>1. Listed \subseteq Listed /\ ArmedOK(ents', armed') /\ ents' = ents
    BY <1>9 DEF ServerDeactivate, IInv
  <2>. QED
    BY <1>9, <2>1, DeletionKeepsInv DEF ServerDeactivate
<1>10. CASE CallbackReturns
  <2>1. stack \in Seq(Frame) /\ stack # <<>>
    BY <1>10 DEF CallbackReturns, IInv, FramesOK
  <2>2. SubSeq(stack, 1, Len(stack) - 1) \in Seq(Frame)
    BY <2>1
  <2>. QED
    BY <1>10, <2>2, EndDispatchKeepsInv DEF CallbackReturns
<1>11. CASE Crash
  BY <1>11, FreshStart DEF Crash, IInv
<1>12. CASE UNCHANGED vars
  BY <1>12 DEF vars, IInv
<1>. QED
  BY <1>1, <1>2, <1>3, <1>4, <1>5, <1>6, <1>7, <1>8, <1>9, <1>10, <1>11, <1>12
  DEF Next, Native, Game

-----------------------------------------------------------------------------
(* The theorems *)

LEMMA Invariance == Spec => []IInv
<1>1. Init => IInv
  BY FreshStart DEF Init, IInv
<1>. QED
  BY <1>1, NextKeepsInv, PTL DEF Spec

\* Every variable keeps its type, and only entities whose class derives from
\* CBaseToggle get a MoveDone function, however natives, the game and
\* dispatches interleave (EntityCallbackDispatcher).
THEOREM TypeCorrectness == Spec => []TypeOK
<1>1. IInv => TypeOK
  <2>. SUFFICES ASSUME IInv PROVE TypeOK
    OBVIOUS
  <2>1. marks \subseteq Addr
    BY CallbackFields DEF IInv, ListOK, AddressesIn
  <2>. QED
    BY <2>1 DEF IInv, ListOK, FramesOK, FlagOK, ArmedOK, TypeOK
<1>. QED
  BY <1>1, Invariance, PTL

\* A mark always points to a callback that is registered and a dispatch is in
\* progress to delete it, so that no purge finds the address of a callback
\* that is gone, which a new one may have got (m_callbacksMarkForDeletion).
THEOREM MarksNeverDangle == Spec => []MarksAreListed
<1>1. IInv => MarksAreListed
  BY DEF IInv, ListOK, FlagOK, MarksAreListed, Listed
<1>. QED
  BY <1>1, Invariance, PTL

LEMMA AtMostOne ==
    ASSUME NEW U, \A a, b \in U : a = b
    PROVE  Cardinality(U) <= 1
<1>1. Cardinality({}) = 0
  BY FS_EmptySet
<1>2. ASSUME NEW a \in U PROVE Cardinality(U) = 1
  <2>1. U = {a}
    OBVIOUS
  <2>2. Cardinality({a}) = 1
    BY FS_Singleton
  <2>. QED
    BY <2>1, <2>2
<1>3. U = {} \/ \E a \in U : TRUE
  OBVIOUS
<1>. QED
  BY <1>1, <1>2, <1>3

\* As many addresses as callbacks, when no two callbacks share one.
LEMMA AddressesCount ==
    ASSUME IInv
    PROVE  Cardinality(Listed) = Len(callbacks)
<1> DEFINE n == Len(callbacks)
           f == [i \in 1 .. n |-> callbacks[i].addr]
<1>1. n \in Nat /\ DOMAIN callbacks = 1 .. n /\ UniqueIn(callbacks)
  BY DEF IInv, ListOK
<1>. HIDE DEF n
<1>2. /\ f \in [1 .. n -> Listed]
      /\ \A a \in Listed : \E i \in 1 .. n : f[i] = a
      /\ \A i, j \in 1 .. n : f[i] = f[j] => i = j
  BY <1>1 DEF Listed, AddressesIn, UniqueIn
<1>. HIDE DEF f
<1>3. f \in Bijection(1 .. n, Listed)
  BY <1>2 DEF Bijection, Injection, Surjection, IsInjective
<1>4. IsFiniteSet(1 .. n) /\ Cardinality(1 .. n) = IF 1 > n THEN 0 ELSE n - 1 + 1
  BY <1>1, FS_Interval
<1>5. Cardinality(1 .. n) = n
  BY <1>1, <1>4
<1>6. Cardinality(Listed) = Cardinality(1 .. n)
  <2>1. f \in Bijection(1 .. n, Listed) /\ IsFiniteSet(1 .. n)
    BY <1>3, <1>4
  <2>. QED
    BY <2>1, FS_Bijection DEF ExistsBijection
<1>. QED
  BY <1>5, <1>6 DEF n

\* Whatever a callback sets, removes or frees, and wherever the flag stands,
\* an entity has at most one callback of a type that is not about to go, no two
\* share an address, and none outlives its entity but for the dispatch in
\* progress (SetThink and its like, OnFreeEntPrivateData).
THEOREM SlotsAreExclusive == Spec => []OneCallbackPerSlot
<1>. SUFFICES IInv => OneCallbackPerSlot
  BY Invariance, PTL
<1>. SUFFICES ASSUME IInv PROVE OneCallbackPerSlot
  OBVIOUS
<1>1. ASSUME NEW e \in Ent, NEW t \in Type
      PROVE  Cardinality(AddrOf(Of(e, t)) \ marks) <= 1
  <2> DEFINE U == AddrOf(Of(e, t)) \ marks
  <2>1. ASSUME NEW a \in U, NEW b \in U PROVE a = b
    <3>1. PICK i \in DOMAIN callbacks :
             a = callbacks[i].addr /\ callbacks[i].ent = e /\ callbacks[i].type = t
      BY DEF AddrOf, Of
    <3>2. PICK j \in DOMAIN callbacks :
             b = callbacks[j].addr /\ callbacks[j].ent = e /\ callbacks[j].type = t
      BY DEF AddrOf, Of
    <3>. QED
      BY <3>1, <3>2 DEF IInv, ListOK, SlotsOK
  <2>. HIDE DEF U
  <2>2. Cardinality(U) <= 1
    BY <2>1, AtMostOne
  <2>. QED
    BY <2>2 DEF U
<1>2. \A i \in DOMAIN callbacks :
         callbacks[i].ent \in ents \/ callbacks[i].addr \in marks
  BY DEF IInv, ListOK, OwnersOK
<1>. QED
  BY <1>1, <1>2, AddressesCount DEF OneCallbackPerSlot

\* The flag protects a callback that executes from every deletion, however
\* deep dispatches nest, up to the end of a dispatch nested in it
\* (m_bIsProcessingCallbacks).
THEOREM ProtectionHolds == Spec => []ProtectedUntilReentered
<1>1. IInv => ProtectedUntilReentered
  BY DEF IInv, FramesOK, ProtectedUntilReentered
<1>. QED
  BY <1>1, Invariance, PTL
=============================================================================
