--------------------------- MODULE HookChainProofs ---------------------------
(***************************************************************************)
(* What holds of HookChain for every set of functions and every bound.     *)
(***************************************************************************)
EXTENDS HookChain, HookHandleProofs, TLAPS

-----------------------------------------------------------------------------
(* The inductive invariant *)

\* A frame of a hooked call names a function; the loop it is in stays within
\* the vector, which only grows while a loop is in progress.
LoopOK(r, fw) ==
    /\ ~Foreign(r) => r.func \in Func
    /\ r.phase \in List => r.pos >= 1 /\ r.end <= Len(fw[r.func][r.phase])

LoopInv == \A i \in DOMAIN stack : LoopOK(stack[i], forwards)

\* The context each call saved is the one its caller needs back.
SavesOK(s) ==
    \A i \in DOMAIN s : ~Foreign(s[i]) => Prescribed(s, s[i].save, i - 1)

ContextInv == ContextIsInnermost /\ SavesOK(stack)

\* The temporary strings of the calls lie on top of each other.
BasesOK(s, n) ==
    /\ \A i \in DOMAIN s : ~Foreign(s[i]) =>
          /\ s[i].base + s[i].used <= n
          /\ s[i].func \notin StringFunc => s[i].used = 0
    /\ \A i, j \in DOMAIN s : i < j /\ ~Foreign(s[i]) /\ ~Foreign(s[j]) =>
          s[i].base + s[i].used <= s[j].base

TempInv == BasesOK(stack, tempUsed)

IInv == TypeOK /\ RegisteredOnce /\ LoopInv /\ ContextInv /\ TempInv

-----------------------------------------------------------------------------
(* Facts about the data *)

LEMMA NewCallType ==
    ASSUME NEW f \in Func \cup {NoFunc}, NEW c \in Nat, NEW n \in Nat,
           tempUsed \in Nat
    PROVE  NewCall(f, c, n) \in Frame
BY SMT DEF NewCall, Frame, StringArg, CallersString, Nobody, HookChainState,
       HC_CONTINUE, HC_BYPASS

LEMMA ForeignCallType ==
    ASSUME hookCtx \in Nat, tempUsed \in Nat
    PROVE  /\ ForeignCall \in Frame
           /\ ForeignCall.phase = "foreign"
<1> DEFINE r == NewCall(NoFunc, hookCtx, 0)
<1>1. r \in Frame
  BY NewCallType
<1>. HIDE DEF r
<1>2. ForeignCall = [r EXCEPT !.phase = "foreign", !.running = TRUE]
  BY DEF ForeignCall, r
<1>. QED
  BY <1>1, <1>2 DEF Frame

LEMMA FrameFields ==
    ASSUME NEW r \in Frame
    PROVE  /\ r.func \in Func \cup {NoFunc}
           /\ r.phase \in {"pre", "orig", "post", "foreign"}
           /\ r.pos \in Nat /\ r.end \in Nat /\ r.save \in Nat
           /\ r.base \in Nat /\ r.used \in Nat
           /\ r.hc \in HookChainState /\ r.ret \in Int /\ r.arg \in StringArg
BY DEF Frame

LEMMA InitInv == Init => IInv
BY FuncAssumption, BoundsAssumption
   DEF Init, IInv, TypeOK, RegisteredOnce, LoopInv, ContextInv, SavesOK, TempInv,
       BasesOK, ContextIsInnermost, Prescribed, Empty, List, Handler, Result

-----------------------------------------------------------------------------
(* Type correctness *)

LEMMA EncodeType ==
    ASSUME NEW f \in Nat, NEW n \in Nat, NEW b \in BOOLEAN
    PROVE  Encode(f, n, b) \in Int
BY MaxForwardsAssumption DEF Encode

LEMMA TopType ==
    ASSUME TypeOK, stack # <<>>
    PROVE  /\ Len(stack) \in DOMAIN stack
           /\ Len(stack) \in Nat \ {0}
           /\ Top \in Frame
BY DEF TypeOK, Top

LEMMA SetTopType ==
    ASSUME TypeOK, stack # <<>>, NEW r \in Frame
    PROVE  /\ SetTop(r) \in Seq(Frame)
           /\ Len(SetTop(r)) = Len(stack)
BY TopType DEF TypeOK, SetTop

LEMMA BelowType ==
    ASSUME TypeOK, stack # <<>>
    PROVE  /\ Below \in Seq(Frame)
           /\ Len(Below) = Len(stack) - 1
           /\ \A i \in DOMAIN Below : i \in DOMAIN stack /\ Below[i] = stack[i]
<1> DEFINE n == Len(stack) - 1
<1>1. stack \in Seq(Frame) /\ n \in Nat /\ n <= Len(stack)
  BY TopType DEF TypeOK
<1>2. /\ Below = [i \in 1 .. n |-> stack[i]]
      /\ \A i \in 1 .. n : stack[i] \in Frame /\ i \in DOMAIN stack
  BY <1>1 DEF Below
<1>. HIDE DEF n
<1>. QED
  BY <1>1, <1>2 DEF n

LEMMA StaleType ==
    ASSUME NEW r \in Frame, NEW v \in BOOLEAN
    PROVE  [r EXCEPT !.stale = v] \in Frame
BY DEF Frame

-----------------------------------------------------------------------------
(* Facts about stacks: which changes of a stack keep its invariants *)

\* Frame q is frame r in all that the invariants depend on.
Kin(q, r) ==
    /\ q.phase = r.phase /\ q.func = r.func /\ q.end = r.end
    /\ r.pos >= 1 => q.pos >= 1
    /\ q.save = r.save /\ q.base = r.base /\ q.used = r.used

LEMMA KinRefl == ASSUME NEW r \in Frame PROVE Kin(r, r)
BY DEF Kin, Frame

LEMMA KinOfStale ==
    ASSUME NEW r \in Frame, NEW v PROVE Kin([r EXCEPT !.stale = v], r)
BY DEF Kin, Frame

\* What the stack prescribes depends on the phases only.
LEMMA PrescribedByPhases ==
    ASSUME NEW s, NEW t, NEW n \in Nat, NEW c,
           \A i \in 1 .. n : t[i].phase = s[i].phase,
           Prescribed(s, c, n)
    PROVE  Prescribed(t, c, n)
BY DEF Prescribed, Foreign

LEMMA SavesOfKin ==
    ASSUME NEW s \in Seq(Frame), NEW t \in Seq(Frame), Len(t) = Len(s),
           \A i \in DOMAIN s : t[i].phase = s[i].phase /\ t[i].save = s[i].save,
           SavesOK(s)
    PROVE  SavesOK(t)
<1> SUFFICES ASSUME NEW i \in DOMAIN t, ~Foreign(t[i])
             PROVE  Prescribed(t, t[i].save, i - 1)
  BY DEF SavesOK
<1>1. i \in DOMAIN s /\ i - 1 \in Nat /\ 1 .. (i - 1) \subseteq DOMAIN s
  OBVIOUS
<1>2. Prescribed(s, t[i].save, i - 1)
  BY <1>1 DEF SavesOK, Foreign
<1>. QED
  BY <1>1, <1>2, PrescribedByPhases

LEMMA BasesOfKin ==
    ASSUME NEW s \in Seq(Frame), NEW t \in Seq(Frame), Len(t) = Len(s),
           \A i \in DOMAIN s : Kin(t[i], s[i]),
           NEW n, BasesOK(s, n)
    PROVE  BasesOK(t, n)
BY DEF BasesOK, Kin, Foreign

\* A new value of the topmost frame, in a phase that is not foreign.
LEMMA SavesOfSetTop ==
    ASSUME NEW s \in Seq(Frame), s # <<>>, NEW r \in Frame, SavesOK(s),
           r.save = s[Len(s)].save, ~Foreign(s[Len(s)])
    PROVE  SavesOK([s EXCEPT ![Len(s)] = r])
<1> DEFINE t == [s EXCEPT ![Len(s)] = r]
<1>0. /\ Len(s) \in Nat \ {0} /\ DOMAIN s = 1 .. Len(s) /\ DOMAIN t = DOMAIN s
      /\ t[Len(s)] = r /\ \A i \in 1 .. (Len(s) - 1) : t[i] = s[i]
  OBVIOUS
<1>. HIDE DEF t
<1> SUFFICES ASSUME NEW i \in DOMAIN t, ~Foreign(t[i])
             PROVE  Prescribed(t, t[i].save, i - 1)
  BY DEF SavesOK, t
<1>1. i \in DOMAIN s /\ t[i].save = s[i].save /\ ~Foreign(s[i])
  BY <1>0
<1>2. Prescribed(s, t[i].save, i - 1)
  BY <1>1 DEF SavesOK
<1>3. i - 1 \in Nat /\ \A j \in 1 .. (i - 1) : t[j].phase = s[j].phase
  BY <1>0, <1>1
<1>. QED
  BY <1>2, <1>3, PrescribedByPhases

LEMMA BasesOfSetTop ==
    ASSUME NEW s \in Seq(Frame), s # <<>>, NEW r \in Frame, NEW n, BasesOK(s, n),
           ~Foreign(s[Len(s)]), ~Foreign(r), r.func = s[Len(s)].func,
           r.base = s[Len(s)].base, r.used = s[Len(s)].used
    PROVE  BasesOK([s EXCEPT ![Len(s)] = r], n)
BY DEF BasesOK

LEMMA SavesOfPush ==
    ASSUME NEW s \in Seq(Frame), NEW r \in Frame, SavesOK(s),
           Foreign(r) \/ Prescribed(s, r.save, Len(s))
    PROVE  SavesOK(Append(s, r))
<1> DEFINE t == Append(s, r)
<1>0. /\ Len(s) \in Nat /\ DOMAIN s = 1 .. Len(s)
      /\ DOMAIN t = 1 .. (Len(s) + 1)
      /\ t[Len(s) + 1] = r /\ \A i \in 1 .. Len(s) : t[i] = s[i]
  OBVIOUS
<1>. HIDE DEF t
<1> SUFFICES ASSUME NEW i \in DOMAIN t, ~Foreign(t[i])
             PROVE  Prescribed(t, t[i].save, i - 1)
  BY DEF SavesOK, t
<1>1. Prescribed(s, t[i].save, i - 1)
  BY <1>0 DEF SavesOK
<1>2. i - 1 \in Nat /\ \A j \in 1 .. (i - 1) : t[j].phase = s[j].phase
  BY <1>0
<1>. QED
  BY <1>1, <1>2, PrescribedByPhases

LEMMA BasesOfPush ==
    ASSUME NEW s \in Seq(Frame), NEW r \in Frame, NEW n \in Nat, BasesOK(s, n),
           Foreign(r) \/ (r.base = n /\ r.used = 0)
    PROVE  BasesOK(Append(s, r), n)
<1> DEFINE t == Append(s, r)
<1>0. /\ Len(s) \in Nat /\ DOMAIN s = 1 .. Len(s)
      /\ DOMAIN t = 1 .. (Len(s) + 1)
      /\ t[Len(s) + 1] = r /\ \A i \in 1 .. Len(s) : t[i] = s[i]
  OBVIOUS
<1>1. /\ r.used \in Nat /\ r.base \in Nat
      /\ \A i \in DOMAIN s : s[i].base \in Nat /\ s[i].used \in Nat
  BY FrameFields
<1>. HIDE DEF t
<1>2. ASSUME NEW i \in DOMAIN t, ~Foreign(t[i])
      PROVE  /\ t[i].base + t[i].used <= n
             /\ t[i].func \notin StringFunc => t[i].used = 0
  BY <1>0, <1>1, <1>2 DEF BasesOK
<1>3. ASSUME NEW i \in DOMAIN t, NEW j \in DOMAIN t, i < j,
             ~Foreign(t[i]), ~Foreign(t[j])
      PROVE  t[i].base + t[i].used <= t[j].base
  BY <1>0, <1>1, <1>3 DEF BasesOK
<1>. QED
  BY <1>2, <1>3 DEF BasesOK, t

LEMMA BasesOfPop ==
    ASSUME NEW s \in Seq(Frame), NEW t \in Seq(Frame), NEW n, NEW m,
           BasesOK(s, n),
           \A i \in DOMAIN t : i \in DOMAIN s /\ t[i] = s[i],
           \A i \in DOMAIN t : ~Foreign(t[i]) => t[i].base + t[i].used <= m
    PROVE  BasesOK(t, m)
BY DEF BasesOK

LEMMA SavesOfPop ==
    ASSUME NEW s \in Seq(Frame), NEW t \in Seq(Frame), SavesOK(s),
           \A i \in DOMAIN t : i \in DOMAIN s /\ t[i] = s[i]
    PROVE  SavesOK(t)
<1> SUFFICES ASSUME NEW i \in DOMAIN t, ~Foreign(t[i])
             PROVE  Prescribed(t, t[i].save, i - 1)
  BY DEF SavesOK
<1>1. Prescribed(s, t[i].save, i - 1)
  BY DEF SavesOK
<1>2. i - 1 \in Nat /\ \A j \in 1 .. (i - 1) : t[j].phase = s[j].phase
  OBVIOUS
<1>. QED
  BY <1>1, <1>2, PrescribedByPhases

LEMMA RegisterType ==
    ASSUME TypeOK, NEW f \in Func, NEW l \in List, NEW b \in BOOLEAN,
           RegisterHookChain(f, l, b)
    PROVE  TypeOK'
<1>1. forwards' \in [Func -> [List -> Seq(Handler)]]
  <2> DEFINE n == Len(forwards[f][l]) + 1
             h == [index |-> Encode(f, n, l = "post"), state |-> "ENABLED"]
  <2>0. forwards[f][l] \in Seq(Handler) /\ forwards[f] \in [List -> Seq(Handler)]
    BY DEF TypeOK
  <2>1. h \in Handler
    <3>1. n \in Nat /\ f \in Nat /\ (l = "post") \in BOOLEAN
      BY <2>0, FuncAssumption
    <3>2. Encode(f, n, l = "post") \in Int
      BY <3>1, EncodeType
    <3>. QED
      BY <3>2 DEF Handler
  <2>2. forwards' = [forwards EXCEPT ![f][l] = Append(@, h)]
    BY DEF RegisterHookChain
  <2>. HIDE DEF h
  <2>3. Append(forwards[f][l], h) \in Seq(Handler)
    BY <2>0, <2>1
  <2>. QED
    BY <2>2, <2>3 DEF TypeOK
<1>2. chain' \in [Func -> Nat]
  <2>0. chain \in [Func -> Nat] /\ chain[f] + 1 \in Nat
    BY DEF TypeOK
  <2>1. chain' = [chain EXCEPT ![f] = @ + 1] \/ chain' = chain
    BY DEF RegisterHookChain
  <2>. QED
    BY <2>0, <2>1
<1>3. stack' \in Seq(Frame) /\ Len(stack') = Len(stack)
  <2> DEFINE g(i) == [stack[i] EXCEPT !.stale =
                       @ \/ (b /\ stack[i].func = f /\ stack[i].phase = l)]
  <2>1. ASSUME NEW i \in 1 .. Len(stack) PROVE g(i) \in Frame
    <3>1. stack[i] \in Frame
      BY DEF TypeOK
    <3>2. (stack[i].stale \/ (b /\ stack[i].func = f /\ stack[i].phase = l))
             \in BOOLEAN
      OBVIOUS
    <3>. QED
      BY <3>1, <3>2, StaleType
  <2>2. stack' = [i \in DOMAIN stack |-> g(i)]
    BY DEF RegisterHookChain
  <2>3. stack \in Seq(Frame) /\ DOMAIN stack = 1 .. Len(stack) /\ Len(stack) \in Nat
    BY DEF TypeOK
  <2>. HIDE DEF g
  <2>. QED
    BY <2>1, <2>2, <2>3
<1>. QED
  BY <1>1, <1>2, <1>3 DEF RegisterHookChain, TypeOK

-----------------------------------------------------------------------------
(* Every step preserves the invariant *)

LEMMA RegisterInv ==
    ASSUME IInv, NEW f \in Func, NEW l \in List, NEW b \in BOOLEAN,
           RegisterHookChain(f, l, b)
    PROVE  IInv'
<1>1. TypeOK'
  BY RegisterType DEF IInv
<1>2. /\ stack \in Seq(Frame) /\ stack' \in Seq(Frame) /\ Len(stack') = Len(stack)
      /\ \A i \in DOMAIN stack : Kin(stack'[i], stack[i])
  <2>1. stack \in Seq(Frame) /\ stack' \in Seq(Frame)
    BY <1>1 DEF IInv, TypeOK
  <2>2. /\ DOMAIN stack' = DOMAIN stack
        /\ \A i \in DOMAIN stack : \E v : stack'[i] = [stack[i] EXCEPT !.stale = v]
    BY DEF RegisterHookChain
  <2>3. \A i \in DOMAIN stack : stack[i] \in Frame
    BY <2>1
  <2>4. Len(stack') = Len(stack)
    <3>1. DOMAIN stack = 1 .. Len(stack) /\ DOMAIN stack' = 1 .. Len(stack')
      BY <2>1
    <3>2. Len(stack) \in Nat /\ Len(stack') \in Nat
      BY <2>1
    <3>. QED
      BY <2>2, <3>1, <3>2
  <2>5. ASSUME NEW i \in DOMAIN stack PROVE Kin(stack'[i], stack[i])
    BY <2>2, <2>3, KinOfStale
  <2>. QED
    BY <2>1, <2>4, <2>5
<1>3. \A g \in Func, k \in List :
         /\ Len(forwards[g][k]) \in Nat /\ Len(forwards'[g][k]) \in Nat
         /\ Len(forwards'[g][k]) >= Len(forwards[g][k])
  <2>1. \A g \in Func, k \in List : /\ forwards[g][k] \in Seq(Handler)
                                    /\ forwards'[g][k] \in Seq(Handler)
    BY <1>1 DEF IInv, TypeOK
  <2>2. \A g \in Func, k \in List : forwards'[g][k] = forwards[g][k]
                             \/ \E h : forwards'[g][k] = Append(forwards[g][k], h)
    BY DEF RegisterHookChain, IInv, TypeOK
  <2>. QED
    BY <2>1, <2>2
<1>4. RegisteredOnce'
  <2>1. /\ chain \in [Func -> Nat]
        /\ forwards \in [Func -> [List -> Seq(Handler)]]
    BY DEF IInv, TypeOK
  <2>2. \A g \in Func : g # f => Empty(g)' = Empty(g) /\ chain'[g] = chain[g]
    BY <2>1 DEF RegisterHookChain, Empty
  <2>3. ~Empty(f)'
    <3>1. forwards[f][l] \in Seq(Handler)
      BY <2>1
    <3>2. \E h : forwards'[f][l] = Append(forwards[f][l], h)
      BY <2>1 DEF RegisterHookChain
    <3>3. forwards'[f][l] # <<>>
      BY <3>1, <3>2
    <3>. QED
      BY <3>3 DEF Empty, List
  <2>4. chain'[f] = 1
    BY <2>1 DEF RegisterHookChain, IInv, RegisteredOnce
  <2>. QED
    BY <2>2, <2>3, <2>4 DEF RegisteredOnce, IInv
<1>5. LoopInv'
  <2> SUFFICES ASSUME NEW i \in DOMAIN stack' PROVE LoopOK(stack'[i], forwards')
    BY DEF LoopInv
  <2>1. i \in DOMAIN stack /\ stack[i] \in Frame /\ stack'[i] \in Frame
    BY <1>2
  <2>2. LoopOK(stack[i], forwards) /\ Kin(stack'[i], stack[i])
    BY <1>2, <2>1 DEF IInv, LoopInv
  <2>. QED
    <3>1. /\ stack[i].pos \in Nat /\ stack'[i].pos \in Nat
          /\ stack[i].end \in Nat
          /\ stack[i].phase \in List => ~Foreign(stack[i])
      BY <2>1, FrameFields DEF List, Foreign
    <3>2. ~Foreign(stack'[i]) => stack'[i].func \in Func
      BY <2>2 DEF LoopOK, Kin, Foreign
    <3>3. ASSUME stack'[i].phase \in List
          PROVE  /\ stack'[i].pos >= 1
                 /\ stack'[i].end <= Len(forwards'[stack'[i].func][stack'[i].phase])
      <4> DEFINE g == stack[i].func   k == stack[i].phase
      <4>1. stack'[i].func = g /\ stack'[i].phase = k /\ g \in Func /\ k \in List
        BY <2>2, <3>1, <3>3 DEF LoopOK, Kin
      <4>2. /\ stack'[i].end = stack[i].end /\ stack'[i].pos >= 1
            /\ stack[i].pos >= 1 /\ stack[i].end <= Len(forwards[g][k])
        BY <2>2, <4>1 DEF LoopOK, Kin
      <4>. HIDE DEF g, k
      <4>3. Len(forwards'[g][k]) >= Len(forwards[g][k])
        BY <1>3, <4>1
      <4>. QED
        BY <1>3, <3>1, <4>1, <4>2, <4>3
    <3>. QED
      BY <3>2, <3>3 DEF LoopOK
<1>6. ContextInv'
  <2>1. hookCtx' = hookCtx /\ Len(stack) \in Nat
    BY <1>2 DEF RegisterHookChain
  <2>2. Prescribed(stack', hookCtx', Len(stack'))
    BY <1>2, <2>1, PrescribedByPhases DEF IInv, ContextInv, ContextIsInnermost, Kin
  <2>3. SavesOK(stack')
    BY <1>2, SavesOfKin DEF IInv, ContextInv, Kin
  <2>. QED
    BY <2>2, <2>3 DEF ContextInv, ContextIsInnermost
<1>7. TempInv'
  BY <1>2, BasesOfKin DEF RegisterHookChain, IInv, TempInv
<1>. QED
  BY <1>1, <1>4, <1>5, <1>6, <1>7 DEF IInv

LEMMA PrescribedType ==
    ASSUME NEW s, NEW n \in Nat, NEW c, Prescribed(s, c, n)
    PROVE  c \in 0 .. n
BY DEF Prescribed

\* A step that gives the topmost call, a hooked one, a new state.
LEMMA TopStep ==
    ASSUME IInv, stack # <<>>, ~Foreign(Top),
           NEW r \in Frame, stack' = SetTop(r),
           ~Foreign(r), r.func = Top.func, r.save = Top.save,
           r.base = Top.base, r.used = Top.used, LoopOK(r, forwards),
           Prescribed(stack', hookCtx', Len(stack)),
           wasCalled' \in [Func -> BOOLEAN],
           UNCHANGED <<forwards, chain, tempUsed, result>>
    PROVE  IInv'
<1>1. /\ stack \in Seq(Frame) /\ stack' \in Seq(Frame) /\ Len(stack') = Len(stack)
      /\ Len(stack) \in Nat \ {0} /\ DOMAIN stack' = 1 .. Len(stack)
      /\ stack' = [stack EXCEPT ![Len(stack)] = r]
      /\ stack'[Len(stack)] = r
      /\ \A i \in 1 .. (Len(stack) - 1) : stack'[i] = stack[i]
  BY TopType, SetTopType DEF IInv, TypeOK, SetTop
<1>2. TypeOK'
  <2>1. hookCtx' \in 0 .. Len(stack')
    BY <1>1, PrescribedType
  <2>. QED
    BY <1>1, <2>1 DEF IInv, TypeOK
<1>3. RegisteredOnce'
  BY DEF IInv, RegisteredOnce, Empty
<1>4. LoopInv'
  BY <1>1 DEF IInv, LoopInv
<1>5. ContextInv'
  BY <1>1, SavesOfSetTop DEF IInv, ContextInv, ContextIsInnermost, Top
<1>6. TempInv'
  BY <1>1, BasesOfSetTop DEF IInv, TempInv, Top
<1>. QED
  BY <1>2, <1>3, <1>4, <1>5, <1>6 DEF IInv

\* The same when the phase of the call and the context do not change.
LEMMA TopKinStep ==
    ASSUME IInv, stack # <<>>, ~Foreign(Top),
           NEW r \in Frame, stack' = SetTop(r), Kin(r, Top),
           UNCHANGED <<forwards, chain, wasCalled, hookCtx, tempUsed, result>>
    PROVE  IInv'
<1>1. /\ stack \in Seq(Frame) /\ Len(stack) \in Nat \ {0} /\ Top \in Frame
      /\ Len(stack) \in DOMAIN stack
  BY TopType DEF IInv, TypeOK
<1>2. LoopOK(r, forwards)
  <2>1. LoopOK(Top, forwards)
    BY <1>1 DEF IInv, LoopInv, Top
  <2>. QED
    BY <1>1, <2>1, FrameFields DEF LoopOK, Kin, Foreign
<1>3. \A i \in 1 .. Len(stack) : stack'[i].phase = stack[i].phase
  BY <1>1 DEF SetTop, Top, Kin
<1>4. Prescribed(stack', hookCtx, Len(stack))
  BY <1>1, <1>3, PrescribedByPhases DEF IInv, ContextInv, ContextIsInnermost
<1>. QED
  BY <1>2, <1>4, TopStep DEF Kin, Foreign, IInv, TypeOK

\* callForward and callVoidForward return.
LEMMA LeaveStep ==
    ASSUME IInv, stack # <<>>, ~Foreign(Top), NEW g \in Result, Leave(g),
           wasCalled' \in [Func -> BOOLEAN], UNCHANGED <<forwards, chain>>
    PROVE  IInv'
<1> DEFINE n == Len(stack)
<1>1. /\ stack \in Seq(Frame) /\ stack' \in Seq(Frame) /\ n \in Nat \ {0}
      /\ Len(stack') = n - 1 /\ Top \in Frame /\ Top = stack[n]
      /\ DOMAIN stack = 1 .. n /\ DOMAIN stack' = 1 .. (n - 1)
      /\ \A i \in DOMAIN stack' : i \in DOMAIN stack /\ stack'[i] = stack[i]
  BY TopType, BelowType DEF IInv, TypeOK, Leave, Top
<1>. HIDE DEF n
<1>2. Prescribed(stack', hookCtx', n - 1)
  <2>1. Prescribed(stack, Top.save, n - 1)
    BY <1>1 DEF IInv, ContextInv, SavesOK
  <2>2. hookCtx' = Top.save
    BY DEF Leave
  <2>3. n - 1 \in Nat /\ \A i \in 1 .. (n - 1) : stack'[i].phase = stack[i].phase
    BY <1>1
  <2>. QED
    BY <2>1, <2>2, <2>3, PrescribedByPhases
<1>3. /\ tempUsed' \in 0 .. StringsMax
      /\ tempUsed' >= Top.base
  <2>1. Top.base \in Nat /\ Top.used \in Nat
    BY <1>1, FrameFields
  <2>2. tempUsed \in Nat /\ tempUsed <= StringsMax
    BY BoundsAssumption DEF IInv, TypeOK
  <2>3. Top.base + Top.used <= tempUsed
    BY <1>1 DEF IInv, TempInv, BasesOK, n
  <2>. QED
    BY <2>1, <2>2, <2>3, BoundsAssumption DEF Leave
<1>4. TypeOK'
  <2>1. hookCtx' \in 0 .. (n - 1)
    BY <1>1, <1>2, PrescribedType
  <2>. QED
    BY <1>1, <1>3, <2>1 DEF IInv, TypeOK, Leave
<1>5. RegisteredOnce'
  BY DEF IInv, RegisteredOnce, Empty
<1>6. LoopInv'
  BY <1>1 DEF IInv, LoopInv
<1>7. ContextInv'
  BY <1>1, <1>2, SavesOfPop DEF IInv, ContextInv, ContextIsInnermost
<1>8. TempInv'
  <2>1. ASSUME NEW i \in DOMAIN stack', ~Foreign(stack'[i])
        PROVE  stack'[i].base + stack'[i].used <= tempUsed'
    <3>1. stack[i].base + stack[i].used <= Top.base /\ stack'[i] = stack[i]
      BY <1>1, <2>1 DEF IInv, TempInv, BasesOK
    <3>2. /\ stack[i].base \in Nat /\ stack[i].used \in Nat /\ Top.base \in Nat
          /\ tempUsed' \in Int
      BY <1>1, <1>3, FrameFields
    <3>. QED
      BY <1>3, <3>1, <3>2
  <2>. QED
    BY <1>1, <2>1, BasesOfPop DEF IInv, TempInv
<1>. QED
  BY <1>4, <1>5, <1>6, <1>7, <1>8 DEF IInv

LEMMA CallInv ==
    ASSUME IInv, NEW f \in Func, Call(f)
    PROVE  IInv'
<1> DEFINE n == Len(stack)
           r == NewCall(f, hookCtx, Len(forwards[f]["pre"]))
<1>1. /\ r \in Frame /\ r.func = f /\ r.phase = "pre" /\ r.pos = 1
      /\ r.end = Len(forwards[f]["pre"]) /\ r.save = hookCtx
      /\ r.base = tempUsed /\ r.used = 0
  <2>1. hookCtx \in Nat /\ tempUsed \in Nat /\ Len(forwards[f]["pre"]) \in Nat
    BY BoundsAssumption DEF IInv, TypeOK, List
  <2>. QED
    BY <2>1, NewCallType DEF NewCall
<1>2. stack' = Append(stack, r) /\ hookCtx' = n + 1
  BY DEF Call
<1>. HIDE DEF r
<1>3. /\ stack \in Seq(Frame) /\ stack' \in Seq(Frame) /\ n \in Nat
      /\ Len(stack') = n + 1 /\ DOMAIN stack' = 1 .. (n + 1)
      /\ DOMAIN stack = 1 .. n
      /\ stack'[n + 1] = r /\ \A i \in 1 .. n : stack'[i] = stack[i]
  BY <1>1, <1>2 DEF IInv, TypeOK
<1>. HIDE DEF n
<1>4. TypeOK'
  BY <1>2, <1>3 DEF IInv, TypeOK, Call
<1>5. RegisteredOnce'
  BY DEF IInv, RegisteredOnce, Empty, Call
<1>6. LoopInv'
  <2>1. LoopOK(r, forwards)
    BY <1>1, FuncAssumption DEF LoopOK, IInv, TypeOK, List
  <2>. QED
    BY <1>3, <2>1 DEF IInv, LoopInv, Call
<1>7. ContextInv'
  <2>1. Prescribed(stack', hookCtx', n + 1)
    BY <1>1, <1>2, <1>3 DEF Prescribed, List
  <2>2. Prescribed(stack, r.save, n)
    BY <1>1 DEF IInv, ContextInv, ContextIsInnermost, n
  <2>. QED
    BY <1>1, <1>2, <1>3, <2>1, <2>2, SavesOfPush
       DEF IInv, ContextInv, ContextIsInnermost, n
<1>8. TempInv'
  <2>1. tempUsed \in Nat /\ tempUsed' = tempUsed
    BY BoundsAssumption DEF IInv, TypeOK, Call
  <2>. QED
    BY <1>1, <1>2, <1>3, <2>1, BasesOfPush DEF IInv, TempInv
<1>. QED
  BY <1>4, <1>5, <1>6, <1>7, <1>8 DEF IInv

LEMMA PluginCallInv == ASSUME IInv, PluginCall PROVE IInv'
<1> DEFINE n == Len(stack)
           r == ForeignCall
<1>1. r \in Frame /\ Foreign(r)
  <2>1. hookCtx \in Nat /\ tempUsed \in Nat
    BY BoundsAssumption DEF IInv, TypeOK
  <2>. QED
    BY <2>1, ForeignCallType DEF Foreign
<1>2. stack' = Append(stack, r) /\ UNCHANGED <<forwards, chain, wasCalled, hookCtx, tempUsed, result>>
  BY DEF PluginCall
<1>. HIDE DEF r
<1>3. /\ stack \in Seq(Frame) /\ stack' \in Seq(Frame) /\ n \in Nat
      /\ Len(stack') = n + 1 /\ DOMAIN stack' = 1 .. (n + 1)
      /\ DOMAIN stack = 1 .. n
      /\ stack'[n + 1] = r /\ \A i \in 1 .. n : stack'[i] = stack[i]
  BY <1>1, <1>2 DEF IInv, TypeOK
<1>4. TypeOK'
  BY <1>2, <1>3 DEF IInv, TypeOK
<1>5. RegisteredOnce'
  BY <1>2 DEF IInv, RegisteredOnce, Empty
<1>6. LoopInv'
  <2>1. LoopOK(r, forwards)
    BY <1>1 DEF LoopOK, Foreign, List
  <2>. QED
    BY <1>2, <1>3, <2>1 DEF IInv, LoopInv
<1>7. ContextInv'
  <2>1. Prescribed(stack, hookCtx, n)
    BY DEF IInv, ContextInv, ContextIsInnermost
  <2>. HIDE DEF n
  <2>2. Prescribed(stack', hookCtx, n + 1)
    BY <1>1, <1>3, <2>1 DEF Prescribed
  <2>. QED
    BY <1>1, <1>2, <1>3, <2>2, SavesOfPush DEF IInv, ContextInv, ContextIsInnermost
<1>8. TempInv'
  <2>1. tempUsed \in Nat
    BY BoundsAssumption DEF IInv, TypeOK
  <2>. QED
    BY <1>1, <1>2, <1>3, <2>1, BasesOfPush DEF IInv, TempInv
<1>. QED
  BY <1>4, <1>5, <1>6, <1>7, <1>8 DEF IInv

LEMMA PluginReturnsInv == ASSUME IInv, PluginReturns PROVE IInv'
<1> DEFINE n == Len(stack)
<1>1. stack # <<>> /\ stack' = Below /\ Foreign(Top)
      /\ UNCHANGED <<forwards, chain, wasCalled, hookCtx, tempUsed, result>>
  BY DEF PluginReturns, InPlugin, Foreign
<1>2. /\ stack \in Seq(Frame) /\ stack' \in Seq(Frame) /\ n \in Nat \ {0}
      /\ Len(stack') = n - 1 /\ Top = stack[n]
      /\ DOMAIN stack = 1 .. n /\ DOMAIN stack' = 1 .. (n - 1)
      /\ \A i \in DOMAIN stack' : i \in DOMAIN stack /\ stack'[i] = stack[i]
  BY <1>1, TopType, BelowType DEF IInv, TypeOK, Top
<1>3. Prescribed(stack', hookCtx', n - 1)
  <2>1. Prescribed(stack, hookCtx, n) /\ Foreign(stack[n])
    BY <1>1, <1>2 DEF IInv, ContextInv, ContextIsInnermost
  <2>. HIDE DEF n
  <2>2. Prescribed(stack, hookCtx, n - 1)
    BY <1>2, <2>1 DEF Prescribed, Foreign, List
  <2>3. n - 1 \in Nat /\ \A i \in 1 .. (n - 1) : stack'[i].phase = stack[i].phase
    BY <1>2
  <2>. QED
    BY <1>1, <2>2, <2>3, PrescribedByPhases
<1>. HIDE DEF n
<1>4. TypeOK'
  <2>1. hookCtx' \in 0 .. (n - 1)
    BY <1>2, <1>3, PrescribedType
  <2>. QED
    BY <1>1, <1>2, <2>1 DEF IInv, TypeOK
<1>5. RegisteredOnce'
  BY <1>1 DEF IInv, RegisteredOnce, Empty
<1>6. LoopInv'
  BY <1>1, <1>2 DEF IInv, LoopInv
<1>7. ContextInv'
  BY <1>2, <1>3, SavesOfPop DEF IInv, ContextInv, ContextIsInnermost
<1>8. TempInv'
  BY <1>1, <1>2, BasesOfPop DEF IInv, TempInv, BasesOK
<1>. QED
  BY <1>4, <1>5, <1>6, <1>7, <1>8 DEF IInv
LEMMA KinOfReturn ==
    ASSUME NEW r \in Frame, NEW c \in Int
    PROVE  [r EXCEPT !.ret = c] \in Frame /\ Kin([r EXCEPT !.ret = c], r)
<1>1. [r EXCEPT !.ret = c] \in Frame
  BY DEF Frame
<1>2. r.pos \in Nat
  BY FrameFields
<1>. QED
  BY <1>1, <1>2 DEF Frame, Kin

LEMMA SetReturnInv == ASSUME IInv, SetHookChainReturn PROVE IInv'
<1>1. PICK c \in DOMAIN stack : stack' = [stack EXCEPT ![hookCtx].ret = c]
  BY DEF SetHookChainReturn
<1>2. /\ stack \in Seq(Frame) /\ Len(stack) \in Nat /\ DOMAIN stack = 1 .. Len(stack)
      /\ hookCtx \in DOMAIN stack /\ stack[hookCtx] \in Frame /\ c \in Int
  BY DEF SetHookChainReturn, IInv, TypeOK
<1> DEFINE r == [stack[hookCtx] EXCEPT !.ret = c]
<1>3. r \in Frame /\ Kin(r, stack[hookCtx])
  BY <1>2, KinOfReturn
<1>4. stack' = [stack EXCEPT ![hookCtx] = r]
  BY <1>1
<1>. HIDE DEF r
<1>5. /\ stack' \in Seq(Frame) /\ Len(stack') = Len(stack)
      /\ DOMAIN stack' = DOMAIN stack
  BY <1>2, <1>3, <1>4
<1>6. \A i \in DOMAIN stack : Kin(stack'[i], stack[i])
  BY <1>2, <1>3, <1>4, KinRefl
<1>7. UNCHANGED <<forwards, chain, wasCalled, hookCtx, tempUsed, result>>
  BY DEF SetHookChainReturn
<1>8. TypeOK'
  BY <1>5, <1>7 DEF IInv, TypeOK
<1>9. RegisteredOnce'
  BY <1>7 DEF IInv, RegisteredOnce, Empty
<1>10. LoopInv'
  <2>1. \A i \in DOMAIN stack : /\ stack[i].pos \in Nat /\ stack'[i].pos \in Nat
                                /\ LoopOK(stack[i], forwards)
    BY <1>2, <1>5, FrameFields DEF IInv, LoopInv
  <2>. QED
    BY <1>5, <1>6, <1>7, <2>1 DEF LoopInv, LoopOK, Kin, Foreign
<1>11. ContextInv'
  <2>1. Prescribed(stack', hookCtx, Len(stack))
    BY <1>2, <1>6, PrescribedByPhases DEF IInv, ContextInv, ContextIsInnermost, Kin
  <2>2. SavesOK(stack')
    BY <1>2, <1>5, <1>6, SavesOfKin DEF IInv, ContextInv, Kin
  <2>. QED
    BY <1>5, <1>7, <2>1, <2>2 DEF ContextInv, ContextIsInnermost
<1>12. TempInv'
  BY <1>2, <1>5, <1>6, <1>7, BasesOfKin DEF IInv, TempInv
<1>. QED
  BY <1>8, <1>9, <1>10, <1>11, <1>12 DEF IInv

LEMMA ArgFrame ==
    ASSUME NEW r \in Frame, NEW a \in StringArg
    PROVE  /\ \E q \in Frame :
                /\ q = [r EXCEPT !.arg = a]
                /\ q.phase = r.phase /\ q.func = r.func /\ q.end = r.end
                /\ q.pos = r.pos /\ q.save = r.save /\ q.base = r.base
                /\ q.used = r.used + 0
           /\ \E q \in Frame :
                /\ q = [r EXCEPT !.arg = a, !.used = @ + 1]
                /\ q.phase = r.phase /\ q.func = r.func /\ q.end = r.end
                /\ q.pos = r.pos /\ q.save = r.save /\ q.base = r.base
                /\ q.used = r.used + 1
<1>1. r.used \in Nat /\ r.used + 0 = r.used /\ r.used + 1 \in Nat
  BY FrameFields
<1>2. [r EXCEPT !.arg = a] \in Frame /\ [r EXCEPT !.arg = a, !.used = @ + 1] \in Frame
  BY <1>1 DEF Frame
<1>. QED
  BY <1>1, <1>2 DEF Frame

\* The frame that receives a temporary string is the topmost hooked one, so
\* the base of no other frame is in the way.
LEMMA SetArgInv == ASSUME IInv, SetHookChainArg PROVE IInv'
<1>1. /\ stack \in Seq(Frame) /\ Len(stack) \in Nat /\ DOMAIN stack = 1 .. Len(stack)
      /\ hookCtx \in DOMAIN stack /\ stack[hookCtx] \in Frame
      /\ tempUsed \in Nat /\ tempUsed <= StringsMax /\ StringsMax \in Nat
  BY BoundsAssumption DEF SetHookChainArg, SettingString, IInv, TypeOK
<1>2. stack[hookCtx].func \in StringFunc
  BY DEF SetHookChainArg, SettingString
<1> DEFINE q == stack[hookCtx]
<1>3. \E r \in Frame, k \in {0, 1} :
         /\ stack' = [stack EXCEPT ![hookCtx] = r]
         /\ r.phase = q.phase /\ r.func = q.func /\ r.end = q.end
         /\ r.pos = q.pos /\ r.save = q.save /\ r.base = q.base
         /\ r.used = q.used + k
         /\ tempUsed' = tempUsed + k /\ tempUsed' <= StringsMax
  <2>1. CASE tempUsed = StringsMax
    <3>1. /\ stack' = [stack EXCEPT ![hookCtx] = [q EXCEPT !.arg = SharedBuffer]]
          /\ tempUsed' = tempUsed
      BY <2>1 DEF SetHookChainArg, SettingString
    <3>2. SharedBuffer \in StringArg
      BY DEF StringArg
    <3>3. PICK r \in Frame :
             /\ r = [q EXCEPT !.arg = SharedBuffer]
             /\ r.phase = q.phase /\ r.func = q.func /\ r.end = q.end
             /\ r.pos = q.pos /\ r.save = q.save /\ r.base = q.base
             /\ r.used = q.used + 0
      BY <1>1, <3>2, ArgFrame
    <3>4. /\ tempUsed' = tempUsed + 0 /\ tempUsed' <= StringsMax
          /\ stack' = [stack EXCEPT ![hookCtx] = r]
      BY <1>1, <2>1, <3>1, <3>3
    <3>. HIDE DEF q
    <3>. QED
      BY <3>3, <3>4
  <2>2. CASE tempUsed # StringsMax
    <3>1. /\ stack' = [stack EXCEPT ![hookCtx] =
                         [q EXCEPT !.arg = tempUsed, !.used = @ + 1]]
          /\ tempUsed' = tempUsed + 1
      BY <1>1, <2>2 DEF SetHookChainArg, SettingString
    <3>2. tempUsed \in StringArg
      BY <1>1 DEF StringArg
    <3>3. PICK r \in Frame :
             /\ r = [q EXCEPT !.arg = tempUsed, !.used = @ + 1]
             /\ r.phase = q.phase /\ r.func = q.func /\ r.end = q.end
             /\ r.pos = q.pos /\ r.save = q.save /\ r.base = q.base
             /\ r.used = q.used + 1
      BY <1>1, <3>2, ArgFrame
    <3>4. /\ tempUsed' = tempUsed + 1 /\ tempUsed' <= StringsMax
          /\ stack' = [stack EXCEPT ![hookCtx] = r]
      BY <1>1, <2>2, <3>1, <3>3
    <3>. HIDE DEF q
    <3>. QED
      BY <3>3, <3>4
  <2>. QED
    BY <2>1, <2>2
<1>5. PICK r \in Frame, k \in {0, 1} :
         /\ stack' = [stack EXCEPT ![hookCtx] = r]
         /\ r.phase = q.phase /\ r.func = q.func /\ r.end = q.end
         /\ r.pos = q.pos /\ r.save = q.save /\ r.base = q.base
         /\ r.used = q.used + k
         /\ tempUsed' = tempUsed + k /\ tempUsed' <= StringsMax
  BY <1>3
<1>4. r.phase = q.phase /\ r.func = q.func /\ r.save = q.save /\ r.base = q.base
  BY <1>5
<1>6. /\ stack' \in Seq(Frame) /\ Len(stack') = Len(stack)
      /\ DOMAIN stack' = DOMAIN stack /\ stack'[hookCtx] = r
      /\ \A i \in DOMAIN stack : i # hookCtx => stack'[i] = stack[i]
  BY <1>1, <1>4, <1>5
<1>7. \A i \in DOMAIN stack : /\ stack'[i].phase = stack[i].phase
                              /\ stack'[i].save = stack[i].save
  BY <1>4, <1>6
<1>8. UNCHANGED <<forwards, chain, wasCalled, hookCtx, result>>
  BY DEF SetHookChainArg, SettingString
<1>9. TypeOK'
  BY <1>1, <1>5, <1>6, <1>8 DEF IInv, TypeOK
<1>10. RegisteredOnce'
  BY <1>8 DEF IInv, RegisteredOnce, Empty
<1>11. LoopInv'
  <2>1. \A i \in DOMAIN stack : LoopOK(stack[i], forwards)
    BY DEF IInv, LoopInv
  <2>2. LoopOK(r, forwards)
    BY <1>1, <1>5, <2>1 DEF LoopOK, Foreign
  <2>. QED
    BY <1>6, <1>8, <2>1, <2>2 DEF LoopInv
<1>12. Prescribed(stack', hookCtx, Len(stack))
  BY <1>1, <1>7, PrescribedByPhases DEF IInv, ContextInv, ContextIsInnermost
<1>13. ContextInv'
  <2>1. SavesOK(stack')
    BY <1>1, <1>6, <1>7, SavesOfKin DEF IInv, ContextInv
  <2>. QED
    BY <1>6, <1>8, <1>12, <2>1 DEF ContextInv, ContextIsInnermost
<1>14. TempInv'
  <2>1. \A i \in DOMAIN stack : /\ stack[i].base \in Nat /\ stack[i].used \in Nat
                                /\ stack'[i].base = stack[i].base
                                /\ stack'[i].func = stack[i].func
    <3>1. \A i \in DOMAIN stack : stack[i].base \in Nat /\ stack[i].used \in Nat
      BY <1>1, FrameFields
    <3>. QED
      BY <1>4, <1>6, <3>1
  <2>2. \A i \in DOMAIN stack : i > hookCtx => Foreign(stack[i])
    BY <1>1 DEF IInv, ContextInv, ContextIsInnermost, Prescribed
  <2>3. ASSUME NEW i \in DOMAIN stack', ~Foreign(stack'[i])
        PROVE  /\ stack'[i].base + stack'[i].used <= tempUsed'
               /\ stack'[i].func \notin StringFunc => stack'[i].used = 0
    <3>1. /\ ~Foreign(stack[i]) /\ i \in DOMAIN stack
          /\ stack[i].base + stack[i].used <= tempUsed
          /\ stack[i].func \notin StringFunc => stack[i].used = 0
      BY <1>6, <1>7, <2>3 DEF IInv, TempInv, BasesOK, Foreign
    <3>. QED
      BY <1>1, <1>2, <1>5, <1>6, <2>1, <3>1
  <2>4. ASSUME NEW i \in DOMAIN stack', NEW j \in DOMAIN stack', i < j,
               ~Foreign(stack'[i]), ~Foreign(stack'[j])
        PROVE  stack'[i].base + stack'[i].used <= stack'[j].base
    <3>1. ~Foreign(stack[i]) /\ ~Foreign(stack[j])
      BY <1>6, <1>7, <2>4 DEF Foreign
    <3>2. stack[i].base + stack[i].used <= stack[j].base
      BY <1>6, <2>4, <3>1 DEF IInv, TempInv, BasesOK
    <3>3. i # hookCtx
      BY <1>1, <1>6, <2>2, <2>4, <3>1
    <3>. QED
      BY <1>6, <2>1, <3>2, <3>3
  <2>. QED
    BY <2>3, <2>4 DEF TempInv, BasesOK
<1>. QED
  BY <1>9, <1>10, <1>11, <1>13, <1>14 DEF IInv
LEMMA SetStateInv ==
    ASSUME IInv, NEW h, NEW v \in {"ENABLED", "STOPPED"}, SetState(h, v)
    PROVE  IInv'
<1>1. PICK r \in Resolve(h) :
         forwards' = [forwards EXCEPT ![r[1]][r[2]][r[3]].state = v]
  BY DEF SetState
<1>2. PICK f \in Func, l \in List, i \in Int : i \in DOMAIN forwards[f][l] /\ r = <<f, l, i>>
  BY DEF Resolve, List, IInv, TypeOK
<1>3. /\ forwards \in [Func -> [List -> Seq(Handler)]]
      /\ forwards[f] \in [List -> Seq(Handler)]
      /\ forwards[f][l] \in Seq(Handler) /\ forwards[f][l][i] \in Handler
  BY <1>2 DEF IInv, TypeOK
<1> DEFINE q == [forwards[f][l][i] EXCEPT !.state = v]
           s == [forwards[f][l] EXCEPT ![i] = q]
<1>4. s \in Seq(Handler) /\ Len(s) = Len(forwards[f][l]) /\ (s = <<>> <=> forwards[f][l] = <<>>)
  <2>1. q \in Handler
    BY <1>3 DEF Handler
  <2>. HIDE DEF q
  <2>. QED
    BY <1>2, <1>3, <2>1
<1>5. forwards' = [forwards EXCEPT ![f][l] = s]
  <2>1. r[1] = f /\ r[2] = l /\ r[3] = i
    BY <1>2
  <2>. QED
    BY <1>1, <2>1
<1>. HIDE DEF s
<1>6. /\ forwards' \in [Func -> [List -> Seq(Handler)]]
      /\ \A g \in Func, k \in List :
            /\ Len(forwards'[g][k]) = Len(forwards[g][k])
            /\ forwards'[g][k] = <<>> <=> forwards[g][k] = <<>>
  BY <1>3, <1>4, <1>5
<1>7. UNCHANGED <<chain, wasCalled, stack, hookCtx, tempUsed, result>>
  BY DEF SetState
<1>8. TypeOK'
  BY <1>6, <1>7 DEF IInv, TypeOK
<1>9. RegisteredOnce'
  BY <1>6, <1>7 DEF IInv, RegisteredOnce, Empty, List
<1>10. LoopInv'
  <2>1. \A j \in DOMAIN stack : stack[j].phase \in List => ~Foreign(stack[j])
    BY DEF List, Foreign
  <2>. QED
    BY <1>6, <1>7, <2>1 DEF IInv, LoopInv, LoopOK
<1>. QED
  BY <1>7, <1>8, <1>9, <1>10
     DEF IInv, ContextInv, ContextIsInnermost, SavesOK, Prescribed, Foreign,
         TempInv, BasesOK

LEMMA ServerDeactivateInv == ASSUME IInv, ServerDeactivate PROVE IInv'
<1>1. UNCHANGED <<wasCalled, stack, hookCtx, tempUsed, result>>
  BY DEF ServerDeactivate, calls
<1>2. forwards' = [f \in Func |-> [l \in List |-> <<>>]]
  BY DEF ServerDeactivate
<1>3. forwards' \in [Func -> [List -> Seq(Handler)]]
  BY <1>2
<1>4. ASSUME NEW f \in Func PROVE Empty(f)' /\ chain'[f] = 0
  <2>1. Empty(f)'
    BY <1>2 DEF Empty, List
  <2>2. chain'[f] = IF Empty(f) THEN chain[f] ELSE chain[f] - 1
    BY DEF ServerDeactivate
  <2>. QED
    BY <2>1, <2>2 DEF IInv, RegisteredOnce
<1>5. chain' \in [Func -> Nat]
  BY <1>4 DEF ServerDeactivate
<1>6. TypeOK'
  BY <1>1, <1>3, <1>5 DEF IInv, TypeOK
<1>7. RegisteredOnce'
  BY <1>4 DEF RegisteredOnce
<1>8. LoopInv'
  BY <1>1 DEF ServerDeactivate, IInv, LoopInv, LoopOK, List
<1>. QED
  BY <1>1, <1>6, <1>7, <1>8
     DEF IInv, ContextInv, ContextIsInnermost, SavesOK, Prescribed, Foreign,
         TempInv, BasesOK

LEMMA CrashInv == Crash => IInv'
BY FuncAssumption, BoundsAssumption
   DEF Crash, IInv, TypeOK, RegisteredOnce, LoopInv, ContextInv, SavesOK, TempInv,
       BasesOK, ContextIsInnermost, Prescribed, Empty, List, Handler, Result

\* Where plugin code or a loop of a hooked call is on top, that call is the
\* one g_hookCtx points to.
LEMMA TopOfHookedCall ==
    ASSUME IInv, stack # <<>>, Top.phase \in List
    PROVE  /\ ~Foreign(Top) /\ Top.func \in Func /\ hookCtx = Len(stack)
           /\ Top \in Frame /\ LoopOK(Top, forwards)
<1>1. /\ Len(stack) \in Nat \ {0} /\ Top \in Frame /\ Len(stack) \in DOMAIN stack
      /\ Top = stack[Len(stack)] /\ DOMAIN stack = 1 .. Len(stack)
  BY TopType DEF IInv, TypeOK, Top
<1>2. ~Foreign(Top) /\ Top.phase # "orig"
  BY DEF List, Foreign
<1>3. LoopOK(Top, forwards)
  BY <1>1 DEF IInv, LoopInv
<1>4. Prescribed(stack, hookCtx, Len(stack))
  BY DEF IInv, ContextInv, ContextIsInnermost
<1>5. hookCtx = Len(stack)
  BY <1>1, <1>2, <1>4 DEF Prescribed
<1>. QED
  BY <1>1, <1>2, <1>3, <1>5 DEF LoopOK

LEMMA AdvanceKin ==
    ASSUME NEW r \in Frame
    PROVE  /\ Advance(r) \in Frame /\ Kin(Advance(r), r)
           /\ Break(r) \in Frame /\ Kin(Break(r), r)
<1>1. r.pos \in Nat /\ r.end \in Nat
  BY FrameFields
<1>. QED
  BY <1>1 DEF Advance, Break, Frame, Kin

LEMMA KinOfRunning ==
    ASSUME NEW r \in Frame, NEW b \in BOOLEAN, NEW x \in Int
    PROVE  /\ [r EXCEPT !.running = b, !.index = x] \in Frame
           /\ Kin([r EXCEPT !.running = b, !.index = x], r)
BY DEF Frame, Kin

LEMMA KinOfReturned ==
    ASSUME NEW r \in Frame
    PROVE  Returned(r) \in Frame /\ Kin(Returned(r), r)
<1> DEFINE b == FALSE
           x == 0
<1>0. b \in BOOLEAN /\ x \in Int
  OBVIOUS
<1>. HIDE DEF b, x
<1>1. /\ [r EXCEPT !.running = b, !.index = x] \in Frame
      /\ Kin([r EXCEPT !.running = b, !.index = x], r)
  BY <1>0, KinOfRunning
<1>. QED
  BY <1>1 DEF Returned, b, x

LEMMA KinOfHeard ==
    ASSUME NEW r \in Frame, NEW h \in SUBSET HookChainState
    PROVE  [r EXCEPT !.heard = h] \in Frame /\ Kin([r EXCEPT !.heard = h], r)
BY DEF Frame, Kin

LEMMA HeardType ==
    ASSUME NEW r \in Frame, NEW c \in HookChainState
    PROVE  Heard(r, c) \in SUBSET HookChainState
BY DEF Heard, Frame

LEMMA KinOfState ==
    ASSUME NEW r \in Frame, NEW c \in HookChainState
    PROVE  /\ [r EXCEPT !.hc = c] \in Frame
           /\ Kin([r EXCEPT !.hc = c], r)
BY DEF Frame, Kin

LEMMA KinTrans ==
    ASSUME NEW p, NEW q, NEW r, Kin(p, q), Kin(q, r)
    PROVE  Kin(p, r)
BY DEF Kin

LEMMA SkipHandlerInv == ASSUME IInv, SkipHandler PROVE IInv'
<1>1. /\ stack # <<>> /\ Top.phase \in List /\ stack' = SetTop(Advance(Top))
      /\ UNCHANGED <<forwards, chain, wasCalled, hookCtx, tempUsed, result>>
  BY DEF SkipHandler, Looping
<1>. QED
  BY <1>1, TopOfHookedCall, AdvanceKin, TopKinStep

LEMMA ExecuteForwardInv == ASSUME IInv, ExecuteForward PROVE IInv'
<1>1. /\ stack # <<>> /\ Top.phase \in List /\ ~AtEnd
      /\ stack' = SetTop([Top EXCEPT !.running = TRUE, !.index = AtHandler.index])
      /\ UNCHANGED <<forwards, chain, wasCalled, hookCtx, tempUsed, result>>
  BY DEF ExecuteForward, Looping
<1>2. ~Foreign(Top) /\ Top.func \in Func /\ Top \in Frame /\ LoopOK(Top, forwards)
  BY <1>1, TopOfHookedCall
<1>3. AtHandler.index \in Int
  <2>1. /\ forwards[Top.func][Top.phase] \in Seq(Handler)
        /\ Top.pos \in Nat /\ Top.pos >= 1 /\ Top.end \in Nat /\ Top.pos <= Top.end
        /\ Top.end <= Len(forwards[Top.func][Top.phase])
    BY <1>1, <1>2, FrameFields DEF LoopOK, AtEnd, IInv, TypeOK
  <2>2. AtHandler \in Handler
    BY <2>1 DEF AtHandler
  <2>. QED
    BY <2>2 DEF Handler
<1>. QED
  BY <1>1, <1>2, <1>3, KinOfRunning, TopKinStep

LEMMA PreReturnsInv ==
    ASSUME IInv, NEW ret \in HookChainState, PreReturns(ret)
    PROVE  IInv'
<1> DEFINE q == Returned(Top)
           h == Heard(Top, ret)
           r == [q EXCEPT !.heard = h]
           s == IF Counts(ret) /\ ret > r.hc THEN [r EXCEPT !.hc = ret] ELSE r
           t == IF Top.func \in VoidFunc /\ ret = HC_BYPASS
                THEN Break(s) ELSE Advance(s)
<1>1. /\ stack # <<>> /\ Top.phase \in List /\ stack' = SetTop(t)
      /\ UNCHANGED <<forwards, chain, wasCalled, hookCtx, tempUsed, result>>
  BY DEF PreReturns, InPlugin, List
<1>2. ~Foreign(Top) /\ Top \in Frame
  BY <1>1, TopOfHookedCall
<1>3. q \in Frame /\ Kin(q, Top)
  BY <1>2, KinOfReturned
<1>4. r \in Frame /\ Kin(r, q)
  <2>1. h \in SUBSET HookChainState
    BY <1>2, HeardType
  <2>. HIDE DEF q, h
  <2>. QED
    BY <1>3, <2>1, KinOfHeard
<1>5. s \in Frame /\ Kin(s, r)
  <2>. HIDE DEF q, r
  <2>. QED
    BY <1>4, KinOfState, KinRefl
<1>6. t \in Frame /\ Kin(t, s)
  <2>. HIDE DEF s
  <2>. QED
    BY <1>5, AdvanceKin
<1>. HIDE DEF q, r, s, t
<1>7. Kin(t, Top)
  BY <1>3, <1>4, <1>5, <1>6, KinTrans
<1>. QED
  BY <1>1, <1>2, <1>6, <1>7, TopKinStep

LEMMA PostReturnsInv ==
    ASSUME IInv, NEW ret \in HookChainState, PostReturns(ret)
    PROVE  IInv'
<1> DEFINE q == Returned(Top)
<1>1. /\ stack # <<>> /\ Top.phase \in List
      /\ stack' = SetTop(Break(q)) \/ stack' = SetTop(Advance(q))
      /\ UNCHANGED <<forwards, chain, wasCalled, hookCtx, tempUsed, result>>
  BY DEF PostReturns, InPlugin, List
<1>2. ~Foreign(Top) /\ Top \in Frame
  BY <1>1, TopOfHookedCall
<1>3. q \in Frame /\ Kin(q, Top)
  BY <1>2, KinOfReturned
<1>. HIDE DEF q
<1>4. /\ Break(q) \in Frame /\ Kin(Break(q), Top)
      /\ Advance(q) \in Frame /\ Kin(Advance(q), Top)
  BY <1>3, AdvanceKin, KinTrans
<1>. QED
  BY <1>1, <1>2, <1>4, TopKinStep

LEMMA StartPostType ==
    ASSUME TypeOK, NEW r \in Frame, r.func \in Func
    PROVE  LET s == StartPost(r) IN
           /\ s \in Frame /\ ~Foreign(s) /\ s.phase \in List
           /\ s.func = r.func /\ s.save = r.save
           /\ s.base = r.base /\ s.used = r.used
           /\ LoopOK(s, forwards)
<1> DEFINE e == IF r.func \in VoidFunc /\ r.hc = HC_BYPASS
                THEN 0 ELSE Len(forwards[r.func]["post"])
           s == [r EXCEPT !.phase = "post", !.pos = 1, !.stale = FALSE, !.end = e]
<1>1. e \in Nat /\ e <= Len(forwards[r.func]["post"])
  BY DEF TypeOK, List
<1>2. StartPost(r) = s
  BY DEF StartPost
<1>. HIDE DEF e
<1>3. /\ s \in Frame /\ s.phase = "post" /\ s.pos = 1 /\ s.end = e
      /\ s.func = r.func /\ s.save = r.save /\ s.base = r.base /\ s.used = r.used
  BY <1>1 DEF Frame
<1>. HIDE DEF s
<1>. QED
  BY <1>1, <1>2, <1>3 DEF Foreign, List, LoopOK

LEMMA CallOriginalInv == ASSUME IInv, CallOriginal PROVE IInv'
<1> DEFINE r == [Top EXCEPT !.phase = "orig", !.stale = FALSE]
<1>1. /\ stack # <<>> /\ Top.phase \in List /\ stack' = SetTop(r) /\ hookCtx' = 0
      /\ UNCHANGED <<forwards, chain, wasCalled, tempUsed, result>>
  BY DEF CallOriginal, InLoop, List
<1>2. ~Foreign(Top) /\ Top \in Frame /\ Top.func \in Func
  BY <1>1, TopOfHookedCall
<1>3. /\ r \in Frame /\ r.phase = "orig" /\ r.func = Top.func
      /\ r.save = Top.save /\ r.base = Top.base /\ r.used = Top.used
  BY <1>2 DEF Frame
<1>. HIDE DEF r
<1>4. Prescribed(stack', hookCtx', Len(stack))
  <2>1. Len(stack) \in Nat \ {0} /\ stack'[Len(stack)] = r
    BY <1>1, <1>3, TopType DEF SetTop, IInv, TypeOK
  <2>. QED
    BY <1>1, <1>3, <2>1 DEF Prescribed
<1>5. LoopOK(r, forwards) /\ ~Foreign(r)
  BY <1>2, <1>3 DEF LoopOK, List, Foreign
<1>. QED
  BY <1>1, <1>2, <1>3, <1>4, <1>5, TopStep DEF IInv, TypeOK

\* The context of the topmost frame is prescribed once it is in a loop.
LEMMA PrescribedTop ==
    ASSUME TypeOK, stack # <<>>, NEW r \in Frame, r.phase \in List,
           stack' = SetTop(r)
    PROVE  Prescribed(stack', Len(stack), Len(stack))
<1>1. Len(stack) \in Nat \ {0} /\ stack'[Len(stack)] = r
  BY TopType DEF SetTop, TypeOK
<1>. QED
  BY <1>1 DEF Prescribed

LEMMA SkipOriginalInv == ASSUME IInv, SkipOriginal PROVE IInv'
<1> DEFINE r == StartPost(Top)
<1>1. /\ stack # <<>> /\ Top.phase \in List /\ stack' = SetTop(r)
      /\ UNCHANGED <<forwards, chain, wasCalled, hookCtx, tempUsed, result>>
  BY DEF SkipOriginal, InLoop, List
<1>2. ~Foreign(Top) /\ Top \in Frame /\ Top.func \in Func /\ hookCtx = Len(stack)
  BY <1>1, TopOfHookedCall
<1>3. /\ r \in Frame /\ ~Foreign(r) /\ r.phase \in List /\ r.func = Top.func
      /\ r.save = Top.save /\ r.base = Top.base /\ r.used = Top.used
      /\ LoopOK(r, forwards)
  BY <1>2, StartPostType DEF IInv
<1>. HIDE DEF r
<1>4. Prescribed(stack', hookCtx', Len(stack))
  BY <1>1, <1>2, <1>3, PrescribedTop DEF IInv
<1>. QED
  BY <1>1, <1>2, <1>3, <1>4, TopStep DEF IInv, TypeOK

LEMMA OriginalReturnsInv == ASSUME IInv, OriginalReturns PROVE IInv'
<1> DEFINE v == IF Top.func \notin VoidFunc /\ Top.ret = Nobody
                THEN Original ELSE Top.ret
           q == [Top EXCEPT !.called = TRUE, !.ret = v]
           r == StartPost(q)
<1>1. /\ stack # <<>> /\ Top.phase = "orig" /\ stack' = SetTop(r)
      /\ hookCtx' = Len(stack) /\ UNCHANGED <<forwards, chain, tempUsed, result>>
      /\ wasCalled' = [wasCalled EXCEPT ![Top.func] = TRUE]
  BY DEF OriginalReturns
<1>2. /\ ~Foreign(Top) /\ Top \in Frame /\ Top.func \in Func
  <2>1. LoopOK(Top, forwards) /\ Top \in Frame
    BY <1>1, TopType DEF IInv, LoopInv, Top
  <2>. QED
    BY <1>1, <2>1 DEF LoopOK, Foreign
<1>3. /\ q \in Frame /\ q.func = Top.func
      /\ q.save = Top.save /\ q.base = Top.base /\ q.used = Top.used
  <2>1. v \in Int
    BY <1>2, FrameFields DEF Original
  <2>. HIDE DEF v
  <2>. QED
    BY <1>2, <2>1 DEF Frame
<1>. HIDE DEF q
<1>4. /\ r \in Frame /\ ~Foreign(r) /\ r.phase \in List /\ r.func = q.func
      /\ r.save = q.save /\ r.base = q.base /\ r.used = q.used
      /\ LoopOK(r, forwards)
  BY <1>2, <1>3, StartPostType DEF IInv
<1>. HIDE DEF r
<1>5. Prescribed(stack', hookCtx', Len(stack))
  BY <1>1, <1>4, PrescribedTop DEF IInv
<1>6. wasCalled' \in [Func -> BOOLEAN]
  BY <1>1 DEF IInv, TypeOK
<1>. QED
  BY <1>1, <1>2, <1>3, <1>4, <1>5, <1>6, TopStep

LEMMA GivenType ==
    ASSUME NEW r PROVE Given(r) \in Result /\ GivenEarly(r) \in Result
BY DEF Given, GivenEarly, Value, Result

LEMMA CallReturnsInv == ASSUME IInv, CallReturns PROVE IInv'
<1>1. /\ stack # <<>> /\ Top.phase \in List /\ Leave(Given(Top))
      /\ wasCalled' = [wasCalled EXCEPT ![Top.func] = FALSE]
      /\ UNCHANGED <<forwards, chain>>
  BY DEF CallReturns, InLoop, List, registry
<1>2. ~Foreign(Top)
  BY <1>1, TopOfHookedCall
<1>3. wasCalled' \in [Func -> BOOLEAN]
  BY <1>1 DEF IInv, TypeOK
<1>. QED
  BY <1>1, <1>2, <1>3, GivenType, LeaveStep

LEMMA PreReturnsBreakInv == ASSUME IInv, PreReturnsBreak PROVE IInv'
<1>1. /\ stack # <<>> /\ Top.phase \in List /\ Leave(GivenEarly(Top))
      /\ UNCHANGED <<forwards, chain, wasCalled>>
  BY DEF PreReturnsBreak, InPlugin, List
<1>2. ~Foreign(Top)
  BY <1>1, TopOfHookedCall
<1>. QED
  BY <1>1, <1>2, GivenType, LeaveStep DEF IInv, TypeOK

-----------------------------------------------------------------------------
(* Theorems *)

LEMMA StutterInv == ASSUME IInv, UNCHANGED vars PROVE IInv'
BY DEF vars, IInv, TypeOK, RegisteredOnce, Empty, LoopInv, LoopOK, ContextInv,
       ContextIsInnermost, SavesOK, Prescribed, Foreign, TempInv, BasesOK

LEMMA NextInv == ASSUME IInv, [Next]_vars PROVE IInv'
<1>1. CASE Native
  <2>1. CASE \E f \in Func, l \in List, b \in BOOLEAN : RegisterHookChain(f, l, b)
    BY <2>1, RegisterInv
  <2>2. CASE \E h \in Handles : EnableHookChain(h) \/ DisableHookChain(h)
    BY <2>2, SetStateInv DEF EnableHookChain, DisableHookChain
  <2>. QED
    BY <1>1, <2>1, <2>2, SetReturnInv, SetArgInv DEF Native
<1>2. CASE Loop
  BY <1>2, SkipHandlerInv, ExecuteForwardInv, CallOriginalInv, SkipOriginalInv,
     CallReturnsInv, CrashInv DEF Loop
<1>3. CASE Outside
  BY <1>3, CallInv, PreReturnsBreakInv, PreReturnsInv, PostReturnsInv,
     OriginalReturnsInv, PluginCallInv, PluginReturnsInv, ServerDeactivateInv
     DEF Outside
<1>. QED
  BY <1>1, <1>2, <1>3, StutterInv DEF Next

\* Types, registration, loops, contexts and temporary strings hold together at
\* every depth of the call stack (callForward, callVoidForward).
THEOREM Invariance == Spec => []IInv
<1>1. Init => IInv
  BY InitInv
<1>2. IInv /\ [Next]_vars => IInv'
  BY NextInv
<1>. QED
  BY <1>1, <1>2, PTL DEF Spec

\* Every run keeps to the types of the C++ declarations: a hookchain is never
\* unregistered once too often, and the stack of temporary strings neither
\* overflows nor underflows (hook_t::clear, CTempStrings).
THEOREM TypeCorrect == Spec => []TypeOK
<1>1. IInv => TypeOK
  BY DEF IInv
<1>. QED
  BY <1>1, Invariance, PTL

\* A hookchain is registered once while its function has callbacks, whatever
\* is registered and cleared in whatever order (addHandler, hook_t::clear).
THEOREM RegisteredOnceAlways == Spec => []RegisteredOnce
<1>1. IInv => RegisteredOnce
  BY DEF IInv
<1>. QED
  BY <1>1, Invariance, PTL

\* g_hookCtx points to the context of the innermost hooked call, and to none
\* inside its original, at every depth of nesting and after every way out of
\* a call (callForward, callVoidForward).
THEOREM ContextAlwaysInnermost == Spec => []ContextIsInnermost
<1>1. IInv => ContextIsInnermost
  BY DEF IInv, ContextInv
<1>. QED
  BY <1>1, Invariance, PTL

-----------------------------------------------------------------------------
(* Handles *)

\* The i-th callback of a list has the handle made of the list and of i.
HandleInv ==
    \A f \in Func, l \in List :
        /\ Len(forwards[f][l]) <= MaxHandlers
        /\ \A i \in DOMAIN forwards[f][l] :
              forwards[f][l][i].index = Encode(f, i, l = "post")

LEMMA InitHandles == Init => HandleInv
BY BoundsAssumption DEF Init, HandleInv

LEMMA RegisterHandles ==
    ASSUME TypeOK, HandleInv, NEW f \in Func, NEW l \in List, NEW b \in BOOLEAN,
           RegisterHookChain(f, l, b)
    PROVE  HandleInv'
<1> DEFINE n == Len(forwards[f][l]) + 1
           h == [index |-> Encode(f, n, l = "post"), state |-> "ENABLED"]
<1>1. /\ forwards \in [Func -> [List -> Seq(Handler)]]
      /\ forwards[f][l] \in Seq(Handler) /\ n \in Nat
      /\ Len(forwards[f][l]) < MaxHandlers /\ MaxHandlers \in Nat
  BY BoundsAssumption DEF TypeOK, RegisterHookChain
<1>2. forwards' = [forwards EXCEPT ![f][l] = Append(@, h)]
  BY DEF RegisterHookChain
<1>3. h.index = Encode(f, n, l = "post")
  OBVIOUS
<1>. HIDE DEF h
<1>4. /\ forwards'[f][l] = Append(forwards[f][l], h)
      /\ \A g \in Func, k \in List :
            g # f \/ k # l => forwards'[g][k] = forwards[g][k]
  BY <1>1, <1>2
<1>5. /\ Len(Append(forwards[f][l], h)) = n
      /\ DOMAIN Append(forwards[f][l], h) = 1 .. n
      /\ DOMAIN forwards[f][l] = 1 .. (n - 1)
      /\ Append(forwards[f][l], h)[n] = h
      /\ \A i \in 1 .. (n - 1) : Append(forwards[f][l], h)[i] = forwards[f][l][i]
  BY <1>1
<1> SUFFICES ASSUME NEW g \in Func, NEW k \in List
             PROVE  /\ Len(forwards'[g][k]) <= MaxHandlers
                    /\ \A i \in DOMAIN forwards'[g][k] :
                          forwards'[g][k][i].index = Encode(g, i, k = "post")
  BY DEF HandleInv
<1>6. CASE g # f \/ k # l
  BY <1>4, <1>6 DEF HandleInv
<1>7. CASE g = f /\ k = l
  <2>1. n <= MaxHandlers
    BY <1>1
  <2>2. ASSUME NEW i \in 1 .. n
        PROVE  Append(forwards[f][l], h)[i].index = Encode(f, i, l = "post")
    <3>1. CASE i = n
      BY <1>3, <1>5, <3>1
    <3>2. CASE i \in 1 .. (n - 1)
      BY <1>5, <3>2 DEF HandleInv
    <3>. QED
      BY <1>1, <3>1, <3>2
  <2>. HIDE DEF n
  <2>. QED
    BY <1>4, <1>5, <1>7, <2>1, <2>2
<1>. QED
  BY <1>6, <1>7

LEMMA SetStateHandles ==
    ASSUME TypeOK, HandleInv, NEW h, NEW v \in {"ENABLED", "STOPPED"},
           SetState(h, v)
    PROVE  HandleInv'
<1>1. PICK r \in Resolve(h) :
         forwards' = [forwards EXCEPT ![r[1]][r[2]][r[3]].state = v]
  BY DEF SetState
<1>2. PICK f \in Func, l \in List, i \in Int :
         i \in DOMAIN forwards[f][l] /\ r = <<f, l, i>>
  BY DEF Resolve, List, TypeOK
<1>3. /\ forwards \in [Func -> [List -> Seq(Handler)]]
      /\ forwards[f][l] \in Seq(Handler) /\ forwards[f][l][i] \in Handler
  BY <1>2 DEF TypeOK
<1> DEFINE q == [forwards[f][l][i] EXCEPT !.state = v]
           s == [forwards[f][l] EXCEPT ![i] = q]
<1>4. forwards' = [forwards EXCEPT ![f][l] = s]
  <2>1. r[1] = f /\ r[2] = l /\ r[3] = i
    BY <1>2
  <2>. QED
    BY <1>1, <2>1
<1>5. /\ Len(s) = Len(forwards[f][l]) /\ DOMAIN s = DOMAIN forwards[f][l]
      /\ \A j \in DOMAIN s : s[j].index = forwards[f][l][j].index
  <2>1. q.index = forwards[f][l][i].index
    BY <1>3 DEF Handler
  <2>. HIDE DEF q
  <2>. QED
    BY <1>2, <1>3, <2>1
<1>. HIDE DEF s
<1>6. /\ forwards'[f][l] = s
      /\ \A g \in Func, k \in List :
            g # f \/ k # l => forwards'[g][k] = forwards[g][k]
  BY <1>3, <1>4
<1>. QED
  BY <1>5, <1>6 DEF HandleInv

LEMMA ClearHandles ==
    ASSUME forwards' = [f \in Func |-> [l \in List |-> <<>>]]
    PROVE  HandleInv'
BY BoundsAssumption DEF HandleInv

LEMMA NextHandles == ASSUME IInv, HandleInv, [Next]_vars PROVE HandleInv'
<1>1. CASE UNCHANGED forwards
  BY <1>1 DEF HandleInv
<1>2. CASE \E f \in Func, l \in List, b \in BOOLEAN : RegisterHookChain(f, l, b)
  BY <1>2, RegisterHandles DEF IInv
<1>3. CASE \E h \in Handles : EnableHookChain(h) \/ DisableHookChain(h)
  BY <1>3, SetStateHandles DEF IInv, EnableHookChain, DisableHookChain
<1>4. CASE ServerDeactivate \/ Crash
  BY <1>4, ClearHandles DEF ServerDeactivate, Crash
<1>5. CASE SetHookChainReturn \/ SetHookChainArg
  BY <1>1, <1>5 DEF SetHookChainReturn, SetHookChainArg, SettingString
<1>6. CASE Loop
  BY <1>1, <1>4, <1>6 DEF Loop, SkipHandler, ExecuteForward, CallOriginal,
     SkipOriginal, CallReturns, registry
<1>7. CASE Outside
  BY <1>1, <1>4, <1>7 DEF Outside, Call, PreReturnsBreak, PreReturns,
     PostReturns, OriginalReturns, PluginCall, PluginReturns
<1>8. CASE UNCHANGED vars
  BY <1>1, <1>8 DEF vars
<1>. QED
  BY <1>2, <1>3, <1>5, <1>6, <1>7, <1>8 DEF Next, Native

LEMMA HandlesResolve ==
    ASSUME TypeOK, HandleInv, MaxHandlers <= MaxForwards
    PROVE  HandleNamesItsHandler
<1> SUFFICES ASSUME NEW r \in Registered
             PROVE  Resolve(forwards[r[1]][r[2]][r[3]].index) = {r}
  BY DEF HandleNamesItsHandler
<1>1. PICK f \in Func, l \in List, i \in Int :
         i \in DOMAIN forwards[f][l] /\ r = <<f, l, i>>
  BY DEF Registered, TypeOK, List
<1> DEFINE h == forwards[f][l][i].index
<1>2. /\ h = Encode(f, i, l = "post") /\ i \in 1 .. MaxForwards
  BY <1>1, BoundsAssumption, MaxForwardsAssumption DEF HandleInv, TypeOK
<1>3. r[1] = f /\ r[2] = l /\ r[3] = i
  BY <1>1
<1>4. /\ IsPost(h) <=> l = "post"
      /\ FuncOf(h) = f /\ PosOf(h) = i
  <2> DEFINE b == l = "post"
  <2>1. f \in Nat /\ b \in BOOLEAN
    BY FuncAssumption
  <2>2. h = Encode(f, i, b)
    BY <1>2
  <2>. HIDE DEF b, h
  <2>3. (IsPost(h) <=> b) /\ FuncOf(h) = f /\ PosOf(h) = i
    BY <1>2, <2>1, <2>2, RoundTrip
  <2>. QED
    BY <2>3 DEF b
<1>. HIDE DEF h
<1>5. Resolve(h) = {<<f, l, i>>}
  BY <1>1, <1>4 DEF Resolve, List
<1>. QED
  BY <1>1, <1>3, <1>5 DEF h

\* As long as no list holds more callbacks than a handle can number, the
\* handle of a callback resolves to this callback for as long as it exists.
\* Nothing in addHandler keeps a list that short: the bound is an assumption.
THEOREM HandlesNameTheirHandlers ==
    ASSUME MaxHandlers <= MaxForwards
    PROVE  Spec => []HandleNamesItsHandler
<1>1. Init => IInv /\ HandleInv
  BY InitInv, InitHandles
<1>2. IInv /\ HandleInv /\ [Next]_vars => (IInv /\ HandleInv)'
  BY NextInv, NextHandles
<1>3. IInv /\ HandleInv => HandleNamesItsHandler
  BY HandlesResolve DEF IInv
<1>. QED
  BY <1>1, <1>2, <1>3, PTL DEF Spec
=============================================================================
