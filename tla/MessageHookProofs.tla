-------------------------- MODULE MessageHookProofs --------------------------
(***************************************************************************)
(* What holds of MessageHook for every set of messages and every bound.    *)
(***************************************************************************)
EXTENDS MessageHook, SequenceTheorems, FiniteSetTheorems, TLAPS

\* The packing of handles, about which HookHandleProofs proves.
HP == INSTANCE HookHandleProofs WITH MaxForwards <- MaxUserMsgs

-----------------------------------------------------------------------------
(* The inductive invariant *)

\* What the pre hooks returned shows in the greatest of their results.
Heard(r) ==
    /\ r.state # HC_BREAK
    /\ r.state = HC_SUPERCEDE => HC_SUPERCEDE \in r.heard
    /\ HC_SUPERCEDE \in r.heard => r.state # HC_CONTINUE
    /\ HC_BYPASS \in r.heard <=> r.state = HC_BYPASS

DecisionOK(r) ==
    ~Foreign(r) =>
      /\ Heard(r)
      /\ r.phase = "pre" => ~r.called
      /\ r.phase = "orig" => r.state # HC_SUPERCEDE
      /\ r.phase = "post" => (r.called <=> r.state # HC_SUPERCEDE)

\* As long as no hook has left the list v of a loop, the memory the loop has
\* yet to read is a part of v, and the hooks it has run are before that part.
Within(r, v) ==
    /\ r.pos + Len(r.rest) - 1 <= Len(v)
    /\ \A j \in DOMAIN r.rest : r.rest[j] = v[r.pos + j - 1]
    /\ \A a \in r.ran : \E k \in 1 .. (r.pos - 1) : v[k] = a

LoopOK(r, h) ==
    /\ ~Foreign(r) => r.msg \in Msg
    /\ r.pos >= 1
    /\ r.phase = "orig" => ~r.running
    /\ r.phase \in List /\ r.running => r.rest # <<>>
    /\ r.phase \in List /\ ~r.shifted /\ r.rest # <<>> =>
          Within(r, h[r.msg][r.phase])

FrameOK(r, h) == r \in Frame /\ LoopOK(r, h) /\ DecisionOK(r)

\* The context each dispatch saved is the one its caller needs back.
SavesOK(s) ==
    \A i \in DOMAIN s : ~Foreign(s[i]) => Prescribed(s, s[i].save, i - 1)

StackOK(s, c, h) ==
    /\ s \in Seq(Frame)
    /\ \A i \in DOMAIN s : FrameOK(s[i], h)
    /\ Prescribed(s, c, Len(s))
    /\ SavesOK(s)

StackInv == StackOK(stack, active, hooks)

\* The hooks alive are the ones listed, each in one place.
ListsOK(h, o) ==
    /\ \A a \in Addr : o[a] # "FREE" <=>
          \E m \in Msg, l \in List : \E i \in DOMAIN h[m][l] : h[m][l][i] = a
    /\ \A m, n \in Msg, l, k \in List : \A i \in DOMAIN h[m][l], j \in DOMAIN h[n][k] :
          h[m][l][i] = h[n][k][j] => m = n /\ l = k /\ i = j

\* A hook never comes to stand behind the position its handle names.
HandlesOK(h, f) ==
    \A m \in Msg, l \in List : \A i \in DOMAIN h[m][l] :
       \E k \in i .. Cardinality(Addr) : f[h[m][l][i]] = H!Encode(m, k, l = "post")

CountsOK(h, n) ==
    \A m \in Msg : h[m]["pre"] # <<>> \/ h[m]["post"] # <<>> => n[m] > 0

TypesOK(h, o, f, n) ==
    /\ h \in [Msg -> [List -> Seq(Addr)]]
    /\ o \in [Addr -> {"FREE", "ENABLED", "STOPPED"}]
    /\ f \in [Addr -> Int]
    /\ n \in [Msg -> Nat]

RegistryOK(h, o, f, n) ==
    TypesOK(h, o, f, n) /\ ListsOK(h, o) /\ HandlesOK(h, f) /\ CountsOK(h, n)

RegistryInv == RegistryOK(hooks, object, handleOf, registered)

IInv == RegistryInv /\ StackInv

-----------------------------------------------------------------------------
(* Facts about stacks *)

\* What the stack prescribes depends on the phases only.
LEMMA PrescribedByPhases ==
    ASSUME NEW s, NEW t, NEW n \in Nat, NEW c,
           \A i \in 1 .. n : t[i].phase = s[i].phase,
           Prescribed(s, c, n)
    PROVE  Prescribed(t, c, n)
BY DEF Prescribed, Foreign

\* While hooks of the topmost dispatch run, it is the active one.
LEMMA TopIsActive ==
    ASSUME NEW s \in Seq(Frame), NEW c, s # <<>>, s[Len(s)].phase \in List,
           Prescribed(s, c, Len(s))
    PROVE  c = Len(s)
BY DEF Prescribed, List, Foreign

LEMMA SavesOfKin ==
    ASSUME NEW s \in Seq(Frame), NEW t \in Seq(Frame), Len(t) <= Len(s),
           \A i \in DOMAIN t : t[i].phase = s[i].phase /\ t[i].save = s[i].save,
           SavesOK(s)
    PROVE  SavesOK(t)
<1> SUFFICES ASSUME NEW i \in DOMAIN t, ~Foreign(t[i])
             PROVE  Prescribed(t, t[i].save, i - 1)
  BY DEF SavesOK
<1>1. i \in DOMAIN s /\ i - 1 \in Nat /\ 1 .. (i - 1) \subseteq DOMAIN t
  OBVIOUS
<1>2. Prescribed(s, t[i].save, i - 1)
  BY <1>1 DEF SavesOK, Foreign
<1>. QED
  BY <1>1, <1>2, PrescribedByPhases

\* A change of frames that no loop, no caller and no result depends on.
LEMMA StackOfKin ==
    ASSUME NEW s \in Seq(Frame), NEW t \in Seq(Frame), Len(t) = Len(s),
           NEW h, NEW g, NEW c, StackOK(s, c, h),
           \A i \in DOMAIN t : /\ t[i].phase = s[i].phase /\ t[i].save = s[i].save
                               /\ FrameOK(t[i], g)
    PROVE  StackOK(t, c, g)
<1>1. SavesOK(t)
  BY SavesOfKin DEF StackOK
<1>2. Prescribed(t, c, Len(t))
  BY PrescribedByPhases DEF StackOK
<1>. QED
  BY <1>1, <1>2 DEF StackOK

\* The topmost dispatch goes on, with its context active unless the engine is
\* sending the message.
LEMMA StackOfTop ==
    ASSUME NEW s, NEW c, NEW h, StackOK(s, c, h), s # <<>>, ~Foreign(s[Len(s)]),
           NEW r, FrameOK(r, h), r.save = s[Len(s)].save,
           NEW d, \/ r.phase \in List /\ d = Len(s)
                  \/ r.phase = "orig" /\ d = 0
    PROVE  StackOK([s EXCEPT ![Len(s)] = r], d, h)
<1> DEFINE t == [s EXCEPT ![Len(s)] = r]
<1>0. /\ s \in Seq(Frame) /\ r \in Frame
      /\ Len(s) \in Nat \ {0} /\ DOMAIN s = 1 .. Len(s) /\ DOMAIN t = DOMAIN s
      /\ t \in Seq(Frame) /\ Len(t) = Len(s)
      /\ t[Len(s)] = r /\ \A i \in 1 .. (Len(s) - 1) : t[i] = s[i]
  BY DEF StackOK, FrameOK
<1>. HIDE DEF t
<1>1. \A i \in DOMAIN t : FrameOK(t[i], h)
  BY <1>0 DEF StackOK
<1>2. Prescribed(t, d, Len(t))
  BY <1>0 DEF Prescribed, Foreign, List
<1>3. SavesOK(t)
  <2> SUFFICES ASSUME NEW i \in DOMAIN t, ~Foreign(t[i])
               PROVE  Prescribed(t, t[i].save, i - 1)
    BY DEF SavesOK
  <2>1. i \in DOMAIN s /\ t[i].save = s[i].save /\ ~Foreign(s[i])
    BY <1>0
  <2>2. Prescribed(s, t[i].save, i - 1)
    BY <2>1 DEF SavesOK, StackOK
  <2>3. i - 1 \in Nat /\ \A j \in 1 .. (i - 1) : t[j].phase = s[j].phase
    BY <1>0, <2>1
  <2>. QED
    BY <2>2, <2>3, PrescribedByPhases
<1>. QED
  BY <1>0, <1>1, <1>2, <1>3 DEF StackOK, t

\* A new activation.
LEMMA StackOfPush ==
    ASSUME NEW s, NEW c, NEW h, StackOK(s, c, h), NEW r, FrameOK(r, h),
           NEW d, \/ Foreign(r) /\ d = c
                  \/ r.phase \in List /\ r.save = c /\ d = Len(s) + 1
    PROVE  StackOK(Append(s, r), d, h)
<1> DEFINE t == Append(s, r)
<1>0. /\ s \in Seq(Frame) /\ r \in Frame
      /\ Len(s) \in Nat /\ DOMAIN s = 1 .. Len(s)
      /\ t \in Seq(Frame) /\ Len(t) = Len(s) + 1 /\ DOMAIN t = 1 .. (Len(s) + 1)
      /\ t[Len(s) + 1] = r /\ \A i \in 1 .. Len(s) : t[i] = s[i]
  BY DEF StackOK, FrameOK
<1>. HIDE DEF t
<1>1. \A i \in DOMAIN t : FrameOK(t[i], h)
  BY <1>0 DEF StackOK
<1>2. Prescribed(t, d, Len(t))
  BY <1>0 DEF Prescribed, Foreign, List, StackOK
<1>3. SavesOK(t)
  <2> SUFFICES ASSUME NEW i \in DOMAIN t, ~Foreign(t[i])
               PROVE  Prescribed(t, t[i].save, i - 1)
    BY DEF SavesOK
  <2>1. Prescribed(s, t[i].save, i - 1)
    BY <1>0 DEF SavesOK, StackOK, List, Foreign
  <2>2. i - 1 \in Nat /\ \A j \in 1 .. (i - 1) : t[j].phase = s[j].phase
    BY <1>0
  <2>. QED
    BY <2>1, <2>2, PrescribedByPhases
<1>. QED
  BY <1>0, <1>1, <1>2, <1>3 DEF StackOK, t

\* The topmost activation returns.
LEMMA StackOfPop ==
    ASSUME NEW s, NEW c, NEW h, StackOK(s, c, h), s # <<>>,
           NEW d, \/ Foreign(s[Len(s)]) /\ d = c
                  \/ ~Foreign(s[Len(s)]) /\ d = s[Len(s)].save
    PROVE  StackOK(SubSeq(s, 1, Len(s) - 1), d, h)
<1> DEFINE n == Len(s) - 1
           t == SubSeq(s, 1, n)
<1>0. /\ s \in Seq(Frame) /\ n \in Nat /\ DOMAIN s = 1 .. Len(s) /\ Len(s) = n + 1
      /\ \A i \in 1 .. n : s[i] \in Frame
  BY DEF StackOK
<1>1. t \in Seq(Frame) /\ Len(t) = n /\ \A i \in 1 .. n : t[i] = s[i]
  BY <1>0, SubSeqProperties
<1>. HIDE DEF t, n
<1>2. DOMAIN t = 1 .. n
  BY <1>1
<1>3. \A i \in DOMAIN t : FrameOK(t[i], h)
  BY <1>0, <1>1, <1>2 DEF StackOK
<1>4. Prescribed(s, d, n)
  <2>1. CASE Foreign(s[n + 1]) /\ d = c
    BY <1>0, <2>1 DEF StackOK, Prescribed, Foreign, List
  <2>2. CASE ~Foreign(s[n + 1]) /\ d = s[n + 1].save
    <3>1. Prescribed(s, s[n + 1].save, n + 1 - 1)
      BY <1>0, <2>2 DEF StackOK, SavesOK
    <3>. QED
      BY <1>0, <2>2, <3>1
  <2>. QED
    BY <1>0, <2>1, <2>2
<1>5. Prescribed(t, d, Len(t))
  BY <1>0, <1>1, <1>4, PrescribedByPhases
<1>6. SavesOK(t)
  BY <1>0, <1>1, <1>2, SavesOfKin DEF StackOK
<1>. QED
  BY <1>1, <1>2, <1>3, <1>5, <1>6 DEF StackOK, t, n

-----------------------------------------------------------------------------
(* Facts about one frame *)

LEMMA FrameFields ==
    ASSUME NEW r \in Frame
    PROVE  /\ r.msg \in Msg \cup {NoMsg}
           /\ r.phase \in {"pre", "orig", "post", "foreign"}
           /\ r.pos \in Nat /\ r.rest \in Seq(Addr) /\ r.save \in Nat
           /\ r.running \in BOOLEAN /\ r.stale \in BOOLEAN
           /\ r.modified \in BOOLEAN /\ r.called \in BOOLEAN
           /\ r.shifted \in BOOLEAN /\ r.state \in HookChainState
           /\ r.heard \subseteq {HC_SUPERCEDE, HC_BYPASS} /\ r.ran \subseteq Addr
BY DEF Frame

LEMMA ListOfMessage ==
    ASSUME RegistryInv, NEW m \in Msg, NEW l \in List
    PROVE  hooks[m] \in [List -> Seq(Addr)] /\ hooks[m][l] \in Seq(Addr)
BY DEF RegistryInv, RegistryOK, TypesOK

LEMMA NewDispatchOK ==
    ASSUME RegistryInv, NEW m \in Msg, active \in Nat
    PROVE  /\ FrameOK(NewDispatch(m), hooks)
           /\ NewDispatch(m).phase = "pre" /\ NewDispatch(m).save = active
<1> DEFINE r == NewDispatch(m)
<1>1. hooks[m]["pre"] \in Seq(Addr)
  BY ListOfMessage DEF List
<1>2. r \in Frame
  BY <1>1 DEF NewDispatch, Frame, HookChainState, HC_CONTINUE, HC_BYPASS
<1>3. LoopOK(r, hooks)
  BY <1>1 DEF LoopOK, Within, NewDispatch
<1>4. DecisionOK(r)
  BY DEF DecisionOK, Heard, NewDispatch, HC_CONTINUE, HC_SUPERCEDE, HC_BREAK, HC_BYPASS
<1>. QED
  BY <1>2, <1>3, <1>4 DEF FrameOK, NewDispatch

LEMMA ForeignCallOK ==
    ASSUME active \in Nat
    PROVE  FrameOK(ForeignCall, hooks) /\ Foreign(ForeignCall)
BY DEF FrameOK, ForeignCall, Frame, LoopOK, DecisionOK, Foreign, List, HookChainState,
       HC_CONTINUE, HC_BYPASS

\* Frame q is frame r in all that a result depends on.
SameDecision(q, r) ==
    /\ q.phase = r.phase /\ q.state = r.state /\ q.heard = r.heard
    /\ q.called = r.called

LEMMA DecisionOfSame ==
    ASSUME NEW q, NEW r, SameDecision(q, r), DecisionOK(r)
    PROVE  DecisionOK(q)
BY DEF SameDecision, DecisionOK, Heard, Foreign

\* The loop comes to the next hook, past one that is added to those it ran or
\* past one that is not enabled.
LEMMA AdvanceOK ==
    ASSUME NEW h, NEW r, FrameOK(r, h), r.phase \in List, r.rest # <<>>,
           NEW q \in Frame, DecisionOK(q), ~q.running,
           q.phase = r.phase, q.msg = r.msg, q.pos = r.pos, q.rest = r.rest,
           q.shifted = r.shifted,
           ~r.shifted => q.ran \subseteq r.ran \cup {Head(r.rest)}
    PROVE  FrameOK(Advance(q), h)
<1> DEFINE v == h[r.msg][r.phase]
           t == Tail(r.rest)
           a == Advance(q)
<1>1. /\ r \in Frame /\ r.rest \in Seq(Addr) /\ r.pos \in Nat /\ r.pos >= 1
      /\ LoopOK(r, h) /\ ~Foreign(r)
  BY FrameFields DEF FrameOK, LoopOK, Foreign, List
<1>2. /\ t \in Seq(Addr) /\ Len(t) = Len(r.rest) - 1 /\ Len(r.rest) \in Nat
      /\ \A i \in 1 .. Len(t) : t[i] = r.rest[i + 1]
      /\ Head(r.rest) = r.rest[1] /\ DOMAIN t = 1 .. Len(t)
      /\ DOMAIN r.rest = 1 .. Len(r.rest)
  BY <1>1, HeadTailProperties
<1>. HIDE DEF t
<1>3. /\ a \in Frame /\ a.pos = r.pos + 1 /\ a.rest = t /\ a.msg = r.msg
      /\ a.phase = r.phase /\ a.running = q.running /\ a.shifted = r.shifted
      /\ a.ran = q.ran /\ SameDecision(a, q)
  <2>1. a = [q EXCEPT !.pos = r.pos + 1, !.rest = t]
    BY DEF Advance, t
  <2>. HIDE DEF a
  <2>2. a = [q EXCEPT !.pos = r.pos + 1, !.rest = t]
        /\ r.pos + 1 \in Nat
    BY <1>1, <2>1
  <2>. QED
    BY <1>2, <2>2 DEF Frame, SameDecision
<1>. HIDE DEF a
<1>4. ~r.shifted => Within(r, v)
  BY <1>1 DEF LoopOK
<1>. HIDE DEF v
<1>5. ASSUME ~r.shifted, t # <<>> PROVE Within(a, v)
  <2>1. /\ r.pos + Len(r.rest) - 1 <= Len(v)
        /\ \A j \in DOMAIN r.rest : r.rest[j] = v[r.pos + j - 1]
        /\ \A b \in r.ran : \E k \in 1 .. (r.pos - 1) : v[k] = b
    BY <1>4, <1>5 DEF Within
  <2>2. a.pos + Len(a.rest) - 1 <= Len(v)
    BY <1>1, <1>2, <1>3, <2>1
  <2>3. \A j \in DOMAIN t : t[j] = v[a.pos + j - 1]
    <3> SUFFICES ASSUME NEW j \in DOMAIN t PROVE t[j] = v[a.pos + j - 1]
      OBVIOUS
    <3>1. j \in 1 .. Len(t) /\ j + 1 \in DOMAIN r.rest
      BY <1>2
    <3>2. t[j] = v[r.pos + (j + 1) - 1]
      BY <1>2, <2>1, <3>1
    <3>3. r.pos + (j + 1) - 1 = a.pos + j - 1
      BY <1>1, <1>3, <3>1
    <3>. QED
      BY <3>2, <3>3
  <2>4. \A b \in q.ran : \E k \in 1 .. (a.pos - 1) : v[k] = b
    <3>1. v[r.pos] = Head(r.rest) /\ r.pos \in 1 .. (a.pos - 1)
      <4>1. 1 \in DOMAIN r.rest /\ r.pos + 1 - 1 = r.pos
        BY <1>1, <1>2, <1>5
      <4>2. r.rest[1] = v[r.pos + 1 - 1]
        BY <2>1, <4>1
      <4>. QED
        BY <1>1, <1>2, <1>3, <4>1, <4>2
    <3>2. \A k \in 1 .. (r.pos - 1) : k \in 1 .. (a.pos - 1)
      BY <1>1, <1>3
    <3>. QED
      BY <2>1, <3>1, <3>2, <1>5
  <2>. QED
    BY <1>3, <2>2, <2>3, <2>4 DEF Within
<1>6. LoopOK(a, h)
  BY <1>1, <1>3, <1>5 DEF LoopOK, Foreign, v
<1>7. DecisionOK(a)
  BY <1>3, DecisionOfSame
<1>. QED
  BY <1>3, <1>6, <1>7 DEF FrameOK, a

\* A loop starts that has run no hook.
LEMMA StartLoopOK ==
    ASSUME NEW h, NEW r, FrameOK(r, h), ~Foreign(r), ~r.running,
           NEW phase \in {"orig", "post"}, NEW memory \in Seq(Addr),
           phase = "post" => memory = h[r.msg]["post"],
           DecisionOK(StartLoop(r, phase, memory))
    PROVE  FrameOK(StartLoop(r, phase, memory), h)
<1> DEFINE q == StartLoop(r, phase, memory)
<1>1. r \in Frame /\ r.msg \in Msg
  BY DEF FrameOK, LoopOK
<1>2. /\ q \in Frame /\ q.msg = r.msg /\ q.phase = phase /\ q.pos = 1
      /\ q.rest = memory /\ ~q.running /\ q.ran = {}
  BY <1>1 DEF StartLoop, Frame
<1>. HIDE DEF q
<1>3. phase = "post" => Within(q, h[r.msg]["post"])
  BY <1>2 DEF Within
<1>4. LoopOK(q, h)
  BY <1>1, <1>2, <1>3 DEF LoopOK, List
<1>. QED
  BY <1>2, <1>4 DEF FrameOK, q

-----------------------------------------------------------------------------
(* What a step does to the stack *)

\* The topmost dispatch goes on.
TopStep ==
    /\ stack # <<>> /\ ~Foreign(Top)
    /\ \E r : /\ FrameOK(r, hooks)
              /\ r.save = Top.save /\ r.modified = Top.modified
              /\ stack' = SetTop(r)
              /\ \/ r.phase \in List /\ active' = Len(stack)
                 \/ r.phase = "orig" /\ active' = 0

PushStep ==
    \E r : /\ FrameOK(r, hooks)
           /\ stack' = Append(stack, r)
           /\ \/ Foreign(r) /\ active' = active
              \/ r.phase \in List /\ r.save = active /\ active' = Len(stack) + 1

PopStep ==
    /\ stack # <<>>
    /\ stack' = Below
    /\ \/ Foreign(Top) /\ active' = active
       \/ ~Foreign(Top) /\ active' = Top.save

DispatchStep == UNCHANGED registry /\ (TopStep \/ PushStep \/ PopStep)

LEMMA TopOK ==
    ASSUME StackInv, stack # <<>>
    PROVE  /\ Len(stack) \in DOMAIN stack /\ Len(stack) \in Nat \ {0}
           /\ FrameOK(Top, hooks) /\ Top \in Frame
           /\ Top.phase \in List => active = Len(stack)
<1>1. stack \in Seq(Frame) /\ Prescribed(stack, active, Len(stack))
  BY DEF StackInv, StackOK
<1>2. Len(stack) \in DOMAIN stack /\ Len(stack) \in Nat \ {0}
  BY <1>1
<1>3. FrameOK(Top, hooks)
  BY <1>2 DEF StackInv, StackOK, Top
<1>4. Top.phase \in List => active = Len(stack)
  BY <1>1, TopIsActive DEF Top
<1>. QED
  BY <1>2, <1>3, <1>4 DEF FrameOK

LEMMA ActiveType ==
    ASSUME StackInv
    PROVE  active \in 0 .. Len(stack) /\ Len(stack) \in Nat
BY DEF StackInv, StackOK, Prescribed

LEMMA TypeCorrect == IInv => TypeOK
BY ActiveType DEF IInv, StackInv, StackOK, RegistryInv, RegistryOK, TypesOK, TypeOK

LEMMA LoopSteps ==
    ASSUME IInv, SkipHook \/ ExecuteForward \/ CallNext \/ SkipNext \/ DispatchReturns
    PROVE  DispatchStep
<1> DEFINE n == Len(stack)
<1>0. /\ Looping /\ stack # <<>> /\ Top.phase \in List /\ ~Top.running
      /\ UNCHANGED registry
  BY DEF SkipHook, ExecuteForward, CallNext, SkipNext, DispatchReturns, Looping, registry
<1>1. /\ FrameOK(Top, hooks) /\ Top \in Frame /\ DecisionOK(Top) /\ LoopOK(Top, hooks)
      /\ ~Foreign(Top) /\ active = n /\ Top.msg \in Msg
  BY <1>0, TopOK DEF IInv, List, Foreign, FrameOK, LoopOK
<1>2. ASSUME SkipHook PROVE DispatchStep
  <2>1. FrameOK(Advance(Top), hooks)
    BY <1>0, <1>1, <1>2, AdvanceOK DEF SkipHook, AtEnd
  <2>2. Advance(Top).save = Top.save /\ Advance(Top).modified = Top.modified
        /\ Advance(Top).phase = Top.phase
    BY <1>1 DEF Advance, Frame
  <2>. QED
    BY <1>0, <1>1, <1>2, <2>1, <2>2 DEF SkipHook, DispatchStep, TopStep
<1>3. ASSUME ExecuteForward PROVE DispatchStep
  <2> DEFINE r == [Top EXCEPT !.running = TRUE]
  <2>1. /\ r \in Frame /\ SameDecision(r, Top) /\ r.msg = Top.msg /\ r.pos = Top.pos
        /\ r.rest = Top.rest /\ r.shifted = Top.shifted /\ r.ran = Top.ran
        /\ r.save = Top.save /\ r.modified = Top.modified /\ r.phase = Top.phase
    BY <1>1 DEF Frame, SameDecision
  <2>2. stack' = SetTop(r) /\ active' = active /\ Top.rest # <<>>
    BY <1>3 DEF ExecuteForward, AtEnd
  <2>. HIDE DEF r
  <2>3. LoopOK(r, hooks)
    BY <1>0, <1>1, <2>1, <2>2 DEF LoopOK, Within, Foreign, List
  <2>4. FrameOK(r, hooks)
    BY <1>1, <2>1, <2>3, DecisionOfSame DEF FrameOK
  <2>. QED
    BY <1>0, <1>1, <2>1, <2>2, <2>4 DEF DispatchStep, TopStep
<1>4. ASSUME CallNext PROVE DispatchStep
  <2> DEFINE r == StartLoop(Top, "orig", <<>>)
  <2>1. /\ stack' = SetTop(r) /\ active' = 0
        /\ Top.phase = "pre" /\ Top.state # HC_SUPERCEDE
    BY <1>4 DEF CallNext
  <2>2. /\ r.save = Top.save /\ r.modified = Top.modified /\ r.phase = "orig"
        /\ r.state = Top.state /\ r.heard = Top.heard /\ r.called = Top.called
    BY <1>1 DEF StartLoop, Frame
  <2>3. DecisionOK(r)
    BY <1>1, <2>1, <2>2 DEF DecisionOK, Heard, Foreign
  <2>4. <<>> \in Seq(Addr)
    OBVIOUS
  <2>5. FrameOK(r, hooks)
    BY <1>0, <1>1, <2>3, <2>4, StartLoopOK
  <2>. QED
    BY <1>0, <1>1, <2>1, <2>2, <2>5 DEF DispatchStep, TopStep
<1>5. ASSUME SkipNext PROVE DispatchStep
  <2> DEFINE r == StartPost(Top)
  <2>1. /\ stack' = SetTop(r) /\ active' = active
        /\ Top.phase = "pre" /\ Top.state = HC_SUPERCEDE
    BY <1>5 DEF SkipNext
  <2>2. /\ r.save = Top.save /\ r.modified = Top.modified /\ r.phase = "post"
        /\ r.state = Top.state /\ r.heard = Top.heard /\ r.called = Top.called
    BY <1>1 DEF StartPost, StartLoop, Frame
  <2>3. DecisionOK(r)
    BY <1>1, <2>1, <2>2 DEF DecisionOK, Heard, Foreign
  <2>4. hooks[Top.msg]["post"] \in Seq(Addr)
    BY <1>1, ListOfMessage DEF List, IInv
  <2>5. FrameOK(r, hooks)
    BY <1>0, <1>1, <2>3, <2>4, StartLoopOK DEF StartPost
  <2>. QED
    BY <1>0, <1>1, <2>1, <2>2, <2>5 DEF DispatchStep, TopStep, List
<1>6. ASSUME DispatchReturns PROVE DispatchStep
  BY <1>0, <1>1, <1>6 DEF DispatchReturns, Leave, DispatchStep, PopStep
<1>. QED
  BY <1>2, <1>3, <1>4, <1>5, <1>6

LEMMA ReturnSteps ==
    ASSUME IInv, Returns
    PROVE  DispatchStep
<1> DEFINE n == Len(stack)
<1>0. stack # <<>> /\ UNCHANGED registry
  BY DEF Returns, PreReturnsBreak, PreReturns, PostReturns, NextReturns, PluginReturns,
         InPlugin, registry
<1>1. /\ FrameOK(Top, hooks) /\ Top \in Frame /\ DecisionOK(Top) /\ LoopOK(Top, hooks)
      /\ Top.phase \in List => active = n
  BY <1>0, TopOK DEF IInv, FrameOK
<1>2. ASSUME PreReturnsBreak PROVE DispatchStep
  BY <1>0, <1>2 DEF PreReturnsBreak, Leave, DispatchStep, PopStep, Foreign
<1>3. ASSUME NEW ret \in HookChainState, PreReturns(ret) PROVE DispatchStep
  <2> DEFINE r == [Returned(Top) EXCEPT
                     !.state = Greatest(@, ret),
                     !.heard = @ \cup ({ret} \cap {HC_SUPERCEDE, HC_BYPASS})]
  <2>1. /\ Top.phase = "pre" /\ Top.running /\ Top.rest # <<>> /\ ret # HC_BREAK
        /\ stack' = SetTop(Advance(r)) /\ active' = active
    BY <1>1, <1>3 DEF PreReturns, InPlugin, LoopOK, List
  <2>2. Head(Top.rest) \in Addr
    BY <1>1, <2>1, FrameFields, HeadTailProperties
  <2>3. /\ r \in Frame /\ ~r.running /\ r.phase = Top.phase /\ r.msg = Top.msg
        /\ r.pos = Top.pos /\ r.rest = Top.rest /\ r.shifted = Top.shifted
        /\ r.save = Top.save /\ r.modified = Top.modified /\ r.called = Top.called
        /\ r.state = Greatest(Top.state, ret)
        /\ r.heard = Top.heard \cup ({ret} \cap {HC_SUPERCEDE, HC_BYPASS})
        /\ ~Top.shifted => r.ran = Top.ran \cup {Head(Top.rest)}
    <3>1. Greatest(Top.state, ret) \in HookChainState
      BY <1>1, FrameFields DEF Greatest
    <3>. QED
      BY <1>1, <2>2, <3>1 DEF Returned, Frame
  <2>. HIDE DEF r
  <2>4. Top.state \in HookChainState /\ ~r.called /\ Heard(Top)
    BY <1>1, <2>1, <2>3, FrameFields DEF DecisionOK, Foreign
  <2>5. Heard(r)
    <3>1. Top.state \in {0, 1, 3} /\ Heard(Top)
      BY <2>4 DEF Heard, HookChainState, HC_CONTINUE, HC_BREAK, HC_BYPASS
    <3>2. ret \in {0, 1, 3}
      BY <2>1 DEF HookChainState, HC_CONTINUE, HC_BREAK, HC_BYPASS
    <3>3. /\ ret = 0 => r.heard = Top.heard
          /\ ret # 0 => r.heard = Top.heard \cup {ret}
      <4>1. ret = 0 => {ret} \cap {1, 3} = {}
        OBVIOUS
      <4>2. ret = 1 \/ ret = 3 => {ret} \cap {1, 3} = {ret}
        OBVIOUS
      <4>. QED
        BY <2>3, <3>2, <4>1, <4>2 DEF HC_SUPERCEDE, HC_BYPASS
    <3>4. /\ ret = 0 => r.state = Top.state
          /\ ret = 1 => r.state = IF Top.state = 0 THEN 1 ELSE Top.state
          /\ ret = 3 => r.state = 3
      BY <2>3, <3>1, <3>2 DEF Greatest
    <3>. QED
      BY <3>1, <3>2, <3>3, <3>4 DEF Heard, HC_CONTINUE, HC_SUPERCEDE, HC_BREAK, HC_BYPASS
  <2>6. DecisionOK(r)
    BY <2>1, <2>3, <2>4, <2>5 DEF DecisionOK
  <2>7. FrameOK(Advance(r), hooks)
    BY <1>1, <2>1, <2>3, <2>6, AdvanceOK DEF List
  <2>8. /\ Advance(r).save = Top.save /\ Advance(r).modified = Top.modified
        /\ Advance(r).phase = "pre"
    BY <2>1, <2>3 DEF Advance, Frame
  <2>. QED
    BY <1>0, <1>1, <2>1, <2>7, <2>8 DEF DispatchStep, TopStep, List, Foreign
<1>4. ASSUME NEW ret \in HookChainState, PostReturns(ret) PROVE DispatchStep
  <2> DEFINE q == Returned(Top)
             r == IF ret = HC_BREAK THEN Break(q) ELSE Advance(q)
  <2>1. /\ Top.phase = "post" /\ Top.running /\ Top.rest # <<>>
        /\ stack' = SetTop(r) /\ active' = active
    BY <1>1, <1>4 DEF PostReturns, InPlugin, LoopOK, List
  <2>2. Head(Top.rest) \in Addr
    BY <1>1, <2>1, FrameFields, HeadTailProperties
  <2>3. /\ q \in Frame /\ ~q.running /\ q.phase = Top.phase /\ q.msg = Top.msg
        /\ q.pos = Top.pos /\ q.rest = Top.rest /\ q.shifted = Top.shifted
        /\ q.save = Top.save /\ q.modified = Top.modified /\ SameDecision(q, Top)
        /\ ~Top.shifted => q.ran = Top.ran \cup {Head(Top.rest)}
    BY <1>1, <2>2 DEF Returned, Frame, SameDecision
  <2>. HIDE DEF q
  <2>4. DecisionOK(q)
    BY <1>1, <2>3, DecisionOfSame
  <2>5. FrameOK(Advance(q), hooks)
    BY <1>1, <2>1, <2>3, <2>4, AdvanceOK DEF List
  <2>6. FrameOK(Break(q), hooks)
    <3>1. Break(q) \in Frame /\ SameDecision(Break(q), q) /\ Break(q).msg = q.msg
          /\ Break(q).pos = q.pos /\ Break(q).rest = <<>> /\ ~Break(q).running
      <4>1. <<>> \in Seq(Addr) /\ Break(q) = [q EXCEPT !.rest = <<>>]
        BY DEF Break
      <4>. QED
        BY <2>3, <4>1 DEF Frame, SameDecision
    <3>2. LoopOK(Break(q), hooks)
      BY <1>1, <2>1, <2>3, <3>1 DEF LoopOK, Foreign
    <3>. QED
      BY <2>4, <3>1, <3>2, DecisionOfSame DEF FrameOK
  <2>7. r.save = Top.save /\ r.modified = Top.modified /\ r.phase = "post"
    BY <2>1, <2>3 DEF Break, Advance, Frame
  <2>. QED
    BY <1>0, <1>1, <2>1, <2>5, <2>6, <2>7 DEF DispatchStep, TopStep, List, Foreign
<1>5. ASSUME NextReturns PROVE DispatchStep
  <2> DEFINE q == [Top EXCEPT !.called = TRUE]
             r == StartPost(q)
  <2>1. stack' = SetTop(r) /\ active' = n /\ Top.phase = "orig"
    BY <1>5 DEF NextReturns
  <2>2. /\ q \in Frame /\ q.called /\ q.phase = "orig" /\ q.msg = Top.msg
        /\ q.state = Top.state /\ q.heard = Top.heard /\ q.save = Top.save
        /\ q.modified = Top.modified /\ q.running = Top.running /\ q.pos = Top.pos
    BY <1>1, <2>1 DEF Frame
  <2>. HIDE DEF q
  <2>3. ~q.running /\ ~Foreign(q) /\ ~Foreign(Top) /\ q.msg \in Msg
    BY <1>1, <2>1, <2>2 DEF LoopOK, Foreign
  <2>4. FrameOK(q, hooks)
    BY <1>1, <2>1, <2>2, <2>3 DEF FrameOK, LoopOK, DecisionOK, Heard, Foreign, List
  <2>5. /\ r.phase = "post" /\ r.save = Top.save /\ r.modified = Top.modified
        /\ r.state = Top.state /\ r.heard = Top.heard /\ r.called
    BY <2>2 DEF StartPost, StartLoop, Frame
  <2>6. DecisionOK(r)
    BY <1>1, <2>1, <2>3, <2>5 DEF DecisionOK, Heard
  <2>7. hooks[q.msg]["post"] \in Seq(Addr)
    BY <2>3, ListOfMessage DEF List, IInv
  <2>8. FrameOK(r, hooks)
    BY <2>3, <2>4, <2>6, <2>7, StartLoopOK DEF StartPost
  <2>. QED
    BY <1>0, <2>1, <2>3, <2>5, <2>8 DEF DispatchStep, TopStep, List
<1>6. ASSUME PluginReturns PROVE DispatchStep
  BY <1>0, <1>6 DEF PluginReturns, DispatchStep, PopStep, Foreign
<1>. QED
  BY <1>2, <1>3, <1>4, <1>5, <1>6 DEF Returns

LEMMA CallSteps ==
    ASSUME IInv, PluginCall \/ \E m \in Msg : Dispatch(m)
    PROVE  DispatchStep
<1>1. active \in Nat /\ RegistryInv
  BY ActiveType DEF IInv
<1>2. CASE PluginCall
  BY <1>1, <1>2, ForeignCallOK DEF PluginCall, DispatchStep, PushStep, registry
<1>3. CASE \E m \in Msg : Dispatch(m)
  <2>1. PICK m \in Msg : Dispatch(m)
    BY <1>3
  <2>. QED
    BY <1>1, <2>1, NewDispatchOK DEF Dispatch, DispatchStep, PushStep, List
<1>. QED
  BY <1>2, <1>3

-----------------------------------------------------------------------------
(* What a native does to the registry and to the loops in progress *)

LEMMA AddFacts ==
    ASSUME NEW s \in Seq(Addr), NEW a \in Addr
    PROVE  /\ Add(s, a) \in Seq(Addr) /\ Len(Add(s, a)) = Len(s) + 1
           /\ DOMAIN Add(s, a) = 1 .. (Len(s) + 1) /\ Len(s) \in Nat
           /\ DOMAIN s = 1 .. Len(s)
           /\ \A i \in 1 .. Len(s) : Add(s, a)[i] = s[i]
           /\ Add(s, a)[Len(s) + 1] = a
BY DEF Add

LEMMA RestLength ==
    ASSUME NEW n \in Nat, NEW i \in 1 .. n
    PROVE  (IF i + 1 <= n THEN n - (i + 1) + 1 ELSE 0) = n - i
OBVIOUS

LEMMA EraseFacts ==
    ASSUME NEW s \in Seq(Addr), NEW i \in 1 .. Len(s)
    PROVE  /\ Erase(s, i) \in Seq(Addr) /\ Len(Erase(s, i)) = Len(s) - 1
           /\ DOMAIN Erase(s, i) = 1 .. (Len(s) - 1) /\ Len(s) \in Nat
           /\ DOMAIN s = 1 .. Len(s)
           /\ \A j \in 1 .. (Len(s) - 1) :
                 Erase(s, i)[j] = IF j < i THEN s[j] ELSE s[j + 1]
<1> DEFINE p == SubSeq(s, 1, i - 1)
           q == SubSeq(s, i + 1, Len(s))
           e == Erase(s, i)
<1>0. Len(s) \in Nat /\ DOMAIN s = 1 .. Len(s) /\ \A j \in 1 .. Len(s) : s[j] \in Addr
  OBVIOUS
<1>1. /\ p \in Seq(Addr) /\ Len(p) = i - 1
      /\ \A j \in 1 .. (i - 1) : p[j] = s[j]
  <2>1. \A j \in 1 .. (i - 1) : s[j] \in Addr
    BY <1>0
  <2>. QED
    BY <1>0, <2>1, SubSeqProperties
<1>2. /\ q \in Seq(Addr) /\ Len(q) = Len(s) - i
      /\ \A j \in 1 .. (Len(s) - i) : q[j] = s[i + j]
  <2>1. \A j \in (i + 1) .. Len(s) : s[j] \in Addr
    BY <1>0
  <2>2. /\ q \in Seq(Addr)
        /\ Len(q) = IF i + 1 <= Len(s) THEN Len(s) - (i + 1) + 1 ELSE 0
        /\ \A j \in 1 .. Len(s) - (i + 1) + 1 : q[j] = s[(i + 1) + j - 1]
    BY <1>0, <2>1, SubSeqProperties
  <2>3. \A j \in 1 .. (Len(s) - i) : (i + 1) + j - 1 = i + j
                                     /\ j \in 1 .. Len(s) - (i + 1) + 1
    BY <1>0
  <2>. HIDE DEF q
  <2>4. Len(q) = Len(s) - i
    <3>1. Len(s) \in Nat
      BY <1>0
    <3>. QED
      BY <2>2, <3>1, RestLength
  <2>5. ASSUME NEW j \in 1 .. (Len(s) - i) PROVE q[j] = s[i + j]
    <3>1. q[j] = s[(i + 1) + j - 1]
      BY <2>2, <2>3
    <3>. QED
      BY <2>3, <3>1
  <2>. QED
    BY <2>2, <2>4, <2>5
<1>. HIDE DEF p, q
<1>3. e = p \o q
  BY DEF Erase, p, q
<1>4. /\ e \in Seq(Addr) /\ Len(e) = Len(s) - 1
      /\ \A j \in 1 .. (Len(s) - 1) : e[j] = IF j <= i - 1 THEN p[j] ELSE q[j - (i - 1)]
  <2>. HIDE DEF e
  <2>1. /\ e \in Seq(Addr) /\ Len(e) = Len(p) + Len(q)
        /\ \A j \in 1 .. Len(p) + Len(q) : e[j] = IF j <= Len(p) THEN p[j] ELSE q[j - Len(p)]
    BY <1>1, <1>2, <1>3, ConcatProperties
  <2>2. Len(p) = i - 1 /\ Len(p) + Len(q) = Len(s) - 1
    BY <1>0, <1>1, <1>2
  <2>. QED
    BY <2>1, <2>2
<1>. HIDE DEF e
<1>5. ASSUME NEW j \in 1 .. (Len(s) - 1)
      PROVE  e[j] = IF j < i THEN s[j] ELSE s[j + 1]
  <2>1. CASE j < i
    <3>1. j <= i - 1 /\ j \in 1 .. (i - 1)
      BY <1>0, <2>1
    <3>2. e[j] = p[j]
      BY <1>4, <3>1
    <3>. QED
      BY <1>1, <2>1, <3>1, <3>2
  <2>2. CASE ~(j < i)
    <3>1. j - (i - 1) \in 1 .. (Len(s) - i) /\ i + (j - (i - 1)) = j + 1
      BY <1>0, <2>2
    <3>2. e[j] = q[j - (i - 1)]
      BY <1>0, <1>4, <2>2
    <3>. QED
      BY <1>2, <2>2, <3>1, <3>2
  <2>. QED
    BY <2>1, <2>2
<1>. QED
  BY <1>0, <1>4, <1>5 DEF e

LEMMA RereadFacts ==
    ASSUME NEW r \in Frame, r.pos >= 1, NEW v \in Seq(Addr)
    PROVE  /\ Reread(r, v) \in Seq(Addr) /\ Len(Reread(r, v)) = Len(r.rest)
           /\ r.rest # <<>> => Reread(r, v) # <<>>
           /\ DOMAIN r.rest = DOMAIN Reread(r, v)
           /\ \A j \in DOMAIN r.rest :
                 Reread(r, v)[j] = IF r.pos + j - 1 <= Len(v) THEN v[r.pos + j - 1]
                                                              ELSE r.rest[j]
<1> DEFINE e == Reread(r, v)
<1>1. r.rest \in Seq(Addr) /\ r.pos \in Nat /\ DOMAIN r.rest = 1 .. Len(r.rest)
      /\ Len(r.rest) \in Nat
  BY FrameFields
<1>2. e = [j \in 1 .. Len(r.rest) |-> IF r.pos + j - 1 <= Len(v) THEN v[r.pos + j - 1]
                                                              ELSE r.rest[j]]
  BY <1>1 DEF Reread
<1>3. \A j \in 1 .. Len(r.rest) : e[j] \in Addr
  <2> SUFFICES ASSUME NEW j \in 1 .. Len(r.rest) PROVE e[j] \in Addr
    OBVIOUS
  <2>1. r.pos + j - 1 <= Len(v) => r.pos + j - 1 \in DOMAIN v
    BY <1>1
  <2>. QED
    BY <1>1, <1>2, <2>1
<1>. HIDE DEF e
<1>4. e \in [1 .. Len(r.rest) -> Addr]
  BY <1>2, <1>3
<1>5. e \in Seq(Addr) /\ Len(e) = Len(r.rest)
  BY <1>1, <1>4
<1>. QED
  BY <1>1, <1>2, <1>5 DEF e

\* A list never holds more hooks than there are.
LEMMA ListFits ==
    ASSUME NEW h, NEW o, NEW f, NEW n, RegistryOK(h, o, f, n),
           NEW m \in Msg, NEW l \in List, NEW a \in Addr, o[a] = "FREE"
    PROVE  Len(h[m][l]) + 1 \in 1 .. Cardinality(Addr)
<1> DEFINE s == h[m][l]
           d == 1 .. Len(s)
           S == Addr \ {a}
<1>1. s \in Seq(Addr)
  BY DEF RegistryOK, TypesOK
<1>. HIDE DEF s
<1>2. Len(s) \in Nat /\ DOMAIN s = d /\ s \in [d -> Addr]
  BY <1>1
<1>3. /\ \A i \in d : s[i] # a
      /\ \A i, j \in d : s[i] = s[j] => i = j
  BY <1>2 DEF RegistryOK, ListsOK, s
<1>4. s \in Injection(d, S)
  BY <1>2, <1>3 DEF Injection, IsInjective
<1>5. IsFiniteSet(S) /\ Cardinality(S) = Cardinality(Addr) - 1
      /\ Cardinality(Addr) \in Nat
  BY MessageAssumption, FS_RemoveElement, FS_CardinalityType
<1>6. Cardinality(d) <= Cardinality(S)
  BY <1>4, <1>5, FS_Injection
<1>7. Cardinality(d) = Len(s)
  <2>. HIDE DEF d
  <2>1. Len(s) \in Int /\ Len(s) >= 0 /\ 1 \in Int
    BY <1>2
  <2>2. Cardinality(1 .. Len(s)) = IF 1 > Len(s) THEN 0 ELSE Len(s) - 1 + 1
    BY <2>1, FS_Interval
  <2>. QED
    BY <2>1, <2>2 DEF d
<1>. QED
  BY <1>2, <1>5, <1>6, <1>7 DEF s

LEMMA AddKeepsRegistry ==
    ASSUME NEW h, NEW o, NEW f, NEW n, RegistryOK(h, o, f, n),
           NEW m \in Msg, NEW l \in List, NEW a \in Addr, o[a] = "FREE",
           NEW x \in [Msg -> Nat], \A k \in Msg : x[k] >= n[k], x[m] > 0
    PROVE  RegistryOK([h EXCEPT ![m][l] = Add(h[m][l], a)],
                      [o EXCEPT ![a] = "ENABLED"],
                      [f EXCEPT ![a] = H!Encode(m, Len(h[m][l]) + 1, l = "post")], x)
<1> DEFINE s == h[m][l]
           v == Add(s, a)
           g == [h EXCEPT ![m][l] = v]
           p == [o EXCEPT ![a] = "ENABLED"]
           e == [f EXCEPT ![a] = H!Encode(m, Len(s) + 1, l = "post")]
<1>1. /\ h \in [Msg -> [List -> Seq(Addr)]]
      /\ o \in [Addr -> {"FREE", "ENABLED", "STOPPED"}]
      /\ f \in [Addr -> Int] /\ n \in [Msg -> Nat]
      /\ ListsOK(h, o) /\ HandlesOK(h, f) /\ CountsOK(h, n)
  BY DEF RegistryOK, TypesOK
<1>2. s \in Seq(Addr)
  BY <1>1
<1>. HIDE DEF s
<1>3. /\ v \in Seq(Addr) /\ Len(v) = Len(s) + 1 /\ DOMAIN v = 1 .. (Len(s) + 1)
      /\ Len(s) \in Nat /\ DOMAIN s = 1 .. Len(s)
      /\ \A i \in 1 .. Len(s) : v[i] = s[i]
      /\ v[Len(s) + 1] = a
  BY <1>2, AddFacts
<1>. HIDE DEF v
<1>4. /\ g \in [Msg -> [List -> Seq(Addr)]]
      /\ \A k \in Msg, j \in List :
            g[k][j] = IF k = m /\ j = l THEN v ELSE h[k][j]
  BY <1>1, <1>3
<1>. HIDE DEF g
<1>5. /\ p \in [Addr -> {"FREE", "ENABLED", "STOPPED"}]
      /\ p[a] = "ENABLED" /\ \A b \in Addr : b # a => p[b] = o[b]
  BY <1>1
<1>. HIDE DEF p
<1>6. Len(s) + 1 \in 1 .. Cardinality(Addr)
  BY ListFits DEF s
<1>7. H!Encode(m, Len(s) + 1, l = "post") \in Int
  BY <1>3, MessageAssumption DEF H!Encode
<1>8. /\ e \in [Addr -> Int]
      /\ e[a] = H!Encode(m, Len(s) + 1, l = "post")
      /\ \A b \in Addr : b # a => e[b] = f[b]
  BY <1>1, <1>7
<1>. HIDE DEF e
\* Every place of the new lists is the new hook's or a place of the old ones.
<1>9. ASSUME NEW k \in Msg, NEW j \in List, NEW i \in DOMAIN g[k][j]
      PROVE  \/ k = m /\ j = l /\ i = Len(s) + 1 /\ g[k][j][i] = a
             \/ /\ i \in DOMAIN h[k][j] /\ g[k][j][i] = h[k][j][i]
                /\ g[k][j][i] \in Addr /\ g[k][j][i] # a
  <2>1. CASE k = m /\ j = l
    <3>1. i \in 1 .. (Len(s) + 1) /\ g[k][j] = v
      BY <1>3, <1>4, <2>1
    <3>2. CASE i = Len(s) + 1
      BY <1>3, <2>1, <3>1, <3>2
    <3>3. CASE i \in 1 .. Len(s)
      <4>1. i \in DOMAIN h[k][j] /\ g[k][j][i] = h[k][j][i] /\ h[k][j][i] \in Addr
        BY <1>2, <1>3, <2>1, <3>1, <3>3 DEF s
      <4>2. h[k][j][i] # a
        BY <1>1, <4>1 DEF ListsOK
      <4>. QED
        BY <4>1, <4>2
    <3>. QED
      BY <1>3, <3>1, <3>2, <3>3
  <2>2. CASE ~(k = m /\ j = l)
    <3>1. g[k][j] = h[k][j] /\ h[k][j] \in Seq(Addr)
      BY <1>1, <1>4, <2>2
    <3>2. i \in DOMAIN h[k][j] /\ h[k][j][i] \in Addr
      BY <3>1
    <3>3. h[k][j][i] # a
      BY <1>1, <3>2 DEF ListsOK
    <3>. QED
      BY <3>1, <3>2, <3>3
  <2>. QED
    BY <2>1, <2>2
\* Every place of the old lists is one of the new ones.
<1>10. ASSUME NEW k \in Msg, NEW j \in List, NEW i \in DOMAIN h[k][j]
       PROVE  i \in DOMAIN g[k][j] /\ g[k][j][i] = h[k][j][i]
  <2>1. CASE k = m /\ j = l
    <3>1. h[m][l] = s
      BY DEF s
    <3>2. i \in 1 .. Len(s) /\ i \in 1 .. (Len(s) + 1)
      BY <1>3, <2>1, <3>1
    <3>. QED
      BY <1>3, <1>4, <2>1, <3>1, <3>2
  <2>2. CASE ~(k = m /\ j = l)
    BY <1>4, <2>2
  <2>. QED
    BY <2>1, <2>2
<1>11. Len(s) + 1 \in DOMAIN g[m][l] /\ g[m][l][Len(s) + 1] = a
  BY <1>3, <1>4
<1>12. \A k, c \in Msg, j, b \in List : \A i \in DOMAIN h[k][j], q \in DOMAIN h[c][b] :
          h[k][j][i] = h[c][b][q] => k = c /\ j = b /\ i = q
  BY <1>1 DEF ListsOK
<1>13. ListsOK(g, p)
  <2>1. ASSUME NEW b \in Addr
        PROVE  p[b] # "FREE" <=>
                 \E k \in Msg, j \in List : \E i \in DOMAIN g[k][j] : g[k][j][i] = b
    <3>1. CASE b = a
      BY <1>5, <1>11, <3>1
    <3>2. CASE b # a
      <4>1. o[b] # "FREE" <=>
              \E k \in Msg, j \in List : \E i \in DOMAIN h[k][j] : h[k][j][i] = b
        BY <1>1 DEF ListsOK
      <4>2. (\E k \in Msg, j \in List : \E i \in DOMAIN h[k][j] : h[k][j][i] = b)
            <=> \E k \in Msg, j \in List : \E i \in DOMAIN g[k][j] : g[k][j][i] = b
        BY <1>9, <1>10, <3>2
      <4>. QED
        BY <1>5, <3>2, <4>1, <4>2
    <3>. QED
      BY <3>1, <3>2
  <2>2. ASSUME NEW k \in Msg, NEW c \in Msg, NEW j \in List, NEW b \in List,
               NEW i \in DOMAIN g[k][j], NEW q \in DOMAIN g[c][b],
               g[k][j][i] = g[c][b][q]
        PROVE  k = c /\ j = b /\ i = q
    <3>1. \/ k = m /\ j = l /\ i = Len(s) + 1 /\ g[k][j][i] = a
          \/ i \in DOMAIN h[k][j] /\ g[k][j][i] = h[k][j][i] /\ g[k][j][i] # a
      BY <1>9
    <3>2. \/ c = m /\ b = l /\ q = Len(s) + 1 /\ g[c][b][q] = a
          \/ q \in DOMAIN h[c][b] /\ g[c][b][q] = h[c][b][q] /\ g[c][b][q] # a
      BY <1>9
    <3>. QED
      BY <1>12, <2>2, <3>1, <3>2
  <2>. QED
    BY <2>1, <2>2 DEF ListsOK
<1>14. HandlesOK(g, e)
  <2> SUFFICES ASSUME NEW k \in Msg, NEW j \in List, NEW i \in DOMAIN g[k][j]
               PROVE  \E c \in i .. Cardinality(Addr) :
                         e[g[k][j][i]] = H!Encode(k, c, j = "post")
    BY DEF HandlesOK
  <2>1. CASE k = m /\ j = l /\ i = Len(s) + 1 /\ g[k][j][i] = a
    BY <1>6, <1>8, <2>1
  <2>2. CASE /\ i \in DOMAIN h[k][j] /\ g[k][j][i] = h[k][j][i]
             /\ g[k][j][i] \in Addr /\ g[k][j][i] # a
    BY <1>1, <1>8, <2>2 DEF HandlesOK
  <2>. QED
    BY <1>9, <2>1, <2>2
<1>15. CountsOK(g, x)
  <2> SUFFICES ASSUME NEW k \in Msg, k # m, h[k]["pre"] # <<>> \/ h[k]["post"] # <<>>
               PROVE  x[k] > 0
    BY <1>4 DEF CountsOK, List
  <2>1. n[k] \in Nat /\ x[k] \in Nat /\ n[k] > 0
    BY <1>1 DEF CountsOK
  <2>. QED
    BY <2>1
<1>. QED
  BY <1>4, <1>5, <1>8, <1>13, <1>14, <1>15 DEF RegistryOK, TypesOK, g, p, e, v, s

LEMMA RemoveKeepsRegistry ==
    ASSUME NEW h, NEW o, NEW f, NEW n, RegistryOK(h, o, f, n),
           NEW m \in Msg, NEW l \in List, NEW d \in DOMAIN h[m][l]
    PROVE  RegistryOK([h EXCEPT ![m][l] = Erase(h[m][l], d)],
                      [o EXCEPT ![h[m][l][d]] = "FREE"],
                      [f EXCEPT ![h[m][l][d]] = H!InvalidHandle], n)
<1> DEFINE s == h[m][l]
           a == s[d]
           v == Erase(s, d)
           g == [h EXCEPT ![m][l] = v]
           p == [o EXCEPT ![a] = "FREE"]
           e == [f EXCEPT ![a] = H!InvalidHandle]
<1>1. /\ h \in [Msg -> [List -> Seq(Addr)]]
      /\ o \in [Addr -> {"FREE", "ENABLED", "STOPPED"}]
      /\ f \in [Addr -> Int] /\ n \in [Msg -> Nat]
      /\ ListsOK(h, o) /\ HandlesOK(h, f) /\ CountsOK(h, n)
  BY DEF RegistryOK, TypesOK
<1>0. \A k, c \in Msg, j, b \in List : \A i \in DOMAIN h[k][j], q \in DOMAIN h[c][b] :
          h[k][j][i] = h[c][b][q] => k = c /\ j = b /\ i = q
  BY <1>1 DEF ListsOK
<1>2. s \in Seq(Addr) /\ d \in 1 .. Len(s) /\ a \in Addr
  <2>1. s \in Seq(Addr)
    BY <1>1
  <2>. QED
    BY <2>1
<1>. HIDE DEF s, a
<1>3. /\ v \in Seq(Addr) /\ Len(v) = Len(s) - 1 /\ DOMAIN v = 1 .. (Len(s) - 1)
      /\ Len(s) \in Nat /\ DOMAIN s = 1 .. Len(s)
      /\ \A j \in 1 .. (Len(s) - 1) : v[j] = IF j < d THEN s[j] ELSE s[j + 1]
  BY <1>2, EraseFacts
<1>. HIDE DEF v
<1>4. /\ g \in [Msg -> [List -> Seq(Addr)]]
      /\ \A k \in Msg, j \in List :
            g[k][j] = IF k = m /\ j = l THEN v ELSE h[k][j]
  BY <1>1, <1>3
<1>. HIDE DEF g
<1>5. /\ p \in [Addr -> {"FREE", "ENABLED", "STOPPED"}]
      /\ p[a] = "FREE" /\ \A b \in Addr : b # a => p[b] = o[b]
  BY <1>1, <1>2
<1>. HIDE DEF p
<1>6. e \in [Addr -> Int] /\ \A b \in Addr : b # a => e[b] = f[b]
  <2>1. H!InvalidHandle \in Int
    BY DEF H!InvalidHandle
  <2>. QED
    BY <1>1, <1>2, <2>1
<1>. HIDE DEF e
<1>7. s[d] = a /\ h[m][l] = s
  BY DEF a, s
\* Every place of the new lists is a place of the old ones, there or one behind.
<1>8. ASSUME NEW k \in Msg, NEW j \in List, NEW i \in DOMAIN g[k][j]
      PROVE  \E c \in {i, i + 1} :
               /\ c \in DOMAIN h[k][j] /\ g[k][j][i] = h[k][j][c]
               /\ g[k][j][i] \in Addr /\ g[k][j][i] # a
               /\ i \in Nat
               /\ k = m /\ j = l => c = IF i < d THEN i ELSE i + 1
               /\ ~(k = m /\ j = l) => c = i
  <2>1. CASE k = m /\ j = l
    <3> DEFINE c == IF i < d THEN i ELSE i + 1
    <3>1. i \in 1 .. (Len(s) - 1) /\ g[k][j] = v
      BY <1>3, <1>4, <2>1
    <3>2. c \in 1 .. Len(s) /\ c # d /\ v[i] = s[c] /\ c \in {i, i + 1}
      BY <1>2, <1>3, <3>1
    <3>3. s[c] \in Addr
      BY <1>2, <3>2
    <3>. HIDE DEF c
    <3>4. s[c] # a
      <4>1. c \in DOMAIN h[m][l] /\ d \in DOMAIN h[m][l] /\ c # d
        BY <1>3, <1>7, <3>2
      <4>. QED
        BY <1>0, <1>7, <4>1
    <3>5. c \in DOMAIN h[k][j] /\ g[k][j][i] = h[k][j][c]
      BY <1>3, <1>7, <2>1, <3>1, <3>2
    <3>. QED
      BY <1>7, <2>1, <3>1, <3>2, <3>3, <3>4, <3>5 DEF c
  <2>2. CASE ~(k = m /\ j = l)
    <3>1. g[k][j] = h[k][j] /\ h[k][j] \in Seq(Addr)
      BY <1>1, <1>4, <2>2
    <3>2. i \in DOMAIN h[k][j] /\ h[k][j][i] \in Addr /\ i \in Nat
      BY <3>1
    <3>3. h[k][j][i] # h[m][l][d]
      BY <1>0, <2>2, <3>2
    <3>. QED
      BY <1>7, <2>2, <3>1, <3>2, <3>3
  <2>. QED
    BY <2>1, <2>2
\* Every other place of the old lists is one of the new ones.
<1>9. ASSUME NEW k \in Msg, NEW j \in List, NEW i \in DOMAIN h[k][j], h[k][j][i] # a
      PROVE  \E c \in DOMAIN g[k][j] : g[k][j][c] = h[k][j][i]
  <2>1. CASE k = m /\ j = l
    <3> DEFINE c == IF i < d THEN i ELSE i - 1
    <3>1. i \in 1 .. Len(s) /\ i # d /\ g[k][j] = v
      BY <1>3, <1>4, <1>7, <1>9, <2>1
    <3>2. c \in 1 .. (Len(s) - 1) /\ (c < d => c = i) /\ (~(c < d) => c + 1 = i)
      BY <1>2, <1>3, <3>1
    <3>. HIDE DEF c
    <3>3. v[c] = s[i]
      BY <1>3, <3>2
    <3>. QED
      BY <1>3, <1>7, <2>1, <3>1, <3>2, <3>3
  <2>2. CASE ~(k = m /\ j = l)
    BY <1>4, <2>2
  <2>. QED
    BY <2>1, <2>2
<1>10. ListsOK(g, p)
  <2>1. ASSUME NEW b \in Addr
        PROVE  p[b] # "FREE" <=>
                 \E k \in Msg, j \in List : \E i \in DOMAIN g[k][j] : g[k][j][i] = b
    <3>1. CASE b = a
      BY <1>5, <1>8, <3>1
    <3>2. CASE b # a
      <4>1. o[b] # "FREE" <=>
              \E k \in Msg, j \in List : \E i \in DOMAIN h[k][j] : h[k][j][i] = b
        BY <1>1 DEF ListsOK
      <4>2. (\E k \in Msg, j \in List : \E i \in DOMAIN h[k][j] : h[k][j][i] = b)
            <=> \E k \in Msg, j \in List : \E i \in DOMAIN g[k][j] : g[k][j][i] = b
        BY <1>8, <1>9, <3>2
      <4>. QED
        BY <1>5, <3>2, <4>1, <4>2
    <3>. QED
      BY <3>1, <3>2
  <2>2. ASSUME NEW k \in Msg, NEW c \in Msg, NEW j \in List, NEW b \in List,
               NEW i \in DOMAIN g[k][j], NEW q \in DOMAIN g[c][b],
               g[k][j][i] = g[c][b][q]
        PROVE  k = c /\ j = b /\ i = q
    <3>1. PICK x \in {i, i + 1} :
               /\ x \in DOMAIN h[k][j] /\ g[k][j][i] = h[k][j][x] /\ i \in Nat
               /\ k = m /\ j = l => x = IF i < d THEN i ELSE i + 1
               /\ ~(k = m /\ j = l) => x = i
      BY <1>8
    <3>2. PICK y \in {q, q + 1} :
               /\ y \in DOMAIN h[c][b] /\ g[c][b][q] = h[c][b][y] /\ q \in Nat
               /\ c = m /\ b = l => y = IF q < d THEN q ELSE q + 1
               /\ ~(c = m /\ b = l) => y = q
      BY <1>8
    <3>3. k = c /\ j = b /\ x = y
      <4>1. /\ h[k][j][x] = h[c][b][y]
            /\ x \in DOMAIN h[k][j] /\ y \in DOMAIN h[c][b]
        BY <2>2, <3>1, <3>2
      <4>. HIDE <1>8, <1>9
      <4>. QED
        BY <1>0, <4>1
    <3>4. CASE k = m /\ j = l
      <4>1. x = (IF i < d THEN i ELSE i + 1) /\ x = IF q < d THEN q ELSE q + 1
        BY <3>1, <3>2, <3>3, <3>4
      <4>. QED
        BY <1>2, <3>1, <3>2, <3>3, <4>1
    <3>5. CASE ~(k = m /\ j = l)
      BY <3>1, <3>2, <3>3, <3>5
    <3>. QED
      BY <3>4, <3>5
  <2>. QED
    BY <2>1, <2>2 DEF ListsOK
<1>11. HandlesOK(g, e)
  <2> SUFFICES ASSUME NEW k \in Msg, NEW j \in List, NEW i \in DOMAIN g[k][j]
               PROVE  \E c \in i .. Cardinality(Addr) :
                         e[g[k][j][i]] = H!Encode(k, c, j = "post")
    BY DEF HandlesOK
  <2>1. PICK x \in {i, i + 1} :
             /\ x \in DOMAIN h[k][j] /\ g[k][j][i] = h[k][j][x] /\ i \in Nat
             /\ g[k][j][i] \in Addr /\ g[k][j][i] # a
    BY <1>8
  <2>2. PICK c \in x .. Cardinality(Addr) : f[h[k][j][x]] = H!Encode(k, c, j = "post")
    BY <1>1, <2>1 DEF HandlesOK
  <2>3. c \in i .. Cardinality(Addr)
    BY <2>1, <2>2
  <2>. QED
    BY <1>6, <2>1, <2>2, <2>3
<1>12. CountsOK(g, n)
  <2> SUFFICES ASSUME NEW k \in Msg, g[k]["pre"] # <<>> \/ g[k]["post"] # <<>>
               PROVE  n[k] > 0
    BY DEF CountsOK
  <2>1. h[k]["pre"] # <<>> \/ h[k]["post"] # <<>>
    BY <1>2, <1>4, <1>7 DEF List
  <2>. QED
    BY <1>1, <2>1 DEF CountsOK
<1>. QED
  BY <1>1, <1>4, <1>5, <1>6, <1>10, <1>11, <1>12 DEF RegistryOK, TypesOK, g, p, e, v, s, a

\* What a change of the registry and of the memory a loop reads keeps.
LEMMA FrameKept ==
    ASSUME NEW h, NEW g, NEW r, FrameOK(r, h), NEW q \in Frame,
           SameDecision(q, r), q.msg = r.msg, q.pos = r.pos, q.running = r.running,
           r.rest # <<>> => q.rest # <<>>,
           q.phase \in List /\ ~q.shifted /\ q.rest # <<>> =>
              Within(q, g[q.msg][q.phase])
    PROVE  FrameOK(q, g)
BY DecisionOfSame DEF FrameOK, LoopOK, SameDecision, Foreign

\* The lists g are the lists h, but for one.
Relisted(g, h, m, l, v) == g = [h EXCEPT ![m][l] = v]

Extends(v, s) == Len(v) >= Len(s) /\ \A i \in 1 .. Len(s) : v[i] = s[i]
Extension(g, h, m, l, v) == Relisted(g, h, m, l, v) /\ Extends(v, h[m][l])

\* A hook is added behind the list of a loop, which may see it or not: frame q
\* is what becomes of r.
Grown(q, r, m, l, v) ==
    \/ q = r
    \/ q = [r EXCEPT !.stale = TRUE]
    \/ r.msg = m /\ r.phase = l /\ q = [r EXCEPT !.rest = Reread(r, v)]

LEMMA AddKeepsFrame ==
    ASSUME NEW m \in Msg, NEW l \in List, NEW v \in Seq(Addr),
           NEW h \in [Msg -> [List -> Seq(Addr)]], NEW g, Extension(g, h, m, l, v),
           NEW r, FrameOK(r, h), NEW q, Grown(q, r, m, l, v)
    PROVE  /\ FrameOK(q, g)
           /\ q.phase = r.phase /\ q.save = r.save /\ q.modified = r.modified
<1> DEFINE w == h[r.msg][r.phase]
<1>1. r \in Frame /\ LoopOK(r, h) /\ r.pos \in Nat /\ r.pos >= 1 /\ r.rest \in Seq(Addr)
  BY FrameFields DEF FrameOK, LoopOK
<1>2. h[m][l] \in Seq(Addr)
  OBVIOUS
<1>3. /\ v \in Seq(Addr) /\ Len(v) >= Len(h[m][l]) /\ Len(h[m][l]) \in Nat
      /\ Len(v) \in Nat /\ \A i \in 1 .. Len(h[m][l]) : v[i] = h[m][l][i]
  BY <1>2 DEF Extension, Extends
<1>4. \A k \in Msg, j \in List : g[k][j] = IF k = m /\ j = l THEN v ELSE h[k][j]
  BY <1>3 DEF Extension, Relisted
<1>5. /\ q \in Frame /\ SameDecision(q, r) /\ q.msg = r.msg /\ q.pos = r.pos
      /\ q.running = r.running /\ q.save = r.save /\ q.modified = r.modified
      /\ q.shifted = r.shifted /\ q.ran = r.ran
      /\ \/ q.rest = r.rest
         \/ r.msg = m /\ r.phase = l /\ q.rest = Reread(r, v)
  <2>1. Reread(r, v) \in Seq(Addr)
    BY <1>1, <1>3, RereadFacts
  <2>. QED
    BY <1>1, <2>1 DEF Frame, SameDecision, Grown
<1>6. /\ r.rest # <<>> => q.rest # <<>>
      /\ r.rest = <<>> => q.rest = <<>>
      /\ DOMAIN q.rest = DOMAIN r.rest /\ Len(q.rest) = Len(r.rest)
      /\ DOMAIN r.rest = 1 .. Len(r.rest) /\ Len(r.rest) \in Nat
  BY <1>1, <1>3, <1>5, RereadFacts
<1>7. ASSUME q.phase \in List, ~q.shifted, q.rest # <<>>
      PROVE  Within(q, g[q.msg][q.phase])
  <2>1. /\ r.phase \in List /\ r.msg \in Msg /\ Within(r, w)
        /\ q.phase = r.phase
    BY <1>1, <1>5, <1>6, <1>7 DEF LoopOK, SameDecision, Foreign, List
  <2>2. w \in Seq(Addr)
    BY <2>1
  <2>. DEFINE u == g[q.msg][q.phase]
  <2>3. /\ Len(w) \in Nat /\ Len(w) <= Len(u) /\ Len(u) \in Nat
        /\ \A i \in 1 .. Len(w) : u[i] = w[i]
    <3>1. CASE r.msg = m /\ r.phase = l
      BY <1>3, <1>4, <1>5, <2>1, <3>1
    <3>2. CASE ~(r.msg = m /\ r.phase = l)
      <4>1. u = w
        BY <1>4, <1>5, <2>1, <3>2
      <4>. HIDE DEF u, w
      <4>. QED
        BY <2>2, <4>1
    <3>. QED
      BY <3>1, <3>2
  <2>. HIDE DEF w, u
  <2>4. /\ r.pos + Len(r.rest) - 1 <= Len(w)
        /\ \A j \in DOMAIN r.rest : r.rest[j] = w[r.pos + j - 1]
        /\ \A b \in r.ran : \E k \in 1 .. (r.pos - 1) : w[k] = b
    BY <2>1 DEF Within
  <2>5. ASSUME NEW j \in DOMAIN q.rest PROVE q.rest[j] = u[r.pos + j - 1]
    <3>1. j \in 1 .. Len(r.rest) /\ r.pos + j - 1 \in 1 .. Len(w)
      BY <1>1, <1>6, <2>3, <2>4
    <3>2. r.rest[j] = u[r.pos + j - 1]
      BY <1>6, <2>3, <2>4, <3>1
    <3>3. CASE q.rest = r.rest
      BY <3>2, <3>3
    <3>4. CASE r.msg = m /\ r.phase = l /\ q.rest = Reread(r, v)
      <4>1. u = v
        BY <1>4, <1>5, <2>1, <3>4 DEF u
      <4>2. q.rest[j] = IF r.pos + j - 1 <= Len(v) THEN v[r.pos + j - 1] ELSE r.rest[j]
        <5>1. \A i \in DOMAIN r.rest :
                 Reread(r, v)[i] = IF r.pos + i - 1 <= Len(v) THEN v[r.pos + i - 1]
                                                              ELSE r.rest[i]
          BY <1>1, <1>3, RereadFacts
        <5>2. j \in DOMAIN r.rest
          BY <1>6
        <5>. QED
          BY <3>4, <5>1, <5>2
      <4>. QED
        BY <2>3, <3>1, <3>2, <4>1, <4>2
    <3>. QED
      BY <1>5, <3>3, <3>4
  <2>6. ASSUME NEW b \in r.ran PROVE \E k \in 1 .. (r.pos - 1) : u[k] = b
    <3>1. PICK k \in 1 .. (r.pos - 1) : w[k] = b
      BY <2>4
    <3>2. Len(r.rest) >= 1
      BY <1>1, <1>6, <1>7
    <3>3. k \in 1 .. Len(w)
      BY <1>1, <1>6, <2>3, <2>4, <3>2
    <3>. QED
      BY <2>3, <3>1, <3>3
  <2>. QED
    <3>1. q.pos = r.pos /\ q.ran = r.ran
      BY <1>5
    <3>2. q.pos + Len(q.rest) - 1 <= Len(u)
      BY <1>1, <1>6, <2>3, <2>4, <3>1
    <3>3. Within(q, u)
      BY <2>5, <2>6, <3>1, <3>2 DEF Within
    <3>. QED
      BY <3>3 DEF u
<1>8. FrameOK(q, g)
  BY <1>5, <1>6, <1>7, FrameKept
<1>. QED
  BY <1>5, <1>8 DEF SameDecision

\* A hook is removed, and the loops over its list are shifted.
Shrunk(q, r, m, l, v) ==
    \/ (r.msg # m \/ r.phase # l) /\ q = r
    \/ q = [r EXCEPT !.shifted = TRUE, !.ran = {},
                     !.rest = IF r.stale THEN @ ELSE Reread(r, v)]

LEMMA RemoveKeepsFrame ==
    ASSUME NEW h \in [Msg -> [List -> Seq(Addr)]], NEW r, FrameOK(r, h),
           NEW m \in Msg, NEW l \in List, NEW v \in Seq(Addr), NEW q,
           Shrunk(q, r, m, l, v), NEW g, Relisted(g, h, m, l, v)
    PROVE  /\ FrameOK(q, g)
           /\ q.phase = r.phase /\ q.save = r.save /\ q.modified = r.modified
<1>1. r \in Frame /\ LoopOK(r, h) /\ r.pos >= 1 /\ r.rest \in Seq(Addr)
  BY FrameFields DEF FrameOK, LoopOK
<1>2. CASE (r.msg # m \/ r.phase # l) /\ q = r
  <2>1. r.msg \in Msg /\ r.phase \in List => g[r.msg][r.phase] = h[r.msg][r.phase]
    BY <1>2 DEF Relisted
  <2>2. r.phase \in List /\ ~r.shifted /\ r.rest # <<>> => Within(r, g[r.msg][r.phase])
    BY <1>1, <2>1 DEF LoopOK, Foreign, List
  <2>3. FrameOK(r, g)
    BY <1>1, <2>2, FrameKept DEF SameDecision
  <2>. QED
    BY <1>2, <2>3
<1>3. CASE q = [r EXCEPT !.shifted = TRUE, !.ran = {},
                         !.rest = IF r.stale THEN @ ELSE Reread(r, v)]
  <2>1. /\ Reread(r, v) \in Seq(Addr)
        /\ r.rest # <<>> => Reread(r, v) # <<>>
    BY <1>1, RereadFacts
  <2>2. /\ q \in Frame /\ SameDecision(q, r) /\ q.msg = r.msg /\ q.pos = r.pos
        /\ q.running = r.running /\ q.save = r.save /\ q.modified = r.modified
        /\ q.shifted = TRUE /\ (r.rest # <<>> => q.rest # <<>>)
    BY <1>1, <1>3, <2>1 DEF Frame, SameDecision
  <2>3. FrameOK(q, g)
    BY <2>2, FrameKept
  <2>. QED
    BY <2>2, <2>3 DEF SameDecision
<1>. QED
  BY <1>2, <1>3 DEF Shrunk

-----------------------------------------------------------------------------
(* The steps of the natives *)

\* The calls in progress go on, and only the active message may have changed.
KeepStep ==
    /\ stack' \in Seq(Frame) /\ Len(stack') = Len(stack) /\ active' = active
    /\ \A i \in DOMAIN stack' :
          /\ stack'[i].phase = stack[i].phase /\ stack'[i].save = stack[i].save
          /\ FrameOK(stack'[i], hooks')
          /\ i = active \/ stack'[i].modified = stack[i].modified

\* One frame at a time.
LEMMA KeepFrames ==
    ASSUME StackInv, active' = active, DOMAIN stack' = DOMAIN stack,
           stack' = [k \in DOMAIN stack |-> stack'[k]],
           \A k \in DOMAIN stack :
              /\ FrameOK(stack'[k], hooks') /\ stack'[k].phase = stack[k].phase
              /\ stack'[k].save = stack[k].save
              /\ stack'[k].modified = stack[k].modified
    PROVE  KeepStep
<1>1. stack \in Seq(Frame) /\ DOMAIN stack = 1 .. Len(stack) /\ Len(stack) \in Nat
  BY DEF StackInv, StackOK
<1>2. \A k \in 1 .. Len(stack) : stack'[k] \in Frame
  BY <1>1 DEF FrameOK
<1>3. stack' \in [1 .. Len(stack) -> Frame]
  BY <1>1, <1>2
<1>4. stack' \in Seq(Frame) /\ Len(stack') = Len(stack)
  BY <1>1, <1>3
<1>. QED
  BY <1>4 DEF KeepStep

LEMMA addHookStep ==
    ASSUME IInv, NEW m \in Msg, NEW l \in List, NEW a \in Addr, NEW realloc \in BOOLEAN,
           addHook(m, l, a, realloc)
    PROVE  RegistryInv' /\ KeepStep
<1> DEFINE v == Add(hooks[m][l], a)
<1>1. /\ object[a] = "FREE"
      /\ registered' = IF FirstHook(m) THEN [registered EXCEPT ![m] = @ + 1] ELSE registered
      /\ hooks' = [hooks EXCEPT ![m][l] = Add(hooks[m][l], a)]
      /\ object' = [object EXCEPT ![a] = "ENABLED"]
      /\ handleOf' = [handleOf EXCEPT ![a] = H!Encode(m, Len(hooks[m][l]) + 1, l = "post")]
      /\ stack' = [k \in DOMAIN stack |->
                     IF ~Reads(stack[k], m, l) THEN stack[k]
                     ELSE IF realloc THEN [stack[k] EXCEPT !.stale = TRUE]
                     ELSE [stack[k] EXCEPT !.rest = Reread(stack[k], Add(hooks[m][l], a))]]
      /\ active' = active
  BY DEF addHook, NewHandle
<1>2. /\ RegistryOK(hooks, object, handleOf, registered)
      /\ hooks \in [Msg -> [List -> Seq(Addr)]] /\ registered \in [Msg -> Nat]
      /\ StackInv /\ \A k \in DOMAIN stack : FrameOK(stack[k], hooks)
  BY DEF IInv, RegistryInv, RegistryOK, TypesOK, StackInv, StackOK
<1>3. /\ registered' \in [Msg -> Nat]
      /\ \A k \in Msg : registered'[k] >= registered[k]
      /\ registered'[m] > 0
  <2>1. ~FirstHook(m) => registered[m] > 0
    BY <1>2 DEF FirstHook, Empty, RegistryOK, CountsOK
  <2>2. \A k \in Msg : registered[k] \in Nat
    BY <1>2
  <2>3. CASE FirstHook(m)
    <3>1. registered' = [registered EXCEPT ![m] = registered[m] + 1]
      BY <1>1, <2>3
    <3>. QED
      BY <1>2, <2>2, <3>1
  <2>4. CASE ~FirstHook(m)
    BY <1>1, <1>2, <2>1, <2>2, <2>4
  <2>. QED
    BY <2>3, <2>4
<1>4. RegistryOK(hooks', object', handleOf', registered')
  <2>. DEFINE x == registered'
  <2>1. x \in [Msg -> Nat] /\ (\A k \in Msg : x[k] >= registered[k]) /\ x[m] > 0
    BY <1>3
  <2>. HIDE DEF x
  <2>2. RegistryOK([hooks EXCEPT ![m][l] = Add(hooks[m][l], a)],
                   [object EXCEPT ![a] = "ENABLED"],
                   [handleOf EXCEPT ![a] = H!Encode(m, Len(hooks[m][l]) + 1, l = "post")], x)
    BY <1>1, <1>2, <2>1, AddKeepsRegistry
  <2>. QED
    BY <1>1, <2>2 DEF x
<1>5. ASSUME NEW k \in DOMAIN stack
      PROVE  /\ FrameOK(stack'[k], hooks') /\ stack'[k].phase = stack[k].phase
             /\ stack'[k].save = stack[k].save /\ stack'[k].modified = stack[k].modified
  <2>. DEFINE q == stack'[k]
             r == stack[k]
  <2>1. Grown(q, r, m, l, v)
    BY <1>1 DEF Reads, Grown
  <2>2. FrameOK(r, hooks)
    BY <1>2
  <2>3. v \in Seq(Addr) /\ Extends(v, hooks[m][l])
    <3> DEFINE s == hooks[m][l]
    <3>1. s \in Seq(Addr)
      BY <1>2
    <3>. HIDE DEF s
    <3>2. /\ Add(s, a) \in Seq(Addr) /\ Len(Add(s, a)) = Len(s) + 1 /\ Len(s) \in Nat
          /\ \A i \in 1 .. Len(s) : Add(s, a)[i] = s[i]
      BY <3>1, AddFacts
    <3>3. Extends(Add(s, a), s)
      BY <3>2 DEF Extends
    <3>. QED
      BY <3>2, <3>3 DEF s
  <2>. HIDE DEF q, r, v
  <2>4. /\ FrameOK(q, hooks')
        /\ q.phase = r.phase /\ q.save = r.save /\ q.modified = r.modified
    <3> DEFINE g == hooks'
    <3>1. Relisted(g, hooks, m, l, v)
      BY <1>1 DEF Relisted, v
    <3>. HIDE DEF g
    <3>2. Extension(g, hooks, m, l, v)
      BY <2>3, <3>1 DEF Extension
    <3>3. hooks \in [Msg -> [List -> Seq(Addr)]]
      BY <1>2
    <3>4. /\ FrameOK(q, g)
          /\ q.phase = r.phase /\ q.save = r.save /\ q.modified = r.modified
      BY <2>1, <2>2, <2>3, <3>2, <3>3, AddKeepsFrame
    <3>. QED
      BY <3>4 DEF g
  <2>. QED
    BY <2>4 DEF q, r
<1>6. DOMAIN stack' = DOMAIN stack /\ stack' = [k \in DOMAIN stack |-> stack'[k]]
  BY <1>1
<1>7. KeepStep
  BY <1>1, <1>2, <1>5, <1>6, KeepFrames
<1>. QED
  BY <1>4, <1>7 DEF RegistryInv

LEMMA removeHookStep ==
    ASSUME IInv, NEW m \in Msg, NEW l \in List, NEW d \in DOMAIN hooks[m][l],
           removeHook(<<m, l, d>>)
    PROVE  RegistryInv' /\ KeepStep
<1> DEFINE v == Erase(hooks[m][l], d)
<1>1. /\ hooks' = [hooks EXCEPT ![m][l] = v]
      /\ object' = [object EXCEPT ![hooks[m][l][d]] = "FREE"]
      /\ handleOf' = [handleOf EXCEPT ![hooks[m][l][d]] = H!InvalidHandle]
      /\ stack' = [k \in DOMAIN stack |->
             IF stack[k].msg # m \/ stack[k].phase # l THEN stack[k]
             ELSE [stack[k] EXCEPT
                     !.shifted = TRUE, !.ran = {},
                     !.rest = IF stack[k].stale THEN @ ELSE Reread(stack[k], v)]]
      /\ registered' = registered /\ active' = active
  BY DEF removeHook, At
<1>2. /\ RegistryOK(hooks, object, handleOf, registered)
      /\ hooks \in [Msg -> [List -> Seq(Addr)]] /\ v \in Seq(Addr)
      /\ StackInv /\ \A k \in DOMAIN stack : FrameOK(stack[k], hooks)
  <2>1. hooks[m][l] \in Seq(Addr) /\ d \in 1 .. Len(hooks[m][l])
    <3>1. hooks[m][l] \in Seq(Addr)
      BY ListOfMessage DEF IInv
    <3>. QED
      BY <3>1
  <2>2. v \in Seq(Addr)
    BY <2>1, EraseFacts
  <2>. QED
    BY <2>2 DEF IInv, RegistryInv, RegistryOK, TypesOK, StackInv, StackOK
<1>3. RegistryOK(hooks', object', handleOf', registered')
  BY <1>1, <1>2, RemoveKeepsRegistry
<1>. HIDE DEF v
<1>4. ASSUME NEW k \in DOMAIN stack
      PROVE  /\ FrameOK(stack'[k], hooks') /\ stack'[k].phase = stack[k].phase
             /\ stack'[k].save = stack[k].save /\ stack'[k].modified = stack[k].modified
  <2>. DEFINE q == stack'[k]
             r == stack[k]
  <2>1. Shrunk(q, r, m, l, v)
    BY <1>1 DEF Shrunk
  <2>2. FrameOK(r, hooks)
    BY <1>2
  <2>. HIDE DEF q, r
  <2>3. /\ FrameOK(q, hooks')
        /\ q.phase = r.phase /\ q.save = r.save /\ q.modified = r.modified
    <3> DEFINE g == hooks'
    <3>1. Relisted(g, hooks, m, l, v)
      BY <1>1 DEF Relisted
    <3>. HIDE DEF g
    <3>2. /\ FrameOK(q, g)
          /\ q.phase = r.phase /\ q.save = r.save /\ q.modified = r.modified
      BY <1>2, <2>1, <2>2, <3>1, RemoveKeepsFrame
    <3>. QED
      BY <3>2 DEF g
  <2>. QED
    BY <2>3 DEF q, r
<1>5. DOMAIN stack' = DOMAIN stack /\ stack' = [k \in DOMAIN stack |-> stack'[k]]
  BY <1>1
<1>6. KeepStep
  BY <1>1, <1>2, <1>4, <1>5, KeepFrames
<1>. QED
  BY <1>3, <1>6 DEF RegistryInv

LEMMA ResolveType ==
    ASSUME NEW handle, NEW r \in Resolve(handle)
    PROVE  \E m \in Msg, l \in List : \E d \in DOMAIN hooks[m][l] : r = <<m, l, d>>
BY DEF Resolve, List

LEMMA SetStateStep ==
    ASSUME IInv, NEW handle, NEW s \in {"ENABLED", "STOPPED"}, SetState(handle, s)
    PROVE  RegistryInv' /\ KeepStep
<1>1. PICK r \in Resolve(handle) : object' = [object EXCEPT ![At(r)] = s]
  BY DEF SetState
<1>2. PICK m \in Msg, l \in List : \E d \in DOMAIN hooks[m][l] : r = <<m, l, d>>
  BY ResolveType
<1>3. PICK d \in DOMAIN hooks[m][l] : r = <<m, l, d>>
  BY <1>2
<1> DEFINE a == hooks[m][l][d]
<1>4. /\ UNCHANGED <<hooks, handleOf, registered, stack, active>>
      /\ object' = [object EXCEPT ![a] = s]
  BY <1>1, <1>3 DEF SetState, At
<1>5. RegistryOK(hooks, object, handleOf, registered) /\ a \in Addr /\ object[a] # "FREE"
  <2>1. RegistryOK(hooks, object, handleOf, registered) /\ a \in Addr
    BY ListOfMessage DEF IInv, RegistryInv
  <2>. HIDE DEF a
  <2>2. a = hooks[m][l][d]
    BY DEF a
  <2>. QED
    BY <2>1, <2>2 DEF RegistryOK, ListsOK
<1>. HIDE DEF a
<1>6. /\ object' \in [Addr -> {"FREE", "ENABLED", "STOPPED"}]
      /\ \A b \in Addr : object'[b] # "FREE" <=> object[b] # "FREE"
  <2>1. object \in [Addr -> {"FREE", "ENABLED", "STOPPED"}]
    BY <1>5 DEF RegistryOK, TypesOK
  <2>. QED
    BY <1>4, <1>5, <2>1
<1>7. RegistryOK(hooks, object', handleOf, registered)
  BY <1>5, <1>6 DEF RegistryOK, TypesOK, ListsOK
<1>8. RegistryInv'
  BY <1>4, <1>7 DEF RegistryInv
<1>9. KeepStep
  BY <1>4 DEF KeepStep, IInv, StackInv, StackOK
<1>. QED
  BY <1>8, <1>9

LEMMA ModifyStep ==
    ASSUME IInv, NEW b \in BOOLEAN, Modify(b)
    PROVE  RegistryInv' /\ KeepStep
<1>1. /\ active # 0 /\ stack' = [stack EXCEPT ![active].modified = b]
      /\ UNCHANGED <<hooks, object, handleOf, registered, active>>
  BY DEF Modify
<1>2. RegistryInv'
  BY <1>1 DEF IInv, RegistryInv
<1>3. /\ stack \in Seq(Frame) /\ active \in 1 .. Len(stack) /\ Len(stack) \in Nat
      /\ DOMAIN stack = 1 .. Len(stack) /\ \A k \in DOMAIN stack : FrameOK(stack[k], hooks)
  BY <1>1, ActiveType DEF IInv, StackInv, StackOK
<1> DEFINE r == stack[active]
           q == [r EXCEPT !.modified = b]
<1>4. FrameOK(r, hooks) /\ r \in Frame
  BY <1>3 DEF FrameOK
<1>5. stack' = [stack EXCEPT ![active] = q]
  BY <1>1
<1>6. /\ q \in Frame /\ SameDecision(q, r) /\ q.msg = r.msg /\ q.pos = r.pos
      /\ q.running = r.running /\ q.rest = r.rest /\ q.shifted = r.shifted
      /\ q.ran = r.ran /\ q.save = r.save /\ q.phase = r.phase
  BY <1>4 DEF Frame, SameDecision
<1>. HIDE DEF q
<1>7. FrameOK(q, hooks)
  BY <1>4, <1>6, DecisionOfSame DEF FrameOK, LoopOK, Within, Foreign
<1>8. /\ stack' \in Seq(Frame) /\ Len(stack') = Len(stack)
      /\ stack'[active] = q /\ \A k \in DOMAIN stack \ {active} : stack'[k] = stack[k]
      /\ DOMAIN stack' = DOMAIN stack
  BY <1>3, <1>5, <1>6
<1>9. KeepStep
  BY <1>1, <1>3, <1>6, <1>7, <1>8 DEF KeepStep
<1>. QED
  BY <1>2, <1>9

LEMMA NativeSteps == IInv /\ Native => RegistryInv' /\ KeepStep
<1> SUFFICES ASSUME IInv, Native PROVE RegistryInv' /\ KeepStep
  OBVIOUS
<1>1. ASSUME NEW m \in Msg \cup {0, MaxUserMsgs}, NEW post \in BOOLEAN, NEW a \in Addr,
             NEW b \in BOOLEAN, RegisterMessage(m, post, a, b)
      PROVE  RegistryInv' /\ KeepStep
  <2>1. m \in Msg
    BY <1>1, MessageAssumption DEF RegisterMessage
  <2>2. (IF post THEN "post" ELSE "pre") \in List
    BY DEF List
  <2>. QED
    BY <1>1, <2>1, <2>2, addHookStep DEF RegisterMessage
<1>2. ASSUME NEW h \in Handles, UnregisterMessage(h)
      PROVE  RegistryInv' /\ KeepStep
  <2>1. PICK r \in Resolve(h) : removeHook(r)
    BY <1>2 DEF UnregisterMessage
  <2>2. PICK m \in Msg, l \in List : \E d \in DOMAIN hooks[m][l] : r = <<m, l, d>>
    BY ResolveType
  <2>3. PICK d \in DOMAIN hooks[m][l] : r = <<m, l, d>>
    BY <2>2
  <2>4. removeHook(<<m, l, d>>)
    BY <2>1, <2>3
  <2>. QED
    BY <2>4, removeHookStep
<1>3. ASSUME NEW h \in Handles, EnableHookMessage(h) \/ DisableHookMessage(h)
      PROVE  RegistryInv' /\ KeepStep
  BY <1>3, SetStateStep DEF EnableHookMessage, DisableHookMessage
<1>4. ASSUME SetMessageData \/ ResetModifiedMessageData
      PROVE  RegistryInv' /\ KeepStep
  BY <1>4, ModifyStep DEF SetMessageData, ResetModifiedMessageData
<1>. QED
  BY <1>1, <1>2, <1>3, <1>4 DEF Native

-----------------------------------------------------------------------------
(* The steps that start afresh *)

LEMMA EmptyRegistry ==
    ASSUME NEW n \in [Msg -> Nat]
    PROVE  RegistryOK([m \in Msg |-> [l \in List |-> <<>>]], [a \in Addr |-> "FREE"],
                      [a \in Addr |-> H!InvalidHandle], n)
<1> DEFINE h == [m \in Msg |-> [l \in List |-> <<>>]]
<1>1. h \in [Msg -> [List -> Seq(Addr)]] /\ \A m \in Msg, l \in List : h[m][l] = <<>>
  OBVIOUS
<1>. HIDE DEF h
<1>2. \A m \in Msg, l \in List : DOMAIN h[m][l] = {}
  BY <1>1
<1>3. ListsOK(h, [a \in Addr |-> "FREE"])
  BY <1>2 DEF ListsOK
<1>4. HandlesOK(h, [a \in Addr |-> H!InvalidHandle])
  BY <1>2 DEF HandlesOK
<1>5. CountsOK(h, n)
  BY <1>1 DEF CountsOK, List
<1>. QED
  BY <1>1, <1>3, <1>4, <1>5 DEF RegistryOK, TypesOK, H!InvalidHandle, h

LEMMA EmptyStack ==
    ASSUME NEW h
    PROVE  StackOK(<<>>, 0, h)
BY DEF StackOK, Prescribed, SavesOK

LEMMA InitInv == Init => IInv
<1> SUFFICES ASSUME Init PROVE IInv
  OBVIOUS
<1>1. registered \in [Msg -> Nat]
  BY DEF Init
<1>2. RegistryInv
  BY <1>1, EmptyRegistry DEF Init, RegistryInv
<1>3. StackInv
  BY EmptyStack DEF Init, StackInv
<1>. QED
  BY <1>2, <1>3 DEF IInv

LEMMA CrashStep ==
    ASSUME Crash
    PROVE  IInv' /\ stack' = <<>>
<1>1. /\ hooks' = [m \in Msg |-> [l \in List |-> <<>>]]
      /\ object' = [a \in Addr |-> "FREE"]
      /\ handleOf' = [a \in Addr |-> H!InvalidHandle]
      /\ registered' \in [Msg -> Nat] /\ stack' = <<>> /\ active' = 0
  BY DEF Crash
<1>2. RegistryInv'
  BY <1>1, EmptyRegistry DEF RegistryInv
<1>. QED
  BY <1>1, <1>2, EmptyStack DEF IInv, StackInv

LEMMA ServerDeactivateStep ==
    ASSUME IInv, ServerDeactivate
    PROVE  IInv' /\ stack' = <<>>
<1>1. active = 0 /\ stack = <<>>
  BY ActiveType DEF IInv, ServerDeactivate
<1>2. registered' \in [Msg -> Nat]
  <2>1. \A m \in Msg : registered[m] \in Nat /\ (~Empty(m) => registered[m] > 0)
    BY DEF IInv, RegistryInv, RegistryOK, TypesOK, CountsOK, Empty
  <2>2. \A m \in Msg : RegisteredAfterClear(m) \in Nat
    BY <2>1 DEF RegisteredAfterClear
  <2>. QED
    BY <2>2 DEF ServerDeactivate
<1>3. RegistryInv'
  BY <1>2, EmptyRegistry DEF RegistryInv, ServerDeactivate
<1>. QED
  BY <1>1, <1>3, EmptyStack DEF IInv, StackInv, ServerDeactivate

-----------------------------------------------------------------------------
(* Invariance *)

\* Every step is one of these kinds.
LEMMA StepKinds ==
    ASSUME IInv, [Next]_vars
    PROVE  \/ DispatchStep
           \/ RegistryInv' /\ KeepStep
           \/ IInv' /\ stack' = <<>>
           \/ UNCHANGED vars
<1>1. CASE Native
  BY <1>1, NativeSteps
<1>2. CASE Loop
  BY <1>2, LoopSteps, CrashStep DEF Loop
<1>3. CASE Outside
  BY <1>3, ReturnSteps, CallSteps, ServerDeactivateStep DEF Outside
<1>. QED
  BY <1>1, <1>2, <1>3 DEF Next

LEMMA DispatchKeepsInv ==
    ASSUME IInv, DispatchStep
    PROVE  IInv'
<1>0. /\ StackOK(stack, active, hooks) /\ RegistryInv
      /\ UNCHANGED <<hooks, object, handleOf, registered>>
  BY DEF IInv, StackInv, DispatchStep, registry
<1>1. CASE TopStep
  <2>1. PICK r : /\ FrameOK(r, hooks)
                 /\ r.save = Top.save /\ stack' = SetTop(r)
                 /\ \/ r.phase \in List /\ active' = Len(stack)
                    \/ r.phase = "orig" /\ active' = 0
    BY <1>1 DEF TopStep
  <2>2. stack # <<>> /\ ~Foreign(Top)
    BY <1>1 DEF TopStep
  <2>3. StackOK([stack EXCEPT ![Len(stack)] = r], active', hooks)
    BY <1>0, <2>1, <2>2, StackOfTop DEF Top
  <2>. QED
    BY <1>0, <2>1, <2>3 DEF IInv, StackInv, RegistryInv, SetTop
<1>2. CASE PushStep
  <2>1. PICK r : /\ FrameOK(r, hooks) /\ stack' = Append(stack, r)
                 /\ \/ Foreign(r) /\ active' = active
                    \/ r.phase \in List /\ r.save = active /\ active' = Len(stack) + 1
    BY <1>2 DEF PushStep
  <2>2. StackOK(Append(stack, r), active', hooks)
    BY <1>0, <2>1, StackOfPush
  <2>. QED
    BY <1>0, <2>1, <2>2 DEF IInv, StackInv, RegistryInv
<1>3. CASE PopStep
  <2>1. StackOK(SubSeq(stack, 1, Len(stack) - 1), active', hooks)
    BY <1>0, <1>3, StackOfPop DEF PopStep, Top
  <2>. QED
    BY <1>0, <1>3, <2>1 DEF PopStep, IInv, StackInv, RegistryInv, Below
<1>. QED
  BY <1>1, <1>2, <1>3 DEF DispatchStep

LEMMA KeepKeepsInv ==
    ASSUME IInv, KeepStep, RegistryInv'
    PROVE  IInv'
<1>1. StackOK(stack, active, hooks) /\ stack \in Seq(Frame)
  BY DEF IInv, StackInv, StackOK
<1>2. /\ stack' \in Seq(Frame) /\ Len(stack') = Len(stack) /\ active' = active
      /\ \A i \in DOMAIN stack' :
            /\ stack'[i].phase = stack[i].phase /\ stack'[i].save = stack[i].save
            /\ FrameOK(stack'[i], hooks')
  BY DEF KeepStep
<1>. DEFINE t == stack'
            g == hooks'
<1>. HIDE DEF t, g
<1>3. /\ t \in Seq(Frame) /\ Len(t) = Len(stack)
      /\ \A i \in DOMAIN t :
            /\ t[i].phase = stack[i].phase /\ t[i].save = stack[i].save
            /\ FrameOK(t[i], g)
  BY <1>2 DEF t, g
<1>4. StackOK(t, active, g)
  BY <1>1, <1>3, StackOfKin
<1>. QED
  BY <1>2, <1>4 DEF IInv, StackInv, t, g

LEMMA StepInv == IInv /\ [Next]_vars => IInv'
<1> SUFFICES ASSUME IInv, [Next]_vars PROVE IInv'
  OBVIOUS
<1>1. CASE UNCHANGED vars
  BY <1>1 DEF vars, IInv, RegistryInv, StackInv
<1>. QED
  BY <1>1, StepKinds, DispatchKeepsInv, KeepKeepsInv

LEMMA Invariance == Spec => []IInv
BY InitInv, StepInv, PTL DEF Spec

-----------------------------------------------------------------------------
(* The properties *)

\* Every variable keeps the type of its C++ declaration; a registration count,
\* which MessageHook::clear decrements, never becomes negative.
THEOREM TypeCorrectness == Spec => []TypeOK
BY Invariance, TypeCorrect, PTL

\* g_activeMessageContext always is the context the call stack prescribes,
\* however dispatches nest and whatever plugins do in between.
THEOREM ActiveContext == Spec => []ActiveIsInnermost
<1>1. IInv => ActiveIsInnermost
  BY DEF IInv, StackInv, StackOK, ActiveIsInnermost
<1>. QED
  BY <1>1, Invariance, PTL

\* The vectors hold exactly the hooks that are allocated, each once, through
\* all of addHook, removeHook and MessageHook::clear.
THEOREM NoHookLostOrDangling == Spec => []ListedAreAlive
<1>1. IInv => ListedAreAlive
  <2> SUFFICES ASSUME IInv PROVE ListedAreAlive
    OBVIOUS
  <2>1. ListsOK(hooks, object) /\ hooks \in [Msg -> [List -> Seq(Addr)]]
    BY DEF IInv, RegistryInv, RegistryOK, TypesOK
  <2>2. \A r \in Registered : \E m \in Msg, l \in List : \E i \in DOMAIN hooks[m][l] :
           r = <<m, l, i>> /\ At(r) = hooks[m][l][i] /\ At(r) \in Addr
    <3> SUFFICES ASSUME NEW m \in Msg, NEW l \in List, NEW i \in DOMAIN hooks[m][l]
                 PROVE  hooks[m][l][i] \in Addr
      BY DEF Registered, At
    <3>1. hooks[m][l] \in Seq(Addr)
      BY <2>1
    <3>. QED
      BY <3>1
  <2>3. \A m \in Msg, l \in List : \A i \in DOMAIN hooks[m][l] :
           <<m, l, i>> \in Registered /\ At(<<m, l, i>>) = hooks[m][l][i]
    <3> SUFFICES ASSUME NEW m \in Msg, NEW l \in List, NEW i \in DOMAIN hooks[m][l]
                 PROVE  <<m, l, i>> \in Registered
      BY DEF At
    <3>1. <<m, l, i>> \in {<<m, l, j>> : j \in DOMAIN hooks[m][l]}
      OBVIOUS
    <3>2. <<m, l, i>> \in UNION {{<<m, k, j>> : j \in DOMAIN hooks[m][k]} : k \in List}
      BY <3>1
    <3>. QED
      BY <3>2 DEF Registered
  <2>4. {At(r) : r \in Registered} = {a \in Addr : object[a] # "FREE"}
    <3>1. ASSUME NEW r \in Registered PROVE At(r) \in {a \in Addr : object[a] # "FREE"}
      BY <2>1, <2>2 DEF ListsOK
    <3>2. ASSUME NEW a \in Addr, object[a] # "FREE" PROVE \E r \in Registered : At(r) = a
      <4>1. PICK m \in Msg, l \in List : \E i \in DOMAIN hooks[m][l] : hooks[m][l][i] = a
        BY <2>1, <3>2 DEF ListsOK
      <4>. QED
        BY <2>3, <4>1
    <3>. QED
      BY <3>1, <3>2
  <2>5. ASSUME NEW r \in Registered, NEW q \in Registered, At(r) = At(q) PROVE r = q
    <3>1. PICK m \in Msg, l \in List : \E i \in DOMAIN hooks[m][l] :
             r = <<m, l, i>> /\ At(r) = hooks[m][l][i]
      BY <2>2
    <3>2. PICK n \in Msg, k \in List : \E j \in DOMAIN hooks[n][k] :
             q = <<n, k, j>> /\ At(q) = hooks[n][k][j]
      BY <2>2
    <3>. QED
      BY <2>1, <2>5, <3>1, <3>2 DEF ListsOK
  <2>. QED
    BY <2>4, <2>5 DEF ListedAreAlive
<1>. QED
  BY <1>1, Invariance, PTL

\* Whatever was registered and unregistered, a message with a hook is one that
\* the message manager calls ReAPI for.
THEOREM HookedMessagesArrive == Spec => []HookedIsRegistered
<1>1. IInv => HookedIsRegistered
  BY DEF IInv, RegistryInv, RegistryOK, CountsOK, HookedIsRegistered, Empty
<1>. QED
  BY <1>1, Invariance, PTL

\* A handle names a hook of its own message and list, and none before its own,
\* however many hooks have been unregistered; as long as a list cannot hold
\* more hooks than a handle has positions.
THEOREM HandlesStay ==
    ASSUME Cardinality(Addr) <= MaxUserMsgs
    PROVE  Spec => []HandleStaysInList
<1>1. IInv => HandleStaysInList
  <2> SUFFICES ASSUME IInv, NEW q \in Registered, NEW r \in Resolve(handleOf[At(q)])
               PROVE  r[1] = q[1] /\ r[2] = q[2] /\ r[3] >= q[3]
    BY DEF HandleStaysInList
  <2>1. PICK m \in Msg, l \in List : \E i \in DOMAIN hooks[m][l] : q = <<m, l, i>>
    BY DEF Registered
  <2>2. PICK i \in DOMAIN hooks[m][l] : q = <<m, l, i>>
    BY <2>1
  <2>3. PICK k \in i .. Cardinality(Addr) : handleOf[At(q)] = H!Encode(m, k, l = "post")
    BY <2>2 DEF IInv, RegistryInv, RegistryOK, HandlesOK, At
  <2>4. i \in Nat \ {0} /\ Cardinality(Addr) \in Nat
    <3>1. hooks[m][l] \in Seq(Addr)
      BY ListOfMessage DEF IInv
    <3>. QED
      BY <3>1, MessageAssumption, FS_CardinalityType
  <2>5. m \in Nat /\ k \in 1 .. MaxUserMsgs /\ k >= i
    BY <2>3, <2>4, MessageAssumption
  <2> DEFINE handle == H!Encode(m, k, l = "post")
  <2>6. /\ H!IsPost(handle) <=> l = "post"
        /\ H!FuncOf(handle) = m /\ H!PosOf(handle) = k
    <3>1. /\ HP!IsPost(HP!Encode(m, k, l = "post")) <=> l = "post"
          /\ HP!FuncOf(HP!Encode(m, k, l = "post")) = m
          /\ HP!PosOf(HP!Encode(m, k, l = "post")) = k
      BY <2>5, MessageAssumption, HP!RoundTrip
         DEF HP!MaxForwardsAssumption
    <3>2. handle = HP!Encode(m, k, l = "post")
      BY DEF H!Encode, HP!Encode
    <3>. HIDE DEF handle
    <3>3. /\ H!IsPost(handle) <=> HP!IsPost(handle)
          /\ H!FuncOf(handle) = HP!FuncOf(handle) /\ H!PosOf(handle) = HP!PosOf(handle)
      BY DEF H!IsPost, H!FuncOf, H!PosOf, H!Offset, HP!IsPost, HP!FuncOf, HP!PosOf,
             HP!Offset
    <3>. QED
      BY <3>1, <3>2, <3>3
  <2>. HIDE DEF handle
  <2>7. r = <<m, l, k>>
    <3>1. r \in Resolve(handle)
      BY <2>3 DEF handle
    <3>. QED
      BY <2>6, <3>1 DEF Resolve, List
  <2>. QED
    BY <2>2, <2>5, <2>7
<1>. QED
  BY <1>1, Invariance, PTL

\* DispatchCallbacks runs each hook of a list at most once per loop, whatever
\* the hooks register meanwhile.
THEOREM EachHookOnce == Spec => []NoHookRunsTwice
<1>1. IInv => NoHookRunsTwice
  <2> SUFFICES ASSUME IInv, NEW i \in DOMAIN stack, stack[i].phase \in List,
                      stack[i].running, ~stack[i].shifted,
                      Head(stack[i].rest) \in stack[i].ran
               PROVE  FALSE
    BY DEF NoHookRunsTwice
  <2> DEFINE r == stack[i]
             v == hooks[r.msg][r.phase]
  <2>1. FrameOK(r, hooks) /\ r \in Frame
    BY DEF IInv, StackInv, StackOK, FrameOK
  <2>2. /\ r.phase \in List /\ r.running /\ ~r.shifted /\ Head(r.rest) \in r.ran
    OBVIOUS
  <2>. HIDE DEF r
  <2>3. /\ r.msg \in Msg /\ r.pos >= 1 /\ r.pos \in Nat /\ r.rest # <<>>
        /\ r.rest \in Seq(Addr) /\ Within(r, v)
    BY <2>1, <2>2, FrameFields DEF FrameOK, LoopOK, Foreign, List
  <2>4. v \in Seq(Addr) /\ ListsOK(hooks, object)
    BY <2>2, <2>3, ListOfMessage DEF IInv, RegistryInv, RegistryOK
  <2>5. 1 \in DOMAIN r.rest /\ Len(r.rest) \in Nat /\ Len(r.rest) >= 1
        /\ Head(r.rest) = r.rest[1] /\ r.pos + 1 - 1 = r.pos
    BY <2>3, HeadTailProperties
  <2>6. r.rest[1] = v[r.pos + 1 - 1] /\ r.pos + Len(r.rest) - 1 <= Len(v)
    BY <2>3, <2>5 DEF Within
  <2>7. r.pos \in DOMAIN v /\ v[r.pos] = Head(r.rest)
    BY <2>3, <2>4, <2>5, <2>6
  <2>8. PICK k \in 1 .. (r.pos - 1) : v[k] = Head(r.rest)
    BY <2>2, <2>3 DEF Within
  <2>9. k \in DOMAIN v /\ k # r.pos
    BY <2>3, <2>4, <2>7, <2>8
  <2>. QED
    BY <2>2, <2>3, <2>4, <2>7, <2>8, <2>9 DEF ListsOK
<1>. QED
  BY <1>1, Invariance, PTL

\* A message is withheld only on demand of a pre hook, and sent against such a
\* demand only if another pre hook returned HC_BYPASS.
THEOREM Withholding == Spec => []WithheldOnDemand
<1>1. IInv => WithheldOnDemand
  <2> SUFFICES ASSUME IInv, NEW i \in DOMAIN stack, stack[i].phase = "post"
               PROVE  /\ ~stack[i].called => HC_SUPERCEDE \in stack[i].heard
                      /\ stack[i].called /\ HC_SUPERCEDE \in stack[i].heard
                            => HC_BYPASS \in stack[i].heard
    BY DEF WithheldOnDemand
  <2> DEFINE r == stack[i]
  <2>1. FrameOK(r, hooks) /\ r \in Frame /\ r.phase = "post"
    BY DEF IInv, StackInv, StackOK, FrameOK
  <2>. HIDE DEF r
  <2>2. Heard(r) /\ (r.called <=> r.state # HC_SUPERCEDE) /\ r.state \in HookChainState
    BY <2>1, FrameFields DEF FrameOK, DecisionOK, Foreign
  <2>3. r.state \in {0, 1, 3}
    BY <2>2 DEF Heard, HookChainState, HC_CONTINUE, HC_BREAK, HC_BYPASS
  <2>4. /\ ~r.called => HC_SUPERCEDE \in r.heard
        /\ r.called /\ HC_SUPERCEDE \in r.heard => HC_BYPASS \in r.heard
    BY <2>2, <2>3 DEF Heard, HC_CONTINUE, HC_SUPERCEDE, HC_BYPASS
  <2>. QED
    BY <2>4 DEF r
<1>. QED
  BY <1>1, Invariance, PTL

\* No step changes the data of a message other than the one whose hook is
\* executing, whichever native, loop or engine call it is.
THEOREM OthersUntouched == Spec => OnlyActiveMessageChanges
<1> DEFINE A == \A i \in DOMAIN stack \cap DOMAIN stack' :
          Prescribed(stack, i, Len(stack)) \/ stack'[i].modified = stack[i].modified
<1>1. IInv /\ [Next]_vars => A
  <2> SUFFICES ASSUME IInv, [Next]_vars, NEW i \in DOMAIN stack \cap DOMAIN stack',
                      ~Prescribed(stack, i, Len(stack))
               PROVE  stack'[i].modified = stack[i].modified
    OBVIOUS
  <2>0. stack \in Seq(Frame) /\ i \in 1 .. Len(stack) /\ Len(stack) \in Nat
    BY DEF IInv, StackInv, StackOK
  <2>1. CASE DispatchStep
    <3>1. CASE TopStep
      <4>1. PICK r : r.modified = Top.modified /\ stack' = SetTop(r)
        BY <3>1 DEF TopStep
      <4>. QED
        BY <2>0, <4>1 DEF SetTop, Top
    <3>2. CASE PushStep
      <4>1. PICK r : r \in Frame /\ stack' = Append(stack, r)
        BY <3>2 DEF PushStep, FrameOK
      <4>. QED
        BY <2>0, <4>1
    <3>3. CASE PopStep
      <4>1. stack' = SubSeq(stack, 1, Len(stack) - 1)
        BY <3>3 DEF PopStep, Below
      <4>2. i \in 1 .. (Len(stack) - 1) /\ stack'[i] = stack[i]
        BY <2>0, <4>1
      <4>. QED
        BY <4>2
    <3>. QED
      BY <2>1, <3>1, <3>2, <3>3 DEF DispatchStep
  <2>2. CASE KeepStep
    <3>1. Prescribed(stack, active, Len(stack))
      BY DEF IInv, StackInv, StackOK
    <3>. QED
      BY <2>2, <3>1 DEF KeepStep
  <2>3. CASE stack' = <<>>
    BY <2>3
  <2>4. CASE UNCHANGED vars
    BY <2>4 DEF vars
  <2>. QED
    BY <2>1, <2>2, <2>3, <2>4, StepKinds
<1>2. IInv /\ [Next]_vars => [A]_vars
  BY <1>1
<1>. QED
  BY <1>2, Invariance, PTL DEF Spec, OnlyActiveMessageChanges
=============================================================================
