--------------------------- MODULE HookCallsProofs ---------------------------
(***************************************************************************)
(* The calls in progress, for every set of functions and every bound:      *)
(* whose value a call holds, that HookChain implements HookCalls, what     *)
(* callbacks decide about a call, which temporary strings it uses, and     *)
(* what the natives answer about it.                                       *)
(***************************************************************************)
EXTENDS HookChainProofs

-----------------------------------------------------------------------------
(* The inductive invariant *)

\* What retVal of r, the n-th on the stack, may hold.
ValueOK(r, n) ==
    /\ r.ret \in {Nobody, Original, n}
    /\ r.ret = Original => r.called
    /\ r.phase = "pre" => ~r.called
    /\ r.func \notin VoidFunc =>
          /\ r.phase = "pre" /\ r.hc = HC_SUPERCEDE => r.ret # Nobody
          /\ r.phase = "post" => r.ret # Nobody /\ (~r.called => r.ret = n)

ValueInv == \A i \in DOMAIN stack : ValueOK(stack[i], i)

\* Two frames that hold the same value.
SameValue(q, r) ==
    /\ q.func = r.func /\ q.phase = r.phase /\ q.ret = r.ret
    /\ q.called = r.called /\ q.hc = r.hc

LEMMA SameValueOK ==
    ASSUME NEW q, NEW r, NEW n, SameValue(q, r), ValueOK(r, n)
    PROVE  ValueOK(q, n)
BY DEF SameValue, ValueOK

LEMMA ValueOfSame ==
    ASSUME ValueInv, DOMAIN stack' = DOMAIN stack,
           \A i \in DOMAIN stack : SameValue(stack'[i], stack[i])
    PROVE  ValueInv'
BY SameValueOK DEF ValueInv

LEMMA ValueOfTop ==
    ASSUME TypeOK, ValueInv, stack # <<>>, NEW r,
           stack' = SetTop(r), ValueOK(r, Len(stack))
    PROVE  ValueInv'
<1>1. /\ DOMAIN stack' = DOMAIN stack /\ stack'[Len(stack)] = r
      /\ \A i \in DOMAIN stack : i # Len(stack) => stack'[i] = stack[i]
  BY TopType DEF SetTop
<1>. QED
  BY <1>1 DEF ValueInv

LEMMA ValueOfPop ==
    ASSUME TypeOK, ValueInv, stack # <<>>, stack' = Below
    PROVE  ValueInv'
BY BelowType DEF ValueInv

LEMMA ValueOfPush ==
    ASSUME TypeOK, ValueInv, NEW r \in Frame,
           stack' = Append(stack, r), ValueOK(r, Len(stack) + 1)
    PROVE  ValueInv'
<1>1. /\ stack \in Seq(Frame) /\ Len(stack) \in Nat
      /\ DOMAIN stack = 1 .. Len(stack) /\ DOMAIN stack' = 1 .. (Len(stack) + 1)
      /\ stack'[Len(stack) + 1] = r
      /\ \A i \in 1 .. Len(stack) : stack'[i] = stack[i]
  BY DEF TypeOK
<1>. QED
  BY <1>1 DEF ValueInv

\* The top of a stack in one of the loops.
LEMMA TopValue ==
    ASSUME IInv, ValueInv, stack # <<>>
    PROVE  /\ ValueOK(Top, Len(stack)) /\ Top \in Frame
           /\ Len(stack) \in Nat \ {0}
BY TopType DEF IInv, ValueInv, Top

-----------------------------------------------------------------------------
(* Every step preserves it *)

\* Only the call that g_hookCtx points to can be prescribed.
LEMMA PrescribedUnique ==
    ASSUME NEW s, NEW n \in Nat, NEW c \in Nat \ {0}, NEW d \in Nat \ {0},
           Prescribed(s, c, n), Prescribed(s, d, n)
    PROVE  c = d
BY DEF Prescribed, List, Foreign

\* SetHookChainReturn writes the value of its own caller.
LEMMA SetReturnStep ==
    ASSUME IInv, SetHookChainReturn
    PROVE  /\ hookCtx \in DOMAIN stack /\ stack[hookCtx].phase \in List
           /\ stack' = [stack EXCEPT ![hookCtx].ret = hookCtx]
<1>1. /\ stack \in Seq(Frame) /\ Len(stack) \in Nat /\ DOMAIN stack = 1 .. Len(stack)
      /\ hookCtx \in DOMAIN stack /\ hookCtx \in Nat \ {0}
  BY DEF SetHookChainReturn, IInv, TypeOK
<1>2. PICK c \in DOMAIN stack :
         /\ Prescribed(stack, c, Len(stack))
         /\ stack' = [stack EXCEPT ![hookCtx].ret = c]
  BY DEF SetHookChainReturn
<1>3. Prescribed(stack, hookCtx, Len(stack))
  BY DEF IInv, ContextInv, ContextIsInnermost
<1>4. c = hookCtx
  <2>1. c \in Nat \ {0}
    BY <1>1
  <2>. QED
    BY <1>1, <1>2, <1>3, <2>1, PrescribedUnique
<1>. QED
  BY <1>1, <1>2, <1>3, <1>4 DEF Prescribed

LEMMA SetReturnValue == ASSUME IInv, ValueInv, SetHookChainReturn PROVE ValueInv'
<1> DEFINE r == [stack[hookCtx] EXCEPT !.ret = hookCtx]
<1>1. /\ hookCtx \in DOMAIN stack /\ hookCtx \in Nat \ {0}
      /\ stack[hookCtx] \in Frame /\ stack[hookCtx].phase \in List
      /\ stack' = [stack EXCEPT ![hookCtx] = r]
  BY SetReturnStep DEF IInv, TypeOK
<1>2. /\ r.func = stack[hookCtx].func /\ r.phase = stack[hookCtx].phase
      /\ r.called = stack[hookCtx].called /\ r.ret = hookCtx
  BY <1>1 DEF Frame
<1>. HIDE DEF r
<1>3. ValueOK(r, hookCtx)
  BY <1>1, <1>2 DEF ValueInv, ValueOK, Nobody, Original
<1>. QED
  BY <1>1, <1>3 DEF ValueInv

LEMMA SetArgStep ==
    ASSUME IInv, SetHookChainArg
    PROVE  /\ hookCtx \in DOMAIN stack
           /\ Prescribed(stack, hookCtx, Len(stack))
           /\ \E r \in Frame :
                 /\ stack' = [stack EXCEPT ![hookCtx] = r]
                 /\ SameValue(r, stack[hookCtx])
                 /\ r.arg # CallersString
<1>1. /\ stack \in Seq(Frame) /\ DOMAIN stack = 1 .. Len(stack)
      /\ hookCtx \in DOMAIN stack /\ stack[hookCtx] \in Frame
      /\ tempUsed \in Nat /\ tempUsed <= StringsMax /\ StringsMax \in Nat
  BY BoundsAssumption DEF SetHookChainArg, SettingString, IInv, TypeOK
<1>2. Prescribed(stack, hookCtx, Len(stack))
  BY DEF IInv, ContextInv, ContextIsInnermost
<1> DEFINE q == stack[hookCtx]
<1>3. ASSUME NEW a \in StringArg \ {CallersString}, NEW k \in Nat, NEW r,
             r = [q EXCEPT !.arg = a, !.used = k]
      PROVE  r \in Frame /\ SameValue(r, q) /\ r.arg # CallersString
  BY <1>1, <1>3 DEF Frame, SameValue
<1>4. CASE tempUsed = StringsMax
  <2> DEFINE r == [q EXCEPT !.arg = SharedBuffer]
  <2>1. stack' = [stack EXCEPT ![hookCtx] = r]
    BY <1>4 DEF SetHookChainArg, SettingString
  <2>2. r \in Frame /\ SameValue(r, q) /\ r.arg # CallersString
    <3>1. SharedBuffer \in StringArg /\ SharedBuffer # CallersString
      BY DEF StringArg, SharedBuffer, CallersString
    <3>. QED
      BY <1>1, <3>1 DEF Frame, SameValue
  <2>. HIDE DEF r
  <2>. QED
    BY <1>1, <1>2, <2>1, <2>2
<1>5. CASE tempUsed # StringsMax
  <2> DEFINE r == [q EXCEPT !.arg = tempUsed, !.used = @ + 1]
  <2>1. stack' = [stack EXCEPT ![hookCtx] = r]
    BY <1>1, <1>5 DEF SetHookChainArg, SettingString
  <2>2. r \in Frame /\ SameValue(r, q) /\ r.arg # CallersString
    <3>1. tempUsed \in StringArg \ {CallersString}
      BY <1>1 DEF StringArg, CallersString
    <3>2. q.used + 1 \in Nat
      BY <1>1, FrameFields
    <3>3. r = [q EXCEPT !.arg = tempUsed, !.used = q.used + 1]
      OBVIOUS
    <3>. HIDE DEF r, q
    <3>. QED
      BY <1>3, <3>1, <3>2, <3>3
  <2>. HIDE DEF r
  <2>. QED
    BY <1>1, <1>2, <2>1, <2>2
<1>. QED
  BY <1>4, <1>5

LEMMA SetArgValue == ASSUME IInv, ValueInv, SetHookChainArg PROVE ValueInv'
<1>1. PICK r \in Frame : /\ stack' = [stack EXCEPT ![hookCtx] = r]
                         /\ SameValue(r, stack[hookCtx])
  BY SetArgStep
<1>2. hookCtx \in DOMAIN stack /\ \A i \in DOMAIN stack : SameValue(stack[i], stack[i])
  BY SetArgStep DEF SameValue
<1>3. \A i \in DOMAIN stack : SameValue(stack'[i], stack[i])
  BY <1>1, <1>2
<1>. QED
  BY <1>1, <1>3, ValueOfSame

LEMMA RegisterStep ==
    ASSUME IInv, NEW f \in Func, NEW l \in List, NEW b \in BOOLEAN,
           RegisterHookChain(f, l, b)
    PROVE  /\ stack' \in Seq(Frame) /\ Len(stack') = Len(stack)
           /\ DOMAIN stack' = DOMAIN stack
           /\ \A i \in DOMAIN stack : SameValue(stack'[i], stack[i])
           /\ \A i \in DOMAIN stack : stack'[i].arg = stack[i].arg
<1>1. stack \in Seq(Frame) /\ stack' \in Seq(Frame)
  BY RegisterType DEF IInv, TypeOK
<1>2. /\ DOMAIN stack' = DOMAIN stack
      /\ \A i \in DOMAIN stack : \E v : stack'[i] = [stack[i] EXCEPT !.stale = v]
  BY DEF RegisterHookChain
<1>3. ASSUME NEW i \in DOMAIN stack
      PROVE  SameValue(stack'[i], stack[i]) /\ stack'[i].arg = stack[i].arg
  <2>1. stack[i] \in Frame
    BY <1>1
  <2>2. PICK v : stack'[i] = [stack[i] EXCEPT !.stale = v]
    BY <1>2
  <2>. QED
    BY <2>1, <2>2 DEF SameValue, Frame
<1>4. Len(stack') = Len(stack)
  <2>1. /\ DOMAIN stack = 1 .. Len(stack) /\ DOMAIN stack' = 1 .. Len(stack')
        /\ Len(stack) \in Nat /\ Len(stack') \in Nat
    BY <1>1
  <2>. QED
    BY <1>2, <2>1
<1>. QED
  BY <1>1, <1>2, <1>3, <1>4

LEMMA CallStep ==
    ASSUME IInv, NEW f \in Func, Call(f)
    PROVE  \E r \in Frame :
              /\ stack' = Append(stack, r) /\ r.func = f /\ r.phase = "pre"
              /\ r.ret = Nobody /\ ~r.called /\ r.hc = HC_CONTINUE
              /\ r.arg = CallersString
<1> DEFINE r == NewCall(f, hookCtx, Len(forwards[f]["pre"]))
<1>1. hookCtx \in Nat /\ tempUsed \in Nat /\ Len(forwards[f]["pre"]) \in Nat
  BY BoundsAssumption DEF IInv, TypeOK, List
<1>2. r \in Frame
  BY <1>1, NewCallType
<1>3. /\ r.func = f /\ r.phase = "pre" /\ r.ret = Nobody /\ ~r.called
      /\ r.hc = HC_CONTINUE /\ r.arg = CallersString
  BY DEF NewCall
<1>4. stack' = Append(stack, r)
  BY DEF Call
<1>. HIDE DEF r
<1>. QED
  BY <1>2, <1>3, <1>4

LEMMA CallValue == ASSUME IInv, ValueInv, NEW f \in Func, Call(f) PROVE ValueInv'
<1>1. PICK r \in Frame :
         /\ stack' = Append(stack, r) /\ r.phase = "pre"
         /\ r.ret = Nobody /\ ~r.called /\ r.hc = HC_CONTINUE
  BY CallStep
<1>2. ValueOK(r, Len(stack) + 1)
  BY <1>1 DEF ValueOK, Nobody, Original, HC_CONTINUE, HC_SUPERCEDE
<1>. QED
  BY <1>1, <1>2, ValueOfPush DEF IInv

LEMMA PluginCallStep ==
    ASSUME IInv, PluginCall
    PROVE  \E r \in Frame :
              /\ stack' = Append(stack, r) /\ r.func = NoFunc
              /\ r.phase = "foreign" /\ r.ret = Nobody /\ r.arg = CallersString
<1> DEFINE q == NewCall(NoFunc, hookCtx, 0)
           r == [q EXCEPT !.phase = "foreign", !.running = TRUE]
<1>1. hookCtx \in Nat /\ tempUsed \in Nat
  BY BoundsAssumption DEF IInv, TypeOK
<1>2. /\ q \in Frame /\ q.func = NoFunc /\ q.ret = Nobody /\ q.arg = CallersString
  BY <1>1, NewCallType DEF NewCall
<1>3. stack' = Append(stack, r)
  BY DEF PluginCall, ForeignCall
<1>. HIDE DEF q
<1>4. /\ r \in Frame /\ r.func = NoFunc /\ r.phase = "foreign"
      /\ r.ret = Nobody /\ r.arg = CallersString
  BY <1>2 DEF Frame
<1>. HIDE DEF r
<1>. QED
  BY <1>3, <1>4

LEMMA PluginCallValue == ASSUME IInv, ValueInv, PluginCall PROVE ValueInv'
<1>1. PICK r \in Frame : /\ stack' = Append(stack, r) /\ r.phase = "foreign"
                         /\ r.ret = Nobody
  BY PluginCallStep
<1>2. ValueOK(r, Len(stack) + 1)
  BY <1>1 DEF ValueOK, Nobody, Original
<1>. QED
  BY <1>1, <1>2, ValueOfPush DEF IInv

-----------------------------------------------------------------------------
(* Steps of the topmost call's loops *)

LEMMA AdvanceSame ==
    ASSUME NEW r \in Frame
    PROVE  /\ SameValue(Advance(r), r) /\ Advance(r).arg = r.arg
           /\ SameValue(Break(r), r) /\ Break(r).arg = r.arg
BY DEF Advance, Break, SameValue, Frame

LEMMA ReturnedSame ==
    ASSUME NEW r \in Frame
    PROVE  SameValue(Returned(r), r) /\ Returned(r).arg = r.arg
BY DEF Returned, SameValue, Frame

\* The steps that leave the topmost call the value it has.
LEMMA SkipHandlerStep ==
    ASSUME IInv, SkipHandler
    PROVE  /\ stack # <<>>
           /\ \E r \in Frame : /\ stack' = SetTop(r) /\ SameValue(r, Top)
                               /\ r.arg = Top.arg
<1>1. stack # <<>> /\ Top.phase \in List /\ stack' = SetTop(Advance(Top))
  BY DEF SkipHandler, Looping
<1>2. Top \in Frame
  BY <1>1, TopOfHookedCall
<1>. QED
  BY <1>1, <1>2, AdvanceKin, AdvanceSame

LEMMA ExecuteForwardStep ==
    ASSUME IInv, ExecuteForward
    PROVE  /\ stack # <<>>
           /\ \E r : /\ stack' = SetTop(r) /\ SameValue(r, Top)
                     /\ r.arg = Top.arg
<1> DEFINE x == AtHandler.index
           r == [Top EXCEPT !.running = TRUE, !.index = x]
<1>1. stack # <<>> /\ Top.phase \in List /\ stack' = SetTop(r)
  BY DEF ExecuteForward, Looping
<1>2. Top \in Frame
  BY <1>1, TopOfHookedCall
<1>. HIDE DEF x
<1>3. SameValue(r, Top) /\ r.arg = Top.arg
  BY <1>2 DEF SameValue, Frame
<1>. HIDE DEF r
<1>. QED
  BY <1>1, <1>3

LEMMA PostReturnsStep ==
    ASSUME IInv, NEW ret \in HookChainState, PostReturns(ret)
    PROVE  /\ stack # <<>>
           /\ \E r : /\ stack' = SetTop(r) /\ SameValue(r, Top)
                     /\ r.arg = Top.arg
<1> DEFINE q == Returned(Top)
<1>1. /\ stack # <<>> /\ Top.phase \in List
      /\ stack' = SetTop(Break(q)) \/ stack' = SetTop(Advance(q))
  BY DEF PostReturns, InPlugin, List
<1>2. q \in Frame /\ SameValue(q, Top) /\ q.arg = Top.arg
  BY <1>1, TopOfHookedCall, KinOfReturned, ReturnedSame
<1>. HIDE DEF q
<1>3. /\ SameValue(Break(q), Top) /\ Break(q).arg = Top.arg
      /\ SameValue(Advance(q), Top) /\ Advance(q).arg = Top.arg
  BY <1>2, AdvanceSame DEF SameValue
<1>. QED
  BY <1>1, <1>3

\* A pre callback's result leaves the value alone, and supersedes the original
\* of a function with a value only if there is one.
LEMMA PreReturnsStep ==
    ASSUME IInv, NEW ret \in HookChainState, PreReturns(ret)
    PROVE  /\ stack # <<>> /\ Top.phase = "pre"
           /\ \E r : /\ stack' = SetTop(r)
                     /\ r.func = Top.func /\ r.phase = Top.phase
                     /\ r.ret = Top.ret /\ r.called = Top.called
                     /\ r.arg = Top.arg
                     /\ r.hc = Top.hc \/ r.func \in VoidFunc \/ r.ret # Nobody
<1> DEFINE q == Returned(Top)
           h == Heard(Top, ret)
           r == [q EXCEPT !.heard = h]
           s == IF Counts(ret) /\ ret > r.hc THEN [r EXCEPT !.hc = ret] ELSE r
           t == IF Top.func \in VoidFunc /\ ret = HC_BYPASS
                THEN Break(s) ELSE Advance(s)
<1>1. stack # <<>> /\ Top.phase = "pre" /\ stack' = SetTop(t)
  BY DEF PreReturns, InPlugin
<1>2. Top \in Frame
  BY <1>1, TopOfHookedCall DEF List
<1>3. q \in Frame /\ SameValue(q, Top) /\ q.arg = Top.arg
  BY <1>2, KinOfReturned, ReturnedSame
<1>. HIDE DEF q
<1>4. r \in Frame /\ SameValue(r, q) /\ r.arg = q.arg
  <2>1. h \in SUBSET HookChainState
    BY <1>2, HeardType
  <2>. HIDE DEF h
  <2>2. r \in Frame
    BY <1>3, <2>1, KinOfHeard
  <2>. QED
    BY <1>3, <2>2 DEF SameValue, Frame
<1>. HIDE DEF r
<1>5. /\ s \in Frame /\ s.func = r.func /\ s.phase = r.phase /\ s.ret = r.ret
      /\ s.called = r.called /\ s.arg = r.arg
      /\ s.hc = r.hc \/ Counts(ret)
  <2>1. s \in Frame
    BY <1>4, KinOfState
  <2>. QED
    BY <1>4, <2>1 DEF Frame
<1>. HIDE DEF s
<1>6. SameValue(t, s) /\ t.arg = s.arg
  BY <1>5, AdvanceSame
<1>. HIDE DEF t
<1>7. Counts(ret) => Top.func \in VoidFunc \/ Top.ret # Nobody
  BY DEF Counts
<1>. QED
  BY <1>1, <1>3, <1>4, <1>5, <1>6, <1>7 DEF SameValue

LEMMA CallOriginalStep ==
    ASSUME IInv, CallOriginal
    PROVE  /\ stack # <<>> /\ Top.phase = "pre"
           /\ \E r : /\ stack' = SetTop(r)
                     /\ r.func = Top.func /\ r.phase = "orig"
                     /\ r.ret = Top.ret /\ r.called = Top.called
                     /\ r.arg = Top.arg
<1> DEFINE r == [Top EXCEPT !.phase = "orig", !.stale = FALSE]
<1>1. stack # <<>> /\ Top.phase = "pre" /\ stack' = SetTop(r)
  BY DEF CallOriginal, InLoop
<1>2. Top \in Frame
  BY <1>1, TopOfHookedCall DEF List
<1>3. /\ r.func = Top.func /\ r.phase = "orig" /\ r.ret = Top.ret
      /\ r.called = Top.called /\ r.arg = Top.arg
  BY <1>2 DEF Frame
<1>. HIDE DEF r
<1>. QED
  BY <1>1, <1>3

LEMMA StartPostFields ==
    ASSUME NEW r \in Frame
    PROVE  LET s == StartPost(r) IN
           /\ s.func = r.func /\ s.phase = "post" /\ s.ret = r.ret
           /\ s.called = r.called /\ s.arg = r.arg
<1> DEFINE e == IF r.func \in VoidFunc /\ r.hc = HC_BYPASS
                THEN 0 ELSE Len(forwards[r.func]["post"])
           s == [r EXCEPT !.phase = "post", !.pos = 1, !.stale = FALSE, !.end = e]
<1>1. StartPost(r) = s
  BY DEF StartPost
<1>. HIDE DEF e
<1>2. /\ s.func = r.func /\ s.phase = "post" /\ s.ret = r.ret
      /\ s.called = r.called /\ s.arg = r.arg
  BY DEF Frame
<1>. QED
  BY <1>1, <1>2

LEMMA SkipOriginalStep ==
    ASSUME IInv, SkipOriginal
    PROVE  /\ stack # <<>> /\ Top.phase = "pre" /\ Top.hc = HC_SUPERCEDE
           /\ \E r : /\ stack' = SetTop(r)
                     /\ r.func = Top.func /\ r.phase = "post"
                     /\ r.ret = Top.ret /\ r.called = Top.called
                     /\ r.arg = Top.arg
<1>1. /\ stack # <<>> /\ Top.phase = "pre" /\ Top.hc = HC_SUPERCEDE
      /\ stack' = SetTop(StartPost(Top))
  BY DEF SkipOriginal, InLoop
<1>2. Top \in Frame
  BY <1>1, TopOfHookedCall DEF List
<1>. QED
  BY <1>1, <1>2, StartPostFields

LEMMA OriginalReturnsStep ==
    ASSUME IInv, OriginalReturns
    PROVE  /\ stack # <<>> /\ Top.phase = "orig"
           /\ \E r : /\ stack' = SetTop(r)
                     /\ r.func = Top.func /\ r.phase = "post"
                     /\ r.ret = IF Top.func \notin VoidFunc /\ Top.ret = Nobody
                                THEN Original ELSE Top.ret
                     /\ r.called
                     /\ r.arg = Top.arg
<1> DEFINE v == IF Top.func \notin VoidFunc /\ Top.ret = Nobody
                THEN Original ELSE Top.ret
           q == [Top EXCEPT !.called = TRUE, !.ret = v]
<1>1. /\ stack # <<>> /\ Top.phase = "orig" /\ stack' = SetTop(StartPost(q))
  BY DEF OriginalReturns
<1>2. Top \in Frame
  BY <1>1, TopType DEF IInv
<1>3. v \in Int
  BY <1>2, FrameFields DEF Original
<1>. HIDE DEF v
<1>4. /\ q \in Frame /\ q.func = Top.func /\ q.ret = v /\ q.called
      /\ q.arg = Top.arg
  BY <1>2, <1>3 DEF Frame
<1>. HIDE DEF q
<1>5. /\ StartPost(q).func = Top.func /\ StartPost(q).phase = "post"
      /\ StartPost(q).ret = v /\ StartPost(q).called /\ StartPost(q).arg = Top.arg
  BY <1>4, StartPostFields
<1>. QED
  BY <1>1, <1>5 DEF v

\* A call that ends: by its way through the post callbacks, or early.
LEMMA EndStep ==
    ASSUME IInv, ValueInv, CallReturns \/ PreReturnsBreak
    PROVE  /\ stack # <<>> /\ Top.phase \in List /\ stack' = Below
           /\ Top.func \in VoidFunc \/ Top.ret # Nobody
           /\ result' = Given(Top) \/ (PreReturnsBreak /\ result' = GivenEarly(Top))
<1>1. CASE CallReturns
  <2>1. /\ stack # <<>> /\ Top.phase = "post" /\ stack' = Below
        /\ result' = Given(Top)
    BY <1>1 DEF CallReturns, InLoop, Leave
  <2>2. Top.func \in VoidFunc \/ Top.ret # Nobody
    BY <2>1, TopValue DEF ValueOK
  <2>. QED
    BY <2>1, <2>2 DEF List
<1>2. CASE PreReturnsBreak
  BY <1>2 DEF PreReturnsBreak, InPlugin, Leave, List, Counts
<1>. QED
  BY <1>1, <1>2

LEMMA LoopValue ==
    ASSUME IInv, ValueInv, Loop
    PROVE  ValueInv'
<1>0. TypeOK
  BY DEF IInv
<1>1. CASE SkipHandler
  BY <1>0, <1>1, SkipHandlerStep, TopValue, SameValueOK, ValueOfTop
<1>2. CASE ExecuteForward
  BY <1>0, <1>2, ExecuteForwardStep, TopValue, SameValueOK, ValueOfTop
<1>3. CASE CallOriginal
  <2>1. PICK r : /\ stack' = SetTop(r) /\ r.func = Top.func /\ r.phase = "orig"
                 /\ r.ret = Top.ret /\ r.called = Top.called
    BY <1>3, CallOriginalStep
  <2>2. ValueOK(r, Len(stack))
    BY <1>3, <2>1, CallOriginalStep, TopValue DEF ValueOK
  <2>. QED
    BY <1>0, <1>3, <2>1, <2>2, CallOriginalStep, ValueOfTop
<1>4. CASE SkipOriginal
  <2>1. PICK r : /\ stack' = SetTop(r) /\ r.func = Top.func /\ r.phase = "post"
                 /\ r.ret = Top.ret /\ r.called = Top.called
    BY <1>4, SkipOriginalStep
  <2>2. /\ Top.phase = "pre" /\ Top.hc = HC_SUPERCEDE /\ stack # <<>>
        /\ ValueOK(Top, Len(stack))
    BY <1>4, SkipOriginalStep, TopValue
  <2>3. ValueOK(r, Len(stack))
    BY <2>1, <2>2 DEF ValueOK
  <2>. QED
    BY <1>0, <2>1, <2>2, <2>3, ValueOfTop
<1>5. CASE CallReturns
  BY <1>0, <1>5, EndStep, ValueOfPop
<1>6. CASE Crash
  BY <1>6 DEF Crash, ValueInv
<1>. QED
  BY <1>1, <1>2, <1>3, <1>4, <1>5, <1>6 DEF Loop

LEMMA OutsideValue ==
    ASSUME IInv, ValueInv, Outside
    PROVE  ValueInv'
<1>0. TypeOK
  BY DEF IInv
<1>1. CASE \E f \in Func : Call(f)
  BY <1>1, CallValue
<1>2. CASE PreReturnsBreak
  BY <1>0, <1>2, EndStep, ValueOfPop
<1>3. CASE \E ret \in HookChainState : PreReturns(ret)
  <2>1. PICK ret \in HookChainState : PreReturns(ret)
    BY <1>3
  <2>2. PICK r : /\ stack' = SetTop(r)
                 /\ r.func = Top.func /\ r.phase = Top.phase
                 /\ r.ret = Top.ret /\ r.called = Top.called
                 /\ r.hc = Top.hc \/ r.func \in VoidFunc \/ r.ret # Nobody
    BY <2>1, PreReturnsStep
  <2>3. stack # <<>> /\ Top.phase = "pre" /\ ValueOK(Top, Len(stack))
    BY <2>1, PreReturnsStep, TopValue
  <2>4. ValueOK(r, Len(stack))
    BY <2>2, <2>3 DEF ValueOK
  <2>. QED
    BY <1>0, <2>2, <2>3, <2>4, ValueOfTop
<1>4. CASE \E ret \in HookChainState : PostReturns(ret)
  BY <1>0, <1>4, PostReturnsStep, TopValue, SameValueOK, ValueOfTop
<1>5. CASE OriginalReturns
  <2>1. PICK r : /\ stack' = SetTop(r)
                 /\ r.func = Top.func /\ r.phase = "post"
                 /\ r.ret = IF Top.func \notin VoidFunc /\ Top.ret = Nobody
                            THEN Original ELSE Top.ret
                 /\ r.called
    BY <1>5, OriginalReturnsStep
  <2>2. stack # <<>> /\ ValueOK(Top, Len(stack))
    BY <1>5, OriginalReturnsStep, TopValue
  <2>3. ValueOK(r, Len(stack))
    BY <2>1, <2>2 DEF ValueOK, Nobody, Original
  <2>. QED
    BY <1>0, <2>1, <2>2, <2>3, ValueOfTop
<1>6. CASE PluginCall
  BY <1>6, PluginCallValue
<1>7. CASE PluginReturns
  BY <1>0, <1>7, ValueOfPop DEF PluginReturns, InPlugin
<1>8. CASE ServerDeactivate
  BY <1>8 DEF ServerDeactivate, calls, ValueInv
<1>. QED
  BY <1>1, <1>2, <1>3, <1>4, <1>5, <1>6, <1>7, <1>8 DEF Outside

LEMMA NativeValue ==
    ASSUME IInv, ValueInv, Native
    PROVE  ValueInv'
<1>1. CASE \E f \in Func, l \in List, b \in BOOLEAN : RegisterHookChain(f, l, b)
  BY <1>1, RegisterStep, ValueOfSame
<1>2. CASE \E h \in Handles : EnableHookChain(h) \/ DisableHookChain(h)
  BY <1>2 DEF EnableHookChain, DisableHookChain, SetState, ValueInv
<1>. QED
  BY <1>1, <1>2, SetReturnValue, SetArgValue DEF Native

-----------------------------------------------------------------------------
(* Return values *)

\* Together with the invariant of HookChainProofs, ValueInv is inductive
\* (_callForward, SetHookChainReturn).
THEOREM ValueInvariance == Spec => [](IInv /\ ValueInv)
<1>1. Init => ValueInv
  BY DEF Init, ValueInv
<1>2. IInv /\ ValueInv /\ [Next]_vars => ValueInv'
  <2>1. ASSUME IInv, ValueInv, UNCHANGED vars PROVE ValueInv'
    BY <2>1 DEF vars, ValueInv
  <2>. QED
    BY <2>1, LoopValue, OutsideValue, NativeValue DEF Next
<1>. QED
  BY <1>1, <1>2, Invariance, PTL DEF Spec

\* A call that returns a value has one, of its own callbacks or of its own
\* original, when its post callbacks and its caller need it, in every nesting
\* of calls (_callForward).
THEOREM ReturnValueAlwaysSound == Spec => []ReturnValueSound
<1>1. ASSUME IInv, ValueInv PROVE ReturnValueSound
  <2> SUFFICES ASSUME NEW i \in DOMAIN stack
               PROVE  LET r == stack[i] IN
                      /\ r.ret \in {Nobody, Original, i}
                      /\ r.ret = Original => r.called
                      /\ r.phase = "post" /\ r.func \notin VoidFunc =>
                            r.ret # Nobody /\ (~r.called => r.ret = i)
                      /\ i = Len(stack) /\ r.running /\ r.phase = "post"
                           /\ r.func \notin VoidFunc =>
                            GetHookChainReturn \in {Original, i}
    BY DEF ReturnValueSound
  <2>1. ValueOK(stack[i], i)
    BY <1>1 DEF ValueInv
  <2>2. ASSUME i = Len(stack), stack[i].phase = "post",
               stack[i].func \notin VoidFunc
        PROVE  GetHookChainReturn \in {Original, i}
    <3>1. hookCtx = Len(stack) /\ Len(stack) # 0
      <4>1. stack # <<>> /\ Top.phase \in List
        BY <2>2 DEF Top, List
      <4>. QED
        BY <1>1, <4>1, TopOfHookedCall, TopType DEF IInv
    <3>. QED
      BY <2>1, <2>2, <3>1 DEF GetHookChainReturn, ValueOK
  <2>. QED
    BY <2>1, <2>2 DEF ValueOK
<1>. QED
  BY <1>1, ValueInvariance, PTL

-----------------------------------------------------------------------------
(* HookChain implements HookCalls *)

\* The calls of HookCalls that a stack stands for.
AbsFrame == {AbstractCall(r, n) : r \in Frame, n \in Nat}
AbsOf(s) == [i \in DOMAIN s |-> AbstractCall(s[i], i)]

LEMMA AbsAt ==
    ASSUME NEW s
    PROVE  /\ DOMAIN AbsOf(s) = DOMAIN s
           /\ \A i \in DOMAIN s : AbsOf(s)[i] = AbstractCall(s[i], i)
BY DEF AbsOf

LEMMA AbsType ==
    ASSUME NEW s \in Seq(Frame)
    PROVE  /\ AbsOf(s) \in Seq(AbsFrame)
           /\ Len(AbsOf(s)) = Len(s) /\ DOMAIN AbsOf(s) = DOMAIN s
<1> DEFINE g(i) == AbstractCall(s[i], i)
<1>1. Len(s) \in Nat /\ DOMAIN s = 1 .. Len(s)
  OBVIOUS
<1>2. \A i \in 1 .. Len(s) : g(i) \in AbsFrame
  BY <1>1 DEF AbsFrame
<1>3. AbsOf(s) = [i \in 1 .. Len(s) |-> g(i)]
  BY <1>1 DEF AbsOf
<1> HIDE DEF g
<1>. QED
  BY <1>1, <1>2, <1>3

\* The abstraction of a frame depends on its function, phase, value and
\* argument.
LEMMA AbstractSame ==
    ASSUME NEW q, NEW r, NEW n, q.func = r.func, q.phase = r.phase,
           q.ret = r.ret, q.arg = r.arg
    PROVE  AbstractCall(q, n) = AbstractCall(r, n)
BY DEF AbstractCall, Value, Stage

LEMMA AbsSame ==
    ASSUME NEW s \in Seq(Frame), NEW t, DOMAIN t = DOMAIN s,
           \A i \in DOMAIN s : AbstractCall(t[i], i) = AbstractCall(s[i], i)
    PROVE  AbsOf(t) = AbsOf(s)
BY DEF AbsOf

LEMMA AbsPush ==
    ASSUME NEW s \in Seq(Frame), NEW r \in Frame
    PROVE  AbsOf(Append(s, r)) = Append(AbsOf(s), AbstractCall(r, Len(s) + 1))
<1> DEFINE n == Len(s) + 1
           a == AbstractCall(r, n)
           t == Append(s, r)
           u == AbsOf(s)
<1>1. /\ n \in Nat /\ n - 1 \in Nat /\ n \in 1 .. n /\ Len(s) = n - 1
      /\ DOMAIN s = 1 .. (n - 1) /\ DOMAIN t = 1 .. n
      /\ t[n] = r /\ \A i \in 1 .. (n - 1) : t[i] = s[i]
  OBVIOUS
<1>2. /\ u \in Seq(AbsFrame) /\ Len(u) = n - 1 /\ DOMAIN u = 1 .. (n - 1)
      /\ \A i \in 1 .. (n - 1) : u[i] = AbstractCall(s[i], i)
  BY <1>1, AbsType, AbsAt
<1>. HIDE DEF n, t
<1>3. a \in AbsFrame
  BY <1>1 DEF AbsFrame
<1>. HIDE DEF a, u
<1>4. /\ AbsOf(t) \in Seq(AbsFrame) /\ Len(AbsOf(t)) = n
      /\ \A i \in 1 .. n : AbsOf(t)[i] = AbstractCall(t[i], i)
  <2>1. t \in Seq(Frame) /\ Len(t) = n
    BY <1>1 DEF t, n
  <2>. QED
    BY <1>1, <2>1, AbsType, AbsAt
<1>5. /\ Append(u, a) \in Seq(AbsFrame) /\ Len(Append(u, a)) = n
      /\ Append(u, a)[n] = a
      /\ \A i \in 1 .. (n - 1) : Append(u, a)[i] = u[i]
  BY <1>1, <1>2, <1>3
<1>6. \A i \in 1 .. n : AbsOf(t)[i] = Append(u, a)[i]
  <2> SUFFICES ASSUME NEW i \in 1 .. n PROVE AbsOf(t)[i] = Append(u, a)[i]
    OBVIOUS
  <2>1. i = n \/ i \in 1 .. (n - 1)
    BY <1>1
  <2>2. CASE i = n
    BY <1>1, <1>4, <1>5, <2>2 DEF a
  <2>3. CASE i \in 1 .. (n - 1)
    BY <1>1, <1>2, <1>4, <1>5, <2>3
  <2>. QED
    BY <2>1, <2>2, <2>3
<1>7. AbsOf(t) = Append(u, a)
  <2> DEFINE v == AbsOf(t)
             w == Append(u, a)
  <2>1. /\ v \in Seq(AbsFrame) /\ w \in Seq(AbsFrame) /\ Len(v) = Len(w)
        /\ \A i \in 1 .. Len(v) : v[i] = w[i]
    BY <1>4, <1>5, <1>6
  <2>. HIDE DEF v, w
  <2>2. v = w
    BY <2>1
  <2>. QED
    BY <2>2 DEF v, w
<1>. QED
  BY <1>7 DEF a, t, u, n

LEMMA AbsPop ==
    ASSUME NEW s \in Seq(Frame), s # <<>>
    PROVE  AbsOf(SubSeq(s, 1, Len(s) - 1)) = SubSeq(AbsOf(s), 1, Len(AbsOf(s)) - 1)
<1> DEFINE n == Len(s) - 1
           t == SubSeq(s, 1, n)
           u == AbsOf(s)
<1>1. n \in Nat /\ DOMAIN s = 1 .. (n + 1) /\ Len(s) = n + 1
  OBVIOUS
<1>2. /\ u \in Seq(AbsFrame) /\ Len(u) = n + 1
      /\ \A i \in 1 .. n : u[i] = AbstractCall(s[i], i)
  BY <1>1, AbsType, AbsAt
<1>. HIDE DEF n
<1>3. t = [i \in 1 .. n |-> s[i]]
  BY <1>1
<1>. HIDE DEF t
<1>4. AbsOf(t) = [i \in 1 .. n |-> AbstractCall(s[i], i)]
  BY <1>3 DEF AbsOf
<1>. HIDE DEF u
<1>5. SubSeq(u, 1, n) = [i \in 1 .. n |-> u[i]]
  BY <1>1, <1>2
<1>6. SubSeq(u, 1, n) = AbsOf(t)
  BY <1>2, <1>4, <1>5
<1>7. Len(u) - 1 = n
  BY <1>1, <1>2
<1>. QED
  BY <1>6, <1>7 DEF n, t, u

LEMMA AbsExcept ==
    ASSUME NEW s \in Seq(Frame), NEW k \in DOMAIN s, NEW r
    PROVE  AbsOf([s EXCEPT ![k] = r]) = [AbsOf(s) EXCEPT ![k] = AbstractCall(r, k)]
BY DEF AbsOf

-----------------------------------------------------------------------------
(* What a step of HookCalls is, in terms of the abstraction *)

LEMMA StutterStep ==
    ASSUME AbsOf(stack') = AbsOf(stack), result' = result
    PROVE  UNCHANGED Calls!vars
BY DEF AbsOf, Calls!vars

LEMMA PushStep ==
    ASSUME NEW r, result' = result,
           AbsOf(stack') = Append(AbsOf(stack), r),
           \/ \E f \in Func : r = Calls!NewCall(f, "before")
           \/ r = Calls!NewCall(NoFunc, "foreign")
    PROVE  Calls!Next
<1>1. CASE \E f \in Func : r = Calls!NewCall(f, "before")
  BY <1>1 DEF AbsOf, Calls!Next, Calls!Begin
<1>2. CASE r = Calls!NewCall(NoFunc, "foreign")
  BY <1>2 DEF AbsOf, Calls!Next, Calls!BeginForeign
<1>. QED
  BY <1>1, <1>2

LEMMA PopStep ==
    ASSUME stack # <<>>,
           AbsOf(stack') = SubSeq(AbsOf(stack), 1, Len(AbsOf(stack)) - 1),
           LET r == AbsOf(stack)[Len(AbsOf(stack))] IN
           \/ r.stage = "foreign" /\ result' = result
           \/ /\ r.stage \in {"before", "after"}
              /\ r.func \in VoidFunc \/ r.value # "none"
              /\ result' = IF r.func \in VoidFunc THEN "none" ELSE r.value
    PROVE  Calls!Next
<1> DEFINE s == AbsOf(stack)
           r == s[Len(s)]
<1>1. s # <<>>
  BY DEF AbsOf
<1>2. CASE r.stage = "foreign" /\ result' = result
  BY <1>1, <1>2 DEF AbsOf, Calls!Next, Calls!EndForeign, Calls!InStage,
     Calls!Last, Calls!Below
<1>3. CASE /\ r.stage \in {"before", "after"}
           /\ r.func \in VoidFunc \/ r.value # "none"
           /\ result' = IF r.func \in VoidFunc THEN "none" ELSE r.value
  BY <1>1, <1>3 DEF AbsOf, Calls!Next, Calls!Return, Calls!InStage,
     Calls!Last, Calls!Below, Calls!HasValue
<1>. QED
  BY <1>2, <1>3

LEMMA LastStep ==
    ASSUME stack # <<>>, NEW r, result' = result,
           AbsOf(stack') = [AbsOf(stack) EXCEPT ![Len(AbsOf(stack))] = r],
           LET q == AbsOf(stack)[Len(AbsOf(stack))] IN
           \/ q.stage = "before" /\ r = [q EXCEPT !.stage = "in"]
           \/ /\ q.stage = "before"
              /\ q.func \in VoidFunc \/ q.value # "none"
              /\ r = [q EXCEPT !.stage = "after"]
           \/ /\ q.stage = "in"
              /\ r = [[q EXCEPT !.stage = "after"]
                         EXCEPT !.value = IF q.func \in VoidFunc \/ q.value # "none"
                                          THEN q.value ELSE "original"]
    PROVE  Calls!Next
<1> DEFINE s == AbsOf(stack)
           q == s[Len(s)]
<1>1. s # <<>>
  BY DEF AbsOf
<1>2. CASE q.stage = "before" /\ r = [q EXCEPT !.stage = "in"]
  BY <1>1, <1>2 DEF AbsOf, Calls!Next, Calls!OriginalStarts, Calls!InStage,
     Calls!Last, Calls!SetLast
<1>3. CASE /\ q.stage = "before"
           /\ q.func \in VoidFunc \/ q.value # "none"
           /\ r = [q EXCEPT !.stage = "after"]
  BY <1>1, <1>3 DEF AbsOf, Calls!Next, Calls!OriginalSkipped, Calls!InStage,
     Calls!Last, Calls!SetLast, Calls!HasValue
<1>4. CASE /\ q.stage = "in"
           /\ r = [[q EXCEPT !.stage = "after"]
                      EXCEPT !.value = IF q.func \in VoidFunc \/ q.value # "none"
                                       THEN q.value ELSE "original"]
  BY <1>1, <1>4 DEF AbsOf, Calls!Next, Calls!OriginalEnds, Calls!InStage,
     Calls!Last, Calls!SetLast, Calls!HasValue
<1>. QED
  BY <1>2, <1>3, <1>4

LEMMA CurrentStep ==
    ASSUME NEW c \in Calls!Current, NEW r, result' = result,
           AbsOf(stack') = [AbsOf(stack) EXCEPT ![c] = r],
           \/ r = [AbsOf(stack)[c] EXCEPT !.value = "plugin"]
           \/ r = [AbsOf(stack)[c] EXCEPT !.argument = "plugin"]
    PROVE  Calls!Next
<1>1. CASE r = [AbsOf(stack)[c] EXCEPT !.value = "plugin"]
  <2>1. Calls!SetValue
    BY <1>1 DEF AbsOf, Calls!SetValue
  <2>. QED
    BY <2>1 DEF Calls!Next
<1>2. CASE r = [AbsOf(stack)[c] EXCEPT !.argument = "plugin"]
  <2>1. Calls!RedirectArgument
    BY <1>2 DEF AbsOf, Calls!RedirectArgument
  <2>. QED
    BY <2>1 DEF Calls!Next
<1>. QED
  BY <1>1, <1>2

-----------------------------------------------------------------------------
(* What a step of HookChain does to the abstraction *)

\* The frames of the abstraction are records of these fields.
LEMMA AbstractRecord ==
    ASSUME NEW q, NEW n
    PROVE  AbstractCall(q, n) =
              [func |-> q.func, stage |-> Stage(q), value |-> Value(q, n),
               argument |-> IF q.arg = CallersString THEN "caller" ELSE "plugin"]
BY DEF AbstractCall

LEMMA ValueCases ==
    ASSUME NEW r, NEW n \in Nat \ {0}
    PROVE  /\ r.ret = Nobody => Value(r, n) = "none"
           /\ r.ret = Original => Value(r, n) = "original"
           /\ r.ret = n => Value(r, n) = "plugin"
           /\ r.ret # Nobody => Value(r, n) # "none"
BY DEF Value, Nobody, Original

LEMMA TopAbs ==
    ASSUME TypeOK, stack # <<>>
    PROVE  /\ Len(AbsOf(stack)) = Len(stack)
           /\ AbsOf(stack)[Len(AbsOf(stack))] = AbstractCall(Top, Len(stack))
<1>1. stack \in Seq(Frame) /\ Len(stack) \in DOMAIN stack
  BY TopType DEF TypeOK
<1>. QED
  BY <1>1, AbsType, AbsAt DEF Top

LEMMA SetTopAbs ==
    ASSUME TypeOK, stack # <<>>, NEW r, stack' = SetTop(r)
    PROVE  AbsOf(stack') =
              [AbsOf(stack) EXCEPT ![Len(AbsOf(stack))] = AbstractCall(r, Len(stack))]
<1>1. stack \in Seq(Frame) /\ Len(stack) \in DOMAIN stack
  BY TopType DEF TypeOK
<1>2. Len(AbsOf(stack)) = Len(stack)
  BY <1>1, AbsType
<1>. QED
  BY <1>1, <1>2, AbsExcept DEF SetTop

\* A step that leaves what the abstraction sees of the topmost frame alone.
LEMMA TopSameAbs ==
    ASSUME TypeOK, stack # <<>>, NEW r, stack' = SetTop(r),
           r.func = Top.func, r.phase = Top.phase, r.ret = Top.ret,
           r.arg = Top.arg
    PROVE  AbsOf(stack') = AbsOf(stack)
<1>1. /\ stack \in Seq(Frame) /\ DOMAIN stack' = DOMAIN stack
      /\ stack'[Len(stack)] = r
      /\ \A i \in DOMAIN stack : i # Len(stack) => stack'[i] = stack[i]
  BY TopType DEF TypeOK, SetTop
<1>2. AbstractCall(r, Len(stack)) = AbstractCall(Top, Len(stack))
  BY AbstractSame
<1>3. \A i \in DOMAIN stack : AbstractCall(stack'[i], i) = AbstractCall(stack[i], i)
  BY <1>1, <1>2 DEF Top
<1>. QED
  BY <1>1, <1>3, AbsSame

LEMMA PushAbs ==
    ASSUME TypeOK, NEW q \in Frame, stack' = Append(stack, q),
           q.ret = Nobody, q.arg = CallersString
    PROVE  AbsOf(stack') =
              Append(AbsOf(stack), Calls!NewCall(q.func, Stage(q)))
<1>1. stack \in Seq(Frame) /\ Len(stack) \in Nat
  BY DEF TypeOK
<1>2. AbstractCall(q, Len(stack) + 1) = Calls!NewCall(q.func, Stage(q))
  BY <1>1, AbstractRecord, ValueCases DEF Calls!NewCall
<1>. QED
  BY <1>1, <1>2, AbsPush

LEMMA PopAbs ==
    ASSUME TypeOK, stack # <<>>, stack' = Below
    PROVE  AbsOf(stack') = SubSeq(AbsOf(stack), 1, Len(AbsOf(stack)) - 1)
BY AbsPop DEF TypeOK, Below

\* The context of a plugin callback is the current call of HookCalls.
LEMMA CurrentAbs ==
    ASSUME TypeOK, NEW c \in DOMAIN stack, Prescribed(stack, c, Len(stack))
    PROVE  c \in Calls!Current
<1>1. /\ stack \in Seq(Frame) /\ DOMAIN stack = 1 .. Len(stack) /\ Len(stack) \in Nat
      /\ c # 0
  BY DEF TypeOK
<1>2. /\ stack[c].phase \in List
      /\ \A j \in (c + 1) .. Len(stack) : Foreign(stack[j])
  BY <1>1 DEF Prescribed
<1>3. Stage(stack[c]) \in {"before", "after"}
  BY <1>2 DEF Stage, List
<1>4. \A j \in DOMAIN stack : j > c => Stage(stack[j]) = "foreign"
  BY <1>1, <1>2 DEF Stage, Foreign
<1>5. \A j \in DOMAIN stack : AbsOf(stack)[j].stage = Stage(stack[j])
  BY AbsAt, AbstractRecord
<1>6. /\ c \in DOMAIN AbsOf(stack)
      /\ AbsOf(stack)[c].stage \in {"before", "after"}
      /\ \A j \in DOMAIN AbsOf(stack) : j > c => AbsOf(stack)[j].stage = "foreign"
  BY <1>3, <1>4, <1>5, AbsAt
<1>. QED
  BY <1>6 DEF AbsOf, Calls!Current

-----------------------------------------------------------------------------
(* Every step of HookChain is a step of HookCalls *)

CallsStep == Calls!Next \/ UNCHANGED Calls!vars

LEMMA SameIsStutter ==
    ASSUME TypeOK, result' = result, DOMAIN stack' = DOMAIN stack,
           \A i \in DOMAIN stack :
              /\ SameValue(stack'[i], stack[i])
              /\ stack'[i].arg = stack[i].arg
    PROVE  CallsStep
<1>1. \A i \in DOMAIN stack : AbstractCall(stack'[i], i) = AbstractCall(stack[i], i)
  BY AbstractSame DEF SameValue
<1>2. stack \in Seq(Frame)
  BY DEF TypeOK
<1>. QED
  BY <1>1, <1>2, AbsSame, StutterStep DEF CallsStep

LEMMA TopIsStutter ==
    ASSUME TypeOK, result' = result, stack # <<>>,
           NEW r, stack' = SetTop(r), r.func = Top.func, r.phase = Top.phase,
           r.ret = Top.ret, r.arg = Top.arg
    PROVE  CallsStep
BY TopSameAbs, StutterStep DEF CallsStep

LEMMA SetReturnCalls == ASSUME IInv, SetHookChainReturn PROVE CallsStep
<1> DEFINE q == stack[hookCtx]
           r == [q EXCEPT !.ret = hookCtx]
<1>1. /\ TypeOK /\ stack \in Seq(Frame) /\ hookCtx \in DOMAIN stack
      /\ hookCtx \in Nat \ {0} /\ q \in Frame /\ stack' = [stack EXCEPT ![hookCtx] = r]
      /\ result' = result
  <2>1. hookCtx \in DOMAIN stack /\ stack' = [stack EXCEPT ![hookCtx] = r]
    BY SetReturnStep
  <2>. HIDE DEF r
  <2>2. TypeOK /\ result' = result
    BY DEF IInv, SetHookChainReturn
  <2>3. stack \in Seq(Frame) /\ hookCtx \in Nat \ {0} /\ q \in Frame
    BY <2>1, <2>2 DEF TypeOK
  <2>. QED
    BY <2>1, <2>2, <2>3
<1>2. hookCtx \in Calls!Current
  BY <1>1, CurrentAbs DEF IInv, ContextInv, ContextIsInnermost
<1>3. /\ r.func = q.func /\ r.phase = q.phase /\ r.arg = q.arg /\ r.ret = hookCtx
  BY <1>1 DEF Frame
<1>4. /\ AbsOf(stack') = [AbsOf(stack) EXCEPT ![hookCtx] = AbstractCall(r, hookCtx)]
      /\ AbsOf(stack)[hookCtx] = AbstractCall(q, hookCtx)
  BY <1>1, AbsExcept, AbsAt
<1>. HIDE DEF q, r
<1>5. AbstractCall(r, hookCtx) = [AbstractCall(q, hookCtx) EXCEPT !.value = "plugin"]
  <2>1. Value(r, hookCtx) = "plugin" /\ Stage(r) = Stage(q)
    BY <1>1, <1>3, ValueCases DEF Stage
  <2>. QED
    BY <1>3, <2>1, AbstractRecord
<1>. QED
  BY <1>1, <1>2, <1>4, <1>5, CurrentStep DEF CallsStep

LEMMA SetArgCalls == ASSUME IInv, SetHookChainArg PROVE CallsStep
<1> DEFINE q == stack[hookCtx]
<1>1. PICK r \in Frame : /\ stack' = [stack EXCEPT ![hookCtx] = r]
                         /\ SameValue(r, q) /\ r.arg # CallersString
  BY SetArgStep
<1>2. /\ TypeOK /\ stack \in Seq(Frame) /\ hookCtx \in DOMAIN stack
      /\ result' = result
  BY SetArgStep DEF IInv, TypeOK, SetHookChainArg, SettingString
<1>3. hookCtx \in Calls!Current
  BY <1>2, CurrentAbs DEF IInv, ContextInv, ContextIsInnermost
<1>4. /\ AbsOf(stack') = [AbsOf(stack) EXCEPT ![hookCtx] = AbstractCall(r, hookCtx)]
      /\ AbsOf(stack)[hookCtx] = AbstractCall(q, hookCtx)
  BY <1>1, <1>2, AbsExcept, AbsAt
<1>. HIDE DEF q
<1>5. AbstractCall(r, hookCtx) = [AbstractCall(q, hookCtx) EXCEPT !.argument = "plugin"]
  <2>1. Value(r, hookCtx) = Value(q, hookCtx) /\ Stage(r) = Stage(q)
    BY <1>1 DEF SameValue, Value, Stage
  <2>. QED
    BY <1>1, <2>1, AbstractRecord DEF SameValue
<1>. QED
  BY <1>2, <1>3, <1>4, <1>5, CurrentStep DEF CallsStep

LEMMA NativeCalls == ASSUME IInv, Native PROVE CallsStep
<1>0. TypeOK
  BY DEF IInv
<1>1. CASE \E f \in Func, l \in List, b \in BOOLEAN : RegisterHookChain(f, l, b)
  <2>1. result' = result
    BY <1>1 DEF RegisterHookChain
  <2>. QED
    BY <1>0, <1>1, <2>1, RegisterStep, SameIsStutter
<1>2. CASE \E h \in Handles : EnableHookChain(h) \/ DisableHookChain(h)
  <2>1. stack' = stack /\ result' = result
    BY <1>2 DEF EnableHookChain, DisableHookChain, SetState
  <2>. QED
    BY <2>1, StutterStep DEF CallsStep
<1>. QED
  BY <1>1, <1>2, SetReturnCalls, SetArgCalls DEF Native

LEMMA CallCalls == ASSUME IInv, NEW f \in Func, Call(f) PROVE CallsStep
<1>1. PICK r \in Frame :
         /\ stack' = Append(stack, r) /\ r.func = f /\ r.phase = "pre"
         /\ r.ret = Nobody /\ r.arg = CallersString
  BY CallStep
<1>2. TypeOK /\ result' = result /\ Stage(r) = "before"
  BY <1>1 DEF IInv, Call, Stage
<1>3. AbsOf(stack') = Append(AbsOf(stack), Calls!NewCall(f, "before"))
  BY <1>1, <1>2, PushAbs
<1>. QED
  BY <1>2, <1>3, PushStep DEF CallsStep

LEMMA PluginCallCalls == ASSUME IInv, PluginCall PROVE CallsStep
<1>1. PICK r \in Frame :
         /\ stack' = Append(stack, r) /\ r.func = NoFunc /\ r.phase = "foreign"
         /\ r.ret = Nobody /\ r.arg = CallersString
  BY PluginCallStep
<1>2. TypeOK /\ result' = result /\ Stage(r) = "foreign"
  BY <1>1 DEF IInv, PluginCall, Stage
<1>3. AbsOf(stack') = Append(AbsOf(stack), Calls!NewCall(NoFunc, "foreign"))
  BY <1>1, <1>2, PushAbs
<1>. QED
  BY <1>2, <1>3, PushStep DEF CallsStep

LEMMA PluginReturnsCalls == ASSUME IInv, PluginReturns PROVE CallsStep
<1>1. /\ TypeOK /\ stack # <<>> /\ Top.phase = "foreign" /\ stack' = Below
      /\ result' = result
  BY DEF IInv, PluginReturns, InPlugin
<1>2. AbsOf(stack)[Len(AbsOf(stack))].stage = "foreign"
  BY <1>1, TopAbs, AbstractRecord DEF Stage
<1>. QED
  BY <1>1, <1>2, PopAbs, PopStep DEF CallsStep

LEMMA CallOriginalCalls == ASSUME IInv, CallOriginal PROVE CallsStep
<1> DEFINE n == Len(stack)
<1>1. PICK r : /\ stack' = SetTop(r) /\ r.func = Top.func /\ r.phase = "orig"
               /\ r.ret = Top.ret /\ r.arg = Top.arg
  BY CallOriginalStep
<1>2. TypeOK /\ stack # <<>> /\ Top.phase = "pre" /\ result' = result
  BY CallOriginalStep DEF IInv, CallOriginal
<1>3. /\ AbstractCall(Top, n).stage = "before"
      /\ AbstractCall(r, n) = [AbstractCall(Top, n) EXCEPT !.stage = "in"]
  <2>1. Stage(r) = "in" /\ Stage(Top) = "before" /\ Value(r, n) = Value(Top, n)
    BY <1>1, <1>2 DEF Stage, Value
  <2>. QED
    BY <1>1, <2>1, AbstractRecord
<1>. QED
  BY <1>1, <1>2, <1>3, TopAbs, SetTopAbs, LastStep DEF CallsStep

LEMMA SkipOriginalCalls == ASSUME IInv, ValueInv, SkipOriginal PROVE CallsStep
<1> DEFINE n == Len(stack)
           a == AbstractCall(Top, n)
<1>1. PICK r : /\ stack' = SetTop(r) /\ r.func = Top.func /\ r.phase = "post"
               /\ r.ret = Top.ret /\ r.arg = Top.arg
  BY SkipOriginalStep
<1>2. /\ TypeOK /\ stack # <<>> /\ Top.phase = "pre" /\ Top.hc = HC_SUPERCEDE
      /\ result' = result
  BY SkipOriginalStep DEF IInv, SkipOriginal
<1>3. n \in Nat \ {0} /\ (Top.func \in VoidFunc \/ Top.ret # Nobody)
  BY <1>2, TopValue DEF ValueOK
<1>4. /\ a.stage = "before"
      /\ a.func \in VoidFunc \/ a.value # "none"
      /\ AbstractCall(r, n) = [a EXCEPT !.stage = "after"]
  <2>1. Stage(r) = "after" /\ Stage(Top) = "before" /\ Value(r, n) = Value(Top, n)
    BY <1>1, <1>2 DEF Stage, Value
  <2>2. Top.func \in VoidFunc \/ Value(Top, n) # "none"
    BY <1>3, ValueCases
  <2>. QED
    BY <1>1, <2>1, <2>2, AbstractRecord
<1>. QED
  BY <1>1, <1>2, <1>4, TopAbs, SetTopAbs, LastStep DEF CallsStep

LEMMA OriginalReturnsCalls ==
    ASSUME IInv, ValueInv, OriginalReturns PROVE CallsStep
<1> DEFINE n == Len(stack)
           a == AbstractCall(Top, n)
           v == IF a.func \in VoidFunc \/ a.value # "none"
                THEN a.value ELSE "original"
<1>1. PICK r : /\ stack' = SetTop(r) /\ r.func = Top.func /\ r.phase = "post"
               /\ r.ret = IF Top.func \notin VoidFunc /\ Top.ret = Nobody
                          THEN Original ELSE Top.ret
               /\ r.arg = Top.arg
  BY OriginalReturnsStep
<1>2. TypeOK /\ stack # <<>> /\ Top.phase = "orig" /\ result' = result
  BY OriginalReturnsStep DEF IInv, OriginalReturns
<1>3. n \in Nat \ {0}
  BY <1>2, TopType
<1>4. a.func = Top.func /\ a.stage = "in" /\ a.value = Value(Top, n)
  BY <1>2, AbstractRecord DEF Stage
<1>5. Value(r, n) = v
  BY <1>1, <1>3, <1>4, ValueCases DEF Value
<1>6. AbstractCall(r, n) = [[a EXCEPT !.stage = "after"] EXCEPT !.value = v]
  <2>1. Stage(r) = "after" /\ r.func = Top.func /\ r.arg = Top.arg
    BY <1>1 DEF Stage
  <2> DEFINE x == IF Top.arg = CallersString THEN "caller" ELSE "plugin"
  <2>2. a = [func |-> Top.func, stage |-> Stage(Top), value |-> Value(Top, n),
             argument |-> x]
    BY AbstractRecord
  <2>. HIDE DEF a, v
  <2>3. AbstractCall(r, n) = [func |-> Top.func, stage |-> "after", value |-> v,
                              argument |-> x]
    BY <1>5, <2>1, AbstractRecord
  <2> DEFINE b == [a EXCEPT !.stage = "after"]
  <2>4. b = [func |-> Top.func, stage |-> "after", value |-> Value(Top, n),
             argument |-> x]
    BY <2>2
  <2>. HIDE DEF b, x, n
  <2>5. AbstractCall(r, n) = [b EXCEPT !.value = v]
    BY <2>3, <2>4
  <2>. QED
    BY <2>5 DEF b
<1>7. /\ stack # <<>>
      /\ AbsOf(stack)[Len(AbsOf(stack))] = a
      /\ AbsOf(stack') = [AbsOf(stack) EXCEPT
                            ![Len(AbsOf(stack))] = AbstractCall(r, n)]
  BY <1>1, <1>2, TopAbs, SetTopAbs
<1>. HIDE DEF a, n
<1>. QED
  BY <1>2, <1>4, <1>6, <1>7, LastStep DEF CallsStep

LEMMA EndCalls ==
    ASSUME IInv, ValueInv,
           CallReturns \/ (PreReturnsBreak /\ RefFunc = {})
    PROVE  CallsStep
<1> DEFINE n == Len(stack)
           a == AbstractCall(Top, n)
<1>1. /\ TypeOK /\ stack # <<>> /\ Top.phase \in List /\ stack' = Below
      /\ Top.func \in VoidFunc \/ Top.ret # Nobody
  BY EndStep DEF IInv
<1>2. result' = Given(Top)
  <2>1. RefFunc = {} => GivenEarly(Top) = Given(Top)
    BY DEF GivenEarly
  <2>2. CallReturns => result' = Given(Top)
    BY DEF CallReturns, Leave
  <2>3. PreReturnsBreak => result' = GivenEarly(Top)
    BY DEF PreReturnsBreak, Leave
  <2>. QED
    BY <2>1, <2>2, <2>3
<1>3. n \in Nat \ {0}
  BY <1>1, TopType
<1>4. /\ a.func = Top.func /\ a.stage \in {"before", "after"}
      /\ a.value = Value(Top, n)
  BY <1>1, AbstractRecord DEF Stage, List
<1>5. /\ a.func \in VoidFunc \/ a.value # "none"
      /\ result' = IF a.func \in VoidFunc THEN "none" ELSE a.value
  BY <1>1, <1>2, <1>3, <1>4, ValueCases DEF Given
<1>. QED
  BY <1>1, <1>4, <1>5, TopAbs, PopAbs, PopStep DEF CallsStep

LEMMA LoopCalls == ASSUME IInv, ValueInv, Loop PROVE CallsStep
<1>0. TypeOK
  BY DEF IInv
<1>1. CASE SkipHandler
  <2>1. result' = result
    BY <1>1 DEF SkipHandler
  <2>. QED
    BY <1>0, <1>1, <2>1, SkipHandlerStep, TopIsStutter DEF SameValue
<1>2. CASE ExecuteForward
  <2>1. result' = result
    BY <1>2 DEF ExecuteForward
  <2>. QED
    BY <1>0, <1>2, <2>1, ExecuteForwardStep, TopIsStutter DEF SameValue
<1>3. CASE CallOriginal
  BY <1>3, CallOriginalCalls
<1>4. CASE SkipOriginal
  BY <1>4, SkipOriginalCalls
<1>5. CASE CallReturns
  BY <1>5, EndCalls
<1>6. CASE Crash
  <2>1. AbsOf(stack') = <<>> /\ result' = "none"
    BY <1>6 DEF Crash, AbsOf
  <2>2. Calls!Restart
    BY <2>1 DEF AbsOf, Calls!Restart
  <2>. QED
    BY <2>2 DEF CallsStep, Calls!Next
<1>. QED
  BY <1>1, <1>2, <1>3, <1>4, <1>5, <1>6 DEF Loop

LEMMA OutsideCalls ==
    ASSUME RefFunc = {}, IInv, ValueInv, Outside PROVE CallsStep
<1>0. TypeOK
  BY DEF IInv
<1>1. CASE \E f \in Func : Call(f)
  BY <1>1, CallCalls
<1>2. CASE PreReturnsBreak
  BY <1>2, EndCalls
<1>3. CASE \E ret \in HookChainState : PreReturns(ret)
  <2>1. PICK ret \in HookChainState : PreReturns(ret)
    BY <1>3
  <2>2. result' = result
    BY <2>1 DEF PreReturns
  <2>. QED
    BY <1>0, <2>1, <2>2, PreReturnsStep, TopIsStutter
<1>4. CASE \E ret \in HookChainState : PostReturns(ret)
  <2>1. PICK ret \in HookChainState : PostReturns(ret)
    BY <1>4
  <2>2. result' = result
    BY <2>1 DEF PostReturns
  <2>. QED
    BY <1>0, <2>1, <2>2, PostReturnsStep, TopIsStutter DEF SameValue
<1>5. CASE OriginalReturns
  BY <1>5, OriginalReturnsCalls
<1>6. CASE PluginCall
  BY <1>6, PluginCallCalls
<1>7. CASE PluginReturns
  BY <1>7, PluginReturnsCalls
<1>8. CASE ServerDeactivate
  <2>1. stack' = stack /\ result' = result
    BY <1>8 DEF ServerDeactivate, calls
  <2>. QED
    BY <2>1, StutterStep DEF CallsStep
<1>. QED
  BY <1>1, <1>2, <1>3, <1>4, <1>5, <1>6, <1>7, <1>8 DEF Outside

-----------------------------------------------------------------------------
(* Refinement *)

\* As long as no function returns a reference, whatever plugins do to a call
\* and around it is what HookCalls promises (callForward, callVoidForward).
THEOREM ImplementsCalls ==
    ASSUME RefFunc = {}
    PROVE  Spec => ImplementsHookCalls
<1>1. Init => Calls!Init
  BY DEF Init, Calls!Init
<1>2. IInv /\ ValueInv /\ [Next]_vars => [Calls!Next]_(Calls!vars)
  <2>1. ASSUME UNCHANGED vars PROVE UNCHANGED Calls!vars
    BY <2>1, StutterStep DEF vars
  <2>2. ASSUME IInv, ValueInv, Next PROVE CallsStep
    BY <2>2, NativeCalls, LoopCalls, OutsideCalls DEF Next
  <2>. QED
    BY <2>1, <2>2 DEF CallsStep
<1>. QED
  BY <1>1, <1>2, ValueInvariance, PTL DEF Spec, ImplementsHookCalls, Calls!Spec

-----------------------------------------------------------------------------
(* What callbacks decide, use and ask: the inductive invariant *)

\* What the results of its pre callbacks have decided about the call r.
DemandOK(r) ==
    /\ r.hc # HC_CONTINUE => r.hc \in r.heard
    /\ HC_BREAK \notin r.heard
    /\ r.func \in VoidFunc => \A x \in r.heard : x <= r.hc
    /\ r.func \notin VoidFunc =>
          /\ r.hc \in {HC_CONTINUE, HC_SUPERCEDE}
          /\ HC_SUPERCEDE \in r.heard => r.hc = HC_SUPERCEDE
    /\ r.phase # "post" => ~r.called
    /\ r.phase = "orig" => ~r.running /\ r.hc # HC_SUPERCEDE
    /\ r.phase = "post" => (~r.called <=> r.hc = HC_SUPERCEDE)
    /\ r.func \in VoidFunc /\ HC_BYPASS \in r.heard /\ r.phase \in List =>
          ~r.running /\ r.pos > r.end

\* The string argument of r points to a temporary string of its own.
SlotOK(r) ==
    /\ Foreign(r) => r.arg = CallersString
    /\ OwnSlot(r) => r.base <= r.arg /\ r.arg < r.base + r.used

\* The callback that r is executing.
IndexOK(r) ==
    /\ Foreign(r) => r.func = NoFunc
    /\ Foreign(r) \/ ~r.running => r.index = InvalidHandle
    /\ r.phase \in List /\ r.running =>
          r.pos <= r.end /\ r.index = Encode(r.func, r.pos, r.phase = "post")

CallOK(r) == DemandOK(r) /\ SlotOK(r) /\ IndexOK(r)

\* The temporary strings in use after the first n calls of s ...
InUse(s, n, u) ==
    \/ (\A i \in 1 .. n : Foreign(s[i])) /\ u = 0
    \/ \E c \in 1 .. n : /\ ~Foreign(s[c]) /\ u = s[c].base + s[c].used
                         /\ \A j \in (c + 1) .. n : Foreign(s[j])

\* ... are where the next call begins.
StringsOK(s, u) ==
    /\ InUse(s, Len(s), u)
    /\ \A i \in DOMAIN s : ~Foreign(s[i]) => InUse(s, i - 1, s[i].base)

\* Plugin code or an original function made the calls on top of i.
WaitsOK(s) == \A i \in DOMAIN s : i < Len(s) => s[i].running \/ s[i].phase = "orig"

\* The innermost call of f is past its original.
PastOriginal(s, f) ==
    \E i \in DOMAIN s : /\ s[i].func = f /\ s[i].phase = "post" /\ s[i].called
                        /\ \A j \in DOMAIN s : s[j].func = f => j <= i

WasCalledOK(s, w) == \A f \in Func : w[f] => PastOriginal(s, f)

CallInfoInv ==
    /\ \A i \in DOMAIN stack : CallOK(stack[i])
    /\ StringsOK(stack, tempUsed)
    /\ WaitsOK(stack)
    /\ WasCalledOK(stack, wasCalled)

-----------------------------------------------------------------------------
(* Which changes of a stack keep it *)

SameStrings(q, r) ==
    (Foreign(q) <=> Foreign(r)) /\ q.base = r.base /\ q.used = r.used

LEMMA InUseOfSame ==
    ASSUME NEW s, NEW t, NEW n \in Nat, NEW u, \A i \in 1 .. n : SameStrings(t[i], s[i]),
           InUse(s, n, u)
    PROVE  InUse(t, n, u)
<1>1. \A c \in 1 .. n : (c + 1) .. n \subseteq 1 .. n
  OBVIOUS
<1>. QED
  BY <1>1 DEF InUse, SameStrings

LEMMA StringsOfSame ==
    ASSUME NEW s \in Seq(Frame), NEW t \in Seq(Frame), Len(t) = Len(s), NEW u,
           \A i \in DOMAIN s : SameStrings(t[i], s[i]), StringsOK(s, u)
    PROVE  StringsOK(t, u)
<1>1. DOMAIN s = 1 .. Len(s) /\ DOMAIN t = 1 .. Len(s) /\ Len(s) \in Nat
  OBVIOUS
<1>2. InUse(t, Len(s), u)
  BY <1>1, InUseOfSame DEF StringsOK
<1>3. ASSUME NEW i \in DOMAIN t, ~Foreign(t[i]) PROVE InUse(t, i - 1, t[i].base)
  <2>1. i - 1 \in Nat /\ 1 .. (i - 1) \subseteq 1 .. Len(s) /\ i \in DOMAIN s
    BY <1>1
  <2>2. ~Foreign(s[i]) /\ t[i].base = s[i].base
    BY <1>3, <2>1 DEF SameStrings
  <2>3. InUse(s, i - 1, t[i].base)
    BY <2>1, <2>2 DEF StringsOK
  <2>. QED
    BY <1>1, <2>1, <2>3, InUseOfSame
<1>. QED
  BY <1>2, <1>3 DEF StringsOK

LEMMA StringsOfPush ==
    ASSUME NEW s \in Seq(Frame), NEW r \in Frame, NEW u \in Nat, StringsOK(s, u),
           Foreign(r) \/ (r.base = u /\ r.used = 0)
    PROVE  StringsOK(Append(s, r), u)
<1> DEFINE t == Append(s, r)
           n == Len(s)
<1>1. /\ n \in Nat /\ DOMAIN s = 1 .. n /\ DOMAIN t = 1 .. (n + 1) /\ Len(t) = n + 1
      /\ t[n + 1] = r /\ \A i \in 1 .. n : t[i] = s[i]
  OBVIOUS
<1>. HIDE DEF t, n
<1>2. \A i \in 1 .. n : SameStrings(t[i], s[i])
  BY <1>1 DEF SameStrings
<1>3. ASSUME NEW i \in 0 .. n, NEW v, InUse(s, i, v) PROVE InUse(t, i, v)
  <2>1. i \in Nat /\ 1 .. i \subseteq 1 .. n
    BY <1>1
  <2>. QED
    BY <1>2, <1>3, <2>1, InUseOfSame
<1>4. InUse(t, n, u)
  BY <1>1, <1>3 DEF StringsOK, n
<1>5. InUse(t, n + 1, u)
  <2>1. CASE Foreign(r)
    <3>1. \A j \in 1 .. (n + 1) : j \in 1 .. n \/ Foreign(t[j])
      BY <1>1, <2>1
    <3>2. \A c \in 1 .. n : c \in 1 .. (n + 1)
             /\ \A j \in (c + 1) .. (n + 1) : j \in (c + 1) .. n \/ Foreign(t[j])
      BY <1>1, <2>1
    <3>. QED
      BY <1>4, <3>1, <3>2 DEF InUse
  <2>2. CASE ~Foreign(r) /\ r.base = u /\ r.used = 0
    <3>1. /\ n + 1 \in 1 .. (n + 1) /\ u = t[n + 1].base + t[n + 1].used
          /\ \A j \in (n + 1 + 1) .. (n + 1) : Foreign(t[j])
      BY <1>1, <2>2
    <3>. QED
      BY <1>1, <2>2, <3>1 DEF InUse
  <2>. QED
    BY <2>1, <2>2
<1>6. ASSUME NEW i \in DOMAIN t, ~Foreign(t[i]) PROVE InUse(t, i - 1, t[i].base)
  <2>1. CASE i = n + 1
    <3>1. i - 1 = n /\ t[i].base = u
      BY <1>1, <1>6, <2>1
    <3>. QED
      BY <1>4, <3>1
  <2>2. CASE i \in 1 .. n
    <3>1. InUse(s, i - 1, t[i].base) /\ i - 1 \in 0 .. n
      BY <1>1, <1>6, <2>2 DEF StringsOK
    <3>. QED
      BY <1>3, <3>1
  <2>. QED
    BY <1>1, <2>1, <2>2
<1>. QED
  BY <1>1, <1>5, <1>6 DEF StringsOK, t

\* A call that is over gives back what it began with.
LEMMA StringsOfPop ==
    ASSUME NEW s \in Seq(Frame), NEW n \in Nat \ {0}, n = Len(s),
           NEW t \in Seq(Frame), Len(t) = n - 1, \A i \in DOMAIN t : t[i] = s[i],
           NEW u, StringsOK(s, u)
    PROVE  StringsOK(t, IF Foreign(s[n]) THEN u ELSE s[n].base)
<1>1. DOMAIN s = 1 .. n /\ DOMAIN t = 1 .. (n - 1) /\ n - 1 \in Nat
  OBVIOUS
<1>2. \A i \in 1 .. (n - 1) : SameStrings(t[i], s[i])
  BY <1>1 DEF SameStrings
<1>3. ASSUME NEW i \in 0 .. (n - 1), NEW v, InUse(s, i, v) PROVE InUse(t, i, v)
  <2>1. i \in Nat /\ 1 .. i \subseteq 1 .. (n - 1)
    BY <1>1
  <2>. QED
    BY <1>2, <1>3, <2>1, InUseOfSame
<1>4. InUse(s, n - 1, IF Foreign(s[n]) THEN u ELSE s[n].base)
  <2>1. CASE ~Foreign(s[n])
    BY <1>1, <2>1 DEF StringsOK
  <2>2. CASE Foreign(s[n])
    <3>1. InUse(s, n, u)
      BY DEF StringsOK
    <3>2. \A c \in 1 .. n : c = n \/ (c \in 1 .. (n - 1) /\ (c + 1) .. (n - 1) \subseteq (c + 1) .. n)
      BY <1>1
    <3>3. 1 .. (n - 1) \subseteq 1 .. n
      BY <1>1
    <3>4. InUse(s, n - 1, u)
      BY <2>2, <3>1, <3>2, <3>3 DEF InUse
    <3>. QED
      BY <2>2, <3>4
  <2>. QED
    BY <2>1, <2>2
<1>5. ASSUME NEW i \in DOMAIN t, ~Foreign(t[i]) PROVE InUse(t, i - 1, t[i].base)
  <2>1. InUse(s, i - 1, t[i].base) /\ i - 1 \in 0 .. (n - 1)
    BY <1>1, <1>5 DEF StringsOK
  <2>. QED
    BY <1>3, <2>1
<1>. QED
  BY <1>1, <1>3, <1>4, <1>5 DEF StringsOK

\* The frames keep all that the stack as a whole depends on.
SameStage(q, r) ==
    /\ SameStrings(q, r) /\ q.func = r.func /\ q.phase = r.phase
    /\ q.called = r.called /\ q.running = r.running

LEMMA InfoOfSame ==
    ASSUME TypeOK, CallInfoInv, stack' \in Seq(Frame), Len(stack') = Len(stack),
           \A i \in DOMAIN stack : SameStage(stack'[i], stack[i]) /\ CallOK(stack'[i]),
           UNCHANGED <<tempUsed, wasCalled>>
    PROVE  CallInfoInv'
<1>1. stack \in Seq(Frame) /\ DOMAIN stack' = DOMAIN stack
  BY DEF TypeOK
<1>2. StringsOK(stack', tempUsed)
  BY <1>1, StringsOfSame DEF CallInfoInv, SameStage
<1>3. WaitsOK(stack')
  BY <1>1 DEF CallInfoInv, WaitsOK, SameStage
<1>4. WasCalledOK(stack', wasCalled)
  BY <1>1 DEF CallInfoInv, WasCalledOK, PastOriginal, SameStage
<1>. QED
  BY <1>1, <1>2, <1>3, <1>4 DEF CallInfoInv

\* The topmost call goes on, and if it was past its original it still is.
LEMMA InfoOfTop ==
    ASSUME TypeOK, CallInfoInv, stack # <<>>, NEW r \in Frame, stack' = SetTop(r),
           CallOK(r), SameStrings(r, Top), r.func = Top.func,
           Top.phase = "post" /\ Top.called => r.phase = "post" /\ r.called,
           UNCHANGED tempUsed,
           \A f \in Func : wasCalled'[f] =>
              wasCalled[f] \/ (f = r.func /\ r.phase = "post" /\ r.called)
    PROVE  CallInfoInv'
<1> DEFINE n == Len(stack)
<1>1. /\ stack \in Seq(Frame) /\ stack' \in Seq(Frame) /\ Len(stack') = n
      /\ n \in Nat \ {0} /\ DOMAIN stack = 1 .. n /\ DOMAIN stack' = 1 .. n
      /\ Top = stack[n]
  BY TopType, SetTopType DEF TypeOK, Top
<1>2. stack'[n] = r /\ \A i \in 1 .. n : i # n => stack'[i] = stack[i]
  BY <1>1 DEF SetTop
<1>. HIDE DEF n
<1>3. \A i \in 1 .. n : SameStrings(stack'[i], stack[i])
  BY <1>1, <1>2 DEF SameStrings
<1>4. StringsOK(stack', tempUsed)
  BY <1>1, <1>3, StringsOfSame DEF CallInfoInv, n
<1>5. WaitsOK(stack')
  <2>. SUFFICES ASSUME NEW i \in 1 .. n, i < n
                PROVE  stack'[i].running \/ stack'[i].phase = "orig"
    BY <1>1 DEF WaitsOK
  <2>1. stack[i].running \/ stack[i].phase = "orig"
    BY <1>1 DEF CallInfoInv, WaitsOK, n
  <2>2. stack'[i] = stack[i]
    BY <1>1, <1>2
  <2>. QED
    BY <2>1, <2>2
<1>6. ASSUME NEW f \in Func, wasCalled'[f] PROVE PastOriginal(stack', f)
  <2>1. CASE f = r.func /\ r.phase = "post" /\ r.called
    <3>1. n \in DOMAIN stack' /\ \A j \in DOMAIN stack' : j <= n
      BY <1>1
    <3>. QED
      BY <1>2, <2>1, <3>1 DEF PastOriginal
  <2>2. CASE wasCalled[f]
    <3>1. PICK i \in 1 .. n : /\ stack[i].func = f /\ stack[i].phase = "post"
                              /\ stack[i].called
                              /\ \A j \in 1 .. n : stack[j].func = f => j <= i
      BY <1>1, <2>2 DEF CallInfoInv, WasCalledOK, PastOriginal
    <3>2. \A j \in 1 .. n : stack'[j].func = stack[j].func
      BY <1>1, <1>2
    <3>3. stack'[i].phase = "post" /\ stack'[i].called
      BY <1>1, <1>2, <3>1
    <3>. QED
      BY <1>1, <3>1, <3>2, <3>3 DEF PastOriginal
  <2>. QED
    BY <1>6, <2>1, <2>2
<1>7. \A i \in DOMAIN stack' : CallOK(stack'[i])
  BY <1>1, <1>2 DEF CallInfoInv
<1>. QED
  BY <1>4, <1>5, <1>6, <1>7 DEF CallInfoInv, WasCalledOK

\* A new call, while the topmost waits for it.
LEMMA InfoOfPush ==
    ASSUME TypeOK, CallInfoInv, NEW r \in Frame, stack' = Append(stack, r), CallOK(r),
           Foreign(r) \/ (r.base = tempUsed /\ r.used = 0),
           stack # <<>> => Top.running \/ Top.phase = "orig",
           UNCHANGED tempUsed,
           \A f \in Func : wasCalled'[f] => wasCalled[f] /\ f # r.func
    PROVE  CallInfoInv'
<1> DEFINE n == Len(stack)
<1>1. /\ stack \in Seq(Frame) /\ n \in Nat /\ tempUsed \in Nat
      /\ DOMAIN stack = 1 .. n /\ DOMAIN stack' = 1 .. (n + 1) /\ Len(stack') = n + 1
      /\ stack'[n + 1] = r /\ \A i \in 1 .. n : stack'[i] = stack[i]
  BY BoundsAssumption DEF TypeOK
<1>2. StringsOK(stack', tempUsed)
  BY <1>1, StringsOfPush DEF CallInfoInv
<1>. HIDE DEF n
<1>3. WaitsOK(stack')
  <2>1. n \in DOMAIN stack => stack[n].running \/ stack[n].phase = "orig"
    <3>1. n \in DOMAIN stack => stack # <<>>
      BY <1>1
    <3>. QED
      BY <3>1 DEF Top, n
  <2>. QED
    BY <1>1, <2>1 DEF CallInfoInv, WaitsOK, n
<1>4. WasCalledOK(stack', wasCalled')
  <2>. SUFFICES ASSUME NEW f \in Func, wasCalled'[f] PROVE PastOriginal(stack', f)
    BY DEF WasCalledOK
  <2>1. PICK i \in 1 .. n : /\ stack[i].func = f /\ stack[i].phase = "post"
                            /\ stack[i].called
                            /\ \A j \in 1 .. n : stack[j].func = f => j <= i
    BY <1>1 DEF CallInfoInv, WasCalledOK, PastOriginal
  <2>2. stack'[n + 1].func # f
    BY <1>1
  <2>3. i \in 1 .. (n + 1) /\ \A j \in 1 .. (n + 1) : j = n + 1 \/ j \in 1 .. n
    BY <1>1
  <2>. QED
    BY <1>1, <2>1, <2>2, <2>3 DEF PastOriginal
<1>5. \A i \in DOMAIN stack' : CallOK(stack'[i])
  <2>1. \A i \in 1 .. (n + 1) : i = n + 1 \/ i \in 1 .. n
    BY <1>1
  <2>. QED
    BY <1>1, <2>1 DEF CallInfoInv
<1>. QED
  BY <1>2, <1>3, <1>4, <1>5 DEF CallInfoInv

\* The topmost call is over.
LEMMA InfoOfPop ==
    ASSUME TypeOK, CallInfoInv, stack # <<>>, stack' = Below,
           tempUsed' = (IF Foreign(Top) THEN tempUsed ELSE Top.base),
           \A f \in Func : wasCalled'[f] =>
              wasCalled[f] /\ ~(f = Top.func /\ Top.phase = "post")
    PROVE  CallInfoInv'
<1> DEFINE n == Len(stack)
<1>1. /\ stack \in Seq(Frame) /\ stack' \in Seq(Frame) /\ Len(stack') = n - 1
      /\ n \in Nat \ {0} /\ Top = stack[n]
      /\ DOMAIN stack = 1 .. n /\ DOMAIN stack' = 1 .. (n - 1)
      /\ \A i \in 1 .. (n - 1) : stack'[i] = stack[i]
  BY TopType, BelowType DEF TypeOK, Top
<1>2. StringsOK(stack', tempUsed')
  BY <1>1, StringsOfPop DEF CallInfoInv
<1>. HIDE DEF n
<1>3. WaitsOK(stack')
  BY <1>1 DEF CallInfoInv, WaitsOK, n
<1>4. WasCalledOK(stack', wasCalled')
  <2>. SUFFICES ASSUME NEW f \in Func, wasCalled'[f] PROVE PastOriginal(stack', f)
    BY DEF WasCalledOK
  <2>1. PICK i \in 1 .. n : /\ stack[i].func = f /\ stack[i].phase = "post"
                            /\ stack[i].called
                            /\ \A j \in 1 .. n : stack[j].func = f => j <= i
    BY <1>1 DEF CallInfoInv, WasCalledOK, PastOriginal
  <2>2. i # n
    BY <1>1, <2>1
  <2>3. i \in 1 .. (n - 1) /\ \A j \in 1 .. (n - 1) : j \in 1 .. n
    BY <1>1, <2>2
  <2>. QED
    BY <1>1, <2>1, <2>3 DEF PastOriginal
<1>5. \A i \in DOMAIN stack' : CallOK(stack'[i])
  BY <1>1 DEF CallInfoInv
<1>. QED
  BY <1>2, <1>3, <1>4, <1>5 DEF CallInfoInv

-----------------------------------------------------------------------------
(* Every step keeps it: the natives *)

\* The call r does, and has decided, what q does and has.
SameProgress(q, r) ==
    /\ q.func = r.func /\ q.phase = r.phase /\ q.hc = r.hc /\ q.called = r.called
    /\ q.heard = r.heard /\ q.running = r.running /\ q.pos = r.pos /\ q.end = r.end
    /\ q.index = r.index

SameSlot(q, r) ==
    q.phase = r.phase /\ q.arg = r.arg /\ q.base = r.base /\ q.used = r.used

LEMMA ProgressKeeps ==
    ASSUME NEW q, NEW r, SameProgress(q, r), DemandOK(r), IndexOK(r)
    PROVE  DemandOK(q) /\ IndexOK(q)
BY DEF SameProgress, DemandOK, IndexOK, Foreign

LEMMA SlotKeeps ==
    ASSUME NEW q, NEW r, SameSlot(q, r), SlotOK(r)
    PROVE  SlotOK(q) /\ SameStrings(q, r)
BY DEF SameSlot, SlotOK, OwnSlot, SameStrings, Foreign

LEMMA SameKeeps ==
    ASSUME NEW q, NEW r, SameProgress(q, r), SameSlot(q, r), CallOK(r)
    PROVE  CallOK(q) /\ SameStage(q, r)
<1>1. DemandOK(q) /\ IndexOK(q) /\ SlotOK(q) /\ SameStrings(q, r)
  BY ProgressKeeps, SlotKeeps DEF CallOK
<1>. QED
  BY <1>1 DEF CallOK, SameStage, SameProgress

LEMMA SameOfNatives ==
    ASSUME NEW r \in Frame, NEW v
    PROVE  /\ SameProgress([r EXCEPT !.stale = v], r) /\ SameSlot([r EXCEPT !.stale = v], r)
           /\ SameProgress([r EXCEPT !.ret = v], r) /\ SameSlot([r EXCEPT !.ret = v], r)
           /\ SameProgress(r, r) /\ SameSlot(r, r)
BY DEF Frame, SameProgress, SameSlot

LEMMA RegisterInfo ==
    ASSUME IInv, CallInfoInv, NEW f \in Func, NEW l \in List, NEW b \in BOOLEAN,
           RegisterHookChain(f, l, b)
    PROVE  CallInfoInv'
<1>1. /\ stack \in Seq(Frame) /\ stack' \in Seq(Frame) /\ Len(stack') = Len(stack)
      /\ TypeOK
  BY RegisterStep DEF IInv, TypeOK
<1>2. /\ \A i \in DOMAIN stack : \E v : stack'[i] = [stack[i] EXCEPT !.stale = v]
      /\ UNCHANGED <<tempUsed, wasCalled>>
  BY DEF RegisterHookChain
<1>3. ASSUME NEW i \in DOMAIN stack
      PROVE  SameStage(stack'[i], stack[i]) /\ CallOK(stack'[i])
  <2>1. stack[i] \in Frame /\ CallOK(stack[i])
    BY <1>1 DEF CallInfoInv
  <2>. QED
    BY <1>2, <2>1, SameOfNatives, SameKeeps
<1>. QED
  BY <1>1, <1>2, <1>3, InfoOfSame

LEMMA SetReturnInfo ==
    ASSUME IInv, CallInfoInv, SetHookChainReturn
    PROVE  CallInfoInv'
<1>1. /\ hookCtx \in DOMAIN stack
      /\ stack' = [stack EXCEPT ![hookCtx].ret = hookCtx]
      /\ stack \in Seq(Frame) /\ TypeOK /\ TypeOK' /\ UNCHANGED <<tempUsed, wasCalled>>
  BY SetReturnStep, SetReturnInv DEF IInv, TypeOK, SetHookChainReturn
<1>2. stack' \in Seq(Frame) /\ DOMAIN stack' = DOMAIN stack
  BY <1>1 DEF TypeOK
<1>3. Len(stack') = Len(stack)
  <2>1. /\ DOMAIN stack = 1 .. Len(stack) /\ DOMAIN stack' = 1 .. Len(stack')
        /\ Len(stack) \in Nat /\ Len(stack') \in Nat
    BY <1>1, <1>2
  <2>. QED
    BY <1>2, <2>1
<1>4. \A i \in DOMAIN stack : stack'[i] = stack[i] \/ \E v : stack'[i] = [stack[i] EXCEPT !.ret = v]
  BY <1>1
<1>5. ASSUME NEW i \in DOMAIN stack
      PROVE  SameStage(stack'[i], stack[i]) /\ CallOK(stack'[i])
  <2>1. stack[i] \in Frame /\ CallOK(stack[i])
    BY <1>1 DEF CallInfoInv
  <2>. QED
    BY <1>4, <2>1, SameOfNatives, SameKeeps
<1>. QED
  BY <1>1, <1>2, <1>3, <1>5, InfoOfSame

\* The innermost hooked call takes k more temporary strings.
LEMMA StringsOfUse ==
    ASSUME NEW s \in Seq(Frame), NEW t \in Seq(Frame), Len(t) = Len(s), NEW u \in Nat,
           StringsOK(s, u), NEW c \in DOMAIN s, ~Foreign(s[c]),
           \A j \in DOMAIN s : j > c => Foreign(s[j]),
           \A i \in DOMAIN s : i # c => t[i] = s[i],
           NEW k \in Nat, ~Foreign(t[c]), t[c].base = s[c].base, t[c].used = s[c].used + k
    PROVE  s[c].base + s[c].used = u /\ StringsOK(t, u + k)
<1> DEFINE n == Len(s)
<1>1. /\ n \in Nat /\ DOMAIN s = 1 .. n /\ DOMAIN t = 1 .. n /\ c \in 1 .. n
      /\ s[c].base \in Nat /\ s[c].used \in Nat
  BY FrameFields
<1>. HIDE DEF n
<1>2. s[c].base + s[c].used = u
  <2>1. PICK d \in 1 .. n : /\ ~Foreign(s[d]) /\ u = s[d].base + s[d].used
                            /\ \A j \in (d + 1) .. n : Foreign(s[j])
    BY <1>1 DEF StringsOK, InUse, n
  <2>2. ~(d < c) /\ ~(d > c)
    BY <1>1, <2>1
  <2>3. d = c
    BY <1>1, <2>2
  <2>. QED
    BY <2>1, <2>3
<1>3. InUse(t, n, u + k)
  <2>1. \A j \in (c + 1) .. n : Foreign(t[j])
    <3>1. \A j \in (c + 1) .. n : j \in 1 .. n /\ j > c /\ j # c
      BY <1>1
    <3>. QED
      BY <1>1, <3>1
  <2>2. u + k = t[c].base + t[c].used
    BY <1>1, <1>2
  <2>. QED
    BY <1>1, <2>1, <2>2 DEF InUse
<1>4. ASSUME NEW i \in DOMAIN t, ~Foreign(t[i]) PROVE InUse(t, i - 1, t[i].base)
  <2>1. i \in 1 .. n /\ i <= c
    BY <1>1, <1>4
  <2>2. ~Foreign(s[i]) /\ t[i].base = s[i].base
    BY <1>1, <1>4, <2>1
  <2>3. InUse(s, i - 1, t[i].base)
    BY <1>1, <2>1, <2>2 DEF StringsOK
  <2>4. i - 1 \in Nat /\ \A j \in 1 .. (i - 1) : j \in 1 .. n /\ j # c
    BY <1>1, <2>1
  <2>5. \A j \in 1 .. (i - 1) : SameStrings(t[j], s[j])
    BY <1>1, <2>4 DEF SameStrings
  <2>. QED
    BY <2>3, <2>4, <2>5, InUseOfSame
<1>. QED
  BY <1>2, <1>3, <1>4 DEF StringsOK, n

LEMMA SetArgInfo ==
    ASSUME IInv, CallInfoInv, SetHookChainArg
    PROVE  CallInfoInv'
<1> DEFINE q == stack[hookCtx]
<1>1. /\ stack \in Seq(Frame) /\ DOMAIN stack = 1 .. Len(stack) /\ Len(stack) \in Nat
      /\ hookCtx \in DOMAIN stack /\ q \in Frame
      /\ tempUsed \in Nat /\ tempUsed <= StringsMax /\ StringsMax \in Nat
      /\ UNCHANGED wasCalled
  BY BoundsAssumption DEF SetHookChainArg, SettingString, IInv, TypeOK
<1>2. q.used \in Nat /\ q.base \in Nat
  BY <1>1, FrameFields
<1>3. PICK a \in StringArg, k \in Nat, u \in Nat :
         /\ stack' = [stack EXCEPT ![hookCtx] = [q EXCEPT !.arg = a, !.used = u]]
         /\ u = q.used + k /\ tempUsed' = tempUsed + k
         /\ a = SharedBuffer \/ (a = tempUsed /\ k = 1)
  <2>1. CASE tempUsed = StringsMax
    <3>1. stack' = [stack EXCEPT ![hookCtx] = [q EXCEPT !.arg = SharedBuffer]]
          /\ tempUsed' = tempUsed + 0 /\ q.used = q.used + 0
      BY <1>1, <1>2, <2>1 DEF SetHookChainArg, SettingString
    <3>2. [q EXCEPT !.arg = SharedBuffer] = [q EXCEPT !.arg = SharedBuffer, !.used = q.used]
      BY <1>1 DEF Frame
    <3>3. SharedBuffer \in StringArg /\ 0 \in Nat
      BY DEF StringArg
    <3>4. stack' = [stack EXCEPT ![hookCtx] = [q EXCEPT !.arg = SharedBuffer, !.used = q.used]]
      BY <3>1, <3>2, Zenon
    <3>. HIDE DEF q
    <3>. QED
      BY <1>2, <3>1, <3>3, <3>4
  <2>2. CASE tempUsed # StringsMax
    <3>1. /\ stack' = [stack EXCEPT ![hookCtx] = [q EXCEPT !.arg = tempUsed, !.used = q.used + 1]]
          /\ tempUsed' = tempUsed + 1
      BY <1>1, <1>2, <2>2 DEF SetHookChainArg, SettingString
    <3>2. tempUsed \in StringArg /\ q.used + 1 \in Nat
      BY <1>1, <1>2 DEF StringArg
    <3>. HIDE DEF q
    <3>. QED
      BY <3>1, <3>2
  <2>. QED
    BY <2>1, <2>2
<1> DEFINE r == [q EXCEPT !.arg = a, !.used = u]
<1>5. a = SharedBuffer \/ (a = tempUsed /\ k = 1)
  BY <1>3
<1>6. /\ r \in Frame /\ SameProgress(r, q) /\ r.arg = a /\ r.base = q.base
      /\ r.used = q.used + k
  <2>1. /\ r \in Frame /\ SameProgress(r, q) /\ r.arg = a /\ r.base = q.base /\ r.used = u
    BY <1>1 DEF Frame, SameProgress
  <2>. HIDE DEF r, q
  <2>. QED
    BY <1>3, <2>1
<1>4. stack' = [stack EXCEPT ![hookCtx] = r]
  BY <1>3
<1>. HIDE DEF r
<1>7. /\ stack' \in Seq(Frame) /\ Len(stack') = Len(stack) /\ DOMAIN stack' = DOMAIN stack
      /\ stack'[hookCtx] = r /\ \A i \in DOMAIN stack : i # hookCtx => stack'[i] = stack[i]
  BY <1>1, <1>4, <1>6
<1>8. ~Foreign(q) /\ \A j \in DOMAIN stack : j > hookCtx => Foreign(stack[j])
  BY <1>1 DEF IInv, ContextInv, ContextIsInnermost, Prescribed, List, Foreign
<1>9. StringsOK(stack, tempUsed) /\ CallOK(q)
  BY <1>1 DEF CallInfoInv
<1>10. ~Foreign(r)
  BY <1>6, <1>8 DEF Foreign, SameProgress
<1>11. q.base + q.used = tempUsed /\ StringsOK(stack', tempUsed')
  <2>1. q.base + q.used = tempUsed /\ StringsOK(stack', tempUsed + k)
    BY <1>1, <1>6, <1>7, <1>8, <1>9, <1>10, StringsOfUse
  <2>. QED
    BY <1>3, <2>1
<1>12. CallOK(r)
  <2>1. DemandOK(r) /\ IndexOK(r)
    BY <1>6, <1>9, ProgressKeeps DEF CallOK
  <2>2. SlotOK(r)
    BY <1>1, <1>2, <1>5, <1>6, <1>10, <1>11 DEF SlotOK, OwnSlot, SharedBuffer
  <2>. QED
    BY <2>1, <2>2 DEF CallOK
<1>13. \A i \in DOMAIN stack' : CallOK(stack'[i])
  BY <1>7, <1>12 DEF CallInfoInv
<1>14. \A i \in DOMAIN stack : SameProgress(stack'[i], stack[i])
  BY <1>6, <1>7 DEF SameProgress
<1>15. WaitsOK(stack')
  BY <1>7, <1>14 DEF CallInfoInv, WaitsOK, SameProgress
<1>16. WasCalledOK(stack', wasCalled')
  BY <1>1, <1>7, <1>14 DEF CallInfoInv, WasCalledOK, PastOriginal, SameProgress
<1>. QED
  BY <1>11, <1>13, <1>15, <1>16 DEF CallInfoInv

-----------------------------------------------------------------------------
(* Every step keeps it: the dispatch *)

\* What the loops over callbacks leave alone in a call.
SameCall(q, r) ==
    /\ q.func = r.func /\ q.phase = r.phase /\ q.called = r.called /\ q.end = r.end
    /\ q.arg = r.arg /\ q.base = r.base /\ q.used = r.used

LEMMA AdvanceFields ==
    ASSUME NEW r \in Frame
    PROVE  /\ SameCall(Advance(r), r) /\ Advance(r).pos = r.pos + 1
           /\ Advance(r).hc = r.hc /\ Advance(r).heard = r.heard
           /\ Advance(r).running = r.running /\ Advance(r).index = r.index
           /\ SameCall(Break(r), r) /\ Break(r).pos = r.end + 1
           /\ Break(r).hc = r.hc /\ Break(r).heard = r.heard
           /\ Break(r).running = r.running /\ Break(r).index = r.index
BY DEF Frame, SameCall, Advance, Break

LEMMA ReturnedFields ==
    ASSUME NEW r \in Frame
    PROVE  /\ SameCall(Returned(r), r) /\ ~Returned(r).running
           /\ Returned(r).index = InvalidHandle /\ Returned(r).hc = r.hc
           /\ Returned(r).heard = r.heard /\ Returned(r).pos = r.pos
BY DEF Frame, SameCall, Returned, InvalidHandle

\* The callback that the topmost call, one of a hooked function, is at.
LEMMA TopInfo ==
    ASSUME IInv, CallInfoInv, stack # <<>>
    PROVE  /\ TypeOK /\ Top \in Frame /\ CallOK(Top) /\ Len(stack) \in Nat \ {0}
           /\ Len(stack) \in DOMAIN stack /\ Top = stack[Len(stack)]
           /\ Top.pos \in Nat /\ Top.end \in Nat /\ Top.hc \in HookChainState
           /\ Top.base \in Nat /\ Top.used \in Nat
<1>1. TypeOK /\ Top \in Frame /\ Len(stack) \in Nat \ {0} /\ Len(stack) \in DOMAIN stack
  BY TopType DEF IInv
<1>. QED
  BY <1>1, FrameFields DEF Top, CallInfoInv

LEMMA LoopInfo ==
    ASSUME IInv, CallInfoInv, stack # <<>>, NEW r \in Frame, stack' = SetTop(r),
           SameCall(r, Top), DemandOK(r), IndexOK(r), UNCHANGED <<tempUsed, wasCalled>>
    PROVE  CallInfoInv'
<1>1. SlotOK(r) /\ SameStrings(r, Top)
  BY TopInfo, SlotKeeps DEF CallOK, SameCall, SameSlot
<1>. QED
  BY <1>1, TopInfo, InfoOfTop DEF CallOK, SameCall

LEMMA SkipHandlerInfo == ASSUME IInv, CallInfoInv, SkipHandler PROVE CallInfoInv'
<1> DEFINE r == Advance(Top)
<1>1. /\ stack # <<>> /\ Top.phase \in List /\ ~Top.running /\ stack' = SetTop(r)
      /\ UNCHANGED <<tempUsed, wasCalled>>
  BY DEF SkipHandler, Looping
<1>2. /\ r \in Frame /\ SameCall(r, Top) /\ r.pos = Top.pos + 1
      /\ r.hc = Top.hc /\ r.heard = Top.heard
      /\ r.running = Top.running /\ r.index = Top.index
  BY <1>1, TopInfo, AdvanceKin, AdvanceFields
<1>. HIDE DEF r
<1>3. DemandOK(Top) /\ IndexOK(Top) /\ Top.pos \in Nat /\ Top.end \in Nat
  BY <1>1, TopInfo DEF CallOK
<1>4. DemandOK(r) /\ IndexOK(r)
  BY <1>1, <1>2, <1>3 DEF DemandOK, IndexOK, SameCall, Foreign
<1>. QED
  BY <1>1, <1>2, <1>4, LoopInfo

LEMMA ExecuteForwardInfo ==
    ASSUME IInv, HandleInv, CallInfoInv, ExecuteForward
    PROVE  CallInfoInv'
<1> DEFINE x == AtHandler.index
           r == [Top EXCEPT !.running = TRUE, !.index = x]
<1>1. /\ stack # <<>> /\ Top.phase \in List /\ ~Top.running /\ ~AtEnd
      /\ stack' = SetTop(r) /\ UNCHANGED <<tempUsed, wasCalled>>
  BY DEF ExecuteForward, Looping
<1>2. /\ Top \in Frame /\ Top.func \in Func /\ LoopOK(Top, forwards)
      /\ DemandOK(Top) /\ IndexOK(Top) /\ Top.pos \in Nat /\ Top.end \in Nat
  BY <1>1, TopInfo, TopOfHookedCall DEF CallOK
<1>3. Top.pos \in DOMAIN forwards[Top.func][Top.phase] /\ Top.pos <= Top.end
  <2>1. forwards[Top.func][Top.phase] \in Seq(Handler)
    BY <1>1, <1>2 DEF IInv, TypeOK
  <2>. QED
    BY <1>1, <1>2, <2>1 DEF LoopOK, AtEnd
<1>4. x = Encode(Top.func, Top.pos, Top.phase = "post")
  BY <1>1, <1>2, <1>3 DEF HandleInv, AtHandler
<1>5. x \in Int
  <2>1. Top.func \in Nat
    BY <1>2, FuncAssumption
  <2> DEFINE b == Top.phase = "post"
  <2>2. b \in BOOLEAN
    OBVIOUS
  <2>3. x = Encode(Top.func, Top.pos, b)
    BY <1>4
  <2>. HIDE DEF b, x
  <2>. QED
    BY <1>2, <2>1, <2>2, <2>3, EncodeType
<1>. HIDE DEF x
<1>6. /\ r \in Frame /\ SameCall(r, Top) /\ r.hc = Top.hc /\ r.heard = Top.heard
      /\ r.pos = Top.pos /\ r.running /\ r.index = x
  BY <1>2, <1>5 DEF Frame, SameCall
<1>. HIDE DEF r
<1>7. DemandOK(r)
  BY <1>1, <1>2, <1>3, <1>6 DEF DemandOK, SameCall, List
<1>8. IndexOK(r)
  BY <1>1, <1>2, <1>3, <1>4, <1>6 DEF IndexOK, SameCall, Foreign, List
<1>. QED
  BY <1>1, <1>6, <1>7, <1>8, LoopInfo

LEMMA PostReturnsInfo ==
    ASSUME IInv, CallInfoInv, NEW ret \in HookChainState, PostReturns(ret)
    PROVE  CallInfoInv'
<1> DEFINE q == Returned(Top)
<1>1. /\ stack # <<>> /\ Top.phase = "post" /\ Top.running
      /\ stack' = SetTop(Break(q)) \/ stack' = SetTop(Advance(q))
      /\ UNCHANGED <<tempUsed, wasCalled>>
  BY DEF PostReturns, InPlugin
<1>2. /\ q \in Frame /\ SameCall(q, Top) /\ ~q.running /\ q.index = InvalidHandle
      /\ q.hc = Top.hc /\ q.heard = Top.heard
  BY <1>1, TopInfo, KinOfReturned, ReturnedFields
<1>. HIDE DEF q
<1>3. PICK r \in Frame : /\ stack' = SetTop(r) /\ SameCall(r, q) /\ r.hc = q.hc
                         /\ r.heard = q.heard /\ r.running = q.running
                         /\ r.index = q.index
  BY <1>1, <1>2, AdvanceKin, AdvanceFields
<1>4. DemandOK(Top) /\ IndexOK(Top)
  BY <1>1, TopInfo DEF CallOK
<1>5. /\ r.func = Top.func /\ r.phase = "post" /\ r.called = Top.called
      /\ r.hc = Top.hc /\ r.heard = Top.heard /\ ~r.running
      /\ r.index = InvalidHandle
  BY <1>1, <1>2, <1>3 DEF SameCall
<1>6. DemandOK(r) /\ IndexOK(r)
  BY <1>1, <1>4, <1>5 DEF DemandOK, IndexOK, Foreign, List
<1>7. SameCall(r, Top)
  BY <1>2, <1>3 DEF SameCall
<1>. QED
  BY <1>1, <1>3, <1>6, <1>7, LoopInfo

\* What a result of a pre callback decides.
LEMMA DemandOfResult ==
    ASSUME NEW q, NEW r, NEW ret \in HookChainState, DemandOK(r), r.phase = "pre",
           r.running, r.hc \in HookChainState, r.heard \subseteq HookChainState,
           NEW b \in BOOLEAN, NEW v \in BOOLEAN, ~(ret = HC_BREAK /\ b),
           r.func \in VoidFunc => b,
           r.func \notin VoidFunc => (b <=> ret \in {HC_SUPERCEDE, HC_BREAK} /\ v),
           q.func = r.func, q.phase = r.phase, q.called = r.called,
           q.hc = (IF b /\ ret > r.hc THEN ret ELSE r.hc),
           q.heard = (IF r.func \notin VoidFunc /\ ret \in {HC_SUPERCEDE, HC_BREAK} /\ ~v
                      THEN r.heard ELSE r.heard \cup {ret}), ~q.running,
           r.func \in VoidFunc /\ ret = HC_BYPASS => q.pos > q.end
    PROVE  DemandOK(q)
<1>1. r.hc \in Int /\ ret \in Int
  BY DEF HookChainState, HC_CONTINUE, HC_BYPASS
<1>2. q.hc # HC_CONTINUE => q.hc \in q.heard
  BY DEF DemandOK
<1>3. HC_BREAK \notin q.heard
  BY DEF DemandOK
<1>4. ASSUME q.func \in VoidFunc, NEW x \in q.heard PROVE x <= q.hc
  <2>1. CASE x = ret
    BY <1>1, <1>4, <2>1
  <2>2. CASE x \in r.heard
    <3>1. x <= r.hc
      BY <1>4, <2>2 DEF DemandOK
    <3>2. (q.hc = ret /\ ret > r.hc) \/ q.hc = r.hc
      OBVIOUS
    <3>3. x \in Int
      BY <2>2 DEF HookChainState, HC_CONTINUE, HC_BYPASS
    <3>. QED
      BY <1>1, <3>1, <3>2, <3>3
  <2>. QED
    BY <1>4, <2>1, <2>2
<1>5. q.func \in VoidFunc /\ HC_BYPASS \in q.heard => q.pos > q.end
  BY DEF DemandOK, List
<1>6. ASSUME q.func \notin VoidFunc
      PROVE  /\ q.hc \in {HC_CONTINUE, HC_SUPERCEDE}
             /\ HC_SUPERCEDE \in q.heard => q.hc = HC_SUPERCEDE
  <2>1. r.hc \in {HC_CONTINUE, HC_SUPERCEDE} /\ (HC_SUPERCEDE \in r.heard => r.hc = HC_SUPERCEDE)
    BY <1>6 DEF DemandOK
  <2>2. b => ret = HC_SUPERCEDE /\ v
    BY <1>6
  <2>3. ~b => q.hc = r.hc /\ (HC_SUPERCEDE \in q.heard => HC_SUPERCEDE \in r.heard)
    BY <1>6
  <2>4. b => q.hc = HC_SUPERCEDE
    BY <2>1, <2>2 DEF HC_CONTINUE, HC_SUPERCEDE
  <2>. QED
    BY <2>1, <2>3, <2>4
<1>. QED
  BY <1>2, <1>3, <1>4, <1>5, <1>6 DEF DemandOK

LEMMA HeardFields ==
    ASSUME NEW r \in Frame, NEW h, NEW c
    PROVE  /\ SameCall([r EXCEPT !.heard = h], r) /\ [r EXCEPT !.heard = h].hc = r.hc
           /\ [r EXCEPT !.heard = h].heard = h
           /\ [r EXCEPT !.heard = h].running = r.running
           /\ [r EXCEPT !.heard = h].index = r.index
           /\ SameCall([r EXCEPT !.hc = c], r) /\ [r EXCEPT !.hc = c].hc = c
           /\ [r EXCEPT !.hc = c].heard = r.heard
           /\ [r EXCEPT !.hc = c].running = r.running
           /\ [r EXCEPT !.hc = c].index = r.index
BY DEF Frame, SameCall

LEMMA PreReturnsInfo ==
    ASSUME IInv, CallInfoInv, NEW ret \in HookChainState, PreReturns(ret)
    PROVE  CallInfoInv'
<1> DEFINE q == Returned(Top)
           h == Heard(Top, ret)
           r == [q EXCEPT !.heard = h]
           b == Counts(ret)
           v == Top.ret # Nobody
           c == IF b /\ ret > r.hc THEN ret ELSE r.hc
           s == IF b /\ ret > r.hc THEN [r EXCEPT !.hc = ret] ELSE r
           t == IF Top.func \in VoidFunc /\ ret = HC_BYPASS
                THEN Break(s) ELSE Advance(s)
<1>1. /\ stack # <<>> /\ Top.phase = "pre" /\ Top.running /\ stack' = SetTop(t)
      /\ ~(ret = HC_BREAK /\ b) /\ UNCHANGED <<tempUsed, wasCalled>>
  BY DEF PreReturns, InPlugin
<1>2. /\ b \in BOOLEAN /\ v \in BOOLEAN /\ (Top.func \in VoidFunc => b)
      /\ Top.func \notin VoidFunc => (b <=> ret \in {HC_SUPERCEDE, HC_BREAK} /\ v)
      /\ h = (IF Top.func \notin VoidFunc /\ ret \in {HC_SUPERCEDE, HC_BREAK} /\ ~v
              THEN Top.heard ELSE Top.heard \cup {ret})
  BY DEF Counts, Heard
<1>. HIDE DEF b, v
<1>3. /\ Top \in Frame /\ DemandOK(Top) /\ Top.hc \in HookChainState
      /\ Top.heard \subseteq HookChainState
  BY <1>1, TopInfo DEF CallOK, Frame
<1>4. /\ q \in Frame /\ SameCall(q, Top) /\ ~q.running /\ q.index = InvalidHandle
      /\ q.hc = Top.hc /\ q.heard = Top.heard
  BY <1>3, KinOfReturned, ReturnedFields
<1>. HIDE DEF q
<1>5. r \in Frame
  <2>1. h \in SUBSET HookChainState
    BY <1>3, HeardType
  <2>. HIDE DEF h
  <2>. QED
    BY <1>4, <2>1, KinOfHeard
<1>6. /\ SameCall(r, q) /\ r.hc = q.hc /\ r.heard = h /\ ~r.running
      /\ r.index = InvalidHandle
  <2>. HIDE DEF h
  <2>. QED
    BY <1>4, HeardFields
<1>. HIDE DEF r
<1>7. /\ s \in Frame /\ SameCall(s, r) /\ s.hc = c /\ s.heard = h /\ ~s.running
      /\ s.index = InvalidHandle
  <2>1. CASE b /\ ret > r.hc
    <3>1. s = [r EXCEPT !.hc = ret] /\ c = ret
      BY <2>1
    <3>2. [r EXCEPT !.hc = ret] \in Frame
      BY <1>5, KinOfState
    <3>3. /\ SameCall([r EXCEPT !.hc = ret], r) /\ [r EXCEPT !.hc = ret].hc = ret
          /\ [r EXCEPT !.hc = ret].heard = h /\ ~[r EXCEPT !.hc = ret].running
          /\ [r EXCEPT !.hc = ret].index = InvalidHandle
      BY <1>5, <1>6, HeardFields
    <3>. HIDE DEF s, c
    <3>. QED
      BY <3>1, <3>2, <3>3
  <2>2. CASE ~(b /\ ret > r.hc)
    BY <1>5, <1>6, <2>2 DEF SameCall
  <2>. QED
    BY <2>1, <2>2
<1>. HIDE DEF s, c
<1>8. /\ t \in Frame /\ SameCall(t, s) /\ t.hc = c /\ t.heard = h /\ ~t.running
      /\ t.index = InvalidHandle
      /\ Top.func \in VoidFunc /\ ret = HC_BYPASS => t.pos > s.end
  <2>1. s.end \in Nat
    BY <1>7, FrameFields
  <2>2. CASE Top.func \in VoidFunc /\ ret = HC_BYPASS
    <3>1. t = Break(s)
      BY <2>2
    <3>. HIDE DEF t, h
    <3>2. t.pos = s.end + 1
      BY <1>7, <3>1, AdvanceFields
    <3>3. t.pos > s.end
      BY <2>1, <3>2
    <3>4. t \in Frame /\ SameCall(t, s) /\ t.hc = c /\ t.heard = h
      BY <1>7, <3>1, AdvanceKin, AdvanceFields
    <3>5. ~t.running /\ t.index = InvalidHandle
      BY <1>7, <3>1, AdvanceFields
    <3>. QED
      BY <3>3, <3>4, <3>5
  <2>3. CASE ~(Top.func \in VoidFunc /\ ret = HC_BYPASS)
    <3>1. t = Advance(s)
      BY <2>3
    <3>. HIDE DEF t, h
    <3>. QED
      BY <1>7, <2>3, <3>1, AdvanceKin, AdvanceFields
  <2>. QED
    BY <2>2, <2>3
<1>. HIDE DEF t
<1>9. SameCall(t, Top)
  BY <1>4, <1>6, <1>7, <1>8 DEF SameCall
<1>10. c = (IF b /\ ret > Top.hc THEN ret ELSE Top.hc)
  BY <1>4, <1>6 DEF c
<1>11. t.end = s.end
  BY <1>8 DEF SameCall
<1>12. DemandOK(t)
  <2>. HIDE DEF h
  <2>. QED
    BY <1>1, <1>2, <1>3, <1>8, <1>9, <1>10, <1>11, DemandOfResult DEF SameCall
<1>13. IndexOK(t)
  BY <1>1, <1>8, <1>9 DEF IndexOK, SameCall, Foreign
<1>. QED
  BY <1>1, <1>8, <1>9, <1>12, <1>13, LoopInfo

\* What changes in a call when its post callbacks are next.
LEMMA PostFields ==
    ASSUME NEW r \in Frame
    PROVE  LET s == StartPost(r) IN
           /\ s.func = r.func /\ s.phase = "post" /\ s.called = r.called
           /\ s.arg = r.arg /\ s.base = r.base /\ s.used = r.used
           /\ s.hc = r.hc /\ s.heard = r.heard /\ s.running = r.running
           /\ s.index = r.index /\ s.pos = 1
           /\ r.func \in VoidFunc /\ r.hc = HC_BYPASS => s.end = 0
<1> DEFINE e == IF r.func \in VoidFunc /\ r.hc = HC_BYPASS
                THEN 0 ELSE Len(forwards[r.func]["post"])
           s == [r EXCEPT !.phase = "post", !.pos = 1, !.stale = FALSE, !.end = e]
<1>1. StartPost(r) = s
  BY DEF StartPost
<1>2. r.func \in VoidFunc /\ r.hc = HC_BYPASS => e = 0
  OBVIOUS
<1>. HIDE DEF e
<1>3. /\ s.func = r.func /\ s.phase = "post" /\ s.called = r.called
      /\ s.arg = r.arg /\ s.base = r.base /\ s.used = r.used
      /\ s.hc = r.hc /\ s.heard = r.heard /\ s.running = r.running
      /\ s.index = r.index /\ s.pos = 1 /\ s.end = e
  BY DEF Frame
<1>. HIDE DEF s
<1>. QED
  BY <1>1, <1>2, <1>3

\* A void call that heard a BYPASS has decided on it.
LEMMA BypassDecides ==
    ASSUME NEW r, DemandOK(r), r.hc \in HookChainState, r.func \in VoidFunc,
           HC_BYPASS \in r.heard
    PROVE  r.hc = HC_BYPASS
BY DEF DemandOK, HookChainState, HC_BYPASS, HC_CONTINUE

LEMMA CallOriginalInfo == ASSUME IInv, CallInfoInv, CallOriginal PROVE CallInfoInv'
<1> DEFINE r == [Top EXCEPT !.phase = "orig", !.stale = FALSE]
<1>1. /\ stack # <<>> /\ Top.phase = "pre" /\ ~Top.running /\ Top.hc # HC_SUPERCEDE
      /\ stack' = SetTop(r) /\ UNCHANGED <<tempUsed, wasCalled>>
  BY DEF CallOriginal, InLoop
<1>2. Top \in Frame /\ CallOK(Top) /\ TypeOK
  BY <1>1, TopInfo
<1>3. /\ r \in Frame /\ r.func = Top.func /\ r.phase = "orig" /\ r.called = Top.called
      /\ r.arg = Top.arg /\ r.base = Top.base /\ r.used = Top.used /\ r.hc = Top.hc
      /\ r.heard = Top.heard /\ r.running = Top.running /\ r.index = Top.index
  BY <1>2 DEF Frame
<1>. HIDE DEF r
<1>4. DemandOK(r)
  BY <1>1, <1>2, <1>3 DEF CallOK, DemandOK, List
<1>5. SlotOK(r) /\ SameStrings(r, Top)
  BY <1>1, <1>2, <1>3 DEF CallOK, SlotOK, SameStrings, OwnSlot, Foreign
<1>6. IndexOK(r)
  BY <1>1, <1>2, <1>3 DEF CallOK, IndexOK, Foreign, List
<1>. QED
  BY <1>1, <1>2, <1>3, <1>4, <1>5, <1>6, InfoOfTop DEF CallOK

LEMMA SkipOriginalInfo == ASSUME IInv, CallInfoInv, SkipOriginal PROVE CallInfoInv'
<1> DEFINE r == StartPost(Top)
<1>1. /\ stack # <<>> /\ Top.phase = "pre" /\ ~Top.running /\ Top.hc = HC_SUPERCEDE
      /\ stack' = SetTop(r) /\ UNCHANGED <<tempUsed, wasCalled>>
  BY DEF SkipOriginal, InLoop
<1>2. Top \in Frame /\ CallOK(Top) /\ TypeOK /\ Top.hc \in HookChainState
  BY <1>1, TopInfo
<1>3. r \in Frame
  BY <1>1, <1>2, StartPostType, TopOfHookedCall DEF List
<1>4. /\ r.func = Top.func /\ r.phase = "post" /\ r.called = Top.called
      /\ r.arg = Top.arg /\ r.base = Top.base /\ r.used = Top.used /\ r.hc = Top.hc
      /\ r.heard = Top.heard /\ r.running = Top.running /\ r.index = Top.index
  BY <1>2, PostFields
<1>. HIDE DEF r
<1>5. r.func \in VoidFunc => HC_BYPASS \notin r.heard
  BY <1>1, <1>2, <1>4, BypassDecides DEF CallOK, HC_BYPASS, HC_SUPERCEDE
<1>6. DemandOK(r)
  BY <1>1, <1>2, <1>4, <1>5 DEF CallOK, DemandOK
<1>7. SlotOK(r) /\ SameStrings(r, Top)
  BY <1>1, <1>2, <1>4 DEF CallOK, SlotOK, SameStrings, OwnSlot, Foreign
<1>8. IndexOK(r)
  BY <1>1, <1>2, <1>4 DEF CallOK, IndexOK, Foreign
<1>. QED
  BY <1>1, <1>2, <1>3, <1>4, <1>6, <1>7, <1>8, InfoOfTop DEF CallOK

LEMMA OriginalReturnsInfo ==
    ASSUME IInv, CallInfoInv, OriginalReturns
    PROVE  CallInfoInv'
<1> DEFINE v == IF Top.func \notin VoidFunc /\ Top.ret = Nobody
                THEN Original ELSE Top.ret
           q == [Top EXCEPT !.called = TRUE, !.ret = v]
           r == StartPost(q)
<1>1. /\ stack # <<>> /\ Top.phase = "orig" /\ stack' = SetTop(r) /\ UNCHANGED tempUsed
      /\ wasCalled' = [wasCalled EXCEPT ![Top.func] = TRUE]
  BY DEF OriginalReturns
<1>2. Top \in Frame /\ CallOK(Top) /\ TypeOK /\ Top.hc \in HookChainState
  BY <1>1, TopInfo
<1>3. v \in Int
  BY <1>2, FrameFields DEF Original
<1>. HIDE DEF v
<1>4. /\ q \in Frame /\ q.func = Top.func /\ q.phase = "orig" /\ q.called
      /\ q.arg = Top.arg /\ q.base = Top.base /\ q.used = Top.used /\ q.hc = Top.hc
      /\ q.heard = Top.heard /\ q.running = Top.running /\ q.index = Top.index
  BY <1>1, <1>2, <1>3 DEF Frame
<1>. HIDE DEF q
<1>5. Top.func \in Func
  <2>1. Len(stack) \in DOMAIN stack /\ Top = stack[Len(stack)]
    BY <1>1, TopInfo
  <2>. QED
    BY <1>1, <2>1 DEF IInv, LoopInv, LoopOK, Foreign
<1>6. r \in Frame
  BY <1>2, <1>4, <1>5, StartPostType
<1>7. /\ r.func = Top.func /\ r.phase = "post" /\ r.called
      /\ r.arg = Top.arg /\ r.base = Top.base /\ r.used = Top.used /\ r.hc = Top.hc
      /\ r.heard = Top.heard /\ r.running = Top.running /\ r.index = Top.index
      /\ r.pos = 1
  BY <1>4, PostFields
<1>8. Top.func \in VoidFunc /\ Top.hc = HC_BYPASS => r.end = 0
  BY <1>4, PostFields
<1>. HIDE DEF r
<1>9. DemandOK(Top) /\ ~Top.running /\ Top.hc # HC_SUPERCEDE
  BY <1>1, <1>2 DEF CallOK, DemandOK
<1>10. r.func \in VoidFunc /\ HC_BYPASS \in r.heard => r.pos > r.end
  BY <1>2, <1>7, <1>8, <1>9, BypassDecides
<1>11. DemandOK(r)
  BY <1>7, <1>9, <1>10 DEF DemandOK
<1>12. SlotOK(r) /\ SameStrings(r, Top)
  BY <1>1, <1>2, <1>7 DEF CallOK, SlotOK, SameStrings, OwnSlot, Foreign
<1>13. IndexOK(r)
  BY <1>1, <1>2, <1>7, <1>9 DEF CallOK, IndexOK, Foreign
<1>14. \A f \in Func : wasCalled'[f] => wasCalled[f] \/ f = r.func
  BY <1>1, <1>2, <1>7 DEF TypeOK
<1>. QED
  BY <1>1, <1>2, <1>6, <1>7, <1>11, <1>12, <1>13, <1>14, InfoOfTop DEF CallOK

LEMMA CallInfo == ASSUME IInv, CallInfoInv, NEW f \in Func, Call(f) PROVE CallInfoInv'
<1> DEFINE n == Len(forwards[f]["pre"])
           r == NewCall(f, hookCtx, n)
<1>1. hookCtx \in Nat /\ tempUsed \in Nat /\ n \in Nat /\ TypeOK
  BY BoundsAssumption DEF IInv, TypeOK, List
<1>. HIDE DEF n
<1>2. r \in Frame
  BY <1>1, NewCallType
<1>3. /\ r.func = f /\ r.phase = "pre" /\ ~r.called /\ r.hc = HC_CONTINUE /\ r.heard = {}
      /\ ~r.running /\ r.index = 0 /\ r.arg = CallersString /\ r.base = tempUsed
      /\ r.used = 0
  BY DEF NewCall
<1>4. /\ stack' = Append(stack, r) /\ UNCHANGED tempUsed
      /\ stack # <<>> => Top.running \/ Top.phase = "orig"
  BY DEF Call, InGame, n
<1>. HIDE DEF r
<1>5. DemandOK(r) /\ SlotOK(r) /\ IndexOK(r)
  BY <1>3 DEF DemandOK, SlotOK, OwnSlot, IndexOK, Foreign, CallersString, InvalidHandle
<1>6. \A g \in Func : wasCalled'[g] => wasCalled[g] /\ g # r.func
  BY <1>1, <1>3 DEF Call, TypeOK
<1>. QED
  BY <1>1, <1>2, <1>3, <1>4, <1>5, <1>6, InfoOfPush DEF CallOK

LEMMA PluginCallInfo == ASSUME IInv, CallInfoInv, PluginCall PROVE CallInfoInv'
<1> DEFINE q == NewCall(NoFunc, hookCtx, 0)
           r == [q EXCEPT !.phase = "foreign", !.running = TRUE]
<1>1. hookCtx \in Nat /\ tempUsed \in Nat /\ TypeOK
  BY BoundsAssumption DEF IInv, TypeOK
<1>2. q \in Frame
  BY <1>1, NewCallType
<1>3. /\ q.func = NoFunc /\ ~q.called /\ q.hc = HC_CONTINUE /\ q.heard = {}
      /\ q.index = 0 /\ q.arg = CallersString
  BY DEF NewCall
<1>4. /\ stack' = Append(stack, r) /\ UNCHANGED <<tempUsed, wasCalled>>
      /\ stack # <<>> => Top.running \/ Top.phase = "orig"
  BY DEF PluginCall, ForeignCall, InGame
<1>. HIDE DEF q
<1>5. /\ r \in Frame /\ r.func = NoFunc /\ r.phase = "foreign" /\ ~r.called
      /\ r.hc = HC_CONTINUE /\ r.heard = {} /\ r.index = 0 /\ r.arg = CallersString
  BY <1>2, <1>3 DEF Frame
<1>. HIDE DEF r
<1>6. NoFunc \notin Func
  BY FuncAssumption DEF NoFunc
<1>7. DemandOK(r) /\ SlotOK(r) /\ IndexOK(r)
  BY <1>5, <1>6 DEF DemandOK, SlotOK, OwnSlot, IndexOK, Foreign, CallersString, InvalidHandle,
     List
<1>8. \A g \in Func : wasCalled'[g] => wasCalled[g] /\ g # r.func
  BY <1>4, <1>5, <1>6
<1>. QED
  BY <1>1, <1>4, <1>5, <1>7, <1>8, InfoOfPush DEF CallOK, Foreign

\* The return of a call releases what the call took.
LEMMA ReleasedByLeave ==
    ASSUME IInv, CallInfoInv, stack # <<>>, ~Foreign(Top), NEW g, Leave(g)
    PROVE  tempUsed' = Top.base
<1> DEFINE n == Len(stack)
<1>1. /\ n \in Nat \ {0} /\ Top = stack[n] /\ Top.base \in Nat /\ Top.used \in Nat
      /\ DOMAIN stack = 1 .. n
  BY TopInfo DEF TypeOK
<1>. HIDE DEF n
<1>2. Top.base + Top.used = tempUsed
  <2>1. InUse(stack, n, tempUsed)
    BY DEF CallInfoInv, StringsOK, n
  <2>2. PICK c \in 1 .. n : /\ tempUsed = stack[c].base + stack[c].used
                            /\ \A j \in (c + 1) .. n : Foreign(stack[j])
    BY <1>1, <2>1 DEF InUse
  <2>3. ~(c < n)
    BY <1>1, <2>2
  <2>4. c = n
    BY <1>1, <2>3
  <2>. QED
    BY <1>1, <2>2, <2>4
<1>3. Top.func \notin StringFunc => Top.used = 0
  BY <1>1 DEF IInv, TempInv, BasesOK
<1>. QED
  BY <1>1, <1>2, <1>3 DEF Leave

LEMMA CallReturnsInfo == ASSUME IInv, CallInfoInv, CallReturns PROVE CallInfoInv'
<1>1. /\ stack # <<>> /\ Top.phase = "post" /\ stack' = Below /\ Leave(Given(Top))
      /\ wasCalled' = [wasCalled EXCEPT ![Top.func] = FALSE]
  BY DEF CallReturns, InLoop, Leave
<1>2. ~Foreign(Top) /\ TypeOK
  BY <1>1, TopInfo DEF Foreign
<1>3. tempUsed' = Top.base
  BY <1>1, <1>2, ReleasedByLeave
<1>4. \A f \in Func : wasCalled'[f] => wasCalled[f] /\ f # Top.func
  BY <1>1, <1>2 DEF TypeOK
<1>. QED
  BY <1>1, <1>2, <1>3, <1>4, InfoOfPop

LEMMA PreReturnsBreakInfo ==
    ASSUME IInv, CallInfoInv, PreReturnsBreak
    PROVE  CallInfoInv'
<1>1. /\ stack # <<>> /\ Top.phase = "pre" /\ stack' = Below /\ Leave(GivenEarly(Top))
      /\ UNCHANGED wasCalled
  BY DEF PreReturnsBreak, InPlugin, Leave
<1>2. ~Foreign(Top) /\ TypeOK
  BY <1>1, TopInfo DEF Foreign
<1>3. tempUsed' = Top.base
  BY <1>1, <1>2, ReleasedByLeave
<1>. QED
  BY <1>1, <1>2, <1>3, InfoOfPop

LEMMA PluginReturnsInfo == ASSUME IInv, CallInfoInv, PluginReturns PROVE CallInfoInv'
<1>1. /\ stack # <<>> /\ Top.phase = "foreign" /\ stack' = Below
      /\ UNCHANGED <<wasCalled, tempUsed>>
  BY DEF PluginReturns, InPlugin
<1>. QED
  BY <1>1, InfoOfPop DEF IInv, Foreign

\* Without calls there is nothing to answer for.
LEMMA EmptyInfo ==
    ASSUME NEW s, s = <<>>, NEW w, w = [f \in Func |-> FALSE]
    PROVE  /\ \A i \in DOMAIN s : CallOK(s[i])
           /\ StringsOK(s, 0) /\ WaitsOK(s) /\ WasCalledOK(s, w)
<1>1. Len(s) = 0 /\ DOMAIN s = {} /\ 1 .. 0 = {}
  OBVIOUS
<1>. QED
  BY <1>1 DEF StringsOK, InUse, WaitsOK, WasCalledOK

LEMMA NextInfo ==
    ASSUME IInv, HandleInv, CallInfoInv, [Next]_vars
    PROVE  CallInfoInv'
<1>1. CASE UNCHANGED <<stack, tempUsed, wasCalled>>
  BY <1>1 DEF CallInfoInv
<1>2. CASE Native
  <2>1. CASE \E h \in Handles : EnableHookChain(h) \/ DisableHookChain(h)
    BY <1>1, <2>1 DEF EnableHookChain, DisableHookChain, SetState
  <2>. QED
    BY <1>2, <2>1, RegisterInfo, SetReturnInfo, SetArgInfo DEF Native
<1>3. CASE Loop
  <2>1. CASE Crash
    BY <2>1, EmptyInfo DEF Crash, CallInfoInv
  <2>. QED
    BY <1>3, <2>1, SkipHandlerInfo, ExecuteForwardInfo, CallOriginalInfo,
       SkipOriginalInfo, CallReturnsInfo DEF Loop
<1>4. CASE Outside
  <2>1. CASE ServerDeactivate
    BY <1>1, <2>1 DEF ServerDeactivate, calls
  <2>. QED
    BY <1>4, <2>1, CallInfo, PreReturnsBreakInfo, PreReturnsInfo, PostReturnsInfo,
       OriginalReturnsInfo, PluginCallInfo, PluginReturnsInfo DEF Outside
<1>5. CASE UNCHANGED vars
  BY <1>1, <1>5 DEF vars
<1>. QED
  BY <1>2, <1>3, <1>4, <1>5 DEF Next

\* Together with the invariants of HookChainProofs, CallInfoInv is inductive
\* (callForward, callVoidForward and the natives that act on a call).
THEOREM InfoInvariance == Spec => [](IInv /\ HandleInv /\ CallInfoInv)
<1>1. Init => IInv /\ HandleInv /\ CallInfoInv
  BY InitInv, InitHandles, EmptyInfo DEF Init, CallInfoInv
<1>2. IInv /\ HandleInv /\ CallInfoInv /\ [Next]_vars => (IInv /\ HandleInv /\ CallInfoInv)'
  BY NextInv, NextHandles, NextInfo
<1>. QED
  BY <1>1, <1>2, PTL DEF Spec

-----------------------------------------------------------------------------
(* What follows for the callbacks *)

\* The original is skipped only at the demand of a pre callback of the very
\* call, and in calls with and without a return value such a demand is obeyed
\* unless, in a void call, a BYPASS overrides it; after a BREAK the call is over,
\* and in a void call nothing runs after a BYPASS (callForward, callVoidForward).
THEOREM SkippedOnDemandAlways == Spec => []SkippedOnDemand
<1>1. ASSUME IInv, CallInfoInv PROVE SkippedOnDemand
  <2> SUFFICES ASSUME NEW i \in DOMAIN stack
               PROVE  LET r == stack[i] IN
                      /\ r.phase = "post" /\ ~r.called => HC_SUPERCEDE \in r.heard
                      /\ (r.phase = "orig" \/ r.called) /\ HC_SUPERCEDE \in r.heard =>
                            r.func \in VoidFunc /\ HC_BYPASS \in r.heard
                      /\ HC_BREAK \notin r.heard
                      /\ r.func \in VoidFunc => ~BypassedRuns(r)
    BY DEF SkippedOnDemand
  <2> DEFINE r == stack[i]
  <2>1. DemandOK(r) /\ r.hc \in HookChainState
    <3>1. r \in Frame
      BY <1>1 DEF IInv, TypeOK
    <3>. QED
      BY <1>1, <3>1, FrameFields DEF CallInfoInv, CallOK
  <2>. HIDE DEF r
  <2>2. ASSUME r.phase = "post", ~r.called PROVE HC_SUPERCEDE \in r.heard
    BY <2>1, <2>2 DEF DemandOK, HC_SUPERCEDE, HC_CONTINUE
  <2>3. ASSUME r.phase = "orig" \/ r.called, HC_SUPERCEDE \in r.heard
        PROVE  r.func \in VoidFunc /\ HC_BYPASS \in r.heard
    <3>1. r.hc # HC_SUPERCEDE
      BY <2>1, <2>3 DEF DemandOK
    <3>2. r.func \in VoidFunc /\ HC_SUPERCEDE <= r.hc /\ HC_BREAK \notin r.heard
      BY <2>1, <2>3, <3>1 DEF DemandOK
    <3>3. r.hc \in {HC_BREAK, HC_BYPASS}
      BY <2>1, <3>1, <3>2 DEF HookChainState, HC_CONTINUE, HC_SUPERCEDE, HC_BREAK, HC_BYPASS
    <3>4. r.hc \in r.heard
      BY <2>1, <3>3 DEF DemandOK, HC_CONTINUE, HC_BREAK, HC_BYPASS
    <3>. QED
      BY <3>2, <3>3, <3>4
  <2>4. HC_BREAK \notin r.heard /\ (r.func \in VoidFunc => ~BypassedRuns(r))
    BY <2>1 DEF DemandOK, BypassedRuns
  <2>. QED
    BY <2>2, <2>3, <2>4 DEF r
<1>. QED
  BY <1>1, InfoInvariance, PTL

\* String arguments that callbacks have set point to temporary strings in use,
\* each to one of its own; all are free when no call is in progress
\* (CTempStrings, SetHookChainArg, clear_temp_strings).
THEOREM TempStringsAlwaysSound == Spec => []TempStringsSound
<1>1. ASSUME IInv, CallInfoInv PROVE TempStringsSound
  <2>1. ASSUME NEW i \in DOMAIN stack, OwnSlot(stack[i])
        PROVE  /\ ~Foreign(stack[i]) /\ stack[i].arg \in Nat
               /\ stack[i].base \in Nat /\ stack[i].used \in Nat
               /\ stack[i].base <= stack[i].arg
               /\ stack[i].arg < stack[i].base + stack[i].used
    <3>1. stack[i] \in Frame /\ SlotOK(stack[i])
      BY <1>1 DEF IInv, TypeOK, CallInfoInv, CallOK
    <3>2. stack[i].arg \in 0 .. (StringsMax - 1)
      BY <2>1 DEF OwnSlot
    <3>. QED
      BY <2>1, <3>1, <3>2, FrameFields, BoundsAssumption DEF SlotOK, CallersString
  <2>2. ASSUME NEW i \in DOMAIN stack, OwnSlot(stack[i])
        PROVE  stack[i].arg < tempUsed
    <3>1. stack[i].base + stack[i].used <= tempUsed /\ tempUsed \in Nat
      BY <1>1, <2>1, <2>2, BoundsAssumption DEF IInv, TypeOK, TempInv, BasesOK
    <3>. QED
      BY <2>1, <2>2, <3>1
  <2>3. ASSUME NEW i \in DOMAIN stack, NEW j \in DOMAIN stack, i < j,
               OwnSlot(stack[i]), OwnSlot(stack[j])
        PROVE  stack[i].arg # stack[j].arg
    <3>1. ~Foreign(stack[i]) /\ ~Foreign(stack[j])
      BY <2>1, <2>3
    <3>2. stack[i].base + stack[i].used <= stack[j].base
      BY <1>1, <2>3, <3>1 DEF IInv, TempInv, BasesOK
    <3>. QED
      BY <2>1, <2>3, <3>2
  <2>4. ASSUME NEW i \in DOMAIN stack, NEW j \in DOMAIN stack, i # j, OwnSlot(stack[i])
        PROVE  stack[i].arg # stack[j].arg
    <3>1. i < j \/ j < i
      BY <1>1, <2>4 DEF IInv, TypeOK
    <3>2. CASE ~OwnSlot(stack[j])
      BY <2>4, <3>2 DEF OwnSlot
    <3>3. CASE OwnSlot(stack[j])
      BY <2>3, <2>4, <3>1, <3>3
    <3>. QED
      BY <3>2, <3>3
  <2>5. ASSUME stack = <<>> PROVE tempUsed = 0
    <3>1. Len(stack) = 0 /\ 1 .. 0 = {}
      BY <2>5
    <3>. QED
      BY <1>1, <3>1 DEF CallInfoInv, StringsOK, InUse
  <2>. QED
    BY <2>2, <2>4, <2>5 DEF TempStringsSound
<1>. QED
  BY <1>1, InfoInvariance, PTL

\* The call that g_hookCtx points to while plugin code runs is executing a
\* callback of its own.
LEMMA ContextRuns ==
    ASSUME IInv, CallInfoInv, InPlugin, hookCtx # 0
    PROVE  /\ hookCtx \in DOMAIN stack /\ stack[hookCtx].phase \in List
           /\ stack[hookCtx].running
<1>1. /\ stack \in Seq(Frame) /\ Len(stack) \in Nat /\ DOMAIN stack = 1 .. Len(stack)
      /\ hookCtx \in 1 .. Len(stack)
  BY DEF IInv, TypeOK
<1>2. stack[hookCtx].phase \in List
  BY DEF IInv, ContextInv, ContextIsInnermost, Prescribed
<1>3. CASE hookCtx = Len(stack)
  BY <1>1, <1>2, <1>3 DEF InPlugin, Top
<1>4. CASE hookCtx < Len(stack)
  BY <1>1, <1>2, <1>4 DEF CallInfoInv, WaitsOK, List
<1>5. hookCtx = Len(stack) \/ hookCtx < Len(stack)
  <2>1. ASSUME NEW n \in Nat, NEW c \in 1 .. n PROVE c = n \/ c < n
    OBVIOUS
  <2>. QED
    BY <1>1, <2>1
<1>. QED
  BY <1>1, <1>2, <1>3, <1>4, <1>5

\* A callback gets the handle of the callback that is executing in its call,
\* and only there; IsReapiHookOriginalWasCalled never claims too much (SetId,
\* ResetId, GetCurrentHookChainHandle).  The bound is that of handles.
THEOREM AnswersAlwaysSound ==
    ASSUME MaxHandlers <= MaxForwards
    PROVE  Spec => []CallAnswersSound
<1>1. ASSUME IInv, HandleInv, CallInfoInv PROVE CallAnswersSound
  <2>1. ASSUME InPlugin, hookCtx # 0
        PROVE  Resolve(GetCurrentHookChainHandle) =
                  {<<stack[hookCtx].func, stack[hookCtx].phase, stack[hookCtx].pos>>}
    <3> DEFINE r == stack[hookCtx]
    <3>1. /\ hookCtx \in DOMAIN stack /\ r.phase \in List /\ r.running
          /\ GetCurrentHookChainHandle = r.index
      BY <1>1, <2>1, ContextRuns DEF GetCurrentHookChainHandle
    <3>2. r \in Frame /\ LoopOK(r, forwards) /\ IndexOK(r)
      BY <1>1, <3>1 DEF IInv, TypeOK, LoopInv, CallInfoInv, CallOK
    <3>. HIDE DEF r
    <3>3. /\ r.func \in Func /\ r.pos \in Nat /\ r.end \in Nat
          /\ r.pos >= 1 /\ r.pos <= r.end
          /\ r.end <= Len(forwards[r.func][r.phase])
          /\ r.index = Encode(r.func, r.pos, r.phase = "post")
      BY <3>1, <3>2, FrameFields DEF LoopOK, IndexOK, List, Foreign
    <3>4. r.pos \in DOMAIN forwards[r.func][r.phase]
      <4>1. forwards[r.func][r.phase] \in Seq(Handler)
        BY <1>1, <3>1, <3>3 DEF IInv, TypeOK
      <4>. QED
        BY <3>3, <4>1
    <3> DEFINE t == <<r.func, r.phase, r.pos>>
    <3>5. t \in Registered
      <4> DEFINE S(f, l) == {<<f, l, i>> : i \in DOMAIN forwards[f][l]}
      <4>1. t \in S(r.func, r.phase)
        BY <3>4
      <4>2. S(r.func, r.phase) \in {S(f, l) : f \in Func, l \in List}
        BY <3>1, <3>3 DEF r
      <4>3. Registered = UNION {S(f, l) : f \in Func, l \in List}
        BY DEF Registered
      <4>. HIDE DEF S, t
      <4>. QED
        BY <4>1, <4>2, <4>3
    <3>6. forwards[t[1]][t[2]][t[3]].index = r.index
      BY <1>1, <3>1, <3>3, <3>4 DEF HandleInv
    <3>7. Resolve(r.index) = {t}
      <4>. HIDE DEF t
      <4>1. HandleNamesItsHandler
        BY <1>1, HandlesResolve DEF IInv
      <4>2. Resolve(forwards[t[1]][t[2]][t[3]].index) = {t}
        BY <3>5, <4>1 DEF HandleNamesItsHandler
      <4>. QED
        BY <3>6, <4>2
    <3>. QED
      BY <3>1, <3>7 DEF r
  <2>2. ASSUME NEW i \in DOMAIN stack, stack[i].phase = "foreign" \/ ~stack[i].running
        PROVE  stack[i].index = InvalidHandle
    BY <1>1, <2>2 DEF CallInfoInv, CallOK, IndexOK, Foreign
  <2>3. ASSUME NEW f \in Func, wasCalled[f]
        PROVE  \E i \in CallsOf(f) : /\ \A j \in CallsOf(f) : j <= i
                                     /\ stack[i].phase = "post" /\ stack[i].called
    BY <1>1, <2>3 DEF CallInfoInv, WasCalledOK, PastOriginal, CallsOf
  <2>. QED
    BY <2>1, <2>2, <2>3 DEF CallAnswersSound
<1>. QED
  BY <1>1, InfoInvariance, PTL

-----------------------------------------------------------------------------
(* Nothing but the current call changes *)

\* What a step may do to the value and the argument of the i-th call.
Untouched(i) == stack'[i].ret = stack[i].ret /\ stack'[i].arg = stack[i].arg
ChangeOK(i) ==
    \/ Prescribed(stack, i, Len(stack))
    \/ i = Len(stack) /\ stack[i].phase = "orig"
    \/ Untouched(i)
CallsKept == \A i \in DOMAIN stack \cap DOMAIN stack' : ChangeOK(i)

LEMMA KeptOfSame ==
    ASSUME \A i \in DOMAIN stack \cap DOMAIN stack' : Untouched(i)
    PROVE  CallsKept
BY DEF CallsKept, ChangeOK

LEMMA KeptOfTop ==
    ASSUME TypeOK, stack # <<>>, NEW r, stack' = SetTop(r),
           Top.phase = "orig" \/ (r.ret = Top.ret /\ r.arg = Top.arg)
    PROVE  CallsKept
<1>1. /\ Len(stack) \in DOMAIN stack /\ stack'[Len(stack)] = r
      /\ \A i \in DOMAIN stack : i # Len(stack) => stack'[i] = stack[i]
  BY TopType DEF SetTop
<1>. QED
  BY <1>1 DEF CallsKept, ChangeOK, Untouched, Top

LEMMA KeptOfPush ==
    ASSUME TypeOK, NEW r \in Frame, stack' = Append(stack, r)
    PROVE  CallsKept
<1>1. /\ stack \in Seq(Frame) /\ DOMAIN stack = 1 .. Len(stack)
      /\ \A i \in 1 .. Len(stack) : stack'[i] = stack[i]
  BY DEF TypeOK
<1>. QED
  BY <1>1, KeptOfSame DEF Untouched

LEMMA KeptOfPop ==
    ASSUME TypeOK, stack # <<>>, stack' = Below
    PROVE  CallsKept
BY BelowType, KeptOfSame DEF Untouched

\* The natives write to the call that g_hookCtx points to.
LEMMA KeptOfNative ==
    ASSUME IInv, SetHookChainReturn \/ SetHookChainArg
    PROVE  CallsKept
<1>1. /\ hookCtx \in DOMAIN stack /\ Prescribed(stack, hookCtx, Len(stack))
      /\ \E r : stack' = [stack EXCEPT ![hookCtx] = r]
  <2>1. CASE SetHookChainReturn
    <3>1. Prescribed(stack, hookCtx, Len(stack))
      BY DEF IInv, ContextInv, ContextIsInnermost
    <3>. QED
      BY <2>1, <3>1, SetReturnStep
  <2>2. CASE SetHookChainArg
    BY <2>2, SetArgStep
  <2>. QED
    BY <2>1, <2>2
<1>2. \A i \in DOMAIN stack : i # hookCtx => Untouched(i)
  BY <1>1 DEF Untouched
<1>. QED
  BY <1>1, <1>2 DEF CallsKept, ChangeOK

LEMMA NextKeepsCalls == ASSUME IInv, [Next]_vars PROVE CallsKept
<1>0. TypeOK
  BY DEF IInv
<1>1. CASE UNCHANGED stack
  BY <1>1, KeptOfSame DEF Untouched
<1>2. CASE \E f \in Func, l \in List, b \in BOOLEAN : RegisterHookChain(f, l, b)
  BY <1>2, RegisterStep, KeptOfSame DEF Untouched, SameValue
<1>3. CASE SkipHandler \/ ExecuteForward \/ \E ret \in HookChainState : PostReturns(ret)
  BY <1>0, <1>3, SkipHandlerStep, ExecuteForwardStep, PostReturnsStep, KeptOfTop
     DEF SameValue
<1>4. CASE CallOriginal \/ SkipOriginal \/ \E ret \in HookChainState : PreReturns(ret)
  BY <1>0, <1>4, CallOriginalStep, SkipOriginalStep, PreReturnsStep, KeptOfTop
<1>5. CASE OriginalReturns
  BY <1>0, <1>5, OriginalReturnsStep, KeptOfTop
<1>6. CASE CallReturns \/ PreReturnsBreak \/ PluginReturns
  <2>1. stack # <<>> /\ stack' = Below
    BY <1>6 DEF CallReturns, PreReturnsBreak, PluginReturns, InLoop, InPlugin, Leave
  <2>. QED
    BY <1>0, <2>1, KeptOfPop
<1>7. CASE (\E f \in Func : Call(f)) \/ PluginCall
  BY <1>0, <1>7, CallStep, PluginCallStep, KeptOfPush
<1>8. CASE Crash
  BY <1>8 DEF Crash, CallsKept
<1>9. CASE Native
  <2>1. CASE \E h \in Handles : EnableHookChain(h) \/ DisableHookChain(h)
    BY <1>1, <2>1 DEF EnableHookChain, DisableHookChain, SetState
  <2>. QED
    BY <1>2, <1>9, <2>1, KeptOfNative DEF Native
<1>10. CASE ServerDeactivate \/ UNCHANGED vars
  BY <1>1, <1>10 DEF ServerDeactivate, calls, vars
<1>. QED
  BY <1>3, <1>4, <1>5, <1>6, <1>7, <1>8, <1>9, <1>10 DEF Next, Loop, Outside

\* A plugin changes the return value and the arguments of no call but the one
\* whose callback is executing, and the value of an original goes to the call
\* of that original (SetHookChainReturn, SetHookChainArg, callForward).
THEOREM OtherCallsUntouched == Spec => OnlyTheCurrentCallChanges
<1> DEFINE A == \A i \in DOMAIN stack \cap DOMAIN stack' :
                   \/ Prescribed(stack, i, Len(stack))
                   \/ i = Len(stack) /\ stack[i].phase = "orig"
                   \/ stack'[i].ret = stack[i].ret /\ stack'[i].arg = stack[i].arg
<1>1. IInv /\ [Next]_vars => [A]_vars
  BY NextKeepsCalls DEF CallsKept, ChangeOK, Untouched
<1>. QED
  BY <1>1, Invariance, PTL DEF Spec, OnlyTheCurrentCallChanges

-----------------------------------------------------------------------------
(* Loops run down *)

\* What a step may do to the loop of a call that it finds as r and leaves as s.
RunsDown(r, s) ==
    r.phase \in List /\ s.phase = r.phase =>
        /\ Left(s) <= Left(r)
        /\ s.running => Left(s) > 0
        /\ r # s /\ ~s.running => Left(s) < Left(r)
AllRunDown == \A i \in DOMAIN stack \cap DOMAIN stack' : RunsDown(stack[i], stack'[i])

\* A call that stays where it is.
LEMMA PlaceRunsDown ==
    ASSUME NEW r \in Frame, IndexOK(r), NEW s, s.pos = r.pos, s.end = r.end,
           s.running = r.running, s = r \/ r.running \/ r.phase \notin List
    PROVE  RunsDown(r, s)
<1>1. r.pos \in Nat /\ r.end \in Nat
  BY FrameFields
<1>. QED
  BY <1>1 DEF RunsDown, Left, IndexOK

\* While plugin code is executing no loop is between two callbacks.
LEMMA PluginRuns ==
    ASSUME CallInfoInv, InPlugin, NEW i \in DOMAIN stack, TypeOK
    PROVE  stack[i].running \/ stack[i].phase \notin List
<1>1. i \in 1 .. Len(stack) /\ Len(stack) \in Nat
  BY DEF TypeOK
<1>2. CASE i = Len(stack)
  BY <1>2 DEF InPlugin, Top
<1>3. CASE i < Len(stack)
  BY <1>3 DEF CallInfoInv, WaitsOK, List
<1>. QED
  BY <1>1, <1>2, <1>3

LEMMA DownOfSame ==
    ASSUME IInv, CallInfoInv,
           \A i \in DOMAIN stack \cap DOMAIN stack' : stack'[i] = stack[i]
    PROVE  AllRunDown
<1> SUFFICES ASSUME NEW i \in DOMAIN stack \cap DOMAIN stack'
             PROVE  RunsDown(stack[i], stack'[i])
  BY DEF AllRunDown
<1>1. stack[i] \in Frame /\ IndexOK(stack[i]) /\ stack'[i] = stack[i]
  BY DEF IInv, TypeOK, CallInfoInv, CallOK
<1>. QED
  BY <1>1, PlaceRunsDown

LEMMA DownOfTop ==
    ASSUME IInv, CallInfoInv, stack # <<>>, NEW r, stack' = SetTop(r), RunsDown(Top, r)
    PROVE  AllRunDown
<1> SUFFICES ASSUME NEW i \in DOMAIN stack \cap DOMAIN stack'
             PROVE  RunsDown(stack[i], stack'[i])
  BY DEF AllRunDown
<1>1. stack[i] \in Frame /\ IndexOK(stack[i])
  BY DEF IInv, TypeOK, CallInfoInv, CallOK
<1>2. CASE i = Len(stack)
  BY <1>2, TopInfo DEF SetTop
<1>3. CASE i # Len(stack)
  <2>1. stack'[i] = stack[i]
    BY <1>3, TopInfo DEF SetTop
  <2>. QED
    BY <1>1, <2>1, PlaceRunsDown
<1>. QED
  BY <1>2, <1>3

\* The natives keep every call where it is.
LEMMA DownOfNative ==
    ASSUME IInv, CallInfoInv, Native
    PROVE  AllRunDown
<1>0. InPlugin /\ TypeOK
  BY DEF Native, RegisterHookChain, EnableHookChain, DisableHookChain, SetState,
     SetHookChainReturn, SetHookChainArg, SettingString, IInv
<1>1. ASSUME NEW i \in DOMAIN stack \cap DOMAIN stack'
      PROVE  /\ stack'[i].pos = stack[i].pos /\ stack'[i].end = stack[i].end
             /\ stack'[i].running = stack[i].running
  <2>1. stack[i] \in Frame /\ DOMAIN stack = 1 .. Len(stack)
    BY <1>0 DEF TypeOK
  <2>2. CASE \E f \in Func, l \in List, b \in BOOLEAN : RegisterHookChain(f, l, b)
    <3>1. PICK f \in Func, l \in List, b \in BOOLEAN : RegisterHookChain(f, l, b)
      BY <2>2
    <3>2. stack' = [j \in DOMAIN stack |->
                      [stack[j] EXCEPT !.stale =
                         @ \/ (b /\ stack[j].func = f /\ stack[j].phase = l)]]
      BY <3>1 DEF RegisterHookChain
    <3>3. \E x : stack'[i] = [stack[i] EXCEPT !.stale = x]
      BY <3>2
    <3>. QED
      BY <2>1, <3>3 DEF Frame
  <2>3. CASE \E h \in Handles : EnableHookChain(h) \/ DisableHookChain(h)
    BY <2>3 DEF EnableHookChain, DisableHookChain, SetState
  <2>4. CASE SetHookChainReturn
    BY <2>1, <2>4 DEF SetHookChainReturn, Frame
  <2>5. CASE SetHookChainArg
    BY <2>1, <2>5 DEF SetHookChainArg, Frame
  <2>. QED
    BY <2>2, <2>3, <2>4, <2>5 DEF Native
<1>. SUFFICES ASSUME NEW i \in DOMAIN stack \cap DOMAIN stack'
              PROVE  RunsDown(stack[i], stack'[i])
  BY DEF AllRunDown
<1>2. stack[i] \in Frame /\ IndexOK(stack[i])
  BY DEF IInv, TypeOK, CallInfoInv, CallOK
<1>3. stack[i].running \/ stack[i].phase \notin List
  BY <1>0, PluginRuns
<1>. QED
  BY <1>1, <1>2, <1>3, PlaceRunsDown

\* A callback that has run no longer is left.
LEMMA DownOfReturn ==
    ASSUME IInv, CallInfoInv, stack # <<>>, Top.running, Top.phase \in List,
           NEW r \in Frame, stack' = SetTop(r), ~r.running, r.end = Top.end,
           r.pos = Top.pos + 1 \/ r.pos = Top.end + 1
    PROVE  AllRunDown
<1>1. /\ Top \in Frame /\ IndexOK(Top) /\ Top.pos \in Nat /\ Top.end \in Nat
  BY TopInfo DEF CallOK
<1>2. Top.pos <= Top.end
  BY <1>1 DEF IndexOK
<1>3. RunsDown(Top, r)
  BY <1>1, <1>2 DEF RunsDown, Left
<1>. QED
  BY <1>3, DownOfTop

LEMMA DownOfPostReturns ==
    ASSUME IInv, CallInfoInv, NEW ret \in HookChainState, PostReturns(ret)
    PROVE  AllRunDown
<1> DEFINE q == Returned(Top)
<1>1. /\ stack # <<>> /\ Top.phase \in List /\ Top.running
      /\ stack' = SetTop(Break(q)) \/ stack' = SetTop(Advance(q))
  BY DEF PostReturns, InPlugin, List
<1>2. q \in Frame /\ ~q.running /\ q.end = Top.end /\ q.pos = Top.pos
  BY <1>1, TopInfo, KinOfReturned, ReturnedFields DEF SameCall
<1>. HIDE DEF q
<1>3. \A r : r \in {Break(q), Advance(q)} =>
         /\ r \in Frame /\ ~r.running /\ r.end = q.end
         /\ r.pos = q.pos + 1 \/ r.pos = q.end + 1
  BY <1>2, AdvanceKin, AdvanceFields DEF SameCall
<1>4. PICK r \in {Break(q), Advance(q)} : stack' = SetTop(r)
  BY <1>1
<1>. QED
  BY <1>1, <1>2, <1>3, <1>4, DownOfReturn

LEMMA DownOfPreReturns ==
    ASSUME IInv, CallInfoInv, NEW ret \in HookChainState, PreReturns(ret)
    PROVE  AllRunDown
<1> DEFINE q == Returned(Top)
           h == Heard(Top, ret)
           p == [q EXCEPT !.heard = h]
           s == IF Counts(ret) /\ ret > p.hc THEN [p EXCEPT !.hc = ret] ELSE p
           t == IF Top.func \in VoidFunc /\ ret = HC_BYPASS
                THEN Break(s) ELSE Advance(s)
<1>1. /\ stack # <<>> /\ Top.phase \in List /\ Top.running /\ stack' = SetTop(t)
  BY DEF PreReturns, InPlugin, List
<1>2. q \in Frame /\ ~q.running /\ q.end = Top.end /\ q.pos = Top.pos
  BY <1>1, TopInfo, KinOfReturned, ReturnedFields DEF SameCall
<1>3. h \in SUBSET HookChainState
  BY <1>1, TopInfo, HeardType
<1>. HIDE DEF q, h
<1>4. p \in Frame /\ ~p.running /\ p.end = q.end /\ p.pos = q.pos
  <2>1. p \in Frame
    BY <1>2, <1>3, KinOfHeard
  <2>. QED
    BY <1>2, <2>1 DEF Frame
<1>. HIDE DEF p
<1>5. s \in Frame /\ ~s.running /\ s.end = p.end /\ s.pos = p.pos
  <2>1. s \in Frame
    BY <1>4, KinOfState
  <2>. QED
    BY <1>4, <2>1 DEF Frame
<1>. HIDE DEF s
<1>6. /\ t \in Frame /\ ~t.running /\ t.end = s.end
      /\ t.pos = s.pos + 1 \/ t.pos = s.end + 1
  BY <1>5, AdvanceKin, AdvanceFields DEF SameCall
<1>. HIDE DEF t
<1>. QED
  BY <1>1, <1>2, <1>4, <1>5, <1>6, DownOfReturn

LEMMA DownOfLoop ==
    ASSUME IInv, CallInfoInv, SkipHandler \/ ExecuteForward \/ CallOriginal \/ SkipOriginal
    PROVE  AllRunDown
<1>1. CASE SkipHandler
  <2>1. stack # <<>> /\ ~Top.running /\ stack' = SetTop(Advance(Top))
    BY <1>1 DEF SkipHandler, Looping
  <2>2. /\ Top.pos \in Nat /\ Top.end \in Nat /\ Advance(Top).end = Top.end
        /\ Advance(Top).pos = Top.pos + 1 /\ ~Advance(Top).running
    BY <2>1, TopInfo, AdvanceFields DEF SameCall
  <2>3. RunsDown(Top, Advance(Top))
    BY <2>2 DEF RunsDown, Left
  <2>. QED
    BY <2>1, <2>3, DownOfTop
<1>2. CASE ExecuteForward
  <2> DEFINE x == AtHandler.index
             r == [Top EXCEPT !.running = TRUE, !.index = x]
  <2>1. stack # <<>> /\ ~AtEnd /\ stack' = SetTop(r)
    BY <1>2 DEF ExecuteForward, Looping
  <2>2. Top \in Frame /\ Top.pos \in Nat /\ Top.end \in Nat
    BY <2>1, TopInfo
  <2>. HIDE DEF x
  <2>3. r.pos = Top.pos /\ r.end = Top.end /\ r.running
    BY <2>2 DEF Frame
  <2>. HIDE DEF r
  <2>4. RunsDown(Top, r)
    BY <2>1, <2>2, <2>3 DEF RunsDown, Left, AtEnd
  <2>. QED
    BY <2>1, <2>4, DownOfTop
<1>3. CASE CallOriginal \/ SkipOriginal
  <2>1. PICK r : /\ stack # <<>> /\ stack' = SetTop(r) /\ Top.phase = "pre"
                 /\ r.phase \in {"orig", "post"}
    <3>1. CASE CallOriginal
      <4> DEFINE r == [Top EXCEPT !.phase = "orig", !.stale = FALSE]
      <4>1. stack # <<>> /\ stack' = SetTop(r) /\ Top.phase = "pre"
        BY <3>1 DEF CallOriginal, InLoop
      <4>2. r.phase = "orig"
        BY <4>1, TopInfo DEF Frame
      <4>. QED
        BY <4>1, <4>2
    <3>2. CASE SkipOriginal
      <4>1. stack # <<>> /\ stack' = SetTop(StartPost(Top)) /\ Top.phase = "pre"
        BY <3>2 DEF SkipOriginal, InLoop
      <4>2. StartPost(Top).phase = "post"
        BY <4>1, TopInfo, PostFields
      <4>. QED
        BY <4>1, <4>2
    <3>. QED
      BY <1>3, <3>1, <3>2
  <2>2. RunsDown(Top, r)
    BY <2>1 DEF RunsDown
  <2>. QED
    BY <2>1, <2>2, DownOfTop
<1>. QED
  BY <1>1, <1>2, <1>3

LEMMA NextRunsDown == ASSUME IInv, CallInfoInv, [Next]_vars PROVE AllRunDown
<1>0. TypeOK
  BY DEF IInv
<1>1. CASE UNCHANGED stack
  BY <1>1, DownOfSame
<1>2. CASE OriginalReturns
  <2>1. stack # <<>> /\ Top.phase = "orig" /\ \E r : stack' = SetTop(r)
    BY <1>2 DEF OriginalReturns
  <2>. QED
    BY <2>1, DownOfTop DEF RunsDown, List
<1>3. CASE CallReturns \/ PreReturnsBreak \/ PluginReturns
  <2>1. stack # <<>> /\ stack' = Below
    BY <1>3 DEF CallReturns, PreReturnsBreak, PluginReturns, InLoop, InPlugin, Leave
  <2>. QED
    BY <1>0, <2>1, BelowType, DownOfSame
<1>4. CASE (\E f \in Func : Call(f)) \/ PluginCall
  <2>1. PICK r \in Frame : stack' = Append(stack, r)
    BY <1>0, <1>4, CallStep, PluginCallStep
  <2>2. /\ stack \in Seq(Frame) /\ DOMAIN stack = 1 .. Len(stack)
        /\ \A i \in 1 .. Len(stack) : stack'[i] = stack[i]
    BY <1>0, <2>1 DEF TypeOK
  <2>. QED
    BY <2>2, DownOfSame
<1>5. CASE Crash
  BY <1>5 DEF Crash, AllRunDown
<1>6. CASE ServerDeactivate \/ UNCHANGED vars
  BY <1>1, <1>6 DEF ServerDeactivate, calls, vars
<1>. QED
  BY <1>2, <1>3, <1>4, <1>5, <1>6, DownOfNative, DownOfLoop, DownOfPreReturns,
     DownOfPostReturns DEF Next, Loop, Outside

\* What callbacks register never adds to what a running loop has left to do,
\* which falls with every callback that has run or is passed over; so each loop
\* over callbacks ends when as many as there were at its start have returned
\* (the range-based for of callForward and callVoidForward).
THEOREM LoopsAlwaysRunDown == Spec => LoopsRunDown
<1> DEFINE A == \A i \in DOMAIN stack \cap DOMAIN stack' :
                   LET r == stack[i]  s == stack'[i] IN
                   r.phase \in List /\ s.phase = r.phase =>
                       /\ Left(s) <= Left(r)
                       /\ s.running => Left(s) > 0
                       /\ r # s /\ ~s.running => Left(s) < Left(r)
<1>1. IInv /\ HandleInv /\ CallInfoInv /\ [Next]_vars => [A]_vars
  BY NextRunsDown DEF AllRunDown, RunsDown
<1>. QED
  BY <1>1, InfoInvariance, PTL DEF Spec, LoopsRunDown
=============================================================================
