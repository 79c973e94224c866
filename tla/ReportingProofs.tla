-------------------------- MODULE ReportingProofs ----------------------------
(***************************************************************************)
(* Proof that no item fails silently (FailureReported), for every         *)
(* instance.  It is not inductive alone: a failure is created deep in an   *)
(* expression and carried up by the ? after a child, by check_vec over a   *)
(* tuple's elements and by the let, none of which reports.  The            *)
(* strengthening RepInv says that a pending failure (an Err result, or a  *)
(* failed tuple frame on the stack) has been reported already, and the    *)
(* steps that carry it on only keep or raise the count.                    *)
(***************************************************************************)
EXTENDS LinearityProofs, TLAPS

(* A failure is pending in the expression being checked. *)
Doomed == pc = "expr" /\ (ret = Err \/ FailedTuple(stack))

(* The strengthening: a failed item or a pending failure was reported. *)
RepInv == (~progOk \/ Doomed) => diags > 0

-----------------------------------------------------------------------------
(* A failed tuple frame after a push, a pop or a change of the top that   *)
(* adds no failed tuple frame was on the stack before.                     *)

LEMMA PushFailed ==
  ASSUME NEW s, s \in Seq(Range(s)), NEW f, ~(f.kind = "Tuple" /\ f.failed),
         FailedTuple(Append(s, f))
  PROVE  FailedTuple(s)
<1>1. s \in Seq(Range(s) \cup {f})
  BY SeqMonotonic
<1>2. /\ Len(s) \in Nat
      /\ DOMAIN s = 1 .. Len(s)
      /\ DOMAIN Append(s, f) = 1 .. Len(s) + 1
      /\ \A j \in 1 .. Len(s) : Append(s, f)[j] = s[j]
      /\ Append(s, f)[Len(s) + 1] = f
  BY <1>1, AppendProperties, LenProperties
<1>3. PICK i \in DOMAIN Append(s, f) :
        Append(s, f)[i].kind = "Tuple" /\ Append(s, f)[i].failed
  BY DEF FailedTuple
<1>4. i # Len(s) + 1
  BY <1>2, <1>3
<1> QED BY <1>2, <1>3, <1>4 DEF FailedTuple

LEMMA PopFailed ==
  ASSUME TypeOK, pc = "expr", FailedTuple(Pop)
  PROVE  FailedTuple(stack)
<1>1. Len(stack) \in Nat /\ DOMAIN stack = 1 .. Len(stack) /\ stack \in Seq(Range(stack))
  BY TopFacts DEF TypeOK, StackOK
<1>2. DOMAIN Pop = 1 .. Len(stack) - 1 /\ \A j \in 1 .. Len(stack) - 1 : Pop[j] = stack[j]
  BY <1>1, SubSeqProperties DEF Pop
<1> QED BY <1>1, <1>2 DEF FailedTuple

LEMMA SetTopFailed ==
  ASSUME TypeOK, pc = "expr", NEW f, ~(f.kind = "Tuple" /\ f.failed),
         FailedTuple(SetTop(f))
  PROVE  FailedTuple(stack)
<1>1. DOMAIN stack = 1 .. Len(stack) /\ Len(stack) \in Nat /\ Len(stack) >= 1
  BY TopFacts DEF TypeOK, StackOK
<1>2. DOMAIN SetTop(f) = DOMAIN stack
  BY DEF SetTop
<1>3. PICK i \in DOMAIN SetTop(f) : SetTop(f)[i].kind = "Tuple" /\ SetTop(f)[i].failed
  BY DEF FailedTuple
<1>4. i # Len(stack)
  BY <1>1, <1>2, <1>3 DEF SetTop
<1>5. SetTop(f)[i] = stack[i]
  BY <1>1, <1>2, <1>4 DEF SetTop
<1> QED BY <1>2, <1>3, <1>5 DEF FailedTuple

-----------------------------------------------------------------------------
(* The shape of every step: the count never drops, and a failure after the *)
(* step was pending before it or is reported by it.                        *)
LEMMA StepRep ==
  ASSUME TypeOK, RepInv, diags' \in Nat, diags' >= diags,
         (~progOk' \/ Doomed') => (~progOk \/ Doomed \/ diags' > 0)
  PROVE  RepInv'
BY DEF RepInv, TypeOK

(* A frame that is not a failed tuple returns r after reporting n more;   *)
(* an Err is returned only when the child's result was Err or n > 0.       *)
LEMMA LeaveRep ==
  ASSUME TypeOK, RepInv, pc = "expr", NEW r, NEW n \in Nat, Leave(r, n),
         r = Err => (ret = Err \/ n > 0)
  PROVE  RepInv'
<1>1. FailedTuple(stack') => FailedTuple(stack)
  BY PopFailed DEF Leave
<1>2. diags' \in Nat /\ diags' >= diags
  BY DEF Leave, Report, TypeOK
<1>3. (~progOk' \/ Doomed') => (~progOk \/ Doomed \/ diags' > 0)
  BY <1>1, <1>2 DEF Leave, Report, Doomed, TypeOK
<1> QED BY <1>2, <1>3, StepRep

(* The top frame moves on to its next child with an empty register. *)
LEMMA NextChildRep ==
  ASSUME TypeOK, RepInv, pc = "expr", NEW f, ~(f.kind = "Tuple" /\ f.failed), NextChild(f)
  PROVE  RepInv'
<1>1. FailedTuple(stack') => FailedTuple(stack)
  BY SetTopFailed DEF NextChild
<1>2. ret' # Err
  BY ErrNotNoRet DEF NextChild
<1>3. diags' \in Nat /\ diags' >= diags
  BY DEF NextChild, TypeOK
<1>4. (~progOk' \/ Doomed') => (~progOk \/ Doomed \/ diags' > 0)
  BY <1>1, <1>2 DEF NextChild, Doomed
<1> QED BY <1>3, <1>4, StepRep

(* A node is entered: a frame that is not a failed tuple is pushed. *)
LEMMA EnterRep ==
  ASSUME TypeOK, RepInv, AtNode, NEW f, ~(f.kind = "Tuple" /\ f.failed),
         stack' = Append(stack, f), UNCHANGED <<pc, ret, progOk>>,
         diags' \in {diags, diags + 1}
  PROVE  RepInv'
<1>1. FailedTuple(stack') => FailedTuple(stack)
  BY PushFailed DEF TypeOK, StackOK
<1>2. ret' # Err
  BY ErrNotNoRet DEF AtNode
<1>3. diags' \in Nat /\ diags' >= diags
  BY DEF TypeOK
<1>4. (~progOk' \/ Doomed') => (~progOk \/ Doomed \/ diags' > 0)
  BY <1>1, <1>2 DEF Doomed, AtNode
<1> QED BY <1>3, <1>4, StepRep

(* A result is produced at a node without touching the stack: it is an Ok *)
(* or an Err that is reported.                                             *)
LEMMA ResultRep ==
  ASSUME TypeOK, RepInv, UNCHANGED <<pc, stack, progOk>>,
         diags' \in {diags, diags + 1}, ret' = Err => diags' = diags + 1
  PROVE  RepInv'
<1>1. diags' \in Nat /\ diags' >= diags
  BY DEF TypeOK
<1>2. (~progOk' \/ Doomed') => (~progOk \/ Doomed \/ diags' > 0)
  BY <1>1 DEF Doomed, TypeOK
<1> QED BY <1>1, <1>2, StepRep
-----------------------------------------------------------------------------
(* Steps between items and statements: no expression is under way after   *)
(* them, and the verdict and the count are kept.                           *)
LEMMA CheckFnDeclRep == RepInv /\ CheckFnDecl => RepInv'
BY DEF CheckFnDecl, RepInv, Doomed

LEMMA ItemStepRep == RepInv /\ (CheckUse \/ FinishProgram \/ FinishBlock) => RepInv'
BY DEF CheckUse, FinishProgram, FinishBlock, RepInv, Doomed

LEMMA StutterRep == RepInv /\ (Terminated \/ UNCHANGED vars) => RepInv'
BY DEF Terminated, vars, RepInv, Doomed

(* A let starts with only its own frame and an empty register. *)
LEMMA StartLetRep == RepInv /\ StartLet => RepInv'
<1> SUFFICES ASSUME RepInv, StartLet PROVE RepInv'
  OBVIOUS
<1>1. PICK p \in Pats, d \in DeclTyps \cup {NoTyp} :
        stack' = <<[kind |-> "Let", pat |-> p, decl |-> d]>>
  BY DEF StartLet
<1>2. ~FailedTuple(stack')
  BY <1>1 DEF FailedTuple
<1>3. ret' # Err
  BY ErrNotNoRet DEF StartLet
<1> QED BY <1>2, <1>3 DEF StartLet, RepInv, Doomed

-----------------------------------------------------------------------------
(* Leaves: an Err is reported where it is made. *)
LEMMA CheckLitRep == TypeOK /\ RepInv /\ CheckLit => RepInv'
<1> SUFFICES ASSUME TypeOK, RepInv, CheckLit PROVE RepInv'
  OBVIOUS
<1>1. ret' # Err
  BY OkNotErr DEF CheckLit, Ok
<1> QED BY <1>1, ResultRep DEF CheckLit

LEMMA CheckNamedRep == TypeOK /\ RepInv /\ CheckNamed => RepInv'
<1> SUFFICES ASSUME TypeOK, RepInv, CheckNamed PROVE RepInv'
  OBVIOUS
<1>1. PICK x \in Vars :
        \/ ret' = Err /\ diags' = diags + 1
        \/ ret' = Ok(varCtx[x]) /\ diags' = diags
  BY DEF CheckNamed, Report
<1>2. ret' = Err => diags' = diags + 1
  BY <1>1, OkNotErr DEF Ok
<1> QED BY <1>1, <1>2, ResultRep DEF CheckNamed

LEMMA CheckQualifiedRep == TypeOK /\ RepInv /\ CheckQualified => RepInv'
BY ResultRep DEF CheckQualified, Report

-----------------------------------------------------------------------------
(* Entering a node pushes a frame that is not a failed tuple frame. *)
LEMMA EnterUnaryRep == TypeOK /\ RepInv /\ EnterUnary => RepInv'
BY EnterRep DEF EnterUnary, Enter, Push

LEMMA EnterBinaryRep == TypeOK /\ RepInv /\ EnterBinary => RepInv'
BY EnterRep DEF EnterBinary, Enter, Push

LEMMA EnterIndexRep == TypeOK /\ RepInv /\ EnterIndex => RepInv'
BY EnterRep DEF EnterIndex, Enter, Push

LEMMA EnterMethodCallRep == TypeOK /\ RepInv /\ EnterMethodCall => RepInv'
BY EnterRep DEF EnterMethodCall, Enter, Push

(* An empty tuple is an Ok result; a tuple of elements pushes a frame that *)
(* has not failed yet.                                                     *)
LEMMA EnterTupleRep == TypeOK /\ RepInv /\ EnterTuple => RepInv'
<1> SUFFICES ASSUME TypeOK, RepInv, EnterTuple PROVE RepInv'
  OBVIOUS
<1>1. PICK n \in 0 .. MaxArgs :
        IF n = 0
          THEN ret' = Ok(Consumed(Node("Tuple", <<>>))) /\ UNCHANGED stack
          ELSE /\ stack' = Push([kind |-> "Tuple", left |-> n, elems |-> <<>>,
                                 failed |-> FALSE, ctx |-> varCtx])
               /\ UNCHANGED ret
  BY DEF EnterTuple
<1>2. UNCHANGED <<pc, progOk, diags>> /\ AtNode
  BY DEF EnterTuple
<1>3. CASE n = 0
  <2>1. ret' # Err
    BY <1>1, <1>3, OkNotErr DEF Ok
  <2> QED BY <1>1, <1>2, <1>3, <2>1, ResultRep
<1>4. CASE n # 0
  BY <1>1, <1>2, <1>4, EnterRep DEF Push
<1> QED BY <1>3, <1>4

(* A call of an unknown name is reported; an arity mismatch is reported;  *)
(* a call with arguments pushes its frame.                                 *)
LEMMA EnterFuncCallRep == TypeOK /\ RepInv /\ EnterFuncCall => RepInv'
<1> SUFFICES ASSUME TypeOK, RepInv, EnterFuncCall PROVE RepInv'
  OBVIOUS
<1>1. PICK f \in Fns, n \in 0 .. MaxArgs :
        IF fnCtx[f] = NoSig
          THEN ret' = Err /\ diags' = diags + 1 /\ UNCHANGED stack
          ELSE LET sig == fnCtx[f]
                   k == Min2(n, Len(sig.args))
               IN  /\ diags' = diags + (IF Len(sig.args) # n THEN 1 ELSE 0)
                   /\ IF k = 0
                        THEN ret' = Ok(Consumed(sig.ret)) /\ UNCHANGED stack
                        ELSE /\ stack' = Push([kind |-> "FuncCall", i |-> 1, out |-> sig.ret,
                                               params |-> [j \in 1 .. k |-> sig.args[j].typ]])
                             /\ UNCHANGED ret
  BY DEF EnterFuncCall, Report
<1>2. UNCHANGED <<pc, progOk>> /\ AtNode /\ diags \in Nat
  BY DEF EnterFuncCall, TypeOK
<1>3. CASE fnCtx[f] = NoSig
  BY <1>1, <1>2, <1>3, ResultRep
<1>4. CASE fnCtx[f] # NoSig /\ Min2(n, Len(fnCtx[f].args)) = 0
  <2>1. ret' = Ok(Consumed(fnCtx[f].ret)) /\ UNCHANGED stack
        /\ diags' \in {diags, diags + 1}
    BY <1>1, <1>2, <1>4
  <2>2. ret' # Err
    BY <2>1, OkNotErr DEF Ok
  <2> QED BY <1>2, <2>1, <2>2, ResultRep
<1>5. CASE fnCtx[f] # NoSig /\ Min2(n, Len(fnCtx[f].args)) # 0
  <2> DEFINE sig == fnCtx[f]
             frame == [kind |-> "FuncCall", i |-> 1, out |-> sig.ret,
                       params |-> [j \in 1 .. Min2(n, Len(sig.args)) |-> sig.args[j].typ]]
  <2>1. stack' = Append(stack, frame) /\ UNCHANGED ret
    BY <1>1, <1>5, Zenon DEF Push
  <2>2. diags' \in {diags, diags + 1}
    BY <1>1, <1>2, <1>5
  <2>3. ~(frame.kind = "Tuple" /\ frame.failed)
    OBVIOUS
  <2> HIDE DEF frame
  <2> QED BY <1>2, <2>1, <2>2, <2>3, EnterRep
<1> QED BY <1>3, <1>4, <1>5

-----------------------------------------------------------------------------
(* A frame other than a tuple receives a result: the ? passes an Err on,  *)
(* a type error is reported with the Err it returns.                       *)
LEMMA PropagateRep == TypeOK /\ RepInv /\ Propagate => RepInv'
<1> SUFFICES ASSUME TypeOK, RepInv, Propagate PROVE RepInv'
  OBVIOUS
<1>1. pc = "expr" /\ ret = Err
  BY RetFacts DEF Propagate
<1> QED BY <1>1, LeaveRep DEF Propagate

LEMMA ReturnUnaryRep == TypeOK /\ RepInv /\ ReturnUnary => RepInv'
BY LeaveRep DEF ReturnUnary, Returning

LEMMA ReturnMethodCallRep == TypeOK /\ RepInv /\ ReturnMethodCall => RepInv'
BY LeaveRep DEF ReturnMethodCall, Returning

(* The top frame, changed in a field other than its kind, is no tuple. *)
LEMMA KindKept ==
  ASSUME TypeOK, pc = "expr", Top.kind \in {"Binary", "Index", "FuncCall"},
         NEW fld \in {"left", "i"}, NEW v
  PROVE  [Top EXCEPT ![fld] = v].kind = Top.kind
<1>1. IsFrame(Top)
  BY TopFacts
<1>2. \/ Top = [kind |-> Top.kind, left |-> Top.left]
      \/ Top = [kind |-> "FuncCall", i |-> Top.i, out |-> Top.out, params |-> Top.params]
  BY <1>1 DEF IsFrame
<1> QED BY <1>2

LEMMA ReturnBinaryRep == TypeOK /\ RepInv /\ ReturnBinary => RepInv'
<1> SUFFICES ASSUME TypeOK, RepInv, ReturnBinary PROVE RepInv'
  OBVIOUS
<1>1. pc = "expr" /\ ret # Err /\ Top.kind = "Binary"
  BY OkNotErr DEF ReturnBinary, Returning
<1>2. [Top EXCEPT !.left = ret.typ].kind = "Binary"
  BY <1>1, KindKept
<1>3. \/ NextChild([Top EXCEPT !.left = ret.typ])
      \/ Leave(Ok(Top.left), 0)
      \/ Leave(Err, 1)
  BY DEF ReturnBinary
<1>4. Ok(Top.left) # Err
  BY OkNotErr DEF Ok
<1>5. CASE NextChild([Top EXCEPT !.left = ret.typ])
  BY <1>1, <1>2, <1>5, NextChildRep
<1>6. CASE Leave(Ok(Top.left), 0)
  BY <1>1, <1>4, <1>6, LeaveRep
<1>7. CASE Leave(Err, 1)
  BY <1>1, <1>4, <1>7, LeaveRep
<1> QED BY <1>3, <1>5, <1>6, <1>7

LEMMA ReturnIndexRep == TypeOK /\ RepInv /\ ReturnIndex => RepInv'
<1> SUFFICES ASSUME TypeOK, RepInv, ReturnIndex PROVE RepInv'
  OBVIOUS
<1>1. pc = "expr" /\ ret # Err /\ Top.kind = "Index"
  BY OkNotErr DEF ReturnIndex, Returning
<1>2. [Top EXCEPT !.left = ret.typ].kind = "Index"
  BY <1>1, KindKept
<1>3. \/ NextChild([Top EXCEPT !.left = ret.typ])
      \/ Leave(Err, 1)
      \/ Leave(Ok(Consumed(Child(Top.left.base, 1))), 0)
  BY DEF ReturnIndex
<1>4. Ok(Consumed(Child(Top.left.base, 1))) # Err
  BY OkNotErr DEF Ok
<1>5. CASE NextChild([Top EXCEPT !.left = ret.typ])
  BY <1>1, <1>2, <1>5, NextChildRep
<1>6. CASE Leave(Err, 1)
  BY <1>1, <1>4, <1>6, LeaveRep
<1>7. CASE Leave(Ok(Consumed(Child(Top.left.base, 1))), 0)
  BY <1>1, <1>4, <1>7, LeaveRep
<1> QED BY <1>3, <1>5, <1>6, <1>7

LEMMA ReturnFuncCallRep == TypeOK /\ RepInv /\ ReturnFuncCall => RepInv'
<1> SUFFICES ASSUME TypeOK, RepInv, ReturnFuncCall PROVE RepInv'
  OBVIOUS
<1>1. pc = "expr" /\ ret # Err /\ Top.kind = "FuncCall"
  BY OkNotErr DEF ReturnFuncCall, Returning
<1>2. [Top EXCEPT !.i = @ + 1].kind = "FuncCall"
  BY <1>1, KindKept
<1>3. \/ Leave(Err, 1)
      \/ NextChild([Top EXCEPT !.i = @ + 1])
      \/ Leave(Ok(Consumed(Top.out)), 0)
  BY DEF ReturnFuncCall
<1>4. Ok(Consumed(Top.out)) # Err
  BY OkNotErr DEF Ok
<1>5. CASE Leave(Err, 1)
  BY <1>1, <1>4, <1>5, LeaveRep
<1>6. CASE NextChild([Top EXCEPT !.i = @ + 1])
  BY <1>1, <1>2, <1>6, NextChildRep
<1>7. CASE Leave(Ok(Consumed(Top.out)), 0)
  BY <1>1, <1>4, <1>7, LeaveRep
<1> QED BY <1>3, <1>5, <1>6, <1>7

-----------------------------------------------------------------------------
(***************************************************************************)
(* A tuple element returns.  The tuple has failed after it only if it had  *)
(* failed before (its frame was a failed tuple frame), the element        *)
(* returned Err, or the element was Borrowed, which is reported here.     *)
(***************************************************************************)
LEMMA ReturnTupleRep == TypeOK /\ RepInv /\ ReturnTuple => RepInv'
<1> SUFFICES ASSUME TypeOK, RepInv, ReturnTuple PROVE RepInv'
  OBVIOUS
<1> DEFINE good == ret.ok /\ ret.typ.mode = "Consumed"
           nctx == IF ret.ok THEN varCtx ELSE Top.ctx
           nelems == IF good THEN Append(Top.elems, ret.typ.base) ELSE Top.elems
           nfailed == Top.failed \/ ~good
           g == [kind |-> "Tuple", left |-> Top.left - 1, elems |-> nelems,
                 failed |-> nfailed, ctx |-> nctx]
<1>1. /\ pc = "expr" /\ pc' = "expr" /\ ret # NoRet /\ Top.kind = "Tuple"
      /\ UNCHANGED progOk
      /\ diags' = diags + (IF ret.ok /\ ~good THEN 1 ELSE 0)
      /\ Top.left > 1 => stack' = SetTop(g) /\ ret' = NoRet
      /\ ~(Top.left > 1) => stack' = Pop /\ ret' = IF nfailed THEN Err ELSE Ok(Consumed(Node("Tuple", nelems)))
  BY DEF ReturnTuple, Returning, Report
<1>2. diags' \in Nat /\ diags' >= diags
  BY <1>1 DEF TypeOK
<1>3. Top.failed => FailedTuple(stack)
  <2>1. Len(stack) \in DOMAIN stack
    BY <1>1, TopFacts
  <2> QED BY <1>1, <2>1 DEF Top, FailedTuple
<1>4. ~good /\ ~ret.ok => ret = Err
  BY <1>1, RetFacts
<1>5. nfailed => (Doomed \/ diags' > 0)
  <2>1. CASE Top.failed
    BY <1>1, <1>3, <2>1 DEF Doomed
  <2>2. CASE ~good /\ ret.ok
    <3>1. diags' = diags + 1 /\ diags \in Nat
      BY <1>1, <2>2 DEF TypeOK
    <3> QED BY <3>1
  <2>3. CASE ~good /\ ~ret.ok
    BY <1>1, <1>4, <2>3 DEF Doomed
  <2> QED BY <2>1, <2>2, <2>3
<1>6. FailedTuple(stack') => (FailedTuple(stack) \/ nfailed)
  <2>1. CASE Top.left > 1
    <3>1. g.kind = "Tuple" /\ g.failed = nfailed
      OBVIOUS
    <3> HIDE DEF g
    <3> QED BY <1>1, <2>1, <3>1, SetTopFailed
  <2>3. CASE ~(Top.left > 1)
    BY <1>1, <2>3, PopFailed
  <2> QED BY <2>1, <2>3
<1>7. ret' = Err => nfailed
  <2>1. Ok(Consumed(Node("Tuple", nelems))) # Err /\ NoRet # Err
    BY OkNotErr, ErrNotNoRet DEF Ok
  <2> QED BY <1>1, <2>1
<1>8. (~progOk' \/ Doomed') => (~progOk \/ Doomed \/ diags' > 0)
  BY <1>1, <1>5, <1>6, <1>7 DEF Doomed
<1> QED BY <1>2, <1>8, StepRep

-----------------------------------------------------------------------------
(* A pattern that fails reports one diagnostic: "pattern not of the right  *)
(* type" is the only failing case of typecheck_pattern.                    *)
LEMMA PatternFailureReported ==
  ASSUME NEW p, NEW t, ~typecheck_pattern(p, t).ok
  PROVE  typecheck_pattern(p, t).diags = 1
BY DEF typecheck_pattern

(***************************************************************************)
(* A let finishes.  The item fails with the Err of its expression, which  *)
(* was pending and so reported, or with a diagnostic of the let itself;   *)
(* an accepted let keeps the verdict and only adds to the count.          *)
(***************************************************************************)
LEMMA FinishLetRep == TypeOK /\ RepInv /\ FinishLet => RepInv'
<1> SUFFICES ASSUME TypeOK, RepInv, FinishLet PROVE RepInv'
  OBVIOUS
<1> DEFINE bind == typecheck_pattern(Top.pat, ret.typ)
<1>1. pc = "expr" /\ ret # NoRet /\ Top.kind = "Let" /\ diags \in Nat
  BY DEF FinishLet, Returning, TypeOK
<1>2. ASSUME NEW n, FailItem(n), diags + n > 0 PROVE RepInv'
  BY <1>2 DEF FailItem, Report, RepInv
<1>3. CASE ~ret.ok /\ FailItem(0)
  <2>1. ret = Err
    BY <1>1, <1>3, RetFacts
  <2>2. diags + 0 > 0
    BY <1>1, <2>1 DEF RepInv, Doomed
  <2> QED BY <1>3, <2>2, <1>2
<1>4. CASE FailItem(1)
  BY <1>1, <1>2, <1>4
<1>5. CASE ~bind.ok /\ FailItem(bind.diags)
  <2>1. bind.diags = 1
    BY <1>5, PatternFailureReported
  <2> QED BY <1>1, <1>2, <1>5, <2>1
<1>6. CASE /\ ret.ok /\ bind.ok
           /\ diags' = diags + bind.diags
           /\ pc' = "stmt"
           /\ UNCHANGED progOk
  <2>1. IsFrame(Top) /\ IsTyp(ret.typ)
    BY <1>1, <1>6, TopFacts, RetFacts
  <2>2. Top.pat \in Pats
    BY <1>1, <2>1 DEF IsFrame
  <2>3. bind.diags \in Nat
    BY <2>1, <2>2, PatternResult
  <2> QED BY <1>1, <1>6, <2>3 DEF RepInv, Doomed
<1> QED BY <1>3, <1>4, <1>5, <1>6 DEF FinishLet, Report

-----------------------------------------------------------------------------
(***************************************************************************)
(* No item is rejected silently (Typechecker's FailureReported, checked by *)
(* the core and nested runs), for every instance: once check_vec's verdict *)
(* is false, sess.span_err has been called.  In the code, each Err is made *)
(* next to a span_err (unknown variable, path, function or method; a type  *)
(* mismatch; a Borrowed tuple element; a failing pattern), and the ? after *)
(* a child, the tuple's collect of its elements and the let only pass an  *)
(* Err that is already reported.                                           *)
(***************************************************************************)
THEOREM FailureReportedHolds == Spec => []FailureReported
<1>1. Init => RepInv
  BY DEF Init, RepInv, Doomed
<1>2. TypeOK /\ RepInv /\ [Next]_vars => RepInv'
  <2> SUFFICES ASSUME TypeOK, RepInv, [Next]_vars PROVE RepInv'
    OBVIOUS
  <2>1. CASE CheckFnDecl      BY <2>1, CheckFnDeclRep
  <2>2. CASE CheckUse \/ FinishProgram \/ FinishBlock
    BY <2>2, ItemStepRep
  <2>3. CASE StartLet         BY <2>3, StartLetRep
  <2>4. CASE FinishLet        BY <2>4, FinishLetRep
  <2>5. CASE CheckLit         BY <2>5, CheckLitRep
  <2>6. CASE CheckNamed       BY <2>6, CheckNamedRep
  <2>7. CASE CheckQualified   BY <2>7, CheckQualifiedRep
  <2>8. CASE EnterUnary       BY <2>8, EnterUnaryRep
  <2>9. CASE EnterBinary      BY <2>9, EnterBinaryRep
  <2>10. CASE EnterIndex      BY <2>10, EnterIndexRep
  <2>11. CASE EnterTuple      BY <2>11, EnterTupleRep
  <2>12. CASE EnterFuncCall   BY <2>12, EnterFuncCallRep
  <2>13. CASE EnterMethodCall BY <2>13, EnterMethodCallRep
  <2>14. CASE Propagate       BY <2>14, PropagateRep
  <2>15. CASE ReturnUnary     BY <2>15, ReturnUnaryRep
  <2>16. CASE ReturnBinary    BY <2>16, ReturnBinaryRep
  <2>17. CASE ReturnIndex     BY <2>17, ReturnIndexRep
  <2>18. CASE ReturnTuple     BY <2>18, ReturnTupleRep
  <2>19. CASE ReturnFuncCall  BY <2>19, ReturnFuncCallRep
  <2>20. CASE ReturnMethodCall BY <2>20, ReturnMethodCallRep
  <2>21. CASE Terminated \/ UNCHANGED vars
    BY <2>21, StutterRep
  <2> QED BY <2>1, <2>2, <2>3, <2>4, <2>5, <2>6, <2>7, <2>8, <2>9, <2>10,
             <2>11, <2>12, <2>13, <2>14, <2>15, <2>16, <2>17, <2>18, <2>19,
             <2>20, <2>21 DEF Next
<1>3. RepInv => FailureReported
  BY DEF RepInv, FailureReported
<1> QED BY <1>1, <1>2, <1>3, TypeCorrect, PTL DEF Spec
=============================================================================
