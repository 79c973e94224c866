--------------------------- MODULE LinearityProofs ---------------------------
(***************************************************************************)
(* Proof that the checker of Typechecker enforces linearity for every      *)
(* instance: between statements no live binding has been moved.  The      *)
(* invariant is not inductive alone, because a tuple element that fails   *)
(* restores the context from before it, bringing moved names back while   *)
(* the expression is checked.  It is strengthened by MovedOnlyWhenDoomed:  *)
(* such a name only exists while a failed tuple frame is on the stack or  *)
(* the result register holds Err, and neither lets the let succeed.       *)
(***************************************************************************)
EXTENDS TypecheckerProofs, TLAPS

LinInv == Linearity /\ MovedOnlyWhenDoomed

(* A failed tuple frame survives a push. *)
LEMMA FailedTuplePush ==
  ASSUME NEW s, s \in Seq(Range(s)), FailedTuple(s), NEW f
  PROVE  FailedTuple(Append(s, f))
<1>1. PICK i \in DOMAIN s : s[i].kind = "Tuple" /\ s[i].failed
  BY DEF FailedTuple
<1>2. s \in Seq(Range(s) \cup {f})
  BY SeqMonotonic
<1>3. /\ DOMAIN s = 1 .. Len(s)
      /\ DOMAIN Append(s, f) = 1 .. Len(s) + 1
      /\ \A j \in 1 .. Len(s) : Append(s, f)[j] = s[j]
  BY <1>2, AppendProperties, LenProperties
<1> QED BY <1>1, <1>3 DEF FailedTuple

(* A failed tuple frame below the top survives a pop or a change of the top. *)
LEMMA FailedTupleBelowTop ==
  ASSUME TypeOK, pc = "expr", FailedTuple(stack), ~(Top.kind = "Tuple" /\ Top.failed),
         NEW f
  PROVE  FailedTuple(Pop) /\ FailedTuple(SetTop(f))
<1>1. PICK i \in DOMAIN stack : stack[i].kind = "Tuple" /\ stack[i].failed
  BY DEF FailedTuple
<1>2. DOMAIN stack = 1 .. Len(stack) /\ Len(stack) \in Nat /\ stack \in Seq(Range(stack))
  BY TopFacts DEF TypeOK, StackOK
<1>3. i \in 1 .. Len(stack) - 1
  BY <1>1, <1>2 DEF Top
<1>4. DOMAIN Pop = 1 .. Len(stack) - 1 /\ Pop[i] = stack[i]
  BY <1>2, <1>3, SubSeqProperties DEF Pop
<1>5. DOMAIN SetTop(f) = DOMAIN stack /\ SetTop(f)[i] = stack[i]
  BY <1>2, <1>3 DEF SetTop
<1> QED BY <1>1, <1>3, <1>4, <1>5 DEF FailedTuple

(* The top frame, made a failed tuple frame. *)
LEMMA FailedTupleTop ==
  ASSUME TypeOK, pc = "expr", NEW f, f.kind = "Tuple", f.failed
  PROVE  FailedTuple(SetTop(f))
<1>1. DOMAIN stack = 1 .. Len(stack) /\ Len(stack) >= 1
  BY TopFacts
<1> QED BY <1>1 DEF SetTop, FailedTuple

(* Err is not the empty register. *)
LEMMA ErrNotNoRet == Err # NoRet
<1>1. Err \in [ok : BOOLEAN, typ : {NoTyp}]
  BY DEF Err
<1> QED BY <1>1, NoValuesAssumption

(* A node is entered: the frames below it are kept. *)
LEMMA EnterLin ==
  ASSUME TypeOK, LinInv, AtNode, NEW f, stack' = Append(stack, f),
         UNCHANGED <<pc, varCtx, moves, ret>>
  PROVE  LinInv'
<1>1. stack \in Seq(Range(stack))
  BY DEF TypeOK, StackOK
<1>2. ASSUME NEW x \in DOMAIN varCtx, moves[x] > 0 PROVE FailedTuple(stack')
  <2>1. FailedTuple(stack)
    BY <1>2, ErrNotNoRet DEF LinInv, MovedOnlyWhenDoomed, AtNode
  <2> QED BY <1>1, <2>1, FailedTuplePush
<1> QED BY <1>2 DEF LinInv, Linearity, MovedOnlyWhenDoomed, AtNode

(* A node frame that is not a failed tuple returns r: either r is Err or  *)
(* the child's result was not, and a failed tuple frame lies below.       *)
LEMMA LeaveLin ==
  ASSUME TypeOK, LinInv, pc = "expr", ~(Top.kind = "Tuple" /\ Top.failed),
         NEW r, r = Err \/ ret # Err, NEW n, Leave(r, n)
  PROVE  LinInv'
<1>1. ASSUME NEW x \in DOMAIN varCtx, moves[x] > 0, r # Err PROVE FailedTuple(stack')
  <2>1. FailedTuple(stack)
    BY <1>1 DEF LinInv, MovedOnlyWhenDoomed
  <2> QED BY <2>1, FailedTupleBelowTop DEF Leave
<1> QED BY <1>1 DEF LinInv, Linearity, MovedOnlyWhenDoomed, Leave

(* The top frame, not a failed tuple, moves on to its next child after a  *)
(* result that is not Err.                                                 *)
LEMMA NextChildLin ==
  ASSUME TypeOK, LinInv, pc = "expr", ~(Top.kind = "Tuple" /\ Top.failed),
         ret # Err, NEW f, NextChild(f)
  PROVE  LinInv'
<1>1. ASSUME NEW x \in DOMAIN varCtx, moves[x] > 0 PROVE FailedTuple(stack')
  <2>1. FailedTuple(stack)
    BY <1>1 DEF LinInv, MovedOnlyWhenDoomed
  <2> QED BY <2>1, FailedTupleBelowTop DEF NextChild
<1> QED BY <1>1 DEF LinInv, Linearity, MovedOnlyWhenDoomed, NextChild

-----------------------------------------------------------------------------
(* Item-level steps.  A declaration starts with no name moved. *)
LEMMA CheckFnDeclLin == TypeOK' /\ CheckFnDecl => LinInv'
<1> SUFFICES ASSUME TypeOK', CheckFnDecl PROVE LinInv'
  OBVIOUS
<1>1. DOMAIN varCtx' \subseteq Vars
  BY DEF TypeOK, IsCtx
<1> QED BY <1>1 DEF CheckFnDecl, LinInv, Linearity, MovedOnlyWhenDoomed

LEMMA ItemStepLin == CheckUse \/ FinishProgram \/ FinishBlock => LinInv'
BY DEF CheckUse, FinishProgram, FinishBlock, LinInv, Linearity, MovedOnlyWhenDoomed

LEMMA StutterLin == LinInv /\ (Terminated \/ UNCHANGED vars) => LinInv'
BY DEF Terminated, vars, LinInv, Linearity, MovedOnlyWhenDoomed

(* A let starts in a context where no live name was moved. *)
LEMMA StartLetLin == LinInv /\ StartLet => LinInv'
BY DEF StartLet, LinInv, Linearity, MovedOnlyWhenDoomed

-----------------------------------------------------------------------------
(* Leaves.  A leaf is checked with an empty register, so a moved live name *)
(* is covered by a failed tuple frame, which the leaf does not touch.      *)
LEMMA AtNodeFailed ==
  ASSUME LinInv, AtNode, NEW x \in DOMAIN varCtx, moves[x] > 0
  PROVE  FailedTuple(stack)
BY ErrNotNoRet DEF LinInv, MovedOnlyWhenDoomed, AtNode

LEMMA CheckLitLin == LinInv /\ CheckLit => LinInv'
<1> SUFFICES ASSUME LinInv, CheckLit PROVE LinInv'
  OBVIOUS
<1> QED BY AtNodeFailed DEF CheckLit, AtNode, LinInv, Linearity, MovedOnlyWhenDoomed

LEMMA CheckQualifiedLin == LinInv /\ CheckQualified => LinInv'
BY DEF CheckQualified, AtNode, LinInv, Linearity, MovedOnlyWhenDoomed

(* A moved name leaves the context. *)
LEMMA CheckNamedLin == TypeOK /\ LinInv /\ CheckNamed => LinInv'
<1> SUFFICES ASSUME TypeOK, LinInv, CheckNamed PROVE LinInv'
  OBVIOUS
<1>1. pc = "expr" /\ pc' = "expr" /\ stack' = stack /\ ret = NoRet
  BY DEF CheckNamed, AtNode
<1>2. PICK x \in Vars :
        \/ /\ x \notin DOMAIN varCtx
           /\ ret' = Err
           /\ UNCHANGED <<varCtx, moves>>
        \/ /\ x \in DOMAIN varCtx
           /\ IF Moves(varCtx[x])
                THEN /\ varCtx' = Without(varCtx, x)
                     /\ moves' = [moves EXCEPT ![x] = @ + 1]
                ELSE UNCHANGED <<varCtx, moves>>
  BY DEF CheckNamed
<1>3. CASE ret' = Err
  BY <1>1, <1>3 DEF LinInv, Linearity, MovedOnlyWhenDoomed
<1>4. CASE UNCHANGED <<varCtx, moves>>
  <2> SUFFICES ASSUME NEW y \in DOMAIN varCtx', moves'[y] > 0 PROVE FailedTuple(stack')
    BY <1>1 DEF LinInv, Linearity, MovedOnlyWhenDoomed
  <2>1. varCtx' = varCtx /\ moves' = moves
    BY <1>4
  <2>2. FailedTuple(stack)
    BY <1>1, <2>1, ErrNotNoRet DEF LinInv, MovedOnlyWhenDoomed
  <2> QED BY <1>1, <2>2
<1>5. CASE varCtx' = Without(varCtx, x) /\ moves' = [moves EXCEPT ![x] = @ + 1]
  <2> SUFFICES ASSUME NEW y \in DOMAIN varCtx', moves'[y] > 0 PROVE FailedTuple(stack')
    BY <1>1 DEF LinInv, Linearity, MovedOnlyWhenDoomed
  <2>1. y \in DOMAIN varCtx /\ y # x
    BY <1>5 DEF Without
  <2>2. moves[y] > 0
    BY <1>5, <2>1 DEF TypeOK, IsCtx
  <2>3. FailedTuple(stack)
    BY <1>1, <2>1, <2>2, ErrNotNoRet DEF LinInv, MovedOnlyWhenDoomed
  <2> QED BY <1>1, <2>3
<1> QED BY <1>2, <1>3, <1>4, <1>5

-----------------------------------------------------------------------------
(* Entering nodes. *)
LEMMA EnterUnaryLin == TypeOK /\ LinInv /\ EnterUnary => LinInv'
BY EnterLin DEF EnterUnary, Enter, Push

LEMMA EnterBinaryLin == TypeOK /\ LinInv /\ EnterBinary => LinInv'
BY EnterLin DEF EnterBinary, Enter, Push

LEMMA EnterIndexLin == TypeOK /\ LinInv /\ EnterIndex => LinInv'
BY EnterLin DEF EnterIndex, Enter, Push

LEMMA EnterMethodCallLin == TypeOK /\ LinInv /\ EnterMethodCall => LinInv'
BY EnterLin DEF EnterMethodCall, Enter, Push

(* A result produced at a node without pushing a frame. *)
LEMMA ResultAtNodeLin ==
  ASSUME LinInv, AtNode, UNCHANGED <<pc, varCtx, moves, stack>>
  PROVE  LinInv'
BY AtNodeFailed DEF AtNode, LinInv, Linearity, MovedOnlyWhenDoomed

LEMMA EnterTupleLin == TypeOK /\ LinInv /\ EnterTuple => LinInv'
<1> SUFFICES ASSUME TypeOK, LinInv, EnterTuple PROVE LinInv'
  OBVIOUS
<1>1. PICK n \in 0 .. MaxArgs :
        IF n = 0
          THEN UNCHANGED stack
          ELSE /\ stack' = Push([kind |-> "Tuple", left |-> n, elems |-> <<>>,
                                 failed |-> FALSE, ctx |-> varCtx])
               /\ UNCHANGED ret
  BY DEF EnterTuple
<1>2. CASE n = 0
  BY <1>1, <1>2, ResultAtNodeLin DEF EnterTuple
<1>3. CASE n # 0
  BY <1>1, <1>3, EnterLin DEF EnterTuple, Push
<1> QED BY <1>2, <1>3

LEMMA EnterFuncCallLin == TypeOK /\ LinInv /\ EnterFuncCall => LinInv'
<1> SUFFICES ASSUME TypeOK, LinInv, EnterFuncCall PROVE LinInv'
  OBVIOUS
<1>1. PICK f \in Fns, n \in 0 .. MaxArgs :
        IF fnCtx[f] = NoSig
          THEN ret' = Err /\ UNCHANGED stack
          ELSE LET sig == fnCtx[f]
                   k == Min2(n, Len(sig.args))
               IN  IF k = 0
                     THEN UNCHANGED stack
                     ELSE /\ stack' = Push([kind |-> "FuncCall", i |-> 1, out |-> sig.ret,
                                            params |-> [j \in 1 .. k |-> sig.args[j].typ]])
                          /\ UNCHANGED ret
  BY DEF EnterFuncCall
<1>2. UNCHANGED <<pc, varCtx, moves>> /\ AtNode
  BY DEF EnterFuncCall
<1>3. CASE fnCtx[f] = NoSig
  BY <1>1, <1>2, <1>3 DEF LinInv, Linearity, MovedOnlyWhenDoomed, AtNode
<1>4. CASE fnCtx[f] # NoSig /\ Min2(n, Len(fnCtx[f].args)) = 0
  BY <1>1, <1>2, <1>4, ResultAtNodeLin
<1>5. CASE fnCtx[f] # NoSig /\ Min2(n, Len(fnCtx[f].args)) # 0
  <2> DEFINE sig == fnCtx[f]
             frame == [kind |-> "FuncCall", i |-> 1, out |-> sig.ret,
                       params |-> [j \in 1 .. Min2(n, Len(sig.args)) |-> sig.args[j].typ]]
  <2>1. stack' = Push(frame) /\ UNCHANGED ret
    BY <1>1, <1>5, Zenon
  <2> QED BY <1>2, <2>1, EnterLin DEF Push
<1> QED BY <1>3, <1>4, <1>5

-----------------------------------------------------------------------------
(* Frames of operators, indexes and calls receive a result. *)
LEMMA OkNotErr == ASSUME NEW r, r.ok PROVE r # Err
BY DEF Err

LEMMA PropagateLin == TypeOK /\ LinInv /\ Propagate => LinInv'
BY LeaveLin DEF Propagate

LEMMA ReturnUnaryLin == TypeOK /\ LinInv /\ ReturnUnary => LinInv'
BY LeaveLin DEF ReturnUnary, Returning

LEMMA ReturnMethodCallLin == TypeOK /\ LinInv /\ ReturnMethodCall => LinInv'
BY LeaveLin DEF ReturnMethodCall, Returning

LEMMA ReturnBinaryLin == TypeOK /\ LinInv /\ ReturnBinary => LinInv'
<1> SUFFICES ASSUME TypeOK, LinInv, ReturnBinary PROVE LinInv'
  OBVIOUS
<1>1. pc = "expr" /\ ret # Err /\ Top.kind = "Binary"
  BY OkNotErr DEF ReturnBinary, Returning
<1>2. \/ NextChild([Top EXCEPT !.left = ret.typ])
      \/ Leave(Ok(Top.left), 0)
      \/ Leave(Err, 1)
  BY DEF ReturnBinary
<1> QED BY <1>1, <1>2, LeaveLin, NextChildLin

LEMMA ReturnIndexLin == TypeOK /\ LinInv /\ ReturnIndex => LinInv'
<1> SUFFICES ASSUME TypeOK, LinInv, ReturnIndex PROVE LinInv'
  OBVIOUS
<1>1. pc = "expr" /\ ret # Err /\ Top.kind = "Index"
  BY OkNotErr DEF ReturnIndex, Returning
<1>2. \/ NextChild([Top EXCEPT !.left = ret.typ])
      \/ Leave(Err, 1)
      \/ Leave(Ok(Consumed(Child(Top.left.base, 1))), 0)
  BY DEF ReturnIndex
<1> QED BY <1>1, <1>2, LeaveLin, NextChildLin

LEMMA ReturnFuncCallLin == TypeOK /\ LinInv /\ ReturnFuncCall => LinInv'
<1> SUFFICES ASSUME TypeOK, LinInv, ReturnFuncCall PROVE LinInv'
  OBVIOUS
<1>1. pc = "expr" /\ ret # Err /\ Top.kind = "FuncCall"
  BY OkNotErr DEF ReturnFuncCall, Returning
<1>2. \/ Leave(Err, 1)
      \/ NextChild([Top EXCEPT !.i = @ + 1])
      \/ Leave(Ok(Consumed(Top.out)), 0)
  BY DEF ReturnFuncCall
<1> QED BY <1>1, <1>2, LeaveLin, NextChildLin

-----------------------------------------------------------------------------
(***************************************************************************)
(* A tuple element returns.  If the tuple has now failed (an Err element  *)
(* restored the context, or a Borrowed element, or an earlier failure)    *)
(* its frame is a failed tuple frame, or, as the last element, it returns *)
(* Err.  Otherwise the context is the one the element left, and any       *)
(* moved live name was already covered by a failed frame below the top.  *)
(***************************************************************************)
LEMMA ReturnTupleLin == TypeOK /\ LinInv /\ ReturnTuple => LinInv'
<1> SUFFICES ASSUME TypeOK, LinInv, ReturnTuple PROVE LinInv'
  OBVIOUS
<1> DEFINE good == ret.ok /\ ret.typ.mode = "Consumed"
           nctx == IF ret.ok THEN varCtx ELSE Top.ctx
           nelems == IF good THEN Append(Top.elems, ret.typ.base) ELSE Top.elems
           nfailed == Top.failed \/ ~good
           g == [kind |-> "Tuple", left |-> Top.left - 1, elems |-> nelems,
                 failed |-> nfailed, ctx |-> nctx]
<1>1. /\ pc = "expr" /\ pc' = "expr" /\ Top.kind = "Tuple"
      /\ moves' = moves /\ varCtx' = nctx
      /\ Top.left > 1 => stack' = SetTop(g) /\ ret' = NoRet
      /\ ~(Top.left > 1) => stack' = Pop /\ ret' = IF nfailed THEN Err ELSE Ok(Consumed(Node("Tuple", nelems)))
  BY DEF ReturnTuple, Returning
<1> SUFFICES ASSUME NEW x \in DOMAIN varCtx', moves'[x] > 0 PROVE ret' = Err \/ FailedTuple(stack')
  BY <1>1 DEF LinInv, Linearity, MovedOnlyWhenDoomed
<1>2. CASE nfailed /\ Top.left > 1
  <2>1. g.kind = "Tuple" /\ g.failed
    BY <1>2
  <2> HIDE DEF g
  <2> QED BY <1>1, <1>2, <2>1, FailedTupleTop
<1>3. CASE nfailed /\ ~(Top.left > 1)
  BY <1>1, <1>3
<1>4. CASE ~nfailed
  <2>1. ret.ok /\ ~Top.failed /\ varCtx' = varCtx
    BY <1>1, <1>4
  <2>2. x \in DOMAIN varCtx /\ moves[x] > 0 /\ ret # Err
    BY <1>1, <2>1, OkNotErr
  <2>3. FailedTuple(stack)
    BY <1>1, <2>2 DEF LinInv, MovedOnlyWhenDoomed
  <2>4. FailedTuple(Pop) /\ FailedTuple(SetTop(g))
    <3> HIDE DEF g
    <3> QED BY <1>1, <2>1, <2>3, FailedTupleBelowTop
  <2> QED BY <1>1, <2>4
<1> QED BY <1>2, <1>3, <1>4

(* The let statement alone is on the stack: no tuple frame. *)
LEMMA NoFailedTupleAtLet ==
  ASSUME TypeOK, pc = "expr", Top.kind = "Let"
  PROVE  ~FailedTuple(stack)
<1>1. DOMAIN stack = {1} /\ stack[1].kind = "Let"
  BY TopFacts DEF Top
<1> QED BY <1>1 DEF FailedTuple

(***************************************************************************)
(* A let finishes.  A failing let ends the item.  An accepted one had an  *)
(* Ok result with only the let frame on the stack, so no live name was    *)
(* moved; the names the pattern adds are fresh bindings.                  *)
(***************************************************************************)
LEMMA FinishLetLin == TypeOK /\ TypeOK' /\ LinInv /\ FinishLet => LinInv'
<1> SUFFICES ASSUME TypeOK, TypeOK', LinInv, FinishLet PROVE LinInv'
  OBVIOUS
<1> DEFINE bind == typecheck_pattern(Top.pat, ret.typ)
<1>1. pc = "expr" /\ Top.kind = "Let"
  BY DEF FinishLet, Returning
<1>2. \/ FailItem(0) \/ FailItem(1) \/ FailItem(bind.diags)
      \/ /\ ret.ok
         /\ varCtx' = Union(varCtx, bind.ctx)
         /\ moves' = [x \in Vars |-> IF x \in DOMAIN bind.ctx \ DOMAIN varCtx THEN 0 ELSE moves[x]]
         /\ pc' = "stmt"
  BY DEF FinishLet
<1>3. ASSUME NEW n, FailItem(n) PROVE LinInv'
  BY <1>3 DEF FailItem, LinInv, Linearity, MovedOnlyWhenDoomed
<1>4. CASE /\ ret.ok
           /\ varCtx' = Union(varCtx, bind.ctx)
           /\ moves' = [x \in Vars |-> IF x \in DOMAIN bind.ctx \ DOMAIN varCtx THEN 0 ELSE moves[x]]
           /\ pc' = "stmt"
  <2> SUFFICES ASSUME NEW x \in DOMAIN varCtx' PROVE moves'[x] = 0
    BY <1>4 DEF LinInv, Linearity, MovedOnlyWhenDoomed
  <2>1. x \in Vars /\ x \in DOMAIN varCtx \cup DOMAIN bind.ctx
    BY <1>4 DEF TypeOK, IsCtx, Union
  <2>2. CASE x \in DOMAIN bind.ctx \ DOMAIN varCtx
    BY <1>4, <2>1, <2>2
  <2>3. CASE x \in DOMAIN varCtx
    <3>1. ~FailedTuple(stack) /\ ret # Err
      BY <1>1, <1>4, NoFailedTupleAtLet, OkNotErr
    <3>2. moves[x] \in Nat /\ ~(moves[x] > 0)
      BY <2>1, <2>3, <1>1, <3>1 DEF TypeOK, LinInv, MovedOnlyWhenDoomed
    <3> QED BY <1>4, <2>1, <2>3, <3>2
  <2> QED BY <2>1, <2>2, <2>3
<1> QED BY <1>2, <1>3, <1>4

-----------------------------------------------------------------------------
(***************************************************************************)
(* Linearity (Typechecker's Linearity, checked by the core and nested     *)
(* runs) holds for every instance: between two let-statements of a body,  *)
(* no live binding has been moved since it was bound.  In the code: the   *)
(* Named case of typecheck_expression removes a moved name with without,  *)
(* the tuple case threads the context through its elements and only ever *)
(* restores an older one on the path of an element's Err, and            *)
(* typecheck_statement unions the pattern's bindings only after an Ok.    *)
(* Together with it, MovedOnlyWhenDoomed holds: a moved live name exists  *)
(* during an expression only while it is bound to fail.                   *)
(***************************************************************************)
THEOREM LinearityHolds == Spec => [](Linearity /\ MovedOnlyWhenDoomed)
<1>1. Init => LinInv
  BY DEF Init, LinInv, Linearity, MovedOnlyWhenDoomed
<1>2. TypeOK /\ TypeOK' /\ LinInv /\ [Next]_vars => LinInv'
  <2> SUFFICES ASSUME TypeOK, TypeOK', LinInv, [Next]_vars PROVE LinInv'
    OBVIOUS
  <2>1. CASE CheckFnDecl      BY <2>1, CheckFnDeclLin
  <2>2. CASE CheckUse \/ FinishProgram \/ FinishBlock
    BY <2>2, ItemStepLin
  <2>3. CASE StartLet         BY <2>3, StartLetLin
  <2>4. CASE FinishLet        BY <2>4, FinishLetLin
  <2>5. CASE CheckLit         BY <2>5, CheckLitLin
  <2>6. CASE CheckNamed       BY <2>6, CheckNamedLin
  <2>7. CASE CheckQualified   BY <2>7, CheckQualifiedLin
  <2>8. CASE EnterUnary       BY <2>8, EnterUnaryLin
  <2>9. CASE EnterBinary      BY <2>9, EnterBinaryLin
  <2>10. CASE EnterIndex      BY <2>10, EnterIndexLin
  <2>11. CASE EnterTuple      BY <2>11, EnterTupleLin
  <2>12. CASE EnterFuncCall   BY <2>12, EnterFuncCallLin
  <2>13. CASE EnterMethodCall BY <2>13, EnterMethodCallLin
  <2>14. CASE Propagate       BY <2>14, PropagateLin
  <2>15. CASE ReturnUnary     BY <2>15, ReturnUnaryLin
  <2>16. CASE ReturnBinary    BY <2>16, ReturnBinaryLin
  <2>17. CASE ReturnIndex     BY <2>17, ReturnIndexLin
  <2>18. CASE ReturnTuple     BY <2>18, ReturnTupleLin
  <2>19. CASE ReturnFuncCall  BY <2>19, ReturnFuncCallLin
  <2>20. CASE ReturnMethodCall BY <2>20, ReturnMethodCallLin
  <2>21. CASE Terminated \/ UNCHANGED vars
    BY <2>21, StutterLin
  <2> QED BY <2>1, <2>2, <2>3, <2>4, <2>5, <2>6, <2>7, <2>8, <2>9, <2>10,
             <2>11, <2>12, <2>13, <2>14, <2>15, <2>16, <2>17, <2>18, <2>19,
             <2>20, <2>21 DEF Next
<1>3. LinInv => Linearity /\ MovedOnlyWhenDoomed
  BY DEF LinInv
<1> QED BY <1>1, <1>2, <1>3, TypeCorrect, PTL DEF Spec

(***************************************************************************)
(* A moved name is live during an expression only when the expression is  *)
(* bound to fail (Typechecker's MovedOnlyWhenDoomed, checked by the core   *)
(* and nested runs): a failed tuple frame is on the stack or the result   *)
(* register holds Err.  This is how the tuple case's restore of an older  *)
(* context after an element's Err stays harmless in typecheck_expression. *)
(***************************************************************************)
THEOREM MovedOnlyWhenDoomedHolds == Spec => []MovedOnlyWhenDoomed
BY LinearityHolds, PTL
=============================================================================
