-------------------------- MODULE TypecheckerProofs --------------------------
(***************************************************************************)
(* Proofs about the checker of Typechecker, for every value of the         *)
(* constants that satisfies the assumptions of Types and Typechecker.      *)
(***************************************************************************)
EXTENDS Typechecker, TypesProofs, TLAPS

-----------------------------------------------------------------------------
(* Variable contexts                                                       *)

(* var_context.without(x) is a context. *)
LEMMA WithoutIsCtx ==
  ASSUME NEW ctx, IsCtx(ctx), NEW x
  PROVE  IsCtx(Without(ctx, x))
BY DEF IsCtx, Without

(* The union of two contexts is a context. *)
LEMMA UnionIsCtx ==
  ASSUME NEW f, NEW g, IsCtx(f), IsCtx(g)
  PROVE  IsCtx(Union(f, g))
BY DEF IsCtx, Union

(* A consumed or borrowed base type is a Typ. *)
LEMMA ModeIsTyp ==
  ASSUME NEW b, IsBaseTyp(b)
  PROVE  IsTyp(Consumed(b)) /\ IsTyp(Borrowed(b))
BY DEF IsTyp, Consumed, Borrowed, Modes

(* The context typecheck_item seeds from the parameters of a signature. *)
LEMMA SeedCtxIsCtx ==
  ASSUME NEW s \in Sigs
  PROVE  IsCtx(SeedCtx(s.args))
<1> DEFINE args == s.args
<1>1. args \in Seq([name : Vars, typ : {args[i].typ : i \in DOMAIN args}])
  BY SigsAssumption
<1>8. ParamNames(args) \subseteq Vars
  <2> SUFFICES ASSUME NEW i \in DOMAIN args PROVE args[i].name \in Vars
    BY DEF ParamNames
  <2>1. args[i] \in [name : Vars, typ : {args[j].typ : j \in DOMAIN args}]
    BY <1>1, LenProperties, ElementOfSeq
  <2> QED BY <2>1
<1>2. SUFFICES ASSUME NEW x \in ParamNames(args)
               PROVE  IsTyp(SeedCtx(args)[x])
  BY <1>8 DEF IsCtx, SeedCtx
<1>3. PICK i \in DOMAIN args : args[i].name = x
  BY DEF ParamNames
<1>4. \A j \in DOMAIN args : args[j].name = x => j = i
  BY <1>3, SigsAssumption
<1>5. \E k \in DOMAIN args :
        args[k].name = x /\ \A j \in DOMAIN args : args[j].name = x => j <= k
  <2>1. i \in Nat
    BY <1>1, LenProperties
  <2> QED BY <1>3, <1>4, <2>1
<1>6. PICK k \in DOMAIN args :
        /\ k = CHOOSE m \in DOMAIN args :
                 args[m].name = x /\ \A j \in DOMAIN args : args[j].name = x => j <= m
        /\ args[k].name = x
  BY <1>5
<1>7. SeedCtx(args)[x] = args[k].typ
  BY <1>6 DEF SeedCtx
<1> QED BY <1>7, SigsAssumption

(* The bindings of a tuple pattern against a tuple type form a context:    *)
(* each bound name has a unique binder among the zipped elements, so the  *)
(* CHOOSE of its first binder is that binder, a child of the type.        *)
LEMMA BindTupleIsCtx ==
  ASSUME NEW p \in Pats, p.kind = "Tup", NEW b, IsBaseTyp(b)
  PROVE  IsCtx(BindTuple(p.elems, b))
<1> DEFINE elems == p.elems
           n == Min2(Len(elems), Arity(b))
           sub == SubSeq(elems, 1, n)
           names == {elems[i].name : i \in {i \in 1 .. n : elems[i].kind = "Id"}}
<1>1. /\ elems \in Seq({[kind |-> "Wild"]} \cup [kind : {"Id"}, name : Vars])
      /\ \A x \in Vars : \A i, j \in BindersOf(elems, x) : i = j
  <2>1. \/ p = [kind |-> "Wild"]
        \/ p \in [kind : {"Id"}, name : Vars]
        \/ /\ p \in [kind : {"Tup"}, elems : Seq({[kind |-> "Wild"]} \cup [kind : {"Id"}, name : Vars])]
           /\ \A x \in Vars : \A i, j \in BindersOf(p.elems, x) : i = j
    BY PatsAssumption
  <2>2. p # [kind |-> "Wild"] /\ p \notin [kind : {"Id"}, name : Vars]
    OBVIOUS
  <2> QED BY <2>1, <2>2
<1>2. Arity(b) \in Nat
  BY DEF IsBaseTyp, Label, Arity
<1>3. n \in 0 .. Len(elems) /\ n <= Arity(b)
  BY <1>1, <1>2, LenProperties DEF Min2
<1>4. DOMAIN sub = 1 .. n /\ \A i \in 1 .. n : sub[i] = elems[i]
  BY <1>1, <1>3, SubSeqProperties
<1>5. names \subseteq Vars
  BY <1>1, <1>3, ElementOfSeq
<1>6. SUFFICES ASSUME NEW x \in names
               PROVE  IsTyp(BindTuple(elems, b)[x])
  BY <1>5 DEF IsCtx, BindTuple
<1>7. PICK i \in 1 .. n : elems[i].kind = "Id" /\ elems[i].name = x
  OBVIOUS
<1>8. i \in BindersOf(sub, x) /\ \A j \in BindersOf(sub, x) : j = i
  <2>1. i \in BindersOf(sub, x)
    BY <1>4, <1>7 DEF BindersOf
  <2>2. \A j \in BindersOf(sub, x) : j \in BindersOf(elems, x)
    BY <1>1, <1>3, <1>4, LenProperties DEF BindersOf
  <2>3. i \in BindersOf(elems, x)
    BY <1>1, <1>3, <1>7, LenProperties DEF BindersOf
  <2> QED BY <2>1, <2>2, <2>3, <1>1, <1>5
<1>9. PICK k \in BindersOf(sub, x) :
        k = CHOOSE m \in BindersOf(sub, x) : \A j \in BindersOf(sub, x) : m <= j
  <2>0. i \in Nat
    BY <1>3
  <2>1. \A j \in BindersOf(sub, x) : i <= j
    BY <1>8, <2>0
  <2> QED BY <1>8, <2>1
<1>10. k \in 1 .. Arity(b)
  BY <1>2, <1>3, <1>4 DEF BindersOf
<1>11. BindTuple(elems, b)[x] = Consumed(Child(b, k))
  BY <1>9 DEF BindTuple
<1> QED BY <1>10, <1>11, ChildIsBaseTyp, ModeIsTyp

(* typecheck_pattern: what it returns, for a pattern and a Typ. *)
LEMMA PatternResult ==
  ASSUME NEW p \in Pats, NEW t, IsTyp(t)
  PROVE  LET r == typecheck_pattern(p, t)
         IN  /\ r.ok \in BOOLEAN
             /\ r.diags \in Nat
             /\ IsCtx(r.ctx)
<1>1. \/ p.kind = "Wild"
      \/ p.kind = "Id" /\ p.name \in Vars
      \/ p.kind = "Tup"
  BY PatsAssumption
<1>2. IsCtx(EmptyCtx)
  BY DEF IsCtx, EmptyCtx
<1>3. CASE p.kind = "Wild"
  BY <1>2, <1>3 DEF typecheck_pattern
<1>4. CASE p.kind = "Id" /\ p.name \in Vars
  <2>1. IsCtx([y \in {p.name} |-> t])
    BY <1>4 DEF IsCtx
  <2> QED BY <1>4, <2>1 DEF typecheck_pattern
<1>5. CASE p.kind = "Tup" /\ Tag(t.base) = "Tuple"
  <2>1. IsCtx(BindTuple(p.elems, t.base))
    BY <1>5, BindTupleIsCtx DEF IsTyp
  <2> QED BY <1>5, <2>1 DEF typecheck_pattern
<1>6. CASE p.kind = "Tup" /\ Tag(t.base) # "Tuple"
  BY <1>2, <1>6 DEF typecheck_pattern
<1> QED BY <1>1, <1>3, <1>4, <1>5, <1>6
-----------------------------------------------------------------------------
(* The frame stack                                                         *)

(* A sequence whose elements are in S is a sequence over its own range. *)
LEMMA SeqOverRange ==
  ASSUME NEW S, NEW s \in Seq(S)
  PROVE  s \in Seq(Range(s))
BY SeqOfRange

(* The empty stack, between statements. *)
LEMMA StackEmpty == StackOK(<<>>)
<1>1. <<>> \in Seq(Range(<<>>)) /\ Len(<<>>) = 0 /\ DOMAIN <<>> = {}
  BY EmptySeq
<1> QED BY <1>1, BoundsAssumption DEF StackOK

(* The stack of a new let-statement. *)
LEMMA StackLet ==
  ASSUME NEW p \in Pats, NEW d \in DeclTyps \cup {NoTyp}
  PROVE  LET s == <<[kind |-> "Let", pat |-> p, decl |-> d]>>
         IN  StackOK(s) /\ s # <<>>
<1> DEFINE f == [kind |-> "Let", pat |-> p, decl |-> d]
<1>1. <<f>> \in Seq({f}) /\ Len(<<f>>) = 1
  OBVIOUS
<1>2. IsFrame(f)
  BY DEF IsFrame
<1>3. <<f>> \in Seq(Range(<<f>>))
  BY <1>1, SeqOverRange
<1>4. DOMAIN <<f>> = {1} /\ <<f>>[1] = f /\ 1 <= MaxDepth + 1
  BY BoundsAssumption
<1>5. <<f>> # <<>>
  BY <1>1, EmptySeq
<1> QED BY <1>1, <1>2, <1>3, <1>4, <1>5 DEF StackOK

(* Push: a frame of a node above the let, below the depth bound. *)
LEMMA StackPush ==
  ASSUME NEW s, StackOK(s), s # <<>>, Len(s) <= MaxDepth,
         NEW f, IsFrame(f), f.kind # "Let"
  PROVE  LET t == Append(s, f)
         IN  /\ StackOK(t) /\ t # <<>>
             /\ Len(t) = Len(s) + 1 /\ t[Len(t)] = f
<1> DEFINE t == Append(s, f)
<1>1. s \in Seq(Range(s))
  BY DEF StackOK
<1>2. t \in Seq(Range(s) \cup {f}) /\ Len(t) = Len(s) + 1 /\ t[Len(t)] = f
      /\ \A i \in 1 .. Len(s) : t[i] = s[i]
  BY <1>1, AppendProperties
<1>3. t \in Seq(Range(t))
  BY <1>2, SeqOverRange
<1>4. DOMAIN s = 1 .. Len(s) /\ DOMAIN t = 1 .. Len(t) /\ Len(s) \in Nat
  BY <1>1, <1>2, LenProperties
<1>5. 1 \in DOMAIN s /\ s[1].kind = "Let"
  BY <1>1, <1>4, EmptySeq DEF StackOK
<1>6. t # <<>>
  BY <1>2, <1>4, EmptySeq
<1> QED BY <1>2, <1>3, <1>4, <1>5, <1>6, BoundsAssumption DEF StackOK

(* Pop: the top node frame leaves, the let stays. *)
LEMMA StackPop ==
  ASSUME NEW s, StackOK(s), Len(s) >= 2
  PROVE  LET t == SubSeq(s, 1, Len(s) - 1)
         IN  StackOK(t) /\ t # <<>>
<1> DEFINE t == SubSeq(s, 1, Len(s) - 1)
<1>1. s \in Seq(Range(s))
  BY DEF StackOK
<1>0. Len(s) \in Nat /\ DOMAIN s = 1 .. Len(s)
  BY <1>1, LenProperties
<1>2. /\ t \in Seq(Range(s)) /\ Len(t) = Len(s) - 1
      /\ \A i \in 1 .. Len(t) : t[i] = s[i]
  <2>1. \A i \in 1 .. Len(s) - 1 : s[i] \in Range(s)
    BY <1>0 DEF Range
  <2> QED BY <1>0, <2>1, SubSeqProperties
<1>3. t \in Seq(Range(t))
  BY <1>2, SeqOverRange
<1>4. DOMAIN t = 1 .. Len(t)
  BY <1>2, LenProperties
<1>5. t # <<>>
  <2>1. Len(t) # 0
    BY <1>2, <1>0
  <2> QED BY <2>1, <1>2, EmptySeq
<1>6. \A i \in DOMAIN t : i \in DOMAIN s /\ t[i] = s[i]
  BY <1>0, <1>2, <1>4
<1>7. \A i \in DOMAIN t : IsFrame(t[i]) /\ (t[i].kind = "Let") = (i = 1)
  BY <1>6 DEF StackOK
<1>8. Len(t) <= MaxDepth + 1
  BY <1>0, <1>2, BoundsAssumption DEF StackOK
<1> QED BY <1>3, <1>5, <1>7, <1>8 DEF StackOK

(* SetTop: the top frame is replaced by a frame of the same kind. *)
LEMMA StackSetTop ==
  ASSUME NEW s, StackOK(s), s # <<>>,
         NEW f, IsFrame(f), f.kind = s[Len(s)].kind
  PROVE  LET t == [s EXCEPT ![Len(s)] = f]
         IN  /\ StackOK(t) /\ t # <<>>
             /\ Len(t) = Len(s) /\ t[Len(t)] = f
<1> DEFINE t == [s EXCEPT ![Len(s)] = f]
<1>1. s \in Seq(Range(s))
  BY DEF StackOK
<1>2. Len(s) \in 1 .. Len(s) /\ DOMAIN s = 1 .. Len(s)
  BY <1>1, LenProperties, EmptySeq
<1>3. /\ t \in Seq(Range(s) \cup {f}) /\ Len(t) = Len(s)
      /\ \A j \in 1 .. Len(s) : t[j] = IF j = Len(s) THEN f ELSE s[j]
  <2>1. s \in Seq(Range(s) \cup {f})
    BY <1>1, SeqMonotonic
  <2> QED BY <1>2, <2>1, ExceptSeq
<1>4. t \in Seq(Range(t))
  BY <1>3, SeqOverRange
<1>5. DOMAIN t = 1 .. Len(t)
  BY <1>3, LenProperties
<1>6. t # <<>>
  BY <1>2, <1>3, EmptySeq
<1> QED BY <1>2, <1>3, <1>4, <1>5, <1>6 DEF StackOK
-----------------------------------------------------------------------------
(* Type correctness: one lemma per action                                  *)

(* What TypeOK says of the top frame and of the result register. *)
LEMMA TopFacts ==
  ASSUME TypeOK, pc = "expr"
  PROVE  /\ Len(stack) \in 1 .. MaxDepth + 1
         /\ DOMAIN stack = 1 .. Len(stack)
         /\ IsFrame(Top)
         /\ (Top.kind = "Let") = (Len(stack) = 1)
<1>1. stack \in Seq(Range(stack)) /\ stack # <<>>
  BY DEF TypeOK, StackOK
<1>2. Len(stack) \in Nat /\ DOMAIN stack = 1 .. Len(stack) /\ Len(stack) # 0
  BY <1>1, LenProperties, EmptySeq
<1> QED BY <1>2 DEF TypeOK, StackOK, Top

LEMMA RetFacts ==
  ASSUME TypeOK, ret # NoRet
  PROVE  \/ ret.ok = TRUE /\ IsTyp(ret.typ) /\ ret = Ok(ret.typ)
         \/ ret.ok = FALSE /\ ret = Err
BY DEF TypeOK, Ok, Err

LEMMA InitTypeOK == Init => TypeOK
<1> SUFFICES ASSUME Init PROVE TypeOK
  OBVIOUS
<1>1. StackOK(<<>>)
  BY StackEmpty
<1>2. IsCtx(EmptyCtx)
  BY DEF IsCtx, EmptyCtx
<1> QED BY <1>1, <1>2, BoundsAssumption DEF Init, TypeOK

LEMMA CheckFnDeclTypeOK == TypeOK /\ CheckFnDecl => TypeOK'
<1> SUFFICES ASSUME TypeOK, CheckFnDecl PROVE TypeOK'
  OBVIOUS
<1>1. PICK f \in Fns, sig \in Sigs : cur' = [f |-> f, sig |-> sig] /\ varCtx' = SeedCtx(sig.args)
  BY DEF CheckFnDecl
<1>2. IsCtx(varCtx')
  BY <1>1, SeedCtxIsCtx
<1> QED BY <1>1, <1>2, BoundsAssumption, NoValuesAssumption DEF CheckFnDecl, TypeOK

LEMMA CheckUseTypeOK == TypeOK /\ CheckUse => TypeOK'
BY BoundsAssumption DEF CheckUse, TypeOK

LEMMA FinishProgramTypeOK == TypeOK /\ FinishProgram => TypeOK'
BY DEF FinishProgram, TypeOK

LEMMA FinishBlockTypeOK == TypeOK /\ FinishBlock => TypeOK'
BY BoundsAssumption DEF FinishBlock, TypeOK

LEMMA TerminatedTypeOK == TypeOK /\ Terminated => TypeOK'
BY DEF Terminated, vars, TypeOK

LEMMA StartLetTypeOK == TypeOK /\ StartLet => TypeOK'
<1> SUFFICES ASSUME TypeOK, StartLet PROVE TypeOK'
  OBVIOUS
<1>1. PICK p \in Pats, d \in DeclTyps \cup {NoTyp} :
        stack' = <<[kind |-> "Let", pat |-> p, decl |-> d]>>
  BY DEF StartLet
<1>2. StackOK(stack') /\ stack' # <<>>
  BY <1>1, StackLet
<1> QED BY <1>2 DEF StartLet, TypeOK

LEMMA CheckLitTypeOK == TypeOK /\ CheckLit => TypeOK'
<1> SUFFICES ASSUME TypeOK, CheckLit PROVE TypeOK'
  OBVIOUS
<1>1. PICK k \in {"Bool"} \cup IntKinds : ret' = Ok(Consumed(Leaf(k)))
  BY DEF CheckLit
<1>2. k \in Tags \ {"Seq"}
  BY TypesAssumption DEF Tags, ScalarTags
<1>3. IsTyp(Consumed(Leaf(k)))
  BY <1>2, LeafIsBaseTyp, ModeIsTyp
<1> QED BY <1>1, <1>3 DEF CheckLit, AtNode, TypeOK, Ok

LEMMA CheckQualifiedTypeOK == TypeOK /\ CheckQualified => TypeOK'
BY DEF CheckQualified, AtNode, Report, TypeOK, Err

LEMMA CheckNamedTypeOK == TypeOK /\ CheckNamed => TypeOK'
<1> SUFFICES ASSUME TypeOK, CheckNamed PROVE TypeOK'
  OBVIOUS
<1>1. PICK x \in Vars :
        \/ /\ x \notin DOMAIN varCtx
           /\ ret' = Err
           /\ Report(1)
           /\ UNCHANGED <<varCtx, moves>>
        \/ /\ x \in DOMAIN varCtx
           /\ ret' = Ok(varCtx[x])
           /\ IF Moves(varCtx[x])
                THEN /\ varCtx' = Without(varCtx, x)
                     /\ moves' = [moves EXCEPT ![x] = @ + 1]
                ELSE UNCHANGED <<varCtx, moves>>
           /\ UNCHANGED diags
  BY DEF CheckNamed
<1>2. CASE x \notin DOMAIN varCtx
  BY <1>1, <1>2 DEF CheckNamed, AtNode, Report, TypeOK, Err
<1>3. CASE x \in DOMAIN varCtx
  <2>1. IsCtx(varCtx') /\ moves' \in [Vars -> Nat]
    BY <1>1, <1>3, WithoutIsCtx DEF TypeOK
  <2>2. IsTyp(varCtx[x])
    BY <1>3 DEF TypeOK, IsCtx
  <2> QED BY <1>1, <1>3, <2>1, <2>2 DEF CheckNamed, AtNode, TypeOK, Ok
<1> QED BY <1>2, <1>3

(* Entering a node pushes its frame. *)
LEMMA EnterTypeOK ==
  ASSUME TypeOK, AtNode, CanNest, NEW f, IsFrame(f), f.kind # "Let", Enter(f)
  PROVE  TypeOK'
<1>1. stack # <<>>
  BY DEF AtNode, TypeOK
<1>2. StackOK(stack') /\ stack' # <<>>
  BY <1>1, StackPush DEF CanNest, TypeOK, Enter, Push
<1> QED BY <1>2 DEF AtNode, Enter, TypeOK

LEMMA EnterUnaryTypeOK == TypeOK /\ EnterUnary => TypeOK'
BY EnterTypeOK DEF EnterUnary, IsFrame

LEMMA EnterBinaryTypeOK == TypeOK /\ EnterBinary => TypeOK'
BY EnterTypeOK DEF EnterBinary, IsFrame

LEMMA EnterIndexTypeOK == TypeOK /\ EnterIndex => TypeOK'
BY EnterTypeOK DEF EnterIndex, IsFrame

LEMMA EnterMethodCallTypeOK == TypeOK /\ EnterMethodCall => TypeOK'
BY EnterTypeOK DEF EnterMethodCall, IsFrame

LEMMA EnterTupleTypeOK == TypeOK /\ EnterTuple => TypeOK'
<1> SUFFICES ASSUME TypeOK, EnterTuple PROVE TypeOK'
  OBVIOUS
<1>1. PICK n \in 0 .. MaxArgs :
        IF n = 0
          THEN /\ ret' = Ok(Consumed(Node("Tuple", <<>>)))
               /\ UNCHANGED stack
          ELSE /\ stack' = Push([kind |-> "Tuple", left |-> n, elems |-> <<>>,
                                 failed |-> FALSE, ctx |-> varCtx])
               /\ UNCHANGED ret
  BY DEF EnterTuple
<1>2. CASE n = 0
  <2>1. IsTyp(Consumed(Node("Tuple", <<>>)))
    <3>1. "Tuple" \in Tags \ {"Seq"}
      BY DEF Tags
    <3> QED BY <3>1, LeafIsBaseTyp, ModeIsTyp DEF Leaf
  <2> QED BY <1>1, <1>2, <2>1 DEF EnterTuple, AtNode, TypeOK, Ok
<1>3. CASE n # 0
  <2> DEFINE f == [kind |-> "Tuple", left |-> n, elems |-> <<>>,
                   failed |-> FALSE, ctx |-> varCtx]
  <2>1. IsFrame(f)
    <3>1. <<>> \in Seq(Range(<<>>)) /\ DOMAIN <<>> = {}
      BY EmptySeq
    <3> QED BY <1>3, <3>1 DEF IsFrame, TypeOK
  <2>2. Enter(f)
    BY <1>1, <1>3 DEF EnterTuple, Enter
  <2> QED BY <2>1, <2>2, EnterTypeOK DEF EnterTuple
<1> QED BY <1>2, <1>3

LEMMA EnterFuncCallTypeOK == TypeOK /\ EnterFuncCall => TypeOK'
<1> SUFFICES ASSUME TypeOK, EnterFuncCall PROVE TypeOK'
  OBVIOUS
<1>1. PICK f \in Fns, n \in 0 .. MaxArgs :
       IF fnCtx[f] = NoSig
         THEN /\ ret' = Err
              /\ Report(1)
              /\ UNCHANGED stack
         ELSE LET sig == fnCtx[f]
                  k == Min2(n, Len(sig.args))
              IN  /\ Report(IF Len(sig.args) # n THEN 1 ELSE 0)
                  /\ IF k = 0
                       THEN /\ ret' = Ok(Consumed(sig.ret))
                            /\ UNCHANGED stack
                       ELSE /\ stack' = Push([kind |-> "FuncCall", i |-> 1, out |-> sig.ret,
                                              params |-> [j \in 1 .. k |-> sig.args[j].typ]])
                            /\ UNCHANGED ret
  BY DEF EnterFuncCall
<1>2. CASE fnCtx[f] = NoSig
  <2>1. ret' = Err /\ diags' = diags + 1 /\ stack' = stack
    BY <1>1, <1>2 DEF Report
  <2>2. diags' \in Nat
    BY <2>1 DEF TypeOK
  <2> QED BY <2>1, <2>2 DEF EnterFuncCall, AtNode, TypeOK, Err
<1>3. CASE fnCtx[f] # NoSig
  <2> DEFINE sig == fnCtx[f]
             k == Min2(n, Len(sig.args))
  <2>1. sig \in Sigs
    BY <1>3 DEF TypeOK
  <2>2. /\ sig.args \in Seq([name : Vars, typ : {sig.args[i].typ : i \in DOMAIN sig.args}])
        /\ \A i \in DOMAIN sig.args : IsTyp(sig.args[i].typ)
        /\ IsBaseTyp(sig.ret)
    BY <2>1, SigsAssumption
  <2>3. Len(sig.args) \in Nat /\ DOMAIN sig.args = 1 .. Len(sig.args)
    BY <2>2, LenProperties
  <2>4. k \in 0 .. Len(sig.args) /\ k <= n
    BY <2>3 DEF Min2
  <2>5. diags' \in Nat
    <3>1. diags' = diags + (IF Len(sig.args) # n THEN 1 ELSE 0)
      BY <1>1, <1>3 DEF Report
    <3> QED BY <3>1 DEF TypeOK
  <2>6. CASE k = 0
    <3>1. IsTyp(Consumed(sig.ret))
      BY <2>2, ModeIsTyp
    <3> QED BY <1>1, <1>3, <2>5, <2>6, <3>1 DEF EnterFuncCall, AtNode, TypeOK, Ok
  <2>7. CASE k # 0
    <3> DEFINE params == [j \in 1 .. k |-> sig.args[j].typ]
               fr == [kind |-> "FuncCall", i |-> 1, out |-> sig.ret, params |-> params]
    <3>1. params \in Seq(Range(params)) /\ Len(params) = k
      <4>1. params \in Seq({sig.args[j].typ : j \in 1 .. k})
        BY <2>4, IsASeq
      <4> QED BY <4>1, SeqOverRange, <2>4
    <3>2. IsFrame(fr)
      <4>1. \A j \in DOMAIN fr.params : IsTyp(fr.params[j])
        BY <2>2, <2>3, <2>4, <2>7
      <4>2. fr.kind = "FuncCall" /\ fr.i \in 1 .. Len(fr.params)
        BY <2>3, <2>4, <2>7, <3>1
      <4>3. /\ fr = [kind |-> "FuncCall", i |-> fr.i, out |-> fr.out, params |-> fr.params]
            /\ fr.params \in Seq(Range(fr.params))
            /\ IsBaseTyp(fr.out)
        BY <2>2, <3>1
      <4> HIDE DEF fr, params
      <4> QED BY <4>1, <4>2, <4>3, Zenon DEF IsFrame
    <3>3. StackOK(stack') /\ stack' # <<>>
      <4>1. stack # <<>>
        BY DEF EnterFuncCall, AtNode, TypeOK
      <4>2. stack' = Append(stack, fr)
        BY <1>1, <1>3, <2>7 DEF Push
      <4>3. StackOK(stack) /\ Len(stack) <= MaxDepth /\ fr.kind # "Let"
        BY DEF EnterFuncCall, CanNest, TypeOK
      <4> QED BY <3>2, <4>1, <4>2, <4>3, StackPush
    <3> QED BY <1>1, <1>3, <2>5, <2>7, <3>3 DEF EnterFuncCall, AtNode, TypeOK
  <2> QED BY <2>6, <2>7
<1> QED BY <1>2, <1>3

(* Leaving a node frame with a result. *)
LEMMA LeaveTypeOK ==
  ASSUME TypeOK, pc = "expr", Top.kind # "Let",
         NEW r, r = Err \/ (r = Ok(r.typ) /\ IsTyp(r.typ)),
         NEW n \in Nat, Leave(r, n)
  PROVE  TypeOK'
<1>1. Len(stack) >= 2
  BY TopFacts
<1>2. StackOK(stack') /\ stack' # <<>>
  BY <1>1, StackPop DEF TypeOK, Leave, Pop
<1> QED BY <1>2 DEF TypeOK, Leave, Report

(* Moving on to the next child of the top frame. *)
LEMMA NextChildTypeOK ==
  ASSUME TypeOK, pc = "expr", NEW f, IsFrame(f), f.kind = Top.kind, NextChild(f)
  PROVE  TypeOK'
<1>1. StackOK(stack') /\ stack' # <<>>
  <2>1. stack # <<>> /\ StackOK(stack)
    BY DEF TypeOK
  <2> QED BY <2>1, StackSetTop DEF NextChild, SetTop, Top
<1> QED BY <1>1 DEF TypeOK, NextChild

(* A failing statement ends the item. *)
LEMMA FailItemTypeOK ==
  ASSUME TypeOK, pc = "expr", NEW n \in Nat, FailItem(n)
  PROVE  TypeOK'
<1>1. StackOK(<<>>)
  BY StackEmpty
<1>2. StackOK(stack') /\ stack' = <<>> /\ pc' = "item" /\ ret' = NoRet
  BY <1>1 DEF FailItem
<1>3. items' \in 0 .. MaxItems /\ diags' \in Nat /\ failDiags' \in {-1} \cup Nat
  BY BoundsAssumption DEF TypeOK, FailItem, Report
<1>4. progOk' \in BOOLEAN
  BY DEF FailItem
<1> QED BY <1>2, <1>3, <1>4 DEF TypeOK, FailItem

LEMMA PropagateTypeOK == TypeOK /\ Propagate => TypeOK'
<1> SUFFICES ASSUME TypeOK, Propagate PROVE TypeOK'
  OBVIOUS
<1> QED BY LeaveTypeOK DEF Propagate

LEMMA ReturnUnaryTypeOK == TypeOK /\ ReturnUnary => TypeOK'
<1> SUFFICES ASSUME TypeOK, ReturnUnary PROVE TypeOK'
  OBVIOUS
<1>1. ret = Err \/ (ret = Ok(ret.typ) /\ IsTyp(ret.typ))
  BY RetFacts DEF ReturnUnary, Returning
<1> QED BY <1>1, LeaveTypeOK DEF ReturnUnary, Returning

LEMMA ReturnMethodCallTypeOK == TypeOK /\ ReturnMethodCall => TypeOK'
<1> SUFFICES ASSUME TypeOK, ReturnMethodCall PROVE TypeOK'
  OBVIOUS
<1> QED BY LeaveTypeOK DEF ReturnMethodCall, Returning

(* The top frame of an operand-pair node (binary operator or index). *)
LEMMA PairFrame ==
  ASSUME TypeOK, pc = "expr", Top.kind \in {"Binary", "Index"}
  PROVE  /\ Top = [kind |-> Top.kind, left |-> Top.left]
         /\ Top.left = NoTyp \/ IsTyp(Top.left)
<1>1. IsFrame(Top)
  BY TopFacts
<1> QED BY <1>1 DEF IsFrame

(* The left operand is stored in the frame. *)
LEMMA StoreLeftTypeOK ==
  ASSUME TypeOK, pc = "expr", Top.kind \in {"Binary", "Index"},
         ret # NoRet, ret.ok,
         NextChild([Top EXCEPT !.left = ret.typ])
  PROVE  TypeOK'
<1>1. IsTyp(ret.typ)
  BY RetFacts
<1>2. [Top EXCEPT !.left = ret.typ] = [kind |-> Top.kind, left |-> ret.typ]
  BY PairFrame
<1>3. IsFrame([Top EXCEPT !.left = ret.typ])
  BY <1>1, <1>2 DEF IsFrame
<1> QED BY <1>2, <1>3, NextChildTypeOK

LEMMA ReturnBinaryTypeOK == TypeOK /\ ReturnBinary => TypeOK'
<1> SUFFICES ASSUME TypeOK, ReturnBinary PROVE TypeOK'
  OBVIOUS
<1>1. pc = "expr" /\ ret # NoRet /\ ret.ok /\ Top.kind = "Binary"
  BY DEF ReturnBinary, Returning
<1>2. CASE Top.left = NoTyp
  BY <1>1, <1>2, StoreLeftTypeOK DEF ReturnBinary
<1>3. CASE Top.left # NoTyp
  <2>1. IsTyp(Top.left)
    BY <1>1, <1>3, PairFrame
  <2>2. Leave(Ok(Top.left), 0) \/ Leave(Err, 1)
    BY <1>3 DEF ReturnBinary
  <2>3. CASE Leave(Err, 1)
    BY <1>1, <2>3, LeaveTypeOK
  <2>4. CASE Leave(Ok(Top.left), 0)
    <3>1. Ok(Top.left) = Ok(Ok(Top.left).typ) /\ IsTyp(Ok(Top.left).typ)
      BY <2>1 DEF Ok
    <3> QED BY <1>1, <2>4, <3>1, LeaveTypeOK
  <2> QED BY <2>2, <2>3, <2>4
<1> QED BY <1>2, <1>3

LEMMA ReturnIndexTypeOK == TypeOK /\ ReturnIndex => TypeOK'
<1> SUFFICES ASSUME TypeOK, ReturnIndex PROVE TypeOK'
  OBVIOUS
<1>1. pc = "expr" /\ ret # NoRet /\ ret.ok /\ Top.kind = "Index"
  BY DEF ReturnIndex, Returning
<1>2. CASE Top.left = NoTyp
  BY <1>1, <1>2, StoreLeftTypeOK DEF ReturnIndex
<1>3. CASE Top.left # NoTyp
  <2> DEFINE elem == Consumed(Child(Top.left.base, 1))
  <2>1. IsTyp(Top.left)
    BY <1>1, <1>3, PairFrame
  <2>2. \/ Leave(Err, 1)
        \/ Tag(Top.left.base) = "Seq" /\ Leave(Ok(elem), 0)
    BY <1>3 DEF ReturnIndex
  <2>3. CASE Leave(Err, 1)
    BY <1>1, <2>3, LeaveTypeOK
  <2>4. CASE Tag(Top.left.base) = "Seq" /\ Leave(Ok(elem), 0)
    <3>1. IsBaseTyp(Top.left.base)
      BY <2>1 DEF IsTyp
    <3>2. Arity(Top.left.base) = 1
      BY <2>4, <3>1 DEF IsBaseTyp, Tag, Arity
    <3>3. IsTyp(elem)
      BY <3>1, <3>2, ChildIsBaseTyp, ModeIsTyp
    <3>4. Ok(elem) = Ok(Ok(elem).typ)
      BY DEF Ok
    <3> QED BY <1>1, <2>4, <3>3, <3>4, LeaveTypeOK DEF Ok
  <2> QED BY <2>2, <2>3, <2>4
<1> QED BY <1>2, <1>3

LEMMA ReturnFuncCallTypeOK == TypeOK /\ ReturnFuncCall => TypeOK'
<1> SUFFICES ASSUME TypeOK, ReturnFuncCall PROVE TypeOK'
  OBVIOUS
<1>1. pc = "expr" /\ ret # NoRet /\ ret.ok /\ Top.kind = "FuncCall"
  BY DEF ReturnFuncCall, Returning
<1>2. /\ Top = [kind |-> "FuncCall", i |-> Top.i, out |-> Top.out, params |-> Top.params]
      /\ Top.params \in Seq(Range(Top.params))
      /\ Top.i \in 1 .. Len(Top.params)
      /\ \A j \in DOMAIN Top.params : IsTyp(Top.params[j])
      /\ IsBaseTyp(Top.out)
  <2>1. IsFrame(Top)
    BY <1>1, TopFacts
  <2> QED BY <1>1, <2>1 DEF IsFrame
<1>3. \/ Leave(Err, 1)
      \/ Top.i < Len(Top.params) /\ NextChild([Top EXCEPT !.i = @ + 1])
      \/ Leave(Ok(Consumed(Top.out)), 0)
  BY DEF ReturnFuncCall
<1>4. CASE Leave(Err, 1)
  BY <1>1, <1>4, LeaveTypeOK
<1>5. CASE Top.i < Len(Top.params) /\ NextChild([Top EXCEPT !.i = @ + 1])
  <2> DEFINE g == [Top EXCEPT !.i = @ + 1]
  <2>1. g = [kind |-> "FuncCall", i |-> Top.i + 1, out |-> Top.out, params |-> Top.params]
    BY <1>2
  <2>2. Len(Top.params) \in Nat
    BY <1>2, LenProperties
  <2>3. IsFrame(g)
    BY <1>2, <1>5, <2>1, <2>2 DEF IsFrame
  <2> QED BY <1>1, <1>5, <2>1, <2>3, NextChildTypeOK
<1>6. CASE Leave(Ok(Consumed(Top.out)), 0)
  <2>1. IsTyp(Consumed(Top.out))
    BY <1>2, ModeIsTyp
  <2>2. Ok(Consumed(Top.out)) = Ok(Ok(Consumed(Top.out)).typ)
        /\ IsTyp(Ok(Consumed(Top.out)).typ)
    BY <2>1 DEF Ok
  <2> QED BY <1>1, <1>6, <2>2, LeaveTypeOK
<1> QED BY <1>3, <1>4, <1>5, <1>6

LEMMA ReturnTupleTypeOK == TypeOK /\ ReturnTuple => TypeOK'
<1> SUFFICES ASSUME TypeOK, ReturnTuple PROVE TypeOK'
  OBVIOUS
<1> DEFINE good == ret.ok /\ ret.typ.mode = "Consumed"
           nctx == IF ret.ok THEN varCtx ELSE Top.ctx
           nelems == IF good THEN Append(Top.elems, ret.typ.base) ELSE Top.elems
           nfailed == Top.failed \/ ~good
<1>1. pc = "expr" /\ ret # NoRet /\ Top.kind = "Tuple"
  BY DEF ReturnTuple, Returning
<1>2. /\ Top = [kind |-> "Tuple", left |-> Top.left, elems |-> Top.elems,
                failed |-> Top.failed, ctx |-> Top.ctx]
      /\ Top.left \in 1 .. MaxArgs
      /\ Top.elems \in Seq(Range(Top.elems))
      /\ \A i \in DOMAIN Top.elems : IsBaseTyp(Top.elems[i])
      /\ Top.failed \in BOOLEAN
      /\ IsCtx(Top.ctx)
  <2>1. IsFrame(Top)
    BY <1>1, TopFacts
  <2> QED BY <1>1, <2>1 DEF IsFrame
<1>3. ret.ok => IsTyp(ret.typ)
  BY <1>1, RetFacts
<1>4. IsCtx(nctx)
  BY <1>2 DEF TypeOK
<1>5. nelems \in Seq(Range(nelems)) /\ \A i \in DOMAIN nelems : IsBaseTyp(nelems[i])
  <2>1. CASE good
    <3> DEFINE b == ret.typ.base
               old == Top.elems
    <3>1. IsBaseTyp(b)
      BY <1>3, <2>1 DEF IsTyp
    <3>2. /\ Append(old, b) \in Seq(Range(old) \cup {b})
          /\ Len(Append(old, b)) = Len(old) + 1
          /\ \A i \in 1 .. Len(old) : Append(old, b)[i] = old[i]
          /\ Append(old, b)[Len(old) + 1] = b
      <4>1. old \in Seq(Range(old) \cup {b})
        BY <1>2, SeqMonotonic
      <4> QED BY <4>1, AppendProperties
    <3>3. DOMAIN Append(old, b) = 1 .. Len(old) + 1 /\ DOMAIN old = 1 .. Len(old)
          /\ Len(old) \in Nat
      BY <1>2, <3>2, LenProperties
    <3>4. \A i \in DOMAIN Append(old, b) : IsBaseTyp(Append(old, b)[i])
      BY <1>2, <3>1, <3>2, <3>3
    <3> QED BY <2>1, <3>2, <3>4, SeqOverRange
  <2>2. CASE ~good
    BY <1>2, <2>2
  <2> QED BY <2>1, <2>2
<1>6. nfailed \in BOOLEAN
  BY <1>2
<1>7. varCtx' = nctx /\ diags' \in Nat
  BY DEF ReturnTuple, TypeOK, Report
<1>8. CASE Top.left > 1
  <2> DEFINE g == [kind |-> "Tuple", left |-> Top.left - 1, elems |-> nelems,
                   failed |-> nfailed, ctx |-> nctx]
  <2>1. g.kind = Top.kind
    BY <1>1
  <2>2. IsFrame(g)
    <3>0. Top.left \in 1 .. MaxArgs /\ Top.left > 1
      BY <1>2, <1>8
    <3>1. g.left \in 1 .. MaxArgs
      <4>1. g.left = Top.left - 1
        OBVIOUS
      <4>2. Top.left - 1 \in 1 .. MaxArgs
        BY <3>0, BoundsAssumption
      <4> QED BY <4>1, <4>2
    <3> QED BY <3>1, <1>4, <1>5, <1>6 DEF IsFrame
  <2>3. stack' = [stack EXCEPT ![Len(stack)] = g] /\ ret' = NoRet
    BY <1>8 DEF ReturnTuple, SetTop
  <2>4. StackOK(stack') /\ stack' # <<>>
    <3>1. StackOK(stack) /\ stack # <<>> /\ g.kind = stack[Len(stack)].kind
      BY <1>1, <2>1 DEF TypeOK, Top
    <3>2. StackOK([stack EXCEPT ![Len(stack)] = g]) /\ [stack EXCEPT ![Len(stack)] = g] # <<>>
      <4> HIDE DEF g
      <4> QED BY <2>2, <3>1, StackSetTop
    <3> QED BY <2>3, <3>2
  <2> QED BY <1>1, <1>4, <1>7, <2>3, <2>4 DEF ReturnTuple, TypeOK
<1>9. CASE ~(Top.left > 1)
  <2>1. stack' = Pop /\ ret' = IF nfailed THEN Err ELSE Ok(Consumed(Node("Tuple", nelems)))
    BY <1>9 DEF ReturnTuple
  <2>2. StackOK(stack') /\ stack' # <<>>
    <3>1. Len(stack) >= 2
      BY <1>1, TopFacts
    <3> QED BY <2>1, <3>1, StackPop DEF TypeOK, Pop
  <2>3. IsTyp(Consumed(Node("Tuple", nelems)))
    <3>1. "Tuple" \in Tags
      BY DEF Tags
    <3>2. IsBaseTyp(Node("Tuple", nelems))
      BY <1>5, <3>1, NodeIsBaseTyp
    <3> QED BY <3>2, ModeIsTyp
  <2>4. ret' = Err \/ (ret' = Ok(ret'.typ) /\ IsTyp(ret'.typ))
    BY <2>1, <2>3 DEF Ok
  <2> QED BY <1>1, <1>4, <1>7, <2>2, <2>4 DEF ReturnTuple, TypeOK
<1> QED BY <1>8, <1>9

LEMMA FinishLetTypeOK == TypeOK /\ FinishLet => TypeOK'
<1> SUFFICES ASSUME TypeOK, FinishLet PROVE TypeOK'
  OBVIOUS
<1> DEFINE t == ret.typ
           bind == typecheck_pattern(Top.pat, t)
<1>1. pc = "expr" /\ ret # NoRet /\ Top.kind = "Let"
  BY DEF FinishLet, Returning
<1>2. Top.pat \in Pats
  <2>1. IsFrame(Top)
    BY <1>1, TopFacts
  <2> QED BY <1>1, <2>1 DEF IsFrame
<1>3. \/ ~ret.ok /\ FailItem(0)
      \/ ret.ok /\ FailItem(1)
      \/ ret.ok /\ FailItem(bind.diags)
      \/ /\ ret.ok /\ bind.ok
         /\ varCtx' = Union(varCtx, bind.ctx)
         /\ moves' = [x \in Vars |-> IF x \in DOMAIN bind.ctx \ DOMAIN varCtx THEN 0 ELSE moves[x]]
         /\ Report(bind.diags)
         /\ stmts' = stmts + 1
         /\ pc' = "stmt"
         /\ stack' = <<>>
         /\ ret' = NoRet
         /\ UNCHANGED <<fnCtx, cur, items, progOk, failDiags>>
  BY DEF FinishLet
<1>4. ret.ok => /\ bind.diags \in Nat
                /\ IsCtx(bind.ctx)
  <2> SUFFICES ASSUME ret.ok PROVE bind.diags \in Nat /\ IsCtx(bind.ctx)
    OBVIOUS
  <2>1. IsTyp(t)
    BY <1>1, RetFacts
  <2> QED BY <1>2, <2>1, PatternResult
<1>5. CASE ~ret.ok /\ FailItem(0)
  BY <1>1, <1>5, FailItemTypeOK
<1>6. CASE ret.ok /\ FailItem(1)
  BY <1>1, <1>6, FailItemTypeOK
<1>7. CASE ret.ok /\ FailItem(bind.diags)
  BY <1>1, <1>4, <1>7, FailItemTypeOK
<1>8. CASE /\ ret.ok /\ bind.ok
           /\ varCtx' = Union(varCtx, bind.ctx)
           /\ moves' = [x \in Vars |-> IF x \in DOMAIN bind.ctx \ DOMAIN varCtx THEN 0 ELSE moves[x]]
           /\ Report(bind.diags)
           /\ stmts' = stmts + 1
           /\ pc' = "stmt"
           /\ stack' = <<>>
           /\ ret' = NoRet
           /\ UNCHANGED <<fnCtx, cur, items, progOk, failDiags>>
  <2>1. IsCtx(varCtx')
    BY <1>4, <1>8, UnionIsCtx DEF TypeOK
  <2>2. StackOK(stack')
    BY <1>8, StackEmpty
  <2>3. moves' \in [Vars -> Nat] /\ diags' \in Nat /\ stmts' \in 0 .. MaxStmts
    BY <1>1, <1>4, <1>8, BoundsAssumption DEF TypeOK, Report
  <2> QED BY <1>1, <1>8, <2>1, <2>2, <2>3 DEF TypeOK
<1> QED BY <1>3, <1>5, <1>6, <1>7, <1>8

-----------------------------------------------------------------------------
(***************************************************************************)
(* Type correctness.  Every state the checker reaches satisfies TypeOK:    *)
(* the contexts map names to well-formed Typs, the frame stack has the     *)
(* let at its bottom and node frames above it within the depth bound, and *)
(* every result is Err or a well-formed Typ.  In the code this is what    *)
(* the Rust types of typecheck_expression, typecheck_pattern and          *)
(* typecheck_item guarantee; here it holds because every action builds    *)
(* its results from Typs it was given.                                    *)
(***************************************************************************)
THEOREM TypeCorrect == Spec => []TypeOK
<1>1. Init => TypeOK
  BY InitTypeOK
<1>2. TypeOK /\ [Next]_vars => TypeOK'
  <2> SUFFICES ASSUME TypeOK, [Next]_vars PROVE TypeOK'
    OBVIOUS
  <2>1. CASE CheckFnDecl      BY <2>1, CheckFnDeclTypeOK
  <2>2. CASE CheckUse         BY <2>2, CheckUseTypeOK
  <2>3. CASE FinishProgram    BY <2>3, FinishProgramTypeOK
  <2>4. CASE FinishBlock      BY <2>4, FinishBlockTypeOK
  <2>5. CASE StartLet         BY <2>5, StartLetTypeOK
  <2>6. CASE FinishLet        BY <2>6, FinishLetTypeOK
  <2>7. CASE CheckLit         BY <2>7, CheckLitTypeOK
  <2>8. CASE CheckNamed       BY <2>8, CheckNamedTypeOK
  <2>9. CASE CheckQualified   BY <2>9, CheckQualifiedTypeOK
  <2>10. CASE EnterUnary      BY <2>10, EnterUnaryTypeOK
  <2>11. CASE EnterBinary     BY <2>11, EnterBinaryTypeOK
  <2>12. CASE EnterIndex      BY <2>12, EnterIndexTypeOK
  <2>13. CASE EnterTuple      BY <2>13, EnterTupleTypeOK
  <2>14. CASE EnterFuncCall   BY <2>14, EnterFuncCallTypeOK
  <2>15. CASE EnterMethodCall BY <2>15, EnterMethodCallTypeOK
  <2>16. CASE Propagate       BY <2>16, PropagateTypeOK
  <2>17. CASE ReturnUnary     BY <2>17, ReturnUnaryTypeOK
  <2>18. CASE ReturnBinary    BY <2>18, ReturnBinaryTypeOK
  <2>19. CASE ReturnIndex     BY <2>19, ReturnIndexTypeOK
  <2>20. CASE ReturnTuple     BY <2>20, ReturnTupleTypeOK
  <2>21. CASE ReturnFuncCall  BY <2>21, ReturnFuncCallTypeOK
  <2>22. CASE ReturnMethodCall BY <2>22, ReturnMethodCallTypeOK
  <2>23. CASE Terminated      BY <2>23, TerminatedTypeOK
  <2>24. CASE UNCHANGED vars
    BY <2>24 DEF vars, TypeOK
  <2> QED BY <2>1, <2>2, <2>3, <2>4, <2>5, <2>6, <2>7, <2>8, <2>9, <2>10,
             <2>11, <2>12, <2>13, <2>14, <2>15, <2>16, <2>17, <2>18, <2>19,
             <2>20, <2>21, <2>22, <2>23, <2>24 DEF Next
<1> QED BY <1>1, <1>2, PTL DEF Spec
=============================================================================
