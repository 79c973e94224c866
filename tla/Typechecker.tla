----------------------------- MODULE Typechecker -----------------------------
(***************************************************************************)
(* The Rustspec type checker of src/hacspec-lang/src/typechecker.rs as a   *)
(* state machine.  typecheck_program walks the items of a program, and for *)
(* a function declaration typecheck_block checks its let-statements one    *)
(* after the other, threading the variable context.  The recursion of      *)
(* typecheck_expression is made explicit: a stack of frames, one per       *)
(* expression node whose children are being checked, and a register ret   *)
(* that holds the result of the node checked last.  Each step of the      *)
(* machine is one node entered, one child result consumed by its parent,   *)
(* one statement started or finished, or one item started or finished.    *)
(*                                                                         *)
(* The program is the input: each node, statement and item is chosen when  *)
(* the checker reaches it, from the bounded sets below.  Diagnostics sent  *)
(* to sess.span_err are counted in diags.                                  *)
(***************************************************************************)
EXTENDS Types, Integers, Functions

CONSTANTS
  Vars,      \* identifiers of variables
  Fns,       \* names of free functions
  Sigs,      \* the signatures items may declare
  Pats,      \* the let-patterns statements may use
  DeclTyps,  \* the type annotations let-statements may carry
  NoTyp,     \* no type: an absent annotation or an empty slot
  NoSig,     \* no signature registered under a name
  NoRet,     \* the result register is empty
  MaxItems,  \* bound on the number of items of the program
  MaxStmts,  \* bound on the number of statements of a block
  MaxDepth,  \* bound on the nesting depth of expressions
  MaxArgs    \* bound on the number of elements of a tuple or a call

Min2(a, b) == IF a <= b THEN a ELSE b

ParamNames(args) == {args[i].name : i \in DOMAIN args}

(* Identifier patterns of a tuple pattern that bind x. *)
BindersOf(elems, x) == {i \in DOMAIN elems : elems[i].kind = "Id" /\ elems[i].name = x}

ASSUME BoundsAssumption ==
  /\ MaxItems \in Nat /\ MaxStmts \in Nat /\ MaxDepth \in Nat /\ MaxArgs \in Nat

ASSUME SigsAssumption ==
  \A s \in Sigs :
    /\ s = [args |-> s.args, ret |-> s.ret]
    /\ s.args \in Seq([name : Vars, typ : {s.args[i].typ : i \in DOMAIN s.args}])
    /\ \A i \in DOMAIN s.args : IsTyp(s.args[i].typ)
    /\ IsBaseTyp(s.ret)
    \* rustc rejects a parameter list that binds a name twice (E0415)
    /\ \A i, j \in DOMAIN s.args : s.args[i].name = s.args[j].name => i = j

ASSUME PatsAssumption ==
  \A p \in Pats :
    \/ p = [kind |-> "Wild"]
    \/ p \in [kind : {"Id"}, name : Vars]
    \/ /\ p \in [kind : {"Tup"}, elems : Seq({[kind |-> "Wild"]} \cup [kind : {"Id"}, name : Vars])]
       \* rustc rejects a pattern that binds a name twice (E0416)
       /\ \A x \in Vars : \A i, j \in BindersOf(p.elems, x) : i = j

ASSUME DeclTypsAssumption == \A t \in DeclTyps : IsTyp(t)

ASSUME NoValuesAssumption ==
  /\ NoTyp \notin DeclTyps /\ \A s \in Sigs : NoSig # s
  /\ NoSig \notin [f : Fns, sig : Sigs]
  /\ NoRet \notin [ok : BOOLEAN, typ : {NoTyp}]

-----------------------------------------------------------------------------
(* Variable contexts: im::HashMap<Ident, Typ>, a function on the live names. *)

EmptyCtx == [y \in {} |-> NoTyp]

(* Mutant: the moved name is not removed. *)
WithoutNothing(ctx, x) == ctx

(* var_context.without(x) *)
Without(ctx, x) == [y \in DOMAIN ctx \ {x} |-> ctx[y]]

(* f.union(g): im keeps the value of f for a key bound in both. *)
Union(f, g) == [y \in DOMAIN f \cup DOMAIN g |-> IF y \in DOMAIN f THEN f[y] ELSE g[y]]

IsCtx(ctx) == DOMAIN ctx \subseteq Vars /\ \A y \in DOMAIN ctx : IsTyp(ctx[y])

(***************************************************************************)
(* typecheck_item: the context of a body is the fold of var_context.update *)
(* over the parameters, so a later parameter of the same name wins.        *)
(***************************************************************************)
(* Mutant: the parameter record is bound instead of its type. *)
SeedCtxWholeParam(args) ==
  [x \in ParamNames(args) |->
     args[CHOOSE i \in DOMAIN args :
            args[i].name = x /\ \A j \in DOMAIN args : args[j].name = x => j <= i]]

SeedCtx(args) ==
  [x \in ParamNames(args) |->
     args[CHOOSE i \in DOMAIN args :
            args[i].name = x /\ \A j \in DOMAIN args : args[j].name = x => j <= i].typ]

(***************************************************************************)
(* typecheck_pattern.  A wildcard binds nothing, an identifier binds the   *)
(* whole type.  A tuple pattern against a Tuple type reports an arity      *)
(* mismatch but goes on over the zipped shorter list, binding each         *)
(* component as Consumed; the fold acc.union(sub) keeps the first binding  *)
(* of a name.  A tuple pattern against any other type fails.               *)
(***************************************************************************)
BindTuple(elems, b) ==
  LET n == Min2(Len(elems), Arity(b))
      names == {elems[i].name : i \in {i \in 1 .. n : elems[i].kind = "Id"}}
      first(x) == CHOOSE i \in BindersOf(SubSeq(elems, 1, n), x) :
                    \A j \in BindersOf(SubSeq(elems, 1, n), x) : i <= j
  IN  [x \in names |-> Consumed(Child(b, first(x)))]

typecheck_pattern(p, t) ==
  CASE p.kind = "Wild" -> [ok |-> TRUE, ctx |-> EmptyCtx, diags |-> 0]
    [] p.kind = "Id"   -> [ok |-> TRUE, ctx |-> [y \in {p.name} |-> t], diags |-> 0]
    [] p.kind = "Tup" /\ Tag(t.base) = "Tuple" ->
         [ok |-> TRUE, ctx |-> BindTuple(p.elems, t.base),
          diags |-> IF Len(p.elems) # Arity(t.base) THEN 1 ELSE 0]
    [] OTHER -> [ok |-> FALSE, ctx |-> EmptyCtx, diags |-> 1]

-----------------------------------------------------------------------------
VARIABLES
  pc,         \* "item": between items; "stmt": between statements of a block;
              \* "expr": checking the right-hand side of a let; "done"
  fnCtx,      \* fn_context: function name -> registered signature or NoSig
  varCtx,     \* var_context of the block being checked
  cur,        \* the function declaration being checked: [f, sig]
  stack,      \* frames of typecheck_expression; the bottom one is the let
  ret,        \* result of the node checked last, or NoRet
  items,      \* items processed so far
  stmts,      \* statements checked so far in the current block
  diags,      \* diagnostics reported through sess.span_err
  progOk,     \* no item has failed: the result of check_vec
  failDiags,  \* history: diags when the first item failed, -1 before
  moves       \* history: times the current binding of each name was moved

vars == <<pc, fnCtx, varCtx, cur, stack, ret, items, stmts, diags, progOk, failDiags, moves>>

Ok(t) == [ok |-> TRUE, typ |-> t]
Err == [ok |-> FALSE, typ |-> NoTyp]

Top == stack[Len(stack)]
Pop == SubSeq(stack, 1, Len(stack) - 1)
SetTop(f) == [stack EXCEPT ![Len(stack)] = f]
Push(f) == Append(stack, f)

(* The checker is about to check a new expression node ... *)
AtNode == pc = "expr" /\ ret = NoRet
(* ... which may have children only above the depth bound. *)
CanNest == Len(stack) <= MaxDepth
(* The top frame receives the result of its child. *)
Returning(kind) == pc = "expr" /\ ret # NoRet /\ Top.kind = kind

Report(n) == diags' = diags + n

Init ==
  /\ pc = "item"
  /\ fnCtx = [f \in Fns |-> NoSig]
  /\ varCtx = EmptyCtx
  /\ cur = NoSig
  /\ stack = <<>>
  /\ ret = NoRet
  /\ items = 0
  /\ stmts = 0
  /\ diags = 0
  /\ progOk = TRUE
  /\ failDiags = -1
  /\ moves = [x \in Vars |-> 0]
-----------------------------------------------------------------------------
(***************************************************************************)
(* typecheck_program and typecheck_item                                    *)
(***************************************************************************)

(* A function declaration: its body is checked against a fresh context     *)
(* made of its parameters and against fn_context as it is before the item. *)
CheckFnDecl ==
  /\ pc = "item" /\ items < MaxItems
  /\ \E f \in Fns, sig \in Sigs :
       /\ cur' = [f |-> f, sig |-> sig]
       /\ varCtx' = SeedCtx(sig.args)
  /\ pc' = "stmt"
  /\ stmts' = 0
  /\ moves' = [x \in Vars |-> 0]
  /\ UNCHANGED <<fnCtx, stack, ret, items, diags, progOk, failDiags>>

(* A use item passes through and leaves fn_context alone. *)
CheckUse ==
  /\ pc = "item" /\ items < MaxItems
  /\ items' = items + 1
  /\ UNCHANGED <<pc, fnCtx, varCtx, cur, stack, ret, stmts, diags, progOk, failDiags, moves>>

(* check_vec: the program is accepted iff every item was. *)
FinishProgram ==
  /\ pc = "item"
  /\ pc' = "done"
  /\ UNCHANGED <<fnCtx, varCtx, cur, stack, ret, items, stmts, diags, progOk, failDiags, moves>>

(* The block returns Ok: the signature is registered under Static(f),      *)
(* overwriting an earlier one of the same name.                            *)
FinishBlock ==
  /\ pc = "stmt"
  /\ fnCtx' = [fnCtx EXCEPT ![cur.f] = cur.sig]
  /\ pc' = "item"
  /\ items' = items + 1
  /\ UNCHANGED <<varCtx, cur, stack, ret, stmts, diags, progOk, failDiags, moves>>

(* A statement returns Err after reporting n more diagnostics: the block   *)
(* and the item return Err, and typecheck_program goes on with the next    *)
(* item (its map is collected before check_vec looks at the results).      *)
FailItem(n) ==
  /\ pc' = "item"
  /\ items' = items + 1
  /\ stack' = <<>>
  /\ ret' = NoRet
  /\ Report(n)
  /\ progOk' = FALSE
  /\ failDiags' = IF failDiags = -1 THEN diags + n ELSE failDiags
  /\ UNCHANGED <<fnCtx, varCtx, cur, stmts, moves>>

(***************************************************************************)
(* typecheck_block and typecheck_statement                                 *)
(***************************************************************************)

(* The next statement, let pat [: decl] = e;, starts with e. *)
StartLet ==
  /\ pc = "stmt" /\ stmts < MaxStmts
  /\ \E p \in Pats, d \in DeclTyps \cup {NoTyp} :
       stack' = <<[kind |-> "Let", pat |-> p, decl |-> d]>>
  /\ pc' = "expr"
  /\ ret' = NoRet
  /\ UNCHANGED <<fnCtx, varCtx, cur, items, stmts, diags, progOk, failDiags, moves>>

(* The declared type, when there is one, is the type of the expression. *)
DeclMatches(decl, t) == IF decl = NoTyp THEN TRUE ELSE equal_types(decl, t)

(* e has been checked.  An Err, a declared type other than the type of e,  *)
(* or a failing pattern fails the statement.  Otherwise the bindings of    *)
(* the pattern are merged into the context by new_var_context.union(...),  *)
(* and the statement has type Unit, which the block accepts before the     *)
(* next statement.                                                         *)
FinishLet ==
  /\ Returning("Let")
  /\ LET t == ret.typ
         bind == typecheck_pattern(Top.pat, t)
     IN  \/ /\ ~ret.ok
            /\ FailItem(0)
         \/ /\ ret.ok /\ ~DeclMatches(Top.decl, t)
            /\ FailItem(1)
         \/ /\ ret.ok /\ DeclMatches(Top.decl, t)
            /\ ~bind.ok
            /\ FailItem(bind.diags)
         \/ /\ ret.ok /\ DeclMatches(Top.decl, t)
            /\ bind.ok
            /\ varCtx' = Union(varCtx, bind.ctx)
            /\ moves' = [x \in Vars |-> IF x \in DOMAIN bind.ctx \ DOMAIN varCtx THEN 0 ELSE moves[x]]
            /\ Report(bind.diags)
            /\ stmts' = stmts + 1
            /\ pc' = "stmt"
            /\ stack' = <<>>
            /\ ret' = NoRet
            /\ UNCHANGED <<fnCtx, cur, items, progOk, failDiags>>

-----------------------------------------------------------------------------
(***************************************************************************)
(* typecheck_expression: the leaves                                        *)
(***************************************************************************)

(* "This is where linearity kicks in": reading a Consumed variable of a    *)
(* non-copy type moves it.                                                 *)
Moves(t) == t.mode = "Consumed" /\ ~is_copy(t.base)

(* A literal has the one base type of its kind, Consumed. *)
CheckLit ==
  /\ AtNode
  /\ \E k \in {"Bool"} \cup IntKinds : ret' = Ok(Consumed(Leaf(k)))
  /\ UNCHANGED <<pc, fnCtx, varCtx, cur, stack, items, stmts, diags, progOk, failDiags, moves>>

(* A one-segment path without argument is a variable.  An unknown name is  *)
(* an error.  A Consumed variable of a non-copy type is moved: the         *)
(* returned context no longer binds it.                                    *)
CheckNamed ==
  /\ AtNode
  /\ \E x \in Vars :
       \/ /\ x \notin DOMAIN varCtx
          /\ ret' = Err
          /\ Report(1)
          /\ UNCHANGED <<varCtx, moves>>
       \/ /\ x \in DOMAIN varCtx
          /\ ret' = Ok(varCtx[x])
          /\ IF Moves(varCtx[x])
               THEN /\ varCtx' = Without(varCtx, x)
                    /\ moves' = [moves EXCEPT ![x] = @ + 1]
               ELSE UNCHANGED <<varCtx, moves>>
          /\ UNCHANGED diags
  /\ UNCHANGED <<pc, fnCtx, cur, stack, items, stmts, progOk, failDiags>>

(* Any other path (qualified, or with a type argument) is reported unknown; *)
(* so is a call of such a path.                                            *)
CheckQualified ==
  /\ AtNode
  /\ ret' = Err
  /\ Report(1)
  /\ UNCHANGED <<pc, fnCtx, varCtx, cur, stack, items, stmts, progOk, failDiags, moves>>
-----------------------------------------------------------------------------
(***************************************************************************)
(* typecheck_expression: the nodes with children.  Entering a node pushes  *)
(* its frame; its first child is the next node checked.                    *)
(***************************************************************************)

Enter(frame) ==
  /\ stack' = Push(frame)
  /\ UNCHANGED <<pc, fnCtx, varCtx, cur, ret, items, stmts, diags, progOk, failDiags, moves>>

EnterUnary == AtNode /\ CanNest /\ Enter([kind |-> "Unary"])

EnterBinary == AtNode /\ CanNest /\ Enter([kind |-> "Binary", left |-> NoTyp])

EnterIndex == AtNode /\ CanNest /\ Enter([kind |-> "Index", left |-> NoTyp])

EnterMethodCall == AtNode /\ CanNest /\ Enter([kind |-> "MethodCall"])

(* A tuple literal of n elements remembers the context before each element. *)
EnterTuple ==
  /\ AtNode /\ CanNest
  /\ \E n \in 0 .. MaxArgs :
       IF n = 0
         THEN /\ ret' = Ok(Consumed(Node("Tuple", <<>>)))
              /\ UNCHANGED stack
         ELSE /\ stack' = Push([kind |-> "Tuple", left |-> n, elems |-> <<>>,
                                failed |-> FALSE, ctx |-> varCtx])
              /\ UNCHANGED ret
  /\ UNCHANGED <<pc, fnCtx, varCtx, cur, items, stmts, diags, progOk, failDiags, moves>>

(* A call of a one-segment function name with n arguments.  An unknown     *)
(* name fails.  An arity mismatch is reported and checking goes on over    *)
(* the parameters zipped with the arguments, so arguments past the shorter *)
(* list are never checked.                                                 *)
EnterFuncCall ==
  /\ AtNode /\ CanNest
  /\ \E f \in Fns, n \in 0 .. MaxArgs :
       IF fnCtx[f] = NoSig
         THEN /\ ret' = Err
              /\ Report(1)
              /\ UNCHANGED stack
         ELSE LET sig == fnCtx[f]
                  k == Min2(n, Len(sig.args))
              IN  /\ Report(IF Len(sig.args) # n THEN 1 ELSE 0)
                  /\ IF k = 0
                       THEN /\ ret' = Ok(Consumed(sig.ret))
                            /\ UNCHANGED stack
                       ELSE /\ stack' = Push([kind |-> "FuncCall", i |-> 1, out |-> sig.ret,
                                              params |-> [j \in 1 .. k |-> sig.args[j].typ]])
                            /\ UNCHANGED ret
  /\ UNCHANGED <<pc, fnCtx, varCtx, cur, items, stmts, progOk, failDiags, moves>>

-----------------------------------------------------------------------------
(***************************************************************************)
(* typecheck_expression: a frame receives the result of a child            *)
(***************************************************************************)

(* Return from the frame with result r after reporting n diagnostics. *)
Leave(r, n) ==
  /\ stack' = Pop
  /\ ret' = r
  /\ Report(n)
  /\ UNCHANGED <<pc, fnCtx, varCtx, cur, items, stmts, progOk, failDiags, moves>>

(* The next child of the top frame is checked next. *)
NextChild(f) ==
  /\ stack' = SetTop(f)
  /\ ret' = NoRet
  /\ UNCHANGED <<pc, fnCtx, varCtx, cur, items, stmts, diags, progOk, failDiags, moves>>

(* The ? after a child: an Err aborts the binary operator, the index, the  *)
(* call and the method call at once.                                       *)
Propagate ==
  /\ pc = "expr" /\ ret # NoRet /\ ~ret.ok
  /\ Top.kind \in {"Binary", "Index", "FuncCall", "MethodCall"}
  /\ Leave(Err, 0)

(* A unary operator returns what its operand returned. *)
ReturnUnary == Returning("Unary") /\ Leave(ret, 0)

(* Both operands are checked left to right and must have equal types. *)
ReturnBinary ==
  /\ Returning("Binary") /\ ret.ok
  /\ IF Top.left = NoTyp
       THEN NextChild([Top EXCEPT !.left = ret.typ])
       ELSE IF equal_types(Top.left, ret.typ)
              THEN Leave(Ok(Top.left), 0)
              ELSE Leave(Err, 1)

(* a[i]: a must be a Seq (of either mode), i an integer that is not        *)
(* Borrowed; the element is returned Consumed.                             *)
ReturnIndex ==
  /\ Returning("Index") /\ ret.ok
  /\ IF Top.left = NoTyp
       THEN NextChild([Top EXCEPT !.left = ret.typ])
       ELSE CASE Tag(Top.left.base) # "Seq"    -> Leave(Err, 1)
              [] ret.typ.mode = "Borrowed"     -> Leave(Err, 1)
              [] ~IsIntTyp(ret.typ.base)       -> Leave(Err, 1)
              [] OTHER -> Leave(Ok(Consumed(Child(Top.left.base, 1))), 0)

(* Mutant: an element that returns Err restores the context but is not    *)
(* recorded as a failure of the tuple.                                     *)
ReturnTupleErrForgotten ==
  /\ Returning("Tuple")
  /\ LET good == ret.ok /\ ret.typ.mode = "Consumed"
         ctx == IF ret.ok THEN varCtx ELSE Top.ctx
         elems == IF good THEN Append(Top.elems, ret.typ.base) ELSE Top.elems
         failed == Top.failed \/ (ret.ok /\ ~good)
     IN  /\ varCtx' = ctx
         /\ Report(IF ret.ok /\ ~good THEN 1 ELSE 0)
         /\ IF Top.left > 1
              THEN /\ stack' = SetTop([kind |-> "Tuple", left |-> Top.left - 1, elems |-> elems,
                                        failed |-> failed, ctx |-> ctx])
                   /\ ret' = NoRet
              ELSE /\ stack' = Pop
                   /\ ret' = IF failed THEN Err ELSE Ok(Consumed(Node("Tuple", elems)))
  /\ UNCHANGED <<pc, fnCtx, cur, items, stmts, progOk, failDiags, moves>>

(***************************************************************************)
(* A tuple element.  An element that returns Err leaves the context as it  *)
(* was before the element; a Borrowed element is reported but keeps the    *)
(* context it returned.  Either way the remaining elements are still       *)
(* checked (the map is collected before check_vec), and the tuple fails.   *)
(***************************************************************************)
ReturnTuple ==
  /\ Returning("Tuple")
  /\ LET good == ret.ok /\ ret.typ.mode = "Consumed"
         ctx == IF ret.ok THEN varCtx ELSE Top.ctx
         elems == IF good THEN Append(Top.elems, ret.typ.base) ELSE Top.elems
         failed == Top.failed \/ ~good
     IN  /\ varCtx' = ctx
         /\ Report(IF ret.ok /\ ~good THEN 1 ELSE 0)
         /\ IF Top.left > 1
              THEN /\ stack' = SetTop([kind |-> "Tuple", left |-> Top.left - 1, elems |-> elems,
                                        failed |-> failed, ctx |-> ctx])
                   /\ ret' = NoRet
              ELSE /\ stack' = Pop
                   /\ ret' = IF failed THEN Err ELSE Ok(Consumed(Node("Tuple", elems)))
  /\ UNCHANGED <<pc, fnCtx, cur, items, stmts, progOk, failDiags, moves>>

(* An argument of a call: its mode must be the parameter's mode and its    *)
(* base type the parameter's base type.  The call returns the declared     *)
(* return base type, Consumed.                                             *)
ReturnFuncCall ==
  /\ Returning("FuncCall") /\ ret.ok
  /\ LET p == Top.params[Top.i]
     IN  CASE ret.typ.mode # p.mode  -> Leave(Err, 1)
           [] ret.typ.base # p.base  -> Leave(Err, 1)
           [] Top.i < Len(Top.params) -> NextChild([Top EXCEPT !.i = @ + 1])
           [] OTHER -> Leave(Ok(Consumed(Top.out)), 0)

(* Mutant: the unknown method fails without its span_err. *)
ReturnMethodCallUnreported == Returning("MethodCall") /\ ret.ok /\ Leave(Err, 0)

(* The receiver of a method call has been checked.  fn_context holds only  *)
(* Static keys (typecheck_item registers nothing else), so the lookup of   *)
(* the Method key finds nothing: "unknown method".                         *)
ReturnMethodCall == Returning("MethodCall") /\ ret.ok /\ Leave(Err, 1)

-----------------------------------------------------------------------------
(* The check is over; the checker stays where it is. *)
Terminated == pc = "done" /\ UNCHANGED vars

Next ==
  \/ CheckFnDecl \/ CheckUse \/ FinishProgram \/ FinishBlock
  \/ StartLet \/ FinishLet
  \/ CheckLit \/ CheckNamed \/ CheckQualified
  \/ EnterUnary \/ EnterBinary \/ EnterIndex \/ EnterTuple \/ EnterFuncCall \/ EnterMethodCall
  \/ Propagate \/ ReturnUnary \/ ReturnBinary \/ ReturnIndex \/ ReturnTuple
  \/ ReturnFuncCall \/ ReturnMethodCall
  \/ Terminated

Spec == Init /\ [][Next]_vars
-----------------------------------------------------------------------------
(***************************************************************************)
(* Properties                                                              *)
(***************************************************************************)

IsFrame(f) ==
  \/ f \in [kind : {"Let"}, pat : Pats, decl : DeclTyps \cup {NoTyp}]
  \/ f \in [kind : {"Unary", "MethodCall"}]
  \/ /\ f.kind \in {"Binary", "Index"}
     /\ f = [kind |-> f.kind, left |-> f.left]
     /\ f.left = NoTyp \/ IsTyp(f.left)
  \/ /\ f.kind = "Tuple"
     /\ f = [kind |-> "Tuple", left |-> f.left, elems |-> f.elems, failed |-> f.failed, ctx |-> f.ctx]
     /\ f.left \in 1 .. MaxArgs
     /\ f.elems \in Seq(Range(f.elems))
     /\ \A i \in DOMAIN f.elems : IsBaseTyp(f.elems[i])
     /\ f.failed \in BOOLEAN
     /\ IsCtx(f.ctx)
  \/ /\ f.kind = "FuncCall"
     /\ f = [kind |-> "FuncCall", i |-> f.i, out |-> f.out, params |-> f.params]
     /\ f.params \in Seq(Range(f.params))
     /\ f.i \in 1 .. Len(f.params)
     /\ \A j \in DOMAIN f.params : IsTyp(f.params[j])
     /\ IsBaseTyp(f.out)

(* A frame stack: the let at the bottom, at most MaxDepth nodes above it. *)
StackOK(s) ==
  /\ s \in Seq(Range(s))
  /\ \A i \in DOMAIN s : IsFrame(s[i])
  /\ \A i \in DOMAIN s : (s[i].kind = "Let") = (i = 1)
  /\ Len(s) <= MaxDepth + 1

(* The type invariant. *)
TypeOK ==
  /\ pc \in {"item", "stmt", "expr", "done"}
  /\ fnCtx \in [Fns -> Sigs \cup {NoSig}]
  /\ IsCtx(varCtx)
  /\ cur \in [f : Fns, sig : Sigs] \cup {NoSig}
  /\ StackOK(stack)
  /\ (pc = "expr") = (stack # <<>>)
  /\ ret = NoRet \/ ret = Err \/ (ret = Ok(ret.typ) /\ IsTyp(ret.typ))
  /\ pc # "expr" => ret = NoRet
  /\ pc \in {"stmt", "expr"} => cur # NoSig /\ items < MaxItems
  /\ pc = "expr" => stmts < MaxStmts
  /\ items \in 0 .. MaxItems
  /\ stmts \in 0 .. MaxStmts
  /\ diags \in Nat
  /\ progOk \in BOOLEAN
  /\ failDiags \in {-1} \cup Nat
  /\ moves \in [Vars -> Nat]

(***************************************************************************)
(* Linearity.  Between two statements, no binding of the context has been  *)
(* moved since it was bound: a Consumed non-copy value is used at most     *)
(* once.  It rests on the move in the Named case removing the name, on     *)
(* is_copy, on each tuple element being checked in the context left by     *)
(* the one before, and on the context restored after a failed element      *)
(* never reaching an accepted statement.                                   *)
(***************************************************************************)
Linearity == pc = "stmt" => \A x \in DOMAIN varCtx : moves[x] = 0

(***************************************************************************)
(* Why Linearity holds: while an expression is checked, a live name whose  *)
(* binding was already moved is one that a failed tuple element brought   *)
(* back (ReturnTuple restores the context from before the element), so    *)
(* the expression is doomed: a tuple frame on the stack has failed, or     *)
(* the result register already holds Err.                                  *)
(***************************************************************************)
FailedTuple(s) == \E i \in DOMAIN s : s[i].kind = "Tuple" /\ s[i].failed

MovedOnlyWhenDoomed ==
  pc = "expr" =>
    \A x \in DOMAIN varCtx : moves[x] > 0 => ret = Err \/ FailedTuple(stack)

(***************************************************************************)
(* No silent rejection (spec 7: every failure is emitted through the       *)
(* reporter): once an item has failed, a diagnostic has been reported.     *)
(* Only the sess.span_err before each return Err(()) reports; the ? after  *)
(* a child, check_vec over a tuple's elements (line 132), the let's ? and  *)
(* the item's Err (line 620) pass a failure on without reporting again.    *)
(* Any path that fails can be the first failing item, so one Err without  *)
(* its span_err anywhere in the checker shows here.                        *)
(***************************************************************************)
FailureReported == ~progOk => diags > 0

(***************************************************************************)
(* Shadowing (spec 4.4): after a let-statement is accepted, every name its *)
(* pattern binds has the type the pattern gave it, shadowing a binding of  *)
(* the same name made before (new_var_context.union(pat_var_context)).     *)
(***************************************************************************)
Shadowing ==
  [][(pc = "expr" /\ pc' = "stmt") =>
       \A x \in DOMAIN typecheck_pattern(Top.pat, ret.typ).ctx :
          varCtx'[x] = typecheck_pattern(Top.pat, ret.typ).ctx[x]]_vars

(***************************************************************************)
(* Fail-fast (spec 4.5 and 7): the first failing item aborts the whole     *)
(* check, so nothing is reported after it (typecheck_program).             *)
(***************************************************************************)
FailFast == failDiags = -1 \/ diags = failDiags
=============================================================================
