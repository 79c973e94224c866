# TLA+ models of the Rustspec type checker and array library

This directory holds TLA+ models of two parts of the repository:

- `src/hacspec-lang/src/typechecker.rs`, the type checker with linear ownership of the Rustspec front end;
- `src/hacspec/src/array.rs`, the macro-generated fixed-length array library that Rustspec programs run against.

It has:

- the models themselves;
- the TLC configurations that check them;
- TLAPS proofs of their type invariants, of linearity for the checker and of the hex round trip for the arrays.

The two parts do not call each other: the checker checks programs whose `Seq` and array types the library implements at run time. They are modelled separately.

## The system

`typecheck_program` walks the items of a program. A use item passes through unchanged. A function declaration is handled by `typecheck_item`:

1. It seeds a variable context from the parameters.
2. It checks the body block against that context and against the signature table (`fn_context`) as it was *before* the item.
3. On success, it registers the signature under `FnKey::Static(name)`.

`typecheck_block` checks the statements in order, threading the context. The only statement kind is `let pat [: T] = e;`, handled by `typecheck_statement`:

1. It checks `e` with `typecheck_expression`, which returns the type and the context after `e`.
2. It compares the annotation with `equal_types`.
3. It binds the pattern with `typecheck_pattern`.
4. It merges the new bindings into the context with `union`.

Reading a `Consumed` variable of a non-copy type (`is_copy`) removes it from the context. That is the linearity discipline.

The code is sequential and purely functional: contexts are persistent `im` maps. What is hard in it is the order in which contexts are threaded and restored:

- through tuple elements, binary operands, index operands and call arguments;
- on the `?` early returns;
- and the places where the code keeps going after an error: `map(..).collect()` before `check_vec`, and zipped lists on arity mismatch.

## Modules

| Module | Models |
|---|---|
| `Types` | The type grammar. A base type is a finite tree: a function from positions (`Seq(Nat)`) to labels `[tag, n]`. `is_copy` (lines 5-26) is stated over the "tuple spine" of the tree, which unfolds its recursion. `equal_types` (28-80) is equality of modes and trees, because spans are abstracted away. |
| `Typechecker` | The checker as a state machine, described below. |
| `MCTypechecker` | The TLC instance: two variables, two functions, two signatures `(x: Seq<u8>) -> u8` and `(x: &Seq<u8>, y: u8) -> Seq<u8>`, the patterns `_`, `x`, `y`, `(y, x)`, and the annotation `u8`. |
| `TypesProofs` | Lemmas on trees: `Node`, `Leaf` and `Child` build base types. |
| `TypecheckerProofs` | The proof of `TypeCorrect`, with one lemma per action. |
| `LinearityProofs` | The proofs of `LinearityHolds` and its corollary `MovedOnlyWhenDoomedHolds`, with one lemma per action. |
| `ReportingProofs` | The proof of `FailureReportedHolds` from the inductive invariant `RepInv`, with one lemma per action and lemmas on pushing, popping and replacing frames. |
| `Array` | One call of an operation of the `array!`/`bytes!` macros of `array.rs` on an arbitrary array, described below. |
| `MCArray` | The TLC instances of `Array`: byte arrays of length 3 (calls) and 8 (word conversions). |
| `ArrayProofs` | The proofs of `ByteArraysHold`, `TypeOKHolds`, `HexRoundTripHolds`, `ReturnedWritesExactHolds` and `WordsRoundTripHolds`, with lemmas on the hex digit table, the write loops, the index cast and the chunk arithmetic. |

The recursion of `typecheck_expression` is made explicit in `Typechecker`:

- **Variables.**
  - `stack` holds one frame per expression node whose children are being checked. The bottom frame is the `let`.
  - `ret` holds the result of the node checked last.
  - `varCtx` is the `var_context` being threaded.
  - `fnCtx` is `fn_context`.
  - `diags` counts the calls to `sess.span_err`.
- **Input.** The program is chosen as the checker reaches it (`\E` over small sets): each item, statement, pattern, annotation and expression node. Every program the bounds allow is therefore checked.
- **Actions.** There is one action per node kind entered and one per frame receiving a child's result:
  - entering a node: `EnterUnary`, `EnterBinary`, `EnterIndex`, `EnterTuple`, `EnterFuncCall`, `EnterMethodCall`;
  - receiving a result: `ReturnUnary`, `ReturnBinary`, `ReturnIndex`, `ReturnTuple`, `ReturnFuncCall`, `ReturnMethodCall`, plus `Propagate` for the `?` after a failing child;
  - leaves: `CheckLit`, `CheckNamed`, `CheckQualified`;
  - statements and items: `StartLet`/`FinishLet`, `CheckFnDecl`/`FinishBlock`/`CheckUse`/`FinishProgram`.
- **Guards and updates** follow the code's branches in the code's order:
  - The tuple frame keeps the context from before each element. An element returning `Err` restores it (line 118: the `?` skips `var_context = new_var_context`).
  - A Borrowed element is reported after its context was kept (lines 119-126).
  - A failing element does not stop the remaining elements (`collect` before `check_vec`).
  - A call reports an arity mismatch and goes on over the zipped list (345-358).
  - A method call always fails after its receiver is checked, because `fn_context` only ever holds `Static` keys (406).
  - `union` keeps the receiver's value for a key bound on both sides, as `im::HashMap::union` does (488, 544).
- **History variables.** `moves` counts the moves of each name's current binding. `failDiags` records `diags` when the first item failed. Neither affects the control flow.

## The array library

`array.rs` defines, through macros, a struct wrapping `[T; $l]` with constructors (`new`, `from_slice`, `from_sub_pad`, `from_sub`, `copy`, `from_vec`, `from_hex`, `random`, `from_public_*`), in-place and returning updates (`update`, `update_sub`, `IndexMut`), reads (`Index` with `usize`, `u8`..`i32` indices, `chunks`) and conversions (`to_hex`, `to_U32s_be` .. `to_U128s_le`). A value is passed by move, so every operation is a function from its arguments to a new array or a panic.

`Array` models one such call:

- **State.** `arr` is the array (`[0..L-1 -> values]`); `debug` is the build (debug assertions on or off), fixed at Init; `status` is ready, returned or panicked; `call` records the operation and arguments taken.
- **Actions.** One per operation, each `Return(call, result)` or, for a read, `Query(call, result)`. The arguments come from small sets (`Ins`, `Starts`, `Idxs`, `HexIns`). `Done` is the stutter after the call.
- **Outcomes.** `Ret(x)` or `Panic`. `debug_assert!` is `Asserted(c) == ~debug \/ c`: in release the assertion is gone and what follows runs anyway.
- **Write loops.** `Store` is the `for i in 0..v.len() { self[start+i] = v[i] }` loops: it panics past the end, and a panic loses the moved self, so a partial write is never observed.
- **Index casts.** `CastIndex(i) == i % Word` is the `as usize` of a signed index (sign extension), so `a[-1i32]` indexes `2^w - 1` and panics.
- **Hex.** `ByteOf` follows `u8::from_str_radix(_, 16)`: digits of either case and a leading `+`. `ToHex` prints two lower-case digits per byte.
- **Words.** `ToWordsR` chunks the bytes by the word size; a short last chunk indexes past the word and panics in both builds. A word is kept as its big-endian bytes, so 128-bit words need no big integers.

## Runs

| Run | cfg | Result | What it shows |
|---|---|---|---|
| `core` | `MCCore.cfg` | pass, 978k states | Programs of 2 items with blocks of 2 lets, over expressions of depth 1, with tuples and calls of up to 2 arguments. `TypeOK`, `Linearity` and `FailureReported` hold. |
| `nested` | `MCNested.cfg` | pass, 748k states | Two items of one let each, over expressions of depth 2 (a tuple in a tuple, a call or index inside a tuple). The second item's calls can find the signature the first one registered. `TypeOK`, `Linearity`, `MovedOnlyWhenDoomed` and `FailureReported` hold. |
| `shadowing` | `MCShadowing.cfg` | violation of `Shadowing` | `fn f(x: Seq<u8>) -> u8 { let x = 1u8; ... }` leaves `x` a Consumed `Seq<u8>` instead of `u8`. |
| `failfast` | `MCFailFast.cfg` | violation of `FailFast` | An item after a failed one is still checked and reports more diagnostics. |
| `array_calls` | `MCArray.cfg` | pass, 21k states | Every operation on every byte array of length 3 over `{0, 1, 171}`, both builds. `TypeOK`, `HexRoundTrip` and `ReturnedWritesExact` hold. |
| `array_words` | `MCArrayWords.cfg` | pass, 27k states | Length 8 over `{0, 1}`: the 4-, 8- and 16-byte word conversions. `WordsRoundTrip` holds. |
| `array_update_sub` | `MCArrayUpdateSub.cfg` | violation of `UpdateSubWritesLen` | In release, `update_sub(0, [], 0, 1)` returns self unchanged. |
| `array_hex_sign` | `MCArrayHexSign.cfg` | violation of `FromHexOnlyHexDigits` | `from_hex("+a0b01")` returns `[10, 11, 1]`. |

The properties:

- **`Linearity`.** Between statements, no live binding has been moved since it was bound.
  - It is the discipline the checker exists for.
  - It fails if a move does not remove the name (mutant `WithoutNothing`).
  - It would also fail if a tuple element or a right operand were checked in a stale context, or if a context restored after a failed element could reach an accepted statement.
- **`MovedOnlyWhenDoomed`** (checked by `nested`). While an expression is checked, a live name whose binding was already moved exists only while the expression is bound to fail: the result register holds `Err`, or a tuple frame on the stack has failed.
  - Such names appear when a failing tuple element restores the context from before it (line 118).
  - It fails if an `Err` element is not recorded as a failure of the tuple (mutant `ReturnTupleErrForgotten`, caught by `nested`). At depth 1 an element is a leaf and cannot both move and fail, which is why the mutant needs depth 2.
  - It is also the strengthening that makes `Linearity` provable (below).
- **`FailureReported`.** Once an item has failed, at least one diagnostic has been reported. Spec §7 says every failure is emitted through the reporter.
  - Each `return Err(())` of the checker follows a `sess.span_err`. The `?` after a child, `check_vec` over a tuple's elements (line 132), the let and the item (line 620) only pass an `Err` on.
  - A single `Err` path without its `span_err` would reject a program silently. Any failing path can be the first failing item, so the property sees it.
  - It fails if the unknown-method case drops its `span_err` (mutant `ReturnMethodCallUnreported`, caught by both runs).
- **`TypeOK`.** The type invariant, also proved for all instances (below).

The array properties:

- **`ReturnedWritesExact`** (an action property). An `update` or `index_mut` that returns wrote exactly what it was given, where it was given, and nothing else; writes that do not fit, and negative `i32` indices, panic instead. It fails if the loop bound admits one element more (mutant `StoreLoose`).
- **`HexRoundTrip`.** `from_hex(to_hex(a)) = a` for every reachable array. It fails if the two digits of a byte are combined in the wrong order (mutant `ByteOfSwapped`). It is also proved (below).
- **`WordsRoundTrip`.** A conversion to words succeeds exactly when the length is a multiple of the word size, and its words, printed big-endian, give the bytes back, each block reversed for little-endian. It fails if `to_bytes_be` swaps word and byte indices (mutant `ToBytesBeTransposed`).
- **`TypeOK`** of `Array` is checked by `array_calls`. It fails if the loop writes one-based (mutant `StoreOneBased`), which leaves the domain.

Bounds:

- `L = 3` has a strict prefix, a full write and one past the end for each of the inputs of length 0 to 4; `Starts = 0..3` reaches every offset including `L`; `Idxs = {-1, 0, 2, 3}` has a negative, the last valid and the first invalid index; `Word = 16` is enough for every sum of a start and a length in these sets.
- The hex inputs cover mixed case, a `+` sign, odd and short and long strings and a non-digit.
- `L = 8` is the smallest length that is a multiple of 4 and 8 but not of 16, so both the success and the panic of the word conversions occur.

- `MaxItems = 2` lets an item use a signature registered by the one before it, and lets a failing item be followed by another.
- `MaxStmts = 2` lets a name moved in one let be read in the next.
- `MaxArgs = 2` gives `(x, x)`, `f(x, y)` and arity mismatches in both directions.
- Depth 1 with two statements per item and depth 2 with one statement per item are the largest instances that finish in minutes; beyond them the state count grows past 5 million.

There is no liveness property and no fairness. Every step is either the checker's own deterministic progress or the choice of the next input node, so "eventually done" would be a statement about the input, not about the code.


## Findings

1. **Shadowing** (`spec_code_divergence`, line 544). The spec (§4.4) says new bindings shadow prior ones. `new_var_context.clone().union(pat_var_context)` keeps the prior binding instead, because im's `union` is left-biased.
2. **Fail-fast** (`spec_code_divergence`, lines 617-624). The spec (§4.5, §7) says the first failing item aborts the check. `typecheck_program` collects the results of every item before `check_vec` looks at them, so later items are still checked and report.
3. **`update_sub` in release** (`code_bug`, `array.rs` line 103). The length check is a `debug_assert!`; in release the loop runs `0..min(len, v.len() - start_in)`-many times, so a call asked to copy `len` elements returns having copied fewer (none for an empty `v`).
4. **`from_hex` accepts a sign** (`code_bug`, `array.rs` line 261). `u8::from_str_radix` accepts a leading `+`, so a pair `+a` parses as 10 and `"+a0b01"` is accepted as `[10, 11, 1]`, though `to_hex` never prints such a string.

## Proofs

`TypecheckerProofs.TypeCorrect` proves `Spec => []TypeOK` for every instance that satisfies the module assumptions:

- **`SigsAssumption`.** Parameter names of a signature are distinct; rustc enforces this with E0415.
- **`PatsAssumption`.** A tuple pattern binds a name once (E0416), and its elements are identifiers or wildcards.
- `DeclTypsAssumption`, `BoundsAssumption` and `NoValuesAssumption`.

`TypeOK` is inductive as stated. It includes the facts the proof needs about the phase (`pc = "expr"` implies a block is open with `stmts < MaxStmts` and `items < MaxItems`) and about the stack (`StackOK`: the let at the bottom, node frames above it, at most `MaxDepth + 1` frames). The proof has:

- one lemma per action;
- lemmas for the stack operations (`StackPush`, `StackPop`, `StackSetTop`);
- lemmas for the context operations (`WithoutIsCtx`, `UnionIsCtx`, `SeedCtxIsCtx`, `BindTupleIsCtx`, `PatternResult`);
- the tree lemmas of `TypesProofs` (`NodeIsBaseTyp`, `ChildIsBaseTyp`, `LeafIsBaseTyp`), which show that tuple results, indexed elements and destructured components are well-formed types. They are steps of `TypeCorrect`, not results of their own.

Base types are trees given by their positions rather than recursive data, so none of this needs induction. `is_copy` is stated without recursion for the same reason.

`LinearityProofs.LinearityHolds` proves `Spec => [](Linearity /\ MovedOnlyWhenDoomed)` under the same assumptions. `Linearity` alone is not inductive: a tuple element that fails restores the context from before it, so a moved name is live again while the expression is still being checked. The inductive invariant is `Linearity /\ MovedOnlyWhenDoomed`, used together with `TypeOK` (from `TypeCorrect`). Along the argument:

- A move removes the name (`CheckNamed`).
- Entering a node, changing the top frame or popping a frame that is not a failed tuple keeps every failed tuple frame below it (`FailedTuplePush`, `FailedTupleBelowTop`).
- In `ReturnTuple`, either the tuple has now failed (its frame is a failed tuple frame, or as the last element it returns `Err`), or the element succeeded and the context is the one it left.
- `FinishLet` accepts only an `Ok` result while the let frame is alone on the stack (`NoFailedTupleAtLet`), so no live name was moved; the names the pattern adds start with no moves.

`ArrayProofs.ByteArraysHold` proves `Spec => []ByteInv`: every array the model reaches holds only bytes, for every length and any byte inputs (`ArrayAssumption`: `Default` and `InVals` are bytes). Each constructor's result is shown to be a byte array by a lemma on its helper (`StoreBytes`, `FromSubPadBytes`, `UpdateBytes`, `IndexMutBytes`, `FromHexBytes`); reads leave `arr` as it is.

`ArrayProofs.HexRoundTripHolds` proves `Spec => []HexRoundTrip` when `ElemSize = 1`. It follows from `ByteInv` alone: for a byte `b`, the two printed digits are `LowerDigits[b \div 16 + 1]` and `LowerDigits[b % 16 + 1]`, neither is `+` (`LowerDigitsDistinct`), and `ByteOf` of them is `16 * (b \div 16) + b % 16 = b` (`ByteOfPrinted`); the printed string has length `2L` (`ToHexShape`), so `from_hex` neither panics nor truncates. The round trip is not an invariant of its own: it needs the byte invariant, which is why `ByteInv` is proved first.

`LinearityProofs.MovedOnlyWhenDoomedHolds` states `Spec => []MovedOnlyWhenDoomed` on its own; it is the second conjunct of `LinearityHolds`.

`ReportingProofs.FailureReportedHolds` proves `Spec => []FailureReported` for every instance. `FailureReported` is not inductive. An `Err` is made deep in an expression and carried up by steps that do not report: the `?` after a child, the tuple's element loop, the let. The inductive invariant `RepInv` says that a pending failure has already been reported. A pending failure is an `Err` in the result register or a failed tuple frame on the stack (`Doomed`). `RepInv` is checked together with `TypeOK` (from `TypeCorrect`). Along the argument:

- The count of diagnostics never drops, and a failure after a step was pending before it or is reported by the step (`StepRep`).
- Pushing, popping or replacing the top with a frame that is not a failed tuple adds no failed tuple frame (`PushFailed`, `PopFailed`, `SetTopFailed`).
- Each leaf or node that makes an `Err` reports it in the same step (`ResultRep`, `LeaveRep` with one more diagnostic).
- `ReturnTuple` marks the tuple failed only if it had failed already, the element returned `Err`, or the element was Borrowed and reported.
- `FinishLet` fails the item with the pending `Err`, or with one diagnostic of its own. A failing pattern reports exactly one (`PatternFailureReported`).

`ArrayProofs.TypeOKHolds` proves `Spec => []TypeOK` for the array model: the array is a function from `0..L-1` to bytes, and the call record names a modelled operation. It uses `ByteArraysHold` for the array and a lemma `CallStep` for every `Return`/`Query` of a call.

`ArrayProofs.ReturnedWritesExactHolds` proves the action property `ReturnedWritesExact` (`[][WritesExact]_vars`) for every length, index set and input set:

- a returned `update` wrote exactly its input at `start..start+len-1` (`StoreWrites`);
- a returned `index_mut` wrote exactly the element at its index.

For `index_mut`, `CastIndexValid` shows that an `i32` index whose cast (`i as usize`, `i + 2^64` when negative) is below `$l` was a non-negative in-bounds index. This rests on a clause of `ArrayAssumption`: an index is in `-2^63 .. 2^63 - 1`, and a negative one satisfies `L <= i + 2^64`. The code justifies it: an `i32` is at least `-2^31`, and `$l` is at most `isize::MAX < 2^63`, so a sign-extended negative index is never below `$l`.

`ArrayProofs.WordsRoundTripHolds` is a fact about the conversion operator, for every length `L`, every array content and each word size of 4, 8 and 16 bytes. `to_U32s_be` .. `to_u128s_le` return exactly when the word size divides `L`. Otherwise the short last chunk indexes past `Seq::new($l / K)` and panics. When they return, `to_bytes_be` of the `L / K` words gives the bytes back, each word's bytes reversed for the little-endian variants. The proof splits on whether the word size divides `L`, and reads each byte back through its chunk number and offset. The division facts it needs (`ChunkArith`) are nonlinear in the word size, so they are proved by cases on the three sizes. The `array_words` run checks the same statement (`WordsRoundTrip`) for the array of every reachable state.

Every invariant and action property of a passing run now has a theorem. What stays with TLC:

- The four violation runs (`Shadowing`, `FailFast` and the two array ones). They are counterexamples found on small instances, not theorems.
- The instance-specific facts the passing runs also show: that every action fires and that no state deadlocks.

## Not modelled

- **Spans and diagnostic texts.** Only the number of diagnostics is kept. The derived `PartialEq` used at line 380 also compares spans nested in types; the model cannot distinguish that.
- **Nested tuple patterns.** Pattern elements are identifiers or wildcards.
- **`mutated_vars` and the block's `return_typ`.** The only statement is a let, so these are always empty and Unit.
- **Statement kinds other than let.** The code has `unimplemented!()` for them.
- **`Debug` and `PartialEq` of the arrays** (`array.rs` lines 300-316 and 373-383). Formatting and element-wise equality of the wrapped `[T; $l]`; no property tells them apart from the identity and `=`.
- **Arrays of elements wider than a byte.** The instances are byte arrays (`bytes!`); `from_hex` on them is guarded by the `size_of` check at line 258, which the model keeps as `ElemSize`.
- **`Seq`, `to_array` and the `U32Word` .. `U128Word` types** the conversions use are defined outside `array.rs`; the model keeps only what the conversions need of them (big-endian bytes).

## Plan for later work

- A reference run checking `is_copy` and `equal_types` against recursive definitions over all small trees.
- A property that an owned non-copy value is never obtained from a borrowed one. Indexing a borrowed `Seq<Seq<_>>` returns the element Consumed (line 304).
- A property relating `fnCtx` to the accepted items.
- A refinement of the array model by an abstract specification of a fixed-length container.
