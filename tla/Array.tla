------------------------------- MODULE Array -------------------------------
(***************************************************************************)
(* The fixed-length arrays of hacspec (src/hacspec/src/array.rs): the      *)
(* type $name(pub [$t; $l]) that the macros _array_base!, _secret_array!,  *)
(* _public_array!, array!, bytes! and both_arrays! generate, and every    *)
(* operation on it.                                                        *)
(*                                                                         *)
(* An array is a value: every operation is a function of its arguments    *)
(* (and of self), so one call from every small array value covers what a   *)
(* sequence of calls can do.  The specification takes one call from an     *)
(* arbitrary array (any array is reachable through from_array) and ends   *)
(* in "returned" or "panicked".  The build is a constant of the run:       *)
(* debug_assert! is checked in a debug build only, and usize arithmetic   *)
(* panics on overflow in a debug build and wraps in a release build.      *)
(*                                                                         *)
(* An element is a natural number (the value of $t).  A hex string is a    *)
(* sequence of one-character strings.  A machine word made by              *)
(* U32_from_be_bytes, u64::from_le_bytes and the like is represented by    *)
(* its big-endian bytes: a number in base 256 written as its K digits.    *)
(* This keeps u64 and u128 words within TLC's integers.                   *)
(***************************************************************************)
EXTENDS Integers, Sequences

CONSTANTS
  L,         \* $l, the length of the array type
  ElemSize,  \* core::mem::size_of::<$t>()
  Default,   \* <$t>::default()
  InVals,    \* element values that callers pass in
  Ins,       \* slices, Vecs and Seqs that callers pass in, as sequences
  Starts,    \* usize positions, range ends and lengths that callers pass in
  Idxs,      \* indices of type usize, u8, u32 or i32 that callers pass in
  HexIns,    \* strings passed to from_hex, as sequences of characters
  Word       \* the number of usize values: 2^64 on the targets

(* The instances are byte arrays (bytes!, public_bytes!), the only ones     *)
(* with to_hex and the word conversions; element values are bytes.  An    *)
(* index is at least i32::MIN = -2^31 and $l at most isize::MAX < 2^63, so *)
(* a negative index cast to usize (i + 2^64) is never below $l.            *)
ASSUME ArrayAssumption ==
  /\ L \in Nat /\ ElemSize \in Nat \ {0}
  /\ Default \in 0 .. 255 /\ InVals \subseteq 0 .. 255
  /\ Ins \subseteq Seq(InVals) /\ HexIns \subseteq Seq(STRING)
  /\ Starts \subseteq Nat /\ Idxs \subseteq Int
  /\ Word \in Nat /\ \A s \in Starts : s < Word
  /\ \A i \in Idxs : -Word < i /\ i < Word /\ (i < 0 => L <= i + Word)
  /\ \A s \in Starts, v \in Ins : s + Len(v) + L < Word

VARIABLES
  debug,   \* TRUE in a debug build (debug_assert! and overflow checks on)
  arr,     \* the array self, a function on 0 .. L-1
  status,  \* "ready" before the call, then "returned" or "panicked"
  call     \* the call that was made: its name and its arguments

vars == <<debug, arr, status, call>>

-----------------------------------------------------------------------------
(* The outcome of a call: a returned value, or a panic.                   *)
Ret(x) == [ok |-> TRUE, val |-> x]
Panic == [ok |-> FALSE, val |-> <<>>]

Least(a, b) == IF a <= b THEN a ELSE b

(* debug_assert!(c): the call goes on when c holds or in a release build. *)
Asserted(c) == ~debug \/ c

(* Self::new() and Self::default(): every element is <$t>::default(). *)
Zero == [k \in 0 .. L - 1 |-> Default]

(* Mutant: the bound check lets one element too many through, dropping it. *)
StoreLoose(a, base, xs) ==
  IF Len(xs) = 0 \/ base + Len(xs) <= L + 1
    THEN Ret([k \in 0 .. L - 1 |->
                IF base <= k /\ k < base + Len(xs) THEN xs[k - base + 1]
                                                   ELSE a[k]])
    ELSE Panic

(* Mutant: the copy is built 1-based, like a Seq, instead of on 0 .. $l-1. *)
StoreOneBased(a, base, xs) ==
  IF Len(xs) = 0 \/ base + Len(xs) <= L
    THEN Ret([k \in 1 .. L |->
                IF base < k /\ k <= base + Len(xs) THEN xs[k - base]
                                                   ELSE a[k - 1]])
    ELSE Panic

(* for (i, x) in xs.iter().enumerate() { a[base + i] = *x }.  The first    *)
(* index past the end panics, so the loop writes every element or panics  *)
(* (the moved self, or the local tmp, is then lost).  base + i cannot wrap *)
(* to a valid index: the loop has panicked at base + i - 1 >= L first.     *)
Store(a, base, xs) ==
  IF Len(xs) = 0 \/ base + Len(xs) <= L
    THEN Ret([k \in 0 .. L - 1 |->
                IF base <= k /\ k < base + Len(xs) THEN xs[k - base + 1]
                                                   ELSE a[k]])
    ELSE Panic

(* from_slice, copy_pad, from_vec and from_seq: debug_assert!(len <= $l),  *)
(* then copy into a default array.                                         *)
FromSliceR(v) == IF Asserted(Len(v) <= L) THEN Store(Zero, 0, v) ELSE Panic

(* copy: debug_assert!(v.len() == $l), then copy into a default array.     *)
CopyR(v) == IF Asserted(Len(v) = L) THEN Store(Zero, 0, v) ELSE Panic

(* from_sub_pad: r.zip(input.iter().skip(r.start).take(r.end - r.start)),   *)
(* writing a[i - r.start].  r.end - r.start underflows when r.end <        *)
(* r.start: a debug build panics; a release build takes a huge count, but  *)
(* the range r is then empty and nothing is written.                       *)
FromSubPadR(input, s, e) ==
  LET count == IF e >= s THEN Least(e - s, Len(input) - Least(s, Len(input)))
                         ELSE 0
  IN  IF debug /\ e < s THEN Panic
                        ELSE Store(Zero, 0, SubSeq(input, s + 1, s + count))

(* from_sub: debug_assert!($l == r.end - r.start), then from_sub_pad.      *)
FromSubR(input, s, e) ==
  IF Asserted(e >= s /\ L = e - s) THEN FromSubPadR(input, s, e) ELSE Panic

(* update: debug_assert!(self.len() >= start + v.len()) (an overflow of   *)
(* the sum also panics in a debug build), then the write loop.             *)
UpdateR(a, start, v) ==
  IF Asserted(L >= start + Len(v)) THEN Store(a, start, v) ELSE Panic

(* update_sub: two debug_assert!s, then v.iter().skip(start_in).take(len)  *)
(* written from start_out.                                                 *)
UpdateSubR(a, so, v, si, n) ==
  IF Asserted(L >= so + n /\ Len(v) >= si + n)
    THEN Store(a, so, SubSeq(v, si + 1, Least(si + n, Len(v))))
    ELSE Panic

(* i as usize for an index of type usize, u8, u32 or i32: a negative i32  *)
(* is sign-extended, i.e. taken modulo 2^64.                               *)
CastIndex(i) == i % Word

(* Index and IndexMut: &self.0[i as usize] panics past the end.            *)
GetR(a, i) == IF CastIndex(i) < L THEN Ret(a[CastIndex(i)]) ELSE Panic
IndexMutR(a, i, x) ==
  IF CastIndex(i) < L THEN Ret([a EXCEPT ![CastIndex(i)] = x]) ELSE Panic

(* self.0.chunks(c): consecutive blocks of c elements, the last one        *)
(* shorter; slice::chunks panics when c = 0.                               *)
ChunksOf(a, c) ==
  [i \in 1 .. (L + c - 1) \div c |->
     [j \in 1 .. Least(c, L - (i - 1) * c) |-> a[(i - 1) * c + j - 1]]]
ChunksR(a, c) == IF c = 0 THEN Panic ELSE Ret(ChunksOf(a, c))

(* Mutant: the output index is transposed, i + j * $l. *)
ToBytesBeTransposed(w, n, F) ==
  [k \in 0 .. n * F - 1 |-> w[k % n][(k \div n) + 1]]

(* to_bytes_be of an array whose elements are words of F bytes:            *)
(* out[i * F + j] = self[i].to_be_bytes()[j].                              *)
ToBytesBe(w, n, F) ==
  [k \in 0 .. n * F - 1 |-> LET i == k \div F
                                j == k % F
                            IN  w[i][j + 1]]

(* to_U32s_be .. to_U128s_le of array!(.., U8): out = Seq::new($l / K);    *)
(* for (i, block) in self.0.chunks(K).enumerate(), debug_assert!(block.len *)
(* () == K) and out[i] = U<K>_from_{be,le}_bytes(U<K>Word::from_slice(block)).*)
(* The right-hand side is evaluated first; a short last block (when $l % K *)
(* # 0) has index $l / K, past the end of out, so it panics in both        *)
(* builds.  A little-endian word has the block's bytes reversed as its     *)
(* big-endian bytes.                                                       *)
ToWordsR(a, K, le) ==
  LET n      == L \div K
      blocks == ChunksOf(a, K)
      word(b) == IF le THEN [j \in 1 .. Len(b) |-> b[Len(b) - j + 1]] ELSE b
  IN  IF \E i \in 1 .. Len(blocks) :
            ~Asserted(Len(blocks[i]) = K) \/ i > n
        THEN Panic
        ELSE Ret([i \in 1 .. n |-> word(blocks[i])])

(* to_u32s_be .. to_u128s_le of array!(.., u8): the same loop with         *)
(* u32::from_be_bytes(to_array(block)); to_array is reached on a short     *)
(* block only on the path that panics at out[i] anyway.                    *)
ToWordsPublicR(a, K, le) == ToWordsR(a, K, le)

(* The characters of hex strings. *)
LowerDigits == <<"0", "1", "2", "3", "4", "5", "6", "7",
                 "8", "9", "a", "b", "c", "d", "e", "f">>
UpperDigits == <<"A", "B", "C", "D", "E", "F">>
IsHexDigit(c) ==
  \/ \E d \in 1 .. 16 : LowerDigits[d] = c
  \/ \E d \in 1 .. 6 : UpperDigits[d] = c
DigitValue(c) ==
  IF \E d \in 1 .. 16 : LowerDigits[d] = c
    THEN (CHOOSE d \in 1 .. 16 : LowerDigits[d] = c) - 1
    ELSE (CHOOSE d \in 1 .. 6 : UpperDigits[d] = c) + 9

(* Mutant: the two digits of a pair are read in the wrong order. *)
ByteOfSwapped(c1, c2) ==
  CASE IsHexDigit(c1) /\ IsHexDigit(c2) -> Ret(16 * DigitValue(c2) + DigitValue(c1))
    [] c1 = "+" /\ IsHexDigit(c2)      -> Ret(DigitValue(c2))
    [] OTHER                           -> Panic

(* u8::from_str_radix(&s[i..i + 2], 16): digits of either case, after an  *)
(* optional leading '+' (which the standard library accepts for every      *)
(* integer type).  Two hex digits never overflow u8.                       *)
ByteOf(c1, c2) ==
  CASE IsHexDigit(c1) /\ IsHexDigit(c2) -> Ret(16 * DigitValue(c1) + DigitValue(c2))
    [] c1 = "+" /\ IsHexDigit(c2)      -> Ret(DigitValue(c2))
    [] OTHER                           -> Panic

(* hex_string_to_vec: debug_assert!(s.len() % size_of::<$t>() == 0); the   *)
(* pairs starting at 0, 2, 4, ..; &s[i..i + 2] panics on an odd length and *)
(* .expect panics on the first pair that does not parse.                   *)
HexToVec(s) ==
  IF /\ Asserted(Len(s) % ElemSize = 0)
     /\ Len(s) % 2 = 0
     /\ \A k \in 1 .. Len(s) \div 2 : ByteOf(s[2 * k - 1], s[2 * k]).ok
    THEN Ret([k \in 1 .. Len(s) \div 2 |-> ByteOf(s[2 * k - 1], s[2 * k]).val])
    ELSE Panic

(* from_hex: debug_assert!(v.len() == $l), then o[i] = v[i] for i < $l,   *)
(* which panics when v is shorter and ignores the rest when it is longer.  *)
FromHexR(s) ==
  LET v == HexToVec(s)
  IN  IF v.ok /\ Asserted(Len(v.val) = L) /\ Len(v.val) >= L
        THEN Ret([i \in 0 .. L - 1 |-> v.val[i + 1]])
        ELSE Panic

(* to_hex of a byte array: format!("{:02x}", b) for every byte, joined.    *)
ToHex(a) ==
  [k \in 1 .. 2 * L |-> LET b == a[(k - 1) \div 2]
                        IN  IF k % 2 = 1 THEN LowerDigits[b \div 16 + 1]
                                         ELSE LowerDigits[(b % 16) + 1]]

-----------------------------------------------------------------------------
(* The state machine: one call on an arbitrary array, in either build.    *)
Arrays == [0 .. L - 1 -> InVals]

Init ==
  /\ debug \in BOOLEAN
  /\ arr \in Arrays
  /\ status = "ready"
  /\ call = [op |-> "none"]

(* A call that yields a new array (self is consumed or not used).         *)
Return(c, r) ==
  /\ status = "ready"
  /\ status' = IF r.ok THEN "returned" ELSE "panicked"
  /\ arr' = IF r.ok THEN r.val ELSE arr
  /\ call' = c
  /\ UNCHANGED debug

(* A call that reads self and leaves it as it is.                         *)
Query(c, r) ==
  /\ status = "ready"
  /\ status' = IF r.ok THEN "returned" ELSE "panicked"
  /\ call' = c
  /\ UNCHANGED <<debug, arr>>

FromArray == \E v \in Arrays : Return([op |-> "from_array"], Ret(v))
New == Return([op |-> "new"], Ret(Zero))
FromSlice == \E v \in Ins : Return([op |-> "from_slice", v |-> v], FromSliceR(v))
FromSubPad ==
  \E v \in Ins, s, e \in Starts :
    Return([op |-> "from_sub_pad", v |-> v, s |-> s, e |-> e], FromSubPadR(v, s, e))
FromSub ==
  \E v \in Ins, s, e \in Starts :
    Return([op |-> "from_sub", v |-> v, s |-> s, e |-> e], FromSubR(v, s, e))
CopyPad == \E v \in Ins : Return([op |-> "copy_pad", v |-> v], FromSliceR(v))
Copy == \E v \in Ins : Return([op |-> "copy", v |-> v], CopyR(v))
Update ==
  \E s \in Starts, v \in Ins :
    Return([op |-> "update", s |-> s, v |-> v], UpdateR(arr, s, v))
UpdateSub ==
  \E so \in Starts, v \in Ins, si, n \in Starts :
    Return([op |-> "update_sub", so |-> so, v |-> v, si |-> si, n |-> n],
           UpdateSubR(arr, so, v, si, n))
Index == \E i \in Idxs : Query([op |-> "index", i |-> i], GetR(arr, i))
IndexMut ==
  \E i \in Idxs, x \in InVals :
    Return([op |-> "index_mut", i |-> i, x |-> x], IndexMutR(arr, i, x))
Chunks == \E c \in 0 .. L + 1 : Query([op |-> "chunks", c |-> c], ChunksR(arr, c))
FromVec == \E v \in Ins : Return([op |-> "from_vec", v |-> v], FromSliceR(v))

(* get_random_vec($l) gives $l random values, copied with copy_from_slice. *)
Random == \E v \in Arrays : Return([op |-> "random"], Ret(v))

FromHex == \E s \in HexIns : Return([op |-> "from_hex", s |-> s], FromHexR(s))

(* from_public_slice: debug_assert!(v.len() <= $l), classify, from_vec.    *)
FromPublicSlice ==
  \E v \in Ins : Return([op |-> "from_public_slice", v |-> v], FromSliceR(v))

(* from_public_array: debug_assert!(v.len() == $l) on a [$tbase; $l],     *)
(* which always holds, classify, from_vec.  classify keeps the value.      *)
FromPublicArray ==
  \E v \in Arrays :
    Return([op |-> "from_public_array"], FromSliceR([k \in 1 .. L |-> v[k - 1]]))

(* both_arrays!: from_public and from_secret_declassify take the array of *)
(* the other type, classify or declassify each element, then from_vec.     *)
FromOtherArray ==
  \E v \in Arrays :
    Return([op |-> "from_other_array"], FromSliceR([k \in 1 .. L |-> v[k - 1]]))

ToWords ==
  \E K \in {4, 8, 16}, le \in BOOLEAN :
    Query([op |-> "to_words", K |-> K, le |-> le], ToWordsR(arr, K, le))
ToWordsPublic ==
  \E K \in {4, 8, 16}, le \in BOOLEAN :
    Query([op |-> "to_words_public", K |-> K, le |-> le], ToWordsPublicR(arr, K, le))

(* After the call the program goes on with the result; nothing else is    *)
(* done to this array.                                                     *)
Done == status # "ready" /\ UNCHANGED vars

Next ==
  \/ FromArray \/ New \/ FromSlice \/ FromSubPad \/ FromSub \/ CopyPad
  \/ Copy \/ Update \/ UpdateSub \/ Index \/ IndexMut \/ Chunks \/ FromVec
  \/ Random \/ FromHex \/ FromPublicSlice \/ FromPublicArray \/ FromOtherArray
  \/ ToWords
  \/ ToWordsPublic \/ Done

Spec == Init /\ [][Next]_vars

-----------------------------------------------------------------------------
TypeOK ==
  /\ debug \in BOOLEAN
  /\ arr \in [0 .. L - 1 -> Nat]
  /\ status \in {"ready", "returned", "panicked"}
  /\ call.op \in {"none", "from_array", "new", "from_sub_pad", "from_sub",
                  "from_slice", "copy_pad", "copy", "update", "update_sub",
                  "index", "index_mut", "chunks", "from_vec", "random",
                  "from_hex", "from_public_slice", "from_public_array",
                  "from_other_array",
                  "to_words", "to_words_public"}

(* update and IndexMut, in either build: a call that returns wrote every  *)
(* element it was given, at the place it was given, and nothing else; an   *)
(* update that does not fit, or an index past the end (a negative i32      *)
(* included), never returns a truncated or misplaced write.               *)
WritesExact ==
  status' = "returned" =>
       /\ call'.op = "update" =>
            LET s == call'.s
                v == call'.v
            IN  /\ v # <<>> => s + Len(v) <= L
                /\ \A k \in 0 .. L - 1 :
                     arr'[k] = IF k - s + 1 \in 1 .. Len(v) THEN v[k - s + 1]
                                                           ELSE arr[k]
       /\ call'.op = "index_mut" =>
            /\ call'.i \in 0 .. L - 1
            /\ arr' = [arr EXCEPT ![call'.i] = call'.x]

(* Every step of the call is such a write: update and IndexMut never      *)
(* return a partial, shifted or out-of-bounds write.                       *)
ReturnedWritesExact == [][WritesExact]_vars

(* to_hex and from_hex on a byte array: parsing the string to_hex prints   *)
(* gives the array back, in either build.                                  *)
HexRoundTrip == FromHexR(ToHex(arr)) = Ret(arr)

(* to_U32s_be .. to_U128s_le, in either build: the conversion succeeds     *)
(* exactly when $l is a multiple of the word size, and to_bytes_be of the  *)
(* words gives the bytes back (each block reversed for little-endian).    *)
WordsRoundTrip ==
  \A K \in {4, 8, 16}, le \in BOOLEAN :
    LET w == ToWordsR(arr, K, le)
        n == L \div K
    IN  /\ w.ok <=> (L % K = 0)
        /\ w.ok =>
             ToBytesBe([i \in 0 .. n - 1 |-> w.val[i + 1]], n, K)
               = [k \in 0 .. L - 1 |->
                    IF le THEN arr[(k \div K) * K + (K - 1 - (k % K))] ELSE arr[k]]

(* update_sub(start_out, v, start_in, len): a call that returns copied     *)
(* len elements, v[start_in .. start_in + len - 1], to start_out; it never *)
(* returns having copied fewer.                                            *)
UpdateSubWritesLen ==
  [][status' = "returned" /\ call'.op = "update_sub" /\ call'.n > 0 =>
       /\ call'.si + call'.n <= Len(call'.v)
       /\ \A k \in 0 .. call'.n - 1 : arr'[call'.so + k] = call'.v[call'.si + k + 1]]_vars

(* from_hex ("Read hex string to Bytes"): a string it accepts consists of   *)
(* hex digits only, like every string to_hex prints.                        *)
FromHexOnlyHexDigits ==
  [][status' = "returned" /\ call'.op = "from_hex" =>
       \A k \in 1 .. Len(call'.s) : IsHexDigit(call'.s[k])]_vars
=============================================================================
