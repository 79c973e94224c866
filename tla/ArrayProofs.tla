---------------------------- MODULE ArrayProofs -----------------------------
(***************************************************************************)
(* Proofs about the arrays of Array, for every length $l: to_hex and       *)
(* from_hex are inverse on byte arrays, and every call keeps the array a   *)
(* byte array.                                                             *)
(***************************************************************************)
EXTENDS Array, SequenceTheorems, TLAPS

Bytes == 0 .. 255

(* A byte array of the type, and a call outcome that is one when it returns. *)
ByteArray(x) == x \in [0 .. L - 1 -> Bytes]
ByteResult(r) == r.ok => ByteArray(r.val)

-----------------------------------------------------------------------------
(* Hex digits                                                              *)

(* The sixteen lower-case digits are distinct. *)
LEMMA LowerDigitsDistinct ==
  \A d, e \in 1 .. 16 : LowerDigits[d] = LowerDigits[e] => d = e
BY DEF LowerDigits

(* A digit that to_hex prints is a hex digit whose value is its position. *)
LEMMA LowerDigitValue ==
  ASSUME NEW n \in 0 .. 15
  PROVE  /\ IsHexDigit(LowerDigits[n + 1])
         /\ DigitValue(LowerDigits[n + 1]) = n
<1> DEFINE c == LowerDigits[n + 1]
           pos == CHOOSE e \in 1 .. 16 : LowerDigits[e] = c
<1>1. \E e \in 1 .. 16 : LowerDigits[e] = c
  OBVIOUS
<1>2. pos = n + 1
  BY LowerDigitsDistinct
<1>3. IsHexDigit(c)
  BY <1>1 DEF IsHexDigit
<1>4. DigitValue(c) = pos - 1
  BY <1>1 DEF DigitValue
<1> HIDE DEF pos
<1>5. DigitValue(c) = n
  BY <1>2, <1>4
<1> QED BY <1>3, <1>5
(* The two digits to_hex prints for a byte parse back to the byte. *)
LEMMA ByteOfPrinted ==
  ASSUME NEW b \in Bytes
  PROVE  ByteOf(LowerDigits[b \div 16 + 1], LowerDigits[(b % 16) + 1]) = Ret(b)
<1> DEFINE hi == b \div 16
           lo == b % 16
<1>1. hi \in 0 .. 15 /\ lo \in 0 .. 15 /\ 16 * hi + lo = b
  BY DEF Bytes
<1>2. /\ IsHexDigit(LowerDigits[hi + 1]) /\ DigitValue(LowerDigits[hi + 1]) = hi
      /\ IsHexDigit(LowerDigits[lo + 1]) /\ DigitValue(LowerDigits[lo + 1]) = lo
  BY <1>1, LowerDigitValue
<1>3. LowerDigits[hi + 1] # "+"
  <2>1. \A d \in 1 .. 16 : LowerDigits[d] # "+"
    BY DEF LowerDigits
  <2> QED BY <1>1, <2>1
<1> HIDE DEF hi, lo
<1>4. ByteOf(LowerDigits[hi + 1], LowerDigits[lo + 1]) = Ret(16 * hi + lo)
  BY <1>2, <1>3 DEF ByteOf
<1> QED BY <1>1, <1>4 DEF hi, lo

-----------------------------------------------------------------------------
(* to_hex and from_hex                                                     *)

(* The string to_hex prints: twice as long as the array, with the digits   *)
(* of element k - 1 at positions 2k - 1 and 2k.                            *)
LEMMA ToHexShape ==
  ASSUME NEW a \in [0 .. L - 1 -> Bytes]
  PROVE  /\ Len(ToHex(a)) = 2 * L
         /\ \A k \in 1 .. L :
              /\ ToHex(a)[2 * k - 1] = LowerDigits[a[k - 1] \div 16 + 1]
              /\ ToHex(a)[2 * k] = LowerDigits[(a[k - 1] % 16) + 1]
<1>1. L \in Nat
  BY ArrayAssumption
<1>2. Len(ToHex(a)) = 2 * L
  BY <1>1 DEF ToHex
<1>3. ASSUME NEW k \in 1 .. L
      PROVE  /\ ToHex(a)[2 * k - 1] = LowerDigits[a[k - 1] \div 16 + 1]
             /\ ToHex(a)[2 * k] = LowerDigits[(a[k - 1] % 16) + 1]
  <2>1. 2 * k - 1 \in 1 .. 2 * L /\ 2 * k \in 1 .. 2 * L
    BY <1>1
  <2>2. (2 * k - 1 - 1) \div 2 = k - 1 /\ (2 * k - 1) % 2 = 1
    BY <1>1
  <2>3. (2 * k - 1) \div 2 = k - 1 /\ (2 * k) % 2 = 0
    BY <1>1
  <2> QED BY <2>1, <2>2, <2>3 DEF ToHex
<1> QED BY <1>2, <1>3

(* hex_string_to_vec reads back the bytes of the string to_hex prints, in   *)
(* either build, when the elements are bytes.                              *)
LEMMA HexToVecPrinted ==
  ASSUME ElemSize = 1, NEW a \in [0 .. L - 1 -> Bytes]
  PROVE  HexToVec(ToHex(a)) = Ret([k \in 1 .. L |-> a[k - 1]])
<1>1. L \in Nat /\ Len(ToHex(a)) = 2 * L
  BY ToHexShape, ArrayAssumption
<1>2. Asserted(Len(ToHex(a)) % ElemSize = 0) /\ Len(ToHex(a)) % 2 = 0 /\ Len(ToHex(a)) \div 2 = L
  BY <1>1 DEF Asserted
<1>3. \A k \in 1 .. L : ByteOf(ToHex(a)[2 * k - 1], ToHex(a)[2 * k]) = Ret(a[k - 1])
  <2> SUFFICES ASSUME NEW k \in 1 .. L
               PROVE  ByteOf(ToHex(a)[2 * k - 1], ToHex(a)[2 * k]) = Ret(a[k - 1])
    OBVIOUS
  <2>1. a[k - 1] \in Bytes
    BY <1>1
  <2>2. ToHex(a)[2 * k - 1] = LowerDigits[a[k - 1] \div 16 + 1]
        /\ ToHex(a)[2 * k] = LowerDigits[(a[k - 1] % 16) + 1]
    BY ToHexShape
  <2> QED BY <2>1, <2>2, ByteOfPrinted
<1>4. \A k \in 1 .. Len(ToHex(a)) \div 2 :
        /\ ByteOf(ToHex(a)[2 * k - 1], ToHex(a)[2 * k]).ok
        /\ ByteOf(ToHex(a)[2 * k - 1], ToHex(a)[2 * k]).val = a[k - 1]
  <2> SUFFICES ASSUME NEW k \in 1 .. Len(ToHex(a)) \div 2
               PROVE  /\ ByteOf(ToHex(a)[2 * k - 1], ToHex(a)[2 * k]).ok
                      /\ ByteOf(ToHex(a)[2 * k - 1], ToHex(a)[2 * k]).val = a[k - 1]
    OBVIOUS
  <2>1. k \in 1 .. L
    BY <1>2
  <2>2. ByteOf(ToHex(a)[2 * k - 1], ToHex(a)[2 * k]) = Ret(a[k - 1])
    BY <2>1, <1>3
  <2> QED BY <2>2 DEF Ret
<1>5. [k \in 1 .. Len(ToHex(a)) \div 2 |->
         ByteOf(ToHex(a)[2 * k - 1], ToHex(a)[2 * k]).val]
        = [k \in 1 .. L |-> a[k - 1]]
  BY <1>2, <1>4
<1> QED BY <1>2, <1>4, <1>5 DEF HexToVec

(* from_hex(to_hex(a)) = a for every byte array a, in either build. *)
LEMMA FromHexPrinted ==
  ASSUME ElemSize = 1, NEW a \in [0 .. L - 1 -> Bytes]
  PROVE  FromHexR(ToHex(a)) = Ret(a)
<1>1. L \in Nat
  BY ArrayAssumption
<1>2. HexToVec(ToHex(a)) = Ret([k \in 1 .. L |-> a[k - 1]])
  BY HexToVecPrinted
<1>3. /\ HexToVec(ToHex(a)).ok
      /\ Len(HexToVec(ToHex(a)).val) = L
      /\ \A i \in 0 .. L - 1 : HexToVec(ToHex(a)).val[i + 1] = a[i]
  <2>1. HexToVec(ToHex(a)).ok /\ HexToVec(ToHex(a)).val = [k \in 1 .. L |-> a[k - 1]]
    BY <1>2 DEF Ret
  <2>2. Len([k \in 1 .. L |-> a[k - 1]]) = L
    BY <1>1
  <2>3. \A i \in 0 .. L - 1 : [k \in 1 .. L |-> a[k - 1]][i + 1] = a[i]
    BY <1>1
  <2> QED BY <2>1, <2>2, <2>3
<1>4. [i \in 0 .. L - 1 |-> HexToVec(ToHex(a)).val[i + 1]] = a
  BY <1>3
<1> QED BY <1>3, <1>4 DEF FromHexR, Asserted

-----------------------------------------------------------------------------
(* Every call returns a byte array                                         *)

(* The sequences callers pass in hold bytes. *)
LEMMA InsBytes == \A v \in Ins : v \in Seq(Bytes)
<1>1. InVals \subseteq Bytes /\ Ins \subseteq Seq(InVals)
  BY ArrayAssumption DEF Bytes
<1>2. Seq(InVals) \subseteq Seq(Bytes)
  BY <1>1, SeqMonotonic
<1> QED BY <1>1, <1>2

(* The write loop keeps a byte array a byte array. *)
LEMMA StoreBytes ==
  ASSUME NEW a, ByteArray(a), NEW base \in Nat, NEW xs \in Seq(Bytes)
  PROVE  ByteResult(Store(a, base, xs))
<1>1. xs \in [1 .. Len(xs) -> Bytes] /\ Len(xs) \in Nat
  BY LenProperties
<1> QED BY <1>1 DEF Store, ByteResult, ByteArray, Ret, Panic

(* A slice of a byte sequence within its bounds is a byte sequence. *)
LEMMA SubSeqBytes ==
  ASSUME NEW v \in Seq(Bytes), NEW m \in Nat \ {0}, NEW n \in Int, n <= Len(v)
  PROVE  SubSeq(v, m, n) \in Seq(Bytes)
<1>1. \A i \in m .. n : v[i] \in Bytes
  BY ElementOfSeq, LenProperties
<1> QED BY <1>1, SubSeqProperties

LEMMA ZeroBytes == ByteArray(Zero)
BY ArrayAssumption DEF ByteArray, Zero, Bytes

LEMMA FromSliceBytes ==
  ASSUME NEW v \in Seq(Bytes)
  PROVE  ByteResult(FromSliceR(v)) /\ ByteResult(CopyR(v))
BY ZeroBytes, StoreBytes DEF FromSliceR, CopyR, ByteResult, Panic

LEMMA FromSubPadBytes ==
  ASSUME NEW v \in Seq(Bytes), NEW s \in Nat, NEW e \in Nat
  PROVE  ByteResult(FromSubPadR(v, s, e)) /\ ByteResult(FromSubR(v, s, e))
<1> DEFINE count == IF e >= s THEN Least(e - s, Len(v) - Least(s, Len(v))) ELSE 0
<1>1. Len(v) \in Nat /\ count \in Nat /\ (s + count <= Len(v) \/ count = 0)
  BY LenProperties DEF Least
<1>2. SubSeq(v, s + 1, s + count) \in Seq(Bytes)
  <2>1. CASE count = 0
    <3>1. SubSeq(v, s + 1, s + count) = << >>
      BY <2>1, SubSeqEmpty
    <3> QED BY <3>1, EmptySeq
  <2>2. CASE count # 0
    BY <1>1, <2>2, SubSeqBytes
  <2> QED BY <2>1, <2>2
<1>3. ByteResult(FromSubPadR(v, s, e))
  <2>1. ByteResult(Store(Zero, 0, SubSeq(v, s + 1, s + count)))
    BY <1>2, ZeroBytes, StoreBytes
  <2> QED BY <2>1 DEF FromSubPadR, ByteResult, Panic
<1> QED BY <1>3 DEF FromSubR, ByteResult, Panic

LEMMA UpdateBytes ==
  ASSUME NEW a, ByteArray(a), NEW s \in Nat, NEW v \in Seq(Bytes),
         NEW si \in Nat, NEW n \in Nat
  PROVE  ByteResult(UpdateR(a, s, v)) /\ ByteResult(UpdateSubR(a, s, v, si, n))
<1>1. ByteResult(UpdateR(a, s, v))
  BY StoreBytes DEF UpdateR, ByteResult, Panic
<1>2. SubSeq(v, si + 1, Least(si + n, Len(v))) \in Seq(Bytes)
  BY LenProperties, SubSeqBytes DEF Least
<1>3. ByteResult(UpdateSubR(a, s, v, si, n))
  BY <1>2, StoreBytes DEF UpdateSubR, ByteResult, Panic
<1> QED BY <1>1, <1>3

LEMMA IndexMutBytes ==
  ASSUME NEW a, ByteArray(a), NEW i \in Idxs, NEW x \in InVals
  PROVE  ByteResult(IndexMutR(a, i, x))
BY ArrayAssumption DEF IndexMutR, CastIndex, ByteResult, ByteArray, Ret, Panic, Bytes

(* The value of a hex digit is below 16. *)
LEMMA DigitValueRange ==
  ASSUME NEW c, IsHexDigit(c)
  PROVE  DigitValue(c) \in 0 .. 15
<1> DEFINE lpos == CHOOSE d \in 1 .. 16 : LowerDigits[d] = c
           upos == CHOOSE d \in 1 .. 6 : UpperDigits[d] = c
<1>1. CASE \E d \in 1 .. 16 : LowerDigits[d] = c
  <2>1. lpos \in 1 .. 16
    BY <1>1
  <2>2. DigitValue(c) = lpos - 1
    BY <1>1 DEF DigitValue
  <2> HIDE DEF lpos
  <2> QED BY <2>1, <2>2
<1>2. CASE ~\E d \in 1 .. 16 : LowerDigits[d] = c
  <2>1. \E d \in 1 .. 6 : UpperDigits[d] = c
    BY <1>2 DEF IsHexDigit
  <2>2. upos \in 1 .. 6
    BY <2>1
  <2>3. DigitValue(c) = upos + 9
    BY <1>2 DEF DigitValue
  <2> HIDE DEF upos
  <2> QED BY <2>2, <2>3
<1> QED BY <1>1, <1>2

(* A pair that parses gives a byte. *)
LEMMA ByteOfBytes ==
  ASSUME NEW c1, NEW c2
  PROVE  ByteOf(c1, c2).ok => ByteOf(c1, c2).val \in Bytes
<1>1. CASE IsHexDigit(c1) /\ IsHexDigit(c2)
  <2>1. DigitValue(c1) \in 0 .. 15 /\ DigitValue(c2) \in 0 .. 15
    BY <1>1, DigitValueRange
  <2>3. ByteOf(c1, c2) = Ret(16 * DigitValue(c1) + DigitValue(c2))
        \/ ByteOf(c1, c2) = Ret(DigitValue(c2))
    BY <1>1 DEF ByteOf
  <2> QED BY <2>1, <2>3 DEF Ret, Bytes
<1>2. CASE ~IsHexDigit(c1) /\ c1 = "+" /\ IsHexDigit(c2)
  <2>1. DigitValue(c2) \in 0 .. 15
    BY <1>2, DigitValueRange
  <2>2. ByteOf(c1, c2) = Ret(DigitValue(c2))
    BY <1>2 DEF ByteOf
  <2> QED BY <2>1, <2>2 DEF Ret, Bytes
<1>3. CASE ~(IsHexDigit(c1) /\ IsHexDigit(c2)) /\ ~(c1 = "+" /\ IsHexDigit(c2))
  <2>1. ByteOf(c1, c2) = Panic
    BY <1>3 DEF ByteOf
  <2> QED BY <2>1 DEF Panic
<1> QED BY <1>1, <1>2, <1>3

LEMMA FromHexBytes ==
  ASSUME NEW s \in Seq(STRING)
  PROVE  ByteResult(FromHexR(s))
<1>1. Len(s) \in Nat
  BY LenProperties
<1>2. HexToVec(s).ok => /\ Len(HexToVec(s).val) = Len(s) \div 2
              /\ \A k \in 1 .. Len(s) \div 2 : HexToVec(s).val[k] \in Bytes
  <2>1. \A k \in 1 .. Len(s) \div 2 :
          ByteOf(s[2 * k - 1], s[2 * k]).ok => ByteOf(s[2 * k - 1], s[2 * k]).val \in Bytes
    BY ByteOfBytes
  <2> QED BY <1>1, <2>1 DEF HexToVec, Ret, Panic
<1> QED BY <1>1, <1>2, ArrayAssumption DEF FromHexR, ByteResult, ByteArray, Ret, Panic

-----------------------------------------------------------------------------
(* The specification                                                       *)

(* The array is a byte array. *)
ByteInv == ByteArray(arr)

(* A call that returns a byte array, or panics, leaves a byte array. *)
LEMMA ReturnBytes ==
  ASSUME ByteArray(arr), NEW c, NEW r, ByteResult(r), Return(c, r)
  PROVE  ByteArray(arr')
BY DEF Return, ByteResult

(* A call of every operation on a byte array leaves a byte array: every  *)
(* value it stores comes from the array, the caller's bytes, Default or   *)
(* a parsed pair of hex digits.                                            *)
THEOREM ByteArraysHold == Spec => []ByteInv
<1>1. Init => ByteInv
  BY ArrayAssumption DEF Init, Arrays, ByteInv, ByteArray, Bytes
<1>2. ByteInv /\ [Next]_vars => ByteInv'
  <2> SUFFICES ASSUME ByteArray(arr), [Next]_vars PROVE ByteArray(arr')
    BY DEF ByteInv
  <2>0. \A v \in Arrays : [k \in 1 .. L |-> v[k - 1]] \in Seq(Bytes) /\ ByteArray(v)
    <3> SUFFICES ASSUME NEW v \in Arrays
                 PROVE  [k \in 1 .. L |-> v[k - 1]] \in Seq(Bytes) /\ ByteArray(v)
      OBVIOUS
    <3>a. v \in [0 .. L - 1 -> InVals]
      BY DEF Arrays
    <3>b. InVals \subseteq Bytes /\ L \in Nat
      BY ArrayAssumption DEF Bytes
    <3>0. L \in Nat /\ \A k \in 1 .. L : v[k - 1] \in Bytes
      BY <3>a, <3>b
    <3>1. L \in Nat /\ [k \in 1 .. L |-> v[k - 1]] \in [1 .. L -> Bytes]
      BY <3>0
    <3>2. [k \in 1 .. L |-> v[k - 1]] \in Seq(Bytes)
      BY <3>1, SeqDef
    <3> QED BY <3>2, ArrayAssumption DEF Arrays, ByteArray, Bytes
  <2>1. CASE FromArray
    <3>1. PICK v \in Arrays : Return([op |-> "from_array"], Ret(v))
      BY <2>1 DEF FromArray
    <3> QED BY <3>1, <2>0, ReturnBytes DEF ByteResult, Ret
  <2>2. CASE New
    BY <2>2, ZeroBytes, ReturnBytes DEF New, ByteResult, Ret
  <2>3. CASE FromSlice
    <3>1. PICK v \in Ins : Return([op |-> "from_slice", v |-> v], FromSliceR(v))
      BY <2>3 DEF FromSlice
    <3> QED BY <3>1, InsBytes, FromSliceBytes, ReturnBytes
  <2>4. CASE FromSubPad
    <3>1. PICK v \in Ins, s, e \in Starts :
            Return([op |-> "from_sub_pad", v |-> v, s |-> s, e |-> e], FromSubPadR(v, s, e))
      BY <2>4 DEF FromSubPad
    <3> QED BY <3>1, InsBytes, FromSubPadBytes, ReturnBytes, ArrayAssumption
  <2>5. CASE FromSub
    <3>1. PICK v \in Ins, s, e \in Starts :
            Return([op |-> "from_sub", v |-> v, s |-> s, e |-> e], FromSubR(v, s, e))
      BY <2>5 DEF FromSub
    <3> QED BY <3>1, InsBytes, FromSubPadBytes, ReturnBytes, ArrayAssumption
  <2>6. CASE CopyPad
    <3>1. PICK v \in Ins : Return([op |-> "copy_pad", v |-> v], FromSliceR(v))
      BY <2>6 DEF CopyPad
    <3> QED BY <3>1, InsBytes, FromSliceBytes, ReturnBytes
  <2>7. CASE Copy
    <3>1. PICK v \in Ins : Return([op |-> "copy", v |-> v], CopyR(v))
      BY <2>7 DEF Copy
    <3> QED BY <3>1, InsBytes, FromSliceBytes, ReturnBytes
  <2>8. CASE Update
    <3>1. PICK s \in Starts, v \in Ins :
            Return([op |-> "update", s |-> s, v |-> v], UpdateR(arr, s, v))
      BY <2>8 DEF Update
    <3> QED BY <3>1, InsBytes, UpdateBytes, ReturnBytes, ArrayAssumption
  <2>9. CASE UpdateSub
    <3>1. PICK so \in Starts, v \in Ins, si, n \in Starts :
            Return([op |-> "update_sub", so |-> so, v |-> v, si |-> si, n |-> n],
                   UpdateSubR(arr, so, v, si, n))
      BY <2>9 DEF UpdateSub
    <3> QED BY <3>1, InsBytes, UpdateBytes, ReturnBytes, ArrayAssumption
  <2>10. CASE IndexMut
    <3>1. PICK i \in Idxs, x \in InVals :
            Return([op |-> "index_mut", i |-> i, x |-> x], IndexMutR(arr, i, x))
      BY <2>10 DEF IndexMut
    <3> QED BY <3>1, IndexMutBytes, ReturnBytes
  <2>11. CASE FromVec
    <3>1. PICK v \in Ins : Return([op |-> "from_vec", v |-> v], FromSliceR(v))
      BY <2>11 DEF FromVec
    <3> QED BY <3>1, InsBytes, FromSliceBytes, ReturnBytes
  <2>12. CASE Random
    <3>1. PICK v \in Arrays : Return([op |-> "random"], Ret(v))
      BY <2>12 DEF Random
    <3> QED BY <3>1, <2>0, ReturnBytes DEF ByteResult, Ret
  <2>13. CASE FromHex
    <3>1. PICK s \in HexIns : Return([op |-> "from_hex", s |-> s], FromHexR(s))
      BY <2>13 DEF FromHex
    <3> QED BY <3>1, FromHexBytes, ReturnBytes, ArrayAssumption
  <2>14. CASE FromPublicSlice
    <3>1. PICK v \in Ins : Return([op |-> "from_public_slice", v |-> v], FromSliceR(v))
      BY <2>14 DEF FromPublicSlice
    <3> QED BY <3>1, InsBytes, FromSliceBytes, ReturnBytes
  <2>15. CASE FromPublicArray
    <3>1. PICK v \in Arrays :
            Return([op |-> "from_public_array"], FromSliceR([k \in 1 .. L |-> v[k - 1]]))
      BY <2>15 DEF FromPublicArray
    <3> QED BY <3>1, <2>0, FromSliceBytes, ReturnBytes
  <2>16. CASE FromOtherArray
    <3>1. PICK v \in Arrays :
            Return([op |-> "from_other_array"], FromSliceR([k \in 1 .. L |-> v[k - 1]]))
      BY <2>16 DEF FromOtherArray
    <3> QED BY <3>1, <2>0, FromSliceBytes, ReturnBytes
  <2>17. CASE Index \/ Chunks \/ ToWords \/ ToWordsPublic \/ Done \/ UNCHANGED vars
    BY <2>17 DEF Index, Chunks, ToWords, ToWordsPublic, Done, Query, vars
  <2> QED BY <2>1, <2>2, <2>3, <2>4, <2>5, <2>6, <2>7, <2>8, <2>9, <2>10,
             <2>11, <2>12, <2>13, <2>14, <2>15, <2>16, <2>17 DEF Next
<1> QED BY <1>1, <1>2, PTL DEF Spec

(* HexRoundTrip: on a byte array type, from_hex reads back what to_hex     *)
(* prints, in every state, for every length $l and in either build.        *)
THEOREM HexRoundTripHolds ==
  ASSUME ElemSize = 1
  PROVE  Spec => []HexRoundTrip
<1>1. ByteInv => HexRoundTrip
  BY FromHexPrinted DEF HexRoundTrip, ByteInv, ByteArray
<1> QED BY <1>1, ByteArraysHold, PTL
-----------------------------------------------------------------------------
(* Exact writes                                                            *)

(* The write loop, when it returns, wrote xs from base and left the rest.  *)
LEMMA StoreWrites ==
  ASSUME NEW a, NEW base \in Nat, NEW xs \in Seq(InVals),
         Store(a, base, xs).ok
  PROVE  /\ xs # << >> => base + Len(xs) <= L
         /\ \A k \in 0 .. L - 1 :
              Store(a, base, xs).val[k] =
                IF k - base + 1 \in 1 .. Len(xs) THEN xs[k - base + 1] ELSE a[k]
<1>1. Len(xs) \in Nat /\ (Len(xs) = 0 <=> xs = << >>)
  BY LenProperties, EmptySeq
<1>2. Len(xs) = 0 \/ base + Len(xs) <= L
  BY DEF Store, Panic
<1>3. Store(a, base, xs).val =
        [k \in 0 .. L - 1 |-> IF base <= k /\ k < base + Len(xs) THEN xs[k - base + 1]
                                                                 ELSE a[k]]
  BY <1>2 DEF Store, Ret
<1>4. ASSUME NEW k \in 0 .. L - 1
      PROVE  (base <= k /\ k < base + Len(xs)) <=> (k - base + 1 \in 1 .. Len(xs))
  BY <1>1
<1> QED BY <1>1, <1>2, <1>3, <1>4

(* An index cast to usize is below $l exactly when it is a valid index:   *)
(* a negative i32 lands at or past $l.                                     *)
LEMMA CastIndexValid ==
  ASSUME NEW i \in Idxs, CastIndex(i) < L
  PROVE  i \in 0 .. L - 1 /\ CastIndex(i) = i
<1>1. /\ i \in Int /\ Word \in Nat /\ L \in Nat
      /\ -Word < i /\ i < Word /\ (i < 0 => L <= i + Word)
  BY ArrayAssumption
<1>2. CASE i >= 0
  <2>1. i % Word = i
    BY <1>1, <1>2
  <2> QED BY <1>1, <1>2, <2>1 DEF CastIndex
<1>3. CASE i < 0
  <2>1. i % Word = i + Word
    BY <1>1, <1>3
  <2> QED BY <1>1, <1>3, <2>1 DEF CastIndex
<1> QED BY <1>1, <1>2, <1>3

(* A call whose name is neither update nor index_mut satisfies            *)
(* WritesExact whatever it does to the array.                              *)
LEMMA OtherCallExact ==
  ASSUME call'.op \notin {"update", "index_mut"}
  PROVE  WritesExact
BY DEF WritesExact

(* Every step is an exact write or a stutter: update writes through the   *)
(* loop (StoreWrites), index_mut through a checked cast (CastIndexValid). *)
THEOREM ReturnedWritesExactHolds == Spec => ReturnedWritesExact
<1>1. [Next]_vars => [WritesExact]_vars
  <2> SUFFICES ASSUME [Next]_vars PROVE [WritesExact]_vars
    OBVIOUS
  <2>1. CASE Update
    <3>1. PICK s \in Starts, v \in Ins :
            Return([op |-> "update", s |-> s, v |-> v], UpdateR(arr, s, v))
      BY <2>1 DEF Update
    <3>2. s \in Nat /\ v \in Seq(InVals)
      BY ArrayAssumption
    <3>3. CASE UpdateR(arr, s, v).ok
      <4>a. Store(arr, s, v).ok /\ UpdateR(arr, s, v) = Store(arr, s, v)
        BY <3>3 DEF UpdateR, Panic
      <4>b. arr' = Store(arr, s, v).val /\ call' = [op |-> "update", s |-> s, v |-> v]
        BY <3>1, <4>a DEF Return
      <4>c. /\ v # << >> => s + Len(v) <= L
            /\ \A k \in 0 .. L - 1 :
                 Store(arr, s, v).val[k] =
                   IF k - s + 1 \in 1 .. Len(v) THEN v[k - s + 1] ELSE arr[k]
        BY <4>a, <3>2, StoreWrites
      <4>d. status' = "returned" /\ call'.op = "update" /\ call'.s = s /\ call'.v = v
        BY <3>1, <3>3, <4>b DEF Return
      <4> QED BY <4>b, <4>c, <4>d DEF WritesExact
    <3>4. CASE ~UpdateR(arr, s, v).ok
      BY <3>1, <3>4 DEF Return, WritesExact
    <3> QED BY <3>3, <3>4
  <2>2. CASE IndexMut
    <3>1. PICK i \in Idxs, x \in InVals :
            Return([op |-> "index_mut", i |-> i, x |-> x], IndexMutR(arr, i, x))
      BY <2>2 DEF IndexMut
    <3>3. CASE CastIndex(i) < L
      <4>a. i \in 0 .. L - 1 /\ CastIndex(i) = i
        BY <3>3, CastIndexValid
      <4>b. arr' = [arr EXCEPT ![i] = x] /\ call' = [op |-> "index_mut", i |-> i, x |-> x]
        BY <3>1, <3>3, <4>a DEF Return, IndexMutR, Ret
      <4> QED BY <4>a, <4>b DEF WritesExact
    <3>4. CASE ~(CastIndex(i) < L)
      BY <3>1, <3>4 DEF Return, IndexMutR, Panic, WritesExact
    <3> QED BY <3>3, <3>4
  <2>3. CASE FromArray \/ New \/ FromSlice \/ FromSubPad \/ FromSub \/ CopyPad \/ Copy
    <3>1. call'.op \notin {"update", "index_mut"}
      BY <2>3 DEF FromArray, New, FromSlice, FromSubPad, FromSub, CopyPad, Copy, Return
    <3> QED BY <3>1, OtherCallExact
  <2>4. CASE UpdateSub \/ FromVec \/ Random \/ FromHex
    <3>1. call'.op \notin {"update", "index_mut"}
      BY <2>4 DEF UpdateSub, FromVec, Random, FromHex, Return
    <3> QED BY <3>1, OtherCallExact
  <2>7. CASE FromPublicSlice
    <3>1. call'.op \notin {"update", "index_mut"}
      BY <2>7 DEF FromPublicSlice, Return
    <3> QED BY <3>1, OtherCallExact
  <2>8. CASE FromPublicArray
    <3>1. PICK v \in Arrays :
            Return([op |-> "from_public_array"], FromSliceR([k \in 1 .. L |-> v[k - 1]]))
      BY <2>8 DEF FromPublicArray
    <3>2. call'.op \notin {"update", "index_mut"}
      BY <3>1 DEF Return
    <3> QED BY <3>2, OtherCallExact
  <2>9. CASE FromOtherArray
    <3>1. PICK v \in Arrays :
            Return([op |-> "from_other_array"], FromSliceR([k \in 1 .. L |-> v[k - 1]]))
      BY <2>9 DEF FromOtherArray
    <3>2. call'.op \notin {"update", "index_mut"}
      BY <3>1 DEF Return
    <3> QED BY <3>2, OtherCallExact
  <2>5. CASE Index \/ Chunks \/ ToWords \/ ToWordsPublic
    <3>1. call'.op \notin {"update", "index_mut"}
      BY <2>5 DEF Index, Chunks, ToWords, ToWordsPublic, Query
    <3> QED BY <3>1, OtherCallExact
  <2>6. CASE Done \/ UNCHANGED vars
    BY <2>6 DEF Done, vars
  <2> QED BY <2>1, <2>2, <2>3, <2>4, <2>5, <2>6, <2>7, <2>8, <2>9 DEF Next
<1> QED BY <1>1, PTL DEF Spec, ReturnedWritesExact
-----------------------------------------------------------------------------
(* The type invariant                                                      *)

(* The names of the calls. *)
CallNames ==
  {"none", "from_array", "new", "from_sub_pad", "from_sub",
   "from_slice", "copy_pad", "copy", "update", "update_sub",
   "index", "index_mut", "chunks", "from_vec", "random",
   "from_hex", "from_public_slice", "from_public_array",
   "from_other_array", "to_words", "to_words_public"}

(* TypeOK without the array, which ByteInv covers. *)
CallInv ==
  /\ debug \in BOOLEAN
  /\ status \in {"ready", "returned", "panicked"}
  /\ call.op \in CallNames

(* A call of a known name keeps CallInv, whatever its result. *)
LEMMA CallStep ==
  ASSUME CallInv, NEW c, NEW r, c.op \in CallNames, Return(c, r) \/ Query(c, r)
  PROVE  CallInv'
BY DEF CallInv, Return, Query

(* Array.TypeOK in every state: the array holds bytes (ByteArraysHold),    *)
(* and every action records a call of one of the names.                    *)
THEOREM TypeOKHolds == Spec => []TypeOK
<1>1. Init => CallInv
  BY DEF Init, CallInv, CallNames
<1>2. CallInv /\ [Next]_vars => CallInv'
  <2> SUFFICES ASSUME CallInv, [Next]_vars PROVE CallInv'
    OBVIOUS
  <2>1. CASE FromArray
    <3>1. PICK v \in Arrays : Return([op |-> "from_array"], Ret(v))
      BY <2>1 DEF FromArray
    <3> QED BY <3>1, CallStep DEF CallNames
  <2>2. CASE New
    BY <2>2, CallStep DEF New, CallNames
  <2>3. CASE FromSlice
    <3>1. PICK v \in Ins : Return([op |-> "from_slice", v |-> v], FromSliceR(v))
      BY <2>3 DEF FromSlice
    <3> QED BY <3>1, CallStep DEF CallNames
  <2>4. CASE FromSubPad
    <3>1. PICK v \in Ins, s, e \in Starts :
            Return([op |-> "from_sub_pad", v |-> v, s |-> s, e |-> e], FromSubPadR(v, s, e))
      BY <2>4 DEF FromSubPad
    <3> QED BY <3>1, CallStep DEF CallNames
  <2>5. CASE FromSub
    <3>1. PICK v \in Ins, s, e \in Starts :
            Return([op |-> "from_sub", v |-> v, s |-> s, e |-> e], FromSubR(v, s, e))
      BY <2>5 DEF FromSub
    <3> QED BY <3>1, CallStep DEF CallNames
  <2>6. CASE CopyPad
    <3>1. PICK v \in Ins : Return([op |-> "copy_pad", v |-> v], FromSliceR(v))
      BY <2>6 DEF CopyPad
    <3> QED BY <3>1, CallStep DEF CallNames
  <2>7. CASE Copy
    <3>1. PICK v \in Ins : Return([op |-> "copy", v |-> v], CopyR(v))
      BY <2>7 DEF Copy
    <3> QED BY <3>1, CallStep DEF CallNames
  <2>8. CASE Update
    <3>1. PICK s \in Starts, v \in Ins :
            Return([op |-> "update", s |-> s, v |-> v], UpdateR(arr, s, v))
      BY <2>8 DEF Update
    <3> QED BY <3>1, CallStep DEF CallNames
  <2>9. CASE UpdateSub
    <3>1. PICK so \in Starts, v \in Ins, si, n \in Starts :
            Return([op |-> "update_sub", so |-> so, v |-> v, si |-> si, n |-> n],
                   UpdateSubR(arr, so, v, si, n))
      BY <2>9 DEF UpdateSub
    <3> QED BY <3>1, CallStep DEF CallNames
  <2>10. CASE IndexMut
    <3>1. PICK i \in Idxs, x \in InVals :
            Return([op |-> "index_mut", i |-> i, x |-> x], IndexMutR(arr, i, x))
      BY <2>10 DEF IndexMut
    <3> QED BY <3>1, CallStep DEF CallNames
  <2>11. CASE FromVec
    <3>1. PICK v \in Ins : Return([op |-> "from_vec", v |-> v], FromSliceR(v))
      BY <2>11 DEF FromVec
    <3> QED BY <3>1, CallStep DEF CallNames
  <2>12. CASE Random
    <3>1. PICK v \in Arrays : Return([op |-> "random"], Ret(v))
      BY <2>12 DEF Random
    <3> QED BY <3>1, CallStep DEF CallNames
  <2>13. CASE FromHex
    <3>1. PICK s \in HexIns : Return([op |-> "from_hex", s |-> s], FromHexR(s))
      BY <2>13 DEF FromHex
    <3> QED BY <3>1, CallStep DEF CallNames
  <2>14. CASE FromPublicSlice
    <3>1. PICK v \in Ins : Return([op |-> "from_public_slice", v |-> v], FromSliceR(v))
      BY <2>14 DEF FromPublicSlice
    <3> QED BY <3>1, CallStep DEF CallNames
  <2>15. CASE FromPublicArray
    <3>1. PICK v \in Arrays :
            Return([op |-> "from_public_array"], FromSliceR([k \in 1 .. L |-> v[k - 1]]))
      BY <2>15 DEF FromPublicArray
    <3> QED BY <3>1, CallStep DEF CallNames
  <2>16. CASE FromOtherArray
    <3>1. PICK v \in Arrays :
            Return([op |-> "from_other_array"], FromSliceR([k \in 1 .. L |-> v[k - 1]]))
      BY <2>16 DEF FromOtherArray
    <3> QED BY <3>1, CallStep DEF CallNames
  <2>17. CASE Index
    <3>1. PICK i \in Idxs : Query([op |-> "index", i |-> i], GetR(arr, i))
      BY <2>17 DEF Index
    <3> QED BY <3>1, CallStep DEF CallNames
  <2>18. CASE Chunks
    <3>1. PICK c \in 0 .. L + 1 : Query([op |-> "chunks", c |-> c], ChunksR(arr, c))
      BY <2>18 DEF Chunks
    <3> QED BY <3>1, CallStep DEF CallNames
  <2>19. CASE ToWords
    <3>1. PICK K \in {4, 8, 16}, le \in BOOLEAN :
            Query([op |-> "to_words", K |-> K, le |-> le], ToWordsR(arr, K, le))
      BY <2>19 DEF ToWords
    <3> QED BY <3>1, CallStep DEF CallNames
  <2>20. CASE ToWordsPublic
    <3>1. PICK K \in {4, 8, 16}, le \in BOOLEAN :
            Query([op |-> "to_words_public", K |-> K, le |-> le], ToWordsPublicR(arr, K, le))
      BY <2>20 DEF ToWordsPublic
    <3> QED BY <3>1, CallStep DEF CallNames
  <2>21. CASE Done \/ UNCHANGED vars
    BY <2>21 DEF Done, vars, CallInv
  <2> QED BY <2>1, <2>2, <2>3, <2>4, <2>5, <2>6, <2>7, <2>8, <2>9, <2>10,
             <2>11, <2>12, <2>13, <2>14, <2>15, <2>16, <2>17, <2>18, <2>19,
             <2>20, <2>21 DEF Next
<1>3. ByteInv /\ CallInv => TypeOK
  <2>0. Bytes \subseteq Nat
    BY DEF Bytes
  <2>1. [0 .. L - 1 -> Bytes] \subseteq [0 .. L - 1 -> Nat]
    <3> HIDE DEF Bytes
    <3> QED BY <2>0
  <2> QED BY <2>1 DEF ByteInv, ByteArray, CallInv, CallNames, TypeOK
<1> QED BY <1>1, <1>2, <1>3, ByteArraysHold, PTL DEF Spec
-----------------------------------------------------------------------------
(* Word conversions                                                        *)

(* The chunk arithmetic of to_U32s_be .. to_U128s_le for K-byte words:    *)
(* self.0.chunks(K) has $l / K full blocks when K divides $l, and one      *)
(* short block more otherwise.                                             *)
LEMMA ChunkArith ==
  ASSUME NEW K \in {4, 8, 16}
  PROVE  /\ L % K = 0 => /\ (L + K - 1) \div K = L \div K
                         /\ (L \div K) * K = L
                         /\ \A i \in 1 .. L \div K : Least(K, L - (i - 1) * K) = K
         /\ L % K # 0 => /\ (L + K - 1) \div K = L \div K + 1
                         /\ L \div K \in Nat
         /\ \A k \in Nat : /\ (k \div K) * K + (k % K) = k
                           /\ k % K \in 0 .. K - 1
                           /\ k \div K \in Nat
<1>1. L \in Nat
  BY ArrayAssumption
<1>2. CASE K = 4
  BY <1>1, <1>2 DEF Least
<1>3. CASE K = 8
  BY <1>1, <1>3 DEF Least
<1>4. CASE K = 16
  BY <1>1, <1>4 DEF Least
<1> QED BY <1>2, <1>3, <1>4

(***************************************************************************)
(* to_U32s_be .. to_U128s_le and to_u32s_be .. to_u128s_le, for every    *)
(* length $l, every array content and each word size K of 4, 8 and 16    *)
(* bytes: the conversion returns exactly when K divides $l (otherwise the *)
(* short last chunk indexes past Seq::new($l / K) and panics), and then   *)
(* the $l / K words, printed back with to_bytes_be, give the array's      *)
(* bytes, each K-byte block reversed for the little-endian variants.      *)
(* Array's WordsRoundTrip, checked by the array_words run, is this fact   *)
(* for the array of each state.                                           *)
(***************************************************************************)
THEOREM WordsRoundTripHolds ==
  ASSUME NEW a, NEW K \in {4, 8, 16}, NEW le \in BOOLEAN
  PROVE  LET w == ToWordsR(a, K, le)
             n == L \div K
         IN  /\ w.ok <=> (L % K = 0)
             /\ w.ok =>
                  ToBytesBe([i \in 0 .. n - 1 |-> w.val[i + 1]], n, K)
                    = [k \in 0 .. L - 1 |->
                         IF le THEN a[(k \div K) * K + (K - 1 - (k % K))] ELSE a[k]]
<1> DEFINE n == L \div K
           m == (L + K - 1) \div K
           blocks == ChunksOf(a, K)
           word(b) == IF le THEN [j \in 1 .. Len(b) |-> b[Len(b) - j + 1]] ELSE b
<1>0. L \in Nat /\ K \in Nat \ {0} /\ n \in Nat
  BY ArrayAssumption
<1>1. blocks = [i \in 1 .. m |->
                  [j \in 1 .. Least(K, L - (i - 1) * K) |-> a[(i - 1) * K + j - 1]]]
  BY DEF ChunksOf
<1>2. ToWordsR(a, K, le) =
        IF \E i \in 1 .. Len(blocks) : ~Asserted(Len(blocks[i]) = K) \/ i > n
          THEN Panic
          ELSE Ret([i \in 1 .. n |-> word(blocks[i])])
  BY DEF ToWordsR
<1>3. CASE L % K # 0
  <2>1. m = n + 1
    BY <1>3, ChunkArith
  <2>2. Len(blocks) = n + 1
    BY <1>0, <1>1, <2>1
  <2>3. ToWordsR(a, K, le) = Panic
    BY <1>0, <1>2, <2>2
  <2> QED BY <1>3, <2>3 DEF Panic
<1>4. CASE L % K = 0
  <2>1. m = n /\ n * K = L /\ \A i \in 1 .. n : Least(K, L - (i - 1) * K) = K
    BY <1>4, ChunkArith
  <2>2. Len(blocks) = n
    BY <1>0, <1>1, <2>1
  <2>3. \A i \in 1 .. n : /\ blocks[i] = [j \in 1 .. K |-> a[(i - 1) * K + j - 1]]
                          /\ Len(blocks[i]) = K
    <3>1. \A i \in 1 .. n : blocks[i] = [j \in 1 .. K |-> a[(i - 1) * K + j - 1]]
      BY <1>1, <2>1
    <3>2. ASSUME NEW i \in 1 .. n PROVE Len([j \in 1 .. K |-> a[(i - 1) * K + j - 1]]) = K
      BY <1>0
    <3> QED BY <3>1, <3>2
  <2>4. ToWordsR(a, K, le) = Ret([i \in 1 .. n |-> word(blocks[i])])
    <3>1. ASSUME NEW i \in 1 .. Len(blocks)
          PROVE  Asserted(Len(blocks[i]) = K) /\ ~(i > n)
      <4>1. i \in 1 .. n
        BY <2>2
      <4>2. Len(blocks[i]) = K
        BY <4>1, <2>3
      <4> QED BY <1>0, <4>1, <4>2 DEF Asserted
    <3> QED BY <1>2, <3>1
  <2> DEFINE ws == [i \in 0 .. n - 1 |-> [i2 \in 1 .. n |-> word(blocks[i2])][i + 1]]
  <2>5. ASSUME NEW k \in 0 .. L - 1
        PROVE  ws[k \div K][(k % K) + 1]
                 = IF le THEN a[(k \div K) * K + (K - 1 - (k % K))] ELSE a[k]
    <3> DEFINE q == k \div K
               r == k % K
               i == q + 1
    <3>1. q \in 0 .. n - 1 /\ r \in 0 .. K - 1 /\ q * K + r = k /\ i = q + 1
      BY <1>0, <2>1, ChunkArith
    <3> HIDE DEF q, r, i
    <3>2. i \in 1 .. n /\ r + 1 \in 1 .. K
      BY <1>0, <3>1
    <3>3. /\ (i - 1) * K + (r + 1) - 1 = k
          /\ (i - 1) * K + (K - (r + 1) + 1) - 1 = q * K + (K - 1 - r)
      BY <1>0, <3>1
    <3>4. blocks[i] = [j \in 1 .. K |-> a[(i - 1) * K + j - 1]]
          /\ Len(blocks[i]) = K
      <4> HIDE DEF blocks
      <4> QED BY <3>2, <2>3
    <3>5. ws[q] = word(blocks[i])
      <4> HIDE DEF word, blocks
      <4> QED BY <1>0, <3>1, <3>2
    <3>6. word(blocks[i])[r + 1]
            = IF le THEN blocks[i][K - (r + 1) + 1] ELSE blocks[i][r + 1]
      <4> HIDE DEF blocks
      <4> QED BY <1>0, <3>1, <3>4
    <3>7. blocks[i][K - (r + 1) + 1] = a[q * K + (K - 1 - r)]
      <4>1. K - (r + 1) + 1 \in 1 .. K
        BY <1>0, <3>1
      <4>2. blocks[i][K - (r + 1) + 1] = a[(i - 1) * K + (K - (r + 1) + 1) - 1]
        <5> HIDE DEF blocks
        <5> QED BY <3>4, <4>1
      <4> QED BY <4>2, <3>3
    <3>8. blocks[i][r + 1] = a[k]
      <4>1. blocks[i][r + 1] = a[(i - 1) * K + (r + 1) - 1]
        <5> HIDE DEF blocks
        <5> QED BY <3>2, <3>4
      <4> QED BY <4>1, <3>3
    <3>9. ws[q][r + 1] = IF le THEN a[q * K + (K - 1 - r)] ELSE a[k]
      <4> HIDE DEF ws, word, blocks
      <4> QED BY <3>5, <3>6, <3>7, <3>8
    <3> QED BY <3>9 DEF q, r
  <2>6. ToBytesBe(ws, n, K)
          = [k \in 0 .. L - 1 |->
               IF le THEN a[(k \div K) * K + (K - 1 - (k % K))] ELSE a[k]]
    <3> HIDE DEF ws
    <3>1. ToBytesBe(ws, n, K) = [k \in 0 .. L - 1 |-> ws[k \div K][(k % K) + 1]]
      BY <2>1 DEF ToBytesBe
    <3> QED BY <3>1, <2>5
  <2>7. [i \in 0 .. n - 1 |-> ToWordsR(a, K, le).val[i + 1]] = ws
    <3> HIDE DEF word, blocks
    <3> QED BY <2>4 DEF Ret
  <2>8. ToWordsR(a, K, le).ok
    <3> HIDE DEF word, blocks
    <3> QED BY <2>4 DEF Ret
  <2> HIDE DEF ws
  <2> QED BY <1>4, <2>6, <2>7, <2>8
<1> QED BY <1>3, <1>4
=============================================================================
