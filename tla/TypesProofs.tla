----------------------------- MODULE TypesProofs -----------------------------
(***************************************************************************)
(* Lemmas on the tree representation of base types: the constructors of    *)
(* Types build base types, and a child of a base type is a base type.      *)
(***************************************************************************)
EXTENDS Types, SequenceTheorems, TLAPS

(* Positions below child i of the root. *)
LEMMA ConsPosition ==
  ASSUME NEW i \in Nat, NEW q \in Seq(Nat)
  PROVE  /\ <<i>> \o q \in Seq(Nat)
         /\ <<i>> \o q # <<>>
         /\ (<<i>> \o q)[1] = i
         /\ Tail(<<i>> \o q) = q
         /\ \A j \in Nat : Append(<<i>> \o q, j) = <<i>> \o Append(q, j)
<1>1. <<i>> \in Seq(Nat)
  OBVIOUS
<1>2. <<i>> \o q \in Seq(Nat) /\ Len(<<i>> \o q) = 1 + Len(q)
  BY <1>1, ConcatProperties
<1>3. (<<i>> \o q)[1] = i
  BY <1>1, ConcatProperties, LenProperties
<1>4. <<i>> \o q # <<>>
  BY <1>2, EmptySeq, LenProperties
<1>5. Tail(<<i>> \o q) = q
  <2>1. Tail(<<i>> \o q) \in Seq(Nat) /\ Len(Tail(<<i>> \o q)) = Len(q)
    BY <1>2, <1>4, HeadTailProperties
  <2>2. \A k \in 1 .. Len(q) : Tail(<<i>> \o q)[k] = q[k]
    BY <1>1, <1>2, <1>4, HeadTailProperties, ConcatProperties, LenProperties
  <2> QED BY <2>1, <2>2, SeqEqual
<1>6. \A j \in Nat : Append(<<i>> \o q, j) = <<i>> \o Append(q, j)
  <2> SUFFICES ASSUME NEW j \in Nat PROVE Append(<<i>> \o q, j) = <<i>> \o Append(q, j)
    OBVIOUS
  <2>1. Append(<<i>> \o q, j) = (<<i>> \o q) \o <<j>>
    BY <1>2, AppendIsConcat
  <2>2. Append(q, j) = q \o <<j>>
    BY AppendIsConcat
  <2>3. <<j>> \in Seq(Nat)
    OBVIOUS
  <2> QED BY <1>1, <2>1, <2>2, <2>3, ConcatAssociative
<1> QED BY <1>2, <1>3, <1>4, <1>5, <1>6

(* A non-empty position is its first index followed by its tail. *)
LEMMA ConsTail ==
  ASSUME NEW p \in Seq(Nat), p # <<>>
  PROVE  p = <<p[1]>> \o Tail(p)
<1>1. p[1] \in Nat /\ Tail(p) \in Seq(Nat) /\ Len(Tail(p)) = Len(p) - 1
  BY HeadTailProperties, EmptySeq, LenProperties
<1>2. <<p[1]>> \o Tail(p) \in Seq(Nat) /\ Len(<<p[1]>> \o Tail(p)) = Len(p)
  BY <1>1, ConcatProperties
<1>3. \A k \in 1 .. Len(p) : (<<p[1]>> \o Tail(p))[k] = p[k]
  BY <1>1, ConcatProperties, HeadTailProperties, LenProperties, EmptySeq
<1> QED BY <1>2, <1>3, SeqEqual

(* A node whose children are base types is a base type. *)
LEMMA NodeIsBaseTyp ==
  ASSUME NEW tag \in Tags, NEW S, NEW bs \in Seq(S),
         \A i \in DOMAIN bs : IsBaseTyp(bs[i]),
         tag = "Seq" => Len(bs) = 1
  PROVE  IsBaseTyp(Node(tag, bs))
<1> DEFINE Below == UNION {{<<i>> \o q : q \in DOMAIN bs[i]} : i \in DOMAIN bs}
<1> DEFINE D == {<<>>} \cup Below
<1> DEFINE N == Node(tag, bs)
<1>1. /\ DOMAIN N = D
      /\ N[<<>>] = [tag |-> tag, n |-> Len(bs)]
      /\ \A p \in Below : N[p] = bs[p[1]][Tail(p)]
  <2>1. <<>> \notin Below
    <3> SUFFICES ASSUME NEW i \in DOMAIN bs, NEW q \in DOMAIN bs[i]
                 PROVE  <<i>> \o q # <<>>
      OBVIOUS
    <3>1. q \in Seq(Nat) /\ i \in Nat
      BY LenProperties DEF IsBaseTyp
    <3> QED BY <3>1, ConsPosition
  <2> QED BY <2>1 DEF Node
<1>2. ASSUME NEW p \in Below
      PROVE  \E i \in DOMAIN bs : \E q \in DOMAIN bs[i] :
               /\ p = <<i>> \o q
               /\ q \in Seq(Nat) /\ i \in Nat
               /\ p \in Seq(Nat) /\ p[1] = i /\ Tail(p) = q
               /\ N[p] = bs[i][q]
  <2>1. PICK i \in DOMAIN bs : \E q \in DOMAIN bs[i] : p = <<i>> \o q
    OBVIOUS
  <2>2. PICK q \in DOMAIN bs[i] : p = <<i>> \o q
    BY <2>1
  <2>3. q \in Seq(Nat) /\ i \in Nat
    BY LenProperties DEF IsBaseTyp
  <2>4. p \in Seq(Nat) /\ p[1] = i /\ Tail(p) = q
    BY <2>2, <2>3, ConsPosition
  <2>5. N[p] = bs[i][q]
    BY <1>1, <2>4
  <2> QED BY <2>2, <2>3, <2>4, <2>5
<1>3. \A i \in DOMAIN bs : <<i>> \in Below
  <2> SUFFICES ASSUME NEW i \in DOMAIN bs PROVE <<i>> \in Below
    OBVIOUS
  <2>1. <<>> \in DOMAIN bs[i] /\ i \in Nat
    BY LenProperties DEF IsBaseTyp
  <2>2. <<i>> \o <<>> = <<i>>
    BY <2>1, ConcatEmptySeq
  <2>3. <<i>> \in {<<i>> \o q : q \in DOMAIN bs[i]}
    BY <2>1, <2>2
  <2> QED BY <2>3
<1>4. <<>> \in DOMAIN N
  BY <1>1
<1>5. DOMAIN N \subseteq Seq(Nat)
  <2> SUFFICES ASSUME NEW p \in D PROVE p \in Seq(Nat)
    BY <1>1
  <2>1. CASE p = <<>>
    BY <2>1, EmptySeq
  <2>2. CASE p \in Below
    BY <2>2, <1>2
  <2> QED BY <2>1, <2>2
<1>6. \A p \in DOMAIN N : N[p] \in Label
  <2> SUFFICES ASSUME NEW p \in D PROVE N[p] \in Label
    BY <1>1
  <2>1. CASE p = <<>>
    BY <2>1, <1>1, LenProperties DEF Label
  <2>2. CASE p \in Below
    BY <2>2, <1>2 DEF IsBaseTyp
  <2> QED BY <2>1, <2>2
<1>7. \A p \in DOMAIN N : \A j \in 1 .. N[p].n : Append(p, j) \in DOMAIN N
  <2> SUFFICES ASSUME NEW p \in D, NEW j \in 1 .. N[p].n PROVE Append(p, j) \in D
    BY <1>1
  <2>1. CASE p = <<>>
    <3>1. j \in DOMAIN bs
      BY <2>1, <1>1, LenProperties
    <3>2. Append(p, j) = <<j>>
      BY <2>1
    <3> QED BY <3>1, <3>2, <1>3
  <2>2. CASE p \in Below
    <3>1. PICK i \in DOMAIN bs : \E q \in DOMAIN bs[i] :
               /\ p = <<i>> \o q
               /\ q \in Seq(Nat) /\ i \in Nat
               /\ N[p] = bs[i][q]
      BY <2>2, <1>2
    <3>2. PICK q \in DOMAIN bs[i] :
               /\ p = <<i>> \o q
               /\ q \in Seq(Nat) /\ i \in Nat
               /\ N[p] = bs[i][q]
      BY <3>1
    <3>3. IsBaseTyp(bs[i]) /\ q \in DOMAIN bs[i]
      OBVIOUS
    <3>4. j \in 1 .. bs[i][q].n
      BY <3>2
    <3>5. Append(q, j) \in DOMAIN bs[i] /\ j \in Nat
      BY <3>3, <3>4 DEF IsBaseTyp
    <3>6. Append(p, j) = <<i>> \o Append(q, j)
      BY <3>2, <3>5, ConsPosition
    <3>7. <<i>> \o Append(q, j) \in {<<i>> \o r : r \in DOMAIN bs[i]}
      BY <3>5
    <3>8. <<i>> \o Append(q, j) \in Below
      BY <3>7, Zenon
    <3> QED BY <3>6, <3>8
  <2> QED BY <2>1, <2>2
<1>8. \A p \in DOMAIN N : N[p].tag = "Seq" => N[p].n = 1
  <2> SUFFICES ASSUME NEW p \in D, N[p].tag = "Seq" PROVE N[p].n = 1
    BY <1>1
  <2>1. CASE p = <<>>
    BY <2>1, <1>1
  <2>2. CASE p \in Below
    <3>1. PICK i \in DOMAIN bs : \E q \in DOMAIN bs[i] : N[p] = bs[i][q]
      BY <2>2, <1>2
    <3>2. PICK q \in DOMAIN bs[i] : N[p] = bs[i][q]
      BY <3>1
    <3>3. IsBaseTyp(bs[i])
      OBVIOUS
    <3> QED BY <3>2, <3>3 DEF IsBaseTyp
  <2> QED BY <2>1, <2>2
<1> QED BY <1>4, <1>5, <1>6, <1>7, <1>8 DEF IsBaseTyp

(* Child i of a base type, for i among the root's children, is a base    *)
(* type: the subtree below position <<i>>.                                 *)
LEMMA ChildIsBaseTyp ==
  ASSUME NEW b, IsBaseTyp(b), NEW i \in 1 .. Arity(b)
  PROVE  IsBaseTyp(Child(b, i))
<1> DEFINE C == {Tail(p) : p \in {p \in DOMAIN b \ {<<>>} : p[1] = i}}
<1> DEFINE K == Child(b, i)
<1>0. i \in Nat
  BY DEF IsBaseTyp, Label, Arity
<1>1. DOMAIN K = C /\ \A q \in C : K[q] = b[<<i>> \o q]
  BY DEF Child
<1>2. ASSUME NEW q \in C
      PROVE  q \in Seq(Nat) /\ <<i>> \o q \in DOMAIN b
  <2>1. PICK p \in DOMAIN b \ {<<>>} : p[1] = i /\ q = Tail(p)
    OBVIOUS
  <2>2. p \in Seq(Nat)
    BY DEF IsBaseTyp
  <2>3. q \in Seq(Nat)
    BY <2>1, <2>2, HeadTailProperties
  <2>4. <<i>> \o q = p
    BY <2>1, <2>2, ConsTail
  <2> QED BY <2>1, <2>3, <2>4
<1>3. ASSUME NEW q \in Seq(Nat), <<i>> \o q \in DOMAIN b
      PROVE  q \in C
  <2>1. <<i>> \o q # <<>> /\ (<<i>> \o q)[1] = i /\ Tail(<<i>> \o q) = q
    BY <1>0, ConsPosition
  <2>2. <<i>> \o q \in {p \in DOMAIN b \ {<<>>} : p[1] = i}
    BY <1>3, <2>1
  <2> QED BY <2>1, <2>2, Zenon
<1>4. <<>> \in DOMAIN K
  <2>1. Append(<<>>, i) \in DOMAIN b
    BY DEF IsBaseTyp, Arity
  <2>2. <<i>> \o <<>> = <<i>> /\ Append(<<>>, i) = <<i>>
    BY <1>0, ConcatEmptySeq
  <2>3. <<>> \in Seq(Nat)
    BY EmptySeq
  <2> QED BY <1>1, <1>3, <2>1, <2>2, <2>3
<1>5. DOMAIN K \subseteq Seq(Nat)
  BY <1>1, <1>2
<1>6. \A q \in DOMAIN K : K[q] \in Label /\ (K[q].tag = "Seq" => K[q].n = 1)
  BY <1>1, <1>2 DEF IsBaseTyp
<1>7. \A q \in DOMAIN K : \A j \in 1 .. K[q].n : Append(q, j) \in DOMAIN K
  <2> SUFFICES ASSUME NEW q \in C, NEW j \in 1 .. b[<<i>> \o q].n
               PROVE  Append(q, j) \in C
    BY <1>1
  <2>1. q \in Seq(Nat) /\ <<i>> \o q \in DOMAIN b
    BY <1>2
  <2>2. Append(<<i>> \o q, j) \in DOMAIN b /\ j \in Nat
    BY <2>1 DEF IsBaseTyp, Label
  <2>3. Append(<<i>> \o q, j) = <<i>> \o Append(q, j)
    BY <1>0, <2>1, <2>2, ConsPosition
  <2>4. Append(q, j) \in Seq(Nat)
    BY <2>1, <2>2, AppendProperties
  <2> QED BY <1>3, <2>2, <2>3, <2>4
<1> QED BY <1>4, <1>5, <1>6, <1>7 DEF IsBaseTyp

(* A leaf is a base type. *)
LEMMA LeafIsBaseTyp ==
  ASSUME NEW tag \in Tags \ {"Seq"}
  PROVE  IsBaseTyp(Leaf(tag))
<1>1. <<>> \in Seq({}) /\ Len(<<>>) = 0
  BY EmptySeq
<1>2. \A i \in DOMAIN <<>> : IsBaseTyp(<<>>[i])
  OBVIOUS
<1> QED BY <1>1, <1>2, NodeIsBaseTyp DEF Leaf
=============================================================================
