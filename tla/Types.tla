-------------------------------- MODULE Types --------------------------------
(***************************************************************************)
(* The type grammar of the Rustspec type checker                           *)
(* (src/hacspec-lang/src/typechecker.rs): borrowing modes, base types,     *)
(* the copy classifier is_copy and the type equality equal_types.          *)
(*                                                                         *)
(* A base type is a finite tree.  It is represented as a function from     *)
(* positions (sequences of child indices, <<>> being the root) to labels   *)
(* [tag, n], where n is the number of children of the node.  Tags are     *)
(* "Unit", "Bool", the integer kinds, "Seq" (one child: the element type), *)
(* "Tuple" (one child per component) and the paths of Named types (at most *)
(* one child: the optional type argument).  Source spans are not modelled. *)
(***************************************************************************)
EXTENDS Naturals, Sequences

CONSTANTS
  IntKinds,   \* the fixed-width integer base types (UInt8 ... Isize)
  Paths       \* the qualified paths of Named types

ASSUME TypesAssumption ==
  /\ IntKinds \cap ({"Unit", "Bool", "Seq", "Tuple"} \cup Paths) = {}
  /\ Paths \cap {"Unit", "Bool", "Seq", "Tuple"} = {}

Modes == {"Consumed", "Borrowed"}

ScalarTags == {"Unit", "Bool"} \cup IntKinds

Tags == ScalarTags \cup {"Seq", "Tuple"} \cup Paths

Label == [tag : Tags, n : Nat]

(* A base type: a tree whose root is at position <<>>, in which a node of *)
(* n children has them at positions 1 .. n, and a Seq node has one child. *)
IsBaseTyp(b) ==
  /\ <<>> \in DOMAIN b
  /\ DOMAIN b \subseteq Seq(Nat)
  /\ \A p \in DOMAIN b : b[p] \in Label
  /\ \A p \in DOMAIN b : \A i \in 1 .. b[p].n : Append(p, i) \in DOMAIN b
  /\ \A p \in DOMAIN b : b[p].tag = "Seq" => b[p].n = 1

(* A Typ of the checker: a borrowing mode and a base type. *)
IsTyp(t) ==
  /\ DOMAIN t = {"mode", "base"}
  /\ t.mode \in Modes
  /\ IsBaseTyp(t.base)

(* The node with the given tag whose children are the trees of bs. *)
Node(tag, bs) ==
  [p \in {<<>>} \cup UNION {{<<i>> \o q : q \in DOMAIN bs[i]} : i \in DOMAIN bs}
     |-> IF p = <<>> THEN [tag |-> tag, n |-> Len(bs)] ELSE bs[p[1]][Tail(p)]]

Leaf(tag) == Node(tag, <<>>)

Tag(b) == b[<<>>].tag

Arity(b) == b[<<>>].n

(* The i-th child of the root of b. *)
Child(b, i) ==
  [q \in {Tail(p) : p \in {p \in DOMAIN b \ {<<>>} : p[1] = i}} |-> b[<<i>> \o q]]

Consumed(b) == [mode |-> "Consumed", base |-> b]

Borrowed(b) == [mode |-> "Borrowed", base |-> b]

(***************************************************************************)
(* is_copy: Unit, Bool and the integers are copy, Seq and Named types are  *)
(* not, and a Tuple is copy when all its components are.  Unfolding the    *)
(* recursion: b is copy when no node reached from the root through Tuple   *)
(* nodes only is a Seq or a Named node.                                    *)
(***************************************************************************)
TupleSpine(b) ==
  {p \in DOMAIN b : \A k \in 0 .. Len(p) - 1 : b[SubSeq(p, 1, k)].tag = "Tuple"}

is_copy(b) == \A p \in TupleSpine(b) : b[p].tag \in ScalarTags \cup {"Tuple"}

(***************************************************************************)
(* equal_types: the modes agree and the base types are equal node by node  *)
(* (same tags, same number of components, equal components; a Named type   *)
(* compares its path and its optional argument).  With spans abstracted    *)
(* away this is equality of the two trees.                                 *)
(***************************************************************************)
equal_types(t1, t2) == t1.mode = t2.mode /\ t1.base = t2.base

IsIntTyp(b) == Tag(b) \in IntKinds
=============================================================================
