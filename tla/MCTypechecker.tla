---------------------------- MODULE MCTypechecker ----------------------------
(* A small instance of Typechecker for TLC. *)
EXTENDS Typechecker

CONSTANTS x, y, f, g

U8 == Leaf("U8")
SeqU8 == Node("Seq", <<U8>>)

(* fn consume(x: Seq<u8>) -> u8 *)
SigConsume == [args |-> <<[name |-> x, typ |-> Consumed(SeqU8)]>>, ret |-> U8]

(* fn borrow(x: &Seq<u8>, y: u8) -> Seq<u8> *)
SigBorrow == [args |-> <<[name |-> x, typ |-> Borrowed(SeqU8)],
                        [name |-> y, typ |-> Consumed(U8)]>>, ret |-> SeqU8]

MCSigs == {SigConsume, SigBorrow}

MCPats == {[kind |-> "Wild"], [kind |-> "Id", name |-> x], [kind |-> "Id", name |-> y],
           [kind |-> "Tup", elems |-> <<[kind |-> "Id", name |-> y], [kind |-> "Id", name |-> x]>>]}

MCDeclTyps == {Consumed(U8)}
=============================================================================
