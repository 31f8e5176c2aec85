----------------------------- MODULE DeltaVarint -----------------------------
(***************************************************************************)
(* DeltaVarintArray of src/src/db/scrapbook.rs: a sorted list of player    *)
(* ids, stored as its first value and the differences between neighbours,  *)
(* each as a run of bytes with seven bits and a flag for "more follows".   *)
(*                                                                         *)
(* The code's base is 128 and its numbers are u64; a smaller base and a    *)
(* smaller width give the same cases with smaller ids.                     *)
(***************************************************************************)
EXTENDS Integers, Sequences, SequencesExt

CONSTANTS
  Base,       \* 2^7: what fits into one byte; a byte of Base or more has the flag
  Width       \* 2^64: differences are taken modulo this

ASSUME VarintAssumption == Base \in Nat \ {0, 1} /\ Width \in Nat /\ Width > Base

(* The loop takes the lowest digit until what is left fits. *)
encode_varint[value \in Nat] ==
  IF value < Base THEN <<value>>
  ELSE <<(value % Base) + Base>> \o encode_varint[value \div Base]

(* The value at the start of buf, and how many bytes it takes. *)
decode_varint[buf \in Seq(Nat)] ==
  IF buf = <<>> THEN <<0, 0>>
  ELSE IF Head(buf) < Base THEN <<Head(buf), 1>>
  ELSE LET rest == decode_varint[Tail(buf)]
       IN  <<(Head(buf) - Base) + (Base * rest[1]), 1 + rest[2]>>

(* The loop over the neighbours in a list. *)
Encoded[values \in Seq(Nat)] ==
  IF Len(values) < 2 THEN <<>>
  ELSE encode_varint[(values[2] - values[1]) % Width] \o Encoded[Tail(values)]

from_sorted(values) ==
  IF values = <<>> THEN [first |-> 0, data |-> <<>>, len |-> 0]
  ELSE [first |-> values[1], data |-> Encoded[values], len |-> Len(values)]

(* The values after current, read up to the end of the bytes ... *)
Decoded[from \in Nat \X Seq(Nat)] ==
  IF from[2] = <<>> THEN <<>>
  ELSE LET delta == decode_varint[from[2]]
           next  == (from[1] + delta[1]) % Width
       IN  <<next>> \o Decoded[<<next, SubSeq(from[2], delta[2] + 1, Len(from[2]))>>]

to_vec_WithoutFirst(array) ==
  IF array.len = 0 THEN <<>> ELSE Decoded[<<array.first, array.data>>]

to_vec(array) ==
  IF array.len = 0 THEN <<>>
  ELSE <<array.first>> \o Decoded[<<array.first, array.data>>]

(* ... or, by the iterator, a number of times. *)
Iterated[from \in Nat \X Nat \X Seq(Nat)] ==
  IF from[1] = 0 THEN <<>>
  ELSE IF from[1] = 1 THEN <<from[2]>>
  ELSE LET delta == decode_varint[from[3]]
       IN  <<from[2]>> \o Iterated[<<from[1] - 1, (from[2] + delta[1]) % Width,
                                   SubSeq(from[3], delta[2] + 1, Len(from[3]))>>]

iter(array) == Iterated[<<array.len, array.first, array.data>>]
=============================================================================
