------------------------------ MODULE EntryBytes ------------------------------
(***************************************************************************)
(* Dictionary entries are byte vectors.  Which value a byte belongs to and *)
(* which of its bytes it is matters here, not its eight bits: byte k of    *)
(* the value n is the pair <<n, k>>.  A field that is read from the wrong  *)
(* place, in the wrong order or not as a whole is therefore noticed.       *)
(***************************************************************************)
EXTENDS Integers, Sequences

\* The `width` bytes of a number or a hash.  into_bytes, to_le_bytes and
\* to_little_endian all put the low byte of a number first, and from_le_bytes and
\* from_little_endian take it from there; the bytes of a hash are copied as they are.
to_le(n, width) == [k \in 1..width |-> <<n, k>>]

\* Bytes that are not all the bytes of one value, in order, are read as a value
\* that no field ever has.
Garbled == -1

from_le(bytes, width) ==
  IF Len(bytes) = width /\ bytes = to_le(bytes[1][1], width) THEN bytes[1][1] ELSE Garbled

\* src[from..to]: from zero, and without the place `to`.
Slice(src, from, to) == SubSeq(src, from + 1, to)
=============================================================================
