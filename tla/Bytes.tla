------------------------------- MODULE Bytes --------------------------------
(***************************************************************************)
(* Byte strings: big-endian numbers (struct.pack, int.to_bytes and their   *)
(* inverses) and slices that, as in Python, stop where the string stops.   *)
(***************************************************************************)
EXTENDS Naturals, Sequences, SequencesExt

CONSTANT Base  \* values of a byte, 256 in the code

ASSUME BaseAssumption == Base \in Nat \ {0, 1}

Byte == 0 .. Base - 1

\* n without its last k bytes.
Shifted(n, k) == LET rest[i \in 0 .. k] == IF i = 0 THEN n ELSE rest[i - 1] \div Base IN rest[k]

BigEndian(n, width) == [i \in 1 .. width |-> Shifted(n, width - i) % Base]

FromLittleEndian(bytes) ==
  LET value[n \in 0 .. Len(bytes)] ==
        IF n = 0 THEN 0 ELSE value[n - 1] * Base + bytes[Len(bytes) + 1 - n]
  IN value[Len(bytes)]
FromBigEndian(bytes) ==
  LET value[n \in 0 .. Len(bytes)] == IF n = 0 THEN 0 ELSE value[n - 1] * Base + bytes[n]
  IN value[Len(bytes)]

\* data[from : from + n], counted from 0.
Slice(data, from, n) == SubSeq(data, from + 1, Min({from + n, Len(data)}))

\* struct.pack and to_bytes raise when the number needs more bytes.
Fits(n, width) == Shifted(n, width) = 0
=============================================================================
