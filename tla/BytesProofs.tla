----------------------------- MODULE BytesProofs -----------------------------
(***************************************************************************)
(* What the operators of Bytes compute, for every Base: packing a number   *)
(* and unpacking it are inverse to each other, slices of a concatenation   *)
(* are its parts, and strings of a code in which no word begins another    *)
(* are cut in one way only.  The recursive functions are unfolded by an    *)
(* induction over a set of numbers.                                        *)
(***************************************************************************)
EXTENDS Bytes, TLAPS, WellFoundedInduction, SequenceTheorems

\* Induction on the natural numbers, about a set instead of a predicate.
LEMMA SetInduction ==
  ASSUME NEW S, 0 \in S, \A n \in Nat : n \in S => n + 1 \in S
  PROVE Nat \subseteq S
<1> DEFINE T == Nat \ S
<1>1. SUFFICES ASSUME T # {} PROVE FALSE
  OBVIOUS
<1>2. IsWellFoundedOn(OpToRel(<, Nat), Nat)
  BY NatLessThanWellFounded
<1>3. PICK n \in T : \A m \in T : <<m, n>> \notin OpToRel(<, Nat)
  <2> HIDE DEF T
  <2>1. T \subseteq Nat
    BY DEF T
  <2> QED BY <1>1, <1>2, <2>1, WFMin
<1>4. \A m \in T : ~(m < n)
  BY <1>3 DEF OpToRel
<1>5. n - 1 \in Nat \ T
  BY <1>4
<1> QED BY <1>5

\* The same up to a bound, for what holds of the places of a sequence.
LEMMA IntervalInduction ==
  ASSUME NEW N \in Nat, NEW S, 0 \in S, \A i \in 1 .. N : i - 1 \in S => i \in S
  PROVE 0 .. N \subseteq S
<1> DEFINE T == {i \in Nat : i <= N => i \in S}
<1>1. 0 \in T
  OBVIOUS
<1>2. ASSUME NEW n \in Nat, n \in T PROVE n + 1 \in T
  BY <1>2
<1> HIDE DEF T
<1>3. Nat \subseteq T
  BY <1>1, <1>2, SetInduction
<1> QED BY <1>3 DEF T

\* The values that a recursive function on 0 .. N takes exist; its step is a
\* function of the place and the value before.
Steps(N, D) == [1 .. N -> [D -> D]]
Runs(N, D, first, step) ==
  {f \in [0 .. N -> D] : f[0] = first /\ \A i \in 1 .. N : f[i] = step[i][f[i - 1]]}

\* They exist.
LEMMA RecursionExists ==
  ASSUME NEW N \in Nat, NEW D, NEW first \in D, NEW step \in Steps(N, D)
  PROVE Runs(N, D, first, step) # {}
<1> USE DEF Steps
<1> DEFINE Good(j, f) == f[0] = first /\ \A i \in 1 .. j : f[i] = step[i][f[i - 1]]
           S == {j \in 0 .. N : \E f \in [0 .. j -> D] : Good(j, f)}
<1>1. 0 \in S
  <2>1. [i \in 0 .. 0 |-> first] \in [0 .. 0 -> D] /\ Good(0, [i \in 0 .. 0 |-> first])
    OBVIOUS
  <2>2. \E f \in [0 .. 0 -> D] : Good(0, f)
    BY <2>1
  <2> QED BY <2>2
<1>2. ASSUME NEW j \in 1 .. N, j - 1 \in S PROVE j \in S
  <2>1. PICK f \in [0 .. j - 1 -> D] : Good(j - 1, f)
    BY <1>2
  <2> DEFINE next == [i \in 0 .. j |-> IF i < j THEN f[i] ELSE step[j][f[j - 1]]]
  <2>2. step[j][f[j - 1]] \in D
    OBVIOUS
  <2>3. next \in [0 .. j -> D]
    BY <2>2
  <2>4. Good(j, next)
    <3>1. next[0] = first
      BY <2>1
    <3>2. \A i \in 1 .. j : next[i] = step[i][next[i - 1]]
      BY <2>1
    <3> QED BY <3>1, <3>2
  <2> HIDE DEF next
  <2>5. \E g \in [0 .. j -> D] : Good(j, g)
    BY <2>3, <2>4
  <2> QED BY <2>5
<1> HIDE DEF S
<1>3. 0 .. N \subseteq S
  BY <1>1, <1>2, IntervalInduction
<1>4. N \in S
  BY <1>3
<1> QED BY <1>4 DEF S, Runs

-----------------------------------------------------------------------------
(* Numbers as big-endian bytes: struct.pack, int.to_bytes, int.from_bytes *)

\* A number is its last byte and the rest.
LEMMA LastByte ==
  ASSUME NEW n \in Nat
  PROVE /\ n \div Base \in Nat /\ n % Base \in Byte
        /\ n = ((n \div Base) * Base) + (n % Base)
  BY BaseAssumption DEF Byte

\* A byte behind a number is its last byte.
LEMMA AppendByte ==
  ASSUME NEW q \in Nat, NEW r \in Byte
  PROVE /\ q * Base + r \in Nat
        /\ (q * Base + r) \div Base = q /\ (q * Base + r) % Base = r
  BY BaseAssumption DEF Byte

\* Shifted divides k times.
LEMMA ShiftedUnfolds ==
  ASSUME NEW n \in Nat, NEW k \in Nat
  PROVE \E rest \in [0 .. k -> Nat] :
          /\ rest[0] = n /\ \A i \in 1 .. k : rest[i] = rest[i - 1] \div Base
          /\ Shifted(n, k) = rest[k]
<1> DEFINE Shifts(f) == f = [i \in 0 .. k |-> IF i = 0 THEN n ELSE f[i - 1] \div Base]
           step == [i \in 1 .. k |-> [m \in Nat |-> m \div Base]]
           f == CHOOSE f : Shifts(f)
<1>1. step \in Steps(k, Nat)
  BY LastByte DEF Steps
<1>2. \E g : Shifts(g)
  <2> HIDE DEF step
  <2>0. Runs(k, Nat, n, step) # {}
    BY <1>1, RecursionExists
  <2>1. PICK g \in [0 .. k -> Nat] : g[0] = n /\ \A i \in 1 .. k : g[i] = step[i][g[i - 1]]
    BY <2>0 DEF Runs
  <2>2. ASSUME NEW i \in 1 .. k PROVE g[i] = g[i - 1] \div Base
    <3>1. g[i - 1] \in Nat
      OBVIOUS
    <3> QED BY <2>1, <3>1 DEF step
  <2> QED BY <2>1, <2>2
<1>3. Shifts(f)
  BY <1>2
<1>4. Shifted(n, k) = f[k]
  BY DEF Shifted
<1> HIDE DEF f
<1>5. f[0] = n /\ \A i \in 1 .. k : f[i] = f[i - 1] \div Base
  BY <1>3
<1>6. 0 .. k \subseteq {i \in 0 .. k : f[i] \in Nat}
  <2> DEFINE S == {i \in 0 .. k : f[i] \in Nat}
  <2>1. 0 \in S
    BY <1>5
  <2>2. \A i \in 1 .. k : i - 1 \in S => i \in S
    BY <1>5, LastByte
  <2> HIDE DEF S
  <2>3. 0 .. k \subseteq S
    BY <2>1, <2>2, IntervalInduction
  <2> QED BY <2>3 DEF S
<1>7. f \in [0 .. k -> Nat]
  BY <1>3, <1>6
<1> QED BY <1>4, <1>5, <1>7

\* Any numbers that divide in this way are the shifted ones.
LEMMA ShiftedIs ==
  ASSUME NEW k \in Nat, NEW rest \in [0 .. k -> Nat],
         \A i \in 1 .. k : rest[i] = rest[i - 1] \div Base
  PROVE \A j \in 0 .. k : Shifted(rest[0], j) = rest[j]
<1> TAKE j \in 0 .. k
<1>0. j \in Nat /\ rest[0] \in Nat
  OBVIOUS
<1>1. PICK f \in [0 .. j -> Nat] :
        /\ f[0] = rest[0] /\ \A i \in 1 .. j : f[i] = f[i - 1] \div Base
        /\ Shifted(rest[0], j) = f[j]
  BY <1>0, ShiftedUnfolds
<1> DEFINE S == {i \in 0 .. j : f[i] = rest[i]}
<1>2. 0 \in S
  BY <1>1
<1>3. \A i \in 1 .. j : i - 1 \in S => i \in S
  BY <1>1
<1> HIDE DEF S
<1>4. 0 .. j \subseteq S
  BY <1>0, <1>2, <1>3, IntervalInduction
<1> QED BY <1>1, <1>4 DEF S

\* One more shift drops one more byte.
LEMMA ShiftedStep ==
  ASSUME NEW n \in Nat, NEW k \in Nat
  PROVE /\ Shifted(n, k) \in Nat /\ Shifted(n, 0) = n
        /\ Shifted(n, k + 1) = Shifted(n, k) \div Base
<1>0. k + 1 \in Nat
  OBVIOUS
<1>1. PICK rest \in [0 .. k + 1 -> Nat] :
        /\ rest[0] = n /\ \A i \in 1 .. k + 1 : rest[i] = rest[i - 1] \div Base
        /\ Shifted(n, k + 1) = rest[k + 1]
  BY <1>0, ShiftedUnfolds
<1>2. \A j \in 0 .. k + 1 : Shifted(n, j) = rest[j]
  BY <1>0, <1>1, ShiftedIs
<1> QED BY <1>1, <1>2

\* FromBigEndian adds the bytes from the front.
LEMMA FromBigEndianUnfolds ==
  ASSUME NEW b \in Seq(Nat)
  PROVE \E value \in [0 .. Len(b) -> Nat] :
          /\ value[0] = 0 /\ \A i \in 1 .. Len(b) : value[i] = value[i - 1] * Base + b[i]
          /\ FromBigEndian(b) = value[Len(b)]
<1> DEFINE Adds(f) == f = [i \in 0 .. Len(b) |-> IF i = 0 THEN 0 ELSE f[i - 1] * Base + b[i]]
           step == [i \in 1 .. Len(b) |-> [m \in Nat |-> m * Base + b[i]]]
           f == CHOOSE f : Adds(f)
<1>. Len(b) \in Nat
  OBVIOUS
<1>0. \A m \in Nat, i \in 1 .. Len(b) : m * Base + b[i] \in Nat
  BY BaseAssumption
<1>1. step \in Steps(Len(b), Nat)
  BY <1>0 DEF Steps
<1>2. \E g : Adds(g)
  <2> HIDE DEF step
  <2>0. Runs(Len(b), Nat, 0, step) # {}
    BY <1>1, RecursionExists
  <2>1. PICK g \in [0 .. Len(b) -> Nat] : g[0] = 0 /\ \A i \in 1 .. Len(b) : g[i] = step[i][g[i - 1]]
    BY <2>0 DEF Runs
  <2>2. ASSUME NEW i \in 1 .. Len(b) PROVE g[i] = g[i - 1] * Base + b[i]
    <3>1. g[i - 1] \in Nat
      OBVIOUS
    <3> QED BY <2>1, <3>1 DEF step
  <2> QED BY <2>1, <2>2
<1>3. Adds(f)
  BY <1>2
<1>4. FromBigEndian(b) = f[Len(b)]
  BY DEF FromBigEndian
<1> HIDE DEF f
<1>5. f[0] = 0 /\ \A i \in 1 .. Len(b) : f[i] = f[i - 1] * Base + b[i]
  BY <1>3
<1>6. 0 .. Len(b) \subseteq {i \in 0 .. Len(b) : f[i] \in Nat}
  <2> DEFINE S == {i \in 0 .. Len(b) : f[i] \in Nat}
  <2>1. 0 \in S
    BY <1>5
  <2>2. ASSUME NEW i \in 1 .. Len(b), i - 1 \in S PROVE i \in S
    <3>1. f[i - 1] \in Nat
      BY <2>2
    <3>2. f[i - 1] * Base + b[i] \in Nat
      BY <1>0, <3>1
    <3> QED BY <1>5, <3>2
  <2> HIDE DEF S
  <2>3. 0 .. Len(b) \subseteq S
    BY <2>1, <2>2, IntervalInduction
  <2> QED BY <2>3 DEF S
<1>7. f \in [0 .. Len(b) -> Nat]
  BY <1>3, <1>6
<1> QED BY <1>4, <1>5, <1>7

\* BigEndian makes a byte string of the width asked for.
LEMMA BigEndianBytes ==
  ASSUME NEW n \in Nat, NEW width \in Nat
  PROVE /\ BigEndian(n, width) \in Seq(Byte)
        /\ Len(BigEndian(n, width)) = width
        /\ \A i \in 1 .. width : BigEndian(n, width)[i] = Shifted(n, width - i) % Base
<1>1. ASSUME NEW i \in 1 .. width PROVE Shifted(n, width - i) % Base \in Byte
  <2>1. width - i \in Nat
    OBVIOUS
  <2> QED BY <2>1, ShiftedStep, LastByte
<1> QED BY <1>1 DEF BigEndian

\* Byte strings are strings of numbers.
LEMMA BytesAreNumbers ==
  ASSUME NEW b \in Seq(Byte)
  PROVE b \in Seq(Nat) /\ Len(b) \in Nat /\ \A i \in 1 .. Len(b) : b[i] \in Byte
  BY BaseAssumption DEF Byte

\* A number that fits comes back from its bytes: struct.unpack after
\* struct.pack, int.from_bytes after to_bytes.
THEOREM UnpackPacked ==
  ASSUME NEW n \in Nat, NEW width \in Nat, Fits(n, width)
  PROVE FromBigEndian(BigEndian(n, width)) = n
<1> DEFINE b == BigEndian(n, width)
<1>1. b \in Seq(Byte) /\ Len(b) = width /\ \A i \in 1 .. width : b[i] = Shifted(n, width - i) % Base
  BY BigEndianBytes
<1> HIDE DEF b
<1>2. PICK value \in [0 .. width -> Nat] :
        /\ value[0] = 0 /\ \A i \in 1 .. width : value[i] = value[i - 1] * Base + b[i]
        /\ FromBigEndian(b) = value[width]
  BY <1>1, BytesAreNumbers, FromBigEndianUnfolds
<1> DEFINE S == {j \in 0 .. width : value[j] = Shifted(n, width - j)}
<1>3. 0 \in S
  BY <1>2 DEF Fits
<1>4. ASSUME NEW j \in 1 .. width, j - 1 \in S PROVE j \in S
  <2> DEFINE m == Shifted(n, width - j)
  <2>1. width - j \in Nat /\ width - (j - 1) = (width - j) + 1
    OBVIOUS
  <2>2. m \in Nat /\ Shifted(n, width - (j - 1)) = m \div Base
    BY <2>1, ShiftedStep
  <2>3. value[j - 1] = m \div Base
    BY <1>4, <2>2
  <2>4. value[j] = ((m \div Base) * Base) + (m % Base)
    BY <1>1, <1>2, <2>3
  <2> QED BY <2>2, <2>4, LastByte
<1> HIDE DEF S
<1>5. 0 .. width \subseteq S
  BY <1>3, <1>4, IntervalInduction
<1>6. value[width] = Shifted(n, 0)
  BY <1>5 DEF S
<1> QED BY <1>2, <1>6, ShiftedStep DEF b

\* Bytes come back from their number, which fits: no two byte strings of one
\* length stand for the same number.
THEOREM PackUnpacked ==
  ASSUME NEW b \in Seq(Byte)
  PROVE /\ FromBigEndian(b) \in Nat /\ Fits(FromBigEndian(b), Len(b))
        /\ BigEndian(FromBigEndian(b), Len(b)) = b
<1> DEFINE width == Len(b)
<1>1. width \in Nat /\ b \in Seq(Nat) /\ \A i \in 1 .. width : b[i] \in Byte
  BY BytesAreNumbers
<1>2. PICK value \in [0 .. width -> Nat] :
        /\ value[0] = 0 /\ \A i \in 1 .. width : value[i] = value[i - 1] * Base + b[i]
        /\ FromBigEndian(b) = value[width]
  BY <1>1, FromBigEndianUnfolds
<1> DEFINE rest == [k \in 0 .. width |-> value[width - k]]
           n == FromBigEndian(b)
<1> HIDE DEF width
<1>3. rest \in [0 .. width -> Nat]
  BY <1>1
<1>4. ASSUME NEW k \in 1 .. width
      PROVE rest[k] = rest[k - 1] \div Base /\ b[width - (k - 1)] = rest[k - 1] % Base
  <2> DEFINE i == width - (k - 1)
  <2>1. i \in 1 .. width /\ i - 1 = width - k /\ k - 1 \in 0 .. width
    BY <1>1
  <2>2. value[i] = value[i - 1] * Base + b[i] /\ value[i - 1] \in Nat /\ b[i] \in Byte
    BY <1>1, <1>2, <2>1
  <2>3. value[i] \div Base = value[i - 1] /\ value[i] % Base = b[i]
    BY <2>2, AppendByte
  <2>4. rest[k - 1] = value[i] /\ rest[k] = value[i - 1]
    BY <2>1
  <2> QED BY <2>3, <2>4
<1>5. rest[0] = n /\ rest[width] = 0
  BY <1>1, <1>2
<1> HIDE DEF rest, n
<1>6. \A j \in 0 .. width : Shifted(n, j) = rest[j]
  BY <1>1, <1>3, <1>4, <1>5, ShiftedIs
<1>7. n \in Nat /\ Fits(n, width)
  BY <1>1, <1>3, <1>5, <1>6 DEF Fits
<1>8. BigEndian(n, width) \in Seq(Byte) /\ Len(BigEndian(n, width)) = width
  BY <1>1, <1>7, BigEndianBytes
<1>9. ASSUME NEW i \in 1 .. width PROVE BigEndian(n, width)[i] = b[i]
  <2>1. width - i \in 0 .. width /\ width - i + 1 \in 1 .. width
    BY <1>1
  <2>2. BigEndian(n, width)[i] = rest[width - i] % Base
    BY <1>1, <1>6, <1>7, <2>1, BigEndianBytes
  <2>3. b[width - ((width - i + 1) - 1)] = rest[(width - i + 1) - 1] % Base
    BY <1>4, <2>1
  <2>4. width - ((width - i + 1) - 1) = i /\ (width - i + 1) - 1 = width - i
    BY <1>1
  <2> QED BY <2>2, <2>3, <2>4
<1>10. BigEndian(n, width) = b
  BY <1>1, <1>8, <1>9, SeqEqual DEF width
<1> QED BY <1>7, <1>10 DEF n, width

-----------------------------------------------------------------------------
(* Concatenations and slices *)

\* A sequence is its first i elements and the others.
LEMMA SplitAt ==
  ASSUME NEW S, NEW d \in Seq(S), NEW i \in 0 .. Len(d)
  PROVE /\ SubSeq(d, 1, i) \in Seq(S) /\ Len(SubSeq(d, 1, i)) = i
        /\ SubSeq(d, i + 1, Len(d)) \in Seq(S) /\ Len(SubSeq(d, i + 1, Len(d))) = Len(d) - i
        /\ d = SubSeq(d, 1, i) \o SubSeq(d, i + 1, Len(d))
<1>1. Len(d) \in Nat /\ \A k \in 1 .. Len(d) : d[k] \in S
  OBVIOUS
<1>2. SubSeq(d, 1, i) \in Seq(S) /\ Len(SubSeq(d, 1, i)) = i
  BY <1>1, SubSeqProperties
<1>3. SubSeq(d, i + 1, Len(d)) \in Seq(S) /\ Len(SubSeq(d, i + 1, Len(d))) = Len(d) - i
  BY <1>1, SubSeqProperties
<1>4. SubSeq(d, 1, i) \o SubSeq(d, i + 1, Len(d)) = SubSeq(d, 1, Len(d))
  <2>1. 1 \in 1 .. Len(d) + 1 /\ i \in 1 - 1 .. Len(d) /\ Len(d) \in i .. Len(d)
    BY <1>1
  <2> QED BY <2>1, ConcatAdjacentSubSeq
<1> QED BY <1>2, <1>3, <1>4, SubSeqFull

\* Equal concatenations whose first parts are of equal length have equal parts.
LEMMA ConcatCancel ==
  ASSUME NEW S, NEW s \in Seq(S), NEW t \in Seq(S), NEW u \in Seq(S), NEW v \in Seq(S),
         Len(s) = Len(u), s \o t = u \o v
  PROVE s = u /\ t = v
<1>1. s = u
  <2>1. ASSUME NEW i \in 1 .. Len(s) PROVE s[i] = u[i]
    <3>1. (s \o t)[i] = s[i] /\ (u \o v)[i] = u[i]
      BY ConcatProperties
    <3> QED BY <3>1
  <2> QED BY <2>1, SeqEqual
<1> QED BY <1>1, ConcatSimplifications

\* The first and the second part of a concatenation, as slices of it.
LEMMA ConcatParts ==
  ASSUME NEW S, NEW s \in Seq(S), NEW t \in Seq(S)
  PROVE /\ SubSeq(s \o t, 1, Len(s)) = s
        /\ SubSeq(s \o t, Len(s) + 1, Len(s) + Len(t)) = t
<1> DEFINE d == s \o t
           a == SubSeq(d, 1, Len(s))
           b == SubSeq(d, Len(s) + 1, Len(d))
<1>1. d \in Seq(S) /\ Len(d) = Len(s) + Len(t) /\ Len(s) \in 0 .. Len(d)
  BY ConcatProperties
<1>2. a \in Seq(S) /\ b \in Seq(S) /\ Len(a) = Len(s) /\ d = a \o b
  <2> HIDE DEF d
  <2> QED BY <1>1, SplitAt
<1>3. a = s /\ b = t
  <2> HIDE DEF a, b
  <2> QED BY <1>2, ConcatCancel
<1> QED BY <1>1, <1>3

\* Slice is Python's d[from : from + n].
LEMMA SliceBounds ==
  ASSUME NEW S, NEW d \in Seq(S), NEW from \in Nat, NEW n \in Nat
  PROVE /\ Slice(d, from, n) \in Seq(S)
        /\ from + n <= Len(d) => Slice(d, from, n) = SubSeq(d, from + 1, from + n)
        /\ Len(Slice(d, from, n)) = IF from + n <= Len(d) THEN n
                                    ELSE IF from <= Len(d) THEN Len(d) - from ELSE 0
<1>1. Len(d) \in Nat /\ \A k \in 1 .. Len(d) : d[k] \in S
  OBVIOUS
<1> DEFINE to == Min({from + n, Len(d)})
<1>2. to = IF from + n <= Len(d) THEN from + n ELSE Len(d)
  BY <1>1 DEF Min
<1> HIDE DEF to
<1>3. \A k \in from + 1 .. to : d[k] \in S
  BY <1>1, <1>2
<1>4. from + 1 \in Int /\ to \in Int
  BY <1>1, <1>2
<1>5. /\ SubSeq(d, from + 1, to) \in Seq(S)
      /\ Len(SubSeq(d, from + 1, to)) = IF from + 1 <= to THEN to - (from + 1) + 1 ELSE 0
  BY <1>3, <1>4, SubSeqProperties
<1>6. Slice(d, from, n) = SubSeq(d, from + 1, to)
  BY DEF Slice, to
<1> QED BY <1>1, <1>2, <1>5, <1>6

\* Appending to a joined string appends to its second part.
LEMMA AppendBehind ==
  ASSUME NEW S, NEW s \in Seq(S), NEW t \in Seq(S), NEW e \in S
  PROVE Append(s \o t, e) = s \o Append(t, e)
  OBVIOUS

\* A part of a concatenation is a slice of it.
LEMMA SliceOfConcat ==
  ASSUME NEW S, NEW p \in Seq(S), NEW x \in Seq(S), NEW t \in Seq(S)
  PROVE /\ Slice((p \o x) \o t, Len(p), Len(x)) = x
        /\ (p \o x) \o t \in Seq(S)
        /\ Len((p \o x) \o t) = Len(p) + Len(x) + Len(t)
<1> DEFINE d == (p \o x) \o t
<1>1. p \o x \in Seq(S) /\ Len(p \o x) = Len(p) + Len(x) /\ x \o t \in Seq(S)
  BY ConcatProperties
<1>2. d \in Seq(S) /\ Len(d) = Len(p) + Len(x) + Len(t) /\ Len(p) \in Nat /\ Len(x) \in Nat /\ Len(t) \in Nat
  BY <1>1, ConcatProperties
<1> HIDE DEF d
<1>. Len(p) + Len(x) <= Len(d) /\ Len(p) \in Nat /\ Len(x) \in Nat
  BY <1>2
<1>3. Slice(d, Len(p), Len(x)) = SubSeq(d, Len(p) + 1, Len(p) + Len(x))
  BY <1>2, SliceBounds
<1>4. ASSUME NEW i \in 1 .. Len(x) PROVE SubSeq(d, Len(p) + 1, Len(p) + Len(x))[i] = x[i]
  <2>1. SubSeq(d, Len(p) + 1, Len(p) + Len(x))[i] = d[Len(p) + i]
    BY <1>2
  <2>2. d[Len(p) + i] = (p \o x)[Len(p) + i]
    BY <1>1, <1>2, ConcatProperties DEF d
  <2>3. (p \o x)[Len(p) + i] = x[i]
    BY <1>2, ConcatProperties
  <2> QED BY <2>1, <2>2, <2>3
<1>5. Slice(d, Len(p), Len(x)) \in Seq(S) /\ Len(Slice(d, Len(p), Len(x))) = Len(x)
  BY <1>2, SliceBounds
<1>6. Slice(d, Len(p), Len(x)) = x
  BY <1>3, <1>4, <1>5, SeqEqual
<1> QED BY <1>2, <1>6 DEF d

-----------------------------------------------------------------------------
(* Strings of words: FlattenSeq *)

\* What FlattenSeq has joined after each of the strings.
Joins(N, strings, joined) ==
  joined[0] = <<>> /\ \A i \in 1 .. N : joined[i] = joined[i - 1] \o strings[i]

\* What FlattenSeq joins can be joined from the front.
LEMMA JoinsExist ==
  ASSUME NEW N \in Nat, NEW D, NEW strings,
         <<>> \in D, \A i \in 1 .. N : strings[i] \in D,
         \A m \in D, i \in 1 .. N : m \o strings[i] \in D
  PROVE \E joined \in [0 .. N -> D] : Joins(N, strings, joined)
<1> DEFINE step == [i \in 1 .. N |-> [m \in D |-> m \o strings[i]]]
<1>1. step \in Steps(N, D)
  BY DEF Steps
<1> HIDE DEF step
<1>2. Runs(N, D, <<>>, step) # {}
  BY <1>1, RecursionExists
<1>3. PICK g \in [0 .. N -> D] : g[0] = <<>> /\ \A i \in 1 .. N : g[i] = step[i][g[i - 1]]
  BY <1>2 DEF Runs
<1>4. ASSUME NEW i \in 1 .. N PROVE g[i] = g[i - 1] \o strings[i]
  <2>1. g[i - 1] \in D
    OBVIOUS
  <2>2. step[i] = [m \in D |-> m \o strings[i]]
    BY DEF step
  <2> QED BY <1>3, <2>1, <2>2
<1> QED BY <1>3, <1>4 DEF Joins

\* They are the same for all who join.
LEMMA JoinsUnique ==
  ASSUME NEW N \in Nat, NEW strings, NEW f, NEW g, Joins(N, strings, f), Joins(N, strings, g)
  PROVE \A i \in 0 .. N : f[i] = g[i]
<1> DEFINE T == {i \in 0 .. N : f[i] = g[i]}
<1>1. 0 \in T
  BY DEF Joins
<1>2. ASSUME NEW i \in 1 .. N, i - 1 \in T PROVE i \in T
  <2>1. f[i] = f[i - 1] \o strings[i] /\ g[i] = g[i - 1] \o strings[i]
    BY DEF Joins
  <2>2. f[i - 1] = g[i - 1]
    BY <1>2
  <2>3. f[i] = g[i]
    BY <2>1, <2>2
  <2> QED BY <2>3
<1> HIDE DEF T
<1>3. 0 .. N \subseteq T
  BY <1>1, <1>2, IntervalInduction
<1> QED BY <1>3 DEF T

\* FlattenSeq starts at the first string and not before it.
LEMMA FlattenJoins ==
  ASSUME NEW N \in Nat, NEW strings, NEW g, Joins(N, strings, g),
         Len(strings) = N, N = 0 => strings = <<>>,
         N # 0 => <<>> \o strings[1] = strings[1]
  PROVE FlattenSeq(strings) = g[N]
<1> DEFINE Flattens(f) == f = [i \in 1 .. N |-> IF i = 1 THEN strings[i] ELSE f[i - 1] \o strings[i]]
           h == [i \in 1 .. N |-> g[i]]
<1>1. CASE N = 0
  BY <1>1 DEF FlattenSeq, Joins
<1>2. CASE N # 0
  <2>0. g[1] = strings[1] /\ \A i \in 2 .. N : g[i] = g[i - 1] \o strings[i]
    <3>1. g[0] = <<>> /\ \A i \in 1 .. N : g[i] = g[i - 1] \o strings[i]
      BY DEF Joins
    <3>2. ASSUME NEW i \in 1 .. N, i = 1 PROVE g[i] = strings[i]
      <4>1. i - 1 = 0
        BY <3>2
      <4>2. g[i] = g[i - 1] \o strings[i]
        BY <3>1
      <4>3. g[i] = <<>> \o strings[i]
        BY <3>1, <4>1, <4>2
      <4> QED BY <1>2, <3>2, <4>3
    <3>3. 1 \in 1 .. N
      BY <1>2
    <3>4. g[1] = strings[1]
      BY <3>2, <3>3
    <3>5. ASSUME NEW i \in 2 .. N PROVE g[i] = g[i - 1] \o strings[i]
      <4>1. i \in 1 .. N
        OBVIOUS
      <4> QED BY <3>1, <4>1
    <3> QED BY <3>4, <3>5
  <2>1. ASSUME NEW i \in 1 .. N PROVE h[i] = IF i = 1 THEN strings[i] ELSE h[i - 1] \o strings[i]
    <3>1. CASE i = 1
      BY <2>0, <3>1
    <3>2. CASE i # 1
      <4>1. i \in 2 .. N /\ i - 1 \in 1 .. N
        BY <3>2
      <4> QED BY <2>0, <3>2, <4>1
    <3> QED BY <3>1, <3>2
  <2>2. \E f : Flattens(f)
    <3>1. Flattens(h)
      BY <2>1
    <3> HIDE DEF h, Flattens
    <3> QED BY <3>1
  <2> DEFINE f == CHOOSE f : Flattens(f)
  <2>3. Flattens(f)
    BY <2>2
  <2>4. FlattenSeq(strings) = f[N]
    BY <1>2 DEF FlattenSeq
  <2> HIDE DEF f
  <2>5. \A i \in 1 .. N : f[i] = IF i = 1 THEN strings[i] ELSE f[i - 1] \o strings[i]
    BY <2>3
  <2> HIDE DEF Flattens
  <2> DEFINE T == {i \in 0 .. N : i = 0 \/ f[i] = g[i]}
  <2>6. 0 \in T
    OBVIOUS
  <2>7. ASSUME NEW i \in 1 .. N, i - 1 \in T PROVE i \in T
    <3>1. CASE i = 1
      BY <2>0, <2>5, <3>1
    <3>2. CASE i # 1
      <4>1. i \in 2 .. N /\ f[i - 1] = g[i - 1]
        BY <2>7, <3>2
      <4>2. f[i] = f[i - 1] \o strings[i] /\ g[i] = g[i - 1] \o strings[i]
        BY <2>0, <2>5, <3>2, <4>1
      <4>3. f[i] = g[i]
        BY <4>1, <4>2
      <4> QED BY <4>3
    <3> QED BY <3>1, <3>2
  <2> HIDE DEF T
  <2>8. 0 .. N \subseteq T
    BY <2>6, <2>7, IntervalInduction
  <2> QED BY <1>2, <2>4, <2>8 DEF T
<1> QED BY <1>1, <1>2

\* FlattenSeq, the fold of the community modules, joins from the front.
LEMMA FlattenUnfolds ==
  ASSUME NEW S, NEW strings \in Seq(Seq(S))
  PROVE \E joined \in [0 .. Len(strings) -> Seq(S)] :
          Joins(Len(strings), strings, joined) /\ FlattenSeq(strings) = joined[Len(strings)]
<1> DEFINE N == Len(strings)
           D == Seq(S)
<1>1. N \in Nat /\ <<>> \in D /\ \A i \in 1 .. N : strings[i] \in D
  OBVIOUS
<1>2. N = 0 => strings = <<>>
  OBVIOUS
<1>3. \A m \in D : <<>> \o m = m
  BY ConcatEmptySeq
<1>4. \A m \in D, i \in 1 .. N : m \o strings[i] \in D
  BY <1>1, ConcatProperties
<1>5. Len(strings) = N
  OBVIOUS
<1> HIDE DEF N, D
<1>6. PICK g \in [0 .. N -> D] : Joins(N, strings, g)
  BY <1>1, <1>4, JoinsExist
<1>7. N # 0 => <<>> \o strings[1] = strings[1]
  BY <1>1, <1>3
<1>8. FlattenSeq(strings) = g[N]
  BY <1>1, <1>2, <1>5, <1>6, <1>7, FlattenJoins
<1> QED BY <1>6, <1>8 DEF N, D

\* Whatever joins the strings one after the other is what FlattenSeq joins.
LEMMA FlattenIs ==
  ASSUME NEW S, NEW strings \in Seq(Seq(S)),
         NEW joined, Joins(Len(strings), strings, joined)
  PROVE FlattenSeq(strings) = joined[Len(strings)] /\ FlattenSeq(strings) \in Seq(S)
<1> DEFINE N == Len(strings)
<1>1. N \in Nat
  OBVIOUS
<1>2. PICK f \in [0 .. N -> Seq(S)] :
        Joins(N, strings, f) /\ FlattenSeq(strings) = f[N]
  BY FlattenUnfolds
<1>3. Joins(N, strings, joined)
  OBVIOUS
<1> HIDE DEF N
<1>4. \A i \in 0 .. N : f[i] = joined[i]
  BY <1>1, <1>2, <1>3, JoinsUnique
<1>5. f[N] = joined[N] /\ f[N] \in Seq(S)
  BY <1>1, <1>4
<1> QED BY <1>2, <1>5 DEF N

\* Joining one string more, behind or in front.
LEMMA JoinsAppend ==
  ASSUME NEW N \in Nat, NEW strings, NEW longer, NEW f, NEW g, NEW s, Joins(N, strings, f),
         \A i \in 1 .. N : longer[i] = strings[i], longer[N + 1] = s,
         g = [i \in 0 .. N + 1 |-> IF i <= N THEN f[i] ELSE f[N] \o s]
  PROVE Joins(N + 1, longer, g)
<1>0. f[0] = <<>> /\ \A i \in 1 .. N : f[i] = f[i - 1] \o strings[i]
  BY DEF Joins
<1>1. ASSUME NEW i \in 1 .. N + 1 PROVE g[i] = g[i - 1] \o longer[i]
  <2>1. g[i - 1] = f[i - 1]
    OBVIOUS
  <2>2. CASE i <= N
    <3>1. i \in 1 .. N
      BY <2>2
    <3>2. f[i] = f[i - 1] \o longer[i]
      BY <1>0, <3>1
    <3>3. g[i] = f[i]
      BY <2>2
    <3> QED BY <2>1, <3>2, <3>3
  <2>3. CASE i = N + 1
    <3>1. g[i] = f[N] \o s
      BY <2>3
    <3>2. i - 1 = N /\ longer[i] = s
      BY <2>3
    <3> QED BY <2>1, <3>1, <3>2
  <2>4. i <= N \/ i = N + 1
    OBVIOUS
  <2> QED BY <2>2, <2>3, <2>4
<1>2. g[0] = <<>>
  BY <1>0
<1> QED BY <1>1, <1>2 DEF Joins

\* A string in front goes in front of everything joined.
LEMMA JoinsPrepend ==
  ASSUME NEW N \in Nat, NEW strings, NEW longer, NEW f, NEW g, NEW s, Joins(N, strings, f),
         \A i \in 2 .. N + 1 : longer[i] = strings[i - 1], longer[1] = s, s \o <<>> = <<>> \o s,
         \A i \in 1 .. N : s \o (f[i - 1] \o strings[i]) = (s \o f[i - 1]) \o strings[i],
         g = [i \in 0 .. N + 1 |-> IF i = 0 THEN <<>> ELSE s \o f[i - 1]]
  PROVE Joins(N + 1, longer, g)
<1>0. f[0] = <<>> /\ \A i \in 1 .. N : f[i] = f[i - 1] \o strings[i]
  BY DEF Joins
<1>1. ASSUME NEW i \in 1 .. N + 1 PROVE g[i] = g[i - 1] \o longer[i]
  <2>1. g[i] = s \o f[i - 1]
    OBVIOUS
  <2>2. CASE i = 1
    <3>1. i - 1 = 0 /\ longer[i] = s
      BY <2>2
    <3>2. g[i - 1] = <<>> /\ f[i - 1] = <<>>
      BY <1>0, <3>1
    <3> QED BY <2>1, <3>1, <3>2
  <2>3. CASE i # 1
    <3> DEFINE j == i - 1
    <3>1. j \in 1 .. N /\ i \in 2 .. N + 1
      BY <2>3
    <3>2. g[j] = s \o f[j - 1]
      BY <3>1
    <3>3. f[j] = f[j - 1] \o strings[j] /\ longer[i] = strings[j]
      BY <1>0, <3>1
    <3>4. s \o (f[j - 1] \o strings[j]) = (s \o f[j - 1]) \o strings[j]
      BY <3>1
    <3> QED BY <2>1, <3>2, <3>3, <3>4
  <2> QED BY <2>2, <2>3
<1>2. g[0] = <<>>
  OBVIOUS
<1> QED BY <1>1, <1>2 DEF Joins

\* Joining is associative.
LEMMA Regroup ==
  \A S : \A s, t, u \in Seq(S) : s \o (t \o u) = (s \o t) \o u
  BY ConcatAssociative

Regroups(s, t, u) == s \o (t \o u) = (s \o t) \o u

\* The same for byte strings, by a name.
LEMMA RegroupBytes == \A s, t, u \in Seq(Nat) : Regroups(s, t, u)
  BY Regroup DEF Regroups

\* FlattenSeq and the first or the last of the strings.
LEMMA FlattenEnds ==
  ASSUME NEW S, NEW strings \in Seq(Seq(S)), NEW s \in Seq(S)
  PROVE /\ FlattenSeq(<<>>) = <<>>
        /\ FlattenSeq(strings) \in Seq(S)
        /\ FlattenSeq(Append(strings, s)) = FlattenSeq(strings) \o s
        /\ FlattenSeq(<<s>> \o strings) = s \o FlattenSeq(strings)
<1> DEFINE N == Len(strings)
           longer1 == Append(strings, s)
           longer2 == <<s>> \o strings
<1>0. N \in Nat /\ \A i \in 1 .. N : strings[i] \in Seq(S)
  OBVIOUS
<1>1. PICK f \in [0 .. N -> Seq(S)] : Joins(N, strings, f) /\ FlattenSeq(strings) = f[N]
  BY FlattenUnfolds
<1>2. FlattenSeq(<<>>) = <<>>
  BY DEF FlattenSeq
<1>3. /\ longer1 \in Seq(Seq(S)) /\ Len(longer1) = N + 1
      /\ \A i \in 1 .. N : longer1[i] = strings[i]
      /\ longer1[N + 1] = s
  OBVIOUS
<1>4. <<s>> \in Seq(Seq(S)) /\ Len(<<s>>) = 1 /\ <<s>>[1] = s
  OBVIOUS
<1>5. /\ longer2 \in Seq(Seq(S)) /\ Len(longer2) = N + 1
      /\ \A i \in 2 .. N + 1 : longer2[i] = strings[i - 1]
      /\ longer2[1] = s
  <2>1. /\ longer2 \in Seq(Seq(S)) /\ Len(longer2) = 1 + N
        /\ \A i \in 1 .. 1 + N : longer2[i] = IF i <= 1 THEN <<s>>[i] ELSE strings[i - 1]
    BY <1>4, ConcatProperties
  <2> HIDE DEF longer2, N
  <2>2. ASSUME NEW i \in 2 .. N + 1 PROVE longer2[i] = strings[i - 1]
    BY <1>0, <2>1
  <2>3. longer2[1] = s
    BY <1>0, <1>4, <2>1
  <2>4. 1 + N = N + 1
    BY <1>0
  <2> QED BY <2>1, <2>2, <2>3, <2>4
<1>6. s \o <<>> = <<>> \o s
  BY ConcatEmptySeq
<1>7. ASSUME NEW i \in 1 .. N PROVE s \o (f[i - 1] \o strings[i]) = (s \o f[i - 1]) \o strings[i]
  <2>1. f[i - 1] \in Seq(S) /\ strings[i] \in Seq(S)
    <3> HIDE DEF N
    <3> QED BY <1>0
  <2>2. s \in Seq(S)
    OBVIOUS
  <2> HIDE DEF N
  <2>3. \A u \in Seq(S), v \in Seq(S) : s \o (u \o v) = (s \o u) \o v
    BY <2>2, Regroup, Z3T(30)
  <2> QED BY <2>1, <2>3, Zenon
<1> DEFINE g1 == [i \in 0 .. N + 1 |-> IF i <= N THEN f[i] ELSE f[N] \o s]
           g2 == [i \in 0 .. N + 1 |-> IF i = 0 THEN <<>> ELSE s \o f[i - 1]]
<1>8. g1[N + 1] = f[N] \o s /\ g2[N + 1] = s \o f[N]
  <2> HIDE DEF N
  <2>1. N + 1 \in 0 .. N + 1 /\ (N + 1) - 1 = N
    BY <1>0
  <2> QED BY <1>0, <2>1
<1>9. Joins(N + 1, longer1, g1) /\ Joins(N + 1, longer2, g2)
  <2> HIDE DEF N, longer1, longer2, g1, g2
  <2>1. Joins(N + 1, longer1, g1)
    BY <1>0, <1>1, <1>3, JoinsAppend DEF g1
  <2>2. Joins(N + 1, longer2, g2)
    BY <1>0, <1>1, <1>5, <1>6, <1>7, JoinsPrepend DEF g2
  <2> QED BY <2>1, <2>2
<1> HIDE DEF g1, g2, longer1, longer2
<1>10. FlattenSeq(longer1) = g1[N + 1] /\ FlattenSeq(longer2) = g2[N + 1]
  BY <1>3, <1>5, <1>9, FlattenIs
<1>11. f[N] \in Seq(S)
  <2> HIDE DEF N
  <2> QED BY <1>0
<1> QED BY <1>1, <1>2, <1>8, <1>10, <1>11 DEF longer1, longer2

-----------------------------------------------------------------------------
(* Codes: strings that can be cut into words in one way only *)

\* A sequence that is not empty is its head in front of its tail.
LEMMA HeadInFront ==
  ASSUME NEW C, NEW ss \in Seq(C), ss # <<>>
  PROVE /\ Head(ss) \in C /\ Tail(ss) \in Seq(C) /\ Len(ss) = Len(Tail(ss)) + 1
        /\ ss = <<Head(ss)>> \o Tail(ss)
<1>1. /\ Head(ss) \in C /\ Tail(ss) \in Seq(C) /\ Len(Tail(ss)) = Len(ss) - 1
      /\ \A i \in 1 .. Len(Tail(ss)) : Tail(ss)[i] = ss[i + 1]
  BY HeadTailProperties
<1>2. Len(ss) \in Nat \ {0} /\ Head(ss) = ss[1]
  OBVIOUS
<1>3. <<Head(ss)>> \in Seq(C) /\ Len(<<Head(ss)>>) = 1 /\ <<Head(ss)>>[1] = Head(ss)
  BY <1>1
<1> DEFINE d == <<Head(ss)>> \o Tail(ss)
<1>4. /\ d \in Seq(C) /\ Len(d) = 1 + Len(Tail(ss))
      /\ \A i \in 1 .. 1 + Len(Tail(ss)) : d[i] = IF i <= 1 THEN <<Head(ss)>>[i] ELSE Tail(ss)[i - 1]
  BY <1>1, <1>3, ConcatProperties
<1> HIDE DEF d
<1>5. ASSUME NEW i \in 1 .. Len(ss) PROVE ss[i] = d[i]
  <2>1. CASE i = 1
    BY <1>1, <1>2, <1>3, <1>4, <2>1
  <2>2. CASE i # 1
    <3>1. i - 1 \in 1 .. Len(Tail(ss)) /\ (i - 1) + 1 = i
      BY <1>1, <1>2, <2>2
    <3> QED BY <1>1, <1>2, <1>4, <2>2, <3>1
  <2> QED BY <2>1, <2>2
<1>6. ss = d
  BY <1>1, <1>2, <1>4, <1>5, SeqEqual
<1> QED BY <1>1, <1>2, <1>6 DEF d

\* If no word is empty or begins another, a string of words has one reading.
THEOREM OneReading ==
  ASSUME NEW S, NEW C, C \subseteq Seq(S), <<>> \notin C,
         \A c, d \in C : \A u, v \in Seq(S) : c \o u = d \o v => c = d,
         NEW words \in Seq(C), NEW others \in Seq(C),
         FlattenSeq(words) = FlattenSeq(others)
  PROVE words = others
<1> DEFINE T == {n \in Nat : \A ss, tt \in Seq(C) :
                   Len(ss) = n /\ FlattenSeq(ss) = FlattenSeq(tt) => ss = tt}
<1>1. ASSUME NEW ss \in Seq(C), ss # <<>>
      PROVE /\ Head(ss) \in C /\ Head(ss) \in Seq(S) /\ Tail(ss) \in Seq(C) /\ Len(ss) = Len(Tail(ss)) + 1
            /\ ss = <<Head(ss)>> \o Tail(ss)
            /\ FlattenSeq(Tail(ss)) \in Seq(S)
            /\ FlattenSeq(ss) = Head(ss) \o FlattenSeq(Tail(ss))
            /\ FlattenSeq(ss) # <<>>
  <2>1. /\ Head(ss) \in C /\ Tail(ss) \in Seq(C) /\ Len(ss) = Len(Tail(ss)) + 1
        /\ ss = <<Head(ss)>> \o Tail(ss)
    BY <1>1, HeadInFront
  <2>2. Head(ss) \in Seq(S) /\ Tail(ss) \in Seq(Seq(S))
    BY <2>1, SeqMonotonic
  <2> DEFINE h == Head(ss)
             t == Tail(ss)
  <2> HIDE DEF h, t
  <2>3. FlattenSeq(t) \in Seq(S) /\ FlattenSeq(<<h>> \o t) = h \o FlattenSeq(t)
    BY <2>2, FlattenEnds DEF h, t
  <2>4. h \o FlattenSeq(t) # <<>>
    <3>1. h \in Seq(S) /\ h # <<>>
      BY <2>1, <2>2 DEF h
    <3> QED BY <2>3, <3>1, ConcatEqualIffEmpty
  <2> QED BY <2>1, <2>2, <2>3, <2>4 DEF h, t
<1>2. FlattenSeq(<<>>) = <<>>
  BY DEF FlattenSeq
<1>3. 0 \in T
  <2> SUFFICES ASSUME NEW ss \in Seq(C), NEW tt \in Seq(C), Len(ss) = 0, FlattenSeq(ss) = FlattenSeq(tt)
               PROVE ss = tt
    OBVIOUS
  <2>1. ss = <<>>
    OBVIOUS
  <2> QED BY <1>1, <1>2, <2>1
<1>4. ASSUME NEW n \in Nat, n \in T PROVE n + 1 \in T
  <2> SUFFICES ASSUME NEW ss \in Seq(C), NEW tt \in Seq(C), Len(ss) = n + 1, FlattenSeq(ss) = FlattenSeq(tt)
               PROVE ss = tt
    OBVIOUS
  <2>1. ss # <<>>
    OBVIOUS
  <2>2. tt # <<>>
    BY <1>1, <1>2, <2>1
  <2>3. Head(ss) \o FlattenSeq(Tail(ss)) = Head(tt) \o FlattenSeq(Tail(tt))
    BY <1>1, <2>1, <2>2
  <2> DEFINE a == Head(ss)
             b == Head(tt)
             u == FlattenSeq(Tail(ss))
             v == FlattenSeq(Tail(tt))
  <2>a. a \in C /\ b \in C /\ a \in Seq(S) /\ b \in Seq(S) /\ u \in Seq(S) /\ v \in Seq(S) /\ a \o u = b \o v
    BY <1>1, <2>1, <2>2, <2>3
  <2> HIDE DEF a, b, u, v
  <2>b. a = b
    BY <2>a
  <2>c. u = v
    BY <2>a, <2>b, ConcatSimplifications
  <2>4. Head(ss) = Head(tt)
    BY <2>b DEF a, b
  <2>5. FlattenSeq(Tail(ss)) = FlattenSeq(Tail(tt))
    BY <2>c DEF u, v
  <2>6. Len(Tail(ss)) = n
    <3>1. Len(Tail(ss)) \in Nat /\ n + 1 = Len(Tail(ss)) + 1
      BY <1>1, <2>1
    <3> QED BY <3>1
  <2>7. Tail(ss) = Tail(tt)
    BY <1>1, <1>4, <2>1, <2>2, <2>5, <2>6
  <2> QED BY <1>1, <2>1, <2>2, <2>4, <2>7
<1> HIDE DEF T
<1>5. Nat \subseteq T
  BY <1>3, <1>4, SetInduction
<1>6. Len(words) \in T
  BY <1>5
<1> QED BY <1>6 DEF T

\* A byte string behind its length is such a word: P16, P24 and every prefixed
\* field of the formats.
LEMMA PrefixedOnce ==
  ASSUME NEW x \in Seq(Nat), NEW y \in Seq(Nat), NEW u \in Seq(Nat), NEW v \in Seq(Nat), NEW width \in Nat,
         Fits(Len(x), width), Fits(Len(y), width),
         (BigEndian(Len(x), width) \o x) \o u = (BigEndian(Len(y), width) \o y) \o v
  PROVE x = y /\ u = v
<1> DEFINE p == BigEndian(Len(x), width)
           q == BigEndian(Len(y), width)
<1>1. Len(x) \in Nat /\ Len(y) \in Nat
  OBVIOUS
<1>2. p \in Seq(Nat) /\ q \in Seq(Nat) /\ Len(p) = width /\ Len(q) = width
  BY <1>1, BigEndianBytes, BytesAreNumbers
<1>3. Len(x) = FromBigEndian(p) /\ Len(y) = FromBigEndian(q)
  BY <1>1, UnpackPacked
<1> HIDE DEF p, q
<1>4. p \o (x \o u) = q \o (y \o v) /\ x \o u \in Seq(Nat) /\ y \o v \in Seq(Nat)
  <2>1. (p \o x) \o u = p \o (x \o u) /\ (q \o y) \o v = q \o (y \o v)
    <3>1. (p \o x) \o u = p \o (x \o u)
      <4>1. Regroups(p, x, u)
        BY <1>2, RegroupBytes
      <4> QED BY <4>1 DEF Regroups
    <3>2. (q \o y) \o v = q \o (y \o v)
      <4>1. Regroups(q, y, v)
        BY <1>2, RegroupBytes
      <4> QED BY <4>1 DEF Regroups
    <3> QED BY <3>1, <3>2
  <2>2. (p \o x) \o u = (q \o y) \o v
    BY DEF p, q
  <2>3. x \o u \in Seq(Nat) /\ y \o v \in Seq(Nat)
    BY ConcatProperties
  <2> QED BY <2>1, <2>2, <2>3
<1>5. p = q /\ x \o u = y \o v
  <2> DEFINE xu == x \o u
             yv == y \o v
  <2>1. Len(p) = Len(q) /\ xu \in Seq(Nat) /\ yv \in Seq(Nat) /\ p \o xu = q \o yv
    BY <1>2, <1>4
  <2> HIDE DEF xu, yv
  <2>2. p = q /\ xu = yv
    BY <1>2, <2>1, ConcatCancel
  <2> QED BY <2>2 DEF xu, yv
<1>6. Len(x) = Len(y)
  BY <1>3, <1>5
<1> QED BY <1>5, <1>6, ConcatCancel
=============================================================================
