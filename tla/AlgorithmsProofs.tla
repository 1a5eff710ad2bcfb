-------------------------- MODULE AlgorithmsProofs ---------------------------
(***************************************************************************)
(* What holds of the byte formats for every width, every length and every  *)
(* size of a byte: what is hashed, signed or expanded determines its       *)
(* parts; what a decoder returns is what was encoded and the other way     *)
(* round; the decoders that slice are as strict as the reader.  And of the *)
(* curve, for all primes: the addition of points stays on the curve and    *)
(* commutes; where it is a group, scalar multiplication adds up and every  *)
(* blind is taken off again.                                               *)
(***************************************************************************)
EXTENDS Algorithms, BytesProofs

-----------------------------------------------------------------------------
(* What is hashed, signed, or expanded *)

\* A number below Base is one byte, and fits any field of at least one.
LEMMA SmallFits ==
  ASSUME NEW n \in Nat, n < Base, NEW width \in Nat \ {0}
  PROVE Fits(n, width)
<1> DEFINE rest == [i \in 0 .. width |-> IF i = 0 THEN n ELSE 0]
<1>1. rest \in [0 .. width -> Nat]
  OBVIOUS
<1>2. rest[0] = n /\ rest[width] = 0
  OBVIOUS
<1>3. ASSUME NEW i \in 1 .. width PROVE rest[i] = rest[i - 1] \div Base
  <2>1. n \div Base = 0 /\ 0 \div Base = 0
    BY BaseAssumption
  <2> QED BY <2>1
<1> HIDE DEF rest
<1>4. Shifted(rest[0], width) = rest[width]
  <2>1. width \in Nat /\ width \in 0 .. width /\ \A i \in 1 .. width : rest[i] = rest[i - 1] \div Base
    BY <1>3
  <2>2. \A j \in 0 .. width : Shifted(rest[0], j) = rest[j]
    BY <1>1, <2>1, ShiftedIs
  <2> QED BY <2>1, <2>2
<1> QED BY <1>2, <1>4 DEF Fits

\* Strings joined from the left, and the same with what comes behind the
\* first joined before it.
Regrouped(s, b, x, u) == ((s \o b) \o x) \o u = s \o ((b \o x) \o u)

\* Joining is associative.
LEMMA RegroupFour ==
  ASSUME NEW N, NEW s \in Seq(N), NEW b \in Seq(N), NEW x \in Seq(N), NEW u \in Seq(N)
  PROVE Regrouped(s, b, x, u)
<1>1. s \o b \in Seq(N) /\ b \o x \in Seq(N)
  BY ConcatProperties
<1>2. (s \o b) \o x = s \o (b \o x)
  BY Regroup, Z3T(30)
<1>3. (s \o (b \o x)) \o u = s \o ((b \o x) \o u)
  BY <1>1, Regroup, Z3T(30)
<1> QED BY <1>2, <1>3 DEF Regrouped

\* Two byte strings, each behind its length, and what follows them.
TwoPrefixed(l, width1, x, width2) ==
  ((BigEndian(Len(l), width1) \o l) \o BigEndian(Len(x), width2)) \o x
PrefixedBehind(x, width, u) == (BigEndian(Len(x), width) \o x) \o u
TwoPrefixedBehind(l, width1, x, width2, u) == TwoPrefixed(l, width1, x, width2) \o u

\* They are byte strings.
LEMMA BehindBytes ==
  ASSUME NEW width \in Nat, NEW x \in Seq(Nat), NEW u \in Seq(Nat)
  PROVE PrefixedBehind(x, width, u) \in Seq(Nat)
<1> DEFINE b == BigEndian(Len(x), width)
<1>1. b \in Seq(Nat)
  <2>1. Len(x) \in Nat
    OBVIOUS
  <2> QED BY <2>1, BigEndianBytes, BytesAreNumbers
<1> HIDE DEF b
<1>2. b \o x \in Seq(Nat)
  BY <1>1, ConcatProperties
<1>3. (b \o x) \o u \in Seq(Nat)
  BY <1>2, ConcatProperties
<1> QED BY <1>3 DEF b, PrefixedBehind

\* What follows the first of the two is the second and the rest.
LEMMA FirstOfTwo ==
  ASSUME NEW width1 \in Nat, NEW width2 \in Nat, NEW l \in Seq(Nat), NEW x \in Seq(Nat), NEW u \in Seq(Nat)
  PROVE TwoPrefixedBehind(l, width1, x, width2, u) = PrefixedBehind(l, width1, PrefixedBehind(x, width2, u))
<1> DEFINE b == BigEndian(Len(x), width2)
           s == BigEndian(Len(l), width1) \o l
<1>1. b \in Seq(Nat) /\ s \in Seq(Nat)
  <2>1. Len(l) \in Nat /\ Len(x) \in Nat
    OBVIOUS
  <2>2. BigEndian(Len(l), width1) \in Seq(Nat) /\ b \in Seq(Nat)
    BY <2>1, BigEndianBytes, BytesAreNumbers
  <2> QED BY <2>2, ConcatProperties
<1> HIDE DEF b, s
<1>2. Regrouped(s, b, x, u)
  BY <1>1, RegroupFour
<1> QED BY <1>2 DEF b, s, TwoPrefixed, PrefixedBehind, TwoPrefixedBehind, Regrouped

\* The first of them and what follows are read in one way.
LEMMA BehindOnce ==
  ASSUME NEW width \in Nat, NEW x \in Seq(Nat), NEW u \in Seq(Nat), NEW y \in Seq(Nat), NEW v \in Seq(Nat),
         Fits(Len(x), width), Fits(Len(y), width), PrefixedBehind(x, width, u) = PrefixedBehind(y, width, v)
  PROVE x = y /\ u = v
  BY PrefixedOnce DEF PrefixedBehind

\* So are the two.
TwoPrefixedBind(width1, width2, l, x, u, k, y, v) ==
  /\ Fits(Len(l), width1) /\ Fits(Len(x), width2) /\ Fits(Len(k), width1) /\ Fits(Len(y), width2)
  /\ TwoPrefixedBehind(l, width1, x, width2, u) = TwoPrefixedBehind(k, width1, y, width2, v)
  => l = k /\ x = y /\ u = v

\* A length and so many bytes, twice over, are read in one way.
LEMMA TwoPrefixedOnce ==
  \A width1, width2 \in Nat, l, x, u, k, y, v \in Seq(Nat) : TwoPrefixedBind(width1, width2, l, x, u, k, y, v)
<1> TAKE width1, width2 \in Nat, l, x, u, k, y, v \in Seq(Nat)
<1> SUFFICES ASSUME Fits(Len(l), width1), Fits(Len(x), width2), Fits(Len(k), width1), Fits(Len(y), width2),
                    TwoPrefixedBehind(l, width1, x, width2, u) = TwoPrefixedBehind(k, width1, y, width2, v)
             PROVE  l = k /\ x = y /\ u = v
  BY DEF TwoPrefixedBind
<1>1. PrefixedBehind(x, width2, u) \in Seq(Nat) /\ PrefixedBehind(y, width2, v) \in Seq(Nat)
  BY BehindBytes
<1>2. /\ TwoPrefixedBehind(l, width1, x, width2, u) = PrefixedBehind(l, width1, PrefixedBehind(x, width2, u))
      /\ TwoPrefixedBehind(k, width1, y, width2, v) = PrefixedBehind(k, width1, PrefixedBehind(y, width2, v))
  BY FirstOfTwo
<1>3. PrefixedBehind(l, width1, PrefixedBehind(x, width2, u)) = PrefixedBehind(k, width1, PrefixedBehind(y, width2, v))
  BY <1>1, <1>2
<1>4. l = k /\ PrefixedBehind(x, width2, u) = PrefixedBehind(y, width2, v)
  BY <1>1, <1>2, <1>3, BehindOnce
<1>5. x = y /\ u = v
  BY <1>4, BehindOnce
<1> QED BY <1>4, <1>5

\* The parts that Transcript.add takes: struct.pack raises on longer ones.
Addable == {part \in [label : Seq(Nat), value : Seq(Nat)] :
              Fits(Len(part.label), U16) /\ Fits(Len(part.value), U32)}

\* No part begins another.
LEMMA AddOnce ==
  ASSUME NEW p \in Addable, NEW q \in Addable, NEW u \in Seq(Nat), NEW v \in Seq(Nat),
         Add(p) \o u = Add(q) \o v
  PROVE p = q
<1>1. /\ p.label \in Seq(Nat) /\ p.value \in Seq(Nat) /\ q.label \in Seq(Nat) /\ q.value \in Seq(Nat)
      /\ Fits(Len(p.label), U16) /\ Fits(Len(p.value), U32)
      /\ Fits(Len(q.label), U16) /\ Fits(Len(q.value), U32)
  BY DEF Addable
<1>2. U16 \in Nat /\ U32 \in Nat
  BY WidthsAssumption
<1>3. TwoPrefixedBehind(p.label, U16, p.value, U32, u) = TwoPrefixedBehind(q.label, U16, q.value, U32, v)
  BY DEF Add, TwoPrefixed, TwoPrefixedBehind
<1>4. p.label = q.label /\ p.value = q.value
  <2>1. TwoPrefixedBind(U16, U32, p.label, p.value, u, q.label, q.value, v)
    BY <1>1, <1>2, TwoPrefixedOnce
  <2> QED BY <1>1, <1>3, <2>1 DEF TwoPrefixedBind
<1>5. p = [label |-> p.label, value |-> p.value] /\ q = [label |-> q.label, value |-> q.value]
  BY DEF Addable
<1> QED BY <1>4, <1>5

\* What Transcript.add appends is a byte string, and never empty.
LEMMA AddBytes ==
  ASSUME NEW p \in Addable
  PROVE Add(p) \in Seq(Nat) /\ Add(p) # <<>>
<1> DEFINE l == p.label
           x == p.value
           bl == BigEndian(Len(l), U16)
           bx == BigEndian(Len(x), U32)
<1>1. l \in Seq(Nat) /\ x \in Seq(Nat)
  BY DEF Addable
<1>2. U16 \in Nat \ {0} /\ U32 \in Nat \ {0}
  BY WidthsAssumption
<1>3. bl \in Seq(Nat) /\ bx \in Seq(Nat) /\ Len(bl) = U16
  <2>1. Len(l) \in Nat /\ Len(x) \in Nat
    BY <1>1
  <2> QED BY <1>2, <2>1, BigEndianBytes, BytesAreNumbers
<1>4. Add(p) = ((bl \o l) \o bx) \o x
  BY DEF Add
<1> HIDE DEF l, x, bl, bx
<1>5. bl \o l \in Seq(Nat) /\ Len(bl \o l) = U16 + Len(l)
  BY <1>1, <1>3, ConcatProperties
<1>6. (bl \o l) \o bx \in Seq(Nat) /\ Len((bl \o l) \o bx) = U16 + Len(l) + Len(bx)
  BY <1>3, <1>5, ConcatProperties
<1>7. ((bl \o l) \o bx) \o x \in Seq(Nat) /\ Len(((bl \o l) \o bx) \o x) = U16 + Len(l) + Len(bx) + Len(x)
  BY <1>1, <1>6, ConcatProperties
<1>8. Len(((bl \o l) \o bx) \o x) # 0
  BY <1>1, <1>2, <1>3, <1>7
<1> QED BY <1>4, <1>7, <1>8

\* Transcripts of any number of parts of any length hash the same bytes only
\* if they have the same parts in the same order (Transcript.add, digest).
THEOREM TranscriptsBind ==
  ASSUME NEW parts \in Seq(Addable), NEW others \in Seq(Addable),
         TranscriptBytes(parts) = TranscriptBytes(others)
  PROVE parts = others
<1> DEFINE C == {Add(p) : p \in Addable}
           words == [i \in 1 .. Len(parts) |-> Add(parts[i])]
           otherWords == [i \in 1 .. Len(others) |-> Add(others[i])]
<1>1. C \subseteq Seq(Nat) /\ <<>> \notin C
  BY AddBytes
<1>2. \A c, d \in C : \A u, v \in Seq(Nat) : c \o u = d \o v => c = d
  <2> SUFFICES ASSUME NEW p \in Addable, NEW q \in Addable, NEW u \in Seq(Nat), NEW v \in Seq(Nat),
                      Add(p) \o u = Add(q) \o v
               PROVE Add(p) = Add(q)
    OBVIOUS
  <2>1. p = q
    BY AddOnce
  <2> QED BY <2>1
<1>3. /\ Len(parts) \in Nat /\ \A i \in 1 .. Len(parts) : parts[i] \in Addable
      /\ Len(others) \in Nat /\ \A i \in 1 .. Len(others) : others[i] \in Addable
  OBVIOUS
<1>4. words \in Seq(C) /\ otherWords \in Seq(C) /\ Len(words) = Len(parts) /\ Len(otherWords) = Len(others)
  BY <1>3
<1>5. FlattenSeq(words) = FlattenSeq(otherWords)
  BY DEF TranscriptBytes
<1>6. words = otherWords
  <2> HIDE DEF C, words, otherWords
  <2> QED BY <1>1, <1>2, <1>4, <1>5, OneReading
<1>7. Len(parts) = Len(others)
  BY <1>4, <1>6
<1>8. ASSUME NEW i \in 1 .. Len(parts) PROVE parts[i] = others[i]
  <2>1. words[i] = Add(parts[i]) /\ otherWords[i] = Add(others[i])
    BY <1>7
  <2>2. Add(parts[i]) = Add(others[i])
    <3> HIDE DEF words, otherWords
    <3> QED BY <1>6, <2>1
  <2>3. parts[i] \in Addable /\ others[i] \in Addable
    BY <1>3, <1>7
  <2>4. <<>> \in Seq(Nat) /\ Add(parts[i]) \o <<>> = Add(others[i]) \o <<>>
    BY <2>2
  <2> QED BY <2>3, <2>4, AddOnce
<1> QED BY <1>7, <1>8, SeqEqual

\* The bytes a certificate verify signs: the transcript hash is of full length.
THEOREM SignedBytesBind ==
  ASSUME NEW th1 \in Seq(Nat), NEW core1 \in Seq(Nat), NEW th2 \in Seq(Nat), NEW core2 \in Seq(Nat),
         Len(th1) = HashLen, Len(th2) = HashLen,
         CertVerifyBytes(th1, core1) = CertVerifyBytes(th2, core2)
  PROVE th1 = th2 /\ core1 = core2
<1>1. th1 \o core1 = th2 \o core2
  BY DEF CertVerifyBytes
<1> QED BY <1>1, ConcatCancel

\* The info string of hkdf_expand_label, with labels and contexts that its
\* one byte of length can count.
THEOREM LabelsBind ==
  ASSUME NEW label1 \in Seq(Nat), NEW context1 \in Seq(Nat), NEW label2 \in Seq(Nat), NEW context2 \in Seq(Nat),
         Fits(Len(label1), 1), Fits(Len(context1), 1), Fits(Len(label2), 1), Fits(Len(context2), 1),
         HkdfLabel(label1, context1) = HkdfLabel(label2, context2)
  PROVE label1 = label2 /\ context1 = context2
<1>1. TwoPrefixedBehind(label1, 1, context1, 1, <<>>) = TwoPrefixedBehind(label2, 1, context2, 1, <<>>)
  BY DEF HkdfLabel, TwoPrefixed, TwoPrefixedBehind
<1> DEFINE one == 1
           empty == <<>>
<1>2. /\ TwoPrefixedBehind(label1, one, context1, one, empty) = TwoPrefixedBehind(label2, one, context2, one, empty)
      /\ Fits(Len(label1), one) /\ Fits(Len(context1), one) /\ Fits(Len(label2), one) /\ Fits(Len(context2), one)
      /\ one \in Nat
  BY <1>1
<1>3. empty \in Seq(Nat)
  OBVIOUS
<1> HIDE DEF one, empty
<1>4. TwoPrefixedBind(one, one, label1, context1, empty, label2, context2, empty)
  BY <1>2, <1>3, TwoPrefixedOnce
<1> QED BY <1>2, <1>4 DEF TwoPrefixedBind

\* The inputs the invariant is checked on are within these theorems.
LEMMA ShortStrings ==
  ASSUME NEW n \in Nat
  PROVE \A s \in StringsUpTo(n) : s \in Seq(Byte) /\ s \in Seq(Nat) /\ Len(s) \in 0 .. n
<1> TAKE s \in StringsUpTo(n)
<1>1. PICK i \in 0 .. n : s \in [1 .. i -> Byte]
  BY DEF StringsUpTo, Strings
<1>2. s \in Seq(Byte) /\ Len(s) = i
  BY <1>1
<1> QED BY <1>2, BytesAreNumbers

\* One byte counts them.
LEMMA OneByteFits ==
  ASSUME NEW s \in StringsUpTo(1), NEW width \in Nat \ {0}
  PROVE s \in Seq(Nat) /\ Fits(Len(s), width)
<1>1. s \in Seq(Nat) /\ Len(s) \in 0 .. 1
  BY ShortStrings
<1>2. Len(s) \in Nat /\ Len(s) < Base
  <2> DEFINE l == Len(s)
  <2>1. l \in 0 .. 1
    BY <1>1
  <2> HIDE DEF l
  <2>2. l \in Nat /\ l < Base
    BY <2>1, BaseAssumption
  <2> QED BY <2>2 DEF l
<1> QED BY <1>1, <1>2, SmallFits

\* TranscriptBinds of the input a step picks.
LEMMA PickedBinds ==
  ASSUME Pick
  PROVE TranscriptBinds'
<1>1. CASE PickTranscripts
  <2>1. PICK n, k \in 0 .. MaxParts : \E ps \in [1 .. n -> Parts], qs \in [1 .. k -> Parts] :
          input' = [about |-> "transcripts", parts |-> ps, others |-> qs]
    BY <1>1 DEF PickTranscripts
  <2>2. PICK ps \in [1 .. n -> Parts], qs \in [1 .. k -> Parts] :
          input' = [about |-> "transcripts", parts |-> ps, others |-> qs]
    BY <2>1
  <2>3. Parts \subseteq Addable
    <3>1. ASSUME NEW p \in Parts PROVE p \in Addable
      <4>1. p \in [label : StringsUpTo(1), value : StringsUpTo(1)]
        BY DEF Parts
      <4>2. p.label \in StringsUpTo(1) /\ p.value \in StringsUpTo(1) /\ p = [label |-> p.label, value |-> p.value]
        BY <4>1
      <4>3. U16 \in Nat \ {0} /\ U32 \in Nat \ {0}
        BY WidthsAssumption
      <4>4. /\ p.label \in Seq(Nat) /\ Fits(Len(p.label), U16)
            /\ p.value \in Seq(Nat) /\ Fits(Len(p.value), U32)
        BY <4>2, <4>3, OneByteFits
      <4>5. p \in [label : Seq(Nat), value : Seq(Nat)]
        BY <4>2, <4>4
      <4> QED BY <4>4, <4>5 DEF Addable
    <3> QED BY <3>1
  <2>4. ps \in Seq(Addable) /\ qs \in Seq(Addable)
    <3>1. n \in Nat /\ k \in Nat
      BY InputsAssumption
    <3>2. ps \in [1 .. n -> Addable] /\ qs \in [1 .. k -> Addable]
      BY <2>3
    <3> QED BY <3>1, <3>2
  <2>5. TranscriptBytes(ps) = TranscriptBytes(qs) => ps = qs
    BY <2>4, TranscriptsBind
  <2> QED BY <2>2, <2>5 DEF TranscriptBinds
<1>2. CASE PickLabels
  <2>1. PICK l1, l2, c1, c2 \in StringsUpTo(1), th1, th2 \in Strings(HashLen), s1, s2 \in StringsUpTo(2) :
          input' = [about |-> "labels", label1 |-> l1, context1 |-> c1, label2 |-> l2, context2 |-> c2,
                    th1 |-> th1, core1 |-> s1, th2 |-> th2, core2 |-> s2]
    BY <1>2 DEF PickLabels
  <2>2. HkdfLabel(l1, c1) = HkdfLabel(l2, c2) => l1 = l2 /\ c1 = c2
    <3>1. /\ l1 \in Seq(Nat) /\ Fits(Len(l1), 1) /\ l2 \in Seq(Nat) /\ Fits(Len(l2), 1)
          /\ c1 \in Seq(Nat) /\ Fits(Len(c1), 1) /\ c2 \in Seq(Nat) /\ Fits(Len(c2), 1)
      BY OneByteFits
    <3> QED BY <3>1, LabelsBind
  <2>3. CertVerifyBytes(th1, s1) = CertVerifyBytes(th2, s2) => th1 = th2 /\ s1 = s2
    <3>1. HashLen \in Nat
      BY WidthsAssumption
    <3>2. th1 \in Seq(Byte) /\ Len(th1) = HashLen /\ th2 \in Seq(Byte) /\ Len(th2) = HashLen
      BY <3>1 DEF Strings
    <3>3. th1 \in Seq(Nat) /\ th2 \in Seq(Nat)
      BY <3>2, BytesAreNumbers
    <3>4. s1 \in Seq(Nat) /\ s2 \in Seq(Nat)
      BY ShortStrings
    <3> QED BY <3>2, <3>3, <3>4, SignedBytesBind
  <2> QED BY <2>1, <2>2, <2>3 DEF TranscriptBinds
<1>3. CASE PickMessage \/ PickFrame \/ PickPoints \/ PickScalar \/ PickBlind
  <2>1. input'.about \in {"message", "frame", "points", "scalar", "blind"}
    BY <1>3 DEF PickMessage, PickFrame, PickPoints, PickScalar, PickBlind
  <2> QED BY <2>1 DEF TranscriptBinds
<1> QED BY <1>1, <1>2, <1>3 DEF Pick

\* Equal hash inputs, equal parts: Transcript.add, _build_cv_message and
\* hkdf_expand_label, whatever the widths of their lengths.
THEOREM HashedBytesBind == Spec => []TranscriptBinds
<1>1. Init => TranscriptBinds
  BY DEF Init, Nothing, TranscriptBinds
<1>2. TranscriptBinds /\ [Next]_input => TranscriptBinds'
  <2>1. CASE Next
    BY <2>1, PickedBinds DEF Next
  <2>2. CASE UNCHANGED input
    BY <2>2 DEF TranscriptBinds
  <2> QED BY <2>1, <2>2
<1> QED BY <1>1, <1>2, PTL DEF Spec

-----------------------------------------------------------------------------
(* Layouts: what the reader reads, and the bytes that it reads back *)

\* The reader after each field of a layout.
Reads(d, start, layout, reader) ==
  reader[0] = start /\ \A i \in 1 .. Len(layout) : reader[i] = ReadField(d, reader[i - 1], layout[i])

\* ReadAll reads one field after the other.
LEMMA ReadAllUnfolds ==
  ASSUME NEW d, NEW start, NEW layout, Len(layout) \in Nat
  PROVE \E reader : Reads(d, start, layout, reader) /\ ReadAll(d, start, layout) = reader[Len(layout)]
<1> DEFINE N == Len(layout)
           Then(i, f) == IF i = 0 THEN start ELSE ReadField(d, f[i - 1], layout[i])
           Good(j, f) == f = [i \in 0 .. j |-> Then(i, f)]
           S == {j \in 0 .. N : \E f : Good(j, f)}
<1>1. 0 \in S
  <2>1. Good(0, [i \in 0 .. 0 |-> start])
    OBVIOUS
  <2> HIDE DEF Good
  <2>2. \E f : Good(0, f)
    BY <2>1
  <2> QED BY <2>2
<1>2. ASSUME NEW j \in 1 .. N, j - 1 \in S PROVE j \in S
  <2>1. PICK f : Good(j - 1, f)
    BY <1>2
  <2> DEFINE g == [i \in 0 .. j |-> IF i < j THEN f[i] ELSE ReadField(d, f[j - 1], layout[j])]
  <2>2. ASSUME NEW i \in 0 .. j PROVE g[i] = Then(i, g)
    <3>1. CASE i = 0
      BY <2>1, <3>1
    <3>2. CASE i \in 1 .. j - 1
      <4>1. g[i] = f[i] /\ g[i - 1] = f[i - 1] /\ i # 0
        BY <3>2
      <4>2. i \in 0 .. j - 1
        BY <3>2
      <4>3. f[i] = Then(i, f)
        BY <2>1, <4>2
      <4> QED BY <4>1, <4>3
    <3>3. CASE i = j
      <4>1. g[i] = ReadField(d, f[j - 1], layout[j]) /\ g[i - 1] = f[i - 1] /\ i # 0
        BY <3>3
      <4> QED BY <3>3, <4>1
    <3> QED BY <3>1, <3>2, <3>3
  <2>3. Good(j, g)
    BY <2>2
  <2> HIDE DEF g, Good
  <2>4. \E h : Good(j, h)
    BY <2>3
  <2> QED BY <2>4
<1>3. 0 .. N \subseteq S
  <2> HIDE DEF S, N
  <2>1. N \in Nat
    BY DEF N
  <2> QED BY <1>1, <1>2, <2>1, IntervalInduction
<1> DEFINE reader == CHOOSE f : Good(N, f)
<1>4. Good(N, reader)
  <2>1. \E f : Good(N, f)
    BY <1>3
  <2> HIDE DEF Good
  <2> QED BY <2>1
<1>5. ReadAll(d, start, layout) = reader[N]
  BY DEF ReadAll
<1> HIDE DEF reader
<1>6. Reads(d, start, layout, reader)
  <2>1. \A i \in 0 .. N : reader[i] = Then(i, reader)
    BY <1>4
  <2>2. reader[0] = start
    BY <2>1
  <2>3. ASSUME NEW i \in 1 .. N PROVE reader[i] = ReadField(d, reader[i - 1], layout[i])
    <3>1. i \in 0 .. N /\ i # 0
      OBVIOUS
    <3> QED BY <2>1, <3>1
  <2> QED BY <2>2, <2>3 DEF Reads
<1> QED BY <1>5, <1>6

\* What an encoder appends for a field, and what it has appended after each.
FieldBytes(m, f) == IF f.prefixed THEN BigEndian(Len(m[f.name]), f.n) \o m[f.name] ELSE m[f.name]
Built(prefix, m, layout, e) ==
  e[0] = prefix /\ \A i \in 1 .. Len(layout) : e[i] = e[i - 1] \o FieldBytes(m, layout[i])

\* A message has a byte string of the right length for a field.
Filled(m, f) ==
  /\ f.prefixed \in BOOLEAN /\ f.n \in Nat /\ m[f.name] \in Seq(Nat)
  /\ f.prefixed => Fits(Len(m[f.name]), f.n)
  /\ ~f.prefixed => Len(m[f.name]) = f.n

\* The bytes of a field are a byte string.
LEMMA FieldBytesAreBytes ==
  ASSUME NEW m, NEW f, Filled(m, f)
  PROVE FieldBytes(m, f) \in Seq(Nat)
<1> DEFINE x == m[f.name]
           b == BigEndian(Len(x), f.n)
<1>1. x \in Seq(Nat) /\ f.n \in Nat
  BY DEF Filled
<1>2. b \in Seq(Nat)
  <2> HIDE DEF x
  <2>1. Len(x) \in Nat
    BY <1>1
  <2> QED BY <1>1, <2>1, BigEndianBytes, BytesAreNumbers
<1>3. b \o x \in Seq(Nat)
  <2> HIDE DEF b, x
  <2> QED BY <1>1, <1>2, ConcatProperties
<1> QED BY <1>1, <1>3 DEF FieldBytes

\* read(n) where x begins, n bytes long.
LEMMA ReadBack ==
  ASSUME NEW p \in Seq(Nat), NEW x \in Seq(Nat), NEW t \in Seq(Nat), NEW got, NEW name
  PROVE Read((p \o x) \o t, [ok |-> TRUE, pos |-> Len(p), fields |-> got], name, Len(x)) =
        [ok |-> TRUE, pos |-> Len(p) + Len(x), fields |-> With(got, name, x)]
<1> DEFINE d == (p \o x) \o t
<1>1. Slice(d, Len(p), Len(x)) = x
  BY SliceOfConcat
<1> HIDE DEF d
<1> QED BY <1>1 DEF Read, d

\* A length and as many bytes, where they begin.
LEMMA ReadPrefixedBack ==
  ASSUME NEW p \in Seq(Nat), NEW x \in Seq(Nat), NEW t \in Seq(Nat), NEW got, NEW name,
         NEW width \in Nat, Fits(Len(x), width)
  PROVE ReadPrefixed((p \o (BigEndian(Len(x), width) \o x)) \o t,
                     [ok |-> TRUE, pos |-> Len(p), fields |-> got], name, width) =
        [ok |-> TRUE, pos |-> Len(p) + width + Len(x), fields |-> With(got, name, x)]
<1> DEFINE b == BigEndian(Len(x), width)
           d == (p \o (b \o x)) \o t
           r == [ok |-> TRUE, pos |-> Len(p), fields |-> got]
           rr == [ok |-> TRUE, pos |-> Len(p \o b), fields |-> got]
<1>1. Len(x) \in Nat
  OBVIOUS
<1>2. b \in Seq(Nat) /\ Len(b) = width /\ FromBigEndian(b) = Len(x)
  BY <1>1, BigEndianBytes, BytesAreNumbers, UnpackPacked
<1> HIDE DEF b
<1>3. p \o b \in Seq(Nat) /\ x \o t \in Seq(Nat) /\ Len(p \o b) = Len(p) + width
  BY <1>2, ConcatProperties
<1>4. d = ((p \o b) \o x) \o t
  <2>1. p \o (b \o x) = (p \o b) \o x
    <3>1. Regroups(p, b, x)
      BY <1>2, RegroupBytes
    <3> QED BY <3>1 DEF Regroups
  <2> QED BY <2>1
<1>5. d = (p \o b) \o (x \o t)
  <2>1. ((p \o b) \o x) \o t = (p \o b) \o (x \o t)
    <3>1. Regroups(p \o b, x, t)
      BY <1>3, RegroupBytes
    <3> QED BY <3>1 DEF Regroups
  <2> QED BY <1>4, <2>1
<1>6. Slice(d, Len(p), width) = b
  <2> DEFINE rest == x \o t
  <2>1. rest \in Seq(Nat)
    BY <1>3
  <2> HIDE DEF rest, d
  <2>2. Slice((p \o b) \o rest, Len(p), Len(b)) = b
    BY <1>2, <2>1, SliceOfConcat
  <2> QED BY <1>2, <1>5, <2>2 DEF rest
<1>7. Read(d, rr, name, Len(x)) = [ok |-> TRUE, pos |-> Len(p \o b) + Len(x), fields |-> With(got, name, x)]
  <2> DEFINE q == p \o b
  <2>1. q \in Seq(Nat) /\ d = (q \o x) \o t
    BY <1>3, <1>4
  <2> HIDE DEF q, d
  <2>2. Read((q \o x) \o t, [ok |-> TRUE, pos |-> Len(q), fields |-> got], name, Len(x)) =
        [ok |-> TRUE, pos |-> Len(q) + Len(x), fields |-> With(got, name, x)]
    BY <2>1, ReadBack
  <2> QED BY <2>1, <2>2 DEF q
<1>8. rr = [ok |-> TRUE, pos |-> r.pos + width, fields |-> r.fields] /\ r.ok
  BY <1>3
<1> HIDE DEF d, rr
<1>9. ReadPrefixed(d, r, name, width) = Read(d, rr, name, FromBigEndian(b))
  BY <1>2, <1>6, <1>8 DEF ReadPrefixed
<1>10. Len(p \o b) + Len(x) = Len(p) + width + Len(x)
  BY <1>3
<1>11. ReadPrefixed(d, r, name, width) = [ok |-> TRUE, pos |-> Len(p) + width + Len(x), fields |-> With(got, name, x)]
  BY <1>2, <1>7, <1>9, <1>10
<1> QED BY <1>11 DEF b, d

\* Either kind of field, where its bytes begin.
LEMMA ReadFieldBack ==
  ASSUME NEW p \in Seq(Nat), NEW t \in Seq(Nat), NEW m, NEW f, Filled(m, f), NEW got
  PROVE ReadField((p \o FieldBytes(m, f)) \o t, [ok |-> TRUE, pos |-> Len(p), fields |-> got], f) =
        [ok |-> TRUE, pos |-> Len(p \o FieldBytes(m, f)), fields |-> With(got, f.name, m[f.name])]
<1> DEFINE x == m[f.name]
           r == [ok |-> TRUE, pos |-> Len(p), fields |-> got]
<1>1. /\ x \in Seq(Nat) /\ f.n \in Nat /\ f.prefixed \in BOOLEAN
      /\ f.prefixed => Fits(Len(x), f.n)
      /\ ~f.prefixed => Len(x) = f.n
  BY DEF Filled
<1>2. CASE f.prefixed
  <2> DEFINE b == BigEndian(Len(x), f.n)
  <2>1. FieldBytes(m, f) = b \o x
    BY <1>2 DEF FieldBytes
  <2> HIDE DEF x
  <2>2. ReadPrefixed((p \o (b \o x)) \o t, r, f.name, f.n) =
        [ok |-> TRUE, pos |-> Len(p) + f.n + Len(x), fields |-> With(got, f.name, x)]
    <3> DEFINE w == f.n
    <3>1. w \in Nat /\ Fits(Len(x), w) /\ x \in Seq(Nat)
      BY <1>1, <1>2
    <3> HIDE DEF w
    <3>2. ReadPrefixed((p \o (BigEndian(Len(x), w) \o x)) \o t, r, f.name, w) =
          [ok |-> TRUE, pos |-> Len(p) + w + Len(x), fields |-> With(got, f.name, x)]
      BY <3>1, ReadPrefixedBack, Z3T(30)
    <3> QED BY <3>2 DEF w
  <2>3. Len(p \o (b \o x)) = Len(p) + f.n + Len(x)
    <3>1. Len(x) \in Nat
      BY <1>1
    <3>2. b \in Seq(Nat) /\ Len(b) = f.n
      BY <1>1, <3>1, BigEndianBytes, BytesAreNumbers
    <3> HIDE DEF b
    <3>3. b \o x \in Seq(Nat) /\ Len(b \o x) = f.n + Len(x)
      BY <1>1, <3>2, ConcatProperties
    <3>4. Len(p \o (b \o x)) = Len(p) + Len(b \o x)
      BY <3>3, ConcatProperties
    <3>5. Len(p) \in Nat
      OBVIOUS
    <3> QED BY <1>1, <3>1, <3>3, <3>4, <3>5
  <2> HIDE DEF b, r
  <2> QED BY <1>2, <2>1, <2>2, <2>3 DEF ReadField, x, r
<1>3. CASE ~f.prefixed
  <2>1. FieldBytes(m, f) = x
    BY <1>3 DEF FieldBytes
  <2> HIDE DEF x
  <2>2. Read((p \o x) \o t, r, f.name, Len(x)) =
        [ok |-> TRUE, pos |-> Len(p) + Len(x), fields |-> With(got, f.name, x)]
    BY <1>1, ReadBack
  <2>3. Len(p \o x) = Len(p) + Len(x)
    BY <1>1, ConcatProperties
  <2>4. Len(x) = f.n
    BY <1>1, <1>3
  <2> HIDE DEF r
  <2> QED BY <1>3, <2>1, <2>2, <2>3, <2>4 DEF ReadField, x, r
<1> QED BY <1>1, <1>2, <1>3

\* What is built of the fields of a message exists and is a byte string.
LEMMA BuiltExists ==
  ASSUME NEW prefix \in Seq(Nat), NEW m, NEW layout, Len(layout) \in Nat,
         \A i \in 1 .. Len(layout) : Filled(m, layout[i])
  PROVE \E e \in [0 .. Len(layout) -> Seq(Nat)] : Built(prefix, m, layout, e)
<1> DEFINE N == Len(layout)
           step == [i \in 1 .. N |-> [b \in Seq(Nat) |-> b \o FieldBytes(m, layout[i])]]
<1>1. ASSUME NEW i \in 1 .. N, NEW b \in Seq(Nat) PROVE b \o FieldBytes(m, layout[i]) \in Seq(Nat)
  <2>1. FieldBytes(m, layout[i]) \in Seq(Nat)
    BY FieldBytesAreBytes
  <2> QED BY <2>1, ConcatProperties
<1>2. step \in Steps(N, Seq(Nat))
  BY <1>1 DEF Steps
<1>3. N \in Nat
  OBVIOUS
<1> DEFINE D == Seq(Nat)
<1>4. prefix \in D /\ step \in Steps(N, D)
  BY <1>2
<1>5. ASSUME NEW i \in 1 .. N, NEW b \in D PROVE step[i][b] = b \o FieldBytes(m, layout[i])
  OBVIOUS
<1> HIDE DEF step, D, N
<1>6. Runs(N, D, prefix, step) # {}
  BY <1>3, <1>4, RecursionExists
<1>7. PICK e \in [0 .. N -> D] : e[0] = prefix /\ \A i \in 1 .. N : e[i] = step[i][e[i - 1]]
  BY <1>6 DEF Runs
<1>8. ASSUME NEW i \in 1 .. N PROVE e[i] = e[i - 1] \o FieldBytes(m, layout[i])
  <2>1. e[i - 1] \in D
    BY <1>3
  <2> QED BY <1>5, <1>7, <2>1
<1> QED BY <1>7, <1>8 DEF Built, N, D

Names(layout, k) == {layout[i].name : i \in 1 .. k}

FirstFields(m, layout, k) == [x \in Names(layout, k) |-> m[x]]

\* One more field under its name.
LEMMA OneMoreName ==
  ASSUME NEW layout, NEW k \in Nat \ {0}, NEW m
  PROVE With(FirstFields(m, layout, k - 1), layout[k].name, m[layout[k].name]) = FirstFields(m, layout, k)
<1>1. Names(layout, k) = Names(layout, k - 1) \cup {layout[k].name}
  BY DEF Names
<1> QED BY <1>1 DEF With, FirstFields

\* What is built of the fields of a message is read back, whatever follows.
LEMMA ReadsBack ==
  ASSUME NEW layout, Len(layout) \in Nat, NEW m, NEW prefix \in Seq(Nat), NEW trailing \in Seq(Nat),
         \A i \in 1 .. Len(layout) : Filled(m, layout[i]),
         NEW e \in [0 .. Len(layout) -> Seq(Nat)], Built(prefix, m, layout, e)
  PROVE /\ ReadAll(e[Len(layout)] \o trailing, At(Len(prefix)), layout) =
             [ok |-> TRUE, pos |-> Len(e[Len(layout)]), fields |-> FirstFields(m, layout, Len(layout))]
        /\ \E t \in Seq(Nat) : e[Len(layout)] \o trailing = prefix \o t
<1> DEFINE N == Len(layout)
           d == e[N] \o trailing
           Follows(k, t) == d = e[k] \o t
           S == {j \in 0 .. N : \E t \in Seq(Nat) : Follows(N - j, t)}
           After(k) == [ok |-> TRUE, pos |-> Len(e[k]), fields |-> FirstFields(m, layout, k)]
<1>0. N \in Nat /\ e[0] = prefix /\ \A i \in 1 .. N : e[i] = e[i - 1] \o FieldBytes(m, layout[i])
  BY DEF Built
<1>1. \A i \in 1 .. N : FieldBytes(m, layout[i]) \in Seq(Nat)
  BY FieldBytesAreBytes
<1>2. 0 \in S
  <2>1. Follows(N, trailing) /\ N - 0 = N
    BY <1>0
  <2> HIDE DEF Follows, N
  <2>2. \E t \in Seq(Nat) : Follows(N - 0, t)
    BY <2>1
  <2> QED BY <1>0, <2>2
<1>3. ASSUME NEW j \in 1 .. N, j - 1 \in S PROVE j \in S
  <2>1. PICK t \in Seq(Nat) : Follows(N - (j - 1), t)
    BY <1>3
  <2> DEFINE k == N - (j - 1)
             b == FieldBytes(m, layout[k])
             p == e[k - 1]
  <2>2. k \in 1 .. N /\ k - 1 = N - j /\ k - 1 \in 0 .. N
    BY <1>0
  <2>3. e[k] = p \o b /\ b \in Seq(Nat) /\ p \in Seq(Nat)
    BY <1>0, <1>1, <2>2
  <2>4. d = (p \o b) \o t
    BY <2>1, <2>3
  <2> HIDE DEF b, p, d, k
  <2>5. d = p \o (b \o t) /\ b \o t \in Seq(Nat)
    <3>0. Regroups(p, b, t)
      BY <2>3, RegroupBytes
    <3>1. (p \o b) \o t = p \o (b \o t)
      BY <3>0 DEF Regroups
    <3>2. b \o t \in Seq(Nat)
      BY <2>3, ConcatProperties
    <3> QED BY <2>4, <3>1, <3>2
  <2> DEFINE rest == b \o t
  <2>6. Follows(N - j, rest) /\ rest \in Seq(Nat)
    BY <2>2, <2>5 DEF p
  <2> HIDE DEF Follows, rest
  <2>7. \E u \in Seq(Nat) : Follows(N - j, u)
    BY <2>6
  <2> QED BY <2>7
<1>4. \A k \in 0 .. N : \E t \in Seq(Nat) : Follows(k, t)
  <2> HIDE DEF S, N
  <2>1. 0 .. N \subseteq S
    BY <1>0, <1>2, <1>3, IntervalInduction
  <2> HIDE DEF Follows
  <2>2. ASSUME NEW k \in 0 .. N PROVE \E t \in Seq(Nat) : Follows(k, t)
    <3>1. N - k \in 0 .. N /\ N - (N - k) = k
      BY <1>0
    <3>2. N - k \in S
      BY <2>1, <3>1
    <3> QED BY <3>1, <3>2 DEF S
  <2> QED BY <2>2
<1>5. PICK r : Reads(d, At(Len(prefix)), layout, r) /\ ReadAll(d, At(Len(prefix)), layout) = r[N]
  BY <1>0, ReadAllUnfolds
<1>6. r[0] = At(Len(prefix)) /\ \A i \in 1 .. N : r[i] = ReadField(d, r[i - 1], layout[i])
  BY <1>5 DEF Reads
<1> HIDE DEF d
<1> DEFINE T == {k \in 0 .. N : r[k] = After(k)}
<1>7. 0 \in T
  <2>1. Names(layout, 0) = {}
    BY DEF Names
  <2>2. FirstFields(m, layout, 0) = <<>>
    BY <2>1 DEF FirstFields
  <2>3. r[0] = [ok |-> TRUE, pos |-> Len(prefix), fields |-> <<>>]
    BY <1>6 DEF At
  <2>4. After(0) = [ok |-> TRUE, pos |-> Len(prefix), fields |-> <<>>]
    BY <1>0, <2>2
  <2>5. r[0] = After(0)
    BY <2>3, <2>4
  <2>6. 0 \in 0 .. N
    BY <1>0
  <2> HIDE DEF After, N
  <2> QED BY <2>5, <2>6
<1>8. ASSUME NEW k \in 1 .. N, k - 1 \in T PROVE k \in T
  <2> DEFINE f == layout[k]
             p == e[k - 1]
             got == FirstFields(m, layout, k - 1)
  <2>0. k \in 0 .. N /\ k - 1 \in 0 .. N /\ k \in Nat \ {0}
    BY <1>0
  <2>1. PICK t \in Seq(Nat) : d = e[k] \o t
    <3>1. \E t \in Seq(Nat) : Follows(k, t)
      BY <1>4, <2>0
    <3> QED BY <3>1
  <2>2. e[k] = p \o FieldBytes(m, f) /\ p \in Seq(Nat) /\ Filled(m, f)
    BY <1>0, <2>0
  <2>3. ReadField((p \o FieldBytes(m, f)) \o t, [ok |-> TRUE, pos |-> Len(p), fields |-> got], f) =
        [ok |-> TRUE, pos |-> Len(p \o FieldBytes(m, f)), fields |-> With(got, f.name, m[f.name])]
    <3> HIDE DEF p, got, f
    <3> QED BY <2>2, ReadFieldBack
  <2>4. With(got, f.name, m[f.name]) = FirstFields(m, layout, k)
    BY <2>0, OneMoreName
  <2>5. r[k - 1] = [ok |-> TRUE, pos |-> Len(p), fields |-> got]
    BY <1>8
  <2>6. r[k] = ReadField(d, r[k - 1], f)
    BY <1>6
  <2>7. r[k] = After(k)
    <3> HIDE DEF p, got, f
    <3> QED BY <2>1, <2>2, <2>3, <2>4, <2>5, <2>6
  <2> QED BY <2>7
<1> HIDE DEF T, N
<1>9. 0 .. N \subseteq T
  BY <1>0, <1>7, <1>8, IntervalInduction
<1>10. r[N] = After(N)
  BY <1>0, <1>9 DEF T
<1>11. PICK t \in Seq(Nat) : d = prefix \o t
  <2>1. \E t \in Seq(Nat) : Follows(0, t)
    <3>1. 0 \in 0 .. N
      BY <1>0
    <3> HIDE DEF Follows
    <3> QED BY <1>4, <3>1
  <2> QED BY <1>0, <2>1
<1> QED BY <1>5, <1>10, <1>11 DEF d, N

-----------------------------------------------------------------------------
(* What the reader accepts *)

\* A slice is whole where the string has as many bytes behind its start.
LEMMA SliceWhole ==
  ASSUME NEW d \in Seq(Nat), NEW pos \in Nat, pos <= Len(d), NEW n \in Nat
  PROVE /\ Slice(d, pos, n) \in Seq(Nat)
        /\ Len(Slice(d, pos, n)) = n <=> pos + n <= Len(d)
<1>1. /\ Slice(d, pos, n) \in Seq(Nat)
      /\ Len(Slice(d, pos, n)) = IF pos + n <= Len(d) THEN n
                                 ELSE IF pos <= Len(d) THEN Len(d) - pos ELSE 0
  BY SliceBounds
<1>2. Len(d) \in Nat
  OBVIOUS
<1> DEFINE s == Slice(d, pos, n)
<1> HIDE DEF s
<1> QED BY <1>1, <1>2 DEF s

\* read(n) succeeds exactly where n bytes are left, and returns them.
LEMMA ReadAt ==
  ASSUME NEW d \in Seq(Nat), NEW pos \in Nat, pos <= Len(d), NEW n \in Nat, NEW got, NEW name
  PROVE Read(d, [ok |-> TRUE, pos |-> pos, fields |-> got], name, n) =
        IF pos + n <= Len(d)
        THEN [ok |-> TRUE, pos |-> pos + n, fields |-> With(got, name, Slice(d, pos, n))]
        ELSE Failed
<1>1. Len(Slice(d, pos, n)) = n <=> pos + n <= Len(d)
  BY SliceWhole
<1> QED BY <1>1 DEF Read

\* So does a read of a length and as many bytes.
LEMMA ReadPrefixedAt ==
  ASSUME NEW d \in Seq(Nat), NEW pos \in Nat, pos <= Len(d), NEW width \in Nat, NEW got, NEW name,
         NEW length, length = FromBigEndian(Slice(d, pos, width))
  PROVE /\ length \in Nat
        /\ ReadPrefixed(d, [ok |-> TRUE, pos |-> pos, fields |-> got], name, width) =
           IF pos + width <= Len(d) /\ pos + width + length <= Len(d)
           THEN [ok |-> TRUE, pos |-> pos + width + length,
                 fields |-> With(got, name, Slice(d, pos + width, length))]
           ELSE Failed
<1> DEFINE s == Slice(d, pos, width)
           r == [ok |-> TRUE, pos |-> pos, fields |-> got]
           next == [ok |-> TRUE, pos |-> pos + width, fields |-> got]
<1>1. s \in Seq(Nat) /\ (Len(s) = width <=> pos + width <= Len(d))
  BY SliceWhole
<1>2. length \in Nat
  <2> HIDE DEF s
  <2>1. Len(s) \in Nat /\ Len(s) \in 0 .. Len(s)
    BY <1>1
  <2>2. PICK value \in [0 .. Len(s) -> Nat] : FromBigEndian(s) = value[Len(s)]
    BY <1>1, FromBigEndianUnfolds
  <2>3. value[Len(s)] \in Nat
    BY <2>1
  <2> QED BY <2>2, <2>3 DEF s
<1>3. ReadPrefixed(d, r, name, width) = IF Len(s) # width THEN Failed ELSE Read(d, next, name, length)
  BY DEF ReadPrefixed
<1>4. CASE pos + width <= Len(d)
  <2> DEFINE p == pos + width
  <2>1. p \in Nat /\ p <= Len(d)
    BY <1>4
  <2>2. Read(d, [ok |-> TRUE, pos |-> p, fields |-> got], name, length) =
        IF p + length <= Len(d)
        THEN [ok |-> TRUE, pos |-> p + length, fields |-> With(got, name, Slice(d, p, length))]
        ELSE Failed
    <3> HIDE DEF p
    <3> QED BY <1>2, <2>1, ReadAt
  <2> QED BY <1>1, <1>2, <1>3, <1>4, <2>2
<1>5. CASE ~(pos + width <= Len(d))
  BY <1>1, <1>2, <1>3, <1>5
<1> QED BY <1>4, <1>5

\* The byte string x is what a field holds, and the bytes that encode it.
Fills(x, f) ==
  /\ x \in Seq(Nat)
  /\ f.prefixed => Fits(Len(x), f.n)
  /\ ~f.prefixed => Len(x) = f.n
ValueBytes(x, f) == IF f.prefixed THEN BigEndian(Len(x), f.n) \o x ELSE x

\* Bytes from a position on, whatever is in front.
BytesFrom(d, start) == \A i \in start + 1 .. Len(d) : d[i] \in Byte

\* Where a slice is whole, it follows what is before it.
LEMMA SliceFollows ==
  ASSUME NEW d \in Seq(Nat), NEW pos \in Nat, NEW n \in Nat, pos + n <= Len(d)
  PROVE /\ SubSeq(d, 1, pos) \in Seq(Nat) /\ Slice(d, pos, n) \in Seq(Nat)
        /\ SubSeq(d, 1, pos) \o Slice(d, pos, n) = SubSeq(d, 1, pos + n)
<1>1. Slice(d, pos, n) = SubSeq(d, pos + 1, pos + n) /\ Slice(d, pos, n) \in Seq(Nat)
  BY SliceBounds
<1>2. SubSeq(d, 1, pos) \o SubSeq(d, pos + 1, pos + n) = SubSeq(d, 1, pos + n)
  OBVIOUS
<1>3. SubSeq(d, 1, pos) \in Seq(Nat)
  OBVIOUS
<1> QED BY <1>1, <1>2, <1>3

\* A whole slice behind the start is made of bytes.
LEMMA SliceOfBytes ==
  ASSUME NEW d \in Seq(Nat), NEW start \in Nat, BytesFrom(d, start),
         NEW pos \in Nat, start <= pos, NEW n \in Nat, pos + n <= Len(d)
  PROVE Slice(d, pos, n) \in Seq(Byte) /\ Len(Slice(d, pos, n)) = n
<1>1. Slice(d, pos, n) = SubSeq(d, pos + 1, pos + n)
  BY SliceBounds
<1>2. SubSeq(d, pos + 1, pos + n) = [i \in 1 .. n |-> d[pos + i]]
  OBVIOUS
<1>3. \A i \in 1 .. n : d[pos + i] \in Byte
  BY DEF BytesFrom
<1>4. [i \in 1 .. n |-> d[pos + i]] \in [1 .. n -> Byte]
  BY <1>3
<1>5. \A b \in [1 .. n -> Byte] : b \in Seq(Byte) /\ Len(b) = n
  OBVIOUS
<1> QED BY <1>1, <1>2, <1>4, <1>5

\* What a field takes from one position of the frame to the next.
Takes(d, pos, to, x, f) ==
  /\ to \in Nat /\ pos <= to /\ to <= Len(d)
  /\ Fills(x, f)
  /\ SubSeq(d, 1, pos) \o ValueBytes(x, f) = SubSeq(d, 1, to)

\* A read that succeeds takes the bytes of its field.
LEMMA ReadFieldTakes ==
  ASSUME NEW d \in Seq(Nat), NEW start \in Nat, BytesFrom(d, start),
         NEW pos \in Nat, start <= pos, pos <= Len(d),
         NEW f, f.prefixed \in BOOLEAN, f.n \in Nat, NEW got,
         ReadField(d, [ok |-> TRUE, pos |-> pos, fields |-> got], f).ok
  PROVE \E to, x : /\ Takes(d, pos, to, x, f)
                   /\ ReadField(d, [ok |-> TRUE, pos |-> pos, fields |-> got], f) =
                        [ok |-> TRUE, pos |-> to, fields |-> With(got, f.name, x)]
<1> DEFINE r == ReadField(d, [ok |-> TRUE, pos |-> pos, fields |-> got], f)
           n == f.n
           Taken(to, x) == /\ Takes(d, pos, to, x, f)
                           /\ r = [ok |-> TRUE, pos |-> to, fields |-> With(got, f.name, x)]
<1>0. Len(d) \in Nat /\ n \in Nat /\ ~Failed.ok
  BY DEF Failed
<1>1. CASE ~f.prefixed
  <2> DEFINE x == Slice(d, pos, n)
             to == pos + n
  <2>1. r = Read(d, [ok |-> TRUE, pos |-> pos, fields |-> got], f.name, n)
    BY <1>1 DEF ReadField
  <2>2. r = IF to <= Len(d) THEN [ok |-> TRUE, pos |-> to, fields |-> With(got, f.name, x)] ELSE Failed
    <3> HIDE DEF r
    <3> QED BY <1>0, <2>1, ReadAt
  <2>3. to <= Len(d) /\ r = [ok |-> TRUE, pos |-> to, fields |-> With(got, f.name, x)]
    <3> r.ok
      OBVIOUS
    <3> HIDE DEF r, to, x
    <3> QED BY <1>0, <2>2
  <2>4. x \in Seq(Nat) /\ Len(x) = n /\ SubSeq(d, 1, pos) \o x = SubSeq(d, 1, to)
    <3>1. x \in Seq(Nat) /\ Len(x) = n
      BY <1>0, <2>3, SliceWhole
    <3>2. SubSeq(d, 1, pos) \o x = SubSeq(d, 1, to)
      BY <1>0, <2>3, SliceFollows
    <3> QED BY <3>1, <3>2
  <2>5. Fills(x, f) /\ ValueBytes(x, f) = x
    BY <1>1, <2>4 DEF Fills, ValueBytes
  <2>6. to \in Nat /\ pos <= to
    BY <1>0
  <2> HIDE DEF x, to, r
  <2>7. Taken(to, x)
    BY <2>3, <2>4, <2>5, <2>6 DEF Takes
  <2> HIDE DEF Taken
  <2>8. \E t, y : Taken(t, y)
    BY <2>7
  <2> QED BY <2>8 DEF Taken, r
<1>2. CASE f.prefixed
  <2> DEFINE b == Slice(d, pos, n)
             length == FromBigEndian(b)
             p == pos + n
             x == Slice(d, p, length)
             to == p + length
  <2>1. r = ReadPrefixed(d, [ok |-> TRUE, pos |-> pos, fields |-> got], f.name, n)
    BY <1>2 DEF ReadField
  <2>2. /\ length \in Nat
        /\ r = IF p <= Len(d) /\ to <= Len(d)
               THEN [ok |-> TRUE, pos |-> to, fields |-> With(got, f.name, x)] ELSE Failed
    <3> DEFINE l == length
    <3>1. l = FromBigEndian(Slice(d, pos, n))
      OBVIOUS
    <3> HIDE DEF r, l, n
    <3>2. /\ l \in Nat
          /\ ReadPrefixed(d, [ok |-> TRUE, pos |-> pos, fields |-> got], f.name, n) =
             IF pos + n <= Len(d) /\ pos + n + l <= Len(d)
             THEN [ok |-> TRUE, pos |-> pos + n + l,
                   fields |-> With(got, f.name, Slice(d, pos + n, l))]
             ELSE Failed
      BY <1>0, <3>1, ReadPrefixedAt
    <3> QED BY <2>1, <3>2 DEF l
  <2>3. p <= Len(d) /\ to <= Len(d) /\ r = [ok |-> TRUE, pos |-> to, fields |-> With(got, f.name, x)]
    <3> r.ok
      OBVIOUS
    <3> HIDE DEF r, to, x, p
    <3> QED BY <1>0, <2>2
  <2>4. b \in Seq(Byte) /\ Len(b) = n /\ b \in Seq(Nat) /\ SubSeq(d, 1, pos) \o b = SubSeq(d, 1, p)
    <3>1. b \in Seq(Byte) /\ Len(b) = n
      BY <1>0, <2>3, SliceOfBytes
    <3>2. b \in Seq(Nat)
      <4> HIDE DEF b
      <4> QED BY <3>1, BytesAreNumbers
    <3>3. SubSeq(d, 1, pos) \o b = SubSeq(d, 1, p)
      BY <1>0, <2>3, SliceFollows
    <3> QED BY <3>1, <3>2, <3>3
  <2>5. Fits(length, n) /\ BigEndian(length, n) = b
    <3> HIDE DEF b
    <3> QED BY <2>4, PackUnpacked
  <2>6. p \in Nat /\ pos <= p /\ to \in Nat /\ pos <= to
    BY <1>0, <2>2
  <2>7. x \in Seq(Nat) /\ Len(x) = length /\ SubSeq(d, 1, p) \o x = SubSeq(d, 1, to)
    <3> HIDE DEF length, p
    <3>1. x \in Seq(Nat) /\ Len(x) = length
      BY <2>2, <2>3, <2>6, SliceWhole
    <3>2. SubSeq(d, 1, p) \o x = SubSeq(d, 1, to)
      BY <2>2, <2>3, <2>6, SliceFollows
    <3> QED BY <3>1, <3>2
  <2>8. Fills(x, f) /\ ValueBytes(x, f) = b \o x
    BY <1>2, <2>5, <2>7 DEF Fills, ValueBytes
  <2> HIDE DEF x, to, r, b, p, n, length
  <2>9. SubSeq(d, 1, pos) \o (b \o x) = SubSeq(d, 1, to)
    <3> DEFINE s == SubSeq(d, 1, pos)
    <3>1. s \in Seq(Nat)
      OBVIOUS
    <3> HIDE DEF s
    <3>a. Regroups(s, b, x)
      BY <2>4, <2>7, <3>1, RegroupBytes
    <3>2. s \o (b \o x) = (s \o b) \o x
      BY <3>a DEF Regroups
    <3> QED BY <2>4, <2>7, <3>2 DEF s
  <2>10. Taken(to, x)
    BY <2>3, <2>6, <2>8, <2>9 DEF Takes
  <2> HIDE DEF Taken
  <2>11. \E t, y : Taken(t, y)
    BY <2>10
  <2> QED BY <2>11 DEF Taken, r
<1> QED BY <1>1, <1>2

\* A layout as the decoders have them: a length in bytes for every field, and
\* no name twice.
Readable(layout) ==
  /\ Len(layout) \in Nat
  /\ \A i \in 1 .. Len(layout) : layout[i].prefixed \in BOOLEAN /\ layout[i].n \in Nat
  /\ \A i, j \in 1 .. Len(layout) : layout[i].name = layout[j].name => i = j

\* The message m, in the layout, behind the first start bytes of the frame
\* and up to the position.
Holds(d, start, layout, m, pos) ==
  /\ pos \in Nat /\ start <= pos /\ pos <= Len(d)
  /\ \A i \in 1 .. Len(layout) : Filled(m, layout[i])
  /\ m = FirstFields(m, layout, Len(layout))
  /\ \E e \in [0 .. Len(layout) -> Seq(Nat)] :
       Built(SubSeq(d, 1, start), m, layout, e) /\ e[Len(layout)] = SubSeq(d, 1, pos)

\* A reader of k fields that has not failed.
Reading(d, start, layout, r, k) ==
  /\ r[k].ok
  /\ r[k] = [ok |-> TRUE, pos |-> r[k].pos, fields |-> r[k].fields]
  /\ r[k].pos \in Nat /\ start <= r[k].pos /\ r[k].pos <= Len(d)
  /\ DOMAIN r[k].fields = Names(layout, k)
  /\ r[k].fields = FirstFields(r[k].fields, layout, k)
  /\ \A i \in 1 .. k : Takes(d, r[i - 1].pos, r[i].pos, r[k].fields[layout[i].name], layout[i])

\* One field more.
LEMMA ReadingStep ==
  ASSUME NEW d \in Seq(Nat), NEW start \in Nat, BytesFrom(d, start),
         NEW layout, Readable(layout), NEW r,
         NEW k \in 1 .. Len(layout), r[k] = ReadField(d, r[k - 1], layout[k]), r[k].ok,
         Reading(d, start, layout, r, k - 1)
  PROVE Reading(d, start, layout, r, k)
<1> DEFINE f == layout[k]
           pos == r[k - 1].pos
           got == r[k - 1].fields
<1>1. /\ f.prefixed \in BOOLEAN /\ f.n \in Nat /\ k \in Nat \ {0}
      /\ \A i \in 1 .. k - 1 : layout[i].name # f.name
  BY DEF Readable
<1>2. /\ r[k - 1] = [ok |-> TRUE, pos |-> pos, fields |-> got]
      /\ pos \in Nat /\ start <= pos /\ pos <= Len(d)
      /\ got = FirstFields(got, layout, k - 1) /\ DOMAIN got = Names(layout, k - 1)
      /\ \A i \in 1 .. k - 1 : Takes(d, r[i - 1].pos, r[i].pos, got[layout[i].name], layout[i])
  BY DEF Reading
<1>3. PICK to, x : /\ Takes(d, pos, to, x, f)
                   /\ r[k] = [ok |-> TRUE, pos |-> to, fields |-> With(got, f.name, x)]
  <2> HIDE DEF f, pos, got
  <2>1. ReadField(d, [ok |-> TRUE, pos |-> pos, fields |-> got], f).ok
    BY <1>2 DEF f
  <2>2. pos \in Nat /\ start <= pos /\ pos <= Len(d) /\ f.prefixed \in BOOLEAN /\ f.n \in Nat
    BY <1>1, <1>2
  <2>3. \E to, x : /\ Takes(d, pos, to, x, f)
                   /\ ReadField(d, [ok |-> TRUE, pos |-> pos, fields |-> got], f) =
                        [ok |-> TRUE, pos |-> to, fields |-> With(got, f.name, x)]
    BY <2>1, <2>2, ReadFieldTakes
  <2> QED BY <1>2, <2>3 DEF f
<1> DEFINE new == With(got, f.name, x)
<1>4. r[k].pos = to /\ r[k].fields = new
  BY <1>3
<1>5. Names(layout, k) = Names(layout, k - 1) \cup {f.name}
  BY <1>1 DEF Names
<1>6. DOMAIN new = Names(layout, k) /\ new = [y \in Names(layout, k) |-> new[y]]
  BY <1>2, <1>5 DEF With
<1>7. new[f.name] = x /\ \A i \in 1 .. k - 1 : new[layout[i].name] = got[layout[i].name]
  <2>1. ASSUME NEW i \in 1 .. k - 1 PROVE layout[i].name \in DOMAIN got
    BY <1>2 DEF Names
  <2>2. \A i \in 1 .. k - 1 : layout[i].name # f.name
    BY <1>1
  <2> HIDE DEF got, f
  <2>3. new[f.name] = x
    BY DEF With
  <2>4. ASSUME NEW i \in 1 .. k - 1 PROVE new[layout[i].name] = got[layout[i].name]
    BY <2>1, <2>2, <2>4 DEF With
  <2> QED BY <2>3, <2>4
<1> HIDE DEF new
<1>8. ASSUME NEW i \in 1 .. k PROVE Takes(d, r[i - 1].pos, r[i].pos, new[layout[i].name], layout[i])
  <2>1. CASE i = k
    BY <1>3, <1>4, <1>7, <2>1
  <2>2. CASE i \in 1 .. k - 1
    BY <1>2, <1>7, <2>2
  <2> QED BY <1>1, <2>1, <2>2
<1>9. to \in Nat /\ start <= to /\ to <= Len(d)
  <2>1. pos \in Nat /\ Len(d) \in Nat
    BY <1>2
  <2>2. start <= pos /\ start \in Nat
    BY <1>2
  <2>3. Takes(d, pos, to, x, f)
    BY <1>3
  <2> HIDE DEF f, pos, got
  <2> QED BY <2>1, <2>2, <2>3 DEF Takes
<1>10. new = FirstFields(new, layout, k)
  BY <1>6 DEF FirstFields
<1>11. r[k] = [ok |-> TRUE, pos |-> to, fields |-> new]
  BY <1>3 DEF new
<1> HIDE DEF f, pos, got
<1> QED BY <1>4, <1>6, <1>8, <1>9, <1>10, <1>11 DEF Reading

\* A read that follows an error fails.
LEMMA NoReadAfterError ==
  ASSUME NEW d, NEW r, NEW f, ReadField(d, r, f).ok, f.prefixed \in BOOLEAN
  PROVE r.ok
  BY DEF ReadField, Read, ReadPrefixed, Failed

\* What is read lies in the frame, field by field, as an encoder would put it.
LEMMA ReadsTake ==
  ASSUME NEW d \in Seq(Nat), NEW start \in Nat, start <= Len(d), BytesFrom(d, start),
         NEW layout, Readable(layout),
         NEW read, read = ReadAll(d, At(start), layout), read.ok
  PROVE /\ read = [ok |-> TRUE, pos |-> read.pos, fields |-> read.fields]
        /\ Holds(d, start, layout, read.fields, read.pos)
<1> DEFINE N == Len(layout)
<1>0. N \in Nat /\ \A i \in 1 .. N : layout[i].prefixed \in BOOLEAN /\ layout[i].n \in Nat
  BY DEF Readable
<1>1. PICK r : Reads(d, At(start), layout, r) /\ read = r[N]
  BY <1>0, ReadAllUnfolds
<1>2. r[0] = At(start) /\ \A i \in 1 .. N : r[i] = ReadField(d, r[i - 1], layout[i])
  BY <1>1 DEF Reads
<1> DEFINE S == {k \in 0 .. N : r[k].ok => Reading(d, start, layout, r, k)}
<1>3. 0 \in S
  <2>1. r[0] = [ok |-> TRUE, pos |-> start, fields |-> <<>>]
    BY <1>2 DEF At
  <2>2. Names(layout, 0) = {}
    BY DEF Names
  <2>3. DOMAIN r[0].fields = Names(layout, 0)
    BY <2>1, <2>2
  <2>4. <<>> = FirstFields(<<>>, layout, 0)
    BY <2>2 DEF FirstFields
  <2>5. Reading(d, start, layout, r, 0)
    BY <2>1, <2>3, <2>4 DEF Reading
  <2>6. 0 \in 0 .. N
    BY <1>0
  <2> QED BY <2>5, <2>6
<1>4. ASSUME NEW k \in 1 .. N, k - 1 \in S PROVE k \in S
  <2>1. SUFFICES ASSUME r[k].ok PROVE Reading(d, start, layout, r, k)
    BY <1>0
  <2>2. r[k] = ReadField(d, r[k - 1], layout[k])
    BY <1>2
  <2>3. r[k - 1].ok
    BY <1>0, <2>1, <2>2, NoReadAfterError
  <2>4. Reading(d, start, layout, r, k - 1)
    BY <1>4, <2>3
  <2> QED BY <2>1, <2>2, <2>4, ReadingStep
<1>5. Reading(d, start, layout, r, N)
  <2> HIDE DEF S, N
  <2>1. 0 .. N \subseteq S
    BY <1>0, <1>3, <1>4, IntervalInduction
  <2>2. N \in S
    BY <1>0, <2>1
  <2> QED BY <1>1, <2>2 DEF S
<1> DEFINE m == read.fields
           e == [i \in 0 .. N |-> SubSeq(d, 1, r[i].pos)]
<1>6. /\ read = [ok |-> TRUE, pos |-> read.pos, fields |-> m]
      /\ read.pos \in Nat /\ start <= read.pos /\ read.pos <= Len(d)
      /\ m = FirstFields(m, layout, N)
      /\ \A i \in 1 .. N : Takes(d, r[i - 1].pos, r[i].pos, m[layout[i].name], layout[i])
  BY <1>1, <1>5 DEF Reading
<1>7. \A i \in 1 .. N : Filled(m, layout[i])
  <2> HIDE DEF m
  <2> QED BY <1>0, <1>6 DEF Takes, Fills, Filled
<1>8. \A i \in 0 .. N : r[i].pos \in Nat
  <2>1. r[0].pos = start
    BY <1>2 DEF At
  <2>2. \A i \in 1 .. N : r[i].pos \in Nat
    BY <1>6 DEF Takes
  <2> QED BY <1>0, <2>1, <2>2
<1>9. e \in [0 .. N -> Seq(Nat)]
  <2>1. ASSUME NEW i \in 0 .. N PROVE SubSeq(d, 1, r[i].pos) \in Seq(Nat)
    <3> DEFINE p == r[i].pos
    <3>1. p \in Nat
      BY <1>8
    <3>2. p <= Len(d)
      <4>1. CASE i = 0
        BY <1>2, <4>1 DEF At
      <4>2. CASE i \in 1 .. N
        BY <1>6, <4>2 DEF Takes
      <4> QED BY <1>0, <4>1, <4>2
    <3> HIDE DEF p
    <3>3. SubSeq(d, 1, p) \in Seq(Nat)
      BY <3>1, <3>2
    <3> QED BY <3>3 DEF p
  <2> QED BY <2>1
<1>10. Built(SubSeq(d, 1, start), m, layout, e)
  <2>1. e[0] = SubSeq(d, 1, start)
    BY <1>0, <1>2 DEF At
  <2>2. ASSUME NEW i \in 1 .. N PROVE e[i] = e[i - 1] \o FieldBytes(m, layout[i])
    <3>1. i \in 0 .. N /\ i - 1 \in 0 .. N
      BY <1>0
    <3>2. e[i] = SubSeq(d, 1, r[i].pos) /\ e[i - 1] = SubSeq(d, 1, r[i - 1].pos)
      BY <3>1
    <3>3. FieldBytes(m, layout[i]) = ValueBytes(m[layout[i].name], layout[i])
      BY DEF FieldBytes, ValueBytes
    <3>4. SubSeq(d, 1, r[i - 1].pos) \o ValueBytes(m[layout[i].name], layout[i]) = SubSeq(d, 1, r[i].pos)
      BY <1>6 DEF Takes
    <3> HIDE DEF e, m
    <3> QED BY <3>2, <3>3, <3>4
  <2> HIDE DEF e, m
  <2> QED BY <2>1, <2>2 DEF Built
<1>11. e[N] = SubSeq(d, 1, read.pos)
  <2>1. N \in 0 .. N
    BY <1>0
  <2>2. e[N] = SubSeq(d, 1, r[N].pos)
    BY <2>1
  <2> QED BY <1>1, <2>2
<1> HIDE DEF e, m
<1>12. \E h \in [0 .. N -> Seq(Nat)] : Built(SubSeq(d, 1, start), m, layout, h) /\ h[N] = SubSeq(d, 1, read.pos)
  BY <1>9, <1>10, <1>11
<1> QED BY <1>6, <1>7, <1>12 DEF Holds, m

-----------------------------------------------------------------------------
(* The formats: what is in front of their fields, and the fields *)

First(format) == IF format \in Sliced THEN <<>> ELSE Tag[format]
Fields(format) ==
  CASE format = "ClientHello" ->
         <<Fixed("version", 1), Fixed("cred", HashLen), Fixed("nonce", NonceLen), Prefixed("ke1", U16)>>
    [] format = "ServerHello" ->
         <<Fixed("version", 1), Fixed("nonce", NonceLen), Prefixed("ke2", U16), Prefixed("cert", U24),
           Prefixed("config", U16), Prefixed("configSig", U16), Prefixed("verifySig", U16)>>
    [] format = "ClientFinish" -> <<Prefixed("ke3", U16)>>
    [] format = "AppData" -> <<Fixed("seq", U64), Prefixed("ct", U32)>>
    [] format = "Alert" -> <<Fixed("level", 1), Prefixed("text", U16)>>
    [] OTHER -> Layout(format)

\* Lengths in front of a field are as wide as Encodable takes them to be.
Tabled(layout) ==
  \A i \in 1 .. Len(layout) :
    /\ layout[i].prefixed <=> layout[i].name \in DOMAIN Widths
    /\ layout[i].prefixed => layout[i].n = Widths[layout[i].name]

\* A byte string is right for a field, except that its length may not fit.
Suits(x, f) == x \in Seq(Nat) /\ (~f.prefixed => Len(x) = f.n)
Shaped(m, layout) ==
  /\ m = FirstFields(m, layout, Len(layout))
  /\ \A i \in 1 .. Len(layout) : Suits(m[layout[i].name], layout[i])

\* The entries of a layout.
LEMMA Entries ==
  \A name, n :
    /\ Fixed(name, n).name = name /\ Fixed(name, n).n = n
    /\ Fixed(name, n).prefixed = FALSE
    /\ Prefixed(name, n).name = name /\ Prefixed(name, n).n = n
    /\ Prefixed(name, n).prefixed = TRUE
  BY DEF Fixed, Prefixed

\* They say whether there is a length in front.
LEMMA BooleanEntries ==
  \A name, n : Fixed(name, n).prefixed \in BOOLEAN /\ Prefixed(name, n).prefixed \in BOOLEAN
<1>1. ASSUME NEW name, NEW n
      PROVE Fixed(name, n).prefixed \in BOOLEAN /\ Prefixed(name, n).prefixed \in BOOLEAN
  <2>1. Fixed(name, n).prefixed = FALSE /\ Prefixed(name, n).prefixed = TRUE
    BY Entries
  <2> QED BY <2>1
<1> QED BY <1>1

\* Fields that have a length in front of them.
LEMMA FieldSuits == \A x \in Field16 : \A name, width : Suits(x, Prefixed(name, width))
<1>1. \A x \in Field16 : x \in Seq(Nat)
  BY ShortStrings, InputsAssumption DEF Field16
<1> QED BY <1>1 DEF Suits, Prefixed

\* Fields of a fixed length.
LEMMA FixedSuits ==
  /\ \A n \in Nat : \A x \in Strings(n) : \A name : Suits(x, Fixed(name, n))
  /\ \A name : Suits(<<0>>, Fixed(name, 1))
<1>1. ASSUME NEW n \in Nat, NEW x \in Strings(n) PROVE x \in Seq(Byte) /\ Len(x) = n
  BY DEF Strings
<1>2. <<0>> \in Seq(Nat) /\ Len(<<0>>) = 1
  OBVIOUS
<1>3. \A n \in Nat : \A x \in Strings(n) : x \in Seq(Nat) /\ Len(x) = n
  BY <1>1, BytesAreNumbers
<1> QED BY <1>2, <1>3 DEF Suits, Fixed

P32(d) == BigEndian(Len(d), U32) \o d

\* What is appended for them.
LEMMA EntryBytes ==
  \A m, name, n : /\ FieldBytes(m, Fixed(name, n)) = m[name]
                  /\ FieldBytes(m, Prefixed(name, U16)) = P16(m[name])
                  /\ FieldBytes(m, Prefixed(name, U24)) = P24(m[name])
                  /\ FieldBytes(m, Prefixed(name, U32)) = P32(m[name])
<1> SUFFICES ASSUME NEW m, NEW name, NEW n
             PROVE /\ FieldBytes(m, Fixed(name, n)) = m[name]
                   /\ FieldBytes(m, Prefixed(name, U16)) = P16(m[name])
                   /\ FieldBytes(m, Prefixed(name, U24)) = P24(m[name])
                   /\ FieldBytes(m, Prefixed(name, U32)) = P32(m[name])
  OBVIOUS
<1>1. FieldBytes(m, Fixed(name, n)) = m[name]
  BY Entries DEF FieldBytes
<1>2. \A width : FieldBytes(m, Prefixed(name, width)) = BigEndian(Len(m[name]), width) \o m[name]
  BY Entries DEF FieldBytes
<1> QED BY <1>1, <1>2 DEF P16, P24, P32

\* The encoder of a format appends its fields in the order of the layout.
Written(format, m, layout) ==
  \A e \in [0 .. Len(layout) -> Seq(Nat)] :
    Built(First(format), m, layout, e) /\ (\A i \in 1 .. Len(layout) : Filled(m, layout[i])) =>
      Encode(format, m) = e[Len(layout)]

\* Joining three byte strings from either end.
\* A field is appended to what is there.
Puts(m, layout, e, i, j) == e[j] = e[i] \o FieldBytes(m, layout[j])

\* One field after the other.
LEMMA BuiltPuts ==
  ASSUME NEW prefix, NEW m, NEW layout, NEW e, Built(prefix, m, layout, e)
  PROVE e[0] = prefix /\ \A i \in 1 .. Len(layout) : Puts(m, layout, e, i - 1, i)
  BY DEF Built, Puts

\* A byte string in front of five others, before and after they are joined.
InFront(s, v, n, a, b, c) == s \o ((((v \o n) \o a) \o b) \o c) = ((((s \o v) \o n) \o a) \o b) \o c

\* Joining is associative (the core of a ServerHello behind its tag).
LEMMA InFrontOfFive ==
  ASSUME NEW s \in Seq(Nat), NEW v \in Seq(Nat), NEW n \in Seq(Nat),
         NEW a \in Seq(Nat), NEW b \in Seq(Nat), NEW c \in Seq(Nat)
  PROVE InFront(s, v, n, a, b, c)
<1> DEFINE x1 == v \o n
           x2 == x1 \o a
           x3 == x2 \o b
<1>1. x1 \in Seq(Nat) /\ x2 \in Seq(Nat) /\ x3 \in Seq(Nat)
  BY ConcatProperties
<1> HIDE DEF x1, x2, x3
<1>2. Regroups(s, v, n) /\ Regroups(s, x1, a) /\ Regroups(s, x2, b) /\ Regroups(s, x3, c)
  BY <1>1, RegroupBytes
<1> QED BY <1>2 DEF Regroups, InFront, x1, x2, x3

\* ClientHello.
LEMMA ClientHelloFields ==
  ASSUME NEW layout, layout = Fields("ClientHello")
  PROVE /\ Readable(layout) /\ Tabled(layout)
        /\ \A m \in Messages("ClientHello") : Shaped(m, layout)
        /\ \A m : Written("ClientHello", m, layout)
<1>1. /\ Len(layout) = 4 /\ \A i \in 1 .. 4 : i = 1 \/ i = 2 \/ i = 3 \/ i = 4
      /\ layout[1] = Fixed("version", 1) /\ layout[2] = Fixed("cred", HashLen)
      /\ layout[3] = Fixed("nonce", NonceLen) /\ layout[4] = Prefixed("ke1", U16)
  BY DEF Fields
<1>2. HashLen \in Nat /\ NonceLen \in Nat /\ U16 \in Nat
  BY WidthsAssumption
<1>3. Readable(layout)
  <2>1. \A i \in 1 .. Len(layout) : layout[i].prefixed \in BOOLEAN
    BY <1>1, BooleanEntries
  <2>2. \A i \in 1 .. Len(layout) : layout[i].n \in Nat
    BY <1>1, <1>2 DEF Fixed, Prefixed
  <2>3. \A i, j \in 1 .. Len(layout) : layout[i].name = layout[j].name => i = j
    BY <1>1 DEF Fixed, Prefixed
  <2>4. Len(layout) \in Nat
    BY <1>1
  <2> QED BY <2>1, <2>2, <2>3, <2>4 DEF Readable
<1>4. Tabled(layout)
  BY <1>1, Entries, SMTT(30) DEF Tabled, Widths
<1>5. ASSUME NEW m \in Messages("ClientHello") PROVE Shaped(m, layout)
  <2>1. /\ m = [y \in {"version", "cred", "nonce", "ke1"} |-> m[y]]
        /\ m.version \in Strings(1) /\ m.cred \in Strings(HashLen)
        /\ m.nonce \in Strings(NonceLen) /\ m.ke1 \in Field16
    BY DEF Messages
  <2>2. Names(layout, 4) = {"version", "cred", "nonce", "ke1"}
    BY <1>1 DEF Names, Fixed, Prefixed
  <2>3. m = FirstFields(m, layout, Len(layout))
    BY <1>1, <2>1, <2>2 DEF FirstFields
  <2>4. /\ Suits(m.version, Fixed("version", 1)) /\ Suits(m.cred, Fixed("cred", HashLen))
        /\ Suits(m.nonce, Fixed("nonce", NonceLen)) /\ Suits(m.ke1, Prefixed("ke1", U16))
    BY <1>2, <2>1, FieldSuits, FixedSuits
  <2>5. \A i \in 1 .. 4 : Suits(m[layout[i].name], layout[i])
    BY <1>1, <2>4, Entries
  <2> QED BY <1>1, <2>3, <2>5 DEF Shaped
<1>6. ASSUME NEW m, NEW e \in [0 .. 4 -> Seq(Nat)], Built(First("ClientHello"), m, layout, e),
             \A i \in 1 .. 4 : Filled(m, layout[i])
      PROVE Encode("ClientHello", m) = e[4]
  <2>1. /\ FieldBytes(m, layout[1]) = m.version /\ FieldBytes(m, layout[2]) = m.cred
        /\ FieldBytes(m, layout[3]) = m.nonce /\ FieldBytes(m, layout[4]) = P16(m.ke1)
    BY <1>1, EntryBytes
  <2>2. First("ClientHello") = <<1>>
    BY DEF First, Sliced, Tag
  <2>3. /\ e[0] = <<1>>
        /\ e[1] = e[0] \o m.version /\ e[2] = e[1] \o m.cred /\ e[3] = e[2] \o m.nonce
        /\ e[4] = e[3] \o P16(m.ke1)
    <3>1. e[0] = <<1>> /\ \A i \in 1 .. 4 : Puts(m, layout, e, i - 1, i)
      BY <1>1, <1>6, <2>2, BuiltPuts
    <3>2. /\ Puts(m, layout, e, 0, 1) /\ Puts(m, layout, e, 1, 2) /\ Puts(m, layout, e, 2, 3)
          /\ Puts(m, layout, e, 3, 4)
      BY <3>1
    <3> QED BY <3>1, <3>2, <2>1 DEF Puts
  <2> QED BY <2>3 DEF Encode, EncodeClientHello
<1> QED BY <1>1, <1>3, <1>4, <1>5, <1>6 DEF Written

\* ServerHello.
LEMMA ServerHelloFields ==
  ASSUME NEW layout, layout = Fields("ServerHello")
  PROVE /\ Readable(layout) /\ Tabled(layout)
        /\ \A m \in Messages("ServerHello") : Shaped(m, layout)
        /\ \A m : Written("ServerHello", m, layout)
<1>1. /\ Len(layout) = 7 /\ \A i \in 1 .. 7 : i = 1 \/ i = 2 \/ i = 3 \/ i = 4 \/ i = 5 \/ i = 6 \/ i = 7
      /\ layout[1] = Fixed("version", 1) /\ layout[2] = Fixed("nonce", NonceLen)
      /\ layout[3] = Prefixed("ke2", U16) /\ layout[4] = Prefixed("cert", U24)
      /\ layout[5] = Prefixed("config", U16) /\ layout[6] = Prefixed("configSig", U16)
      /\ layout[7] = Prefixed("verifySig", U16)
  BY DEF Fields
<1>2. NonceLen \in Nat /\ U16 \in Nat /\ U24 \in Nat
  BY WidthsAssumption
<1>3. Readable(layout)
  <2>1. \A i \in 1 .. Len(layout) : layout[i].prefixed \in BOOLEAN
    BY <1>1, BooleanEntries
  <2>2. \A i \in 1 .. Len(layout) : layout[i].n \in Nat
    BY <1>1, <1>2 DEF Fixed, Prefixed
  <2>3. \A i, j \in 1 .. Len(layout) : layout[i].name = layout[j].name => i = j
    BY <1>1 DEF Fixed, Prefixed
  <2>4. Len(layout) \in Nat
    BY <1>1
  <2> QED BY <2>1, <2>2, <2>3, <2>4 DEF Readable
<1>4. Tabled(layout)
  BY <1>1, Entries, SMTT(30) DEF Tabled, Widths
<1>5. ASSUME NEW m \in Messages("ServerHello") PROVE Shaped(m, layout)
  <2>1. /\ m = [y \in {"version", "nonce", "ke2", "cert", "config", "configSig", "verifySig"} |-> m[y]]
        /\ m.version = <<0>> /\ m.nonce \in Strings(NonceLen) /\ m.ke2 \in Field16
        /\ m.cert \in Field16 /\ m.config \in Field16 /\ m.configSig \in Field16
        /\ m.verifySig \in Field16
    BY DEF Messages
  <2>2. Names(layout, 7) = {"version", "nonce", "ke2", "cert", "config", "configSig", "verifySig"}
    BY <1>1 DEF Names, Fixed, Prefixed
  <2>3. m = FirstFields(m, layout, Len(layout))
    BY <1>1, <2>1, <2>2 DEF FirstFields
  <2>4. /\ Suits(m.version, Fixed("version", 1)) /\ Suits(m.nonce, Fixed("nonce", NonceLen))
        /\ Suits(m.ke2, Prefixed("ke2", U16)) /\ Suits(m.cert, Prefixed("cert", U24))
        /\ Suits(m.config, Prefixed("config", U16))
        /\ Suits(m.configSig, Prefixed("configSig", U16))
        /\ Suits(m.verifySig, Prefixed("verifySig", U16))
    BY <1>2, <2>1, FieldSuits, FixedSuits
  <2>5. \A i \in 1 .. 7 : Suits(m[layout[i].name], layout[i])
    BY <1>1, <2>4, Entries
  <2> QED BY <1>1, <2>3, <2>5 DEF Shaped
<1>6. ASSUME NEW m, NEW e \in [0 .. 7 -> Seq(Nat)], Built(First("ServerHello"), m, layout, e),
             \A i \in 1 .. 7 : Filled(m, layout[i])
      PROVE Encode("ServerHello", m) = e[7]
  <2>1. /\ FieldBytes(m, layout[1]) = m.version /\ FieldBytes(m, layout[2]) = m.nonce
        /\ FieldBytes(m, layout[3]) = P16(m.ke2) /\ FieldBytes(m, layout[4]) = P24(m.cert)
        /\ FieldBytes(m, layout[5]) = P16(m.config)
        /\ FieldBytes(m, layout[6]) = P16(m.configSig)
        /\ FieldBytes(m, layout[7]) = P16(m.verifySig)
    BY <1>1, EntryBytes
  <2>2. First("ServerHello") = <<2>>
    BY DEF First, Sliced, Tag
  <2>3. /\ e[0] = <<2>>
        /\ e[1] = e[0] \o m.version /\ e[2] = e[1] \o m.nonce /\ e[3] = e[2] \o P16(m.ke2)
        /\ e[4] = e[3] \o P24(m.cert) /\ e[5] = e[4] \o P16(m.config)
        /\ e[6] = e[5] \o P16(m.configSig) /\ e[7] = e[6] \o P16(m.verifySig)
    <3>a. e[0] = First("ServerHello") /\ \A i \in 1 .. Len(layout) : Puts(m, layout, e, i - 1, i)
      BY <1>6, BuiltPuts
    <3>1. e[0] = <<2>> /\ \A i \in 1 .. 7 : Puts(m, layout, e, i - 1, i)
      BY <1>1, <2>2, <3>a
    <3>2. /\ Puts(m, layout, e, 0, 1) /\ Puts(m, layout, e, 1, 2) /\ Puts(m, layout, e, 2, 3)
          /\ Puts(m, layout, e, 3, 4) /\ Puts(m, layout, e, 4, 5) /\ Puts(m, layout, e, 5, 6)
          /\ Puts(m, layout, e, 6, 7)
      BY <3>1
    <3>3. /\ e[1] = e[0] \o FieldBytes(m, layout[1]) /\ e[2] = e[1] \o FieldBytes(m, layout[2])
          /\ e[3] = e[2] \o FieldBytes(m, layout[3]) /\ e[4] = e[3] \o FieldBytes(m, layout[4])
          /\ e[5] = e[4] \o FieldBytes(m, layout[5]) /\ e[6] = e[5] \o FieldBytes(m, layout[6])
          /\ e[7] = e[6] \o FieldBytes(m, layout[7])
      BY <3>2 DEF Puts
    <3> QED BY <2>1, <3>1, <3>3
  <2>4. /\ m.version \in Seq(Nat) /\ m.nonce \in Seq(Nat) /\ P16(m.ke2) \in Seq(Nat)
        /\ P24(m.cert) \in Seq(Nat) /\ P16(m.config) \in Seq(Nat)
    <3>1. \A i \in 1 .. 7 : FieldBytes(m, layout[i]) \in Seq(Nat)
      BY <1>6, FieldBytesAreBytes
    <3>2. /\ FieldBytes(m, layout[1]) \in Seq(Nat) /\ FieldBytes(m, layout[2]) \in Seq(Nat)
          /\ FieldBytes(m, layout[3]) \in Seq(Nat) /\ FieldBytes(m, layout[4]) \in Seq(Nat)
          /\ FieldBytes(m, layout[5]) \in Seq(Nat)
      BY <3>1
    <3> QED BY <2>1, <3>2
  <2> DEFINE v == m.version
             n == m.nonce
             a == P16(m.ke2)
             b == P24(m.cert)
             c == P16(m.config)
             p == P16(m.configSig)
             q == P16(m.verifySig)
  <2>5. Encode("ServerHello", m) = ((<<2>> \o ((((v \o n) \o a) \o b) \o c)) \o p) \o q
    BY DEF Encode, EncodeServerHello, EncodeServerHelloCore
  <2>6. e[7] = ((((((<<2>> \o v) \o n) \o a) \o b) \o c) \o p) \o q
    BY <2>3
  <2> HIDE DEF v, n, a, b, c, p, q
  <2>7. InFront(<<2>>, v, n, a, b, c)
    <3>1. <<2>> \in Seq(Nat)
      OBVIOUS
    <3>2. v \in Seq(Nat) /\ n \in Seq(Nat) /\ a \in Seq(Nat) /\ b \in Seq(Nat) /\ c \in Seq(Nat)
      BY <2>4 DEF v, n, a, b, c
    <3> QED BY <3>1, <3>2, InFrontOfFive
  <2> QED BY <2>5, <2>6, <2>7 DEF InFront
<1> QED BY <1>1, <1>3, <1>4, <1>5, <1>6 DEF Written

\* ClientFinish.
LEMMA ClientFinishFields ==
  ASSUME NEW layout, layout = Fields("ClientFinish")
  PROVE /\ Readable(layout) /\ Tabled(layout)
        /\ \A m \in Messages("ClientFinish") : Shaped(m, layout)
        /\ \A m : Written("ClientFinish", m, layout)
<1>1. /\ Len(layout) = 1 /\ \A i \in 1 .. 1 : i = 1
      /\ layout[1] = Prefixed("ke3", U16)
  BY DEF Fields
<1>2. U16 \in Nat
  BY WidthsAssumption
<1>3. Readable(layout)
  <2>1. \A i \in 1 .. Len(layout) : layout[i].prefixed \in BOOLEAN
    BY <1>1, BooleanEntries
  <2>2. \A i \in 1 .. Len(layout) : layout[i].n \in Nat
    BY <1>1, <1>2 DEF Fixed, Prefixed
  <2>3. \A i, j \in 1 .. Len(layout) : layout[i].name = layout[j].name => i = j
    BY <1>1 DEF Fixed, Prefixed
  <2>4. Len(layout) \in Nat
    BY <1>1
  <2> QED BY <2>1, <2>2, <2>3, <2>4 DEF Readable
<1>4. Tabled(layout)
  BY <1>1, Entries, SMTT(30) DEF Tabled, Widths
<1>5. ASSUME NEW m \in Messages("ClientFinish") PROVE Shaped(m, layout)
  <2>1. /\ m = [y \in {"ke3"} |-> m[y]]
        /\ m.ke3 \in Field16
    BY DEF Messages
  <2>2. Names(layout, 1) = {"ke3"}
    BY <1>1 DEF Names, Fixed, Prefixed
  <2>3. m = FirstFields(m, layout, Len(layout))
    BY <1>1, <2>1, <2>2 DEF FirstFields
  <2>4. /\ Suits(m.ke3, Prefixed("ke3", U16))
    BY <1>2, <2>1, FieldSuits, FixedSuits
  <2>5. \A i \in 1 .. 1 : Suits(m[layout[i].name], layout[i])
    BY <1>1, <2>4, Entries
  <2> QED BY <1>1, <2>3, <2>5 DEF Shaped
<1>6. ASSUME NEW m, NEW e \in [0 .. 1 -> Seq(Nat)], Built(First("ClientFinish"), m, layout, e),
             \A i \in 1 .. 1 : Filled(m, layout[i])
      PROVE Encode("ClientFinish", m) = e[1]
  <2>1. /\ FieldBytes(m, layout[1]) = P16(m.ke3)
    BY <1>1, EntryBytes
  <2>2. First("ClientFinish") = <<3>>
    BY DEF First, Sliced, Tag
  <2>3. /\ e[0] = <<3>>
        /\ e[1] = e[0] \o P16(m.ke3)
    <3>1. e[0] = <<3>> /\ \A i \in 1 .. 1 : Puts(m, layout, e, i - 1, i)
      BY <1>1, <1>6, <2>2, BuiltPuts
    <3>2. /\ Puts(m, layout, e, 0, 1)
      BY <3>1
    <3> QED BY <3>1, <3>2, <2>1 DEF Puts
  <2> QED BY <2>3 DEF Encode, EncodeClientFinish
<1> QED BY <1>1, <1>3, <1>4, <1>5, <1>6 DEF Written

\* AppData.
LEMMA AppDataFields ==
  ASSUME NEW layout, layout = Fields("AppData")
  PROVE /\ Readable(layout) /\ Tabled(layout)
        /\ \A m \in Messages("AppData") : Shaped(m, layout)
        /\ \A m : Written("AppData", m, layout)
<1>1. /\ Len(layout) = 2 /\ \A i \in 1 .. 2 : i = 1 \/ i = 2
      /\ layout[1] = Fixed("seq", U64) /\ layout[2] = Prefixed("ct", U32)
  BY DEF Fields
<1>2. U32 \in Nat /\ U64 \in Nat
  BY WidthsAssumption
<1>3. Readable(layout)
  <2>1. \A i \in 1 .. Len(layout) : layout[i].prefixed \in BOOLEAN
    BY <1>1, BooleanEntries
  <2>2. \A i \in 1 .. Len(layout) : layout[i].n \in Nat
    BY <1>1, <1>2 DEF Fixed, Prefixed
  <2>3. \A i, j \in 1 .. Len(layout) : layout[i].name = layout[j].name => i = j
    BY <1>1 DEF Fixed, Prefixed
  <2>4. Len(layout) \in Nat
    BY <1>1
  <2> QED BY <2>1, <2>2, <2>3, <2>4 DEF Readable
<1>4. Tabled(layout)
  BY <1>1, Entries, SMTT(30) DEF Tabled, Widths
<1>5. ASSUME NEW m \in Messages("AppData") PROVE Shaped(m, layout)
  <2>1. /\ m = [y \in {"seq", "ct"} |-> m[y]]
        /\ m.seq \in Strings(U64) /\ m.ct \in Field16
    BY DEF Messages
  <2>2. Names(layout, 2) = {"seq", "ct"}
    BY <1>1 DEF Names, Fixed, Prefixed
  <2>3. m = FirstFields(m, layout, Len(layout))
    BY <1>1, <2>1, <2>2 DEF FirstFields
  <2>4. /\ Suits(m.seq, Fixed("seq", U64)) /\ Suits(m.ct, Prefixed("ct", U32))
    BY <1>2, <2>1, FieldSuits, FixedSuits
  <2>5. \A i \in 1 .. 2 : Suits(m[layout[i].name], layout[i])
    BY <1>1, <2>4, Entries
  <2> QED BY <1>1, <2>3, <2>5 DEF Shaped
<1>6. ASSUME NEW m, NEW e \in [0 .. 2 -> Seq(Nat)], Built(First("AppData"), m, layout, e),
             \A i \in 1 .. 2 : Filled(m, layout[i])
      PROVE Encode("AppData", m) = e[2]
  <2>1. /\ FieldBytes(m, layout[1]) = m.seq /\ FieldBytes(m, layout[2]) = P32(m.ct)
    BY <1>1, EntryBytes
  <2>2. First("AppData") = <<4>>
    BY DEF First, Sliced, Tag
  <2>3. /\ e[0] = <<4>>
        /\ e[1] = e[0] \o m.seq /\ e[2] = e[1] \o P32(m.ct)
    <3>1. e[0] = <<4>> /\ \A i \in 1 .. 2 : Puts(m, layout, e, i - 1, i)
      BY <1>1, <1>6, <2>2, BuiltPuts
    <3>2. /\ Puts(m, layout, e, 0, 1) /\ Puts(m, layout, e, 1, 2)
      BY <3>1
    <3> QED BY <3>1, <3>2, <2>1 DEF Puts
  <2>4. \A i \in 0 .. 2 : e[i] \in Seq(Nat)
    OBVIOUS
  <2>5. BigEndian(Len(m.ct), U32) \in Seq(Nat) /\ m.ct \in Seq(Nat)
    <3>1. m.ct \in Seq(Nat)
      BY <1>1, <1>6, Entries DEF Filled
    <3>2. Len(m.ct) \in Nat
      BY <3>1
    <3>3. BigEndian(Len(m.ct), U32) \in Seq(Byte)
      BY <1>2, <3>2, BigEndianBytes
    <3> QED BY <3>1, <3>3, BytesAreNumbers
  <2> DEFINE s == <<4>> \o m.seq
             b == BigEndian(Len(m.ct), U32)
             c == m.ct
  <2>6. e[1] = s /\ e[1] \in Seq(Nat) /\ e[2] = e[1] \o P32(m.ct)
    <3>1. e[1] = s /\ e[2] = e[1] \o P32(m.ct)
      BY <2>3
    <3>2. e[1] \in Seq(Nat)
      BY <2>4
    <3> HIDE DEF s
    <3> QED BY <3>1, <3>2
  <2>7. Encode("AppData", m) = (s \o b) \o c
    BY DEF Encode, EncodeAppData
  <2>8. P32(m.ct) = b \o c
    BY DEF P32
  <2> HIDE DEF s, b, c
  <2>9. Regroups(s, b, c)
    <3>1. b \in Seq(Nat) /\ c \in Seq(Nat) /\ s \in Seq(Nat)
      BY <2>5, <2>6 DEF b, c
    <3> QED BY <3>1, RegroupBytes
  <2> QED BY <2>6, <2>7, <2>8, <2>9 DEF Regroups
<1> QED BY <1>1, <1>3, <1>4, <1>5, <1>6 DEF Written

\* Alert.
LEMMA AlertFields ==
  ASSUME NEW layout, layout = Fields("Alert")
  PROVE /\ Readable(layout) /\ Tabled(layout)
        /\ \A m \in Messages("Alert") : Shaped(m, layout)
        /\ \A m : Written("Alert", m, layout)
<1>1. /\ Len(layout) = 2 /\ \A i \in 1 .. 2 : i = 1 \/ i = 2
      /\ layout[1] = Fixed("level", 1) /\ layout[2] = Prefixed("text", U16)
  BY DEF Fields
<1>2. U16 \in Nat
  BY WidthsAssumption
<1>3. Readable(layout)
  <2>1. \A i \in 1 .. Len(layout) : layout[i].prefixed \in BOOLEAN
    BY <1>1, BooleanEntries
  <2>2. \A i \in 1 .. Len(layout) : layout[i].n \in Nat
    BY <1>1, <1>2 DEF Fixed, Prefixed
  <2>3. \A i, j \in 1 .. Len(layout) : layout[i].name = layout[j].name => i = j
    BY <1>1 DEF Fixed, Prefixed
  <2>4. Len(layout) \in Nat
    BY <1>1
  <2> QED BY <2>1, <2>2, <2>3, <2>4 DEF Readable
<1>4. Tabled(layout)
  BY <1>1, Entries, SMTT(30) DEF Tabled, Widths
<1>5. ASSUME NEW m \in Messages("Alert") PROVE Shaped(m, layout)
  <2>1. /\ m = [y \in {"level", "text"} |-> m[y]]
        /\ m.level \in Strings(1) /\ m.text \in Field16
    BY DEF Messages
  <2>2. Names(layout, 2) = {"level", "text"}
    BY <1>1 DEF Names, Fixed, Prefixed
  <2>3. m = FirstFields(m, layout, Len(layout))
    BY <1>1, <2>1, <2>2 DEF FirstFields
  <2>4. /\ Suits(m.level, Fixed("level", 1)) /\ Suits(m.text, Prefixed("text", U16))
    BY <1>2, <2>1, FieldSuits, FixedSuits
  <2>5. \A i \in 1 .. 2 : Suits(m[layout[i].name], layout[i])
    BY <1>1, <2>4, Entries
  <2> QED BY <1>1, <2>3, <2>5 DEF Shaped
<1>6. ASSUME NEW m, NEW e \in [0 .. 2 -> Seq(Nat)], Built(First("Alert"), m, layout, e),
             \A i \in 1 .. 2 : Filled(m, layout[i])
      PROVE Encode("Alert", m) = e[2]
  <2>1. /\ FieldBytes(m, layout[1]) = m.level /\ FieldBytes(m, layout[2]) = P16(m.text)
    BY <1>1, EntryBytes
  <2>2. First("Alert") = <<5>>
    BY DEF First, Sliced, Tag
  <2>3. /\ e[0] = <<5>>
        /\ e[1] = e[0] \o m.level /\ e[2] = e[1] \o P16(m.text)
    <3>1. e[0] = <<5>> /\ \A i \in 1 .. 2 : Puts(m, layout, e, i - 1, i)
      BY <1>1, <1>6, <2>2, BuiltPuts
    <3>2. /\ Puts(m, layout, e, 0, 1) /\ Puts(m, layout, e, 1, 2)
      BY <3>1
    <3> QED BY <3>1, <3>2, <2>1 DEF Puts
  <2> QED BY <2>3 DEF Encode, EncodeAlert
<1> QED BY <1>1, <1>3, <1>4, <1>5, <1>6 DEF Written

\* CertChain.
LEMMA CertChainFields ==
  ASSUME NEW layout, layout = Fields("CertChain")
  PROVE /\ Readable(layout) /\ Tabled(layout)
        /\ \A m \in Messages("CertChain") : Shaped(m, layout)
        /\ \A m : Written("CertChain", m, layout)
<1>1. /\ Len(layout) = 2 /\ \A i \in 1 .. 2 : i = 1 \/ i = 2
      /\ layout[1] = Prefixed("ca", U24) /\ layout[2] = Prefixed("cert", U24)
  BY DEF Fields, Layout
<1>2. U24 \in Nat
  BY WidthsAssumption
<1>3. Readable(layout)
  <2>1. \A i \in 1 .. Len(layout) : layout[i].prefixed \in BOOLEAN
    BY <1>1, BooleanEntries
  <2>2. \A i \in 1 .. Len(layout) : layout[i].n \in Nat
    BY <1>1, <1>2 DEF Fixed, Prefixed
  <2>3. \A i, j \in 1 .. Len(layout) : layout[i].name = layout[j].name => i = j
    BY <1>1 DEF Fixed, Prefixed
  <2>4. Len(layout) \in Nat
    BY <1>1
  <2> QED BY <2>1, <2>2, <2>3, <2>4 DEF Readable
<1>4. Tabled(layout)
  BY <1>1, Entries, SMTT(30) DEF Tabled, Widths
<1>5. ASSUME NEW m \in Messages("CertChain") PROVE Shaped(m, layout)
  <2>1. /\ m = [y \in {"ca", "cert"} |-> m[y]]
        /\ m.ca \in Field16 /\ m.cert \in Field16
    BY DEF Messages
  <2>2. Names(layout, 2) = {"ca", "cert"}
    BY <1>1 DEF Names, Fixed, Prefixed
  <2>3. m = FirstFields(m, layout, Len(layout))
    BY <1>1, <2>1, <2>2 DEF FirstFields
  <2>4. /\ Suits(m.ca, Prefixed("ca", U24)) /\ Suits(m.cert, Prefixed("cert", U24))
    BY <1>2, <2>1, FieldSuits, FixedSuits
  <2>5. \A i \in 1 .. 2 : Suits(m[layout[i].name], layout[i])
    BY <1>1, <2>4, Entries
  <2> QED BY <1>1, <2>3, <2>5 DEF Shaped
<1>6. ASSUME NEW m, NEW e \in [0 .. 2 -> Seq(Nat)], Built(First("CertChain"), m, layout, e),
             \A i \in 1 .. 2 : Filled(m, layout[i])
      PROVE Encode("CertChain", m) = e[2]
  <2>1. /\ FieldBytes(m, layout[1]) = P24(m.ca) /\ FieldBytes(m, layout[2]) = P24(m.cert)
    BY <1>1, EntryBytes
  <2>2. First("CertChain") = <<>>
    BY DEF First, Sliced
  <2>3. /\ e[0] = <<>>
        /\ e[1] = e[0] \o P24(m.ca) /\ e[2] = e[1] \o P24(m.cert)
    <3>1. e[0] = <<>> /\ \A i \in 1 .. 2 : Puts(m, layout, e, i - 1, i)
      BY <1>1, <1>6, <2>2, BuiltPuts
    <3>2. /\ Puts(m, layout, e, 0, 1) /\ Puts(m, layout, e, 1, 2)
      BY <3>1
    <3> QED BY <3>1, <3>2, <2>1 DEF Puts
  <2>4. <<>> \o P24(m.ca) = P24(m.ca)
    <3> DEFINE s == P24(m.ca)
    <3>1. s \in Seq(Nat)
      BY <1>1, <1>6, <2>1, FieldBytesAreBytes
    <3> HIDE DEF s
    <3>2. <<>> \o s = s
      BY <3>1
    <3> QED BY <3>2 DEF s
  <2> QED BY <2>3, <2>4 DEF Encode, EncodeCertChain
<1> QED BY <1>1, <1>3, <1>4, <1>5, <1>6 DEF Written

\* ServerConfig.
LEMMA ServerConfigFields ==
  ASSUME NEW layout, layout = Fields("ServerConfig")
  PROVE /\ Readable(layout) /\ Tabled(layout)
        /\ \A m \in Messages("ServerConfig") : Shaped(m, layout)
        /\ \A m : Written("ServerConfig", m, layout)
<1>1. /\ Len(layout) = 3 /\ \A i \in 1 .. 3 : i = 1 \/ i = 2 \/ i = 3
      /\ layout[1] = Fixed("suite", 4) /\ layout[2] = Prefixed("name", U16)
      /\ layout[3] = Fixed("timestamp", U64)
  BY DEF Fields, Layout
<1>2. U16 \in Nat /\ U64 \in Nat
  BY WidthsAssumption
<1>3. Readable(layout)
  <2>1. \A i \in 1 .. Len(layout) : layout[i].prefixed \in BOOLEAN
    BY <1>1, BooleanEntries
  <2>2. \A i \in 1 .. Len(layout) : layout[i].n \in Nat
    BY <1>1, <1>2 DEF Fixed, Prefixed
  <2>3. \A i, j \in 1 .. Len(layout) : layout[i].name = layout[j].name => i = j
    BY <1>1 DEF Fixed, Prefixed
  <2>4. Len(layout) \in Nat
    BY <1>1
  <2> QED BY <2>1, <2>2, <2>3, <2>4 DEF Readable
<1>4. Tabled(layout)
  BY <1>1, Entries, SMTT(30) DEF Tabled, Widths
<1>5. ASSUME NEW m \in Messages("ServerConfig") PROVE Shaped(m, layout)
  <2>1. /\ m = [y \in {"suite", "name", "timestamp"} |-> m[y]]
        /\ m.suite \in Strings(4) /\ m.name \in Field16 /\ m.timestamp \in Strings(U64)
    BY DEF Messages
  <2>2. Names(layout, 3) = {"suite", "name", "timestamp"}
    BY <1>1 DEF Names, Fixed, Prefixed
  <2>3. m = FirstFields(m, layout, Len(layout))
    BY <1>1, <2>1, <2>2 DEF FirstFields
  <2>4. /\ Suits(m.suite, Fixed("suite", 4)) /\ Suits(m.name, Prefixed("name", U16))
        /\ Suits(m.timestamp, Fixed("timestamp", U64))
    BY <1>2, <2>1, FieldSuits, FixedSuits
  <2>5. \A i \in 1 .. 3 : Suits(m[layout[i].name], layout[i])
    BY <1>1, <2>4, Entries
  <2> QED BY <1>1, <2>3, <2>5 DEF Shaped
<1>6. ASSUME NEW m, NEW e \in [0 .. 3 -> Seq(Nat)], Built(First("ServerConfig"), m, layout, e),
             \A i \in 1 .. 3 : Filled(m, layout[i])
      PROVE Encode("ServerConfig", m) = e[3]
  <2>1. /\ FieldBytes(m, layout[1]) = m.suite /\ FieldBytes(m, layout[2]) = P16(m.name)
        /\ FieldBytes(m, layout[3]) = m.timestamp
    BY <1>1, EntryBytes
  <2>2. First("ServerConfig") = <<>>
    BY DEF First, Sliced
  <2>3. /\ e[0] = <<>>
        /\ e[1] = e[0] \o m.suite /\ e[2] = e[1] \o P16(m.name) /\ e[3] = e[2] \o m.timestamp
    <3>1. e[0] = <<>> /\ \A i \in 1 .. 3 : Puts(m, layout, e, i - 1, i)
      BY <1>1, <1>6, <2>2, BuiltPuts
    <3>2. /\ Puts(m, layout, e, 0, 1) /\ Puts(m, layout, e, 1, 2) /\ Puts(m, layout, e, 2, 3)
      BY <3>1
    <3> QED BY <3>1, <3>2, <2>1 DEF Puts
  <2>4. <<>> \o m.suite = m.suite
    <3> DEFINE s == m.suite
    <3>1. s \in Seq(Nat)
      BY <1>1, <1>6, <2>1, FieldBytesAreBytes
    <3> HIDE DEF s
    <3>2. <<>> \o s = s
      BY <3>1
    <3> QED BY <3>2 DEF s
  <2> QED BY <2>3, <2>4 DEF Encode, EncodeServerConfig
<1> QED BY <1>1, <1>3, <1>4, <1>5, <1>6 DEF Written

\* Ke1.
LEMMA Ke1Fields ==
  ASSUME NEW layout, layout = Fields("Ke1")
  PROVE /\ Readable(layout) /\ Tabled(layout)
        /\ \A m \in Messages("Ke1") : Shaped(m, layout)
        /\ \A m : Written("Ke1", m, layout)
<1>1. /\ Len(layout) = 3 /\ \A i \in 1 .. 3 : i = 1 \/ i = 2 \/ i = 3
      /\ layout[1] = Fixed("m", PointLen) /\ layout[2] = Fixed("nonce", NonceLen)
      /\ layout[3] = Fixed("eph", EphLen)
  BY DEF Fields, Layout
<1>2. EphLen \in Nat /\ NonceLen \in Nat /\ PointLen \in Nat
  BY WidthsAssumption
<1>3. Readable(layout)
  <2>1. \A i \in 1 .. Len(layout) : layout[i].prefixed \in BOOLEAN
    BY <1>1, BooleanEntries
  <2>2. \A i \in 1 .. Len(layout) : layout[i].n \in Nat
    BY <1>1, <1>2 DEF Fixed, Prefixed
  <2>3. \A i, j \in 1 .. Len(layout) : layout[i].name = layout[j].name => i = j
    BY <1>1 DEF Fixed, Prefixed
  <2>4. Len(layout) \in Nat
    BY <1>1
  <2> QED BY <2>1, <2>2, <2>3, <2>4 DEF Readable
<1>4. Tabled(layout)
  BY <1>1, Entries, SMTT(30) DEF Tabled, Widths
<1>5. ASSUME NEW m \in Messages("Ke1") PROVE Shaped(m, layout)
  <2>1. /\ m = [y \in {"m", "nonce", "eph"} |-> m[y]]
        /\ m.m \in Strings(PointLen) /\ m.nonce \in Strings(NonceLen)
        /\ m.eph \in Strings(EphLen)
    BY DEF Messages
  <2>2. Names(layout, 3) = {"m", "nonce", "eph"}
    BY <1>1 DEF Names, Fixed, Prefixed
  <2>3. m = FirstFields(m, layout, Len(layout))
    BY <1>1, <2>1, <2>2 DEF FirstFields
  <2>4. /\ Suits(m.m, Fixed("m", PointLen)) /\ Suits(m.nonce, Fixed("nonce", NonceLen))
        /\ Suits(m.eph, Fixed("eph", EphLen))
    BY <1>2, <2>1, FieldSuits, FixedSuits
  <2>5. \A i \in 1 .. 3 : Suits(m[layout[i].name], layout[i])
    BY <1>1, <2>4, Entries
  <2> QED BY <1>1, <2>3, <2>5 DEF Shaped
<1>6. ASSUME NEW m, NEW e \in [0 .. 3 -> Seq(Nat)], Built(First("Ke1"), m, layout, e),
             \A i \in 1 .. 3 : Filled(m, layout[i])
      PROVE Encode("Ke1", m) = e[3]
  <2>1. /\ FieldBytes(m, layout[1]) = m.m /\ FieldBytes(m, layout[2]) = m.nonce
        /\ FieldBytes(m, layout[3]) = m.eph
    BY <1>1, EntryBytes
  <2>2. First("Ke1") = <<>>
    BY DEF First, Sliced
  <2>3. /\ e[0] = <<>>
        /\ e[1] = e[0] \o m.m /\ e[2] = e[1] \o m.nonce /\ e[3] = e[2] \o m.eph
    <3>1. e[0] = <<>> /\ \A i \in 1 .. 3 : Puts(m, layout, e, i - 1, i)
      BY <1>1, <1>6, <2>2, BuiltPuts
    <3>2. /\ Puts(m, layout, e, 0, 1) /\ Puts(m, layout, e, 1, 2) /\ Puts(m, layout, e, 2, 3)
      BY <3>1
    <3> QED BY <3>1, <3>2, <2>1 DEF Puts
  <2>4. <<>> \o m.m = m.m
    <3> DEFINE s == m.m
    <3>1. s \in Seq(Nat)
      BY <1>1, <1>6, <2>1, FieldBytesAreBytes
    <3> HIDE DEF s
    <3>2. <<>> \o s = s
      BY <3>1
    <3> QED BY <3>2 DEF s
  <2> QED BY <2>3, <2>4 DEF Encode, PackKe1
<1> QED BY <1>1, <1>3, <1>4, <1>5, <1>6 DEF Written

\* Ke2.
LEMMA Ke2Fields ==
  ASSUME NEW layout, layout = Fields("Ke2")
  PROVE /\ Readable(layout) /\ Tabled(layout)
        /\ \A m \in Messages("Ke2") : Shaped(m, layout)
        /\ \A m : Written("Ke2", m, layout)
<1>1. /\ Len(layout) = 5 /\ \A i \in 1 .. 5 : i = 1 \/ i = 2 \/ i = 3 \/ i = 4 \/ i = 5
      /\ layout[1] = Fixed("z", PointLen) /\ layout[2] = Prefixed("env", U24)
      /\ layout[3] = Fixed("nonce", NonceLen) /\ layout[4] = Fixed("eph", EphLen)
      /\ layout[5] = Fixed("mac", MacLen)
  BY DEF Fields, Layout
<1>2. EphLen \in Nat /\ MacLen \in Nat /\ NonceLen \in Nat /\ PointLen \in Nat /\ U24 \in Nat
  BY WidthsAssumption
<1>3. Readable(layout)
  <2>1. \A i \in 1 .. Len(layout) : layout[i].prefixed \in BOOLEAN
    BY <1>1, BooleanEntries
  <2>2. \A i \in 1 .. Len(layout) : layout[i].n \in Nat
    BY <1>1, <1>2 DEF Fixed, Prefixed
  <2>3. \A i, j \in 1 .. Len(layout) : layout[i].name = layout[j].name => i = j
    BY <1>1 DEF Fixed, Prefixed
  <2>4. Len(layout) \in Nat
    BY <1>1
  <2> QED BY <2>1, <2>2, <2>3, <2>4 DEF Readable
<1>4. Tabled(layout)
  BY <1>1, Entries, SMTT(30) DEF Tabled, Widths
<1>5. ASSUME NEW m \in Messages("Ke2") PROVE Shaped(m, layout)
  <2>1. /\ m = [y \in {"z", "env", "nonce", "eph", "mac"} |-> m[y]]
        /\ m.z \in Strings(PointLen) /\ m.env \in Field16 /\ m.nonce \in Strings(NonceLen)
        /\ m.eph \in Strings(EphLen) /\ m.mac \in Strings(MacLen)
    BY DEF Messages
  <2>2. Names(layout, 5) = {"z", "env", "nonce", "eph", "mac"}
    BY <1>1 DEF Names, Fixed, Prefixed
  <2>3. m = FirstFields(m, layout, Len(layout))
    BY <1>1, <2>1, <2>2 DEF FirstFields
  <2>4. /\ Suits(m.z, Fixed("z", PointLen)) /\ Suits(m.env, Prefixed("env", U24))
        /\ Suits(m.nonce, Fixed("nonce", NonceLen)) /\ Suits(m.eph, Fixed("eph", EphLen))
        /\ Suits(m.mac, Fixed("mac", MacLen))
    BY <1>2, <2>1, FieldSuits, FixedSuits
  <2>5. \A i \in 1 .. 5 : Suits(m[layout[i].name], layout[i])
    BY <1>1, <2>4, Entries
  <2> QED BY <1>1, <2>3, <2>5 DEF Shaped
<1>6. ASSUME NEW m, NEW e \in [0 .. 5 -> Seq(Nat)], Built(First("Ke2"), m, layout, e),
             \A i \in 1 .. 5 : Filled(m, layout[i])
      PROVE Encode("Ke2", m) = e[5]
  <2>1. /\ FieldBytes(m, layout[1]) = m.z /\ FieldBytes(m, layout[2]) = P24(m.env)
        /\ FieldBytes(m, layout[3]) = m.nonce /\ FieldBytes(m, layout[4]) = m.eph
        /\ FieldBytes(m, layout[5]) = m.mac
    BY <1>1, EntryBytes
  <2>2. First("Ke2") = <<>>
    BY DEF First, Sliced
  <2>3. /\ e[0] = <<>>
        /\ e[1] = e[0] \o m.z /\ e[2] = e[1] \o P24(m.env) /\ e[3] = e[2] \o m.nonce
        /\ e[4] = e[3] \o m.eph /\ e[5] = e[4] \o m.mac
    <3>1. e[0] = <<>> /\ \A i \in 1 .. 5 : Puts(m, layout, e, i - 1, i)
      BY <1>1, <1>6, <2>2, BuiltPuts
    <3>2. /\ Puts(m, layout, e, 0, 1) /\ Puts(m, layout, e, 1, 2) /\ Puts(m, layout, e, 2, 3)
          /\ Puts(m, layout, e, 3, 4) /\ Puts(m, layout, e, 4, 5)
      BY <3>1
    <3> QED BY <3>1, <3>2, <2>1 DEF Puts
  <2>4. <<>> \o m.z = m.z
    <3> DEFINE s == m.z
    <3>1. s \in Seq(Nat)
      BY <1>1, <1>6, <2>1, FieldBytesAreBytes
    <3> HIDE DEF s
    <3>2. <<>> \o s = s
      BY <3>1
    <3> QED BY <3>2 DEF s
  <2> QED BY <2>3, <2>4 DEF Encode, PackKe2
<1> QED BY <1>1, <1>3, <1>4, <1>5, <1>6 DEF Written

\* The facts of every format.
LEMMA FormatFields ==
  ASSUME NEW format \in Formats
  PROVE /\ Readable(Fields(format)) /\ Tabled(Fields(format))
        /\ \A m \in Messages(format) : Shaped(m, Fields(format))
        /\ \A m : Written(format, m, Fields(format))
<1> DEFINE Good(f) == /\ Readable(Fields(f)) /\ Tabled(Fields(f))
                      /\ \A m \in Messages(f) : Shaped(m, Fields(f))
                      /\ \A m : Written(f, m, Fields(f))
<1>1. Good("ClientHello") /\ Good("ServerHello") /\ Good("ClientFinish")
  BY ClientHelloFields, ServerHelloFields, ClientFinishFields
<1>2. Good("AppData") /\ Good("Alert") /\ Good("CertChain")
  BY AppDataFields, AlertFields, CertChainFields
<1>3. Good("ServerConfig") /\ Good("Ke1") /\ Good("Ke2")
  BY ServerConfigFields, Ke1Fields, Ke2Fields
<1> HIDE DEF Good
<1>4. Good(format)
  BY <1>1, <1>2, <1>3 DEF Formats
<1> QED BY <1>4 DEF Good

\* Tags are single bytes in front of the formats that the reader reads.
LEMMA FirstBytes ==
  ASSUME NEW format \in Formats
  PROVE /\ First(format) \in Seq(Nat) /\ Len(First(format)) \in 0 .. 1
        /\ format \in Sliced => First(format) = <<>> /\ Len(First(format)) = 0
        /\ format \notin Sliced => First(format) = Tag[format] /\ Len(First(format)) = 1
<1>1. CASE format \in Sliced
  BY <1>1 DEF First
<1>2. CASE format \notin Sliced
  <2>1. format \in {"ClientHello", "ServerHello", "ClientFinish", "AppData", "Alert"}
    BY <1>2 DEF Formats, Sliced
  <2>2. Tag[format] \in {<<1>>, <<2>>, <<3>>, <<4>>, <<5>>}
    BY <2>1 DEF Tag
  <2>3. \A n \in Nat : <<n>> \in Seq(Nat) /\ Len(<<n>>) = 1
    OBVIOUS
  <2>4. Tag[format] \in Seq(Nat) /\ Len(Tag[format]) = 1
    <3>1. 1 \in Nat /\ 2 \in Nat /\ 3 \in Nat /\ 4 \in Nat /\ 5 \in Nat
      OBVIOUS
    <3>2. PICK n \in Nat : Tag[format] = <<n>>
      BY <2>2, <3>1, Zenon
    <3> QED BY <2>3, <3>2
  <2> QED BY <1>2, <2>4 DEF First
<1> QED BY <1>1, <1>2

\* What the reader of codec.py makes of a frame in any of the formats.
Reader(format, d) ==
  IF Slice(d, 0, Len(First(format))) = First(format)
  THEN ReadAll(d, At(Len(First(format))), Fields(format)) ELSE Failed

\* The slice in front.
LEMMA SliceInFront ==
  ASSUME NEW p \in Seq(Nat), NEW t \in Seq(Nat)
  PROVE Slice(p \o t, 0, Len(p)) = p
<1> DEFINE d == p \o t
<1>1. d \in Seq(Nat) /\ Len(d) = Len(p) + Len(t) /\ SubSeq(d, 1, Len(p)) = p
  BY ConcatParts, ConcatProperties
<1> HIDE DEF d
<1>2. Len(p) \in Nat /\ 0 + Len(p) = Len(p) /\ 0 + 1 = 1 /\ Len(p) <= Len(d)
  BY <1>1
<1>3. Slice(d, 0, Len(p)) = SubSeq(d, 0 + 1, 0 + Len(p))
  <2> DEFINE n == Len(p)
  <2>1. n \in Nat /\ 0 \in Nat /\ 0 + n <= Len(d) /\ d \in Seq(Nat)
    BY <1>1, <1>2
  <2> HIDE DEF n
  <2> QED BY <2>1, SliceBounds DEF n
<1> QED BY <1>1, <1>2, <1>3 DEF d

\* A message that can be encoded has what its fields hold.
LEMMA EncodableFills ==
  ASSUME NEW layout, Readable(layout), Tabled(layout), NEW m, Shaped(m, layout), Encodable(m),
         NEW i \in 1 .. Len(layout)
  PROVE Filled(m, layout[i])
<1> DEFINE f == layout[i]
<1>1. f.prefixed \in BOOLEAN /\ f.n \in Nat
  BY DEF Readable
<1>2. Suits(m[f.name], f)
  BY DEF Shaped
<1>3. (f.prefixed <=> f.name \in DOMAIN Widths) /\ (f.prefixed => f.n = Widths[f.name])
  BY DEF Tabled
<1>4. f.name \in DOMAIN m
  <2>1. m = FirstFields(m, layout, Len(layout))
    BY DEF Shaped
  <2>2. DOMAIN FirstFields(m, layout, Len(layout)) = Names(layout, Len(layout))
    BY DEF FirstFields
  <2>3. f.name \in Names(layout, Len(layout))
    BY DEF Names
  <2> QED BY <2>1, <2>2, <2>3
<1> HIDE DEF f
<1>5. f.prefixed => Fits(Len(m[f.name]), f.n)
  BY <1>3, <1>4 DEF Encodable
<1>6. Filled(m, f)
  BY <1>1, <1>2, <1>5 DEF Suits, Filled
<1> QED BY <1>6 DEF f

\* What is encoded is read, whatever follows.
LEMMA EncodedIsRead ==
  ASSUME NEW format \in Formats, NEW m \in Messages(format), Encodable(m), NEW trailing \in Seq(Nat)
  PROVE /\ Encode(format, m) \in Seq(Nat)
        /\ Reader(format, Encode(format, m) \o trailing) =
             [ok |-> TRUE, pos |-> Len(Encode(format, m)), fields |-> m]
<1> DEFINE layout == Fields(format)
           N == Len(layout)
           p == First(format)
<1>1. /\ Readable(layout) /\ Tabled(layout) /\ Shaped(m, layout)
      /\ N \in Nat /\ p \in Seq(Nat) /\ Written(format, m, layout)
  BY FormatFields, FirstBytes DEF Readable
<1> HIDE DEF layout
<1>2. \A i \in 1 .. N : Filled(m, layout[i])
  BY <1>1, EncodableFills
<1>3. PICK e \in [0 .. N -> Seq(Nat)] : Built(p, m, layout, e)
  BY <1>1, <1>2, BuiltExists
<1>4. Encode(format, m) = e[N]
  BY <1>1, <1>2, <1>3 DEF Written
<1>5. e[N] \in Seq(Nat)
  <2> HIDE DEF N
  <2>1. N \in 0 .. N
    BY <1>1
  <2> QED BY <1>3, <2>1
<1> DEFINE d == e[N] \o trailing
<1>6. /\ ReadAll(d, At(Len(p)), layout) = [ok |-> TRUE, pos |-> Len(e[N]), fields |-> FirstFields(m, layout, N)]
      /\ \E t \in Seq(Nat) : d = p \o t
  <2> HIDE DEF p
  <2>1. /\ ReadAll(e[Len(layout)] \o trailing, At(Len(p)), layout) =
             [ok |-> TRUE, pos |-> Len(e[Len(layout)]), fields |-> FirstFields(m, layout, Len(layout))]
        /\ \E t \in Seq(Nat) : e[Len(layout)] \o trailing = p \o t
    <3>1. Len(layout) \in Nat
      BY <1>1
    <3>2. \A i \in 1 .. Len(layout) : Filled(m, layout[i])
      BY <1>2
    <3>3. e \in [0 .. Len(layout) -> Seq(Nat)] /\ Built(p, m, layout, e)
      BY <1>3
    <3>4. p \in Seq(Nat)
      BY <1>1
    <3> QED BY <3>1, <3>2, <3>3, <3>4, ReadsBack
  <2> QED BY <2>1
<1>7. Slice(d, 0, Len(p)) = p
  <2> HIDE DEF d, p
  <2>1. PICK t \in Seq(Nat) : d = p \o t
    BY <1>6
  <2> QED BY <1>1, <2>1, SliceInFront
<1>8. FirstFields(m, layout, N) = m
  BY <1>1 DEF Shaped
<1> HIDE DEF d, N, p
<1>9. Reader(format, d) = ReadAll(d, At(Len(p)), layout)
  BY <1>7 DEF Reader, layout, p
<1>10. Reader(format, d) = [ok |-> TRUE, pos |-> Len(e[N]), fields |-> m]
  BY <1>6, <1>8, <1>9
<1> QED BY <1>4, <1>5, <1>10 DEF d

\* What is read is the encoding of what was read.
LEMMA ReadIsEncoded ==
  ASSUME NEW format \in Formats, NEW d \in Seq(Nat), Len(First(format)) <= Len(d),
         BytesFrom(d, Len(First(format))), NEW r, r = Reader(format, d), r.ok
  PROVE /\ Encodable(r.fields)
        /\ r.pos \in Nat /\ r.pos <= Len(d)
        /\ Encode(format, r.fields) = SubSeq(d, 1, r.pos)
        /\ \A i \in 1 .. Len(Fields(format)) : Filled(r.fields, Fields(format)[i])
<1> DEFINE layout == Fields(format)
           N == Len(layout)
           p == First(format)
           start == Len(p)
           m == r.fields
<1>1. /\ Readable(layout) /\ Tabled(layout) /\ N \in Nat /\ p \in Seq(Nat) /\ start \in Nat
      /\ Written(format, m, layout)
  BY FormatFields, FirstBytes DEF Readable
<1>2. Slice(d, 0, start) = p /\ r = ReadAll(d, At(start), layout)
  <2>1. ~Failed.ok
    BY DEF Failed
  <2> QED BY <2>1 DEF Reader
<1>3. Holds(d, start, layout, m, r.pos)
  <2>1. start <= Len(d) /\ BytesFrom(d, start)
    OBVIOUS
  <2> HIDE DEF layout, start
  <2> QED BY <1>1, <1>2, <2>1, ReadsTake
<1> HIDE DEF layout, N, m, p
<1>4. /\ r.pos \in Nat /\ r.pos <= Len(d)
      /\ \A i \in 1 .. N : Filled(m, layout[i])
      /\ m = FirstFields(m, layout, N)
  BY <1>3 DEF Holds, N
<1>5. PICK e \in [0 .. N -> Seq(Nat)] : Built(SubSeq(d, 1, start), m, layout, e) /\ e[N] = SubSeq(d, 1, r.pos)
  BY <1>3 DEF Holds, N
<1>6. SubSeq(d, 1, start) = p
  <2>1. 0 + start = start /\ 0 + 1 = 1 /\ start <= Len(d)
    BY <1>1 DEF p
  <2> HIDE DEF start
  <2>2. Slice(d, 0, start) = SubSeq(d, 0 + 1, 0 + start)
    BY <1>1, <2>1, SliceBounds
  <2> QED BY <1>2, <2>1, <2>2
<1>7. Encode(format, m) = e[N]
  <2>1. Built(First(format), m, layout, e)
    BY <1>5, <1>6 DEF p
  <2> QED BY <1>1, <1>4, <1>5, <2>1 DEF Written, N
<1>8. Encodable(m)
  <2>1. ASSUME NEW y \in DOMAIN m \cap DOMAIN Widths PROVE Fits(Len(m[y]), Widths[y])
    <3>1. DOMAIN FirstFields(m, layout, N) = Names(layout, N)
      BY DEF FirstFields
    <3>2. PICK i \in 1 .. N : y = layout[i].name
      BY <1>4, <2>1, <3>1 DEF Names
    <3>3. layout[i].prefixed /\ layout[i].n = Widths[y]
      BY <1>1, <2>1, <3>2 DEF Tabled, N
    <3>4. Filled(m, layout[i])
      BY <1>4
    <3> QED BY <3>2, <3>3, <3>4 DEF Filled
  <2> QED BY <2>1 DEF Encodable
<1> QED BY <1>4, <1>5, <1>7, <1>8 DEF m, N, layout

-----------------------------------------------------------------------------
(* Decoders that slice *)

\* A reader at a position, if the frame is as long.
Progress(d, pos, got) == IF pos <= Len(d) THEN [ok |-> TRUE, pos |-> pos, fields |-> got] ELSE Failed

\* It goes on by the length of a field, or fails.
LEMMA ReadsFixed ==
  ASSUME NEW d \in Seq(Nat), NEW pos \in Nat, NEW n \in Nat, NEW got, NEW name
  PROVE ReadField(d, Progress(d, pos, got), Fixed(name, n)) =
        Progress(d, pos + n, With(got, name, Slice(d, pos, n)))
<1> DEFINE r == Progress(d, pos, got)
           to == pos + n
<1>1. ReadField(d, r, Fixed(name, n)) = Read(d, r, name, n)
  BY Entries DEF ReadField
<1>2. Len(d) \in Nat
  OBVIOUS
<1>3. CASE pos <= Len(d)
  <2>1. r = [ok |-> TRUE, pos |-> pos, fields |-> got]
    BY <1>3 DEF Progress
  <2>2. Read(d, [ok |-> TRUE, pos |-> pos, fields |-> got], name, n) =
        IF pos + n <= Len(d)
        THEN [ok |-> TRUE, pos |-> pos + n, fields |-> With(got, name, Slice(d, pos, n))]
        ELSE Failed
    BY <1>3, ReadAt
  <2> HIDE DEF r
  <2> QED BY <1>1, <2>1, <2>2 DEF Progress, r
<1>4. CASE ~(pos <= Len(d))
  <2>1. r = Failed /\ ~(to <= Len(d))
    BY <1>2, <1>4 DEF Progress
  <2>2. Read(d, Failed, name, n) = Failed
    BY DEF Read, Failed
  <2> QED BY <1>1, <2>1, <2>2 DEF Progress
<1> QED BY <1>3, <1>4

\* Likewise for a field behind its length.
LEMMA ReadsPrefixed ==
  ASSUME NEW d \in Seq(Nat), NEW pos \in Nat, NEW width \in Nat, NEW got, NEW name,
         NEW length, length = FromBigEndian(Slice(d, pos, width))
  PROVE /\ length \in Nat
        /\ ReadField(d, Progress(d, pos, got), Prefixed(name, width)) =
             Progress(d, pos + width + length, With(got, name, Slice(d, pos + width, length)))
<1> DEFINE r == Progress(d, pos, got)
           to == pos + width + length
<1>1. ReadField(d, r, Prefixed(name, width)) = ReadPrefixed(d, r, name, width)
  BY Entries DEF ReadField
<1>2. Len(d) \in Nat
  OBVIOUS
<1>3. CASE pos <= Len(d)
  <2>1. r = [ok |-> TRUE, pos |-> pos, fields |-> got]
    BY <1>3 DEF Progress
  <2>2. /\ length \in Nat
        /\ ReadPrefixed(d, [ok |-> TRUE, pos |-> pos, fields |-> got], name, width) =
           IF pos + width <= Len(d) /\ to <= Len(d)
           THEN [ok |-> TRUE, pos |-> to, fields |-> With(got, name, Slice(d, pos + width, length))]
           ELSE Failed
    BY <1>3, ReadPrefixedAt
  <2>3. to <= Len(d) => pos + width <= Len(d)
    BY <1>2, <2>2
  <2> HIDE DEF r, to
  <2>4. ReadPrefixed(d, r, name, width) = Progress(d, to, With(got, name, Slice(d, pos + width, length)))
    BY <2>1, <2>2, <2>3 DEF Progress
  <2> QED BY <1>1, <2>2, <2>4 DEF r, to
<1>4. CASE ~(pos <= Len(d))
  <2>1. length \in Nat
    <3> DEFINE s == Slice(d, pos, width)
    <3>1. s \in Seq(Nat)
      BY SliceBounds
    <3> HIDE DEF s
    <3>2. PICK value \in [0 .. Len(s) -> Nat] : FromBigEndian(s) = value[Len(s)]
      BY <3>1, FromBigEndianUnfolds
    <3>3. Len(s) \in 0 .. Len(s)
      BY <3>1
    <3> QED BY <3>2, <3>3 DEF s
  <2>2. r = Failed /\ ~(to <= Len(d))
    BY <1>2, <1>4, <2>1 DEF Progress
  <2>3. ReadPrefixed(d, Failed, name, width) = Failed
    BY DEF ReadPrefixed, Failed
  <2> QED BY <1>1, <2>1, <2>2, <2>3 DEF Progress
<1> QED BY <1>3, <1>4

\* The layouts of these formats, read from the first byte on.
LEMMA SlicedReader ==
  ASSUME NEW format \in Sliced, NEW d \in Seq(Nat)
  PROVE /\ Fields(format) = Layout(format)
        /\ Reader(format, d) = ReadAll(d, At(0), Layout(format))
        /\ At(0) = Progress(d, 0, <<>>)
<1>1. format \in Formats /\ First(format) = <<>> /\ Len(First(format)) = 0
  <2>1. format \in Formats
    BY DEF Sliced, Formats
  <2> QED BY <2>1, FirstBytes
<1>2. Slice(d, 0, 0) = <<>>
  <2>1. Slice(d, 0, 0) \in Seq(Nat) /\ Len(Slice(d, 0, 0)) = 0
    <3>1. 0 \in Nat /\ 0 + 0 = 0 /\ 0 <= Len(d) /\ Len(d) \in Nat
      OBVIOUS
    <3> QED BY <3>1, SliceBounds
  <2> DEFINE s == Slice(d, 0, 0)
  <2>2. s \in Seq(Nat) /\ Len(s) = 0
    BY <2>1
  <2> HIDE DEF s
  <2>3. s = <<>>
    BY <2>2
  <2> QED BY <2>3 DEF s
<1>3. Fields(format) = Layout(format)
  BY DEF Fields, Sliced
<1>4. 0 <= Len(d)
  OBVIOUS
<1> QED BY <1>1, <1>2, <1>3, <1>4 DEF Reader, At, Progress

\* A decoder agrees with the reader: it accepts the same frames, as far as it
\* does not ask for the end, and finds the same fields.
Whole(format, d) ==
  Reader(format, d).ok /\ (format \in ToTheEnd => Reader(format, d).pos = Len(d))
Agrees(format, d) ==
  /\ DecodeAs(format, d).ok <=> Whole(format, d)
  /\ Whole(format, d) => DecodeAs(format, d).fields = Reader(format, d).fields
  /\ Whole(format, d) => DecodeAs(format, d).pos = Reader(format, d).pos

\* The decoders of codec.py are readers.
LEMMA TaggedAgree ==
  ASSUME NEW format \in Formats \ Sliced, NEW d
  PROVE Agrees(format, d)
<1>1. format \in {"ClientHello", "ServerHello", "ClientFinish", "AppData", "Alert"} /\ format \notin ToTheEnd
  BY DEF Formats, Sliced, ToTheEnd
<1>2. First(format) = Tag[format] /\ Len(First(format)) = 1
  BY FirstBytes
<1>3. DecodeAs(format, d) = Reader(format, d)
  <2>1. CASE format = "ClientHello"
    BY <1>2, <2>1 DEF Reader, DecodeAs, DecodeClientHello, Decode, Fields, Tag
  <2>2. CASE format = "ServerHello"
    BY <1>2, <2>2 DEF Reader, DecodeAs, DecodeServerHello, Decode, Fields, Tag
  <2>3. CASE format = "ClientFinish"
    BY <1>2, <2>3 DEF Reader, DecodeAs, DecodeClientFinish, Decode, Fields, Tag
  <2>4. CASE format = "AppData"
    BY <1>2, <2>4 DEF Reader, DecodeAs, DecodeAppData, Decode, Fields, Tag
  <2>5. CASE format = "Alert"
    BY <1>2, <2>5 DEF Reader, DecodeAs, DecodeAlert, Decode, Fields, Tag
  <2> QED BY <1>1, <2>1, <2>2, <2>3, <2>4, <2>5
<1> QED BY <1>1, <1>3 DEF Agrees, Whole

\* _decode_cert_chain reads its two certificates and asks for the end.
LEMMA CertChainAgrees ==
  ASSUME NEW d \in Seq(Nat)
  PROVE Agrees("CertChain", d)
<1> DEFINE r == ReadAll(d, At(0), Layout("CertChain"))
<1>1. Reader("CertChain", d) = r
  BY SlicedReader DEF Sliced
<1>2. DecodeAs("CertChain", d) = IF r.ok /\ r.pos = Len(d) THEN r ELSE Failed
  BY DEF DecodeAs, DecodeCertChain, Layout
<1> HIDE DEF r
<1>3. ~Failed.ok
  BY DEF Failed
<1> QED BY <1>1, <1>2, <1>3 DEF Agrees, Whole, ToTheEnd

\* decode_server_config: its two tests are the three of the reader.
LEMMA ServerConfigAgrees ==
  ASSUME NEW d \in Seq(Nat)
  PROVE Agrees("ServerConfig", d)
<1> DEFINE layout == Layout("ServerConfig")
           length == FromBigEndian(Slice(d, 4, U16))
           suite == Slice(d, 0, 4)
           name == Slice(d, 4 + U16, length)
           timestamp == Slice(d, 4 + U16 + length, U64)
           to == 4 + U16 + length + U64
           got1 == With(<<>>, "suite", suite)
           got2 == With(got1, "name", name)
           got3 == With(got2, "timestamp", timestamp)
<1>1. /\ Len(layout) = 3 /\ layout[1] = Fixed("suite", 4)
      /\ layout[2] = Prefixed("name", U16) /\ layout[3] = Fixed("timestamp", U64)
  BY DEF Layout
<1>2. U16 \in Nat /\ U64 \in Nat /\ Len(d) \in Nat
  BY WidthsAssumption
<1>3. /\ Reader("ServerConfig", d) = ReadAll(d, At(0), layout)
      /\ At(0) = Progress(d, 0, <<>>)
  BY SlicedReader DEF Sliced
<1> HIDE DEF layout, got1, got2, got3
<1>4. PICK r : Reads(d, At(0), layout, r) /\ ReadAll(d, At(0), layout) = r[3]
  <2>1. Len(layout) = 3 /\ Len(layout) \in Nat
    BY <1>1
  <2>2. \E r : Reads(d, At(0), layout, r) /\ ReadAll(d, At(0), layout) = r[Len(layout)]
    BY <2>1, ReadAllUnfolds
  <2> QED BY <2>1, <2>2
<1>5. /\ r[0] = At(0) /\ r[1] = ReadField(d, r[0], layout[1])
      /\ r[2] = ReadField(d, r[1], layout[2]) /\ r[3] = ReadField(d, r[2], layout[3])
  <2>1. r[0] = At(0) /\ \A i \in 1 .. 3 : r[i] = ReadField(d, r[i - 1], layout[i])
    BY <1>1, <1>4 DEF Reads
  <2> QED BY <2>1
<1>6. r[1] = Progress(d, 4, got1)
  <2>1. 0 \in Nat /\ 4 \in Nat /\ 0 + 4 = 4
    OBVIOUS
  <2>2. ReadField(d, Progress(d, 0, <<>>), Fixed("suite", 4)) = Progress(d, 0 + 4, got1)
    BY <2>1, ReadsFixed DEF got1
  <2> QED BY <1>1, <1>3, <1>5, <2>1, <2>2
<1>7. length \in Nat /\ r[2] = Progress(d, 4 + U16 + length, got2)
  <2>1. 4 \in Nat
    OBVIOUS
  <2>2. /\ length \in Nat
        /\ ReadField(d, Progress(d, 4, got1), Prefixed("name", U16)) = Progress(d, 4 + U16 + length, got2)
    BY <1>2, <2>1, ReadsPrefixed DEF got2
  <2> QED BY <1>1, <1>5, <1>6, <2>2
<1>8. r[3] = Progress(d, to, got3)
  <2> DEFINE p == 4 + U16 + length
  <2>1. p \in Nat
    BY <1>2, <1>7
  <2>2. ReadField(d, Progress(d, p, got2), Fixed("timestamp", U64)) = Progress(d, p + U64, got3)
    <3> HIDE DEF p
    <3>1. ReadField(d, Progress(d, p, got2), Fixed("timestamp", U64)) =
          Progress(d, p + U64, With(got2, "timestamp", Slice(d, p, U64)))
      BY <1>2, <2>1, ReadsFixed
    <3> QED BY <3>1 DEF p, got3
  <2> QED BY <1>1, <1>5, <1>7, <2>2
<1>9. got3 = [suite |-> suite, name |-> name, timestamp |-> timestamp]
  <2> HIDE DEF suite, name, timestamp
  <2> QED BY DEF got1, got2, got3, With
<1>10. Len(d) < 4 + U16 + U64 => Len(d) < to
  BY <1>2, <1>7
<1>11. DecodeAs("ServerConfig", d) =
         IF Len(d) < to THEN Failed
         ELSE [ok |-> TRUE, pos |-> to, fields |-> [suite |-> suite, name |-> name, timestamp |-> timestamp]]
  BY <1>10 DEF DecodeAs, DecodeServerConfig
<1>12. to \in Nat
  BY <1>2, <1>7
<1> HIDE DEF to, length, suite, name, timestamp
<1>13. DecodeAs("ServerConfig", d) = Progress(d, to, got3)
  BY <1>2, <1>9, <1>11, <1>12 DEF Progress
<1>14. Reader("ServerConfig", d) = Progress(d, to, got3)
  BY <1>3, <1>4, <1>8
<1> QED BY <1>13, <1>14 DEF Agrees, Whole, ToTheEnd

\* _unpack_ke1: that the last point is whole tests all lengths.
LEMMA Ke1Agrees ==
  ASSUME NEW d \in Seq(Nat)
  PROVE Agrees("Ke1", d)
<1> DEFINE layout == Layout("Ke1")
           at2 == PointLen + NonceLen
           to == at2 + EphLen
           point == Slice(d, 0, PointLen)
           nonce == Slice(d, PointLen, NonceLen)
           eph == Slice(d, at2, EphLen)
           rest == SubSeq(d, at2 + 1, Len(d))
           got1 == With(<<>>, "m", point)
           got2 == With(got1, "nonce", nonce)
           got3 == With(got2, "eph", eph)
<1>1. /\ Len(layout) = 3 /\ layout[1] = Fixed("m", PointLen)
      /\ layout[2] = Fixed("nonce", NonceLen) /\ layout[3] = Fixed("eph", EphLen)
  BY DEF Layout
<1>2. PointLen \in Nat /\ NonceLen \in Nat /\ EphLen \in Nat \ {0} /\ Len(d) \in Nat
  BY WidthsAssumption
<1>3. /\ Reader("Ke1", d) = ReadAll(d, At(0), layout)
      /\ At(0) = Progress(d, 0, <<>>)
  BY SlicedReader DEF Sliced
<1> HIDE DEF layout, got1, got2, got3
<1>4. PICK r : Reads(d, At(0), layout, r) /\ ReadAll(d, At(0), layout) = r[3]
  <2>1. Len(layout) = 3 /\ Len(layout) \in Nat
    BY <1>1
  <2>2. \E r : Reads(d, At(0), layout, r) /\ ReadAll(d, At(0), layout) = r[Len(layout)]
    BY <2>1, ReadAllUnfolds
  <2> QED BY <2>1, <2>2
<1>5. /\ r[0] = At(0) /\ r[1] = ReadField(d, r[0], layout[1])
      /\ r[2] = ReadField(d, r[1], layout[2]) /\ r[3] = ReadField(d, r[2], layout[3])
  <2>1. r[0] = At(0) /\ \A i \in 1 .. 3 : r[i] = ReadField(d, r[i - 1], layout[i])
    BY <1>1, <1>4 DEF Reads
  <2> QED BY <2>1
<1>6. r[1] = Progress(d, PointLen, got1)
  <2>1. 0 \in Nat /\ 0 + PointLen = PointLen
    BY <1>2
  <2>2. ReadField(d, Progress(d, 0, <<>>), Fixed("m", PointLen)) = Progress(d, 0 + PointLen, got1)
    BY <1>2, <2>1, ReadsFixed DEF got1
  <2> QED BY <1>1, <1>3, <1>5, <2>1, <2>2
<1>7. r[2] = Progress(d, at2, got2)
  <2>1. ReadField(d, Progress(d, PointLen, got1), Fixed("nonce", NonceLen)) = Progress(d, at2, got2)
    BY <1>2, ReadsFixed DEF got2
  <2> QED BY <1>1, <1>5, <1>6, <2>1
<1>8. r[3] = Progress(d, to, got3)
  <2>1. at2 \in Nat
    BY <1>2
  <2>2. ReadField(d, Progress(d, at2, got2), Fixed("eph", EphLen)) = Progress(d, to, got3)
    <3> HIDE DEF at2
    <3> QED BY <1>2, <2>1, ReadsFixed DEF got3
  <2> QED BY <1>1, <1>5, <1>7, <2>2
<1>9. Len(rest) = EphLen <=> to = Len(d)
  <2>1. at2 \in Nat
    BY <1>2
  <2> HIDE DEF at2
  <2>2. Len(rest) = IF at2 + 1 <= Len(d) THEN Len(d) - at2 ELSE 0
    BY <1>2, <2>1
  <2> HIDE DEF rest
  <2> QED BY <1>2, <2>1, <2>2
<1>10. to = Len(d) => rest = eph
  <2>1. at2 \in Nat
    BY <1>2
  <2> HIDE DEF at2
  <2>2. to = Len(d) => eph = SubSeq(d, at2 + 1, at2 + EphLen)
    <3>1. EphLen \in Nat /\ (to = Len(d) => at2 + EphLen <= Len(d))
      BY <1>2, <2>1
    <3> QED BY <2>1, <3>1, SliceBounds
  <2> HIDE DEF eph
  <2> QED BY <2>2
<1>11. DecodeAs("Ke1", d) =
         IF Len(rest) = EphLen
         THEN [ok |-> TRUE, pos |-> Len(d), fields |-> [m |-> point, nonce |-> nonce, eph |-> rest]]
         ELSE Failed
  BY DEF DecodeAs, UnpackKe1
<1>12. got3 = [m |-> point, nonce |-> nonce, eph |-> eph]
  <2> HIDE DEF point, nonce, eph
  <2> QED BY DEF got1, got2, got3, With
<1> HIDE DEF to, rest, point, nonce, eph
<1>13. Reader("Ke1", d) = Progress(d, to, got3)
  BY <1>3, <1>4, <1>8
<1>14. Whole("Ke1", d) <=> to = Len(d)
  BY <1>2, <1>13 DEF Whole, ToTheEnd, Progress, Failed
<1>15. to = Len(d) => DecodeAs("Ke1", d) = Reader("Ke1", d)
  <2>1. SUFFICES ASSUME to = Len(d) PROVE DecodeAs("Ke1", d) = Reader("Ke1", d)
    OBVIOUS
  <2>2. DecodeAs("Ke1", d) = [ok |-> TRUE, pos |-> Len(d), fields |-> got3]
    BY <1>9, <1>10, <1>11, <1>12, <2>1
  <2>3. Reader("Ke1", d) = [ok |-> TRUE, pos |-> to, fields |-> got3]
    BY <1>2, <1>13, <2>1 DEF Progress
  <2> QED BY <2>1, <2>2, <2>3
<1>16. DecodeAs("Ke1", d).ok <=> to = Len(d)
  BY <1>9, <1>11 DEF Failed
<1> QED BY <1>14, <1>15, <1>16 DEF Agrees

\* _unpack_ke2: that the ephemeral key and the MAC are whole tests all lengths.
LEMMA Ke2Agrees ==
  ASSUME NEW d \in Seq(Nat)
  PROVE Agrees("Ke2", d)
<1> DEFINE layout == Layout("Ke2")
           length == FromBigEndian(Slice(d, PointLen, U24))
           envAt == PointLen + U24
           nonceAt == envAt + length
           ephAt == nonceAt + NonceLen
           macAt == ephAt + EphLen
           to == macAt + MacLen
           z == Slice(d, 0, PointLen)
           env == Slice(d, envAt, length)
           nonce == Slice(d, nonceAt, NonceLen)
           eph == Slice(d, ephAt, EphLen)
           mac == Slice(d, macAt, MacLen)
           got1 == With(<<>>, "z", z)
           got2 == With(got1, "env", env)
           got3 == With(got2, "nonce", nonce)
           got4 == With(got3, "eph", eph)
           got5 == With(got4, "mac", mac)
<1>1. /\ Len(layout) = 5 /\ layout[1] = Fixed("z", PointLen) /\ layout[2] = Prefixed("env", U24)
      /\ layout[3] = Fixed("nonce", NonceLen) /\ layout[4] = Fixed("eph", EphLen)
      /\ layout[5] = Fixed("mac", MacLen)
  BY DEF Layout
<1>2. /\ PointLen \in Nat /\ U24 \in Nat /\ NonceLen \in Nat /\ EphLen \in Nat
      /\ MacLen \in Nat \ {0} /\ Len(d) \in Nat
  BY WidthsAssumption
<1>3. /\ Reader("Ke2", d) = ReadAll(d, At(0), layout)
      /\ At(0) = Progress(d, 0, <<>>)
  BY SlicedReader DEF Sliced
<1> HIDE DEF layout, got1, got2, got3, got4, got5
<1>4. PICK r : Reads(d, At(0), layout, r) /\ ReadAll(d, At(0), layout) = r[5]
  <2>1. Len(layout) = 5 /\ Len(layout) \in Nat
    BY <1>1
  <2>2. \E r : Reads(d, At(0), layout, r) /\ ReadAll(d, At(0), layout) = r[Len(layout)]
    BY <2>1, ReadAllUnfolds
  <2> QED BY <2>1, <2>2
<1>5. /\ r[0] = At(0) /\ r[1] = ReadField(d, r[0], layout[1])
      /\ r[2] = ReadField(d, r[1], layout[2]) /\ r[3] = ReadField(d, r[2], layout[3])
      /\ r[4] = ReadField(d, r[3], layout[4]) /\ r[5] = ReadField(d, r[4], layout[5])
  <2>1. r[0] = At(0) /\ \A i \in 1 .. 5 : r[i] = ReadField(d, r[i - 1], layout[i])
    BY <1>1, <1>4 DEF Reads
  <2> QED BY <2>1
<1>6. r[1] = Progress(d, PointLen, got1)
  <2>1. 0 \in Nat /\ 0 + PointLen = PointLen
    BY <1>2
  <2>2. ReadField(d, Progress(d, 0, <<>>), Fixed("z", PointLen)) = Progress(d, 0 + PointLen, got1)
    BY <1>2, <2>1, ReadsFixed DEF got1
  <2> QED BY <1>1, <1>3, <1>5, <2>1, <2>2
<1>7. length \in Nat /\ r[2] = Progress(d, nonceAt, got2)
  <2>1. /\ length \in Nat
        /\ ReadField(d, Progress(d, PointLen, got1), Prefixed("env", U24)) = Progress(d, nonceAt, got2)
    BY <1>2, ReadsPrefixed DEF got2
  <2> QED BY <1>1, <1>5, <1>6, <2>1
<1>8. nonceAt \in Nat /\ ephAt \in Nat /\ macAt \in Nat /\ to \in Nat /\ nonceAt - envAt = length
  <2>1. length \in Nat
    BY <1>7
  <2> HIDE DEF length
  <2> QED BY <1>2, <2>1
<1>9. DecodeAs("Ke2", d) =
        IF Len(eph) = EphLen /\ Len(mac) = MacLen
        THEN [ok |-> TRUE, pos |-> to,
              fields |-> [z |-> z, env |-> env, nonce |-> nonce, eph |-> eph, mac |-> mac]]
        ELSE Failed
  <2>1. env = Slice(d, envAt, nonceAt - envAt)
    BY <1>8
  <2> QED BY <2>1 DEF DecodeAs, UnpackKe2
<1>10. macAt <= to /\ ephAt + EphLen = macAt /\ macAt + MacLen = to /\ ephAt <= macAt
  BY <1>2, <1>8
<1>11. ephAt = nonceAt + NonceLen
  OBVIOUS
<1> HIDE DEF length, nonceAt, ephAt, macAt, to
<1>12. r[3] = Progress(d, ephAt, got3)
  <2>1. ReadField(d, Progress(d, nonceAt, got2), Fixed("nonce", NonceLen)) = Progress(d, nonceAt + NonceLen, got3)
    BY <1>2, <1>8, ReadsFixed DEF got3
  <2> QED BY <1>1, <1>5, <1>7, <1>11, <2>1
<1>13. r[4] = Progress(d, macAt, got4)
  <2>1. ReadField(d, Progress(d, ephAt, got3), Fixed("eph", EphLen)) = Progress(d, ephAt + EphLen, got4)
    BY <1>2, <1>8, ReadsFixed DEF got4
  <2> QED BY <1>1, <1>5, <1>10, <1>12, <2>1
<1>14. r[5] = Progress(d, to, got5)
  <2>1. ReadField(d, Progress(d, macAt, got4), Fixed("mac", MacLen)) = Progress(d, macAt + MacLen, got5)
    BY <1>2, <1>8, ReadsFixed DEF got5
  <2>2. macAt + MacLen = to
    BY <1>10
  <2> HIDE DEF mac
  <2>3. r[5] = ReadField(d, Progress(d, macAt, got4), Fixed("mac", MacLen))
    BY <1>1, <1>5, <1>13
  <2> QED BY <2>1, <2>2, <2>3
<1>15. Len(eph) = EphLen /\ Len(mac) = MacLen <=> to <= Len(d)
  <2>1. Len(mac) = IF macAt + MacLen <= Len(d) THEN MacLen
                   ELSE IF macAt <= Len(d) THEN Len(d) - macAt ELSE 0
    <3>1. macAt \in Nat /\ MacLen \in Nat
      BY <1>2, <1>8
    <3> QED BY <3>1, SliceBounds
  <2>2. ephAt + EphLen <= Len(d) => Len(eph) = EphLen
    <3>1. ephAt \in Nat /\ EphLen \in Nat
      BY <1>2, <1>8
    <3> QED BY <3>1, SliceBounds
  <2> HIDE DEF mac, eph
  <2> QED BY <1>2, <1>8, <1>10, <2>1, <2>2
<1>16. got5 = [z |-> z, env |-> env, nonce |-> nonce, eph |-> eph, mac |-> mac]
  <2> HIDE DEF z, env, nonce, eph, mac
  <2> QED BY DEF got1, got2, got3, got4, got5, With
<1> HIDE DEF z, env, nonce, eph, mac
<1>17. DecodeAs("Ke2", d) = Progress(d, to, got5)
  BY <1>9, <1>15, <1>16 DEF Progress
<1>18. Reader("Ke2", d) = Progress(d, to, got5)
  BY <1>3, <1>4, <1>14
<1> QED BY <1>17, <1>18 DEF Agrees, Whole, ToTheEnd

\* All decoders agree with the reader.
LEMMA DecodersAgree ==
  ASSUME NEW format \in Formats, NEW d \in Seq(Nat)
  PROVE Agrees(format, d)
<1>1. CASE format \in Sliced
  BY <1>1, CertChainAgrees, ServerConfigAgrees, Ke1Agrees, Ke2Agrees DEF Sliced
<1> QED BY <1>1, TaggedAgree

-----------------------------------------------------------------------------
(* Encoders and decoders *)

\* Every message that can be encoded comes back from the decoder of its
\* format (codec.py, pki.py, server_config.py, opaque_adapter.py), with all
\* fields and at the right place, whatever follows it in the frame.
THEOREM DecodesBack ==
  ASSUME NEW format \in Formats, NEW m \in Messages(format), Encodable(m), NEW trailing \in Seq(Nat),
         NEW r, r = DecodeAs(format, Encode(format, m) \o trailing)
  PROVE IF format \in ToTheEnd /\ trailing # <<>> THEN ~r.ok
        ELSE r.ok /\ r.fields = m /\ r.pos = Len(Encode(format, m))
<1> DEFINE bytes == Encode(format, m)
           d == bytes \o trailing
<1>1. /\ bytes \in Seq(Nat)
      /\ Reader(format, d) = [ok |-> TRUE, pos |-> Len(bytes), fields |-> m]
  BY EncodedIsRead
<1> HIDE DEF bytes
<1>2. d \in Seq(Nat) /\ Len(d) = Len(bytes) + Len(trailing)
  BY <1>1, ConcatProperties
<1>3. Len(bytes) = Len(d) <=> trailing = <<>>
  <2>1. Len(trailing) \in Nat /\ (Len(trailing) = 0 <=> trailing = <<>>) /\ Len(bytes) \in Nat
    BY <1>1
  <2> HIDE DEF d
  <2> QED BY <1>2, <2>1
<1>4. Agrees(format, d)
  <2> HIDE DEF d
  <2> QED BY <1>2, DecodersAgree
<1>5. r = DecodeAs(format, d)
  BY DEF bytes
<1> HIDE DEF d
<1>6. Whole(format, d) <=> (format \in ToTheEnd => trailing = <<>>)
  BY <1>1, <1>3 DEF Whole
<1>7. r.ok <=> Whole(format, d)
  BY <1>4, <1>5 DEF Agrees
<1>8. Whole(format, d) => r.fields = m /\ r.pos = Len(bytes)
  BY <1>1, <1>4, <1>5 DEF Agrees
<1> QED BY <1>6, <1>7, <1>8 DEF bytes

\* The parts of a ServerHello are byte strings.
LEMMA ServerHelloParts ==
  ASSUME NEW m, \A i \in 1 .. Len(Fields("ServerHello")) : Filled(m, Fields("ServerHello")[i])
  PROVE /\ EncodeServerHelloCore(m) \in Seq(Nat)
        /\ P16(m.configSig) \in Seq(Nat) /\ P16(m.verifySig) \in Seq(Nat)
<1> DEFINE layout == Fields("ServerHello")
<1>1. /\ Len(layout) = 7
      /\ layout[1] = Fixed("version", 1) /\ layout[2] = Fixed("nonce", NonceLen)
      /\ layout[3] = Prefixed("ke2", U16) /\ layout[4] = Prefixed("cert", U24)
      /\ layout[5] = Prefixed("config", U16) /\ layout[6] = Prefixed("configSig", U16)
      /\ layout[7] = Prefixed("verifySig", U16)
  BY DEF Fields
<1>2. \A i \in 1 .. Len(layout) : FieldBytes(m, layout[i]) \in Seq(Nat)
  BY FieldBytesAreBytes
<1> HIDE DEF layout
<1>3. \A i \in 1 .. 7 : FieldBytes(m, layout[i]) \in Seq(Nat)
  BY <1>1, <1>2
<1>4. /\ FieldBytes(m, layout[1]) = m.version /\ FieldBytes(m, layout[2]) = m.nonce
      /\ FieldBytes(m, layout[3]) = P16(m.ke2) /\ FieldBytes(m, layout[4]) = P24(m.cert)
      /\ FieldBytes(m, layout[5]) = P16(m.config) /\ FieldBytes(m, layout[6]) = P16(m.configSig)
      /\ FieldBytes(m, layout[7]) = P16(m.verifySig)
  BY <1>1, EntryBytes
<1> DEFINE v == m.version
           n == m.nonce
           a == P16(m.ke2)
           b == P24(m.cert)
           c == P16(m.config)
<1>5. /\ v \in Seq(Nat) /\ n \in Seq(Nat) /\ a \in Seq(Nat) /\ b \in Seq(Nat) /\ c \in Seq(Nat)
      /\ P16(m.configSig) \in Seq(Nat) /\ P16(m.verifySig) \in Seq(Nat)
  BY <1>3, <1>4
<1>6. EncodeServerHelloCore(m) = (((v \o n) \o a) \o b) \o c
  BY DEF EncodeServerHelloCore
<1> HIDE DEF v, n, a, b, c
<1>7. (((v \o n) \o a) \o b) \o c \in Seq(Nat)
  BY <1>5, ConcatProperties
<1> QED BY <1>5, <1>6, <1>7

\* What follows the first byte of a part of the frame follows it in the frame.
LEMMA SubSeqBehind ==
  ASSUME NEW d \in Seq(Nat), NEW pos \in Nat, pos <= Len(d), NEW l \in Nat, 1 + l <= pos
  PROVE Slice(SubSeq(d, 1, pos), 1, l) = SubSeq(d, 2, 1 + l)
<1> DEFINE f == SubSeq(d, 1, pos)
<1>1. f \in Seq(Nat) /\ Len(f) = pos
  OBVIOUS
<1>2. \A i \in 1 .. l : f[1 + i] = d[1 + i]
  OBVIOUS
<1> HIDE DEF f
<1>3. Slice(f, 1, l) = SubSeq(f, 1 + 1, 1 + l)
  <2>1. 1 \in Nat /\ 1 + l <= Len(f)
    BY <1>1
  <2> QED BY <1>1, <2>1, SliceBounds
<1>4. SubSeq(f, 1 + 1, 1 + l) = [i \in 1 .. l |-> f[1 + i]]
  BY <1>1
<1>5. SubSeq(d, 2, 1 + l) = [i \in 1 .. l |-> d[1 + i]]
  OBVIOUS
<1> QED BY <1>2, <1>3, <1>4, <1>5 DEF f

\* A part of a joined string is cut out of it again.
Cuts(p, x, t) ==
  /\ Slice((p \o x) \o t, Len(p), Len(x)) = x
  /\ Len((p \o x) \o t) = Len(p) + Len(x) + Len(t)

\* So it is.
LEMMA CutsBytes == \A p, x, t \in Seq(Nat) : Cuts(p, x, t)
  BY SliceOfConcat DEF Cuts

\* What was decoded is the encoding of it, and so is the core in a ServerHello.
Faithful(format, d, r) ==
  /\ Encodable(r.fields)
  /\ r.pos \in Nat /\ r.pos <= Len(d)
  /\ Encode(format, r.fields) = SubSeq(d, 1, r.pos)
  /\ format = "ServerHello" =>
       EncodeServerHelloCore(r.fields) = SubSeq(d, 2, 1 + Len(EncodeServerHelloCore(r.fields)))

\* A frame that is decoded is the encoding of what was decoded, and the core
\* that a client encodes again to verify a ServerHello is the core it
\* received (_verify_server_hello).
THEOREM EncodesWhatWasDecoded ==
  ASSUME NEW format \in Formats, NEW s \in Seq(Byte), NEW d, d = First(format) \o s,
         NEW r, r = DecodeAs(format, d), r.ok
  PROVE Faithful(format, d, r)
<1> DEFINE p == First(format)
           read == Reader(format, d)
           m == r.fields
<1>1. p \in Seq(Nat) /\ Len(p) \in Nat /\ s \in Seq(Nat) /\ Len(s) \in Nat /\ \A i \in 1 .. Len(s) : s[i] \in Byte
  BY FirstBytes, BytesAreNumbers
<1> HIDE DEF p
<1>2. /\ d \in Seq(Nat) /\ Len(d) = Len(p) + Len(s)
      /\ \A i \in 1 .. Len(s) : d[Len(p) + i] = s[i]
  <2>1. d = p \o s
    BY DEF p
  <2> QED BY <1>1, <2>1
<1>3. BytesFrom(d, Len(p))
  <2>1. ASSUME NEW i \in Len(p) + 1 .. Len(d) PROVE d[i] \in Byte
    <3> DEFINE k == i - Len(p)
    <3>1. k \in 1 .. Len(s) /\ i = Len(p) + k
      BY <1>1, <1>2
    <3> HIDE DEF k
    <3>2. d[i] = s[k]
      BY <1>2, <3>1
    <3> QED BY <1>1, <3>1, <3>2
  <2> QED BY <2>1 DEF BytesFrom
<1>4. Whole(format, d) /\ r.fields = read.fields /\ r.pos = read.pos
  BY <1>2, DecodersAgree DEF Agrees
<1>5. Len(p) <= Len(d) /\ read.ok
  BY <1>1, <1>2, <1>4 DEF Whole
<1> HIDE DEF read
<1>6. /\ Encodable(read.fields) /\ read.pos \in Nat /\ read.pos <= Len(d)
      /\ Encode(format, read.fields) = SubSeq(d, 1, read.pos)
      /\ \A i \in 1 .. Len(Fields(format)) : Filled(read.fields, Fields(format)[i])
  BY <1>2, <1>3, <1>5, ReadIsEncoded DEF p, read
<1>7. ASSUME format = "ServerHello"
      PROVE EncodeServerHelloCore(m) = SubSeq(d, 2, 1 + Len(EncodeServerHelloCore(m)))
  <2> DEFINE core == EncodeServerHelloCore(m)
             a == P16(m.configSig)
             b == P16(m.verifySig)
  <2>1. core \in Seq(Nat) /\ a \in Seq(Nat) /\ b \in Seq(Nat)
    BY <1>4, <1>6, <1>7, ServerHelloParts
  <2>2. Encode("ServerHello", m) = ((<<2>> \o core) \o a) \o b
    BY DEF Encode, EncodeServerHello
  <2>3. <<2>> \in Seq(Nat) /\ Len(<<2>>) = 1
    OBVIOUS
  <2> HIDE DEF core, a, b
  <2> DEFINE q == <<2>> \o core
  <2>4. q \in Seq(Nat)
    BY <2>1, <2>3, ConcatProperties
  <2>5. Regroups(q, a, b)
    <3> HIDE DEF q
    <3> QED BY <2>1, <2>4, RegroupBytes
  <2> DEFINE t == a \o b
  <2>6. q \o t = SubSeq(d, 1, r.pos) /\ t \in Seq(Nat)
    <3>1. t \in Seq(Nat)
      BY <2>1, ConcatProperties
    <3>2. q \o t = (q \o a) \o b
      BY <2>5 DEF Regroups
    <3>3. Encode("ServerHello", m) = SubSeq(d, 1, r.pos)
      BY <1>4, <1>6, <1>7
    <3> HIDE DEF t
    <3> QED BY <2>2, <3>1, <3>2, <3>3
  <2> HIDE DEF t
  <2>7. r.pos \in Nat /\ r.pos <= Len(d)
    BY <1>4, <1>6
  <2> DEFINE o == <<2>>
             f == SubSeq(d, 1, r.pos)
             l == Len(core)
  <2>8. (o \o core) \o t = f
    BY <2>6
  <2>9. o \in Seq(Nat) /\ Len(o) = 1
    BY <2>3
  <2>10. t \in Seq(Nat)
    BY <2>6
  <2> HIDE DEF o, f
  <2>11. Slice(f, 1, l) = core /\ Len(f) = 1 + l + Len(t) /\ l \in Nat /\ Len(t) \in Nat
    <3>1. Cuts(o, core, t)
      BY <2>1, <2>9, <2>10, CutsBytes
    <3>2. Slice(f, Len(o), Len(core)) = core /\ Len(f) = Len(o) + Len(core) + Len(t)
      BY <2>8, <3>1 DEF Cuts
    <3>3. Len(core) \in Nat /\ Len(t) \in Nat
      BY <2>1, <2>6
    <3> QED BY <2>8, <2>9, <3>1, <3>2, <3>3
  <2>12. Len(f) = r.pos
    BY <1>2, <2>7 DEF f
  <2> HIDE DEF l
  <2>13. 1 + l <= r.pos
    BY <2>7, <2>11, <2>12
  <2>14. Slice(f, 1, l) = SubSeq(d, 2, 1 + l)
    BY <1>2, <2>7, <2>11, <2>13, SubSeqBehind DEF f
  <2>15. core = SubSeq(d, 2, 1 + Len(core))
    BY <2>11, <2>14 DEF l
  <2> QED BY <2>15 DEF core
<1> QED BY <1>4, <1>6, <1>7 DEF Faithful

\* A step gives an input of one kind.
LEMMA PickedKind ==
  ASSUME Pick
  PROVE /\ input'.about = "message" => PickMessage
        /\ input'.about = "frame" => PickFrame
  BY DEF Pick, PickMessage, PickFrame, PickTranscripts, PickLabels, PickPoints, PickScalar, PickBlind

\* RoundTrip of the message a step picks.
LEMMA PickedRoundTrips ==
  ASSUME Pick
  PROVE RoundTrip'
<1>1. SUFFICES ASSUME input'.about = "message", Encodable(input'.m)
               PROVE (LET bytes == Encode(input.format, input.m)
                          r == DecodeAs(input.format, bytes \o input.trailing)
                      IN IF input.format \in ToTheEnd /\ input.trailing # <<>> THEN ~r.ok
                         ELSE r.ok /\ r.fields = input.m /\ r.pos = Len(bytes))'
  BY DEF RoundTrip
<1>2. PICK format \in Formats : \E m \in Messages(format) : \E trailing \in StringsUpTo(1) :
        input' = [about |-> "message", format |-> format, m |-> m, trailing |-> trailing]
  BY <1>1, PickedKind DEF PickMessage
<1>3. PICK m \in Messages(format) : \E trailing \in StringsUpTo(1) :
        input' = [about |-> "message", format |-> format, m |-> m, trailing |-> trailing]
  BY <1>2
<1>4. PICK trailing \in StringsUpTo(1) :
        input' = [about |-> "message", format |-> format, m |-> m, trailing |-> trailing]
  BY <1>3
<1>5. input'.format = format /\ input'.m = m /\ input'.trailing = trailing
  BY <1>4
<1>6. trailing \in Seq(Nat)
  BY ShortStrings
<1> DEFINE bytes == Encode(format, m)
           r == DecodeAs(format, bytes \o trailing)
<1>7. IF format \in ToTheEnd /\ trailing # <<>> THEN ~r.ok
      ELSE r.ok /\ r.fields = m /\ r.pos = Len(bytes)
  BY <1>1, <1>5, <1>6, DecodesBack
<1> QED BY <1>5, <1>7

\* The frame a step picks begins with the tag of its format.
LEMMA PickedFrame ==
  ASSUME Pick, input'.about = "frame"
  PROVE \E format \in Formats : \E s \in Seq(Byte) :
          input' = [about |-> "frame", format |-> format, d |-> First(format) \o s]
<1>1. PICK format \in Formats : \E d \in Frames(format) :
        input' = [about |-> "frame", format |-> format, d |-> d]
  BY PickedKind DEF PickFrame
<1>2. PICK d \in Frames(format) : input' = [about |-> "frame", format |-> format, d |-> d]
  BY <1>1
<1>3. \E s \in Seq(Byte) : d = First(format) \o s
  <2>1. CASE format \in Sliced
    <3>1. d \in StringsUpTo(MaxBytes) /\ First(format) = <<>>
      BY <2>1 DEF Frames, First
    <3>2. d \in Seq(Byte)
      BY <3>1, ShortStrings, InputsAssumption
    <3>3. <<>> \o d = d
      BY <3>2
    <3> QED BY <3>1, <3>2, <3>3
  <2>2. CASE format \notin Sliced
    <3>1. PICK s \in StringsUpTo(MaxBytes) : d = Tag[format] \o s
      BY <2>2 DEF Frames
    <3>2. s \in Seq(Byte)
      BY ShortStrings, InputsAssumption
    <3>3. d = First(format) \o s
      BY <2>2, <3>1 DEF First
    <3> QED BY <3>2, <3>3
  <2> QED BY <2>1, <2>2
<1> QED BY <1>2, <1>3

\* DecodedIsEncoded of the frame a step picks.
LEMMA PickedIsEncoded ==
  ASSUME Pick
  PROVE DecodedIsEncoded'
<1> DEFINE Good(format, d, r) ==
             /\ Encodable(r.fields)
             /\ r.pos <= Len(d)
             /\ Encode(format, r.fields) = SubSeq(d, 1, r.pos)
             /\ format = "ServerHello" =>
                  EncodeServerHelloCore(r.fields) =
                    SubSeq(d, 2, 1 + Len(EncodeServerHelloCore(r.fields)))
<1>1. ASSUME input'.about = "frame", DecodeAs(input'.format, input'.d).ok
      PROVE Good(input'.format, input'.d, DecodeAs(input'.format, input'.d))
  <2>1. PICK format \in Formats : \E s \in Seq(Byte) :
          input' = [about |-> "frame", format |-> format, d |-> First(format) \o s]
    BY <1>1, PickedFrame
  <2>2. PICK s \in Seq(Byte) : input' = [about |-> "frame", format |-> format, d |-> First(format) \o s]
    BY <2>1
  <2> DEFINE d == First(format) \o s
             r == DecodeAs(format, d)
  <2>3. input'.format = format /\ input'.d = d
    <3>1. input' = [about |-> "frame", format |-> format, d |-> d]
      BY <2>2
    <3> HIDE DEF d
    <3> QED BY <3>1
  <2>4. r.ok
    BY <1>1, <2>3
  <2>5. Good(format, d, r)
    <3>1. d = First(format) \o s /\ r = DecodeAs(format, d)
      OBVIOUS
    <3> HIDE DEF d, r
    <3>2. Faithful(format, d, r)
      BY <2>4, <3>1, EncodesWhatWasDecoded
    <3> QED BY <3>2 DEF Faithful
  <2> HIDE DEF Good, d, r
  <2> QED BY <2>3, <2>5 DEF r
<1> QED BY <1>1 DEF DecodedIsEncoded

\* SlicesAgreeWithReader of the frame a step picks.
LEMMA PickedSlicesAgree ==
  ASSUME Pick
  PROVE SlicesAgreeWithReader'
<1> DEFINE Same(format, d, read) ==
             LET whole == read.ok /\ (format \in ToTheEnd => read.pos = Len(d))
             IN /\ DecodeAs(format, d).ok <=> whole
                /\ whole => DecodeAs(format, d).fields = read.fields
<1>1. ASSUME input'.about = "frame", input'.format \in Sliced
      PROVE Same(input'.format, input'.d, ReadAll(input'.d, At(0), Layout(input'.format)))
  <2>1. PICK format \in Formats : \E s \in Seq(Byte) :
          input' = [about |-> "frame", format |-> format, d |-> First(format) \o s]
    BY <1>1, PickedFrame
  <2>2. PICK s \in Seq(Byte) : input' = [about |-> "frame", format |-> format, d |-> First(format) \o s]
    BY <2>1
  <2> DEFINE d == First(format) \o s
  <2>3. input'.format = format /\ input'.d = d /\ format \in Sliced
    BY <1>1, <2>2
  <2>4. d \in Seq(Nat)
    <3>1. First(format) \in Seq(Nat) /\ s \in Seq(Nat)
      BY FirstBytes, BytesAreNumbers
    <3> QED BY <3>1, ConcatProperties
  <2> HIDE DEF d
  <2>5. Agrees(format, d) /\ Reader(format, d) = ReadAll(d, At(0), Layout(format))
    BY <2>3, <2>4, DecodersAgree, SlicedReader
  <2>6. Same(format, d, ReadAll(d, At(0), Layout(format)))
    BY <2>5 DEF Agrees, Whole
  <2> HIDE DEF Same
  <2> QED BY <2>3, <2>6
<1> QED BY <1>1 DEF SlicesAgreeWithReader

\* RoundTrip, for every width, length and number of byte values.
THEOREM MessagesRoundTrip == Spec => []RoundTrip
<1>1. Init => RoundTrip
  BY DEF Init, Nothing, RoundTrip
<1>2. RoundTrip /\ [Next]_input => RoundTrip'
  <2>1. CASE Next
    BY <2>1, PickedRoundTrips DEF Next
  <2>2. CASE UNCHANGED input
    BY <2>2 DEF RoundTrip
  <2> QED BY <2>1, <2>2
<1> QED BY <1>1, <1>2, PTL DEF Spec

\* DecodedIsEncoded: no frame cut short is taken for a message, and a client
\* verifies the bytes it received.
THEOREM FramesAreEncodings == Spec => []DecodedIsEncoded
<1>1. Init => DecodedIsEncoded
  BY DEF Init, Nothing, DecodedIsEncoded
<1>2. DecodedIsEncoded /\ [Next]_input => DecodedIsEncoded'
  <2>1. CASE Next
    BY <2>1, PickedIsEncoded DEF Next
  <2>2. CASE UNCHANGED input
    BY <2>2 DEF DecodedIsEncoded
  <2> QED BY <2>1, <2>2
<1> QED BY <1>1, <1>2, PTL DEF Spec

\* SlicesAgreeWithReader: decode_server_config, _unpack_ke1 and _unpack_ke2
\* are as strict as a reader that tests every length.
THEOREM SlicesAreStrict == Spec => []SlicesAgreeWithReader
<1>1. Init => SlicesAgreeWithReader
  BY DEF Init, Nothing, SlicesAgreeWithReader
<1>2. SlicesAgreeWithReader /\ [Next]_input => SlicesAgreeWithReader'
  <2>1. CASE Next
    BY <2>1, PickedSlicesAgree DEF Next
  <2>2. CASE UNCHANGED input
    BY <2>2 DEF SlicesAgreeWithReader
  <2> QED BY <2>1, <2>2
<1> QED BY <1>1, <1>2, PTL DEF Spec

-----------------------------------------------------------------------------
(* Powers modulo a prime: pow(x, e, p) *)

\* A remainder is known by the multiple it leaves.
LEMMA RemainderIs ==
  ASSUME NEW p \in Nat \ {0}, NEW x \in Int, NEW q \in Int, NEW r \in 0 .. p - 1, x = q * p + r
  PROVE x % p = r
<1> DEFINE k == q - (x \div p)
<1>1. x = ((x \div p) * p) + (x % p) /\ x % p \in 0 .. p - 1 /\ x \div p \in Int
  OBVIOUS
<1>2. k \in Int /\ k * p = (x % p) - r
  BY <1>1
<1>3. -p < k * p /\ k * p < p
  BY <1>1, <1>2
<1> HIDE DEF k
<1>4. ~(k >= 1)
  <2>1. ASSUME k >= 1 PROVE k * p >= p
    BY <1>2, <2>1
  <2> QED BY <1>2, <1>3, <2>1
<1>5. ~(k <= -1)
  <2>1. ASSUME k <= -1 PROVE k * p <= -p
    BY <1>2, <2>1
  <2> QED BY <1>2, <1>3, <2>1
<1>6. k = 0
  BY <1>2, <1>4, <1>5
<1> QED BY <1>1, <1>2, <1>6

\* A number is its remainder and a multiple.
LEMMA Remainder ==
  ASSUME NEW p \in Nat \ {0}, NEW x \in Int
  PROVE x % p \in 0 .. p - 1 /\ \E q \in Int : x = (q * p) + (x % p)
<1>1. x = ((x \div p) * p) + (x % p) /\ x % p \in 0 .. p - 1 /\ x \div p \in Int
  OBVIOUS
<1> QED BY <1>1

\* Reducing a factor does not change the product modulo p.
LEMMA ReduceFactor ==
  ASSUME NEW p \in Nat \ {0}, NEW x \in Int, NEW y \in Int
  PROVE ((x % p) * y) % p = (x * y) % p
<1> DEFINE u == x % p
           r == (u * y) % p
<1>1. PICK a \in Int : x = (a * p) + u
  BY Remainder
<1>2. u \in Int
  BY Remainder
<1> HIDE DEF u
<1>3. u * y \in Int
  BY <1>2
<1>4. r \in 0 .. p - 1 /\ \E b \in Int : u * y = (b * p) + r
  BY <1>3, Remainder
<1>5. PICK b \in Int : u * y = (b * p) + r
  BY <1>4
<1> HIDE DEF r
<1>6. x * y = (a * y + b) * p + r
  <2>1. x * y = (a * p) * y + u * y
    BY <1>1, <1>2
  <2>2. (a * p) * y + b * p = (a * y + b) * p
    OBVIOUS
  <2>3. r \in Int
    BY <1>4
  <2>4. a * p \in Int /\ (a * p) * y \in Int /\ b * p \in Int
    OBVIOUS
  <2> QED BY <1>5, <2>1, <2>2, <2>3, <2>4
<1>7. x * y \in Int /\ a * y + b \in Int
  OBVIOUS
<1>8. (x * y) % p = r
  BY <1>4, <1>6, <1>7, RemainderIs
<1> QED BY <1>8 DEF r, u

\* Numbers below p are their own remainders.
LEMMA SmallRemainder ==
  ASSUME NEW p \in Nat \ {0}, NEW x \in 0 .. p - 1
  PROVE x % p = x
OBVIOUS

\* Pow multiplies and reduces e times.
LEMMA PowUnfolds ==
  ASSUME NEW p \in Nat \ {0, 1}, NEW x \in Int, NEW e \in Nat
  PROVE \E power \in [0 .. e -> 0 .. p - 1] :
          /\ power[0] = 1 /\ \A i \in 1 .. e : power[i] = (power[i - 1] * x) % p
          /\ Pow(x, e, p) = power[e]
<1> DEFINE D == 0 .. p - 1
           Multiplies(f) == f = [i \in 0 .. e |-> IF i = 0 THEN 1 ELSE (f[i - 1] * x) % p]
           step == [i \in 1 .. e |-> [m \in D |-> (m * x) % p]]
           f == CHOOSE f : Multiplies(f)
<1>0. ASSUME NEW m \in D PROVE (m * x) % p \in D
  <2>1. m * x \in Int
    OBVIOUS
  <2> QED BY <2>1, Remainder
<1>1. step \in Steps(e, D) /\ 1 \in D
  BY <1>0 DEF Steps
<1>2. \E g : Multiplies(g)
  <2> HIDE DEF step, D
  <2>0. Runs(e, D, 1, step) # {}
    BY <1>1, RecursionExists
  <2>1. PICK g \in [0 .. e -> D] : g[0] = 1 /\ \A i \in 1 .. e : g[i] = step[i][g[i - 1]]
    BY <2>0 DEF Runs
  <2>2. ASSUME NEW i \in 1 .. e PROVE g[i] = (g[i - 1] * x) % p
    <3>1. g[i - 1] \in D
      OBVIOUS
    <3>2. step[i][g[i - 1]] = (g[i - 1] * x) % p
      BY <3>1 DEF step
    <3> QED BY <2>1, <3>2
  <2> QED BY <2>1, <2>2
<1>3. Multiplies(f)
  BY <1>2
<1>4. Pow(x, e, p) = f[e]
  BY DEF Pow
<1> HIDE DEF f
<1>5. f[0] = 1 /\ \A i \in 1 .. e : f[i] = (f[i - 1] * x) % p
  BY <1>3
<1> DEFINE S == {i \in 0 .. e : f[i] \in D}
<1>6. 0 \in S
  BY <1>5
<1>7. ASSUME NEW i \in 1 .. e, i - 1 \in S PROVE i \in S
  <2>1. f[i - 1] \in D
    BY <1>7
  <2>2. f[i] \in D
    BY <1>0, <1>5, <2>1
  <2> QED BY <2>2
<1> HIDE DEF S, D
<1>8. 0 .. e \subseteq S
  BY <1>6, <1>7, IntervalInduction
<1>9. f \in [0 .. e -> D]
  BY <1>3, <1>8 DEF S
<1> QED BY <1>4, <1>5, <1>9 DEF D

\* No factor.
LEMMA PowOfNone ==
  ASSUME NEW p \in Nat \ {0, 1}, NEW x \in Int
  PROVE Pow(x, 0, p) = 1
<1>1. 0 \in Nat
  OBVIOUS
<1>2. PICK f \in [0 .. 0 -> 0 .. p - 1] : f[0] = 1 /\ Pow(x, 0, p) = f[0]
  BY <1>1, PowUnfolds
<1> QED BY <1>2

\* One more factor.
LEMMA PowStep ==
  ASSUME NEW p \in Nat \ {0, 1}, NEW x \in Int, NEW e \in Nat
  PROVE /\ Pow(x, e, p) \in 0 .. p - 1
        /\ Pow(x, e + 1, p) = (Pow(x, e, p) * x) % p
<1>1. PICK f \in [0 .. e -> 0 .. p - 1] :
        /\ f[0] = 1 /\ \A i \in 1 .. e : f[i] = (f[i - 1] * x) % p
        /\ Pow(x, e, p) = f[e]
  BY PowUnfolds
<1>2. PICK g \in [0 .. e + 1 -> 0 .. p - 1] :
        /\ g[0] = 1 /\ \A i \in 1 .. e + 1 : g[i] = (g[i - 1] * x) % p
        /\ Pow(x, e + 1, p) = g[e + 1]
  <2>1. e + 1 \in Nat
    OBVIOUS
  <2> QED BY <2>1, PowUnfolds
<1> DEFINE S == {i \in 0 .. e : f[i] = g[i]}
<1>4. 0 \in S
  BY <1>1, <1>2
<1>5. ASSUME NEW i \in 1 .. e, i - 1 \in S PROVE i \in S
  <2>1. f[i - 1] = g[i - 1] /\ i \in 1 .. e + 1
    BY <1>5
  <2>2. f[i] = g[i]
    BY <1>1, <1>2, <2>1
  <2> QED BY <2>2
<1> HIDE DEF S
<1>6. 0 .. e \subseteq S
  BY <1>4, <1>5, IntervalInduction
<1>7. f[e] = g[e]
  BY <1>6 DEF S
<1>8. g[e + 1] = (g[e] * x) % p
  <2>1. e + 1 \in 1 .. e + 1 /\ (e + 1) - 1 = e
    OBVIOUS
  <2> QED BY <1>2, <2>1
<1>9. f[e] \in 0 .. p - 1
  OBVIOUS
<1> QED BY <1>1, <1>2, <1>7, <1>8, <1>9

\* The power of a sum of exponents, and of a square.
LEMMA PowOfSum ==
  ASSUME NEW p \in Nat \ {0, 1}, NEW x \in Int, NEW e \in Nat, NEW d \in Nat
  PROVE Pow(x, e + d, p) = (Pow(x, e, p) * Pow(x, d, p)) % p
<1> DEFINE a == Pow(x, e, p)
           S == {n \in Nat : Pow(x, e + n, p) = (a * Pow(x, n, p)) % p}
<1>0. a \in 0 .. p - 1
  BY PowStep
<1>1. 0 \in S
  <2>1. Pow(x, 0, p) = 1 /\ e + 0 = e
    BY PowOfNone
  <2>2. a * 1 = a /\ a % p = a
    BY <1>0, SmallRemainder
  <2> QED BY <2>1, <2>2
<1> HIDE DEF a
<1>2. ASSUME NEW n \in Nat, n \in S PROVE n + 1 \in S
  <2> DEFINE b == Pow(x, n, p)
  <2>1. b \in 0 .. p - 1 /\ Pow(x, n + 1, p) = (b * x) % p
    BY PowStep
  <2>2. Pow(x, e + (n + 1), p) = (Pow(x, e + n, p) * x) % p
    <3>1. e + n \in Nat /\ e + (n + 1) = (e + n) + 1
      OBVIOUS
    <3> QED BY <3>1, PowStep
  <2>3. Pow(x, e + n, p) = (a * b) % p
    BY <1>2
  <2> HIDE DEF b
  <2>4. a * b \in Int /\ b * x \in Int
    BY <1>0, <2>1
  <2>5. (((a * b) % p) * x) % p = ((a * b) * x) % p
    BY <2>4, ReduceFactor
  <2>6. (((b * x) % p) * a) % p = ((b * x) * a) % p
    BY <1>0, <2>4, ReduceFactor
  <2>7. (a * b) * x = (b * x) * a
    BY <1>0, <2>1
  <2>8. (b * x) % p \in Int /\ ((b * x) % p) * a = a * ((b * x) % p)
    BY <1>0, <2>4, Remainder
  <2> QED BY <2>1, <2>2, <2>3, <2>5, <2>6, <2>7, <2>8
<1> HIDE DEF S
<1>3. Nat \subseteq S
  BY <1>1, <1>2, SetInduction
<1> QED BY <1>3 DEF S, a

\* Powers of a reduced square.
LEMMA PowOfSquare ==
  ASSUME NEW p \in Nat \ {0, 1}, NEW x \in Int, NEW e \in Nat
  PROVE Pow((x * x) % p, e, p) = Pow(x, 2 * e, p)
<1> DEFINE sq == (x * x) % p
           S == {n \in Nat : Pow(sq, n, p) = Pow(x, 2 * n, p)}
<1>0. x * x \in Int /\ sq \in Int
  <2>1. x * x \in Int
    OBVIOUS
  <2> QED BY <2>1, Remainder
<1>1. 0 \in S
  <2>1. Pow(sq, 0, p) = 1 /\ Pow(x, 0, p) = 1 /\ 2 * 0 = 0
    BY <1>0, PowOfNone
  <2> QED BY <2>1
<1>2. ASSUME NEW n \in Nat, n \in S PROVE n + 1 \in S
  <2> DEFINE b == Pow(x, 2 * n, p)
  <2>1. 2 * n \in Nat /\ 2 * n + 1 \in Nat /\ 2 * (n + 1) = (2 * n + 1) + 1
    OBVIOUS
  <2>2. b \in 0 .. p - 1 /\ Pow(x, 2 * n + 1, p) = (b * x) % p
    BY <2>1, PowStep
  <2>3. Pow(x, 2 * (n + 1), p) = (((b * x) % p) * x) % p
    BY <2>1, <2>2, PowStep
  <2>4. Pow(sq, n + 1, p) = (b * sq) % p
    <3>1. Pow(sq, n + 1, p) = (Pow(sq, n, p) * sq) % p
      BY <1>0, PowStep
    <3> QED BY <1>2, <3>1
  <2> HIDE DEF b
  <2>5. b * x \in Int /\ b \in Int
    BY <2>2
  <2>6. (((b * x) % p) * x) % p = ((b * x) * x) % p
    BY <2>5, ReduceFactor
  <2>7. (sq * b) % p = ((x * x) * b) % p
    BY <1>0, <2>5, ReduceFactor
  <2>8. (b * x) * x = (x * x) * b
    BY <2>5
  <2>9. sq * b = b * sq
    <3> HIDE DEF sq
    <3> QED BY <1>0, <2>5
  <2> HIDE DEF sq
  <2> QED BY <2>3, <2>4, <2>6, <2>7, <2>8, <2>9
<1> HIDE DEF S
<1>3. Nat \subseteq S
  BY <1>1, <1>2, SetInduction
<1> QED BY <1>3 DEF S, sq

\* What the assumption says of a number: p is a prime.
Fermat(p) == \A x \in 1 .. p - 1 : Pow(x, p - 1, p) = 1

\* The inverse that the code computes.
LEMMA InverseIs ==
  ASSUME NEW p \in Nat \ {0, 1, 2}, Fermat(p), NEW x \in 1 .. p - 1
  PROVE Inverted(x, p) \in 0 .. p - 1 /\ (Inverted(x, p) * x) % p = 1
<1>1. p - 2 \in Nat /\ (p - 2) + 1 = p - 1 /\ x \in Int
  OBVIOUS
<1>2. Pow(x, p - 2, p) \in 0 .. p - 1 /\ Pow(x, p - 1, p) = (Pow(x, p - 2, p) * x) % p
  BY <1>1, PowStep
<1> QED BY <1>2 DEF Inverted, Fermat

\* A prime that divides a product divides a factor.
LEMMA DividesFactor ==
  ASSUME NEW p \in Nat \ {0, 1, 2}, Fermat(p), NEW a \in Int, NEW b \in Int, (a * b) % p = 0
  PROVE a % p = 0 \/ b % p = 0
<1> SUFFICES ASSUME a % p # 0 PROVE b % p = 0
  OBVIOUS
<1> DEFINE u == a % p
           w == Inverted(u, p)
<1>1. u \in 1 .. p - 1
  BY Remainder
<1>2. w \in 0 .. p - 1 /\ (w * u) % p = 1
  <2> HIDE DEF u
  <2> QED BY <1>1, InverseIs
<1>3. (u * b) % p = 0
  BY ReduceFactor
<1> HIDE DEF u, w
<1>4. w * u \in Int /\ u * b \in Int /\ w \in Int
  BY <1>1, <1>2
<1>5. (((w * u) % p) * b) % p = ((w * u) * b) % p
  BY <1>4, ReduceFactor
<1>6. (((u * b) % p) * w) % p = ((u * b) * w) % p
  BY <1>4, ReduceFactor
<1>7. (w * u) * b = (u * b) * w
  BY <1>1, <1>4
<1>8. 1 * b = b /\ 0 * w = 0 /\ 0 % p = 0
  BY <1>4
<1> QED BY <1>2, <1>3, <1>5, <1>6, <1>7, <1>8

\* The root that the code computes is one of the two: sqrt(y^2) is y or -y.
LEMMA RootIs ==
  ASSUME NEW p \in Nat \ {0, 1, 2}, Fermat(p), p % 4 = 3, NEW y \in 0 .. p - 1
  PROVE LET z == Pow((y * y) % p, (p + 1) \div 4, p)
        IN z \in 0 .. p - 1 /\ (z = y \/ z = p - y)
<1> DEFINE n == (p + 1) \div 4
           z == Pow((y * y) % p, n, p)
<1>1. PICK m \in Nat : n = m + 1 /\ p = 4 * m + 3
  <2>1. p = ((p \div 4) * 4) + 3 /\ p \div 4 \in Nat
    OBVIOUS
  <2>2. n = (p \div 4) + 1
    BY <2>1
  <2> QED BY <2>1, <2>2
<1>2. y \in Int /\ n \in Nat
  BY <1>1
<1>3. z = Pow(y, 2 * n, p) /\ z \in 0 .. p - 1
  <2>1. 2 * n \in Nat
    BY <1>2
  <2>2. z = Pow(y, 2 * n, p)
    BY <1>2, PowOfSquare
  <2> QED BY <1>2, <2>1, <2>2, PowStep
<1> HIDE DEF z, n
<1>4. Pow(y, 1, p) = y /\ Pow(y, 2, p) = (y * y) % p
  <2>1. Pow(y, 0, p) = 1 /\ 0 \in Nat /\ 0 + 1 = 1
    BY <1>2, PowOfNone
  <2>2. Pow(y, 0 + 1, p) = (Pow(y, 0, p) * y) % p
    BY <1>2, <2>1, PowStep
  <2>3. (1 * y) % p = y
    OBVIOUS
  <2>4. Pow(y, 1 + 1, p) = (Pow(y, 1, p) * y) % p
    BY <1>2, PowStep
  <2> QED BY <2>1, <2>2, <2>3, <2>4
<1>5. (z * z) % p = (y * y) % p
  <2>1. Pow(y, 2 * n + 2 * n, p) = (z * z) % p
    <3>1. 2 * n \in Nat
      BY <1>2
    <3> QED BY <1>2, <1>3, <3>1, PowOfSum
  <2>2. 2 * n + 2 * n = (p - 1) + 2 /\ p - 1 \in Nat
    BY <1>1
  <2>3. Pow(y, (p - 1) + 2, p) = (Pow(y, p - 1, p) * ((y * y) % p)) % p
    <3>1. PICK e, two \in Nat : e = p - 1 /\ two = 2
      OBVIOUS
    <3>2. Pow(y, e + two, p) = (Pow(y, e, p) * Pow(y, two, p)) % p
      BY <1>2, PowOfSum
    <3> QED BY <1>4, <3>1, <3>2
  <2>4. CASE y # 0
    <3> DEFINE sq == (y * y) % p
    <3>1. Pow(y, p - 1, p) = 1
      BY <2>4 DEF Fermat
    <3>2. sq \in 0 .. p - 1
      <4>1. y * y \in Int
        OBVIOUS
      <4> QED BY <4>1, Remainder
    <3>3. (1 * sq) % p = sq
      <4> HIDE DEF sq
      <4> QED BY <3>2
    <3> QED BY <2>1, <2>2, <2>3, <3>1, <3>3
  <2>5. CASE y = 0
    <3>1. z = (Pow(y, 2 * n - 1, p) * y) % p
      <4>1. 2 * n - 1 \in Nat /\ (2 * n - 1) + 1 = 2 * n
        BY <1>1
      <4> QED BY <1>2, <1>3, <4>1, PowStep
    <3>2. Pow(y, 2 * n - 1, p) \in 0 .. p - 1
      <4>1. 2 * n - 1 \in Nat
        BY <1>1
      <4> QED BY <1>2, <4>1, PowStep
    <3>3. z = 0
      BY <2>5, <3>1, <3>2
    <3> QED BY <2>5, <3>3
  <2> QED BY <2>4, <2>5
<1>6. ((z - y) * (z + y)) % p = 0
  <2>1. z * z \in Int /\ y * y \in Int /\ z \in Int
    BY <1>3
  <2>2. PICK a \in Int : z * z = (a * p) + ((z * z) % p)
    BY <2>1, Remainder
  <2>3. PICK b \in Int : y * y = (b * p) + ((y * y) % p)
    BY <2>1, Remainder
  <2>4. (z - y) * (z + y) = z * z - y * y
    BY <1>3
  <2>5. (z * z) % p \in Int
    BY <2>1, Remainder
  <2>6. a * p \in Int /\ b * p \in Int /\ a * p - b * p = (a - b) * p
    OBVIOUS
  <2>7. z * z - y * y = (a - b) * p + 0
    BY <1>5, <2>1, <2>2, <2>3, <2>5, <2>6
  <2>8. a - b \in Int /\ z * z - y * y \in Int /\ 0 \in 0 .. p - 1
    BY <2>1
  <2>9. (z * z - y * y) % p = 0
    BY <2>7, <2>8, RemainderIs
  <2> QED BY <2>4, <2>9
<1>7. (z - y) % p = 0 \/ (z + y) % p = 0
  <2>1. z - y \in Int /\ z + y \in Int
    BY <1>3
  <2> QED BY <1>6, <2>1, DividesFactor
<1>8. z = y \/ z = p - y
  <2>1. CASE (z - y) % p = 0
    <3>1. z - y \in -(p - 1) .. p - 1
      BY <1>3
    <3> QED BY <1>3, <2>1, <3>1
  <2>2. CASE (z + y) % p = 0
    <3>1. z + y \in 0 .. 2 * p - 2
      BY <1>3
    <3> QED BY <1>3, <2>2, <3>1
  <2> QED BY <1>7, <2>1, <2>2
<1> QED BY <1>3, <1>8 DEF z, n

\* Compressing a point of the curve and decompressing it gives the point.
LEMMA DecompressesBack ==
  ASSUME NEW P \in Curve
  PROVE Decompress(Compress(P)) = P
<1>1. PICK x, y \in 0 .. Field - 1 : P = <<x, y>> /\ (y * y) % Field = (x * x * x + A * x + B) % Field
  BY DEF Curve
<1> DEFINE z == Pow((y * y) % Field, (Field + 1) \div 4, Field)
<1>2. Field \in Nat \ {0, 1, 2} /\ Field % 4 = 3 /\ Fermat(Field)
  BY CurveAssumption, PrimesAssumption DEF Fermat
<1>3. z \in 0 .. Field - 1 /\ (z = y \/ z = Field - y)
  BY <1>2, RootIs
<1>4. Decompress(Compress(P)) = <<x, IF z % 2 = y % 2 THEN z ELSE Field - z>>
  <2>1. Compress(P) = [parity |-> y % 2, x |-> x]
    BY <1>1 DEF Compress
  <2> QED BY <1>1, <2>1 DEF Decompress
<1> HIDE DEF z
<1>5. (IF z % 2 = y % 2 THEN z ELSE Field - z) = y
  <2>1. CASE z = y
    BY <2>1
  <2>2. CASE z = Field - y /\ z # y
    <3>1. Field % 2 = 1
      BY <1>2
    <3>2. z % 2 # y % 2
      BY <1>2, <1>3, <2>2, <3>1
    <3> QED BY <1>2, <2>2, <3>2
  <2> QED BY <1>3, <2>1, <2>2
<1> QED BY <1>1, <1>4, <1>5

-----------------------------------------------------------------------------
(* Addition stays on the curve *)

\* p divides n.
Divides(p, n) == n % p = 0

\* Multiples of p, added up and multiplied.
LEMMA Divisible ==
  ASSUME NEW p \in Nat \ {0}, NEW a \in Int, NEW b \in Int, Divides(p, a)
  PROVE /\ Divides(p, a * b)
        /\ Divides(p, b) => Divides(p, a + b) /\ Divides(p, a - b)
<1> USE DEF Divides
<1>1. PICK q \in Int : a = q * p
  <2>1. PICK q \in Int : a = (q * p) + (a % p)
    BY Remainder
  <2> QED BY <2>1
<1>2. (a * b) % p = 0
  <2>1. a * b = (q * b) * p + 0 /\ q * b \in Int /\ a * b \in Int
    BY <1>1
  <2>2. 0 \in 0 .. p - 1
    OBVIOUS
  <2> QED BY <2>1, <2>2, RemainderIs
<1>3. ASSUME b % p = 0 PROVE (a + b) % p = 0 /\ (a - b) % p = 0
  <2>1. PICK m \in Int : b = m * p
    <3>1. PICK m \in Int : b = (m * p) + (b % p)
      BY Remainder
    <3> QED BY <1>3, <3>1
  <2>2. a + b = (q + m) * p + 0 /\ a - b = (q - m) * p + 0
    BY <1>1, <2>1
  <2>3. 0 \in 0 .. p - 1 /\ q + m \in Int /\ q - m \in Int /\ a + b \in Int /\ a - b \in Int
    OBVIOUS
  <2> QED BY <2>2, <2>3, RemainderIs
<1> QED BY <1>2, <1>3

\* Two numbers have one remainder when p divides their difference.
LEMMA SameRemainder ==
  ASSUME NEW p \in Nat \ {0}, NEW a \in Int, NEW b \in Int
  PROVE a % p = b % p <=> Divides(p, a - b)
<1> USE DEF Divides
<1>1. PICK q \in Int : a = (q * p) + (a % p)
  BY Remainder
<1>2. PICK m \in Int : b = (m * p) + (b % p)
  BY Remainder
<1>3. a % p \in 0 .. p - 1 /\ b % p \in 0 .. p - 1 /\ 0 \in 0 .. p - 1 /\ a - b \in Int /\ q - m \in Int
  BY Remainder
<1>4. ASSUME a % p = b % p PROVE (a - b) % p = 0
  <2>1. PICK r \in 0 .. p - 1 : r = a % p /\ r = b % p
    BY <1>3, <1>4
  <2>2. a = (q * p) + r /\ b = (m * p) + r
    BY <1>1, <1>2, <2>1
  <2>3. a - b = (q - m) * p + 0
    <3>1. q * p \in Int /\ m * p \in Int /\ (q - m) * p = q * p - m * p
      OBVIOUS
    <3> QED BY <2>2, <3>1
  <2> QED BY <1>3, <2>3, RemainderIs
<1>5. ASSUME (a - b) % p = 0 PROVE a % p = b % p
  <2>1. PICK n \in Int : a - b = n * p
    <3>1. PICK d \in Int : d = a - b
      OBVIOUS
    <3>2. PICK n \in Int : d = (n * p) + (d % p)
      BY Remainder
    <3>3. d % p = 0
      BY <1>5, <3>1
    <3>4. d = n * p
      BY <3>2, <3>3
    <3> QED BY <3>1, <3>4
  <2>2. PICK r \in 0 .. p - 1 : r = b % p
    BY <1>3
  <2>3. a = (n + m) * p + r
    <3>1. n * p \in Int /\ m * p \in Int /\ (n + m) * p = n * p + m * p
      OBVIOUS
    <3>2. b = (m * p) + r
      BY <1>2, <2>2
    <3> QED BY <2>1, <3>1, <3>2
  <2>4. n + m \in Int
    OBVIOUS
  <2> QED BY <2>2, <2>3, <2>4, RemainderIs
<1> QED BY <1>4, <1>5

\* A prime that divides a product divides a factor.
LEMMA PrimeDivides ==
  ASSUME NEW p \in Nat \ {0, 1, 2}, Fermat(p), NEW a \in Int, NEW b \in Int, Divides(p, a * b)
  PROVE Divides(p, a) \/ Divides(p, b)
BY DividesFactor DEF Divides

\* What is raised may be reduced first.
LEMMA PowOfRemainder ==
  ASSUME NEW p \in Nat \ {0, 1}, NEW x \in Int, NEW e \in Nat
  PROVE Pow(x % p, e, p) = Pow(x, e, p)
<1> DEFINE u == x % p
           S == {n \in Nat : Pow(u, n, p) = Pow(x, n, p)}
<1>0. u \in Int
  BY Remainder
<1>1. 0 \in S
  BY <1>0, PowOfNone
<1>2. ASSUME NEW n \in Nat, n \in S PROVE n + 1 \in S
  <2> DEFINE b == Pow(x, n, p)
  <2>1. b \in 0 .. p - 1 /\ Pow(x, n + 1, p) = (b * x) % p
    BY PowStep
  <2>2. Pow(u, n + 1, p) = (Pow(u, n, p) * u) % p /\ Pow(u, n, p) = b
    <3> HIDE DEF u
    <3>1. Pow(u, n + 1, p) = (Pow(u, n, p) * u) % p
      BY <1>0, PowStep
    <3> QED BY <1>2, <3>1
  <2> HIDE DEF b
  <2>3. (u * b) % p = (x * b) % p
    <3>1. b \in Int
      BY <2>1
    <3> QED BY <3>1, ReduceFactor
  <2>4. u * b = b * u /\ x * b = b * x
    <3> HIDE DEF u
    <3> QED BY <1>0, <2>1
  <2> HIDE DEF u
  <2> QED BY <2>1, <2>2, <2>3, <2>4
<1> HIDE DEF S
<1>3. Nat \subseteq S
  BY <1>1, <1>2, SetInduction
<1> QED BY <1>3 DEF S, u

\* A quotient of the code, a * pow(d, p - 2, p), is one modulo p.
LEMMA QuotientIs ==
  ASSUME NEW p \in Nat \ {0, 1, 2}, Fermat(p), NEW a \in Int, NEW d \in Int, ~Divides(p, d)
  PROVE /\ a * Inverted(d, p) \in Int
        /\ Divides(p, (a * Inverted(d, p)) * d - a)
<1> DEFINE u == d % p
           w == Inverted(d, p)
<1>1. u \in 1 .. p - 1 /\ p - 2 \in Nat
  BY Remainder DEF Divides
<1>2. Inverted(u, p) = w
  BY <1>1, PowOfRemainder DEF Inverted
<1>3. w \in 0 .. p - 1 /\ (w * u) % p = 1
  <2> HIDE DEF u, w
  <2> QED BY <1>1, <1>2, InverseIs
<1>4. (u * w) % p = (d * w) % p
  <2> HIDE DEF w
  <2>1. w \in Int
    BY <1>3
  <2> QED BY <2>1, ReduceFactor
<1> HIDE DEF u, w
<1>5. w \in Int /\ u \in Int /\ w * d \in Int
  BY <1>1, <1>3
<1>6. w * u = u * w /\ w * d = d * w
  BY <1>5
<1>7. (w * d) % p = 1 % p
  <2>1. 1 % p = 1
    OBVIOUS
  <2> QED BY <1>3, <1>4, <1>6, <2>1
<1>8. Divides(p, w * d - 1)
  <2>1. PICK n, one \in Int : n = w * d /\ one = 1
    BY <1>5
  <2> QED BY <1>7, <2>1, SameRemainder
<1>9. Divides(p, (w * d - 1) * a)
  <2>1. w * d - 1 \in Int
    BY <1>5
  <2> QED BY <1>8, <2>1, Divisible
<1>10. (a * w) * d - a = (w * d - 1) * a /\ a * w \in Int
  BY <1>5
<1> QED BY <1>9, <1>10 DEF w

\* What keeps the tangent of the code from dividing by 0: an odd order.
NoneOfOrderTwo == \A P \in Curve : P[2] # 0

\* The square of the line through <<x, y>> of slope s, against the cubic, at t.
Off(t, s, x, y) == t * t * t + A * t + B - (s * (t - x) + y) * (s * (t - x) + y)

\* A line meets the cubic in points whose x add up to s^2: a chord ...
LEMMA ChordIdentity ==
  ASSUME NEW s \in Int, NEW x1 \in Int, NEW y1 \in Int, NEW x2 \in Int, NEW x3 \in Int
  PROVE Off(x3, s, x1, y1) * (x2 - x1) =
          Off(x1, s, x1, y1) * (x2 - x3) + Off(x2, s, x1, y1) * (x3 - x1)
            - (s * s - x1 - x2 - x3) * (((x3 - x1) * (x3 - x2)) * (x2 - x1))
<1>1. A \in Int /\ B \in Int
  BY CurveAssumption
<1> QED BY <1>1 DEF Off

\* ... and a tangent.
LEMMA TangentIdentity ==
  ASSUME NEW s \in Int, NEW x1 \in Int, NEW y1 \in Int, NEW x3 \in Int
  PROVE Off(x3, s, x1, y1) =
          Off(x1, s, x1, y1) - (s * (2 * y1) - (3 * x1 * x1 + A)) * (x3 - x1)
            - (s * s - x1 - x1 - x3) * ((x3 - x1) * (x3 - x1))
<1>1. A \in Int /\ B \in Int
  BY CurveAssumption
<1> QED BY <1>1 DEF Off

\* The third point of the line, reflected, is on the curve.
LEMMA ThirdPoint ==
  ASSUME NEW s \in Int, NEW x1 \in Int, NEW y1 \in Int, NEW x \in 0 .. Field - 1,
         Divides(Field, Off(x, s, x1, y1))
  PROVE <<x, (s * (x1 - x) - y1) % Field>> \in Curve
<1> DEFINE Y == s * (x1 - x) - y1
           y == Y % Field
           C == x * x * x + A * x + B
<1>0. Field \in Nat \ {0} /\ A \in Int /\ B \in Int /\ x \in Int
  BY CurveAssumption
<1>1. Y \in Int /\ C \in Int
  BY <1>0
<1>2. y \in 0 .. Field - 1
  <2> HIDE DEF Y
  <2> QED BY <1>0, <1>1, Remainder
<1>3. (y * y) % Field = (Y * Y) % Field
  <2> HIDE DEF Y
  <2>1. (y * Y) % Field = (Y * Y) % Field
    BY <1>0, <1>1, ReduceFactor
  <2>2. y \in Int
    BY <1>2
  <2>3. (y * y) % Field = (Y * y) % Field
    BY <1>0, <1>1, <2>2, ReduceFactor
  <2>4. Y * y = y * Y
    <3> HIDE DEF y
    <3> QED BY <1>1, <2>2
  <2> HIDE DEF y
  <2> QED BY <2>1, <2>3, <2>4
<1>4. Off(x, s, x1, y1) = C - Y * Y
  BY <1>0 DEF Off
<1>5. C % Field = (Y * Y) % Field
  <2> HIDE DEF C, Y
  <2>1. PICK n \in Int : n = Y * Y
    BY <1>1
  <2>2. Divides(Field, C - n)
    BY <1>4, <2>1
  <2> QED BY <1>0, <1>1, <2>1, <2>2, SameRemainder
<1>6. (y * y) % Field = C % Field
  <2> HIDE DEF y, Y, C
  <2> QED BY <1>3, <1>5
<1> DEFINE P == <<x, y>>
<1>7. P[1] = x /\ P[2] = y /\ P \in (0 .. Field - 1) \X (0 .. Field - 1)
  <2> HIDE DEF y
  <2> QED BY <1>2
<1>8. (P[2] * P[2]) % Field = (P[1] * P[1] * P[1] + A * P[1] + B) % Field
  <2> HIDE DEF y, P
  <2> QED BY <1>6, <1>7
<1>9. P \in Curve
  <2> HIDE DEF P
  <2> QED BY <1>7, <1>8 DEF Curve
<1> QED BY <1>9

\* What the points of the curve and the prime field give.
LEMMA PointFacts ==
  ASSUME NEW P \in Curve
  PROVE /\ Field \in Nat \ {0, 1, 2} /\ Field % 2 = 1 /\ Fermat(Field) /\ A \in Int /\ B \in Int
        /\ P[1] \in 0 .. Field - 1 /\ P[2] \in 0 .. Field - 1 /\ P = <<P[1], P[2]>>
        /\ \A s \in Int : Divides(Field, Off(P[1], s, P[1], P[2]))
<1>1. Field \in Nat \ {0, 1, 2} /\ Fermat(Field) /\ A \in Int /\ B \in Int /\ Field % 4 = 3
  BY CurveAssumption, PrimesAssumption DEF Fermat
<1>2. Field % 2 = 1
  <2>1. PICK n \in Nat : n = Field
    BY <1>1
  <2>2. n % 4 = 3 => n % 2 = 1
    OBVIOUS
  <2> QED BY <1>1, <2>1, <2>2
<1>3. P[1] \in 0 .. Field - 1 /\ P[2] \in 0 .. Field - 1 /\ P = <<P[1], P[2]>>
  BY DEF Curve
<1>4. PICK x, y \in Int : x = P[1] /\ y = P[2]
  BY <1>1, <1>3
<1>5. ASSUME NEW s \in Int PROVE Divides(Field, Off(x, s, x, y))
  <2> DEFINE C == x * x * x + A * x + B
  <2>1. (y * y) % Field = C % Field
    BY <1>4 DEF Curve
  <2>2. C \in Int /\ y * y \in Int
    BY <1>1
  <2>3. Divides(Field, C - y * y)
    <3> HIDE DEF C
    <3>1. PICK n \in Int : n = y * y
      BY <2>2
    <3> QED BY <1>1, <2>1, <2>2, <3>1, SameRemainder
  <2>4. Off(x, s, x, y) = C - y * y
    BY <1>1 DEF Off
  <2> QED BY <2>3, <2>4
<1> QED BY <1>1, <1>2, <1>3, <1>4, <1>5

\* A sum of multiples of p, as the identities have it.
Combined(a, k, b, m, c, n) == a * k + b * m - c * n
LEMMA DivisibleSum ==
  ASSUME NEW p \in Nat \ {0}, NEW a \in Int, NEW b \in Int, NEW c \in Int,
         NEW k \in Int, NEW m \in Int, NEW n \in Int,
         Divides(p, a), Divides(p, b), Divides(p, c)
  PROVE Divides(p, Combined(a, k, b, m, c, n))
<1>1. PICK u, v, w \in Int : u = a * k /\ v = b * m /\ w = c * n
  OBVIOUS
<1>2. Divides(p, u) /\ Divides(p, v) /\ Divides(p, w)
  BY <1>1, Divisible
<1>3. Divides(p, u + v) /\ u + v \in Int
  <2>1. Divides(p, u + v)
    BY <1>2, Divisible
  <2> QED BY <2>1
<1>4. Divides(p, (u + v) - w)
  BY <1>2, <1>3, Divisible
<1> QED BY <1>1, <1>4 DEF Combined

\* What the coordinate x of a sum leaves of its definition.
Third(s, x1, x2) == (s * s - x1 - x2) % Field
Beyond(s, x1, x2, x3) == s * s - x1 - x2 - x3
LEMMA ThirdLeaves ==
  ASSUME NEW s \in Int, NEW x1 \in Int, NEW x2 \in Int
  PROVE /\ Third(s, x1, x2) \in 0 .. Field - 1
        /\ Divides(Field, Beyond(s, x1, x2, Third(s, x1, x2)))
<1> DEFINE n == s * s - x1 - x2
           x == n % Field
<1>0. Field \in Nat \ {0}
  BY CurveAssumption
<1>1. n \in Int
  OBVIOUS
<1> HIDE DEF n
<1>2. x \in 0 .. Field - 1 /\ x % Field = x
  BY <1>0, <1>1, Remainder, SmallRemainder
<1>3. Divides(Field, n - x)
  <2>1. x \in Int
    BY <1>2
  <2>2. n % Field = x % Field
    BY <1>2
  <2> HIDE DEF x
  <2> QED BY <1>0, <1>1, <2>1, <2>2, SameRemainder
<1> QED BY <1>2, <1>3 DEF n, Third, Beyond

\* The last case of _p256_affine_add, in these terms.
LEMMA LastCase ==
  ASSUME NEW P \in Curve, NEW Q \in Curve, P[1] # Q[1] \/ P[2] = Q[2],
         NEW s, s = Slope(P, Q), NEW x, x = Third(s, P[1], Q[1])
  PROVE AffineAdd(P, Q) = <<x, (s * (P[1] - x) - P[2]) % Field>>
<1>1. Infinity \notin Curve
  BY DEF Curve, Infinity
<1>2. P # Infinity /\ Q # Infinity
  BY <1>1
<1> QED BY <1>2 DEF AffineAdd, Third

\* The slope of a chord, and what it does at its second end.
LEMMA ChordSlope ==
  ASSUME NEW P \in Curve, NEW Q \in Curve, P[1] # Q[1]
  PROVE /\ Slope(P, Q) \in Int
        /\ ~Divides(Field, Q[1] - P[1])
        /\ Divides(Field, Slope(P, Q) * (Q[1] - P[1]) - (Q[2] - P[2]))
<1>0. PICK x1, y1, x2, y2 \in 0 .. Field - 1 : x1 = P[1] /\ y1 = P[2] /\ x2 = Q[1] /\ y2 = Q[2]
  BY PointFacts
<1>1. Field \in Nat \ {0, 1, 2} /\ Fermat(Field)
  BY PointFacts
<1>2. PICK d, h \in Int : d = x2 - x1 /\ h = y2 - y1
  BY <1>1
<1>3. ~Divides(Field, d)
  <2>1. x1 % Field = x1 /\ x2 % Field = x2
    BY <1>1, SmallRemainder
  <2>2. x1 \in Int /\ x2 \in Int
    BY <1>1
  <2> QED BY <1>0, <1>1, <1>2, <2>1, <2>2, SameRemainder
<1>4. Slope(P, Q) = h * Inverted(d, Field)
  BY <1>0, <1>2 DEF Slope
<1>5. h * Inverted(d, Field) \in Int /\ Divides(Field, (h * Inverted(d, Field)) * d - h)
  BY <1>1, <1>3, QuotientIs
<1> QED BY <1>0, <1>2, <1>3, <1>4, <1>5

\* The slope of a tangent.
LEMMA TangentSlope ==
  ASSUME NEW P \in Curve, P[2] # 0
  PROVE /\ Slope(P, P) \in Int
        /\ Divides(Field, Slope(P, P) * (2 * P[2]) - (3 * P[1] * P[1] + A))
<1>0. PICK x, y \in 0 .. Field - 1 : x = P[1] /\ y = P[2]
  BY PointFacts
<1>1. Field \in Nat \ {0, 1, 2} /\ Fermat(Field) /\ Field % 2 = 1 /\ A \in Int
  BY PointFacts
<1>2. PICK d, h, two, v \in Int : two = 2 /\ v = y /\ d = two * v /\ h = 3 * x * x + A
  BY <1>1
<1>3. ~Divides(Field, d)
  <2>1. ~Divides(Field, two)
    BY <1>1, <1>2 DEF Divides
  <2>2. ~Divides(Field, v)
    BY <1>0, <1>1, <1>2, SmallRemainder DEF Divides
  <2> QED BY <1>1, <1>2, <2>1, <2>2, PrimeDivides
<1>4. Slope(P, P) = h * Inverted(d, Field)
  BY <1>0, <1>2 DEF Slope
<1>5. h * Inverted(d, Field) \in Int /\ Divides(Field, (h * Inverted(d, Field)) * d - h)
  BY <1>1, <1>3, QuotientIs
<1> QED BY <1>0, <1>2, <1>4, <1>5

\* A chord ends on the curve ...
LEMMA ChordCloses ==
  ASSUME NEW P \in Curve, NEW Q \in Curve, P[1] # Q[1]
  PROVE AffineAdd(P, Q) \in Curve
<1>0. PICK x1, y1, x2, y2 \in 0 .. Field - 1 :
        x1 = P[1] /\ y1 = P[2] /\ x2 = Q[1] /\ y2 = Q[2] /\ P = <<x1, y1>> /\ Q = <<x2, y2>>
  BY PointFacts
<1>1. /\ Field \in Nat \ {0, 1, 2} /\ Fermat(Field) /\ A \in Int /\ B \in Int
      /\ {x1, y1, x2, y2} \subseteq Int
  BY PointFacts
<1>2. PICK s \in Int : /\ s = Slope(P, Q) /\ ~Divides(Field, x2 - x1)
                       /\ Divides(Field, s * (x2 - x1) - (y2 - y1))
  BY <1>0, ChordSlope
<1>3. PICK x \in 0 .. Field - 1 : x = Third(s, x1, x2) /\ Divides(Field, Beyond(s, x1, x2, x))
  BY <1>1, ThirdLeaves
<1>a. x \in Int /\ Field \in Nat \ {0}
  BY <1>1, <1>3
<1>4. PICK o, o1, o2 \in Int : o = Off(x, s, x1, y1) /\ o1 = Off(x1, s, x1, y1) /\ o2 = Off(x2, s, x1, y1)
  BY <1>1, <1>3 DEF Off
<1>5. Divides(Field, o1)
  BY <1>0, <1>4, PointFacts
<1>6. Divides(Field, o2)
  <2>1. PICK g, h \in Int : g = s * (x2 - x1) - (y2 - y1) /\ h = s * (x2 - x1) + y1 + y2
    BY <1>1
  <2>2. PICK c, u \in Int : c = Off(x2, s, x2, y2) /\ u = g * h /\ Divides(Field, c)
    <3>1. Off(x2, s, x2, y2) \in Int /\ g * h \in Int
      BY <1>1 DEF Off
    <3> QED BY <1>0, <3>1, PointFacts
  <2>3. Divides(Field, u)
    BY <1>1, <1>2, <2>1, <2>2, Divisible
  <2>4. o2 = c - u
    BY <1>1, <1>4, <2>1, <2>2 DEF Off
  <2> QED BY <1>1, <2>2, <2>3, <2>4, Divisible
<1>7. PICK d, e \in Int : d = x2 - x1 /\ e = s * s - x1 - x2 - x
  BY <1>1, <1>3
<1>8. Divides(Field, o * d)
  <2>1. PICK k, m, n \in Int : k = x2 - x /\ m = x - x1 /\ n = ((x - x1) * (x - x2)) * (x2 - x1)
    <3>1. x2 - x \in Int /\ x - x1 \in Int /\ ((x - x1) * (x - x2)) * (x2 - x1) \in Int
      BY <1>1, <1>a
    <3> QED BY <3>1
  <2>3. o * d = Combined(o1, k, o2, m, e, n)
    BY <1>1, <1>a, <1>4, <1>7, <2>1, ChordIdentity DEF Combined
  <2>4. Divides(Field, e)
    BY <1>3, <1>7 DEF Beyond
  <2>5. Divides(Field, Combined(o1, k, o2, m, e, n))
    BY <1>a, <1>5, <1>6, <2>4, DivisibleSum
  <2> QED BY <2>3, <2>5
<1>9. Divides(Field, o)
  BY <1>1, <1>2, <1>7, <1>8, PrimeDivides
<1>10. <<x, (s * (x1 - x) - y1) % Field>> \in Curve
  BY <1>1, <1>4, <1>9, ThirdPoint
<1>11. AffineAdd(P, Q) = <<x, (s * (x1 - x) - y1) % Field>>
  BY <1>0, <1>2, <1>3, LastCase
<1> QED BY <1>10, <1>11

\* ... and so does a tangent.
LEMMA TangentCloses ==
  ASSUME NEW P \in Curve, P[2] # 0
  PROVE AffineAdd(P, P) \in Curve
<1>0. PICK x1, y1 \in 0 .. Field - 1 : x1 = P[1] /\ y1 = P[2] /\ P = <<x1, y1>>
  BY PointFacts
<1>1. Field \in Nat \ {0, 1, 2} /\ A \in Int /\ B \in Int /\ {x1, y1} \subseteq Int
  BY PointFacts
<1>2. PICK s \in Int : s = Slope(P, P) /\ Divides(Field, s * (2 * y1) - (3 * x1 * x1 + A))
  BY <1>0, TangentSlope
<1>3. PICK x \in 0 .. Field - 1 : x = Third(s, x1, x1) /\ Divides(Field, Beyond(s, x1, x1, x))
  BY <1>1, ThirdLeaves
<1>a. x \in Int /\ Field \in Nat \ {0}
  BY <1>1, <1>3
<1>4. PICK o, o1 \in Int : o = Off(x, s, x1, y1) /\ o1 = Off(x1, s, x1, y1)
  BY <1>1, <1>3 DEF Off
<1>5. Divides(Field, o1)
  BY <1>0, <1>4, PointFacts
<1>6. PICK g, e, k, n \in Int : /\ g = s * (2 * y1) - (3 * x1 * x1 + A) /\ e = s * s - x1 - x1 - x
                                /\ k = x - x1 /\ n = (x - x1) * (x - x1)
  <2>1. /\ s * (2 * y1) - (3 * x1 * x1 + A) \in Int /\ s * s - x1 - x1 - x \in Int
        /\ x - x1 \in Int /\ (x - x1) * (x - x1) \in Int
    BY <1>1, <1>a
  <2> QED BY <2>1
<1>7. Divides(Field, o)
  <2>2. o = o1 - g * k - e * n
    BY <1>1, <1>a, <1>4, <1>6, TangentIdentity
  <2>3. PICK one, minus \in Int : one = 1 /\ minus = -k
    OBVIOUS
  <2>4. o = Combined(o1, one, g, minus, e, n)
    <3>1. g * minus = -(g * k)
      BY <2>3
    <3> QED BY <2>2, <2>3, <3>1 DEF Combined
  <2>5. Divides(Field, e) /\ Divides(Field, g)
    BY <1>2, <1>3, <1>6 DEF Beyond
  <2>6. Divides(Field, Combined(o1, one, g, minus, e, n))
    BY <1>a, <1>5, <2>5, DivisibleSum
  <2> QED BY <2>4, <2>6
<1>8. <<x, (s * (x1 - x) - y1) % Field>> \in Curve
  BY <1>1, <1>4, <1>7, ThirdPoint
<1>9. AffineAdd(P, P) = <<x, (s * (x1 - x) - y1) % Field>>
  BY <1>0, <1>2, <1>3, LastCase
<1> QED BY <1>8, <1>9

\* A chord is the same from both ends, although the code's numbers differ.
LEMMA ChordCommutes ==
  ASSUME NEW P \in Curve, NEW Q \in Curve, P[1] # Q[1]
  PROVE AffineAdd(P, Q) = AffineAdd(Q, P)
<1>0. PICK x1, y1, x2, y2 \in 0 .. Field - 1 :
        x1 = P[1] /\ y1 = P[2] /\ x2 = Q[1] /\ y2 = Q[2] /\ P = <<x1, y1>> /\ Q = <<x2, y2>>
  BY PointFacts
<1>1. Field \in Nat \ {0, 1, 2} /\ Fermat(Field) /\ {x1, y1, x2, y2} \subseteq Int /\ Field \in Nat \ {0}
  BY PointFacts
<1>2. PICK s \in Int : /\ s = Slope(P, Q) /\ ~Divides(Field, x2 - x1)
                       /\ Divides(Field, s * (x2 - x1) - (y2 - y1))
  BY <1>0, ChordSlope
<1>3. PICK t \in Int : t = Slope(Q, P) /\ Divides(Field, t * (x1 - x2) - (y1 - y2))
  BY <1>0, ChordSlope
<1>4. PICK d, f, g, h \in Int : /\ d = x2 - x1 /\ f = s - t
                                /\ g = s * (x2 - x1) - (y2 - y1) /\ h = t * (x1 - x2) - (y1 - y2)
  <2>1. /\ x2 - x1 \in Int /\ s - t \in Int
        /\ s * (x2 - x1) - (y2 - y1) \in Int /\ t * (x1 - x2) - (y1 - y2) \in Int
    BY <1>1
  <2> QED BY <2>1
<1>5. Divides(Field, f)
  <2>1. f * d = g + h
    BY <1>1, <1>4
  <2>2. Divides(Field, g) /\ Divides(Field, h)
    BY <1>2, <1>3, <1>4
  <2>3. Divides(Field, g + h)
    BY <1>1, <2>2, Divisible
  <2>4. Divides(Field, f * d)
    BY <2>1, <2>3
  <2>5. ~Divides(Field, d)
    BY <1>2, <1>4
  <2> QED BY <1>1, <2>4, <2>5, PrimeDivides
<1>6. Third(s, x1, x2) = Third(t, x2, x1)
  <2>1. PICK m, n, u \in Int : m = s * s - x1 - x2 /\ n = t * t - x2 - x1 /\ u = s + t
    <3>1. s * s - x1 - x2 \in Int /\ t * t - x2 - x1 \in Int /\ s + t \in Int
      BY <1>1
    <3> QED BY <3>1
  <2>2. m - n = f * u
    BY <1>1, <1>4, <2>1
  <2>3. Divides(Field, f * u)
    BY <1>1, <1>5, Divisible
  <2>4. Divides(Field, m - n)
    BY <2>2, <2>3
  <2>5. m % Field = n % Field
    BY <1>1, <2>4, SameRemainder
  <2> QED BY <2>1, <2>5 DEF Third
<1>7. PICK x \in Int : x = Third(s, x1, x2) /\ x = Third(t, x2, x1)
  <2>1. Third(s, x1, x2) \in Int
    BY <1>1, ThirdLeaves
  <2> QED BY <1>6, <2>1
<1>8. (s * (x1 - x) - y1) % Field = (t * (x2 - x) - y2) % Field
  <2>1. PICK m, n, u \in Int : m = s * (x1 - x) - y1 /\ n = t * (x2 - x) - y2 /\ u = x2 - x
    <3>1. s * (x1 - x) - y1 \in Int /\ t * (x2 - x) - y2 \in Int /\ x2 - x \in Int
      BY <1>1
    <3> QED BY <3>1
  <2>2. PICK v \in Int : v = f * u
    OBVIOUS
  <2>3. m - n = v - g
    BY <1>1, <1>4, <2>1, <2>2
  <2>4. Divides(Field, v) /\ Divides(Field, g)
    BY <1>1, <1>2, <1>4, <1>5, <2>2, Divisible
  <2>5. Divides(Field, v - g)
    BY <1>1, <2>4, Divisible
  <2>6. Divides(Field, m - n)
    BY <2>3, <2>5
  <2>7. m % Field = n % Field
    BY <1>1, <2>6, SameRemainder
  <2> QED BY <2>1, <2>7
<1>9. AffineAdd(P, Q) = <<x, (s * (x1 - x) - y1) % Field>>
  BY <1>0, <1>2, <1>7, LastCase
<1>10. AffineAdd(Q, P) = <<x, (t * (x2 - x) - y2) % Field>>
  BY <1>0, <1>3, <1>7, LastCase
<1> QED BY <1>8, <1>9, <1>10

\* The reflection of a point is a point, and another one.
LEMMA OppositeIs ==
  ASSUME NEW P \in Curve, P[2] # 0
  PROVE <<P[1], Field - P[2]>> \in Curve /\ AffineAdd(P, <<P[1], Field - P[2]>>) = Infinity
<1>0. PICK x, y \in 0 .. Field - 1 : x = P[1] /\ y = P[2] /\ P = <<x, y>>
  BY PointFacts
<1>1. Field \in Nat \ {0, 1, 2} /\ Field % 2 = 1 /\ Field \in Nat \ {0} /\ {x, y} \subseteq Int
  BY PointFacts
<1>2. PICK z \in 0 .. Field - 1 : z = Field - y /\ z \in Int
  BY <1>0, <1>1
<1>3. z # y
  BY <1>1, <1>2
<1>4. (z * z) % Field = (y * y) % Field
  <2>1. PICK m, n, u, p \in Int : m = z * z /\ n = y * y /\ u = Field - 2 * y /\ p = Field
    BY <1>1, <1>2
  <2>2. z = p - y /\ u = p - 2 * y
    BY <1>2, <2>1
  <2>3. m - n = p * u
    <3>1. y \in Int
      BY <1>1
    <3>2. z * z = (p - y) * (p - y)
      BY <2>2
    <3>3. (p - y) * (p - y) - y * y = p * (p - 2 * y)
      BY <3>1
    <3> QED BY <2>1, <2>2, <3>2, <3>3
  <2>4. Divides(Field, p)
    BY <1>1, <2>1 DEF Divides
  <2>5. Divides(Field, m - n)
    BY <1>1, <2>3, <2>4, Divisible
  <2> QED BY <1>1, <2>1, <2>5, SameRemainder
<1>5. <<x, z>> \in Curve
  <2>1. (y * y) % Field = (x * x * x + A * x + B) % Field
    BY <1>0 DEF Curve
  <2>2. PICK P2 : P2 = <<x, z>>
    OBVIOUS
  <2>3. P2[1] = x /\ P2[2] = z /\ P2 \in (0 .. Field - 1) \X (0 .. Field - 1)
    BY <2>2
  <2> QED BY <1>4, <2>1, <2>2, <2>3 DEF Curve
<1>6. AffineAdd(<<x, y>>, <<x, z>>) = Infinity
  BY <1>3 DEF AffineAdd, Infinity
<1> QED BY <1>0, <1>2, <1>5, <1>6

\* _p256_affine_add on any curve over any such prime field, but for the law
\* that needs three points: it never leaves the curve, whatever the order of
\* its arguments, and every point has an opposite.
THEOREM AdditionOnCurve ==
  ASSUME NoneOfOrderTwo
  PROVE \A P, Q \in Group : /\ AffineAdd(P, Q) \in Group
                            /\ AffineAdd(P, Q) = AffineAdd(Q, P)
                            /\ \E opposite \in Group : AffineAdd(P, opposite) = Infinity
<1> SUFFICES ASSUME NEW P \in Group, NEW Q \in Group
             PROVE /\ AffineAdd(P, Q) \in Group
                   /\ AffineAdd(P, Q) = AffineAdd(Q, P)
                   /\ \E opposite \in Group : AffineAdd(P, opposite) = Infinity
  OBVIOUS
<1>1. Infinity \in Group /\ \A R : AffineAdd(Infinity, R) = R /\ AffineAdd(R, Infinity) = R
  BY DEF Group, AffineAdd
<1>2. \E opposite \in Group : AffineAdd(P, opposite) = Infinity
  <2>1. CASE P = Infinity
    BY <1>1, <2>1
  <2>2. CASE P \in Curve
    BY <2>2, OppositeIs DEF NoneOfOrderTwo, Group
  <2> QED BY <2>1, <2>2 DEF Group
<1>3. CASE P = Infinity \/ Q = Infinity
  BY <1>1, <1>2, <1>3
<1>4. CASE P \in Curve /\ Q \in Curve /\ P[1] # Q[1]
  BY <1>2, <1>4, ChordCloses, ChordCommutes DEF Group
<1>5. CASE P \in Curve /\ Q \in Curve /\ P[1] = Q[1] /\ P[2] # Q[2]
  <2>1. AffineAdd(P, Q) = Infinity /\ AffineAdd(Q, P) = Infinity
    <3>1. P # Infinity /\ Q # Infinity
      BY <1>5 DEF Curve, Infinity
    <3> QED BY <1>5, <3>1 DEF AffineAdd
  <2> QED BY <1>1, <1>2, <2>1
<1>6. CASE P \in Curve /\ Q \in Curve /\ P[1] = Q[1] /\ P[2] = Q[2]
  <2>1. P = Q /\ P[2] # 0
    BY <1>6, PointFacts DEF NoneOfOrderTwo
  <2> QED BY <1>2, <1>6, <2>1, TangentCloses DEF Group
<1> QED BY <1>3, <1>4, <1>5, <1>6 DEF Group

-----------------------------------------------------------------------------
(* Adding up a point *)

\* The laws of AdditionIsGroup, for all points.
IsGroup == \A P, Q, R \in Group : GroupLaws(P, Q, R)

\* Two of the laws are enough, on a curve without points of order two.
LEMMA GroupFollows ==
  ASSUME NoneOfOrderTwo,
         \A P, Q, R \in Group : AffineAdd(AffineAdd(P, Q), R) = AffineAdd(P, AffineAdd(Q, R)),
         \A P \in Group : Multiple(Order, P) = Infinity
  PROVE IsGroup
BY AdditionOnCurve DEF IsGroup, GroupLaws

\* The laws one by one, with those of infinity, which is None in the code.
LEMMA GroupFacts ==
  ASSUME IsGroup
  PROVE /\ Infinity \in Group /\ Infinity \notin Curve
        /\ \A P \in Group : AffineAdd(Infinity, P) = P /\ AffineAdd(P, Infinity) = P
        /\ \A P, Q \in Group : AffineAdd(P, Q) \in Group
        /\ \A P, Q, R \in Group : AffineAdd(AffineAdd(P, Q), R) = AffineAdd(P, AffineAdd(Q, R))
        /\ \A P \in Group : Multiple(Order, P) = Infinity
<1>1. Infinity \in Group
  BY DEF Group
<1>2. Infinity \notin Curve
  BY DEF Infinity, Curve
<1>3. \A P : AffineAdd(Infinity, P) = P /\ AffineAdd(P, Infinity) = P
  BY DEF AffineAdd
<1>4. \A P, Q, R \in Group : /\ AffineAdd(P, Q) \in Group
                             /\ AffineAdd(AffineAdd(P, Q), R) = AffineAdd(P, AffineAdd(Q, R))
                             /\ Multiple(Order, P) = Infinity
  BY DEF IsGroup, GroupLaws
<1> QED BY <1>1, <1>2, <1>3, <1>4

\* Multiple adds k times.
LEMMA MultipleUnfolds ==
  ASSUME IsGroup, NEW P \in Group, NEW k \in Nat
  PROVE \E sum \in [0 .. k -> Group] :
          /\ sum[0] = Infinity /\ \A i \in 1 .. k : sum[i] = AffineAdd(sum[i - 1], P)
          /\ Multiple(k, P) = sum[k]
<1> DEFINE Adds(f) == f = [i \in 0 .. k |-> IF i = 0 THEN Infinity ELSE AffineAdd(f[i - 1], P)]
           step == [i \in 1 .. k |-> [S \in Group |-> AffineAdd(S, P)]]
           f == CHOOSE f : Adds(f)
<1>0. Infinity \in Group /\ \A S \in Group : AffineAdd(S, P) \in Group
  BY GroupFacts
<1>1. step \in Steps(k, Group)
  BY <1>0 DEF Steps
<1>2. \E g : Adds(g)
  <2> HIDE DEF step
  <2>0. Runs(k, Group, Infinity, step) # {}
    BY <1>0, <1>1, RecursionExists
  <2>1. PICK g \in [0 .. k -> Group] : g[0] = Infinity /\ \A i \in 1 .. k : g[i] = step[i][g[i - 1]]
    BY <2>0 DEF Runs
  <2>2. ASSUME NEW i \in 1 .. k PROVE g[i] = AffineAdd(g[i - 1], P)
    <3>1. g[i - 1] \in Group
      OBVIOUS
    <3>2. step[i][g[i - 1]] = AffineAdd(g[i - 1], P)
      BY <3>1 DEF step
    <3> QED BY <2>1, <3>2
  <2> QED BY <2>1, <2>2
<1>3. Adds(f)
  BY <1>2
<1>4. Multiple(k, P) = f[k]
  BY DEF Multiple
<1> HIDE DEF f
<1>5. f[0] = Infinity /\ \A i \in 1 .. k : f[i] = AffineAdd(f[i - 1], P)
  BY <1>3
<1> DEFINE S == {i \in 0 .. k : f[i] \in Group}
<1>6. 0 \in S
  BY <1>0, <1>5
<1>7. ASSUME NEW i \in 1 .. k, i - 1 \in S PROVE i \in S
  <2>1. f[i - 1] \in Group
    BY <1>7
  <2>2. f[i] \in Group
    BY <1>0, <1>5, <2>1
  <2> QED BY <2>2
<1> HIDE DEF S
<1>8. 0 .. k \subseteq S
  BY <1>6, <1>7, IntervalInduction
<1>9. f \in [0 .. k -> Group]
  BY <1>3, <1>8 DEF S
<1> QED BY <1>4, <1>5, <1>9

\* Adding a point no times gives infinity, where _p256_scalar_mult starts.
LEMMA MultipleOfNone ==
  ASSUME IsGroup, NEW P \in Group
  PROVE Multiple(0, P) = Infinity
<1>1. 0 \in Nat
  OBVIOUS
<1>2. PICK f \in [0 .. 0 -> Group] : f[0] = Infinity /\ Multiple(0, P) = f[0]
  BY <1>1, MultipleUnfolds
<1> QED BY <1>2

\* The sum stays in the group, and one more adds the point once more.
LEMMA MultipleStep ==
  ASSUME IsGroup, NEW P \in Group, NEW k \in Nat
  PROVE Multiple(k, P) \in Group /\ Multiple(k + 1, P) = AffineAdd(Multiple(k, P), P)
<1>1. PICK f \in [0 .. k -> Group] :
        /\ f[0] = Infinity /\ \A i \in 1 .. k : f[i] = AffineAdd(f[i - 1], P)
        /\ Multiple(k, P) = f[k]
  BY MultipleUnfolds
<1>2. PICK g \in [0 .. k + 1 -> Group] :
        /\ g[0] = Infinity /\ \A i \in 1 .. k + 1 : g[i] = AffineAdd(g[i - 1], P)
        /\ Multiple(k + 1, P) = g[k + 1]
  <2>1. k + 1 \in Nat
    OBVIOUS
  <2> QED BY <2>1, MultipleUnfolds
<1> DEFINE S == {i \in 0 .. k : f[i] = g[i]}
<1>3. 0 \in S
  BY <1>1, <1>2
<1>4. ASSUME NEW i \in 1 .. k, i - 1 \in S PROVE i \in S
  <2>1. f[i - 1] = g[i - 1] /\ i \in 1 .. k + 1
    BY <1>4
  <2>2. f[i] = g[i]
    BY <1>1, <1>2, <2>1
  <2> QED BY <2>2
<1> HIDE DEF S
<1>5. 0 .. k \subseteq S
  BY <1>3, <1>4, IntervalInduction
<1>6. f[k] = g[k]
  BY <1>5 DEF S
<1>7. g[k + 1] = AffineAdd(g[k], P)
  <2>1. k + 1 \in 1 .. k + 1 /\ (k + 1) - 1 = k
    OBVIOUS
  <2> QED BY <1>2, <2>1
<1>8. f[k] \in Group
  OBVIOUS
<1> QED BY <1>1, <1>2, <1>6, <1>7, <1>8

\* Adding up a + b times.
LEMMA MultipleOfSum ==
  ASSUME IsGroup, NEW P \in Group, NEW a \in Nat, NEW b \in Nat
  PROVE Multiple(a + b, P) = AffineAdd(Multiple(a, P), Multiple(b, P))
<1> DEFINE M == Multiple(a, P)
           S == {n \in Nat : Multiple(a + n, P) = AffineAdd(M, Multiple(n, P))}
<1>0. M \in Group
  BY MultipleStep
<1>1. 0 \in S
  <2>1. Multiple(0, P) = Infinity /\ AffineAdd(M, Infinity) = M /\ a + 0 = a
    BY <1>0, MultipleOfNone, GroupFacts
  <2> QED BY <2>1
<1>2. ASSUME NEW n \in Nat, n \in S PROVE n + 1 \in S
  <2> DEFINE N == Multiple(n, P)
  <2>1. N \in Group /\ Multiple(n + 1, P) = AffineAdd(N, P)
    BY MultipleStep
  <2>2. a + n \in Nat /\ a + (n + 1) = (a + n) + 1
    OBVIOUS
  <2>3. Multiple(a + (n + 1), P) = AffineAdd(Multiple(a + n, P), P)
    BY <2>2, MultipleStep
  <2>4. Multiple(a + n, P) = AffineAdd(M, N)
    BY <1>2
  <2> HIDE DEF M, N
  <2>5. AffineAdd(AffineAdd(M, N), P) = AffineAdd(M, AffineAdd(N, P))
    BY <1>0, <2>1, GroupFacts
  <2>6. Multiple(a + (n + 1), P) = AffineAdd(M, Multiple(n + 1, P))
    BY <2>1, <2>3, <2>4, <2>5
  <2> QED BY <2>6
<1> HIDE DEF S
<1>3. Nat \subseteq S
  BY <1>1, <1>2, SetInduction
<1> QED BY <1>3 DEF S

\* Adding up b times what was added up a times.
LEMMA MultipleOfProduct ==
  ASSUME IsGroup, NEW P \in Group, NEW a \in Nat, NEW b \in Nat
  PROVE Multiple(b, Multiple(a, P)) = Multiple(b * a, P)
<1> DEFINE Q == Multiple(a, P)
           S == {n \in Nat : Multiple(n, Q) = Multiple(n * a, P)}
<1>0. Q \in Group
  BY MultipleStep
<1>1. 0 \in S
  <2>1. Multiple(0, Q) = Infinity /\ Multiple(0, P) = Infinity /\ 0 * a = 0
    BY <1>0, MultipleOfNone
  <2> QED BY <2>1
<1>2. ASSUME NEW n \in Nat, n \in S PROVE n + 1 \in S
  <2>1. Multiple(n + 1, Q) = AffineAdd(Multiple(n, Q), Q)
    BY <1>0, MultipleStep
  <2>2. n * a \in Nat /\ (n + 1) * a = n * a + a
    OBVIOUS
  <2>3. Multiple(n * a + a, P) = AffineAdd(Multiple(n * a, P), Q)
    BY <2>2, MultipleOfSum
  <2>4. Multiple(n, Q) = Multiple(n * a, P)
    BY <1>2
  <2>5. Multiple(n + 1, Q) = Multiple((n + 1) * a, P)
    BY <2>1, <2>2, <2>3, <2>4
  <2> QED BY <2>5
<1> HIDE DEF S
<1>3. Nat \subseteq S
  BY <1>1, <1>2, SetInduction
<1> QED BY <1>3 DEF S

\* Infinity added up, and a point once.
LEMMA MultipleEnds ==
  ASSUME IsGroup
  PROVE /\ \A k \in Nat : Multiple(k, Infinity) = Infinity
        /\ \A P \in Group : Multiple(1, P) = P /\ Multiple(2, P) = AffineAdd(P, P)
<1>1. ASSUME NEW k \in Nat PROVE Multiple(k, Infinity) = Infinity
  <2> DEFINE S == {n \in Nat : Multiple(n, Infinity) = Infinity}
  <2>0. Infinity \in Group /\ AffineAdd(Infinity, Infinity) = Infinity
    BY GroupFacts
  <2>1. 0 \in S
    BY <2>0, MultipleOfNone
  <2>2. ASSUME NEW n \in Nat, n \in S PROVE n + 1 \in S
    <3>1. Multiple(n + 1, Infinity) = AffineAdd(Multiple(n, Infinity), Infinity)
      BY <2>0, MultipleStep
    <3> QED BY <2>0, <2>2, <3>1
  <2> HIDE DEF S
  <2>3. Nat \subseteq S
    BY <2>1, <2>2, SetInduction
  <2> QED BY <2>3 DEF S
<1>2. ASSUME NEW P \in Group PROVE Multiple(1, P) = P /\ Multiple(2, P) = AffineAdd(P, P)
  <2>1. Multiple(0 + 1, P) = AffineAdd(Multiple(0, P), P) /\ Multiple(1 + 1, P) = AffineAdd(Multiple(1, P), P)
    <3>1. 0 \in Nat /\ 1 \in Nat
      OBVIOUS
    <3> QED BY <3>1, MultipleStep
  <2>2. Multiple(0, P) = Infinity /\ AffineAdd(Infinity, P) = P
    BY MultipleOfNone, GroupFacts
  <2> QED BY <2>1, <2>2
<1> QED BY <1>1, <1>2

-----------------------------------------------------------------------------
(* Doubling and adding *)

\* The states of the loop for a scalar k.
Loops(k) == [k : 0 .. k, r : Group, q : Group]
Started(k, P) == [k |-> k, r |-> Infinity, q |-> P]

\* What the loop keeps: what is still to come brings r to k times the point.
Comes(s, k, P) == AffineAdd(s.r, Multiple(s.k, s.q)) = Multiple(k, P)

\* A round keeps it, and halves what is left of k.
LEMMA RoundKeeps ==
  ASSUME IsGroup, NEW k \in Nat, NEW P \in Group, NEW s \in Loops(k), Comes(s, k, P)
  PROVE Round(s) \in Loops(k) /\ Comes(Round(s), k, P) /\ (s.k = 0 \/ Round(s).k < s.k)
<1>1. s.k \in 0 .. k /\ s.r \in Group /\ s.q \in Group
  BY DEF Loops
<1>2. CASE s.k = 0
  BY <1>2 DEF Round
<1>3. CASE s.k # 0
  <2> DEFINE h == s.k \div 2
             bit == s.k % 2
             q2 == AffineAdd(s.q, s.q)
             r2 == IF bit = 1 THEN AffineAdd(s.r, s.q) ELSE s.r
  <2>1. h \in Nat /\ h < s.k /\ bit \in {0, 1} /\ s.k = 2 * h + bit /\ h \in 0 .. k
    <3>1. PICK n \in 0 .. k : n = s.k /\ n \in Nat \ {0}
      BY <1>1, <1>3
    <3>2. n = ((n \div 2) * 2) + (n % 2) /\ n % 2 \in {0, 1} /\ n \div 2 \in Nat
      BY <3>1
    <3>3. n \div 2 < n
      BY <3>1, <3>2
    <3> QED BY <3>1, <3>2, <3>3
  <2>2. q2 \in Group /\ r2 \in Group
    BY <1>1, GroupFacts
  <2>3. Round(s) = [k |-> h, r |-> r2, q |-> q2]
    BY <1>3 DEF Round
  <2>4. Multiple(2 * h, s.q) = Multiple(h, q2)
    <3>1. Multiple(2, s.q) = q2
      BY <1>1, MultipleEnds
    <3>2. 2 \in Nat /\ 2 * h = h * 2
      BY <2>1
    <3> HIDE DEF h, q2
    <3>3. Multiple(h, Multiple(2, s.q)) = Multiple(h * 2, s.q)
      BY <1>1, <2>1, <3>2, MultipleOfProduct
    <3> QED BY <3>1, <3>2, <3>3
  <2> HIDE DEF h, bit, q2
  <2>5. AffineAdd(r2, Multiple(h, q2)) = AffineAdd(s.r, Multiple(s.k, s.q))
    <3> DEFINE Rest == Multiple(h, q2)
    <3>1. Rest \in Group
      BY <2>1, <2>2, MultipleStep
    <3>2. CASE bit = 1
      <4>1. 1 \in Nat /\ 2 * h \in Nat /\ s.k = 1 + 2 * h
        BY <2>1, <3>2
      <4>2. PICK one, n \in Nat : one = 1 /\ n = 2 * h
        BY <4>1
      <4>3. Multiple(one + n, s.q) = AffineAdd(Multiple(one, s.q), Multiple(n, s.q))
        BY <1>1, MultipleOfSum
      <4>4. Multiple(1, s.q) = s.q
        BY <1>1, MultipleEnds
      <4>5. Multiple(s.k, s.q) = AffineAdd(s.q, Rest)
        BY <2>4, <4>1, <4>2, <4>3, <4>4
      <4>6. AffineAdd(AffineAdd(s.r, s.q), Rest) = AffineAdd(s.r, AffineAdd(s.q, Rest))
        BY <1>1, <3>1, GroupFacts
      <4> QED BY <3>2, <4>5, <4>6
    <3>3. CASE bit = 0
      <4>1. s.k = 2 * h
        BY <2>1, <3>3
      <4>2. r2 = s.r
        BY <3>3
      <4> QED BY <2>4, <4>1, <4>2
    <3> QED BY <2>1, <3>2, <3>3
  <2> HIDE DEF r2
  <2>6. Round(s) \in Loops(k) /\ Round(s).k = h /\ Round(s).r = r2 /\ Round(s).q = q2
    BY <2>1, <2>2, <2>3 DEF Loops
  <2> QED BY <2>1, <2>5, <2>6 DEF Comes
<1> QED BY <1>2, <1>3

\* The loop, after any number of rounds.
LEMMA LoopUnfolds ==
  ASSUME IsGroup, NEW P \in Group, NEW k \in Nat
  PROVE \E loop \in [0 .. k -> Loops(k)] :
          /\ loop[0] = Started(k, P) /\ \A i \in 1 .. k : loop[i] = Round(loop[i - 1])
          /\ \A i \in 0 .. k : Comes(loop[i], k, P) /\ loop[i].k <= k - i
          /\ DoubleAndAdd(k, P) = loop[k].r
<1> DEFINE Good == {s \in Loops(k) : Comes(s, k, P)}
           Rounds(f) == f = [i \in 0 .. k |-> IF i = 0 THEN Started(k, P) ELSE Round(f[i - 1])]
           step == [i \in 1 .. k |-> [s \in Good |-> Round(s)]]
           f == CHOOSE f : Rounds(f)
<1>0. Started(k, P) \in Good
  <2>1. Infinity \in Group /\ Multiple(k, P) \in Group
    BY GroupFacts, MultipleStep
  <2>2. AffineAdd(Infinity, Multiple(k, P)) = Multiple(k, P)
    BY <2>1, GroupFacts
  <2>3. Started(k, P) \in Loops(k)
    BY <2>1 DEF Started, Loops
  <2>4. Comes(Started(k, P), k, P)
    BY <2>2 DEF Started, Comes
  <2> QED BY <2>3, <2>4
<1>a. \A s \in Good : Round(s) \in Good
  BY RoundKeeps
<1>1. step \in Steps(k, Good)
  <2> HIDE DEF Good
  <2> QED BY <1>a DEF Steps
<1>2. \E g : Rounds(g)
  <2> HIDE DEF step, Good
  <2>0. Runs(k, Good, Started(k, P), step) # {}
    BY <1>0, <1>1, RecursionExists
  <2>1. PICK g \in [0 .. k -> Good] : g[0] = Started(k, P) /\ \A i \in 1 .. k : g[i] = step[i][g[i - 1]]
    BY <2>0 DEF Runs
  <2>2. ASSUME NEW i \in 1 .. k PROVE g[i] = Round(g[i - 1])
    <3>1. g[i - 1] \in Good
      OBVIOUS
    <3>2. step[i][g[i - 1]] = Round(g[i - 1])
      BY <3>1 DEF step
    <3> QED BY <2>1, <3>2
  <2> QED BY <2>1, <2>2
<1>3. Rounds(f)
  BY <1>2
<1>4. DoubleAndAdd(k, P) = f[k].r
  BY DEF DoubleAndAdd, Started
<1> HIDE DEF f
<1>5. f[0] = Started(k, P) /\ \A i \in 1 .. k : f[i] = Round(f[i - 1])
  BY <1>3
<1> DEFINE S == {i \in 0 .. k : f[i] \in Good /\ f[i].k <= k - i}
<1>6. 0 \in S
  BY <1>0, <1>5 DEF Started
<1>7. ASSUME NEW i \in 1 .. k, i - 1 \in S PROVE i \in S
  <2>1. f[i - 1] \in Good /\ f[i - 1].k <= k - (i - 1)
    BY <1>7
  <2>2. PICK s \in Good : s = f[i - 1] /\ f[i] = Round(s)
    BY <1>5, <2>1
  <2>3. Round(s) \in Good /\ (s.k = 0 \/ Round(s).k < s.k)
    BY RoundKeeps
  <2>4. s.k \in Nat /\ Round(s).k \in Nat
    BY <2>3 DEF Loops
  <2>5. s.k = 0 => Round(s).k = 0
    BY DEF Round
  <2>6. f[i].k <= k - i
    BY <2>1, <2>2, <2>3, <2>4, <2>5
  <2> QED BY <2>2, <2>3, <2>6
<1> HIDE DEF S
<1>8. 0 .. k \subseteq S
  BY <1>6, <1>7, IntervalInduction
<1>9. \A i \in 0 .. k : f[i] \in Loops(k) /\ Comes(f[i], k, P) /\ f[i].k <= k - i
  BY <1>8 DEF S
<1>10. f \in [0 .. k -> Loops(k)]
  BY <1>3, <1>9
<1> QED BY <1>4, <1>5, <1>9, <1>10

\* _p256_scalar_mult adds up: the loop of doublings gives k times the point.
LEMMA DoubleAndAddIsMultiple ==
  ASSUME IsGroup, NEW P \in Group, NEW k \in Nat
  PROVE DoubleAndAdd(k, P) = Multiple(k, P)
<1>1. PICK loop \in [0 .. k -> Loops(k)] :
        /\ \A i \in 0 .. k : Comes(loop[i], k, P) /\ loop[i].k <= k - i
        /\ DoubleAndAdd(k, P) = loop[k].r
  BY LoopUnfolds
<1>2. PICK s \in Loops(k) : s = loop[k]
  OBVIOUS
<1>3. Comes(s, k, P) /\ s.k <= k - k
  BY <1>1, <1>2
<1>4. s.k = 0 /\ s.r \in Group /\ s.q \in Group
  BY <1>3 DEF Loops
<1>5. Multiple(0, s.q) = Infinity /\ AffineAdd(s.r, Infinity) = s.r
  BY <1>4, MultipleOfNone, GroupFacts
<1> QED BY <1>1, <1>2, <1>3, <1>4, <1>5 DEF Comes

\* Of a compressed point: the result is compressed, or refused at infinity.
THEOREM ScalarMultAddsUp ==
  ASSUME IsGroup, NEW P \in Curve, NEW k \in Nat
  PROVE ScalarMult(k, Compress(P)) = IF Multiple(k, P) = Infinity THEN Refused ELSE Compress(Multiple(k, P))
<1>1. P \in Group
  BY DEF Group
<1> QED BY <1>1, DecompressesBack, DoubleAndAddIsMultiple DEF ScalarMult

-----------------------------------------------------------------------------
(* The blind *)

\* The code inverts a scalar modulo the order: both together change no point.
LEMMA InverseCancels ==
  ASSUME IsGroup, NEW r \in 1 .. Order - 1, NEW P \in Group
  PROVE /\ Inverted(r, Order) \in Nat
        /\ Multiple(Inverted(r, Order) * r, P) = P
<1> DEFINE inverse == Inverted(r, Order)
<1>1. Order \in Nat \ {0, 1, 2} /\ Fermat(Order)
  BY CurveAssumption, PrimesAssumption DEF Fermat
<1>2. inverse \in 0 .. Order - 1 /\ (inverse * r) % Order = 1
  BY <1>1, InverseIs
<1> HIDE DEF inverse
<1>3. inverse \in Nat /\ inverse * r \in Nat /\ r \in Nat
  BY <1>1, <1>2
<1>4. PICK q \in Int : inverse * r = (q * Order) + 1
  <2>1. PICK n \in Nat : n = inverse * r
    BY <1>3
  <2>2. n \in Int /\ Order \in Nat \ {0}
    BY <1>1
  <2>3. PICK q \in Int : n = (q * Order) + (n % Order)
    BY <2>2, Remainder
  <2> QED BY <1>2, <2>1, <2>3
<1>5. q \in Nat
  <2>1. CASE q <= -1
    <3>1. q * Order <= -Order
      BY <1>1, <2>1
    <3> QED BY <1>1, <1>3, <1>4, <3>1
  <2> QED BY <2>1
<1>6. q * Order \in Nat /\ 1 \in Nat /\ Order \in Nat
  BY <1>1, <1>5
<1>7. Multiple(q * Order, P) = Infinity
  <2>1. Multiple(q, Multiple(Order, P)) = Multiple(q * Order, P)
    BY <1>5, <1>6, MultipleOfProduct
  <2>2. Multiple(Order, P) = Infinity
    BY GroupFacts
  <2> QED BY <1>5, <2>1, <2>2, MultipleEnds
<1>8. Multiple((q * Order) + 1, P) = P
  <2> DEFINE n == q * Order
  <2> HIDE DEF n
  <2>1. n \in Nat
    BY <1>6 DEF n
  <2>2. Multiple(n + 1, P) = AffineAdd(Multiple(n, P), P)
    BY <2>1, MultipleStep
  <2>3. Multiple(n, P) = Infinity
    BY <1>7 DEF n
  <2>4. Multiple(n + 1, P) = P
    BY <2>2, <2>3, GroupFacts
  <2> QED BY <2>4 DEF n
<1> QED BY <1>3, <1>4, <1>8 DEF inverse

\* So no scalar below the order takes a point of the curve to infinity.
LEMMA StaysOnCurve ==
  ASSUME IsGroup, NEW r \in 1 .. Order - 1, NEW P \in Curve
  PROVE Multiple(r, P) \in Curve
<1> DEFINE inverse == Inverted(r, Order)
<1>1. P \in Group /\ r \in Nat /\ P # Infinity
  BY CurveAssumption, GroupFacts DEF Group
<1>2. inverse \in Nat /\ Multiple(inverse * r, P) = P
  BY <1>1, InverseCancels
<1> HIDE DEF inverse
<1>3. Multiple(inverse, Multiple(r, P)) = P
  BY <1>1, <1>2, MultipleOfProduct
<1>4. Multiple(r, P) # Infinity
  BY <1>1, <1>2, <1>3, MultipleEnds
<1>5. Multiple(r, P) \in Group
  BY <1>1, MultipleStep
<1> QED BY <1>4, <1>5 DEF Group

\* A compressed point is never what stands for the error.
LEMMA PointsAreNotRefused ==
  ASSUME NEW P \in Curve
  PROVE Compress(P) # Refused
<1>1. P[2] \in Nat
  BY CurveAssumption DEF Curve
<1>2. P[2] % 2 # -1
  <2>1. PICK y \in Nat : y = P[2]
    BY <1>1
  <2>2. y % 2 \in 0 .. 1
    OBVIOUS
  <2> QED BY <2>1, <2>2
<1>3. Compress(P).parity # Refused.parity
  BY <1>2 DEF Compress, Refused
<1> QED BY <1>3

\* What the client finalises is k H, for every blind; nothing raises.
THEOREM BlindIsTakenOff ==
  ASSUME IsGroup, NEW r \in 1 .. Order - 1, NEW k \in 1 .. Order - 1, NEW H \in Curve
  PROVE LET h == Compress(H)
            blinded == OprfBlind(r, h)
            evaluated == OprfEvaluate(k, blinded)
        IN /\ Refused \notin {blinded, evaluated}
           /\ OprfFinalize(r, evaluated) = OprfEvaluate(k, h)
           /\ OprfFinalize(r, evaluated) # Refused
<1> DEFINE R == Multiple(r, H)
           K == Multiple(k, R)
           inverse == Inverted(r, Order)
<1>1. r \in Nat /\ k \in Nat /\ H \in Group
  BY CurveAssumption DEF Group
<1>2. R \in Curve /\ K \in Curve /\ Multiple(k, H) \in Curve
  BY StaysOnCurve
<1>3. inverse \in Nat /\ Multiple(inverse * r, H) = H
  BY <1>1, InverseCancels
<1> HIDE DEF inverse
<1>4. Multiple(inverse, K) = Multiple(k, H)
  <2>1. k * r \in Nat /\ inverse * r \in Nat
    BY <1>1, <1>3
  <2>2. K = Multiple(k * r, H)
    BY <1>1, MultipleOfProduct
  <2>3. Multiple(inverse, Multiple(k * r, H)) = Multiple(inverse * (k * r), H)
    BY <1>1, <1>3, <2>1, MultipleOfProduct
  <2>4. Multiple(k, Multiple(inverse * r, H)) = Multiple(k * (inverse * r), H)
    BY <1>1, <2>1, MultipleOfProduct
  <2>5. inverse * (k * r) = k * (inverse * r)
    BY <1>1, <1>3
  <2> QED BY <1>3, <2>2, <2>3, <2>4, <2>5
<1> HIDE DEF R, K
<1>5. ScalarMult(r, Compress(H)) = Compress(R)
  BY <1>1, <1>2, ScalarMultAddsUp, GroupFacts DEF R
<1>6. ScalarMult(k, Compress(R)) = Compress(K)
  BY <1>1, <1>2, ScalarMultAddsUp, GroupFacts DEF K
<1>7. ScalarMult(k, Compress(H)) = Compress(Multiple(k, H))
  BY <1>1, <1>2, ScalarMultAddsUp, GroupFacts
<1>8. ScalarMult(inverse, Compress(K)) = Compress(Multiple(k, H))
  BY <1>2, <1>3, <1>4, ScalarMultAddsUp, GroupFacts
<1>9. Refused \notin {Compress(R), Compress(K), Compress(Multiple(k, H))}
  BY <1>2, PointsAreNotRefused
<1> QED BY <1>5, <1>6, <1>7, <1>8, <1>9 DEF OprfBlind, OprfEvaluate, OprfFinalize, inverse

\* ScalarMultIsRepeatedAddition, on every curve with these laws.
THEOREM ScalarMultAdds ==
  ASSUME IsGroup
  PROVE Spec => []ScalarMultIsRepeatedAddition
<1>1. Init => ScalarMultIsRepeatedAddition
  BY DEF Init, Nothing, ScalarMultIsRepeatedAddition
<1>2. ScalarMultIsRepeatedAddition /\ [Next]_input => ScalarMultIsRepeatedAddition'
  <2>1. CASE PickScalar
    <3>1. PICK k \in 0 .. 2 * Order + 1, P \in Curve : input' = [about |-> "scalar", k |-> k, P |-> P]
      BY <2>1 DEF PickScalar
    <3>2. k \in Nat
      BY CurveAssumption
    <3>3. input'.k = k /\ input'.P = P
      BY <3>1
    <3> QED BY <3>2, <3>3, ScalarMultAddsUp DEF ScalarMultIsRepeatedAddition
  <2>2. CASE Pick /\ ~PickScalar
    <3>1. input'.about # "scalar"
      BY <2>2 DEF Pick, PickMessage, PickFrame, PickTranscripts, PickLabels, PickPoints, PickBlind
    <3> QED BY <3>1 DEF ScalarMultIsRepeatedAddition
  <2>3. CASE UNCHANGED input
    BY <2>3 DEF ScalarMultIsRepeatedAddition
  <2> QED BY <2>1, <2>2, <2>3 DEF Next
<1> QED BY <1>1, <1>2, PTL DEF Spec

\* BlindCancels, on every curve with these laws.
THEOREM BlindsCancel ==
  ASSUME IsGroup
  PROVE Spec => []BlindCancels
<1>1. Init => BlindCancels
  BY DEF Init, Nothing, BlindCancels
<1>2. BlindCancels /\ [Next]_input => BlindCancels'
  <2>1. CASE PickBlind
    <3>1. PICK r, k \in 1 .. Order - 1, h \in Curve : input' = [about |-> "blind", r |-> r, k |-> k, h |-> h]
      BY <2>1 DEF PickBlind
    <3>2. input'.r = r /\ input'.k = k /\ input'.h = h
      BY <3>1
    <3> QED BY <3>2, BlindIsTakenOff DEF BlindCancels
  <2>2. CASE Pick /\ ~PickBlind
    <3>1. input'.about # "blind"
      BY <2>2 DEF Pick, PickMessage, PickFrame, PickTranscripts, PickLabels, PickPoints, PickScalar
    <3> QED BY <3>1 DEF BlindCancels
  <2>3. CASE UNCHANGED input
    BY <2>3 DEF BlindCancels
  <2> QED BY <2>1, <2>2, <2>3 DEF Next
<1> QED BY <1>1, <1>2, PTL DEF Spec
=============================================================================
