------------------------------- MODULE Curve --------------------------------
(***************************************************************************)
(* The elliptic curve in pure Python of opaque_adapter.py and the OPRF on  *)
(* it, over a field and a curve of any size: addition of affine points,    *)
(* scalar multiplication of a compressed point, blinding, evaluation and   *)
(* unblinding.  Square roots and inverses are powers, as in the code, so   *)
(* the field must be a prime of the form 4n + 3 and the order a prime.     *)
(***************************************************************************)
EXTENDS Integers

CONSTANTS
  Field, A, B,   \* P256_FIELD, P256_A, P256_B
  Order          \* P256_ORDER

ASSUME CurveAssumption ==
  /\ {Field, Order} \subseteq Nat \ {0, 1, 2, 3}
  /\ Field % 4 = 3
  /\ {A, B} \subseteq 0 .. Field - 1

\* pow(x, e, p)
Pow(x, e, p) ==
  LET power[i \in 0 .. e] == IF i = 0 THEN 1 ELSE (power[i - 1] * x) % p
  IN power[e]
Inverted(x, p) == Pow(x, p - 2, p)

\* Both are primes: the inverses and roots of the code rest on Fermat's theorem.
ASSUME PrimesAssumption == \A p \in {Field, Order} : \A x \in 1 .. p - 1 : Pow(x, p - 1, p) = 1

Infinity == <<>>
Curve == {P \in (0 .. Field - 1) \X (0 .. Field - 1) :
            (P[2] * P[2]) % Field = (P[1] * P[1] * P[1] + A * P[1] + B) % Field}
Group == Curve \cup {Infinity}

Slope(P, Q) ==
  IF P[1] = Q[1] THEN (3 * P[1] * P[1] + A) * Inverted(2 * P[2], Field)
                 ELSE (Q[2] - P[2]) * Inverted(Q[1] - P[1], Field)

\* _p256_affine_add: the last case is a chord or, for equal points, a tangent.
AffineAddChordOnly(P, Q) ==
  IF P = Infinity THEN Q
  ELSE IF Q = Infinity THEN P
  ELSE IF P[1] = Q[1] THEN Infinity
  ELSE LET slope == Slope(P, Q)
           x == (slope * slope - P[1] - Q[1]) % Field
       IN <<x, (slope * (P[1] - x) - P[2]) % Field>>
AffineAdd(P, Q) ==
  IF P = Infinity THEN Q
  ELSE IF Q = Infinity THEN P
  ELSE IF P[1] = Q[1] /\ P[2] # Q[2] THEN Infinity
  ELSE LET slope == Slope(P, Q)
           x == (slope * slope - P[1] - Q[1]) % Field
       IN <<x, (slope * (P[1] - x) - P[2]) % Field>>

\* A compressed point: the parity of y (prefix 2 or 3) and x.
Compress(P) == [parity |-> P[2] % 2, x |-> P[1]]
Decompress(c) ==
  LET y == Pow((c.x * c.x * c.x + A * c.x + B) % Field, (Field + 1) \div 4, Field)
  IN <<c.x, IF y % 2 = c.parity THEN y ELSE Field - y>>

\* The loop of _p256_scalar_mult: while k, R is Q more for a 1 in front of the
\* shift, and Q is doubled.  k rounds are enough to shift k to 0.
Round(s) ==
  IF s.k = 0 THEN s
  ELSE [k |-> s.k \div 2, r |-> IF s.k % 2 = 1 THEN AffineAdd(s.r, s.q) ELSE s.r, q |-> AffineAdd(s.q, s.q)]
DoubleAndAdd(k, P) ==
  LET loop[i \in 0 .. k] == IF i = 0 THEN [k |-> k, r |-> Infinity, q |-> P] ELSE Round(loop[i - 1])
  IN loop[k].r

\* _p256_scalar_mult: Refused is its ValueError.
Refused == [parity |-> -1, x |-> -1]
ScalarMultSignLost(k, c) ==
  LET result == DoubleAndAdd(k, Decompress(c))
  IN IF result = Infinity THEN Refused ELSE [Compress(result) EXCEPT !.parity = 0]
ScalarMult(k, c) ==
  LET result == DoubleAndAdd(k, Decompress(c))
  IN IF result = Infinity THEN Refused ELSE Compress(result)

-----------------------------------------------------------------------------
(* The OPRF: h is the point the password hashes to, r the blind. *)

OprfBlind(r, h) == ScalarMult(r, h)
OprfEvaluate(k, m) == ScalarMult(k, m)
\* N of _oprf_finalize; the inverse is taken modulo the order.
OprfFinalizeByField(r, z) == ScalarMult(Inverted(r, Field), z)
OprfFinalize(r, z) == ScalarMult(Inverted(r, Order), z)
=============================================================================
