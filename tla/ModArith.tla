------------------------------ MODULE ModArith ------------------------------
(***************************************************************************)
(* Facts about remainders modulo a positive M, the arithmetic of the      *)
(* uint32_t clocks of the code (M = 2^32): a remainder forgets multiples  *)
(* of M, so a chain of wrapped subtractions and additions equals one      *)
(* remainder of the plain sum.                                             *)
(***************************************************************************)
EXTENDS Integers, TLAPS

\* x % M differs from x by a multiple of the modulus.
LEMMA ModDecomp ==
    ASSUME NEW M \in Nat \ {0}, NEW x \in Int
    PROVE  x % M = x - M * (x \div M)
    OBVIOUS

\* The remainder lies in the clock's range.
LEMMA ModRange ==
    ASSUME NEW M \in Nat \ {0}, NEW x \in Int
    PROVE  x % M \in 0..(M - 1)
    OBVIOUS

\* The only multiple of the modulus strictly between -M and
\* M is zero.
LEMMA MultipleSmall ==
    ASSUME NEW M \in Nat \ {0}, NEW n \in Int, -M < M * n, M * n < M
    PROVE  n = 0
  <1>1. CASE n >= 1
    <2>1. M * (n - 1) >= 0
      BY <1>1
    <2>2. M * n = M + M * (n - 1)
      OBVIOUS
    <2>3. QED
      BY <2>1, <2>2
  <1>2. CASE n <= -1
    <2>1. M * (-n - 1) >= 0
      BY <1>2
    <2>2. M * n = -M - M * (-n - 1)
      OBVIOUS
    <2>3. QED
      BY <2>1, <2>2
  <1>3. QED
    BY <1>1, <1>2

\* Two integers that differ by a multiple of the modulus have the same
\* remainder.
LEMMA ModShift ==
    ASSUME NEW M \in Nat \ {0}, NEW z \in Int, NEW q \in Int
    PROVE  (z + M * q) % M = z % M
  <1> DEFINE r  == z % M
             r2 == (z + M * q) % M
             k  == z \div M
             k2 == (z + M * q) \div M
  <1>0. z + M * q \in Int
    OBVIOUS
  <1>1. z = M * k + r /\ z + M * q = M * k2 + r2
    BY <1>0, ModDecomp
  <1>2. r \in 0..(M - 1) /\ r2 \in 0..(M - 1)
    <2>1. r \in 0..(M - 1)
      BY ModRange
    <2>2. r2 \in 0..(M - 1)
      BY <1>0, ModRange
    <2>3. QED
      BY <2>1, <2>2
  <1>3. k \in Int /\ k2 \in Int
    OBVIOUS
  <1>4. r2 - r = M * (q + k - k2)
    BY <1>1, <1>3
  <1>5. q + k - k2 = 0
    BY <1>2, <1>3, <1>4, MultipleSmall
  <1>6. QED
    BY <1>4, <1>5, <1>2

\* uint32_t arithmetic forgets multiples of the modulus.
LEMMA ModSubLeft ==
    ASSUME NEW M \in Nat \ {0}, NEW x \in Int, NEW y \in Int
    PROVE  ((x % M) - y) % M = (x - y) % M
  <1> DEFINE q == x \div M
             nq == 0 - q
  <1>1. q \in Int /\ nq \in Int
    OBVIOUS
  <1>2. x % M = x - M * q
    BY ModDecomp
  <1>3. (x % M) - y = (x - y) + M * nq
    BY <1>1, <1>2
  <1>4. ((x - y) + M * nq) % M = (x - y) % M
    <2>1. x - y \in Int
      OBVIOUS
    <2>2. QED
      BY <1>1, <2>1, ModShift, Zenon
  <1>5. QED
    BY <1>3, <1>4

LEMMA ModSubRight ==
    ASSUME NEW M \in Nat \ {0}, NEW x \in Int, NEW y \in Int
    PROVE  (x - (y % M)) % M = (x - y) % M
  <1> DEFINE q == y \div M
  <1>1. q \in Int
    OBVIOUS
  <1>2. y % M = y - M * q
    BY ModDecomp
  <1>3. x - (y % M) = (x - y) + M * q
    BY <1>1, <1>2
  <1>4. ((x - y) + M * q) % M = (x - y) % M
    <2>1. x - y \in Int
      OBVIOUS
    <2>2. QED
      BY <1>1, <2>1, ModShift, Zenon
  <1>5. QED
    BY <1>3, <1>4

LEMMA ModAddLeft ==
    ASSUME NEW M \in Nat \ {0}, NEW x \in Int, NEW y \in Int
    PROVE  ((x % M) + y) % M = (x + y) % M
  <1> DEFINE q == x \div M
             nq == 0 - q
  <1>1. q \in Int /\ nq \in Int
    OBVIOUS
  <1>2. x % M = x - M * q
    BY ModDecomp
  <1>3. (x % M) + y = (x + y) + M * nq
    BY <1>1, <1>2
  <1>4. ((x + y) + M * nq) % M = (x + y) % M
    <2>1. x + y \in Int
      OBVIOUS
    <2>2. QED
      BY <1>1, <2>1, ModShift, Zenon
  <1>5. QED
    BY <1>3, <1>4

\* A value already in the clock's range is its own remainder.
LEMMA ModSmall ==
    ASSUME NEW M \in Nat \ {0}, NEW x \in 0..(M - 1)
    PROVE  x % M = x
    OBVIOUS
=============================================================================
