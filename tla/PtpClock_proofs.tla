-------------------------- MODULE PtpClock_proofs --------------------------
(***************************************************************************)
(* Proofs about PtpClock: the registers keep their width, a time reported  *)
(* is one at which the clock stood, a time set is the time asked for, and  *)
(* the rate is the rate asked for. The arithmetic of registers that carry  *)
(* and wrap comes first, over numbers; then the invariant, which says for  *)
(* the caller that holds ptpdev->lock what it has read and written so far. *)
(* Last, the lock itself: which call keeps it, and what is left then.      *)
(***************************************************************************)
EXTENDS PtpClock, TLAPS

-----------------------------------------------------------------------------
(* Division with remainder. *)

\* What a division with remainder gives, and that it is unique.
LEMMA Division ==
    ASSUME NEW x \in Int, NEW d \in Nat \ {0}
    PROVE  x = d * (x \div d) + (x % d) /\ x % d \in 0..d - 1 /\ x \div d \in Int
  BY SMT

LEMMA DivisionUnique ==
    ASSUME NEW x \in Int, NEW d \in Nat \ {0}, NEW q \in Int, NEW r \in 0..d - 1, x = d * q + r
    PROVE  x \div d = q /\ x % d = r
  BY SMT

LEMMA Below ==
    ASSUME NEW d \in Nat \ {0}, NEW x \in 0..d - 1
    PROVE  x % d = x
  BY SMT

LEMMA JustBelow ==
    ASSUME NEW d \in Nat \ {0}, NEW x \in 0..d - 1, NEW a \in Int, a = x - d
    PROVE  a % d = x
  <1>1. PICK q \in Int : q = -1 /\ a = d * q + x
    BY SMT
  <1> QED BY <1>1, DivisionUnique

\* Numbers that differ by a multiple of d leave the same remainder.
LEMMA Congruent ==
    ASSUME NEW x \in Int, NEW y \in Int, NEW d \in Nat \ {0}, NEW q \in Int, x = y + d * q
    PROVE  x % d = y % d
  <1>1. PICK p \in Int, r \in 0..d - 1 : y = d * p + r /\ y % d = r
    BY Division
  <1>2. x = d * (p + q) + r
    BY <1>1 
  <1>3. p + q \in Int
    OBVIOUS
  <1>4. x % d = r
    BY <1>2, <1>3, DivisionUnique
  <1> QED BY <1>1, <1>4

LEMMA ModShift ==
    ASSUME NEW x \in Int, NEW y \in Int, NEW d \in Nat \ {0}
    PROVE  ((x % d) + y) % d = (x + y) % d
  <1>1. PICK p \in Int, r \in 0..d - 1 : x = d * p + r /\ x % d = r
    BY Division
  <1>2. PICK w \in Int : w = r + y
    OBVIOUS
  <1>3. PICK q \in Int, s \in 0..d - 1 : w = d * q + s /\ w % d = s
    BY Division
  <1>4. PICK u \in Int, c \in Int : u = x + y /\ c = p + q
    OBVIOUS
  <1>5. u = d * c + s
    BY <1>1, <1>2, <1>3, <1>4, SMT
  <1>6. u % d = s
    BY <1>5, DivisionUnique
  <1> QED BY <1>1, <1>2, <1>3, <1>4, <1>6

\* The time written in two registers is the time, modulo what they hold.
LEMMA Registers ==
    ASSUME NEW v \in Nat, NEW S \in Nat \ {0}, NEW K \in Nat \ {0}
    PROVE  /\ ((v \div S) % K) * S + (v % S) = v % (K * S)
           /\ v \div S \in Nat
  <1>1. PICK q \in Int, n \in 0..S - 1 : v = S * q + n /\ v \div S = q /\ v % S = n
    <2>1. v \in Int
      OBVIOUS
    <2> QED BY <2>1, Division
  <1>2. q \in Nat
    BY <1>1, SMT
  <1>3. PICK p \in Int, m \in 0..K - 1 : q = K * p + m /\ q % K = m
    BY Division
  <1>4. K * S \in Nat \ {0}
    BY SMT
  <1>5. m * S + n \in 0..(K * S) - 1
    <2>1. m * S <= (K - 1) * S
      BY <1>3, SMT
    <2>2. (K - 1) * S = K * S - S
      BY SMT
    <2>3. m * S \in Nat
      BY SMT
    <2> QED BY <2>1, <2>2, <2>3, <1>4, SMT
  <1>6. v = (K * S) * p + (m * S + n)
    BY <1>1, <1>3, SMT
  <1>7. v % (K * S) = m * S + n
    <2> DEFINE W == K * S
               y == m * S + n
    <2>1. W \in Nat \ {0} /\ y \in 0..W - 1 /\ v = W * p + y /\ v \in Int
      BY <1>4, <1>5, <1>6
    <2> HIDE DEF W, y
    <2>2. v % W = y
      BY <2>1, DivisionUnique
    <2> QED BY <2>2 DEF W, y
  <1> QED BY <1>1, <1>2, <1>3, <1>7

\* The pair of registers lies below the modulus.
LEMMA RegistersBound ==
    ASSUME NEW S \in Nat \ {0}, NEW K \in Nat \ {0}, NEW m \in 0..K - 1, NEW n \in 0..S - 1
    PROVE  m * S + n \in 0..(K * S) - 1 /\ K * S \in Nat \ {0}
           /\ (m * S + n) \div S = m /\ (m * S + n) % S = n
    <2>1. m * S <= (K - 1) * S
      BY SMT
    <2>2. (K - 1) * S = K * S - S
      BY SMT
    <2>3. m * S \in Nat
      BY SMT
    <2>4. K * S \in Nat \ {0}
      BY SMT
    <2>5. m * S + n = S * m + n /\ m * S + n \in Int
      BY <2>3, SMT
    <2>6. (m * S + n) \div S = m /\ (m * S + n) % S = n
      BY <2>5, DivisionUnique
    <2> QED BY <2>1, <2>2, <2>3, <2>4, <2>6, SMT

\* The powers of two the increment is cut at.
LEMMA Powers ==
    /\ 2^24 \in Nat \ {0} /\ 2^8 \in Nat \ {0} /\ 2^16 \in Nat \ {0}
    /\ 2^24 = 2^8 * 2^16 /\ 2^8 = 256
  BY SMT

\* The share of scaled_ppm is taken in whole units, rounded down.
LEMMA Share ==
    ASSUME NEW a \in Nat
    PROVE  LET d == (32 * a) \div 3125
           IN  d \in Nat /\ 3125 * d <= 32 * a /\ 32 * a < 3125 * (d + 1)
  BY SMT

\* A number cut in three: the multiples of F, the rest in multiples of L, and what
\* is left. Below N * F no part is lost.
CutOf(x, F, L, G, N) ==
  \E q \in 0..N - 1, p \in 0..G - 1, s \in 0..L - 1 :
    /\ q = (x \div F) % N /\ p = (x % F) \div L /\ s = x % L
    /\ q * F + p * L + s = x

LEMMA Cut ==
    ASSUME NEW F \in Nat \ {0}, NEW L \in Nat \ {0}, NEW G \in Nat \ {0}, NEW N \in Nat \ {0},
           F = L * G, NEW x \in Nat, x < N * F
    PROVE  CutOf(x, F, L, G, N)
  <1>1. PICK q \in Int, r \in 0..F - 1 : x = F * q + r /\ x \div F = q /\ x % F = r
    BY Division, SMT
  <1>2. q \in 0..N - 1
    <2>1. ASSUME q < 0 PROVE FALSE
      <3>1. F * q <= F * (-1)
        BY <2>1, SMT
      <3>2. F * (-1) = -F
        BY SMT
      <3>3. F * q \in Int /\ N * F \in Int
        BY SMT
      <3> QED BY <1>1, <3>1, <3>2, <3>3, SMT
    <2>2. ASSUME q >= N PROVE FALSE
      <3>1. F * q >= F * N
        BY <2>2, SMT
      <3>2. F * N = N * F /\ F * q \in Int /\ N * F \in Int
        BY SMT
      <3> QED BY <1>1, <3>1, <3>2, SMT
    <2> QED BY <2>1, <2>2, SMT
  <1>3. PICK p \in Int, s \in 0..L - 1 : r = L * p + s /\ r \div L = p /\ r % L = s
    BY Division, SMT
  <1>4. p \in 0..G - 1
    <2>1. ASSUME p < 0 PROVE FALSE
      <3>1. L * p <= L * (-1)
        BY <2>1, SMT
      <3>2. L * (-1) = -L /\ L * p \in Int
        BY SMT
      <3> QED BY <1>3, <3>1, <3>2, SMT
    <2>2. ASSUME p >= G PROVE FALSE
      <3>1. L * p >= L * G
        BY <2>2, SMT
      <3>2. L * p \in Int /\ L * G \in Int
        BY SMT
      <3> QED BY <1>3, <3>1, <3>2, SMT
    <2> QED BY <2>1, <2>2, SMT
  <1>5. x = L * (G * q + p) + s
    BY <1>1, <1>3, SMT
  <1>6. x \in Int /\ G * q + p \in Int
    BY <1>1, SMT
  <1>7. x % L = s
    BY <1>5, <1>6, DivisionUnique
  <1>8. q % N = q
    BY <1>2, SMT
  <1>9. q * F + p * L + s = x
    BY <1>1, <1>3, SMT
  <1> QED BY <1>1, <1>2, <1>3, <1>4, <1>7, <1>8, <1>9 DEF CutOf

-----------------------------------------------------------------------------
(* The time in two registers. *)

\* One tick carries into the seconds and wraps with them.
LEMMA OneTick ==
    ASSUME NEW S \in Nat \ {0}, NEW K \in Nat \ {0}, NEW m \in 0..K - 1, NEW n \in 0..S - 1
    PROVE  /\ ((m + (n + 1) \div S) % K) * S + ((n + 1) % S) = ((m * S + n) + 1) % (K * S)
           /\ (n + 1) % S \in 0..S - 1
           /\ (m + (n + 1) \div S) % K \in 0..K - 1
  <1>1. PICK q \in Int, r \in 0..S - 1 : n + 1 = S * q + r /\ (n + 1) \div S = q /\ (n + 1) % S = r
    <2>1. n + 1 \in Int
      OBVIOUS
    <2> QED BY <2>1, Division
  <1> DEFINE v == (m * S + n) + 1
  <1>2. v \in Nat
    <2>1. m * S \in Nat
      BY SMT
    <2> QED BY <2>1, SMT
  <1>3. m + q \in Int /\ v = S * (m + q) + r /\ v \in Int
    BY <1>1, <1>2, SMT
  <1> HIDE DEF v
  <1>4. v \div S = m + q /\ v % S = r
    <2> DEFINE w == m + q
    <2>1. w \in Int /\ v = S * w + r /\ v \in Int
      BY <1>3
    <2> HIDE DEF w
    <2>2. v \div S = w /\ v % S = r
      BY <2>1, DivisionUnique
    <2> QED BY <2>2 DEF w
  <1>5. ((v \div S) % K) * S + (v % S) = v % (K * S) /\ v \div S \in Nat
    BY <1>2, Registers
  <1>6. (m + q) % K \in 0..K - 1
    BY <1>4, <1>5, SMT
  <1> QED BY <1>1, <1>4, <1>5, <1>6 DEF v

\* A time got from two reads that began and ended at these times: the time of the
\* first one, or a second more if a second began in between.
ReadOf(from, to, got, S, W) ==
  /\ got \in 0..W - 1
  /\ from \div S = to \div S => got = from
  /\ from \div S # to \div S =>
       got = (from + S) % W /\ ((got - from) % W) < ((to - from) % W) + S

\* What two reads some ticks apart, nanoseconds first, make of the time. It is the
\* time of the first read, unless a second began in between: then it is a second
\* more, modulo what the registers hold.
LEMMA TwoReads ==
    ASSUME NEW S \in Nat \ {0}, NEW K \in Nat \ {0, 1}, NEW from \in 0..(K * S) - 1,
           NEW k \in 0..S, NEW to \in Int, to = (from + k) % (K * S),
           NEW got \in Int, got = (to \div S) * S + (from % S)
    PROVE  ReadOf(from, to, got, S, K * S)
  <1> DEFINE W == K * S
             Result ==
               /\ got \in 0..W - 1
               /\ from \div S = to \div S => got = from
               /\ from \div S # to \div S =>
                    got = (from + S) % W /\ ((got - from) % W) < ((to - from) % W) + S
  <1>1. W \in Nat \ {0}
    BY SMT
  <1>2. PICK m \in Int, n \in 0..S - 1 : from = S * m + n /\ from \div S = m /\ from % S = n
    <2>1. from \in Int
      BY <1>1, SMT
    <2> QED BY <2>1, Division
  <1>3. m \in 0..K - 1 /\ from = m * S + n
    <2>1. ASSUME m < 0 PROVE FALSE
      <3>1. S * m <= S * (-1)
        BY <2>1, SMT
      <3>2. S * (-1) = -S /\ S * m \in Int
        BY SMT
      <3> QED BY <1>1, <1>2, <3>1, <3>2, SMT
    <2>2. ASSUME m >= K PROVE FALSE
      <3>1. S * m >= S * K
        BY <2>2, SMT
      <3>2. S * m \in Int /\ S * K = K * S
        BY SMT
      <3> QED BY <1>1, <1>2, <3>1, <3>2, SMT
    <2> QED BY <1>2, <2>1, <2>2, SMT
  <1>4 ASSUME n + k < S PROVE Result
    <2> DEFINE i == n + k
    <2>1. i \in 0..S - 1 /\ m * S + i = from + k
      BY <1>3, <1>4, SMT
    <2> HIDE DEF i
    <2>2. m * S + i \in 0..(K * S) - 1 /\ (m * S + i) \div S = m
      BY <1>3, <2>1, RegistersBound
    <2>3. to = from + k /\ to \div S = m
      <3>1. to = (m * S + i) % W
        BY <2>1
      <3>2. PICK y \in 0..W - 1 : y = m * S + i
        BY <2>2
      <3> HIDE DEF W
      <3>3. to = y
        BY <1>1, <3>1, <3>2, Below
      <3> QED BY <2>1, <2>2, <3>2, <3>3
    <2>4. got = from
      BY <1>2, <1>3, <2>3
    <2> QED BY <1>2, <2>3, <2>4
  <1>5 ASSUME n + k >= S /\ m + 1 < K PROVE Result
    <2> DEFINE i == n + k - S
               l == m + 1
    <2>1. i \in 0..S - 1 /\ l \in 0..K - 1 /\ l * S + i = from + k /\ l * S = m * S + S
      BY <1>3, <1>5, SMT
    <2> HIDE DEF i
    <2>2. l * S + i \in 0..(K * S) - 1 /\ (l * S + i) \div S = l
      <3> HIDE DEF l
      <3> QED BY <2>1, RegistersBound
    <2>3. to = from + k /\ to \div S = m + 1
      <3>1. to = (l * S + i) % W
        BY <2>1
      <3>2. PICK y \in 0..W - 1 : y = l * S + i
        BY <2>2
      <3> HIDE DEF W
      <3>3. to = y
        BY <1>1, <3>1, <3>2, Below
      <3> QED BY <2>1, <2>2, <3>2, <3>3
    <2>4. got = from + S
      BY <1>2, <1>3, <2>3, <2>1
    <2>5. l * S + n \in 0..(K * S) - 1
      <3> HIDE DEF l
      <3> QED BY <2>1, RegistersBound
    <2>6. got \in 0..W - 1 /\ S < W
      <3>1. got = l * S + n
        BY <1>3, <2>1, <2>4, SMT
      <3>2. S <= l * S
        BY <1>3, SMT
      <3>3. l * S \in Nat /\ K * S > l * S
        <4>1. l * S \in Nat
          BY <1>3, SMT
        <4>2. l * S <= (K - 1) * S /\ (K - 1) * S = K * S - S
          BY <2>1, SMT
        <4> QED BY <1>1, <4>1, <4>2, SMT
      <3> QED BY <2>5, <3>1, <3>2, <3>3, <1>1, SMT
    <2>7. k >= 1 /\ got - from = S /\ to - from = k
      <3>1. k >= 1
        BY <1>2, <1>5, SMT
      <3>2. PICK f \in Int : f = from
        BY <1>2, <1>3, SMT
      <3> HIDE DEF W
      <3>3. (f + S) - f = S /\ (f + k) - f = k
        BY SMT
      <3> QED BY <2>3, <2>4, <3>1, <3>2, <3>3
    <2>8. ((got - from) % W) < ((to - from) % W) + S
      <3> HIDE DEF W
      <3>1. S \in 0..W - 1 /\ k \in 0..W - 1
        BY <1>1, <2>6, SMT
      <3>2. S % W = S /\ k % W = k
        BY <1>1, <3>1, Below
      <3>3. PICK a \in Int, e \in Int : a = S /\ e = k /\ a = got - from /\ e = to - from
        BY <2>7
      <3>4. a % W = S /\ e % W = k
        BY <3>2, <3>3
      <3>5. a % W < (e % W) + S
        BY <2>7, <3>4, SMT
      <3> QED BY <3>3, <3>5
    <2>9. got = (from + S) % W
      <3> HIDE DEF W
      <3>1. PICK g \in 0..W - 1 : g = got /\ g = from + S
        BY <2>4, <2>6
      <3>2. g % W = g
        BY <1>1, Below
      <3> QED BY <3>1, <3>2
    <2>10. from \div S # to \div S
      BY <1>2, <1>3, <2>3, SMT
    <2> QED BY <2>6, <2>8, <2>9, <2>10
  <1>6 ASSUME n + k >= S /\ m + 1 = K PROVE Result
    <2>1. W = m * S + S
      BY <1>3, <1>6, SMT
    <2> DEFINE i == n + k - S
    <2>2. i \in 0..S - 1 /\ from + k = W + i
      BY <1>3, <1>6, <2>1, SMT
    <2>3. m * S \in Nat
      BY <1>3, SMT
    <2>4. to = i
      <3> DEFINE y == from + k
      <3>1. PICK q \in Int : y \in Int /\ y = W * q + i /\ i \in 0..W - 1
        <4>1. y \in Int /\ y = W * 1 + i /\ i \in 0..W - 1
          BY <1>1, <1>3, <2>1, <2>2, <2>3, SMT
        <4>2. PICK q \in Int : q = 1
          OBVIOUS
        <4> QED BY <4>1, <4>2
      <3>2. to = y % W
        OBVIOUS
      <3> HIDE DEF W, y, i
      <3>3. y % W = i
        BY <1>1, <3>1, DivisionUnique
      <3> QED BY <3>2, <3>3
    <2>5. to \div S = 0
      <3> HIDE DEF i
      <3>1. to = S * 0 + i /\ to \in Int
        BY <2>2, <2>4, SMT
      <3> QED BY <2>2, <3>1, DivisionUnique
    <2>6. got = n
      BY <1>2, <2>5, SMT
    <2>7. got \in 0..W - 1
      BY <1>1, <2>1, <2>3, <2>6, SMT
    <2>8. m # 0
      BY <1>3, <1>6, SMT
    <2>9. got = (from + S) % W
      <3>1. PICK q \in Int, y \in Int : q = 1 /\ y = from + S /\ y = W + n
        BY <1>1, <1>3, <2>1, <2>3, SMT
      <3>2. y = W * q + n /\ n \in 0..W - 1
        BY <1>1, <2>6, <2>7, <3>1, SMT
      <3>4. PICK w \in Nat \ {0} : w = W
        BY <1>1
      <3>5. PICK r \in 0..w - 1 : r = n /\ y = w * q + r
        BY <3>2, <3>4
      <3>3. y % w = r
        BY <3>5, DivisionUnique
      <3> QED BY <2>6, <3>1, <3>3, <3>4, <3>5
    <2>10. ((got - from) % W) < ((to - from) % W) + S
      <3>1. m * S >= S
        BY <1>3, <2>8, SMT
      <3>2. got - from = S - W /\ to - from = k - W /\ S < W /\ k >= 1
        <4>1. PICK p \in Nat : p = m * S
          BY <2>3
        <4> HIDE DEF W
        <4>2. from = p + n /\ W = p + S /\ p >= S /\ got = n /\ to = n + k - S /\ n + k >= S
          BY <1>3, <1>6, <2>1, <2>4, <2>6, <3>1, <4>1
        <4>3. \A P \in Nat, N \in Nat, k1 \in Nat, S1 \in Nat \ {0} : 
                 P >= S1 /\ N < S1 /\ N + k1 >= S1 =>
                   /\ N - (P + N) = S1 - (P + S1) /\ (N + k1 - S1) - (P + N) = k1 - (P + S1)
                   /\ S1 < P + S1 /\ k1 >= 1
          BY SMT
        <4>4. n \in Nat /\ n < S /\ k \in Nat
          OBVIOUS
        <4>5. /\ n - (p + n) = S - (p + S) /\ (n + k - S) - (p + n) = k - (p + S)
              /\ S < p + S /\ k >= 1
          BY <4>2, <4>3, <4>4
        <4> QED BY <4>2, <4>5
      <3>3. PICK a \in Int, e \in Int : /\ a = got - from /\ e = to - from
                                         /\ a = S - W /\ e = k - W
        BY <3>2
      <3>4. S \in 0..W - 1 /\ k \in 0..W - 1
        BY <1>1, <3>2, SMT
      <3> HIDE DEF W
      <3>5. a % W = S
        BY <1>1, <3>3, <3>4, JustBelow
      <3>7. e % W = k
        BY <1>1, <3>3, <3>4, JustBelow
      <3>6. a % W < (e % W) + S
        BY <3>2, <3>5, <3>7, SMT
      <3> QED BY <3>3, <3>6
    <2>11. from \div S # to \div S
      BY <1>2, <2>5, <2>8
    <2> QED BY <2>7, <2>9, <2>10, <2>11
  <1>7. Result
    <2>1. n + k < S \/ (n + k >= S /\ m + 1 < K) \/ (n + k >= S /\ m + 1 = K)
      BY <1>3, SMT
    <2> QED BY <1>4, <1>5, <1>6, <2>1
  <1> QED BY <1>7 DEF ReadOf

\* What two writes some ticks apart, nanoseconds first, make of a time: what has
\* passed is added to it, less a second when one began in between.
LEMMA TwoWrites ==
    ASSUME NEW S \in Nat \ {0}, NEW K \in Nat \ {0}, NEW v \in Nat, NEW k \in 0..S,
           NEW late \in {0, S}, (v % S) + k - late \in 0..S - 1
    PROVE  ((v \div S) % K) * S + ((v % S) + k - late) = ((v + k) - late) % (K * S)
  <1> DEFINE W == K * S
             n == v % S
             h == (v \div S) % K
             i == n + k - late
             y == k - late
  <1>1. W \in Nat \ {0}
    BY SMT
  <1>2. h * S + n = v % W /\ v \div S \in Nat
    BY Registers
  <1>3. n \in 0..S - 1 /\ h \in 0..K - 1
    BY <1>2, SMT
  <1>4. i \in 0..S - 1 /\ y \in Int /\ h * S + i = (h * S + n) + y
    BY <1>3, SMT
  <1>5. h * S + i \in 0..W - 1
    <2> HIDE DEF i, n, h
    <2> QED BY <1>3, <1>4, RegistersBound
  <1>6. (v + k) - late = v + y /\ v \in Int
    BY SMT
  <1> HIDE DEF y, W, i, n, h
  <1>7. ((v % W) + y) % W = (v + y) % W
    BY <1>1, <1>4, <1>6, ModShift
  <1>8. (h * S + i) % W = h * S + i
    BY <1>1, <1>5, SMT
  <1> QED BY <1>2, <1>4, <1>6, <1>7, <1>8 DEF W, n, h, i

-----------------------------------------------------------------------------
(* The invariant. *)

Ops == {"none", "gettimex64", "settime64", "adjtime", "adjfine"}
CallType == [op : Ops, arg : Int, nsec : 0..Second - 1, value : 0..Counter - 1,
             from : 0..Word - 1, to : 0..Word - 1, set : 0..MaxTicks,
             old : 0..Seconds - 1, split : BOOLEAN, failed : BOOLEAN]

\* What a call was asked for.
Asked(x) ==
  /\ x.op = "settime64" => x.value = x.arg
  /\ x.op = "adjtime" => x.arg \in EitherWay(Deltas)
  /\ x.op = "adjfine" => x.arg \in EitherWay(Freqs)

PtpTypeInv ==
  /\ TypeOK /\ call \in [Callers -> CallType]
  /\ \A c \in Callers : Asked(call[c])

\* The steps after the lock are those of the caller that holds it, each of a call
\* that has it.
Placed(c) ==
  /\ holder = c
  /\ pc[c] \in {"read_tn", "read_tsl"} => call[c].op \in {"gettimex64", "adjtime"}
  /\ pc[c] \in {"write_tn", "write_tsl"} => call[c].op \in {"settime64", "adjtime"}
  /\ pc[c] \in {"write_ti", "write_tisubn"} => call[c].op = "adjfine"

\* A time got from the clock.
Read(from, to, got) == ReadOf(from, to, got, Second, Word)

\* Between the two reads the nanoseconds are those of the first one, and the clock
\* has gone on by what has passed since. After them the time is one of Read, which
\* adjtime has added its offset to.
Reading(c) == LET x == call[c] IN
  /\ pc[c] = "read_tsl" =>
       x.nsec = x.from % Second /\ \E k \in 0..ticks : Clock = (x.from + k) % Word
  /\ Returning(c, "gettimex64") => Read(x.from, x.to, x.value)
  /\ pc[c] \in {"write_tn", "write_tsl", "unlock"} /\ x.op = "adjtime" /\ ~x.failed =>
       \E got \in 0..Word - 1 : Read(x.from, x.to, got) /\ x.value = (got + x.arg) % Counter

\* Between the two writes the nanoseconds are those of the time to set and of what
\* has passed since, and the seconds the old ones unless one has begun. After them
\* the clock is, but for that second.
Late(x) == IF x.split THEN Second ELSE 0
Between(n, s, sum, old) ==
  /\ sum < Second => n = sum /\ s = old
  /\ sum >= Second => n = sum - Second /\ s = (old + 1) % Seconds
Writing(c) == LET x == call[c] IN
  /\ pc[c] = "write_tsl" =>
       x.set <= ticks /\ Between(tn, tsl, (x.value % Second) + (ticks - x.set), x.old)
  /\ Returning(c, "settime64") \/ Returning(c, "adjtime") =>
       x.set <= ticks /\ Clock = ((x.value + (ticks - x.set)) - Late(x)) % Word

\* After each write of the increment that part of it is what was asked for.
Scaling(c) == LET x == call[c] IN
  /\ pc[c] = "write_tisubn" /\ ~x.failed => ti = Nano(TicksScale(x.arg))
  /\ Returning(c, "adjfine") /\ x.arg # 0 =>
       ti = Nano(TicksScale(x.arg)) /\ tisubn = Subnano(TicksScale(x.arg))

Holding(c) ==
  /\ pc[c] = "lock" => call[c].op # "none"
  /\ Running(c) => Placed(c) /\ Reading(c) /\ Writing(c) /\ Scaling(c)
PtpInv == PtpTypeInv /\ \A c \in Callers : Holding(c)

\* The constants a proof about the clock uses.
LEMMA Constants ==
    /\ NULL \notin Callers
    /\ Second \in Nat \ {0} /\ Seconds \in Nat \ {0, 1} /\ Counter \in Nat \ {0}
    /\ Word \in Nat \ {0} /\ Word <= Counter /\ Second <= Word
    /\ MaxTicks \in 0..Second /\ MaxCalls \in Nat /\ Times \subseteq 0..Counter - 1
  <1>1. Seconds * Second \in Nat \ {0} /\ Second <= Seconds * Second
    BY PtpAssumption, SMT
  <1> QED BY <1>1, PtpAssumption DEF Word

\* The clock is a time the registers can hold.
LEMMA ClockRange ==
    ASSUME NEW n \in 0..Second - 1, NEW s \in 0..Seconds - 1
    PROVE  s * Second + n \in 0..Word - 1 /\ (s * Second + n) % Second = n
  BY Constants, RegistersBound DEF Word

\* The share asked for, in whole units.
RoundedDown(a, d) == 3125 * d <= 32 * a /\ 32 * a < 3125 * (d + 1)

\* The increment asked for is one the registers can hold, in three parts.
LEMMA ScaleParts ==
    ASSUME NEW f \in EitherWay(Freqs), NEW x, x = TicksScale(f), NEW d, d = DiffB24(f)
    PROVE  /\ f \in Int /\ d \in Nat /\ x = (IF f < 0 THEN Base - d ELSE Base + d)
           /\ RoundedDown(Abs(f), d)
           /\ Nano(x) * 2^24 + Subnano(x)[1] * 2^8 + Subnano(x)[2] = x
           /\ Nano(x) \in 0..255 /\ Subnano(x) \in (0..2^16 - 1) \X (0..2^8 - 1)
  <1>1. PICK a \in Freqs : f = a \/ f = -a
    BY DEF EitherWay
  <1>2. a \in Nat /\ DiffB24(a) <= Base
    BY FreqAssumption
  <1>3. f \in Int /\ Abs(f) = a /\ Abs(a) = a
    BY <1>1, <1>2, SMT DEF Abs
  <1>4. d <= Base
    BY <1>2, <1>3 DEF DiffB24
  <1>5. d \in Nat /\ RoundedDown(Abs(f), d)
    <2>1. PICK b \in Nat : b = Abs(f)
      BY <1>2, <1>3
    <2>2. d = (32 * b) \div 3125
      BY <2>1 DEF DiffB24
    <2>3. d \in Nat /\ 3125 * d <= 32 * b /\ 32 * b < 3125 * (d + 1)
      BY <2>2, Share, SMT
    <2> QED BY <2>1, <2>3, SMT DEF RoundedDown
  <1>6. PICK F \in Nat \ {0}, L \in Nat \ {0}, G \in Nat \ {0} :
          F = 2^24 /\ L = 2^8 /\ G = 2^16 /\ F = L * G /\ Base = 40 * F
    BY Powers DEF Base
  <1>7. PICK N \in Nat \ {0} : N = 256
    OBVIOUS
  <1>8. x = (IF f < 0 THEN Base - d ELSE Base + d)
    BY DEF TicksScale
  <1>9. PICK y \in Nat : y = x /\ y < N * F
    <2>1. d \in 0..40 * F
      BY <1>4, <1>5, <1>6
    <2>2. x \in 0..80 * F
      BY <1>3, <1>6, <1>8, <2>1, SMT
    <2>3. 256 * F = N * F
      BY <1>7
    <2>4. x \in Nat /\ x < 256 * F
      BY <2>2, SMT
    <2> QED BY <2>3, <2>4
  <1>10. PICK q \in 0..N - 1, p \in 0..G - 1, s \in 0..L - 1 :
           /\ q = (y \div F) % N /\ p = (y % F) \div L /\ s = y % L
           /\ q * F + p * L + s = y
    <2>1. F = L * G
      BY <1>6
    <2>2. CutOf(y, F, L, G, N)
      BY <1>9, <2>1, Cut
    <2> QED BY <2>2 DEF CutOf
  <1>11. Nano(x) = q /\ Subnano(x) = <<p, s>>
    <2>1. Nano(y) = (y \div 2^24) % 256 /\ Subnano(y) = <<(y % 2^24) \div 2^8, y % 2^8>>
      BY Zenon DEF Nano, Subnano
    <2>2. 2^24 = F /\ 2^8 = L /\ 256 = N
      BY <1>6, <1>7
    <2>3. Nano(y) = (y \div F) % N /\ Subnano(y) = <<(y % F) \div L, y % L>>
      BY <2>1, <2>2, Zenon
    <2> QED BY <1>9, <1>10, <2>3, Zenon
  <1>12. Nano(x) \in 0..255 /\ Subnano(x) \in (0..2^16 - 1) \X (0..2^8 - 1)
    <2>1. N - 1 = 255
      BY <1>7
    <2>2. Nano(x) \in 0..N - 1 /\ Subnano(x) \in (0..G - 1) \X (0..L - 1)
      BY <1>11
    <2> QED BY <2>1, <2>2, <1>6, Zenon
  <1>13. Nano(x) * 2^24 + Subnano(x)[1] * 2^8 + Subnano(x)[2] = x
    <2>1. Subnano(x)[1] = p /\ Subnano(x)[2] = s
      BY <1>11
    <2> QED BY <2>1, <1>6, <1>9, <1>10, <1>11, Zenon
  <1> QED BY <1>3, <1>5, <1>8, <1>12, <1>13, Zenon

-----------------------------------------------------------------------------
(* The steps. *)

LEMMA PtpInit == Init => PtpInv
  <1> SUFFICES ASSUME Init PROVE PtpInv
    OBVIOUS
  <1>1. NoCall \in CallType /\ Asked(NoCall)
    BY Constants, SMT DEF NoCall, CallType, Ops, Unknown, Asked
  <1>2. call \in [Callers -> CallType] /\ \A c \in Callers : Asked(call[c])
    BY <1>1 DEF Init
  <1>3. tisubn \in (0..2^16 - 1) \X (0..2^8 - 1)
    <2>1. 0 \in 0..2^16 - 1 /\ 0 \in 0..2^8 - 1
      BY Powers, SMT
    <2> QED BY <2>1 DEF Init
  <1>4. TypeOK
    <2>1. tsl \in 0..Seconds - 1 /\ ti \in 0..255 /\ ticks \in 0..MaxTicks /\ calls \in 0..MaxCalls
      BY Constants, SMT DEF Init
    <2> QED BY <1>3, <2>1 DEF Init, TypeOK, Steps
  <1>5. \A c \in Callers : Holding(c)
    BY DEF Init, Holding, Running
  <1> QED BY <1>2, <1>4, <1>5 DEF PtpInv, PtpTypeInv

\* What a caller knows stays true while neither it nor what it reads and writes
\* takes a step.
LEMMA OthersUnmoved ==
    ASSUME NEW d \in Callers, Holding(d), pc'[d] = pc[d], call'[d] = call[d],
           Running(d) => UNCHANGED <<mac, holder, ticks>>
    PROVE  Holding(d)' /\ (Asked(call[d]) => Asked(call[d])')
  <1>1. Asked(call[d]) => Asked(call[d])'
    BY DEF Asked
  <1>2. CASE ~Running(d)
    BY <1>2 DEF Holding, Running
  <1>3. CASE Running(d)
    <2>1. UNCHANGED <<tn, tsl, ti, tisubn, holder, ticks>>
      BY <1>3 DEF mac
    <2>2. Clock' = Clock
      BY <2>1 DEF Clock
    <2>3. Placed(d) /\ Reading(d) /\ Writing(d) /\ Scaling(d)
      BY <1>3 DEF Holding
    <2>4. Placed(d)'
      BY <2>1, <2>3 DEF Placed
    <2>5. Reading(d)'
      BY <2>1, <2>2, <2>3 DEF Reading, Returning, Read
    <2>6. Writing(d)'
      BY <2>1, <2>2, <2>3 DEF Writing, Returning, Between, Late
    <2>7. Scaling(d)'
      BY <2>1, <2>3 DEF Scaling, Returning
    <2> QED BY <2>4, <2>5, <2>6, <2>7 DEF Holding
  <1> QED BY <1>2, <1>3, <1>1

\* A step of one caller: the others keep what they know, for only the caller that
\* holds the lock is past it.
LEMMA OneSteps ==
    ASSUME PtpInv, NEW c \in Callers,
           \A d \in Callers \ {c} : pc'[d] = pc[d] /\ call'[d] = call[d],
           \/ Running(c)
           \/ holder = NULL
           \/ UNCHANGED <<mac, holder, ticks>>,
           TypeOK', call' \in [Callers -> CallType], Asked(call[c])', Holding(c)'
    PROVE  PtpInv'
  <1>1. ASSUME NEW d \in Callers \ {c}
        PROVE  Holding(d)' /\ Asked(call[d])'
    <2>1. Holding(d) /\ Asked(call[d])
      BY DEF PtpInv, PtpTypeInv
    <2>2. Running(d) => UNCHANGED <<mac, holder, ticks>>
      <3>1. Running(d) => holder = d
        BY <2>1 DEF Holding, Placed
      <3>2. Running(c) => holder = c
        BY DEF PtpInv, Holding, Placed
      <3> QED BY <3>1, <3>2, Constants
    <2> QED BY <2>1, <2>2, OthersUnmoved
  <1>2. \A d \in Callers : Holding(d)' /\ Asked(call[d])'
    BY <1>1
  <1> QED BY <1>2 DEF PtpInv, PtpTypeInv

\* A tick carries into the seconds; what is being read or written goes on by one.
LEMMA StepTick == PtpInv /\ Tick => PtpInv'
  <1> SUFFICES ASSUME PtpInv, Tick PROVE PtpInv'
    OBVIOUS
  <1>1. /\ tn \in 0..Second - 1 /\ tsl \in 0..Seconds - 1 /\ ticks \in 0..MaxTicks
        /\ tn' = (tn + 1) % Second /\ tsl' = (tsl + (tn + 1) \div Second) % Seconds
        /\ UNCHANGED <<ti, tisubn, holder, pc, call, calls, leaked>>
    BY DEF PtpInv, PtpTypeInv, TypeOK, Tick
  <1>2. /\ tn' \in 0..Second - 1 /\ tsl' \in 0..Seconds - 1
        /\ Clock' = (Clock + 1) % Word
    <2>1. PICK n, m : n = tn /\ m = tsl
      OBVIOUS
    <2>3. PICK S \in Nat \ {0}, K \in Nat \ {0} : S = Second /\ K = Seconds
      BY Constants
    <2>2. /\ ((m + (n + 1) \div S) % K) * S + ((n + 1) % S) = ((m * S + n) + 1) % (K * S)
          /\ (n + 1) % S \in 0..S - 1
          /\ (m + (n + 1) \div S) % K \in 0..K - 1
      <3>1. m \in 0..K - 1 /\ n \in 0..S - 1
        BY <1>1, <2>1, <2>3
      <3> QED BY <3>1, OneTick
    <2> QED BY <1>1, <2>1, <2>2, <2>3 DEF Clock, Word
  <1>3. ticks' \in 0..MaxTicks
    BY <1>1, Constants, SMT DEF Tick
  <1>4. TypeOK' /\ call' \in [Callers -> CallType] /\ \A c \in Callers : Asked(call[c])'
    BY <1>1, <1>2, <1>3 DEF PtpInv, PtpTypeInv, TypeOK, Asked
  <1>5. ASSUME NEW c \in Callers, Running(c)
        PROVE  Holding(c)'
    <2> DEFINE x == call[c]
    <2>1. ticks' = ticks + 1 /\ ticks \in Nat /\ ticks' <= MaxTicks
      BY <1>1, <1>3, <1>5, Constants, SMT DEF Tick
    <2>2. Placed(c) /\ Reading(c) /\ Writing(c) /\ Scaling(c)
      BY <1>5 DEF PtpInv, Holding
    <2>3. /\ pc'[c] = pc[c] /\ call'[c] = x /\ x \in CallType /\ holder' = holder
          /\ ti' = ti /\ tisubn' = tisubn
      BY <1>1 DEF PtpInv, PtpTypeInv
    <2>4. /\ x.from \in Int /\ x.set \in Nat /\ x.value \in Nat /\ tn \in Int /\ Clock \in Int
      <3>1. Clock \in Int
        BY <1>1, Constants, ClockRange DEF Clock
      <3> QED BY <1>1, <2>3, <3>1, Constants DEF CallType
    <2>5. ASSUME NEW y \in Int, Clock = y % Word
          PROVE  Clock' = (y + 1) % Word
      <3>1. PICK one \in Int, w \in Nat \ {0} : one = 1 /\ w = Word
        BY Constants
      <3>2. ((y % w) + one) % w = (y + one) % w
        BY ModShift
      <3> QED BY <1>2, <2>5, <3>1, <3>2
    <2>6. /\ tn + 1 < Second => tn' = tn + 1 /\ tsl' = tsl
          /\ tn + 1 >= Second => tn' = 0 /\ tsl' = (tsl + 1) % Seconds
      <3>1. PICK S \in Nat \ {0}, K \in Nat \ {0}, n \in Int, m \in 0..Seconds - 1 :
              S = Second /\ K = Seconds /\ n = tn + 1 /\ m = tsl
        BY <1>1, <2>4, Constants
      <3>2. ASSUME tn + 1 < Second PROVE tn' = tn + 1 /\ tsl' = tsl
        <4>1. PICK q \in Int : q = 0 /\ n = S * q + n /\ n \in 0..S - 1
          BY <1>1, <3>1, <3>2, SMT
        <4>2. n \div S = 0 /\ n % S = n
          BY <4>1, DivisionUnique
        <4>3. m \in 0..K - 1 /\ m + 0 = m
          BY <3>1, SMT
        <4>4. m % K = m
          BY <4>3, Below
        <4> QED BY <1>1, <3>1, <4>2, <4>3, <4>4
      <3>3. ASSUME tn + 1 >= Second PROVE tn' = 0 /\ tsl' = (tsl + 1) % Seconds
        <4>1. PICK q \in Int, r \in 0..S - 1 : q = 1 /\ r = 0 /\ n = S * q + r
          BY <1>1, <3>1, <3>3, SMT
        <4>2. n \div S = 1 /\ n % S = 0
          BY <4>1, DivisionUnique
        <4> QED BY <1>1, <3>1, <4>2
      <3> QED BY <3>2, <3>3
    <2>7. Placed(c)' /\ Scaling(c)'
      BY <2>2, <2>3 DEF Placed, Scaling, Returning
    <2>8. Reading(c)'
      <3>1. ASSUME pc[c] = "read_tsl"
            PROVE  \E k \in 0..ticks' : Clock' = (x.from + k) % Word
        <4>1. PICK k \in 0..ticks : Clock = (x.from + k) % Word
          BY <2>2, <3>1 DEF Reading
        <4>2. Clock' = ((x.from + k) + 1) % Word
          <5>1. PICK y \in Int : y = x.from + k
            BY <2>4
          <5> QED BY <4>1, <5>1, <2>5
        <4>3. (x.from + k) + 1 = x.from + (k + 1) /\ k + 1 \in 0..ticks'
          BY <2>1, <2>4, SMT
        <4> QED BY <4>2, <4>3
      <3>2. (pc[c] = "read_tsl" => x.nsec = x.from % Second)
        BY <2>2 DEF Reading
      <3> QED BY <2>2, <2>3, <3>1, <3>2 DEF Reading, Returning, Read
    <2>9. Writing(c)'
      <3>1. ASSUME pc[c] = "write_tsl"
            PROVE  x.set <= ticks' /\ Between(tn', tsl', (x.value % Second) + (ticks' - x.set), x.old)
        <4>1. x.set <= ticks /\ Between(tn, tsl, (x.value % Second) + (ticks - x.set), x.old)
          BY <2>2, <3>1 DEF Writing
        <4>2. PICK r \in 0..Second - 1 : r = x.value % Second
          BY <2>4, Constants, SMT
        <4>3. PICK y \in Int : y = r + (ticks - x.set)
          BY <2>1, <2>4, <4>2, Constants, SMT
        <4>4. y + 1 = r + (ticks' - x.set) /\ y + 1 <= r + Second
          BY <2>1, <2>4, <4>1, <4>2, <4>3, Constants, SMT
        <4>5. CASE y < Second
          <5>1. tn = y /\ tsl = x.old
            BY <4>1, <4>2, <4>3, <4>5 DEF Between
          <5>2. /\ y + 1 < Second => tn' = y + 1 /\ tsl' = x.old
                /\ y + 1 >= Second => (y + 1) - Second = 0 /\ tn' = 0 /\ tsl' = (x.old + 1) % Seconds
            BY <2>6, <4>5, <5>1, Constants, SMT
          <5>3. Between(tn', tsl', y + 1, x.old)
            BY <5>2, Zenon DEF Between
          <5>4. x.set <= ticks'
            BY <2>1, <2>4, <4>1, SMT
          <5> QED BY <4>2, <4>4, <5>3, <5>4
        <4>6. CASE y >= Second
          <5>1. tn = y - Second /\ tsl = (x.old + 1) % Seconds
            BY <4>1, <4>2, <4>3, <4>6 DEF Between
          <5>2. /\ y + 1 >= Second /\ ~(y + 1 < Second)
                /\ tn' = (y + 1) - Second /\ tsl' = (x.old + 1) % Seconds
            BY <2>6, <4>2, <4>4, <4>6, <5>1, Constants, SMT
          <5>3. Between(tn', tsl', y + 1, x.old)
            BY <5>2, Zenon DEF Between
          <5>4. x.set <= ticks'
            BY <2>1, <2>4, <4>1, SMT
          <5> QED BY <4>2, <4>4, <5>3, <5>4
        <4> QED BY <4>3, <4>5, <4>6, Constants, SMT
      <3>2. ASSUME Returning(c, "settime64") \/ Returning(c, "adjtime")
            PROVE  x.set <= ticks' /\ Clock' = ((x.value + (ticks' - x.set)) - Late(x)) % Word
        <4>1. x.set <= ticks /\ Clock = ((x.value + (ticks - x.set)) - Late(x)) % Word
          BY <2>2, <3>2 DEF Writing
        <4>2. PICK s \in Int : s = Late(x)
          BY Constants, SMT DEF Late
        <4>3. PICK y \in Int : y = (x.value + (ticks - x.set)) - s
          BY <2>1, <2>4, SMT
        <4>4. Clock' = (y + 1) % Word
          BY <2>5, <4>1, <4>2, <4>3
        <4>5. y + 1 = (x.value + (ticks' - x.set)) - s
          BY <2>1, <2>4, <4>3, SMT
        <4> QED BY <2>1, <2>4, <4>1, <4>2, <4>4, <4>5
      <3> QED BY <2>3, <3>1, <3>2 DEF Writing, Returning, Between, Late
    <2> QED BY <1>5, <2>3, <2>7, <2>8, <2>9 DEF Holding, Running
  <1>6. ASSUME NEW c \in Callers, ~Running(c)
        PROVE  Holding(c)'
    BY <1>1, <1>6 DEF PtpInv, Holding, Running
  <1> QED BY <1>4, <1>5, <1>6 DEF PtpInv, PtpTypeInv

\* Facts every step of a caller uses.
LEMMA CallerFacts ==
    ASSUME PtpInv, NEW c \in Callers
    PROVE  /\ call[c] \in CallType /\ Asked(call[c]) /\ pc[c] \in Steps
           /\ tn \in 0..Second - 1 /\ tsl \in 0..Seconds - 1 /\ Clock \in 0..Word - 1
           /\ Clock % Second = tn /\ ticks \in 0..MaxTicks
           /\ Running(c) => Placed(c) /\ Reading(c) /\ Writing(c) /\ Scaling(c)
  <1>1. call[c] \in CallType /\ Asked(call[c]) /\ pc[c] \in Steps
        /\ tn \in 0..Second - 1 /\ tsl \in 0..Seconds - 1 /\ ticks \in 0..MaxTicks
    BY DEF PtpInv, PtpTypeInv, TypeOK
  <1>2. Clock \in 0..Word - 1 /\ Clock % Second = tn
    BY <1>1, ClockRange DEF Clock
  <1> QED BY <1>1, <1>2 DEF PtpInv, Holding

LEMMA StepBegin == ASSUME PtpInv, NEW c \in Callers, Begin(c) PROVE PtpInv'
  <1>1. PICK x \in Calls :
          call' = [call EXCEPT ![c] =
             [NoCall EXCEPT !.op = x.op, !.arg = x.arg,
                            !.value = IF x.op = "settime64" THEN x.arg ELSE Unknown]]
    BY DEF Begin
  <1> DEFINE v == IF x.op = "settime64" THEN x.arg ELSE Unknown
             r == [NoCall EXCEPT !.op = x.op, !.arg = x.arg, !.value = v]
  <1>2. /\ pc[c] = "idle" /\ pc' = [pc EXCEPT ![c] = "lock"] /\ calls < MaxCalls
        /\ calls' = calls + 1
        /\ UNCHANGED <<tn, tsl, ti, tisubn, holder, ticks, leaked>>
    BY DEF Begin, mac
  <1>3. /\ call \in [Callers -> CallType] /\ pc \in [Callers -> Steps]
    BY DEF PtpInv, PtpTypeInv, TypeOK
  <1>4. /\ x.op \in Ops /\ x.op # "none" /\ x.arg \in Int
        /\ x.op = "settime64" => x.arg \in Times
        /\ x.op = "adjtime" => x.arg \in EitherWay(Deltas)
        /\ x.op = "adjfine" => x.arg \in EitherWay(Freqs)
    <2>1. EitherWay(Deltas) \subseteq Int
      BY PtpAssumption, SMT DEF EitherWay
    <2>2. EitherWay(Freqs) \subseteq Int
      BY FreqAssumption, SMT DEF EitherWay
    <2>3. Times \subseteq Int
      BY Constants, SMT
    <2>4. /\ x.op \in Ops \ {"none"}
          /\ x.op = "gettimex64" => x.arg = 0
          /\ x.op = "settime64" => x.arg \in Times
          /\ x.op = "adjtime" => x.arg \in EitherWay(Deltas)
          /\ x.op = "adjfine" => x.arg \in EitherWay(Freqs)
      BY <1>1, Zenon DEF Calls, Ops
    <2>5. 0 \in Int
      OBVIOUS
    <2>6. x.op \in {"gettimex64", "settime64", "adjtime", "adjfine"}
      BY <2>4 DEF Ops
    <2>7. x.arg \in Int
      BY <2>1, <2>2, <2>3, <2>4, <2>5, <2>6, Zenon
    <2> QED BY <2>4, <2>7
  <1>5. v \in 0..Counter - 1
    <2>1. 0 \in 0..Counter - 1
      BY Constants, SMT
    <2> QED BY <1>4, <2>1, Constants DEF Unknown
  <1>6. r \in CallType /\ Asked(r)
    <2>1. NoCall \in CallType
      BY Constants, SMT DEF NoCall, CallType, Ops, Unknown
    <2>2. /\ r.op = x.op /\ r.arg = x.arg /\ r.value = v
      BY DEF NoCall
    <2>3. r \in CallType
      <3> HIDE DEF v
      <3> QED BY <1>4, <1>5, <2>1 DEF CallType
    <2> QED BY <1>4, <2>2, <2>3 DEF Asked
  <1>7. call'[c] = r /\ call' \in [Callers -> CallType]
    BY <1>1, <1>3, <1>6
  <1>8. TypeOK'
    <2>1. calls' \in 0..MaxCalls
      <3>1. calls \in 0..MaxCalls
        BY DEF PtpInv, PtpTypeInv, TypeOK
      <3> QED BY <1>2, <3>1, Constants, SMT
    <2>2. pc' \in [Callers -> Steps]
      BY <1>2, <1>3 DEF Steps
    <2> QED BY <1>2, <2>1, <2>2 DEF PtpInv, PtpTypeInv, TypeOK
  <1>9. pc'[c] = "lock"
    BY <1>2, <1>3
  <1>10. Holding(c)'
    BY <1>4, <1>7, <1>9 DEF Holding, Running
  <1>11. \A d \in Callers \ {c} : pc'[d] = pc[d] /\ call'[d] = call[d]
    BY <1>1, <1>2, <1>3
  <1>12. Asked(call[c])'
    BY <1>6, <1>7 DEF Asked
  <1> QED BY <1>2, <1>7, <1>8, <1>10, <1>11, <1>12, OneSteps DEF mac

LEMMA StepLock == ASSUME PtpInv, NEW c \in Callers, Lock(c) PROVE PtpInv'
  <1>1. /\ pc[c] = "lock" /\ holder = NULL /\ holder' = c
        /\ pc' = [pc EXCEPT ![c] = AfterLock(call[c])]
        /\ UNCHANGED <<tn, tsl, ti, tisubn, call, ticks, calls>>
        /\ leaked' \in BOOLEAN
    BY DEF Lock, Free, mac, PtpInv, PtpTypeInv, TypeOK
  <1>2. /\ call \in [Callers -> CallType] /\ pc \in [Callers -> Steps] /\ Asked(call[c])
    BY DEF PtpInv, PtpTypeInv, TypeOK
  <1>3. pc'[c] = AfterLock(call[c])
    BY <1>1, <1>2
  <1>4. PICK p \in {"idle", "read_tn", "write_tn", "unlock", "write_ti"} :
          /\ pc'[c] = p
          /\ p = "read_tn" => call[c].op \in {"gettimex64", "adjtime"}
          /\ p = "write_tn" => call[c].op = "settime64"
          /\ p \in {"write_ti", "unlock"} => call[c].op = "adjfine"
          /\ p = "unlock" => call[c].arg = 0
    <2>1. call[c].op \in Ops \ {"none"}
      BY <1>1, <1>2 DEF PtpInv, Holding, CallType
    <2> QED BY <1>3, <2>1 DEF AfterLock, Ops
  <1>5. TypeOK'
    BY <1>1, <1>2, <1>4 DEF PtpInv, PtpTypeInv, TypeOK, Steps
  <1>6. Holding(c)'
    BY <1>1, <1>4 DEF Holding, Running, Placed, Reading, Writing, Scaling, Returning
  <1>7. \A d \in Callers \ {c} : pc'[d] = pc[d] /\ call'[d] = call[d]
    BY <1>1, <1>2
  <1> QED BY <1>1, <1>2, <1>5, <1>6, <1>7, OneSteps DEF Asked

\* The first read: from here on the clock has gone on by nothing.
LEMMA StepReadTN == ASSUME PtpInv, NEW c \in Callers, ReadTN(c) PROVE PtpInv'
  <1> DEFINE x == call[c]
  <1>1. /\ pc[c] = "read_tn" /\ pc' = [pc EXCEPT ![c] = "read_tsl"]
        /\ call' = [call EXCEPT ![c] = [x EXCEPT !.nsec = tn, !.from = Clock]]
        /\ UNCHANGED <<tn, tsl, ti, tisubn, holder, ticks, calls, leaked>>
    BY DEF ReadTN, mac, hist
  <1>2. /\ call \in [Callers -> CallType] /\ pc \in [Callers -> Steps]
    BY DEF PtpInv, PtpTypeInv, TypeOK
  <1>3. /\ x \in CallType /\ Asked(x) /\ Running(c) /\ Placed(c)
        /\ tn \in 0..Second - 1 /\ Clock \in 0..Word - 1 /\ Clock % Second = tn
        /\ ticks \in 0..MaxTicks
    BY <1>1, CallerFacts DEF Running
  <1> DEFINE y == [x EXCEPT !.nsec = tn, !.from = Clock]
  <1>4. /\ y \in CallType /\ y.op = x.op /\ y.arg = x.arg /\ y.value = x.value
        /\ y.nsec = tn /\ y.from = Clock
    BY <1>3 DEF CallType
  <1> HIDE DEF y
  <1>5. call'[c] = y /\ call' \in [Callers -> CallType] /\ pc'[c] = "read_tsl"
        /\ pc' \in [Callers -> Steps]
    BY <1>1, <1>2, <1>4 DEF Steps, y
  <1>6. TypeOK'
    BY <1>1, <1>5 DEF PtpInv, PtpTypeInv, TypeOK
  <1>7. Clock' = Clock
    BY <1>1 DEF Clock
  <1>8. \E k \in 0..ticks : Clock = (Clock + k) % Word
    <2>1. PICK w \in Nat \ {0} : w = Word
      BY Constants
    <2>2. PICK z \in 0..w - 1 : z = Clock
      BY <1>3, <2>1
    <2>3. z % w = z /\ z + 0 = z /\ 0 \in 0..ticks
      BY <1>3, Constants, Below, SMT
    <2> QED BY <2>1, <2>2, <2>3
  <1>9. Placed(c)'
    BY <1>1, <1>3, <1>4, <1>5 DEF Placed
  <1>10. Reading(c)'
    BY <1>1, <1>3, <1>4, <1>5, <1>7, <1>8 DEF Reading, Returning
  <1>11. Writing(c)' /\ Scaling(c)'
    BY <1>5 DEF Writing, Scaling, Returning
  <1>12. Holding(c)' /\ Asked(call[c])'
    BY <1>3, <1>4, <1>5, <1>9, <1>10, <1>11 DEF Holding, Asked
  <1>13. \A d \in Callers \ {c} : pc'[d] = pc[d] /\ call'[d] = call[d]
    BY <1>1, <1>2
  <1> QED BY <1>3, <1>5, <1>6, <1>12, <1>13, OneSteps

\* The second read, or one that failed: what becomes of the time got.
LEMMA StepFinish ==
    ASSUME PtpInv, NEW c \in Callers, NEW v, NEW failed \in BOOLEAN, Finish(c, v, failed),
           pc[c] \in {"read_tn", "read_tsl"}, v \in 0..Counter - 1,
           UNCHANGED <<tn, tsl, ti, tisubn, holder, ticks, calls, leaked>>,
           ~failed => v \in 0..Word - 1 /\ Read(call[c].from, Clock, v)
    PROVE  PtpInv'
  <1> DEFINE x == call[c]
             val == IF x.op = "adjtime" THEN (v + x.arg) % Counter ELSE v
             y == [x EXCEPT !.value = val, !.to = Clock, !.failed = failed]
             p == IF x.op = "adjtime" THEN "write_tn" ELSE "unlock"
  <1>1. call' = [call EXCEPT ![c] = y] /\ pc' = [pc EXCEPT ![c] = p]
    BY DEF Finish
  <1>2. /\ call \in [Callers -> CallType] /\ pc \in [Callers -> Steps]
    BY DEF PtpInv, PtpTypeInv, TypeOK
  <1>3. /\ x \in CallType /\ Asked(x) /\ Running(c) /\ Placed(c)
        /\ Clock \in 0..Word - 1 /\ x.op \in {"gettimex64", "adjtime"}
    <2>1. Running(c) /\ pc[c] \in {"read_tn", "read_tsl"}
      BY DEF Running
    <2> QED BY <2>1, CallerFacts DEF Placed
  <1>4. val \in 0..Counter - 1
    <2>1. v + x.arg \in Int
      BY <1>3, SMT DEF CallType
    <2>2. \A z \in Int : z % Counter \in 0..Counter - 1
      BY Constants, SMT
    <2> QED BY <2>1, <2>2
  <1> HIDE DEF val
  <1>5. /\ y \in CallType /\ y.op = x.op /\ y.arg = x.arg /\ y.value = val
        /\ y.from = x.from /\ y.to = Clock /\ y.failed = failed
    BY <1>3, <1>4 DEF CallType
  <1> HIDE DEF y
  <1>6. call'[c] = y /\ call' \in [Callers -> CallType] /\ pc'[c] = p
        /\ pc' \in [Callers -> Steps]
    BY <1>1, <1>2, <1>5 DEF Steps
  <1>7. TypeOK'
    BY <1>6 DEF PtpInv, PtpTypeInv, TypeOK
  <1>8. Placed(c)'
    BY <1>3, <1>5, <1>6 DEF Placed
  <1>9. Reading(c)'
    <2>1. pc'[c] # "read_tsl"
      BY <1>6
    <2>2. ASSUME y.op = "gettimex64", ~failed PROVE Read(y.from, y.to, y.value)
      BY <1>5, <2>2 DEF val
    <2>3. ASSUME y.op = "adjtime", ~failed
          PROVE  \E got \in 0..Word - 1 :
                    Read(y.from, y.to, got) /\ y.value = (got + y.arg) % Counter
      BY <1>5, <2>3 DEF val
    <2>4. Returning(c, "gettimex64")' => y.op = "gettimex64" /\ ~failed
      BY <1>5, <1>6 DEF Returning
    <2> QED BY <1>5, <1>6, <2>1, <2>2, <2>3, <2>4 DEF Reading, Read
  <1>10. Writing(c)' /\ Scaling(c)'
    BY <1>3, <1>5, <1>6 DEF Writing, Scaling, Returning
  <1>11. Holding(c)' /\ Asked(call[c])'
    BY <1>3, <1>5, <1>6, <1>8, <1>9, <1>10 DEF Holding, Asked
  <1>12. \A d \in Callers \ {c} : pc'[d] = pc[d] /\ call'[d] = call[d]
    BY <1>1, <1>2
  <1> QED BY <1>3, <1>6, <1>7, <1>11, <1>12, OneSteps

LEMMA StepReadTSL == ASSUME PtpInv, NEW c \in Callers, ReadTSL(c) PROVE PtpInv'
  <1> DEFINE x == call[c]
             v == Got(x, tsl, tn)
  <1>1. pc[c] = "read_tsl" /\ Finish(c, v, FALSE)
        /\ UNCHANGED <<tn, tsl, ti, tisubn, holder, ticks, calls, leaked>>
    BY DEF ReadTSL, mac, hist
  <1>2. /\ x \in CallType /\ Clock \in 0..Word - 1 /\ ticks \in 0..MaxTicks /\ Reading(c)
        /\ tn \in 0..Second - 1 /\ tsl \in 0..Seconds - 1
    BY <1>1, CallerFacts DEF Running
  <1>3. PICK k \in 0..ticks : Clock = (x.from + k) % Word /\ x.nsec = x.from % Second
    BY <1>1, <1>2 DEF Reading
  <1>4. PICK S \in Nat \ {0}, K \in Nat \ {0, 1}, to \in Int, got \in Int, from \in Int :
          S = Second /\ K = Seconds /\ to = Clock /\ got = v /\ from = x.from
    <2>1. tsl * Second + x.nsec \in Int
      BY <1>2, Constants, SMT DEF CallType
    <2>2. Clock \in Int /\ x.from \in Int
      BY <1>2, Constants DEF CallType
    <2> QED BY <2>1, <2>2, Constants DEF Got
  <1>5. to \div S = tsl
    BY <1>2, <1>4, RegistersBound DEF Clock
  <1>6. /\ from \in 0..(K * S) - 1 /\ k \in 0..S /\ to = (from + k) % (K * S)
        /\ got = (to \div S) * S + (from % S)
    BY <1>2, <1>3, <1>4, <1>5, Constants DEF CallType, Word, Got
  <1>7. ReadOf(from, to, got, S, K * S)
    BY <1>6, TwoReads
  <1>8. Read(x.from, Clock, v) /\ v \in 0..Word - 1
    BY <1>4, <1>7 DEF Read, ReadOf, Word
  <1>9. v \in 0..Counter - 1
    BY <1>8, Constants, SMT
  <1> HIDE DEF v
  <1> QED BY <1>1, <1>8, <1>9, StepFinish

LEMMA StepReadFails == ASSUME PtpInv, NEW c \in Callers, ReadFails(c) PROVE PtpInv'
  <1>1. PICK v : v = Counter - 1 /\ v \in 0..Counter - 1
    BY Constants, SMT
  <1>2. pc[c] \in {"read_tn", "read_tsl"} /\ Finish(c, v, TRUE)
        /\ UNCHANGED <<tn, tsl, ti, tisubn, holder, ticks, calls, leaked>>
    BY <1>1 DEF ReadFails, mac, hist
  <1> QED BY <1>1, <1>2, StepFinish

\* The first write: nothing has passed since.
LEMMA StepWriteTN == ASSUME PtpInv, NEW c \in Callers, WriteTN(c) PROVE PtpInv'
  <1> DEFINE x == call[c]
             y == [x EXCEPT !.set = ticks, !.old = tsl]
  <1>1. /\ pc[c] = "write_tn" /\ pc' = [pc EXCEPT ![c] = "write_tsl"]
        /\ call' = [call EXCEPT ![c] = y] /\ tn' = x.value % Second
        /\ UNCHANGED <<tsl, ti, tisubn, holder, ticks, calls, leaked>>
    BY DEF WriteTN, Nanoseconds, hist
  <1>2. /\ call \in [Callers -> CallType] /\ pc \in [Callers -> Steps]
    BY DEF PtpInv, PtpTypeInv, TypeOK
  <1>3. /\ x \in CallType /\ Asked(x) /\ Running(c) /\ Placed(c) /\ Reading(c)
        /\ ticks \in 0..MaxTicks /\ tsl \in 0..Seconds - 1
    BY <1>1, CallerFacts DEF Running
  <1>4. /\ y \in CallType /\ y.old = tsl /\ y.op = x.op /\ y.arg = x.arg /\ y.value = x.value
        /\ y.from = x.from /\ y.to = x.to /\ y.failed = x.failed /\ y.set = ticks
    BY <1>3 DEF CallType
  <1> HIDE DEF y
  <1>5. call'[c] = y /\ call' \in [Callers -> CallType] /\ pc'[c] = "write_tsl"
        /\ pc' \in [Callers -> Steps]
    BY <1>1, <1>2, <1>4 DEF Steps
  <1>6. tn' \in 0..Second - 1 /\ Between(tn', tsl', (y.value % Second) + (ticks - y.set), y.old)
    <2>1. PICK r \in 0..Second - 1 : r = x.value % Second
      <3>1. \A z \in Int : z % Second \in 0..Second - 1
        BY Constants, SMT
      <3> QED BY <1>3, <3>1, Constants DEF CallType
    <2>2. r + (ticks - ticks) = r /\ r < Second /\ ~(r >= Second)
      BY <1>3, <2>1, Constants, SMT
    <2> QED BY <1>1, <1>4, <2>1, <2>2 DEF Between
  <1>7. TypeOK'
    BY <1>1, <1>5, <1>6 DEF PtpInv, PtpTypeInv, TypeOK
  <1>8. Placed(c)'
    BY <1>1, <1>3, <1>4, <1>5 DEF Placed
  <1>9. Reading(c)'
    BY <1>1, <1>3, <1>4, <1>5 DEF Reading, Returning, Read
  <1>10. ticks <= ticks
    BY <1>3, Constants, SMT
  <1>11. Writing(c)' /\ Scaling(c)'
    BY <1>1, <1>4, <1>5, <1>6, <1>10 DEF Writing, Scaling, Returning, Between
  <1>12. Holding(c)' /\ Asked(call[c])'
    BY <1>3, <1>4, <1>5, <1>8, <1>9, <1>11 DEF Holding, Asked
  <1>13. \A d \in Callers \ {c} : pc'[d] = pc[d] /\ call'[d] = call[d]
    BY <1>1, <1>2
  <1> QED BY <1>3, <1>5, <1>7, <1>12, <1>13, OneSteps

LEMMA StepWriteTSL == ASSUME PtpInv, NEW c \in Callers, WriteTSL(c) PROVE PtpInv'
  <1> DEFINE x == call[c]
             y == [x EXCEPT !.split = tsl # x.old]
  <1>1. /\ pc[c] = "write_tsl" /\ pc' = [pc EXCEPT ![c] = "unlock"]
        /\ tsl' = (x.value \div Second) % Seconds /\ call' = [call EXCEPT ![c] = y]
        /\ UNCHANGED <<tn, ti, tisubn, holder, ticks, calls, leaked>>
    BY DEF WriteTSL, hist
  <1>2. /\ call \in [Callers -> CallType] /\ pc \in [Callers -> Steps]
    BY DEF PtpInv, PtpTypeInv, TypeOK
  <1>3. /\ x \in CallType /\ Asked(x) /\ Running(c) /\ Placed(c) /\ Reading(c) /\ Writing(c)
        /\ ticks \in 0..MaxTicks /\ tn \in 0..Second - 1
    BY <1>1, CallerFacts DEF Running
  <1>4. /\ y \in CallType /\ y.op = x.op /\ y.arg = x.arg /\ y.value = x.value
        /\ y.from = x.from /\ y.to = x.to /\ y.failed = x.failed /\ y.set = x.set
        /\ y.split = (tsl # x.old)
    BY <1>3 DEF CallType
  <1> HIDE DEF y
  <1>5. call'[c] = y /\ call' \in [Callers -> CallType] /\ pc'[c] = "unlock"
        /\ pc' \in [Callers -> Steps]
    BY <1>1, <1>2, <1>4 DEF Steps
  <1>6. x.set <= ticks /\ Between(tn, tsl, (x.value % Second) + (ticks - x.set), x.old)
    BY <1>1, <1>3 DEF Writing
  <1>7. PICK S \in Nat \ {0}, K \in Nat \ {0, 1} : S = Second /\ K = Seconds
    BY Constants
  <1>8. PICK v \in Nat : v = x.value
    BY <1>3, Constants, SMT DEF CallType
  <1>9. PICK k \in 0..S : k = ticks - x.set
    <2>1. ticks - x.set \in 0..Second
      BY <1>3, <1>6, Constants, SMT DEF CallType
    <2> QED BY <2>1, <1>7
  <1>10. PICK late \in {0, S} : late = Late(y)
    BY <1>7 DEF Late
  <1>11. tn = (v % S) + k - late
    <2>1. PICK r \in 0..S - 1, o \in 0..K - 1 : r = v % S /\ o = x.old
      <3>1. v % S \in 0..S - 1
        BY SMT
      <3> QED BY <1>3, <1>7, <3>1 DEF CallType
    <2>2. (o + 1) % K # o
      <3>1. CASE o + 1 < K
        <4>1. PICK b \in 0..K - 1 : b = o + 1
          BY <3>1, SMT
        <4>2. b % K = b /\ b # o
          BY <4>1, Below, SMT
        <4> QED BY <4>1, <4>2
      <3>2. CASE o + 1 = K
        <4>1. PICK q \in Int, b \in Int, z \in 0..K - 1 :
                q = 1 /\ b = o + 1 /\ z = 0 /\ b = K * q + z
          BY <3>2, SMT
        <4>2. b % K = z
          BY <4>1, DivisionUnique
        <4>3. o # 0
          BY <3>2, SMT
        <4> QED BY <4>1, <4>2, <4>3
      <3> QED BY <3>1, <3>2, SMT
    <2>3. CASE r + k < S
      <3>1. tn = r + k /\ tsl = x.old
        BY <1>6, <1>7, <1>8, <1>9, <2>1, <2>3 DEF Between
      <3>2. late = 0
        BY <1>4, <1>10, <3>1 DEF Late
      <3> QED BY <2>1, <3>1, <3>2, SMT
    <2>4. CASE r + k >= S
      <3>1. tn = r + k - S /\ tsl = (x.old + 1) % Seconds
        BY <1>6, <1>7, <1>8, <1>9, <2>1, <2>4 DEF Between
      <3>2. late = S
        BY <1>4, <1>7, <1>10, <2>1, <2>2, <3>1 DEF Late
      <3> QED BY <2>1, <3>1, <3>2
    <2> QED BY <2>1, <2>3, <2>4, SMT
  <1>12. Clock' = ((x.value + (ticks - x.set)) - Late(y)) % Word
    <2>1. ((v \div S) % K) * S + ((v % S) + k - late) = ((v + k) - late) % (K * S)
      <3>1. (v % S) + k - late \in 0..S - 1 /\ K \in Nat \ {0}
        BY <1>3, <1>7, <1>11
      <3> QED BY <3>1, TwoWrites
    <2> QED BY <1>1, <1>7, <1>8, <1>9, <1>10, <1>11, <2>1 DEF Clock, Word
  <1>13. tsl' \in 0..Seconds - 1
    <2>1. v \div S \in Int /\ \A z \in Int : z % K \in 0..K - 1
      BY SMT
    <2> QED BY <1>1, <1>7, <1>8, <2>1
  <1>14. TypeOK'
    BY <1>1, <1>5, <1>13 DEF PtpInv, PtpTypeInv, TypeOK
  <1>15. Placed(c)' /\ Scaling(c)'
    BY <1>1, <1>3, <1>4, <1>5 DEF Placed, Scaling, Returning
  <1>16. Reading(c)'
    BY <1>1, <1>3, <1>4, <1>5 DEF Reading, Returning, Read, Placed
  <1>17. Writing(c)'
    <2>1. ((x.value + (ticks - x.set)) - Late(x))' = (x.value + (ticks - x.set)) - Late(y)
      BY <1>1, <1>4, <1>5 DEF Late
    <2>2. x.set' <= ticks'
      BY <1>1, <1>4, <1>5, <1>6
    <2> QED BY <1>5, <1>12, <2>1, <2>2 DEF Writing, Word
  <1>18. Holding(c)' /\ Asked(call[c])'
    BY <1>3, <1>4, <1>5, <1>15, <1>16, <1>17 DEF Holding, Asked
  <1>19. \A d \in Callers \ {c} : pc'[d] = pc[d] /\ call'[d] = call[d]
    BY <1>1, <1>2
  <1> QED BY <1>3, <1>5, <1>14, <1>18, <1>19, OneSteps

LEMMA StepWriteTI == ASSUME PtpInv, NEW c \in Callers, WriteTI(c) PROVE PtpInv'
  <1> DEFINE x == call[c]
  <1>1. /\ pc[c] = "write_ti" /\ pc' = [pc EXCEPT ![c] = "write_tisubn"]
        /\ ti' = Nano(TicksScale(x.arg))
        /\ UNCHANGED <<tn, tsl, tisubn, holder, call, ticks, calls, leaked>>
    BY DEF WriteTI, hist
  <1>2. /\ call \in [Callers -> CallType] /\ pc \in [Callers -> Steps]
    BY DEF PtpInv, PtpTypeInv, TypeOK
  <1>3. /\ x \in CallType /\ Asked(x) /\ Running(c) /\ Placed(c) /\ x.op = "adjfine"
    BY <1>1, CallerFacts DEF Running, Placed
  <1>4. pc'[c] = "write_tisubn" /\ pc' \in [Callers -> Steps] /\ call' = call
    BY <1>1, <1>2 DEF Steps
  <1>5. ti' \in 0..255
    <2>1. PICK f, z, d : /\ f \in EitherWay(Freqs) /\ f = x.arg
                         /\ z = TicksScale(f) /\ d = DiffB24(f)
      BY <1>3 DEF Asked
    <2>2. Nano(z) \in 0..255
      BY <2>1, ScaleParts
    <2> QED BY <1>1, <2>1, <2>2
  <1>6. TypeOK'
    BY <1>1, <1>4, <1>5 DEF PtpInv, PtpTypeInv, TypeOK
  <1>7. Placed(c)' /\ Reading(c)' /\ Writing(c)' /\ Scaling(c)'
    BY <1>1, <1>3, <1>4 DEF Placed, Reading, Writing, Scaling, Returning
  <1>8. Holding(c)' /\ Asked(call[c])'
    BY <1>3, <1>4, <1>7 DEF Holding, Asked
  <1>9. \A d \in Callers \ {c} : pc'[d] = pc[d] /\ call'[d] = call[d]
    BY <1>1, <1>2
  <1> QED BY <1>2, <1>3, <1>4, <1>6, <1>8, <1>9, OneSteps

LEMMA StepWriteTISUBN == ASSUME PtpInv, NEW c \in Callers, WriteTISUBN(c) PROVE PtpInv'
  <1> DEFINE x == call[c]
  <1>1. /\ pc[c] = "write_tisubn" /\ pc' = [pc EXCEPT ![c] = "unlock"]
        /\ tisubn' = Subnano(TicksScale(x.arg))
        /\ UNCHANGED <<tn, tsl, ti, holder, call, ticks, calls, leaked>>
    BY DEF WriteTISUBN, hist
  <1>2. /\ call \in [Callers -> CallType] /\ pc \in [Callers -> Steps]
    BY DEF PtpInv, PtpTypeInv, TypeOK
  <1>3. /\ x \in CallType /\ Asked(x) /\ Running(c) /\ Placed(c) /\ x.op = "adjfine"
        /\ Scaling(c)
    BY <1>1, CallerFacts DEF Running, Placed
  <1>4. pc'[c] = "unlock" /\ pc' \in [Callers -> Steps] /\ call' = call
    BY <1>1, <1>2 DEF Steps
  <1>5. tisubn' \in (0..2^16 - 1) \X (0..2^8 - 1)
    <2>1. PICK f, z, d : /\ f \in EitherWay(Freqs) /\ f = x.arg
                         /\ z = TicksScale(f) /\ d = DiffB24(f)
      BY <1>3 DEF Asked
    <2>2. Subnano(z) \in (0..2^16 - 1) \X (0..2^8 - 1)
      BY <2>1, ScaleParts, Zenon
    <2> QED BY <1>1, <2>1, <2>2, Zenon
  <1>6. TypeOK'
    BY <1>1, <1>4, <1>5 DEF PtpInv, PtpTypeInv, TypeOK
  <1>7. Placed(c)' /\ Reading(c)' /\ Writing(c)' /\ Scaling(c)'
    BY <1>1, <1>3, <1>4 DEF Placed, Reading, Writing, Scaling, Returning
  <1>8. Holding(c)' /\ Asked(call[c])'
    BY <1>3, <1>4, <1>7 DEF Holding, Asked
  <1>9. \A d \in Callers \ {c} : pc'[d] = pc[d] /\ call'[d] = call[d]
    BY <1>1, <1>2
  <1> QED BY <1>2, <1>3, <1>4, <1>6, <1>8, <1>9, OneSteps

LEMMA StepWriteFails == ASSUME PtpInv, NEW c \in Callers, WriteFails(c) PROVE PtpInv'
  <1> DEFINE x == call[c]
             y == [x EXCEPT !.failed = TRUE]
             p == IF pc[c] = "write_ti" THEN "write_tisubn" ELSE "unlock"
  <1>1. /\ pc[c] \in {"write_tn", "write_tsl", "write_ti", "write_tisubn"}
        /\ pc' = [pc EXCEPT ![c] = p] /\ call' = [call EXCEPT ![c] = y]
        /\ UNCHANGED <<tn, tsl, ti, tisubn, holder, ticks, calls, leaked>>
    BY DEF WriteFails, mac, hist
  <1>2. /\ call \in [Callers -> CallType] /\ pc \in [Callers -> Steps]
    BY DEF PtpInv, PtpTypeInv, TypeOK
  <1>3. Running(c)
    BY <1>1 DEF Running
  <1>4. /\ x \in CallType /\ Asked(x) /\ Placed(c)
    BY <1>3, CallerFacts
  <1>5. /\ y \in CallType /\ y.op = x.op /\ y.arg = x.arg /\ y.value = x.value /\ y.failed = TRUE
    BY <1>4 DEF CallType
  <1> HIDE DEF y
  <1>6. call'[c] = y /\ call' \in [Callers -> CallType] /\ pc'[c] = p /\ pc' \in [Callers -> Steps]
    BY <1>1, <1>2, <1>5 DEF Steps
  <1>7. TypeOK'
    BY <1>1, <1>6 DEF PtpInv, PtpTypeInv, TypeOK
  <1>8. Placed(c)' /\ Reading(c)' /\ Writing(c)' /\ Scaling(c)'
    BY <1>1, <1>4, <1>5, <1>6 DEF Placed, Reading, Writing, Scaling, Returning
  <1>9. Holding(c)' /\ Asked(call[c])'
    BY <1>4, <1>5, <1>6, <1>8 DEF Holding, Asked
  <1>10. \A d \in Callers \ {c} : pc'[d] = pc[d] /\ call'[d] = call[d]
    BY <1>1, <1>2
  <1> QED BY <1>3, <1>6, <1>7, <1>9, <1>10, OneSteps

LEMMA StepUnlock == ASSUME PtpInv, NEW c \in Callers, Unlock(c) PROVE PtpInv'
  <1>1. /\ pc[c] = "unlock" /\ pc' = [pc EXCEPT ![c] = "idle"] /\ holder' = NULL
        /\ call' = [call EXCEPT ![c] = NoCall] /\ ticks' = 0
        /\ UNCHANGED <<tn, tsl, ti, tisubn, calls, leaked>>
    BY DEF Unlock, mac
  <1>2. /\ call \in [Callers -> CallType] /\ pc \in [Callers -> Steps]
    BY DEF PtpInv, PtpTypeInv, TypeOK
  <1>3. NoCall \in CallType /\ Asked(NoCall)
    BY Constants, SMT DEF NoCall, CallType, Ops, Unknown, Asked
  <1>4. call'[c] = NoCall /\ call' \in [Callers -> CallType] /\ pc'[c] = "idle"
        /\ pc' \in [Callers -> Steps]
    BY <1>1, <1>2, <1>3 DEF Steps
  <1>5. ticks' \in 0..MaxTicks
    BY <1>1, Constants, SMT
  <1>6. TypeOK'
    BY <1>1, <1>4, <1>5 DEF PtpInv, PtpTypeInv, TypeOK
  <1>7. Holding(c)' /\ Asked(call[c])'
    BY <1>3, <1>4 DEF Holding, Running, Asked
  <1>8. \A d \in Callers \ {c} : pc'[d] = pc[d] /\ call'[d] = call[d]
    BY <1>1, <1>2
  <1>9. Running(c)
    BY <1>1 DEF Running
  <1> QED BY <1>4, <1>6, <1>7, <1>8, <1>9, OneSteps

LEMMA PtpStutter == PtpInv /\ UNCHANGED vars => PtpInv'
  <1> SUFFICES ASSUME PtpInv, UNCHANGED vars PROVE PtpInv'
    OBVIOUS
  <1>1. UNCHANGED <<tn, tsl, ti, tisubn, holder, pc, call, ticks, calls, leaked>>
    BY DEF vars
  <1>2. \A c \in Callers : Holding(c)' /\ (Asked(call[c]) => Asked(call[c])')
    BY <1>1, OthersUnmoved DEF PtpInv, mac
  <1>3. TypeOK' /\ call' \in [Callers -> CallType]
    BY <1>1 DEF PtpInv, PtpTypeInv, TypeOK
  <1> QED BY <1>2, <1>3 DEF PtpInv, PtpTypeInv

LEMMA PtpNext == PtpInv /\ [Next]_vars => PtpInv'
  <1> SUFFICES ASSUME PtpInv, [Next]_vars PROVE PtpInv'
    OBVIOUS
  <1>1. CASE Tick
    BY <1>1, StepTick
  <1>2. ASSUME NEW c \in Callers, Begin(c) \/ Step(c) PROVE PtpInv'
    BY <1>2, StepBegin, StepLock, StepReadTN, StepReadTSL, StepReadFails, StepWriteTN,
       StepWriteTSL, StepWriteTI, StepWriteTISUBN, StepWriteFails, StepUnlock DEF Step
  <1>3. CASE UNCHANGED vars
    BY <1>3, PtpStutter
  <1> QED BY <1>1, <1>2, <1>3 DEF Next

LEMMA PtpInvariant == Spec => []PtpInv
  BY PtpInit, PtpNext, PTL DEF Spec

-----------------------------------------------------------------------------
(* What follows from it. *)

\* The clock registers, the increment and its fraction keep the width they have in
\* the MAC-PHY, whatever time, offset or share is asked for.
THEOREM ClockTyping == Spec => []TypeOK
  <1>1. PtpInv => TypeOK
    BY DEF PtpInv, PtpTypeInv
  <1> QED BY <1>1, PtpInvariant, PTL

\* gettimex64 reports a time at which the clock stood, or one less than a second
\* ahead when a second began between its two reads.
THEOREM ReadingsHold == Spec => []ReadingTrue
  <1>1. PtpInv => ReadingTrue
    <2> SUFFICES ASSUME PtpInv, NEW c \in Callers, Returning(c, "gettimex64")
                 PROVE  LET x == call[c]
                        IN IF Carried(x)
                           THEN (x.value - x.from) % Word < ((x.to - x.from) % Word) + Second
                           ELSE x.value = x.from
      BY DEF ReadingTrue
    <2>1. Running(c)
      BY DEF Returning, Running
    <2>2. Read(call[c].from, call[c].to, call[c].value)
      BY <2>1, CallerFacts DEF Reading
    <2> QED BY <2>2 DEF Read, ReadOf, Carried
  <1> QED BY <1>1, PtpInvariant, PTL

\* A clock set to a time, as far as it can hold it, is congruent to that time.
LEMMA Landed ==
    ASSUME NEW W \in Nat \ {0}, NEW y \in Int
    PROVE  ((y % W) - y) % W = 0
  <1>1. PICK z \in Int, o \in 0..W - 1 : z = -y /\ o = 0
    BY SMT
  <1>2. ((y % W) + z) % W = (y + z) % W
    BY ModShift
  <1>3. (y % W) - y = (y % W) + z /\ y + z = o
    <2>1. y % W \in Int
      BY SMT
    <2> QED BY <1>1, <2>1, SMT
  <1> QED BY <1>1, <1>2, <1>3, Below

\* settime64 leaves the clock at the time asked for plus what has passed since, and
\* adjtime moves it by the offset asked for unless that is before time 0, each off by
\* a second exactly for a second that began between two of its register accesses;
\* no other caller gets in between.
THEOREM SettingsLand == Spec => []WritesLand
  <1>1. PtpInv => WritesLand
    <2> SUFFICES ASSUME PtpInv, NEW c \in Callers
                 PROVE  LET x == call[c]  passed == ticks - x.set
                            late == IF x.split THEN Second ELSE 0
                            read == (x.from + IF Carried(x) THEN Second ELSE 0) % Word
                        IN /\ Returning(c, "settime64") =>
                                (Clock - (x.arg + passed - late)) % Word = 0
                           /\ Returning(c, "adjtime") /\ read + x.arg >= 0 =>
                                (Clock - (read + x.arg + passed - late)) % Word = 0
      BY DEF WritesLand
    <2> DEFINE x == call[c]
               passed == ticks - x.set
               late == IF x.split THEN Second ELSE 0
               read == (x.from + IF Carried(x) THEN Second ELSE 0) % Word
    <2>1. /\ x \in CallType /\ Asked(x) /\ ticks \in 0..MaxTicks
          /\ Running(c) => Reading(c) /\ Writing(c)
      BY CallerFacts
    <2>2. /\ x.arg \in Int /\ x.from \in 0..Word - 1 /\ x.value \in 0..Counter - 1
          /\ passed \in Int /\ late \in Int
      BY <2>1, Constants, SMT DEF CallType, Late
    <2>3. PICK W \in Nat \ {0} : W = Word
      BY Constants
    <2>4. ASSUME NEW v \in Int, x.value = v,
                 Returning(c, "settime64") \/ Returning(c, "adjtime")
          PROVE  (Clock - (v + passed - late)) % Word = 0
      <3>1. PICK y \in Int : y = v + passed - late /\ y = (v + passed) - late
        BY <2>2, SMT
      <3>2. Clock = ((v + passed) - late) % Word
        BY <2>1, <2>4 DEF Writing, Running, Returning, Late
      <3>3. Clock = y % W
        BY <2>3, <3>1, <3>2
      <3> QED BY <2>3, <3>1, <3>3, Landed
    <2>5. ASSUME Returning(c, "settime64")
          PROVE  (Clock - (x.arg + passed - late)) % Word = 0
      <3>1. x.value = x.arg
        BY <2>1, <2>5 DEF Asked, Returning
      <3> QED BY <2>2, <2>4, <2>5, <3>1
    <2>6. ASSUME Returning(c, "adjtime"), read + x.arg >= 0
          PROVE  (Clock - (read + x.arg + passed - late)) % Word = 0
      <3>1. PICK got \in 0..Word - 1 :
              Read(x.from, x.to, got) /\ x.value = (got + x.arg) % Counter
        BY <2>1, <2>6 DEF Reading, Running, Returning
      <3>2. got = read
        <4>1. CASE Carried(x)
          BY <3>1, <4>1 DEF Carried, Read, ReadOf
        <4>2. CASE ~Carried(x)
          <5>1. got = x.from
            BY <3>1, <4>2 DEF Carried, Read, ReadOf
          <5>2. PICK o \in 0..W - 1 : o = x.from /\ x.from + 0 = o
            BY <2>2, <2>3, Constants, SMT
          <5>3. o % W = o
            BY <5>2, Below
          <5> QED BY <2>3, <4>2, <5>1, <5>2, <5>3
        <4> QED BY <4>1, <4>2
      <3>3. x.value = got + x.arg
        <4>1. PICK d \in Deltas : x.arg = d \/ x.arg = -d
          BY <2>1, <2>6 DEF Asked, Returning, EitherWay
        <4>2. d \in Nat /\ Word + d <= Counter
          BY PtpAssumption
        <4>3. PICK N \in Nat \ {0} : N = Counter
          BY Constants
        <4>6. PICK a \in Int : a = got + x.arg
          BY <2>2, Constants, SMT
        <4>4. a \in 0..N - 1
          BY <2>2, <2>6, <3>2, <4>1, <4>2, <4>3, <4>6, Constants, SMT
        <4>5. a % N = a
          BY <4>4, Below
        <4> QED BY <3>1, <4>3, <4>5, <4>6
      <3>4. got + x.arg \in Int
        BY <2>2, <3>1, Constants, SMT
      <3> QED BY <2>4, <2>6, <3>2, <3>3, <3>4
    <2> QED BY <2>5, <2>6
  <1> QED BY <1>1, PtpInvariant, PTL

\* adjfine: the increment the MAC-PHY applies then is 40 ns moved by the share asked
\* for, rounded down in its last bit and in the direction asked for.
THEOREM RatesHold == Spec => []RateAsAsked
  <1>1. PtpInv => RateAsAsked
    <2> SUFFICES ASSUME PtpInv, NEW c \in Callers, Returning(c, "adjfine"), call[c].arg # 0
                 PROVE  LET moved == IF call[c].arg < 0 THEN Base - Rate ELSE Rate - Base
                        IN  3125 * moved <= 32 * Abs(call[c].arg)
                            /\ 32 * Abs(call[c].arg) < 3125 * (moved + 1)
      BY DEF RateAsAsked
    <2>1. Asked(call[c]) /\ Scaling(c)
      <3>1. Running(c)
        BY DEF Running, Returning
      <3> QED BY <3>1, CallerFacts
    <2>2. PICK f, z, d :
            f \in EitherWay(Freqs) /\ f = call[c].arg /\ z = TicksScale(f) /\ d = DiffB24(f)
      BY <2>1 DEF Asked, Returning
    <2>3. ti = Nano(z) /\ tisubn = Subnano(z)
      BY <2>1, <2>2 DEF Scaling
    <2>4. /\ f \in Int /\ d \in Nat /\ z = (IF f < 0 THEN Base - d ELSE Base + d)
          /\ RoundedDown(Abs(f), d)
          /\ Nano(z) * 2^24 + Subnano(z)[1] * 2^8 + Subnano(z)[2] = z
      BY <2>2, ScaleParts, Zenon
    <2>5. Rate = z
      BY <2>3, <2>4, Zenon DEF Rate
    <2>6. Base \in Int
      BY Powers, SMT DEF Base
    <2>7. (IF f < 0 THEN Base - Rate ELSE Rate - Base) = d
      BY <2>4, <2>5, <2>6, SMT
    <2>8. 3125 * d <= 32 * Abs(f) /\ 32 * Abs(f) < 3125 * (d + 1)
      BY <2>4, SMT DEF RoundedDown
    <2> QED BY <2>2, <2>7, <2>8, SMT
  <1> QED BY <1>1, PtpInvariant, PTL

-----------------------------------------------------------------------------
(* The lock that is not given back. *)

\* What an adjtime by nothing leaves behind: the lock taken, and nobody in a call
\* who would give it back.
JamInv == leaked => holder # NULL /\ \A c \in Callers : ~Running(c)

\* From then on only the clock itself goes on: the lock keeps its holder, the rate
\* cannot be changed any more, the time runs by ticks, and who waits keeps waiting.
StaysJammed ==
  leaked => /\ leaked' /\ UNCHANGED <<holder, ti, tisubn>>
            /\ UNCHANGED <<tn, tsl>> \/ Tick
            /\ \A c \in Callers : pc[c] = "lock" => pc'[c] = "lock"

\* Nobody past the lock takes a step once nobody is there.
LEMMA StepsBehindLock ==
    ASSUME NEW c \in Callers, Step(c)
    PROVE  Running(c) \/ (Lock(c) /\ pc[c] = "lock" /\ holder = NULL /\ holder' = c)
  <1>1. CASE Lock(c)
    BY <1>1 DEF Lock, Free
  <1>2. CASE ~Lock(c)
    <2>1. pc[c] \in {"read_tn", "read_tsl", "write_tn", "write_tsl", "write_ti", "write_tisubn",
                     "unlock"}
      BY <1>2 DEF Step, ReadTN, ReadTSL, ReadFails, WriteTN, WriteTSL, WriteTI, WriteTISUBN,
                  WriteFails, Unlock
    <2> QED BY <2>1 DEF Running
  <1> QED BY <1>1, <1>2

\* With the lock left taken, only ticks and the beginnings of calls are possible.
LEMMA OnlyWaiting == JamInv /\ leaked /\ [Next]_vars => StaysJammed /\ JamInv' 
  <1> SUFFICES ASSUME JamInv, leaked, [Next]_vars PROVE StaysJammed /\ JamInv'
    OBVIOUS
  <1>1. holder # NULL /\ \A c \in Callers : ~Running(c)
    BY DEF JamInv
  <1>2. CASE Tick
    <2>1. UNCHANGED <<ti, tisubn, holder, pc, leaked>>
      BY <1>2 DEF Tick
    <2> QED BY <1>1, <1>2, <2>1 DEF StaysJammed, JamInv, Running
  <1>3. ASSUME NEW c \in Callers, Begin(c) PROVE StaysJammed /\ JamInv'
    <2>1. /\ pc[c] = "idle" /\ pc' = [pc EXCEPT ![c] = "lock"]
          /\ UNCHANGED <<tn, tsl, ti, tisubn, holder, leaked>>
      BY <1>3 DEF Begin, mac
    <2>2. \A d \in Callers : pc'[d] \in {pc[d], "lock"}
      BY <2>1
    <2> QED BY <1>1, <2>1, <2>2 DEF StaysJammed, JamInv, Running
  <1>4. ASSUME NEW c \in Callers, Step(c) PROVE FALSE
    BY <1>1, <1>4, StepsBehindLock
  <1>5. CASE UNCHANGED vars
    BY <1>1, <1>5 DEF vars, StaysJammed, JamInv, Running
  <1> QED BY <1>2, <1>3, <1>4, <1>5 DEF Next

\* The lock is left taken by a step that found nobody past it.
LEMMA JamBegins == PtpInv /\ ~leaked /\ [Next]_vars => JamInv'
  <1> SUFFICES ASSUME PtpInv, ~leaked, [Next]_vars, leaked' PROVE JamInv'
    BY DEF JamInv
  <1>1. PICK c \in Callers : Lock(c) /\ call[c].op = "adjtime" /\ call[c].arg = 0
    BY DEF Next, Step, Tick, Begin, Lock, ReadTN, ReadTSL, ReadFails, WriteTN, WriteTSL, WriteTI,
           WriteTISUBN, WriteFails, Unlock, hist, vars
  <1>2. holder = NULL /\ holder' = c /\ pc' = [pc EXCEPT ![c] = "idle"]
    BY <1>1 DEF Lock, Free, AfterLock
  <1>3. \A d \in Callers : ~Running(d)
    BY <1>2, Constants DEF PtpInv, Holding, Placed
  <1>4. \A d \in Callers : pc'[d] \in {pc[d], "idle"}
    BY <1>2 DEF PtpInv, PtpTypeInv, TypeOK
  <1> QED BY <1>2, <1>3, <1>4, Constants DEF JamInv, Running

\* An adjtime by nothing (lan865x_ptp.c:138) ends the use of the clock for good: no
\* call that waits for the lock or comes later ever gets it, so that no time and no
\* rate is set or read again.
THEOREM ClockJams == Spec => [][StaysJammed]_vars
  <1>1. Init => JamInv
    BY DEF Init, JamInv
  <1>2. PtpInv /\ JamInv /\ [Next]_vars => JamInv'
    BY OnlyWaiting, JamBegins
  <1>3. JamInv /\ [Next]_vars => [StaysJammed]_vars
    BY OnlyWaiting DEF StaysJammed
  <1> QED BY <1>1, <1>2, <1>3, PtpInvariant, PTL DEF Spec

\* No other path through a call, failing register accesses included, returns with
\* ptpdev->lock held: an adjtime by nothing is the only one (lan865x_ptp.c:138).
THEOREM LockGivenBack == Spec => []InTheCall
  <1>1. Init => InTheCall
    BY DEF Init, InTheCall
  <1>2. PtpInv /\ InTheCall /\ [Next]_vars => InTheCall'
    <2> SUFFICES ASSUME PtpInv, InTheCall, [Next]_vars, holder' # NULL, ~leaked'
                 PROVE  holder' \in Callers /\ Running(holder)'
      BY DEF InTheCall
    <2>1. pc \in [Callers -> Steps]
      BY DEF PtpInv, PtpTypeInv, TypeOK
    <2>2. CASE Tick \/ UNCHANGED vars
      BY <2>2 DEF Tick, vars, InTheCall, Running
    <2>3. ASSUME NEW c \in Callers, Begin(c)
          PROVE  holder' \in Callers /\ Running(holder)'
      <3>1. /\ UNCHANGED <<holder, leaked>> /\ pc[c] = "idle"
            /\ pc' = [pc EXCEPT ![c] = "lock"]
        BY <2>3 DEF Begin
      <3>2. holder \in Callers /\ Running(holder)
        BY <3>1 DEF InTheCall
      <3> QED BY <2>1, <3>1, <3>2 DEF Running
    <2>4. ASSUME NEW c \in Callers, Lock(c)
          PROVE  holder' \in Callers /\ Running(holder)'
      <3>1. /\ holder' = c /\ pc' = [pc EXCEPT ![c] = AfterLock(call[c])]
            /\ ~(call[c].op = "adjtime" /\ call[c].arg = 0)
        BY <2>4 DEF Lock
      <3>2. AfterLock(call[c]) \in {"read_tn", "write_tn", "unlock", "write_ti"}
        BY <3>1 DEF AfterLock
      <3> QED BY <2>1, <3>1, <3>2 DEF Running
    <2>5. ASSUME NEW c \in Callers, Step(c), ~Lock(c)
          PROVE  holder' \in Callers /\ Running(holder)'
      <3>1. ~Unlock(c)
        BY DEF Unlock
      <3>2. PICK p \in Steps \ {"idle", "lock"} :
              UNCHANGED <<holder, leaked>> /\ pc' = [pc EXCEPT ![c] = p]
        BY <2>5, <3>1 DEF Step, ReadTN, ReadTSL, ReadFails, WriteTN, WriteTSL, WriteTI,
                          WriteTISUBN, WriteFails, Finish, Steps, hist
      <3>3. holder \in Callers /\ Running(holder)
        BY <3>2 DEF InTheCall
      <3> QED BY <2>1, <3>2, <3>3 DEF Running
    <2> QED BY <2>2, <2>3, <2>4, <2>5 DEF Next
  <1> QED BY <1>1, <1>2, PtpInvariant, PTL DEF Spec
=============================================================================
