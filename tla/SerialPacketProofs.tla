------------------------- MODULE SerialPacketProofs -------------------------
(***************************************************************************)
(* What the port's crc16, byte order and base64 promise each other, for every  *)
(* payload: the CRC is the remainder that the protocol asks for, it can be     *)
(* computed in parts, that of data with its own CRC is 0, a length in network  *)
(* order is read back as it was, and so a packet that arrives as it was sent   *)
(* is accepted, one with a burst of flipped bits is none any more, none whose  *)
(* length arrives is taken for another one, and nothing is decoded past the    *)
(* buffer.                                                                     *)
(***************************************************************************)
EXTENDS SerialPacket, SequenceTheorems, NaturalsInduction, WellFoundedInduction, TLAPS

-----------------------------------------------------------------------------
(* Induction, over a set instead of a predicate *)

Below == {ss \in Nat \X Nat : ss[1] < ss[2]}

\* A set of numbers has a least one.
LEMMA LeastElement ==
    ASSUME NEW T \in SUBSET Nat, T # {}
    PROVE  \E x \in T : \A y \in T : x <= y
<1>1. IsWellFoundedOn(Below, Nat)
  BY NatLessThanWellFounded DEF OpToRel, Below
<1>2. \E x \in T : \A y \in T : ~(<<y, x>> \in Below)
  BY <1>1, WFMin
<1>3. \A x, y \in Nat : <<y, x>> \in Below <=> y < x
  BY DEF Below
<1> HIDE DEF Below
<1>4. \A x, y \in Nat : ~(y < x) => x <= y
  OBVIOUS
<1> QED
  BY <1>2, <1>3, <1>4

\* The induction over the natural numbers that every loop below needs: over a
\* set and not a predicate, so that the provers can use it.
LEMMA SetInduction ==
    ASSUME NEW T, 0 \in T, \A n \in Nat : n \in T => n + 1 \in T
    PROVE  Nat \subseteq T
<1> SUFFICES ASSUME Nat \ T # {} PROVE FALSE
  OBVIOUS
<1>1. PICK x \in Nat \ T : \A y \in Nat \ T : x <= y
  BY LeastElement
<1>2. x # 0 /\ x - 1 \in Nat
  OBVIOUS
<1>3. x - 1 \in T
  BY <1>1, <1>2
<1> QED
  BY <1>1, <1>2, <1>3

\* A loop that runs N times over a state in S, starting from x.
IsLoop(f, N, x, F) ==
    f = [k \in 0..N |-> IF k = 0 THEN x ELSE F[k][f[k - 1]]]

\* Such a loop has a value after each of its rounds. A recursive function is a
\* CHOOSE: what it computes is known only where it is known to exist.
LEMMA LoopExists ==
    ASSUME NEW N \in Nat, NEW S, NEW x \in S, NEW F \in [1..N -> [S -> S]]
    PROVE  \E f \in [0..N -> S] : IsLoop(f, N, x, F)
<1> DEFINE T == {n \in Nat : n <= N => \E f \in [0..n -> S] : IsLoop(f, n, x, F)}
<1>1. 0 \in T
  <2> DEFINE f == [k \in 0..0 |-> x]
  <2>1. f \in [0..0 -> S] /\ IsLoop(f, 0, x, F)
    BY DEF IsLoop
  <2> QED
    BY <2>1
<1>2. ASSUME NEW n \in Nat, n \in T PROVE n + 1 \in T
  <2> SUFFICES ASSUME n + 1 <= N
               PROVE  \E f \in [0..(n + 1) -> S] : IsLoop(f, n + 1, x, F)
    OBVIOUS
  <2>1. PICK f \in [0..n -> S] : IsLoop(f, n, x, F)
    BY <1>2
  <2> DEFINE last == F[n + 1][f[n]]
             g == [k \in 0..(n + 1) |-> IF k = n + 1 THEN last ELSE f[k]]
  <2>2. last \in S
    <3>1. n + 1 \in 1..N /\ f[n] \in S
      OBVIOUS
    <3> QED
      BY <3>1
  <2>3. g \in [0..(n + 1) -> S]
    <3> HIDE DEF last
    <3>1. \A k \in 0..(n + 1) : k # n + 1 => f[k] \in S
      OBVIOUS
    <3> QED
      BY <2>2, <3>1
  <2>4. \A k \in 0..(n + 1) : g[k] = IF k = 0 THEN x ELSE F[k][g[k - 1]]
    <3> SUFFICES ASSUME NEW k \in 0..(n + 1)
                 PROVE  g[k] = IF k = 0 THEN x ELSE F[k][g[k - 1]]
      OBVIOUS
    <3>1. CASE k = n + 1
      <4>1. g[k] = last /\ k # 0 /\ k - 1 = n /\ n \in 0..(n + 1) /\ n # n + 1
        BY <3>1
      <4>2. g[n] = f[n]
        BY <4>1
      <4> HIDE DEF g
      <4> QED
        BY <3>1, <4>1, <4>2
    <3>2. CASE k # n + 1
      <4>1. k \in 0..n /\ (k # 0 => k - 1 \in 0..n /\ k - 1 # n + 1)
        BY <3>2
      <4>2. f[k] = IF k = 0 THEN x ELSE F[k][f[k - 1]]
        BY <2>1, <4>1 DEF IsLoop
      <4>3. g[k] = f[k] /\ (k # 0 => g[k - 1] = f[k - 1])
        BY <3>2, <4>1
      <4> HIDE DEF g
      <4> QED
        BY <4>2, <4>3
    <3> QED
      BY <3>1, <3>2
  <2>5. IsLoop(g, n + 1, x, F)
    <3> HIDE DEF g
    <3> QED
      BY <2>3, <2>4 DEF IsLoop
  <2> QED
    BY <2>3, <2>5
<1>3. N \in T
  <2> HIDE DEF T
  <2> QED
    BY <1>1, <1>2, SetInduction
<1> QED
  BY <1>3

\* What each round keeps holds after every round.
LEMMA LoopTyped ==
    ASSUME NEW N \in Nat, NEW S, NEW f, f[0] \in S,
           \A k \in 1..N : f[k - 1] \in S => f[k] \in S
    PROVE  \A k \in 0..N : f[k] \in S
<1> DEFINE T == {n \in Nat : n <= N => f[n] \in S}
<1>1. 0 \in T
  OBVIOUS
<1>2. ASSUME NEW n \in Nat, n \in T PROVE n + 1 \in T
  <2> SUFFICES ASSUME n + 1 <= N PROVE f[n + 1] \in S
    OBVIOUS
  <2>1. f[n] \in S /\ n + 1 \in 1..N /\ (n + 1) - 1 = n
    BY <1>2
  <2> QED
    BY <2>1
<1>3. Nat \subseteq T
  <2> HIDE DEF T
  <2> QED
    BY <1>1, <1>2, SetInduction
<1> QED
  BY <1>3

-----------------------------------------------------------------------------
(* The CRC *)

\* The CRC stays in 16 bits: the shift is cut.
LEMMA ShiftWord ==
    ASSUME NEW crc \in Word
    PROVE  Shift(crc) \in Word
  BY DEF Shift, Word

\* The byte goes to the upper half of the CRC.
LEMMA FirstWord ==
    ASSUME NEW crc \in Word, NEW byte \in Byte
    PROVE  SymDiff(crc, ShiftLeft(byte, 8)) \in Word
<1>1. \A b \in byte : b + 8 \in 0..15
  BY DEF Byte
<1>2. ShiftLeft(byte, 8) \subseteq 0..15
  BY <1>1 DEF ShiftLeft
<1> QED
  BY <1>2 DEF Word, SymDiff

\* A byte is eight shifts (crc16_port.c:12-14).
LEMMA WithByteSteps ==
    ASSUME NEW crc \in Word, NEW byte \in Byte
    PROVE  \E s \in [0..8 -> Word] :
              /\ s[0] = SymDiff(crc, ShiftLeft(byte, 8))
              /\ \A j \in 1..8 : s[j] = Shift(s[j - 1])
              /\ WithByte(crc, byte) = s[8]
<1> DEFINE x == SymDiff(crc, ShiftLeft(byte, 8))
           P(f) == f = [j \in 0..8 |-> IF j = 0 THEN x ELSE Shift(f[j - 1])]
           F == [j \in 1..8 |-> [c \in Word |-> Shift(c)]]
           s == CHOOSE f : P(f)
<1>1. x \in Word
  BY FirstWord
<1>2. WithByte(crc, byte) = s[8]
  BY DEF WithByte
<1> HIDE DEF x
<1>3. F \in [1..8 -> [Word -> Word]]
  BY ShiftWord
<1>4. PICK g \in [0..8 -> Word] : IsLoop(g, 8, x, F)
  <2> HIDE DEF F
  <2> QED
    BY <1>1, <1>3, LoopExists
<1>5. P(g)
  <2>1. \A j \in 0..8 : g[j] = IF j = 0 THEN x ELSE F[j][g[j - 1]]
    <3> HIDE DEF F
    <3> QED
      BY <1>4 DEF IsLoop
  <2>2. \A j \in 1..8 : g[j - 1] \in Word /\ F[j][g[j - 1]] = Shift(g[j - 1])
    BY <1>4
  <2> HIDE DEF F
  <2>3. \A j \in 0..8 : g[j] = IF j = 0 THEN x ELSE Shift(g[j - 1])
    BY <2>1, <2>2
  <2> QED
    BY <1>4, <2>3
<1>6. P(s)
  BY <1>5, Zenon
<1> HIDE DEF s
<1>7. s[0] = x /\ \A j \in 1..8 : s[j] = Shift(s[j - 1])
  <2>1. \A j \in 0..8 : s[j] = IF j = 0 THEN x ELSE Shift(s[j - 1])
    BY <1>6, Zenon
  <2> QED
    BY <2>1
<1>8. \A j \in 0..8 : s[j] \in Word
  BY <1>1, <1>7, ShiftWord, LoopTyped
<1>9. s \in [0..8 -> Word]
  <2>1. s = [j \in 0..8 |-> s[j]]
    BY <1>6
  <2> QED
    BY <1>8, <2>1
<1> QED
  BY <1>2, <1>7, <1>9 DEF x

\* The CRC with a byte has 16 bits.
LEMMA WithByteWord ==
    ASSUME NEW crc \in Word, NEW byte \in Byte
    PROVE  WithByte(crc, byte) \in Word
  BY WithByteSteps

\* The CRC is a loop over the bytes.
IsCrc(f, crc, data) ==
    /\ f \in [0..Len(data) -> Word]
    /\ f[0] = crc
    /\ \A i \in 1..Len(data) : f[i] = WithByte(f[i - 1], data[i])

\* crc16_port_ccitt is the loop over the bytes (crc16_port.c:7-16).
LEMMA CrcSteps ==
    ASSUME NEW crc \in Word, NEW data \in Seq(Byte)
    PROVE  \E f : IsCrc(f, crc, data) /\ crc16_port_ccitt(crc, data) = f[Len(data)]
<1> DEFINE N == Len(data)
           P(f) == f = [i \in 0..N |-> IF i = 0 THEN crc ELSE WithByte(f[i - 1], data[i])]
           F == [i \in 1..N |-> [c \in Word |-> WithByte(c, data[i])]]
           s == CHOOSE f : P(f)
<1>1. N \in Nat /\ \A i \in 1..N : data[i] \in Byte
  OBVIOUS
<1>2. crc16_port_ccitt(crc, data) = s[N]
  BY DEF crc16_port_ccitt
<1> HIDE DEF N
<1>3. F \in [1..N -> [Word -> Word]]
  BY <1>1, WithByteWord
<1>4. PICK g \in [0..N -> Word] : IsLoop(g, N, crc, F)
  <2> HIDE DEF F
  <2> QED
    BY <1>1, <1>3, LoopExists
<1>5. P(g)
  <2>1. \A i \in 0..N : g[i] = IF i = 0 THEN crc ELSE F[i][g[i - 1]]
    <3> HIDE DEF F
    <3> QED
      BY <1>4 DEF IsLoop
  <2>2. \A i \in 1..N : g[i - 1] \in Word /\ F[i][g[i - 1]] = WithByte(g[i - 1], data[i])
    BY <1>1, <1>4
  <2> HIDE DEF F
  <2>3. \A i \in 0..N : g[i] = IF i = 0 THEN crc ELSE WithByte(g[i - 1], data[i])
    BY <1>1, <2>1, <2>2
  <2> QED
    BY <1>4, <2>3
<1>6. P(s)
  BY <1>5, Zenon
<1> HIDE DEF s
<1>7. s[0] = crc /\ \A i \in 1..N : s[i] = WithByte(s[i - 1], data[i])
  <2>1. \A i \in 0..N : s[i] = IF i = 0 THEN crc ELSE WithByte(s[i - 1], data[i])
    BY <1>6, Zenon
  <2> QED
    BY <1>1, <2>1
<1>8. \A i \in 0..N : s[i] \in Word
  BY <1>1, <1>7, WithByteWord, LoopTyped
<1>9. s \in [0..N -> Word]
  <2>1. s = [i \in 0..N |-> s[i]]
    BY <1>6
  <2> QED
    BY <1>8, <2>1
<1> QED
  BY <1>2, <1>7, <1>9 DEF IsCrc, N

\* Any such loop ends with the CRC.
LEMMA CrcIs ==
    ASSUME NEW crc \in Word, NEW data \in Seq(Byte), NEW f, IsCrc(f, crc, data)
    PROVE  crc16_port_ccitt(crc, data) = f[Len(data)]
<1> DEFINE N == Len(data)
<1>1. PICK g : IsCrc(g, crc, data) /\ crc16_port_ccitt(crc, data) = g[N]
  BY CrcSteps
<1> DEFINE T == {n \in Nat : n <= N => f[n] = g[n]}
<1>2. N \in Nat
  OBVIOUS
<1>3. 0 \in T
  BY <1>1 DEF IsCrc
<1>4. ASSUME NEW n \in Nat, n \in T PROVE n + 1 \in T
  <2> SUFFICES ASSUME n + 1 <= N PROVE f[n + 1] = g[n + 1]
    OBVIOUS
  <2>1. f[n] = g[n] /\ n + 1 \in 1..N /\ (n + 1) - 1 = n
    BY <1>2, <1>4
  <2> QED
    BY <1>1, <2>1 DEF IsCrc
<1>5. Nat \subseteq T
  <2> HIDE DEF T
  <2> QED
    BY <1>3, <1>4, SetInduction
<1>6. f[N] = g[N]
  BY <1>2, <1>5
<1> QED
  BY <1>1, <1>6

\* A CRC has 16 bits, whatever the data.
LEMMA CrcWord ==
    ASSUME NEW crc \in Word, NEW data \in Seq(Byte)
    PROVE  crc16_port_ccitt(crc, data) \in Word
  BY CrcSteps DEF IsCrc

\* The CRC of data that is handed over in two parts, the result of the first
\* being where the second starts, is that of the whole. boot_serial_output counts
\* on it: the header and the data are two calls.
LEMMA CrcChains ==
    ASSUME NEW crc \in Word, NEW s \in Seq(Byte), NEW t \in Seq(Byte)
    PROVE  crc16_port_ccitt(crc16_port_ccitt(crc, s), t) = crc16_port_ccitt(crc, s \o t)
<1> DEFINE m == Len(s)
           n == Len(t)
           mid == crc16_port_ccitt(crc, s)
<1>1. mid \in Word
  BY CrcWord
<1>2. PICK f : IsCrc(f, crc, s) /\ mid = f[m]
  BY CrcSteps
<1> HIDE DEF mid
<1>3. PICK g : IsCrc(g, mid, t) /\ crc16_port_ccitt(mid, t) = g[n]
  BY <1>1, CrcSteps
<1> DEFINE h == [k \in 0..(m + n) |-> IF k <= m THEN f[k] ELSE g[k - m]]
<1>4. /\ m \in Nat /\ n \in Nat /\ s \o t \in Seq(Byte) /\ Len(s \o t) = m + n
      /\ \A k \in 1..m : (s \o t)[k] = s[k]
      /\ \A k \in (m + 1)..(m + n) : (s \o t)[k] = t[k - m]
  OBVIOUS
<1>5. /\ f \in [0..m -> Word] /\ f[0] = crc /\ g[0] = f[m]
      /\ g \in [0..n -> Word]
      /\ \A k \in 1..m : f[k] = WithByte(f[k - 1], s[k])
      /\ \A k \in 1..n : g[k] = WithByte(g[k - 1], t[k])
  BY <1>2, <1>3 DEF IsCrc
<1> HIDE DEF m, n
<1>6. h \in [0..(m + n) -> Word]
  BY <1>4, <1>5
<1>7. h[0] = crc /\ h[m + n] = g[n]
  <2>1. CASE n = 0
    BY <1>4, <1>5, <2>1
  <2>2. CASE n # 0
    BY <1>4, <1>5, <2>2
  <2> QED
    BY <2>1, <2>2
<1>8. ASSUME NEW k \in 1..(m + n)
      PROVE  h[k] = WithByte(h[k - 1], (s \o t)[k])
  <2>1. CASE k <= m
    <3>1. k \in 1..m /\ h[k] = f[k] /\ h[k - 1] = f[k - 1]
      BY <1>4, <2>1
    <3> HIDE DEF h
    <3> QED
      BY <1>4, <1>5, <3>1
  <2>2. CASE k = m + 1
    <3>1. k - m = 1 /\ 1 \in 1..n /\ k \in (m + 1)..(m + n) /\ k - 1 = m
      BY <1>4, <2>2
    <3>2. h[k] = g[1] /\ h[k - 1] = g[0]
      BY <1>4, <1>5, <2>2, <3>1
    <3>3. g[1] = WithByte(g[0], t[1])
      BY <1>5, <3>1
    <3> HIDE DEF h
    <3> QED
      BY <1>4, <3>1, <3>2, <3>3
  <2>3. CASE k > m + 1
    <3>1. k - m \in 1..n /\ k \in (m + 1)..(m + n) /\ (k - m) - 1 = (k - 1) - m
      BY <1>4, <2>3
    <3>2. h[k] = g[k - m] /\ h[k - 1] = g[(k - 1) - m]
      BY <1>4, <2>3
    <3> HIDE DEF h
    <3> QED
      BY <1>4, <1>5, <3>1, <3>2
  <2> QED
    BY <1>4, <2>1, <2>2, <2>3
<1>9. IsCrc(h, crc, s \o t)
  <2> HIDE DEF h
  <2> QED
    BY <1>4, <1>6, <1>7, <1>8 DEF IsCrc
<1>10. crc16_port_ccitt(crc, s \o t) = h[m + n]
  <2> HIDE DEF h
  <2> QED
    BY <1>4, <1>9, CrcIs
<1> QED
  BY <1>3, <1>7, <1>10 DEF mid

\* The CRC of two bytes.
LEMMA CrcOfTwo ==
    ASSUME NEW crc \in Word, NEW a \in Byte, NEW b \in Byte
    PROVE  crc16_port_ccitt(crc, <<a, b>>) = WithByte(WithByte(crc, a), b)
<1>1. <<a, b>> \in Seq(Byte) /\ Len(<<a, b>>) = 2
      /\ <<a, b>>[1] = a /\ <<a, b>>[2] = b
  OBVIOUS
<1>2. PICK f : IsCrc(f, crc, <<a, b>>) /\ crc16_port_ccitt(crc, <<a, b>>) = f[2]
  BY <1>1, CrcSteps
<1>3. f[0] = crc /\ f[1] = WithByte(f[1 - 1], a) /\ f[2] = WithByte(f[2 - 1], b)
  BY <1>1, <1>2 DEF IsCrc
<1> QED
  BY <1>2, <1>3

\* Eight shifts of what lies in the lower half lose nothing.
LEMMA ShiftLow ==
    ASSUME NEW x \in SUBSET (0..7), NEW j \in 0..7
    PROVE  Shift(ShiftLeft(x, j)) = ShiftLeft(x, j + 1)
<1>1. 15 \notin ShiftLeft(x, j)
  BY DEF ShiftLeft
<1>2. ShiftLeft(ShiftLeft(x, j), 1) = ShiftLeft(x, j + 1)
  <2>1. \A b \in x : (b + j) + 1 = b + (j + 1)
    OBVIOUS
  <2> QED
    BY <2>1 DEF ShiftLeft
<1>3. ShiftLeft(x, j + 1) \subseteq 0..15
  BY DEF ShiftLeft
<1> QED
  BY <1>1, <1>2, <1>3 DEF Shift

\* The CRC of something followed by its CRC in network order is 0. The receiver
\* counts on it, and so on the byte order of system_port_htons.
LEMMA CrcOfOwnCrc ==
    ASSUME NEW crc \in Word
    PROVE  /\ Stored(system_port_htons(crc)) \in Byte \X Byte
           /\ crc16_port_ccitt(crc, Stored(system_port_htons(crc))) = {}
<1> DEFINE low == crc \cap (0..7)
           high == {b - 8 : b \in crc \ (0..7)}
<1>1. low \in Byte /\ high \in Byte
  BY DEF Byte, Word
<1>2. Stored(system_port_htons(crc)) = <<high, low>>
  <2>1. Swapped(crc) \cap (0..7) = high
    BY DEF Swapped, Word
  <2>2. {b - 8 : b \in Swapped(crc) \ (0..7)} = low
    <3>1. \A b \in low : b + 8 \in Swapped(crc) \ (0..7) /\ (b + 8) - 8 = b
      BY DEF Swapped, Word
    <3>2. \A b \in Swapped(crc) \ (0..7) : b - 8 \in low
      BY DEF Swapped, Word
    <3> QED
      BY <3>1, <3>2
  <2> QED
    BY <2>1, <2>2 DEF Stored, system_port_htons
<1>3. WithByte(crc, high) = ShiftLeft(low, 8)
  <2>1. PICK s \in [0..8 -> Word] :
           /\ s[0] = SymDiff(crc, ShiftLeft(high, 8))
           /\ \A j \in 1..8 : s[j] = Shift(s[j - 1])
           /\ WithByte(crc, high) = s[8]
    BY <1>1, WithByteSteps
  <2>2. s[0] = ShiftLeft(low, 0)
    <3>1. ShiftLeft(high, 8) = crc \ (0..7)
      <4>1. \A b \in crc \ (0..7) : b - 8 \in high /\ (b - 8) + 8 = b
        BY DEF Word
      <4>2. \A b \in high : b + 8 \in crc \ (0..7)
        BY DEF Word
      <4> HIDE DEF high
      <4> QED
        BY <4>1, <4>2 DEF ShiftLeft
    <3>2. ShiftLeft(low, 0) = low
      BY DEF ShiftLeft
    <3> QED
      BY <2>1, <3>1, <3>2 DEF SymDiff
  <2> DEFINE T == {n \in Nat : n <= 8 => s[n] = ShiftLeft(low, n)}
  <2>3. 0 \in T
    BY <2>2
  <2>4. ASSUME NEW n \in Nat, n \in T PROVE n + 1 \in T
    <3> SUFFICES ASSUME n + 1 <= 8 PROVE s[n + 1] = ShiftLeft(low, n + 1)
      OBVIOUS
    <3>1. n \in 0..7 /\ n + 1 \in 1..8 /\ (n + 1) - 1 = n /\ s[n] = ShiftLeft(low, n)
      BY <2>4
    <3>2. s[n + 1] = Shift(s[n])
      BY <2>1, <3>1
    <3>3. low \in SUBSET (0..7)
      OBVIOUS
    <3> HIDE DEF low
    <3> QED
      BY <3>1, <3>2, <3>3, ShiftLow
  <2>5. Nat \subseteq T
    <3> HIDE DEF T
    <3> QED
      BY <2>3, <2>4, SetInduction
  <2> QED
    BY <2>1, <2>5
<1>4. WithByte(ShiftLeft(low, 8), low) = {}
  <2>1. ShiftLeft(low, 8) \in Word
    BY DEF ShiftLeft, Word
  <2>2. PICK s \in [0..8 -> Word] :
           /\ s[0] = SymDiff(ShiftLeft(low, 8), ShiftLeft(low, 8))
           /\ \A j \in 1..8 : s[j] = Shift(s[j - 1])
           /\ WithByte(ShiftLeft(low, 8), low) = s[8]
    BY <1>1, <2>1, WithByteSteps
  <2>3. s[0] \in {{}}
    BY <2>2 DEF SymDiff
  <2>4. Shift({}) = {}
    BY DEF Shift, ShiftLeft
  <2>5. \A j \in 0..8 : s[j] \in {{}}
    BY <2>2, <2>3, <2>4, LoopTyped
  <2> QED
    BY <2>2, <2>5
<1> HIDE DEF low, high
<1> QED
  BY <1>1, <1>2, <1>3, <1>4, CrcOfTwo

-----------------------------------------------------------------------------
(* The CRC is the remainder of a long division: after each bit, what is left  *)
(* of the message is the CRC so far, next to the bytes that are still to come. *)

\* What is left of p when e is divided off.
Divided(p, e) ==
    IF e \in p THEN SymDiff(p, {e, e - 4, e - 11, e - 16}) ELSE p

\* A long division: g[d] is what is left below degree d.
IsDivision(g, poly, top) ==
    /\ g[top] = poly
    /\ \A d \in 15..(top - 1) : g[d] = Divided(g[d + 1], d + 1)

\* Remainder divides, one degree after the other.
LEMMA DivisionSteps ==
    ASSUME NEW poly \in SUBSET Int, NEW top \in Nat, top >= 16
    PROVE  \E g : IsDivision(g, poly, top) /\ Remainder(poly, top) = g[15]
<1> DEFINE P(f) == f = [d \in 15..top |->
                           IF d = top THEN poly
                           ELSE LET p == f[d + 1]
                                IN  IF d + 1 \in p
                                    THEN SymDiff(p, {d + 1, d - 3, d - 10, d - 15}) ELSE p]
           g == CHOOSE f : P(f)
           N == top - 15
           S == SUBSET Int
           F == [k \in 1..N |-> [p \in S |-> Divided(p, top + 1 - k)]]
<1>1. Remainder(poly, top) = g[15]
  BY DEF Remainder
<1>2. N \in Nat
  OBVIOUS
<1>3. F \in [1..N -> [S -> S]]
  <2>1. ASSUME NEW k \in 1..N, NEW p \in S PROVE Divided(p, top + 1 - k) \in S
    <3>1. /\ top + 1 - k \in Int /\ top + 1 - k - 4 \in Int
          /\ top + 1 - k - 11 \in Int /\ top + 1 - k - 16 \in Int
      BY <1>2
    <3> QED
      BY <3>1 DEF Divided, SymDiff
  <2> HIDE DEF S, N
  <2> QED
    BY <2>1
<1>4. PICK h \in [0..N -> S] : IsLoop(h, N, poly, F)
  <2> HIDE DEF F, N
  <2> QED
    BY <1>2, <1>3, LoopExists
<1> DEFINE b == [d \in 15..top |-> h[top - d]]
<1>5. P(b)
  <2>1. \A k \in 0..N : h[k] = IF k = 0 THEN poly ELSE F[k][h[k - 1]]
    <3> HIDE DEF F, N
    <3> QED
      BY <1>4 DEF IsLoop
  <2>2. ASSUME NEW d \in 15..top
        PROVE  b[d] = IF d = top THEN poly
                      ELSE LET p == b[d + 1]
                           IN  IF d + 1 \in p
                               THEN SymDiff(p, {d + 1, d - 3, d - 10, d - 15}) ELSE p
    <3>1. CASE d = top
      <4>1. top - d = 0 /\ 0 \in 0..N
        BY <3>1
      <4>2. h[0] = poly
        BY <2>1, <4>1
      <4> QED
        BY <3>1, <4>1, <4>2
    <3>2. CASE d # top
      <4> DEFINE k == top - d
      <4>1. /\ k \in 1..N /\ k # 0 /\ k \in 0..N /\ k - 1 \in 0..N
            /\ k - 1 = top - (d + 1) /\ d + 1 \in 15..top /\ top + 1 - k = d + 1
        BY <3>2
      <4>2. b[d] = h[k] /\ b[d + 1] = h[k - 1]
        BY <4>1
      <4>3. h[k] = F[k][h[k - 1]] /\ h[k - 1] \in S
        <5> HIDE DEF k, F, N, S
        <5> QED
          BY <1>4, <2>1, <4>1
      <4>4. F[k][h[k - 1]] = Divided(h[k - 1], top + 1 - k)
        <5> HIDE DEF k, N, S
        <5> QED
          BY <4>1, <4>3
      <4>5. b[d] = Divided(b[d + 1], d + 1)
        <5> HIDE DEF k, F, N, S, b
        <5> QED
          BY <4>1, <4>2, <4>3, <4>4
      <4>6. /\ (d + 1) - 4 = d - 3 /\ (d + 1) - 11 = d - 10
            /\ (d + 1) - 16 = d - 15
        OBVIOUS
      <4> HIDE DEF b, k
      <4> QED
        BY <3>2, <4>5, <4>6 DEF Divided
    <3> QED
      BY <3>1, <3>2
  <2> DEFINE G(d) == IF d = top THEN poly
                     ELSE LET p == b[d + 1]
                          IN  IF d + 1 \in p
                              THEN SymDiff(p, {d + 1, d - 3, d - 10, d - 15}) ELSE p
  <2>3. b = [d \in 15..top |-> b[d]]
    OBVIOUS
  <2>4. \A d \in 15..top : b[d] = G(d)
    BY <2>2
  <2> HIDE DEF b, G
  <2>5. b = [d \in 15..top |-> G(d)]
    BY <2>3, <2>4, Zenon
  <2> QED
    BY <2>5 DEF G
<1>6. P(g)
  BY <1>5, Zenon
<1> HIDE DEF g
<1>7. \A d \in 15..top : g[d] = IF d = top THEN poly
                           ELSE LET p == g[d + 1]
                                IN  IF d + 1 \in p
                                    THEN SymDiff(p, {d + 1, d - 3, d - 10, d - 15}) ELSE p
  BY <1>6, Zenon
<1>8. g[top] = poly
  <2>1. top \in 15..top
    OBVIOUS
  <2> QED
    BY <1>7, <2>1
<1>9. ASSUME NEW d \in 15..(top - 1) PROVE g[d] = Divided(g[d + 1], d + 1)
  <2>1. /\ d \in 15..top /\ d # top /\ (d + 1) - 4 = d - 3 /\ (d + 1) - 11 = d - 10
        /\ (d + 1) - 16 = d - 15
    OBVIOUS
  <2>2. g[d] = LET p == g[d + 1]
               IN  IF d + 1 \in p
                   THEN SymDiff(p, {d + 1, d - 3, d - 10, d - 15}) ELSE p
    BY <1>7, <2>1, Zenon
  <2> QED
    BY <2>1, <2>2 DEF Divided
<1> QED
  BY <1>1, <1>8, <1>9 DEF IsDivision

\* A bit of a shifted integer.
LEMMA ShiftLeftMember ==
    ASSUME NEW x \in SUBSET Int, NEW n \in Int, NEW e \in Int
    PROVE  e \in ShiftLeft(x, n) <=> e - n \in x
<1>1. ASSUME e - n \in x PROVE e \in ShiftLeft(x, n)
  <2>1. (e - n) + n = e
    OBVIOUS
  <2> QED
    BY <1>1, <2>1 DEF ShiftLeft
<1>2. ASSUME e \in ShiftLeft(x, n) PROVE e - n \in x
  <2>1. PICK b \in x : e = b + n
    BY <1>2 DEF ShiftLeft
  <2>2. e - n = b
    BY <2>1
  <2> QED
    BY <2>2
<1> QED
  BY <1>1, <1>2

\* A bit of the CRC after a shift: the one below it, flipped in the places of
\* the polynomial if bit 15 was set.
LEMMA ShiftMember ==
    ASSUME NEW s \in Word, NEW i \in Int
    PROVE  i + 1 \in Shift(s) <=>
              /\ i + 1 \in 0..15
              /\ ~(i \in s <=> (15 \in s /\ i + 1 \in {0, 5, 12}))
<1>1. s \in SUBSET Int
  BY DEF Word
<1>2. (i + 1) - 1 = i
  OBVIOUS
<1>3. i + 1 \in ShiftLeft(s, 1) <=> i \in s
  BY <1>1, <1>2, ShiftLeftMember
<1> QED
  BY <1>3 DEF Shift, SymDiff

\* One shift of the CRC divides one degree off.
LEMMA ShiftDivides ==
    ASSUME NEW s \in Word, NEW o \in Nat \ {0}, NEW R \in SUBSET Nat,
           \A e \in R : e < o + 15
    PROVE  Divided(SymDiff(ShiftLeft(s, o), R), o + 15)
              = SymDiff(ShiftLeft(Shift(s), o - 1), R)
<1> DEFINE p == SymDiff(ShiftLeft(s, o), R)
           q == SymDiff(ShiftLeft(Shift(s), o - 1), R)
           Q == {o + 15, o + 11, o + 4, o - 1}
           D == Divided(p, o + 15)
<1>1. s \in SUBSET Int /\ Shift(s) \in SUBSET Int /\ s \in SUBSET (0..15)
  BY ShiftWord DEF Word
<1>2. \A e \in Int : e \in ShiftLeft(s, o) <=> e - o \in s
  BY <1>1, ShiftLeftMember
<1>3. \A e \in Int : e \in ShiftLeft(Shift(s), o - 1) <=> (e - o) + 1 \in Shift(s)
  <2>1. \A e \in Int : e - (o - 1) = (e - o) + 1
    OBVIOUS
  <2> QED
    BY <1>1, <2>1, ShiftLeftMember
<1>4. p \in SUBSET Int /\ q \in SUBSET Int
  <2>1. ShiftLeft(s, o) \in SUBSET Int /\ ShiftLeft(Shift(s), o - 1) \in SUBSET Int
    BY <1>1 DEF ShiftLeft
  <2>2. \A A, B \in SUBSET Int : SymDiff(A, B) \in SUBSET Int
    BY DEF SymDiff
  <2>3. R \in SUBSET Int
    OBVIOUS
  <2> QED
    BY <2>1, <2>2, <2>3
<1>5. \A e \in Int : e \in p <=> ~(e - o \in s <=> e \in R)
  BY <1>2 DEF SymDiff
<1>6. \A e \in Int : e \in q <=> ~((e - o) + 1 \in Shift(s) <=> e \in R)
  BY <1>3 DEF SymDiff
<1>7. o + 15 \in p <=> 15 \in s
  <2>1. o + 15 \in Int /\ (o + 15) - o = 15 /\ o + 15 \notin R
    OBVIOUS
  <2> HIDE DEF p
  <2> QED
    BY <1>5, <2>1
<1>8. D = IF 15 \in s THEN SymDiff(p, Q) ELSE p
  <2>1. (o + 15) - 4 = o + 11 /\ (o + 15) - 11 = o + 4 /\ (o + 15) - 16 = o - 1
    OBVIOUS
  <2> HIDE DEF p
  <2> QED
    BY <1>7, <2>1 DEF Divided
<1> HIDE DEF p, q, D
<1>9. D \in SUBSET Int
  BY <1>4, <1>8 DEF SymDiff
<1>10. ASSUME NEW e \in Int PROVE e \in D <=> e \in q
  <2> DEFINE i == e - o
  <2>1. i \in Int /\ e = i + o
    OBVIOUS
  <2>2. e \in Q <=> i \in {15, 11, 4, 0 - 1}
    OBVIOUS
  <2> HIDE DEF i, Q
  <2>3. e \in D <=> ~(e \in p <=> (15 \in s /\ e \in Q))
    BY <1>8 DEF SymDiff
  <2>4. e \in p <=> ~(i \in s <=> e \in R)
    BY <1>5 DEF i
  <2>5. e \in q <=> ~(i + 1 \in Shift(s) <=> e \in R)
    BY <1>6 DEF i
  <2>6. i + 1 \in Shift(s) <=>
           /\ i + 1 \in 0..15
           /\ ~(i \in s <=> (15 \in s /\ i + 1 \in {0, 5, 12}))
    BY <2>1, ShiftMember
  <2>7. /\ i \in s => i \in 0..15
        /\ i + 1 \in {0, 5, 12} <=> i \in {11, 4, 0 - 1}
        /\ i + 1 \in 0..15 <=> i \in 0..14 \/ i = 0 - 1
        /\ i \in 0..15 <=> i \in 0..14 \/ i = 15
        /\ i \in {15, 11, 4, 0 - 1} <=> i \in {11, 4, 0 - 1} \/ i = 15
        /\ i \in {11, 4, 0 - 1} => i \in 0..14 \/ i = 0 - 1
        /\ ~(i = 15 /\ (i \in 0..14 \/ i = 0 - 1))
        /\ ~(i = 0 - 1 /\ i \in 0..15)
        /\ (15 \in s /\ i = 15) <=> (i \in s /\ i = 15)
    BY <1>1, <2>1
  <2> QED
    BY <2>2, <2>3, <2>4, <2>5, <2>6, <2>7, Zenon
<1> QED
  BY <1>4, <1>9, <1>10 DEF p, q, D

\* The message that is divided: the bytes, times x^16.
Message(data) == {e + 16 : e \in Polynomial(data)}

\* The terms of M below degree n.
Under(M, n) == {e \in M : e < n}

\* Where the bits of each byte are in the message.
LEMMA MessageMember ==
    ASSUME NEW data \in Seq(Byte)
    PROVE  /\ Message(data) \in SUBSET Nat
           /\ \A e \in Message(data) : 16 <= e /\ e < 8 * Len(data) + 16
           /\ \A k \in 1..Len(data), i \in 0..7 :
                 8 * (Len(data) - k) + 16 + i \in Message(data) <=> i \in data[k]
<1> DEFINE L == Len(data)
           M == Message(data)
<1>1. L \in Nat
  OBVIOUS
<1>2. \A e \in Polynomial(data) : e \in 0..(8 * L - 1)
  BY DEF Polynomial
<1>3. M \in SUBSET Nat /\ \A e \in M : 16 <= e /\ e < 8 * L + 16
  <2> HIDE DEF L
  <2> QED
    BY <1>1, <1>2 DEF Message
<1>4. ASSUME NEW k \in 1..L, NEW i \in 0..7
      PROVE  8 * (L - k) + 16 + i \in M <=> i \in data[k]
  <2> DEFINE e == 8 * (L - k) + i
  <2>1. /\ e \in 0..(8 * L - 1) /\ e % 8 = i /\ e \div 8 = L - k
        /\ 8 * (L - k) + 16 + i = e + 16 /\ L - (L - k) = k
    <3> HIDE DEF L
    <3> QED
      BY <1>1
  <2>2. e \in Polynomial(data) <=> i \in data[k]
    <3> HIDE DEF e
    <3> QED
      BY <2>1 DEF Polynomial, L
  <2>3. e + 16 \in M <=> e \in Polynomial(data)
    <3> HIDE DEF e
    <3>1. \A x \in Polynomial(data) : x + 16 = e + 16 => x = e
      BY <1>2, <2>1
    <3> QED
      BY <3>1 DEF Message
  <2> HIDE DEF e, M, L
  <2> QED
    BY <2>1, <2>2, <2>3
<1> QED
  BY <1>3, <1>4

\* One byte of the CRC divides eight degrees off.
LEMMA ByteDivides ==
    ASSUME NEW crc \in Word, NEW byte \in Byte, NEW o \in Nat, o >= 8,
           NEW M \in SUBSET Nat, NEW top \in Nat, o + 15 < top,
           NEW g, NEW poly, IsDivision(g, poly, top),
           g[o + 15] = SymDiff(ShiftLeft(crc, o), Under(M, o + 16)),
           \A i \in 0..7 : o + 8 + i \in M <=> i \in byte
    PROVE  g[o + 7] = SymDiff(ShiftLeft(WithByte(crc, byte), o - 8), Under(M, o + 8))
<1>1. PICK s \in [0..8 -> Word] :
         /\ s[0] = SymDiff(crc, ShiftLeft(byte, 8))
         /\ \A j \in 1..8 : s[j] = Shift(s[j - 1])
         /\ WithByte(crc, byte) = s[8]
  BY WithByteSteps
<1> DEFINE R == Under(M, o + 8)
           T == {j \in Nat : j <= 8 => g[o + 15 - j] = SymDiff(ShiftLeft(s[j], o - j), R)}
<1>2. R \in SUBSET Nat /\ \A e \in R : e < o + 8
  BY DEF Under
<1>3. 0 \in T
  <2> DEFINE p == SymDiff(ShiftLeft(crc, o), Under(M, o + 16))
             q == SymDiff(ShiftLeft(s[0], o), R)
  <2>1. crc \in SUBSET Int /\ crc \in SUBSET (0..15) /\ byte \in SUBSET Int
        /\ byte \in SUBSET (0..7) /\ s[0] \in SUBSET Int
    BY DEF Word, Byte
  <2>2. ASSUME NEW e \in Int PROVE e \in p <=> e \in q
    <3> DEFINE i == e - o
    <3>1. i \in Int /\ e = i + o /\ 8 \in Int
      OBVIOUS
    <3>2. e \in ShiftLeft(crc, o) <=> i \in crc
      BY <2>1, ShiftLeftMember
    <3>3. e \in ShiftLeft(s[0], o) <=> i \in s[0]
      BY <2>1, ShiftLeftMember
    <3> HIDE DEF i
    <3>4. i \in s[0] <=> ~(i \in crc <=> i - 8 \in byte)
      <4>1. i \in ShiftLeft(byte, 8) <=> i - 8 \in byte
        BY <2>1, <3>1, ShiftLeftMember
      <4> QED
        BY <1>1, <4>1 DEF SymDiff
    <3>5. e \in Under(M, o + 16) <=> ~(e \in R <=> i - 8 \in byte)
      <4>1. CASE i - 8 \in 0..7
        <5>1. e \in M <=> i - 8 \in byte
          <6>1. o + 8 + (i - 8) = e
            BY <3>1
          <6> QED
            BY <4>1, <6>1
        <5>2. e < o + 16 /\ ~(e < o + 8)
          BY <3>1, <4>1
        <5> QED
          BY <5>1, <5>2 DEF Under
      <4>2. CASE i - 8 \notin 0..7
        <5>1. i - 8 \notin byte
          BY <2>1, <4>2
        <5>2. e < o + 16 <=> e < o + 8
          BY <3>1, <4>2
        <5> QED
          BY <5>1, <5>2 DEF Under
      <4> QED
        BY <4>1, <4>2
    <3>6. e \in p <=> ~(i \in crc <=> e \in Under(M, o + 16))
      BY <3>2 DEF SymDiff
    <3>7. e \in q <=> ~(i \in s[0] <=> e \in R)
      BY <3>3 DEF SymDiff
    <3> HIDE DEF p, q, R
    <3> QED
      BY <3>4, <3>5, <3>6, <3>7, Zenon
  <2>3. p \in SUBSET Int /\ q \in SUBSET Int
    <3>1. ShiftLeft(crc, o) \in SUBSET Int /\ ShiftLeft(s[0], o) \in SUBSET Int
      BY <2>1 DEF ShiftLeft
    <3>2. \A A, B \in SUBSET Int : SymDiff(A, B) \in SUBSET Int
      BY DEF SymDiff
    <3>3. R \in SUBSET Int /\ Under(M, o + 16) \in SUBSET Int
      <4>1. \A e \in M : e \in Int
        OBVIOUS
      <4>2. \A n : Under(M, n) \in SUBSET Int
        BY <4>1 DEF Under
      <4> QED
        BY <4>2
    <3> QED
      BY <3>1, <3>2, <3>3
  <2> HIDE DEF q, R
  <2>4. p = q
    <3> HIDE DEF p
    <3> QED
      BY <2>2, <2>3
  <2>5. g[o + 15] = q
    BY <2>4
  <2> QED
    BY <2>5 DEF q
<1>4. ASSUME NEW j \in Nat, j \in T PROVE j + 1 \in T
  <2> SUFFICES ASSUME j + 1 <= 8
               PROVE  g[o + 15 - (j + 1)] = SymDiff(ShiftLeft(s[j + 1], o - (j + 1)), R)
    OBVIOUS
  <2> DEFINE c == o - j
             d == o + 15 - (j + 1)
  <2>1. /\ j \in 0..7 /\ j + 1 \in 1..8 /\ (j + 1) - 1 = j
        /\ c \in Nat \ {0} /\ c - 1 = o - (j + 1) /\ c + 15 = o + 15 - j
        /\ d \in 15..(top - 1) /\ d + 1 = c + 15 /\ o + 8 <= c + 15
    BY <1>4
  <2>2. g[d + 1] = SymDiff(ShiftLeft(s[j], c), R)
    BY <1>4, <2>1
  <2> HIDE DEF c, d, R, T
  <2>3. g[d] = Divided(g[d + 1], d + 1)
    BY <2>1 DEF IsDivision
  <2>4. s[j] \in Word /\ s[j + 1] = Shift(s[j])
    BY <1>1, <2>1
  <2>5. \A e \in R : e < c + 15
    BY <1>2, <2>1
  <2>6. Divided(SymDiff(ShiftLeft(s[j], c), R), c + 15)
           = SymDiff(ShiftLeft(Shift(s[j]), c - 1), R)
    BY <1>2, <2>1, <2>4, <2>5, ShiftDivides
  <2>7. g[d] = SymDiff(ShiftLeft(s[j + 1], c - 1), R)
    BY <2>1, <2>2, <2>3, <2>4, <2>6
  <2> QED
    BY <2>1, <2>7 DEF d
<1>5. 8 \in T
  <2> HIDE DEF T
  <2> QED
    BY <1>3, <1>4, SetInduction
<1>6. o + 15 - 8 = o + 7
  OBVIOUS
<1> QED
  BY <1>1, <1>5, <1>6

\* The whole CRC: the data leaves no degree above 15.
LEMMA CrcDivides ==
    ASSUME NEW data \in Seq(Byte), data # <<>>
    PROVE  crc16_port_ccitt({}, data) = Remainder(Message(data), 8 * Len(data) + 16)
<1> DEFINE L == Len(data)
           M == Message(data)
           top == 8 * L + 16
<1>1. L \in Nat \ {0} /\ \A k \in 1..L : data[k] \in Byte
  BY EmptySeq, ElementOfSeq
<1>2. /\ M \in SUBSET Nat
      /\ \A e \in M : 16 <= e /\ e < 8 * L + 16
      /\ \A k \in 1..L, i \in 0..7 : 8 * (L - k) + 16 + i \in M <=> i \in data[k]
  BY MessageMember
<1>3. {} \in Word
  BY DEF Word
<1>4. PICK f : IsCrc(f, {}, data) /\ crc16_port_ccitt({}, data) = f[L]
  BY <1>3, CrcSteps
<1>5. /\ f[0] = {} /\ \A k \in 0..L : f[k] \in Word
      /\ \A k \in 1..L : f[k] = WithByte(f[k - 1], data[k])
  BY <1>4 DEF IsCrc
<1> HIDE DEF L, M
<1>6. top \in Nat /\ top >= 16 /\ M \in SUBSET Int
  BY <1>1, <1>2
<1>7. PICK g : IsDivision(g, M, top) /\ Remainder(M, top) = g[15]
  BY <1>6, DivisionSteps
<1> DEFINE T == {k \in Nat : k <= L =>
                    g[8 * (L - k) + 15]
                       = SymDiff(ShiftLeft(f[k], 8 * (L - k)), Under(M, 8 * (L - k) + 16))}
<1>8. 0 \in T
  <2> DEFINE d == 8 * (L - 0) + 15
  <2>1. d \in 15..(top - 1) /\ d + 1 = top /\ top = 8 * (L - 0) + 16
    BY <1>1
  <2>2. g[d] = Divided(M, top)
    <3> HIDE DEF d, top
    <3> QED
      BY <1>7, <2>1 DEF IsDivision
  <2>3. top \notin M
    <3>1. \A e \in M : e \in Nat /\ e < 8 * L + 16
      BY <1>2
    <3>2. ~(top < 8 * L + 16)
      BY <1>1
    <3> QED
      BY <3>1, <3>2
  <2>4. g[d] = M
    BY <2>2, <2>3 DEF Divided
  <2>5. Under(M, 8 * (L - 0) + 16) = M
    <3>1. \A e \in M : e < 8 * L + 16
      BY <1>2
    <3>2. 8 * (L - 0) + 16 = 8 * L + 16
      BY <1>1
    <3> QED
      BY <3>1, <3>2, Zenon DEF Under
  <2>6. SymDiff(ShiftLeft({}, 8 * (L - 0)), M) = M
    BY DEF SymDiff, ShiftLeft
  <2> QED
    BY <1>5, <2>4, <2>5, <2>6
<1>9. ASSUME NEW k \in Nat, k \in T PROVE k + 1 \in T
  <2> SUFFICES ASSUME k + 1 <= L
               PROVE  g[8 * (L - (k + 1)) + 15]
                         = SymDiff(ShiftLeft(f[k + 1], 8 * (L - (k + 1))),
                                   Under(M, 8 * (L - (k + 1)) + 16))
    OBVIOUS
  <2> DEFINE o == 8 * (L - k)
  <2>1. /\ o \in Nat /\ o >= 8 /\ o + 15 < top
        /\ 8 * (L - (k + 1)) = o - 8 /\ (o - 8) + 15 = o + 7 /\ (o - 8) + 16 = o + 8
        /\ k \in 0..L /\ k + 1 \in 1..L /\ (k + 1) - 1 = k
    BY <1>1
  <2>2. g[o + 15] = SymDiff(ShiftLeft(f[k], o), Under(M, o + 16))
    BY <1>9, <2>1
  <2>3. \A i \in 0..7 : o + 8 + i \in M <=> i \in data[k + 1]
    <3>1. \A i \in 0..7 : o + 8 + i = 8 * (L - (k + 1)) + 16 + i
      BY <1>1
    <3> HIDE DEF o
    <3> QED
      BY <1>2, <2>1, <3>1
  <2>4. f[k] \in Word /\ data[k + 1] \in Byte /\ f[k + 1] = WithByte(f[k], data[k + 1])
    BY <1>1, <1>5, <2>1
  <2> HIDE DEF o, top, T
  <2>5. g[o + 7] = SymDiff(ShiftLeft(WithByte(f[k], data[k + 1]), o - 8), Under(M, o + 8))
    BY <1>2, <1>6, <1>7, <2>1, <2>2, <2>3, <2>4, ByteDivides
  <2> QED
    BY <2>1, <2>4, <2>5
<1>10. L \in T
  <2> HIDE DEF T
  <2> QED
    BY <1>1, <1>8, <1>9, SetInduction
<1>11. g[15] = SymDiff(ShiftLeft(f[L], 0), Under(M, 16))
  <2>1. L \in Nat /\ 8 * (L - L) = 0
    BY <1>1
  <2>2. g[0 + 15] = SymDiff(ShiftLeft(f[L], 0), Under(M, 0 + 16))
    BY <1>10, <2>1
  <2> QED
    BY <2>2
<1>12. Under(M, 16) = {}
  <2>1. \A e \in M : e \in Nat /\ 16 <= e
    BY <1>2
  <2>2. \A e \in M : ~(e < 16)
    BY <2>1
  <2> QED
    BY <2>2, Zenon DEF Under
<1>13. ShiftLeft(f[L], 0) = f[L]
  <2>1. f[L] \in SUBSET Int
    <3>1. L \in 0..L
      BY <1>1
    <3>2. f[L] \in Word
      BY <1>5, <3>1
    <3> QED
      BY <3>2 DEF Word
  <2> QED
    BY <2>1 DEF ShiftLeft
<1>14. g[15] = f[L]
  BY <1>11, <1>12, <1>13 DEF SymDiff
<1> QED
  BY <1>4, <1>7, <1>14 DEF L, M

-----------------------------------------------------------------------------
(* Numbers *)

\* How Bits takes a number apart.
Halves(h, n) ==
    /\ h \in [0..15 -> Nat]
    /\ h[0] = n
    /\ \A b \in 1..15 : h[b] = h[b - 1] \div 2

Odd(h) == {b \in 0..15 : h[b] % 2 = 1}

\* The bits of a number are the parities of its halves.
LEMMA BitsSteps ==
    ASSUME NEW n \in Nat
    PROVE  \E h : Halves(h, n) /\ Bits(n) = Odd(h)
<1> DEFINE P(f) == f = [b \in 0..15 |-> IF b = 0 THEN n ELSE f[b - 1] \div 2]
           F == [b \in 1..15 |-> [m \in Nat |-> m \div 2]]
           h == CHOOSE f : P(f)
<1>1. Bits(n) = Odd(h)
  BY DEF Bits, Odd
<1>2. F \in [1..15 -> [Nat -> Nat]]
  OBVIOUS
<1>3. PICK g \in [0..15 -> Nat] : IsLoop(g, 15, n, F)
  <2> HIDE DEF F
  <2> QED
    BY <1>2, LoopExists
<1>4. P(g)
  <2>1. \A b \in 0..15 : g[b] = IF b = 0 THEN n ELSE F[b][g[b - 1]]
    <3> HIDE DEF F
    <3> QED
      BY <1>3 DEF IsLoop
  <2>2. \A b \in 1..15 : g[b - 1] \in Nat /\ F[b][g[b - 1]] = g[b - 1] \div 2
    BY <1>3
  <2> HIDE DEF F
  <2>3. \A b \in 0..15 : g[b] = IF b = 0 THEN n ELSE g[b - 1] \div 2
    BY <2>1, <2>2
  <2> QED
    BY <1>3, <2>3
<1>5. P(h)
  BY <1>4, Zenon
<1> HIDE DEF h
<1>6. h[0] = n /\ \A b \in 1..15 : h[b] = h[b - 1] \div 2
  <2>1. \A b \in 0..15 : h[b] = IF b = 0 THEN n ELSE h[b - 1] \div 2
    BY <1>5, Zenon
  <2> QED
    BY <2>1
<1>7. \A b \in 1..15 : h[b - 1] \in Nat => h[b] \in Nat
  BY <1>6
<1>8. \A b \in 0..15 : h[b] \in Nat
  BY <1>6, <1>7, LoopTyped
<1>9. h \in [0..15 -> Nat]
  <2>1. h = [b \in 0..15 |-> h[b]]
    BY <1>5
  <2> QED
    BY <1>8, <2>1
<1> QED
  BY <1>1, <1>6, <1>9 DEF Halves

\* They are at most 16.
LEMMA BitsWord ==
    ASSUME NEW n \in Nat
    PROVE  Bits(n) \in Word
<1>1. PICK h : Bits(n) = Odd(h)
  BY BitsSteps
<1> QED
  BY <1>1 DEF Odd, Word

\* Fifteen halves of a number of 16 bits leave 0 or 1.
LEMMA HalvesEnd ==
    ASSUME NEW n \in Nat, n < 65536, NEW h, Halves(h, n)
    PROVE  h[15] \in 0..1
<1> USE DEF Halves
<1>1. h[0] < 65536 /\ \A b \in 0..15 : h[b] \in Nat
  OBVIOUS
<1>2. /\ h[1] = h[0] \div 2 /\ h[2] = h[1] \div 2 /\ h[3] = h[2] \div 2
      /\ h[4] = h[3] \div 2 /\ h[5] = h[4] \div 2
  OBVIOUS
<1>3. /\ h[6] = h[5] \div 2 /\ h[7] = h[6] \div 2 /\ h[8] = h[7] \div 2
      /\ h[9] = h[8] \div 2 /\ h[10] = h[9] \div 2
  OBVIOUS
<1>4. /\ h[11] = h[10] \div 2 /\ h[12] = h[11] \div 2 /\ h[13] = h[12] \div 2
      /\ h[14] = h[13] \div 2 /\ h[15] = h[14] \div 2
  OBVIOUS
<1>5. h[5] < 2048
  BY <1>1, <1>2
<1>6. h[10] < 64
  BY <1>1, <1>3, <1>5
<1> QED
  BY <1>1, <1>4, <1>6

\* Two numbers of 16 bits are told apart by their bits.
LEMMA BitsTell ==
    ASSUME NEW m \in Nat, NEW n \in Nat, m < 65536, n < 65536, Bits(m) = Bits(n)
    PROVE  m = n
<1>1. PICK g : Halves(g, m) /\ Bits(m) = Odd(g)
  BY BitsSteps
<1>2. PICK h : Halves(h, n) /\ Bits(n) = Odd(h)
  BY BitsSteps
<1>3. \A b \in 0..15 : g[b] \in Nat /\ h[b] \in Nat /\ g[b] % 2 = h[b] % 2
  <2>1. \A b \in 0..15 : (g[b] % 2 = 1) <=> (h[b] % 2 = 1)
    <3>1. Odd(g) = Odd(h)
      BY <1>1, <1>2, Bits(m) = Bits(n)
    <3>2. \A b \in 0..15 : /\ b \in Odd(g) <=> g[b] % 2 = 1
                           /\ b \in Odd(h) <=> h[b] % 2 = 1
      BY DEF Odd
    <3> QED
      BY <3>1, <3>2
  <2>2. \A b \in 0..15 : g[b] \in Nat /\ h[b] \in Nat
    BY <1>1, <1>2 DEF Halves
  <2>3. \A x, y \in Nat : (x % 2 = 1 <=> y % 2 = 1) => x % 2 = y % 2
    OBVIOUS
  <2> QED
    BY <2>1, <2>2, <2>3
<1> DEFINE T == {k \in Nat : k <= 15 => g[15 - k] = h[15 - k]}
<1>4. 0 \in T
  <2>1. g[15] \in 0..1 /\ h[15] \in 0..1
    BY <1>1, <1>2, HalvesEnd
  <2>2. g[15] % 2 = h[15] % 2
    BY <1>3
  <2> QED
    BY <2>1, <2>2
<1>5. ASSUME NEW k \in Nat, k \in T PROVE k + 1 \in T
  <2> SUFFICES ASSUME k + 1 <= 15 PROVE g[15 - (k + 1)] = h[15 - (k + 1)]
    OBVIOUS
  <2>1. PICK b \in 1..15 : b = 15 - k
    OBVIOUS
  <2>2. b - 1 = 15 - (k + 1) /\ b - 1 \in 0..15 /\ g[b] = h[b]
    BY <1>5, <2>1
  <2>3. g[b - 1] \div 2 = h[b - 1] \div 2
    BY <1>1, <1>2, <2>2 DEF Halves
  <2>4. /\ g[b - 1] \in Nat /\ h[b - 1] \in Nat
        /\ g[b - 1] % 2 = h[b - 1] % 2
    BY <1>3, <2>2
  <2>5. \A x, y \in Nat : x \div 2 = y \div 2 /\ x % 2 = y % 2 => x = y
    OBVIOUS
  <2> QED
    BY <2>2, <2>3, <2>4, <2>5
<1>6. 15 \in T
  <2> HIDE DEF T
  <2> QED
    BY <1>4, <1>5, SetInduction
<1> QED
  BY <1>1, <1>2, <1>6 DEF Halves

\* An integer stored in network order is two bytes, and read back as it was.
LEMMA NetworkOrder ==
    ASSUME NEW x \in Word
    PROVE  /\ Stored(system_port_htons(x)) \in Byte \X Byte
           /\ system_port_ntohs(Loaded(Stored(system_port_htons(x)))) = x
<1> DEFINE y == Swapped(x)
           z == {b - 8 : b \in y \ (0..7)}
<1>1. y \in Word
  BY DEF Swapped, Word
<1>2. z \in Byte /\ y \cap (0..7) \in Byte
  BY <1>1 DEF Byte, Word
<1>3. Swapped(y) = x
  <2>1. \A b \in 0..15 : LET c == IF b < 8 THEN b + 8 ELSE b - 8
                         IN  c \in 0..15 /\ b = IF c < 8 THEN c + 8 ELSE c - 8
    OBVIOUS
  <2>2. x \subseteq 0..15
    BY DEF Word
  <2>3. ASSUME NEW b \in x PROVE b \in Swapped(y)
    <3>1. PICK c \in 0..15 : /\ c = IF b < 8 THEN b + 8 ELSE b - 8
                             /\ b = IF c < 8 THEN c + 8 ELSE c - 8
      BY <2>1, <2>2
    <3>2. c \in y
      BY <3>1 DEF Swapped
    <3> QED
      BY <3>1, <3>2 DEF Swapped
  <2>4. ASSUME NEW b \in Swapped(y) PROVE b \in x
    <3>1. PICK c \in y : b = IF c < 8 THEN c + 8 ELSE c - 8
      BY DEF Swapped
    <3>2. PICK d \in x : c = IF d < 8 THEN d + 8 ELSE d - 8
      BY DEF Swapped
    <3>3. d = IF c < 8 THEN c + 8 ELSE c - 8
      BY <2>1, <2>2, <3>2
    <3> QED
      BY <3>1, <3>3
  <2> QED
    BY <2>3, <2>4
<1>4. ShiftLeft(z, 8) = y \ (0..7)
  <2> HIDE DEF y
  <2>1. \A b \in y \ (0..7) : b - 8 \in z /\ (b - 8) + 8 = b
    BY <1>1 DEF Word
  <2>2. \A b \in z : b + 8 \in y \ (0..7)
    BY <1>1 DEF Word
  <2> HIDE DEF z
  <2> QED
    BY <2>1, <2>2 DEF ShiftLeft
<1>5. Loaded(Stored(y)) = y
  BY <1>4 DEF Loaded, Stored
<1> QED
  BY <1>2, <1>3, <1>5 DEF Stored, system_port_htons, system_port_ntohs

-----------------------------------------------------------------------------
(* Packets *)

\* Two bytes are a sequence.
LEMMA Pair ==
    ASSUME NEW f \in Byte \X Byte
    PROVE  f \in Seq(Byte) /\ Len(f) = 2
<1>1. PICK a \in Byte, b \in Byte : f = <<a, b>>
  OBVIOUS
<1>2. <<a, b>> \in Seq(Byte) /\ Len(<<a, b>>) = 2
  OBVIOUS
<1> QED
  BY <1>1, <1>2

\* What begins at the third element.
LEMMA FromThird ==
    ASSUME NEW e, NEW d, NEW k \in Nat, \A i \in 1..k : d[i] \in Byte /\ e[i + 2] = d[i]
    PROVE  SubSeq(e, 3, k + 2) = SubSeq(d, 1, k)
<1> DEFINE n == k + 2
           y == SubSeq(e, 3, n)
           z == SubSeq(d, 1, k)
<1>1. n \in Int /\ n = k + 2 /\ k \in Int
  OBVIOUS
<1> HIDE DEF n
<1>2. \A i \in 3..n : e[i] \in Byte
  <2>1. \A i \in 3..n : i - 2 \in 1..k /\ (i - 2) + 2 = i
    BY <1>1
  <2> QED
    BY <2>1
<1>3. /\ y \in Seq(Byte) /\ Len(y) = (IF 3 <= n THEN n - 3 + 1 ELSE 0)
      /\ \A i \in 1..(n - 3 + 1) : y[i] = e[3 + i - 1]
  BY <1>1, <1>2, SubSeqProperties
<1>4. /\ z \in Seq(Byte) /\ Len(z) = (IF 1 <= k THEN k - 1 + 1 ELSE 0)
      /\ \A i \in 1..(k - 1 + 1) : z[i] = d[1 + i - 1]
  BY <1>1, SubSeqProperties
<1> HIDE DEF y, z
<1>5. Len(y) = k /\ Len(z) = k
  BY <1>1, <1>3, <1>4
<1>6. ASSUME NEW i \in 1..k PROVE y[i] = z[i]
  <2>1. /\ i \in 1..(n - 3 + 1) /\ 3 + i - 1 = i + 2
        /\ i \in 1..(k - 1 + 1) /\ 1 + i - 1 = i
    BY <1>1
  <2> QED
    BY <1>3, <1>4, <2>1
<1>7. y = z
  BY <1>3, <1>4, <1>5, <1>6, SeqEqual
<1> QED
  BY <1>7 DEF y, z, n

\* q is c with f before it and t behind it.
IsFramed(q, f, c, t, n) ==
    /\ q \in Seq(Byte) /\ Len(q) = n + 4
    /\ q[1] = f[1] /\ q[2] = f[2]
    /\ SubSeq(q, 3, n + 4) = c \o t
    /\ SubSeq(q, 3, n + 2) = c

\* The parts of a sequence with two bytes before and two after.
LEMMA Framed ==
    ASSUME NEW f \in Seq(Byte), NEW c \in Seq(Byte), NEW t \in Seq(Byte), Len(f) = 2,
           Len(t) = 2, NEW n \in Nat \ {0}, n = Len(c), NEW q, q = (f \o c) \o t
    PROVE  IsFramed(q, f, c, t, n)
<1> DEFINE d == c \o t
<1>1. f \in Seq(Byte) /\ Len(f) = 2 /\ t \in Seq(Byte) /\ Len(t) = 2
  OBVIOUS
<1>2. d \in Seq(Byte) /\ Len(d) = n + 2
  <2>1. d \in Seq(Byte) /\ Len(d) = Len(c) + Len(t)
    BY <1>1, ConcatProperties, Zenon
  <2> QED
    BY <1>1, <2>1
<1>3. q = f \o d
  BY <1>1, ConcatAssociative
<1>4. SubSeq(d, 1, n) = c
  <2>1. 1 \in 1..Len(c) /\ n \in 1..Len(c)
    OBVIOUS
  <2>2. SubSeq(d, 1, n) = SubSeq(c, 1, n)
    BY <1>1, <2>1, SubSeqOfConcat1
  <2> QED
    BY <2>2, SubSeqFull
<1> HIDE DEF d
<1>5. q \in Seq(Byte) /\ Len(q) = n + 4 /\ \A i \in 1..2 : q[i] = f[i]
  <2>1. /\ f \o d \in Seq(Byte) /\ Len(f \o d) = Len(f) + Len(d)
        /\ \A i \in 1..Len(f) : (f \o d)[i] = f[i]
    <3>1. /\ f \o d \in Seq(Byte) /\ Len(f \o d) = Len(f) + Len(d)
          /\ \A i \in 1..(Len(f) + Len(d)) :
                (f \o d)[i] = IF i <= Len(f) THEN f[i] ELSE d[i - Len(f)]
      BY <1>1, <1>2, ConcatProperties, Zenon
    <3>2. \A i \in 1..Len(f) : i \in 1..(Len(f) + Len(d)) /\ i <= Len(f)
      BY <1>1, <1>2
    <3> QED
      BY <3>1, <3>2, Zenon
  <2> QED
    BY <1>1, <1>2, <1>3, <2>1
<1>6. SubSeq(q, 3, n + 4) = SubSeq(d, 1, n + 2) /\ SubSeq(q, 3, n + 2) = SubSeq(d, 1, n)
  <2>1. \A i \in 1..(n + 2) : d[i] \in Byte /\ q[i + 2] = d[i]
    <3> SUFFICES ASSUME NEW i \in 1..(n + 2) PROVE d[i] \in Byte /\ q[i + 2] = d[i]
      OBVIOUS
    <3>1. \A j \in 1..(Len(f) + Len(d)) :
             (f \o d)[j] = IF j <= Len(f) THEN f[j] ELSE d[j - Len(f)]
      BY <1>1, <1>2, ConcatProperties, Zenon
    <3>2. i \in 1..Len(d) /\ i + 2 \in 1..(2 + Len(d)) /\ ~(i + 2 <= 2) /\ (i + 2) - 2 = i
      BY <1>2
    <3>3. i + 2 \in 1..(Len(f) + Len(d)) /\ ~(i + 2 <= Len(f)) /\ (i + 2) - Len(f) = i
      BY <1>1, <3>2
    <3>4. (f \o d)[i + 2] = d[i]
      BY <3>1, <3>3, Zenon
    <3>5. d[i] \in Byte
      BY <1>2, <3>2, ElementOfSeq
    <3> QED
      BY <1>3, <3>4, <3>5
  <2>2. n + 2 \in Nat /\ (n + 2) + 2 = n + 4 /\ \A i \in 1..n : i \in 1..(n + 2)
    OBVIOUS
  <2>3. SubSeq(q, 3, (n + 2) + 2) = SubSeq(d, 1, n + 2)
    BY <2>1, <2>2, FromThird
  <2>4. SubSeq(q, 3, n + 2) = SubSeq(d, 1, n)
    BY <2>1, <2>2, FromThird
  <2> QED
    BY <2>2, <2>3, <2>4
<1>7. SubSeq(d, 1, n + 2) = d
  BY <1>2, SubSeqFull
<1>8. q[1] = f[1] /\ q[2] = f[2]
  BY <1>5
<1> QED
  BY <1>4, <1>5, <1>6, <1>7, <1>8 DEF d, IsFramed

\* The length and the CRC of a packet, as they are sent.
Frame(p) == Stored(system_port_htons(Bits(Len(Content(p)) + 2)))
Trailer(p) == Stored(system_port_htons(Crc(p)))

\* The parts of a packet: its length, its content, the CRC of its content.
LEMMA PacketShape ==
    ASSUME NEW p \in Payloads
    PROVE  /\ Content(p) \in Seq(Byte) /\ Len(Content(p)) \in Nat \ {0}
           /\ Crc(p) = crc16_port_ccitt({}, Content(p)) /\ Crc(p) \in Word
           /\ Frame(p) \in Byte \X Byte /\ Trailer(p) \in Byte \X Byte
           /\ system_port_ntohs(Loaded(Frame(p))) = Bits(Len(Content(p)) + 2)
           /\ Packet(p) = Frame(p) \o Content(p) \o Trailer(p)
<1>1. p.hdr \in Seq(Byte) /\ p.data \in Seq(Byte) /\ p.hdr # <<>>
  BY PacketAssumption
<1>2. Content(p) \in Seq(Byte) /\ Len(Content(p)) \in Nat \ {0}
  <2>1. Len(p.hdr) \in Nat \ {0} /\ Len(p.data) \in Nat
    BY <1>1, EmptySeq, LenProperties
  <2>2. Content(p) \in Seq(Byte) /\ Len(Content(p)) = Len(p.hdr) + Len(p.data)
    BY <1>1, ConcatProperties, Zenon DEF Content
  <2> DEFINE a == Len(p.hdr)
             b == Len(p.data)
             c == Len(Content(p))
  <2>3. a \in Nat \ {0} /\ b \in Nat /\ c = a + b
    BY <2>1, <2>2
  <2> HIDE DEF a, b, c
  <2>4. c \in Nat \ {0}
    BY <2>3
  <2> QED
    BY <2>2, <2>4 DEF c
<1>3. {} \in Word
  BY DEF Word
<1>4. Crc(p) = crc16_port_ccitt({}, Content(p)) /\ Crc(p) \in Word
  BY <1>1, <1>2, <1>3, CrcChains, CrcWord DEF Crc, Content
<1>5. Bits(Len(Content(p)) + 2) \in Word
  <2>1. Len(Content(p)) + 2 \in Nat
    BY <1>2
  <2> QED
    BY <2>1, BitsWord
<1> QED
  BY <1>2, <1>4, <1>5, NetworkOrder DEF Frame, Trailer, Packet

\* Where they are.
LEMMA PacketParts ==
    ASSUME NEW p \in Payloads, NEW n, n = Len(Packet(p))
    PROVE  /\ Packet(p) \in Seq(Byte) /\ n = Len(Content(p)) + 4
           /\ n \in Nat /\ n > 4
           /\ Packet(p)[1] = Frame(p)[1] /\ Packet(p)[2] = Frame(p)[2]
           /\ SubSeq(Packet(p), 3, n) = Content(p) \o Trailer(p)
           /\ SubSeq(Packet(p), 3, n - 2) = Content(p)
<1> DEFINE m == Len(Content(p))
<1>1. /\ Content(p) \in Seq(Byte) /\ m \in Nat \ {0}
      /\ Frame(p) \in Byte \X Byte /\ Trailer(p) \in Byte \X Byte
      /\ Packet(p) = Frame(p) \o Content(p) \o Trailer(p)
  BY PacketShape
<1>2. /\ Packet(p) \in Seq(Byte) /\ Len(Packet(p)) = m + 4
      /\ Packet(p)[1] = Frame(p)[1] /\ Packet(p)[2] = Frame(p)[2]
      /\ SubSeq(Packet(p), 3, m + 4) = Content(p) \o Trailer(p)
      /\ SubSeq(Packet(p), 3, m + 2) = Content(p)
  <2> DEFINE f == Frame(p)
             c == Content(p)
             t == Trailer(p)
             q == Packet(p)
             k == m
  <2>1. /\ f \in Seq(Byte) /\ c \in Seq(Byte) /\ t \in Seq(Byte)
        /\ Len(f) = 2 /\ Len(t) = 2
        /\ k \in Nat \ {0} /\ k = Len(c) /\ q = (f \o c) \o t
    BY <1>1, Pair
  <2> HIDE DEF f, c, t, q, k
  <2>2. IsFramed(q, f, c, t, k)
    BY <2>1, Framed
  <2> QED
    BY <2>2 DEF IsFramed, f, c, t, q, k
<1> HIDE DEF m
<1>3. n = m + 4 /\ n - 2 = m + 2 /\ n \in Nat /\ n > 4
  BY <1>1, <1>2
<1> QED
  BY <1>2, <1>3 DEF m

\* A packet is complete with its last byte, and no beginning of it that holds
\* the length is.
LEMMA CompleteWhenWhole ==
    ASSUME NEW p \in Payloads, Len(Packet(p)) <= BufSize,
           NEW k \in 3..Len(Packet(p))
    PROVE  Complete(SubSeq(Packet(p), 1, k)) <=> k = Len(Packet(p))
<1> DEFINE q == Packet(p)
           n == Len(q)
           z == SubSeq(q, 1, k)
<1>1. /\ q \in Seq(Byte) /\ n = Len(Content(p)) + 4 /\ n \in Nat
      /\ q[1] = Frame(p)[1] /\ q[2] = Frame(p)[2]
  BY PacketParts
<1>2. n < 65536 /\ Len(Content(p)) + 2 = n - 2 /\ Len(Content(p)) \in Nat
  <2>1. Len(Content(p)) \in Nat
    BY PacketShape
  <2>2. n <= BufSize
    OBVIOUS
  <2> HIDE DEF n
  <2> QED
    BY <1>1, <2>1, <2>2, PacketAssumption
<1>3. Len(z) = k /\ z[1] = q[1] /\ z[2] = q[2]
  <2>1. k \in Nat /\ k > 2 /\ k <= n
    BY <1>1
  <2> HIDE DEF q
  <2>2. \A i \in 1..k : q[i] \in Byte
    BY <1>1, <2>1
  <2>3. /\ Len(z) = IF 1 <= k THEN k - 1 + 1 ELSE 0
        /\ \A i \in 1..(k - 1 + 1) : z[i] = q[1 + i - 1]
    BY <2>1, <2>2, SubSeqProperties
  <2> HIDE DEF z
  <2>4. 1 \in 1..(k - 1 + 1) /\ 2 \in 1..(k - 1 + 1) /\ 1 + 1 - 1 = 1 /\ 1 + 2 - 1 = 2
    BY <2>1
  <2> QED
    BY <2>1, <2>3, <2>4
<1>4. system_port_ntohs(Loaded(z)) = Bits(n - 2)
  <2>1. Loaded(z) = Loaded(Frame(p))
    BY <1>1, <1>3 DEF Loaded
  <2>2. system_port_ntohs(Loaded(Frame(p))) = Bits(Len(Content(p)) + 2)
    BY PacketShape
  <2> HIDE DEF n, z
  <2> QED
    BY <1>2, <2>1, <2>2
<1> HIDE DEF n, z
<1>5. n \in Nat /\ k \in Nat /\ k > 2 /\ k <= n /\ k - 2 < 65536
      /\ k - 2 \in Nat /\ n - 2 \in Nat /\ n - 2 < 65536
  BY <1>1, <1>2 DEF n
<1>6. Complete(z) <=> Bits(n - 2) = Bits(k - 2)
  BY <1>3, <1>4, <1>5 DEF Complete
<1>7. Bits(n - 2) = Bits(k - 2) => n - 2 = k - 2
  BY <1>5, BitsTell
<1>8. n - 2 = k - 2 <=> n = k
  BY <1>5
<1>9. Complete(z) <=> k = n
  BY <1>6, <1>7, <1>8
<1> QED
  BY <1>9 DEF z, n

\* What boot_serial_output builds boot_serial_in_dec accepts.
LEMMA PacketIsPacket ==
    ASSUME NEW p \in Payloads, Len(Packet(p)) <= BufSize
    PROVE  IsPacket(Packet(p))
<1> DEFINE n == Len(Packet(p))
<1>1. /\ Packet(p) \in Seq(Byte) /\ n \in Nat /\ n > 4
      /\ SubSeq(Packet(p), 3, n) = Content(p) \o Trailer(p)
  BY PacketParts
<1>2. Complete(Packet(p))
  <2>1. n \in 3..n
    <3> HIDE DEF n
    <3> QED
      BY <1>1
  <2>2. SubSeq(Packet(p), 1, n) = Packet(p)
    BY <1>1, SubSeqFull
  <2>3. Complete(SubSeq(Packet(p), 1, n))
    BY <2>1, CompleteWhenWhole
  <2> QED
    BY <2>2, <2>3
<1>3. crc16_port_ccitt({}, Content(p) \o Trailer(p)) = {}
  <2>1. {} \in Word
    BY DEF Word
  <2>2. /\ Content(p) \in Seq(Byte) /\ Trailer(p) \in Seq(Byte)
        /\ crc16_port_ccitt({}, Content(p)) = Crc(p) /\ Crc(p) \in Word
    BY PacketShape, Pair
  <2>3. crc16_port_ccitt(Crc(p), Trailer(p)) = {}
    BY <2>2, CrcOfOwnCrc DEF Trailer
  <2> QED
    BY <2>1, <2>2, <2>3, CrcChains
<1> QED
  BY <1>1, <1>2, <1>3 DEF IsPacket

-----------------------------------------------------------------------------
(* Bursts of flipped bits: the CRC is linear, and no step of it loses a bit. *)

\* Exclusive or, bit by bit.
LEMMA Xor ==
    /\ \A x, y, e : e \in SymDiff(x, y) <=> ~(e \in x <=> e \in y)
    /\ \A x, y : SymDiff(x, y) = {} <=> x = y
    /\ \A x, y \in Word : SymDiff(x, y) \in Word
    /\ \A x, y \in Byte : SymDiff(x, y) \in Byte
<1>1. \A x, y, e : e \in SymDiff(x, y) <=> ~(e \in x <=> e \in y)
  BY DEF SymDiff
<1>2. \A x, y : SymDiff(x, y) = {} <=> x = y
  BY DEF SymDiff
<1>3. \A x, y \in Word : SymDiff(x, y) \in Word
  BY DEF SymDiff, Word
<1>4. \A x, y \in Byte : SymDiff(x, y) \in Byte
  BY DEF SymDiff, Byte
<1> QED
  BY <1>1, <1>2, <1>3, <1>4

\* Shifting commutes with flipping bits.
LEMMA ShiftLinear ==
    ASSUME NEW x \in Word, NEW y \in Word
    PROVE  Shift(SymDiff(x, y)) = SymDiff(Shift(x), Shift(y))
<1> DEFINE z == SymDiff(x, y)
           l == Shift(z)
           r == SymDiff(Shift(x), Shift(y))
<1>1. z \in Word /\ Shift(x) \in Word /\ Shift(y) \in Word
  BY Xor, ShiftWord
<1>2. l \in SUBSET (0..15) /\ r \in SUBSET (0..15)
  <2>1. l \in Word /\ r \in Word
    <3> HIDE DEF z
    <3> QED
      BY <1>1, Xor, ShiftWord
  <2> HIDE DEF l, r
  <2> QED
    BY <2>1 DEF Word
<1>3. \A e : e \in z <=> ~(e \in x <=> e \in y)
  BY Xor, Zenon
<1>4. \A e : e \in r <=> ~(e \in Shift(x) <=> e \in Shift(y))
  BY DEF SymDiff
<1> HIDE DEF z, l, r
<1>5. ASSUME NEW e \in 0..15 PROVE e \in l <=> e \in r
  <2> DEFINE i == e - 1
  <2>1. i \in Int /\ i + 1 = e
    OBVIOUS
  <2> HIDE DEF i
  <2>2. \A w \in Word : e \in Shift(w) <=> ~(i \in w <=> (15 \in w /\ e \in {0, 5, 12}))
    BY <2>1, ShiftMember
  <2>3. e \in l <=> ~(i \in z <=> (15 \in z /\ e \in {0, 5, 12}))
    BY <1>1, <2>2 DEF l
  <2>4. /\ e \in Shift(x) <=> ~(i \in x <=> (15 \in x /\ e \in {0, 5, 12}))
        /\ e \in Shift(y) <=> ~(i \in y <=> (15 \in y /\ e \in {0, 5, 12}))
    BY <2>2
  <2> QED
    BY <1>3, <1>4, <2>3, <2>4, Zenon
<1> QED
  BY <1>2, <1>5 DEF z, l, r

\* No shift loses a bit: the polynomial has the term 1, so bit 15 leaves a trace.
LEMMA ShiftLosesNothing ==
    ASSUME NEW x \in Word, Shift(x) = {}
    PROVE  x = {}
<1>1. x \in SUBSET (0..15)
  BY DEF Word
<1>2. \A i \in Int : i + 1 \in 0..15 => (i \in x <=> (15 \in x /\ i + 1 \in {0, 5, 12}))
  BY ShiftMember
<1>3. 15 \notin x
  <2>1. 0 - 1 \notin x
    BY <1>1
  <2>2. 0 - 1 \in Int /\ (0 - 1) + 1 = 0 /\ 0 \in 0..15
    OBVIOUS
  <2> QED
    BY <1>2, <2>1, <2>2
<1>4. ASSUME NEW i \in 0..14 PROVE i \notin x
  <2>1. i \in Int /\ i + 1 \in 0..15
    OBVIOUS
  <2> QED
    BY <1>2, <1>3, <2>1
<1> QED
  BY <1>1, <1>3, <1>4

\* Nor does it matter whether bits are flipped before a byte is taken in or after.
LEMMA WithByteLinear ==
    ASSUME NEW x \in Word, NEW y \in Word, NEW a \in Byte, NEW b \in Byte
    PROVE  WithByte(SymDiff(x, y), SymDiff(a, b)) = SymDiff(WithByte(x, a), WithByte(y, b))
<1> DEFINE z == SymDiff(x, y)
           c == SymDiff(a, b)
<1>1. z \in Word /\ c \in Byte
  BY Xor
<1>2. PICK s \in [0..8 -> Word] :
         /\ s[0] = SymDiff(x, ShiftLeft(a, 8))
         /\ \A j \in 1..8 : s[j] = Shift(s[j - 1])
         /\ WithByte(x, a) = s[8]
  BY WithByteSteps
<1>3. PICK t \in [0..8 -> Word] :
         /\ t[0] = SymDiff(y, ShiftLeft(b, 8))
         /\ \A j \in 1..8 : t[j] = Shift(t[j - 1])
         /\ WithByte(y, b) = t[8]
  BY WithByteSteps
<1>4. PICK u \in [0..8 -> Word] :
         /\ u[0] = SymDiff(z, ShiftLeft(c, 8))
         /\ \A j \in 1..8 : u[j] = Shift(u[j - 1])
         /\ WithByte(z, c) = u[8]
  BY <1>1, WithByteSteps
<1> DEFINE T == {j \in Nat : j <= 8 => u[j] = SymDiff(s[j], t[j])}
<1>5. 0 \in T
  <2>1. a \in SUBSET Int /\ b \in SUBSET Int /\ c \in SUBSET Int
    BY <1>1 DEF Byte
  <2>2. ShiftLeft(a, 8) \in SUBSET Int /\ ShiftLeft(b, 8) \in SUBSET Int
        /\ ShiftLeft(c, 8) \in SUBSET Int
    BY <2>1 DEF ShiftLeft
  <2>3. \A e \in Int : e \in ShiftLeft(c, 8) <=> ~(e \in ShiftLeft(a, 8) <=> e \in ShiftLeft(b, 8))
    <3>1. ASSUME NEW e \in Int
          PROVE  e \in ShiftLeft(c, 8) <=> ~(e \in ShiftLeft(a, 8) <=> e \in ShiftLeft(b, 8))
      <4>1. /\ e \in ShiftLeft(a, 8) <=> e - 8 \in a
            /\ e \in ShiftLeft(b, 8) <=> e - 8 \in b
            /\ e \in ShiftLeft(c, 8) <=> e - 8 \in c
        BY <2>1, ShiftLeftMember
      <4>2. e - 8 \in c <=> ~(e - 8 \in a <=> e - 8 \in b)
        BY DEF SymDiff
      <4> QED
        BY <4>1, <4>2, Zenon
    <3> QED
      BY <3>1
  <2> DEFINE A == ShiftLeft(a, 8)
             B == ShiftLeft(b, 8)
             C == ShiftLeft(c, 8)
  <2>4. C = SymDiff(A, B)
    <3> HIDE DEF A, B, C
    <3>1. \A e \in Int : e \in C <=> ~(e \in A <=> e \in B)
      BY <2>3 DEF A, B, C
    <3>2. A \in SUBSET Int /\ B \in SUBSET Int /\ C \in SUBSET Int
      BY <2>2 DEF A, B, C
    <3> QED
      BY <3>1, <3>2 DEF SymDiff
  <2>5. u[0] = SymDiff(SymDiff(x, y), SymDiff(A, B))
    BY <1>4, <2>4
  <2> HIDE DEF A, B
  <2>6. SymDiff(SymDiff(x, y), SymDiff(A, B)) = SymDiff(SymDiff(x, A), SymDiff(y, B))
    BY DEF SymDiff
  <2> QED
    BY <1>2, <1>3, <2>5, <2>6 DEF A, B
<1>6. ASSUME NEW j \in Nat, j \in T PROVE j + 1 \in T
  <2> SUFFICES ASSUME j + 1 <= 8 PROVE u[j + 1] = SymDiff(s[j + 1], t[j + 1])
    OBVIOUS
  <2>1. j \in 0..8 /\ j + 1 \in 1..8 /\ (j + 1) - 1 = j /\ u[j] = SymDiff(s[j], t[j])
    BY <1>6
  <2>2. s[j] \in Word /\ t[j] \in Word
    BY <2>1
  <2>3. Shift(u[j]) = SymDiff(Shift(s[j]), Shift(t[j]))
    BY <2>1, <2>2, ShiftLinear
  <2>4. u[j + 1] = Shift(u[j]) /\ s[j + 1] = Shift(s[j]) /\ t[j + 1] = Shift(t[j])
    BY <1>2, <1>3, <1>4, <2>1
  <2> QED
    BY <2>3, <2>4
<1>7. 8 \in T
  <2> HIDE DEF T
  <2> QED
    BY <1>5, <1>6, SetInduction
<1>8. u[8] = SymDiff(s[8], t[8])
  BY <1>7
<1> QED
  BY <1>2, <1>3, <1>4, <1>8

\* Only a byte that equals the upper half of the CRC makes it 0.
LEMMA WithByteLosesNothing ==
    ASSUME NEW crc \in Word, NEW byte \in Byte, WithByte(crc, byte) = {}
    PROVE  crc = ShiftLeft(byte, 8)
<1>1. PICK s \in [0..8 -> Word] :
         /\ s[0] = SymDiff(crc, ShiftLeft(byte, 8))
         /\ \A j \in 1..8 : s[j] = Shift(s[j - 1])
         /\ WithByte(crc, byte) = s[8]
  BY WithByteSteps
<1> DEFINE T == {k \in Nat : k <= 8 => s[8 - k] = {}}
<1>2. 0 \in T
  BY <1>1
<1>3. ASSUME NEW k \in Nat, k \in T PROVE k + 1 \in T
  <2> SUFFICES ASSUME k + 1 <= 8 PROVE s[8 - (k + 1)] = {}
    OBVIOUS
  <2>1. PICK j \in 1..8 : j = 8 - k
    OBVIOUS
  <2>2. j - 1 = 8 - (k + 1) /\ j - 1 \in 0..8 /\ s[j] = {}
    BY <1>3, <2>1
  <2>3. Shift(s[j - 1]) = {} /\ s[j - 1] \in Word
    BY <1>1, <2>2
  <2> QED
    BY <2>2, <2>3, ShiftLosesNothing
<1>4. 8 \in T
  <2> HIDE DEF T
  <2> QED
    BY <1>2, <1>3, SetInduction
<1>5. s[0] = {}
  BY <1>4
<1> QED
  BY <1>1, <1>5 DEF SymDiff

\* A byte in the lower half goes to the upper one.
LEMMA WithByteLow ==
    ASSUME NEW low \in Byte
    PROVE  low \in Word /\ WithByte(low, {}) = ShiftLeft(low, 8)
<1>1. low \in Word /\ {} \in Byte /\ low \in SUBSET (0..7)
  BY DEF Word, Byte
<1>2. PICK s \in [0..8 -> Word] :
         /\ s[0] = SymDiff(low, ShiftLeft({}, 8))
         /\ \A j \in 1..8 : s[j] = Shift(s[j - 1])
         /\ WithByte(low, {}) = s[8]
  BY <1>1, WithByteSteps
<1> DEFINE T == {n \in Nat : n <= 8 => s[n] = ShiftLeft(low, n)}
<1>3. 0 \in T
  <2>1. ShiftLeft({}, 8) = {} /\ ShiftLeft(low, 0) = low
    BY <1>1 DEF ShiftLeft
  <2> QED
    BY <1>2, <2>1 DEF SymDiff
<1>4. ASSUME NEW n \in Nat, n \in T PROVE n + 1 \in T
  <2> SUFFICES ASSUME n + 1 <= 8 PROVE s[n + 1] = ShiftLeft(low, n + 1)
    OBVIOUS
  <2>1. n \in 0..7 /\ n + 1 \in 1..8 /\ (n + 1) - 1 = n /\ s[n] = ShiftLeft(low, n)
    BY <1>4
  <2>2. s[n + 1] = Shift(s[n])
    BY <1>2, <2>1
  <2> QED
    BY <1>1, <2>1, <2>2, ShiftLow
<1>5. 8 \in T
  <2> HIDE DEF T
  <2> QED
    BY <1>3, <1>4, SetInduction
<1> QED
  BY <1>1, <1>2, <1>5

\* Two bytes in a row that differ make two CRCs differ that were the same.
LEMMA TwoBytesTell ==
    ASSUME NEW a \in Byte, NEW b \in Byte, WithByte(WithByte({}, a), b) = {}
    PROVE  a = {} /\ b = {}
<1>1. {} \in Word /\ {} \in Byte
  BY DEF Word, Byte
<1>2. WithByte({}, a) = ShiftLeft(b, 8)
  BY <1>1, WithByteWord, WithByteLosesNothing
<1>3. b \in Word /\ WithByte(b, {}) = ShiftLeft(b, 8)
  BY WithByteLow
<1>4. WithByte(SymDiff({}, b), SymDiff(a, {})) = SymDiff(ShiftLeft(b, 8), ShiftLeft(b, 8))
  BY <1>1, <1>2, <1>3, WithByteLinear
<1>5. SymDiff({}, b) = b /\ SymDiff(a, {}) = a
  BY DEF SymDiff
<1>6. SymDiff(ShiftLeft(b, 8), ShiftLeft(b, 8)) = {}
  BY DEF SymDiff
<1>7. b = ShiftLeft(a, 8)
  <2>1. WithByte(b, a) = {}
    BY <1>4, <1>5, <1>6
  <2> QED
    BY <1>3, <2>1, WithByteLosesNothing
<1>8. \A e \in a : e + 8 \in b /\ e \in 0..7
  BY <1>7 DEF ShiftLeft, Byte
<1>9. \A e \in b : e \in 0..7
  BY DEF Byte
<1>10. a = {}
  BY <1>8, <1>9
<1> QED
  BY <1>7, <1>10 DEF ShiftLeft

\* The CRC of data with a burst of flipped bits is another one: before the burst
\* nothing differs, and behind it what differs is never lost.
LEMMA BurstTells ==
    ASSUME NEW s \in Seq(Byte), NEW t \in Seq(Byte), Len(s) = Len(t),
           NEW k \in 1..Len(s),
           \A i \in 1..Len(s) : i \notin {k, k + 1} => s[i] = t[i],
           crc16_port_ccitt({}, s) = crc16_port_ccitt({}, t)
    PROVE  s = t
<1> DEFINE L == Len(s)
           E(i) == SymDiff(s[i], t[i])
<1>1. {} \in Word /\ {} \in Byte
  BY DEF Word, Byte
<1>2. L \in Nat /\ L >= 1 /\ k \in 1..L /\ \A i \in 1..L : s[i] \in Byte /\ t[i] \in Byte
  OBVIOUS
<1>3. \A i \in 1..L : E(i) \in Byte /\ (E(i) = {} <=> s[i] = t[i])
  BY <1>2, Xor
<1>4. \A i \in 1..L : i \notin {k, k + 1} => E(i) = {}
  BY <1>3
<1>5. PICK f : IsCrc(f, {}, s) /\ crc16_port_ccitt({}, s) = f[L]
  BY <1>1, CrcSteps
<1>6. PICK g : IsCrc(g, {}, t) /\ crc16_port_ccitt({}, t) = g[L]
  BY <1>1, CrcSteps
<1>7. /\ \A i \in 0..L : f[i] \in Word /\ g[i] \in Word
      /\ f[0] = {} /\ g[0] = {} /\ f[L] = g[L]
      /\ \A i \in 1..L : f[i] = WithByte(f[i - 1], s[i]) /\ g[i] = WithByte(g[i - 1], t[i])
  BY <1>5, <1>6 DEF IsCrc
<1> DEFINE D(i) == SymDiff(f[i], g[i])
<1>8. \A i \in 0..L : D(i) \in Word
  BY <1>7, Xor
<1>9. D(0) = {} /\ D(L) = {}
  BY <1>7 DEF SymDiff
<1>10. \A i \in 1..L : D(i) = WithByte(D(i - 1), E(i))
  <2> SUFFICES ASSUME NEW i \in 1..L PROVE D(i) = WithByte(D(i - 1), E(i))
    OBVIOUS
  <2>1. i - 1 \in 0..L
    BY <1>2
  <2> QED
    BY <1>2, <1>7, <2>1, WithByteLinear
<1> HIDE DEF D, E, L
<1>11. WithByte({}, {}) = {}
  <2>1. WithByte({}, {}) = ShiftLeft({}, 8)
    BY <1>1, WithByteLow
  <2> QED
    BY <2>1 DEF ShiftLeft
<1>12. D(k - 1) = {}
  <2> DEFINE T == {n \in Nat : n <= k - 1 => D(n) = {}}
  <2>1. 0 \in T
    BY <1>9
  <2>2. ASSUME NEW n \in Nat, n \in T PROVE n + 1 \in T
    <3> SUFFICES ASSUME n + 1 <= k - 1 PROVE D(n + 1) = {}
      OBVIOUS
    <3>1. D(n) = {} /\ n + 1 \in 1..L /\ (n + 1) - 1 = n /\ n + 1 \notin {k, k + 1}
      BY <1>2, <2>2
    <3> QED
      BY <1>4, <1>10, <1>11, <3>1
  <2>3. k - 1 \in Nat
    BY <1>2
  <2>4. k - 1 \in T
    <3> HIDE DEF T
    <3> QED
      BY <2>1, <2>2, <2>3, SetInduction
  <2> QED
    BY <2>3, <2>4
<1>13. ASSUME NEW m \in k..L, \A i \in (m + 1)..L : i \notin {k, k + 1}
       PROVE  D(m) = {}
  <2> DEFINE T == {n \in Nat : n <= L - m => D(L - n) = {}}
  <2>1. 0 \in T
    BY <1>2, <1>9
  <2>2. ASSUME NEW n \in Nat, n \in T PROVE n + 1 \in T
    <3> SUFFICES ASSUME n + 1 <= L - m PROVE D(L - (n + 1)) = {}
      OBVIOUS
    <3>1. PICK i \in (m + 1)..L : i = L - n
      BY <1>2
    <3>2. /\ D(i) = {} /\ i \in 1..L /\ i - 1 = L - (n + 1) /\ i - 1 \in 0..L
      BY <1>2, <2>2, <3>1
    <3>3. E(i) = {}
      BY <1>4, <1>13, <3>2
    <3>4. WithByte(D(i - 1), {}) = {} /\ D(i - 1) \in Word
      BY <1>8, <1>10, <3>2, <3>3
    <3>5. D(i - 1) = ShiftLeft({}, 8)
      BY <1>1, <3>4, WithByteLosesNothing
    <3> QED
      BY <3>2, <3>5 DEF ShiftLeft
  <2>3. L - m \in Nat /\ L - (L - m) = m
    BY <1>2
  <2>4. L - m \in T
    <3> HIDE DEF T
    <3> QED
      BY <2>1, <2>2, <2>3, SetInduction
  <2> QED
    BY <2>3, <2>4
<1>14. D(k) = WithByte({}, E(k)) /\ E(k) \in Byte
  BY <1>2, <1>3, <1>10, <1>12
<1>15. CASE k = L
  <2>1. D(k) = {}
    BY <1>9, <1>15
  <2>2. {} = ShiftLeft(E(k), 8)
    BY <1>1, <1>14, <2>1, WithByteLosesNothing
  <2>3. E(k) = {}
    BY <2>2 DEF ShiftLeft
  <2>4. \A i \in 1..L : E(i) = {}
    BY <1>2, <1>4, <1>15, <2>3
  <2> QED
    BY <1>3, <2>4, SeqEqual DEF L
<1>16. CASE k # L
  <2>1. k + 1 \in k..L /\ k + 1 \in 1..L /\ (k + 1) - 1 = k
    BY <1>2, <1>16
  <2>2. D(k + 1) = {}
    <3>1. \A i \in ((k + 1) + 1)..L : i \notin {k, k + 1}
      BY <1>2
    <3> QED
      BY <1>13, <2>1, <3>1
  <2>3. WithByte(WithByte({}, E(k)), E(k + 1)) = {} /\ E(k + 1) \in Byte
    BY <1>3, <1>10, <1>14, <2>1, <2>2
  <2>4. E(k) = {} /\ E(k + 1) = {}
    BY <1>14, <2>3, TwoBytesTell
  <2>5. \A i \in 1..L : E(i) = {}
    BY <1>4, <2>4
  <2> QED
    BY <1>3, <2>5, SeqEqual DEF L
<1> QED
  BY <1>15, <1>16

\* Two bytes are read as a length in one way only.
LEMMA LengthTells ==
    ASSUME NEW s, NEW t, s[1] \in Byte, s[2] \in Byte, t[1] \in Byte, t[2] \in Byte,
           Swapped(Loaded(s)) = Swapped(Loaded(t))
    PROVE  s[1] = t[1] /\ s[2] = t[2]
<1>1. \A u : u[1] \in Byte /\ u[2] \in Byte =>
         \A b \in 0..7 : /\ b + 8 \in Swapped(Loaded(u)) <=> b \in u[1]
                         /\ b \in Swapped(Loaded(u)) <=> b \in u[2]
  <2> SUFFICES ASSUME NEW u, u[1] \in Byte, u[2] \in Byte, NEW b \in 0..7
               PROVE  /\ b + 8 \in Swapped(Loaded(u)) <=> b \in u[1]
                      /\ b \in Swapped(Loaded(u)) <=> b \in u[2]
    OBVIOUS
  <2> DEFINE v == u[1]
             w == u[2]
             x == v \cup ShiftLeft(w, 8)
  <2>1. v \in SUBSET (0..7) /\ w \in SUBSET (0..7) /\ w \in SUBSET Int
    BY DEF Byte
  <2>2. Loaded(u) = x
    BY DEF Loaded
  <2> HIDE DEF v, w
  <2>3. \A e \in Int : e \in x <=> e \in v \/ e - 8 \in w
    BY <2>1, ShiftLeftMember
  <2>4. x \in SUBSET Int
    <3>1. ShiftLeft(w, 8) \in SUBSET Int /\ v \in SUBSET Int
      BY <2>1 DEF ShiftLeft
    <3> QED
      BY <3>1
  <2> HIDE DEF x
  <2>5. \A c \in x : c \in 0..15
    BY <2>1, <2>3, <2>4
  <2>6. b + 8 \in Swapped(x) <=> b \in v
    <3>1. ASSUME b + 8 \in Swapped(x) PROVE b \in v
      <4>1. PICK c \in x : b + 8 = IF c < 8 THEN c + 8 ELSE c - 8
        BY <3>1 DEF Swapped
      <4>2. c \in 0..15 /\ c = b /\ c - 8 \notin w
        BY <2>1, <2>5, <4>1
      <4> QED
        BY <2>3, <4>2
    <3>2. ASSUME b \in v PROVE b + 8 \in Swapped(x)
      <4>1. b \in x /\ b < 8
        BY <2>3, <3>2
      <4> QED
        BY <4>1 DEF Swapped
    <3> QED
      BY <3>1, <3>2
  <2>7. b \in Swapped(x) <=> b \in w
    <3>1. ASSUME b \in Swapped(x) PROVE b \in w
      <4>1. PICK c \in x : b = IF c < 8 THEN c + 8 ELSE c - 8
        BY <3>1 DEF Swapped
      <4>2. c \in 0..15 /\ c - 8 = b /\ c \notin v
        BY <2>1, <2>5, <4>1
      <4> QED
        BY <2>3, <4>2
    <3>2. ASSUME b \in w PROVE b \in Swapped(x)
      <4>1. b + 8 \in Int /\ (b + 8) - 8 = b /\ ~(b + 8 < 8)
        OBVIOUS
      <4>2. b + 8 \in x
        BY <2>3, <3>2, <4>1
      <4> QED
        BY <4>1, <4>2 DEF Swapped
    <3> QED
      BY <3>1, <3>2
  <2> QED
    BY <2>2, <2>6, <2>7 DEF v, w
<1>2. \A b \in 0..7 : (b \in s[1] <=> b \in t[1]) /\ (b \in s[2] <=> b \in t[2])
  BY <1>1
<1>3. s[1] \in SUBSET (0..7) /\ s[2] \in SUBSET (0..7)
      /\ t[1] \in SUBSET (0..7) /\ t[2] \in SUBSET (0..7)
  BY DEF Byte
<1> QED
  BY <1>2, <1>3

\* Outside of one byte or two neighbouring bytes s is as t.
Near(s, t) == \E k \in 1..Len(s) : \A i \in 1..Len(s) : i \notin {k, k + 1} => s[i] = t[i]

\* Two packets that differ in no more than two neighbouring bytes are the same.
LEMMA NearIsSame ==
    ASSUME NEW s \in Seq(Byte), NEW t \in Seq(Byte), Len(s) = Len(t),
           IsPacket(s), IsPacket(t), Near(s, t)
    PROVE  s = t
<1> DEFINE n == Len(s)
           m == n - 2
           p == SubSeq(s, 3, n)
           q == SubSeq(t, 3, n)
<1>1. /\ n \in Nat /\ n > 4 /\ DOMAIN s = 1..n /\ \A i \in 1..n : s[i] \in Byte
  BY LenProperties, ElementOfSeq DEF IsPacket
<1>2. t \in Seq(Byte) /\ Len(t) = n /\ \A i \in 1..n : t[i] \in Byte
  BY ElementOfSeq
<1>3. PICK k \in 1..n : \A i \in 1..n : i \notin {k, k + 1} => t[i] = s[i]
  BY DEF Near
<1>4. Swapped(Loaded(s)) = Swapped(Loaded(t))
  BY <1>2 DEF IsPacket, Complete, system_port_ntohs
<1>5. s[1] = t[1] /\ s[2] = t[2]
  BY <1>1, <1>2, <1>4, LengthTells
<1>6. crc16_port_ccitt({}, p) = crc16_port_ccitt({}, q)
  BY <1>2 DEF IsPacket
<1> HIDE DEF n
<1>7. /\ p \in Seq(Byte) /\ q \in Seq(Byte) /\ Len(p) = m /\ Len(q) = m
      /\ \A i \in 1..m : p[i] = s[i + 2] /\ q[i] = t[i + 2]
  <2>1. /\ 3 \in Int /\ n \in Int /\ \A i \in 3..n : s[i] \in Byte /\ t[i] \in Byte
    BY <1>1, <1>2
  <2>2. /\ p \in Seq(Byte) /\ Len(p) = (IF 3 <= n THEN n - 3 + 1 ELSE 0)
        /\ \A i \in 1..(n - 3 + 1) : p[i] = s[3 + i - 1]
    BY <2>1, SubSeqProperties
  <2>3. /\ q \in Seq(Byte) /\ Len(q) = (IF 3 <= n THEN n - 3 + 1 ELSE 0)
        /\ \A i \in 1..(n - 3 + 1) : q[i] = t[3 + i - 1]
    BY <2>1, SubSeqProperties
  <2> HIDE DEF p, q
  <2>4. n - 3 + 1 = m /\ 3 <= n /\ \A i \in 1..m : 3 + i - 1 = i + 2
    BY <1>1
  <2> HIDE DEF m
  <2> QED
    BY <2>2, <2>3, <2>4
<1> HIDE DEF p, q
<1>8. m \in Nat /\ m >= 1 /\ n = m + 2 /\ \A i \in 1..m : i + 2 \in 1..n
  BY <1>1
<1> HIDE DEF m
<1>9. \E j \in 1..m : \A i \in 1..m : i \notin {j, j + 1} => p[i] = q[i]
  <2>1. CASE k > 2
    <3>1. k - 2 \in 1..m
      BY <1>1, <1>8, <2>1 DEF n
    <3>2. \A i \in 1..m : i \notin {k - 2, (k - 2) + 1} => i + 2 \notin {k, k + 1}
      BY <2>1
    <3>3. \A i \in 1..m : i \notin {k - 2, (k - 2) + 1} => p[i] = q[i]
      BY <1>3, <1>7, <1>8, <3>2
    <3> QED
      BY <3>1, <3>3
  <2>2. CASE ~(k > 2)
    <3>1. 1 \in 1..m /\ \A i \in 1..m : i \notin {1, 1 + 1} => i + 2 \notin {k, k + 1}
      BY <1>1, <1>8, <2>2 DEF n
    <3>2. \A i \in 1..m : i \notin {1, 1 + 1} => p[i] = q[i]
      BY <1>3, <1>7, <1>8, <3>1
    <3> QED
      BY <3>1, <3>2
  <2> QED
    BY <2>1, <2>2
<1>10. p = q
  <2>1. PICK j \in 1..m : \A i \in 1..m : i \notin {j, j + 1} => p[i] = q[i]
    BY <1>9
  <2> QED
    BY <1>6, <1>7, <2>1, BurstTells
<1>11. \A i \in 1..n : s[i] = t[i]
  <2> SUFFICES ASSUME NEW i \in 1..n PROVE s[i] = t[i]
    OBVIOUS
  <2>1. CASE i \in 1..2
    BY <1>5, <2>1
  <2>2. CASE i \notin 1..2
    <3>1. i - 2 \in 1..m /\ (i - 2) + 2 = i
      BY <1>8, <2>2
    <3>2. p[i - 2] = s[i] /\ q[i - 2] = t[i]
      BY <1>7, <3>1
    <3> QED
      BY <1>10, <3>2
  <2> QED
    BY <2>1, <2>2
<1> QED
  BY <1>2, <1>11, SeqEqual DEF n

\* A burst in a packet is noticed: if bits of one byte or of two neighbouring
\* bytes are flipped, wherever, it is no packet any more.
THEOREM BurstNoticed ==
    ASSUME NEW s \in Seq(Byte), IsPacket(s),
           NEW k \in 1..Len(s), NEW mask \in Byte \X Byte, Flipped(s, k, mask) # s
    PROVE  ~IsPacket(Flipped(s, k, mask))
<1> DEFINE t == Flipped(s, k, mask)
<1>1. DOMAIN s = 1..Len(s) /\ Len(s) \in Nat /\ \A i \in 1..Len(s) : s[i] \in Byte
  BY LenProperties, ElementOfSeq
<1>2. t \in [1..Len(s) -> Byte]
  <2>1. mask[1] \in Byte /\ mask[2] \in Byte
    OBVIOUS
  <2> QED
    BY <1>1, <2>1, Xor DEF Flipped
<1>3. \A i \in 1..Len(s) : i \notin {k, k + 1} => s[i] = t[i]
  BY <1>1 DEF Flipped
<1> HIDE DEF t
<1>4. t \in Seq(Byte) /\ Len(t) = Len(s)
  BY <1>1, <1>2
<1>5. Near(s, t)
  BY <1>3 DEF Near
<1>6. IsPacket(t) => s = t
  BY <1>4, <1>5, NearIsSame
<1> QED
  BY <1>6 DEF t

-----------------------------------------------------------------------------
(* The two sides *)

\* The buffer for the encoded packet is large enough for every packet that the
\* sender's buffer can hold (BASE64_ENCODE_SIZE).
LEMMA EncodeFits ==
    ASSUME NEW n \in Nat, n <= BufSize
    PROVE  base64_port_encode(BASE64_ENCODE_SIZE(BufSize), n) = "0"
<1>1. BufSize \in Nat \ {0}
  BY PacketAssumption
<1>2. ((n + 2) \div 3) * 4 + 1 <= ((BufSize - 1) \div 3) * 4 + 4 + 1
  BY <1>1
<1> QED
  BY <1>2 DEF base64_port_encode, BASE64_ENCODE_SIZE

\* A line ends after LineBytes bytes, or with the packet.
LEMMA LineEndIs ==
    ASSUME off \in Nat, Len(packet) \in Nat
    PROVE  LineEnd = IF off + LineBytes <= Len(packet) THEN off + LineBytes
                     ELSE Len(packet)
<1> DEFINE a == off + LineBytes
           b == Len(packet)
<1>1. a \in Nat /\ b \in Nat
  BY PacketAssumption
<1>2. LineEnd = Min({a, b})
  BY DEF LineEnd
<1> HIDE DEF a, b
<1>3. \E x \in {a, b} : \A y \in {a, b} : x <= y
  BY <1>1
<1>4. Min({a, b}) \in {a, b} /\ \A y \in {a, b} : Min({a, b}) <= y
  BY <1>3 DEF Min
<1>5. LineEnd = IF a <= b THEN a ELSE b
  BY <1>1, <1>2, <1>4
<1> QED
  BY <1>5 DEF a, b

\* Every line carries a byte, and the first one the length of the packet.
LEMMA LineSpan ==
    ASSUME packet \in Seq(Byte), off \in 0..Len(packet), off < Len(packet)
    PROVE  /\ LineEnd \in (off + 1)..Len(packet)
           /\ Len(packet) >= 3 => LineEnd >= 3
           /\ Line.bytes \in Seq(Byte) /\ Len(Line.bytes) = LineEnd - off
           /\ Line.start = (off = 0) /\ Line.readable = encoded
<1> DEFINE n == Len(packet)
           e == LineEnd
           z == SubSeq(packet, off + 1, e)
<1>1. n \in Nat /\ off \in Nat /\ off < n
  OBVIOUS
<1>2. LineBytes \in Nat /\ LineBytes >= 3
  BY PacketAssumption
<1>3. e = IF off + LineBytes <= n THEN off + LineBytes ELSE n
  BY <1>1, LineEndIs
<1>4. \A i \in 1..n : packet[i] \in Byte
  OBVIOUS
<1> HIDE DEF n, e
<1>5. e \in (off + 1)..n /\ (n >= 3 => e >= 3)
  BY <1>1, <1>2, <1>3
<1>6. z \in Seq(Byte) /\ Len(z) = (IF off + 1 <= e THEN e - (off + 1) + 1 ELSE 0)
  <2>1. off + 1 \in Int /\ e \in Int /\ \A i \in (off + 1)..e : i \in 1..n
    BY <1>1, <1>5
  <2> QED
    BY <1>4, <2>1, SubSeqProperties
<1> HIDE DEF z
<1>7. Len(z) = e - off
  BY <1>1, <1>5, <1>6
<1> QED
  BY <1>5, <1>6, <1>7 DEF Line, z, e, n

\* Bytes with flipped bits are bytes.
LEMMA FlippedBytes ==
    ASSUME NEW s \in Seq(Byte), NEW k, NEW mask \in Masks
    PROVE  Flipped(s, k, mask) \in Seq(Byte)
<1>1. mask[1] \in Byte /\ mask[2] \in Byte
  BY PacketAssumption
<1>2. \A b, m \in Byte : SymDiff(b, m) \in Byte
  BY DEF Byte, SymDiff
<1>3. DOMAIN s = 1..Len(s) /\ Len(s) \in Nat /\ \A i \in DOMAIN s : s[i] \in Byte
  BY LenProperties, ElementOfSeq
<1>4. Flipped(s, k, mask) \in [1..Len(s) -> Byte]
  BY <1>1, <1>2, <1>3 DEF Flipped
<1> QED
  BY <1>3, <1>4

\* Whatever the line, what is decoded stays in its buffer.
LEMMA ReceiveFits ==
    ASSUME NEW line, line.bytes \in Seq(Byte),
           out \in Seq(Byte), Len(out) <= MaxOut, boot_serial_in_dec(line)
    PROVE  out' \in Seq(Byte) /\ Len(out') <= MaxOut
<1> DEFINE before == IF line.start THEN <<>> ELSE out
           bytes == before \o line.bytes
<1>1. before \in Seq(Byte) /\ Len(before) <= MaxOut /\ Len(before) \in Nat
  <2>1. <<>> \in Seq(Byte) /\ Len(<<>>) = 0 /\ MaxOut \in Nat
    BY PacketAssumption
  <2> QED
    BY <2>1
<1>2. /\ bytes \in Seq(Byte) /\ Len(bytes) = Len(before) + Len(line.bytes)
      /\ Len(line.bytes) \in Nat
  <2> HIDE DEF before
  <2> QED
    BY <1>1, ConcatProperties, LenProperties, Zenon
<1>3. \/ out' = before
      \/ /\ Len(line.bytes) <= MaxOut - Len(before)
         /\ out' = bytes \/ (IsPacket(bytes) /\ out' = SubSeq(bytes, 1, Len(bytes) - 2))
  BY DEF boot_serial_in_dec, base64_port_decode, Room
<1> HIDE DEF bytes, before
<1>4. CASE out' = before
  BY <1>1, <1>4
<1>5. ASSUME Len(line.bytes) <= MaxOut - Len(before) PROVE Len(bytes) <= MaxOut
  BY <1>1, <1>2, <1>5, PacketAssumption
<1>6. ASSUME IsPacket(bytes), Len(bytes) <= MaxOut,
             out' = SubSeq(bytes, 1, Len(bytes) - 2)
      PROVE  out' \in Seq(Byte) /\ Len(out') <= MaxOut
  <2> DEFINE n == Len(bytes)
             m == n - 2
  <2>1. n \in Nat /\ n > 4 /\ n <= MaxOut /\ \A i \in 1..n : bytes[i] \in Byte
    BY <1>2, <1>6, LenProperties, ElementOfSeq DEF IsPacket
  <2> HIDE DEF n
  <2>2. m \in Int /\ m = n - 2 /\ 1 \in Int /\ \A i \in 1..m : i \in 1..n
    BY <2>1
  <2>3. out' = SubSeq(bytes, 1, m)
    BY <1>6 DEF n
  <2> HIDE DEF m
  <2>4. out' \in Seq(Byte) /\ Len(out') = IF 1 <= m THEN m - 1 + 1 ELSE 0
    BY <2>1, <2>2, <2>3, SubSeqProperties
  <2> QED
    BY <2>1, <2>2, <2>4, PacketAssumption
<1> QED
  BY <1>2, <1>3, <1>4, <1>5, <1>6

-----------------------------------------------------------------------------
(* The inductive invariant: the packet that is being sent is the one of the *)
(* payload and was encoded, and unless a line was damaged, the receiver has  *)
(* decoded exactly the bytes whose lines were sent, or has accepted them.    *)

Types ==
    /\ payload \in Payloads /\ packet \in Seq(Byte) /\ encoded \in BOOLEAN
    /\ off \in 0..Len(packet)
    /\ out \in Seq(Byte) /\ Len(out) <= MaxOut
    /\ damaged \in BOOLEAN /\ packets \in Nat

Sent ==
    IF packets = 0 THEN packet = <<>>
    ELSE packet = Packet(payload) /\ encoded /\ Len(packet) <= BufSize

Followed ==
    packets > 0 /\ ~damaged /\ Len(packet) <= MaxOut =>
        /\ off \notin {0, Len(packet)} => out = SubSeq(packet, 1, off)
        /\ off = Len(packet) => accepted = Content(payload)

Inv == Types /\ Sent /\ Followed

\* It holds at the start.
LEMMA InvInit == Init => Inv
<1> SUFFICES ASSUME Init PROVE Inv
  OBVIOUS
<1>1. <<>> \in Seq(Byte) /\ Len(<<>>) = 0 /\ MaxOut \in Nat
  BY PacketAssumption
<1>2. encoded \in BOOLEAN /\ damaged \in BOOLEAN
  BY DEF Init
<1>3. /\ payload \in Payloads /\ packet = <<>> /\ off = 0 /\ out = <<>> /\ packets = 0
  BY DEF Init
<1>4. Types
  BY <1>1, <1>2, <1>3 DEF Types
<1>5. Sent /\ Followed
  BY <1>3 DEF Sent, Followed
<1> QED
  BY <1>4, <1>5 DEF Inv

\* A new packet is encoded, and none of its lines was sent.
LEMMA InvOutput ==
    ASSUME Inv, NEW p \in Payloads, Output(p)
    PROVE  Inv'
<1> DEFINE n == Len(Packet(p))
<1>1. Packet(p) \in Seq(Byte) /\ n \in Nat /\ n > 4
  BY PacketParts
<1>2. /\ n <= BufSize /\ payload' = p /\ packet' = Packet(p)
      /\ encoded' = (base64_port_encode(BASE64_ENCODE_SIZE(BufSize), n) = "0")
      /\ off' = 0 /\ damaged' = FALSE /\ packets' = packets + 1 /\ out' = out
  BY DEF Output
<1>3. encoded' = TRUE
  <2>1. base64_port_encode(BASE64_ENCODE_SIZE(BufSize), n) = "0"
    BY <1>1, <1>2, EncodeFits
  <2> QED
    BY <1>2, <2>1
<1>4. Len(packet') = n
  BY <1>2
<1> HIDE DEF n
<1>5. Types'
  <2>1. encoded' \in BOOLEAN /\ damaged' \in BOOLEAN
    BY <1>2, <1>3
  <2>2. packets' \in Nat /\ off' \in 0..Len(packet')
    BY <1>1, <1>2, <1>4 DEF Inv, Types
  <2>3. out' \in Seq(Byte) /\ Len(out') <= MaxOut
    BY <1>2 DEF Inv, Types
  <2> QED
    BY <1>1, <1>2, <2>1, <2>2, <2>3 DEF Types
<1>6. Sent'
  BY <1>2, <1>3, <1>4 DEF Inv, Types, Sent
<1>7. Followed'
  BY <1>1, <1>2, <1>4 DEF Followed
<1> QED
  BY <1>5, <1>6, <1>7 DEF Inv

\* Every line keeps the types and the packet, delivered or not.
LEMMA SendsKeeps ==
    ASSUME Inv, Sends, UNCHANGED <<payload, packet, encoded, packets>>,
           damaged' \in BOOLEAN, out' \in Seq(Byte), Len(out') <= MaxOut
    PROVE  Types' /\ Sent'
<1>1. /\ packet \in Seq(Byte) /\ off \in 0..Len(packet) /\ off < Len(packet)
      /\ off' = LineEnd
  BY DEF Inv, Types, Sends
<1>2. LineEnd \in (off + 1)..Len(packet)
  BY <1>1, LineSpan
<1>3. off' \in 0..Len(packet')
  <2>1. Len(packet) \in Nat /\ off \in Nat
    BY <1>1
  <2> QED
    BY <1>1, <1>2, <2>1
<1>4. Types'
  BY <1>3 DEF Inv, Types
<1>5. Sent'
  BY DEF Inv, Sent
<1> QED
  BY <1>4, <1>5

\* The receiver follows a packet that is delivered line by line.
LEMMA DeliverFollows ==
    ASSUME Inv, Deliver
    PROVE  Followed'
<1> SUFFICES ASSUME packets > 0, ~damaged, Len(packet) <= MaxOut
             PROVE  /\ LineEnd \notin {0, Len(packet)} => out' = SubSeq(packet, 1, LineEnd)
                    /\ LineEnd = Len(packet) => accepted' = Content(payload)
  BY DEF Followed, Deliver, Arrives, Sends
<1> DEFINE n == Len(packet)
           e == LineEnd
           before == IF Line.start THEN <<>> ELSE out
           bytes == before \o Line.bytes
<1>1. /\ payload \in Payloads /\ packet \in Seq(Byte) /\ off \in 0..n /\ off < n
      /\ n \in Nat /\ off \in Nat /\ out \in Seq(Byte)
      /\ packet = Packet(payload) /\ encoded /\ n <= BufSize /\ n <= MaxOut
      /\ off # 0 => out = SubSeq(packet, 1, off)
  BY DEF Inv, Types, Sent, Followed, Deliver, Arrives, Sends
<1>2. /\ n > 4 /\ SubSeq(packet, 3, n - 2) = Content(payload)
  BY <1>1, PacketParts
<1>3. /\ e \in (off + 1)..n /\ e >= 3
      /\ Line.bytes = SubSeq(packet, off + 1, e) /\ Len(Line.bytes) = e - off
      /\ Line.start = (off = 0) /\ Line.readable = encoded
  <2>1. n >= 3
    BY <1>1, <1>2
  <2> QED
    BY <1>1, <2>1, LineSpan DEF Line
<1>4. bytes = SubSeq(packet, 1, e) /\ Len(before) = off
  <2>1. CASE off = 0
    <3>1. before = <<>> /\ Len(before) = 0 /\ Line.bytes = SubSeq(packet, 1, e)
      <4>1. Line.start = TRUE
        BY <2>1 DEF Line
      <4>2. off + 1 = 1 /\ Len(<<>>) = 0
        BY <2>1
      <4> QED
        BY <1>3, <4>1, <4>2
    <3>2. Line.bytes \in Seq(Byte)
      BY <1>1, LineSpan
    <3> HIDE DEF before
    <3>3. <<>> \o Line.bytes = Line.bytes
      BY <3>2, ConcatEmptySeq
    <3> QED
      BY <2>1, <3>1, <3>3
  <2>2. CASE off # 0
    <3>1. before = SubSeq(packet, 1, off)
      BY <1>1, <1>3, <2>2
    <3>2. Len(before) = off
      <4>1. \A i \in 1..off : packet[i] \in Byte
        BY <1>1, ElementOfSeq
      <4>2. 1 \in Int /\ off \in Int
        BY <1>1
      <4>3. Len(SubSeq(packet, 1, off)) = IF 1 <= off THEN off - 1 + 1 ELSE 0
        BY <4>1, <4>2, SubSeqProperties
      <4> QED
        BY <1>1, <2>2, <3>1, <4>3
    <3>3. SubSeq(packet, 1, off) \o SubSeq(packet, off + 1, e) = SubSeq(packet, 1, e)
      <4>1. /\ 1 \in 1..(Len(packet) + 1) /\ off \in (1 - 1)..Len(packet)
            /\ e \in off..Len(packet)
        <5> HIDE DEF e
        <5> QED
          BY <1>1, <1>3
      <4> HIDE DEF n, e
      <4> QED
        BY <1>1, <4>1, ConcatAdjacentSubSeq
    <3> QED
      BY <1>3, <3>1, <3>2, <3>3
  <2> QED
    BY <2>1, <2>2
<1>5. base64_port_decode(Line, Room(before)) = "0"
  <2>1. Len(Line.bytes) <= MaxOut - Len(before)
    <3> HIDE DEF n, e, before
    <3> QED
      BY <1>1, <1>3, <1>4, PacketAssumption
  <2> QED
    BY <1>1, <1>3, <2>1 DEF base64_port_decode, Room
<1>6. IF IsPacket(bytes)
      THEN accepted' = SubSeq(bytes, 3, Len(bytes) - 2)
      ELSE out' = bytes
  BY <1>5 DEF Deliver, Arrives, boot_serial_in_dec
<1> HIDE DEF bytes, before, n, e
<1>7. e \in 3..n
  BY <1>1, <1>3
<1>8. CASE e # n
  <2>1. ~Complete(SubSeq(packet, 1, e))
    BY <1>1, <1>7, <1>8, CompleteWhenWhole DEF n
  <2>2. ~IsPacket(bytes)
    BY <1>4, <2>1 DEF IsPacket
  <2> QED
    BY <1>4, <1>6, <1>8, <2>2 DEF e, n
<1>9. CASE e = n
  <2>1. bytes = packet
    BY <1>1, <1>4, <1>9, SubSeqFull DEF n
  <2>2. IsPacket(bytes)
    BY <1>1, <2>1, PacketIsPacket DEF n
  <2>3. accepted' = SubSeq(packet, 3, n - 2)
    BY <1>6, <2>1, <2>2 DEF n
  <2> QED
    BY <1>2, <1>9, <2>3 DEF e, n
<1> QED
  BY <1>8, <1>9

\* Every step keeps the invariant.
LEMMA InvNext == Inv /\ [Next]_vars => Inv'
<1> SUFFICES ASSUME Inv, [Next]_vars PROVE Inv'
  OBVIOUS
<1>1. ASSUME NEW p \in Payloads, Output(p) PROVE Inv'
  BY <1>1, InvOutput
<1>2. ASSUME Sends PROVE Line.bytes \in Seq(Byte)
  BY <1>2, LineSpan DEF Inv, Types, Sends
<1>3. CASE Deliver
  <2>1. /\ Sends /\ boot_serial_in_dec(Line) /\ damaged' \in BOOLEAN
        /\ UNCHANGED <<payload, packet, encoded, packets>>
    BY <1>3 DEF Deliver, Arrives, Inv, Types
  <2>2. out' \in Seq(Byte) /\ Len(out') <= MaxOut
    BY <1>2, <2>1, ReceiveFits DEF Inv, Types
  <2> QED
    BY <1>3, <2>1, <2>2, SendsKeeps, DeliverFollows DEF Inv
<1>4. CASE DeliverFlipped
  <2>1. PICK k \in DOMAIN Line.bytes, mask \in Masks :
           Arrives([Line EXCEPT !.bytes = Flipped(@, k, mask)])
    BY <1>4 DEF DeliverFlipped
  <2> DEFINE line == [Line EXCEPT !.bytes = Flipped(@, k, mask)]
  <2>2. /\ Sends /\ boot_serial_in_dec(line) /\ damaged' = TRUE
        /\ UNCHANGED <<payload, packet, encoded, packets>>
    BY <1>4, <2>1 DEF DeliverFlipped, MayDamage, Arrives
  <2>3. Line.bytes \in Seq(Byte)
    BY <1>2, <2>2
  <2>4. line.bytes = Flipped(Line.bytes, k, mask)
    BY DEF Line
  <2>5. Flipped(Line.bytes, k, mask) \in Seq(Byte)
    BY <2>3, FlippedBytes
  <2>6. line.bytes \in Seq(Byte)
    BY <2>4, <2>5
  <2> HIDE DEF line
  <2>7. out' \in Seq(Byte) /\ Len(out') <= MaxOut
    BY <2>2, <2>6, ReceiveFits DEF Inv, Types
  <2> QED
    BY <2>2, <2>7, SendsKeeps DEF Inv, Followed
<1>5. CASE DeliverUnreadable
  <2> DEFINE line == [Line EXCEPT !.readable = FALSE]
  <2>1. /\ Sends /\ boot_serial_in_dec(line) /\ damaged' = TRUE
        /\ UNCHANGED <<payload, packet, encoded, packets>>
    BY <1>5 DEF DeliverUnreadable, MayDamage, Arrives
  <2>2. line.bytes \in Seq(Byte)
    <3>1. line.bytes = Line.bytes
      BY DEF Line
    <3> QED
      BY <1>2, <2>1, <3>1
  <2> HIDE DEF line
  <2>3. out' \in Seq(Byte) /\ Len(out') <= MaxOut
    BY <2>1, <2>2, ReceiveFits DEF Inv, Types
  <2> QED
    BY <2>1, <2>3, SendsKeeps DEF Inv, Followed
<1>6. CASE LoseLine
  <2>1. /\ Sends /\ damaged' = TRUE /\ out' = out
        /\ UNCHANGED <<payload, packet, encoded, packets>>
    BY <1>6 DEF LoseLine, MayDamage
  <2>2. out' \in Seq(Byte) /\ Len(out') <= MaxOut
    BY <2>1 DEF Inv, Types
  <2> QED
    BY <2>1, <2>2, SendsKeeps DEF Inv, Followed
<1>7. CASE UNCHANGED vars
  BY <1>7 DEF vars, Inv, Types, Sent, Followed
<1> QED
  BY <1>1, <1>3, <1>4, <1>5, <1>6, <1>7 DEF Next

\* The invariant holds for all payloads, sizes and flipped bits.
THEOREM Spec_Inv == Spec => []Inv
<1> QED
  BY InvInit, InvNext, PTL DEF Spec

\* What is decoded never gets past the end of the receiver's buffer, whatever
\* the UART does to the lines (OutFits).
THEOREM BufferHolds == Spec => []OutFits
<1>1. Inv => OutFits
  BY DEF Inv, Types, OutFits
<1> QED
  BY <1>1, Spec_Inv, PTL

\* A packet whose lines arrive as they were sent is accepted, with the content
\* that was sent, after any damage before it (IntactAccepted).
THEOREM IntactTaken == Spec => []IntactAccepted
<1>1. Inv => IntactAccepted
  BY DEF Inv, Types, Sent, Followed, IntactAccepted
<1> QED
  BY <1>1, Spec_Inv, PTL

\* crc16_port_ccitt computes the CRC that the protocol asks for, of every payload:
\* the remainder of the division by x^16 + x^12 + x^5 + 1 (CrcIsRemainder).
THEOREM CrcComputed == Spec => []CrcIsRemainder
<1>1. Inv => CrcIsRemainder
  <2> SUFFICES ASSUME Inv PROVE CrcIsRemainder
    OBVIOUS
  <2> DEFINE c == Content(payload)
  <2>1. payload \in Payloads
    BY DEF Inv, Types
  <2>2. c \in Seq(Byte) /\ Len(c) # 0 /\ Crc(payload) = crc16_port_ccitt({}, c)
    BY <2>1, PacketShape
  <2>3. c # <<>>
    <3> HIDE DEF c
    <3> QED
      BY <2>2
  <2>4. Crc(payload) = Remainder(Message(c), 8 * Len(c) + 16)
    <3> HIDE DEF c
    <3> QED
      BY <2>2, <2>3, CrcDivides
  <2> QED
    BY <2>4 DEF CrcIsRemainder, Message
<1> QED
  BY <1>1, Spec_Inv, PTL
-----------------------------------------------------------------------------
(* A packet whose length arrives is never taken for another one. *)

\* The first line of a packet is delivered, and no bits of the length are
\* flipped in it. All other lines may be lost, unreadable or damaged.
LengthArrives ==
    off = 0 /\ Sends =>
        \/ Arrives(Line)
        \/ \E k \in 3..Len(Line.bytes), mask \in Masks :
              Arrives([Line EXCEPT !.bytes = Flipped(@, k, mask)])

\* What is decoded has the length of the packet in front, and no more bytes
\* than were sent. If it has all of them, they are right outside of one burst,
\* and without a damaged line everywhere.
Tracks ==
    packets > 0 /\ off \notin {0, Len(packet)} =>
        /\ Len(out) \in 2..off /\ out[1] = packet[1] /\ out[2] = packet[2]
        /\ Len(out) = off =>
              /\ Near(out, packet)
              /\ ~damaged => \A i \in 1..off : out[i] = packet[i]

Loyal == Tracks /\ AcceptedWasSent

\* What a burst does to bytes, it does within two neighbouring ones.
LEMMA FlippedIsNear ==
    ASSUME NEW s \in Seq(Byte), NEW k, NEW mask \in Masks
    PROVE  /\ Len(Flipped(s, k, mask)) = Len(s)
           /\ \A i \in 1..Len(s) : i \notin {k, k + 1} => Flipped(s, k, mask)[i] = s[i]
<1>1. DOMAIN s = 1..Len(s) /\ Len(s) \in Nat
  BY LenProperties
<1>2. mask[1] \in Byte /\ mask[2] \in Byte
  BY PacketAssumption
<1>3. Flipped(s, k, mask) \in [1..Len(s) -> Byte]
  <2>1. \A i \in 1..Len(s) : s[i] \in Byte
    BY ElementOfSeq
  <2> QED
    BY <1>1, <1>2, <2>1, Xor DEF Flipped
<1>4. Len(Flipped(s, k, mask)) = Len(s)
  <2> DEFINE t == Flipped(s, k, mask)
  <2> HIDE DEF t
  <2>1. Len(t) = Len(s)
    BY <1>1, <1>3 DEF t
  <2> QED
    BY <2>1 DEF t
<1>5. \A i \in 1..Len(s) : i \notin {k, k + 1} => Flipped(s, k, mask)[i] = s[i]
  BY <1>1 DEF Flipped
<1> QED
  BY <1>4, <1>5

\* Bytes that begin with the length of a packet are complete only if they are
\* as many as the packet has.
LEMMA SameLength ==
    ASSUME NEW s \in Seq(Byte), NEW t \in Seq(Byte), Complete(s), Complete(t),
           s[1] = t[1], s[2] = t[2]
    PROVE  Len(s) = Len(t)
<1>1. Loaded(s) = Loaded(t)
  BY DEF Loaded
<1> DEFINE m == Len(s)
           n == Len(t)
<1>2. m \in Nat /\ n \in Nat /\ m > 2 /\ n > 2 /\ m - 2 < 65536 /\ n - 2 < 65536
  BY DEF Complete
<1>3. Bits(m - 2) = Bits(n - 2)
  BY <1>1 DEF Complete
<1> HIDE DEF m, n
<1>4. m - 2 \in Nat /\ n - 2 \in Nat
  BY <1>2
<1>5. m - 2 = n - 2
  BY <1>2, <1>3, <1>4, BitsTell
<1>6. m = n
  BY <1>2, <1>5
<1> QED
  BY <1>6 DEF m, n

\* While a packet is sent it is the one of the payload.
LEMMA Sending ==
    ASSUME Inv, Sends
    PROVE  /\ packets > 0 /\ payload \in Payloads /\ packet = Packet(payload) /\ encoded
           /\ packet \in Seq(Byte) /\ Len(packet) \in Nat /\ Len(packet) > 4
           /\ off \in Nat /\ off < Len(packet)
           /\ IsPacket(packet)
           /\ SubSeq(packet, 3, Len(packet) - 2) = Content(payload)
           /\ LineEnd \in (off + 1)..Len(packet) /\ LineEnd >= 3 /\ off' = LineEnd
           /\ Line.bytes \in Seq(Byte) /\ Len(Line.bytes) = LineEnd - off
           /\ Line.start = (off = 0) /\ Line.readable = TRUE
<1>1. /\ payload \in Payloads /\ packet \in Seq(Byte) /\ off \in 0..Len(packet)
      /\ packets \in Nat /\ off < Len(packet) /\ off' = LineEnd
  BY DEF Inv, Types, Sends
<1>2. packets > 0
  <2>1. ASSUME packets = 0 PROVE FALSE
    <3>1. packet = <<>>
      BY <2>1 DEF Inv, Sent
    <3> QED
      BY <1>1, <3>1
  <2> QED
    BY <1>1, <2>1
<1>3. packet = Packet(payload) /\ encoded = TRUE /\ Len(packet) <= BufSize
  BY <1>1, <1>2 DEF Inv, Sent, Types
<1>4. /\ Len(packet) \in Nat /\ Len(packet) > 4
      /\ SubSeq(packet, 3, Len(packet) - 2) = Content(payload)
  BY <1>1, <1>3, PacketParts
<1>5. IsPacket(packet)
  BY <1>1, <1>3, PacketIsPacket
<1>6. /\ LineEnd \in (off + 1)..Len(packet) /\ LineEnd >= 3
      /\ Line.bytes \in Seq(Byte) /\ Len(Line.bytes) = LineEnd - off
      /\ Line.start = (off = 0) /\ Line.readable = encoded
  <2>1. Len(packet) >= 3
    BY <1>4
  <2> QED
    BY <1>1, <2>1, LineSpan
<1>7. off \in Nat
  BY <1>1
<1> QED
  BY <1>1, <1>2, <1>3, <1>4, <1>5, <1>6, <1>7

\* The receiver accepts nothing but the packet, if what it has begins with the
\* length of the packet and, once it has all, is near to it.
LEMMA TakesTheSent ==
    ASSUME Inv, Sends, UNCHANGED payload, AcceptedWasSent,
           NEW line, boot_serial_in_dec(line),
           NEW before, before = (IF line.start THEN <<>> ELSE out),
           NEW bytes \in Seq(Byte), bytes = before \o line.bytes,
           Len(bytes) \in 2..LineEnd,
           bytes[1] = packet[1], bytes[2] = packet[2],
           Len(bytes) = LineEnd => Near(bytes, packet)
    PROVE  /\ AcceptedWasSent'
           /\ LineEnd # Len(packet) =>
                 out' = IF base64_port_decode(line, Room(before)) = "0" THEN bytes ELSE before
<1>1. /\ packet \in Seq(Byte) /\ IsPacket(packet) /\ Len(packet) \in Nat
      /\ SubSeq(packet, 3, Len(packet) - 2) = Content(payload)
      /\ LineEnd \in Nat /\ LineEnd <= Len(packet)
  <2>1. off \in Nat /\ Len(packet) \in Nat /\ LineEnd \in (off + 1)..Len(packet)
    BY Sending
  <2>2. LineEnd \in Nat /\ LineEnd <= Len(packet)
    BY <2>1
  <2> QED
    BY <2>2, Sending
<1>2. CASE base64_port_decode(line, Room(before)) # "0"
  <2>1. out' = before /\ accepted' = accepted
    BY <1>2 DEF boot_serial_in_dec
  <2> QED
    BY <1>2, <2>1 DEF AcceptedWasSent
<1>3. CASE base64_port_decode(line, Room(before)) = "0" /\ ~IsPacket(bytes)
  <2>1. out' = bytes /\ accepted' = accepted
    BY <1>3 DEF boot_serial_in_dec
  <2> QED
    BY <1>3, <2>1 DEF AcceptedWasSent
<1>4. CASE base64_port_decode(line, Room(before)) = "0" /\ IsPacket(bytes)
  <2>1. accepted' = SubSeq(bytes, 3, Len(bytes) - 2)
    BY <1>4 DEF boot_serial_in_dec
  <2>2. Len(bytes) = Len(packet)
    BY <1>1, <1>4, SameLength DEF IsPacket
  <2>3. LineEnd = Len(packet) /\ Len(bytes) = LineEnd
    <3> DEFINE a == Len(bytes)
               b == Len(packet)
               c == LineEnd
    <3>1. a = b /\ a \in 2..c /\ b \in Nat /\ c \in Nat /\ c <= b
      BY <1>1, <2>2
    <3> HIDE DEF a, b, c
    <3>2. c = b /\ a = c
      BY <3>1
    <3> QED
      BY <3>2 DEF a, b, c
  <2>4. bytes = packet
    BY <1>1, <1>4, <2>2, <2>3, NearIsSame
  <2> QED
    BY <1>1, <2>1, <2>3, <2>4 DEF AcceptedWasSent
<1> QED
  BY <1>2, <1>3, <1>4

\* The first line starts the packet anew.
LEMMA FirstLine ==
    ASSUME Inv, AcceptedWasSent, Sends, off = 0, LineBytes <= MaxOut,
           UNCHANGED <<payload, packet, packets>>,
           NEW line, boot_serial_in_dec(line),
           line.start = TRUE, line.readable = TRUE, line.bytes \in Seq(Byte),
           Len(line.bytes) = LineEnd,
           NEW k \in 3..LineEnd,
           \A i \in 1..LineEnd : i \notin {k, k + 1} => line.bytes[i] = Line.bytes[i],
           ~damaged' => line.bytes = Line.bytes
    PROVE  Loyal'
<1> DEFINE bytes == line.bytes
           e == LineEnd
<1>1. /\ packet \in Seq(Byte) /\ Len(packet) \in Nat /\ packets > 0
      /\ e \in 1..Len(packet) /\ e >= 3 /\ off' = e
  BY Sending
<1>2. \A i \in 1..e : Line.bytes[i] = packet[i]
  <2> DEFINE z == SubSeq(packet, 1, e)
  <2>1. Line.bytes = z
    BY DEF Line
  <2>2. \A i \in 1..e : packet[i] \in Byte
    <3>1. \A i \in 1..e : i \in 1..Len(packet)
      <4> HIDE DEF e
      <4> QED
        BY <1>1
    <3> QED
      BY <1>1, <3>1, ElementOfSeq
  <2> HIDE DEF e, z
  <2>3. 1 \in Int /\ e \in Int /\ e - 1 + 1 = e
    BY <1>1
  <2>4. \A i \in 1..(e - 1 + 1) : z[i] = packet[1 + i - 1]
    BY <2>2, <2>3, SubSeqProperties DEF z
  <2>5. \A i \in 1..e : 1 + i - 1 = i
    BY <1>1
  <2> QED
    BY <2>1, <2>3, <2>4, <2>5 DEF e
<1>3. <<>> \o bytes = bytes
  BY ConcatEmptySeq
<1>4. /\ Len(bytes) = e /\ \A i \in 1..e : i \notin {k, k + 1} => bytes[i] = packet[i]
      /\ ~damaged' => \A i \in 1..e : bytes[i] = packet[i]
  BY <1>2
<1>5. /\ bytes[1] = packet[1] /\ bytes[2] = packet[2] /\ Len(bytes) \in 2..e
      /\ Near(bytes, packet)
  <2>1. 1 \in 1..e /\ 2 \in 1..e /\ k \in 1..e /\ 1 \notin {k, k + 1} /\ 2 \notin {k, k + 1}
        /\ e \in 2..e
    <3> HIDE DEF e
    <3> QED
      BY <1>1 DEF e
  <2> HIDE DEF bytes, e
  <2> QED
    BY <1>4, <2>1 DEF Near
<1>6. base64_port_decode(line, Room(<<>>)) = "0"
  <2>1. e <= LineBytes
    <3>1. off \in Nat
      OBVIOUS
    <3>2. LineEnd = IF off + LineBytes <= Len(packet) THEN off + LineBytes
                    ELSE Len(packet)
      BY <1>1, <3>1, LineEndIs
    <3>3. 0 + LineBytes = LineBytes /\ LineBytes \in Nat
      BY PacketAssumption
    <3> HIDE DEF e
    <3> QED
      BY <1>1, <3>2, <3>3 DEF e
  <2>2. e <= MaxOut - 0
    BY <1>1, <2>1, PacketAssumption
  <2>3. Len(<<>>) = 0
    OBVIOUS
  <2> QED
    BY <1>4, <2>2, <2>3 DEF base64_port_decode, Room
<1>7. /\ AcceptedWasSent'
      /\ e # Len(packet) => out' = bytes
  <2>1. PICK before, b : before = <<>> /\ b = bytes
    OBVIOUS
  <2>2. before = IF line.start THEN <<>> ELSE out
    BY <2>1
  <2>3. b \in Seq(Byte) /\ b = before \o line.bytes
    BY <1>3, <2>1
  <2>4. /\ Len(b) \in 2..LineEnd /\ b[1] = packet[1] /\ b[2] = packet[2]
        /\ (Len(b) = LineEnd => Near(b, packet))
    BY <1>5, <2>1
  <2> HIDE DEF bytes, e
  <2>5. /\ AcceptedWasSent'
        /\ LineEnd # Len(packet) =>
              out' = IF base64_port_decode(line, Room(before)) = "0" THEN b ELSE before
    <3>1. Inv /\ Sends /\ AcceptedWasSent /\ UNCHANGED payload /\ boot_serial_in_dec(line)
      OBVIOUS
    <3> QED
      BY ONLY <2>2, <2>3, <2>4, <3>1, TakesTheSent
  <2> QED
    BY <1>6, <2>1, <2>5 DEF e
<1>8. Tracks'
  <2> SUFFICES ASSUME e # Len(packet)
               PROVE  /\ Len(out') \in 2..e /\ out'[1] = packet[1] /\ out'[2] = packet[2]
                      /\ Near(out', packet)
                      /\ ~damaged' => \A i \in 1..e : out'[i] = packet[i]
    BY <1>1 DEF Tracks, Near
  <2> QED
    BY <1>4, <1>5, <1>7
<1> QED
  BY <1>7, <1>8 DEF Loyal

\* A line that is not taken leaves fewer bytes than were sent.
LEMMA MissedLine ==
    ASSUME Inv, Loyal, Sends, off # 0, UNCHANGED <<payload, packet, packets, out, accepted>>
    PROVE  Loyal'
<1>1. /\ Len(packet) \in Nat /\ packets > 0 /\ off \in Nat /\ off < Len(packet)
      /\ LineEnd \in (off + 1)..Len(packet) /\ off' = LineEnd
  BY Sending
<1>2. /\ Len(out) \in 2..off /\ out[1] = packet[1] /\ out[2] = packet[2]
  BY <1>1 DEF Loyal, Tracks
<1>3. Len(out) \in 2..LineEnd /\ Len(out) # LineEnd
  BY <1>1, <1>2
<1>4. Tracks'
  BY <1>1, <1>2, <1>3 DEF Tracks
<1>5. AcceptedWasSent'
  BY DEF Loyal, AcceptedWasSent
<1> QED
  BY <1>4, <1>5 DEF Loyal

\* Any later line continues what the receiver has, or is missed.
LEMMA LaterLine ==
    ASSUME Inv, Loyal, Sends, off # 0,
           UNCHANGED <<payload, packet, packets>>,
           NEW line, boot_serial_in_dec(line),
           line.start = FALSE, line.bytes \in Seq(Byte),
           Len(line.bytes) = LineEnd - off,
           \/ line.bytes = Line.bytes /\ damaged' = damaged
           \/ /\ ~damaged /\ damaged'
              /\ \E k \in 1..Len(line.bytes) : \A i \in 1..Len(line.bytes) :
                    i \notin {k, k + 1} => line.bytes[i] = Line.bytes[i]
    PROVE  Loyal'
<1> DEFINE bytes == out \o line.bytes
           e == LineEnd
           d == Len(out)
<1>1. /\ packet \in Seq(Byte) /\ Len(packet) \in Nat /\ packets > 0
      /\ off \in Nat /\ off < Len(packet) /\ off > 0
      /\ e \in (off + 1)..Len(packet) /\ off' = e
  BY Sending
<1>2. /\ out \in Seq(Byte) /\ d \in 2..off /\ out[1] = packet[1] /\ out[2] = packet[2]
      /\ d = off => /\ Near(out, packet)
                    /\ ~damaged => \A i \in 1..off : out[i] = packet[i]
  BY <1>1 DEF Loyal, Tracks, Inv, Types
<1>3. \A i \in 1..(e - off) : Line.bytes[i] = packet[off + i]
  <2> DEFINE z == SubSeq(packet, off + 1, e)
  <2>1. Line.bytes = z
    BY DEF Line
  <2>2. \A i \in (off + 1)..e : packet[i] \in Byte
    <3>1. \A i \in (off + 1)..e : i \in 1..Len(packet)
      <4> HIDE DEF e
      <4> QED
        BY <1>1
    <3> QED
      BY <1>1, <3>1, ElementOfSeq
  <2> HIDE DEF e, z
  <2>3. off + 1 \in Int /\ e \in Int /\ e - (off + 1) + 1 = e - off
    BY <1>1
  <2>4. \A i \in 1..(e - (off + 1) + 1) : z[i] = packet[(off + 1) + i - 1]
    BY <2>2, <2>3, SubSeqProperties DEF z
  <2>5. \A i \in 1..(e - off) : (off + 1) + i - 1 = off + i
    BY <1>1
  <2> QED
    BY <2>1, <2>3, <2>4, <2>5 DEF e
<1>4. /\ bytes \in Seq(Byte) /\ Len(bytes) = d + (e - off)
      /\ \A i \in 1..d : bytes[i] = out[i]
      /\ \A i \in 1..(e - off) : bytes[d + i] = line.bytes[i]
  <2> DEFINE l == line.bytes
  <2>1. l \in Seq(Byte) /\ Len(l) = e - off
    OBVIOUS
  <2> HIDE DEF e, l
  <2>2. /\ bytes \in Seq(Byte) /\ Len(bytes) = d + Len(l)
        /\ \A i \in 1..(d + Len(l)) : bytes[i] = IF i <= d THEN out[i] ELSE l[i - d]
    BY <1>2, <2>1, ConcatProperties DEF l
  <2>3. d \in Nat /\ e - off \in Nat
    BY <1>1, <1>2
  <2> HIDE DEF bytes, d
  <2>4. \A i \in 1..d : i \in 1..(d + Len(l)) /\ i <= d
    BY <2>1, <2>3
  <2>5. \A i \in 1..(e - off) : d + i \in 1..(d + Len(l)) /\ ~(d + i <= d) /\ (d + i) - d = i
    BY <2>1, <2>3
  <2>6. \A i \in 1..(e - off) : bytes[d + i] = l[i]
    BY <2>2, <2>5
  <2>7. \A i \in 1..d : bytes[i] = out[i]
    BY <2>2, <2>4
  <2> QED
    BY <2>1, <2>2, <2>6, <2>7 DEF l
<1> HIDE DEF bytes, d, e
<1>5. Len(bytes) \in 2..e /\ bytes[1] = packet[1] /\ bytes[2] = packet[2]
  <2>1. 1 \in 1..d /\ 2 \in 1..d /\ d + (e - off) \in 2..e
    BY <1>1, <1>2
  <2> QED
    BY <1>2, <1>4, <2>1
<1>6. ASSUME Len(bytes) = e
      PROVE  /\ Near(bytes, packet)
             /\ ~damaged' => \A i \in 1..e : bytes[i] = packet[i]
  <2>1. d = off
    BY <1>1, <1>2, <1>4, <1>6
  <2>2. /\ \A i \in 1..off : bytes[i] = out[i]
        /\ \A i \in (off + 1)..e : bytes[i] = line.bytes[i - off] /\ i - off \in 1..(e - off)
    <3>1. \A i \in (off + 1)..e : i - off \in 1..(e - off) /\ off + (i - off) = i
      BY <1>1
    <3> QED
      BY <1>4, <2>1, <3>1
  <2>3. \A i \in (off + 1)..e : Line.bytes[i - off] = packet[i]
    <3>1. \A i \in (off + 1)..e : i - off \in 1..(e - off) /\ off + (i - off) = i
      BY <1>1
    <3> QED
      BY <1>3, <3>1
  <2>4. CASE line.bytes = Line.bytes /\ damaged' = damaged
    <3>1. \A i \in (off + 1)..e : bytes[i] = packet[i]
      BY <2>2, <2>3, <2>4
    <3>2. PICK k \in 1..off : \A i \in 1..off : i \notin {k, k + 1} => out[i] = packet[i]
      BY <1>2, <2>1 DEF Near, d
    <3>3. k \in 1..e /\ \A i \in 1..e : i \in 1..off \/ i \in (off + 1)..e
      BY <1>1
    <3>4. \A i \in 1..e : i \notin {k, k + 1} => bytes[i] = packet[i]
      BY <2>2, <3>1, <3>2, <3>3
    <3>5. Near(bytes, packet)
      BY <1>6, <3>3, <3>4 DEF Near
    <3>6. ~damaged' => \A i \in 1..e : bytes[i] = packet[i]
      BY <1>2, <2>1, <2>2, <2>4, <3>1, <3>3
    <3> QED
      BY <3>5, <3>6
  <2>5. CASE /\ ~damaged /\ damaged'
             /\ \E k \in 1..Len(line.bytes) : \A i \in 1..Len(line.bytes) :
                   i \notin {k, k + 1} => line.bytes[i] = Line.bytes[i]
    <3>1. PICK k \in 1..(e - off) : \A i \in 1..(e - off) :
             i \notin {k, k + 1} => line.bytes[i] = Line.bytes[i]
      BY <2>5 DEF e
    <3> DEFINE j == off + k
    <3>2. j \in 1..e /\ \A i \in 1..e : i \in 1..off \/ i \in (off + 1)..e
      BY <1>1, <3>1
    <3>3. \A i \in 1..off : bytes[i] = packet[i]
      BY <1>2, <2>1, <2>2, <2>5
    <3>4. \A i \in (off + 1)..e : i \notin {j, j + 1} => i - off \notin {k, k + 1}
      BY <1>1, <3>1
    <3>5. \A i \in (off + 1)..e : i \notin {j, j + 1} => bytes[i] = packet[i]
      BY <2>2, <2>3, <3>1, <3>4
    <3> HIDE DEF j
    <3>6. \A i \in 1..e : i \notin {j, j + 1} => bytes[i] = packet[i]
      BY <3>2, <3>3, <3>5
    <3> QED
      BY <1>6, <2>5, <3>2, <3>6 DEF Near
  <2> QED
    BY <2>4, <2>5
<1>7. /\ AcceptedWasSent'
      /\ e # Len(packet) =>
            out' = IF base64_port_decode(line, Room(out)) = "0" THEN bytes ELSE out
  <2>1. out = IF line.start THEN <<>> ELSE out
    OBVIOUS
  <2>2. AcceptedWasSent
    BY DEF Loyal
  <2>3. bytes = out \o line.bytes
    BY DEF bytes
  <2> QED
    BY <1>4, <1>5, <1>6, <2>1, <2>2, <2>3, TakesTheSent DEF e
<1>8. Tracks'
  <2> SUFFICES ASSUME e # Len(packet)
               PROVE  /\ Len(out') \in 2..e /\ out'[1] = packet[1] /\ out'[2] = packet[2]
                      /\ Len(out') = e =>
                            /\ Near(out', packet)
                            /\ ~damaged' => \A i \in 1..e : out'[i] = packet[i]
    BY <1>1 DEF Tracks, Near
  <2>1. CASE out' = bytes
    BY <1>5, <1>6, <2>1
  <2>2. CASE out' = out
    <3>1. d \in 2..e /\ d # e
      BY <1>1, <1>2
    <3> QED
      BY <1>2, <2>2, <3>1 DEF d
  <2> QED
    BY <1>7, <2>1, <2>2
<1> QED
  BY <1>7, <1>8 DEF Loyal

\* Every step keeps the receiver loyal, if the length arrives.
LEMMA LoyalNext ==
    ASSUME Inv, Loyal, LineBytes <= MaxOut, Next, LengthArrives
    PROVE  Loyal'
<1>1. ASSUME NEW p \in Payloads, Output(p) PROVE Loyal'
  <2>1. off' = 0 /\ accepted' = <<>>
    BY <1>1 DEF Output
  <2> QED
    BY <2>1 DEF Loyal, Tracks, AcceptedWasSent
<1>2. ASSUME Deliver \/ DeliverFlipped \/ DeliverUnreadable \/ LoseLine
      PROVE  Sends /\ UNCHANGED <<payload, packet, packets>>
  BY <1>2 DEF Deliver, DeliverFlipped, DeliverUnreadable, LoseLine, Arrives
<1>3. ASSUME Sends
      PROVE  /\ Line.bytes \in Seq(Byte) /\ Len(Line.bytes) = LineEnd - off
             /\ LineEnd \in Nat /\ LineEnd >= 3 /\ off \in Nat /\ LineEnd - off \in Nat
             /\ Line.start = (off = 0) /\ Line.readable = TRUE
  <2>1. /\ LineEnd \in (off + 1)..Len(packet) /\ LineEnd >= 3 /\ off \in Nat
        /\ Len(packet) \in Nat
    BY <1>3, Sending
  <2>2. LineEnd \in Nat /\ LineEnd - off \in Nat
    BY <2>1
  <2> QED
    BY <1>3, <2>1, <2>2, Sending
<1> DEFINE Hit(k, mask) == [Line EXCEPT !.bytes = Flipped(@, k, mask)]
<1>4. ASSUME Sends, NEW k, NEW mask \in Masks
      PROVE  /\ Hit(k, mask).start = Line.start /\ Hit(k, mask).readable = Line.readable
             /\ Hit(k, mask).bytes \in Seq(Byte)
             /\ Len(Hit(k, mask).bytes) = Len(Line.bytes)
             /\ \A i \in 1..Len(Line.bytes) :
                   i \notin {k, k + 1} => Hit(k, mask).bytes[i] = Line.bytes[i]
  <2>1. /\ Hit(k, mask).start = Line.start /\ Hit(k, mask).readable = Line.readable
        /\ Hit(k, mask).bytes = Flipped(Line.bytes, k, mask)
    BY DEF Line
  <2> HIDE DEF Hit
  <2> QED
    BY <1>3, <1>4, <2>1, FlippedBytes, FlippedIsNear
<1>5. CASE off = 0 /\ (Deliver \/ DeliverFlipped \/ DeliverUnreadable \/ LoseLine)
  <2>1. /\ Sends /\ UNCHANGED <<payload, packet, packets>> /\ AcceptedWasSent
        /\ LineEnd \in Nat /\ LineEnd >= 3 /\ Len(Line.bytes) = LineEnd
    <3>1. Sends
      BY <1>2, <1>5
    <3>2. Len(Line.bytes) = LineEnd - 0 /\ LineEnd \in Nat
      BY <1>3, <1>5, <3>1
    <3> DEFINE e == LineEnd
    <3>3. e - 0 = e
      <4>1. e \in Nat
        BY <3>2
      <4> HIDE DEF e
      <4> QED
        BY <4>1
    <3> QED
      BY <1>2, <1>3, <1>5, <3>1, <3>2, <3>3 DEF Loyal
  <2>2. 3 \in 3..LineEnd
    BY <2>1
  <2>3. ASSUME Arrives(Line) PROVE Loyal'
    <3>1. boot_serial_in_dec(Line) /\ Line.start = TRUE /\ Line.readable = TRUE
          /\ Line.bytes \in Seq(Byte)
      BY <1>3, <1>5, <2>1, <2>3 DEF Arrives
    <3>2. \A i \in 1..LineEnd : i \notin {3, 3 + 1} => Line.bytes[i] = Line.bytes[i]
      OBVIOUS
    <3> QED
      BY <1>5, <2>1, <2>2, <3>1, <3>2, FirstLine
  <2>4. ASSUME NEW k \in 3..Len(Line.bytes), NEW mask \in Masks, Arrives(Hit(k, mask)), damaged'
        PROVE  Loyal'
    <3>1. /\ boot_serial_in_dec(Hit(k, mask)) /\ k \in 3..LineEnd
      BY <2>1, <2>4 DEF Arrives
    <3>2. /\ Hit(k, mask).start = TRUE /\ Hit(k, mask).readable = TRUE
          /\ Hit(k, mask).bytes \in Seq(Byte) /\ Len(Hit(k, mask).bytes) = LineEnd
          /\ \A i \in 1..LineEnd : i \notin {k, k + 1} => Hit(k, mask).bytes[i] = Line.bytes[i]
      <4> DEFINE h == Hit(k, mask)
      <4>1. /\ h.start = Line.start /\ h.readable = Line.readable /\ h.bytes \in Seq(Byte)
            /\ Len(h.bytes) = Len(Line.bytes)
            /\ \A i \in 1..Len(Line.bytes) :
                  i \notin {k, k + 1} => h.bytes[i] = Line.bytes[i]
        BY <1>4, <2>1, Zenon
      <4>2. Line.start = TRUE /\ Line.readable = TRUE /\ Len(Line.bytes) = LineEnd
        BY <1>3, <1>5, <2>1
      <4> HIDE DEF h
      <4>3. /\ h.start = TRUE /\ h.readable = TRUE /\ h.bytes \in Seq(Byte)
            /\ Len(h.bytes) = LineEnd
            /\ \A i \in 1..LineEnd : i \notin {k, k + 1} => h.bytes[i] = Line.bytes[i]
        BY <4>1, <4>2
      <4> QED
        BY <4>3 DEF h
    <3> HIDE DEF Hit
    <3> QED
      BY <1>5, <2>1, <2>4, <3>1, <3>2, FirstLine
  <2>5. Arrives(Line) \/ damaged'
    BY <1>5 DEF Deliver, DeliverFlipped, DeliverUnreadable, LoseLine, MayDamage
  <2>6. \/ Arrives(Line)
        \/ \E k \in 3..Len(Line.bytes), mask \in Masks : Arrives(Hit(k, mask))
    BY <1>5, <2>1 DEF LengthArrives
  <2> HIDE DEF Hit
  <2> QED
    BY <2>3, <2>4, <2>5, <2>6
<1>6. CASE off # 0 /\ Deliver
  <2>1. Arrives(Line) /\ damaged' = damaged
    BY <1>6 DEF Deliver
  <2>2. Line.start = FALSE
    BY <1>2, <1>3, <1>6
  <2>3. boot_serial_in_dec(Line)
    BY <2>1 DEF Arrives
  <2> QED
    BY <1>2, <1>3, <1>6, <2>1, <2>2, <2>3, LaterLine
<1>7. CASE off # 0 /\ DeliverFlipped
  <2>1. PICK k \in DOMAIN Line.bytes, mask \in Masks : Arrives(Hit(k, mask))
    BY <1>7 DEF DeliverFlipped
  <2>2. ~damaged /\ damaged' /\ Sends
    BY <1>2, <1>7 DEF DeliverFlipped, MayDamage
  <2>3. boot_serial_in_dec(Hit(k, mask)) /\ k \in 1..Len(Line.bytes)
    BY <1>3, <2>1, <2>2, LenProperties DEF Arrives
  <2> HIDE DEF Hit
  <2>4. /\ Hit(k, mask).start = FALSE
        /\ Hit(k, mask).bytes \in Seq(Byte) /\ Len(Hit(k, mask).bytes) = LineEnd - off
        /\ \A i \in 1..Len(Hit(k, mask).bytes) :
              i \notin {k, k + 1} => Hit(k, mask).bytes[i] = Line.bytes[i]
        /\ k \in 1..Len(Hit(k, mask).bytes)
    BY <1>3, <1>4, <1>7, <2>2, <2>3
  <2> QED
    BY <1>2, <1>7, <2>2, <2>3, <2>4, LaterLine
<1>8. CASE off # 0 /\ DeliverUnreadable
  <2>1. Arrives([Line EXCEPT !.readable = FALSE])
    BY <1>8 DEF DeliverUnreadable
  <2> DEFINE line == [Line EXCEPT !.readable = FALSE]
  <2>2. boot_serial_in_dec(line) /\ line.readable = FALSE /\ line.start = Line.start
    BY <2>1 DEF Arrives, Line
  <2>3. line.start = FALSE
    BY <1>2, <1>3, <1>8, <2>2
  <2> HIDE DEF line
  <2>4. out' = out /\ accepted' = accepted
    BY <2>2, <2>3 DEF boot_serial_in_dec, base64_port_decode
  <2> QED
    BY <1>2, <1>8, <2>4, MissedLine
<1>9. CASE off # 0 /\ LoseLine
  BY <1>2, <1>9, MissedLine DEF LoseLine
<1> QED
  BY <1>1, <1>5, <1>6, <1>7, <1>8, <1>9 DEF Next

\* If the length arrives, and a line fits the receiver's buffer, no packet is
\* taken for another one, whatever bursts hit its content and whichever of its
\* other lines are lost or cannot be read: for all payloads and sizes.
THEOREM AcceptedIsTheSent ==
    ASSUME LineBytes <= MaxOut
    PROVE  Spec /\ [][LengthArrives]_vars => []AcceptedWasSent
<1>1. Init => Loyal
  BY DEF Init, Loyal, Tracks, AcceptedWasSent
<1>2. Inv /\ Loyal /\ [Next]_vars /\ [LengthArrives]_vars => Loyal'
  <2> SUFFICES ASSUME Inv, Loyal, [Next]_vars, [LengthArrives]_vars PROVE Loyal'
    OBVIOUS
  <2>1. CASE UNCHANGED vars
    <3>1. /\ packets' = packets /\ off' = off /\ packet' = packet /\ out' = out
          /\ damaged' = damaged /\ accepted' = accepted /\ payload' = payload
      BY <2>1 DEF vars
    <3> QED
      BY <3>1 DEF Loyal, Tracks, AcceptedWasSent, Near
  <2>2. CASE Next /\ LengthArrives
    BY <2>2, LoyalNext
  <2> QED
    BY <2>1, <2>2
<1>3. Loyal => AcceptedWasSent
  BY DEF Loyal
<1> QED
  BY <1>1, <1>2, <1>3, Spec_Inv, PTL DEF Spec
=============================================================================
