----------------------------- MODULE BusProofs ------------------------------
(***************************************************************************)
(* What holds of the bus for every width, size of memory, memory map and   *)
(* set of channels: RAM and BIOS keep their sizes and hold bytes, the BIOS *)
(* is loaded once, what is stored is what is loaded, and bit 31 of DICR is *)
(* always what the other bits make it.                                     *)
(***************************************************************************)
EXTENDS Bus, TLAPS

-----------------------------------------------------------------------------
(* Powers of two: the provers know them as numbers only.                   *)
Power(n) == 2 ^ n

LEMMA Powers ==
  /\ Power(0) = 1 /\ Power(1) = 2 /\ Power(2) = 4 /\ Power(3) = 8 /\ Power(4) = 16 /\ Power(5) = 32 /\ Power(6) = 64 /\ Power(7) = 128
  /\ Power(8) = 256 /\ Power(9) = 512 /\ Power(10) = 1024 /\ Power(11) = 2048 /\ Power(12) = 4096 /\ Power(13) = 8192
  /\ Power(14) = 16384 /\ Power(15) = 32768 /\ Power(16) = 65536 /\ Power(17) = 131072 /\ Power(18) = 262144
  /\ Power(19) = 524288 /\ Power(20) = 1048576 /\ Power(21) = 2097152 /\ Power(22) = 4194304 /\ Power(23) = 8388608 /\ Power(24) = 16777216
  BY DEF Power

LEMMA RamSizes ==
  \/ AddrBits = 3 /\ RamSize = 8
  \/ AddrBits = 4 /\ RamSize = 16
  \/ AddrBits = 5 /\ RamSize = 32
  \/ AddrBits = 6 /\ RamSize = 64
  \/ AddrBits = 7 /\ RamSize = 128
  \/ AddrBits = 8 /\ RamSize = 256
  \/ AddrBits = 9 /\ RamSize = 512
  \/ AddrBits = 10 /\ RamSize = 1024
  \/ AddrBits = 11 /\ RamSize = 2048
  \/ AddrBits = 12 /\ RamSize = 4096
  \/ AddrBits = 13 /\ RamSize = 8192
  \/ AddrBits = 14 /\ RamSize = 16384
  \/ AddrBits = 15 /\ RamSize = 32768
  \/ AddrBits = 16 /\ RamSize = 65536
  \/ AddrBits = 17 /\ RamSize = 131072
  \/ AddrBits = 18 /\ RamSize = 262144
  \/ AddrBits = 19 /\ RamSize = 524288
  \/ AddrBits = 20 /\ RamSize = 1048576
  \/ AddrBits = 21 /\ RamSize = 2097152
  \/ AddrBits = 22 /\ RamSize = 4194304
  \/ AddrBits = 23 /\ RamSize = 8388608
<1>1. AddrBits \in 3 .. 23 /\ RamSize = Power(AddrBits)
  BY MemoryAssumption DEF Power
<1> QED
  BY <1>1, Powers

LEMMA RamSizeType == RamSize \in Nat /\ RamSize > 0 /\ RamSize % 4 = 0
  BY RamSizes

LEMMA Widths ==
  \/ /\ ByteBits = 4 /\ 2 ^ ByteBits = 16 /\ 2 ^ (2 * ByteBits) = 256
     /\ 2 ^ (3 * ByteBits) = 4096
  \/ /\ ByteBits = 5 /\ 2 ^ ByteBits = 32 /\ 2 ^ (2 * ByteBits) = 1024
     /\ 2 ^ (3 * ByteBits) = 32768
  \/ /\ ByteBits = 6 /\ 2 ^ ByteBits = 64 /\ 2 ^ (2 * ByteBits) = 4096
     /\ 2 ^ (3 * ByteBits) = 262144
  \/ /\ ByteBits = 7 /\ 2 ^ ByteBits = 128 /\ 2 ^ (2 * ByteBits) = 16384
     /\ 2 ^ (3 * ByteBits) = 2097152
  \/ /\ ByteBits = 8 /\ 2 ^ ByteBits = 256 /\ 2 ^ (2 * ByteBits) = 65536
     /\ 2 ^ (3 * ByteBits) = 16777216
<1>1. ByteBits \in 4 .. 8
  BY MemoryAssumption
<1>2. /\ 2 ^ ByteBits = Power(ByteBits) /\ 2 ^ (2 * ByteBits) = Power(2 * ByteBits)
      /\ 2 ^ (3 * ByteBits) = Power(3 * ByteBits)
  BY DEF Power
<1> QED
  BY <1>1, <1>2, Powers

LEMMA DigitType ==
  ASSUME NEW w, NEW j \in 0 .. 3
  PROVE  /\ Digit(w, j, 0) \in {0, 1} /\ Digit(w, j, 1) \in {0, 2}
         /\ Digit(w, j, 2) \in {0, 4} /\ Digit(w, j, 3) \in {0, 8}
         /\ Digit(w, j, 4) \in {0, 16} /\ Digit(w, j, 5) \in {0, 32}
         /\ Digit(w, j, 6) \in {0, 64} /\ Digit(w, j, 7) \in {0, 128}
         /\ \A k \in 0 .. 7 : k >= ByteBits => Digit(w, j, k) = 0
<1>1. \A k \in 0 .. 7 :
        Digit(w, j, k) \in {0, Power(k)} /\ (k >= ByteBits => Digit(w, j, k) = 0)
  BY MemoryAssumption DEF Digit, Power
<1> QED
  BY <1>1, Powers

LEMMA LaneNumberType ==
  ASSUME NEW w, NEW j \in 0 .. 3
  PROVE  LaneNumber(w, j) \in 0 .. 2 ^ ByteBits - 1
<1> DEFINE d(k) == Digit(w, j, k)
<1>1. /\ d(0) \in {0, 1} /\ d(1) \in {0, 2} /\ d(2) \in {0, 4} /\ d(3) \in {0, 8}
      /\ d(4) \in {0, 16} /\ d(5) \in {0, 32} /\ d(6) \in {0, 64} /\ d(7) \in {0, 128}
      /\ \A k \in 0 .. 7 : k >= ByteBits => d(k) = 0
  BY DigitType
<1>2. LaneNumber(w, j) = d(0) + d(1) + d(2) + d(3) + d(4) + d(5) + d(6) + d(7)
  BY DEF LaneNumber
<1> HIDE DEF d
<1> QED
  BY <1>1, <1>2, Widths

LEMMA NumberType ==
  ASSUME NEW w \in Word
  PROVE  Number[w] \in Nat
<1>1. \A j \in 0 .. 3 : LaneNumber(w, j) \in Nat
  BY LaneNumberType, Widths
<1>2. LaneNumber(w, 0) \in Nat /\ LaneNumber(w, 1) \in Nat /\ LaneNumber(w, 2) \in Nat
      /\ LaneNumber(w, 3) \in Nat
  BY <1>1
<1> QED
  BY <1>2, Widths DEF Number


-----------------------------------------------------------------------------
(* Bytes and words.                                                        *)
LEMMA LaneType == ASSUME NEW w, NEW j PROVE Lane(w, j) \in Byte
  BY DEF Lane, Byte

LEMMA InLaneType == ASSUME NEW b \in Byte, NEW j \in 0 .. 3 PROVE InLane(b, j) \subseteq Bit
<1>1. ByteBits \in Nat /\ ByteBits * j \in Nat /\ ByteBits * j + ByteBits <= 4 * ByteBits
  BY MemoryAssumption
<1>2. \A k \in b : k \in 0 .. ByteBits - 1
  BY DEF Byte
<1>3. \A k \in b : ByteBits * j + k \in Bit
  BY <1>1, <1>2 DEF Bit
<1> QED
  BY <1>3 DEF InLane

LEMMA LoadType ==
  ASSUME NEW S, NEW f \in [S -> Byte], NEW a, NEW n \in {1, 2, 4}, Inside(f, a, n)
  PROVE  Load(f, a, n) \in Word
<1>1. \A j \in 0 .. n - 1 : j \in 0 .. 3 /\ f[Index(a, j)] \in Byte
  BY DEF Inside
<1>2. \A j \in 0 .. n - 1 : InLane(f[Index(a, j)], j) \subseteq Bit
  BY <1>1, InLaneType
<1> QED
  BY <1>2 DEF Load, Word

LEMMA HalfType ==
  ASSUME NEW w \in Word
  PROVE  LowHalf(w) \in Word /\ HighHalf(w) \in Word
<1>1. w \subseteq Bit /\ ByteBits \in Nat
  BY MemoryAssumption DEF Word
<1>2. HighHalf(w) \subseteq Bit
  BY <1>1 DEF HighHalf, Bit
<1> QED
  BY <1>1, <1>2 DEF LowHalf, Word

LEMMA RamAddressType == ASSUME NEW w PROVE RamAddress(w) \in Ram
<1>1. \A j \in 0 .. 3 : LaneNumber(w, j) \in Int
  BY LaneNumberType, Widths
<1>2. LaneNumber(w, 0) \in Int /\ LaneNumber(w, 1) \in Int /\ LaneNumber(w, 2) \in Int
  BY <1>1
<1> DEFINE n == LaneNumber(w, 0) + 2 ^ ByteBits * LaneNumber(w, 1)
                  + 2 ^ (2 * ByteBits) * LaneNumber(w, 2)
<1>3. n \in Int
  BY <1>2, Widths
<1> HIDE DEF n
<1>4. n % RamSize \in Ram
  BY <1>3, RamSizeType DEF Ram
<1> QED
  BY <1>4 DEF RamAddress, n

LEMMA StoredType ==
  ASSUME NEW f \in [Ram -> Byte], NEW a, NEW n, NEW w
  PROVE  Stored(f, a, n, w) \in [Ram -> Byte]
<1>1. \A j : Lane(w, j) \in Byte
  BY DEF Lane, Byte
<1>2. DOMAIN f = Ram /\ \A x \in Ram : f[x] \in Byte
  OBVIOUS
<1> QED
  BY <1>1, <1>2 DEF Stored

-----------------------------------------------------------------------------
(* Loads and stores.  The bytes of a word lie behind each other, and each  *)
(* comes back.                                                             *)
LEMMA ByteAt ==
  ASSUME NEW f \in [Ram -> Byte], NEW w, NEW n \in {1, 2, 4},
         NEW a \in Ram, NEW j \in 0 .. n - 1, a + n <= RamSize
  PROVE  /\ Index(a, j) = a + j /\ a + j \in Ram
         /\ Stored(f, a, n, w)[a + j] = Lane(w, j)
<1>1. RamSize \in Nat /\ Space \in Nat /\ Space > RamSize
  BY MemoryAssumption
<1>2. a \in Nat /\ j \in Nat /\ a + j < RamSize /\ a + j \in Ram
  BY <1>1 DEF Ram
<1>3. Index(a, j) = a + j
  BY <1>1, <1>2 DEF Index
<1>4. ((a + j) - a) % Space = j
  BY <1>1, <1>2
<1>5. DOMAIN f = Ram
  OBVIOUS
<1> QED
  BY <1>2, <1>3, <1>4, <1>5 DEF Stored

LEMMA Wraps ==
  ASSUME NEW m \in Nat, m > 0, NEW d \in Int, -m <= d, d < 0
  PROVE  d % m = d + m
  OBVIOUS

(* An access leaves the bytes it does not name as they were.               *)
LEMMA OtherBytes ==
  ASSUME NEW f \in [Ram -> Byte], NEW w, NEW n \in {1, 2, 4},
         NEW a \in Ram, a + n <= RamSize, NEW x \in Ram, x \notin a .. a + n - 1
  PROVE  Stored(f, a, n, w)[x] = f[x]
<1>1. RamSize \in Nat /\ Space \in Nat /\ Space > RamSize
  BY MemoryAssumption
<1>2. a \in Nat /\ x \in Nat /\ a < RamSize /\ x < RamSize /\ (x < a \/ x >= a + n)
  BY <1>1 DEF Ram
<1>3. CASE x < a
  <2>1. (x - a) % Space = x - a + Space
    BY <1>1, <1>2, <1>3, Wraps
  <2> QED
    BY <1>1, <1>2, <2>1 DEF Stored
<1>4. CASE x >= a + n
  <2>1. (x - a) % Space = x - a
    BY <1>1, <1>2, <1>4
  <2> QED
    BY <1>1, <1>2, <1>4, <2>1 DEF Stored
<1> QED
  BY <1>2, <1>3, <1>4

LEMMA LaneBack ==
  ASSUME NEW w \in Word, NEW j \in 0 .. 3
  PROVE  InLane(Lane(w, j), j) = w \cap (ByteBits * j .. ByteBits * j + ByteBits - 1)
<1> DEFINE b == ByteBits * j
<1>1. ByteBits \in Nat /\ b \in Nat /\ w \subseteq Int
  BY MemoryAssumption DEF Word, Bit
<1>2. ASSUME NEW x \in w, b <= x, x <= b + ByteBits - 1
      PROVE  x - b \in Lane(w, j) /\ x = b + (x - b)
  BY <1>1, <1>2 DEF Lane
<1>3. ASSUME NEW k \in Lane(w, j)
      PROVE  b + k \in w /\ b + k \in b .. b + ByteBits - 1
  BY <1>1 DEF Lane
<1> HIDE DEF b
<1>4. InLane(Lane(w, j), j) = { b + k : k \in Lane(w, j) }
  BY DEF InLane, b
<1>5. w \cap (b .. b + ByteBits - 1) \subseteq { b + k : k \in Lane(w, j) }
  BY <1>1, <1>2
<1>6. { b + k : k \in Lane(w, j) } \subseteq w \cap (b .. b + ByteBits - 1)
  BY <1>3
<1> QED
  BY <1>4, <1>5, <1>6 DEF b

(* What has been stored in RAM is what a load of the same width and        *)
(* address delivers: byte order, masks and index sums of the accessors     *)
(* undo each other, aligned or not.                                        *)
THEOREM LoadAfterStore ==
  ASSUME NEW f \in [Ram -> Byte], NEW w \in Word, NEW n \in {1, 2, 4},
         NEW a \in Ram, a + n <= RamSize
  PROVE  Load(Stored(f, a, n, w), a, n) = w \cap (0 .. ByteBits * n - 1)
<1> DEFINE lane(j) == w \cap (ByteBits * j .. ByteBits * j + ByteBits - 1)
<1>1. \A j \in 0 .. n - 1 : InLane(Stored(f, a, n, w)[Index(a, j)], j) = lane(j)
  <2> SUFFICES ASSUME NEW j \in 0 .. n - 1
               PROVE  InLane(Stored(f, a, n, w)[Index(a, j)], j) = lane(j)
    OBVIOUS
  <2>1. j \in 0 .. 3
    OBVIOUS
  <2>2. Stored(f, a, n, w)[Index(a, j)] = Lane(w, j)
    BY ByteAt
  <2> QED
    BY <2>1, <2>2, LaneBack
<1>2. Load(Stored(f, a, n, w), a, n) = UNION { lane(j) : j \in 0 .. n - 1 }
  <2> HIDE DEF lane
  <2> QED BY <1>1 DEF Load
<1>3. ByteBits \in Nat /\ ByteBits > 0 /\ w \subseteq Int
  BY MemoryAssumption DEF Word, Bit
<1>4. CASE n = 1
  <2>1. 0 .. n - 1 = {0}
    BY <1>4
  <2>2. UNION { lane(j) : j \in {0} } = lane(0)
    OBVIOUS
  <2>3. lane(0) = w \cap (0 .. ByteBits * n - 1)
    BY <1>3, <1>4
  <2> QED
    BY <1>2, <2>1, <2>2, <2>3
<1>5. CASE n = 2
  <2>1. 0 .. n - 1 = {0, 1}
    BY <1>5
  <2>2. UNION { lane(j) : j \in {0, 1} } = lane(0) \cup lane(1)
    OBVIOUS
  <2>3. lane(0) \cup lane(1) = w \cap (0 .. ByteBits * n - 1)
    BY <1>3, <1>5
  <2> QED
    BY <1>2, <2>1, <2>2, <2>3
<1>6. CASE n = 4
  <2>1. 0 .. n - 1 = {0, 1, 2, 3}
    BY <1>6
  <2>2. UNION { lane(j) : j \in {0, 1, 2, 3} } = lane(0) \cup lane(1) \cup lane(2) \cup lane(3)
    OBVIOUS
  <2>3. lane(0) \cup lane(1) \cup lane(2) \cup lane(3) = w \cap (0 .. ByteBits * n - 1)
    BY <1>3, <1>6
  <2> QED
    BY <1>2, <2>1, <2>2, <2>3
<1> QED
  BY <1>4, <1>5, <1>6

(* A load of bytes that a store does not name delivers what it did before  *)
(* the store, whatever the two widths.                                     *)
THEOREM LoadBesideStore ==
  ASSUME NEW f \in [Ram -> Byte], NEW w \in Word, NEW n \in {1, 2, 4}, NEW m \in {1, 2, 4},
         NEW a \in Ram, a + n <= RamSize, NEW b \in Ram, b + m <= RamSize,
         b + m <= a \/ a + n <= b
  PROVE  Load(Stored(f, a, n, w), b, m) = Load(f, b, m)
<1>1. \A j \in 0 .. m - 1 : Stored(f, a, n, w)[Index(b, j)] = f[Index(b, j)]
  <2> SUFFICES ASSUME NEW j \in 0 .. m - 1
               PROVE  Stored(f, a, n, w)[Index(b, j)] = f[Index(b, j)]
    OBVIOUS
  <2>1. Index(b, j) = b + j /\ b + j \in Ram
    BY ByteAt
  <2>2. b + j \notin a .. a + n - 1
    BY MemoryAssumption DEF Ram
  <2>3. \A x \in Ram : x \notin a .. a + n - 1 => Stored(f, a, n, w)[x] = f[x]
    BY OtherBytes
  <2> QED
    BY <2>1, <2>2, <2>3
<1> QED
  BY <1>1 DEF Load

-----------------------------------------------------------------------------
(* Addresses as words and as numbers.                                      *)

(* Half a quotient is the quotient by twice the divisor.                   *)
LEMMA Halves ==
  ASSUME NEW n \in Nat, NEW p \in Nat, p > 0
  PROVE  /\ n \div p \in Nat
         /\ n \div p = 2 * (n \div (2 * p)) + ((n \div p) % 2)
<1> DEFINE q == n \div p
           s == n \div (2 * p)
           A == p * q
           B == p * (2 * s)
<1>1. q \in Nat /\ A \in Nat /\ A <= n /\ n < A + p
  OBVIOUS
<1>2. s \in Nat /\ B \in Nat /\ B <= n /\ n < B + p + p
  OBVIOUS
<1>3. /\ p * (q + 1) = A + p /\ (2 * s >= q + 1 => B >= p * (q + 1))
      /\ p * (2 * s + 2) = B + p + p /\ (q >= 2 * s + 2 => A >= p * (2 * s + 2))
  <2> HIDE DEF q, s
  <2>1. p * (q + 1) = A + p /\ p * (2 * s + 2) = B + p + p
    BY <1>1, <1>2
  <2>2. 2 * s >= q + 1 => B >= p * (q + 1)
    BY <1>1, <1>2
  <2>3. q >= 2 * s + 2 => A >= p * (2 * s + 2)
    BY <1>1, <1>2
  <2> QED
    BY <2>1, <2>2, <2>3
<1> HIDE DEF q, s, A, B
<1>4. 2 * s <= q /\ q <= 2 * s + 1
  BY <1>1, <1>2, <1>3
<1>5. q = 2 * s + (q % 2)
  BY <1>1, <1>2, <1>4
<1> QED
  BY <1>1, <1>5 DEF q, s

(* The bits of an address in RAM, read as a number, are the address.       *)
LEMMA DigitOfAddress ==
  ASSUME NEW n \in Ram, NEW j \in 0 .. 2, NEW k \in 0 .. 7, k < ByteBits
  PROVE  LET i == ByteBits * j + k IN
         Digit(Address(n), j, k) = Power(k) * ((n \div Power(i)) - 2 * (n \div Power(i + 1)))
<1> DEFINE i == ByteBits * j + k
           q == n \div Power(i)
           s == n \div Power(i + 1)
<1>1. i \in 0 .. 23
  BY MemoryAssumption
<1>2. Power(i) \in Nat /\ Power(i) > 0 /\ Power(i + 1) = 2 * Power(i) /\ Power(k) \in Nat
  BY <1>1, Powers
<1>3. n \in Nat /\ n < RamSize /\ RamSize \in Nat
  BY RamSizeType DEF Ram
<1>4. q \in Nat /\ q = 2 * s + (q % 2) /\ s \in Nat
  <2>1. \A p \in Nat : p > 0 =>
          n \div p \in Nat /\ n \div p = 2 * (n \div (2 * p)) + ((n \div p) % 2)
    BY <1>3, Halves
  <2>2. n \div Power(i) = 2 * (n \div (2 * Power(i))) + ((n \div Power(i)) % 2)
    BY <1>2, <2>1
  <2>3. q \in Nat /\ s \in Nat
    <3>1. 2 * Power(i) \in Nat /\ 2 * Power(i) > 0
      BY <1>2
    <3> QED
      BY <1>2, <2>1, <3>1
  <2> HIDE DEF i
  <2> QED
    BY <1>2, <2>2, <2>3
<1>5. i >= AddrBits => q = 0
  <2>1. i >= AddrBits => Power(i) >= RamSize
    <3>1. AddrBits \in 3 .. 23 /\ RamSize = Power(AddrBits)
      BY MemoryAssumption DEF Power
    <3> QED
      BY <1>1, <3>1, Powers
  <2>2. \A p \in Nat : n < p => n \div p = 0
    BY <1>3
  <2> HIDE DEF i
  <2> QED
    BY <1>2, <1>3, <2>1, <2>2
<1>6. i \in Address(n) <=> (i < AddrBits /\ q % 2 = 1)
  BY <1>1, MemoryAssumption DEF Address, Power
<1>7. Digit(Address(n), j, k) = IF i \in Address(n) THEN Power(k) ELSE 0
  BY DEF Digit, Power
<1> HIDE DEF i, q, s
<1>8. i \in Address(n) <=> q % 2 = 1
  BY <1>1, <1>5, <1>6, MemoryAssumption
<1>9. q - 2 * s = q % 2 /\ q % 2 \in {0, 1}
  BY <1>4
<1> QED
  BY <1>2, <1>7, <1>8, <1>9 DEF i, q, s

LEMMA LaneOfAddress ==
  ASSUME NEW n \in Ram, NEW j \in 0 .. 2
  PROVE  LaneNumber(Address(n), j) =
           (n \div Power(ByteBits * j)) - Power(ByteBits) * (n \div Power(ByteBits * (j + 1)))
<1> DEFINE q(i) == n \div Power(ByteBits * j + i)
           d(k) == Digit(Address(n), j, k)
<1>1. \A k \in 0 .. 7 : k < ByteBits => d(k) = Power(k) * (q(k) - 2 * q(k + 1))
  <2> SUFFICES ASSUME NEW k \in 0 .. 7, k < ByteBits
               PROVE  d(k) = Power(k) * (q(k) - 2 * q(k + 1))
    OBVIOUS
  <2>1. ByteBits * j + (k + 1) = (ByteBits * j + k) + 1
    BY MemoryAssumption
  <2> QED
    BY <2>1, DigitOfAddress
<1>2. \A k \in 0 .. 7 : k >= ByteBits => d(k) = 0
  BY DigitType
<1>3. \A i \in 0 .. 8 : q(i) \in Int
  <2>1. \A i \in 0 .. 8 : ByteBits * j + i \in 0 .. 24
    BY MemoryAssumption
  <2>2. \A m \in 0 .. 24 : Power(m) \in Nat /\ Power(m) > 0
    BY Powers
  <2>3. n \in Nat
    BY RamSizeType DEF Ram
  <2>4. \A p \in Nat : p > 0 => n \div p \in Int
    BY <2>3
  <2> QED
    BY <2>1, <2>2, <2>4
<1>4. LaneNumber(Address(n), j) = d(0) + d(1) + d(2) + d(3) + d(4) + d(5) + d(6) + d(7)
  BY DEF LaneNumber
<1>5. ByteBits * (j + 1) = ByteBits * j + ByteBits /\ ByteBits * j = ByteBits * j + 0
  BY MemoryAssumption
<1>6. n \div Power(ByteBits * j) = q(0) /\ n \div Power(ByteBits * (j + 1)) = q(ByteBits)
  BY <1>5
<1> HIDE DEF q, d
<1>7. /\ Power(0) = 1 /\ Power(1) = 2 /\ Power(2) = 4 /\ Power(3) = 8 /\ Power(4) = 16
      /\ Power(5) = 32 /\ Power(6) = 64 /\ Power(7) = 128 /\ Power(8) = 256
  BY Powers
<1>8. d(0) + d(1) + d(2) + d(3) + d(4) + d(5) + d(6) + d(7) = q(0) - Power(ByteBits) * q(ByteBits)
  <2>1. /\ q(0) \in Int /\ q(1) \in Int /\ q(2) \in Int /\ q(3) \in Int /\ q(4) \in Int
        /\ q(5) \in Int /\ q(6) \in Int /\ q(7) \in Int /\ q(8) \in Int
    BY <1>3
  <2>2. /\ d(0) = q(0) - 2 * q(1) /\ d(1) = 2 * (q(1) - 2 * q(2))
        /\ d(2) = 4 * (q(2) - 2 * q(3)) /\ d(3) = 8 * (q(3) - 2 * q(4))
    BY <1>1, <1>7, <2>1, MemoryAssumption
  <2>3. d(0) + d(1) + d(2) + d(3) = q(0) - 16 * q(4)
    BY <2>1, <2>2
  <2>4. /\ d(4) = IF ByteBits >= 5 THEN 16 * (q(4) - 2 * q(5)) ELSE 0
        /\ d(5) = IF ByteBits >= 6 THEN 32 * (q(5) - 2 * q(6)) ELSE 0
        /\ d(6) = IF ByteBits >= 7 THEN 64 * (q(6) - 2 * q(7)) ELSE 0
        /\ d(7) = IF ByteBits >= 8 THEN 128 * (q(7) - 2 * q(8)) ELSE 0
    BY <1>1, <1>2, <1>7, MemoryAssumption
  <2>5. ByteBits \in {4, 5, 6, 7, 8}
    BY MemoryAssumption
  <2> QED
    BY <1>7, <2>1, <2>2, <2>3, <2>4, <2>5
<1> QED
  BY <1>4, <1>6, <1>8

LEMMA AddressBack == ASSUME NEW n \in Ram PROVE RamAddress(Address(n)) = n
<1> DEFINE q(j) == n \div Power(ByteBits * j)
           l(j) == LaneNumber(Address(n), j)
<1>1. ByteBits * 0 = 0 /\ ByteBits * 1 = ByteBits /\ ByteBits * 2 = 2 * ByteBits
      /\ ByteBits * 3 = 3 * ByteBits
  BY MemoryAssumption
<1>2. n \in Nat /\ n < RamSize /\ RamSize \in Nat
  BY RamSizeType DEF Ram
<1>3. \A j \in 0 .. 2 : l(j) = q(j) - Power(ByteBits) * q(j + 1)
  BY LaneOfAddress
<1>4. q(0) = n
  BY <1>1, <1>2, Powers
<1>5. q(3) = 0
  <2>1. Power(3 * ByteBits) \in Nat /\ RamSize <= Power(3 * ByteBits)
    BY RamSizes, MemoryAssumption, Powers
  <2>2. \A p \in Nat : n < p => n \div p = 0
    BY <1>2
  <2> QED
    BY <1>1, <1>2, <2>1, <2>2
<1>6. q(1) \in Int /\ q(2) \in Int
  <2>1. Power(ByteBits) \in Nat \ {0} /\ Power(2 * ByteBits) \in Nat \ {0}
    BY Powers, MemoryAssumption
  <2> QED
    BY <1>1, <1>2, <2>1
<1> HIDE DEF q, l
<1>7. l(0) = n - Power(ByteBits) * q(1) /\ l(1) = q(1) - Power(ByteBits) * q(2) /\ l(2) = q(2)
  <2>1. Power(ByteBits) \in Nat
    BY Powers, MemoryAssumption
  <2> QED
    BY <1>3, <1>4, <1>5, <1>6, <2>1
<1>8. 2 ^ ByteBits = Power(ByteBits) /\ 2 ^ (2 * ByteBits) = Power(2 * ByteBits)
  BY DEF Power
<1>9. l(0) + Power(ByteBits) * l(1) + Power(2 * ByteBits) * l(2) = n
  BY <1>2, <1>6, <1>7, Powers, MemoryAssumption
<1>10. RamAddress(Address(n)) = n % RamSize
  BY <1>8, <1>9 DEF RamAddress, l
<1> QED
  BY <1>2, <1>10

LEMMA NumberOfNothing ==
  /\ \A j \in 0 .. 3 : LaneNumber({}, j) = 0
  /\ RamAddress({}) = 0 /\ Number[{}] = 0
<1>1. \A j : LaneNumber({}, j) = 0
  BY DEF LaneNumber, Digit
<1>2. RamAddress({}) = 0
  BY <1>1, Widths, RamSizeType DEF RamAddress
<1>3. {} \in Word
  BY DEF Word
<1>4. Number[{}] = 0
  BY <1>1, <1>3, Widths DEF Number
<1> QED
  BY <1>1, <1>2, <1>4

(* 0xffffff: ones in the three lower bytes.                                *)
LEMMA LowBytes ==
  LET w == 0 .. 3 * ByteBits - 1 IN
  w \in Word /\ LaneNumber(w, 3) = 0 /\ RamAddress(w) = RamSize - 1
<1> DEFINE w == 0 .. 3 * ByteBits - 1
<1>1. ByteBits \in {4, 5, 6, 7, 8}
  BY MemoryAssumption
<1>2. w \in Word
  BY <1>1 DEF Word, Bit
<1>3. \A k \in 0 .. 7 : /\ \A j \in 0 .. 2 : Digit(w, j, k) = IF k < ByteBits THEN Power(k) ELSE 0
                       /\ Digit(w, 3, k) = 0
  BY <1>1 DEF Digit, Power
<1>4. \A j \in 0 .. 2 : LaneNumber(w, j) = Power(ByteBits) - 1
  <2> SUFFICES ASSUME NEW j \in 0 .. 2 PROVE LaneNumber(w, j) = Power(ByteBits) - 1
    OBVIOUS
  <2> HIDE DEF w
  <2> QED
    BY <1>1, <1>3, Powers DEF LaneNumber
<1>5. LaneNumber(w, 3) = 0
  <2> HIDE DEF w
  <2> QED
    BY <1>3 DEF LaneNumber
<1>6. RamAddress(w) = RamSize - 1
  <2> DEFINE m == LaneNumber(w, 0) + 2 ^ ByteBits * LaneNumber(w, 1)
                    + 2 ^ (2 * ByteBits) * LaneNumber(w, 2)
  <2>1. m = Power(3 * ByteBits) - 1
    <3>1. 2 ^ ByteBits = Power(ByteBits) /\ 2 ^ (2 * ByteBits) = Power(2 * ByteBits)
      BY DEF Power
    <3> HIDE DEF w
    <3> QED
      BY <1>1, <1>4, <3>1, Powers
  <2>2. RamAddress(w) = m % RamSize
    BY DEF RamAddress
  <2> HIDE DEF m
  <2>3. m % RamSize = RamSize - 1
    BY <1>1, <2>1, RamSizes, Powers, MemoryAssumption
  <2> QED
    BY <2>2, <2>3
<1> QED
  BY <1>2, <1>5, <1>6

LEMMA HalfNumber ==
  ASSUME NEW w \in Word
  PROVE  /\ Number[LowHalf(w)] \in 0 .. 2 ^ (2 * ByteBits) - 1
         /\ Number[HighHalf(w)] \in 0 .. 2 ^ (2 * ByteBits) - 1
<1>1. ASSUME NEW v \in Word, v \subseteq 0 .. 2 * ByteBits - 1
      PROVE  Number[v] \in 0 .. 2 ^ (2 * ByteBits) - 1
  <2> DEFINE l(j) == LaneNumber(v, j)
  <2>1. l(2) = 0 /\ l(3) = 0
    <3>1. \A k \in 0 .. 7 : ByteBits * 2 + k \notin v /\ ByteBits * 3 + k \notin v
      <4>1. \A k \in 0 .. 7 : /\ ByteBits * 2 + k \notin 0 .. 2 * ByteBits - 1
                             /\ ByteBits * 3 + k \notin 0 .. 2 * ByteBits - 1
        BY MemoryAssumption
      <4> QED
        BY <1>1, <4>1
    <3>2. \A k \in 0 .. 7 : Digit(v, 2, k) = 0 /\ Digit(v, 3, k) = 0
      BY <3>1 DEF Digit
    <3> QED
      BY <3>2 DEF LaneNumber
  <2>2. l(0) \in 0 .. 2 ^ ByteBits - 1 /\ l(1) \in 0 .. 2 ^ ByteBits - 1
    BY LaneNumberType
  <2>3. Number[v] = l(0) + 2 ^ ByteBits * l(1) + 2 ^ (2 * ByteBits) * l(2)
                      + 2 ^ (3 * ByteBits) * l(3)
    BY DEF Number
  <2> HIDE DEF l
  <2> QED
    BY <2>1, <2>2, <2>3, Widths
<1>2. LowHalf(w) \in Word /\ LowHalf(w) \subseteq 0 .. 2 * ByteBits - 1
  BY HalfType DEF LowHalf
<1>3. HighHalf(w) \in Word /\ HighHalf(w) \subseteq 0 .. 2 * ByteBits - 1
  BY HalfType DEF HighHalf
<1> QED
  BY <1>1, <1>2, <1>3

-----------------------------------------------------------------------------
(* Bit 31 is not among the bits it is made of, so to bring it up to date   *)
(* twice is to do so once.                                                 *)
LEMMA UpdateTwice ==
  ASSUME NEW d
  PROVE  update_irq_active(update_irq_active(d)) = update_irq_active(d)
<1> DEFINE u == update_irq_active(d)
<1>1. ByteBits \in Int /\ ByteBits >= 4
  BY MemoryAssumption
<1>2. Active # Forced /\ Active # Master
  BY <1>1 DEF Active, Forced, Master
<1>3. \A k \in 0 .. ByteBits - 2 : 2 * ByteBits + k # Active /\ 3 * ByteBits + k # Active
  BY <1>1 DEF Active
<1>4. u = d \cup {Active} \/ u = d \ {Active}
  BY DEF update_irq_active
<1>5. \A x : x # Active => (x \in u <=> x \in d)
  BY <1>4
<1>6. signal(u) <=> signal(d)
  BY <1>3, <1>5 DEF signal
<1>7. (Forced \in u <=> Forced \in d) /\ (Master \in u <=> Master \in d)
  BY <1>2, <1>5
<1>8. CASE Forced \in d \/ (Master \in d /\ signal(d))
  <2>1. u = d \cup {Active} /\ update_irq_active(u) = u \cup {Active}
    BY <1>6, <1>7, <1>8 DEF update_irq_active
  <2> QED BY <2>1
<1>9. CASE ~(Forced \in d \/ (Master \in d /\ signal(d)))
  <2>1. u = d \ {Active} /\ update_irq_active(u) = u \ {Active}
    BY <1>6, <1>7, <1>9 DEF update_irq_active
  <2> QED BY <2>1
<1> QED BY <1>8, <1>9

-----------------------------------------------------------------------------
(* A step leaves bytes in RAM, the BIOS as it is, and DICR up to date.     *)
Kept ==
  /\ bseg' = bseg
  /\ kuseg' = kuseg \/ kuseg' \in [Ram -> Byte]
  /\ dicr' = dicr \/ dicr' = update_irq_active(dicr')

LEMMA ExitKeeps == ASSUME Exit PROVE Kept
  BY DEF Exit, dma_vars, Kept

LEMMA IgnoreKeeps == ASSUME UNCHANGED vars PROVE Kept
  BY DEF vars, dma_vars, Kept

LEMMA StoreKeeps ==
  ASSUME NEW addr, NEW n, NEW val, kuseg \in [Ram -> Byte], Store(addr, n, val)
  PROVE  Kept
<1>1. CASE Exit
  BY <1>1, ExitKeeps
<1>2. CASE kuseg' = Stored(kuseg, addr, n, val) /\ UNCHANGED << bseg, dma_vars, running >>
  BY <1>2, StoredType DEF Kept, dma_vars
<1> QED
  BY <1>1, <1>2 DEF Store

LEMMA CregKeeps == ASSUME NEW i, NEW n, write_creg(i, n) PROVE Kept
  BY ExitKeeps, IgnoreKeeps DEF write_creg, Ignore

LEMMA ControllerKeeps ==
  ASSUME NEW addr, NEW val, controller_write(addr, val)
  PROVE  Kept
<1> DEFINE c == ChannelAt(addr)
<1>1. CASE Exit
  BY <1>1, ExitKeeps
<1>2. CASE \E field : write_register(c, field, val)
  BY <1>2 DEF write_register, Kept
<1>3. CASE write_chcr(c, val)
  BY <1>3, ExitKeeps DEF write_chcr, Kept
<1> QED
  BY <1>1, <1>2, <1>3 DEF controller_write

LEMMA DicrKeeps == ASSUME NEW val, write_dicr(val) PROVE Kept
<1> DEFINE d == ((dicr \cap Flags) \cup (val \cap Settable)) \ (val \cap Acked)
<1>1. dicr' = update_irq_active(d) /\ UNCHANGED << kuseg, bseg >>
  BY DEF write_dicr
<1>2. update_irq_active(dicr') = dicr'
  BY <1>1, UpdateTwice
<1> QED
  BY <1>1, <1>2 DEF Kept

LEMMA WriteKeeps ==
  ASSUME NEW addr, NEW n \in {1, 2, 4}, NEW val, kuseg \in [Ram -> Byte], Write(addr, n, val)
  PROVE  Kept
<1>1. CASE n = 1
  <2>1. write_byte(addr, val)
    BY <1>1 DEF Write
  <2> QED
    BY <2>1, IgnoreKeeps, ExitKeeps, StoreKeeps DEF write_byte, Ignore
<1>2. CASE n = 2
  <2>1. write_hword(addr, val)
    BY <1>2 DEF Write
  <2> QED
    BY <2>1, IgnoreKeeps, CregKeeps, ControllerKeeps, StoreKeeps DEF write_hword, Ignore
<1>3. CASE n = 4
  <2>1. write_word(addr, val)
    BY <1>3 DEF Write
  <2>2. write_dpcr(val) => Kept
    BY DEF write_dpcr, Kept
  <2> QED
    BY <2>1, <2>2, IgnoreKeeps, CregKeeps, DicrKeeps, ControllerKeeps, StoreKeeps
       DEF write_word, Ignore
<1> QED
  BY <1>1, <1>2, <1>3

LEMMA ReadKeeps == ASSUME NEW addr, NEW n, NEW w, Read(addr, n, w) PROVE Kept
  BY ExitKeeps, IgnoreKeeps DEF Read

LEMMA FinishKeeps == ASSUME NEW c, NEW chcr, finish(c, chcr) PROVE Kept
<1> DEFINE d == IF MaskBit(c) \in dicr THEN dicr \cup {FlagBit(c)} ELSE dicr
<1>1. dicr' = update_irq_active(d) /\ UNCHANGED << kuseg, bseg >>
  BY DEF finish
<1>2. update_irq_active(dicr') = dicr'
  BY <1>1, UpdateTwice
<1> QED
  BY <1>1, <1>2 DEF Kept

LEMMA TransferKeeps ==
  ASSUME kuseg \in [Ram -> Byte], Transferring
  PROVE  Kept
<1>1. CASE block_word
  BY <1>1, StoredType DEF block_word, Kept
<1>2. CASE block_done
  BY <1>2, FinishKeeps DEF block_done, transfer_done
<1>3. CASE list_entry
  BY <1>3 DEF list_entry, Kept
<1>4. CASE list_packet
  BY <1>4 DEF list_packet, Kept
<1>5. CASE list_follow
  BY <1>5 DEF list_follow, Kept
<1>6. CASE list_done
  BY <1>6, FinishKeeps DEF list_done, transfer_done
<1> QED
  BY <1>1, <1>2, <1>3, <1>4, <1>5, <1>6 DEF Transferring

LEMMA BootLoads ==
  ASSUME Boot
  PROVE  /\ kuseg = Null /\ kuseg' = [a \in Ram |-> Fill] /\ kuseg' \in [Ram -> Byte]
         /\ bseg' = Null \/ bseg' \in [Rom -> Byte]
         /\ UNCHANGED << dpcr, dicr, channels, transfer, running >>
<1>1. kuseg = Null /\ kuseg' = [a \in Ram |-> Fill] /\ Fill \in Byte
  BY MemoryAssumption DEF Boot, psmem_init
<1>2. PICK file \in Files : bseg' = IF file # Null /\ DOMAIN file = Rom THEN file ELSE Null
  BY DEF Boot, load_bios
<1>3. CASE file # Null /\ DOMAIN file = Rom
  <2>1. file \in [Rom -> Byte]
    BY <1>3, BusAssumption
  <2> QED
    BY <1>1, <1>2, <1>3, <2>1 DEF Boot, dma_vars
<1> QED
  BY <1>1, <1>2, <1>3 DEF Boot, dma_vars

-----------------------------------------------------------------------------
(* The types of the controller's state.  A list is read in aligned words,  *)
(* or the last word of RAM would be read past its end.                     *)
ControlOK ==
  /\ dpcr \in Word /\ dicr \in Word
  /\ channels \in [Channel -> Register]
  /\ transfer \in Transfer
  /\ transfer.phase \in {"entry", "packet"} => transfer.addr % 4 = 0
  /\ running \in BOOLEAN

LEMMA BitsType ==
  /\ ByteBits \in Nat /\ Active \in Bit
  /\ \A c \in Channel : FlagBit(c) \in Bit
  /\ Settable \subseteq Bit /\ Flags \subseteq Bit
<1>1. ByteBits \in 4 .. 8 /\ \A c \in Channel : Slot(c) \in 0 .. ByteBits - 2
  BY MemoryAssumption, ControllerAssumption
<1> QED
  BY <1>1 DEF Active, FlagBit, Settable, Forced, Flags, Bit

LEMMA UpdateType == ASSUME NEW d \in Word PROVE update_irq_active(d) \in Word
  BY BitsType DEF update_irq_active, Word

LEMMA WordAddressType ==
  ASSUME NEW a \in Ram
  PROVE  WordAddress(a) \in Ram /\ WordAddress(a) % 4 = 0
  BY RamSizeType DEF WordAddress, Ram

LEMMA MoveType ==
  ASSUME transfer.addr \in Ram, NEW n \in Int
  PROVE  Move(n) \in Ram /\ (transfer.addr % 4 = 0 /\ n = 4 => Move(n) % 4 = 0)
<1>1. transfer.addr \in Nat /\ transfer.addr < RamSize /\ RamSize \in Nat /\ RamSize > 0
  BY RamSizeType DEF Ram
<1>2. transfer.addr + n \in Int
  BY <1>1
<1>3. Move(n) \in Ram
  BY <1>1, <1>2 DEF Move, Ram
<1>4. ASSUME transfer.addr % 4 = 0, n = 4
      PROVE  Move(n) % 4 = 0
  <2>1. CASE transfer.addr + 4 < RamSize
    BY <1>1, <1>4, <2>1 DEF Move
  <2>2. CASE transfer.addr + 4 >= RamSize
    <3>1. transfer.addr + 4 = RamSize
      BY <1>1, <1>4, <2>2, RamSizeType
    <3> QED
      BY <1>1, <1>4, <3>1 DEF Move
  <2> QED
    BY <1>1, <2>1, <2>2
<1> QED
  BY <1>3, <1>4

LEMMA NoTransferType == NoTransfer \in Transfer /\ NoTransfer.phase = "none"
<1>1. 0 \in Ram /\ {} \in Word /\ GPU \in Channel
  BY RamSizeType, ControllerAssumption DEF Ram, Word
<1> QED
  BY <1>1 DEF NoTransfer, Transfer

LEMMA InitType == ASSUME ControllerInit PROVE ControlOK
<1>1. \A c \in Channel, k \in 0 .. 2 : 4 * Slot(c) + k \in Bit
  <2>1. \A c \in Channel : Slot(c) \in 0 .. ByteBits - 2
    BY ControllerAssumption
  <2> QED
    BY <2>1, BitsType DEF Bit
<1>2. ResetDpcr \in Word
  BY <1>1 DEF ResetDpcr, Priority, Word
<1>3. channels \in [Channel -> Register]
  BY DEF ControllerInit, Register, Word
<1> QED
  BY <1>2, <1>3, NoTransferType DEF ControllerInit, ControlOK, Word

LEMMA DecodedType ==
  ASSUME NEW r \in Register, NEW val \in Word
  PROVE  Decoded(r, val) \in Register
<1>1. Mode(val) < 3 => Mode(val) \in {IMMEDIATE, REQUEST, LINKED_LIST}
  BY DEF Mode, IMMEDIATE, REQUEST, LINKED_LIST
<1> DEFINE mode == IF Mode(val) < 3 THEN Mode(val) ELSE r.syncmode
           from == FromRam \in val
<1>2. mode \in {IMMEDIATE, REQUEST, LINKED_LIST} /\ from \in BOOLEAN
  BY <1>1 DEF Register
<1>3. Decoded(r, val) = [r EXCEPT !.channel_control = val, !.from_ram = from, !.syncmode = mode]
  BY DEF Decoded
<1> HIDE DEF mode, from
<1> QED
  BY <1>2, <1>3 DEF Register

LEMMA DoDmaType ==
  ASSUME NEW c \in Channel, NEW r \in Register, do_dma(c, r)
  PROVE  /\ transfer' \in Transfer
         /\ transfer'.phase \in {"entry", "packet"} => transfer'.addr % 4 = 0
<1> DEFINE base  == RamAddress(r.base_address)
           size  == Number[LowHalf(r.block_control)]
           words == IF r.syncmode = IMMEDIATE THEN size
                    ELSE size * Number[HighHalf(r.block_control)]
<1>1. base \in Ram /\ WordAddress(base) \in Ram /\ WordAddress(base) % 4 = 0
  BY RamAddressType, WordAddressType
<1>2. words \in Nat
  <2>1. r.block_control \in Word
    BY DEF Register
  <2>2. size \in Nat /\ Number[HighHalf(r.block_control)] \in Nat
    BY <2>1, HalfType, NumberType
  <2> QED
    BY <2>2
<1>3. transfer' = IF r.syncmode = LINKED_LIST
                  THEN [NoTransfer EXCEPT !.phase = "entry", !.channel = c,
                                          !.addr = WordAddress(base)]
                  ELSE [NoTransfer EXCEPT !.phase = "block", !.channel = c,
                                          !.addr = base, !.words_left = words]
  BY DEF do_dma
<1> HIDE DEF base, words
<1> QED
  BY <1>1, <1>2, <1>3, NoTransferType DEF Transfer, NoTransfer

LEMMA ChcrType ==
  ASSUME ControlOK, NEW c \in Channel, NEW val \in Word, write_chcr(c, val)
  PROVE  ControlOK'
<1> DEFINE r == Decoded(channels[c], val)
<1>1. r \in Register
  BY DecodedType DEF ControlOK
<1> HIDE DEF r
<1>2. CASE Exit
  BY <1>2 DEF Exit, dma_vars, ControlOK
<1>3. CASE /\ channels' = [channels EXCEPT ![c] = r]
           /\ do_dma(c, r) \/ UNCHANGED transfer
           /\ UNCHANGED << dpcr, dicr, running >>
  <2>1. channels' \in [Channel -> Register]
    BY <1>1, <1>3 DEF ControlOK
  <2>2. /\ transfer' \in Transfer
        /\ transfer'.phase \in {"entry", "packet"} => transfer'.addr % 4 = 0
    BY <1>1, <1>3, DoDmaType DEF ControlOK
  <2> QED
    BY <1>3, <2>1, <2>2 DEF ControlOK
<1> QED
  BY <1>2, <1>3 DEF write_chcr, r

(* The tests of the bus select a channel that there is.                    *)
LEMMA ChannelType ==
  ASSUME NEW addr \in Addresses, At(addr, DmaRegisters)
  PROVE  ChannelAt(addr) \in Channel
<1> DEFINE o == addr - IoBase
           q == IoBase \div 256
<1>1. IoBase \in Nat /\ IoBase % 256 = 0 /\ addr \in Nat
  BY BusAssumption, MemoryAssumption DEF Addresses
<1>2. o \in \h80 .. \he8 /\ (o \div 16) - 8 \in Channel
  BY DEF At, DmaRegisters
<1>3. q \in Nat /\ IoBase = 256 * q /\ addr = 256 * q + o
  BY <1>1, <1>2
<1> HIDE DEF q, o
<1>4. (addr \div 16) % 16 = o \div 16
  <2>1. addr \div 16 = 16 * q + (o \div 16) /\ o \div 16 \in 8 .. 14
    BY <1>2, <1>3
  <2> QED
    BY <1>3, <2>1
<1> QED
  BY <1>2, <1>4 DEF ChannelAt

LEMMA ControllerWriteType ==
  ASSUME ControlOK, NEW addr, ChannelAt(addr) \in Channel, NEW val \in Word,
         controller_write(addr, val)
  PROVE  ControlOK'
<1> DEFINE c == ChannelAt(addr)
<1>1. CASE Exit
  BY <1>1 DEF Exit, dma_vars, ControlOK
<1>2. ASSUME NEW field, write_register(c, field, val)
      PROVE  ControlOK'
  <2>1. channels' \in [Channel -> Register]
    BY <1>2 DEF write_register, ControlOK, Register
  <2> QED
    BY <1>2, <2>1 DEF write_register, ControlOK
<1>3. CASE write_chcr(c, val)
  BY <1>3, ChcrType
<1> QED
  BY <1>1, <1>2, <1>3 DEF controller_write

LEMMA WriteType ==
  ASSUME ControlOK, NEW addr \in Addresses, NEW n \in {1, 2, 4}, NEW val \in Word,
         Write(addr, n, val)
  PROVE  ControlOK'
<1>1. CASE UNCHANGED << dma_vars, running >> \/ Exit
  BY <1>1 DEF Exit, dma_vars, ControlOK
<1>2. Ignore \/ Exit \/ (\E i, k : write_creg(i, k)) \/ (\E k : Store(addr, k, val))
        => UNCHANGED << dma_vars, running >> \/ Exit
  BY DEF Ignore, vars, write_creg, Store
<1>3. At(addr, DmaRegisters) => ChannelAt(addr) \in Channel
  BY ChannelType
<1>4. CASE n = 1
  <2>1. write_byte(addr, val)
    BY <1>4 DEF Write
  <2> QED
    BY <1>1, <1>2, <2>1 DEF write_byte
<1>5. CASE n = 2
  <2>1. write_hword(addr, val)
    BY <1>5 DEF Write
  <2>2. CASE At(addr, DmaRegisters) /\ controller_write(addr, LowHalf(val))
    BY <1>3, <2>2, HalfType, ControllerWriteType
  <2> QED
    BY <1>1, <1>2, <2>1, <2>2 DEF write_hword
<1>6. CASE n = 4
  <2>1. write_word(addr, val)
    BY <1>6 DEF Write
  <2>2. CASE At(addr, DmaRegisters) /\ controller_write(addr, val)
    BY <1>3, <2>2, ControllerWriteType
  <2>3. CASE write_dpcr(val)
    BY <2>3 DEF write_dpcr, ControlOK
  <2>4. CASE write_dicr(val)
    <3>1. ((dicr \cap Flags) \cup (val \cap Settable)) \ (val \cap Acked) \in Word
      BY BitsType DEF Word
    <3> QED
      BY <2>4, <3>1, UpdateType DEF write_dicr, ControlOK
  <2> QED
    BY <1>1, <1>2, <2>1, <2>2, <2>3, <2>4 DEF write_word
<1> QED
  BY <1>4, <1>5, <1>6

LEMMA FinishType ==
  ASSUME ControlOK, NEW c \in Channel, NEW chcr \in Word, finish(c, chcr)
  PROVE  ControlOK'
<1>1. dicr' \in Word
  <2>1. (IF MaskBit(c) \in dicr THEN dicr \cup {FlagBit(c)} ELSE dicr) \in Word
    BY BitsType DEF ControlOK, Word
  <2> QED
    BY <2>1, UpdateType DEF finish
<1>2. channels' \in [Channel -> Register]
  BY DEF finish, ControlOK, Register
<1> QED
  BY <1>1, <1>2, NoTransferType DEF finish, ControlOK

LEMMA RamInside ==
  ASSUME kuseg \in [Ram -> Byte], NEW a \in Ram, NEW n \in {1, 2, 4}, a + n <= RamSize
  PROVE  Inside(kuseg, a, n)
<1>1. kuseg # Null
  BY MemoryAssumption
<1>2. \A j \in 0 .. n - 1 : Index(a, j) \in Ram
  <2>1. Space \in Nat /\ Space > RamSize
    BY MemoryAssumption
  <2> QED
    BY <2>1, RamSizeType DEF Index, Ram
<1> QED
  BY <1>1, <1>2 DEF Inside

LEMMA TransferType ==
  ASSUME ControlOK, kuseg \in [Ram -> Byte], Transferring
  PROVE  ControlOK'
<1> DEFINE c == transfer.channel
<1>1. /\ transfer \in Transfer /\ c \in Channel /\ transfer.addr \in Ram
      /\ transfer.words_left \in Nat /\ channels[c].channel_control \in Word
  BY DEF ControlOK, Transfer, Register
<1>2. CASE block_word
  <2> DEFINE a == Move(IF channels[c].from_ram THEN 4 ELSE -4)
  <2>1. a \in Ram
    BY <1>1, MoveType
  <2>2. transfer' = [transfer EXCEPT !.addr = a, !.words_left = @ - 1]
        /\ transfer.words_left # 0 /\ transfer.phase = "block"
    BY <1>2 DEF block_word
  <2> HIDE DEF a
  <2>3. transfer.words_left - 1 \in Nat
    BY <1>1, <2>2
  <2>4. transfer' \in Transfer /\ transfer'.phase = "block"
    BY <1>1, <2>1, <2>2, <2>3 DEF Transfer
  <2> QED
    BY <1>2, <2>4 DEF block_word, ControlOK
<1>3. CASE block_done \/ list_done
  <2>1. finish(c, channels[c].channel_control \ {Enabled})
    BY <1>3 DEF block_done, list_done, transfer_done
  <2>2. channels[c].channel_control \ {Enabled} \in Word
    BY <1>1 DEF Word
  <2> QED
    BY <1>1, <2>1, <2>2, FinishType
<1>4. CASE list_entry
  <2>1. transfer.addr % 4 = 0 /\ transfer.addr \in Nat /\ transfer.addr + 4 <= RamSize
    BY <1>1, <1>4, RamSizeType DEF list_entry, ControlOK, Ram
  <2>2. Inside(kuseg, transfer.addr, 4)
    BY <1>1, <2>1, RamInside
  <2>3. Load(kuseg, transfer.addr, 4) \in Word
    BY <2>2, LoadType
  <2>4. LaneNumber(Load(kuseg, transfer.addr, 4), 3) \in Nat
    BY LaneNumberType, Widths
  <2>5. transfer' \in Transfer /\ transfer'.addr = transfer.addr
    BY <1>1, <1>4, <2>3, <2>4 DEF list_entry, Transfer
  <2> QED
    BY <1>4, <2>1, <2>5 DEF list_entry, ControlOK
<1>5. CASE list_packet
  <2> DEFINE a == Move(4)
  <2>1. a \in Ram /\ a % 4 = 0
    BY <1>1, <1>5, MoveType DEF list_packet, ControlOK
  <2>2. transfer' = [transfer EXCEPT !.addr = a, !.words_left = @ - 1]
        /\ transfer.words_left - 1 \in Nat
    BY <1>1, <1>5 DEF list_packet
  <2> HIDE DEF a
  <2>3. transfer' \in Transfer /\ transfer'.addr = a
    BY <1>1, <2>1, <2>2 DEF Transfer
  <2> QED
    BY <1>5, <2>1, <2>3 DEF list_packet, ControlOK
<1>6. CASE list_follow
  <2> DEFINE a == WordAddress(RamAddress(transfer.entry))
  <2>1. a \in Ram /\ a % 4 = 0
    BY RamAddressType, WordAddressType
  <2> HIDE DEF a
  <2>2. transfer' = [transfer EXCEPT !.phase = "entry", !.addr = a]
    BY <1>6 DEF list_follow, a
  <2>3. transfer' \in Transfer /\ transfer'.addr = a
    BY <1>1, <2>1, <2>2 DEF Transfer
  <2> QED
    BY <1>6, <2>1, <2>3 DEF list_follow, ControlOK
<1> QED
  BY <1>2, <1>3, <1>4, <1>5, <1>6 DEF Transferring

-----------------------------------------------------------------------------
(* What a read delivers, if it does not end the process, is a word.        *)
LEMMA LyingType ==
  ASSUME NEW S, NEW f \in [S -> Byte], NEW a, NEW n \in {1, 2, 4}, NEW w
  PROVE  UNION { InLane(Lying(f, a, w, j), j) : j \in 0 .. n - 1 } \in Word
<1>1. ASSUME NEW j \in 0 .. n - 1
      PROVE  InLane(Lying(f, a, w, j), j) \subseteq Bit
  <2>1. j \in 0 .. 3
    OBVIOUS
  <2>2. Lying(f, a, w, j) \in Byte
    BY LaneType DEF Lying
  <2> QED
    BY <2>1, <2>2, InLaneType
<1> QED
  BY <1>1 DEF Word

LEMMA FoundType ==
  ASSUME NEW S, NEW f, f = Null \/ f \in [S -> Byte], NEW a, NEW n \in {1, 2, 4},
         NEW w \in Found(f, a, n)
  PROVE  w \in Word \cup {Fault}
<1>1. CASE f = Null
  BY <1>1 DEF Found
<1>2. CASE f # Null /\ Inside(f, a, n)
  BY <1>2, LoadType DEF Found
<1>3. CASE f # Null /\ ~Inside(f, a, n)
  BY <1>3, LyingType DEF Found
<1> QED
  BY <1>1, <1>2, <1>3

LEMMA ConstantType ==
  ASSUME NEW b3, NEW b2, NEW b1, NEW b0
  PROVE  Constant(b3, b2, b1, b0) \in Word
<1> DEFINE part(b) == Ones \cap b
<1>1. \A b : part(b) \in Byte
  BY DEF Ones, Byte
<1> HIDE DEF part
<1>2. /\ InLane(part(b3), 3) \subseteq Bit /\ InLane(part(b2), 2) \subseteq Bit
      /\ InLane(part(b1), 1) \subseteq Bit /\ InLane(part(b0), 0) \subseteq Bit
  BY <1>1, InLaneType
<1> QED
  BY <1>2 DEF Constant, Word, part

LEMMA OnesType == Ones \in Word /\ {} \in Word
  BY BitsType DEF Ones, Word, Bit

LEMMA ControllerReadType ==
  ASSUME ControlOK, NEW addr \in Addresses, At(addr, DmaRegisters),
         NEW w \in controller_read(addr)
  PROVE  w \in Word
<1>1. ChannelAt(addr) \in Channel
  BY ChannelType
<1> QED
  BY <1>1 DEF controller_read, ControlOK, Register

LEMMA ReadType ==
  ASSUME MemoryTypeOK, ControlOK, NEW addr \in Addresses, NEW n \in {1, 2, 4},
         NEW w \in Outcomes(addr, n)
  PROVE  w \in Word \cup {Fault}
<1>1. \A m \in {1, 2, 4} : w \in Bios(addr, m) \/ w \in Found(kuseg, addr, m)
        => w \in Word \cup {Fault}
  BY FoundType DEF Bios, MemoryTypeOK
<1>2. CASE n = 1
  <2>1. w \in read_byte(addr)
    BY <1>2 DEF Outcomes
  <2> QED
    BY <1>1, <2>1, OnesType DEF read_byte
<1>3. CASE n = 2
  <2>1. w \in read_hword(addr)
    BY <1>3 DEF Outcomes
  <2> QED
    BY <1>1, <2>1, OnesType DEF read_hword
<1>4. CASE n = 4
  <2>1. w \in read_word(addr)
    BY <1>4 DEF Outcomes
  <2>2. At(addr, DmaRegisters) /\ w \in controller_read(addr) => w \in Word
    BY ControllerReadType
  <2>3. ReadyToSend \in Word /\ Behind8 \in Word /\ BehindC \in Word
    BY ConstantType DEF ReadyToSend, Behind8, BehindC
  <2>4. Wild \subseteq Word /\ dpcr \in Word /\ dicr \in Word
    BY BusAssumption DEF ControlOK
  <2> QED
    BY <1>1, <2>1, <2>2, <2>3, <2>4, OnesType DEF read_word
<1> QED
  BY <1>2, <1>3, <1>4

-----------------------------------------------------------------------------
(* The inductive invariant of the bus: types, aligned lists, and bit 31.   *)
BusInv == MemoryTypeOK /\ ControlOK /\ ActiveIsCurrent

LEMMA KeptKeepsInv == ASSUME BusInv, Kept, ControlOK' PROVE BusInv'
  BY DEF BusInv, MemoryTypeOK, ActiveIsCurrent, Kept

LEMMA InitInv == ASSUME Init PROVE BusInv
<1>1. update_irq_active({}) = {}
  BY DEF update_irq_active, signal
<1>2. ControlOK
  BY InitType DEF Init
<1> QED
  BY <1>1, <1>2 DEF Init, MemoryInit, ControllerInit, BusInv, MemoryTypeOK, ActiveIsCurrent

LEMMA BootInv == ASSUME BusInv, Boot PROVE BusInv'
<1>1. ControlOK'
  BY BootLoads DEF BusInv, ControlOK
<1> QED
  BY <1>1, BootLoads DEF BusInv, MemoryTypeOK, ActiveIsCurrent, update_irq_active, signal

LEMMA AccessInv == ASSUME BusInv, Access PROVE BusInv'
<1>1. kuseg \in [Ram -> Byte]
  BY DEF BusInv, MemoryTypeOK, Access, Ready
<1>2. PICK addr \in Addresses, n \in {1, 2, 4} :
        \/ \E w \in Outcomes(addr, n) : Read(addr, n, w)
        \/ \E val \in Data : Write(addr, n, val)
  BY DEF Access
<1>3. CASE \E w \in Outcomes(addr, n) : Read(addr, n, w)
  <2>1. ControlOK'
    BY <1>3 DEF Read, Exit, vars, dma_vars, BusInv, ControlOK
  <2> QED
    BY <1>3, <2>1, ReadKeeps, KeptKeepsInv
<1>4. ASSUME NEW val \in Data, Write(addr, n, val)
      PROVE  BusInv'
  <2>1. val \in Word
    BY <1>4, BusAssumption
  <2>2. ControlOK'
    BY <1>4, <2>1, WriteType DEF BusInv
  <2> QED
    BY <1>1, <1>4, <2>2, WriteKeeps, KeptKeepsInv
<1> QED
  BY <1>2, <1>3, <1>4

LEMMA NextInv == ASSUME BusInv, [Next]_vars PROVE BusInv'
<1>1. CASE Boot
  BY <1>1, BootInv
<1>2. CASE Access
  BY <1>2, AccessInv
<1>3. CASE Transferring
  <2>1. kuseg \in [Ram -> Byte]
    BY <1>3 DEF BusInv, MemoryTypeOK, Transferring
  <2>2. ControlOK'
    BY <1>3, <2>1, TransferType DEF BusInv
  <2> QED
    BY <1>3, <2>1, <2>2, TransferKeeps, KeptKeepsInv
<1>4. CASE UNCHANGED vars
  <2>1. ControlOK'
    BY <1>4 DEF vars, dma_vars, BusInv, ControlOK
  <2> QED
    BY <1>4, <2>1, IgnoreKeeps, KeptKeepsInv
<1> QED
  BY <1>1, <1>2, <1>3, <1>4 DEF Next, Ended

LEMMA Invariant == Spec => []BusInv
  BY InitInv, NextInv, PTL DEF Spec

(* Every reachable state of the bus is well typed: in particular RAM and   *)
(* BIOS keep their sizes, a transfer never leaves RAM, and the registers   *)
(* of no channel decode to a mode that there is not.                       *)
THEOREM TypeCorrect == Spec => []TypeOK
<1>1. BusInv => TypeOK
  BY DEF BusInv, ControlOK, TypeOK
<1> QED
  BY <1>1, Invariant, PTL

(* Whatever is written to DICR, acknowledged in it or set by a transfer,   *)
(* the bit that the program reads as "an interrupt is pending" is what the *)
(* other bits make it.                                                     *)
THEOREM ActiveCorrect == Spec => []ActiveIsCurrent
  BY Invariant, PTL DEF BusInv
=============================================================================
