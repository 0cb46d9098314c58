---------------------- MODULE SharedStructuresProofs ------------------------
(***************************************************************************)
(* Theorems about the structures in shared memory.  First the rings of     *)
(* ByteRing and MemQueue, for any messages, any ring and any number of     *)
(* crashes: what the next call finds of the control block changes as a     *)
(* whole or not at all, and the bytes of the ring are a first in, first    *)
(* out queue.  Then SQueue, for any number of processes killed: its        *)
(* asserts hold, and it is such a queue too; what its steps do is stated   *)
(* in the terms of ByteRing, so that the lemmas about rings can be used.   *)
(* The theorem about HashMap is that of HashMapProofs.                     *)
(***************************************************************************)
EXTENDS SharedStructures, SequenceTheorems, FiniteSetTheorems, WellFoundedInduction, TLAPS

-----------------------------------------------------------------------------
(* Numbers                                                                 *)

\* A set of numbers that has a number whenever it has all the smaller ones has them all.
LEMMA Induct ==
    ASSUME NEW S, \A n \in Nat : (\A k \in Nat : k < n => k \in S) => n \in S
    PROVE  Nat \subseteq S
<1> DEFINE Missing == {n \in Nat : n \notin S}
<1> SUFFICES ASSUME Missing # {} PROVE FALSE
  OBVIOUS
<1>1. \E n \in Missing : \A k \in Missing : <<k, n>> \notin OpToRel(<, Nat)
  <2>1. Missing \subseteq Nat
    OBVIOUS
  <2> QED BY <2>1, NatLessThanWellFounded, WFMin
<1> QED BY <1>1 DEF OpToRel

\* Quotient and remainder by the size of the ring.
LEMMA ModRange ==
    ASSUME NEW a \in Int
    PROVE  /\ a = RingSize * (a \div RingSize) + (a % RingSize)
           /\ a \div RingSize \in Int
           /\ a % RingSize \in 0..(RingSize - 1)
BY ByteRingAssumption, SMT

\* A multiple of the size of the ring makes no difference.
LEMMA ModMultiple ==
    ASSUME NEW q \in Int, NEW r \in 0..(RingSize - 1)
    PROVE  (RingSize * q + r) % RingSize = r
BY ByteRingAssumption, SMT

\* A remainder may be taken before an addition.
LEMMA ModAdd ==
    ASSUME NEW a \in Int, NEW b \in Int
    PROVE  ((a % RingSize) + b) % RingSize = (a + b) % RingSize
<1> DEFINE q == a \div RingSize
           r == a % RingSize
           s == (r + b) \div RingSize
           t == (r + b) % RingSize
<1>1. a = RingSize * q + r /\ q \in Int /\ r \in 0..(RingSize - 1)
  BY ModRange
<1>2. r + b \in Int
  BY <1>1, ByteRingAssumption
<1>3. r + b = RingSize * s + t /\ s \in Int /\ t \in 0..(RingSize - 1)
  BY <1>2, ModRange
<1> HIDE DEF q, r, s
<1>4. a + b = RingSize * (q + s) + t /\ q + s \in Int
  <2> HIDE DEF t
  <2> QED BY <1>1, <1>3, ByteRingAssumption
<1>5. (a + b) % RingSize = t
  <2> HIDE DEF t
  <2> QED BY <1>3, <1>4, ModMultiple
<1> QED BY <1>5 DEF r

\* Once around the ring is the same place.
LEMMA ModRound ==
    ASSUME NEW a \in Int
    PROVE  (a + RingSize) % RingSize = a % RingSize
<1> DEFINE q == a \div RingSize
           r == a % RingSize
<1>1. a = RingSize * q + r /\ q \in Int /\ r \in 0..(RingSize - 1)
  BY ModRange
<1>2. a + RingSize = RingSize * (q + 1) + r /\ q + 1 \in Int
  <2> HIDE DEF q, r
  <2> QED BY <1>1, ByteRingAssumption
<1>3. (RingSize * (q + 1) + r) % RingSize = r
  <2> HIDE DEF q, r
  <2> QED BY <1>1, <1>2, ModMultiple
<1> QED BY <1>2, <1>3

\* Two places that are the same around the ring stay so when both are moved.
LEMMA ModCancel ==
    ASSUME NEW a \in Int, NEW b \in Int, NEW c \in Int, a % RingSize = b % RingSize
    PROVE  (a + c) % RingSize = (b + c) % RingSize
BY ModAdd

\* Places within the ring, and up to once around it.
LEMMA ModSmall ==
    ASSUME NEW a \in Int
    PROVE  /\ a \in 0..(RingSize - 1) => a % RingSize = a
           /\ a >= RingSize /\ a < 2 * RingSize => a % RingSize = a - RingSize
           /\ a < 0 /\ a >= -RingSize => a % RingSize = a + RingSize
BY ByteRingAssumption, SMT

\* Records have a size.
LEMMA RecordSizes ==
    ASSUME NEW m \in Messages
    PROVE  RecordSize(m) \in Nat \ {0} /\ RecordSize(m) >= WordSize /\ m # NoMessage
BY ByteRingAssumption DEF RecordSize

-----------------------------------------------------------------------------
(* Addresses                                                               *)

\* An address is a cell.
LEMMA AddressCell ==
    ASSUME NEW p \in Int, NEW k \in Int
    PROVE  Address(p, k) \in Cells
<1>1. p + k \in Int
  OBVIOUS
<1> QED BY <1>1, ModRange DEF Address, Cells

\* The byte k places after the one a places after p.
LEMMA AddressShift ==
    ASSUME NEW p \in Int, NEW a \in Int, NEW k \in Int
    PROVE  /\ Address(p + a, k) = Address(p, a + k)
           /\ Address(Address(p, a), k) = Address(p, a + k)
<1>1. (p + a) + k = p + (a + k)
  OBVIOUS
<1>2. p + a \in Int
  OBVIOUS
<1>3. (((p + a) % RingSize) + k) % RingSize = ((p + a) + k) % RingSize
  BY <1>2, ModAdd
<1> QED BY <1>1, <1>3 DEF Address

\* Places that are the same around the ring have the same bytes after them.
LEMMA AddressSame ==
    ASSUME NEW p \in Int, NEW q \in Int, p % RingSize = q % RingSize, NEW k \in Int
    PROVE  Address(p, k) = Address(q, k)
BY ModCancel DEF Address

\* Fewer bytes than the ring has are at different addresses.
LEMMA AddressDistinct ==
    ASSUME NEW p \in Int, NEW j \in Int, NEW k \in Int, Address(p, j) = Address(p, k),
           j - k < RingSize, k - j < RingSize
    PROVE  j = k
<1> DEFINE r == Address(p, j)
<1>1. p + j \in Int /\ p + k \in Int
  OBVIOUS
<1>2. p + j = RingSize * ((p + j) \div RingSize) + r /\ (p + j) \div RingSize \in Int
  BY <1>1, ModRange DEF Address
<1>3. p + k = RingSize * ((p + k) \div RingSize) + r /\ (p + k) \div RingSize \in Int
  BY <1>1, ModRange DEF Address
<1>4. r \in Int
  BY AddressCell, ByteRingAssumption DEF Cells
<1> HIDE DEF r
<1>5. \A s, t \in Int : (p + j = RingSize * s + r /\ p + k = RingSize * t + r) => j = k
  <2> SUFFICES ASSUME NEW s \in Int, NEW t \in Int,
                      p + j = RingSize * s + r, p + k = RingSize * t + r
               PROVE  j = k
    OBVIOUS
  <2>1. j - k = RingSize * s - RingSize * t
    BY <1>4, ByteRingAssumption
  <2>2. CASE s = t
    BY <2>1, <2>2, ByteRingAssumption
  <2>3. CASE s >= t + 1
    <3>1. RingSize * s >= RingSize * t + RingSize
      BY <2>3, ByteRingAssumption
    <3> QED BY <2>1, <3>1, ByteRingAssumption
  <2>4. CASE t >= s + 1
    <3>1. RingSize * t >= RingSize * s + RingSize
      BY <2>4, ByteRingAssumption
    <3> QED BY <2>1, <3>1, ByteRingAssumption
  <2> QED BY <2>2, <2>3, <2>4
<1> QED BY <1>2, <1>3, <1>5

-----------------------------------------------------------------------------
(* Records in the ring                                                     *)

\* The used bytes from p on are records, one after the other: each byte is followed by
\* the next of its record, and the last of a record by the first of another.
Filled(rg, p, used) ==
    \A k \in 0..(used - 1) : \E m \in Messages : \E j \in 0..(RecordSize(m) - 1) :
        /\ rg[Address(p, k)] = <<m, j>>
        /\ k = 0 => j = 0
        /\ j + 1 < RecordSize(m) => k + 1 < used /\ rg[Address(p, k + 1)] = <<m, j + 1>>
        /\ (j + 1 = RecordSize(m) /\ k + 1 < used) => rg[Address(p, k + 1)][2] = 0

\* The whole record of m is at p.
RecordAt(rg, p, m) == \A k \in 0..(RecordSize(m) - 1) : rg[Address(p, k)] = <<m, k>>

\* The bytes that follow p and those that follow q are the same.
SameBytes(rg, p, other, q, used) ==
    \A k \in 0..(used - 1) : rg[Address(p, k)] = other[Address(q, k)]

\* A message whose whole record is there is read.
LEMMA ReadRecord ==
    ASSUME NEW rg, NEW p \in Int, NEW m \in Messages, RecordAt(rg, p, m)
    PROVE  MessageAt(rg, p) = m
<1>1. 0 \in 0..(RecordSize(m) - 1)
  BY RecordSizes
<1>2. rg[Address(p, 0)][1] = m
  BY <1>1 DEF RecordAt
<1> QED BY <1>2 DEF MessageAt, RecordAt

\* What is read is a message or none.
LEMMA MessageAtType ==
    ASSUME NEW rg, NEW p \in Int
    PROVE  MessageAt(rg, p) \in Messages \cup {NoMessage}
BY DEF MessageAt

\* The first of the records is whole, and the others come behind it.
LEMMA FilledFirst ==
    ASSUME NEW rg, NEW p \in Int, NEW used \in Nat \ {0}, Filled(rg, p, used)
    PROVE  \E m \in Messages :
             /\ RecordSize(m) <= used
             /\ RecordAt(rg, p, m)
             /\ MessageAt(rg, p) = m
             /\ Filled(rg, p + RecordSize(m), used - RecordSize(m))
             /\ RecordSize(m) < used => rg[Address(p, RecordSize(m))][2] = 0
<1>1. PICK m \in Messages : rg[Address(p, 0)] = <<m, 0>>
  BY DEF Filled
<1> DEFINE size == RecordSize(m)
<1>2. size \in Nat \ {0}
  BY RecordSizes
<1> HIDE DEF size
<1> DEFINE Good(k) == k < size => k < used /\ rg[Address(p, k)] = <<m, k>>
           S == {k \in Nat : Good(k)}
<1>3. \A k \in Nat : k \in S
  <2>1. ASSUME NEW k \in Nat, \A i \in Nat : i < k => i \in S
        PROVE  k \in S
    <3>1. CASE k = 0
      BY <1>1, <3>1
    <3>2. CASE k # 0 /\ k < size
      <4>1. k - 1 \in Nat /\ k - 1 < k /\ k - 1 < size /\ (k - 1) + 1 = k
        BY <1>2, <3>2
      <4>2. k - 1 < used /\ rg[Address(p, k - 1)] = <<m, k - 1>>
        BY <2>1, <4>1
      <4>3. k - 1 \in 0..(used - 1)
        BY <4>1, <4>2
      <4>4. k < used /\ rg[Address(p, k)] = <<m, k>>
        BY <3>2, <4>1, <4>2, <4>3 DEF Filled, size
      <4> QED BY <4>4
    <3>3. CASE ~ (k < size)
      BY <3>3
    <3> QED BY <3>1, <3>2, <3>3
  <2> HIDE DEF S
  <2> QED BY <2>1, Induct
<1>4. RecordAt(rg, p, m)
  <2>1. \A k \in 0..(size - 1) : k \in Nat /\ k < size
    BY <1>2
  <2> QED BY <1>3, <2>1 DEF RecordAt, size
<1>5. size <= used
  <2>1. size - 1 \in Nat /\ size - 1 < size
    BY <1>2
  <2>2. size - 1 < used
    BY <1>3, <2>1
  <2> QED BY <1>2, <2>2
<1>6. size < used => rg[Address(p, size)][2] = 0
  <2> SUFFICES ASSUME size < used PROVE rg[Address(p, size)][2] = 0
    OBVIOUS
  <2>1. size - 1 \in 0..(used - 1) /\ size - 1 \in 0..(size - 1) /\ (size - 1) + 1 = size
    BY <1>2, <1>5
  <2>2. rg[Address(p, size - 1)] = <<m, size - 1>>
    BY <1>4, <2>1 DEF RecordAt, size
  <2> QED BY <2>1, <2>2 DEF Filled, size
<1>7. Filled(rg, p + size, used - size)
  <2> SUFFICES ASSUME NEW k \in 0..((used - size) - 1)
               PROVE  \E n \in Messages : \E j \in 0..(RecordSize(n) - 1) :
                 /\ rg[Address(p + size, k)] = <<n, j>>
                 /\ k = 0 => j = 0
                 /\ j + 1 < RecordSize(n) => /\ k + 1 < used - size
                                             /\ rg[Address(p + size, k + 1)] = <<n, j + 1>>
                 /\ (j + 1 = RecordSize(n) /\ k + 1 < used - size)
                      => rg[Address(p + size, k + 1)][2] = 0
    BY DEF Filled
  <2>1. /\ size + k \in 0..(used - 1) /\ size + k # 0
        /\ size + (k + 1) = (size + k) + 1
        /\ k + 1 < used - size <=> (size + k) + 1 < used
        /\ k = 0 => size + k = size /\ size < used
    BY <1>2, <1>5
  <2>2. /\ Address(p + size, k) = Address(p, size + k)
        /\ Address(p + size, k + 1) = Address(p, (size + k) + 1)
    <3>1. size \in Int /\ k \in Int /\ k + 1 \in Int
      BY <1>2
    <3>2. Address(p + size, k + 1) = Address(p, size + (k + 1))
      BY <3>1, AddressShift
    <3> QED BY <2>1, <3>1, <3>2, AddressShift
  <2>3. PICK n \in Messages : \E j \in 0..(RecordSize(n) - 1) :
          /\ rg[Address(p, size + k)] = <<n, j>>
          /\ j + 1 < RecordSize(n) => /\ (size + k) + 1 < used
                                      /\ rg[Address(p, (size + k) + 1)] = <<n, j + 1>>
          /\ (j + 1 = RecordSize(n) /\ (size + k) + 1 < used)
               => rg[Address(p, (size + k) + 1)][2] = 0
    BY <2>1 DEF Filled
  <2>4. PICK j \in 0..(RecordSize(n) - 1) :
          /\ rg[Address(p, size + k)] = <<n, j>>
          /\ j + 1 < RecordSize(n) => /\ (size + k) + 1 < used
                                      /\ rg[Address(p, (size + k) + 1)] = <<n, j + 1>>
          /\ (j + 1 = RecordSize(n) /\ (size + k) + 1 < used)
               => rg[Address(p, (size + k) + 1)][2] = 0
    BY <2>3
  <2>5. k = 0 => j = 0
    BY <1>6, <2>1, <2>4
  <2> QED BY <2>1, <2>2, <2>4, <2>5
<1> QED BY <1>4, <1>5, <1>6, <1>7, ReadRecord DEF size

\* Only the bytes matter.
LEMMA FilledSame ==
    ASSUME NEW rg, NEW p, NEW other, NEW q, NEW used \in Nat,
           SameBytes(rg, p, other, q, used), Filled(rg, p, used)
    PROVE  Filled(other, q, used)
<1> SUFFICES ASSUME NEW k \in 0..(used - 1)
             PROVE  \E m \in Messages : \E j \in 0..(RecordSize(m) - 1) :
               /\ other[Address(q, k)] = <<m, j>>
               /\ k = 0 => j = 0
               /\ j + 1 < RecordSize(m) => /\ k + 1 < used
                                           /\ other[Address(q, k + 1)] = <<m, j + 1>>
               /\ (j + 1 = RecordSize(m) /\ k + 1 < used) => other[Address(q, k + 1)][2] = 0
  BY DEF Filled
<1>1. rg[Address(p, k)] = other[Address(q, k)]
  BY DEF SameBytes
<1>2. k + 1 < used => rg[Address(p, k + 1)] = other[Address(q, k + 1)]
  BY DEF SameBytes
<1> QED BY <1>1, <1>2 DEF Filled

\* A record is put behind the others.
LEMMA FilledAppend ==
    ASSUME NEW rg, NEW p \in Int, NEW used \in Nat, NEW m \in Messages,
           Filled(rg, p, used), RecordAt(rg, p + used, m)
    PROVE  Filled(rg, p, used + RecordSize(m))
<1> DEFINE size == RecordSize(m)
<1>1. size \in Nat \ {0}
  BY RecordSizes
<1>2. \A i \in 0..(size - 1) : rg[Address(p, used + i)] = <<m, i>>
  <2>1. \A i \in 0..(size - 1) : Address(p + used, i) = Address(p, used + i)
    BY <1>1, AddressShift
  <2> QED BY <2>1 DEF RecordAt
<1>3. rg[Address(p, used)] = <<m, 0>>
  <2>1. 0 \in 0..(size - 1) /\ used + 0 = used
    BY <1>1
  <2> QED BY <1>2, <2>1
<1> SUFFICES ASSUME NEW k \in 0..((used + size) - 1)
             PROVE  \E n \in Messages : \E j \in 0..(RecordSize(n) - 1) :
               /\ rg[Address(p, k)] = <<n, j>>
               /\ k = 0 => j = 0
               /\ j + 1 < RecordSize(n) => /\ k + 1 < used + size
                                           /\ rg[Address(p, k + 1)] = <<n, j + 1>>
               /\ (j + 1 = RecordSize(n) /\ k + 1 < used + size)
                    => rg[Address(p, k + 1)][2] = 0
  BY DEF Filled
<1>4. CASE k < used
  <2>1. k \in 0..(used - 1)
    BY <1>4
  <2>2. PICK n \in Messages : \E j \in 0..(RecordSize(n) - 1) :
          /\ rg[Address(p, k)] = <<n, j>>
          /\ k = 0 => j = 0
          /\ j + 1 < RecordSize(n) => k + 1 < used /\ rg[Address(p, k + 1)] = <<n, j + 1>>
          /\ (j + 1 = RecordSize(n) /\ k + 1 < used) => rg[Address(p, k + 1)][2] = 0
    BY <2>1 DEF Filled
  <2>3. PICK j \in 0..(RecordSize(n) - 1) :
          /\ rg[Address(p, k)] = <<n, j>>
          /\ k = 0 => j = 0
          /\ j + 1 < RecordSize(n) => k + 1 < used /\ rg[Address(p, k + 1)] = <<n, j + 1>>
          /\ (j + 1 = RecordSize(n) /\ k + 1 < used) => rg[Address(p, k + 1)][2] = 0
    BY <2>2
  <2>4. k + 1 < used => k + 1 < used + size
    BY <1>1
  <2>5. ~ (k + 1 < used) => k + 1 = used
    BY <1>4
  <2>6. rg[Address(p, used)][2] = 0
    BY <1>3
  <2> QED BY <2>3, <2>4, <2>5, <2>6
<1>5. CASE ~ (k < used)
  <2> DEFINE i == k - used
  <2>1. i \in 0..(size - 1) /\ used + i = k
    BY <1>1, <1>5
  <2>2. rg[Address(p, k)] = <<m, i>>
    BY <1>2, <2>1
  <2>3. k = 0 => i = 0
    BY <1>5
  <2>4. i + 1 < size => /\ k + 1 < used + size
                        /\ rg[Address(p, k + 1)] = <<m, i + 1>>
    <3>1. i + 1 < size => i + 1 \in 0..(size - 1) /\ used + (i + 1) = k + 1
      BY <1>1, <2>1
    <3>2. i + 1 < size => k + 1 < used + size
      BY <1>1, <2>1
    <3> QED BY <1>2, <3>1, <3>2
  <2>5. ~ (i + 1 = size /\ k + 1 < used + size)
    BY <1>1, <2>1
  <2> HIDE DEF i
  <2> QED BY <2>1, <2>2, <2>3, <2>4, <2>5
<1> QED BY <1>4, <1>5

\* A record is stored, or a part of one, and the bytes beside it stay as they are.
LEMMA StoreRecord ==
    ASSUME NEW rg, NEW m \in Messages, NEW p \in Int, RecordSize(m) <= RingSize
    PROVE  RecordAt(Store(rg, m, p, Span(m, p)), p, m)
<1> SUFFICES ASSUME NEW k \in 0..(RecordSize(m) - 1)
             PROVE  Store(rg, m, p, Span(m, p))[Address(p, k)] = <<m, k>>
  BY DEF RecordAt
<1>1. k \in 0..(RingSize - 1)
  BY RecordSizes, ByteRingAssumption
<1>2. Address(p, k) \in Cells /\ Address(p, k) \in Span(m, p)
  BY <1>1, AddressCell DEF Span
<1>3. (Address(p, k) - p) % RingSize = k
  <2>1. p + k \in Int /\ -p \in Int /\ (p + k) + (-p) = k
    BY <1>1
  <2>2. ((p + k) % RingSize) + (-p) = Address(p, k) - p
    BY <1>2, ByteRingAssumption DEF Address, Cells
  <2>3. (((p + k) % RingSize) + (-p)) % RingSize = k % RingSize
    BY <2>1, ModAdd
  <2>4. k % RingSize = k
    BY <1>1, ModSmall
  <2> QED BY <2>2, <2>3, <2>4
<1> QED BY <1>2, <1>3 DEF Store

\* Bytes that are not of the record stay.
LEMMA StoreOthers ==
    ASSUME NEW rg \in [Cells -> Bytes], NEW m \in Messages, NEW p \in Int,
           NEW written \in SUBSET Span(m, p), NEW q \in Int, NEW used \in Nat,
           (q + used) % RingSize = p % RingSize, used + RecordSize(m) <= RingSize
    PROVE  SameBytes(rg, q, Store(rg, m, p, written), q, used)
<1> SUFFICES ASSUME NEW k \in 0..(used - 1)
             PROVE  rg[Address(q, k)] = Store(rg, m, p, written)[Address(q, k)]
  BY DEF SameBytes
<1>1. RecordSize(m) \in Nat \ {0}
  BY RecordSizes
<1>2. Address(q, k) \in Cells
  BY AddressCell
<1>3. ASSUME NEW i \in 0..(RecordSize(m) - 1), Address(q, k) = Address(p, i) PROVE FALSE
  <2>1. Address(p, i) = Address(q, used + i)
    BY <1>1, AddressSame, AddressShift
  <2>2. k < used + i /\ (used + i) - k < RingSize
    BY <1>1, ByteRingAssumption
  <2>3. k = used + i
    BY <1>1, <1>3, <2>1, <2>2, AddressDistinct, ByteRingAssumption
  <2> QED BY <1>1, <2>2, <2>3
<1>4. Address(q, k) \notin Span(m, p)
  BY <1>3 DEF Span
<1> QED BY <1>2, <1>4 DEF Store

-----------------------------------------------------------------------------
(* The recursive definition of Records                                     *)

\* What Records[n] is, f being its values below n.
ReadOn(rg, end, f, n) ==
    IF n = 0 THEN <<>>
    ELSE LET m == MessageAt(rg, end - n)
         IN  IF m = NoMessage \/ RecordSize(m) > n THEN <<NoMessage>>
             ELSE <<m>> \o f[n - RecordSize(m)]

Reads(rg, end, used, f) == f = [n \in 0..used |-> ReadOn(rg, end, f, n)]

\* ReadOn looks at f only below n.
LEMMA ReadOnBelow ==
    ASSUME NEW rg, NEW end \in Int, NEW n \in Nat, NEW f, NEW g,
           \A k \in Nat : k < n => f[k] = g[k]
    PROVE  ReadOn(rg, end, f, n) = ReadOn(rg, end, g, n)
<1> DEFINE m == MessageAt(rg, end - n)
<1>1. end - n \in Int
  OBVIOUS
<1>2. m \in Messages \cup {NoMessage}
  BY <1>1, MessageAtType
<1> HIDE DEF m
<1>3. ASSUME m # NoMessage, ~ (RecordSize(m) > n) PROVE f[n - RecordSize(m)] = g[n - RecordSize(m)]
  <2>1. RecordSize(m) \in Nat \ {0}
    BY <1>2, <1>3, RecordSizes
  <2>2. n - RecordSize(m) \in Nat /\ n - RecordSize(m) < n
    BY <1>3, <2>1
  <2> QED BY <2>2
<1> QED BY <1>3 DEF ReadOn, m

\* There is a function as Records defines it.
LEMMA ReadsExists ==
    ASSUME NEW rg, NEW end \in Int
    PROVE  \A used \in Nat : \E f : Reads(rg, end, used, f)
<1> DEFINE S == {n \in Nat : \E f : Reads(rg, end, n, f)}
<1>1. ASSUME NEW n \in Nat, \A k \in Nat : k < n => k \in S PROVE n \in S
  <2>1. CASE n = 0
    <3> DEFINE f == [k \in 0..0 |-> <<>>]
    <3>1. \A k \in 0..0 : ReadOn(rg, end, f, k) = <<>>
      BY DEF ReadOn
    <3>2. Reads(rg, end, 0, f)
      BY <3>1 DEF Reads
    <3> QED BY <2>1, <3>2
  <2>2. CASE n # 0
    <3>1. n - 1 \in Nat /\ n - 1 < n
      BY <2>2
    <3>2. PICK g : Reads(rg, end, n - 1, g)
      BY <1>1, <3>1
    <3> DEFINE f == [k \in 0..n |-> IF k < n THEN g[k] ELSE ReadOn(rg, end, g, n)]
    <3>3. \A k \in Nat : k < n => f[k] = g[k]
      OBVIOUS
    <3>4. ASSUME NEW k \in 0..n PROVE f[k] = ReadOn(rg, end, f, k)
      <4>1. ReadOn(rg, end, f, k) = ReadOn(rg, end, g, k)
        <5>1. \A i \in Nat : i < k => f[i] = g[i]
          BY <3>3
        <5>2. k \in Nat
          OBVIOUS
        <5> HIDE DEF f
        <5> QED BY <5>1, <5>2, ReadOnBelow
      <4>2. CASE k < n
        <5>1. k \in 0..(n - 1)
          BY <4>2
        <5>2. g[k] = ReadOn(rg, end, g, k)
          BY <3>2, <5>1 DEF Reads
        <5> QED BY <3>3, <4>1, <4>2, <5>2
      <4>3. CASE k = n
        BY <4>1, <4>3
      <4> QED BY <4>2, <4>3
    <3>5. f = [k \in 0..n |-> f[k]]
      OBVIOUS
    <3> HIDE DEF f
    <3>6. Reads(rg, end, n, f)
      BY <3>4, <3>5 DEF Reads
    <3> QED BY <3>6
  <2> QED BY <2>1, <2>2
<1> HIDE DEF S
<1>2. Nat \subseteq S
  BY <1>1, Induct
<1> QED BY <1>2 DEF S

\* Two of them agree where both are defined.
LEMMA ReadsUnique ==
    ASSUME NEW rg, NEW end \in Int, NEW u \in Nat, NEW v \in Nat, NEW f, NEW g,
           Reads(rg, end, u, f), Reads(rg, end, v, g)
    PROVE  \A n \in Nat : n <= u /\ n <= v => f[n] = g[n]
<1> DEFINE S == {n \in Nat : n <= u /\ n <= v => f[n] = g[n]}
<1>1. ASSUME NEW n \in Nat, \A k \in Nat : k < n => k \in S PROVE n \in S
  <2> SUFFICES ASSUME n <= u, n <= v PROVE f[n] = g[n]
    OBVIOUS
  <2>1. \A k \in Nat : k < n => f[k] = g[k]
    BY <1>1
  <2>2. ReadOn(rg, end, f, n) = ReadOn(rg, end, g, n)
    BY <2>1, ReadOnBelow
  <2>3. n \in 0..u /\ n \in 0..v
    OBVIOUS
  <2>4. f[n] = ReadOn(rg, end, f, n)
    BY <2>3 DEF Reads
  <2>5. g[n] = ReadOn(rg, end, g, n)
    BY <2>3 DEF Reads
  <2> QED BY <2>2, <2>4, <2>5
<1> HIDE DEF S
<1>2. Nat \subseteq S
  BY <1>1, Induct
<1> QED BY <1>2 DEF S

\* Records is the value of such a function.
LEMMA RecordsReads ==
    ASSUME NEW rg, NEW end \in Int, NEW used \in Nat
    PROVE  \E f : Reads(rg, end, used, f) /\ Records(rg, end, used) = f[used]
<1> DEFINE Last == CHOOSE f : Reads(rg, end, used, f)
<1>1. Records(rg, end, used) = Last[used]
  BY DEF Records, Reads, ReadOn
<1>2. Reads(rg, end, used, Last)
  BY ReadsExists
<1> QED BY <1>1, <1>2

\* The definition of Records, unfolded.
LEMMA RecordsUnfold ==
    ASSUME NEW rg, NEW end \in Int, NEW used \in Nat
    PROVE  Records(rg, end, used) =
             IF used = 0 THEN <<>>
             ELSE LET m == MessageAt(rg, end - used)
                  IN  IF m = NoMessage \/ RecordSize(m) > used THEN <<NoMessage>>
                      ELSE <<m>> \o Records(rg, end, used - RecordSize(m))
<1>1. PICK f : Reads(rg, end, used, f) /\ Records(rg, end, used) = f[used]
  BY RecordsReads
<1>2. Records(rg, end, used) = ReadOn(rg, end, f, used)
  <2>1. used \in 0..used
    OBVIOUS
  <2>2. f[used] = ReadOn(rg, end, f, used)
    BY <1>1, <2>1 DEF Reads
  <2> QED BY <1>1, <2>2
<1> DEFINE m == MessageAt(rg, end - used)
           n == used - RecordSize(m)
<1>3. end - used \in Int
  OBVIOUS
<1>4. m \in Messages \cup {NoMessage}
  BY <1>3, MessageAtType
<1> HIDE DEF m
<1>5. ASSUME m # NoMessage, ~ (RecordSize(m) > used) PROVE f[n] = Records(rg, end, n)
  <2>1. RecordSize(m) \in Nat \ {0}
    BY <1>4, <1>5, RecordSizes
  <2>2. n \in Nat /\ n <= used /\ n <= n
    BY <1>5, <2>1
  <2> HIDE DEF n
  <2>3. PICK g : Reads(rg, end, n, g) /\ Records(rg, end, n) = g[n]
    BY <2>2, RecordsReads
  <2>4. f[n] = g[n]
    BY <1>1, <2>2, <2>3, ReadsUnique
  <2> QED BY <2>3, <2>4
<1> QED BY <1>2, <1>5 DEF ReadOn, m

\* No bytes, no messages.
LEMMA RecordsNone ==
    ASSUME NEW rg, NEW end \in Int
    PROVE  Records(rg, end, 0) = <<>>
<1>1. ASSUME NEW used \in Nat, used = 0
      PROVE  Records(rg, end, used) = <<>>
  BY <1>1, RecordsUnfold
<1> QED BY <1>1

-----------------------------------------------------------------------------
(* The messages in the ring                                                *)

\* The oldest message is the first of the records, and the others come behind it.
LEMMA RecordsFirst ==
    ASSUME NEW rg, NEW end \in Int, NEW used \in Nat \ {0}, Filled(rg, end - used, used)
    PROVE  \E m \in Messages :
             /\ RecordSize(m) <= used
             /\ RecordAt(rg, end - used, m)
             /\ MessageAt(rg, end - used) = m
             /\ Filled(rg, end - (used - RecordSize(m)), used - RecordSize(m))
             /\ Records(rg, end, used) = <<m>> \o Records(rg, end, used - RecordSize(m))
<1>1. end - used \in Int
  OBVIOUS
<1>2. PICK m \in Messages :
             /\ RecordSize(m) <= used
             /\ RecordAt(rg, end - used, m)
             /\ MessageAt(rg, end - used) = m
             /\ Filled(rg, (end - used) + RecordSize(m), used - RecordSize(m))
  BY <1>1, FilledFirst
<1>3. RecordSize(m) \in Nat \ {0} /\ m # NoMessage
  BY RecordSizes
<1>4. (end - used) + RecordSize(m) = end - (used - RecordSize(m))
  BY <1>3
<1>5. ~ (RecordSize(m) > used)
  BY <1>2, <1>3
<1> QED BY <1>2, <1>3, <1>4, <1>5, RecordsUnfold

\* They are messages, and there are some unless no byte is used.
LEMMA RecordsType ==
    ASSUME NEW rg, NEW end \in Int
    PROVE  \A used \in Nat : Filled(rg, end - used, used) =>
             /\ Records(rg, end, used) \in Seq(Messages)
             /\ Records(rg, end, used) = <<>> <=> used = 0
<1> DEFINE Good(used) == Filled(rg, end - used, used) =>
             /\ Records(rg, end, used) \in Seq(Messages)
             /\ Records(rg, end, used) = <<>> <=> used = 0
           S == {used \in Nat : Good(used)}
<1>1. ASSUME NEW used \in Nat, \A k \in Nat : k < used => k \in S PROVE used \in S
  <2>1. CASE used = 0
    <3>1. Records(rg, end, used) = <<>>
      BY <2>1, RecordsUnfold
    <3> QED BY <2>1, <3>1, EmptySeq
  <2>2. CASE used # 0 /\ Filled(rg, end - used, used)
    <3>1. PICK m \in Messages :
             /\ RecordSize(m) <= used
             /\ Filled(rg, end - (used - RecordSize(m)), used - RecordSize(m))
             /\ Records(rg, end, used) = <<m>> \o Records(rg, end, used - RecordSize(m))
      BY <2>2, RecordsFirst
    <3>2. used - RecordSize(m) \in Nat /\ used - RecordSize(m) < used
      BY <3>1, RecordSizes
    <3>3. Records(rg, end, used - RecordSize(m)) \in Seq(Messages)
      BY <1>1, <3>1, <3>2
    <3>4. <<m>> \in Seq(Messages) /\ <<m>> # <<>>
      OBVIOUS
    <3>5. /\ Records(rg, end, used) \in Seq(Messages)
          /\ Records(rg, end, used) # <<>>
      BY <3>1, <3>3, <3>4, ConcatProperties, ConcatSimplifications
    <3> QED BY <2>2, <3>5
  <2> QED BY <2>1, <2>2
<1> HIDE DEF S
<1>2. Nat \subseteq S
  BY <1>1, Induct
<1> QED BY <1>2 DEF S

\* The messages are in the bytes of the records and nowhere else.
LEMMA RecordsSame ==
    ASSUME NEW rg, NEW end \in Int, NEW other, NEW last \in Int
    PROVE  \A used \in Nat :
             /\ Filled(rg, end - used, used)
             /\ SameBytes(rg, end - used, other, last - used, used)
             => Records(other, last, used) = Records(rg, end, used)
<1> DEFINE Good(used) ==
             /\ Filled(rg, end - used, used)
             /\ SameBytes(rg, end - used, other, last - used, used)
             => Records(other, last, used) = Records(rg, end, used)
           S == {used \in Nat : Good(used)}
<1>1. ASSUME NEW used \in Nat, \A k \in Nat : k < used => k \in S PROVE used \in S
  <2> SUFFICES ASSUME Filled(rg, end - used, used),
                      SameBytes(rg, end - used, other, last - used, used)
               PROVE  Records(other, last, used) = Records(rg, end, used)
    OBVIOUS
  <2>1. CASE used = 0
    BY <2>1, RecordsUnfold
  <2>2. CASE used # 0
    <3>1. PICK m \in Messages :
             /\ RecordSize(m) <= used
             /\ RecordAt(rg, end - used, m)
             /\ Filled(rg, end - (used - RecordSize(m)), used - RecordSize(m))
             /\ Records(rg, end, used) = <<m>> \o Records(rg, end, used - RecordSize(m))
      BY <2>2, RecordsFirst
    <3> DEFINE size == RecordSize(m)
    <3>2. size \in Nat \ {0} /\ m # NoMessage
      BY RecordSizes
    <3>3. RecordAt(other, last - used, m)
      <4>1. \A k \in 0..(size - 1) : k \in 0..(used - 1)
        BY <3>1, <3>2
      <4> QED BY <3>1, <4>1 DEF RecordAt, SameBytes
    <3>4. MessageAt(other, last - used) = m
      <4>1. last - used \in Int
        OBVIOUS
      <4> QED BY <3>3, <4>1, ReadRecord
    <3>5. used - size \in Nat /\ used - size < used
      BY <3>1, <3>2
    <3>6. SameBytes(rg, end - (used - size), other, last - (used - size), used - size)
      <4> SUFFICES ASSUME NEW k \in 0..((used - size) - 1)
                   PROVE  rg[Address(end - (used - size), k)]
                            = other[Address(last - (used - size), k)]
        BY DEF SameBytes
      <4>1. size + k \in 0..(used - 1) /\ size \in Int /\ k \in Int
        BY <3>2, <3>5
      <4>2. end - (used - size) = (end - used) + size /\ end - used \in Int
        BY <3>2
      <4>3. last - (used - size) = (last - used) + size /\ last - used \in Int
        BY <3>2
      <4>4. rg[Address(end - used, size + k)] = other[Address(last - used, size + k)]
        BY <4>1 DEF SameBytes
      <4>5. Address(end - (used - size), k) = Address(end - used, size + k)
        <5> DEFINE p == end - used
                   t == end - (used - size)
        <5> HIDE DEF size, p, t
        <5>1. Address(p + size, k) = Address(p, size + k)
          BY <4>1, <4>2, AddressShift DEF p
        <5>2. t = p + size
          BY <4>2 DEF p, t
        <5>3. Address(t, k) = Address(p, size + k)
          BY <5>1, <5>2
        <5> QED BY <5>3 DEF p, t
      <4>6. Address(last - (used - size), k) = Address(last - used, size + k)
        <5> DEFINE p == last - used
                   t == last - (used - size)
        <5> HIDE DEF size, p, t
        <5>1. Address(p + size, k) = Address(p, size + k)
          BY <4>1, <4>3, AddressShift DEF p
        <5>2. t = p + size
          BY <4>3 DEF p, t
        <5>3. Address(t, k) = Address(p, size + k)
          BY <5>1, <5>2
        <5> QED BY <5>3 DEF p, t
      <4> QED BY <4>4, <4>5, <4>6
    <3>7. Records(other, last, used - size) = Records(rg, end, used - size)
      BY <1>1, <3>1, <3>5, <3>6
    <3>8. ~ (size > used)
      BY <3>1, <3>2
    <3>9. Records(other, last, used) = <<m>> \o Records(other, last, used - size)
      BY <2>2, <3>2, <3>4, <3>8, RecordsUnfold
    <3> QED BY <3>1, <3>7, <3>9
  <2> QED BY <2>1, <2>2
<1> HIDE DEF S
<1>2. Nat \subseteq S
  BY <1>1, Induct
<1> QED BY <1>2 DEF S

\* It makes no difference how often the place they end at is taken around the ring.
LEMMA RecordsAround ==
    ASSUME NEW rg, NEW end \in Int, NEW last \in Int, end % RingSize = last % RingSize,
           NEW used \in Nat, Filled(rg, end - used, used)
    PROVE  /\ Filled(rg, last - used, used)
           /\ Records(rg, last, used) = Records(rg, end, used)
<1>1. end - used \in Int /\ last - used \in Int
  OBVIOUS
<1>2. (end - used) % RingSize = (last - used) % RingSize
  <2>1. (end + (-used)) % RingSize = (last + (-used)) % RingSize
    BY ModCancel
  <2>2. end + (-used) = end - used /\ last + (-used) = last - used
    OBVIOUS
  <2> QED BY <2>1, <2>2
<1>3. SameBytes(rg, end - used, rg, last - used, used)
  <2>1. \A k \in 0..(used - 1) : Address(end - used, k) = Address(last - used, k)
    BY <1>1, <1>2, AddressSame
  <2> QED BY <2>1 DEF SameBytes
<1> QED BY <1>3, FilledSame, RecordsSame

\* A record behind the others is the newest message.
LEMMA RecordsAppend ==
    ASSUME NEW rg, NEW end \in Int, NEW new \in Messages, RecordAt(rg, end, new)
    PROVE  \A used \in Nat : Filled(rg, end - used, used) =>
             Records(rg, end + RecordSize(new), used + RecordSize(new))
               = Append(Records(rg, end, used), new)
<1> DEFINE plus == RecordSize(new)
           Good(used) == Filled(rg, end - used, used) =>
             Records(rg, end + plus, used + plus) = Append(Records(rg, end, used), new)
           S == {used \in Nat : Good(used)}
<1>0. plus \in Nat \ {0} /\ new # NoMessage /\ end + plus \in Int
  BY RecordSizes
<1>1. ASSUME NEW used \in Nat, \A k \in Nat : k < used => k \in S PROVE used \in S
  <2> SUFFICES ASSUME Filled(rg, end - used, used)
               PROVE  Records(rg, end + plus, used + plus) = Append(Records(rg, end, used), new)
    OBVIOUS
  <2>0. /\ used + plus \in Nat /\ used + plus # 0
        /\ (end + plus) - (used + plus) = end - used
        /\ end - used \in Int
    BY <1>0
  <2>1. CASE used = 0
    <3>1. MessageAt(rg, end) = new
      BY ReadRecord
    <3>2. (end + plus) - plus = end /\ plus - plus = 0 /\ 0 + plus = plus /\ ~ (plus > plus)
      BY <1>0
    <3>3. Records(rg, end + plus, 0) = <<>> /\ Records(rg, end, 0) = <<>>
      BY <1>0, RecordsNone
    <3>4. Records(rg, end + plus, plus) = <<new>> \o <<>>
      <4> DEFINE e == end + plus
                 u == plus
      <4>1. /\ e \in Int /\ u \in Nat /\ u # 0 /\ MessageAt(rg, e - u) = new
            /\ ~ (RecordSize(new) > u) /\ u - RecordSize(new) = 0
        BY <1>0, <3>1, <3>2
      <4> HIDE DEF e, u
      <4>2. Records(rg, e, u)
              = IF new = NoMessage \/ RecordSize(new) > u THEN <<NoMessage>>
                ELSE <<new>> \o Records(rg, e, u - RecordSize(new))
        BY <4>1, RecordsUnfold
      <4>3. Records(rg, e, 0) = <<>>
        BY <4>1, RecordsNone
      <4>4. Records(rg, e, u) = <<new>> \o <<>>
        BY <1>0, <4>1, <4>2, <4>3
      <4> QED BY <4>4 DEF e, u
    <3>5. <<new>> \o <<>> = Append(<<>>, new)
      OBVIOUS
    <3> HIDE DEF plus
    <3> QED BY <2>1, <3>2, <3>3, <3>4, <3>5
  <2>2. CASE used # 0
    <3>1. PICK m \in Messages :
             /\ RecordSize(m) <= used
             /\ MessageAt(rg, end - used) = m
             /\ Filled(rg, end - (used - RecordSize(m)), used - RecordSize(m))
             /\ Records(rg, end, used) = <<m>> \o Records(rg, end, used - RecordSize(m))
      BY <2>2, RecordsFirst
    <3> DEFINE rest == used - RecordSize(m)
    <3>2. RecordSize(m) \in Nat \ {0} /\ m # NoMessage
      BY RecordSizes
    <3>3. /\ rest \in Nat /\ rest < used /\ ~ (RecordSize(m) > used + plus)
          /\ (used + plus) - RecordSize(m) = rest + plus
      BY <1>0, <3>1, <3>2
    <3>4. Records(rg, end + plus, used + plus) = <<m>> \o Records(rg, end + plus, rest + plus)
      <4> DEFINE e == end + plus
                 u == used + plus
      <4>1. /\ e \in Int /\ u \in Nat /\ u # 0 /\ MessageAt(rg, e - u) = m
            /\ ~ (RecordSize(m) > u) /\ u - RecordSize(m) = rest + plus
        BY <1>0, <2>0, <3>1, <3>3
      <4> HIDE DEF e, u
      <4>2. Records(rg, e, u)
              = IF m = NoMessage \/ RecordSize(m) > u THEN <<NoMessage>>
                ELSE <<m>> \o Records(rg, e, u - RecordSize(m))
        BY <4>1, RecordsUnfold
      <4>3. Records(rg, e, u) = <<m>> \o Records(rg, e, rest + plus)
        BY <3>2, <4>1, <4>2
      <4> QED BY <4>3 DEF e, u
    <3>5. Records(rg, end + plus, rest + plus) = Append(Records(rg, end, rest), new)
      BY <1>1, <3>1, <3>3
    <3>6. Records(rg, end, rest) \in Seq(Messages)
      BY <3>1, <3>3, RecordsType
    <3>7. <<m>> \o Append(Records(rg, end, rest), new)
            = Append(<<m>> \o Records(rg, end, rest), new)
      <4> DEFINE tail == Records(rg, end, rest)
      <4>1. tail \in Seq(Messages) /\ <<m>> \in Seq(Messages) /\ <<new>> \in Seq(Messages)
        BY <3>6
      <4> HIDE DEF tail
      <4>2. Append(tail, new) = tail \o <<new>>
        BY <4>1, AppendIsConcat
      <4>3. <<m>> \o tail \in Seq(Messages)
        BY <4>1, ConcatProperties
      <4>4. Append(<<m>> \o tail, new) = (<<m>> \o tail) \o <<new>>
        BY <4>3, AppendIsConcat
      <4> QED BY <4>1, <4>2, <4>4, ConcatAssociative DEF tail
    <3> QED BY <3>1, <3>4, <3>5, <3>7
  <2> QED BY <2>1, <2>2
<1> HIDE DEF S
<1>2. Nat \subseteq S
  BY <1>1, Induct
<1> QED BY <1>2 DEF S

-----------------------------------------------------------------------------
(* The redo log                                                            *)

\* A step of the queue, or none, under the names of the actions.
LEMMA NextCases ==
    ASSUME [Next]_vars
    PROVE  \/ \E c \in Calls, m \in Messages \cup {NoMessage} : Call(c, m)
           \/ Entered \/ Decline \/ StartPush \/ Copy \/ Read
           \/ MarkModified \/ WriteEntry \/ Commit
           \/ Apply \/ ResetLog \/ ResetStatus \/ Return \/ Crash
           \/ UNCHANGED vars
BY DEF Next, Calls

-----------------------------------------------------------------------------
\* Where the process may be, and what it and the log have to do with each other.
Shape ==
    /\ ctrl = [f \in Fields |-> ctrl[f]]
    /\ status \in {0, 1, 2}
    /\ phase \in {"idle", "enter", "test", "copy", "log", "apply"}
    /\ applied \in {0, 1, 2}

\* Outside of doUpdate nothing is half copied; the log is empty when a call has
\* begun, and only a call that has changed the queue writes to it.
LogInv ==
    /\ status = 0 => log = <<>>
    /\ phase \notin {"enter", "apply"} => applied = 0
    /\ phase \in {"test", "copy"} => status = 0
    /\ phase = "log" =>
         /\ status \in {0, 1}
         /\ log \in {<<>>, <<Updates[1]>>, <<Updates[1], Updates[2]>>}

\* A log that is complete has two entries, for two fields, the first of which have
\* been copied, or has been copied and cleared.
CompleteInv ==
    /\ status # 2 => applied = 0
    /\ status = 2 =>
         \/ log = <<>> /\ applied = 0
         \/ /\ Len(log) = 2
            /\ log[1].field \in Fields /\ log[2].field \in Fields
            /\ log[1].field # log[2].field
            /\ applied \in {1, 2} => ctrl[log[1].field] = log[1].value
            /\ applied = 2 => ctrl[log[2].field] = log[2].value

IInv == Shape /\ LogInv /\ CompleteInv

\* The two entries of a call are for two fields.
LEMMA UpdatesFields ==
    /\ Updates = <<Updates[1], Updates[2]>>
    /\ Len(Updates) = 2
    /\ Updates[1].field \in Fields /\ Updates[2].field \in Fields
    /\ Updates[1].field # Updates[2].field
<1>1. CASE call = "push"
  BY <1>1 DEF Updates, Entry, Fields
<1>2. CASE call # "push"
  BY <1>2 DEF Updates, Entry, Fields
<1> QED
  BY <1>1, <1>2

\* A log that is empty changes nothing.
LEMMA ReplayedEmpty ==
    ASSUME Shape
    PROVE  Replayed(0) = ctrl
<1>1. \A f \in Fields : ~ \E i \in 1..0 : log[i].field = f
  OBVIOUS
<1> QED
  BY <1>1 DEF Replayed, Shape

\* A log of two entries for two fields changes these.
LEMMA ReplayedTwo ==
    ASSUME log[1].field # log[2].field
    PROVE  Replayed(2) = [f \in Fields |->
               IF f = log[1].field THEN log[1].value
               ELSE IF f = log[2].field THEN log[2].value
               ELSE ctrl[f]]
<1> SUFFICES ASSUME NEW f \in Fields
             PROVE  Replayed(2)[f] = IF f = log[1].field THEN log[1].value
                                     ELSE IF f = log[2].field THEN log[2].value
                                     ELSE ctrl[f]
  BY DEF Replayed
<1> DEFINE At(i) == log[i].field = f
<1>1. \A i \in 1..2 : i = 1 \/ i = 2
  OBVIOUS
<1>2. CASE f = log[1].field
  <2>1. (CHOOSE i \in 1..2 : At(i)) = 1
    BY <1>1, <1>2
  <2> QED
    BY <2>1, <1>2 DEF Replayed
<1>3. CASE f = log[2].field
  <2>1. (CHOOSE i \in 1..2 : At(i)) = 2
    BY <1>1, <1>3
  <2> QED
    BY <2>1, <1>3 DEF Replayed
<1>4. CASE f # log[1].field /\ f # log[2].field
  <2>1. ~ \E i \in 1..2 : log[i].field = f
    BY <1>1, <1>4
  <2> QED
    BY <2>1, <1>4 DEF Replayed
<1> QED
  BY <1>2, <1>3, <1>4

\* Sequences of at most two elements.
LEMMA ShortSequences ==
    ASSUME NEW x, NEW y
    PROVE  /\ Len(<<>>) = 0 /\ Len(<<x>>) = 1 /\ Len(<<x, y>>) = 2
           /\ Append(<<>>, x) = <<x>> /\ Append(<<x>>, y) = <<x, y>>
<1>1. Append(<<x>>, y) = <<x, y>>
  <2>1. <<x>> \in Seq({x, y}) /\ y \in {x, y}
    OBVIOUS
  <2>2. /\ Append(<<x>>, y) \in Seq({x, y})
        /\ Len(Append(<<x>>, y)) = 2
        /\ Append(<<x>>, y)[1] = x /\ Append(<<x>>, y)[2] = y
    BY <2>1, AppendProperties
  <2>3. <<x, y>> \in Seq({x, y}) /\ Len(<<x, y>>) = 2 /\ <<x, y>>[1] = x /\ <<x, y>>[2] = y
    OBVIOUS
  <2>4. \A i \in 1..2 : Append(<<x>>, y)[i] = <<x, y>>[i]
    BY <2>2, <2>3
  <2> QED
    BY <2>2, <2>3, <2>4, SeqEqual
<1> QED
  BY <1>1

-----------------------------------------------------------------------------
\* It holds of a new queue.
LEMMA InitIInv == Init => IInv
BY DEF Init, IInv, Shape, LogInv, CompleteInv, Fields

\* An entry of the log is copied to the control block.
LEMMA ApplyIInv ==
    ASSUME IInv, Apply
    PROVE  IInv' /\ Recovered' = Recovered
<1> USE DEF IInv
<1>1. /\ status = 2 /\ Len(log) = 2
      /\ log[1].field \in Fields /\ log[2].field \in Fields
      /\ log[1].field # log[2].field
      /\ applied \in {0, 1}
      /\ applied \in {1, 2} => ctrl[log[1].field] = log[1].value
  BY DEF Apply, CompleteInv, Shape
<1>2. /\ applied' = applied + 1 /\ status' = status /\ log' = log /\ phase' = phase
      /\ ctrl' = [ctrl EXCEPT ![log[applied'].field] = log[applied'].value]
      /\ InDoUpdate
  BY DEF Apply
<1>3. CASE applied = 0
  <2>1. applied' = 1
    BY <1>2, <1>3
  <2>2. ctrl' = [ctrl EXCEPT ![log[1].field] = log[1].value]
    BY <1>2, <2>1
  <2>3. Shape' /\ ctrl'[log[1].field] = log[1].value
    BY <1>1, <1>2, <2>1, <2>2 DEF Shape
  <2>4. \A f \in Fields : f # log[1].field => ctrl'[f] = ctrl[f]
    BY <2>2 DEF Shape
  <2>5. LogInv' /\ CompleteInv'
    BY <1>1, <1>2, <2>1, <2>3 DEF LogInv, CompleteInv, InDoUpdate
  <2>6. Recovered' = Replayed(2)' /\ Recovered = Replayed(2)
    BY <1>1, <1>2 DEF Recovered
  <2>7. Replayed(2)' = Replayed(2)
    BY <1>1, <1>2, <2>4, ReplayedTwo DEF Replayed
  <2> QED
    BY <2>3, <2>5, <2>6, <2>7
<1>4. CASE applied = 1
  <2>1. applied' = 2
    BY <1>2, <1>4
  <2>2. ctrl' = [ctrl EXCEPT ![log[2].field] = log[2].value]
    BY <1>2, <2>1
  <2>3. Shape' /\ ctrl'[log[2].field] = log[2].value /\ ctrl'[log[1].field] = log[1].value
    BY <1>1, <1>2, <1>4, <2>1, <2>2 DEF Shape
  <2>4. \A f \in Fields : f # log[2].field => ctrl'[f] = ctrl[f]
    BY <2>2 DEF Shape
  <2>5. LogInv' /\ CompleteInv'
    BY <1>1, <1>2, <2>1, <2>3 DEF LogInv, CompleteInv, InDoUpdate
  <2>6. Recovered' = Replayed(2)' /\ Recovered = Replayed(2)
    BY <1>1, <1>2 DEF Recovered
  <2>7. Replayed(2)' = Replayed(2)
    BY <1>1, <1>2, <2>4 DEF Replayed
  <2> QED
    BY <2>3, <2>5, <2>6, <2>7
<1> QED
  BY <1>1, <1>3, <1>4

\* The log is forgotten, when it was not complete, or when all of it is copied.
LEMMA ResetLogIInv ==
    ASSUME IInv, ResetLog
    PROVE  IInv' /\ Recovered' = Recovered
<1> USE DEF IInv
<1>1. /\ log' = <<>> /\ applied' = 0 /\ ctrl' = ctrl /\ status' = status /\ phase' = phase
      /\ InDoUpdate /\ log # <<>>
  BY DEF ResetLog
<1>2. Shape' /\ LogInv' /\ CompleteInv'
  BY <1>1 DEF Shape, LogInv, CompleteInv, InDoUpdate
<1>3. Recovered' = ctrl
  BY <1>1, <1>2, ReplayedEmpty, Replayed(0)' = ctrl' DEF Recovered, Shape, Replayed
<1>4. CASE status = 1
  BY <1>2, <1>3, <1>4 DEF Recovered
<1>5. CASE status = 2
  <2>1. /\ Len(log) = 2 /\ log[1].field # log[2].field
        /\ ctrl[log[1].field] = log[1].value /\ ctrl[log[2].field] = log[2].value
    BY <1>1, <1>5 DEF CompleteInv, ResetLog
  <2>2. Replayed(2) = ctrl
    BY <2>1, ReplayedTwo DEF Shape
  <2> QED
    BY <1>2, <1>3, <1>5, <2>1, <2>2 DEF Recovered
<1> QED
  BY <1>4, <1>5 DEF ResetLog

\* The status is cleared after the log: the log is empty by then.
LEMMA ResetStatusIInv ==
    ASSUME IInv, ResetStatus
    PROVE  IInv' /\ Recovered' = Recovered
<1> USE DEF IInv
<1>1. /\ status' = 0 /\ log = <<>> /\ log' = log /\ ctrl' = ctrl
      /\ phase' = phase /\ applied' = applied /\ InDoUpdate
  BY DEF ResetStatus, process
<1>2. applied = 0
  BY <1>1 DEF CompleteInv, Shape
<1>3. Shape' /\ LogInv' /\ CompleteInv'
  BY <1>1, <1>2 DEF Shape, LogInv, CompleteInv, InDoUpdate
<1>4. Recovered' = ctrl
  BY <1>1 DEF Recovered
<1>5. Recovered = ctrl
  BY <1>1, ReplayedEmpty DEF Recovered
<1> QED
  BY <1>3, <1>4, <1>5

\* The log is marked as complete: the one step that changes what the next call finds.
LEMMA CommitIInv ==
    ASSUME IInv, Commit
    PROVE  /\ IInv'
           /\ phase = "log" /\ phase' = "apply"
           /\ Recovered' = [f \in Fields |->
                  IF f = Updates[1].field THEN Updates[1].value
                  ELSE IF f = Updates[2].field THEN Updates[2].value
                  ELSE Recovered[f]]
<1> USE DEF IInv
<1>1. /\ status = 1 /\ Len(log) = 2 /\ status' = 2 /\ log' = log /\ ctrl' = ctrl
      /\ phase = "log" /\ phase' = "apply" /\ applied' = applied
  BY DEF Commit
<1>2. log = <<Updates[1], Updates[2]>>
  <2>1. log \in {<<>>, <<Updates[1]>>, <<Updates[1], Updates[2]>>}
    BY <1>1 DEF LogInv
  <2>2. Len(<<>>) = 0 /\ Len(<<Updates[1]>>) = 1
    BY ShortSequences
  <2>3. Len(log) = 2
    BY <1>1
  <2>4. 0 # 2 /\ 1 # 2
    OBVIOUS
  <2> QED
    BY <2>1, <2>2, <2>3, <2>4, Zenon
<1>3. /\ log[1] = Updates[1] /\ log[2] = Updates[2]
      /\ log[1].field \in Fields /\ log[2].field \in Fields
      /\ log[1].field # log[2].field
  BY <1>2, UpdatesFields
<1>4. applied = 0
  BY <1>1 DEF CompleteInv
<1>5. Shape' /\ LogInv' /\ CompleteInv'
  BY <1>1, <1>3, <1>4 DEF Shape, LogInv, CompleteInv
<1>6. Recovered = ctrl
  BY <1>1 DEF Recovered
<1>7. Recovered' = Replayed(2)
  BY <1>1 DEF Recovered, Replayed
<1> QED
  BY <1>1, <1>3, <1>5, <1>6, <1>7, ReplayedTwo

\* The steps that leave the shared control block and its log alone.
LEMMA FrameIInv ==
    ASSUME IInv, UNCHANGED <<ctrl, status, log>>,
           phase' \in {"idle", "enter", "test", "copy", "log", "apply"},
           applied' \in {0, 1, 2},
           phase' \notin {"enter", "apply"} => applied' = 0,
           phase' \in {"test", "copy"} => status = 0,
           phase' = "log" => (status = 0 \/ UNCHANGED <<phase, call, message>>),
           applied' \in {0, applied}
    PROVE  IInv' /\ Recovered' = Recovered
<1> USE DEF IInv
<1>1. Shape' /\ CompleteInv'
  BY DEF Shape, CompleteInv
<1>2. LogInv'
  <2>1. CASE phase' # "log"
    BY <2>1 DEF LogInv
  <2>2. CASE phase' = "log" /\ status = 0
    BY <2>2 DEF LogInv
  <2>3. CASE phase' = "log" /\ UNCHANGED <<phase, call, message>>
    <3>1. Updates' = Updates
      BY <2>3 DEF Updates, Entry, After
    <3> QED
      BY <2>3, <3>1 DEF LogInv
  <2> QED
    BY <2>1, <2>2, <2>3
<1>3. Recovered' = Recovered
  BY DEF Recovered, Replayed
<1> QED
  BY <1>1, <1>2, <1>3

\* An entry is begun or written: nobody looks at a log that is not complete.
LEMMA LogIInv ==
    ASSUME IInv, MarkModified \/ WriteEntry
    PROVE  IInv' /\ Recovered' = Recovered
<1> USE DEF IInv
<1>1. /\ phase = "log" /\ status \in {0, 1} /\ status' = 1
      /\ UNCHANGED <<ctrl, ring, process>>
  BY DEF MarkModified, WriteEntry
<1>2. Updates' = Updates
  BY <1>1 DEF Updates, Entry, After, process
<1>3. /\ Shape' /\ CompleteInv'
  BY <1>1 DEF Shape, CompleteInv, LogInv, process
<1>4. log' \in {<<>>, <<Updates[1]>>, <<Updates[1], Updates[2]>>}
  <2>1. CASE MarkModified
    BY <1>1, <2>1 DEF MarkModified, LogInv
  <2>2. CASE WriteEntry
    <3>1. log \in {<<>>, <<Updates[1]>>} /\ log' = Append(log, Updates[Len(log) + 1])
      BY <1>1, <2>2 DEF WriteEntry, LogInv
    <3>2. CASE log = <<>>
      BY <3>1, <3>2
    <3>3. CASE log = <<Updates[1]>>
      <4>1. Len(log) = 1
        BY <3>3
      <4>2. log' = Append(<<Updates[1]>>, Updates[2])
        BY <3>1, <3>3, <4>1
      <4> QED
        BY <4>2, ShortSequences
    <3> QED
      BY <3>1, <3>2, <3>3
  <2> QED
    BY <2>1, <2>2
<1>5. LogInv'
  BY <1>1, <1>2, <1>4 DEF LogInv, process
<1>6. Recovered = ctrl /\ Recovered' = ctrl'
  BY <1>1 DEF Recovered
<1> QED
  BY <1>1, <1>3, <1>5, <1>6

\* Every step keeps the invariant, and only Commit changes what the next call finds.
LEMMA NextIInv ==
    ASSUME IInv, [Next]_vars
    PROVE  IInv' /\ (Recovered' = Recovered \/ Commit)
<1> USE DEF IInv
<1>1. CASE \E c \in Calls, m \in Messages \cup {NoMessage} : Call(c, m)
  BY <1>1, FrameIInv DEF Call, memory, Shape, LogInv
<1>2. CASE Entered
  BY <1>2, FrameIInv DEF Entered, memory, Shape, LogInv, CompleteInv
<1>3. CASE Decline
  BY <1>3, FrameIInv DEF Decline, Leave, memory
<1>4. CASE StartPush
  BY <1>4, FrameIInv DEF StartPush, memory, Shape, LogInv
<1>5. CASE Copy
  BY <1>5, FrameIInv DEF Copy, Shape, LogInv
<1>6. CASE Read
  BY <1>6, FrameIInv DEF Read, memory, Shape, LogInv
<1>7. CASE MarkModified \/ WriteEntry
  BY <1>7, LogIInv
<1>8. CASE Commit
  BY <1>8, CommitIInv
<1>9. CASE Apply
  BY <1>9, ApplyIInv
<1>10. CASE ResetLog
  BY <1>10, ResetLogIInv
<1>11. CASE ResetStatus
  BY <1>11, ResetStatusIInv
<1>12. CASE Return
  BY <1>12, FrameIInv DEF Return, Leave, memory
<1>13. CASE Crash
  BY <1>13, FrameIInv DEF Crash, Leave
<1>14. CASE UNCHANGED vars
  BY <1>14, FrameIInv DEF vars, memory, process, Shape, LogInv
<1> QED
  BY <1>1, <1>2, <1>3, <1>4, <1>5, <1>6, <1>7, <1>8, <1>9, <1>10, <1>11, <1>12, <1>13,
     <1>14, NextCases

\* In every reachable state a log that is complete holds one index and its count, and
\* a log that is not complete belongs to the call that is writing it or to none.
THEOREM LogIsSound == Spec => []IInv
<1>1. IInv /\ [Next]_vars => IInv'
  BY NextIInv
<1> QED
  BY <1>1, InitIInv, PTL DEF Spec

\* What the next call finds of the control block changes only with the store that
\* completes a log, one index and its count together (update, doUpdate).
THEOREM UpdatesAreAtomic == Spec => AtomicUpdate
<1> DEFINE Together ==
      Recovered' # Recovered =>
        /\ phase = "log" /\ phase' = "apply"
        /\ Recovered' = [f \in Fields |->
               IF f = Updates[1].field THEN Updates[1].value
               ELSE IF f = Updates[2].field THEN Updates[2].value
               ELSE Recovered[f]]
<1>1. IInv /\ [Next]_vars => Together
  BY NextIInv, CommitIInv
<1>2. [][Together]_vars => AtomicUpdate
  BY DEF AtomicUpdate
<1> QED
  BY <1>1, <1>2, LogIsSound, PTL DEF Spec

-----------------------------------------------------------------------------
(* Types                                                                   *)

\* What a field of the control block can be.
Fits(field, value) ==
    IF field \in {"iTopIndex", "iBotIndex"} THEN value \in 0..RingSize
    ELSE value \in 0..(CountModulus - 1)

IsEntry(e) == e = Entry(e.field, e.value) /\ e.field \in Fields /\ Fits(e.field, e.value)

LogType == log \in {<<>>} \/ (\E e : IsEntry(e) /\ log = <<e>>)
           \/ (\E e, g : IsEntry(e) /\ IsEntry(g) /\ log = <<e, g>>)

MemType ==
    /\ ctrl = [f \in Fields |-> ctrl[f]] /\ \A f \in Fields : Fits(f, ctrl[f])
    /\ status \in 0..2
    /\ LogType
    /\ ring \in [Cells -> Bytes]
    /\ phase \in {"idle", "enter", "test", "copy", "log", "apply"}
    /\ call \in Calls
    /\ message \in Messages \cup {NoMessage}
    /\ applied \in 0..2

\* A log of two entries.
LEMMA TwoEntries ==
    ASSUME LogType, Len(log) = 2
    PROVE  \E e, g : IsEntry(e) /\ IsEntry(g) /\ log = <<e, g>>
<1>1. log # <<>>
  BY ShortSequences
<1>2. ASSUME NEW e, log = <<e>> PROVE FALSE
  BY <1>2
<1> QED BY <1>1, <1>2, Zenon DEF LogType

\* What fits is a number.
LEMMA FitsNumber ==
    ASSUME NEW f, NEW v, Fits(f, v)
    PROVE  v \in Nat
BY ByteRingAssumption, MemQueueAssumption DEF Fits

\* These are the types of MemQueue.
LEMMA MemTypeIsTypeOK == MemType => TypeOK
<1> SUFFICES ASSUME MemType PROVE TypeOK
  OBVIOUS
<1> USE DEF MemType
<1>1. \A f \in Fields : ctrl[f] \in Nat
  BY FitsNumber
<1>2. ctrl \in [Fields -> Nat]
  BY <1>1
<1>3. /\ {ctrl.iTopIndex, ctrl.iBotIndex} \subseteq 0..RingSize
      /\ {ctrl.iPushCount, ctrl.iPopCount} \subseteq 0..(CountModulus - 1)
  BY DEF Fits, Fields
<1>4. \A e : IsEntry(e) => e \in [field : Fields, value : Nat]
  BY FitsNumber DEF IsEntry, Entry
<1>5. log \in Seq([field : Fields, value : Nat]) /\ Len(log) <= 2
  <2>1. CASE log = <<>>
    BY <2>1
  <2>2. CASE \E e : IsEntry(e) /\ log = <<e>>
    BY <1>4, <2>2
  <2>3. CASE \E e, g : IsEntry(e) /\ IsEntry(g) /\ log = <<e, g>>
    BY <1>4, <2>3
  <2> QED BY <2>1, <2>2, <2>3 DEF LogType
<1> QED BY <1>2, <1>3, <1>5 DEF TypeOK

\* The index after a record.
LEMMA AfterRange ==
    ASSUME NEW p \in 0..RingSize, NEW m \in Messages
    PROVE  After(p, m) \in 1..RingSize
BY ByteRingAssumption, MemQueueAssumption, RecordSizes DEF After

\* The bytes a record is made of.
LEMMA StoreType ==
    ASSUME NEW rg \in [Cells -> Bytes], NEW m \in Messages, NEW p \in Int,
           NEW written \in SUBSET Span(m, p), RecordSize(m) <= RingSize
    PROVE  Store(rg, m, p, written) \in [Cells -> Bytes]
<1> SUFFICES ASSUME NEW a \in Cells, a \in written
             PROVE  <<m, (a - p) % RingSize>> \in Bytes
  BY DEF Store
<1>1. PICK k \in 0..(RecordSize(m) - 1) : a = Address(p, k)
  BY DEF Span
<1>2. RecordAt(Store(rg, m, p, Span(m, p)), p, m)
  BY StoreRecord
<1>3. Store(rg, m, p, Span(m, p))[a] = <<m, k>>
  BY <1>1, <1>2 DEF RecordAt
<1>4. Store(rg, m, p, Span(m, p))[a] = <<m, (a - p) % RingSize>>
  <2>1. a \in Span(m, p)
    OBVIOUS
  <2> QED BY <2>1 DEF Store
<1>5. <<m, k>> \in {m} \X (0..(RecordSize(m) - 1))
  OBVIOUS
<1> QED BY <1>3, <1>4, <1>5 DEF Bytes

-----------------------------------------------------------------------------
(* The ring                                                                *)

Top == Recovered.iTopIndex
Bot == Recovered.iBotIndex
InUse == Used(Recovered)

\* What the next call finds is a ring of whole records.
RingInv ==
    /\ Filled(ring, Top - InUse, InUse)
    /\ Top = 0 => Bot = 0

\* The record of m does not reach the oldest one.
Fitting(m) == InUse = 0 \/ InUse + RecordSize(m) < RingSize

\* What a call has done to the ring, or knows of it, before it writes to the log.
CallInv ==
    /\ phase = "copy" => call = "push"
    /\ phase = "log" => call # "look"
    /\ (phase # "idle" /\ call = "push") => message \in Messages
    /\ (phase \in {"copy", "log"} /\ call = "push") => Fitting(message)
    /\ (phase = "log" /\ call = "push") => RecordAt(ring, Top, message)
    /\ (phase = "log" /\ call = "pop") =>
         InUse > 0 /\ message \in Messages /\ RecordAt(ring, Bot, message)

MemInv == IInv /\ MemType /\ RingInv /\ CallInv

\* What the next call finds has the same types as the control block.
LEMMA RecoveredType ==
    ASSUME IInv, MemType
    PROVE  /\ Recovered = [f \in Fields |-> Recovered[f]]
           /\ \A f \in Fields : Fits(f, Recovered[f])
<1> USE DEF IInv
<1>1. CASE status # 2
  BY <1>1 DEF Recovered, MemType
<1>2. CASE status = 2 /\ log = <<>>
  BY <1>2, ReplayedEmpty DEF Recovered, MemType
<1>3. CASE status = 2 /\ Len(log) = 2
  <2>1. PICK e, g : IsEntry(e) /\ IsEntry(g) /\ log = <<e, g>>
    BY <1>3, TwoEntries DEF MemType
  <2>2. log[1] = e /\ log[2] = g
    BY <2>1
  <2>3. e.field # g.field
    BY <1>3, <2>2 DEF CompleteInv
  <2>4. Recovered = [f \in Fields |->
               IF f = e.field THEN e.value
               ELSE IF f = g.field THEN g.value
               ELSE ctrl[f]]
    BY <1>3, <2>2, <2>3, ReplayedTwo DEF Recovered
  <2> QED BY <2>1, <2>4 DEF IsEntry, MemType
<1> QED BY <1>1, <1>2, <1>3 DEF CompleteInv

\* The indices, and the bytes between them.
LEMMA InUseRange ==
    ASSUME IInv, MemType, RingInv
    PROVE  /\ Top \in 0..RingSize /\ Bot \in 0..RingSize
           /\ InUse \in 0..RingSize
           /\ InUse = 0 <=> Top = Bot
           /\ InUse = IF Top >= Bot THEN Top - Bot ELSE Top - Bot + RingSize
           /\ Recovered \in [Fields -> Nat]
<1>1. Top \in 0..RingSize /\ Bot \in 0..RingSize /\ Recovered \in [Fields -> Nat]
  BY RecoveredType, FitsNumber DEF Fits, Fields, Top, Bot
<1>2. InUse = IF Top >= Bot THEN Top - Bot ELSE Top - Bot + RingSize
  BY DEF InUse, Used, Top, Bot
<1>3. Top = 0 => Bot = 0
  BY DEF RingInv
<1>4. RingSize \in Nat
  BY ByteRingAssumption
<1> HIDE DEF Top, Bot, InUse
<1> QED BY <1>1, <1>2, <1>3, <1>4

\* The oldest record begins at Bot.
LEMMA BotAddress ==
    ASSUME IInv, MemType, RingInv, NEW k \in Int
    PROVE  Address(Top - InUse, k) = Address(Bot, k)
<1>1. /\ Top - InUse \in Int /\ Bot \in Int /\ RingSize \in Int
      /\ Top - InUse = Bot \/ (Top - InUse) + RingSize = Bot
  BY InUseRange, ByteRingAssumption
<1> DEFINE p == Top - InUse
<1>2. CASE p = Bot
  BY <1>2
<1>3. CASE p + RingSize = Bot
  <2>1. p \in Int
    BY <1>1
  <2>2. p % RingSize = Bot % RingSize
    BY <1>3, <2>1, ModRound
  <2> QED BY <1>1, <2>1, <2>2, AddressSame
<1> QED BY <1>1, <1>2, <1>3

\* In a call that has done with doUpdate the control block is what the next one finds.
LEMMA BlockIsRecovered ==
    ASSUME IInv, phase \in {"test", "copy", "log"}
    PROVE  Recovered = ctrl
BY DEF Recovered, IInv, LogInv

\* Where the ring and what is found of the control block stay, so do the messages.
LEMMA RingStays ==
    ASSUME RingInv, Recovered' = Recovered, ring' = ring
    PROVE  /\ RingInv' /\ Contents' = Contents
           /\ Top' = Top /\ Bot' = Bot /\ InUse' = InUse
<1>1. Top' = Top /\ Bot' = Bot /\ InUse' = InUse
  BY DEF Top, Bot, InUse, Used
<1> QED BY <1>1 DEF RingInv, Contents, Top, InUse

\* A push stores bytes where none are in use, all of its record or, when it is killed,
\* some of it.
LEMMA RingStored ==
    ASSUME MemInv, phase = "copy", Recovered' = Recovered,
           NEW written \in SUBSET Span(message, Top),
           ring' = Store(ring, message, Top, written)
    PROVE  /\ RingInv' /\ Contents' = Contents
           /\ Top' = Top /\ Bot' = Bot /\ InUse' = InUse
<1> USE DEF MemInv
<1>1. Top' = Top /\ Bot' = Bot /\ InUse' = InUse
  BY DEF Top, Bot, InUse, Used
<1>2. message \in Messages /\ Fitting(message)
  BY DEF CallInv
<1>3. Top \in Int /\ InUse \in Nat /\ Top - InUse \in Int /\ (Top - InUse) + InUse = Top
  BY InUseRange, ByteRingAssumption
<1>4. InUse + RecordSize(message) <= RingSize
  BY <1>2, <1>3, RecordSizes, ByteRingAssumption, MemQueueAssumption DEF Fitting
<1>5. SameBytes(ring, Top - InUse, ring', Top - InUse, InUse)
  BY <1>2, <1>3, <1>4, StoreOthers DEF MemType
<1>6. Filled(ring, Top - InUse, InUse)
  BY DEF RingInv
<1>7. Filled(ring', Top - InUse, InUse)
  BY <1>3, <1>5, <1>6, FilledSame
<1>8. Records(ring', Top, InUse) = Records(ring, Top, InUse)
  BY <1>3, <1>5, <1>6, RecordsSame
<1> QED BY <1>1, <1>7, <1>8 DEF RingInv, Contents, Top, InUse

-----------------------------------------------------------------------------
(* The steps and the types                                                 *)

\* What a call writes to the log fits the fields.
LEMMA UpdatesFit ==
    ASSUME MemInv, phase = "log"
    PROVE  IsEntry(Updates[1]) /\ IsEntry(Updates[2])
<1> USE DEF MemInv
<1>1. message \in Messages /\ call \in {"push", "pop"}
  BY DEF CallInv, MemType, Calls
<1>2. /\ ctrl.iTopIndex \in 0..RingSize /\ ctrl.iBotIndex \in 0..RingSize
      /\ ctrl.iPushCount \in Nat /\ ctrl.iPopCount \in Nat
  BY MemQueueAssumption DEF MemType, Fits, Fields
<1>3. /\ After(ctrl.iTopIndex, message) \in 0..RingSize
      /\ After(ctrl.iBotIndex, message) \in 0..RingSize
  BY <1>1, <1>2, AfterRange
<1>4. \A n \in Nat : (n + 1) % CountModulus \in 0..(CountModulus - 1)
  BY MemQueueAssumption
<1>5. CASE call = "push"
  BY <1>2, <1>3, <1>4, <1>5 DEF Updates, IsEntry, Entry, Fits, Fields
<1>6. CASE call = "pop"
  BY <1>2, <1>3, <1>4, <1>6 DEF Updates, IsEntry, Entry, Fits, Fields
<1> QED BY <1>1, <1>5, <1>6

\* A step that leaves the memory alone.
LEMMA MemoryStaysType ==
    ASSUME MemType, UNCHANGED <<ctrl, log>>, status' \in 0..2, ring' \in [Cells -> Bytes],
           phase' \in {"idle", "enter", "test", "copy", "log", "apply"},
           call' \in Calls, message' \in Messages \cup {NoMessage}, applied' \in 0..2
    PROVE  MemType'
BY DEF MemType, LogType

\* Every step keeps the types.
LEMMA NextMemType ==
    ASSUME MemInv, [Next]_vars
    PROVE  MemType'
<1> USE DEF MemInv
<1>1. ASSUME NEW m \in Messages, Call("push", m) PROVE MemType'
  BY <1>1, MemoryStaysType DEF Call, memory, MemType, Calls
<1>2. ASSUME NEW c \in {"pop", "look"}, Call(c, NoMessage) PROVE MemType'
  BY <1>2, MemoryStaysType DEF Call, memory, MemType, Calls
<1>3. CASE Entered
  BY <1>3, MemoryStaysType DEF Entered, memory, MemType
<1>4. CASE Decline
  BY <1>4, MemoryStaysType DEF Decline, Leave, memory, MemType, Calls
<1>5. CASE StartPush
  BY <1>5, MemoryStaysType DEF StartPush, memory, MemType
<1>6. ASSUME NEW written \in SUBSET Span(message, ctrl.iTopIndex), phase = "copy",
             ring' = Store(ring, message, ctrl.iTopIndex, written)
      PROVE  ring' \in [Cells -> Bytes]
  <2>1. message \in Messages /\ ctrl.iTopIndex \in Int
    BY <1>6, FitsNumber DEF CallInv, MemType, Fields
  <2> QED BY <1>6, <2>1, StoreType, MemQueueAssumption DEF MemType
<1>7. CASE Copy
  <2>1. ring' \in [Cells -> Bytes]
    BY <1>6, <1>7 DEF Copy
  <2> QED BY <1>7, <2>1, MemoryStaysType DEF Copy, MemType
<1>8. CASE Read
  <2>1. message' \in Messages \cup {NoMessage}
    BY <1>8 DEF Read, MessageAt
  <2> QED BY <1>8, <2>1, MemoryStaysType DEF Read, memory, MemType
<1>9. CASE MarkModified
  BY <1>9, MemoryStaysType DEF MarkModified, process, MemType
<1>10. CASE WriteEntry
  <2>1. /\ phase = "log" /\ Len(log) < 2 /\ log' = Append(log, Updates[Len(log) + 1])
        /\ UNCHANGED <<ctrl, status, ring, process>>
    BY <1>10 DEF WriteEntry
  <2>2. IsEntry(Updates[1]) /\ IsEntry(Updates[2])
    BY <2>1, UpdatesFit
  <2>3. log = <<>> \/ log = <<Updates[1]>>
    BY <2>1 DEF IInv, LogInv
  <2>4. CASE log = <<>>
    <3>1. log' = <<Updates[1]>>
      BY <2>1, <2>4
    <3> QED BY <2>1, <2>2, <3>1 DEF MemType, LogType, process
  <2>5. CASE log = <<Updates[1]>>
    <3>1. log' = <<Updates[1], Updates[2]>>
      <4>1. Len(log) = 1
        BY <2>5
      <4>2. log' = Append(<<Updates[1]>>, Updates[2])
        BY <2>1, <2>5, <4>1
      <4> QED BY <4>2, ShortSequences
    <3> QED BY <2>1, <2>2, <3>1 DEF MemType, LogType, process
  <2> QED BY <2>3, <2>4, <2>5
<1>11. CASE Commit
  BY <1>11, MemoryStaysType DEF Commit, MemType
<1>12. CASE Apply
  <2>1. /\ status = 2 /\ applied < Len(log) /\ applied' = applied + 1
        /\ ctrl' = [ctrl EXCEPT ![log[applied'].field] = log[applied'].value]
        /\ UNCHANGED <<status, log, ring, phase, call, message>>
    BY <1>12 DEF Apply
  <2>2. PICK e, g : IsEntry(e) /\ IsEntry(g) /\ log = <<e, g>>
    <3>1. Len(log) = 2
      BY <2>1 DEF IInv, CompleteInv
    <3> QED BY <3>1, TwoEntries DEF MemType
  <2>3. applied' \in 1..2
    BY <2>1, <2>2 DEF MemType
  <2>4. IsEntry(log[applied'])
    BY <2>2, <2>3
  <2>5. /\ ctrl' = [f \in Fields |-> ctrl'[f]]
        /\ \A f \in Fields : Fits(f, ctrl'[f])
    <3> DEFINE e1 == log[applied']
    <3>1. e1.field \in Fields /\ Fits(e1.field, e1.value)
      BY <2>4 DEF IsEntry
    <3>2. ctrl' = [ctrl EXCEPT ![e1.field] = e1.value]
      BY <2>1
    <3> HIDE DEF e1
    <3> QED BY <3>1, <3>2 DEF MemType
  <2> QED BY <2>1, <2>3, <2>5 DEF MemType, LogType
<1>13. CASE ResetLog
  BY <1>13 DEF ResetLog, MemType, LogType
<1>14. CASE ResetStatus
  BY <1>14, MemoryStaysType DEF ResetStatus, process, MemType
<1>15. CASE Return
  BY <1>15, MemoryStaysType DEF Return, Leave, memory, MemType, Calls
<1>16. CASE Crash
  <2>1. ring' \in [Cells -> Bytes]
    <3>1. CASE phase = "copy"
      <4>1. PICK written \in SUBSET Span(message, ctrl.iTopIndex) :
              ring' = Store(ring, message, ctrl.iTopIndex, written)
        BY <1>16, <3>1 DEF Crash
      <4> QED BY <1>6, <3>1, <4>1
    <3>2. CASE phase # "copy"
      BY <1>16, <3>2 DEF Crash, MemType
    <3> QED BY <3>1, <3>2
  <2> QED BY <1>16, <2>1, MemoryStaysType DEF Crash, Leave, MemType, Calls
<1>17. CASE UNCHANGED vars
  BY <1>17, MemoryStaysType DEF vars, memory, process, MemType
<1> QED
  BY <1>1, <1>2, <1>3, <1>4, <1>5, <1>7, <1>8, <1>9, <1>10, <1>11, <1>12, <1>13, <1>14,
     <1>15, <1>16, <1>17 DEF Next

-----------------------------------------------------------------------------
(* The store that completes a log                                          *)

\* A push is in the queue, behind the others; a record as long as the ring may be none.
LEMMA PushCommitted ==
    ASSUME MemInv, phase = "log", call = "push", ring' = ring,
           Top' = After(Top, message), Bot' = Bot
    PROVE  /\ RingInv'
           /\ Contents' \in {Append(Contents, message), Contents}
           /\ RecordSize(message) < RingSize => Contents' = Append(Contents, message)
<1> USE DEF MemInv
<1> DEFINE size == RecordSize(message)
<1>1. message \in Messages /\ Fitting(message) /\ RecordAt(ring, Top, message)
  BY DEF CallInv
<1>2. /\ Top \in 0..RingSize /\ Bot \in 0..RingSize /\ InUse \in 0..RingSize
      /\ InUse = 0 <=> Top = Bot
      /\ InUse = IF Top >= Bot THEN Top - Bot ELSE Top - Bot + RingSize
  BY InUseRange
<1>3. size \in Nat \ {0} /\ size <= RingSize /\ RingSize \in Nat
  BY <1>1, RecordSizes, MemQueueAssumption, ByteRingAssumption
<1>4. Top' = IF Top + size <= RingSize THEN Top + size ELSE Top + size - RingSize
  BY DEF After
<1>5. InUse' = IF Top' >= Bot' THEN Top' - Bot' ELSE Top' - Bot' + RingSize
  BY DEF InUse, Used, Top, Bot
<1>6. InUse = 0 \/ InUse + size < RingSize
  BY <1>1 DEF Fitting
<1>7. Top' > 0
  BY <1>1, <1>2, AfterRange
<1>8. Contents = Records(ring, Top, InUse) /\ Contents' = Records(ring, Top', InUse')
  BY DEF Contents, Top, InUse
<1>9. Filled(ring, Top - InUse, InUse)
  BY DEF RingInv
<1> HIDE DEF size
<1>10. CASE InUse' = InUse + size
  <2> DEFINE end == Top + size
             new == InUse + size
  <2>1. /\ Filled(ring, (Top - InUse), new)
        /\ Records(ring, end, new) = Append(Records(ring, Top, InUse), message)
    <3>1. Top - InUse \in Int /\ (Top - InUse) + InUse = Top /\ InUse \in Nat /\ Top \in Int
      BY <1>2, <1>3
    <3> QED BY <1>1, <1>9, <3>1, FilledAppend, RecordsAppend DEF size
  <2>2. end \in Int /\ new \in Nat /\ end - new = Top - InUse /\ Top' \in Int
    BY <1>2, <1>3, <1>4
  <2>3. end % RingSize = Top' % RingSize
    <3>1. Top' = end \/ Top' + RingSize = end
      BY <1>2, <1>3, <1>4
    <3> QED BY <2>2, <3>1, ModRound
  <2> HIDE DEF end, new
  <2>4. /\ Filled(ring, Top' - new, new)
        /\ Records(ring, Top', new) = Append(Records(ring, Top, InUse), message)
    BY <2>1, <2>2, <2>3, RecordsAround
  <2>5. InUse' = new
    BY <1>10 DEF new
  <2> QED BY <1>7, <1>8, <2>4, <2>5 DEF RingInv
<1>11. CASE InUse' # InUse + size
  <2>1. InUse = 0 /\ InUse' = 0 /\ size = RingSize
    BY <1>2, <1>3, <1>4, <1>5, <1>6, <1>11
  <2>2. Filled(ring, Top' - InUse', InUse')
    BY <2>1 DEF Filled
  <2>3. Contents = <<>> /\ Contents' = <<>>
    <3>1. Top \in Int /\ Top' \in Int
      BY <1>2, <1>3, <1>4
    <3>2. Records(ring, Top, 0) = <<>> /\ Records(ring, Top', 0) = <<>>
      BY <3>1, RecordsNone
    <3> QED BY <1>8, <2>1, <3>2
  <2> QED BY <1>3, <1>7, <2>1, <2>2, <2>3 DEF RingInv, size
<1> QED BY <1>10, <1>11

\* A pop takes the oldest message from the queue.
LEMMA PopCommitted ==
    ASSUME MemInv, phase = "log", call = "pop", ring' = ring,
           Bot' = After(Bot, message), Top' = Top
    PROVE  /\ RingInv'
           /\ Contents # <<>> /\ Head(Contents) = message /\ Contents' = Tail(Contents)
<1> USE DEF MemInv
<1> DEFINE size == RecordSize(message)
<1>1. message \in Messages /\ InUse > 0 /\ RecordAt(ring, Bot, message)
  BY DEF CallInv
<1>2. /\ Top \in 0..RingSize /\ Bot \in 0..RingSize /\ InUse \in 0..RingSize
      /\ InUse = IF Top >= Bot THEN Top - Bot ELSE Top - Bot + RingSize
  BY InUseRange
<1>3. size \in Nat \ {0} /\ size <= RingSize /\ RingSize \in Nat
  BY <1>1, RecordSizes, MemQueueAssumption, ByteRingAssumption
<1>4. Bot' = IF Bot + size <= RingSize THEN Bot + size ELSE Bot + size - RingSize
  BY DEF After
<1>5. InUse' = IF Top' >= Bot' THEN Top' - Bot' ELSE Top' - Bot' + RingSize
  BY DEF InUse, Used, Top, Bot
<1>6. Contents = Records(ring, Top, InUse) /\ Contents' = Records(ring, Top, InUse')
  BY DEF Contents, Top, InUse
<1>7. Filled(ring, Top - InUse, InUse)
  BY DEF RingInv
<1>8. PICK m \in Messages :
        /\ RecordSize(m) <= InUse
        /\ MessageAt(ring, Top - InUse) = m
        /\ Filled(ring, Top - (InUse - RecordSize(m)), InUse - RecordSize(m))
        /\ Records(ring, Top, InUse) = <<m>> \o Records(ring, Top, InUse - RecordSize(m))
  <2>1. Top \in Int /\ InUse \in Nat \ {0}
    BY <1>1, <1>2
  <2> QED BY <1>7, <2>1, RecordsFirst
<1>9. m = message
  <2>1. Top - InUse \in Int
    BY <1>2, <1>3
  <2>2. RecordAt(ring, Top - InUse, message)
    <3>1. \A k \in 0..(size - 1) : Address(Top - InUse, k) = Address(Bot, k)
      BY <1>3, BotAddress
    <3> QED BY <1>1, <3>1 DEF RecordAt
  <2> QED BY <1>1, <1>8, <2>1, <2>2, ReadRecord
<1> HIDE DEF size
<1>10. Top > 0
  <2>1. Top = 0 => Bot = 0
    BY DEF RingInv
  <2> QED BY <1>1, <1>2, <1>3, <2>1
<1>11. InUse' = InUse - size
  <2>1. size <= InUse
    BY <1>8, <1>9 DEF size
  <2> QED BY <1>2, <1>3, <1>4, <1>5, <1>10, <2>1
<1>12. RingInv'
  BY <1>8, <1>9, <1>10, <1>11 DEF RingInv, size
<1>13. /\ Contents # <<>> /\ Head(Contents) = message /\ Contents' = Tail(Contents)
  <2> DEFINE rest == Records(ring, Top, InUse - size)
  <2>1. Contents = <<message>> \o rest /\ Contents' = rest
    BY <1>6, <1>8, <1>9, <1>11 DEF size
  <2>2. rest \in Seq(Messages)
    <3>1. InUse - size \in Nat /\ Top \in Int
      BY <1>2, <1>3, <1>8, <1>9 DEF size
    <3>2. Filled(ring, Top - (InUse - size), InUse - size)
      BY <1>8, <1>9 DEF size
    <3> QED BY <3>1, <3>2, RecordsType
  <2> HIDE DEF rest
  <2>3. /\ <<message>> \o rest # <<>>
        /\ Head(<<message>> \o rest) = message
        /\ Tail(<<message>> \o rest) = rest
    BY <1>1, <2>2
  <2> QED BY <2>1, <2>3
<1> QED BY <1>12, <1>13

-----------------------------------------------------------------------------
(* First in, first out                                                     *)

\* The message that pop has taken from the queue and not yet returned.
Handed == IF call = "pop" /\ phase = "apply" THEN message ELSE NoMessage

FifoStep == [Abstract!Next]_(Abstract!vars)

\* Nothing happens to the queue, or pop returns, or dies before it does.
LEMMA QuietStep ==
    ASSUME Contents' = Contents, Handed' = Handed \/ Handed' = NoMessage
    PROVE  FifoStep
<1>1. CASE Handed' = Handed
  BY <1>1 DEF FifoStep, Abstract!vars, Handed
<1>2. CASE Handed' # Handed
  <2>1. Handed # NoMessage /\ Handed' = NoMessage
    BY <1>2
  <2>2. Abstract!HandOver
    BY <2>1 DEF Abstract!HandOver, Handed
  <2> QED BY <2>2 DEF FifoStep, Abstract!Next
<1> QED BY <1>1, <1>2

\* A new queue.
LEMMA InitMemInv == Init => MemInv /\ Abstract!Init
<1> SUFFICES ASSUME Init PROVE MemInv /\ Abstract!Init
  OBVIOUS
<1>1. IInv
  BY InitIInv
<1>2. MemType
  <2>1. \A f \in Fields : Fits(f, 0)
    BY ByteRingAssumption, MemQueueAssumption DEF Fits
  <2>2. ring \in [Cells -> Bytes]
    BY DEF Init, Bytes
  <2> QED BY <2>1, <2>2 DEF Init, MemType, LogType, Calls
<1>3. Recovered = ctrl /\ Top = 0 /\ Bot = 0 /\ InUse = 0
  BY DEF Init, Recovered, Top, Bot, InUse, Used, Fields
<1>4. RingInv
  BY <1>3 DEF RingInv, Filled
<1>5. CallInv
  BY DEF Init, CallInv
<1>6. Contents = <<>>
  <2>1. Contents = Records(ring, 0, 0)
    BY <1>3 DEF Contents, Top, InUse
  <2>2. Records(ring, 0, 0) = <<>>
    BY RecordsNone
  <2> QED BY <2>1, <2>2
<1>7. Abstract!Init
  BY <1>6 DEF Init, Abstract!Init
<1> QED BY <1>1, <1>2, <1>4, <1>5, <1>7 DEF MemInv

Kept == RingInv' /\ CallInv' /\ FifoStep /\ (Contents' = Contents \/ Commit)

\* A step that leaves the ring and what is found of the control block as they are, and in
\* which no call gets further than what it knows.
LEMMA QuietKept ==
    ASSUME MemInv, ring' = ring, Recovered' = Recovered,
           Handed' = Handed \/ Handed' = NoMessage,
           CallInv' \/ phase' \notin {"copy", "log"} \/ UNCHANGED <<phase, call, message>>,
           (phase' # "idle" /\ call' = "push") => message' \in Messages
    PROVE  Kept
<1> USE DEF MemInv
<1>1. /\ RingInv' /\ Contents' = Contents
      /\ Top' = Top /\ Bot' = Bot /\ InUse' = InUse
  BY RingStays
<1>2. CallInv'
  BY <1>1 DEF CallInv, Fitting
<1> QED BY <1>1, <1>2, QuietStep DEF Kept

\* Every step keeps what the ring and the calls are, and is one of a queue.
LEMMA NextKept ==
    ASSUME MemInv, [Next]_vars
    PROVE  Kept
<1> USE DEF MemInv
<1>0. Recovered' = Recovered \/ Commit
  BY NextIInv
<1>1. ASSUME NEW m \in Messages, Call("push", m) PROVE Kept
  BY <1>0, <1>1, QuietKept DEF Call, memory, Handed, Commit
<1>2. ASSUME NEW c \in {"pop", "look"}, Call(c, NoMessage) PROVE Kept
  BY <1>0, <1>2, QuietKept DEF Call, memory, Handed, Commit
<1>3. CASE Entered
  BY <1>0, <1>3, QuietKept DEF Entered, memory, Handed, Commit, CallInv
<1>4. CASE Decline
  BY <1>0, <1>4, QuietKept DEF Decline, Leave, memory, Handed, Commit
<1>5. CASE StartPush
  <2>1. /\ phase = "test" /\ call = "push" /\ ~ isFull(message)
        /\ phase' = "copy" /\ call' = call /\ message' = message
        /\ ring' = ring /\ Recovered' = Recovered
    BY <1>0, <1>5 DEF StartPush, memory, Commit
  <2>2. message \in Messages /\ Recovered = ctrl
    BY <2>1, BlockIsRecovered DEF CallInv
  <2>3. Fitting(message)
    <3>1. /\ Top \in 0..RingSize /\ Bot \in 0..RingSize
          /\ InUse = 0 <=> Top = Bot
          /\ InUse = IF Top >= Bot THEN Top - Bot ELSE Top - Bot + RingSize
          /\ RecordSize(message) \in Nat /\ RingSize \in Nat
      BY <2>2, InUseRange, RecordSizes, ByteRingAssumption
    <3>2. /\ Top < Bot => ~ (Top + RecordSize(message) >= Bot)
          /\ Top > Bot => ~ (Top + RecordSize(message) >= Bot + RingSize)
      BY <2>1, <2>2, <3>1 DEF isFull, Top, Bot
    <3> HIDE DEF Top, Bot, InUse
    <3> QED BY <3>1, <3>2 DEF Fitting
  <2>4. /\ RingInv' /\ Contents' = Contents
        /\ Top' = Top /\ Bot' = Bot /\ InUse' = InUse
    BY <2>1, RingStays
  <2>5. CallInv'
    BY <2>1, <2>2, <2>3, <2>4 DEF CallInv, Fitting
  <2> QED BY <2>1, <2>5, QuietKept DEF Handed, CallInv
<1>6. CASE Copy
  <2>1. /\ phase = "copy" /\ phase' = "log" /\ call' = call /\ message' = message
        /\ ring' = Store(ring, message, ctrl.iTopIndex, Span(message, ctrl.iTopIndex))
        /\ Recovered' = Recovered
    BY <1>0, <1>6 DEF Copy, Commit
  <2>2. ctrl.iTopIndex = Top
    BY <2>1, BlockIsRecovered DEF Top
  <2>3. /\ RingInv' /\ Contents' = Contents
        /\ Top' = Top /\ Bot' = Bot /\ InUse' = InUse
    BY <2>1, <2>2, RingStored
  <2>4. message \in Messages /\ Fitting(message) /\ call = "push"
    BY <2>1 DEF CallInv
  <2>5. RecordAt(ring', Top, message)
    BY <2>1, <2>2, <2>4, StoreRecord, InUseRange, MemQueueAssumption
  <2>6. CallInv'
    BY <2>1, <2>3, <2>4, <2>5 DEF CallInv, Fitting
  <2> QED BY <2>1, <2>3, <2>4, <2>6, QuietStep DEF Kept, Handed
<1>7. CASE Read
  <2>1. /\ phase = "test" /\ call = "pop" /\ ~ isEmpty
        /\ phase' = "log" /\ call' = call /\ message' = MessageAt(ring, ctrl.iBotIndex)
        /\ ring' = ring /\ Recovered' = Recovered
    BY <1>0, <1>7 DEF Read, memory, Commit
  <2>2. Recovered = ctrl
    BY <2>1, BlockIsRecovered
  <2>3. InUse > 0 /\ InUse \in Nat /\ Top \in Int /\ Bot \in Int
    BY <2>1, <2>2, InUseRange, ByteRingAssumption DEF isEmpty, Top, Bot
  <2>4. PICK m \in Messages : RecordAt(ring, Top - InUse, m)
    <3>1. Top - InUse \in Int
      BY <2>3
    <3> QED BY <2>3, <3>1, FilledFirst DEF RingInv
  <2>5. RecordAt(ring, Bot, m)
    <3>1. \A k \in 0..(RecordSize(m) - 1) : Address(Top - InUse, k) = Address(Bot, k)
      BY RecordSizes, BotAddress
    <3> QED BY <2>4, <3>1 DEF RecordAt
  <2>6. message' = m
    BY <2>1, <2>2, <2>3, <2>5, ReadRecord DEF Bot
  <2>7. /\ RingInv' /\ Contents' = Contents
        /\ Top' = Top /\ Bot' = Bot /\ InUse' = InUse
    BY <2>1, RingStays
  <2>8. CallInv'
    BY <2>1, <2>3, <2>5, <2>6, <2>7 DEF CallInv
  <2> QED BY <2>1, <2>7, <2>8, QuietStep DEF Kept, Handed
<1>8. CASE MarkModified
  BY <1>0, <1>8, QuietKept DEF MarkModified, process, Handed, Commit, CallInv
<1>9. CASE WriteEntry
  BY <1>0, <1>9, QuietKept DEF WriteEntry, process, Handed, Commit, CallInv
<1>10. CASE Commit
  <2>1. /\ phase = "log" /\ phase' = "apply" /\ ring' = ring
        /\ call' = call /\ message' = message
    BY <1>10 DEF Commit
  <2>2. Recovered' = [f \in Fields |->
                  IF f = Updates[1].field THEN Updates[1].value
                  ELSE IF f = Updates[2].field THEN Updates[2].value
                  ELSE Recovered[f]]
    BY <1>10, CommitIInv
  <2>3. Recovered = ctrl
    BY <2>1, BlockIsRecovered
  <2>4. CallInv'
    BY <2>1 DEF CallInv
  <2>5. CASE call = "push"
    <3>1. Top' = After(Top, message) /\ Bot' = Bot
      BY <2>2, <2>3, <2>5 DEF Updates, Entry, Fields, Top, Bot
    <3>2. RingInv' /\ Contents' \in {Append(Contents, message), Contents}
      BY <2>1, <2>5, <3>1, PushCommitted
    <3>3. Handed' = Handed /\ Handed = NoMessage
      BY <2>1, <2>5 DEF Handed
    <3>4. CASE Contents' = Append(Contents, message)
      <4>1. Abstract!Push(message) /\ message \in Messages
        BY <2>1, <2>5, <3>3, <3>4 DEF Abstract!Push, Handed, CallInv
      <4> QED BY <1>10, <2>4, <3>2, <4>1 DEF Kept, FifoStep, Abstract!Next
    <3>5. CASE Contents' = Contents
      BY <1>10, <2>4, <3>2, <3>3, <3>5, QuietStep DEF Kept
    <3> QED BY <3>2, <3>4, <3>5
  <2>6. CASE call = "pop"
    <3>1. Bot' = After(Bot, message) /\ Top' = Top
      BY <2>2, <2>3, <2>6 DEF Updates, Entry, Fields, Top, Bot
    <3>2. /\ RingInv'
          /\ Contents # <<>> /\ Head(Contents) = message /\ Contents' = Tail(Contents)
      BY <2>1, <2>6, <3>1, PopCommitted
    <3>3. Handed = NoMessage /\ Handed' = message
      BY <2>1, <2>6 DEF Handed
    <3>4. Abstract!Take
      BY <3>2, <3>3 DEF Abstract!Take, Handed
    <3> QED BY <1>10, <2>4, <3>2, <3>4 DEF Kept, FifoStep, Abstract!Next
  <2> QED BY <2>1, <2>5, <2>6 DEF CallInv, MemType, Calls
<1>11. CASE Apply
  BY <1>0, <1>11, QuietKept DEF Apply, Handed, Commit, CallInv, InDoUpdate
<1>12. CASE ResetLog
  BY <1>0, <1>12, QuietKept DEF ResetLog, Handed, Commit, CallInv, InDoUpdate
<1>13. CASE ResetStatus
  BY <1>0, <1>13, QuietKept DEF ResetStatus, process, Handed, Commit, CallInv, InDoUpdate
<1>14. CASE Return
  BY <1>0, <1>14, QuietKept DEF Return, Leave, memory, Handed, Commit
<1>15. CASE Crash
  <2>1. /\ phase' = "idle" /\ call' = "look" /\ Recovered' = Recovered
        /\ Handed' = NoMessage
    BY <1>0, <1>15 DEF Crash, Leave, Commit, Handed
  <2>2. CASE phase # "copy"
    BY <1>15, <2>1, <2>2, QuietKept DEF Crash
  <2>3. CASE phase = "copy"
    <3>1. PICK written \in SUBSET Span(message, ctrl.iTopIndex) :
            ring' = Store(ring, message, ctrl.iTopIndex, written)
      BY <1>15, <2>3 DEF Crash
    <3>2. ctrl.iTopIndex = Top
      BY <2>3, BlockIsRecovered DEF Top
    <3>3. RingInv' /\ Contents' = Contents
      BY <2>1, <2>3, <3>1, <3>2, RingStored
    <3>4. CallInv'
      BY <2>1 DEF CallInv
    <3> QED BY <2>1, <3>3, <3>4, QuietStep DEF Kept
  <2> QED BY <2>2, <2>3
<1>16. CASE UNCHANGED vars
  <2>1. Recovered' = Recovered
    BY <1>16 DEF vars, memory, Recovered, Replayed
  <2> QED BY <1>16, <2>1, QuietKept DEF vars, memory, process, Handed, CallInv
<1> QED
  BY <1>1, <1>2, <1>3, <1>4, <1>5, <1>6, <1>7, <1>8, <1>9, <1>10, <1>11, <1>12, <1>13,
     <1>14, <1>15, <1>16 DEF Next

\* The invariant of the ring: whatever write a process is killed after, the bytes in use
\* are whole records, and a call that has begun to write to the log has stored the record
\* it pushes, or read the one it pops.
THEOREM RingIsSound == Spec => []MemInv
<1>1. MemInv /\ [Next]_vars => MemInv'
  BY NextIInv, NextMemType, NextKept DEF MemInv, Kept
<1> QED BY <1>1, InitMemInv, PTL DEF Spec

\* The control block, the log and the bytes have their types.
THEOREM TypeCorrectness == Spec => []TypeOK
<1>1. MemInv => TypeOK
  BY MemTypeIsTypeOK DEF MemInv
<1> QED BY <1>1, RingIsSound, PTL

\* TC_MemQueue is a first in, first out queue, for any ring, any messages and any number
\* of crashes: what is in it are whole messages, each push adds one behind the others,
\* each pop takes the oldest, and a process that is killed takes with it at most the one
\* that it was being handed (tc_mem_queue.h:24).
THEOREM MemQueueIsFifo == Spec => ImplementsFifo
<1>1. MemInv /\ [Next]_vars => [Abstract!Next]_(Abstract!vars)
  BY NextKept DEF Kept, FifoStep
<1>2. Init => Abstract!Init
  BY InitMemInv
<1> QED BY <1>1, <1>2, RingIsSound, PTL DEF Spec, ImplementsFifo, Abstract!Spec

-----------------------------------------------------------------------------
(* What the queue says of itself                                           *)

\* One step of the recursion of BytesOf, and the function it defines up to n.
BytesOn(s, f, n) == IF n = 0 THEN 0 ELSE RecordSize(s[Len(s) + 1 - n]) + f[n - 1]
Bytewise(s, n, f) == f = [k \in 0..n |-> BytesOn(s, f, k)]

\* There is one for every number.
LEMMA BytewiseExists ==
    ASSUME NEW s
    PROVE  \A n \in Nat : \E f : Bytewise(s, n, f)
<1> DEFINE S == {n \in Nat : \E f : Bytewise(s, n, f)}
<1>1. ASSUME NEW n \in Nat, \A k \in Nat : k < n => k \in S PROVE n \in S
  <2>1. CASE n = 0
    <3> DEFINE f == [k \in 0..0 |-> 0]
    <3>1. \A k \in 0..0 : BytesOn(s, f, k) = 0
      BY DEF BytesOn
    <3>2. Bytewise(s, 0, f)
      BY <3>1 DEF Bytewise
    <3> QED BY <2>1, <3>2
  <2>2. CASE n # 0
    <3>1. n - 1 \in Nat /\ n - 1 < n
      BY <2>2
    <3>2. PICK g : Bytewise(s, n - 1, g)
      BY <1>1, <3>1
    <3> DEFINE f == [k \in 0..n |-> IF k = n THEN BytesOn(s, g, n) ELSE g[k]]
    <3>3. ASSUME NEW k \in 0..n PROVE f[k] = BytesOn(s, f, k)
      <4>1. k # 0 => f[k - 1] = g[k - 1]
        BY <3>1
      <4>2. BytesOn(s, f, k) = BytesOn(s, g, k)
        <5> HIDE DEF f
        <5> QED BY <4>1 DEF BytesOn
      <4>3. CASE k = n
        BY <4>2, <4>3
      <4>4. CASE k # n
        <5>1. k \in 0..(n - 1)
          BY <4>4
        <5>2. g[k] = BytesOn(s, g, k)
          BY <3>2, <5>1 DEF Bytewise
        <5> QED BY <4>2, <4>4, <5>2
      <4> QED BY <4>3, <4>4
    <3>4. f = [k \in 0..n |-> f[k]]
      OBVIOUS
    <3> HIDE DEF f
    <3>5. Bytewise(s, n, f)
      BY <3>3, <3>4 DEF Bytewise
    <3> QED BY <3>5
  <2> QED BY <2>1, <2>2
<1> HIDE DEF S
<1>2. Nat \subseteq S
  BY <1>1, Induct
<1> QED BY <1>2 DEF S

\* BytesOf is the last value of that function.
LEMMA BytesOfBytewise ==
    ASSUME NEW s, Len(s) \in Nat
    PROVE  \E f : Bytewise(s, Len(s), f) /\ BytesOf(s) = f[Len(s)]
<1> DEFINE Last == CHOOSE f : Bytewise(s, Len(s), f)
<1>1. BytesOf(s) = Last[Len(s)]
  BY DEF BytesOf, Bytewise, BytesOn
<1>2. Bytewise(s, Len(s), Last)
  BY BytewiseExists
<1> QED BY <1>1, <1>2

\* No messages take no bytes.
LEMMA BytesOfNone == BytesOf(<<>>) = 0
<1> DEFINE s == <<>>
<1>1. Len(s) = 0
  OBVIOUS
<1> HIDE DEF s
<1>2. PICK f : Bytewise(s, Len(s), f) /\ BytesOf(s) = f[Len(s)]
  BY <1>1, BytesOfBytewise
<1>3. BytesOf(s) = 0
  BY <1>1, <1>2 DEF Bytewise, BytesOn
<1> QED BY <1>3 DEF s

\* One more message takes the bytes of its record.
LEMMA BytesOfMore ==
    ASSUME NEW m \in Messages, NEW s \in Seq(Messages)
    PROVE  BytesOf(<<m>> \o s) = RecordSize(m) + BytesOf(s)
<1> DEFINE t == <<m>> \o s
           size == Len(s)
<1>1. /\ size \in Nat /\ Len(t) = size + 1 /\ t[1] = m
      /\ \A i \in 1..size : t[i + 1] = s[i]
  OBVIOUS
<1> HIDE DEF t
<1>2. PICK f : Bytewise(t, Len(t), f) /\ BytesOf(t) = f[Len(t)]
  BY <1>1, BytesOfBytewise
<1>3. PICK g : Bytewise(s, Len(s), g) /\ BytesOf(s) = g[Len(s)]
  BY <1>1, BytesOfBytewise
<1> HIDE DEF size
<1> DEFINE S == {n \in Nat : n <= size => f[n] = g[n]}
<1>4. ASSUME NEW n \in Nat, \A k \in Nat : k < n => k \in S PROVE n \in S
  <2> SUFFICES ASSUME n <= size PROVE f[n] = g[n]
    OBVIOUS
  <2>1. n \in 0..Len(t) /\ n \in 0..Len(s)
    BY <1>1 DEF size
  <2>2. f[n] = BytesOn(t, f, n) /\ g[n] = BytesOn(s, g, n)
    BY <1>2, <1>3, <2>1 DEF Bytewise
  <2>3. CASE n = 0
    BY <2>2, <2>3 DEF BytesOn
  <2>4. CASE n # 0
    <3>1. f[n - 1] = g[n - 1]
      <4>1. n - 1 \in Nat /\ n - 1 < n /\ n - 1 <= size
        BY <1>1, <2>4
      <4> QED BY <1>4, <4>1
    <3>2. t[Len(t) + 1 - n] = s[Len(s) + 1 - n]
      <4>1. size + 1 - n \in 1..size
        BY <1>1, <2>4
      <4>2. Len(t) + 1 - n = (size + 1 - n) + 1 /\ Len(s) + 1 - n = size + 1 - n
        BY <1>1 DEF size
      <4> QED BY <1>1, <4>1, <4>2
    <3> QED BY <2>2, <2>4, <3>1, <3>2 DEF BytesOn
  <2> QED BY <2>3, <2>4
<1> HIDE DEF S
<1>5. Nat \subseteq S
  BY <1>4, Induct
<1>6. f[size] = g[size]
  BY <1>1, <1>5 DEF S
<1>7. f[Len(t)] = RecordSize(m) + f[size]
  <2>1. Len(t) \in 0..Len(t) /\ Len(t) # 0 /\ Len(t) + 1 - Len(t) = 1 /\ Len(t) - 1 = size
    BY <1>1
  <2>2. f[Len(t)] = BytesOn(t, f, Len(t))
    BY <1>2, <2>1 DEF Bytewise
  <2> QED BY <1>1, <2>1, <2>2 DEF BytesOn
<1>8. BytesOf(t) = RecordSize(m) + BytesOf(s)
  BY <1>2, <1>3, <1>6, <1>7 DEF size
<1> QED BY <1>8 DEF t

\* The records take the bytes in use, and each of them takes a word at least.
LEMMA RecordsBytes ==
    ASSUME NEW rg, NEW end \in Int
    PROVE  \A used \in Nat : Filled(rg, end - used, used) =>
             /\ BytesOf(Records(rg, end, used)) = used
             /\ WordSize * Len(Records(rg, end, used)) <= used
<1> DEFINE Good(used) == Filled(rg, end - used, used) =>
             /\ BytesOf(Records(rg, end, used)) = used
             /\ WordSize * Len(Records(rg, end, used)) <= used
           S == {used \in Nat : Good(used)}
<1>1. ASSUME NEW used \in Nat, \A k \in Nat : k < used => k \in S PROVE used \in S
  <2> SUFFICES ASSUME Filled(rg, end - used, used)
               PROVE  /\ BytesOf(Records(rg, end, used)) = used
                      /\ WordSize * Len(Records(rg, end, used)) <= used
    OBVIOUS
  <2>1. CASE used = 0
    <3>1. Records(rg, end, used) = <<>>
      BY <2>1, RecordsUnfold
    <3>2. WordSize * 0 = 0 /\ Len(<<>>) = 0
      BY ByteRingAssumption
    <3> QED BY <2>1, <3>1, <3>2, BytesOfNone
  <2>2. CASE used # 0
    <3>1. PICK m \in Messages :
             /\ RecordSize(m) <= used
             /\ Filled(rg, end - (used - RecordSize(m)), used - RecordSize(m))
             /\ Records(rg, end, used) = <<m>> \o Records(rg, end, used - RecordSize(m))
      BY <2>2, RecordsFirst
    <3> DEFINE less == used - RecordSize(m)
               rest == Records(rg, end, less)
    <3>2. /\ RecordSize(m) \in Nat \ {0} /\ RecordSize(m) >= WordSize /\ WordSize \in Nat
          /\ less \in Nat /\ less < used
      BY <3>1, RecordSizes, ByteRingAssumption
    <3>3. Filled(rg, end - less, less)
      BY <3>1
    <3> HIDE DEF less
    <3>4. rest \in Seq(Messages)
      BY <3>2, <3>3, RecordsType
    <3>5. BytesOf(rest) = less /\ WordSize * Len(rest) <= less
      BY <1>1, <3>2, <3>3
    <3>6. Records(rg, end, used) = <<m>> \o rest
      BY <3>1 DEF less
    <3> HIDE DEF rest
    <3>7. BytesOf(<<m>> \o rest) = RecordSize(m) + less
      BY <3>4, <3>5, BytesOfMore
    <3>8. RecordSize(m) + less = used
      BY <3>2 DEF less
    <3>9. WordSize * Len(<<m>> \o rest) = WordSize + WordSize * Len(rest)
      <4>1. Len(<<m>> \o rest) = 1 + Len(rest) /\ Len(rest) \in Nat
        BY <3>4
      <4>2. \A i, j \in Nat : i * (1 + j) = i + i * j
        OBVIOUS
      <4> QED BY <3>2, <4>1, <4>2
    <3>10. WordSize * Len(rest) \in Nat
      <4>1. Len(rest) \in Nat
        BY <3>4
      <4>2. \A i, j \in Nat : i * j \in Nat
        OBVIOUS
      <4> QED BY <3>2, <4>1, <4>2
    <3> QED BY <3>2, <3>5, <3>6, <3>7, <3>8, <3>9, <3>10
  <2> QED BY <2>1, <2>2
<1> HIDE DEF S
<1>2. Nat \subseteq S
  BY <1>1, Induct
<1> QED BY <1>2 DEF S

\* No record is as long as the ring, and the counts can tell how many there are in it.
SmallRecords ==
    /\ \A m \in Messages : RecordSize(m) < RingSize
    /\ RingSize < CountModulus * WordSize

\* The counts, as the next call finds them, differ by the number of messages in the queue.
CountInv ==
    LET pushes == Recovered.iPushCount
        pops == Recovered.iPopCount
    IN  Len(Contents) = IF pushes >= pops THEN pushes - pops
                        ELSE pushes - pops + CountModulus

\* So many messages as words fit in the ring are fewer than CountModulus.
LEMMA FewMessages ==
    ASSUME NEW n \in Nat, WordSize * n <= RingSize, SmallRecords
    PROVE  n < CountModulus
<1>1. /\ WordSize \in Nat \ {0} /\ CountModulus \in Nat /\ RingSize \in Nat
      /\ WordSize * n \in Nat /\ CountModulus * WordSize \in Nat
  <2>1. \A i, j \in Nat : i * j \in Nat
    OBVIOUS
  <2> QED BY <2>1, ByteRingAssumption, MemQueueAssumption
<1>2. WordSize * n < WordSize * CountModulus
  <2>1. CountModulus * WordSize = WordSize * CountModulus
    BY <1>1
  <2> QED BY <1>1, <2>1 DEF SmallRecords
<1>3. ASSUME n >= CountModulus PROVE WordSize * n >= WordSize * CountModulus
  <2>1. \A i, j, k \in Nat : j >= k => i * j >= i * k
    OBVIOUS
  <2> QED BY <1>1, <1>3, <2>1
<1>4. WordSize * CountModulus \in Nat
  BY <1>1
<1> QED BY <1>1, <1>2, <1>3, <1>4

\* What is known of the contents.
LEMMA ContentsBytes ==
    ASSUME MemInv
    PROVE  /\ Contents \in Seq(Messages)
           /\ Contents = <<>> <=> InUse = 0
           /\ BytesOf(Contents) = InUse
           /\ WordSize * Len(Contents) <= InUse
<1>1. Top \in Int /\ InUse \in Nat
  BY InUseRange, ByteRingAssumption DEF MemInv
<1>2. Filled(ring, Top - InUse, InUse)
  BY DEF MemInv, RingInv
<1>3. Contents = Records(ring, Top, InUse)
  BY DEF Contents, Top, InUse
<1> QED BY <1>1, <1>2, <1>3, RecordsType, RecordsBytes

\* The counts as numbers.
LEMMA CountsAreNumbers ==
    ASSUME MemInv
    PROVE  /\ CountModulus \in Nat \ {0}
           /\ Recovered.iPushCount \in 0..(CountModulus - 1)
           /\ Recovered.iPopCount \in 0..(CountModulus - 1)
BY RecoveredType, MemQueueAssumption DEF MemInv, Fits, Fields

\* A count goes on by one, and then around.
LEMMA CountGoesOn ==
    ASSUME NEW c \in 0..(CountModulus - 1)
    PROVE  (c + 1) % CountModulus = IF c + 1 = CountModulus THEN 0 ELSE c + 1
BY MemQueueAssumption, SMT

\* A push of one more message does not make them more than the counts can tell.
LEMMA RoomForCount ==
    ASSUME MemInv, SmallRecords, NEW m \in Messages, Fitting(m)
    PROVE  Len(Contents) + 1 < CountModulus
<1>1. /\ WordSize * Len(Contents) <= InUse /\ Len(Contents) \in Nat /\ InUse \in Nat
      /\ RecordSize(m) \in Nat /\ RecordSize(m) >= WordSize /\ RecordSize(m) < RingSize
      /\ WordSize \in Nat /\ RingSize \in Nat
  BY ContentsBytes, InUseRange, RecordSizes, ByteRingAssumption DEF SmallRecords, MemInv
<1>2. InUse + RecordSize(m) <= RingSize
  BY <1>1 DEF Fitting
<1>3. WordSize * (Len(Contents) + 1) = WordSize * Len(Contents) + WordSize
  <2>1. \A i, j \in Nat : i * (j + 1) = i * j + i
    OBVIOUS
  <2> QED BY <1>1, <2>1
<1>4. WordSize * Len(Contents) \in Nat
  <2>1. \A i, j \in Nat : i * j \in Nat
    OBVIOUS
  <2> QED BY <1>1, <2>1
<1> DEFINE n == Len(Contents) + 1
<1>5. n \in Nat /\ WordSize * n <= RingSize
  BY <1>1, <1>2, <1>3, <1>4
<1> HIDE DEF n
<1>6. n < CountModulus
  BY <1>5, FewMessages
<1> QED BY <1>6 DEF n

\* Each store that completes a log moves one count and the contents together.
LEMMA CommitCount ==
    ASSUME MemInv, SmallRecords, CountInv, Commit
    PROVE  CountInv'
<1> USE DEF MemInv
<1> DEFINE pushes == Recovered.iPushCount
           pops == Recovered.iPopCount
           many == Len(Contents)
<1>1. /\ phase = "log" /\ ring' = ring
      /\ Recovered' = [f \in Fields |->
             IF f = Updates[1].field THEN Updates[1].value
             ELSE IF f = Updates[2].field THEN Updates[2].value
             ELSE Recovered[f]]
      /\ Recovered = ctrl
  BY CommitIInv, BlockIsRecovered DEF Commit
<1>2. /\ CountModulus \in Nat \ {0}
      /\ pushes \in 0..(CountModulus - 1) /\ pops \in 0..(CountModulus - 1)
  BY CountsAreNumbers
<1>3. many = IF pushes >= pops THEN pushes - pops ELSE pushes - pops + CountModulus
  BY DEF CountInv
<1>4. Contents \in Seq(Messages) /\ many \in Nat
  BY ContentsBytes
<1>5. CASE call = "push"
  <2>1. /\ Top' = After(Top, message) /\ Bot' = Bot
        /\ Recovered'.iPushCount = (pushes + 1) % CountModulus
        /\ Recovered'.iPopCount = pops
    BY <1>1, <1>5 DEF Updates, Entry, Fields, Top, Bot
  <2>2. message \in Messages /\ Fitting(message)
    BY <1>1, <1>5 DEF CallInv
  <2>3. Contents' = Append(Contents, message)
    BY <1>1, <1>5, <2>1, <2>2, PushCommitted DEF SmallRecords
  <2>4. Len(Contents') = many + 1 /\ many + 1 < CountModulus
    BY <1>4, <2>2, <2>3, RoomForCount
  <2>5. Recovered'.iPushCount = IF pushes + 1 = CountModulus THEN 0 ELSE pushes + 1
    BY <1>2, <2>1, CountGoesOn
  <2> HIDE DEF pushes, pops, many
  <2> QED BY <1>2, <1>3, <2>1, <2>4, <2>5 DEF CountInv
<1>6. CASE call = "pop"
  <2>1. /\ Bot' = After(Bot, message) /\ Top' = Top
        /\ Recovered'.iPopCount = (pops + 1) % CountModulus
        /\ Recovered'.iPushCount = pushes
    BY <1>1, <1>6 DEF Updates, Entry, Fields, Top, Bot
  <2>2. Contents # <<>> /\ Contents' = Tail(Contents)
    BY <1>1, <1>6, <2>1, PopCommitted
  <2>3. Len(Contents') = many - 1 /\ many > 0
    BY <1>4, <2>2
  <2>4. Recovered'.iPopCount = IF pops + 1 = CountModulus THEN 0 ELSE pops + 1
    BY <1>2, <2>1, CountGoesOn
  <2> HIDE DEF pushes, pops, many
  <2> QED BY <1>2, <1>3, <2>1, <2>3, <2>4 DEF CountInv
<1> QED BY <1>1, <1>5, <1>6 DEF CallInv, MemType, Calls

\* The other steps leave both.
LEMMA NextCount ==
    ASSUME MemInv, SmallRecords, CountInv, [Next]_vars
    PROVE  CountInv'
<1>1. (Recovered' = Recovered /\ Contents' = Contents) \/ Commit
  <2>1. (Recovered' = Recovered \/ Commit) /\ (Contents' = Contents \/ Commit)
    BY NextIInv, NextKept DEF MemInv, Kept
  <2> QED BY <2>1
<1>2. CASE Recovered' = Recovered /\ Contents' = Contents
  BY <1>2 DEF CountInv
<1> QED BY <1>1, <1>2, CommitCount

\* A new queue has no messages and no counts.
LEMMA InitCount == Init => CountInv
<1> SUFFICES ASSUME Init PROVE CountInv
  OBVIOUS
<1>1. Recovered = [f \in Fields |-> 0]
  BY DEF Init, Recovered
<1>2. Contents = <<>>
  <2>1. Top = 0 /\ InUse = 0
    BY <1>1 DEF Top, InUse, Used, Fields
  <2>2. Contents = Records(ring, 0, 0)
    BY <2>1 DEF Contents, Top, InUse
  <2>3. Records(ring, 0, 0) = <<>>
    BY RecordsNone
  <2> QED BY <2>2, <2>3
<1> QED BY <1>1, <1>2 DEF CountInv, Fields

\* What a call finds follows from what the ring is.
LEMMA LooksFollow == MemInv /\ CountInv => LooksAreRight
<1> SUFFICES ASSUME MemInv, CountInv, phase = "test"
             PROVE  /\ isEmpty <=> Contents = <<>>
                    /\ call = "push" =>
                         (isFull(message) <=>
                            Contents # <<>> /\ BytesOf(Contents) + RecordSize(message) >= RingSize)
                    /\ elementCount = Len(Contents)
                                      - (IF ctrl.iPushCount < ctrl.iPopCount THEN 1 ELSE 0)
  BY DEF LooksAreRight
<1>1. Recovered = ctrl
  BY BlockIsRecovered DEF MemInv
<1>2. /\ Top \in 0..RingSize /\ Bot \in 0..RingSize /\ RingSize \in Nat
      /\ InUse = 0 <=> Top = Bot
      /\ InUse = IF Top >= Bot THEN Top - Bot ELSE Top - Bot + RingSize
      /\ ctrl.iTopIndex = Top /\ ctrl.iBotIndex = Bot
  BY <1>1, InUseRange, ByteRingAssumption DEF MemInv, Top, Bot
<1>3. (Contents = <<>> <=> InUse = 0) /\ BytesOf(Contents) = InUse
  BY ContentsBytes
<1>4. isEmpty <=> Contents = <<>>
  BY <1>2, <1>3 DEF isEmpty
<1>5. ASSUME call = "push"
      PROVE  isFull(message) <=> /\ Contents # <<>>
                                 /\ BytesOf(Contents) + RecordSize(message) >= RingSize
  <2> DEFINE size == RecordSize(message)
  <2>1. size \in Nat
    <3>1. message \in Messages
      BY <1>5 DEF MemInv, CallInv
    <3> QED BY <3>1, RecordSizes
  <2>2. CASE Top < Bot
    <3>1. isFull(message) <=> Top + size >= Bot
      BY <1>2, <2>2 DEF isFull
    <3>2. InUse = Top - Bot + RingSize /\ InUse # 0
      BY <1>2, <2>2
    <3> HIDE DEF size
    <3>3. Top + size >= Bot <=> InUse + size >= RingSize
      BY <1>2, <2>1, <2>2, <3>2
    <3> QED BY <1>3, <3>1, <3>2, <3>3 DEF size
  <2>3. CASE Top > Bot
    <3>1. isFull(message) <=> Top + size >= Bot + RingSize
      BY <1>2, <2>3 DEF isFull
    <3>2. InUse = Top - Bot /\ InUse # 0
      BY <1>2, <2>3
    <3> HIDE DEF size
    <3>3. Top + size >= Bot + RingSize <=> InUse + size >= RingSize
      BY <1>2, <2>1, <2>3, <3>2
    <3> QED BY <1>3, <3>1, <3>2, <3>3 DEF size
  <2>4. CASE Top = Bot
    <3>1. ~ isFull(message)
      BY <1>2, <2>4 DEF isFull
    <3> QED BY <1>2, <1>3, <2>4, <3>1
  <2> QED BY <1>2, <2>2, <2>3, <2>4
<1>6. elementCount = Len(Contents) - (IF ctrl.iPushCount < ctrl.iPopCount THEN 1 ELSE 0)
  <2> DEFINE pushes == ctrl.iPushCount
             pops == ctrl.iPopCount
             many == Len(Contents)
  <2>1. /\ pushes \in 0..(CountModulus - 1) /\ pops \in 0..(CountModulus - 1)
        /\ CountModulus \in Nat
    BY <1>1, CountsAreNumbers
  <2>2. many = IF pushes >= pops THEN pushes - pops ELSE pushes - pops + CountModulus
    BY <1>1 DEF CountInv
  <2>3. elementCount = IF pushes >= pops THEN pushes - pops
                       ELSE CountModulus - 1 - pops + pushes
    BY DEF elementCount
  <2> HIDE DEF pushes, pops, many
  <2>4. elementCount = many - (IF pushes < pops THEN 1 ELSE 0)
    BY <2>1, <2>2, <2>3
  <2> QED BY <2>4 DEF pushes, pops, many
<1> QED BY <1>4, <1>5, <1>6

\* isEmpty, isFull and elementCount say what is in the ring, in every call that gets as far
\* as to look and whatever crashes there were before: if no record is as long as the ring,
\* since an empty queue takes a message of any length, and if there are more numbers than
\* messages that fit, as 2^64 are.
THEOREM QueueKnowsItself == SmallRecords => (Spec => []LooksAreRight)
<1> SUFFICES ASSUME SmallRecords PROVE Spec => []LooksAreRight
  OBVIOUS
<1>1. (MemInv /\ CountInv) /\ [Next]_vars => CountInv'
  BY NextCount
<1>2. MemInv /\ CountInv => LooksAreRight
  BY LooksFollow
<1> QED BY <1>1, <1>2, InitCount, RingIsSound, PTL DEF Spec

-----------------------------------------------------------------------------
(* SQueue                                                                  *)

\* SQueue's ring of bytes is the same as that of MemQueue.
LEMMA SameRing ==
    /\ Q!Cells = Cells /\ Q!Bytes = Bytes
    /\ \A m : Q!RecordSize(m) = RecordSize(m)
    /\ \A p, k : Q!Address(p, k) = Address(p, k)
    /\ \A rg, p : Q!MessageAt(rg, p) = MessageAt(rg, p)
<1>1. \A m : Q!RecordSize(m) = RecordSize(m)
  BY DEF Q!RecordSize, RecordSize
<1>2. \A p, k : Q!Address(p, k) = Address(p, k)
  BY DEF Q!Address, Address
<1>3. Q!Cells = Cells /\ Q!Bytes = Bytes
  BY <1>1 DEF Q!Cells, Cells, Q!Bytes, Bytes, Q!Blank, Blank
<1>4. \A rg, p : Q!MessageAt(rg, p) = MessageAt(rg, p)
  BY <1>1, <1>2 DEF Q!MessageAt, MessageAt
<1> QED BY <1>1, <1>2, <1>3, <1>4

\* A record, or a part of it, is stored in the same way.
LEMMA SameStore ==
    ASSUME NEW rg, NEW m, NEW p
    PROVE  /\ Q!Span(m, p) = Span(m, p)
           /\ \A written : Q!Store(rg, m, p, written) = Store(rg, m, p, written)
<1>1. Q!Span(m, p) = Span(m, p)
  BY SameRing DEF Q!Span, Span
<1>2. \A written : Q!Store(rg, m, p, written) = Store(rg, m, p, written)
  BY SameRing DEF Q!Store, Store
<1> QED BY <1>1, <1>2

\* And the messages are those of the records in it.
LEMMA SameRecords ==
    ASSUME NEW rg, NEW end, NEW used
    PROVE  Q!Records(rg, end, used) = Records(rg, end, used)
BY DEF Q!Records, Records, Q!MessageAt, MessageAt, Q!RecordSize, RecordSize,
       Q!Address, Address

-----------------------------------------------------------------------------
(* Places around the ring                                                  *)

\* How many bytes there are from one place to another.
Between(from, to) == (to - from) % RingSize

\* Between is a difference, once around the ring if need be.
LEMMA BetweenIs ==
    ASSUME NEW a \in Cells, NEW b \in Cells
    PROVE  /\ Between(a, b) = IF b >= a THEN b - a ELSE b - a + RingSize
           /\ Between(a, b) \in 0..(RingSize - 1)
<1>1. /\ a \in 0..(RingSize - 1) /\ b \in 0..(RingSize - 1) /\ RingSize \in Nat \ {0}
      /\ b - a \in Int
  BY ByteRingAssumption DEF Cells
<1>2. /\ b - a >= 0 => b - a \in 0..(RingSize - 1)
      /\ b - a < 0 => b - a >= -RingSize
  BY <1>1
<1>3. /\ b - a >= 0 => Between(a, b) = b - a
      /\ b - a < 0 => Between(a, b) = b - a + RingSize
  BY <1>1, <1>2, ModSmall DEF Between
<1> QED BY <1>1, <1>2, <1>3

\* The address of a byte is a sum, once around the ring if need be.
LEMMA AddressIs ==
    ASSUME NEW a \in Cells, NEW k \in 0..RingSize
    PROVE  /\ Address(a, k) = IF a + k < RingSize THEN a + k ELSE a + k - RingSize
           /\ Address(a, k) \in Cells
<1>1. a \in 0..(RingSize - 1) /\ RingSize \in Nat \ {0} /\ k \in Int /\ a + k \in Int
  BY ByteRingAssumption DEF Cells
<1>2. /\ a + k < RingSize => a + k \in 0..(RingSize - 1)
      /\ ~ (a + k < RingSize) => a + k >= RingSize /\ a + k < 2 * RingSize
  BY <1>1
<1>3. Address(a, k) = IF a + k < RingSize THEN a + k ELSE a + k - RingSize
  BY <1>1, <1>2, ModSmall DEF Address
<1> QED BY <1>1, <1>3, AddressCell

\* The byte at the other end.
LEMMA AddressBetween ==
    ASSUME NEW a \in Cells, NEW b \in Cells
    PROVE  Address(a, Between(a, b)) = b
<1>1. Between(a, b) \in 0..RingSize
  BY BetweenIs, ByteRingAssumption
<1> DEFINE d == Between(a, b)
<1>2. Address(a, d) = IF a + d < RingSize THEN a + d ELSE a + d - RingSize
  BY <1>1, AddressIs
<1>3. d = IF b >= a THEN b - a ELSE b - a + RingSize
  BY BetweenIs
<1>4. a \in 0..(RingSize - 1) /\ b \in 0..(RingSize - 1) /\ RingSize \in Nat
  BY ByteRingAssumption DEF Cells
<1> HIDE DEF d
<1>5. Address(a, d) = b
  BY <1>2, <1>3, <1>4
<1> QED BY <1>5 DEF d

-----------------------------------------------------------------------------
(* The invariant                                                           *)

QUsed == Between(iBegin, iEnd)  \* the bytes in use
QSeen == Between(oldBegin, iEnd)    \* those push takes for the bytes in use
QAhead == Between(iBegin, oldEnd)   \* those pop takes for the bytes in use

QType ==
    /\ {iBegin, iEnd, oldBegin, oldEnd} \subseteq Cells
    /\ {iNum, pushNum, popNum} \subseteq 0..MaxNum
    /\ sring \in [Cells -> Bytes]
    /\ writer \in {"idle", "test", "copy", "publish", "count", "increase"}
    /\ reader \in {"idle", "pop", "advance", "count", "decrease", "size"}
    /\ pushed \in Messages \cup {NoMessage}
    /\ popped \in Messages \cup {NoMessage}

\* The bytes in use are whole records, and leave the reserve free.
QRing ==
    /\ Filled(sring, iEnd - QUsed, QUsed)
    /\ QUsed = 0 \/ QUsed + ReserveLen <= RingSize

\* The writer takes no bytes for free that are not: pop has gone on since it read iBegin,
\* but not beyond iEnd.
QWriter ==
    /\ writer # "idle" => pushed \in Messages
    /\ writer \in {"test", "copy", "publish"} =>
         /\ QUsed <= QSeen
         /\ QSeen = 0 \/ (WordSize < QSeen /\ QSeen + ReserveLen <= RingSize)
    /\ writer \in {"copy", "publish"} =>
         QSeen + RecordSize(pushed) + ReserveLen <= RingSize
    /\ writer = "publish" => RecordAt(sring, iEnd, pushed)

\* The reader takes no bytes for a record that are not: push has gone on since it read
\* iEnd, and a record ended there.
QReader ==
    /\ reader \in {"pop", "advance"} =>
         QAhead <= QUsed /\ (QAhead < QUsed => sring[oldEnd][2] = 0)
    /\ reader = "advance" =>
         iBegin # oldEnd /\ popped \in Messages /\ RecordAt(sring, iBegin, popped)

QInv == QType /\ QRing /\ QWriter /\ QReader

\* The types are those of SQueue.
LEMMA QTypeIsTypeOK == Q!TypeOK <=> QType
BY SameRing DEF Q!TypeOK, QType

\* What is known of the constants.
LEMMA QConstants ==
    /\ RingSize \in Nat \ {0} /\ WordSize \in Nat \ {0} /\ ReserveLen \in Nat \ {0}
    /\ MaxNum \in Nat
    /\ \A m \in Messages : RecordSize(m) \in Nat /\ RecordSize(m) > WordSize
<1>1. \A m \in Messages : Length[m] \in Nat /\ Length[m] > 0
  BY ByteRingAssumption, QAssumption DEF Q!SQueueAssumption
<1> QED BY <1>1, ByteRingAssumption, QAssumption DEF Q!SQueueAssumption, RecordSize

\* The indices as numbers.
LEMMA QIndices ==
    ASSUME QType
    PROVE  /\ iBegin \in 0..(RingSize - 1) /\ iEnd \in 0..(RingSize - 1)
           /\ oldBegin \in 0..(RingSize - 1) /\ oldEnd \in 0..(RingSize - 1)
           /\ QUsed = IF iEnd >= iBegin THEN iEnd - iBegin ELSE iEnd - iBegin + RingSize
           /\ QSeen = IF iEnd >= oldBegin THEN iEnd - oldBegin
                      ELSE iEnd - oldBegin + RingSize
           /\ QAhead = IF oldEnd >= iBegin THEN oldEnd - iBegin
                       ELSE oldEnd - iBegin + RingSize
           /\ QUsed \in 0..(RingSize - 1) /\ QSeen \in 0..(RingSize - 1)
           /\ QAhead \in 0..(RingSize - 1)
BY BetweenIs DEF QType, QUsed, QSeen, QAhead, Cells

\* The first of the bytes in use is at iBegin.
LEMMA QFirst ==
    ASSUME QType
    PROVE  \A k \in Int : Address(iEnd - QUsed, k) = Address(iBegin, k)
<1>1. /\ iBegin \in Int /\ iEnd - QUsed \in Int
      /\ iEnd - QUsed = iBegin \/ (iEnd - QUsed) + RingSize = iBegin
  BY QIndices, ByteRingAssumption
<1>2. (iEnd - QUsed) % RingSize = iBegin % RingSize
  BY <1>1, ModRound
<1> QED BY <1>1, <1>2, AddressSame

\* While there are bytes in use the oldest record is at iBegin, and no place before its
\* end is the beginning of another.
LEMMA QOldest ==
    ASSUME QType, QRing, QUsed # 0
    PROVE  \E m \in Messages :
             /\ RecordSize(m) <= QUsed
             /\ RecordAt(sring, iBegin, m)
             /\ MessageAt(sring, iBegin) = m
             /\ Filled(sring, iEnd - (QUsed - RecordSize(m)), QUsed - RecordSize(m))
             /\ Records(sring, iEnd, QUsed)
                  = <<m>> \o Records(sring, iEnd, QUsed - RecordSize(m))
<1>1. iEnd \in Int /\ QUsed \in Nat \ {0} /\ iBegin \in Int
  BY QIndices, QConstants
<1>2. PICK m \in Messages :
             /\ RecordSize(m) <= QUsed
             /\ RecordAt(sring, iEnd - QUsed, m)
             /\ Filled(sring, iEnd - (QUsed - RecordSize(m)), QUsed - RecordSize(m))
             /\ Records(sring, iEnd, QUsed)
                  = <<m>> \o Records(sring, iEnd, QUsed - RecordSize(m))
  BY <1>1, RecordsFirst DEF QRing
<1>3. RecordAt(sring, iBegin, m)
  <2>1. \A k \in 0..(RecordSize(m) - 1) : Address(iEnd - QUsed, k) = Address(iBegin, k)
    BY QFirst, QConstants
  <2> QED BY <1>2, <2>1 DEF RecordAt
<1> QED BY <1>1, <1>2, <1>3, ReadRecord

\* Up to the end that pop has read there are whole records.
LEMMA QWhole ==
    ASSUME QType, QReader, reader \in {"pop", "advance"}, iBegin # oldEnd,
           NEW m \in Messages, RecordAt(sring, iBegin, m), RecordSize(m) <= QUsed
    PROVE  RecordSize(m) <= QAhead /\ QAhead # 0
<1>1. QAhead # 0 /\ QAhead \in Nat /\ QUsed \in Nat /\ RecordSize(m) \in Nat
  BY QIndices, QConstants
<1>2. QAhead <= QUsed /\ (QAhead < QUsed => sring[oldEnd][2] = 0)
  BY DEF QReader
<1>3. ASSUME QAhead < RecordSize(m) PROVE FALSE
  <2>1. QAhead \in 0..(RecordSize(m) - 1) /\ QAhead < QUsed
    BY <1>1, <1>3
  <2>2. sring[Address(iBegin, QAhead)] = <<m, QAhead>>
    BY <2>1 DEF RecordAt
  <2>3. Address(iBegin, QAhead) = oldEnd
    BY AddressBetween DEF QType, QAhead
  <2> QED BY <1>1, <1>2, <2>1, <2>2, <2>3
<1> QED BY <1>1, <1>3

-----------------------------------------------------------------------------
(* Frames                                                                  *)

QContents == Records(sring, iEnd, QUsed)
QTaken == IF reader \in {"count", "decrease"} THEN popped ELSE NoMessage

\* A step of the first in, first out queue, or none.
QFifoStep == [Q!Abstract!Next]_(Q!Abstract!vars)

QKept == QRing' /\ QWriter' /\ QReader' /\ QFifoStep

\* The contents are the records in the bytes in use.
LEMMA QContentsIs ==
    /\ Q!Contents = QContents
    /\ Q!Contents' = QContents'
<1>1. Q!Contents = QContents
  BY SameRecords DEF Q!Contents, QContents, QUsed, Between
<1>2. Q!Contents' = QContents'
  BY SameRecords DEF Q!Contents, QContents, QUsed, Between
<1> QED BY <1>1, <1>2

\* A step that leaves the contents as they are, and the message that pop has taken too,
\* unless pop returns it or its process is killed.
LEMMA QQuietStep ==
    ASSUME QContents' = QContents, QTaken' = QTaken \/ QTaken' = NoMessage
    PROVE  QFifoStep
<1>1. Q!Contents' = Q!Contents
  BY QContentsIs
<1>2. CASE QTaken' = QTaken
  BY <1>1, <1>2 DEF QFifoStep, Q!Abstract!vars, QTaken
<1>3. CASE QTaken' # QTaken
  <2>1. QTaken # NoMessage /\ QTaken' = NoMessage
    BY <1>3
  <2>2. Q!Abstract!HandOver
    BY <1>1, <2>1 DEF Q!Abstract!HandOver, QTaken
  <2> QED BY <2>2 DEF QFifoStep, Q!Abstract!Next
<1> QED BY <1>2, <1>3

\* While neither index nor any byte changes, the ring and the contents are the same.
LEMMA QSameRing ==
    ASSUME UNCHANGED <<iBegin, iEnd, sring>>
    PROVE  /\ QUsed' = QUsed
           /\ QContents' = QContents
           /\ QRing => QRing'
<1>1. QUsed' = QUsed
  BY DEF QUsed, Between
<1> QED BY <1>1 DEF QContents, QRing

\* What the reader knows is not disturbed by a step that leaves its own state and the
\* ring.
LEMMA QReaderFrame ==
    ASSUME QReader, UNCHANGED <<iBegin, iEnd, sring, reader, popped, oldEnd>>
    PROVE  QReader'
<1>1. QUsed' = QUsed /\ QAhead' = QAhead
  BY DEF QUsed, QAhead, Between
<1> QED BY <1>1 DEF QReader

\* Nor is what the writer knows.
LEMMA QWriterFrame ==
    ASSUME QWriter, UNCHANGED <<iBegin, iEnd, sring, writer, pushed, oldBegin>>
    PROVE  QWriter'
<1>1. QUsed' = QUsed /\ QSeen' = QSeen
  BY DEF QUsed, QSeen, Between
<1> QED BY <1>1 DEF QWriter

-----------------------------------------------------------------------------
(* What the steps of the writer do                                         *)

\* A new queue.
LEMMA QInit == Q!Init => QInv /\ Q!Abstract!Init
<1> SUFFICES ASSUME Q!Init PROVE QInv /\ Q!Abstract!Init
  OBVIOUS
<1>1. 0 \in Cells /\ 0 \in 0..MaxNum
  BY QConstants DEF Cells
<1>2. sring \in [Cells -> Bytes]
  BY SameRing DEF Q!Init, Q!Blank, Blank, Bytes
<1>3. QType
  BY <1>1, <1>2 DEF Q!Init, QType
<1>4. QUsed = 0
  BY <1>3, QIndices DEF Q!Init
<1>5. QRing
  BY <1>4 DEF QRing, Filled
<1>6. QWriter /\ QReader
  BY DEF Q!Init, QWriter, QReader
<1>7. QContents = <<>>
  BY <1>3, <1>4, QIndices, RecordsNone DEF QContents
<1>8. Q!Abstract!Init
  BY <1>7, QContentsIs DEF Q!Init, Q!Abstract!Init
<1> QED BY <1>3, <1>5, <1>6, <1>8 DEF QInv

\* A step of the writer that leaves the indices and the bytes.
LEMMA QuietWriter ==
    ASSUME QInv, UNCHANGED <<iBegin, iEnd, sring, reader, popped, oldEnd>>, QWriter'
    PROVE  QKept
<1>1. QRing' /\ QContents' = QContents
  BY QSameRing DEF QInv
<1>2. QReader'
  BY QReaderFrame DEF QInv
<1>3. QFifoStep
  BY <1>1, QQuietStep DEF QTaken
<1> QED BY <1>1, <1>2, <1>3 DEF QKept

\* push begins with what is in use.
LEMMA CallPushKept ==
    ASSUME QInv, NEW m \in Messages, Q!CallPush(m)
    PROVE  QKept
<1>1. /\ UNCHANGED <<iBegin, iEnd, sring, reader, popped, oldEnd>>
      /\ writer' = "test" /\ pushed' = m /\ oldBegin' = iBegin
  BY DEF Q!CallPush, Q!header, Q!reading
<1>2. QUsed' = QUsed /\ QSeen' = QUsed
  BY <1>1 DEF QUsed, QSeen, Between
<1>3. QUsed = 0 \/ (WordSize < QUsed /\ QUsed + ReserveLen <= RingSize)
  <2>1. CASE QUsed # 0
    <3>1. PICK n \in Messages : RecordSize(n) <= QUsed
      BY <2>1, QOldest DEF QInv
    <3>2. RecordSize(n) \in Nat /\ RecordSize(n) > WordSize /\ WordSize \in Nat
      BY QConstants
    <3>3. QUsed \in Int
      BY QIndices DEF QInv
    <3> QED BY <2>1, <3>1, <3>2, <3>3 DEF QInv, QRing
  <2> QED BY <2>1
<1>4. QUsed <= QUsed
  BY QIndices, QConstants DEF QInv
<1>5. QWriter'
  BY <1>1, <1>2, <1>3, <1>4 DEF QWriter
<1> QED BY <1>1, <1>5, QuietWriter

\* push goes on only when the record and the reserve fit beside the bytes it takes for
\* those in use.
LEMMA TestRoomKept ==
    ASSUME QInv, Q!TestRoom
    PROVE  QKept
<1>1. /\ UNCHANGED <<iBegin, iEnd, sring, reader, popped, oldEnd>>
      /\ writer = "test"
  BY DEF Q!TestRoom, Q!reading
<1>2. CASE RecordSize(pushed) + ReserveLen > Q!Free
  <2>1. writer' = "idle"
    BY <1>2, SameRing DEF Q!TestRoom, Q!WriterLeaves
  <2>2. QWriter'
    BY <2>1 DEF QWriter
  <2> QED BY <1>1, <2>2, QuietWriter
<1>3. CASE ~ (RecordSize(pushed) + ReserveLen > Q!Free)
  <2>1. writer' = "copy" /\ UNCHANGED <<pushed, oldBegin>>
    BY <1>3, SameRing DEF Q!TestRoom
  <2>2. QUsed' = QUsed /\ QSeen' = QSeen
    BY <1>1, <2>1 DEF QUsed, QSeen, Between
  <2>3. Q!Free = RingSize - QSeen
    BY QIndices, QConstants DEF Q!Free, QInv
  <2>4. /\ RecordSize(pushed) \in Nat /\ ReserveLen \in Nat /\ RingSize \in Nat
        /\ QSeen \in Nat
    BY <1>1, QConstants, QIndices DEF QInv, QWriter
  <2>5. QSeen + RecordSize(pushed) + ReserveLen <= RingSize
    BY <1>3, <2>3, <2>4
  <2>6. QWriter'
    BY <1>1, <2>1, <2>2, <2>5 DEF QInv, QWriter
  <2> QED BY <1>1, <2>6, QuietWriter
<1> QED BY <1>2, <1>3

\* Whatever part of the record has been stored, the bytes in use are as they were.
LEMMA StoreKept ==
    ASSUME QInv, writer = "copy", NEW written \in SUBSET Span(pushed, iEnd),
           sring' = Store(sring, pushed, iEnd, written), UNCHANGED <<iBegin, iEnd>>,
           UNCHANGED <<reader, popped, oldEnd>>
    PROVE  QRing' /\ QReader' /\ QFifoStep /\ QUsed' = QUsed
<1> DEFINE rg == Store(sring, pushed, iEnd, written)
           first == iEnd - QUsed
<1>1. /\ iEnd \in Int /\ iBegin \in Int /\ QUsed \in Nat /\ QSeen \in Nat /\ QAhead \in Nat
      /\ RingSize \in Nat /\ ReserveLen \in Nat
  BY QIndices, QConstants DEF QInv
<1>2. first \in Int /\ first + QUsed = iEnd
  BY <1>1
<1>3. pushed \in Messages /\ RecordSize(pushed) \in Nat
  BY QConstants DEF QInv, QWriter
<1>4. QUsed + RecordSize(pushed) <= RingSize
  BY <1>1, <1>3 DEF QInv, QWriter
<1>5. SameBytes(sring, first, rg, first, QUsed)
  BY <1>1, <1>2, <1>3, <1>4, StoreOthers DEF QInv, QType
<1>6. Filled(rg, first, QUsed)
  BY <1>1, <1>5, FilledSame DEF QInv, QRing
<1>7. Records(rg, iEnd, QUsed) = Records(sring, iEnd, QUsed)
  BY <1>1, <1>5, RecordsSame DEF QInv, QRing
<1>8. \A k \in 0..(QUsed - 1) : rg[Address(iBegin, k)] = sring[Address(iBegin, k)]
  <2>1. \A k \in 0..(QUsed - 1) : Address(first, k) = Address(iBegin, k)
    BY <1>1, QFirst DEF QInv
  <2> QED BY <1>5, <2>1 DEF SameBytes
<1>9. QUsed' = QUsed /\ QAhead' = QAhead
  BY DEF QUsed, QAhead, Between
<1>10. QRing'
  BY <1>6, <1>9 DEF QInv, QRing
<1>11. QFifoStep
  <2>1. QContents' = QContents
    BY <1>7, <1>9 DEF QContents
  <2> QED BY <2>1, QQuietStep DEF QTaken
<1>12. QReader'
  <2>1. ASSUME QAhead < QUsed, sring[oldEnd][2] = 0 PROVE rg[oldEnd][2] = 0
    <3>1. Address(iBegin, QAhead) = oldEnd
      BY AddressBetween DEF QInv, QType, QAhead
    <3>2. QAhead \in 0..(QUsed - 1)
      BY <1>1, <2>1
    <3> QED BY <1>8, <2>1, <3>1, <3>2
  <2>2. ASSUME reader = "advance" PROVE RecordAt(rg, iBegin, popped)
    <3>1. /\ iBegin # oldEnd /\ popped \in Messages /\ RecordAt(sring, iBegin, popped)
          /\ QAhead <= QUsed
      BY <2>2 DEF QInv, QReader
    <3>2. QUsed # 0
      <4>1. QAhead # 0
        BY <3>1, QIndices, QConstants DEF QInv
      <4> QED BY <1>1, <3>1, <4>1
    <3>3. PICK m \in Messages : RecordSize(m) <= QUsed /\ MessageAt(sring, iBegin) = m
      BY <3>2, QOldest DEF QInv
    <3>4. m = popped
      BY <1>1, <3>1, <3>3, ReadRecord
    <3>5. \A k \in 0..(RecordSize(popped) - 1) : k \in 0..(QUsed - 1)
      BY <1>1, <3>3, <3>4, QConstants
    <3> QED BY <1>8, <3>1, <3>5 DEF RecordAt
  <2> QED BY <1>9, <2>1, <2>2 DEF QInv, QReader
<1> QED BY <1>9, <1>10, <1>11, <1>12

\* Copy leaves the whole record behind the bytes in use.
LEMMA CopyKept ==
    ASSUME QInv, Q!Copy
    PROVE  QKept
<1>1. /\ writer = "copy" /\ writer' = "publish"
      /\ UNCHANGED <<iBegin, iEnd>> /\ UNCHANGED <<reader, popped, oldEnd>>
      /\ UNCHANGED <<pushed, oldBegin>>
      /\ sring' = Store(sring, pushed, iEnd, Span(pushed, iEnd))
  BY SameStore DEF Q!Copy, Q!header, Q!reading
<1>2. QRing' /\ QReader' /\ QFifoStep /\ QUsed' = QUsed
  BY <1>1, StoreKept
<1>3. QSeen' = QSeen
  BY <1>1 DEF QSeen, Between
<1>4. /\ pushed \in Messages /\ RecordSize(pushed) \in Nat /\ RecordSize(pushed) <= RingSize
      /\ iEnd \in Int
  BY <1>1, QConstants, QIndices DEF QInv, QWriter
<1>5. RecordAt(sring', iEnd, pushed)
  BY <1>1, <1>4, StoreRecord
<1>6. QWriter'
  BY <1>1, <1>2, <1>3, <1>5 DEF QInv, QWriter
<1> QED BY <1>2, <1>6 DEF QKept

\* A writer that is killed leaves part of a record behind the bytes in use, at most.
LEMMA WriterDiesKept ==
    ASSUME QInv, Q!WriterDies
    PROVE  QKept
<1>1. /\ writer' = "idle"
      /\ UNCHANGED <<iBegin, iEnd>> /\ UNCHANGED <<reader, popped, oldEnd>>
  BY DEF Q!WriterDies, Q!WriterLeaves, Q!header, Q!reading
<1>2. QWriter'
  BY <1>1 DEF QWriter
<1>3. CASE writer = "copy"
  <2>1. PICK written \in SUBSET Span(pushed, iEnd) :
          sring' = Store(sring, pushed, iEnd, written)
    BY <1>3, SameStore DEF Q!WriterDies
  <2>2. QRing' /\ QReader' /\ QFifoStep
    BY <1>1, <1>3, <2>1, StoreKept
  <2> QED BY <1>2, <2>2 DEF QKept
<1>4. CASE writer # "copy"
  <2>1. sring' = sring
    BY <1>4 DEF Q!WriterDies
  <2> QED BY <1>1, <1>2, <2>1, QuietWriter
<1> QED BY <1>3, <1>4

\* Publish adds the record to the bytes in use, and its message to the contents.
LEMMA PublishKept ==
    ASSUME QInv, Q!Publish
    PROVE  QKept
<1> DEFINE size == RecordSize(pushed)
           used == QUsed
           ahead == QAhead
           first == iEnd - used
<1>1. /\ writer = "publish" /\ writer' = "count" /\ iEnd' = Address(iEnd, size)
      /\ UNCHANGED <<iBegin, sring, reader, popped, oldEnd, pushed>>
  BY SameRing DEF Q!Publish, Q!reading
<1>2. /\ iEnd \in Int /\ used \in Nat /\ QSeen \in Nat /\ ahead \in Nat
      /\ RingSize \in Nat /\ ReserveLen \in Nat \ {0}
  BY QIndices, QConstants DEF QInv
<1>3. pushed \in Messages /\ size \in Nat \ {0} /\ RecordAt(sring, iEnd, pushed)
  BY <1>1, QConstants, RecordSizes DEF QInv, QWriter
<1>4. used + size + ReserveLen <= RingSize
  BY <1>1, <1>2, <1>3 DEF QInv, QWriter
<1>5. first \in Int /\ first + used = iEnd
  BY <1>2
<1>6. Filled(sring, first, used)
  BY DEF QInv, QRing
<1>7. QUsed' = used + size
  <2> HIDE DEF size
  <2>1. size \in 0..RingSize
    BY <1>2, <1>3, <1>4
  <2>2. /\ iEnd' = IF iEnd + size < RingSize THEN iEnd + size ELSE iEnd + size - RingSize
        /\ iEnd' \in Cells
    BY <1>1, <2>1, AddressIs DEF QInv, QType
  <2>3. QUsed' = IF iEnd' >= iBegin THEN iEnd' - iBegin ELSE iEnd' - iBegin + RingSize
    BY <1>1, <2>2, BetweenIs DEF QUsed, QInv, QType
  <2>4. /\ used = IF iEnd >= iBegin THEN iEnd - iBegin ELSE iEnd - iBegin + RingSize
        /\ iBegin \in 0..(RingSize - 1) /\ iEnd \in 0..(RingSize - 1)
    BY QIndices DEF QInv
  <2> HIDE DEF used
  <2> QED BY <1>2, <1>3, <1>4, <2>2, <2>3, <2>4
<1>8. Filled(sring, first, used + size)
  BY <1>2, <1>3, <1>5, <1>6, FilledAppend
<1>9. Records(sring, iEnd + size, used + size) = Append(Records(sring, iEnd, used), pushed)
  BY <1>2, <1>3, <1>6, RecordsAppend
<1>10. /\ Filled(sring, iEnd' - (used + size), used + size)
       /\ Records(sring, iEnd', used + size) = Records(sring, iEnd + size, used + size)
  <2> DEFINE end == iEnd + size
             total == used + size
             last == iEnd'
  <2>1. end \in Int /\ total \in Nat /\ end - total = first
    BY <1>2, <1>3
  <2>2. last \in Cells /\ last = end % RingSize
    BY <1>1, <1>2, <1>3, AddressCell DEF Address
  <2>3. last \in 0..(RingSize - 1) /\ last \in Int
    BY <2>2, QConstants DEF Cells
  <2>4. last % RingSize = last
    BY <2>3, ModSmall
  <2>5. Filled(sring, end - total, total)
    BY <1>8, <2>1
  <2> HIDE DEF end, total, last
  <2>6. /\ Filled(sring, last - total, total)
        /\ Records(sring, last, total) = Records(sring, end, total)
    BY <2>1, <2>2, <2>3, <2>4, <2>5, RecordsAround
  <2> QED BY <2>6 DEF end, total, last
<1>11. QRing'
  <2>1. used + size + ReserveLen <= RingSize /\ used + size \in Nat
    BY <1>2, <1>3, <1>4
  <2> QED BY <1>1, <1>4, <1>7, <1>10 DEF QRing
<1>12. QWriter'
  BY <1>1, <1>3 DEF QWriter
<1>13. QReader'
  <2>1. QAhead' = ahead
    BY <1>1 DEF QAhead, Between
  <2>2. ASSUME ahead <= used, ahead < used => sring[oldEnd][2] = 0
        PROVE  ahead <= used + size /\ sring[oldEnd][2] = 0
    <3>1. CASE ahead = used
      <4>1. oldEnd = iEnd
        BY <3>1, AddressBetween DEF QInv, QType, QUsed, QAhead
      <4>2. Address(iEnd, 0) = iEnd
        BY QIndices, QConstants, AddressIs DEF QInv, QType
      <4>3. 0 \in 0..(size - 1)
        BY <1>3
      <4>4. sring[iEnd] = <<pushed, 0>>
        BY <1>3, <4>2, <4>3 DEF RecordAt
      <4> QED BY <1>2, <1>3, <2>2, <4>1, <4>4
    <3>2. CASE ahead # used
      BY <1>2, <1>3, <2>2, <3>2
    <3> QED BY <3>1, <3>2
  <2> QED BY <1>1, <1>7, <2>1, <2>2 DEF QInv, QReader
<1>14. QFifoStep
  <2>1. QContents' = Append(QContents, pushed)
    BY <1>1, <1>7, <1>9, <1>10 DEF QContents
  <2>2. QTaken' = QTaken
    BY <1>1 DEF QTaken
  <2>3. Q!Abstract!Push(pushed)
    BY <2>1, <2>2, QContentsIs DEF Q!Abstract!Push, QTaken
  <2> QED BY <1>3, <2>3 DEF QFifoStep, Q!Abstract!Next
<1> QED BY <1>11, <1>12, <1>13, <1>14 DEF QKept

\* iNum plays no part.
LEMMA NumKept ==
    ASSUME QInv, Q!ReadNum \/ Q!IncreaseNum
    PROVE  QKept
<1>1. UNCHANGED <<iBegin, iEnd, sring, reader, popped, oldEnd>>
  BY DEF Q!ReadNum, Q!IncreaseNum, Q!header, Q!reading
<1>2. QWriter'
  <2>1. CASE Q!ReadNum
    BY <2>1 DEF Q!ReadNum, QInv, QWriter
  <2>2. CASE Q!IncreaseNum
    BY <2>2 DEF Q!IncreaseNum, Q!WriterLeaves, QWriter
  <2> QED BY <2>1, <2>2
<1> QED BY <1>1, <1>2, QuietWriter

-----------------------------------------------------------------------------
(* What the steps of the reader do                                         *)

\* A step of the reader that leaves the indices and the bytes.
LEMMA QuietReader ==
    ASSUME QInv, UNCHANGED <<iBegin, iEnd, sring, writer, pushed, oldBegin>>, QReader',
           QTaken' = QTaken \/ QTaken' = NoMessage
    PROVE  QKept
<1>1. QRing' /\ QContents' = QContents
  BY QSameRing DEF QInv
<1>2. QWriter'
  BY QWriterFrame DEF QInv
<1>3. QFifoStep
  BY <1>1, QQuietStep
<1> QED BY <1>1, <1>2, <1>3 DEF QKept

\* pop begins with what is in use.
LEMMA CallPopKept ==
    ASSUME QInv, Q!CallPop
    PROVE  QKept
<1>1. /\ UNCHANGED <<iBegin, iEnd, sring, writer, pushed, oldBegin>>
      /\ reader = "idle" /\ reader' = "pop" /\ oldEnd' = iEnd /\ popped' = popped
  BY DEF Q!CallPop, Q!header, Q!writing
<1>2. QUsed' = QUsed /\ QAhead' = QUsed /\ QUsed \in Int
  BY <1>1, QIndices DEF QUsed, QAhead, Between, QInv
<1>3. QReader'
  BY <1>1, <1>2 DEF QReader
<1>4. QTaken' = QTaken
  BY <1>1 DEF QTaken
<1> QED BY <1>1, <1>3, <1>4, QuietReader

\* Read finds the oldest message, which is whole.
LEMMA ReadKept ==
    ASSUME QInv, Q!Read
    PROVE  QKept
<1>1. /\ UNCHANGED <<iBegin, iEnd, sring, writer, pushed, oldBegin>>
      /\ reader = "pop" /\ reader' = "advance" /\ oldEnd' = oldEnd /\ iBegin # oldEnd
      /\ popped' = MessageAt(sring, iBegin)
  BY SameRing DEF Q!Read, Q!header, Q!writing
<1>2. QUsed' = QUsed /\ QAhead' = QAhead
  BY <1>1 DEF QUsed, QAhead, Between
<1>3. QUsed # 0
  <2>1. QAhead # 0 /\ QAhead <= QUsed /\ QAhead \in Nat /\ QUsed \in Nat
    BY <1>1, QIndices, QConstants DEF QInv, QReader
  <2> QED BY <2>1
<1>4. popped' \in Messages /\ RecordAt(sring, iBegin, popped')
  BY <1>1, <1>3, QOldest DEF QInv
<1>5. QReader'
  BY <1>1, <1>2, <1>4 DEF QInv, QReader
<1>6. QTaken' = QTaken
  BY <1>1 DEF QTaken
<1> QED BY <1>1, <1>5, <1>6, QuietReader

\* Advance takes the oldest record out of the bytes in use.
LEMMA AdvanceKept ==
    ASSUME QInv, Q!Advance
    PROVE  QKept
<1> DEFINE size == RecordSize(popped)
           used == QUsed
<1>1. /\ reader = "advance" /\ reader' = "count" /\ popped' = popped
      /\ iBegin' = Address(iBegin, size)
      /\ UNCHANGED <<iEnd, sring, writer, pushed, oldBegin>>
  BY SameRing DEF Q!Advance, Q!writing
<1>2. /\ popped \in Messages /\ RecordAt(sring, iBegin, popped)
      /\ iBegin # oldEnd /\ QAhead <= QUsed
  BY <1>1 DEF QInv, QReader
<1>3. /\ used \in 0..(RingSize - 1) /\ QAhead \in Nat /\ QAhead # 0 /\ used # 0
      /\ iBegin \in 0..(RingSize - 1) /\ iEnd \in 0..(RingSize - 1)
      /\ used = IF iEnd >= iBegin THEN iEnd - iBegin ELSE iEnd - iBegin + RingSize
      /\ RingSize \in Nat /\ ReserveLen \in Nat
  BY <1>2, QIndices, QConstants DEF QInv
<1>4. PICK m \in Messages :
        /\ RecordSize(m) <= used
        /\ MessageAt(sring, iBegin) = m
        /\ Filled(sring, iEnd - (used - RecordSize(m)), used - RecordSize(m))
        /\ Records(sring, iEnd, used) = <<m>> \o Records(sring, iEnd, used - RecordSize(m))
  BY <1>3, QOldest DEF QInv
<1>5. m = popped
  BY <1>2, <1>3, <1>4, ReadRecord
<1>6. size \in Nat \ {0} /\ size <= used
  BY <1>2, <1>4, <1>5, RecordSizes
<1>7. QUsed' = used - size
  <2> HIDE DEF size, used
  <2>1. size \in 0..RingSize
    BY <1>3, <1>6
  <2>2. /\ iBegin' = IF iBegin + size < RingSize THEN iBegin + size
                     ELSE iBegin + size - RingSize
        /\ iBegin' \in Cells
    BY <1>1, <2>1, AddressIs DEF QInv, QType
  <2>3. QUsed' = IF iEnd >= iBegin' THEN iEnd - iBegin' ELSE iEnd - iBegin' + RingSize
    BY <1>1, <2>2, BetweenIs DEF QUsed, QInv, QType
  <2> QED BY <1>3, <1>6, <2>2, <2>3
<1>8. QRing'
  <2>1. used - size = 0 \/ used - size + ReserveLen <= RingSize
    BY <1>3, <1>6 DEF QInv, QRing
  <2> QED BY <1>1, <1>4, <1>5, <1>7, <2>1 DEF QRing
<1>9. QWriter'
  <2>1. QSeen' = QSeen /\ QSeen \in Nat
    BY <1>1, QIndices DEF QSeen, Between, QInv
  <2>2. used <= QSeen => used - size <= QSeen
    BY <1>3, <1>6, <2>1
  <2> QED BY <1>1, <1>7, <2>1, <2>2 DEF QInv, QWriter
<1>10. QReader'
  BY <1>1 DEF QReader
<1>11. QFifoStep
  <2> DEFINE rest == Records(sring, iEnd, used - size)
  <2>1. rest \in Seq(Messages)
    <3>1. used - size \in Nat
      BY <1>3, <1>6
    <3> QED BY <1>3, <1>4, <1>5, <3>1, RecordsType
  <2>2. QContents = <<popped>> \o rest
    BY <1>4, <1>5 DEF QContents
  <2>3. QContents' = rest
    BY <1>1, <1>7 DEF QContents
  <2> HIDE DEF rest
  <2>4. QContents # <<>> /\ Head(QContents) = popped /\ Tail(QContents) = rest
    <3>1. <<popped>> \in Seq(Messages) /\ Len(<<popped>>) = 1 /\ <<popped>>[1] = popped
      BY <1>2
    <3> QED BY <1>2, <2>1, <2>2, <3>1
  <2>5. QTaken = NoMessage /\ QTaken' = popped
    BY <1>1 DEF QTaken
  <2>6. Q!Abstract!Take
    BY <2>3, <2>4, <2>5, QContentsIs DEF Q!Abstract!Take, QTaken
  <2> QED BY <2>6 DEF QFifoStep, Q!Abstract!Next
<1> QED BY <1>8, <1>9, <1>10, <1>11 DEF QKept

\* The other steps of the reader leave the ring, and at most return the message taken.
LEMMA OtherReaderKept ==
    ASSUME QInv,
           \/ Q!PopEmpty \/ Q!ReadTmpNum \/ Q!DecreaseNum
           \/ Q!SizeEmpty \/ Q!ResetNum \/ Q!ReaderDies
    PROVE  QKept
<1>1. UNCHANGED <<iBegin, iEnd, sring, writer, pushed, oldBegin>>
  BY DEF Q!PopEmpty, Q!ReadTmpNum, Q!DecreaseNum, Q!SizeEmpty, Q!ResetNum, Q!ReaderDies,
         Q!header, Q!writing
<1>2. CASE Q!ReadTmpNum
  <2>1. reader = "count" /\ reader' = "decrease" /\ popped' = popped
    BY <1>2 DEF Q!ReadTmpNum
  <2>2. QReader' /\ QTaken' = QTaken
    BY <2>1 DEF QReader, QTaken
  <2> QED BY <1>1, <2>2, QuietReader
<1>3. CASE Q!SizeEmpty
  <2>1. reader' = "size"
    BY <1>3 DEF Q!SizeEmpty
  <2>2. QReader' /\ QTaken' = NoMessage
    BY <2>1 DEF QReader, QTaken
  <2> QED BY <1>1, <2>2, QuietReader
<1>4. CASE Q!PopEmpty \/ Q!DecreaseNum \/ Q!ResetNum \/ Q!ReaderDies
  <2>1. reader' = "idle"
    BY <1>4 DEF Q!PopEmpty, Q!DecreaseNum, Q!ResetNum, Q!ReaderDies, Q!ReaderLeaves
  <2>2. QReader' /\ QTaken' = NoMessage
    BY <2>1 DEF QReader, QTaken
  <2> QED BY <1>1, <2>2, QuietReader
<1> QED BY <1>2, <1>3, <1>4

-----------------------------------------------------------------------------
(* The types are kept                                                      *)

\* The indices stay in the ring.
LEMMA IndexType ==
    ASSUME QInv, [Q!Next]_(Q!vars)
    PROVE  {iBegin', iEnd', oldBegin', oldEnd'} \subseteq Cells
<1>1. /\ iBegin \in Cells /\ iEnd \in Cells /\ oldBegin \in Cells /\ oldEnd \in Cells
      /\ 0 \in Cells
  BY QConstants DEF QInv, QType, Cells
<1>2. iEnd' = iEnd \/ (Q!Publish /\ iEnd' = Address(iEnd, RecordSize(pushed)))
  BY SameRing DEF Q!Next, Q!Write, Q!ReadSide, Q!vars, Q!header, Q!CallPush, Q!TestRoom,
     Q!Copy, Q!Publish, Q!ReadNum, Q!IncreaseNum, Q!WriterDies, Q!CallPop, Q!PopEmpty,
     Q!Read, Q!Advance, Q!ReadTmpNum, Q!DecreaseNum, Q!SizeEmpty, Q!ResetNum, Q!ReaderDies
<1>3. iBegin' = iBegin \/ (Q!Advance /\ iBegin' = Address(iBegin, RecordSize(popped)))
  BY SameRing DEF Q!Next, Q!Write, Q!ReadSide, Q!vars, Q!header, Q!CallPush, Q!TestRoom,
     Q!Copy, Q!Publish, Q!ReadNum, Q!IncreaseNum, Q!WriterDies, Q!CallPop, Q!PopEmpty,
     Q!Read, Q!Advance, Q!ReadTmpNum, Q!DecreaseNum, Q!SizeEmpty, Q!ResetNum, Q!ReaderDies
<1>4. oldBegin' \in {oldBegin, iBegin, 0}
  BY DEF Q!Next, Q!Write, Q!ReadSide, Q!vars, Q!writing, Q!WriterLeaves, Q!CallPush,
     Q!TestRoom, Q!Copy, Q!Publish, Q!ReadNum, Q!IncreaseNum, Q!WriterDies, Q!CallPop,
     Q!PopEmpty, Q!Read, Q!Advance, Q!ReadTmpNum, Q!DecreaseNum, Q!SizeEmpty, Q!ResetNum,
     Q!ReaderDies
<1>5. oldEnd' \in {oldEnd, iEnd, 0}
  BY DEF Q!Next, Q!Write, Q!ReadSide, Q!vars, Q!reading, Q!ReaderLeaves, Q!CallPush,
     Q!TestRoom, Q!Copy, Q!Publish, Q!ReadNum, Q!IncreaseNum, Q!WriterDies, Q!CallPop,
     Q!PopEmpty, Q!Read, Q!Advance, Q!ReadTmpNum, Q!DecreaseNum, Q!SizeEmpty, Q!ResetNum,
     Q!ReaderDies
<1>6. iEnd' \in Cells
  <2>1. CASE Q!Publish
    <3>1. RecordSize(pushed) \in Nat /\ iEnd \in Int
      BY <2>1, QIndices, QConstants DEF Q!Publish, QInv, QWriter
    <3> QED BY <1>1, <1>2, <3>1, AddressCell
  <2> QED BY <1>1, <1>2, <2>1
<1>7. iBegin' \in Cells
  <2>1. CASE Q!Advance
    <3>1. RecordSize(popped) \in Nat /\ iBegin \in Int
      BY <2>1, QIndices, QConstants DEF Q!Advance, QInv, QReader
    <3> QED BY <1>1, <1>3, <3>1, AddressCell
  <2> QED BY <1>1, <1>3, <2>1
<1> QED BY <1>1, <1>4, <1>5, <1>6, <1>7

\* The counts stay within their bound.
LEMMA NumType ==
    ASSUME QInv, [Q!Next]_(Q!vars)
    PROVE  {iNum', pushNum', popNum'} \subseteq 0..MaxNum
<1>1. /\ iNum \in 0..MaxNum /\ pushNum \in 0..MaxNum /\ popNum \in 0..MaxNum
      /\ 0 \in 0..MaxNum /\ MaxNum \in 0..MaxNum /\ MaxNum \in Nat
  BY QConstants DEF QInv, QType
<1>2. /\ (IF pushNum < MaxNum THEN pushNum + 1 ELSE MaxNum) \in 0..MaxNum
      /\ (IF popNum > 0 THEN popNum - 1 ELSE iNum) \in 0..MaxNum
  BY <1>1
<1>3. \/ iNum' \in {iNum, 0}
      \/ iNum' = IF pushNum < MaxNum THEN pushNum + 1 ELSE MaxNum
      \/ iNum' = IF popNum > 0 THEN popNum - 1 ELSE iNum
  BY DEF Q!Next, Q!Write, Q!ReadSide, Q!vars, Q!header, Q!CallPush, Q!TestRoom,
     Q!Copy, Q!Publish, Q!ReadNum, Q!IncreaseNum, Q!WriterDies, Q!CallPop, Q!PopEmpty,
     Q!Read, Q!Advance, Q!ReadTmpNum, Q!DecreaseNum, Q!SizeEmpty, Q!ResetNum, Q!ReaderDies
<1>4. pushNum' \in {pushNum, iNum, 0}
  BY DEF Q!Next, Q!Write, Q!ReadSide, Q!vars, Q!writing, Q!WriterLeaves, Q!CallPush,
     Q!TestRoom, Q!Copy, Q!Publish, Q!ReadNum, Q!IncreaseNum, Q!WriterDies, Q!CallPop,
     Q!PopEmpty, Q!Read, Q!Advance, Q!ReadTmpNum, Q!DecreaseNum, Q!SizeEmpty, Q!ResetNum,
     Q!ReaderDies
<1>5. popNum' \in {popNum, iNum, 0}
  BY DEF Q!Next, Q!Write, Q!ReadSide, Q!vars, Q!reading, Q!ReaderLeaves, Q!CallPush,
     Q!TestRoom, Q!Copy, Q!Publish, Q!ReadNum, Q!IncreaseNum, Q!WriterDies, Q!CallPop,
     Q!PopEmpty, Q!Read, Q!Advance, Q!ReadTmpNum, Q!DecreaseNum, Q!SizeEmpty, Q!ResetNum,
     Q!ReaderDies
<1> QED BY <1>1, <1>2, <1>3, <1>4, <1>5

\* The ring stays a ring of bytes.
LEMMA RingType ==
    ASSUME QInv, [Q!Next]_(Q!vars)
    PROVE  sring' \in [Cells -> Bytes]
<1>1. \/ sring' = sring
      \/ /\ writer = "copy"
         /\ \E written \in SUBSET Span(pushed, iEnd) :
              sring' = Store(sring, pushed, iEnd, written)
  BY SameStore DEF Q!Next, Q!Write, Q!ReadSide, Q!vars, Q!CallPush, Q!TestRoom,
     Q!Copy, Q!Publish, Q!ReadNum, Q!IncreaseNum, Q!WriterDies, Q!CallPop, Q!PopEmpty,
     Q!Read, Q!Advance, Q!ReadTmpNum, Q!DecreaseNum, Q!SizeEmpty, Q!ResetNum, Q!ReaderDies
<1>2. ASSUME writer = "copy", NEW written \in SUBSET Span(pushed, iEnd)
      PROVE  Store(sring, pushed, iEnd, written) \in [Cells -> Bytes]
  <2>1. /\ pushed \in Messages /\ RecordSize(pushed) \in Nat /\ iEnd \in Int
        /\ QSeen + RecordSize(pushed) + ReserveLen <= RingSize
        /\ QSeen \in Nat /\ ReserveLen \in Nat /\ RingSize \in Nat
    BY <1>2, QConstants, QIndices DEF QInv, QWriter
  <2>2. RecordSize(pushed) <= RingSize
    BY <2>1
  <2> QED BY <2>1, <2>2, StoreType DEF QInv, QType
<1> QED BY <1>1, <1>2 DEF QInv, QType

\* The places, and the messages.
LEMMA PlaceType ==
    ASSUME QInv, [Q!Next]_(Q!vars)
    PROVE  /\ writer' \in {"idle", "test", "copy", "publish", "count", "increase"}
           /\ reader' \in {"idle", "pop", "advance", "count", "decrease", "size"}
           /\ pushed' \in Messages \cup {NoMessage}
           /\ popped' \in Messages \cup {NoMessage}
<1>1. \/ writer' \in {"idle", "test", "copy", "publish", "count", "increase"}
      \/ writer' = writer
  BY DEF Q!Next, Q!Write, Q!ReadSide, Q!vars, Q!writing, Q!WriterLeaves, Q!CallPush,
     Q!TestRoom, Q!Copy, Q!Publish, Q!ReadNum, Q!IncreaseNum, Q!WriterDies, Q!CallPop,
     Q!PopEmpty, Q!Read, Q!Advance, Q!ReadTmpNum, Q!DecreaseNum, Q!SizeEmpty, Q!ResetNum,
     Q!ReaderDies
<1>2. \/ reader' \in {"idle", "pop", "advance", "count", "decrease", "size"}
      \/ reader' = reader
  BY DEF Q!Next, Q!Write, Q!ReadSide, Q!vars, Q!reading, Q!ReaderLeaves, Q!CallPush,
     Q!TestRoom, Q!Copy, Q!Publish, Q!ReadNum, Q!IncreaseNum, Q!WriterDies, Q!CallPop,
     Q!PopEmpty, Q!Read, Q!Advance, Q!ReadTmpNum, Q!DecreaseNum, Q!SizeEmpty, Q!ResetNum,
     Q!ReaderDies
<1>3. pushed' \in Messages \cup {NoMessage} \/ pushed' = pushed
  BY DEF Q!Next, Q!Write, Q!ReadSide, Q!vars, Q!writing, Q!WriterLeaves, Q!CallPush,
     Q!TestRoom, Q!Copy, Q!Publish, Q!ReadNum, Q!IncreaseNum, Q!WriterDies, Q!CallPop,
     Q!PopEmpty, Q!Read, Q!Advance, Q!ReadTmpNum, Q!DecreaseNum, Q!SizeEmpty, Q!ResetNum,
     Q!ReaderDies
<1>4. popped' \in Messages \cup {NoMessage} \/ popped' = popped
  BY SameRing DEF MessageAt, Q!Next, Q!Write, Q!ReadSide, Q!vars, Q!reading,
     Q!ReaderLeaves, Q!CallPush, Q!TestRoom, Q!Copy, Q!Publish, Q!ReadNum, Q!IncreaseNum,
     Q!WriterDies, Q!CallPop, Q!PopEmpty, Q!Read, Q!Advance, Q!ReadTmpNum, Q!DecreaseNum,
     Q!SizeEmpty, Q!ResetNum, Q!ReaderDies
<1> QED BY <1>1, <1>2, <1>3, <1>4 DEF QInv, QType

\* Every step keeps the types.
LEMMA NextQType ==
    ASSUME QInv, [Q!Next]_(Q!vars)
    PROVE  QType'
BY IndexType, NumType, RingType, PlaceType DEF QType

-----------------------------------------------------------------------------
(* The theorems                                                            *)

\* Every step keeps the rest of the invariant, and is one of the abstract queue or none.
LEMMA NextQKept ==
    ASSUME QInv, [Q!Next]_(Q!vars)
    PROVE  QKept
<1>1. CASE \E m \in Messages : Q!CallPush(m)
  BY <1>1, CallPushKept
<1>2. CASE Q!TestRoom \/ Q!Copy \/ Q!Publish \/ Q!ReadNum \/ Q!IncreaseNum \/ Q!WriterDies
  BY <1>2, TestRoomKept, CopyKept, PublishKept, NumKept, WriterDiesKept
<1>3. CASE Q!ReadSide
  BY <1>3, CallPopKept, ReadKept, AdvanceKept, OtherReaderKept DEF Q!ReadSide
<1>4. CASE UNCHANGED Q!vars
  <2>1. /\ UNCHANGED <<iBegin, iEnd, sring, reader, popped, oldEnd>>
        /\ UNCHANGED <<writer, pushed, oldBegin>>
    BY <1>4 DEF Q!vars, Q!header, Q!writing, Q!reading
  <2>2. QWriter'
    BY <2>1, QWriterFrame DEF QInv
  <2> QED BY <2>1, <2>2, QuietWriter
<1> QED BY <1>1, <1>2, <1>3, <1>4 DEF Q!Next, Q!Write

\* The invariant of the two processes, for any messages, any ring, and however often one
\* of them is killed: the bytes in use are whole records; those that push takes for free
\* are free, though iBegin may have moved since it was read; and those that pop takes for
\* records are whole ones, though iEnd may have moved (push, pop, attach).
THEOREM SQueueInvariant == Q!Spec => []QInv
<1>1. QInv /\ [Q!Next]_(Q!vars) => QInv'
  BY NextQType, NextQKept DEF QKept, QInv
<1> QED BY <1>1, QInit, PTL DEF Q!Spec

\* The header, the ring and the states of the two processes have their types.
THEOREM SQueueTypes == Q!Spec => []Q!TypeOK
<1>1. QInv => Q!TypeOK
  BY QTypeIsTypeOK DEF QInv
<1> QED BY <1>1, SQueueInvariant, PTL

\* The asserts follow from what each process knows.
LEMMA QAsserts == QInv => SQueueAssertsHold
<1> SUFFICES ASSUME QInv PROVE Q!AssertsHold
  BY DEF SQueueAssertsHold
<1>1. /\ RingSize \in Nat /\ WordSize \in Nat /\ ReserveLen \in Nat \ {0}
      /\ \A m \in Messages : RecordSize(m) \in Nat /\ RecordSize(m) > WordSize
      /\ iBegin \in 0..(RingSize - 1) /\ iEnd \in 0..(RingSize - 1)
      /\ oldBegin \in 0..(RingSize - 1) /\ oldEnd \in 0..(RingSize - 1)
      /\ QUsed \in Nat /\ QSeen \in Nat /\ QAhead \in Nat
      /\ QSeen = IF iEnd >= oldBegin THEN iEnd - oldBegin ELSE iEnd - oldBegin + RingSize
      /\ QAhead = IF oldEnd >= iBegin THEN oldEnd - iBegin ELSE oldEnd - iBegin + RingSize
  BY QConstants, QIndices DEF QInv
<1> DEFINE seen == QSeen
           ahead == QAhead
           used == QUsed
           size == RecordSize(pushed)
           Size == RecordSize(popped)
<1>2. ASSUME writer = "test"
      PROVE  /\ iEnd > oldBegin => oldBegin + WordSize < iEnd
             /\ iEnd < oldBegin => iEnd + ReserveLen <= oldBegin
  <2>1. seen = 0 \/ (WordSize < seen /\ seen + ReserveLen <= RingSize)
    BY <1>2 DEF QInv, QWriter
  <2> QED BY <1>1, <2>1
<1>3. ASSUME writer = "publish", iEnd + size > RingSize
      PROVE  iEnd + size - RingSize + ReserveLen <= oldBegin
  <2>1. seen + size + ReserveLen <= RingSize /\ size \in Nat
    BY <1>1, <1>3 DEF QInv, QWriter
  <2> HIDE DEF size, seen
  <2>2. seen = IF iEnd >= oldBegin THEN iEnd - oldBegin ELSE iEnd - oldBegin + RingSize
    BY <1>1 DEF seen
  <2> QED BY <1>1, <1>3, <2>1, <2>2
<1>4. ASSUME reader \in {"pop", "advance"}, iBegin # oldEnd
      PROVE  /\ \E m \in Messages :
                  /\ RecordAt(sring, iBegin, m) /\ MessageAt(sring, iBegin) = m
                  /\ RecordSize(m) <= ahead
             /\ ahead + ReserveLen <= RingSize
  <2>1. ahead # 0 /\ ahead <= used
    BY <1>1, <1>4 DEF QInv, QReader
  <2>2. used # 0
    BY <1>1, <2>1
  <2>3. PICK m \in Messages : /\ RecordAt(sring, iBegin, m) /\ MessageAt(sring, iBegin) = m
                              /\ RecordSize(m) <= used
    BY <2>2, QOldest DEF QInv
  <2>4. RecordSize(m) <= ahead
    BY <1>4, <2>3, QWhole DEF QInv
  <2>5. used + ReserveLen <= RingSize
    BY <2>2 DEF QInv, QRing
  <2>6. ahead + ReserveLen <= RingSize
    BY <1>1, <2>1, <2>5
  <2> QED BY <2>3, <2>4, <2>6
<1>5. ASSUME reader = "pop"
      PROVE  /\ iBegin < oldEnd => iBegin + WordSize < oldEnd
             /\ iBegin > oldEnd => oldEnd + ReserveLen <= iBegin
  <2>1. CASE iBegin # oldEnd
    <3>1. PICK m \in Messages : RecordSize(m) <= ahead
      BY <1>4, <1>5, <2>1
    <3>2. ahead + ReserveLen <= RingSize
      BY <1>4, <1>5, <2>1
    <3> QED BY <1>1, <3>1, <3>2
  <2>2. CASE iBegin = oldEnd
    BY <1>1, <2>2
  <2> QED BY <2>1, <2>2
<1>6. ASSUME reader = "advance"
      PROVE  /\ popped # NoMessage
             /\ IF iBegin < oldEnd THEN iBegin + Size <= oldEnd
                ELSE iBegin + Size >= RingSize => iBegin + Size - RingSize <= oldEnd
  <2>1. iBegin # oldEnd /\ popped \in Messages /\ RecordAt(sring, iBegin, popped)
    BY <1>6 DEF QInv, QReader
  <2>2. PICK m \in Messages : MessageAt(sring, iBegin) = m /\ RecordSize(m) <= ahead
    BY <1>4, <1>6, <2>1
  <2>3. m = popped
    BY <1>1, <2>1, <2>2, ReadRecord
  <2>4. Size <= ahead /\ Size \in Nat /\ popped # NoMessage
    BY <1>1, <2>1, <2>2, <2>3, RecordSizes
  <2> HIDE DEF Size, ahead
  <2>5. ahead = IF oldEnd >= iBegin THEN oldEnd - iBegin ELSE oldEnd - iBegin + RingSize
    BY <1>1 DEF ahead
  <2> QED BY <1>1, <2>1, <2>4, <2>5
<1> QED BY <1>2, <1>3, <1>5, <1>6, SameRing DEF Q!AssertsHold

\* The asserts of push and pop hold, for any messages, any ring and any number of
\* processes killed: neither process, working with a copy of the other's index that may
\* be old, finds the free bytes or a record not to be where it expects them
\* (tc_squeue.h:70-104, 140-165).
THEOREM SQueueAsserts == Q!Spec => []SQueueAssertsHold
BY QAsserts, SQueueInvariant, PTL

\* The queue without a lock is a first in, first out queue for its two processes, for any
\* messages, any ring and any number of processes killed: pop returns whole messages, each
\* once and in order (tc_squeue.h).
THEOREM SQueueIsFifo == Q!Spec => SQueueImplementsFifo
<1>1. QInv /\ [Q!Next]_(Q!vars) => [Q!Abstract!Next]_(Q!Abstract!vars)
  BY NextQKept DEF QKept, QFifoStep
<1>2. Q!Init => Q!Abstract!Init
  BY QInit
<1> QED BY <1>1, <1>2, SQueueInvariant, PTL
        DEF Q!Spec, SQueueImplementsFifo, Q!ImplementsFifo, Q!Abstract!Spec

-----------------------------------------------------------------------------
(* The hash map                                                            *)

\* The hash map stays usable, for any number of units, buckets and keys, any calls and any
\* number of processes killed between two of their writes (tc_hashmap.cpp:658, 681).
THEOREM HashMapStaysUsable == H!Spec => []StaysUsable
BY HAssumption, H!MapStaysUsable DEF StaysUsable

\* The counts of the hash map agree with its blocks, for any number of units, buckets and
\* keys, any calls and any number of processes killed: those of all blocks at any time,
\* those of the dirty blocks and of the bare keys between two calls, unless a process was
\* killed in a call that makes a block dirty (tc_hashmap.cpp, update).
THEOREM HashMapCounts == H!Spec => []CountsAgree
BY HAssumption, H!MapCountsAgree DEF CountsAgree

\* Between two calls, the write-back of the hash map comes to every dirty block, for any
\* number of units, buckets and keys, any calls and any number of processes killed, unless
\* one was killed in a call that makes a block dirty (tc_hashmap.cpp, sync).
THEOREM HashMapDirtyReached == H!Spec => []DirtyIsReached
BY HAssumption, H!DirtyBlocksReached DEF DirtyIsReached
=============================================================================
