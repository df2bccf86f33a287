-------------------------- MODULE E1000SizesProofs --------------------------
(***************************************************************************)
(* What E1000Sizes says of the descriptors of a packet, the packet buffer, *)
(* the transmit fifo, the interrupt rate and the memory of the rings, for  *)
(* every packet, every frame size, every traffic and every address.        *)
(***************************************************************************)
EXTENDS E1000Sizes, WellFoundedInduction, TLAPS

-----------------------------------------------------------------------------
(* The descriptors of a packet                                             *)

\* Every non-empty set of natural numbers has a least element.
LEMMA Least ==
  ASSUME NEW T \in SUBSET Nat, T # {}
  PROVE  \E x \in T : \A y \in T : x <= y
<1>1. PICK x \in T : \A y \in T : << y, x >> \notin OpToRel(<, Nat)
  BY NatLessThanWellFounded, WFMin
<1>2. \A y \in T : << y, x >> \in OpToRel(<, Nat) <=> y < x
  BY DEF OpToRel
<1>3. \A y \in T : ~(y < x)
  BY <1>1, <1>2
<1>4. QED
  BY <1>3

\* g holds the powers of two up to the n-th.
ArePowers(g, n) == g = [k \in 0..n |-> IF k = 0 THEN 1 ELSE 2 * g[k - 1]]

\* They exist: the least n without them could be given them.
LEMMA PowersExist ==
  ASSUME NEW n \in Nat
  PROVE  \E g : ArePowers(g, n)
<1> DEFINE T == { m \in Nat : ~ \E g : ArePowers(g, m) }
<1>1. SUFFICES ASSUME T # {} PROVE FALSE
  OBVIOUS
<1>2. PICK m \in T : \A y \in T : m <= y
  BY <1>1, Least
<1>3. CASE m = 0
  <2>1. ArePowers([k \in 0..0 |-> 1], 0)
    BY DEF ArePowers
  <2> QED BY <1>2, <1>3, <2>1
<1>4. CASE m # 0
  <2>1. m - 1 \in Nat /\ m - 1 \notin T
    BY <1>2, <1>4
  <2>2. PICK g : ArePowers(g, m - 1)
    BY <2>1
  <2> DEFINE h == [k \in 0..m |-> IF k = m THEN 2 * g[m - 1] ELSE g[k]]
  <2>3. h = [k \in 0..m |-> IF k = 0 THEN 1 ELSE 2 * h[k - 1]]
    <3>1. SUFFICES ASSUME NEW k \in 0..m
                   PROVE  h[k] = IF k = 0 THEN 1 ELSE 2 * h[k - 1]
      BY Zenon
    <3> QED BY <1>4, <2>1, <2>2 DEF ArePowers
  <2> HIDE DEF h
  <2> QED BY <1>2, <2>3 DEF ArePowers
<1> QED BY <1>3, <1>4

\* Shifting by one more doubles.
LEMMA PowerDoubles ==
  /\ Power[0] = 1
  /\ \A k \in 0..MaxPwr : Power[k + 1] = 2 * Power[k]
<1>1. ArePowers(Power, MaxPwr + 1)
  <2>1. Power = CHOOSE g : ArePowers(g, MaxPwr + 1)
    BY DEF Power, ArePowers
  <2>2. MaxPwr + 1 \in Nat
    BY SizesAssumption
  <2> QED BY <2>1, <2>2, PowersExist
<1>2. \A k \in 0..(MaxPwr + 1) :
        Power[k] = IF k = 0 THEN 1 ELSE 2 * Power[k - 1]
  BY <1>1 DEF ArePowers
<1> HIDE DEF Power
<1>3. MaxPwr \in Nat
  BY SizesAssumption
<1>4. ASSUME NEW k \in 0..MaxPwr
      PROVE  Power[k + 1] = 2 * Power[k]
  <2>1. k + 1 \in 0..(MaxPwr + 1) /\ k + 1 # 0 /\ (k + 1) - 1 = k
    BY <1>3
  <2> QED BY <1>2, <2>1
<1> QED BY <1>2, <1>3, <1>4

\* A power of two is a positive number.
LEMMA PowerType ==
  \A k \in 0..(MaxPwr + 1) : Power[k] \in Nat /\ Power[k] >= 1
<1> DEFINE T == { k \in 0..(MaxPwr + 1) : ~(Power[k] \in Nat /\ Power[k] >= 1) }
<1>0. MaxPwr \in Nat
  BY SizesAssumption
<1>1. SUFFICES ASSUME T # {} PROVE FALSE
  OBVIOUS
<1>2. PICK m \in T : \A y \in T : m <= y
  <2>1. T \in SUBSET Nat
    BY <1>0
  <2> HIDE DEF T
  <2> QED BY <1>1, <2>1, Least
<1>3. m # 0
  BY <1>2, PowerDoubles
<1>4. m - 1 \in 0..MaxPwr /\ m - 1 \notin T /\ (m - 1) + 1 = m
  BY <1>0, <1>2, <1>3
<1>5. Power[m - 1] \in Nat /\ Power[m - 1] >= 1
  BY <1>0, <1>4
<1>6. Power[m] = 2 * Power[m - 1]
  BY <1>4, PowerDoubles
<1> QED BY <1>2, <1>5, <1>6

\* From the third on they are multiples of eight.
LEMMA PowerOfEight ==
  ASSUME NEW k \in 3..(MaxPwr + 1)
  PROVE  Power[k] = 8 * Power[k - 3]
<1>0. MaxPwr \in Nat
  BY SizesAssumption
<1>1. /\ k - 3 \in 0..MaxPwr /\ k - 2 \in 0..MaxPwr /\ k - 1 \in 0..MaxPwr
      /\ (k - 3) + 1 = k - 2 /\ (k - 2) + 1 = k - 1 /\ (k - 1) + 1 = k
  BY <1>0
<1>2. /\ Power[k - 2] = 2 * Power[k - 3]
      /\ Power[k - 1] = 2 * Power[k - 2]
      /\ Power[k] = 2 * Power[k - 1]
  BY <1>1, PowerDoubles
<1>3. Power[k - 3] \in Nat
  <2>1. k - 3 \in 0..(MaxPwr + 1)
    BY <1>0, <1>1
  <2> QED BY <2>1, PowerType
<1> QED BY <1>2, <1>3

\* The bytes that a descriptor is counted for.
Unit(p) == Power[Pwr(p)]

\* fls(max_per_txd) - 1 is the shift of the greatest power of two that a
\* descriptor can hold.
LEMMA UnitIs ==
  ASSUME NEW p, MaxPerTxd(p) \in Nat, MaxPerTxd(p) >= 1,
         MaxPerTxd(p) <= Power[MaxPwr]
  PROVE  /\ Unit(p) \in Nat
         /\ Unit(p) <= MaxPerTxd(p) /\ MaxPerTxd(p) < 2 * Unit(p)
         /\ Unit(p) \in { 1, 2, 4 } \/ \E q \in Nat : Unit(p) = 8 * q
<1> DEFINE M == MaxPerTxd(p)
           T == { k \in 0..(MaxPwr + 1) : M < Power[k] }
<1>0. MaxPwr \in Nat /\ M \in Nat /\ M >= 1 /\ M <= Power[MaxPwr]
  BY SizesAssumption
<1> HIDE DEF M
<1>1. MaxPwr + 1 \in T
  <2>1. Power[MaxPwr + 1] = 2 * Power[MaxPwr]
    BY <1>0, PowerDoubles
  <2>2. Power[MaxPwr] \in Nat /\ Power[MaxPwr] >= 1
    BY <1>0, PowerType
  <2> QED BY <1>0, <2>1, <2>2
<1>2. PICK m \in T : \A y \in T : m <= y
  <2>1. T \in SUBSET Nat /\ T # {}
    BY <1>0, <1>1
  <2> HIDE DEF T
  <2> QED BY <2>1, Least
<1>3. m # 0
  BY <1>0, <1>2, PowerDoubles
<1>4. /\ m - 1 \in 0..MaxPwr /\ m - 1 \in 0..(MaxPwr + 1)
      /\ m - 1 \notin T /\ (m - 1) + 1 = m
  BY <1>0, <1>2, <1>3
<1>5. Power[m - 1] <= M /\ M < Power[(m - 1) + 1]
  BY <1>0, <1>2, <1>4, PowerType
<1>6. \E k \in 0..MaxPwr : Power[k] <= M /\ M < Power[k + 1]
  BY <1>4, <1>5
<1>7. /\ Pwr(p) \in 0..MaxPwr
      /\ Power[Pwr(p)] <= M /\ M < Power[Pwr(p) + 1]
  BY <1>6 DEF Pwr, M
<1> DEFINE k == Pwr(p)
<1>8. k \in 0..MaxPwr /\ Power[k] <= M /\ M < Power[k + 1]
  BY <1>7
<1> HIDE DEF k
<1>9. Power[k + 1] = 2 * Power[k] /\ Power[k] \in Nat
  BY <1>0, <1>8, PowerDoubles, PowerType
<1>10. Power[k] \in { 1, 2, 4 } \/ \E q \in Nat : Power[k] = 8 * q
  <2>1. CASE k \in 0..2
    <3>1. Power[0] = 1 /\ Power[1] = 2 /\ (k = 2 => Power[2] = 4)
      <4>1. 0 \in 0..MaxPwr /\ (k = 2 => 1 \in 0..MaxPwr)
        BY <1>0, <1>8
      <4>2. /\ Power[0 + 1] = 2 * Power[0]
            /\ k = 2 => Power[1 + 1] = 2 * Power[1]
        BY <4>1, PowerDoubles
      <4> QED BY <4>2, PowerDoubles
    <3> QED BY <2>1, <3>1
  <2>2. CASE k \notin 0..2
    <3>1. k \in 3..(MaxPwr + 1) /\ k - 3 \in 0..(MaxPwr + 1)
      BY <1>0, <1>8, <2>2
    <3>2. Power[k] = 8 * Power[k - 3] /\ Power[k - 3] \in Nat
      BY <3>1, PowerOfEight, PowerType
    <3> QED BY <3>2
  <2> QED BY <2>1, <2>2
<1> QED BY <1>8, <1>9, <1>10 DEF Unit, M, k

\* Descriptors of u bytes that n bytes need.
Ceil(n, u) == (n + u - 1) \div u

\* Their number in terms of a multiple of u.
LEMMA CeilIs ==
  ASSUME NEW u \in Nat, u >= 4, NEW n \in Int, n >= -3
  PROVE  /\ Ceil(n, u) \in Nat
         /\ u * Ceil(n, u) >= n /\ u * Ceil(n, u) < n + u
<1>1. n + u - 1 \in Nat /\ u > 0
  OBVIOUS
<1>2. \A x \in Nat : /\ x \div u \in Nat
                     /\ u * (x \div u) <= x /\ x < u * (x \div u) + u
  BY <1>1
<1> QED BY <1>1, <1>2 DEF Ceil

\* Fewer bytes need no more, and u bytes fewer one less.
LEMMA CeilLess ==
  ASSUME NEW u \in Nat, u >= 4, NEW n \in Int, NEW m \in Int,
         n >= m, m >= -3
  PROVE  /\ Ceil(m, u) <= Ceil(n, u)
         /\ n - m >= u => Ceil(m, u) + 1 <= Ceil(n, u)
<1> DEFINE a == Ceil(m, u)
           b == Ceil(n, u)
<1>1. /\ a \in Nat /\ u * a >= m /\ u * a < m + u
      /\ b \in Nat /\ u * b >= n /\ u * b < n + u
  <2>1. n >= -3
    OBVIOUS
  <2> QED BY <2>1, CeilIs
<1> HIDE DEF a, b
<1>2. u * a < u * b + u
  BY <1>1
<1>3. a <= b
  <2>1. \A x, y \in Nat : x > y => u * x >= u * y + u
    BY SMT
  <2> QED BY <1>1, <1>2, <2>1
<1>4. ASSUME n - m >= u PROVE a + 1 <= b
  <2>1. u * a < u * b
    BY <1>1, <1>4
  <2> QED BY <1>1, <1>3, <2>1
<1> QED BY <1>3, <1>4 DEF a, b

\* None for nothing, one for up to u bytes.
LEMMA CeilFew ==
  ASSUME NEW u \in Nat, u >= 4
  PROVE  /\ \A n \in -3..0 : Ceil(n, u) = 0
         /\ \A n \in 1..u : Ceil(n, u) = 1
<1>1. \A x \in Nat : x < u => x \div u = 0
  BY SMT
<1>2. \A x \in Nat : x >= u /\ x < 2 * u => x \div u = 1
  BY SMT
<1>3. ASSUME NEW n \in -3..0 PROVE Ceil(n, u) = 0
  BY <1>1 DEF Ceil
<1>4. ASSUME NEW n \in 1..u PROVE Ceil(n, u) = 1
  BY <1>2 DEF Ceil
<1> QED BY <1>3, <1>4

\* g holds the sums of f up to n.
AreSums(g, f0, n) == g = [i \in 0..n |-> IF i = 0 THEN 0 ELSE g[i - 1] + f0[i]]

\* They exist: the least n without them could be given them.
LEMMA SumsExist ==
  ASSUME NEW f0, NEW n \in Nat
  PROVE  \E g : AreSums(g, f0, n)
<1> DEFINE T == { m \in Nat : ~ \E g : AreSums(g, f0, m) }
<1>1. SUFFICES ASSUME T # {} PROVE FALSE
  OBVIOUS
<1>2. PICK m \in T : \A y \in T : m <= y
  BY <1>1, Least
<1>3. CASE m = 0
  <2>1. AreSums([i \in 0..0 |-> 0], f0, 0)
    BY DEF AreSums
  <2> QED BY <1>2, <1>3, <2>1
<1>4. CASE m # 0
  <2>1. m - 1 \in Nat /\ m - 1 \notin T
    BY <1>2, <1>4
  <2>2. PICK g : AreSums(g, f0, m - 1)
    BY <2>1
  <2> DEFINE h == [i \in 0..m |-> IF i = m THEN g[m - 1] + f0[m] ELSE g[i]]
  <2>3. h = [i \in 0..m |-> IF i = 0 THEN 0 ELSE h[i - 1] + f0[i]]
    <3>1. SUFFICES ASSUME NEW i \in 0..m
                   PROVE  h[i] = IF i = 0 THEN 0 ELSE h[i - 1] + f0[i]
      BY Zenon
    <3> QED BY <1>4, <2>1, <2>2 DEF AreSums
  <2> HIDE DEF h
  <2> QED BY <1>2, <2>3 DEF AreSums
<1> QED BY <1>3, <1>4

\* What the first i fragments of a packet are counted for.
Counted(p) == [i \in 1..Len(p.frags) |-> UseCount(p.frags[i], p)]
UpTo(p) == CHOOSE g : AreSums(g, Counted(p), Len(p.frags))

\* The sum over the fragments, one fragment at a time.
LEMMA UpToIs ==
  ASSUME NEW p, Len(p.frags) \in Nat,
         \A i \in 1..Len(p.frags) : UseCount(p.frags[i], p) \in Nat
  PROVE  /\ FragsCount(p) = UpTo(p)[Len(p.frags)]
         /\ UpTo(p)[0] = 0
         /\ \A i \in 0..Len(p.frags) : UpTo(p)[i] \in Nat
         /\ \A i \in 1..Len(p.frags) :
              UpTo(p)[i] = UpTo(p)[i - 1] + UseCount(p.frags[i], p)
<1> DEFINE n == Len(p.frags)
           c == Counted(p)
           u == UpTo(p)
<1>0. n \in Nat
  OBVIOUS
<1>1. \A i \in 1..n : c[i] = UseCount(p.frags[i], p) /\ c[i] \in Nat
  BY DEF Counted
<1>2. AreSums(u, c, n)
  BY <1>0, SumsExist DEF UpTo
<1>3. FragsCount(p) = u[n]
  <2>1. \A g : AreSums(g, c, n) <=>
               g = [i \in 0..n |-> IF i = 0 THEN 0
                                   ELSE g[i - 1] + UseCount(p.frags[i], p)]
    <3> TAKE g
    <3>1. [i \in 0..n |-> IF i = 0 THEN 0 ELSE g[i - 1] + c[i]]
          = [i \in 0..n |-> IF i = 0 THEN 0
                            ELSE g[i - 1] + UseCount(p.frags[i], p)]
      BY <1>0, <1>1
    <3> QED BY <3>1 DEF AreSums
  <2> QED BY <2>1, ZenonT(40) DEF FragsCount, UpTo
<1> HIDE DEF n, c, u
<1>4. \A i \in 0..n : u[i] = IF i = 0 THEN 0 ELSE u[i - 1] + c[i]
  BY <1>2 DEF AreSums
<1>5. u[0] = 0 /\ \A i \in 1..n : u[i] = u[i - 1] + c[i]
  BY <1>0, <1>4
<1>6. \A i \in 0..n : u[i] \in Nat
  <2> DEFINE T == { i \in 0..n : u[i] \notin Nat }
  <2>1. SUFFICES ASSUME T # {} PROVE FALSE
    OBVIOUS
  <2>2. PICK m \in T : \A y \in T : m <= y
    <3>1. T \in SUBSET Nat
      BY <1>0
    <3> HIDE DEF T
    <3> QED BY <2>1, <3>1, Least
  <2>3. m # 0
    BY <1>5, <2>2
  <2>4. m \in 1..n /\ m - 1 \in 0..n /\ m - 1 \notin T
    BY <1>0, <2>2, <2>3
  <2>5. u[m - 1] \in Nat /\ c[m] \in Nat
    BY <1>1, <2>4
  <2> QED BY <1>5, <2>2, <2>4, <2>5
<1> QED BY <1>1, <1>3, <1>5, <1>6 DEF n, c, u

\* The lengths in a packet.
LEMMA PacketIs ==
  ASSUME NEW p \in Packets
  PROVE  /\ p.head \in Nat /\ p.head > 8 /\ p.mss \in Nat
         /\ Len(p.frags) \in Nat
         /\ \A i \in 1..Len(p.frags) : p.frags[i] \in Nat /\ p.frags[i] >= 1
<1>1. p.head \in Heads /\ p.mss \in Mss
  BY DEF Packets
<1>2. PICK n \in 0..MaxFrags : p.frags \in [1..n -> Frag]
  BY DEF Packets
<1>3. Len(p.frags) = n /\ n \in Nat
  <2>1. n \in Nat
    BY SizesAssumption
  <2>2. p.frags \in Seq(Frag)
    BY <1>2, <2>1
  <2>3. DOMAIN p.frags = 1..n /\ DOMAIN p.frags = 1..Len(p.frags)
    BY <1>2, <2>2
  <2>4. Len(p.frags) \in Nat
    BY <2>2
  <2> QED BY <2>1, <2>3, <2>4
<1>4. \A i \in 1..n : p.frags[i] \in Frag
  BY <1>2
<1>5. /\ \A x \in Heads : x \in Nat /\ x > 8
      /\ \A x \in Mss : x \in Nat
      /\ \A x \in Frag : x \in Nat /\ x >= 1
  BY LengthsAssumption
<1> QED BY <1>1, <1>3, <1>4, <1>5

\* What a descriptor can hold, and what it is counted for.
LEMMA SizeIs ==
  ASSUME NEW p \in Packets
  PROVE  /\ MaxPerTxd(p) \in Nat /\ Unit(p) \in Nat
         /\ 4 <= Unit(p) /\ Unit(p) <= MaxPerTxd(p)
         /\ MaxPerTxd(p) < 2 * Unit(p)
         /\ MaxPerTxd(p) % 4 = 0
         /\ MaxPerTxd(p) >= 8 => Unit(p) % 8 = 0
         /\ p.mss = 0 => MaxPerTxd(p) >= 16
<1> DEFINE Q == Power[MaxPwr]
           M == MaxPerTxd(p)
           U == Unit(p)
<1>1. Q \in Nat /\ Q >= 16 /\ Q % 4 = 0
  <2>0. MaxPwr \in Nat /\ MaxPwr >= 4
    BY SizesAssumption
  <2>1. /\ MaxPwr \in 3..(MaxPwr + 1)
        /\ MaxPwr - 4 \in 0..MaxPwr /\ MaxPwr - 4 \in 0..(MaxPwr + 1)
        /\ (MaxPwr - 4) + 1 = MaxPwr - 3
    BY <2>0
  <2>2. /\ Q = 8 * Power[MaxPwr - 3]
        /\ Power[MaxPwr - 3] = 2 * Power[MaxPwr - 4]
        /\ Power[MaxPwr - 4] \in Nat /\ Power[MaxPwr - 4] >= 1
    BY <2>1, PowerOfEight, PowerDoubles, PowerType
  <2> HIDE DEF Q
  <2>3. \A k \in Nat : k >= 1 => /\ 8 * (2 * k) \in Nat /\ 8 * (2 * k) >= 16
                                 /\ (8 * (2 * k)) % 4 = 0
    BY SMT
  <2> QED BY <2>2, <2>3
<1>2. p.mss \in Nat
  BY PacketIs
<1>3. M = IF p.mss > 0 THEN IF 4 * p.mss < Q THEN 4 * p.mss ELSE Q ELSE Q
  BY DEF MaxPerTxd, Lesser
<1> HIDE DEF M, Q
<1>4. /\ M \in Nat /\ M >= 4 /\ M <= Q /\ M % 4 = 0
      /\ p.mss = 0 => M >= 16
  <2>1. \A k \in Nat : (4 * k) % 4 = 0
    BY SMT
  <2> QED BY <1>1, <1>2, <1>3, <2>1
<1>5. /\ U \in Nat /\ U <= M /\ M < 2 * U
      /\ U \in { 1, 2, 4 } \/ \E q \in Nat : U = 8 * q
  BY <1>4, UnitIs DEF M, Q
<1> HIDE DEF U
<1>6. U >= 4
  BY <1>4, <1>5
<1>7. ASSUME M >= 8 PROVE U % 8 = 0
  <2>1. PICK q \in Nat : U = 8 * q
    BY <1>4, <1>5, <1>7
  <2> QED BY <2>1
<1> QED BY <1>4, <1>5, <1>6, <1>7 DEF M, U

\* A packet that e1000_tx_map works on: before its first descriptor nothing of
\* the linear part is gone; after it the workaround for a packet that follows a
\* TSO one is done, and the next buffer begins in an odd dword or at its end.
MapType ==
  /\ pkt \in Packets /\ chip \in [pcix : BOOLEAN, dword : BOOLEAN]
  /\ f \in 0..Len(pkt.frags) /\ left \in Nat /\ off \in Nat /\ count \in Nat
  /\ lastTso \in BOOLEAN

Odd(place) == place % 8 \in { 0, 5, 6, 7 }

BegunInv ==
  /\ count = 0 => f = 0 /\ left = pkt.head
  /\ count > 0 => ~AfterTso(pkt, lastTso)
  /\ chip.dword /\ count > 0 => Odd(off) \/ left = 0 \/ MaxPerTxd(pkt) = 4

\* Descriptors that the workarounds of the first one may still cost.
Extra ==
  One(AfterTso(pkt, lastTso))
  + One(chip.pcix /\ count = 0 /\ pkt.head > FirstMax)

\* The last bytes of a TSO packet get a descriptor of their own.
Sentinel == One(pkt.mss > 0 /\ (f < Len(pkt.frags) \/ left > 8))

\* How a workaround can shorten a buffer: the first one of a packet by what was
\* reserved for it, one that does not end its fragment by less than a descriptor
\* is counted for, and one that does by four bytes each.
LEMMA ChunkIs ==
  ASSUME MapType, BegunInv, left > 0
  PROVE  /\ ChunkSize \in 1..left
         /\ left > MaxPerTxd(pkt) =>
              \/ Extra >= 1 \/ ChunkSize >= Unit(pkt)
              \/ count = 0 /\ chip.dword /\ ChunkSize >= Unit(pkt) - 4
         /\ left <= MaxPerTxd(pkt) =>
              \/ Extra >= 1 \/ ChunkSize = left
              \/ ChunkSize = left - 4 /\ chip.dword /\ left > 4
              \/ /\ ChunkSize = left - 4 \/ (ChunkSize = left - 8 /\ chip.dword)
                 /\ pkt.mss > 0 /\ f = Len(pkt.frags) /\ left > 8
         /\ chip.dword /\ ChunkSize < left =>
              Odd(off + ChunkSize) \/ MaxPerTxd(pkt) = 4
<1> DEFINE M == MaxPerTxd(pkt)
           U == Unit(pkt)
           whole == Lesser(left, M)
           tso == IF f = 0 /\ AfterTso(pkt, lastTso) THEN whole - 4 ELSE whole
           sentinel == IF /\ pkt.mss > 0 /\ f = Len(pkt.frags)
                          /\ tso = left /\ tso > 8
                       THEN tso - 4 ELSE tso
           first == IF chip.pcix /\ f = 0 /\ count = 0
                    THEN Lesser(sentinel, FirstMax) ELSE sentinel
           c == IF chip.dword /\ EvenDword(off + first - 1) /\ first > 4
                THEN first - 4 ELSE first
<1>0. ChunkSize = c
  BY DEF ChunkSize
<1>1. /\ M \in Nat /\ U \in Nat /\ 4 <= U /\ U <= M /\ M < 2 * U /\ M % 4 = 0
      /\ M >= 8 => U % 8 = 0
      /\ pkt.mss = 0 => M >= 16
  BY SizeIs DEF MapType
<1>2. /\ pkt.head \in Nat /\ pkt.head > 8 /\ pkt.mss \in Nat
      /\ Len(pkt.frags) \in Nat
  BY PacketIs DEF MapType
<1>3. FirstMax \in Nat /\ FirstMax >= 5
  BY SizesAssumption
<1>4. /\ left \in Nat /\ left >= 1 /\ off \in Nat /\ count \in Nat /\ f \in Nat
      /\ chip.pcix \in BOOLEAN /\ chip.dword \in BOOLEAN
  BY <1>2 DEF MapType
<1> HIDE DEF M, U
<1>5. /\ whole \in Nat
      /\ whole = left \/ (whole = M /\ M < left)
      /\ whole <= left /\ whole <= M
  BY <1>1, <1>4 DEF Lesser
<1> HIDE DEF whole
<1>6. /\ Extra \in Nat
      /\ AfterTso(pkt, lastTso) => Extra >= 1 /\ pkt.mss = 0 /\ count = 0
      /\ chip.pcix /\ count = 0 /\ pkt.head > FirstMax => Extra >= 1
  BY <1>4 DEF Extra, One, AfterTso, BegunInv
<1>7. /\ tso \in Nat /\ tso <= whole /\ tso >= 1
      /\ left >= 5 /\ M >= 8 => tso >= 5
      /\ tso = whole \/ (Extra >= 1 /\ pkt.mss = 0 /\ left > 8)
  <2>1. CASE f = 0 /\ AfterTso(pkt, lastTso)
    <3>1. left > 8 /\ M >= 16 /\ Extra >= 1 /\ pkt.mss = 0
      BY <1>1, <1>2, <1>6, <2>1 DEF BegunInv
    <3> QED BY <1>1, <1>4, <1>5, <2>1, <3>1
  <2>2. CASE ~(f = 0 /\ AfterTso(pkt, lastTso))
    BY <1>1, <1>4, <1>5, <2>2
  <2> QED BY <2>1, <2>2
<1> HIDE DEF tso
<1>8. /\ sentinel \in Nat /\ sentinel <= tso /\ sentinel >= 1
      /\ left >= 5 /\ M >= 8 => sentinel >= 5
      /\ \/ sentinel = tso
         \/ /\ pkt.mss > 0 /\ f = Len(pkt.frags) /\ left > 8
            /\ sentinel = left - 4 /\ whole = left
  BY <1>4, <1>5, <1>7
<1> HIDE DEF sentinel
<1>9. /\ first \in Nat /\ first <= sentinel /\ first >= 1
      /\ left >= 5 /\ M >= 8 => first >= 5
      /\ first = sentinel \/ (Extra >= 1 /\ first >= 5)
  <2>1. CASE chip.pcix /\ f = 0 /\ count = 0 /\ FirstMax <= sentinel
    <3>1. left = pkt.head /\ FirstMax <= left
      BY <1>3, <1>4, <1>5, <1>7, <1>8, <2>1 DEF BegunInv
    <3>2. first = FirstMax
      BY <1>3, <1>8, <2>1 DEF Lesser
    <3>3. FirstMax < sentinel => Extra >= 1
      BY <1>2, <1>3, <1>4, <1>5, <1>6, <1>7, <1>8, <2>1, <3>1
    <3> QED BY <1>3, <1>8, <2>1, <3>2, <3>3
  <2>2. CASE ~(chip.pcix /\ f = 0 /\ count = 0 /\ FirstMax <= sentinel)
    BY <1>3, <1>8, <2>2 DEF Lesser
  <2> QED BY <2>1, <2>2
<1> HIDE DEF first
<1>10. /\ c \in Nat /\ c <= first /\ c >= 1
       /\ c = first \/ (c = first - 4 /\ first > 4 /\ chip.dword)
  BY <1>9
<1>11. c \in 1..left
  BY <1>4, <1>5, <1>7, <1>8, <1>9, <1>10
<1>12. ASSUME chip.dword, c < left
       PROVE  Odd(off + c) \/ M = 4
  <2>1. CASE ~EvenDword(off + first - 1)
    <3>1. c = first
      BY <2>1
    <3> QED BY <1>4, <1>9, <2>1, <3>1 DEF EvenDword, Odd
  <2>2. CASE EvenDword(off + first - 1) /\ first > 4
    <3>1. c = first - 4
      BY <1>12, <2>2
    <3> QED BY <1>4, <1>9, <2>2, <3>1 DEF EvenDword, Odd
  <2>3. CASE EvenDword(off + first - 1) /\ first <= 4
    <3>1. c = first
      BY <2>3, <1>9
    <3>2. ~(left >= 5 /\ M >= 8)
      BY <1>9, <2>3
    <3>3. left < 5 => first = left \/ M < 8
      BY <1>4, <1>5, <1>7, <1>8, <1>9, <2>3
    <3>4. M < 8
      BY <1>1, <1>4, <1>12, <3>1, <3>2, <3>3
    <3> QED BY <1>1, <3>4
  <2> QED BY <1>9, <2>1, <2>2, <2>3
<1>13. ASSUME left > M
       PROVE  \/ Extra >= 1 \/ c >= U
              \/ count = 0 /\ chip.dword /\ c >= U - 4
  <2>0. SUFFICES ASSUME Extra < 1
        PROVE  c >= U \/ (count = 0 /\ chip.dword /\ c >= U - 4)
    BY <1>6
  <2>1. first = M
    <3>1. whole = M /\ tso = M
      BY <1>1, <1>4, <1>5, <1>6, <1>7, <1>13, <2>0
    <3> QED BY <1>1, <1>4, <1>6, <1>8, <1>9, <1>13, <2>0, <3>1
  <2>2. c >= M - 4 /\ (~chip.dword => c = M)
    BY <1>1, <1>10, <2>1
  <2>3. CASE M > U /\ M >= 8
    <3>1. M >= U + 4
      BY <1>1, <2>3
    <3> QED BY <1>1, <1>10, <2>2, <3>1
  <2>4. CASE M < 8
    <3>1. M = 4 /\ U = 4
      BY <1>1, <2>4
    <3> QED BY <1>10, <2>1, <3>1
  <2>5. CASE M = U /\ M >= 8
    <3>1. CASE count = 0 \/ ~chip.dword
      BY <1>1, <1>4, <1>10, <2>2, <2>5, <3>1
    <3>2. CASE count > 0 /\ chip.dword
      <4>1. Odd(off) /\ M % 8 = 0
        BY <1>1, <1>4, <2>5, <3>2 DEF BegunInv, M
      <4>2. \A x, y \in Nat : Odd(x) /\ y % 8 = 0 => (x + y - 1) % 8 >= 4
        BY SMT DEF Odd
      <4>3. ~EvenDword(off + M - 1)
        BY <1>1, <1>4, <4>1, <4>2 DEF EvenDword
      <4> QED BY <1>1, <2>1, <2>5, <4>3
    <3> QED BY <1>4, <3>1, <3>2
  <2> QED BY <1>1, <2>3, <2>4, <2>5
<1>14. ASSUME left <= M
       PROVE  \/ Extra >= 1 \/ c = left
              \/ c = left - 4 /\ chip.dword /\ left > 4
              \/ /\ c = left - 4 \/ (c = left - 8 /\ chip.dword)
                 /\ pkt.mss > 0 /\ f = Len(pkt.frags) /\ left > 8
  <2>0. SUFFICES ASSUME Extra < 1
        PROVE  \/ c = left
               \/ c = left - 4 /\ chip.dword /\ left > 4
               \/ /\ c = left - 4 \/ (c = left - 8 /\ chip.dword)
                  /\ pkt.mss > 0 /\ f = Len(pkt.frags) /\ left > 8
    BY <1>6
  <2>1. tso = left /\ first = sentinel
    BY <1>1, <1>4, <1>5, <1>6, <1>7, <1>9, <1>14, <2>0
  <2> QED BY <1>4, <1>8, <1>10, <2>1
<1> HIDE DEF c
<1> QED BY <1>0, <1>11, <1>12, <1>13, <1>14 DEF M, U

\* Descriptors that the rest of a fragment, n bytes, can need: four bytes less
\* count once a buffer has ended in an odd dword.
Needs(n, first) ==
  IF n = 0 THEN 0
  ELSE IF chip.dword THEN 1 + UseCount(IF first THEN n ELSE n - 4, pkt)
                     ELSE UseCount(n, pkt)

\* ... and what was reserved for the fragments after it.
Later ==
  UpTo(pkt)[Len(pkt.frags)] - UpTo(pkt)[f]
  + (IF chip.dword THEN Len(pkt.frags) - f ELSE 0)

\* The descriptors written, and those that can follow, were reserved.
MapInv ==
  IF part = "map"
  THEN /\ MapType /\ BegunInv /\ reserved \in Nat
       /\ count + Extra + Sentinel + Needs(left, count = 0) + Later <= reserved
  ELSE count = 0 /\ reserved = 0

\* Needs in terms of whole units.
LEMMA NeedsIs ==
  ASSUME MapType, NEW n \in Nat, NEW m \in Nat, NEW first \in BOOLEAN
  PROVE  /\ Needs(n, first) \in Nat
         /\ Needs(n, FALSE) <= Needs(n, first)
         /\ n > 0 => Needs(n, first) >= 1
         /\ m <= n => Needs(m, FALSE) <= Needs(n, first)
         /\ m + Unit(pkt) <= n => Needs(m, FALSE) + 1 <= Needs(n, first)
         /\ m + Unit(pkt) <= n + 4 /\ chip.dword /\ n > 0
              => Needs(m, FALSE) + 1 <= Needs(n, TRUE)
         /\ n \in 1..4 => Needs(n, FALSE) = 1
         /\ chip.dword /\ n > 4 => Needs(n, first) >= 2
         /\ chip.dword /\ n \in 5..8 => Needs(n, FALSE) = 2
         /\ UseCount(n, pkt) \in Nat
         /\ Needs(n, FALSE) <= UseCount(n, pkt) + One(chip.dword)
<1> DEFINE u == Unit(pkt)
<1>1. u \in Nat /\ u >= 4
  BY SizeIs DEF MapType
<1>2. \A k : UseCount(k, pkt) = Ceil(k, u)
  BY DEF UseCount, Unit, Ceil
<1> HIDE DEF u
<1>3. \A k \in Int : k >= -3 => Ceil(k, u) \in Nat
  BY <1>1, CeilIs
<1>4. \A j, k \in Int :
        j >= k /\ k >= -3 => /\ Ceil(k, u) <= Ceil(j, u)
                             /\ j - k >= u => Ceil(k, u) + 1 <= Ceil(j, u)
  BY <1>1, CeilLess
<1>5. /\ \A k \in -3..0 : Ceil(k, u) = 0
      /\ \A k \in 1..u : Ceil(k, u) = 1
  BY <1>1, CeilFew
<1>6. \A k \in Int : k >= 1 => Ceil(k, u) >= 1
  <2> TAKE k \in Int
  <2>1. 1 \in 1..u
    BY <1>1
  <2> QED BY <1>4, <1>5, <2>1
<1>8. chip.dword \in BOOLEAN
  BY DEF MapType
<1>9. /\ n - 4 \in Int /\ m - 4 \in Int /\ n \in Int /\ m \in Int
      /\ n > 0 => n - 4 >= -3
      /\ m > 0 => m - 4 >= -3
  OBVIOUS
<1> DEFINE A == Ceil(n, u)
           A4 == Ceil(n - 4, u)
           B == Ceil(m, u)
           B4 == Ceil(m - 4, u)
           N == Needs(n, first)
           NT == Needs(n, TRUE)
           NF == Needs(n, FALSE)
           MF == Needs(m, FALSE)
<1>10. /\ n = 0 => N = 0 /\ NF = 0
       /\ n > 0 /\ chip.dword =>
            /\ NT = 1 + A /\ NF = 1 + A4
            /\ N = 1 + A \/ N = 1 + A4
       /\ n > 0 /\ ~chip.dword =>
            N = A /\ NF = A
       /\ m = 0 => MF = 0
       /\ m > 0 /\ chip.dword => MF = 1 + B4
       /\ m > 0 /\ ~chip.dword => MF = B
  <2>1. first = TRUE \/ first = FALSE
    OBVIOUS
  <2>2. /\ n > 0 /\ chip.dword => NT = 1 + A
        /\ n > 0 /\ chip.dword => NF = 1 + A4
        /\ n > 0 /\ ~chip.dword => NT = A /\ NF = A
        /\ n = 0 => NT = 0 /\ NF = 0
    BY <1>2 DEF Needs
  <2>3. /\ m = 0 => MF = 0
        /\ m > 0 /\ chip.dword => MF = 1 + B4
        /\ m > 0 /\ ~chip.dword => MF = B
    BY <1>2 DEF Needs
  <2> HIDE DEF A, A4, B, B4, Needs
  <2> QED BY <2>1, <2>2, <2>3
<1>11. /\ A \in Nat /\ B \in Nat
       /\ n > 0 => A4 \in Nat /\ A >= 1 /\ A4 <= A
       /\ m > 0 => B4 \in Nat
       /\ n > 4 => A4 >= 1
       /\ n \in 1..4 => A = 1 /\ A4 = 0
       /\ n \in 5..8 => A4 = 1
  <2>1. n > 0 => A4 <= A
    BY <1>4, <1>9
  <2>2. /\ n \in 1..4 => n \in 1..u /\ n - 4 \in -3..0
        /\ n \in 5..8 => n - 4 \in 1..u
    BY <1>1
  <2>3. n > 4 => A4 >= 1
    BY <1>6, <1>9
  <2> QED BY <1>3, <1>5, <1>6, <1>9, <2>1, <2>2, <2>3
<1>12. m > 0 /\ m <= n => B <= A /\ B4 <= A4 /\ B4 <= A
  <2>1. m > 0 /\ m <= n => /\ n >= m /\ m >= -3
                          /\ n - 4 >= m - 4 /\ m - 4 >= -3
                          /\ n >= m - 4
    OBVIOUS
  <2> QED BY <1>4, <1>9, <2>1
<1>13. m > 0 /\ m + u <= n => B + 1 <= A /\ B4 + 1 <= A4 /\ B4 + 1 <= A
  <2>1. m > 0 /\ m + u <= n =>
          /\ n >= m /\ m >= -3 /\ n - m >= u
          /\ n - 4 >= m - 4 /\ m - 4 >= -3 /\ (n - 4) - (m - 4) >= u
          /\ n >= m - 4 /\ n - (m - 4) >= u
    BY <1>1
  <2> QED BY <1>4, <1>9, <2>1
<1>14. m > 0 /\ m + u <= n + 4 => B4 + 1 <= A
  <2>1. m > 0 /\ m + u <= n + 4 =>
          m - 4 >= -3 /\ n >= m - 4 /\ n - (m - 4) >= u
    BY <1>1
  <2> QED BY <1>4, <1>9, <2>1
<1>15. m + u <= n => n > 0
  BY <1>1
<1>18. UseCount(n, pkt) = A
  BY <1>2
<1> HIDE DEF A, A4, B, B4, N, NT, NF, MF
<1>19. /\ N \in Nat
       /\ NF <= N
       /\ n > 0 => N >= 1
  BY <1>8, <1>10, <1>11
<1>20. m <= n => MF <= N
  BY <1>8, <1>10, <1>11, <1>12
<1>21. m + u <= n => MF + 1 <= N
  BY <1>8, <1>10, <1>11, <1>13, <1>15
<1>22. ASSUME m + u <= n + 4, chip.dword, n > 0
       PROVE  MF + 1 <= NT
  BY <1>10, <1>11, <1>14, <1>22
<1>23. n \in 1..4 => NF = 1
  BY <1>8, <1>10, <1>11
<1>24. chip.dword /\ n > 4 => N >= 2
  BY <1>10, <1>11
<1>25. chip.dword /\ n \in 5..8 => NF = 2
  BY <1>10, <1>11
<1>26. NF <= UseCount(n, pkt) + One(chip.dword)
  BY <1>8, <1>10, <1>11, <1>18 DEF One
<1> QED BY <1>11, <1>18, <1>19, <1>20, <1>21, <1>22, <1>23, <1>24, <1>25,
           <1>26 DEF u, N, NT, NF, MF

\* A fragment has a sum like any other buffer.
LEMMA SumsAre ==
  ASSUME MapType
  PROVE  /\ FragsCount(pkt) = UpTo(pkt)[Len(pkt.frags)]
         /\ UpTo(pkt)[0] = 0
         /\ \A i \in 0..Len(pkt.frags) : UpTo(pkt)[i] \in Nat
         /\ \A i \in 1..Len(pkt.frags) :
              /\ UpTo(pkt)[i] = UpTo(pkt)[i - 1] + UseCount(pkt.frags[i], pkt)
              /\ UseCount(pkt.frags[i], pkt) \in Nat
         /\ UpTo(pkt)[f] <= UpTo(pkt)[Len(pkt.frags)]
<1>1. /\ Len(pkt.frags) \in Nat
      /\ \A i \in 1..Len(pkt.frags) : pkt.frags[i] \in Nat
  BY PacketIs DEF MapType
<1>2. \A i \in 1..Len(pkt.frags) : UseCount(pkt.frags[i], pkt) \in Nat
  BY <1>1, NeedsIs
<1> DEFINE n == Len(pkt.frags)
           u == UpTo(pkt)
<1>3. /\ FragsCount(pkt) = u[n] /\ u[0] = 0
      /\ \A i \in 0..n : u[i] \in Nat
      /\ \A i \in 1..n : u[i] = u[i - 1] + UseCount(pkt.frags[i], pkt)
  BY <1>1, <1>2, UpToIs
<1>4. n \in Nat /\ f \in 0..n
  BY <1>1 DEF MapType
<1> HIDE DEF n, u
<1>5. u[f] <= u[n]
  <2> DEFINE T == { i \in f..n : u[i] < u[f] }
  <2>1. SUFFICES ASSUME T # {} PROVE FALSE
    BY <1>3, <1>4
  <2>2. PICK m \in T : \A y \in T : m <= y
    <3>1. T \in SUBSET Nat
      BY <1>4
    <3> HIDE DEF T
    <3> QED BY <2>1, <3>1, Least
  <2>3. m # f
    BY <1>3, <1>4, <2>2
  <2>4. m - 1 \in f..n /\ m \in 1..n /\ m - 1 \in 0..n /\ m - 1 \notin T
    BY <1>4, <2>2, <2>3
  <2>5. /\ u[m] = u[m - 1] + UseCount(pkt.frags[m], pkt)
        /\ UseCount(pkt.frags[m], pkt) \in Nat
        /\ u[m - 1] \in Nat /\ u[f] \in Nat /\ u[m] \in Nat
    BY <1>2, <1>3, <1>4, <2>4 DEF n
  <2> QED BY <2>2, <2>4, <2>5
<1> QED BY <1>2, <1>3, <1>5 DEF n, u

\* A fragment that e1000_tx_map begins takes its part of what is left for
\* later ones.
LEMMA LaterIs ==
  ASSUME MapType
  PROVE  /\ Later \in Nat
         /\ f = Len(pkt.frags) => Later = 0
         /\ f < Len(pkt.frags) =>
              Later = UpTo(pkt)[Len(pkt.frags)] - UpTo(pkt)[f + 1]
                      + (IF chip.dword THEN Len(pkt.frags) - (f + 1) ELSE 0)
                      + UseCount(pkt.frags[f + 1], pkt) + One(chip.dword)
<1> DEFINE n == Len(pkt.frags)
           u == UpTo(pkt)
<1>1. n \in Nat /\ f \in 0..n /\ chip.dword \in BOOLEAN
  BY PacketIs DEF MapType
<1>2. /\ \A i \in 0..n : u[i] \in Nat
      /\ \A i \in 1..n : /\ u[i] = u[i - 1] + UseCount(pkt.frags[i], pkt)
                         /\ UseCount(pkt.frags[i], pkt) \in Nat
      /\ u[f] <= u[n]
  BY SumsAre
<1>3. Later = u[n] - u[f] + (IF chip.dword THEN n - f ELSE 0)
  BY DEF Later
<1> HIDE DEF n, u
<1>4. u[n] \in Nat /\ u[f] \in Nat /\ u[f] <= u[n]
  BY <1>1, <1>2
<1>5. ASSUME f < n
      PROVE  /\ u[f + 1] = u[f] + UseCount(pkt.frags[f + 1], pkt)
             /\ UseCount(pkt.frags[f + 1], pkt) \in Nat /\ u[f + 1] \in Nat
  <2>1. f + 1 \in 1..n /\ (f + 1) - 1 = f /\ f + 1 \in 0..n
    BY <1>1, <1>5
  <2> QED BY <1>2, <2>1
<1>6. ASSUME f < n
      PROVE  Later = u[n] - u[f + 1] + (IF chip.dword THEN n - (f + 1) ELSE 0)
                     + UseCount(pkt.frags[f + 1], pkt) + One(chip.dword)
  <2> DEFINE w == UseCount(pkt.frags[f + 1], pkt)
  <2>1. u[f + 1] = u[f] + w /\ w \in Nat /\ u[f + 1] \in Nat
    BY <1>5, <1>6
  <2> HIDE DEF w
  <2>2. u[n] - u[f] = u[n] - u[f + 1] + w
    BY <1>4, <2>1
  <2>3. (IF chip.dword THEN n - f ELSE 0)
        = (IF chip.dword THEN n - (f + 1) ELSE 0) + One(chip.dword)
    BY <1>1 DEF One
  <2>4. /\ (IF chip.dword THEN n - (f + 1) ELSE 0) \in Int
        /\ One(chip.dword) \in Int
    BY <1>1 DEF One
  <2> DEFINE d == IF chip.dword THEN n - f ELSE 0
             e == IF chip.dword THEN n - (f + 1) ELSE 0
             o == One(chip.dword)
  <2>5. Later = u[n] - u[f] + d /\ d = e + o /\ e \in Int /\ o \in Int
    BY <1>3, <2>3, <2>4
  <2> HIDE DEF d, e, o
  <2>6. Later = u[n] - u[f + 1] + e + w + o
    BY <1>4, <2>1, <2>2, <2>5
  <2> QED BY <2>6 DEF w, e, o
<1> QED BY <1>1, <1>3, <1>4, <1>6 DEF n, u

\* Writing a descriptor takes one off what the rest of the packet can need.
LEMMA MapStep == MapInv /\ MapChunk => MapInv'
<1> SUFFICES ASSUME MapInv, MapChunk
             PROVE  MapInv'
  OBVIOUS
<1> DEFINE n == Len(pkt.frags)
           M == MaxPerTxd(pkt)
           U == Unit(pkt)
           c == ChunkSize
           b == count = 0
<1>1. /\ part = "map" /\ MapType /\ BegunInv /\ reserved \in Nat /\ left > 0
      /\ count + Extra + Sentinel + Needs(left, b) + Later <= reserved
  BY DEF MapInv, MapChunk
<1>2. /\ count' = count + 1
      /\ lastTso' = (lastTso /\ ~(f = 0 /\ AfterTso(pkt, lastTso)))
      /\ UNCHANGED << part, pkt, chip, reserved >>
  BY DEF MapChunk
<1>3. /\ \/ /\ left > c \/ f = n
            /\ left' = left - c /\ off' = off + c /\ f' = f
         \/ /\ ~(left > c) /\ f # n
            /\ left' = pkt.frags[f + 1] /\ off' = 0 /\ f' = f + 1
  BY DEF MapChunk
<1>4. /\ n \in Nat /\ f \in 0..n /\ count \in Nat /\ left \in Nat /\ off \in Nat
      /\ lastTso \in BOOLEAN /\ chip.dword \in BOOLEAN
      /\ pkt.mss \in Nat
      /\ f # n => pkt.frags[f + 1] \in Nat /\ pkt.frags[f + 1] >= 1
  BY <1>1, PacketIs DEF MapType
<1>5. /\ c \in 1..left
      /\ left > M =>
           Extra >= 1 \/ c >= U \/ (b /\ chip.dword /\ c >= U - 4)
      /\ left <= M =>
           \/ Extra >= 1 \/ c = left
           \/ c = left - 4 /\ chip.dword /\ left > 4
           \/ /\ c = left - 4 \/ (c = left - 8 /\ chip.dword)
              /\ pkt.mss > 0 /\ f = n /\ left > 8
      /\ chip.dword /\ c < left => Odd(off + c) \/ M = 4
  BY <1>1, ChunkIs
<1>6. /\ M \in Nat /\ U \in Nat /\ 4 <= U /\ U <= M /\ M < 2 * U
      /\ M >= 8 => U % 8 = 0
  BY <1>1, SizeIs DEF MapType
<1> HIDE DEF M, U, c, n, b
<1>7. MapType'
  <2>1. f' \in 0..n /\ left' \in Nat /\ off' \in Nat /\ count' \in Nat
        /\ lastTso' \in BOOLEAN
    BY <1>2, <1>3, <1>4, <1>5
  <2> QED BY <1>1, <1>2, <2>1 DEF MapType, n
<1>8. ~AfterTso(pkt, lastTso)'
  <2>1. AfterTso(pkt, lastTso) => count = 0
    BY <1>1, <1>4 DEF BegunInv
  <2>2. AfterTso(pkt, lastTso) => f = 0
    BY <1>1, <2>1 DEF BegunInv
  <2>3. AfterTso(pkt, lastTso)' <=> AfterTso(pkt, lastTso) /\ lastTso'
    BY <1>2 DEF AfterTso
  <2> QED BY <1>2, <2>2, <2>3
<1>9. BegunInv'
  <2>1. count' > 0 /\ count' # 0
    BY <1>2, <1>4
  <2>2. chip.dword => Odd(off') \/ left' = 0 \/ M = 4
    <3>1. CASE c < left
      <4>1. off' = off + c
        BY <1>3, <1>4, <1>5, <3>1
      <4> QED BY <1>5, <3>1, <4>1
    <3>2. CASE c = left
      <4>1. left' = 0 \/ off' = 0
        BY <1>3, <1>4, <3>2
      <4> QED BY <4>1 DEF Odd
    <3> QED BY <1>4, <1>5, <3>1, <3>2
  <2> QED BY <1>2, <1>8, <2>1, <2>2 DEF BegunInv, M
<1>10. Extra' = 0 /\ Extra \in Nat
  <2>1. count' # 0
    BY <1>2, <1>4
  <2>2. ~(chip.pcix /\ count = 0 /\ pkt.head > FirstMax)'
    BY <2>1
  <2> QED BY <1>8, <2>2 DEF Extra, One
<1> DEFINE need == Needs(left, b)
           rest == Needs(left', FALSE)
<1>11. Needs(left, count = 0)' = rest
  <2>1. (count = 0)' = FALSE
    BY <1>2, <1>4
  <2>2. Needs(left, count = 0)' = Needs(left', FALSE)
    BY <1>2, <2>1 DEF Needs, UseCount
  <2> QED BY <2>2
<1>12. b \in BOOLEAN
  BY DEF b
<1>13. /\ need \in Nat /\ rest \in Nat /\ need >= 1
       /\ left' <= left => rest <= need
       /\ left' + U <= left => rest + 1 <= need
       /\ left' + U <= left + 4 /\ chip.dword /\ b => rest + 1 <= need
       /\ left' \in 1..4 => rest = 1
       /\ chip.dword /\ left' \in 5..8 => rest = 2
       /\ chip.dword /\ left > 4 => need >= 2
       /\ UseCount(left', pkt) \in Nat
       /\ rest <= UseCount(left', pkt) + One(chip.dword)
  <2>1. left' \in Nat
    BY <1>7 DEF MapType
  <2>2. b => b = TRUE
    BY <1>12
  <2>3. left' + U <= left + 4 /\ chip.dword /\ b => rest + 1 <= need
    BY <1>1, <1>4, <2>1, <2>2, NeedsIs DEF U
  <2> QED BY <1>1, <1>4, <1>12, <2>1, <2>3, NeedsIs DEF U
<1> DEFINE sent == One(pkt.mss > 0 /\ (f < n \/ left > 8))
           sent1 == One(pkt.mss > 0 /\ (f' < n \/ left' > 8))
<1>14. /\ Sentinel = sent /\ Sentinel' = sent1
       /\ sent \in 0..1 /\ sent1 \in 0..1
  BY <1>2 DEF Sentinel, One, n
<1> HIDE DEF need, rest, sent, sent1
<1>15. Later \in Int /\ (f = n => Later = 0)
  BY <1>1, LaterIs DEF n
<1>16. count + Extra + sent + need + Later <= reserved
  BY <1>1, <1>14 DEF need
<1>17. ASSUME Later' \in Int,
              rest + sent1 + Later' + 1 <= need + sent + Extra + Later
       PROVE  MapInv'
  <2>1. reserved' \in Nat /\ part' = "map" /\ reserved' = reserved
    BY <1>1, <1>2
  <2>2. (count + 1) + 0 + sent1 + rest + Later' <= reserved
    <3>1. /\ reserved \in Nat /\ count \in Nat /\ Extra \in Nat
          /\ sent \in Int /\ sent1 \in Int /\ need \in Nat /\ rest \in Nat
          /\ Later \in Int
      BY <1>1, <1>4, <1>10, <1>13, <1>14, <1>15
    <3> DEFINE x == need + sent + Extra + Later
               y == rest + sent1 + Later'
    <3>2. x \in Int /\ y \in Int /\ y + 1 <= x
      <4>1. x \in Int
        BY <3>1
      <4>2. Later' \in Int
        BY <1>17
      <4>3. y \in Int
        BY <3>1, <4>2
      <4>4. y + 1 <= x
        BY <1>17
      <4> QED BY <4>1, <4>3, <4>4
    <3>3. count + x <= reserved
      BY <1>16, <3>1
    <3>4. (count + 1) + 0 + sent1 + rest + Later' = count + (y + 1)
      BY <1>17, <3>1
    <3> HIDE DEF x, y
    <3> QED BY <3>1, <3>2, <3>3, <3>4
  <2>3. (count + Extra + Sentinel + Needs(left, count = 0) + Later <= reserved)'
    BY <1>2, <1>10, <1>11, <1>14, <2>1, <2>2
  <2> QED BY <1>7, <1>9, <2>1, <2>3 DEF MapInv
<1>18. CASE c = left
  <2>1. CASE f = n
    <3>1. left' = 0 /\ f' = f
      BY <1>3, <1>4, <1>5, <1>18, <2>1
    <3>2. Later' = Later
      BY <1>2, <3>1 DEF Later
    <3>3. rest = 0
      BY <3>1 DEF rest, Needs
    <3>4. sent1 <= sent
      BY <1>4, <2>1, <3>1 DEF One, sent, sent1
    <3> QED BY <1>10, <1>13, <1>14, <1>15, <1>17, <3>2, <3>3, <3>4
  <2>2. CASE f # n
    <3> DEFINE next == pkt.frags[f + 1]
    <3>1. left' = next /\ f' = f + 1 /\ f < n
      BY <1>3, <1>4, <1>5, <1>18, <2>2
    <3>2. Later' = UpTo(pkt)[n] - UpTo(pkt)[f + 1]
                   + (IF chip.dword THEN n - (f + 1) ELSE 0)
      BY <1>2, <3>1 DEF Later, n, UpTo, Counted, UseCount
    <3>3. Later = Later' + UseCount(next, pkt) + One(chip.dword)
      BY <1>1, <3>1, <3>2, LaterIs DEF n
    <3>4. rest <= UseCount(next, pkt) + One(chip.dword)
      BY <1>13, <3>1
    <3>5. UseCount(next, pkt) \in Nat /\ One(chip.dword) \in Nat
      BY <1>13, <3>1 DEF One
    <3>6. sent1 <= sent
      BY <1>4, <3>1 DEF One, sent, sent1
    <3>7. Later' \in Int
      <4>1. UpTo(pkt)[n] \in Nat /\ UpTo(pkt)[f + 1] \in Nat
        BY <1>1, <1>4, <3>1, SumsAre DEF n
      <4> QED BY <1>4, <3>1, <3>2, <4>1
    <3> HIDE DEF next
    <3> QED BY <1>10, <1>13, <1>14, <1>15, <1>17, <3>3, <3>4, <3>5, <3>6, <3>7
  <2> QED BY <2>1, <2>2
<1>19. CASE c < left
  <2>1. left' = left - c /\ f' = f
    BY <1>3, <1>4, <1>5, <1>19
  <2>2. Later' = Later
    BY <1>2, <2>1 DEF Later, UpTo, Counted, UseCount
  <2>3. sent1 <= sent
    BY <1>4, <1>5, <2>1 DEF One, sent, sent1
  <2>4. /\ left' \in Nat /\ left' < left /\ left' >= 1
    BY <1>4, <1>5, <1>19, <2>1
  <2>5. rest + sent1 + 1 <= need + sent + Extra
    <3>1. rest <= need
      BY <1>4, <1>13, <2>4
    <3>2. CASE Extra >= 1
      BY <1>10, <1>13, <1>14, <2>3, <3>1, <3>2
    <3>3. CASE Extra < 1 /\ left > M
      <4>1. CASE c >= U
        <5>1. left' + U <= left
          BY <1>4, <1>5, <1>6, <2>1, <4>1
        <5>2. rest + 1 <= need
          BY <1>13, <5>1
        <5> QED BY <1>10, <1>13, <1>14, <2>3, <5>2
      <4>2. CASE b /\ chip.dword /\ c >= U - 4
        <5>1. left' + U <= left + 4
          BY <1>4, <1>5, <1>6, <2>1, <4>2
        <5>2. rest + 1 <= need
          BY <1>13, <4>2, <5>1
        <5> QED BY <1>10, <1>13, <1>14, <2>3, <5>2
      <4> QED BY <1>5, <1>10, <3>3, <4>1, <4>2
    <3>4. CASE Extra < 1 /\ left <= M
      <4>1. CASE c = left - 4 /\ chip.dword /\ left > 4
        <5>1. rest = 1 /\ need >= 2
          <6>1. left' \in 1..4
            BY <1>4, <2>1, <4>1
          <6> QED BY <1>13, <4>1, <6>1
        <5> QED BY <1>10, <1>13, <1>14, <2>3, <5>1
      <4>2. CASE c = left - 4 /\ pkt.mss > 0 /\ f = n /\ left > 8
        <5>1. left' \in 1..4
          BY <1>4, <2>1, <4>2
        <5>2. rest = 1
          BY <1>13, <5>1
        <5>3. sent = 1 /\ sent1 = 0
          BY <1>4, <2>1, <4>2, <5>1 DEF One, sent, sent1
        <5> QED BY <1>10, <1>13, <5>2, <5>3
      <4>3. CASE /\ c = left - 8 /\ chip.dword
                 /\ pkt.mss > 0 /\ f = n /\ left > 8
        <5>1. left' \in 5..8
          BY <1>4, <2>1, <4>3
        <5>2. rest = 2
          BY <1>13, <4>3, <5>1
        <5>3. sent = 1 /\ sent1 = 0
          BY <1>4, <2>1, <4>3, <5>1 DEF One, sent, sent1
        <5>4. need >= 2
          BY <1>4, <1>13, <4>3
        <5> QED BY <1>10, <1>13, <5>2, <5>3, <5>4
      <4> QED BY <1>4, <1>5, <1>10, <1>19, <3>4, <4>1, <4>2, <4>3
    <3> QED BY <1>4, <1>6, <1>10, <3>2, <3>3, <3>4
  <2> QED BY <1>10, <1>13, <1>14, <1>15, <1>17, <2>2, <2>5
<1> QED BY <1>4, <1>5, <1>18, <1>19

\* e1000_xmit_frame reserves for every workaround that may meet in the packet.
LEMMA MapInit == Init => MapInv
<1> SUFFICES ASSUME Init PROVE MapInv
  OBVIOUS
<1>1. CASE InitOther
  BY <1>1 DEF InitOther, MapInv
<1>2. CASE InitMap
  <2> DEFINE n == Len(pkt.frags)
             uses == UseCount(pkt.head, pkt)
             frags == FragsCount(pkt)
             after == One(AfterTso(pkt, lastTso))
             pcix == One(chip.pcix /\ pkt.head > FirstMax)
  <2>1. /\ part = "map" /\ pkt \in Packets
        /\ chip \in [pcix : BOOLEAN, dword : BOOLEAN]
        /\ f = 0 /\ left = pkt.head /\ off \in Nat /\ count = 0
        /\ lastTso \in BOOLEAN /\ reserved = Reserve(pkt, chip, lastTso)
    BY <1>2 DEF InitMap
  <2>2. pkt.head \in Nat /\ pkt.head > 8 /\ n \in Nat
    BY <2>1, PacketIs
  <2>3. MapType /\ BegunInv /\ chip.dword \in BOOLEAN
    BY <2>1, <2>2 DEF MapType, BegunInv
  <2>4. /\ uses \in Nat /\ frags \in Nat
        /\ frags = UpTo(pkt)[n] /\ UpTo(pkt)[0] = 0
    <3>1. uses \in Nat
      BY <2>2, <2>3, NeedsIs
    <3>2. /\ frags = UpTo(pkt)[n] /\ UpTo(pkt)[0] = 0
          /\ \A i \in 0..n : UpTo(pkt)[i] \in Nat
      BY <2>3, SumsAre
    <3> QED BY <2>2, <3>1, <3>2
  <2>5. after \in 0..1 /\ pcix \in 0..1 /\ Sentinel \in 0..1
    BY DEF One, Sentinel
  <2>6. Extra = after + pcix
    BY <2>1 DEF Extra
  <2>7. Later = frags + (IF chip.dword THEN n ELSE 0)
    BY <2>1, <2>2, <2>4 DEF Later
  <2>8. Needs(left, count = 0) = uses + One(chip.dword)
    <3>1. (count = 0) = TRUE
      BY <2>1
    <3>2. Needs(left, TRUE) = uses + One(chip.dword)
      BY <2>1, <2>2, <2>3, <2>4 DEF Needs, One
    <3> QED BY <3>1, <3>2
  <2>9. reserved = 1 + after + uses + One(chip.dword) + pcix + frags
                   + (IF chip.dword THEN n ELSE 0)
    BY <2>1 DEF Reserve
  <2>10. One(chip.dword) \in 0..1
    BY DEF One
  <2> HIDE DEF n, uses, frags, after, pcix
  <2> DEFINE dwords == IF chip.dword THEN n ELSE 0
  <2>11. dwords \in Nat
    BY <2>2
  <2> HIDE DEF dwords
  <2>12. reserved \in Nat
    BY <2>4, <2>5, <2>9, <2>10, <2>11 DEF dwords
  <2>13. count + Extra + Sentinel + Needs(left, count = 0) + Later <= reserved
    <3>1. Later = frags + dwords
      BY <2>7 DEF dwords
    <3>2. reserved = 1 + after + uses + One(chip.dword) + pcix + frags + dwords
      BY <2>9 DEF dwords
    <3> QED BY <2>1, <2>4, <2>5, <2>6, <2>8, <2>10, <2>11, <3>1, <3>2
  <2> QED BY <2>1, <2>3, <2>12, <2>13 DEF MapInv
<1> QED BY <1>1, <1>2 DEF Init

\* Everything else leaves the packet alone.
LEMMA MapKept == MapInv /\ UNCHANGED << part, mapping >> => MapInv'
<1> SUFFICES ASSUME MapInv, UNCHANGED << part, mapping >> PROVE MapInv'
  OBVIOUS
<1>1. UNCHANGED << part, pkt, chip, reserved, f, left, off, count, lastTso >>
  BY DEF mapping
<1>2. MapType' = MapType /\ BegunInv' = BegunInv
  BY <1>1 DEF MapType, BegunInv, AfterTso, MaxPerTxd
<1>3. Extra' = Extra /\ Sentinel' = Sentinel
  BY <1>1 DEF Extra, Sentinel, AfterTso
<1>4. Later' = Later
  BY <1>1 DEF Later, UpTo, Counted, UseCount
<1>5. Needs(left, count = 0)' = Needs(left, count = 0)
  BY <1>1 DEF Needs, UseCount
<1> QED BY <1>1, <1>2, <1>3, <1>4, <1>5 DEF MapInv

\* DescriptorsReserved holds for any lengths of a packet's parts, any number of
\* fragments and any mss, whatever workarounds meet: the descriptors written and
\* those the rest can need never exceed what e1000_xmit_frame made sure of.
THEOREM DescriptorsSafe == Spec => []DescriptorsReserved
<1>1. MapInv /\ [Next]_vars => MapInv'
  <2> SUFFICES ASSUME MapInv, [Next]_vars PROVE MapInv'
    OBVIOUS
  <2>1. CASE MapChunk
    BY <2>1, MapStep
  <2>2. ASSUME NEW n \in Lengths, NEW half \in BOOLEAN,
               FifoSend(n, half)
        PROVE  UNCHANGED << part, mapping >>
    BY <2>2 DEF FifoSend
  <2>3. ASSUME NEW tx \in Traffic, NEW rx \in Traffic, NEW gigabit \in BOOLEAN,
               SetItr(tx, rx, gigabit)
        PROVE  UNCHANGED << part, mapping >>
    BY <2>3 DEF SetItr
  <2>4. CASE SetupInfo \/ SetupFails \/ RequestIrq \/ Release
    BY <2>4, MapKept DEF SetupInfo, SetupFails, RequestIrq, Release
  <2>5. ASSUME NEW a \in Places, SetupDesc(a) \/ SetupRetry(a)
        PROVE  UNCHANGED << part, mapping >>
    BY <2>5 DEF SetupDesc, SetupRetry
  <2>6. CASE UNCHANGED vars
    BY <2>6, MapKept DEF vars
  <2> QED BY <2>1, <2>2, <2>3, <2>4, <2>5, <2>6, MapKept DEF Next
<1>2. MapInv => DescriptorsReserved
  <2> SUFFICES ASSUME MapInv, part = "map" PROVE count <= reserved
    BY DEF MapInv, DescriptorsReserved
  <2>1. MapType /\ reserved \in Nat /\ count \in Nat
    BY DEF MapInv, MapType
  <2>2. count + Extra + Sentinel + Needs(left, count = 0) + Later <= reserved
    BY DEF MapInv
  <2>3. Extra \in Nat /\ Sentinel \in Nat
    BY DEF Extra, Sentinel, One
  <2>4. Needs(left, count = 0) \in Nat
    BY <2>1, NeedsIs DEF MapType
  <2>5. Later \in Nat
    BY <2>1, LaterIs
  <2> HIDE DEF Extra, Sentinel, Needs, Later
  <2> QED BY <2>1, <2>2, <2>3, <2>4, <2>5
<1> QED BY MapInit, <1>1, <1>2, PTL DEF Spec

-----------------------------------------------------------------------------
(* The packet buffer                                                       *)

\* The frame sizes that e1000_change_mtu accepts.
Accepted == 60..16128

\* The receive part of the packet buffer is between 22 and 48 KB whatever
\* e1000_reset takes from it for jumbo frames.
LEMMA PbaRange ==
  ASSUME NEW m \in Mac, NEW max \in Accepted
  PROVE  Pba(m, max) \in Int /\ Pba(m, max) >= 22 /\ Pba(m, max) <= 48
<1> DEFINE R == Repartition(max)
<1>1. R \in Int /\ R >= 22 /\ R <= 48
  <2> DEFINE tx == ((max + 16 - 4) * 2 + 1024 - 1) \div 1024
             rx == (max + 1024 - 1) \div 1024
  <2>1. tx \in 0..32 /\ rx \in 0..16
    BY SMT DEF Accepted
  <2>2. /\ Align((max + 16 - 4) * 2, 1024) \div 1024 = tx
        /\ Align(max, 1024) \div 1024 = rx
    <3>1. \A k \in Int : (k * 1024) \div 1024 = k
      BY SMT
    <3> QED BY <2>1, <3>1 DEF Align
  <2>3. \A l \in 1..16 : ((48 - l) \div 8) * 8 \in 32..48
    BY SMT
  <2> HIDE DEF tx, rx
  <2> DEFINE lacks == tx - 16
  <2>4. R = IF lacks > 0 /\ lacks < 48
            THEN Greater(((48 - lacks) \div 8) * 8, rx) ELSE 48
    BY <2>2 DEF Repartition
  <2>5. CASE lacks > 0 /\ lacks < 48
    <3>1. lacks \in 1..16
      BY <2>1, <2>5
    <3>2. ((48 - lacks) \div 8) * 8 \in 32..48
      BY <2>3, <3>1
    <3> QED BY <2>1, <2>4, <2>5, <3>2 DEF Greater
  <2>6. CASE ~(lacks > 0 /\ lacks < 48)
    BY <2>4, <2>6
  <2> QED BY <2>5, <2>6
<1> HIDE DEF R
<1>2. Pba(m, max) \in { R, 48, 40, 22, 30 }
  BY DEF Pba, Mac, R
<1> QED BY <1>1, <1>2

\* One full frame fits above the high-water mark, and the mark is positive.
LEMMA HighWaterLeavesRoom ==
  ASSUME NEW m \in Mac, NEW max \in Accepted
  PROVE  /\ Pba(m, max) * 1024 - HighWater(m, max) >= max
         /\ HighWater(m, max) > 8
<1>1. \A p \in Int, x \in Int :
        p >= 22 /\ p <= 48 /\ x >= 60 /\ x <= 16128
        => LET hwm == IF (p * 9216) \div 10 < p * 1024 - x
                      THEN (p * 9216) \div 10 ELSE p * 1024 - x
               mark == ((hwm % 65536) \div 8) * 8
           IN p * 1024 - mark >= x /\ mark > 8
  BY SMTT(30)
<1>2. max \in Int /\ max >= 60 /\ max <= 16128
  BY DEF Accepted
<1>3. Pba(m, max) \in Int /\ Pba(m, max) >= 22 /\ Pba(m, max) <= 48
  BY PbaRange
<1> QED BY <1>1, <1>2, <1>3 DEF HighWater, Lesser

-----------------------------------------------------------------------------

\* The adapter and its frame size are chosen once.
Chosen == mac \in Mac /\ frame \in Accepted

\* They are those that e1000_probe and e1000_change_mtu accept.
LEMMA ChosenInit == Init => Chosen
<1>1. 1518 \in Accepted /\ Frames \subseteq Accepted
  <2>1. 1518 \in 60..16128
    OBVIOUS
  <2>2. Frames \subseteq 60..16128
    BY BuffersAssumption
  <2> QED BY ONLY <2>1, <2>2 DEF Accepted
<1>2. { "82540" } \subseteq Mac
  BY DEF Mac
<1>3. InitMap => Chosen
  BY <1>1, <1>2 DEF InitMap, Chosen
<1>4. InitOther => Chosen
  BY <1>1, <1>2 DEF InitOther, Chosen
<1> QED BY <1>3, <1>4 DEF Init

\* No step of the driver changes the adapter or its frame size.
LEMMA ChosenStep == [Next]_vars => mac' = mac /\ frame' = frame
<1> SUFFICES ASSUME [Next]_vars PROVE mac' = mac /\ frame' = frame
  OBVIOUS
<1>1. CASE MapChunk
  BY <1>1 DEF MapChunk, buffer
<1>2. ASSUME NEW n \in Lengths, NEW half \in BOOLEAN,
             FifoSend(n, half)
      PROVE  mac' = mac /\ frame' = frame
  BY <1>2 DEF FifoSend
<1>3. ASSUME NEW tx \in Traffic, NEW rx \in Traffic, NEW gigabit \in BOOLEAN,
             SetItr(tx, rx, gigabit)
      PROVE  mac' = mac /\ frame' = frame
  BY <1>3 DEF SetItr, buffer
<1>4. CASE SetupInfo
  BY <1>4 DEF SetupInfo, buffer
<1>5. ASSUME NEW a \in Places, SetupDesc(a) \/ SetupRetry(a)
      PROVE  mac' = mac /\ frame' = frame
  BY <1>5 DEF SetupDesc, SetupRetry, buffer
<1>6. CASE SetupFails \/ RequestIrq \/ Release
  BY <1>6 DEF SetupFails, RequestIrq, Release, buffer
<1>7. CASE UNCHANGED vars
  BY <1>7 DEF vars, buffer
<1> QED BY <1>1, <1>2, <1>3, <1>4, <1>5, <1>6, <1>7 DEF Next

\* Every state of a behaviour has an accepted adapter and frame size.
LEMMA ChosenAlways == Spec => []Chosen
<1>1. Chosen /\ [Next]_vars => Chosen'
  BY ChosenStep DEF Chosen
<1> QED BY ChosenInit, <1>1, PTL DEF Spec

\* FrameAboveHighWater holds for every frame size that e1000_change_mtu takes
\* and every adapter: e1000_reset leaves room for a full frame above the mark.
THEOREM HighWaterSafe == Spec => []FrameAboveHighWater
<1>1. Chosen => FrameAboveHighWater
  BY HighWaterLeavesRoom DEF Chosen, FrameAboveHighWater
<1> QED BY ChosenAlways, <1>1, PTL

-----------------------------------------------------------------------------
(* The transmit fifo of the 82547                                          *)

\* The fifo has 18 KB with jumbo frames and 10 KB without, more than any one
\* packet takes.
LEMMA PacketFitsFifo ==
  ASSUME NEW max \in Accepted, NEW n \in Nat, n <= max - 4
  PROVE  /\ FifoSize("82547", max) \in Int /\ FifoLen(n) \in Int
         /\ 0 < FifoLen(n)
         /\ FifoLen(n) < FifoSize("82547", max)
<1>1. max \in Int /\ max >= 60 /\ max <= 16128
  BY DEF Accepted
<1>2. n \in Int /\ n >= 0 /\ n <= max - 4
  OBVIOUS
<1>3. FifoSize("82547", max) = IF max > 8192 THEN 18432 ELSE 10240
  BY <1>1 DEF FifoSize, Pba
<1>4. \A k \in Int : LET a == ((k + 16 + 16 - 1) \div 16) * 16
                     IN a \in Int /\ a > k /\ a <= k + 31
  BY SMT
<1>5. LET a == FifoLen(n) IN a \in Int /\ a > n /\ a <= n + 31
  BY <1>2, <1>4 DEF FifoLen, Align
<1> QED BY <1>1, <1>2, <1>3, <1>5

\* The head of the fifo, with the type that makes its bound inductive.
FifoInv ==
  mac = "82547" => /\ fifoHead \in Nat
                   /\ fifoHead < FifoSize(mac, frame)

\* FifoHeadInRange holds for packets of every length, in half duplex or full:
\* subtracting the size once always brings the head back into the fifo.
THEOREM FifoSafe == Spec => []FifoHeadInRange
<1>1. Chosen /\ Init => FifoInv
  <2>1. \A max \in Accepted : FifoSize("82547", max) > 0
    BY DEF Accepted, FifoSize, Pba
  <2> QED BY <2>1 DEF Init, FifoInv, Chosen
<1>2. Chosen /\ FifoInv /\ [Next]_vars => FifoInv'
  <2> SUFFICES ASSUME Chosen, FifoInv, [Next]_vars
               PROVE  FifoInv'
    OBVIOUS
  <2>0. mac' = mac /\ frame' = frame
    BY ChosenStep
  <2>1. ASSUME NEW n \in Lengths, NEW half \in BOOLEAN,
               FifoSend(n, half)
        PROVE  FifoInv'
    <3> DEFINE size == FifoSize(mac, frame)
               a == FifoLen(n)
    <3>1. mac = "82547"
      BY <2>1 DEF FifoSend
    <3>2. frame \in Accepted /\ n \in Nat /\ n <= frame - 4
      BY <2>1, FifoAssumption DEF Chosen, FifoSend
    <3>3. size \in Int /\ a \in Int /\ 0 < a /\ a < size
      <4>1. /\ FifoSize("82547", frame) \in Int /\ a \in Int
            /\ 0 < a /\ a < FifoSize("82547", frame)
        BY <3>2, PacketFitsFifo
      <4> QED BY <3>1, <4>1
    <3>4. fifoHead \in Nat /\ fifoHead < size
      BY <3>1 DEF FifoInv
    <3>5. fifoHead' = 0 \/ fifoHead' = FifoAdvance(n)
      BY <2>1 DEF FifoSend
    <3>6. FifoAdvance(n) = IF fifoHead + a >= size THEN fifoHead + a - size
                                                   ELSE fifoHead + a
      BY <3>3, <3>4 DEF FifoAdvance
    <3>7. FifoSize(mac', frame') = size
      BY <2>0
    <3> HIDE DEF a, size
    <3>8. fifoHead' \in Nat /\ fifoHead' < size
      BY <3>3, <3>4, <3>5, <3>6
    <3> QED BY <3>7, <3>8 DEF FifoInv
  <2>2. CASE fifoHead' = fifoHead
    BY <2>0, <2>2 DEF FifoInv, FifoSize
  <2>3. ASSUME NEW tx \in Traffic, NEW rx \in Traffic, NEW gigabit \in BOOLEAN,
               SetItr(tx, rx, gigabit)
        PROVE  fifoHead' = fifoHead
    BY <2>3 DEF SetItr, buffer
  <2>4. CASE MapChunk
    BY <2>2, <2>4 DEF MapChunk, buffer
  <2>5. CASE SetupInfo \/ SetupFails \/ RequestIrq \/ Release
    BY <2>2, <2>5 DEF SetupInfo, SetupFails, RequestIrq, Release, buffer
  <2>6. ASSUME NEW a \in Places, SetupDesc(a) \/ SetupRetry(a)
        PROVE  fifoHead' = fifoHead
    BY <2>6 DEF SetupDesc, SetupRetry, buffer
  <2>7. CASE UNCHANGED vars
    BY <2>2, <2>7 DEF vars, buffer
  <2> QED BY <2>1, <2>2, <2>3, <2>4, <2>5, <2>6, <2>7 DEF Next
<1>3. FifoInv => FifoHeadInRange
  BY DEF FifoInv, FifoHeadInRange
<1> QED BY ChosenAlways, <1>1, <1>2, <1>3, PTL DEF Spec

-----------------------------------------------------------------------------
(* The interrupt rate                                                      *)

\* e1000_update_itr stays among the three latency ranges.
LEMMA UpdateItrRange ==
  ASSUME NEW now \in Latency, NEW t \in Traffic
  PROVE  UpdateItr(now, t) \in Latency
<1>1. t.packets \in Nat /\ t.bytes \in Nat
  <2>1. t \in [packets : Nat, bytes : Nat]
    BY TrafficAssumption
  <2> QED BY <2>1
<1>2. t.packets = 0 \/ t.packets > 0
  BY <1>1
<1>3. now = 0 \/ now = 1 \/ now = 2
  BY DEF Latency
<1>4. 0 \in Latency /\ 1 \in Latency /\ 2 \in Latency
  BY DEF Latency
<1> DEFINE size == t.bytes \div t.packets
<1> HIDE DEF size
<1>5. CASE t.packets = 0
  BY <1>5 DEF UpdateItr
<1>6. CASE t.packets > 0 /\ now = 0
  BY <1>1, <1>4, <1>6 DEF UpdateItr
<1>7. CASE t.packets > 0 /\ now = 1
  BY <1>1, <1>4, <1>7 DEF UpdateItr
<1>8. CASE t.packets > 0 /\ now = 2
  BY <1>1, <1>4, <1>8 DEF UpdateItr
<1> QED BY <1>2, <1>3, <1>5, <1>6, <1>7, <1>8

\* The latency ranges behind the rate.
ItrInv ==
  /\ setting \in { 1, 3 }
  /\ rate.tx \in Latency /\ rate.rx \in Latency
  /\ itr \in Nat /\ RateInRange

\* RateInRange holds under any traffic: however e1000_set_itr goes up in
\* steps and down at once, the rate stays between 4000 and its cap.
THEOREM RateSafe == Spec => []RateInRange
<1>1. Init => ItrInv
  BY DEF Init, InitMap, InitOther, ItrInv, RateInRange, Latency
<1>2. ItrInv /\ [Next]_vars => ItrInv'
  <2> SUFFICES ASSUME ItrInv, [Next]_vars
               PROVE  ItrInv'
    OBVIOUS
  <2>1. ASSUME NEW tx \in Traffic, NEW rx \in Traffic, NEW gigabit \in BOOLEAN,
               SetItr(tx, rx, gigabit)
        PROVE  ItrInv'
    <3> DEFINE new == IF gigabit THEN Wanted(Greater(rate'.tx, rate'.rx))
                                 ELSE 4000
               cap == IF setting = 3 THEN 20000 ELSE 70000
    <3>1. setting' = setting
      BY <2>1 DEF SetItr
    <3>2. \A r \in Latency : /\ Conservative(r) \in Latency
                             /\ setting = 3 => Conservative(r) # 0
      BY DEF Conservative, Latency
    <3>3. /\ rate'.tx \in Latency /\ rate'.rx \in Latency
          /\ gigabit /\ setting = 3 => rate'.tx # 0 /\ rate'.rx # 0
      <4>1. CASE gigabit
        <5>1. /\ rate'.tx = Conservative(UpdateItr(rate.tx, tx))
              /\ rate'.rx = Conservative(UpdateItr(rate.rx, rx))
          BY <2>1, <4>1 DEF SetItr
        <5> QED BY <3>2, <5>1, UpdateItrRange DEF ItrInv
      <4>2. CASE ~gigabit
        <5>1. rate' = rate
          BY <2>1, <4>2 DEF SetItr
        <5> QED BY <4>2, <5>1 DEF ItrInv
      <4> QED BY <4>1, <4>2
    <3>4. new \in 4000..cap
      BY <3>3 DEF Wanted, Greater, Latency
    <3>5. itr' = IF new > itr THEN Lesser(itr + (new \div 4), new) ELSE new
      BY <2>1 DEF SetItr
    <3> HIDE DEF new
    <3>6. itr' \in Nat /\ itr' >= 4000 /\ itr' <= new
      <4>1. itr \in Nat /\ itr >= 4000 /\ new \in Nat /\ new >= 4000
        BY <3>4 DEF ItrInv, RateInRange
      <4>2. new \div 4 \in Nat
        BY <4>1
      <4> QED BY <3>5, <4>1, <4>2 DEF Lesser
    <3>7. RateInRange'
      BY <3>1, <3>4, <3>6 DEF RateInRange
    <3> QED BY <3>1, <3>3, <3>6, <3>7 DEF ItrInv
  <2>2. CASE UNCHANGED throttle
    BY <2>2 DEF ItrInv, RateInRange, throttle
  <2>3. CASE MapChunk \/ SetupInfo \/ SetupFails \/ RequestIrq \/ Release
    BY <2>2, <2>3 DEF MapChunk, SetupInfo, SetupFails, RequestIrq, Release
  <2>4. ASSUME NEW a \in Places, SetupDesc(a) \/ SetupRetry(a)
        PROVE  UNCHANGED throttle
    BY <2>4 DEF SetupDesc, SetupRetry
  <2>5. ASSUME NEW n \in Lengths, NEW half \in BOOLEAN,
               FifoSend(n, half)
        PROVE  UNCHANGED throttle
    BY <2>5 DEF FifoSend
  <2>6. CASE UNCHANGED vars
    BY <2>2, <2>6 DEF vars
  <2> QED BY <2>1, <2>2, <2>3, <2>4, <2>5, <2>6 DEF Next
<1>3. ItrInv => RateInRange
  BY DEF ItrInv
<1> QED BY <1>1, <1>2, <1>3, PTL DEF Spec

-----------------------------------------------------------------------------
(* The memory of the rings                                                 *)

\* Each of `parts` is held once, and nothing else.
Once(parts) == [m \in Memory |-> One(m \in parts)]

\* What is allocated at every stage of e1000_open: both parts of the rings
\* that are set up, which do not cross 64 KB, and the parts of the one at hand.
Parts ==
  CASE stage = "closed" -> {}
    [] stage = "info" -> Whole("tx")
    [] stage = "desc" -> Unwound \cup { << ring, "info" >> }
    [] stage = "retry" -> Unwound \cup { << ring, "info" >>, << ring, "old" >> }
    [] stage \in { "irq", "open" } -> Whole("tx") \cup Whole("rx")

RingInv ==
  /\ ring \in Ring /\ desc \in [Ring -> Nat]
  /\ stage \in { "closed", "info", "desc", "retry", "irq", "open" }
  /\ stage = "closed" => ring = "tx"
  /\ stage \in { "info", "irq", "open" } => ring = "rx"
  /\ ring = "rx" => ~Crosses(desc["tx"])
  /\ stage \in { "irq", "open" } => ~Crosses(desc["rx"])
  /\ live = Once(Parts)

\* Allocating what is not held and freeing what is.
LEMMA HoldIs ==
  ASSUME NEW had, live = Once(had), NEW got, NEW freed, Hold(got, freed),
         got \cap had = {}, freed \subseteq had \cup got
  PROVE  live' = Once((had \cup got) \ freed)
<1> SUFFICES ASSUME NEW m \in Memory
             PROVE  live[m] + One(m \in got) - One(m \in freed)
                    = One(m \in (had \cup got) \ freed)
  BY Zenon DEF Hold, Once
<1>1. live[m] = One(m \in had)
  BY DEF Once
<1>2. m \in got => m \notin had
  OBVIOUS
<1>3. m \in freed => m \in had \/ m \in got
  OBVIOUS
<1> QED BY <1>1, <1>2, <1>3 DEF One

\* A setup that fails with all it allocated for its ring given back leaves
\* nothing: e1000_open frees the transmit ring when it was the other's.
LEMMA FailOwnsNothing ==
  ASSUME RingInv, NEW got, NEW freed, Fail(got, freed), desc' \in [Ring -> Nat],
         got \cap Parts = {}, Unwound \subseteq Parts,
         freed \cup Unwound = Parts \cup got
  PROVE  RingInv'
<1>1. live' = Once((Parts \cup got) \ (freed \cup Unwound))
  BY HoldIs DEF Fail, RingInv
<1>2. (Parts \cup got) \ (freed \cup Unwound) = {}
  OBVIOUS
<1>3. ring' = "tx" /\ stage' = "closed"
  BY DEF Fail, At
<1>4. Parts' = {}
  BY <1>3 DEF Parts
<1>5. live' = Once(Parts')
  BY <1>1, <1>2, <1>4 DEF Once
<1> QED BY <1>3, <1>5 DEF RingInv, Ring

\* An address is a number.
LEMMA PlacesAre == \A a \in Places : a \in Nat
BY PlacesAssumption

\* RingMemoryOwned holds for every size of the rings and every address that
\* the allocator returns, whatever fails and in whatever order.
THEOREM RingsSafe == Spec => []RingMemoryOwned
<1>1. Init => RingInv
  <2> SUFFICES ASSUME Init PROVE RingInv
    OBVIOUS
  <2>1. ring = "tx" /\ stage = "closed" /\ desc \in [Ring -> Nat]
    BY DEF Init
  <2>2. Parts = {}
    BY <2>1 DEF Parts
  <2>3. live = Once(Parts)
    BY <2>2 DEF Init, Once, One
  <2> QED BY <2>1, <2>3 DEF RingInv, Ring
<1>2. RingInv /\ [Next]_vars => RingInv'
  <2> SUFFICES ASSUME RingInv, [Next]_vars
               PROVE  RingInv'
    OBVIOUS
  <2>0. \A a : Crosses(a)' = Crosses(a)
    BY ChosenStep DEF Crosses, RingBytes
  <2>1. CASE SetupInfo
    <3>1. CASE Fail({}, {})
      <4>1. desc' \in [Ring -> Nat] /\ Parts = Unwound
        BY <2>1 DEF SetupInfo, RingInv, Parts, Unwound
      <4> QED BY <3>1, <4>1, FailOwnsNothing
    <3>2. CASE Hold({ << ring, "info" >> }, {}) /\ At(ring, "desc")
      <4>1. live' = Once((Parts \cup { << ring, "info" >> }) \ {})
        <5>1. << ring, "info" >> \notin Parts
          BY <2>1 DEF SetupInfo, RingInv, Parts, Whole
        <5> QED BY <3>2, <5>1, HoldIs DEF RingInv
      <4>2. Parts' = (Parts \cup { << ring, "info" >> }) \ {}
        BY <2>1, <3>2 DEF SetupInfo, At, RingInv, Parts, Unwound
      <4> QED BY <2>0, <2>1, <3>2, <4>1, <4>2 DEF SetupInfo, At, RingInv
    <3> QED BY <2>1, <3>1, <3>2 DEF SetupInfo
  <2>2. ASSUME NEW a \in Places, SetupDesc(a)
        PROVE  RingInv'
    <3>1. a \in Nat /\ desc' = [desc EXCEPT ![ring] = a]
      BY <2>2, PlacesAre, Zenon DEF SetupDesc
    <3>2. stage = "desc" /\ Parts = Unwound \cup { << ring, "info" >> }
      BY <2>2 DEF SetupDesc, Parts
    <3>3. CASE Crosses(a)
      <4>1. live' = Once((Parts \cup { << ring, "old" >> }) \ {})
        <5>1. << ring, "old" >> \notin Parts
          BY <3>2 DEF Unwound, Whole
        <5>2. Hold({ << ring, "old" >> }, {})
          BY <2>2, <3>3 DEF SetupDesc
        <5> QED BY <5>1, <5>2, HoldIs DEF RingInv
      <4>2. ring' = ring /\ stage' = "retry"
        BY <2>2, <3>3 DEF SetupDesc, At
      <4>3. Parts' = (Parts \cup { << ring, "old" >> }) \ {}
        BY <3>2, <4>2 DEF Parts, Unwound
      <4> QED BY <2>0, <3>1, <3>2, <4>1, <4>2, <4>3 DEF RingInv, Ring
    <3>4. CASE ~Crosses(a)
      <4>1. live' = Once((Parts \cup { << ring, "desc" >> }) \ {})
        <5>1. << ring, "desc" >> \notin Parts
          BY <3>2 DEF Unwound, Whole, RingInv, Ring
        <5>2. Hold({ << ring, "desc" >> }, {})
          BY <2>2, <3>4 DEF SetupDesc
        <5> QED BY <5>1, <5>2, HoldIs DEF RingInv
      <4>2. ring' = "rx" /\ stage' = (IF ring = "tx" THEN "info" ELSE "irq")
        BY <2>2, <3>4 DEF SetupDesc, Done, At
      <4>3. Parts' = (Parts \cup { << ring, "desc" >> }) \ {}
        BY <3>2, <4>2 DEF Parts, Unwound, Whole, RingInv, Ring
      <4> QED BY <2>0, <3>1, <3>2, <3>4, <4>1, <4>2, <4>3
              DEF RingInv, Ring
    <3> QED BY <3>3, <3>4
  <2>3. ASSUME NEW a \in Places, SetupRetry(a)
        PROVE  RingInv'
    <3>1. a \in Nat /\ desc' = [desc EXCEPT ![ring] = a]
      BY <2>3, PlacesAre, Zenon DEF SetupRetry
    <3>2. /\ stage = "retry"
          /\ Parts = Unwound \cup { << ring, "info" >>, << ring, "old" >> }
      BY <2>3 DEF SetupRetry, Parts
    <3>3. << ring, "desc" >> \notin Parts
      BY <3>2 DEF Unwound, Whole, RingInv, Ring
    <3>4. CASE Crosses(a)
      <4>1. Fail({ << ring, "desc" >> }, { << ring, "desc" >> } \cup RetryDie)
        BY <2>3, <3>4 DEF SetupRetry
      <4>2. ({ << ring, "desc" >> } \cup RetryDie) \cup Unwound
            = Parts \cup { << ring, "desc" >> }
        BY <3>2 DEF RetryDie, DescDie
      <4>3. desc' \in [Ring -> Nat]
        BY <3>1 DEF RingInv
      <4> QED BY <3>2, <3>3, <4>1, <4>2, <4>3, FailOwnsNothing
    <3>5. CASE ~Crosses(a)
      <4>1. live' = Once((Parts \cup { << ring, "desc" >> })
                         \ { << ring, "old" >> })
        <5>1. Hold({ << ring, "desc" >> }, { << ring, "old" >> })
          BY <2>3, <3>5 DEF SetupRetry
        <5> QED BY <3>2, <3>3, <5>1, HoldIs DEF RingInv
      <4>2. ring' = "rx" /\ stage' = (IF ring = "tx" THEN "info" ELSE "irq")
        BY <2>3, <3>5 DEF SetupRetry, Done, At
      <4>3. Parts' = (Parts \cup { << ring, "desc" >> }) \ { << ring, "old" >> }
        BY <3>2, <4>2 DEF Parts, Unwound, Whole, RingInv, Ring
      <4> QED BY <2>0, <3>1, <3>2, <3>5, <4>1, <4>2, <4>3
              DEF RingInv, Ring
    <3> QED BY <3>4, <3>5
  <2>4. CASE SetupFails
    <3>1. desc' \in [Ring -> Nat]
      BY <2>4 DEF SetupFails, RingInv
    <3>2. CASE stage = "desc" /\ Fail({}, DescDie)
      <4>1. Parts = DescDie \cup Unwound
        BY <3>2 DEF Parts, DescDie
      <4> QED BY <3>1, <3>2, <4>1, FailOwnsNothing
    <3>3. CASE stage = "retry" /\ Fail({}, RetryDie)
      <4>1. Parts = RetryDie \cup Unwound
        BY <3>3 DEF Parts, RetryDie, DescDie
      <4> QED BY <3>1, <3>3, <4>1, FailOwnsNothing
    <3> QED BY <2>4, <3>2, <3>3 DEF SetupFails
  <2>5. CASE RequestIrq
    <3>1. Parts' = Parts /\ live' = live
      BY <2>5 DEF RequestIrq, Parts
    <3> QED BY <2>0, <2>5, <3>1 DEF RequestIrq, RingInv
  <2>6. CASE Release
    <3>1. Parts = Whole("tx") \cup Whole("rx")
      BY <2>6 DEF Release, Parts
    <3>2. live' = Once((Parts \cup {}) \ (Whole("tx") \cup Whole("rx")))
      BY <2>6, <3>1, HoldIs DEF Release, RingInv
    <3>3. ring' = "tx" /\ stage' = "closed"
      BY <2>6 DEF Release, At
    <3>4. Parts' = (Parts \cup {}) \ (Whole("tx") \cup Whole("rx"))
      BY <3>1, <3>3 DEF Parts
    <3> QED BY <2>6, <3>2, <3>3, <3>4 DEF Release, RingInv, Ring
  <2>7. CASE UNCHANGED memory
    <3>1. Parts' = Parts /\ live' = live
      BY <2>7 DEF memory, Parts, Unwound
    <3> QED BY <2>0, <2>7, <3>1 DEF memory, RingInv
  <2>8. CASE MapChunk
    BY <2>7, <2>8 DEF MapChunk
  <2>9. ASSUME NEW n \in Lengths, NEW half \in BOOLEAN, FifoSend(n, half)
        PROVE  UNCHANGED memory
    BY <2>9 DEF FifoSend
  <2>10. ASSUME NEW tx \in Traffic, NEW rx \in Traffic, NEW gigabit \in BOOLEAN,
                SetItr(tx, rx, gigabit)
         PROVE  UNCHANGED memory
    BY <2>10 DEF SetItr
  <2>11. CASE UNCHANGED vars
    BY <2>7, <2>11 DEF vars
  <2> QED BY <2>1, <2>2, <2>3, <2>4, <2>5, <2>6, <2>7, <2>8, <2>9, <2>10,
             <2>11 DEF Next
<1>3. RingInv => RingMemoryOwned
  <2> SUFFICES ASSUME RingInv PROVE RingMemoryOwned
    OBVIOUS
  <2>1. \A m \in Memory : live[m] = One(m \in Parts)
    <3>1. live = Once(Parts)
      BY DEF RingInv
    <3> QED BY <3>1, Zenon DEF Once
  <2>2. stage = "closed" => Parts = {}
    BY DEF Parts
  <2>3. stage = "open" => Parts = Whole("tx") \cup Whole("rx")
    BY DEF Parts
  <2>4. stage = "open" => \A r \in Ring : ~Crosses(desc[r])
    BY DEF RingInv, Ring
  <2> QED BY <2>1, <2>2, <2>3, <2>4 DEF RingMemoryOwned, One
<1> QED BY <1>1, <1>2, <1>3, PTL DEF Spec
=============================================================================
