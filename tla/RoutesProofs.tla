---------------------------- MODULE RoutesProofs ----------------------------
(***************************************************************************)
(* Theorems about Routes: for addresses of any length and any number of    *)
(* networks, generateIPList() and getPositiveIPList() keep every address   *)
(* on its side, as long as no networks are awkward neighbours.             *)
(*                                                                         *)
(* The prover knows nothing of powers of two and cannot use the induction  *)
(* theorems of the library, so that the first part proves what is needed   *)
(* of them; the second shows that networks are disjoint or nested.  The    *)
(* steps of the loop are then treated as changes to sets of networks.      *)
(***************************************************************************)
EXTENDS Routes, WellFoundedInduction, TLAPS

-----------------------------------------------------------------------------
(* The inductive invariant                                                  *)

\* A network as the callers hand it over and as the halves are made.
Net == [net : Addresses, mask : 0..Bits, included : BOOLEAN]

\* The networks that wait in the queue, those that wait more than once, all that
\* generateIPList() still has to deal with, and all it has.
Waiting == BagToSet(networks)
Repeated(queue) == {n \in BagToSet(queue) : queue[n] > 1}
Twice == Repeated(networks)
Live == Waiting \cup ({currentNet} \ {NoNet})
All == ipsDone \cup Live

Shape ==
    /\ routes \subseteq Net /\ ipsDone \subseteq Net
    /\ IsABag(networks) /\ Waiting \subseteq Net
    /\ currentNet \in Net \cup {NoNet} /\ (currentNet = NoNet => Waiting = {})
    /\ positive \subseteq Net
    /\ pc \in {"fill", "local", "merge", "done"}

\* What the callers have put into the space.
Filled ==
    /\ \A m, n \in routes : SameNet(m, n) => m = n
    /\ ~StartIsShared(routes) /\ ~LowerHalfIsTaken(routes)

Disjoint(nets) == \A m, n \in nets : m = n \/ Last(m) < First(n) \/ Last(n) < First(m)

\* The loop is at c: what waits does not come before it, and what is finished lies behind.
InOrder(done, waiting, c) ==
    /\ \A n \in waiting : ~Before(n, c)
    /\ \A d \in done : Last(d) < First(c)

\* The same network is not both included and excluded.
NoConflict(nets) == \A m, n \in nets : SameNet(m, n) => m.included = n.included

\* m is part of another network, or is there twice.
IsCovered(nets, twice, m) == m \in twice \/ \E k \in nets : k # m /\ ContainsNet(k, m)

Starts(n, m) == Inside(n, m) /\ First(n) = First(m)

\* No network that is covered starts with a smaller one.
StartsAreFree(nets, twice) ==
    \A m, n \in nets : Starts(n, m) => ~IsCovered(nets, twice, m)

Parent(m) == [m EXCEPT !.mask = @ - 1]

\* m is an exception in k, and n is in the other half of the block whose upper half m is.
TakesLowerHalf(k, m, n) ==
    /\ Inside(m, k) /\ m.included # k.included
    /\ Last(n) < First(m) /\ ContainsNet(Parent(m), n)

LowerHalvesAreFree(nets) == \A k, m, n \in nets : ~TakesLowerHalf(k, m, n)

\* The networks the loop may be working on, c among them.
Sound(done, waiting, twice, c) ==
    /\ InOrder(done, waiting, c) /\ Disjoint(done)
    /\ NoConflict(waiting \cup {c})
    /\ StartsAreFree(waiting \cup {c}, twice)
    /\ LowerHalvesAreFree(waiting \cup {c})

\* A route waits as it was until nothing of the other kind is around it.
Remain(rs, live, all) ==
    \A r \in rs, n \in all :
        Inside(r, n) /\ r.included # n.included =>
            \E m \in live : SameNet(m, r) /\ m.included = r.included

Merging ==
    /\ currentNet # NoNet => Sound(ipsDone, Waiting, Twice, currentNet)
    /\ Remain(routes, Live, All)
    /\ SpaceIsKept

Inv ==
    /\ Shape /\ Filled
    /\ pc = "merge" => Merging
    /\ PositiveIsExact /\ DoneIsDisjoint

-----------------------------------------------------------------------------
(* Powers of two                                                            *)

\* What holds of 0 and passes from each number to the next holds of all: induction as a
\* statement about sets.
LEMMA AllNumbers ==
    ASSUME NEW T \in SUBSET Nat, 0 \in T, \A n \in T : n + 1 \in T
    PROVE  T = Nat
  <1> DEFINE R == OpToRel(<, Nat)  U == Nat \ T
  <1>1. IsWellFoundedOn(R, Nat)
    BY NatLessThanWellFounded
  <1>2. ASSUME U # {} PROVE FALSE
    <2>1. U \subseteq Nat
      OBVIOUS
    <2>2. \E x \in U : \A y \in U : <<y, x>> \notin R
      <3> HIDE DEF R, U
      <3> QED
        BY <1>1, <1>2, <2>1, WFMin
    <2>3. PICK x \in U : \A y \in U : <<y, x>> \notin R
      BY <2>2
    <2>4. \A y \in Nat : y < x => <<y, x>> \in R
      BY DEF OpToRel
    <2>5. x - 1 \in Nat /\ x - 1 < x
      OBVIOUS
    <2>6. x - 1 \in T
      BY <2>3, <2>4, <2>5
    <2> QED
      BY <2>5, <2>6
  <1> QED
    BY <1>2

\* f doubles from 0 up to n.
Doubles(f, n) == f[0] = 1 /\ \A i \in 1..n : f[i] = 2 * f[i - 1]

LEMMA DoublingExists == \A n \in Nat : \E f \in [0..n -> Nat] : Doubles(f, n)
  <1> DEFINE T == {n \in Nat : \E f \in [0..n -> Nat] : Doubles(f, n)}
  <1>1. 0 \in T
    <2> DEFINE f == [i \in 0..0 |-> 1]
    <2>1. f \in [0..0 -> Nat] /\ Doubles(f, 0)
      BY DEF Doubles
    <2> QED
      BY <2>1
  <1>2. ASSUME NEW n \in T PROVE n + 1 \in T
    <2>1. PICK f \in [0..n -> Nat] : Doubles(f, n)
      OBVIOUS
    <2> DEFINE g == [i \in 0..(n + 1) |-> IF i = n + 1 THEN 2 * f[n] ELSE f[i]]
    <2>2. n \in Nat /\ n \in 0..n /\ f[n] \in Nat
      OBVIOUS
    <2>3. g \in [0..(n + 1) -> Nat]
      BY <2>2
    <2>4. Doubles(g, n + 1)
      <3>1. g[0] = 1
        BY <2>1, <2>2 DEF Doubles
      <3>2. ASSUME NEW i \in 1..(n + 1) PROVE g[i] = 2 * g[i - 1]
        <4>1. CASE i = n + 1
          BY <2>2, <4>1
        <4>2. CASE i # n + 1
          <5>1. i \in 1..n /\ i - 1 \in 0..n /\ i \in 0..n
            BY <2>2, <4>2
          <5>2. g[i] = f[i] /\ g[i - 1] = f[i - 1]
            BY <2>2, <4>2, <5>1
          <5> QED
            BY <2>1, <5>1, <5>2 DEF Doubles
        <4> QED
          BY <4>1, <4>2
      <3> QED
        BY <3>1, <3>2 DEF Doubles
    <2>5. \E h \in [0..(n + 1) -> Nat] : Doubles(h, n + 1)
      <3> HIDE DEF g
      <3> QED
        BY <2>3, <2>4
    <2>6. n + 1 \in Nat
      BY <2>2
    <2> QED
      BY <2>5, <2>6, Zenon
  <1> HIDE DEF T
  <1>3. T = Nat
    <2>1. T \in SUBSET Nat
      BY DEF T
    <2> QED
      BY <1>1, <1>2, <2>1, AllNumbers
  <1> QED
    BY <1>3 DEF T

LEMMA DoublingIsUnique ==
    ASSUME NEW n \in Nat, NEW m \in Nat, NEW f, NEW g, Doubles(f, n), Doubles(g, m)
    PROVE  \A i \in 0..n : i <= m => f[i] = g[i]
  <1> DEFINE T == {i \in Nat : i <= n /\ i <= m => f[i] = g[i]}
  <1>1. 0 \in T
    BY DEF Doubles
  <1>2. ASSUME NEW i \in T PROVE i + 1 \in T
    <2> SUFFICES ASSUME i + 1 <= n, i + 1 <= m PROVE f[i + 1] = g[i + 1]
      OBVIOUS
    <2>1. i \in Nat /\ i + 1 \in 1..n /\ i + 1 \in 1..m /\ (i + 1) - 1 = i /\ f[i] = g[i]
      OBVIOUS
    <2> QED
      BY <2>1 DEF Doubles
  <1>3. T \in SUBSET Nat
    OBVIOUS
  <1>4. T = Nat
    <2> HIDE DEF T
    <2> QED
      BY <1>1, <1>2, <1>3, AllNumbers
  <1> QED
    BY <1>4

\* PowerOfTwo is what its definition says.
LEMMA PowerDoubles ==
    /\ PowerOfTwo[0] = 1
    /\ \A n \in Nat : PowerOfTwo[n] \in Nat \ {0} /\ PowerOfTwo[n + 1] = 2 * PowerOfTwo[n]
  <1> DEFINE F(n) == CHOOSE f \in [0..n -> Nat] : Doubles(f, n)
             G == [n \in Nat |-> F(n)[n]]
  <1>1. \A n \in Nat : F(n) \in [0..n -> Nat] /\ Doubles(F(n), n)
    BY DoublingExists
  <1> HIDE DEF F
  <1>2. G[0] = 1
    BY <1>1 DEF Doubles
  <1>3. ASSUME NEW n \in Nat PROVE G[n + 1] = 2 * G[n] /\ G[n] \in Nat
    <2> DEFINE a == F(n)  b == F(n + 1)
    <2>1. n + 1 \in Nat
      OBVIOUS
    <2>2. a \in [0..n -> Nat] /\ Doubles(a, n) /\ Doubles(b, n + 1)
      BY <1>1, <2>1
    <2>3. G[n] = a[n] /\ G[n + 1] = b[n + 1]
      OBVIOUS
    <2> HIDE DEF G, a, b
    <2>4. a[n] = b[n]
      BY <2>1, <2>2, DoublingIsUnique
    <2>5. b[n + 1] = 2 * b[n]
      BY <2>2 DEF Doubles
    <2> QED
      BY <2>2, <2>3, <2>4, <2>5
  <1>4. G = [n \in Nat |-> IF n = 0 THEN 1 ELSE 2 * G[n - 1]]
    <2>1. ASSUME NEW n \in Nat PROVE G[n] = IF n = 0 THEN 1 ELSE 2 * G[n - 1]
      <3>1. CASE n = 0
        BY <1>2, <3>1
      <3>2. CASE n # 0
        <4>1. n - 1 \in Nat /\ (n - 1) + 1 = n
          BY <3>2
        <4> HIDE DEF G
        <4> QED
          BY <1>3, <3>2, <4>1
      <3> QED
        BY <3>1, <3>2
    <2> QED
      BY <2>1
  <1> DEFINE P == PowerOfTwo
  <1>5. P = [n \in Nat |-> IF n = 0 THEN 1 ELSE 2 * P[n - 1]]
    <2> HIDE DEF G
    <2>1. \E p : p = [n \in Nat |-> IF n = 0 THEN 1 ELSE 2 * p[n - 1]]
      BY <1>4
    <2> QED
      BY <2>1 DEF PowerOfTwo
  <1> HIDE DEF P
  <1>6. P[0] = 1 /\ \A n \in Nat : P[n + 1] = 2 * P[n]
    BY <1>5
  <1> DEFINE T == {n \in Nat : P[n] \in Nat \ {0}}
  <1>7. T = Nat
    <2>1. 0 \in T /\ T \in SUBSET Nat
      BY <1>6
    <2>2. ASSUME NEW n \in T PROVE n + 1 \in T
      <3>1. n \in Nat /\ P[n] \in Nat \ {0} /\ P[n + 1] = 2 * P[n]
        BY <1>6
      <3> QED
        BY <3>1
    <2> HIDE DEF T
    <2> QED
      BY <2>1, <2>2, AllNumbers
  <1> QED
    BY <1>6, <1>7 DEF P

\* The powers of two multiply.
LEMMA PowersMultiply ==
    \A a, b \in Nat : PowerOfTwo[a + b] = PowerOfTwo[a] * PowerOfTwo[b]
  <1> SUFFICES ASSUME NEW a \in Nat
               PROVE  \A b \in Nat : PowerOfTwo[a + b] = PowerOfTwo[a] * PowerOfTwo[b]
    OBVIOUS
  <1> DEFINE T == {b \in Nat : PowerOfTwo[a + b] = PowerOfTwo[a] * PowerOfTwo[b]}
  <1>1. 0 \in T /\ T \in SUBSET Nat
    BY PowerDoubles
  <1>2. ASSUME NEW b \in T PROVE b + 1 \in T
    <2> DEFINE x == PowerOfTwo[a]  y == PowerOfTwo[b]  z == PowerOfTwo[a + b]
    <2>1. x \in Nat /\ y \in Nat /\ z \in Nat /\ z = x * y
      BY PowerDoubles
    <2>2. PowerOfTwo[b + 1] = 2 * y /\ PowerOfTwo[(a + b) + 1] = 2 * z
      BY PowerDoubles
    <2>3. 2 * (x * y) = x * (2 * y)
      <3> HIDE DEF x, y
      <3> QED
        BY <2>1
    <2>4. a + (b + 1) = (a + b) + 1
      OBVIOUS
    <2> QED
      BY <2>1, <2>2, <2>3, <2>4
  <1>3. T = Nat
    <2> HIDE DEF T
    <2> QED
      BY <1>1, <1>2, AllNumbers
  <1> QED
    BY <1>3
-----------------------------------------------------------------------------
(* Networks as blocks of addresses                                          *)

LEMMA SizeFacts ==
    /\ \A m \in 0..Bits : Size(m) = PowerOfTwo[Bits - m] /\ Size(m) \in Nat \ {0}
    /\ \A m \in 0..Bits : m < Bits => Size(m) = 2 * Size(m + 1)
  <1>1. ASSUME NEW m \in 0..Bits
        PROVE  Size(m) = PowerOfTwo[Bits - m] /\ Size(m) \in Nat \ {0}
    <2>1. Bits - m \in Nat /\ (m = Bits => Bits - m = 0)
      BY ConstantsAssumption
    <2>2. Size(m) = PowerOfTwo[Bits - m]
      BY <2>1, PowerDoubles, ConstantsAssumption DEF Size
    <2> QED
      BY <2>1, <2>2, PowerDoubles
  <1>2. ASSUME NEW m \in 0..Bits, m < Bits PROVE Size(m) = 2 * Size(m + 1)
    <2>1. m + 1 \in 0..Bits /\ Bits - (m + 1) \in Nat /\ (Bits - (m + 1)) + 1 = Bits - m
      BY <1>2, ConstantsAssumption
    <2> QED
      BY <1>1, <2>1, PowerDoubles
  <1> QED
    BY <1>1, <1>2

\* Of two networks the size of the one is a multiple of the size of the other.
LEMMA SizeDivides ==
    ASSUME NEW p \in 0..Bits, NEW q \in 0..Bits, p <= q
    PROVE  \E k \in Nat \ {0} : Size(p) = k * Size(q) /\ (p < q => 2 <= k)
  <1>1. Bits - q \in Nat /\ q - p \in Nat /\ (q - p) + (Bits - q) = Bits - p
    BY ConstantsAssumption
  <1>2. Size(p) = PowerOfTwo[q - p] * Size(q)
    BY <1>1, PowersMultiply, SizeFacts
  <1>3. p < q => 2 <= PowerOfTwo[q - p]
    <2> SUFFICES ASSUME p < q PROVE 2 <= PowerOfTwo[q - p]
      OBVIOUS
    <2>1. (q - p) - 1 \in Nat /\ ((q - p) - 1) + 1 = q - p
      BY <1>1
    <2>2. PowerOfTwo[q - p] = 2 * PowerOfTwo[(q - p) - 1] /\ PowerOfTwo[(q - p) - 1] \in Nat \ {0}
      BY <2>1, PowerDoubles
    <2> QED
      BY <2>2
  <1>4. PowerOfTwo[q - p] \in Nat \ {0}
    BY <1>1, PowerDoubles
  <1> QED
    BY <1>2, <1>3, <1>4

LEMMA AddressesAreNumbers == 0 \in Addresses /\ Addresses \subseteq Nat
  BY PowerDoubles, ConstantsAssumption DEF Addresses

LEMMA TimesGrows ==
    ASSUME NEW x \in Int, NEW y \in Int, NEW s \in Nat, x <= y
    PROVE  x * s <= y * s
  <1>1. y * s = x * s + (y - x) * s
    OBVIOUS
  <1>2. 0 <= (y - x) * s
    OBVIOUS
  <1> QED
    BY <1>1, <1>2

LEMMA SizeOrder ==
    ASSUME NEW p \in 0..Bits, NEW q \in 0..Bits, p < q
    PROVE  2 * Size(q) <= Size(p)
  <1>1. PICK k \in Nat \ {0} : Size(p) = k * Size(q) /\ 2 <= k
    BY SizeDivides
  <1> QED
    BY <1>1, SizeFacts, TimesGrows

LEMMA Division ==
    ASSUME NEW x \in Nat, NEW s \in Nat \ {0}
    PROVE  x \div s \in Nat /\ x % s \in 0..(s - 1) /\ x = s * (x \div s) + (x % s)
  <1> DEFINE q == x \div s  r == x % s
  <1>1. q \in Int /\ r \in 0..(s - 1)
    OBVIOUS
  <1>2. x = s * q + r
    OBVIOUS
  <1> HIDE DEF q, r
  <1>3. q < 0 => s * q <= -s
    BY <1>1
  <1>4. ~(q < 0)
    BY <1>1, <1>2, <1>3
  <1> QED
    BY <1>1, <1>2, <1>4 DEF q, r

\* A network is a block whose first address is a multiple of its size.
LEMMA BlockFacts ==
    ASSUME NEW n \in Net
    PROVE  /\ n.mask \in 0..Bits /\ First(n) \in Nat /\ Last(n) \in Nat
           /\ Last(n) = First(n) + Size(n.mask) - 1
           /\ First(n) <= n.net /\ n.net <= Last(n) /\ First(n) <= Last(n)
           /\ \E i \in Nat : First(n) = i * Size(n.mask)
  <1> DEFINE s == Size(n.mask)  i == n.net \div s  r == n.net % s
  <1>1. n.mask \in 0..Bits /\ n.net \in Nat /\ s \in Nat \ {0}
    BY SizeFacts, AddressesAreNumbers DEF Net
  <1>2. i \in Nat /\ r \in 0..(s - 1) /\ n.net = s * i + r
    BY <1>1, Division
  <1>3. First(n) = n.net - r /\ Last(n) = First(n) + s - 1
    BY DEF First, Last
  <1> HIDE DEF s, i, r
  <1>4. First(n) = i * s /\ First(n) \in Nat
    BY <1>1, <1>2, <1>3
  <1> QED
    BY <1>1, <1>2, <1>3, <1>4 DEF s

\* Two networks lie apart, or the smaller one is part of the larger one.
LEMMA Laminar ==
    ASSUME NEW a \in Net, NEW b \in Net, a.mask <= b.mask
    PROVE  ContainsNet(a, b) \/ Last(a) < First(b) \/ Last(b) < First(a)
  <1> DEFINE s == Size(b.mask)
  <1>1. PICK i \in Nat : First(a) = i * Size(a.mask)
    BY BlockFacts
  <1>2. PICK j \in Nat : First(b) = j * s
    BY BlockFacts
  <1>3. PICK k \in Nat \ {0} : Size(a.mask) = k * s
    BY SizeDivides, BlockFacts
  <1>4. s \in Nat \ {0}
    BY SizeFacts, BlockFacts
  <1>5. First(a) = (i * k) * s /\ Last(a) = (i * k) * s + k * s - 1 /\ Last(b) = j * s + s - 1
    <2>1. i * (k * s) = (i * k) * s
      BY <1>4
    <2> QED
      BY <1>1, <1>2, <1>3, <2>1, BlockFacts
  <1> DEFINE c == i * k
  <1>6. c \in Nat /\ (c + k) * s = c * s + k * s /\ (j + 1) * s = j * s + s
    BY <1>4
  <1>7. c * s \in Nat /\ k * s \in Nat /\ j * s \in Nat
    BY <1>4, <1>6
  <1> HIDE DEF c, s
  <1>8. CASE j + 1 <= c
    <2>1. (j + 1) * s <= c * s
      BY <1>4, <1>6, <1>8, TimesGrows
    <2> QED
      BY <1>2, <1>4, <1>5, <1>6, <1>7, <2>1 DEF c
  <1>9. CASE c + k <= j
    <2>1. (c + k) * s <= j * s
      BY <1>4, <1>6, <1>9, TimesGrows
    <2> QED
      BY <1>2, <1>4, <1>5, <1>6, <1>7, <2>1 DEF c
  <1>10. CASE c <= j /\ j + 1 <= c + k
    <2>1. c * s <= j * s /\ (j + 1) * s <= (c + k) * s
      BY <1>4, <1>6, <1>10, TimesGrows
    <2> QED
      BY <1>2, <1>4, <1>5, <1>6, <1>7, <2>1 DEF c, ContainsNet
  <1> QED
    BY <1>6, <1>8, <1>9, <1>10

\* Every network lies within the address space.
LEMMA BlockInSpace ==
    ASSUME NEW n \in Net
    PROVE  First(n) \in Addresses /\ Last(n) \in Addresses
  <1> DEFINE whole == [net |-> 0, mask |-> 0, included |-> TRUE]
  <1>1. whole \in Net
    BY AddressesAreNumbers, ConstantsAssumption DEF Net
  <1>2. Size(0) = PowerOfTwo[Bits] /\ Size(0) \in Nat \ {0}
    BY SizeFacts, ConstantsAssumption
  <1>3. First(whole) = 0
    BY <1>2 DEF First
  <1>4. Last(whole) = PowerOfTwo[Bits] - 1
    BY <1>2, <1>3 DEF Last
  <1>5. n.net <= PowerOfTwo[Bits] - 1 /\ First(n) <= n.net /\ First(n) \in Nat /\ Last(n) \in Nat
    BY <1>2, BlockFacts DEF Net, Addresses
  <1>6. 0 <= n.mask /\ whole.mask = 0
    BY BlockFacts
  <1>7. ContainsNet(whole, n) \/ Last(whole) < First(n) \/ Last(n) < First(whole)
    BY <1>1, <1>6, Laminar
  <1> HIDE DEF whole
  <1>8. First(n) <= Last(n) /\ PowerOfTwo[Bits] \in Nat /\ n.net \in Nat
    BY <1>2, BlockFacts, AddressesAreNumbers DEF Net
  <1>9. Last(n) <= PowerOfTwo[Bits] - 1
    <2>1. ~(Last(whole) < First(n)) /\ ~(Last(n) < First(whole))
      BY <1>3, <1>4, <1>5, <1>8
    <2> QED
      BY <1>4, <1>5, <1>7, <1>8, <2>1 DEF ContainsNet
  <1> QED
    BY <1>5, <1>8, <1>9 DEF Addresses

\* What is part of a network is not larger.
LEMMA ContainedIsSmaller ==
    ASSUME NEW a \in Net, NEW b \in Net, ContainsNet(a, b)
    PROVE  /\ a.mask <= b.mask
           /\ a.mask = b.mask <=> First(a) = First(b) /\ Last(a) = Last(b)
           /\ a.mask = b.mask <=> SameNet(a, b)
  <1>1. a.mask \in 0..Bits /\ b.mask \in 0..Bits
    BY BlockFacts
  <1>2. Size(a.mask) \in Nat \ {0} /\ Size(b.mask) \in Nat \ {0}
    BY <1>1, SizeFacts
  <1>3. /\ First(a) \in Nat /\ First(b) \in Nat
        /\ Last(a) = First(a) + Size(a.mask) - 1 /\ Last(b) = First(b) + Size(b.mask) - 1
    BY BlockFacts
  <1>4. First(a) <= First(b) /\ Last(a) >= Last(b)
    BY DEF ContainsNet
  <1>5. Size(a.mask) >= Size(b.mask)
    BY <1>2, <1>3, <1>4
  <1>6. a.mask <= b.mask
    BY <1>1, <1>2, <1>5, SizeOrder
  <1>7. a.mask = b.mask => First(a) = First(b) /\ Last(a) = Last(b)
    BY <1>2, <1>3, <1>4
  <1>8. First(a) = First(b) /\ Last(a) = Last(b) => a.mask = b.mask
    <2>1. a.mask # b.mask => 2 * Size(b.mask) <= Size(a.mask)
      BY <1>1, <1>6, SizeOrder
    <2> QED
      BY <1>2, <1>3, <2>1
  <1> QED
    BY <1>6, <1>7, <1>8 DEF SameNet

\* The halves of a network are networks and add up to it.
LEMMA HalvesFacts ==
    ASSUME NEW n \in Net, n.mask < Bits
    PROVE  /\ LowerHalf(n) \in Net /\ UpperHalf(n) \in Net
           /\ LowerHalf(n).mask = n.mask + 1 /\ UpperHalf(n).mask = n.mask + 1
           /\ LowerHalf(n).included = n.included /\ UpperHalf(n).included = n.included
           /\ First(LowerHalf(n)) = First(n) /\ Last(UpperHalf(n)) = Last(n)
           /\ First(UpperHalf(n)) = Last(LowerHalf(n)) + 1
           /\ (First(UpperHalf(n)) \div Size(n.mask + 1)) % 2 = 1
  <1> DEFINE s == Size(n.mask + 1)  l == LowerHalf(n)  u == UpperHalf(n)
  <1>1. n.mask \in 0..Bits /\ n.mask + 1 \in 0..Bits
    <2>1. n.mask \in 0..Bits
      BY DEF Net
    <2> QED
      BY <2>1, ConstantsAssumption
  <1>2. s \in Nat \ {0} /\ Size(n.mask) = 2 * s
    BY <1>1, SizeFacts
  <1>3. PICK i \in Nat : First(n) = i * (2 * s)
    BY <1>2, BlockFacts
  <1>4. First(n) \in Nat /\ Last(n) = First(n) + 2 * s - 1
    BY <1>2, BlockFacts
  <1>5. l \in Net /\ l.net = First(n) /\ l.mask = n.mask + 1 /\ l.included = n.included
    BY <1>1, BlockInSpace DEF LowerHalf, Net
  <1>6. First(n) = (2 * i) * s /\ First(n) + s = (2 * i + 1) * s
    <2> HIDE DEF s
    <2> QED
      BY <1>2, <1>3
  <1>7. First(n) % s = 0 /\ (First(n) + s) % s = 0 /\ (First(n) + s) \div s = 2 * i + 1
    <2> HIDE DEF s
    <2>1. \A c \in Nat : (c * s) % s = 0 /\ (c * s) \div s = c
      BY <1>2
    <2>2. 2 * i \in Nat /\ 2 * i + 1 \in Nat
      OBVIOUS
    <2> QED
      BY <1>6, <2>1, <2>2
  <1>8. First(l) = First(n) - (First(n) % s) /\ Last(l) = First(l) + s - 1
    BY <1>5 DEF First, Last
  <1>9. First(l) = First(n) /\ Last(l) = First(n) + s - 1
    <2> HIDE DEF s, l
    <2> QED
      BY <1>2, <1>4, <1>7, <1>8
  <1> DEFINE x == First(n) + s
  <1>10. Last(l) + 1 = x /\ x \in Addresses
    <2>1. Last(n) \in Addresses /\ PowerOfTwo[Bits] \in Nat
      BY BlockInSpace, PowerDoubles, ConstantsAssumption
    <2> HIDE DEF s, l
    <2>2. First(n) <= x /\ x <= Last(n) /\ x = Last(l) + 1
      BY <1>2, <1>4, <1>9
    <2> QED
      BY <1>2, <1>4, <2>1, <2>2 DEF Addresses
  <1>11. u \in Net /\ u.net = x /\ u.mask = n.mask + 1 /\ u.included = n.included
    <2>1. u.net = Last(l) + 1 /\ u.mask = n.mask + 1 /\ u.included = n.included
      BY DEF UpperHalf, Net
    <2>2. Last(l) + 1 \in Addresses
      BY <1>10
    <2>3. u \in Net
      BY <1>1, <2>2 DEF UpperHalf, Net
    <2> QED
      BY <1>10, <2>1, <2>3
  <1>12. First(u) = x - (x % s) /\ Last(u) = First(u) + s - 1
    BY <1>11 DEF First, Last
  <1> HIDE DEF s, l, u
  <1>13. First(u) = x
    BY <1>2, <1>4, <1>7, <1>12
  <1>14. Last(u) = Last(n) /\ First(u) = Last(l) + 1
    BY <1>2, <1>4, <1>10, <1>12, <1>13
  <1>15. (First(u) \div s) % 2 = 1
    <2>1. First(u) \div s = 2 * i + 1
      BY <1>7, <1>13
    <2> QED
      BY <2>1
  <1> QED
    BY <1>5, <1>9, <1>11, <1>14, <1>15 DEF s, l, u
-----------------------------------------------------------------------------
(* Networks around, inside and beside each other                            *)

\* Two networks around the same one: the smaller is part of the larger.
LEMMA BothAround ==
    ASSUME NEW a \in Net, NEW b \in Net, NEW x \in Net,
           ContainsNet(a, x), ContainsNet(b, x), a.mask <= b.mask
    PROVE  ContainsNet(a, b)
  <1>1. /\ First(a) \in Nat /\ Last(a) \in Nat /\ First(b) \in Nat /\ Last(b) \in Nat
        /\ First(x) \in Nat /\ Last(x) \in Nat /\ First(x) <= Last(x)
    BY BlockFacts
  <1> QED
    BY <1>1, Laminar DEF ContainsNet

LEMMA ContainsIsOrder ==
    ASSUME NEW a \in Net, NEW b \in Net, NEW c \in Net
    PROVE  /\ ContainsNet(a, a)
           /\ ContainsNet(a, b) /\ ContainsNet(b, c) => ContainsNet(a, c)
           /\ ContainsNet(a, b) /\ ContainsNet(b, a) => SameNet(a, b)
           /\ SameNet(a, b) => ContainsNet(a, b) /\ ContainsNet(b, a)
  <1>1. /\ First(a) \in Nat /\ Last(a) \in Nat /\ First(b) \in Nat /\ Last(b) \in Nat
        /\ First(c) \in Nat /\ Last(c) \in Nat
    BY BlockFacts
  <1>2. ContainsNet(a, b) /\ ContainsNet(b, a) => SameNet(a, b)
    BY <1>1, ContainedIsSmaller DEF ContainsNet
  <1>3. SameNet(a, b) => ContainsNet(a, b) /\ ContainsNet(b, a)
    <2>1. /\ Last(a) = First(a) + Size(a.mask) - 1 /\ Last(b) = First(b) + Size(b.mask) - 1
          /\ Size(a.mask) \in Nat /\ Size(b.mask) \in Nat
      BY BlockFacts, SizeFacts
    <2> QED
      BY <1>1, <2>1 DEF SameNet, ContainsNet
  <1> QED
    BY <1>1, <1>2, <1>3 DEF ContainsNet

\* Whatever is part of a network and smaller is part of one of its halves.
LEMMA InHalf ==
    ASSUME NEW n \in Net, NEW x \in Net, n.mask < Bits, ContainsNet(n, x), n.mask < x.mask
    PROVE  ContainsNet(LowerHalf(n), x) \/ ContainsNet(UpperHalf(n), x)
  <1> DEFINE l == LowerHalf(n)  u == UpperHalf(n)
  <1>1. /\ l \in Net /\ u \in Net /\ l.mask = n.mask + 1 /\ u.mask = n.mask + 1
        /\ First(l) = First(n) /\ Last(u) = Last(n) /\ First(u) = Last(l) + 1
    BY HalvesFacts
  <1>2. n.mask \in Nat /\ x.mask \in Nat /\ l.mask <= x.mask /\ u.mask <= x.mask
    BY <1>1, BlockFacts
  <1>3. /\ First(n) \in Nat /\ Last(n) \in Nat /\ First(x) \in Nat /\ Last(x) \in Nat
        /\ Last(l) \in Nat /\ First(u) \in Nat /\ First(x) <= Last(x)
    BY <1>1, BlockFacts
  <1>4. ContainsNet(l, x) \/ Last(l) < First(x) \/ Last(x) < First(l)
    BY <1>1, <1>2, Laminar
  <1>5. ContainsNet(u, x) \/ Last(u) < First(x) \/ Last(x) < First(u)
    BY <1>1, <1>2, Laminar
  <1> HIDE DEF l, u
  <1> QED
    BY <1>1, <1>3, <1>4, <1>5 DEF ContainsNet, l, u

\* The halves are parts of the network, apart from each other and from what is behind.
LEMMA HalvesInside ==
    ASSUME NEW n \in Net, n.mask < Bits, NEW h \in {LowerHalf(n), UpperHalf(n)}
    PROVE  /\ h \in Net /\ h.mask = n.mask + 1 /\ h.included = n.included
           /\ ContainsNet(n, h) /\ n.mask < h.mask /\ Inside(h, n) /\ h # n
  <1> DEFINE l == LowerHalf(n)  u == UpperHalf(n)
  <1>1. /\ l \in Net /\ u \in Net /\ l.mask = n.mask + 1 /\ u.mask = n.mask + 1
        /\ l.included = n.included /\ u.included = n.included
        /\ First(l) = First(n) /\ Last(u) = Last(n) /\ First(u) = Last(l) + 1
    BY HalvesFacts
  <1>2. /\ First(l) \in Nat /\ Last(l) \in Nat /\ First(u) \in Nat /\ Last(u) \in Nat
        /\ First(l) <= Last(l) /\ First(u) <= Last(u) /\ n.mask \in Nat
        /\ First(n) \in Nat /\ Last(n) \in Nat
    BY <1>1, BlockFacts
  <1>3. n.mask < l.mask /\ n.mask < u.mask
    BY <1>1, <1>2
  <1> HIDE DEF l, u
  <1>4. ContainsNet(n, l) /\ ContainsNet(n, u)
    BY <1>1, <1>2 DEF ContainsNet
  <1>5. h \in {l, u}
    BY DEF l, u
  <1>6. h.mask # n.mask
    BY <1>1, <1>2, <1>3, <1>5
  <1>7. h # n
    BY <1>6
  <1> QED
    BY <1>1, <1>3, <1>4, <1>5, <1>7 DEF Inside

\* What is around a half and larger is around the whole.
LEMMA AroundHalf ==
    ASSUME NEW n \in Net, n.mask < Bits, NEW h \in {LowerHalf(n), UpperHalf(n)},
           NEW x \in Net, ContainsNet(x, h), x.mask < h.mask
    PROVE  ContainsNet(x, n)
  <1>1. h \in Net /\ h.mask = n.mask + 1 /\ ContainsNet(n, h)
    BY HalvesInside
  <1>2. x.mask <= n.mask
    BY <1>1, BlockFacts
  <1> QED
    BY <1>1, <1>2, BothAround

LEMMA ParentFacts ==
    ASSUME NEW m \in Net, 0 < m.mask
    PROVE  /\ Parent(m) \in Net /\ Parent(m).mask = m.mask - 1 /\ Parent(m).mask < Bits
           /\ ContainsNet(Parent(m), m) /\ Parent(m).mask < m.mask
  <1> DEFINE p == Parent(m)
  <1>1. m.mask \in 0..Bits /\ m.mask - 1 \in 0..Bits /\ m.mask - 1 < Bits /\ m.mask - 1 < m.mask
    BY BlockFacts, ConstantsAssumption
  <1>2. p \in Net /\ p.mask = m.mask - 1 /\ p.net = m.net
    BY <1>1 DEF Parent, Net
  <1>3. /\ First(m) \in Nat /\ Last(m) \in Nat /\ First(p) \in Nat /\ Last(p) \in Nat
        /\ First(m) <= m.net /\ m.net <= Last(m) /\ First(p) <= p.net /\ p.net <= Last(p)
        /\ m.net \in Nat
    BY <1>2, BlockFacts, AddressesAreNumbers DEF Net
  <1>4. p.mask <= m.mask
    BY <1>1, <1>2
  <1> HIDE DEF p
  <1>5. ContainsNet(p, m) \/ Last(p) < First(m) \/ Last(m) < First(p)
    BY <1>2, <1>4, Laminar
  <1>6. ~(Last(p) < First(m)) /\ ~(Last(m) < First(p))
    <2>1. p.net = m.net
      BY <1>2
    <2> QED
      BY <1>3, <2>1
  <1> QED
    BY <1>1, <1>2, <1>5, <1>6 DEF p

\* A network with something before it in the same parent is its upper half.
LEMMA UpperHalfIsOdd ==
    ASSUME NEW m \in Net, NEW n \in Net, 0 < m.mask, Last(n) < First(m), ContainsNet(Parent(m), n)
    PROVE  (First(m) \div Size(m.mask)) % 2 = 1
  <1> DEFINE p == Parent(m)  l == LowerHalf(p)  u == UpperHalf(p)
  <1>1. p \in Net /\ p.mask < Bits /\ ContainsNet(p, m) /\ p.mask = m.mask - 1 /\ p.mask < m.mask
    BY ParentFacts
  <1>2. /\ l \in Net /\ u \in Net /\ l.mask = p.mask + 1 /\ u.mask = p.mask + 1
        /\ First(l) = First(p) /\ (First(u) \div Size(p.mask + 1)) % 2 = 1
    BY <1>1, HalvesFacts
  <1>3. ContainsNet(l, m) \/ ContainsNet(u, m)
    BY <1>1, InHalf
  <1> HIDE DEF p, l, u
  <1>4. m.mask \in Nat /\ p.mask + 1 = m.mask
    BY <1>1, BlockFacts
  <1>5. ~ContainsNet(l, m)
    <2> SUFFICES ASSUME ContainsNet(l, m) PROVE FALSE
      OBVIOUS
    <2>1. First(l) = First(m)
      BY <1>2, <1>4, ContainedIsSmaller
    <2>2. First(p) <= First(n)
      BY DEF ContainsNet, p
    <2>3. First(n) <= Last(n) /\ First(n) \in Nat /\ Last(n) \in Nat /\ First(m) \in Nat
      BY BlockFacts
    <2> QED
      BY <1>2, <2>1, <2>2, <2>3
  <1>6. First(u) = First(m)
    BY <1>2, <1>3, <1>4, <1>5, ContainedIsSmaller
  <1> QED
    BY <1>2, <1>4, <1>6

\* So ~LowerHalfIsTaken(), which the callers' networks are assumed to satisfy, is the same.
LEMMA LowerHalvesAreFreeAtFirst ==
    ASSUME NEW nets \in SUBSET Net, ~LowerHalfIsTaken(nets)
    PROVE  LowerHalvesAreFree(nets)
  <1> SUFFICES ASSUME NEW k \in nets, NEW m \in nets, NEW n \in nets, TakesLowerHalf(k, m, n)
               PROVE  FALSE
    BY DEF LowerHalvesAreFree
  <1>1. 0 < m.mask
    BY BlockFacts DEF TakesLowerHalf, Inside
  <1>2. (First(m) \div Size(m.mask)) % 2 = 1
    BY <1>1, UpperHalfIsOdd DEF TakesLowerHalf
  <1> QED
    BY <1>2 DEF TakesLowerHalf, LowerHalfIsTaken, Parent

\* What is around a network and something larger is around its parent.
LEMMA AroundParent ==
    ASSUME NEW m \in Net, NEW k \in Net, Inside(m, k)
    PROVE  0 < m.mask /\ ContainsNet(k, Parent(m))
  <1>1. k.mask \in Nat /\ m.mask \in Nat /\ k.mask < m.mask /\ ContainsNet(k, m)
    BY BlockFacts DEF Inside
  <1>2. Parent(m) \in Net /\ ContainsNet(Parent(m), m) /\ k.mask <= Parent(m).mask
    BY <1>1, ParentFacts
  <1> QED
    BY <1>1, <1>2, BothAround
-----------------------------------------------------------------------------
(* The rounds of the loop as changes to sets of networks                    *)

\* Fewer networks are no worse.
LEMMA FewerAreSound ==
    ASSUME NEW big, NEW nets \in SUBSET big, NEW twice, NEW fewer \in SUBSET twice
    PROVE  /\ NoConflict(big) => NoConflict(nets)
           /\ StartsAreFree(big, twice) => StartsAreFree(nets, fewer)
           /\ LowerHalvesAreFree(big) => LowerHalvesAreFree(nets)
  BY DEF NoConflict, StartsAreFree, IsCovered, LowerHalvesAreFree

\* What waits starts where c starts, and is larger then, or after it.
LEMMA AfterCurrent ==
    ASSUME NEW c \in Net, NEW n \in Net, ~Before(n, c)
    PROVE  /\ First(c) <= First(n)
           /\ First(c) = First(n) => n.mask <= c.mask /\ ContainsNet(n, c)
  <1>1. First(c) \in Nat /\ First(n) \in Nat /\ c.mask \in Nat /\ n.mask \in Nat
    BY BlockFacts
  <1>2. First(c) <= First(n)
    BY <1>1 DEF Before
  <1>3. First(c) = First(n) => n.mask <= c.mask
    BY <1>1 DEF Before
  <1>4. First(c) = First(n) => ContainsNet(n, c)
    <2> SUFFICES ASSUME First(c) = First(n) PROVE ContainsNet(n, c)
      OBVIOUS
    <2>1. First(c) <= Last(c) /\ First(n) <= Last(n) /\ Last(c) \in Nat /\ Last(n) \in Nat
      BY BlockFacts
    <2> QED
      BY <1>1, <1>3, <2>1, Laminar
  <1> QED
    BY <1>2, <1>3, <1>4

\* A round that looks at the current network c and a least one that waits, n, when the two
\* overlap: done, waiting and twice are what is finished, what waits and what waits twice;
\* rest is what waits without n.
Round(done, waiting, twice, c, n, rest) ==
    /\ done \subseteq Net /\ waiting \subseteq Net /\ twice \subseteq waiting
    /\ c \in Net /\ n \in waiting
    /\ Sound(done, waiting, twice, c)
    /\ \A m \in waiting : ~Before(m, n)
    /\ First(n) <= Last(c)
    /\ rest \subseteq waiting /\ waiting \ {n} \subseteq rest /\ (n \in rest => n \in twice)

\* c lies in n and begins where n does.
LEMMA InNext ==
    ASSUME NEW D, NEW W, NEW T, NEW c, NEW n, NEW R, Round(D, W, T, c, n, R),
           First(c) = First(n), c.mask >= n.mask, c.included # n.included
    PROVE  /\ n.mask < Bits /\ Starts(c, n) /\ c \in W \cup {c} /\ n # c
           /\ \A k \in W \cup {c} : ContainsNet(k, n) => k = n
           /\ R = W \ {n} /\ n \notin R /\ n \notin T
  <1>1. c \in Net /\ n \in Net /\ n \in W /\ c.mask \in 0..Bits /\ n.mask \in 0..Bits
    BY BlockFacts DEF Round
  <1>2. ContainsNet(n, c)
    BY <1>1, AfterCurrent DEF Round, Sound, InOrder
  <1>3. c.mask # n.mask
    BY <1>1 DEF Round, Sound, NoConflict, SameNet
  <1>4. n.mask < c.mask /\ n.mask < Bits
    <2>1. c.mask \in Nat /\ n.mask \in Nat /\ c.mask <= Bits /\ Bits \in Nat
      BY <1>1, ConstantsAssumption
    <2> QED
      BY <1>3, <2>1
  <1>5. Starts(c, n)
    BY <1>2, <1>4 DEF Starts, Inside
  <1>6. ~IsCovered(W \cup {c}, T, n)
    BY <1>1, <1>5 DEF Round, Sound, StartsAreFree
  <1>7. n \notin T /\ \A k \in W \cup {c} : ContainsNet(k, n) => k = n
    BY <1>6 DEF IsCovered
  <1>8. n # c
    BY <1>3
  <1>9. R = W \ {n}
    BY <1>7 DEF Round
  <1> QED
    BY <1>4, <1>5, <1>7, <1>8, <1>9

\* The halves generateIPList() puts into the queue for n: the lower one is c already, or
\* the queue has it.
HalvesToAdd(c, n, rest) ==
    {h \in {UpperHalf(n)} \cup (IF Last(LowerHalf(n)) = Last(c) THEN {} ELSE {LowerHalf(n)}) :
        ~\E m \in rest : SameNet(m, h)}

LEMMA SplitNextSound ==
    ASSUME NEW D, NEW W, NEW T, NEW c, NEW n, NEW R, Round(D, W, T, c, n, R),
           First(c) = First(n), c.mask >= n.mask, c.included # n.included,
           NEW T1 \in SUBSET T
    PROVE  /\ Sound(D, R \cup HalvesToAdd(c, n, R), T1, c)
           /\ \A h \in {LowerHalf(n), UpperHalf(n)} :
                 \E z \in R \cup HalvesToAdd(c, n, R) \cup {c} : SameNet(z, h)
           /\ HalvesToAdd(c, n, R) \subseteq {LowerHalf(n), UpperHalf(n)}
           /\ \A k \in R \cup HalvesToAdd(c, n, R) \cup {c} : ~ContainsNet(k, n)
  <1> DEFINE lo == LowerHalf(n)  up == UpperHalf(n)  H == HalvesToAdd(c, n, R)
             L == W \cup {c}  L1 == R \cup H \cup {c}
  <1>1. /\ n.mask < Bits /\ Starts(c, n) /\ c \in L /\ n # c
        /\ \A k \in L : ContainsNet(k, n) => k = n
        /\ R = W \ {n} /\ n \notin R /\ n \notin T
    BY InNext
  <1>2. /\ c \in Net /\ n \in Net /\ n \in W /\ D \subseteq Net /\ W \subseteq Net /\ T \subseteq W
        /\ NoConflict(L) /\ StartsAreFree(L, T) /\ LowerHalvesAreFree(L)
        /\ InOrder(D, W, c) /\ Disjoint(D) /\ \A m \in W : ~Before(m, n)
    BY DEF Round, Sound
  <1>3. \A h \in {lo, up} : /\ h \in Net /\ h.mask = n.mask + 1 /\ h.included = n.included
                            /\ ContainsNet(n, h) /\ n.mask < h.mask /\ Inside(h, n) /\ h # n
    BY <1>1, <1>2, HalvesInside
  <1>4. \A h \in {lo, up}, x \in Net : ContainsNet(x, h) /\ x.mask < h.mask => ContainsNet(x, n)
    BY <1>1, <1>2, AroundHalf
  <1>5. First(lo) = First(n) /\ Last(up) = Last(n) /\ First(up) = Last(lo) + 1
    BY <1>1, <1>2, HalvesFacts
  <1>6. /\ First(lo) \in Nat /\ Last(lo) \in Nat /\ First(up) \in Nat /\ First(lo) <= Last(lo)
        /\ First(c) \in Nat /\ Last(c) \in Nat /\ First(n) \in Nat
        /\ n.mask \in Nat /\ c.mask \in Nat /\ lo.mask \in Nat /\ up.mask \in Nat
    BY <1>2, <1>3, BlockFacts
  <1>7. First(lo) < First(up) /\ lo # up /\ ~SameNet(lo, up) /\ First(up) # First(c)
    <2>1. First(lo) < First(up) /\ First(up) # First(c)
      BY <1>5, <1>6
    <2> QED
      BY <1>6, <2>1 DEF SameNet
  <1>8. H \subseteq {lo, up} /\ \A h \in H : ~\E m \in R : SameNet(m, h)
    BY DEF HalvesToAdd
  <1>9. lo \in H => ~SameNet(c, lo)
    <2>1. Last(c) = First(c) + Size(c.mask) - 1 /\ Last(lo) = First(lo) + Size(lo.mask) - 1
      BY <1>2, <1>3, BlockFacts
    <2>2. SameNet(c, lo) => Last(lo) = Last(c)
      <3> HIDE DEF lo
      <3> QED
        BY <2>1 DEF SameNet
    <2>3. lo \in H /\ lo # up => Last(lo) # Last(c)
      BY DEF HalvesToAdd
    <2> QED
      BY <1>7, <2>2, <2>3
  <1>10. \A h \in H, m \in R \cup {c} : ~SameNet(m, h)
    BY <1>7, <1>8, <1>9 DEF SameNet
  <1>11. L1 \subseteq Net /\ L1 \subseteq L \cup {lo, up} /\ n \notin L1
    BY <1>1, <1>2, <1>3, <1>8
  <1> HIDE DEF H, lo, up
  <1>12. \A k \in L1 : ~ContainsNet(k, n)
    <2> SUFFICES ASSUME NEW k \in L1, ContainsNet(k, n) PROVE FALSE
      OBVIOUS
    <2>1. CASE k \in L
      BY <1>1, <1>11, <2>1
    <2>2. CASE k \in {lo, up}
      <3>1. k \in Net /\ n.mask < k.mask
        BY <1>3, <2>2
      <3>2. k.mask <= n.mask
        BY <1>2, <3>1, ContainedIsSmaller
      <3> QED
        BY <1>6, <3>1, <3>2, BlockFacts
    <2> QED
      BY <1>11, <2>1, <2>2
  <1>13. \A h \in {lo, up}, k \in L1 : ContainsNet(k, h) => k.mask = h.mask /\ SameNet(k, h)
    <2> SUFFICES ASSUME NEW h \in {lo, up}, NEW k \in L1, ContainsNet(k, h)
                 PROVE  k.mask = h.mask /\ SameNet(k, h)
      OBVIOUS
    <2>1. k \in Net /\ h \in Net
      BY <1>3, <1>11
    <2>2. k.mask <= h.mask /\ k.mask \in Nat /\ h.mask \in Nat
      BY <2>1, ContainedIsSmaller, BlockFacts
    <2>3. ~(k.mask < h.mask)
      BY <1>4, <1>12, <2>1
    <2>4. k.mask = h.mask
      BY <2>2, <2>3
    <2> QED
      BY <2>1, <2>4, ContainedIsSmaller
  <1>14. \A h \in H, k \in L1 : ContainsNet(k, h) => k = h
    <2> SUFFICES ASSUME NEW h \in H, NEW k \in L1, ContainsNet(k, h), k # h PROVE FALSE
      OBVIOUS
    <2>1. h \in {lo, up} /\ SameNet(k, h)
      BY <1>8, <1>13
    <2>2. k \in H
      BY <1>10, <2>1
    <2>3. {k, h} = {lo, up}
      BY <1>8, <2>1, <2>2
    <2> QED
      BY <1>7, <2>1, <2>3 DEF SameNet
  <1>15. InOrder(D, R \cup H, c)
    <2>1. ~Before(up, c)
      BY <1>5, <1>6 DEF Before
    <2>2. ~Before(lo, c)
      <3>1. n.mask < c.mask
        BY <1>1 DEF Starts, Inside
      <3>2. lo.mask <= c.mask /\ First(lo) = First(c)
        BY <1>3, <1>5, <1>6, <3>1
      <3> QED
        BY <1>6, <3>2 DEF Before
    <2> QED
      BY <1>1, <1>2, <1>8, <2>1, <2>2 DEF InOrder
  <1>16. NoConflict(L1)
    <2> SUFFICES ASSUME NEW x \in L1, NEW y \in L1, SameNet(x, y) PROVE x.included = y.included
      BY DEF NoConflict
    <2>1. SameNet(y, x)
      BY DEF SameNet
    <2>2. CASE x \in H \/ y \in H
      <3>1. x \in H /\ y \in H
        BY <1>10, <2>1, <2>2
      <3> QED
        BY <1>3, <1>8, <3>1
    <2>3. CASE x \notin H /\ y \notin H
      BY <1>1, <1>2, <2>3 DEF NoConflict
    <2> QED
      BY <2>2, <2>3
  <1>17. StartsAreFree(L1, T1)
    <2> SUFFICES ASSUME NEW m \in L1, NEW s \in L1, Starts(s, m), IsCovered(L1, T1, m)
                 PROVE  FALSE
      BY DEF StartsAreFree
    <2>1. m \in Net /\ s \in Net /\ ContainsNet(m, s) /\ m.mask < s.mask /\ First(s) = First(m)
      BY <1>11 DEF Starts, Inside
    <2>2. CASE s \in H
      BY <1>14, <2>1, <2>2, BlockFacts
    <2>3. CASE m \in H
      <3>1. m \in T1
        BY <1>14, <2>3 DEF IsCovered
      <3>2. m \in R
        BY <1>1, <1>2, <3>1
      <3> QED
        BY <1>10, <2>3, <3>2 DEF SameNet
    <2>4. CASE s \notin H /\ m \notin H
      <3>1. s \in L /\ m \in L /\ m # n
        BY <1>1, <1>11, <2>4
      <3>2. m \notin T
        BY <1>2, <3>1 DEF StartsAreFree, IsCovered
      <3>3. PICK k \in L1 : k # m /\ ContainsNet(k, m)
        BY <3>2 DEF IsCovered
      <3>4. k \in L \/ k \in {lo, up}
        BY <1>11
      <3>5. k \in {lo, up} => ContainsNet(n, m)
        BY <1>2, <1>3, <2>1, <3>3, ContainsIsOrder
      <3>6. \E j \in L : j # m /\ ContainsNet(j, m)
        BY <1>2, <3>1, <3>3, <3>4, <3>5
      <3> QED
        BY <1>2, <3>1, <3>6 DEF StartsAreFree, IsCovered
    <2> QED
      BY <2>2, <2>3, <2>4
  <1>18. LowerHalvesAreFree(L1)
    <2> SUFFICES ASSUME NEW k \in L1, NEW m \in L1, NEW s \in L1, TakesLowerHalf(k, m, s)
                 PROVE  FALSE
      BY DEF LowerHalvesAreFree
    <2>1. /\ Inside(m, k) /\ m.included # k.included /\ k \in Net /\ m \in Net /\ s \in Net
          /\ Last(s) < First(m) /\ ContainsNet(Parent(m), s)
          /\ ContainsNet(k, m) /\ k.mask < m.mask
      BY <1>11 DEF TakesLowerHalf, Inside
    <2>2. /\ 0 < m.mask /\ ContainsNet(k, Parent(m)) /\ Parent(m) \in Net
          /\ ContainsNet(Parent(m), m)
      BY <2>1, AroundParent, ParentFacts
    <2>3. m \notin H
      <3> SUFFICES ASSUME m \in H PROVE FALSE
        OBVIOUS
      <3>1. k = m
        BY <1>14, <2>1
      <3> QED
        BY <2>1, <3>1
    <2>4. s \notin H
      <3> SUFFICES ASSUME s \in H PROVE FALSE
        OBVIOUS
      <3>1. s \in {lo, up} /\ s.mask \in Nat /\ Parent(m).mask <= s.mask /\ Parent(m).mask \in Nat
        BY <1>8, <2>1, <2>2, ContainedIsSmaller, BlockFacts
      <3>2. CASE Parent(m).mask < s.mask
        <4>1. ContainsNet(Parent(m), n)
          BY <1>4, <2>1, <2>2, <3>1, <3>2
        <4>2. ContainsNet(k, n)
          BY <1>2, <2>1, <2>2, <4>1, ContainsIsOrder
        <4> QED
          BY <1>12, <4>2
      <3>3. CASE Parent(m).mask = s.mask
        <4>1. Last(Parent(m)) = Last(s)
          BY <2>1, <2>2, <3>3, ContainedIsSmaller
        <4>2. First(m) <= Last(m) /\ Last(m) <= Last(Parent(m))
          BY <2>1, <2>2, BlockFacts DEF ContainsNet
        <4> QED
          BY <2>1, <2>2, <4>1, <4>2, BlockFacts
      <3> QED
        BY <3>1, <3>2, <3>3
    <2>5. m \in L /\ s \in L
      BY <1>11, <2>3, <2>4, <1>1
    <2>6. CASE k \in L
      BY <1>2, <2>5, <2>6 DEF LowerHalvesAreFree
    <2>7. CASE k \in {lo, up}
      <3>1. ContainsNet(n, m) /\ n.mask < m.mask /\ n.included = k.included
        <4>1. ContainsNet(n, k) /\ n.mask < k.mask /\ n.included = k.included
          BY <1>3, <2>7
        <4>2. k.mask \in Nat /\ m.mask \in Nat
          BY <2>1, BlockFacts
        <4> QED
          BY <1>2, <1>6, <2>1, <4>1, <4>2, ContainsIsOrder
      <3>2. TakesLowerHalf(n, m, s)
        BY <2>1, <3>1 DEF TakesLowerHalf, Inside
      <3> QED
        BY <1>2, <2>5, <3>2 DEF LowerHalvesAreFree
    <2> QED
      BY <1>11, <2>6, <2>7
  <1>19. \A h \in {lo, up} : \E z \in R \cup H \cup {c} : SameNet(z, h)
    <2>1. CASE Last(lo) = Last(c)
      <3>1. ContainsNet(lo, c) /\ First(lo) = First(c)
        BY <1>5, <1>6, <2>1 DEF ContainsNet
      <3>2. SameNet(c, lo)
        BY <1>2, <1>3, <2>1, <3>1, ContainedIsSmaller DEF SameNet
      <3>3. \E z \in R \cup H : SameNet(z, up)
        <4>1. SameNet(up, up)
          BY DEF SameNet
        <4> QED
          BY <4>1 DEF H, up, HalvesToAdd
      <3> QED
        BY <3>2, <3>3
    <2>2. CASE Last(lo) # Last(c)
      <3>1. ASSUME NEW h \in {lo, up} PROVE \E z \in R \cup H : SameNet(z, h)
        <4>1. SameNet(h, h)
          BY DEF SameNet
        <4> QED
          BY <2>2, <4>1 DEF H, lo, up, HalvesToAdd
      <3> QED
        BY <3>1
    <2> QED
      BY <2>1, <2>2
  <1>20. Sound(D, R \cup H, T1, c)
    BY <1>2, <1>15, <1>16, <1>17, <1>18 DEF Sound
  <1> QED
    BY <1>8, <1>12, <1>19, <1>20 DEF H, lo, up

\* n is part of c, but not its beginning.
LEMMA InCurrent ==
    ASSUME NEW D, NEW W, NEW T, NEW c, NEW n, NEW R, Round(D, W, T, c, n, R),
           ~(First(c) = First(n) /\ c.mask >= n.mask)
    PROVE  /\ First(c) < First(n) /\ ContainsNet(c, n) /\ c.mask < n.mask /\ c.mask < Bits
           /\ \A k \in W : First(n) <= First(k) /\ First(c) < First(k)
  <1>1. c \in Net /\ n \in Net /\ n \in W /\ W \subseteq Net /\ ~Before(n, c)
    BY DEF Round, Sound, InOrder
  <1>2. /\ First(c) \in Nat /\ Last(c) \in Nat /\ First(n) \in Nat /\ Last(n) \in Nat
        /\ c.mask \in Nat /\ n.mask \in Nat /\ n.mask <= Bits /\ First(n) <= Last(n)
        /\ First(c) <= Last(c) /\ Bits \in Nat
    BY <1>1, BlockFacts, ConstantsAssumption
  <1>3. First(c) < First(n)
    BY <1>1, <1>2, AfterCurrent
  <1>4. First(n) <= Last(c)
    BY DEF Round
  <1>5. ~(n.mask <= c.mask)
    <2> SUFFICES ASSUME n.mask <= c.mask PROVE FALSE
      OBVIOUS
    <2>1. ContainsNet(n, c) \/ Last(n) < First(c) \/ Last(c) < First(n)
      BY <1>1, Laminar
    <2> QED
      BY <1>2, <1>3, <1>4, <2>1 DEF ContainsNet
  <1>6. c.mask <= n.mask /\ c.mask < n.mask
    BY <1>2, <1>5
  <1>7. ContainsNet(c, n)
    <2>1. ContainsNet(c, n) \/ Last(c) < First(n) \/ Last(n) < First(c)
      BY <1>1, <1>6, Laminar
    <2> QED
      BY <1>2, <1>3, <1>4, <2>1
  <1>8. ASSUME NEW k \in W PROVE First(n) <= First(k) /\ First(c) < First(k)
    <2>1. k \in Net /\ ~Before(k, n)
      BY <1>1 DEF Round
    <2>2. First(k) \in Nat /\ First(n) <= First(k)
      BY <1>1, <2>1, AfterCurrent, BlockFacts
    <2> QED
      BY <1>2, <1>3, <2>2
  <1> QED
    BY <1>2, <1>3, <1>6, <1>7, <1>8

\* n is the upper half of c if it is as large as that.
LEMMA IsUpperHalf ==
    ASSUME NEW c \in Net, NEW n \in Net, c.mask < Bits, ContainsNet(c, n), First(c) < First(n),
           UpperHalf(c).mask = n.mask
    PROVE  SameNet(n, UpperHalf(c))
  <1> DEFINE l == LowerHalf(c)  u == UpperHalf(c)
  <1>1. /\ l \in Net /\ u \in Net /\ l.mask = c.mask + 1 /\ u.mask = c.mask + 1
        /\ First(l) = First(c)
    BY HalvesFacts
  <1>2. c.mask \in Nat /\ n.mask \in Nat /\ First(c) \in Nat /\ First(n) \in Nat
    BY BlockFacts
  <1>3. c.mask < n.mask /\ l.mask = n.mask /\ u.mask = n.mask
    BY <1>1, <1>2
  <1>4. ContainsNet(l, n) \/ ContainsNet(u, n)
    BY <1>3, InHalf
  <1> HIDE DEF l, u
  <1>5. ContainsNet(l, n) => First(l) = First(n)
    BY <1>1, <1>3, ContainedIsSmaller
  <1>6. ContainsNet(u, n)
    BY <1>1, <1>2, <1>4, <1>5
  <1> QED
    BY <1>1, <1>3, <1>6, ContainedIsSmaller DEF u, SameNet

\* What SplitCurrent() adds to the queue.
UpperToAdd(c, n) == IF UpperHalf(c).mask = n.mask THEN {} ELSE {UpperHalf(c)}

LEMMA SplitCurrentSound ==
    ASSUME NEW D, NEW W, NEW T, NEW c, NEW n, NEW R, Round(D, W, T, c, n, R),
           ~(First(c) = First(n) /\ c.mask >= n.mask), c.included # n.included,
           NEW T1 \in SUBSET (T \cup ({UpperHalf(c)} \cap W))
    PROVE  /\ Sound(D, W \cup UpperToAdd(c, n), T1, LowerHalf(c))
           /\ \A h \in {LowerHalf(c), UpperHalf(c)} :
                 \E z \in W \cup UpperToAdd(c, n) \cup {LowerHalf(c)} : SameNet(z, h)
           /\ \A k \in W \cup UpperToAdd(c, n) \cup {LowerHalf(c)} : ~ContainsNet(k, c)
  <1> DEFINE lo == LowerHalf(c)  up == UpperHalf(c)  A == UpperToAdd(c, n)
             L == W \cup {c}  L1 == W \cup A \cup {lo}
  <1>1. /\ First(c) < First(n) /\ ContainsNet(c, n) /\ c.mask < n.mask /\ c.mask < Bits
        /\ \A k \in W : First(n) <= First(k) /\ First(c) < First(k)
    BY InCurrent
  <1>2. /\ c \in Net /\ n \in Net /\ n \in W /\ D \subseteq Net /\ W \subseteq Net /\ T \subseteq W
        /\ NoConflict(L) /\ StartsAreFree(L, T) /\ LowerHalvesAreFree(L) /\ c \in L
        /\ InOrder(D, W, c) /\ Disjoint(D)
    BY DEF Round, Sound
  <1>3. \A h \in {lo, up} : /\ h \in Net /\ h.mask = c.mask + 1 /\ h.included = c.included
                            /\ ContainsNet(c, h) /\ c.mask < h.mask /\ Inside(h, c) /\ h # c
    BY <1>1, <1>2, HalvesInside
  <1>4. \A h \in {lo, up}, x \in Net : ContainsNet(x, h) /\ x.mask < h.mask => ContainsNet(x, c)
    BY <1>1, <1>2, AroundHalf
  <1>5. First(lo) = First(c) /\ Last(up) = Last(c) /\ First(up) = Last(lo) + 1
    BY <1>1, <1>2, HalvesFacts
  <1>6. /\ First(lo) \in Nat /\ Last(lo) \in Nat /\ First(up) \in Nat /\ First(lo) <= Last(lo)
        /\ First(c) \in Nat /\ Last(c) \in Nat /\ First(n) \in Nat
        /\ n.mask \in Nat /\ c.mask \in Nat /\ lo.mask \in Nat /\ up.mask \in Nat
    BY <1>2, <1>3, BlockFacts
  <1>7. First(lo) < First(up) /\ lo # up /\ ~SameNet(lo, up) /\ ~SameNet(up, lo)
    <2>1. First(lo) < First(up)
      BY <1>5, <1>6
    <2> QED
      BY <1>6, <2>1 DEF SameNet
  <1>8. A \subseteq {up} /\ (up \in A => up.mask # n.mask) /\ (up \notin A => up.mask = n.mask)
    BY DEF UpperToAdd
  <1>9. L1 \subseteq Net /\ L1 \subseteq W \cup {lo, up}
    BY <1>2, <1>3, <1>8
  <1>10. \A k \in W : /\ k \in Net /\ First(k) \in Nat /\ First(n) <= First(k)
                      /\ First(lo) < First(k) /\ k # lo /\ k # c
    <2> SUFFICES ASSUME NEW k \in W
                 PROVE  /\ k \in Net /\ First(k) \in Nat /\ First(n) <= First(k)
                        /\ First(lo) < First(k) /\ k # lo /\ k # c
      OBVIOUS
    <2>1. k \in Net /\ First(k) \in Nat /\ First(n) <= First(k) /\ First(c) < First(k)
      BY <1>1, <1>2, BlockFacts
    <2> HIDE DEF lo
    <2> QED
      BY <1>5, <1>6, <2>1
  <1> HIDE DEF A, lo, up
  <1>11. \A k \in L1 : ~ContainsNet(k, c)
    <2> SUFFICES ASSUME NEW k \in L1, ContainsNet(k, c) PROVE FALSE
      OBVIOUS
    <2>1. CASE k \in W
      BY <1>5, <1>6, <1>10, <2>1 DEF ContainsNet
    <2>2. CASE k \in {lo, up}
      <3>1. k \in Net /\ c.mask < k.mask
        BY <1>3, <2>2
      <3>2. k.mask <= c.mask
        BY <1>2, <3>1, ContainedIsSmaller
      <3> QED
        BY <1>6, <3>1, <3>2, BlockFacts
    <2> QED
      BY <1>9, <2>1, <2>2
  <1>12. \A h \in {lo, up}, k \in L1 : ContainsNet(k, h) => k.mask = h.mask /\ SameNet(k, h)
    <2> SUFFICES ASSUME NEW h \in {lo, up}, NEW k \in L1, ContainsNet(k, h)
                 PROVE  k.mask = h.mask /\ SameNet(k, h)
      OBVIOUS
    <2>1. k \in Net /\ h \in Net
      BY <1>3, <1>9
    <2>2. k.mask <= h.mask /\ k.mask \in Nat /\ h.mask \in Nat
      BY <2>1, ContainedIsSmaller, BlockFacts
    <2>3. ~(k.mask < h.mask)
      BY <1>4, <1>11, <2>1
    <2>4. k.mask = h.mask
      BY <2>2, <2>3
    <2> QED
      BY <2>1, <2>4, ContainedIsSmaller
  <1>13. \A k \in W : SameNet(k, up) =>
             /\ ContainsNet(c, k) /\ c.mask < k.mask /\ k # c /\ IsCovered(L, T, k)
             /\ k.mask = up.mask /\ First(k) = First(up) /\ ContainsNet(k, up) /\ ContainsNet(up, k)
    <2> SUFFICES ASSUME NEW k \in W, SameNet(k, up)
                 PROVE  /\ ContainsNet(c, k) /\ c.mask < k.mask /\ k # c /\ IsCovered(L, T, k)
                        /\ k.mask = up.mask /\ First(k) = First(up)
                        /\ ContainsNet(k, up) /\ ContainsNet(up, k)
      OBVIOUS
    <2>1. k \in Net /\ up \in Net /\ k # c
      BY <1>3, <1>10
    <2>2. ContainsNet(k, up) /\ ContainsNet(up, k) /\ k.mask = up.mask /\ First(k) = First(up)
      BY <2>1, ContainsIsOrder DEF SameNet
    <2>3. ContainsNet(c, k)
      BY <1>2, <1>3, <2>1, <2>2, ContainsIsOrder
    <2>4. c.mask < k.mask
      BY <1>3, <2>2
    <2>5. IsCovered(L, T, k)
      BY <2>1, <2>3 DEF IsCovered
    <2> QED
      BY <2>1, <2>2, <2>3, <2>4, <2>5
  <1>14. InOrder(D, W \cup A, lo)
    <2>1. \A k \in W \cup {up} : ~Before(k, lo)
      BY <1>6, <1>7, <1>10 DEF Before
    <2>2. \A d \in D : Last(d) < First(lo)
      BY <1>2, <1>5 DEF InOrder
    <2> QED
      BY <1>8, <2>1, <2>2 DEF InOrder
  \* A network that waits is not of the other kind than the upper half it is the same as.
  <1>15. \A y \in W : up \in A /\ SameNet(y, up) => y.included = c.included
    <2> SUFFICES ASSUME NEW y \in W, up \in A, SameNet(y, up), y.included # c.included
                 PROVE  FALSE
      OBVIOUS
    <2>1. /\ y \in Net /\ ContainsNet(c, y) /\ c.mask < y.mask /\ IsCovered(L, T, y)
          /\ y.mask = up.mask /\ First(y) = First(up) /\ ContainsNet(y, up) /\ ContainsNet(up, y)
      BY <1>10, <1>13
    <2>2. ContainsNet(lo, n) \/ ContainsNet(up, n)
      BY <1>1, <1>2, InHalf DEF lo, up
    <2>3. CASE ContainsNet(lo, n)
      <3>1. Last(n) < First(y)
        <4>1. Last(n) <= Last(lo) /\ Last(n) \in Nat
          BY <1>2, <2>3, BlockFacts DEF ContainsNet
        <4> QED
          BY <1>5, <1>6, <2>1, <4>1
      <3>2. Inside(y, c) /\ y.included # c.included
        <4>1. y.mask \in Nat
          BY <2>1, BlockFacts
        <4> QED
          BY <1>6, <2>1, <4>1 DEF Inside
      <3>3. /\ Parent(y) \in Net /\ ContainsNet(Parent(y), y) /\ ContainsNet(c, Parent(y))
            /\ Parent(y).mask = y.mask - 1
        BY <1>2, <2>1, <3>2, AroundParent, ParentFacts
      <3>4. Parent(y).mask = c.mask
        BY <1>3, <1>6, <2>1, <3>3
      <3>5. ContainsNet(Parent(y), n)
        <4>1. SameNet(c, Parent(y))
          BY <1>2, <3>3, <3>4, ContainedIsSmaller
        <4> QED
          BY <1>1, <1>2, <3>3, <4>1, ContainsIsOrder
      <3>6. TakesLowerHalf(c, y, n)
        BY <3>1, <3>2, <3>5 DEF TakesLowerHalf
      <3> QED
        BY <1>2, <3>6 DEF LowerHalvesAreFree
    <2>4. CASE ContainsNet(up, n)
      <3>1. First(n) = First(y)
        <4>1. First(up) <= First(n) /\ First(n) <= First(y)
          BY <1>10, <2>4 DEF ContainsNet
        <4> QED
          BY <1>6, <2>1, <4>1
      <3>2. ContainsNet(y, n)
        BY <1>2, <1>3, <2>1, <2>4, ContainsIsOrder
      <3>3. y.mask <= n.mask /\ y.mask # n.mask
        BY <1>2, <1>8, <2>1, <3>2, ContainedIsSmaller
      <3>4. Starts(n, y)
        <4>1. n.mask > y.mask
          BY <1>6, <2>1, <3>3
        <4> QED
          BY <3>1, <3>2, <4>1 DEF Starts, Inside
      <3> QED
        BY <1>2, <2>1, <3>4 DEF StartsAreFree
    <2> QED
      BY <2>2, <2>3, <2>4
  <1>16. NoConflict(L1)
    <2> SUFFICES ASSUME NEW x \in L1, NEW y \in L1, SameNet(x, y) PROVE x.included = y.included
      BY DEF NoConflict
    <2>1. SameNet(y, x) /\ First(x) = First(y)
      BY DEF SameNet
    <2>2. x \in W \cup A \cup {lo} /\ y \in W \cup A \cup {lo}
      OBVIOUS
    <2>3. CASE x = lo \/ y = lo
      <3>1. ~(x \in W \cup A) /\ ~(y \in W \cup A)
        BY <1>6, <1>7, <1>8, <1>10, <2>1, <2>3
      <3> QED
        BY <2>2, <3>1
    <2>4. CASE x \in W /\ y \in W
      BY <1>2, <2>4 DEF NoConflict
    <2>5. CASE x \in A \/ y \in A
      BY <1>3, <1>8, <1>15, <2>1, <2>2, <2>3, <2>5
    <2> QED
      BY <2>2, <2>3, <2>4, <2>5
  <1>17. StartsAreFree(L1, T1)
    <2> SUFFICES ASSUME NEW m \in L1, NEW s \in L1, Starts(s, m), IsCovered(L1, T1, m)
                 PROVE  FALSE
      BY DEF StartsAreFree
    <2>1. m \in Net /\ s \in Net /\ ContainsNet(m, s) /\ m.mask < s.mask /\ First(s) = First(m)
      BY <1>9 DEF Starts, Inside
    <2>2. s \notin {lo, up}
      BY <1>4, <1>11, <2>1
    <2>3. s \in W
      BY <1>9, <2>2
    <2>4. m # lo
      BY <1>6, <1>10, <2>1, <2>3
    <2>5. CASE m \in W
      <3>1. ~IsCovered(L, T, m)
        BY <1>2, <2>3, <2>5 DEF StartsAreFree
      <3>2. m # up
        <4>1. SameNet(up, up)
          BY DEF SameNet
        <4> QED
          BY <1>13, <2>5, <3>1, <4>1
      <3>3. m \notin T1
        BY <3>1, <3>2 DEF IsCovered, up
      <3>4. PICK k \in L1 : k # m /\ ContainsNet(k, m)
        BY <3>3 DEF IsCovered
      <3>5. k \in W \/ k \in {lo, up}
        BY <1>9
      <3>6. k \in {lo, up} => ContainsNet(c, m) /\ c # m
        BY <1>2, <1>3, <1>10, <2>1, <2>5, <3>4, ContainsIsOrder
      <3> QED
        BY <1>2, <3>1, <3>4, <3>5, <3>6 DEF IsCovered
    <2>6. CASE m = up /\ up \notin W
      <3>1. m \notin T1
        BY <1>2, <2>6 DEF up
      <3>2. PICK k \in L1 : k # m /\ ContainsNet(k, m)
        BY <3>1 DEF IsCovered
      <3>3. SameNet(k, up)
        BY <1>12, <2>6, <3>2
      <3>4. k \in W
        BY <1>7, <1>9, <2>6, <3>2, <3>3
      <3>5. IsCovered(L, T, k) /\ k.mask = up.mask /\ First(k) = First(up) /\ ContainsNet(k, up)
        BY <1>13, <3>3, <3>4
      <3>6. ContainsNet(k, s)
        BY <1>9, <2>1, <2>6, <3>5, ContainsIsOrder
      <3>7. Starts(s, k)
        BY <2>6, <3>5, <3>6 DEF Starts, Inside
      <3> QED
        BY <1>2, <2>3, <3>4, <3>5, <3>7 DEF StartsAreFree
    <2> QED
      BY <1>9, <2>4, <2>5, <2>6
  <1>18. LowerHalvesAreFree(L1)
    <2> SUFFICES ASSUME NEW k \in L1, NEW m \in L1, NEW s \in L1, TakesLowerHalf(k, m, s)
                 PROVE  FALSE
      BY DEF LowerHalvesAreFree
    <2>1. /\ Inside(m, k) /\ m.included # k.included /\ k \in Net /\ m \in Net /\ s \in Net
          /\ Last(s) < First(m) /\ ContainsNet(Parent(m), s)
          /\ ContainsNet(k, m) /\ k.mask < m.mask
      BY <1>9 DEF TakesLowerHalf, Inside
    <2>2. /\ 0 < m.mask /\ ContainsNet(k, Parent(m)) /\ Parent(m) \in Net
          /\ ContainsNet(Parent(m), m)
      BY <2>1, AroundParent, ParentFacts
    <2>3. m \notin {lo, up}
      BY <1>4, <1>11, <2>1
    <2>4. s \notin {lo, up}
      <3> SUFFICES ASSUME s \in {lo, up} PROVE FALSE
        OBVIOUS
      <3>1. s.mask \in Nat /\ Parent(m).mask <= s.mask /\ Parent(m).mask \in Nat
        BY <2>1, <2>2, ContainedIsSmaller, BlockFacts
      <3>2. CASE Parent(m).mask < s.mask
        <4>1. ContainsNet(Parent(m), c)
          BY <1>4, <2>1, <2>2, <3>2
        <4>2. ContainsNet(k, c)
          BY <1>2, <2>1, <2>2, <4>1, ContainsIsOrder
        <4> QED
          BY <1>11, <4>2
      <3>3. CASE Parent(m).mask = s.mask
        <4>1. Last(Parent(m)) = Last(s)
          BY <2>1, <2>2, <3>3, ContainedIsSmaller
        <4>2. First(m) <= Last(m) /\ Last(m) <= Last(Parent(m))
          BY <2>1, <2>2, BlockFacts DEF ContainsNet
        <4> QED
          BY <2>1, <2>2, <4>1, <4>2, BlockFacts
      <3> QED
        BY <3>1, <3>2, <3>3
    <2>5. m \in L /\ s \in L
      BY <1>9, <2>3, <2>4
    <2>6. CASE k \in W
      BY <1>2, <2>5, <2>6 DEF LowerHalvesAreFree
    <2>7. CASE k \in {lo, up}
      <3>1. ContainsNet(c, m) /\ c.mask < m.mask /\ c.included = k.included
        <4>1. ContainsNet(c, k) /\ c.mask < k.mask /\ c.included = k.included
          BY <1>3, <2>7
        <4>2. k.mask \in Nat /\ m.mask \in Nat
          BY <2>1, BlockFacts
        <4> QED
          BY <1>2, <1>6, <2>1, <4>1, <4>2, ContainsIsOrder
      <3>2. TakesLowerHalf(c, m, s)
        BY <2>1, <3>1 DEF TakesLowerHalf, Inside
      <3> QED
        BY <1>2, <2>5, <3>2 DEF LowerHalvesAreFree
    <2> QED
      BY <1>9, <2>6, <2>7
  <1>19. \A h \in {lo, up} : \E z \in W \cup A \cup {lo} : SameNet(z, h)
    <2>1. SameNet(lo, lo) /\ SameNet(up, up)
      BY DEF SameNet
    <2>2. up \notin A => SameNet(n, up)
      BY <1>1, <1>2, <1>8, IsUpperHalf DEF up
    <2> QED
      BY <1>2, <2>1, <2>2
  <1>20. Sound(D, W \cup A, T1, lo)
    BY <1>2, <1>14, <1>16, <1>17, <1>18 DEF Sound
  <1> QED
    BY <1>11, <1>19, <1>20 DEF A, lo, up

\* What is finished lies behind all that is not, and is no part of it nor around it.
LEMMA DoneIsBehind ==
    ASSUME NEW D \in SUBSET Net, NEW W \in SUBSET Net, NEW T, NEW c \in Net, Sound(D, W, T, c)
    PROVE  /\ \A d \in D, x \in W \cup {c} : Last(d) < First(x) /\ ~ContainsNet(d, x)
           /\ NoConflict(D \cup W \cup {c})
  <1>1. ASSUME NEW d \in D, NEW x \in W \cup {c} PROVE Last(d) < First(x) /\ ~ContainsNet(d, x)
    <2>1. d \in Net /\ x \in Net
      OBVIOUS
    <2>2. /\ First(d) \in Nat /\ Last(d) \in Nat /\ First(x) \in Nat /\ Last(x) \in Nat
          /\ First(x) <= Last(x) /\ First(c) \in Nat
      BY <2>1, BlockFacts
    <2>3. Last(d) < First(c) /\ (x \in W => ~Before(x, c))
      BY DEF Sound, InOrder
    <2>4. First(c) <= First(x)
      BY <2>1, <2>2, <2>3, AfterCurrent
    <2>5. Last(d) < First(x)
      BY <2>2, <2>3, <2>4
    <2> QED
      BY <2>2, <2>5 DEF ContainsNet
  <1>2. ASSUME NEW x \in D \cup W \cup {c}, NEW y \in D \cup W \cup {c}, SameNet(x, y)
        PROVE  x.included = y.included
    <2>1. /\ x \in Net /\ y \in Net /\ First(x) = First(y)
          /\ First(x) \in Nat /\ Last(x) \in Nat /\ Last(y) \in Nat
          /\ First(x) <= Last(x) /\ First(y) <= Last(y)
      BY <1>2, BlockFacts DEF SameNet
    <2>2. CASE x \in D /\ y \in D
      <3>1. x = y \/ Last(x) < First(y) \/ Last(y) < First(x)
        BY <2>2 DEF Sound, Disjoint
      <3> QED
        BY <2>1, <3>1
    <2>3. CASE x \in D /\ y \notin D
      <3>1. Last(x) < First(y)
        BY <1>1, <2>3
      <3> QED
        BY <2>1, <3>1
    <2>4. CASE x \notin D /\ y \in D
      <3>1. Last(y) < First(x)
        BY <1>1, <2>4
      <3> QED
        BY <2>1, <3>1
    <2>5. CASE x \notin D /\ y \notin D
      BY <1>2, <2>5 DEF Sound, NoConflict
    <2> QED
      BY <2>2, <2>3, <2>4, <2>5
  <1> QED
    BY <1>1, <1>2 DEF NoConflict

\* The current network, which overlaps with no other, is finished.
LEMMA FinishSound ==
    ASSUME NEW D \in SUBSET Net, NEW W \in SUBSET Net, NEW T, NEW c \in Net, Sound(D, W, T, c)
    PROVE  Add(D, c) = D \cup {c} /\ Disjoint(D \cup {c})
  <1>1. \A d \in D : Last(d) < First(c) /\ First(d) <= Last(d) /\ First(d) # First(c)
    <2>1. \A d \in D : Last(d) < First(c)
      BY DoneIsBehind
    <2>2. \A d \in D : First(d) \in Nat /\ Last(d) \in Nat /\ First(d) <= Last(d)
      BY BlockFacts
    <2>3. First(c) \in Nat
      BY BlockFacts
    <2> QED
      BY <2>1, <2>2, <2>3
  <1>2. Add(D, c) = D \cup {c}
    BY <1>1 DEF Add, SameNet
  <1>3. Disjoint(D \cup {c})
    BY <1>1 DEF Disjoint, Sound
  <1> QED
    BY <1>2, <1>3

LEMMA NextSound ==
    ASSUME NEW D \in SUBSET Net, NEW W \in SUBSET Net, NEW T, NEW c \in Net, Sound(D, W, T, c),
           NEW n \in W, \A m \in W : ~Before(m, n), Last(c) < First(n),
           NEW R \in SUBSET W, NEW T1 \in SUBSET T
    PROVE  Sound(D \cup {c}, R, T1, n)
  <1>1. Disjoint(D \cup {c})
    BY FinishSound
  <1>2. \A d \in D \cup {c} : Last(d) < First(n)
    BY DoneIsBehind
  <1>3. R \cup {n} \subseteq W \cup {c}
    OBVIOUS
  <1>4. NoConflict(R \cup {n}) /\ StartsAreFree(R \cup {n}, T1) /\ LowerHalvesAreFree(R \cup {n})
    BY <1>3, FewerAreSound DEF Sound
  <1> QED
    BY <1>1, <1>2, <1>4 DEF Sound, InOrder

LEMMA ForgetCurrentSound ==
    ASSUME NEW D, NEW W, NEW T, NEW c, NEW n, NEW R, Round(D, W, T, c, n, R),
           First(c) = First(n), NEW T1 \in SUBSET T
    PROVE  Sound(D, R, T1, n)
  <1>1. R \cup {n} \subseteq W \cup {c}
    BY DEF Round
  <1>2. NoConflict(R \cup {n}) /\ StartsAreFree(R \cup {n}, T1) /\ LowerHalvesAreFree(R \cup {n})
    BY <1>1, FewerAreSound DEF Sound, Round
  <1> QED
    BY <1>2 DEF Sound, InOrder, Round

LEMMA ForgetNextSound ==
    ASSUME NEW D, NEW W, NEW T, NEW c, NEW n, NEW R, Round(D, W, T, c, n, R),
           NEW T1 \in SUBSET T
    PROVE  Sound(D, R, T1, c)
  <1>1. R \cup {c} \subseteq W \cup {c}
    BY DEF Round
  <1>2. NoConflict(R \cup {c}) /\ StartsAreFree(R \cup {c}, T1) /\ LowerHalvesAreFree(R \cup {c})
    BY <1>1, FewerAreSound DEF Sound, Round
  <1> QED
    BY <1>2 DEF Sound, InOrder, Round
-----------------------------------------------------------------------------
(* What the networks say of an address                                      *)

LEMMA VerdictSays ==
    ASSUME NEW N, NEW a, NEW b
    PROVE  b \in Verdict(N, a) <=>
               \E n \in N : /\ Within(a, n) /\ n.included = b
                            /\ \A k \in N : Within(a, k) => k.mask <= n.mask
  BY DEF Verdict

LEMMA WithinFacts ==
    ASSUME NEW a \in Addresses, NEW x \in Net, NEW y \in Net, Within(a, y)
    PROVE  /\ Within(a, x) /\ x.mask <= y.mask => ContainsNet(x, y)
           /\ Within(a, x) /\ x.mask = y.mask => SameNet(x, y)
           /\ ContainsNet(x, y) => Within(a, x)
           /\ SameNet(x, y) => Within(a, x)
  <1>1. /\ First(x) \in Nat /\ Last(x) \in Nat /\ First(y) \in Nat /\ Last(y) \in Nat /\ a \in Nat
        /\ x.mask \in Nat /\ y.mask \in Nat
    BY BlockFacts, AddressesAreNumbers
  <1>2. ASSUME Within(a, x), x.mask <= y.mask PROVE ContainsNet(x, y)
    <2>1. ContainsNet(x, y) \/ Last(x) < First(y) \/ Last(y) < First(x)
      BY <1>2, Laminar
    <2> QED
      BY <1>1, <1>2, <2>1 DEF Within
  <1>3. ContainsNet(x, y) => Within(a, x)
    BY <1>1 DEF ContainsNet, Within
  <1>4. SameNet(x, y) => Within(a, x)
    BY <1>3, ContainsIsOrder
  <1>5. ASSUME Within(a, x), x.mask = y.mask PROVE SameNet(x, y)
    <2>1. ContainsNet(x, y)
      BY <1>1, <1>2, <1>5
    <2> QED
      BY <1>5, <2>1, ContainedIsSmaller
  <1> QED
    BY <1>2, <1>3, <1>4, <1>5

\* A network may be forgotten when a network of the same kind is around it and none is
\* between the two.
LEMMA ForgetKeepsVerdict ==
    ASSUME NEW N \in SUBSET Net, NEW N1 \in SUBSET N, NEW x \in Net, N \subseteq N1 \cup {x},
           NEW y \in N1, ContainsNet(y, x), y.included = x.included, NoConflict(N),
           \A z \in N : ~(y.mask < z.mask /\ z.mask < x.mask /\ ContainsNet(z, x)),
           NEW a \in Addresses
    PROVE  Verdict(N1, a) = Verdict(N, a)
  <1>1. \A k \in N : k \in Net /\ k.mask \in Nat
    BY BlockFacts
  <1>2. x.mask \in Nat /\ y.mask \in Nat /\ y \in Net /\ y \in N /\ y.mask <= x.mask
    BY BlockFacts, ContainedIsSmaller
  \* What is around a and not smaller than x is not smaller than y, or the same as x.
  <1>3. \A k \in N : Within(a, x) /\ Within(a, k) /\ k.mask <= x.mask =>
            k.mask <= y.mask \/ SameNet(k, x)
    <2> SUFFICES ASSUME NEW k \in N, Within(a, x), Within(a, k), k.mask <= x.mask,
                        ~(k.mask <= y.mask)
                 PROVE  SameNet(k, x)
      OBVIOUS
    <2>1. ContainsNet(k, x)
      BY <1>1, WithinFacts
    <2>2. ~(k.mask < x.mask)
      BY <1>1, <1>2, <2>1
    <2>3. k.mask = x.mask
      BY <1>1, <1>2, <2>2
    <2> QED
      BY <1>1, <2>3, WithinFacts
  <1>4. ASSUME NEW b, b \in Verdict(N, a) PROVE b \in Verdict(N1, a)
    <2>1. PICK n \in N : /\ Within(a, n) /\ n.included = b
                         /\ \A k \in N : Within(a, k) => k.mask <= n.mask
      BY <1>4, VerdictSays
    <2>2. CASE n \in N1
      BY <2>1, <2>2, VerdictSays
    <2>3. CASE n = x
      <3>1. Within(a, y)
        BY <1>2, <2>1, <2>3, WithinFacts
      <3>2. \A k \in N1 : Within(a, k) => k.mask <= y.mask \/ SameNet(k, x)
        BY <1>3, <2>1, <2>3
      <3>3. CASE \A k \in N1 : Within(a, k) => k.mask <= y.mask
        BY <2>1, <2>3, <3>1, <3>3, VerdictSays
      <3>4. CASE \E k \in N1 : Within(a, k) /\ ~(k.mask <= y.mask)
        <4>1. PICK k \in N1 : Within(a, k) /\ SameNet(k, x)
          BY <3>2, <3>4
        <4>2. k.included = b /\ k.mask = x.mask
          BY <2>1, <2>3, <4>1 DEF NoConflict, SameNet
        <4>3. \A j \in N1 : Within(a, j) => j.mask <= k.mask
          BY <2>1, <2>3, <4>2
        <4> QED
          BY <4>1, <4>2, <4>3, VerdictSays
      <3> QED
        BY <3>3, <3>4
    <2> QED
      BY <2>2, <2>3
  <1>5. ASSUME NEW b, b \in Verdict(N1, a) PROVE b \in Verdict(N, a)
    <2>1. PICK n \in N1 : /\ Within(a, n) /\ n.included = b
                          /\ \A k \in N1 : Within(a, k) => k.mask <= n.mask
      BY <1>5, VerdictSays
    <2>2. CASE x \in N /\ Within(a, x) /\ ~(x.mask <= n.mask)
      <3>1. n.mask <= x.mask /\ n.mask < x.mask
        BY <1>1, <1>2, <2>2
      <3>2. n.mask <= y.mask
        <4>1. ~SameNet(n, x)
          BY <1>1, <1>2, <3>1 DEF SameNet
        <4> QED
          BY <1>3, <2>1, <2>2, <3>1, <4>1
      <3>3. Within(a, y)
        BY <1>2, <2>2, WithinFacts
      <3>4. n.mask = y.mask
        BY <1>1, <1>2, <2>1, <3>2, <3>3
      <3>5. n.included = y.included
        BY <1>1, <1>2, <2>1, <3>3, <3>4, WithinFacts DEF NoConflict
      <3>6. \A k \in N : Within(a, k) => k.mask <= x.mask
        BY <1>1, <1>2, <2>1, <3>1
      <3> QED
        BY <2>1, <2>2, <3>5, <3>6, VerdictSays
    <2>3. CASE ~(x \in N /\ Within(a, x) /\ ~(x.mask <= n.mask))
      <3>1. \A k \in N : Within(a, k) => k.mask <= n.mask
        BY <2>1, <2>3
      <3> QED
        BY <2>1, <3>1, VerdictSays
    <2> QED
      BY <2>2, <2>3
  <1> QED
    BY <1>4, <1>5

\* A network may be replaced by its halves, in place of which others that are the same
\* may be there already.
LEMMA SplitKeepsVerdict ==
    ASSUME NEW N \in SUBSET Net, NEW N1 \in SUBSET Net, NEW x \in N, x.mask < Bits,
           N \ {x} \subseteq N1, N1 \subseteq N \cup {LowerHalf(x), UpperHalf(x)},
           \A h \in {LowerHalf(x), UpperHalf(x)} : \E z \in N1 : SameNet(z, h),
           NoConflict(N), NoConflict(N1), NEW a \in Addresses
    PROVE  Verdict(N1, a) = Verdict(N, a)
  <1> DEFINE lo == LowerHalf(x)  up == UpperHalf(x)
  <1>1. \A k \in N \cup N1 : k \in Net /\ k.mask \in Nat
    BY BlockFacts
  <1>2. \A h \in {lo, up} : h \in Net /\ h.mask = x.mask + 1 /\ h.included = x.included
                            /\ ContainsNet(x, h)
    BY <1>1, HalvesInside
  <1>3. \A h \in {lo, up} : \E z \in N1 : SameNet(z, h)
    OBVIOUS
  <1>4. \A k \in N1 : k \in N \/ k \in {lo, up}
    OBVIOUS
  <1>5. x \in Net /\ x.mask \in Nat
    BY <1>1
  <1>6. Within(a, x) => Within(a, lo) \/ Within(a, up)
    <2>1. First(lo) = First(x) /\ Last(up) = Last(x) /\ First(up) = Last(lo) + 1
      BY <1>1, HalvesFacts
    <2>2. Last(lo) \in Nat /\ First(lo) \in Nat /\ Last(up) \in Nat /\ a \in Nat
      BY <1>2, BlockFacts, AddressesAreNumbers
    <2> HIDE DEF lo, up
    <2> QED
      BY <2>1, <2>2 DEF Within
  <1> HIDE DEF lo, up
  <1>7. Within(a, x) => \E z \in N1 : Within(a, z) /\ z.mask = x.mask + 1
    <2> SUFFICES ASSUME Within(a, x) PROVE \E z \in N1 : Within(a, z) /\ z.mask = x.mask + 1
      OBVIOUS
    <2>1. PICK h \in {lo, up} : Within(a, h)
      BY <1>6
    <2>2. PICK z \in N1 : SameNet(z, h)
      BY <1>3
    <2>3. Within(a, z) /\ z.mask = h.mask
      BY <1>1, <1>2, <2>1, <2>2, WithinFacts DEF SameNet
    <2> QED
      BY <1>2, <2>3
  <1>8. \A h \in {lo, up} : Within(a, h) => Within(a, x)
    BY <1>2, <1>5, WithinFacts
  <1>9. ASSUME NEW b, b \in Verdict(N, a) PROVE b \in Verdict(N1, a)
    <2>1. PICK n \in N : /\ Within(a, n) /\ n.included = b
                         /\ \A k \in N : Within(a, k) => k.mask <= n.mask
      BY <1>9, VerdictSays
    <2>2. CASE \E k \in N1 : Within(a, k) /\ ~(k.mask <= n.mask)
      <3>1. PICK k \in N1 : Within(a, k) /\ ~(k.mask <= n.mask)
        BY <2>2
      <3>2. k \in {lo, up}
        BY <1>4, <2>1, <3>1
      <3>3. Within(a, x)
        BY <1>8, <3>1, <3>2
      <3>4. x.mask <= n.mask /\ k.mask = x.mask + 1
        BY <1>2, <2>1, <3>2, <3>3
      <3>5. n.mask = x.mask
        BY <1>1, <1>5, <3>1, <3>4
      <3>6. n.included = x.included
        BY <1>1, <1>5, <2>1, <3>3, <3>5, WithinFacts DEF NoConflict
      <3>7. k.included = b
        BY <1>2, <2>1, <3>2, <3>6
      <3>8. ASSUME NEW j \in N1, Within(a, j) PROVE j.mask <= k.mask
        <4>1. j \in N => j.mask <= n.mask
          BY <2>1, <3>8
        <4>2. j \in {lo, up} => j.mask = x.mask + 1
          BY <1>2
        <4> QED
          BY <1>1, <1>4, <1>5, <3>4, <3>5, <4>1, <4>2
      <3> QED
        BY <3>1, <3>7, <3>8, VerdictSays
    <2>3. CASE \A k \in N1 : Within(a, k) => k.mask <= n.mask
      <3>1. n # x
        <4> SUFFICES ASSUME n = x PROVE FALSE
          OBVIOUS
        <4>1. PICK z \in N1 : Within(a, z) /\ z.mask = x.mask + 1
          BY <1>7, <2>1
        <4> QED
          BY <1>5, <2>3, <4>1
      <3>2. n \in N1
        BY <3>1
      <3> QED
        BY <2>1, <2>3, <3>2, VerdictSays
    <2> QED
      BY <2>2, <2>3
  <1>10. ASSUME NEW b, b \in Verdict(N1, a) PROVE b \in Verdict(N, a)
    <2>1. PICK n \in N1 : /\ Within(a, n) /\ n.included = b
                          /\ \A k \in N1 : Within(a, k) => k.mask <= n.mask
      BY <1>10, VerdictSays
    <2>2. Within(a, x) => x.mask + 1 <= n.mask
      BY <1>7, <2>1
    <2>3. \A k \in N : Within(a, k) => k.mask <= n.mask
      <3> SUFFICES ASSUME NEW k \in N, Within(a, k) PROVE k.mask <= n.mask
        OBVIOUS
      <3>1. CASE k \in N1
        BY <2>1, <3>1
      <3>2. CASE k = x
        BY <1>1, <1>5, <2>2, <3>2
      <3> QED
        BY <3>1, <3>2
    <2>4. CASE n \in N
      BY <2>1, <2>3, <2>4, VerdictSays
    <2>5. CASE n \in {lo, up}
      <3>1. Within(a, x) /\ x.included = b /\ n.mask = x.mask + 1
        BY <1>2, <1>8, <2>1, <2>5
      <3>2. CASE \A k \in N : Within(a, k) => k.mask <= x.mask
        BY <3>1, <3>2, VerdictSays
      <3>3. CASE \E k \in N : Within(a, k) /\ ~(k.mask <= x.mask)
        <4>1. PICK k \in N : Within(a, k) /\ ~(k.mask <= x.mask)
          BY <3>3
        <4>2. k \in N1
          <5>1. k # x
            BY <1>5, <4>1
          <5> QED
            BY <5>1
        <4>3. k.mask = n.mask
          BY <1>1, <1>5, <2>3, <3>1, <4>1
        <4>4. k.included = b
          BY <1>1, <2>1, <4>1, <4>2, <4>3, WithinFacts DEF NoConflict
        <4>5. \A j \in N : Within(a, j) => j.mask <= k.mask
          BY <2>3, <4>3
        <4> QED
          BY <4>1, <4>4, <4>5, VerdictSays
      <3> QED
        BY <3>2, <3>3
    <2> QED
      BY <1>4, <2>4, <2>5
  <1> QED
    BY <1>9, <1>10
-----------------------------------------------------------------------------
(* What a round leaves as it was                                            *)

\* The same networks are inside and around the same networks.
LEMMA SameInside ==
    ASSUME NEW x \in Net, NEW r \in Net, NEW n \in Net, SameNet(x, r)
    PROVE  Inside(r, n) <=> Inside(x, n)
  <1>1. First(x) = First(r) /\ x.mask = r.mask
    BY DEF SameNet
  <1>2. Last(x) = Last(r)
    BY <1>1 DEF Last
  <1> QED
    BY <1>1, <1>2 DEF Inside, ContainsNet

\* A route no longer waits only when nothing of the other kind is around it.
LEMMA RemainIsKept ==
    ASSUME NEW rs \in SUBSET Net, NEW L \in SUBSET Net, NEW N \in SUBSET Net,
           NEW L1 \in SUBSET Net, NEW N1 \in SUBSET Net, Remain(rs, L, N),
           \A n \in N1 : \E y \in N : y = n \/ (y.included = n.included /\ Inside(n, y)),
           \A x \in L : \/ \E m \in L1 : SameNet(m, x) /\ m.included = x.included
                        \/ \A n \in N1 : Inside(x, n) => n.included = x.included
    PROVE  Remain(rs, L1, N1)
  <1> SUFFICES ASSUME NEW r \in rs, NEW n \in N1, Inside(r, n), r.included # n.included
               PROVE  \E m \in L1 : SameNet(m, r) /\ m.included = r.included
    BY DEF Remain
  <1>1. r \in Net /\ n \in Net
    OBVIOUS
  <1>2. PICK y \in N : y = n \/ (y.included = n.included /\ Inside(n, y))
    OBVIOUS
  <1>3. y.included = n.included /\ Inside(r, y)
    <2>1. CASE y = n
      BY <2>1
    <2>2. CASE y.included = n.included /\ Inside(n, y)
      <3>1. y \in Net /\ y.mask \in Nat /\ n.mask \in Nat /\ r.mask \in Nat
        BY <1>1, BlockFacts
      <3>2. r.mask > n.mask /\ ContainsNet(n, r) /\ n.mask > y.mask /\ ContainsNet(y, n)
        BY <2>2 DEF Inside
      <3> QED
        BY <1>1, <2>2, <3>1, <3>2, ContainsIsOrder DEF Inside
    <2> QED
      BY <1>2, <2>1, <2>2
  <1>4. PICK x \in L : SameNet(x, r) /\ x.included = r.included
    BY <1>3 DEF Remain
  <1>5. Inside(x, n) /\ x.included # n.included
    BY <1>1, <1>4, SameInside
  <1>6. PICK m \in L1 : SameNet(m, x) /\ m.included = x.included
    BY <1>5
  <1> QED
    BY <1>4, <1>6 DEF SameNet

\* all1 says the same of every address as all, and the routes in rs remain.
Keeps(rs, live, all, live1, all1) ==
    /\ Remain(rs, live, all) => Remain(rs, live1, all1)
    /\ \A a \in Addresses : Verdict(all1, a) = Verdict(all, a)

\* The current network overlaps with nothing that waits: it may be finished.
LEMMA FinishKeeps ==
    ASSUME NEW rs \in SUBSET Net,
           NEW D \in SUBSET Net, NEW W \in SUBSET Net, NEW T, NEW c \in Net, Sound(D, W, T, c),
           \A m \in W : Last(c) < First(m)
    PROVE  Keeps(rs, W \cup {c}, D \cup W \cup {c}, W, D \cup {c} \cup W)
  <1> DEFINE N == D \cup W \cup {c}
  <1>1. \A n \in N : ~Inside(c, n)
    <2> SUFFICES ASSUME NEW n \in N, Inside(c, n) PROVE FALSE
      OBVIOUS
    <2>1. n \in Net /\ ContainsNet(n, c) /\ n # c
      BY BlockFacts DEF Inside
    <2>2. n \in W
      BY <2>1, DoneIsBehind
    <2>3. Last(c) < First(n) /\ First(n) <= First(c)
      BY <2>1, <2>2 DEF ContainsNet
    <2> QED
      BY <2>1, <2>3, BlockFacts
  <1>2. \A x \in W \cup {c} : \/ \E m \in W : SameNet(m, x) /\ m.included = x.included
                              \/ \A n \in N : Inside(x, n) => n.included = x.included
    BY <1>1 DEF SameNet
  <1>3. D \cup {c} \cup W = N
    OBVIOUS
  <1>4. Remain(rs, W \cup {c}, N) => Remain(rs, W, N)
    BY <1>2, RemainIsKept
  <1> QED
    BY <1>3, <1>4 DEF Keeps

LEMMA ForgetCurrentKeeps ==
    ASSUME NEW rs \in SUBSET Net,
           NEW D, NEW W, NEW T, NEW c, NEW n, NEW R, Round(D, W, T, c, n, R),
           First(c) = First(n), c.included = n.included
    PROVE  Keeps(rs, W \cup {c}, D \cup W \cup {c}, R \cup {n}, D \cup R \cup {n})
  <1> DEFINE N == D \cup W \cup {c}  L1 == R \cup {n}  N1 == D \cup R \cup {n}
  <1>1. /\ D \in SUBSET Net /\ W \in SUBSET Net /\ c \in Net /\ n \in Net /\ n \in W
        /\ Sound(D, W, T, c) /\ L1 = W /\ N1 = D \cup W /\ \A m \in W : ~Before(m, n)
        /\ ~Before(n, c)
    BY DEF Round, Sound, InOrder
  <1>2. ContainsNet(n, c) /\ n.mask <= c.mask /\ n.mask \in Nat /\ c.mask \in Nat
    BY <1>1, AfterCurrent, BlockFacts
  \* What is around c starts where c starts and is not smaller than n.
  <1>3. ASSUME NEW z \in N, ContainsNet(z, c), z # c
        PROVE  /\ z \in W /\ z \in Net /\ z.mask \in Nat /\ First(z) = First(n)
               /\ z.mask <= n.mask /\ ContainsNet(z, n)
    <2>1. z \in W
      BY <1>1, <1>3, DoneIsBehind
    <2>2. z \in Net /\ ~Before(z, n) /\ First(z) <= First(n)
      BY <1>1, <1>3, <2>1 DEF ContainsNet
    <2>3. First(n) <= First(z)
      BY <1>1, <2>2, AfterCurrent
    <2>4. First(z) = First(n)
      BY <1>1, <2>2, <2>3, BlockFacts
    <2>5. z.mask <= n.mask /\ ContainsNet(z, n)
      BY <1>1, <2>2, <2>4, AfterCurrent
    <2> QED
      BY <2>1, <2>2, <2>4, <2>5, BlockFacts
  <1>4. \A a \in Addresses : Verdict(N1, a) = Verdict(N, a)
    <2>1. NoConflict(N)
      BY <1>1, DoneIsBehind
    <2>2. \A z \in N : ~(n.mask < z.mask /\ z.mask < c.mask /\ ContainsNet(z, c))
      <3> SUFFICES ASSUME NEW z \in N, n.mask < z.mask, z.mask < c.mask, ContainsNet(z, c)
                   PROVE  FALSE
        OBVIOUS
      <3>1. z # c
        BY <1>2
      <3>2. z.mask <= n.mask /\ z.mask \in Nat
        BY <1>3, <3>1
      <3> QED
        BY <1>2, <3>2
    <2>3. N \in SUBSET Net /\ N1 \in SUBSET N /\ N \subseteq N1 \cup {c} /\ n \in N1
      BY <1>1
    <2> HIDE DEF N, N1
    <2> QED
      BY <1>1, <1>2, <2>1, <2>2, <2>3, ForgetKeepsVerdict
  <1>5. \A m \in N1 : Inside(c, m) => \/ m.included = c.included
                                      \/ SameNet(n, c)
    <2> SUFFICES ASSUME NEW m \in N1, Inside(c, m), m.included # c.included, ~SameNet(n, c)
                 PROVE  FALSE
      OBVIOUS
    <2>1. /\ m \in W /\ m \in Net /\ m.mask \in Nat /\ First(m) = First(n)
          /\ m.mask <= n.mask /\ ContainsNet(m, n)
      <3>1. m \in N /\ ContainsNet(m, c) /\ m # c
        BY <1>1, <1>2 DEF Inside
      <3> QED
        BY <1>3, <3>1
    <2>2. n.mask < c.mask
      BY <1>1, <1>2, ContainedIsSmaller
    <2>3. Starts(c, n)
      BY <1>2, <2>2 DEF Starts, Inside
    <2>4. m # n
      OBVIOUS
    <2> QED
      BY <1>1, <2>1, <2>3, <2>4 DEF Sound, StartsAreFree, IsCovered
  <1>6. Remain(rs, W \cup {c}, N) => Remain(rs, L1, N1)
    <2> SUFFICES ASSUME Remain(rs, W \cup {c}, N) PROVE Remain(rs, L1, N1)
      OBVIOUS
    <2>1. \A x \in W \cup {c} : \/ \E m \in L1 : SameNet(m, x) /\ m.included = x.included
                                \/ \A m \in N1 : Inside(x, m) => m.included = x.included
      BY <1>1, <1>5 DEF SameNet
    <2>2. /\ N \in SUBSET Net /\ N1 \in SUBSET Net /\ L1 \in SUBSET Net
          /\ W \cup {c} \in SUBSET Net /\ \A m \in N1 : m \in N
      BY <1>1
    <2> HIDE DEF N, N1, L1
    <2> QED
      BY <2>1, <2>2, RemainIsKept
  <1> QED
    BY <1>4, <1>6 DEF Keeps

LEMMA ForgetNextKeeps ==
    ASSUME NEW rs \in SUBSET Net,
           NEW D, NEW W, NEW T, NEW c, NEW n, NEW R, Round(D, W, T, c, n, R),
           ~(First(c) = First(n) /\ c.mask >= n.mask), c.included = n.included
    PROVE  Keeps(rs, W \cup {c}, D \cup W \cup {c}, R \cup {c}, D \cup R \cup {c})
  <1> DEFINE N == D \cup W \cup {c}  L1 == R \cup {c}  N1 == D \cup R \cup {c}
  <1>1. /\ D \in SUBSET Net /\ W \in SUBSET Net /\ c \in Net /\ n \in Net /\ n \in W
        /\ R \subseteq W /\ W \ {n} \subseteq R
        /\ Sound(D, W, T, c) /\ \A m \in W : ~Before(m, n)
    BY DEF Round
  <1>2. /\ First(c) < First(n) /\ ContainsNet(c, n) /\ c.mask < n.mask
        /\ n.mask \in Nat /\ c.mask \in Nat
        /\ \A k \in W : First(c) < First(k)
    BY <1>1, InCurrent, BlockFacts
  \* Nothing but c is around n and larger.
  <1>3. ASSUME NEW z \in N, ContainsNet(z, n), z.mask < n.mask, z # c
        PROVE  FALSE
    <2>1. z \in W
      BY <1>1, <1>3, DoneIsBehind
    <2>2. z \in Net /\ ~Before(z, n) /\ First(z) <= First(n)
      BY <1>1, <1>3, <2>1 DEF ContainsNet
    <2>3. First(n) <= First(z)
      BY <1>1, <2>2, AfterCurrent
    <2>4. First(z) = First(n) /\ z.mask \in Nat
      BY <1>1, <2>2, <2>3, BlockFacts
    <2>5. Starts(n, z)
      BY <1>2, <1>3, <2>4 DEF Starts, Inside
    <2>6. CASE c.mask <= z.mask
      <3>1. ContainsNet(c, z)
        BY <1>1, <1>2, <1>3, <2>2, <2>6, BothAround
      <3> QED
        BY <1>1, <1>3, <2>1, <2>5, <3>1 DEF Sound, StartsAreFree, IsCovered
    <2>7. CASE z.mask <= c.mask
      <3>1. ContainsNet(z, c)
        BY <1>1, <1>2, <1>3, <2>2, <2>7, BothAround
      <3>2. First(z) <= First(c) /\ First(c) < First(z)
        BY <1>2, <2>1, <3>1 DEF ContainsNet
      <3> QED
        BY <1>1, <2>2, <3>2, BlockFacts
    <2> QED
      BY <1>2, <2>4, <2>6, <2>7
  <1>4. \A a \in Addresses : Verdict(N1, a) = Verdict(N, a)
    <2>1. NoConflict(N)
      BY <1>1, DoneIsBehind
    <2>2. \A z \in N : ~(c.mask < z.mask /\ z.mask < n.mask /\ ContainsNet(z, n))
      <3> SUFFICES ASSUME NEW z \in N, c.mask < z.mask, z.mask < n.mask, ContainsNet(z, n)
                   PROVE  FALSE
        OBVIOUS
      <3>1. z # c
        BY <1>2
      <3> QED
        BY <1>3, <3>1
    <2>3. N \in SUBSET Net /\ N1 \in SUBSET N /\ N \subseteq N1 \cup {n} /\ c \in N1
      BY <1>1
    <2> HIDE DEF N, N1
    <2> QED
      BY <1>1, <1>2, <2>1, <2>2, <2>3, ForgetKeepsVerdict
  <1>5. Remain(rs, W \cup {c}, N) => Remain(rs, L1, N1)
    <2> SUFFICES ASSUME Remain(rs, W \cup {c}, N) PROVE Remain(rs, L1, N1)
      OBVIOUS
    <2>1. \A m \in N1 : Inside(n, m) => m.included = n.included
      <3> SUFFICES ASSUME NEW m \in N1, Inside(n, m) PROVE m.included = n.included
        OBVIOUS
      <3>1. m \in N /\ m \in Net /\ m.mask \in Nat /\ n.mask > m.mask /\ ContainsNet(m, n)
        BY <1>1, BlockFacts DEF Inside
      <3>2. m.mask < n.mask
        BY <1>2, <3>1
      <3>3. m = c
        BY <1>3, <3>1, <3>2
      <3> QED
        BY <3>3
    <2>2. \A x \in W \cup {c} : \/ \E m \in L1 : SameNet(m, x) /\ m.included = x.included
                                \/ \A m \in N1 : Inside(x, m) => m.included = x.included
      BY <1>1, <2>1 DEF SameNet
    <2>3. /\ N \in SUBSET Net /\ N1 \in SUBSET Net /\ L1 \in SUBSET Net
          /\ W \cup {c} \in SUBSET Net /\ \A m \in N1 : m \in N
      BY <1>1
    <2> HIDE DEF N, N1, L1
    <2> QED
      BY <2>2, <2>3, RemainIsKept
  <1> QED
    BY <1>4, <1>5 DEF Keeps

\* A network that nothing is around any more is replaced by its halves.
LEMMA SplitKeeps ==
    ASSUME NEW rs \in SUBSET Net,
           NEW D \in SUBSET Net, NEW L \in SUBSET Net, NEW L1 \in SUBSET Net, NEW x \in L,
           x.mask < Bits, L \ {x} \subseteq L1, L1 \subseteq L \cup {LowerHalf(x), UpperHalf(x)},
           \A h \in {LowerHalf(x), UpperHalf(x)} : \E z \in L1 : SameNet(z, h),
           \A k \in D \cup L1 : ~ContainsNet(k, x),
           NoConflict(D \cup L), NoConflict(D \cup L1)
    PROVE  Keeps(rs, L, D \cup L, L1, D \cup L1)
  <1> DEFINE N == D \cup L  N1 == D \cup L1
  <1>1. /\ N \in SUBSET Net /\ N1 \in SUBSET Net /\ x \in N /\ N \ {x} \subseteq N1
        /\ N1 \subseteq N \cup {LowerHalf(x), UpperHalf(x)}
        /\ \A h \in {LowerHalf(x), UpperHalf(x)} : \E z \in N1 : SameNet(z, h)
    OBVIOUS
  <1>2. \A h \in {LowerHalf(x), UpperHalf(x)} : h.included = x.included /\ Inside(h, x)
    BY HalvesInside
  <1>3. \A m \in N1 : ~Inside(x, m)
    BY DEF Inside
  <1>4. \A m \in N1 : \E y \in N : y = m \/ (y.included = m.included /\ Inside(m, y))
    BY <1>1, <1>2
  <1>5. \A y \in L : \/ \E m \in L1 : SameNet(m, y) /\ m.included = y.included
                     \/ \A m \in N1 : Inside(y, m) => m.included = y.included
    BY <1>3 DEF SameNet
  <1>6. NoConflict(N) /\ NoConflict(N1)
    OBVIOUS
  <1> HIDE DEF N, N1
  <1>7. \A a \in Addresses : Verdict(N1, a) = Verdict(N, a)
    BY <1>1, <1>6, SplitKeepsVerdict
  <1>8. Remain(rs, L, N) => Remain(rs, L1, N1)
    BY <1>1, <1>4, <1>5, RemainIsKept
  <1> QED
    BY <1>7, <1>8 DEF Keeps, N, N1

LEMMA SplitNextKeeps ==
    ASSUME NEW rs \in SUBSET Net,
           NEW D, NEW W, NEW T, NEW c, NEW n, NEW R, Round(D, W, T, c, n, R),
           First(c) = First(n), c.mask >= n.mask, c.included # n.included
    PROVE  Keeps(rs, W \cup {c}, D \cup W \cup {c},
                 R \cup HalvesToAdd(c, n, R) \cup {c}, D \cup R \cup HalvesToAdd(c, n, R) \cup {c})
  <1> DEFINE W1 == R \cup HalvesToAdd(c, n, R)  L == W \cup {c}  L1 == W1 \cup {c}
  <1>1. /\ Sound(D, W1, T, c)
        /\ \A h \in {LowerHalf(n), UpperHalf(n)} : \E z \in L1 : SameNet(z, h)
        /\ HalvesToAdd(c, n, R) \subseteq {LowerHalf(n), UpperHalf(n)}
        /\ \A k \in L1 : ~ContainsNet(k, n)
    BY SplitNextSound
  <1>2. n.mask < Bits /\ n # c /\ R = W \ {n}
    BY InNext
  <1>3. /\ D \in SUBSET Net /\ W \in SUBSET Net /\ c \in Net /\ n \in Net /\ n \in W
        /\ Sound(D, W, T, c)
    BY DEF Round
  <1>4. LowerHalf(n) \in Net /\ UpperHalf(n) \in Net
    BY <1>2, <1>3, HalvesFacts
  <1>5. W1 \in SUBSET Net
    BY <1>1, <1>2, <1>3, <1>4
  <1>6. NoConflict(D \cup W \cup {c}) /\ NoConflict(D \cup W1 \cup {c})
    <2> HIDE DEF W1
    <2> QED
      BY <1>1, <1>3, <1>5, DoneIsBehind
  <1>7. \A k \in D \cup L1 : ~ContainsNet(k, n)
    <2>1. \A k \in D : ~ContainsNet(k, n)
      BY <1>3, DoneIsBehind
    <2> QED
      BY <1>1, <2>1
  <1>8. /\ L \in SUBSET Net /\ L1 \in SUBSET Net /\ n \in L /\ L \ {n} \subseteq L1
        /\ L1 \subseteq L \cup {LowerHalf(n), UpperHalf(n)}
        /\ D \cup W \cup {c} = D \cup L /\ D \cup W1 \cup {c} = D \cup L1
    BY <1>1, <1>2, <1>3, <1>5
  <1>9. D \cup R \cup HalvesToAdd(c, n, R) \cup {c} = D \cup L1
    OBVIOUS
  <1>10. Keeps(rs, L, D \cup L, L1, D \cup L1)
    <2> HIDE DEF L, L1
    <2> QED
      BY <1>1, <1>2, <1>3, <1>6, <1>7, <1>8, SplitKeeps
  <1> QED
    BY <1>8, <1>9, <1>10

LEMMA SplitCurrentKeeps ==
    ASSUME NEW rs \in SUBSET Net,
           NEW D, NEW W, NEW T, NEW c, NEW n, NEW R, Round(D, W, T, c, n, R),
           ~(First(c) = First(n) /\ c.mask >= n.mask), c.included # n.included
    PROVE  Keeps(rs, W \cup {c}, D \cup W \cup {c},
                 W \cup UpperToAdd(c, n) \cup {LowerHalf(c)},
                 D \cup W \cup UpperToAdd(c, n) \cup {LowerHalf(c)})
  <1> DEFINE W1 == W \cup UpperToAdd(c, n)  lo == LowerHalf(c)  L == W \cup {c}  L1 == W1 \cup {lo}
  <1>1. T \in SUBSET (T \cup ({UpperHalf(c)} \cap W))
    OBVIOUS
  <1>2. /\ Sound(D, W1, T, lo)
        /\ \A h \in {LowerHalf(c), UpperHalf(c)} : \E z \in L1 : SameNet(z, h)
        /\ \A k \in L1 : ~ContainsNet(k, c)
    BY <1>1, SplitCurrentSound
  <1>3. c.mask < Bits
    BY InCurrent
  <1>4. /\ D \in SUBSET Net /\ W \in SUBSET Net /\ c \in Net /\ Sound(D, W, T, c)
    BY DEF Round
  <1>5. lo \in Net /\ UpperHalf(c) \in Net /\ W1 \in SUBSET Net
    BY <1>3, <1>4, HalvesFacts DEF UpperToAdd
  <1>6. NoConflict(D \cup W \cup {c}) /\ NoConflict(D \cup W1 \cup {lo})
    <2> HIDE DEF W1, lo
    <2> QED
      BY <1>2, <1>4, <1>5, DoneIsBehind
  <1>7. \A k \in D \cup L1 : ~ContainsNet(k, c)
    <2>1. \A k \in D : ~ContainsNet(k, c)
      BY <1>4, DoneIsBehind
    <2> QED
      BY <1>2, <2>1
  <1>8. /\ L \in SUBSET Net /\ L1 \in SUBSET Net /\ c \in L /\ L \ {c} \subseteq L1
        /\ L1 \subseteq L \cup {LowerHalf(c), UpperHalf(c)}
        /\ D \cup W \cup {c} = D \cup L /\ D \cup W1 \cup {lo} = D \cup L1
    BY <1>4, <1>5 DEF UpperToAdd
  <1>9. D \cup W \cup UpperToAdd(c, n) \cup {LowerHalf(c)} = D \cup L1
    OBVIOUS
  <1>10. Keeps(rs, L, D \cup L, L1, D \cup L1)
    <2> HIDE DEF L, L1
    <2> QED
      BY <1>2, <1>3, <1>4, <1>6, <1>7, <1>8, SplitKeeps
  <1> QED
    BY <1>8, <1>9, <1>10
-----------------------------------------------------------------------------
(* The queue as a bag                                                       *)

LEMMA BagOfSet ==
    ASSUME NEW S
    PROVE  /\ IsABag(SetToBag(S)) /\ BagToSet(SetToBag(S)) = S /\ Repeated(SetToBag(S)) = {}
           /\ SetToBag(S) = EmptyBag <=> S = {}
  <1>1. SetToBag(S) = [e \in S |-> 1] /\ DOMAIN SetToBag(S) = S
    BY DEF SetToBag
  <1>2. DOMAIN EmptyBag = {}
    BY DEF EmptyBag, SetToBag
  <1>3. SetToBag(S) = EmptyBag <=> S = {}
    BY <1>1, <1>2 DEF EmptyBag
  <1> QED
    BY <1>1, <1>3 DEF IsABag, BagToSet, Repeated

\* networks.poll(): one copy of n is gone.
LEMMA BagWithout ==
    ASSUME NEW q, IsABag(q), NEW n, n = NoNet => n \notin BagToSet(q)
    PROVE  /\ IsABag(Without(q, n))
           /\ BagToSet(Without(q, n)) \subseteq BagToSet(q)
           /\ BagToSet(q) \ {n} \subseteq BagToSet(Without(q, n))
           /\ n \in BagToSet(Without(q, n)) => n \in Repeated(q)
           /\ Repeated(Without(q, n)) \subseteq Repeated(q)
  <1> DEFINE B == [e \in DOMAIN q |-> IF e \in {n} \ {NoNet} THEN q[e] - 1 ELSE q[e]]
             Q == [e \in {d \in DOMAIN B : B[d] > 0} |-> B[e]]
  <1>1. Without(q, n) = Q
    BY DEF Without, (-), SetToBag
  <1>2. \A e \in DOMAIN q : q[e] \in Nat /\ q[e] > 0
    BY DEF IsABag
  <1>3. \A e \in DOMAIN q : B[e] \in Int /\ B[e] <= q[e] /\ (e # n => B[e] = q[e])
    BY <1>2
  <1>4. n \in DOMAIN q => B[n] = q[n] - 1
    BY DEF BagToSet
  <1>5. DOMAIN B = DOMAIN q
    OBVIOUS
  <1> HIDE DEF B
  <1>6. /\ DOMAIN Q \subseteq DOMAIN q
        /\ \A e \in DOMAIN Q : Q[e] = B[e] /\ Q[e] \in Nat /\ Q[e] > 0
    BY <1>3, <1>5
  <1>7. \A e \in DOMAIN q : e # n => e \in DOMAIN Q
    BY <1>2, <1>3, <1>5
  <1>8. \A e \in DOMAIN Q : Q[e] <= q[e]
    BY <1>3, <1>6
  <1>9. n \in DOMAIN Q => q[n] > 1
    BY <1>2, <1>4, <1>6
  <1>10. Q \in [DOMAIN Q -> {i \in Nat : i > 0}]
    BY <1>6
  <1> HIDE DEF Q
  <1>11. \A e \in DOMAIN Q : Q[e] > 1 => q[e] > 1
    BY <1>2, <1>6, <1>8
  <1> QED
    BY <1>1, <1>6, <1>7, <1>9, <1>10, <1>11 DEF IsABag, BagToSet, Repeated

\* networks.add(): there is one copy more of each.
LEMMA BagWithAll ==
    ASSUME NEW q, IsABag(q), NEW S
    PROVE  /\ IsABag(WithAll(q, S))
           /\ BagToSet(WithAll(q, S)) = BagToSet(q) \cup S
           /\ Repeated(WithAll(q, S)) \subseteq Repeated(q) \cup (S \cap BagToSet(q))
  <1> DEFINE Q == [e \in (DOMAIN q) \cup S |->
                      (IF e \in DOMAIN q THEN q[e] ELSE 0) + (IF e \in S THEN 1 ELSE 0)]
  <1>1. WithAll(q, S) = Q
    BY DEF WithAll, (+), SetToBag
  <1>2. \A e \in DOMAIN q : q[e] \in Nat /\ q[e] > 0
    BY DEF IsABag
  <1>3. \A e \in DOMAIN Q : Q[e] \in Nat /\ Q[e] > 0
    BY <1>2
  <1>4. \A e \in DOMAIN Q : Q[e] > 1 => e \in DOMAIN q /\ (q[e] > 1 \/ e \in S)
    BY <1>2
  <1>5. DOMAIN Q = (DOMAIN q) \cup S /\ Q \in [DOMAIN Q -> {i \in Nat : i > 0}]
    BY <1>3
  <1> HIDE DEF Q
  <1> QED
    BY <1>1, <1>4, <1>5 DEF IsABag, BagToSet, Repeated

\* networks.poll() returns a least one, or null when none is left.
LEMMA LeastFacts ==
    ASSUME NEW q, IsABag(q), NEW n \in Least(q)
    PROVE  IF BagToSet(q) = {} THEN n = NoNet
           ELSE n \in BagToSet(q) /\ \A m \in BagToSet(q) : ~Before(m, n)
  <1>1. ASSUME BagToSet(q) = {} PROVE q = EmptyBag
    <2>1. q = [e \in DOMAIN q |-> q[e]]
      BY DEF IsABag
    <2>2. DOMAIN q = {}
      BY <1>1 DEF BagToSet
    <2>3. EmptyBag = [e \in {} |-> 1]
      BY DEF EmptyBag, SetToBag
    <2>4. [e \in {} |-> q[e]] = [e \in {} |-> 1]
      OBVIOUS
    <2> QED
      BY <2>1, <2>2, <2>3, <2>4
  <1>2. BagToSet(EmptyBag) = {}
    BY DEF BagToSet, EmptyBag, SetToBag
  <1> QED
    BY <1>1, <1>2 DEF Least
-----------------------------------------------------------------------------
(* The steps of the program                                                 *)

LEMMA NetsAreNets == NoNet \notin Net
  <1>1. \A n \in Net : n \in [net : Int, mask : Int, included : BOOLEAN]
    <2> SUFFICES ASSUME NEW n \in Net PROVE n \in [net : Int, mask : Int, included : BOOLEAN]
      OBVIOUS
    <2>1. n.net \in Int /\ n.mask \in Int /\ n.included \in BOOLEAN
      <3>1. n.net \in Addresses /\ n.included \in BOOLEAN
        BY DEF Net
      <3>2. n.mask \in 0..Bits
        BY DEF Net
      <3>3. n.mask \in Int
        BY <3>2, ConstantsAssumption
      <3>4. n.net \in Nat
        BY <3>1, AddressesAreNumbers
      <3> QED
        BY <3>1, <3>3, <3>4
    <2>2. n = [net |-> n.net, mask |-> n.mask, included |-> n.included]
      BY DEF Net
    <2> QED
      BY <2>1, <2>2
  <1> QED
    BY <1>1, ConstantsAssumption

\* TreeSet.add() keeps the space without duplicates and without awkward neighbours.
LEMMA FillKeeps ==
    ASSUME NEW nets, NEW n, NEW others,
           \A x, y \in nets : SameNet(x, y) => x = y,
           nets \subseteq others, n \in others, ~StartIsShared(others), ~LowerHalfIsTaken(others)
    PROVE  /\ \A x, y \in Add(nets, n) : SameNet(x, y) => x = y
           /\ Add(nets, n) \subseteq others
           /\ ~StartIsShared(Add(nets, n)) /\ ~LowerHalfIsTaken(Add(nets, n))
  <1>1. \A x, y \in Add(nets, n) : SameNet(x, y) => x = y
    BY DEF Add, SameNet
  <1>2. Add(nets, n) \subseteq others
    BY DEF Add
  <1> QED
    BY <1>1, <1>2 DEF StartIsShared, LowerHalfIsTaken

\* A step that only adds n, or n and then m, to a space that is still being filled.
LEMMA FillStep ==
    ASSUME Inv, ~Awkward, NEW n \in Net, NEW m \in Net,
           \/ Fits({n}) /\ routes' = Add(routes, n)
           \/ Fits({n, m}) /\ routes' = Add(Add(routes, n), m),
           UNCHANGED work, pc' \in {"fill", "local"}
    PROVE  Inv'
  <1>1. routes' \subseteq Net /\ Filled'
    <2>1. CASE Fits({n}) /\ routes' = Add(routes, n)
      <3> DEFINE others == routes \cup {n}
      <3>1. ~StartIsShared(others) /\ ~LowerHalfIsTaken(others)
        BY <2>1 DEF Fits
      <3>2. others \subseteq Net
        BY DEF Inv, Shape
      <3> HIDE DEF others
      <3>3. routes \subseteq others /\ n \in others
        BY DEF others
      <3> QED
        BY <2>1, <3>1, <3>2, <3>3, FillKeeps DEF Inv, Filled
    <2>2. CASE Fits({n, m}) /\ routes' = Add(Add(routes, n), m)
      <3> DEFINE others == routes \cup {n, m}
      <3>1. ~StartIsShared(others) /\ ~LowerHalfIsTaken(others)
        BY <2>2 DEF Fits
      <3>2. others \subseteq Net
        BY DEF Inv, Shape
      <3>3. routes \subseteq others /\ n \in others /\ m \in others
        OBVIOUS
      <3> HIDE DEF others
      <3> DEFINE more == Add(routes, n)
      <3>4. (\A x, y \in more : SameNet(x, y) => x = y) /\ more \subseteq others
        BY <3>1, <3>3, FillKeeps DEF Inv, Filled
      <3> HIDE DEF more
      <3>5. /\ \A x, y \in Add(more, m) : SameNet(x, y) => x = y
            /\ Add(more, m) \subseteq others
            /\ ~StartIsShared(Add(more, m)) /\ ~LowerHalfIsTaken(Add(more, m))
        BY <3>1, <3>3, <3>4, FillKeeps
      <3>6. routes' = Add(more, m)
        BY <2>2 DEF more
      <3> QED
        BY <3>2, <3>5, <3>6 DEF Filled
    <2> QED
      BY <2>1, <2>2
  <1>2. Shape'
    BY <1>1 DEF Inv, Shape, Waiting, work
  <1> QED
    BY <1>1, <1>2 DEF Inv, PositiveIsExact, DoneIsDisjoint, work

LEMMA AddRouteStep ==
    ASSUME Inv, ~Awkward, NEW net \in Addresses, NEW mask \in 0..Bits, NEW include \in BOOLEAN,
           AddRoute(net, mask, include) \/ AddRoutev6(net, mask, include)
    PROVE  Inv'
  <1> DEFINE given  == [net |-> net, mask |-> mask, included |-> include]
             normal == [net |-> net - (net % Size(mask)), mask |-> mask, included |-> include]
  <1>1. given \in Net
    BY DEF Net
  <1>2. First(given) = normal.net
    BY DEF First
  <1>3. First(given) \in Addresses
    BY <1>1, BlockInSpace
  <1>4. normal \in Net
    BY <1>2, <1>3 DEF Net
  <1>5. PICK n \in {given, normal} :
            Fits({n}) /\ routes' = Add(routes, n) /\ UNCHANGED <<space, work, pc>> /\ pc = "fill"
    BY DEF AddRoute, AddRoutev6
  <1>6. n \in Net
    BY <1>1, <1>4
  <1> HIDE DEF given, normal
  <1> QED
    BY <1>5, <1>6, FillStep

LEMMA AddLocalNetworkStep ==
    ASSUME Inv, ~Awkward, NEW net \in Addresses, NEW mask \in 0..Bits, AddLocalNetwork(net, mask)
    PROVE  Inv'
  <1> DEFINE local == [net |-> net, mask |-> mask, included |-> space = "v4old"]
  <1>1. local \in Net /\ local.mask = mask
    BY DEF Net
  <1>2. /\ pc' = "local" /\ UNCHANGED work
        /\ \/ Fits({local}) /\ routes' = Add(routes, local)
           \/ /\ mask < Bits /\ Fits({LowerHalf(local), UpperHalf(local)})
              /\ routes' = Add(Add(routes, LowerHalf(local)), UpperHalf(local))
    BY DEF AddLocalNetwork
  <1> HIDE DEF local
  <1>3. mask < Bits => LowerHalf(local) \in Net /\ UpperHalf(local) \in Net
    BY <1>1, HalvesFacts
  <1>4. pc' \in {"fill", "local"} /\ UNCHANGED work
    BY <1>2
  <1>5. CASE Fits({local}) /\ routes' = Add(routes, local)
    BY <1>1, <1>4, <1>5, FillStep
  <1>6. CASE /\ mask < Bits /\ Fits({LowerHalf(local), UpperHalf(local)})
             /\ routes' = Add(Add(routes, LowerHalf(local)), UpperHalf(local))
    BY <1>3, <1>4, <1>6, FillStep
  <1> QED
    BY <1>2, <1>5, <1>6

\* generateIPList() starts.
LEMMA GenerateStep ==
    ASSUME Inv, GenerateIPList
    PROVE  Inv'
  <1>1. PICK n \in Least(SetToBag(routes)) :
            currentNet' = n /\ networks' = Without(SetToBag(routes), n)
    BY DEF GenerateIPList
  <1>2. /\ pc' = "merge" /\ ipsDone' = {} /\ UNCHANGED <<space, routes, positive>>
        /\ routes \in SUBSET Net /\ Filled
    BY DEF GenerateIPList, Inv, Shape
  <1> DEFINE q == SetToBag(routes)  q1 == Without(q, n)  W1 == BagToSet(q1)
  <1>3. IsABag(q) /\ BagToSet(q) = routes /\ Repeated(q) = {}
    BY BagOfSet
  <1>4. IF routes = {} THEN n = NoNet ELSE n \in routes /\ \A m \in routes : ~Before(m, n)
    BY <1>3, LeastFacts
  <1> HIDE DEF q
  <1>5. /\ IsABag(q1) /\ W1 \subseteq routes /\ routes \ {n} \subseteq W1 /\ n \notin W1
        /\ Repeated(q1) = {}
    <2>1. n = NoNet => n \notin BagToSet(q)
      BY <1>2, <1>3, NetsAreNets
    <2> QED
      BY <1>3, <2>1, BagWithout
  <1>6. networks' = q1
    BY <1>1 DEF q
  <1>7. Waiting' = W1 /\ Twice' = {}
    BY <1>5, <1>6 DEF Waiting, Twice
  <1> HIDE DEF q1, W1
  <1>8. n = NoNet <=> routes = {}
    BY <1>2, <1>4, NetsAreNets
  <1>9. Live' = routes /\ All' = routes
    <2>1. CASE routes = {}
      <3>1. W1 = {} /\ currentNet' = NoNet
        BY <1>1, <1>5, <1>8, <2>1
      <3> QED
        BY <1>2, <1>7, <2>1, <3>1 DEF Live, All
    <2>2. CASE routes # {}
      <3>1. n \in routes /\ n # NoNet /\ currentNet' = n
        BY <1>1, <1>4, <1>8, <2>2
      <3> QED
        BY <1>2, <1>5, <1>7, <3>1 DEF Live, All
    <2> QED
      BY <2>1, <2>2
  <1>10. Shape'
    <2>1. currentNet' \in Net \cup {NoNet} /\ (currentNet' = NoNet => W1 = {})
      BY <1>1, <1>2, <1>4, <1>5, <1>8
    <2>2. IsABag(networks') /\ Waiting' \subseteq Net /\ (currentNet' = NoNet => Waiting' = {})
      BY <1>2, <1>5, <1>6, <1>7, <2>1
    <2> QED
      BY <1>2, <2>1, <2>2 DEF Inv, Shape
  <1>11. ASSUME currentNet' # NoNet PROVE Sound({}, W1, {}, n)
    <2>1. n \in routes /\ \A m \in routes : ~Before(m, n)
      BY <1>1, <1>4, <1>8, <1>11
    <2>2. W1 \cup {n} = routes
      BY <1>5, <2>1
    <2>3. InOrder({}, W1, n) /\ Disjoint({})
      BY <2>1, <2>2 DEF InOrder, Disjoint
    <2>4. NoConflict(routes)
      BY <1>2 DEF Filled, NoConflict
    <2>5. StartsAreFree(routes, {})
      <3> SUFFICES ASSUME NEW m \in routes, NEW s \in routes, Starts(s, m),
                          IsCovered(routes, {}, m)
                   PROVE  FALSE
        BY DEF StartsAreFree
      <3>1. PICK k \in routes : k # m /\ ContainsNet(k, m)
        BY DEF IsCovered
      <3>2. k \in Net /\ m \in Net /\ k.mask \in Nat /\ m.mask \in Nat
        BY <1>2, BlockFacts
      <3>3. k.mask # m.mask
        BY <1>2, <3>1, <3>2, ContainedIsSmaller DEF Filled
      <3>4. Inside(m, k)
        BY <3>1, <3>2, <3>3, ContainedIsSmaller DEF Inside
      <3> QED
        BY <1>2, <3>4 DEF Filled, StartIsShared, Starts
    <2>6. LowerHalvesAreFree(routes)
      BY <1>2, LowerHalvesAreFreeAtFirst DEF Filled
    <2> QED
      BY <2>2, <2>3, <2>4, <2>5, <2>6 DEF Sound
  <1>12. Merging'
    <2>1. currentNet' # NoNet => Sound(ipsDone', Waiting', Twice', currentNet')
      BY <1>1, <1>2, <1>7, <1>11
    <2>2. Remain(routes', Live', All')
      BY <1>2, <1>9 DEF Remain, SameNet
    <2>3. SpaceIsKept'
      <3>1. (ipsDone \cup BagToSet(networks) \cup ({currentNet} \ {NoNet}))' = routes'
        BY <1>2, <1>9 DEF All, Live, Waiting
      <3> QED
        BY <3>1 DEF SpaceIsKept
    <2> QED
      BY <2>1, <2>2, <2>3 DEF Merging
  <1>13. Filled' /\ PositiveIsExact' /\ DoneIsDisjoint'
    BY <1>2 DEF Filled, PositiveIsExact, DoneIsDisjoint
  <1> QED
    BY <1>10, <1>12, <1>13 DEF Inv

\* What a round has to show.
LEMMA RoundStep ==
    ASSUME Inv, pc = "merge", currentNet # NoNet, UNCHANGED <<space, routes, positive, pc>>,
           ipsDone' \subseteq Net, IsABag(networks'), Waiting' \subseteq Net,
           currentNet' \in Net \cup {NoNet}, currentNet' = NoNet => Waiting' = {},
           Disjoint(ipsDone'),
           currentNet' # NoNet => Sound(ipsDone', Waiting', Twice', currentNet'),
           Keeps(routes, Waiting \cup {currentNet}, ipsDone \cup Waiting \cup {currentNet},
                 Live', All')
    PROVE  Inv'
  <1>1. /\ Shape /\ Filled /\ Merging /\ SpaceIsKept
        /\ Live = Waiting \cup {currentNet} /\ All = ipsDone \cup Waiting \cup {currentNet}
    BY DEF Inv, Merging, Live, All
  <1>2. Shape'
    BY <1>1 DEF Shape
  <1>3. Remain(routes, Live', All')
    BY <1>1 DEF Merging, Keeps
  <1>4. SpaceIsKept'
    <2>1. All = ipsDone \cup BagToSet(networks) \cup ({currentNet} \ {NoNet})
      BY DEF All, Live, Waiting
    <2>2. All' = (ipsDone \cup BagToSet(networks) \cup ({currentNet} \ {NoNet}))'
      BY DEF All, Live, Waiting
    <2>3. \A a \in Addresses : Verdict(All, a) = Verdict(routes, a)
      BY <1>1, <2>1 DEF SpaceIsKept
    <2>4. \A a \in Addresses : Verdict(All', a) = Verdict(All, a)
      BY <1>1 DEF Keeps
    <2>5. \A a \in Addresses : Verdict(All', a) = Verdict(routes', a)
      BY <2>3, <2>4
    <2> QED
      BY <2>2, <2>5 DEF SpaceIsKept
  <1>5. Filled' /\ PositiveIsExact' /\ DoneIsDisjoint'
    BY <1>1 DEF Filled, PositiveIsExact, DoneIsDisjoint, Disjoint
  <1> QED
    BY <1>2, <1>3, <1>4, <1>5 DEF Inv, Merging

\* The state before a round, in terms of sets.
LEMMA RoundBefore ==
    ASSUME Inv, pc = "merge", currentNet # NoNet, NEW n \in Least(networks), n # NoNet
    PROVE  /\ routes \in SUBSET Net /\ ipsDone \in SUBSET Net /\ Waiting \in SUBSET Net
           /\ currentNet \in Net /\ n \in Net /\ n \in Waiting /\ Disjoint(ipsDone)
           /\ Sound(ipsDone, Waiting, Twice, currentNet)
           /\ IsABag(networks) /\ IsABag(Without(networks, n))
           /\ \A m \in Waiting : ~Before(m, n)
           /\ BagToSet(Without(networks, n)) \in SUBSET Waiting
           /\ Waiting \ {n} \subseteq BagToSet(Without(networks, n))
           /\ Repeated(Without(networks, n)) \in SUBSET Twice
           /\ Overlaps(n) => Round(ipsDone, Waiting, Twice, currentNet, n,
                                   BagToSet(Without(networks, n)))
  <1>1. /\ routes \in SUBSET Net /\ ipsDone \in SUBSET Net /\ Waiting \in SUBSET Net
        /\ currentNet \in Net /\ IsABag(networks)
        /\ Sound(ipsDone, Waiting, Twice, currentNet) /\ Disjoint(ipsDone)
    BY DEF Inv, Shape, Merging, Sound
  <1>2. n \in Waiting /\ \A m \in Waiting : ~Before(m, n)
    BY <1>1, LeastFacts DEF Waiting
  <1>3. /\ IsABag(Without(networks, n))
        /\ BagToSet(Without(networks, n)) \in SUBSET Waiting
        /\ Waiting \ {n} \subseteq BagToSet(Without(networks, n))
        /\ Repeated(Without(networks, n)) \in SUBSET Twice
        /\ n \in BagToSet(Without(networks, n)) => n \in Twice
    BY <1>1, BagWithout DEF Waiting, Twice
  <1>4. Twice \subseteq Waiting
    BY DEF Twice, Waiting, Repeated
  <1>5. First(n) <= Last(currentNet) <=> Last(currentNet) >= First(n)
    BY <1>1, <1>2, BlockFacts
  <1>6. Overlaps(n) => Round(ipsDone, Waiting, Twice, currentNet, n,
                             BagToSet(Without(networks, n)))
    BY <1>1, <1>2, <1>3, <1>4, <1>5 DEF Round, Overlaps
  <1> QED
    BY <1>1, <1>2, <1>3, <1>6

LEMMA FinishStep ==
    ASSUME Inv, pc = "merge", currentNet # NoNet, UNCHANGED <<space, routes, positive, pc>>,
           NEW n \in Least(networks), Finish(n)
    PROVE  Inv'
  <1> DEFINE D == ipsDone  W == Waiting  T == Twice  c == currentNet
  <1>1. /\ routes \in SUBSET Net /\ D \in SUBSET Net /\ W \in SUBSET Net /\ c \in Net
        /\ Sound(D, W, T, c) /\ IsABag(networks)
    BY DEF Inv, Shape, Merging
  <1>2. currentNet' = n /\ networks' = Without(networks, n) /\ ipsDone' = Add(D, c)
    BY DEF Finish
  <1>3. ipsDone' = D \cup {c} /\ Disjoint(D \cup {c})
    BY <1>1, <1>2, FinishSound
  <1>4. CASE n = NoNet
    <2>1. W = {}
      BY <1>1, <1>4, LeastFacts, NetsAreNets DEF Waiting
    <2>2. n \notin W /\ IsABag(Without(networks, n)) /\ BagToSet(Without(networks, n)) = {}
      BY <1>1, <1>4, <2>1, BagWithout DEF Waiting
    <2>3. Waiting' = {} /\ Live' = {} /\ All' = D \cup {c}
      BY <1>2, <1>3, <1>4, <2>2 DEF Waiting, Live, All
    <2>4. Keeps(routes, W \cup {c}, D \cup W \cup {c}, W, D \cup {c} \cup W)
      <3>1. \A m \in W : Last(c) < First(m)
        BY <2>1
      <3> HIDE DEF D, W, T, c
      <3> QED
        BY <1>1, <3>1, FinishKeeps
    <2>5. Live' = W /\ All' = D \cup {c} \cup W
      BY <2>1, <2>3
    <2>6. Keeps(routes, W \cup {c}, D \cup W \cup {c}, Live', All')
      BY <2>4, <2>5
    <2> QED
      BY <1>1, <1>2, <1>3, <1>4, <2>2, <2>3, <2>6, RoundStep
  <1>5. CASE n # NoNet
    <2> DEFINE R == BagToSet(Without(networks, n))
    <2>1. /\ n \in Net /\ n \in W /\ IsABag(Without(networks, n))
          /\ \A m \in W : ~Before(m, n)
          /\ R \in SUBSET W /\ W \ {n} \subseteq R /\ Repeated(Without(networks, n)) \in SUBSET T
      BY <1>5, RoundBefore
    <2>2. Waiting' = R /\ Twice' \in SUBSET T
      BY <1>2, <2>1 DEF Waiting, Twice
    <2>3. Last(c) < First(n)
      <3>1. ~(Last(c) >= First(n))
        BY <1>5 DEF Finish, Overlaps
      <3> QED
        BY <1>1, <2>1, <3>1, BlockFacts
    <2>4. Sound(D \cup {c}, R, Twice', n)
      <3> HIDE DEF D, W, T, c, R
      <3> QED
        BY <1>1, <2>1, <2>2, <2>3, NextSound
    <2>5. \A m \in W : Last(c) < First(m)
      <3> SUFFICES ASSUME NEW m \in W PROVE Last(c) < First(m)
        OBVIOUS
      <3>1. m \in Net /\ First(n) <= First(m)
        BY <1>1, <2>1, AfterCurrent
      <3> QED
        BY <1>1, <2>1, <2>3, <3>1, BlockFacts
    <2>6. Keeps(routes, W \cup {c}, D \cup W \cup {c}, W, D \cup {c} \cup W)
      <3> HIDE DEF D, W, T, c
      <3> QED
        BY <1>1, <2>5, FinishKeeps
    <2>7. Live' = R \cup {n} /\ All' = D \cup {c} \cup (R \cup {n}) /\ R \cup {n} = W
      BY <1>2, <1>3, <1>5, <2>1, <2>2 DEF Live, All
    <2>8. Keeps(routes, W \cup {c}, D \cup W \cup {c}, Live', All')
      BY <2>6, <2>7
    <2>9. ipsDone' \subseteq Net /\ Waiting' \subseteq Net /\ currentNet' \in Net \cup {NoNet}
      BY <1>1, <1>2, <1>3, <2>1, <2>2
    <2>10. IsABag(networks') /\ Sound(ipsDone', Waiting', Twice', currentNet')
      BY <1>2, <1>3, <2>1, <2>2, <2>4
    <2> QED
      BY <1>2, <1>3, <1>5, <2>8, <2>9, <2>10, RoundStep
  <1> QED
    BY <1>4, <1>5

LEMMA ForgetCurrentStep ==
    ASSUME Inv, pc = "merge", currentNet # NoNet, UNCHANGED <<space, routes, positive, pc>>,
           NEW n \in Least(networks), ForgetCurrent(n)
    PROVE  Inv'
  <1> DEFINE D == ipsDone  W == Waiting  T == Twice  c == currentNet
             R == BagToSet(Without(networks, n))
  <1>1. n # NoNet /\ Overlaps(n) /\ First(c) = First(n) /\ c.included = n.included
    BY DEF ForgetCurrent, Overlaps, WithinNext
  <1>2. currentNet' = n /\ networks' = Without(networks, n) /\ ipsDone' = D
    BY DEF ForgetCurrent
  <1>3. /\ routes \in SUBSET Net /\ D \in SUBSET Net /\ n \in Net /\ Disjoint(D)
        /\ IsABag(Without(networks, n)) /\ W \in SUBSET Net
        /\ R \in SUBSET W /\ Repeated(Without(networks, n)) \in SUBSET T
        /\ Round(D, W, T, c, n, R)
    BY <1>1, RoundBefore
  <1>4. Waiting' = R /\ Twice' \in SUBSET T
    BY <1>2, <1>3 DEF Waiting, Twice
  <1>5. Live' = R \cup {n} /\ All' = D \cup R \cup {n}
    BY <1>1, <1>2, <1>4 DEF Live, All
  <1> HIDE DEF D, W, T, c, R
  <1>6. Sound(D, R, Twice', n)
    BY <1>1, <1>3, <1>4, ForgetCurrentSound
  <1>7. Keeps(routes, W \cup {c}, D \cup W \cup {c}, R \cup {n}, D \cup R \cup {n})
    BY <1>1, <1>3, ForgetCurrentKeeps
  <1>8. /\ ipsDone' \subseteq Net /\ Waiting' \subseteq Net /\ currentNet' \in Net \cup {NoNet}
        /\ currentNet' # NoNet /\ IsABag(networks') /\ Disjoint(ipsDone')
        /\ Sound(ipsDone', Waiting', Twice', currentNet')
    BY <1>1, <1>2, <1>3, <1>4, <1>6
  <1> QED
    BY <1>5, <1>7, <1>8, RoundStep DEF D, W, c

LEMMA ForgetNextStep ==
    ASSUME Inv, pc = "merge", currentNet # NoNet, UNCHANGED <<space, routes, positive, pc>>,
           NEW n \in Least(networks), ForgetNext(n)
    PROVE  Inv'
  <1> DEFINE D == ipsDone  W == Waiting  T == Twice  c == currentNet
             R == BagToSet(Without(networks, n))
  <1>1. /\ n # NoNet /\ Overlaps(n) /\ ~(First(c) = First(n) /\ c.mask >= n.mask)
        /\ c.included = n.included
    BY DEF ForgetNext, Overlaps, WithinNext
  <1>2. currentNet' = c /\ networks' = Without(networks, n) /\ ipsDone' = D
    BY DEF ForgetNext
  <1>3. /\ routes \in SUBSET Net /\ D \in SUBSET Net /\ c \in Net /\ Disjoint(D)
        /\ IsABag(Without(networks, n)) /\ W \in SUBSET Net
        /\ R \in SUBSET W /\ Repeated(Without(networks, n)) \in SUBSET T
        /\ Round(D, W, T, c, n, R)
    BY <1>1, RoundBefore
  <1>4. Waiting' = R /\ Twice' \in SUBSET T
    BY <1>2, <1>3 DEF Waiting, Twice
  <1>5. Live' = R \cup {c} /\ All' = D \cup R \cup {c}
    BY <1>2, <1>4 DEF Live, All
  <1>6. c # NoNet
    OBVIOUS
  <1> HIDE DEF D, W, T, c, R
  <1>7. Sound(D, R, Twice', c)
    BY <1>3, <1>4, ForgetNextSound
  <1>8. Keeps(routes, W \cup {c}, D \cup W \cup {c}, R \cup {c}, D \cup R \cup {c})
    BY <1>1, <1>3, ForgetNextKeeps
  <1>9. /\ ipsDone' \subseteq Net /\ Waiting' \subseteq Net /\ currentNet' \in Net \cup {NoNet}
        /\ currentNet' # NoNet /\ IsABag(networks') /\ Disjoint(ipsDone')
        /\ Sound(ipsDone', Waiting', Twice', currentNet')
    BY <1>2, <1>3, <1>4, <1>6, <1>7
  <1> QED
    BY <1>5, <1>8, <1>9, RoundStep DEF D, W, c

LEMMA SplitNextStep ==
    ASSUME Inv, pc = "merge", currentNet # NoNet, UNCHANGED <<space, routes, positive, pc>>,
           NEW n \in Least(networks), SplitNext(n)
    PROVE  Inv'
  <1> DEFINE D == ipsDone  W == Waiting  T == Twice  c == currentNet  q == Without(networks, n)
             R == BagToSet(q)  H == HalvesToAdd(c, n, R)
  <1>1. /\ n # NoNet /\ Overlaps(n) /\ First(c) = First(n) /\ c.mask >= n.mask
        /\ c.included # n.included
    BY DEF SplitNext, Overlaps, WithinNext
  <1>2. currentNet' = c /\ networks' = WithAll(q, H) /\ ipsDone' = D
    BY DEF SplitNext, HalvesToAdd, InQueue
  <1>3. /\ routes \in SUBSET Net /\ D \in SUBSET Net /\ c \in Net /\ n \in Net /\ Disjoint(D)
        /\ IsABag(q) /\ W \in SUBSET Net
        /\ R \in SUBSET W /\ Repeated(q) \in SUBSET T /\ Round(D, W, T, c, n, R)
    BY <1>1, RoundBefore
  <1>4. c # NoNet
    OBVIOUS
  <1>5. H \cap R = {}
    BY DEF HalvesToAdd, SameNet
  <1> HIDE DEF H
  <1>6. /\ IsABag(WithAll(q, H)) /\ BagToSet(WithAll(q, H)) = R \cup H
        /\ Repeated(WithAll(q, H)) \in SUBSET T
    BY <1>3, <1>5, BagWithAll
  <1>7. Waiting' = R \cup H /\ Twice' \in SUBSET T
    BY <1>2, <1>6 DEF Waiting, Twice
  <1>8. Live' = R \cup H \cup {c} /\ All' = D \cup R \cup H \cup {c}
    BY <1>2, <1>4, <1>7 DEF Live, All
  <1> HIDE DEF D, W, T, c, q, R
  <1>9. Sound(D, R \cup H, Twice', c) /\ H \subseteq {LowerHalf(n), UpperHalf(n)}
    BY <1>1, <1>3, <1>7, SplitNextSound DEF H
  <1>10. LowerHalf(n) \in Net /\ UpperHalf(n) \in Net
    BY <1>1, <1>3, InNext, HalvesFacts
  <1>11. Keeps(routes, W \cup {c}, D \cup W \cup {c}, R \cup H \cup {c}, D \cup R \cup H \cup {c})
    BY <1>1, <1>3, SplitNextKeeps DEF H
  <1>12. /\ ipsDone' \subseteq Net /\ Waiting' \subseteq Net /\ currentNet' \in Net \cup {NoNet}
         /\ currentNet' # NoNet /\ IsABag(networks') /\ Disjoint(ipsDone')
         /\ Sound(ipsDone', Waiting', Twice', currentNet')
    BY <1>2, <1>3, <1>4, <1>6, <1>7, <1>9, <1>10
  <1> QED
    BY <1>8, <1>11, <1>12, RoundStep DEF D, W, c

LEMMA SplitCurrentStep ==
    ASSUME Inv, pc = "merge", currentNet # NoNet, UNCHANGED <<space, routes, positive, pc>>,
           NEW n \in Least(networks), SplitCurrent(n)
    PROVE  Inv'
  <1> DEFINE D == ipsDone  W == Waiting  T == Twice  c == currentNet  lo == LowerHalf(c)
             A == UpperToAdd(c, n)  R == BagToSet(Without(networks, n))
  <1>1. /\ n # NoNet /\ Overlaps(n) /\ ~(First(c) = First(n) /\ c.mask >= n.mask)
        /\ c.included # n.included
    BY DEF SplitCurrent, Overlaps, WithinNext
  <1>2. /\ currentNet' = lo /\ ipsDone' = D
        /\ networks' = IF UpperHalf(c).mask = n.mask
                       THEN networks ELSE WithAll(networks, {UpperHalf(c)})
    BY DEF SplitCurrent
  <1>3. /\ routes \in SUBSET Net /\ D \in SUBSET Net /\ c \in Net /\ Disjoint(D)
        /\ IsABag(networks) /\ W \in SUBSET Net /\ Round(D, W, T, c, n, R)
    BY <1>1, RoundBefore
  <1>4. /\ IsABag(networks') /\ BagToSet(networks') = W \cup A
        /\ Repeated(networks') \in SUBSET (T \cup ({UpperHalf(c)} \cap W))
    <2>1. CASE UpperHalf(c).mask = n.mask
      BY <1>2, <1>3, <2>1 DEF UpperToAdd, Waiting, Twice
    <2>2. CASE UpperHalf(c).mask # n.mask
      <3>1. A = {UpperHalf(c)} /\ networks' = WithAll(networks, {UpperHalf(c)})
        BY <1>2, <2>2 DEF UpperToAdd
      <3> QED
        BY <1>3, <3>1, BagWithAll DEF Waiting, Twice
    <2> QED
      BY <2>1, <2>2
  <1>5. Waiting' = W \cup A /\ Twice' \in SUBSET (T \cup ({UpperHalf(c)} \cap W))
    BY <1>4 DEF Waiting, Twice
  <1>6. c.mask < Bits
    BY <1>1, <1>3, InCurrent
  <1>7. lo \in Net /\ UpperHalf(c) \in Net /\ A \subseteq Net
    BY <1>3, <1>6, HalvesFacts DEF UpperToAdd
  <1>8. lo # NoNet
    BY <1>7, NetsAreNets
  <1>9. Live' = W \cup A \cup {lo} /\ All' = D \cup W \cup A \cup {lo}
    BY <1>2, <1>5, <1>8 DEF Live, All
  <1>10. Sound(D, W \cup A, Twice', lo)
    <2> HIDE DEF D, W, T, c, R
    <2> QED
      BY <1>1, <1>3, <1>5, SplitCurrentSound
  <1>11. Keeps(routes, W \cup {c}, D \cup W \cup {c}, W \cup A \cup {lo}, D \cup W \cup A \cup {lo})
    <2> HIDE DEF D, W, T, c, R
    <2> QED
      BY <1>1, <1>3, SplitCurrentKeeps
  <1> HIDE DEF D, W, T, c, R, lo, A
  <1>12. /\ ipsDone' \subseteq Net /\ Waiting' \subseteq Net /\ currentNet' \in Net \cup {NoNet}
         /\ currentNet' # NoNet /\ IsABag(networks') /\ Disjoint(ipsDone')
         /\ Sound(ipsDone', Waiting', Twice', currentNet')
    BY <1>2, <1>3, <1>4, <1>5, <1>7, <1>8, <1>10
  <1> QED
    BY <1>9, <1>11, <1>12, RoundStep DEF D, W, c

\* Among networks there is a smallest one.
LEMMA SmallestExists ==
    ASSUME NEW S \in SUBSET Net, S # {}
    PROVE  \E m \in S : \A k \in S : k.mask <= m.mask
  <1> DEFINE Claim == \E m \in S : \A k \in S : k.mask <= m.mask
             T == {i \in Nat : (\E n \in S : Bits - i <= n.mask) => Claim}
  <1>1. Bits \in Nat /\ \A n \in S : n.mask \in Nat /\ n.mask <= Bits
    BY BlockFacts, ConstantsAssumption
  <1> HIDE DEF Claim
  <1>2. 0 \in T
    <2> SUFFICES ASSUME NEW n \in S, Bits - 0 <= n.mask PROVE Claim
      OBVIOUS
    <2>1. \A k \in S : k.mask <= n.mask
      BY <1>1
    <2> QED
      BY <2>1 DEF Claim
  <1>3. ASSUME NEW i \in T PROVE i + 1 \in T
    <2> SUFFICES ASSUME NEW n \in S, Bits - (i + 1) <= n.mask PROVE Claim
      OBVIOUS
    <2>1. CASE \E m \in S : Bits - i <= m.mask
      BY <2>1
    <2>2. CASE ~\E m \in S : Bits - i <= m.mask
      <3>1. \A k \in S : k.mask <= n.mask
        BY <1>1, <2>2
      <3> QED
        BY <3>1 DEF Claim
    <2> QED
      BY <2>1, <2>2
  <1>4. T = Nat
    <2>1. T \in SUBSET Nat
      OBVIOUS
    <2> HIDE DEF T
    <2> QED
      BY <1>2, <1>3, <2>1, AllNumbers
  <1>5. PICK n \in S : TRUE
    OBVIOUS
  <1>6. Bits - Bits <= n.mask /\ Bits \in T
    BY <1>1, <1>4
  <1> QED
    BY <1>6 DEF Claim

\* Something is said of every address with a network around it.
LEMMA SomethingIsSaid ==
    ASSUME NEW N \in SUBSET Net, NEW a
    PROVE  Verdict(N, a) # {} <=> \E n \in N : Within(a, n)
  <1> DEFINE S == {n \in N : Within(a, n)}
  <1>1. S # {} => \E m \in S : \A k \in S : k.mask <= m.mask
    BY SmallestExists
  <1> QED
    BY <1>1, VerdictSays

\* Networks that do not overlap say what the only one around an address says.
LEMMA DisjointSays ==
    ASSUME NEW D \in SUBSET Net, Disjoint(D), NEW a \in Addresses, NEW n \in D, Within(a, n)
    PROVE  Verdict(D, a) = {n.included}
  <1>1. \A k \in D : Within(a, k) => k = n
    <2> SUFFICES ASSUME NEW k \in D, Within(a, k), k # n PROVE FALSE
      OBVIOUS
    <2>1. Last(k) < First(n) \/ Last(n) < First(k)
      BY DEF Disjoint
    <2> QED
      BY <2>1, BlockFacts, AddressesAreNumbers DEF Within
  <1>2. n.mask <= n.mask
    BY BlockFacts
  <1>3. \A b : b \in Verdict(D, a) <=> b = n.included
    BY <1>1, <1>2, VerdictSays
  <1> QED
    BY <1>3

\* getPositiveIPList(), also with the routes old devices get back.
LEMMA GetPositiveStep ==
    ASSUME Inv, GetPositiveIPList
    PROVE  Inv'
  <1>1. /\ pc = "merge" /\ currentNet = NoNet /\ pc' = "done"
        /\ UNCHANGED <<space, routes, networks, currentNet, ipsDone>>
        /\ positive' = {n \in ipsDone : n.included} \cup
                       (IF space = "v4old" THEN AddedBack ELSE {})
    BY DEF GetPositiveIPList
  <1> DEFINE D == ipsDone
  <1>2. /\ routes \in SUBSET Net /\ D \in SUBSET Net /\ Disjoint(D) /\ Shape /\ Filled
        /\ Live = {} /\ All = D /\ Remain(routes, Live, All) /\ SpaceIsKept
    BY <1>1 DEF Inv, Shape, Merging, Live, All, DoneIsDisjoint, Disjoint
  <1>3. \A a \in Addresses : Verdict(D, a) = Verdict(routes, a)
    <2>1. ipsDone \cup BagToSet(networks) \cup ({currentNet} \ {NoNet}) = D
      BY <1>2 DEF All, Live, Waiting
    <2> QED
      BY <1>1, <1>2, <2>1 DEF SpaceIsKept
  <1>4. AddedBack \subseteq
            {r \in routes : r.included /\ \A n \in D : n.included \/ ~ContainsNet(r, n)}
    BY DEF AddedBack
  <1>5. Shape'
    <2>1. positive' \subseteq Net
      BY <1>1, <1>2, <1>4
    <2> QED
      BY <1>1, <1>2, <2>1 DEF Shape, Waiting
  \* A route that is added back lies in included networks only.
  <1>6. ASSUME NEW a \in Addresses, NEW r \in AddedBack, Within(a, r)
        PROVE  \E n \in D : n.included /\ Within(a, n)
    <2>1. r \in routes /\ r \in Net /\ r.included /\ \A n \in D : n.included \/ ~ContainsNet(r, n)
      BY <1>2, <1>4
    <2>2. Verdict(D, a) # {}
      BY <1>2, <1>3, <1>6, <2>1, SomethingIsSaid
    <2>3. PICK n \in D : Within(a, n)
      BY <1>2, <2>2, SomethingIsSaid
    <2>4. n \in Net /\ r.mask \in Nat /\ n.mask \in Nat /\ n.included \in BOOLEAN
      BY <1>2, <2>1, BlockFacts DEF Net
    <2>5. ~Inside(r, n) \/ r.included = n.included
      BY <1>2, <2>1 DEF Remain
    <2>6. CASE r.mask <= n.mask
      BY <1>6, <2>1, <2>3, <2>4, <2>6, WithinFacts
    <2>7. CASE n.mask < r.mask
      <3>1. n.mask <= r.mask
        BY <2>4, <2>7
      <3>2. ContainsNet(n, r)
        BY <1>6, <2>1, <2>3, <2>4, <3>1, WithinFacts
      <3>3. Inside(r, n)
        BY <2>4, <2>7, <3>2 DEF Inside
      <3> QED
        BY <2>1, <2>3, <2>4, <2>5, <3>3
    <2> QED
      BY <2>4, <2>6, <2>7
  <1>7. ASSUME NEW a \in Addresses
        PROVE  (\E n \in positive' : Within(a, n)) <=> Verdict(routes, a) = {TRUE}
    <2>1. (\E n \in positive' : Within(a, n)) <=> \E n \in D : n.included /\ Within(a, n)
      BY <1>1, <1>6
    <2>2. (\E n \in D : n.included /\ Within(a, n)) <=> Verdict(D, a) = {TRUE}
      <3>1. ASSUME NEW n \in D, n.included, Within(a, n) PROVE Verdict(D, a) = {TRUE}
        <4>1. n.included = TRUE
          BY <1>2, <3>1 DEF Net
        <4> QED
          BY <1>2, <3>1, <4>1, DisjointSays
      <3>2. ASSUME Verdict(D, a) = {TRUE} PROVE \E n \in D : n.included /\ Within(a, n)
        <4>1. TRUE \in Verdict(D, a)
          BY <3>2
        <4> QED
          BY <4>1, VerdictSays
      <3> QED
        BY <3>1, <3>2
    <2> QED
      BY <1>3, <2>1, <2>2
  <1>8. PositiveIsExact' /\ DoneIsDisjoint' /\ Filled'
    BY <1>1, <1>2, <1>7 DEF PositiveIsExact, DoneIsDisjoint, Filled, Inv
  <1> QED
    BY <1>1, <1>5, <1>8 DEF Inv

LEMMA ClearStep ==
    ASSUME Inv, Clear
    PROVE  Inv'
  <1>1. Shape' /\ Filled'
    BY DEF Clear, Inv, Shape, Filled, Waiting, StartIsShared, LowerHalfIsTaken
  <1> QED
    BY <1>1 DEF Clear, Inv, PositiveIsExact, DoneIsDisjoint

LEMMA InitInv ==
    ASSUME Init
    PROVE  Inv
  <1>1. IsABag(EmptyBag) /\ BagToSet(EmptyBag) = {}
    BY BagOfSet
  <1>2. Shape /\ Filled
    BY <1>1 DEF Init, Shape, Filled, Waiting, StartIsShared, LowerHalfIsTaken
  <1> QED
    BY <1>2 DEF Init, Inv, PositiveIsExact, DoneIsDisjoint

LEMMA StutterStep ==
    ASSUME Inv, UNCHANGED vars
    PROVE  Inv'
  BY DEF vars, work, Inv, Shape, Filled, Merging, Waiting, Twice, Live, All, SpaceIsKept,
         PositiveIsExact, DoneIsDisjoint

LEMMA NextStep ==
    ASSUME Inv, ~Awkward, [Next]_vars
    PROVE  Inv'
  <1>1. CASE \E net \in Addresses, mask \in 0..Bits :
               \/ \E include \in BOOLEAN :
                      AddRoute(net, mask, include) \/ AddRoutev6(net, mask, include)
               \/ AddLocalNetwork(net, mask)
    BY <1>1, AddRouteStep, AddLocalNetworkStep
  <1>2. CASE GenerateIPList
    BY <1>2, GenerateStep
  <1>3. CASE Merge
    <2>1. pc = "merge" /\ currentNet # NoNet /\ UNCHANGED <<space, routes, positive, pc>>
      BY <1>3 DEF Merge
    <2>2. PICK n \in Least(networks) : \/ Finish(n) \/ ForgetCurrent(n) \/ SplitNext(n)
                                       \/ ForgetNext(n) \/ SplitCurrent(n)
      BY <1>3 DEF Merge
    <2>3. CASE Finish(n)
      BY <2>1, <2>3, FinishStep
    <2>4. CASE ForgetCurrent(n)
      BY <2>1, <2>4, ForgetCurrentStep
    <2>5. CASE SplitNext(n)
      BY <2>1, <2>5, SplitNextStep
    <2>6. CASE ForgetNext(n)
      BY <2>1, <2>6, ForgetNextStep
    <2>7. CASE SplitCurrent(n)
      BY <2>1, <2>7, SplitCurrentStep
    <2> QED
      BY <2>2, <2>3, <2>4, <2>5, <2>6, <2>7
  <1>4. CASE GetPositiveIPList
    BY <1>4, GetPositiveStep
  <1>5. CASE Clear
    BY <1>5, ClearStep
  <1>6. CASE UNCHANGED vars
    BY <1>6, StutterStep
  <1> QED
    BY <1>1, <1>2, <1>3, <1>4, <1>5, <1>6 DEF Next
-----------------------------------------------------------------------------
(* Theorems                                                                 *)

\* The inductive invariant: whatever the callers fill a space with, awkward neighbours
\* apart, generateIPList() stays sound.
THEOREM Inductive ==
    ASSUME ~Awkward
    PROVE  Spec => []Inv
  <1>1. Init => Inv
    BY InitInv
  <1>2. Inv /\ [Next]_vars => Inv'
    BY NextStep
  <1> QED
    BY <1>1, <1>2, PTL DEF Spec

\* Every network a space, the queue and the results hold is a block of addresses, the
\* variables keep their types, and no network is in the space twice (no networks being
\* awkward neighbours, as in all the theorems here).
THEOREM TypeCorrect ==
    ASSUME ~Awkward
    PROVE  Spec => []TypeOK
  <1>1. Net \subseteq Network
    BY ConstantsAssumption DEF Net, Network
  <1>2. Inv => TypeOK
    BY <1>1 DEF Inv, Shape, Filled, Waiting, TypeOK
  <1> QED
    BY <1>2, Inductive, PTL

\* No round of the loop in generateIPList() forgets, covers up or lets through an address:
\* what is finished and what still waits always decide as the original space does, for
\* spaces without awkward neighbours.
THEOREM SpaceKept ==
    ASSUME ~Awkward
    PROVE  Spec => []SpaceIsKept
  <1>1. Inv => SpaceIsKept
    BY DEF Inv, Merging, SpaceIsKept
  <1> QED
    BY <1>1, Inductive, PTL

\* The routes getPositiveIPList() returns, those added back for old devices among them,
\* cover exactly the addresses whose smallest network is included, for spaces without
\* awkward neighbours.
THEOREM PositiveExact ==
    ASSUME ~Awkward
    PROVE  Spec => []PositiveIsExact
  <1>1. Inv => PositiveIsExact
    BY DEF Inv
  <1> QED
    BY <1>1, Inductive, PTL

\* What generateIPList() has finished of a space without awkward neighbours never overlaps.
THEOREM DoneDisjoint ==
    ASSUME ~Awkward
    PROVE  Spec => []DoneIsDisjoint
  <1>1. Inv => DoneIsDisjoint
    BY DEF Inv
  <1> QED
    BY <1>1, Inductive, PTL

\* The comments of generateIPList() about the halves are right in each of its branches.
LEMMA AssertionsFollow ==
    ASSUME Inv
    PROVE  AssertionsHold
  <1> SUFFICES ASSUME pc = "merge", currentNet # NoNet, NEW n \in Least(networks), Overlaps(n)
               PROVE  IF WithinNext(n)
                      THEN currentNet.included # n.included => SplitNextIsRight(n)
                      ELSE /\ currentNet.mask < n.mask
                           /\ First(n) > First(currentNet)
                           /\ Last(currentNet) >= Last(n)
                           /\ currentNet.included # n.included => SplitCurrentIsRight(n)
    BY DEF AssertionsHold
  <1> DEFINE D == ipsDone  W == Waiting  T == Twice  c == currentNet
             R == BagToSet(Without(networks, n))
  <1>1. c \in Net /\ n \in Net /\ Round(D, W, T, c, n, R)
    BY RoundBefore DEF Overlaps
  <1>2. WithinNext(n) <=> First(c) = First(n) /\ c.mask >= n.mask
    BY DEF WithinNext
  <1>3. /\ First(c) \in Nat /\ Last(c) \in Nat /\ First(n) \in Nat /\ Last(n) \in Nat
        /\ c.mask \in Nat /\ n.mask \in Nat
    BY <1>1, BlockFacts
  <1> HIDE DEF D, W, T, R
  <1>4. CASE WithinNext(n) /\ c.included # n.included
    <2>1. n.mask < Bits
      BY <1>1, <1>2, <1>4, InNext
    <2>2. /\ LowerHalf(n) \in Net /\ First(LowerHalf(n)) = First(n)
          /\ Last(UpperHalf(n)) = Last(n)
      BY <1>1, <2>1, HalvesFacts
    <2>3. Last(LowerHalf(n)) = Last(c) => ContainsNet(LowerHalf(n), c)
      BY <1>2, <1>3, <1>4, <2>2 DEF ContainsNet
    <2>4. Last(LowerHalf(n)) = Last(c) => LowerHalf(n).mask = c.mask
      BY <1>1, <1>2, <1>4, <2>2, <2>3, ContainedIsSmaller
    <2>5. SplitNextIsRight(n)
      BY <2>2, <2>4 DEF SplitNextIsRight
    <2> QED
      BY <1>4, <2>5
  <1>5. CASE ~WithinNext(n)
    <2>1. First(c) < First(n) /\ ContainsNet(c, n) /\ c.mask < n.mask /\ c.mask < Bits
      BY <1>1, <1>2, <1>5, InCurrent
    <2>2. Last(UpperHalf(c)) = Last(c)
      BY <1>1, <2>1, HalvesFacts
    <2>3. UpperHalf(c).mask = n.mask => First(UpperHalf(c)) = First(n)
      BY <1>1, <2>1, IsUpperHalf DEF SameNet
    <2>4. SplitCurrentIsRight(n)
      BY <2>2, <2>3 DEF SplitCurrentIsRight
    <2>5. First(n) > First(c) /\ Last(c) >= Last(n)
      BY <1>3, <2>1 DEF ContainsNet
    <2> QED
      BY <1>5, <2>1, <2>4, <2>5
  <1> QED
    BY <1>4, <1>5

\* No assertion of a debug build fails in generateIPList() and split() on a space without
\* awkward neighbours; such neighbours can make them fail (routes_awkward.cfg).
THEOREM AssertionsKept ==
    ASSUME ~Awkward
    PROVE  Spec => []AssertionsHold
  <1>1. Inv => AssertionsHold
    BY AssertionsFollow
  <1> QED
    BY <1>1, Inductive, PTL
=============================================================================
