--------------------------- MODULE CvsPoolProofs ---------------------------
(***************************************************************************)
(* For blocks and trunks of any size and any places malloc may choose: as  *)
(* long as no release has led a pool astray, the nodes tile each trunk,    *)
(* the free list goes through exactly the free nodes and back, no two free *)
(* neighbours lie in one block, and the counters and the numbers the       *)
(* program holds are right.                                                *)
(*                                                                         *)
(* The invariant names what the code only follows: the free list of a      *)
(* trunk as a sequence c.  It is said of the headers and tails of one      *)
(* trunk, so that each operation is a lemma about one trunk.               *)
(***************************************************************************)
EXTENDS CvsPool, FiniteSetTheorems, FunctionTheorems, SequenceTheorems, WellFoundedInduction, TLAPS

-----------------------------------------------------------------------------
(* The invariant of a trunk *)

Within(q) == {q[k] : k \in 1 .. Len(q)}
Distinct(q) == \A j, k \in 1 .. Len(q) : q[j] = q[k] => j = k

\* The k-th node of a list, the head in front of it and behind its end.
Linked(c, k) == IF k \in 1 .. Len(c) THEN c[k] ELSE free_head

FreeOf(H) == {p \in DOMAIN H \ {free_head} : ~H[p].busy}
BusyOf(H) == {p \in DOMAIN H : H[p].busy}
LenIn(H) == [p \in DOMAIN H |-> H[p].len]

HeadSet == [busy : BOOLEAN, len : Nat, prev : Nat, next : Nat]

HeadsTyped(H) ==
    /\ H = [p \in DOMAIN H |-> H[p]] /\ DOMAIN H \subseteq Nat /\ IsFiniteSet(DOMAIN H)
    /\ \A p \in DOMAIN H : H[p] \in HeadSet
TailsTyped(T) == T = [s \in DOMAIN T |-> T[s]] /\ \A s \in DOMAIN T : T[s] \in Int

\* The nodes tile what lies below end.
Tiled(H, end) ==
    /\ free_head \in DOMAIN H /\ ~H[free_head].busy
    /\ \A p \in DOMAIN H : /\ H[p].len >= MIN_NODE_SIZE
                           /\ p + H[p].len \in DOMAIN H \cup {end} /\ p + H[p].len <= end
    /\ \A p, q \in DOMAIN H : p < q => p + H[p].len <= q

\* c is the free list.
Ring(H, c) ==
    /\ c \in Seq(Nat) /\ Distinct(c) /\ free_head \notin Within(c)
    /\ \A k \in 0 .. Len(c) : /\ H[Linked(c, k)].next = Linked(c, k + 1)
                              /\ H[Linked(c, k + 1)].prev = Linked(c, k)

\* Free nodes lie in one block, say so with their tails, and have been joined.
Marked(H, T) ==
    \A p \in FreeOf(H) :
        /\ Block(p) = Block(p + H[p].len - 1)
        /\ p + H[p].len - 1 \in DOMAIN T /\ T[p + H[p].len - 1] = H[p].len
        /\ p + H[p].len \in FreeOf(H) => Block(p + H[p].len) # Block(p)

-----------------------------------------------------------------------------
(* Numbers and finite sets *)

LEMMA Sizes ==
    /\ BlockSlots \in Nat /\ BlockSlots >= 6 /\ TrunkBlocks \in Nat /\ TrunkBlocks >= 1
    /\ MAX_TRUNK_SIZE \in Nat /\ MAX_TRUNK_SIZE >= BlockSlots
    /\ MAX_TRUNK_SIZE = BlockSlots * TrunkBlocks
    /\ MIN_NODE_SIZE = 3 /\ free_head = 0
<1>1. BlockSlots \in Nat /\ BlockSlots >= 6 /\ TrunkBlocks \in Nat /\ TrunkBlocks >= 1
  BY CvsPoolAssumption
<1>2. \A b, k \in Nat : k >= 1 => b * k \in Nat /\ b * k >= b OBVIOUS
<1>3. BlockSlots * TrunkBlocks \in Nat /\ BlockSlots * TrunkBlocks >= BlockSlots BY <1>1, <1>2
<1>4. QED BY <1>1, <1>3 DEF MAX_TRUNK_SIZE, MIN_NODE_SIZE, free_head

LEMMA Quotient ==
    ASSUME NEW a \in Nat, NEW b \in Nat \ {0}
    PROVE  a = b * (a \div b) + (a % b) /\ a % b \in 0 .. b - 1 /\ a \div b \in Nat
  OBVIOUS

LEMMA QuotientIs ==
    ASSUME NEW b \in Nat \ {0}, NEW q \in Nat, NEW r \in 0 .. b - 1, NEW a \in Nat, a = b * q + r
    PROVE  a \div b = q /\ a % b = r
  OBVIOUS

\* Numbers of one block, and what the quotient orders.
LEMMA Blocks ==
    ASSUME NEW p \in Nat
    PROVE  /\ Block(p) \in Nat /\ Block(p) * BlockSlots <= p /\ p < (Block(p) + 1) * BlockSlots
           /\ p = Block(p) * BlockSlots + (p % BlockSlots)
           /\ \A q \in Nat : p <= q => Block(p) <= Block(q)
<1>1. PICK B : B = BlockSlots OBVIOUS
<1>2. B \in Nat \ {0} BY <1>1, Sizes
<1>3. Block(p) = p \div B /\ \A q \in Nat : Block(q) = q \div B BY <1>1 DEF Block
<1>4. p = B * (p \div B) + (p % B) /\ p % B \in 0 .. B - 1 /\ p \div B \in Nat BY <1>2, Quotient
<1>5. (p \div B) * B <= p /\ p < (p \div B + 1) * B /\ p = (p \div B) * B + (p % B)
  <2>1. PICK d, r : d = p \div B /\ r = p % B OBVIOUS
  <2>2. d \in Nat /\ r \in 0 .. B - 1 /\ p = B * d + r BY <1>4, <2>1
  <2>3. d * B <= p /\ p < (d + 1) * B /\ p = d * B + r BY <1>2, <2>2
  <2>4. QED BY <2>1, <2>3
<1>6. ASSUME NEW q \in Nat, p <= q PROVE p \div B <= q \div B BY <1>2, <1>6
<1>7. QED BY <1>1, <1>3, <1>4, <1>5, <1>6

LEMMA BlockIs ==
    ASSUME NEW p \in Nat, NEW k \in Nat, k * BlockSlots <= p, p < (k + 1) * BlockSlots
    PROVE  Block(p) = k
<1>1. PICK B : B = BlockSlots OBVIOUS
<1>2. B \in Nat \ {0} BY <1>1, Sizes
<1>3. PICK r : r = p - k * B OBVIOUS
<1>4. r \in 0 .. B - 1 /\ p = B * k + r BY <1>1, <1>2, <1>3
<1>5. p \div B = k BY <1>2, <1>4, QuotientIs
<1>6. QED BY <1>1, <1>5 DEF Block

\* What lies between two numbers of a block is of that block.
LEMMA BlockBetween ==
    ASSUME NEW p \in Nat, NEW q \in Nat, NEW r \in Nat, p <= q, q <= r, Block(p) = Block(r)
    PROVE  Block(q) = Block(p)
<1>1. Block(p) <= Block(q) /\ Block(q) <= Block(r) BY Blocks
<1>2. Block(p) \in Nat /\ Block(q) \in Nat BY Blocks
<1>3. QED BY <1>1, <1>2

\* Inside of a block moving an offset is adding.
LEMMA ShiftedIs ==
    ASSUME NEW p \in Nat, NEW d \in Nat, Block(p + d) = Block(p)
    PROVE  Shifted(p, d) = p + d
<1>1. p + d \in Nat OBVIOUS
<1>2. p + d = Block(p + d) * BlockSlots + ((p + d) % BlockSlots) BY <1>1, Blocks
<1>3. QED BY <1>2 DEF Shifted

\* Neither does a length lose bits that does not reach out of a block.
LEMMA Len16Is ==
    ASSUME NEW p \in Nat, NEW len \in Nat \ {0}, Block(p + len - 1) = Block(p)
    PROVE  Len16(len) = len
<1>1. PICK B : B = BlockSlots OBVIOUS
<1>2. B \in Nat \ {0} BY <1>1, Sizes
<1>3. PICK b : b = Block(p) * B OBVIOUS
<1>4. p + len - 1 \in Nat OBVIOUS
<1>5. b <= p /\ p + len - 1 < (Block(p) + 1) * B BY <1>1, <1>3, <1>4, Blocks
<1>6. Block(p) \in Nat BY Blocks
<1>7. (Block(p) + 1) * B = b + B /\ b \in Nat BY <1>2, <1>3, <1>6
<1>8. len - 1 \in 0 .. B - 1 BY <1>2, <1>5, <1>7
<1>9. (len - 1) % B = len - 1 BY <1>2, <1>8
<1>10. QED BY <1>1, <1>9 DEF Len16

LEMMA LeastOf ==
    ASSUME NEW T, T \subseteq Nat, T # {}
    PROVE  Min(T) \in T /\ \A m \in T : Min(T) <= m
<1> DEFINE R == OpToRel(<, Nat)
<1>1. IsWellFoundedOn(R, Nat) BY NatLessThanWellFounded
<1>2. \A x, y \in Nat : <<x, y>> \in R <=> x < y BY DEF OpToRel
<1> HIDE DEF R
<1>3. PICK n \in T : \A m \in T : ~(<<m, n>> \in R) BY <1>1, WFMin
<1>4. \A m \in T : ~(m < n) BY <1>2, <1>3
<1>5. \A m \in T : n <= m BY <1>4
<1>6. QED BY <1>5 DEF Min

LEMMA MinIs ==
    ASSUME NEW T, T \subseteq Nat, NEW n \in T, \A m \in T : n <= m
    PROVE  Min(T) = n
<1>1. PICK k : k = Min(T) OBVIOUS
<1>2. k \in T /\ \A m \in T : k <= m BY <1>1, LeastOf
<1>3. k <= n /\ n <= k /\ k \in Nat /\ n \in Nat BY <1>2
<1>4. QED BY <1>1, <1>3

LEMMA MaxIs ==
    ASSUME NEW T, T \subseteq Nat, NEW n \in T, \A m \in T : m <= n
    PROVE  Max(T) = n
<1>1. \E k \in T : \A m \in T : k >= m
  <2>1. \A m \in T : n >= m OBVIOUS
  <2>2. QED BY <2>1
<1>2. PICK k : k = Max(T) OBVIOUS
<1>3. k \in T /\ \A m \in T : k >= m BY <1>1, <1>2 DEF Max
<1>4. k >= n /\ k <= n /\ k \in Nat /\ n \in Nat BY <1>3
<1>5. QED BY <1>2, <1>4

\* A finite set of numbers has a largest one.
LEMMA LargestOf ==
    ASSUME NEW T, T \subseteq Nat, T # {}, NEW b \in Nat, \A m \in T : m <= b
    PROVE  \E n \in T : \A m \in T : m <= n
<1> DEFINE D == {b - m : m \in T}
<1>1. D \subseteq Nat /\ D # {}
  <2>1. \A m \in T : b - m \in Nat
    <3>1. \A m \in T : m \in Nat /\ m <= b OBVIOUS
    <3>2. QED BY <3>1
  <2>2. QED BY <2>1
<1>2. PICK d : d \in D /\ \A e \in D : d <= e
  <2> HIDE DEF D
  <2>1. QED BY <1>1, LeastOf
<1>3. PICK n \in T : d = b - n BY <1>2
<1>4. ASSUME NEW m \in T PROVE m <= n
  <2>1. d <= b - m BY <1>2
  <2>2. QED BY <1>3, <2>1
<1>5. QED BY <1>4

-----------------------------------------------------------------------------
(* Circular lists *)

LEMMA RingIs ==
    ASSUME NEW H, NEW c, Ring(H, c)
    PROVE  /\ Len(c) \in Nat /\ \A k \in 1 .. Len(c) : c[k] \in Nat \ {0} /\ c[k] \in Within(c)
           /\ \A k \in 1 .. Len(c) : Linked(c, k) = c[k]
           /\ \A k : k \notin 1 .. Len(c) => Linked(c, k) = 0
           /\ \A j, k \in 0 .. Len(c) : Linked(c, j) = Linked(c, k) => j = k
           /\ \A k \in 0 .. Len(c) + 1 : Linked(c, k) \in Within(c) \cup {0}
           /\ \A x \in Within(c) : x \in Nat \ {0} /\ \E k \in 1 .. Len(c) : c[k] = x
           /\ \A k \in 1 .. Len(c) : /\ H[c[k]].next = Linked(c, k + 1)
                                     /\ H[c[k]].prev = Linked(c, k - 1)
           /\ H[0].next = Linked(c, 1) /\ H[0].prev = Linked(c, Len(c))
<1>1. /\ c \in Seq(Nat) /\ Distinct(c) /\ 0 \notin Within(c)
      /\ \A k \in 0 .. Len(c) : /\ H[Linked(c, k)].next = Linked(c, k + 1)
                                /\ H[Linked(c, k + 1)].prev = Linked(c, k)
  BY DEF Ring, free_head
<1>2. Len(c) \in Nat /\ \A k \in 1 .. Len(c) : c[k] \in Nat BY <1>1, ElementOfSeq, LenProperties
<1>3. \A k \in 1 .. Len(c) : c[k] \in Within(c) BY DEF Within
<1>4. \A k \in 1 .. Len(c) : c[k] # 0 BY <1>1, <1>3
<1>5. /\ \A k \in 1 .. Len(c) : Linked(c, k) = c[k]
      /\ \A k : k \notin 1 .. Len(c) => Linked(c, k) = 0
  BY DEF Linked, free_head
<1>6. ASSUME NEW j \in 0 .. Len(c), NEW k \in 0 .. Len(c), Linked(c, j) = Linked(c, k) PROVE j = k
  <2>1. j # 0 => j \in 1 .. Len(c) BY <1>2
  <2>2. k # 0 => k \in 1 .. Len(c) BY <1>2
  <2>3. 0 \notin 1 .. Len(c) OBVIOUS
  <2>4. CASE j # 0 /\ k # 0 BY <1>1, <1>5, <1>6, <2>1, <2>2, <2>4 DEF Distinct
  <2>5. CASE j = 0 BY <1>4, <1>5, <1>6, <2>2, <2>3, <2>5
  <2>6. CASE k = 0 BY <1>4, <1>5, <1>6, <2>1, <2>3, <2>6
  <2>7. QED BY <2>4, <2>5, <2>6
<1>7. \A x \in Within(c) : \E k \in 1 .. Len(c) : c[k] = x BY DEF Within
<1>8. ASSUME NEW k \in 1 .. Len(c)
      PROVE  H[c[k]].next = Linked(c, k + 1) /\ H[c[k]].prev = Linked(c, k - 1)
  <2>1. k \in 0 .. Len(c) /\ k - 1 \in 0 .. Len(c) /\ k - 1 + 1 = k BY <1>2
  <2>2. QED BY <1>1, <1>5, <2>1
<1>9. H[0].next = Linked(c, 1) /\ H[0].prev = Linked(c, Len(c))
  <2>1. 0 \in 0 .. Len(c) /\ Len(c) \in 0 .. Len(c) /\ 0 + 1 = 1 BY <1>2
  <2>2. 0 \notin 1 .. Len(c) /\ Len(c) + 1 \notin 1 .. Len(c) BY <1>2
  <2>3. QED BY <1>1, <1>5, <2>1, <2>2
<1>10. \A k \in 1 .. Len(c) : c[k] \in Nat \ {0} /\ c[k] \in Within(c) BY <1>2, <1>3, <1>4
<1>11. \A k \in 0 .. Len(c) + 1 : Linked(c, k) \in Within(c) \cup {0} BY <1>3, <1>5
<1>12. \A x \in Within(c) : x \in Nat \ {0} /\ \E k \in 1 .. Len(c) : c[k] = x BY <1>7, <1>10
<1>13. Len(c) \in Nat BY <1>2
<1>14. QED BY <1>5, <1>6, <1>8, <1>9, <1>10, <1>11, <1>12, <1>13

\* A list from its elements.
NumberList(d, n) ==
    /\ n \in Nat /\ d = [k \in 1 .. n |-> d[k]] /\ \A k \in 1 .. n : d[k] \in Nat \ {0}
    /\ \A j, k \in 1 .. n : d[j] = d[k] => j = k

LEMMA ListIs ==
    ASSUME NEW n, NEW d, NumberList(d, n)
    PROVE  /\ d \in Seq(Nat) /\ Len(d) = n /\ Distinct(d) /\ free_head \notin Within(d)
           /\ \A k : Linked(d, k) = IF k \in 1 .. n THEN d[k] ELSE 0
<1>01. /\ n \in Nat /\ d = [k \in 1 .. n |-> d[k]] /\ \A k \in 1 .. n : d[k] \in Nat \ {0}
       /\ \A j, k \in 1 .. n : d[j] = d[k] => j = k
  BY DEF NumberList
<1>1. d \in [1 .. n -> Nat] BY <1>01
<1>2. d \in Seq(Nat) /\ Len(d) = n BY <1>01, <1>1
<1>3. QED BY <1>01, <1>2 DEF Distinct, Within, Linked, free_head

LEMMA RingSame ==
    ASSUME NEW H, NEW c, Ring(H, c), NEW K,
           \A q \in Within(c) \cup {0} : K[q].next = H[q].next /\ K[q].prev = H[q].prev
    PROVE  Ring(K, c)
<1>1. \A k \in 0 .. Len(c) + 1 : Linked(c, k) \in Within(c) \cup {0} BY RingIs
<1>2. Len(c) \in Nat BY RingIs
<1>3. \A k \in 0 .. Len(c) : Linked(c, k) \in Within(c) \cup {0} /\ Linked(c, k + 1) \in Within(c) \cup {0}
  BY <1>1, <1>2
<1>4. QED BY <1>3 DEF Ring

\* p leaves the list.
LEMMA RingLess ==
    ASSUME NEW H, NEW c, Ring(H, c), NEW p \in Within(c), NEW K,
           \A q \in (Within(c) \cup {0}) \ {p} :
              /\ K[q].next = IF q = H[p].prev THEN H[p].next ELSE H[q].next
              /\ K[q].prev = IF q = H[p].next THEN H[p].prev ELSE H[q].prev
    PROVE  \E d : Ring(K, d) /\ Within(d) = Within(c) \ {p}
<1>1. PICK n : n = Len(c) OBVIOUS
<1>2. n \in Nat /\ \A k \in 1 .. n : c[k] \in Nat \ {0} /\ c[k] \in Within(c) BY <1>1, RingIs
<1>3. /\ \A k \in 1 .. n : Linked(c, k) = c[k]
      /\ \A k : k \notin 1 .. n => Linked(c, k) = 0
      /\ \A j, k \in 0 .. n : Linked(c, j) = Linked(c, k) => j = k
      /\ \A k \in 0 .. n + 1 : Linked(c, k) \in Within(c) \cup {0}
  BY <1>1, RingIs
<1>4. \A k \in 0 .. n : H[Linked(c, k)].next = Linked(c, k + 1) /\ H[Linked(c, k + 1)].prev = Linked(c, k)
  BY <1>1 DEF Ring
<1>5. PICK i \in 1 .. n : c[i] = p BY <1>1, RingIs
<1>6. H[p].next = Linked(c, i + 1) /\ H[p].prev = Linked(c, i - 1)
  <2>1. \A k \in 1 .. Len(c) : H[c[k]].next = Linked(c, k + 1) /\ H[c[k]].prev = Linked(c, k - 1)
    BY RingIs
  <2>2. QED BY <1>1, <1>5, <2>1
<1> DEFINE d == [k \in 1 .. n - 1 |-> IF k < i THEN c[k] ELSE c[k + 1]]
<1>7. n \in Nat /\ n - 1 \in Nat /\ i \in Nat /\ i >= 1 /\ i <= n BY <1>2, <1>5
<1>8. \A k \in 1 .. n - 1 : /\ d[k] = Linked(c, IF k < i THEN k ELSE k + 1)
                            /\ (IF k < i THEN k ELSE k + 1) \in 1 .. n
  BY <1>2, <1>3, <1>7
<1>08. \A k \in 0 .. n : (IF k < i THEN k ELSE k + 1) \in 0 .. n + 1 BY <1>2, <1>7
<1>9. \A k \in 1 .. n - 1 : d[k] \in Nat \ {0} BY <1>2, <1>3, <1>8
<1>10. \A j, k \in 1 .. n - 1 : d[j] = d[k] => j = k
  <2>1. ASSUME NEW j \in 1 .. n - 1, NEW k \in 1 .. n - 1, d[j] = d[k] PROVE j = k
    <3>1. (IF j < i THEN j ELSE j + 1) = (IF k < i THEN k ELSE k + 1)
      <4>1. PICK a, b : a = (IF j < i THEN j ELSE j + 1) /\ b = (IF k < i THEN k ELSE k + 1) OBVIOUS
      <4>2. a \in 1 .. n /\ b \in 1 .. n /\ Linked(c, a) = Linked(c, b) BY <1>8, <2>1, <4>1
      <4>3. a \in 0 .. n /\ b \in 0 .. n BY <4>2
      <4>4. a = b BY <1>3, <4>2, <4>3
      <4>5. QED BY <4>1, <4>4
    <3>2. QED BY <1>7, <3>1
  <2>2. QED BY <2>1
<1>11. /\ d \in Seq(Nat) /\ Len(d) = n - 1 /\ Distinct(d) /\ free_head \notin Within(d)
       /\ \A k : Linked(d, k) = IF k \in 1 .. n - 1 THEN d[k] ELSE 0
  <2>1. d = [k \in 1 .. n - 1 |-> d[k]] OBVIOUS
  <2> HIDE DEF d
  <2>2. PICK m : m = n - 1 OBVIOUS
  <2>3. NumberList(d, m) BY <1>7, <1>9, <1>10, <2>1, <2>2 DEF NumberList
  <2>4. /\ d \in Seq(Nat) /\ Len(d) = m /\ Distinct(d) /\ free_head \notin Within(d)
        /\ \A k : Linked(d, k) = IF k \in 1 .. m THEN d[k] ELSE 0
    BY <2>3, ListIs
  <2>5. QED BY <2>2, <2>4
<1> HIDE DEF d
<1>12. ASSUME NEW k \in 0 .. n PROVE Linked(d, k) = Linked(c, IF k < i THEN k ELSE k + 1)
  <2>1. CASE k \in 1 .. n - 1 BY <1>8, <1>11, <2>1
  <2>2. CASE k = 0 BY <1>3, <1>7, <1>11, <2>2
  <2>3. CASE k = n
    <3>1. k \notin 1 .. n - 1 /\ ~(k < i) /\ k + 1 \notin 1 .. n BY <1>2, <1>7, <2>3
    <3>2. QED BY <1>3, <1>11, <3>1
  <2>4. QED BY <1>2, <2>1, <2>2, <2>3
\* p is the i-th only, and its neighbours are the ones before and behind.
<1>13. \A k \in 0 .. n : k # i => Linked(c, k) # p BY <1>3, <1>5, <1>7
<1>14. ASSUME NEW k \in 0 .. n - 1
       PROVE  K[Linked(d, k)].next = Linked(d, k + 1) /\ K[Linked(d, k + 1)].prev = Linked(d, k)
  <2>1. k \in 0 .. n /\ k + 1 \in 0 .. n BY <1>2
  <2>2. PICK x, y : x = Linked(d, k) /\ y = Linked(d, k + 1) OBVIOUS
  <2>3. CASE k + 1 < i
    <3>1. x = Linked(c, k) /\ y = Linked(c, k + 1) BY <1>7, <1>12, <2>1, <2>2, <2>3
    <3>2. x # p /\ y # p BY <1>7, <1>13, <2>1, <2>3, <3>1
    <3>3. x # Linked(c, i - 1)
      <4>1. i - 1 \in 0 .. n /\ k # i - 1 BY <1>7, <2>3
      <4>2. QED BY <1>3, <2>1, <3>1, <4>1
    <3>4. y # Linked(c, i + 1)
      <4>1. CASE i = n
        <5>1. Linked(c, i + 1) = Linked(c, 0) BY <1>3, <1>7, <4>1
        <5>2. k + 1 # 0 /\ 0 \in 0 .. n BY <1>2
        <5>3. QED BY <1>3, <2>1, <3>1, <5>1, <5>2
      <4>2. CASE i # n
        <5>1. i + 1 \in 0 .. n /\ i + 1 # k + 1 BY <1>7, <2>3, <4>2
        <5>2. QED BY <1>3, <2>1, <3>1, <5>1
      <4>3. QED BY <4>1, <4>2
    <3>5. x \in Within(c) \cup {0} /\ y \in Within(c) \cup {0} BY <1>3, <1>7, <2>1, <3>1
    <3>6. H[x].next = y /\ H[y].prev = x BY <1>4, <2>1, <3>1
    <3>7. QED BY <1>6, <2>2, <3>2, <3>3, <3>4, <3>5, <3>6
  <2>4. CASE k + 1 = i
    <3>1. x = Linked(c, i - 1) /\ y = Linked(c, i + 1) BY <1>7, <1>12, <2>1, <2>2, <2>4
    <3>2. x # p BY <1>7, <1>13, <2>1, <2>4, <3>1
    <3>3. y # p
      <4>1. CASE i = n
        <5>1. Linked(c, i + 1) = Linked(c, 0) BY <1>3, <1>7, <4>1
        <5>2. QED BY <1>7, <1>13, <3>1, <5>1
      <4>2. CASE i # n
        <5>1. i + 1 \in 0 .. n /\ i + 1 # i BY <1>7, <4>2
        <5>2. QED BY <1>13, <3>1, <5>1
      <4>3. QED BY <4>1, <4>2
    <3>4. i - 1 \in 0 .. n + 1 /\ i + 1 \in 0 .. n + 1 BY <1>7
    <3>5. x \in Within(c) \cup {0} /\ y \in Within(c) \cup {0} BY <1>3, <3>1, <3>4
    <3>6. QED BY <1>6, <2>2, <3>1, <3>2, <3>3, <3>5
  <2>5. CASE k + 1 > i
    <3>1. x = Linked(c, k + 1) /\ y = Linked(c, k + 2)
      <4>1. ~(k < i) /\ ~(k + 1 < i) /\ k + 1 + 1 = k + 2 BY <1>7, <2>5
      <4>2. QED BY <1>12, <2>1, <2>2, <4>1
    <3>2. x # p BY <1>7, <1>13, <2>1, <2>5, <3>1
    <3>3. x # Linked(c, i - 1)
      <4>1. i - 1 \in 0 .. n /\ k + 1 # i - 1 BY <1>7, <2>5
      <4>2. QED BY <1>3, <2>1, <3>1, <4>1
    <3>4. y # p /\ y # Linked(c, i + 1)
      <4>01. i + 1 \in 0 .. n BY <1>2, <1>7, <2>5
      <4>1. CASE k + 2 = n + 1
        <5>1. y = Linked(c, 0) BY <1>3, <1>7, <3>1, <4>1
        <5>2. 0 \in 0 .. n /\ 0 # i /\ 0 # i + 1 BY <1>7
        <5>3. QED BY <1>3, <1>13, <4>01, <5>1, <5>2
      <4>2. CASE k + 2 # n + 1
        <5>1. k + 2 \in 0 .. n /\ k + 2 # i /\ k + 2 # i + 1 BY <1>7, <2>5, <4>2
        <5>2. QED BY <1>3, <1>13, <3>1, <4>01, <5>1
      <4>3. QED BY <4>1, <4>2
    <3>5. x \in Within(c) \cup {0} /\ y \in Within(c) \cup {0}
      <4>1. k + 1 \in 0 .. n + 1 /\ k + 2 \in 0 .. n + 1 BY <1>7
      <4>2. QED BY <1>3, <3>1, <4>1
    <3>6. H[x].next = y /\ H[y].prev = x
      <4>1. k + 1 + 1 = k + 2 OBVIOUS
      <4>2. QED BY <1>4, <2>1, <3>1, <4>1
    <3>7. QED BY <1>6, <2>2, <3>2, <3>3, <3>4, <3>5, <3>6
  <2>6. QED BY <1>7, <2>3, <2>4, <2>5
<1>15. Ring(K, d) BY <1>11, <1>14 DEF Ring
<1>16. Within(d) = Within(c) \ {p}
  <2>1. ASSUME NEW x \in Within(d) PROVE x \in Within(c) \ {p}
    <3>1. PICK k \in 1 .. n - 1 : x = d[k] BY <1>11 DEF Within
    <3>2. PICK j \in 1 .. n : x = Linked(c, j) /\ j # i BY <1>7, <1>8, <3>1
    <3>3. x = c[j] /\ x # p BY <1>3, <1>13, <3>2
    <3>4. QED BY <1>2, <3>3
  <2>2. ASSUME NEW x \in Within(c), x # p PROVE x \in Within(d)
    <3>1. PICK j \in 1 .. n : x = c[j] BY <1>1 DEF Within
    <3>2. j # i BY <1>5, <2>2, <3>1
    <3>3. PICK k : k = IF j < i THEN j ELSE j - 1 OBVIOUS
    <3>4. k \in 1 .. n - 1 /\ (IF k < i THEN k ELSE k + 1) = j BY <1>7, <3>2, <3>3
    <3>5. d[k] = x BY <1>3, <1>8, <3>1, <3>4
    <3>6. QED BY <1>11, <3>4, <3>5 DEF Within
  <2>3. QED BY <2>1, <2>2
<1>17. QED BY <1>15, <1>16

\* x takes the place of p.
LEMMA RingReplaced ==
    ASSUME NEW H, NEW c, Ring(H, c), NEW p \in Within(c), NEW x \in Nat \ {0}, x \notin Within(c),
           NEW K, K[x].next = H[p].next, K[x].prev = H[p].prev,
           \A q \in (Within(c) \cup {0}) \ {p} :
              /\ K[q].next = IF q = H[p].prev THEN x ELSE H[q].next
              /\ K[q].prev = IF q = H[p].next THEN x ELSE H[q].prev
    PROVE  \E d : Ring(K, d) /\ Within(d) = (Within(c) \ {p}) \cup {x}
<1>1. PICK n : n = Len(c) OBVIOUS
<1>2. n \in Nat /\ \A k \in 1 .. n : c[k] \in Nat \ {0} /\ c[k] \in Within(c) BY <1>1, RingIs
<1>3. /\ \A k \in 1 .. n : Linked(c, k) = c[k]
      /\ \A k : k \notin 1 .. n => Linked(c, k) = 0
      /\ \A j, k \in 0 .. n : Linked(c, j) = Linked(c, k) => j = k
      /\ \A k \in 0 .. n + 1 : Linked(c, k) \in Within(c) \cup {0}
  BY <1>1, RingIs
<1>4. \A k \in 0 .. n : H[Linked(c, k)].next = Linked(c, k + 1) /\ H[Linked(c, k + 1)].prev = Linked(c, k)
  BY <1>1 DEF Ring
<1>5. PICK i \in 1 .. n : c[i] = p BY <1>1, RingIs
<1>6. H[p].next = Linked(c, i + 1) /\ H[p].prev = Linked(c, i - 1)
  <2>1. \A k \in 1 .. Len(c) : H[c[k]].next = Linked(c, k + 1) /\ H[c[k]].prev = Linked(c, k - 1)
    BY RingIs
  <2>2. QED BY <1>1, <1>5, <2>1
<1> DEFINE d == [k \in 1 .. n |-> IF k = i THEN x ELSE c[k]]
<1>7. n \in Nat /\ i \in Nat /\ i >= 1 /\ i <= n BY <1>2, <1>5
<1>8. \A k \in 1 .. n : d[k] = IF k = i THEN x ELSE c[k] OBVIOUS
<1>9. \A k \in 1 .. n : d[k] \in Nat \ {0} BY <1>2, <1>8
<1>10. ASSUME NEW j \in 1 .. n, NEW k \in 1 .. n, d[j] = d[k] PROVE j = k
  <2>1. j \in 0 .. n /\ k \in 0 .. n OBVIOUS
  <2>2. CASE j # i /\ k # i BY <1>3, <1>8, <1>10, <2>1, <2>2
  <2>3. CASE j = i /\ k # i BY <1>2, <1>8, <1>10, <2>3
  <2>4. CASE j # i /\ k = i BY <1>2, <1>8, <1>10, <2>4
  <2>5. QED BY <2>2, <2>3, <2>4
<1>11. /\ d \in Seq(Nat) /\ Len(d) = n /\ Distinct(d) /\ free_head \notin Within(d)
       /\ \A k : Linked(d, k) = IF k \in 1 .. n THEN d[k] ELSE 0
  <2>1. d = [k \in 1 .. n |-> d[k]] OBVIOUS
  <2> HIDE DEF d
  <2>2. \A j, k \in 1 .. n : d[j] = d[k] => j = k BY <1>10
  <2>3. NumberList(d, n) BY <1>2, <1>9, <2>1, <2>2 DEF NumberList
  <2>4. QED BY <2>3, ListIs
<1> HIDE DEF d
<1>12. \A k \in 0 .. n + 1 : Linked(d, k) = IF k = i THEN x ELSE Linked(c, k)
  BY <1>3, <1>5, <1>8, <1>11
<1>13. \A k \in 0 .. n + 1 : k # i => Linked(c, k) # p
  <2>1. p # 0 /\ \A k \in 0 .. n : k # i => Linked(c, k) # p BY <1>2, <1>3, <1>5, <1>7
  <2>2. Linked(c, n + 1) = 0
    <3>1. n + 1 \notin 1 .. n BY <1>2
    <3>2. QED BY <1>3, <3>1
  <2>3. QED BY <1>7, <2>1, <2>2
<1>14. ASSUME NEW k \in 0 .. n
       PROVE  K[Linked(d, k)].next = Linked(d, k + 1) /\ K[Linked(d, k + 1)].prev = Linked(d, k)
  <2>1. k \in 0 .. n + 1 /\ k + 1 \in 0 .. n + 1 BY <1>2
  <2>2. PICK y, z : y = Linked(c, k) /\ z = Linked(c, k + 1) OBVIOUS
  <2>3. H[y].next = z /\ H[z].prev = y BY <1>4, <2>2
  <2>4. y \in Within(c) \cup {0} /\ z \in Within(c) \cup {0} BY <1>3, <2>1, <2>2
  <2>5. CASE k = i
    <3>1. Linked(d, k) = x /\ Linked(d, k + 1) = z /\ z # p BY <1>7, <1>12, <1>13, <2>1, <2>2, <2>5
    <3>2. z = H[p].next BY <1>6, <2>2, <2>5
    <3>3. QED BY <2>4, <3>1, <3>2
  <2>6. CASE k + 1 = i
    <3>1. Linked(d, k) = y /\ Linked(d, k + 1) = x /\ y # p BY <1>7, <1>12, <1>13, <2>1, <2>2, <2>6
    <3>2. k = i - 1 BY <1>7, <2>6
    <3>3. y = H[p].prev BY <1>6, <2>2, <3>2
    <3>4. QED BY <2>4, <3>1, <3>3
  <2>7. CASE k # i /\ k + 1 # i
    <3>1. Linked(d, k) = y /\ Linked(d, k + 1) = z /\ y # p /\ z # p BY <1>12, <1>13, <2>1, <2>2, <2>7
    <3>2. y # H[p].prev
      <4>1. i - 1 \in 0 .. n /\ k # i - 1 BY <1>7, <2>7
      <4>2. QED BY <1>3, <1>6, <2>2, <4>1
    <3>3. z # H[p].next
      <4>1. CASE k = n
        <5>1. z = Linked(c, 0)
          <6>1. k + 1 \notin 1 .. n /\ 0 \notin 1 .. n BY <1>2, <4>1
          <6>2. QED BY <1>3, <2>2, <6>1
        <5>2. i + 1 \in 0 .. n /\ i + 1 # 0 /\ 0 \in 0 .. n BY <1>7, <2>7, <4>1
        <5>3. QED BY <1>3, <1>6, <5>1, <5>2
      <4>2. CASE k # n
        <5>1. k + 1 \in 0 .. n /\ k + 1 # 0 BY <1>2, <4>2
        <5>2. CASE i = n
          <6>1. Linked(c, i + 1) = Linked(c, 0) /\ 0 \in 0 .. n
            <7>1. i + 1 \notin 1 .. n /\ 0 \notin 1 .. n /\ 0 \in 0 .. n BY <1>2, <5>2
            <7>2. QED BY <1>3, <7>1
          <6>2. QED BY <1>3, <1>6, <2>2, <5>1, <6>1
        <5>3. CASE i # n
          <6>1. i + 1 \in 0 .. n /\ k + 1 # i + 1 BY <1>7, <2>7, <5>3
          <6>2. QED BY <1>3, <1>6, <2>2, <5>1, <6>1
        <5>4. QED BY <5>2, <5>3
      <4>3. QED BY <4>1, <4>2
    <3>4. K[y].next = z /\ K[z].prev = y BY <2>3, <2>4, <3>1, <3>2, <3>3
    <3>5. QED BY <3>1, <3>4
  <2>8. QED BY <2>5, <2>6, <2>7
<1>15. Ring(K, d) BY <1>11, <1>14 DEF Ring
<1>16. Within(d) = (Within(c) \ {p}) \cup {x}
  <2>1. ASSUME NEW y \in Within(d) PROVE y \in (Within(c) \ {p}) \cup {x}
    <3>1. PICK k \in 1 .. n : y = d[k] BY <1>11 DEF Within
    <3>2. CASE k = i BY <1>8, <3>1, <3>2
    <3>3. CASE k # i
      <4>1. y = c[k] /\ k \in 0 .. n + 1 BY <1>2, <1>8, <3>1, <3>3
      <4>2. y \in Within(c) /\ y # p BY <1>2, <1>3, <1>13, <3>3, <4>1
      <4>3. QED BY <4>2
    <3>4. QED BY <3>2, <3>3
  <2>2. ASSUME NEW y \in Within(c), y # p PROVE y \in Within(d)
    <3>1. PICK k \in 1 .. n : y = c[k] BY <1>1 DEF Within
    <3>2. d[k] = y BY <1>5, <1>8, <2>2, <3>1
    <3>3. QED BY <1>11, <3>2 DEF Within
  <2>3. x \in Within(d)
    <3>1. d[i] = x BY <1>5, <1>8
    <3>2. QED BY <1>5, <1>11, <3>1 DEF Within
  <2>4. QED BY <2>1, <2>2, <2>3
<1>17. QED BY <1>15, <1>16

\* x comes behind the last one.
LEMMA RingMore ==
    ASSUME NEW H, NEW c, Ring(H, c), NEW x \in Nat \ {0}, x \notin Within(c),
           NEW K, K[x].next = 0, K[x].prev = H[0].prev,
           \A q \in Within(c) \cup {0} :
              /\ K[q].next = IF q = H[0].prev THEN x ELSE H[q].next
              /\ K[q].prev = IF q = 0 THEN x ELSE H[q].prev
    PROVE  \E d : Ring(K, d) /\ Within(d) = Within(c) \cup {x}
<1>1. PICK n : n = Len(c) OBVIOUS
<1>2. n \in Nat /\ \A k \in 1 .. n : c[k] \in Nat \ {0} /\ c[k] \in Within(c) BY <1>1, RingIs
<1>3. /\ \A k \in 1 .. n : Linked(c, k) = c[k]
      /\ \A k : k \notin 1 .. n => Linked(c, k) = 0
      /\ \A j, k \in 0 .. n : Linked(c, j) = Linked(c, k) => j = k
      /\ \A k \in 0 .. n + 1 : Linked(c, k) \in Within(c) \cup {0}
  BY <1>1, RingIs
<1>4. \A k \in 0 .. n : H[Linked(c, k)].next = Linked(c, k + 1) /\ H[Linked(c, k + 1)].prev = Linked(c, k)
  BY <1>1 DEF Ring
<1>5. H[0].prev = Linked(c, n) BY <1>1, RingIs
<1> DEFINE d == [k \in 1 .. n + 1 |-> IF k = n + 1 THEN x ELSE c[k]]
<1>8. \A k \in 1 .. n + 1 : d[k] = IF k = n + 1 THEN x ELSE c[k] OBVIOUS
<1>08. \A k \in 1 .. n + 1 : k # n + 1 => k \in 1 .. n BY <1>2
<1>9. \A k \in 1 .. n + 1 : d[k] \in Nat \ {0}
  <2> HIDE DEF d
  <2>1. QED BY <1>2, <1>8, <1>08
<1>10. ASSUME NEW j \in 1 .. n + 1, NEW k \in 1 .. n + 1, d[j] = d[k] PROVE j = k
  <2> HIDE DEF d
  <2>2. CASE j # n + 1 /\ k # n + 1
    <3>1. j \in 1 .. n /\ k \in 1 .. n /\ j \in 0 .. n /\ k \in 0 .. n BY <1>2, <2>2
    <3>2. c[j] = c[k] BY <1>8, <1>10, <2>2
    <3>3. QED BY <1>3, <3>1, <3>2
  <2>3. CASE j = n + 1 /\ k # n + 1 BY <1>2, <1>8, <1>08, <1>10, <2>3
  <2>4. CASE j # n + 1 /\ k = n + 1 BY <1>2, <1>8, <1>08, <1>10, <2>4
  <2>5. QED BY <2>2, <2>3, <2>4
<1>11. /\ d \in Seq(Nat) /\ Len(d) = n + 1 /\ Distinct(d) /\ free_head \notin Within(d)
       /\ \A k : Linked(d, k) = IF k \in 1 .. n + 1 THEN d[k] ELSE 0
  <2>1. d = [k \in 1 .. n + 1 |-> d[k]] OBVIOUS
  <2> HIDE DEF d
  <2>2. PICK m : m = n + 1 OBVIOUS
  <2>3. NumberList(d, m) BY <1>2, <1>9, <1>10, <2>1, <2>2 DEF NumberList
  <2>4. /\ d \in Seq(Nat) /\ Len(d) = m /\ Distinct(d) /\ free_head \notin Within(d)
        /\ \A k : Linked(d, k) = IF k \in 1 .. m THEN d[k] ELSE 0
    BY <2>3, ListIs
  <2>5. QED BY <2>2, <2>4
<1> HIDE DEF d
<1>12. \A k \in 0 .. n : Linked(d, k) = Linked(c, k)
  <2>1. ASSUME NEW k \in 0 .. n PROVE Linked(d, k) = Linked(c, k)
    <3>1. CASE k = 0 BY <1>3, <1>11, <3>1
    <3>2. CASE k # 0
      <4>1. k \in 1 .. n /\ k \in 1 .. n + 1 /\ k # n + 1 BY <1>2, <3>2
      <4>2. QED BY <1>3, <1>8, <1>11, <4>1
    <3>3. QED BY <3>1, <3>2
  <2>2. QED BY <2>1
<1>13. Linked(d, n + 1) = x /\ Linked(d, n + 2) = 0
  <2>1. n + 1 \in 1 .. n + 1 /\ n + 2 \notin 1 .. n + 1 BY <1>2
  <2>2. QED BY <1>8, <1>11, <2>1
<1>14. ASSUME NEW k \in 0 .. n + 1
       PROVE  K[Linked(d, k)].next = Linked(d, k + 1) /\ K[Linked(d, k + 1)].prev = Linked(d, k)
  <2>1. CASE k = n + 1
    <3>1. Linked(d, k) = x /\ Linked(d, k + 1) = 0
      <4>1. k + 1 = n + 2 BY <1>2, <2>1
      <4>2. QED BY <1>13, <2>1, <4>1
    <3>2. QED BY <3>1
  <2>2. CASE k = n
    <3>1. Linked(d, k) = H[0].prev /\ Linked(d, k + 1) = x BY <1>2, <1>5, <1>12, <1>13, <2>2
    <3>2. H[0].prev \in Within(c) \cup {0}
      <4>1. n \in 0 .. n + 1 BY <1>2
      <4>2. QED BY <1>3, <1>5, <4>1
    <3>3. QED BY <3>1, <3>2
  <2>3. CASE k < n
    <3>1. k \in 0 .. n /\ k + 1 \in 0 .. n /\ k # n /\ k + 1 # 0 /\ n \in 0 .. n /\ 0 \in 0 .. n BY <1>2, <2>3
    <3>2. PICK y, z : y = Linked(c, k) /\ z = Linked(c, k + 1) OBVIOUS
    <3>3. Linked(d, k) = y /\ Linked(d, k + 1) = z BY <1>12, <3>1, <3>2
    <3>4. y # H[0].prev BY <1>3, <1>5, <3>1, <3>2
    <3>5. z # 0
      <4>1. k + 1 \in 1 .. n BY <3>1
      <4>2. QED BY <1>2, <1>3, <3>2, <4>1
    <3>6. y \in Within(c) \cup {0} /\ z \in Within(c) \cup {0}
      <4>1. k \in 0 .. n + 1 /\ k + 1 \in 0 .. n + 1 BY <1>2, <3>1
      <4>2. QED BY <1>3, <3>2, <4>1
    <3>7. H[y].next = z /\ H[z].prev = y BY <1>4, <3>1, <3>2
    <3>8. QED BY <3>3, <3>4, <3>5, <3>6, <3>7
  <2>4. QED BY <1>2, <2>1, <2>2, <2>3
<1>15. Ring(K, d) BY <1>11, <1>14 DEF Ring
<1>16. Within(d) = Within(c) \cup {x}
  <2>1. ASSUME NEW y \in Within(d) PROVE y \in Within(c) \cup {x}
    <3>1. PICK k \in 1 .. n + 1 : y = d[k] BY <1>11 DEF Within
    <3>2. QED BY <1>2, <1>8, <1>08, <3>1
  <2>2. ASSUME NEW y \in Within(c) PROVE y \in Within(d)
    <3>1. PICK k \in 1 .. n : y = c[k] BY <1>1 DEF Within
    <3>2. k \in 1 .. n + 1 /\ k # n + 1 BY <1>2
    <3>3. d[k] = y BY <1>8, <3>1, <3>2
    <3>4. QED BY <1>11, <3>2, <3>3 DEF Within
  <2>3. x \in Within(d)
    <3>1. n + 1 \in 1 .. n + 1 BY <1>2
    <3>2. QED BY <1>8, <1>11, <3>1 DEF Within
  <2>4. QED BY <2>1, <2>2, <2>3
<1>17. QED BY <1>15, <1>16

-----------------------------------------------------------------------------
(* FreeList walks the list *)

\* A list without repetition is no longer than the set it is over.
LEMMA NoLonger ==
    ASSUME NEW S, IsFiniteSet(S), NEW q, Len(q) \in Nat, Distinct(q), Within(q) \subseteq S
    PROVE  Len(q) <= Cardinality(S) /\ Cardinality(S) \in Nat
<1>1. /\ IsFiniteSet(Within(q)) /\ Cardinality(Within(q)) \in Nat
      /\ Cardinality(Within(q)) <= Cardinality(S) /\ Cardinality(S) \in Nat
  BY FS_Subset, FS_CardinalityType
<1>2. Cardinality(Within(q)) = Len(q)
  <2> DEFINE f == [k \in 1 .. Len(q) |-> q[k]]
  <2>1. f \in Bijection(1 .. Len(q), Within(q))
    BY DEF Bijection, Injection, Surjection, IsInjective, Distinct, Within
  <2>2. ExistsBijection(1 .. Len(q), Within(q)) BY <2>1 DEF ExistsBijection
  <2>3. QED BY <1>1, <2>2, FS_CountingElements
<1>3. QED BY <1>1, <1>2

FreeListBody(t, f) ==
    [k \in 0 .. Cardinality(DOMAIN t.heads) |->
        IF k = 0 THEN t.heads[free_head].next
        ELSE IF f[k - 1] = free_head THEN free_head ELSE t.heads[f[k - 1]].next]

LEMMA FreeListIs ==
    ASSUME NEW t, NEW c, Ring(t.heads, c), IsFiniteSet(DOMAIN t.heads),
           Within(c) \subseteq DOMAIN t.heads
    PROVE  /\ DOMAIN FreeList(t) = 0 .. Cardinality(DOMAIN t.heads)
           /\ \A k \in DOMAIN FreeList(t) : k \in Nat /\ FreeList(t)[k] \in Within(c) \cup {free_head}
           /\ Listed(t) = Within(c)
<1>1. PICK H, n, N : H = t.heads /\ n = Len(c) /\ N = Cardinality(DOMAIN t.heads) OBVIOUS
<1>2. n \in Nat /\ N \in Nat /\ n <= N
  <2>1. Len(c) \in Nat /\ Distinct(c) BY RingIs DEF Ring
  <2>2. QED BY <1>1, <2>1, NoLonger
<1>3. /\ \A k \in 1 .. n : Linked(c, k) = c[k] /\ c[k] # 0 /\ c[k] \in Within(c)
      /\ \A k : k \notin 1 .. n => Linked(c, k) = 0
      /\ \A x \in Within(c) : \E k \in 1 .. n : c[k] = x
  BY <1>1, RingIs
<1>4. (\A k \in 1 .. n : H[c[k]].next = Linked(c, k + 1)) /\ H[0].next = Linked(c, 1)
  <2>1. /\ \A k \in 1 .. Len(c) : t.heads[c[k]].next = Linked(c, k + 1)
        /\ t.heads[0].next = Linked(c, 1)
    <3>1. PICK J : J = t.heads OBVIOUS
    <3>2. Ring(J, c) BY <3>1
    <3>3. (\A k \in 1 .. Len(c) : J[c[k]].next = Linked(c, k + 1)) /\ J[0].next = Linked(c, 1)
      BY <3>2, RingIs
    <3>4. QED BY <3>1, <3>3
  <2>2. QED BY <1>1, <2>1
<1> DEFINE g == [k \in 0 .. N |-> Linked(c, k + 1)]
           Next(f, k) == IF k = 0 THEN H[free_head].next
                         ELSE IF f[k - 1] = free_head THEN free_head ELSE H[f[k - 1]].next
<1>5. ASSUME NEW k \in 0 .. N, NEW f, k # 0 => f[k - 1] = Linked(c, k)
      PROVE  Next(f, k) = Linked(c, k + 1)
  <2>1. CASE k = 0 BY <1>4, <2>1 DEF free_head
  <2>2. CASE k # 0 /\ k \in 1 .. n
    <3>1. f[k - 1] = c[k] /\ c[k] # 0 BY <1>3, <1>5, <2>2
    <3>2. QED BY <1>4, <2>2, <3>1 DEF free_head
  <2>3. CASE k # 0 /\ k \notin 1 .. n
    <3>1. k + 1 \notin 1 .. n BY <1>2, <2>3
    <3>2. QED BY <1>3, <1>5, <2>3, <3>1 DEF free_head
  <2>4. QED BY <2>1, <2>2, <2>3
<1>6. g = FreeListBody(t, g)
  <2>1. \A k \in 0 .. N : g[k] = Next(g, k)
    <3>1. ASSUME NEW k \in 0 .. N PROVE g[k] = Next(g, k)
      <4>1. k # 0 => g[k - 1] = Linked(c, k)
        <5>1. k # 0 => k - 1 \in 0 .. N /\ k - 1 + 1 = k BY <1>2
        <5>2. QED BY <5>1
      <4>2. g[k] = Linked(c, k + 1) OBVIOUS
      <4> HIDE DEF g, Next
      <4>3. QED BY <1>5, <4>1, <4>2
    <3>2. QED BY <3>1
  <2>2. FreeListBody(t, g) = [k \in 0 .. N |-> Next(g, k)] BY <1>1 DEF FreeListBody
  <2>3. g = [k \in 0 .. N |-> g[k]] OBVIOUS
  <2> HIDE DEF g, Next
  <2>4. QED BY <2>1, <2>2, <2>3
<1>7. PICK f : f = FreeList(t) OBVIOUS
<1>8. f = FreeListBody(t, f)
  <2>1. f = CHOOSE h : h = FreeListBody(t, h) BY <1>7 DEF FreeList, FreeListBody
  <2> HIDE DEF g
  <2>2. QED BY <1>6, <2>1
<1>9. DOMAIN f = 0 .. N /\ \A k \in 0 .. N : f[k] = Next(f, k)
  <2>1. FreeListBody(t, f) = [k \in 0 .. N |-> Next(f, k)] BY <1>1 DEF FreeListBody
  <2> HIDE DEF Next
  <2>2. PICK b : b = [k \in 0 .. N |-> Next(f, k)] OBVIOUS
  <2>3. DOMAIN b = 0 .. N /\ \A k \in 0 .. N : b[k] = Next(f, k) BY <2>2
  <2>4. f = b BY <1>8, <2>1, <2>2
  <2>5. QED BY <2>3, <2>4
<1> HIDE DEF Next
<1>10. \A k \in 0 .. N : f[k] = Linked(c, k + 1)
  <2> DEFINE D == {k \in 0 .. N : f[k] # Linked(c, k + 1)}
  <2>1. SUFFICES ASSUME D # {} PROVE FALSE OBVIOUS
  <2>2. D \subseteq Nat BY <1>2
  <2>3. PICK k : k \in D /\ \A m \in D : k <= m
    <3> HIDE DEF D
    <3>1. QED BY <2>1, <2>2, LeastOf
  <2>4. k \in 0 .. N /\ f[k] # Linked(c, k + 1) BY <2>3
  <2>5. k # 0 => f[k - 1] = Linked(c, k)
    <3>1. SUFFICES ASSUME k # 0 PROVE f[k - 1] = Linked(c, k) OBVIOUS
    <3>2. k - 1 \in 0 .. N /\ k - 1 + 1 = k /\ ~(k <= k - 1) BY <1>2, <2>4, <3>1
    <3>3. k - 1 \notin D
      <4> HIDE DEF D
      <4>1. QED BY <2>3, <3>2
    <3>4. QED BY <3>2, <3>3
  <2> HIDE DEF D
  <2>6. QED BY <1>5, <1>9, <2>4, <2>5
<1>11. \A k \in 0 .. N : k \in Nat /\ f[k] \in Within(c) \cup {0}
  <2>1. \A k : Linked(c, k) \in Within(c) \cup {0} BY <1>3
  <2>2. QED BY <1>2, <1>10, <2>1
<1>12. \A x \in Within(c) : x # 0 /\ \E k \in 0 .. N : f[k] = x
  <2>1. ASSUME NEW x \in Within(c) PROVE x # 0 /\ \E k \in 0 .. N : f[k] = x
    <3>1. PICK k \in 1 .. n : c[k] = x BY <1>3
    <3>2. k - 1 \in 0 .. N /\ k - 1 + 1 = k BY <1>2
    <3>3. f[k - 1] = x BY <1>3, <1>10, <3>1, <3>2
    <3>4. QED BY <1>3, <3>1, <3>2, <3>3
  <2>2. QED BY <2>1
<1>13. Listed(t) = {f[k] : k \in 0 .. N} \ {0} BY <1>7, <1>9 DEF Listed, free_head
<1>14. Listed(t) = Within(c) BY <1>11, <1>12, <1>13
<1>15. QED BY <1>1, <1>7, <1>9, <1>11, <1>14 DEF free_head

-----------------------------------------------------------------------------
(* Sums over finite sets *)

Some(s) == CHOOSE x \in s : TRUE

\* One element after the other, as MapThenSumSet takes them.
SumBody(V, S, it) ==
    [s \in SUBSET S |-> IF s = {} THEN 0 ELSE V[Some(s)] + it[s \ {Some(s)}]]
Iter(V, S) == CHOOSE it : it = SumBody(V, S, it)
SumOf(V, S) == Iter(V, S)[S]

Summed(V, S) == IsFiniteSet(S) /\ \A h \in S : V[h] \in Int

LEMMA SomeIs == ASSUME NEW s, s # {} PROVE Some(s) \in s
  BY DEF Some

\* Among subsets of a finite set there is one from which none is left by taking
\* an element away.
LEMMA Smallest ==
    ASSUME NEW S, IsFiniteSet(S), NEW B, B \subseteq SUBSET S, B # {}
    PROVE  \E s \in B : \A x \in s : s \ {x} \notin B
<1> DEFINE T == {Cardinality(s) : s \in B}
<1>1. \A s \in B : IsFiniteSet(s) /\ Cardinality(s) \in Nat BY FS_Subset, FS_CardinalityType
<1>2. T \subseteq Nat /\ T # {} BY <1>1
<1>3. PICK k \in T : \A m \in T : k <= m
  <2> HIDE DEF T
  <2>1. QED BY <1>2, LeastOf
<1>4. PICK s \in B : k = Cardinality(s) BY <1>3
<1>5. ASSUME NEW x \in s, s \ {x} \in B PROVE FALSE
  <2>1. Cardinality(s \ {x}) = k - 1 BY <1>1, <1>4, FS_RemoveElement
  <2>2. k - 1 \in T /\ k \in Nat BY <1>2, <1>3, <1>5, <2>1
  <2>3. QED BY <1>3, <2>2
<1>6. QED BY <1>4, <1>5

LEMMA IterIs ==
    ASSUME NEW V, NEW S, Summed(V, S)
    PROVE  \A s \in SUBSET S :
              Iter(V, S)[s] = IF s = {} THEN 0 ELSE V[Some(s)] + Iter(V, S)[s \ {Some(s)}]
<1> DEFINE Next(it, s) == IF s = {} THEN 0 ELSE V[Some(s)] + it[s \ {Some(s)}]
           Good(n) == \E it : \A s \in SUBSET S : Cardinality(s) <= n => it[s] = Next(it, s)
           Bad == {n \in Nat : ~Good(n)}
<1>1. IsFiniteSet(S) BY DEF Summed
<1>2. ASSUME NEW s \in SUBSET S
      PROVE  /\ IsFiniteSet(s) /\ Cardinality(s) \in Nat /\ (Cardinality(s) = 0 <=> s = {})
             /\ s # {} => /\ Some(s) \in s /\ s \ {Some(s)} \in SUBSET S
                          /\ Cardinality(s \ {Some(s)}) = Cardinality(s) - 1
  <2>1. IsFiniteSet(s) BY <1>1, FS_Subset
  <2>2. Cardinality(s) \in Nat /\ (Cardinality(s) = 0 <=> s = {})
    BY <2>1, FS_CardinalityType, FS_EmptySet
  <2>3. s # {} => Some(s) \in s BY SomeIs
  <2>4. s # {} => Cardinality(s \ {Some(s)}) = Cardinality(s) - 1 BY <2>1, <2>3, FS_RemoveElement
  <2>5. QED BY <2>1, <2>2, <2>3, <2>4
<1>3. Good(0)
  <2> DEFINE it == [s \in SUBSET S |-> 0]
  <2>1. ASSUME NEW s \in SUBSET S, Cardinality(s) <= 0 PROVE it[s] = Next(it, s)
    <3>1. PICK n : n = Cardinality(s) OBVIOUS
    <3>2. n \in Nat /\ n <= 0 /\ (n = 0 <=> s = {}) BY <1>2, <2>1, <3>1
    <3>3. n = 0 BY <3>2
    <3>4. QED BY <3>2, <3>3
  <2> HIDE DEF it, Next
  <2>2. QED BY <2>1
<1>4. ASSUME NEW n \in Nat, Good(n) PROVE Good(n + 1)
  <2>1. PICK it : \A s \in SUBSET S : Cardinality(s) <= n => it[s] = Next(it, s) BY <1>4
  <2> DEFINE jt == [s \in SUBSET S |-> Next(it, s)]
  <2>2. ASSUME NEW s \in SUBSET S, Cardinality(s) <= n + 1 PROVE jt[s] = Next(jt, s)
    <3>1. CASE s = {} BY <3>1
    <3>2. CASE s # {}
      <4>1. PICK t : t = s \ {Some(s)} OBVIOUS
      <4>2. t \in SUBSET S /\ Cardinality(t) <= n BY <1>2, <2>2, <3>2, <4>1
      <4>3. it[t] = Next(it, t) BY <2>1, <4>2
      <4>4. jt[t] = it[t]
        <5>1. jt[t] = Next(it, t)
          <6> HIDE DEF Next
          <6>1. QED BY <4>2
        <5>2. QED BY <4>3, <5>1
      <4>5. jt[s] = V[Some(s)] + it[t] BY <3>2, <4>1
      <4> HIDE DEF jt
      <4>6. QED BY <3>2, <4>1, <4>4, <4>5
    <3>3. QED BY <3>1, <3>2
  <2> HIDE DEF jt, Next
  <2>3. QED BY <2>2
<1>5. \A n \in Nat : Good(n)
  <2>1. SUFFICES ASSUME Bad # {} PROVE FALSE
    <3> HIDE DEF Good
    <3>1. QED OBVIOUS
  <2>2. PICK k \in Bad : \A m \in Bad : k <= m
    <3>1. Bad \subseteq Nat OBVIOUS
    <3> HIDE DEF Bad
    <3>2. QED BY <2>1, <3>1, LeastOf
  <2> HIDE DEF Good
  <2>3. k \in Nat /\ ~Good(k) OBVIOUS
  <2>4. k # 0 BY <1>3, <2>3
  <2>5. k - 1 \in Nat /\ k - 1 + 1 = k BY <2>3, <2>4
  <2>6. ~(k - 1 \in Bad)
    <3> HIDE DEF Bad
    <3>1. QED BY <2>2, <2>5
  <2>7. Good(k - 1) BY <2>5, <2>6
  <2>8. Good(k - 1 + 1) BY <1>4, <2>5, <2>7
  <2>9. QED BY <2>3, <2>5, <2>8
<1>6. PICK it : \A s \in SUBSET S : it[s] = Next(it, s)
  <2>1. S \in SUBSET S OBVIOUS
  <2>2. PICK n : n = Cardinality(S) OBVIOUS
  <2>3. n \in Nat BY <1>2, <2>1, <2>2
  <2>4. PICK it : \A s \in SUBSET S : Cardinality(s) <= n => it[s] = Next(it, s) BY <1>5, <2>3
  <2>5. \A s \in SUBSET S : Cardinality(s) <= n BY <1>1, <2>2, FS_Subset
  <2> HIDE DEF Next
  <2>6. QED BY <2>4, <2>5
<1> DEFINE jt == [s \in SUBSET S |-> it[s]]
<1>7. jt = SumBody(V, S, jt)
  <2>1. ASSUME NEW s \in SUBSET S
        PROVE  it[s] = IF s = {} THEN 0 ELSE V[Some(s)] + jt[s \ {Some(s)}]
    <3>1. s \ {Some(s)} \in SUBSET S OBVIOUS
    <3>2. QED BY <1>6, <3>1
  <2> HIDE DEF jt, Next
  <2>2. SumBody(V, S, jt) = [s \in SUBSET S |-> it[s]] BY <2>1 DEF SumBody
  <2>3. QED BY <2>2 DEF jt
<1>8. Iter(V, S) = SumBody(V, S, Iter(V, S))
  <2> HIDE DEF jt
  <2>1. QED BY <1>7 DEF Iter
<1>9. PICK kt : kt = Iter(V, S) OBVIOUS
<1>10. kt = SumBody(V, S, kt) BY <1>8, <1>9
<1>11. \A s \in SUBSET S : SumBody(V, S, kt)[s] = Next(kt, s) BY DEF SumBody
<1>12. QED BY <1>9, <1>10, <1>11

LEMMA IterInt ==
    ASSUME NEW V, NEW S, Summed(V, S)
    PROVE  \A s \in SUBSET S : Iter(V, S)[s] \in Int
<1> DEFINE B == {s \in SUBSET S : Iter(V, S)[s] \notin Int}
<1>1. SUFFICES ASSUME B # {} PROVE FALSE OBVIOUS
<1>2. PICK s \in B : \A x \in s : s \ {x} \notin B
  <2>1. B \subseteq SUBSET S /\ IsFiniteSet(S) BY DEF Summed
  <2> HIDE DEF B
  <2>2. QED BY <1>1, <2>1, Smallest
<1>3. s \in SUBSET S /\ Iter(V, S)[s] \notin Int OBVIOUS
<1>4. Iter(V, S)[s] = IF s = {} THEN 0 ELSE V[Some(s)] + Iter(V, S)[s \ {Some(s)}]
  <2> HIDE DEF B
  <2>1. \A r \in SUBSET S :
           Iter(V, S)[r] = IF r = {} THEN 0 ELSE V[Some(r)] + Iter(V, S)[r \ {Some(r)}]
    BY IterIs
  <2>2. QED BY <1>3, <2>1
<1>5. s # {} BY <1>3, <1>4
<1>6. Some(s) \in s BY <1>5, SomeIs
<1>7. s \ {Some(s)} \in SUBSET S /\ s \ {Some(s)} \notin B
  <2>1. s \ {Some(s)} \notin B
    <3> HIDE DEF B
    <3>1. QED BY <1>2, <1>6
  <2>2. QED BY <1>3, <2>1
<1>8. Iter(V, S)[s \ {Some(s)}] \in Int BY <1>7
<1>9. V[Some(s)] \in Int BY <1>3, <1>6 DEF Summed
<1>10. QED BY <1>3, <1>4, <1>5, <1>8, <1>9

\* The order does not matter.
LEMMA IterTakes ==
    ASSUME NEW V, NEW S, Summed(V, S), NEW s \in SUBSET S, NEW x \in s
    PROVE  Iter(V, S)[s] = V[x] + Iter(V, S)[s \ {x}]
<1> DEFINE B == {t \in SUBSET S : \E y \in t : Iter(V, S)[t] # V[y] + Iter(V, S)[t \ {y}]}
<1>1. SUFFICES ASSUME B # {} PROVE FALSE OBVIOUS
<1>2. PICK t \in B : \A y \in t : t \ {y} \notin B
  <2>1. B \subseteq SUBSET S /\ IsFiniteSet(S) BY DEF Summed
  <2> HIDE DEF B
  <2>2. QED BY <1>1, <2>1, Smallest
<1>3. t \in SUBSET S OBVIOUS
<1>4. PICK y \in t : Iter(V, S)[t] # V[y] + Iter(V, S)[t \ {y}] OBVIOUS
<1>5. PICK c : c = Some(t) OBVIOUS
<1>6. c \in t BY <1>4, <1>5, SomeIs
<1>7. PICK it : it = Iter(V, S) OBVIOUS
<1>8. it[t] = V[c] + it[t \ {c}] BY <1>3, <1>4, <1>5, <1>7, IterIs
<1>9. y # c BY <1>4, <1>7, <1>8
<1>10. \A u \in SUBSET S : u \notin B => \A z \in u : it[u] = V[z] + it[u \ {z}] BY <1>7
<1>11. t \ {c} \notin B /\ t \ {y} \notin B
  <2> HIDE DEF B
  <2>1. QED BY <1>2, <1>4, <1>6
<1>12. it[t \ {c}] = V[y] + it[(t \ {c}) \ {y}]
  <2>1. t \ {c} \in SUBSET S /\ y \in t \ {c} BY <1>3, <1>4, <1>9
  <2> HIDE DEF B
  <2>2. QED BY <1>10, <1>11, <2>1
<1>13. it[t \ {y}] = V[c] + it[(t \ {y}) \ {c}]
  <2>1. t \ {y} \in SUBSET S /\ c \in t \ {y} BY <1>3, <1>6, <1>9
  <2> HIDE DEF B
  <2>2. QED BY <1>10, <1>11, <2>1
<1>14. (t \ {c}) \ {y} = (t \ {y}) \ {c} OBVIOUS
<1>15. PICK k : k = it[(t \ {y}) \ {c}] OBVIOUS
<1>16. k \in Int /\ V[c] \in Int /\ V[y] \in Int
  <2>1. (t \ {y}) \ {c} \in SUBSET S BY <1>3
  <2>2. k \in Int BY <1>7, <1>15, <2>1, IterInt
  <2>3. V[c] \in Int /\ V[y] \in Int BY <1>3, <1>4, <1>6 DEF Summed
  <2>4. QED BY <2>2, <2>3
<1>17. it[t] = V[y] + it[t \ {y}]
  <2>1. PICK a, b, e, f : a = V[c] /\ b = V[y] /\ e = it[t \ {c}] /\ f = it[t \ {y}]
    OBVIOUS
  <2>2. e = b + k BY <1>12, <1>14, <1>15, <2>1
  <2>3. f = a + k BY <1>13, <1>15, <2>1
  <2>4. it[t] = a + e BY <1>8, <2>1
  <2>5. a + (b + k) = b + (a + k) BY <1>16, <2>1
  <2>6. QED BY <2>1, <2>2, <2>3, <2>4, <2>5
<1>18. QED BY <1>4, <1>7, <1>17

\* Neither does what lies outside of the set.
LEMMA IterSame ==
    ASSUME NEW V, NEW S, Summed(V, S), NEW W, NEW T, Summed(W, T), T \subseteq S,
           \A x \in T : W[x] = V[x]
    PROVE  \A s \in SUBSET T : Iter(W, T)[s] = Iter(V, S)[s]
<1> DEFINE B == {s \in SUBSET T : Iter(W, T)[s] # Iter(V, S)[s]}
<1>1. SUFFICES ASSUME B # {} PROVE FALSE OBVIOUS
<1>2. PICK s \in B : \A x \in s : s \ {x} \notin B
  <2>1. B \subseteq SUBSET T /\ IsFiniteSet(T) BY DEF Summed
  <2> HIDE DEF B
  <2>2. QED BY <1>1, <2>1, Smallest
<1>3. s \in SUBSET T /\ s \in SUBSET S /\ Iter(W, T)[s] # Iter(V, S)[s] OBVIOUS
<1>03. s \in SUBSET T /\ s \in SUBSET S BY <1>3
<1> HIDE DEF B
<1>4. Iter(V, S)[s] = IF s = {} THEN 0 ELSE V[Some(s)] + Iter(V, S)[s \ {Some(s)}]
  BY <1>03, IterIs
<1>5. Iter(W, T)[s] = IF s = {} THEN 0 ELSE W[Some(s)] + Iter(W, T)[s \ {Some(s)}]
  BY <1>03, IterIs
<1>6. s # {} BY <1>3, <1>4, <1>5
<1>7. Some(s) \in s BY <1>6, SomeIs
<1>8. s \ {Some(s)} \in SUBSET T /\ s \ {Some(s)} \notin B
  <2>1. s \ {Some(s)} \notin B
    <3>1. QED BY <1>2, <1>7
  <2>2. QED BY <1>3, <2>1
<1>9. Iter(W, T)[s \ {Some(s)}] = Iter(V, S)[s \ {Some(s)}] BY <1>8 DEF B
<1>10. W[Some(s)] = V[Some(s)] BY <1>3, <1>7
<1>11. QED BY <1>3, <1>4, <1>5, <1>6, <1>9, <1>10

LEMMA SumInt ==
    ASSUME NEW V, NEW S, Summed(V, S)
    PROVE  SumOf(V, S) \in Int
  BY IterInt DEF SumOf

LEMMA SumNone ==
    ASSUME NEW V
    PROVE  SumOf(V, {}) = 0
<1>1. Summed(V, {}) BY FS_EmptySet DEF Summed
<1>2. QED BY <1>1, IterIs DEF SumOf

LEMMA SumSame ==
    ASSUME NEW V, NEW W, NEW S, Summed(V, S), \A x \in S : W[x] = V[x]
    PROVE  Summed(W, S) /\ SumOf(W, S) = SumOf(V, S)
<1>1. Summed(W, S) BY DEF Summed
<1>2. \A s \in SUBSET S : Iter(W, S)[s] = Iter(V, S)[s] BY <1>1, IterSame
<1>3. QED BY <1>1, <1>2 DEF SumOf

LEMMA SumLess ==
    ASSUME NEW V, NEW S, Summed(V, S), NEW x \in S
    PROVE  Summed(V, S \ {x}) /\ SumOf(V, S) = V[x] + SumOf(V, S \ {x})
<1>1. Summed(V, S \ {x})
  <2>1. IsFiniteSet(S) BY DEF Summed
  <2>2. IsFiniteSet(S \ {x}) BY <2>1, FS_Subset
  <2>3. QED BY <2>2 DEF Summed
<1>2. Iter(V, S)[S] = V[x] + Iter(V, S)[S \ {x}] BY IterTakes
<1>3. Iter(V, S \ {x})[S \ {x}] = Iter(V, S)[S \ {x}]
  <2>1. PICK T : T = S \ {x} OBVIOUS
  <2>2. Summed(V, T) /\ T \subseteq S BY <1>1, <2>1
  <2>3. \A s \in SUBSET T : Iter(V, T)[s] = Iter(V, S)[s] BY <2>2, IterSame
  <2>4. QED BY <2>1, <2>3
<1>4. QED BY <1>1, <1>2, <1>3 DEF SumOf

LEMMA SumMore ==
    ASSUME NEW V, NEW S, Summed(V, S), NEW x, x \notin S, V[x] \in Int
    PROVE  Summed(V, S \cup {x}) /\ SumOf(V, S \cup {x}) = V[x] + SumOf(V, S)
<1>1. PICK T : T = S \cup {x} OBVIOUS
<1>2. Summed(V, T)
  <2>1. IsFiniteSet(S) BY DEF Summed
  <2>2. IsFiniteSet(T) BY <1>1, <2>1, FS_AddElement
  <2>3. QED BY <1>1, <2>2 DEF Summed
<1>3. x \in T /\ T \ {x} = S BY <1>1
<1>4. SumOf(V, T) = V[x] + SumOf(V, T \ {x}) BY <1>2, <1>3, SumLess
<1>5. QED BY <1>1, <1>2, <1>3, <1>4

\* What MapThenSumSet comes to.
LEMMA SumOfLens ==
    ASSUME NEW H, NEW S
    PROVE  MapThenSumSet(LAMBDA p : H[p].len, S) = SumOf([p \in S |-> H[p].len], S)
<1> DEFINE V == [p \in S |-> H[p].len]
           B(it) == [s \in SUBSET S |-> IF s = {} THEN 0 ELSE H[Some(s)].len + it[s \ {Some(s)}]]
<1>1. \A s \in SUBSET S : s # {} => Some(s) \in S BY SomeIs
<1>2. \A it : B(it) = SumBody(V, S, it) BY <1>1 DEF SumBody
<1>3. MapThenSumSet(LAMBDA p : H[p].len, S) = (CHOOSE it : it = B(it))[S]
  BY DEF MapThenSumSet, MapThenFoldSet, Some
<1> HIDE DEF B, V
<1>4. (CHOOSE it : it = B(it)) = (CHOOSE it : it = SumBody(V, S, it)) BY <1>2
<1>5. QED BY <1>3, <1>4 DEF SumOf, Iter, V

LEMMA SumOfUsed ==
    ASSUME NEW H, NEW S
    PROVE  MapThenSumSet(LAMBDA k : H[k].used, S) = SumOf([k \in S |-> H[k].used], S)
<1> DEFINE V == [k \in S |-> H[k].used]
           B(it) == [s \in SUBSET S |-> IF s = {} THEN 0 ELSE H[Some(s)].used + it[s \ {Some(s)}]]
<1>1. \A s \in SUBSET S : s # {} => Some(s) \in S BY SomeIs
<1>2. \A it : B(it) = SumBody(V, S, it) BY <1>1 DEF SumBody
<1>3. MapThenSumSet(LAMBDA k : H[k].used, S) = (CHOOSE it : it = B(it))[S]
  BY DEF MapThenSumSet, MapThenFoldSet, Some
<1> HIDE DEF B, V
<1>4. (CHOOSE it : it = B(it)) = (CHOOSE it : it = SumBody(V, S, it)) BY <1>2
<1>5. QED BY <1>3, <1>4 DEF SumOf, Iter, V

LEMMA SumOfTotal ==
    ASSUME NEW H, NEW S
    PROVE  MapThenSumSet(LAMBDA k : H[k].total, S) = SumOf([k \in S |-> H[k].total], S)
<1> DEFINE V == [k \in S |-> H[k].total]
           B(it) == [s \in SUBSET S |-> IF s = {} THEN 0 ELSE H[Some(s)].total + it[s \ {Some(s)}]]
<1>1. \A s \in SUBSET S : s # {} => Some(s) \in S BY SomeIs
<1>2. \A it : B(it) = SumBody(V, S, it) BY <1>1 DEF SumBody
<1>3. MapThenSumSet(LAMBDA k : H[k].total, S) = (CHOOSE it : it = B(it))[S]
  BY DEF MapThenSumSet, MapThenFoldSet, Some
<1> HIDE DEF B, V
<1>4. (CHOOSE it : it = B(it)) = (CHOOSE it : it = SumBody(V, S, it)) BY <1>2
<1>5. QED BY <1>3, <1>4 DEF SumOf, Iter, V

-----------------------------------------------------------------------------
(* A node is allocated *)

Body(H, T, end, u) ==
    /\ HeadsTyped(H) /\ TailsTyped(T) /\ end \in Nat /\ u \in Int
    /\ Tiled(H, end) /\ Marked(H, T)
    /\ \E c : Ring(H, c) /\ Within(c) = FreeOf(H)
    /\ u = SumOf(LenIn(H), BusyOf(H))

LEMMA NodesAre ==
    ASSUME NEW H, NEW end \in Nat, HeadsTyped(H), Tiled(H, end)
    PROVE  /\ 0 \in DOMAIN H /\ 0 \notin FreeOf(H) /\ 0 \notin BusyOf(H)
           /\ FreeOf(H) \subseteq DOMAIN H /\ BusyOf(H) \subseteq DOMAIN H
           /\ \A q \in DOMAIN H : /\ q \in Nat /\ H[q].busy \in BOOLEAN
                                  /\ H[q].len \in Nat /\ H[q].prev \in Nat /\ H[q].next \in Nat
                                  /\ H[q].len >= 3 /\ q + H[q].len <= end
                                  /\ q + H[q].len \in DOMAIN H \cup {end}
           /\ \A q, r \in DOMAIN H : q < r => q + H[q].len <= r
  BY DEF HeadsTyped, Tiled, HeadSet, free_head, MIN_NODE_SIZE, FreeOf, BusyOf

\* The busy nodes of K are those of H and p.
BusyWith(H, K, p) ==
    /\ HeadsTyped(H) /\ HeadsTyped(K) /\ p \notin BusyOf(H) /\ BusyOf(K) = BusyOf(H) \cup {p}
    /\ \A q \in BusyOf(H) : K[q].len = H[q].len

LEMMA BusyMore ==
    ASSUME NEW H, NEW K, NEW p, BusyWith(H, K, p)
    PROVE  /\ SumOf(LenIn(K), BusyOf(K)) = SumOf(LenIn(H), BusyOf(H)) + K[p].len
           /\ K[p].len \in Nat /\ SumOf(LenIn(H), BusyOf(H)) \in Int
<1>0. /\ HeadsTyped(H) /\ HeadsTyped(K) /\ p \notin BusyOf(H)
      /\ BusyOf(K) = BusyOf(H) \cup {p} /\ \A q \in BusyOf(H) : K[q].len = H[q].len
  BY DEF BusyWith
<1>1. BusyOf(H) \subseteq DOMAIN H /\ BusyOf(K) \subseteq DOMAIN K BY DEF BusyOf
<1>2. IsFiniteSet(BusyOf(H)) BY <1>0, <1>1, FS_Subset DEF HeadsTyped
<1>3. /\ \A q \in DOMAIN H : LenIn(H)[q] = H[q].len /\ H[q].len \in Nat
      /\ \A q \in DOMAIN K : LenIn(K)[q] = K[q].len /\ K[q].len \in Nat
  BY <1>0 DEF HeadsTyped, HeadSet, LenIn
<1>4. Summed(LenIn(H), BusyOf(H)) BY <1>1, <1>2, <1>3 DEF Summed
<1>5. \A q \in BusyOf(H) : LenIn(K)[q] = LenIn(H)[q] BY <1>0, <1>1, <1>3
<1>6. Summed(LenIn(K), BusyOf(H)) /\ SumOf(LenIn(K), BusyOf(H)) = SumOf(LenIn(H), BusyOf(H))
  BY <1>4, <1>5, SumSame
<1>7. LenIn(K)[p] = K[p].len /\ K[p].len \in Nat BY <1>0, <1>1, <1>3
<1>8. SumOf(LenIn(K), BusyOf(K)) = LenIn(K)[p] + SumOf(LenIn(K), BusyOf(H))
  BY <1>0, <1>6, <1>7, SumMore
<1>9. SumOf(LenIn(H), BusyOf(H)) \in Int BY <1>4, SumInt
<1>10. QED BY <1>6, <1>7, <1>8, <1>9

\* The words in the body of a node may change, the tails of other free nodes are not there.
LEMMA TailsStay ==
    ASSUME NEW H, NEW end \in Nat, HeadsTyped(H), Tiled(H, end), NEW p \in DOMAIN H,
           NEW q \in DOMAIN H, q # p
    PROVE  q + H[q].len - 1 \notin p .. p + H[p].len - 1
<1>1. /\ q \in Nat /\ H[q].len \in Nat /\ H[q].len >= 3
      /\ p \in Nat /\ H[p].len \in Nat /\ H[p].len >= 3
      /\ q < p => q + H[q].len <= p
      /\ p < q => p + H[p].len <= q
  BY NodesAre
<1>2. CASE q < p BY <1>1, <1>2
<1>3. CASE p < q BY <1>1, <1>3
<1>4. QED BY <1>1, <1>2, <1>3

\* The node p is taken as a whole.
Taken(H, K, p) ==
    /\ K = [q \in DOMAIN H |-> K[q]]
    /\ K[p] = [busy |-> TRUE, len |-> H[p].len, prev |-> 0, next |-> 0]
    /\ \A q \in DOMAIN H \ {p} :
          K[q] = [busy |-> H[q].busy, len |-> H[q].len,
                  prev |-> IF q = H[p].next THEN H[p].prev ELSE H[q].prev,
                  next |-> IF q = H[p].prev THEN H[p].next ELSE H[q].next]

\* Outside of the body of p, whose length is len, tails are kept.
TailsKept(T, U, p, len) ==
    TailsTyped(U) /\ \A s \in DOMAIN T : s \notin p .. p + len - 1 => s \in DOMAIN U /\ U[s] = T[s]

LEMMA TakenBody ==
    ASSUME NEW H, NEW T, NEW end, NEW u, Body(H, T, end, u), NEW p \in FreeOf(H),
           NEW K, Taken(H, K, p), NEW U, TailsKept(T, U, p, H[p].len)
    PROVE  /\ Body(K, U, end, u + H[p].len) /\ BusyOf(K) = BusyOf(H) \cup {p}
           /\ K[p].len = H[p].len /\ \A q \in BusyOf(H) : K[q].len = H[q].len
<1>1. /\ HeadsTyped(H) /\ end \in Nat /\ u \in Int /\ Tiled(H, end) /\ Marked(H, T)
      /\ u = SumOf(LenIn(H), BusyOf(H))
  BY DEF Body
<1>2. /\ 0 \in DOMAIN H /\ p # 0 /\ p \in DOMAIN H /\ H[p].busy = FALSE
      /\ \A q \in DOMAIN H : /\ q \in Nat /\ H[q].busy \in BOOLEAN
                             /\ H[q].len \in Nat /\ H[q].prev \in Nat /\ H[q].next \in Nat
                             /\ H[q].len >= 3
  BY <1>1, NodesAre DEF FreeOf
<1>3. /\ DOMAIN K = DOMAIN H /\ K = [q \in DOMAIN K |-> K[q]]
      /\ \A q \in DOMAIN H : K[q].len = H[q].len /\ K[q] \in HeadSet
      /\ K[p].busy = TRUE /\ \A q \in DOMAIN H : q # p => K[q].busy = H[q].busy
  <2>1. DOMAIN K = DOMAIN H /\ K = [q \in DOMAIN K |-> K[q]]
    <3>1. PICK f : f = [q \in DOMAIN H |-> K[q]] OBVIOUS
    <3>2. DOMAIN f = DOMAIN H BY <3>1
    <3>3. K = f BY <3>1 DEF Taken
    <3>4. QED BY <3>1, <3>2, <3>3
  <2>2. K[p] \in HeadSet /\ K[p].len = H[p].len /\ K[p].busy = TRUE
    <3>1. K[p] = [busy |-> TRUE, len |-> H[p].len, prev |-> 0, next |-> 0] BY DEF Taken
    <3>2. H[p].len \in Nat BY <1>2
    <3>3. QED BY <3>1, <3>2 DEF HeadSet
  <2>3. ASSUME NEW q \in DOMAIN H, q # p
        PROVE  K[q] \in HeadSet /\ K[q].len = H[q].len /\ K[q].busy = H[q].busy
    BY <1>2, <2>3 DEF Taken, HeadSet
  <2>4. QED BY <2>1, <2>2, <2>3
<1>4. HeadsTyped(K) BY <1>1, <1>3 DEF HeadsTyped
<1>5. Tiled(K, end)
  <2>1. 0 \in DOMAIN K /\ ~K[0].busy BY <1>1, <1>2, <1>3 DEF Tiled, free_head
  <2>2. QED BY <1>1, <1>3, <2>1 DEF Tiled, free_head
<1>6. FreeOf(K) = FreeOf(H) \ {p} BY <1>2, <1>3 DEF FreeOf, free_head
<1>7. BusyOf(K) = BusyOf(H) \cup {p} /\ p \notin BusyOf(H) BY <1>2, <1>3 DEF BusyOf
<1>8. \E d : Ring(K, d) /\ Within(d) = FreeOf(K)
  <2>1. PICK c : Ring(H, c) /\ Within(c) = FreeOf(H) BY DEF Body
  <2>2. \A q \in (Within(c) \cup {0}) \ {p} :
           /\ K[q].next = IF q = H[p].prev THEN H[p].next ELSE H[q].next
           /\ K[q].prev = IF q = H[p].next THEN H[p].prev ELSE H[q].prev
    BY <1>2, <2>1 DEF Taken, FreeOf
  <2>3. \E d : Ring(K, d) /\ Within(d) = Within(c) \ {p} BY <2>1, <2>2, RingLess
  <2>4. QED BY <1>6, <2>1, <2>3
<1>9. Marked(K, U)
  <2>1. ASSUME NEW q \in FreeOf(K)
        PROVE  /\ Block(q) = Block(q + K[q].len - 1)
               /\ q + K[q].len - 1 \in DOMAIN U /\ U[q + K[q].len - 1] = K[q].len
               /\ q + K[q].len \in FreeOf(K) => Block(q + K[q].len) # Block(q)
    <3>1. q \in FreeOf(H) /\ q # p /\ q \in DOMAIN H /\ K[q].len = H[q].len
      BY <1>3, <1>6 DEF FreeOf
    <3>2. /\ Block(q) = Block(q + H[q].len - 1)
          /\ q + H[q].len - 1 \in DOMAIN T /\ T[q + H[q].len - 1] = H[q].len
          /\ q + H[q].len \in FreeOf(H) => Block(q + H[q].len) # Block(q)
      BY <1>1, <3>1 DEF Marked
    <3>3. q + H[q].len - 1 \notin p .. p + H[p].len - 1 BY <1>1, <1>2, <3>1, TailsStay
    <3>4. q + H[q].len - 1 \in DOMAIN U /\ U[q + H[q].len - 1] = H[q].len
      BY <3>2, <3>3 DEF TailsKept
    <3>5. QED BY <1>6, <3>1, <3>2, <3>4
  <2>2. QED BY <2>1 DEF Marked
<1>10. \A q \in BusyOf(H) : K[q].len = H[q].len BY <1>3 DEF BusyOf
<1>11. u + H[p].len = SumOf(LenIn(K), BusyOf(K)) /\ u + H[p].len \in Int
  <2>0. BusyWith(H, K, p) BY <1>1, <1>4, <1>7, <1>10 DEF BusyWith
  <2>1. SumOf(LenIn(K), BusyOf(K)) = SumOf(LenIn(H), BusyOf(H)) + K[p].len BY <2>0, BusyMore
  <2>2. QED BY <1>1, <1>2, <1>3, <2>1
<1>12. TailsTyped(U) BY DEF TailsKept
<1>13. Body(K, U, end, u + H[p].len)
  BY <1>1, <1>4, <1>5, <1>8, <1>9, <1>11, <1>12 DEF Body
<1>14. QED BY <1>2, <1>3, <1>7, <1>10, <1>13

\* The node p is cut: its front is taken, what is left stays free.
Cut(H, K, p, need) ==
    /\ K = [q \in DOMAIN H \cup {p + need} |-> K[q]]
    /\ K[p] = [busy |-> TRUE, len |-> need, prev |-> 0, next |-> 0]
    /\ K[p + need] = [busy |-> FALSE, len |-> H[p].len - need, prev |-> H[p].prev, next |-> H[p].next]
    /\ \A q \in DOMAIN H \ {p} :
          K[q] = [busy |-> H[q].busy, len |-> H[q].len,
                  prev |-> IF q = H[p].next THEN p + need ELSE H[q].prev,
                  next |-> IF q = H[p].prev THEN p + need ELSE H[q].next]

LEMMA CutBody ==
    ASSUME NEW H, NEW T, NEW end, NEW u, Body(H, T, end, u), NEW p \in FreeOf(H),
           NEW need \in Nat, need >= 3, H[p].len >= need + 3,
           NEW K, Cut(H, K, p, need), NEW U, TailsKept(T, U, p, H[p].len),
           p + H[p].len - 1 \in DOMAIN U, U[p + H[p].len - 1] = H[p].len - need
    PROVE  /\ Body(K, U, end, u + need) /\ BusyOf(K) = BusyOf(H) \cup {p}
           /\ K[p].len = need /\ \A q \in BusyOf(H) : K[q].len = H[q].len
<1>1. /\ HeadsTyped(H) /\ end \in Nat /\ u \in Int /\ Tiled(H, end) /\ Marked(H, T)
      /\ u = SumOf(LenIn(H), BusyOf(H))
  BY DEF Body
<1>2. /\ 0 \in DOMAIN H /\ p # 0 /\ p \in DOMAIN H /\ H[p].busy = FALSE
      /\ \A q \in DOMAIN H : /\ q \in Nat /\ H[q].busy \in BOOLEAN
                             /\ H[q].len \in Nat /\ H[q].prev \in Nat /\ H[q].next \in Nat
                             /\ H[q].len >= 3 /\ q + H[q].len <= end
                             /\ q + H[q].len \in DOMAIN H \cup {end}
      /\ \A q, r \in DOMAIN H : q < r => q + H[q].len <= r
  BY <1>1, NodesAre DEF FreeOf
<1>3. PICK n, l : n = p + need /\ l = H[p].len OBVIOUS
<1>4. n \in Nat /\ l \in Nat /\ l - need \in Nat /\ l - need >= 3 /\ p < n /\ n < p + l /\ p \in Nat
  BY <1>2, <1>3
<1>5. n \notin DOMAIN H
  <2>1. SUFFICES ASSUME n \in DOMAIN H PROVE FALSE OBVIOUS
  <2>2. p + l <= n BY <1>2, <1>3, <1>4, <2>1
  <2>3. QED BY <1>4, <2>2
<1>6. /\ DOMAIN K = DOMAIN H \cup {n} /\ K = [q \in DOMAIN K |-> K[q]]
      /\ K[n] \in HeadSet /\ K[n].busy = FALSE /\ K[n].len = l - need
      /\ K[n].prev = H[p].prev /\ K[n].next = H[p].next
      /\ K[p] \in HeadSet /\ K[p].busy = TRUE /\ K[p].len = need
      /\ \A q \in DOMAIN H : q # p => /\ K[q] \in HeadSet /\ K[q].len = H[q].len
                                      /\ K[q].busy = H[q].busy
  <2>1. DOMAIN K = DOMAIN H \cup {n} /\ K = [q \in DOMAIN K |-> K[q]]
    <3>1. PICK f : f = [q \in DOMAIN H \cup {n} |-> K[q]] OBVIOUS
    <3>2. DOMAIN f = DOMAIN H \cup {n} BY <3>1
    <3>3. K = f BY <1>3, <3>1 DEF Cut
    <3>4. QED BY <3>1, <3>2, <3>3
  <2>2. K[p] \in HeadSet /\ K[p].busy = TRUE /\ K[p].len = need
    <3>1. K[p] = [busy |-> TRUE, len |-> need, prev |-> 0, next |-> 0] BY DEF Cut
    <3>2. QED BY <3>1 DEF HeadSet
  <2>3. /\ K[n] \in HeadSet /\ K[n].busy = FALSE /\ K[n].len = l - need
        /\ K[n].prev = H[p].prev /\ K[n].next = H[p].next
    <3>1. K[n] = [busy |-> FALSE, len |-> l - need, prev |-> H[p].prev, next |-> H[p].next]
      BY <1>3 DEF Cut
    <3>2. H[p].prev \in Nat /\ H[p].next \in Nat BY <1>2
    <3>3. QED BY <1>4, <3>1, <3>2 DEF HeadSet
  <2>4. ASSUME NEW q \in DOMAIN H, q # p
        PROVE  K[q] \in HeadSet /\ K[q].len = H[q].len /\ K[q].busy = H[q].busy
    <3>1. K[q] = [busy |-> H[q].busy, len |-> H[q].len,
                  prev |-> IF q = H[p].next THEN n ELSE H[q].prev,
                  next |-> IF q = H[p].prev THEN n ELSE H[q].next]
      BY <1>3, <2>4 DEF Cut
    <3>2. QED BY <1>2, <1>4, <3>1 DEF HeadSet
  <2>5. QED BY <2>1, <2>2, <2>3, <2>4
<1>7. HeadsTyped(K)
  <2>1. DOMAIN K \subseteq Nat BY <1>2, <1>4, <1>6
  <2>2. IsFiniteSet(DOMAIN H) BY <1>1 DEF HeadsTyped
  <2>3. IsFiniteSet(DOMAIN K) BY <1>6, <2>2, FS_AddElement
  <2>4. \A q \in DOMAIN K : K[q] \in HeadSet BY <1>6
  <2>5. QED BY <1>6, <2>1, <2>3, <2>4 DEF HeadsTyped
<1>8. Tiled(K, end)
  <2>1. 0 \in DOMAIN K /\ ~K[0].busy BY <1>1, <1>2, <1>6 DEF Tiled, free_head
  <2>2. ASSUME NEW q \in DOMAIN K
        PROVE  K[q].len >= 3 /\ q + K[q].len \in DOMAIN K \cup {end} /\ q + K[q].len <= end
    <3>1. CASE q = p
      <4>1. K[q].len = need /\ q + K[q].len = n BY <1>3, <1>6, <3>1
      <4>2. p + l <= end /\ n \in DOMAIN K BY <1>2, <1>3, <1>6
      <4>3. n <= end BY <1>1, <1>4, <4>2
      <4>4. QED BY <4>1, <4>2, <4>3
    <3>2. CASE q = n
      <4>1. n + (l - need) = p + l BY <1>3, <1>4
      <4>2. p + l \in DOMAIN H \cup {end} /\ p + l <= end BY <1>2, <1>3
      <4>3. QED BY <1>4, <1>6, <3>2, <4>1, <4>2
    <3>3. CASE q # p /\ q # n
      <4>1. q \in DOMAIN H BY <1>6, <3>3
      <4>2. QED BY <1>2, <1>6, <3>3, <4>1
    <3>4. QED BY <3>1, <3>2, <3>3
  <2>3. ASSUME NEW q \in DOMAIN K, NEW r \in DOMAIN K, q < r PROVE q + K[q].len <= r
    <3>1. q \in DOMAIN H \cup {n} /\ r \in DOMAIN H \cup {n} BY <1>6
    <3>2. CASE r = n
      <4>1. q \in DOMAIN H BY <1>4, <2>3, <3>1, <3>2
      <4>2. CASE q = p BY <1>3, <1>4, <1>6, <3>2, <4>2
      <4>3. CASE q # p
        <5>1. q < p
          <6>1. SUFFICES ASSUME p < q PROVE FALSE BY <1>2, <4>1, <4>3
          <6>2. p + l <= q BY <1>2, <1>3, <4>1, <6>1
          <6>3. q \in Nat BY <1>2, <4>1
          <6>4. QED BY <1>4, <2>3, <3>2, <6>2, <6>3
        <5>2. q + H[q].len <= p BY <1>2, <4>1, <5>1
        <5>3. q \in Nat /\ H[q].len \in Nat /\ K[q].len = H[q].len BY <1>2, <1>6, <4>1, <4>3
        <5>4. QED BY <1>4, <3>2, <5>2, <5>3
      <4>4. QED BY <4>2, <4>3
    <3>3. CASE r \in DOMAIN H /\ q = n
      <4>1. p < r /\ r \in Nat BY <1>2, <1>4, <2>3, <3>3
      <4>2. p + l <= r BY <1>2, <1>3, <3>3, <4>1
      <4>3. QED BY <1>3, <1>4, <1>6, <3>3, <4>1, <4>2
    <3>4. CASE r \in DOMAIN H /\ q \in DOMAIN H /\ q = p
      <4>1. p + l <= r /\ r \in Nat BY <1>2, <1>3, <2>3, <3>4
      <4>2. QED BY <1>3, <1>4, <1>6, <3>4, <4>1
    <3>5. CASE r \in DOMAIN H /\ q \in DOMAIN H /\ q # p BY <1>2, <1>6, <2>3, <3>5
    <3>6. QED BY <3>1, <3>2, <3>3, <3>4, <3>5
  <2>4. QED BY <2>1, <2>2, <2>3 DEF Tiled, free_head, MIN_NODE_SIZE
<1>9. FreeOf(K) = (FreeOf(H) \ {p}) \cup {n}
  <2>1. n # 0 BY <1>4
  <2>2. \A q : q \in FreeOf(K) <=> q \in (FreeOf(H) \ {p}) \cup {n}
    BY <1>2, <1>5, <1>6, <2>1 DEF FreeOf, free_head
  <2>3. QED BY <2>2
<1>10. BusyOf(K) = BusyOf(H) \cup {p} /\ p \notin BusyOf(H)
  <2>1. \A q : q \in BusyOf(K) <=> q \in BusyOf(H) \cup {p} BY <1>2, <1>5, <1>6 DEF BusyOf
  <2>2. QED BY <1>2, <2>1 DEF BusyOf
<1>11. \E d : Ring(K, d) /\ Within(d) = FreeOf(K)
  <2>1. PICK c : Ring(H, c) /\ Within(c) = FreeOf(H) BY DEF Body
  <2>2. \A q \in (Within(c) \cup {0}) \ {p} :
           /\ K[q].next = IF q = H[p].prev THEN n ELSE H[q].next
           /\ K[q].prev = IF q = H[p].next THEN n ELSE H[q].prev
    <3>1. ASSUME NEW q \in (Within(c) \cup {0}) \ {p}
          PROVE  /\ K[q].next = IF q = H[p].prev THEN n ELSE H[q].next
                 /\ K[q].prev = IF q = H[p].next THEN n ELSE H[q].prev
      <4>1. q \in DOMAIN H /\ q # p BY <1>2, <2>1, <3>1 DEF FreeOf
      <4>2. K[q] = [busy |-> H[q].busy, len |-> H[q].len,
                    prev |-> IF q = H[p].next THEN n ELSE H[q].prev,
                    next |-> IF q = H[p].prev THEN n ELSE H[q].next]
        BY <1>3, <4>1 DEF Cut
      <4>3. QED BY <4>2
    <3>2. QED BY <3>1
  <2>3. n \in Nat \ {0} /\ n \notin Within(c) BY <1>4, <1>5, <2>1 DEF FreeOf
  <2>4. K[n].next = H[p].next /\ K[n].prev = H[p].prev BY <1>6
  <2>5. \E d : Ring(K, d) /\ Within(d) = (Within(c) \ {p}) \cup {n}
    BY <2>1, <2>2, <2>3, <2>4, RingReplaced
  <2>6. QED BY <1>9, <2>1, <2>5
<1>12. Marked(K, U)
  <2>1. ASSUME NEW q \in FreeOf(H), q # p
        PROVE  /\ Block(q) = Block(q + K[q].len - 1)
               /\ q + K[q].len - 1 \in DOMAIN U /\ U[q + K[q].len - 1] = K[q].len
               /\ q + K[q].len \in FreeOf(K) => Block(q + K[q].len) # Block(q)
    <3>1. q \in DOMAIN H /\ K[q].len = H[q].len BY <1>6, <2>1 DEF FreeOf
    <3>2. /\ Block(q) = Block(q + H[q].len - 1)
          /\ q + H[q].len - 1 \in DOMAIN T /\ T[q + H[q].len - 1] = H[q].len
          /\ q + H[q].len \in FreeOf(H) => Block(q + H[q].len) # Block(q)
      BY <1>1, <2>1 DEF Marked
    <3>3. q + H[q].len - 1 \notin p .. p + H[p].len - 1 BY <1>1, <1>2, <2>1, <3>1, TailsStay
    <3>4. q + H[q].len - 1 \in DOMAIN U /\ U[q + H[q].len - 1] = H[q].len
      BY <3>2, <3>3 DEF TailsKept
    <3>5. q + H[q].len # n
      <4>1. q < p \/ p < q BY <1>2, <2>1, <3>1
      <4>2. CASE q < p
        <5>1. q + H[q].len <= p BY <1>2, <3>1, <4>2
        <5>2. q + H[q].len \in Nat BY <1>2, <3>1
        <5>3. QED BY <1>4, <5>1, <5>2
      <4>3. CASE p < q
        <5>1. p + l <= q /\ q \in Nat /\ H[q].len \in Nat BY <1>2, <1>3, <3>1, <4>3
        <5>2. QED BY <1>4, <5>1
      <4>4. QED BY <4>1, <4>2, <4>3
    <3>6. QED BY <1>9, <3>1, <3>2, <3>4, <3>5
  <2>2. /\ Block(n) = Block(n + K[n].len - 1)
        /\ n + K[n].len - 1 \in DOMAIN U /\ U[n + K[n].len - 1] = K[n].len
        /\ n + K[n].len \in FreeOf(K) => Block(n + K[n].len) # Block(n)
    <3>1. n + K[n].len - 1 = p + l - 1 /\ n + K[n].len = p + l BY <1>3, <1>4, <1>6
    <3>2. Block(p) = Block(p + l - 1) /\ (p + l \in FreeOf(H) => Block(p + l) # Block(p))
      BY <1>1, <1>3 DEF Marked
    <3>3. p + l - 1 \in Nat /\ p <= n /\ n <= p + l - 1 BY <1>4
    <3>4. Block(n) = Block(p) BY <1>4, <3>2, <3>3, BlockBetween
    <3>5. p + l # n BY <1>4
    <3>6. QED BY <1>3, <1>6, <1>9, <3>1, <3>2, <3>4, <3>5
  <2>3. QED BY <1>9, <2>1, <2>2 DEF Marked
<1>13. \A q \in BusyOf(H) : K[q].len = H[q].len BY <1>2, <1>6 DEF BusyOf
<1>14. u + need = SumOf(LenIn(K), BusyOf(K)) /\ u + need \in Int
  <2>0. BusyWith(H, K, p) BY <1>1, <1>7, <1>10, <1>13 DEF BusyWith
  <2>1. SumOf(LenIn(K), BusyOf(K)) = SumOf(LenIn(H), BusyOf(H)) + K[p].len BY <2>0, BusyMore
  <2>2. QED BY <1>1, <1>6, <2>1
<1>15. TailsTyped(U) BY DEF TailsKept
<1>16. Body(K, U, end, u + need)
  BY <1>1, <1>7, <1>8, <1>11, <1>12, <1>14, <1>15 DEF Body
<1>17. QED BY <1>6, <1>10, <1>13, <1>16

-----------------------------------------------------------------------------
(* A node is freed *)

\* The busy node p becomes a part of a free node at, of length m: the nodes of K are those
\* of H without the ones it swallows.
Joined(H, K, end, p, at, m) ==
    /\ p \in BusyOf(H) /\ at \in DOMAIN K /\ at # 0 /\ 0 \in DOMAIN K
    /\ DOMAIN K \subseteq DOMAIN H /\ \A q \in DOMAIN H \ DOMAIN K : at < q /\ q < at + m
    /\ K = [q \in DOMAIN K |-> K[q]] /\ \A q \in DOMAIN K : K[q] \in HeadSet
    /\ K[at].busy = FALSE /\ K[at].len = m
    /\ \A q \in DOMAIN K : q # at => K[q].busy = H[q].busy /\ K[q].len = H[q].len
    /\ m >= 3 /\ at + m \in DOMAIN K \cup {end} /\ at + m <= end
    /\ \A q \in DOMAIN K : at < q => at + m <= q
    /\ BusyOf(K) = BusyOf(H) \ {p}

\* The new node lies in one block, and next to free nodes of other blocks only.
Bordered(K, at, m) ==
    /\ Block(at) = Block(at + m - 1)
    /\ at + m \in FreeOf(K) => Block(at + m) # Block(at)
    /\ \A q \in FreeOf(K) : q # at /\ q + K[q].len = at => Block(at) # Block(q)

LEMMA BusyLess ==
    ASSUME NEW H, NEW K, NEW p, BusyWith(K, H, p)
    PROVE  /\ SumOf(LenIn(K), BusyOf(K)) = SumOf(LenIn(H), BusyOf(H)) - H[p].len
           /\ H[p].len \in Nat /\ SumOf(LenIn(H), BusyOf(H)) \in Int
<1>1. PICK a, b, l : a = SumOf(LenIn(K), BusyOf(K)) /\ b = SumOf(LenIn(H), BusyOf(H)) /\ l = H[p].len
  OBVIOUS
<1>2. b = a + l /\ l \in Nat /\ a \in Int BY <1>1, BusyMore
<1>3. a = b - l /\ b \in Int BY <1>2
<1>4. QED BY <1>1, <1>2, <1>3

LEMMA JoinedBody ==
    ASSUME NEW H, NEW T, NEW end, NEW u, Body(H, T, end, u), NEW K, NEW p, NEW at, NEW m,
           Joined(H, K, end, p, at, m), Bordered(K, at, m),
           \E d : Ring(K, d) /\ Within(d) = FreeOf(K),
           NEW U, TailsKept(T, U, at, m), at + m - 1 \in DOMAIN U, U[at + m - 1] = m
    PROVE  /\ Body(K, U, end, u - H[p].len) /\ BusyOf(K) = BusyOf(H) \ {p}
           /\ \A q \in BusyOf(K) : K[q].len = H[q].len
<1>1. /\ HeadsTyped(H) /\ end \in Nat /\ u \in Int /\ Tiled(H, end) /\ Marked(H, T)
      /\ u = SumOf(LenIn(H), BusyOf(H))
  BY DEF Body
<1>2. /\ \A q \in DOMAIN H : /\ q \in Nat /\ H[q].busy \in BOOLEAN
                             /\ H[q].len \in Nat /\ H[q].len >= 3 /\ q + H[q].len <= end
                             /\ q + H[q].len \in DOMAIN H \cup {end}
      /\ \A q, r \in DOMAIN H : q < r => q + H[q].len <= r
  BY <1>1, NodesAre
<1>3. /\ p \in BusyOf(H) /\ at \in DOMAIN K /\ at # 0 /\ 0 \in DOMAIN K
      /\ DOMAIN K \subseteq DOMAIN H /\ \A q \in DOMAIN H \ DOMAIN K : at < q /\ q < at + m
      /\ K = [q \in DOMAIN K |-> K[q]] /\ \A q \in DOMAIN K : K[q] \in HeadSet
      /\ K[at].busy = FALSE /\ K[at].len = m
      /\ \A q \in DOMAIN K : q # at => K[q].busy = H[q].busy /\ K[q].len = H[q].len
      /\ m >= 3 /\ at + m \in DOMAIN K \cup {end} /\ at + m <= end
      /\ \A q \in DOMAIN K : at < q => at + m <= q
      /\ BusyOf(K) = BusyOf(H) \ {p}
  BY DEF Joined
<1>4. m \in Nat /\ at \in Nat BY <1>2, <1>3 DEF HeadSet
<1>5. HeadsTyped(K)
  <2>1. DOMAIN K \subseteq Nat BY <1>2, <1>3
  <2>2. IsFiniteSet(DOMAIN H) BY <1>1 DEF HeadsTyped
  <2>3. IsFiniteSet(DOMAIN K) BY <1>3, <2>2, FS_Subset
  <2>4. QED BY <1>3, <2>1, <2>3 DEF HeadsTyped
<1>6. Tiled(K, end)
  <2>1. 0 \in DOMAIN K /\ ~K[0].busy
    <3>1. ~H[0].busy BY <1>1 DEF Tiled, free_head
    <3>2. QED BY <1>3, <3>1
  <2>2. ASSUME NEW q \in DOMAIN K
        PROVE  K[q].len >= 3 /\ q + K[q].len \in DOMAIN K \cup {end} /\ q + K[q].len <= end
    <3>1. CASE q = at BY <1>3, <3>1
    <3>2. CASE q # at
      <4>1. /\ q \in DOMAIN H /\ K[q].len = H[q].len /\ q \in Nat /\ H[q].len \in Nat
            /\ H[q].len >= 3 /\ q + H[q].len <= end /\ q + H[q].len \in DOMAIN H \cup {end}
        BY <1>2, <1>3, <3>2
      <4>2. q + H[q].len \in DOMAIN K \cup {end}
        <5>1. SUFFICES ASSUME q + H[q].len \in DOMAIN H, q + H[q].len \notin DOMAIN K PROVE FALSE
          BY <4>1
        <5>2. PICK r : r = q + H[q].len OBVIOUS
        <5>3. r \in Nat /\ q < r /\ at < r /\ r < at + m BY <1>3, <4>1, <5>1, <5>2
        <5>4. CASE q < at
          <6>1. q + H[q].len <= at BY <1>2, <1>3, <4>1, <5>4
          <6>2. QED BY <1>4, <5>2, <5>3, <6>1
        <5>5. CASE at < q
          <6>1. at + m <= q BY <1>3, <5>5
          <6>2. QED BY <1>4, <4>1, <5>3, <6>1
        <5>6. QED BY <1>4, <3>2, <4>1, <5>4, <5>5
      <4>3. QED BY <4>1, <4>2
    <3>3. QED BY <3>1, <3>2
  <2>3. ASSUME NEW q \in DOMAIN K, NEW r \in DOMAIN K, q < r PROVE q + K[q].len <= r
    <3>1. CASE q = at BY <1>3, <2>3, <3>1
    <3>2. CASE q # at BY <1>2, <1>3, <2>3, <3>2
    <3>3. QED BY <3>1, <3>2
  <2>4. QED BY <2>1, <2>2, <2>3 DEF Tiled, free_head, MIN_NODE_SIZE
<1>7. \A q \in FreeOf(K) : q # at => q \in FreeOf(H)
  BY <1>3 DEF FreeOf, free_head
<1>8. Marked(K, U)
  <2>1. ASSUME NEW q \in FreeOf(K), q # at
        PROVE  /\ Block(q) = Block(q + K[q].len - 1)
               /\ q + K[q].len - 1 \in DOMAIN U /\ U[q + K[q].len - 1] = K[q].len
               /\ q + K[q].len \in FreeOf(K) => Block(q + K[q].len) # Block(q)
    <3>1. q \in FreeOf(H) /\ q \in DOMAIN K /\ K[q].len = H[q].len BY <1>3, <1>7, <2>1 DEF FreeOf
    <3>2. /\ Block(q) = Block(q + H[q].len - 1)
          /\ q + H[q].len - 1 \in DOMAIN T /\ T[q + H[q].len - 1] = H[q].len
          /\ q + H[q].len \in FreeOf(H) => Block(q + H[q].len) # Block(q)
      BY <1>1, <3>1 DEF Marked
    <3>3. q + K[q].len - 1 \notin at .. at + K[at].len - 1
      BY <1>1, <1>3, <1>5, <1>6, <2>1, <3>1, TailsStay
    <3>4. q + H[q].len - 1 \in DOMAIN U /\ U[q + H[q].len - 1] = H[q].len
      BY <1>3, <3>1, <3>2, <3>3 DEF TailsKept
    <3>5. q + K[q].len \in FreeOf(K) => Block(q + K[q].len) # Block(q)
      <4>1. CASE q + K[q].len = at BY <2>1, <4>1 DEF Bordered
      <4>2. CASE q + K[q].len # at BY <1>7, <3>1, <3>2, <4>2
      <4>3. QED BY <4>1, <4>2
    <3>6. QED BY <3>1, <3>2, <3>4, <3>5
  <2>2. /\ Block(at) = Block(at + K[at].len - 1)
        /\ at + K[at].len - 1 \in DOMAIN U /\ U[at + K[at].len - 1] = K[at].len
        /\ at + K[at].len \in FreeOf(K) => Block(at + K[at].len) # Block(at)
    BY <1>3 DEF Bordered
  <2>3. ASSUME NEW q \in FreeOf(K)
        PROVE  /\ Block(q) = Block(q + K[q].len - 1)
               /\ q + K[q].len - 1 \in DOMAIN U /\ U[q + K[q].len - 1] = K[q].len
               /\ q + K[q].len \in FreeOf(K) => Block(q + K[q].len) # Block(q)
    <3>1. CASE q = at BY <2>2, <3>1
    <3>2. CASE q # at BY <2>1, <3>2
    <3>3. QED BY <3>1, <3>2
  <2>4. QED BY <2>3 DEF Marked
<1>9. \A q \in BusyOf(K) : K[q].len = H[q].len BY <1>3 DEF BusyOf
<1>10. u - H[p].len = SumOf(LenIn(K), BusyOf(K)) /\ u - H[p].len \in Int
  <2>0. BusyWith(K, H, p)
    <3>1. p \notin BusyOf(K) /\ BusyOf(H) = BusyOf(K) \cup {p} BY <1>3
    <3>2. QED BY <1>1, <1>5, <1>9, <3>1 DEF BusyWith
  <2>1. SumOf(LenIn(K), BusyOf(K)) = SumOf(LenIn(H), BusyOf(H)) - H[p].len /\ H[p].len \in Nat
    BY <2>0, BusyLess
  <2>2. QED BY <1>1, <2>1
<1>11. TailsTyped(U) BY DEF TailsKept
<1>12. Body(K, U, end, u - H[p].len)
  BY <1>1, <1>5, <1>6, <1>8, <1>10, <1>11 DEF Body
<1>13. QED BY <1>3, <1>9, <1>12

\* What is known of a busy node p that is freed.
FreeingAt(H, T, end, u, p) == Body(H, T, end, u) /\ p \in BusyOf(H)

FreeingFacts(H, end, p) ==
    /\ end \in Nat /\ p \in DOMAIN H /\ p # 0 /\ H[p].busy = TRUE /\ 0 \in DOMAIN H
    /\ \A q \in DOMAIN H : /\ q \in Nat /\ H[q].busy \in BOOLEAN
                           /\ H[q].len \in Nat /\ H[q].prev \in Nat /\ H[q].next \in Nat
                           /\ H[q].len >= 3 /\ q + H[q].len <= end
                           /\ q + H[q].len \in DOMAIN H \cup {end}
    /\ \A q, r \in DOMAIN H : q < r => q + H[q].len <= r
    /\ \A q : q \in FreeOf(H) <=> q \in DOMAIN H /\ q # 0 /\ H[q].busy = FALSE
    /\ \A q : q \in BusyOf(H) <=> q \in DOMAIN H /\ H[q].busy = TRUE
    /\ H[0].busy = FALSE /\ H[0].prev # p

LEMMA FreeingIs ==
    ASSUME NEW H, NEW T, NEW end, NEW u, NEW p, FreeingAt(H, T, end, u, p)
    PROVE  FreeingFacts(H, end, p) /\ \E c : Ring(H, c) /\ Within(c) = FreeOf(H)
<1>1. HeadsTyped(H) /\ end \in Nat /\ Tiled(H, end) /\ p \in BusyOf(H) BY DEF FreeingAt, Body
<1>2. /\ 0 \in DOMAIN H /\ 0 \notin BusyOf(H)
      /\ \A q \in DOMAIN H : /\ q \in Nat /\ H[q].busy \in BOOLEAN
                             /\ H[q].len \in Nat /\ H[q].prev \in Nat /\ H[q].next \in Nat
                             /\ H[q].len >= 3 /\ q + H[q].len <= end
                             /\ q + H[q].len \in DOMAIN H \cup {end}
      /\ \A q, r \in DOMAIN H : q < r => q + H[q].len <= r
  BY <1>1, NodesAre
<1>3. /\ \A q : q \in FreeOf(H) <=> q \in DOMAIN H /\ q # 0 /\ H[q].busy = FALSE
      /\ \A q : q \in BusyOf(H) <=> q \in DOMAIN H /\ H[q].busy = TRUE
  BY <1>2 DEF FreeOf, BusyOf, free_head
<1>4. PICK c : Ring(H, c) /\ Within(c) = FreeOf(H) BY DEF FreeingAt, Body
<1>5. H[0].prev # p
  <2>1. H[0].prev = Linked(c, Len(c)) /\ Len(c) \in Nat BY <1>4, RingIs
  <2>2. Linked(c, Len(c)) \in Within(c) \cup {0}
    <3>1. Len(c) \in 0 .. Len(c) + 1 BY <2>1
    <3>2. QED BY <1>4, <3>1, RingIs
  <2>3. QED BY <1>1, <1>2, <1>3, <1>4, <2>1, <2>2
<1>6. H[0].busy = FALSE BY <1>2, <1>3
<1>7. QED BY <1>1, <1>2, <1>3, <1>4, <1>5, <1>6 DEF FreeingFacts

\* The links of the list that no free node is left out of.
FreedLast(H, K, p) ==
    /\ K = [q \in DOMAIN H |-> K[q]]
    /\ K[p] = [busy |-> FALSE, len |-> H[p].len, prev |-> H[0].prev, next |-> 0]
    /\ \A q \in DOMAIN H \ {p} :
          K[q] = [busy |-> H[q].busy, len |-> H[q].len,
                  prev |-> IF q = 0 THEN p ELSE H[q].prev,
                  next |-> IF q = H[0].prev THEN p ELSE H[q].next]

LEMMA DomainIs ==
    ASSUME NEW K, NEW S, K = [q \in S |-> K[q]]
    PROVE  DOMAIN K = S /\ K = [q \in DOMAIN K |-> K[q]]
<1>1. PICK f : f = [q \in S |-> K[q]] OBVIOUS
<1>2. DOMAIN f = S BY <1>1
<1>3. QED BY <1>1, <1>2

LEMMA FreedLastJoins ==
    ASSUME NEW H, NEW T, NEW end, NEW u, NEW p, FreeingAt(H, T, end, u, p),
           NEW K, FreedLast(H, K, p)
    PROVE  /\ Joined(H, K, end, p, p, H[p].len) /\ FreeOf(K) = FreeOf(H) \cup {p}
           /\ \E d : Ring(K, d) /\ Within(d) = FreeOf(K)
           /\ \A q \in DOMAIN K : q # p => K[q].len = H[q].len
<1>01. FreeingFacts(H, end, p) BY FreeingIs
<1>1. /\ end \in Nat /\ p \in DOMAIN H /\ p # 0 /\ H[p].busy = TRUE /\ 0 \in DOMAIN H
      /\ \A q \in DOMAIN H : /\ q \in Nat /\ H[q].busy \in BOOLEAN
                             /\ H[q].len \in Nat /\ H[q].prev \in Nat /\ H[q].next \in Nat
                             /\ H[q].len >= 3 /\ q + H[q].len <= end
                             /\ q + H[q].len \in DOMAIN H \cup {end}
      /\ \A q, r \in DOMAIN H : q < r => q + H[q].len <= r
      /\ \A q : q \in FreeOf(H) <=> q \in DOMAIN H /\ q # 0 /\ H[q].busy = FALSE
      /\ \A q : q \in BusyOf(H) <=> q \in DOMAIN H /\ H[q].busy = TRUE
      /\ H[0].busy = FALSE /\ H[0].prev # p
  BY <1>01 DEF FreeingFacts
<1>2. PICK c : Ring(H, c) /\ Within(c) = FreeOf(H) BY FreeingIs
<1>3. DOMAIN K = DOMAIN H /\ K = [q \in DOMAIN K |-> K[q]]
  <2>1. K = [q \in DOMAIN H |-> K[q]] BY DEF FreedLast
  <2>2. QED BY <2>1, DomainIs
<1>4. /\ K[p] \in HeadSet /\ K[p].busy = FALSE /\ K[p].len = H[p].len
      /\ K[p].next = 0 /\ K[p].prev = H[0].prev
  <2>1. K[p] = [busy |-> FALSE, len |-> H[p].len, prev |-> H[0].prev, next |-> 0] BY DEF FreedLast
  <2>2. H[p].len \in Nat /\ H[0].prev \in Nat BY <1>1
  <2>3. QED BY <2>1, <2>2 DEF HeadSet
<1>5. ASSUME NEW q \in DOMAIN H, q # p
      PROVE  /\ K[q] \in HeadSet /\ K[q].busy = H[q].busy /\ K[q].len = H[q].len
             /\ K[q].prev = IF q = 0 THEN p ELSE H[q].prev
             /\ K[q].next = IF q = H[0].prev THEN p ELSE H[q].next
  <2>1. K[q] = [busy |-> H[q].busy, len |-> H[q].len,
                prev |-> IF q = 0 THEN p ELSE H[q].prev,
                next |-> IF q = H[0].prev THEN p ELSE H[q].next]
    BY <1>5 DEF FreedLast
  <2>2. p \in Nat BY <1>1
  <2>3. QED BY <1>1, <2>1, <2>2 DEF HeadSet
<1>6. FreeOf(K) = FreeOf(H) \cup {p}
  <2>1. \A q : q \in FreeOf(K) <=> q \in FreeOf(H) \cup {p}
    BY <1>1, <1>3, <1>4, <1>5 DEF FreeOf, free_head
  <2>2. QED BY <2>1
<1>7. BusyOf(K) = BusyOf(H) \ {p}
  <2>1. \A q : q \in BusyOf(K) <=> q \in BusyOf(H) \ {p} BY <1>1, <1>3, <1>4, <1>5 DEF BusyOf
  <2>2. QED BY <2>1
<1>8. \E d : Ring(K, d) /\ Within(d) = FreeOf(K)
  <2>1. p \in Nat \ {0} /\ p \notin Within(c) BY <1>1, <1>2
  <2>2. \A q \in Within(c) \cup {0} :
           /\ K[q].next = IF q = H[0].prev THEN p ELSE H[q].next
           /\ K[q].prev = IF q = 0 THEN p ELSE H[q].prev
    BY <1>1, <1>2, <1>5
  <2>3. \E d : Ring(K, d) /\ Within(d) = Within(c) \cup {p}
    BY <1>2, <1>4, <2>1, <2>2, RingMore
  <2>4. QED BY <1>2, <1>6, <2>3
<1>9. Joined(H, K, end, p, p, H[p].len)
  <2>1. \A q \in DOMAIN K : K[q] \in HeadSet BY <1>3, <1>4, <1>5
  <2>2. \A q \in DOMAIN K : q # p => K[q].busy = H[q].busy /\ K[q].len = H[q].len BY <1>3, <1>5
  <2>3. p \in BusyOf(H) BY <1>1
  <2>4. H[p].len >= 3 /\ p + H[p].len \in DOMAIN K \cup {end} /\ p + H[p].len <= end BY <1>1, <1>3
  <2>5. \A q \in DOMAIN K : p < q => p + H[p].len <= q BY <1>1, <1>3
  <2>6. QED BY <1>1, <1>3, <1>4, <1>7, <2>1, <2>2, <2>3, <2>4, <2>5 DEF Joined
<1>10. QED BY <1>3, <1>5, <1>6, <1>8, <1>9

\* The free node n behind p is joined to it, and p takes its place in the list.
FreedNext(H, K, p, n) ==
    /\ n = p + H[p].len /\ n \in FreeOf(H) /\ K = [q \in DOMAIN H \ {n} |-> K[q]]
    /\ K[p] = [busy |-> FALSE, len |-> H[p].len + H[n].len, prev |-> H[n].prev, next |-> H[n].next]
    /\ \A q \in DOMAIN H \ {p, n} :
          K[q] = [busy |-> H[q].busy, len |-> H[q].len,
                  prev |-> IF q = H[n].next THEN p ELSE H[q].prev,
                  next |-> IF q = H[n].prev THEN p ELSE H[q].next]

LEMMA FreedNextJoins ==
    ASSUME NEW H, NEW T, NEW end, NEW u, NEW p, FreeingAt(H, T, end, u, p),
           NEW K, NEW n, FreedNext(H, K, p, n)
    PROVE  /\ Joined(H, K, end, p, p, H[p].len + H[n].len)
           /\ FreeOf(K) = (FreeOf(H) \ {n}) \cup {p}
           /\ \E d : Ring(K, d) /\ Within(d) = FreeOf(K)
           /\ \A q \in DOMAIN K : q # p => K[q].len = H[q].len
<1>01. FreeingFacts(H, end, p) BY FreeingIs
<1>1. /\ end \in Nat /\ p \in DOMAIN H /\ p # 0 /\ H[p].busy = TRUE /\ 0 \in DOMAIN H
      /\ \A q \in DOMAIN H : /\ q \in Nat /\ H[q].busy \in BOOLEAN
                             /\ H[q].len \in Nat /\ H[q].prev \in Nat /\ H[q].next \in Nat
                             /\ H[q].len >= 3 /\ q + H[q].len <= end
                             /\ q + H[q].len \in DOMAIN H \cup {end}
      /\ \A q, x \in DOMAIN H : q < x => q + H[q].len <= x
      /\ \A q : q \in FreeOf(H) <=> q \in DOMAIN H /\ q # 0 /\ H[q].busy = FALSE
      /\ \A q : q \in BusyOf(H) <=> q \in DOMAIN H /\ H[q].busy = TRUE
      /\ H[0].busy = FALSE
  BY <1>01 DEF FreeingFacts
<1>2. PICK c : Ring(H, c) /\ Within(c) = FreeOf(H) BY FreeingIs
<1>3. n = p + H[p].len /\ n \in FreeOf(H) /\ n \in DOMAIN H /\ n # 0 /\ H[n].busy = FALSE
      /\ n # p
  BY <1>1 DEF FreedNext
<1>4. DOMAIN K = DOMAIN H \ {n} /\ K = [q \in DOMAIN K |-> K[q]]
  <2>1. K = [q \in DOMAIN H \ {n} |-> K[q]] BY DEF FreedNext
  <2>2. QED BY <2>1, DomainIs
<1>5. /\ K[p] \in HeadSet /\ K[p].busy = FALSE /\ K[p].len = H[p].len + H[n].len
      /\ K[p].next = H[n].next /\ K[p].prev = H[n].prev
  <2>1. K[p] = [busy |-> FALSE, len |-> H[p].len + H[n].len, prev |-> H[n].prev, next |-> H[n].next]
    BY DEF FreedNext
  <2>2. H[p].len + H[n].len \in Nat /\ H[n].prev \in Nat /\ H[n].next \in Nat BY <1>1, <1>3
  <2>3. QED BY <2>1, <2>2 DEF HeadSet
<1>6. ASSUME NEW q \in DOMAIN H, q # p, q # n
      PROVE  /\ K[q] \in HeadSet /\ K[q].busy = H[q].busy /\ K[q].len = H[q].len
             /\ K[q].prev = IF q = H[n].next THEN p ELSE H[q].prev
             /\ K[q].next = IF q = H[n].prev THEN p ELSE H[q].next
  <2>1. K[q] = [busy |-> H[q].busy, len |-> H[q].len,
                prev |-> IF q = H[n].next THEN p ELSE H[q].prev,
                next |-> IF q = H[n].prev THEN p ELSE H[q].next]
    BY <1>6 DEF FreedNext
  <2>2. p \in Nat BY <1>1
  <2>3. QED BY <1>1, <2>1, <2>2 DEF HeadSet
<1>7. FreeOf(K) = (FreeOf(H) \ {n}) \cup {p}
  <2>1. \A q : q \in FreeOf(K) <=> q \in (FreeOf(H) \ {n}) \cup {p}
    BY <1>1, <1>3, <1>4, <1>5, <1>6 DEF FreeOf, free_head
  <2>2. QED BY <2>1
<1>8. BusyOf(K) = BusyOf(H) \ {p}
  <2>1. \A q : q \in BusyOf(K) <=> q \in BusyOf(H) \ {p}
    BY <1>1, <1>3, <1>4, <1>5, <1>6 DEF BusyOf
  <2>2. QED BY <2>1
<1>9. \E d : Ring(K, d) /\ Within(d) = FreeOf(K)
  <2>1. p \in Nat \ {0} /\ p \notin Within(c) /\ n \in Within(c) BY <1>1, <1>2, <1>3
  <2>2. \A q \in (Within(c) \cup {0}) \ {n} :
           /\ K[q].next = IF q = H[n].prev THEN p ELSE H[q].next
           /\ K[q].prev = IF q = H[n].next THEN p ELSE H[q].prev
    <3>1. ASSUME NEW q \in (Within(c) \cup {0}) \ {n} PROVE q \in DOMAIN H /\ q # p /\ q # n
      BY <1>1, <1>2, <3>1
    <3>2. QED BY <1>6, <3>1
  <2>3. \E d : Ring(K, d) /\ Within(d) = (Within(c) \ {n}) \cup {p}
    BY <1>2, <1>5, <2>1, <2>2, RingReplaced
  <2>4. QED BY <1>2, <1>7, <2>3
<1>10. Joined(H, K, end, p, p, H[p].len + H[n].len)
  <2>1. \A q \in DOMAIN K : K[q] \in HeadSet BY <1>4, <1>5, <1>6
  <2>2. \A q \in DOMAIN K : q # p => K[q].busy = H[q].busy /\ K[q].len = H[q].len BY <1>4, <1>6
  <2>3. p \in BusyOf(H) BY <1>1
  <2>4. PICK m : m = H[p].len + H[n].len OBVIOUS
  <2>5. /\ m \in Nat /\ p + m = n + H[n].len /\ m >= 3 /\ n < p + m /\ p < n
        /\ p \in Nat /\ n \in Nat /\ H[n].len \in Nat
    BY <1>1, <1>3, <2>4
  <2>6. p + m \in DOMAIN K \cup {end} /\ p + m <= end BY <1>1, <1>3, <1>4, <2>5
  <2>7. \A q \in DOMAIN K : p < q => p + m <= q
    <3>1. ASSUME NEW q \in DOMAIN K, p < q PROVE p + m <= q
      <4>1. q \in DOMAIN H /\ q # n /\ n <= q /\ q \in Nat BY <1>1, <1>3, <1>4, <3>1
      <4>2. n < q BY <2>5, <4>1
      <4>3. QED BY <1>1, <1>3, <2>5, <4>1, <4>2
    <3>2. QED BY <3>1
  <2>8. \A q \in DOMAIN H \ DOMAIN K : p < q /\ q < p + m BY <1>4, <2>5
  <2>9. DOMAIN K \subseteq DOMAIN H /\ p \in DOMAIN K /\ 0 \in DOMAIN K BY <1>1, <1>3, <1>4
  <2>10. Joined(H, K, end, p, p, m)
    BY <1>1, <1>4, <1>5, <1>8, <2>1, <2>2, <2>3, <2>4, <2>5, <2>6, <2>7, <2>8, <2>9 DEF Joined
  <2>11. QED BY <2>4, <2>10
<1>11. QED BY <1>4, <1>6, <1>7, <1>9, <1>10

\* p is joined to the free node r in front of it.
FreedPrev(H, K, p, r) ==
    /\ r \in FreeOf(H) /\ r + H[r].len = p /\ K = [q \in DOMAIN H \ {p} |-> K[q]]
    /\ K[r] = [busy |-> FALSE, len |-> H[r].len + H[p].len, prev |-> H[r].prev, next |-> H[r].next]
    /\ \A q \in DOMAIN H \ {p, r} : K[q] = H[q]

LEMMA FreedPrevJoins ==
    ASSUME NEW H, NEW T, NEW end, NEW u, NEW p, FreeingAt(H, T, end, u, p),
           NEW K, NEW r, FreedPrev(H, K, p, r)
    PROVE  /\ Joined(H, K, end, p, r, H[r].len + H[p].len) /\ FreeOf(K) = FreeOf(H)
           /\ \E d : Ring(K, d) /\ Within(d) = FreeOf(K)
           /\ \A q \in DOMAIN K : q # r => K[q].len = H[q].len
<1>01. FreeingFacts(H, end, p) BY FreeingIs
<1>1. /\ end \in Nat /\ p \in DOMAIN H /\ p # 0 /\ H[p].busy = TRUE /\ 0 \in DOMAIN H
      /\ \A q \in DOMAIN H : /\ q \in Nat /\ H[q].busy \in BOOLEAN
                             /\ H[q].len \in Nat /\ H[q].prev \in Nat /\ H[q].next \in Nat
                             /\ H[q].len >= 3 /\ q + H[q].len <= end
                             /\ q + H[q].len \in DOMAIN H \cup {end}
      /\ \A q, x \in DOMAIN H : q < x => q + H[q].len <= x
      /\ \A q : q \in FreeOf(H) <=> q \in DOMAIN H /\ q # 0 /\ H[q].busy = FALSE
      /\ \A q : q \in BusyOf(H) <=> q \in DOMAIN H /\ H[q].busy = TRUE
      /\ H[0].busy = FALSE
  BY <1>01 DEF FreeingFacts
<1>2. PICK c : Ring(H, c) /\ Within(c) = FreeOf(H) BY FreeingIs
<1>3. p = r + H[r].len /\ r \in DOMAIN H /\ r # 0 /\ H[r].busy = FALSE /\ r # p
  BY <1>1 DEF FreedPrev
<1>4. DOMAIN K = DOMAIN H \ {p} /\ K = [q \in DOMAIN K |-> K[q]]
  <2>1. K = [q \in DOMAIN H \ {p} |-> K[q]] BY DEF FreedPrev
  <2>2. QED BY <2>1, DomainIs
<1>5. /\ K[r] \in HeadSet /\ K[r].busy = FALSE /\ K[r].len = H[r].len + H[p].len
      /\ K[r].next = H[r].next /\ K[r].prev = H[r].prev
  <2>1. K[r] = [busy |-> FALSE, len |-> H[r].len + H[p].len, prev |-> H[r].prev, next |-> H[r].next]
    BY DEF FreedPrev
  <2>2. H[r].len + H[p].len \in Nat /\ H[r].prev \in Nat /\ H[r].next \in Nat BY <1>1, <1>3
  <2>3. QED BY <2>1, <2>2 DEF HeadSet
<1>6. ASSUME NEW q \in DOMAIN H, q # p, q # r
      PROVE  /\ K[q] \in HeadSet /\ K[q].busy = H[q].busy /\ K[q].len = H[q].len
             /\ K[q].prev = H[q].prev /\ K[q].next = H[q].next
  <2>1. K[q] = H[q] BY <1>6 DEF FreedPrev
  <2>2. H[q] \in HeadSet
    <3>1. HeadsTyped(H) BY DEF FreeingAt, Body
    <3>2. QED BY <3>1 DEF HeadsTyped
  <2>3. QED BY <2>1, <2>2
<1>7. FreeOf(K) = FreeOf(H)
  <2>1. \A q : q \in FreeOf(K) <=> q \in FreeOf(H)
    BY <1>1, <1>3, <1>4, <1>5, <1>6 DEF FreeOf, free_head
  <2>2. QED BY <2>1
<1>8. BusyOf(K) = BusyOf(H) \ {p}
  <2>1. \A q : q \in BusyOf(K) <=> q \in BusyOf(H) \ {p}
    BY <1>1, <1>3, <1>4, <1>5, <1>6 DEF BusyOf
  <2>2. QED BY <2>1
<1>9. \E d : Ring(K, d) /\ Within(d) = FreeOf(K)
  <2>1. \A q \in Within(c) \cup {0} : K[q].next = H[q].next /\ K[q].prev = H[q].prev
    <3>1. ASSUME NEW q \in Within(c) \cup {0} PROVE K[q].next = H[q].next /\ K[q].prev = H[q].prev
      <4>1. q \in DOMAIN H /\ q # p BY <1>1, <1>2, <3>1
      <4>2. CASE q = r BY <1>5, <4>2
      <4>3. CASE q # r BY <1>6, <4>1, <4>3
      <4>4. QED BY <4>2, <4>3
    <3>2. QED BY <3>1
  <2>2. Ring(K, c) BY <1>2, <2>1, RingSame
  <2>3. QED BY <1>2, <1>7, <2>2
<1>10. Joined(H, K, end, p, r, H[r].len + H[p].len)
  <2>1. \A q \in DOMAIN K : K[q] \in HeadSet BY <1>4, <1>5, <1>6
  <2>2. \A q \in DOMAIN K : q # r => K[q].busy = H[q].busy /\ K[q].len = H[q].len BY <1>4, <1>6
  <2>3. p \in BusyOf(H) BY <1>1
  <2>4. PICK m : m = H[r].len + H[p].len OBVIOUS
  <2>5. /\ m \in Nat /\ r + m = p + H[p].len /\ m >= 3 /\ p < r + m /\ r < p
        /\ p \in Nat /\ r \in Nat /\ H[p].len \in Nat
    BY <1>1, <1>3, <2>4
  <2>6. r + m \in DOMAIN K \cup {end} /\ r + m <= end BY <1>1, <1>3, <1>4, <2>5
  <2>7. \A q \in DOMAIN K : r < q => r + m <= q
    <3>1. ASSUME NEW q \in DOMAIN K, r < q PROVE r + m <= q
      <4>1. q \in DOMAIN H /\ q # p /\ p <= q /\ q \in Nat BY <1>1, <1>3, <1>4, <3>1
      <4>2. p < q BY <2>5, <4>1
      <4>3. QED BY <1>1, <1>3, <2>5, <4>1, <4>2
    <3>2. QED BY <3>1
  <2>8. \A q \in DOMAIN H \ DOMAIN K : r < q /\ q < r + m BY <1>4, <2>5
  <2>9. DOMAIN K \subseteq DOMAIN H /\ r \in DOMAIN K /\ 0 \in DOMAIN K BY <1>1, <1>3, <1>4
  <2>10. Joined(H, K, end, p, r, m)
    BY <1>3, <1>4, <1>5, <1>8, <2>1, <2>2, <2>3, <2>4, <2>5, <2>6, <2>7, <2>8, <2>9 DEF Joined
  <2>11. QED BY <2>4, <2>10
<1>11. QED BY <1>4, <1>6, <1>7, <1>9, <1>10

\* p is joined to both, and the one behind leaves the list.
FreedBoth(H, K, p, r, n) ==
    /\ r \in FreeOf(H) /\ r + H[r].len = p /\ n = p + H[p].len /\ n \in FreeOf(H)
    /\ K = [q \in DOMAIN H \ {p, n} |-> K[q]]
    /\ K[r] = [busy |-> FALSE, len |-> H[r].len + H[p].len + H[n].len,
               prev |-> IF r = H[n].next THEN H[n].prev ELSE H[r].prev,
               next |-> IF r = H[n].prev THEN H[n].next ELSE H[r].next]
    /\ \A q \in DOMAIN H \ {p, n, r} :
          K[q] = [busy |-> H[q].busy, len |-> H[q].len,
                  prev |-> IF q = H[n].next THEN H[n].prev ELSE H[q].prev,
                  next |-> IF q = H[n].prev THEN H[n].next ELSE H[q].next]

LEMMA FreedBothJoins ==
    ASSUME NEW H, NEW T, NEW end, NEW u, NEW p, FreeingAt(H, T, end, u, p),
           NEW K, NEW r, NEW n, FreedBoth(H, K, p, r, n)
    PROVE  /\ Joined(H, K, end, p, r, H[r].len + H[p].len + H[n].len)
           /\ FreeOf(K) = FreeOf(H) \ {n}
           /\ \E d : Ring(K, d) /\ Within(d) = FreeOf(K)
           /\ \A q \in DOMAIN K : q # r => K[q].len = H[q].len
<1>01. FreeingFacts(H, end, p) BY FreeingIs
<1>1. /\ end \in Nat /\ p \in DOMAIN H /\ p # 0 /\ H[p].busy = TRUE /\ 0 \in DOMAIN H
      /\ \A q \in DOMAIN H : /\ q \in Nat /\ H[q].busy \in BOOLEAN
                             /\ H[q].len \in Nat /\ H[q].prev \in Nat /\ H[q].next \in Nat
                             /\ H[q].len >= 3 /\ q + H[q].len <= end
                             /\ q + H[q].len \in DOMAIN H \cup {end}
      /\ \A q, x \in DOMAIN H : q < x => q + H[q].len <= x
      /\ \A q : q \in FreeOf(H) <=> q \in DOMAIN H /\ q # 0 /\ H[q].busy = FALSE
      /\ \A q : q \in BusyOf(H) <=> q \in DOMAIN H /\ H[q].busy = TRUE
      /\ H[0].busy = FALSE
  BY <1>01 DEF FreeingFacts
<1>2. PICK c : Ring(H, c) /\ Within(c) = FreeOf(H) BY FreeingIs
<1>3. /\ p = r + H[r].len /\ r \in DOMAIN H /\ r # 0 /\ H[r].busy = FALSE /\ r # p
      /\ n = p + H[p].len /\ n \in DOMAIN H /\ n # 0 /\ H[n].busy = FALSE /\ n # p
      /\ n \in FreeOf(H)
  BY <1>1 DEF FreedBoth
<1>03. r # n BY <1>1, <1>3
<1>4. DOMAIN K = DOMAIN H \ {p, n} /\ K = [q \in DOMAIN K |-> K[q]]
  <2>1. K = [q \in DOMAIN H \ {p, n} |-> K[q]] BY DEF FreedBoth
  <2>2. QED BY <2>1, DomainIs
<1>5. /\ K[r] \in HeadSet /\ K[r].busy = FALSE /\ K[r].len = H[r].len + H[p].len + H[n].len
      /\ K[r].prev = IF r = H[n].next THEN H[n].prev ELSE H[r].prev
      /\ K[r].next = IF r = H[n].prev THEN H[n].next ELSE H[r].next
  <2>1. K[r] = [busy |-> FALSE, len |-> H[r].len + H[p].len + H[n].len,
                prev |-> IF r = H[n].next THEN H[n].prev ELSE H[r].prev,
                next |-> IF r = H[n].prev THEN H[n].next ELSE H[r].next]
    BY DEF FreedBoth
  <2>2. /\ H[r].len + H[p].len + H[n].len \in Nat /\ H[r].prev \in Nat /\ H[r].next \in Nat
        /\ H[n].prev \in Nat /\ H[n].next \in Nat
    BY <1>1, <1>3
  <2>3. QED BY <2>1, <2>2 DEF HeadSet
<1>6. ASSUME NEW q \in DOMAIN H, q # p, q # r, q # n
      PROVE  /\ K[q] \in HeadSet /\ K[q].busy = H[q].busy /\ K[q].len = H[q].len
             /\ K[q].prev = IF q = H[n].next THEN H[n].prev ELSE H[q].prev
             /\ K[q].next = IF q = H[n].prev THEN H[n].next ELSE H[q].next
  <2>1. K[q] = [busy |-> H[q].busy, len |-> H[q].len,
                prev |-> IF q = H[n].next THEN H[n].prev ELSE H[q].prev,
                next |-> IF q = H[n].prev THEN H[n].next ELSE H[q].next]
    BY <1>6 DEF FreedBoth
  <2>2. H[n].prev \in Nat /\ H[n].next \in Nat BY <1>1, <1>3
  <2>3. QED BY <1>1, <2>1, <2>2 DEF HeadSet
<1>7. FreeOf(K) = FreeOf(H) \ {n}
  <2>1. \A q : q \in FreeOf(K) <=> q \in FreeOf(H) \ {n}
    BY <1>1, <1>3, <1>03, <1>4, <1>5, <1>6 DEF FreeOf, free_head
  <2>2. QED BY <2>1
<1>8. BusyOf(K) = BusyOf(H) \ {p}
  <2>1. \A q : q \in BusyOf(K) <=> q \in BusyOf(H) \ {p}
    BY <1>1, <1>3, <1>03, <1>4, <1>5, <1>6 DEF BusyOf
  <2>2. QED BY <2>1
<1>9. \E d : Ring(K, d) /\ Within(d) = FreeOf(K)
  <2>1. \A q \in (Within(c) \cup {0}) \ {n} :
           /\ K[q].next = IF q = H[n].prev THEN H[n].next ELSE H[q].next
           /\ K[q].prev = IF q = H[n].next THEN H[n].prev ELSE H[q].prev
    <3>1. ASSUME NEW q \in (Within(c) \cup {0}) \ {n}
          PROVE  /\ K[q].next = IF q = H[n].prev THEN H[n].next ELSE H[q].next
                 /\ K[q].prev = IF q = H[n].next THEN H[n].prev ELSE H[q].prev
      <4>1. q \in DOMAIN H /\ q # p /\ q # n BY <1>1, <1>2, <3>1
      <4>2. CASE q = r BY <1>5, <4>2
      <4>3. CASE q # r BY <1>6, <4>1, <4>3
      <4>4. QED BY <4>2, <4>3
    <3>2. QED BY <3>1
  <2>2. n \in Within(c) BY <1>2, <1>3
  <2>3. \E d : Ring(K, d) /\ Within(d) = Within(c) \ {n} BY <1>2, <2>1, <2>2, RingLess
  <2>4. QED BY <1>2, <1>7, <2>3
<1>10. Joined(H, K, end, p, r, H[r].len + H[p].len + H[n].len)
  <2>1. \A q \in DOMAIN K : K[q] \in HeadSet BY <1>4, <1>5, <1>6
  <2>2. \A q \in DOMAIN K : q # r => K[q].busy = H[q].busy /\ K[q].len = H[q].len BY <1>4, <1>6
  <2>3. p \in BusyOf(H) BY <1>1
  <2>4. PICK m : m = H[r].len + H[p].len + H[n].len OBVIOUS
  <2>5. /\ m \in Nat /\ r + m = n + H[n].len /\ m >= 3 /\ n < r + m /\ p < n /\ r < p
        /\ p \in Nat /\ r \in Nat /\ n \in Nat /\ H[n].len \in Nat
    BY <1>1, <1>3, <2>4
  <2>6. r + m \in DOMAIN K \cup {end} /\ r + m <= end
    <3>1. n + H[n].len \in DOMAIN H \cup {end} /\ n + H[n].len <= end BY <1>1, <1>3
    <3>2. QED BY <1>4, <2>5, <3>1
  <2>7. \A q \in DOMAIN K : r < q => r + m <= q
    <3>1. ASSUME NEW q \in DOMAIN K, r < q PROVE r + m <= q
      <4>1. q \in DOMAIN H /\ q # p /\ q # n /\ p <= q /\ q \in Nat BY <1>1, <1>3, <1>4, <3>1
      <4>2. p < q BY <2>5, <4>1
      <4>3. n <= q BY <1>1, <1>3, <4>1, <4>2
      <4>4. n < q BY <2>5, <4>1, <4>3
      <4>5. QED BY <1>1, <1>3, <2>5, <4>1, <4>4
    <3>2. QED BY <3>1
  <2>8. \A q \in DOMAIN H \ DOMAIN K : r < q /\ q < r + m
    <3>1. p < r + m /\ r < n BY <2>5
    <3>2. QED BY <1>4, <2>5, <3>1
  <2>9. DOMAIN K \subseteq DOMAIN H /\ r \in DOMAIN K /\ 0 \in DOMAIN K BY <1>1, <1>3, <1>03, <1>4
  <2>10. Joined(H, K, end, p, r, m)
    BY <1>3, <1>4, <1>5, <1>8, <2>1, <2>2, <2>3, <2>4, <2>5, <2>6, <2>7, <2>8, <2>9 DEF Joined
  <2>11. QED BY <2>4, <2>10
<1>11. QED BY <1>4, <1>6, <1>7, <1>9, <1>10

-----------------------------------------------------------------------------
(* Trunks *)

Trunk(id, base, t_total, u, H, T) ==
    [id |-> id, base |-> base, total |-> t_total, used |-> u, heads |-> H, tails |-> T]

TrunkOK(t) ==
    /\ t = Trunk(t.id, t.base, t.total, t.used, t.heads, t.tails)
    /\ t.total \in Nat /\ Body(t.heads, t.tails, t.total + MIN_NODE_SIZE, t.used)

\* What the invariant says in the words of the module.
LEMMA TrunkIsSound ==
    ASSUME NEW t, TrunkOK(t)
    PROVE  /\ Sound(t) /\ Free(t) = FreeOf(t.heads) /\ Busy(t) = BusyOf(t.heads)
           /\ Listed(t) = Free(t) /\ IsFiniteSet(Nodes(t))
           /\ DOMAIN FreeList(t) \subseteq Nat /\ Nodes(t) = DOMAIN t.heads
<1>1. PICK H, T, end : H = t.heads /\ T = t.tails /\ end = t.total + MIN_NODE_SIZE OBVIOUS
<1>2. /\ HeadsTyped(H) /\ end \in Nat /\ Tiled(H, end) /\ Marked(H, T)
      /\ t.used = SumOf(LenIn(H), BusyOf(H))
  BY <1>1 DEF TrunkOK, Body
<1>3. PICK c : Ring(H, c) /\ Within(c) = FreeOf(H) BY <1>1 DEF TrunkOK, Body
<1>4. Nodes(t) = DOMAIN H /\ Free(t) = FreeOf(H) /\ Busy(t) = BusyOf(H)
  BY <1>1 DEF Nodes, Free, Busy, FreeOf, BusyOf
<1>5. FreeOf(H) \subseteq DOMAIN H /\ BusyOf(H) \subseteq DOMAIN H BY DEF FreeOf, BusyOf
<1>6. IsFiniteSet(DOMAIN H) BY <1>2 DEF HeadsTyped
<1>7. Listed(t) = Within(c) /\ DOMAIN FreeList(t) \subseteq Nat
  BY <1>1, <1>3, <1>5, <1>6, FreeListIs
<1>8. /\ \A p \in Nodes(t) : p + t.heads[p].len \in Nodes(t) \cup {t.total + MIN_NODE_SIZE}
      /\ \A p, q \in Nodes(t) : p < q => p + t.heads[p].len <= q
  BY <1>1, <1>2, <1>4 DEF Tiled
<1>9. \A p \in Free(t) \cup {free_head} : t.heads[t.heads[p].next].prev = p
  <2>1. ASSUME NEW p \in Free(t) \cup {free_head} PROVE t.heads[t.heads[p].next].prev = p
    <3>1. PICK k : k \in 0 .. Len(c) /\ Linked(c, k) = p
      <4>1. CASE p = free_head
        <5>1. 0 \in 0 .. Len(c) /\ Linked(c, 0) = free_head
          <6>1. Len(c) \in Nat BY <1>3, RingIs
          <6>2. QED BY <6>1 DEF Linked
        <5>2. QED BY <4>1, <5>1
      <4>2. CASE p # free_head
        <5>1. p \in Within(c) BY <1>3, <1>4, <2>1, <4>2
        <5>2. PICK k \in 1 .. Len(c) : c[k] = p BY <5>1 DEF Within
        <5>3. k \in 0 .. Len(c) /\ Linked(c, k) = p BY <5>2 DEF Linked
        <5>4. QED BY <5>3
      <4>3. QED BY <4>1, <4>2
    <3>2. H[p].next = Linked(c, k + 1) /\ H[Linked(c, k + 1)].prev = p BY <1>3, <3>1 DEF Ring
    <3>3. QED BY <1>1, <3>2
  <2>2. QED BY <2>1
<1>10. \A p \in Free(t) :
        /\ t.heads[p].len >= MIN_NODE_SIZE /\ Block(p) = Block(p + t.heads[p].len - 1)
        /\ p + t.heads[p].len - 1 \in DOMAIN t.tails
        /\ t.tails[p + t.heads[p].len - 1] = t.heads[p].len
        /\ p + t.heads[p].len \in Free(t) => Block(p + t.heads[p].len) # Block(p)
  <2>1. \A p \in FreeOf(H) : H[p].len >= MIN_NODE_SIZE BY <1>2, <1>5 DEF Tiled
  <2>2. QED BY <1>1, <1>2, <1>4, <2>1 DEF Marked
<1>11. t.used = MapThenSumSet(LAMBDA p : t.heads[p].len, Busy(t))
  <2>1. MapThenSumSet(LAMBDA p : t.heads[p].len, Busy(t))
            = SumOf([p \in Busy(t) |-> t.heads[p].len], Busy(t))
    BY SumOfLens
  <2>2. PICK V, B : V = [p \in Busy(t) |-> t.heads[p].len] /\ B = Busy(t) OBVIOUS
  <2>3. \A p \in B : V[p] = LenIn(H)[p] /\ LenIn(H)[p] \in Int
    BY <1>1, <1>2, <1>4, <1>5, <2>2 DEF LenIn, HeadsTyped, HeadSet
  <2>4. IsFiniteSet(B) BY <1>4, <1>5, <1>6, <2>2, FS_Subset
  <2>5. Summed(LenIn(H), B) BY <2>3, <2>4 DEF Summed
  <2>6. SumOf(V, B) = SumOf(LenIn(H), B) BY <2>3, <2>5, SumSame
  <2>7. QED BY <1>2, <1>4, <2>1, <2>2, <2>6
<1>12. Sound(t) BY <1>3, <1>4, <1>7, <1>8, <1>9, <1>10, <1>11 DEF Sound
<1>13. QED BY <1>1, <1>3, <1>4, <1>6, <1>7, <1>12

\* A node is taken out of the list.
LEMMA UnlinkedIs ==
    ASSUME NEW id, NEW base, NEW tt, NEW u, NEW H, NEW T, H = [q \in DOMAIN H |-> H[q]],
           \A q \in DOMAIN H : H[q] \in HeadSet, NEW p
    PROVE  Unlinked(Trunk(id, base, tt, u, H, T), p) =
              Trunk(id, base, tt, u,
                    [q \in DOMAIN H |-> [busy |-> H[q].busy, len |-> H[q].len,
                         prev |-> IF q = H[p].next THEN H[p].prev ELSE H[q].prev,
                         next |-> IF q = H[p].prev THEN H[p].next ELSE H[q].next]], T)
<1>1. PICK t : t = Trunk(id, base, tt, u, H, T) OBVIOUS
<1>2. t.heads = H BY <1>1 DEF Trunk
<1>3. PICK a, b : a = H[p].prev /\ b = H[p].next OBVIOUS
<1>4. Unlinked(t, p) = [[t EXCEPT !.heads[a].next = b] EXCEPT !.heads[b].prev = a]
  BY <1>2, <1>3 DEF Unlinked
<1> DEFINE H1 == [H EXCEPT ![a].next = b]
           H2 == [H1 EXCEPT ![b].prev = a]
<1>5. [t EXCEPT !.heads[a].next = b] = Trunk(id, base, tt, u, H1, T) BY <1>1 DEF Trunk
<1>6. Unlinked(t, p) = Trunk(id, base, tt, u, H2, T)
  <2> HIDE DEF H1
  <2>1. [Trunk(id, base, tt, u, H1, T) EXCEPT !.heads[b].prev = a] = Trunk(id, base, tt, u, H2, T)
    BY DEF Trunk
  <2>2. QED BY <1>4, <1>5, <2>1
<1>7. DOMAIN H1 = DOMAIN H /\ \A q \in DOMAIN H : H1[q] =
         [busy |-> H[q].busy, len |-> H[q].len, prev |-> H[q].prev,
          next |-> IF q = a THEN b ELSE H[q].next]
  BY <1>3 DEF HeadSet
<1>8. DOMAIN H2 = DOMAIN H /\ \A q \in DOMAIN H : H2[q] =
         [busy |-> H[q].busy, len |-> H[q].len, prev |-> IF q = b THEN a ELSE H[q].prev,
          next |-> IF q = a THEN b ELSE H[q].next]
  <2> HIDE DEF H1
  <2>1. QED BY <1>3, <1>7
<1>9. H2 = [q \in DOMAIN H |-> [busy |-> H[q].busy, len |-> H[q].len,
                         prev |-> IF q = b THEN a ELSE H[q].prev,
                         next |-> IF q = a THEN b ELSE H[q].next]]
  <2>1. H2 = [q \in DOMAIN H1 |-> H2[q]]
    <3> HIDE DEF H1
    <3>1. QED OBVIOUS
  <2> HIDE DEF H1, H2
  <2>2. QED BY <1>7, <1>8, <2>1
<1>10. QED BY <1>1, <1>3, <1>6, <1>9

\* The words a user writes are those of the node.
LEMMA FilledIs ==
    ASSUME NEW id, NEW base, NEW tt, NEW u, NEW H, NEW T, TailsTyped(T),
           NEW p \in Nat, NEW len \in Nat, NEW size
    PROVE  \E U : /\ Filled(Trunk(id, base, tt, u, H, T), p, len, size) = Trunk(id, base, tt, u, H, U)
                  /\ TailsKept(T, U, p, len)
<1>1. PICK t : t = Trunk(id, base, tt, u, H, T) OBVIOUS
<1>2. t.tails = T BY <1>1 DEF Trunk
<1> DEFINE body == p + 1 .. p + len - 1
           gone(s) == size >= 4 * (s - p) - 1
           short(s) == size >= 4 * (s - p) - 3
           kept == {s \in DOMAIN T : s \notin body \/ ~gone(s)}
           U == [s \in kept |-> IF s \in body /\ short(s) THEN Junk ELSE T[s]]
<1>3. Filled(t, p, len, size) = [t EXCEPT !.tails = U] BY <1>2 DEF Filled
<1>4. [t EXCEPT !.tails = U] = Trunk(id, base, tt, u, H, U)
  <2> HIDE DEF U
  <2>1. QED BY <1>1 DEF Trunk
<1>5. DOMAIN U = kept OBVIOUS
<1>6. \A s \in DOMAIN U : U[s] = (IF s \in body /\ short(s) THEN Junk ELSE T[s]) OBVIOUS
<1>7. TailsTyped(U)
  <2>1. \A s \in DOMAIN U : U[s] \in Int
    <3> HIDE DEF U, body, short, gone
    <3>1. kept \subseteq DOMAIN T /\ Junk \in Int BY DEF Junk
    <3>2. QED BY <1>5, <1>6, <3>1 DEF TailsTyped
  <2>2. U = [s \in DOMAIN U |-> U[s]] OBVIOUS
  <2> HIDE DEF U
  <2>3. QED BY <2>1, <2>2 DEF TailsTyped
<1>8. ASSUME NEW s \in DOMAIN T, s \notin p .. p + len - 1 PROVE s \in DOMAIN U /\ U[s] = T[s]
  <2>1. s \notin body BY <1>8
  <2> HIDE DEF body, gone, short, U
  <2>2. s \in kept BY <2>1
  <2>3. QED BY <1>5, <1>6, <2>1, <2>2
<1> HIDE DEF U
<1>9. TailsKept(T, U, p, len) BY <1>7, <1>8 DEF TailsKept
<1>10. QED BY <1>1, <1>3, <1>4, <1>9

LEMMA BusiedIs ==
    ASSUME NEW id, NEW base, NEW tt, NEW u, NEW H, NEW T, NEW p, NEW need
    PROVE  Busied(Trunk(id, base, tt, u, H, T), p, need) =
             Trunk(id, base, tt, u + need,
                   [H EXCEPT ![p] = [busy |-> TRUE, len |-> need, prev |-> 0, next |-> 0]], T)
<1>1. PICK t : t = Trunk(id, base, tt, u, H, T) OBVIOUS
<1>01. PICK r : r = [busy |-> TRUE, len |-> need, prev |-> 0, next |-> 0] OBVIOUS
<1>2. t.used = u BY <1>1 DEF Trunk
<1>3. Busied(t, p, need) = [[t EXCEPT !.heads[p] = r] EXCEPT !.used = u + need]
  BY <1>01, <1>2 DEF Busied, free_head
<1>4. PICK K : K = [H EXCEPT ![p] = r] OBVIOUS
<1>5. [t EXCEPT !.heads[p] = r] = Trunk(id, base, tt, u, K, T) BY <1>1, <1>4 DEF Trunk
<1>6. [Trunk(id, base, tt, u, K, T) EXCEPT !.used = u + need] = Trunk(id, base, tt, u + need, K, T)
  BY DEF Trunk
<1>7. QED BY <1>1, <1>01, <1>3, <1>4, <1>5, <1>6

\* A node is cut in two: its front leaves, and what is behind takes its links.
CanSplit(H, p, need) ==
    /\ H = [q \in DOMAIN H |-> H[q]] /\ \A q \in DOMAIN H : H[q] \in HeadSet
    /\ p \in DOMAIN H /\ Shifted(p, need) = p + need /\ p + need \notin DOMAIN H
    /\ H[p].prev \in DOMAIN H /\ H[p].next \in DOMAIN H /\ H[p].prev # p /\ H[p].next # p
    /\ H[H[p].prev].next = p /\ H[H[p].next].prev = p

Behind(H, K, p, need) ==
    /\ K = [q \in DOMAIN H \cup {p + need} |-> K[q]]
    /\ K[p + need] = [busy |-> H[p].busy, len |-> H[p].len - need,
                      prev |-> H[p].prev, next |-> H[p].next]
    /\ \A q \in DOMAIN H \ {p} :
         K[q] = [busy |-> H[q].busy, len |-> H[q].len,
                 prev |-> IF q = H[p].next THEN p + need ELSE H[q].prev,
                 next |-> IF q = H[p].prev THEN p + need ELSE H[q].next]

LEMMA SplitIs ==
    ASSUME NEW id, NEW base, NEW tt, NEW u, NEW H, NEW T, NEW p, NEW need, CanSplit(H, p, need),
           NEW T0, NEW T1, T0 = TailsWithout(T, p + need),
           T1 = [T0 EXCEPT ![p + H[p].len - 1] = H[p].len - need]
    PROVE  \E K : /\ Split(Trunk(id, base, tt, u, H, T), p, need) = Trunk(id, base, tt, u, K, T1)
                  /\ Behind(H, K, p, need)
<1>0. /\ H = [q \in DOMAIN H |-> H[q]] /\ \A q \in DOMAIN H : H[q] \in HeadSet
      /\ p \in DOMAIN H /\ Shifted(p, need) = p + need /\ p + need \notin DOMAIN H
      /\ H[p].prev \in DOMAIN H /\ H[p].next \in DOMAIN H /\ H[p].prev # p /\ H[p].next # p
      /\ H[H[p].prev].next = p /\ H[H[p].next].prev = p
  BY DEF CanSplit
<1>1. PICK t : t = Trunk(id, base, tt, u, H, T) OBVIOUS
<1>2. t.heads = H /\ t.tails = T BY <1>1 DEF Trunk
<1>3. PICK a, b, n, s, l : a = H[p].prev /\ b = H[p].next /\ n = p + need /\ s = p + H[p].len - 1
                           /\ l = H[p].len - need
  OBVIOUS
<1> DEFINE L1 == [H EXCEPT ![a].next = n]
           L == [L1 EXCEPT ![b].prev = n]
           left == [H[p] EXCEPT !.len = l]
           K == [q \in DOMAIN L \cup {n} |-> IF q = n THEN left ELSE L[q]]
<1>4. DOMAIN L1 = DOMAIN H /\ \A q \in DOMAIN H : L1[q] =
         [busy |-> H[q].busy, len |-> H[q].len, prev |-> H[q].prev,
          next |-> IF q = a THEN n ELSE H[q].next]
  BY <1>0, <1>3 DEF HeadSet
<1>5. DOMAIN L = DOMAIN H /\ \A q \in DOMAIN H : L[q] =
         [busy |-> H[q].busy, len |-> H[q].len, prev |-> IF q = b THEN n ELSE H[q].prev,
          next |-> IF q = a THEN n ELSE H[q].next]
  <2> HIDE DEF L1
  <2>1. QED BY <1>0, <1>3, <1>4
<1>6. [H EXCEPT ![a].next = Shifted(@, need), ![b].prev = Shifted(@, need)] = L
  <2>1. [H EXCEPT ![a].next = Shifted(@, need)] = L1 BY <1>0, <1>3
  <2>2. L1[b].prev = p BY <1>0, <1>3, <1>4
  <2>3. [H EXCEPT ![a].next = Shifted(@, need), ![b].prev = Shifted(@, need)]
          = [[H EXCEPT ![a].next = Shifted(@, need)] EXCEPT ![b].prev = Shifted(@, need)] OBVIOUS
  <2>4. [L1 EXCEPT ![b].prev = Shifted(@, need)] = [L1 EXCEPT ![b].prev = Shifted(L1[b].prev, need)]
    OBVIOUS
  <2>5. Shifted(L1[b].prev, need) = n BY <1>0, <1>3, <2>2
  <2> HIDE DEF L1
  <2>6. QED BY <2>1, <2>3, <2>4, <2>5
<1>7. Split(t, p, need) = [t EXCEPT !.heads = K, !.tails = [TailsWithout(T, n) EXCEPT ![s] = l]]
  <2>1. Shifted(p, need) = n BY <1>0, <1>3
  <2> DEFINE G == t.heads
             M1 == [G EXCEPT ![G[p].prev].next = Shifted(@, need), ![G[p].next].prev = Shifted(@, need)]
  <2>02. Split(t, p, need) =
          [t EXCEPT !.heads = [q \in DOMAIN M1 \cup {Shifted(p, need)} |->
                        IF q = Shifted(p, need) THEN [G[p] EXCEPT !.len = G[p].len - need] ELSE M1[q]],
                    !.tails = [TailsWithout(t.tails, Shifted(p, need)) EXCEPT ![p + G[p].len - 1] = G[p].len - need]]
    BY DEF Split
  <2>03. G = H BY <1>2
  <2>04. M1 = [H EXCEPT ![a].next = Shifted(@, need), ![b].prev = Shifted(@, need)] BY <1>3, <2>03
  <2> HIDE DEF M1, G
  <2>2. PICK M : M = M1 OBVIOUS
  <2>3. Split(t, p, need) =
          [t EXCEPT !.heads = [q \in DOMAIN M \cup {n} |-> IF q = n THEN [H[p] EXCEPT !.len = H[p].len - need] ELSE M[q]],
                    !.tails = [TailsWithout(T, n) EXCEPT ![p + H[p].len - 1] = H[p].len - need]]
    BY <1>2, <2>1, <2>02, <2>03, <2>2
  <2>4. M = L BY <1>6, <2>2, <2>04
  <2> HIDE DEF L
  <2>5. QED BY <1>3, <2>3, <2>4
<1>8. DOMAIN K = DOMAIN H \cup {n} /\ K = [q \in DOMAIN H \cup {n} |-> K[q]]
  <2> HIDE DEF L, left
  <2>1. QED BY <1>5
<1>9. K[n] = [busy |-> H[p].busy, len |-> l, prev |-> a, next |-> b]
  <2>1. K[n] = left
    <3> HIDE DEF L, left
    <3>1. QED OBVIOUS
  <2>2. left = [busy |-> H[p].busy, len |-> l, prev |-> a, next |-> b] BY <1>0, <1>3 DEF HeadSet
  <2> HIDE DEF K, left
  <2>3. QED BY <2>1, <2>2
<1>10. \A q \in DOMAIN H \ {p} :
          K[q] = [busy |-> H[q].busy, len |-> H[q].len, prev |-> IF q = b THEN n ELSE H[q].prev,
                  next |-> IF q = a THEN n ELSE H[q].next]
  <2>1. \A q \in DOMAIN H : K[q] = L[q]
    <3>1. n \notin DOMAIN H BY <1>0, <1>3
    <3> HIDE DEF L, left
    <3>2. QED BY <1>5, <3>1
  <2> HIDE DEF K, L
  <2>2. QED BY <1>0, <1>5, <2>1
<1>11. Split(t, p, need) = Trunk(id, base, tt, u, K, T1)
  <2>1. PICK J : J = K OBVIOUS
  <2> HIDE DEF K
  <2>2. [t EXCEPT !.heads = J, !.tails = T1] = Trunk(id, base, tt, u, J, T1)
    <3>1. [t EXCEPT !.heads = J, !.tails = T1] = [[t EXCEPT !.heads = J] EXCEPT !.tails = T1] OBVIOUS
    <3>2. [t EXCEPT !.heads = J] = Trunk(id, base, tt, u, J, T) BY <1>1 DEF Trunk
    <3>3. [Trunk(id, base, tt, u, J, T) EXCEPT !.tails = T1] = Trunk(id, base, tt, u, J, T1) BY DEF Trunk
    <3>4. QED BY <3>1, <3>2, <3>3
  <2>3. T1 = [TailsWithout(T, n) EXCEPT ![s] = l] BY <1>3
  <2>4. Split(t, p, need) = [t EXCEPT !.heads = J, !.tails = T1] BY <1>7, <2>1, <2>3
  <2>5. QED BY <2>1, <2>2, <2>4
<1> HIDE DEF K
<1>12. QED
  <2>1. /\ Split(Trunk(id, base, tt, u, H, T), p, need) = Trunk(id, base, tt, u, K, T1)
        /\ K = [q \in DOMAIN H \cup {p + need} |-> K[q]]
    BY <1>1, <1>3, <1>8, <1>11
  <2>2. K[p + need] = [busy |-> H[p].busy, len |-> H[p].len - need,
                       prev |-> H[p].prev, next |-> H[p].next] BY <1>3, <1>9
  <2>3. \A q \in DOMAIN H \ {p} :
          K[q] = [busy |-> H[q].busy, len |-> H[q].len,
                  prev |-> IF q = H[p].next THEN p + need ELSE H[q].prev,
                  next |-> IF q = H[p].prev THEN p + need ELSE H[q].next]
    BY <1>3, <1>10
  <2>4. WITNESS K
  <2>5. QED BY <2>1, <2>2, <2>3 DEF Behind

LEMMA LinksOf ==
    ASSUME NEW H, NEW c, Ring(H, c), NEW p \in Within(c) \cup {0}
    PROVE  /\ H[p].prev \in Within(c) \cup {0} /\ H[p].next \in Within(c) \cup {0}
           /\ H[H[p].prev].next = p /\ H[H[p].next].prev = p
           /\ p # 0 => H[p].prev # p /\ H[p].next # p
<1>1. /\ Len(c) \in Nat /\ \A k \in 1 .. Len(c) : c[k] \in Nat \ {0}
      /\ \A k \in 1 .. Len(c) : Linked(c, k) = c[k]
      /\ \A k : k \notin 1 .. Len(c) => Linked(c, k) = 0
      /\ \A j, k \in 0 .. Len(c) : Linked(c, j) = Linked(c, k) => j = k
      /\ \A k \in 0 .. Len(c) + 1 : Linked(c, k) \in Within(c) \cup {0}
      /\ \A x \in Within(c) : x # 0 /\ \E k \in 1 .. Len(c) : c[k] = x
  BY RingIs
<1>2. \A k \in 0 .. Len(c) : /\ H[Linked(c, k)].next = Linked(c, k + 1)
                             /\ H[Linked(c, k + 1)].prev = Linked(c, k)
  BY DEF Ring
<1>3. PICK k \in 0 .. Len(c) : Linked(c, k) = p
  <2>1. CASE p = 0
    <3>1. 0 \in 0 .. Len(c) /\ 0 \notin 1 .. Len(c) BY <1>1
    <3>2. QED BY <1>1, <2>1, <3>1
  <2>2. CASE p # 0
    <3>1. PICK k \in 1 .. Len(c) : c[k] = p BY <1>1, <2>2
    <3>2. k \in 0 .. Len(c) OBVIOUS
    <3>3. QED BY <1>1, <3>1, <3>2
  <2>3. QED BY <2>1, <2>2
<1>4. PICK j \in 0 .. Len(c) : Linked(c, j + 1) = p /\ (p # 0 => j = k - 1)
  <2>1. CASE p = 0
    <3>1. Len(c) \in 0 .. Len(c) /\ Len(c) + 1 \notin 1 .. Len(c) BY <1>1
    <3>2. QED BY <1>1, <2>1, <3>1
  <2>2. CASE p # 0
    <3>1. k # 0 BY <1>1, <1>3, <2>2
    <3>2. k - 1 \in 0 .. Len(c) /\ k - 1 + 1 = k BY <1>1, <3>1
    <3>3. QED BY <1>3, <3>2
  <2>3. QED BY <2>1, <2>2
<1>5. H[p].next = Linked(c, k + 1) /\ H[p].prev = Linked(c, j) BY <1>2, <1>3, <1>4
<1>6. /\ k + 1 \in 0 .. Len(c) + 1 /\ j \in 0 .. Len(c) + 1 BY <1>1
<1>7. H[H[p].prev].next = p /\ H[H[p].next].prev = p BY <1>2, <1>3, <1>4, <1>5
<1>8. ASSUME p # 0 PROVE H[p].prev # p /\ H[p].next # p
  <2>1. k # 0 BY <1>1, <1>3, <1>8
  <2>2. k \in 1 .. Len(c) BY <1>1, <2>1
  <2>3. j = k - 1 BY <1>4, <1>8
  <2>4. j # k /\ Linked(c, j) # p BY <1>1, <1>3, <2>2, <2>3
  <2>5. Linked(c, k + 1) # p
    <3>1. CASE k + 1 \in 1 .. Len(c)
      <4>1. k + 1 \in 0 .. Len(c) /\ k + 1 # k BY <2>2, <3>1
      <4>2. QED BY <1>1, <1>3, <4>1
    <3>2. CASE k + 1 \notin 1 .. Len(c) BY <1>1, <1>8, <3>2
    <3>3. QED BY <3>1, <3>2
  <2>6. QED BY <1>5, <2>4, <2>5
<1>9. QED BY <1>1, <1>5, <1>6, <1>7, <1>8

\* What cvsp_alloc does to the trunk it has found a node in.
Given(t, p, need, size) ==
    Filled(Busied(IF t.heads[p].len = need THEN Unlinked(t, p) ELSE Split(t, p, need), p, need),
           p, need, size)

\* Trunk r is trunk t with p busy, too, and nothing else moved.
Gave(t, r, p, need) ==
    /\ TrunkOK(r) /\ r.id = t.id /\ r.base = t.base /\ r.total = t.total
    /\ r.used = t.used + need /\ Busy(r) = Busy(t) \cup {p}
    /\ r.heads[p].len = need /\ \A q \in Busy(t) : r.heads[q].len = t.heads[q].len

LEMMA TrunkFields ==
    ASSUME NEW id, NEW base, NEW tt, NEW u, NEW H, NEW T, NEW t, t = Trunk(id, base, tt, u, H, T)
    PROVE  /\ t.id = id /\ t.base = base /\ t.total = tt /\ t.used = u /\ t.heads = H /\ t.tails = T
           /\ Busy(t) = BusyOf(H) /\ Free(t) = FreeOf(H) /\ Nodes(t) = DOMAIN H
           /\ tt \in Nat /\ Body(H, T, tt + MIN_NODE_SIZE, u) => TrunkOK(t)
<1>1. t.id = id /\ t.base = base /\ t.total = tt /\ t.used = u /\ t.heads = H /\ t.tails = T
  BY DEF Trunk
<1>2. Busy(t) = BusyOf(H) /\ Free(t) = FreeOf(H) /\ Nodes(t) = DOMAIN H
  BY <1>1 DEF Busy, BusyOf, Free, FreeOf, Nodes
<1>3. ASSUME tt \in Nat, Body(H, T, tt + MIN_NODE_SIZE, u) PROVE TrunkOK(t)
  BY <1>1, <1>3 DEF TrunkOK
<1>4. QED BY <1>1, <1>2, <1>3

\* The whole of a free node is taken, or its front, whatever the user then writes into it.
THEOREM AllocationKeepsTrunk ==
    ASSUME NEW t, TrunkOK(t), NEW p \in Free(t), NEW need \in Nat, need >= MIN_NODE_SIZE,
           Fits(t.heads[p].len, need), NEW size
    PROVE  Gave(t, Given(t, p, need, size), p, need)
<1>1. PICK id, base, tt, u, H, T, end :
        /\ id = t.id /\ base = t.base /\ tt = t.total /\ u = t.used /\ H = t.heads /\ T = t.tails
        /\ end = t.total + MIN_NODE_SIZE
  OBVIOUS
<1>2. t = Trunk(id, base, tt, u, H, T) /\ tt \in Nat /\ Body(H, T, end, u) BY <1>1 DEF TrunkOK
<1>3. /\ HeadsTyped(H) /\ TailsTyped(T) /\ end \in Nat /\ u \in Int /\ Tiled(H, end) /\ Marked(H, T)
  BY <1>2 DEF Body
<1>4. PICK c : Ring(H, c) /\ Within(c) = FreeOf(H) BY <1>2 DEF Body
<1>5. p \in FreeOf(H) /\ Busy(t) = BusyOf(H) BY <1>2, TrunkFields
<1>6. /\ 0 \in DOMAIN H /\ p \in DOMAIN H /\ p # 0 /\ H[p].busy = FALSE
      /\ \A q \in DOMAIN H : /\ q \in Nat /\ H[q].busy \in BOOLEAN
                             /\ H[q].len \in Nat /\ H[q].prev \in Nat /\ H[q].next \in Nat
                             /\ H[q].len >= 3
      /\ \A q, x \in DOMAIN H : q < x => q + H[q].len <= x
      /\ FreeOf(H) \subseteq DOMAIN H
  BY <1>3, <1>5, NodesAre DEF FreeOf
<1>7. /\ H = [q \in DOMAIN H |-> H[q]] /\ \A q \in DOMAIN H : H[q] \in HeadSet
  BY <1>3 DEF HeadsTyped
<1>8. /\ H[p].prev \in DOMAIN H /\ H[p].next \in DOMAIN H /\ H[p].prev # p /\ H[p].next # p
      /\ H[H[p].prev].next = p /\ H[H[p].next].prev = p
  BY <1>4, <1>5, <1>6, LinksOf
<1>9. PICK B : B = [busy |-> TRUE, len |-> need, prev |-> 0, next |-> 0] OBVIOUS
<1>10. ASSUME NEW K, NEW U, Given(t, p, need, size) = Trunk(id, base, tt, u + need, K, U),
              Body(K, U, end, u + need), BusyOf(K) = BusyOf(H) \cup {p}, K[p].len = need,
              \A q \in BusyOf(H) : K[q].len = H[q].len
       PROVE  Gave(t, Given(t, p, need, size), p, need)
  <2>1. PICK r : r = Given(t, p, need, size) OBVIOUS
  <2>2. r = Trunk(id, base, tt, u + need, K, U) BY <1>10, <2>1
  <2>3. /\ r.id = id /\ r.base = base /\ r.total = tt /\ r.used = u + need /\ r.heads = K
        /\ Busy(r) = BusyOf(K) /\ (tt \in Nat /\ Body(K, U, tt + MIN_NODE_SIZE, u + need) => TrunkOK(r))
    BY <2>2, TrunkFields
  <2>4. Gave(t, r, p, need) BY <1>1, <1>2, <1>5, <1>10, <2>3 DEF Gave
  <2>5. QED BY <2>1, <2>4
<1>11. CASE H[p].len = need
  <2>1. PICK J : J = [q \in DOMAIN H |-> [busy |-> H[q].busy, len |-> H[q].len,
                         prev |-> IF q = H[p].next THEN H[p].prev ELSE H[q].prev,
                         next |-> IF q = H[p].prev THEN H[p].next ELSE H[q].next]] OBVIOUS
  <2>2. Unlinked(t, p) = Trunk(id, base, tt, u, J, T) BY <1>2, <1>7, <2>1, UnlinkedIs
  <2>3. PICK K : K = [J EXCEPT ![p] = B] OBVIOUS
  <2>4. Busied(Unlinked(t, p), p, need) = Trunk(id, base, tt, u + need, K, T)
    <3>1. Busied(Trunk(id, base, tt, u, J, T), p, need) =
            Trunk(id, base, tt, u + need,
                  [J EXCEPT ![p] = [busy |-> TRUE, len |-> need, prev |-> 0, next |-> 0]], T)
      BY BusiedIs
    <3>2. QED BY <1>9, <2>2, <2>3, <3>1
  <2>5. PICK U : /\ Filled(Trunk(id, base, tt, u + need, K, T), p, need, size)
                       = Trunk(id, base, tt, u + need, K, U)
                 /\ TailsKept(T, U, p, need)
    <3>1. p \in Nat /\ TailsTyped(T) BY <1>3, <1>6
    <3>2. \E U : /\ Filled(Trunk(id, base, tt, u + need, K, T), p, need, size)
                       = Trunk(id, base, tt, u + need, K, U)
                 /\ TailsKept(T, U, p, need)
      BY <3>1, FilledIs
    <3>3. QED BY <3>2
  <2>6. Given(t, p, need, size) = Trunk(id, base, tt, u + need, K, U)
    BY <1>1, <1>11, <2>4, <2>5 DEF Given
  <2>7. Taken(H, K, p)
    <3>1. DOMAIN J = DOMAIN H /\ p \in DOMAIN J BY <1>6, <2>1
    <3>2. K = [q \in DOMAIN J |-> K[q]] BY <2>3
    <3>3. K[p] = B BY <2>3, <3>1
    <3>4. \A q \in DOMAIN H \ {p} : K[q] = J[q] BY <2>3, <3>1
    <3>5. \A q \in DOMAIN H \ {p} : K[q] = [busy |-> H[q].busy, len |-> H[q].len,
                         prev |-> IF q = H[p].next THEN H[p].prev ELSE H[q].prev,
                         next |-> IF q = H[p].prev THEN H[p].next ELSE H[q].next]
      BY <2>1, <3>4
    <3>6. K[p] = [busy |-> TRUE, len |-> H[p].len, prev |-> 0, next |-> 0] BY <1>9, <1>11, <3>3
    <3>7. K = [q \in DOMAIN H |-> K[q]] BY <3>1, <3>2
    <3>8. QED BY <3>5, <3>6, <3>7 DEF Taken
  <2>8. TailsKept(T, U, p, H[p].len) BY <1>11, <2>5
  <2>9. /\ Body(K, U, end, u + H[p].len) /\ BusyOf(K) = BusyOf(H) \cup {p}
        /\ K[p].len = H[p].len /\ \A q \in BusyOf(H) : K[q].len = H[q].len
    <3>1. Body(H, T, end, u) /\ p \in FreeOf(H) BY <1>2, <1>5
    <3>2. QED BY <2>7, <2>8, <3>1, TakenBody, SMTT(60)
  <2>10. QED BY <1>10, <1>11, <2>6, <2>9
<1>12. CASE H[p].len # need
  <2>1. H[p].len \in Nat /\ p \in Nat /\ H[p].len >= need + 3 /\ need >= 3
    BY <1>1, <1>6, <1>12 DEF Fits, MIN_NODE_SIZE
  <2>2. Shifted(p, need) = p + need
    <3>1. Block(p) = Block(p + H[p].len - 1) BY <1>3, <1>5 DEF Marked
    <3>2. p + need \in Nat /\ p + H[p].len - 1 \in Nat /\ p <= p + need /\ p + need <= p + H[p].len - 1
      BY <2>1
    <3>3. Block(p + need) = Block(p) BY <2>1, <3>1, <3>2, BlockBetween
    <3>4. QED BY <2>1, <3>3, ShiftedIs
  <2>3. p + need \notin DOMAIN H
    <3>1. p < p + need /\ ~(p + H[p].len <= p + need) BY <2>1
    <3>2. QED BY <1>6, <3>1
  <2>4. PICK s, l : s = p + H[p].len - 1 /\ l = H[p].len - need OBVIOUS
  <2>5. PICK T0, T1 : T0 = TailsWithout(T, p + need) /\ T1 = [T0 EXCEPT ![s] = l] OBVIOUS
  <2>6. PICK J : /\ Split(t, p, need) = Trunk(id, base, tt, u, J, T1)
                 /\ J = [q \in DOMAIN H \cup {p + need} |-> J[q]]
                 /\ J[p + need] = [busy |-> H[p].busy, len |-> H[p].len - need,
                                    prev |-> H[p].prev, next |-> H[p].next]
                 /\ \A q \in DOMAIN H \ {p} :
                       J[q] = [busy |-> H[q].busy, len |-> H[q].len,
                               prev |-> IF q = H[p].next THEN p + need ELSE H[q].prev,
                               next |-> IF q = H[p].prev THEN p + need ELSE H[q].next]
    <3>1. CanSplit(H, p, need) BY <1>6, <1>7, <1>8, <2>2, <2>3 DEF CanSplit
    <3>0. T0 = TailsWithout(T, p + need) /\ T1 = [T0 EXCEPT ![p + H[p].len - 1] = H[p].len - need]
      BY <2>4, <2>5
    <3>2. \E J : /\ Split(Trunk(id, base, tt, u, H, T), p, need) = Trunk(id, base, tt, u, J, T1)
                  /\ Behind(H, J, p, need)
      BY <3>0, <3>1, SplitIs
    <3>3. t = Trunk(id, base, tt, u, H, T) BY <1>2
    <3>4. QED BY <3>2, <3>3 DEF Behind
  <2>7. PICK K : K = [J EXCEPT ![p] = B] OBVIOUS
  <2>8. Busied(Split(t, p, need), p, need) = Trunk(id, base, tt, u + need, K, T1)
    <3>1. Busied(Trunk(id, base, tt, u, J, T1), p, need) =
            Trunk(id, base, tt, u + need,
                  [J EXCEPT ![p] = [busy |-> TRUE, len |-> need, prev |-> 0, next |-> 0]], T1)
      BY BusiedIs
    <3>2. QED BY <1>9, <2>6, <2>7, <3>1
  <2>9. s \in DOMAIN T1 /\ TailsTyped(T1) /\ DOMAIN T1 = DOMAIN T \ {p + need, p + need + 1}
        /\ \A x \in DOMAIN T1 : T1[x] = IF x = s THEN l ELSE T[x]
    <3>1. s \in DOMAIN T BY <1>3, <1>5, <2>4 DEF Marked
    <3>2. l \in Int BY <2>1, <2>4
    <3>3. \A x \in DOMAIN T : T[x] \in Int BY <1>3 DEF TailsTyped
    <3>8. /\ DOMAIN T0 = DOMAIN T \ {p + need, p + need + 1}
          /\ \A x \in DOMAIN T0 : T0[x] = T[x]
      BY <2>5 DEF TailsWithout
    <3>4. DOMAIN T1 = DOMAIN T0 /\ T1 = [x \in DOMAIN T1 |-> T1[x]] BY <2>5
    <3>5. \A x \in DOMAIN T0 : T1[x] = IF x = s THEN l ELSE T0[x] BY <2>5
    <3>6. \A x \in DOMAIN T1 : T1[x] \in Int BY <3>2, <3>3, <3>4, <3>5, <3>8
    <3>9. s # p + need /\ s # p + need + 1 BY <2>1, <2>4
    <3>7. QED BY <3>1, <3>4, <3>5, <3>6, <3>8, <3>9 DEF TailsTyped
  <2>10. PICK U : /\ Filled(Trunk(id, base, tt, u + need, K, T1), p, need, size)
                        = Trunk(id, base, tt, u + need, K, U)
                  /\ TailsKept(T1, U, p, need)
    <3>1. PICK v : v = u + need OBVIOUS
    <3>2. TailsTyped(T1) /\ p \in Nat /\ need \in Nat BY <1>6, <2>9
    <3>3. \E U : /\ Filled(Trunk(id, base, tt, v, K, T1), p, need, size) = Trunk(id, base, tt, v, K, U)
                 /\ TailsKept(T1, U, p, need)
      BY <3>2, FilledIs
    <3>4. QED BY <3>1, <3>3
  <2>11. Given(t, p, need, size) = Trunk(id, base, tt, u + need, K, U)
    BY <1>1, <1>12, <2>8, <2>10 DEF Given
  <2>12. Cut(H, K, p, need)
    <3>1. DOMAIN J = DOMAIN H \cup {p + need} BY <2>6, DomainIs
    <3>2. p \in DOMAIN J /\ p + need # p BY <1>6, <2>3, <3>1
    <3>3. K = [q \in DOMAIN J |-> K[q]] BY <2>7
    <3>4. K[p] = B BY <2>7, <3>2
    <3>5. \A q \in DOMAIN J : q # p => K[q] = J[q] BY <2>7
    <3>6. K = [q \in DOMAIN H \cup {p + need} |-> K[q]] BY <3>1, <3>3
    <3>7. K[p + need] = [busy |-> FALSE, len |-> H[p].len - need, prev |-> H[p].prev, next |-> H[p].next]
      BY <1>6, <2>6, <3>1, <3>2, <3>5
    <3>8. \A q \in DOMAIN H \ {p} :
             K[q] = [busy |-> H[q].busy, len |-> H[q].len,
                     prev |-> IF q = H[p].next THEN p + need ELSE H[q].prev,
                     next |-> IF q = H[p].prev THEN p + need ELSE H[q].next]
      BY <2>6, <3>1, <3>5
    <3>9. QED BY <1>9, <3>4, <3>6, <3>7, <3>8 DEF Cut
  <2>13. TailsKept(T, U, p, H[p].len) /\ s \in DOMAIN U /\ U[s] = l
    <3>1. /\ TailsTyped(U)
          /\ \A x \in DOMAIN T1 : x \notin p .. p + need - 1 => x \in DOMAIN U /\ U[x] = T1[x]
      BY <2>10 DEF TailsKept
    <3>2. s \notin p .. p + need - 1 BY <2>1, <2>4
    <3>3. s \in DOMAIN U /\ U[s] = l BY <2>9, <3>1, <3>2
    <3>4. ASSUME NEW x \in DOMAIN T, x \notin p .. p + H[p].len - 1 PROVE x \in DOMAIN U /\ U[x] = T[x]
      <4>1. x # s BY <2>1, <2>4, <3>4
      <4>2. x \notin p .. p + need - 1 /\ x # p + need /\ x # p + need + 1 BY <2>1, <3>4
      <4>3. QED BY <2>9, <3>1, <4>1, <4>2
    <3>5. QED BY <3>1, <3>3, <3>4 DEF TailsKept
  <2>14. /\ Body(K, U, end, u + need) /\ BusyOf(K) = BusyOf(H) \cup {p}
         /\ K[p].len = need /\ \A q \in BusyOf(H) : K[q].len = H[q].len
    <3>1. p + H[p].len - 1 \in DOMAIN U /\ U[p + H[p].len - 1] = H[p].len - need BY <2>4, <2>13
    <3>2. QED BY <1>2, <1>5, <2>1, <2>12, <2>13, <3>1, CutBody
  <2>15. QED BY <1>10, <2>11, <2>14
<1>13. QED BY <1>11, <1>12

\* Links that are set one by one.
HeadsIn(H) == H = [q \in DOMAIN H |-> H[q]] /\ \A q \in DOMAIN H : H[q] \in HeadSet

WithNext(H, a, b) == [H EXCEPT ![a].next = b]
WithPrev(H, a, b) == [H EXCEPT ![a].prev = b]

LEMMA NextSet ==
    ASSUME NEW H, HeadsIn(H), NEW a, NEW b \in Nat
    PROVE  /\ HeadsIn(WithNext(H, a, b)) /\ DOMAIN WithNext(H, a, b) = DOMAIN H
           /\ \A q \in DOMAIN H : WithNext(H, a, b)[q] =
                [busy |-> H[q].busy, len |-> H[q].len, prev |-> H[q].prev,
                 next |-> IF q = a THEN b ELSE H[q].next]
<1>0. PICK K : K = WithNext(H, a, b) OBVIOUS
<1>1. DOMAIN K = DOMAIN H /\ K = [q \in DOMAIN K |-> K[q]] BY <1>0 DEF WithNext
<1>2. \A q \in DOMAIN H : K[q] = [busy |-> H[q].busy, len |-> H[q].len, prev |-> H[q].prev,
                                  next |-> IF q = a THEN b ELSE H[q].next]
  BY <1>0 DEF WithNext, HeadsIn, HeadSet
<1>3. ASSUME NEW q \in DOMAIN H PROVE K[q] \in HeadSet
  <2>1. H[q].busy \in BOOLEAN /\ H[q].len \in Nat /\ H[q].prev \in Nat /\ H[q].next \in Nat
    BY DEF HeadsIn, HeadSet
  <2>2. K[q] = [busy |-> H[q].busy, len |-> H[q].len, prev |-> H[q].prev,
                   next |-> IF q = a THEN b ELSE H[q].next] BY <1>2
  <2>3. (IF q = a THEN b ELSE H[q].next) \in Nat BY <2>1
  <2>4. QED BY <2>1, <2>2, <2>3 DEF HeadSet
<1>4. QED BY <1>0, <1>1, <1>2, <1>3 DEF HeadsIn

LEMMA PrevSet ==
    ASSUME NEW H, HeadsIn(H), NEW a, NEW b \in Nat
    PROVE  /\ HeadsIn(WithPrev(H, a, b)) /\ DOMAIN WithPrev(H, a, b) = DOMAIN H
           /\ \A q \in DOMAIN H : WithPrev(H, a, b)[q] =
                [busy |-> H[q].busy, len |-> H[q].len,
                 prev |-> IF q = a THEN b ELSE H[q].prev, next |-> H[q].next]
<1>0. PICK K : K = WithPrev(H, a, b) OBVIOUS
<1>1. DOMAIN K = DOMAIN H /\ K = [q \in DOMAIN K |-> K[q]] BY <1>0 DEF WithPrev
<1>2. \A q \in DOMAIN H : K[q] = [busy |-> H[q].busy, len |-> H[q].len,
                                  prev |-> IF q = a THEN b ELSE H[q].prev, next |-> H[q].next]
  BY <1>0 DEF WithPrev, HeadsIn, HeadSet
<1>3. ASSUME NEW q \in DOMAIN H PROVE K[q] \in HeadSet
  <2>1. H[q].busy \in BOOLEAN /\ H[q].len \in Nat /\ H[q].prev \in Nat /\ H[q].next \in Nat
    BY DEF HeadsIn, HeadSet
  <2>2. K[q] = [busy |-> H[q].busy, len |-> H[q].len,
                   prev |-> IF q = a THEN b ELSE H[q].prev, next |-> H[q].next] BY <1>2
  <2>3. (IF q = a THEN b ELSE H[q].prev) \in Nat BY <2>1
  <2>4. QED BY <2>1, <2>2, <2>3 DEF HeadSet
<1>4. QED BY <1>0, <1>1, <1>2, <1>3 DEF HeadsIn

\* Setting a link in a trunk is setting it in its headers.
LEMMA LinkSet ==
    ASSUME NEW id, NEW base, NEW tt, NEW u, NEW H, NEW T, NEW a, NEW b
    PROVE  /\ [Trunk(id, base, tt, u, H, T) EXCEPT !.heads[a].next = b]
                 = Trunk(id, base, tt, u, WithNext(H, a, b), T)
           /\ [Trunk(id, base, tt, u, H, T) EXCEPT !.heads[a].prev = b]
                 = Trunk(id, base, tt, u, WithPrev(H, a, b), T)
<1>1. [Trunk(id, base, tt, u, H, T) EXCEPT !.heads[a].next = b]
        = Trunk(id, base, tt, u, WithNext(H, a, b), T) BY DEF Trunk, WithNext
<1>2. [Trunk(id, base, tt, u, H, T) EXCEPT !.heads[a].prev = b]
        = Trunk(id, base, tt, u, WithPrev(H, a, b), T) BY DEF Trunk, WithPrev
<1>3. QED BY <1>1, <1>2

\* The header at gets its new length, and the tail of the node too.
SizedHeads(H, K, at, m) ==
    /\ K = [q \in DOMAIN H |-> K[q]]
    /\ K[at] = [busy |-> FALSE, len |-> m, prev |-> H[at].prev, next |-> H[at].next]
    /\ \A q \in DOMAIN H \ {at} : K[q] = H[q]

\* r is t with the headers K, where the free node at of m slots has its tail.
SizedTrunk(r, t, K, at, m) ==
    \E U : /\ r = Trunk(t.id, t.base, t.total, t.used, K, U)
           /\ TailsKept(t.tails, U, at, m) /\ at + m - 1 \in DOMAIN U /\ U[at + m - 1] = m

LEMMA SizedIs ==
    ASSUME NEW g, NEW H, HeadsIn(H), TailsTyped(g.tails),
           NEW at \in DOMAIN H, at \in Nat, NEW m \in Nat, m >= 3, Len16(m) = m
    PROVE  \E K : /\ SizedTrunk(Sized(Trunk(g.id, g.base, g.total, g.used, H, g.tails), at, m), g, K, at, m)
                  /\ SizedHeads(H, K, at, m)
<1>0. PICK id, base, tt, u, T : id = g.id /\ base = g.base /\ tt = g.total /\ u = g.used /\ T = g.tails
  OBVIOUS
<1>00. TailsTyped(T) BY <1>0
<1>1. PICK t : t = Trunk(id, base, tt, u, H, T) OBVIOUS
<1>2. t.heads = H /\ t.tails = T BY <1>1 DEF Trunk
<1>3. PICK s : s = at + m - 1 OBVIOUS
<1>03. PICK b : b = FALSE OBVIOUS
<1> DEFINE H1 == [H EXCEPT ![at].len = m]
           K == [H1 EXCEPT ![at].busy = b]
           U == [x \in DOMAIN T \cup {s} |-> IF x = s THEN m ELSE T[x]]
<1>4. Sized(t, at, m) = [[[t EXCEPT !.heads[at].len = m] EXCEPT !.heads[at].busy = b] EXCEPT !.tails = U]
  BY <1>2, <1>3, <1>03 DEF Sized
<1>5. [t EXCEPT !.heads[at].len = m] = Trunk(id, base, tt, u, H1, T) BY <1>1 DEF Trunk
<1>6. [Trunk(id, base, tt, u, H1, T) EXCEPT !.heads[at].busy = b] = Trunk(id, base, tt, u, K, T)
  <2> HIDE DEF H1
  <2>1. QED BY DEF Trunk
<1>7. [Trunk(id, base, tt, u, K, T) EXCEPT !.tails = U] = Trunk(id, base, tt, u, K, U)
  <2> HIDE DEF K, U
  <2>1. QED BY DEF Trunk
<1>8. Sized(t, at, m) = Trunk(id, base, tt, u, K, U)
  <2> HIDE DEF K, U, H1
  <2>1. QED BY <1>4, <1>5, <1>6, <1>7
<1>9. SizedHeads(H, K, at, m)
  <2>1. DOMAIN H1 = DOMAIN H OBVIOUS
  <2>2. K = [q \in DOMAIN H |-> K[q]]
    <3>1. K = [q \in DOMAIN H1 |-> K[q]]
      <4> HIDE DEF H1
      <4>1. QED OBVIOUS
    <3>2. QED BY <2>1, <3>1
  <2>3. H1[at] = [busy |-> H[at].busy, len |-> m, prev |-> H[at].prev, next |-> H[at].next]
    BY DEF HeadsIn, HeadSet
  <2>4. \A q \in DOMAIN H \ {at} : H1[q] = H[q] OBVIOUS
  <2>5. K[at] = [busy |-> b, len |-> m, prev |-> H[at].prev, next |-> H[at].next]
    <3>1. K[at] = [H1[at] EXCEPT !.busy = b]
      <4> HIDE DEF H1
      <4>1. QED BY <2>1
    <3> HIDE DEF K, H1
    <3>2. QED BY <2>3, <3>1
  <2>6. \A q \in DOMAIN H \ {at} : K[q] = H[q]
    <3> HIDE DEF H1
    <3>1. QED BY <2>1, <2>4
  <2> HIDE DEF K
  <2>7. QED BY <1>03, <2>2, <2>5, <2>6 DEF SizedHeads
<1>10. /\ DOMAIN U = DOMAIN T \cup {s} /\ U = [x \in DOMAIN U |-> U[x]]
       /\ \A x \in DOMAIN U : U[x] = IF x = s THEN m ELSE T[x]
  OBVIOUS
<1>11. s \in at .. at + m - 1 BY <1>3
<1> HIDE DEF U, K
<1>12. TailsKept(T, U, at, m) /\ s \in DOMAIN U /\ U[s] = m
  <2>1. TailsTyped(U) BY <1>00, <1>10 DEF TailsTyped
  <2>2. QED BY <1>10, <1>11, <2>1 DEF TailsKept
<1>13. SizedTrunk(Sized(t, at, m), g, K, at, m) BY <1>0, <1>3, <1>8, <1>12 DEF SizedTrunk
<1>14. Sized(Trunk(g.id, g.base, g.total, g.used, H, g.tails), at, m) = Sized(t, at, m) BY <1>0, <1>1
<1>15. QED BY <1>9, <1>13, <1>14

\* K is what is left of H without n.
HeadsLeft(K, H, n) ==
    HeadsIn(K) /\ DOMAIN K = DOMAIN H \ {n} /\ \A q \in DOMAIN H \ {n} : K[q] = H[q]

LEMMA HeadsLeftAre ==
    ASSUME NEW H, HeadsIn(H), NEW n
    PROVE  HeadsLeft(WithoutHead(H, n), H, n)
<1>1. PICK K : K = WithoutHead(H, n) OBVIOUS
<1>2. K = [q \in DOMAIN H \ {n} |-> H[q]] BY <1>1 DEF WithoutHead
<1>3. DOMAIN K = DOMAIN H \ {n} /\ \A q \in DOMAIN H \ {n} : K[q] = H[q] BY <1>2
<1>4. K = [q \in DOMAIN K |-> K[q]] BY <1>2
<1>5. HeadsIn(K) BY <1>3, <1>4 DEF HeadsIn
<1>6. QED BY <1>1, <1>3, <1>5 DEF HeadsLeft

LEMMA WithoutIs ==
    ASSUME NEW H, HeadsIn(H), NEW n
    PROVE  /\ HeadsIn(WithoutHead(H, n)) /\ DOMAIN WithoutHead(H, n) = DOMAIN H \ {n}
           /\ \A q \in DOMAIN H \ {n} : WithoutHead(H, n)[q] = H[q]
  BY HeadsLeftAre DEF HeadsLeft

LEMMA WithoutTwo ==
    ASSUME NEW H, HeadsIn(H), NEW n, NEW p
    PROVE  /\ HeadsIn(WithoutHead(WithoutHead(H, n), p))
           /\ DOMAIN WithoutHead(WithoutHead(H, n), p) = DOMAIN H \ {p, n}
           /\ \A q \in DOMAIN H \ {p, n} : WithoutHead(WithoutHead(H, n), p)[q] = H[q]
<1>1. PICK J : J = WithoutHead(H, n) OBVIOUS
<1>2. HeadsIn(J) /\ DOMAIN J = DOMAIN H \ {n} /\ \A q \in DOMAIN H \ {n} : J[q] = H[q]
  BY <1>1, WithoutIs
<1>3. PICK K : K = WithoutHead(J, p) OBVIOUS
<1>4. HeadsIn(K) /\ DOMAIN K = DOMAIN J \ {p} /\ \A q \in DOMAIN J \ {p} : K[q] = J[q]
  BY <1>2, <1>3, WithoutIs
<1>5. HeadsIn(K) /\ DOMAIN K = DOMAIN H \ {p, n} /\ \A q \in DOMAIN H \ {p, n} : K[q] = H[q]
  BY <1>2, <1>4
<1>6. QED BY <1>1, <1>3, <1>5

\* What is known of t when its node p is freed.
FreeingIn(t, H, T, p) ==
    /\ t = Trunk(t.id, t.base, t.total, t.used, H, T) /\ t.heads = H /\ t.tails = T
    /\ FreeingAt(H, T, t.total + MIN_NODE_SIZE, t.used, p)

LEMMA FreeingInIs ==
    ASSUME NEW t, NEW H, NEW T, NEW p, FreeingIn(t, H, T, p)
    PROVE  /\ HeadsIn(H) /\ TailsTyped(T) /\ 0 \in DOMAIN H /\ p \in DOMAIN H /\ p # 0 /\ p \notin FreeOf(H)
           /\ \A q \in DOMAIN H : /\ q \in Nat /\ H[q].busy \in BOOLEAN /\ H[q].len \in Nat
                                  /\ H[q].prev \in Nat /\ H[q].next \in Nat /\ H[q].len >= 3
           /\ \A q, x \in DOMAIN H : q < x => q + H[q].len <= x
           /\ FreeOf(H) \subseteq DOMAIN H /\ 0 \notin FreeOf(H)
           /\ \A q \in FreeOf(H) \cup {0} : /\ H[q].prev \in FreeOf(H) \cup {0}
                                            /\ H[q].next \in FreeOf(H) \cup {0}
                                            /\ H[H[q].prev].next = q
<1>1. PICK end : FreeingAt(H, T, end, t.used, p) BY DEF FreeingIn
<1>2. FreeingFacts(H, end, p) /\ \E c : Ring(H, c) /\ Within(c) = FreeOf(H) BY <1>1, FreeingIs
<1>3. HeadsIn(H) /\ TailsTyped(T) BY <1>1 DEF FreeingAt, Body, HeadsTyped, HeadsIn
<1>4. \A q \in FreeOf(H) \cup {0} : /\ H[q].prev \in FreeOf(H) \cup {0}
                                    /\ H[q].next \in FreeOf(H) \cup {0}
                                    /\ H[H[q].prev].next = q
  BY <1>2, LinksOf
<1>5. FreeOf(H) \subseteq DOMAIN H /\ 0 \notin FreeOf(H) BY DEF FreeOf, free_head
<1>6. QED BY <1>2, <1>3, <1>4, <1>5 DEF FreeingFacts

LEMMA AtEndIs ==
    ASSUME NEW t, NEW H, NEW T, NEW p, FreeingIn(t, H, T, p), Len16(H[p].len) = H[p].len
    PROVE  \E K : SizedTrunk(AtEnd(t, p), t, K, p, H[p].len) /\ FreedLast(H, K, p)
<1>1. PICK id, base, tt, u : id = t.id /\ base = t.base /\ tt = t.total /\ u = t.used OBVIOUS
<1>2. t = Trunk(id, base, tt, u, H, T) /\ t.heads = H BY <1>1 DEF FreeingIn
<1>3. /\ HeadsIn(H) /\ TailsTyped(T) /\ 0 \in DOMAIN H /\ p \in DOMAIN H /\ p # 0 /\ p \notin FreeOf(H)
      /\ \A q \in DOMAIN H : /\ q \in Nat /\ H[q].len \in Nat /\ H[q].len >= 3
      /\ FreeOf(H) \subseteq DOMAIN H
  BY FreeingInIs
<1>4. PICK last : last = H[0].prev OBVIOUS
<1>5. last \in DOMAIN H /\ last # p /\ H[last].next = 0 /\ last \in Nat
  <2>1. last \in FreeOf(H) \cup {0} /\ H[last].next = 0 BY <1>4, FreeingInIs
  <2>2. QED BY <1>3, <2>1
<1>6. PICK H1 : H1 = WithPrev(H, p, last) OBVIOUS
<1>7. PICK H2 : H2 = WithNext(H1, p, 0) OBVIOUS
<1>8. PICK H3 : H3 = WithNext(H2, last, p) OBVIOUS
<1>9. PICK H4 : H4 = WithPrev(H3, 0, p) OBVIOUS
<1>10. AtEnd(t, p) = Sized(Trunk(id, base, tt, u, H4, T), p, H[p].len)
  <2>1. [t EXCEPT !.heads[p].prev = last, !.heads[p].next = 0]
          = [[t EXCEPT !.heads[p].prev = last] EXCEPT !.heads[p].next = 0] OBVIOUS
  <2>2. [t EXCEPT !.heads[p].prev = last] = Trunk(id, base, tt, u, H1, T) BY <1>2, <1>6, LinkSet
  <2>3. [Trunk(id, base, tt, u, H1, T) EXCEPT !.heads[p].next = 0] = Trunk(id, base, tt, u, H2, T)
    BY <1>7, LinkSet
  <2>4. [Trunk(id, base, tt, u, H2, T) EXCEPT !.heads[last].next = p] = Trunk(id, base, tt, u, H3, T)
    BY <1>8, LinkSet
  <2>5. [Trunk(id, base, tt, u, H3, T) EXCEPT !.heads[0].prev = p] = Trunk(id, base, tt, u, H4, T)
    BY <1>9, LinkSet
  <2>6. AtEnd(t, p) = Sized([[[t EXCEPT !.heads[p].prev = last, !.heads[p].next = 0]
                                 EXCEPT !.heads[last].next = p] EXCEPT !.heads[0].prev = p], p, H[p].len)
    BY <1>2, <1>4, <1>5 DEF AtEnd, free_head
  <2>7. QED BY <2>1, <2>2, <2>3, <2>4, <2>5, <2>6
<1>11. /\ HeadsIn(H1) /\ DOMAIN H1 = DOMAIN H
       /\ \A q \in DOMAIN H : H1[q] = [busy |-> H[q].busy, len |-> H[q].len,
                                       prev |-> IF q = p THEN last ELSE H[q].prev, next |-> H[q].next]
  BY <1>3, <1>5, <1>6, PrevSet
<1>12. /\ HeadsIn(H2) /\ DOMAIN H2 = DOMAIN H
       /\ \A q \in DOMAIN H1 : H2[q] = [busy |-> H1[q].busy, len |-> H1[q].len, prev |-> H1[q].prev,
                                        next |-> IF q = p THEN 0 ELSE H1[q].next]
  BY <1>11, <1>7, NextSet
<1>13. /\ HeadsIn(H3) /\ DOMAIN H3 = DOMAIN H
       /\ \A q \in DOMAIN H2 : H3[q] = [busy |-> H2[q].busy, len |-> H2[q].len, prev |-> H2[q].prev,
                                        next |-> IF q = last THEN p ELSE H2[q].next]
  BY <1>3, <1>12, <1>8, NextSet
<1>14. /\ HeadsIn(H4) /\ DOMAIN H4 = DOMAIN H
       /\ \A q \in DOMAIN H3 : H4[q] = [busy |-> H3[q].busy, len |-> H3[q].len,
                                        prev |-> IF q = 0 THEN p ELSE H3[q].prev, next |-> H3[q].next]
  BY <1>3, <1>13, <1>9, PrevSet
<1>15. \A q \in DOMAIN H :
         H4[q] = [busy |-> H[q].busy, len |-> H[q].len,
                  prev |-> IF q = 0 THEN p ELSE IF q = p THEN last ELSE H[q].prev,
                  next |-> IF q = last THEN p ELSE IF q = p THEN 0 ELSE H[q].next]
  <2>1. ASSUME NEW q \in DOMAIN H
        PROVE  H4[q] = [busy |-> H[q].busy, len |-> H[q].len,
                  prev |-> IF q = 0 THEN p ELSE IF q = p THEN last ELSE H[q].prev,
                  next |-> IF q = last THEN p ELSE IF q = p THEN 0 ELSE H[q].next]
    <3>1. H1[q].busy = H[q].busy /\ H1[q].len = H[q].len /\ H1[q].next = H[q].next
          /\ H1[q].prev = IF q = p THEN last ELSE H[q].prev BY <1>11
    <3>2. H2[q].busy = H[q].busy /\ H2[q].len = H[q].len
          /\ H2[q].prev = (IF q = p THEN last ELSE H[q].prev)
          /\ H2[q].next = IF q = p THEN 0 ELSE H[q].next BY <1>11, <1>12, <3>1
    <3>3. H3[q].busy = H[q].busy /\ H3[q].len = H[q].len
          /\ H3[q].prev = (IF q = p THEN last ELSE H[q].prev)
          /\ H3[q].next = IF q = last THEN p ELSE IF q = p THEN 0 ELSE H[q].next
      BY <1>12, <1>13, <3>2
    <3>4. QED BY <1>13, <1>14, <3>3
  <2>2. QED BY <2>1
<1>16. PICK K : SizedTrunk(AtEnd(t, p), t, K, p, H[p].len) /\ SizedHeads(H4, K, p, H[p].len)
  <2>1. p \in DOMAIN H4 /\ p \in Nat /\ H[p].len \in Nat /\ H[p].len >= 3 BY <1>3, <1>14
  <2>2. t.tails = T BY DEF FreeingIn
  <2>3. AtEnd(t, p) = Sized(Trunk(t.id, t.base, t.total, t.used, H4, t.tails), p, H[p].len)
    BY <1>1, <1>10, <2>2
  <2>4. QED BY <1>3, <1>14, <2>1, <2>2, <2>3, SizedIs
<1>17. FreedLast(H, K, p)
  <2>1. K = [q \in DOMAIN H |-> K[q]] BY <1>14, <1>16 DEF SizedHeads
  <2>2. K[p] = [busy |-> FALSE, len |-> H[p].len, prev |-> H[0].prev, next |-> 0]
    <3>0. H4[p] = [busy |-> H[p].busy, len |-> H[p].len,
                   prev |-> IF p = 0 THEN p ELSE IF p = p THEN last ELSE H[p].prev,
                   next |-> IF p = last THEN p ELSE IF p = p THEN 0 ELSE H[p].next]
      BY <1>3, <1>15
    <3>1. H4[p].prev = last /\ H4[p].next = 0 BY <1>3, <1>5, <3>0
    <3>2. QED BY <1>4, <1>16, <3>1 DEF SizedHeads
  <2>3. \A q \in DOMAIN H \ {p} : K[q] = H4[q] BY <1>14, <1>16 DEF SizedHeads
  <2>4. \A q \in DOMAIN H \ {p} :
          K[q] = [busy |-> H[q].busy, len |-> H[q].len,
                  prev |-> IF q = 0 THEN p ELSE H[q].prev,
                  next |-> IF q = H[0].prev THEN p ELSE H[q].next]
    BY <1>4, <1>15, <2>3
  <2>5. QED BY <2>1, <2>2, <2>4 DEF FreedLast
<1>18. QED BY <1>16, <1>17

LEMMA MergeNextIs ==
    ASSUME NEW t, NEW H, NEW T, NEW p, FreeingIn(t, H, T, p), NEW n, n = p + H[p].len, n \in FreeOf(H),
           NEW m, m = H[p].len + H[n].len, Len16(m) = m, Merged(t, p).len = m
    PROVE  \E K : SizedTrunk(MergeNext(t, p), t, K, p, m) /\ FreedNext(H, K, p, n)
<1>1. PICK id, base, tt, u : id = t.id /\ base = t.base /\ tt = t.total /\ u = t.used OBVIOUS
<1>2. t = Trunk(id, base, tt, u, H, T) /\ t.heads = H /\ t.tails = T BY <1>1 DEF FreeingIn
<1>3. /\ HeadsIn(H) /\ TailsTyped(T) /\ 0 \in DOMAIN H /\ p \in DOMAIN H /\ p # 0 /\ p \notin FreeOf(H)
      /\ \A q \in DOMAIN H : /\ q \in Nat /\ H[q].len \in Nat /\ H[q].len >= 3
      /\ FreeOf(H) \subseteq DOMAIN H
  BY FreeingInIs
<1>4. PICK a, b : a = H[n].prev /\ b = H[n].next OBVIOUS
<1>5. a \in DOMAIN H /\ b \in DOMAIN H /\ a # p /\ b # p /\ a \in Nat /\ b \in Nat /\ n # p
  <2>1. a \in FreeOf(H) \cup {0} /\ b \in FreeOf(H) \cup {0} BY <1>4, FreeingInIs
  <2>2. QED BY <1>3, <2>1
<1>6. PICK H1 : H1 = WithPrev(H, p, a) OBVIOUS
<1>7. PICK H2 : H2 = WithNext(H1, p, b) OBVIOUS
<1>8. PICK H3 : H3 = WithNext(H2, a, p) OBVIOUS
<1>9. PICK H4 : H4 = WithPrev(H3, b, p) OBVIOUS
<1>10. PICK H5 : H5 = WithoutHead(H4, n) OBVIOUS
<1>11. /\ HeadsIn(H1) /\ DOMAIN H1 = DOMAIN H
       /\ \A q \in DOMAIN H : H1[q] = [busy |-> H[q].busy, len |-> H[q].len,
                                       prev |-> IF q = p THEN a ELSE H[q].prev, next |-> H[q].next]
  BY <1>3, <1>5, <1>6, PrevSet
<1>12. /\ HeadsIn(H2) /\ DOMAIN H2 = DOMAIN H
       /\ \A q \in DOMAIN H1 : H2[q] = [busy |-> H1[q].busy, len |-> H1[q].len, prev |-> H1[q].prev,
                                        next |-> IF q = p THEN b ELSE H1[q].next]
  BY <1>5, <1>11, <1>7, NextSet
<1>13. /\ HeadsIn(H3) /\ DOMAIN H3 = DOMAIN H
       /\ \A q \in DOMAIN H2 : H3[q] = [busy |-> H2[q].busy, len |-> H2[q].len, prev |-> H2[q].prev,
                                        next |-> IF q = a THEN p ELSE H2[q].next]
  BY <1>3, <1>12, <1>8, NextSet
<1>14. /\ HeadsIn(H4) /\ DOMAIN H4 = DOMAIN H
       /\ \A q \in DOMAIN H3 : H4[q] = [busy |-> H3[q].busy, len |-> H3[q].len,
                                        prev |-> IF q = b THEN p ELSE H3[q].prev, next |-> H3[q].next]
  BY <1>3, <1>13, <1>9, PrevSet
<1>15. PICK x : x = Trunk(id, base, tt, u, H4, T) OBVIOUS
<1>16. [x EXCEPT !.heads = WithoutHead(x.heads, n)] = Trunk(id, base, tt, u, H5, T)
       /\ HeadsIn(H5) /\ DOMAIN H5 = DOMAIN H \ {n} /\ \A q \in DOMAIN H \ {n} : H5[q] = H4[q]
  <2>0. HeadsIn(H5) /\ DOMAIN H5 = DOMAIN H4 \ {n} /\ \A q \in DOMAIN H4 \ {n} : H5[q] = H4[q]
    <3>1. HeadsIn(H4) BY <1>14
    <3>2. HeadsLeft(WithoutHead(H4, n), H4, n) BY <3>1, HeadsLeftAre
    <3>3. HeadsLeft(H5, H4, n) BY <1>10, <3>2
    <3>4. QED BY <3>3 DEF HeadsLeft
  <2>1. HeadsIn(H5) /\ DOMAIN H5 = DOMAIN H \ {n} /\ \A q \in DOMAIN H \ {n} : H5[q] = H4[q]
    BY <1>14, <2>0
  <2>2. x.heads = H4 BY <1>15 DEF Trunk
  <2>3. [x EXCEPT !.heads = H5] = Trunk(id, base, tt, u, H5, T) BY <1>15 DEF Trunk
  <2>4. QED BY <1>10, <2>1, <2>2, <2>3
<1>17. MergeNext(t, p) = Sized(Trunk(id, base, tt, u, H5, T), p, m)
  <2> DEFINE y == [[t EXCEPT !.heads[p].prev = a, !.heads[p].next = b]
                      EXCEPT !.heads[a].next = p, !.heads[b].prev = p]
  <2>1. [t EXCEPT !.heads[p].prev = a, !.heads[p].next = b]
          = [[t EXCEPT !.heads[p].prev = a] EXCEPT !.heads[p].next = b] OBVIOUS
  <2>2. [t EXCEPT !.heads[p].prev = a] = Trunk(id, base, tt, u, H1, T) BY <1>2, <1>6, LinkSet
  <2>3. [Trunk(id, base, tt, u, H1, T) EXCEPT !.heads[p].next = b] = Trunk(id, base, tt, u, H2, T)
    BY <1>7, LinkSet
  <2>4. [Trunk(id, base, tt, u, H2, T) EXCEPT !.heads[a].next = p] = Trunk(id, base, tt, u, H3, T)
    BY <1>8, LinkSet
  <2>5. [Trunk(id, base, tt, u, H3, T) EXCEPT !.heads[b].prev = p] = x BY <1>9, <1>15, LinkSet
  <2>6. y = x
    <3>1. PICK z : z = [t EXCEPT !.heads[p].prev = a, !.heads[p].next = b] OBVIOUS
    <3>2. z = Trunk(id, base, tt, u, H2, T) BY <2>1, <2>2, <2>3, <3>1
    <3>3. [z EXCEPT !.heads[a].next = p, !.heads[b].prev = p]
            = [[z EXCEPT !.heads[a].next = p] EXCEPT !.heads[b].prev = p] OBVIOUS
    <3>4. QED BY <2>4, <2>5, <3>1, <3>2, <3>3
  <2>7. MergeNext(t, p) = Sized([y EXCEPT !.heads = WithoutHead(y.heads, n)], p, m)
    BY <1>2, <1>4 DEF MergeNext
  <2> HIDE DEF y
  <2>8. QED BY <1>16, <2>6, <2>7
<1>18. \A q \in DOMAIN H :
         H4[q] = [busy |-> H[q].busy, len |-> H[q].len,
                  prev |-> IF q = b THEN p ELSE IF q = p THEN a ELSE H[q].prev,
                  next |-> IF q = a THEN p ELSE IF q = p THEN b ELSE H[q].next]
  <2>1. ASSUME NEW q \in DOMAIN H
        PROVE  H4[q] = [busy |-> H[q].busy, len |-> H[q].len,
                  prev |-> IF q = b THEN p ELSE IF q = p THEN a ELSE H[q].prev,
                  next |-> IF q = a THEN p ELSE IF q = p THEN b ELSE H[q].next]
    <3>1. H1[q].busy = H[q].busy /\ H1[q].len = H[q].len /\ H1[q].next = H[q].next
          /\ H1[q].prev = IF q = p THEN a ELSE H[q].prev BY <1>11
    <3>2. H2[q].busy = H[q].busy /\ H2[q].len = H[q].len
          /\ H2[q].prev = (IF q = p THEN a ELSE H[q].prev)
          /\ H2[q].next = IF q = p THEN b ELSE H[q].next BY <1>11, <1>12, <3>1
    <3>3. H3[q].busy = H[q].busy /\ H3[q].len = H[q].len
          /\ H3[q].prev = (IF q = p THEN a ELSE H[q].prev)
          /\ H3[q].next = IF q = a THEN p ELSE IF q = p THEN b ELSE H[q].next
      BY <1>12, <1>13, <3>2
    <3>4. QED BY <1>13, <1>14, <3>3
  <2>2. QED BY <2>1
<1>19. PICK K : SizedTrunk(MergeNext(t, p), t, K, p, m) /\ SizedHeads(H5, K, p, m)
  <2>1. p \in DOMAIN H5 /\ p \in Nat /\ m \in Nat /\ m >= 3
    <3>1. n \in DOMAIN H /\ p \in DOMAIN H5 BY <1>3, <1>5, <1>16
    <3>2. QED BY <1>3, <3>1
  <2>2. MergeNext(t, p) = Sized(Trunk(t.id, t.base, t.total, t.used, H5, t.tails), p, m)
    BY <1>1, <1>2, <1>17
  <2>3. QED BY <1>2, <1>3, <1>16, <2>1, <2>2, SizedIs
<1>20. FreedNext(H, K, p, n)
  <2>1. K = [q \in DOMAIN H \ {n} |-> K[q]] BY <1>16, <1>19 DEF SizedHeads
  <2>2. K[p] = [busy |-> FALSE, len |-> m, prev |-> a, next |-> b]
    <3>1. H4[p] = [busy |-> H[p].busy, len |-> H[p].len,
                   prev |-> IF p = b THEN p ELSE IF p = p THEN a ELSE H[p].prev,
                   next |-> IF p = a THEN p ELSE IF p = p THEN b ELSE H[p].next]
      BY <1>3, <1>18
    <3>2. H5[p].prev = a /\ H5[p].next = b BY <1>3, <1>5, <1>16, <3>1
    <3>3. QED BY <1>19, <3>2 DEF SizedHeads
  <2>3. \A q \in DOMAIN H \ {p, n} : K[q] = H4[q] BY <1>16, <1>19 DEF SizedHeads
  <2>4. \A q \in DOMAIN H \ {p, n} :
          K[q] = [busy |-> H[q].busy, len |-> H[q].len,
                  prev |-> IF q = H[n].next THEN p ELSE H[q].prev,
                  next |-> IF q = H[n].prev THEN p ELSE H[q].next]
    BY <1>4, <1>18, <2>3
  <2>5. QED BY <1>4, <2>1, <2>2, <2>4 DEF FreedNext
<1>21. QED BY <1>19, <1>20

LEMMA MergePrevIs ==
    ASSUME NEW t, NEW H, NEW T, NEW p, FreeingIn(t, H, T, p), NEW r \in FreeOf(H), r + H[r].len = p,
           NEW m, m = H[r].len + H[p].len, Len16(m) = m, Merged(t, p).len = m, PrevOf(t, p) = r
    PROVE  \E K : SizedTrunk(MergePrev(t, p), t, K, r, m) /\ FreedPrev(H, K, p, r)
<1>1. PICK id, base, tt, u : id = t.id /\ base = t.base /\ tt = t.total /\ u = t.used OBVIOUS
<1>2. t = Trunk(id, base, tt, u, H, T) /\ t.heads = H /\ t.tails = T BY <1>1 DEF FreeingIn
<1>3. /\ HeadsIn(H) /\ TailsTyped(T) /\ p \in DOMAIN H /\ p \notin FreeOf(H)
      /\ \A q \in DOMAIN H : /\ q \in Nat /\ H[q].len \in Nat /\ H[q].len >= 3
      /\ FreeOf(H) \subseteq DOMAIN H
  BY FreeingInIs
<1>4. PICK H1 : H1 = WithoutHead(H, p) OBVIOUS
<1>5. [t EXCEPT !.heads = WithoutHead(t.heads, p)] = Trunk(id, base, tt, u, H1, T)
      /\ HeadsIn(H1) /\ DOMAIN H1 = DOMAIN H \ {p} /\ \A q \in DOMAIN H \ {p} : H1[q] = H[q]
  <2>1. HeadsIn(H1) /\ DOMAIN H1 = DOMAIN H \ {p} /\ \A q \in DOMAIN H \ {p} : H1[q] = H[q]
    <3>1. HeadsIn(H) BY <1>3
    <3>2. HeadsLeft(WithoutHead(H, p), H, p) BY <3>1, HeadsLeftAre
    <3>3. HeadsLeft(H1, H, p) BY <1>4, <3>2
    <3>4. QED BY <3>3 DEF HeadsLeft
  <2>2. [t EXCEPT !.heads = H1] = Trunk(id, base, tt, u, H1, T) BY <1>2 DEF Trunk
  <2>3. QED BY <1>2, <1>4, <2>1, <2>2
<1>6. MergePrev(t, p) = Sized(Trunk(t.id, t.base, t.total, t.used, H1, t.tails), r, m)
  BY <1>1, <1>2, <1>5 DEF MergePrev
<1>7. r \in DOMAIN H /\ r # p /\ r \in DOMAIN H1 /\ r \in Nat /\ m \in Nat /\ m >= 3 BY <1>3, <1>5
<1>8. PICK K : SizedTrunk(MergePrev(t, p), t, K, r, m) /\ SizedHeads(H1, K, r, m)
  BY <1>2, <1>3, <1>5, <1>6, <1>7, SizedIs
<1>9. FreedPrev(H, K, p, r)
  <2>1. K = [q \in DOMAIN H \ {p} |-> K[q]] BY <1>5, <1>8 DEF SizedHeads
  <2>2. K[r] = [busy |-> FALSE, len |-> m, prev |-> H1[r].prev, next |-> H1[r].next]
    BY <1>8 DEF SizedHeads
  <2>3. H1[r] = H[r] BY <1>5, <1>7
  <2>4. \A q \in DOMAIN H \ {p, r} : K[q] = H[q] BY <1>5, <1>8 DEF SizedHeads
  <2>5. QED BY <2>1, <2>2, <2>3, <2>4 DEF FreedPrev
<1>10. QED BY <1>8, <1>9

Between(t, H, T, p, r, n, m) ==
    /\ FreeingIn(t, H, T, p) /\ r \in FreeOf(H) /\ r + H[r].len = p
    /\ n = p + H[p].len /\ n \in FreeOf(H) /\ m = H[r].len + H[p].len + H[n].len
    /\ Len16(m) = m /\ Merged(t, p).len = m /\ PrevOf(t, p) = r

LEMMA MergeBothIs ==
    ASSUME NEW t, NEW H, NEW T, NEW p, NEW r, NEW n, NEW m, Between(t, H, T, p, r, n, m)
    PROVE  \E K : SizedTrunk(MergeBoth(t, p), t, K, r, m) /\ FreedBoth(H, K, p, r, n)
<1>0. /\ FreeingIn(t, H, T, p) /\ r \in FreeOf(H) /\ r + H[r].len = p
      /\ n = p + H[p].len /\ n \in FreeOf(H) /\ m = H[r].len + H[p].len + H[n].len
      /\ Len16(m) = m /\ Merged(t, p).len = m /\ PrevOf(t, p) = r
  BY DEF Between
<1>1. PICK id, base, tt, u : id = t.id /\ base = t.base /\ tt = t.total /\ u = t.used OBVIOUS
<1>2. t = Trunk(id, base, tt, u, H, T) /\ t.heads = H /\ t.tails = T BY <1>0, <1>1 DEF FreeingIn
<1>3. /\ HeadsIn(H) /\ TailsTyped(T) /\ p \in DOMAIN H /\ p \notin FreeOf(H)
      /\ \A q \in DOMAIN H : /\ q \in Nat /\ H[q].busy \in BOOLEAN /\ H[q].len \in Nat
                             /\ H[q].prev \in Nat /\ H[q].next \in Nat /\ H[q].len >= 3
      /\ FreeOf(H) \subseteq DOMAIN H
  BY <1>0, FreeingInIs
<1>4. PICK J : J = [q \in DOMAIN H |-> [busy |-> H[q].busy, len |-> H[q].len,
                       prev |-> IF q = H[n].next THEN H[n].prev ELSE H[q].prev,
                       next |-> IF q = H[n].prev THEN H[n].next ELSE H[q].next]] OBVIOUS
<1>5. Unlinked(t, n) = Trunk(id, base, tt, u, J, T) BY <1>2, <1>3, <1>4, UnlinkedIs DEF HeadsIn
<1>6. DOMAIN J = DOMAIN H /\ \A q \in DOMAIN H :
         J[q] = [busy |-> H[q].busy, len |-> H[q].len,
                 prev |-> IF q = H[n].next THEN H[n].prev ELSE H[q].prev,
                 next |-> IF q = H[n].prev THEN H[n].next ELSE H[q].next]
  BY <1>4
<1>7. r \in DOMAIN H /\ n \in DOMAIN H /\ r # p /\ n # p /\ r # n /\ r \in Nat /\ m \in Nat /\ m >= 3
  <2>1. r \in DOMAIN H /\ n \in DOMAIN H BY <1>0, <1>3
  <2>2. r \in Nat /\ p \in Nat /\ n \in Nat /\ H[r].len \in Nat /\ H[r].len >= 3 /\ H[p].len \in Nat
        /\ H[p].len >= 3 /\ H[n].len \in Nat BY <1>0, <1>3, <2>1
  <2>3. QED BY <1>0, <2>1, <2>2
<1>8. HeadsIn(J)
  <2>1. J = [q \in DOMAIN J |-> J[q]] BY <1>4
  <2>2. ASSUME NEW q \in DOMAIN J PROVE J[q] \in HeadSet
    <3>1. PICK x, y : /\ x = (IF q = H[n].next THEN H[n].prev ELSE H[q].prev)
                      /\ y = (IF q = H[n].prev THEN H[n].next ELSE H[q].next) OBVIOUS
    <3>2. x \in Nat /\ y \in Nat /\ H[q].busy \in BOOLEAN /\ H[q].len \in Nat BY <1>3, <1>6, <1>7, <3>1
    <3>3. J[q] = [busy |-> H[q].busy, len |-> H[q].len, prev |-> x, next |-> y] BY <1>6, <3>1
    <3>4. QED BY <3>2, <3>3 DEF HeadSet
  <2>3. QED BY <2>1, <2>2 DEF HeadsIn
<1>9. PICK H2 : H2 = WithoutHead(WithoutHead(J, n), p) OBVIOUS
<1>10. /\ HeadsIn(WithoutHead(WithoutHead(J, n), p))
       /\ DOMAIN WithoutHead(WithoutHead(J, n), p) = DOMAIN J \ {p, n}
       /\ \A q \in DOMAIN J \ {p, n} : WithoutHead(WithoutHead(J, n), p)[q] = J[q]
  BY <1>8, WithoutTwo
<1>12. HeadsIn(H2) /\ DOMAIN H2 = DOMAIN H \ {p, n} /\ \A q \in DOMAIN H \ {p, n} : H2[q] = J[q]
  BY <1>6, <1>9, <1>10
<1>13. MergeBoth(t, p) = Sized(Trunk(t.id, t.base, t.total, t.used, H2, t.tails), r, m)
  <2>1. PICK x : x = Trunk(id, base, tt, u, J, T) OBVIOUS
  <2>2. x.heads = J BY <2>1 DEF Trunk
  <2>3. MergeBoth(t, p) = Sized([x EXCEPT !.heads = H2], r, m)
    BY <1>0, <1>2, <1>5, <1>9, <2>1, <2>2 DEF MergeBoth
  <2>4. [x EXCEPT !.heads = H2] = Trunk(id, base, tt, u, H2, T) BY <2>1 DEF Trunk
  <2>5. QED BY <1>1, <1>2, <2>3, <2>4
<1>14. PICK K : SizedTrunk(MergeBoth(t, p), t, K, r, m) /\ SizedHeads(H2, K, r, m)
  <2>1. r \in DOMAIN H2 BY <1>7, <1>12
  <2>2. TailsTyped(t.tails) BY <1>2, <1>3
  <2>3. QED BY <1>0, <1>7, <1>12, <1>13, <2>1, <2>2, SizedIs
<1>15. FreedBoth(H, K, p, r, n)
  <2>1. K = [q \in DOMAIN H \ {p, n} |-> K[q]] BY <1>12, <1>14 DEF SizedHeads
  <2>2. K[r] = [busy |-> FALSE, len |-> m, prev |-> H2[r].prev, next |-> H2[r].next]
    BY <1>14 DEF SizedHeads
  <2>3. H2[r] = [busy |-> H[r].busy, len |-> H[r].len,
                 prev |-> IF r = H[n].next THEN H[n].prev ELSE H[r].prev,
                 next |-> IF r = H[n].prev THEN H[n].next ELSE H[r].next]
    BY <1>6, <1>7, <1>12
  <2>4. K[r] = [busy |-> FALSE, len |-> H[r].len + H[p].len + H[n].len,
                prev |-> IF r = H[n].next THEN H[n].prev ELSE H[r].prev,
                next |-> IF r = H[n].prev THEN H[n].next ELSE H[r].next]
    BY <1>0, <2>2, <2>3
  <2>5. \A q \in DOMAIN H \ {p, n, r} : K[q] = J[q] BY <1>12, <1>14 DEF SizedHeads
  <2>6. \A q \in DOMAIN H \ {p, n, r} :
          K[q] = [busy |-> H[q].busy, len |-> H[q].len,
                  prev |-> IF q = H[n].next THEN H[n].prev ELSE H[q].prev,
                  next |-> IF q = H[n].prev THEN H[n].next ELSE H[q].next]
    BY <1>6, <2>5
  <2>7. QED BY <1>0, <2>1, <2>4, <2>6 DEF FreedBoth
<1>16. QED BY <1>14, <1>15

\* What is around the new free node at.
Around(H, K, p, at, m) ==
    /\ FreeOf(K) \subseteq FreeOf(H) \cup {at} /\ Block(at) = Block(at + m - 1)
    /\ at + m \in FreeOf(H) => \E n \in FreeOf(H) : n + H[n].len = at + m /\ at <= n
    /\ IF at = p THEN \A q \in FreeOf(H) : q + H[q].len # p ELSE at \in FreeOf(H)

LEMMA BorderedIs ==
    ASSUME NEW t, NEW H, NEW T, NEW p, FreeingIn(t, H, T, p), NEW K, NEW end, NEW at, NEW m,
           Joined(H, K, end, p, at, m), Around(H, K, p, at, m)
    PROVE  Bordered(K, at, m)
<1>1. /\ \A q \in DOMAIN H : /\ q \in Nat /\ H[q].len \in Nat /\ H[q].len >= 3
      /\ FreeOf(H) \subseteq DOMAIN H
  BY FreeingInIs
<1>2. /\ at \in DOMAIN H /\ m >= 3 /\ m \in Nat
      /\ \A q \in DOMAIN K : q # at => K[q].len = H[q].len
  <2>1. at \in DOMAIN K /\ DOMAIN K \subseteq DOMAIN H /\ m >= 3 /\ K[at].len = m /\ K[at] \in HeadSet
        /\ \A q \in DOMAIN K : q # at => K[q].len = H[q].len
    BY DEF Joined
  <2>2. m \in Nat BY <2>1 DEF HeadSet
  <2>3. QED BY <2>1, <2>2
<1>3. \A q \in FreeOf(H) : q + H[q].len \in FreeOf(H) => Block(q + H[q].len) # Block(q)
  BY DEF FreeingIn, FreeingAt, Body, Marked
<1>4. Block(at) = Block(at + m - 1) BY DEF Around
<1>5. ASSUME at + m \in FreeOf(K) PROVE Block(at + m) # Block(at)
  <2>1. at \in Nat /\ at + m # at BY <1>1, <1>2
  <2>2. at + m \in FreeOf(H) BY <1>5, <2>1 DEF Around
  <2>3. PICK n \in FreeOf(H) : n + H[n].len = at + m /\ at <= n BY <2>2 DEF Around
  <2>4. n \in Nat /\ H[n].len \in Nat /\ H[n].len >= 3 BY <1>1
  <2>5. n <= at + m - 1 /\ at + m - 1 \in Nat BY <1>2, <2>1, <2>3, <2>4
  <2>6. Block(n) = Block(at) BY <1>4, <2>1, <2>3, <2>4, <2>5, BlockBetween
  <2>7. Block(n + H[n].len) # Block(n) BY <1>3, <2>2, <2>3
  <2>8. QED BY <2>3, <2>6, <2>7
<1>6. ASSUME NEW q \in FreeOf(K), q # at, q + K[q].len = at PROVE Block(at) # Block(q)
  <2>1. q \in FreeOf(H) /\ q \in DOMAIN K BY <1>6 DEF Around, FreeOf
  <2>2. q + H[q].len = at BY <1>2, <1>6, <2>1
  <2>3. at # p BY <2>1, <2>2 DEF Around
  <2>4. at \in FreeOf(H) BY <2>3 DEF Around
  <2>5. QED BY <1>3, <2>1, <2>2, <2>4
<1>7. QED BY <1>4, <1>5, <1>6 DEF Bordered

\* Trunk r is trunk t without the busy node p.
Took(t, r, p) ==
    /\ TrunkOK(r) /\ r.id = t.id /\ r.base = t.base /\ r.total = t.total
    /\ r.used = t.used - t.heads[p].len /\ Busy(r) = Busy(t) \ {p}
    /\ \A q \in Busy(r) : r.heads[q].len = t.heads[q].len

LEMMA JoinedTrunk ==
    ASSUME NEW t, NEW H, NEW T, NEW p, FreeingIn(t, H, T, p), t.total \in Nat, NEW K, NEW at, NEW m, NEW y,
           SizedTrunk(y, t, K, at, m), Joined(H, K, t.total + MIN_NODE_SIZE, p, at, m),
           Around(H, K, p, at, m), \E d : Ring(K, d) /\ Within(d) = FreeOf(K)
    PROVE  Took(t, [y EXCEPT !.used = t.used - t.heads[p].len], p)
<1>1. PICK id, base, tt, u, v, end : /\ id = t.id /\ base = t.base /\ tt = t.total /\ u = t.used
                                     /\ v = u - H[p].len /\ end = t.total + MIN_NODE_SIZE
  OBVIOUS
<1>2. t.heads = H /\ t.tails = T /\ t = Trunk(id, base, tt, u, H, T) /\ Body(H, T, end, u)
  BY <1>1 DEF FreeingIn, FreeingAt
<1>3. PICK U : /\ y = Trunk(id, base, tt, u, K, U)
               /\ TailsKept(T, U, at, m) /\ at + m - 1 \in DOMAIN U /\ U[at + m - 1] = m
  BY <1>1, <1>2 DEF SizedTrunk
<1>4. Bordered(K, at, m) BY BorderedIs
<1>5. Joined(H, K, end, p, at, m) BY <1>1
<1>6. /\ Body(K, U, end, u - H[p].len) /\ BusyOf(K) = BusyOf(H) \ {p}
      /\ \A q \in BusyOf(K) : K[q].len = H[q].len
  BY <1>2, <1>3, <1>4, <1>5, JoinedBody
<1>7. PICK r : r = [y EXCEPT !.used = v] OBVIOUS
<1>8. r = Trunk(id, base, tt, v, K, U) BY <1>3, <1>7 DEF Trunk
<1>9. /\ r.id = id /\ r.base = base /\ r.total = tt /\ r.used = v /\ r.heads = K
      /\ Busy(r) = BusyOf(K) /\ (tt \in Nat /\ Body(K, U, tt + MIN_NODE_SIZE, v) => TrunkOK(r))
  BY <1>8, TrunkFields
<1>10. Busy(t) = BusyOf(H) BY <1>2, TrunkFields
<1>11. Took(t, r, p) BY <1>1, <1>2, <1>6, <1>9, <1>10 DEF Took
<1>12. QED BY <1>1, <1>2, <1>7, <1>11

\* The guards and tails tell whether the neighbours of p are free.
LEMMA Neighbours ==
    ASSUME NEW t, NEW H, NEW T, NEW p, FreeingIn(t, H, T, p), ~Misread(t, p)
    PROVE  /\ PrevFree(t, p) => PrevOf(t, p) \in FreeOf(H) /\ PrevOf(t, p) + H[PrevOf(t, p)].len = p
           /\ ~PrevFree(t, p) => \A q \in FreeOf(H) : q + H[q].len # p
           /\ NextFree(t, p) <=> p + H[p].len \in FreeOf(H)
<1>1. t.heads = H /\ t.tails = T BY DEF FreeingIn
<1>2. /\ TailsTyped(T) /\ p \in DOMAIN H /\ p \in Nat /\ p # 0 /\ FreeOf(H) \subseteq DOMAIN H
      /\ \A q \in DOMAIN H : /\ q \in Nat /\ H[q].busy \in BOOLEAN /\ H[q].len \in Nat /\ H[q].len >= 3
  BY FreeingInIs
<1>3. ASSUME PrevFree(t, p) PROVE PrevOf(t, p) \in FreeOf(H) /\ PrevOf(t, p) + H[PrevOf(t, p)].len = p
  <2>1. p - 1 \in DOMAIN T /\ PrevOf(t, p) # 0 /\ GuardBefore(t, p)
    BY <1>1, <1>3 DEF PrevFree, GuardBefore, free_head
  <2>2. PrevOf(t, p) \in DOMAIN H /\ ~H[PrevOf(t, p)].busy /\ H[PrevOf(t, p)].len = T[p - 1]
    BY <1>1, <2>1 DEF Misread
  <2>3. PrevOf(t, p) = p - T[p - 1] /\ T[p - 1] \in Int BY <1>1, <1>2, <2>1 DEF PrevOf, TailsTyped
  <2>4. PrevOf(t, p) + T[p - 1] = p BY <1>2, <2>3
  <2>5. QED BY <2>1, <2>2, <2>4 DEF FreeOf, free_head
<1>4. ASSUME ~PrevFree(t, p), NEW q \in FreeOf(H), q + H[q].len = p PROVE FALSE
  <2>1. q \in Nat /\ H[q].len \in Nat /\ q # 0 BY <1>2 DEF FreeOf, free_head
  <2>2. q + H[q].len - 1 \in DOMAIN T /\ T[q + H[q].len - 1] = H[q].len
    BY DEF FreeingIn, FreeingAt, Body, Marked
  <2>03. q + H[q].len - 1 = p - 1 BY <1>2, <1>4, <2>1
  <2>3. p - 1 \in DOMAIN T /\ T[p - 1] = H[q].len BY <2>2, <2>03
  <2>4. PrevOf(t, p) = p - H[q].len /\ p - H[q].len = q BY <1>1, <1>2, <1>4, <2>1, <2>3 DEF PrevOf
  <2>5. QED BY <1>1, <1>4, <2>1, <2>3, <2>4 DEF PrevFree, GuardBefore, free_head
<1>5. NextFree(t, p) <=> p + H[p].len \in FreeOf(H)
  <2>1. p + H[p].len # 0 BY <1>2
  <2>2. QED BY <1>1, <2>1 DEF NextFree, FreeOf, free_head
<1>6. QED BY <1>3, <1>4, <1>5

LEMMA MergedIs ==
    ASSUME NEW t, NEW H, NEW T, NEW p, FreeingIn(t, H, T, p), ~Misread(t, p), ~Crosses(t, p),
           NEW at, NEW m, NEW n, n = p + H[p].len,
           at = IF PrevFree(t, p) THEN PrevOf(t, p) ELSE p,
           m = (IF PrevFree(t, p) THEN H[at].len ELSE 0) + H[p].len + (IF NextFree(t, p) THEN H[n].len ELSE 0)
    PROVE  /\ Merged(t, p).len = m /\ Block(at) = Block(at + m - 1) /\ Len16(m) = m
           /\ at + m = IF NextFree(t, p) THEN n + H[n].len ELSE n
           /\ at \in Nat /\ at <= n
<1>1. t.heads = H BY DEF FreeingIn
<1>2. /\ p \in DOMAIN H /\ FreeOf(H) \subseteq DOMAIN H
      /\ \A q \in DOMAIN H : /\ q \in Nat /\ H[q].len \in Nat /\ H[q].len >= 3
  BY FreeingInIs
<1>3. PICK e : e = IF NextFree(t, p) THEN n + H[n].len ELSE n OBVIOUS
<1>4. Merged(t, p) = [at |-> at, len |-> e - at] BY <1>1, <1>3 DEF Merged
<1>5. PICK a : a = IF PrevFree(t, p) THEN H[at].len ELSE 0 OBVIOUS
<1>6. PICK b : b = IF NextFree(t, p) THEN H[n].len ELSE 0 OBVIOUS
<1>7. a \in Nat /\ at + a = p /\ at \in Nat
  <2>1. CASE PrevFree(t, p)
    <3>1. at \in FreeOf(H) /\ at + H[at].len = p BY <2>1, Neighbours
    <3>2. QED BY <1>2, <1>5, <2>1, <3>1
  <2>2. CASE ~PrevFree(t, p) BY <1>2, <1>5, <2>2
  <2>3. QED BY <2>1, <2>2
<1>8. b \in Nat /\ e = n + b
  <2>1. CASE NextFree(t, p)
    <3>1. n \in FreeOf(H) BY <2>1, Neighbours
    <3>2. QED BY <1>2, <1>3, <1>6, <2>1, <3>1
  <2>2. CASE ~NextFree(t, p) BY <1>2, <1>3, <1>6, <2>2
  <2>3. QED BY <2>1, <2>2
<1>9. m = a + H[p].len + b /\ H[p].len \in Nat /\ H[p].len >= 3 BY <1>2, <1>5, <1>6
<1>10. e - at = m /\ m \in Nat \ {0} /\ at + m = e /\ at <= n BY <1>2, <1>7, <1>8, <1>9
<1>11. Merged(t, p).len = m /\ Merged(t, p).at = at BY <1>4, <1>10
<1>12. Block(at) = Block(at + m - 1) BY <1>11 DEF Crosses
<1>13. Len16(m) = m BY <1>7, <1>10, <1>12, Len16Is
<1>14. QED BY <1>3, <1>7, <1>10, <1>11, <1>12, <1>13

\* A busy node becomes a part of the free space, joined to every free neighbour, unless it
\* has been misread or the joined node would reach out of its block.
THEOREM FreeingKeepsTrunk ==
    ASSUME NEW t, TrunkOK(t), NEW p \in Busy(t), ~Misread(t, p), ~Crosses(t, p)
    PROVE  Took(t, Freed(t, p), p)
<1>1. PICK H, T, end : H = t.heads /\ T = t.tails /\ end = t.total + MIN_NODE_SIZE OBVIOUS
<1>2. t = Trunk(t.id, t.base, t.total, t.used, H, T) /\ t.total \in Nat /\ Body(H, T, end, t.used)
  BY <1>1 DEF TrunkOK
<1>3. p \in BusyOf(H) BY <1>2, TrunkFields
<1>4. FreeingIn(t, H, T, p) /\ FreeingAt(H, T, end, t.used, p)
  BY <1>1, <1>2, <1>3 DEF FreeingIn, FreeingAt
<1>5. PICK n, v : n = p + H[p].len /\ v = t.used - t.heads[p].len OBVIOUS
<1>6. PICK r : r = PrevOf(t, p) OBVIOUS
<1>7. /\ p \in DOMAIN H /\ FreeOf(H) \subseteq DOMAIN H /\ p \notin FreeOf(H)
      /\ \A q \in DOMAIN H : /\ q \in Nat /\ H[q].len \in Nat /\ H[q].len >= 3
  BY <1>4, FreeingInIs
<1>8. /\ PrevFree(t, p) => r \in FreeOf(H) /\ r + H[r].len = p
      /\ ~PrevFree(t, p) => \A q \in FreeOf(H) : q + H[q].len # p
      /\ NextFree(t, p) <=> n \in FreeOf(H)
  BY <1>4, <1>5, <1>6, Neighbours
<1>9. ASSUME NEW y, Freed(t, p) = [y EXCEPT !.used = v], NEW K, NEW at, NEW m,
             SizedTrunk(y, t, K, at, m), Joined(H, K, end, p, at, m),
             Around(H, K, p, at, m), \E d : Ring(K, d) /\ Within(d) = FreeOf(K)
      PROVE  Took(t, Freed(t, p), p)
  <2>1. Took(t, [y EXCEPT !.used = t.used - t.heads[p].len], p)
    BY <1>1, <1>2, <1>4, <1>9, JoinedTrunk
  <2>2. QED BY <1>5, <1>9, <2>1
<1>10. PICK at : at = IF PrevFree(t, p) THEN PrevOf(t, p) ELSE p OBVIOUS
<1>11. PICK m : m = (IF PrevFree(t, p) THEN H[at].len ELSE 0) + H[p].len
                       + (IF NextFree(t, p) THEN H[n].len ELSE 0) OBVIOUS
<1>12. /\ Merged(t, p).len = m /\ Block(at) = Block(at + m - 1) /\ Len16(m) = m
       /\ at + m = IF NextFree(t, p) THEN n + H[n].len ELSE n
       /\ at \in Nat /\ at <= n
  BY <1>4, <1>5, <1>10, <1>11, MergedIs
<1>13. ASSUME NEW K, FreeOf(K) \subseteq FreeOf(H) \cup {at} PROVE Around(H, K, p, at, m)
  <2>1. at + m \in FreeOf(H) => \E q \in FreeOf(H) : q + H[q].len = at + m /\ at <= q
    <3>1. CASE NextFree(t, p) BY <1>8, <1>12, <3>1
    <3>2. CASE ~NextFree(t, p) BY <1>8, <1>12, <3>2
    <3>3. QED BY <3>1, <3>2
  <2>2. IF at = p THEN \A q \in FreeOf(H) : q + H[q].len # p ELSE at \in FreeOf(H)
    <3>1. CASE PrevFree(t, p)
      <4>1. at \in FreeOf(H) BY <1>6, <1>8, <1>10, <3>1
      <4>2. QED BY <1>7, <4>1
    <3>2. CASE ~PrevFree(t, p) BY <1>8, <1>10, <3>2
    <3>3. QED BY <3>1, <3>2
  <2>3. QED BY <1>12, <1>13, <2>1, <2>2 DEF Around
<1>14. CASE PrevFree(t, p) /\ NextFree(t, p)
  <2>1. at = r /\ r \in FreeOf(H) /\ r + H[r].len = p /\ n \in FreeOf(H) BY <1>6, <1>8, <1>10, <1>14
  <2>2. m = H[r].len + H[p].len + H[n].len BY <1>11, <1>14, <2>1
  <2>3. Between(t, H, T, p, r, n, m) BY <1>4, <1>5, <1>6, <1>12, <2>1, <2>2 DEF Between
  <2>4. PICK K : SizedTrunk(MergeBoth(t, p), t, K, r, m) /\ FreedBoth(H, K, p, r, n)
    BY <2>3, MergeBothIs
  <2>5. /\ Joined(H, K, end, p, r, H[r].len + H[p].len + H[n].len) /\ FreeOf(K) = FreeOf(H) \ {n}
        /\ \E d : Ring(K, d) /\ Within(d) = FreeOf(K)
    BY <1>4, <2>4, FreedBothJoins
  <2>6. Around(H, K, p, at, m) BY <1>13, <2>5
  <2>7. Freed(t, p) = [MergeBoth(t, p) EXCEPT !.used = v] BY <1>5, <1>14 DEF Freed
  <2>8. QED BY <1>9, <2>1, <2>2, <2>4, <2>5, <2>6, <2>7
<1>15. CASE PrevFree(t, p) /\ ~NextFree(t, p)
  <2>1. at = r /\ r \in FreeOf(H) /\ r + H[r].len = p BY <1>6, <1>8, <1>10, <1>15
  <2>2. m = H[r].len + H[p].len
    <3>1. H[r].len \in Nat /\ H[p].len \in Nat BY <1>7, <2>1
    <3>2. QED BY <1>11, <1>15, <2>1, <3>1
  <2>3. PICK K : SizedTrunk(MergePrev(t, p), t, K, r, m) /\ FreedPrev(H, K, p, r)
    BY <1>4, <1>6, <1>12, <2>1, <2>2, MergePrevIs
  <2>4. /\ Joined(H, K, end, p, r, H[r].len + H[p].len) /\ FreeOf(K) = FreeOf(H)
        /\ \E d : Ring(K, d) /\ Within(d) = FreeOf(K)
    BY <1>4, <2>3, FreedPrevJoins
  <2>5. Around(H, K, p, at, m) BY <1>13, <2>4
  <2>6. Freed(t, p) = [MergePrev(t, p) EXCEPT !.used = v] BY <1>5, <1>15 DEF Freed
  <2>7. QED BY <1>9, <2>1, <2>2, <2>3, <2>4, <2>5, <2>6
<1>16. CASE ~PrevFree(t, p) /\ NextFree(t, p)
  <2>1. at = p /\ n \in FreeOf(H) BY <1>8, <1>10, <1>16
  <2>2. m = H[p].len + H[n].len
    <3>1. H[n].len \in Nat /\ H[p].len \in Nat BY <1>7, <2>1
    <3>2. QED BY <1>11, <1>16, <2>1, <3>1
  <2>3. PICK K : SizedTrunk(MergeNext(t, p), t, K, p, m) /\ FreedNext(H, K, p, n)
    BY <1>4, <1>5, <1>12, <2>1, <2>2, MergeNextIs
  <2>4. /\ Joined(H, K, end, p, p, H[p].len + H[n].len) /\ FreeOf(K) = (FreeOf(H) \ {n}) \cup {p}
        /\ \E d : Ring(K, d) /\ Within(d) = FreeOf(K)
    BY <1>4, <2>3, FreedNextJoins
  <2>5. Around(H, K, p, at, m) BY <1>13, <2>1, <2>4
  <2>6. Freed(t, p) = [MergeNext(t, p) EXCEPT !.used = v] BY <1>5, <1>16 DEF Freed
  <2>7. QED BY <1>9, <2>1, <2>2, <2>3, <2>4, <2>5, <2>6
<1>17. CASE ~PrevFree(t, p) /\ ~NextFree(t, p)
  <2>1. at = p BY <1>10, <1>17
  <2>2. m = H[p].len
    <3>1. H[p].len \in Nat BY <1>7
    <3>2. QED BY <1>11, <1>17, <2>1, <3>1
  <2>3. PICK K : SizedTrunk(AtEnd(t, p), t, K, p, m) /\ FreedLast(H, K, p)
    BY <1>4, <1>12, <2>1, <2>2, AtEndIs
  <2>4. /\ Joined(H, K, end, p, p, H[p].len) /\ FreeOf(K) = FreeOf(H) \cup {p}
        /\ \E d : Ring(K, d) /\ Within(d) = FreeOf(K)
    BY <1>4, <2>3, FreedLastJoins
  <2>5. Around(H, K, p, at, m) BY <1>13, <2>1, <2>4
  <2>6. Freed(t, p) = [AtEnd(t, p) EXCEPT !.used = v] BY <1>5, <1>17 DEF Freed
  <2>7. QED BY <1>9, <2>1, <2>2, <2>3, <2>4, <2>5, <2>6
<1>18. QED BY <1>14, <1>15, <1>16, <1>17

-----------------------------------------------------------------------------
(* New trunks *)

\* So many slots that the last block of a trunk has room for a node.
SizeOk(z) == z \in Nat /\ z >= MIN_NODE_SIZE /\ (z + MIN_NODE_SIZE) % BlockSlots \notin 1 .. MIN_NODE_SIZE - 1

St(k) == IF k = 0 THEN MIN_NODE_SIZE ELSE k * BlockSlots
En(k, end) == Least((k + 1) * BlockSlots, end)

LEMMA Times ==
    ASSUME NEW b \in Nat, NEW k \in Nat
    PROVE  k * b \in Nat /\ (k + 1) * b = k * b + b /\ \A j \in Nat : j < k => (j + 1) * b <= k * b
<1>1. k * b \in Nat /\ (k + 1) * b = k * b + b OBVIOUS
<1>2. ASSUME NEW j \in Nat, j < k PROVE (j + 1) * b <= k * b
  <2>1. PICK d \in Nat : k = j + 1 + d
    <3>1. k - j - 1 \in Nat /\ k = j + 1 + (k - j - 1) BY <1>2
    <3>2. QED BY <3>1
  <2>2. k * b = (j + 1) * b + d * b /\ d * b \in Nat /\ (j + 1) * b \in Nat BY <2>1
  <2>3. QED BY <2>2
<1>3. QED BY <1>1, <1>2

\* The blocks of a trunk up to end, the last of them the n-th.
BlocksTo(end, n) ==
    /\ n \in Nat /\ end \in Nat
    /\ \A k \in 0 .. n : /\ St(k) \in Nat /\ St(k) >= 3 /\ Block(St(k)) = k
                         /\ En(k, end) \in Nat /\ En(k, end) = (IF k = n THEN end ELSE St(k + 1))
                         /\ St(k) + 3 <= En(k, end) /\ En(k, end) <= St(k) + BlockSlots
                         /\ Block(En(k, end) - 1) = k /\ En(k, end) <= end
    /\ \A j, k \in 0 .. n : j < k => En(j, end) <= St(k)

LEMMA BlocksOf ==
    ASSUME NEW z, SizeOk(z), NEW n, n = (z + MIN_NODE_SIZE - 1) \div BlockSlots
    PROVE  BlocksTo(z + MIN_NODE_SIZE, n)
<1>1. PICK B : B = BlockSlots OBVIOUS
<1>2. B \in Nat /\ B >= 6 /\ B \in Nat \ {0} BY <1>1, Sizes
<1>3. PICK end : end = z + 3 OBVIOUS
<1>4. z \in Nat /\ z >= 3 /\ (end % B) \notin 1 .. 2 /\ end \in Nat
  BY <1>1, <1>3 DEF SizeOk, MIN_NODE_SIZE
<1>5. PICK w : w = end - 1 OBVIOUS
<1>6. w \in Nat /\ n = w \div B BY <1>1, <1>3, <1>4, <1>5 DEF MIN_NODE_SIZE
<1>7. w = B * n + (w % B) /\ w % B \in 0 .. B - 1 /\ n \in Nat BY <1>2, <1>6, Quotient
<1>8. PICK c : c = n * B OBVIOUS
<1>9. c \in Nat /\ c <= w /\ w < c + B /\ w - c = w % B
  <2>1. PICK r : r = w % B OBVIOUS
  <2>2. w = B * n + r /\ r \in 0 .. B - 1 BY <1>7, <2>1
  <2>3. c = B * n /\ c \in Nat BY <1>2, <1>7, <1>8
  <2>4. QED BY <1>2, <2>1, <2>2, <2>3
<1>10. \A k \in Nat : k * B \in Nat /\ (k + 1) * B = k * B + B BY <1>2, Times
<1>11. \A j, k \in Nat : j < k => (j + 1) * B <= k * B BY <1>2, Times
<1>12. \A k : St(k) = IF k = 0 THEN 3 ELSE k * B BY <1>1 DEF St, MIN_NODE_SIZE
<1>13. \A k : En(k, end) = IF (k + 1) * B < end THEN (k + 1) * B ELSE end BY <1>1 DEF En, Least
<1>14. end - c >= 3
  <2>1. end = c + (w - c) + 1 /\ w - c \in 0 .. B - 1 BY <1>2, <1>4, <1>5, <1>9
  <2>2. PICK r : r = w - c OBVIOUS
  <2>3. CASE r = B - 1 BY <1>2, <1>9, <2>1, <2>2, <2>3
  <2>4. CASE r < B - 1
    <3>1. r + 1 \in 0 .. B - 1 /\ end = B * n + (r + 1)
      <4>1. r \in Nat /\ c = B * n BY <1>2, <1>7, <1>8, <2>1, <2>2
      <4>2. QED BY <1>2, <1>9, <2>1, <2>2, <2>4, <4>1
    <3>02. PICK e : e = r + 1 OBVIOUS
    <3>03. e \in 0 .. B - 1 /\ end = B * n + e BY <3>1, <3>02
    <3>04. end % B = e
      <4>1. B \in Nat \ {0} /\ n \in Nat /\ end \in Nat BY <1>2, <1>4, <1>7
      <4>2. QED BY <3>03, <4>1, QuotientIs
    <3>2. end % B = r + 1 BY <3>02, <3>04
    <3>3. r + 1 \notin 1 .. 2 /\ r \in Nat BY <1>4, <2>1, <2>2, <3>2
    <3>4. QED BY <1>4, <1>9, <2>1, <2>2, <3>3
  <2>5. QED BY <1>2, <1>4, <2>1, <2>2, <2>3, <2>4
<1>15. ASSUME NEW k \in 0 .. n
       PROVE  /\ St(k) \in Nat /\ St(k) >= 3 /\ Block(St(k)) = k
              /\ En(k, end) \in Nat /\ En(k, end) = (IF k = n THEN end ELSE St(k + 1))
              /\ St(k) + 3 <= En(k, end) /\ En(k, end) <= St(k) + B
              /\ Block(En(k, end) - 1) = k /\ En(k, end) <= end
  <2>1. PICK a : a = k * B OBVIOUS
  <2>2. k \in Nat /\ k <= n /\ a \in Nat /\ (k + 1) * B = a + B BY <1>7, <1>10, <2>1
  <2>3. St(k) = (IF k = 0 THEN 3 ELSE a) /\ (k = 0 => a = 0) /\ (k # 0 => a >= B)
    <3>1. k = 0 => a = 0 BY <1>2, <2>1
    <3>2. k # 0 => a >= B
      <4>1. CASE k # 0
        <5>1. 0 < k /\ (0 + 1) * B <= k * B BY <1>11, <2>2, <4>1
        <5>2. QED BY <1>2, <2>1, <5>1
      <4>2. QED BY <4>1
    <3>3. QED BY <1>12, <2>1, <3>1, <3>2
  <2>4. St(k) \in Nat /\ St(k) >= 3 /\ a <= St(k) /\ St(k) < a + B BY <1>2, <2>2, <2>3
  <2>5. \A p \in Nat : a <= p /\ p < a + B => Block(p) = k BY <1>1, <2>1, <2>2, BlockIs
  <2>6. Block(St(k)) = k BY <2>4, <2>5
  <2>7. CASE k = n
    <3>1. a = c BY <1>8, <2>1, <2>7
    <3>2. En(k, end) = end
      <4>1. end <= a + B BY <1>2, <1>4, <1>5, <1>9, <3>1
      <4>2. QED BY <1>2, <1>4, <1>13, <2>2, <4>1
    <3>3. St(k) + 3 <= end
      <4>1. CASE k = 0 BY <1>3, <1>4, <2>3, <4>1
      <4>2. CASE k # 0 BY <1>4, <1>9, <1>14, <2>3, <3>1, <4>2
      <4>3. QED BY <4>1, <4>2
    <3>4. end <= St(k) + B BY <1>2, <1>4, <1>5, <1>9, <2>4, <3>1
    <3>5. Block(end - 1) = k BY <1>4, <1>5, <1>6, <1>9, <2>5, <3>1
    <3>6. QED BY <1>4, <2>4, <2>6, <2>7, <3>2, <3>3, <3>4, <3>5
  <2>8. CASE k # n
    <3>1. k < n /\ (k + 1) * B <= c BY <1>7, <1>8, <1>11, <2>2, <2>8
    <3>2. a + B <= w BY <1>2, <1>6, <1>9, <2>2, <3>1
    <3>3. En(k, end) = a + B BY <1>2, <1>4, <1>5, <1>6, <1>13, <2>2, <3>2
    <3>4. St(k + 1) = a + B BY <1>12, <2>2
    <3>5. a + B - 1 \in Nat /\ a <= a + B - 1 /\ a + B - 1 < a + B /\ a + B <= end
      BY <1>2, <1>4, <1>5, <2>2, <3>2
    <3>6. Block(a + B - 1) = k BY <2>5, <3>5
    <3>7. St(k) + 3 <= a + B /\ a + B <= St(k) + B /\ a + B \in Nat BY <1>2, <2>2, <2>3
    <3>8. /\ En(k, end) \in Nat /\ En(k, end) = (IF k = n THEN end ELSE St(k + 1))
          /\ St(k) + 3 <= En(k, end) /\ En(k, end) <= St(k) + B /\ En(k, end) <= end
      BY <2>8, <3>3, <3>4, <3>5, <3>7
    <3>9. Block(En(k, end) - 1) = k
      <4>1. PICK e : e = En(k, end) OBVIOUS
      <4>2. e - 1 \in Nat /\ a <= e - 1 /\ e - 1 < a + B BY <1>2, <2>2, <3>3, <3>5, <4>1
      <4>3. QED BY <2>5, <4>1, <4>2
    <3>10. QED BY <2>4, <2>6, <3>8, <3>9
  <2>9. QED BY <2>7, <2>8
<1>16. ASSUME NEW j \in 0 .. n, NEW k \in 0 .. n, j < k PROVE En(j, end) <= St(k)
  <2>1. j \in Nat /\ k \in Nat /\ k # 0 /\ j # n BY <1>7, <1>16
  <2>2. (j + 1) * B <= k * B BY <1>11, <1>16, <2>1
  <2>3. En(j, end) = St(j + 1) BY <1>15, <2>1
  <2>4. St(j + 1) = (j + 1) * B BY <1>12, <2>1
  <2>5. QED BY <1>12, <2>1, <2>2, <2>3, <2>4
<1>17. z + MIN_NODE_SIZE = end BY <1>3 DEF MIN_NODE_SIZE
<1>18. QED BY <1>1, <1>4, <1>7, <1>15, <1>16, <1>17 DEF BlocksTo

\* One free node in each block, linked in their order.
Starting(H, T, n, end) ==
    /\ H = [p \in {0} \cup {St(k) : k \in 0 .. n} |-> H[p]]
    /\ H[0] = [busy |-> FALSE, len |-> 3, prev |-> St(n), next |-> St(0)]
    /\ \A k \in 0 .. n :
          H[St(k)] = [busy |-> FALSE, len |-> En(k, end) - St(k),
                      prev |-> IF k = 0 THEN 0 ELSE St(k - 1), next |-> IF k = n THEN 0 ELSE St(k + 1)]
    /\ TailsTyped(T)
    /\ \A k \in 0 .. n : En(k, end) - 1 \in DOMAIN T /\ T[En(k, end) - 1] = En(k, end) - St(k)

LEMMA StartingBody ==
    ASSUME NEW H, NEW T, NEW n, NEW end, BlocksTo(end, n), Starting(H, T, n, end)
    PROVE  /\ Body(H, T, end, 0) /\ BusyOf(H) = {} /\ FreeOf(H) = {St(k) : k \in 0 .. n}
           /\ DOMAIN H = {0} \cup {St(k) : k \in 0 .. n}
<1>1. /\ n \in Nat /\ end \in Nat
      /\ \A k \in 0 .. n : /\ St(k) \in Nat /\ St(k) >= 3 /\ Block(St(k)) = k
                           /\ En(k, end) \in Nat /\ En(k, end) = (IF k = n THEN end ELSE St(k + 1))
                           /\ St(k) + 3 <= En(k, end) /\ En(k, end) <= St(k) + BlockSlots
                           /\ Block(En(k, end) - 1) = k /\ En(k, end) <= end
      /\ \A j, k \in 0 .. n : j < k => En(j, end) <= St(k)
  BY DEF BlocksTo
<1>2. PICK S : S = {St(k) : k \in 0 .. n} OBVIOUS
<1>3. DOMAIN H = {0} \cup S /\ H = [p \in DOMAIN H |-> H[p]]
  <2>1. H = [p \in {0} \cup S |-> H[p]] BY <1>2 DEF Starting
  <2>2. QED BY <2>1, DomainIs
<1>4. \A p \in S : \E k \in 0 .. n : p = St(k) BY <1>2
<1>5. \A k \in 0 .. n : St(k) \in S BY <1>2
<1>6. H[0] = [busy |-> FALSE, len |-> 3, prev |-> St(n), next |-> St(0)] BY DEF Starting
<1>7. \A k \in 0 .. n :
          H[St(k)] = [busy |-> FALSE, len |-> En(k, end) - St(k),
                      prev |-> IF k = 0 THEN 0 ELSE St(k - 1), next |-> IF k = n THEN 0 ELSE St(k + 1)]
  BY DEF Starting
<1>8. ASSUME NEW k \in 0 .. n
      PROVE  /\ H[St(k)].busy = FALSE /\ H[St(k)].len = En(k, end) - St(k) /\ H[St(k)].len \in Nat
             /\ H[St(k)].len >= 3 /\ St(k) + H[St(k)].len = En(k, end)
             /\ H[St(k)].prev = (IF k = 0 THEN 0 ELSE St(k - 1))
             /\ H[St(k)].next = (IF k = n THEN 0 ELSE St(k + 1))
             /\ H[St(k)].prev \in Nat /\ H[St(k)].next \in Nat
  <2>1. /\ H[St(k)].busy = FALSE /\ H[St(k)].len = En(k, end) - St(k)
        /\ H[St(k)].prev = (IF k = 0 THEN 0 ELSE St(k - 1))
        /\ H[St(k)].next = (IF k = n THEN 0 ELSE St(k + 1))
    <3>1. PICK a, b, l : /\ a = (IF k = 0 THEN 0 ELSE St(k - 1)) /\ b = (IF k = n THEN 0 ELSE St(k + 1))
                         /\ l = En(k, end) - St(k) OBVIOUS
    <3>2. H[St(k)] = [busy |-> FALSE, len |-> l, prev |-> a, next |-> b] BY <1>7, <3>1
    <3>3. H[St(k)].busy = FALSE /\ H[St(k)].len = l /\ H[St(k)].prev = a /\ H[St(k)].next = b BY <3>2
    <3>4. QED BY <3>1, <3>3
  <2>2. H[St(k)].len \in Nat /\ H[St(k)].len >= 3 /\ St(k) + H[St(k)].len = En(k, end) BY <1>1, <2>1
  <2>3. k # 0 => k - 1 \in 0 .. n BY <1>1
  <2>4. k # n => k + 1 \in 0 .. n BY <1>1
  <2>5. QED BY <1>1, <2>1, <2>2, <2>3, <2>4
<1>9. 0 \in 0 .. n /\ n \in 0 .. n BY <1>1
<1>10. \A p \in S : p \in Nat /\ p >= 3 BY <1>1, <1>4
<1>11. HeadsTyped(H)
  <2>1. DOMAIN H \subseteq 0 .. end
    <3>1. \A k \in 0 .. n : St(k) \in 0 .. end BY <1>1
    <3>2. QED BY <1>1, <1>3, <1>4, <3>1
  <2>2. IsFiniteSet(DOMAIN H)
    <3>1. IsFiniteSet(0 .. end) BY <1>1, FS_Interval
    <3>2. QED BY <2>1, <3>1, FS_Subset
  <2>3. ASSUME NEW p \in DOMAIN H PROVE H[p] \in HeadSet
    <3>1. CASE p = 0
      <4>1. PICK a, b : a = St(n) /\ b = St(0) OBVIOUS
      <4>2. a \in Nat /\ b \in Nat BY <1>1, <1>9, <4>1
      <4>3. H[p] = [busy |-> FALSE, len |-> 3, prev |-> a, next |-> b] BY <1>6, <3>1, <4>1
      <4>4. QED BY <4>2, <4>3 DEF HeadSet
    <3>2. CASE p # 0
      <4>1. PICK k \in 0 .. n : p = St(k) BY <1>3, <1>4, <3>2
      <4>2. PICK a, b, l : a = H[p].prev /\ b = H[p].next /\ l = H[p].len OBVIOUS
      <4>3. a \in Nat /\ b \in Nat /\ l \in Nat BY <1>8, <4>1, <4>2
      <4>4. H[p] = [busy |-> FALSE, len |-> l, prev |-> a, next |-> b]
        BY <1>7, <1>8, <4>1, <4>2
      <4>5. QED BY <4>3, <4>4 DEF HeadSet
    <3>3. QED BY <3>1, <3>2
  <2>4. DOMAIN H \subseteq Nat BY <1>1, <2>1
  <2>5. QED BY <1>3, <2>2, <2>3, <2>4 DEF HeadsTyped
<1>12. H[0].busy = FALSE /\ H[0].len = 3 /\ H[0].prev = St(n) /\ H[0].next = St(0) BY <1>6
<1>13. St(0) = 3 BY DEF St, MIN_NODE_SIZE
<1>14. \A p \in DOMAIN H : H[p].busy = FALSE
  <2>1. ASSUME NEW p \in DOMAIN H PROVE H[p].busy = FALSE
    <3>1. CASE p = 0 BY <1>12, <3>1
    <3>2. CASE p # 0
      <4>1. PICK k \in 0 .. n : p = St(k) BY <1>3, <1>4, <3>2
      <4>2. QED BY <1>8, <4>1
    <3>3. QED BY <3>1, <3>2
  <2>2. QED BY <2>1
<1>15. BusyOf(H) = {} BY <1>14 DEF BusyOf
<1>16. FreeOf(H) = S
  <2>1. 0 \notin S BY <1>10
  <2>2. QED BY <1>3, <1>14, <2>1 DEF FreeOf, free_head
<1>17. \A p \in DOMAIN H : /\ H[p].len >= 3 /\ p + H[p].len \in DOMAIN H \cup {end} /\ p + H[p].len <= end
  <2>1. ASSUME NEW p \in DOMAIN H
        PROVE  H[p].len >= 3 /\ p + H[p].len \in DOMAIN H \cup {end} /\ p + H[p].len <= end
    <3>1. CASE p = 0
      <4>1. p + H[p].len = St(0) /\ St(0) \in S BY <1>5, <1>9, <1>12, <1>13, <3>1
      <4>2. St(0) <= end
        <5>1. St(0) + 3 <= En(0, end) /\ En(0, end) <= end /\ En(0, end) \in Nat BY <1>1, <1>9
        <5>2. QED BY <1>1, <1>13, <5>1
      <4>3. QED BY <1>3, <1>12, <3>1, <4>1, <4>2
    <3>2. CASE p # 0
      <4>1. PICK k \in 0 .. n : p = St(k) BY <1>3, <1>4, <3>2
      <4>2. p + H[p].len = En(k, end) /\ H[p].len >= 3 /\ En(k, end) <= end BY <1>1, <1>8, <4>1
      <4>3. En(k, end) \in DOMAIN H \cup {end}
        <5>1. CASE k = n BY <1>1, <5>1
        <5>2. CASE k # n
          <6>1. k + 1 \in 0 .. n /\ En(k, end) = St(k + 1) BY <1>1, <5>2
          <6>2. QED BY <1>3, <1>5, <6>1
        <5>3. QED BY <5>1, <5>2
      <4>4. QED BY <4>2, <4>3
    <3>3. QED BY <3>1, <3>2
  <2>2. QED BY <2>1
<1>18. ASSUME NEW j \in 0 .. n, NEW k \in 0 .. n, St(j) < St(k) PROVE j < k
  <2>1. j = k \/ k < j \/ j < k BY <1>1
  <2>2. ~(k < j)
    <3>1. k < j => St(k) + 3 <= En(k, end) /\ En(k, end) <= St(j) /\ En(k, end) \in Nat BY <1>1
    <3>2. St(j) \in Nat /\ St(k) \in Nat BY <1>1
    <3>3. QED BY <1>18, <3>1, <3>2
  <2>3. j # k
    <3>1. St(j) \in Nat BY <1>1
    <3>2. QED BY <1>18, <3>1
  <2>4. QED BY <2>1, <2>2, <2>3
<1>19. \A p, q \in DOMAIN H : p < q => p + H[p].len <= q
  <2>1. ASSUME NEW p \in DOMAIN H, NEW q \in DOMAIN H, p < q PROVE p + H[p].len <= q
    <3>1. q # 0 BY <1>3, <1>10, <2>1
    <3>2. PICK k \in 0 .. n : q = St(k) BY <1>3, <1>4, <3>1
    <3>3. CASE p = 0 BY <1>1, <1>12, <3>2, <3>3
    <3>4. CASE p # 0
      <4>1. PICK j \in 0 .. n : p = St(j) BY <1>3, <1>4, <3>4
      <4>2. j < k BY <1>18, <2>1, <3>2, <4>1
      <4>3. St(j) + H[St(j)].len = En(j, end) BY <1>8
      <4>4. En(j, end) <= St(k) BY <1>1, <4>2
      <4>5. QED BY <3>2, <4>1, <4>3, <4>4
    <3>5. QED BY <3>3, <3>4
  <2>2. QED BY <2>1
<1>20. Tiled(H, end) BY <1>3, <1>12, <1>17, <1>19 DEF Tiled, free_head, MIN_NODE_SIZE
<1>21. Marked(H, T)
  <2>1. ASSUME NEW p \in FreeOf(H)
        PROVE  /\ Block(p) = Block(p + H[p].len - 1)
               /\ p + H[p].len - 1 \in DOMAIN T /\ T[p + H[p].len - 1] = H[p].len
               /\ p + H[p].len \in FreeOf(H) => Block(p + H[p].len) # Block(p)
    <3>1. PICK k \in 0 .. n : p = St(k) BY <1>4, <1>16
    <3>2. p + H[p].len = En(k, end) /\ H[p].len = En(k, end) - St(k) BY <1>8, <3>1
    <3>3. Block(p) = k /\ Block(En(k, end) - 1) = k BY <1>1, <3>1
    <3>4. En(k, end) - 1 \in DOMAIN T /\ T[En(k, end) - 1] = En(k, end) - St(k) BY DEF Starting
    <3>5. En(k, end) \in FreeOf(H) => Block(En(k, end)) # k
      <4>1. CASE k = n
        <5>1. En(k, end) = end BY <1>1, <4>1
        <5>2. \A j \in 0 .. n : St(j) < end
          <6>1. \A j \in 0 .. n : St(j) + 3 <= En(j, end) /\ En(j, end) <= end /\ En(j, end) \in Nat
            BY <1>1
          <6>2. QED BY <1>1, <6>1
        <5>3. end \notin S BY <1>1, <1>4, <5>2
        <5>4. QED BY <1>16, <5>1, <5>3
      <4>2. CASE k # n
        <5>1. k + 1 \in 0 .. n /\ En(k, end) = St(k + 1) BY <1>1, <4>2
        <5>2. Block(St(k + 1)) = k + 1 BY <1>1, <5>1
        <5>3. k + 1 # k BY <1>1
        <5>4. QED BY <5>1, <5>2, <5>3
      <4>3. QED BY <4>1, <4>2
    <3>6. PICK e, l : e = En(k, end) /\ l = H[p].len OBVIOUS
    <3>7. p + l = e /\ p + l - 1 = e - 1
      <4>1. p \in Nat /\ l \in Nat /\ e \in Nat BY <1>1, <1>8, <3>1, <3>6
      <4>2. p + l = e BY <3>2, <3>6
      <4>3. QED BY <4>1, <4>2
    <3>8. Block(p) = k /\ Block(e - 1) = k /\ e - 1 \in DOMAIN T /\ T[e - 1] = l
          /\ (e \in FreeOf(H) => Block(e) # k)
      BY <3>2, <3>3, <3>4, <3>5, <3>6
    <3>9. QED BY <3>6, <3>7, <3>8
  <2>2. QED BY <2>1 DEF Marked
<1>22. \E c : Ring(H, c) /\ Within(c) = FreeOf(H)
  <2>1. PICK d : d = [k \in 1 .. n + 1 |-> St(k - 1)] OBVIOUS
  <2>2. d = [k \in 1 .. n + 1 |-> d[k]] /\ \A k \in 1 .. n + 1 : d[k] = St(k - 1) BY <2>1
  <2>3. \A k \in 1 .. n + 1 : k - 1 \in 0 .. n BY <1>1
  <2>4. NumberList(d, n + 1)
    <3>1. \A k \in 1 .. n + 1 : d[k] \in Nat \ {0}
      <4>1. \A k \in 1 .. n + 1 : St(k - 1) \in Nat /\ St(k - 1) >= 3 BY <1>1, <2>3
      <4>2. QED BY <2>2, <4>1
    <3>2. ASSUME NEW j \in 1 .. n + 1, NEW k \in 1 .. n + 1, d[j] = d[k] PROVE j = k
      <4>1. PICK a, b : a = j - 1 /\ b = k - 1 OBVIOUS
      <4>2. a \in 0 .. n /\ b \in 0 .. n /\ St(a) = St(b) BY <2>2, <2>3, <3>2, <4>1
      <4>3. ~(a < b)
        <5>1. a < b => St(a) + 3 <= En(a, end) /\ En(a, end) <= St(b) /\ En(a, end) \in Nat BY <1>1, <4>2
        <5>2. St(a) \in Nat BY <1>1, <4>2
        <5>3. QED BY <4>2, <5>1, <5>2
      <4>4. ~(b < a)
        <5>1. b < a => St(b) + 3 <= En(b, end) /\ En(b, end) <= St(a) /\ En(b, end) \in Nat BY <1>1, <4>2
        <5>2. St(a) \in Nat BY <1>1, <4>2
        <5>3. QED BY <4>2, <5>1, <5>2
      <4>5. QED BY <1>1, <4>1, <4>2, <4>3, <4>4
    <3>3. n + 1 \in Nat BY <1>1
    <3>4. QED BY <2>2, <3>1, <3>2, <3>3 DEF NumberList
  <2>5. /\ d \in Seq(Nat) /\ Len(d) = n + 1 /\ Distinct(d) /\ free_head \notin Within(d)
        /\ \A k : Linked(d, k) = IF k \in 1 .. n + 1 THEN d[k] ELSE 0
    BY <2>4, ListIs
  <2>6. \A k \in 0 .. n + 1 : H[Linked(d, k)].next = Linked(d, k + 1) /\ H[Linked(d, k + 1)].prev = Linked(d, k)
    <3>1. ASSUME NEW k \in 0 .. n + 1
          PROVE  H[Linked(d, k)].next = Linked(d, k + 1) /\ H[Linked(d, k + 1)].prev = Linked(d, k)
      <4>1. Linked(d, k) = IF k = 0 THEN 0 ELSE St(k - 1)
        <5>1. CASE k = 0
          <6>1. k \notin 1 .. n + 1 BY <5>1
          <6>2. QED BY <2>5, <5>1, <6>1
        <5>2. CASE k # 0
          <6>1. k \in 1 .. n + 1 BY <1>1, <5>2
          <6>2. QED BY <2>2, <2>5, <5>2, <6>1
        <5>3. QED BY <5>1, <5>2
      <4>2. Linked(d, k + 1) = IF k = n + 1 THEN 0 ELSE St(k)
        <5>1. CASE k = n + 1 BY <1>1, <2>5, <5>1
        <5>2. CASE k # n + 1
          <6>1. k + 1 \in 1 .. n + 1 /\ k + 1 - 1 = k BY <1>1, <5>2
          <6>2. QED BY <2>2, <2>5, <5>2, <6>1
        <5>3. QED BY <5>1, <5>2
      <4>3. H[Linked(d, k)].next = Linked(d, k + 1)
        <5>1. CASE k = 0 BY <1>1, <1>12, <4>1, <4>2, <5>1
        <5>2. CASE k # 0
          <6>1. k - 1 \in 0 .. n /\ (k - 1 = n <=> k = n + 1) /\ k - 1 + 1 = k BY <1>1, <5>2
          <6>2. H[St(k - 1)].next = IF k - 1 = n THEN 0 ELSE St(k - 1 + 1) BY <1>8, <6>1
          <6>3. QED BY <4>1, <4>2, <5>2, <6>1, <6>2
        <5>3. QED BY <5>1, <5>2
      <4>4. H[Linked(d, k + 1)].prev = Linked(d, k)
        <5>1. CASE k = n + 1
          <6>1. k # 0 /\ k - 1 = n BY <1>1, <5>1
          <6>2. QED BY <1>12, <4>1, <4>2, <5>1, <6>1
        <5>2. CASE k # n + 1
          <6>1. k \in 0 .. n BY <1>1, <5>2
          <6>2. QED BY <1>8, <4>1, <4>2, <5>2, <6>1
        <5>3. QED BY <5>1, <5>2
      <4>5. QED BY <4>3, <4>4
    <3>2. QED BY <3>1
  <2>7. Ring(H, d) BY <2>5, <2>6 DEF Ring
  <2>8. Within(d) = S
    <3>1. Within(d) = {d[k] : k \in 1 .. n + 1} BY <2>5 DEF Within
    <3>2. \A k \in 1 .. n + 1 : d[k] \in S BY <1>5, <2>2, <2>3
    <3>3. ASSUME NEW p \in S PROVE \E k \in 1 .. n + 1 : d[k] = p
      <4>1. PICK k \in 0 .. n : p = St(k) BY <1>4
      <4>2. k + 1 \in 1 .. n + 1 /\ k + 1 - 1 = k BY <1>1
      <4>3. QED BY <2>2, <4>1, <4>2
    <3>4. QED BY <3>1, <3>2, <3>3
  <2>9. QED BY <1>16, <2>7, <2>8
<1>23. 0 = SumOf(LenIn(H), BusyOf(H)) BY <1>15, SumNone
<1>24. TailsTyped(T) BY DEF Starting
<1>25. Body(H, T, end, 0) BY <1>1, <1>11, <1>20, <1>21, <1>22, <1>23, <1>24 DEF Body
<1>26. QED BY <1>2, <1>3, <1>15, <1>16, <1>25

\* What cvsp_init_trunk makes.
LEMMA InitTrunkIs ==
    ASSUME NEW id, NEW z, NEW base, SizeOk(z), NEW n, n = (z + MIN_NODE_SIZE - 1) \div BlockSlots
    PROVE  \E H, T : /\ cvsp_init_trunk(id, z, base) = Trunk(id, base, z, 0, H, T)
                     /\ Starting(H, T, n, z + MIN_NODE_SIZE)
                     /\ Starts(z) = {St(k) : k \in 0 .. n}
<1>1. PICK e : e = z + MIN_NODE_SIZE OBVIOUS
<1>2. BlocksTo(e, n) BY <1>1, BlocksOf
<1>3. /\ n \in Nat /\ e \in Nat
      /\ \A k \in 0 .. n : /\ St(k) \in Nat /\ St(k) >= 3 /\ Block(St(k)) = k
                           /\ En(k, e) \in Nat /\ En(k, e) = (IF k = n THEN e ELSE St(k + 1))
                           /\ St(k) + 3 <= En(k, e) /\ En(k, e) <= St(k) + BlockSlots
      /\ \A j, k \in 0 .. n : j < k => En(j, e) <= St(k)
  BY <1>2 DEF BlocksTo
<1>4. PICK S : S = Starts(z) OBVIOUS
<1>5. S = {St(k) : k \in 0 .. n}
  <2>1. S = {3} \cup {k * BlockSlots : k \in 1 .. n} BY <1>4 DEF Starts, MIN_NODE_SIZE
  <2>2. St(0) = 3 /\ \A k \in 1 .. n : St(k) = k * BlockSlots BY DEF St, MIN_NODE_SIZE
  <2>3. \A p : p \in S <=> p \in {St(k) : k \in 0 .. n}
    <3>1. ASSUME NEW p \in S PROVE \E k \in 0 .. n : p = St(k)
      <4>1. CASE p = 3
        <5>1. 0 \in 0 .. n BY <1>3
        <5>2. QED BY <2>2, <4>1, <5>1
      <4>2. CASE p # 3
        <5>1. PICK k \in 1 .. n : p = k * BlockSlots BY <2>1, <4>2
        <5>2. k \in 0 .. n OBVIOUS
        <5>3. QED BY <2>2, <5>1, <5>2
      <4>3. QED BY <4>1, <4>2
    <3>2. ASSUME NEW k \in 0 .. n PROVE St(k) \in S
      <4>1. CASE k = 0 BY <2>1, <2>2, <4>1
      <4>2. CASE k # 0
        <5>1. k \in 1 .. n BY <1>3, <4>2
        <5>2. QED BY <2>1, <2>2, <5>1
      <4>3. QED BY <4>1, <4>2
    <3>3. QED BY <3>1, <3>2
  <2>4. QED BY <2>3
<1> DEFINE end(p) == Least((Block(p) + 1) * BlockSlots, z + MIN_NODE_SIZE)
           len(p) == IF p = free_head THEN MIN_NODE_SIZE ELSE end(p) - p
           Before(p) == {q \in S : q < p}
           After(p) == {q \in S : q > p}
           pr(p) == IF p = free_head THEN Max(S) ELSE IF Before(p) = {} THEN free_head ELSE Max(Before(p))
           nx(p) == IF After(p) = {} THEN free_head ELSE Min(After(p))
           H == [p \in S \cup {free_head} |-> [busy |-> FALSE, len |-> len(p), prev |-> pr(p), next |-> nx(p)]]
           E == {p + len(p) - 1 : p \in S \cup {free_head}}
           L(s) == CHOOSE x \in 1 .. BlockSlots : \E p \in S \cup {free_head} : len(p) = x /\ p + x - 1 = s
           T == [s \in E |-> L(s)]
<1>6. cvsp_init_trunk(id, z, base) = [id |-> id, base |-> base, total |-> z, used |-> 0, heads |-> H, tails |-> T]
  BY <1>4 DEF cvsp_init_trunk
<1>7. cvsp_init_trunk(id, z, base) = Trunk(id, base, z, 0, H, T)
  <2> HIDE DEF H, T
  <2>1. QED BY <1>6 DEF Trunk
<1>8. \A k \in 0 .. n : St(k) \in S BY <1>5
<1>9. \A p \in S : \E k \in 0 .. n : p = St(k) BY <1>5
<1>10. S \subseteq Nat /\ \A p \in S : p >= 3 BY <1>3, <1>9
<1>11. 0 \in 0 .. n /\ n \in 0 .. n BY <1>3
<1>12. \A j, k \in 0 .. n : j < k => St(j) < St(k)
  <2>1. ASSUME NEW j \in 0 .. n, NEW k \in 0 .. n, j < k PROVE St(j) < St(k)
    <3>1. St(j) + 3 <= En(j, e) /\ En(j, e) <= St(k) /\ St(j) \in Nat /\ En(j, e) \in Nat /\ St(k) \in Nat
      BY <1>3, <2>1
    <3>2. QED BY <3>1
  <2>2. QED BY <2>1
<1>13. \A k \in 0 .. n : len(St(k)) = En(k, e) - St(k)
  <2>1. ASSUME NEW k \in 0 .. n PROVE len(St(k)) = En(k, e) - St(k)
    <3>1. St(k) # 0 /\ Block(St(k)) = k BY <1>3
    <3>2. QED BY <1>1, <3>1 DEF En, free_head
  <2>2. QED BY <2>1
<1>14. len(0) = 3 BY DEF free_head, MIN_NODE_SIZE
<1>15. nx(0) = St(0)
  <2>0. \A q \in S : q > 0 BY <1>10
  <2>1. After(0) = S BY <2>0
  <2>2. St(0) \in S /\ \A m \in S : St(0) <= m
    <3>1. ASSUME NEW m \in S PROVE St(0) <= m
      <4>1. PICK k \in 0 .. n : m = St(k) BY <1>9
      <4>2. CASE k = 0
        <5>1. St(0) \in Nat BY <1>3, <1>11
        <5>2. QED BY <4>1, <4>2, <5>1
      <4>3. CASE k # 0
        <5>1. 0 < k BY <1>3, <4>3
        <5>2. St(0) < St(k) /\ St(0) \in Nat /\ St(k) \in Nat BY <1>3, <1>11, <1>12, <5>1
        <5>3. QED BY <4>1, <5>2
      <4>4. QED BY <4>2, <4>3
    <3>2. QED BY <1>8, <1>11, <3>1
  <2>3. Min(S) = St(0) BY <1>10, <2>2, MinIs
  <2>4. S # {} BY <2>2
  <2>5. QED BY <2>1, <2>3, <2>4
<1>16. pr(0) = St(n)
  <2>1. ASSUME NEW m \in S PROVE m <= St(n)
    <3>1. PICK k \in 0 .. n : m = St(k) BY <1>9
    <3>2. CASE k = n
      <4>1. St(n) \in Nat BY <1>3, <1>11
      <4>2. QED BY <3>1, <3>2, <4>1
    <3>3. CASE k # n
      <4>1. k < n BY <1>3, <3>3
      <4>2. St(k) < St(n) /\ St(k) \in Nat /\ St(n) \in Nat BY <1>3, <1>11, <1>12, <4>1
      <4>3. QED BY <3>1, <4>2
    <3>4. QED BY <3>2, <3>3
  <2>2. St(n) \in S BY <1>8, <1>11
  <2>3. Max(S) = St(n) BY <1>10, <2>1, <2>2, MaxIs
  <2>4. QED BY <2>3 DEF free_head
<1>17. ASSUME NEW j \in 0 .. n, NEW k \in 0 .. n, St(j) < St(k) PROVE j < k
  <2>1. j = k \/ k < j \/ j < k BY <1>3
  <2>2. St(j) \in Nat /\ St(k) \in Nat BY <1>3
  <2>3. ~(k < j)
    <3>1. k < j => St(k) < St(j) BY <1>12
    <3>2. QED BY <1>17, <2>2, <3>1
  <2>4. j # k BY <1>17, <2>2
  <2>5. QED BY <2>1, <2>3, <2>4
<1>18. \A k \in 0 .. n : nx(St(k)) = IF k = n THEN 0 ELSE St(k + 1)
  <2>1. ASSUME NEW k \in 0 .. n PROVE nx(St(k)) = IF k = n THEN 0 ELSE St(k + 1)
    <3>1. St(k) \in Nat BY <1>3
    <3>2. CASE k = n
      <4>1. ASSUME NEW m \in After(St(k)) PROVE FALSE
        <5>1. m \in S /\ m > St(k) OBVIOUS
        <5>2. PICK j \in 0 .. n : m = St(j) BY <1>9, <5>1
        <5>3. St(k) < St(j) BY <1>10, <3>1, <5>1, <5>2
        <5>4. k < j BY <1>17, <5>3
        <5>5. QED BY <1>3, <3>2, <5>4
      <4>2. After(St(k)) = {} BY <4>1
      <4>3. QED BY <3>2, <4>2 DEF free_head
    <3>3. CASE k # n
      <4>1. k + 1 \in 0 .. n /\ k < k + 1 BY <1>3, <3>3
      <4>2. St(k) < St(k + 1) /\ St(k + 1) \in S /\ St(k + 1) \in Nat BY <1>3, <1>8, <1>12, <4>1
      <4>3. PICK A : A = After(St(k)) OBVIOUS
      <4>4. St(k + 1) \in A BY <3>1, <4>2, <4>3
      <4>5. ASSUME NEW m \in A PROVE St(k + 1) <= m
        <5>1. m \in S /\ m > St(k) BY <4>3, <4>5
        <5>2. PICK j \in 0 .. n : m = St(j) BY <1>9, <5>1
        <5>3. St(k) < St(j) BY <1>10, <3>1, <5>1, <5>2
        <5>4. k < j BY <1>17, <5>3
        <5>5. CASE j = k + 1 BY <4>2, <5>2, <5>5
        <5>6. CASE j # k + 1
          <6>1. k + 1 < j BY <1>3, <5>4, <5>6
          <6>2. St(k + 1) < St(j) /\ St(j) \in Nat BY <1>3, <1>12, <4>1, <6>1
          <6>3. QED BY <4>2, <5>2, <6>2
        <5>7. QED BY <5>5, <5>6
      <4>6. A \subseteq Nat BY <1>10, <4>3
      <4>7. Min(A) = St(k + 1) BY <4>4, <4>5, <4>6, MinIs
      <4>8. A # {} BY <4>4
      <4>9. QED BY <3>3, <4>3, <4>7, <4>8
    <3>4. QED BY <3>2, <3>3
  <2>2. QED BY <2>1
<1>19. \A k \in 0 .. n : pr(St(k)) = IF k = 0 THEN 0 ELSE St(k - 1)
  <2>1. ASSUME NEW k \in 0 .. n PROVE pr(St(k)) = IF k = 0 THEN 0 ELSE St(k - 1)
    <3>1. St(k) \in Nat /\ St(k) # free_head BY <1>3 DEF free_head
    <3>2. CASE k = 0
      <4>1. ASSUME NEW m \in Before(St(k)) PROVE FALSE
        <5>1. m \in S /\ m < St(k) OBVIOUS
        <5>2. PICK j \in 0 .. n : m = St(j) BY <1>9, <5>1
        <5>3. j < k BY <1>17, <5>1, <5>2
        <5>4. QED BY <1>3, <3>2, <5>3
      <4>2. Before(St(k)) = {} BY <4>1
      <4>3. QED BY <3>1, <3>2, <4>2 DEF free_head
    <3>3. CASE k # 0
      <4>1. k - 1 \in 0 .. n /\ k - 1 < k BY <1>3, <3>3
      <4>2. St(k - 1) < St(k) /\ St(k - 1) \in S /\ St(k - 1) \in Nat BY <1>3, <1>8, <1>12, <4>1
      <4>3. PICK A : A = Before(St(k)) OBVIOUS
      <4>4. St(k - 1) \in A BY <3>1, <4>2, <4>3
      <4>5. ASSUME NEW m \in A PROVE m <= St(k - 1)
        <5>1. m \in S /\ m < St(k) BY <4>3, <4>5
        <5>2. PICK j \in 0 .. n : m = St(j) BY <1>9, <5>1
        <5>3. j < k BY <1>17, <5>1, <5>2
        <5>4. CASE j = k - 1 BY <4>2, <5>2, <5>4
        <5>5. CASE j # k - 1
          <6>1. j < k - 1 BY <1>3, <5>3, <5>5
          <6>2. St(j) < St(k - 1) /\ St(j) \in Nat BY <1>3, <1>12, <4>1, <6>1
          <6>3. QED BY <4>2, <5>2, <6>2
        <5>6. QED BY <5>4, <5>5
      <4>6. A \subseteq Nat BY <1>10, <4>3
      <4>7. Max(A) = St(k - 1) BY <4>4, <4>5, <4>6, MaxIs
      <4>8. A # {} BY <4>4
      <4>9. QED BY <3>1, <3>3, <4>3, <4>7, <4>8
    <3>4. QED BY <3>2, <3>3
  <2>2. QED BY <2>1
<1>20. /\ H = [p \in {0} \cup S |-> H[p]]
       /\ H[0] = [busy |-> FALSE, len |-> 3, prev |-> St(n), next |-> St(0)]
       /\ \A k \in 0 .. n :
            H[St(k)] = [busy |-> FALSE, len |-> En(k, e) - St(k),
                        prev |-> IF k = 0 THEN 0 ELSE St(k - 1), next |-> IF k = n THEN 0 ELSE St(k + 1)]
  <2> HIDE DEF len, pr, nx
  <2>1. S \cup {free_head} = {0} \cup S BY DEF free_head
  <2>2. \A p \in {0} \cup S : H[p] = [busy |-> FALSE, len |-> len(p), prev |-> pr(p), next |-> nx(p)]
    BY <2>1
  <2>3. H = [p \in {0} \cup S |-> H[p]] BY <2>1
  <2> HIDE DEF H
  <2>4. H[0] = [busy |-> FALSE, len |-> 3, prev |-> St(n), next |-> St(0)]
    BY <1>14, <1>15, <1>16, <2>2
  <2>5. ASSUME NEW k \in 0 .. n
        PROVE  H[St(k)] = [busy |-> FALSE, len |-> En(k, e) - St(k),
                        prev |-> IF k = 0 THEN 0 ELSE St(k - 1), next |-> IF k = n THEN 0 ELSE St(k + 1)]
    <3>1. H[St(k)] = [busy |-> FALSE, len |-> len(St(k)), prev |-> pr(St(k)), next |-> nx(St(k))]
      BY <1>8, <2>2
    <3>2. len(St(k)) = En(k, e) - St(k) /\ pr(St(k)) = (IF k = 0 THEN 0 ELSE St(k - 1))
          /\ nx(St(k)) = IF k = n THEN 0 ELSE St(k + 1) BY <1>13, <1>18, <1>19
    <3>3. QED BY <3>1, <3>2
  <2>6. QED BY <2>3, <2>4, <2>5
<1>21. \A p \in S \cup {0} : /\ p \in Nat /\ len(p) \in 1 .. BlockSlots /\ len(p) \in Nat
                             /\ \A q \in S \cup {0} : p < q => p + len(p) <= q
  <2> HIDE DEF len
  <2>0. BlockSlots \in Nat /\ BlockSlots >= 6 BY Sizes
  <2>1. ASSUME NEW k \in 0 .. n PROVE len(St(k)) \in 1 .. BlockSlots /\ St(k) + len(St(k)) = En(k, e)
    BY <1>3, <1>13, <2>0
  <2>2. ASSUME NEW p \in S \cup {0}
        PROVE  /\ p \in Nat /\ len(p) \in 1 .. BlockSlots /\ len(p) \in Nat
               /\ \A q \in S \cup {0} : p < q => p + len(p) <= q
    <3>1. CASE p = 0 BY <1>10, <1>14, <2>0, <3>1
    <3>2. CASE p # 0
      <4>1. PICK k \in 0 .. n : p = St(k) BY <1>9, <3>2
      <4>2. ASSUME NEW q \in S \cup {0}, p < q PROVE p + len(p) <= q
        <5>1. q # 0 BY <1>10, <3>2, <4>2
        <5>2. PICK j \in 0 .. n : q = St(j) BY <1>9, <5>1
        <5>3. k < j BY <1>17, <4>1, <4>2, <5>2
        <5>4. En(k, e) <= St(j) /\ St(k) + len(St(k)) = En(k, e) BY <1>3, <2>1, <5>3
        <5>5. QED BY <4>1, <5>2, <5>4
      <4>3. p \in Nat /\ len(p) \in 1 .. BlockSlots BY <1>3, <2>1, <4>1
      <4>4. QED BY <4>2, <4>3
    <3>3. QED BY <3>1, <3>2
  <2>3. QED BY <2>2
<1>22. \A p \in S \cup {0} : p + len(p) - 1 \in DOMAIN T /\ T[p + len(p) - 1] = len(p)
  <2> HIDE DEF len
  <2>1. S \cup {free_head} = S \cup {0} BY DEF free_head
  <2>2. ASSUME NEW p \in S \cup {0}
        PROVE  p + len(p) - 1 \in DOMAIN T /\ T[p + len(p) - 1] = len(p)
    <3>1. PICK s : s = p + len(p) - 1 OBVIOUS
    <3>2. s \in DOMAIN T BY <2>1, <3>1
    <3>3. T[s] = CHOOSE x \in 1 .. BlockSlots : \E q \in S \cup {0} : len(q) = x /\ q + x - 1 = s
      BY <2>1, <3>2
    <3> HIDE DEF T
    <3>4. \E x \in 1 .. BlockSlots : \E q \in S \cup {0} : len(q) = x /\ q + x - 1 = s BY <1>21, <3>1
    <3>5. T[s] \in 1 .. BlockSlots /\ \E q \in S \cup {0} : len(q) = T[s] /\ q + T[s] - 1 = s
      BY <3>3, <3>4
    <3>6. PICK q \in S \cup {0} : len(q) = T[s] /\ q + T[s] - 1 = s BY <3>5
    <3>7. /\ p \in Nat /\ q \in Nat /\ len(p) \in Nat /\ len(q) \in Nat
          /\ len(p) >= 1 /\ len(q) >= 1
          /\ (p < q => p + len(p) <= q) /\ (q < p => q + len(q) <= p) BY <1>21
    <3>8. q + len(q) = p + len(p) BY <3>1, <3>6, <3>7
    <3>9. p = q BY <3>7, <3>8
    <3>10. QED BY <3>1, <3>2, <3>6, <3>9
  <2>3. QED BY <2>2
<1>23. TailsTyped(T)
  <2>1. T = [s \in DOMAIN T |-> T[s]]
    <3> HIDE DEF E, L
    <3>1. QED OBVIOUS
  <2>2. ASSUME NEW s \in DOMAIN T PROVE T[s] \in Int
    <3> HIDE DEF len
    <3>1. PICK p \in S \cup {0} : s = p + len(p) - 1 BY DEF free_head
    <3> HIDE DEF T
    <3>2. T[s] = len(p) BY <1>22, <3>1
    <3>3. QED BY <1>21, <3>2
  <2> HIDE DEF T
  <2>3. QED BY <2>1, <2>2 DEF TailsTyped
<1>24. ASSUME NEW k \in 0 .. n PROVE En(k, e) - 1 \in DOMAIN T /\ T[En(k, e) - 1] = En(k, e) - St(k)
  <2> HIDE DEF len, T
  <2>1. PICK l : l = len(St(k)) OBVIOUS
  <2>2. l = En(k, e) - St(k) BY <1>13, <2>1
  <2>3. St(k) + l - 1 = En(k, e) - 1 BY <1>3, <2>2
  <2>4. St(k) + l - 1 \in DOMAIN T /\ T[St(k) + l - 1] = l BY <1>8, <1>22, <2>1
  <2>5. QED BY <2>2, <2>3, <2>4
<1>25. Starting(H, T, n, e)
  <2> HIDE DEF H, T
  <2>1. {0} \cup S = {0} \cup {St(k) : k \in 0 .. n} BY <1>5
  <2>2. H = [p \in {0} \cup {St(k) : k \in 0 .. n} |-> H[p]] BY <1>20, <2>1
  <2>3. QED BY <1>20, <1>23, <1>24, <2>2 DEF Starting
<1> HIDE DEF H, T
<1>26. QED BY <1>1, <1>4, <1>5, <1>7, <1>25

\* A new trunk is as the invariant says, empty, and free where cvsp_init_trunk says.
LEMMA NewTrunk ==
    ASSUME NEW id, NEW z, NEW base, SizeOk(z), NEW t, t = cvsp_init_trunk(id, z, base)
    PROVE  /\ TrunkOK(t) /\ t.id = id /\ t.base = base /\ t.total = z /\ t.used = 0 /\ Busy(t) = {}
           /\ Free(t) = Starts(z)
<1>1. PICK n : n = (z + MIN_NODE_SIZE - 1) \div BlockSlots OBVIOUS
<1>2. PICK H, T : /\ cvsp_init_trunk(id, z, base) = Trunk(id, base, z, 0, H, T)
                  /\ Starting(H, T, n, z + MIN_NODE_SIZE)
                  /\ Starts(z) = {St(k) : k \in 0 .. n}
  BY <1>1, InitTrunkIs
<1>3. BlocksTo(z + MIN_NODE_SIZE, n) BY <1>1, BlocksOf
<1>4. /\ Body(H, T, z + MIN_NODE_SIZE, 0) /\ BusyOf(H) = {} /\ FreeOf(H) = Starts(z)
  BY <1>2, <1>3, StartingBody
<1>5. t = Trunk(id, base, z, 0, H, T) BY <1>2
<1>6. /\ t.id = id /\ t.base = base /\ t.total = z /\ t.used = 0
      /\ Busy(t) = BusyOf(H) /\ Free(t) = FreeOf(H)
      /\ (z \in Nat /\ Body(H, T, z + MIN_NODE_SIZE, 0) => TrunkOK(t))
  BY <1>5, TrunkFields
<1>7. z \in Nat BY DEF SizeOk
<1>8. QED BY <1>4, <1>6, <1>7

-----------------------------------------------------------------------------
(* Sizes of pools *)

\* A search upwards for the first number of P.
SearchBody(P, f) == [k \in Nat |-> IF k \notin P THEN f[k + 1] ELSE k]

LEMMA SearchIs ==
    ASSUME NEW P, P \subseteq Nat, \A k \in Nat : \E j \in P : k <= j,
           NEW f, f = CHOOSE g : g = SearchBody(P, g)
    PROVE  f[0] = Min(P) /\ Min(P) \in P /\ \A k \in Nat : k < Min(P) => k \notin P
<1> DEFINE Up(k) == {j \in P : k <= j}
           g == [k \in Nat |-> Min(Up(k))]
<1>1. \A k \in Nat : Min(Up(k)) \in Up(k) /\ \A m \in Up(k) : Min(Up(k)) <= m
  <2>1. ASSUME NEW k \in Nat PROVE Min(Up(k)) \in Up(k) /\ \A m \in Up(k) : Min(Up(k)) <= m
    <3>1. PICK U : U = Up(k) OBVIOUS
    <3>2. U \subseteq Nat /\ U # {} BY <3>1
    <3>3. QED BY <3>1, <3>2, LeastOf
  <2>2. QED BY <2>1
<1>2. \A k \in Nat : g[k] = IF k \notin P THEN g[k + 1] ELSE k
  <2>1. ASSUME NEW k \in Nat PROVE Min(Up(k)) = IF k \notin P THEN Min(Up(k + 1)) ELSE k
    <3>1. CASE k \in P
      <4>1. PICK U : U = Up(k) OBVIOUS
      <4>2. U \subseteq Nat /\ \A m \in U : k <= m BY <4>1
      <4>5. k \in U
        <5>1. k <= k OBVIOUS
        <5>2. QED BY <3>1, <4>1, <5>1
      <4>3. Min(U) = k BY <4>2, <4>5, MinIs
      <4>4. QED BY <3>1, <4>1, <4>3
    <3>2. CASE k \notin P
      <4>1. Up(k) = Up(k + 1)
        <5>1. \A j \in P : k <= j <=> k + 1 <= j
          <6>1. ASSUME NEW j \in P PROVE k <= j <=> k + 1 <= j
            <7>1. j \in Nat /\ j # k BY <3>2
            <7>2. QED BY <7>1
          <6>2. QED BY <6>1
        <5>2. QED BY <5>1
      <4>2. QED BY <3>2, <4>1
    <3>3. QED BY <3>1, <3>2
  <2>2. \A k \in Nat : k + 1 \in Nat OBVIOUS
  <2> HIDE DEF Up
  <2>3. QED BY <2>1, <2>2
<1>3. g = [k \in Nat |-> IF k \notin P THEN g[k + 1] ELSE k]
  <2> HIDE DEF Up
  <2>1. DOMAIN g = Nat /\ g = [k \in DOMAIN g |-> g[k]] OBVIOUS
  <2> HIDE DEF g
  <2>2. QED BY <1>2, <2>1
<1>4. f = [k \in Nat |-> IF k \notin P THEN f[k + 1] ELSE k]
  <2> HIDE DEF g
  <2>1. g = SearchBody(P, g) BY <1>3 DEF SearchBody
  <2>2. f = SearchBody(P, f) BY <2>1
  <2>3. QED BY <2>2 DEF SearchBody
<1>5. \A k \in Nat : f[k] = IF k \notin P THEN f[k + 1] ELSE k
  <2>1. PICK F : F = [k \in Nat |-> IF k \notin P THEN f[k + 1] ELSE k] OBVIOUS
  <2>2. \A k \in Nat : F[k] = IF k \notin P THEN f[k + 1] ELSE k BY <2>1
  <2>3. F = f BY <1>4, <2>1
  <2>4. QED BY <2>2, <2>3
<1>6. P # {}
  <2>1. 0 \in Nat OBVIOUS
  <2>2. QED BY <2>1
<1>7. PICK K : K = Min(P) OBVIOUS
<1>8. K \in P /\ K \in Nat /\ \A m \in P : K <= m BY <1>6, <1>7, LeastOf
<1>9. ASSUME NEW k \in Nat, k < K PROVE k \notin P BY <1>8, <1>9
<1>10. f[0] = K
  <2> DEFINE D == {d \in Nat : d <= K /\ f[K - d] # K}
  <2>1. SUFFICES ASSUME f[0] # K PROVE FALSE OBVIOUS
  <2>2. K \in D BY <1>8, <2>1
  <2>3. PICK d : d \in D /\ \A e \in D : d <= e
    <3>1. D \subseteq Nat /\ D # {} BY <2>2
    <3> HIDE DEF D
    <3>2. QED BY <3>1, LeastOf
  <2>4. d \in Nat /\ d <= K /\ f[K - d] # K BY <2>3
  <2>5. CASE d = 0 BY <1>5, <1>8, <2>4, <2>5
  <2>6. CASE d # 0
    <3>1. d - 1 \in Nat /\ d - 1 <= K /\ ~(d <= d - 1) BY <1>8, <2>4, <2>6
    <3>2. d - 1 \notin D BY <2>3, <3>1
    <3>3. f[K - (d - 1)] = K BY <3>1, <3>2
    <3>4. PICK k : k = K - d OBVIOUS
    <3>5. k \in Nat /\ k < K /\ k + 1 = K - (d - 1) BY <1>8, <2>4, <2>6, <3>4
    <3>6. f[k] = f[k + 1] BY <1>5, <1>9, <3>5
    <3>7. QED BY <2>4, <3>3, <3>4, <3>5, <3>6
  <2>7. QED BY <2>5, <2>6
<1>11. QED BY <1>7, <1>8, <1>9, <1>10

\* Slots of a trunk of the maximal size, and what is left of n slots behind k of them, with
\* the head of the last trunk.
Room == MAX_TRUNK_SIZE - MIN_NODE_SIZE
Left(n, k) == n + (k + 1) * MIN_NODE_SIZE - k * MAX_TRUNK_SIZE
Stops(n) == {k \in Nat : ~(Left(n, k) >= MAX_TRUNK_SIZE /\ Left(n, k) % MAX_TRUNK_SIZE # 0)}

LEMMA RoomIs == Room \in Nat /\ Room >= 3 /\ MAX_TRUNK_SIZE = Room + 3
  BY Sizes DEF Room

LEMMA LeftIs ==
    ASSUME NEW n \in Nat, NEW k \in Nat
    PROVE  Left(n, k) \in Int /\ k * Room \in Nat /\ Left(n, k) = n + 3 - k * Room
<1>1. PICK R : R = Room OBVIOUS
<1>2. R \in Nat /\ MAX_TRUNK_SIZE = R + 3 BY <1>1, RoomIs
<1>3. Left(n, k) = n + (k + 1) * 3 - k * (R + 3) BY <1>2 DEF Left, MIN_NODE_SIZE
<1>4. k * R \in Nat /\ k * (R + 3) = k * R + k * 3 /\ (k + 1) * 3 = k * 3 + 3 BY <1>2
<1>5. QED BY <1>1, <1>3, <1>4

\* How many trunks slots_num_adjust puts in front of the last one.
OverBody(n, Over) ==
    [k \in Nat |->
        LET st == n + (k + 1) * MIN_NODE_SIZE - k * MAX_TRUNK_SIZE
        IN  IF st >= MAX_TRUNK_SIZE /\ st % MAX_TRUNK_SIZE # 0 THEN Over[k + 1] ELSE k]

LEMMA StopsAre ==
    ASSUME NEW n \in Nat
    PROVE  /\ Stops(n) \subseteq Nat /\ \A k \in Nat : \E j \in Stops(n) : k <= j
           /\ \A f : OverBody(n, f) = SearchBody(Stops(n), f)
<1>1. Stops(n) \subseteq Nat BY DEF Stops
<1>2. ASSUME NEW k \in Nat PROVE \E j \in Stops(n) : k <= j
  <2>1. PICK j : j = k + n + 1 OBVIOUS
  <2>2. j \in Nat /\ k <= j BY <2>1
  <2>3. j * Room >= j * 3
    <3>1. PICK d : d = Room - 3 OBVIOUS
    <3>2. d \in Nat /\ Room = d + 3 BY <3>1, RoomIs
    <3>3. j * Room = j * d + j * 3 /\ j * d \in Nat BY <2>2, <3>2
    <3>4. QED BY <2>2, <3>3
  <2>4. Left(n, j) = n + 3 - j * Room /\ j * Room \in Nat BY <2>2, LeftIs
  <2>5. Left(n, j) < MAX_TRUNK_SIZE BY <2>1, <2>2, <2>3, <2>4, Sizes
  <2>6. Left(n, j) \in Int BY <2>2, LeftIs
  <2>7. ~(Left(n, j) >= MAX_TRUNK_SIZE) BY <2>5, <2>6, Sizes
  <2>8. QED BY <2>2, <2>7 DEF Stops
<1>3. ASSUME NEW f PROVE OverBody(n, f) = SearchBody(Stops(n), f)
  <2>1. \A k \in Nat :
          k \in Stops(n) <=> ~(Left(n, k) >= MAX_TRUNK_SIZE /\ Left(n, k) % MAX_TRUNK_SIZE # 0)
    BY DEF Stops
  <2>2. OverBody(n, f) = [k \in Nat |-> IF Left(n, k) >= MAX_TRUNK_SIZE /\ Left(n, k) % MAX_TRUNK_SIZE # 0
                                        THEN f[k + 1] ELSE k]
    BY DEF OverBody, Left
  <2>3. QED BY <2>1, <2>2 DEF SearchBody
<1>4. QED BY <1>1, <1>2, <1>3

\* What the last trunk is made to have.
LastSlots(last) ==
    LET tail == (last + MIN_NODE_SIZE) % BlockSlots
    IN  CASE last < MIN_NODE_SIZE -> MIN_NODE_SIZE
          [] last >= MIN_NODE_SIZE /\ tail \in 1 .. MIN_NODE_SIZE - 1 -> last + MIN_NODE_SIZE - tail
          [] OTHER -> last

LEMMA AdjustIs ==
    ASSUME NEW n \in Nat
    PROVE  \E K \in Stops(n) : /\ \A k \in Nat : k < K => k \notin Stops(n)
                               /\ slots_num_adjust(n) = K * Room + LastSlots(n - K * Room)
<1> DEFINE Over == CHOOSE Over : Over = OverBody(n, Over)
<1>1. slots_num_adjust(n) = Over[0] * Room + LastSlots(n - Over[0] * Room)
  BY DEF slots_num_adjust, Room, LastSlots, OverBody
<1>2. Over = CHOOSE g : g = SearchBody(Stops(n), g) BY StopsAre
<1> HIDE DEF Over
<1>3. PICK P : P = Stops(n) OBVIOUS
<1>4. P \subseteq Nat /\ \A k \in Nat : \E j \in P : k <= j BY <1>3, StopsAre
<1>5. PICK f : f = Over OBVIOUS
<1>6. f = CHOOSE g : g = SearchBody(P, g) BY <1>2, <1>3, <1>5
<1>7. f[0] = Min(P) /\ Min(P) \in P /\ \A k \in Nat : k < Min(P) => k \notin P
  BY <1>4, <1>6, SearchIs
<1>8. QED BY <1>1, <1>3, <1>5, <1>7

\* So many slots as fill q trunks of the maximal size and one of z slots.
Shape(S, q, z) == q \in Nat /\ S = q * Room + z /\ SizeOk(z) /\ z <= Room

LEMMA ModOf ==
    ASSUME NEW b \in Nat \ {0}, NEW q \in Nat, NEW r \in 0 .. b - 1
    PROVE  b * q + r \in Nat /\ (b * q + r) % b = r
<1>1. PICK a : a = b * q + r OBVIOUS
<1>2. a \in Nat BY <1>1
<1>3. a % b = r BY <1>1, <1>2, QuotientIs
<1>4. QED BY <1>1, <1>2, <1>3

\* Sizes that leave room for a node in the last block.
LEMMA SizeOkIs ==
    ASSUME NEW z \in Nat, z >= 3, NEW w \in Nat, NEW r, r \in {0} \cup 3 .. BlockSlots - 1,
           z + 3 = BlockSlots * w + r
    PROVE  SizeOk(z)
<1>1. PICK b : b = BlockSlots OBVIOUS
<1>2. b \in Nat \ {0} /\ b >= 6 BY <1>1, Sizes
<1>3. r \in 0 .. b - 1 /\ r \notin 1 .. 2 BY <1>1, <1>2
<1>4. (b * w + r) % b = r BY <1>2, <1>3, ModOf
<1>5. (z + 3) % b = r BY <1>1, <1>4
<1>6. QED BY <1>1, <1>3, <1>5 DEF SizeOk, MIN_NODE_SIZE

LEMMA FullIsOk == SizeOk(Room)
<1>1. Room + 3 = BlockSlots * TrunkBlocks + 0 /\ Room \in Nat /\ Room >= 3 BY RoomIs, Sizes
<1>2. TrunkBlocks \in Nat BY Sizes
<1>3. PICK r : r = 0 OBVIOUS
<1>4. r \in {0} \cup 3 .. BlockSlots - 1 /\ Room + 3 = BlockSlots * TrunkBlocks + r
  BY <1>1, <1>3
<1>5. QED BY <1>1, <1>2, <1>4, SizeOkIs

\* A last trunk that is not full is filled up to what leaves room for its last node.
LEMMA LastIs ==
    ASSUME NEW last \in Nat, last + 3 < MAX_TRUNK_SIZE
    PROVE  SizeOk(LastSlots(last)) /\ LastSlots(last) <= Room
<1>1. PICK b, M : b = BlockSlots /\ M = MAX_TRUNK_SIZE OBVIOUS
<1>2. b \in Nat \ {0} /\ b >= 6 /\ M \in Nat /\ M >= b /\ Room = M - 3 /\ Room \in Nat /\ Room >= 3
  BY <1>1, Sizes, RoomIs
<1>3. PICK L : L = last + 3 OBVIOUS
<1>4. L \in Nat /\ L >= 3 BY <1>3
<1>5. PICK w, r : w = L \div b /\ r = L % b OBVIOUS
<1>6. L = b * w + r /\ r \in 0 .. b - 1 /\ w \in Nat BY <1>2, <1>4, <1>5, Quotient
<1>7. CASE last < 3
  <2>1. LastSlots(last) = 3 BY <1>7 DEF LastSlots, MIN_NODE_SIZE
  <2>2. SizeOk(3)
    <3>1. CASE b = 6
      <4>1. PICK q, s : q = 1 /\ s = 0 OBVIOUS
      <4>2. q \in Nat /\ 3 + 3 = b * q + s /\ s \in {0} \cup 3 .. b - 1 BY <3>1, <4>1
      <4>3. QED BY <1>1, <4>2, SizeOkIs
    <3>2. CASE b # 6
      <4>1. PICK q, s : q = 0 /\ s = 6 OBVIOUS
      <4>2. q \in Nat /\ 3 + 3 = b * q + s /\ s \in {0} \cup 3 .. b - 1 BY <1>2, <3>2, <4>1
      <4>3. QED BY <1>1, <4>2, SizeOkIs
    <3>3. QED BY <3>1, <3>2
  <2>3. QED BY <1>2, <2>1, <2>2
<1>8. CASE last >= 3 /\ r \in 1 .. 2
  <2>1. LastSlots(last) = L - r BY <1>1, <1>3, <1>5, <1>8 DEF LastSlots, MIN_NODE_SIZE
  <2>2. PICK z : z = L - r OBVIOUS
  <2>3. z \in Nat /\ z >= 3 /\ z = b * w
    <3>1. PICK y : y = b * w OBVIOUS
    <3>2. y \in Nat /\ L = y + r /\ r \in Nat BY <1>2, <1>6, <3>1
    <3>3. r = 1 \/ r = 2 BY <1>8
    <3>4. QED BY <1>3, <1>4, <1>8, <2>2, <3>1, <3>2, <3>3
  <2>4. PICK s : s = 3 OBVIOUS
  <2>5. z + 3 = BlockSlots * w + s /\ s \in {0} \cup 3 .. BlockSlots - 1 BY <1>1, <1>2, <2>3, <2>4
  <2>6. SizeOk(z) BY <1>6, <2>3, <2>5, SizeOkIs
  <2>7. z <= Room
    <3>1. PICK t : t = TrunkBlocks OBVIOUS
    <3>2. t \in Nat /\ M = t * b BY <1>1, <3>1, Sizes
    <3>3. z < M
      <4>1. L < M /\ r >= 1 /\ r \in Nat BY <1>1, <1>3, <1>6, <1>8
      <4>2. QED BY <1>2, <1>4, <2>2, <4>1
    <3>4. z = w * b BY <1>2, <1>6, <2>3
    <3>5. w < t
      <4>1. SUFFICES ASSUME t <= w PROVE FALSE BY <1>6, <3>2
      <4>2. CASE t = w BY <3>2, <3>3, <3>4, <4>2, <1>2
      <4>3. CASE t < w
        <5>1. (t + 1) * b <= w * b /\ (t + 1) * b = t * b + b BY <1>2, <1>6, <3>2, <4>3, Times
        <5>2. QED BY <1>2, <2>3, <3>2, <3>3, <3>4, <5>1
      <4>4. QED BY <1>6, <3>2, <4>1, <4>2, <4>3
    <3>6. (w + 1) * b <= t * b /\ (w + 1) * b = w * b + b BY <1>2, <1>6, <3>2, <3>5, Times
    <3>7. QED BY <1>2, <2>3, <3>2, <3>4, <3>6
  <2>8. QED BY <2>1, <2>2, <2>6, <2>7
<1>9. CASE last >= 3 /\ r \notin 1 .. 2
  <2>1. LastSlots(last) = last BY <1>1, <1>3, <1>5, <1>9 DEF LastSlots, MIN_NODE_SIZE
  <2>2. r \in {0} \cup 3 .. BlockSlots - 1 /\ last + 3 = BlockSlots * w + r
    BY <1>1, <1>2, <1>3, <1>6, <1>9
  <2>3. SizeOk(last) BY <1>6, <1>9, <2>2, SizeOkIs
  <2>4. last <= Room BY <1>1, <1>2
  <2>5. QED BY <2>1, <2>3, <2>4
<1>10. QED BY <1>7, <1>8, <1>9

\* A last trunk that has a node at the border of every trunk is not touched.
LEMMA LastFull ==
    ASSUME NEW m \in Nat, m >= 1
    PROVE  m * MAX_TRUNK_SIZE \in Nat /\ LastSlots(m * MAX_TRUNK_SIZE - 3) = m * MAX_TRUNK_SIZE - 3
<1>1. PICK b, t : b = BlockSlots /\ t = TrunkBlocks OBVIOUS
<1>2. b \in Nat \ {0} /\ b >= 6 /\ t \in Nat /\ t >= 1 /\ MAX_TRUNK_SIZE = b * t BY <1>1, Sizes
<1>3. PICK w : w = m * t OBVIOUS
<1>4. w \in Nat /\ w >= 1
  <2>1. PICK c, d : c = m - 1 /\ d = t - 1 OBVIOUS
  <2>2. c \in Nat /\ d \in Nat /\ m = c + 1 /\ t = d + 1 BY <1>2, <2>1
  <2>3. w = c * d + c + d + 1 /\ c * d \in Nat BY <1>3, <2>2
  <2>4. QED BY <2>2, <2>3
<1>5. m * MAX_TRUNK_SIZE = b * w BY <1>2, <1>3
<1>6. b * w \in Nat /\ b * w >= b
  <2>1. PICK c : c = w - 1 OBVIOUS
  <2>2. c \in Nat /\ w = c + 1 BY <1>4, <2>1
  <2>3. b * w = b * c + b /\ b * c \in Nat BY <1>2, <2>2
  <2>4. QED BY <1>2, <2>3
<1>7. PICK last : last = b * w - 3 OBVIOUS
<1>8. PICK r : r = 0 OBVIOUS
<1>9. r \in 0 .. b - 1 /\ last + 3 = b * w + r /\ last >= 3 /\ last \in Nat
  BY <1>2, <1>6, <1>7, <1>8
<1>10. (b * w + r) % b = r BY <1>2, <1>4, <1>9, ModOf
<1>11. (last + 3) % b = 0 BY <1>8, <1>9, <1>10
<1>12. LastSlots(last) = last BY <1>1, <1>9, <1>11 DEF LastSlots, MIN_NODE_SIZE
<1>13. QED BY <1>5, <1>6, <1>7, <1>12

\* A pool gets trunks of the maximal size and a last one.
LEMMA AdjustedIs ==
    ASSUME NEW n \in SlotsAsked
    PROVE  \E q, z : Shape(slots_num_adjust(n), q, z)
<1>1. n \in Nat /\ n >= 1 BY CvsPoolAssumption
<1>2. PICK K \in Stops(n) : /\ \A k \in Nat : k < K => k \notin Stops(n)
                            /\ slots_num_adjust(n) = K * Room + LastSlots(n - K * Room)
  BY <1>1, AdjustIs
<1>3. K \in Nat /\ ~(Left(n, K) >= MAX_TRUNK_SIZE /\ Left(n, K) % MAX_TRUNK_SIZE # 0) BY <1>2 DEF Stops
<1>4. PICK M, R, L, x : M = MAX_TRUNK_SIZE /\ R = Room /\ L = Left(n, K) /\ x = K * R OBVIOUS
<1>5. M \in Nat /\ R \in Nat /\ M = R + 3 /\ R >= 3 /\ M \in Nat \ {0} BY <1>4, RoomIs
<1>6. L \in Int /\ x \in Nat /\ L = n + 3 - x BY <1>1, <1>3, <1>4, LeftIs
<1>7. L >= 4
  <2>1. CASE K = 0
    <3>1. x = 0 BY <1>4, <1>5, <2>1
    <3>2. QED BY <1>1, <1>6, <3>1
  <2>2. CASE K # 0
    <3>1. PICK j : j = K - 1 OBVIOUS
    <3>2. j \in Nat /\ j < K /\ K = j + 1 BY <1>3, <2>2, <3>1
    <3>3. j \notin Stops(n) BY <1>2, <3>2
    <3>4. PICK J : J = Left(n, j) OBVIOUS
    <3>5. J >= M /\ J % M # 0 BY <1>4, <3>2, <3>3, <3>4 DEF Stops
    <3>6. J \in Int /\ j * R \in Nat /\ J = n + 3 - j * R BY <1>1, <1>4, <3>2, <3>4, LeftIs
    <3>7. x = j * R + R BY <1>4, <1>5, <3>2
    <3>8. J # M
      <4>1. SUFFICES ASSUME J = M PROVE FALSE OBVIOUS
      <4>2. PICK q, r : q = 1 /\ r = 0 OBVIOUS
      <4>3. q \in Nat /\ r \in 0 .. M - 1 BY <1>5, <4>2
      <4>4. (M * q + r) % M = r BY <1>5, <4>3, ModOf
      <4>5. M * q + r = M BY <1>5, <4>2
      <4>6. QED BY <3>5, <4>1, <4>2, <4>4, <4>5
    <3>9. QED BY <1>1, <1>5, <1>6, <3>5, <3>6, <3>7, <3>8
  <2>3. QED BY <2>1, <2>2
<1>8. PICK last : last = n - x OBVIOUS
<1>9. last \in Nat /\ last + 3 = L /\ last = n - K * Room BY <1>1, <1>4, <1>6, <1>7, <1>8
<1>10. slots_num_adjust(n) = x + LastSlots(last) BY <1>2, <1>4, <1>9
<1>11. CASE L < M
  <2>1. SizeOk(LastSlots(last)) /\ LastSlots(last) <= Room BY <1>4, <1>9, <1>11, LastIs
  <2>2. QED BY <1>3, <1>4, <1>10, <2>1 DEF Shape
<1>12. CASE L >= M
  <2>1. L % M = 0 BY <1>3, <1>4, <1>12
  <2>2. PICK m : m = L \div M OBVIOUS
  <2>3. L \in Nat BY <1>6, <1>7
  <2>4. L = M * m + (L % M) /\ m \in Nat BY <1>5, <2>2, <2>3, Quotient
  <2>5. L = m * M BY <1>5, <2>1, <2>4
  <2>6. m >= 1
    <3>1. m = 0 => L = 0 BY <1>5, <2>5
    <3>2. QED BY <1>7, <2>4, <3>1
  <2>7. LastSlots(last) = last
    <3>1. last = m * M - 3 BY <1>5, <1>9, <2>4, <2>5
    <3>2. QED BY <1>4, <2>4, <2>6, <3>1, LastFull
  <2>8. CASE m = 1
    <3>1. last = R BY <1>5, <1>9, <2>5, <2>8
    <3>2. Shape(slots_num_adjust(n), K, R)
      <4>1. SizeOk(R) /\ R <= R BY <1>4, <1>5, FullIsOk
      <4>2. QED BY <1>3, <1>4, <1>10, <2>7, <3>1, <4>1 DEF Shape
    <3>3. QED BY <3>2
  <2>9. CASE m # 1
    <3>1. PICK q, z : q = K + m /\ z = 3 * (m - 1) OBVIOUS
    <3>2. z \in Nat /\ z >= 3 /\ z + 3 = 3 * m /\ q \in Nat BY <1>3, <2>4, <2>6, <2>9, <3>1
    <3>3. 3 * m <= BlockSlots
      <4>1. PICK c : c = (n + 3) \div M OBVIOUS
      <4>2. 3 * c <= BlockSlots BY <1>4, <4>1, SlotsAssumption DEF MIN_NODE_SIZE
      <4>3. m <= c
        <5>1. PICK N : N = n + 3 OBVIOUS
        <5>2. N \in Nat /\ L <= N BY <1>1, <1>6, <5>1
        <5>3. \A a, e \in Nat : a <= e => a \div M <= e \div M BY <1>5
        <5>4. QED BY <2>2, <2>3, <4>1, <5>1, <5>2, <5>3
      <4>4. c \in Nat
        <5>1. n + 3 \in Nat BY <1>1
        <5>2. QED BY <1>5, <4>1, <5>1, Quotient
      <4>5. QED BY <2>4, <4>2, <4>3, <4>4, Sizes
    <3>4. SizeOk(z)
      <4>1. CASE 3 * m = BlockSlots
        <5>1. PICK w, r : w = 1 /\ r = 0 OBVIOUS
        <5>2. w \in Nat /\ r \in {0} \cup 3 .. BlockSlots - 1 /\ z + 3 = BlockSlots * w + r
          BY <3>2, <4>1, <5>1, Sizes
        <5>3. QED BY <3>2, <5>2, SizeOkIs
      <4>2. CASE 3 * m # BlockSlots
        <5>1. PICK w, r : w = 0 /\ r = 3 * m OBVIOUS
        <5>2. w \in Nat /\ r \in {0} \cup 3 .. BlockSlots - 1 /\ z + 3 = BlockSlots * w + r
          BY <2>4, <2>6, <3>2, <3>3, <4>2, <5>1, Sizes
        <5>3. QED BY <3>2, <5>2, SizeOkIs
      <4>3. QED BY <4>1, <4>2
    <3>5. z <= R BY <1>4, <1>5, <2>4, <3>2, <3>3, Sizes
    <3>6. q * R + z = x + last
      <4>1. q * R = x + m * R BY <1>3, <1>4, <1>5, <2>4, <3>1
      <4>2. m * M = m * R + 3 * m /\ m * R \in Nat BY <1>5, <2>4
      <4>3. last = m * R + 3 * m - 3 BY <1>9, <2>4, <2>5, <4>2
      <4>4. QED BY <1>6, <2>4, <3>1, <3>2, <4>1, <4>2, <4>3
    <3>7. Shape(slots_num_adjust(n), q, z) BY <1>4, <1>10, <2>7, <3>2, <3>4, <3>5, <3>6 DEF Shape
    <3>8. QED BY <3>7
  <2>10. QED BY <2>8, <2>9
<1>13. QED BY <1>5, <1>6, <1>11, <1>12

LEMMA ShapeIs ==
    ASSUME NEW S, NEW q, NEW z, Shape(S, q, z)
    PROVE  /\ S \in Nat /\ q \in Nat /\ z \in Nat /\ z >= 3 /\ z <= Room
           /\ q * Room \in Nat /\ S = q * Room + z
<1>1. q \in Nat /\ S = q * Room + z /\ z \in Nat /\ z >= 3 /\ z <= Room
  BY DEF Shape, SizeOk, MIN_NODE_SIZE
<1>2. q * Room \in Nat BY <1>1, RoomIs
<1>3. QED BY <1>1, <1>2

\* A pool that is created with what another one was made to have gets as much.
LEMMA AdjustedStays ==
    ASSUME NEW S, NEW q, NEW z, Shape(S, q, z)
    PROVE  slots_num_adjust(S) = S
<1>1. S \in Nat /\ q \in Nat /\ z \in Nat /\ z >= 3 /\ z <= Room /\ q * Room \in Nat /\ S = q * Room + z
  BY ShapeIs
<1>2. PICK K \in Stops(S) : /\ \A k \in Nat : k < K => k \notin Stops(S)
                            /\ slots_num_adjust(S) = K * Room + LastSlots(S - K * Room)
  BY <1>1, AdjustIs
<1>3. K \in Nat /\ ~(Left(S, K) >= MAX_TRUNK_SIZE /\ Left(S, K) % MAX_TRUNK_SIZE # 0) BY <1>2 DEF Stops
<1>4. PICK M, R : M = MAX_TRUNK_SIZE /\ R = Room OBVIOUS
<1>5. M \in Nat /\ R \in Nat /\ M = R + 3 /\ R >= 3 /\ M \in Nat \ {0} BY <1>4, RoomIs
<1>6. q \in Stops(S)
  <2>1. PICK L : L = Left(S, q) OBVIOUS
  <2>2. L = S + 3 - q * R BY <1>1, <1>4, <2>1, LeftIs
  <2>3. PICK y : y = q * R OBVIOUS
  <2>4. L = z + 3 BY <1>1, <1>4, <2>2, <2>3
  <2>5. L >= M => L % M = 0
    <3>1. SUFFICES ASSUME L >= M PROVE L % M = 0 OBVIOUS
    <3>2. L = M BY <1>1, <1>4, <1>5, <2>4, <3>1
    <3>3. PICK w, r : w = 1 /\ r = 0 OBVIOUS
    <3>4. w \in Nat /\ r \in 0 .. M - 1 BY <1>5, <3>3
    <3>5. (M * w + r) % M = r BY <1>5, <3>4, ModOf
    <3>6. M * w + r = M BY <1>5, <3>3
    <3>7. QED BY <3>2, <3>3, <3>5, <3>6
  <2>6. QED BY <1>1, <1>4, <2>1, <2>5 DEF Stops
<1>7. K <= q
  <2>1. ~(q < K) BY <1>1, <1>2, <1>6
  <2>2. QED BY <1>1, <1>3, <2>1
<1>8. PICK x, last : x = K * R /\ last = S - x OBVIOUS
<1>9. x \in Nat BY <1>3, <1>5, <1>8
<1>10. LastSlots(last) = last
  <2>1. CASE K = q
    <3>1. last = z BY <1>1, <1>4, <1>8, <2>1
    <3>2. (z + 3) % BlockSlots \notin 1 .. 2 BY DEF Shape, SizeOk, MIN_NODE_SIZE
    <3>3. QED BY <1>1, <3>1, <3>2 DEF LastSlots, MIN_NODE_SIZE
  <2>2. CASE K # q
    <3>1. PICK d : d = q - K - 1 OBVIOUS
    <3>2. d \in Nat /\ q = K + d + 1 BY <1>1, <1>3, <1>7, <2>2, <3>1
    <3>3. q * R = x + d * R + R /\ d * R \in Nat BY <1>3, <1>5, <1>8, <3>2
    <3>4. PICK L : L = Left(S, K) OBVIOUS
    <3>5. L = S + 3 - x BY <1>1, <1>3, <1>4, <1>8, <3>4, LeftIs
    <3>6. L \in Nat /\ L >= M /\ last + 3 = L /\ last \in Nat
      <4>1. PICK y, v : y = q * R /\ v = d * R OBVIOUS
      <4>2. y = x + v + R /\ v \in Nat /\ S = y + z BY <1>1, <1>4, <3>3, <4>1
      <4>3. QED BY <1>1, <1>5, <1>8, <1>9, <3>5, <4>2
    <3>7. L % M = 0 BY <1>3, <1>4, <3>4, <3>6
    <3>8. PICK m : m = L \div M OBVIOUS
    <3>9. L = M * m + (L % M) /\ m \in Nat BY <1>5, <3>6, <3>8, Quotient
    <3>10. L = m * M BY <1>5, <3>7, <3>9
    <3>11. m >= 1
      <4>1. m = 0 => L = 0 BY <1>5, <3>10
      <4>2. QED BY <1>5, <3>6, <3>9, <4>1
    <3>12. last = m * M - 3 BY <1>5, <3>6, <3>9, <3>10
    <3>13. QED BY <1>4, <3>9, <3>11, <3>12, LastFull
  <2>3. QED BY <2>1, <2>2
<1>11. slots_num_adjust(S) = x + last BY <1>2, <1>4, <1>8, <1>10
<1>12. QED BY <1>1, <1>8, <1>9, <1>11

\* The number of the last of the trunks a pool is created with is q.
FirstTotal(q, z) == IF q = 0 THEN z ELSE Room
TotalOf(id, q, z) == IF id = q \/ q = 0 THEN z ELSE Room

LEMMA TrunkSizesAre ==
    ASSUME NEW S, NEW q, NEW z, Shape(S, q, z)
    PROVE  TrunkSizes(S) = [k \in 1 .. q + 1 |-> TotalOf(k - 1, q, z)]
<1>1. S \in Nat /\ q \in Nat /\ z \in Nat /\ z >= 3 /\ z <= Room /\ q * Room \in Nat /\ S = q * Room + z
  BY ShapeIs
<1>2. PICK R : R = Room OBVIOUS
<1>3. R \in Nat /\ R >= 3 /\ R \in Nat \ {0} BY <1>2, RoomIs
<1>4. TrunkSizes(S) = [k \in 1 .. (S + R - 1) \div R |-> Least(R, S - (k - 1) * R)]
  BY <1>2 DEF TrunkSizes, Room
<1>5. (S + R - 1) \div R = q + 1
  <2>1. PICK a, w, r : a = S + R - 1 /\ w = q + 1 /\ r = z - 1 OBVIOUS
  <2>2. w \in Nat /\ r \in 0 .. R - 1 BY <1>1, <1>2, <1>3, <2>1
  <2>3. R * w = q * R + R BY <1>1, <1>3, <2>1
  <2>4. a = R * w + r /\ a \in Nat
    <3>1. PICK y : y = q * R OBVIOUS
    <3>2. y \in Nat /\ S = y + z BY <1>1, <1>2, <3>1
    <3>3. QED BY <1>1, <1>3, <2>1, <2>3, <3>1, <3>2
  <2>5. a \div R = w BY <1>3, <2>2, <2>4, QuotientIs
  <2>6. QED BY <2>1, <2>5
<1>6. \A k \in 1 .. q + 1 : Least(R, S - (k - 1) * R) = TotalOf(k - 1, q, z)
  <2>1. ASSUME NEW k \in 1 .. q + 1 PROVE Least(R, S - (k - 1) * R) = TotalOf(k - 1, q, z)
    <3>1. PICK j : j = k - 1 OBVIOUS
    <3>2. j \in Nat /\ j <= q BY <1>1, <3>1
    <3>3. CASE j = q
      <4>1. S - j * R = z BY <1>1, <1>2, <3>3
      <4>2. Least(R, z) = z BY <1>1, <1>2, <1>3 DEF Least
      <4>3. QED BY <3>1, <3>3, <4>1, <4>2 DEF TotalOf
    <3>4. CASE j # q
      <4>1. PICK d : d = q - j - 1 OBVIOUS
      <4>2. d \in Nat /\ q = j + d + 1 BY <1>1, <3>2, <3>4, <4>1
      <4>3. q * R = j * R + d * R + R /\ d * R \in Nat /\ j * R \in Nat BY <1>3, <3>2, <4>2
      <4>4. PICK x, y, v : x = j * R /\ y = q * R /\ v = d * R OBVIOUS
      <4>5. S - x = v + R + z /\ v \in Nat BY <1>1, <1>2, <1>3, <4>3, <4>4
      <4>6. Least(R, S - x) = R BY <1>1, <1>3, <4>5 DEF Least
      <4>7. q # 0 BY <3>2, <3>4
      <4>8. QED BY <1>2, <3>1, <3>4, <4>4, <4>6, <4>7 DEF TotalOf
    <3>5. QED BY <3>3, <3>4
  <2>2. QED BY <2>1
<1>7. QED BY <1>4, <1>5, <1>6

-----------------------------------------------------------------------------
(* Sums along a sequence *)

LEMMA Upto ==
    ASSUME NEW n \in Nat
    PROVE  /\ IsFiniteSet(1 .. n) /\ n + 1 \notin 1 .. n /\ (1 .. n + 1) = (1 .. n) \cup {n + 1}
           /\ (1 .. n + 1) \ {n + 1} = 1 .. n /\ n + 1 \in 1 .. n + 1 /\ n + 1 \in Nat
<1>1. IsFiniteSet(1 .. n) BY FS_Interval
<1>2. QED BY <1>1

LEMMA SumNext ==
    ASSUME NEW V, NEW n \in Nat, \A k \in 1 .. n + 1 : V[k] \in Int
    PROVE  /\ Summed(V, 1 .. n) /\ SumOf(V, 1 .. n) \in Int
           /\ SumOf(V, 1 .. n + 1) = V[n + 1] + SumOf(V, 1 .. n)
<1>1. Summed(V, 1 .. n)
  <2>1. IsFiniteSet(1 .. n) BY Upto
  <2>2. \A k \in 1 .. n : V[k] \in Int OBVIOUS
  <2>3. QED BY <2>1, <2>2 DEF Summed
<1>2. PICK S, x : S = 1 .. n /\ x = n + 1 OBVIOUS
<1>3. x \notin S /\ S \cup {x} = 1 .. n + 1 /\ V[x] \in Int /\ Summed(V, S) BY <1>1, <1>2
<1>4. SumOf(V, S \cup {x}) = V[x] + SumOf(V, S) BY <1>3, SumMore
<1>5. SumOf(V, 1 .. n) \in Int BY <1>1, SumInt
<1>6. QED BY <1>1, <1>2, <1>3, <1>4, <1>5

\* A number put in front of the others.
LEMMA SumInFront ==
    ASSUME NEW n \in Nat, NEW V, \A k \in 1 .. n : V[k] \in Int,
           NEW W, W[1] \in Int, \A k \in 1 .. n : W[k + 1] = V[k]
    PROVE  SumOf(W, 1 .. n + 1) = W[1] + SumOf(V, 1 .. n)
<1> DEFINE Bad == {m \in 0 .. n : SumOf(W, 1 .. m + 1) # W[1] + SumOf(V, 1 .. m)}
<1>1. SUFFICES ASSUME Bad # {} PROVE FALSE
  <2>1. n \in 0 .. n OBVIOUS
  <2>2. QED BY <2>1
<1>2. PICK m : m \in Bad /\ \A j \in Bad : m <= j
  <2>1. Bad \subseteq Nat OBVIOUS
  <2> HIDE DEF Bad
  <2>2. QED BY <1>1, <2>1, LeastOf
<1>3. m \in Nat /\ m <= n /\ SumOf(W, 1 .. m + 1) # W[1] + SumOf(V, 1 .. m) BY <1>2
<1>4. \A k \in 1 .. n + 1 : W[k] \in Int
  <2>1. ASSUME NEW k \in 1 .. n + 1 PROVE W[k] \in Int
    <3>1. CASE k = 1 BY <3>1
    <3>2. CASE k # 1
      <4>1. PICK j : j = k - 1 OBVIOUS
      <4>2. j \in 1 .. n /\ k = j + 1 BY <3>2, <4>1
      <4>3. QED BY <4>2
    <3>3. QED BY <3>1, <3>2
  <2>2. QED BY <2>1
<1>5. CASE m = 0
  <2>1. PICK e : e = 0 OBVIOUS
  <2>2. e \in Nat /\ \A k \in 1 .. e + 1 : W[k] \in Int BY <2>1
  <2>3. SumOf(W, 1 .. e + 1) = W[e + 1] + SumOf(W, 1 .. e) BY <2>2, SumNext
  <2>4. 1 .. e = {} BY <2>1
  <2>5. SumOf(W, {}) = 0 /\ SumOf(V, {}) = 0 BY SumNone
  <2>6. QED BY <1>3, <1>5, <2>1, <2>3, <2>4, <2>5
<1>6. CASE m # 0
  <2>1. PICK e : e = m - 1 OBVIOUS
  <2>2. e \in Nat /\ m = e + 1 /\ e < m /\ e \in 0 .. n /\ m \in 1 .. n BY <1>3, <1>6, <2>1
  <2>3. e \notin Bad BY <1>2, <2>2
  <2>4. SumOf(W, 1 .. m) = W[1] + SumOf(V, 1 .. e) BY <2>2, <2>3
  <2>5. \A k \in 1 .. m + 1 : W[k] \in Int BY <1>3, <1>4
  <2>6. SumOf(W, 1 .. m + 1) = W[m + 1] + SumOf(W, 1 .. m) BY <1>3, <2>5, SumNext
  <2>7. \A k \in 1 .. e + 1 : V[k] \in Int BY <1>3, <2>2
  <2>8. SumOf(V, 1 .. e + 1) = V[e + 1] + SumOf(V, 1 .. e) /\ SumOf(V, 1 .. e) \in Int
    BY <2>2, <2>7, SumNext
  <2>9. W[m + 1] = V[m] BY <2>2
  <2>10. V[m] \in Int BY <2>2
  <2>11. QED BY <1>3, <2>2, <2>4, <2>6, <2>8, <2>9, <2>10
<1>7. QED BY <1>5, <1>6

\* One of the numbers is another one.
LEMMA SumChanged ==
    ASSUME NEW V, NEW S, Summed(V, S), NEW x \in S, NEW W, W[x] \in Int,
           \A y \in S \ {x} : W[y] = V[y]
    PROVE  Summed(W, S) /\ SumOf(W, S) = SumOf(V, S) + W[x] - V[x]
<1>1. Summed(V, S \ {x}) /\ SumOf(V, S) = V[x] + SumOf(V, S \ {x}) BY SumLess
<1>2. PICK T : T = S \ {x} OBVIOUS
<1>3. SumOf(W, T) = SumOf(V, T) BY <1>1, <1>2, SumSame
<1>4. Summed(W, S) BY DEF Summed
<1>5. SumOf(W, S) = W[x] + SumOf(W, S \ {x}) BY <1>4, SumLess
<1>6. SumOf(V, S \ {x}) \in Int BY <1>1, SumInt
<1>7. V[x] \in Int BY DEF Summed
<1>8. QED BY <1>1, <1>2, <1>3, <1>4, <1>5, <1>6, <1>7

\* As many slots as a pool was made to have are in its first trunks.
LEMMA SumStart ==
    ASSUME NEW S, NEW q, NEW z, Shape(S, q, z), NEW V,
           \A k \in 1 .. q + 1 : V[k] = TotalOf(k - 1, q, z)
    PROVE  SumOf(V, 1 .. q + 1) = S /\ \A k \in 1 .. q + 1 : V[k] \in Int
<1>1. S \in Nat /\ q \in Nat /\ z \in Nat /\ z >= 3 /\ z <= Room /\ q * Room \in Nat /\ S = q * Room + z
  BY ShapeIs
<1>2. PICK R : R = Room OBVIOUS
<1>3. R \in Nat BY <1>2, RoomIs
<1>4. \A k \in 1 .. q : V[k] = R
  <2>1. ASSUME NEW k \in 1 .. q PROVE V[k] = R
    <3>1. k \in 1 .. q + 1 /\ k - 1 # q /\ q # 0 BY <1>1
    <3>2. V[k] = TotalOf(k - 1, q, z) BY <3>1
    <3>3. QED BY <1>2, <3>1, <3>2 DEF TotalOf
  <2>2. QED BY <2>1
<1>5. V[q + 1] = z
  <2>1. PICK k, i : k = q + 1 /\ i = k - 1 OBVIOUS
  <2>2. k \in 1 .. q + 1 /\ i = q BY <1>1, <2>1
  <2>3. V[k] = TotalOf(i, q, z) BY <2>1, <2>2
  <2>4. QED BY <2>1, <2>2, <2>3 DEF TotalOf
<1>6. \A k \in 1 .. q + 1 : V[k] \in Int
  <2>1. \A k \in 1 .. q + 1 : k \in 1 .. q \/ k = q + 1 BY <1>1
  <2>2. QED BY <1>1, <1>3, <1>4, <1>5, <2>1
<1> DEFINE Bad == {m \in 0 .. q : SumOf(V, 1 .. m) # m * R}
<1>7. Bad = {}
  <2>1. SUFFICES ASSUME Bad # {} PROVE FALSE OBVIOUS
  <2>2. PICK m : m \in Bad /\ \A j \in Bad : m <= j
    <3>1. Bad \subseteq Nat BY <1>1
    <3> HIDE DEF Bad
    <3>2. QED BY <2>1, <3>1, LeastOf
  <2>3. m \in Nat /\ m <= q /\ SumOf(V, 1 .. m) # m * R BY <1>1, <2>2
  <2>4. CASE m = 0
    <3>1. 1 .. m = {} BY <2>4
    <3>2. SumOf(V, {}) = 0 BY SumNone
    <3>3. m * R = 0 BY <1>3, <2>4
    <3>4. QED BY <2>3, <3>1, <3>2, <3>3
  <2>5. CASE m # 0
    <3>1. PICK e : e = m - 1 OBVIOUS
    <3>2. e \in Nat /\ m = e + 1 /\ e < m /\ e \in 0 .. q /\ m \in 1 .. q BY <1>1, <2>3, <2>5, <3>1
    <3>3. e \notin Bad BY <2>2, <3>2
    <3>4. SumOf(V, 1 .. e) = e * R BY <3>2, <3>3
    <3>5. \A k \in 1 .. e + 1 : V[k] \in Int BY <1>1, <1>6, <2>3, <3>2
    <3>6. SumOf(V, 1 .. e + 1) = V[e + 1] + SumOf(V, 1 .. e) BY <3>2, <3>5, SumNext
    <3>7. m * R = e * R + R /\ e * R \in Nat BY <1>3, <3>2
    <3>8. V[e + 1] = R BY <1>4, <3>2
    <3>9. QED BY <1>3, <2>3, <3>2, <3>4, <3>6, <3>7, <3>8
  <2>6. QED BY <2>4, <2>5
<1>8. SumOf(V, 1 .. q) = q * R
  <2>1. q \in 0 .. q BY <1>1
  <2>2. QED BY <1>7, <2>1
<1>9. SumOf(V, 1 .. q + 1) = V[q + 1] + SumOf(V, 1 .. q) BY <1>1, <1>6, SumNext
<1>10. QED BY <1>1, <1>2, <1>5, <1>6, <1>8, <1>9

LEMMA SumZero ==
    ASSUME NEW n \in Nat, NEW V, \A k \in 1 .. n : V[k] = 0
    PROVE  SumOf(V, 1 .. n) = 0
<1> DEFINE Bad == {m \in 0 .. n : SumOf(V, 1 .. m) # 0}
<1>1. SUFFICES ASSUME Bad # {} PROVE FALSE
  <2>1. n \in 0 .. n OBVIOUS
  <2>2. QED BY <2>1
<1>2. PICK m : m \in Bad /\ \A j \in Bad : m <= j
  <2>1. Bad \subseteq Nat OBVIOUS
  <2> HIDE DEF Bad
  <2>2. QED BY <1>1, <2>1, LeastOf
<1>3. m \in Nat /\ m <= n /\ SumOf(V, 1 .. m) # 0 BY <1>2
<1>4. CASE m = 0
  <2>1. 1 .. m = {} BY <1>4
  <2>2. SumOf(V, {}) = 0 BY SumNone
  <2>3. QED BY <1>3, <2>1, <2>2
<1>5. CASE m # 0
  <2>1. PICK e : e = m - 1 OBVIOUS
  <2>2. e \in Nat /\ m = e + 1 /\ e < m /\ e \in 0 .. n /\ m \in 1 .. n BY <1>3, <1>5, <2>1
  <2>3. e \notin Bad BY <1>2, <2>2
  <2>4. SumOf(V, 1 .. e) = 0 BY <2>2, <2>3
  <2>5. \A k \in 1 .. e + 1 : V[k] \in Int BY <1>3, <2>2
  <2>6. SumOf(V, 1 .. e + 1) = V[e + 1] + SumOf(V, 1 .. e) BY <2>2, <2>5, SumNext
  <2>7. V[e + 1] = 0 BY <2>2
  <2>8. QED BY <1>3, <2>2, <2>4, <2>6, <2>7
<1>6. QED BY <1>4, <1>5

-----------------------------------------------------------------------------
(* The invariant of a pool *)

\* The number of the k-th of n trunks: behind those that were added, the last one first,
\* come q + 1 that the pool was created with, the first one first.
IdAt(k, n, q) == IF k < n - q THEN n - k ELSE k - n + q

HeldIn(t) == {[trunk |-> t.id, at |-> p, len |-> t.heads[p].len] : p \in Busy(t)}

TrunkAt(t, k, n, q, z) == TrunkOK(t) /\ t.id = IdAt(k, n, q) /\ t.total = TotalOf(t.id, q, z)

Totals(ts) == [k \in 1 .. Len(ts) |-> ts[k].total]
Useds(ts) == [k \in 1 .. Len(ts) |-> ts[k].used]

\* A sequence of trunks: the last q + 1 of them are those the pool was created with.
TrunksOK(ts, q, z) ==
    /\ q \in Nat /\ SizeOk(z) /\ z <= Room
    /\ Len(ts) \in Nat /\ Len(ts) > q /\ DOMAIN ts = 1 .. Len(ts) /\ ts = [k \in DOMAIN ts |-> ts[k]]
    /\ \A k \in 1 .. Len(ts) : TrunkAt(ts[k], k, Len(ts), q, z)

\* It has tot slots, us of them in use, by the nodes hs.
PoolOK(ts, q, z, tot, us, hs) ==
    /\ TrunksOK(ts, q, z)
    /\ tot = q * Room + z + (Len(ts) - q - 1) * FirstTotal(q, z)
    /\ tot = SumOf(Totals(ts), 1 .. Len(ts)) /\ us = SumOf(Useds(ts), 1 .. Len(ts))
    /\ hs = UNION {HeldIn(ts[k]) : k \in 1 .. Len(ts)}

LEMMA IdsAre ==
    ASSUME NEW n \in Nat, NEW q \in Nat, n > q
    PROVE  /\ \A k \in 1 .. n : IdAt(k, n, q) \in 0 .. n - 1
           /\ \A i \in 0 .. n - 1 : \E k \in 1 .. n : IdAt(k, n, q) = i
           /\ \A j, k \in 1 .. n : IdAt(j, n, q) = IdAt(k, n, q) => j = k
           /\ \A k \in 1 .. n : IdAt(k + 1, n + 1, q) = IdAt(k, n, q)
           /\ IdAt(1, n + 1, q) = n
<1>1. \A k \in 1 .. n : IdAt(k, n, q) \in 0 .. n - 1 BY DEF IdAt
<1>2. ASSUME NEW i \in 0 .. n - 1 PROVE \E k \in 1 .. n : IdAt(k, n, q) = i
  <2>1. CASE i <= q
    <3>1. PICK k : k = i + n - q OBVIOUS
    <3>2. k \in 1 .. n /\ ~(k < n - q) /\ k - n + q = i BY <2>1, <3>1
    <3>3. QED BY <3>2 DEF IdAt
  <2>2. CASE i > q
    <3>1. PICK k : k = n - i OBVIOUS
    <3>2. k \in 1 .. n /\ k < n - q /\ n - k = i BY <2>2, <3>1
    <3>3. QED BY <3>2 DEF IdAt
  <2>3. QED BY <2>1, <2>2
<1>3. \A j, k \in 1 .. n : IdAt(j, n, q) = IdAt(k, n, q) => j = k BY DEF IdAt
<1>4. \A k \in 1 .. n : IdAt(k + 1, n + 1, q) = IdAt(k, n, q) BY DEF IdAt
<1>5. IdAt(1, n + 1, q) = n BY DEF IdAt
<1>6. QED BY <1>1, <1>2, <1>3, <1>4, <1>5

\* A sequence is its elements.
LEMMA ElementsAre ==
    ASSUME NEW ts, Len(ts) \in Nat, DOMAIN ts = 1 .. Len(ts), ts = [k \in DOMAIN ts |-> ts[k]]
    PROVE  ts \in Seq({ts[k] : k \in 1 .. Len(ts)})
<1>1. PICK n : n = Len(ts) OBVIOUS
<1>2. PICK X : X = {ts[k] : k \in 1 .. n} OBVIOUS
<1>3. ts \in [1 .. n -> X] BY <1>1, <1>2
<1>4. ts \in Seq(X) BY <1>1, <1>3
<1>5. QED BY <1>1, <1>2, <1>4

LEMMA ListOf ==
    ASSUME NEW n \in Nat, NEW f, DOMAIN f = 1 .. n, f = [k \in DOMAIN f |-> f[k]]
    PROVE  Len(f) = n /\ f \in Seq({f[k] : k \in 1 .. n})
<1>1. PICK X : X = {f[k] : k \in 1 .. n} OBVIOUS
<1>2. f \in [1 .. n -> X] BY <1>1
<1>3. f \in Seq(X) /\ Len(f) = n BY <1>2
<1>4. QED BY <1>1, <1>3

\* What the invariant says of one trunk.
LEMMA TrunksAre ==
    ASSUME NEW ts, NEW q, NEW z, TrunksOK(ts, q, z)
    PROVE  /\ q \in Nat /\ z \in Nat /\ Len(ts) \in Nat /\ Len(ts) > q /\ DOMAIN ts = 1 .. Len(ts)
           /\ ts \in Seq({ts[k] : k \in 1 .. Len(ts)})
           /\ \A k \in 1 .. Len(ts) : /\ TrunkOK(ts[k]) /\ ts[k].id = IdAt(k, Len(ts), q)
                                      /\ ts[k].total = TotalOf(ts[k].id, q, z)
                                      /\ ts[k].id \in 0 .. Len(ts) - 1
                                      /\ ts[k].total \in Nat /\ ts[k].used \in Int
                                      /\ ById(ts, ts[k].id) = k
           /\ \A j, k \in 1 .. Len(ts) : ts[j].id = ts[k].id => j = k
           /\ 1 \in 1 .. Len(ts) /\ Ids(ts) = 0 .. Len(ts) - 1
<1>1. PICK n : n = Len(ts) OBVIOUS
<1>2. /\ q \in Nat /\ SizeOk(z) /\ n \in Nat /\ n > q
      /\ DOMAIN ts = 1 .. n /\ ts = [k \in DOMAIN ts |-> ts[k]]
      /\ \A k \in 1 .. n : TrunkAt(ts[k], k, n, q, z)
  BY <1>1 DEF TrunksOK
<1>3. z \in Nat BY <1>2 DEF SizeOk
<1>4. ts \in Seq({ts[k] : k \in 1 .. n}) BY <1>1, <1>2, ElementsAre
<1>5. /\ \A k \in 1 .. n : IdAt(k, n, q) \in 0 .. n - 1
      /\ \A i \in 0 .. n - 1 : \E k \in 1 .. n : IdAt(k, n, q) = i
      /\ \A j, k \in 1 .. n : IdAt(j, n, q) = IdAt(k, n, q) => j = k
  BY <1>2, IdsAre
<1>6. \A k \in 1 .. n : /\ TrunkOK(ts[k]) /\ ts[k].id = IdAt(k, n, q)
                        /\ ts[k].total = TotalOf(ts[k].id, q, z)
  BY <1>2 DEF TrunkAt
<1>7. \A k \in 1 .. n : ts[k].id \in 0 .. n - 1 BY <1>5, <1>6
<1>8. \A j, k \in 1 .. n : ts[j].id = ts[k].id => j = k BY <1>5, <1>6
<1>9. \A k \in 1 .. n : ts[k].total \in Nat /\ ts[k].used \in Int
  BY <1>6 DEF TrunkOK, Body
<1>10. ASSUME NEW k \in 1 .. n PROVE ById(ts, ts[k].id) = k
  <2>1. PICK j : j = ById(ts, ts[k].id) OBVIOUS
  <2>2. j \in DOMAIN ts /\ ts[j].id = ts[k].id BY <1>2, <2>1 DEF ById
  <2>3. QED BY <1>2, <1>8, <2>1, <2>2
<1>11. 1 \in 1 .. n BY <1>2
<1>13. Ids(ts) = 0 .. n - 1
  <2>1. Ids(ts) = {ts[k].id : k \in 1 .. n} BY <1>2 DEF Ids
  <2>2. ASSUME NEW i \in 0 .. n - 1 PROVE \E k \in 1 .. n : ts[k].id = i
    <3>1. PICK k \in 1 .. n : IdAt(k, n, q) = i BY <1>5
    <3>2. QED BY <1>6, <3>1
  <2>3. QED BY <1>7, <2>1, <2>2
<1>14. QED BY <1>1, <1>2, <1>3, <1>4, <1>6, <1>7, <1>8, <1>9, <1>10, <1>11, <1>13

\* The size by which a pool grows.
LEMMA FirstIs ==
    ASSUME NEW ts, NEW q, NEW z, TrunksOK(ts, q, z)
    PROVE  ts[1].total = FirstTotal(q, z)
<1>1. PICK n : n = Len(ts) OBVIOUS
<1>2. /\ q \in Nat /\ n \in Nat /\ n > q
      /\ \A k \in 1 .. n : TrunkAt(ts[k], k, n, q, z)
  BY <1>1 DEF TrunksOK
<1>6. \A k \in 1 .. n : ts[k].id = IdAt(k, n, q) /\ ts[k].total = TotalOf(ts[k].id, q, z)
  BY <1>2 DEF TrunkAt
<1>11. 1 \in 1 .. n BY <1>2
<1>12. ts[1].total = FirstTotal(q, z)
  <2>1. ts[1].total = TotalOf(ts[1].id, q, z) /\ ts[1].id = IdAt(1, n, q) BY <1>6, <1>11
  <2>2. PICK i : i = IdAt(1, n, q) OBVIOUS
  <2>3. q # 0 => i # q
    <3>1. SUFFICES ASSUME q # 0 PROVE i # q OBVIOUS
    <3>2. CASE 1 < n - q
      <4>1. i = n - 1 BY <2>2, <3>2 DEF IdAt
      <4>2. QED BY <1>2, <3>2, <4>1
    <3>3. CASE ~(1 < n - q)
      <4>1. i = 1 - n + q BY <2>2, <3>3 DEF IdAt
      <4>2. QED BY <1>2, <3>1, <3>3, <4>1
    <3>4. QED BY <3>2, <3>3
  <2>4. QED BY <2>1, <2>2, <2>3 DEF TotalOf, FirstTotal
<1>13. QED BY <1>12

LEMMA HeldIs ==
    ASSUME NEW t, NEW h
    PROVE  h \in HeldIn(t) <=> /\ h.at \in Busy(t) /\ h.trunk = t.id /\ h.len = t.heads[h.at].len
                               /\ h = [trunk |-> h.trunk, at |-> h.at, len |-> h.len]
<1>1. ASSUME h \in HeldIn(t)
      PROVE  /\ h.at \in Busy(t) /\ h.trunk = t.id /\ h.len = t.heads[h.at].len
             /\ h = [trunk |-> h.trunk, at |-> h.at, len |-> h.len]
  <2>1. PICK p \in Busy(t) : h = [trunk |-> t.id, at |-> p, len |-> t.heads[p].len]
    BY <1>1 DEF HeldIn
  <2>2. h.at = p /\ h.trunk = t.id /\ h.len = t.heads[p].len BY <2>1
  <2>3. QED BY <2>1, <2>2
<1>2. ASSUME h.at \in Busy(t), h.trunk = t.id, h.len = t.heads[h.at].len,
             h = [trunk |-> h.trunk, at |-> h.at, len |-> h.len]
      PROVE  h \in HeldIn(t)
  <2>1. PICK p : p = h.at OBVIOUS
  <2>2. p \in Busy(t) /\ h = [trunk |-> t.id, at |-> p, len |-> t.heads[p].len] BY <1>2, <2>1
  <2>3. QED BY <2>2 DEF HeldIn
<1>3. QED BY <1>1, <1>2

\* What the invariant says in the words of the module.
LEMMA PoolIsSound ==
    ASSUME NEW ts, NEW q, NEW z, NEW tot, NEW us, NEW hs, PoolOK(ts, q, z, tot, us, hs)
    PROVE  /\ \A k \in DOMAIN ts : Sound(ts[k])
           /\ us = MapThenSumSet(LAMBDA k : ts[k].used, DOMAIN ts)
           /\ tot = MapThenSumSet(LAMBDA k : ts[k].total, DOMAIN ts)
           /\ hs = UNION {{[trunk |-> ts[k].id, at |-> p, len |-> ts[k].heads[p].len] :
                               p \in Busy(ts[k])} : k \in DOMAIN ts}
           /\ Ids(ts) = 0 .. Len(ts) - 1
<1>1. /\ TrunksOK(ts, q, z) /\ tot = SumOf(Totals(ts), 1 .. Len(ts))
      /\ us = SumOf(Useds(ts), 1 .. Len(ts)) /\ hs = UNION {HeldIn(ts[k]) : k \in 1 .. Len(ts)}
  BY DEF PoolOK
<1>2. /\ DOMAIN ts = 1 .. Len(ts) /\ \A k \in 1 .. Len(ts) : TrunkOK(ts[k])
      /\ Ids(ts) = 0 .. Len(ts) - 1
  BY <1>1, TrunksAre
<1>3. \A k \in DOMAIN ts : Sound(ts[k]) BY <1>2, TrunkIsSound
<1>4. MapThenSumSet(LAMBDA k : ts[k].used, DOMAIN ts) = SumOf([k \in DOMAIN ts |-> ts[k].used], DOMAIN ts)
  BY SumOfUsed
<1>5. MapThenSumSet(LAMBDA k : ts[k].total, DOMAIN ts) = SumOf([k \in DOMAIN ts |-> ts[k].total], DOMAIN ts)
  BY SumOfTotal
<1>6. us = MapThenSumSet(LAMBDA k : ts[k].used, DOMAIN ts) BY <1>1, <1>2, <1>4 DEF Useds
<1>7. tot = MapThenSumSet(LAMBDA k : ts[k].total, DOMAIN ts) BY <1>1, <1>2, <1>5 DEF Totals
<1>8. hs = UNION {{[trunk |-> ts[k].id, at |-> p, len |-> ts[k].heads[p].len] :
                       p \in Busy(ts[k])} : k \in DOMAIN ts}
  BY <1>1, <1>2 DEF HeldIn
<1>9. QED BY <1>2, <1>3, <1>6, <1>7, <1>8

\* Trunk t in the place of trunk k, with its number and size.
Replaces(t, ts, k) == k \in 1 .. Len(ts) /\ TrunkOK(t) /\ t.id = ts[k].id /\ t.total = ts[k].total

LEMMA ReplacedKeeps ==
    ASSUME NEW ts, NEW q, NEW z, NEW tot, NEW us, NEW hs, PoolOK(ts, q, z, tot, us, hs),
           NEW t, NEW k, Replaces(t, ts, k)
    PROVE  PoolOK([ts EXCEPT ![k] = t], q, z, tot, us + t.used - ts[k].used,
                  (hs \ HeldIn(ts[k])) \cup HeldIn(t))
<1>1. PICK u, n : u = [ts EXCEPT ![k] = t] /\ n = Len(ts) OBVIOUS
<1>2. /\ TrunksOK(ts, q, z) /\ tot = q * Room + z + (n - q - 1) * FirstTotal(q, z)
      /\ tot = SumOf(Totals(ts), 1 .. n) /\ us = SumOf(Useds(ts), 1 .. n)
      /\ hs = UNION {HeldIn(ts[j]) : j \in 1 .. n}
  BY <1>1 DEF PoolOK
<1>3. /\ n \in Nat /\ DOMAIN ts = 1 .. n /\ \A j \in 1 .. n : ts[j].total \in Nat /\ ts[j].used \in Int
      /\ \A i, j \in 1 .. n : ts[i].id = ts[j].id => i = j
  BY <1>1, <1>2, TrunksAre
<1>4. k \in 1 .. n /\ TrunkOK(t) /\ t.id = ts[k].id /\ t.total = ts[k].total BY <1>1 DEF Replaces
<1>5. DOMAIN u = 1 .. n /\ u = [j \in DOMAIN u |-> u[j]] /\ u[k] = t /\ \A j \in 1 .. n : j # k => u[j] = ts[j]
  BY <1>1, <1>3, <1>4
<1>6. Len(u) = n BY <1>3, <1>5, ListOf
<1>7. TrunksOK(u, q, z)
  <2>1. /\ q \in Nat /\ SizeOk(z) /\ z <= Room /\ n > q /\ \A j \in 1 .. n : TrunkAt(ts[j], j, n, q, z)
    BY <1>1, <1>2 DEF TrunksOK
  <2>2. TrunkAt(t, k, n, q, z) BY <1>4, <2>1 DEF TrunkAt
  <2>3. \A j \in 1 .. n : TrunkAt(u[j], j, n, q, z) BY <1>5, <2>1, <2>2
  <2>4. QED BY <1>3, <1>5, <1>6, <2>1, <2>3 DEF TrunksOK
<1>8. SumOf(Totals(u), 1 .. n) = tot
  <2>1. PICK V, W : V = Totals(ts) /\ W = Totals(u) OBVIOUS
  <2>2. \A j \in 1 .. n : V[j] = ts[j].total /\ W[j] = u[j].total BY <1>1, <1>6, <2>1 DEF Totals
  <2>3. \A j \in 1 .. n : W[j] = V[j] /\ V[j] \in Int BY <1>3, <1>4, <1>5, <2>2
  <2>4. Summed(V, 1 .. n) BY <1>3, <2>3, Upto DEF Summed
  <2>5. SumOf(W, 1 .. n) = SumOf(V, 1 .. n) BY <2>3, <2>4, SumSame
  <2>6. QED BY <1>2, <2>1, <2>5
<1>9. t.used \in Int BY <1>4 DEF TrunkOK, Body
<1>10. SumOf(Useds(u), 1 .. n) = us + t.used - ts[k].used
  <2>1. PICK V, W : V = Useds(ts) /\ W = Useds(u) OBVIOUS
  <2>2. \A j \in 1 .. n : V[j] = ts[j].used /\ W[j] = u[j].used BY <1>1, <1>6, <2>1 DEF Useds
  <2>3. \A j \in 1 .. n : V[j] \in Int BY <1>3, <2>2
  <2>4. W[k] = t.used /\ V[k] = ts[k].used BY <1>4, <1>5, <2>2
  <2>5. \A j \in (1 .. n) \ {k} : W[j] = V[j] BY <1>5, <2>2
  <2>6. PICK S : S = 1 .. n OBVIOUS
  <2>7. Summed(V, S) BY <1>3, <2>3, <2>6, Upto DEF Summed
  <2>8. SumOf(W, S) = SumOf(V, S) + W[k] - V[k] 
    <3>1. k \in S /\ \A j \in S \ {k} : W[j] = V[j] BY <1>4, <2>5, <2>6
    <3>2. W[k] \in Int BY <1>9, <2>4
    <3>3. QED BY <2>7, <3>1, <3>2, SumChanged
  <2>9. QED BY <1>2, <2>1, <2>4, <2>6, <2>8
<1>11. UNION {HeldIn(u[j]) : j \in 1 .. n} = (hs \ HeldIn(ts[k])) \cup HeldIn(t)
  <2>1. ASSUME NEW j \in 1 .. n, j # k PROVE HeldIn(ts[j]) \cap HeldIn(ts[k]) = {}
    <3>1. ts[j].id # ts[k].id BY <1>3, <1>4, <2>1
    <3>2. ASSUME NEW h, h \in HeldIn(ts[j]), h \in HeldIn(ts[k]) PROVE FALSE
      BY <3>1, <3>2, HeldIs
    <3>3. QED BY <3>2
  <2>2. HeldIn(u[k]) = HeldIn(t) /\ \A j \in 1 .. n : j # k => HeldIn(u[j]) = HeldIn(ts[j]) BY <1>5
  <2>3. ASSUME NEW h, h \in UNION {HeldIn(u[j]) : j \in 1 .. n}
        PROVE  h \in (hs \ HeldIn(ts[k])) \cup HeldIn(t)
    <3>1. PICK j \in 1 .. n : h \in HeldIn(u[j]) BY <2>3
    <3>2. CASE j = k BY <2>2, <3>1, <3>2
    <3>3. CASE j # k
      <4>1. h \in HeldIn(ts[j]) /\ h \notin HeldIn(ts[k]) BY <2>1, <2>2, <3>1, <3>3
      <4>2. h \in hs BY <1>2, <4>1
      <4>3. QED BY <4>1, <4>2
    <3>4. QED BY <3>2, <3>3
  <2>4. ASSUME NEW h, h \in (hs \ HeldIn(ts[k])) \cup HeldIn(t)
        PROVE  h \in UNION {HeldIn(u[j]) : j \in 1 .. n}
    <3>1. CASE h \in HeldIn(t) BY <1>4, <2>2, <3>1
    <3>2. CASE h \notin HeldIn(t)
      <4>1. h \in hs /\ h \notin HeldIn(ts[k]) BY <2>4, <3>2
      <4>2. PICK j \in 1 .. n : h \in HeldIn(ts[j]) BY <1>2, <4>1
      <4>3. h \in HeldIn(u[j]) BY <2>2, <4>1, <4>2
      <4>4. QED BY <4>3
    <3>3. QED BY <3>1, <3>2
  <2>5. QED BY <2>3, <2>4
<1>12. QED BY <1>1, <1>2, <1>6, <1>7, <1>8, <1>10, <1>11 DEF PoolOK

LEMMA FirstFitIs ==
    ASSUME NEW ts, NEW q, NEW z, TrunksOK(ts, q, z), NEW need, WithFit(ts, need) # {}
    PROVE  LET f == FirstFit(ts, need)
           IN  /\ f.k \in 1 .. Len(ts) /\ f.at \in Free(ts[f.k])
               /\ Fits(ts[f.k].heads[f.at].len, need)
<1>1. DOMAIN ts = 1 .. Len(ts) /\ \A k \in 1 .. Len(ts) : TrunkOK(ts[k]) BY TrunksAre
<1>2. PICK k : k = Min(WithFit(ts, need)) OBVIOUS
<1>3. WithFit(ts, need) \subseteq 1 .. Len(ts) /\ \A j \in WithFit(ts, need) : Fitting(ts[j], need) # {}
  BY <1>1 DEF WithFit
<1>4. WithFit(ts, need) \subseteq Nat BY <1>3
<1>5. k \in WithFit(ts, need) BY <1>2, <1>4, LeastOf
<1>6. PICK t : t = ts[k] OBVIOUS
<1>7. TrunkOK(t) /\ Fitting(t, need) # {} /\ k \in 1 .. Len(ts) BY <1>1, <1>3, <1>5, <1>6
<1>8. DOMAIN FreeList(t) \subseteq Nat /\ Listed(t) = Free(t) BY <1>7, TrunkIsSound
<1>9. PICK i : i = Min(Fitting(t, need)) OBVIOUS
<1>10. Fitting(t, need) \subseteq Nat
  <2>1. Fitting(t, need) \subseteq DOMAIN FreeList(t) BY DEF Fitting
  <2>2. QED BY <1>8, <2>1
<1>11. i \in Fitting(t, need) BY <1>7, <1>9, <1>10, LeastOf
<1>12. PICK p : p = FreeList(t)[i] OBVIOUS
<1>13. i \in DOMAIN FreeList(t) /\ p # free_head /\ Fits(t.heads[p].len, need)
  BY <1>11, <1>12 DEF Fitting
<1>14. p \in Listed(t) BY <1>12, <1>13 DEF Listed
<1>15. FirstFit(ts, need) = [k |-> k, at |-> p] BY <1>2, <1>6, <1>9, <1>12 DEF FirstFit
<1>16. QED BY <1>6, <1>7, <1>8, <1>13, <1>14, <1>15

\* An allocation in a pool: one trunk has one busy node more.
LEMMA AllocatedKeeps ==
    ASSUME NEW ts, NEW q, NEW z, NEW tot, NEW us, NEW hs, PoolOK(ts, q, z, tot, us, hs),
           NEW size \in Nat, WithFit(ts, NeedSlots(size)) # {},
           NEW f, f = FirstFit(ts, NeedSlots(size)), NEW h,
           h = [trunk |-> ts[f.k].id, at |-> f.at, len |-> NeedSlots(size)]
    PROVE  /\ PoolOK(Allocated(ts, f, size), q, z, tot, us + NeedSlots(size), hs \cup {h})
           /\ h \notin hs /\ Allocated(ts, f, size)[f.k].id = ts[f.k].id
           /\ \A g \in hs : g.trunk = h.trunk => g.at # h.at
<1>1. PICK need : need = NeedSlots(size) OBVIOUS
<1>2. need \in Nat /\ need >= MIN_NODE_SIZE
  <2>1. PICK n : n = (size + 7) \div 4 OBVIOUS
  <2>2. size + 7 \in Nat /\ 4 \in Nat \ {0} OBVIOUS
  <2>3. n \in Nat BY <2>1, <2>2, Quotient
  <2>4. need = IF n < MIN_NODE_SIZE THEN MIN_NODE_SIZE ELSE n BY <1>1, <2>1 DEF NeedSlots
  <2>5. QED BY <2>3, <2>4 DEF MIN_NODE_SIZE
<1>3. TrunksOK(ts, q, z) BY DEF PoolOK
<1>4. PICK k, p : k = f.k /\ p = f.at OBVIOUS
<1>5. k \in 1 .. Len(ts) /\ p \in Free(ts[k]) /\ Fits(ts[k].heads[p].len, need)
  BY <1>1, <1>3, <1>4, FirstFitIs
<1>6. PICK t : t = ts[k] OBVIOUS
<1>7. /\ DOMAIN ts = 1 .. Len(ts) /\ TrunkOK(t) /\ t.used \in Int
      /\ \A j \in 1 .. Len(ts) : ts[j].id = t.id => j = k
  BY <1>3, <1>5, <1>6, TrunksAre
<1>8. p \in Free(t) /\ Fits(t.heads[p].len, need) BY <1>5, <1>6
<1>9. PICK r : r = Given(t, p, need, size) OBVIOUS
<1>10. Gave(t, Given(t, p, need, size), p, need) BY <1>2, <1>7, <1>8, AllocationKeepsTrunk
<1>11. /\ TrunkOK(r) /\ r.id = t.id /\ r.total = t.total
       /\ r.used = t.used + need /\ Busy(r) = Busy(t) \cup {p}
       /\ r.heads[p].len = need /\ \A y \in Busy(t) : r.heads[y].len = t.heads[y].len
  BY <1>9, <1>10 DEF Gave
<1>12. Allocated(ts, f, size) = [ts EXCEPT ![k] = r]
  BY <1>1, <1>4, <1>6, <1>9 DEF Allocated, Given
<1>13. Replaces(r, ts, k) BY <1>5, <1>6, <1>11 DEF Replaces
<1>14. PoolOK([ts EXCEPT ![k] = r], q, z, tot, us + r.used - ts[k].used,
              (hs \ HeldIn(ts[k])) \cup HeldIn(r))
  BY <1>13, ReplacedKeeps
<1>15. us \in Int
  <2>1. us = SumOf(Useds(ts), 1 .. Len(ts)) BY DEF PoolOK
  <2>2. Len(ts) \in Nat /\ \A j \in 1 .. Len(ts) : ts[j].used \in Int BY <1>3, TrunksAre
  <2>3. Summed(Useds(ts), 1 .. Len(ts)) BY <2>2, Upto DEF Summed, Useds
  <2>4. QED BY <2>1, <2>3, SumInt
<1>16. us + r.used - ts[k].used = us + need BY <1>2, <1>6, <1>7, <1>11, <1>15
<1>17. p \notin Busy(t) BY <1>8 DEF Free, Busy
<1>18. h = [trunk |-> t.id, at |-> p, len |-> need] BY <1>1, <1>4, <1>6
<1>19. HeldIn(r) = HeldIn(t) \cup {h}
  <2>1. ASSUME NEW g PROVE g \in HeldIn(r) <=> g \in HeldIn(t) \/ g = h
    <3>1. g \in HeldIn(r) <=> /\ g.at \in Busy(r) /\ g.trunk = r.id /\ g.len = r.heads[g.at].len
                              /\ g = [trunk |-> g.trunk, at |-> g.at, len |-> g.len]
      BY HeldIs
    <3>2. g \in HeldIn(t) <=> /\ g.at \in Busy(t) /\ g.trunk = t.id /\ g.len = t.heads[g.at].len
                              /\ g = [trunk |-> g.trunk, at |-> g.at, len |-> g.len]
      BY HeldIs
    <3>3. h.at = p /\ h.trunk = t.id /\ h.len = need BY <1>18
    <3>4. CASE g.at = p
      <4>1. g \in HeldIn(r) => g = h BY <1>11, <1>18, <3>1, <3>4
      <4>2. g = h => g \in HeldIn(r) BY <1>11, <1>18, <3>1, <3>3, <3>4
      <4>3. g \notin HeldIn(t) BY <1>17, <3>2, <3>4
      <4>4. QED BY <4>1, <4>2, <4>3
    <3>5. CASE g.at # p
      <4>1. g # h BY <3>3, <3>5
      <4>2. g \in HeldIn(r) <=> g \in HeldIn(t) BY <1>11, <3>1, <3>2, <3>5
      <4>3. QED BY <4>1, <4>2
    <3>6. QED BY <3>4, <3>5
  <2>2. QED BY <2>1
<1>20. hs = UNION {HeldIn(ts[j]) : j \in 1 .. Len(ts)} BY DEF PoolOK
<1>21. HeldIn(t) \subseteq hs BY <1>5, <1>6, <1>20
<1>22. (hs \ HeldIn(ts[k])) \cup HeldIn(r) = hs \cup {h} BY <1>6, <1>19, <1>21
<1>23. \A g \in hs : g.trunk = t.id => g.at # p
  <2>1. ASSUME NEW g \in hs, g.trunk = t.id PROVE g.at # p
    <3>1. PICK j \in 1 .. Len(ts) : g \in HeldIn(ts[j]) BY <1>20
    <3>2. g.at \in Busy(ts[j]) /\ g.trunk = ts[j].id BY <3>1, HeldIs
    <3>3. j = k BY <1>7, <2>1, <3>1, <3>2
    <3>4. QED BY <1>6, <1>17, <3>2, <3>3
  <2>2. QED BY <2>1
<1>24. h.trunk = t.id /\ h.at = p BY <1>18
<1>25. h \notin hs BY <1>23, <1>24
<1>26. Allocated(ts, f, size)[f.k].id = ts[f.k].id BY <1>4, <1>5, <1>6, <1>7, <1>11, <1>12
<1>27. PoolOK(Allocated(ts, f, size), q, z, tot, us + NeedSlots(size), hs \cup {h})
  BY <1>1, <1>12, <1>14, <1>16, <1>22
<1>28. QED BY <1>23, <1>24, <1>25, <1>26, <1>27

\* A release in a pool that is not led astray: one trunk has one busy node less.
LEMMA FreedKeeps ==
    ASSUME NEW ts, NEW q, NEW z, NEW tot, NEW us, NEW hs, PoolOK(ts, q, z, tot, us, hs),
           NEW h \in hs, ~Misread(ts[ById(ts, h.trunk)], h.at), ~Crosses(ts[ById(ts, h.trunk)], h.at)
    PROVE  PoolOK(FreedIn(ts, h), q, z, tot, us - LenOf(ts, h), hs \ {h})
<1>1. TrunksOK(ts, q, z) /\ hs = UNION {HeldIn(ts[j]) : j \in 1 .. Len(ts)} BY DEF PoolOK
<1>2. PICK k \in 1 .. Len(ts) : h \in HeldIn(ts[k]) BY <1>1
<1>3. PICK t, p : t = ts[k] /\ p = h.at OBVIOUS
<1>4. p \in Busy(t) /\ h.trunk = t.id /\ h = [trunk |-> t.id, at |-> p, len |-> t.heads[p].len]
  BY <1>2, <1>3, HeldIs
<1>5. DOMAIN ts = 1 .. Len(ts) /\ TrunkOK(t) /\ t.used \in Int /\ ById(ts, t.id) = k
  BY <1>1, <1>3, TrunksAre
<1>6. ~Misread(t, p) /\ ~Crosses(t, p) BY <1>3, <1>4, <1>5
<1>7. PICK r : r = Freed(t, p) OBVIOUS
<1>8. Took(t, Freed(t, p), p) BY <1>4, <1>5, <1>6, FreeingKeepsTrunk
<1>9. /\ TrunkOK(r) /\ r.id = t.id /\ r.total = t.total
      /\ r.used = t.used - t.heads[p].len /\ Busy(r) = Busy(t) \ {p}
      /\ \A y \in Busy(r) : r.heads[y].len = t.heads[y].len
  BY <1>7, <1>8 DEF Took
<1>10. FreedIn(ts, h) = [ts EXCEPT ![k] = r] /\ LenOf(ts, h) = t.heads[p].len
  BY <1>3, <1>4, <1>5, <1>7 DEF FreedIn, LenOf
<1>11. Replaces(r, ts, k) BY <1>3, <1>9 DEF Replaces
<1>12. PoolOK([ts EXCEPT ![k] = r], q, z, tot, us + r.used - ts[k].used,
              (hs \ HeldIn(ts[k])) \cup HeldIn(r))
  BY <1>11, ReplacedKeeps
<1>13. us \in Int
  <2>1. us = SumOf(Useds(ts), 1 .. Len(ts)) BY DEF PoolOK
  <2>2. Len(ts) \in Nat /\ \A j \in 1 .. Len(ts) : ts[j].used \in Int BY <1>1, TrunksAre
  <2>3. Summed(Useds(ts), 1 .. Len(ts)) BY <2>2, Upto DEF Summed, Useds
  <2>4. QED BY <2>1, <2>3, SumInt
<1>14. t.heads[p].len \in Nat
  <2>1. p \in DOMAIN t.heads BY <1>4 DEF Busy, Nodes
  <2>2. QED BY <1>5, <2>1 DEF TrunkOK, Body, HeadsTyped, HeadSet
<1>15. us + r.used - ts[k].used = us - t.heads[p].len BY <1>3, <1>5, <1>9, <1>13, <1>14
<1>16. HeldIn(r) = HeldIn(t) \ {h}
  <2>1. ASSUME NEW g PROVE g \in HeldIn(r) <=> g \in HeldIn(t) /\ g # h
    <3>1. g \in HeldIn(r) <=> /\ g.at \in Busy(r) /\ g.trunk = r.id /\ g.len = r.heads[g.at].len
                              /\ g = [trunk |-> g.trunk, at |-> g.at, len |-> g.len]
      BY HeldIs
    <3>2. g \in HeldIn(t) <=> /\ g.at \in Busy(t) /\ g.trunk = t.id /\ g.len = t.heads[g.at].len
                              /\ g = [trunk |-> g.trunk, at |-> g.at, len |-> g.len]
      BY HeldIs
    <3>3. CASE g.at = p
      <4>1. g \notin HeldIn(r) BY <1>9, <3>1, <3>3
      <4>2. g \in HeldIn(t) => g = h BY <1>4, <3>2, <3>3
      <4>3. QED BY <4>1, <4>2
    <3>4. CASE g.at # p
      <4>1. g # h BY <1>3, <3>4
      <4>2. g \in HeldIn(r) <=> g \in HeldIn(t) BY <1>9, <3>1, <3>2, <3>4
      <4>3. QED BY <4>1, <4>2
    <3>5. QED BY <3>3, <3>4
  <2>2. QED BY <2>1
<1>17. (hs \ HeldIn(ts[k])) \cup HeldIn(r) = hs \ {h}
  <2>1. HeldIn(t) \subseteq hs BY <1>1, <1>3
  <2>2. h \in HeldIn(t) BY <1>2, <1>3
  <2>3. QED BY <1>3, <1>16, <2>1, <2>2
<1>18. QED BY <1>10, <1>12, <1>15, <1>17

\* A new trunk in front of the others.
LEMMA AddedKeeps ==
    ASSUME NEW ts, NEW q, NEW z, NEW tot, NEW us, NEW hs, PoolOK(ts, q, z, tot, us, hs), NEW base
    PROVE  /\ PoolOK(add_new_trunk(ts, base), q, z, tot + ts[1].total, us, hs)
           /\ Len(add_new_trunk(ts, base)) = Len(ts) + 1
           /\ \E id : /\ add_new_trunk(ts, base)[1] = cvsp_init_trunk(id, ts[1].total, base)
                      /\ SizeOk(ts[1].total)
<1>1. PICK n, x, t : n = Len(ts) /\ x = ts[1].total /\ t = cvsp_init_trunk(n, x, base) OBVIOUS
<1>2. PICK u : u = <<t>> \o ts OBVIOUS
<1>3. add_new_trunk(ts, base) = u BY <1>1, <1>2 DEF add_new_trunk, NewId
<1>4. /\ TrunksOK(ts, q, z) /\ tot = q * Room + z + (n - q - 1) * FirstTotal(q, z)
      /\ tot = SumOf(Totals(ts), 1 .. n) /\ us = SumOf(Useds(ts), 1 .. n)
      /\ hs = UNION {HeldIn(ts[j]) : j \in 1 .. n}
  BY <1>1 DEF PoolOK
<1>5. /\ q \in Nat /\ z \in Nat /\ n \in Nat /\ n > q /\ ts \in Seq({ts[k] : k \in 1 .. n})
      /\ \A k \in 1 .. n : ts[k].total \in Nat /\ ts[k].used \in Int
      /\ x = FirstTotal(q, z) /\ 1 \in 1 .. n
  <2>1. /\ q \in Nat /\ z \in Nat /\ Len(ts) \in Nat /\ Len(ts) > q /\ ts \in Seq({ts[k] : k \in 1 .. Len(ts)})
        /\ \A k \in 1 .. Len(ts) : ts[k].total \in Nat /\ ts[k].used \in Int
        /\ 1 \in 1 .. Len(ts)
    <3>1. q \in Nat /\ z \in Nat /\ Len(ts) \in Nat /\ Len(ts) > q BY <1>4, TrunksAre
    <3>2. ts \in Seq({ts[k] : k \in 1 .. Len(ts)}) BY <1>4, TrunksAre
    <3>3. \A k \in 1 .. Len(ts) : ts[k].total \in Nat /\ ts[k].used \in Int BY <1>4, TrunksAre
    <3>4. QED BY <3>1, <3>2, <3>3
  <2>2. ts[1].total = FirstTotal(q, z) BY <1>4, FirstIs
  <2>3. QED BY <1>1, <2>1, <2>2
<1>6. q \in Nat /\ SizeOk(z) /\ z <= Room /\ \A k \in 1 .. n : TrunkAt(ts[k], k, n, q, z)
  BY <1>1, <1>4 DEF TrunksOK
<1>7. SizeOk(x) BY <1>5, <1>6, FullIsOk DEF FirstTotal
<1>8. x \in Nat BY <1>7 DEF SizeOk
<1>9. TrunkOK(t) /\ t.id = n /\ t.total = x /\ t.used = 0 /\ Busy(t) = {} BY <1>1, <1>7, NewTrunk
<1>10. /\ DOMAIN u = 1 .. n + 1 /\ Len(u) = n + 1 /\ u = [k \in DOMAIN u |-> u[k]]
       /\ u[1] = t /\ \A k \in 1 .. n : u[k + 1] = ts[k]
  <2>1. PICK X : X = {ts[k] : k \in 1 .. n} \cup {t} OBVIOUS
  <2>2. ts \in Seq(X) /\ <<t>> \in Seq(X) /\ Len(<<t>>) = 1 /\ <<t>>[1] = t
    <3>1. {ts[k] : k \in 1 .. n} \subseteq X /\ t \in X BY <2>1
    <3>2. ts \in Seq(X) BY <1>5, <3>1
    <3>3. QED BY <3>1, <3>2
  <2>3. u \in Seq(X) /\ Len(u) = 1 + n BY <1>1, <1>2, <1>5, <2>2
  <2>4. DOMAIN u = 1 .. n + 1 /\ Len(u) = n + 1 /\ u = [k \in DOMAIN u |-> u[k]]
    BY <1>5, <2>3
  <2>5. u[1] = t BY <1>2, <1>5, <2>2
  <2>6. ASSUME NEW k \in 1 .. n PROVE u[k + 1] = ts[k] BY <1>1, <1>2, <1>5, <2>2
  <2>7. QED BY <2>4, <2>5, <2>6
<1>11. TrunksOK(u, q, z)
  <2>1. /\ \A k \in 1 .. n : IdAt(k + 1, n + 1, q) = IdAt(k, n, q)
        /\ IdAt(1, n + 1, q) = n
    BY <1>5, IdsAre
  <2>2. TrunkAt(t, 1, n + 1, q, z)
    <3>1. n # q BY <1>5
    <3>2. t.total = TotalOf(n, q, z) BY <1>5, <1>9, <3>1 DEF TotalOf, FirstTotal
    <3>3. QED BY <1>9, <2>1, <3>2 DEF TrunkAt
  <2>3. ASSUME NEW k \in 1 .. n PROVE TrunkAt(u[k + 1], k + 1, n + 1, q, z)
    BY <1>6, <1>10, <2>1 DEF TrunkAt
  <2>4. ASSUME NEW k \in 1 .. n + 1 PROVE TrunkAt(u[k], k, n + 1, q, z)
    <3>1. CASE k = 1 BY <1>10, <2>2, <3>1
    <3>2. CASE k # 1
      <4>1. PICK j : j = k - 1 OBVIOUS
      <4>2. j \in 1 .. n /\ k = j + 1 BY <1>5, <3>2, <4>1
      <4>3. QED BY <2>3, <4>2
    <3>3. QED BY <3>1, <3>2
  <2>5. n + 1 \in Nat /\ n + 1 > q BY <1>5
  <2>6. QED BY <1>6, <1>10, <2>4, <2>5 DEF TrunksOK
<1>12. tot + x = q * Room + z + (n + 1 - q - 1) * FirstTotal(q, z)
  <2>1. PICK d, y : d = n - q - 1 /\ y = q * Room OBVIOUS
  <2>2. d \in Nat /\ y \in Nat /\ n + 1 - q - 1 = d + 1
    <3>1. d \in Nat /\ n + 1 - q - 1 = d + 1 BY <1>5, <2>1
    <3>2. y \in Nat BY <1>5, <2>1, RoomIs
    <3>3. QED BY <3>1, <3>2
  <2>3. (d + 1) * x = d * x + x /\ d * x \in Nat BY <1>8, <2>2
  <2>4. PICK v : v = d * x OBVIOUS
  <2>5. tot = y + z + v /\ v \in Nat BY <1>4, <1>5, <2>1, <2>3, <2>4
  <2>6. (n + 1 - q - 1) * FirstTotal(q, z) = v + x BY <1>5, <2>2, <2>3, <2>4
  <2>7. QED BY <1>5, <1>8, <2>1, <2>2, <2>5, <2>6
<1>13. tot + x = SumOf(Totals(u), 1 .. n + 1)
  <2>1. PICK V, W : V = Totals(ts) /\ W = Totals(u) OBVIOUS
  <2>2. /\ \A k \in 1 .. n : V[k] = ts[k].total
        /\ \A k \in 1 .. n + 1 : W[k] = u[k].total
    BY <1>1, <1>10, <2>1 DEF Totals
  <2>3. W[1] = x
    <3>1. 1 \in 1 .. n + 1 BY <1>5
    <3>2. W[1] = u[1].total BY <2>2, <3>1
    <3>3. QED BY <1>9, <1>10, <3>2
  <2>4. \A k \in 1 .. n : V[k] \in Int /\ W[k + 1] = V[k]
    <3>1. ASSUME NEW k \in 1 .. n PROVE V[k] \in Int /\ W[k + 1] = V[k]
      <4>1. k + 1 \in 1 .. n + 1 BY <1>5
      <4>2. PICK j : j = k + 1 OBVIOUS
      <4>3. W[j] = u[j].total BY <2>2, <4>1, <4>2
      <4>4. u[j] = ts[k] BY <1>10, <4>2
      <4>5. V[k] = ts[k].total BY <2>2
      <4>6. V[k] \in Int BY <1>5, <4>5
      <4>7. QED BY <4>2, <4>3, <4>4, <4>5, <4>6
    <3>2. QED BY <3>1
  <2>5. SumOf(W, 1 .. n + 1) = W[1] + SumOf(V, 1 .. n)
    <3>1. W[1] \in Int BY <1>8, <2>3
    <3>2. QED BY <1>5, <2>4, <3>1, SumInFront
  <2>6. tot \in Int
    <3>1. Summed(V, 1 .. n) BY <1>5, <2>4, Upto DEF Summed
    <3>2. QED BY <1>4, <2>1, <3>1, SumInt
  <2>7. QED BY <1>4, <1>8, <2>1, <2>3, <2>5, <2>6
<1>14. us = SumOf(Useds(u), 1 .. n + 1)
  <2>1. PICK V, W : V = Useds(ts) /\ W = Useds(u) OBVIOUS
  <2>2. /\ \A k \in 1 .. n : V[k] = ts[k].used
        /\ \A k \in 1 .. n + 1 : W[k] = u[k].used
    BY <1>1, <1>10, <2>1 DEF Useds
  <2>3. W[1] = 0
    <3>1. 1 \in 1 .. n + 1 BY <1>5
    <3>2. QED BY <1>9, <1>10, <2>2, <3>1
  <2>4. \A k \in 1 .. n : V[k] \in Int /\ W[k + 1] = V[k]
    <3>1. ASSUME NEW k \in 1 .. n PROVE V[k] \in Int /\ W[k + 1] = V[k]
      <4>1. k + 1 \in 1 .. n + 1 BY <1>5
      <4>2. PICK j : j = k + 1 OBVIOUS
      <4>3. W[j] = u[j].used BY <2>2, <4>1, <4>2
      <4>4. u[j] = ts[k] BY <1>10, <4>2
      <4>5. V[k] = ts[k].used BY <2>2
      <4>6. V[k] \in Int BY <1>5, <4>5
      <4>7. QED BY <4>2, <4>3, <4>4, <4>5, <4>6
    <3>2. QED BY <3>1
  <2>5. SumOf(W, 1 .. n + 1) = W[1] + SumOf(V, 1 .. n)
    <3>1. W[1] \in Int BY <2>3
    <3>2. QED BY <1>5, <2>4, <3>1, SumInFront
  <2>6. us \in Int
    <3>1. Summed(V, 1 .. n) BY <1>5, <2>4, Upto DEF Summed
    <3>2. QED BY <1>4, <2>1, <3>1, SumInt
  <2>7. QED BY <1>4, <2>1, <2>3, <2>5, <2>6
<1>15. hs = UNION {HeldIn(u[k]) : k \in 1 .. n + 1}
  <2>1. HeldIn(u[1]) = {} BY <1>9, <1>10 DEF HeldIn
  <2>2. ASSUME NEW h \in hs PROVE h \in UNION {HeldIn(u[k]) : k \in 1 .. n + 1}
    <3>1. PICK j \in 1 .. n : h \in HeldIn(ts[j]) BY <1>4
    <3>2. j + 1 \in 1 .. n + 1 /\ h \in HeldIn(u[j + 1]) BY <1>5, <1>10, <3>1
    <3>3. QED BY <3>2
  <2>3. ASSUME NEW h, h \in UNION {HeldIn(u[k]) : k \in 1 .. n + 1} PROVE h \in hs
    <3>1. PICK k \in 1 .. n + 1 : h \in HeldIn(u[k]) BY <2>3
    <3>2. k # 1 BY <2>1, <3>1
    <3>3. PICK j : j = k - 1 OBVIOUS
    <3>4. j \in 1 .. n /\ k = j + 1 BY <1>5, <3>2, <3>3
    <3>5. h \in HeldIn(ts[j]) BY <1>10, <3>1, <3>4
    <3>6. QED BY <1>4, <3>4, <3>5
  <2>4. QED BY <2>2, <2>3
<1>16. PoolOK(u, q, z, tot + x, us, hs)
  <2>1. PICK m, w : m = n + 1 /\ w = tot + x OBVIOUS
  <2>2. /\ Len(u) = m /\ w = q * Room + z + (m - q - 1) * FirstTotal(q, z)
        /\ w = SumOf(Totals(u), 1 .. m) /\ us = SumOf(Useds(u), 1 .. m)
        /\ hs = UNION {HeldIn(u[k]) : k \in 1 .. m}
    <3>1. Len(u) = m BY <1>10, <2>1
    <3>2. w = q * Room + z + (m - q - 1) * FirstTotal(q, z)
      <4>1. PICK e : e = (n + 1 - q - 1) * FirstTotal(q, z) OBVIOUS
      <4>5. PICK d, x1 : d = n + 1 - q - 1 /\ x1 = FirstTotal(q, z) OBVIOUS
      <4>6. e = d * x1 BY <4>1, <4>5
      <4>8. n \in Nat /\ q \in Nat BY <1>5
      <4>7. d = m - q - 1 BY <2>1, <4>5, <4>8
      <4>2. e = (m - q - 1) * FirstTotal(q, z) BY <4>5, <4>6, <4>7
      <4>3. w = q * Room + z + e BY <1>12, <2>1, <4>1
      <4>4. QED BY <4>2, <4>3
    <3>3. w = SumOf(Totals(u), 1 .. m) BY <1>13, <2>1
    <3>4. us = SumOf(Useds(u), 1 .. m) BY <1>14, <2>1
    <3>5. hs = UNION {HeldIn(u[k]) : k \in 1 .. m} BY <1>15, <2>1
    <3>6. QED BY <3>1, <3>2, <3>3, <3>4, <3>5
  <2>3. PoolOK(u, q, z, w, us, hs) BY <1>11, <2>2 DEF PoolOK
  <2>4. QED BY <2>1, <2>3
<1>17. QED BY <1>1, <1>3, <1>7, <1>10, <1>16

\* Growth of a pool.
LEMMA ExpandedKeeps ==
    ASSUME NEW ts, NEW q, NEW z, NEW tot, NEW us, NEW hs, PoolOK(ts, q, z, tot, us, hs),
           NEW u \in Expanded(ts)
    PROVE  /\ PoolOK(u, q, z, tot + FirstTotal(q, z), us, hs) /\ Len(u) = Len(ts) + 1
           /\ \E id, base : u[1] = cvsp_init_trunk(id, u[1].total, base) /\ SizeOk(u[1].total)
<1>1. PICK b : u = add_new_trunk(ts, b) BY DEF Expanded
<1>2. TrunksOK(ts, q, z) BY DEF PoolOK
<1>3. PICK x : x = ts[1].total OBVIOUS
<1>4. x = FirstTotal(q, z)
  <2>1. ts[1].total = FirstTotal(q, z) BY <1>2, FirstIs
  <2>2. QED BY <1>3, <2>1
<1>5. /\ PoolOK(u, q, z, tot + x, us, hs) /\ Len(u) = Len(ts) + 1
      /\ \E id : u[1] = cvsp_init_trunk(id, x, b) /\ SizeOk(x)
  BY <1>1, <1>3, AddedKeeps
<1>6. u[1].total = x BY <1>5, NewTrunk
<1>7. QED BY <1>4, <1>5, <1>6

LEMMA TotalIsOk ==
    ASSUME NEW q, NEW z, SizeOk(z), NEW id
    PROVE  SizeOk(TotalOf(id, q, z)) /\ SizeOk(FirstTotal(q, z))
  BY FullIsOk DEF TotalOf, FirstTotal

\* The k-th of the trunks a pool is created with.
NewAt(t, k, q, z) ==
    TrunkOK(t) /\ t.id = k - 1 /\ t.total = TotalOf(k - 1, q, z) /\ t.used = 0 /\ Busy(t) = {}

LEMMA CreatedAre ==
    ASSUME NEW slots, NEW q, NEW z, Shape(slots_num_adjust(slots), q, z), NEW ts \in Created(slots)
    PROVE  /\ DOMAIN ts = 1 .. q + 1 /\ ts = [k \in DOMAIN ts |-> ts[k]] /\ Len(ts) = q + 1
           /\ ts \in Seq({ts[k] : k \in 1 .. q + 1})
           /\ \A k \in 1 .. q + 1 : NewAt(ts[k], k, q, z)
<1>1. PICK S : S = slots_num_adjust(slots) OBVIOUS
<1>2. Shape(S, q, z) BY <1>1
<1>3. q \in Nat BY <1>2, ShapeIs
<1>4. PICK sizes : sizes = TrunkSizes(S) OBVIOUS
<1>5. sizes = [k \in 1 .. q + 1 |-> TotalOf(k - 1, q, z)] BY <1>2, <1>4, TrunkSizesAre
<1>6. DOMAIN sizes = 1 .. q + 1 /\ \A k \in 1 .. q + 1 : sizes[k] = TotalOf(k - 1, q, z) BY <1>5
<1>7. PICK b : ts = [k \in DOMAIN sizes |-> cvsp_init_trunk(k - 1, sizes[k], b[k])]
  BY <1>1, <1>4 DEF Created
<1>8. /\ DOMAIN ts = 1 .. q + 1 /\ ts = [k \in DOMAIN ts |-> ts[k]]
      /\ \A k \in 1 .. q + 1 : ts[k] = cvsp_init_trunk(k - 1, TotalOf(k - 1, q, z), b[k])
  <2>1. /\ DOMAIN ts = DOMAIN sizes
        /\ \A k \in DOMAIN sizes : ts[k] = cvsp_init_trunk(k - 1, sizes[k], b[k])
    BY <1>7
  <2>2. ts = [k \in DOMAIN ts |-> ts[k]] BY <1>7
  <2>3. QED BY <1>6, <2>1, <2>2
<1>9. Len(ts) = q + 1 /\ ts \in Seq({ts[k] : k \in 1 .. q + 1})
  <2>1. PICK n : n = q + 1 OBVIOUS
  <2>2. n \in Nat /\ DOMAIN ts = 1 .. n BY <1>3, <1>8, <2>1
  <2>3. Len(ts) = n /\ ts \in Seq({ts[k] : k \in 1 .. n}) BY <1>8, <2>2, ListOf
  <2>4. QED BY <2>1, <2>3
<1>10. ASSUME NEW k \in 1 .. q + 1
       PROVE  NewAt(ts[k], k, q, z)
  <2>1. PICK t, i, x, a : t = ts[k] /\ i = k - 1 /\ x = TotalOf(i, q, z) /\ a = b[k] OBVIOUS
  <2>2. t = cvsp_init_trunk(i, x, a) BY <1>8, <2>1
  <2>3. SizeOk(x) BY <1>2, <2>1, TotalIsOk DEF Shape
  <2>4. TrunkOK(t) /\ t.id = i /\ t.total = x /\ t.used = 0 /\ Busy(t) = {} BY <2>2, <2>3, NewTrunk
  <2>5. QED BY <2>1, <2>4 DEF NewAt
<1>11. QED BY <1>8, <1>9, <1>10

LEMMA CreatedIs ==
    ASSUME NEW slots, NEW q, NEW z, Shape(slots_num_adjust(slots), q, z), NEW ts \in Created(slots)
    PROVE  PoolOK(ts, q, z, slots_num_adjust(slots), 0, {}) /\ Len(ts) = q + 1
<1>1. PICK S, n : S = slots_num_adjust(slots) /\ n = q + 1 OBVIOUS
<1>2. Shape(S, q, z) BY <1>1
<1>3. q \in Nat /\ n \in Nat /\ n > q BY <1>1, <1>2, ShapeIs
<1>4. SizeOk(z) /\ z <= Room /\ S = q * Room + z BY <1>2 DEF Shape
<1>5. /\ DOMAIN ts = 1 .. n /\ ts = [k \in DOMAIN ts |-> ts[k]] /\ Len(ts) = n
      /\ \A k \in 1 .. n : /\ TrunkOK(ts[k]) /\ ts[k].id = k - 1 /\ ts[k].total = TotalOf(k - 1, q, z)
                           /\ ts[k].used = 0 /\ Busy(ts[k]) = {}
  <2>1. /\ DOMAIN ts = 1 .. q + 1 /\ ts = [k \in DOMAIN ts |-> ts[k]] /\ Len(ts) = q + 1
        /\ \A k \in 1 .. q + 1 : NewAt(ts[k], k, q, z)
    BY CreatedAre
  <2>2. QED BY <1>1, <2>1 DEF NewAt
<1>6. ASSUME NEW k \in 1 .. n PROVE TrunkAt(ts[k], k, n, q, z)
  <2>1. PICK i : i = k - 1 OBVIOUS
  <2>2. IdAt(k, n, q) = i
    <3>1. ~(k < n - q) /\ k - n + q = i BY <1>1, <1>3, <2>1
    <3>2. QED BY <3>1 DEF IdAt
  <2>3. TrunkOK(ts[k]) /\ ts[k].id = i /\ ts[k].total = TotalOf(i, q, z) BY <1>5, <2>1
  <2>4. QED BY <2>2, <2>3 DEF TrunkAt
<1>7. TrunksOK(ts, q, z) BY <1>3, <1>4, <1>5, <1>6 DEF TrunksOK
<1>8. SumOf(Totals(ts), 1 .. n) = S
  <2>1. PICK V : V = Totals(ts) OBVIOUS
  <2>2. \A k \in 1 .. n : V[k] = ts[k].total BY <1>5, <2>1 DEF Totals
  <2>3. \A k \in 1 .. q + 1 : V[k] = TotalOf(k - 1, q, z) BY <1>1, <1>5, <2>2
  <2>4. SumOf(V, 1 .. q + 1) = S BY <1>2, <2>3, SumStart
  <2>5. QED BY <1>1, <2>1, <2>4
<1>9. SumOf(Useds(ts), 1 .. n) = 0
  <2>1. PICK V : V = Useds(ts) OBVIOUS
  <2>2. \A k \in 1 .. n : V[k] = 0 BY <1>5, <2>1 DEF Useds
  <2>3. QED BY <1>3, <2>1, <2>2, SumZero
<1>10. {} = UNION {HeldIn(ts[k]) : k \in 1 .. n}
  <2>1. \A k \in 1 .. n : HeldIn(ts[k]) = {} BY <1>5 DEF HeldIn
  <2>2. QED BY <2>1
<1>11. S = q * Room + z + (n - q - 1) * FirstTotal(q, z)
  <2>1. PICK d, x : d = n - q - 1 /\ x = FirstTotal(q, z) OBVIOUS
  <2>2. d = 0 BY <1>1, <1>3, <2>1
  <2>3. x \in Nat BY <1>4, <2>1, TotalIsOk DEF SizeOk
  <2>4. d * x = 0 BY <2>2, <2>3
  <2>5. S \in Nat BY <1>2, ShapeIs
  <2>6. QED BY <1>4, <2>1, <2>4, <2>5
<1>12. PoolOK(ts, q, z, S, 0, {})
  <2>1. /\ Len(ts) = n /\ S = q * Room + z + (Len(ts) - q - 1) * FirstTotal(q, z)
        /\ S = SumOf(Totals(ts), 1 .. Len(ts)) /\ 0 = SumOf(Useds(ts), 1 .. Len(ts))
        /\ {} = UNION {HeldIn(ts[k]) : k \in 1 .. Len(ts)}
    <3>1. PICK m : m = Len(ts) OBVIOUS
    <3>2. m = n BY <1>5, <3>1
    <3>3. QED BY <1>8, <1>9, <1>10, <1>11, <3>1, <3>2
  <2>2. QED BY <1>7, <2>1 DEF PoolOK
<1>13. QED BY <1>1, <1>5, <1>12

\* Trunk r has what trunk t has, at another place.
Copies(r, t) == TrunkOK(r) /\ r.id = t.id /\ r.total = t.total /\ r.used = t.used /\ r.heads = t.heads

LEMMA LoadedIs ==
    ASSUME NEW o, NEW t, TrunkOK(o), TrunkOK(t), o.id = t.id, o.total = t.total
    PROVE  Copies(LoadedInto(o, t), t)
<1>1. o = Trunk(o.id, o.base, o.total, o.used, o.heads, o.tails) BY DEF TrunkOK
<1>2. PICK r, i, b, x : r = LoadedInto(o, t) /\ i = o.id /\ b = o.base /\ x = o.total OBVIOUS
<1>3. r = Trunk(i, b, x, t.used, t.heads, t.tails)
  <2>1. PICK u, H, T : u = o.used /\ H = o.heads /\ T = o.tails OBVIOUS
  <2>2. PICK v, K, U : v = t.used /\ K = t.heads /\ U = t.tails OBVIOUS
  <2>3. o = Trunk(i, b, x, u, H, T) BY <1>1, <1>2, <2>1
  <2>4. r = [o EXCEPT !.used = v, !.heads = K, !.tails = U] BY <1>2, <2>2 DEF LoadedInto
  <2>5. [o EXCEPT !.used = v, !.heads = K, !.tails = U]
            = [[[o EXCEPT !.used = v] EXCEPT !.heads = K] EXCEPT !.tails = U]
    OBVIOUS
  <2>6. [o EXCEPT !.used = v] = Trunk(i, b, x, v, H, T) BY <2>3 DEF Trunk
  <2>7. [Trunk(i, b, x, v, H, T) EXCEPT !.heads = K] = Trunk(i, b, x, v, K, T) BY DEF Trunk
  <2>8. [Trunk(i, b, x, v, K, T) EXCEPT !.tails = U] = Trunk(i, b, x, v, K, U) BY DEF Trunk
  <2>9. QED BY <2>2, <2>4, <2>5, <2>6, <2>7, <2>8
<1>4. t.total \in Nat /\ Body(t.heads, t.tails, t.total + MIN_NODE_SIZE, t.used) BY DEF TrunkOK
<1>5. x = t.total /\ i = t.id BY <1>2
<1>6. x \in Nat /\ Body(t.heads, t.tails, x + MIN_NODE_SIZE, t.used) BY <1>4, <1>5
<1>7. /\ r.id = i /\ r.total = x /\ r.used = t.used /\ r.heads = t.heads
      /\ (x \in Nat /\ Body(t.heads, t.tails, x + MIN_NODE_SIZE, t.used) => TrunkOK(r))
  BY <1>3, TrunkFields
<1>8. QED BY <1>2, <1>5, <1>6, <1>7 DEF Copies

LEMMA CopiedKeeps ==
    ASSUME NEW ts, NEW q, NEW z, NEW tot, NEW us, NEW hs, PoolOK(ts, q, z, tot, us, hs),
           NEW r, DOMAIN r = 1 .. Len(ts), r = [k \in DOMAIN r |-> r[k]],
           \A k \in 1 .. Len(ts) : Copies(r[k], ts[k])
    PROVE  PoolOK(r, q, z, tot, us, hs)
<1>1. PICK n : n = Len(ts) OBVIOUS
<1>2. /\ TrunksOK(ts, q, z) /\ tot = q * Room + z + (n - q - 1) * FirstTotal(q, z)
      /\ tot = SumOf(Totals(ts), 1 .. n) /\ us = SumOf(Useds(ts), 1 .. n)
      /\ hs = UNION {HeldIn(ts[j]) : j \in 1 .. n}
  BY <1>1 DEF PoolOK
<1>3. n \in Nat /\ \A k \in 1 .. n : ts[k].total \in Nat /\ ts[k].used \in Int BY <1>1, <1>2, TrunksAre
<1>4. DOMAIN r = 1 .. n /\ \A k \in 1 .. n : Copies(r[k], ts[k]) BY <1>1
<1>5. Len(r) = n BY <1>3, <1>4, ListOf
<1>6. \A k \in 1 .. n : /\ TrunkOK(r[k]) /\ r[k].id = ts[k].id /\ r[k].total = ts[k].total
                        /\ r[k].used = ts[k].used /\ r[k].heads = ts[k].heads
  BY <1>4 DEF Copies
<1>7. TrunksOK(r, q, z)
  <2>1. q \in Nat /\ SizeOk(z) /\ z <= Room /\ n > q /\ \A k \in 1 .. n : TrunkAt(ts[k], k, n, q, z)
    BY <1>1, <1>2 DEF TrunksOK
  <2>2. \A k \in 1 .. n : TrunkAt(r[k], k, n, q, z) BY <1>6, <2>1 DEF TrunkAt
  <2>3. QED BY <1>3, <1>4, <1>5, <2>1, <2>2 DEF TrunksOK
<1>8. SumOf(Totals(r), 1 .. n) = tot
  <2>1. PICK V, W : V = Totals(ts) /\ W = Totals(r) OBVIOUS
  <2>2. \A k \in 1 .. n : V[k] = ts[k].total /\ W[k] = r[k].total BY <1>1, <1>5, <2>1 DEF Totals
  <2>3. \A k \in 1 .. n : W[k] = V[k] /\ V[k] \in Int BY <1>3, <1>6, <2>2
  <2>4. Summed(V, 1 .. n) BY <1>3, <2>3, Upto DEF Summed
  <2>5. SumOf(W, 1 .. n) = SumOf(V, 1 .. n) BY <2>3, <2>4, SumSame
  <2>6. QED BY <1>2, <2>1, <2>5
<1>9. SumOf(Useds(r), 1 .. n) = us
  <2>1. PICK V, W : V = Useds(ts) /\ W = Useds(r) OBVIOUS
  <2>2. \A k \in 1 .. n : V[k] = ts[k].used /\ W[k] = r[k].used BY <1>1, <1>5, <2>1 DEF Useds
  <2>3. \A k \in 1 .. n : W[k] = V[k] /\ V[k] \in Int BY <1>3, <1>6, <2>2
  <2>4. Summed(V, 1 .. n) BY <1>3, <2>3, Upto DEF Summed
  <2>5. SumOf(W, 1 .. n) = SumOf(V, 1 .. n) BY <2>3, <2>4, SumSame
  <2>6. QED BY <1>2, <2>1, <2>5
<1>10. \A k \in 1 .. n : HeldIn(r[k]) = HeldIn(ts[k])
  <2>1. ASSUME NEW k \in 1 .. n PROVE HeldIn(r[k]) = HeldIn(ts[k])
    <3>1. Busy(r[k]) = Busy(ts[k]) BY <1>6 DEF Busy, Nodes
    <3>2. QED BY <1>6, <3>1 DEF HeldIn
  <2>2. QED BY <2>1
<1>11. hs = UNION {HeldIn(r[k]) : k \in 1 .. n} BY <1>2, <1>10
<1>12. QED BY <1>2, <1>5, <1>7, <1>8, <1>9, <1>11 DEF PoolOK

LEMMA JoinIs ==
    ASSUME NEW m \in Nat, NEW n \in Nat, NEW A, NEW B,
           DOMAIN A = 1 .. m, A = [k \in DOMAIN A |-> A[k]],
           DOMAIN B = 1 .. n, B = [k \in DOMAIN B |-> B[k]]
    PROVE  /\ DOMAIN (A \o B) = 1 .. m + n
           /\ \A k \in 1 .. m : (A \o B)[k] = A[k]
           /\ \A k \in 1 .. n : (A \o B)[m + k] = B[k]
<1>1. PICK X, Y, Z : X = {A[k] : k \in 1 .. m} /\ Y = {B[k] : k \in 1 .. n} /\ Z = X \cup Y OBVIOUS
<1>2. Len(A) = m /\ A \in Seq(X) BY <1>1, ListOf
<1>3. Len(B) = n /\ B \in Seq(Y) BY <1>1, ListOf
<1>4. A \in Seq(Z) /\ B \in Seq(Z)
  <2>1. X \subseteq Z /\ Y \subseteq Z BY <1>1
  <2>2. A \in Seq(Z) BY <1>2, <2>1
  <2>3. B \in Seq(Z) BY <1>3, <2>1
  <2>4. QED BY <2>2, <2>3
<1>5. A \o B \in Seq(Z) /\ Len(A \o B) = m + n BY <1>2, <1>3, <1>4
<1>6. DOMAIN (A \o B) = 1 .. m + n BY <1>5
<1>7. \A k \in 1 .. m : (A \o B)[k] = A[k] BY <1>2, <1>3, <1>4
<1>8. \A k \in 1 .. n : (A \o B)[m + k] = B[k] BY <1>2, <1>3, <1>4
<1>9. QED BY <1>6, <1>7, <1>8

\* A pool that takes a dump is the pool that was dumped, at other places.
LEMMA LoadsKeep ==
    ASSUME NEW ts, NEW q, NEW z, NEW tot, NEW us, NEW hs, PoolOK(ts, q, z, tot, us, hs),
           NEW slots, Shape(slots_num_adjust(slots), q, z), NEW own \in Created(slots),
           NEW dump, dump.trunks = ts, dump.ocnt = q + 1, NEW r \in Loads(own, dump)
    PROVE  PoolOK(r, q, z, tot, us, hs)
<1>1. TrunksOK(ts, q, z) BY DEF PoolOK
<1>2. PICK n, a, x : n = Len(ts) /\ a = n - (q + 1) /\ x = own[1].total OBVIOUS
<1>3. /\ q \in Nat /\ n \in Nat /\ n > q /\ a \in Nat /\ n = a + (q + 1) /\ q + 1 \in Nat
  <2>1. q \in Nat /\ Len(ts) \in Nat /\ Len(ts) > q BY <1>1, TrunksAre
  <2>2. QED BY <1>2, <2>1
<1>4. \A k \in 1 .. n : TrunkOK(ts[k]) /\ ts[k].id = IdAt(k, n, q) /\ ts[k].total = TotalOf(ts[k].id, q, z)
  <2>1. \A k \in 1 .. n : TrunkAt(ts[k], k, n, q, z) BY <1>1, <1>2 DEF TrunksOK
  <2>2. QED BY <2>1 DEF TrunkAt
<1>5. /\ DOMAIN own = 1 .. q + 1 /\ own = [k \in DOMAIN own |-> own[k]] /\ Len(own) = q + 1
      /\ \A k \in 1 .. q + 1 : TrunkOK(own[k]) /\ own[k].id = k - 1 /\ own[k].total = TotalOf(k - 1, q, z)
  <2>1. DOMAIN own = 1 .. q + 1 /\ own = [k \in DOMAIN own |-> own[k]] /\ Len(own) = q + 1
    BY CreatedAre
  <2>2. \A k \in 1 .. q + 1 : NewAt(own[k], k, q, z) BY CreatedAre
  <2>3. QED BY <2>1, <2>2 DEF NewAt
<1>6. x = FirstTotal(q, z)
  <2>1. 1 \in 1 .. q + 1 /\ 1 - 1 = 0 BY <1>3
  <2>2. PICK i, j : j = 1 /\ i = j - 1 OBVIOUS
  <2>3. j \in 1 .. q + 1 /\ i = 0 BY <2>1, <2>2
  <2>4. own[j].total = TotalOf(i, q, z) BY <1>5, <2>2, <2>3
  <2>5. x = TotalOf(i, q, z) BY <1>2, <2>2, <2>4
  <2>6. QED BY <1>3, <2>3, <2>5 DEF TotalOf, FirstTotal
<1>7. SizeOk(x)
  <2>1. SizeOk(z) BY <1>1 DEF TrunksOK
  <2>2. QED BY <1>6, <2>1, TotalIsOk
<1> DEFINE added == Len(dump.trunks) - dump.ocnt
           size == own[1].total
           List(b) == [k \in 1 .. added |-> cvsp_init_trunk(Len(own) + added - k, size, b[k])] \o own
<1>8. PICK b : r = [k \in DOMAIN List(b) |-> LoadedInto(List(b)[k], dump.trunks[Into(k, Len(own), added)])]
  BY Zenon DEF Loads
<1>9. added = a /\ size = x BY <1>2
<1> HIDE DEF added, size
<1>10. PICK A : A = [k \in 1 .. added |-> cvsp_init_trunk(Len(own) + added - k, size, b[k])] OBVIOUS
<1>11. PICK L : L = A \o own OBVIOUS
<1>12. L = List(b) BY <1>10, <1>11
<1> HIDE DEF List
<1>13. r = [k \in DOMAIN L |-> LoadedInto(L[k], ts[k])] BY <1>8, <1>12 DEF Into
<1>14. /\ DOMAIN A = 1 .. a /\ A = [k \in DOMAIN A |-> A[k]]
       /\ \A k \in 1 .. a : A[k] = cvsp_init_trunk(n - k, x, b[k])
  <2>1. \A k \in 1 .. a : Len(own) + added - k = n - k BY <1>3, <1>5, <1>9
  <2>2. /\ DOMAIN A = 1 .. added /\ A = [k \in DOMAIN A |-> A[k]]
        /\ \A k \in 1 .. added : A[k] = cvsp_init_trunk(Len(own) + added - k, size, b[k])
    BY <1>10
  <2>3. QED BY <1>9, <2>1, <2>2
<1>15. /\ DOMAIN L = 1 .. n /\ \A k \in 1 .. a : L[k] = A[k]
       /\ \A k \in 1 .. q + 1 : L[a + k] = own[k]
  <2>1. PICK m : m = q + 1 OBVIOUS
  <2>2. m \in Nat /\ DOMAIN own = 1 .. m /\ n = a + m BY <1>3, <1>5, <2>1
  <2>3. /\ DOMAIN (A \o own) = 1 .. a + m
        /\ \A k \in 1 .. a : (A \o own)[k] = A[k]
        /\ \A k \in 1 .. m : (A \o own)[a + k] = own[k]
    <3>1. own = [k \in DOMAIN own |-> own[k]] BY <1>5
    <3>2. DOMAIN A = 1 .. a /\ A = [k \in DOMAIN A |-> A[k]] BY <1>14
    <3>3. a \in Nat BY <1>3
    <3>4. QED BY <2>2, <3>1, <3>2, <3>3, JoinIs
  <2>4. QED BY <1>11, <2>1, <2>2, <2>3
<1>16. ASSUME NEW k \in 1 .. n PROVE Copies(LoadedInto(L[k], ts[k]), ts[k])
  <2>1. PICK o, t : o = L[k] /\ t = ts[k] OBVIOUS
  <2>2. TrunkOK(t) /\ t.id = IdAt(k, n, q) /\ t.total = TotalOf(t.id, q, z) BY <1>4, <2>1
  <2>3. CASE k <= a
    <3>1. PICK i, c : i = n - k /\ c = b[k] OBVIOUS
    <3>2. k \in 1 .. a BY <1>3, <2>3
    <3>3. o = cvsp_init_trunk(i, x, c) BY <1>14, <1>15, <2>1, <3>1, <3>2
    <3>4. TrunkOK(o) /\ o.id = i /\ o.total = x BY <1>7, <3>3, NewTrunk
    <3>5. IdAt(k, n, q) = i
      <4>1. k < n - q BY <1>3, <2>3
      <4>2. QED BY <3>1, <4>1 DEF IdAt
    <3>6. i # q BY <1>3, <2>3, <3>1
    <3>7. t.total = x BY <1>6, <2>2, <3>5, <3>6 DEF TotalOf, FirstTotal
    <3>8. QED BY <2>1, <2>2, <3>4, <3>5, <3>7, LoadedIs
  <2>4. CASE ~(k <= a)
    <3>1. PICK j, i : j = k - a /\ i = j - 1 OBVIOUS
    <3>2. j \in 1 .. q + 1 /\ a + j = k BY <1>3, <2>4, <3>1
    <3>3. L[a + j] = own[j] BY <1>15, <3>2
    <3>4. o = own[j] BY <2>1, <3>2, <3>3
    <3>5. TrunkOK(o) /\ o.id = i /\ o.total = TotalOf(i, q, z) BY <1>5, <3>1, <3>2, <3>4
    <3>6. IdAt(k, n, q) = i
      <4>1. ~(k < n - q) /\ k - n + q = i BY <1>3, <2>4, <3>1
      <4>2. QED BY <4>1 DEF IdAt
    <3>7. QED BY <2>1, <2>2, <3>5, <3>6, LoadedIs
  <2>5. QED BY <2>3, <2>4
<1>17. /\ DOMAIN r = 1 .. n /\ r = [k \in DOMAIN r |-> r[k]]
       /\ \A k \in 1 .. n : r[k] = LoadedInto(L[k], ts[k])
  BY <1>13, <1>15
<1>18. \A k \in 1 .. Len(ts) : Copies(r[k], ts[k]) BY <1>2, <1>16, <1>17
<1>19. DOMAIN r = 1 .. Len(ts) BY <1>2, <1>17
<1>20. QED BY <1>17, <1>18, <1>19, CopiedKeeps

-----------------------------------------------------------------------------
(* The pool and its steps *)

\* What holds of the pool that the variables describe.
IsPool(q, z) == PoolOK(trunks, q, z, total, used, held) /\ ocnt = q + 1

CvsPoolInv == strayed = "no" => \E q, z : IsPool(q, z)

\* The counter of slots follows the number of trunks.
LEMMA TotalIs ==
    ASSUME NEW q, NEW z, IsPool(q, z), NEW ts, NEW tot, NEW us, NEW hs, PoolOK(ts, q, z, tot, us, hs)
    PROVE  tot = Total(ts)
<1>1. PICK m, n, x : m = Len(trunks) /\ n = Len(ts) /\ x = FirstTotal(q, z) OBVIOUS
<1>2. TrunksOK(trunks, q, z) /\ total = q * Room + z + (m - q - 1) * x BY <1>1 DEF IsPool, PoolOK
<1>3. TrunksOK(ts, q, z) /\ tot = q * Room + z + (n - q - 1) * x BY <1>1 DEF PoolOK
<1>4. trunks[1].total = x BY <1>1, <1>2, FirstIs
<1>5. q \in Nat /\ z \in Nat /\ m \in Nat /\ n \in Nat /\ m > q /\ n > q BY <1>1, <1>2, <1>3, TrunksAre
<1>6. x \in Nat
  <2>1. SizeOk(x) BY <1>1, <1>2, TotalIsOk DEF TrunksOK
  <2>2. QED BY <2>1 DEF SizeOk
<1>7. PICK y, d, e : y = q * Room /\ d = m - q - 1 /\ e = n - q - 1 OBVIOUS
<1>8. y \in Nat BY <1>5, <1>7, RoomIs
<1>9. d \in Nat /\ e \in Nat /\ n - m = e - d BY <1>5, <1>7
<1>10. (e - d) * x = e * x - d * x /\ e * x \in Nat /\ d * x \in Nat BY <1>6, <1>9
<1>11. Total(ts) = total + (e - d) * x BY <1>1, <1>4, <1>9 DEF Total
<1>12. total = y + z + d * x /\ tot = y + z + e * x BY <1>2, <1>3, <1>7
<1>13. PICK v, w : v = d * x /\ w = e * x OBVIOUS
<1>14. total = y + z + v /\ tot = y + z + w /\ Total(ts) = total + (w - v) /\ v \in Nat /\ w \in Nat
  BY <1>10, <1>11, <1>12, <1>13
<1>15. QED BY <1>5, <1>8, <1>14

\* The pool before it is asked for a node, grown by a trunk or two.
Grown(ts, q, z) == PoolOK(ts, q, z, Total(ts), used, held)

\* The trunk in front is as cvsp_init_trunk makes it.
NewInFront(ts) == \E id, base : ts[1] = cvsp_init_trunk(id, ts[1].total, base) /\ SizeOk(ts[1].total)

LEMMA GrownIs ==
    ASSUME NEW q, NEW z, IsPool(q, z)
    PROVE  /\ Grown(trunks, q, z)
           /\ \A ts : Grown(ts, q, z) => \A u \in Expanded(ts) : Grown(u, q, z) /\ NewInFront(u)
<1>1. Grown(trunks, q, z)
  <2>1. PoolOK(trunks, q, z, total, used, held) BY DEF IsPool
  <2>2. total = Total(trunks) BY <2>1, TotalIs
  <2>3. QED BY <2>1, <2>2 DEF Grown
<1>2. ASSUME NEW ts, Grown(ts, q, z), NEW u \in Expanded(ts) PROVE Grown(u, q, z) /\ NewInFront(u)
  <2>1. PICK tot : tot = Total(ts) OBVIOUS
  <2>2. PoolOK(ts, q, z, tot, used, held) BY <1>2, <2>1 DEF Grown
  <2>3. /\ PoolOK(u, q, z, tot + FirstTotal(q, z), used, held)
        /\ \E id, base : u[1] = cvsp_init_trunk(id, u[1].total, base) /\ SizeOk(u[1].total)
    BY <1>2, <2>2, ExpandedKeeps
  <2>4. PICK w : w = tot + FirstTotal(q, z) OBVIOUS
  <2>5. PoolOK(u, q, z, w, used, held) BY <2>3, <2>4
  <2>6. w = Total(u) BY <2>5, TotalIs
  <2>7. QED BY <2>3, <2>5, <2>6 DEF Grown, NewInFront
<1>3. QED BY <1>1, <1>2

LEMMA OutcomesAre ==
    ASSUME NEW q, NEW z, IsPool(q, z), NEW need, NEW o \in Outcomes(need)
    PROVE  /\ Grown(o.ts, q, z)
           /\ o.how = "fits" => WithFit(o.ts, need) # {}
           /\ o.how = "hangs" => WithFit(o.ts, need) = {} /\ NewInFront(o.ts)
<1> DEFINE grown == IF used = total /\ mode = "autoex" THEN Expanded(trunks) ELSE {trunks}
           Ask(ts) ==
            IF used = total /\ mode = "fixed" THEN {[ts |-> ts, how |-> "null"]}
            ELSE IF need > BlockSlots THEN {[ts |-> ts, how |-> "assert"]}
            ELSE IF need > ts[1].total THEN {[ts |-> ts, how |-> "null"]}
            ELSE IF WithFit(ts, need) # {} THEN {[ts |-> ts, how |-> "fits"]}
            ELSE IF mode = "fixed" THEN {[ts |-> ts, how |-> "null"]}
            ELSE {[ts |-> u, how |-> RescanOf(u, need)] : u \in Expanded(ts)}
<1>1. PICK ts \in grown : o \in Ask(ts) BY Zenon DEF Outcomes
<1>2. Grown(ts, q, z)
  <2>1. ts = trunks \/ ts \in Expanded(trunks) OBVIOUS
  <2> HIDE DEF grown, Ask
  <2>2. QED BY <2>1, GrownIs
<1>3. \/ o = [ts |-> ts, how |-> "null"] \/ o = [ts |-> ts, how |-> "assert"]
      \/ o = [ts |-> ts, how |-> "fits"] /\ WithFit(ts, need) # {}
      \/ \E u \in Expanded(ts) : o = [ts |-> u, how |-> RescanOf(u, need)]
  BY <1>1
<1> HIDE DEF grown, Ask
<1>4. CASE o = [ts |-> ts, how |-> "null"]
  <2>1. o.ts = ts /\ o.how = "null" BY <1>4
  <2>2. QED BY <1>2, <2>1
<1>5. CASE o = [ts |-> ts, how |-> "assert"]
  <2>1. o.ts = ts /\ o.how = "assert" BY <1>5
  <2>2. QED BY <1>2, <2>1
<1>6. CASE o = [ts |-> ts, how |-> "fits"] /\ WithFit(ts, need) # {}
  <2>1. o.ts = ts /\ o.how = "fits" BY <1>6
  <2>2. QED BY <1>2, <1>6, <2>1
<1>7. CASE \E u \in Expanded(ts) : o = [ts |-> u, how |-> RescanOf(u, need)]
  <2>1. PICK u \in Expanded(ts) : o = [ts |-> u, how |-> RescanOf(u, need)] BY <1>7
  <2>2. Grown(u, q, z) /\ NewInFront(u) BY <1>2, <2>1, GrownIs
  <2>3. PICK w : w = RescanOf(u, need) /\ w = IF WithFit(u, need) # {} THEN "fits" ELSE "hangs" BY DEF RescanOf
  <2>4. o.ts = u /\ o.how = w BY <2>1, <2>3
  <2>5. QED BY <2>2, <2>3, <2>4
<1>8. QED BY <1>3, <1>4, <1>5, <1>6, <1>7

LEMMA AllocStep ==
    ASSUME NEW cnt \in Counts, objv_alloc(cnt), CvsPoolInv
    PROVE  CvsPoolInv'
<1>1. strayed = "no" BY DEF objv_alloc, Running
<1>2. PICK q, z : IsPool(q, z) BY <1>1 DEF CvsPoolInv
<1>3. PICK size : size = ObjSize * cnt OBVIOUS
<1>4. size \in Nat BY <1>3, CvsPoolAssumption
<1>5. PICK need : need = NeedSlots(size) OBVIOUS
<1>6. PICK o \in Outcomes(need) :
        /\ total' = Total(o.ts)
        /\ IF o.how = "fits"
           THEN \E f \in {FirstFit(o.ts, need)} :
                    /\ trunks' = Allocated(o.ts, f, size) /\ used' = used + need
                    /\ held' = held \cup {[trunk |-> o.ts[f.k].id, at |-> f.at, len |-> need]}
           ELSE trunks' = o.ts /\ UNCHANGED <<used, held>>
  BY <1>3, <1>5 DEF objv_alloc
<1>7. ocnt' = ocnt BY DEF objv_alloc
<1>8. /\ Grown(o.ts, q, z)
      /\ o.how = "fits" => WithFit(o.ts, need) # {} BY <1>2, OutcomesAre
<1>9. PICK ts, tot : ts = o.ts /\ tot = Total(o.ts) OBVIOUS
<1>10. PoolOK(ts, q, z, tot, used, held) BY <1>8, <1>9 DEF Grown
<1>11. PoolOK(trunks', q, z, total', used', held')
  <2>1. CASE o.how = "fits"
    <3>1. PICK f : f = FirstFit(ts, need) OBVIOUS
    <3>2. PICK h : h = [trunk |-> ts[f.k].id, at |-> f.at, len |-> need] OBVIOUS
    <3>3. trunks' = Allocated(ts, f, size) /\ used' = used + need /\ held' = held \cup {h} /\ total' = tot
      BY <1>6, <1>9, <2>1, <3>1, <3>2
    <3>4. PoolOK(Allocated(ts, f, size), q, z, tot, used + NeedSlots(size), held \cup {h})
      <4>1. WithFit(ts, NeedSlots(size)) # {} BY <1>5, <1>8, <1>9, <2>1
      <4>2. f = FirstFit(ts, NeedSlots(size)) BY <1>5, <3>1
      <4>3. h = [trunk |-> ts[f.k].id, at |-> f.at, len |-> NeedSlots(size)] BY <1>5, <3>2
      <4>4. QED BY <1>4, <1>10, <4>1, <4>2, <4>3, AllocatedKeeps
    <3>5. QED BY <1>5, <3>3, <3>4
  <2>2. CASE o.how # "fits"
    <3>1. trunks' = ts /\ used' = used /\ held' = held /\ total' = tot BY <1>6, <1>9, <2>2
    <3>2. QED BY <1>10, <3>1
  <2>3. QED BY <2>1, <2>2
<1>12. ocnt' = q + 1 BY <1>2, <1>7 DEF IsPool
<1>13. QED BY <1>11, <1>12 DEF CvsPoolInv, IsPool

\* A release that leads the pool astray is not looked at any further.
LEMMA AstrayIs ==
    ASSUME NEW ts, NEW cache, NEW h, "no" \in Astray(ts, cache, h)
    PROVE  ~Misread(ts[ById(ts, h.trunk)], h.at) /\ ~Crosses(ts[ById(ts, h.trunk)], h.at)
<1>1. PICK t : t = ts[ById(ts, h.trunk)] OBVIOUS
<1>2. ~Misread(t, h.at) /\ ~Crosses(t, h.at) BY <1>1 DEF Astray
<1>3. QED BY <1>1, <1>2

\* What cvsp_free leaves of a pool that is as it should be.
LEMMA ReleaseKeeps ==
    ASSUME NEW ts, NEW q, NEW z, NEW tot, NEW us, NEW hs, PoolOK(ts, q, z, tot, us, hs),
           NEW cache, NEW h \in hs, cvsp_free(ts, cache, h, us, hs), strayed' = "no"
    PROVE  PoolOK(trunks', q, z, tot, used', held')
<1>1. /\ "no" \in Astray(ts, cache, h) /\ trunks' = FreedIn(ts, h)
      /\ used' = us - LenOf(ts, h) /\ held' = hs \ {h}
  BY DEF cvsp_free
<1>2. ~Misread(ts[ById(ts, h.trunk)], h.at) /\ ~Crosses(ts[ById(ts, h.trunk)], h.at) BY <1>1, AstrayIs
<1>3. PoolOK(FreedIn(ts, h), q, z, tot, us - LenOf(ts, h), hs \ {h}) BY <1>2, FreedKeeps
<1>4. QED BY <1>1, <1>3

LEMMA FreeStep ==
    ASSUME NEW h \in held, objv_free(h), CvsPoolInv
    PROVE  CvsPoolInv'
<1>1. strayed = "no" BY DEF objv_free, Running
<1>2. PICK q, z : IsPool(q, z) BY <1>1 DEF CvsPoolInv
<1>3. SUFFICES ASSUME strayed' = "no" PROVE CvsPoolInv' BY DEF CvsPoolInv
<1>4. cvsp_free(trunks, cached, h, used, held) /\ ocnt' = ocnt /\ total' = total BY DEF objv_free
<1>5. PICK ts, cache, us, hs, tot : ts = trunks /\ cache = cached /\ us = used /\ hs = held /\ tot = total
  OBVIOUS
<1>6. PoolOK(ts, q, z, tot, us, hs) /\ h \in hs BY <1>2, <1>5 DEF IsPool
<1>7. cvsp_free(ts, cache, h, us, hs) BY <1>4, <1>5
<1>8. PoolOK(trunks', q, z, tot, used', held') BY <1>3, <1>6, <1>7, ReleaseKeeps
<1>9. total' = tot /\ ocnt' = q + 1 BY <1>2, <1>4, <1>5 DEF IsPool
<1>10. QED BY <1>8, <1>9 DEF CvsPoolInv, IsPool

\* The old objects are freed or kept after an allocation.
LEMMA OldKeeps ==
    ASSUME NEW ts, NEW q, NEW z, NEW tot, NEW us, NEW hs, PoolOK(ts, q, z, tot, us, hs),
           NEW cache, NEW h \in hs, NEW free_old, FreesOld(free_old, ts, cache, h, us, hs), strayed' = "no"
    PROVE  PoolOK(trunks', q, z, tot, used', held')
<1>1. CASE free_old
  <2>1. cvsp_free(ts, cache, h, us, hs) BY <1>1 DEF FreesOld
  <2>2. QED BY <2>1, ReleaseKeeps
<1>2. CASE ~free_old
  <2>1. trunks' = ts /\ used' = us /\ held' = hs BY <1>2 DEF FreesOld
  <2>2. QED BY <2>1
<1>3. QED BY <1>1, <1>2

LEMMA ReallocStep ==
    ASSUME NEW h \in held, NEW cnt \in Counts, NEW free_old \in BOOLEAN, NEW adjust_fn \in BOOLEAN,
           objv_realloc(h, cnt, free_old, adjust_fn), CvsPoolInv
    PROVE  CvsPoolInv'
<1>1. strayed = "no" BY DEF objv_realloc, Running
<1>2. PICK q, z : IsPool(q, z) BY <1>1 DEF CvsPoolInv
<1>3. PICK size : size = ObjSize * cnt OBVIOUS
<1>4. size \in Nat BY <1>3, CvsPoolAssumption
<1>5. PICK need : need = NeedSlots(size) OBVIOUS
<1>6. PICK cache \in {FoundIn(trunks, cached, h)}, o \in Outcomes(need) :
        /\ total' = Total(o.ts)
        /\ \/ /\ o.how = "fits"
              /\ \E f \in {FirstFit(o.ts, need)} :
                 \E ts \in {Allocated(o.ts, f, size)} :
                 \E new \in {[trunk |-> ts[f.k].id, at |-> f.at, len |-> need]} :
                     FreesOld(free_old, ts, cache, h, used + new.len, held \cup {new})
           \/ FreesOld(free_old, o.ts, cache, h, used, held)
           \/ FreesOld(FALSE, o.ts, cache, h, used, held)
  <2>1. \E cache \in {FoundIn(trunks, cached, h)}, o \in Outcomes(NeedSlots(ObjSize * cnt)) :
          /\ total' = Total(o.ts)
          /\ \/ /\ o.how = "fits"
                /\ \E f \in {FirstFit(o.ts, NeedSlots(ObjSize * cnt))} :
                   \E ts \in {Allocated(o.ts, f, ObjSize * cnt)} :
                   \E new \in {[trunk |-> ts[f.k].id, at |-> f.at, len |-> NeedSlots(ObjSize * cnt)]} :
                       FreesOld(free_old, ts, cache, h, used + new.len, held \cup {new})
             \/ FreesOld(free_old, o.ts, cache, h, used, held)
             \/ FreesOld(FALSE, o.ts, cache, h, used, held)
    BY Zenon DEF objv_realloc
  <2>2. size = ObjSize * cnt /\ need = NeedSlots(ObjSize * cnt) BY <1>3, <1>5
  <2>3. PICK cache \in {FoundIn(trunks, cached, h)}, o \in Outcomes(NeedSlots(ObjSize * cnt)) :
          /\ total' = Total(o.ts)
          /\ \/ /\ o.how = "fits"
                /\ \E f \in {FirstFit(o.ts, NeedSlots(ObjSize * cnt))} :
                   \E ts \in {Allocated(o.ts, f, ObjSize * cnt)} :
                   \E new \in {[trunk |-> ts[f.k].id, at |-> f.at, len |-> NeedSlots(ObjSize * cnt)]} :
                       FreesOld(free_old, ts, cache, h, used + new.len, held \cup {new})
             \/ FreesOld(free_old, o.ts, cache, h, used, held)
             \/ FreesOld(FALSE, o.ts, cache, h, used, held)
    BY <2>1, Zenon
  <2>4. CASE /\ o.how = "fits"
             /\ \E f \in {FirstFit(o.ts, NeedSlots(ObjSize * cnt))} :
                \E ts \in {Allocated(o.ts, f, ObjSize * cnt)} :
                \E new \in {[trunk |-> ts[f.k].id, at |-> f.at, len |-> NeedSlots(ObjSize * cnt)]} :
                    FreesOld(free_old, ts, cache, h, used + new.len, held \cup {new})
    <3>1. PICK f, ts, new : /\ f = FirstFit(o.ts, NeedSlots(ObjSize * cnt))
                            /\ ts = Allocated(o.ts, f, ObjSize * cnt)
                            /\ new = [trunk |-> ts[f.k].id, at |-> f.at, len |-> NeedSlots(ObjSize * cnt)]
                            /\ FreesOld(free_old, ts, cache, h, used + new.len, held \cup {new})
      BY <2>4, Zenon
    <3>2. /\ f \in {FirstFit(o.ts, need)} /\ ts \in {Allocated(o.ts, f, size)}
          /\ new \in {[trunk |-> ts[f.k].id, at |-> f.at, len |-> need]}
      BY <2>2, <3>1
    <3>3. o \in Outcomes(need) BY <2>2
    <3>4. QED BY <2>3, <2>4, <3>1, <3>2, <3>3, Zenon
  <2>5. CASE \/ FreesOld(free_old, o.ts, cache, h, used, held)
             \/ FreesOld(FALSE, o.ts, cache, h, used, held)
    <3>1. o \in Outcomes(need) BY <2>2
    <3>2. QED BY <2>3, <2>5, <3>1, Zenon
  <2>6. QED BY <2>3, <2>4, <2>5, Zenon
<1>7. ocnt' = ocnt BY DEF objv_realloc
<1>8. /\ Grown(o.ts, q, z)
      /\ o.how = "fits" => WithFit(o.ts, need) # {}
  BY <1>2, OutcomesAre
<1>9. PICK ts0, tot, us, hs : ts0 = o.ts /\ tot = Total(o.ts) /\ us = used /\ hs = held OBVIOUS
<1>10. PoolOK(ts0, q, z, tot, us, hs) /\ h \in hs BY <1>8, <1>9 DEF Grown
<1>11. SUFFICES ASSUME strayed' = "no" PROVE CvsPoolInv' BY DEF CvsPoolInv
<1>12. PoolOK(trunks', q, z, tot, used', held')
  <2>1. ASSUME o.how = "fits",
               NEW f \in {FirstFit(o.ts, need)}, NEW ts \in {Allocated(o.ts, f, size)},
               NEW new \in {[trunk |-> ts[f.k].id, at |-> f.at, len |-> need]},
               FreesOld(free_old, ts, cache, h, used + new.len, held \cup {new})
        PROVE  PoolOK(trunks', q, z, tot, used', held')
    <3>1. f = FirstFit(ts0, need) /\ ts = Allocated(ts0, f, size) BY <1>9
    <3>2. PICK g : g = [trunk |-> ts0[f.k].id, at |-> f.at, len |-> need] OBVIOUS
    <3>3. /\ PoolOK(ts, q, z, tot, us + need, hs \cup {g}) /\ ts[f.k].id = ts0[f.k].id
      <4>1. WithFit(ts0, NeedSlots(size)) # {} BY <1>5, <1>8, <1>9, <2>1
      <4>2. f = FirstFit(ts0, NeedSlots(size)) BY <1>5, <3>1
      <4>3. g = [trunk |-> ts0[f.k].id, at |-> f.at, len |-> NeedSlots(size)] BY <1>5, <3>2
      <4>4. /\ PoolOK(Allocated(ts0, f, size), q, z, tot, us + NeedSlots(size), hs \cup {g})
            /\ Allocated(ts0, f, size)[f.k].id = ts0[f.k].id
        BY <1>4, <1>10, <4>1, <4>2, <4>3, AllocatedKeeps
      <4>5. QED BY <1>5, <3>1, <4>4
    <3>4. new = g /\ new.len = need BY <3>2, <3>3
    <3>5. PICK vs, gs : vs = us + need /\ gs = hs \cup {g} OBVIOUS
    <3>6. FreesOld(free_old, ts, cache, h, vs, gs) BY <1>9, <2>1, <3>4, <3>5
    <3>7. PoolOK(ts, q, z, tot, vs, gs) /\ h \in gs BY <1>10, <3>3, <3>5
    <3>8. QED BY <1>11, <3>6, <3>7, OldKeeps
  <2>2. CASE FreesOld(free_old, o.ts, cache, h, used, held)
    <3>1. FreesOld(free_old, ts0, cache, h, us, hs) BY <1>9, <2>2
    <3>2. QED BY <1>10, <1>11, <3>1, OldKeeps
  <2>3. CASE FreesOld(FALSE, o.ts, cache, h, used, held)
    <3>1. FreesOld(FALSE, ts0, cache, h, us, hs) BY <1>9, <2>3
    <3>2. QED BY <1>10, <1>11, <3>1, OldKeeps
  <2>4. QED BY <1>6, <2>1, <2>2, <2>3
<1>13. total' = tot /\ ocnt' = q + 1 BY <1>2, <1>6, <1>7, <1>9 DEF IsPool
<1>14. QED BY <1>12, <1>13 DEF CvsPoolInv, IsPool

\* One round of the loop at RESCAN.
LEMMA RescanStep ==
    ASSUME Rescan, CvsPoolInv
    PROVE  CvsPoolInv'
<1>1. strayed = "no" /\ ocnt' = ocnt /\ used' = used /\ held' = held BY DEF Rescan
<1>2. PICK q, z : IsPool(q, z) BY <1>1 DEF CvsPoolInv
<1>3. PICK ts, us, hs : ts = trunks /\ us = used /\ hs = held OBVIOUS
<1>4. PoolOK(ts, q, z, total, us, hs) /\ ocnt = q + 1 BY <1>2, <1>3 DEF IsPool
<1>5. CASE trunks' = trunks /\ total' = total
  <2>1. PoolOK(trunks', q, z, total', used', held') /\ ocnt' = q + 1 BY <1>1, <1>3, <1>4, <1>5
  <2>2. QED BY <2>1 DEF CvsPoolInv, IsPool
<1>6. ASSUME NEW b, trunks' = add_new_trunk(trunks, b), total' = Total(trunks') PROVE CvsPoolInv'
  <2>1. PICK u, tot : u = add_new_trunk(ts, b) /\ tot = total + ts[1].total OBVIOUS
  <2>2. PoolOK(u, q, z, tot, us, hs) BY <1>4, <2>1, AddedKeeps
  <2>3. tot = Total(u) BY <1>2, <2>2, TotalIs
  <2>4. trunks' = u /\ total' = tot BY <1>3, <1>6, <2>1, <2>3
  <2>5. PoolOK(trunks', q, z, total', used', held') /\ ocnt' = q + 1 BY <1>1, <1>3, <1>4, <2>2, <2>4
  <2>6. QED BY <2>5 DEF CvsPoolInv, IsPool
<1>7. QED BY <1>5, <1>6 DEF Rescan

\* A pool that has just been created.
LEMMA StartIs ==
    ASSUME NEW slots \in SlotsAsked, NEW ts \in Created(slots)
    PROVE  \E q, z : PoolOK(ts, q, z, slots_num_adjust(slots), 0, {}) /\ Len(ts) = q + 1
<1>1. PICK q, z : Shape(slots_num_adjust(slots), q, z) BY AdjustedIs
<1>2. QED BY <1>1, CreatedIs

LEMMA InitStep ==
    ASSUME NEW slots \in SlotsAsked, cvsp_init(slots)
    PROVE  CvsPoolInv'
<1>1. /\ trunks' \in Created(slots) /\ ocnt' = Len(trunks') /\ total' = slots_num_adjust(slots)
      /\ used' = 0 /\ held' = {}
  BY DEF cvsp_init
<1>2. PICK ts : ts = trunks' OBVIOUS
<1>3. ts \in Created(slots) BY <1>1, <1>2
<1>4. PICK q, z : PoolOK(ts, q, z, slots_num_adjust(slots), 0, {}) /\ Len(ts) = q + 1 BY <1>3, StartIs
<1>5. PoolOK(trunks', q, z, total', used', held') /\ ocnt' = q + 1 BY <1>1, <1>2, <1>4
<1>6. QED BY <1>5 DEF CvsPoolInv, IsPool

LEMMA LoadStep ==
    ASSUME NEW same_process \in BOOLEAN, DumpAndLoad(same_process), CvsPoolInv
    PROVE  CvsPoolInv'
<1>1. strayed = "no" BY DEF DumpAndLoad, Running
<1>2. PICK q, z : IsPool(q, z) BY <1>1 DEF CvsPoolInv
<1>3. PICK dump : dump = cvspool_ser OBVIOUS
<1>4. cvspool_deser_high(dump) BY <1>3 DEF DumpAndLoad, objvec_ser
<1>5. PICK own \in Created(dump.slots) : trunks' \in Loads(own, dump) BY <1>4 DEF cvspool_deser_high
<1>6. ocnt' = ocnt /\ total' = total /\ used' = used /\ held' = held BY <1>4 DEF cvspool_deser_high
<1>7. PICK S : S = total - (Len(trunks) - ocnt) * trunks[1].total OBVIOUS
<1>8. dump = [trunks |-> trunks, ocnt |-> ocnt, slots |-> S] BY <1>3, <1>7 DEF cvspool_ser
<1>9. PoolOK(trunks, q, z, total, used, held) /\ ocnt = q + 1 BY <1>2 DEF IsPool
<1>10. Shape(S, q, z)
  <2>1. PICK n, x : n = Len(trunks) /\ x = FirstTotal(q, z) OBVIOUS
  <2>2. TrunksOK(trunks, q, z) /\ total = q * Room + z + (n - q - 1) * x BY <1>9, <2>1 DEF PoolOK
  <2>3. trunks[1].total = x BY <2>1, <2>2, FirstIs
  <2>4. q \in Nat /\ n \in Nat /\ n > q /\ SizeOk(z) /\ z <= Room BY <2>1, <2>2 DEF TrunksOK
  <2>5. PICK y, d : y = q * Room /\ d = n - q - 1 OBVIOUS
  <2>6. y \in Nat BY <2>4, <2>5, RoomIs
  <2>7. d \in Nat /\ n - ocnt = d BY <1>9, <2>4, <2>5
  <2>8. x \in Nat BY <2>1, <2>4, TotalIsOk DEF SizeOk
  <2>9. PICK v : v = d * x OBVIOUS
  <2>10. v \in Nat BY <2>7, <2>8, <2>9
  <2>11. total = y + z + v BY <2>2, <2>5, <2>9
  <2>12. S = total - v BY <1>7, <2>1, <2>3, <2>7, <2>9
  <2>13. z \in Nat BY <2>4 DEF SizeOk
  <2>14. S = q * Room + z BY <2>5, <2>6, <2>10, <2>11, <2>12, <2>13
  <2>15. QED BY <2>4, <2>14 DEF Shape
<1>11. slots_num_adjust(S) = S BY <1>10, AdjustedStays
<1>12. dump.trunks = trunks /\ dump.ocnt = q + 1 /\ dump.slots = S BY <1>8, <1>9
<1>13. PICK r : r = trunks' OBVIOUS
<1>14. own \in Created(S) /\ r \in Loads(own, dump) /\ Shape(slots_num_adjust(S), q, z)
  BY <1>5, <1>10, <1>11, <1>12, <1>13
<1>15. PoolOK(r, q, z, total, used, held) BY <1>9, <1>12, <1>14, LoadsKeep
<1>16. PoolOK(trunks', q, z, total', used', held') /\ ocnt' = q + 1 BY <1>6, <1>9, <1>13, <1>15
<1>17. QED BY <1>16 DEF CvsPoolInv, IsPool

\* A step that leaves the pool alone.
LEMMA SameStep ==
    ASSUME UNCHANGED <<trunks, ocnt, total, used, held>>, strayed' = "no" => strayed = "no", CvsPoolInv
    PROVE  CvsPoolInv'
<1>1. SUFFICES ASSUME strayed' = "no" PROVE CvsPoolInv' BY DEF CvsPoolInv
<1>2. PICK q, z : IsPool(q, z) BY <1>1 DEF CvsPoolInv
<1>3. PoolOK(trunks', q, z, total', used', held') /\ ocnt' = q + 1 BY <1>2 DEF IsPool
<1>4. QED BY <1>3 DEF CvsPoolInv, IsPool

LEMMA InitInv == ASSUME CvsPoolInit PROVE CvsPoolInv
<1>1. PICK slots \in SlotsAsked :
        /\ trunks \in Created(slots) /\ ocnt = Len(trunks) /\ total = slots_num_adjust(slots)
        /\ used = 0 /\ held = {}
  BY DEF CvsPoolInit
<1>2. PICK q, z : PoolOK(trunks, q, z, slots_num_adjust(slots), 0, {}) /\ Len(trunks) = q + 1
  BY <1>1, StartIs
<1>3. PoolOK(trunks, q, z, total, used, held) /\ ocnt = q + 1 BY <1>1, <1>2
<1>4. QED BY <1>3 DEF CvsPoolInv, IsPool

LEMMA NextInv == ASSUME CvsPoolInv, [CvsPoolNext]_vars PROVE CvsPoolInv'
<1>1. ASSUME NEW cnt \in Counts, objv_alloc(cnt) PROVE CvsPoolInv' BY <1>1, AllocStep
<1>2. ASSUME NEW h \in held, objv_free(h) PROVE CvsPoolInv' BY <1>2, FreeStep
<1>3. ASSUME NEW h \in held, id_of_node(h) PROVE CvsPoolInv'
  <2>1. UNCHANGED <<trunks, ocnt, total, used, held>> /\ strayed = "no"
    BY <1>3 DEF id_of_node, Running
  <2>2. QED BY <2>1, SameStep
<1>4. ASSUME NEW h \in held, node_from_id(h) PROVE CvsPoolInv'
  <2>1. UNCHANGED <<trunks, ocnt, total, used, held>> /\ strayed = "no"
    BY <1>4 DEF node_from_id, Running
  <2>2. QED BY <2>1, SameStep
<1>5. ASSUME NEW h \in held, NEW cnt \in Counts, GrowsInsideNode(h, cnt) PROVE CvsPoolInv'
  <2>1. UNCHANGED <<trunks, ocnt, total, used, held>> /\ strayed = "no"
    BY <1>5 DEF GrowsInsideNode, Running
  <2>2. QED BY <2>1, SameStep
<1>6. ASSUME NEW h \in held, NEW cnt \in Counts, NEW free_old \in BOOLEAN, NEW adjust_fn \in BOOLEAN,
             objv_realloc(h, cnt, free_old, adjust_fn)
      PROVE  CvsPoolInv'
  BY <1>6, ReallocStep
<1>7. ASSUME cvsp_destroy_init PROVE CvsPoolInv'
  <2>1. PICK slots \in SlotsAsked : cvsp_init(slots) BY <1>7 DEF cvsp_destroy_init
  <2>2. QED BY <2>1, InitStep
<1>8. ASSUME StartAnew PROVE CvsPoolInv'
  <2>1. PICK slots \in SlotsAsked : cvsp_init(slots) BY <1>8 DEF StartAnew
  <2>2. QED BY <2>1, InitStep
<1>9. ASSUME NEW same_process \in BOOLEAN, DumpAndLoad(same_process) PROVE CvsPoolInv'
  BY <1>9, LoadStep
<1>10. ASSUME LoadBehindFirst PROVE CvsPoolInv'
  <2>1. UNCHANGED <<trunks, ocnt, total, used, held>> /\ strayed = "no"
    BY <1>10 DEF LoadBehindFirst, Running
  <2>2. QED BY <2>1, SameStep
<1>11. ASSUME UNCHANGED vars PROVE CvsPoolInv'
  <2>1. UNCHANGED <<trunks, ocnt, total, used, held>> /\ strayed' = strayed BY <1>11 DEF vars
  <2>2. QED BY <2>1, SameStep
<1>12. ASSUME Rescan PROVE CvsPoolInv' BY <1>12, RescanStep
<1>13. QED
  BY <1>1, <1>2, <1>3, <1>4, <1>5, <1>6, <1>7, <1>8, <1>9, <1>10, <1>11, <1>12 DEF CvsPoolNext

\* The free space of the trunks is sound and the nodes the program holds are the busy
\* ones, until the pool is led astray.
THEOREM PoolIsKept == CvsPoolSpec => []CvsPoolInv
<1>1. CvsPoolInit => CvsPoolInv BY InitInv
<1>2. CvsPoolInv /\ [CvsPoolNext]_vars => CvsPoolInv' BY NextInv
<1>3. QED BY <1>1, <1>2, PTL DEF CvsPoolSpec

\* The free space and the nodes the program holds are as cvspool.c means them to be, until
\* a release leads the pool astray.
THEOREM CvsPoolIsSound == CvsPoolSpec => []CvsPoolSound
<1>1. CvsPoolInv => CvsPoolSound
  <2>1. SUFFICES ASSUME CvsPoolInv, strayed = "no"
                 PROVE  /\ \A k \in DOMAIN trunks : Sound(trunks[k])
                        /\ used = MapThenSumSet(LAMBDA k : trunks[k].used, DOMAIN trunks)
                        /\ total = MapThenSumSet(LAMBDA k : trunks[k].total, DOMAIN trunks)
                        /\ Ids(trunks) = 0 .. Len(trunks) - 1
                        /\ held = UNION {{[trunk |-> trunks[k].id, at |-> p, len |-> trunks[k].heads[p].len] :
                                              p \in Busy(trunks[k])} : k \in DOMAIN trunks}
    BY DEF CvsPoolSound, FreeSpaceSound, HeldAreBusy
  <2>2. PICK q, z : PoolOK(trunks, q, z, total, used, held) BY <2>1 DEF CvsPoolInv, IsPool
  <2>3. QED BY <2>2, PoolIsSound
<1>2. QED BY <1>1, PoolIsKept, PTL

-----------------------------------------------------------------------------
(* The walk over all nodes *)

WalkedBody(t, f) ==
    [k \in 0 .. Cardinality(DOMAIN t.heads) |->
        IF k = 0 THEN free_head
        ELSE IF f[k - 1] < t.total THEN f[k - 1] + t.heads[f[k - 1]].len ELSE f[k - 1]]

\* The nodes in front of p, and the last of them.
Front(H, p) == {x \in DOMAIN H : x < p}

LEMMA Before ==
    ASSUME NEW H, NEW end, HeadsTyped(H), Tiled(H, end), end \in Nat, NEW p \in DOMAIN H, p # 0
    PROVE  \E r \in DOMAIN H : /\ r + H[r].len = p /\ r < p /\ r \in Nat
                               /\ Cardinality(Front(H, p)) = Cardinality(Front(H, r)) + 1
                               /\ Cardinality(Front(H, r)) \in Nat
<1>1. /\ DOMAIN H \subseteq Nat /\ IsFiniteSet(DOMAIN H) /\ \A x \in DOMAIN H : H[x].len \in Nat
  BY DEF HeadsTyped, HeadSet
<1>2. /\ 0 \in DOMAIN H
      /\ \A x \in DOMAIN H : H[x].len >= 3 /\ x + H[x].len \in DOMAIN H \cup {end} /\ x + H[x].len <= end
      /\ \A x, y \in DOMAIN H : x < y => x + H[x].len <= y
  BY DEF Tiled, free_head, MIN_NODE_SIZE
<1>3. PICK F : F = Front(H, p) OBVIOUS
<1>4. F \subseteq DOMAIN H /\ F \subseteq Nat /\ 0 \in F /\ IsFiniteSet(F) /\ \A x \in DOMAIN H : x \in F <=> x < p
  <2>1. F \subseteq DOMAIN H /\ \A x \in DOMAIN H : x \in F <=> x < p BY <1>3 DEF Front
  <2>2. p \in Nat /\ p # 0 BY <1>1
  <2>3. 0 \in F BY <1>2, <2>1, <2>2
  <2>4. QED BY <1>1, <2>1, <2>3, FS_Subset
<1>5. PICK r \in F : \A x \in F : x <= r
  <2>1. F \subseteq Nat /\ F # {} /\ p \in Nat BY <1>1, <1>4
  <2>2. \A m \in F : m <= p
    <3>1. ASSUME NEW m \in F PROVE m <= p
      <4>1. m \in Nat /\ m < p BY <1>4
      <4>2. QED BY <2>1, <4>1
    <3>2. QED BY <3>1
  <2>3. QED BY <2>1, <2>2, LargestOf
<1>6. r \in DOMAIN H /\ r \in Nat /\ p \in Nat /\ r < p /\ H[r].len \in Nat /\ H[r].len >= 3
  BY <1>1, <1>2, <1>4, <1>5
<1>7. r + H[r].len = p
  <2>1. r + H[r].len <= p BY <1>2, <1>6
  <2>2. SUFFICES ASSUME r + H[r].len < p PROVE FALSE BY <1>6, <2>1
  <2>3. PICK y : y = r + H[r].len OBVIOUS
  <2>4. y \in Nat /\ y < p /\ r < y BY <1>6, <2>2, <2>3
  <2>5. p <= end
    <3>1. p + H[p].len <= end /\ H[p].len \in Nat BY <1>1, <1>2
    <3>2. QED BY <1>6, <3>1
  <2>6. y \in DOMAIN H BY <1>2, <1>6, <2>3, <2>4, <2>5
  <2>7. y \in F BY <1>4, <2>4, <2>6
  <2>8. QED BY <1>5, <1>6, <2>4, <2>7
<1>8. PICK E : E = Front(H, r) OBVIOUS
<1>9. E \subseteq F /\ r \notin E /\ F = E \cup {r}
  <2>1. E \subseteq DOMAIN H /\ \A x \in DOMAIN H : x \in E <=> x < r BY <1>8 DEF Front
  <2>2. \A x \in F : x = r \/ x < r BY <1>4, <1>5, <1>6
  <2>3. \A x \in E : x \in F
    <3>1. ASSUME NEW x \in E PROVE x \in F
      <4>1. x \in DOMAIN H /\ x < r /\ x \in Nat BY <1>1, <2>1
      <4>2. x < p BY <1>6, <4>1
      <4>3. QED BY <1>4, <4>1, <4>2
    <3>2. QED BY <3>1
  <2>4. r \notin E BY <1>6, <2>1
  <2>5. QED BY <1>4, <2>1, <2>2, <2>3, <2>4
<1>10. IsFiniteSet(E) BY <1>4, <1>9, FS_Subset
<1>11. Cardinality(F) = Cardinality(E) + 1 /\ Cardinality(E) \in Nat
  BY <1>9, <1>10, FS_AddElement, FS_CardinalityType
<1>12. QED BY <1>3, <1>6, <1>7, <1>8, <1>11

\* iter_bnode comes to every node that begins below the size of the trunk.
LEMMA WalkedAre ==
    ASSUME NEW t, TrunkOK(t), NEW p \in Nodes(t), p < t.total
    PROVE  p \in Walked(t)
<1>1. PICK H, end, N, x : H = t.heads /\ end = t.total + MIN_NODE_SIZE /\ N = Cardinality(DOMAIN t.heads)
                          /\ x = t.total
  OBVIOUS
<1>2. HeadsTyped(H) /\ Tiled(H, end) /\ end \in Nat /\ x \in Nat BY <1>1 DEF TrunkOK, Body
<1>3. DOMAIN H \subseteq Nat /\ IsFiniteSet(DOMAIN H) /\ \A y \in DOMAIN H : H[y].len \in Nat /\ H[y].len >= 3
  BY <1>2 DEF HeadsTyped, HeadSet, Tiled, MIN_NODE_SIZE
<1>4. N = Cardinality(DOMAIN H) /\ N \in Nat BY <1>1, <1>3, FS_CardinalityType
<1> DEFINE Step(g, k) == IF k = 0 THEN 0
                         ELSE IF g[k - 1] < x THEN g[k - 1] + H[g[k - 1]].len ELSE g[k - 1]
           Good(n) == \E g : \A k \in 0 .. n : g[k] = Step(g, k)
           Bad == {n \in Nat : ~Good(n)}
<1>5. \A g : WalkedBody(t, g) = [k \in 0 .. N |-> Step(g, k)] BY <1>1 DEF WalkedBody, free_head
<1>6. \A n \in Nat : Good(n)
  <2>1. SUFFICES ASSUME Bad # {} PROVE FALSE OBVIOUS
  <2>2. PICK n : n \in Bad /\ \A m \in Bad : n <= m
    <3>1. Bad \subseteq Nat OBVIOUS
    <3> HIDE DEF Bad
    <3>2. QED BY <2>1, <3>1, LeastOf
  <2>3. n \in Nat /\ ~Good(n) BY <2>2
  <2>4. CASE n = 0
    <3>1. PICK g : g = [k \in 0 .. 0 |-> 0] OBVIOUS
    <3>2. \A k \in 0 .. n : g[k] = Step(g, k) BY <2>4, <3>1
    <3> HIDE DEF Step
    <3>3. QED BY <2>3, <3>2
  <2>5. CASE n # 0
    <3>1. PICK m : m = n - 1 OBVIOUS
    <3>2. m \in Nat /\ m < n /\ n = m + 1 BY <2>3, <2>5, <3>1
    <3>3. m \notin Bad
      <4> HIDE DEF Bad
      <4>1. QED BY <2>2, <2>3, <3>2
    <3>4. Good(m)
      <4> HIDE DEF Good
      <4>1. QED BY <3>2, <3>3
    <3>5. PICK g : \A k \in 0 .. m : g[k] = Step(g, k)
      <4> HIDE DEF Step
      <4>1. QED BY <3>4
    <3>6. PICK v, w : v = Step(g, n) /\ w = [k \in 0 .. n |-> IF k = n THEN v ELSE g[k]] OBVIOUS
    <3>7. w[n] = v /\ \A k \in 0 .. m : w[k] = g[k] BY <3>2, <3>6
    <3>8. \A k \in 0 .. n : Step(w, k) = Step(g, k)
      <4>1. ASSUME NEW k \in 0 .. n PROVE Step(w, k) = Step(g, k)
        <5>1. CASE k = 0 BY <5>1
        <5>2. CASE k # 0
          <6>1. PICK j : j = k - 1 OBVIOUS
          <6>2. j \in 0 .. m BY <3>2, <5>2, <6>1
          <6>3. w[j] = g[j] BY <3>7, <6>2
          <6>4. QED BY <5>2, <6>1, <6>3
        <5>3. QED BY <5>1, <5>2
      <4>2. QED BY <4>1
    <3> HIDE DEF Step
    <3>9. ASSUME NEW k \in 0 .. n PROVE w[k] = Step(w, k)
      <4>1. CASE k = n BY <3>6, <3>7, <3>8, <4>1
      <4>2. CASE k # n
        <5>1. k \in 0 .. m BY <3>2, <4>2
        <5>2. QED BY <3>5, <3>7, <3>8, <5>1
      <4>3. QED BY <4>1, <4>2
    <3>10. Good(n) BY <3>9
    <3>11. QED BY <2>3, <3>10
  <2>6. QED BY <2>4, <2>5
<1>7. PICK g : \A k \in 0 .. N : g[k] = Step(g, k)
  <2>1. Good(N) BY <1>4, <1>6
  <2> HIDE DEF Step
  <2>2. QED BY <2>1
<1>8. PICK G : G = [k \in 0 .. N |-> g[k]] OBVIOUS
<1>9. G = WalkedBody(t, G)
  <2>1. \A k \in 0 .. N : G[k] = g[k] BY <1>8
  <2>2. \A k \in 0 .. N : Step(G, k) = Step(g, k)
    <3>1. ASSUME NEW k \in 0 .. N PROVE Step(G, k) = Step(g, k)
      <4>1. CASE k = 0 BY <4>1
      <4>2. CASE k # 0
        <5>1. PICK j : j = k - 1 OBVIOUS
        <5>2. j \in 0 .. N BY <1>4, <4>2, <5>1
        <5>3. G[j] = g[j] BY <2>1, <5>2
        <5>4. QED BY <4>2, <5>1, <5>3
      <4>3. QED BY <4>1, <4>2
    <3>2. QED BY <3>1
  <2> HIDE DEF Step
  <2>3. G = [k \in 0 .. N |-> Step(G, k)] BY <1>7, <1>8, <2>2
  <2>4. QED BY <1>5, <2>3
<1>10. PICK f : f = CHOOSE h : h = WalkedBody(t, h) OBVIOUS
<1>11. f = WalkedBody(t, f) BY <1>9, <1>10
<1>12. Walked(t) = {f[k] : k \in DOMAIN f} BY <1>10 DEF Walked, WalkedBody
<1>13. DOMAIN f = 0 .. N /\ \A k \in 0 .. N : f[k] = Step(f, k)
  <2>1. PICK b : b = [k \in 0 .. N |-> Step(f, k)] OBVIOUS
  <2> HIDE DEF Step
  <2>2. DOMAIN b = 0 .. N /\ \A k \in 0 .. N : b[k] = Step(f, k) BY <2>1
  <2>3. f = b BY <1>5, <1>11, <2>1
  <2>4. QED BY <2>2, <2>3
<1> DEFINE Missed == {y \in DOMAIN H : y < x /\ f[Cardinality(Front(H, y))] # y}
<1>14. \A y \in DOMAIN H : Cardinality(Front(H, y)) \in 0 .. N
  <2>1. ASSUME NEW y \in DOMAIN H PROVE Cardinality(Front(H, y)) \in 0 .. N
    <3>1. PICK F, D : F = Front(H, y) /\ D = DOMAIN H OBVIOUS
    <3>2. F \subseteq D /\ IsFiniteSet(D) BY <1>3, <3>1 DEF Front
    <3>3. Cardinality(F) \in Nat /\ Cardinality(F) <= Cardinality(D)
      BY <3>2, FS_Subset, FS_CardinalityType
    <3>4. QED BY <1>4, <3>1, <3>3
  <2>2. QED BY <2>1
<1>15. Missed = {}
  <2>1. SUFFICES ASSUME Missed # {} PROVE FALSE OBVIOUS
  <2>2. PICK y : y \in Missed /\ \A u \in Missed : y <= u
    <3>1. Missed \subseteq Nat BY <1>3
    <3> HIDE DEF Missed
    <3>2. QED BY <2>1, <3>1, LeastOf
  <2>3. y \in DOMAIN H /\ y < x /\ f[Cardinality(Front(H, y))] # y BY <2>2
  <2>4. CASE y = 0
    <3>1. Front(H, y) = {}
      <4>1. \A u \in DOMAIN H : ~(u < 0) BY <1>3
      <4>2. QED BY <2>4, <4>1 DEF Front
    <3>2. Cardinality(Front(H, y)) = 0 BY <3>1, FS_EmptySet
    <3>3. f[0] = 0
      <4>1. 0 \in 0 .. N BY <1>4
      <4>2. f[0] = Step(f, 0) BY <1>13, <4>1
      <4>3. QED BY <4>2
    <3>4. QED BY <2>3, <2>4, <3>2, <3>3
  <2>5. CASE y # 0
    <3>1. PICK r \in DOMAIN H : /\ r + H[r].len = y /\ r < y /\ r \in Nat
                                /\ Cardinality(Front(H, y)) = Cardinality(Front(H, r)) + 1
                                /\ Cardinality(Front(H, r)) \in Nat
      BY <1>2, <2>3, <2>5, Before
    <3>2. y \in Nat /\ ~(y <= r) BY <1>3, <2>3, <3>1
    <3>3. r \notin Missed BY <2>2, <3>2
    <3>4. r < x BY <1>2, <2>3, <3>1, <3>2
    <3>5. PICK k, j : k = Cardinality(Front(H, y)) /\ j = Cardinality(Front(H, r)) OBVIOUS
    <3>6. f[j] = r BY <3>1, <3>3, <3>4, <3>5
    <3>7. k \in 0 .. N /\ k = j + 1 /\ j \in Nat BY <1>14, <2>3, <3>1, <3>5
    <3>8. f[k] = Step(f, k) BY <1>13, <3>7
    <3>9. k # 0 /\ k - 1 = j BY <3>7
    <3>10. Step(f, k) = r + H[r].len BY <3>4, <3>6, <3>9
    <3>11. QED BY <2>3, <3>1, <3>5, <3>8, <3>10
  <2>6. QED BY <2>4, <2>5
<1>16. p \in DOMAIN H /\ p < x BY <1>1 DEF Nodes
<1>17. f[Cardinality(Front(H, p))] = p BY <1>15, <1>16
<1>18. QED BY <1>12, <1>13, <1>14, <1>16, <1>17

LEMMA SumNat ==
    ASSUME NEW V, NEW S, Summed(V, S), \A x \in S : V[x] \in Nat
    PROVE  SumOf(V, S) \in Nat
<1> DEFINE B == {s \in SUBSET S : SumOf(V, s) \notin Nat}
<1>1. SUFFICES ASSUME B # {} PROVE FALSE
  <2>1. S \in SUBSET S OBVIOUS
  <2>2. QED BY <2>1
<1>2. IsFiniteSet(S) BY DEF Summed
<1>3. PICK s \in B : \A x \in s : s \ {x} \notin B
  <2>1. B \subseteq SUBSET S OBVIOUS
  <2> HIDE DEF B
  <2>2. QED BY <1>1, <1>2, <2>1, Smallest
<1>4. s \subseteq S /\ SumOf(V, s) \notin Nat OBVIOUS
<1>5. PICK x : x \in s BY <1>4, SumNone
<1>6. IsFiniteSet(s) BY <1>2, <1>4, FS_Subset
<1>7. Summed(V, s) BY <1>4, <1>6 DEF Summed
<1>8. SumOf(V, s) = V[x] + SumOf(V, s \ {x}) BY <1>5, <1>7, SumLess
<1>9. s \ {x} \notin B /\ s \ {x} \subseteq S BY <1>3, <1>4, <1>5
<1>10. SumOf(V, s \ {x}) \in Nat BY <1>9
<1>11. V[x] \in Nat BY <1>4, <1>5
<1>12. QED BY <1>4, <1>8, <1>10, <1>11

\* A trunk with a busy node is in use.
LEMMA BusyIsUsed ==
    ASSUME NEW t, TrunkOK(t), NEW p \in Busy(t)
    PROVE  t.used # 0
<1>1. PICK H, S, V : H = t.heads /\ S = BusyOf(t.heads) /\ V = LenIn(t.heads) OBVIOUS
<1>2. HeadsTyped(H) /\ t.used = SumOf(V, S) /\ \A x \in DOMAIN H : H[x].len >= 3
  BY <1>1 DEF TrunkOK, Body, Tiled, MIN_NODE_SIZE
<1>3. \A x \in S : V[x] \in Nat /\ V[x] >= 3 BY <1>1, <1>2 DEF HeadsTyped, HeadSet, LenIn, BusyOf
<1>4. p \in S BY <1>1, TrunkIsSound
<1>5. Summed(V, S)
  <2>1. S \subseteq DOMAIN H /\ IsFiniteSet(DOMAIN H) BY <1>1, <1>2 DEF BusyOf, HeadsTyped
  <2>2. IsFiniteSet(S) BY <2>1, FS_Subset
  <2>3. QED BY <1>3, <2>2 DEF Summed
<1>6. Summed(V, S \ {p}) /\ SumOf(V, S) = V[p] + SumOf(V, S \ {p}) BY <1>4, <1>5, SumLess
<1>7. SumOf(V, S \ {p}) \in Nat
  <2>1. PICK R : R = S \ {p} OBVIOUS
  <2>2. Summed(V, R) /\ \A x \in R : V[x] \in Nat BY <1>3, <1>6, <2>1
  <2>3. SumOf(V, R) \in Nat BY <2>2, SumNat
  <2>4. QED BY <2>1, <2>3
<1>8. V[p] \in Nat /\ V[p] >= 3 BY <1>3, <1>4
<1>9. QED BY <1>2, <1>6, <1>7, <1>8

\* The walk over the nodes of a pool of one trunk comes to each node the program holds
\* once, but for one that begins where the walk believes the trunk to end.
THEOREM WalkFindsHeld == CvsPoolSpec => []EachBusyNodeOnce
<1>1. CvsPoolInv => EachBusyNodeOnce
  <2>1. SUFFICES ASSUME CvsPoolInv, strayed = "no", Len(trunks) = 1, NEW h \in held
                 PROVE  VisitsOf(h) = IF h.at < trunks[1].total THEN 1 ELSE 0
    BY DEF EachBusyNodeOnce
  <2>2. PICK q, z : PoolOK(trunks, q, z, total, used, held) BY <2>1 DEF CvsPoolInv, IsPool
  <2>3. TrunksOK(trunks, q, z) /\ held = UNION {HeldIn(trunks[k]) : k \in 1 .. Len(trunks)}
    BY <2>2 DEF PoolOK
  <2>4. PICK t, p : t = trunks[1] /\ p = h.at OBVIOUS
  <2>5. h \in HeldIn(t)
    <3>1. PICK k \in 1 .. Len(trunks) : h \in HeldIn(trunks[k]) BY <2>3
    <3>2. k = 1 BY <2>1, <3>1
    <3>3. QED BY <2>4, <3>1, <3>2
  <2>6. p \in Busy(t) /\ h.trunk = t.id BY <2>4, <2>5, HeldIs
  <2>7. TrunkOK(t)
    <3>1. 1 \in 1 .. Len(trunks) BY <2>1
    <3>2. QED BY <2>3, <2>4, <3>1, TrunksAre
  <2>8. p \in Nodes(t) /\ t.heads[p].busy BY <2>6 DEF Busy
  <2>9. t.used # 0 BY <2>6, <2>7, BusyIsUsed
  <2>10. p \in iter_bnode(t) <=> p < t.total
    <3>1. p \in iter_bnode(t) <=> p \in Walked(t) /\ p < t.total BY <2>8, <2>9 DEF iter_bnode
    <3>2. p < t.total => p \in Walked(t) BY <2>7, <2>8, WalkedAre
    <3>3. QED BY <3>1, <3>2
  <2>11. VisitsOf(h) = IF p \in iter_bnode(t) THEN 1 ELSE 0 BY <2>1, <2>4, <2>6 DEF VisitsOf
  <2>12. QED BY <2>4, <2>10, <2>11
<1>2. QED BY <1>1, PoolIsKept, PTL

-----------------------------------------------------------------------------
(* A pool that grows for ever *)

\* While the loop at RESCAN goes on no trunk serves it, and the first of the list is as it
\* was made, like all those that are still to come.
Barren(ts, need) == WithFit(ts, need) = {} /\ NewInFront(ts)
HangInv == ended # "found" /\ (ended = "hangs" => Barren(trunks, wanted))

\* The search looks at nothing but the headers.
LEMMA SameHeads ==
    ASSUME NEW t, NEW r, t.heads = r.heads, NEW need
    PROVE  Fitting(t, need) = Fitting(r, need)
<1>1. FreeList(t) = FreeList(r) BY DEF FreeList
<1>2. QED BY <1>1 DEF Fitting

\* One trunk more is like the one before it.
LEMMA AddedIsBarren ==
    ASSUME NEW ts, NEW q, NEW z, TrunksOK(ts, q, z), NEW need, Barren(ts, need), NEW base
    PROVE  Barren(add_new_trunk(ts, base), need)
<1>1. PICK n, x, t : n = Len(ts) /\ x = ts[1].total /\ t = cvsp_init_trunk(n, x, base) OBVIOUS
<1>2. PICK u : u = <<t>> \o ts OBVIOUS
<1>3. add_new_trunk(ts, base) = u BY <1>1, <1>2 DEF add_new_trunk, NewId
<1>4. /\ n \in Nat /\ DOMAIN ts = 1 .. n /\ ts \in Seq({ts[k] : k \in 1 .. n}) /\ 1 \in 1 .. n
  BY <1>1, TrunksAre
<1>5. DOMAIN u = 1 .. n + 1 /\ u[1] = t /\ \A k \in 2 .. n + 1 : u[k] = ts[k - 1]
  <2>1. PICK X : X = {ts[k] : k \in 1 .. n} \cup {t} OBVIOUS
  <2>2. ts \in Seq(X) /\ <<t>> \in Seq(X) /\ Len(ts) = n /\ Len(<<t>>) = 1 /\ <<t>>[1] = t
    BY <1>1, <1>4, <2>1
  <2>3. /\ Len(u) = n + 1 /\ u \in Seq(X)
        /\ \A k \in 1 .. n + 1 : u[k] = IF k <= 1 THEN <<t>>[k] ELSE ts[k - 1]
    BY <1>2, <1>4, <2>2
  <2>4. QED BY <1>4, <2>2, <2>3
<1>6. PICK id, place : ts[1] = cvsp_init_trunk(id, x, place) /\ SizeOk(x)
  BY <1>1 DEF Barren, NewInFront
<1>7. t.heads = ts[1].heads /\ t.total = x BY <1>1, <1>6 DEF cvsp_init_trunk
<1>8. NewInFront(u) BY <1>1, <1>5, <1>6, <1>7 DEF NewInFront
<1>9. \A k \in 1 .. n : Fitting(ts[k], need) = {} BY <1>4 DEF Barren, WithFit
<1>10. ASSUME NEW k \in 1 .. n + 1 PROVE Fitting(u[k], need) = {}
  <2>1. CASE k = 1 BY <1>4, <1>5, <1>7, <1>9, <2>1, SameHeads
  <2>2. CASE k # 1
    <3>1. k \in 2 .. n + 1 /\ k - 1 \in 1 .. n BY <1>4, <2>2
    <3>2. QED BY <1>5, <1>9, <3>1
  <2>3. QED BY <2>1, <2>2
<1>11. WithFit(u, need) = {} BY <1>5, <1>10 DEF WithFit
<1>12. QED BY <1>3, <1>8, <1>11 DEF Barren

\* An allocation that begins to go round, and any other end of one.
LEMMA EndsBarren ==
    ASSUME CvsPoolInv, strayed = "no", NEW need, NEW o \in Outcomes(need),
           trunks' = o.ts, Ends(o.how, need)
    PROVE  HangInv'
<1>1. PICK q, z : IsPool(q, z) BY DEF CvsPoolInv
<1>2. o.how = "hangs" => Barren(o.ts, need) BY <1>1, OutcomesAre DEF Barren
<1>3. o.how # "found"
  <2>1. \/ o.how \in {"null", "assert", "fits"}
        \/ \E u : o.how = RescanOf(u, need)
    BY DEF Outcomes
  <2>2. QED BY <2>1 DEF RescanOf
<1>4. ended' = o.how /\ (o.how = "hangs" => wanted' = need) BY DEF Ends
<1>5. CASE o.how = "hangs"
  <2>1. PICK ts : ts = o.ts OBVIOUS
  <2>2. Barren(ts, need) /\ trunks' = ts /\ wanted' = need BY <1>2, <1>4, <1>5, <2>1
  <2>3. Barren(trunks', wanted') BY <2>2
  <2>4. QED BY <1>4, <1>5, <2>3 DEF HangInv
<1>6. CASE o.how # "hangs" BY <1>3, <1>4, <1>6 DEF HangInv
<1>7. QED BY <1>5, <1>6

LEMMA HangInit == ASSUME CvsPoolInit PROVE HangInv
  BY DEF CvsPoolInit, HangInv

LEMMA HangNext == ASSUME CvsPoolInv, HangInv, [CvsPoolNext]_vars PROVE HangInv'
<1>0. ASSUME ended' \in {"no", "assert", "load"} PROVE HangInv' BY <1>0 DEF HangInv
<1>1. ASSUME NEW cnt \in Counts, objv_alloc(cnt) PROVE HangInv'
  <2>1. PICK need : need = NeedSlots(ObjSize * cnt) OBVIOUS
  <2>2. PICK o \in Outcomes(need) :
          IF o.how = "fits" THEN ended' = ended ELSE trunks' = o.ts /\ Ends(o.how, need)
    BY <1>1, <2>1 DEF objv_alloc
  <2>3. strayed = "no" /\ ended = "no" BY <1>1 DEF objv_alloc, Running
  <2>4. CASE o.how = "fits" BY <1>0, <2>2, <2>3, <2>4
  <2>5. CASE o.how # "fits" BY <2>2, <2>3, <2>5, EndsBarren
  <2>6. QED BY <2>4, <2>5
<1>2. ASSUME NEW h \in held, NEW cnt \in Counts, NEW free_old \in BOOLEAN, NEW adjust_fn \in BOOLEAN,
             objv_realloc(h, cnt, free_old, adjust_fn)
      PROVE  HangInv'
  <2>1. PICK need : need = NeedSlots(ObjSize * cnt) OBVIOUS
  <2>2. PICK o \in Outcomes(need) : ended' = ended \/ (trunks' = o.ts /\ Ends(o.how, need))
    BY <1>2, <2>1 DEF objv_realloc, FreesOld
  <2>3. strayed = "no" /\ ended = "no" BY <1>2 DEF objv_realloc, Running
  <2>4. CASE ended' = ended BY <1>0, <2>3, <2>4
  <2>5. CASE trunks' = o.ts /\ Ends(o.how, need) BY <2>3, <2>5, EndsBarren
  <2>6. QED BY <2>2, <2>4, <2>5
<1>3. ASSUME Rescan PROVE HangInv'
  <2>1. strayed = "no" /\ ended = "hangs" /\ wanted' = wanted BY <1>3 DEF Rescan
  <2>2. Barren(trunks, wanted) BY <2>1 DEF HangInv
  <2>3. RescanOf(trunks, wanted) = "hangs" BY <2>2 DEF RescanOf, Barren
  <2>4. PICK b : trunks' = add_new_trunk(trunks, b) /\ ended' = ended BY <1>3, <2>3 DEF Rescan
  <2>5. PICK q, z : IsPool(q, z) BY <2>1 DEF CvsPoolInv
  <2>6. TrunksOK(trunks, q, z) BY <2>5 DEF IsPool, PoolOK
  <2>7. PICK ts, need : ts = trunks /\ need = wanted OBVIOUS
  <2>8. TrunksOK(ts, q, z) /\ Barren(ts, need) BY <2>2, <2>6, <2>7
  <2>9. Barren(add_new_trunk(ts, b), need) BY <2>8, AddedIsBarren
  <2>10. Barren(trunks', wanted') BY <2>1, <2>4, <2>7, <2>9
  <2>11. QED BY <2>1, <2>4, <2>10 DEF HangInv
<1>4. ASSUME NEW h \in held, objv_free(h) \/ id_of_node(h) \/ node_from_id(h) PROVE HangInv'
  BY <1>0, <1>4 DEF objv_free, id_of_node, node_from_id, Running
<1>5. ASSUME NEW h \in held, NEW cnt \in Counts, GrowsInsideNode(h, cnt) PROVE HangInv'
  BY <1>0, <1>5 DEF GrowsInsideNode
<1>6. ASSUME cvsp_destroy_init \/ StartAnew \/ LoadBehindFirst PROVE HangInv'
  BY <1>0, <1>6 DEF cvsp_destroy_init, StartAnew, LoadBehindFirst, Running
<1>7. ASSUME NEW same_process \in BOOLEAN, DumpAndLoad(same_process) PROVE HangInv'
  BY <1>0, <1>7 DEF DumpAndLoad, cvspool_deser_high, Running
<1>8. ASSUME UNCHANGED vars PROVE HangInv'
  <2>1. trunks' = trunks /\ wanted' = wanted /\ ended' = ended BY <1>8 DEF vars
  <2>2. QED BY <2>1 DEF HangInv
<1>9. QED BY <1>1, <1>2, <1>3, <1>4, <1>5, <1>6, <1>7, <1>8 DEF CvsPoolNext

\* A request that the first trunk added does not serve is served by none that follows,
\* however many are added and wherever malloc has them: the loop at RESCAN has no other end.
THEOREM HangsForever == CvsPoolSpec => []HangsForGood
<1>1. CvsPoolInit => HangInv BY HangInit
<1>2. CvsPoolInv /\ HangInv /\ [CvsPoolNext]_vars => HangInv' BY HangNext
<1>3. HangInv => HangsForGood BY DEF HangInv, HangsForGood
<1>4. QED BY <1>1, <1>2, <1>3, PoolIsKept, PTL DEF CvsPoolSpec
=============================================================================
