---------------------------- MODULE VsFilesProofs ----------------------------
(***************************************************************************)
(* Over all starts and edits: the lists hold numbers below vs_cur_total,   *)
(* each once, and miss no more of them than were in hand at a kill or an   *)
(* interrupt; and until the text or the index was changed under the meta   *)
(* file, the numbers in the lists lead, through the text and through       *)
(* itblk, to the words the user has in the boxes, and no pointer leads     *)
(* astray.                                                                 *)
(***************************************************************************)
EXTENDS VsFiles, FiniteSetTheorems, TLAPS

-----------------------------------------------------------------------------
(* Lines and their numbers *)

Lines == Words \cup {Comment}
TextOK(t) ==
    /\ t \in Seq(Lines)
    /\ \A j, k \in 1 .. Len(t) : t[j] = t[k] /\ t[j] \in Words => j = k

VsIn(t) == {k \in 1 .. Len(t) : t[k] \in Words}
Ahead(t, k) == {j \in VsIn(t) : j < k}

\* The n-th VS of the text t, from 0, is of the word w.
Has(t, n, w) == \E k \in VsIn(t) : t[k] = w /\ Cardinality(Ahead(t, k)) = n

LEMMA VsFinite ==
    ASSUME NEW t \in Seq(Lines)
    PROVE  /\ IsFiniteSet(VsIn(t)) /\ Cardinality(VsIn(t)) \in Nat
           /\ \A k \in Int : /\ IsFiniteSet(Ahead(t, k)) /\ Cardinality(Ahead(t, k)) \in Nat
                             /\ Cardinality(Ahead(t, k)) <= Cardinality(VsIn(t))
<1>1. IsFiniteSet(1 .. Len(t)) BY FS_Interval
<1>2. IsFiniteSet(VsIn(t)) BY <1>1, FS_Subset DEF VsIn
<1>3. \A k \in Int : Ahead(t, k) \in SUBSET VsIn(t) BY DEF Ahead
<1>4. QED BY <1>2, <1>3, FS_Subset, FS_CardinalityType

\* A VS has more VSes in front of it than one that is in front of it.
LEMMA NumbersAscend ==
    ASSUME NEW t \in Seq(Lines), NEW j \in VsIn(t), NEW k \in Int, j < k
    PROVE  Cardinality(Ahead(t, j)) < Cardinality(Ahead(t, k))
<1>1. j \in Int BY DEF VsIn
<1>2. Ahead(t, j) \in SUBSET Ahead(t, k) BY <1>1 DEF Ahead, VsIn
<1>3. j \in Ahead(t, k) /\ j \notin Ahead(t, j) BY <1>1 DEF Ahead
<1>4. IsFiniteSet(Ahead(t, k)) /\ Cardinality(Ahead(t, k)) \in Nat
      /\ Cardinality(Ahead(t, j)) \in Nat
  BY <1>1, VsFinite
<1>5. /\ Cardinality(Ahead(t, j)) <= Cardinality(Ahead(t, k))
      /\ Cardinality(Ahead(t, k)) = Cardinality(Ahead(t, j)) => Ahead(t, k) = Ahead(t, j)
  BY <1>2, <1>4, FS_Subset
<1>6. QED BY <1>3, <1>4, <1>5

\* So a number leads to one line.
LEMMA OnePerNumber ==
    ASSUME NEW t \in Seq(Lines), NEW j \in VsIn(t), NEW k \in VsIn(t),
           Cardinality(Ahead(t, j)) = Cardinality(Ahead(t, k))
    PROVE  j = k
<1>1. j \in Int /\ k \in Int BY DEF VsIn
<1>2. Cardinality(Ahead(t, j)) \in Nat /\ Cardinality(Ahead(t, k)) \in Nat BY <1>1, VsFinite
<1>3. ~(j < k) BY <1>1, <1>2, NumbersAscend
<1>4. ~(k < j) BY <1>1, <1>2, NumbersAscend
<1>5. QED BY <1>1, <1>3, <1>4

LEMMA OneWord ==
    ASSUME NEW t \in Seq(Lines), NEW n, NEW v, NEW w, Has(t, n, v), Has(t, n, w)
    PROVE  v = w
  BY OnePerNumber DEF Has

\* And a word to one number.
LEMMA OneNumber ==
    ASSUME NEW t, TextOK(t), NEW m, NEW n, NEW w \in Words, Has(t, m, w), Has(t, n, w)
    PROVE  m = n
  BY DEF Has, TextOK, VsIn

\* Every VS has its number.
LEMMA Numbered ==
    ASSUME NEW t \in Seq(Lines), NEW k \in VsIn(t)
    PROVE  /\ t[k] \in Words /\ Cardinality(Ahead(t, k)) \in Nat
           /\ Has(t, Cardinality(Ahead(t, k)), t[k])
           /\ Cardinality(Ahead(t, k)) < Cardinality(VsIn(t))
<1>1. k \in Int /\ t[k] \in Words BY DEF VsIn
<1>2. Cardinality(Ahead(t, k)) \in Nat BY <1>1, VsFinite
<1>3. Has(t, Cardinality(Ahead(t, k)), t[k]) BY DEF Has
<1>4. Ahead(t, k) \in SUBSET VsIn(t) /\ k \notin Ahead(t, k) BY <1>1 DEF Ahead
<1>5. Ahead(t, k) # VsIn(t) BY <1>4
<1>6. QED BY <1>1, <1>2, <1>3, <1>4, <1>5, VsFinite, FS_Subset

\* Every number up to that of the VSes is one's: a choice of lines with different numbers
\* cannot leave one out.
LEMMA EveryNumber ==
    ASSUME NEW t \in Seq(Lines), NEW n \in 0 .. Cardinality(VsIn(t)) - 1
    PROVE  \E k \in VsIn(t) : Cardinality(Ahead(t, k)) = n
<1> DEFINE c == Cardinality(VsIn(t))
           f == [k \in VsIn(t) |-> Cardinality(Ahead(t, k))]
<1>1. c \in Nat /\ IsFiniteSet(VsIn(t)) BY VsFinite
<1>2. \A k \in VsIn(t) : Cardinality(Ahead(t, k)) \in 0 .. c - 1
  BY <1>1, Numbered
<1>3. f \in [VsIn(t) -> 0 .. c - 1] BY <1>2
<1>4. \A j, k \in VsIn(t) : f[j] = f[k] => j = k BY OnePerNumber
<1>5. f \in Injection(VsIn(t), 0 .. c - 1)
  <2> HIDE DEF f
  <2> QED BY <1>3, <1>4 DEF Injection, IsInjective
<1>6. IsFiniteSet(0 .. c - 1) /\ Cardinality(0 .. c - 1) = c BY <1>1, FS_Interval
<1>7. f \in Surjection(VsIn(t), 0 .. c - 1) BY <1>5, <1>6, FS_Injection
<1>8. PICK k \in VsIn(t) : f[k] = n
  <2> HIDE DEF f
  <2> QED BY <1>7 DEF Surjection
<1>9. QED BY <1>8

-----------------------------------------------------------------------------
(* Edits *)

LEMMA ConcatAt ==
    ASSUME NEW S, NEW r \in Seq(S), NEW s \in Seq(S)
    PROVE  /\ r \o s \in Seq(S) /\ Len(r \o s) = Len(r) + Len(s)
           /\ Len(r) \in Nat /\ Len(s) \in Nat
           /\ \A p \in 1 .. Len(r) : (r \o s)[p] = r[p]
           /\ \A p \in Len(r) + 1 .. Len(r) + Len(s) : (r \o s)[p] = s[p - Len(r)]
  OBVIOUS

Spliced(t, k, line) == SubSeq(t, 1, k - 1) \o <<line>> \o SubSeq(t, k, Len(t))

LEMMA SplicedAt ==
    ASSUME NEW t \in Seq(Lines), NEW k \in 1 .. Len(t) + 1, NEW line \in Lines
    PROVE  LET u == Spliced(t, k, line) IN
           /\ u \in Seq(Lines) /\ Len(u) = Len(t) + 1 /\ Len(t) \in Nat /\ k \in Int
           /\ \A p \in 1 .. k - 1 : u[p] = t[p]
           /\ u[k] = line
           /\ \A p \in k + 1 .. Len(t) + 1 : u[p] = t[p - 1]
<1> DEFINE a == SubSeq(t, 1, k - 1)
           b == SubSeq(t, k, Len(t))
           c == a \o <<line>>
<1>1. /\ a \in Seq(Lines) /\ Len(a) = k - 1 /\ \A p \in 1 .. k - 1 : a[p] = t[p]
  OBVIOUS
<1>2. /\ b \in Seq(Lines) /\ Len(b) = Len(t) - k + 1
      /\ \A p \in 1 .. Len(t) - k + 1 : b[p] = t[k + p - 1]
  OBVIOUS
<1> HIDE DEF a, b
<1>3. /\ c \in Seq(Lines) /\ Len(c) = k /\ \A p \in 1 .. k - 1 : c[p] = t[p]
      /\ c[k] = line
  BY <1>1
<1>4. Spliced(t, k, line) = c \o b BY DEF Spliced, a, b
<1> HIDE DEF c
<1> DEFINE u == c \o b
<1>5. /\ u \in Seq(Lines) /\ Len(u) = k + (Len(t) - k + 1)
      /\ \A p \in 1 .. k : u[p] = c[p]
      /\ \A p \in k + 1 .. k + (Len(t) - k + 1) : u[p] = b[p - k]
  BY <1>2, <1>3, ConcatAt
<1> HIDE DEF u
<1>6. \A p \in k + 1 .. Len(t) + 1 : u[p] = t[p - 1]
  <2> TAKE p \in k + 1 .. Len(t) + 1
  <2>1. p - k \in 1 .. Len(t) - k + 1 /\ k + (p - k) - 1 = p - 1 OBVIOUS
  <2>2. u[p] = b[p - k] BY <1>5
  <2>3. b[p - k] = t[k + (p - k) - 1] BY <2>1, <1>2
  <2>4. QED BY <2>1, <2>2, <2>3
<1>7. u[k] = line /\ \A p \in 1 .. k - 1 : u[p] = t[p] BY <1>3, <1>5
<1>8. Len(u) = Len(t) + 1 /\ Len(t) \in Nat /\ k \in Int BY <1>5
<1>9. QED BY <1>4, <1>5, <1>6, <1>7, <1>8 DEF u

LEMMA RemovedAt ==
    ASSUME NEW t \in Seq(Lines), NEW k \in 1 .. Len(t)
    PROVE  LET u == RemoveAt(t, k) IN
           /\ u \in Seq(Lines) /\ Len(u) = Len(t) - 1 /\ Len(t) \in Nat /\ k \in Int
           /\ \A p \in 1 .. k - 1 : u[p] = t[p]
           /\ \A p \in k .. Len(t) - 1 : u[p] = t[p + 1]
<1> DEFINE a == SubSeq(t, 1, k - 1)
           b == SubSeq(t, k + 1, Len(t))
<1>1. /\ a \in Seq(Lines) /\ Len(a) = k - 1 /\ \A p \in 1 .. k - 1 : a[p] = t[p]
  OBVIOUS
<1>2. /\ b \in Seq(Lines) /\ Len(b) = Len(t) - k
      /\ \A p \in 1 .. Len(t) - k : b[p] = t[k + p]
  OBVIOUS
<1>3. RemoveAt(t, k) = a \o b BY DEF RemoveAt
<1> HIDE DEF a, b
<1> DEFINE u == a \o b
<1>03. /\ u \in Seq(Lines) /\ Len(u) = Len(a) + Len(b)
       /\ \A p \in 1 .. Len(a) : u[p] = a[p]
       /\ \A p \in Len(a) + 1 .. Len(a) + Len(b) : u[p] = b[p - Len(a)]
  BY <1>1, <1>2, ConcatAt, ZenonT(30)
<1> HIDE DEF u
<1>4. /\ u \in Seq(Lines) /\ Len(u) = (k - 1) + (Len(t) - k)
      /\ \A p \in 1 .. k - 1 : u[p] = a[p]
      /\ \A p \in (k - 1) + 1 .. (k - 1) + (Len(t) - k) : u[p] = b[p - (k - 1)]
  BY <1>1, <1>2, <1>03
<1> HIDE DEF u
<1>5. \A p \in k .. Len(t) - 1 : u[p] = t[p + 1]
  <2> TAKE p \in k .. Len(t) - 1
  <2>1. p - (k - 1) \in 1 .. Len(t) - k /\ k + (p - (k - 1)) = p + 1 OBVIOUS
  <2>2. u[p] = b[p - (k - 1)] BY <1>4
  <2>3. b[p - (k - 1)] = t[k + (p - (k - 1))] BY <2>1, <1>2
  <2>4. QED BY <2>1, <2>2, <2>3
<1>6. \A p \in 1 .. k - 1 : u[p] = t[p] BY <1>1, <1>4
<1>7. Len(u) = Len(t) - 1 /\ Len(t) \in Nat /\ k \in Int BY <1>4
<1>8. QED BY <1>3, <1>4, <1>5, <1>6, <1>7 DEF u

LEMMA InsertKeepsText ==
    ASSUME NEW t, TextOK(t), NEW k \in 1 .. Len(t) + 1, NEW line \in Lines,
           line \in Words => \A p \in 1 .. Len(t) : t[p] # line
    PROVE  TextOK(Spliced(t, k, line))
<1> DEFINE u == Spliced(t, k, line)
<1>1. t \in Seq(Lines) BY DEF TextOK
<1>2. /\ u \in Seq(Lines) /\ Len(u) = Len(t) + 1 /\ Len(t) \in Nat /\ k \in Int
      /\ \A p \in 1 .. k - 1 : u[p] = t[p]
      /\ u[k] = line
      /\ \A p \in k + 1 .. Len(t) + 1 : u[p] = t[p - 1]
  BY <1>1, SplicedAt, ZenonT(30)
<1> HIDE DEF u
<1>3. \A p \in 1 .. Len(u) : p # k =>
        \E q \in 1 .. Len(t) : u[p] = t[q] /\ q = IF p < k THEN p ELSE p - 1
  <2> TAKE p \in 1 .. Len(u)
  <2>1. ASSUME p < k PROVE p \in 1 .. Len(t) /\ u[p] = t[p] BY <2>1, <1>2
  <2>2. ASSUME p > k PROVE p - 1 \in 1 .. Len(t) /\ u[p] = t[p - 1] BY <2>2, <1>2
  <2>3. QED BY <1>2, <2>1, <2>2
<1>4. \A i, j \in 1 .. Len(u) : u[i] = u[j] /\ u[i] \in Words => i = j
  <2> SUFFICES ASSUME NEW i \in 1 .. Len(u), NEW j \in 1 .. Len(u), u[i] = u[j], u[i] \in Words
               PROVE  i = j
    OBVIOUS
  <2>1. CASE i = k /\ j = k BY <2>1
  <2>2. CASE i = k /\ j # k BY <2>2, <1>2, <1>3
  <2>3. CASE i # k /\ j = k BY <2>3, <1>2, <1>3
  <2>4. CASE i # k /\ j # k
    <3>1. PICK p \in 1 .. Len(t) : u[i] = t[p] /\ p = IF i < k THEN i ELSE i - 1 BY <2>4, <1>3
    <3>2. PICK q \in 1 .. Len(t) : u[j] = t[q] /\ q = IF j < k THEN j ELSE j - 1 BY <2>4, <1>3
    <3>3. p = q BY <3>1, <3>2 DEF TextOK
    <3>4. QED BY <3>1, <3>2, <3>3, <2>4, <1>2
  <2>5. QED BY <2>1, <2>2, <2>3, <2>4
<1>5. QED BY <1>2, <1>4 DEF TextOK, u

LEMMA RemoveKeepsText ==
    ASSUME NEW t, TextOK(t), NEW k \in 1 .. Len(t)
    PROVE  TextOK(RemoveAt(t, k))
<1> DEFINE u == RemoveAt(t, k)
<1>1. t \in Seq(Lines) BY DEF TextOK
<1>2. /\ u \in Seq(Lines) /\ Len(u) = Len(t) - 1 /\ Len(t) \in Nat /\ k \in Int
      /\ \A p \in 1 .. k - 1 : u[p] = t[p]
      /\ \A p \in k .. Len(t) - 1 : u[p] = t[p + 1]
  BY <1>1, RemovedAt
<1> HIDE DEF u
<1>3. \A p \in 1 .. Len(u) :
        \E q \in 1 .. Len(t) : u[p] = t[q] /\ q = IF p < k THEN p ELSE p + 1
  <2> TAKE p \in 1 .. Len(u)
  <2>1. ASSUME p < k PROVE p \in 1 .. Len(t) /\ u[p] = t[p] BY <2>1, <1>2
  <2>2. ASSUME p >= k PROVE p + 1 \in 1 .. Len(t) /\ u[p] = t[p + 1] BY <2>2, <1>2
  <2>3. QED BY <1>2, <2>1, <2>2
<1>4. \A i, j \in 1 .. Len(u) : u[i] = u[j] /\ u[i] \in Words => i = j
  <2> SUFFICES ASSUME NEW i \in 1 .. Len(u), NEW j \in 1 .. Len(u), u[i] = u[j], u[i] \in Words
               PROVE  i = j
    OBVIOUS
  <2>1. PICK p \in 1 .. Len(t) : u[i] = t[p] /\ p = IF i < k THEN i ELSE i + 1 BY <1>3
  <2>2. PICK q \in 1 .. Len(t) : u[j] = t[q] /\ q = IF j < k THEN j ELSE j + 1 BY <1>3
  <2>3. p = q BY <2>1, <2>2 DEF TextOK
  <2>4. QED BY <2>1, <2>2, <2>3, <1>2
<1>5. QED BY <1>2, <1>4 DEF TextOK, u

\* An edit behind a line leaves its number, word or comment.
LEMMA EditBehind ==
    ASSUME NEW t \in Seq(Lines), NEW u \in Seq(Lines), NEW k \in Int,
           k <= Len(t) + 1, k <= Len(u) + 1,
           \A p \in 1 .. k - 1 : u[p] = t[p],
           NEW p \in VsIn(t), p < k
    PROVE  /\ p \in VsIn(u) /\ u[p] = t[p]
           /\ Cardinality(Ahead(u, p)) = Cardinality(Ahead(t, p))
<1>1. p \in 1 .. k - 1 /\ Len(t) \in Nat /\ Len(u) \in Nat BY DEF VsIn
<1>2. u[p] = t[p] /\ p \in VsIn(u) BY <1>1 DEF VsIn
<1>3. Ahead(u, p) = Ahead(t, p) BY <1>1 DEF Ahead, VsIn
<1>4. QED BY <1>2, <1>3

\* An edit in front that is of no word, too, though the line has moved by d.
LEMMA EditInFront ==
    ASSUME NEW t \in Seq(Lines), NEW u \in Seq(Lines), NEW k \in Int, NEW d \in Int,
           NEW p \in VsIn(t), k <= p,
           \A q \in VsIn(t) : q < k => q \in VsIn(u),
           \A q \in VsIn(u) : q < k => q \in VsIn(t),
           \A q \in VsIn(t) : q >= k => q + d \in VsIn(u) /\ q + d >= k,
           \A q \in VsIn(u) : q >= k => q - d \in VsIn(t) /\ q - d >= k
    PROVE  Cardinality(Ahead(u, p + d)) = Cardinality(Ahead(t, p))
<1> DEFINE S == Ahead(t, p)
           T == Ahead(u, p + d)
           f == [q \in S |-> IF q < k THEN q ELSE q + d]
<1>1. p \in Int /\ VsIn(t) \in SUBSET Int /\ VsIn(u) \in SUBSET Int BY DEF VsIn
<1>2. p + d \in VsIn(u) /\ p + d >= k BY <1>1
<1>3. \A q \in S : q \in Int /\ q < p /\ q \in VsIn(t) BY <1>1 DEF Ahead
<1>4. \A q \in S : f[q] \in T BY <1>1, <1>2, <1>3 DEF Ahead
<1>5. \A r \in T : \E q \in S : f[q] = r
  <2> TAKE r \in T
  <2>1. r \in Int /\ r \in VsIn(u) /\ r < p + d BY <1>1, <1>2 DEF Ahead
  <2>2. CASE r < k
    <3>1. r \in S /\ f[r] = r BY <2>1, <2>2, <1>1 DEF Ahead
    <3>2. QED BY <3>1
  <2>3. CASE r >= k
    <3>1. r - d \in S /\ f[r - d] = r BY <2>1, <2>3, <1>1 DEF Ahead
    <3>2. QED BY <3>1
  <2>4. QED BY <2>1, <2>2, <2>3
<1>6. \A q, r \in S : f[q] = f[r] => q = r
  <2> TAKE q, r \in S
  <2>1. q >= k => q + d >= k BY <1>1, <1>3
  <2>2. r >= k => r + d >= k BY <1>1, <1>3
  <2>3. QED BY <1>1, <1>3, <2>1, <2>2, SMTT(30)
<1>7. f \in Bijection(S, T)
  <2>1. f \in [S -> T] BY <1>4
  <2> HIDE DEF f, S, T
  <2>2. QED BY <2>1, <1>5, <1>6 DEF Bijection, Injection, Surjection, IsInjective
<1>8. IsFiniteSet(S) BY <1>1, VsFinite
<1>9. QED BY <1>7, <1>8, FS_Bijection DEF ExistsBijection

-----------------------------------------------------------------------------
(* What the lists, the text and the user agree on *)

\* Box l of the lists b has the number n.
In(b, l, n) == \E i \in 1 .. Len(b[l]) : b[l][i] = n

BoxesOK(b, c) ==
    /\ c \in Nat /\ b \in [Boxes -> Seq(Nat)]
    /\ \A l \in Boxes, n \in Nat : In(b, l, n) => n < c
    /\ \A l, m \in Boxes : \A i \in 1 .. Len(b[l]), j \in 1 .. Len(b[m]) :
          b[l][i] = b[m][j] => l = m /\ i = j

\* The numbers of the VSes that have been loaded and are in no box.
Lost(b, c) == {n \in 0 .. c - 1 : \A l \in Boxes : ~In(b, l, n)}

Present(t, c) == \A n \in 0 .. c - 1 : \E w \in Words : Has(t, n, w)
Learnt(t, b, h) ==
    \A w \in Words, l \in Boxes : h[w] = l <=> \E n \in Nat : In(b, l, n) /\ Has(t, n, w)

\* The first c VSes of t have their numbers in u.
Steady(t, u, c) == \A n \in 0 .. c - 1, w \in Words : Has(t, n, w) => Has(u, n, w)

LEMMA SteadyBehind ==
    ASSUME NEW t \in Seq(Lines), NEW u \in Seq(Lines), NEW k \in Int, NEW c \in Nat,
           k <= Len(t) + 1, k <= Len(u) + 1,
           \A p \in 1 .. k - 1 : u[p] = t[p],
           \A p \in VsIn(t) : Cardinality(Ahead(t, p)) < c => p < k
    PROVE  Steady(t, u, c)
<1> SUFFICES ASSUME NEW n \in 0 .. c - 1, NEW w \in Words, Has(t, n, w)
             PROVE  Has(u, n, w)
  BY DEF Steady
<1>1. PICK p \in VsIn(t) : t[p] = w /\ Cardinality(Ahead(t, p)) = n BY DEF Has
<1>2. p < k BY <1>1
<1>3. p \in VsIn(u) /\ u[p] = t[p] /\ Cardinality(Ahead(u, p)) = Cardinality(Ahead(t, p))
  BY <1>2, EditBehind
<1>4. QED BY <1>1, <1>3 DEF Has

LEMMA CommentInserted ==
    ASSUME NEW t \in Seq(Lines), NEW k \in 1 .. Len(t) + 1, NEW c \in Nat
    PROVE  Steady(t, Spliced(t, k, Comment), c)
<1> DEFINE u == Spliced(t, k, Comment)
<1>1. Comment \in Lines /\ Comment \notin Words BY VsFilesAssumption DEF Lines
<1>2. /\ u \in Seq(Lines) /\ Len(u) = Len(t) + 1 /\ Len(t) \in Nat /\ k \in Int
      /\ \A p \in 1 .. k - 1 : u[p] = t[p]
      /\ u[k] = Comment
      /\ \A p \in k + 1 .. Len(t) + 1 : u[p] = t[p - 1]
  BY <1>1, SplicedAt
<1> HIDE DEF u
<1> SUFFICES ASSUME NEW n \in 0 .. c - 1, NEW w \in Words, Has(t, n, w)
             PROVE  Has(u, n, w)
  BY DEF Steady, u
<1>3. PICK p \in VsIn(t) : t[p] = w /\ Cardinality(Ahead(t, p)) = n BY DEF Has
<1>4. p \in 1 .. Len(t) BY DEF VsIn
<1>5. CASE p < k
  <2>1. k <= Len(t) + 1 /\ k <= Len(u) + 1 BY <1>2
  <2>2. u \in Seq(Lines) /\ k \in Int /\ \A q \in 1 .. k - 1 : u[q] = t[q] BY <1>2
  <2>3. p \in VsIn(u) /\ u[p] = t[p] /\ Cardinality(Ahead(u, p)) = Cardinality(Ahead(t, p))
    BY <1>5, <2>1, <2>2, EditBehind
  <2>4. QED BY <1>3, <2>3 DEF Has
<1>6. CASE p >= k
  <2>1. \A q \in VsIn(t) : q < k => q \in VsIn(u) BY <1>2 DEF VsIn
  <2>2. \A q \in VsIn(u) : q < k => q \in VsIn(t) BY <1>2 DEF VsIn
  <2>3. \A q \in VsIn(t) : q >= k => q + 1 \in VsIn(u) /\ q + 1 >= k /\ u[q + 1] = t[q]
    <3> SUFFICES ASSUME NEW q \in VsIn(t), q >= k
                 PROVE  q + 1 \in VsIn(u) /\ q + 1 >= k /\ u[q + 1] = t[q]
      OBVIOUS
    <3>1. q \in 1 .. Len(t) /\ t[q] \in Words BY DEF VsIn
    <3>2. u[q + 1] = t[(q + 1) - 1] /\ (q + 1) - 1 = q BY <1>2, <3>1
    <3>3. QED BY <1>2, <3>1, <3>2 DEF VsIn
  <2>4. \A q \in VsIn(u) : q >= k => q - 1 \in VsIn(t) /\ q - 1 >= k
    <3> SUFFICES ASSUME NEW q \in VsIn(u), q >= k
                 PROVE  q - 1 \in VsIn(t) /\ q - 1 >= k
      OBVIOUS
    <3>1. q \in 1 .. Len(t) + 1 /\ u[q] \in Words BY <1>2 DEF VsIn
    <3>2. q # k BY <1>1, <1>2, <3>1
    <3>3. u[q] = t[q - 1] BY <1>2, <3>1, <3>2
    <3>4. QED BY <1>2, <3>1, <3>2, <3>3 DEF VsIn
  <2>5. Cardinality(Ahead(u, p + 1)) = Cardinality(Ahead(t, p))
    BY <1>2, <1>6, <2>1, <2>2, <2>3, <2>4, EditInFront
  <2>6. QED BY <1>3, <1>6, <2>3, <2>5 DEF Has
<1>7. QED BY <1>2, <1>4, <1>5, <1>6

LEMMA CommentRemoved ==
    ASSUME NEW t \in Seq(Lines), NEW k \in 1 .. Len(t), t[k] \notin Words, NEW c \in Nat
    PROVE  Steady(t, RemoveAt(t, k), c)
<1> DEFINE u == RemoveAt(t, k)
<1>2. /\ u \in Seq(Lines) /\ Len(u) = Len(t) - 1 /\ Len(t) \in Nat /\ k \in Int
      /\ \A p \in 1 .. k - 1 : u[p] = t[p]
      /\ \A p \in k .. Len(t) - 1 : u[p] = t[p + 1]
  BY RemovedAt
<1> HIDE DEF u
<1> SUFFICES ASSUME NEW n \in 0 .. c - 1, NEW w \in Words, Has(t, n, w)
             PROVE  Has(u, n, w)
  BY DEF Steady, u
<1>3. PICK p \in VsIn(t) : t[p] = w /\ Cardinality(Ahead(t, p)) = n BY DEF Has
<1>4. p \in 1 .. Len(t) /\ p # k BY DEF VsIn
<1>5. CASE p < k
  <2>1. k <= Len(t) + 1 /\ k <= Len(u) + 1 BY <1>2
  <2>2. u \in Seq(Lines) /\ k \in Int /\ \A q \in 1 .. k - 1 : u[q] = t[q] BY <1>2
  <2>3. p \in VsIn(u) /\ u[p] = t[p] /\ Cardinality(Ahead(u, p)) = Cardinality(Ahead(t, p))
    BY <1>5, <2>1, <2>2, EditBehind
  <2>4. QED BY <1>3, <2>3 DEF Has
<1>6. CASE p >= k
  <2>1. \A q \in VsIn(t) : q < k => q \in VsIn(u) BY <1>2 DEF VsIn
  <2>2. \A q \in VsIn(u) : q < k => q \in VsIn(t) BY <1>2 DEF VsIn
  <2>3. \A q \in VsIn(t) : q >= k =>
            q + (-1) \in VsIn(u) /\ q + (-1) >= k /\ u[q + (-1)] = t[q]
    <3> SUFFICES ASSUME NEW q \in VsIn(t), q >= k
                 PROVE  q + (-1) \in VsIn(u) /\ q + (-1) >= k /\ u[q + (-1)] = t[q]
      OBVIOUS
    <3>1. q \in 1 .. Len(t) /\ t[q] \in Words /\ q # k BY DEF VsIn
    <3>2. u[q + (-1)] = t[(q + (-1)) + 1] /\ (q + (-1)) + 1 = q BY <1>2, <3>1
    <3>3. QED BY <1>2, <3>1, <3>2 DEF VsIn
  <2>4. \A q \in VsIn(u) : q >= k => q - (-1) \in VsIn(t) /\ q - (-1) >= k
    <3> SUFFICES ASSUME NEW q \in VsIn(u), q >= k
                 PROVE  q - (-1) \in VsIn(t) /\ q - (-1) >= k
      OBVIOUS
    <3>1. q \in 1 .. Len(t) - 1 /\ u[q] \in Words BY <1>2 DEF VsIn
    <3>2. u[q] = t[q + 1] /\ q - (-1) = q + 1 BY <1>2, <3>1
    <3>3. QED BY <1>2, <3>1, <3>2 DEF VsIn
  <2>5. Cardinality(Ahead(u, p + (-1))) = Cardinality(Ahead(t, p))
    BY <1>2, <1>6, <2>1, <2>2, <2>3, <2>4, EditInFront
  <2>6. QED BY <1>3, <1>6, <2>3, <2>5 DEF Has
<1>7. QED BY <1>2, <1>4, <1>5, <1>6

\* The VSes behind a line with c or more in front of it have c or more in front of them.
LEMMA LoadedInFront ==
    ASSUME NEW t \in Seq(Lines), NEW k \in Int, NEW c \in Nat, ~(Cardinality(Ahead(t, k)) < c),
           NEW p \in VsIn(t), Cardinality(Ahead(t, p)) < c
    PROVE  p < k
<1> SUFFICES ASSUME ~(p < k) PROVE FALSE
  OBVIOUS
<1>1. p \in Int BY DEF VsIn
<1>2. Ahead(t, k) \in SUBSET Ahead(t, p) BY <1>1 DEF Ahead, VsIn
<1>3. IsFiniteSet(Ahead(t, p)) /\ Cardinality(Ahead(t, p)) \in Nat /\ Cardinality(Ahead(t, k)) \in Nat
  BY <1>1, VsFinite
<1>4. Cardinality(Ahead(t, k)) <= Cardinality(Ahead(t, p)) BY <1>2, <1>3, FS_Subset
<1>5. QED BY <1>3, <1>4

LEMMA WordInserted ==
    ASSUME NEW t \in Seq(Lines), NEW k \in 1 .. Len(t) + 1, NEW line \in Lines, NEW c \in Nat,
           ~(Cardinality(Ahead(t, k)) < c)
    PROVE  Steady(t, Spliced(t, k, line), c)
<1> DEFINE u == Spliced(t, k, line)
<1>1. u \in Seq(Lines) /\ Len(u) = Len(t) + 1 /\ Len(t) \in Nat /\ k \in Int
      /\ \A p \in 1 .. k - 1 : u[p] = t[p]
  BY SplicedAt
<1> HIDE DEF u
<1>2. \A p \in VsIn(t) : Cardinality(Ahead(t, p)) < c => p < k BY <1>1, LoadedInFront
<1>3. k <= Len(t) + 1 /\ k <= Len(u) + 1 BY <1>1
<1>4. Steady(t, u, c) BY <1>1, <1>2, <1>3, SteadyBehind
<1>5. QED BY <1>4 DEF u

LEMMA WordRemoved ==
    ASSUME NEW t \in Seq(Lines), NEW k \in 1 .. Len(t), NEW c \in Nat,
           ~(Cardinality(Ahead(t, k)) < c)
    PROVE  Steady(t, RemoveAt(t, k), c)
<1> DEFINE u == RemoveAt(t, k)
<1>1. u \in Seq(Lines) /\ Len(u) = Len(t) - 1 /\ Len(t) \in Nat /\ k \in Int
      /\ \A p \in 1 .. k - 1 : u[p] = t[p]
  BY RemovedAt
<1> HIDE DEF u
<1>2. \A p \in VsIn(t) : Cardinality(Ahead(t, p)) < c => p < k BY <1>1, LoadedInFront
<1>3. k <= Len(t) + 1 /\ k <= Len(u) + 1 BY <1>1
<1>4. Steady(t, u, c) BY <1>1, <1>2, <1>3, SteadyBehind
<1>5. QED BY <1>4 DEF u

\* A VS with all that have been loaded in front of it is in no box.
LEMMA UnlearntBehind ==
    ASSUME NEW t, TextOK(t), NEW b, NEW c, BoxesOK(b, c), NEW h \in [Words -> Boxes \cup {NoBox}],
           Learnt(t, b, h), NEW k \in VsIn(t), ~(Cardinality(Ahead(t, k)) < c)
    PROVE  h[t[k]] = NoBox
<1> SUFFICES ASSUME NEW l \in Boxes, h[t[k]] = l PROVE FALSE
  BY DEF VsIn
<1>1. t \in Seq(Lines) BY DEF TextOK
<1>2. t[k] \in Words /\ Has(t, Cardinality(Ahead(t, k)), t[k]) BY <1>1, Numbered
<1>3. PICK n \in Nat : In(b, l, n) /\ Has(t, n, t[k]) BY <1>2 DEF Learnt
<1>4. n < c BY <1>3 DEF BoxesOK
<1>5. n = Cardinality(Ahead(t, k)) BY <1>2, <1>3, OneNumber
<1>6. QED BY <1>4, <1>5

LEMMA SteadyPresent ==
    ASSUME NEW t, NEW u, NEW c, Steady(t, u, c), Present(t, c)
    PROVE  Present(u, c)
  BY DEF Steady, Present

LEMMA SteadyLearnt ==
    ASSUME NEW t \in Seq(Lines), NEW u \in Seq(Lines), NEW b, NEW c, BoxesOK(b, c),
           Steady(t, u, c), Present(t, c), NEW h, Learnt(t, b, h)
    PROVE  Learnt(u, b, h)
<1> SUFFICES ASSUME NEW w \in Words, NEW l \in Boxes
             PROVE  h[w] = l <=> \E n \in Nat : In(b, l, n) /\ Has(u, n, w)
  BY DEF Learnt
<1>1. \A n \in Nat : In(b, l, n) => n \in 0 .. c - 1 BY DEF BoxesOK
<1>2. ASSUME NEW n \in Nat, In(b, l, n) PROVE Has(t, n, w) <=> Has(u, n, w)
  <2>1. n \in 0 .. c - 1 BY <1>1, <1>2
  <2>2. Has(t, n, w) => Has(u, n, w) BY <2>1 DEF Steady
  <2>3. PICK v \in Words : Has(t, n, v) BY <2>1 DEF Present
  <2>4. Has(u, n, v) BY <2>1, <2>3 DEF Steady
  <2>5. Has(u, n, w) => v = w BY <2>4, OneWord
  <2>6. QED BY <2>2, <2>3, <2>5
<1>3. QED BY <1>2 DEF Learnt

-----------------------------------------------------------------------------
(* Lists *)

LEMMA HeadTail ==
    ASSUME NEW s \in Seq(Nat), s # <<>>
    PROVE  /\ Tail(s) \in Seq(Nat) /\ Len(Tail(s)) = Len(s) - 1 /\ Len(s) \in Nat /\ Len(s) >= 1
           /\ Head(s) = s[1] /\ s[1] \in Nat
           /\ \A i \in 1 .. Len(s) - 1 : Tail(s)[i] = s[i + 1]
  OBVIOUS

LEMMA AppendedAt ==
    ASSUME NEW s \in Seq(Nat), NEW x \in Nat
    PROVE  /\ Append(s, x) \in Seq(Nat) /\ Len(Append(s, x)) = Len(s) + 1 /\ Len(s) \in Nat
           /\ \A i \in 1 .. Len(s) : Append(s, x)[i] = s[i]
           /\ Append(s, x)[Len(s) + 1] = x
  OBVIOUS

LEMMA HeadIn ==
    ASSUME NEW b, NEW c, BoxesOK(b, c), NEW l \in Boxes, b[l] # <<>>
    PROVE  In(b, l, Head(b[l])) /\ Head(b[l]) \in Nat
<1>1. b[l] \in Seq(Nat) BY DEF BoxesOK
<1>2. Head(b[l]) = b[l][1] /\ Head(b[l]) \in Nat /\ 1 \in 1 .. Len(b[l]) BY <1>1, HeadTail
<1>3. QED BY <1>2 DEF In

LEMMA LostFinite ==
    ASSUME NEW b, NEW c \in Nat
    PROVE  IsFiniteSet(Lost(b, c)) /\ Cardinality(Lost(b, c)) \in Nat
<1>1. IsFiniteSet(0 .. c - 1) BY FS_Interval
<1>2. Lost(b, c) \in SUBSET (0 .. c - 1) BY DEF Lost
<1>3. QED BY <1>1, <1>2, FS_Subset, FS_CardinalityType

Moved(b, l, m) == [b EXCEPT ![l] = Tail(@), ![m] = Append(@, Head(b[l]))]

LEMMA MovedAt ==
    ASSUME NEW b \in [Boxes -> Seq(Nat)], NEW l \in Boxes, NEW m \in Boxes, l # m, b[l] # <<>>
    PROVE  /\ Moved(b, l, m) \in [Boxes -> Seq(Nat)]
           /\ Moved(b, l, m)[l] = Tail(b[l])
           /\ Moved(b, l, m)[m] = Append(b[m], Head(b[l]))
           /\ \A x \in Boxes : x # l /\ x # m => Moved(b, l, m)[x] = b[x]
<1>1. b[l] \in Seq(Nat) /\ b[m] \in Seq(Nat) OBVIOUS
<1>2. Tail(b[l]) \in Seq(Nat) /\ Head(b[l]) \in Nat BY <1>1, HeadTail
<1>3. Append(b[m], Head(b[l])) \in Seq(Nat) BY <1>1, <1>2
<1>4. QED BY <1>2, <1>3 DEF Moved

\* Where each place of a box was before.
LEMMA MovedFrom ==
    ASSUME NEW b \in [Boxes -> Seq(Nat)], NEW l \in Boxes, NEW m \in Boxes, l # m, b[l] # <<>>
    PROVE  \A x \in Boxes : \A i \in 1 .. Len(Moved(b, l, m)[x]) :
           /\ i \in Int /\ Len(b[m]) \in Nat
           /\ x = l => i + 1 \in 1 .. Len(b[l]) /\ Moved(b, l, m)[x][i] = b[l][i + 1]
           /\ x = m => \/ i \in 1 .. Len(b[m]) /\ Moved(b, l, m)[x][i] = b[m][i]
                       \/ /\ i = Len(b[m]) + 1
                          /\ 1 \in 1 .. Len(b[l]) /\ Moved(b, l, m)[x][i] = b[l][1]
           /\ x # l /\ x # m => i \in 1 .. Len(b[x]) /\ Moved(b, l, m)[x][i] = b[x][i]
<1> TAKE x \in Boxes
<1> TAKE i \in 1 .. Len(Moved(b, l, m)[x])
<1>1. b[l] \in Seq(Nat) /\ b[m] \in Seq(Nat) OBVIOUS
<1>2. /\ Tail(b[l]) \in Seq(Nat) /\ Len(Tail(b[l])) = Len(b[l]) - 1
      /\ Len(b[l]) \in Nat /\ Len(b[l]) >= 1 /\ Head(b[l]) = b[l][1] /\ b[l][1] \in Nat
      /\ \A j \in 1 .. Len(b[l]) - 1 : Tail(b[l])[j] = b[l][j + 1]
  BY <1>1, HeadTail
<1>02. /\ Moved(b, l, m)[l] = Tail(b[l])
      /\ Moved(b, l, m)[m] = Append(b[m], Head(b[l]))
      /\ \A y \in Boxes : y # l /\ y # m => Moved(b, l, m)[y] = b[y]
  BY MovedAt
<1>3. CASE x = l BY <1>1, <1>2, <1>3, <1>02
<1>4. CASE x = m
  <2>1. /\ Len(Append(b[m], b[l][1])) = Len(b[m]) + 1 /\ Len(b[m]) \in Nat
        /\ \A j \in 1 .. Len(b[m]) : Append(b[m], b[l][1])[j] = b[m][j]
        /\ Append(b[m], b[l][1])[Len(b[m]) + 1] = b[l][1]
    BY <1>1, <1>2, AppendedAt
  <2>2. Moved(b, l, m)[x] = Append(b[m], b[l][1]) BY <1>2, <1>4, <1>02
  <2>3. i \in 1 .. Len(b[m]) + 1 BY <2>1, <2>2
  <2>4. CASE i \in 1 .. Len(b[m]) BY <2>1, <2>2, <2>4, <1>4
  <2>5. CASE i = Len(b[m]) + 1 BY <2>1, <2>2, <2>5, <1>2, <1>4
  <2>6. QED BY <2>1, <2>3, <2>4, <2>5
<1>5. CASE x # l /\ x # m BY <1>1, <1>5, <1>02
<1>6. QED BY <1>3, <1>4, <1>5

LEMMA MovedIn ==
    ASSUME NEW b, NEW c, BoxesOK(b, c), NEW l \in Boxes, NEW m \in Boxes, l # m, b[l] # <<>>,
           NEW x \in Boxes, NEW n \in Nat
    PROVE  In(Moved(b, l, m), x, n) <=>
              (n # Head(b[l]) /\ In(b, x, n)) \/ (n = Head(b[l]) /\ x = m)
<1> DEFINE h == b[l][1]
           d == Moved(b, l, m)
<1>1. b \in [Boxes -> Seq(Nat)] /\ b[l] \in Seq(Nat) /\ b[m] \in Seq(Nat) BY DEF BoxesOK
<1>2. /\ Tail(b[l]) \in Seq(Nat) /\ Len(Tail(b[l])) = Len(b[l]) - 1
      /\ Len(b[l]) \in Nat /\ Len(b[l]) >= 1 /\ Head(b[l]) = h /\ h \in Nat
      /\ \A j \in 1 .. Len(b[l]) - 1 : Tail(b[l])[j] = b[l][j + 1]
  BY <1>1, HeadTail
<1>3. 1 \in 1 .. Len(b[l]) BY <1>2
<1>4. \A y \in Boxes : \A j \in 1 .. Len(b[y]) : b[y][j] = h => y = l /\ j = 1
  BY <1>3 DEF BoxesOK
<1>5. d[l] = Tail(b[l]) /\ d[m] = Append(b[m], h) /\ (x # l /\ x # m => d[x] = b[x])
  <2>1. /\ Moved(b, l, m)[l] = Tail(b[l])
        /\ Moved(b, l, m)[m] = Append(b[m], Head(b[l]))
        /\ \A y \in Boxes : y # l /\ y # m => Moved(b, l, m)[y] = b[y]
    BY <1>1, MovedAt
  <2>2. QED BY <1>2, <2>1
<1> HIDE DEF d
<1>6. CASE x = l
  <2>1. ASSUME NEW i \in 1 .. Len(d[l]), d[l][i] = n PROVE n # h /\ In(b, l, n)
    <3>1. i + 1 \in 1 .. Len(b[l]) /\ b[l][i + 1] = n BY <1>2, <1>5, <2>1
    <3>2. i + 1 # 1 BY <1>2
    <3>3. QED BY <3>1, <3>2, <1>4 DEF In
  <2>2. ASSUME NEW i \in 1 .. Len(b[l]), b[l][i] = n, n # h PROVE In(d, l, n)
    <3>1. i # 1 BY <2>2
    <3>2. i - 1 \in 1 .. Len(d[l]) /\ (i - 1) + 1 = i BY <3>1, <1>2, <1>5
    <3>3. d[l][i - 1] = n BY <3>2, <1>2, <1>5, <2>2
    <3>4. QED BY <3>2, <3>3 DEF In
  <2>3. QED BY <1>2, <1>6, <2>1, <2>2 DEF In, d
<1>7. CASE x = m
  <2>1. /\ Len(d[m]) = Len(b[m]) + 1 /\ Len(b[m]) \in Nat
        /\ \A j \in 1 .. Len(b[m]) : d[m][j] = b[m][j]
        /\ d[m][Len(b[m]) + 1] = h
    BY <1>1, <1>2, <1>5, AppendedAt
  <2>2. ASSUME NEW i \in 1 .. Len(d[m]), d[m][i] = n PROVE n = h \/ In(b, m, n)
    BY <2>1, <2>2, SMTT(30) DEF In
  <2>3. ASSUME In(b, m, n) PROVE In(d, m, n) BY <2>1, <2>3 DEF In
  <2>4. ASSUME n = h PROVE In(d, m, n)
    <3>1. Len(b[m]) + 1 \in 1 .. Len(d[m]) BY <2>1
    <3>2. QED BY <2>1, <2>4, <3>1 DEF In
  <2>5. QED BY <1>2, <1>7, <2>2, <2>3, <2>4 DEF In, d
<1>8. CASE x # l /\ x # m
  <2>1. In(d, x, n) <=> In(b, x, n) BY <1>5, <1>8 DEF In
  <2>2. In(b, x, n) => n # h BY <1>4, <1>8 DEF In
  <2>3. QED BY <1>2, <1>8, <2>1, <2>2 DEF d
<1>9. QED BY <1>6, <1>7, <1>8

LEMMA MoveKeepsBoxes ==
    ASSUME NEW b, NEW c, BoxesOK(b, c), NEW l \in Boxes, NEW m \in Boxes, l # m, b[l] # <<>>
    PROVE  BoxesOK(Moved(b, l, m), c)
<1> DEFINE d == Moved(b, l, m)
           h == Head(b[l])
<1>1. b \in [Boxes -> Seq(Nat)] /\ c \in Nat BY DEF BoxesOK
<1>2. d \in [Boxes -> Seq(Nat)] BY <1>1, MovedAt
<1>3. \A x \in Boxes, n \in Nat : In(d, x, n) <=> (n # h /\ In(b, x, n)) \/ (n = h /\ x = m)
  BY MovedIn
<1>4. h \in Nat /\ In(b, l, h)
  <2>1. b[l] \in Seq(Nat) BY <1>1
  <2>2. h = b[l][1] /\ h \in Nat /\ 1 \in 1 .. Len(b[l]) BY <2>1, HeadTail
  <2>3. QED BY <2>2 DEF In
<1>05. \A z \in Boxes : \A k \in 1 .. Len(d[z]) :
          /\ k \in Int /\ Len(b[m]) \in Nat
          /\ z = l => k + 1 \in 1 .. Len(b[l]) /\ d[z][k] = b[l][k + 1]
          /\ z = m => \/ k \in 1 .. Len(b[m]) /\ d[z][k] = b[m][k]
                      \/ k = Len(b[m]) + 1 /\ 1 \in 1 .. Len(b[l]) /\ d[z][k] = b[l][1]
          /\ z # l /\ z # m => k \in 1 .. Len(b[z]) /\ d[z][k] = b[z][k]
  <2>1. b \in [Boxes -> Seq(Nat)] BY <1>1
  <2>2. \A x \in Boxes : \A i \in 1 .. Len(Moved(b, l, m)[x]) :
           /\ i \in Int /\ Len(b[m]) \in Nat
           /\ x = l => i + 1 \in 1 .. Len(b[l]) /\ Moved(b, l, m)[x][i] = b[l][i + 1]
           /\ x = m => \/ i \in 1 .. Len(b[m]) /\ Moved(b, l, m)[x][i] = b[m][i]
                       \/ /\ i = Len(b[m]) + 1
                          /\ 1 \in 1 .. Len(b[l]) /\ Moved(b, l, m)[x][i] = b[l][1]
           /\ x # l /\ x # m => i \in 1 .. Len(b[x]) /\ Moved(b, l, m)[x][i] = b[x][i]
    BY <2>1, MovedFrom, Zenon
  <2>3. QED BY <2>2
<1> HIDE DEF d
<1>5. \A x, y \in Boxes : \A i \in 1 .. Len(d[x]), j \in 1 .. Len(d[y]) :
        d[x][i] = d[y][j] => x = y /\ i = j
  <2> SUFFICES ASSUME NEW x \in Boxes, NEW y \in Boxes, NEW i \in 1 .. Len(d[x]),
                      NEW j \in 1 .. Len(d[y]), d[x][i] = d[y][j]
               PROVE  x = y /\ i = j
    OBVIOUS
  <2> DEFINE From(z, k) ==
        IF z = l THEN <<l, k + 1>>
        ELSE IF z = m /\ k = Len(b[m]) + 1 THEN <<l, 1>> ELSE <<z, k>>
  <2>1. ASSUME NEW z \in Boxes, NEW k \in 1 .. Len(d[z])
        PROVE  /\ k \in Int /\ k >= 1 /\ From(z, k)[1] \in Boxes
               /\ From(z, k)[2] \in 1 .. Len(b[From(z, k)[1]])
               /\ d[z][k] = b[From(z, k)[1]][From(z, k)[2]]
    <3>1. /\ k \in Int /\ Len(b[m]) \in Nat
          /\ z = l => k + 1 \in 1 .. Len(b[l]) /\ d[z][k] = b[l][k + 1]
          /\ z = m => \/ k \in 1 .. Len(b[m]) /\ d[z][k] = b[m][k]
                      \/ k = Len(b[m]) + 1 /\ 1 \in 1 .. Len(b[l]) /\ d[z][k] = b[l][1]
          /\ z # l /\ z # m => k \in 1 .. Len(b[z]) /\ d[z][k] = b[z][k]
      BY <1>05, <2>1
    <3> HIDE DEF d
    <3>2. QED BY <3>1
  <2>2. From(x, i) = From(y, j)
    <3>1. From(x, i)[1] = From(y, j)[1] /\ From(x, i)[2] = From(y, j)[2]
      <4>1. /\ d[x][i] = b[From(x, i)[1]][From(x, i)[2]] /\ From(x, i)[1] \in Boxes
            /\ From(x, i)[2] \in 1 .. Len(b[From(x, i)[1]])
        BY <2>1
      <4>2. /\ d[y][j] = b[From(y, j)[1]][From(y, j)[2]] /\ From(y, j)[1] \in Boxes
            /\ From(y, j)[2] \in 1 .. Len(b[From(y, j)[1]])
        BY <2>1
      <4> DEFINE x1 == From(x, i)[1]
                 i1 == From(x, i)[2]
                 y1 == From(y, j)[1]
                 j1 == From(y, j)[2]
      <4> HIDE DEF From
      <4>3. /\ x1 \in Boxes /\ y1 \in Boxes
            /\ i1 \in 1 .. Len(b[x1]) /\ j1 \in 1 .. Len(b[y1]) /\ b[x1][i1] = b[y1][j1]
        BY <4>1, <4>2
      <4> HIDE DEF x1, i1, y1, j1
      <4>4. x1 = y1 /\ i1 = j1 BY <4>3 DEF BoxesOK
      <4>5. QED BY <4>4 DEF x1, i1, y1, j1
    <3>2. QED BY <3>1
  <2>3. i \in Int /\ j \in Int /\ i >= 1 /\ j >= 1 BY <2>1
  <2> HIDE DEF d
  <2>4. QED BY <2>2, <2>3
<1> HIDE DEF d, h
<1>6. \A x \in Boxes, n \in Nat : In(d, x, n) => n < c BY <1>3, <1>4 DEF BoxesOK
<1>7. QED BY <1>1, <1>2, <1>5, <1>6 DEF BoxesOK, d

LEMMA MoveLosesNone ==
    ASSUME NEW b, NEW c, BoxesOK(b, c), NEW l \in Boxes, NEW m \in Boxes, l # m, b[l] # <<>>
    PROVE  Lost(Moved(b, l, m), c) = Lost(b, c)
<1>1. \A x \in Boxes, n \in Nat :
        In(Moved(b, l, m), x, n) <=> (n # Head(b[l]) /\ In(b, x, n)) \/ (n = Head(b[l]) /\ x = m)
  BY MovedIn
<1>2. In(b, l, Head(b[l])) BY HeadIn
<1>3. \A n \in Nat : (\E x \in Boxes : In(Moved(b, l, m), x, n)) <=> \E x \in Boxes : In(b, x, n)
  BY <1>1, <1>2
<1>4. \A n \in 0 .. c - 1 : n \in Nat BY DEF BoxesOK
<1>5. QED BY <1>3, <1>4 DEF Lost

Dropped(b, l) == [b EXCEPT ![l] = Tail(@)]

LEMMA DroppedAt ==
    ASSUME NEW b, NEW c, BoxesOK(b, c), NEW l \in Boxes, b[l] # <<>>
    PROVE  /\ Dropped(b, l) \in [Boxes -> Seq(Nat)]
           /\ \A x \in Boxes : x # l => Dropped(b, l)[x] = b[x]
           /\ Len(Dropped(b, l)[l]) = Len(b[l]) - 1 /\ Len(b[l]) \in Nat /\ Len(b[l]) >= 1
           /\ Head(b[l]) = b[l][1] /\ Head(b[l]) \in Nat
           /\ \A i \in 1 .. Len(b[l]) - 1 : Dropped(b, l)[l][i] = b[l][i + 1]
<1>1. b \in [Boxes -> Seq(Nat)] /\ b[l] \in Seq(Nat) BY DEF BoxesOK
<1>2. /\ Tail(b[l]) \in Seq(Nat) /\ Len(Tail(b[l])) = Len(b[l]) - 1
      /\ Len(b[l]) \in Nat /\ Len(b[l]) >= 1 /\ Head(b[l]) = b[l][1] /\ b[l][1] \in Nat
      /\ \A j \in 1 .. Len(b[l]) - 1 : Tail(b[l])[j] = b[l][j + 1]
  BY <1>1, HeadTail
<1>3. Dropped(b, l)[l] = Tail(b[l]) /\ \A x \in Boxes : x # l => Dropped(b, l)[x] = b[x]
  BY <1>1 DEF Dropped
<1>4. Dropped(b, l) \in [Boxes -> Seq(Nat)] BY <1>1, <1>2 DEF Dropped
<1>5. QED BY <1>2, <1>3, <1>4

LEMMA DroppedIn ==
    ASSUME NEW b, NEW c, BoxesOK(b, c), NEW l \in Boxes, b[l] # <<>>, NEW x \in Boxes, NEW n \in Nat
    PROVE  In(Dropped(b, l), x, n) <=> n # Head(b[l]) /\ In(b, x, n)
<1> DEFINE d == Dropped(b, l)
           h == b[l][1]
<1>1. /\ \A y \in Boxes : y # l => d[y] = b[y]
      /\ Len(d[l]) = Len(b[l]) - 1 /\ Len(b[l]) \in Nat /\ Len(b[l]) >= 1 /\ Head(b[l]) = h
      /\ \A i \in 1 .. Len(b[l]) - 1 : d[l][i] = b[l][i + 1]
  BY DroppedAt
<1>2. 1 \in 1 .. Len(b[l]) BY <1>1
<1>3. \A y \in Boxes : \A j \in 1 .. Len(b[y]) : b[y][j] = h => y = l /\ j = 1
  BY <1>2 DEF BoxesOK
<1> HIDE DEF d
<1>4. CASE x = l
  <2>1. ASSUME NEW i \in 1 .. Len(d[l]), d[l][i] = n PROVE n # h /\ In(b, l, n)
    <3>1. i + 1 \in 1 .. Len(b[l]) /\ b[l][i + 1] = n /\ i + 1 # 1 BY <1>1, <2>1
    <3>2. QED BY <3>1, <1>3 DEF In
  <2>2. ASSUME NEW i \in 1 .. Len(b[l]), b[l][i] = n, n # h PROVE In(d, l, n)
    <3>1. i # 1 BY <2>2
    <3>2. i - 1 \in 1 .. Len(d[l]) /\ (i - 1) + 1 = i /\ i - 1 \in 1 .. Len(b[l]) - 1
      BY <3>1, <1>1
    <3>3. d[l][i - 1] = n BY <3>2, <1>1, <2>2
    <3>4. QED BY <3>2, <3>3 DEF In
  <2>3. QED BY <1>1, <1>4, <2>1, <2>2 DEF In, d
<1>5. CASE x # l
  <2>1. In(d, x, n) <=> In(b, x, n) BY <1>1, <1>5 DEF In
  <2>2. In(b, x, n) => n # h BY <1>3, <1>5 DEF In
  <2>3. QED BY <1>1, <2>1, <2>2 DEF d
<1>6. QED BY <1>4, <1>5

LEMMA DropKeepsBoxes ==
    ASSUME NEW b, NEW c, BoxesOK(b, c), NEW l \in Boxes, b[l] # <<>>
    PROVE  BoxesOK(Dropped(b, l), c)
<1> DEFINE d == Dropped(b, l)
<1>1. /\ d \in [Boxes -> Seq(Nat)]
      /\ \A y \in Boxes : y # l => d[y] = b[y]
      /\ Len(d[l]) = Len(b[l]) - 1 /\ Len(b[l]) \in Nat
      /\ \A i \in 1 .. Len(b[l]) - 1 : d[l][i] = b[l][i + 1]
  BY DroppedAt
<1>2. \A x \in Boxes, n \in Nat : In(d, x, n) => In(b, x, n) BY DroppedIn
<1> HIDE DEF d
<1>3. \A x \in Boxes : \A i \in 1 .. Len(d[x]) :
        \E j \in 1 .. Len(b[x]) : d[x][i] = b[x][j] /\ j = IF x = l THEN i + 1 ELSE i
  BY <1>1
<1>4. \A x, y \in Boxes : \A i \in 1 .. Len(d[x]), j \in 1 .. Len(d[y]) :
        d[x][i] = d[y][j] => x = y /\ i = j
  <2> SUFFICES ASSUME NEW x \in Boxes, NEW y \in Boxes, NEW i \in 1 .. Len(d[x]),
                      NEW j \in 1 .. Len(d[y]), d[x][i] = d[y][j]
               PROVE  x = y /\ i = j
    OBVIOUS
  <2>1. PICK p \in 1 .. Len(b[x]) : d[x][i] = b[x][p] /\ p = IF x = l THEN i + 1 ELSE i BY <1>3
  <2>2. PICK q \in 1 .. Len(b[y]) : d[y][j] = b[y][q] /\ q = IF y = l THEN j + 1 ELSE j BY <1>3
  <2>02. b[x][p] = b[y][q] BY <2>1, <2>2
  <2>3. x = y /\ p = q BY <2>02 DEF BoxesOK
  <2>03. i \in Int /\ j \in Int
    <3>1. \A z \in Boxes : Len(d[z]) \in Nat BY <1>1
    <3>2. QED BY <3>1
  <2>4. i = j BY <2>1, <2>2, <2>3, <2>03
  <2>5. QED BY <2>3, <2>4
<1>5. \A x \in Boxes, n \in Nat : In(d, x, n) => n < c BY <1>2 DEF BoxesOK
<1>6. c \in Nat BY DEF BoxesOK
<1>7. QED BY <1>1, <1>4, <1>5, <1>6 DEF BoxesOK, d

LEMMA DropLosesOne ==
    ASSUME NEW b, NEW c, BoxesOK(b, c), NEW l \in Boxes, b[l] # <<>>
    PROVE  /\ Cardinality(Lost(b, c)) \in Nat
           /\ Cardinality(Lost(Dropped(b, l), c)) <= Cardinality(Lost(b, c)) + 1
<1>1. \A x \in Boxes, n \in Nat : In(Dropped(b, l), x, n) <=> n # Head(b[l]) /\ In(b, x, n)
  BY DroppedIn
<1>2. c \in Nat /\ \A n \in 0 .. c - 1 : n \in Nat BY DEF BoxesOK
<1>3. Lost(Dropped(b, l), c) \in SUBSET (Lost(b, c) \cup {Head(b[l])}) BY <1>1, <1>2 DEF Lost
<1>4. IsFiniteSet(Lost(b, c)) /\ Cardinality(Lost(b, c)) \in Nat BY <1>2, LostFinite
<1>5. /\ IsFiniteSet(Lost(b, c) \cup {Head(b[l])})
      /\ Cardinality(Lost(b, c) \cup {Head(b[l])}) <= Cardinality(Lost(b, c)) + 1
  <2> DEFINE S == Lost(b, c)
             h == Head(b[l])
  <2>1. IsFiniteSet(S) /\ Cardinality(S) \in Nat BY <1>4
  <2> HIDE DEF S, h
  <2>2. PICK T : T = S \cup {h} OBVIOUS
  <2>02. IsFiniteSet(T) /\ (Cardinality(T) = Cardinality(S) \/ Cardinality(T) = Cardinality(S) + 1)
    <3>1. CASE h \in S
      <4>1. T = S BY <2>2, <3>1
      <4>2. QED BY <2>1, <4>1
    <3>2. CASE h \notin S BY <2>1, <2>2, <3>2, FS_AddElement, Zenon
    <3>3. QED BY <3>1, <3>2
  <2>002. Cardinality(T) <= Cardinality(S) + 1 BY <2>1, <2>02
  <2>3. QED BY <2>2, <2>02, <2>002 DEF S, h
<1>6. /\ Cardinality(Lost(b, c) \cup {Head(b[l])}) \in Nat
      /\ Cardinality(Lost(Dropped(b, l), c)) \in Nat
      /\ Cardinality(Lost(Dropped(b, l), c)) <= Cardinality(Lost(b, c) \cup {Head(b[l])})
  BY <1>3, <1>5, FS_Subset, FS_CardinalityType
<1>7. QED BY <1>4, <1>5, <1>6

Extended(b, c, n) == [b EXCEPT ![0] = @ \o [k \in 1 .. n |-> c + k - 1]]

LEMMA ZeroIsBox == 0 \in Boxes
  BY VsFilesAssumption DEF Boxes

LEMMA ExtendedAt ==
    ASSUME NEW b \in [Boxes -> Seq(Nat)], NEW c \in Nat, NEW n \in Nat
    PROVE  LET d == Extended(b, c, n) IN
           /\ d \in [Boxes -> Seq(Nat)]
           /\ \A x \in Boxes : x # 0 => d[x] = b[x]
           /\ Len(d[0]) = Len(b[0]) + n /\ Len(b[0]) \in Nat
           /\ \A i \in 1 .. Len(b[0]) : d[0][i] = b[0][i]
           /\ \A i \in Len(b[0]) + 1 .. Len(b[0]) + n : d[0][i] = c + (i - Len(b[0])) - 1
<1> DEFINE s == [k \in 1 .. n |-> c + k - 1]
           e == b[0] \o s
<1>1. b[0] \in Seq(Nat) BY ZeroIsBox
<1>2. s \in Seq(Nat) /\ Len(s) = n /\ \A k \in 1 .. n : s[k] = c + k - 1
  <2>1. s \in [1 .. n -> Nat] OBVIOUS
  <2>2. QED BY <2>1
<1> HIDE DEF s
<1>3. /\ e \in Seq(Nat) /\ Len(e) = Len(b[0]) + Len(s) /\ Len(b[0]) \in Nat
      /\ \A i \in 1 .. Len(b[0]) : e[i] = b[0][i]
      /\ \A i \in Len(b[0]) + 1 .. Len(b[0]) + Len(s) : e[i] = s[i - Len(b[0])]
  BY <1>1, <1>2, ConcatAt, ZenonT(30)
<1>4. Extended(b, c, n) = [b EXCEPT ![0] = e] BY DEF Extended, s
<1> HIDE DEF e
<1>5. \A i \in Len(b[0]) + 1 .. Len(b[0]) + n : e[i] = c + (i - Len(b[0])) - 1
  <2> TAKE i \in Len(b[0]) + 1 .. Len(b[0]) + n
  <2>1. i - Len(b[0]) \in 1 .. n BY <1>3
  <2>2. QED BY <2>1, <1>2, <1>3
<1>6. QED BY <1>1, <1>2, <1>3, <1>4, <1>5, ZeroIsBox

\* The i-th place behind the first k has the number c + (i - k) - 1.
LEMMA NewPlaces ==
    ASSUME NEW k \in Nat, NEW c \in Nat, NEW n \in Nat
    PROVE  /\ \A i \in k + 1 .. k + n : c + (i - k) - 1 \in c .. c + n - 1
           /\ \A v \in c .. c + n - 1 : \E i \in k + 1 .. k + n : c + (i - k) - 1 = v
           /\ \A i, j \in Int : c + (i - k) - 1 = c + (j - k) - 1 => i = j
           /\ \A i \in Int : i > k => ~(c + (i - k) - 1 < c)
<1>1. \A v \in c .. c + n - 1 : \E i \in k + 1 .. k + n : c + (i - k) - 1 = v
  <2> TAKE v \in c .. c + n - 1
  <2>1. k + (v - c) + 1 \in k + 1 .. k + n /\ c + ((k + (v - c) + 1) - k) - 1 = v OBVIOUS
  <2>2. QED BY <2>1
<1>2. QED BY <1>1

LEMMA ExtendedIn ==
    ASSUME NEW b, NEW c, BoxesOK(b, c), NEW n \in Nat, NEW x \in Boxes, NEW v \in Nat
    PROVE  In(Extended(b, c, n), x, v) <=> In(b, x, v) \/ (x = 0 /\ v \in c .. c + n - 1)
<1> DEFINE d == Extended(b, c, n)
<1>0. b \in [Boxes -> Seq(Nat)] /\ c \in Nat BY DEF BoxesOK
<1>1. /\ d \in [Boxes -> Seq(Nat)]
      /\ \A y \in Boxes : y # 0 => d[y] = b[y]
      /\ Len(d[0]) = Len(b[0]) + n /\ Len(b[0]) \in Nat
      /\ \A i \in 1 .. Len(b[0]) : d[0][i] = b[0][i]
      /\ \A i \in Len(b[0]) + 1 .. Len(b[0]) + n : d[0][i] = c + (i - Len(b[0])) - 1
  BY <1>0, ExtendedAt, ZenonT(30)
<1> HIDE DEF d
<1>2. CASE x # 0 BY <1>1, <1>2 DEF In, d
<1>3. CASE x = 0
  <2>1. ASSUME NEW i \in 1 .. Len(d[0]), d[0][i] = v
        PROVE  In(b, 0, v) \/ v \in c .. c + n - 1
    <3>1. CASE i \in 1 .. Len(b[0]) BY <3>1, <1>1, <2>1 DEF In
    <3>2. CASE i \in Len(b[0]) + 1 .. Len(b[0]) + n
      <4>1. v = c + (i - Len(b[0])) - 1 BY <3>2, <1>1, <2>1
      <4>2. Len(b[0]) \in Nat /\ c \in Nat BY <1>0, <1>1
      <4>3. QED BY <4>1, <4>2, <3>2, NewPlaces
    <3>3. QED BY <3>1, <3>2, <1>1
  <2>2. ASSUME In(b, 0, v) PROVE In(d, 0, v)
    <3>1. PICK i \in 1 .. Len(b[0]) : b[0][i] = v BY <2>2 DEF In
    <3>2. i \in 1 .. Len(d[0]) /\ d[0][i] = v BY <3>1, <1>1
    <3>3. QED BY <3>2 DEF In
  <2>3. ASSUME v \in c .. c + n - 1 PROVE In(d, 0, v)
    <3>1. PICK i \in Len(b[0]) + 1 .. Len(b[0]) + n : c + (i - Len(b[0])) - 1 = v
      <4>1. PICK k \in Nat : k = Len(b[0]) BY <1>1
      <4>2. c \in Nat BY <1>0
      <4>3. \E i \in k + 1 .. k + n : c + (i - k) - 1 = v BY <2>3, <4>2, NewPlaces
      <4>4. QED BY <4>1, <4>3
    <3>2. d[0][i] = v /\ i \in 1 .. Len(d[0]) BY <3>1, <1>1, SMTT(30)
    <3>3. QED BY <3>2 DEF In
  <2>4. In(d, 0, v) => In(b, 0, v) \/ v \in c .. c + n - 1 BY <2>1 DEF In
  <2>5. QED BY <1>3, <2>2, <2>3, <2>4 DEF d
<1>4. QED BY <1>2, <1>3

LEMMA LoadKeepsBoxes ==
    ASSUME NEW b, NEW c, BoxesOK(b, c), NEW n \in Nat
    PROVE  BoxesOK(Extended(b, c, n), c + n)
<1> DEFINE d == Extended(b, c, n)
<1>0. b \in [Boxes -> Seq(Nat)] /\ c \in Nat BY DEF BoxesOK
<1>1. /\ d \in [Boxes -> Seq(Nat)]
      /\ \A y \in Boxes : y # 0 => d[y] = b[y]
      /\ Len(d[0]) = Len(b[0]) + n /\ Len(b[0]) \in Nat
      /\ \A i \in 1 .. Len(b[0]) : d[0][i] = b[0][i]
      /\ \A i \in Len(b[0]) + 1 .. Len(b[0]) + n : d[0][i] = c + (i - Len(b[0])) - 1
  BY <1>0, ExtendedAt
<1>2. \A x \in Boxes, v \in Nat :
        In(d, x, v) <=> In(b, x, v) \/ (x = 0 /\ v \in c .. c + n - 1)
  BY ExtendedIn
<1> HIDE DEF d
\* A place is one of b with its number, or one of a new number at the end of box 0.
<1>3. \A x \in Boxes : \A i \in 1 .. Len(d[x]) :
        /\ i \in Int
        /\ \/ i \in 1 .. Len(b[x]) /\ d[x][i] = b[x][i] /\ d[x][i] \in Nat /\ d[x][i] < c
           \/ x = 0 /\ d[x][i] = c + (i - Len(b[0])) - 1 /\ i > Len(b[0])
  <2> TAKE x \in Boxes
  <2> TAKE i \in 1 .. Len(d[x])
  <2>1. ASSUME i \in 1 .. Len(b[x]) PROVE b[x][i] \in Nat /\ b[x][i] < c
    <3>1. b[x] \in Seq(Nat) BY <1>0
    <3>2. b[x][i] \in Nat BY <2>1, <3>1
    <3>3. In(b, x, b[x][i]) BY <2>1 DEF In
    <3>4. QED BY <3>2, <3>3 DEF BoxesOK
  <2>2. CASE x # 0 BY <1>1, <2>1, <2>2
  <2>3. CASE x = 0
    <3>1. CASE i \in 1 .. Len(b[0]) BY <3>1, <1>1, <2>1, <2>3
    <3>2. CASE i \in Len(b[0]) + 1 .. Len(b[0]) + n BY <3>2, <1>1, <2>3
    <3>3. QED BY <3>1, <3>2, <1>1, <2>3
  <2>4. QED BY <2>2, <2>3
<1>4. \A x, y \in Boxes : \A i \in 1 .. Len(d[x]), j \in 1 .. Len(d[y]) :
        d[x][i] = d[y][j] => x = y /\ i = j
  <2> SUFFICES ASSUME NEW x \in Boxes, NEW y \in Boxes, NEW i \in 1 .. Len(d[x]),
                      NEW j \in 1 .. Len(d[y]), d[x][i] = d[y][j]
               PROVE  x = y /\ i = j
    OBVIOUS
  <2>1. i \in Int /\ \/ i \in 1 .. Len(b[x]) /\ d[x][i] = b[x][i] /\ d[x][i] \in Nat /\ d[x][i] < c
                     \/ x = 0 /\ d[x][i] = c + (i - Len(b[0])) - 1 /\ i > Len(b[0])
    BY <1>3
  <2>2. j \in Int /\ \/ j \in 1 .. Len(b[y]) /\ d[y][j] = b[y][j] /\ d[y][j] \in Nat /\ d[y][j] < c
                     \/ y = 0 /\ d[y][j] = c + (j - Len(b[0])) - 1 /\ j > Len(b[0])
    BY <1>3
  <2>3. CASE i \in 1 .. Len(b[x]) /\ d[x][i] = b[x][i] /\ j \in 1 .. Len(b[y]) /\ d[y][j] = b[y][j]
    <3>1. b[x][i] = b[y][j] BY <2>3
    <3>2. QED BY <2>3, <3>1 DEF BoxesOK
  <2>4. CASE /\ x = 0 /\ d[x][i] = c + (i - Len(b[0])) - 1
             /\ y = 0 /\ d[y][j] = c + (j - Len(b[0])) - 1
    <3>1. Len(b[0]) \in Nat /\ c \in Nat /\ i \in Int /\ j \in Int BY <1>0, <1>1, <2>1, <2>2
    <3>2. c + (i - Len(b[0])) - 1 = c + (j - Len(b[0])) - 1 BY <2>4
    <3>3. QED BY <2>4, <3>1, <3>2, NewPlaces
  <2>5. ~(i > Len(b[0]) /\ d[x][i] = c + (i - Len(b[0])) - 1 /\ d[x][i] < c)
    <3>1. PICK k \in Nat : k = Len(b[0]) BY <1>1
    <3>2. c \in Nat /\ i \in Int BY <1>0, <2>1
    <3>3. i > k => ~(c + (i - k) - 1 < c) BY <3>2
    <3>4. QED BY <3>1, <3>3
  <2>6. ~(j > Len(b[0]) /\ d[y][j] = c + (j - Len(b[0])) - 1 /\ d[y][j] < c)
    <3>1. PICK k \in Nat : k = Len(b[0]) BY <1>1
    <3>2. c \in Nat /\ j \in Int BY <1>0, <2>2
    <3>3. j > k => ~(c + (j - k) - 1 < c) BY <3>2
    <3>4. QED BY <3>1, <3>3
  <2>7. QED BY <2>1, <2>2, <2>3, <2>4, <2>5, <2>6
<1>5. \A x \in Boxes, v \in Nat : In(d, x, v) => v < c + n BY <1>0, <1>2 DEF BoxesOK
<1>6. QED BY <1>0, <1>1, <1>4, <1>5 DEF BoxesOK, d

LEMMA LoadLosesNone ==
    ASSUME NEW b, NEW c, BoxesOK(b, c), NEW n \in Nat
    PROVE  Lost(Extended(b, c, n), c + n) = Lost(b, c)
<1>1. c \in Nat /\ \A x \in Boxes, v \in Nat : In(b, x, v) => v < c BY DEF BoxesOK
<1>2. \A x \in Boxes, v \in Nat :
        In(Extended(b, c, n), x, v) <=> In(b, x, v) \/ (x = 0 /\ v \in c .. c + n - 1)
  BY ExtendedIn
<1>3. \A v : v \in 0 .. (c + n) - 1 <=> v \in 0 .. c - 1 \/ v \in c .. c + n - 1 BY <1>1
<1>4. \A v \in 0 .. c - 1 : v \in Nat /\ v \notin c .. c + n - 1 BY <1>1
<1>5. \A v \in c .. c + n - 1 : v \in Nat BY <1>1
<1>6. \A v \in c .. c + n - 1 : v \notin Lost(Extended(b, c, n), c + n)
  BY <1>2, <1>5, ZeroIsBox DEF Lost
<1>7. \A v \in 0 .. c - 1 : v \in Lost(Extended(b, c, n), c + n) <=> v \in Lost(b, c)
  BY <1>2, <1>3, <1>4 DEF Lost
<1>8. \A v : /\ v \in Lost(Extended(b, c, n), c + n) => v \in 0 .. (c + n) - 1
             /\ v \in Lost(b, c) => v \in 0 .. c - 1
  BY DEF Lost
<1>9. QED BY <1>3, <1>6, <1>7, <1>8

-----------------------------------------------------------------------------
(* Offsets and the index *)

LEMMA OffsetIs ==
    ASSUME text \in Seq(Lines), NEW k \in 1 .. Len(text) + 1
    PROVE  /\ OffsetOf(k) = (k - 1) + 3 * Cardinality(Ahead(text, k))
           /\ k \in Int /\ Len(text) \in Nat /\ IsFiniteSet(Ahead(text, k))
           /\ Cardinality(Ahead(text, k)) \in Nat /\ OffsetOf(k) \in Nat
<1>1. Len(text) \in Nat /\ k \in Int OBVIOUS
<1>2. {j \in 1 .. k - 1 : text[j] \in Words} = Ahead(text, k) BY <1>1 DEF Ahead, VsIn
<1>3. Cardinality(Ahead(text, k)) \in Nat /\ IsFiniteSet(Ahead(text, k)) BY <1>1, VsFinite
<1>4. OffsetOf(k) = (k - 1) + 3 * Cardinality(Ahead(text, k)) BY <1>2 DEF OffsetOf
<1>5. QED BY <1>1, <1>3, <1>4

\* Where a line ends the next one begins.
LEMMA OffsetNext ==
    ASSUME text \in Seq(Lines), NEW k \in 1 .. Len(text)
    PROVE  OffsetOf(k) + SizeOf(text[k]) = OffsetOf(k + 1)
<1>1. Len(text) \in Nat /\ k \in 1 .. Len(text) + 1 /\ k + 1 \in 1 .. Len(text) + 1 OBVIOUS
<1>2. /\ OffsetOf(k) = (k - 1) + 3 * Cardinality(Ahead(text, k))
      /\ Cardinality(Ahead(text, k)) \in Nat /\ IsFiniteSet(Ahead(text, k))
  BY <1>1, OffsetIs
<1>3. /\ OffsetOf(k + 1) = ((k + 1) - 1) + 3 * Cardinality(Ahead(text, k + 1))
      /\ Cardinality(Ahead(text, k + 1)) \in Nat
  BY <1>1, OffsetIs
<1>4. k \notin Ahead(text, k) BY <1>1 DEF Ahead
<1>5. CASE text[k] \in Words
  <2>1. Ahead(text, k + 1) = Ahead(text, k) \cup {k} BY <1>1, <1>5 DEF Ahead, VsIn
  <2>2. Cardinality(Ahead(text, k + 1)) = Cardinality(Ahead(text, k)) + 1
    BY <1>2, <1>4, <2>1, FS_AddElement
  <2>3. SizeOf(text[k]) = 4 BY <1>5 DEF SizeOf
  <2>4. QED BY <1>1, <1>2, <1>3, <2>2, <2>3
<1>6. CASE text[k] \notin Words
  <2>1. Ahead(text, k + 1) = Ahead(text, k) BY <1>1, <1>6 DEF Ahead, VsIn
  <2>2. SizeOf(text[k]) = 1 BY <1>6 DEF SizeOf
  <2>3. QED BY <1>1, <1>2, <1>3, <2>1, <2>2
<1>7. QED BY <1>5, <1>6

LEMMA OffsetsAscend ==
    ASSUME text \in Seq(Lines), NEW j \in 1 .. Len(text) + 1, NEW k \in 1 .. Len(text) + 1, j <= k
    PROVE  OffsetOf(j) <= OffsetOf(k)
<1>1. /\ OffsetOf(j) = (j - 1) + 3 * Cardinality(Ahead(text, j))
      /\ Cardinality(Ahead(text, j)) \in Nat /\ j \in Int
  BY OffsetIs
<1>2. /\ OffsetOf(k) = (k - 1) + 3 * Cardinality(Ahead(text, k))
      /\ Cardinality(Ahead(text, k)) \in Nat /\ k \in Int /\ IsFiniteSet(Ahead(text, k))
  BY OffsetIs
<1>3. Ahead(text, j) \in SUBSET Ahead(text, k) BY <1>1, <1>2 DEF Ahead, VsIn
<1>4. Cardinality(Ahead(text, j)) <= Cardinality(Ahead(text, k)) BY <1>2, <1>3, FS_Subset
<1>5. QED BY <1>1, <1>2, <1>4

\* The offset of a VS leads to it, from its first byte on.
LEMMA ItemAtVs ==
    ASSUME text \in Seq(Lines), NEW k \in VsIn(text)
    PROVE  /\ Item(OffsetOf(k)) = [word |-> text[k], whole |-> TRUE]
           /\ OffsetOf(k) \in Nat /\ OffsetOf(k) < Bytes
<1> DEFINE o == OffsetOf(k)
           L(j) == OffsetOf(j) <= o /\ o < OffsetOf(j) + SizeOf(text[j])
<1>1. /\ k \in 1 .. Len(text) /\ text[k] \in Words /\ Len(text) \in Nat
      /\ DOMAIN text = 1 .. Len(text)
  BY DEF VsIn
<1>2. \A j \in 1 .. Len(text) : OffsetOf(j) + SizeOf(text[j]) = OffsetOf(j + 1) BY OffsetNext
<1>3. \A j \in 1 .. Len(text) + 1 : OffsetOf(j) \in Nat BY OffsetIs
<1>4. o < OffsetOf(k) + SizeOf(text[k]) /\ o <= OffsetOf(k)
  <2>1. SizeOf(text[k]) = 4 BY <1>1 DEF SizeOf
  <2>2. o \in Nat BY <1>1, <1>3
  <2>3. QED BY <2>1, <2>2
<1>5. \A j \in 1 .. Len(text) : L(j) => j = k
  <2> TAKE j \in 1 .. Len(text)
  <2>1. o \in Nat /\ OffsetOf(j) \in Nat /\ OffsetOf(j + 1) \in Nat /\ OffsetOf(k + 1) \in Nat
    BY <1>1, <1>3
  <2>2. ASSUME j < k PROVE ~L(j)
    <3>1. j + 1 \in 1 .. Len(text) + 1 /\ j + 1 <= k BY <1>1, <2>2
    <3>2. OffsetOf(j + 1) <= o BY <1>1, <3>1, OffsetsAscend
    <3>3. QED BY <1>2, <2>1, <3>2
  <2>3. ASSUME k < j PROVE ~L(j)
    <3>1. k + 1 \in 1 .. Len(text) + 1 /\ k + 1 <= j BY <1>1, <2>3
    <3>2. OffsetOf(k + 1) <= OffsetOf(j) BY <1>1, <3>1, OffsetsAscend
    <3>3. o < OffsetOf(k + 1) BY <1>1, <1>2, <1>4
    <3>4. QED BY <2>1, <3>2, <3>3
  <2>4. QED BY <1>1, <2>2, <2>3
<1>6. L(k) BY <1>1, <1>3, <1>4
<1>7. (CHOOSE j \in DOMAIN text : L(j)) = k
  <2> HIDE DEF L
  <2> QED BY <1>1, <1>5, <1>6
<1>8. o - OffsetOf(k) = 0 BY <1>1, <1>3
<1>9. Item(o) = [word |-> text[k], whole |-> TRUE]
  <2> DEFINE c == CHOOSE j \in DOMAIN text : L(j)
  <2>1. Item(o) = IF text[c] \in Words /\ o - OffsetOf(c) < 2
                  THEN [word |-> text[c], whole |-> o - OffsetOf(c) = 0] ELSE Junk
    BY Zenon DEF Item
  <2>2. c = k BY <1>7
  <2> HIDE DEF c, o
  <2>3. text[c] \in Words /\ o - OffsetOf(c) < 2 BY <1>1, <1>8, <2>2
  <2>4. (o - OffsetOf(c) = 0) = TRUE BY <1>8, <2>2
  <2>5. Item(o) = [word |-> text[c], whole |-> TRUE] BY <2>1, <2>3, <2>4, Zenon
  <2>6. QED BY <2>2, <2>5
<1>10. o < Bytes
  <2>1. OffsetOf(k + 1) <= OffsetOf(Len(text) + 1) BY <1>1, OffsetsAscend
  <2>2. o < OffsetOf(k + 1) BY <1>1, <1>2, <1>4
  <2>3. o \in Nat /\ OffsetOf(k + 1) \in Nat /\ OffsetOf(Len(text) + 1) \in Nat BY <1>1, <1>3
  <2>4. QED BY <2>1, <2>2, <2>3 DEF Bytes
<1>11. o \in Nat BY <1>1, <1>3
<1>12. QED BY <1>9, <1>10, <1>11

\* And never to a '='.
LEMMA NotAtEquals ==
    ASSUME text \in Seq(Lines), NEW k \in VsIn(text)
    PROVE  ~AtEquals(OffsetOf(k))
<1> SUFFICES ASSUME NEW j \in VsIn(text), OffsetOf(k) = OffsetOf(j) + 2 PROVE FALSE
  BY DEF AtEquals, VsLines, VsIn
<1>1. /\ k \in 1 .. Len(text) /\ j \in 1 .. Len(text) /\ Len(text) \in Nat
      /\ SizeOf(text[k]) = 4 /\ SizeOf(text[j]) = 4
  BY DEF VsIn, SizeOf
<1>02. /\ k + 1 \in 1 .. Len(text) + 1 /\ j + 1 \in 1 .. Len(text) + 1
       /\ k \in 1 .. Len(text) + 1 /\ j \in 1 .. Len(text) + 1
  BY <1>1
<1>2. /\ OffsetOf(k) \in Nat /\ OffsetOf(j) \in Nat
      /\ OffsetOf(k) + 4 = OffsetOf(k + 1) /\ OffsetOf(j) + 4 = OffsetOf(j + 1)
      /\ OffsetOf(k + 1) \in Nat /\ OffsetOf(j + 1) \in Nat
  BY <1>1, <1>02, OffsetIs, OffsetNext, ZenonT(30)
<1>3. CASE j < k
  <2>1. j + 1 \in 1 .. Len(text) + 1 /\ k \in 1 .. Len(text) + 1 /\ j + 1 <= k BY <1>1, <1>3
  <2>2. OffsetOf(j + 1) <= OffsetOf(k) BY <2>1, OffsetsAscend
  <2>3. QED BY <1>2, <2>2
<1>4. CASE k <= j
  <2>1. OffsetOf(k) <= OffsetOf(j) BY <1>1, <1>4, OffsetsAscend
  <2>2. QED BY <1>2, <2>1
<1>5. QED BY <1>1, <1>3, <1>4

LEMMA IndexedIs ==
    ASSUME text \in Seq(Lines)
    PROVE  /\ Indexed \in Seq(Nat) /\ Len(Indexed) = Cardinality(VsIn(text))
           /\ \A n \in 1 .. Len(Indexed) : \E k \in VsIn(text) :
                 Cardinality(Ahead(text, k)) = n - 1 /\ Indexed[n] = OffsetOf(k)
<1> DEFINE c == Cardinality(VsIn(text))
<1>1. VsLines = VsIn(text) BY DEF VsLines, VsIn
<1>2. c \in Nat BY VsFinite
<1>3. \A k \in VsIn(text) :
        Cardinality({j \in VsIn(text) : j <= k}) = Cardinality(Ahead(text, k)) + 1
  <2> TAKE k \in VsIn(text)
  <2>1. k \in Int /\ VsIn(text) \in SUBSET Int BY DEF VsIn
  <2>2. {j \in VsIn(text) : j <= k} = Ahead(text, k) \cup {k} BY <2>1 DEF Ahead
  <2>3. k \notin Ahead(text, k) BY <2>1 DEF Ahead
  <2>4. QED BY <2>1, <2>2, <2>3, VsFinite, FS_AddElement
<1>4. \A n \in 1 .. c : \E k \in VsIn(text) : Cardinality({j \in VsIn(text) : j <= k}) = n
  <2> TAKE n \in 1 .. c
  <2>1. n - 1 \in 0 .. c - 1 BY <1>2
  <2>2. PICK k \in VsIn(text) : Cardinality(Ahead(text, k)) = n - 1 BY <2>1, EveryNumber
  <2>3. QED BY <1>3, <2>2
<1> DEFINE K(n) == CHOOSE k \in VsIn(text) : Cardinality({j \in VsIn(text) : j <= k}) = n
<1>5. \A n \in 1 .. c : K(n) \in VsIn(text) /\ Cardinality(Ahead(text, K(n))) = n - 1
  <2> TAKE n \in 1 .. c
  <2>1. K(n) \in VsIn(text) /\ Cardinality({j \in VsIn(text) : j <= K(n)}) = n BY <1>4
  <2> HIDE DEF K
  <2>2. Cardinality(Ahead(text, K(n))) + 1 = n BY <1>3, <2>1
  <2>3. K(n) \in Int BY <2>1 DEF VsIn
  <2>4. Cardinality(Ahead(text, K(n))) \in Nat BY <2>3, VsFinite
  <2>5. QED BY <2>1, <2>2, <2>4
<1>6. Indexed = [n \in 1 .. c |-> OffsetOf(K(n))] BY <1>1 DEF Indexed
<1> HIDE DEF K
<1>7. \A n \in 1 .. c : OffsetOf(K(n)) \in Nat BY <1>5, ItemAtVs
<1> HIDE DEF c
<1>8. Indexed \in [1 .. c -> Nat] BY <1>6, <1>7
<1>9. Indexed \in Seq(Nat) /\ Len(Indexed) = c BY <1>2, <1>8
<1>10. \A n \in 1 .. c : Indexed[n] = OffsetOf(K(n)) BY <1>6
<1>11. QED BY <1>5, <1>9, <1>10 DEF c

\* An index of the text as it is leads to the VSes, one by one.
LEMMA UpToDateLeads ==
    ASSUME text \in Seq(Lines), NEW index \in Seq(Nat), UpToDate(index)
    PROVE  /\ \A n \in 1 .. Len(index) : index[n] < Bytes
           /\ \A n \in 1 .. Len(index) : ~AtEquals(index[n])
           /\ \A n \in 0 .. Len(index) - 1 : \E w \in Words :
                 Item(index[n + 1]) = [word |-> w, whole |-> TRUE] /\ Has(text, n, w)
<1>1. /\ Indexed \in Seq(Nat)
      /\ \A n \in 1 .. Len(Indexed) : \E k \in VsIn(text) :
            Cardinality(Ahead(text, k)) = n - 1 /\ Indexed[n] = OffsetOf(k)
  BY IndexedIs
<1>2. Len(index) <= Len(Indexed) /\ \A n \in 1 .. Len(index) : index[n] = Indexed[n]
  <2>1. Len(index) <= Len(Indexed) /\ SubSeq(index, 1, Len(index)) = SubSeq(Indexed, 1, Len(index))
    BY DEF UpToDate, IsPrefix
  <2>2. \A n \in 1 .. Len(index) : SubSeq(index, 1, Len(index))[n] = index[n] OBVIOUS
  <2>3. \A n \in 1 .. Len(index) : SubSeq(Indexed, 1, Len(index))[n] = Indexed[n]
    BY <1>1, <2>1
  <2>4. QED BY <2>1, <2>2, <2>3
<1>3. ASSUME NEW n \in 1 .. Len(index)
      PROVE  /\ index[n] < Bytes /\ ~AtEquals(index[n])
             /\ \E w \in Words :
                  Item(index[n]) = [word |-> w, whole |-> TRUE] /\ Has(text, n - 1, w)
  <2>1. n \in 1 .. Len(Indexed) BY <1>1, <1>2
  <2>2. PICK k \in VsIn(text) : Cardinality(Ahead(text, k)) = n - 1 /\ Indexed[n] = OffsetOf(k)
    BY <1>1, <2>1
  <2>3. index[n] = OffsetOf(k) BY <1>2, <2>2
  <2>4. Item(OffsetOf(k)) = [word |-> text[k], whole |-> TRUE] /\ OffsetOf(k) < Bytes
        /\ ~AtEquals(OffsetOf(k))
    BY ItemAtVs, NotAtEquals
  <2>5. text[k] \in Words /\ Has(text, n - 1, text[k]) BY <2>2 DEF Has, VsIn
  <2>6. QED BY <2>3, <2>4, <2>5
<1>4. \A n \in 0 .. Len(index) - 1 : n + 1 \in 1 .. Len(index) /\ (n + 1) - 1 = n OBVIOUS
<1>5. QED BY <1>3, <1>4

-----------------------------------------------------------------------------
(* The invariant *)

Whole(w) == [word |-> w, whole |-> TRUE]

\* Every item was made of a VS, and those in the boxes are still where they were.
ItemsRight(t, c, items) ==
    /\ \A n \in DOMAIN items : \E w \in Words : items[n] = Whole(w)
    /\ \A n \in 0 .. c - 1, w \in Words : items[n] = Whole(w) => Has(t, n, w)

\* A program at its prompt has an item for every number in a box.
RunOK(r, items, b) ==
    /\ r \in {"off", "up", "wild", "hangs"}
    /\ r = "up" => \E k \in Nat : /\ DOMAIN items = 0 .. k - 1
                                  /\ \A l \in Boxes, n \in Nat : In(b, l, n) => n < k

LossesOK(b, c, k) == k \in Nat /\ Cardinality(Lost(b, c)) <= k

IndexOK(x) == x # NoIndex => Len(x) <= DefVsNum

Undisturbed(t, x, c, b, r, items, h) ==
    /\ r \notin {"wild", "hangs"} /\ Present(t, c) /\ Learnt(t, b, h) /\ IndexOK(x)
    /\ r = "up" => ItemsRight(t, c, items) /\ \A n \in 0 .. c - 1 : n \in DOMAIN items

VsInv ==
    /\ TextOK(text) /\ BoxesOK(boxes, vs_cur_total)
    /\ home \in [Words -> Boxes \cup {NoBox}] /\ disturbed \in BOOLEAN
    /\ idx = NoIndex \/ idx \in Seq(Nat)
    /\ RunOK(run, itblk, boxes) /\ LossesOK(boxes, vs_cur_total, kills)
    /\ disturbed \/ Undisturbed(text, idx, vs_cur_total, boxes, run, itblk, home)

LEMMA WholeIsNotJunk == ASSUME NEW w PROVE Whole(w) # Junk
<1>1. Whole(w).whole = TRUE /\ Junk.whole = FALSE BY DEF Whole, Junk
<1>2. QED BY <1>1

LEMMA WholeWord == ASSUME NEW w PROVE Whole(w).word = w
  BY DEF Whole

LEMMA BeforeIs ==
    ASSUME TextOK(text)
    PROVE  /\ VsLines = VsIn(text) /\ Cardinality(VsLines) \in Nat
           /\ \A k \in Int : Before(k) = Cardinality(Ahead(text, k))
<1>1. VsLines = VsIn(text) BY DEF VsLines, VsIn, TextOK
<1>2. QED BY <1>1, VsFinite DEF Before, Ahead, TextOK

LEMMA VsAre == ASSUME NEW n, NEW w, TextOK(text) PROVE IsVs(n, w) <=> Has(text, n, w)
<1>1. \A k \in VsIn(text) : k \in Int BY DEF VsIn
<1>2. QED BY <1>1, BeforeIs DEF IsVs, Has

LEMMA HeldAre ==
    ASSUME BoxesOK(boxes, vs_cur_total)
    PROVE  /\ \A n : n \in Held <=> n \in Nat /\ \E l \in Boxes : In(boxes, l, n)
           /\ Held \subseteq 0 .. vs_cur_total - 1
           /\ (0 .. vs_cur_total - 1) \ Held = Lost(boxes, vs_cur_total)
<1>1. \A l \in Boxes : boxes[l] \in Seq(Nat) BY DEF BoxesOK
<1>2. \A l \in Boxes : Range(boxes[l]) = {n \in Nat : In(boxes, l, n)}
  BY <1>1 DEF Range, In
<1>3. \A n : n \in Held <=> n \in Nat /\ \E l \in Boxes : In(boxes, l, n)
  BY <1>2 DEF Held
<1>4. vs_cur_total \in Nat /\ \A n \in Held : n < vs_cur_total BY <1>3 DEF BoxesOK
<1>5. Held \subseteq 0 .. vs_cur_total - 1 BY <1>3, <1>4
<1>6. (0 .. vs_cur_total - 1) \ Held = Lost(boxes, vs_cur_total) BY <1>3, <1>4 DEF Lost
<1>7. QED BY <1>3, <1>5, <1>6

LEMMA InitInv == VsInit => VsInv
<1> SUFFICES ASSUME VsInit PROVE VsInv
  OBVIOUS
<1>1. /\ text = <<>> /\ idx = NoIndex /\ vs_cur_total = 0 /\ boxes = [l \in Boxes |-> <<>>]
      /\ run = "off" /\ home = [w \in Words |-> NoBox] /\ disturbed = FALSE
      /\ kills = 0
  BY DEF VsInit
<1>2. TextOK(text) BY <1>1 DEF TextOK
<1>3. \A l \in Boxes, n \in Nat : ~In(boxes, l, n) BY <1>1 DEF In
<1>4. BoxesOK(boxes, vs_cur_total) BY <1>1, <1>3 DEF BoxesOK
<1>5. \A w \in Words : home[w] \notin Boxes BY <1>1 DEF Boxes, NoBox
<1>6. Learnt(text, boxes, home) BY <1>3, <1>5 DEF Learnt
<1>7. Present(text, vs_cur_total) BY <1>1 DEF Present
<1>8. LossesOK(boxes, vs_cur_total, kills)
  <2>1. Lost(boxes, vs_cur_total) = {} BY <1>1 DEF Lost
  <2>2. Cardinality(Lost(boxes, vs_cur_total)) = 0 BY <2>1, FS_EmptySet
  <2>3. QED BY <1>1, <2>2 DEF LossesOK
<1>9. QED BY <1>1, <1>2, <1>4, <1>6, <1>7, <1>8 DEF VsInv, RunOK, Undisturbed, IndexOK

-----------------------------------------------------------------------------
(* Edits and the index file *)

LEMMA SteadyUndisturbed ==
    ASSUME NEW t \in Seq(Lines), NEW u \in Seq(Lines), NEW x, NEW c, NEW b, NEW r, NEW items, NEW h,
           BoxesOK(b, c), Steady(t, u, c), Undisturbed(t, x, c, b, r, items, h)
    PROVE  Undisturbed(u, x, c, b, r, items, h)
<1>1. Present(u, c) BY SteadyPresent DEF Undisturbed
<1>2. Learnt(u, b, h) BY SteadyLearnt DEF Undisturbed
<1>3. ItemsRight(t, c, items) => ItemsRight(u, c, items) BY DEF ItemsRight, Steady
<1>4. QED BY <1>1, <1>2, <1>3 DEF Undisturbed

LEMMA InsertLineInv == ASSUME VsInv, InsertLine PROVE VsInv'
<1>1. PICK k \in 1 .. Len(text) + 1, line \in (Words \ Range(text)) \cup {Comment} :
        /\ text' = Inserted(k, line)
        /\ disturbed' = (disturbed \/ (line \in Words /\ Before(k) < vs_cur_total))
  BY DEF InsertLine
<1>2. UNCHANGED <<idx, vs_cur_total, boxes, run, itblk, home, kills>> BY DEF InsertLine
<1>3. TextOK(text) /\ BoxesOK(boxes, vs_cur_total) BY DEF VsInv
<1>4. text \in Seq(Lines) /\ DOMAIN text = 1 .. Len(text) /\ Len(text) \in Nat BY <1>3 DEF TextOK
<1>5. line \in Lines /\ (line \in Words => \A p \in 1 .. Len(text) : text[p] # line)
  BY <1>4, VsFilesAssumption DEF Lines, Range
<1>6. text' = Spliced(text, k, line) BY <1>1 DEF Inserted, Spliced
<1>7. TextOK(text') BY <1>3, <1>5, <1>6, InsertKeepsText
<1>8. text' \in Seq(Lines) BY <1>7 DEF TextOK
<1>9. disturbed \in BOOLEAN /\ disturbed' \in BOOLEAN BY <1>1 DEF VsInv
<1>10. ASSUME ~disturbed' PROVE Undisturbed(text', idx, vs_cur_total, boxes, run, itblk, home)
  <2>1. Undisturbed(text, idx, vs_cur_total, boxes, run, itblk, home) BY <1>1, <1>10 DEF VsInv
  <2>2. vs_cur_total \in Nat BY <1>3 DEF BoxesOK
  <2>3. Steady(text, text', vs_cur_total)
    <3>1. CASE line \in Words
      <4>01. k \in Int BY <1>4
      <4>02. Before(k) = Cardinality(Ahead(text, k)) BY <1>3, <4>01, BeforeIs
      <4>1. ~(Cardinality(Ahead(text, k)) < vs_cur_total) BY <1>1, <1>10, <3>1, <4>02
      <4>2. QED BY <1>4, <1>5, <1>6, <2>2, <4>1, WordInserted
    <3>2. CASE line = Comment BY <3>2, <1>4, <1>6, <2>2, CommentInserted
    <3>3. QED BY <3>1, <3>2
  <2>4. QED BY <1>3, <1>4, <1>8, <2>1, <2>3, SteadyUndisturbed
<1>11. QED BY <1>2, <1>7, <1>9, <1>10 DEF VsInv

LEMMA RemoveLineInv == ASSUME VsInv, RemoveLine PROVE VsInv'
<1>1. PICK k \in DOMAIN text :
        /\ text' = RemoveAt(text, k)
        /\ disturbed' = (disturbed \/ (text[k] \in Words /\ Before(k) < vs_cur_total))
        /\ home' = [w \in Words |-> IF w = text[k] THEN NoBox ELSE home[w]]
  BY DEF RemoveLine
<1>2. UNCHANGED <<idx, vs_cur_total, boxes, run, itblk, kills>> BY DEF RemoveLine
<1>3. TextOK(text) /\ BoxesOK(boxes, vs_cur_total) /\ home \in [Words -> Boxes \cup {NoBox}]
  BY DEF VsInv
<1>4. text \in Seq(Lines) /\ k \in 1 .. Len(text) BY <1>3 DEF TextOK
<1>5. TextOK(text') BY <1>1, <1>3, <1>4, RemoveKeepsText
<1>6. text' \in Seq(Lines) BY <1>5 DEF TextOK
<1>7. disturbed \in BOOLEAN /\ disturbed' \in BOOLEAN BY <1>1 DEF VsInv
<1>8. home' \in [Words -> Boxes \cup {NoBox}] BY <1>1, <1>3
<1>9. ASSUME ~disturbed' PROVE Undisturbed(text', idx, vs_cur_total, boxes, run, itblk, home')
  <2>1. Undisturbed(text, idx, vs_cur_total, boxes, run, itblk, home) BY <1>1, <1>9 DEF VsInv
  <2>2. vs_cur_total \in Nat BY <1>3 DEF BoxesOK
  <2>03. text[k] \in Words => ~(Cardinality(Ahead(text, k)) < vs_cur_total)
    <3>1. k \in Int BY <1>4
    <3>2. Before(k) = Cardinality(Ahead(text, k)) BY <1>3, <3>1, BeforeIs
    <3>3. QED BY <1>1, <1>9, <3>2
  <2>3. text[k] \in Words => home[text[k]] = NoBox
    <3> SUFFICES ASSUME text[k] \in Words PROVE home[text[k]] = NoBox
      OBVIOUS
    <3>1. k \in VsIn(text) BY <1>4 DEF VsIn
    <3>2. Learnt(text, boxes, home) BY <2>1 DEF Undisturbed
    <3>3. QED BY <1>3, <2>03, <3>1, <3>2, UnlearntBehind
  <2>4. home' = home
    <3>1. \A w \in Words : (IF w = text[k] THEN NoBox ELSE home[w]) = home[w] BY <2>3
    <3>2. QED BY <1>1, <1>3, <3>1
  <2>5. Steady(text, text', vs_cur_total)
    <3>1. CASE text[k] \in Words
      <4>1. QED BY <1>1, <1>4, <2>2, <2>03, <3>1, WordRemoved
    <3>2. CASE text[k] \notin Words BY <3>2, <1>1, <1>4, <2>2, CommentRemoved
    <3>3. QED BY <3>1, <3>2
  <2>6. QED BY <1>3, <1>4, <1>6, <2>1, <2>4, <2>5, SteadyUndisturbed
<1>10. QED BY <1>2, <1>5, <1>7, <1>8, <1>9 DEF VsInv

LEMMA RemoveIndexInv == ASSUME VsInv, RemoveIndex PROVE VsInv'
<1>1. idx' = NoIndex /\ UNCHANGED <<text, vs_cur_total, boxes, run, itblk, home, disturbed, kills>>
  BY DEF RemoveIndex
<1>2. QED BY <1>1 DEF VsInv, Undisturbed, IndexOK

-----------------------------------------------------------------------------
(* Starts, "init" and ends *)

LEMMA BytesNat == ASSUME text \in Seq(Lines) PROVE Bytes \in Nat
<1>1. Len(text) + 1 \in 1 .. Len(text) + 1 OBVIOUS
<1>2. QED BY <1>1, OffsetIs DEF Bytes

\* An index within its file, whoever made it and when.
LEMMA StartInv ==
    ASSUME VsInv, NEW index, index = NoIndex \/ index \in Seq(Nat), disturbed \/ IndexOK(index),
           ltsys_init(index), idx' = index, UNCHANGED <<text, vs_cur_total, boxes, home, kills>>
    PROVE  VsInv'
<1>1. /\ TextOK(text) /\ BoxesOK(boxes, vs_cur_total) /\ disturbed \in BOOLEAN
      /\ home \in [Words -> Boxes \cup {NoBox}] /\ LossesOK(boxes, vs_cur_total, kills)
      /\ disturbed \/ Undisturbed(text, idx, vs_cur_total, boxes, run, itblk, home)
  BY DEF VsInv
<1>2. text \in Seq(Lines) /\ vs_cur_total \in Nat BY <1>1 DEF TextOK, BoxesOK
<1>4. CASE index = NoIndex \/ Bytes = 0
  <2>1. run' = "off" /\ UNCHANGED disturbed BY <1>4 DEF ltsys_init
  <2>2. RunOK(run', itblk', boxes) BY <2>1 DEF RunOK
  <2>3. disturbed \/ Undisturbed(text, index, vs_cur_total, boxes, run', itblk', home)
    BY <1>1, <2>1 DEF Undisturbed
  <2>4. QED BY <1>1, <2>1, <2>2, <2>3 DEF VsInv
<1>5. CASE index # NoIndex /\ Bytes # 0
  <2>1. Built(index) /\ disturbed' = (disturbed \/ ~UpToDate(index)) BY <1>5 DEF ltsys_init
  <2>2. index \in Seq(Nat) /\ Len(index) \in Nat /\ DOMAIN index = 1 .. Len(index) BY <1>5
  <2> DEFINE made == [n \in 0 .. Len(index) - 1 |-> Item(index[n + 1])]
  <2>3. disturbed' \in BOOLEAN BY <1>1, <2>1
  <2>4. \/ run' \in {"wild", "hangs"} /\ Misleading(index) # {}
        \/ run' = "wild" /\ WalksOff(made)
        \/ run' = "up" /\ itblk' = made /\ ~WalksOff(made)
    <3>1. CASE Misleading(index) # {} BY <2>1, <3>1 DEF Built
    <3>2. CASE Misleading(index) = {} BY <2>1, <3>2 DEF Built
    <3>3. QED BY <3>1, <3>2
  <2>5. DOMAIN made = 0 .. Len(index) - 1 OBVIOUS
  <2>6. ASSUME ~disturbed'
        PROVE  /\ \A n \in 1 .. Len(index) : index[n] < Bytes /\ ~AtEquals(index[n])
               /\ \A n \in 0 .. Len(index) - 1 : \E w \in Words :
                    made[n] = Whole(w) /\ Has(text, n, w)
               /\ vs_cur_total <= Len(index) /\ Len(index) <= DefVsNum
               /\ Undisturbed(text, idx, vs_cur_total, boxes, run, itblk, home)
    <3>1. UpToDate(index) /\ ~disturbed BY <2>1, <2>6
    <3>2. /\ \A n \in 1 .. Len(index) : index[n] < Bytes
          /\ \A n \in 1 .. Len(index) : ~AtEquals(index[n])
          /\ \A n \in 0 .. Len(index) - 1 : \E w \in Words :
                Item(index[n + 1]) = [word |-> w, whole |-> TRUE] /\ Has(text, n, w)
      BY <1>2, <2>2, <3>1, UpToDateLeads
    <3>3. vs_cur_total <= Len(index) BY <3>1 DEF UpToDate
    <3>4. Len(index) <= DefVsNum BY <1>5, <3>1 DEF IndexOK
    <3>5. QED BY <1>1, <3>1, <3>2, <3>3, <3>4 DEF Whole
  <2> HIDE DEF made
  <2>7. Bytes \in Nat BY <1>2, BytesNat
  <2>8. ASSUME ~disturbed' PROVE run' = "up" /\ itblk' = made
    <3>1. Misleading(index) = {}
      <4>1. \A n \in DOMAIN index : /\ index[n] \in Nat /\ index[n] < Bytes
                                    /\ ~AtEquals(index[n]) /\ n <= DefVsNum /\ n \in Nat
        BY <2>2, <2>6, <2>8, VsFilesAssumption
      <4>2. \A n \in DOMAIN index : ~(n > DefVsNum) /\ ~(index[n] >= Bytes)
        BY <4>1, <2>7, VsFilesAssumption
      <4>3. QED BY <4>1, <4>2 DEF Misleading
    <3>2. ~WalksOff(made)
      <4>1. \A n \in Held : n \in DOMAIN made
        <5>1. \A n \in Held : n \in 0 .. vs_cur_total - 1 BY <1>1, HeldAre
        <5>2. QED BY <1>2, <2>2, <2>5, <2>6, <2>8, <5>1
      <4>2. \A n \in DOMAIN made : made[n] # Junk BY <2>5, <2>6, <2>8, WholeIsNotJunk
      <4>3. QED BY <4>1, <4>2 DEF WalksOff
    <3>3. QED BY <2>4, <3>1, <3>2
  <2>9. RunOK(run', itblk', boxes)
    <3>1. CASE run' \in {"wild", "hangs"} BY <3>1 DEF RunOK
    <3>2. CASE run' = "up" /\ itblk' = made /\ ~WalksOff(made)
      <4>1. \A l \in Boxes, n \in Nat : In(boxes, l, n) => n \in DOMAIN made
        BY <1>1, <3>2, HeldAre DEF WalksOff
      <4>2. \A l \in Boxes, n \in Nat : In(boxes, l, n) => n < Len(index)
        BY <2>2, <2>5, <4>1
      <4>3. QED BY <2>2, <2>5, <3>2, <4>2 DEF RunOK
    <3>3. QED BY <2>4, <3>1, <3>2
  <2>10. ASSUME ~disturbed'
         PROVE  Undisturbed(text, index, vs_cur_total, boxes, run', itblk', home)
    <3>1. Present(text, vs_cur_total) /\ Learnt(text, boxes, home) BY <2>6, <2>10 DEF Undisturbed
    <3>2. IndexOK(index) BY <2>6, <2>10 DEF IndexOK
    <3>3. ItemsRight(text, vs_cur_total, made)
      <4>1. \A n \in DOMAIN made : \E w \in Words : made[n] = Whole(w) BY <2>5, <2>6, <2>10
      <4>2. ASSUME NEW n \in 0 .. vs_cur_total - 1, NEW w \in Words, made[n] = Whole(w)
            PROVE  Has(text, n, w)
        <5>1. n \in 0 .. Len(index) - 1 BY <1>2, <2>2, <2>6, <2>10
        <5>2. PICK v \in Words : made[n] = Whole(v) /\ Has(text, n, v) BY <2>6, <2>10, <5>1
        <5>3. Whole(v) = Whole(w) BY <4>2, <5>2
        <5>4. v = w BY <5>3 DEF Whole
        <5>5. QED BY <5>2, <5>4
      <4>3. QED BY <4>1, <4>2 DEF ItemsRight
    <3>4. \A n \in 0 .. vs_cur_total - 1 : n \in DOMAIN made BY <1>2, <2>2, <2>5, <2>6, <2>10
    <3>5. run' = "up" /\ itblk' = made BY <2>8, <2>10
    <3>6. QED BY <3>1, <3>2, <3>3, <3>4, <3>5 DEF Undisturbed
  <2>11. QED BY <1>1, <2>2, <2>3, <2>9, <2>10 DEF VsInv
<1>6. QED BY <1>4, <1>5

\* A kill inside cmd_mkidx, or a store behind the file, leaves offsets in the index.
LEMMA WrittenIs ==
    ASSUME text \in Seq(Lines), idx = NoIndex \/ idx \in Seq(Nat),
           NEW j \in 0 .. Len(Indexed)
    PROVE  /\ Written(j) \in Seq(Nat)
           /\ Len(Written(j)) = IF idx = NoIndex THEN 0 ELSE Len(idx)
<1> DEFINE k == IF idx = NoIndex THEN 0 ELSE Len(idx)
<1>1. k \in Nat OBVIOUS
<1>2. Indexed \in Seq(Nat) BY IndexedIs
<1>3. ASSUME NEW n \in 1 .. k PROVE (IF n <= j THEN Indexed[n] ELSE idx[n]) \in Nat
  <2>1. CASE n <= j BY <1>1, <1>2, <2>1
  <2>2. CASE ~(n <= j)
    <3>1. idx # NoIndex BY <1>1
    <3>2. idx \in Seq(Nat) /\ n \in 1 .. Len(idx) BY <3>1
    <3>3. QED BY <2>2, <3>2
  <2>3. QED BY <2>1, <2>2
<1>4. Written(j) = [n \in 1 .. k |-> IF n <= j THEN Indexed[n] ELSE idx[n]] BY DEF Written
<1> HIDE DEF k
<1>5. Written(j) \in [1 .. k -> Nat] BY <1>3, <1>4
<1>6. Written(j) \in Seq(Nat) /\ Len(Written(j)) = k BY <1>1, <1>5
<1>7. QED BY <1>6 DEF k

LEMMA StartsInv ==
    ASSUME VsInv, NEW i \in BOOLEAN, Start(i)
    PROVE  VsInv'
<1>1. /\ UNCHANGED <<text, vs_cur_total, boxes, home, kills>>
      /\ IF i /\ Cardinality(VsLines) > DefVsNum THEN Overruns
         ELSE idx' = (IF i THEN cmd_mkidx ELSE idx) /\ ltsys_init(idx')
  BY DEF Start
<1>2. /\ TextOK(text)
      /\ idx = NoIndex \/ idx \in Seq(Nat)
      /\ disturbed \/ Undisturbed(text, idx, vs_cur_total, boxes, run, itblk, home)
  BY DEF VsInv
<1>3. text \in Seq(Lines) BY <1>2 DEF TextOK
<1>4. /\ Indexed \in Seq(Nat) /\ Len(Indexed) = Cardinality(VsLines)
      /\ Cardinality(VsLines) \in Nat
  BY <1>2, <1>3, IndexedIs, BeforeIs
<1>5. CASE i /\ Cardinality(VsLines) > DefVsNum
  <2>1. /\ idx' \in {Indexed, Written(DefVsNum)}
        /\ run' = "wild" /\ itblk' = << >> /\ disturbed' = TRUE
    BY <1>1, <1>5 DEF Overruns
  <2>2. Written(DefVsNum) \in Seq(Nat)
    <3>1. DefVsNum \in 0 .. Len(Indexed) BY <1>4, <1>5, VsFilesAssumption
    <3>2. QED BY <1>2, <1>3, <3>1, WrittenIs
  <2>3. idx' \in Seq(Nat) BY <1>4, <2>1, <2>2
  <2>4. QED BY <1>1, <2>1, <2>3 DEF VsInv, RunOK
<1>6. CASE ~(i /\ Cardinality(VsLines) > DefVsNum)
  <2>1. idx' = (IF i THEN cmd_mkidx ELSE idx) /\ ltsys_init(idx') BY <1>1, <1>6
  <2>2. idx' = idx \/ (idx' = Indexed /\ i) BY <2>1 DEF cmd_mkidx
  <2>3. PICK index : index = idx' OBVIOUS
  <2>4. index = NoIndex \/ index \in Seq(Nat) BY <1>2, <1>4, <2>2, <2>3
  <2>5. disturbed \/ IndexOK(index)
    <3>1. CASE index = idx BY <1>2, <3>1 DEF Undisturbed
    <3>2. CASE index = Indexed /\ i BY <1>4, <1>6, <3>2, VsFilesAssumption DEF IndexOK
    <3>3. QED BY <2>2, <2>3, <3>1, <3>2
  <2>6. ltsys_init(index) BY <2>1, <2>3
  <2>7. QED BY <1>1, <2>3, <2>4, <2>5, <2>6, StartInv
<1>7. QED BY <1>5, <1>6

LEMMA KillIndexingInv == ASSUME VsInv, KillIndexing PROVE VsInv'
<1>1. /\ run' = "off" /\ itblk' = << >>
      /\ UNCHANGED <<text, vs_cur_total, boxes, home, disturbed, kills>>
  BY DEF KillIndexing
<1>2. PICK j \in 0 .. Cardinality(VsLines) : idx' = Written(j) BY DEF KillIndexing
<1>3. /\ TextOK(text)
      /\ idx = NoIndex \/ idx \in Seq(Nat)
      /\ disturbed \/ Undisturbed(text, idx, vs_cur_total, boxes, run, itblk, home)
  BY DEF VsInv
<1>4. text \in Seq(Lines) BY <1>3 DEF TextOK
<1>5. Len(Indexed) = Cardinality(VsLines) BY <1>3, <1>4, IndexedIs, BeforeIs
<1>6. /\ Written(j) \in Seq(Nat)
      /\ Len(Written(j)) = IF idx = NoIndex THEN 0 ELSE Len(idx)
  BY <1>2, <1>3, <1>4, <1>5, WrittenIs
<1>7. disturbed \/ IndexOK(idx')
  <2>1. IndexOK(idx) => Len(Written(j)) <= DefVsNum BY <1>6, VsFilesAssumption DEF IndexOK
  <2>2. QED BY <1>2, <1>3, <2>1 DEF Undisturbed, IndexOK
<1>8. disturbed \/ Undisturbed(text, idx', vs_cur_total, boxes, run', itblk', home)
  BY <1>1, <1>3, <1>7 DEF Undisturbed
<1>9. RunOK(run', itblk', boxes) BY <1>1 DEF RunOK
<1>10. idx' \in Seq(Nat) BY <1>2, <1>6
<1>11. QED BY <1>1, <1>8, <1>9, <1>10 DEF VsInv

\* Under a program that has not been disturbed there is no junk to step on.
LEMMA NoJunk ==
    ASSUME VsInv, run = "up", ~disturbed
    PROVE  ~AnyJunk
<1>1. ItemsRight(text, vs_cur_total, itblk) BY DEF VsInv, Undisturbed
<1>2. QED BY <1>1, WholeIsNotJunk DEF ItemsRight, AnyJunk

LEMMA WildInv ==
    ASSUME VsInv, disturbed, run' = "wild", disturbed' = disturbed,
           UNCHANGED <<text, idx, vs_cur_total, boxes, home, kills>>
    PROVE  VsInv'
  BY DEF VsInv, RunOK

LEMMA InitAgainInv == ASSUME VsInv, cmd_init PROVE VsInv'
<1>1. run = "up" /\ UNCHANGED <<text, idx, vs_cur_total, boxes, home, kills>> BY DEF cmd_init
<1>2. CASE AnyJunk
  <2>1. run' = "wild" /\ disturbed' = disturbed BY <1>2 DEF cmd_init
  <2>2. disturbed BY <1>1, <1>2, NoJunk DEF VsInv
  <2>3. QED BY <1>1, <2>1, <2>2, WildInv
<1>3. CASE ~AnyJunk
  <2>1. ltsys_init(idx) BY <1>3 DEF cmd_init
  <2>2. PICK index : index = idx OBVIOUS
  <2>3. index = NoIndex \/ index \in Seq(Nat) BY <2>2 DEF VsInv
  <2>4. disturbed \/ IndexOK(index) BY <2>2 DEF VsInv, Undisturbed
  <2>5. ltsys_init(index) /\ idx' = index BY <1>1, <2>1, <2>2
  <2>6. QED BY <1>1, <2>3, <2>4, <2>5, StartInv
<1>4. QED BY <1>2, <1>3

LEMMA StopInv == ASSUME VsInv, Stop PROVE VsInv'
<1>1. run' = "off" /\ UNCHANGED <<text, idx, vs_cur_total, boxes, home, disturbed, kills>>
  BY DEF Stop
<1>2. QED BY <1>1 DEF VsInv, RunOK, Undisturbed

LEMMA LsboxInv == ASSUME VsInv, cmd_lsbox PROVE VsInv'
<1>1. /\ run = "up" /\ AnyJunk /\ run' = "wild" /\ disturbed' = disturbed
      /\ UNCHANGED <<text, idx, vs_cur_total, boxes, home, kills>>
  BY DEF cmd_lsbox
<1>2. disturbed BY <1>1, NoJunk DEF VsInv
<1>3. QED BY <1>1, <1>2, WildInv

-----------------------------------------------------------------------------
(* Commands *)

LEMMA SameWord == ASSUME NEW v, NEW w, Whole(v) = Whole(w) PROVE v = w
<1>1. Whole(v).word = v /\ Whole(w).word = w BY DEF Whole
<1>2. QED BY <1>1

\* The homes g once the n items from the c-th on are in box 0.
HomesLoaded(g, h, items, c, n) ==
    /\ \A v \in c .. c + n - 1 : v \in DOMAIN items
    /\ \A w \in Words : g[w] = IF \E v \in c .. c + n - 1 : items[v] = Whole(w) THEN 0 ELSE h[w]

\* What a load of n items from the c-th on does to what has been learnt.
LEMMA LoadLearns ==
    ASSUME NEW t, TextOK(t), NEW b, NEW c, BoxesOK(b, c), NEW n \in Nat, NEW items, NEW h, NEW g,
           Learnt(t, b, h), ItemsRight(t, c + n, items),
           HomesLoaded(g, h, items, c, n)
    PROVE  Learnt(t, Extended(b, c, n), g)
<1> SUFFICES ASSUME NEW w \in Words, NEW l \in Boxes
             PROVE  g[w] = l <=> \E v \in Nat : In(Extended(b, c, n), l, v) /\ Has(t, v, w)
  BY DEF Learnt
<1>0. c \in Nat BY DEF BoxesOK
<1>1. \A v \in Nat : In(Extended(b, c, n), l, v) <=> In(b, l, v) \/ (l = 0 /\ v \in c .. c + n - 1)
  BY ExtendedIn
<1>2. \A v \in Nat : In(b, l, v) => v < c BY DEF BoxesOK
<1>3. \A v \in c .. c + n - 1 : v \in 0 .. (c + n) - 1 /\ v \in Nat /\ ~(v < c) BY <1>0
<1>4. h[w] = l <=> \E v \in Nat : In(b, l, v) /\ Has(t, v, w) BY DEF Learnt
<1>5. CASE \E v \in c .. c + n - 1 : items[v] = Whole(w)
  <2>1. PICK v \in c .. c + n - 1 : items[v] = Whole(w) BY <1>5
  <2>2. Has(t, v, w) BY <1>3, <2>1 DEF ItemsRight
  <2>3. \A u \in Nat : Has(t, u, w) => u = v BY <2>2, OneNumber
  <2>4. g[w] = 0 BY <1>5 DEF HomesLoaded
  <2>5. (\E u \in Nat : In(Extended(b, c, n), l, u) /\ Has(t, u, w)) <=> In(Extended(b, c, n), l, v)
    BY <1>3, <2>2, <2>3
  <2>6. In(Extended(b, c, n), l, v) <=> l = 0 BY <1>1, <1>2, <1>3
  <2>7. QED BY <2>4, <2>5, <2>6
<1>6. CASE ~\E v \in c .. c + n - 1 : items[v] = Whole(w)
  <2>1. ASSUME NEW v \in c .. c + n - 1 PROVE ~Has(t, v, w)
    <3>1. v \in DOMAIN items BY DEF HomesLoaded
    <3>2. PICK u \in Words : items[v] = Whole(u) BY <3>1 DEF ItemsRight
    <3>3. Has(t, v, u) BY <1>3, <3>2 DEF ItemsRight
    <3>4. u # w BY <1>6, <3>2
    <3>5. t \in Seq(Lines) BY DEF TextOK
    <3>6. QED BY <3>3, <3>4, <3>5, OneWord
  <2>2. g[w] = h[w] BY <1>6 DEF HomesLoaded
  <2>3. \A v \in Nat : In(Extended(b, c, n), l, v) /\ Has(t, v, w) <=> In(b, l, v) /\ Has(t, v, w)
    BY <1>1, <2>1
  <2>4. QED BY <1>4, <2>2, <2>3
<1>7. QED BY <1>5, <1>6

LEMMA LoadInv == ASSUME VsInv, cmd_load PROVE VsInv'
<1>1. /\ TextOK(text) /\ BoxesOK(boxes, vs_cur_total) /\ disturbed \in BOOLEAN
      /\ home \in [Words -> Boxes \cup {NoBox}] /\ RunOK(run, itblk, boxes)
      /\ LossesOK(boxes, vs_cur_total, kills)
      /\ disturbed \/ Undisturbed(text, idx, vs_cur_total, boxes, run, itblk, home)
  BY DEF VsInv
<1>02. PICK n \in Wanted : \E new \in {Loaded .. Loaded + n - 1} :
        /\ IF \E k \in new : k \notin DOMAIN itblk \/ itblk[k] = Junk
           THEN run' = "wild" /\ itblk' = << >> /\ UNCHANGED <<vs_cur_total, boxes, home>>
           ELSE /\ boxes' = [boxes EXCEPT ![0] = @ \o [k \in 1 .. n |-> Loaded + k - 1]]
                /\ vs_cur_total' = vs_cur_total + n
                /\ home' = SetHome(new, 0)
                /\ UNCHANGED <<run, itblk>>
        /\ disturbed' = (disturbed \/ \E k \in new \cap DOMAIN itblk : ~IsVs(k, itblk[k].word))
  BY DEF cmd_load
<1>2. PICK new \in {Loaded .. Loaded + n - 1} :
        /\ IF \E k \in new : k \notin DOMAIN itblk \/ itblk[k] = Junk
           THEN run' = "wild" /\ itblk' = << >> /\ UNCHANGED <<vs_cur_total, boxes, home>>
           ELSE /\ boxes' = [boxes EXCEPT ![0] = @ \o [k \in 1 .. n |-> Loaded + k - 1]]
                /\ vs_cur_total' = vs_cur_total + n
                /\ home' = SetHome(new, 0)
                /\ UNCHANGED <<run, itblk>>
        /\ disturbed' = (disturbed \/ \E k \in new \cap DOMAIN itblk : ~IsVs(k, itblk[k].word))
  BY <1>02
<1>3. run = "up" /\ UNCHANGED <<text, idx, kills>> BY DEF cmd_load
<1>4. Loaded = vs_cur_total /\ new = vs_cur_total .. vs_cur_total + n - 1 BY <1>2 DEF Loaded
<1>5. vs_cur_total \in Nat /\ boxes \in [Boxes -> Seq(Nat)] BY <1>1 DEF BoxesOK
<1>6. PICK k \in Nat : /\ DOMAIN itblk = 0 .. k - 1
                       /\ \A l \in Boxes, v \in Nat : In(boxes, l, v) => v < k
  BY <1>1, <1>3 DEF RunOK
<1>07. n \in Nat /\ n >= 1 /\ (vs_cur_total <= k => vs_cur_total + n <= k)
  <2>1. Cardinality(0 .. k - 1) = k BY FS_Interval
  <2>2. Limit \in Nat /\ boxes[0] \in Seq(Nat) BY <1>5, ZeroIsBox, VsFilesAssumption
  <2>3. n \in 1 .. Limit - Len(boxes[0]) /\ (vs_cur_total <= k => n <= k - vs_cur_total)
    BY <1>6, <2>1 DEF Wanted
  <2>4. QED BY <1>5, <2>2, <2>3
<1>7. n \in Nat BY <1>07
\* Undisturbed, there is an item for each that has been loaded, and so for the new.
<1>8. ASSUME ~disturbed, NEW v \in new PROVE v \in DOMAIN itblk
  <2>1. \A u \in 0 .. vs_cur_total - 1 : u \in 0 .. k - 1
    BY <1>1, <1>3, <1>6, <1>8 DEF Undisturbed
  <2>2. vs_cur_total <= k
    <3>1. CASE vs_cur_total = 0 BY <3>1
    <3>2. CASE vs_cur_total # 0
      <4>1. vs_cur_total - 1 \in 0 .. vs_cur_total - 1 BY <1>5, <3>2
      <4>2. vs_cur_total - 1 \in 0 .. k - 1 BY <2>1, <4>1
      <4>3. QED BY <1>5, <4>2
    <3>3. QED BY <3>1, <3>2
  <2>3. QED BY <1>4, <1>5, <1>6, <1>07, <1>8, <2>2
<1>9. disturbed' \in BOOLEAN /\ (~disturbed' => ~disturbed) BY <1>1, <1>2
<1>10. CASE \E v \in new : v \notin DOMAIN itblk \/ itblk[v] = Junk
  <2>1. run' = "wild" /\ UNCHANGED <<vs_cur_total, boxes, home>> BY <1>2, <1>10
  <2>2. disturbed
    <3>1. ~disturbed => AnyJunk BY <1>8, <1>10 DEF AnyJunk
    <3>2. QED BY <1>1, <1>3, <3>1, NoJunk
  <2>3. disturbed' BY <1>2, <2>2
  <2>4. QED BY <1>1, <1>3, <1>9, <2>1, <2>3 DEF VsInv, RunOK
<1>11. CASE ~\E v \in new : v \notin DOMAIN itblk \/ itblk[v] = Junk
  <2>1. /\ boxes' = [boxes EXCEPT ![0] = @ \o [i \in 1 .. n |-> Loaded + i - 1]]
        /\ vs_cur_total' = vs_cur_total + n
        /\ home' = SetHome(new, 0)
        /\ UNCHANGED <<run, itblk>>
    BY <1>2, <1>11
  <2>2. boxes' = Extended(boxes, vs_cur_total, n) BY <1>4, <2>1 DEF Extended
  <2>3. BoxesOK(boxes', vs_cur_total')
    <3>1. BoxesOK(boxes, vs_cur_total) /\ n \in Nat BY <1>1, <1>7
    <3>2. BoxesOK(Extended(boxes, vs_cur_total, n), vs_cur_total + n)
      BY <3>1, LoadKeepsBoxes, Zenon
    <3>3. QED BY <2>1, <2>2, <3>2
  <2>4. home' \in [Words -> Boxes \cup {NoBox}] BY <1>1, <2>1, ZeroIsBox DEF SetHome
  <2>05. \A v \in new : v \in 0 .. k - 1 BY <1>6, <1>11
  <2>5. RunOK(run', itblk', boxes')
    <3>1. \A l \in Boxes, v \in Nat :
            In(boxes', l, v) => In(boxes, l, v) \/ v \in vs_cur_total .. vs_cur_total + n - 1
      BY <1>1, <1>7, <2>2, ExtendedIn
    <3>2. \A l \in Boxes, v \in Nat : In(boxes', l, v) => v < k BY <1>4, <1>6, <2>05, <3>1
    <3>3. QED BY <1>3, <1>6, <2>1, <3>2 DEF RunOK
  <2>005. LossesOK(boxes', vs_cur_total', kills')
    <3>1. Lost(Extended(boxes, vs_cur_total, n), vs_cur_total + n) = Lost(boxes, vs_cur_total)
      BY <1>1, <1>7, LoadLosesNone
    <3>2. QED BY <1>1, <1>3, <2>1, <2>2, <3>1 DEF LossesOK
  <2>6. ASSUME ~disturbed'
        PROVE  Undisturbed(text, idx, vs_cur_total', boxes', run, itblk, home')
    <3>1. Undisturbed(text, idx, vs_cur_total, boxes, run, itblk, home) BY <1>1, <1>9, <2>6
    <3>2. ItemsRight(text, vs_cur_total, itblk) BY <1>3, <3>1 DEF Undisturbed
    <3>3. ASSUME NEW v \in new PROVE \E w \in Words : itblk[v] = Whole(w) /\ Has(text, v, w)
      <4>1. v \in DOMAIN itblk BY <1>11
      <4>2. PICK w \in Words : itblk[v] = Whole(w) BY <3>2, <4>1 DEF ItemsRight
      <4>3. IsVs(v, itblk[v].word) BY <1>2, <2>6, <4>1
      <4>4. itblk[v].word = w BY <4>2 DEF Whole
      <4>5. QED BY <1>1, <4>2, <4>3, <4>4, VsAre
    <3>4. \A v \in 0 .. vs_cur_total' - 1 : v \in 0 .. vs_cur_total - 1 \/ v \in new
      BY <1>4, <1>5, <1>7, <2>1
    <3>5. Present(text, vs_cur_total')
      <4>1. Present(text, vs_cur_total) BY <3>1 DEF Undisturbed
      <4>2. QED BY <3>3, <3>4, <4>1 DEF Present
    <3>6. ItemsRight(text, vs_cur_total', itblk)
      <4>1. ASSUME NEW v \in 0 .. vs_cur_total' - 1, NEW w \in Words, itblk[v] = Whole(w)
            PROVE  Has(text, v, w)
        <5>1. CASE v \in 0 .. vs_cur_total - 1 BY <3>2, <4>1, <5>1 DEF ItemsRight
        <5>2. CASE v \in new
          <6>1. PICK u \in Words : itblk[v] = Whole(u) /\ Has(text, v, u) BY <3>3, <5>2
          <6>2. u = w BY <4>1, <6>1, SameWord
          <6>3. QED BY <6>1, <6>2
        <5>3. QED BY <3>4, <5>1, <5>2
      <4>2. \A v \in DOMAIN itblk : \E w \in Words : itblk[v] = Whole(w) BY <3>2 DEF ItemsRight
      <4>3. QED BY <4>1, <4>2 DEF ItemsRight
    <3>7. Learnt(text, boxes', home')
      <4>1. \A w \in Words : home'[w] =
              IF \E v \in vs_cur_total .. vs_cur_total + n - 1 : itblk[v] = Whole(w)
              THEN 0 ELSE home[w]
        BY <1>4, <2>1 DEF SetHome, Whole
      <4>2. Learnt(text, boxes, home) BY <3>1 DEF Undisturbed
      <4>3. ItemsRight(text, vs_cur_total + n, itblk) BY <2>1, <3>6
      <4>4. \A v \in vs_cur_total .. vs_cur_total + n - 1 : v \in DOMAIN itblk BY <1>4, <1>11
      <4>5. PICK g : g = home' OBVIOUS
      <4>6. HomesLoaded(g, home, itblk, vs_cur_total, n) BY <4>1, <4>4, <4>5 DEF HomesLoaded
      <4>7. Learnt(text, Extended(boxes, vs_cur_total, n), g)
        <5>1. TextOK(text) /\ BoxesOK(boxes, vs_cur_total) /\ n \in Nat BY <1>1, <1>7
        <5>2. QED BY <5>1, <4>2, <4>3, <4>6, LoadLearns, Zenon
      <4>8. QED BY <2>2, <4>5, <4>7
    <3>8. \A v \in 0 .. vs_cur_total' - 1 : v \in DOMAIN itblk
      BY <1>3, <1>11, <3>1, <3>4 DEF Undisturbed
    <3>9. run \notin {"wild", "hangs"} /\ IndexOK(idx) BY <3>1 DEF Undisturbed
    <3>10. QED BY <3>5, <3>6, <3>7, <3>8, <3>9 DEF Undisturbed
  <2>7. QED BY <1>1, <1>3, <1>9, <2>1, <2>3, <2>4, <2>5, <2>005, <2>6 DEF VsInv
<1>12. QED BY <1>10, <1>11

\* What a move of the number q from one box to box m does to what has been learnt.
LEMMA MoveLearns ==
    ASSUME NEW t, TextOK(t), NEW b, NEW c, BoxesOK(b, c), NEW l \in Boxes, NEW m \in Boxes, l # m,
           b[l] # <<>>, NEW items, NEW h, NEW g, Learnt(t, b, h), ItemsRight(t, c, items),
           \A v \in 0 .. c - 1 : v \in DOMAIN items,
           \A w \in Words : g[w] = IF items[Head(b[l])] = Whole(w) THEN m ELSE h[w]
    PROVE  Learnt(t, Moved(b, l, m), g)
<1> DEFINE q == Head(b[l])
<1>1. b[l] \in Seq(Nat) /\ c \in Nat BY DEF BoxesOK
<1>2. q = b[l][1] /\ q \in Nat /\ 1 \in 1 .. Len(b[l]) BY <1>1, HeadTail
<1>3. In(b, l, q) BY <1>2 DEF In
<1>4. q \in 0 .. c - 1 BY <1>1, <1>2, <1>3 DEF BoxesOK
<1> SUFFICES ASSUME NEW w \in Words, NEW x \in Boxes
             PROVE  g[w] = x <=> \E v \in Nat : In(Moved(b, l, m), x, v) /\ Has(t, v, w)
  BY DEF Learnt
<1>5. \A v \in Nat : In(Moved(b, l, m), x, v) <=> (v # q /\ In(b, x, v)) \/ (v = q /\ x = m)
  BY MovedIn
<1>6. h[w] = x <=> \E v \in Nat : In(b, x, v) /\ Has(t, v, w) BY DEF Learnt
<1>7. PICK u \in Words : items[q] = Whole(u) BY <1>4 DEF ItemsRight
<1>8. Has(t, q, u) BY <1>4, <1>7 DEF ItemsRight
<1>9. t \in Seq(Lines) BY DEF TextOK
<1>10. CASE w = u
  <2>1. g[w] = m BY <1>7, <1>10
  <2>2. \A v \in Nat : Has(t, v, w) => v = q BY <1>8, <1>10, OneNumber
  <2> HIDE DEF q
  <2>3. (\E v \in Nat : In(Moved(b, l, m), x, v) /\ Has(t, v, w)) <=> In(Moved(b, l, m), x, q)
    BY <1>2, <1>8, <1>10, <2>2
  <2>4. QED BY <1>2, <1>5, <2>1, <2>3
<1>11. CASE w # u
  <2>1. g[w] = h[w] BY <1>7, <1>11, SameWord
  <2>2. ~Has(t, q, w) BY <1>8, <1>9, <1>11, OneWord
  <2> HIDE DEF q
  <2>3. \A v \in Nat : In(Moved(b, l, m), x, v) /\ Has(t, v, w) <=> In(b, x, v) /\ Has(t, v, w)
    BY <1>5, <2>2
  <2>4. QED BY <1>6, <2>1, <2>3
<1>12. QED BY <1>10, <1>11

\* What the loss of a box's head does to it.
LEMMA DropForgets ==
    ASSUME NEW t, TextOK(t), NEW b, NEW c, BoxesOK(b, c), NEW l \in Boxes,
           b[l] # <<>>, NEW items, NEW h, NEW g, Learnt(t, b, h), ItemsRight(t, c, items),
           \A v \in 0 .. c - 1 : v \in DOMAIN items,
           \A w \in Words : g[w] = IF items[Head(b[l])] = Whole(w) THEN NoBox ELSE h[w]
    PROVE  Learnt(t, Dropped(b, l), g)
<1> DEFINE q == Head(b[l])
<1>1. In(b, l, q) /\ q \in Nat BY HeadIn
<1>2. q \in 0 .. c - 1 BY <1>1 DEF BoxesOK
<1> SUFFICES ASSUME NEW w \in Words, NEW x \in Boxes
             PROVE  g[w] = x <=> \E v \in Nat : In(Dropped(b, l), x, v) /\ Has(t, v, w)
  BY DEF Learnt
<1>3. \A v \in Nat : In(Dropped(b, l), x, v) <=> v # q /\ In(b, x, v) BY DroppedIn
<1>4. h[w] = x <=> \E v \in Nat : In(b, x, v) /\ Has(t, v, w) BY DEF Learnt
<1>5. PICK u \in Words : items[q] = Whole(u) BY <1>2 DEF ItemsRight
<1>6. Has(t, q, u) BY <1>2, <1>5 DEF ItemsRight
<1>7. CASE w = u
  <2>1. g[w] = NoBox BY <1>5, <1>7
  <2>2. NoBox # x BY DEF Boxes, NoBox
  <2>3. \A v \in Nat : Has(t, v, w) => v = q BY <1>6, <1>7, OneNumber
  <2>4. QED BY <1>3, <2>1, <2>2, <2>3
<1>8. CASE w # u
  <2>1. g[w] = h[w] BY <1>5, <1>8, SameWord
  <2>2. ~Has(t, q, w) BY <1>6, <1>8, OneWord DEF TextOK
  <2> HIDE DEF q
  <2>3. \A v \in Nat : In(Dropped(b, l), x, v) /\ Has(t, v, w) <=> In(b, x, v) /\ Has(t, v, w)
    BY <1>3, <2>2
  <2>4. QED BY <1>4, <2>1, <2>3
<1>9. QED BY <1>7, <1>8

LEMMA MoveInv == ASSUME VsInv, NEW l \in Boxes, NEW m \in Boxes, Move(l, m) PROVE VsInv'
<1>1. /\ TextOK(text) /\ BoxesOK(boxes, vs_cur_total)
      /\ home \in [Words -> Boxes \cup {NoBox}] /\ RunOK(run, itblk, boxes)
      /\ LossesOK(boxes, vs_cur_total, kills)
      /\ disturbed \/ Undisturbed(text, idx, vs_cur_total, boxes, run, itblk, home)
  BY DEF VsInv
<1>2. /\ run = "up" /\ l # m /\ boxes[l] # <<>>
      /\ boxes' = [boxes EXCEPT ![l] = Tail(@), ![m] = Append(@, Head(boxes[l]))]
      /\ home' = SetHome({Head(boxes[l])}, m)
      /\ UNCHANGED <<text, idx, vs_cur_total, run, itblk, disturbed, kills>>
  BY DEF Move
<1>3. boxes' = Moved(boxes, l, m) BY <1>2 DEF Moved
<1>4. BoxesOK(boxes', vs_cur_total)
  <2>1. BoxesOK(boxes, vs_cur_total) /\ l # m /\ boxes[l] # <<>> BY <1>1, <1>2
  <2>2. BoxesOK(Moved(boxes, l, m), vs_cur_total) BY <2>1, MoveKeepsBoxes, Zenon
  <2>3. QED BY <1>3, <2>2
<1>5. home' \in [Words -> Boxes \cup {NoBox}] BY <1>1, <1>2 DEF SetHome
<1>6. ASSUME ~disturbed
      PROVE  Undisturbed(text, idx, vs_cur_total, boxes', run, itblk, home')
  <2>1. Undisturbed(text, idx, vs_cur_total, boxes, run, itblk, home) BY <1>1, <1>6
  <2>2. ItemsRight(text, vs_cur_total, itblk) /\ Learnt(text, boxes, home)
    BY <1>2, <2>1 DEF Undisturbed
  <2>3. \A v \in 0 .. vs_cur_total - 1 : v \in DOMAIN itblk
    BY <1>2, <2>1 DEF Undisturbed
  <2>4. PICK g : g = home' OBVIOUS
  <2>5. \A w \in Words : g[w] = IF itblk[Head(boxes[l])] = Whole(w) THEN m ELSE home[w]
    BY <1>2, <2>4 DEF SetHome, Whole
  <2>6. Learnt(text, Moved(boxes, l, m), g) BY <1>1, <1>2, <2>2, <2>3, <2>5, MoveLearns
  <2>7. QED BY <1>3, <2>1, <2>4, <2>6 DEF Undisturbed
<1>7. RunOK(run, itblk, boxes')
  <2>1. PICK k \in Nat : /\ DOMAIN itblk = 0 .. k - 1
                         /\ \A x \in Boxes, v \in Nat : In(boxes, x, v) => v < k
    BY <1>1, <1>2 DEF RunOK
  <2>2. \A x \in Boxes, v \in Nat :
          In(boxes', x, v) => In(boxes, x, v) \/ v = Head(boxes[l])
    <3>1. BoxesOK(boxes, vs_cur_total) /\ l # m /\ boxes[l] # <<>> BY <1>1, <1>2
    <3>2. \A x \in Boxes, v \in Nat : In(Moved(boxes, l, m), x, v) <=>
            (v # Head(boxes[l]) /\ In(boxes, x, v)) \/ (v = Head(boxes[l]) /\ x = m)
      BY <3>1, MovedIn, Zenon
    <3>3. QED BY <1>3, <3>2
  <2>3. In(boxes, l, Head(boxes[l])) /\ Head(boxes[l]) \in Nat BY <1>1, <1>2, HeadIn
  <2>4. \A x \in Boxes, v \in Nat : In(boxes', x, v) => v < k BY <2>1, <2>2, <2>3
  <2>5. QED BY <1>2, <2>1, <2>4 DEF RunOK
<1>8. LossesOK(boxes', vs_cur_total, kills)
  <2>1. Lost(Moved(boxes, l, m), vs_cur_total) = Lost(boxes, vs_cur_total)
    BY <1>1, <1>2, MoveLosesNone
  <2>2. QED BY <1>1, <1>3, <2>1 DEF LossesOK
<1>9. QED BY <1>1, <1>2, <1>4, <1>5, <1>6, <1>7, <1>8 DEF VsInv

LEMMA LoseInHandInv == ASSUME VsInv, NEW l \in Boxes, LoseInHand(l) PROVE VsInv'
<1>1. /\ TextOK(text) /\ BoxesOK(boxes, vs_cur_total)
      /\ home \in [Words -> Boxes \cup {NoBox}] /\ RunOK(run, itblk, boxes)
      /\ LossesOK(boxes, vs_cur_total, kills)
      /\ disturbed \/ Undisturbed(text, idx, vs_cur_total, boxes, run, itblk, home)
  BY DEF VsInv
<1>2. /\ run = "up" /\ boxes[l] # <<>> /\ kills' = kills + 1
      /\ boxes' = [boxes EXCEPT ![l] = Tail(@)]
      /\ home' = SetHome({Head(boxes[l])}, NoBox)
      /\ run' = "off" \/ UNCHANGED <<run, itblk>>
      /\ UNCHANGED <<text, idx, vs_cur_total, disturbed>>
  BY DEF LoseInHand
<1>3. boxes' = Dropped(boxes, l) BY <1>2 DEF Dropped
<1>4. BoxesOK(boxes', vs_cur_total) BY <1>1, <1>2, <1>3, DropKeepsBoxes
<1>5. home' \in [Words -> Boxes \cup {NoBox}] BY <1>1, <1>2 DEF SetHome
<1>6. ASSUME ~disturbed
      PROVE  Undisturbed(text, idx, vs_cur_total, boxes', run', itblk', home')
  <2>1. Undisturbed(text, idx, vs_cur_total, boxes, run, itblk, home) BY <1>1, <1>6
  <2>2. ItemsRight(text, vs_cur_total, itblk) /\ Learnt(text, boxes, home)
    BY <1>2, <2>1 DEF Undisturbed
  <2>3. PICK g : g = home' OBVIOUS
  <2>4. \A w \in Words : g[w] = IF itblk[Head(boxes[l])] = Whole(w) THEN NoBox ELSE home[w]
    BY <1>2, <2>3 DEF SetHome, Whole
  <2>5. \A v \in 0 .. vs_cur_total - 1 : v \in DOMAIN itblk BY <1>2, <2>1 DEF Undisturbed
  <2>6. Learnt(text, Dropped(boxes, l), g) BY <1>1, <1>2, <2>2, <2>4, <2>5, DropForgets
  <2>7. CASE run' = "off" BY <1>3, <2>1, <2>3, <2>6, <2>7 DEF Undisturbed
  <2>8. CASE UNCHANGED <<run, itblk>> BY <1>3, <2>1, <2>3, <2>6, <2>8 DEF Undisturbed
  <2>9. QED BY <1>2, <2>7, <2>8
<1>7. RunOK(run', itblk', boxes')
  <2>1. CASE run' = "off" BY <2>1 DEF RunOK
  <2>2. CASE UNCHANGED <<run, itblk>>
    <3>1. \A x \in Boxes, v \in Nat : In(boxes', x, v) => In(boxes, x, v)
      BY <1>1, <1>2, <1>3, DroppedIn
    <3>2. QED BY <1>1, <2>2, <3>1 DEF RunOK
  <2>3. QED BY <1>2, <2>1, <2>2
<1>8. LossesOK(boxes', vs_cur_total, kills')
  <2>1. /\ Cardinality(Lost(boxes, vs_cur_total)) \in Nat
        /\ Cardinality(Lost(Dropped(boxes, l), vs_cur_total))
              <= Cardinality(Lost(boxes, vs_cur_total)) + 1
    BY <1>1, <1>2, DropLosesOne
  <2>2. Cardinality(Lost(Dropped(boxes, l), vs_cur_total)) \in Nat
    <3>1. vs_cur_total \in Nat BY <1>1 DEF BoxesOK
    <3>2. QED BY <3>1, LostFinite
  <2>3. kills \in Nat /\ Cardinality(Lost(boxes, vs_cur_total)) <= kills BY <1>1 DEF LossesOK
  <2>4. kills + 1 \in Nat /\ Cardinality(Lost(Dropped(boxes, l), vs_cur_total)) <= kills + 1
    BY <2>1, <2>2, <2>3
  <2>5. vs_cur_total' = vs_cur_total /\ kills' = kills + 1 BY <1>2
  <2>6. QED BY <1>3, <2>4, <2>5 DEF LossesOK
<1>9. QED BY <1>1, <1>2, <1>4, <1>5, <1>6, <1>7, <1>8 DEF VsInv

LEMMA StepInv == VsInv /\ [VsNext]_vsVars => VsInv'
<1> SUFFICES ASSUME VsInv, [VsNext]_vsVars PROVE VsInv'
  OBVIOUS
<1>1. CASE InsertLine BY <1>1, InsertLineInv
<1>2. CASE RemoveLine BY <1>2, RemoveLineInv
<1>3. CASE RemoveIndex BY <1>3, RemoveIndexInv
<1>4. CASE Start(TRUE) BY <1>4, StartsInv
<1>5. CASE Start(FALSE) BY <1>5, StartsInv
<1>6. CASE cmd_init BY <1>6, InitAgainInv
<1>7. CASE Stop BY <1>7, StopInv
<1>8. CASE cmd_load BY <1>8, LoadInv
<1>9. CASE cmd_lsbox BY <1>9, LsboxInv
<1>10. CASE \E l, m \in Boxes : Move(l, m) BY <1>10, MoveInv
<1>11. CASE UNCHANGED vsVars BY <1>11 DEF VsInv, vsVars
<1>12. CASE KillIndexing BY <1>12, KillIndexingInv
<1>13. CASE \E l \in Boxes : LoseInHand(l) BY <1>13, LoseInHandInv
<1>14. QED
  BY <1>1, <1>2, <1>3, <1>4, <1>5, <1>6, <1>7, <1>8, <1>9, <1>10, <1>11, <1>12, <1>13 DEF VsNext

LEMMA VsInvHolds == VsSpec => []VsInv
  BY InitInv, StepInv, PTL DEF VsSpec

-----------------------------------------------------------------------------
(* The theorems *)

\* Whatever the user does to the text and the index, and however often the program is
\* killed or interrupted: the boxes hold none but the numbers of the first vs_cur_total VSes,
\* all but one for each loss at most, and a program at its prompt is short of no more.
THEOREM VsNeverLoadedPast == VsSpec => []NeverLoadedPast
<1>1. VsInv => NeverLoadedPast
  <2> SUFFICES ASSUME VsInv PROVE NeverLoadedPast
    OBVIOUS
  <2> DEFINE c == vs_cur_total
             lost == Lost(boxes, c)
  <2>1. /\ BoxesOK(boxes, c) /\ RunOK(run, itblk, boxes)
        /\ kills \in Nat /\ Cardinality(lost) <= kills /\ c \in Nat
    BY DEF VsInv, LossesOK, BoxesOK
  <2>2. Held \subseteq 0 .. c - 1 /\ (0 .. c - 1) \ Held = lost BY <2>1, HeldAre
  <2>3. IsFiniteSet(lost) /\ Cardinality(lost) \in Nat BY <2>1, LostFinite
  <2>4. ASSUME run = "up" PROVE c - Cardinality(DOMAIN itblk) <= kills
    <3>1. PICK k \in Nat : /\ DOMAIN itblk = 0 .. k - 1
                           /\ \A l \in Boxes, n \in Nat : In(boxes, l, n) => n < k
      BY <2>1, <2>4 DEF RunOK
    <3>2. Cardinality(DOMAIN itblk) = k BY <3>1, FS_Interval
    <3>3. CASE c <= k BY <2>1, <3>2, <3>3
    <3>4. CASE ~(c <= k)
      <4>1. (k .. c - 1) \in SUBSET lost BY <2>1, <3>1 DEF Lost
      <4>2. Cardinality(k .. c - 1) = c - k BY <2>1, <3>4, FS_Interval
      <4>3. Cardinality(k .. c - 1) <= Cardinality(lost) BY <2>3, <4>1, FS_Subset
      <4>4. QED BY <2>1, <2>3, <3>2, <3>4, <4>2, <4>3
    <3>5. QED BY <3>3, <3>4
  <2>5. QED BY <2>1, <2>2, <2>4 DEF NeverLoadedPast
<1>2. QED BY <1>1, VsInvHolds, PTL

\* The program follows a pointer that is none, or looks for "" for ever, only after the text
\* or the index was changed under the meta file or the text outgrew the index.
THEOREM VsWildOnlyDisturbed == VsSpec => []WildOnlyDisturbed
<1>1. VsInv => WildOnlyDisturbed BY DEF VsInv, Undisturbed, WildOnlyDisturbed
<1>2. QED BY <1>1, VsInvHolds, PTL

\* Until then, over all starts, loads, moves, edits behind what has been loaded and edits
\* of comments, every word is in the box the user left it in.
THEOREM VsKeepsHome == VsSpec => []KeepsHome
<1>1. VsInv => KeepsHome
  <2> SUFFICES ASSUME VsInv, run = "up", ~disturbed, NEW w \in Words, NEW l \in Boxes
               PROVE  home[w] = l <=>
                        \E n \in Range(boxes[l]) : itblk[n] = [word |-> w, whole |-> TRUE]
    BY DEF KeepsHome
  <2>1. /\ TextOK(text) /\ BoxesOK(boxes, vs_cur_total)
        /\ ItemsRight(text, vs_cur_total, itblk) /\ Learnt(text, boxes, home)
        /\ \A n \in 0 .. vs_cur_total - 1 : n \in DOMAIN itblk
    BY DEF VsInv, Undisturbed
  <2>2. boxes[l] \in Seq(Nat) /\ vs_cur_total \in Nat BY <2>1 DEF BoxesOK
  <2>3. \A n : n \in Range(boxes[l]) <=> n \in Nat /\ In(boxes, l, n) BY <2>2 DEF Range, In
  <2>5. ASSUME NEW n \in Nat, In(boxes, l, n)
        PROVE  itblk[n] = Whole(w) <=> Has(text, n, w)
    <3>1. n \in 0 .. vs_cur_total - 1 BY <2>1, <2>2, <2>5 DEF BoxesOK
    <3>2. n \in DOMAIN itblk BY <2>1, <3>1
    <3>3. PICK u \in Words : itblk[n] = Whole(u) BY <2>1, <3>2 DEF ItemsRight
    <3>4. Has(text, n, u) BY <2>1, <3>1, <3>3 DEF ItemsRight
    <3>5. Has(text, n, w) => w = u BY <2>1, <3>4, OneWord DEF TextOK
    <3>6. itblk[n] = Whole(w) => w = u BY <3>3, SameWord
    <3>7. QED BY <3>3, <3>4, <3>5, <3>6
  <2>6. home[w] = l <=> \E n \in Nat : In(boxes, l, n) /\ Has(text, n, w) BY <2>1 DEF Learnt
  <2>7. QED BY <2>3, <2>5, <2>6 DEF Whole
<1>2. QED BY <1>1, VsInvHolds, PTL

=============================================================================
