--------------------------- MODULE ObjPoolProofs ---------------------------
(***************************************************************************)
(* For any number of objects in a slab and any places malloc may choose:   *)
(* the free list of each slab goes through exactly the objects the program *)
(* does not have, the counters count, and the slabs are numbered, through  *)
(* every sequence of allocations, frees, dumps and loads.                  *)
(*                                                                         *)
(* The invariant names what the code only follows: the chain of slabs as a *)
(* sequence c and the free list of a slab as a sequence l.  It speaks of a *)
(* memory <<p, sl, fp>> with the objects h given out, so that it can be    *)
(* said of the memory a file was made of as well.                          *)
(***************************************************************************)
EXTENDS ObjPool, FiniteSetTheorems, SequenceTheorems, WellFoundedInduction, TLAPS

-----------------------------------------------------------------------------
(* The invariant *)

At(q, k) == IF k \in 1 .. Len(q) THEN q[k] ELSE Null
Within(q) == {q[k] : k \in 1 .. Len(q)}
Distinct(q) == \A j, k \in 1 .. Len(q) : q[j] = q[k] => j = k

SlabPtrs == {SlabPtr(s) : s \in Places}
PoolSet == [slab_nr : Nat, obj_nr : Int, free_obj_nr : Int,
            slab_head : Places \cup {Null}, recent_slab : Places \cup {Null}]
SlabSet == [id : Ids, next : Places \cup {Null}, free : Objects \cup {Null}]

MemTyped(p, sl, fp, h) ==
    /\ p \in PoolSet /\ sl \in [Places -> SlabSet]
    /\ fp \in [Objects -> Objects \cup SlabPtrs \cup {Null}] /\ h \subseteq Objects

\* c is the chain of the slabs.
ChainOK(p, sl, c) ==
    /\ c \in Seq(Places) /\ Distinct(c)
    /\ p.slab_head = At(c, 1)
    /\ \A k \in 1 .. Len(c) : sl[c[k]].next = At(c, k + 1) /\ sl[c[k]].id = Len(c) - k
    /\ p.recent_slab \in Within(c) \cup {Null}

\* l is the free list of slab s.
ListOK(sl, fp, h, s, l) ==
    /\ l \in Seq(ObjectsOf(s)) /\ Distinct(l) /\ Within(l) = ObjectsOf(s) \ h
    /\ sl[s].free = At(l, 1)
    /\ \A k \in 1 .. Len(l) : fp[l[k]] = At(l, k + 1)

SlabOK(sl, fp, h, s) ==
    /\ \E l : ListOK(sl, fp, h, s, l)
    /\ \A o \in h \cap ObjectsOf(s) : fp[o] = SlabPtr(s)

CountsOK(p, h, c) ==
    /\ p.slab_nr = Len(c) /\ p.obj_nr = ObjNum * Len(c)
    /\ p.free_obj_nr = p.obj_nr - Cardinality(h)
    /\ \A o \in h : o[1] \in Within(c)

Sound(p, sl, fp, h, c) ==
    /\ MemTyped(p, sl, fp, h) /\ ChainOK(p, sl, c)
    /\ \A s \in Within(c) : SlabOK(sl, fp, h, s)
    /\ CountsOK(p, h, c)

\* What objpool_ser writes of a memory.
Dump(p, sl, fp, h, c) ==
    [recent_slab |-> sl[p.recent_slab].id,
     free_obj_nr |-> p.free_obj_nr,
     slabs |-> [k \in 1 .. Len(c) |->
         [at |-> c[k], slab |-> sl[c[k]], freeptr |-> [i \in 1 .. ObjNum |-> fp[<<c[k], i>>]]]],
     held |-> h]

FileOK(f) ==
    \/ f = NoFile
    \/ \E p, sl, fp, h, c : /\ Sound(p, sl, fp, h, c) /\ p.recent_slab # Null
                            /\ f = Dump(p, sl, fp, h, c)

ObjPoolInv ==
    /\ \E c : Sound(pool, slabs, freeptr, held, c)
    /\ FileOK(file)
    /\ slab_idr \in [Ids -> 0 .. MaxDumps] /\ dumps \in 0 .. MaxDumps /\ up \in BOOLEAN

-----------------------------------------------------------------------------
(* Places, objects and sequences *)

LEMMA Addresses ==
    /\ ObjNum \in Nat \ {0} /\ MaxSlabs \in Nat /\ IsFiniteSet(Places) /\ Null \notin Places
    /\ Null \notin Objects /\ Null \notin SlabPtrs /\ IsFiniteSet(Objects)
    /\ \A o \in Objects : o \notin SlabPtrs /\ o[1] \in Places /\ o[2] \in 1 .. ObjNum
                          /\ o = <<o[1], o[2]>>
    /\ \A s \in Places : /\ SlabPtr(s) \in SlabPtrs /\ SlabPtr(s)[1] = s /\ SlabPtr(s)[2] = 0
                         /\ ObjectsOf(s) \subseteq Objects
                         /\ \A o : o \in ObjectsOf(s) <=> o \in Objects /\ o[1] = s
<1>1. /\ ObjNum \in Nat \ {0} /\ IsFiniteSet(Places) /\ Null \notin Places
      /\ Null \notin Places \X (0 .. ObjNum)
  BY ObjPoolAssumption
<1>2. MaxSlabs \in Nat BY <1>1, FS_CardinalityType DEF MaxSlabs
<1>3. Null \notin Objects /\ Null \notin SlabPtrs BY <1>1 DEF Objects, SlabPtrs, SlabPtr
<1>4. IsFiniteSet(Objects)
  <2>1. IsFiniteSet(1 .. ObjNum) BY <1>1, FS_Interval
  <2>2. QED BY <1>1, <2>1, FS_Product DEF Objects
<1>5. \A o \in Objects : o \notin SlabPtrs /\ o[1] \in Places /\ o[2] \in 1 .. ObjNum
                         /\ o = <<o[1], o[2]>>
  BY <1>1 DEF Objects, SlabPtrs, SlabPtr
<1>6. ASSUME NEW s \in Places
      PROVE  /\ SlabPtr(s) \in SlabPtrs /\ SlabPtr(s)[1] = s /\ SlabPtr(s)[2] = 0
             /\ ObjectsOf(s) \subseteq Objects
             /\ \A o : o \in ObjectsOf(s) <=> o \in Objects /\ o[1] = s
  BY <1>6 DEF SlabPtrs, SlabPtr, ObjectsOf, Objects
<1>7. QED BY <1>1, <1>2, <1>3, <1>4, <1>5, <1>6

\* A sequence without repetition is no longer than the set it is over.
LEMMA NoLonger ==
    ASSUME NEW S, IsFiniteSet(S), NEW q \in Seq(S), Distinct(q)
    PROVE  /\ IsFiniteSet(Within(q)) /\ Cardinality(Within(q)) = Len(q)
           /\ Within(q) \subseteq S /\ Len(q) \in Nat /\ Len(q) <= Cardinality(S)
<1>1. Len(q) \in Nat /\ \A k \in 1 .. Len(q) : q[k] \in S BY ElementOfSeq, LenProperties
<1>2. Within(q) \subseteq S BY <1>1 DEF Within
<1>3. IsFiniteSet(Within(q)) /\ Cardinality(Within(q)) <= Cardinality(S) BY <1>2, FS_Subset
<1>4. Cardinality(Within(q)) = Len(q)
  <2> DEFINE f == [k \in 1 .. Len(q) |-> q[k]]
  <2>1. f \in Bijection(1 .. Len(q), Within(q))
    BY <1>1 DEF Bijection, Injection, Surjection, IsInjective, Distinct, Within
  <2>2. ExistsBijection(1 .. Len(q), Within(q)) BY <2>1 DEF ExistsBijection
  <2>3. QED BY <1>1, <2>2, FS_CountingElements
<1>5. QED BY <1>1, <1>2, <1>3, <1>4

LEMMA AtIs ==
    ASSUME NEW S, NEW q \in Seq(S)
    PROVE  /\ Len(q) \in Nat
           /\ \A k \in 1 .. Len(q) : At(q, k) = q[k] /\ q[k] \in S /\ q[k] \in Within(q)
           /\ \A k : k \notin 1 .. Len(q) => At(q, k) = Null
           /\ \A x \in Within(q) : x \in S /\ \E k \in 1 .. Len(q) : q[k] = x
<1>1. Len(q) \in Nat /\ \A k \in 1 .. Len(q) : q[k] \in S BY ElementOfSeq, LenProperties
<1>2. QED BY <1>1 DEF At, Within

\* One element more in front, and one less.
LEMMA Pushed ==
    ASSUME NEW S, NEW q \in Seq(S), NEW x \in S
    PROVE  /\ <<x>> \o q \in Seq(S) /\ Len(<<x>> \o q) = Len(q) + 1
           /\ (<<x>> \o q)[1] = x
           /\ \A k \in 1 .. Len(q) : (<<x>> \o q)[k + 1] = q[k]
           /\ \A k \in 1 .. Len(q) + 1 : (<<x>> \o q)[k] = IF k = 1 THEN x ELSE q[k - 1]
           /\ \A k \in Nat \ {0} : At(<<x>> \o q, k + 1) = At(q, k)
           /\ Within(<<x>> \o q) = Within(q) \cup {x}
           /\ Distinct(q) /\ x \notin Within(q) => Distinct(<<x>> \o q)
<1>1. <<x>> \in Seq(S) /\ Len(<<x>>) = 1 /\ <<x>>[1] = x /\ Len(q) \in Nat BY LenProperties
<1>2. PICK r : r = <<x>> \o q OBVIOUS
<1>3. r \in Seq(S) /\ Len(r) = Len(q) + 1 BY <1>1, <1>2, ConcatProperties
<1>4. \A k \in 1 .. Len(q) + 1 : r[k] = IF k = 1 THEN x ELSE q[k - 1]
  <2>1. \A k \in 1 .. 1 + Len(q) : r[k] = IF k <= 1 THEN <<x>>[k] ELSE q[k - 1]
    BY <1>1, <1>2, ConcatProperties
  <2>2. QED BY <1>1, <2>1
<1>5. r[1] = x /\ \A k \in 1 .. Len(q) : r[k + 1] = q[k] BY <1>1, <1>4
<1>6. \A k \in Nat \ {0} : At(r, k + 1) = At(q, k) BY <1>1, <1>3, <1>5 DEF At
<1>7. Within(r) = Within(q) \cup {x}
  <2>1. Within(r) \subseteq Within(q) \cup {x} BY <1>1, <1>3, <1>4 DEF Within
  <2>2. x \in Within(r)
    <3>1. 1 \in 1 .. Len(r) BY <1>1, <1>3
    <3>2. QED BY <1>5, <3>1 DEF Within
  <2>3. ASSUME NEW y \in Within(q) PROVE y \in Within(r)
    <3>1. PICK k \in 1 .. Len(q) : q[k] = y BY DEF Within
    <3>2. k + 1 \in 1 .. Len(r) /\ r[k + 1] = y BY <1>1, <1>3, <1>5, <3>1
    <3>3. QED BY <3>2 DEF Within
  <2>4. QED BY <2>1, <2>2, <2>3
<1>8. ASSUME Distinct(q), x \notin Within(q) PROVE Distinct(r)
  <2>1. \A k \in 1 .. Len(q) : q[k] # x BY <1>8 DEF Within
  <2>2. ASSUME NEW j \in 1 .. Len(r), NEW k \in 1 .. Len(r), r[j] = r[k] PROVE j = k
    <3>1. j \in 1 .. Len(q) + 1 /\ k \in 1 .. Len(q) + 1 BY <1>3
    <3>2. j # 1 => j - 1 \in 1 .. Len(q) BY <1>1, <3>1
    <3>3. k # 1 => k - 1 \in 1 .. Len(q) BY <1>1, <3>1
    <3>4. CASE j # 1 /\ k # 1
      <4>1. q[j - 1] = q[k - 1] BY <1>4, <2>2, <3>1, <3>4
      <4>2. j - 1 = k - 1 BY <1>8, <3>2, <3>3, <3>4, <4>1 DEF Distinct
      <4>3. QED BY <3>1, <4>2
    <3>5. CASE j = 1 /\ k # 1 BY <1>4, <2>1, <2>2, <3>1, <3>3, <3>5
    <3>6. CASE j # 1 /\ k = 1 BY <1>4, <2>1, <2>2, <3>1, <3>2, <3>6
    <3>7. QED BY <3>4, <3>5, <3>6
  <2>3. QED BY <2>2 DEF Distinct
<1>9. QED BY <1>2, <1>3, <1>4, <1>5, <1>6, <1>7, <1>8

LEMMA Popped ==
    ASSUME NEW S, NEW q \in Seq(S), q # <<>>, Distinct(q)
    PROVE  /\ Tail(q) \in Seq(S) /\ Len(Tail(q)) = Len(q) - 1 /\ Distinct(Tail(q))
           /\ \A k \in 1 .. Len(q) - 1 : Tail(q)[k] = q[k + 1]
           /\ \A k \in Nat \ {0} : At(Tail(q), k) = At(q, k + 1)
           /\ Within(Tail(q)) = Within(q) \ {q[1]} /\ 1 \in 1 .. Len(q)
<1>1. Len(q) \in Nat \ {0} BY EmptySeq, LenProperties
<1>2. PICK r : r = Tail(q) OBVIOUS
<1>3. r \in Seq(S) /\ Len(r) = Len(q) - 1 /\ \A k \in 1 .. Len(q) - 1 : r[k] = q[k + 1]
  BY <1>1, <1>2, HeadTailProperties
<1>4. \A k \in Nat \ {0} : At(r, k) = At(q, k + 1) BY <1>1, <1>3 DEF At
<1>5. Distinct(r)
  <2>1. ASSUME NEW j \in 1 .. Len(r), NEW k \in 1 .. Len(r), r[j] = r[k] PROVE j = k
    <3>1. j + 1 \in 1 .. Len(q) /\ k + 1 \in 1 .. Len(q) BY <1>1, <1>3
    <3>2. q[j + 1] = q[k + 1] BY <1>1, <1>3, <2>1
    <3>3. j + 1 = k + 1 BY <3>1, <3>2 DEF Distinct
    <3>4. QED BY <1>1, <1>3, <3>3
  <2>2. QED BY <2>1 DEF Distinct
<1>6. 1 \in 1 .. Len(q) BY <1>1
<1>7. ASSUME NEW x \in Within(r) PROVE x \in Within(q) /\ x # q[1]
  <2>1. PICK k \in 1 .. Len(r) : r[k] = x BY DEF Within
  <2>2. k + 1 \in 1 .. Len(q) /\ q[k + 1] = x /\ k + 1 # 1 BY <1>1, <1>3, <2>1
  <2>3. QED BY <1>6, <2>2 DEF Within, Distinct
<1>8. ASSUME NEW x \in Within(q), x # q[1] PROVE x \in Within(r)
  <2>1. PICK k \in 1 .. Len(q) : q[k] = x BY DEF Within
  <2>2. k - 1 \in 1 .. Len(r) BY <1>1, <1>3, <1>8, <2>1
  <2>3. r[k - 1] = x BY <1>1, <1>3, <2>1, <2>2
  <2>4. QED BY <2>2, <2>3 DEF Within
<1>9. QED BY <1>2, <1>3, <1>4, <1>5, <1>6, <1>7, <1>8

-----------------------------------------------------------------------------
(* The walks: Chain and FreeList find the sequences of the invariant *)

LEMMA LeastOf ==
    ASSUME NEW T, T \subseteq Nat, T # {}
    PROVE  \E k \in T : \A m \in T : k <= m
<1> DEFINE R == OpToRel(<, Nat)
<1>1. IsWellFoundedOn(R, Nat) BY NatLessThanWellFounded
<1>2. \A x, y \in Nat : <<x, y>> \in R <=> x < y BY DEF OpToRel
<1> HIDE DEF R
<1>3. PICK n \in T : \A m \in T : ~(<<m, n>> \in R) BY <1>1, WFMin
<1>4. \A m \in T : ~(m < n) BY <1>2, <1>3
<1>5. \A m \in T : n <= m BY <1>4
<1>6. QED BY <1>5

\* The first n places of q.
First(q, n) == [k \in 1 .. n |-> q[k]]

LEMMA FirstIs ==
    ASSUME NEW S, NEW q \in Seq(S), NEW n \in 0 .. Len(q)
    PROVE  /\ First(q, n) \in Seq(S) /\ Len(First(q, n)) = n
           /\ \A k \in 1 .. n : First(q, n)[k] = q[k]
           /\ First(q, n) = <<>> <=> n = 0
           /\ n = Len(q) => First(q, n) = q
           /\ n < Len(q) => Append(First(q, n), q[n + 1]) = First(q, n + 1)
<1>1. Len(q) \in Nat /\ n \in Nat /\ \A k \in 1 .. Len(q) : q[k] \in S
  BY ElementOfSeq, LenProperties
<1>2. First(q, n) \in [1 .. n -> S] BY <1>1 DEF First
<1>3. First(q, n) \in Seq(S) /\ Len(First(q, n)) = n
  BY <1>1, <1>2
<1>4. \A k \in 1 .. n : First(q, n)[k] = q[k] BY DEF First
<1>5. First(q, n) = <<>> <=> n = 0 BY <1>1, <1>3, EmptySeq
<1>6. n = Len(q) => First(q, n) = q
  <2>1. q = [k \in 1 .. Len(q) |-> q[k]] BY LenProperties
  <2>2. QED BY <2>1 DEF First
<1>7. ASSUME n < Len(q) PROVE Append(First(q, n), q[n + 1]) = First(q, n + 1)
  <2>1. n + 1 \in 1 .. Len(q) /\ q[n + 1] \in S BY <1>1, <1>7
  <2>2. PICK r, x : r = First(q, n) /\ x = q[n + 1] OBVIOUS
  <2>3. /\ Append(r, x) \in Seq(S) /\ Len(Append(r, x)) = n + 1
        /\ \A k \in 1 .. n : Append(r, x)[k] = r[k]
        /\ Append(r, x)[n + 1] = x
    BY <1>1, <1>3, <2>1, <2>2, AppendProperties
  <2>4. Append(r, x) = [k \in 1 .. n + 1 |-> Append(r, x)[k]] BY <2>3, LenProperties
  <2>5. \A k \in 1 .. n + 1 : Append(r, x)[k] = q[k] BY <1>1, <1>4, <2>2, <2>3
  <2>6. QED BY <2>2, <2>4, <2>5 DEF First
<1>8. QED BY <1>3, <1>4, <1>5, <1>6, <1>7

ChainBody(p, sl, f) ==
    [n \in 0 .. MaxSlabs |->
        IF n = 0 THEN <<>>
        ELSE LET c == f[n - 1]
                 s == IF c = <<>> THEN p.slab_head ELSE sl[c[Len(c)]].next
             IN  IF s = Null THEN c ELSE Append(c, s)]
ChainFn(p, sl) == CHOOSE f : f = ChainBody(p, sl, f)

LEMMA ChainWalks ==
    ASSUME NEW p, NEW sl, NEW c, ChainOK(p, sl, c)
    PROVE  ChainFn(p, sl)[MaxSlabs] = c
<1>1. /\ c \in Seq(Places) /\ Distinct(c) /\ p.slab_head = At(c, 1)
      /\ \A k \in 1 .. Len(c) : sl[c[k]].next = At(c, k + 1)
  BY DEF ChainOK
<1>2. Len(c) \in Nat /\ Len(c) <= MaxSlabs /\ MaxSlabs \in Nat /\ Null \notin Places
  BY <1>1, NoLonger, Addresses DEF MaxSlabs
<1>3. PICK N, m : N = MaxSlabs /\ m = Len(c) OBVIOUS
<1> DEFINE g == [n \in 0 .. N |-> First(c, IF n <= m THEN n ELSE m)]
           Next(f, n) == LET d == f[n - 1]
                             s == IF d = <<>> THEN p.slab_head ELSE sl[d[Len(d)]].next
                         IN  IF s = Null THEN d ELSE Append(d, s)
\* One round of the loop takes a part of the chain to the next longer one.
<1>4. ASSUME NEW n \in 1 .. N, NEW f, f[n - 1] = g[n - 1] PROVE Next(f, n) = g[n]
  <2>02. n \in 0 .. N BY <1>2, <1>3
  <2>1. PICK k : k = IF n - 1 <= m THEN n - 1 ELSE m OBVIOUS
  <2>2. k \in 0 .. m /\ n - 1 \in 0 .. N BY <1>2, <1>3, <2>1
  <2>3. PICK d : d = First(c, k) OBVIOUS
  <2>4. f[n - 1] = d BY <1>4, <2>1, <2>2, <2>3
  <2>5. /\ d \in Seq(Places) /\ Len(d) = k /\ (\A j \in 1 .. k : d[j] = c[j])
        /\ d = <<>> <=> k = 0
        /\ k < m => Append(d, c[k + 1]) = First(c, k + 1)
    <3>1. k \in 0 .. Len(c) BY <1>3, <2>2
    <3>2. /\ First(c, k) \in Seq(Places) /\ Len(First(c, k)) = k
          /\ (\A j \in 1 .. k : First(c, k)[j] = c[j]) /\ (First(c, k) = <<>> <=> k = 0)
          /\ k < Len(c) => Append(First(c, k), c[k + 1]) = First(c, k + 1)
      BY <1>1, <3>1, FirstIs
    <3>3. QED BY <1>3, <2>3, <3>2
  <2>6. PICK s : s = IF d = <<>> THEN p.slab_head ELSE sl[d[Len(d)]].next OBVIOUS
  <2>7. s = At(c, k + 1)
    <3>1. CASE k = 0 BY <1>1, <2>5, <2>6, <3>1
    <3>2. CASE k # 0
      <4>1. k \in 1 .. Len(c) /\ d[Len(d)] = c[k] BY <1>3, <2>2, <2>5, <3>2
      <4>2. QED BY <1>1, <2>5, <2>6, <3>2, <4>1
    <3>3. QED BY <3>1, <3>2
  <2>8. Next(f, n) = IF s = Null THEN d ELSE Append(d, s) BY <2>4, <2>6
  <2>9. CASE k = m
    <3>1. k + 1 \notin 1 .. Len(c) BY <1>2, <1>3, <2>9
    <3>2. s = Null BY <2>7, <3>1 DEF At
    <3>3. (IF n <= m THEN n ELSE m) = m BY <1>2, <1>3, <2>1, <2>2, <2>9
    <3>4. g[n] = First(c, m) BY <2>02, <3>3
    <3>5. QED BY <2>3, <2>8, <2>9, <3>2, <3>4
  <2>10. CASE k # m
    <3>1. k + 1 \in 1 .. Len(c) /\ k < m BY <1>2, <1>3, <2>2, <2>10
    <3>2. s = c[k + 1] /\ s \in Places BY <1>1, <2>7, <3>1, AtIs
    <3>3. (IF n <= m THEN n ELSE m) = k + 1 BY <1>2, <1>3, <2>1, <2>2, <2>10
    <3>4. s # Null BY <1>2, <3>2
    <3>5. g[n] = First(c, k + 1) BY <2>02, <3>3
    <3>6. Next(f, n) = Append(d, s) BY <2>8, <3>4
    <3>7. QED BY <2>5, <3>1, <3>2, <3>5, <3>6
  <2>11. QED BY <2>9, <2>10
<1>5. g[0] = <<>>
  <2>1. 0 \in 0 .. Len(c) /\ 0 \in 0 .. N /\ (IF 0 <= m THEN 0 ELSE m) = 0 BY <1>2, <1>3
  <2>2. First(c, 0) = <<>> BY <1>1, <2>1, FirstIs
  <2>3. QED BY <2>1, <2>2
<1>6. g = ChainBody(p, sl, g)
  <2>1. \A n \in 0 .. N : g[n] = IF n = 0 THEN <<>> ELSE Next(g, n)
    <3>1. ASSUME NEW n \in 0 .. N PROVE g[n] = IF n = 0 THEN <<>> ELSE Next(g, n)
      <4>1. CASE n = 0 BY <1>5, <4>1
      <4>2. CASE n # 0
        <5>1. n \in 1 .. N BY <1>2, <1>3, <4>2
        <5>2. QED BY <1>4, <4>2, <5>1
      <4>3. QED BY <4>1, <4>2
    <3>2. QED BY <3>1
  <2>2. ChainBody(p, sl, g) = [n \in 0 .. N |-> IF n = 0 THEN <<>> ELSE Next(g, n)]
    BY <1>3 DEF ChainBody
  <2>3. g = [n \in 0 .. N |-> g[n]] OBVIOUS
  <2> HIDE DEF g, Next
  <2>4. QED BY <2>1, <2>2, <2>3
<1>7. PICK f : f = ChainFn(p, sl) OBVIOUS
<1>8. f = ChainBody(p, sl, f) BY <1>6, <1>7 DEF ChainFn
<1>9. \A n \in 0 .. N : f[n] = IF n = 0 THEN <<>> ELSE Next(f, n) BY <1>3, <1>8 DEF ChainBody
<1> HIDE DEF g, Next
<1>10. \A n \in 0 .. N : f[n] = g[n]
  <2> DEFINE T == {n \in 0 .. N : f[n] # g[n]}
  <2>1. SUFFICES ASSUME T # {} PROVE FALSE OBVIOUS
  <2>2. T \subseteq Nat BY <1>2, <1>3
  <2>3. PICK n \in T : \A k \in T : n <= k
    <3> HIDE DEF T
    <3>1. QED BY <2>1, <2>2, LeastOf
  <2>4. n # 0 BY <1>5, <1>9, <2>3
  <2>5. n \in 1 .. N /\ n - 1 \in 0 .. N /\ n - 1 < n BY <1>2, <1>3, <2>3, <2>4
  <2>6. f[n - 1] = g[n - 1] BY <2>3, <2>5
  <2>7. Next(f, n) = g[n] BY <1>4, <2>5, <2>6
  <2>8. QED BY <1>9, <2>3, <2>4, <2>7
<1>11. g[N] = c
  <2>1. N \in 0 .. N /\ (IF N <= m THEN N ELSE m) = m /\ m \in 0 .. Len(c) BY <1>2, <1>3
  <2>2. First(c, m) = c BY <1>1, <1>3, <2>1, FirstIs
  <2>3. QED BY <2>1, <2>2 DEF g
<1>12. N \in 0 .. N BY <1>2, <1>3
<1>13. QED BY <1>3, <1>7, <1>10, <1>11, <1>12

LEMMA ChainFound ==
    ASSUME NEW c, ChainOK(pool, slabs, c)
    PROVE  Chain = c /\ InChain = Within(c)
<1>1. Chain = ChainFn(pool, slabs)[MaxSlabs] BY DEF Chain, ChainFn, ChainBody
<1>2. Chain = c BY <1>1, ChainWalks
<1>3. QED BY <1>2 DEF InChain, Within

LEMMA SlabObjects ==
    ASSUME NEW s \in Places
    PROVE  IsFiniteSet(ObjectsOf(s)) /\ Cardinality(ObjectsOf(s)) = ObjNum
<1>1. ObjNum \in Nat BY Addresses
<1>2. IsFiniteSet(1 .. ObjNum) /\ Cardinality(1 .. ObjNum) = ObjNum
  <2>1. /\ IsFiniteSet(1 .. ObjNum)
        /\ Cardinality(1 .. ObjNum) = IF 1 > ObjNum THEN 0 ELSE ObjNum - 1 + 1
    BY <1>1, FS_Interval
  <2>2. QED BY <1>1, <2>1
<1>3. IsFiniteSet({s}) /\ Cardinality({s}) = 1 BY FS_Singleton
<1>4. /\ IsFiniteSet({s} \X (1 .. ObjNum))
      /\ Cardinality({s} \X (1 .. ObjNum)) = Cardinality({s}) * Cardinality(1 .. ObjNum)
  BY <1>2, <1>3, FS_Product
<1>5. 1 * ObjNum = ObjNum BY <1>1
<1>6. QED BY <1>2, <1>3, <1>4, <1>5 DEF ObjectsOf

FreeBody(sl, fp, s, f) ==
    [n \in 0 .. ObjNum |->
        IF n = 0 THEN <<sl[s].free>>
        ELSE LET c == f[n - 1] IN
             IF c[Len(c)] \in Objects THEN Append(c, fp[c[Len(c)]]) ELSE c]
FreeFn(sl, fp, s) == CHOOSE f : f = FreeBody(sl, fp, s, f)

LEMMA FreeWalks ==
    ASSUME NEW sl, NEW fp, NEW h, NEW s \in Places, NEW l, ListOK(sl, fp, h, s, l)
    PROVE  FreeFn(sl, fp, s)[ObjNum] = Append(l, Null)
<1>1. /\ l \in Seq(ObjectsOf(s)) /\ Distinct(l) /\ sl[s].free = At(l, 1)
      /\ \A k \in 1 .. Len(l) : fp[l[k]] = At(l, k + 1)
  BY DEF ListOK
<1>2. Len(l) \in Nat /\ Len(l) <= ObjNum /\ ObjNum \in Nat /\ Null \notin Objects
  BY <1>1, NoLonger, SlabObjects, Addresses
<1>3. PICK N, W : N = ObjNum /\ W = Objects \cup {Null} OBVIOUS
<1>4. PICK q, m : q = Append(l, Null) /\ m = Len(l) + 1 OBVIOUS
<1>5. /\ q \in Seq(W) /\ Len(q) = m /\ m \in Nat \ {0} /\ m - 1 <= N /\ N \in Nat
      /\ \A k \in 1 .. m : q[k] = At(l, k)
      /\ \A k \in 1 .. m : q[k] \in Objects <=> k < m
  <2>1. ObjectsOf(s) \subseteq W BY <1>3, Addresses
  <2>2. l \in Seq(W) /\ Null \in W BY <1>1, <1>3, <2>1, SeqMonotonic
  <2>3. /\ q \in Seq(W) /\ Len(q) = m /\ q[m] = Null
        /\ \A k \in 1 .. Len(l) : q[k] = l[k]
    BY <1>2, <1>4, <2>2, AppendProperties
  <2>4. \A k \in 1 .. Len(l) : At(l, k) = l[k] /\ l[k] \in Objects
    BY <1>1, AtIs, Addresses
  <2>5. \A k : k \notin 1 .. Len(l) => At(l, k) = Null BY DEF At
  <2>6. \A k \in 1 .. m : k = m \/ k \in 1 .. Len(l) BY <1>2, <1>4
  <2>7. \A k \in 1 .. m : q[k] = At(l, k) BY <1>2, <1>4, <2>3, <2>4, <2>5, <2>6
  <2>8. \A k \in 1 .. m : q[k] \in Objects <=> k < m BY <1>2, <1>4, <2>3, <2>4, <2>6
  <2>9. QED BY <1>2, <1>3, <1>4, <2>3, <2>7, <2>8
<1>6. \A k \in 1 .. m : k < m => fp[q[k]] = q[k + 1]
  <2>1. ASSUME NEW k \in 1 .. m, k < m PROVE fp[q[k]] = q[k + 1]
    <3>1. k \in 1 .. Len(l) /\ k + 1 \in 1 .. m BY <1>2, <1>4, <2>1
    <3>2. q[k] = l[k] BY <1>5, <3>1 DEF At
    <3>3. QED BY <1>1, <1>5, <3>1, <3>2
  <2>2. QED BY <2>1
<1> DEFINE g == [n \in 0 .. N |-> First(q, IF n + 1 <= m THEN n + 1 ELSE m)]
           Next(f, n) == LET d == f[n - 1] IN
                         IF d[Len(d)] \in Objects THEN Append(d, fp[d[Len(d)]]) ELSE d
\* One round of the loop takes a part of the list to the next longer one.
<1>7. ASSUME NEW n \in 1 .. N, NEW f, f[n - 1] = g[n - 1] PROVE Next(f, n) = g[n]
  <2>1. n \in 0 .. N /\ n - 1 \in 0 .. N BY <1>5
  <2>2. PICK k : k = IF n <= m THEN n ELSE m OBVIOUS
  <2>3. k \in 1 .. m /\ k \in 0 .. Len(q) BY <1>5, <2>2
  <2>4. PICK d : d = First(q, k) OBVIOUS
  <2>5. f[n - 1] = d
    <3>1. (n - 1) + 1 = n BY <2>1
    <3>2. g[n - 1] = First(q, IF n <= m THEN n ELSE m) BY <2>1, <3>1
    <3>3. QED BY <1>7, <2>2, <2>4, <3>2
  <2>6. /\ Len(d) = k /\ d[k] = q[k]
        /\ k < m => Append(d, q[k + 1]) = First(q, k + 1)
    <3>1. /\ Len(First(q, k)) = k /\ \A j \in 1 .. k : First(q, k)[j] = q[j]
          /\ k < Len(q) => Append(First(q, k), q[k + 1]) = First(q, k + 1)
      BY <1>5, <2>3, FirstIs
    <3>2. k \in 1 .. k BY <1>5, <2>3
    <3>3. QED BY <1>5, <2>4, <3>1, <3>2
  <2>7. Next(f, n) = IF q[k] \in Objects THEN Append(d, fp[q[k]]) ELSE d BY <2>5, <2>6
  <2>8. CASE k = m
    <3>1. ~(k < m) /\ (IF n + 1 <= m THEN n + 1 ELSE m) = m BY <1>5, <2>1, <2>2, <2>8
    <3>2. Next(f, n) = d BY <1>5, <2>3, <2>7, <3>1
    <3>3. g[n] = First(q, m) BY <2>1, <3>1
    <3>4. QED BY <2>4, <2>8, <3>2, <3>3
  <2>9. CASE k # m
    <3>1. k < m /\ (IF n + 1 <= m THEN n + 1 ELSE m) = k + 1 BY <1>5, <2>1, <2>2, <2>3, <2>9
    <3>2. q[k] \in Objects /\ fp[q[k]] = q[k + 1] BY <1>5, <1>6, <2>3, <3>1
    <3>3. Next(f, n) = Append(d, q[k + 1]) BY <2>7, <3>2
    <3>4. g[n] = First(q, k + 1) BY <2>1, <3>1
    <3>5. QED BY <2>6, <3>1, <3>3, <3>4
  <2>10. QED BY <2>8, <2>9
<1>8. g[0] = <<sl[s].free>>
  <2>1. 1 \in 0 .. Len(q) /\ 0 \in 0 .. N /\ (IF 0 + 1 <= m THEN 0 + 1 ELSE m) = 1 /\ 1 \in 1 .. m
    BY <1>5
  <2>2. First(q, 1) = [k \in 1 .. 1 |-> q[1]]
    <3>1. \A k \in 1 .. 1 : k = 1 OBVIOUS
    <3>2. QED BY <3>1 DEF First
  <2>3. q[1] = sl[s].free BY <1>1, <1>5, <2>1
  <2>4. \A x : [k \in 1 .. 1 |-> x] = <<x>> OBVIOUS
  <2>5. QED BY <2>1, <2>2, <2>3, <2>4
<1>9. g = FreeBody(sl, fp, s, g)
  <2>1. \A n \in 0 .. N : g[n] = IF n = 0 THEN <<sl[s].free>> ELSE Next(g, n)
    <3>1. ASSUME NEW n \in 0 .. N PROVE g[n] = IF n = 0 THEN <<sl[s].free>> ELSE Next(g, n)
      <4>1. CASE n = 0 BY <1>8, <4>1
      <4>2. CASE n # 0
        <5>1. n \in 1 .. N BY <1>5, <4>2
        <5> HIDE DEF g, Next
        <5>2. Next(g, n) = g[n] BY <1>7, <5>1
        <5>3. QED BY <4>2, <5>2
      <4>3. QED BY <4>1, <4>2
    <3>2. QED BY <3>1
  <2>2. FreeBody(sl, fp, s, g) = [n \in 0 .. N |-> IF n = 0 THEN <<sl[s].free>> ELSE Next(g, n)]
    BY <1>3 DEF FreeBody
  <2>3. g = [n \in 0 .. N |-> g[n]] OBVIOUS
  <2> HIDE DEF g, Next
  <2>4. QED BY <2>1, <2>2, <2>3
<1>10. PICK f : f = FreeFn(sl, fp, s) OBVIOUS
<1>11. f = FreeBody(sl, fp, s, f) BY <1>9, <1>10 DEF FreeFn
<1>12. \A n \in 0 .. N : f[n] = IF n = 0 THEN <<sl[s].free>> ELSE Next(f, n)
  BY <1>3, <1>11 DEF FreeBody
<1> HIDE DEF g, Next
<1>13. \A n \in 0 .. N : f[n] = g[n]
  <2> DEFINE T == {n \in 0 .. N : f[n] # g[n]}
  <2>1. SUFFICES ASSUME T # {} PROVE FALSE OBVIOUS
  <2>2. T \subseteq Nat BY <1>5
  <2>3. PICK n \in T : \A k \in T : n <= k
    <3> HIDE DEF T
    <3>1. QED BY <2>1, <2>2, LeastOf
  <2>4. n # 0 BY <1>8, <1>12, <2>3
  <2>5. n \in 1 .. N /\ n - 1 \in 0 .. N /\ n - 1 < n BY <1>5, <2>3, <2>4
  <2>6. f[n - 1] = g[n - 1] BY <2>3, <2>5
  <2>7. Next(f, n) = g[n] BY <1>7, <2>5, <2>6
  <2>8. QED BY <1>12, <2>3, <2>4, <2>7
<1>14. g[N] = q
  <2>1. N \in 0 .. N /\ (IF N + 1 <= m THEN N + 1 ELSE m) = m /\ m \in 0 .. Len(q) BY <1>5
  <2>2. First(q, m) = q BY <1>5, <2>1, FirstIs
  <2>3. QED BY <2>1, <2>2 DEF g
<1>15. N \in 0 .. N BY <1>5
<1>16. QED BY <1>3, <1>4, <1>10, <1>13, <1>14, <1>15

LEMMA ListFound ==
    ASSUME NEW s \in Places, NEW l, ListOK(slabs, freeptr, held, s, l)
    PROVE  LET list == FreeList(s) IN
           /\ list[Len(list)] = Null
           /\ {list[k] : k \in 1 .. Len(list)} \ {Null} = ObjectsOf(s) \ held
<1>1. FreeList(s) = FreeFn(slabs, freeptr, s)[ObjNum] BY DEF FreeList, FreeFn, FreeBody
<1>2. FreeList(s) = Append(l, Null) BY <1>1, FreeWalks
<1>3. l \in Seq(ObjectsOf(s)) /\ Within(l) = ObjectsOf(s) \ held BY DEF ListOK
<1>4. PICK q, W : q = Append(l, Null) /\ W = ObjectsOf(s) \cup {Null} OBVIOUS
<1>5. l \in Seq(W) /\ Null \in W BY <1>3, <1>4, SeqMonotonic
<1>6. /\ Len(q) = Len(l) + 1 /\ Len(l) \in Nat /\ q[Len(l) + 1] = Null
      /\ \A k \in 1 .. Len(l) : q[k] = l[k]
  BY <1>4, <1>5, AppendProperties, LenProperties
<1>7. Null \notin Within(l) BY <1>3, Addresses
<1>8. \A x : x \in {q[k] : k \in 1 .. Len(q)} \ {Null} <=> x \in Within(l)
  <2>1. ASSUME NEW x \in Within(l) PROVE x \in {q[k] : k \in 1 .. Len(q)} \ {Null}
    <3>1. PICK k \in 1 .. Len(l) : x = l[k] BY DEF Within
    <3>2. k \in 1 .. Len(q) /\ q[k] = x BY <1>6, <3>1
    <3>3. QED BY <1>7, <3>2
  <2>2. ASSUME NEW x \in {q[k] : k \in 1 .. Len(q)}, x # Null PROVE x \in Within(l)
    <3>1. PICK k \in 1 .. Len(q) : q[k] = x BY <2>2
    <3>2. k \in 1 .. Len(l) BY <1>6, <2>2, <3>1
    <3>3. QED BY <1>6, <3>1, <3>2 DEF Within
  <2>3. QED BY <2>1, <2>2
<1>9. QED BY <1>2, <1>3, <1>4, <1>6, <1>8

-----------------------------------------------------------------------------
(* A memory as objpool_alloc and objpool_free change it *)

LEMMA SoundParts ==
    ASSUME NEW p, NEW sl, NEW fp, NEW h, NEW c, Sound(p, sl, fp, h, c)
    PROVE  /\ p \in PoolSet /\ sl \in [Places -> SlabSet]
           /\ fp \in [Objects -> Objects \cup SlabPtrs \cup {Null}] /\ h \subseteq Objects
           /\ IsFiniteSet(h) /\ Cardinality(h) \in Nat
           /\ c \in Seq(Places) /\ Distinct(c) /\ Len(c) \in Nat /\ Len(c) <= MaxSlabs
           /\ Within(c) \subseteq Places
           /\ IsFiniteSet(Within(c)) /\ Cardinality(Within(c)) = Len(c)
<1>1. /\ p \in PoolSet /\ sl \in [Places -> SlabSet] /\ h \subseteq Objects
      /\ fp \in [Objects -> Objects \cup SlabPtrs \cup {Null}]
      /\ c \in Seq(Places) /\ Distinct(c)
  BY DEF Sound, MemTyped, ChainOK
<1>2. IsFiniteSet(h) /\ Cardinality(h) \in Nat BY <1>1, Addresses, FS_Subset, FS_CardinalityType
<1>3. IsFiniteSet(Places) BY Addresses
<1>4. /\ IsFiniteSet(Within(c)) /\ Cardinality(Within(c)) = Len(c)
      /\ Within(c) \subseteq Places /\ Len(c) \in Nat /\ Len(c) <= Cardinality(Places)
  BY <1>1, <1>3, NoLonger
<1>5. QED BY <1>1, <1>2, <1>4 DEF MaxSlabs

LEMMA ChainSame ==
    ASSUME NEW p, NEW sl, NEW c, ChainOK(p, sl, c), NEW p2, NEW sl2,
           p2.slab_head = p.slab_head, p2.recent_slab \in Within(c) \cup {Null},
           \A s \in Places : sl2[s].next = sl[s].next /\ sl2[s].id = sl[s].id
    PROVE  ChainOK(p2, sl2, c)
<1>1. /\ c \in Seq(Places) /\ Distinct(c) /\ p.slab_head = At(c, 1)
      /\ \A k \in 1 .. Len(c) : sl[c[k]].next = At(c, k + 1) /\ sl[c[k]].id = Len(c) - k
  BY DEF ChainOK
<1>2. \A k \in 1 .. Len(c) : c[k] \in Places BY <1>1, AtIs
<1>3. QED BY <1>1, <1>2 DEF ChainOK

LEMMA SlabSame ==
    ASSUME NEW sl, NEW fp, NEW h, NEW s \in Places, SlabOK(sl, fp, h, s),
           NEW sl2, NEW fp2, NEW h2, sl2[s].free = sl[s].free,
           \A o \in ObjectsOf(s) : fp2[o] = fp[o] /\ (o \in h2 <=> o \in h)
    PROVE  SlabOK(sl2, fp2, h2, s)
<1>1. PICK l : ListOK(sl, fp, h, s, l) BY DEF SlabOK
<1>2. /\ l \in Seq(ObjectsOf(s)) /\ Distinct(l) /\ Within(l) = ObjectsOf(s) \ h
      /\ sl[s].free = At(l, 1) /\ \A k \in 1 .. Len(l) : fp[l[k]] = At(l, k + 1)
  BY <1>1 DEF ListOK
<1>3. \A k \in 1 .. Len(l) : l[k] \in ObjectsOf(s) BY <1>2, AtIs
<1>4. Within(l) = ObjectsOf(s) \ h2 BY <1>2
<1>5. ListOK(sl2, fp2, h2, s, l) BY <1>2, <1>3, <1>4 DEF ListOK
<1>6. \A o \in h2 \cap ObjectsOf(s) : fp2[o] = SlabPtr(s) BY DEF SlabOK
<1>7. QED BY <1>5, <1>6 DEF SlabOK

LEMMA TakeSound ==
    ASSUME NEW p, NEW sl, NEW fp, NEW h, NEW c, Sound(p, sl, fp, h, c),
           NEW s \in Within(c), NEW o, o = sl[s].free, o # Null
    PROVE  /\ o \in Objects
           /\ Sound([p EXCEPT !.free_obj_nr = @ - 1], [sl EXCEPT ![s].free = fp[o]],
                    [fp EXCEPT ![o] = SlabPtr(s)], h \cup {o}, c)
<1>1. PICK p2, sl2 : /\ p2 = [p EXCEPT !.free_obj_nr = @ - 1]
                     /\ sl2 = [sl EXCEPT ![s].free = fp[o]]
  OBVIOUS
<1>2. PICK fp2, h2 : fp2 = [fp EXCEPT ![o] = SlabPtr(s)] /\ h2 = h \cup {o} OBVIOUS
<1>3. /\ p \in PoolSet /\ sl \in [Places -> SlabSet] /\ h \subseteq Objects
      /\ fp \in [Objects -> Objects \cup SlabPtrs \cup {Null}]
      /\ IsFiniteSet(h) /\ Cardinality(h) \in Nat /\ s \in Places /\ Within(c) \subseteq Places
  BY SoundParts
<1>4. SlabOK(sl, fp, h, s) BY DEF Sound
<1>5. PICK l : ListOK(sl, fp, h, s, l) BY <1>4 DEF SlabOK
<1>6. /\ l \in Seq(ObjectsOf(s)) /\ Distinct(l) /\ Within(l) = ObjectsOf(s) \ h
      /\ o = At(l, 1) /\ \A k \in 1 .. Len(l) : fp[l[k]] = At(l, k + 1)
  BY <1>5 DEF ListOK
<1>7. 1 \in 1 .. Len(l) /\ o = l[1] /\ o \in Within(l) /\ l # <<>>
  <2>1. 1 \in 1 .. Len(l) BY <1>6 DEF At
  <2>2. o = l[1] BY <1>6, <2>1 DEF At
  <2>3. l # <<>> BY <2>1
  <2>4. QED BY <2>1, <2>2, <2>3 DEF Within
<1>8. o \in ObjectsOf(s) /\ o \notin h /\ o \in Objects /\ o[1] = s
  BY <1>3, <1>6, <1>7, Addresses
<1>9. fp[o] = At(l, 2) /\ fp[o] \in Objects \cup {Null}
  <2>1. fp[o] = At(l, 1 + 1) BY <1>6, <1>7
  <2>2. At(l, 2) \in ObjectsOf(s) \cup {Null} BY <1>6, AtIs
  <2>3. ObjectsOf(s) \subseteq Objects BY <1>3, Addresses
  <2>4. QED BY <2>1, <2>2, <2>3
<1>10. /\ p2 \in PoolSet /\ p2.slab_nr = p.slab_nr /\ p2.obj_nr = p.obj_nr
       /\ p2.slab_head = p.slab_head /\ p2.recent_slab = p.recent_slab
       /\ p2.free_obj_nr = p.free_obj_nr - 1
  BY <1>1, <1>3 DEF PoolSet
<1>11. /\ sl2 \in [Places -> SlabSet] /\ sl2[s].free = fp[o]
       /\ \A t \in Places : /\ sl2[t].next = sl[t].next /\ sl2[t].id = sl[t].id
                            /\ t # s => sl2[t].free = sl[t].free
  BY <1>1, <1>3, <1>9 DEF SlabSet
<1>12. /\ fp2 \in [Objects -> Objects \cup SlabPtrs \cup {Null}] /\ fp2[o] = SlabPtr(s)
       /\ \A x \in Objects : x # o => fp2[x] = fp[x]
  <2>1. SlabPtr(s) \in SlabPtrs BY <1>3, Addresses
  <2>2. QED BY <1>2, <1>3, <1>8, <2>1
<1>13. MemTyped(p2, sl2, fp2, h2) BY <1>2, <1>3, <1>8, <1>10, <1>11, <1>12 DEF MemTyped
<1>14. ChainOK(p2, sl2, c)
  <2>1. ChainOK(p, sl, c) BY DEF Sound
  <2>2. p2.recent_slab \in Within(c) \cup {Null} BY <1>10, <2>1 DEF ChainOK
  <2>3. QED BY <1>10, <1>11, <2>1, <2>2, ChainSame
<1>15. ASSUME NEW t \in Within(c) PROVE SlabOK(sl2, fp2, h2, t)
  <2>1. t \in Places /\ SlabOK(sl, fp, h, t) BY <1>3 DEF Sound
  <2>2. CASE t # s
    <3>1. \A x \in ObjectsOf(t) : x \in Objects /\ x # o BY <1>8, <2>1, <2>2, Addresses
    <3>2. \A x \in ObjectsOf(t) : fp2[x] = fp[x] /\ (x \in h2 <=> x \in h)
      BY <1>2, <1>12, <3>1
    <3>3. sl2[t].free = sl[t].free BY <1>11, <2>1, <2>2
    <3>4. QED BY <2>1, <3>2, <3>3, SlabSame
  <2>3. CASE t = s
    <3>1. PICK m : m = Tail(l) OBVIOUS
    <3>2. /\ m \in Seq(ObjectsOf(s)) /\ Len(m) = Len(l) - 1 /\ Distinct(m)
          /\ \A k \in 1 .. Len(l) - 1 : m[k] = l[k + 1]
          /\ \A k \in Nat \ {0} : At(m, k) = At(l, k + 1)
          /\ Within(m) = Within(l) \ {l[1]}
      BY <1>6, <1>7, <3>1, Popped
    <3>3. Within(m) = ObjectsOf(s) \ h2 BY <1>2, <1>6, <1>7, <3>2
    <3>4. sl2[s].free = At(m, 1) BY <1>9, <1>11, <3>2
    <3>5. ASSUME NEW k \in 1 .. Len(m) PROVE fp2[m[k]] = At(m, k + 1)
      <4>1. Len(l) \in Nat /\ Len(m) = Len(l) - 1 BY <1>6, <3>2, AtIs
      <4>2. k + 1 \in 1 .. Len(l) /\ k \in 1 .. Len(l) - 1 /\ k + 1 # 1 /\ k + 1 \in Nat \ {0}
        BY <4>1
      <4>3. m[k] = l[k + 1] /\ m[k] # o BY <1>6, <1>7, <3>2, <4>2 DEF Distinct
      <4>4. m[k] \in Objects
        <5>1. l[k + 1] \in ObjectsOf(s) BY <1>6, <4>2, AtIs
        <5>2. ObjectsOf(s) \subseteq Objects BY <1>3, Addresses
        <5>3. QED BY <4>3, <5>1, <5>2
      <4>5. fp2[m[k]] = fp[l[k + 1]] BY <1>12, <4>3, <4>4
      <4>6. fp[l[k + 1]] = At(l, (k + 1) + 1) BY <1>6, <4>2
      <4>7. At(m, k + 1) = At(l, (k + 1) + 1) BY <3>2, <4>2
      <4>8. QED BY <4>5, <4>6, <4>7
    <3>6. ListOK(sl2, fp2, h2, s, m) BY <3>2, <3>3, <3>4, <3>5 DEF ListOK
    <3>7. ASSUME NEW x \in h2 \cap ObjectsOf(s) PROVE fp2[x] = SlabPtr(s)
      <4>1. CASE x = o BY <1>12, <4>1
      <4>2. CASE x # o
        <5>1. x \in h \cap ObjectsOf(s) /\ x \in Objects BY <1>2, <1>3, <3>7, <4>2
        <5>2. QED BY <1>4, <1>12, <4>2, <5>1 DEF SlabOK
      <4>3. QED BY <4>1, <4>2
    <3>8. QED BY <2>3, <3>6, <3>7 DEF SlabOK
  <2>4. QED BY <2>2, <2>3
<1>16. CountsOK(p2, h2, c)
  <2>1. /\ p.slab_nr = Len(c) /\ p.obj_nr = ObjNum * Len(c)
        /\ p.free_obj_nr = p.obj_nr - Cardinality(h) /\ \A x \in h : x[1] \in Within(c)
    BY DEF Sound, CountsOK
  <2>2. Cardinality(h2) = Cardinality(h) + 1 BY <1>2, <1>3, <1>8, FS_AddElement
  <2>3. p.obj_nr \in Int BY <1>3 DEF PoolSet
  <2>4. p2.free_obj_nr = p2.obj_nr - Cardinality(h2) BY <1>3, <1>10, <2>1, <2>2, <2>3
  <2>5. \A x \in h2 : x[1] \in Within(c) BY <1>2, <1>8, <2>1
  <2>6. QED BY <1>10, <2>1, <2>4, <2>5 DEF CountsOK
<1>17. Sound(p2, sl2, fp2, h2, c) BY <1>13, <1>14, <1>15, <1>16 DEF Sound
<1>18. QED BY <1>1, <1>2, <1>8, <1>17

LEMMA PutSound ==
    ASSUME NEW p, NEW sl, NEW fp, NEW h, NEW c, Sound(p, sl, fp, h, c), NEW o \in h,
           NEW s, s = fp[o][1]
    PROVE  Sound([p EXCEPT !.free_obj_nr = @ + 1], [sl EXCEPT ![s].free = o],
                 [fp EXCEPT ![o] = sl[s].free], h \ {o}, c)
<1>1. PICK p2, sl2 : /\ p2 = [p EXCEPT !.free_obj_nr = @ + 1]
                     /\ sl2 = [sl EXCEPT ![s].free = o]
  OBVIOUS
<1>2. PICK fp2, h2 : fp2 = [fp EXCEPT ![o] = sl[s].free] /\ h2 = h \ {o} OBVIOUS
<1>3. /\ p \in PoolSet /\ sl \in [Places -> SlabSet] /\ h \subseteq Objects
      /\ fp \in [Objects -> Objects \cup SlabPtrs \cup {Null}]
      /\ IsFiniteSet(h) /\ Cardinality(h) \in Nat /\ Within(c) \subseteq Places
  BY SoundParts
<1>4. o \in Objects /\ s \in Within(c) /\ s \in Places /\ o \in ObjectsOf(s)
  <2>1. PICK t : t = o[1] OBVIOUS
  <2>2. o \in Objects /\ t \in Within(c) /\ t \in Places BY <1>3, <2>1 DEF Sound, CountsOK
  <2>3. o \in ObjectsOf(t) BY <2>1, <2>2, Addresses
  <2>4. SlabOK(sl, fp, h, t) BY <2>2 DEF Sound
  <2>5. fp[o] = SlabPtr(t) BY <2>3, <2>4 DEF SlabOK
  <2>6. s = t BY <2>2, <2>5, Addresses
  <2>7. QED BY <2>2, <2>3, <2>6
<1>5. SlabOK(sl, fp, h, s) BY <1>4 DEF Sound
<1>6. PICK l : ListOK(sl, fp, h, s, l) BY <1>5 DEF SlabOK
<1>7. /\ l \in Seq(ObjectsOf(s)) /\ Distinct(l) /\ Within(l) = ObjectsOf(s) \ h
      /\ sl[s].free = At(l, 1) /\ \A k \in 1 .. Len(l) : fp[l[k]] = At(l, k + 1)
  BY <1>6 DEF ListOK
<1>8. sl[s].free \in Objects \cup {Null} BY <1>3, <1>4 DEF SlabSet
<1>9. /\ p2 \in PoolSet /\ p2.slab_nr = p.slab_nr /\ p2.obj_nr = p.obj_nr
      /\ p2.slab_head = p.slab_head /\ p2.recent_slab = p.recent_slab
      /\ p2.free_obj_nr = p.free_obj_nr + 1
  BY <1>1, <1>3 DEF PoolSet
<1>10. /\ sl2 \in [Places -> SlabSet] /\ sl2[s].free = o
       /\ \A t \in Places : /\ sl2[t].next = sl[t].next /\ sl2[t].id = sl[t].id
                            /\ t # s => sl2[t].free = sl[t].free
  BY <1>1, <1>3, <1>4 DEF SlabSet
<1>11. /\ fp2 \in [Objects -> Objects \cup SlabPtrs \cup {Null}] /\ fp2[o] = sl[s].free
       /\ \A x \in Objects : x # o => fp2[x] = fp[x]
  BY <1>2, <1>3, <1>4, <1>8
<1>12. MemTyped(p2, sl2, fp2, h2) BY <1>2, <1>3, <1>9, <1>10, <1>11 DEF MemTyped
<1>13. ChainOK(p2, sl2, c)
  <2>1. ChainOK(p, sl, c) BY DEF Sound
  <2>2. p2.recent_slab \in Within(c) \cup {Null} BY <1>9, <2>1 DEF ChainOK
  <2>3. QED BY <1>9, <1>10, <2>1, <2>2, ChainSame
<1>14. ASSUME NEW t \in Within(c) PROVE SlabOK(sl2, fp2, h2, t)
  <2>1. t \in Places /\ SlabOK(sl, fp, h, t) BY <1>3 DEF Sound
  <2>2. CASE t # s
    <3>1. \A x \in ObjectsOf(t) : x \in Objects /\ x # o BY <1>4, <2>1, <2>2, Addresses
    <3>2. \A x \in ObjectsOf(t) : fp2[x] = fp[x] /\ (x \in h2 <=> x \in h)
      BY <1>2, <1>11, <3>1
    <3>3. sl2[t].free = sl[t].free BY <1>10, <2>1, <2>2
    <3>4. QED BY <2>1, <3>2, <3>3, SlabSame
  <2>3. CASE t = s
    <3>1. PICK m : m = <<o>> \o l OBVIOUS
    <3>2. o \notin Within(l) BY <1>7
    <3>3. /\ m \in Seq(ObjectsOf(s)) /\ Len(m) = Len(l) + 1 /\ m[1] = o
          /\ \A k \in 1 .. Len(l) : m[k + 1] = l[k]
          /\ \A k \in 1 .. Len(l) + 1 : m[k] = IF k = 1 THEN o ELSE l[k - 1]
          /\ \A k \in Nat \ {0} : At(m, k + 1) = At(l, k)
          /\ Within(m) = Within(l) \cup {o} /\ Distinct(m)
      BY <1>4, <1>7, <3>1, <3>2, Pushed
    <3>4. Within(m) = ObjectsOf(s) \ h2 BY <1>2, <1>4, <1>7, <3>3
    <3>5. Len(l) \in Nat BY <1>7, AtIs
    <3>6. sl2[s].free = At(m, 1)
      <4>1. 1 \in 1 .. Len(m) BY <3>3, <3>5
      <4>2. QED BY <1>10, <3>3, <4>1 DEF At
    <3>7. ASSUME NEW k \in 1 .. Len(m) PROVE fp2[m[k]] = At(m, k + 1)
      <4>1. k \in 1 .. Len(l) + 1 BY <3>3
      <4>2. At(m, k + 1) = At(l, k) BY <3>3, <3>5, <4>1
      <4>3. CASE k = 1 BY <1>7, <1>11, <3>3, <4>2, <4>3
      <4>4. CASE k # 1
        <5>1. k - 1 \in 1 .. Len(l) BY <3>5, <4>1, <4>4
        <5>2. m[k] = l[k - 1] BY <3>3, <4>1, <4>4
        <5>3. m[k] \in Within(l) BY <5>1, <5>2 DEF Within
        <5>4. m[k] # o /\ m[k] \in Objects BY <1>4, <1>7, <5>3, Addresses
        <5>5. fp2[m[k]] = fp[l[k - 1]] BY <1>11, <5>2, <5>4
        <5>6. fp[l[k - 1]] = At(l, (k - 1) + 1) BY <1>7, <5>1
        <5>7. (k - 1) + 1 = k BY <4>1
        <5>8. QED BY <4>2, <5>5, <5>6, <5>7
      <4>5. QED BY <4>3, <4>4
    <3>8. ListOK(sl2, fp2, h2, s, m) BY <3>3, <3>4, <3>6, <3>7 DEF ListOK
    <3>9. ASSUME NEW x \in h2 \cap ObjectsOf(s) PROVE fp2[x] = SlabPtr(s)
      <4>1. x \in h \cap ObjectsOf(s) /\ x # o /\ x \in Objects BY <1>2, <1>3, <3>9
      <4>2. QED BY <1>5, <1>11, <4>1 DEF SlabOK
    <3>10. QED BY <2>3, <3>8, <3>9 DEF SlabOK
  <2>4. QED BY <2>2, <2>3
<1>15. CountsOK(p2, h2, c)
  <2>1. /\ p.slab_nr = Len(c) /\ p.obj_nr = ObjNum * Len(c)
        /\ p.free_obj_nr = p.obj_nr - Cardinality(h) /\ \A x \in h : x[1] \in Within(c)
    BY DEF Sound, CountsOK
  <2>2. Cardinality(h2) = Cardinality(h) - 1 BY <1>2, <1>3, FS_RemoveElement
  <2>3. p.obj_nr \in Int BY <1>3 DEF PoolSet
  <2>4. p2.free_obj_nr = p2.obj_nr - Cardinality(h2) BY <1>3, <1>9, <2>1, <2>2, <2>3
  <2>5. \A x \in h2 : x[1] \in Within(c) BY <1>2, <2>1
  <2>6. QED BY <1>9, <2>1, <2>4, <2>5 DEF CountsOK
<1>16. Sound(p2, sl2, fp2, h2, c) BY <1>12, <1>13, <1>14, <1>15 DEF Sound
<1>17. QED BY <1>1, <1>2, <1>16

\* Another slab of the chain becomes the recent one.
LEMMA RecentSound ==
    ASSUME NEW p, NEW sl, NEW fp, NEW h, NEW c, Sound(p, sl, fp, h, c), NEW s \in Within(c)
    PROVE  Sound([p EXCEPT !.recent_slab = s], sl, fp, h, c)
<1>1. PICK p2 : p2 = [p EXCEPT !.recent_slab = s] OBVIOUS
<1>2. p \in PoolSet /\ s \in Places BY SoundParts
<1>3. /\ p2 \in PoolSet /\ p2.slab_nr = p.slab_nr /\ p2.obj_nr = p.obj_nr
      /\ p2.slab_head = p.slab_head /\ p2.free_obj_nr = p.free_obj_nr /\ p2.recent_slab = s
  BY <1>1, <1>2 DEF PoolSet
<1>4. MemTyped(p2, sl, fp, h) BY <1>3 DEF Sound, MemTyped
<1>5. ChainOK(p2, sl, c)
  <2>1. ChainOK(p, sl, c) BY DEF Sound
  <2>2. QED BY <1>3, <2>1, ChainSame
<1>6. CountsOK(p2, h, c) BY <1>3 DEF Sound, CountsOK
<1>7. Sound(p2, sl, fp, h, c) BY <1>4, <1>5, <1>6 DEF Sound
<1>8. QED BY <1>1, <1>7

\* The free list of a slab that has just been made has all of its objects in order.
LEMMA NewList ==
    ASSUME NEW sl, NEW fp, NEW h, NEW s \in Places, sl[s].free = <<s, 1>>,
           \A o \in ObjectsOf(s) : fp[o] = InitFree(o) /\ o \notin h
    PROVE  SlabOK(sl, fp, h, s)
<1>1. ObjNum \in Nat \ {0} BY Addresses
<1>2. PICK l : l = [k \in 1 .. ObjNum |-> <<s, k>>] OBVIOUS
<1>3. \A k \in 1 .. ObjNum : l[k] = <<s, k>> /\ l[k] \in ObjectsOf(s) BY <1>2 DEF ObjectsOf
<1>4. l \in Seq(ObjectsOf(s)) /\ Len(l) = ObjNum
  <2>1. l \in [1 .. ObjNum -> ObjectsOf(s)] BY <1>2, <1>3
  <2>2. QED BY <1>1, <2>1
<1>5. Distinct(l) BY <1>3, <1>4 DEF Distinct
<1>6. Within(l) = ObjectsOf(s)
  <2>1. Within(l) \subseteq ObjectsOf(s) BY <1>3, <1>4 DEF Within
  <2>2. ASSUME NEW o \in ObjectsOf(s) PROVE o \in Within(l)
    <3>1. o[2] \in 1 .. ObjNum /\ o = <<s, o[2]>> BY DEF ObjectsOf
    <3>2. QED BY <1>3, <1>4, <3>1 DEF Within
  <2>3. QED BY <2>1, <2>2
<1>7. sl[s].free = At(l, 1) BY <1>1, <1>3, <1>4 DEF At
<1>8. ASSUME NEW k \in 1 .. Len(l) PROVE fp[l[k]] = At(l, k + 1)
  <2>1. k \in 1 .. ObjNum /\ l[k] = <<s, k>> /\ l[k] \in ObjectsOf(s) BY <1>3, <1>4
  <2>2. fp[l[k]] = IF k = ObjNum THEN Null ELSE <<s, k + 1>> BY <2>1 DEF InitFree
  <2>3. CASE k = ObjNum
    <3>1. k + 1 \notin 1 .. Len(l) BY <1>1, <1>4, <2>3
    <3>2. QED BY <2>2, <2>3, <3>1 DEF At
  <2>4. CASE k # ObjNum
    <3>1. k + 1 \in 1 .. ObjNum BY <1>1, <2>1, <2>4
    <3>2. QED BY <1>3, <1>4, <2>2, <2>4, <3>1 DEF At
  <2>5. QED BY <2>3, <2>4
<1>9. ListOK(sl, fp, h, s, l) BY <1>4, <1>5, <1>6, <1>7, <1>8 DEF ListOK
<1>10. QED BY <1>9 DEF SlabOK

\* A slab in front of the chain, all of its objects free.
GrownTo(p, sl, fp, s, p2, sl2, fp2) ==
    /\ p2 = [p EXCEPT !.slab_head = s, !.slab_nr = @ + 1, !.obj_nr = @ + ObjNum,
                      !.free_obj_nr = @ + ObjNum]
    /\ sl2 = [sl EXCEPT ![s] = [id |-> NewId(p), next |-> p.slab_head, free |-> <<s, 1>>]]
    /\ fp2 = [o \in Objects |-> IF o[1] = s THEN InitFree(o) ELSE fp[o]]

LEMMA GrowSound ==
    ASSUME NEW p, NEW sl, NEW fp, NEW h, NEW c, Sound(p, sl, fp, h, c),
           NEW s \in Places \ Within(c), NEW p2, NEW sl2, NEW fp2, GrownTo(p, sl, fp, s, p2, sl2, fp2)
    PROVE  /\ Sound(p2, sl2, fp2, h, <<s>> \o c) /\ s \in Within(<<s>> \o c)
           /\ sl2[s].free = <<s, 1>> /\ <<s, 1>> # Null
<1>1. PICK d : d = <<s>> \o c OBVIOUS
<1>01. /\ p2 = [p EXCEPT !.slab_head = s, !.slab_nr = @ + 1, !.obj_nr = @ + ObjNum,
                         !.free_obj_nr = @ + ObjNum]
       /\ sl2 = [sl EXCEPT ![s] = [id |-> NewId(p), next |-> p.slab_head, free |-> <<s, 1>>]]
       /\ fp2 = [o \in Objects |-> IF o[1] = s THEN InitFree(o) ELSE fp[o]]
  BY DEF GrownTo
<1>2. /\ p \in PoolSet /\ sl \in [Places -> SlabSet] /\ h \subseteq Objects
      /\ fp \in [Objects -> Objects \cup SlabPtrs \cup {Null}]
      /\ IsFiniteSet(h) /\ Cardinality(h) \in Nat /\ c \in Seq(Places) /\ Distinct(c)
      /\ Len(c) \in Nat /\ Within(c) \subseteq Places
  BY SoundParts
<1>3. /\ p.slab_nr = Len(c) /\ p.obj_nr = ObjNum * Len(c)
      /\ p.free_obj_nr = p.obj_nr - Cardinality(h) /\ \A x \in h : x[1] \in Within(c)
  BY DEF Sound, CountsOK
<1>4. ChainOK(p, sl, c) BY DEF Sound
<1>5. /\ p.slab_head = At(c, 1) /\ p.recent_slab \in Within(c) \cup {Null}
      /\ \A k \in 1 .. Len(c) : sl[c[k]].next = At(c, k + 1) /\ sl[c[k]].id = Len(c) - k
  BY <1>4 DEF ChainOK
<1>6. s \in Places /\ s \notin Within(c) OBVIOUS
<1>7. /\ d \in Seq(Places) /\ Len(d) = Len(c) + 1 /\ d[1] = s
      /\ \A k \in 1 .. Len(c) : d[k + 1] = c[k]
      /\ \A k \in 1 .. Len(c) + 1 : d[k] = IF k = 1 THEN s ELSE c[k - 1]
      /\ \A k \in Nat \ {0} : At(d, k + 1) = At(c, k)
      /\ Within(d) = Within(c) \cup {s} /\ Distinct(d)
  <2>1. /\ <<s>> \o c \in Seq(Places) /\ Len(<<s>> \o c) = Len(c) + 1
        /\ (<<s>> \o c)[1] = s
        /\ \A k \in 1 .. Len(c) : (<<s>> \o c)[k + 1] = c[k]
        /\ \A k \in 1 .. Len(c) + 1 : (<<s>> \o c)[k] = IF k = 1 THEN s ELSE c[k - 1]
        /\ \A k \in Nat \ {0} : At(<<s>> \o c, k + 1) = At(c, k)
        /\ Within(<<s>> \o c) = Within(c) \cup {s} /\ Distinct(<<s>> \o c)
    BY <1>2, <1>6, Pushed, SMTT(40)
  <2>2. QED BY <1>1, <2>1
<1>8. Len(c) + 1 <= MaxSlabs /\ MaxSlabs \in Nat
  <2>1. IsFiniteSet(Places) /\ MaxSlabs \in Nat BY Addresses
  <2>2. Len(d) <= Cardinality(Places) BY <1>7, <2>1, NoLonger
  <2>3. QED BY <1>7, <2>1, <2>2 DEF MaxSlabs
<1>9. NewId(p) = Len(c) /\ Len(c) \in Ids BY <1>2, <1>3, <1>8 DEF NewId, Ids
<1>10. <<s, 1>> \in Objects /\ <<s, 1>> # Null /\ ObjNum \in Nat \ {0} /\ Null \notin Objects
  BY <1>6, Addresses DEF Objects
<1>11. p.slab_head \in Places \cup {Null} BY <1>2 DEF PoolSet
<1>12. /\ p2 \in PoolSet /\ p2.slab_nr = Len(c) + 1 /\ p2.obj_nr = p.obj_nr + ObjNum
       /\ p2.slab_head = s /\ p2.recent_slab = p.recent_slab
       /\ p2.free_obj_nr = p.free_obj_nr + ObjNum
  <2>1. /\ p.slab_nr \in Nat /\ p.obj_nr \in Int
        /\ p.free_obj_nr \in Int /\ p.slab_head \in Places \cup {Null}
        /\ p.recent_slab \in Places \cup {Null}
    BY <1>2 DEF PoolSet
  <2>2. /\ p2.slab_nr = p.slab_nr + 1 /\ p2.obj_nr = p.obj_nr + ObjNum
        /\ p2.slab_head = s /\ p2.recent_slab = p.recent_slab
        /\ p2.free_obj_nr = p.free_obj_nr + ObjNum
    BY <1>01, <1>2 DEF PoolSet
  <2>3. p.slab_nr + 1 \in Nat /\ p.obj_nr + ObjNum \in Int /\ p.free_obj_nr + ObjNum \in Int
    BY <1>10, <2>1
  <2>4. p2 \in PoolSet BY <1>01, <1>2, <1>6, <2>1, <2>3 DEF PoolSet
  <2>5. QED BY <1>3, <2>2, <2>4
<1>13. PICK new : new = [id |-> NewId(p), next |-> p.slab_head, free |-> <<s, 1>>] OBVIOUS
<1>14. /\ new \in SlabSet /\ new.id = Len(c) /\ new.next = At(c, 1) /\ new.free = <<s, 1>>
  BY <1>5, <1>9, <1>10, <1>11, <1>13 DEF SlabSet
<1>15. /\ sl2 \in [Places -> SlabSet] /\ sl2[s] = new
       /\ \A t \in Places : t # s => sl2[t] = sl[t]
  BY <1>01, <1>2, <1>6, <1>13, <1>14
<1>16. \A o \in Objects : /\ InitFree(o) \in Objects \cup {Null}
                          /\ fp2[o] = IF o[1] = s THEN InitFree(o) ELSE fp[o]
  <2>1. ASSUME NEW o \in Objects PROVE InitFree(o) \in Objects \cup {Null}
    <3>1. o[1] \in Places /\ o[2] \in 1 .. ObjNum BY Addresses
    <3>2. o[2] # ObjNum => o[2] + 1 \in 1 .. ObjNum BY <1>10, <3>1
    <3>3. QED BY <3>1, <3>2 DEF InitFree, Objects
  <2>2. QED BY <1>01, <2>1
<1>17. fp2 \in [Objects -> Objects \cup SlabPtrs \cup {Null}] BY <1>01, <1>2, <1>16
<1>18. MemTyped(p2, sl2, fp2, h) BY <1>2, <1>12, <1>15, <1>17 DEF MemTyped
<1>19. ChainOK(p2, sl2, d)
  <2>1. p2.slab_head = At(d, 1)
    <3>1. 1 \in 1 .. Len(d) BY <1>2, <1>7
    <3>2. QED BY <1>7, <1>12, <3>1 DEF At
  <2>2. ASSUME NEW k \in 1 .. Len(d)
        PROVE  sl2[d[k]].next = At(d, k + 1) /\ sl2[d[k]].id = Len(d) - k
    <3>1. k \in 1 .. Len(c) + 1 /\ At(d, k + 1) = At(c, k) BY <1>2, <1>7
    <3>2. CASE k = 1
      <4>1. d[k] = s /\ sl2[d[k]] = new BY <1>7, <1>15, <3>2
      <4>2. Len(d) - k = Len(c) BY <1>2, <1>7, <3>2
      <4>3. QED BY <1>14, <3>1, <3>2, <4>1, <4>2
    <3>3. CASE k # 1
      <4>1. PICK j : j = k - 1 OBVIOUS
      <4>2. j \in 1 .. Len(c) /\ k = j + 1 /\ Len(d) - k = Len(c) - j
        BY <1>2, <1>7, <3>1, <3>3, <4>1
      <4>3. d[k] = c[j] /\ c[j] \in Within(c) BY <1>7, <4>2 DEF Within
      <4>4. sl2[d[k]] = sl[c[j]] BY <1>2, <1>6, <1>15, <4>3
      <4>5. QED BY <1>5, <3>1, <4>2, <4>4
    <3>4. QED BY <3>2, <3>3
  <2>3. p2.recent_slab \in Within(d) \cup {Null} BY <1>5, <1>7, <1>12
  <2>4. QED BY <1>7, <2>1, <2>2, <2>3 DEF ChainOK
<1>20. ASSUME NEW t \in Within(d) PROVE SlabOK(sl2, fp2, h, t)
  <2>1. CASE t = s
    <3>1. sl2[s].free = <<s, 1>> BY <1>14, <1>15
    <3>2. \A o \in ObjectsOf(s) : o \in Objects /\ o[1] = s BY <1>6, Addresses
    <3>3. \A o \in ObjectsOf(s) : fp2[o] = InitFree(o) /\ o \notin h
      BY <1>3, <1>6, <1>16, <3>2
    <3>4. QED BY <1>6, <2>1, <3>1, <3>3, NewList
  <2>2. CASE t # s
    <3>1. t \in Within(c) /\ t \in Places BY <1>2, <1>7, <2>2
    <3>2. SlabOK(sl, fp, h, t) BY <3>1 DEF Sound
    <3>3. \A o \in ObjectsOf(t) : o \in Objects /\ o[1] = t BY <3>1, Addresses
    <3>4. \A o \in ObjectsOf(t) : fp2[o] = fp[o] /\ (o \in h <=> o \in h)
      BY <1>16, <2>2, <3>3
    <3>5. sl2[t].free = sl[t].free BY <1>15, <2>2, <3>1
    <3>6. QED BY <3>1, <3>2, <3>4, <3>5, SlabSame
  <2>3. QED BY <2>1, <2>2
<1>21. CountsOK(p2, h, d)
  <2>1. PICK n : n = Len(c) OBVIOUS
  <2>2. ObjNum * (n + 1) = ObjNum * n + ObjNum BY <1>2, <1>10, <2>1
  <2>3. p.obj_nr \in Int BY <1>2 DEF PoolSet
  <2>4. p2.slab_nr = Len(d) /\ p2.obj_nr = ObjNum * Len(d) BY <1>3, <1>7, <1>12, <2>1, <2>2
  <2>5. p2.free_obj_nr = p2.obj_nr - Cardinality(h) BY <1>2, <1>3, <1>10, <1>12, <2>3
  <2>6. \A x \in h : x[1] \in Within(d) BY <1>3, <1>7
  <2>7. QED BY <2>4, <2>5, <2>6 DEF CountsOK
<1>22. Sound(p2, sl2, fp2, h, d) BY <1>18, <1>19, <1>20, <1>21 DEF Sound
<1>23. QED BY <1>1, <1>7, <1>10, <1>14, <1>15, <1>22

\* When no slab has a free object the program has all of them.
LEMMA NoRoom ==
    ASSUME NEW p, NEW sl, NEW fp, NEW h, NEW c, Sound(p, sl, fp, h, c),
           \A s \in Within(c) : sl[s].free = Null
    PROVE  p.free_obj_nr = 0
<1>1. /\ h \subseteq Objects /\ Len(c) \in Nat /\ Within(c) \subseteq Places
      /\ IsFiniteSet(Within(c)) /\ Cardinality(Within(c)) = Len(c)
  BY SoundParts
<1>2. /\ p.obj_nr = ObjNum * Len(c) /\ p.free_obj_nr = p.obj_nr - Cardinality(h)
      /\ \A x \in h : x[1] \in Within(c)
  BY DEF Sound, CountsOK
<1>3. ASSUME NEW s \in Within(c) PROVE ObjectsOf(s) \subseteq h
  <2>1. SlabOK(sl, fp, h, s) BY DEF Sound
  <2>2. PICK l : ListOK(sl, fp, h, s, l) BY <2>1 DEF SlabOK
  <2>3. l \in Seq(ObjectsOf(s)) /\ Within(l) = ObjectsOf(s) \ h /\ At(l, 1) = Null
    BY <2>2 DEF ListOK
  <2>4. Null \notin ObjectsOf(s) /\ Len(l) \in Nat BY <1>1, <2>3, AtIs, Addresses
  <2>5. 1 \notin 1 .. Len(l) BY <2>3, <2>4, AtIs
  <2>6. 1 .. Len(l) = {} BY <2>4, <2>5
  <2>7. Within(l) = {} BY <2>6 DEF Within
  <2>8. QED BY <2>3, <2>7
<1>4. h = Within(c) \X (1 .. ObjNum)
  <2>1. ASSUME NEW o \in h PROVE o \in Within(c) \X (1 .. ObjNum)
    <3>1. o \in Objects /\ o[1] \in Within(c) BY <1>1, <1>2
    <3>2. o = <<o[1], o[2]>> /\ o[2] \in 1 .. ObjNum BY <3>1, Addresses
    <3>3. QED BY <3>1, <3>2
  <2>2. ASSUME NEW s \in Within(c), NEW i \in 1 .. ObjNum PROVE <<s, i>> \in h
    <3>1. <<s, i>> \in ObjectsOf(s) BY DEF ObjectsOf
    <3>2. QED BY <1>3, <3>1
  <2>3. QED BY <2>1, <2>2
<1>5. ObjNum \in Nat BY Addresses
<1>6. IsFiniteSet(1 .. ObjNum) /\ Cardinality(1 .. ObjNum) = ObjNum
  <2>1. /\ IsFiniteSet(1 .. ObjNum)
        /\ Cardinality(1 .. ObjNum) = IF 1 > ObjNum THEN 0 ELSE ObjNum - 1 + 1
    BY <1>5, FS_Interval
  <2>2. QED BY <1>5, <2>1
<1>7. Cardinality(Within(c) \X (1 .. ObjNum)) = Cardinality(Within(c)) * Cardinality(1 .. ObjNum)
  BY <1>1, <1>6, FS_Product
<1>8. PICK n, m : n = Len(c) /\ m = ObjNum * n OBVIOUS
<1>9. m \in Int /\ n * ObjNum = m BY <1>1, <1>5, <1>8
<1>10. Cardinality(h) = m BY <1>1, <1>4, <1>6, <1>7, <1>8, <1>9
<1>11. QED BY <1>2, <1>8, <1>9, <1>10

-----------------------------------------------------------------------------
(* A memory as objpool_deser_high makes it *)

LEMMA PatchedIs ==
    ASSUME NEW s \in Places, NEW t
    PROVE  /\ Patched(Null, s, t) = Null
           /\ \A i \in 0 .. ObjNum : Patched(<<s, i>>, s, t) = <<t, i>>
<1>1. Null \notin Places \X (0 .. ObjNum) BY ObjPoolAssumption
<1>2. ASSUME NEW i \in 0 .. ObjNum PROVE Patched(<<s, i>>, s, t) = <<t, i>>
  <2>1. PICK w : w = <<s, i>> OBVIOUS
  <2>2. w # Null /\ w[1] = s /\ w[2] = i BY <1>1, <2>1
  <2>3. Patched(w, s, t) = <<t, w[2]>> BY <2>2 DEF Patched
  <2>4. QED BY <2>1, <2>2, <2>3
<1>3. Patched(Null, s, t) = Null BY DEF Patched
<1>4. QED BY <1>2, <1>3

\* The words of a slab are addresses in it, or NULL.
LEMMA Words ==
    ASSUME NEW sl, NEW fp, NEW h, NEW s \in Places, SlabOK(sl, fp, h, s)
    PROVE  /\ sl[s].free \in ObjectsOf(s) \cup {Null}
           /\ \A o \in ObjectsOf(s) : fp[o] \in ObjectsOf(s) \cup {SlabPtr(s), Null}
<1>1. PICK l : ListOK(sl, fp, h, s, l) BY DEF SlabOK
<1>2. /\ l \in Seq(ObjectsOf(s)) /\ Within(l) = ObjectsOf(s) \ h
      /\ sl[s].free = At(l, 1) /\ \A k \in 1 .. Len(l) : fp[l[k]] = At(l, k + 1)
  BY <1>1 DEF ListOK
<1>3. ASSUME NEW k PROVE At(l, k) \in ObjectsOf(s) \cup {Null}
  <2>1. k \in 1 .. Len(l) => l[k] \in ObjectsOf(s) BY <1>2, AtIs
  <2>2. QED BY <2>1 DEF At
<1>4. ASSUME NEW o \in ObjectsOf(s) PROVE fp[o] \in ObjectsOf(s) \cup {SlabPtr(s), Null}
  <2>1. CASE o \in h BY <2>1 DEF SlabOK
  <2>2. CASE o \notin h
    <3>1. o \in Within(l) BY <1>2, <2>2
    <3>2. PICK k \in 1 .. Len(l) : l[k] = o BY <3>1 DEF Within
    <3>3. QED BY <1>2, <1>3, <3>2
  <2>3. QED BY <2>1, <2>2
<1>5. QED BY <1>2, <1>3, <1>4

\* What a slab that was at s looks like at t.
Moved(sl, fp, h, s, sl2, fp2, h2, t) ==
    /\ sl2[t].free = Patched(sl[s].free, s, t)
    /\ \A i \in 1 .. ObjNum : /\ fp2[<<t, i>>] = Patched(fp[<<s, i>>], s, t)
                              /\ <<t, i>> \in h2 <=> <<s, i>> \in h

LEMMA MovedWords ==
    ASSUME NEW sl, NEW fp, NEW h, NEW s \in Places, SlabOK(sl, fp, h, s),
           NEW sl2, NEW fp2, NEW h2, NEW t \in Places, Moved(sl, fp, h, s, sl2, fp2, h2, t)
    PROVE  /\ sl2[t].free \in Objects \cup {Null}
           /\ \A i \in 1 .. ObjNum : fp2[<<t, i>>] \in Objects \cup SlabPtrs \cup {Null}
<1>1. ObjNum \in Nat /\ SlabPtr(t) \in SlabPtrs /\ SlabPtr(t) = <<t, 0>> /\ SlabPtr(s) = <<s, 0>>
  BY Addresses DEF SlabPtr
<1>2. ASSUME NEW w \in ObjectsOf(s) \cup {SlabPtr(s), Null}
      PROVE  /\ Patched(w, s, t) \in Objects \cup SlabPtrs \cup {Null}
             /\ w # SlabPtr(s) => Patched(w, s, t) \in Objects \cup {Null}
  <2>1. CASE w = Null
    <3>1. Patched(w, s, t) = Null BY <2>1, PatchedIs
    <3>2. QED BY <3>1
  <2>2. CASE w = SlabPtr(s)
    <3>1. 0 \in 0 .. ObjNum BY <1>1
    <3>2. Patched(<<s, 0>>, s, t) = <<t, 0>> BY <3>1, PatchedIs
    <3>3. QED BY <1>1, <2>2, <3>2
  <2>3. CASE w \in ObjectsOf(s)
    <3>1. PICK i \in 1 .. ObjNum : w = <<s, i>> BY <2>3 DEF ObjectsOf
    <3>2. i \in 0 .. ObjNum BY <1>1
    <3>3. Patched(<<s, i>>, s, t) = <<t, i>> BY <3>2, PatchedIs
    <3>4. <<t, i>> \in Objects BY DEF Objects
    <3>5. QED BY <3>1, <3>3, <3>4
  <2>4. QED BY <2>1, <2>2, <2>3
<1>3. /\ sl[s].free \in ObjectsOf(s) \cup {Null}
      /\ \A o \in ObjectsOf(s) : fp[o] \in ObjectsOf(s) \cup {SlabPtr(s), Null}
  BY Words
<1>4. sl[s].free # SlabPtr(s)
  <2>1. \A o \in ObjectsOf(s) : o \in Objects BY Addresses
  <2>2. Null \notin SlabPtrs /\ SlabPtr(s) \in SlabPtrs /\ \A o \in Objects : o \notin SlabPtrs
    BY Addresses
  <2>3. QED BY <1>3, <2>1, <2>2
<1>5. sl2[t].free \in Objects \cup {Null} BY <1>2, <1>3, <1>4 DEF Moved
<1>6. ASSUME NEW i \in 1 .. ObjNum PROVE fp2[<<t, i>>] \in Objects \cup SlabPtrs \cup {Null}
  <2>1. <<s, i>> \in ObjectsOf(s) BY DEF ObjectsOf
  <2>2. fp2[<<t, i>>] = Patched(fp[<<s, i>>], s, t) BY DEF Moved
  <2>3. QED BY <1>2, <1>3, <2>1, <2>2
<1>7. QED BY <1>5, <1>6

\* Its free list is the old one at the new place.
LEMMA MovedSound ==
    ASSUME NEW sl, NEW fp, NEW h, NEW s \in Places, SlabOK(sl, fp, h, s),
           NEW sl2, NEW fp2, NEW h2, NEW t \in Places, Moved(sl, fp, h, s, sl2, fp2, h2, t)
    PROVE  SlabOK(sl2, fp2, h2, t)
<1>1. PICK l : ListOK(sl, fp, h, s, l) BY DEF SlabOK
<1>2. /\ l \in Seq(ObjectsOf(s)) /\ Distinct(l) /\ Within(l) = ObjectsOf(s) \ h
      /\ sl[s].free = At(l, 1) /\ \A k \in 1 .. Len(l) : fp[l[k]] = At(l, k + 1)
  BY <1>1 DEF ListOK
<1>3. /\ sl2[t].free = Patched(sl[s].free, s, t)
      /\ \A i \in 1 .. ObjNum : /\ fp2[<<t, i>>] = Patched(fp[<<s, i>>], s, t)
                                /\ <<t, i>> \in h2 <=> <<s, i>> \in h
  BY DEF Moved
<1>4. ObjNum \in Nat BY Addresses
<1>5. Len(l) \in Nat /\ \A k \in 1 .. Len(l) : l[k] \in ObjectsOf(s) BY <1>2, AtIs
<1>6. \A k \in 1 .. Len(l) : l[k][2] \in 1 .. ObjNum /\ l[k] = <<s, l[k][2]>>
  BY <1>5 DEF ObjectsOf
<1>7. PICK m : m = [k \in 1 .. Len(l) |-> <<t, l[k][2]>>] OBVIOUS
<1>8. \A k \in 1 .. Len(l) : m[k] = <<t, l[k][2]>> /\ m[k] \in ObjectsOf(t)
  BY <1>6, <1>7 DEF ObjectsOf
<1>9. m \in Seq(ObjectsOf(t)) /\ Len(m) = Len(l)
  <2>1. m \in [1 .. Len(l) -> ObjectsOf(t)] BY <1>7, <1>8
  <2>2. QED BY <1>5, <2>1
<1>10. Distinct(m)
  <2>1. ASSUME NEW j \in 1 .. Len(l), NEW k \in 1 .. Len(l), m[j] = m[k] PROVE j = k
    <3>1. l[j][2] = l[k][2] BY <1>8, <2>1
    <3>2. l[j] = l[k] BY <1>6, <3>1
    <3>3. QED BY <1>2, <3>2 DEF Distinct
  <2>2. QED BY <1>9, <2>1 DEF Distinct
<1>11. \A k \in Nat : At(m, k) = Patched(At(l, k), s, t)
  <2>1. ASSUME NEW k \in Nat PROVE At(m, k) = Patched(At(l, k), s, t)
    <3>1. CASE k \in 1 .. Len(l)
      <4>1. PICK i : i = l[k][2] OBVIOUS
      <4>2. i \in 1 .. ObjNum /\ l[k] = <<s, i>> /\ m[k] = <<t, i>> BY <1>6, <1>8, <3>1, <4>1
      <4>3. i \in 0 .. ObjNum BY <1>4, <4>2
      <4>4. Patched(<<s, i>>, s, t) = <<t, i>> BY <4>3, PatchedIs
      <4>5. At(l, k) = l[k] /\ At(m, k) = m[k] BY <1>9, <3>1 DEF At
      <4>6. QED BY <4>2, <4>4, <4>5
    <3>2. CASE k \notin 1 .. Len(l)
      <4>1. At(l, k) = Null /\ At(m, k) = Null BY <1>9, <3>2 DEF At
      <4>2. QED BY <4>1, PatchedIs
    <3>3. QED BY <3>1, <3>2
  <2>2. QED BY <2>1
<1>12. Within(m) = ObjectsOf(t) \ h2
  <2>1. ASSUME NEW i \in 1 .. ObjNum PROVE <<t, i>> \in Within(m) <=> <<s, i>> \in Within(l)
    <3>1. ASSUME <<t, i>> \in Within(m) PROVE <<s, i>> \in Within(l)
      <4>1. PICK k \in 1 .. Len(l) : m[k] = <<t, i>> BY <1>9, <3>1 DEF Within
      <4>2. l[k][2] = i BY <1>8, <4>1
      <4>3. l[k] = <<s, i>> BY <1>6, <4>2
      <4>4. QED BY <4>3 DEF Within
    <3>2. ASSUME <<s, i>> \in Within(l) PROVE <<t, i>> \in Within(m)
      <4>1. PICK k \in 1 .. Len(l) : l[k] = <<s, i>> BY <3>2 DEF Within
      <4>2. m[k] = <<t, i>> BY <1>8, <4>1
      <4>3. QED BY <1>9, <4>2 DEF Within
    <3>3. QED BY <3>1, <3>2
  <2>2. ASSUME NEW i \in 1 .. ObjNum PROVE <<t, i>> \in Within(m) <=> <<t, i>> \notin h2
    <3>1. <<s, i>> \in ObjectsOf(s) BY DEF ObjectsOf
    <3>2. <<s, i>> \in Within(l) <=> <<s, i>> \notin h BY <1>2, <3>1
    <3>3. QED BY <1>3, <2>1, <3>2
  <2>3. Within(m) \subseteq ObjectsOf(t) BY <1>8, <1>9 DEF Within
  <2>4. \A o \in ObjectsOf(t) : \E i \in 1 .. ObjNum : o = <<t, i>> BY DEF ObjectsOf
  <2>5. \A o \in ObjectsOf(t) : o \in Within(m) <=> o \notin h2 BY <2>2, <2>4
  <2>6. QED BY <2>3, <2>5
<1>13. sl2[t].free = At(m, 1) BY <1>2, <1>3, <1>11
<1>14. ASSUME NEW k \in 1 .. Len(m) PROVE fp2[m[k]] = At(m, k + 1)
  <2>1. k \in 1 .. Len(l) /\ k + 1 \in Nat BY <1>5, <1>9
  <2>2. PICK i : i = l[k][2] OBVIOUS
  <2>3. i \in 1 .. ObjNum /\ l[k] = <<s, i>> /\ m[k] = <<t, i>> BY <1>6, <1>8, <2>1, <2>2
  <2>4. fp2[<<t, i>>] = Patched(fp[<<s, i>>], s, t) BY <1>3, <2>3
  <2>5. fp[<<s, i>>] = At(l, k + 1) BY <1>2, <2>1, <2>3
  <2>6. QED BY <1>11, <2>1, <2>3, <2>4, <2>5
<1>15. ListOK(sl2, fp2, h2, t, m) BY <1>9, <1>10, <1>12, <1>13, <1>14 DEF ListOK
<1>16. ASSUME NEW o \in h2 \cap ObjectsOf(t) PROVE fp2[o] = SlabPtr(t)
  <2>1. PICK i \in 1 .. ObjNum : o = <<t, i>> BY DEF ObjectsOf
  <2>2. <<s, i>> \in h \cap ObjectsOf(s) BY <1>3, <2>1 DEF ObjectsOf
  <2>3. fp[<<s, i>>] = SlabPtr(s) BY <2>2 DEF SlabOK
  <2>4. 0 \in 0 .. ObjNum BY <1>4
  <2>5. Patched(<<s, 0>>, s, t) = <<t, 0>> BY <2>4, PatchedIs
  <2>6. fp2[<<t, i>>] = Patched(fp[<<s, i>>], s, t) BY <1>3
  <2>7. QED BY <2>1, <2>3, <2>5, <2>6 DEF SlabPtr
<1>17. QED BY <1>15, <1>16 DEF SlabOK

\* The memory <<p2, sl2, fp2>> has the slabs of <<p, sl, fp>> at the places at.
Loaded(p, sl, fp, h, c, at, p2, sl2, fp2, h2) ==
    /\ p2.slab_head = at[1] /\ p2.slab_nr = Len(c) /\ p2.obj_nr = Len(c) * ObjNum
    /\ p2.free_obj_nr = p.free_obj_nr /\ p2.recent_slab \in Within(at)
    /\ p2 = [slab_nr |-> p2.slab_nr, obj_nr |-> p2.obj_nr, free_obj_nr |-> p2.free_obj_nr,
             slab_head |-> p2.slab_head, recent_slab |-> p2.recent_slab]
    /\ sl2 = [s \in Places |-> sl2[s]] /\ fp2 = [o \in Objects |-> fp2[o]]
    /\ \A s \in Places : s \notin Within(at) => sl2[s] \in SlabSet
    /\ \A o \in Objects : o[1] \notin Within(at) => fp2[o] \in Objects \cup SlabPtrs \cup {Null}
    /\ \A k \in 1 .. Len(c) :
          /\ Moved(sl, fp, h, c[k], sl2, fp2, h2, at[k])
          /\ sl2[at[k]] = [id |-> sl[c[k]].id,
                           next |-> IF sl[c[k]].next # Null /\ k < Len(c) THEN at[k + 1] ELSE Null,
                           free |-> sl2[at[k]].free]
    /\ h2 \subseteq Objects /\ \A o \in h2 : o[1] \in Within(at)

\* As many objects are given out as before.
LEMMA MovedHeld ==
    ASSUME NEW n \in Nat, NEW c \in Seq(Places), Distinct(c), NEW at \in Seq(Places), Distinct(at),
           Len(c) = n, Len(at) = n, NEW h, h \subseteq Objects, \A o \in h : o[1] \in Within(c),
           NEW h2, h2 \subseteq Objects, \A o \in h2 : o[1] \in Within(at),
           \A k \in 1 .. n : \A i \in 1 .. ObjNum : <<at[k], i>> \in h2 <=> <<c[k], i>> \in h
    PROVE  Cardinality(h2) = Cardinality(h)
<1>1. \A o \in h : \E k \in 1 .. n : o[1] = c[k] BY DEF Within
<1>2. \A o \in h2 : \E k \in 1 .. n : o[1] = at[k] BY DEF Within
<1> DEFINE K(o) == CHOOSE k \in 1 .. n : o[1] = c[k]
           g == [o \in h |-> <<at[K(o)], o[2]>>]
<1>3. \A o \in h : K(o) \in 1 .. n /\ o[1] = c[K(o)] BY <1>1
<1>4. \A o \in h : o[2] \in 1 .. ObjNum /\ o = <<o[1], o[2]>> BY Addresses
<1>5. \A o \in h2 : o[2] \in 1 .. ObjNum /\ o = <<o[1], o[2]>> BY Addresses
<1> HIDE DEF K
<1>6. \A o \in h : g[o] \in h2
  <2>1. ASSUME NEW o \in h PROVE g[o] \in h2
    <3>1. PICK k, i : k = K(o) /\ i = o[2] OBVIOUS
    <3>2. k \in 1 .. n /\ i \in 1 .. ObjNum /\ o = <<c[k], i>> BY <1>3, <1>4, <3>1
    <3>3. <<at[k], i>> \in h2 BY <3>2
    <3>4. QED BY <3>1, <3>3
  <2>2. QED BY <2>1
<1>7. \A o, x \in h : g[o] = g[x] => o = x
  <2>1. ASSUME NEW o \in h, NEW x \in h, g[o] = g[x] PROVE o = x
    <3>1. at[K(o)] = at[K(x)] /\ o[2] = x[2] BY <2>1
    <3>2. K(o) = K(x) BY <1>3, <3>1 DEF Distinct
    <3>3. o[1] = x[1] BY <1>3, <3>2
    <3>4. QED BY <1>4, <3>1, <3>3
  <2>2. QED BY <2>1
<1>8. \A x \in h2 : \E o \in h : g[o] = x
  <2>1. ASSUME NEW x \in h2 PROVE \E o \in h : g[o] = x
    <3>1. PICK k \in 1 .. n : x[1] = at[k] BY <1>2
    <3>2. PICK i : i = x[2] OBVIOUS
    <3>3. i \in 1 .. ObjNum /\ x = <<at[k], i>> BY <1>5, <3>1, <3>2
    <3>4. PICK o : o = <<c[k], i>> OBVIOUS
    <3>5. o \in h BY <3>3, <3>4
    <3>6. c[K(o)] = c[k] BY <1>3, <3>4, <3>5
    <3>7. K(o) = k BY <1>3, <3>5, <3>6 DEF Distinct
    <3>8. g[o] = x BY <3>3, <3>4, <3>5, <3>7
    <3>9. QED BY <3>5, <3>8
  <2>2. QED BY <2>1
<1>9. g \in Bijection(h, h2)
  <2>1. g \in [h -> h2] BY <1>6
  <2> HIDE DEF g
  <2>2. QED BY <1>7, <1>8, <2>1 DEF Bijection, Injection, Surjection, IsInjective
<1>10. ExistsBijection(h, h2) BY <1>9 DEF ExistsBijection
<1>11. IsFiniteSet(h) BY Addresses, FS_Subset
<1>12. QED BY <1>10, <1>11, FS_Bijection

LEMMA LoadedSound ==
    ASSUME NEW p, NEW sl, NEW fp, NEW h, NEW c, Sound(p, sl, fp, h, c), Len(c) > 0,
           NEW at \in [1 .. Len(c) -> Places], \A j, k \in 1 .. Len(c) : at[j] = at[k] => j = k,
           NEW p2, NEW sl2, NEW fp2, NEW h2, Loaded(p, sl, fp, h, c, at, p2, sl2, fp2, h2)
    PROVE  Sound(p2, sl2, fp2, h2, at)
<1>1. /\ p \in PoolSet /\ sl \in [Places -> SlabSet] /\ h \subseteq Objects
      /\ c \in Seq(Places) /\ Distinct(c) /\ Len(c) \in Nat /\ Within(c) \subseteq Places
  BY SoundParts
<1>2. /\ p.free_obj_nr = p.obj_nr - Cardinality(h) /\ p.obj_nr = ObjNum * Len(c)
      /\ \A o \in h : o[1] \in Within(c)
  BY DEF Sound, CountsOK
<1>3. ChainOK(p, sl, c) BY DEF Sound
<1>4. \A k \in 1 .. Len(c) : sl[c[k]].next = At(c, k + 1) /\ sl[c[k]].id = Len(c) - k
  BY <1>3 DEF ChainOK
<1>5. at \in Seq(Places) /\ Len(at) = Len(c) /\ Distinct(at) BY <1>1 DEF Distinct
<1>6. \A k \in 1 .. Len(c) : at[k] \in Places /\ at[k] \in Within(at) /\ c[k] \in Within(c)
                             /\ c[k] \in Places
  BY <1>1, <1>5 DEF Within
<1>7. \A k \in 1 .. Len(c) :
         /\ Moved(sl, fp, h, c[k], sl2, fp2, h2, at[k])
         /\ sl2[at[k]].id = sl[c[k]].id
         /\ sl2[at[k]].next = IF sl[c[k]].next # Null /\ k < Len(c) THEN at[k + 1] ELSE Null
         /\ sl2[at[k]] = [id |-> sl2[at[k]].id, next |-> sl2[at[k]].next,
                          free |-> sl2[at[k]].free]
  <2>1. ASSUME NEW k \in 1 .. Len(c)
        PROVE  /\ Moved(sl, fp, h, c[k], sl2, fp2, h2, at[k])
               /\ sl2[at[k]] = [id |-> sl[c[k]].id,
                                next |-> IF sl[c[k]].next # Null /\ k < Len(c)
                                         THEN at[k + 1] ELSE Null,
                                free |-> sl2[at[k]].free]
    BY DEF Loaded
  <2>2. ASSUME NEW k \in 1 .. Len(c)
        PROVE  /\ sl2[at[k]].id = sl[c[k]].id
               /\ sl2[at[k]].next = IF sl[c[k]].next # Null /\ k < Len(c) THEN at[k + 1] ELSE Null
               /\ sl2[at[k]] = [id |-> sl2[at[k]].id, next |-> sl2[at[k]].next,
                                free |-> sl2[at[k]].free]
    <3>1. PICK x, y : /\ x = sl[c[k]].id
                      /\ y = IF sl[c[k]].next # Null /\ k < Len(c) THEN at[k + 1] ELSE Null
      OBVIOUS
    <3>2. PICK r, z : r = sl2[at[k]] /\ z = r.free OBVIOUS
    <3>3. r = [id |-> x, next |-> y, free |-> z] BY <2>1, <3>1, <3>2
    <3>4. r.id = x /\ r.next = y /\ r.free = z BY <3>3
    <3>5. QED BY <3>1, <3>2, <3>3, <3>4
  <2>3. QED BY <2>1, <2>2
<1>8. \A k \in 1 .. Len(c) :
         \A i \in 1 .. ObjNum : <<at[k], i>> \in h2 <=> <<c[k], i>> \in h
  BY <1>7 DEF Moved
<1>9. h2 \subseteq Objects /\ \A o \in h2 : o[1] \in Within(at) BY DEF Loaded
<1>10. Cardinality(h2) = Cardinality(h) BY <1>1, <1>2, <1>5, <1>8, <1>9, MovedHeld
<1>11. ASSUME NEW k \in 1 .. Len(c) PROVE sl2[at[k]].next = At(at, k + 1)
  <2>1. CASE k < Len(c)
    <3>1. k + 1 \in 1 .. Len(c) BY <1>1, <2>1
    <3>2. sl[c[k]].next = c[k + 1] /\ c[k + 1] # Null BY <1>4, <1>6, <3>1, Addresses DEF At
    <3>3. QED BY <1>5, <1>7, <2>1, <3>1, <3>2 DEF At
  <2>2. CASE ~(k < Len(c))
    <3>1. k + 1 \notin 1 .. Len(c) BY <1>1, <2>2
    <3>2. QED BY <1>5, <1>7, <2>2, <3>1 DEF At
  <2>3. QED BY <2>1, <2>2
<1>12. \A s \in Within(at) : \E k \in 1 .. Len(c) : at[k] = s BY <1>5 DEF Within
<1>13. ASSUME NEW s \in Within(at) PROVE SlabOK(sl2, fp2, h2, s)
  <2>1. PICK k \in 1 .. Len(c) : at[k] = s BY <1>12
  <2>2. SlabOK(sl, fp, h, c[k]) BY <1>6 DEF Sound
  <2>3. QED BY <1>6, <1>7, <2>1, <2>2, MovedSound
<1>14. p2 \in PoolSet
  <2>1. p.free_obj_nr \in Int BY <1>1 DEF PoolSet
  <2>2. 1 \in 1 .. Len(c) BY <1>1
  <2>3. at[1] \in Places BY <1>6, <2>2
  <2>4. Len(c) * ObjNum \in Int BY <1>1, Addresses
  <2>5. \A s \in Within(at) : s \in Places BY <1>6, <1>12
  <2>6. QED BY <1>1, <2>1, <2>3, <2>4, <2>5 DEF Loaded, PoolSet
<1>15. ASSUME NEW k \in 1 .. Len(c) PROVE sl2[at[k]] \in SlabSet
  <2>1. sl2[at[k]] = [id |-> sl2[at[k]].id, next |-> sl2[at[k]].next, free |-> sl2[at[k]].free]
    BY <1>7
  <2>2. sl2[at[k]].id \in Ids
    <3>1. sl[c[k]] \in SlabSet BY <1>1, <1>6
    <3>2. sl[c[k]].id \in Ids BY <3>1 DEF SlabSet
    <3>3. QED BY <1>7, <3>2
  <2>3. sl2[at[k]].next \in Places \cup {Null} BY <1>5, <1>11, AtIs DEF At
  <2>4. SlabOK(sl, fp, h, c[k]) BY <1>6 DEF Sound
  <2>5. sl2[at[k]].free \in Objects \cup {Null} BY <1>6, <1>7, <2>4, MovedWords
  <2>6. QED BY <2>1, <2>2, <2>3, <2>5 DEF SlabSet
<1>16. sl2 \in [Places -> SlabSet]
  <2>1. \A s \in Places : sl2[s] \in SlabSet BY <1>12, <1>15 DEF Loaded
  <2>2. QED BY <2>1 DEF Loaded
<1>17. fp2 \in [Objects -> Objects \cup SlabPtrs \cup {Null}]
  <2>1. ASSUME NEW o \in Objects, o[1] \in Within(at)
        PROVE  fp2[o] \in Objects \cup SlabPtrs \cup {Null}
    <3>1. PICK k \in 1 .. Len(c) : at[k] = o[1] BY <1>12, <2>1
    <3>2. PICK i : i = o[2] OBVIOUS
    <3>3. i \in 1 .. ObjNum /\ o = <<at[k], i>> BY <3>1, <3>2, Addresses
    <3>4. SlabOK(sl, fp, h, c[k]) BY <1>6 DEF Sound
    <3>5. fp2[<<at[k], i>>] \in Objects \cup SlabPtrs \cup {Null}
      BY <1>6, <1>7, <3>3, <3>4, MovedWords
    <3>6. QED BY <3>3, <3>5
  <2>2. \A o \in Objects : fp2[o] \in Objects \cup SlabPtrs \cup {Null} BY <2>1 DEF Loaded
  <2>3. QED BY <2>2 DEF Loaded
<1>18. MemTyped(p2, sl2, fp2, h2) BY <1>9, <1>14, <1>16, <1>17 DEF MemTyped
<1>19. ChainOK(p2, sl2, at)
  <2>1. p2.slab_head = At(at, 1)
    <3>1. 1 \in 1 .. Len(at) BY <1>1, <1>5
    <3>2. QED BY <3>1 DEF Loaded, At
  <2>2. p2.recent_slab \in Within(at) BY DEF Loaded
  <2>3. \A k \in 1 .. Len(at) : sl2[at[k]].next = At(at, k + 1) /\ sl2[at[k]].id = Len(at) - k
    BY <1>4, <1>5, <1>7, <1>11
  <2>4. QED BY <1>5, <2>1, <2>2, <2>3 DEF ChainOK
<1>20. CountsOK(p2, h2, at)
  <2>1. PICK n : n = Len(c) OBVIOUS
  <2>2. n * ObjNum = ObjNum * n BY <1>1, <2>1, Addresses
  <2>3. /\ p2.slab_nr = n /\ p2.obj_nr = n * ObjNum /\ p2.free_obj_nr = p.free_obj_nr
    BY <2>1 DEF Loaded
  <2>4. p2.free_obj_nr = p2.obj_nr - Cardinality(h2) BY <1>2, <1>10, <2>1, <2>2, <2>3
  <2>5. QED BY <1>5, <1>9, <2>1, <2>2, <2>3, <2>4 DEF CountsOK
<1>21. QED BY <1>13, <1>18, <1>19, <1>20 DEF Sound

\* What the file says of slab k, and what becomes of it at the place at[k].
SlabAt(f, at, n, k) ==
    [id |-> f.slabs[k].slab.id,
     next |-> IF f.slabs[k].slab.next # Null /\ k < n THEN at[k + 1] ELSE Null,
     free |-> Patched(f.slabs[k].slab.free, f.slabs[k].at, at[k])]
WordAt(f, at, k, i) == Patched(f.slabs[k].freeptr[i], f.slabs[k].at, at[k])

\* What objpool_deser_high makes of the file f and the memory <<sl0, fp0>> when malloc
\* gives it the places at; of[s] is the slab of the file that goes to s.
DeserTo(f, n, at, of, sl0, fp0, p2, sl2, fp2, h2) ==
    /\ sl2 = [s \in Places |-> IF s \in Within(at) THEN SlabAt(f, at, n, of[s]) ELSE sl0[s]]
    /\ fp2 = [o \in Objects |-> IF o[1] \in Within(at) THEN WordAt(f, at, of[o[1]], o[2])
                               ELSE fp0[o]]
    /\ p2 = [slab_head |-> at[1], slab_nr |-> n, obj_nr |-> n * ObjNum,
             free_obj_nr |-> f.free_obj_nr,
             recent_slab |-> at[CHOOSE k \in 1 .. n : f.slabs[k].slab.id = f.recent_slab]]
    /\ h2 = UNION {{<<at[k], o[2]>> : o \in f.held \cap ObjectsOf(f.slabs[k].at)} : k \in 1 .. n}
PlacedAt(n, at, of) ==
    /\ at \in [1 .. n -> Places] /\ \A j, k \in 1 .. n : at[j] = at[k] => j = k
    /\ \A k \in 1 .. n : of[at[k]] = k

LEMMA DeserLoads ==
    ASSUME NEW p, NEW sl, NEW fp, NEW h, NEW c, Sound(p, sl, fp, h, c), p.recent_slab # Null,
           NEW n, n = Len(c), n > 0, NEW at, NEW of, PlacedAt(n, at, of),
           NEW sl0 \in [Places -> SlabSet],
           NEW fp0 \in [Objects -> Objects \cup SlabPtrs \cup {Null}],
           NEW p2, NEW sl2, NEW fp2, NEW h2,
           DeserTo(Dump(p, sl, fp, h, c), n, at, of, sl0, fp0, p2, sl2, fp2, h2)
    PROVE  Loaded(p, sl, fp, h, c, at, p2, sl2, fp2, h2)
<1>1. /\ p \in PoolSet /\ sl \in [Places -> SlabSet] /\ h \subseteq Objects
      /\ c \in Seq(Places) /\ Distinct(c) /\ Len(c) \in Nat /\ Within(c) \subseteq Places
  BY SoundParts
<1>2. n = Len(c) OBVIOUS
<1>02. PICK f : f = Dump(p, sl, fp, h, c) OBVIOUS
<1>03. DeserTo(f, n, at, of, sl0, fp0, p2, sl2, fp2, h2) BY <1>02
<1>04. /\ at \in [1 .. n -> Places] /\ \A j, k \in 1 .. n : at[j] = at[k] => j = k
       /\ \A k \in 1 .. n : of[at[k]] = k
  BY DEF PlacedAt
<1>3. /\ f.free_obj_nr = p.free_obj_nr /\ f.held = h /\ f.recent_slab = sl[p.recent_slab].id
      /\ f.slabs = [k \in 1 .. n |-> [at |-> c[k], slab |-> sl[c[k]],
                                      freeptr |-> [i \in 1 .. ObjNum |-> fp[<<c[k], i>>]]]]
  BY <1>02, <1>2 DEF Dump
<1>4. ASSUME NEW k \in 1 .. n
      PROVE  /\ f.slabs[k].at = c[k] /\ f.slabs[k].slab = sl[c[k]]
             /\ \A i \in 1 .. ObjNum : f.slabs[k].freeptr[i] = fp[<<c[k], i>>]
  <2>1. f.slabs[k] = [at |-> c[k], slab |-> sl[c[k]],
                      freeptr |-> [i \in 1 .. ObjNum |-> fp[<<c[k], i>>]]]
    BY <1>3
  <2>2. QED BY <2>1
<1>5. at \in Seq(Places) /\ Len(at) = n BY <1>04, <1>1, <1>2
<1>6. \A k \in 1 .. n : at[k] \in Places /\ at[k] \in Within(at) /\ of[at[k]] = k /\ c[k] \in Places
  BY <1>04, <1>1, <1>2, <1>5 DEF Within
<1>7. ASSUME NEW k \in 1 .. n
      PROVE  /\ sl2[at[k]] = [id |-> sl[c[k]].id,
                              next |-> IF sl[c[k]].next # Null /\ k < n THEN at[k + 1] ELSE Null,
                              free |-> Patched(sl[c[k]].free, c[k], at[k])]
             /\ sl2[at[k]].free = Patched(sl[c[k]].free, c[k], at[k])
  <2>1. sl2[at[k]] = SlabAt(f, at, n, k) BY <1>03, <1>6 DEF DeserTo
  <2>2. sl2[at[k]] = [id |-> sl[c[k]].id,
                      next |-> IF sl[c[k]].next # Null /\ k < n THEN at[k + 1] ELSE Null,
                      free |-> Patched(sl[c[k]].free, c[k], at[k])]
    BY <1>4, <2>1 DEF SlabAt
  <2>3. QED BY <2>2
<1>8. ASSUME NEW k \in 1 .. n, NEW i \in 1 .. ObjNum
      PROVE  fp2[<<at[k], i>>] = Patched(fp[<<c[k], i>>], c[k], at[k])
  <2>1. PICK o : o = <<at[k], i>> OBVIOUS
  <2>2. o \in Objects /\ o[1] = at[k] /\ o[2] = i BY <1>6, <2>1 DEF Objects
  <2>3. fp2[o] = WordAt(f, at, k, i) BY <1>03, <1>6, <2>2 DEF DeserTo
  <2>4. QED BY <1>4, <2>1, <2>3 DEF WordAt
<1>9. \A x : x \in h2 <=> \E k \in 1 .. n : \E o \in h \cap ObjectsOf(c[k]) : x = <<at[k], o[2]>>
  <2> DEFINE D(k) == {<<at[k], o[2]>> : o \in f.held \cap ObjectsOf(f.slabs[k].at)}
  <2>1. h2 = UNION {D(k) : k \in 1 .. n} BY <1>03 DEF DeserTo
  <2>2. ASSUME NEW k \in 1 .. n, NEW x
        PROVE  x \in D(k) <=> \E o \in h \cap ObjectsOf(c[k]) : x = <<at[k], o[2]>>
    <3>1. f.held = h /\ f.slabs[k].at = c[k] BY <1>3, <1>4
    <3>2. D(k) = {<<at[k], o[2]>> : o \in h \cap ObjectsOf(c[k])} BY <3>1
    <3>3. QED BY <3>2
  <2> HIDE DEF D
  <2>3. ASSUME NEW x
        PROVE  x \in h2 <=> \E k \in 1 .. n : \E o \in h \cap ObjectsOf(c[k]) : x = <<at[k], o[2]>>
    <3>1. x \in h2 <=> \E k \in 1 .. n : x \in D(k) BY <2>1
    <3>2. QED BY <2>2, <3>1
  <2>4. QED BY <2>3
<1>10. ASSUME NEW k \in 1 .. n, NEW i \in 1 .. ObjNum
       PROVE  <<at[k], i>> \in h2 <=> <<c[k], i>> \in h
  <2>1. ASSUME <<at[k], i>> \in h2 PROVE <<c[k], i>> \in h
    <3>1. PICK j \in 1 .. n : \E o \in h \cap ObjectsOf(c[j]) : <<at[k], i>> = <<at[j], o[2]>>
      BY <1>9, <2>1
    <3>01. PICK o \in h \cap ObjectsOf(c[j]) : <<at[k], i>> = <<at[j], o[2]>> BY <3>1
    <3>2. at[k] = at[j] /\ o[2] = i BY <3>01
    <3>3. j = k BY <1>04, <3>2
    <3>4. o = <<c[k], i>> BY <3>2, <3>3 DEF ObjectsOf
    <3>5. QED BY <3>4
  <2>2. ASSUME <<c[k], i>> \in h PROVE <<at[k], i>> \in h2
    <3>1. PICK o : o = <<c[k], i>> OBVIOUS
    <3>2. o \in h \cap ObjectsOf(c[k]) /\ o[2] = i BY <2>2, <3>1 DEF ObjectsOf
    <3>3. QED BY <1>9, <3>2
  <2>3. QED BY <2>1, <2>2
<1>11. ASSUME NEW k \in 1 .. n PROVE Moved(sl, fp, h, c[k], sl2, fp2, h2, at[k])
  BY <1>7, <1>8, <1>10 DEF Moved
<1>12. ASSUME NEW x \in h2 PROVE x \in Objects /\ x[1] \in Within(at)
  <2>1. PICK k \in 1 .. n : \E o \in h \cap ObjectsOf(c[k]) : x = <<at[k], o[2]>> BY <1>9
  <2>2. PICK o \in h \cap ObjectsOf(c[k]) : x = <<at[k], o[2]>> BY <2>1
  <2>3. o[2] \in 1 .. ObjNum BY DEF ObjectsOf
  <2>4. QED BY <1>6, <2>2, <2>3 DEF Objects
<1>13. /\ p2.slab_head = at[1] /\ p2.slab_nr = n /\ p2.obj_nr = n * ObjNum
       /\ p2.free_obj_nr = p.free_obj_nr
       /\ p2.recent_slab = at[CHOOSE k \in 1 .. n : f.slabs[k].slab.id = f.recent_slab]
       /\ p2 = [slab_nr |-> p2.slab_nr, obj_nr |-> p2.obj_nr, free_obj_nr |-> p2.free_obj_nr,
                slab_head |-> p2.slab_head, recent_slab |-> p2.recent_slab]
  <2>1. p2 = [slab_head |-> at[1], slab_nr |-> n, obj_nr |-> n * ObjNum,
              free_obj_nr |-> f.free_obj_nr,
              recent_slab |-> at[CHOOSE k \in 1 .. n : f.slabs[k].slab.id = f.recent_slab]]
    BY <1>03 DEF DeserTo
  <2>2. PICK a, b, d, e, r : /\ a = at[1] /\ b = n * ObjNum /\ e = f.free_obj_nr /\ d = n
                             /\ r = at[CHOOSE k \in 1 .. n : f.slabs[k].slab.id = f.recent_slab]
    OBVIOUS
  <2>3. p2 = [slab_head |-> a, slab_nr |-> d, obj_nr |-> b, free_obj_nr |-> e, recent_slab |-> r]
    BY <2>1, <2>2
  <2>4. /\ p2.slab_head = a /\ p2.slab_nr = d /\ p2.obj_nr = b /\ p2.free_obj_nr = e
        /\ p2.recent_slab = r
        /\ p2 = [slab_nr |-> p2.slab_nr, obj_nr |-> p2.obj_nr, free_obj_nr |-> p2.free_obj_nr,
                 slab_head |-> p2.slab_head, recent_slab |-> p2.recent_slab]
    BY <2>3
  <2>5. QED BY <1>3, <2>2, <2>4
<1>14. p2.recent_slab \in Within(at)
  <2>1. p.recent_slab \in Within(c) BY DEF Sound, ChainOK
  <2>2. PICK j \in 1 .. n : c[j] = p.recent_slab BY <1>2, <2>1 DEF Within
  <2>3. f.slabs[j].slab.id = f.recent_slab BY <1>3, <1>4, <2>2
  <2>4. PICK k : k = CHOOSE i \in 1 .. n : f.slabs[i].slab.id = f.recent_slab OBVIOUS
  <2>5. k \in 1 .. n BY <2>3, <2>4
  <2>6. QED BY <1>6, <1>13, <2>4, <2>5
<1>15. ASSUME NEW k \in 1 .. n
       PROVE  sl2[at[k]] = [id |-> sl[c[k]].id,
                            next |-> IF sl[c[k]].next # Null /\ k < n THEN at[k + 1] ELSE Null,
                            free |-> sl2[at[k]].free]
  BY <1>7
<1>16. /\ sl2 = [s \in Places |-> sl2[s]] /\ fp2 = [o \in Objects |-> fp2[o]]
       /\ \A s \in Places : s \notin Within(at) => sl2[s] \in SlabSet
       /\ \A o \in Objects : o[1] \notin Within(at) => fp2[o] \in Objects \cup SlabPtrs \cup {Null}
  BY <1>03 DEF DeserTo
<1>17. \A k \in 1 .. Len(c) :
          /\ Moved(sl, fp, h, c[k], sl2, fp2, h2, at[k])
          /\ sl2[at[k]] = [id |-> sl[c[k]].id,
                           next |-> IF sl[c[k]].next # Null /\ k < Len(c) THEN at[k + 1] ELSE Null,
                           free |-> sl2[at[k]].free]
  BY <1>2, <1>11, <1>15
<1>18. /\ p2.slab_head = at[1] /\ p2.slab_nr = Len(c) /\ p2.obj_nr = Len(c) * ObjNum
       /\ p2.free_obj_nr = p.free_obj_nr /\ p2.recent_slab \in Within(at)
       /\ p2 = [slab_nr |-> p2.slab_nr, obj_nr |-> p2.obj_nr, free_obj_nr |-> p2.free_obj_nr,
                slab_head |-> p2.slab_head, recent_slab |-> p2.recent_slab]
       /\ h2 \subseteq Objects /\ \A o \in h2 : o[1] \in Within(at)
  BY <1>2, <1>12, <1>13, <1>14
<1>19. QED BY <1>16, <1>17, <1>18 DEF Loaded

LEMMA DeserSound ==
    ASSUME MemTyped(pool, slabs, freeptr, held), FileOK(file), objpool_deser_high
    PROVE  \E c : Sound(pool', slabs', freeptr', held', c)
<1> DEFINE n == Len(file.slabs)
<1>1. n = Len(file.slabs) OBVIOUS
<1>2. n > 0 BY DEF objpool_deser_high
<1>3. file # NoFile
  <2>1. Len(NoFile.slabs) = 0 BY DEF NoFile
  <2>2. QED BY <1>1, <1>2, <2>1
<1>4. PICK p, sl, fp, h, c : /\ Sound(p, sl, fp, h, c) /\ p.recent_slab # Null
                             /\ file = Dump(p, sl, fp, h, c)
  BY <1>3 DEF FileOK
<1>5. Len(c) = n
  <2>1. Len(c) \in Nat BY <1>4, SoundParts
  <2>2. file.slabs = [k \in 1 .. Len(c) |->
           [at |-> c[k], slab |-> sl[c[k]], freeptr |-> [i \in 1 .. ObjNum |-> fp[<<c[k], i>>]]]]
    BY <1>4 DEF Dump
  <2>3. QED BY <1>1, <2>1, <2>2
<1>6. PICK at \in [1 .. n -> Places] :
         LET Of(s) == CHOOSE k \in 1 .. n : at[k] = s
             places == {at[k] : k \in 1 .. n}
         IN  /\ \A j, k \in 1 .. n : at[j] = at[k] => j = k
             /\ slabs' = [s \in Places |-> IF s \in places THEN SlabAt(file, at, n, Of(s))
                                           ELSE slabs[s]]
             /\ freeptr' = [o \in Objects |->
                               IF o[1] \in places THEN WordAt(file, at, Of(o[1]), o[2])
                               ELSE freeptr[o]]
             /\ pool' = [slab_head |-> at[1], slab_nr |-> n, obj_nr |-> n * ObjNum,
                         free_obj_nr |-> file.free_obj_nr,
                         recent_slab |-> at[CHOOSE k \in 1 .. n :
                                              file.slabs[k].slab.id = file.recent_slab]]
             /\ held' = UNION {{<<at[k], o[2]>> : o \in file.held \cap ObjectsOf(file.slabs[k].at)} :
                                 k \in 1 .. n}
  BY Zenon DEF objpool_deser_high, LoadedFree, SlabAt, WordAt
<1> HIDE DEF n
<1>7. PICK p2, sl2, fp2, h2 : p2 = pool' /\ sl2 = slabs' /\ fp2 = freeptr' /\ h2 = held' OBVIOUS
<1>8. PICK of : of = [s \in Places |-> CHOOSE k \in 1 .. n : at[k] = s] OBVIOUS
<1>9. n \in Nat /\ at \in Seq(Places) /\ Len(at) = n
  <2>1. n \in Nat BY <1>4, <1>5, SoundParts
  <2>2. QED BY <2>1
<1>10. Within(at) = {at[k] : k \in 1 .. n} /\ \A s \in Within(at) : s \in Places
  BY <1>9 DEF Within
<1>11. \A k \in 1 .. n : of[at[k]] = k
  <2>1. ASSUME NEW k \in 1 .. n PROVE of[at[k]] = k
    <3>1. of[at[k]] = CHOOSE j \in 1 .. n : at[j] = at[k] BY <1>8
    <3>2. PICK j : j = CHOOSE i \in 1 .. n : at[i] = at[k] OBVIOUS
    <3>3. j \in 1 .. n /\ at[j] = at[k] BY <3>2
    <3>4. QED BY <1>6, <3>1, <3>2, <3>3
  <2>2. QED BY <2>1
<1>12. sl2 = [s \in Places |-> IF s \in Within(at) THEN SlabAt(file, at, n, of[s]) ELSE slabs[s]]
  BY <1>6, <1>7, <1>8, <1>10
<1>13. fp2 = [o \in Objects |-> IF o[1] \in Within(at) THEN WordAt(file, at, of[o[1]], o[2])
                                ELSE freeptr[o]]
  <2>1. \A o \in Objects : o[1] \in Places BY Addresses
  <2>2. QED BY <1>6, <1>7, <1>8, <1>10, <2>1
<1>14. /\ slabs \in [Places -> SlabSet]
       /\ freeptr \in [Objects -> Objects \cup SlabPtrs \cup {Null}]
  BY DEF MemTyped
<1>15. PICK sl0, fp0, f : sl0 = slabs /\ fp0 = freeptr /\ f = file OBVIOUS
<1>16. /\ p2 = [slab_head |-> at[1], slab_nr |-> n, obj_nr |-> n * ObjNum,
                free_obj_nr |-> f.free_obj_nr,
                recent_slab |-> at[CHOOSE k \in 1 .. n : f.slabs[k].slab.id = f.recent_slab]]
       /\ h2 = UNION {{<<at[k], o[2]>> : o \in f.held \cap ObjectsOf(f.slabs[k].at)} :
                        k \in 1 .. n}
       /\ \A j, k \in 1 .. n : at[j] = at[k] => j = k
  BY <1>6, <1>7, <1>15
<1>17. Loaded(p, sl, fp, h, c, at, p2, sl2, fp2, h2)
  <2>1. DeserTo(f, n, at, of, sl0, fp0, p2, sl2, fp2, h2)
    BY <1>12, <1>13, <1>15, <1>16 DEF DeserTo
  <2>2. DeserTo(Dump(p, sl, fp, h, c), n, at, of, sl0, fp0, p2, sl2, fp2, h2)
    BY <1>4, <1>15, <2>1
  <2>3. PlacedAt(n, at, of) BY <1>11, <1>16 DEF PlacedAt
  <2>4. /\ sl0 \in [Places -> SlabSet]
        /\ fp0 \in [Objects -> Objects \cup SlabPtrs \cup {Null}]
    BY <1>14, <1>15
  <2>5. Sound(p, sl, fp, h, c) /\ p.recent_slab # Null /\ n = Len(c) /\ n > 0
    BY <1>2, <1>4, <1>5
  <2>6. QED BY <2>2, <2>3, <2>4, <2>5, DeserLoads
<1>18. Sound(p2, sl2, fp2, h2, at)
  <2>1. /\ \A j, k \in 1 .. Len(c) : at[j] = at[k] => j = k
        /\ at \in [1 .. Len(c) -> Places] /\ Len(c) > 0
    BY <1>2, <1>5, <1>16
  <2>2. QED BY <1>4, <1>17, <2>1, LoadedSound
<1>19. QED BY <1>7, <1>18

-----------------------------------------------------------------------------
(* Every step keeps the invariant *)

LEMMA EmptySound ==
    ASSUME NEW p, NEW sl, NEW fp, p = objpool_init, sl = [s \in Places |-> NoSlab],
           fp = [o \in Objects |-> Null]
    PROVE  Sound(p, sl, fp, {}, <<>>)
<1>1. /\ p.slab_nr = 0 /\ p.obj_nr = 0 /\ p.free_obj_nr = 0
      /\ p.slab_head = Null /\ p.recent_slab = Null /\ p \in PoolSet
  BY DEF objpool_init, PoolSet
<1>2. sl \in [Places -> SlabSet]
  <2>1. ASSUME NEW s \in Places PROVE NoSlab \in SlabSet
    <3>1. IsFiniteSet(Places) BY Addresses
    <3>2. Cardinality(Places) # 0 BY <3>1, FS_EmptySet
    <3>3. MaxSlabs \in Nat \ {0} BY <3>2, Addresses DEF MaxSlabs
    <3>4. 0 \in Ids BY <3>3 DEF Ids
    <3>5. QED BY <3>4 DEF NoSlab, SlabSet
  <2>2. QED BY <2>1
<1>3. PICK c : c = <<>> OBVIOUS
<1>4. c \in Seq(Places) /\ Len(c) = 0 /\ 1 .. Len(c) = {} BY <1>3
<1>5. Within(c) = {} BY <1>4 DEF Within
<1>6. MemTyped(p, sl, fp, {}) BY <1>1, <1>2 DEF MemTyped
<1>7. ChainOK(p, sl, c) BY <1>1, <1>4 DEF ChainOK, Distinct, At
<1>8. CountsOK(p, {}, c)
  <2>1. Cardinality({}) = 0 BY FS_EmptySet
  <2>2. ObjNum * 0 = 0 BY Addresses
  <2>3. QED BY <1>1, <1>4, <2>1, <2>2 DEF CountsOK
<1>9. QED BY <1>3, <1>5, <1>6, <1>7, <1>8 DEF Sound

LEMMA TakeKeeps ==
    ASSUME NEW p, NEW sl, NEW fp, NEW c, Sound(p, sl, fp, held, c), NEW s \in Within(c),
           sl[s].free # Null, Take(p, sl, fp, s)
    PROVE  Sound(pool', slabs', freeptr', held', c)
<1>1. PICK o, h : o = sl[s].free /\ h = held OBVIOUS
<1>2. /\ pool' = [p EXCEPT !.free_obj_nr = @ - 1] /\ slabs' = [sl EXCEPT ![s].free = fp[o]]
      /\ freeptr' = [fp EXCEPT ![o] = SlabPtr(s)] /\ held' = h \cup {o}
  BY <1>1 DEF Take
<1>3. Sound(p, sl, fp, h, c) /\ o # Null BY <1>1
<1>4. Sound([p EXCEPT !.free_obj_nr = @ - 1], [sl EXCEPT ![s].free = fp[o]],
            [fp EXCEPT ![o] = SlabPtr(s)], h \cup {o}, c)
  BY <1>1, <1>3, TakeSound
<1>5. QED BY <1>2, <1>4

LEMMA AllocSound ==
    ASSUME NEW c, Sound(pool, slabs, freeptr, held, c), objpool_alloc
    PROVE  \E d : Sound(pool', slabs', freeptr', held', d)
<1>1. ChainOK(pool, slabs, c) BY DEF Sound
<1>2. Chain = c /\ InChain = Within(c) BY <1>1, ChainFound
<1>3. CASE AllocFromRecent
  <2>1. pool.recent_slab \in Within(c) BY <1>1, <1>3 DEF AllocFromRecent, RecentHasRoom, ChainOK
  <2>2. /\ slabs[pool.recent_slab].free # Null
        /\ Take(pool, slabs, freeptr, pool.recent_slab)
    BY <1>3 DEF AllocFromRecent, RecentHasRoom
  <2>3. Sound(pool', slabs', freeptr', held', c) BY <2>1, <2>2, TakeKeeps
  <2>4. QED BY <2>3
<1>4. CASE AllocFromChain
  <2>1. PICK k \in WithRoom(c) :
           Take([pool EXCEPT !.recent_slab = c[k]], slabs, freeptr, c[k])
    BY <1>2, <1>4 DEF AllocFromChain
  <2>2. c[k] \in Within(c) /\ slabs[c[k]].free # Null BY DEF WithRoom, Within
  <2>3. PICK p, s : p = [pool EXCEPT !.recent_slab = s] /\ s = c[k] OBVIOUS
  <2>4. Sound(p, slabs, freeptr, held, c) BY <2>2, <2>3, RecentSound
  <2>5. Take(p, slabs, freeptr, s) BY <2>1, <2>3
  <2>6. Sound(pool', slabs', freeptr', held', c) BY <2>2, <2>3, <2>4, <2>5, TakeKeeps
  <2>7. QED BY <2>6
<1>5. CASE AllocFromNew
  <2>1. PICK s \in Places \ Within(c) :
           Take([pool EXCEPT !.slab_head = s, !.slab_nr = @ + 1, !.obj_nr = @ + ObjNum,
                             !.free_obj_nr = @ + ObjNum],
                [slabs EXCEPT ![s] = [id |-> NewId(pool), next |-> pool.slab_head,
                                      free |-> <<s, 1>>]],
                [o \in Objects |-> IF o[1] = s THEN InitFree(o) ELSE freeptr[o]],
                s)
    BY <1>2, <1>5 DEF AllocFromNew
  <2>2. PICK p2, sl2, fp2 :
           /\ p2 = [pool EXCEPT !.slab_head = s, !.slab_nr = @ + 1, !.obj_nr = @ + ObjNum,
                                !.free_obj_nr = @ + ObjNum]
           /\ sl2 = [slabs EXCEPT ![s] = [id |-> NewId(pool), next |-> pool.slab_head,
                                          free |-> <<s, 1>>]]
           /\ fp2 = [o \in Objects |-> IF o[1] = s THEN InitFree(o) ELSE freeptr[o]]
    OBVIOUS
  <2>3. PICK d : d = <<s>> \o c OBVIOUS
  <2>4. Sound(p2, sl2, fp2, held, d) /\ s \in Within(d) /\ sl2[s].free = <<s, 1>> /\ <<s, 1>> # Null
    <3>1. GrownTo(pool, slabs, freeptr, s, p2, sl2, fp2) BY <2>2 DEF GrownTo
    <3>2. QED BY <2>3, <3>1, GrowSound
  <2>5. Take(p2, sl2, fp2, s) BY <2>1, <2>2
  <2>6. Sound(pool', slabs', freeptr', held', d) BY <2>4, <2>5, TakeKeeps
  <2>7. QED BY <2>6
<1>6. QED BY <1>3, <1>4, <1>5 DEF objpool_alloc

LEMMA FreeSound ==
    ASSUME NEW c, Sound(pool, slabs, freeptr, held, c), NEW o \in Objects, objpool_free(o)
    PROVE  Sound(pool', slabs', freeptr', held', c)
<1>1. PICK s : s = freeptr[o][1] OBVIOUS
<1>2. /\ o \in held /\ freeptr' = [freeptr EXCEPT ![o] = slabs[s].free]
      /\ slabs' = [slabs EXCEPT ![s].free = o]
      /\ pool' = [pool EXCEPT !.free_obj_nr = @ + 1] /\ held' = held \ {o}
  BY <1>1 DEF objpool_free
<1>3. Sound([pool EXCEPT !.free_obj_nr = @ + 1], [slabs EXCEPT ![s].free = o],
            [freeptr EXCEPT ![o] = slabs[s].free], held \ {o}, c)
  BY <1>1, <1>2, PutSound
<1>4. QED BY <1>2, <1>3

LEMMA SerKeeps ==
    ASSUME ObjPoolInv, objpool_ser
    PROVE  ObjPoolInv'
<1>1. PICK c : Sound(pool, slabs, freeptr, held, c) BY DEF ObjPoolInv
<1>2. ChainOK(pool, slabs, c) BY <1>1 DEF Sound
<1>3. Chain = c BY <1>2, ChainFound
<1>4. UNCHANGED <<pool, slabs, freeptr, held>> BY DEF objpool_ser, mem
<1>5. Sound(pool', slabs', freeptr', held', c) BY <1>1, <1>4
<1>6. dumps' \in 0 .. MaxDumps /\ slab_idr' \in [Ids -> 0 .. MaxDumps]
  <2>1. /\ dumps \in 0 .. MaxDumps /\ slab_idr \in [Ids -> 0 .. MaxDumps] /\ dumps < MaxDumps
        /\ MaxDumps \in Nat
    BY ObjPoolAssumption DEF ObjPoolInv, objpool_ser
  <2>2. dumps + 1 \in 0 .. MaxDumps BY <2>1
  <2>3. /\ dumps' = dumps + 1
        /\ slab_idr' = [id \in Ids |->
              IF slab_idr[id] = 0 /\ (\E k \in 1 .. Len(c) : slabs[c[k]].id = id)
              THEN dumps + 1 ELSE slab_idr[id]]
    BY <1>3 DEF objpool_ser
  <2>4. QED BY <2>1, <2>2, <2>3
<1>7. FileOK(file') /\ up' \in BOOLEAN
  <2>1. CASE pool.recent_slab = Null BY <2>1 DEF objpool_ser, FileOK
  <2>2. CASE pool.recent_slab # Null
    <3>1. up' = TRUE /\ file' = Dump(pool, slabs, freeptr, held, c)
      BY <1>3, <2>2 DEF objpool_ser, Dump
    <3>2. QED BY <1>1, <2>2, <3>1 DEF FileOK
  <2>3. QED BY <2>1, <2>2
<1>8. QED BY <1>5, <1>6, <1>7 DEF ObjPoolInv

LEMMA ObjPoolInvInit ==
    ASSUME ObjPoolInit
    PROVE  ObjPoolInv
<1>1. /\ pool = objpool_init /\ slabs = [s \in Places |-> NoSlab]
      /\ freeptr = [o \in Objects |-> Null] /\ held = {}
  BY DEF ObjPoolInit
<1>2. Sound(pool, slabs, freeptr, {}, <<>>) BY <1>1, EmptySound
<1>3. FileOK(file) /\ up \in BOOLEAN BY DEF ObjPoolInit, FileOK
<1>4. MaxDumps \in Nat BY ObjPoolAssumption
<1>5. dumps = 0 /\ slab_idr = [id \in Ids |-> 0] BY DEF ObjPoolInit
<1>6. dumps \in 0 .. MaxDumps /\ slab_idr \in [Ids -> 0 .. MaxDumps] BY <1>4, <1>5
<1>7. QED BY <1>1, <1>2, <1>3, <1>6 DEF ObjPoolInv

LEMMA ObjPoolInvNext ==
    ASSUME ObjPoolInv, [ObjPoolNext]_vars
    PROVE  ObjPoolInv'
<1>1. PICK c : Sound(pool, slabs, freeptr, held, c) BY DEF ObjPoolInv
<1>2. /\ FileOK(file) /\ dumps \in 0 .. MaxDumps /\ slab_idr \in [Ids -> 0 .. MaxDumps]
      /\ up \in BOOLEAN
  BY DEF ObjPoolInv
<1>3. ASSUME \E d : Sound(pool', slabs', freeptr', held', d), UNCHANGED <<slab_idr, dumps, file, up>>
      PROVE  ObjPoolInv'
  BY <1>2, <1>3 DEF ObjPoolInv
<1>4. CASE objpool_alloc
  <2>1. \E d : Sound(pool', slabs', freeptr', held', d) BY <1>1, <1>4, AllocSound
  <2>2. UNCHANGED <<slab_idr, dumps, file, up>>
    BY <1>4 DEF objpool_alloc, AllocFromRecent, AllocFromChain, AllocFromNew, Take
  <2>3. QED BY <1>3, <2>1, <2>2
<1>5. ASSUME NEW o \in Objects, objpool_free(o) PROVE ObjPoolInv'
  <2>1. Sound(pool', slabs', freeptr', held', c) BY <1>1, <1>5, FreeSound
  <2>2. UNCHANGED <<slab_idr, dumps, file, up>> BY <1>5 DEF objpool_free
  <2>3. QED BY <1>3, <2>1, <2>2
<1>6. CASE objpool_ser BY <1>6, SerKeeps
<1>7. CASE objpool_deser_high
  <2>1. MemTyped(pool, slabs, freeptr, held) BY <1>1 DEF Sound
  <2>2. \E d : Sound(pool', slabs', freeptr', held', d) BY <1>2, <1>7, <2>1, DeserSound
  <2>3. UNCHANGED <<slab_idr, dumps, file, up>> BY <1>7 DEF objpool_deser_high
  <2>4. QED BY <1>3, <2>2, <2>3
<1>8. CASE Recreate
  <2>1. /\ pool' = objpool_init /\ slabs' = [s \in Places |-> NoSlab]
        /\ freeptr' = [o \in Objects |-> Null] /\ held' = {}
    BY <1>8 DEF Recreate, Fresh
  <2>2. PICK p, sl, fp : p = pool' /\ sl = slabs' /\ fp = freeptr' OBVIOUS
  <2>3. Sound(p, sl, fp, {}, <<>>) BY <2>1, <2>2, EmptySound
  <2>4. \E d : Sound(pool', slabs', freeptr', held', d) BY <2>1, <2>2, <2>3
  <2>5. MaxDumps \in Nat BY ObjPoolAssumption
  <2>6. dumps' = 0 /\ slab_idr' = [id \in Ids |-> 0] /\ up' = TRUE /\ file' = file
    BY <1>8 DEF Recreate, Fresh
  <2>7. dumps' \in 0 .. MaxDumps /\ slab_idr' \in [Ids -> 0 .. MaxDumps] /\ up' \in BOOLEAN
    BY <2>5, <2>6
  <2>8. FileOK(file') BY <1>2, <2>6
  <2>9. QED BY <2>4, <2>7, <2>8 DEF ObjPoolInv
<1>9. CASE UNCHANGED vars
  <2>1. UNCHANGED <<pool, slabs, freeptr, held, slab_idr, dumps, file, up>> BY <1>9 DEF vars
  <2>2. Sound(pool', slabs', freeptr', held', c) BY <1>1, <2>1
  <2>3. QED BY <1>3, <2>1, <2>2
<1>10. QED BY <1>4, <1>5, <1>6, <1>7, <1>8, <1>9 DEF ObjPoolNext

LEMMA ObjPoolAlways == ObjPoolSpec => []ObjPoolInv
BY ObjPoolInvInit, ObjPoolInvNext, PTL DEF ObjPoolSpec

-----------------------------------------------------------------------------
(* Theorems *)

LEMMA TypeOfInv ==
    ASSUME ObjPoolInv
    PROVE  ObjPoolTypeOK
<1>1. PICK c : Sound(pool, slabs, freeptr, held, c) BY DEF ObjPoolInv
<1>2. /\ pool \in PoolSet /\ slabs \in [Places -> SlabSet] /\ held \subseteq Objects
      /\ freeptr \in [Objects -> Objects \cup SlabPtrs \cup {Null}]
      /\ Len(c) \in Nat /\ Len(c) <= MaxSlabs
  BY <1>1, SoundParts
<1>3. pool.slab_nr = Len(c) BY <1>1 DEF Sound, CountsOK
<1>4. pool.slab_nr \in 0 .. MaxSlabs BY <1>2, <1>3, Addresses
<1>5. pool.slab_head \in Places \cup {Null} /\ pool.recent_slab \in Places \cup {Null}
  BY <1>2 DEF PoolSet
<1>6. \A s \in Places : slabs[s].id \in Ids /\ slabs[s].next \in Places \cup {Null}
                        /\ slabs[s].free \in Objects \cup {Null}
  BY <1>2 DEF SlabSet
<1>7. freeptr \in [Objects -> Objects \cup {SlabPtr(s) : s \in Places} \cup {Null}]
  BY <1>2 DEF SlabPtrs
<1>8. slab_idr \in [Ids -> 0 .. MaxDumps] /\ dumps \in 0 .. MaxDumps /\ up \in BOOLEAN
  BY DEF ObjPoolInv
<1>9. QED BY <1>2, <1>4, <1>5, <1>6, <1>7, <1>8 DEF ObjPoolTypeOK

LEMMA ListsOfInv ==
    ASSUME ObjPoolInv
    PROVE  FreeListsExact
<1>1. PICK c : Sound(pool, slabs, freeptr, held, c) BY DEF ObjPoolInv
<1>2. ChainOK(pool, slabs, c) BY <1>1 DEF Sound
<1>3. InChain = Within(c) /\ Within(c) \subseteq Places BY <1>1, <1>2, ChainFound, SoundParts
<1>4. ASSUME NEW s \in InChain
      PROVE  LET list == FreeList(s)
                 free == {list[k] : k \in 1 .. Len(list)} \ {Null}
             IN  /\ list[Len(list)] = Null
                 /\ free = ObjectsOf(s) \ held
                 /\ \A o \in held \cap ObjectsOf(s) : freeptr[o] = SlabPtr(s)
  <2>1. s \in Places /\ SlabOK(slabs, freeptr, held, s) BY <1>1, <1>3 DEF Sound
  <2>2. PICK l : ListOK(slabs, freeptr, held, s, l) BY <2>1 DEF SlabOK
  <2>3. PICK list : list = FreeList(s) OBVIOUS
  <2>4. /\ list[Len(list)] = Null
        /\ {list[k] : k \in 1 .. Len(list)} \ {Null} = ObjectsOf(s) \ held
    BY <2>1, <2>2, <2>3, ListFound
  <2>5. \A o \in held \cap ObjectsOf(s) : freeptr[o] = SlabPtr(s) BY <2>1 DEF SlabOK
  <2>6. QED BY <2>3, <2>4, <2>5
<1>5. QED BY <1>4 DEF FreeListsExact

LEMMA CountsOfInv ==
    ASSUME ObjPoolInv
    PROVE  CountsRight /\ SlabsNumbered
<1>1. PICK c : Sound(pool, slabs, freeptr, held, c) BY DEF ObjPoolInv
<1>2. ChainOK(pool, slabs, c) BY <1>1 DEF Sound
<1>3. Chain = c /\ InChain = Within(c) BY <1>2, ChainFound
<1>4. Cardinality(Within(c)) = Len(c) BY <1>1, SoundParts
<1>5. /\ pool.slab_nr = Len(c) /\ pool.obj_nr = ObjNum * Len(c)
      /\ pool.free_obj_nr = pool.obj_nr - Cardinality(held)
      /\ \A o \in held : o[1] \in Within(c)
  BY <1>1 DEF Sound, CountsOK
<1>6. CountsRight BY <1>3, <1>4, <1>5 DEF CountsRight
<1>7. SlabsNumbered BY <1>2, <1>3 DEF SlabsNumbered, ChainOK
<1>8. QED BY <1>6, <1>7

\* At every step, through any allocations and frees, dumps, crashes and loads at any
\* places: the free list objpool_alloc takes from goes through exactly the objects the
\* program does not have and ends, the word behind every other object leads objpool_free
\* to its slab, the counters of the pool count, and the slabs are numbered from
\* slab_nr - 1 down to 0 along the chain.
THEOREM ObjPoolIsExact == ObjPoolSpec => []ObjPoolExact
<1>1. ObjPoolInv => ObjPoolExact BY TypeOfInv, ListsOfInv, CountsOfInv DEF ObjPoolExact
<1>2. QED BY ObjPoolAlways, <1>1, PTL

\* objpool_alloc adds a slab only when the counter free_obj_nr is 0: no slab with room
\* is overlooked, whatever slab is the recent one and wherever the room is.
THEOREM ObjPoolGrowsOnlyWhenFull == ObjPoolSpec => GrowsOnlyWhenFull
<1>1. ASSUME ObjPoolInv, [ObjPoolNext]_vars
      PROVE  [(pool'.slab_nr > pool.slab_nr /\ pool # objpool_init) => pool.free_obj_nr = 0]_vars
  <2>1. SUFFICES ASSUME pool'.slab_nr > pool.slab_nr, pool # objpool_init
                 PROVE  pool.free_obj_nr = 0
    OBVIOUS
  <2>2. PICK c : Sound(pool, slabs, freeptr, held, c) BY <1>1 DEF ObjPoolInv
  <2>3. pool \in PoolSet /\ pool.slab_nr \in Nat /\ Within(c) \subseteq Places
    <3>1. pool \in PoolSet /\ Within(c) \subseteq Places BY <2>2, SoundParts
    <3>2. QED BY <3>1 DEF PoolSet
  <2>4. ASSUME pool'.slab_nr = pool.slab_nr \/ pool'.slab_nr = 0 PROVE FALSE BY <2>1, <2>3, <2>4
  <2>5. ASSUME AllocFromNew PROVE pool.free_obj_nr = 0
    <3>1. ChainOK(pool, slabs, c) BY <2>2 DEF Sound
    <3>2. WithRoom(c) = {} BY <2>5, <3>1, ChainFound DEF AllocFromNew
    <3>3. \A s \in Within(c) : slabs[s].free = Null BY <3>2 DEF WithRoom, Within
    <3>4. QED BY <2>2, <3>3, NoRoom
  <2>6. ASSUME AllocFromRecent PROVE FALSE
    <3>1. pool' = [pool EXCEPT !.free_obj_nr = @ - 1] BY <2>6 DEF AllocFromRecent, Take
    <3>2. pool'.slab_nr = pool.slab_nr BY <2>3, <3>1 DEF PoolSet
    <3>3. QED BY <2>4, <3>2
  <2>7. ASSUME AllocFromChain PROVE FALSE
    <3>1. \E s : pool' = [[pool EXCEPT !.recent_slab = s] EXCEPT !.free_obj_nr = @ - 1]
      BY <2>7 DEF AllocFromChain, Take
    <3>2. pool'.slab_nr = pool.slab_nr BY <2>3, <3>1 DEF PoolSet
    <3>3. QED BY <2>4, <3>2
  <2>8. ASSUME NEW o \in Objects, objpool_free(o) PROVE FALSE
    <3>1. pool' = [pool EXCEPT !.free_obj_nr = @ + 1] BY <2>8 DEF objpool_free
    <3>2. pool'.slab_nr = pool.slab_nr BY <2>3, <3>1 DEF PoolSet
    <3>3. QED BY <2>4, <3>2
  <2>9. ASSUME objpool_ser PROVE FALSE
    <3>1. pool' = pool BY <2>9 DEF objpool_ser, mem
    <3>2. QED BY <2>4, <3>1
  <2>10. ASSUME objpool_deser_high PROVE FALSE BY <2>1, <2>10 DEF objpool_deser_high
  <2>11. ASSUME Recreate PROVE FALSE
    <3>1. pool' = objpool_init BY <2>11 DEF Recreate, Fresh
    <3>2. pool'.slab_nr = 0 BY <3>1 DEF objpool_init
    <3>3. QED BY <2>4, <3>2
  <2>12. ASSUME UNCHANGED vars PROVE FALSE
    <3>1. pool' = pool BY <2>12 DEF vars
    <3>2. QED BY <2>4, <3>1
  <2>13. QED BY <1>1, <2>5, <2>6, <2>7, <2>8, <2>9, <2>10, <2>11, <2>12 DEF ObjPoolNext, objpool_alloc
<1>2. QED BY ObjPoolAlways, <1>1, PTL DEF ObjPoolSpec, GrowsOnlyWhenFull
=============================================================================
