------------------------------ MODULE MsmProofs ------------------------------
(***************************************************************************)
(* For any sources, names and pools, and wherever a dump was killed: what  *)
(* a load that returns 0 has read, which files load, where the ids of the  *)
(* file lead, and that the pools of a process are found under their ids.   *)
(***************************************************************************)
EXTENDS Msm, FiniteSetTheorems, NaturalsInduction, WellFoundedInduction, TLAPS

-----------------------------------------------------------------------------
(* Numbers and sequences *)

LEMMA LeastOf ==
    ASSUME NEW T, T \subseteq Nat, T # {}
    PROVE  Min(T) \in T
<1> DEFINE R == OpToRel(<, Nat)
<1>1. IsWellFoundedOn(R, Nat) BY NatLessThanWellFounded
<1>2. \A x, y \in Nat : <<x, y>> \in R <=> x < y BY DEF OpToRel
<1> HIDE DEF R
<1>3. PICK n \in T : \A m \in T : ~(<<m, n>> \in R) BY <1>1, WFMin
<1>4. \A m \in T : ~(m < n) BY <1>2, <1>3
<1>5. \A m \in T : n <= m BY <1>4
<1>6. \E k \in T : \A m \in T : k <= m BY <1>5
<1>7. QED BY <1>6, Zenon DEF Min

LEMMA AppendAt ==
    ASSUME NEW S, NEW s \in Seq(S), NEW x \in S
    PROVE  /\ Append(s, x) \in Seq(S) /\ Len(Append(s, x)) = Len(s) + 1
           /\ Len(s) \in Nat /\ DOMAIN s = 1 .. Len(s)
           /\ DOMAIN Append(s, x) = 1 .. Len(s) + 1
           /\ \A p \in 1 .. Len(s) : Append(s, x)[p] = s[p]
           /\ Append(s, x)[Len(s) + 1] = x
  OBVIOUS

\* A sequence without repetitions is as long as its range is large.
LEMMA RangeCounted ==
    ASSUME NEW S, NEW s \in Seq(S), \A j, k \in DOMAIN s : s[j] = s[k] => j = k
    PROVE  /\ IsFiniteSet({s[k] : k \in DOMAIN s})
           /\ Cardinality({s[k] : k \in DOMAIN s}) = Len(s)
<1> DEFINE T == {s[k] : k \in DOMAIN s}
           f == [k \in 1 .. Len(s) |-> s[k]]
<1>1. Len(s) \in Nat /\ DOMAIN s = 1 .. Len(s) OBVIOUS
<1>2. f \in Bijection(1 .. Len(s), T)
  <2>1. f \in [1 .. Len(s) -> T] BY <1>1
  <2>2. \A t \in T : \E k \in 1 .. Len(s) : f[k] = t BY <1>1
  <2>3. \A j, k \in 1 .. Len(s) : f[j] = f[k] => j = k BY <1>1
  <2> HIDE DEF f, T
  <2>4. QED BY <2>1, <2>2, <2>3 DEF Bijection, Injection, Surjection, IsInjective
<1>3. ExistsBijection(1 .. Len(s), T) BY <1>2 DEF ExistsBijection
<1>4. IsFiniteSet(1 .. Len(s)) /\ Cardinality(1 .. Len(s)) = Len(s)
  BY <1>1, FS_Interval
<1> HIDE DEF T
<1>5. QED BY <1>3, <1>4, FS_Bijection DEF T

-----------------------------------------------------------------------------
(* The offsets *)

\* A detail lies behind the header.
LEMMA DetailsBehindHeader ==
    ASSUME NEW f, NEW n \in Nat, NEW i \in Nat
    PROVE  DetailAt(f, n, i) \in Nat /\ DetailAt(f, n, i) # NotWritten
<1> DEFINE P == (1 .. i - 1) \X (1 .. MaxLen)
<1>1. MaxLen \in Int BY MsmAssumption
<1>2. IsFiniteSet(1 .. i - 1) /\ IsFiniteSet(1 .. MaxLen) BY <1>1, FS_Interval
<1>3. IsFiniteSet(P) BY <1>2, FS_Product
<1>4. InFront(f, i) \in SUBSET P BY DEF InFront
<1> HIDE DEF P
<1>5. IsFiniteSet(InFront(f, i)) BY <1>3, <1>4, FS_Subset
<1>6. Cardinality(InFront(f, i)) \in Nat BY <1>5, FS_CardinalityType
<1>7. QED BY <1>6 DEF DetailAt, HeadLen, NotWritten

\* Where it is depends on the lengths in front of it only.
LEMMA SameLengthsInFront ==
    ASSUME NEW f, NEW g, NEW n, NEW i \in Nat,
           \A k \in 1 .. i - 1 : f.sums[k].len = g.sums[k].len
    PROVE  DetailAt(f, n, i) = DetailAt(g, n, i)
<1>1. \A u \in (1 .. i - 1) \X (1 .. MaxLen) : f.sums[u[1]].len = g.sums[u[1]].len
  OBVIOUS
<1>2. InFront(f, i) = InFront(g, i) BY <1>1 DEF InFront
<1>3. QED BY <1>2 DEF DetailAt

-----------------------------------------------------------------------------
(* The ids of the pools *)

\* Every one of the sources S has one id, and no id is NoId.
IdsOf(map, S) ==
    /\ DOMAIN map \subseteq Nat \ {0}
    /\ \A id \in DOMAIN map : map[id] \in S
    /\ \A s \in S : \E id \in DOMAIN map : map[id] = s
    /\ \A id, jd \in DOMAIN map : map[id] = map[jd] => id = jd

\* There is always a free id, since there are more ids than sources.
LEMMA LeastIdFree ==
    ASSUME NEW map, NEW S \in SUBSET Sources, IdsOf(map, S)
    PROVE  LeastId(map) \in Nat \ {0} /\ LeastId(map) \notin DOMAIN map
<1> DEFINE C == Cardinality(Sources) + 1
           T == 1 .. C \ DOMAIN map
<1>1. IsFiniteSet(Sources) BY MsmAssumption
<1>2. Cardinality(Sources) \in Nat BY <1>1, FS_CardinalityType
<1>3. C \in Nat /\ IsFiniteSet(1 .. C) /\ Cardinality(1 .. C) = C
  BY <1>2, FS_Interval
<1>4. T # {}
  <2> SUFFICES ASSUME T = {} PROVE FALSE
    OBVIOUS
  <2> DEFINE f == [i \in 1 .. C |-> map[i]]
  <2>1. \A i \in 1 .. C : i \in DOMAIN map OBVIOUS
  <2>2. f \in [1 .. C -> Sources] BY <2>1 DEF IdsOf
  <2>3. Cardinality(Sources) < Cardinality(1 .. C) BY <1>2, <1>3
  <2>4. \A i, j \in 1 .. C : f[i] = f[j] => i = j BY <2>1 DEF IdsOf
  <2> HIDE DEF f, C
  <2>5. QED BY <1>1, <1>3, <2>2, <2>3, <2>4, FS_PigeonHole
<1>5. T \subseteq Nat \ {0} OBVIOUS
<1>6. Min(T) \in T BY <1>4, <1>5, LeastOf
<1>7. LeastId(map) \in T BY <1>6 DEF LeastId
<1>8. QED BY <1>5, <1>7

\* p gives the pools of the sources S the ids the map has for them, and no other pool one.
PoolIds(map, S, p) ==
    /\ p \in [Sources -> Nat]
    /\ \A s \in Sources : s \in S => p[s] \in DOMAIN map /\ map[p[s]] = s
    /\ \A s \in Sources : s \notin S => p[s] = NoId

LEMMA IdTaken ==
    ASSUME NEW map, NEW S \in SUBSET Sources, IdsOf(map, S \ WithoutId),
           NEW p, PoolIds(map, S \ WithoutId, p),
           NEW s \in Sources, s \notin S
    PROVE  /\ IdsOf(WithId(map, s), (S \cup {s}) \ WithoutId)
           /\ PoolIds(WithId(map, s), (S \cup {s}) \ WithoutId, [p EXCEPT ![s] = NewId(map, s)])
<1>1. CASE s \in WithoutId
  <2>1. /\ WithId(map, s) = map /\ (S \cup {s}) \ WithoutId = S \ WithoutId
        /\ NewId(map, s) = NoId
    BY <1>1 DEF WithId, NewId
  <2>2. p[s] = NoId /\ p \in [Sources -> Nat] BY DEF PoolIds
  <2>3. [p EXCEPT ![s] = NoId] = p BY <2>2
  <2>4. QED BY <2>1, <2>3
<1>2. CASE s \notin WithoutId
  <2> DEFINE id == LeastId(map)
             new == WithId(map, s)
             q == [p EXCEPT ![s] = id]
  <2>1. id \in Nat \ {0} /\ id \notin DOMAIN map BY LeastIdFree
  <2>2. new = [i \in DOMAIN map \cup {id} |-> IF i \in DOMAIN map THEN map[i] ELSE s]
    BY <1>2 DEF WithId
  <2>9. NewId(map, s) = id BY <1>2 DEF NewId
  <2> HIDE DEF id, new
  <2>3. DOMAIN new = DOMAIN map \cup {id} /\ new[id] = s /\ \A i \in DOMAIN map : new[i] = map[i]
    BY <2>1, <2>2
  <2>4. DOMAIN new \subseteq Nat \ {0} BY <2>1, <2>3 DEF IdsOf
  <2>5. \A i \in DOMAIN new : new[i] \in (S \cup {s}) \ WithoutId BY <1>2, <2>3 DEF IdsOf
  <2>6. \A t \in (S \cup {s}) \ WithoutId : \E i \in DOMAIN new : new[i] = t BY <2>3 DEF IdsOf
  <2>7. \A i, j \in DOMAIN new : new[i] = new[j] => i = j BY <2>3 DEF IdsOf
  <2>8. IdsOf(new, (S \cup {s}) \ WithoutId) BY <2>4, <2>5, <2>6, <2>7 DEF IdsOf
  <2>10. /\ q \in [Sources -> Nat] /\ q[s] = id
         /\ \A t \in Sources : t # s => q[t] = p[t]
    BY <2>1 DEF PoolIds
  <2>11. PoolIds(new, (S \cup {s}) \ WithoutId, q)
    BY <1>2, <2>3, <2>10 DEF PoolIds
  <2>12. QED BY <2>8, <2>9, <2>11 DEF new
<1>3. QED BY <1>1, <1>2

LEMMA IdGivenBack ==
    ASSUME NEW map, NEW S \in SUBSET Sources, IdsOf(map, S \ WithoutId),
           NEW p, PoolIds(map, S \ WithoutId, p), NEW s \in S
    PROVE  /\ IdsOf(Removed(map, p[s]), (S \ {s}) \ WithoutId)
           /\ PoolIds(Removed(map, p[s]), (S \ {s}) \ WithoutId, [p EXCEPT ![s] = NoId])
<1> DEFINE id == p[s]
           new == Removed(map, id)
           q == [p EXCEPT ![s] = NoId]
<1>1. DOMAIN new = DOMAIN map \ {id} /\ \A i \in DOMAIN new : new[i] = map[i]
  BY DEF Removed
<1>2. /\ s \notin WithoutId => id \in DOMAIN map /\ map[id] = s
      /\ s \in WithoutId => id = 0
  BY DEF PoolIds, NoId
<1>3. 0 \notin DOMAIN map BY DEF IdsOf
<1> HIDE DEF new, id
<1>4. IdsOf(new, (S \ {s}) \ WithoutId)
  <2>1. DOMAIN new \subseteq Nat \ {0} BY <1>1 DEF IdsOf
  <2>2. \A i \in DOMAIN new : new[i] \in (S \ {s}) \ WithoutId BY <1>1, <1>2 DEF IdsOf
  <2>3. \A t \in (S \ {s}) \ WithoutId : \E i \in DOMAIN new : new[i] = t
    BY <1>1, <1>2, <1>3 DEF IdsOf
  <2>4. \A i, j \in DOMAIN new : new[i] = new[j] => i = j BY <1>1 DEF IdsOf
  <2>5. QED BY <2>1, <2>2, <2>3, <2>4 DEF IdsOf
<1>5. /\ q \in [Sources -> Nat] /\ q[s] = NoId
      /\ \A t \in Sources : t # s => q[t] = p[t]
  BY DEF PoolIds, NoId
<1>6. PoolIds(new, (S \ {s}) \ WithoutId, q)
  <2>1. ASSUME NEW t \in Sources, t \in (S \ {s}) \ WithoutId
        PROVE  q[t] \in DOMAIN new /\ new[q[t]] = t
    <3>1. q[t] = p[t] /\ p[t] \in DOMAIN map /\ map[p[t]] = t BY <1>5, <2>1 DEF PoolIds
    <3>2. p[t] # id BY <1>2, <1>3, <2>1, <3>1
    <3>3. QED BY <1>1, <3>1, <3>2
  <2>2. \A t \in Sources : t \notin (S \ {s}) \ WithoutId => q[t] = NoId
    BY <1>5 DEF PoolIds
  <2>3. QED BY <1>5, <2>1, <2>2 DEF PoolIds
<1>7. QED BY <1>4, <1>6 DEF new, id

-----------------------------------------------------------------------------
(* The root structure and its references *)

NoRepeats(s) == \A j, k \in DOMAIN s : s[j] = s[k] => j = k

\* The fields of the structure, so that an update of some leaves the others.
Root(r) == r = [ds |-> r.ds, refcnt |-> r.refcnt, rdonly |-> r.rdonly,
                poolidr |-> r.poolidr, ididr |-> r.ididr]

\* The sources of a sequence.
Of(s) == {s[k] : k \in DOMAIN s}

\* A structure with n references to it, and the ids p of its pools.
RootWell(r, n, p) == /\ Root(r) /\ r.refcnt = n
                     /\ r.ds \in Seq(Sources) /\ NoRepeats(r.ds)
                     /\ IdsOf(r.poolidr, Of(r.ds) \ WithoutId)
                     /\ PoolIds(r.poolidr, Of(r.ds) \ WithoutId, p)

NoIds == [s \in Sources |-> NoId]

RootOK == /\ refs \in Nat
          /\ pools \in [Sources -> Nat]
          /\ srd = NoSrd => refs = 0 /\ poolid = NoIds
          /\ srd # NoSrd => RootWell(srd, refs, poolid)

LEMMA RegisteredAre == Registered = Of(srd.ds)
  BY DEF Registered, Of

LEMMA RegisteredAreSources ==
    ASSUME NEW s \in Seq(Sources)
    PROVE  Of(s) \in SUBSET Sources
  BY DEF Of

LEMMA RootIsNoNull == ASSUME NEW r, Root(r) PROVE r # NoSrd
<1> DEFINE q == [ds |-> r.ds, refcnt |-> r.refcnt, rdonly |-> r.rdonly,
                 poolidr |-> r.poolidr, ididr |-> r.ididr]
<1>1. "ds" \in DOMAIN q OBVIOUS
<1>2. DOMAIN NoSrd = {} BY DEF NoSrd
<1>3. r = q BY DEF Root
<1> HIDE DEF q
<1>4. QED BY <1>1, <1>2, <1>3

LEMMA NewRoot == RootWell(NewSrd, 0, NoIds)
<1>1. Root(NewSrd) /\ NewSrd.refcnt = 0 /\ NewSrd.ds = <<>> /\ NewSrd.poolidr = EmptyMap
  BY DEF Root, NewSrd
<1>2. <<>> \in Seq(Sources) /\ NoRepeats(<<>>) /\ Of(<<>>) = {} BY DEF NoRepeats, Of
<1>3. IdsOf(EmptyMap, {}) BY DEF IdsOf, EmptyMap
<1>4. {} \ WithoutId = {} OBVIOUS
<1>5. PoolIds(EmptyMap, {}, NoIds) BY DEF PoolIds, NoIds, NoId
<1>6. QED BY <1>1, <1>2, <1>3, <1>4, <1>5 DEF RootWell

\* One reference more or less.
LEMMA Counted ==
    ASSUME NEW r, NEW n, NEW p, RootWell(r, n, p), NEW m
    PROVE  RootWell([r EXCEPT !.refcnt = m], m, p)
<1> DEFINE q == [r EXCEPT !.refcnt = m]
<1>1. Root(q) /\ q.refcnt = m /\ q.ds = r.ds /\ q.poolidr = r.poolidr
  BY DEF RootWell, Root
<1> HIDE DEF q
<1>2. RootWell(q, m, p) BY <1>1 DEF RootWell
<1>3. QED BY <1>2 DEF q

LEMMA RegisterKeepsRoot ==
    ASSUME NEW r, NEW n, NEW p, RootWell(r, n, p), NEW s \in Sources, s \notin Of(r.ds)
    PROVE  RootWell([r EXCEPT !.ds = Append(r.ds, s), !.poolidr = WithId(r.poolidr, s)], n,
                    [p EXCEPT ![s] = NewId(r.poolidr, s)])
<1> DEFINE q == [r EXCEPT !.ds = Append(r.ds, s), !.poolidr = WithId(r.poolidr, s)]
<1>0. Root(r) /\ r.refcnt = n BY DEF RootWell
<1> DEFINE q1 == [r EXCEPT !.ds = Append(r.ds, s)]
<1>01. q = [q1 EXCEPT !.poolidr = WithId(r.poolidr, s)] OBVIOUS
<1>02. Root(q1) /\ q1.refcnt = n /\ q1.ds = Append(r.ds, s) BY <1>0 DEF Root
<1> HIDE DEF q, q1
<1>1. /\ Root(q) /\ q.refcnt = n
      /\ q.ds = Append(r.ds, s) /\ q.poolidr = WithId(r.poolidr, s)
  BY <1>01, <1>02 DEF Root
<1> HIDE DEF q
<1>2. /\ r.ds \in Seq(Sources) /\ NoRepeats(r.ds) /\ IdsOf(r.poolidr, Of(r.ds) \ WithoutId)
      /\ PoolIds(r.poolidr, Of(r.ds) \ WithoutId, p)
  BY DEF RootWell
<1> DEFINE t == Append(r.ds, s)
<1>3. /\ t \in Seq(Sources) /\ Len(r.ds) \in Nat /\ DOMAIN r.ds = 1 .. Len(r.ds)
      /\ DOMAIN t = 1 .. Len(r.ds) + 1
      /\ \A k \in 1 .. Len(r.ds) : t[k] = r.ds[k]
      /\ t[Len(r.ds) + 1] = s
  BY <1>2, AppendAt
<1> HIDE DEF t
<1>4. \A k \in DOMAIN t : k = Len(r.ds) + 1 \/ k \in DOMAIN r.ds BY <1>3
<1>5. NoRepeats(t) BY <1>2, <1>3, <1>4 DEF NoRepeats, Of
<1>6. Of(t) = Of(r.ds) \cup {s}
  <2>1. \A k \in DOMAIN r.ds : k \in DOMAIN t /\ t[k] = r.ds[k] BY <1>3
  <2>2. Len(r.ds) + 1 \in DOMAIN t BY <1>3
  <2>3. QED BY <1>3, <1>4, <2>1, <2>2 DEF Of
<1> DEFINE ids == [p EXCEPT ![s] = NewId(r.poolidr, s)]
<1>7. IdsOf(q.poolidr, Of(t) \ WithoutId) /\ PoolIds(q.poolidr, Of(t) \ WithoutId, ids)
  <2>1. Of(r.ds) \in SUBSET Sources BY <1>2, RegisteredAreSources
  <2>2. /\ IdsOf(WithId(r.poolidr, s), (Of(r.ds) \cup {s}) \ WithoutId)
        /\ PoolIds(WithId(r.poolidr, s), (Of(r.ds) \cup {s}) \ WithoutId, ids)
    BY <1>2, <2>1, IdTaken
  <2>3. QED BY <1>1, <1>6, <2>2
<1> HIDE DEF ids
<1>8. RootWell(q, n, ids) BY <1>1, <1>3, <1>5, <1>7 DEF RootWell, t
<1>9. QED BY <1>8 DEF q, ids

LEMMA ChangeKeepsRoot ==
    ASSUME NEW r, NEW n, NEW p, RootWell(r, n, p), NEW s \in Of(r.ds)
    PROVE  RootWell([r EXCEPT !.poolidr = WithId(Removed(r.poolidr, p[s]), s)], n,
                    [p EXCEPT ![s] = NewId(Removed(r.poolidr, p[s]), s)])
<1> DEFINE map == Removed(r.poolidr, p[s])
           q == [r EXCEPT !.poolidr = WithId(map, s)]
<1>1. /\ Root(q) /\ q.refcnt = n /\ q.ds = r.ds
      /\ q.poolidr = WithId(map, s)
  BY DEF RootWell, Root
<1> HIDE DEF q
<1>2. /\ r.ds \in Seq(Sources) /\ NoRepeats(r.ds) /\ IdsOf(r.poolidr, Of(r.ds) \ WithoutId)
      /\ PoolIds(r.poolidr, Of(r.ds) \ WithoutId, p)
  BY DEF RootWell
<1>3. Of(r.ds) \in SUBSET Sources BY <1>2, RegisteredAreSources
<1> DEFINE without == [p EXCEPT ![s] = NoId]
           ids == [p EXCEPT ![s] = NewId(map, s)]
<1>4. IdsOf(map, (Of(r.ds) \ {s}) \ WithoutId) /\ PoolIds(map, (Of(r.ds) \ {s}) \ WithoutId, without)
  BY <1>2, <1>3, IdGivenBack
<1>5. /\ Of(r.ds) \ {s} \in SUBSET Sources /\ s \in Sources /\ s \notin Of(r.ds) \ {s}
      /\ (Of(r.ds) \ {s}) \cup {s} = Of(r.ds)
  BY <1>3
<1>9. ids = [without EXCEPT ![s] = NewId(map, s)] BY <1>5
<1> HIDE DEF map, without, ids
<1>6. IdsOf(q.poolidr, Of(r.ds) \ WithoutId) /\ PoolIds(q.poolidr, Of(r.ds) \ WithoutId, ids)
  <2> DEFINE S == Of(r.ds) \ {s}
  <2>1. /\ IdsOf(WithId(map, s), (S \cup {s}) \ WithoutId)
        /\ PoolIds(WithId(map, s), (S \cup {s}) \ WithoutId, [without EXCEPT ![s] = NewId(map, s)])
    BY <1>4, <1>5, IdTaken
  <2>2. QED BY <1>1, <1>5, <1>9, <2>1
<1>7. RootWell(q, n, ids) BY <1>1, <1>2, <1>6 DEF RootWell
<1>8. QED BY <1>7 DEF q, ids, map

LEMMA SetsFlag ==
    ASSUME NEW r, Root(r), NEW b
    PROVE  LET q == [r EXCEPT !.rdonly = b]
           IN  Root(q) /\ q.refcnt = r.refcnt /\ q.ds = r.ds /\ q.poolidr = r.poolidr
  BY DEF Root

LEMMA LoadKeepsRoot ==
    ASSUME NEW r, NEW n, NEW p, RootWell(r, n, p), NEW map
    PROVE  RootWell([r EXCEPT !.rdonly = TRUE, !.ididr = map], n, p)
<1> DEFINE q == [r EXCEPT !.rdonly = TRUE, !.ididr = map]
<1>0. Root(r) /\ r.refcnt = n BY DEF RootWell
<1> DEFINE q1 == [r EXCEPT !.rdonly = TRUE]
<1>01. q = [q1 EXCEPT !.ididr = map] OBVIOUS
<1>02. Root(q1) /\ q1.refcnt = n /\ q1.ds = r.ds /\ q1.poolidr = r.poolidr
  BY <1>0, SetsFlag
<1> HIDE DEF q, q1
<1>1. Root(q) /\ q.refcnt = n /\ q.ds = r.ds /\ q.poolidr = r.poolidr
  BY <1>01, <1>02 DEF Root
<1> HIDE DEF q
<1>2. RootWell(q, n, p) BY <1>1 DEF RootWell
<1>3. QED BY <1>2 DEF q

-----------------------------------------------------------------------------
(* The file *)

FileShape(f) == f = [size |-> f.size, cnt |-> f.cnt, sums |-> f.sums, dets |-> f.dets,
                     meant |-> f.meant]

Entry  == [name : Sources, off : Nat, len : Nat]
Detail == [holds : Nat, id : Nat]

FileTyped(f) ==
    /\ FileShape(f)
    /\ f.sums \in Seq(Entry) /\ f.dets \in Seq(Detail) /\ f.cnt \in Nat
    /\ DOMAIN f.meant \subseteq Sources /\ \A s \in DOMAIN f.meant : f.meant[s] \in Nat

\* How far the stores have come: all of the summary is there before the first detail.
Meant(f) == Cardinality(DOMAIN f.meant)
FileCounts(f) ==
    /\ Meant(f) \in Nat
    /\ Len(f.dets) <= Len(f.sums) /\ Len(f.sums) <= Meant(f) /\ f.cnt <= Len(f.sums)
    /\ Len(f.dets) > 0 => f.cnt = Meant(f)

\* The summary names what was to be saved, and a complete one names all of it.
FileNames(f) ==
    /\ \A j, k \in 1 .. Len(f.sums) : f.sums[j].name = f.sums[k].name => j = k
    /\ \A k \in 1 .. Len(f.sums) : f.sums[k].name \in DOMAIN f.meant
    /\ Len(f.sums) = Meant(f) =>
         \A s \in DOMAIN f.meant : \E k \in 1 .. Len(f.sums) : f.sums[k].name = s

\* A detail holds what was to be saved, under an id of its own if the pool has one.
FileDetails(f) ==
    /\ \A k \in 1 .. Len(f.dets) :
         /\ f.dets[k].holds = f.meant[f.sums[k].name]
         /\ f.sums[k].len = f.meant[f.sums[k].name]
         /\ f.dets[k].id = NoId <=> f.sums[k].name \in WithoutId
    /\ \A j, k \in 1 .. Len(f.dets) : f.dets[j].id = f.dets[k].id /\ f.dets[j].id # NoId => j = k

\* An offset is right or not written; without a detail there is neither offset nor length.
FileOffsets(f) ==
    /\ \A k \in 1 .. Len(f.dets) : f.sums[k].off \in {NotWritten, DetailAt(f, Meant(f), k)}
    /\ \A k \in 1 .. Len(f.sums) :
         k > Len(f.dets) => f.sums[k].off = NotWritten /\ f.sums[k].len = 0

FileOK(f) == FileTyped(f) /\ FileCounts(f) /\ FileNames(f) /\ FileDetails(f) /\ FileOffsets(f)

\* While a dump is under way the file is a part of what it is to save, and the
\* structure and the pools stand still.
Progress(f, at, i, n) ==
    /\ at \in {"extend", "head"} => f.sums = <<>> /\ f.cnt = 0 /\ f.dets = <<>>
    /\ at = "summary" => /\ i \in 1 .. n /\ Len(f.sums) = i - 1 /\ f.cnt = i - 1
                         /\ f.dets = <<>>
    /\ at = "count" => /\ i \in 1 .. n /\ Len(f.sums) = i /\ f.cnt = i - 1
                       /\ f.dets = <<>>
    /\ at = "detail" => /\ i \in 1 .. n /\ Len(f.sums) = n /\ f.cnt = n
                        /\ Len(f.dets) = i - 1
    /\ at = "offset" => /\ i \in 1 .. n /\ Len(f.sums) = n /\ f.cnt = n
                        /\ Len(f.dets) = i

Follows ==
    /\ srd # NoSrd
    /\ DOMAIN file.meant = Registered
    /\ \A s \in Registered : file.meant[s] = pools[s]
    /\ \A k \in 1 .. Len(file.sums) : file.sums[k].name = srd.ds[k]
    /\ \A k \in 1 .. Len(file.dets) : file.dets[k].id = poolid[srd.ds[k]]

DumpOK ==
    /\ dump = [at |-> dump.at, i |-> dump.i]
    /\ dump.at \in {"idle", "extend", "head", "summary", "count", "detail", "offset"}
    /\ dump.at # "idle" => Follows /\ Progress(file, dump.at, dump.i, Len(srd.ds))

MsmInv == RootOK /\ FileOK(file) /\ DumpOK

LEMMA LengthSet ==
    ASSUME NEW s \in Seq(Entry), NEW i \in 1 .. Len(s), NEW x \in Nat
    PROVE  LET t == [s EXCEPT ![i] = [s[i] EXCEPT !.len = x]] IN
           /\ t \in Seq(Entry) /\ Len(t) = Len(s)
           /\ t[i].name = s[i].name /\ t[i].off = s[i].off /\ t[i].len = x
           /\ \A k \in 1 .. Len(s) : k # i => t[k] = s[k]
<1> DEFINE e == [s[i] EXCEPT !.len = x]
<1>1. s[i] \in Entry OBVIOUS
<1>2. e \in Entry /\ e.len = x /\ e.name = s[i].name /\ e.off = s[i].off BY <1>1 DEF Entry
<1> HIDE DEF e
<1>03. LET t == [s EXCEPT ![i] = e] IN
       /\ t \in Seq(Entry) /\ Len(t) = Len(s) /\ t[i] = e
       /\ \A k \in 1 .. Len(s) : k # i => t[k] = s[k]
  BY <1>2
<1>3. QED BY <1>2, <1>03 DEF e

LEMMA OffsetSet ==
    ASSUME NEW s \in Seq(Entry), NEW i \in 1 .. Len(s), NEW x \in Nat
    PROVE  LET t == [s EXCEPT ![i] = [s[i] EXCEPT !.off = x]] IN
           /\ t \in Seq(Entry) /\ Len(t) = Len(s)
           /\ t[i].name = s[i].name /\ t[i].off = x /\ t[i].len = s[i].len
           /\ \A k \in 1 .. Len(s) : k # i => t[k] = s[k]
<1> DEFINE e == [s[i] EXCEPT !.off = x]
<1>1. s[i] \in Entry OBVIOUS
<1>2. e \in Entry /\ e.off = x /\ e.name = s[i].name /\ e.len = s[i].len BY <1>1 DEF Entry
<1> HIDE DEF e
<1>03. LET t == [s EXCEPT ![i] = e] IN
       /\ t \in Seq(Entry) /\ Len(t) = Len(s) /\ t[i] = e
       /\ \A k \in 1 .. Len(s) : k # i => t[k] = s[k]
  BY <1>2
<1>3. QED BY <1>2, <1>03 DEF e

\* The names stay those of another file as long and meant for the same.
LEMMA SameNames ==
    ASSUME NEW f, NEW g, FileNames(f), g.meant = f.meant, Len(g.sums) = Len(f.sums),
           \A k \in 1 .. Len(f.sums) : g.sums[k].name = f.sums[k].name
    PROVE  FileNames(g)
<1>1. Meant(g) = Meant(f) BY DEF Meant
<1>2. \A j, k \in 1 .. Len(g.sums) : g.sums[j].name = g.sums[k].name => j = k
  BY DEF FileNames
<1>3. \A k \in 1 .. Len(g.sums) : g.sums[k].name \in DOMAIN g.meant BY DEF FileNames
<1>4. Len(g.sums) = Meant(g) =>
         \A s \in DOMAIN g.meant : \E k \in 1 .. Len(g.sums) : g.sums[k].name = s
  BY <1>1 DEF FileNames
<1>5. QED BY <1>2, <1>3, <1>4 DEF FileNames

\* A file the next dump has truncated.
LEMMA TruncatedOK ==
    ASSUME RootOK, srd # NoSrd, NEW m, DOMAIN m = Registered, \A s \in Registered : m[s] = pools[s]
    PROVE  FileOK(Truncated(m))
<1> DEFINE f == Truncated(m)
<1>1. /\ FileShape(f) /\ f.sums = <<>> /\ f.dets = <<>> /\ f.cnt = 0 /\ f.meant = m
  BY DEF Truncated, FileShape
<1> HIDE DEF f
<1>2. srd.ds \in Seq(Sources) /\ NoRepeats(srd.ds) /\ pools \in [Sources -> Nat]
  BY DEF RootOK, RootWell
<1>3. Registered \subseteq Sources BY <1>2, RegisteredAre, RegisteredAreSources
<1>4. FileTyped(f) BY <1>1, <1>2, <1>3 DEF FileTyped
<1>5. IsFiniteSet(Registered) BY <1>2, RangeCounted DEF NoRepeats, Registered
<1>6. Meant(f) \in Nat BY <1>1, <1>5, FS_CardinalityType DEF Meant
<1>7. FileCounts(f) BY <1>1, <1>6 DEF FileCounts
<1>8. FileNames(f)
  <2>1. Meant(f) = 0 => DOMAIN m = {} BY <1>1, <1>5, FS_EmptySet DEF Meant
  <2>2. QED BY <1>1, <2>1 DEF FileNames
<1>9. FileDetails(f) /\ FileOffsets(f) BY <1>1 DEF FileDetails, FileOffsets
<1>10. QED BY <1>4, <1>7, <1>8, <1>9 DEF FileOK, f

-----------------------------------------------------------------------------
(* The stores of a dump *)

\* What is known while a dump is under way.
LEMMA Dumped ==
    ASSUME MsmInv, dump.at # "idle"
    PROVE  /\ srd # NoSrd /\ Follows /\ Progress(file, dump.at, dump.i, Len(srd.ds)) /\ FileOK(file)
           /\ srd.ds \in Seq(Sources) /\ NoRepeats(srd.ds) /\ Len(srd.ds) \in Nat
           /\ DOMAIN srd.ds = 1 .. Len(srd.ds)
           /\ \A k \in 1 .. Len(srd.ds) : srd.ds[k] \in Registered /\ srd.ds[k] \in Sources
           /\ Meant(file) = Len(srd.ds) /\ pools \in [Sources -> Nat]
<1>1. Follows /\ Progress(file, dump.at, dump.i, Len(srd.ds)) /\ FileOK(file) /\ RootOK
  BY DEF MsmInv, DumpOK
<1>2. srd # NoSrd /\ DOMAIN file.meant = Registered BY <1>1 DEF Follows
<1>3. srd.ds \in Seq(Sources) /\ NoRepeats(srd.ds) /\ pools \in [Sources -> Nat]
  BY <1>1, <1>2 DEF RootOK, RootWell
<1>4. Len(srd.ds) \in Nat /\ DOMAIN srd.ds = 1 .. Len(srd.ds) BY <1>3
<1>5. \A k \in 1 .. Len(srd.ds) : srd.ds[k] \in Registered /\ srd.ds[k] \in Sources
  BY <1>3, <1>4 DEF Registered
<1>6. Meant(file) = Len(srd.ds) BY <1>2, <1>3, RangeCounted DEF NoRepeats, Meant, Registered
<1>7. QED BY <1>1, <1>2, <1>3, <1>4, <1>5, <1>6

\* A step of the dump leaves the structure and the pools, and what the file is to save.
LEMMA RestStands ==
    ASSUME MsmInv, dump.at # "idle", UNCHANGED <<srd, pools, poolid, refs>>,
           file'.meant = file.meant
    PROVE  /\ RootOK'
           /\ srd' # NoSrd /\ DOMAIN file'.meant = Registered'
           /\ \A s \in Registered' : file'.meant[s] = pools'[s]
           /\ poolid' = poolid
<1>1. RootOK' BY DEF MsmInv, RootOK
<1>2. Registered' = Registered BY DEF Registered
<1>3. poolid' = poolid OBVIOUS
<1>4. QED BY <1>1, <1>2, <1>3, Dumped DEF Follows

\* A source that is registered and takes an id has one of its own.
LEMMA IdOfRegistered ==
    ASSUME RootOK, srd # NoSrd, NEW s \in Registered
    PROVE  /\ poolid[s] \in Nat /\ (poolid[s] = NoId <=> s \in WithoutId)
           /\ s \notin WithoutId => poolid[s] \in DOMAIN srd.poolidr /\ srd.poolidr[poolid[s]] = s
<1>1. /\ IdsOf(srd.poolidr, Registered \ WithoutId)
      /\ PoolIds(srd.poolidr, Registered \ WithoutId, poolid)
      /\ s \in Sources
  BY RegisteredAre, RegisteredAreSources DEF RootOK, RootWell
<1>2. CASE s \in WithoutId BY <1>1, <1>2 DEF PoolIds, NoId
<1>3. CASE s \notin WithoutId
  <2>1. poolid[s] \in DOMAIN srd.poolidr /\ srd.poolidr[poolid[s]] = s BY <1>1, <1>3 DEF PoolIds
  <2>2. poolid[s] \in Nat \ {0} BY <1>1, <2>1 DEF IdsOf
  <2>3. QED BY <1>3, <2>1, <2>2 DEF NoId
<1>4. QED BY <1>2, <1>3

\* What a store has to show.
LEMMA Stored ==
    ASSUME MsmInv, dump.at # "idle", UNCHANGED <<srd, pools, poolid, refs>>,
           file'.meant = file.meant, FileOK(file'),
           NEW a \in {"idle", "extend", "head", "summary", "count", "detail", "offset"}, NEW i,
           dump' = [at |-> a, i |-> i],
           \A k \in 1 .. Len(file'.sums) : file'.sums[k].name = srd.ds[k],
           \A k \in 1 .. Len(file'.dets) : file'.dets[k].id = poolid[srd.ds[k]],
           Progress(file', a, i, Len(srd.ds))
    PROVE  MsmInv'
<1>1. /\ RootOK' /\ srd' # NoSrd /\ DOMAIN file'.meant = Registered'
      /\ \A s \in Registered' : file'.meant[s] = pools'[s]
      /\ poolid' = poolid
  BY RestStands
<1>2. \A k \in 1 .. Len(file'.dets) : file'.dets[k].id = poolid'[srd.ds[k]] OBVIOUS
<1>3. Follows' BY <1>1, <1>2 DEF Follows
<1>4. dump'.at = a /\ dump'.i = i OBVIOUS
<1>5. Progress(file', dump'.at, dump'.i, Len(srd'.ds)) BY <1>4
<1>6. DumpOK' BY <1>3, <1>4, <1>5 DEF DumpOK
<1>7. QED BY <1>1, <1>6 DEF MsmInv

\* A file with the same contents is as good.
LEMMA SameContents ==
    ASSUME NEW f, NEW g, FileOK(f), FileShape(g), g.cnt = f.cnt, g.sums = f.sums,
           g.dets = f.dets, g.meant = f.meant
    PROVE  FileOK(g)
<1>1. FileTyped(g) /\ Meant(g) = Meant(f) BY DEF FileOK, FileTyped, Meant
<1>2. FileCounts(g) /\ FileNames(g) /\ FileDetails(g)
  BY <1>1 DEF FileOK, FileCounts, FileNames, FileDetails
<1>3. \A k \in Nat : DetailAt(g, Meant(g), k) = DetailAt(f, Meant(f), k)
  BY <1>1, SameLengthsInFront
<1>4. FileOffsets(g)
  <2>1. Len(f.dets) \in Nat BY DEF FileOK, FileTyped
  <2>2. QED BY <1>3, <2>1 DEF FileOK, FileOffsets
<1>5. QED BY <1>1, <1>2, <1>4 DEF FileOK

LEMMA ExtendStep == ASSUME MsmInv, DumpExtend PROVE MsmInv'
<1>1. /\ dump.at = "extend" /\ dump.at # "idle" /\ UNCHANGED <<srd, pools, poolid, refs>>
      /\ dump = [at |-> dump.at, i |-> dump.i]
  BY DEF DumpExtend, MsmInv, DumpOK
<1>2. /\ Follows /\ Progress(file, dump.at, dump.i, Len(srd.ds)) /\ FileOK(file)
      /\ file.sums = <<>> /\ file.cnt = 0 /\ file.dets = <<>>
  BY <1>1, Dumped DEF Progress
<1>3. FileShape(file) BY <1>2 DEF FileOK, FileTyped
<1>4. CASE file' = [file EXCEPT !.size = ser_osz] /\ dump' = [at |-> "head", i |-> 0]
  <2>0. PICK z : file' = [file EXCEPT !.size = z] BY <1>4
  <2>1. /\ FileShape(file') /\ file'.cnt = file.cnt /\ file'.sums = file.sums
        /\ file'.dets = file.dets /\ file'.meant = file.meant
    BY <1>3, <2>0 DEF FileShape
  <2>2. FileOK(file') BY <1>2, <2>1, SameContents
  <2>3. Progress(file', "head", 0, Len(srd.ds)) BY <1>2, <2>1 DEF Progress
  <2>4. QED BY <1>1, <1>2, <1>4, <2>1, <2>2, <2>3, Stored
<1>5. CASE dump' = Idle /\ UNCHANGED file
  <2>1. Progress(file', "idle", 0, Len(srd.ds)) BY DEF Progress
  <2>2. dump' = [at |-> "idle", i |-> 0] BY <1>5 DEF Idle
  <2>3. QED BY <1>1, <1>2, <1>5, <2>1, <2>2, Stored DEF Follows
<1>6. QED BY <1>4, <1>5 DEF DumpExtend

LEMMA HeadStep == ASSUME MsmInv, DumpHead PROVE MsmInv'
<1>1. /\ dump.at = "head" /\ dump.at # "idle" /\ UNCHANGED <<srd, pools, poolid, refs>> /\ file' = file
      /\ dump' = AfterHead
  BY DEF DumpHead
<1>2. /\ Follows /\ FileOK(file) /\ Progress(file, dump.at, dump.i, Len(srd.ds))
      /\ file.sums = <<>> /\ file.cnt = 0 /\ file.dets = <<>> /\ srd.ds \in Seq(Sources)
  BY <1>1, Dumped DEF Progress
<1>3. CASE srd.ds = <<>>
  <2>1. dump' = [at |-> "idle", i |-> 0] BY <1>1, <1>3 DEF AfterHead, Idle
  <2>2. Progress(file', "idle", 0, Len(srd.ds)) BY DEF Progress
  <2>3. QED BY <1>1, <1>2, <2>1, <2>2, Stored DEF Follows
<1>4. CASE srd.ds # <<>>
  <2>1. dump' = [at |-> "summary", i |-> 1] BY <1>1, <1>4 DEF AfterHead
  <2>2. 1 \in 1 .. Len(srd.ds) BY <1>2, <1>4
  <2>3. Progress(file', "summary", 1, Len(srd.ds)) BY <1>1, <1>2, <2>2 DEF Progress
  <2>4. QED BY <1>1, <1>2, <2>1, <2>3, Stored DEF Follows
<1>5. QED BY <1>3, <1>4

LEMMA SummaryStep == ASSUME MsmInv, DumpSummary PROVE MsmInv'
<1> DEFINE i == dump.i
           n == Len(srd.ds)
           e == [name |-> srd.ds[i], off |-> NotWritten, len |-> 0]
<1>1. /\ dump.at = "summary" /\ dump.at # "idle" /\ UNCHANGED <<srd, pools, poolid, refs>>
      /\ dump = [at |-> dump.at, i |-> i]
      /\ file' = [file EXCEPT !.sums = Append(file.sums, e)] /\ dump' = [dump EXCEPT !.at = "count"]
  BY DEF DumpSummary, MsmInv, DumpOK
<1>2. /\ Follows /\ FileOK(file) /\ Progress(file, dump.at, i, n) /\ NoRepeats(srd.ds)
      /\ DOMAIN srd.ds = 1 .. n
      /\ n \in Nat /\ \A k \in 1 .. n : srd.ds[k] \in Registered /\ srd.ds[k] \in Sources
      /\ Meant(file) = n
  BY <1>1, Dumped
<1>3. i \in 1 .. n /\ Len(file.sums) = i - 1 /\ file.cnt = i - 1 /\ file.dets = <<>>
  BY <1>1, <1>2 DEF Progress
<1>4. dump' = [at |-> "count", i |-> i] BY <1>1
<1>5. /\ FileShape(file) /\ file.sums \in Seq(Entry) /\ FileTyped(file)
      /\ DOMAIN file.meant = Registered
      /\ \A k \in 1 .. Len(file.sums) : file.sums[k].name = srd.ds[k]
  BY <1>2 DEF FileOK, FileTyped, Follows
<1>6. e \in Entry /\ e.name = srd.ds[i] /\ e.off = NotWritten /\ e.len = 0
  BY <1>2, <1>3 DEF Entry, NotWritten
<1>7. Registered = {srd.ds[k] : k \in 1 .. n} BY <1>2 DEF Registered
<1> DEFINE t == Append(file.sums, e)
<1>01. file' = [file EXCEPT !.sums = t] BY <1>1
<1> HIDE DEF t
<1>8. /\ FileShape(file') /\ file'.cnt = file.cnt /\ file'.sums = t /\ file'.dets = file.dets
      /\ file'.meant = file.meant
  BY <1>01, <1>5 DEF FileShape
<1> HIDE DEF i, n, e
<1>9. /\ t \in Seq(Entry) /\ Len(t) = i /\ t[i] = e
      /\ \A k \in 1 .. i - 1 : t[k] = file.sums[k]
  BY <1>3, <1>5, <1>6, AppendAt DEF t
<1>10. \A k \in 1 .. i : k \in 1 .. n /\ (k = i \/ k \in 1 .. i - 1) BY <1>2, <1>3
<1>11. \A k \in 1 .. i : t[k].name = srd.ds[k] BY <1>3, <1>5, <1>6, <1>9, <1>10
<1>12. FileOK(file')
  <2>1. FileTyped(file') BY <1>5, <1>8, <1>9 DEF FileTyped
  <2>2. Meant(file') = n BY <1>2, <1>8 DEF Meant
  <2>3. FileCounts(file') BY <1>2, <1>3, <1>8, <1>9, <2>2 DEF FileCounts
  <2>4. FileNames(file')
    <3>1. ASSUME NEW j \in 1 .. i, NEW k \in 1 .. i, t[j].name = t[k].name PROVE j = k
      BY <3>1, <1>2, <1>10, <1>11 DEF NoRepeats
    <3>2. \A k \in 1 .. i : t[k].name \in Registered BY <1>2, <1>10, <1>11
    <3>3. i = n => \A s \in Registered : \E k \in 1 .. i : t[k].name = s BY <1>7, <1>11
    <3>4. QED BY <1>5, <1>8, <1>9, <2>2, <3>1, <3>2, <3>3 DEF FileNames
  <2>5. FileDetails(file') BY <1>3, <1>8 DEF FileDetails
  <2>6. FileOffsets(file')
    <3>1. \A k \in 1 .. i : t[k].off = NotWritten /\ t[k].len = 0
      BY <1>2, <1>3, <1>6, <1>9, <1>10 DEF FileOK, FileOffsets
    <3>2. QED BY <1>3, <1>8, <1>9, <3>1 DEF FileOffsets
  <2>7. QED BY <2>1, <2>3, <2>4, <2>5, <2>6 DEF FileOK
<1>13. Progress(file', "count", i, n) BY <1>3, <1>8, <1>9 DEF Progress
<1>14. \A k \in 1 .. Len(file'.sums) : file'.sums[k].name = srd.ds[k] BY <1>8, <1>9, <1>11
<1>15. \A k \in 1 .. Len(file'.dets) : file'.dets[k].id = poolid[srd.ds[k]] BY <1>3, <1>8
<1>16. QED BY <1>1, <1>4, <1>8, <1>12, <1>13, <1>14, <1>15, Stored DEF n

LEMMA CountStep == ASSUME MsmInv, DumpCount PROVE MsmInv'
<1> DEFINE i == dump.i
           n == Len(srd.ds)
<1>1. /\ dump.at = "count" /\ dump.at # "idle" /\ UNCHANGED <<srd, pools, poolid, refs>>
      /\ file' = [file EXCEPT !.cnt = file.cnt + 1] /\ dump' = Next("summary", i, "detail")
  BY DEF DumpCount
<1>2. Follows /\ FileOK(file) /\ Progress(file, dump.at, i, n) /\ n \in Nat /\ Meant(file) = n
  BY <1>1, Dumped
<1>3. i \in 1 .. n /\ Len(file.sums) = i /\ file.cnt = i - 1 /\ file.dets = <<>>
  BY <1>1, <1>2 DEF Progress
<1>4. FileShape(file) /\ FileTyped(file) /\ FileCounts(file) BY <1>2 DEF FileOK, FileTyped
<1>5. /\ FileShape(file') /\ file'.cnt = i /\ file'.sums = file.sums
      /\ file'.dets = file.dets /\ file'.meant = file.meant
  <2>1. file.cnt + 1 = i BY <1>3
  <2>2. QED BY <1>1, <1>4, <2>1 DEF FileShape
<1>6. FileOK(file')
  <2>1. FileTyped(file') /\ Meant(file') = n BY <1>2, <1>3, <1>4, <1>5 DEF FileTyped, Meant
  <2>2. FileCounts(file') BY <1>2, <1>3, <1>5, <2>1 DEF FileCounts
  <2>3. FileNames(file') BY <1>2, <1>5, <2>1 DEF FileOK, FileNames
  <2>4. FileDetails(file') BY <1>3, <1>5 DEF FileDetails
  <2>5. FileOffsets(file') BY <1>2, <1>3, <1>5 DEF FileOK, FileOffsets
  <2>6. QED BY <2>1, <2>2, <2>3, <2>4, <2>5 DEF FileOK
<1>7. /\ \A k \in 1 .. Len(file'.sums) : file'.sums[k].name = srd.ds[k]
      /\ \A k \in 1 .. Len(file'.dets) : file'.dets[k].id = poolid[srd.ds[k]]
  BY <1>2, <1>5 DEF Follows
<1>8. CASE i < n
  <2>1. dump' = [at |-> "summary", i |-> i + 1] BY <1>1, <1>8 DEF Next
  <2>2. Progress(file', "summary", i + 1, n) BY <1>3, <1>5, <1>8 DEF Progress
  <2>3. QED BY <1>1, <1>5, <1>6, <1>7, <2>1, <2>2, Stored
<1>9. CASE ~(i < n)
  <2>1. dump' = [at |-> "detail", i |-> 1] BY <1>1, <1>9 DEF Next
  <2>2. i = n BY <1>2, <1>3, <1>9
  <2>3. Progress(file', "detail", 1, n) BY <1>3, <1>5, <2>2 DEF Progress
  <2>4. QED BY <1>1, <1>5, <1>6, <1>7, <2>1, <2>3, Stored
<1>10. QED BY <1>8, <1>9

LEMMA DetailStep == ASSUME MsmInv, DumpDetail PROVE MsmInv'
<1> DEFINE i == dump.i
           n == Len(srd.ds)
           s == srd.ds[i]
           d == [holds |-> pools[s], id |-> poolid[s]]
           t == [file.sums EXCEPT ![i] = [file.sums[i] EXCEPT !.len = pools[s]]]
           u == Append(file.dets, d)
<1>1. /\ dump.at = "detail" /\ dump.at # "idle" /\ UNCHANGED <<srd, pools, poolid, refs>>
      /\ dump = [at |-> dump.at, i |-> i] /\ dump' = [dump EXCEPT !.at = "offset"]
  BY DEF DumpDetail, MsmInv, DumpOK
<1>2. /\ Follows /\ FileOK(file) /\ Progress(file, dump.at, i, n) /\ NoRepeats(srd.ds)
      /\ DOMAIN srd.ds = 1 .. n
      /\ n \in Nat /\ \A k \in 1 .. n : srd.ds[k] \in Registered /\ srd.ds[k] \in Sources
      /\ Meant(file) = n /\ pools \in [Sources -> Nat]
  BY <1>1, Dumped
<1>3. i \in 1 .. n /\ Len(file.sums) = n /\ file.cnt = n /\ Len(file.dets) = i - 1
  BY <1>1, <1>2 DEF Progress
<1>4. dump' = [at |-> "offset", i |-> i] BY <1>1
<1>5. /\ FileShape(file) /\ file.sums \in Seq(Entry) /\ file.dets \in Seq(Detail)
      /\ FileTyped(file) /\ FileNames(file) /\ FileCounts(file) /\ FileDetails(file) /\ FileOffsets(file)
      /\ DOMAIN file.meant = Registered
      /\ \A r \in Registered : file.meant[r] = pools[r]
      /\ \A k \in 1 .. n : file.sums[k].name = srd.ds[k]
      /\ \A k \in 1 .. i - 1 : file.dets[k].id = poolid[srd.ds[k]]
  BY <1>2, <1>3 DEF FileOK, FileTyped, Follows
<1>6. s \in Registered /\ s \in Sources /\ pools[s] \in Nat BY <1>2, <1>3
<1>7. /\ FileShape(file') /\ file'.cnt = file.cnt /\ file'.sums = t /\ file'.dets = u
      /\ file'.meant = file.meant
  <2>1. file' = [file EXCEPT !.dets = u, !.sums[i].len = pools[s]]
    BY DEF DumpDetail, Length
  <2> DEFINE g == [file EXCEPT !.dets = u]
  <2>02. file' = [g EXCEPT !.sums = [g.sums EXCEPT ![i] = [g.sums[i] EXCEPT !.len = pools[s]]]]
    BY <2>1
  <2> HIDE DEF u
  <2>2. /\ FileShape(g) /\ g.cnt = file.cnt /\ g.sums = file.sums /\ g.dets = u
        /\ g.meant = file.meant
    BY <1>5 DEF FileShape
  <2> HIDE DEF g
  <2>4. file' = [g EXCEPT !.sums = t] BY <2>2, <2>02
  <2> HIDE DEF t
  <2>5. QED BY <2>2, <2>4 DEF FileShape
<1>8. /\ poolid[s] \in Nat /\ (poolid[s] = NoId <=> s \in WithoutId)
      /\ \A r \in Registered : poolid[r] = poolid[s] /\ poolid[r] # NoId => r = s
  BY <1>1, <1>6, Dumped, IdOfRegistered DEF MsmInv
<1>9. d \in Detail /\ d.holds = pools[s] /\ d.id = poolid[s] BY <1>6, <1>8 DEF Detail
<1> HIDE DEF d
<1>10. /\ t \in Seq(Entry) /\ Len(t) = n
       /\ t[i].name = file.sums[i].name /\ t[i].off = file.sums[i].off /\ t[i].len = pools[s]
       /\ \A k \in 1 .. n : k # i => t[k] = file.sums[k]
  BY <1>3, <1>5, <1>6, LengthSet
<1>11. /\ u \in Seq(Detail) /\ Len(u) = i /\ u[i] = d
       /\ \A k \in 1 .. i - 1 : u[k] = file.dets[k]
  BY <1>3, <1>5, <1>9, AppendAt
<1>12. s = file.sums[i].name BY <1>3, <1>5
<1>13. \A k \in 1 .. n : srd.ds[k] = s => k = i BY <1>2, <1>3 DEF NoRepeats
<1> HIDE DEF i, n, s, t, u
<1>14. \A k \in 1 .. i : k \in 1 .. n /\ (k = i \/ (k \in 1 .. i - 1 /\ k # i)) BY <1>2, <1>3
<1>15. \A k \in 1 .. n : t[k].name = file.sums[k].name /\ t[k].off = file.sums[k].off
  BY <1>10
<1>16. FileOK(file')
  <2>1. FileTyped(file') BY <1>5, <1>7, <1>10, <1>11 DEF FileTyped
  <2>2. Meant(file') = n BY <1>2, <1>7 DEF Meant
  <2>3. FileCounts(file') BY <1>2, <1>3, <1>7, <1>10, <1>11, <2>2 DEF FileCounts
  <2>4. FileNames(file') BY <1>3, <1>5, <1>7, <1>10, <1>15, SameNames
  <2>5. FileDetails(file')
    <3>1. ASSUME NEW k \in 1 .. i
          PROVE  /\ u[k].holds = file.meant[t[k].name] /\ t[k].len = file.meant[t[k].name]
                 /\ u[k].id = NoId <=> t[k].name \in WithoutId
      <4>1. CASE k = i BY <4>1, <1>5, <1>6, <1>8, <1>9, <1>10, <1>11, <1>12
      <4>2. CASE k # i
        <5>1. k \in 1 .. i - 1 /\ k \in 1 .. n BY <4>2, <1>14
        <5>2. u[k] = file.dets[k] /\ t[k] = file.sums[k] BY <4>2, <5>1, <1>10, <1>11
        <5>3. k \in 1 .. Len(file.dets) BY <5>1, <1>3
        <5>4. QED BY <5>2, <5>3, <1>5 DEF FileDetails
      <4>3. QED BY <4>1, <4>2
    <3>2. ASSUME NEW k \in 1 .. i - 1, u[k].id = d.id, d.id # NoId PROVE FALSE
      <4>1. k \in 1 .. n /\ k # i BY <1>2, <1>3
      <4>2. poolid[srd.ds[k]] = poolid[s] /\ poolid[s] # NoId BY <3>2, <1>5, <1>9, <1>11
      <4>3. srd.ds[k] = s BY <4>1, <4>2, <1>2, <1>8 DEF n
      <4>4. QED BY <4>1, <4>3, <1>13
    <3>3. ASSUME NEW j \in 1 .. i - 1, NEW k \in 1 .. i - 1, u[j].id = u[k].id, u[j].id # NoId
          PROVE  j = k
      BY <3>3, <1>3, <1>5, <1>11 DEF FileDetails
    <3>4. ASSUME NEW j \in 1 .. i, NEW k \in 1 .. i, u[j].id = u[k].id, u[j].id # NoId
          PROVE  j = k
      BY <3>2, <3>3, <3>4, <1>11, <1>14
    <3>5. QED BY <1>7, <1>11, <3>1, <3>4 DEF FileDetails
  <2>6. FileOffsets(file')
    <3>1. ASSUME NEW k \in 1 .. i
          PROVE  t[k].off \in {NotWritten, DetailAt(file', n, k)}
      <4>1. CASE k = i
        <5>1. k \in 1 .. Len(file.sums) /\ k > Len(file.dets) BY <4>1, <1>2, <1>3
        <5>2. file.sums[k].off = NotWritten BY <5>1, <1>5 DEF FileOffsets
        <5>3. QED BY <5>2, <1>14, <1>15
      <4>2. CASE k # i
        <5>1. k \in 1 .. i - 1 /\ k \in 1 .. n /\ k \in Nat BY <4>2, <1>14
        <5>2. \A j \in 1 .. k - 1 : j \in 1 .. n /\ j # i BY <5>1, <1>3, <1>2
        <5>3. \A j \in 1 .. k - 1 : file'.sums[j].len = file.sums[j].len BY <5>2, <1>7, <1>10
        <5>4. DetailAt(file', n, k) = DetailAt(file, n, k) BY <5>1, <5>3, SameLengthsInFront
        <5>5. k \in 1 .. Len(file.dets) BY <5>1, <1>3
        <5>6. file.sums[k].off \in {NotWritten, DetailAt(file, n, k)} BY <5>5, <1>2, <1>5 DEF FileOffsets
        <5>7. QED BY <5>1, <5>4, <5>6, <1>15
      <4>3. QED BY <4>1, <4>2
    <3>2. ASSUME NEW k \in 1 .. n, k > i PROVE t[k].off = NotWritten /\ t[k].len = 0
      <4>1. k \in 1 .. Len(file.sums) /\ k > Len(file.dets) /\ k # i BY <3>2, <1>2, <1>3
      <4>2. QED BY <4>1, <1>5, <1>10 DEF FileOffsets
    <3>3. QED BY <1>7, <1>10, <1>11, <2>2, <3>1, <3>2 DEF FileOffsets
  <2>7. QED BY <2>1, <2>3, <2>4, <2>5, <2>6 DEF FileOK
<1>17. Progress(file', "offset", i, n) BY <1>3, <1>7, <1>10, <1>11 DEF Progress
<1>18. \A k \in 1 .. Len(file'.sums) : file'.sums[k].name = srd.ds[k] BY <1>5, <1>7, <1>10, <1>15
<1>19. \A k \in 1 .. Len(file'.dets) : file'.dets[k].id = poolid[srd.ds[k]]
  <2>1. u[i].id = poolid[srd.ds[i]] BY <1>9, <1>11 DEF s
  <2>2. QED BY <2>1, <1>5, <1>7, <1>11, <1>14
<1>20. QED BY <1>1, <1>4, <1>7, <1>16, <1>17, <1>18, <1>19, Stored DEF n

LEMMA OffsetStep == ASSUME MsmInv, DumpOffset PROVE MsmInv'
<1> DEFINE i == dump.i
           n == Len(srd.ds)
           x == DetailAt(file, n, i)
           t == [file.sums EXCEPT ![i] = [file.sums[i] EXCEPT !.off = x]]
<1>1. /\ dump.at = "offset" /\ dump.at # "idle" /\ UNCHANGED <<srd, pools, poolid, refs>>
      /\ dump' = Next("detail", i, "idle")
  BY DEF DumpOffset
<1>2. Follows /\ FileOK(file) /\ Progress(file, dump.at, i, n) /\ n \in Nat /\ Meant(file) = n
  BY <1>1, Dumped
<1>3. i \in 1 .. n /\ Len(file.sums) = n /\ file.cnt = n /\ Len(file.dets) = i
  BY <1>1, <1>2 DEF Progress
<1>4. FileShape(file) /\ FileTyped(file) /\ file.sums \in Seq(Entry) BY <1>2 DEF FileOK, FileTyped
<1>5. /\ FileShape(file') /\ file'.cnt = file.cnt /\ file'.sums = t
      /\ file'.dets = file.dets /\ file'.meant = file.meant
  <2>1. file' = [file EXCEPT !.sums[i].off = x] BY DEF DumpOffset, Offset
  <2>2. file' = [file EXCEPT !.sums = t] BY <2>1
  <2> HIDE DEF t
  <2>3. QED BY <1>4, <2>2 DEF FileShape
<1>6. x \in Nat BY <1>2, <1>3, DetailsBehindHeader
<1>7. /\ t \in Seq(Entry) /\ Len(t) = n
      /\ t[i].name = file.sums[i].name /\ t[i].off = x /\ t[i].len = file.sums[i].len
      /\ \A k \in 1 .. n : k # i => t[k] = file.sums[k]
  BY <1>3, <1>4, <1>6, OffsetSet
<1> HIDE DEF i, n, x, t
<1>8. \A k \in 1 .. n : t[k].name = file.sums[k].name /\ t[k].len = file.sums[k].len BY <1>7
<1>9. FileOK(file')
  <2>1. FileTyped(file') BY <1>4, <1>5, <1>7 DEF FileTyped
  <2>2. Meant(file') = n BY <1>2, <1>5 DEF Meant
  <2>3. FileCounts(file') BY <1>2, <1>3, <1>5, <1>7, <2>2 DEF FileOK, FileCounts
  <2>4. FileNames(file') BY <1>2, <1>3, <1>5, <1>7, <1>8, SameNames DEF FileOK
  <2>5. \A k \in 1 .. Len(file.dets) : k \in 1 .. n BY <1>2, <1>3
  <2>6. FileDetails(file') BY <1>2, <1>5, <1>8, <2>5 DEF FileOK, FileDetails
  <2>7. FileOffsets(file')
    <3>1. ASSUME NEW k \in 1 .. n PROVE DetailAt(file', n, k) = DetailAt(file, n, k)
      <4>1. k \in Nat /\ \A j \in 1 .. k - 1 : j \in 1 .. n BY <1>2
      <4>2. QED BY <4>1, <1>5, <1>8, SameLengthsInFront
    <3>2. ASSUME NEW k \in 1 .. i PROVE t[k].off \in {NotWritten, DetailAt(file', n, k)}
      <4>1. k \in 1 .. n BY <1>2, <1>3
      <4>2. CASE k = i BY <4>1, <4>2, <3>1, <1>7 DEF x
      <4>3. CASE k # i
        <5>1. file.sums[k].off \in {NotWritten, DetailAt(file, n, k)}
          BY <1>2, <1>3 DEF FileOK, FileOffsets
        <5>2. QED BY <4>1, <4>3, <5>1, <3>1, <1>7
      <4>4. QED BY <4>2, <4>3
    <3>3. ASSUME NEW k \in 1 .. n, k > i PROVE t[k].off = NotWritten /\ t[k].len = 0
      <4>1. k \in 1 .. Len(file.sums) /\ k > Len(file.dets) /\ k # i BY <3>3, <1>2, <1>3
      <4>2. QED BY <4>1, <1>2, <1>7 DEF FileOK, FileOffsets
    <3>4. QED BY <1>3, <1>5, <1>7, <2>2, <3>2, <3>3 DEF FileOffsets
  <2>8. QED BY <2>1, <2>3, <2>4, <2>6, <2>7 DEF FileOK
<1>10. /\ \A k \in 1 .. Len(file'.sums) : file'.sums[k].name = srd.ds[k]
       /\ \A k \in 1 .. Len(file'.dets) : file'.dets[k].id = poolid[srd.ds[k]]
  BY <1>2, <1>3, <1>5, <1>7, <1>8 DEF Follows
<1>11. CASE i < n
  <2>1. dump' = [at |-> "detail", i |-> i + 1] BY <1>1, <1>11 DEF Next, n
  <2>2. Progress(file', "detail", i + 1, n) BY <1>3, <1>5, <1>7, <1>11 DEF Progress
  <2>3. QED BY <1>1, <1>5, <1>9, <1>10, <2>1, <2>2, Stored DEF n
<1>12. CASE ~(i < n)
  <2>1. dump' = [at |-> "idle", i |-> 0] BY <1>1, <1>12 DEF Next, Idle, n
  <2>2. Progress(file', "idle", 0, n) BY DEF Progress
  <2>3. QED BY <1>1, <1>5, <1>9, <1>10, <2>1, <2>2, Stored DEF n
<1>13. QED BY <1>11, <1>12

-----------------------------------------------------------------------------
(* The other steps *)

\* No dump is under way, and none comes under way.
LEMMA StillIdle ==
    ASSUME DumpOK, dump.at = "idle", UNCHANGED dump
    PROVE  DumpOK'
  BY DEF DumpOK

\* What has a length has a detail.
LEMMA SavedHaveDetails ==
    ASSUME FileOK(file), NEW k \in Saved(file)
    PROVE  /\ k \in 1 .. Len(file.dets) /\ k \in 1 .. Len(file.sums)
           /\ file.sums[k].len # 0 /\ file.cnt = Meant(file)
           /\ file.dets[k] \in Detail /\ file.sums[k] \in Entry
<1>1. /\ file.sums \in Seq(Entry) /\ file.dets \in Seq(Detail) /\ file.cnt \in Nat
      /\ Len(file.dets) \in Nat /\ Len(file.sums) \in Nat
  BY DEF FileOK, FileTyped
<1>2. k \in 1 .. file.cnt /\ file.sums[k].len # 0 BY DEF Saved, Entries
<1>3. k \in 1 .. Len(file.sums) BY <1>1, <1>2 DEF FileOK, FileCounts
<1>4. ~(k > Len(file.dets)) BY <1>2, <1>3 DEF FileOK, FileOffsets
<1>5. k \in 1 .. Len(file.dets) BY <1>1, <1>3, <1>4
<1>6. file.cnt = Meant(file) BY <1>1, <1>5 DEF FileOK, FileCounts
<1>7. QED BY <1>1, <1>2, <1>3, <1>5, <1>6

LEMMA GetPutStep == ASSUME MsmInv, msm_get \/ msm_put PROVE MsmInv'
<1>1. FileOK(file') BY DEF MsmInv, msm_get, msm_put
<1>2. DumpOK' BY StillIdle DEF MsmInv, msm_get, msm_put, Idling, Idle
<1>3. RootOK /\ refs \in Nat BY DEF MsmInv, RootOK
<1>4. CASE msm_get
  <2> DEFINE r == msm_get_no_ref
  <2>1. RootWell(r, refs, poolid) BY <1>3, NewRoot DEF RootOK, msm_get_no_ref
  <2>2. srd' = [r EXCEPT !.refcnt = r.refcnt + 1] BY <1>4 DEF msm_get
  <2> HIDE DEF r
  <2>3. r.refcnt = refs BY <2>1 DEF RootWell
  <2>4. RootWell(srd', refs + 1, poolid) BY <2>1, <2>2, <2>3, Counted
  <2>5. refs' = refs + 1 /\ pools' = pools /\ poolid' = poolid BY <1>4 DEF msm_get
  <2>6. srd' # NoSrd BY <2>4, RootIsNoNull DEF RootWell
  <2>7. RootOK' BY <1>3, <2>4, <2>5, <2>6 DEF RootOK
  <2>8. QED BY <1>1, <1>2, <2>7 DEF MsmInv
<1>5. CASE msm_put
  <2>1. srd # NoSrd /\ srd' = Put(srd) /\ RootWell(srd, refs, poolid) /\ srd.refcnt = refs
    BY <1>3, <1>5 DEF RootOK, RootWell, msm_put
  <2>2. CASE refs > 0 /\ refs' = refs - 1 /\ UNCHANGED <<pools, poolid>>
    <3>1. srd' = [srd EXCEPT !.refcnt = srd.refcnt - 1] BY <1>3, <2>1, <2>2 DEF Put
    <3>2. RootWell(srd', refs', poolid') BY <2>1, <2>2, <3>1, Counted
    <3>3. srd' # NoSrd BY <3>2, RootIsNoNull DEF RootWell
    <3>4. RootOK' BY <1>3, <2>2, <3>2, <3>3 DEF RootOK
    <3>5. QED BY <1>1, <1>2, <3>4 DEF MsmInv
  <2>3. CASE /\ refs = 0 /\ UNCHANGED refs
             /\ pools' = [s \in Sources |-> 0] /\ poolid' = [s \in Sources |-> NoId]
    <3>1. srd' = NoSrd BY <2>1, <2>3 DEF Put
    <3>2. RootOK' BY <2>3, <3>1 DEF RootOK, NoIds
    <3>3. QED BY <1>1, <1>2, <3>2 DEF MsmInv
  <2>4. QED BY <1>5, <2>2, <2>3 DEF msm_put
<1>6. QED BY <1>4, <1>5

LEMMA SourceStep ==
    ASSUME MsmInv, NEW s \in Sources, msm_register_ds(s) \/ msm_change_ds_pt(s) \/ Work(s)
    PROVE  MsmInv'
<1>1. FileOK(file') BY DEF MsmInv, msm_register_ds, msm_change_ds_pt, Work
<1>2. DumpOK' BY StillIdle DEF MsmInv, msm_register_ds, msm_change_ds_pt, Work, Idling, Idle
<1>3. RootOK /\ refs \in Nat /\ pools \in [Sources -> Nat] BY DEF MsmInv, RootOK
<1>4. /\ srd # NoSrd /\ RootWell(srd, refs, poolid) /\ refs' = refs
  BY <1>3 DEF RootOK, msm_register_ds, msm_change_ds_pt, Work
<1>5. pools' \in [Sources -> Nat]
  <2>1. CASE Work(s)
    <3>1. PICK len \in 1 .. MaxLen : pools' = [pools EXCEPT ![s] = len] BY <2>1 DEF Work
    <3>2. len \in Nat BY MsmAssumption
    <3>3. QED BY <1>3, <3>1, <3>2
  <2>2. CASE msm_register_ds(s) \/ msm_change_ds_pt(s)
    BY <1>3, <2>2 DEF msm_register_ds, msm_change_ds_pt
  <2>3. QED BY <2>1, <2>2
<1>6. RootWell(srd', refs, poolid')
  <2>1. CASE msm_register_ds(s)
    <3>1. s \notin Of(srd.ds) BY <2>1, RegisteredAre DEF msm_register_ds
    <3>2. srd' = [srd EXCEPT !.ds = Append(srd.ds, s), !.poolidr = WithId(srd.poolidr, s)]
      BY <2>1 DEF msm_register_ds
    <3>3. poolid' = [poolid EXCEPT ![s] = NewId(srd.poolidr, s)] BY <2>1 DEF msm_register_ds
    <3>4. QED BY <1>4, <3>1, <3>2, <3>3, RegisterKeepsRoot
  <2>2. CASE msm_change_ds_pt(s)
    <3>1. s \in Of(srd.ds) BY <2>2, RegisteredAre DEF msm_change_ds_pt
    <3>2. srd' = [srd EXCEPT !.poolidr = WithId(Removed(srd.poolidr, poolid[s]), s)]
      BY <2>2 DEF msm_change_ds_pt
    <3>3. poolid' = [poolid EXCEPT ![s] = NewId(Removed(srd.poolidr, poolid[s]), s)]
      BY <2>2 DEF msm_change_ds_pt
    <3>4. QED BY <1>4, <3>1, <3>2, <3>3, ChangeKeepsRoot
  <2>3. CASE Work(s) BY <1>4, <2>3 DEF Work
  <2>4. QED BY <2>1, <2>2, <2>3
<1>7. srd' # NoSrd BY <1>6, RootIsNoNull DEF RootWell
<1>8. RootOK' BY <1>3, <1>4, <1>5, <1>6, <1>7 DEF RootOK
<1>9. QED BY <1>1, <1>2, <1>8 DEF MsmInv

\* A load takes what the details hold.
LEMMA LoadedTyped ==
    ASSUME FileOK(file), pools \in [Sources -> Nat], NEW s \in Sources
    PROVE  LoadedPool(file, s) \in Nat
<1> DEFINE from == {k \in Saved(file) : file.sums[k].name = s}
           c == CHOOSE k \in from : TRUE
<1>1. CASE from = {} BY <1>1 DEF LoadedPool
<1>2. CASE from # {}
  <2>1. c \in from BY <1>2
  <2>2. c \in Saved(file) BY <2>1
  <2>3. LoadedPool(file, s) = file.dets[c].holds BY <1>2 DEF LoadedPool
  <2> HIDE DEF c, from
  <2>4. QED BY <2>2, <2>3, SavedHaveDetails DEF Detail
<1>3. QED BY <1>1, <1>2

LEMMA LoadStep == ASSUME MsmInv, msm_load PROVE MsmInv'
<1>1. FileOK(file') /\ FileOK(file) BY DEF MsmInv, msm_load
<1>2. DumpOK' BY StillIdle DEF MsmInv, msm_load, Idling, Idle
<1>3. RootOK /\ refs \in Nat /\ pools \in [Sources -> Nat] BY DEF MsmInv, RootOK
<1>4. srd # NoSrd /\ RootWell(srd, refs, poolid) /\ refs' = refs /\ poolid' = poolid
  BY <1>3 DEF RootOK, msm_load
<1>5. CASE UNCHANGED <<srd, pools>>
  BY <1>1, <1>2, <1>3, <1>4, <1>5 DEF MsmInv, RootOK
<1>6. CASE ~UNCHANGED <<srd, pools>>
  <2>1. pools' = [s \in Sources |-> LoadedPool(file, s)] BY <1>6 DEF msm_load
  <2>2. pools' \in [Sources -> Nat] BY <1>1, <1>3, <2>1, LoadedTyped
  <2>3. PICK map : srd' = [srd EXCEPT !.rdonly = TRUE, !.ididr = map] BY <1>6 DEF msm_load
  <2>4. RootWell(srd', refs, poolid') BY <1>4, <2>3, LoadKeepsRoot
  <2>5. srd' # NoSrd BY <2>4, RootIsNoNull DEF RootWell
  <2>6. RootOK' BY <1>3, <1>4, <2>2, <2>4, <2>5 DEF RootOK
  <2>7. QED BY <1>1, <1>2, <2>6 DEF MsmInv
<1>7. QED BY <1>5, <1>6

LEMMA OpenStep == ASSUME MsmInv, msm_dump PROVE MsmInv'
<1> DEFINE m == [s \in Registered |-> pools[s]]
<1>1. /\ srd # NoSrd /\ UNCHANGED <<srd, pools, poolid, refs>> /\ file' = Truncated(m)
      /\ dump.at = "idle"
      /\ dump' = [at |-> "extend", i |-> 0] \/ UNCHANGED dump
  BY DEF msm_dump, DumpOpen, Idling, Idle
<1>2. RootOK /\ DumpOK BY DEF MsmInv
<1>3. DOMAIN m = Registered /\ \A s \in Registered : m[s] = pools[s] OBVIOUS
<1> HIDE DEF m
<1>4. FileOK(file') BY <1>1, <1>2, <1>3, TruncatedOK
<1>5. RootOK' BY <1>1, <1>2 DEF RootOK
<1>6. DumpOK'
  <2>1. CASE UNCHANGED dump BY <2>1, <1>1, <1>2, StillIdle
  <2>2. CASE dump' = [at |-> "extend", i |-> 0]
    <3>1. /\ file'.sums = <<>> /\ file'.dets = <<>> /\ file'.cnt = 0 /\ file'.meant = m
      BY <1>1 DEF Truncated
    <3>2. Registered' = Registered BY <1>1 DEF Registered
    <3>3. Follows' BY <1>1, <1>3, <3>1, <3>2 DEF Follows
    <3>4. Progress(file', "extend", 0, Len(srd'.ds)) BY <3>1 DEF Progress
    <3>5. dump'.at = "extend" /\ dump'.i = 0 BY <2>2
    <3>6. QED BY <2>2, <3>3, <3>4, <3>5 DEF DumpOK
  <2>3. QED BY <1>1, <2>1, <2>2
<1>7. QED BY <1>4, <1>5, <1>6 DEF MsmInv

LEMMA KillStep == ASSUME MsmInv, Kill PROVE MsmInv'
<1>1. FileOK(file') BY DEF MsmInv, Kill
<1>2. RootOK' BY DEF Kill, RootOK, NoIds
<1>3. dump' = [at |-> "idle", i |-> 0] BY DEF Kill, Idle
<1>4. DumpOK' BY <1>3 DEF DumpOK
<1>5. QED BY <1>1, <1>2, <1>4 DEF MsmInv

LEMMA InitInv == MsmInit => MsmInv
<1> SUFFICES ASSUME MsmInit PROVE MsmInv
  OBVIOUS
<1>1. RootOK BY DEF MsmInit, RootOK, NoIds
<1>2. /\ FileShape(file) /\ file.sums = <<>> /\ file.dets = <<>> /\ file.cnt = 0
      /\ file.meant = EmptyMap
  BY DEF MsmInit, NoFile, FileShape
<1>3. DOMAIN file.meant = {} BY <1>2 DEF EmptyMap
<1>4. Meant(file) = 0 BY <1>3, FS_EmptySet DEF Meant
<1>5. FileTyped(file) BY <1>2, <1>3 DEF FileTyped
<1>6. FileCounts(file) BY <1>2, <1>4 DEF FileCounts
<1>7. FileNames(file) BY <1>2, <1>3 DEF FileNames
<1>8. FileDetails(file) /\ FileOffsets(file) BY <1>2 DEF FileDetails, FileOffsets
<1>9. dump = [at |-> "idle", i |-> 0] BY DEF MsmInit, Idle
<1>10. DumpOK BY <1>9 DEF DumpOK
<1>11. QED BY <1>1, <1>5, <1>6, <1>7, <1>8, <1>10 DEF MsmInv, FileOK

LEMMA StepInv == MsmInv /\ [MsmNext]_vars => MsmInv'
<1> SUFFICES ASSUME MsmInv, [MsmNext]_vars PROVE MsmInv'
  OBVIOUS
<1>1. CASE msm_get \/ msm_put BY <1>1, GetPutStep
<1>2. CASE msm_load BY <1>2, LoadStep
<1>3. CASE Kill BY <1>3, KillStep
<1>4. CASE \E s \in Sources : msm_register_ds(s) \/ msm_change_ds_pt(s) \/ Work(s)
  BY <1>4, SourceStep
<1>5. CASE msm_dump BY <1>5, OpenStep
<1>6. CASE DumpExtend BY <1>6, ExtendStep
<1>7. CASE DumpHead BY <1>7, HeadStep
<1>8. CASE DumpSummary BY <1>8, SummaryStep
<1>9. CASE DumpCount BY <1>9, CountStep
<1>10. CASE DumpDetail BY <1>10, DetailStep
<1>11. CASE DumpOffset BY <1>11, OffsetStep
<1>12. CASE UNCHANGED vars
  <2>1. RootOK' /\ FileOK(file') BY <1>12 DEF vars, MsmInv, RootOK
  <2>2. Registered' = Registered /\ poolid' = poolid BY <1>12 DEF vars, Registered
  <2>3. Follows => Follows' BY <1>12, <2>2 DEF vars, Follows
  <2>4. DumpOK' BY <1>12, <2>3 DEF vars, MsmInv, DumpOK
  <2>5. QED BY <2>1, <2>4 DEF MsmInv
<1>13. QED BY <1>1, <1>2, <1>3, <1>4, <1>5, <1>6, <1>7, <1>8, <1>9, <1>10, <1>11, <1>12 DEF MsmNext

-----------------------------------------------------------------------------
(* What a load makes of the file *)

\* What a load that returns 0 has found: every entry in its place, no id twice.
LEMMA LoadFinds ==
    ASSUME msm_load, result' = "loaded"
    PROVE  /\ \A k \in Entries(file) : Found(file, k) /\ Placed(file, k)
           /\ \A k \in Saved(file) : ~Mapped(file, DOMAIN srd.ididr, k)
           /\ pools' = [s \in Sources |-> LoadedPool(file, s)]
           /\ srd' = [srd EXCEPT !.rdonly = TRUE,
                  !.ididr = [id \in DOMAIN srd.ididr \cup MappedIds(file) |->
                             IF id \in DOMAIN srd.ididr THEN srd.ididr[id] ELSE NewIdFor(file, id)]]
           /\ file' = file /\ srd # NoSrd
  BY DEF msm_load, Dies

\* If there is an entry at all, each entry has its detail, and all of them are there.
LEMMA AllPlacedAllThere ==
    ASSUME FileOK(file), \A k \in Entries(file) : Placed(file, k), file.cnt # 0
    PROVE  /\ file.cnt = Meant(file) /\ Len(file.sums) = Meant(file)
           /\ \A k \in 1 .. Len(file.sums) : k \in 1 .. Len(file.dets) /\ k \in Entries(file)
<1>1. /\ file.cnt \in Nat /\ Meant(file) \in Nat /\ Len(file.dets) \in Nat /\ Len(file.sums) \in Nat
      /\ Len(file.sums) <= Meant(file) /\ file.cnt <= Len(file.sums)
      /\ Len(file.dets) > 0 => file.cnt = Meant(file)
  BY DEF FileOK, FileTyped, FileCounts
<1>2. ASSUME NEW k \in 1 .. file.cnt PROVE k \in 1 .. Len(file.dets)
  <2>1. k \in Nat /\ k \in 1 .. Len(file.sums) BY <1>1
  <2>2. file.sums[k].off = DetailAt(file, file.cnt, k) BY DEF Entries, Placed
  <2>3. file.sums[k].off # NotWritten BY <1>1, <2>1, <2>2, DetailsBehindHeader
  <2>4. ~(k > Len(file.dets)) BY <2>1, <2>3 DEF FileOK, FileOffsets
  <2>5. QED BY <1>1, <2>1, <2>4
<1>3. 1 \in 1 .. file.cnt BY <1>1
<1>4. Len(file.dets) > 0 BY <1>1, <1>2, <1>3
<1>5. file.cnt = Meant(file) /\ Len(file.sums) = Meant(file) BY <1>1, <1>4
<1>6. QED BY <1>2, <1>5 DEF Entries

\* A source whose detail is there is loaded from it.
LEMMA LoadedFromDetail ==
    ASSUME FileOK(file), NEW k \in Saved(file)
    PROVE  LoadedPool(file, file.sums[k].name) = file.meant[file.sums[k].name]
<1> DEFINE s == file.sums[k].name
           from == {j \in Saved(file) : file.sums[j].name = s}
           c == CHOOSE j \in from : TRUE
<1>1. c \in from OBVIOUS
<1>2. c \in Saved(file) /\ file.sums[c].name = s BY <1>1
<1>3. LoadedPool(file, s) = file.dets[c].holds BY <1>1 DEF LoadedPool
<1> HIDE DEF from, c
<1>4. c \in 1 .. Len(file.dets) BY <1>2, SavedHaveDetails
<1>5. QED BY <1>2, <1>3, <1>4 DEF FileOK, FileDetails

LEMMA LoadsAll ==
    ASSUME MsmInv, msm_load, result' = "loaded"
    PROVE  \/ \A s \in DOMAIN file.meant : file.meant[s] # 0 => pools'[s] = file.meant[s]
           \/ file.cnt = 0 /\ pools' = pools
<1>1. FileOK(file) /\ pools \in [Sources -> Nat] BY DEF MsmInv, RootOK
<1>2. /\ \A k \in Entries(file) : Placed(file, k)
      /\ pools' = [s \in Sources |-> LoadedPool(file, s)]
  BY LoadFinds
<1>3. CASE file.cnt = 0
  <2>1. Entries(file) = {} BY <1>3 DEF Entries
  <2>2. \A s : LoadedPool(file, s) = pools[s] BY <2>1 DEF Saved, LoadedPool
  <2>3. QED BY <1>1, <1>2, <1>3, <2>2
<1>4. CASE file.cnt # 0
  <2>1. /\ Len(file.sums) = Meant(file)
        /\ \A k \in 1 .. Len(file.sums) : k \in 1 .. Len(file.dets) /\ k \in Entries(file)
    BY <1>1, <1>2, <1>4, AllPlacedAllThere
  <2>2. ASSUME NEW s \in DOMAIN file.meant, file.meant[s] # 0 PROVE pools'[s] = file.meant[s]
    <3>1. PICK k \in 1 .. Len(file.sums) : file.sums[k].name = s
      BY <1>1, <2>1 DEF FileOK, FileNames
    <3>2. file.sums[k].len # 0 BY <1>1, <2>1, <2>2, <3>1 DEF FileOK, FileDetails
    <3>3. k \in Saved(file) BY <2>1, <3>2 DEF Saved
    <3>4. LoadedPool(file, s) = file.meant[s] BY <1>1, <3>1, <3>3, LoadedFromDetail
    <3>5. s \in Sources BY <1>1 DEF FileOK, FileTyped
    <3>6. QED BY <1>2, <3>4, <3>5
  <2>3. QED BY <2>2
<1>5. QED BY <1>3, <1>4

\* A set of at most one source names one source.
LEMMA AtMostOne ==
    ASSUME NEW S, IsFiniteSet(S), Cardinality(S) <= 1, NEW s \in S, NEW t \in S
    PROVE  s = t
<1>1. Cardinality(S) \in Nat BY FS_CardinalityType
<1>2. Cardinality(S) # 0 BY FS_EmptySet
<1>3. Cardinality(S) = 1 BY <1>1, <1>2
<1>4. PICK x : S = {x} BY <1>3, FS_Singleton
<1>5. QED BY <1>4

LEMMA LoadsComplete ==
    ASSUME MsmInv, msm_load, file.size > 0, Complete(file),
           DOMAIN file.meant \subseteq Registered \ LongNames,
           Cardinality(DOMAIN file.meant \cap WithoutId) <= 1,
           srd.ididr = EmptyMap
    PROVE  result' = "loaded"
<1>1. FileOK(file) BY DEF MsmInv
<1>2. /\ file.cnt \in Nat /\ Meant(file) \in Nat /\ Len(file.dets) \in Nat /\ Len(file.sums) \in Nat
      /\ Len(file.dets) <= Len(file.sums) /\ Len(file.sums) <= Meant(file)
      /\ file.cnt <= Len(file.sums)
      /\ Len(file.dets) > 0 => file.cnt = Meant(file)
      /\ DOMAIN file.sums = 1 .. Len(file.sums)
  BY <1>1 DEF FileOK, FileTyped, FileCounts
<1>3. Len(file.dets) = Meant(file) BY DEF Complete, Meant
<1>4. Len(file.sums) = Len(file.dets) /\ file.cnt = Meant(file) BY <1>2, <1>3
<1>5. ASSUME NEW k \in Entries(file)
      PROVE  Found(file, k) /\ Placed(file, k)
  <2>1. k \in 1 .. Len(file.sums) /\ k \in 1 .. Len(file.dets) BY <1>2, <1>4 DEF Entries
  <2>2. Found(file, k) BY <1>1, <2>1 DEF FileOK, FileNames, Found
  <2>3. file.sums[k].off # NotWritten BY <1>2, <2>1 DEF Complete
  <2>4. Placed(file, k) BY <1>1, <1>4, <2>1, <2>3 DEF FileOK, FileOffsets, Placed
  <2>5. QED BY <2>2, <2>4
<1>6. ASSUME NEW k \in Saved(file), Mapped(file, DOMAIN srd.ididr, k) PROVE FALSE
  <2>1. DOMAIN srd.ididr = {} BY DEF EmptyMap
  <2>2. PICK j \in Saved(file) : j < k /\ file.dets[j].id = file.dets[k].id
    BY <1>6, <2>1 DEF Mapped
  <2>3. /\ j \in 1 .. Len(file.dets) /\ k \in 1 .. Len(file.dets)
        /\ j \in 1 .. Len(file.sums) /\ k \in 1 .. Len(file.sums)
    BY <1>1, SavedHaveDetails
  <2>4. j # k BY <2>2, <2>3
  <2>5. file.dets[j].id = NoId BY <1>1, <2>2, <2>3, <2>4 DEF FileOK, FileDetails
  <2>6. file.sums[j].name \in WithoutId /\ file.sums[k].name \in WithoutId
    BY <1>1, <2>2, <2>3, <2>5 DEF FileOK, FileDetails
  <2>7. file.sums[j].name \in DOMAIN file.meant /\ file.sums[k].name \in DOMAIN file.meant
    BY <1>1, <2>3 DEF FileOK, FileNames
  <2>8. IsFiniteSet(DOMAIN file.meant \cap WithoutId)
    <3>1. DOMAIN file.meant \cap WithoutId \in SUBSET Sources BY <1>1 DEF FileOK, FileTyped
    <3>2. QED BY <3>1, MsmAssumption, FS_Subset
  <2>9. file.sums[j].name = file.sums[k].name BY <2>6, <2>7, <2>8, AtMostOne
  <2>10. QED BY <1>1, <2>3, <2>4, <2>9 DEF FileOK, FileNames
<1>7. ~Dies(file) BY <1>5, <1>6 DEF Dies
<1>8. QED BY <1>7 DEF msm_load, Mappable

LEMMA IdsLead ==
    ASSUME MsmInv, msm_load, result' = "loaded", NEW k \in Saved(file), file.dets[k].id # NoId
    PROVE  get_new_pool_pt(file.dets[k].id)' = file.sums[k].name
<1> DEFINE id == file.dets[k].id
           s == file.sums[k].name
           mapped == {j \in Saved(file) : file.dets[j].id = id}
           c == CHOOSE j \in Saved(file) : file.dets[j].id = id
<1>1. FileOK(file) /\ RootOK BY DEF MsmInv
<1>2. /\ \A j \in Entries(file) : Found(file, j)
      /\ \A j \in Saved(file) : ~Mapped(file, DOMAIN srd.ididr, j)
      /\ file' = file /\ srd # NoSrd
  BY LoadFinds
<1>3. c \in Saved(file) /\ file.dets[c].id = id OBVIOUS
<1> HIDE DEF c
<1>4. c = k
  <2>1. \A j \in Saved(file) : j \in Int BY DEF Saved, Entries
  <2>2. ~(c < k) /\ ~(k < c) BY <1>2, <1>3 DEF Mapped
  <2>3. QED BY <1>3, <2>1, <2>2
<1>5. NewIdFor(file, id) = poolid[s] BY <1>4 DEF NewIdFor, c
<1>6. id \notin DOMAIN srd.ididr /\ id \in MappedIds(file) BY <1>2 DEF Mapped, MappedIds
<1>7. s \in Registered BY <1>2 DEF Saved, Found
<1>8. s \notin WithoutId
  <2>1. k \in 1 .. Len(file.dets) BY <1>1, SavedHaveDetails
  <2>2. QED BY <1>1, <2>1 DEF FileOK, FileDetails
<1>9. srd.poolidr[poolid[s]] = s BY <1>1, <1>2, <1>7, <1>8, IdOfRegistered
<1> DEFINE map == [i \in DOMAIN srd.ididr \cup MappedIds(file) |->
                     IF i \in DOMAIN srd.ididr THEN srd.ididr[i] ELSE NewIdFor(file, i)]
           r == [srd EXCEPT !.rdonly = TRUE]
<1>10. srd' = [r EXCEPT !.ididr = map] BY LoadFinds
<1>11. map[id] = poolid[s] BY <1>5, <1>6
<1>12. Root(srd) BY <1>1, <1>2 DEF RootOK, RootWell
<1>13. Root(r) /\ r.poolidr = srd.poolidr BY <1>12, SetsFlag
<1> HIDE DEF map, r
<1>14. srd'.ididr = map /\ srd'.poolidr = srd.poolidr BY <1>10, <1>13 DEF Root
<1>15. srd'.poolidr[srd'.ididr[file'.dets[k].id]] = s BY <1>2, <1>9, <1>11, <1>14
<1>16. QED BY <1>15 DEF get_new_pool_pt

-----------------------------------------------------------------------------
(* The theorems *)

\* Wherever a dump was killed, and whatever the program that loads has registered: a
\* load that returns 0 has read all that was to be saved, or an empty summary.
THEOREM MsmLoadsAllOrNothing == MsmSpec => LoadsAllOrNothing
<1>1. MsmInit => MsmInv BY InitInv
<1>2. MsmInv /\ [MsmNext]_vars => MsmInv' BY StepInv
<1>3. MsmInv /\ [MsmNext]_vars =>
        [msm_load /\ result' = "loaded" =>
         \/ \A s \in DOMAIN file.meant : file.meant[s] # 0 => pools'[s] = file.meant[s]
         \/ file.cnt = 0 /\ pools' = pools]_vars
  BY LoadsAll
<1>4. QED BY <1>1, <1>2, <1>3, PTL DEF MsmSpec, LoadsAllOrNothing

\* A completed dump loads in every process that has registered its sources and has not
\* loaded before, whatever ids their pools have got there, if at most one has none.
THEOREM MsmLoadsBack == MsmSpec => LoadsBack
<1>1. MsmInit => MsmInv BY InitInv
<1>2. MsmInv /\ [MsmNext]_vars => MsmInv' BY StepInv
<1>3. MsmInv /\ [MsmNext]_vars =>
        [/\ msm_load /\ file.size > 0 /\ Complete(file)
         /\ DOMAIN file.meant \subseteq Registered \ LongNames
         /\ Cardinality(DOMAIN file.meant \cap WithoutId) <= 1
         /\ srd.ididr = EmptyMap
         => result' = "loaded"]_vars
  BY LoadsComplete
<1>4. QED BY <1>1, <1>2, <1>3, PTL DEF MsmSpec, LoadsBack

\* The id a pool had in the process that dumped it leads, by ididr and poolidr, to the
\* pool of the same source in the process that has loaded it.
THEOREM MsmIdsLeadHome == MsmSpec => IdsLeadHome
<1>1. MsmInit => MsmInv BY InitInv
<1>2. MsmInv /\ [MsmNext]_vars => MsmInv' BY StepInv
<1>3. MsmInv /\ [MsmNext]_vars =>
        [msm_load /\ result' = "loaded" =>
         \A k \in Saved(file) : file.dets[k].id # NoId =>
             get_new_pool_pt(file.dets[k].id)' = file.sums[k].name]_vars
  BY IdsLead
<1>4. QED BY <1>1, <1>2, <1>3, PTL DEF MsmSpec, IdsLeadHome

\* Whatever the program gets and puts, registers and changes: unless it puts more than it
\* has got, each pool that lives is found under its id.
THEOREM MsmPoolsFound == MsmSpec => []PoolsFound
<1>1. MsmInit => MsmInv BY InitInv
<1>2. MsmInv /\ [MsmNext]_vars => MsmInv' BY StepInv
<1>3. MsmInv => PoolsFound
  <2> SUFFICES ASSUME MsmInv, NEW s \in Sources, poolid[s] # NoId
               PROVE  /\ srd # NoSrd
                      /\ poolid[s] \in DOMAIN srd.poolidr /\ srd.poolidr[poolid[s]] = s
    BY DEF PoolsFound
  <2>1. srd # NoSrd BY DEF MsmInv, RootOK, NoIds
  <2>2. PoolIds(srd.poolidr, Of(srd.ds) \ WithoutId, poolid)
    BY <2>1 DEF MsmInv, RootOK, RootWell
  <2>3. QED BY <2>1, <2>2 DEF PoolIds
<1>4. QED BY <1>1, <1>2, <1>3, PTL DEF MsmSpec
=============================================================================
