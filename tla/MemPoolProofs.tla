---------------------------- MODULE MemPoolProofs ----------------------------
(***************************************************************************)
(* For a pool of any size, any requests and any sequence of calls: the     *)
(* chunks tile the area, the two accounts are sums over them, contents and *)
(* locks survive every slide and merge, and a request is refused only when *)
(* no chunk can be moved for it.                                           *)
(***************************************************************************)
EXTENDS MemPool, FiniteSetTheorems, WellFoundedInduction, TLAPS

-----------------------------------------------------------------------------
(* The area and what a pool is made of *)

HandleSet == [ptr : Addresses \cup {Null}, status : Sigs, size : Int]
ChunkSet == [guard : Sigs \cup {"none"}, next : Addresses \cup {Null},
             prev : Addresses \cup {Null}, handle : Handles]
PoolSet == [handles : [Handles -> HandleSet], chunks : [Addresses -> ChunkSet],
            last : Addresses, alloced : Int, free : Int,
            bytes : SUBSET (Addresses \X Handles)]

LEMMA AreaFits ==
    /\ Hdr \in Nat /\ Hdr >= 1 /\ Area \in Nat /\ Area >= 2 * Hdr
    /\ 0 \in Addresses /\ 0 \in Handles /\ Null \notin Addresses /\ Null \notin Handles
    /\ \A a : a \in Addresses <=> a \in Nat /\ a < Area
    /\ \A h \in Handles : h \in Nat
<1>1. /\ Hdr \in Nat /\ Hdr >= 1 /\ Size \in Nat /\ Chunks \in Nat /\ Chunks >= 1
  BY PoolAssumption
<1>2. Chunks * Hdr \in Nat /\ Chunks * Hdr >= Hdr BY <1>1
<1>3. Area = Size + 2 * (Chunks * Hdr) BY <1>1 DEF Area
<1>4. PICK m \in Nat : m = Chunks * Hdr BY <1>2
<1>5. Area \in Nat /\ Area >= 2 * Hdr BY <1>1, <1>2, <1>3, <1>4
<1>6. \A a : a \in Addresses <=> a \in Nat /\ a < Area BY <1>5 DEF Addresses
<1>7. /\ 0 \in Handles /\ Null \notin Addresses /\ Null \notin Handles
      /\ \A h \in Handles : h \in Nat
  BY <1>1, <1>6 DEF Handles, Null
<1>8. QED BY <1>1, <1>5, <1>6, <1>7

\* The headers of the chunks C, and where the chunk at a ends under the handles H.
HeadersIn(C) == {a \in Addresses : C[a] # NoHeader}
EndIn(H, C, a) == a + Hdr + H[C[a].handle].size

\* The header at a, its handle and the two headers beside it agree.
ChunkOK(H, C, l, a) ==
    /\ C[a].guard \in Sigs
    /\ H[C[a].handle].ptr = a /\ H[C[a].handle].status = C[a].guard
    /\ H[C[a].handle].size >= 0
    /\ C[a].next = Null => EndIn(H, C, a) = Area /\ l = a
    /\ C[a].next # Null => /\ C[a].next = EndIn(H, C, a)
                           /\ C[a].next \in HeadersIn(C) /\ C[C[a].next].prev = a
    /\ a = 0 => C[a].prev = Null
    /\ a # 0 => C[a].prev \in HeadersIn(C) /\ C[C[a].prev].next = a

HandleOK(H, C, h) ==
    H[h].ptr # Null => H[h].ptr \in HeadersIn(C) /\ C[H[h].ptr].handle = h

\* Tiled, with what makes it inductive: the chain goes both ways, headers and handles
\* are one to one, and no chunk reaches into one behind it.
SoundIn(H, C, l) ==
    /\ H \in [Handles -> HandleSet] /\ C \in [Addresses -> ChunkSet]
    /\ H[0].ptr = 0 /\ H[0].status = "FREE"
    /\ l \in HeadersIn(C) /\ C[l].next = Null
    /\ \A a \in HeadersIn(C) : ChunkOK(H, C, l, a)
    /\ \A h \in Handles : HandleOK(H, C, h)
    /\ \A a, b \in HeadersIn(C) : a < b => EndIn(H, C, a) <= b

LEMMA HandleTyped ==
    ASSUME NEW H \in [Handles -> HandleSet], NEW h \in Handles
    PROVE  H[h].ptr \in Addresses \cup {Null} /\ H[h].status \in Sigs /\ H[h].size \in Int
<1>1. H[h] \in HandleSet OBVIOUS
<1>2. QED BY <1>1 DEF HandleSet

LEMMA ChunkTyped ==
    ASSUME NEW C \in [Addresses -> ChunkSet], NEW a \in Addresses
    PROVE  /\ C[a].guard \in Sigs \cup {"none"} /\ C[a].handle \in Handles
           /\ C[a].next \in Addresses \cup {Null} /\ C[a].prev \in Addresses \cup {Null}
           /\ C[a].guard \in Sigs => C[a] # NoHeader
<1>1. C[a] \in ChunkSet OBVIOUS
<1>2. NoHeader.guard = "none" /\ "none" \notin Sigs BY DEF NoHeader, Sigs
<1>3. QED BY <1>1, <1>2 DEF ChunkSet

-----------------------------------------------------------------------------
(* Geometry *)

\* All that is known of one header.
LEMMA HeaderFacts ==
    ASSUME NEW H, NEW C, NEW l, SoundIn(H, C, l), NEW a \in HeadersIn(C)
    PROVE  /\ a \in Nat /\ a \in Addresses /\ a < Area /\ Hdr \in Nat /\ Hdr >= 1 /\ Area \in Nat
           /\ C[a].handle \in Handles
           /\ H[C[a].handle].size \in Nat /\ H[C[a].handle].ptr = a
           /\ H[C[a].handle].status = C[a].guard /\ C[a].guard \in Sigs
           /\ EndIn(H, C, a) = a + Hdr + H[C[a].handle].size
           /\ C[a].next = Null => EndIn(H, C, a) = Area /\ l = a
           /\ C[a].next # Null => /\ C[a].next = EndIn(H, C, a) /\ C[a].next \in HeadersIn(C)
                                  /\ C[C[a].next].prev = a /\ C[a].next > a
                                  /\ C[a].next \in Nat /\ C[a].next < Area
           /\ a = 0 <=> C[a].prev = Null
           /\ a # 0 => /\ C[a].prev \in HeadersIn(C) /\ C[C[a].prev].next = a
                       /\ C[a].prev < a /\ C[a].prev \in Nat
           /\ a + Hdr <= EndIn(H, C, a) /\ EndIn(H, C, a) <= Area
<1>1. /\ a \in Addresses /\ ChunkOK(H, C, l, a)
      /\ H \in [Handles -> HandleSet] /\ C \in [Addresses -> ChunkSet]
  BY DEF SoundIn, HeadersIn
<1>2. C[a].handle \in Handles BY <1>1, ChunkTyped
<1>3. H[C[a].handle].size \in Int BY <1>1, <1>2, HandleTyped
<1>4. a \in Nat /\ a < Area BY <1>1, AreaFits
<1>5. H[C[a].handle].size \in Nat BY <1>1, <1>3 DEF ChunkOK
<1>6. EndIn(H, C, a) = a + Hdr + H[C[a].handle].size BY DEF EndIn
<1>7. C[a].next # Null => /\ C[a].next \in HeadersIn(C) /\ C[a].next \in Addresses
                          /\ C[a].next > a
                          /\ C[a].next \in Nat /\ C[a].next < Area
  BY <1>1, <1>4, <1>5, <1>6, AreaFits DEF ChunkOK, HeadersIn
<1>8. a # 0 => C[a].prev < a /\ C[a].prev \in Nat
  <2> SUFFICES ASSUME a # 0 PROVE C[a].prev < a /\ C[a].prev \in Nat OBVIOUS
  <2>1. PICK b : b = C[a].prev OBVIOUS
  <2>2. b \in HeadersIn(C) /\ C[b].next = a BY <1>1, <2>1 DEF ChunkOK
  <2>3. ChunkOK(H, C, l, b) /\ b \in Addresses BY <2>2 DEF SoundIn, HeadersIn
  <2>4. C[b].handle \in Handles BY <1>1, <2>3, ChunkTyped
  <2>5. H[C[b].handle].size \in Int /\ H[C[b].handle].size >= 0
    BY <1>1, <2>3, <2>4, HandleTyped DEF ChunkOK
  <2>6. a # Null /\ b \in Nat BY <1>1, <2>3, AreaFits
  <2>7. a = b + Hdr + H[C[b].handle].size BY <2>2, <2>3, <2>6 DEF ChunkOK, EndIn
  <2>8. Hdr \in Nat /\ Hdr >= 1 BY AreaFits
  <2>9. b < a BY <2>5, <2>6, <2>7, <2>8
  <2>10. QED BY <2>1, <2>6, <2>9
<1>9. a = 0 <=> C[a].prev = Null BY <1>1, <1>8, AreaFits DEF ChunkOK, Null
<1>10. a + Hdr <= EndIn(H, C, a) BY <1>4, <1>5, <1>6, AreaFits
<1>11. EndIn(H, C, a) <= Area
  <2>1. CASE C[a].next = Null BY <1>1, <2>1, AreaFits DEF ChunkOK
  <2>2. CASE C[a].next # Null BY <1>1, <1>7, <2>2, AreaFits DEF ChunkOK
  <2>3. QED BY <2>1, <2>2
<1>12. QED BY <1>1, <1>2, <1>4, <1>5, <1>6, <1>7, <1>8, <1>9, <1>10, <1>11, AreaFits DEF ChunkOK

\* The chunks beside one, and their handles.
LEMMA NeighbourFacts ==
    ASSUME NEW H, NEW C, NEW l, SoundIn(H, C, l), NEW a \in HeadersIn(C)
    PROVE  /\ C[a].next # Null =>
                 /\ C[a].next \in HeadersIn(C) /\ C[C[a].next].prev = a
                 /\ C[C[a].next].handle \in Handles
                 /\ H[C[C[a].next].handle].ptr = C[a].next
                 /\ H[C[C[a].next].handle].status = C[C[a].next].guard
           /\ C[a].prev # Null =>
                 /\ C[a].prev \in HeadersIn(C) /\ C[C[a].prev].next = a
                 /\ C[C[a].prev].handle \in Handles
                 /\ H[C[C[a].prev].handle].ptr = C[a].prev
                 /\ H[C[C[a].prev].handle].status = C[C[a].prev].guard
<1>1. ASSUME C[a].next # Null
      PROVE  LET y == C[a].next IN
             /\ y \in HeadersIn(C) /\ C[y].prev = a /\ C[y].handle \in Handles
             /\ H[C[y].handle].ptr = y /\ H[C[y].handle].status = C[y].guard
  <2>1. PICK y : y = C[a].next OBVIOUS
  <2>2. y \in HeadersIn(C) /\ C[y].prev = a BY <1>1, <2>1, HeaderFacts
  <2>3. C[y].handle \in Handles /\ H[C[y].handle].ptr = y /\ H[C[y].handle].status = C[y].guard
    BY <2>2, HeaderFacts
  <2>4. QED BY <2>1, <2>2, <2>3
<1>2. ASSUME C[a].prev # Null
      PROVE  LET y == C[a].prev IN
             /\ y \in HeadersIn(C) /\ C[y].next = a /\ C[y].handle \in Handles
             /\ H[C[y].handle].ptr = y /\ H[C[y].handle].status = C[y].guard
  <2>1. PICK y : y = C[a].prev OBVIOUS
  <2>2. y \in HeadersIn(C) /\ C[y].next = a BY <1>2, <2>1, HeaderFacts
  <2>3. C[y].handle \in Handles /\ H[C[y].handle].ptr = y /\ H[C[y].handle].status = C[y].guard
    BY <2>2, HeaderFacts
  <2>4. QED BY <2>1, <2>2, <2>3
<1>3. QED BY <1>1, <1>2

\* A header behind a is the next one or behind that, one in front the previous or in
\* front of that.
LEMMA Between ==
    ASSUME NEW H, NEW C, NEW l, SoundIn(H, C, l), NEW a \in HeadersIn(C), NEW b \in HeadersIn(C)
    PROVE  /\ a < b => C[a].next # Null /\ C[a].next <= b
           /\ a < b => C[b].prev # Null /\ a <= C[b].prev
           /\ a < b => EndIn(H, C, a) <= b
<1>1. /\ a \in Nat /\ b \in Nat /\ b < Area /\ Area \in Nat
      /\ C[a].next = Null => EndIn(H, C, a) = Area
      /\ C[a].next # Null => C[a].next = EndIn(H, C, a)
  BY HeaderFacts
<1>2. a < b => EndIn(H, C, a) <= b BY DEF SoundIn
<1>3. ASSUME a < b PROVE C[a].next # Null /\ C[a].next <= b BY <1>1, <1>2, <1>3
<1>4. ASSUME a < b PROVE C[b].prev # Null /\ a <= C[b].prev
  <2>1. b # 0 BY <1>1, <1>4
  <2>2. PICK c : c = C[b].prev OBVIOUS
  <2>3. c \in HeadersIn(C) /\ C[c].next = b /\ c \in Nat BY <2>1, <2>2, HeaderFacts
  <2>4. b # Null /\ c # Null BY <1>1, <2>3 DEF Null
  <2>5. b = EndIn(H, C, c) BY <2>3, <2>4, HeaderFacts
  <2>6. ~(c < a)
    <3>1. SUFFICES ASSUME c < a PROVE FALSE OBVIOUS
    <3>2. EndIn(H, C, c) <= a BY <2>3, <3>1 DEF SoundIn
    <3>3. QED BY <1>1, <1>4, <2>5, <3>2
  <2>7. QED BY <1>1, <2>2, <2>3, <2>4, <2>6
<1>5. QED BY <1>2, <1>3, <1>4

\* Headers and the handles in use are one to one.
LEMMA HandleFacts ==
    ASSUME NEW H, NEW C, NEW l, SoundIn(H, C, l), NEW h \in Handles, H[h].ptr # Null
    PROVE  H[h].ptr \in HeadersIn(C) /\ C[H[h].ptr].handle = h
  BY DEF SoundIn, HandleOK

LEMMA OneHandle ==
    ASSUME NEW H, NEW C, NEW l, SoundIn(H, C, l), NEW a \in HeadersIn(C), NEW b \in HeadersIn(C),
           C[a].handle = C[b].handle
    PROVE  a = b
<1>1. H[C[a].handle].ptr = a /\ H[C[b].handle].ptr = b BY HeaderFacts
<1>2. QED BY <1>1

-----------------------------------------------------------------------------
(* A pool as the operators of MemPool take it *)

SoundPool(p) == p \in PoolSet /\ SoundIn(p.handles, p.chunks, p.last)

LEMMA PoolFields ==
    ASSUME NEW p \in PoolSet
    PROVE  /\ p.handles \in [Handles -> HandleSet] /\ p.chunks \in [Addresses -> ChunkSet]
           /\ p.last \in Addresses /\ p.alloced \in Int /\ p.free \in Int
           /\ p.bytes \in SUBSET (Addresses \X Handles)
           /\ p = [handles |-> p.handles, chunks |-> p.chunks, last |-> p.last,
                   alloced |-> p.alloced, free |-> p.free, bytes |-> p.bytes]
  BY DEF PoolSet

\* Linked sets one prev, or last.
LEMMA LinkedIs ==
    ASSUME NEW p \in PoolSet, NEW a \in Addresses
    PROVE  LET q == Linked(p, a)
               n == p.chunks[a].next IN
           /\ q \in PoolSet /\ q.handles = p.handles /\ q.bytes = p.bytes
           /\ q.alloced = p.alloced /\ q.free = p.free
           /\ n = Null => q.chunks = p.chunks /\ q.last = a
           /\ n # Null => /\ q.chunks = [p.chunks EXCEPT ![n] = [@ EXCEPT !.prev = a]]
                          /\ q.last = p.last
<1> DEFINE n == p.chunks[a].next
<1>1. n \in Addresses \cup {Null} BY PoolFields, ChunkTyped
<1>2. CASE n = Null
  <2>1. Linked(p, a) = [p EXCEPT !.last = a] BY <1>2 DEF Linked
  <2>2. QED BY <1>2, <2>1 DEF PoolSet
<1>3. CASE n # Null
  <2>1. Linked(p, a) = [p EXCEPT !.chunks[n].prev = a] BY <1>3 DEF Linked
  <2>2. n \in Addresses BY <1>1, <1>3
  <2>3. p.chunks[n] \in ChunkSet BY <2>2, PoolFields
  <2>4. [p.chunks[n] EXCEPT !.prev = a] \in ChunkSet BY <2>3 DEF ChunkSet
  <2> HIDE DEF n
  <2>5. [p.chunks EXCEPT ![n] = [@ EXCEPT !.prev = a]] \in [Addresses -> ChunkSet]
    BY <2>2, <2>4, PoolFields
  <2>6. Linked(p, a) = [p EXCEPT !.chunks = [p.chunks EXCEPT ![n] = [@ EXCEPT !.prev = a]]]
    BY <2>1
  <2>7. QED BY <1>3, <2>5, <2>6, PoolFields DEF PoolSet, n
<1>4. QED BY <1>2, <1>3

-----------------------------------------------------------------------------
(* Merging *)

\* What Absorb makes of the handles and the headers: b goes, a has its place.
Merged(H, C, h, g, H2, C2) ==
    LET a == H[h].ptr
        b == H[g].ptr
        n == C[b].next
    IN  /\ H2 \in [Handles -> HandleSet] /\ C2 \in [Addresses -> ChunkSet]
        /\ H2[h].ptr = a /\ H2[h].status = H[h].status /\ H2[h].size = H[h].size + H[g].size + Hdr
        /\ H2[g] = NoHandle
        /\ \A x \in Handles : x # h /\ x # g => H2[x] = H[x]
        /\ C2[b] = NoHeader
        /\ C2[a].guard = C[a].guard /\ C2[a].handle = C[a].handle /\ C2[a].prev = C[a].prev
        /\ C2[a].next = n
        /\ n # Null => /\ C2[n].guard = C[n].guard /\ C2[n].handle = C[n].handle
                       /\ C2[n].next = C[n].next /\ C2[n].prev = a
        /\ \A x \in Addresses : x # a /\ x # b /\ x # n => C2[x] = C[x]

\* Chunk h in front of chunk g.
Beside(H, C, h, g) ==
    /\ h \in Handles /\ g \in Handles /\ H[h].ptr # Null /\ H[g].ptr # Null
    /\ C[H[h].ptr].next = H[g].ptr

\* Three headers in a row.
LEMMA Row ==
    ASSUME NEW H, NEW C, NEW l, SoundIn(H, C, l), NEW h, NEW g, Beside(H, C, h, g)
    PROVE  LET a == H[h].ptr
               b == H[g].ptr
               n == C[b].next IN
           /\ a \in HeadersIn(C) /\ b \in HeadersIn(C) /\ C[a].handle = h /\ C[b].handle = g
           /\ a \in Nat /\ b \in Nat /\ a < b /\ C[a].next = b /\ C[b].prev = a /\ h # g /\ g # 0
           /\ b = EndIn(H, C, a)
           /\ n # Null => n \in HeadersIn(C) /\ n \in Nat /\ b < n /\ C[n].prev = b
           /\ n = Null => l = b
<1> DEFINE a == H[h].ptr
           b == H[g].ptr
           n == C[b].next
<1>1. a \in HeadersIn(C) /\ b \in HeadersIn(C) /\ C[a].handle = h /\ C[b].handle = g
  BY HandleFacts DEF Beside
<1>2. C[a].next = b /\ b # Null BY DEF Beside
<1> HIDE DEF a, b
<1>3. /\ a \in Nat /\ b \in Nat /\ a < b /\ C[b].prev = a /\ b = EndIn(H, C, a)
  BY <1>1, <1>2, HeaderFacts
<1>4. /\ n # Null => n \in HeadersIn(C) /\ n \in Nat /\ b < n /\ C[n].prev = b
      /\ n = Null => l = b
  BY <1>1, HeaderFacts
<1>5. h # g BY <1>1, <1>3 DEF a, b
<1>6. g # 0
  <2>1. H[0].ptr = 0 BY DEF SoundIn
  <2>2. QED BY <1>3, <2>1 DEF b
<1>7. QED BY <1>1, <1>2, <1>3, <1>4, <1>5, <1>6 DEF a, b, n

LEMMA MergedSound ==
    ASSUME NEW H, NEW C, NEW l, SoundIn(H, C, l), NEW h, NEW g, Beside(H, C, h, g),
           NEW H2, NEW C2, Merged(H, C, h, g, H2, C2)
    PROVE  /\ SoundIn(H2, C2, IF C[H[g].ptr].next = Null THEN H[h].ptr ELSE l)
           /\ HeadersIn(C2) = HeadersIn(C) \ {H[g].ptr}
           /\ \A x \in HeadersIn(C2) : C2[x].guard = C[x].guard /\ C2[x].handle = C[x].handle
           /\ EndIn(H2, C2, H[h].ptr) = EndIn(H, C, H[g].ptr)
<1> DEFINE a == H[h].ptr
           b == H[g].ptr
           n == C[b].next
           m == IF n = Null THEN a ELSE l
<1>1. /\ a \in HeadersIn(C) /\ b \in HeadersIn(C) /\ C[a].handle = h /\ C[b].handle = g
      /\ a \in Nat /\ b \in Nat /\ a < b /\ C[a].next = b /\ C[b].prev = a /\ h # g /\ g # 0
      /\ b = EndIn(H, C, a)
      /\ n # Null => n \in HeadersIn(C) /\ n \in Nat /\ b < n /\ C[n].prev = b
      /\ n = Null => l = b
  BY Row
<1>2. /\ H2 \in [Handles -> HandleSet] /\ C2 \in [Addresses -> ChunkSet]
      /\ H2[h].ptr = a /\ H2[h].status = H[h].status /\ H2[h].size = H[h].size + H[g].size + Hdr
      /\ H2[g] = NoHandle
      /\ \A x \in Handles : x # h /\ x # g => H2[x] = H[x]
      /\ C2[b] = NoHeader
      /\ C2[a].guard = C[a].guard /\ C2[a].handle = C[a].handle /\ C2[a].prev = C[a].prev
      /\ C2[a].next = n
      /\ n # Null => /\ C2[n].guard = C[n].guard /\ C2[n].handle = C[n].handle
                     /\ C2[n].next = C[n].next /\ C2[n].prev = a
      /\ \A x \in Addresses : x # a /\ x # b /\ x # n => C2[x] = C[x]
  BY DEF Merged
<1>3. h \in Handles /\ g \in Handles BY DEF Beside
<1>4. /\ C \in [Addresses -> ChunkSet] /\ H[0].ptr = 0 /\ H[0].status = "FREE"
      /\ l \in HeadersIn(C) /\ C[l].next = Null
  BY DEF SoundIn
<1> HIDE DEF a, b
<1>5. \A x \in HeadersIn(C) : x \in Addresses /\ x \in Nat /\ C[x].guard \in Sigs BY HeaderFacts
<1>6. n # a /\ n # b
  <2>1. n = Null => n # a /\ n # b BY <1>1 DEF Null
  <2>2. QED BY <1>1, <2>1
<1> HIDE DEF n
<1>7. HeadersIn(C2) = HeadersIn(C) \ {b}
  <2>1. a \in HeadersIn(C2) BY <1>1, <1>2, <1>5, ChunkTyped DEF HeadersIn
  <2>2. n # Null => n \in HeadersIn(C2) BY <1>1, <1>2, <1>5, ChunkTyped DEF HeadersIn
  <2>3. ASSUME NEW x \in Addresses PROVE x \in HeadersIn(C2) <=> x \in HeadersIn(C) \ {b}
    <3>1. CASE x = b BY <1>2, <3>1 DEF HeadersIn
    <3>2. CASE x = a BY <1>1, <2>1, <3>2
    <3>3. CASE x = n /\ n # Null BY <1>1, <1>6, <2>2, <3>3
    <3>4. CASE x # a /\ x # b /\ x # n BY <1>2, <3>4 DEF HeadersIn
    <3>5. QED BY <3>1, <3>2, <3>3, <3>4, AreaFits
  <2>4. QED BY <2>3 DEF HeadersIn
<1>8. ASSUME NEW x \in HeadersIn(C2)
      PROVE  /\ x \in HeadersIn(C) /\ x # b /\ x \in Addresses
             /\ C2[x].guard = C[x].guard /\ C2[x].handle = C[x].handle
             /\ x # a => C2[x].next = C[x].next
             /\ x # n => C2[x].prev = C[x].prev
  <2>1. x \in HeadersIn(C) /\ x # b /\ x \in Addresses /\ x # Null BY <1>5, <1>7, AreaFits
  <2>2. CASE x = a BY <1>2, <2>1, <2>2
  <2>3. CASE x = n BY <1>2, <2>1, <2>3
  <2>4. CASE x # a /\ x # n BY <1>2, <2>1, <2>4
  <2>5. QED BY <2>2, <2>3, <2>4
<1>9. ASSUME NEW x \in HeadersIn(C2), x # a
      PROVE  H2[C[x].handle] = H[C[x].handle] /\ EndIn(H2, C2, x) = EndIn(H, C, x)
  <2>1. C[x].handle \in Handles BY <1>8, HeaderFacts
  <2>2. C[x].handle # h /\ C[x].handle # g BY <1>1, <1>8, <1>9, OneHandle
  <2>3. H2[C[x].handle] = H[C[x].handle] BY <1>2, <2>1, <2>2
  <2>4. QED BY <1>8, <2>3 DEF EndIn
<1>10. EndIn(H2, C2, a) = EndIn(H, C, b)
  <2>1. /\ EndIn(H, C, b) = b + Hdr + H[g].size /\ EndIn(H, C, a) = a + Hdr + H[h].size
        /\ EndIn(H2, C2, a) = a + Hdr + H2[h].size
    BY <1>1, <1>2 DEF EndIn
  <2>2. H[g].size \in Nat /\ H[h].size \in Nat /\ Hdr \in Nat BY <1>1, HeaderFacts
  <2>3. QED BY <1>1, <1>2, <2>1, <2>2
<1>11. ASSUME NEW x \in HeadersIn(C2) PROVE ChunkOK(H2, C2, m, x)
  <2>1. /\ x \in HeadersIn(C) /\ C[x].guard \in Sigs /\ C[x].handle \in Handles
        /\ H[C[x].handle].ptr = x /\ H[C[x].handle].status = C[x].guard
        /\ H[C[x].handle].size \in Nat
        /\ C[x].next = Null => EndIn(H, C, x) = Area /\ l = x
        /\ C[x].next # Null => /\ C[x].next = EndIn(H, C, x) /\ C[x].next \in HeadersIn(C)
                               /\ C[C[x].next].prev = x
        /\ x = 0 <=> C[x].prev = Null
        /\ x # 0 => C[x].prev \in HeadersIn(C) /\ C[C[x].prev].next = x
    BY <1>8, HeaderFacts
  <2>2. C2[x].guard \in Sigs BY <1>8, <2>1
  <2>3. /\ H2[C2[x].handle].ptr = x /\ H2[C2[x].handle].status = C2[x].guard
        /\ H2[C2[x].handle].size >= 0
    <3>1. CASE x = a
      <4>1. H[g].size \in Nat /\ H[h].size \in Nat /\ Hdr \in Nat BY <1>1, HeaderFacts
      <4>2. QED BY <1>1, <1>2, <2>1, <3>1, <4>1
    <3>2. CASE x # a BY <1>8, <1>9, <2>1, <3>2
    <3>3. QED BY <3>1, <3>2
  <2>4. /\ C2[x].next = Null => EndIn(H2, C2, x) = Area /\ m = x
        /\ C2[x].next # Null => /\ C2[x].next = EndIn(H2, C2, x)
                                /\ C2[x].next \in HeadersIn(C2) /\ C2[C2[x].next].prev = x
    <3>1. CASE x = a
      <4>1. /\ n = Null => EndIn(H, C, b) = Area
            /\ n # Null => n = EndIn(H, C, b)
        BY <1>1, HeaderFacts DEF n
      <4>2. QED BY <1>1, <1>2, <1>6, <1>7, <1>10, <3>1, <4>1
    <3>2. CASE x # a
      <4>1. C2[x].next = C[x].next /\ EndIn(H2, C2, x) = EndIn(H, C, x) BY <1>8, <1>9, <3>2
      <4>2. CASE C[x].next = Null
        <5>1. l = x /\ EndIn(H, C, x) = Area BY <2>1, <4>2
        <5>2. n # Null BY <1>1, <1>8, <5>1
        <5>3. QED BY <4>1, <4>2, <5>1, <5>2
      <4>3. CASE C[x].next # Null
        <5>1. PICK y : y = C[x].next OBVIOUS
        <5>2. y \in HeadersIn(C) /\ C[y].prev = x /\ y = EndIn(H, C, x) BY <2>1, <4>3, <5>1
        <5>3. y # b BY <1>1, <3>2, <5>2
        <5>4. y # n BY <1>1, <1>8, <4>3, <5>1, <5>2
        <5>5. y \in HeadersIn(C2) /\ C2[y].prev = x BY <1>7, <1>8, <5>2, <5>3, <5>4
        <5>6. QED BY <4>1, <4>3, <5>1, <5>2, <5>5
      <4>4. QED BY <4>2, <4>3
    <3>3. QED BY <3>1, <3>2
  <2>5. /\ x = 0 => C2[x].prev = Null
        /\ x # 0 => C2[x].prev \in HeadersIn(C2) /\ C2[C2[x].prev].next = x
    <3>1. CASE x = n
      <4>1. C2[x].prev = a /\ C2[a].next = x /\ a \in HeadersIn(C2) /\ x # 0
        BY <1>1, <1>2, <1>5, <1>7, <1>8, <3>1, AreaFits
      <4>2. QED BY <4>1
    <3>2. CASE x # n
      <4>1. C2[x].prev = C[x].prev BY <1>8, <3>2
      <4>2. CASE x = 0 BY <2>1, <4>1, <4>2
      <4>3. CASE x # 0
        <5>1. PICK y : y = C[x].prev OBVIOUS
        <5>2. y \in HeadersIn(C) /\ C[y].next = x BY <2>1, <4>3, <5>1
        <5>3. y # b BY <3>2, <5>2 DEF n
        <5>4. y # a BY <1>1, <1>8, <5>2
        <5>5. y \in HeadersIn(C2) /\ C2[y].next = x BY <1>7, <1>8, <5>2, <5>3, <5>4
        <5>6. QED BY <4>1, <4>3, <5>1, <5>5
      <4>4. QED BY <4>2, <4>3
    <3>3. QED BY <3>1, <3>2
  <2>6. QED BY <2>2, <2>3, <2>4, <2>5 DEF ChunkOK
<1>12. ASSUME NEW x \in Handles PROVE HandleOK(H2, C2, x)
  <2>1. CASE x = h BY <1>1, <1>2, <1>7, <2>1 DEF HandleOK
  <2>2. CASE x = g BY <1>2, <2>2 DEF HandleOK, NoHandle
  <2>3. CASE x # h /\ x # g
    <3>1. H2[x] = H[x] BY <1>2, <2>3
    <3>2. SUFFICES ASSUME H[x].ptr # Null
                   PROVE H[x].ptr \in HeadersIn(C2) /\ C2[H[x].ptr].handle = x
      BY <3>1 DEF HandleOK
    <3>3. H[x].ptr \in HeadersIn(C) /\ C[H[x].ptr].handle = x BY <3>2, HandleFacts
    <3>4. H[x].ptr # b BY <1>1, <2>3, <3>3
    <3>5. QED BY <1>7, <1>8, <3>3, <3>4
  <2>4. QED BY <2>1, <2>2, <2>3
<1>13. ASSUME NEW x \in HeadersIn(C2), NEW y \in HeadersIn(C2), x < y
       PROVE  EndIn(H2, C2, x) <= y
  <2>1. x \in HeadersIn(C) /\ y \in HeadersIn(C) /\ y # b BY <1>8
  <2>2. CASE x = a
    <3>1. C[a].next <= y BY <1>1, <1>13, <2>1, <2>2, Between
    <3>2. b < y BY <1>1, <1>5, <2>1, <3>1
    <3>3. EndIn(H, C, b) <= y BY <1>1, <2>1, <3>2, Between
    <3>4. QED BY <1>10, <2>2, <3>3
  <2>3. CASE x # a BY <1>9, <1>13, <2>1, <2>3, Between
  <2>4. QED BY <2>2, <2>3
<1>14. m \in HeadersIn(C2) /\ C2[m].next = Null
  <2>1. CASE n = Null BY <1>1, <1>2, <1>7, <2>1
  <2>2. CASE n # Null
    <3>1. l # b /\ l # a
      <4>1. b # Null BY <1>5, <1>1, AreaFits
      <4>2. QED BY <1>1, <1>4, <2>2, <4>1 DEF n
    <3>2. QED BY <1>4, <1>7, <1>8, <2>2, <3>1
  <2>3. QED BY <2>1, <2>2
<1>15. H2[0].ptr = 0 /\ H2[0].status = "FREE" BY <1>1, <1>2, <1>4, AreaFits DEF a
<1> HIDE DEF m
<1>16. SoundIn(H2, C2, m) BY <1>2, <1>11, <1>12, <1>13, <1>14, <1>15 DEF SoundIn
<1>17. QED BY <1>7, <1>8, <1>10, <1>16 DEF m, n, a, b

LEMMA AbsorbIs ==
    ASSUME NEW p, SoundPool(p), NEW h, NEW g, Beside(p.handles, p.chunks, h, g)
    PROVE  LET q == Absorb(p, h, g) IN
           /\ SoundPool(q) /\ q.bytes = p.bytes
           /\ Merged(p.handles, p.chunks, h, g, q.handles, q.chunks)
           /\ q.alloced = p.alloced /\ q.free = p.free + Hdr
<1> DEFINE H == p.handles
           C == p.chunks
           a == H[h].ptr
           b == H[g].ptr
           n == C[b].next
           r == [p EXCEPT !.chunks[a].next = n]
           j == Linked(r, a)
           q == Absorb(p, h, g)
<1>1. p \in PoolSet /\ SoundIn(H, C, p.last) BY DEF SoundPool
<1>2. H \in [Handles -> HandleSet] /\ C \in [Addresses -> ChunkSet] /\ p.last \in Addresses
      /\ p.free \in Int
  BY <1>1, PoolFields
<1>3. h \in Handles /\ g \in Handles BY DEF Beside
<1> HIDE DEF H, C
<1>4. /\ a \in HeadersIn(C) /\ b \in HeadersIn(C) /\ C[a].handle = h /\ C[b].handle = g
      /\ a \in Nat /\ b \in Nat /\ a < b /\ C[a].next = b /\ h # g
      /\ n # Null => n \in HeadersIn(C) /\ n \in Nat /\ b < n
  BY <1>1, Row DEF H, C
<1>5. a \in Addresses /\ b \in Addresses /\ n \in Addresses \cup {Null}
      /\ n # a /\ n # b /\ a # b
  <2>1. a \in Addresses /\ b \in Addresses BY <1>4 DEF HeadersIn
  <2>2. n \in Addresses \cup {Null} BY <1>2, <2>1, ChunkTyped
  <2>3. n = Null => n # a /\ n # b BY <1>4 DEF Null
  <2>4. QED BY <1>4, <2>1, <2>2, <2>3
<1>6. q = [j EXCEPT !.chunks[b] = NoHeader,
                    !.handles[h].size = @ + H[g].size + Hdr,
                    !.handles[g] = NoHandle,
                    !.free = @ + Hdr]
  BY DEF Absorb, H, C
<1> HIDE DEF a, b, n, q
<1>7. C[a] \in ChunkSet /\ H[h] \in HandleSet /\ H[g] \in HandleSet /\ Hdr \in Int
  BY <1>2, <1>3, <1>5, AreaFits
<1> DEFINE D == [C EXCEPT ![a] = [@ EXCEPT !.next = n]]
<1>8. r = [p EXCEPT !.chunks = D] BY DEF C
<1>9. D \in [Addresses -> ChunkSet]
  <2>1. [C[a] EXCEPT !.next = n] \in ChunkSet BY <1>5, <1>7 DEF ChunkSet
  <2>2. QED BY <1>2, <2>1
<1>10. r \in PoolSet /\ r.chunks = D /\ r.handles = H /\ r.last = p.last /\ r.bytes = p.bytes
       /\ r.free = p.free /\ r.alloced = p.alloced
  BY <1>1, <1>8, <1>9 DEF PoolSet, H
<1>11. D[a].next = n /\ D[a].guard = C[a].guard /\ D[a].prev = C[a].prev /\ D[a].handle = C[a].handle
       /\ \A x \in Addresses : x # a => D[x] = C[x]
  BY <1>2, <1>5, <1>7 DEF ChunkSet
<1> HIDE DEF D, r
<1> DEFINE E == IF n = Null THEN D ELSE [D EXCEPT ![n] = [@ EXCEPT !.prev = a]]
<1>12. /\ j \in PoolSet /\ j.handles = H /\ j.bytes = p.bytes /\ j.free = p.free
       /\ j.alloced = p.alloced /\ j.chunks = E /\ j.last = IF n = Null THEN a ELSE p.last
  BY <1>5, <1>10, <1>11, LinkedIs
<1>13. E \in [Addresses -> ChunkSet] BY <1>12, PoolFields
<1>14. /\ E[a].next = n /\ E[a].guard = C[a].guard /\ E[a].prev = C[a].prev
       /\ E[a].handle = C[a].handle
       /\ n # Null => /\ E[n].guard = C[n].guard /\ E[n].handle = C[n].handle
                      /\ E[n].next = C[n].next /\ E[n].prev = a
       /\ \A x \in Addresses : x # a /\ x # n => E[x] = C[x]
  <2>1. CASE n = Null BY <1>11, <2>1
  <2>2. CASE n # Null
    <3>1. D[n] = C[n] /\ D[n] \in ChunkSet BY <1>5, <1>9, <1>11, <2>2
    <3>2. E[n] = [D[n] EXCEPT !.prev = a] BY <1>5, <1>9, <2>2
    <3>3. /\ E[n].guard = C[n].guard /\ E[n].handle = C[n].handle
          /\ E[n].next = C[n].next /\ E[n].prev = a
      BY <3>1, <3>2 DEF ChunkSet
    <3>4. \A x \in Addresses : x # n => E[x] = D[x] BY <1>5, <1>9, <2>2
    <3>5. QED BY <1>5, <1>11, <3>3, <3>4
  <2>3. QED BY <2>1, <2>2
<1> HIDE DEF E, j
<1> DEFINE F == [E EXCEPT ![b] = NoHeader]
           k == [H[h] EXCEPT !.size = @ + H[g].size + Hdr]
           K == [[H EXCEPT ![h] = k] EXCEPT ![g] = NoHandle]
<1>15. NoHeader \in ChunkSet /\ NoHandle \in HandleSet
  BY AreaFits DEF NoHeader, NoHandle, ChunkSet, HandleSet, Sigs
<1>16. F \in [Addresses -> ChunkSet] /\ F[b] = NoHeader
       /\ \A x \in Addresses : x # b => F[x] = E[x]
  BY <1>5, <1>13, <1>15
<1>17. /\ K \in [Handles -> HandleSet] /\ K[g] = NoHandle
       /\ K[h].ptr = H[h].ptr /\ K[h].status = H[h].status
       /\ K[h].size = H[h].size + H[g].size + Hdr
       /\ \A x \in Handles : x # h /\ x # g => K[x] = H[x]
  <2>1. /\ k \in HandleSet /\ k.ptr = H[h].ptr /\ k.status = H[h].status
        /\ k.size = H[h].size + H[g].size + Hdr
    BY <1>7 DEF HandleSet
  <2> HIDE DEF k
  <2>3. QED BY <1>2, <1>3, <1>4, <1>15, <2>1
<1>18. q = [handles |-> K, chunks |-> F, last |-> j.last, alloced |-> j.alloced,
            free |-> j.free + Hdr, bytes |-> j.bytes]
  <2>1. j = [handles |-> H, chunks |-> E, last |-> j.last, alloced |-> j.alloced,
             free |-> j.free, bytes |-> j.bytes]
    BY <1>12, PoolFields
  <2> DEFINE j1 == [j EXCEPT !.chunks[b] = NoHeader]
             j2 == [j1 EXCEPT !.handles[h].size = @ + H[g].size + Hdr]
             j3 == [j2 EXCEPT !.handles[g] = NoHandle]
  <2>2. j1 = [handles |-> H, chunks |-> F, last |-> j.last, alloced |-> j.alloced,
              free |-> j.free, bytes |-> j.bytes]
    BY <2>1
  <2>3. j2 = [handles |-> [H EXCEPT ![h] = k], chunks |-> F, last |-> j.last,
              alloced |-> j.alloced, free |-> j.free, bytes |-> j.bytes]
    <3> HIDE DEF j1
    <3> QED BY <2>2
  <2>4. j3 = [handles |-> K, chunks |-> F, last |-> j.last,
              alloced |-> j.alloced, free |-> j.free, bytes |-> j.bytes]
    <3> HIDE DEF j2, k
    <3> QED BY <2>3
  <2>5. q = [j3 EXCEPT !.free = @ + Hdr] BY <1>6
  <2> HIDE DEF j3, k, K, F
  <2>6. QED BY <2>4, <2>5
<1> HIDE DEF F, K
<1>19. /\ q \in PoolSet /\ q.chunks = F /\ q.handles = K /\ q.bytes = p.bytes
       /\ q.last = IF n = Null THEN a ELSE p.last
       /\ q.alloced = p.alloced /\ q.free = p.free + Hdr
  <2>1. j.last \in Addresses /\ j.alloced \in Int /\ j.free + Hdr \in Int
        /\ j.bytes \in SUBSET (Addresses \X Handles)
    BY <1>7, <1>12, PoolFields
  <2>2. QED BY <1>12, <1>16, <1>17, <1>18, <2>1 DEF PoolSet
<1>20. Merged(H, C, h, g, K, F)
  <2>1. /\ F[a].guard = C[a].guard /\ F[a].handle = C[a].handle /\ F[a].prev = C[a].prev
        /\ F[a].next = n
    BY <1>5, <1>14, <1>16
  <2>2. n # Null => /\ F[n].guard = C[n].guard /\ F[n].handle = C[n].handle
                    /\ F[n].next = C[n].next /\ F[n].prev = a
    BY <1>5, <1>14, <1>16
  <2>3. \A x \in Addresses : x # a /\ x # b /\ x # n => F[x] = C[x] BY <1>14, <1>16
  <2>4. QED BY <1>16, <1>17, <2>1, <2>2, <2>3 DEF Merged, a, b, n
<1>21. Beside(H, C, h, g) BY DEF H, C
<1>22. SoundIn(K, F, IF n = Null THEN a ELSE p.last)
  BY <1>1, <1>20, <1>21, MergedSound DEF H, C, a, b, n
<1>23. SoundPool(q) BY <1>19, <1>22 DEF SoundPool
<1>24. QED BY <1>19, <1>20, <1>23 DEF q, H, C

\* A free chunk with a free one behind it.
FreePair(C, a) == C[a].guard = "FREE" /\ C[a].next # Null /\ C[C[a].next].guard = "FREE"
NoFreePair(C) == \A a \in HeadersIn(C) : ~FreePair(C, a)
\* The chunk of h may have one behind it, or also in front of it.
FreeBehind(C, h) == \A a \in HeadersIn(C) : FreePair(C, a) => C[a].handle = h
FreeBeside(C, h) ==
    \A a \in HeadersIn(C) : FreePair(C, a) => C[a].handle = h \/ C[C[a].next].handle = h

MovableIn(C, c) == C[c].guard = "ALOC" /\ C[c].next # Null /\ C[C[c].next].guard = "FREE"

\* Only the merged chunk has another neighbour behind it.
LEMMA MergedNext ==
    ASSUME NEW H, NEW C, NEW l, SoundIn(H, C, l), NEW h, NEW g, Beside(H, C, h, g),
           NEW H2, NEW C2, Merged(H, C, h, g, H2, C2), NEW x \in HeadersIn(C2)
    PROVE  /\ x \in HeadersIn(C) /\ C2[x].guard = C[x].guard /\ C2[x].handle = C[x].handle
           /\ x # H[h].ptr => C2[x].next = C[x].next
           /\ x = H[h].ptr => C2[x].next = C[H[g].ptr].next
           /\ C2[x].next # Null => /\ C2[x].next \in HeadersIn(C2)
                                   /\ C2[C2[x].next].guard = C[C2[x].next].guard
                                   /\ C2[C2[x].next].handle = C[C2[x].next].handle
<1> DEFINE a == H[h].ptr
           b == H[g].ptr
           n == C[b].next
           m == IF n = Null THEN a ELSE l
<1>1. /\ SoundIn(H2, C2, m) /\ HeadersIn(C2) = HeadersIn(C) \ {b}
      /\ \A y \in HeadersIn(C2) : C2[y].guard = C[y].guard /\ C2[y].handle = C[y].handle
  BY MergedSound
<1>2. /\ C2[a].next = n
      /\ n # Null => C2[n].next = C[n].next
      /\ \A y \in Addresses : y # a /\ y # b /\ y # n => C2[y] = C[y]
  BY DEF Merged
<1> HIDE DEF m
<1>3. C2[x].next # Null => C2[x].next \in HeadersIn(C2) BY <1>1, HeaderFacts
<1>4. x \in Addresses /\ x # Null BY AreaFits DEF HeadersIn
<1> HIDE DEF a, b, n
<1>5. x # a => C2[x].next = C[x].next
  <2>1. CASE x = n BY <1>2, <1>4, <2>1
  <2>2. CASE x # n BY <1>1, <1>2, <1>4, <2>2
  <2>3. QED BY <2>1, <2>2
<1>6. QED BY <1>1, <1>2, <1>3, <1>5 DEF a, b, n

LEMMA MergedMovable ==
    ASSUME NEW H, NEW C, NEW l, SoundIn(H, C, l), NEW h, NEW g, Beside(H, C, h, g),
           NEW H2, NEW C2, Merged(H, C, h, g, H2, C2), H[h].status = "FREE",
           NEW x \in HeadersIn(C2), MovableIn(C2, x)
    PROVE  MovableIn(C, x)
<1>1. C[H[h].ptr].guard = "FREE"
  <2>1. H[h].ptr \in HeadersIn(C) /\ C[H[h].ptr].handle = h BY Row
  <2>2. QED BY <2>1, HeaderFacts
<1>2. /\ C2[x].guard = C[x].guard
      /\ x # H[h].ptr => C2[x].next = C[x].next
      /\ C2[x].next # Null => C2[C2[x].next].guard = C[C2[x].next].guard
  BY MergedNext
<1>3. QED BY <1>1, <1>2 DEF MovableIn

\* After a merge with the chunk in front, only the one behind is left.
LEMMA MergedInFront ==
    ASSUME NEW H, NEW C, NEW l, SoundIn(H, C, l), NEW h, NEW g, Beside(H, C, g, h),
           NEW H2, NEW C2, Merged(H, C, g, h, H2, C2), FreeBeside(C, h),
           H[g].status = "FREE", H[h].status = "FREE"
    PROVE  FreeBehind(C2, g)
<1> DEFINE a == H[g].ptr
           b == H[h].ptr
<1>1. /\ a \in HeadersIn(C) /\ b \in HeadersIn(C) /\ C[a].handle = g /\ C[b].handle = h
      /\ C[a].next = b /\ C[b].prev = a /\ h # g
  BY Row
<1>2. SUFFICES ASSUME NEW x \in HeadersIn(C2), FreePair(C2, x) PROVE C2[x].handle = g
  BY DEF FreeBehind
<1> HIDE DEF a, b
<1>3. /\ x \in HeadersIn(C) /\ C2[x].guard = C[x].guard /\ C2[x].handle = C[x].handle
      /\ x # a => C2[x].next = C[x].next
      /\ C2[x].next # Null => /\ C2[x].next \in HeadersIn(C2)
                              /\ C2[C2[x].next].guard = C[C2[x].next].guard
      /\ HeadersIn(C2) = HeadersIn(C) \ {b}
  BY MergedNext, MergedSound DEF a, b
<1>4. SUFFICES ASSUME x # a PROVE FALSE BY <1>1, <1>3
<1>5. FreePair(C, x) BY <1>2, <1>3, <1>4 DEF FreePair
<1>6. C[x].handle = h \/ C[C[x].next].handle = h BY <1>3, <1>5 DEF FreeBeside
<1>7. PICK y : y = C[x].next OBVIOUS
<1>8. y \in HeadersIn(C) /\ y # b BY <1>2, <1>3, <1>4, <1>7 DEF FreePair
<1>9. x # b BY <1>3
<1>10. QED BY <1>1, <1>3, <1>6, <1>7, <1>8, <1>9, OneHandle

\* After one with the chunk behind, none.
LEMMA MergedBehind ==
    ASSUME NEW H, NEW C, NEW l, SoundIn(H, C, l), NEW h, NEW g, Beside(H, C, h, g),
           NEW H2, NEW C2, Merged(H, C, h, g, H2, C2), FreeBehind(C, h),
           H[g].status = "FREE", H[h].status = "FREE"
    PROVE  NoFreePair(C2)
<1> DEFINE a == H[h].ptr
           b == H[g].ptr
<1>1. /\ a \in HeadersIn(C) /\ b \in HeadersIn(C) /\ C[a].handle = h /\ C[b].handle = g
      /\ C[a].next = b /\ C[b].prev = a /\ h # g
  BY Row
<1>2. SUFFICES ASSUME NEW x \in HeadersIn(C2), FreePair(C2, x) PROVE FALSE
  BY DEF NoFreePair
<1>02. C[b].guard = "FREE" BY <1>1, HeaderFacts
<1> HIDE DEF a, b
<1>3. /\ x \in HeadersIn(C) /\ C2[x].guard = C[x].guard /\ C2[x].handle = C[x].handle
      /\ x # a => C2[x].next = C[x].next
      /\ x = a => C2[x].next = C[b].next
      /\ C2[x].next # Null => /\ C2[x].next \in HeadersIn(C2)
                              /\ C2[C2[x].next].guard = C[C2[x].next].guard
  BY MergedNext DEF a, b
<1>4. CASE x = a
  <2>1. FreePair(C, b) BY <1>02, <1>2, <1>3, <1>4 DEF FreePair
  <2>2. QED BY <1>1, <2>1 DEF FreeBehind
<1>5. CASE x # a
  <2>1. FreePair(C, x) BY <1>2, <1>3, <1>5 DEF FreePair
  <2>2. C[x].handle = h BY <1>3, <2>1 DEF FreeBehind
  <2>3. QED BY <1>1, <1>3, <1>5, <2>2, OneHandle
<1>6. QED BY <1>4, <1>5

-----------------------------------------------------------------------------
(* Sums of sizes *)

LEMMA LeastOf ==
    ASSUME NEW T, T \subseteq Nat, T # {}
    PROVE  \E k \in T : \A m \in T : k <= m
<1> DEFINE R == OpToRel(<, Nat)
<1>1. IsWellFoundedOn(R, Nat) BY NatLessThanWellFounded
<1>2. \A x, y \in Nat : <<x, y>> \in R <=> x < y BY DEF OpToRel
<1> HIDE DEF R
<1>3. PICK n \in T : \A m \in T : ~(<<m, n>> \in R) BY <1>1, WFMin
<1>4. \A m \in T : ~(m < n) BY <1>2, <1>3
<1>5. \A m \in T : n <= m BY <1>4
<1>6. QED BY <1>5

Some(s) == CHOOSE x \in s : TRUE

\* One element after the other, as MapThenSumSet takes them.
SumBody(H, S, it) ==
    [s \in SUBSET S |-> IF s = {} THEN 0 ELSE H[Some(s)].size + it[s \ {Some(s)}]]
Iter(H, S) == CHOOSE it : it = SumBody(H, S, it)
SumOf(H, S) == Iter(H, S)[S]

Sized(H, S) == IsFiniteSet(S) /\ \A h \in S : H[h].size \in Int

LEMMA SumIs ==
    ASSUME NEW H, NEW S
    PROVE  LET SizeOf(h) == H[h].size IN MapThenSumSet(SizeOf, S) = SumOf(H, S)
  BY DEF MapThenSumSet, MapThenFoldSet, SumOf, Iter, SumBody, Some

LEMMA SomeIs == ASSUME NEW s, s # {} PROVE Some(s) \in s
  BY DEF Some

\* Among subsets of a finite set there is one from which none is left by taking
\* an element away.
LEMMA Smallest ==
    ASSUME NEW S, IsFiniteSet(S), NEW B, B \subseteq SUBSET S, B # {}
    PROVE  \E s \in B : \A x \in s : s \ {x} \notin B
<1> DEFINE T == {Cardinality(s) : s \in B}
<1>1. \A s \in B : IsFiniteSet(s) /\ Cardinality(s) \in Nat BY FS_Subset, FS_CardinalityType
<1>2. T \subseteq Nat /\ T # {} BY <1>1
<1>3. PICK k \in T : \A m \in T : k <= m
  <2> HIDE DEF T
  <2>1. QED BY <1>2, LeastOf
<1>4. PICK s \in B : k = Cardinality(s) BY <1>3
<1>5. ASSUME NEW x \in s, s \ {x} \in B PROVE FALSE
  <2>1. Cardinality(s \ {x}) = k - 1 BY <1>1, <1>4, FS_RemoveElement
  <2>2. k - 1 \in T /\ k \in Nat BY <1>2, <1>3, <1>5, <2>1
  <2>3. QED BY <1>3, <2>2
<1>6. QED BY <1>4, <1>5

LEMMA IterIs ==
    ASSUME NEW H, NEW S, Sized(H, S)
    PROVE  \A s \in SUBSET S :
              Iter(H, S)[s] = IF s = {} THEN 0 ELSE H[Some(s)].size + Iter(H, S)[s \ {Some(s)}]
<1> DEFINE Next(it, s) == IF s = {} THEN 0 ELSE H[Some(s)].size + it[s \ {Some(s)}]
           Good(n) == \E it : \A s \in SUBSET S : Cardinality(s) <= n => it[s] = Next(it, s)
           Bad == {n \in Nat : ~Good(n)}
<1>1. IsFiniteSet(S) BY DEF Sized
<1>2. ASSUME NEW s \in SUBSET S
      PROVE  /\ IsFiniteSet(s) /\ Cardinality(s) \in Nat /\ (Cardinality(s) = 0 <=> s = {})
             /\ s # {} => /\ Some(s) \in s /\ s \ {Some(s)} \in SUBSET S
                          /\ Cardinality(s \ {Some(s)}) = Cardinality(s) - 1
  <2>1. IsFiniteSet(s) BY <1>1, FS_Subset
  <2>2. Cardinality(s) \in Nat /\ (Cardinality(s) = 0 <=> s = {})
    BY <2>1, FS_CardinalityType, FS_EmptySet
  <2>3. s # {} => Some(s) \in s BY SomeIs
  <2>4. s # {} => Cardinality(s \ {Some(s)}) = Cardinality(s) - 1 BY <2>1, <2>3, FS_RemoveElement
  <2>5. QED BY <2>1, <2>2, <2>3, <2>4
<1>3. Good(0)
  <2> DEFINE it == [s \in SUBSET S |-> 0]
  <2>1. ASSUME NEW s \in SUBSET S, Cardinality(s) <= 0 PROVE it[s] = Next(it, s)
    <3>1. PICK n : n = Cardinality(s) OBVIOUS
    <3>2. n \in Nat /\ n <= 0 /\ (n = 0 <=> s = {}) BY <1>2, <2>1, <3>1
    <3>3. n = 0 BY <3>2
    <3>4. QED BY <3>2, <3>3
  <2> HIDE DEF it, Next
  <2>2. QED BY <2>1
<1>4. ASSUME NEW n \in Nat, Good(n) PROVE Good(n + 1)
  <2>1. PICK it : \A s \in SUBSET S : Cardinality(s) <= n => it[s] = Next(it, s) BY <1>4
  <2> DEFINE jt == [s \in SUBSET S |-> Next(it, s)]
  <2>2. ASSUME NEW s \in SUBSET S, Cardinality(s) <= n + 1 PROVE jt[s] = Next(jt, s)
    <3>1. CASE s = {} BY <3>1
    <3>2. CASE s # {}
      <4>1. PICK t : t = s \ {Some(s)} OBVIOUS
      <4>2. t \in SUBSET S /\ Cardinality(t) <= n BY <1>2, <2>2, <3>2, <4>1
      <4>3. it[t] = Next(it, t) BY <2>1, <4>2
      <4>4. jt[t] = it[t]
        <5>1. jt[t] = Next(it, t)
          <6> HIDE DEF Next
          <6>1. QED BY <4>2
        <5>2. QED BY <4>3, <5>1
      <4>5. jt[s] = H[Some(s)].size + it[t] BY <3>2, <4>1
      <4> HIDE DEF jt
      <4>6. QED BY <3>2, <4>1, <4>4, <4>5
    <3>3. QED BY <3>1, <3>2
  <2> HIDE DEF jt, Next
  <2>3. QED BY <2>2
<1>5. \A n \in Nat : Good(n)
  <2>1. SUFFICES ASSUME Bad # {} PROVE FALSE
    <3> HIDE DEF Good
    <3>1. QED OBVIOUS
  <2>2. PICK k \in Bad : \A m \in Bad : k <= m
    <3>1. Bad \subseteq Nat OBVIOUS
    <3> HIDE DEF Bad
    <3>2. QED BY <2>1, <3>1, LeastOf
  <2> HIDE DEF Good
  <2>3. k \in Nat /\ ~Good(k) OBVIOUS
  <2>4. k # 0 BY <1>3, <2>3
  <2>5. k - 1 \in Nat /\ k - 1 + 1 = k BY <2>3, <2>4
  <2>6. ~(k - 1 \in Bad)
    <3> HIDE DEF Bad
    <3>1. QED BY <2>2, <2>5
  <2>7. Good(k - 1) BY <2>5, <2>6
  <2>8. Good(k - 1 + 1) BY <1>4, <2>5, <2>7
  <2>9. QED BY <2>3, <2>5, <2>8
<1>6. PICK it : \A s \in SUBSET S : it[s] = Next(it, s)
  <2>1. S \in SUBSET S OBVIOUS
  <2>2. PICK n : n = Cardinality(S) OBVIOUS
  <2>3. n \in Nat BY <1>2, <2>1, <2>2
  <2>4. PICK it : \A s \in SUBSET S : Cardinality(s) <= n => it[s] = Next(it, s) BY <1>5, <2>3
  <2>5. \A s \in SUBSET S : Cardinality(s) <= n BY <1>1, <2>2, FS_Subset
  <2> HIDE DEF Next
  <2>6. QED BY <2>4, <2>5
<1> DEFINE jt == [s \in SUBSET S |-> it[s]]
<1>7. jt = SumBody(H, S, jt)
  <2>1. ASSUME NEW s \in SUBSET S
        PROVE  it[s] = IF s = {} THEN 0 ELSE H[Some(s)].size + jt[s \ {Some(s)}]
    <3>1. s \ {Some(s)} \in SUBSET S OBVIOUS
    <3>2. QED BY <1>6, <3>1
  <2> HIDE DEF jt, Next
  <2>2. SumBody(H, S, jt) = [s \in SUBSET S |-> it[s]] BY <2>1 DEF SumBody
  <2>3. QED BY <2>2 DEF jt
<1>8. Iter(H, S) = SumBody(H, S, Iter(H, S))
  <2> HIDE DEF jt
  <2>1. QED BY <1>7 DEF Iter
<1>9. PICK kt : kt = Iter(H, S) OBVIOUS
<1>10. kt = SumBody(H, S, kt) BY <1>8, <1>9
<1>11. \A s \in SUBSET S : SumBody(H, S, kt)[s] = Next(kt, s) BY DEF SumBody
<1>12. QED BY <1>9, <1>10, <1>11

LEMMA IterInt ==
    ASSUME NEW H, NEW S, Sized(H, S)
    PROVE  \A s \in SUBSET S : Iter(H, S)[s] \in Int
<1> DEFINE B == {s \in SUBSET S : Iter(H, S)[s] \notin Int}
<1>1. SUFFICES ASSUME B # {} PROVE FALSE OBVIOUS
<1>2. PICK s \in B : \A x \in s : s \ {x} \notin B
  <2>1. B \subseteq SUBSET S /\ IsFiniteSet(S) BY DEF Sized
  <2> HIDE DEF B
  <2>2. QED BY <1>1, <2>1, Smallest
<1>3. s \in SUBSET S /\ Iter(H, S)[s] \notin Int OBVIOUS
<1>4. Iter(H, S)[s] = IF s = {} THEN 0 ELSE H[Some(s)].size + Iter(H, S)[s \ {Some(s)}]
  BY <1>3, IterIs
<1>5. s # {} BY <1>3, <1>4
<1>6. Some(s) \in s BY <1>5, SomeIs
<1>7. s \ {Some(s)} \in SUBSET S /\ s \ {Some(s)} \notin B
  <2>1. s \ {Some(s)} \notin B
    <3> HIDE DEF B
    <3>1. QED BY <1>2, <1>6
  <2>2. QED BY <1>3, <2>1
<1>8. Iter(H, S)[s \ {Some(s)}] \in Int BY <1>7
<1>9. H[Some(s)].size \in Int BY <1>3, <1>6 DEF Sized
<1>10. QED BY <1>3, <1>4, <1>5, <1>8, <1>9

\* The order does not matter.
LEMMA IterTakes ==
    ASSUME NEW H, NEW S, Sized(H, S), NEW s \in SUBSET S, NEW x \in s
    PROVE  Iter(H, S)[s] = H[x].size + Iter(H, S)[s \ {x}]
<1> DEFINE B == {t \in SUBSET S : \E y \in t : Iter(H, S)[t] # H[y].size + Iter(H, S)[t \ {y}]}
<1>1. SUFFICES ASSUME B # {} PROVE FALSE OBVIOUS
<1>2. PICK t \in B : \A y \in t : t \ {y} \notin B
  <2>1. B \subseteq SUBSET S /\ IsFiniteSet(S) BY DEF Sized
  <2> HIDE DEF B
  <2>2. QED BY <1>1, <2>1, Smallest
<1>3. t \in SUBSET S OBVIOUS
<1>4. PICK y \in t : Iter(H, S)[t] # H[y].size + Iter(H, S)[t \ {y}] OBVIOUS
<1>5. PICK c : c = Some(t) OBVIOUS
<1>6. c \in t BY <1>4, <1>5, SomeIs
<1>7. PICK it : it = Iter(H, S) OBVIOUS
<1>8. it[t] = H[c].size + it[t \ {c}] BY <1>3, <1>4, <1>5, <1>7, IterIs
<1>9. y # c BY <1>4, <1>7, <1>8
<1>10. \A u \in SUBSET S : u \notin B => \A z \in u : it[u] = H[z].size + it[u \ {z}] BY <1>7
<1>11. t \ {c} \notin B /\ t \ {y} \notin B
  <2> HIDE DEF B
  <2>1. QED BY <1>2, <1>4, <1>6
<1>12. it[t \ {c}] = H[y].size + it[(t \ {c}) \ {y}]
  <2>1. t \ {c} \in SUBSET S /\ y \in t \ {c} BY <1>3, <1>4, <1>9
  <2> HIDE DEF B
  <2>2. QED BY <1>10, <1>11, <2>1
<1>13. it[t \ {y}] = H[c].size + it[(t \ {y}) \ {c}]
  <2>1. t \ {y} \in SUBSET S /\ c \in t \ {y} BY <1>3, <1>6, <1>9
  <2> HIDE DEF B
  <2>2. QED BY <1>10, <1>11, <2>1
<1>14. (t \ {c}) \ {y} = (t \ {y}) \ {c} OBVIOUS
<1>15. PICK k : k = it[(t \ {y}) \ {c}] OBVIOUS
<1>16. k \in Int /\ H[c].size \in Int /\ H[y].size \in Int
  <2>1. (t \ {y}) \ {c} \in SUBSET S BY <1>3
  <2>2. k \in Int BY <1>7, <1>15, <2>1, IterInt
  <2>3. H[c].size \in Int /\ H[y].size \in Int BY <1>3, <1>4, <1>6 DEF Sized
  <2>4. QED BY <2>2, <2>3
<1>17. it[t] = H[y].size + it[t \ {y}]
  <2>1. PICK a, b, e, f : a = H[c].size /\ b = H[y].size /\ e = it[t \ {c}] /\ f = it[t \ {y}]
    OBVIOUS
  <2>2. e = b + k BY <1>12, <1>14, <1>15, <2>1
  <2>3. f = a + k BY <1>13, <1>15, <2>1
  <2>4. it[t] = a + e BY <1>8, <2>1
  <2>5. a + (b + k) = b + (a + k) BY <1>16, <2>1
  <2>6. QED BY <2>1, <2>2, <2>3, <2>4, <2>5
<1>18. QED BY <1>4, <1>7, <1>17

\* Neither does what lies outside of the set.
LEMMA IterSame ==
    ASSUME NEW H, NEW S, Sized(H, S), NEW K, NEW T, Sized(K, T), T \subseteq S,
           \A x \in T : K[x].size = H[x].size
    PROVE  \A s \in SUBSET T : Iter(K, T)[s] = Iter(H, S)[s]
<1> DEFINE B == {s \in SUBSET T : Iter(K, T)[s] # Iter(H, S)[s]}
<1>1. SUFFICES ASSUME B # {} PROVE FALSE OBVIOUS
<1>2. PICK s \in B : \A x \in s : s \ {x} \notin B
  <2>1. B \subseteq SUBSET T /\ IsFiniteSet(T) BY DEF Sized
  <2> HIDE DEF B
  <2>2. QED BY <1>1, <2>1, Smallest
<1>3. s \in SUBSET T /\ s \in SUBSET S /\ Iter(K, T)[s] # Iter(H, S)[s] OBVIOUS
<1>03. s \in SUBSET T /\ s \in SUBSET S BY <1>3
<1> HIDE DEF B
<1>4. Iter(H, S)[s] = IF s = {} THEN 0 ELSE H[Some(s)].size + Iter(H, S)[s \ {Some(s)}]
  BY <1>03, IterIs
<1>5. Iter(K, T)[s] = IF s = {} THEN 0 ELSE K[Some(s)].size + Iter(K, T)[s \ {Some(s)}]
  BY <1>03, IterIs
<1>6. s # {} BY <1>3, <1>4, <1>5
<1>7. Some(s) \in s BY <1>6, SomeIs
<1>8. s \ {Some(s)} \in SUBSET T /\ s \ {Some(s)} \notin B
  <2>1. s \ {Some(s)} \notin B
    <3>1. QED BY <1>2, <1>7
  <2>2. QED BY <1>3, <2>1
<1>9. Iter(K, T)[s \ {Some(s)}] = Iter(H, S)[s \ {Some(s)}] BY <1>8 DEF B
<1>10. K[Some(s)].size = H[Some(s)].size BY <1>3, <1>7
<1>11. QED BY <1>3, <1>4, <1>5, <1>6, <1>9, <1>10

LEMMA SumInt ==
    ASSUME NEW H, NEW S, Sized(H, S)
    PROVE  SumOf(H, S) \in Int
  BY IterInt DEF SumOf

LEMMA SumNone ==
    ASSUME NEW H
    PROVE  SumOf(H, {}) = 0
<1>1. Sized(H, {}) BY FS_EmptySet DEF Sized
<1>2. QED BY <1>1, IterIs DEF SumOf

LEMMA SumSame ==
    ASSUME NEW H, NEW K, NEW S, Sized(H, S), \A x \in S : K[x].size = H[x].size
    PROVE  Sized(K, S) /\ SumOf(K, S) = SumOf(H, S)
<1>1. Sized(K, S) BY DEF Sized
<1>2. \A s \in SUBSET S : Iter(K, S)[s] = Iter(H, S)[s] BY <1>1, IterSame
<1>3. QED BY <1>1, <1>2 DEF SumOf

LEMMA SumLess ==
    ASSUME NEW H, NEW S, Sized(H, S), NEW x \in S
    PROVE  Sized(H, S \ {x}) /\ SumOf(H, S) = H[x].size + SumOf(H, S \ {x})
<1>1. Sized(H, S \ {x})
  <2>1. IsFiniteSet(S) BY DEF Sized
  <2>2. IsFiniteSet(S \ {x}) BY <2>1, FS_Subset
  <2>3. QED BY <2>2 DEF Sized
<1>2. Iter(H, S)[S] = H[x].size + Iter(H, S)[S \ {x}] BY IterTakes
<1>3. Iter(H, S \ {x})[S \ {x}] = Iter(H, S)[S \ {x}]
  <2>1. PICK T : T = S \ {x} OBVIOUS
  <2>2. Sized(H, T) /\ T \subseteq S BY <1>1, <2>1
  <2>3. \A s \in SUBSET T : Iter(H, T)[s] = Iter(H, S)[s] BY <2>2, IterSame
  <2>4. QED BY <2>1, <2>3
<1>4. QED BY <1>1, <1>2, <1>3 DEF SumOf

LEMMA SumMore ==
    ASSUME NEW H, NEW S, Sized(H, S), NEW x, x \notin S, H[x].size \in Int
    PROVE  Sized(H, S \cup {x}) /\ SumOf(H, S \cup {x}) = H[x].size + SumOf(H, S)
<1>1. PICK T : T = S \cup {x} OBVIOUS
<1>2. Sized(H, T)
  <2>1. IsFiniteSet(S) BY DEF Sized
  <2>2. IsFiniteSet(T) BY <1>1, <2>1, FS_AddElement
  <2>3. QED BY <1>1, <2>2 DEF Sized
<1>3. x \in T /\ T \ {x} = S BY <1>1
<1>4. SumOf(H, T) = H[x].size + SumOf(H, T \ {x}) BY <1>2, <1>3, SumLess
<1>5. QED BY <1>1, <1>2, <1>3, <1>4

LEMMA SumNat ==
    ASSUME NEW H, NEW S, IsFiniteSet(S), \A h \in S : H[h].size \in Nat
    PROVE  SumOf(H, S) \in Nat
<1>1. Sized(H, S) BY DEF Sized
<1> DEFINE B == {s \in SUBSET S : Iter(H, S)[s] \notin Nat}
<1>2. SUFFICES ASSUME B # {} PROVE FALSE BY DEF SumOf
<1>3. PICK s \in B : \A x \in s : s \ {x} \notin B
  <2>1. B \subseteq SUBSET S OBVIOUS
  <2> HIDE DEF B
  <2>2. QED BY <1>2, <2>1, Smallest
<1>4. s \in SUBSET S /\ Iter(H, S)[s] \notin Nat OBVIOUS
<1>5. Iter(H, S)[s] = IF s = {} THEN 0 ELSE H[Some(s)].size + Iter(H, S)[s \ {Some(s)}]
  BY <1>1, <1>4, IterIs
<1>6. s # {} BY <1>4, <1>5
<1>7. Some(s) \in s BY <1>6, SomeIs
<1>8. s \ {Some(s)} \in SUBSET S /\ s \ {Some(s)} \notin B
  <2>1. s \ {Some(s)} \notin B
    <3> HIDE DEF B
    <3>1. QED BY <1>3, <1>7
  <2>2. QED BY <1>4, <2>1
<1>9. Iter(H, S)[s \ {Some(s)}] \in Nat BY <1>8
<1>10. H[Some(s)].size \in Nat BY <1>4, <1>7
<1>11. QED BY <1>4, <1>5, <1>6, <1>9, <1>10

LEMMA SumsJoined ==
    ASSUME NEW H, NEW S, Sized(H, S), NEW h \in S, NEW g \in S, h # g, NEW d \in Int, NEW K,
           K[h].size = H[h].size + H[g].size + d,
           \A x \in S : x # h /\ x # g => K[x].size = H[x].size
    PROVE  SumOf(K, S \ {g}) = SumOf(H, S) + d
<1>1. PICK T : T = S \ {g} OBVIOUS
<1>2. PICK U : U = T \ {h} OBVIOUS
<1>3. Sized(H, T) /\ SumOf(H, S) = H[g].size + SumOf(H, T) BY <1>1, SumLess
<1>4. h \in T BY <1>1
<1>5. Sized(H, U) /\ SumOf(H, T) = H[h].size + SumOf(H, U) BY <1>2, <1>3, <1>4, SumLess
<1>6. \A x \in U : K[x].size = H[x].size BY <1>1, <1>2
<1>7. Sized(K, U) /\ SumOf(K, U) = SumOf(H, U) BY <1>5, <1>6, SumSame
<1>8. H[h].size \in Int /\ H[g].size \in Int BY DEF Sized
<1>9. K[h].size \in Int BY <1>8
<1>10. h \notin U /\ U \cup {h} = T BY <1>1, <1>2
<1>11. SumOf(K, T) = K[h].size + SumOf(K, U) BY <1>7, <1>9, <1>10, SumMore
<1>12. PICK k : k = SumOf(H, U) OBVIOUS
<1>13. k \in Int BY <1>5, <1>12, SumInt
<1>14. PICK a, b : a = H[h].size /\ b = H[g].size OBVIOUS
<1>15. SumOf(K, T) = a + b + d + k BY <1>7, <1>11, <1>12, <1>14
<1>16. SumOf(H, S) = b + (a + k) BY <1>3, <1>5, <1>12, <1>14
<1>17. a + b + d + k = b + (a + k) + d BY <1>8, <1>13, <1>14
<1>18. QED BY <1>1, <1>15, <1>16, <1>17

LEMMA SumsCut ==
    ASSUME NEW H, NEW S, Sized(H, S), NEW f \in S, NEW d \in Int, NEW K,
           K[f].size = H[f].size - d, \A x \in S : x # f => K[x].size = H[x].size
    PROVE  SumOf(K, S) = SumOf(H, S) - d
<1>1. PICK U : U = S \ {f} OBVIOUS
<1>2. Sized(H, U) /\ SumOf(H, S) = H[f].size + SumOf(H, U) BY <1>1, SumLess
<1>3. \A x \in U : K[x].size = H[x].size BY <1>1
<1>4. Sized(K, U) /\ SumOf(K, U) = SumOf(H, U) BY <1>2, <1>3, SumSame
<1>5. H[f].size \in Int BY DEF Sized
<1>6. K[f].size \in Int BY <1>5
<1>7. f \notin U /\ U \cup {f} = S BY <1>1
<1>8. SumOf(K, S) = K[f].size + SumOf(K, U) BY <1>4, <1>6, <1>7, SumMore
<1>9. PICK k, a : k = SumOf(H, U) /\ a = H[f].size OBVIOUS
<1>10. k \in Int BY <1>2, <1>9, SumInt
<1>11. PICK t : t = SumOf(H, S) OBVIOUS
<1>12. t = a + k BY <1>2, <1>9, <1>11
<1>13. K[f].size = a - d BY <1>9
<1>14. SumOf(K, S) = (a - d) + k BY <1>4, <1>8, <1>9, <1>13
<1>15. a \in Int /\ k \in Int /\ d \in Int BY <1>5, <1>9, <1>10
<1>16. PICK v : v = SumOf(K, S) OBVIOUS
<1>17. v = a - d + k BY <1>14, <1>16
<1>18. v = t - d BY <1>12, <1>15, <1>17
<1>19. QED BY <1>11, <1>16, <1>18

-----------------------------------------------------------------------------
(* The accounts of a pool *)

\* The two accounts, the bytes that are headers, and nothing in an unused handle.
Accounted(p) ==
    /\ p.free = SumOf(p.handles, Free(p)) /\ p.alloced = SumOf(p.handles, Held(p))
    /\ p.free + p.alloced + Hdr * Cardinality(Used(p)) = Area
    /\ \A h \in Handles \ Used(p) : p.handles[h].size = 0

LEMMA AccountSets ==
    ASSUME NEW p, SoundPool(p)
    PROVE  /\ Sized(p.handles, Free(p)) /\ Sized(p.handles, Held(p))
           /\ IsFiniteSet(Used(p)) /\ Cardinality(Used(p)) \in Nat
           /\ Free(p) \subseteq Handles /\ Held(p) \subseteq Handles /\ Used(p) \subseteq Handles
           /\ p.free \in Int /\ p.alloced \in Int
<1>1. IsFiniteSet(Handles)
  <2>1. 0 \in Int /\ 2 * Chunks - 1 \in Int BY PoolAssumption
  <2>2. QED BY <2>1, FS_Interval DEF Handles
<1>2. Free(p) \subseteq Handles /\ Held(p) \subseteq Handles /\ Used(p) \subseteq Handles
  BY DEF Free, Held, Used
<1>3. IsFiniteSet(Free(p)) /\ IsFiniteSet(Held(p)) /\ IsFiniteSet(Used(p))
  BY <1>1, <1>2, FS_Subset
<1>4. Cardinality(Used(p)) \in Nat BY <1>3, FS_CardinalityType
<1>5. \A h \in Handles : p.handles[h].size \in Int
  <2>1. p.handles \in [Handles -> HandleSet] BY DEF SoundPool, SoundIn
  <2>2. QED BY <2>1, HandleTyped
<1>6. p.free \in Int /\ p.alloced \in Int BY PoolFields DEF SoundPool
<1>7. QED BY <1>2, <1>3, <1>4, <1>5, <1>6 DEF Sized

\* Nothing the accounts are about has changed.
LEMMA AccountsSame ==
    ASSUME NEW p, SoundPool(p), Accounted(p), NEW q, Free(q) = Free(p), Held(q) = Held(p),
           \A x \in Handles : q.handles[x].size = p.handles[x].size,
           q.free = p.free, q.alloced = p.alloced
    PROVE  Accounted(q)
<1>1. PICK H, K : H = p.handles /\ K = q.handles OBVIOUS
<1>2. PICK F, L : F = Free(p) /\ L = Held(p) OBVIOUS
<1>3. Sized(H, F) /\ Sized(H, L) /\ F \subseteq Handles /\ L \subseteq Handles
  BY <1>1, <1>2, AccountSets
<1>4. Used(q) = Used(p)
  <2>1. \A r : Used(r) = Free(r) \cup Held(r) BY DEF Free, Held
  <2>2. QED BY <2>1
<1>5. SumOf(K, F) = SumOf(H, F)
  <2>1. \A x \in F : K[x].size = H[x].size BY <1>1, <1>3
  <2>2. QED BY <1>3, <2>1, SumSame
<1>6. SumOf(K, L) = SumOf(H, L)
  <2>1. \A x \in L : K[x].size = H[x].size BY <1>1, <1>3
  <2>2. QED BY <1>3, <2>1, SumSame
<1>7. QED BY <1>1, <1>2, <1>4, <1>5, <1>6 DEF Accounted

\* A chunk goes from one account to the other.
LEMMA AccountsTaken ==
    ASSUME NEW p, SoundPool(p), Accounted(p), NEW h \in Free(p), NEW q,
           Free(q) = Free(p) \ {h}, Held(q) = Held(p) \cup {h},
           \A x \in Handles : q.handles[x].size = p.handles[x].size,
           q.free = p.free - p.handles[h].size, q.alloced = p.alloced + p.handles[h].size
    PROVE  Accounted(q)
<1>1. PICK H, K : H = p.handles /\ K = q.handles OBVIOUS
<1>2. PICK F, L : F = Free(p) /\ L = Held(p) OBVIOUS
<1>3. PICK z : z = H[h].size OBVIOUS
<1>4. /\ Sized(H, F) /\ Sized(H, L) /\ F \subseteq Handles /\ L \subseteq Handles
      /\ p.free \in Int /\ p.alloced \in Int
  BY <1>1, <1>2, AccountSets
<1>5. h \in F /\ h \notin L /\ z \in Int BY <1>2, <1>3, <1>4 DEF Held, Sized
<1>6. Used(q) = Used(p)
  <2>1. \A r : Used(r) = Free(r) \cup Held(r) BY DEF Free, Held
  <2>2. (F \ {h}) \cup (L \cup {h}) = F \cup L BY <1>5
  <2>3. QED BY <1>2, <2>1, <2>2
<1>7. Sized(H, F \ {h}) /\ SumOf(H, F) = z + SumOf(H, F \ {h}) BY <1>3, <1>4, <1>5, SumLess
<1>8. Sized(H, L \cup {h}) /\ SumOf(H, L \cup {h}) = z + SumOf(H, L)
  BY <1>3, <1>4, <1>5, SumMore
<1>9. SumOf(K, F \ {h}) = SumOf(H, F \ {h})
  <2>1. \A x \in F \ {h} : K[x].size = H[x].size BY <1>1, <1>4
  <2>2. QED BY <1>7, <2>1, SumSame
<1>10. SumOf(K, L \cup {h}) = SumOf(H, L \cup {h})
  <2>1. \A x \in L \cup {h} : K[x].size = H[x].size BY <1>1, <1>4, <1>5
  <2>2. Sized(H, L \cup {h}) BY <1>8
  <2>3. QED BY <2>1, <2>2, SumSame, SMTT(30)
<1>11. p.free = SumOf(H, F) /\ p.alloced = SumOf(H, L) BY <1>1, <1>2 DEF Accounted
<1>12. q.free = p.free - z /\ q.alloced = p.alloced + z BY <1>1, <1>3
<1>13. q.free = SumOf(K, F \ {h})
  <2>1. SumOf(H, F \ {h}) \in Int BY <1>7, SumInt
  <2>2. QED BY <1>5, <1>7, <1>9, <1>11, <1>12, <2>1
<1>14. q.alloced = SumOf(K, L \cup {h}) BY <1>4, <1>5, <1>8, <1>10, <1>11, <1>12
<1>15. q.free + q.alloced = p.free + p.alloced BY <1>4, <1>5, <1>12
<1>16. q.free + q.alloced + Hdr * Cardinality(Used(q)) = Area BY <1>6, <1>15 DEF Accounted
<1>17. \A x \in Handles \ Used(q) : q.handles[x].size = 0 BY <1>6 DEF Accounted
<1>18. QED BY <1>1, <1>2, <1>13, <1>14, <1>16, <1>17 DEF Accounted

\* And back.
LEMMA AccountsFreed ==
    ASSUME NEW p, SoundPool(p), Accounted(p), NEW h \in Held(p), NEW q,
           Free(q) = Free(p) \cup {h}, Held(q) = Held(p) \ {h},
           \A x \in Handles : q.handles[x].size = p.handles[x].size,
           q.free = p.free + p.handles[h].size, q.alloced = p.alloced - p.handles[h].size
    PROVE  Accounted(q)
<1>1. PICK H, K : H = p.handles /\ K = q.handles OBVIOUS
<1>2. PICK F, L : F = Free(p) /\ L = Held(p) OBVIOUS
<1>3. PICK z : z = H[h].size OBVIOUS
<1>4. /\ Sized(H, F) /\ Sized(H, L) /\ F \subseteq Handles /\ L \subseteq Handles
      /\ p.free \in Int /\ p.alloced \in Int
  BY <1>1, <1>2, AccountSets
<1>5. h \in L /\ h \notin F /\ z \in Int BY <1>2, <1>3, <1>4 DEF Held, Sized
<1>6. Used(q) = Used(p)
  <2>1. \A r : Used(r) = Free(r) \cup Held(r) BY DEF Free, Held
  <2>2. (F \cup {h}) \cup (L \ {h}) = F \cup L BY <1>5
  <2>3. QED BY <1>2, <2>1, <2>2
<1>7. Sized(H, L \ {h}) /\ SumOf(H, L) = z + SumOf(H, L \ {h}) BY <1>3, <1>4, <1>5, SumLess
<1>8. Sized(H, F \cup {h}) /\ SumOf(H, F \cup {h}) = z + SumOf(H, F)
  BY <1>3, <1>4, <1>5, SumMore
<1>9. SumOf(K, L \ {h}) = SumOf(H, L \ {h})
  <2>1. \A x \in L \ {h} : K[x].size = H[x].size BY <1>1, <1>4
  <2>2. QED BY <1>7, <2>1, SumSame
<1>10. SumOf(K, F \cup {h}) = SumOf(H, F \cup {h})
  <2>1. \A x \in F \cup {h} : K[x].size = H[x].size BY <1>1, <1>4, <1>5
  <2>2. QED BY <1>8, <2>1, SumSame
<1>11. p.free = SumOf(H, F) /\ p.alloced = SumOf(H, L) BY <1>1, <1>2 DEF Accounted
<1>12. q.free = p.free + z /\ q.alloced = p.alloced - z BY <1>1, <1>3
<1>13. q.alloced = SumOf(K, L \ {h})
  <2>1. SumOf(H, L \ {h}) \in Int BY <1>7, SumInt
  <2>2. QED BY <1>5, <1>7, <1>9, <1>11, <1>12, <2>1
<1>14. q.free = SumOf(K, F \cup {h}) BY <1>4, <1>5, <1>8, <1>10, <1>11, <1>12
<1>15. q.free + q.alloced = p.free + p.alloced BY <1>4, <1>5, <1>12
<1>16. q.free + q.alloced + Hdr * Cardinality(Used(q)) = Area BY <1>6, <1>15 DEF Accounted
<1>17. \A x \in Handles \ Used(q) : q.handles[x].size = 0 BY <1>6 DEF Accounted
<1>18. QED BY <1>1, <1>2, <1>13, <1>14, <1>16, <1>17 DEF Accounted

\* Two free chunks are one: their bytes and the header in between.
LEMMA AccountsJoined ==
    ASSUME NEW p, SoundPool(p), Accounted(p), NEW h \in Free(p), NEW g \in Free(p), h # g, NEW q,
           Free(q) = Free(p) \ {g}, Held(q) = Held(p),
           q.handles[h].size = p.handles[h].size + p.handles[g].size + Hdr,
           q.handles[g].size = 0,
           \A x \in Handles : x # h /\ x # g => q.handles[x].size = p.handles[x].size,
           q.free = p.free + Hdr, q.alloced = p.alloced
    PROVE  Accounted(q)
<1>1. PICK H, K : H = p.handles /\ K = q.handles OBVIOUS
<1>2. PICK F, L, U : F = Free(p) /\ L = Held(p) /\ U = Used(p) OBVIOUS
<1>3. /\ Sized(H, F) /\ Sized(H, L) /\ F \subseteq Handles /\ L \subseteq Handles
      /\ p.free \in Int /\ p.alloced \in Int /\ IsFiniteSet(U) /\ Cardinality(U) \in Nat
  BY <1>1, <1>2, AccountSets
<1>4. h \in F /\ g \in F /\ h \notin L /\ g \notin L /\ F \cup L = U /\ Hdr \in Int
  BY <1>2, AreaFits DEF Held, Free
<1>5. Used(q) = U \ {g}
  <2>1. \A r : Used(r) = Free(r) \cup Held(r) BY DEF Free, Held
  <2>2. (F \ {g}) \cup L = U \ {g} BY <1>4
  <2>3. QED BY <1>2, <2>1, <2>2
<1>6. SumOf(K, F \ {g}) = SumOf(H, F) + Hdr
  <2>1. K[h].size = H[h].size + H[g].size + Hdr BY <1>1
  <2>2. \A x \in F : x # h /\ x # g => K[x].size = H[x].size BY <1>1, <1>3
  <2>3. QED BY <1>3, <1>4, <2>1, <2>2, SumsJoined
<1>7. SumOf(K, L) = SumOf(H, L)
  <2>1. \A x \in L : K[x].size = H[x].size BY <1>1, <1>3, <1>4
  <2>2. QED BY <1>3, <2>1, SumSame
<1>8. PICK n : n = Cardinality(U) OBVIOUS
<1>9. Cardinality(U \ {g}) = n - 1 /\ n \in Nat
  <2>1. g \in U BY <1>4
  <2>2. QED BY <1>3, <1>8, <2>1, FS_RemoveElement
<1>10. q.free + q.alloced + Hdr * Cardinality(Used(q)) = Area
  <2>1. Hdr * (n - 1) = Hdr * n - Hdr BY <1>4, <1>9
  <2>2. p.free + p.alloced + Hdr * n = Area BY <1>2, <1>8 DEF Accounted
  <2>3. PICK m : m = Hdr * n OBVIOUS
  <2>4. m \in Int BY <1>4, <1>9, <2>3
  <2>5. q.free + q.alloced + (m - Hdr) = Area BY <1>3, <1>4, <2>2, <2>3, <2>4
  <2>6. QED BY <1>5, <1>9, <2>1, <2>3, <2>5
<1>11. ASSUME NEW x \in Handles \ Used(q) PROVE q.handles[x].size = 0
  <2>1. CASE x = g BY <2>1
  <2>2. CASE x # g
    <3>1. x \notin Used(p) /\ x # h BY <1>2, <1>4, <1>5, <2>2
    <3>2. QED BY <2>2, <3>1 DEF Accounted
  <2>3. QED BY <2>1, <2>2
<1>12. p.free = SumOf(H, F) /\ p.alloced = SumOf(H, L) BY <1>1, <1>2 DEF Accounted
<1>13. q.free = SumOf(K, Free(q)) /\ q.alloced = SumOf(K, Held(q))
  BY <1>2, <1>6, <1>7, <1>12
<1>14. QED BY <1>1, <1>10, <1>11, <1>13 DEF Accounted

\* A piece of size bytes and its header leave the chunk of f.
LEMMA AccountsCut ==
    ASSUME NEW p, SoundPool(p), Accounted(p), NEW f \in Free(p), NEW u \in Handles, u \notin Used(p),
           NEW size \in Int, NEW q, Free(q) = Free(p), Held(q) = Held(p) \cup {u},
           q.handles[f].size = p.handles[f].size - (size + Hdr), q.handles[u].size = size,
           \A x \in Handles : x # f /\ x # u => q.handles[x].size = p.handles[x].size,
           q.free = p.free - (size + Hdr), q.alloced = p.alloced + size
    PROVE  Accounted(q)
<1>1. PICK H, K : H = p.handles /\ K = q.handles OBVIOUS
<1>2. PICK F, L, U : F = Free(p) /\ L = Held(p) /\ U = Used(p) OBVIOUS
<1>3. /\ Sized(H, F) /\ Sized(H, L) /\ F \subseteq Handles /\ L \subseteq Handles
      /\ p.free \in Int /\ p.alloced \in Int /\ IsFiniteSet(U) /\ Cardinality(U) \in Nat
  BY <1>1, <1>2, AccountSets
<1>4. f \in F /\ f \notin L /\ u \notin F /\ u \notin L /\ F \cup L = U /\ Hdr \in Int
  BY <1>2, AreaFits DEF Held, Free
<1>5. Used(q) = U \cup {u}
  <2>1. \A r : Used(r) = Free(r) \cup Held(r) BY DEF Free, Held
  <2>2. F \cup (L \cup {u}) = U \cup {u} BY <1>4
  <2>3. QED BY <1>2, <2>1, <2>2
<1>6. PICK d : d = size + Hdr OBVIOUS
<1>7. d \in Int BY <1>4, <1>6
<1>8. SumOf(K, F) = SumOf(H, F) - d
  <2>1. K[f].size = H[f].size - d BY <1>1, <1>6
  <2>2. \A x \in F : x # f => K[x].size = H[x].size BY <1>1, <1>3, <1>4
  <2>3. QED BY <1>3, <1>4, <1>7, <2>1, <2>2, SumsCut
<1>9. SumOf(K, L \cup {u}) = size + SumOf(H, L)
  <2>1. \A x \in L : K[x].size = H[x].size BY <1>1, <1>3, <1>4
  <2>2. Sized(K, L) /\ SumOf(K, L) = SumOf(H, L) BY <1>3, <2>1, SumSame
  <2>3. K[u].size = size BY <1>1
  <2>4. QED BY <1>4, <2>2, <2>3, SumMore
<1>10. PICK n : n = Cardinality(U) OBVIOUS
<1>11. Cardinality(U \cup {u}) = n + 1 /\ n \in Nat
  <2>1. u \notin U BY <1>2
  <2>2. QED BY <1>3, <1>10, <2>1, FS_AddElement
<1>12. q.free + q.alloced + Hdr * Cardinality(Used(q)) = Area
  <2>1. Hdr * (n + 1) = Hdr * n + Hdr BY <1>4, <1>11
  <2>2. p.free + p.alloced + Hdr * n = Area BY <1>2, <1>10 DEF Accounted
  <2>3. PICK m : m = Hdr * n OBVIOUS
  <2>4. m \in Int BY <1>4, <1>11, <2>3
  <2>5. q.free + q.alloced + (m + Hdr) = Area BY <1>3, <1>4, <2>2, <2>3, <2>4
  <2>6. QED BY <1>5, <1>11, <2>1, <2>3, <2>5
<1>13. ASSUME NEW x \in Handles \ Used(q) PROVE q.handles[x].size = 0
  <2>1. x # f /\ x # u /\ x \notin Used(p) BY <1>2, <1>4, <1>5
  <2>2. QED BY <2>1 DEF Accounted
<1>14. p.free = SumOf(H, F) /\ p.alloced = SumOf(H, L) BY <1>1, <1>2 DEF Accounted
<1>15. SumOf(H, L) \in Int BY <1>3, SumInt
<1>16. q.free = SumOf(K, F) /\ q.alloced = SumOf(K, L \cup {u})
  BY <1>6, <1>8, <1>9, <1>14, <1>15
<1>17. QED BY <1>1, <1>2, <1>12, <1>13, <1>16 DEF Accounted

-----------------------------------------------------------------------------
(* What no step but a call for it may do to a chunk the program holds *)

\* It is held as before, its contents are where it is, and a locked one stays; and the
\* accounts stay right.
Carries(p, q) ==
    /\ Held(p) \subseteq Held(q)
    /\ \A h \in Held(p) :
        /\ q.handles[h].status = p.handles[h].status
        /\ p.handles[h].status = "LOCK" => q.handles[h].ptr = p.handles[h].ptr
        /\ (\A a \in Payload(p, h) : <<a, h>> \in p.bytes) =>
              \A a \in Payload(q, h) : <<a, h>> \in q.bytes
    /\ Accounted(p) => Accounted(q)

LEMMA CarriesOn ==
    ASSUME NEW p, NEW q, NEW r, Carries(p, q), Carries(q, r)
    PROVE  Carries(p, r)
  BY DEF Carries

\* Nothing happens to the handle and no byte of it is lost.
LEMMA CarriesSame ==
    ASSUME NEW p, NEW q, Held(p) \subseteq Held(q), \A h \in Held(p) : q.handles[h] = p.handles[h],
           \A h \in Held(p) : \A a \in Payload(p, h) : <<a, h>> \in p.bytes => <<a, h>> \in q.bytes,
           Accounted(p) => Accounted(q)
    PROVE  Carries(p, q)
<1>1. \A h \in Held(p) : Payload(q, h) = Payload(p, h) BY DEF Payload
<1>2. QED BY <1>1 DEF Carries

\* Two free chunks become one: what is not free is not touched.
LEMMA AbsorbFree ==
    ASSUME NEW p, SoundPool(p), NEW h, NEW g, Beside(p.handles, p.chunks, h, g),
           p.handles[h].status = "FREE", p.handles[g].status = "FREE"
    PROVE  LET q == Absorb(p, h, g) IN
           /\ SoundPool(q) /\ Merged(p.handles, p.chunks, h, g, q.handles, q.chunks)
           /\ Held(q) = Held(p) /\ Carries(p, q)
           /\ h \in Free(q) /\ \A f \in Free(q) : f # h => f \in Free(p) /\ q.handles[f] = p.handles[f]
<1> DEFINE q == Absorb(p, h, g)
<1>1. /\ SoundPool(q) /\ q.bytes = p.bytes
      /\ Merged(p.handles, p.chunks, h, g, q.handles, q.chunks)
      /\ q.alloced = p.alloced /\ q.free = p.free + Hdr
  BY AbsorbIs
<1> HIDE DEF q
<1>2. h \in Handles /\ g \in Handles /\ p.handles[h].ptr # Null /\ p.handles[g].ptr # Null
  BY DEF Beside
<1>3. h # g BY Row DEF SoundPool
<1>4. /\ q.handles[h].ptr = p.handles[h].ptr /\ q.handles[h].status = "FREE"
      /\ q.handles[g].ptr = Null
      /\ \A x \in Handles : x # h /\ x # g => q.handles[x] = p.handles[x]
  <2>1. q.handles[g] = NoHandle BY <1>1 DEF Merged
  <2>2. q.handles[g].ptr = Null BY <2>1 DEF NoHandle
  <2>3. QED BY <1>1, <2>2 DEF Merged
<1>5. Held(q) = Held(p)
  <2>1. \A x \in Handles : x \in Held(q) <=> x \in Held(p)
    <3> TAKE x \in Handles
    <3>1. CASE x = h BY <1>2, <1>4, <3>1 DEF Held, Free, Used
    <3>2. CASE x = g BY <1>2, <1>4, <3>2 DEF Held, Free, Used
    <3>3. CASE x # h /\ x # g BY <1>4, <3>3 DEF Held, Free, Used
    <3>4. QED BY <3>1, <3>2, <3>3
  <2>2. QED BY <2>1 DEF Held, Used
<1>6. h \in Free(q) /\ \A f \in Free(q) : f # h => f \in Free(p) /\ q.handles[f] = p.handles[f]
  <2>1. h \in Free(q) BY <1>2, <1>4 DEF Free, Used
  <2>2. ASSUME NEW f \in Free(q), f # h PROVE f \in Free(p) /\ q.handles[f] = p.handles[f]
    <3>1. f \in Handles /\ q.handles[f].ptr # Null /\ q.handles[f].status = "FREE"
      BY DEF Free, Used
    <3>2. f # g BY <1>4, <3>1
    <3>3. q.handles[f] = p.handles[f] BY <1>4, <2>2, <3>1, <3>2
    <3>4. QED BY <3>1, <3>3 DEF Free, Used
  <2>3. QED BY <2>1, <2>2
<1>7. \A x \in Held(p) : q.handles[x] = p.handles[x]
  BY <1>4 DEF Held, Free, Used
<1>8. ASSUME Accounted(p) PROVE Accounted(q)
  <2>1. h \in Free(p) /\ g \in Free(p) BY <1>2 DEF Free, Used
  <2>2. Free(q) = Free(p) \ {g}
    <3>1. \A x \in Handles : x \in Free(q) <=> x \in Free(p) /\ x # g
      <4> TAKE x \in Handles
      <4>1. CASE x = h BY <1>2, <1>3, <1>4, <4>1 DEF Free, Used
      <4>2. CASE x = g BY <1>4, <4>2 DEF Free, Used
      <4>3. CASE x # h /\ x # g BY <1>4, <4>3 DEF Free, Used
      <4>4. QED BY <4>1, <4>2, <4>3
    <3>2. QED BY <3>1 DEF Free, Used
  <2>3. /\ q.handles[h].size = p.handles[h].size + p.handles[g].size + Hdr
        /\ q.handles[g].size = 0
    <3>1. q.handles[g] = NoHandle BY <1>1 DEF Merged
    <3>2. q.handles[g].size = 0 BY <3>1 DEF NoHandle
    <3>3. QED BY <1>1, <3>2 DEF Merged
  <2>4. \A x \in Handles : x # h /\ x # g => q.handles[x].size = p.handles[x].size BY <1>4
  <2>5. QED BY <1>1, <1>3, <1>5, <1>8, <2>1, <2>2, <2>3, <2>4, AccountsJoined
<1>9. Carries(p, q) BY <1>1, <1>5, <1>7, <1>8, CarriesSame
<1>10. QED BY <1>1, <1>5, <1>6, <1>9 DEF q

\* A merge keeps the pool sound and makes no chunk movable.
MergeKeeps(p, q) ==
    /\ SoundPool(q) /\ Held(q) = Held(p) /\ Carries(p, q)
    /\ HeadersIn(q.chunks) \subseteq HeadersIn(p.chunks)
    /\ \A x \in HeadersIn(q.chunks) : MovableIn(q.chunks, x) => MovableIn(p.chunks, x)
\* No free chunk but the one of r is another or larger.
FreeAsBefore(p, q, r) ==
    \A f \in Free(q) : f # r => f \in Free(p) /\ q.handles[f] = p.handles[f]

LEMMA MergeKeepsItself ==
    ASSUME NEW p, SoundPool(p), NEW r
    PROVE  MergeKeeps(p, p) /\ FreeAsBefore(p, p, r)
  BY CarriesSame DEF MergeKeeps, FreeAsBefore

LEMMA MergeKeepsOn ==
    ASSUME NEW p, NEW q, NEW s, NEW r, MergeKeeps(p, q), MergeKeeps(q, s),
           FreeAsBefore(p, q, r), FreeAsBefore(q, s, r)
    PROVE  MergeKeeps(p, s) /\ FreeAsBefore(p, s, r)
<1>1. Carries(p, s) BY CarriesOn DEF MergeKeeps
<1>2. MergeKeeps(p, s) BY <1>1 DEF MergeKeeps
<1>3. FreeAsBefore(p, s, r) BY DEF FreeAsBefore
<1>4. QED BY <1>2, <1>3

LEMMA AbsorbKeeps ==
    ASSUME NEW p, SoundPool(p), NEW h, NEW g, Beside(p.handles, p.chunks, h, g),
           p.handles[h].status = "FREE", p.handles[g].status = "FREE"
    PROVE  LET q == Absorb(p, h, g) IN
           /\ MergeKeeps(p, q) /\ FreeAsBefore(p, q, h) /\ h \in Free(q)
           /\ Merged(p.handles, p.chunks, h, g, q.handles, q.chunks)
           /\ p.handles[g].ptr \notin HeadersIn(q.chunks)
<1> DEFINE q == Absorb(p, h, g)
<1>1. /\ SoundPool(q) /\ Merged(p.handles, p.chunks, h, g, q.handles, q.chunks)
      /\ Held(q) = Held(p) /\ Carries(p, q)
      /\ h \in Free(q) /\ \A f \in Free(q) : f # h => f \in Free(p) /\ q.handles[f] = p.handles[f]
  BY AbsorbFree
<1> HIDE DEF q
<1>2. SoundIn(p.handles, p.chunks, p.last) BY DEF SoundPool
<1>3. HeadersIn(q.chunks) = HeadersIn(p.chunks) \ {p.handles[g].ptr}
  BY <1>1, <1>2, MergedSound
<1>4. \A x \in HeadersIn(q.chunks) : MovableIn(q.chunks, x) => MovableIn(p.chunks, x)
  BY <1>1, <1>2, MergedMovable
<1>5. MergeKeeps(p, q) BY <1>1, <1>3, <1>4 DEF MergeKeeps
<1>6. FreeAsBefore(p, q, h) BY <1>1 DEF FreeAsBefore
<1>7. QED BY <1>1, <1>3, <1>5, <1>6 DEF q

LEMMA MergeNextIs ==
    ASSUME NEW p, SoundPool(p), NEW h \in Free(p), FreeBehind(p.chunks, h), NEW merged
    PROVE  LET m == MergeNext(p, h, merged) IN
           /\ MergeKeeps(p, m.pool) /\ FreeAsBefore(p, m.pool, h) /\ h \in Free(m.pool)
           /\ NoFreePair(m.pool.chunks)
           /\ m.result = h \/ (m.result = merged /\ m.pool = p)
<1> DEFINE a == p.handles[h].ptr
           next == p.chunks[a].next
           g == p.chunks[next].handle
<1>1. SoundIn(p.handles, p.chunks, p.last) BY DEF SoundPool
<1>2. h \in Handles /\ a # Null /\ p.handles[h].status = "FREE" BY DEF Free, Used
<1>3. a \in HeadersIn(p.chunks) /\ p.chunks[a].handle = h BY <1>1, <1>2, HandleFacts
<1>4. p.chunks[a].guard = "FREE" BY <1>1, <1>2, <1>3, HeaderFacts
<1>5. next # Null => next \in HeadersIn(p.chunks) BY <1>1, <1>3, HeaderFacts
<1>6. next # Null => /\ g \in Handles /\ p.handles[g].ptr = next
                     /\ p.handles[g].status = p.chunks[next].guard
  <2>1. PICK H, C, l : H = p.handles /\ C = p.chunks /\ l = p.last OBVIOUS
  <2>2. PICK x : x = a OBVIOUS
  <2>3. SoundIn(H, C, l) /\ x \in HeadersIn(C) BY <1>1, <1>3, <2>1, <2>2
  <2>4. C[x].next # Null => /\ C[C[x].next].handle \in Handles
                          /\ H[C[C[x].next].handle].ptr = C[x].next
                          /\ H[C[C[x].next].handle].status = C[C[x].next].guard
    BY <2>3, NeighbourFacts
  <2>5. QED BY <2>1, <2>2, <2>4
<1>7. CASE next # Null /\ p.handles[g].status = "FREE"
  <2>1. MergeNext(p, h, merged) = [pool |-> Absorb(p, h, g), result |-> h]
    BY <1>7 DEF MergeNext
  <2>2. Beside(p.handles, p.chunks, h, g) BY <1>2, <1>6, <1>7 DEF Beside
  <2>3. PICK q : q = Absorb(p, h, g) OBVIOUS
  <2>4. /\ MergeKeeps(p, q) /\ FreeAsBefore(p, q, h) /\ h \in Free(q)
        /\ Merged(p.handles, p.chunks, h, g, q.handles, q.chunks)
    BY <1>2, <1>7, <2>2, <2>3, AbsorbKeeps
  <2>5. NoFreePair(q.chunks) BY <1>1, <1>2, <1>7, <2>2, <2>4, MergedBehind
  <2>6. PICK m : m = MergeNext(p, h, merged) OBVIOUS
  <2> HIDE DEF g
  <2>60. m = [pool |-> q, result |-> h] BY <2>1, <2>3, <2>6
  <2>7. m.pool = q /\ m.result = h BY <2>60
  <2>8. QED BY <2>4, <2>5, <2>6, <2>7
<1>8. CASE ~(next # Null /\ p.handles[g].status = "FREE")
  <2>1. MergeNext(p, h, merged) = [pool |-> p, result |-> merged] BY <1>8 DEF MergeNext
  <2>2. NoFreePair(p.chunks)
    <3> SUFFICES ASSUME NEW x \in HeadersIn(p.chunks), FreePair(p.chunks, x) PROVE FALSE
      BY DEF NoFreePair
    <3>1. p.chunks[x].handle = h BY DEF FreeBehind
    <3>2. x = a BY <1>1, <1>3, <3>1, OneHandle
    <3>3. QED BY <1>6, <1>8, <3>2 DEF FreePair
  <2>3. MergeKeeps(p, p) /\ FreeAsBefore(p, p, h) BY MergeKeepsItself
  <2>4. PICK m : m = MergeNext(p, h, merged) OBVIOUS
  <2>5. m.pool = p /\ m.result = merged BY <2>1, <2>4
  <2>6. QED BY <2>2, <2>3, <2>4, <2>5
<1>9. QED BY <1>7, <1>8

\* merge_chunks leaves no free neighbours where there were none but those of h.
LEMMA MergeChunksIs ==
    ASSUME NEW p, SoundPool(p), NEW h \in Free(p), h # 0, FreeBeside(p.chunks, h)
    PROVE  LET m == merge_chunks(p, h) IN
           /\ MergeKeeps(p, m.pool) /\ FreeAsBefore(p, m.pool, m.result)
           /\ NoFreePair(m.pool.chunks)
           /\ m.result # 0 => m.result \in Free(m.pool)
           /\ m.result = 0 => \/ m.pool = p
                              \/ /\ p.handles[h].ptr \notin HeadersIn(m.pool.chunks)
                                 /\ p.chunks[p.handles[h].ptr].prev = 0
<1> DEFINE a == p.handles[h].ptr
           prev == p.chunks[a].prev
           g == p.chunks[prev].handle
<1>1. SoundIn(p.handles, p.chunks, p.last) BY DEF SoundPool
<1>2. h \in Handles /\ a # Null /\ p.handles[h].status = "FREE" BY DEF Free, Used
<1>3. a \in HeadersIn(p.chunks) /\ p.chunks[a].handle = h BY <1>1, <1>2, HandleFacts
<1>4. p.chunks[a].guard = "FREE" BY <1>1, <1>2, <1>3, HeaderFacts
<1>5. prev # Null => prev \in HeadersIn(p.chunks) /\ p.chunks[prev].next = a
  BY <1>1, <1>3, HeaderFacts
<1>6. prev # Null => /\ g \in Handles /\ p.handles[g].ptr = prev
                     /\ p.handles[g].status = p.chunks[prev].guard
  <2>1. PICK H, C, l : H = p.handles /\ C = p.chunks /\ l = p.last OBVIOUS
  <2>2. PICK x : x = a OBVIOUS
  <2>3. SoundIn(H, C, l) /\ x \in HeadersIn(C) BY <1>1, <1>3, <2>1, <2>2
  <2>4. C[x].prev # Null => /\ C[C[x].prev].handle \in Handles
                          /\ H[C[C[x].prev].handle].ptr = C[x].prev
                          /\ H[C[C[x].prev].handle].status = C[C[x].prev].guard
    BY <2>3, NeighbourFacts
  <2>5. QED BY <2>1, <2>2, <2>4
<1>7. CASE prev # Null /\ p.handles[g].status = "FREE"
  <2>1. PICK q : q = Absorb(p, g, h) OBVIOUS
  <2>2. PICK m : m = MergeNext(q, g, g) OBVIOUS
  <2>3. merge_chunks(p, h) = m BY <1>7, <2>1, <2>2 DEF merge_chunks
  <2>4. Beside(p.handles, p.chunks, g, h) BY <1>2, <1>5, <1>6, <1>7 DEF Beside
  <2>5. /\ MergeKeeps(p, q) /\ FreeAsBefore(p, q, g) /\ g \in Free(q)
        /\ Merged(p.handles, p.chunks, g, h, q.handles, q.chunks)
        /\ a \notin HeadersIn(q.chunks)
    BY <1>2, <1>7, <2>1, <2>4, AbsorbKeeps
  <2>6. FreeBehind(q.chunks, g) BY <1>1, <1>2, <1>7, <2>4, <2>5, MergedInFront
  <2>7. SoundPool(q) BY <2>5 DEF MergeKeeps
  <2>8. /\ MergeKeeps(q, m.pool) /\ FreeAsBefore(q, m.pool, g) /\ g \in Free(m.pool)
        /\ NoFreePair(m.pool.chunks)
        /\ m.result = g \/ (m.result = g /\ m.pool = q)
    <3>1. SoundPool(q) /\ g \in Free(q) /\ FreeBehind(q.chunks, g) BY <2>5, <2>6, <2>7
    <3> HIDE DEF g
    <3>2. QED BY <2>2, <3>1, MergeNextIs
  <2>9. MergeKeeps(p, m.pool) /\ FreeAsBefore(p, m.pool, g) BY <2>5, <2>8, MergeKeepsOn
  <2>10. a \notin HeadersIn(m.pool.chunks) BY <2>5, <2>8 DEF MergeKeeps
  <2>11. g = 0 => prev = 0 BY <1>1, <1>6, <1>7 DEF SoundIn
  <2>12. QED BY <2>3, <2>8, <2>9, <2>10, <2>11
<1>8. CASE ~(prev # Null /\ p.handles[g].status = "FREE")
  <2>1. PICK m : m = MergeNext(p, h, 0) OBVIOUS
  <2>2. merge_chunks(p, h) = m BY <1>8, <2>1 DEF merge_chunks
  <2>3. FreeBehind(p.chunks, h)
    <3> SUFFICES ASSUME NEW x \in HeadersIn(p.chunks), FreePair(p.chunks, x)
                 PROVE  p.chunks[x].handle = h
      BY DEF FreeBehind
    <3>1. SUFFICES ASSUME p.chunks[p.chunks[x].next].handle = h PROVE FALSE
      BY DEF FreeBeside
    <3>2. PICK y : y = p.chunks[x].next OBVIOUS
    <3>3. y \in HeadersIn(p.chunks) /\ p.chunks[y].prev = x
      BY <1>1, <3>2, HeaderFacts DEF FreePair
    <3>4. y = a BY <1>1, <1>3, <3>1, <3>2, <3>3, OneHandle
    <3>5. x # Null BY AreaFits DEF HeadersIn
    <3>6. prev = x BY <3>3, <3>4
    <3>7. QED BY <1>6, <1>8, <3>5, <3>6 DEF FreePair
  <2>4. /\ MergeKeeps(p, m.pool) /\ FreeAsBefore(p, m.pool, h) /\ h \in Free(m.pool)
        /\ NoFreePair(m.pool.chunks)
        /\ m.result = h \/ (m.result = 0 /\ m.pool = p)
    BY <2>1, <2>3, MergeNextIs
  <2>5. CASE m.result = h BY <2>2, <2>4, <2>5
  <2>6. CASE m.result = 0 /\ m.pool = p
    <3>1. FreeAsBefore(p, p, 0) BY MergeKeepsItself
    <3>2. QED BY <2>2, <2>4, <2>6, <3>1
  <2>7. QED BY <2>4, <2>5, <2>6
<1>9. QED BY <1>7, <1>8

-----------------------------------------------------------------------------
(* Chunks and their bytes *)

\* All that is known of the chunk of a handle in use.
LEMMA ChunkFacts ==
    ASSUME NEW p, SoundPool(p), NEW h \in Used(p)
    PROVE  LET a == p.handles[h].ptr IN
           /\ h \in Handles /\ a \in HeadersIn(p.chunks) /\ a \in Addresses /\ a \in Nat
           /\ p.chunks[a].handle = h /\ p.chunks[a].guard = p.handles[h].status
           /\ p.handles[h].size \in Nat
           /\ EndIn(p.handles, p.chunks, a) = a + Hdr + p.handles[h].size
           /\ EndIn(p.handles, p.chunks, a) <= Area
           /\ (h = 0 <=> a = 0)
<1>1. PICK H, C, l : H = p.handles /\ C = p.chunks /\ l = p.last OBVIOUS
<1>2. SoundIn(H, C, l) /\ h \in Handles /\ H[h].ptr # Null BY <1>1 DEF SoundPool, Used
<1>3. PICK a : a = H[h].ptr OBVIOUS
<1>4. a \in HeadersIn(C) /\ C[a].handle = h BY <1>2, <1>3, HandleFacts
<1>5. /\ a \in Nat /\ a \in Addresses /\ H[h].size \in Nat /\ H[h].status = C[a].guard
      /\ EndIn(H, C, a) = a + Hdr + H[h].size /\ EndIn(H, C, a) <= Area
  BY <1>2, <1>4, HeaderFacts
<1>6. h = 0 <=> a = 0
  <2>1. H[0].ptr = 0 /\ 0 \in Handles /\ 0 # Null BY <1>2, AreaFits DEF SoundIn
  <2>2. C[0].handle = 0 BY <1>2, <2>1, HandleFacts
  <2>3. QED BY <1>3, <1>4, <2>1, <2>2
<1>7. QED BY <1>1, <1>2, <1>3, <1>4, <1>5, <1>6

\* Two chunks have no byte in common.
LEMMA Apart ==
    ASSUME NEW H, NEW C, NEW l, SoundIn(H, C, l), NEW a \in HeadersIn(C), NEW b \in HeadersIn(C),
           a # b, NEW s \in Int, a <= s, s < EndIn(H, C, a)
    PROVE  ~(b <= s /\ s < EndIn(H, C, b))
<1>1. /\ a \in Nat /\ b \in Nat
      /\ EndIn(H, C, a) \in Nat /\ EndIn(H, C, b) \in Nat
  BY HeaderFacts
<1>2. /\ a < b => EndIn(H, C, a) <= b
      /\ b < a => EndIn(H, C, b) <= a
  BY Between
<1>3. QED BY <1>1, <1>2

LEMMA PayloadIs ==
    ASSUME NEW p, SoundPool(p), NEW h \in Used(p)
    PROVE  LET a == p.handles[h].ptr IN
           \A s : s \in Payload(p, h) <=>
                    s \in Int /\ a + Hdr <= s /\ s < EndIn(p.handles, p.chunks, a)
<1>1. PICK a : a = p.handles[h].ptr OBVIOUS
<1>2. PICK z : z = p.handles[h].size OBVIOUS
<1>3. PICK e : e = EndIn(p.handles, p.chunks, a) OBVIOUS
<1>4. a \in Nat /\ z \in Nat /\ Hdr \in Nat /\ e = a + Hdr + z
  BY <1>1, <1>2, <1>3, ChunkFacts, AreaFits
<1>5. Payload(p, h) = a + Hdr .. a + Hdr + z - 1 BY <1>1, <1>2 DEF Payload
<1>6. \A s : s \in a + Hdr .. a + Hdr + z - 1 <=> s \in Int /\ a + Hdr <= s /\ s < e
  BY <1>4
<1>7. QED BY <1>1, <1>3, <1>5, <1>6

\* The sums and the bytes have no part in it.
LEMMA SameShape ==
    ASSUME NEW p, SoundPool(p), NEW q \in PoolSet,
           q.handles = p.handles, q.chunks = p.chunks, q.last = p.last
    PROVE  SoundPool(q)
  BY DEF SoundPool

-----------------------------------------------------------------------------
(* Statuses *)

LEMMA SetStatusIs ==
    ASSUME NEW p, SoundPool(p), NEW h \in Used(p), h # 0, NEW sig \in Sigs
    PROVE  LET q == SetStatus(p, h, sig)
               a == p.handles[h].ptr IN
           /\ SoundPool(q) /\ q.last = p.last /\ q.bytes = p.bytes
           /\ q.alloced = p.alloced /\ q.free = p.free
           /\ q.handles[h].ptr = a /\ q.handles[h].status = sig
           /\ q.handles[h].size = p.handles[h].size
           /\ \A x \in Handles : x # h => q.handles[x] = p.handles[x]
           /\ HeadersIn(q.chunks) = HeadersIn(p.chunks)
           /\ q.chunks[a].guard = sig
           /\ \A x \in HeadersIn(p.chunks) :
                 /\ q.chunks[x].next = p.chunks[x].next /\ q.chunks[x].prev = p.chunks[x].prev
                 /\ q.chunks[x].handle = p.chunks[x].handle
                 /\ x # a => q.chunks[x] = p.chunks[x]
<1> DEFINE H == p.handles
           C == p.chunks
           l == p.last
           a == H[h].ptr
           q == SetStatus(p, h, sig)
           K == [H EXCEPT ![h] = [@ EXCEPT !.status = sig]]
           D == [C EXCEPT ![a] = [@ EXCEPT !.guard = sig]]
<1>1. /\ p \in PoolSet /\ SoundIn(H, C, l) /\ H \in [Handles -> HandleSet]
      /\ C \in [Addresses -> ChunkSet]
  BY PoolFields DEF SoundPool
<1>2. h \in Handles /\ a \in HeadersIn(C) /\ a \in Addresses /\ C[a].handle = h /\ a # 0
  BY ChunkFacts
<1>3. q = [handles |-> K, chunks |-> D, last |-> l, alloced |-> p.alloced, free |-> p.free,
           bytes |-> p.bytes]
  <2>1. q = [p EXCEPT !.handles[h].status = sig, !.chunks[a].guard = sig] BY DEF SetStatus
  <2>2. p = [handles |-> H, chunks |-> C, last |-> l, alloced |-> p.alloced, free |-> p.free,
             bytes |-> p.bytes]
    BY <1>1, PoolFields
  <2> HIDE DEF q, a
  <2> DEFINE p1 == [p EXCEPT !.handles[h].status = sig]
  <2>3. p1 = [handles |-> K, chunks |-> C, last |-> l, alloced |-> p.alloced, free |-> p.free,
              bytes |-> p.bytes]
    <3> HIDE DEF C, l
    <3>1. QED BY <2>2
  <2>4. q = [p1 EXCEPT !.chunks[a].guard = sig] BY <2>1
  <2> HIDE DEF p1, K, H, C, l
  <2>5. QED BY <2>3, <2>4
<1> HIDE DEF H, C, l, a, q
<1>4. /\ K \in [Handles -> HandleSet] /\ K[h].ptr = H[h].ptr /\ K[h].status = sig
      /\ K[h].size = H[h].size /\ \A x \in Handles : x # h => K[x] = H[x]
  <2>1. H[h] \in HandleSet BY <1>1, <1>2
  <2>2. /\ [H[h] EXCEPT !.status = sig] \in HandleSet
        /\ [H[h] EXCEPT !.status = sig].ptr = H[h].ptr
        /\ [H[h] EXCEPT !.status = sig].status = sig
        /\ [H[h] EXCEPT !.status = sig].size = H[h].size
    BY <2>1 DEF HandleSet
  <2>3. QED BY <1>1, <1>2, <2>2
<1>5. /\ D \in [Addresses -> ChunkSet] /\ D[a].guard = sig /\ D[a].next = C[a].next
      /\ D[a].prev = C[a].prev /\ D[a].handle = C[a].handle
      /\ \A x \in Addresses : x # a => D[x] = C[x]
  <2>1. C[a] \in ChunkSet BY <1>1, <1>2
  <2>2. /\ [C[a] EXCEPT !.guard = sig] \in ChunkSet
        /\ [C[a] EXCEPT !.guard = sig].guard = sig
        /\ [C[a] EXCEPT !.guard = sig].next = C[a].next
        /\ [C[a] EXCEPT !.guard = sig].prev = C[a].prev
        /\ [C[a] EXCEPT !.guard = sig].handle = C[a].handle
    BY <2>1 DEF ChunkSet
  <2>3. QED BY <1>1, <1>2, <2>2
<1> HIDE DEF K, D
<1>6. HeadersIn(D) = HeadersIn(C)
  <2>1. a \in HeadersIn(D) BY <1>2, <1>5, ChunkTyped DEF HeadersIn
  <2>2. \A x \in Addresses : x # a => (x \in HeadersIn(D) <=> x \in HeadersIn(C))
    BY <1>5 DEF HeadersIn
  <2>3. QED BY <1>2, <2>1, <2>2 DEF HeadersIn
<1>7. ASSUME NEW x \in HeadersIn(C)
      PROVE  /\ x \in Addresses /\ D[x].next = C[x].next /\ D[x].prev = C[x].prev
             /\ D[x].handle = C[x].handle /\ (x # a => D[x] = C[x])
  <2>1. x \in Addresses BY DEF HeadersIn
  <2>2. QED BY <1>5, <2>1
<1>8. ASSUME NEW x \in HeadersIn(C)
      PROVE  /\ K[C[x].handle].ptr = x /\ K[C[x].handle].status = D[x].guard
             /\ K[C[x].handle].size = H[C[x].handle].size /\ EndIn(K, D, x) = EndIn(H, C, x)
             /\ D[x].guard \in Sigs
  <2>1. /\ C[x].handle \in Handles /\ H[C[x].handle].ptr = x
        /\ H[C[x].handle].status = C[x].guard /\ C[x].guard \in Sigs
    BY <1>1, HeaderFacts
  <2>2. CASE x = a BY <1>2, <1>4, <1>5, <2>1, <2>2 DEF EndIn
  <2>3. CASE x # a
    <3>1. C[x].handle # h BY <1>1, <1>2, <2>3, OneHandle
    <3>2. K[C[x].handle] = H[C[x].handle] /\ D[x] = C[x] BY <1>4, <1>7, <2>1, <2>3, <3>1
    <3>3. QED BY <2>1, <3>2 DEF EndIn
  <2>4. QED BY <2>2, <2>3
<1>9. SoundIn(K, D, l)
  <2>1. K[0].ptr = 0 /\ K[0].status = "FREE" BY <1>1, <1>4, AreaFits DEF SoundIn
  <2>2. l \in HeadersIn(D) /\ D[l].next = Null BY <1>1, <1>6, <1>7 DEF SoundIn
  <2>3. ASSUME NEW x \in HeadersIn(D) PROVE ChunkOK(K, D, l, x)
    <3>1. x \in HeadersIn(C) BY <1>6
    <3>2. ChunkOK(H, C, l, x) BY <1>1, <3>1 DEF SoundIn
    <3>3. /\ D[x].guard \in Sigs /\ K[D[x].handle].ptr = x
          /\ K[D[x].handle].status = D[x].guard
          /\ K[D[x].handle].size = H[C[x].handle].size /\ EndIn(K, D, x) = EndIn(H, C, x)
      BY <1>7, <1>8, <3>1
    <3>4. D[x].next # Null => D[x].next \in HeadersIn(C) /\ D[D[x].next].prev = C[C[x].next].prev
      BY <1>7, <3>1, <3>2 DEF ChunkOK
    <3>5. x # 0 => D[x].prev \in HeadersIn(C) /\ D[D[x].prev].next = C[C[x].prev].next
      BY <1>7, <3>1, <3>2 DEF ChunkOK
    <3>6. QED BY <1>6, <1>7, <3>1, <3>2, <3>3, <3>4, <3>5 DEF ChunkOK
  <2>4. ASSUME NEW x \in Handles PROVE HandleOK(K, D, x)
    <3>1. K[x].ptr = H[x].ptr BY <1>4
    <3>2. HandleOK(H, C, x) BY <1>1 DEF SoundIn
    <3>3. QED BY <1>6, <1>7, <3>1, <3>2 DEF HandleOK
  <2>5. \A x, y \in HeadersIn(D) : x < y => EndIn(K, D, x) <= y
    BY <1>1, <1>6, <1>8 DEF SoundIn
  <2>6. QED BY <1>4, <1>5, <2>1, <2>2, <2>3, <2>4, <2>5 DEF SoundIn
<1>10. q.handles = K /\ q.chunks = D /\ q.last = l /\ q.alloced = p.alloced
       /\ q.free = p.free /\ q.bytes = p.bytes
  BY <1>3
<1>11. q \in PoolSet
  <2>1. /\ l \in Addresses /\ p.alloced \in Int /\ p.free \in Int
        /\ p.bytes \in SUBSET (Addresses \X Handles)
    BY <1>1, PoolFields DEF l
  <2>2. QED BY <1>3, <1>4, <1>5, <2>1 DEF PoolSet
<1>12. SoundPool(q) BY <1>9, <1>10, <1>11 DEF SoundPool
<1>13. QED BY <1>4, <1>5, <1>6, <1>7, <1>10, <1>12 DEF H, C, l, a, q

-----------------------------------------------------------------------------
(* Taking the end of a free chunk *)

\* What TakeEnd makes of the handles and the headers: b is a header now, within what
\* was the chunk of f.
Cut(H, C, f, u, size, H2, C2) ==
    LET a == H[f].ptr
        b == a + (H[f].size - size)
        n == C[a].next
    IN  /\ H2 \in [Handles -> HandleSet] /\ C2 \in [Addresses -> ChunkSet]
        /\ H2[f].ptr = a /\ H2[f].status = H[f].status /\ H2[f].size = H[f].size - (size + Hdr)
        /\ H2[u].ptr = b /\ H2[u].status = "ALOC" /\ H2[u].size = size
        /\ \A x \in Handles : x # f /\ x # u => H2[x] = H[x]
        /\ C2[b].guard = "ALOC" /\ C2[b].handle = u /\ C2[b].prev = a /\ C2[b].next = n
        /\ C2[a].guard = C[a].guard /\ C2[a].handle = C[a].handle /\ C2[a].prev = C[a].prev
        /\ C2[a].next = b
        /\ n # Null => /\ C2[n].guard = C[n].guard /\ C2[n].handle = C[n].handle
                       /\ C2[n].next = C[n].next /\ C2[n].prev = b
        /\ \A x \in Addresses : x # a /\ x # b /\ x # n => C2[x] = C[x]

\* The chunk of f holds the request and a header, and handle u is unused.
Room(H, f, u, size) ==
    /\ f \in Handles /\ H[f].ptr # Null /\ H[f].status = "FREE"
    /\ u \in Handles /\ H[u].ptr = Null
    /\ size \in Nat /\ size + Hdr <= H[f].size

\* Where the new header is.
LEMMA CutPlaces ==
    ASSUME NEW H, NEW C, NEW l, SoundIn(H, C, l), NEW f, NEW u, NEW size, Room(H, f, u, size)
    PROVE  LET a == H[f].ptr
               b == a + (H[f].size - size)
               n == C[a].next IN
           /\ a \in HeadersIn(C) /\ a \in Nat /\ a \in Addresses /\ C[a].handle = f
           /\ C[a].guard = "FREE"
           /\ b \in Nat /\ b \in Addresses /\ b \notin HeadersIn(C) /\ a + Hdr <= b /\ a < b
           /\ b + Hdr + size = EndIn(H, C, a) /\ EndIn(H, C, a) <= Area
           /\ f # u /\ u # 0
           /\ H[f].size \in Nat
           /\ n = Null => l = a /\ EndIn(H, C, a) = Area
           /\ n # Null => n \in HeadersIn(C) /\ n \in Nat /\ n = EndIn(H, C, a) /\ C[n].prev = a
           /\ n # a /\ n # b /\ a # b /\ n \in Addresses \cup {Null}
<1>1. PICK a, z : a = H[f].ptr /\ z = H[f].size OBVIOUS
<1>2. PICK b : b = a + (z - size) OBVIOUS
<1>3. PICK n : n = C[a].next OBVIOUS
<1>4. a \in HeadersIn(C) /\ C[a].handle = f BY <1>1, HandleFacts DEF Room
<1>5. /\ a \in Nat /\ a \in Addresses /\ z \in Nat /\ C[a].guard = "FREE"
      /\ EndIn(H, C, a) = a + Hdr + z /\ EndIn(H, C, a) <= Area
      /\ n = Null => l = a /\ EndIn(H, C, a) = Area
      /\ n # Null => n \in HeadersIn(C) /\ n \in Nat /\ n = EndIn(H, C, a) /\ C[n].prev = a
      /\ Hdr \in Nat /\ Hdr >= 1 /\ Area \in Nat
  BY <1>1, <1>3, <1>4, HeaderFacts DEF Room
<1>6. size \in Nat /\ size + Hdr <= z BY <1>1 DEF Room
<1>7. b \in Nat /\ a + Hdr <= b /\ a < b /\ b + Hdr + size = EndIn(H, C, a) /\ b < Area
  BY <1>2, <1>5, <1>6
<1>8. b \in Addresses BY <1>7, AreaFits
<1>9. b \notin HeadersIn(C)
  <2> SUFFICES ASSUME b \in HeadersIn(C) PROVE FALSE OBVIOUS
  <2>1. EndIn(H, C, a) <= b BY <1>4, <1>7, Between
  <2>2. QED BY <1>5, <1>6, <1>7, <2>1
<1>10. f # u /\ u # 0
  <2>1. H[0].ptr = 0 /\ 0 # Null BY AreaFits DEF SoundIn
  <2>2. QED BY <2>1 DEF Room
<1>11. n # a /\ n # b /\ a # b
  <2>1. a # Null /\ b # Null BY <1>5, <1>8, AreaFits
  <2>2. QED BY <1>4, <1>5, <1>6, <1>7, <1>9, <2>1
<1>12. n \in Addresses \cup {Null} BY <1>5 DEF HeadersIn
<1>13. QED BY <1>1, <1>2, <1>3, <1>4, <1>5, <1>7, <1>8, <1>9, <1>10, <1>11, <1>12

LEMMA CutSound ==
    ASSUME NEW H, NEW C, NEW l, SoundIn(H, C, l), NEW f, NEW u, NEW size, Room(H, f, u, size),
           NEW H2, NEW C2, Cut(H, C, f, u, size, H2, C2)
    PROVE  LET a == H[f].ptr
               b == a + (H[f].size - size) IN
           /\ SoundIn(H2, C2, IF C[a].next = Null THEN b ELSE l)
           /\ HeadersIn(C2) = HeadersIn(C) \cup {b}
           /\ \A x \in HeadersIn(C) : /\ C2[x].guard = C[x].guard
                                      /\ C2[x].handle = C[x].handle
                                      /\ x # a => C2[x].next = C[x].next
<1>1. PICK a, z : a = H[f].ptr /\ z = H[f].size OBVIOUS
<1>2. PICK b : b = a + (z - size) OBVIOUS
<1>3. PICK n : n = C[a].next OBVIOUS
<1>4. PICK m : m = IF n = Null THEN b ELSE l OBVIOUS
<1>5. /\ a \in HeadersIn(C) /\ a \in Nat /\ a \in Addresses /\ C[a].handle = f
      /\ C[a].guard = "FREE"
      /\ b \in Nat /\ b \in Addresses /\ b \notin HeadersIn(C) /\ a + Hdr <= b /\ a < b
      /\ b + Hdr + size = EndIn(H, C, a) /\ EndIn(H, C, a) <= Area
      /\ f # u /\ u # 0 /\ z \in Nat
      /\ n = Null => l = a /\ EndIn(H, C, a) = Area
      /\ n # Null => n \in HeadersIn(C) /\ n \in Nat /\ n = EndIn(H, C, a) /\ C[n].prev = a
      /\ n # a /\ n # b /\ a # b /\ n \in Addresses \cup {Null}
  BY <1>1, <1>2, <1>3, CutPlaces
<1>6. /\ H2 \in [Handles -> HandleSet] /\ C2 \in [Addresses -> ChunkSet]
      /\ H2[f].ptr = a /\ H2[f].status = H[f].status /\ H2[f].size = z - (size + Hdr)
      /\ H2[u].ptr = b /\ H2[u].status = "ALOC" /\ H2[u].size = size
      /\ \A x \in Handles : x # f /\ x # u => H2[x] = H[x]
      /\ C2[b].guard = "ALOC" /\ C2[b].handle = u /\ C2[b].prev = a /\ C2[b].next = n
      /\ C2[a].guard = C[a].guard /\ C2[a].handle = C[a].handle /\ C2[a].prev = C[a].prev
      /\ C2[a].next = b
      /\ n # Null => /\ C2[n].guard = C[n].guard /\ C2[n].handle = C[n].handle
                     /\ C2[n].next = C[n].next /\ C2[n].prev = b
      /\ \A x \in Addresses : x # a /\ x # b /\ x # n => C2[x] = C[x]
  BY <1>1, <1>2, <1>3 DEF Cut
<1>7. /\ f \in Handles /\ u \in Handles /\ H[u].ptr = Null /\ size \in Nat /\ size + Hdr <= z
      /\ H[f].status = "FREE"
  BY <1>1 DEF Room
<1>8. /\ H[0].ptr = 0 /\ H[0].status = "FREE" /\ l \in HeadersIn(C) /\ C[l].next = Null
  BY DEF SoundIn
<1>9. \A x \in HeadersIn(C) : x \in Addresses /\ x \in Nat /\ x # Null /\ C[x].guard \in Sigs
  BY HeaderFacts, AreaFits
<1>10. "ALOC" \in Sigs /\ "FREE" \in Sigs /\ Hdr \in Nat /\ Hdr >= 1 BY AreaFits DEF Sigs
<1>11. HeadersIn(C2) = HeadersIn(C) \cup {b}
  <2>1. a \in HeadersIn(C2) BY <1>5, <1>6, <1>10, ChunkTyped DEF HeadersIn
  <2>2. b \in HeadersIn(C2) BY <1>5, <1>6, <1>10, ChunkTyped DEF HeadersIn
  <2>3. n # Null => n \in HeadersIn(C2) BY <1>5, <1>6, <1>9, ChunkTyped DEF HeadersIn
  <2>4. \A x \in Addresses : x # a /\ x # b /\ x # n => (x \in HeadersIn(C2) <=> x \in HeadersIn(C))
    BY <1>6 DEF HeadersIn
  <2>5. \A x \in Addresses : x # Null BY AreaFits
  <2>6. HeadersIn(C) \subseteq Addresses /\ HeadersIn(C2) \subseteq Addresses BY DEF HeadersIn
  <2>7. QED BY <1>5, <2>1, <2>2, <2>3, <2>4, <2>5, <2>6
<1>12. ASSUME NEW x \in HeadersIn(C)
       PROVE  /\ x \in HeadersIn(C2) /\ x # b /\ x \in Addresses
              /\ C2[x].guard = C[x].guard /\ C2[x].handle = C[x].handle
              /\ x # a => C2[x].next = C[x].next
              /\ x # n => C2[x].prev = C[x].prev
  <2>1. x \in HeadersIn(C2) /\ x # b /\ x \in Addresses /\ x # Null BY <1>5, <1>9, <1>11
  <2>2. CASE x = a BY <1>6, <2>1, <2>2
  <2>3. CASE x = n BY <1>6, <2>1, <2>3
  <2>4. CASE x # a /\ x # n BY <1>6, <2>1, <2>4
  <2>5. QED BY <2>2, <2>3, <2>4
<1>13. ASSUME NEW x \in HeadersIn(C), x # a
       PROVE  H2[C[x].handle] = H[C[x].handle] /\ EndIn(H2, C2, x) = EndIn(H, C, x)
  <2>1. C[x].handle \in Handles /\ H[C[x].handle].ptr = x BY HeaderFacts
  <2>2. C[x].handle # f BY <1>5, <1>13, OneHandle
  <2>3. C[x].handle # u BY <1>7, <1>9, <2>1
  <2>4. H2[C[x].handle] = H[C[x].handle] BY <1>6, <2>1, <2>2, <2>3
  <2>5. QED BY <1>12, <2>4 DEF EndIn
<1>14. EndIn(H2, C2, a) = b /\ EndIn(H2, C2, b) = EndIn(H, C, a)
  <2>1. /\ EndIn(H, C, a) = a + Hdr + z /\ EndIn(H2, C2, a) = a + Hdr + H2[f].size
        /\ EndIn(H2, C2, b) = b + Hdr + H2[u].size
    BY <1>1, <1>5, <1>6 DEF EndIn
  <2>2. QED BY <1>2, <1>5, <1>6, <1>7, <1>10, <2>1
<1>15. ASSUME NEW x \in HeadersIn(C2) PROVE ChunkOK(H2, C2, m, x)
  <2>1. CASE x = b
    <3>1. /\ C2[x].guard \in Sigs /\ H2[C2[x].handle].ptr = x
          /\ H2[C2[x].handle].status = C2[x].guard /\ H2[C2[x].handle].size >= 0
      BY <1>6, <1>7, <1>10, <2>1
    <3>2. /\ C2[x].next = Null => EndIn(H2, C2, x) = Area /\ m = x
          /\ C2[x].next # Null => /\ C2[x].next = EndIn(H2, C2, x)
                                  /\ C2[x].next \in HeadersIn(C2) /\ C2[C2[x].next].prev = x
      BY <1>4, <1>5, <1>6, <1>11, <1>14, <2>1
    <3>3. x # 0 /\ C2[x].prev \in HeadersIn(C2) /\ C2[C2[x].prev].next = x
      BY <1>5, <1>6, <1>11, <2>1
    <3>4. QED BY <3>1, <3>2, <3>3 DEF ChunkOK
  <2>2. CASE x # b
    <3>1. x \in HeadersIn(C) BY <1>11, <2>2
    <3>2. /\ C[x].guard \in Sigs /\ C[x].handle \in Handles
          /\ H[C[x].handle].ptr = x /\ H[C[x].handle].status = C[x].guard
          /\ H[C[x].handle].size \in Nat
          /\ C[x].next = Null => EndIn(H, C, x) = Area /\ l = x
          /\ C[x].next # Null => /\ C[x].next = EndIn(H, C, x) /\ C[x].next \in HeadersIn(C)
                                 /\ C[C[x].next].prev = x
          /\ x = 0 <=> C[x].prev = Null
          /\ x # 0 => C[x].prev \in HeadersIn(C) /\ C[C[x].prev].next = x
      BY <3>1, HeaderFacts
    <3>3. /\ C2[x].guard \in Sigs /\ H2[C2[x].handle].ptr = x
          /\ H2[C2[x].handle].status = C2[x].guard /\ H2[C2[x].handle].size >= 0
      <4>1. CASE x = a BY <1>5, <1>6, <1>7, <1>10, <3>2, <4>1
      <4>2. CASE x # a BY <1>12, <1>13, <3>1, <3>2, <4>2
      <4>3. QED BY <4>1, <4>2
    <3>4. /\ C2[x].next = Null => EndIn(H2, C2, x) = Area /\ m = x
          /\ C2[x].next # Null => /\ C2[x].next = EndIn(H2, C2, x)
                                  /\ C2[x].next \in HeadersIn(C2) /\ C2[C2[x].next].prev = x
      <4>1. CASE x = a
        <5>1. b # Null BY <1>5, AreaFits
        <5>2. QED BY <1>6, <1>11, <1>14, <4>1, <5>1
      <4>2. CASE x # a
        <5>1. C2[x].next = C[x].next /\ EndIn(H2, C2, x) = EndIn(H, C, x)
          BY <1>12, <1>13, <3>1, <4>2
        <5>2. CASE C[x].next = Null
          <6>1. l = x BY <3>2, <5>2
          <6>2. n # Null BY <1>5, <4>2, <6>1
          <6>3. QED BY <1>4, <3>2, <5>1, <5>2, <6>1, <6>2
        <5>3. CASE C[x].next # Null
          <6>1. PICK y : y = C[x].next OBVIOUS
          <6>2. y \in HeadersIn(C) /\ C[y].prev = x BY <3>2, <5>3, <6>1
          <6>3. y # n BY <1>5, <4>2, <5>3, <6>1, <6>2
          <6>4. y \in HeadersIn(C2) /\ C2[y].prev = x BY <1>12, <6>2, <6>3
          <6>5. QED BY <3>2, <5>1, <5>3, <6>1, <6>4
        <5>4. QED BY <5>2, <5>3
      <4>3. QED BY <4>1, <4>2
    <3>5. /\ x = 0 => C2[x].prev = Null
          /\ x # 0 => C2[x].prev \in HeadersIn(C2) /\ C2[C2[x].prev].next = x
      <4>1. CASE x = n
        <5>1. x # Null BY <1>9, <3>1
        <5>2. C2[x].prev = b /\ C2[b].next = x BY <1>6, <4>1, <5>1
        <5>3. x # 0 BY <1>5, <1>7, <1>10, <4>1, <5>1
        <5>4. QED BY <1>11, <5>2, <5>3
      <4>2. CASE x # n
        <5>1. C2[x].prev = C[x].prev BY <1>12, <3>1, <4>2
        <5>2. CASE x = 0 BY <3>2, <5>1, <5>2
        <5>3. CASE x # 0
          <6>1. PICK y : y = C[x].prev OBVIOUS
          <6>2. y \in HeadersIn(C) /\ C[y].next = x BY <3>2, <5>3, <6>1
          <6>3. y # a BY <1>3, <4>2, <6>2
          <6>4. y \in HeadersIn(C2) /\ C2[y].next = x BY <1>12, <6>2, <6>3
          <6>5. QED BY <5>1, <5>3, <6>1, <6>4
        <5>4. QED BY <5>2, <5>3
      <4>3. QED BY <4>1, <4>2
    <3>6. QED BY <3>3, <3>4, <3>5 DEF ChunkOK
  <2>3. QED BY <2>1, <2>2
<1>16. ASSUME NEW x \in Handles PROVE HandleOK(H2, C2, x)
  <2>1. CASE x = f BY <1>5, <1>6, <1>11, <2>1 DEF HandleOK
  <2>2. CASE x = u BY <1>6, <1>11, <2>2 DEF HandleOK
  <2>3. CASE x # f /\ x # u
    <3>1. H2[x] = H[x] BY <1>6, <2>3
    <3>2. SUFFICES ASSUME H[x].ptr # Null
                   PROVE H[x].ptr \in HeadersIn(C2) /\ C2[H[x].ptr].handle = x
      BY <3>1 DEF HandleOK
    <3>3. H[x].ptr \in HeadersIn(C) /\ C[H[x].ptr].handle = x BY <3>2, HandleFacts
    <3>4. QED BY <1>12, <3>3
  <2>4. QED BY <2>1, <2>2, <2>3
<1>17. ASSUME NEW x \in HeadersIn(C2), NEW y \in HeadersIn(C2), x < y
       PROVE  EndIn(H2, C2, x) <= y
  <2>1. CASE x = b
    <3>1. y \in HeadersIn(C) /\ y # a /\ y \in Nat BY <1>5, <1>9, <1>11, <1>17, <2>1
    <3>2. a < y BY <1>5, <1>17, <2>1, <3>1
    <3>3. EndIn(H, C, a) <= y BY <1>5, <3>1, <3>2, Between
    <3>4. QED BY <1>14, <2>1, <3>3
  <2>2. CASE x # b /\ y = b
    <3>1. x \in HeadersIn(C) /\ x \in Nat BY <1>9, <1>11, <2>2
    <3>2. CASE x = a BY <1>14, <1>5, <2>2, <3>2
    <3>3. CASE x # a
      <4>1. PICK e : e = EndIn(H, C, x) OBVIOUS
      <4>2. e \in Nat /\ EndIn(H2, C2, x) = e BY <1>13, <3>1, <3>3, <4>1, HeaderFacts
      <4>3. ~(a < x)
        <5>1. SUFFICES ASSUME a < x PROVE FALSE OBVIOUS
        <5>2. EndIn(H, C, a) <= x BY <1>5, <3>1, <5>1, Between
        <5>3. QED BY <1>5, <1>7, <1>10, <1>17, <2>2, <3>1, <5>2
      <4>4. x < a BY <1>5, <3>1, <3>3, <4>3
      <4>5. e <= a BY <1>5, <3>1, <4>1, <4>4, Between
      <4>6. QED BY <1>5, <2>2, <4>2, <4>5
    <3>4. QED BY <3>2, <3>3
  <2>3. CASE x # b /\ y # b
    <3>1. x \in HeadersIn(C) /\ y \in HeadersIn(C) /\ x \in Nat /\ y \in Nat
      BY <1>9, <1>11, <2>3
    <3>2. EndIn(H, C, x) <= y BY <1>17, <3>1, Between
    <3>3. CASE x = a BY <1>5, <1>7, <1>10, <1>14, <3>1, <3>2, <3>3
    <3>4. CASE x # a BY <1>13, <3>1, <3>2, <3>4
    <3>5. QED BY <3>3, <3>4
  <2>4. QED BY <2>1, <2>2, <2>3
<1>18. m \in HeadersIn(C2) /\ C2[m].next = Null
  <2>1. CASE n = Null BY <1>4, <1>6, <1>11, <2>1
  <2>2. CASE n # Null
    <3>1. l # a BY <1>3, <1>8, <2>2
    <3>2. QED BY <1>4, <1>8, <1>12, <2>2, <3>1
  <2>3. QED BY <2>1, <2>2
<1>19. H2[0].ptr = 0 /\ H2[0].status = "FREE"
  <2>1. CASE f = 0 BY <1>1, <1>6, <1>8, <2>1
  <2>2. CASE f # 0 BY <1>5, <1>6, <1>8, <2>2, AreaFits
  <2>3. QED BY <2>1, <2>2
<1>20. SoundIn(H2, C2, m) BY <1>6, <1>15, <1>16, <1>17, <1>18, <1>19 DEF SoundIn
<1>21. QED BY <1>1, <1>2, <1>3, <1>4, <1>11, <1>12, <1>20

LEMMA PutHeaderIs ==
    ASSUME NEW p \in PoolSet, NEW a \in Addresses, NEW header \in ChunkSet
    PROVE  LET q == PutHeader(p, a, header) IN
           /\ q \in PoolSet /\ q.handles = p.handles /\ q.last = p.last
           /\ q.alloced = p.alloced /\ q.free = p.free
           /\ q.chunks = [p.chunks EXCEPT ![a] = header]
           /\ q.bytes = {x \in p.bytes : x[1] \notin a .. a + Hdr - 1}
<1> DEFINE q == PutHeader(p, a, header)
           D == [p.chunks EXCEPT ![a] = header]
           B == {x \in p.bytes : x[1] \notin a .. a + Hdr - 1}
<1>1. p = [handles |-> p.handles, chunks |-> p.chunks, last |-> p.last,
           alloced |-> p.alloced, free |-> p.free, bytes |-> p.bytes]
  BY PoolFields
<1>2. q = [handles |-> p.handles, chunks |-> D, last |-> p.last,
           alloced |-> p.alloced, free |-> p.free, bytes |-> B]
  <2>1. q = [p EXCEPT !.chunks[a] = header, !.bytes = {x \in @ : x[1] \notin a .. a + Hdr - 1}]
    BY DEF PutHeader
  <2> DEFINE p1 == [p EXCEPT !.chunks[a] = header]
  <2>2. p1 = [handles |-> p.handles, chunks |-> D, last |-> p.last,
              alloced |-> p.alloced, free |-> p.free, bytes |-> p.bytes]
    BY <1>1
  <2>3. q = [p1 EXCEPT !.bytes = {x \in @ : x[1] \notin a .. a + Hdr - 1}] BY <2>1
  <2> HIDE DEF p1, D, q
  <2>4. QED BY <2>2, <2>3
<1>3. D \in [Addresses -> ChunkSet] /\ B \in SUBSET (Addresses \X Handles) BY PoolFields
<1> HIDE DEF q, D, B
<1>4. q \in PoolSet BY <1>2, <1>3, PoolFields DEF PoolSet
<1>5. QED BY <1>2, <1>4 DEF q, D, B

LEMMA TakeEndIs ==
    ASSUME NEW p, SoundPool(p), NEW f, NEW u, NEW size, Room(p.handles, f, u, size)
    PROVE  LET q == TakeEnd(p, f, u, size)
               b == p.handles[f].ptr + (p.handles[f].size - size) IN
           /\ SoundPool(q) /\ Cut(p.handles, p.chunks, f, u, size, q.handles, q.chunks)
           /\ q.bytes = {x \in p.bytes : x[1] \notin b .. b + Hdr - 1}
           /\ q.alloced = p.alloced + size /\ q.free = p.free - (size + Hdr)
<1>1. PICK H, C, l : H = p.handles /\ C = p.chunks /\ l = p.last OBVIOUS
<1>2. PICK a, z : a = H[f].ptr /\ z = H[f].size OBVIOUS
<1>3. PICK b : b = a + (z - size) OBVIOUS
<1>4. PICK n : n = C[a].next OBVIOUS
<1>5. /\ p \in PoolSet /\ SoundIn(H, C, l) /\ Room(H, f, u, size)
      /\ H \in [Handles -> HandleSet] /\ C \in [Addresses -> ChunkSet] /\ l \in Addresses
      /\ p.alloced \in Int /\ p.free \in Int
  BY <1>1, PoolFields DEF SoundPool
<1>6. /\ a \in Addresses /\ b \in Addresses /\ f # u
      /\ n # a /\ n # b /\ a # b /\ n \in Addresses \cup {Null}
      /\ a \in Nat /\ b \in Nat /\ z \in Nat
  BY <1>2, <1>3, <1>4, <1>5, CutPlaces
<1>7. f \in Handles /\ u \in Handles /\ size \in Nat /\ Hdr \in Nat /\ size + Hdr <= z
  BY <1>2, <1>5, AreaFits DEF Room
<1> DEFINE header == [guard |-> "ALOC", next |-> n, prev |-> a, handle |-> u]
           r == PutHeader(p, b, header)
           j == Linked(r, b)
           q == TakeEnd(p, f, u, size)
           D == [C EXCEPT ![b] = header]
           E == IF n = Null THEN D ELSE [D EXCEPT ![n] = [@ EXCEPT !.prev = b]]
           F == [E EXCEPT ![a] = [@ EXCEPT !.next = b]]
           piece == [ptr |-> b, status |-> "ALOC", size |-> size]
           G == [H EXCEPT ![u] = piece]
           k == [H[f] EXCEPT !.size = H[f].size - (size + Hdr)]
           K == [G EXCEPT ![f] = k]
           B == {x \in p.bytes : x[1] \notin b .. b + Hdr - 1}
<1>8. q = [j EXCEPT !.handles[u] = piece,
                    !.handles[f].size = @ - (size + Hdr),
                    !.chunks[a].next = b,
                    !.alloced = @ + size, !.free = @ - (size + Hdr)]
  BY <1>1, <1>2, <1>3, <1>4 DEF TakeEnd
<1> HIDE DEF q
<1>9. header \in ChunkSet BY <1>6, <1>7 DEF ChunkSet, Sigs
<1>10. /\ r \in PoolSet /\ r.handles = H /\ r.last = l /\ r.chunks = D /\ r.bytes = B
       /\ r.alloced = p.alloced /\ r.free = p.free
  <2> HIDE DEF header
  <2>1. QED BY <1>1, <1>5, <1>6, <1>9, PutHeaderIs
<1>11. D \in [Addresses -> ChunkSet] /\ D[b] = header
       /\ \A x \in Addresses : x # b => D[x] = C[x]
  <2> HIDE DEF header
  <2>1. QED BY <1>5, <1>6, <1>9
<1>12. D[b].next = n BY <1>11
<1> HIDE DEF r, D
<1>13. /\ j \in PoolSet /\ j.handles = H /\ j.bytes = B /\ j.chunks = E
       /\ j.alloced = p.alloced /\ j.free = p.free
       /\ j.last = IF n = Null THEN b ELSE l
  BY <1>6, <1>10, <1>12, LinkedIs
<1>14. E \in [Addresses -> ChunkSet] BY <1>13, PoolFields
<1>15. /\ E[b] = header
       /\ n # Null => /\ E[n].guard = C[n].guard /\ E[n].handle = C[n].handle
                      /\ E[n].next = C[n].next /\ E[n].prev = b
       /\ \A x \in Addresses : x # b /\ x # n => E[x] = C[x]
  <2> HIDE DEF header
  <2>1. CASE n = Null BY <1>11, <2>1
  <2>2. CASE n # Null
    <3>1. D[n] = C[n] /\ D[n] \in ChunkSet BY <1>6, <1>11, <2>2
    <3>2. E[n] = [D[n] EXCEPT !.prev = b] BY <1>6, <1>11, <2>2
    <3>3. /\ E[n].guard = C[n].guard /\ E[n].handle = C[n].handle
          /\ E[n].next = C[n].next /\ E[n].prev = b
      BY <3>1, <3>2 DEF ChunkSet
    <3>4. \A x \in Addresses : x # n => E[x] = D[x] BY <1>6, <1>11, <2>2
    <3>5. QED BY <1>6, <1>11, <3>3, <3>4
  <2>3. QED BY <2>1, <2>2
<1> HIDE DEF E, j
<1>16. /\ F \in [Addresses -> ChunkSet] /\ F[b] = header
       /\ F[a].guard = C[a].guard /\ F[a].handle = C[a].handle /\ F[a].prev = C[a].prev
       /\ F[a].next = b
       /\ n # Null => /\ F[n].guard = C[n].guard /\ F[n].handle = C[n].handle
                      /\ F[n].next = C[n].next /\ F[n].prev = b
       /\ \A x \in Addresses : x # a /\ x # b /\ x # n => F[x] = C[x]
  <2> HIDE DEF header
  <2>1. E[a] = C[a] /\ E[a] \in ChunkSet BY <1>6, <1>14, <1>15
  <2>2. /\ [E[a] EXCEPT !.next = b] \in ChunkSet
        /\ [E[a] EXCEPT !.next = b].guard = C[a].guard
        /\ [E[a] EXCEPT !.next = b].handle = C[a].handle
        /\ [E[a] EXCEPT !.next = b].prev = C[a].prev
        /\ [E[a] EXCEPT !.next = b].next = b
    BY <1>6, <2>1 DEF ChunkSet
  <2>3. /\ F \in [Addresses -> ChunkSet] /\ F[a] = [E[a] EXCEPT !.next = b]
        /\ \A x \in Addresses : x # a => F[x] = E[x]
    BY <1>6, <1>14, <2>2
  <2> HIDE DEF F
  <2>4. QED BY <1>6, <1>15, <2>2, <2>3
<1>17. /\ K \in [Handles -> HandleSet] /\ K[u] = piece
       /\ K[f].ptr = H[f].ptr /\ K[f].status = H[f].status /\ K[f].size = z - (size + Hdr)
       /\ \A x \in Handles : x # f /\ x # u => K[x] = H[x]
       /\ G[f] = H[f]
  <2>1. piece \in HandleSet BY <1>6, <1>7 DEF HandleSet, Sigs
  <2>2. H[f] \in HandleSet /\ z - (size + Hdr) \in Int BY <1>5, <1>6, <1>7
  <2>3. k \in HandleSet /\ k.ptr = H[f].ptr /\ k.status = H[f].status /\ k.size = z - (size + Hdr)
    BY <1>2, <2>2 DEF HandleSet
  <2> HIDE DEF piece
  <2>4. /\ G \in [Handles -> HandleSet] /\ G[u] = piece
        /\ \A x \in Handles : x # u => G[x] = H[x]
    BY <1>5, <1>7, <2>1
  <2> HIDE DEF G
  <2>5. G[f] = H[f] BY <1>6, <1>7, <2>4
  <2> HIDE DEF k
  <2>6. QED BY <1>6, <1>7, <2>3, <2>4, <2>5
<1>18. q = [handles |-> K, chunks |-> F, last |-> j.last, alloced |-> j.alloced + size,
            free |-> j.free - (size + Hdr), bytes |-> B]
  <2>1. j = [handles |-> H, chunks |-> E, last |-> j.last, alloced |-> j.alloced,
             free |-> j.free, bytes |-> B]
    BY <1>13, PoolFields
  <2> HIDE DEF piece
  <2> DEFINE j1 == [j EXCEPT !.handles[u] = piece]
             j2 == [j1 EXCEPT !.handles[f].size = j.handles[f].size - (size + Hdr)]
             j3 == [j2 EXCEPT !.chunks[a].next = b]
             j4 == [j3 EXCEPT !.alloced = j.alloced + size]
  <2>2. j1 = [handles |-> G, chunks |-> E, last |-> j.last,
              alloced |-> j.alloced, free |-> j.free, bytes |-> B]
    <3> HIDE DEF B
    <3> QED BY <2>1
  <2>3. j2 = [handles |-> K, chunks |-> E, last |-> j.last,
              alloced |-> j.alloced, free |-> j.free, bytes |-> B]
    <3>1. j.handles = H /\ G[f] = H[f] BY <1>13, <1>17
    <3> HIDE DEF j1, B, G
    <3>2. QED BY <2>2, <3>1
  <2>4. j3 = [handles |-> K, chunks |-> F, last |-> j.last,
              alloced |-> j.alloced, free |-> j.free, bytes |-> B]
    <3> HIDE DEF j2, K, B
    <3> QED BY <2>3
  <2>5. j4 = [handles |-> K, chunks |-> F, last |-> j.last,
              alloced |-> j.alloced + size, free |-> j.free, bytes |-> B]
    <3> HIDE DEF j3, K, F, B
    <3> QED BY <2>4
  <2>6. q = [j4 EXCEPT !.free = j.free - (size + Hdr)] BY <1>8
  <2> HIDE DEF j4, K, F, B
  <2>7. QED BY <2>5, <2>6
<1> HIDE DEF F, K, G, k
<1>19. Cut(H, C, f, u, size, K, F)
  <2>1. F[b].guard = "ALOC" /\ F[b].handle = u /\ F[b].prev = a /\ F[b].next = n BY <1>16
  <2>2. K[u].ptr = b /\ K[u].status = "ALOC" /\ K[u].size = size BY <1>17
  <2> HIDE DEF header, piece
  <2>3. QED BY <1>2, <1>3, <1>4, <1>16, <1>17, <2>1, <2>2 DEF Cut
<1> HIDE DEF header, piece
<1>20. q \in PoolSet
  <2>1. /\ j.last \in Addresses /\ j.alloced + size \in Int /\ j.free - (size + Hdr) \in Int
    BY <1>5, <1>6, <1>7, <1>13
  <2>2. B \in SUBSET (Addresses \X Handles) BY <1>13, PoolFields
  <2> HIDE DEF B
  <2>3. QED BY <1>16, <1>17, <1>18, <2>1, <2>2 DEF PoolSet
<1>21. /\ q.handles = K /\ q.chunks = F /\ q.bytes = B /\ q.last = IF n = Null THEN b ELSE l
       /\ q.alloced = p.alloced + size /\ q.free = p.free - (size + Hdr)
  <2> HIDE DEF B
  <2>1. QED BY <1>13, <1>18
<1>22. SoundIn(K, F, IF n = Null THEN b ELSE l)
  BY <1>2, <1>3, <1>4, <1>5, <1>19, CutSound
<1>23. SoundPool(q) BY <1>20, <1>21, <1>22 DEF SoundPool
<1>24. QED BY <1>1, <1>2, <1>3, <1>19, <1>21, <1>23 DEF q

\* What the program holds is as before, with the new chunk, and there is no new pair of
\* free neighbours.
LEMMA TakeEndKeeps ==
    ASSUME NEW p, SoundPool(p), NEW f, NEW u, NEW size, Room(p.handles, f, u, size),
           NoFreePair(p.chunks)
    PROVE  LET q == TakeEnd(p, f, u, size) IN
           SoundPool(q) /\ Carries(p, q) /\ NoFreePair(q.chunks) /\ f \in Free(q)
<1>1. PICK H, C, l : H = p.handles /\ C = p.chunks /\ l = p.last OBVIOUS
<1>2. PICK a, z : a = H[f].ptr /\ z = H[f].size OBVIOUS
<1>3. PICK b : b = a + (z - size) OBVIOUS
<1>4. PICK q : q = TakeEnd(p, f, u, size) OBVIOUS
<1>5. PICK K, F : K = q.handles /\ F = q.chunks OBVIOUS
<1>6. /\ SoundPool(q) /\ Cut(H, C, f, u, size, K, F)
      /\ q.bytes = {x \in p.bytes : x[1] \notin b .. b + Hdr - 1}
      /\ q.alloced = p.alloced + size /\ q.free = p.free - (size + Hdr)
  BY <1>1, <1>2, <1>3, <1>4, <1>5, TakeEndIs
<1>7. SoundIn(H, C, l) /\ Room(H, f, u, size) BY <1>1 DEF SoundPool
<1>8. /\ a \in HeadersIn(C) /\ a \in Nat /\ b \in Nat /\ a + Hdr <= b /\ a < b
      /\ b \notin HeadersIn(C)
      /\ b + Hdr + size = EndIn(H, C, a) /\ C[a].handle = f /\ f # u
  BY <1>2, <1>3, <1>7, CutPlaces
<1>9. /\ HeadersIn(F) = HeadersIn(C) \cup {b}
      /\ \A x \in HeadersIn(C) : /\ F[x].guard = C[x].guard
                                 /\ x # a => F[x].next = C[x].next
  BY <1>2, <1>3, <1>6, <1>7, CutSound
<1>10. /\ F[a].next = b /\ F[b].guard = "ALOC"
       /\ K[f].ptr = a /\ K[f].status = H[f].status /\ K[f].size = H[f].size - (size + Hdr)
       /\ K[u].ptr = b /\ K[u].status = "ALOC" /\ K[u].size = size
       /\ \A x \in Handles : x # f /\ x # u => K[x] = H[x]
  BY <1>2, <1>3, <1>6 DEF Cut
<1>11. NoFreePair(F)
  <2> SUFFICES ASSUME NEW x \in HeadersIn(F), FreePair(F, x) PROVE FALSE BY DEF NoFreePair
  <2>1. x # a /\ x # b BY <1>10 DEF FreePair
  <2>2. x \in HeadersIn(C) /\ F[x].next = C[x].next /\ F[x].guard = C[x].guard
    BY <1>9, <2>1
  <2>3. C[x].next # Null BY <2>2 DEF FreePair
  <2>4. C[x].next \in HeadersIn(C) BY <1>7, <2>2, <2>3, HeaderFacts
  <2>5. F[C[x].next].guard = C[C[x].next].guard BY <1>9, <2>4
  <2>6. FreePair(C, x) BY <2>2, <2>3, <2>5 DEF FreePair
  <2>7. QED BY <1>1, <2>2, <2>6 DEF NoFreePair
<1>12. f \in Free(q)
  <2>1. f \in Handles /\ H[f].status = "FREE" /\ a # Null
    BY <1>2, <1>7 DEF Room
  <2>2. QED BY <1>5, <1>10, <2>1 DEF Free, Used
<1>13. Carries(p, q)
  <2>1. ASSUME NEW x \in Held(p)
        PROVE  x \in Held(q) /\ q.handles[x] = p.handles[x]
    <3>1. x \in Handles /\ H[x].ptr # Null /\ H[x].status # "FREE"
      BY <1>1 DEF Held, Free, Used
    <3>2. x # f /\ x # u BY <1>7, <3>1 DEF Room
    <3>3. K[x] = H[x] BY <1>10, <3>1, <3>2
    <3>4. QED BY <1>1, <1>5, <3>1, <3>3 DEF Held, Free, Used
  <2>2. ASSUME NEW x \in Held(p), NEW s \in Payload(p, x), <<s, x>> \in p.bytes
        PROVE  <<s, x>> \in q.bytes
    <3>1. x \in Used(p) /\ H[x].status # "FREE" BY <1>1 DEF Held, Free
    <3>2. PICK y : y = H[x].ptr OBVIOUS
    <3>3. y \in HeadersIn(C) /\ y \in Nat /\ C[y].guard # "FREE" BY <1>1, <3>1, <3>2, ChunkFacts
    <3>4. s \in Int /\ y + Hdr <= s /\ s < EndIn(H, C, y) BY <1>1, <3>1, <3>2, PayloadIs
    <3>5. y # a
      <4>1. C[a].guard = "FREE" BY <1>2, <1>7, CutPlaces
      <4>2. QED BY <3>3, <4>1
    <3>6. Hdr \in Nat /\ y <= s BY <3>3, <3>4, AreaFits
    <3>7. ~(a <= s /\ s < EndIn(H, C, a)) BY <1>7, <1>8, <3>3, <3>4, <3>5, <3>6, Apart
    <3>8. size \in Nat BY <1>7 DEF Room
    <3>9. s \notin b .. b + Hdr - 1 BY <1>8, <3>4, <3>6, <3>7, <3>8
    <3>10. QED BY <1>6, <2>2, <3>9
  <2>3. ASSUME Accounted(p) PROVE Accounted(q)
    <3>1. /\ f \in Handles /\ u \in Handles /\ H[f].status = "FREE" /\ H[f].ptr # Null
          /\ H[u].ptr = Null /\ size \in Int /\ a # Null /\ b # Null
      BY <1>7, <1>8, <1>2, AreaFits DEF Room, Null
    <3>2. f \in Free(p) /\ u \notin Used(p) BY <1>1, <3>1 DEF Free, Used
    <3>3. ASSUME NEW x \in Handles
          PROVE  /\ x \in Free(q) <=> x \in Free(p)
                 /\ x \in Held(q) <=> x \in Held(p) \/ x = u
      <4>1. CASE x = f BY <1>1, <1>5, <1>8, <1>10, <3>1, <4>1 DEF Held, Free, Used
      <4>2. CASE x = u BY <1>1, <1>5, <1>8, <1>10, <3>1, <4>2 DEF Held, Free, Used
      <4>3. CASE x # f /\ x # u BY <1>1, <1>5, <1>10, <4>3 DEF Held, Free, Used
      <4>4. QED BY <4>1, <4>2, <4>3
    <3>4. Free(q) = Free(p) /\ Held(q) = Held(p) \cup {u}
      <4>1. \A r : Free(r) \subseteq Handles /\ Held(r) \subseteq Handles
        BY DEF Held, Free, Used
      <4>2. QED BY <3>1, <3>3, <4>1
    <3>5. /\ q.handles[f].size = p.handles[f].size - (size + Hdr) /\ q.handles[u].size = size
          /\ \A x \in Handles : x # f /\ x # u => q.handles[x].size = p.handles[x].size
      BY <1>1, <1>5, <1>10
    <3>6. QED BY <1>6, <2>3, <3>1, <3>2, <3>4, <3>5, AccountsCut
  <2>4. QED BY <2>1, <2>2, <2>3, CarriesSame
<1>14. QED BY <1>4, <1>5, <1>6, <1>11, <1>12, <1>13

-----------------------------------------------------------------------------
(* Choosing a handle *)

\* The greatest of handle 0 and some others.
LEMMA MaxIs ==
    ASSUME NEW T, T \subseteq Handles
    PROVE  LET m == Max({0} \cup T) IN
           m \in {0} \cup T /\ \A k \in T : m \in Nat /\ k \in Nat /\ k <= m
<1> DEFINE S == {0} \cup T
           N == 2 * Chunks
           U == {N - k : k \in S}
<1>1. N \in Nat BY PoolAssumption
<1>2. \A k \in S : k \in Nat /\ k <= N /\ N - k \in Nat
  <2>1. \A k \in Handles : k \in Nat /\ k <= N BY <1>1 DEF Handles
  <2>2. \A k \in S : k \in Nat /\ k <= N BY <1>1, <2>1
  <2> HIDE DEF S, N
  <2>3. QED BY <1>1, <2>2
<1>3. 0 \in S OBVIOUS
<1> HIDE DEF S, N
<1>4. U \subseteq Nat /\ U # {} BY <1>2, <1>3
<1>5. PICK n \in U : \A m \in U : n <= m
  <2> HIDE DEF U
  <2>1. QED BY <1>4, LeastOf
<1>6. PICK g \in S : n = N - g BY <1>5
<1>7. \A k \in S : g >= k
  <2> TAKE k \in S
  <2>1. N - k \in U OBVIOUS
  <2> HIDE DEF U
  <2>2. N - g <= N - k BY <1>5, <1>6, <2>1
  <2>3. QED BY <1>1, <1>2, <2>2
<1>8. Max(S) \in S /\ \A k \in S : Max(S) >= k
  <2>1. \E x \in S : \A y \in S : x >= y BY <1>7
  <2>2. Max(S) = CHOOSE x \in S : \A y \in S : x >= y BY DEF Max
  <2>3. QED BY <2>1, <2>2
<1>9. PICK m : m = Max(S) OBVIOUS
<1>10. m \in S /\ \A k \in S : m >= k BY <1>8, <1>9
<1>11. m \in {0} \cup T /\ \A k \in T : k \in S BY <1>10 DEF S
<1>12. m \in {0} \cup T /\ \A k \in T : m \in Nat /\ k \in Nat /\ k <= m
  <2>1. m \in Nat BY <1>2, <1>10
  <2>2. \A k \in T : k \in Nat /\ m >= k BY <1>2, <1>10, <1>11
  <2>3. QED BY <1>11, <2>1, <2>2
<1>13. QED BY <1>9, <1>12 DEF S

\* SmallHandle returns a free chunk that is large enough whenever there is one.
LEMMA SmallHandleIs ==
    ASSUME NEW p, SoundPool(p), NEW size \in Int
    PROVE  LET s == SmallHandle(p, size) IN
           /\ s # 0 => s \in Free(p) /\ p.handles[s].size >= size
           /\ s = 0 => \A h \in Free(p) : h # 0 => p.handles[h].size < size
<1> DEFINE fits == {h \in Free(p) \ {0} : p.handles[h].size >= size}
           T == {h \in fits : \A g \in fits : p.handles[h].size <= p.handles[g].size}
<1>1. PICK s : s = SmallHandle(p, size) OBVIOUS
<1>2. s = Max({0} \cup T) BY <1>1 DEF SmallHandle
<1>3. \A h \in Free(p) : h \in Handles /\ p.handles[h].size \in Nat
  <2>1. \A h \in Free(p) : h \in Used(p) BY DEF Free
  <2>2. QED BY <2>1, ChunkFacts
<1>4. T \subseteq Handles BY <1>3
<1>5. T \subseteq fits OBVIOUS
<1>6. s \in {0} \cup T /\ \A k \in T : s \in Nat /\ k \in Nat /\ k <= s
  <2> HIDE DEF T, fits
  <2>1. QED BY <1>2, <1>4, MaxIs
<1>7. s # 0 => s \in Free(p) /\ p.handles[s].size >= size BY <1>6
<1>8. ASSUME s = 0, NEW h \in Free(p), h # 0 PROVE p.handles[h].size < size
  <2>1. SUFFICES ASSUME h \in fits PROVE FALSE BY <1>3, <1>8
  <2> DEFINE Z == {p.handles[g].size : g \in fits}
  <2>2. Z \subseteq Nat /\ Z # {} BY <1>3, <2>1
  <2>3. PICK z \in Z : \A y \in Z : z <= y
    <3> HIDE DEF Z
    <3>1. QED BY <2>2, LeastOf
  <2>4. PICK g \in fits : z = p.handles[g].size BY <2>3
  <2>5. g \in T BY <2>3, <2>4
  <2>6. g # 0 OBVIOUS
  <2> HIDE DEF T, fits
  <2>7. QED BY <1>6, <1>8, <2>5, <2>6
<1>9. QED BY <1>1, <1>7, <1>8

LEMMA UnusedHandleIs ==
    ASSUME NEW p
    PROVE  LET u == UnusedHandle(p) IN
           /\ u # 0 => u \in Handles /\ p.handles[u].ptr = Null
           /\ u = 0 => \A h \in Handles : h # 0 => h \in Used(p)
<1> DEFINE T == Handles \ Used(p)
<1>1. PICK u : u = UnusedHandle(p) OBVIOUS
<1>2. u = Max({0} \cup T) BY <1>1 DEF UnusedHandle
<1>3. u \in {0} \cup T /\ \A k \in T : u \in Nat /\ k \in Nat /\ k <= u
  <2>1. T \subseteq Handles OBVIOUS
  <2> HIDE DEF T
  <2>2. QED BY <1>2, <2>1, MaxIs
<1>4. u # 0 => u \in Handles /\ p.handles[u].ptr = Null BY <1>3 DEF Used
<1>5. ASSUME u = 0, NEW h \in Handles, h # 0 PROVE h \in Used(p)
  <2>1. SUFFICES ASSUME h \in T PROVE FALSE OBVIOUS
  <2> HIDE DEF T
  <2>2. QED BY <1>3, <1>5, <2>1
<1>6. QED BY <1>1, <1>4, <1>5

-----------------------------------------------------------------------------
(* A new status and the free neighbours *)

LEMMA StatusPairs ==
    ASSUME NEW p, SoundPool(p), NEW h \in Used(p), h # 0, NEW sig \in Sigs,
           NoFreePair(p.chunks)
    PROVE  LET q == SetStatus(p, h, sig) IN
           /\ sig # "FREE" => NoFreePair(q.chunks)
           /\ FreeBeside(q.chunks, h)
<1>1. PICK q : q = SetStatus(p, h, sig) OBVIOUS
<1>2. PICK a : a = p.handles[h].ptr OBVIOUS
<1>3. PICK H, C, l, F : H = p.handles /\ C = p.chunks /\ l = p.last /\ F = q.chunks OBVIOUS
<1>4. SoundIn(H, C, l) BY <1>3 DEF SoundPool
<1>5. /\ HeadersIn(F) = HeadersIn(C) /\ F[a].guard = sig
      /\ \A x \in HeadersIn(C) : /\ F[x].next = C[x].next /\ F[x].handle = C[x].handle
                                 /\ x # a => F[x] = C[x]
  BY <1>1, <1>2, <1>3, SetStatusIs
<1>6. a \in HeadersIn(C) /\ C[a].handle = h BY <1>2, <1>3, ChunkFacts
<1>7. ASSUME NEW x \in HeadersIn(F), FreePair(F, x)
      PROVE  sig = "FREE" /\ (F[x].handle = h \/ F[F[x].next].handle = h)
  <2>1. PICK y : y = F[x].next OBVIOUS
  <2>2. x \in HeadersIn(C) /\ C[x].next = y /\ y # Null /\ F[x].guard = "FREE" /\ F[y].guard = "FREE"
    BY <1>5, <1>7, <2>1 DEF FreePair
  <2>3. y \in HeadersIn(C) BY <1>4, <2>2, HeaderFacts
  <2>4. CASE x = a BY <1>5, <1>6, <2>2, <2>4
  <2>5. CASE y = a BY <1>5, <1>6, <2>1, <2>2, <2>3, <2>5
  <2>6. CASE x # a /\ y # a
    <3>1. FreePair(C, x) BY <1>5, <2>2, <2>3, <2>6 DEF FreePair
    <3>2. QED BY <1>3, <2>2, <3>1 DEF NoFreePair
  <2>7. QED BY <2>4, <2>5, <2>6
<1>8. sig # "FREE" => NoFreePair(F) BY <1>7 DEF NoFreePair
<1>9. FreeBeside(F, h) BY <1>7 DEF FreeBeside
<1>10. QED BY <1>1, <1>3, <1>8, <1>9

LEMMA AsIsKeeps ==
    ASSUME NEW p, SoundPool(p), NEW h \in Free(p), h # 0, NoFreePair(p.chunks)
    PROVE  LET q == AsIs(p, h) IN
           SoundPool(q) /\ Carries(p, q) /\ NoFreePair(q.chunks)
<1>1. PICK r : r = SetStatus(p, h, "ALOC") OBVIOUS
<1>2. PICK z : z = p.handles[h].size OBVIOUS
<1>3. PICK q : q = AsIs(p, h) OBVIOUS
<1>4. h \in Used(p) /\ p.handles[h].status = "FREE" /\ "ALOC" \in Sigs /\ "ALOC" # "FREE"
  BY DEF Free, Sigs
<1>5. /\ SoundPool(r) /\ r.bytes = p.bytes /\ r.handles[h].ptr = p.handles[h].ptr
      /\ r.handles[h].size = z /\ r.handles[h].status = "ALOC"
      /\ r.free = p.free /\ r.alloced = p.alloced
      /\ \A x \in Handles : x # h => r.handles[x] = p.handles[x]
  BY <1>1, <1>2, <1>4, SetStatusIs
<1>6. NoFreePair(r.chunks) BY <1>1, <1>4, StatusPairs
<1>7. r \in PoolSet /\ z \in Int /\ h \in Handles
  BY <1>2, <1>4, <1>5, ChunkFacts DEF SoundPool
<1>8. q = [r EXCEPT !.alloced = @ + z, !.free = @ - z] BY <1>1, <1>2, <1>3 DEF AsIs
<1>9. /\ q \in PoolSet /\ q.handles = r.handles /\ q.chunks = r.chunks /\ q.last = r.last
      /\ q.bytes = r.bytes /\ q.free = r.free - z /\ q.alloced = r.alloced + z
  <2>1. q = [handles |-> r.handles, chunks |-> r.chunks, last |-> r.last,
             alloced |-> r.alloced + z, free |-> r.free - z, bytes |-> r.bytes]
    <3>1. r = [handles |-> r.handles, chunks |-> r.chunks, last |-> r.last,
               alloced |-> r.alloced, free |-> r.free, bytes |-> r.bytes]
      BY <1>7, PoolFields
    <3>2. QED BY <1>8, <3>1
  <2>2. r.alloced + z \in Int /\ r.free - z \in Int BY <1>7, PoolFields
  <2>3. QED BY <1>7, <2>1, <2>2, PoolFields DEF PoolSet
<1>10. SoundPool(q) BY <1>5, <1>9, SameShape
<1>11. ASSUME NEW x \in Held(p) PROVE x \in Held(q) /\ q.handles[x] = p.handles[x]
  <2>1. x \in Handles /\ p.handles[x].ptr # Null /\ p.handles[x].status # "FREE"
    BY DEF Held, Free, Used
  <2>2. x # h BY <1>4, <2>1
  <2>3. q.handles[x] = p.handles[x] BY <1>5, <1>9, <2>1, <2>2
  <2>4. QED BY <2>1, <2>3 DEF Held, Free, Used
<1>12. q.bytes = p.bytes BY <1>5, <1>9
<1>13. ASSUME Accounted(p) PROVE Accounted(q)
  <2>1. ASSUME NEW x \in Handles
        PROVE  /\ x \in Free(q) <=> x \in Free(p) /\ x # h
               /\ x \in Held(q) <=> x \in Held(p) \/ x = h
               /\ q.handles[x].size = p.handles[x].size
    <3>1. p.handles[h].ptr # Null BY <1>4 DEF Used
    <3>2. CASE x = h BY <1>2, <1>4, <1>5, <1>9, <3>1, <3>2 DEF Held, Free, Used
    <3>3. CASE x # h BY <1>5, <1>9, <3>3 DEF Held, Free, Used
    <3>4. QED BY <3>2, <3>3
  <2>2. Free(q) = Free(p) \ {h} /\ Held(q) = Held(p) \cup {h}
    <3>1. \A s : Free(s) \subseteq Handles /\ Held(s) \subseteq Handles
      BY DEF Held, Free, Used
    <3>2. QED BY <1>7, <2>1, <3>1
  <2>3. q.free = p.free - p.handles[h].size /\ q.alloced = p.alloced + p.handles[h].size
    BY <1>2, <1>5, <1>9
  <2>4. \A x \in Handles : q.handles[x].size = p.handles[x].size BY <2>1
  <2>5. QED BY <1>13, <2>2, <2>3, <2>4, AccountsTaken
<1>14. Carries(p, q) BY <1>11, <1>12, <1>13, CarriesSame
<1>15. QED BY <1>3, <1>6, <1>9, <1>10, <1>14

-----------------------------------------------------------------------------
(* Taking memory *)

LEMMA KeepTyped == Keep \in Int /\ Keep >= Hdr /\ Hdr \in Nat
<1>1. NoSplit \in Nat /\ Hdr \in Nat BY PoolAssumption
<1>2. QED BY <1>1 DEF Keep

\* With no free neighbours a split is always at the end of the chunk: there is nothing
\* the rest could join.
LEMMA NoneBehindFree ==
    ASSUME NEW p, SoundPool(p), NoFreePair(p.chunks), NEW h \in Free(p)
    PROVE  ~NextIsFree(p, h)
<1>1. PICK a : a = p.handles[h].ptr OBVIOUS
<1>2. h \in Used(p) /\ p.handles[h].status = "FREE" BY DEF Free
<1>3. a \in HeadersIn(p.chunks) /\ p.chunks[a].guard = "FREE" BY <1>1, <1>2, ChunkFacts
<1>4. QED BY <1>1, <1>3 DEF NextIsFree, NoFreePair, FreePair

LEMMA AttemptIs ==
    ASSUME NEW p, SoundPool(p), NoFreePair(p.chunks), NEW size \in Int, size > 0,
           attempt_to_alloc(p, size)
    PROVE  \/ UnusedHandle(p) = 0 /\ Corrupt
           \/ /\ SoundPool(pool') /\ Carries(p, pool') /\ NoFreePair(pool'.chunks)
              /\ out'.handle # 0
              /\ \/ op' = "idle"
                 \/ op' = "merge" /\ handle' \in Free(pool') /\ handle' # 0
<1>1. PICK s, u : s = SmallHandle(p, size) /\ u = UnusedHandle(p) OBVIOUS
<1>2. size \in Nat BY SMT
<1>3. s # 0 => s \in Free(p) /\ p.handles[s].size >= size BY <1>1, SmallHandleIs
<1>4. u # 0 => u \in Handles /\ p.handles[u].ptr = Null BY <1>1, UnusedHandleIs
<1>5. CASE /\ FromZero(p, size)
           /\ IF UnusedHandle(p) = 0 THEN Corrupt
              ELSE Return(TakeEnd(p, 0, UnusedHandle(p), size), size, UnusedHandle(p))
  <2>1. CASE u = 0 BY <1>1, <1>5, <2>1
  <2>2. CASE u # 0
    <3>1. PICK q : q = TakeEnd(p, 0, u, size) OBVIOUS
    <3>2. Room(p.handles, 0, u, size)
      <4>1. p.handles[0].size >= size + Hdr BY <1>5 DEF FromZero
      <4>2. p.handles[0].ptr = 0 /\ p.handles[0].status = "FREE" /\ 0 \in Handles /\ 0 # Null
        BY AreaFits DEF SoundPool, SoundIn
      <4>3. 0 \in Used(p) BY <4>2 DEF Used
      <4>4. p.handles[0].size \in Nat BY <4>3, ChunkFacts
      <4>5. size + Hdr <= p.handles[0].size BY <1>2, <4>1, <4>4, AreaFits
      <4>6. QED BY <1>2, <1>4, <2>2, <4>2, <4>5 DEF Room
    <3>3. SoundPool(q) /\ Carries(p, q) /\ NoFreePair(q.chunks) BY <3>1, <3>2, TakeEndKeeps
    <3>4. pool' = q /\ op' = "idle" /\ out' = [size |-> size, handle |-> u]
      BY <1>1, <1>5, <2>2, <3>1 DEF Return
    <3>5. QED BY <2>2, <3>3, <3>4
  <2>3. QED BY <2>1, <2>2
<1>6. CASE s # 0 /\ Return(AsIs(p, s), size, s)
  <2>1. PICK q : q = AsIs(p, s) OBVIOUS
  <2>2. SoundPool(q) /\ Carries(p, q) /\ NoFreePair(q.chunks) BY <1>3, <1>6, <2>1, AsIsKeeps
  <2>3. pool' = q /\ op' = "idle" /\ out' = [size |-> size, handle |-> s]
    BY <1>6, <2>1 DEF Return
  <2>4. QED BY <1>6, <2>2, <2>3
<1>7. CASE s # 0 /\ size < p.handles[s].size - Keep /\ Split(p, s, size)
  <2>1. ~NextIsFree(p, s) BY <1>3, <1>7, NoneBehindFree
  <2>2. CASE u = 0 BY <1>1, <1>7, <2>2 DEF Split
  <2>3. CASE u # 0
    <3>1. PICK q : q = TakeEnd(p, s, u, size) OBVIOUS
    <3>2. Room(p.handles, s, u, size)
      <4>1. s \in Used(p) /\ p.handles[s].status = "FREE" BY <1>3, <1>7 DEF Free
      <4>2. p.handles[s].size \in Nat BY <4>1, ChunkFacts
      <4>3. size + Hdr <= p.handles[s].size BY <1>2, <1>7, <4>2, KeepTyped
      <4>4. QED BY <1>2, <1>4, <2>3, <4>1, <4>3 DEF Room, Used
    <3>3. SoundPool(q) /\ Carries(p, q) /\ NoFreePair(q.chunks) /\ s \in Free(q)
      BY <3>1, <3>2, TakeEndKeeps
    <3>4. /\ pool' = q /\ op' = "merge" /\ handle' = s
          /\ out' = [size |-> size, handle |-> u]
      BY <1>1, <1>7, <2>1, <2>3, <3>1 DEF Split
    <3>5. QED BY <1>7, <2>3, <3>3, <3>4
  <2>4. QED BY <2>2, <2>3
<1>8. QED BY <1>1, <1>5, <1>6, <1>7 DEF attempt_to_alloc

\* Without free neighbours each free chunk but the first has one the program holds
\* in front of it.
LEMMA HandlesCounted ==
    ASSUME NEW p, SoundPool(p), NoFreePair(p.chunks)
    PROVE  /\ IsFiniteSet(Held(p)) /\ Cardinality(Held(p)) \in Nat
           /\ Cardinality(Held(p)) < Chunks => UnusedHandle(p) # 0
<1>1. PICK H, C, l : H = p.handles /\ C = p.chunks /\ l = p.last OBVIOUS
<1>2. SoundIn(H, C, l) BY <1>1 DEF SoundPool
<1> DEFINE S == Free(p) \ {0}
           T == Held(p)
           f == [h \in S |-> C[C[H[h].ptr].prev].handle]
<1>3. IsFiniteSet(Handles) /\ Cardinality(Handles) = 2 * Chunks
  <2>1. Chunks \in Nat /\ Chunks >= 1 BY PoolAssumption
  <2>2. 2 * Chunks - 1 \in Int /\ ~(0 > 2 * Chunks - 1) BY <2>1
  <2>3. /\ IsFiniteSet(0 .. 2 * Chunks - 1)
        /\ Cardinality(0 .. 2 * Chunks - 1) = IF 0 > 2 * Chunks - 1 THEN 0 ELSE 2 * Chunks - 1 - 0 + 1
    BY <2>2, FS_Interval
  <2>4. QED BY <2>1, <2>2, <2>3 DEF Handles
<1>4. S \subseteq Handles /\ T \subseteq Handles BY DEF Free, Held, Used
<1>5. /\ IsFiniteSet(S) /\ IsFiniteSet(T) /\ Cardinality(S) \in Nat /\ Cardinality(T) \in Nat
  <2> HIDE DEF S, T
  <2>1. QED BY <1>3, <1>4, FS_Subset, FS_CardinalityType
<1>6. ASSUME NEW h \in S
      PROVE  LET y == C[H[h].ptr].prev IN
             /\ y \in HeadersIn(C) /\ C[y].next = H[h].ptr /\ C[y].handle \in T
  <2>1. PICK a : a = H[h].ptr OBVIOUS
  <2>2. PICK y : y = C[a].prev OBVIOUS
  <2>3. h \in Used(p) /\ H[h].status = "FREE" /\ h # 0 BY <1>1 DEF Free
  <2>4. a \in HeadersIn(C) /\ C[a].guard = "FREE" /\ a # 0 /\ a \in Addresses
    BY <1>1, <2>1, <2>3, ChunkFacts
  <2>5. y # Null BY <1>2, <2>2, <2>4, HeaderFacts
  <2>6. /\ y \in HeadersIn(C) /\ C[y].next = a /\ C[y].handle \in Handles
        /\ H[C[y].handle].ptr = y /\ H[C[y].handle].status = C[y].guard
    BY <1>2, <2>2, <2>4, <2>5, NeighbourFacts
  <2>7. a # Null BY <2>4, AreaFits
  <2>8. C[y].guard # "FREE" BY <1>1, <2>4, <2>6, <2>7 DEF NoFreePair, FreePair
  <2>9. C[y].handle \in T BY <1>1, <2>5, <2>6, <2>8 DEF Held, Free, Used
  <2>10. QED BY <2>1, <2>2, <2>6, <2>9
<1>7. f \in [S -> T] BY <1>6
<1>8. ASSUME NEW x \in S, NEW y \in S, f[x] = f[y] PROVE x = y
  <2>1. PICK a, b : a = C[H[x].ptr].prev /\ b = C[H[y].ptr].prev OBVIOUS
  <2>2. /\ a \in HeadersIn(C) /\ C[a].next = H[x].ptr
        /\ b \in HeadersIn(C) /\ C[b].next = H[y].ptr
    BY <1>6, <2>1
  <2>3. C[a].handle = C[b].handle BY <1>8, <2>1
  <2>4. a = b BY <1>2, <2>2, <2>3, OneHandle
  <2>5. x \in Used(p) /\ y \in Used(p) BY DEF Free
  <2>6. C[H[x].ptr].handle = x /\ C[H[y].ptr].handle = y BY <1>1, <2>5, ChunkFacts
  <2>7. QED BY <2>2, <2>4, <2>6
<1> HIDE DEF f
<1>9. Cardinality(S) <= Cardinality(T)
  <2>1. SUFFICES ASSUME Cardinality(T) < Cardinality(S) PROVE FALSE BY <1>5
  <2> HIDE DEF S, T
  <2>2. \E x, y \in S : x # y /\ f[x] = f[y] BY <1>5, <1>7, <2>1, FS_PigeonHole
  <2>3. QED BY <1>8, <2>2
<1>10. ASSUME Cardinality(T) < Chunks, UnusedHandle(p) = 0 PROVE FALSE
  <2>1. Handles \subseteq (S \cup T) \cup {0}
    <3>1. \A h \in Handles : h # 0 => h \in Used(p) BY <1>10, UnusedHandleIs
    <3>2. QED BY <3>1 DEF Held
  <2> HIDE DEF S, T
  <2>2. /\ IsFiniteSet(S \cup T)
        /\ Cardinality(S \cup T) = Cardinality(S) + Cardinality(T) - Cardinality(S \cap T)
    BY <1>5, FS_Union
  <2>3. IsFiniteSet(S \cap T) /\ Cardinality(S \cap T) \in Nat
    BY <1>5, FS_Intersection, FS_CardinalityType
  <2>4. Cardinality(S \cup T) \in Nat BY <2>2, FS_CardinalityType
  <2>5. /\ IsFiniteSet((S \cup T) \cup {0})
        /\ Cardinality((S \cup T) \cup {0}) <= Cardinality(S \cup T) + 1
    BY <2>2, <2>4, FS_AddElement
  <2>6. Cardinality(Handles) <= Cardinality((S \cup T) \cup {0}) BY <2>1, <2>5, FS_Subset
  <2>7. Cardinality((S \cup T) \cup {0}) \in Nat BY <2>5, FS_CardinalityType
  <2>8. Chunks \in Nat BY PoolAssumption
  <2>9. QED BY <1>3, <1>5, <1>9, <1>10, <2>2, <2>3, <2>4, <2>5, <2>6, <2>7, <2>8
<1>11. QED BY <1>5, <1>10

-----------------------------------------------------------------------------
(* Sliding a chunk up *)

\* What slide_chunk_up makes of the handles and the headers: the free chunk is at c now
\* and the other one behind it, at nc.
Swapped(H, C, c, H2, C2) ==
    LET h == C[c].handle
        f == C[c].next
        g == C[f].handle
        n == C[f].next
        nc == c + H[g].size + Hdr
    IN  /\ H2 \in [Handles -> HandleSet] /\ C2 \in [Addresses -> ChunkSet]
        /\ H2[g].ptr = c /\ H2[g].status = H[g].status /\ H2[g].size = H[g].size
        /\ H2[h].ptr = nc /\ H2[h].status = H[h].status /\ H2[h].size = H[h].size
        /\ \A x \in Handles : x # h /\ x # g => H2[x] = H[x]
        /\ C2[nc].guard = C[c].guard /\ C2[nc].handle = h /\ C2[nc].prev = c /\ C2[nc].next = n
        /\ C2[c].guard = "FREE" /\ C2[c].handle = g /\ C2[c].prev = C[c].prev /\ C2[c].next = nc
        /\ f # nc => C2[f] = NoHeader
        /\ n # Null => /\ C2[n].guard = C[n].guard /\ C2[n].handle = C[n].handle
                       /\ C2[n].next = C[n].next /\ C2[n].prev = nc
        /\ \A x \in Addresses : x # c /\ x # f /\ x # nc /\ x # n => C2[x] = C[x]

\* Where the headers are before and after.
SwapNames(H, C, c, h, f, g, n, y, z, nc) ==
    /\ h = C[c].handle /\ f = C[c].next /\ g = C[f].handle /\ n = C[f].next
    /\ y = H[h].size /\ z = H[g].size /\ nc = c + z + Hdr
SwapChunks(H, C, c, h, f, g, y, z) ==
    /\ h \in Handles /\ g \in Handles /\ h # g /\ h # 0 /\ g # 0
    /\ H[h].ptr = c /\ H[h].status = "ALOC" /\ y \in Nat /\ C[c].guard = "ALOC"
    /\ H[g].ptr = f /\ H[g].status = "FREE" /\ z \in Nat /\ C[f].guard = "FREE"
    /\ c \in Nat /\ c \in Addresses /\ c # 0 /\ c < f
    /\ f \in HeadersIn(C) /\ f \in Nat /\ f \in Addresses /\ C[f].prev = c
    /\ f = EndIn(H, C, c) /\ f = c + Hdr + y
SwapPlace(H, C, l, c, f, n, y, nc) ==
    /\ nc \in Nat /\ nc \in Addresses /\ c + Hdr <= nc /\ c < nc
    /\ nc + Hdr + y = EndIn(H, C, f) /\ nc < EndIn(H, C, f)
    /\ nc \in HeadersIn(C) => nc = f
    /\ EndIn(H, C, f) \in Nat /\ EndIn(H, C, f) <= Area
    /\ n = Null => l = f /\ EndIn(H, C, f) = Area
    /\ n # Null => n \in HeadersIn(C) /\ n \in Nat /\ n = EndIn(H, C, f) /\ C[n].prev = f
    /\ n # c /\ n # f /\ n # nc /\ n \in Addresses \cup {Null}

LEMMA SwapPlaces ==
    ASSUME NEW H, NEW C, NEW l, SoundIn(H, C, l), NEW c \in HeadersIn(C), MovableIn(C, c),
           NEW h, NEW f, NEW g, NEW n, NEW y, NEW z, NEW nc,
           SwapNames(H, C, c, h, f, g, n, y, z, nc)
    PROVE  SwapChunks(H, C, c, h, f, g, y, z) /\ SwapPlace(H, C, l, c, f, n, y, nc)
<1>1. f = C[c].next /\ h = C[c].handle BY DEF SwapNames
<1>2. g = C[f].handle /\ n = C[f].next BY DEF SwapNames
<1>3. y = H[h].size /\ z = H[g].size BY DEF SwapNames
<1>4. nc = c + z + Hdr BY DEF SwapNames
<1>5. C[c].guard = "ALOC" /\ f # Null /\ C[f].guard = "FREE" BY <1>1 DEF MovableIn
<1>6. /\ c \in Nat /\ c \in Addresses /\ h \in Handles /\ y \in Nat /\ H[h].ptr = c
      /\ H[h].status = "ALOC" /\ EndIn(H, C, c) = c + Hdr + y
      /\ f = EndIn(H, C, c) /\ f \in HeadersIn(C) /\ C[f].prev = c
      /\ Hdr \in Nat /\ Hdr >= 1 /\ Area \in Nat
  BY <1>1, <1>3, <1>5, HeaderFacts
<1>7. /\ f \in Nat /\ f \in Addresses /\ g \in Handles /\ z \in Nat /\ H[g].ptr = f
      /\ H[g].status = "FREE" /\ EndIn(H, C, f) = f + Hdr + z /\ EndIn(H, C, f) <= Area
      /\ n = Null => l = f /\ EndIn(H, C, f) = Area
      /\ n # Null => n \in HeadersIn(C) /\ n \in Nat /\ n = EndIn(H, C, f) /\ C[n].prev = f
  <2>1. /\ f \in Nat /\ f \in Addresses /\ C[f].handle \in Handles
        /\ H[C[f].handle].size \in Nat /\ H[C[f].handle].ptr = f
        /\ H[C[f].handle].status = C[f].guard
        /\ EndIn(H, C, f) = f + Hdr + H[C[f].handle].size /\ EndIn(H, C, f) <= Area
        /\ C[f].next = Null => EndIn(H, C, f) = Area /\ l = f
        /\ C[f].next # Null => /\ C[f].next = EndIn(H, C, f) /\ C[f].next \in HeadersIn(C)
                               /\ C[C[f].next].prev = f /\ C[f].next \in Nat
    <3>1. SoundIn(H, C, l) /\ f \in HeadersIn(C) BY <1>6
    <3>2. QED BY <3>1, HeaderFacts
  <2>2. QED BY <1>2, <1>3, <1>5, <2>1
<1>8. f = c + Hdr + y /\ c < f BY <1>6
<1>9. /\ nc \in Nat /\ c + Hdr <= nc /\ c < nc /\ EndIn(H, C, f) \in Nat
      /\ nc + Hdr + y = EndIn(H, C, f) /\ nc < EndIn(H, C, f) /\ nc < Area
  BY <1>4, <1>6, <1>7, <1>8
<1>10. nc \in Addresses BY <1>9, AreaFits
<1>11. h # g /\ h # 0 /\ g # 0 /\ c # 0
  <2>1. H[0].ptr = 0 /\ H[0].status = "FREE" BY DEF SoundIn
  <2>2. h # g BY <1>6, <1>7, <1>8
  <2>3. h # 0 BY <1>6, <2>1
  <2>4. g # 0 BY <1>6, <1>7, <1>8, <2>1
  <2>5. c # 0
    <3>1. SUFFICES ASSUME c = 0 PROVE FALSE OBVIOUS
    <3>2. H[0].ptr # Null /\ 0 \in Handles BY <2>1, AreaFits
    <3>3. C[0].handle = 0 BY <2>1, <3>2, HandleFacts
    <3>4. QED BY <1>1, <2>3, <3>1, <3>3
  <2>6. QED BY <2>2, <2>3, <2>4, <2>5
<1>12. nc \in HeadersIn(C) => nc = f
  <2>1. SUFFICES ASSUME nc \in HeadersIn(C), nc # f PROVE FALSE OBVIOUS
  <2>2. f <= nc BY <1>1, <1>9, <2>1, Between
  <2>3. f < nc BY <1>7, <1>9, <2>1, <2>2
  <2>4. EndIn(H, C, f) <= nc BY <1>6, <2>1, <2>3, Between
  <2>5. QED BY <1>9, <2>4
<1>13. n # c /\ n # f /\ n # nc
  <2>1. c # Null /\ f # Null /\ nc # Null BY <1>5, <1>6, <1>10, AreaFits
  <2>2. QED BY <1>6, <1>7, <1>8, <1>9, <2>1
<1>14. n \in Addresses \cup {Null} BY <1>7 DEF HeadersIn
<1>15. SwapChunks(H, C, c, h, f, g, y, z)
  BY <1>5, <1>6, <1>7, <1>8, <1>11 DEF SwapChunks
<1>16. SwapPlace(H, C, l, c, f, n, y, nc)
  BY <1>7, <1>9, <1>10, <1>12, <1>13, <1>14 DEF SwapPlace
<1>17. QED BY <1>15, <1>16

LEMMA SwapSound ==
    ASSUME NEW H, NEW C, NEW l, SoundIn(H, C, l), NEW c \in HeadersIn(C), MovableIn(C, c),
           NEW H2, NEW C2, Swapped(H, C, c, H2, C2)
    PROVE  LET f == C[c].next
               nc == c + H[C[f].handle].size + Hdr IN
           /\ SoundIn(H2, C2, IF C[f].next = Null THEN nc ELSE l)
           /\ HeadersIn(C2) = (HeadersIn(C) \ {f}) \cup {nc}
           /\ \A x \in HeadersIn(C) : x # c /\ x # f =>
                 /\ C2[x].guard = C[x].guard /\ C2[x].handle = C[x].handle
                 /\ C2[x].next = C[x].next /\ x # nc
<1>1. PICK f, h : f = C[c].next /\ h = C[c].handle OBVIOUS
<1>2. PICK g, n : g = C[f].handle /\ n = C[f].next OBVIOUS
<1>3. PICK y, z : y = H[h].size /\ z = H[g].size OBVIOUS
<1>4. PICK nc, m : nc = c + z + Hdr /\ m = IF n = Null THEN nc ELSE l OBVIOUS
<1>5. /\ h \in Handles /\ g \in Handles /\ h # g /\ h # 0 /\ g # 0
      /\ H[h].ptr = c /\ H[h].status = "ALOC" /\ y \in Nat /\ C[c].guard = "ALOC"
      /\ H[g].ptr = f /\ H[g].status = "FREE" /\ z \in Nat /\ C[f].guard = "FREE"
      /\ c \in Nat /\ c \in Addresses /\ c # 0 /\ c < f
      /\ f \in HeadersIn(C) /\ f \in Nat /\ f \in Addresses /\ C[f].prev = c
      /\ f = EndIn(H, C, c) /\ f = c + Hdr + y
      /\ nc \in Nat /\ nc \in Addresses /\ c + Hdr <= nc /\ c < nc
      /\ nc + Hdr + y = EndIn(H, C, f) /\ nc < EndIn(H, C, f)
      /\ nc \in HeadersIn(C) => nc = f
      /\ EndIn(H, C, f) \in Nat /\ EndIn(H, C, f) <= Area
      /\ n = Null => l = f /\ EndIn(H, C, f) = Area
      /\ n # Null => n \in HeadersIn(C) /\ n \in Nat /\ n = EndIn(H, C, f) /\ C[n].prev = f
      /\ n # c /\ n # f /\ n # nc /\ n \in Addresses \cup {Null}
  <2>1. SwapNames(H, C, c, h, f, g, n, y, z, nc) BY <1>1, <1>2, <1>3, <1>4 DEF SwapNames
  <2>2. SwapChunks(H, C, c, h, f, g, y, z) /\ SwapPlace(H, C, l, c, f, n, y, nc)
    BY <2>1, SwapPlaces
  <2>3. QED BY <2>2 DEF SwapChunks, SwapPlace
<1>6. /\ H2 \in [Handles -> HandleSet] /\ C2 \in [Addresses -> ChunkSet]
      /\ H2[g].ptr = c /\ H2[g].status = H[g].status /\ H2[g].size = z
      /\ H2[h].ptr = nc /\ H2[h].status = H[h].status /\ H2[h].size = y
      /\ \A x \in Handles : x # h /\ x # g => H2[x] = H[x]
      /\ C2[nc].guard = C[c].guard /\ C2[nc].handle = h /\ C2[nc].prev = c /\ C2[nc].next = n
      /\ C2[c].guard = "FREE" /\ C2[c].handle = g /\ C2[c].prev = C[c].prev /\ C2[c].next = nc
      /\ f # nc => C2[f] = NoHeader
      /\ n # Null => /\ C2[n].guard = C[n].guard /\ C2[n].handle = C[n].handle
                     /\ C2[n].next = C[n].next /\ C2[n].prev = nc
      /\ \A x \in Addresses : x # c /\ x # f /\ x # nc /\ x # n => C2[x] = C[x]
  BY <1>1, <1>2, <1>3, <1>4 DEF Swapped
<1>7. /\ H[0].ptr = 0 /\ H[0].status = "FREE" /\ l \in HeadersIn(C) /\ C[l].next = Null
      /\ c \in HeadersIn(C)
  BY DEF SoundIn
<1>8. \A x \in HeadersIn(C) : x \in Addresses /\ x \in Nat /\ x # Null /\ C[x].guard \in Sigs
  BY HeaderFacts, AreaFits
<1>9. "ALOC" \in Sigs /\ "FREE" \in Sigs /\ Hdr \in Nat /\ Hdr >= 1 BY AreaFits DEF Sigs
<1>10. HeadersIn(C2) = (HeadersIn(C) \ {f}) \cup {nc}
  <2>1. c \in HeadersIn(C2) BY <1>5, <1>6, <1>9, ChunkTyped DEF HeadersIn
  <2>2. nc \in HeadersIn(C2) BY <1>5, <1>6, <1>9, ChunkTyped DEF HeadersIn
  <2>3. n # Null => n \in HeadersIn(C2) BY <1>5, <1>6, <1>8, ChunkTyped DEF HeadersIn
  <2>4. f # nc => f \notin HeadersIn(C2) BY <1>6 DEF HeadersIn
  <2>5. \A x \in Addresses : x # c /\ x # f /\ x # nc /\ x # n =>
            (x \in HeadersIn(C2) <=> x \in HeadersIn(C))
    BY <1>6 DEF HeadersIn
  <2>6. \A x \in Addresses : x # Null BY AreaFits
  <2>7. HeadersIn(C) \subseteq Addresses /\ HeadersIn(C2) \subseteq Addresses BY DEF HeadersIn
  <2>8. ASSUME NEW x \in Addresses
        PROVE  x \in HeadersIn(C2) <=> (x \in HeadersIn(C) /\ x # f) \/ x = nc
    <3>1. CASE x = c BY <1>5, <1>7, <2>1, <3>1
    <3>2. CASE x = nc BY <2>2, <3>2
    <3>3. CASE x = f /\ x # nc BY <2>4, <3>3
    <3>4. CASE x = n BY <1>5, <2>3, <2>6, <3>4
    <3>5. CASE x # c /\ x # f /\ x # nc /\ x # n BY <2>5, <3>5
    <3>6. QED BY <3>1, <3>2, <3>3, <3>4, <3>5
  <2>9. QED BY <1>5, <2>7, <2>8
<1>11. ASSUME NEW x \in HeadersIn(C), x # c, x # f
       PROVE  /\ x \in HeadersIn(C2) /\ x # nc /\ x \in Addresses
              /\ C2[x].guard = C[x].guard /\ C2[x].handle = C[x].handle
              /\ C2[x].next = C[x].next
              /\ x # n => C2[x].prev = C[x].prev
  <2>1. x \in HeadersIn(C2) /\ x # nc /\ x \in Addresses /\ x # Null BY <1>5, <1>8, <1>10, <1>11
  <2>2. CASE x = n BY <1>6, <2>1, <2>2
  <2>3. CASE x # n BY <1>6, <1>11, <2>1, <2>3
  <2>4. QED BY <2>2, <2>3
<1>12. ASSUME NEW x \in HeadersIn(C), x # c, x # f
       PROVE  H2[C[x].handle] = H[C[x].handle] /\ EndIn(H2, C2, x) = EndIn(H, C, x)
  <2>1. C[x].handle \in Handles /\ H[C[x].handle].ptr = x BY HeaderFacts
  <2>2. C[x].handle # h /\ C[x].handle # g BY <1>5, <1>12, <2>1
  <2>3. H2[C[x].handle] = H[C[x].handle] BY <1>6, <2>1, <2>2
  <2>4. QED BY <1>11, <1>12, <2>3 DEF EndIn
<1>13. EndIn(H2, C2, c) = nc /\ EndIn(H2, C2, nc) = EndIn(H, C, f)
  <2>1. EndIn(H2, C2, c) = c + Hdr + z /\ EndIn(H2, C2, nc) = nc + Hdr + y
    BY <1>6 DEF EndIn
  <2>2. QED BY <1>4, <1>5, <1>9, <2>1
<1>14. ASSUME NEW x \in HeadersIn(C2) PROVE x = nc \/ (x \in HeadersIn(C) /\ x # f)
  BY <1>10
<1>15. ASSUME NEW x \in HeadersIn(C2) PROVE ChunkOK(H2, C2, m, x)
  <2>1. CASE x = nc
    <3>1. /\ C2[x].guard \in Sigs /\ H2[C2[x].handle].ptr = x
          /\ H2[C2[x].handle].status = C2[x].guard /\ H2[C2[x].handle].size >= 0
      BY <1>5, <1>6, <1>9, <2>1
    <3>2. /\ C2[x].next = Null => EndIn(H2, C2, x) = Area /\ m = x
          /\ C2[x].next # Null => /\ C2[x].next = EndIn(H2, C2, x)
                                  /\ C2[x].next \in HeadersIn(C2) /\ C2[C2[x].next].prev = x
      BY <1>4, <1>5, <1>6, <1>10, <1>13, <2>1
    <3>3. x # 0 /\ C2[x].prev \in HeadersIn(C2) /\ C2[C2[x].prev].next = x
      BY <1>5, <1>6, <1>7, <1>10, <2>1
    <3>4. QED BY <3>1, <3>2, <3>3 DEF ChunkOK
  <2>2. CASE x = c
    <3>1. /\ C2[x].guard \in Sigs /\ H2[C2[x].handle].ptr = x
          /\ H2[C2[x].handle].status = C2[x].guard /\ H2[C2[x].handle].size >= 0
      BY <1>5, <1>6, <1>9, <2>2
    <3>2. nc # Null BY <1>5, AreaFits
    <3>3. /\ C2[x].next = EndIn(H2, C2, x)
          /\ C2[x].next \in HeadersIn(C2) /\ C2[C2[x].next].prev = x
      BY <1>6, <1>10, <1>13, <2>2
    <3>4. PICK w : w = C[c].prev OBVIOUS
    <3>5. w \in HeadersIn(C) /\ C[w].next = c /\ w < c /\ w \in Nat BY <1>5, <1>7, <3>4, HeaderFacts
    <3>6. w # c /\ w # f BY <1>5, <3>5
    <3>7. w \in HeadersIn(C2) /\ C2[w].next = c BY <1>11, <3>5, <3>6
    <3>8. QED BY <1>5, <1>6, <2>2, <3>1, <3>2, <3>3, <3>4, <3>7 DEF ChunkOK
  <2>3. CASE x # nc /\ x # c
    <3>1. x \in HeadersIn(C) /\ x # f BY <1>14, <2>3
    <3>2. /\ C[x].guard \in Sigs /\ C[x].handle \in Handles
          /\ H[C[x].handle].ptr = x /\ H[C[x].handle].status = C[x].guard
          /\ H[C[x].handle].size \in Nat
          /\ C[x].next = Null => EndIn(H, C, x) = Area /\ l = x
          /\ C[x].next # Null => /\ C[x].next = EndIn(H, C, x) /\ C[x].next \in HeadersIn(C)
                                 /\ C[C[x].next].prev = x
          /\ x = 0 <=> C[x].prev = Null
          /\ x # 0 => C[x].prev \in HeadersIn(C) /\ C[C[x].prev].next = x
      BY <3>1, HeaderFacts
    <3>3. /\ C2[x].guard \in Sigs /\ H2[C2[x].handle].ptr = x
          /\ H2[C2[x].handle].status = C2[x].guard /\ H2[C2[x].handle].size >= 0
      BY <1>11, <1>12, <2>3, <3>1, <3>2
    <3>4. C2[x].next = C[x].next /\ EndIn(H2, C2, x) = EndIn(H, C, x) BY <1>11, <1>12, <2>3, <3>1
    <3>5. /\ C2[x].next = Null => EndIn(H2, C2, x) = Area /\ m = x
          /\ C2[x].next # Null => /\ C2[x].next = EndIn(H2, C2, x)
                                  /\ C2[x].next \in HeadersIn(C2) /\ C2[C2[x].next].prev = x
      <4>1. CASE C[x].next = Null
        <5>1. n # Null BY <1>5, <3>1, <3>2, <4>1
        <5>2. QED BY <1>4, <3>2, <3>4, <4>1, <5>1
      <4>2. CASE C[x].next # Null
        <5>1. PICK w : w = C[x].next OBVIOUS
        <5>2. w \in HeadersIn(C) /\ C[w].prev = x BY <3>2, <4>2, <5>1
        <5>3. w # f BY <1>5, <2>3, <5>2
        <5>4. w # n BY <1>5, <3>1, <4>2, <5>1, <5>2
        <5>5. w \in HeadersIn(C2) /\ C2[w].prev = x
          <6>1. CASE w = c BY <1>6, <1>7, <1>10, <1>5, <5>2, <6>1
          <6>2. CASE w # c BY <1>11, <5>2, <5>3, <5>4, <6>2
          <6>3. QED BY <6>1, <6>2
        <5>6. QED BY <3>2, <3>4, <4>2, <5>1, <5>5
      <4>3. QED BY <4>1, <4>2
    <3>6. /\ x = 0 => C2[x].prev = Null
          /\ x # 0 => C2[x].prev \in HeadersIn(C2) /\ C2[C2[x].prev].next = x
      <4>1. CASE x = n
        <5>1. x # Null BY <1>8, <3>1
        <5>2. C2[x].prev = nc /\ C2[nc].next = x BY <1>6, <4>1, <5>1
        <5>3. x # 0 BY <1>5, <4>1, <5>1
        <5>4. QED BY <1>10, <5>2, <5>3
      <4>2. CASE x # n
        <5>1. C2[x].prev = C[x].prev BY <1>11, <2>3, <3>1, <4>2
        <5>2. CASE x = 0 BY <3>2, <5>1, <5>2
        <5>3. CASE x # 0
          <6>1. PICK w : w = C[x].prev OBVIOUS
          <6>2. w \in HeadersIn(C) /\ C[w].next = x BY <3>2, <5>3, <6>1
          <6>3. w # c /\ w # f BY <1>1, <1>2, <3>1, <4>2, <6>2
          <6>4. w \in HeadersIn(C2) /\ C2[w].next = x BY <1>11, <6>2, <6>3
          <6>5. QED BY <5>1, <5>3, <6>1, <6>4
        <5>4. QED BY <5>2, <5>3
      <4>3. QED BY <4>1, <4>2
    <3>7. QED BY <3>3, <3>5, <3>6 DEF ChunkOK
  <2>4. QED BY <2>1, <2>2, <2>3
<1>16. ASSUME NEW x \in Handles PROVE HandleOK(H2, C2, x)
  <2>1. CASE x = h BY <1>6, <1>10, <2>1 DEF HandleOK
  <2>2. CASE x = g BY <1>5, <1>6, <1>7, <1>10, <2>2 DEF HandleOK
  <2>3. CASE x # h /\ x # g
    <3>1. H2[x] = H[x] BY <1>6, <2>3
    <3>2. SUFFICES ASSUME H[x].ptr # Null
                   PROVE H[x].ptr \in HeadersIn(C2) /\ C2[H[x].ptr].handle = x
      BY <3>1 DEF HandleOK
    <3>3. H[x].ptr \in HeadersIn(C) /\ C[H[x].ptr].handle = x BY <3>2, HandleFacts
    <3>4. H[x].ptr # c /\ H[x].ptr # f BY <1>1, <1>2, <2>3, <3>3
    <3>5. QED BY <1>11, <3>3, <3>4
  <2>4. QED BY <2>1, <2>2, <2>3
<1>17. ASSUME NEW x \in HeadersIn(C2), NEW w \in HeadersIn(C2), x < w
       PROVE  EndIn(H2, C2, x) <= w
  <2>1. CASE x = nc
    <3>1. w \in HeadersIn(C) /\ w # f /\ w # c /\ w \in Nat
      BY <1>5, <1>8, <1>14, <1>17, <2>1
    <3>2. c < w BY <1>5, <1>17, <2>1, <3>1
    <3>3. f <= w BY <1>1, <1>7, <3>1, <3>2, Between
    <3>4. f < w BY <1>5, <3>1, <3>3
    <3>5. EndIn(H, C, f) <= w BY <1>5, <3>1, <3>4, Between
    <3>6. QED BY <1>13, <2>1, <3>5
  <2>2. CASE x = c
    <3>1. CASE w = nc BY <1>5, <1>13, <2>2, <3>1
    <3>2. CASE w # nc
      <4>1. w \in HeadersIn(C) /\ w # f /\ w \in Nat BY <1>8, <1>14, <3>2
      <4>2. f <= w BY <1>1, <1>7, <1>17, <2>2, <4>1, Between
      <4>3. f < w BY <1>5, <4>1, <4>2
      <4>4. EndIn(H, C, f) <= w BY <1>5, <4>1, <4>3, Between
      <4>5. QED BY <1>5, <1>13, <2>2, <4>1, <4>4
    <3>3. QED BY <3>1, <3>2
  <2>3. CASE x # nc /\ x # c
    <3>1. x \in HeadersIn(C) /\ x # f /\ x \in Nat BY <1>8, <1>14, <2>3
    <3>2. PICK e : e = EndIn(H, C, x) OBVIOUS
    <3>3. e \in Nat /\ EndIn(H2, C2, x) = e BY <1>12, <2>3, <3>1, <3>2, HeaderFacts
    <3>4. CASE w = nc
      <4>1. ~(c < x)
        <5>1. SUFFICES ASSUME c < x PROVE FALSE OBVIOUS
        <5>2. f <= x BY <1>1, <1>7, <3>1, <5>1, Between
        <5>3. f < x BY <1>5, <3>1, <5>2
        <5>4. EndIn(H, C, f) <= x BY <1>5, <3>1, <5>3, Between
        <5>5. QED BY <1>5, <1>17, <3>1, <3>4, <5>4
      <4>2. x < c BY <1>5, <2>3, <3>1, <4>1
      <4>3. e <= c BY <1>7, <3>1, <3>2, <4>2, Between
      <4>4. QED BY <1>5, <3>3, <3>4, <4>3
    <3>5. CASE w # nc
      <4>1. w \in HeadersIn(C) BY <1>14, <3>5
      <4>2. e <= w BY <1>17, <3>1, <3>2, <4>1, Between
      <4>3. QED BY <3>3, <4>2
    <3>6. QED BY <3>4, <3>5
  <2>4. QED BY <2>1, <2>2, <2>3
<1>18. m \in HeadersIn(C2) /\ C2[m].next = Null
  <2>1. CASE n = Null BY <1>4, <1>6, <1>10, <2>1
  <2>2. CASE n # Null
    <3>1. l # f BY <1>2, <1>7, <2>2
    <3>2. l # c BY <1>1, <1>5, <1>7, <1>8
    <3>3. QED BY <1>4, <1>7, <1>11, <2>2, <3>1, <3>2
  <2>3. QED BY <2>1, <2>2
<1>19. H2[0].ptr = 0 /\ H2[0].status = "FREE" BY <1>5, <1>6, <1>7, AreaFits
<1>20. SoundIn(H2, C2, m) BY <1>6, <1>15, <1>16, <1>17, <1>18, <1>19 DEF SoundIn
<1>21. QED BY <1>1, <1>2, <1>3, <1>4, <1>10, <1>11, <1>20

\* memmove stays within the area.
LEMMA MovedInside ==
    ASSUME NEW p, SoundPool(p), NEW c \in HeadersIn(p.chunks), MovableIn(p.chunks, c)
    PROVE  LET h == p.chunks[c].handle
               g == p.chunks[p.chunks[c].next].handle
               up == p.handles[g].size + Hdr IN
           ContentsMoved(p, h, up) \in SUBSET (Addresses \X Handles)
<1>1. PICK H, C, l : H = p.handles /\ C = p.chunks /\ l = p.last OBVIOUS
<1>2. PICK f, h : f = C[c].next /\ h = C[c].handle OBVIOUS
<1>3. PICK g : g = C[f].handle OBVIOUS
<1>4. PICK y, z : y = H[h].size /\ z = H[g].size OBVIOUS
<1>5. PICK nc : nc = c + z + Hdr OBVIOUS
<1>6. SoundIn(H, C, l) /\ c \in HeadersIn(C) /\ MovableIn(C, c) BY <1>1 DEF SoundPool
<1>7. /\ h \in Handles /\ H[h].ptr = c /\ y \in Nat /\ z \in Nat /\ c \in Nat
      /\ nc \in Nat /\ nc + Hdr + y = EndIn(H, C, f) /\ EndIn(H, C, f) \in Nat
      /\ EndIn(H, C, f) <= Area /\ f = c + Hdr + y /\ f = EndIn(H, C, c) /\ f \in Nat
  <2>01. PICK n : n = C[f].next OBVIOUS
  <2>1. SwapNames(H, C, c, h, f, g, n, y, z, nc) BY <2>01, <1>2, <1>3, <1>4, <1>5 DEF SwapNames
  <2>2. SwapChunks(H, C, c, h, f, g, y, z) /\ SwapPlace(H, C, l, c, f, n, y, nc)
    BY <1>6, <2>1, SwapPlaces
  <2>3. QED BY <2>2 DEF SwapChunks, SwapPlace
<1>8. Hdr \in Nat /\ Area \in Nat /\ c # Null BY <1>7, AreaFits DEF Null
<1>9. h \in Used(p) BY <1>1, <1>7, <1>8 DEF Used
<1>10. \A s : s \in Payload(p, h) <=> s \in Int /\ c + Hdr <= s /\ s < f
  BY <1>1, <1>7, <1>9, PayloadIs
<1>11. p.bytes \in SUBSET (Addresses \X Handles) BY PoolFields DEF SoundPool
<1> DEFINE up == z + Hdr
           source == {b \in p.bytes : b[1] \in Payload(p, h)}
<1>12. ASSUME NEW b \in source PROVE <<b[1] + up, b[2]>> \in Addresses \X Handles
  <2>1. b \in p.bytes /\ b[1] \in Payload(p, h) OBVIOUS
  <2>2. b[2] \in Handles BY <1>11, <2>1
  <2>3. b[1] \in Int /\ c + Hdr <= b[1] /\ b[1] < f BY <1>10, <2>1
  <2>4. PICK s : s = b[1] OBVIOUS
  <2>5. s + up \in Nat /\ s + up < Area BY <1>5, <1>7, <1>8, <2>3, <2>4
  <2>6. b[1] + up \in Addresses BY <2>4, <2>5, AreaFits
  <2> HIDE DEF up, source
  <2>7. QED BY <2>2, <2>6
<1>13. ContentsMoved(p, h, up) =
          {b \in p.bytes \ source : b[1] - up \notin Payload(p, h)}
          \cup {<<b[1] + up, b[2]>> : b \in source}
  BY DEF ContentsMoved
<1>14. {b \in p.bytes \ source : b[1] - up \notin Payload(p, h)} \subseteq Addresses \X Handles
  BY <1>11
<1>15. {<<b[1] + up, b[2]>> : b \in source} \subseteq Addresses \X Handles
  <2> HIDE DEF source, up
  <2>1. QED BY <1>12
<1>16. ContentsMoved(p, h, up) \in SUBSET (Addresses \X Handles)
  <2> HIDE DEF source, up
  <2>1. QED BY <1>13, <1>14, <1>15
<1>17. QED BY <1>1, <1>2, <1>3, <1>4, <1>16

LEMMA SlideIs ==
    ASSUME NEW p, SoundPool(p), NEW c \in HeadersIn(p.chunks), MovableIn(p.chunks, c)
    PROVE  LET q == slide_chunk_up(p, c)
               h == p.chunks[c].handle
               up == p.handles[p.chunks[p.chunks[c].next].handle].size + Hdr IN
           /\ SoundPool(q) /\ Swapped(p.handles, p.chunks, c, q.handles, q.chunks)
           /\ q.bytes = {x \in ContentsMoved(p, h, up) : x[1] \notin c + up .. c + up + Hdr - 1}
           /\ q.alloced = p.alloced /\ q.free = p.free
<1>1. PICK H, C, l : H = p.handles /\ C = p.chunks /\ l = p.last OBVIOUS
<1>2. PICK f, h : f = C[c].next /\ h = C[c].handle OBVIOUS
<1>3. PICK g, n : g = C[f].handle /\ n = C[f].next OBVIOUS
<1>4. PICK y, z : y = H[h].size /\ z = H[g].size OBVIOUS
<1>5. PICK nc : nc = c + z + Hdr OBVIOUS
<1>6. /\ SoundIn(H, C, l) /\ c \in HeadersIn(C) /\ MovableIn(C, c) /\ p \in PoolSet
      /\ H \in [Handles -> HandleSet] /\ C \in [Addresses -> ChunkSet] /\ l \in Addresses
  BY <1>1, PoolFields DEF SoundPool
<1>7. /\ h \in Handles /\ g \in Handles /\ h # g /\ C[c].guard = "ALOC"
      /\ c \in Nat /\ c \in Addresses /\ f \in Addresses /\ c # f
      /\ nc \in Nat /\ nc \in Addresses /\ c # nc /\ z \in Nat
      /\ n # c /\ n # f /\ n # nc /\ n \in Addresses \cup {Null}
  <2>1. /\ h \in Handles /\ g \in Handles /\ h # g /\ C[c].guard = "ALOC"
        /\ c \in Nat /\ c \in Addresses /\ c < f /\ f \in Nat /\ f \in Addresses
        /\ nc \in Nat /\ nc \in Addresses /\ c < nc /\ z \in Nat
        /\ n # c /\ n # f /\ n # nc /\ n \in Addresses \cup {Null}
    <3>1. SoundIn(H, C, l) /\ c \in HeadersIn(C) /\ MovableIn(C, c) BY <1>6
    <3>2. SwapNames(H, C, c, h, f, g, n, y, z, nc) BY <1>2, <1>3, <1>4, <1>5 DEF SwapNames
    <3>3. SwapChunks(H, C, c, h, f, g, y, z) /\ SwapPlace(H, C, l, c, f, n, y, nc)
      BY <3>1, <3>2, SwapPlaces
    <3>4. QED BY <3>3 DEF SwapChunks, SwapPlace
  <2>2. c # f /\ c # nc BY <2>1
  <2>3. QED BY <2>1, <2>2
<1>8. Hdr \in Nat BY AreaFits
<1> DEFINE up == z + Hdr
           M == ContentsMoved(p, h, up)
           header == [guard |-> C[c].guard, next |-> n, prev |-> c, handle |-> h]
           A == [C EXCEPT ![f] = NoHeader]
           moved == [p EXCEPT !.bytes = M, !.chunks[f] = NoHeader]
           r == PutHeader(moved, nc, header)
           j == Linked(r, nc)
           q == slide_chunk_up(p, c)
           D == [A EXCEPT ![nc] = header]
           E == IF n = Null THEN D ELSE [D EXCEPT ![n] = [@ EXCEPT !.prev = nc]]
           B == {x \in M : x[1] \notin nc .. nc + Hdr - 1}
<1>9. q = [j EXCEPT !.chunks[c].guard = "FREE", !.chunks[c].next = nc,
                    !.chunks[c].handle = g,
                    !.handles[g].ptr = c, !.handles[h].ptr = nc]
  <2>1. nc - c = up BY <1>5, <1>7, <1>8
  <2>2. ContentsMoved(p, h, nc - c) = M BY <2>1
  <2> HIDE DEF M, header, r
  <2>3. moved = [p EXCEPT !.bytes = ContentsMoved(p, h, nc - c), !.chunks[f] = NoHeader]
    BY <2>2
  <2> HIDE DEF moved
  <2>4. QED BY <1>1, <1>2, <1>3, <1>4, <1>5, <2>3 DEF slide_chunk_up, header, r
<1> HIDE DEF q
<1>10. M \in SUBSET (Addresses \X Handles)
  BY <1>1, <1>2, <1>3, <1>4, <1>6, MovedInside
<1> HIDE DEF M
<1>11. header \in ChunkSet BY <1>7 DEF ChunkSet, Sigs
<1> HIDE DEF header
<1>12. NoHeader \in ChunkSet BY AreaFits DEF NoHeader, ChunkSet, Sigs
<1>13. A \in [Addresses -> ChunkSet] /\ A[f] = NoHeader
       /\ \A x \in Addresses : x # f => A[x] = C[x]
  BY <1>6, <1>7, <1>12
<1>14. /\ moved \in PoolSet /\ moved.handles = H /\ moved.chunks = A /\ moved.last = l
       /\ moved.bytes = M /\ moved.alloced = p.alloced /\ moved.free = p.free
  <2>1. p = [handles |-> H, chunks |-> C, last |-> l, alloced |-> p.alloced,
             free |-> p.free, bytes |-> p.bytes]
    BY <1>1, <1>6, PoolFields
  <2> DEFINE p1 == [p EXCEPT !.bytes = M]
  <2>2. p1 = [handles |-> H, chunks |-> C, last |-> l, alloced |-> p.alloced,
              free |-> p.free, bytes |-> M]
    BY <2>1
  <2>3. moved = [p1 EXCEPT !.chunks[f] = NoHeader] OBVIOUS
  <2> HIDE DEF p1, moved
  <2>4. moved = [handles |-> H, chunks |-> A, last |-> l, alloced |-> p.alloced,
                 free |-> p.free, bytes |-> M]
    BY <2>2, <2>3
  <2> HIDE DEF A
  <2>5. QED BY <1>6, <1>10, <1>13, <2>4, PoolFields DEF PoolSet
<1> HIDE DEF moved, A
<1>15. /\ r \in PoolSet /\ r.handles = H /\ r.last = l /\ r.chunks = D /\ r.bytes = B
       /\ r.alloced = p.alloced /\ r.free = p.free
  BY <1>7, <1>11, <1>14, PutHeaderIs
<1>16. D \in [Addresses -> ChunkSet] /\ D[nc] = header
       /\ \A x \in Addresses : x # nc => D[x] = A[x]
  BY <1>7, <1>11, <1>13
<1>17. D[nc].next = n BY <1>16 DEF header
<1> HIDE DEF r, D
<1>18. /\ j \in PoolSet /\ j.handles = H /\ j.bytes = B /\ j.chunks = E
       /\ j.alloced = p.alloced /\ j.free = p.free
       /\ j.last = IF n = Null THEN nc ELSE l
  BY <1>7, <1>15, <1>17, LinkedIs
<1>19. E \in [Addresses -> ChunkSet] BY <1>18, PoolFields
<1>20. /\ E[nc] = header
       /\ n # Null => /\ E[n].guard = C[n].guard /\ E[n].handle = C[n].handle
                      /\ E[n].next = C[n].next /\ E[n].prev = nc
       /\ f # nc => E[f] = NoHeader
       /\ \A x \in Addresses : x # f /\ x # nc /\ x # n => E[x] = C[x]
  <2>1. CASE n = Null BY <1>7, <1>13, <1>16, <2>1
  <2>2. CASE n # Null
    <3>1. D[n] = C[n] /\ D[n] \in ChunkSet BY <1>7, <1>13, <1>16, <2>2
    <3>2. E[n] = [D[n] EXCEPT !.prev = nc] BY <1>7, <1>16, <2>2
    <3>3. /\ E[n].guard = C[n].guard /\ E[n].handle = C[n].handle
          /\ E[n].next = C[n].next /\ E[n].prev = nc
      BY <3>1, <3>2 DEF ChunkSet
    <3>4. \A x \in Addresses : x # n => E[x] = D[x] BY <1>7, <1>16, <2>2
    <3> HIDE DEF E
    <3>5. QED BY <1>7, <1>13, <1>16, <3>3, <3>4
  <2>3. QED BY <2>1, <2>2
<1> HIDE DEF E, j
<1> DEFINE k1 == [E[c] EXCEPT !.guard = "FREE"]
           k2 == [k1 EXCEPT !.next = nc]
           k == [k2 EXCEPT !.handle = g]
           F == [E EXCEPT ![c] = k]
           G == [H EXCEPT ![g] = [@ EXCEPT !.ptr = c]]
           K == [G EXCEPT ![h] = [@ EXCEPT !.ptr = nc]]
<1>21. /\ k \in ChunkSet /\ k.guard = "FREE" /\ k.next = nc /\ k.handle = g /\ k.prev = C[c].prev
  <2>1. E[c] = C[c] /\ E[c] \in ChunkSet BY <1>7, <1>19, <1>20
  <2>2. k1 \in ChunkSet /\ k1.guard = "FREE" /\ k1.prev = C[c].prev BY <2>1 DEF ChunkSet, Sigs
  <2> HIDE DEF k1
  <2>3. k2 \in ChunkSet /\ k2.guard = "FREE" /\ k2.prev = C[c].prev /\ k2.next = nc
    BY <1>7, <2>2 DEF ChunkSet
  <2> HIDE DEF k2
  <2>4. QED BY <1>7, <2>3 DEF ChunkSet
<1>22. /\ F \in [Addresses -> ChunkSet] /\ F[nc] = header
       /\ F[c] = k
       /\ f # nc => F[f] = NoHeader
       /\ n # Null => /\ F[n].guard = C[n].guard /\ F[n].handle = C[n].handle
                      /\ F[n].next = C[n].next /\ F[n].prev = nc
       /\ \A x \in Addresses : x # c /\ x # f /\ x # nc /\ x # n => F[x] = C[x]
  <2> HIDE DEF k
  <2>1. F \in [Addresses -> ChunkSet] /\ F[c] = k /\ \A x \in Addresses : x # c => F[x] = E[x]
    BY <1>7, <1>19, <1>21
  <2> HIDE DEF F
  <2>2. QED BY <1>7, <1>20, <2>1
<1>23. /\ G \in [Handles -> HandleSet] /\ G[g].ptr = c /\ G[g].status = H[g].status
       /\ G[g].size = H[g].size /\ G[h] = H[h]
       /\ \A x \in Handles : x # g => G[x] = H[x]
  <2>1. H[g] \in HandleSet BY <1>6, <1>7
  <2>2. /\ [H[g] EXCEPT !.ptr = c] \in HandleSet /\ [H[g] EXCEPT !.ptr = c].ptr = c
        /\ [H[g] EXCEPT !.ptr = c].status = H[g].status
        /\ [H[g] EXCEPT !.ptr = c].size = H[g].size
    BY <1>7, <2>1 DEF HandleSet
  <2>3. QED BY <1>6, <1>7, <2>2
<1> HIDE DEF G
<1>24. /\ K \in [Handles -> HandleSet] /\ K[h].ptr = nc /\ K[h].status = H[h].status
       /\ K[h].size = H[h].size
       /\ \A x \in Handles : x # h => K[x] = G[x]
  <2>1. H[h] \in HandleSet BY <1>6, <1>7
  <2>2. /\ [H[h] EXCEPT !.ptr = nc] \in HandleSet /\ [H[h] EXCEPT !.ptr = nc].ptr = nc
        /\ [H[h] EXCEPT !.ptr = nc].status = H[h].status
        /\ [H[h] EXCEPT !.ptr = nc].size = H[h].size
    BY <1>7, <2>1 DEF HandleSet
  <2>3. QED BY <1>7, <1>23, <2>2
<1>25. q = [handles |-> K, chunks |-> F, last |-> j.last, alloced |-> j.alloced,
            free |-> j.free, bytes |-> j.bytes]
  <2>1. j = [handles |-> H, chunks |-> E, last |-> j.last, alloced |-> j.alloced,
             free |-> j.free, bytes |-> j.bytes]
    BY <1>18, PoolFields
  <2> DEFINE E1 == [E EXCEPT ![c] = k1]
             E2 == [E EXCEPT ![c] = k2]
             j1 == [j EXCEPT !.chunks[c].guard = "FREE"]
             j2 == [j1 EXCEPT !.chunks[c].next = nc]
             j3 == [j2 EXCEPT !.chunks[c].handle = g]
             j4 == [j3 EXCEPT !.handles[g].ptr = c]
             j5 == [j4 EXCEPT !.handles[h].ptr = nc]
  <2>2. j1 = [handles |-> H, chunks |-> E1, last |-> j.last, alloced |-> j.alloced,
              free |-> j.free, bytes |-> j.bytes]
    BY <2>1
  <2>3. E1 \in [Addresses -> {k1} \cup ChunkSet] /\ E1[c] = k1 /\ [E1 EXCEPT ![c] = k2] = E2
    <3> HIDE DEF k1, k2
    <3>1. QED BY <1>7, <1>19
  <2>4. j2 = [handles |-> H, chunks |-> E2, last |-> j.last, alloced |-> j.alloced,
              free |-> j.free, bytes |-> j.bytes]
    <3> HIDE DEF j1, E1, E2, k1
    <3>1. QED BY <2>2, <2>3
  <2>5. E2[c] = k2 /\ [E2 EXCEPT ![c] = k] = F
    <3> HIDE DEF k2, k
    <3>1. QED BY <1>7, <1>19
  <2>6. j3 = [handles |-> H, chunks |-> F, last |-> j.last, alloced |-> j.alloced,
              free |-> j.free, bytes |-> j.bytes]
    <3> HIDE DEF j2, E2, k2, F
    <3>1. QED BY <2>4, <2>5
  <2>7. j4 = [handles |-> G, chunks |-> F, last |-> j.last, alloced |-> j.alloced,
              free |-> j.free, bytes |-> j.bytes]
    <3> HIDE DEF j3, F
    <3>1. QED BY <2>6 DEF G
  <2>8. j5 = [handles |-> K, chunks |-> F, last |-> j.last, alloced |-> j.alloced,
              free |-> j.free, bytes |-> j.bytes]
    <3> HIDE DEF j4, F
    <3>1. QED BY <2>7
  <2>9. q = j5 BY <1>9
  <2> HIDE DEF j5, K, F
  <2>10. QED BY <2>8, <2>9
<1> HIDE DEF F, K, k
<1>26. Swapped(H, C, c, K, F)
  <2>1. F[nc].guard = C[c].guard /\ F[nc].handle = h /\ F[nc].prev = c /\ F[nc].next = n
    BY <1>22 DEF header
  <2>2. F[c].guard = "FREE" /\ F[c].handle = g /\ F[c].prev = C[c].prev /\ F[c].next = nc
    BY <1>21, <1>22
  <2>3. /\ K[g].ptr = c /\ K[g].status = H[g].status /\ K[g].size = H[g].size
        /\ \A x \in Handles : x # h /\ x # g => K[x] = H[x]
    BY <1>7, <1>23, <1>24
  <2>4. nc = c + H[C[C[c].next].handle].size + Hdr BY <1>2, <1>3, <1>4, <1>5
  <2>5. QED BY <1>2, <1>3, <1>22, <1>24, <2>1, <2>2, <2>3, <2>4 DEF Swapped
<1>27. q \in PoolSet BY <1>18, <1>22, <1>24, <1>25, PoolFields DEF PoolSet
<1>28. /\ q.handles = K /\ q.chunks = F /\ q.bytes = B /\ q.last = IF n = Null THEN nc ELSE l
       /\ q.alloced = p.alloced /\ q.free = p.free
  <2> HIDE DEF B
  <2>1. QED BY <1>18, <1>25
<1>29. SoundIn(K, F, IF n = Null THEN nc ELSE l)
  BY <1>2, <1>3, <1>4, <1>5, <1>6, <1>26, SwapSound
<1>30. SoundPool(q) BY <1>27, <1>28, <1>29 DEF SoundPool
<1>31. nc = c + up BY <1>5, <1>7, <1>8
<1>32. B = {x \in M : x[1] \notin c + up .. c + up + Hdr - 1} BY <1>31
<1> HIDE DEF B, up
<1>33. q.bytes = {x \in ContentsMoved(p, h, up) : x[1] \notin c + up .. c + up + Hdr - 1}
  BY <1>28, <1>32 DEF M
<1>34. up = H[g].size + Hdr BY <1>4 DEF up
<1>35. QED BY <1>1, <1>2, <1>3, <1>26, <1>28, <1>30, <1>33, <1>34 DEF q

\* What the program holds goes along, the free chunk is at c, and the only free
\* neighbours are its own.
LEMMA SlideKeeps ==
    ASSUME NEW p, SoundPool(p), NEW c \in HeadersIn(p.chunks), MovableIn(p.chunks, c),
           NoFreePair(p.chunks)
    PROVE  LET q == slide_chunk_up(p, c)
               g == q.chunks[c].handle IN
           /\ SoundPool(q) /\ Carries(p, q) /\ Held(q) = Held(p) /\ Free(q) = Free(p)
           /\ \A x \in Handles : q.handles[x].size = p.handles[x].size
           /\ g \in Free(q) /\ g # 0 /\ q.handles[g].ptr = c /\ FreeBeside(q.chunks, g)
           /\ c \in HeadersIn(q.chunks)
           /\ (\A x \in HeadersIn(p.chunks) : x > c => ~MovableIn(p.chunks, x)) =>
                 \A x \in HeadersIn(q.chunks) : x >= c => ~MovableIn(q.chunks, x)
<1>1. PICK H, C, l : H = p.handles /\ C = p.chunks /\ l = p.last OBVIOUS
<1>2. PICK f, h : f = C[c].next /\ h = C[c].handle OBVIOUS
<1>3. PICK g, n : g = C[f].handle /\ n = C[f].next OBVIOUS
<1>4. PICK y, z : y = H[h].size /\ z = H[g].size OBVIOUS
<1>5. PICK nc : nc = c + z + Hdr OBVIOUS
<1>05. PICK up : up = z + Hdr OBVIOUS
<1>6. SoundIn(H, C, l) /\ c \in HeadersIn(C) /\ MovableIn(C, c) BY <1>1 DEF SoundPool
<1>7. PICK q : q = slide_chunk_up(p, c) OBVIOUS
<1>8. PICK K, F : K = q.handles /\ F = q.chunks OBVIOUS
<1>9. /\ h \in Handles /\ g \in Handles /\ h # g /\ h # 0 /\ g # 0
      /\ H[h].ptr = c /\ H[h].status = "ALOC" /\ y \in Nat /\ C[c].guard = "ALOC"
      /\ H[g].ptr = f /\ H[g].status = "FREE" /\ z \in Nat /\ C[f].guard = "FREE"
      /\ c \in Nat /\ c \in Addresses /\ c # 0 /\ c < f
      /\ f \in HeadersIn(C) /\ f \in Nat /\ f \in Addresses
      /\ f = EndIn(H, C, c) /\ f = c + Hdr + y
      /\ nc \in Nat /\ nc \in Addresses /\ c + Hdr <= nc /\ c < nc
      /\ nc + Hdr + y = EndIn(H, C, f) /\ nc < EndIn(H, C, f) /\ EndIn(H, C, f) \in Nat
      /\ n # Null => n \in HeadersIn(C)
      /\ n # c /\ n # f
  <2>1. SwapNames(H, C, c, h, f, g, n, y, z, nc) BY <1>2, <1>3, <1>4, <1>5 DEF SwapNames
  <2>2. SwapChunks(H, C, c, h, f, g, y, z) /\ SwapPlace(H, C, l, c, f, n, y, nc)
    BY <1>6, <2>1, SwapPlaces
  <2>3. QED BY <2>2 DEF SwapChunks, SwapPlace
<1>10. /\ SoundPool(q) /\ Swapped(H, C, c, K, F)
       /\ q.bytes = {x \in ContentsMoved(p, h, up) : x[1] \notin c + up .. c + up + Hdr - 1}
  <2>1. SoundPool(q) BY <1>7, SlideIs
  <2>2. Swapped(p.handles, p.chunks, c, q.handles, q.chunks) BY <1>7, SlideIs
  <2>3. PICK u : u = p.handles[p.chunks[p.chunks[c].next].handle].size + Hdr OBVIOUS
  <2>4. q.bytes = {x \in ContentsMoved(p, p.chunks[c].handle, u) :
                      x[1] \notin c + u .. c + u + Hdr - 1}
    <3> DEFINE v == p.handles[p.chunks[p.chunks[c].next].handle].size + Hdr
    <3>1. slide_chunk_up(p, c).bytes = {x \in ContentsMoved(p, p.chunks[c].handle, v) :
                                           x[1] \notin c + v .. c + v + Hdr - 1}
      BY SlideIs, Zenon
    <3>2. QED BY <1>7, <2>3, <3>1
  <2>5. u = up BY <1>1, <1>2, <1>3, <1>4, <1>05, <2>3
  <2>6. QED BY <1>1, <1>2, <1>8, <2>1, <2>2, <2>4, <2>5
<1>11. /\ HeadersIn(F) = (HeadersIn(C) \ {f}) \cup {nc}
       /\ \A x \in HeadersIn(C) : x # c /\ x # f =>
             /\ F[x].guard = C[x].guard /\ F[x].handle = C[x].handle
             /\ F[x].next = C[x].next /\ x # nc
  <2>1. SoundIn(H, C, l) /\ c \in HeadersIn(C) /\ MovableIn(C, c) /\ Swapped(H, C, c, K, F)
    BY <1>6, <1>10
  <2>2. PICK u : u = c + H[C[C[c].next].handle].size + Hdr OBVIOUS
  <2>3. /\ HeadersIn(F) = (HeadersIn(C) \ {C[c].next}) \cup {u}
        /\ \A x \in HeadersIn(C) : x # c /\ x # C[c].next =>
              /\ F[x].guard = C[x].guard /\ F[x].handle = C[x].handle
              /\ F[x].next = C[x].next /\ x # u
    BY <2>1, <2>2, SwapSound
  <2>4. f = C[c].next /\ u = nc BY <1>2, <1>3, <1>4, <1>5, <2>2
  <2>5. QED BY <2>3, <2>4
<1>12. /\ K[g].ptr = c /\ K[g].status = H[g].status /\ K[g].size = H[g].size
       /\ K[h].ptr = nc /\ K[h].status = H[h].status /\ K[h].size = H[h].size
       /\ \A x \in Handles : x # h /\ x # g => K[x] = H[x]
       /\ F[nc].guard = C[c].guard /\ F[nc].next = n
       /\ F[c].guard = "FREE" /\ F[c].handle = g /\ F[c].next = nc
       /\ n # Null => F[n].guard = C[n].guard
  BY <1>2, <1>3, <1>4, <1>5, <1>10 DEF Swapped
<1>13. Hdr \in Nat /\ Hdr >= 1 /\ c # Null /\ f # Null /\ nc # Null BY <1>9, AreaFits
<1>14. ASSUME NEW x \in Handles
       PROVE  /\ (x \in Held(q) <=> x \in Held(p)) /\ (x \in Free(q) <=> x \in Free(p))
              /\ K[x].size = H[x].size
  <2>1. CASE x = h BY <1>1, <1>8, <1>9, <1>12, <1>13, <2>1 DEF Held, Free, Used
  <2>2. CASE x = g BY <1>1, <1>8, <1>9, <1>12, <1>13, <2>2 DEF Held, Free, Used
  <2>3. CASE x # h /\ x # g BY <1>1, <1>8, <1>12, <2>3 DEF Held, Free, Used
  <2>4. QED BY <2>1, <2>2, <2>3
<1>15. Held(q) = Held(p) /\ Free(q) = Free(p) BY <1>14 DEF Held, Free, Used
<1>16. g \in Free(q) BY <1>8, <1>9, <1>12, <1>13 DEF Free, Used
\* Free neighbours.
<1>17. ~(n # Null /\ C[n].guard = "FREE")
  BY <1>1, <1>3, <1>9 DEF NoFreePair, FreePair
<1>18. ASSUME NEW x \in HeadersIn(F), x # c, x # nc
       PROVE  /\ x \in HeadersIn(C) /\ x # f /\ F[x].guard = C[x].guard /\ F[x].next = C[x].next
              /\ F[x].next # Null => /\ F[x].next # f /\ F[x].next \in HeadersIn(C)
                                     /\ F[x].next # c => F[F[x].next].guard = C[C[x].next].guard
  <2>1. x \in HeadersIn(C) /\ x # f /\ F[x].guard = C[x].guard /\ F[x].next = C[x].next
    BY <1>11, <1>18
  <2>2. PICK w : w = C[x].next OBVIOUS
  <2>3. ASSUME w # Null PROVE w # f /\ w \in HeadersIn(C) /\ (w # c => F[w].guard = C[w].guard)
    <3>1. w \in HeadersIn(C) /\ C[w].prev = x BY <1>6, <2>1, <2>2, <2>3, HeaderFacts
    <3>2. C[f].prev = c BY <1>2, <1>6, <1>13, HeaderFacts
    <3>3. w # f BY <1>18, <3>1, <3>2
    <3>4. QED BY <1>11, <3>1, <3>3
  <2>4. QED BY <2>1, <2>2, <2>3
<1>19. FreeBeside(F, g)
  <2>1. SUFFICES ASSUME NEW x \in HeadersIn(F), FreePair(F, x)
                 PROVE  F[x].handle = g \/ F[F[x].next].handle = g
    BY DEF FreeBeside
  <2>2. CASE x = c BY <1>12, <2>2
  <2>3. CASE x = nc BY <1>9, <1>12, <2>1, <2>3 DEF FreePair
  <2>4. CASE x # c /\ x # nc
    <3>1. CASE F[x].next = c BY <1>12, <3>1
    <3>2. CASE F[x].next # c
      <4>1. FreePair(C, x) BY <1>18, <2>1, <2>4, <3>2 DEF FreePair
      <4>2. QED BY <1>1, <1>18, <2>4, <4>1 DEF NoFreePair
    <3>3. QED BY <3>1, <3>2
  <2>5. QED BY <2>2, <2>3, <2>4
\* Chunks that can move.
<1>20. ASSUME \A x \in HeadersIn(C) : x > c => ~MovableIn(C, x),
              NEW x \in HeadersIn(F), x >= c, MovableIn(F, x)
       PROVE  FALSE
  <2>1. x # c BY <1>12, <1>20 DEF MovableIn
  <2>2. x # nc
    <3>1. SUFFICES ASSUME x = nc PROVE FALSE OBVIOUS
    <3>2. n # Null /\ F[n].guard = "FREE" BY <1>12, <1>20, <3>1 DEF MovableIn
    <3>3. QED BY <1>12, <1>17, <3>2
  <2>3. x \in HeadersIn(C) /\ F[x].guard = C[x].guard /\ F[x].next = C[x].next
    BY <1>18, <2>1, <2>2
  <2>4. PICK w : w = C[x].next OBVIOUS
  <2>5. w # Null /\ F[w].guard = "FREE" BY <1>20, <2>3, <2>4 DEF MovableIn
  <2>6. x \in Nat /\ x > c BY <1>6, <1>9, <1>20, <2>1, <2>3, HeaderFacts
  <2>7. w \in Nat /\ w > x BY <1>6, <2>3, <2>4, <2>5, HeaderFacts
  <2>8. w # c BY <1>9, <2>6, <2>7
  <2>9. C[w].guard = "FREE" BY <1>18, <2>1, <2>2, <2>3, <2>4, <2>5, <2>8
  <2>10. MovableIn(C, x) BY <1>20, <2>3, <2>4, <2>5, <2>9 DEF MovableIn
  <2>11. QED BY <1>20, <2>3, <2>6, <2>10
\* Contents.
<1>21. h \in Used(p) BY <1>1, <1>9, <1>13 DEF Used
<1>22. \A s : s \in Payload(p, h) <=> s \in Int /\ c + Hdr <= s /\ s < f
  BY <1>1, <1>9, <1>21, PayloadIs
<1> DEFINE source == {b \in p.bytes : b[1] \in Payload(p, h)}
<1>23. /\ \A b \in p.bytes : b \notin source /\ b[1] - up \notin Payload(p, h) =>
               b \in ContentsMoved(p, h, up)
       /\ \A b \in source : <<b[1] + up, b[2]>> \in ContentsMoved(p, h, up)
  BY DEF ContentsMoved
<1>24. up \in Nat /\ nc = c + up BY <1>5, <1>05, <1>9, <1>13
<1>25. ASSUME NEW x \in Held(p), \A s \in Payload(p, x) : <<s, x>> \in p.bytes,
              NEW s \in Payload(q, x)
       PROVE  <<s, x>> \in q.bytes
  <2>1. x \in Used(p) /\ x \in Used(q) /\ H[x].status # "FREE"
    BY <1>1, <1>15 DEF Held, Free
  <2>2. CASE x = h
    <3>1. \A t : t \in Payload(q, h) <=> t \in Int /\ nc + Hdr <= t /\ t < nc + Hdr + y
      BY <1>4, <1>8, <1>9, <1>10, <1>12, <1>13, <2>1, <2>2, ChunkFacts, PayloadIs
    <3>2. s \in Int /\ nc + Hdr <= s /\ s < nc + Hdr + y BY <1>25, <2>2, <3>1
    <3>3. s - up \in Int /\ c + Hdr <= s - up /\ s - up < f BY <1>9, <1>13, <1>24, <3>2
    <3>4. PICK t : t = s - up OBVIOUS
    <3>5. t \in Payload(p, h) BY <1>22, <3>3, <3>4
    <3>6. <<t, h>> \in source BY <1>25, <2>2, <3>5
    <3> HIDE DEF source
    <3>7. <<t + up, h>> \in ContentsMoved(p, h, up) BY <1>23, <3>6
    <3>8. t + up = s BY <1>24, <3>2, <3>4
    <3>9. s \notin c + up .. c + up + Hdr - 1 BY <1>9, <1>13, <1>24, <3>2
    <3>10. <<s, h>> \in ContentsMoved(p, h, up) BY <3>7, <3>8
    <3>11. QED BY <1>10, <2>2, <3>9, <3>10
  <2>3. CASE x # h
    <3>1. x \in Handles /\ x # g BY <1>9, <2>1 DEF Used
    <3>2. K[x] = H[x] BY <1>12, <2>3, <3>1
    <3>3. s \in Payload(p, x) BY <1>1, <1>8, <1>25, <3>2 DEF Payload
    <3>4. <<s, x>> \in p.bytes BY <1>25, <3>3
    <3>5. PICK w : w = H[x].ptr OBVIOUS
    <3>6. w \in HeadersIn(C) /\ w \in Nat /\ C[w].handle = x BY <1>1, <2>1, <3>5, ChunkFacts
    <3>7. s \in Int /\ w + Hdr <= s /\ s < EndIn(H, C, w) BY <1>1, <2>1, <3>3, <3>5, PayloadIs
    <3>8. w # c /\ w # f BY <1>2, <1>3, <2>3, <3>1, <3>6
    <3>9. w <= s BY <1>13, <3>6, <3>7
    <3>10. ~(c <= s /\ s < EndIn(H, C, c)) BY <1>6, <3>6, <3>7, <3>8, <3>9, Apart
    <3>11. ~(f <= s /\ s < EndIn(H, C, f)) BY <1>6, <1>9, <3>6, <3>7, <3>8, <3>9, Apart
    <3>12. s < c \/ s >= EndIn(H, C, f) BY <1>9, <3>7, <3>10, <3>11
    <3>13. s \notin Payload(p, h) BY <1>9, <1>13, <1>22, <3>7, <3>10
    <3>14. s - up \notin Payload(p, h)
      <4>1. SUFFICES ASSUME s - up \in Payload(p, h) PROVE FALSE OBVIOUS
      <4>2. c + Hdr <= s - up /\ s - up < f BY <1>22, <4>1
      <4>3. QED BY <1>9, <1>13, <1>24, <3>7, <3>12, <4>2
    <3>15. s \notin c + up .. c + up + Hdr - 1 BY <1>9, <1>13, <1>24, <3>7, <3>12
    <3>16. <<s, x>> \notin source BY <3>13
    <3> HIDE DEF source
    <3>17. <<s, x>> \in ContentsMoved(p, h, up) BY <1>23, <3>4, <3>14, <3>16
    <3>18. QED BY <1>10, <3>15, <3>17
  <2>4. QED BY <2>2, <2>3
<1>26. Carries(p, q)
  <2>1. ASSUME NEW x \in Held(p)
        PROVE  /\ q.handles[x].status = p.handles[x].status
               /\ p.handles[x].status = "LOCK" => q.handles[x].ptr = p.handles[x].ptr
    <3>1. x \in Handles /\ H[x].status # "FREE" BY <1>1 DEF Held, Free, Used
    <3>2. CASE x = h BY <1>1, <1>8, <1>9, <1>12, <3>2
    <3>3. CASE x # h
      <4>1. x # g BY <1>9, <3>1
      <4>2. K[x] = H[x] BY <1>12, <3>1, <3>3, <4>1
      <4>3. QED BY <1>1, <1>8, <4>2
    <3>4. QED BY <3>2, <3>3
  <2>2. ASSUME Accounted(p) PROVE Accounted(q)
    <3>1. q.alloced = p.alloced /\ q.free = p.free BY <1>7, SlideIs
    <3>2. \A x \in Handles : q.handles[x].size = p.handles[x].size BY <1>1, <1>8, <1>14
    <3>3. QED BY <1>15, <2>2, <3>1, <3>2, AccountsSame
  <2>3. QED BY <1>15, <1>25, <2>1, <2>2 DEF Carries
<1>27. c \in HeadersIn(F) BY <1>6, <1>9, <1>11
<1>28. (\A x \in HeadersIn(C) : x > c => ~MovableIn(C, x)) =>
          \A x \in HeadersIn(F) : x >= c => ~MovableIn(F, x)
  BY <1>20
<1>29. \A x \in Handles : K[x].size = H[x].size BY <1>14
<1>30. F[c].handle = g /\ K[g].ptr = c BY <1>12
<1>31. QED BY <1>1, <1>7, <1>8, <1>9, <1>10, <1>15, <1>16, <1>19, <1>26, <1>27, <1>28, <1>29, <1>30

\* Where the slider goes on, nothing behind it can move.
LEMMA SlidMerged ==
    ASSUME NEW p, SoundPool(p), NoFreePair(p.chunks), NEW c \in HeadersIn(p.chunks),
           MovableIn(p.chunks, c), \A x \in HeadersIn(p.chunks) : x > c => ~MovableIn(p.chunks, x),
           NEW w \in Int, \A h \in Free(p) : p.handles[h].size < w,
           NEW q, q = slide_chunk_up(p, c), NEW m, m = merge_chunks(q, q.chunks[c].handle)
    PROVE  /\ SoundPool(m.pool) /\ Carries(p, m.pool) /\ NoFreePair(m.pool.chunks)
           /\ Held(m.pool) = Held(p)
           /\ m.result \in Handles
           /\ m.pool.handles[m.result].size < w =>
                 /\ SlideFrom(m.pool, c, m.result) \in HeadersIn(m.pool.chunks) \cup {Null}
                 /\ \A x \in HeadersIn(m.pool.chunks) :
                       x > SlideFrom(m.pool, c, m.result) => ~MovableIn(m.pool.chunks, x)
                 /\ \A h \in Free(m.pool) : m.pool.handles[h].size < w
<1>1. PICK g : g = q.chunks[c].handle OBVIOUS
<1>2. /\ SoundPool(q) /\ Carries(p, q) /\ Held(q) = Held(p) /\ Free(q) = Free(p)
      /\ \A x \in Handles : q.handles[x].size = p.handles[x].size
      /\ g \in Free(q) /\ g # 0 /\ q.handles[g].ptr = c /\ FreeBeside(q.chunks, g)
      /\ c \in HeadersIn(q.chunks)
      /\ \A x \in HeadersIn(q.chunks) : x >= c => ~MovableIn(q.chunks, x)
  BY <1>1, SlideKeeps
<1>3. PICK r, s : r = m.pool /\ s = m.result OBVIOUS
<1>4. /\ MergeKeeps(q, r) /\ FreeAsBefore(q, r, s) /\ NoFreePair(r.chunks)
      /\ s # 0 => s \in Free(r)
      /\ s = 0 => r = q \/ (c \notin HeadersIn(r.chunks) /\ q.chunks[c].prev = 0)
  <2>1. m = merge_chunks(q, g) BY <1>1
  <2>2. /\ MergeKeeps(q, m.pool) /\ FreeAsBefore(q, m.pool, m.result) /\ NoFreePair(m.pool.chunks)
        /\ m.result # 0 => m.result \in Free(m.pool)
        /\ m.result = 0 => \/ m.pool = q
                           \/ /\ q.handles[g].ptr \notin HeadersIn(m.pool.chunks)
                              /\ q.chunks[q.handles[g].ptr].prev = 0
    <3>1. SoundPool(q) /\ g \in Free(q) /\ g # 0 /\ FreeBeside(q.chunks, g) BY <1>2
    <3>2. QED BY <2>1, <3>1, MergeChunksIs
  <2>3. QED BY <1>2, <1>3, <2>2
<1>5. /\ SoundPool(r) /\ Held(r) = Held(q) /\ Carries(q, r)
      /\ \A x \in HeadersIn(r.chunks) :
            /\ x \in HeadersIn(q.chunks)
            /\ MovableIn(r.chunks, x) => MovableIn(q.chunks, x)
  BY <1>4 DEF MergeKeeps
<1>6. Carries(p, r) BY <1>2, <1>5, CarriesOn
<1>7. s \in Handles BY <1>4, AreaFits DEF Free, Used
<1>8. ASSUME r.handles[s].size < w
      PROVE  /\ SlideFrom(r, c, s) \in HeadersIn(r.chunks) \cup {Null}
             /\ \A x \in HeadersIn(r.chunks) :
                   x > SlideFrom(r, c, s) => ~MovableIn(r.chunks, x)
             /\ \A h \in Free(r) : r.handles[h].size < w
  <2>1. \A h \in Free(r) : r.handles[h].size < w
    <3> TAKE h \in Free(r)
    <3>1. CASE h = s BY <1>8, <3>1
    <3>2. CASE h # s
      <4>1. h \in Free(p) /\ r.handles[h] = q.handles[h] BY <1>2, <1>4, <3>2 DEF FreeAsBefore
      <4>2. h \in Handles BY <4>1 DEF Free, Used
      <4>3. QED BY <1>2, <4>1, <4>2
    <3>3. QED BY <3>1, <3>2
  <2>2. PICK d : d = SlideFrom(r, c, s) OBVIOUS
  <2>3. SoundIn(r.handles, r.chunks, r.last) /\ SoundIn(q.handles, q.chunks, q.last)
    BY <1>2, <1>5 DEF SoundPool
  <2>4. ASSUME NEW x \in HeadersIn(r.chunks) PROVE x \in Nat
    BY <2>3, <2>4, HeaderFacts
  <2>5. CASE s # 0
    <3>1. PICK l : l = r.last OBVIOUS
    <3>2. l \in HeadersIn(r.chunks) /\ r.chunks[l].next = Null BY <2>3, <3>1 DEF SoundIn
    <3>3. d = r.chunks[l].prev BY <2>2, <2>5, <3>1 DEF SlideFrom
    <3>4. d \in HeadersIn(r.chunks) \cup {Null} /\ l \in Nat BY <2>3, <3>2, <3>3, HeaderFacts
    <3>5. ASSUME NEW x \in HeadersIn(r.chunks), x > d PROVE ~MovableIn(r.chunks, x)
      <4>1. ~(l < x) BY <2>3, <3>2, Between
      <4>2. x < l => x <= d BY <2>3, <3>2, <3>3, Between
      <4>3. x \in Nat /\ (d \in Nat \/ d = -1) BY <2>4, <3>4 DEF Null
      <4>4. x = l BY <3>4, <3>5, <4>1, <4>2, <4>3
      <4>5. QED BY <3>2, <4>4 DEF MovableIn
    <3>6. QED BY <2>1, <2>2, <3>4, <3>5
  <2>6. CASE s = 0 /\ r = q
    <3>1. d = q.chunks[c].prev BY <2>2, <2>6 DEF SlideFrom
    <3>2. d \in HeadersIn(q.chunks) \cup {Null} /\ c \in Nat BY <1>2, <2>3, <3>1, HeaderFacts
    <3>3. ASSUME NEW x \in HeadersIn(r.chunks), x > d PROVE ~MovableIn(r.chunks, x)
      <4>1. x < c => x <= d BY <1>2, <2>3, <2>6, <3>1, Between
      <4>2. x \in Nat /\ (d \in Nat \/ d = -1) BY <2>4, <2>6, <3>2 DEF Null
      <4>3. x >= c BY <3>2, <3>3, <4>1, <4>2
      <4>4. QED BY <1>2, <2>6, <4>3
    <3>4. QED BY <2>1, <2>2, <2>6, <3>2, <3>3
  <2>7. CASE s = 0 /\ c \notin HeadersIn(r.chunks) /\ q.chunks[c].prev = 0
    <3>1. c \in Addresses /\ c \in Nat BY <1>2, <2>3, HeaderFacts
    <3>2. r.chunks[c] = NoHeader BY <2>7, <3>1 DEF HeadersIn
    <3>3. d = Null BY <2>2, <2>7, <3>2 DEF SlideFrom, NoHeader
    <3>4. ASSUME NEW x \in HeadersIn(r.chunks) PROVE ~MovableIn(r.chunks, x)
      <4>1. SUFFICES ASSUME MovableIn(q.chunks, x) PROVE FALSE BY <1>5
      <4>2. x \in HeadersIn(q.chunks) /\ x \in Nat BY <1>5, <2>4
      <4>3. x < c BY <1>2, <3>1, <4>1, <4>2
      <4>4. x <= q.chunks[c].prev BY <1>2, <2>3, <4>2, <4>3, Between
      <4>5. x = 0 BY <2>7, <4>2, <4>4
      <4>6. q.handles[0].ptr = 0 /\ q.handles[0].status = "FREE" BY <2>3 DEF SoundIn
      <4>7. 0 \in Used(q) BY <4>6, AreaFits DEF Used
      <4>8. q.chunks[0].guard = "FREE" BY <1>2, <4>6, <4>7, ChunkFacts
      <4>9. QED BY <4>1, <4>5, <4>8 DEF MovableIn
    <3>5. QED BY <2>1, <2>2, <3>3, <3>4
  <2>8. QED BY <1>4, <2>5, <2>6, <2>7
<1>9. QED BY <1>2, <1>3, <1>4, <1>5, <1>6, <1>7, <1>8

-----------------------------------------------------------------------------
(* The invariant *)

\* What the program has stored is there, and the accounts are right.
Kept(p, W) ==
    /\ \A h \in W : h \in Held(p) /\ \A a \in Payload(p, h) : <<a, h>> \in p.bytes
    /\ Accounted(p)

\* While merging, the only free neighbours are those of the handle of the loop.
MergeInv(p, o, h, r) ==
    o = "merge" => h \in Free(p) /\ h # 0 /\ FreeBeside(p.chunks, h) /\ r.handle # 0

\* While sliding, no free chunk is large enough and nothing behind the slider can move.
SlideInv(p, o, c, w, r) ==
    o = "slide" =>
        /\ w \in Int /\ w > 0 /\ r.handle # 0 /\ Cardinality(Held(p)) < MaxLive
        /\ c \in HeadersIn(p.chunks) \cup {Null}
        /\ \A h \in Free(p) : p.handles[h].size < w + Hdr
        /\ \A x \in HeadersIn(p.chunks) : x > c => ~MovableIn(p.chunks, x)

Refused(p, r) ==
    (r.handle = 0 /\ r.size > 0) =>
        \/ p.free < r.size
        \/ /\ \A x \in HeadersIn(p.chunks) : ~MovableIn(p.chunks, x)
           /\ \A h \in Free(p) : p.handles[h].size < r.size + Hdr

PoolInv(p, o, h, c, w, r, W) ==
    /\ SoundPool(p) /\ Kept(p, W)
    /\ MergeInv(p, o, h, r) /\ SlideInv(p, o, c, w, r) /\ Refused(p, r)
    /\ o \in {"idle", "slide", "freed"} => NoFreePair(p.chunks)
    /\ o = "freed" => r.handle # 0

LocksKept(p, q) ==
    \A h \in Held(p) : p.handles[h].status = "LOCK" =>
        h \in Held(q) /\ q.handles[h].ptr = p.handles[h].ptr

Inv == PoolInv(pool, op, handle, chunk, want, out, written)
InvNext == PoolInv(pool', op', handle', chunk', want', out', written')

LEMMA CarriesThem ==
    ASSUME NEW p, NEW q, NEW W, Carries(p, q)
    PROVE  (Kept(p, W) => Kept(q, W)) /\ LocksKept(p, q)
  BY DEF Carries, Kept, LocksKept

LEMMA HeldIsNotFirst ==
    ASSUME NEW p, SoundPool(p), NEW h \in Held(p)
    PROVE  h # 0 /\ h \in Used(p) /\ h \in Handles
<1>1. p.handles[0].status = "FREE" BY DEF SoundPool, SoundIn
<1>2. QED BY <1>1 DEF Held, Free, Used

LEMMA InitSound ==
    /\ SoundPool(init_mem_pool) /\ Held(init_mem_pool) = {}
    /\ NoFreePair(init_mem_pool.chunks) /\ Accounted(init_mem_pool)
<1> DEFINE first == [ptr |-> 0, status |-> "FREE", size |-> Area - Hdr]
           head == [guard |-> "FREE", next |-> Null, prev |-> Null, handle |-> 0]
           H == [h \in Handles |-> IF h = 0 THEN first ELSE NoHandle]
           C == [a \in Addresses |-> IF a = 0 THEN head ELSE NoHeader]
           p == init_mem_pool
<1>1. /\ Area \in Nat /\ Hdr \in Nat /\ Hdr >= 1 /\ Area >= 2 * Hdr
      /\ 0 \in Addresses /\ 0 \in Handles /\ Null \notin Addresses
  BY AreaFits
<1>2. p = [handles |-> H, chunks |-> C, last |-> 0, alloced |-> 0, free |-> Area - Hdr,
           bytes |-> {}]
  BY DEF init_mem_pool
<1> HIDE DEF p
<1>3. Area - Hdr \in Nat BY <1>1
<1>4. first \in HandleSet /\ NoHandle \in HandleSet
  BY <1>1, <1>3 DEF HandleSet, NoHandle, Sigs
<1>5. head \in ChunkSet /\ NoHeader \in ChunkSet /\ head # NoHeader
  <2>1. head.guard = "FREE" /\ NoHeader.guard = "none" BY DEF NoHeader
  <2>2. head # NoHeader BY <2>1
  <2>3. head \in ChunkSet /\ NoHeader \in ChunkSet BY <1>1 DEF ChunkSet, NoHeader, Sigs
  <2>4. QED BY <2>2, <2>3
<1>6. /\ H \in [Handles -> HandleSet] /\ H[0] = first
      /\ \A h \in Handles : h # 0 => H[h] = NoHandle
  <2> HIDE DEF first
  <2>1. QED BY <1>1, <1>4
<1>7. /\ C \in [Addresses -> ChunkSet] /\ C[0] = head
      /\ \A a \in Addresses : a # 0 => C[a] = NoHeader
  <2> HIDE DEF head
  <2>1. QED BY <1>1, <1>5
<1> HIDE DEF H, C
<1>8. HeadersIn(C) = {0}
  <2>1. 0 \in HeadersIn(C) BY <1>1, <1>5, <1>7 DEF HeadersIn
  <2>2. \A a \in HeadersIn(C) : a = 0 BY <1>7 DEF HeadersIn
  <2>3. QED BY <2>1, <2>2
<1>9. /\ H[0].ptr = 0 /\ H[0].status = "FREE" /\ H[0].size = Area - Hdr
      /\ C[0].guard = "FREE" /\ C[0].next = Null /\ C[0].prev = Null /\ C[0].handle = 0
  BY <1>6, <1>7
<1>10. NoHandle.ptr = Null /\ "FREE" \in Sigs BY DEF NoHandle, Sigs
<1>11. EndIn(H, C, 0) = Area BY <1>1, <1>9 DEF EndIn
<1>12. ChunkOK(H, C, 0, 0) BY <1>3, <1>9, <1>10, <1>11 DEF ChunkOK
<1>13. \A h \in Handles : HandleOK(H, C, h)
  <2> TAKE h \in Handles
  <2>1. CASE h = 0 BY <1>8, <1>9, <2>1 DEF HandleOK
  <2>2. CASE h # 0 BY <1>6, <1>10, <2>2 DEF HandleOK
  <2>3. QED BY <2>1, <2>2
<1>14. SoundIn(H, C, 0)
  <2>1. \A a, b \in HeadersIn(C) : a < b => EndIn(H, C, a) <= b BY <1>8
  <2>2. \A a \in HeadersIn(C) : ChunkOK(H, C, 0, a) BY <1>8, <1>12
  <2>3. 0 \in HeadersIn(C) /\ C[0].next = Null BY <1>8, <1>9
  <2>4. QED BY <1>6, <1>7, <1>9, <1>13, <2>1, <2>2, <2>3 DEF SoundIn
<1>15. p \in PoolSet
  <2>1. {} \in SUBSET (Addresses \X Handles) OBVIOUS
  <2>2. QED BY <1>1, <1>2, <1>3, <1>6, <1>7, <2>1 DEF PoolSet
<1>16. p.handles = H /\ p.chunks = C /\ p.last = 0 BY <1>2
<1>17. SoundPool(p) BY <1>14, <1>15, <1>16 DEF SoundPool
<1>18. Held(p) = {}
  <2>1. \A h \in Held(p) : FALSE BY <1>6, <1>9, <1>10, <1>16 DEF Held, Free, Used
  <2>2. QED BY <2>1
<1>19. NoFreePair(C) BY <1>8, <1>9 DEF NoFreePair, FreePair
<1>20. Used(p) = {0} /\ Free(p) = {0}
  <2>1. \A h \in Handles : h \in Used(p) <=> h = 0
    <3> TAKE h \in Handles
    <3>1. CASE h = 0 BY <1>1, <1>9, <1>16, <3>1 DEF Used
    <3>2. CASE h # 0 BY <1>6, <1>10, <1>16, <3>2 DEF Used
    <3>3. QED BY <3>1, <3>2
  <2>2. Used(p) = {0} BY <1>1, <2>1 DEF Used
  <2>3. QED BY <1>9, <1>16, <2>2 DEF Free
<1>21. Accounted(p)
  <2>1. Sized(H, {}) /\ SumOf(H, {}) = 0
    <3>1. Sized(H, {}) BY FS_EmptySet DEF Sized
    <3>2. SumOf(H, {}) = 0 BY SumNone
    <3>3. QED BY <3>1, <3>2
  <2>2. H[0].size \in Int BY <1>3, <1>9
  <2>3. SumOf(H, {} \cup {0}) = H[0].size + SumOf(H, {}) BY <2>1, <2>2, SumMore
  <2>4. SumOf(H, {0}) = Area - Hdr
    <3>1. {} \cup {0} = {0} OBVIOUS
    <3>2. QED BY <1>3, <1>9, <2>1, <2>3, <3>1
  <2>5. p.free = Area - Hdr /\ p.alloced = 0 BY <1>2
  <2>6. Cardinality(Used(p)) = 1 BY <1>20, FS_Singleton
  <2>7. p.free + p.alloced + Hdr * Cardinality(Used(p)) = Area BY <1>1, <2>5, <2>6
  <2>8. ASSUME NEW h \in Handles \ Used(p) PROVE p.handles[h].size = 0
    <3>1. p.handles[h] = NoHandle BY <1>6, <1>16, <1>20
    <3>2. QED BY <3>1 DEF NoHandle
  <2>9. QED BY <1>16, <1>18, <1>20, <2>1, <2>4, <2>5, <2>7, <2>8 DEF Accounted
<1>22. QED BY <1>16, <1>17, <1>18, <1>19, <1>21 DEF p

LEMMA InitInv == PoolInit => Inv
<1> SUFFICES ASSUME PoolInit PROVE Inv OBVIOUS
<1>1. /\ pool = init_mem_pool /\ op = "idle" /\ out = NoOut /\ written = {}
  BY DEF PoolInit
<1>2. SoundPool(pool) /\ NoFreePair(pool.chunks) /\ Accounted(pool) BY <1>1, InitSound
<1>3. Kept(pool, written) BY <1>1, <1>2 DEF Kept
<1>4. Refused(pool, out) BY <1>1 DEF Refused, NoOut, Null
<1>5. QED BY <1>1, <1>2, <1>3, <1>4 DEF Inv, PoolInv, MergeInv, SlideInv

-----------------------------------------------------------------------------
(* Calls of the program *)

\* What every step gives.
Holds == InvNext /\ (op' # "freed" => LocksKept(pool, pool'))

\* Back between the calls.
LEMMA Quieted ==
    ASSUME SoundPool(pool'), NoFreePair(pool'.chunks), Kept(pool', written'),
           op' = "idle", out'.handle # 0
    PROVE  InvNext
  BY DEF InvNext, PoolInv, MergeInv, SlideInv, Refused

LEMMA NoOutIs == NoOut.handle # 0
  BY DEF NoOut, Null

LEMMA LockHolds ==
    ASSUME Inv, NEW h \in Handles, lock_mem_chunk(h)
    PROVE  Holds
<1>1. /\ op = "idle" /\ h \in Held(pool) /\ op' = "idle" /\ out' = NoOut
      /\ written' = written \cup {h}
  BY DEF lock_mem_chunk, Quiet
<1>2. PICK p, q, r : p = pool /\ q = pool' /\ r = SetStatus(p, h, "LOCK") OBVIOUS
<1>3. SoundPool(p) /\ Kept(p, written) /\ NoFreePair(p.chunks)
  BY <1>1, <1>2 DEF Inv, PoolInv
<1>4. h # 0 /\ h \in Used(p) BY <1>1, <1>2, <1>3, HeldIsNotFirst
<1>5. "LOCK" \in Sigs /\ "LOCK" # "FREE" BY DEF Sigs
<1>6. /\ SoundPool(r) /\ r.bytes = p.bytes
      /\ r.handles[h].ptr = p.handles[h].ptr /\ r.handles[h].status = "LOCK"
      /\ r.handles[h].size = p.handles[h].size /\ r.free = p.free /\ r.alloced = p.alloced
      /\ \A x \in Handles : x # h => r.handles[x] = p.handles[x]
  BY <1>2, <1>3, <1>4, <1>5, SetStatusIs
<1>7. NoFreePair(r.chunks) BY <1>2, <1>3, <1>4, <1>5, StatusPairs
<1> DEFINE B == r.bytes \cup (Payload(p, h) \X {h})
<1>8. /\ q \in PoolSet /\ q.handles = r.handles /\ q.chunks = r.chunks /\ q.last = r.last
      /\ q.bytes = B /\ q.free = r.free /\ q.alloced = r.alloced
  <2>1. q = [r EXCEPT !.bytes = @ \cup (Payload(p, h) \X {h})] BY <1>2 DEF lock_mem_chunk
  <2>2. r \in PoolSet BY <1>6 DEF SoundPool
  <2>3. r = [handles |-> r.handles, chunks |-> r.chunks, last |-> r.last,
             alloced |-> r.alloced, free |-> r.free, bytes |-> r.bytes]
    BY <2>2, PoolFields
  <2>4. q = [handles |-> r.handles, chunks |-> r.chunks, last |-> r.last,
             alloced |-> r.alloced, free |-> r.free, bytes |-> B]
    BY <2>1, <2>3
  <2>5. B \in SUBSET (Addresses \X Handles)
    <3>1. Payload(p, h) \subseteq Addresses
      <4>1. PICK a, e : a = p.handles[h].ptr /\ e = EndIn(p.handles, p.chunks, a) OBVIOUS
      <4>2. a \in Nat /\ e <= Area /\ e = a + Hdr + p.handles[h].size /\ p.handles[h].size \in Nat
        BY <1>3, <1>4, <4>1, ChunkFacts
      <4>3. \A s : s \in Payload(p, h) => s \in Int /\ a + Hdr <= s /\ s < e
        BY <1>3, <1>4, <4>1, PayloadIs
      <4>4. \A s : s \in Payload(p, h) => s \in Nat /\ s < Area BY <4>2, <4>3, AreaFits
      <4>5. QED BY <4>4, AreaFits
    <3>2. QED BY <2>2, <3>1, PoolFields
  <2> HIDE DEF B
  <2>6. QED BY <2>2, <2>4, <2>5, PoolFields DEF PoolSet
<1>9. SoundPool(q) BY <1>6, <1>8, SameShape
<1>10. ASSUME NEW x \in Held(p)
       PROVE  /\ x \in Held(q) /\ q.handles[x].ptr = p.handles[x].ptr
              /\ Payload(q, x) = Payload(p, x)
  <2>1. /\ q.handles[x].ptr = p.handles[x].ptr /\ q.handles[x].size = p.handles[x].size
        /\ q.handles[x].status # "FREE" /\ x \in Handles /\ p.handles[x].ptr # Null
    <3>1. x \in Handles /\ p.handles[x].status # "FREE" /\ p.handles[x].ptr # Null
      BY DEF Held, Free, Used
    <3>2. CASE x = h BY <1>5, <1>6, <1>8, <3>1, <3>2
    <3>3. CASE x # h BY <1>6, <1>8, <3>1, <3>3
    <3>4. QED BY <3>2, <3>3
  <2>2. QED BY <2>1 DEF Held, Free, Used, Payload
<1>110. Accounted(q)
  <2>1. ASSUME NEW x \in Handles
        PROVE  /\ x \in Free(q) <=> x \in Free(p)
               /\ x \in Held(q) <=> x \in Held(p)
               /\ q.handles[x].size = p.handles[x].size
    <3>1. p.handles[h].ptr # Null /\ p.handles[h].status # "FREE"
      BY <1>1, <1>2 DEF Held, Free, Used
    <3>2. CASE x = h BY <1>5, <1>6, <1>8, <3>1, <3>2 DEF Held, Free, Used
    <3>3. CASE x # h BY <1>5, <1>6, <1>8, <3>3 DEF Held, Free, Used
    <3>4. QED BY <3>2, <3>3
  <2>2. Free(q) = Free(p) /\ Held(q) = Held(p)
    <3>1. \A s : Free(s) \subseteq Handles /\ Held(s) \subseteq Handles
      BY DEF Held, Free, Used
    <3>2. QED BY <2>1, <3>1
  <2>3. Accounted(p) BY <1>3 DEF Kept
  <2>4. \A x \in Handles : q.handles[x].size = p.handles[x].size BY <2>1
  <2>5. QED BY <1>3, <1>6, <1>8, <2>2, <2>3, <2>4, AccountsSame
<1>11. Kept(q, written')
  <2>1. SUFFICES ASSUME NEW x \in written'
                 PROVE  x \in Held(q) /\ \A a \in Payload(q, x) : <<a, x>> \in q.bytes
    BY <1>110 DEF Kept
  <2>2. CASE x = h
    <3>1. \A a \in Payload(p, h) : <<a, h>> \in q.bytes BY <1>8
    <3>2. QED BY <1>1, <1>2, <1>10, <2>2, <3>1
  <2>3. CASE x # h
    <3>1. x \in Held(p) /\ \A a \in Payload(p, x) : <<a, x>> \in p.bytes
      BY <1>1, <1>3, <2>1, <2>3 DEF Kept
    <3>2. p.bytes \subseteq q.bytes BY <1>6, <1>8
    <3>3. QED BY <1>10, <3>1, <3>2
  <2>4. QED BY <2>2, <2>3
<1>12. LocksKept(p, q) BY <1>10 DEF LocksKept
<1>13. NoFreePair(q.chunks) BY <1>7, <1>8
<1>14. QED BY <1>1, <1>2, <1>9, <1>11, <1>12, <1>13, NoOutIs, Quieted DEF Holds

LEMMA ReleaseHolds ==
    ASSUME Inv, NEW h \in Handles, release_mem_chunk(h)
    PROVE  Holds
<1>1. /\ op = "idle" /\ h \in Held(pool) /\ op' = "idle" /\ out' = NoOut
      /\ written' = written
  BY DEF release_mem_chunk, Quiet
<1>2. PICK p, q : p = pool /\ q = pool' OBVIOUS
<1>3. SoundPool(p) /\ Kept(p, written) /\ NoFreePair(p.chunks)
  BY <1>1, <1>2 DEF Inv, PoolInv
<1>4. h # 0 /\ h \in Used(p) BY <1>1, <1>2, <1>3, HeldIsNotFirst
<1>5. "ALOC" \in Sigs /\ "ALOC" # "FREE" BY DEF Sigs
<1>6. q = SetStatus(p, h, "ALOC") BY <1>2 DEF release_mem_chunk
<1>7. /\ SoundPool(q) /\ q.bytes = p.bytes
      /\ q.handles[h].ptr = p.handles[h].ptr /\ q.handles[h].status = "ALOC"
      /\ q.handles[h].size = p.handles[h].size /\ q.free = p.free /\ q.alloced = p.alloced
      /\ \A x \in Handles : x # h => q.handles[x] = p.handles[x]
  BY <1>3, <1>4, <1>5, <1>6, SetStatusIs
<1>8. NoFreePair(q.chunks) BY <1>3, <1>4, <1>5, <1>6, StatusPairs
<1>9. ASSUME NEW x \in Held(p)
      PROVE  /\ x \in Held(q) /\ q.handles[x].ptr = p.handles[x].ptr
             /\ Payload(q, x) = Payload(p, x)
  <2>1. /\ q.handles[x].ptr = p.handles[x].ptr /\ q.handles[x].size = p.handles[x].size
        /\ q.handles[x].status # "FREE" /\ x \in Handles /\ p.handles[x].ptr # Null
    <3>1. x \in Handles /\ p.handles[x].status # "FREE" /\ p.handles[x].ptr # Null
      BY DEF Held, Free, Used
    <3>2. CASE x = h BY <1>5, <1>7, <3>1, <3>2
    <3>3. CASE x # h BY <1>7, <3>1, <3>3
    <3>4. QED BY <3>2, <3>3
  <2>2. QED BY <2>1 DEF Held, Free, Used, Payload
<1>10. Accounted(q)
  <2>1. ASSUME NEW x \in Handles
        PROVE  /\ x \in Free(q) <=> x \in Free(p)
               /\ x \in Held(q) <=> x \in Held(p)
               /\ q.handles[x].size = p.handles[x].size
    <3>1. p.handles[h].ptr # Null /\ p.handles[h].status # "FREE"
      BY <1>1, <1>2 DEF Held, Free, Used
    <3>2. CASE x = h BY <1>5, <1>7, <3>1, <3>2 DEF Held, Free, Used
    <3>3. CASE x # h BY <1>5, <1>7, <3>3 DEF Held, Free, Used
    <3>4. QED BY <3>2, <3>3
  <2>2. Free(q) = Free(p) /\ Held(q) = Held(p)
    <3>1. \A s : Free(s) \subseteq Handles /\ Held(s) \subseteq Handles
      BY DEF Held, Free, Used
    <3>2. QED BY <2>1, <3>1
  <2>3. Accounted(p) BY <1>3 DEF Kept
  <2>4. \A x \in Handles : q.handles[x].size = p.handles[x].size BY <2>1
  <2>5. QED BY <1>3, <1>7, <2>2, <2>3, <2>4, AccountsSame
<1>100. Kept(q, written') BY <1>1, <1>3, <1>7, <1>9, <1>10 DEF Kept
<1>11. LocksKept(p, q) BY <1>9 DEF LocksKept
<1>12. QED BY <1>1, <1>2, <1>7, <1>8, <1>100, <1>11, NoOutIs, Quieted DEF Holds

LEMMA FreeHolds ==
    ASSUME Inv, NEW h \in Handles, free_mem_chunk(h)
    PROVE  Holds
<1>1. /\ op = "idle" /\ h \in Held(pool) /\ pool.handles[h].status = "ALOC"
      /\ op' = "merge" /\ handle' = h /\ out' = NoOut /\ written' = written \ {h}
  BY DEF free_mem_chunk
<1>2. PICK p, q, r : p = pool /\ q = pool' /\ r = SetStatus(p, h, "FREE") OBVIOUS
<1>3. SoundPool(p) /\ Kept(p, written) /\ NoFreePair(p.chunks)
  BY <1>1, <1>2 DEF Inv, PoolInv
<1>4. h # 0 /\ h \in Used(p) BY <1>1, <1>2, <1>3, HeldIsNotFirst
<1>5. "FREE" \in Sigs BY DEF Sigs
<1>6. /\ SoundPool(r) /\ r.bytes = p.bytes
      /\ r.handles[h].ptr = p.handles[h].ptr /\ r.handles[h].status = "FREE"
      /\ r.handles[h].size = p.handles[h].size /\ r.free = p.free /\ r.alloced = p.alloced
      /\ \A x \in Handles : x # h => r.handles[x] = p.handles[x]
  BY <1>2, <1>3, <1>4, <1>5, SetStatusIs
<1>7. FreeBeside(r.chunks, h) BY <1>2, <1>3, <1>4, <1>5, StatusPairs
<1> DEFINE B == {b \in r.bytes : b[2] # h}
<1>8. /\ q \in PoolSet /\ q.handles = r.handles /\ q.chunks = r.chunks /\ q.last = r.last
      /\ q.bytes = B
      /\ q.alloced = r.alloced - p.handles[h].size /\ q.free = r.free + p.handles[h].size
  <2>1. PICK z : z = p.handles[h].size OBVIOUS
  <2>2. q = [r EXCEPT !.alloced = @ - z, !.free = @ + z, !.bytes = {b \in @ : b[2] # h}]
    BY <1>2, <2>1 DEF free_mem_chunk
  <2>3. r \in PoolSet /\ z \in Int BY <1>3, <1>4, <1>6, <2>1, ChunkFacts DEF SoundPool
  <2>4. r = [handles |-> r.handles, chunks |-> r.chunks, last |-> r.last,
             alloced |-> r.alloced, free |-> r.free, bytes |-> r.bytes]
    BY <2>3, PoolFields
  <2> DEFINE r1 == [r EXCEPT !.alloced = @ - z]
             r2 == [r1 EXCEPT !.free = r.free + z]
  <2>5. r1 = [handles |-> r.handles, chunks |-> r.chunks, last |-> r.last,
              alloced |-> r.alloced - z, free |-> r.free, bytes |-> r.bytes]
    BY <2>4
  <2>6. r2 = [handles |-> r.handles, chunks |-> r.chunks, last |-> r.last,
              alloced |-> r.alloced - z, free |-> r.free + z, bytes |-> r.bytes]
    <3> HIDE DEF r1
    <3>1. QED BY <2>5
  <2>7. q = [r2 EXCEPT !.bytes = B] BY <2>2
  <2>8. q = [handles |-> r.handles, chunks |-> r.chunks, last |-> r.last,
             alloced |-> r.alloced - z, free |-> r.free + z, bytes |-> B]
    <3> HIDE DEF r2, B
    <3>1. QED BY <2>6, <2>7
  <2>9. B \in SUBSET (Addresses \X Handles) BY <2>3, PoolFields
  <2>10. r.alloced - z \in Int /\ r.free + z \in Int BY <2>3, PoolFields
  <2> HIDE DEF B
  <2>11. QED BY <2>1, <2>3, <2>8, <2>9, <2>10, PoolFields DEF PoolSet
<1>9. SoundPool(q) BY <1>6, <1>8, SameShape
<1>10. ASSUME NEW x \in Held(p), x # h
       PROVE  x \in Held(q) /\ q.handles[x] = p.handles[x] /\ Payload(q, x) = Payload(p, x)
  <2>1. x \in Handles /\ p.handles[x].status # "FREE" /\ p.handles[x].ptr # Null
    BY DEF Held, Free, Used
  <2>2. q.handles[x] = p.handles[x] BY <1>6, <1>8, <1>10, <2>1
  <2>3. QED BY <2>1, <2>2 DEF Held, Free, Used, Payload
<1>110. Accounted(q)
  <2>1. p.handles[h].ptr # Null /\ p.handles[h].status # "FREE"
    BY <1>1, <1>2 DEF Held, Free, Used
  <2>2. ASSUME NEW x \in Handles
        PROVE  /\ x \in Free(q) <=> x \in Free(p) \/ x = h
               /\ x \in Held(q) <=> x \in Held(p) /\ x # h
               /\ q.handles[x].size = p.handles[x].size
    <3>1. CASE x = h BY <1>6, <1>8, <2>1, <3>1 DEF Held, Free, Used
    <3>2. CASE x # h BY <1>6, <1>8, <3>2 DEF Held, Free, Used
    <3>3. QED BY <3>1, <3>2
  <2>3. Free(q) = Free(p) \cup {h} /\ Held(q) = Held(p) \ {h}
    <3>1. \A s : Free(s) \subseteq Handles /\ Held(s) \subseteq Handles
      BY DEF Held, Free, Used
    <3>2. QED BY <2>2, <3>1
  <2>4. q.free = p.free + p.handles[h].size /\ q.alloced = p.alloced - p.handles[h].size
    BY <1>6, <1>8
  <2>5. Accounted(p) /\ h \in Held(p) BY <1>1, <1>2, <1>3 DEF Kept
  <2>6. \A x \in Handles : q.handles[x].size = p.handles[x].size BY <2>2
  <2>7. QED BY <1>3, <2>3, <2>4, <2>5, <2>6, AccountsFreed
<1>11. Kept(q, written')
  <2>1. SUFFICES ASSUME NEW x \in written'
                 PROVE  x \in Held(q) /\ \A a \in Payload(q, x) : <<a, x>> \in q.bytes
    BY <1>110 DEF Kept
  <2>2. x # h /\ x \in Held(p) /\ \A a \in Payload(p, x) : <<a, x>> \in p.bytes
    BY <1>1, <1>3, <2>1 DEF Kept
  <2>3. \A a : <<a, x>> \in p.bytes => <<a, x>> \in q.bytes BY <1>6, <1>8, <2>2
  <2>4. QED BY <1>10, <2>2, <2>3
<1>12. LocksKept(p, q)
  <2>1. p.handles[h].status # "LOCK" BY <1>1, <1>2
  <2>2. QED BY <1>10, <2>1 DEF LocksKept
<1>13. h \in Free(q)
  <2>1. h \in Handles /\ p.handles[h].ptr # Null BY <1>4 DEF Used
  <2>2. QED BY <1>6, <1>8, <2>1 DEF Free, Used
<1>14. FreeBeside(q.chunks, h) BY <1>7, <1>8
<1>15. PoolInv(q, "merge", h, chunk', want', NoOut, written')
  BY <1>4, <1>9, <1>11, <1>13, <1>14, NoOutIs DEF PoolInv, MergeInv, SlideInv, Refused
<1>16. QED BY <1>1, <1>2, <1>12, <1>15 DEF Holds, InvNext

-----------------------------------------------------------------------------
(* The merge loop, and a pool given back *)

LEMMA MergeLoopHolds ==
    ASSUME Inv, MergeLoop
    PROVE  Holds
<1>1. op = "merge" /\ out' = out /\ written' = written BY DEF MergeLoop
<1>2. PICK p, h : p = pool /\ h = handle OBVIOUS
<1>3. PICK m : m = merge_chunks(p, h) OBVIOUS
<1>4. /\ pool' = m.pool /\ handle' = m.result
      /\ op' = IF m.result = 0 THEN "idle" ELSE "merge"
  BY <1>2, <1>3 DEF MergeLoop
<1>5. /\ SoundPool(p) /\ Kept(p, written) /\ out.handle # 0
      /\ h \in Free(p) /\ h # 0 /\ FreeBeside(p.chunks, h)
  BY <1>1, <1>2 DEF Inv, PoolInv, MergeInv
<1>6. /\ MergeKeeps(p, m.pool) /\ NoFreePair(m.pool.chunks)
      /\ m.result # 0 => m.result \in Free(m.pool)
  BY <1>3, <1>5, MergeChunksIs
<1>7. PICK q, s : q = m.pool /\ s = m.result OBVIOUS
<1>8. SoundPool(q) /\ Carries(p, q) BY <1>6, <1>7 DEF MergeKeeps
<1>9. Kept(q, written) /\ LocksKept(p, q) BY <1>5, <1>8, CarriesThem
<1>10. CASE s = 0
  <2>1. op' = "idle" BY <1>4, <1>7, <1>10
  <2>2. QED BY <1>1, <1>2, <1>4, <1>5, <1>6, <1>7, <1>8, <1>9, <2>1, Quieted DEF Holds
<1>11. CASE s # 0
  <2>1. op' = "merge" /\ s \in Free(q) BY <1>4, <1>6, <1>7, <1>11
  <2>2. FreeBeside(q.chunks, s) BY <1>6, <1>7 DEF FreeBeside, NoFreePair
  <2>3. PoolInv(q, "merge", s, chunk', want', out, written)
    BY <1>5, <1>8, <1>9, <1>11, <2>1, <2>2 DEF PoolInv, MergeInv, SlideInv, Refused
  <2>4. QED BY <1>1, <1>2, <1>4, <1>7, <1>9, <2>1, <2>3 DEF Holds, InvNext
<1>12. QED BY <1>10, <1>11

LEMMA FreePoolHolds ==
    ASSUME Inv, free_mem_pool
    PROVE  Holds
<1>1. /\ op' = "freed" /\ pool' = init_mem_pool /\ written' = {} /\ out' = NoOut
  BY DEF free_mem_pool, Quiet
<1>2. PICK q : q = pool' OBVIOUS
<1>3. SoundPool(q) /\ NoFreePair(q.chunks) /\ Accounted(q) BY <1>1, <1>2, InitSound
<1>4. Kept(q, {}) BY <1>3 DEF Kept
<1>5. PoolInv(q, "freed", handle', chunk', want', NoOut, {})
  BY <1>3, <1>4, NoOutIs DEF PoolInv, MergeInv, SlideInv, Refused
<1>6. QED BY <1>1, <1>2, <1>5 DEF Holds, InvNext

LEMMA LocksKeptItself == ASSUME NEW p PROVE LocksKept(p, p)
  BY DEF LocksKept

LEMMA NewPoolHolds ==
    ASSUME Inv, NewPool
    PROVE  Holds
<1>1. /\ op = "freed" /\ op' = "idle"
      /\ pool' = pool /\ out' = out /\ written' = written
  BY DEF NewPool
<1>2. PICK p : p = pool OBVIOUS
<1>3. SoundPool(p) /\ Kept(p, written) /\ NoFreePair(p.chunks) /\ out.handle # 0
  BY <1>1, <1>2 DEF Inv, PoolInv
<1>4. LocksKept(p, p) BY LocksKeptItself
<1>5. QED BY <1>1, <1>2, <1>3, <1>4, Quieted DEF Holds

\* A call that gives up has left the pool as it was.
LEMMA GaveUp ==
    ASSUME NEW size, SoundPool(pool), NoFreePair(pool.chunks), Kept(pool, written),
           written' = written, Return(pool, size, 0), Refused(pool, [size |-> size, handle |-> 0])
    PROVE  Holds
<1>1. /\ op' = "idle" /\ out' = [size |-> size, handle |-> 0]
      /\ pool' = pool
  BY DEF Return
<1>2. PICK p, o : p = pool /\ o = [size |-> size, handle |-> 0] OBVIOUS
<1>3. PoolInv(p, "idle", handle', chunk', want', o, written)
  BY <1>2 DEF PoolInv, MergeInv, SlideInv
<1>4. LocksKept(p, p) BY LocksKeptItself
<1>5. QED BY <1>1, <1>2, <1>3, <1>4 DEF Holds, InvNext

LEMMA RefuseHolds ==
    ASSUME Inv, NEW size \in Requests, Refuse(size)
    PROVE  Holds
<1>1. op = "idle" /\ Return(pool, size, 0) /\ written' = written
  BY DEF Refuse
<1>2. SoundPool(pool) /\ Kept(pool, written) /\ NoFreePair(pool.chunks)
  BY <1>1 DEF Inv, PoolInv, Refuse
<1>3. size \in Int BY PoolAssumption
<1>4. Refused(pool, [size |-> size, handle |-> 0])
  <2>1. PICK o : o = [size |-> size, handle |-> 0] OBVIOUS
  <2>2. o.size = size /\ o.handle = 0 BY <2>1
  <2>3. size <= 0 \/ pool.free < size BY DEF Refuse
  <2>4. size > 0 => pool.free < size BY <1>3, <2>3
  <2>5. Refused(pool, o) BY <2>2, <2>4 DEF Refused
  <2>6. QED BY <2>1, <2>5
<1>5. QED BY <1>1, <1>2, <1>4, GaveUp

-----------------------------------------------------------------------------
(* Allocation *)

\* What allocating a chunk without moving any comes to, from a pool that has carried
\* the chunks of the one before.
LEMMA AttemptHolds ==
    ASSUME NEW p, SoundPool(p), NoFreePair(p.chunks), NEW size \in Int, size > 0,
           Carries(pool, p), Kept(pool, written), written' = written,
           attempt_to_alloc(p, size), ~Corrupt
    PROVE  Holds
<1>1. /\ SoundPool(pool') /\ Carries(p, pool') /\ NoFreePair(pool'.chunks)
      /\ out'.handle # 0
      /\ \/ op' = "idle"
         \/ op' = "merge" /\ handle' \in Free(pool') /\ handle' # 0
  BY AttemptIs
<1>2. PICK o, q : o = pool /\ q = pool' OBVIOUS
<1>3. Carries(o, q) BY <1>1, <1>2, CarriesOn
<1>4. Kept(q, written) /\ LocksKept(o, q) BY <1>2, <1>3, CarriesThem
<1>5. CASE op' = "idle"
  BY <1>1, <1>2, <1>4, <1>5, Quieted DEF Holds
<1>6. CASE op' = "merge" /\ handle' \in Free(pool') /\ handle' # 0
  <2>1. PICK h, r : h = handle' /\ r = out' OBVIOUS
  <2>2. FreeBeside(q.chunks, h) BY <1>1, <1>2 DEF FreeBeside, NoFreePair
  <2>3. PoolInv(q, "merge", h, chunk', want', r, written)
    BY <1>1, <1>2, <1>4, <1>6, <2>1, <2>2 DEF PoolInv, MergeInv, SlideInv, Refused
  <2>4. QED BY <1>2, <1>4, <1>6, <2>1, <2>3 DEF Holds, InvNext
<1>7. QED BY <1>1, <1>5, <1>6

\* Out of handles: nothing but op changes.
LEMMA CorruptHolds ==
    ASSUME Inv, Corrupt, written' = written
    PROVE  Holds
<1>1. op' = "corrupt" /\ pool' = pool /\ out' = out BY DEF Corrupt
<1>2. PICK p, r : p = pool /\ r = out OBVIOUS
<1>3. SoundPool(p) /\ Kept(p, written) /\ Refused(p, r) BY <1>2 DEF Inv, PoolInv
<1>4. PoolInv(p, "corrupt", handle', chunk', want', r, written)
  BY <1>3 DEF PoolInv, MergeInv, SlideInv
<1>5. LocksKept(p, p) BY LocksKeptItself
<1>6. QED BY <1>1, <1>2, <1>4, <1>5 DEF Holds, InvNext

LEMMA AllocHolds ==
    ASSUME Inv, NEW size \in Requests, alloc_mem_chunk(size)
    PROVE  Holds
<1>1. /\ op = "idle" /\ Cardinality(Held(pool)) < MaxLive /\ size > 0 /\ written' = written
  BY DEF alloc_mem_chunk
<1>2. PICK p : p = pool OBVIOUS
<1>3. SoundPool(p) /\ Kept(p, written) /\ NoFreePair(p.chunks)
  BY <1>1, <1>2 DEF Inv, PoolInv
<1>4. size \in Int BY PoolAssumption
<1>5. CASE attempt_to_alloc(p, size)
  <2>1. Carries(p, p) BY CarriesSame
  <2>2. CASE Corrupt BY <1>1, <2>2, CorruptHolds
  <2>3. CASE ~Corrupt BY <1>1, <1>2, <1>3, <1>4, <1>5, <2>1, <2>3, AttemptHolds
  <2>4. QED BY <2>2, <2>3
<1>6. CASE /\ ~CanAttempt(p, size) /\ op' = "slide" /\ want' = size /\ chunk' = p.last
           /\ out' = NoOut /\ pool' = p
  <2>1. PICK l : l = p.last OBVIOUS
  <2>2. l \in HeadersIn(p.chunks) /\ p.chunks[l].next = Null
    BY <1>3, <2>1 DEF SoundPool, SoundIn
  <2>3. \A x \in HeadersIn(p.chunks) : x > l => ~MovableIn(p.chunks, x)
    <3>1. ASSUME NEW x \in HeadersIn(p.chunks), x > l PROVE FALSE
      <4>1. PICK H, C, n : H = p.handles /\ C = p.chunks /\ n = p.last OBVIOUS
      <4>2. SoundIn(H, C, n) /\ l \in HeadersIn(C) /\ x \in HeadersIn(C)
        BY <1>3, <2>2, <3>1, <4>1 DEF SoundPool
      <4>3. l \in Nat /\ x \in Nat BY <4>2, HeaderFacts
      <4>4. l < x BY <3>1, <4>3
      <4>5. C[l].next # Null BY <4>2, <4>4, Between
      <4>6. QED BY <2>2, <4>1, <4>5
    <3>2. QED BY <3>1
  <2>4. \A h \in Free(p) : p.handles[h].size < size + Hdr
    <3> TAKE h \in Free(p)
    <3>1. SmallHandle(p, size) = 0 /\ ~(p.handles[0].size >= size + Hdr)
      BY <1>6 DEF CanAttempt, FromZero
    <3>2. h \in Used(p) BY DEF Free
    <3>3. p.handles[h].size \in Nat BY <1>3, <3>2, ChunkFacts
    <3>4. Hdr \in Nat BY AreaFits
    <3>5. CASE h = 0 BY <1>4, <3>1, <3>3, <3>4, <3>5
    <3>6. CASE h # 0
      <4>1. p.handles[h].size < size BY <1>3, <1>4, <3>1, <3>6, SmallHandleIs
      <4>2. QED BY <1>4, <3>3, <3>4, <4>1
    <3>7. QED BY <3>5, <3>6
  <2>5. PICK w, r : w = size /\ r = NoOut OBVIOUS
  <2>6. r.handle # 0 BY <2>5, NoOutIs
  <2>7. SlideInv(p, "slide", l, w, r)
    BY <1>1, <1>2, <1>4, <2>2, <2>3, <2>4, <2>5, <2>6 DEF SlideInv
  <2>8. PoolInv(p, "slide", handle', l, w, r, written)
    BY <1>3, <2>6, <2>7 DEF PoolInv, MergeInv, Refused
  <2>9. LocksKept(p, p) BY LocksKeptItself
  <2>10. QED BY <1>1, <1>2, <1>6, <2>1, <2>5, <2>8, <2>9 DEF Holds, InvNext
<1>7. QED BY <1>2, <1>5, <1>6 DEF alloc_mem_chunk

-----------------------------------------------------------------------------
(* The slider *)

LEMMA SlidePastHolds ==
    ASSUME Inv, SlidePast
    PROVE  Holds
<1>1. /\ op = "slide" /\ chunk # Null /\ ~MovableIn(pool.chunks, chunk)
      /\ chunk' = pool.chunks[chunk].prev
      /\ pool' = pool /\ op' = op /\ want' = want /\ out' = out /\ written' = written
  BY DEF SlidePast, Movable, MovableIn
<1>2. PICK p, c, w, r : p = pool /\ c = chunk /\ w = want /\ r = out OBVIOUS
<1>3. SoundPool(p) /\ Kept(p, written) /\ NoFreePair(p.chunks) /\ SlideInv(p, "slide", c, w, r)
  BY <1>1, <1>2 DEF Inv, PoolInv
<1>4. PICK d : d = p.chunks[c].prev OBVIOUS
<1>5. PICK H, C, l : H = p.handles /\ C = p.chunks /\ l = p.last OBVIOUS
<1>6. SoundIn(H, C, l) /\ c \in HeadersIn(C) BY <1>1, <1>2, <1>3, <1>5 DEF SoundPool, SlideInv
<1>7. d \in HeadersIn(C) \cup {Null} /\ c \in Nat BY <1>4, <1>5, <1>6, HeaderFacts
<1>8. ASSUME NEW x \in HeadersIn(C), x > d PROVE ~MovableIn(C, x)
  <2>1. x \in Nat BY <1>6, HeaderFacts
  <2>2. d \in Nat \/ d = -1
    <3>1. CASE d \in HeadersIn(C) BY <1>6, <3>1, HeaderFacts
    <3>2. CASE d = Null BY <3>2 DEF Null
    <3>3. QED BY <1>7, <3>1, <3>2
  <2>3. x < c => x <= d BY <1>4, <1>5, <1>6, Between
  <2>4. x = c \/ x > c BY <1>7, <1>8, <2>1, <2>2, <2>3
  <2>5. x > c => ~MovableIn(C, x) BY <1>3, <1>5 DEF SlideInv
  <2>6. ~MovableIn(C, c) BY <1>1, <1>2, <1>5
  <2>7. QED BY <2>4, <2>5, <2>6
<1>9. SlideInv(p, "slide", d, w, r) BY <1>3, <1>5, <1>7, <1>8 DEF SlideInv
<1>10. r.handle # 0 BY <1>3 DEF SlideInv
<1>11. PoolInv(p, "slide", handle', d, w, r, written)
  BY <1>3, <1>9, <1>10 DEF PoolInv, MergeInv, Refused
<1>12. LocksKept(p, p) BY LocksKeptItself
<1>13. QED BY <1>1, <1>2, <1>4, <1>11, <1>12 DEF Holds, InvNext

\* What SlideMove finds once the chunk has moved and the free one has merged.
LEMMA Slid ==
    ASSUME Inv, op = "slide", chunk # Null, Movable(pool, chunk),
           NEW q, q = slide_chunk_up(pool, chunk), NEW m, m = merge_chunks(q, q.chunks[chunk].handle)
    PROVE  /\ SoundPool(m.pool) /\ Carries(pool, m.pool) /\ NoFreePair(m.pool.chunks)
           /\ Held(m.pool) = Held(pool) /\ Cardinality(Held(pool)) < MaxLive
           /\ Kept(pool, written) /\ want \in Int /\ want > 0 /\ out.handle # 0
           /\ ~(m.pool.handles[m.result].size >= want + Hdr) =>
                 SlideInv(m.pool, "slide", SlideFrom(m.pool, chunk, m.result), want, out)
<1>1. PICK p, c, z : p = pool /\ c = chunk /\ z = want + Hdr OBVIOUS
<1>2. /\ SoundPool(p) /\ Kept(p, written) /\ NoFreePair(p.chunks)
      /\ SlideInv(p, "slide", c, want, out)
  BY <1>1 DEF Inv, PoolInv
<1>3. /\ want \in Int /\ want > 0 /\ out.handle # 0 /\ Cardinality(Held(p)) < MaxLive
      /\ c \in HeadersIn(p.chunks)
      /\ \A h \in Free(p) : p.handles[h].size < z
      /\ \A x \in HeadersIn(p.chunks) : x > c => ~MovableIn(p.chunks, x)
  BY <1>1, <1>2 DEF SlideInv
<1>4. MovableIn(p.chunks, c) BY <1>1 DEF Movable, MovableIn
<1>5. z \in Int BY <1>1, <1>3, AreaFits
<1>6. q = slide_chunk_up(p, c) /\ m = merge_chunks(q, q.chunks[c].handle) BY <1>1
<1>7. /\ SoundPool(m.pool) /\ Carries(p, m.pool) /\ NoFreePair(m.pool.chunks)
      /\ Held(m.pool) = Held(p)
      /\ m.result \in Handles
      /\ m.pool.handles[m.result].size < z =>
            /\ SlideFrom(m.pool, c, m.result) \in HeadersIn(m.pool.chunks) \cup {Null}
            /\ \A x \in HeadersIn(m.pool.chunks) :
                  x > SlideFrom(m.pool, c, m.result) => ~MovableIn(m.pool.chunks, x)
            /\ \A h \in Free(m.pool) : m.pool.handles[h].size < z
  BY <1>2, <1>3, <1>4, <1>5, <1>6, SlidMerged
<1>8. PICK o, s, d : o = m.pool /\ s = m.result /\ d = SlideFrom(m.pool, c, m.result) OBVIOUS
<1>9. ASSUME ~(o.handles[s].size >= want + Hdr)
      PROVE  SlideInv(o, "slide", d, want, out)
  <2>1. o.handles[s].size \in Int
    <3>1. o.handles \in [Handles -> HandleSet] BY <1>7, <1>8 DEF SoundPool, SoundIn
    <3>2. QED BY <1>7, <1>8, <3>1, HandleTyped
  <2>2. o.handles[s].size < z BY <1>1, <1>5, <1>9, <2>1
  <2>3. /\ d \in HeadersIn(o.chunks) \cup {Null}
        /\ \A x \in HeadersIn(o.chunks) : x > d => ~MovableIn(o.chunks, x)
        /\ \A h \in Free(o) : o.handles[h].size < want + Hdr
    BY <1>1, <1>7, <1>8, <2>2
  <2>4. Cardinality(Held(o)) < MaxLive BY <1>3, <1>7, <1>8
  <2>5. QED BY <1>3, <2>3, <2>4 DEF SlideInv
<1>10. QED BY <1>1, <1>2, <1>3, <1>7, <1>8, <1>9

LEMMA SlideMoveHolds ==
    ASSUME Inv, SlideMove
    PROVE  Holds
<1>1. op = "slide" /\ chunk # Null /\ Movable(pool, chunk) /\ written' = written
  BY DEF SlideMove
<1>2. PICK q : q = slide_chunk_up(pool, chunk) OBVIOUS
<1>3. PICK m : m = merge_chunks(q, q.chunks[chunk].handle) OBVIOUS
<1>4. /\ SoundPool(m.pool) /\ Carries(pool, m.pool) /\ NoFreePair(m.pool.chunks)
      /\ Kept(pool, written) /\ want \in Int /\ want > 0 /\ out.handle # 0
      /\ ~(m.pool.handles[m.result].size >= want + Hdr) =>
            SlideInv(m.pool, "slide", SlideFrom(m.pool, chunk, m.result), want, out)
  BY <1>1, <1>2, <1>3, Slid
<1>5. \/ attempt_to_alloc(m.pool, want)
      \/ /\ ~(m.pool.handles[m.result].size >= want + Hdr)
         /\ chunk' = SlideFrom(m.pool, chunk, m.result)
         /\ pool' = m.pool /\ op' = op /\ want' = want /\ out' = out
  BY <1>2, <1>3 DEF SlideMove
<1>6. CASE attempt_to_alloc(m.pool, want)
  <2>1. CASE Corrupt BY <1>1, <2>1, CorruptHolds
  <2>2. CASE ~Corrupt
    <3>1. PICK o, w : o = m.pool /\ w = want OBVIOUS
    <3>2. /\ SoundPool(o) /\ NoFreePair(o.chunks) /\ w \in Int /\ w > 0
          /\ Carries(pool, o) /\ Kept(pool, written) /\ written' = written
          /\ attempt_to_alloc(o, w)
      BY <1>1, <1>4, <1>6, <3>1
    <3>3. QED BY <2>2, <3>2, AttemptHolds
  <2>3. QED BY <2>1, <2>2
<1>7. CASE /\ ~(m.pool.handles[m.result].size >= want + Hdr)
           /\ chunk' = SlideFrom(m.pool, chunk, m.result)
           /\ pool' = m.pool /\ op' = op /\ want' = want /\ out' = out
  <2>1. PICK p, o, d, w, r : /\ p = pool /\ o = m.pool /\ w = want /\ r = out
                             /\ d = SlideFrom(m.pool, chunk, m.result)
    OBVIOUS
  <2>2. SlideInv(o, "slide", d, w, r) BY <1>4, <1>7, <2>1
  <2>3. SoundPool(o) /\ Carries(p, o) /\ NoFreePair(o.chunks) /\ Kept(p, written) /\ r.handle # 0
    BY <1>4, <2>1
  <2>4. Kept(o, written) /\ LocksKept(p, o) BY <2>3, CarriesThem
  <2>5. PoolInv(o, "slide", handle', d, w, r, written)
    BY <2>2, <2>3, <2>4 DEF PoolInv, MergeInv, Refused
  <2>6. QED BY <1>1, <1>7, <2>1, <2>4, <2>5 DEF Holds, InvNext
<1>8. QED BY <1>5, <1>6, <1>7

LEMMA SlideEndHolds ==
    ASSUME Inv, SlideEnd
    PROVE  Holds
<1>1. op = "slide" /\ chunk = Null /\ Return(pool, want, 0) /\ written' = written
  BY DEF SlideEnd
<1>2. PICK p : p = pool OBVIOUS
<1>3. /\ SoundPool(p) /\ Kept(p, written) /\ NoFreePair(p.chunks)
      /\ SlideInv(p, "slide", Null, want, out)
  BY <1>1, <1>2 DEF Inv, PoolInv
<1>4. \A x \in HeadersIn(p.chunks) : ~MovableIn(p.chunks, x)
  <2> TAKE x \in HeadersIn(p.chunks)
  <2>1. x \in Nat BY <1>3, HeaderFacts DEF SoundPool
  <2>2. x > Null BY <2>1 DEF Null
  <2>3. QED BY <1>3, <2>2 DEF SlideInv
<1>5. \A h \in Free(p) : p.handles[h].size < want + Hdr BY <1>3 DEF SlideInv
<1>6. Refused(p, [size |-> want, handle |-> 0])
  <2>1. PICK o : o = [size |-> want, handle |-> 0] OBVIOUS
  <2>2. o.size = want /\ o.handle = 0 BY <2>1
  <2>3. Refused(p, o) BY <1>4, <1>5, <2>2 DEF Refused
  <2>4. QED BY <2>1, <2>3
<1>7. QED BY <1>1, <1>2, <1>3, <1>6, GaveUp

-----------------------------------------------------------------------------
(* Every step *)

LEMMA StutterHolds ==
    ASSUME Inv, UNCHANGED vars
    PROVE  Holds
<1>1. PICK p, o, h, c, w, r, W : /\ p = pool /\ o = op /\ h = handle /\ c = chunk /\ w = want
                                 /\ r = out /\ W = written
  OBVIOUS
<1>2. PoolInv(p, o, h, c, w, r, W) BY <1>1 DEF Inv
<1>3. /\ p = pool' /\ o = op' /\ h = handle' /\ c = chunk' /\ w = want'
      /\ r = out' /\ W = written'
  BY <1>1 DEF vars
<1>4. InvNext BY <1>2, <1>3 DEF InvNext
<1>5. LocksKept(p, p) BY LocksKeptItself
<1>6. QED BY <1>1, <1>3, <1>4, <1>5 DEF Holds

LEMMA StepHolds ==
    ASSUME Inv, [PoolNext]_vars
    PROVE  Holds
<1>1. CASE \E h \in Handles : lock_mem_chunk(h) \/ release_mem_chunk(h) \/ free_mem_chunk(h)
  BY <1>1, LockHolds, ReleaseHolds, FreeHolds
<1>2. CASE \E size \in Requests : Refuse(size) \/ alloc_mem_chunk(size)
  BY <1>2, RefuseHolds, AllocHolds
<1>3. CASE free_mem_pool BY <1>3, FreePoolHolds
<1>4. CASE NewPool BY <1>4, NewPoolHolds
<1>5. CASE Inside
  BY <1>5, MergeLoopHolds, SlidePastHolds, SlideMoveHolds, SlideEndHolds DEF Inside
<1>6. CASE UNCHANGED vars BY <1>6, StutterHolds
<1>7. QED BY <1>1, <1>2, <1>3, <1>4, <1>5, <1>6 DEF PoolNext

LEMMA InvAlways == PoolSpec => []Inv
<1>1. Inv /\ [PoolNext]_vars => Inv' BY StepHolds DEF Holds, InvNext, Inv
<1>2. QED BY InitInv, <1>1, PTL DEF PoolSpec

-----------------------------------------------------------------------------
(* Handles *)

\* Fewer chunks are held than the program said it needs when a piece is cut off.
LEMMA NeverShort ==
    ASSUME MaxLive <= Chunks, Inv, op # "corrupt", [PoolNext]_vars
    PROVE  op' # "corrupt"
<1>1. MaxLive \in Nat /\ Chunks \in Nat BY PoolAssumption
<1>2. ASSUME NEW p, SoundPool(p), NoFreePair(p.chunks), Cardinality(Held(p)) < MaxLive,
             NEW size \in Int, size > 0, attempt_to_alloc(p, size)
      PROVE  op' # "corrupt"
  <2>1. PICK n : n = Cardinality(Held(p)) OBVIOUS
  <2>2. n \in Nat BY <1>2, <2>1, HandlesCounted
  <2>3. n < Chunks BY <1>1, <1>2, <2>1, <2>2
  <2>4. UnusedHandle(p) # 0 BY <1>2, <2>1, <2>3, HandlesCounted
  <2>5. op' = "idle" \/ op' = "merge" BY <1>2, <2>4, AttemptIs
  <2>6. QED BY <2>5
<1>3. ASSUME NEW size \in Requests, alloc_mem_chunk(size) PROVE op' # "corrupt"
  <2>1. PICK p : p = pool OBVIOUS
  <2>2. SoundPool(p) /\ NoFreePair(p.chunks) BY <1>3, <2>1 DEF Inv, PoolInv, alloc_mem_chunk
  <2>3. Cardinality(Held(p)) < MaxLive /\ size > 0 BY <1>3, <2>1 DEF alloc_mem_chunk
  <2>4. size \in Int BY PoolAssumption
  <2>5. attempt_to_alloc(p, size) \/ op' = "slide" BY <1>3, <2>1 DEF alloc_mem_chunk
  <2>6. CASE attempt_to_alloc(p, size) BY <1>2, <2>2, <2>3, <2>4, <2>6
  <2>7. CASE op' = "slide" BY <2>7
  <2>8. QED BY <2>5, <2>6, <2>7
<1>4. ASSUME SlideMove PROVE op' # "corrupt"
  <2>1. op = "slide" /\ chunk # Null /\ Movable(pool, chunk) BY <1>4 DEF SlideMove
  <2>2. PICK q : q = slide_chunk_up(pool, chunk) OBVIOUS
  <2>3. PICK m : m = merge_chunks(q, q.chunks[chunk].handle) OBVIOUS
  <2>4. /\ SoundPool(m.pool) /\ NoFreePair(m.pool.chunks) /\ Held(m.pool) = Held(pool)
        /\ Cardinality(Held(pool)) < MaxLive /\ want \in Int /\ want > 0
    BY <2>1, <2>2, <2>3, Slid
  <2>5. attempt_to_alloc(m.pool, want) \/ op' = op BY <1>4, <2>2, <2>3 DEF SlideMove
  <2>6. PICK p, w : p = m.pool /\ w = want OBVIOUS
  <2>7. SoundPool(p) /\ NoFreePair(p.chunks) /\ Cardinality(Held(p)) < MaxLive /\ w \in Int /\ w > 0
    BY <2>4, <2>6
  <2>8. CASE attempt_to_alloc(m.pool, want)
    <3>1. attempt_to_alloc(p, w) BY <2>6, <2>8
    <3>2. QED BY <1>2, <2>7, <3>1
  <2>9. CASE op' = op BY <2>1, <2>9
  <2>10. QED BY <2>5, <2>8, <2>9
<1>5. ASSUME NEW h \in Handles, lock_mem_chunk(h) \/ release_mem_chunk(h) \/ free_mem_chunk(h)
      PROVE  op' # "corrupt"
  BY <1>5 DEF lock_mem_chunk, release_mem_chunk, free_mem_chunk
<1>6. ASSUME NEW size \in Requests, Refuse(size) PROVE op' # "corrupt"
  BY <1>6 DEF Refuse, Return
<1>7. ASSUME free_mem_pool \/ NewPool \/ MergeLoop \/ SlidePast \/ SlideEnd PROVE op' # "corrupt"
  BY <1>7 DEF free_mem_pool, NewPool, MergeLoop, SlidePast, SlideEnd, Return
<1>8. ASSUME UNCHANGED vars PROVE op' # "corrupt" BY <1>8 DEF vars
<1>9. QED BY <1>3, <1>4, <1>5, <1>6, <1>7, <1>8 DEF PoolNext, Inside

-----------------------------------------------------------------------------
(* The other variables *)

Ops == {"idle", "merge", "slide", "corrupt", "freed"}
RestOK(o, h, c, r, W) ==
    /\ o \in Ops /\ h \in Handles /\ c \in Addresses \cup {Null}
    /\ r.handle \in Handles \cup {Null} /\ W \subseteq Handles
Rest == RestOK(op, handle, chunk, out, written)
RestNext == RestOK(op', handle', chunk', out', written')

LEMMA AttemptTyped ==
    ASSUME NEW p, SoundPool(p), NEW size \in Int, attempt_to_alloc(p, size), written' = written, Rest
    PROVE  RestNext
<1>1. PICK s, u : s = SmallHandle(p, size) /\ u = UnusedHandle(p) OBVIOUS
<1>2. s \in Handles /\ u \in Handles /\ 0 \in Handles
  <2>1. s # 0 => s \in Free(p) BY <1>1, SmallHandleIs
  <2>2. u # 0 => u \in Handles BY <1>1, UnusedHandleIs
  <2>3. QED BY <2>1, <2>2, AreaFits DEF Free, Used
<1>3. ASSUME NEW q, NEW result \in Handles, Return(q, size, result) PROVE RestNext
  BY <1>2, <1>3 DEF Return, Forget, Rest, RestNext, RestOK, Ops
<1>4. ASSUME Corrupt PROVE RestNext
  BY <1>4 DEF Corrupt, Rest, RestNext, RestOK, Ops
<1>5. ASSUME Split(p, s, size) PROVE RestNext
  <2>1. CASE u = 0 BY <1>1, <1>4, <1>5, <2>1 DEF Split
  <2>2. CASE u # 0
    <3>1. /\ op' = "merge" /\ chunk' = Null /\ handle' \in {s, u} /\ out'.handle \in {s, u}
      BY <1>1, <1>5, <2>2 DEF Split, Forget
    <3>2. QED BY <1>2, <3>1 DEF Rest, RestNext, RestOK, Ops
  <2>3. QED BY <2>1, <2>2
<1>6. \/ Corrupt \/ Split(p, s, size)
      \/ \E q : Return(q, size, s) \/ Return(q, size, u)
  BY <1>1 DEF attempt_to_alloc
<1>7. QED BY <1>2, <1>3, <1>4, <1>5, <1>6

LEMMA RestKept ==
    ASSUME Inv, Rest, [PoolNext]_vars
    PROVE  RestNext
<1>1. 0 \in Handles /\ NoOut.handle \in Handles \cup {Null}
  BY AreaFits DEF NoOut
<1>2. PICK p : p = pool OBVIOUS
<1>3. SoundPool(p) BY <1>2 DEF Inv, PoolInv
<1>4. ASSUME NEW h \in Handles, lock_mem_chunk(h) \/ release_mem_chunk(h) \/ free_mem_chunk(h)
      PROVE  RestNext
  BY <1>1, <1>4 DEF lock_mem_chunk, release_mem_chunk, free_mem_chunk, Quiet, Rest, RestNext,
                    RestOK, Ops
<1>5. ASSUME NEW size \in Requests, Refuse(size) PROVE RestNext
  BY <1>1, <1>5 DEF Refuse, Return, Forget, Rest, RestNext, RestOK, Ops
<1>6. ASSUME NEW size \in Requests, alloc_mem_chunk(size) PROVE RestNext
  <2>1. written' = written /\ size \in Int BY <1>6, PoolAssumption DEF alloc_mem_chunk
  <2>2. CASE attempt_to_alloc(p, size) BY <1>3, <2>1, <2>2, AttemptTyped
  <2>3. CASE op' = "slide" /\ chunk' = p.last /\ out' = NoOut /\ handle' = handle
    <3>1. p.last \in Addresses BY <1>3, PoolFields DEF SoundPool
    <3>2. QED BY <1>1, <2>1, <2>3, <3>1 DEF Rest, RestNext, RestOK, Ops
  <2>4. QED BY <1>2, <1>6, <2>2, <2>3 DEF alloc_mem_chunk
<1>7. ASSUME MergeLoop PROVE RestNext
  <2>1. PICK m : m = merge_chunks(pool, handle) OBVIOUS
  <2>2. /\ handle' = m.result /\ op' \in Ops
        /\ chunk' = chunk /\ out' = out /\ written' = written
    BY <1>7, <2>1 DEF MergeLoop, Ops
  <2>3. m.result \in Handles
    <3>1. handle \in Free(p) /\ handle # 0 /\ FreeBeside(p.chunks, handle)
      BY <1>2, <1>7 DEF Inv, PoolInv, MergeInv, MergeLoop
    <3>2. PICK h : h = handle OBVIOUS
    <3>3. m = merge_chunks(p, h) /\ h \in Free(p) /\ h # 0 /\ FreeBeside(p.chunks, h)
      BY <1>2, <2>1, <3>1, <3>2
    <3>4. m.result # 0 => m.result \in Free(m.pool) BY <1>3, <3>3, MergeChunksIs
    <3>5. QED BY <1>1, <3>4 DEF Free, Used
  <2>4. QED BY <2>2, <2>3 DEF Rest, RestNext, RestOK
<1>8. ASSUME SlidePast PROVE RestNext
  <2>1. chunk' = pool.chunks[chunk].prev /\ chunk \in Addresses
    BY <1>8 DEF SlidePast, Rest, RestOK
  <2>2. PICK c : c = chunk OBVIOUS
  <2>3. p.chunks[c].prev \in Addresses \cup {Null}
    BY <1>3, <2>1, <2>2, PoolFields, ChunkTyped DEF SoundPool
  <2>4. QED BY <1>2, <1>8, <2>1, <2>2, <2>3 DEF SlidePast, Rest, RestNext, RestOK
<1>9. ASSUME SlideMove PROVE RestNext
  <2>1. op = "slide" /\ chunk # Null /\ Movable(pool, chunk) /\ written' = written
    BY <1>9 DEF SlideMove
  <2>2. PICK q : q = slide_chunk_up(pool, chunk) OBVIOUS
  <2>3. PICK m : m = merge_chunks(q, q.chunks[chunk].handle) OBVIOUS
  <2>4. /\ SoundPool(m.pool) /\ want \in Int
        /\ ~(m.pool.handles[m.result].size >= want + Hdr) =>
              SlideInv(m.pool, "slide", SlideFrom(m.pool, chunk, m.result), want, out)
    BY <2>1, <2>2, <2>3, Slid
  <2>5. \/ attempt_to_alloc(m.pool, want)
        \/ /\ ~(m.pool.handles[m.result].size >= want + Hdr)
           /\ chunk' = SlideFrom(m.pool, chunk, m.result)
           /\ handle' = handle /\ op' = op /\ out' = out
    BY <1>9, <2>2, <2>3 DEF SlideMove
  <2>6. CASE attempt_to_alloc(m.pool, want)
    <3>1. PICK o, w : o = m.pool /\ w = want OBVIOUS
    <3>2. SoundPool(o) /\ w \in Int /\ attempt_to_alloc(o, w) BY <2>4, <2>6, <3>1
    <3>3. QED BY <2>1, <3>2, AttemptTyped
  <2>7. CASE /\ ~(m.pool.handles[m.result].size >= want + Hdr)
             /\ chunk' = SlideFrom(m.pool, chunk, m.result)
             /\ handle' = handle /\ op' = op /\ out' = out
    <3>1. SlideFrom(m.pool, chunk, m.result) \in Addresses \cup {Null}
      BY <2>4, <2>7 DEF SlideInv, HeadersIn
    <3>2. QED BY <2>1, <2>7, <3>1 DEF Rest, RestNext, RestOK
  <2>8. QED BY <2>5, <2>6, <2>7
<1>10. ASSUME SlideEnd PROVE RestNext
  BY <1>1, <1>10 DEF SlideEnd, Return, Forget, Rest, RestNext, RestOK, Ops
<1>11. ASSUME free_mem_pool \/ NewPool PROVE RestNext
  BY <1>1, <1>11 DEF free_mem_pool, NewPool, Quiet, Rest, RestNext, RestOK, Ops
<1>12. ASSUME UNCHANGED vars PROVE RestNext
  BY <1>12 DEF vars, Rest, RestNext, RestOK
<1>13. QED BY <1>4, <1>5, <1>6, <1>7, <1>8, <1>9, <1>10, <1>11, <1>12 DEF PoolNext, Inside

LEMMA RestAlways == PoolSpec => []Rest
<1>1. PoolInit => Rest
  BY AreaFits DEF PoolInit, Rest, RestOK, Ops, NoOut
<1>2. Inv /\ Rest /\ [PoolNext]_vars => Rest' BY RestKept DEF Rest, RestNext
<1>3. QED BY InvAlways, <1>1, <1>2, PTL DEF PoolSpec

\* No size and no account is more than the area, or less than nothing.
LEMMA Bounded ==
    ASSUME NEW p, SoundPool(p), Accounted(p)
    PROVE  /\ \A h \in Handles : p.handles[h].size \in 0 .. Area
           /\ p.free \in 0 .. Area /\ p.alloced \in 0 .. Area
<1>1. Area \in Nat /\ Hdr \in Nat BY AreaFits
<1>2. ASSUME NEW h \in Handles PROVE p.handles[h].size \in 0 .. Area
  <2>1. CASE h \in Used(p)
    <3>1. PICK a, e, z : /\ a = p.handles[h].ptr /\ e = EndIn(p.handles, p.chunks, a)
                         /\ z = p.handles[h].size
      OBVIOUS
    <3>2. a \in Nat /\ e <= Area /\ e = a + Hdr + z /\ z \in Nat BY <2>1, <3>1, ChunkFacts
    <3>3. z <= Area BY <1>1, <3>2
    <3>4. QED BY <1>1, <3>1, <3>2, <3>3
  <2>2. CASE h \notin Used(p) BY <1>1, <2>2 DEF Accounted
  <2>3. QED BY <2>1, <2>2
<1>3. PICK H, F, L : H = p.handles /\ F = Free(p) /\ L = Held(p) OBVIOUS
<1>4. PICK n : n = Cardinality(Used(p)) OBVIOUS
<1>5. Sized(H, F) /\ Sized(H, L) /\ F \subseteq Handles /\ L \subseteq Handles /\ n \in Nat
  BY <1>3, <1>4, AccountSets
<1>6. SumOf(H, F) \in Nat
  <2>1. \A h \in F : H[h].size \in Nat BY <1>1, <1>2, <1>3, <1>5
  <2>2. IsFiniteSet(F) BY <1>5 DEF Sized
  <2>3. QED BY <2>1, <2>2, SumNat
<1>7. SumOf(H, L) \in Nat
  <2>1. \A h \in L : H[h].size \in Nat BY <1>1, <1>2, <1>3, <1>5
  <2>2. IsFiniteSet(L) BY <1>5 DEF Sized
  <2>3. QED BY <2>1, <2>2, SumNat
<1>8. PICK f, l, m : f = p.free /\ l = p.alloced /\ m = Hdr * n OBVIOUS
<1>9. f \in Nat /\ l \in Nat /\ f + l + m = Area
  BY <1>3, <1>4, <1>6, <1>7, <1>8 DEF Accounted
<1>10. m \in Nat BY <1>1, <1>5, <1>8
<1>11. f \in 0 .. Area /\ l \in 0 .. Area BY <1>1, <1>9, <1>10
<1>12. QED BY <1>2, <1>8, <1>11

-----------------------------------------------------------------------------
(* Theorems *)

\* At every step of every call, also between a slide and the merges after it, the
\* chunks of mempool.c cover the area with no byte between them and none twice.
THEOREM PoolTiled == PoolSpec => []Tiled
<1>1. Inv => Tiled
  <2>1. SUFFICES ASSUME Inv PROVE Tiled OBVIOUS
  <2>2. PICK p, H, C, l : p = pool /\ H = p.handles /\ C = p.chunks /\ l = p.last OBVIOUS
  <2>3. SoundPool(p) /\ SoundIn(H, C, l) BY <2>1, <2>2 DEF Inv, PoolInv, SoundPool
  <2>4. Headers(pool) = HeadersIn(C) BY <2>2 DEF Headers, HeadersIn
  <2>5. H[0].ptr = 0 /\ C[0].prev = Null
    <3>1. H[0].ptr = 0 /\ 0 \in Handles /\ 0 # Null BY <2>3, AreaFits DEF SoundIn
    <3>2. 0 \in HeadersIn(C) BY <2>3, <3>1, HandleFacts
    <3>3. QED BY <2>3, <3>1, <3>2, HeaderFacts
  <2>6. ASSUME NEW a \in HeadersIn(C)
        PROVE  LET c == C[a]
                   end == a + Hdr + H[c.handle].size
               IN  /\ H[c.handle].ptr = a /\ H[c.handle].status = c.guard
                   /\ IF c.next = Null THEN end = Area /\ l = a
                      ELSE c.next = end /\ end \in HeadersIn(C) /\ C[end].prev = a
    <3>1. PICK e : e = EndIn(H, C, a) OBVIOUS
    <3>2. /\ H[C[a].handle].ptr = a /\ H[C[a].handle].status = C[a].guard
          /\ e = a + Hdr + H[C[a].handle].size
          /\ C[a].next = Null => e = Area /\ l = a
          /\ C[a].next # Null => C[a].next = e /\ C[a].next \in HeadersIn(C) /\ C[C[a].next].prev = a
      BY <2>3, <3>1, HeaderFacts
    <3>3. QED BY <3>2
  <2>7. \A h \in Used(pool) : H[h].ptr \in HeadersIn(C) BY <2>2, <2>3, ChunkFacts
  <2>8. pool.handles = H /\ pool.chunks = C /\ pool.last = l BY <2>2
  <2>9. pool.handles[0].ptr = 0 /\ pool.chunks[0].prev = Null BY <2>5, <2>8
  <2>10. \A a \in Headers(pool) :
            LET c == pool.chunks[a]
                end == a + Hdr + pool.handles[c.handle].size
            IN  /\ pool.handles[c.handle].ptr = a /\ pool.handles[c.handle].status = c.guard
                /\ IF c.next = Null THEN end = Area /\ pool.last = a
                   ELSE c.next = end /\ end \in Headers(pool) /\ pool.chunks[end].prev = a
    BY <2>4, <2>6, <2>8
  <2>11. \A h \in Used(pool) : pool.handles[h].ptr \in Headers(pool) BY <2>4, <2>7, <2>8
  <2>12. QED BY <2>9, <2>10, <2>11 DEF Tiled
<1>2. QED BY InvAlways, <1>1, PTL

\* What the program has stored in a chunk is there until it frees the chunk, however
\* often slides have moved it and headers were written around it.
THEOREM PoolContentsSurvive == PoolSpec => []ContentsSurvive
<1>1. Inv => ContentsSurvive BY DEF Inv, PoolInv, Kept, ContentsSurvive
<1>2. QED BY InvAlways, <1>1, PTL

\* Between calls no two free chunks are neighbours: the merge loops of mempool.c do
\* not stop too early.
THEOREM PoolNoFreeNeighbours == PoolSpec => []NoFreeNeighbours
<1>1. Inv => NoFreeNeighbours
  <2>1. SUFFICES ASSUME Inv, op = "idle", NEW h \in Free(pool) PROVE ~NextIsFree(pool, h)
    BY DEF NoFreeNeighbours
  <2>2. SoundPool(pool) /\ NoFreePair(pool.chunks) BY <2>1 DEF Inv, PoolInv
  <2>3. QED BY <2>1, <2>2, NoneBehindFree
<1>2. QED BY InvAlways, <1>1, PTL

\* alloc_mem_chunk gives up only when no chunk that may move has free space behind it
\* and no free chunk holds the request and a header: the slider has seen every chunk.
THEOREM PoolRefusesRightly == PoolSpec => []RefusesRightly
<1>1. Inv => RefusesRightly
  <2>1. SUFFICES ASSUME Inv PROVE RefusesRightly OBVIOUS
  <2>2. Refused(pool, out) BY <2>1 DEF Inv, PoolInv
  <2>3. Headers(pool) = HeadersIn(pool.chunks) BY DEF Headers, HeadersIn
  <2>4. \A c : Movable(pool, c) <=> MovableIn(pool.chunks, c) BY DEF Movable, MovableIn
  <2>5. QED BY <2>2, <2>3, <2>4 DEF RefusesRightly, Refused
<1>2. QED BY InvAlways, <1>1, PTL

\* While the program holds no more chunks at a time than it said it needs, a split
\* always finds an unused handle, though the code does not look.
THEOREM PoolHandlesSuffice ==
    ASSUME MaxLive <= Chunks
    PROVE  PoolSpec => []HandlesSuffice
<1>1. PoolInit => HandlesSuffice BY DEF PoolInit, HandlesSuffice
<1>2. Inv /\ HandlesSuffice /\ [PoolNext]_vars => HandlesSuffice'
  BY NeverShort DEF HandlesSuffice
<1>3. QED BY InvAlways, <1>1, <1>2, PTL DEF PoolSpec

\* A locked chunk stays where it is: no slide and no merge moves it or takes its
\* handle, whatever else is allocated, freed or refused.
THEOREM PoolLockedStay == PoolSpec => LockedStay
<1>1. Inv /\ [PoolNext]_vars =>
         [op' # "freed" =>
            \A h \in Held(pool) : pool.handles[h].status = "LOCK" =>
               h \in Held(pool') /\ pool'.handles[h].ptr = pool.handles[h].ptr]_vars
  BY StepHolds DEF Holds, LocksKept
<1>2. QED BY InvAlways, <1>1, PTL DEF PoolSpec, LockedStay

\* pool->free and pool->alloced are at every step the bytes of the free chunks and of
\* the others: no merge forgets the header it gains, no split the one it spends.
THEOREM PoolAccounts == PoolSpec => []Accounts
<1>1. Inv => Accounts
  <2>1. SUFFICES ASSUME Inv PROVE Accounts OBVIOUS
  <2>2. Accounted(pool) BY <2>1 DEF Inv, PoolInv, Kept
  <2>3. QED BY <2>2 DEF Accounted, Accounts, MapThenSumSet, MapThenFoldSet, SumOf, Iter, SumBody, Some
<1>2. QED BY InvAlways, <1>1, PTL

\* All that mem_pool_stats looks for, and that no size or account leaves its bounds, for
\* a program that holds no more chunks than it said it needs.
THEOREM PoolIsSound ==
    ASSUME MaxLive <= Chunks
    PROVE  PoolSpec => []PoolSound
<1>1. Inv /\ Rest => PoolTypeOK
  <2>1. SUFFICES ASSUME Inv, Rest PROVE PoolTypeOK OBVIOUS
  <2>2. PICK p : p = pool OBVIOUS
  <2>3. SoundPool(p) /\ Accounted(p) BY <2>1, <2>2 DEF Inv, PoolInv, Kept
  <2>4. p \in PoolSet BY <2>3 DEF SoundPool
  <2>5. p.handles \in [Handles -> [ptr : Addresses \cup {Null}, status : Sigs, size : 0 .. Area]]
    <3>1. PICK H, Z : H = p.handles /\ Z = 0 .. Area OBVIOUS
    <3>2. H \in [Handles -> HandleSet] /\ \A h \in Handles : H[h].size \in Z
      BY <2>3, <2>4, <3>1, PoolFields, Bounded
    <3>3. \A h \in Handles : H[h] \in [ptr : Addresses \cup {Null}, status : Sigs, size : Z]
      BY <3>2 DEF HandleSet
    <3>4. QED BY <3>1, <3>2, <3>3
  <2>6. /\ p.chunks \in [Addresses -> [guard : Sigs \cup {"none"}, next : Addresses \cup {Null},
                                       prev : Addresses \cup {Null}, handle : Handles]]
        /\ p.last \in Addresses /\ p.bytes \subseteq Addresses \X Handles
    BY <2>4, PoolFields DEF ChunkSet
  <2>7. p.alloced \in 0 .. Area /\ p.free \in 0 .. Area BY <2>3, Bounded
  <2>8. QED BY <2>1, <2>2, <2>5, <2>6, <2>7 DEF PoolTypeOK, Rest, RestOK, Ops
<1>2. PoolSpec => []HandlesSuffice BY PoolHandlesSuffice
<1>3. PoolTypeOK /\ Tiled /\ Accounts /\ NoFreeNeighbours /\ HandlesSuffice => PoolSound
  BY DEF PoolSound
<1>4. QED
  BY InvAlways, RestAlways, PoolTiled, PoolAccounts, PoolNoFreeNeighbours, <1>1, <1>2, <1>3, PTL

=============================================================================
