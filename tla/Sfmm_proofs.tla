---------------------------- MODULE Sfmm_proofs ----------------------------
(***************************************************************************)
(* The allocator of hw3 keeps its heap and what the user has of it, for    *)
(* every page size, number of pages and of lists, and every sequence of    *)
(* calls.                                                                  *)
(*                                                                         *)
(* A heap is seen as a set S of units, its blocks: they tile it (Tiles),   *)
(* what headers and footers say of their neighbours is true (Bits), and the*)
(* free ones are in the list for them (Listed).  In the middle of a call   *)
(* this holds but for one block that is already marked free or not yet     *)
(* given out, which is why Bits and Listed have exceptions.  Each step of  *)
(* the code is one lemma: AddToFreeList (Added), AllocateBlock             *)
(* (AllocatedIs), taking a block with its padding (TakenIs), one page more *)
(* (Increased), the search (FirstFitIs, NoneFits) and with them            *)
(* GeneralizeAllocation (Generalized).  The recursive functions Grown and  *)
(* BlocksFrom are reached by induction over the pages and over the distance*)
(* to the epilogue, as the least of the bad cases.                         *)
(*                                                                         *)
(* The invariant Consistent says that some S tiles the heap and that the   *)
(* allocated blocks hold what live says (Kept).  Two conditions are needed.*)
(* NoWrap: a size near SIZE_MAX wraps in sf_malloc and gets a block of the *)
(* least size.  Lookalike = FALSE, for DataStays and PointersStayTold only:*)
(* a user whose data is a copy of the header of his own block has his      *)
(* pointer refused by sf_check_pointer.                                    *)
(***************************************************************************)
EXTENDS Sfmm, SequenceTheorems, NaturalsInduction, WellFoundedInduction, TLAPS

(* What the proofs need of the sizes.                                      *)
NUnits == PageUnits * MaxPages

(* What is assumed of the constants, in the form the steps use.            *)
LEMMA Numbers ==
  /\ PageUnits \in Nat /\ PageUnits > 5 /\ MaxPages \in Nat /\ MaxPages > 0
  /\ NumFreeLists \in Nat /\ NumFreeLists > 0
  /\ NUnits \in Nat /\ Units = 0..(NUnits - 1)
  /\ Headers = [size : 0..NUnits, alloc : BOOLEAN, prev : BOOLEAN]
<1>1. /\ PageUnits \in Nat /\ PageUnits > 5 /\ MaxPages \in Nat /\ MaxPages > 0
      /\ NumFreeLists \in Nat /\ NumFreeLists > 0
  BY SfmmNumbers
<1>2. NUnits \in Nat
  BY <1>1 DEF NUnits
<1> QED
  BY <1>1, <1>2 DEF NUnits, Units, Headers

(* The epilogue is a row of the heap, and of the next page if there is one. *)
LEMMA EndIn ==
  ASSUME NEW h \in Heaps, h.pages > 0
  PROVE  /\ End(h) \in Nat /\ End(h) \in Units /\ End(h) > 4 /\ End(h) < NUnits
         /\ h.pages < MaxPages => End(h) + PageUnits \in Units
<1> DEFINE P == h.pages
           rest == MaxPages - P
<1>1. P \in 1..MaxPages
  BY Numbers DEF Heaps
<1>2. rest \in Nat /\ MaxPages = P + rest
  BY <1>1, Numbers
<1>3. NUnits = PageUnits * P + PageUnits * rest
  BY <1>1, <1>2, Numbers DEF NUnits
<1>4. PageUnits * P \in Nat /\ PageUnits * rest \in Nat
  BY <1>1, <1>2, Numbers
<1>5. PageUnits * P >= PageUnits
  BY <1>1, Numbers
<1>6. rest > 0 => PageUnits * rest >= PageUnits
  BY <1>2, Numbers
<1>7. P < MaxPages => rest > 0
  BY <1>1, Numbers
<1> HIDE DEF P, rest
<1>8. End(h) = PageUnits * P - 1
  BY DEF End, P
<1>9. (PageUnits * P - 1) + PageUnits <= NUnits - 1 \/ ~(P < MaxPages)
  BY <1>3, <1>4, <1>6, <1>7, Numbers
<1> QED
  BY SMTT(30), <1>3, <1>4, <1>5, <1>8, <1>9, Numbers DEF P

(* Min is the least; the inductions below look for the least bad case.     *)
LEMMA LeastOf ==
  ASSUME NEW S \in SUBSET Nat, S # {}
  PROVE  Min(S) \in S /\ \A y \in S : Min(S) <= y
<1>1. PICK k \in S : \A j \in S : ~(<<j, k>> \in OpToRel(<, Nat))
  BY NatLessThanWellFounded, WFMin, Zenon
<1>2. \A j \in S : j \in Nat /\ k \in Nat
  OBVIOUS
<1>3. \A j \in S : ~(j < k)
  BY <1>1, <1>2 DEF OpToRel
<1>4. \A j \in S : k <= j
  BY <1>2, <1>3
<1> QED
  BY <1>4 DEF Min

-----------------------------------------------------------------------------
(* Free lists as sequences.                                                *)
LEMMA PushOne ==
  ASSUME NEW X, NEW s \in Seq(X), NEW b \in X, IsInjective(s), b \notin Range(s)
  PROVE  /\ <<b>> \o s \in Seq(X) /\ IsInjective(<<b>> \o s)
         /\ Range(<<b>> \o s) = {b} \cup Range(s)
<1> DEFINE r == <<b>> \o s
<1>1. r \in Seq(X) /\ Len(r) = Len(s) + 1 /\ Len(s) \in Nat
  OBVIOUS
<1>2. \A i \in 1..Len(r) : r[i] = IF i = 1 THEN b ELSE s[i - 1]
  OBVIOUS
<1>3. DOMAIN r = 1..Len(r) /\ DOMAIN s = 1..Len(s)
  BY <1>1
<1> HIDE DEF r
<1>4. Range(r) = {b} \cup Range(s)
  <2>1. \A x \in Range(r) : x \in {b} \cup Range(s)
    BY <1>1, <1>2, <1>3 DEF Range
  <2>2. b \in Range(r)
    <3>1. 1 \in 1..Len(r) /\ r[1] = b
      BY <1>1, <1>2
    <3> QED BY <3>1, <1>3 DEF Range
  <2>3. ASSUME NEW j \in 1..Len(s) PROVE s[j] \in Range(r)
    <3>1. j + 1 \in 1..Len(r) /\ r[j + 1] = s[j]
      BY <1>1, <1>2
    <3> QED BY <3>1, <1>3 DEF Range
  <2> QED BY <2>1, <2>2, <2>3, <1>3 DEF Range
<1>5. IsInjective(r)
  <2> SUFFICES ASSUME NEW i \in 1..Len(r), NEW j \in 1..Len(r), r[i] = r[j] PROVE i = j
    BY <1>3 DEF IsInjective
  <2>1. \A k \in 1..Len(s) : s[k] # b
    BY <1>3 DEF Range
  <2>2. \A k, m \in 1..Len(s) : s[k] = s[m] => k = m
    BY <1>3 DEF IsInjective
  <2>3. /\ i = 1 \/ (i - 1 \in 1..Len(s) /\ r[i] = s[i - 1])
        /\ j = 1 \/ (j - 1 \in 1..Len(s) /\ r[j] = s[j - 1])
    BY <1>1, <1>2
  <2>4. r[1] = b
    BY <1>1, <1>2
  <2> QED BY <2>1, <2>2, <2>3, <2>4
<1> QED BY <1>1, <1>4, <1>5 DEF r

(* SubSeq from k + 1 on.                                                   *)
LEMMA RestOf ==
  ASSUME NEW X, NEW s \in Seq(X), NEW k \in 1..Len(s)
  PROVE  /\ SubSeq(s, k + 1, Len(s)) \in Seq(X)
         /\ Len(SubSeq(s, k + 1, Len(s))) = Len(s) - k
         /\ \A i \in 1..(Len(s) - k) : SubSeq(s, k + 1, Len(s))[i] = s[k + i]
<1> DEFINE g == SubSeq(s, k + 1, Len(s))
<1>1. \A i \in (k + 1)..Len(s) : s[i] \in X
  OBVIOUS
<1>2. g \in Seq(X)
  BY <1>1, SubSeqProperties
<1>3. Len(g) = Len(s) - k
  BY <1>1, SubSeqProperties
<1>4. \A i \in 1..(Len(s) - k) : g[i] = s[k + i]
  BY <1>1, SubSeqProperties
<1> QED BY <1>2, <1>3, <1>4

(* RemoveFirst takes the element out and leaves the rest as it was.        *)
LEMMA RemoveOne ==
  ASSUME NEW X, NEW s \in Seq(X), NEW e, IsInjective(s)
  PROVE  /\ RemoveFirst(s, e) \in Seq(X) /\ IsInjective(RemoveFirst(s, e))
         /\ Range(RemoveFirst(s, e)) = Range(s) \ {e}
         /\ e \notin Range(s) => RemoveFirst(s, e) = s
<1> DEFINE r == RemoveFirst(s, e)
<1>1. Len(s) \in Nat /\ DOMAIN s = 1..Len(s)
  OBVIOUS
<1>2. CASE \A i \in 1..Len(s) : s[i] # e
  <2>1. r = s
    BY <1>2 DEF RemoveFirst
  <2>2. e \notin Range(s)
    BY <1>2, <1>1 DEF Range
  <2> QED BY <2>1, <2>2
<1>3. CASE \E i \in 1..Len(s) : s[i] = e
  <2> DEFINE I == {i \in 1..Len(s) : s[i] = e}
             k == Min(I)
  <2>1. I \in SUBSET Nat /\ I # {}
    BY <1>3
  <2>2. k \in 1..Len(s) /\ s[k] = e
    <3>1. k \in I
      BY <2>1, LeastOf
    <3> QED BY <3>1
  <2>3. r = RemoveAt(s, k)
    BY <1>3, <2>1 DEF RemoveFirst, SelectInSeq
  <2> HIDE DEF k, r
  <2>4. /\ r \in Seq(X) /\ Len(r) = Len(s) - 1
        /\ \A i \in 1..Len(r) : r[i] = IF i < k THEN s[i] ELSE s[i + 1]
    <3> DEFINE f == SubSeq(s, 1, k - 1)
               g == SubSeq(s, k + 1, Len(s))
    <3>1. f \in Seq(X) /\ Len(f) = k - 1 /\ \A i \in 1..(k - 1) : f[i] = s[i]
      BY <2>2, <1>1
    <3>2. g \in Seq(X) /\ Len(g) = Len(s) - k /\ \A i \in 1..(Len(s) - k) : g[i] = s[k + i]
      BY <2>2, RestOf
    <3>3. r = f \o g
      BY <2>3 DEF RemoveAt
    <3> HIDE DEF f, g
    <3>4. r \in Seq(X) /\ Len(r) = Len(s) - 1
      BY <3>1, <3>2, <3>3, <2>2, <1>1
    <3>5. \A i \in 1..Len(r) : r[i] = IF i <= Len(f) THEN f[i] ELSE g[i - Len(f)]
      BY <3>1, <3>2, <3>3
    <3>6. ASSUME NEW i \in 1..Len(r) PROVE r[i] = IF i < k THEN s[i] ELSE s[i + 1]
      <4>1. CASE i < k
        BY <4>1, <3>1, <3>5, <2>2
      <4>2. CASE ~(i < k)
        <5>1. i - (k - 1) \in 1..(Len(s) - k)
          BY <4>2, <3>4, <2>2, <1>1
        <5>2. k + (i - (k - 1)) = i + 1
          BY <2>2
        <5> QED BY <4>2, <5>1, <5>2, <3>1, <3>2, <3>5, <2>2
      <4> QED BY <4>1, <4>2
    <3> QED BY <3>4, <3>6
  <2>5. DOMAIN r = 1..Len(r)
    BY <2>4
  <2>6. \A i, j \in 1..Len(s) : s[i] = s[j] => i = j
    BY <1>1 DEF IsInjective
  <2>7. IsInjective(r)
    <3> SUFFICES ASSUME NEW i \in 1..Len(r), NEW j \in 1..Len(r), r[i] = r[j] PROVE i = j
      BY <2>5 DEF IsInjective
    <3>1. i \in 1..Len(s) /\ i + 1 \in 1..Len(s) /\ j \in 1..Len(s) /\ j + 1 \in 1..Len(s)
      BY <2>4, <1>1
    <3> QED BY <3>1, <2>2, <2>4, <2>6
  <2>8. \A x \in Range(r) : x \in Range(s) \ {e}
    <3> SUFFICES ASSUME NEW i \in 1..Len(r) PROVE r[i] \in Range(s) /\ r[i] # e
      BY <2>5 DEF Range
    <3>1. i \in 1..Len(s) /\ i + 1 \in 1..Len(s)
      BY <2>4, <1>1
    <3>2. (r[i] = s[i] /\ i # k) \/ (r[i] = s[i + 1] /\ i + 1 # k)
      <4>1. i < k => r[i] = s[i] /\ i # k
        BY <2>4
      <4>2. ~(i < k) => r[i] = s[i + 1] /\ i + 1 # k
        BY <2>2, <2>4
      <4> QED BY <4>1, <4>2
    <3> QED BY <3>1, <3>2, <2>2, <2>6, <1>1 DEF Range
  <2>9. ASSUME NEW j \in 1..Len(s), s[j] # e PROVE s[j] \in Range(r)
    <3>1. CASE j < k
      <4>1. j \in 1..Len(r) /\ r[j] = s[j]
        BY <3>1, <2>2, <2>4, <1>1
      <4> QED BY <4>1, <2>5 DEF Range
    <3>2. CASE j > k
      <4>1. j - 1 \in 1..Len(r) /\ r[j - 1] = s[j]
        BY <3>2, <2>2, <2>4, <1>1
      <4> QED BY <4>1, <2>5 DEF Range
    <3> QED BY <3>1, <3>2, <2>9, <2>2
  <2>10. e \in Range(s)
    BY <2>2, <1>1 DEF Range
  <2> QED BY <2>4, <2>7, <2>8, <2>9, <2>10, <1>1 DEF Range, r
<1> QED BY <1>2, <1>3

-----------------------------------------------------------------------------
(* The blocks of a heap as a set S of units.                               *)
Past(h, b) == b + h.head[b].size

(* They fill the heap from the prologue to the epilogue.                   *)
Tiles(h, S) ==
  /\ S \subseteq 2..(End(h) - 1) /\ 2 \in S
  /\ \A b \in S :
       /\ h.head[b] \in Headers /\ h.head[b].size >= MinUnits
       /\ Past(h, b) \in S \cup {End(h)}
       /\ \A c \in S : ~(b < c /\ c < Past(h, b))
       /\ b = 2 \/ \E c \in S : Past(h, c) = b
  /\ \E c \in S : Past(h, c) = End(h)
  /\ h.head[End(h)] \in Headers
  /\ h.head[End(h)].size = 0 /\ h.head[End(h)].alloc

(* What headers and footers say of their neighbours is true, but for what  *)
(* the block x says.                                                       *)
Bits(h, S, x) ==
  /\ h.head[2].prev
  /\ \A b \in S \ {x} :
       /\ h.head[Past(h, b)].prev <=> h.head[b].alloc
       /\ ~h.head[b].alloc => /\ h.foot[Past(h, b) - 1] = h.head[b]
                              /\ Past(h, b) = x \/ h.head[Past(h, b)].alloc

(* The free lists hold the free blocks but for those of U.                 *)
Listed(h, S, U) ==
  \A c \in Lists :
    /\ IsInjective(h.list[c])
    /\ Range(h.list[c]) = {b \in S \ U : ~h.head[b].alloc /\ InList(h, c, b)}

(* No footer is that of an allocated block.                                *)
FeetFree(h) == \A u \in Units : h.foot[u] \in Headers => ~h.foot[u].alloc

(* The block b and all that is in it.                                      *)
SameBlock(h, g, b) ==
  /\ g.head[b].size = h.head[b].size /\ (g.head[b].alloc <=> h.head[b].alloc)
  /\ \A u \in b..(Past(h, b) - 1) :
       g.foot[u] = h.foot[u] /\ (u > b => g.head[u] = h.head[u])

(* The block b was joined with its free neighbours into the block s.       *)
Joined(h, S, U, b, g, T, s) ==
  /\ g \in Heaps /\ g.pages = h.pages
  /\ Tiles(g, T) /\ Bits(g, T, NULL) /\ Listed(g, T, U \ {b})
  /\ FeetFree(h) => FeetFree(g)
  /\ T \subseteq S /\ s \in T /\ ~g.head[s].alloc
  /\ \A c \in S : c \notin T => c = b \/ ~h.head[c].alloc
  /\ \A c \in S : c \notin T => c = b \/ c = Past(h, b)
  /\ s # b => b \notin T /\ Past(h, s) = b /\ ~h.head[s].alloc
  /\ h.head[b].prev => s = b
  /\ \A c \in T : c # s => SameBlock(h, g, c)

-----------------------------------------------------------------------------
(* ClassOf is the first list whose bound the size does not pass.           *)
LEMMA ClassIn ==
  ASSUME NEW size \in Nat
  PROVE  /\ ClassOf(size) \in Lists
         /\ ClassOf(size) = Wild \/ size <= MinUnits * 2^ClassOf(size)
         /\ \A d \in 0..(ClassOf(size) - 1) : size > MinUnits * 2^d
<1> DEFINE I == {c \in Lists : c = Wild \/ size <= MinUnits * 2^c}
<1>1. I \in SUBSET Nat /\ Wild \in I
  BY Numbers DEF Lists, Wild
<1>2. ClassOf(size) \in I /\ \A c \in I : ClassOf(size) <= c
  BY <1>1, LeastOf DEF ClassOf
<1>3. ASSUME NEW d \in 0..(ClassOf(size) - 1) PROVE size > MinUnits * 2^d
  <2>1. d \in Lists /\ d # Wild /\ d \in Nat
    BY <1>2, Numbers DEF Lists, Wild
  <2>2. ~(size <= MinUnits * 2^d)
    BY <1>2, <2>1 DEF Lists
  <2> QED BY <2>1, <2>2 DEF MinUnits
<1> QED BY <1>2, <1>3

(* A block belongs to the list it is put into, and to no other.            *)
LEMMA OneList ==
  ASSUME NEW h, NEW b, h.head[b].size \in Nat
  PROVE  /\ ListFor(h, b) \in Lists
         /\ \A c \in Lists : InList(h, c, b) <=> c = ListFor(h, b)
<1> DEFINE size == h.head[b].size
           k == ClassOf(size)
           l == ListFor(h, b)
<1>1. /\ k \in Lists /\ (k = Wild \/ size <= MinUnits * 2^k)
      /\ \A d \in 0..(k - 1) : size > MinUnits * 2^d
  BY ClassIn
<1>2. /\ l = IF b + size = End(h) THEN Wild ELSE k
      /\ Wild \in Lists /\ Lists \subseteq Nat /\ \A c \in Lists : c <= Wild
  BY Numbers DEF ListFor, Lists, Wild
<1> HIDE DEF k
<1>3. l \in Lists
  BY <1>1, <1>2
<1>4. InList(h, l, b)
  <2>1. CASE b + size = End(h)
    BY <2>1, <1>2 DEF InList
  <2>2. CASE b + size # End(h) /\ k = Wild
    BY <2>2, <1>1, <1>2 DEF InList
  <2>3. CASE b + size # End(h) /\ k # Wild
    <3>1. ~(size > MinUnits * 2^k)
      BY <2>3, <1>1, <1>2 DEF MinUnits
    <3> QED BY <3>1, <2>3, <1>1, <1>2 DEF InList
  <2> QED BY <2>1, <2>2, <2>3
<1>5. ASSUME NEW c \in Lists, InList(h, c, b) PROVE c = l
  <2>1. CASE b + size = End(h)
    BY <2>1, <1>2, <1>5 DEF InList
  <2>2. CASE b + size # End(h)
    <3>1. \A d \in 0..(c - 1) : size > MinUnits * 2^d
      BY <2>2, <1>5 DEF InList
    <3>2. c # Wild => ~(size > MinUnits * 2^c)
      BY <1>5 DEF InList
    <3>3. l = k
      BY <2>2, <1>2
    <3>4. ~(k < c)
      <4> SUFFICES ASSUME k < c PROVE FALSE
        OBVIOUS
      <4>1. k # Wild /\ k \in 0..(c - 1)
        BY <1>1, <1>2
      <4>2. size <= MinUnits * 2^k /\ size > MinUnits * 2^k
        BY <4>1, <3>1, <1>1
      <4> QED BY <4>2, <4>1 DEF MinUnits
    <3>5. ~(c < k)
      <4> SUFFICES ASSUME c < k PROVE FALSE
        OBVIOUS
      <4>1. c # Wild /\ c \in 0..(k - 1)
        BY <1>1, <1>2
      <4> QED BY <4>1, <3>2, <1>1
    <3> QED BY <3>3, <3>4, <3>5, <1>1, <1>2
  <2> QED BY <2>1, <2>2
<1> QED BY <1>3, <1>4, <1>5

(* In which list a block belongs is told by its header and the end.        *)
LEMMA SameInList ==
  ASSUME NEW h, NEW g, NEW c, NEW b, g.pages = h.pages,
         g.head[b].size = h.head[b].size
  PROVE  InList(g, c, b) <=> InList(h, c, b)
BY DEF InList, End

(* Where a block and the header after it are.                              *)
LEMMA TileFacts ==
  ASSUME NEW h \in Heaps, h.pages > 0, NEW S, Tiles(h, S), NEW b \in S
  PROVE  /\ b \in Units /\ b \in Nat /\ b >= 2 /\ b + 1 \in Units
         /\ h.head[b] \in Headers /\ h.head[b].size \in Nat /\ h.head[b].size >= 2
         /\ h.head[b].alloc \in BOOLEAN /\ h.head[b].prev \in BOOLEAN
         /\ Past(h, b) \in Units /\ Past(h, b) \in Nat /\ Past(h, b) >= b + 2
         /\ Past(h, b) <= End(h) /\ Past(h, b) - 1 \in Units
         /\ h.head[Past(h, b)] \in Headers
         /\ h.head[Past(h, b)].alloc \in BOOLEAN /\ h.head[Past(h, b)].prev \in BOOLEAN
<1>1. End(h) \in Nat /\ End(h) < NUnits
  BY EndIn
<1>2. b \in 2..(End(h) - 1) /\ h.head[b] \in Headers /\ h.head[b].size >= 2
  BY DEF Tiles, MinUnits
<1>3. /\ h.head[b].size \in Nat
      /\ h.head[b].alloc \in BOOLEAN /\ h.head[b].prev \in BOOLEAN
  BY <1>2, Numbers
<1>4. Past(h, b) \in S \cup {End(h)}
  BY DEF Tiles
<1>5. Past(h, b) \in 2..End(h)
  <2>1. S \subseteq 2..(End(h) - 1) /\ b \in S
    BY DEF Tiles
  <2>2. 2..(End(h) - 1) \subseteq 2..End(h) /\ End(h) \in 2..End(h)
    BY <1>1, <2>1
  <2> QED BY <2>1, <2>2, <1>4
<1>6. h.head[Past(h, b)] \in Headers
  BY <1>4 DEF Tiles
<1>7. h.head[Past(h, b)].alloc \in BOOLEAN /\ h.head[Past(h, b)].prev \in BOOLEAN
  BY <1>6, Numbers
<1>8. Past(h, b) >= b + 2
  BY <1>2, <1>3 DEF Past
<1>9. b \in Units /\ b \in Nat /\ b >= 2 /\ b + 1 \in Units
  BY <1>1, <1>2, Numbers
<1>10. /\ Past(h, b) \in Units /\ Past(h, b) \in Nat
       /\ Past(h, b) <= End(h) /\ Past(h, b) - 1 \in Units
  BY <1>1, <1>5, Numbers
<1> QED BY <1>2, <1>3, <1>6, <1>7, <1>8, <1>9, <1>10

(* Of two blocks the first ends where the second starts or before.         *)
LEMMA NoOverlap ==
  ASSUME NEW h, NEW S, Tiles(h, S), NEW b \in S, NEW c \in S, h \in Heaps, h.pages > 0
  PROVE  /\ b < c => Past(h, b) <= c
         /\ Past(h, b) = Past(h, c) => b = c
<1>1. /\ b \in Nat /\ c \in Nat /\ Past(h, b) \in Nat /\ Past(h, c) \in Nat
      /\ Past(h, b) > b /\ Past(h, c) > c
  BY TileFacts
<1>2. ~(b < c /\ c < Past(h, b)) /\ ~(c < b /\ b < Past(h, c))
  BY DEF Tiles
<1> QED BY <1>1, <1>2

(* Headers of free blocks, and the header after a block that became free.  *)
FreeHead(n, p) == Header(n, FALSE, p)
NoPrev(w)      == [w EXCEPT !.prev = FALSE]

(* The header of a free block of n units.                                  *)
LEMMA FreeHeadIs ==
  ASSUME NEW n, NEW p \in BOOLEAN
  PROVE  /\ FreeHead(n, p).size = n /\ ~FreeHead(n, p).alloc /\ FreeHead(n, p).prev = p
         /\ n \in 0..NUnits => FreeHead(n, p) \in Headers
BY Numbers DEF Header, FreeHead

(* NoPrev clears the bit about the block before.                           *)
LEMMA NoPrevIs ==
  ASSUME NEW w \in Headers
  PROVE  /\ NoPrev(w) \in Headers /\ NoPrev(w).size = w.size
         /\ NoPrev(w).alloc = w.alloc /\ ~NoPrev(w).prev
BY Numbers DEF NoPrev

(* A free block that is made longer.                                       *)
LEMMA Resize ==
  ASSUME NEW w \in Headers, ~w.alloc, NEW n
  PROVE  [w EXCEPT !.size = n] = FreeHead(n, w.prev)
<1>1. w.alloc = FALSE
  BY Numbers
<1>2. w = [size |-> w.size, alloc |-> w.alloc, prev |-> w.prev]
  BY DEF Headers
<1>3. [w EXCEPT !.size = n] = [size |-> n, alloc |-> w.alloc, prev |-> w.prev]
  BY <1>2
<1> QED BY <1>1, <1>3 DEF Header, FreeHead

(* The kinds of words are apart.                                           *)
LEMMA WordFacts ==
  /\ Headers \subseteq Words /\ Link \in Words /\ Junk \in Words /\ Data \in Words
  /\ Link \notin Headers /\ Junk \notin Headers /\ Data \notin Headers
<1>1. \A w \in Headers : DOMAIN w = {"size", "alloc", "prev"}
  BY DEF Headers
<1>2. DOMAIN Link = {"text"} /\ DOMAIN Junk = {"text"} /\ DOMAIN Data = {"text"}
  BY DEF Link, Junk, Data
<1>3. "text" \notin {"size", "alloc", "prev"}
  OBVIOUS
<1> QED BY <1>1, <1>2, <1>3 DEF Words

(* The parts of a heap.                                                    *)
LEMMA HeapIn ==
  ASSUME NEW h \in Heaps
  PROVE  /\ h.pages \in 0..MaxPages /\ h.head \in [Units -> Words] /\ h.foot \in [Units -> Words]
         /\ h.list \in [Lists -> Seq(Units)]
BY DEF Heaps

(* The ways to change a heap.                                              *)
LEMMA HeapMade ==
  ASSUME NEW h \in Heaps
  PROVE  /\ \A f \in [Units -> Words] :
              /\ [h EXCEPT !.head = f] \in Heaps /\ [h EXCEPT !.head = f].pages = h.pages
              /\ [h EXCEPT !.head = f].head = f /\ [h EXCEPT !.head = f].foot = h.foot
              /\ [h EXCEPT !.head = f].list = h.list
         /\ \A f \in [Units -> Words] :
              /\ [h EXCEPT !.foot = f] \in Heaps /\ [h EXCEPT !.foot = f].pages = h.pages
              /\ [h EXCEPT !.foot = f].head = h.head /\ [h EXCEPT !.foot = f].foot = f
              /\ [h EXCEPT !.foot = f].list = h.list
         /\ \A f \in [Lists -> Seq(Units)] :
              /\ [h EXCEPT !.list = f] \in Heaps /\ [h EXCEPT !.list = f].pages = h.pages
              /\ [h EXCEPT !.list = f].head = h.head /\ [h EXCEPT !.list = f].foot = h.foot
              /\ [h EXCEPT !.list = f].list = f
         /\ \A n \in 0..MaxPages :
              /\ [h EXCEPT !.pages = n] \in Heaps /\ [h EXCEPT !.pages = n].pages = n
              /\ [h EXCEPT !.pages = n].head = h.head /\ [h EXCEPT !.pages = n].foot = h.foot
              /\ [h EXCEPT !.pages = n].list = h.list
BY DEF Heaps

(* PutHead writes one row.                                                 *)
LEMMA PutHeadIs ==
  ASSUME NEW h \in Heaps, NEW b \in Units, NEW w \in Words
  PROVE  /\ PutHead(h, b, w) \in Heaps /\ PutHead(h, b, w).pages = h.pages
         /\ PutHead(h, b, w).foot = h.foot /\ PutHead(h, b, w).list = h.list
         /\ \A u \in Units : PutHead(h, b, w).head[u] = IF u = b THEN w ELSE h.head[u]
<1>1. h.head \in [Units -> Words]
  BY HeapIn
<1>2. [h.head EXCEPT ![b] = w] \in [Units -> Words]
  BY <1>1
<1>3. PutHead(h, b, w) = [h EXCEPT !.head = [h.head EXCEPT ![b] = w]]
  BY DEF PutHead
<1> QED BY <1>1, <1>2, <1>3, HeapMade

(* PutFoot writes the last row of the block.                               *)
LEMMA PutFootIs ==
  ASSUME NEW h \in Heaps, NEW b \in Units, h.head[b].size \in Nat,
         NEW e \in Units, e = Past(h, b) - 1
  PROVE  /\ PutFoot(h, b) \in Heaps /\ PutFoot(h, b).pages = h.pages
         /\ PutFoot(h, b).head = h.head /\ PutFoot(h, b).list = h.list
         /\ \A u \in Units : PutFoot(h, b).foot[u] = IF u = e THEN h.head[b] ELSE h.foot[u]
<1>1. h.foot \in [Units -> Words] /\ h.head[b] \in Words
  BY HeapIn
<1>2. [h.foot EXCEPT ![e] = h.head[b]] \in [Units -> Words]
  BY <1>1
<1>3. b + h.head[b].size - 1 = e
  BY Numbers DEF Past
<1>4. PutFoot(h, b) = [h EXCEPT !.foot = [h.foot EXCEPT ![e] = h.head[b]]]
  BY <1>3 DEF PutFoot
<1> QED BY <1>1, <1>2, <1>4, HeapMade

(* Unlink takes the block from every list.                                 *)
LEMMA UnlinkIs ==
  ASSUME NEW h \in Heaps, NEW b, \A c \in Lists : IsInjective(h.list[c])
  PROVE  /\ Unlink(h, b) \in Heaps /\ Unlink(h, b).pages = h.pages
         /\ Unlink(h, b).head = h.head /\ Unlink(h, b).foot = h.foot
         /\ \A c \in Lists :
              /\ IsInjective(Unlink(h, b).list[c])
              /\ Range(Unlink(h, b).list[c]) = Range(h.list[c]) \ {b}
              /\ b \notin Range(h.list[c]) => Unlink(h, b).list[c] = h.list[c]
<1> DEFINE f == [c \in Lists |-> RemoveFirst(h.list[c], b)]
<1>1. h.list \in [Lists -> Seq(Units)]
  BY HeapIn
<1>2. ASSUME NEW c \in Lists
      PROVE  /\ f[c] \in Seq(Units) /\ IsInjective(f[c]) /\ Range(f[c]) = Range(h.list[c]) \ {b}
             /\ b \notin Range(h.list[c]) => f[c] = h.list[c]
  BY <1>1, RemoveOne
<1>3. f \in [Lists -> Seq(Units)]
  BY <1>2
<1>4. Unlink(h, b) = [h EXCEPT !.list = f]
  BY DEF Unlink
<1> HIDE DEF f
<1> QED BY <1>2, <1>3, <1>4, HeapMade

(* Push puts the block into the one list for it and writes its links.      *)
LEMMA PushIs ==
  ASSUME NEW h \in Heaps, NEW b \in Units, b + 1 \in Units, h.head[b].size \in Nat,
         \A c \in Lists : IsInjective(h.list[c]) /\ b \notin Range(h.list[c])
  PROVE  /\ Push(h, b) \in Heaps /\ Push(h, b).pages = h.pages
         /\ \A u \in Units : Push(h, b).head[u] = IF u = b + 1 THEN Link ELSE h.head[u]
         /\ \A u \in Units : Push(h, b).foot[u] = IF u = b THEN Link ELSE h.foot[u]
         /\ \A c \in Lists :
              /\ IsInjective(Push(h, b).list[c])
              /\ Range(Push(h, b).list[c]) =
                   IF InList(h, c, b) THEN {b} \cup Range(h.list[c]) ELSE Range(h.list[c])
              /\ ~InList(h, c, b) => Push(h, b).list[c] = h.list[c]
<1> DEFINE k == ListFor(h, b)
           l == [h.list EXCEPT ![k] = <<b>> \o @]
           f == [h.foot EXCEPT ![b] = Link]
           e == [h.head EXCEPT ![b + 1] = Link]
<1>1. h.list \in [Lists -> Seq(Units)] /\ h.head \in [Units -> Words] /\ h.foot \in [Units -> Words]
  BY HeapIn
<1>2. k \in Lists /\ \A c \in Lists : InList(h, c, b) <=> c = k
  BY OneList
<1> HIDE DEF k
<1>3. /\ <<b>> \o h.list[k] \in Seq(Units) /\ IsInjective(<<b>> \o h.list[k])
      /\ Range(<<b>> \o h.list[k]) = {b} \cup Range(h.list[k])
  BY <1>1, <1>2, PushOne
<1>4. l \in [Lists -> Seq(Units)] /\ f \in [Units -> Words] /\ e \in [Units -> Words]
  BY <1>1, <1>2, <1>3, WordFacts
<1>5. \A c \in Lists : l[c] = IF c = k THEN <<b>> \o h.list[k] ELSE h.list[c]
  BY <1>1, <1>2
<1>6. /\ \A u \in Units : e[u] = IF u = b + 1 THEN Link ELSE h.head[u]
      /\ \A u \in Units : f[u] = IF u = b THEN Link ELSE h.foot[u]
  BY <1>1
<1>7. Push(h, b) = [[[h EXCEPT !.list = l] EXCEPT !.foot = f] EXCEPT !.head = e]
  <2>1. h.list[k] = h.list[ListFor(h, b)] /\ k = ListFor(h, b)
    BY DEF k
  <2> QED BY <2>1 DEF Push, Heaps
<1> HIDE DEF l, f, e
<1>8. /\ Push(h, b) \in Heaps /\ Push(h, b).pages = h.pages
      /\ Push(h, b).head = e /\ Push(h, b).foot = f /\ Push(h, b).list = l
  <2> DEFINE g == [h EXCEPT !.list = l]
             i == [g EXCEPT !.foot = f]
  <2>1. g \in Heaps /\ g.pages = h.pages /\ g.list = l
    BY <1>4, HeapMade
  <2> HIDE DEF g
  <2>2. i \in Heaps /\ i.pages = h.pages /\ i.list = l /\ i.foot = f
    BY <1>4, <2>1, HeapMade
  <2>3. Push(h, b) = [i EXCEPT !.head = e]
    BY <1>7 DEF g
  <2> HIDE DEF i
  <2> QED BY <1>4, <2>2, <2>3, HeapMade
<1>9. ASSUME NEW c \in Lists
      PROVE  /\ IsInjective(l[c])
             /\ Range(l[c]) = IF InList(h, c, b) THEN {b} \cup Range(h.list[c]) ELSE Range(h.list[c])
             /\ ~InList(h, c, b) => l[c] = h.list[c]
  BY <1>2, <1>3, <1>5
<1> QED BY <1>6, <1>8, <1>9

(* The heap g is h with the block b made free and joined: it is now s..e-1. *)
AddedAs(h, S, b, g, s, e) ==
  /\ g \in Heaps /\ g.pages = h.pages
  /\ \/ s = b /\ h.head[b].prev
     \/ s # b /\ Past(h, s) = b /\ ~h.head[s].alloc /\ ~h.head[b].prev
  /\ \/ e = Past(h, b) /\ h.head[Past(h, b)].alloc
     \/ Past(h, b) \in S /\ e = Past(h, Past(h, b)) /\ ~h.head[Past(h, b)].alloc
  /\ h.head[e].alloc
  /\ \A u \in Units :
       g.head[u] = IF u = s THEN FreeHead(e - s, h.head[s].prev)
                   ELSE IF u = s + 1 THEN Link
                   ELSE IF u = e /\ u = Past(h, b) THEN NoPrev(h.head[u])
                   ELSE h.head[u]
  /\ \A u \in Units :
       g.foot[u] = IF u = s THEN Link
                   ELSE IF u = e - 1 THEN FreeHead(e - s, h.head[s].prev)
                   ELSE h.foot[u]
  /\ \A c \in Lists :
       /\ IsInjective(g.list[c])
       /\ Range(g.list[c]) = (Range(h.list[c]) \ {s, Past(h, b)})
                               \cup (IF InList(g, c, s) THEN {s} ELSE {})
       /\ ~InList(g, c, s) /\ s \notin Range(h.list[c]) /\ Past(h, b) \notin Range(h.list[c])
            => g.list[c] = h.list[c]

(* AddToFreeList makes one free block, from s to e, of b and its free neighbours. *)
LEMMA AddEffect ==
  ASSUME NEW h \in Heaps, h.pages > 0, NEW S, NEW U, NEW b \in S, b \in U,
         Tiles(h, S), Bits(h, S, b), Listed(h, S, U)
  PROVE  \E s \in S, e \in S \cup {End(h)} : AddedAs(h, S, b, AddToFreeList(h, b), s, e)
<1> DEFINE next  == Past(h, b)
           joins == ~h.head[next].alloc
           size  == h.head[b].size + (IF joins THEN h.head[next].size ELSE 0)
           s     == IF h.head[b].prev THEN b ELSE b - h.foot[b - 1].size
           e     == IF joins THEN Past(h, next) ELSE next
           w     == FreeHead(e - s, h.head[s].prev)
           h1    == IF joins THEN Unlink(h, next) ELSE PrevFree(h, next)
           h2    == IF h.head[b].prev THEN PutHead(h1, b, Header(size, FALSE, TRUE))
                      ELSE Unlink([h1 EXCEPT !.head[s].size = @ + size], s)
           h3    == PutFoot(h2, s)
           g     == Push(h3, s)
<1>1. AddToFreeList(h, b) = g
  BY DEF AddToFreeList, Past
<1>2. /\ b \in Units /\ b \in Nat /\ b >= 2 /\ h.head[b] \in Headers
      /\ h.head[b].size \in Nat /\ h.head[b].size >= 2
      /\ h.head[b].alloc \in BOOLEAN /\ h.head[b].prev \in BOOLEAN
      /\ next \in Units /\ next \in Nat /\ next >= b + 2 /\ next <= End(h)
      /\ h.head[next] \in Headers /\ h.head[next].alloc \in BOOLEAN /\ h.head[next].prev \in BOOLEAN
      /\ next = b + h.head[b].size
  BY TileFacts DEF Past
<1>3. h.head[End(h)].alloc /\ next \in S \cup {End(h)}
  BY DEF Tiles
<1>4. joins => /\ next \in S /\ Past(h, next) \in S \cup {End(h)} /\ next # b
               /\ Past(h, next) \in Units /\ Past(h, next) >= next + 2
               /\ h.head[Past(h, next)].alloc
  <2> SUFFICES ASSUME joins PROVE next \in S /\ next # b /\ Past(h, next) \in S \cup {End(h)}
               /\ Past(h, next) \in Units /\ Past(h, next) >= next + 2
               /\ h.head[Past(h, next)].alloc
    OBVIOUS
  <2>1. next \in S /\ next # b
    BY <1>2, <1>3
  <2>2. Past(h, next) \in Units /\ Past(h, next) \in Nat /\ Past(h, next) >= next + 2
    BY <2>1, TileFacts
  <2>3. Past(h, next) # b
    BY <1>2, <2>2
  <2> QED BY <2>1, <2>2, <2>3 DEF Bits, Tiles
<1>5. ~h.head[b].prev => /\ s \in S /\ s # b /\ s < b /\ Past(h, s) = b /\ ~h.head[s].alloc
  <2> SUFFICES ASSUME ~h.head[b].prev
               PROVE  s \in S /\ s # b /\ s < b /\ Past(h, s) = b /\ ~h.head[s].alloc
    OBVIOUS
  <2>1. b # 2
    BY DEF Bits
  <2>2. PICK p \in S : Past(h, p) = b
    BY <2>1 DEF Tiles
  <2>3. p \in Nat /\ h.head[p].size \in Nat /\ b = p + h.head[p].size /\ p < b
    BY <2>2, TileFacts DEF Past
  <2>4. ~h.head[p].alloc /\ h.foot[b - 1] = h.head[p]
    BY <2>2, <2>3 DEF Bits
  <2>5. s = p
    BY <2>3, <2>4
  <2> QED BY <2>2, <2>3, <2>4, <2>5
<1>6. /\ s \in S /\ s \in Units /\ s \in Nat /\ s + 1 \in Units /\ s <= b
      /\ h.head[s] \in Headers /\ h.head[s].prev \in BOOLEAN /\ h.head[s].size \in Nat
  <2>1. s \in S
    BY <1>5
  <2>2. s = b \/ s < b
    BY <1>5
  <2> HIDE DEF s
  <2>3. s \in Units /\ s \in Nat /\ s + 1 \in Units
        /\ h.head[s] \in Headers /\ h.head[s].prev \in BOOLEAN /\ h.head[s].size \in Nat
    BY <2>1, TileFacts
  <2>4. s <= b
    BY <2>2, <2>3, <1>2
  <2> QED BY <2>1, <2>3, <2>4
<1>7. /\ e \in S \cup {End(h)} /\ e \in Units /\ e \in Nat /\ e >= next /\ e - 1 \in Units
      /\ h.head[e].alloc /\ e = b + size /\ size \in Nat
  <2>1. e \in S \cup {End(h)} /\ e \in Units /\ h.head[e].alloc
    BY <1>2, <1>3, <1>4
  <2>2. e = b + size /\ size \in Nat /\ e >= next
    <3>1. CASE joins
      <4>1. h.head[next].size \in Nat
        BY <3>1, <1>4, TileFacts
      <4>2. /\ next = b + h.head[b].size /\ next \in Nat
            /\ b \in Nat /\ h.head[b].size \in Nat
        BY <1>2
      <4>3. e = next + h.head[next].size /\ size = h.head[b].size + h.head[next].size
        BY <3>1 DEF Past
      <4> HIDE DEF s, e, size, next
      <4> QED BY <4>1, <4>2, <4>3
    <3>2. CASE ~joins
      BY <3>2, <1>2
    <3> QED BY <3>1, <3>2
  <2>3. e \in Nat /\ e - 1 \in Units
    <3>1. e \in Units /\ e >= next /\ next \in Nat /\ next >= b + 2 /\ b \in Nat
      BY <2>1, <2>2, <1>2
    <3>2. NUnits \in Nat /\ Units = 0..(NUnits - 1)
      BY Numbers
    <3> HIDE DEF s, e, size, next
    <3> QED BY <3>1, <3>2
  <2> QED BY <2>1, <2>2, <2>3
<1>9. \A c \in Lists : /\ IsInjective(h.list[c])
                       /\ b \notin Range(h.list[c])
                       /\ ~joins => next \notin Range(h.list[c])
  <2>1. ASSUME NEW c \in Lists, ~joins PROVE next \notin Range(h.list[c])
    BY <2>1 DEF Listed
  <2> QED BY <2>1 DEF Listed
<1> HIDE DEF s, e, size
<1>8. e - s \in 0..NUnits /\ e - s >= 2 /\ e - s \in Nat /\ w \in Headers /\ w \in Words
  <2>1. e \in 0..(NUnits - 1) /\ NUnits \in Nat /\ e >= b + 2 /\ s <= b /\ s \in Nat /\ b \in Nat
    BY SMTT(30), <1>2, <1>6, <1>7, Numbers
  <2>2. e - s \in 0..NUnits /\ e - s >= 2 /\ e - s \in Nat
    BY <2>1
  <2>3. w \in Headers
    BY <2>2, <1>6, FreeHeadIs
  <2> QED BY <2>2, <2>3, WordFacts
<1>10. /\ h1 \in Heaps /\ h1.pages = h.pages /\ h1.foot = h.foot
       /\ \A u \in Units :
            h1.head[u] = IF u = e /\ u = next THEN NoPrev(h.head[u])
                         ELSE h.head[u]
       /\ \A c \in Lists :
            /\ IsInjective(h1.list[c])
            /\ Range(h1.list[c]) = Range(h.list[c]) \ {next}
            /\ next \notin Range(h.list[c]) => h1.list[c] = h.list[c]
  <2>1. CASE joins
    <3>1. h1 = Unlink(h, next)
      BY <2>1
    <3>2. e # next
      BY <2>1, <1>2, <1>4 DEF e
    <3> HIDE DEF h1
    <3> QED BY <3>1, <3>2, <1>9, UnlinkIs
  <2>2. CASE ~joins
    <3>1. e = next
      BY <2>2 DEF e
    <3>2. h.head[next] \in Headers /\ NoPrev(h.head[next]) \in Words
      BY <1>2, NoPrevIs, WordFacts
    <3>4. h1 = PutHead(h, next, NoPrev(h.head[next]))
      BY <2>2 DEF PrevFree, PutHead, NoPrev
    <3> HIDE DEF h1
    <3>a. next \in Units
      BY <1>2
    <3>5. /\ h1 \in Heaps /\ h1.pages = h.pages /\ h1.foot = h.foot /\ h1.list = h.list
          /\ \A u \in Units : h1.head[u] = IF u = next THEN NoPrev(h.head[next]) ELSE h.head[u]
      BY <3>2, <3>4, <3>a, PutHeadIs
    <3>6. \A c \in Lists : Range(h.list[c]) = Range(h.list[c]) \ {next}
      BY <2>2, <1>9
    <3> QED BY <3>1, <3>5, <3>6, <1>9
  <2> QED BY <2>1, <2>2
<1> HIDE DEF h1
<1>11. /\ h2 \in Heaps /\ h2.pages = h.pages /\ h2.foot = h.foot
       /\ \A u \in Units : h2.head[u] = IF u = s THEN w ELSE h1.head[u]
       /\ \A c \in Lists :
            /\ IsInjective(h2.list[c])
            /\ Range(h2.list[c]) = Range(h1.list[c]) \ {s}
            /\ s \notin Range(h1.list[c]) => h2.list[c] = h1.list[c]
  <2>1. CASE h.head[b].prev
    <3>1. s = b
      BY <2>1 DEF s
    <3>2. size = e - s
      BY <3>1, <1>2, <1>7
    <3>3. w = Header(size, FALSE, TRUE)
      BY <2>1, <3>1, <3>2, <1>2 DEF FreeHead
    <3>4. h2 = PutHead(h1, s, w)
      BY <2>1, <3>1, <3>3
    <3> HIDE DEF h2, w
    <3>5. \A c \in Lists : s \notin Range(h1.list[c])
      BY <3>1, <1>9, <1>10
    <3>6. \A c \in Lists : Range(h1.list[c]) = Range(h1.list[c]) \ {s}
      BY <3>5
    <3>7. /\ h2 \in Heaps /\ h2.pages = h1.pages /\ h2.foot = h1.foot /\ h2.list = h1.list
          /\ \A u \in Units : h2.head[u] = IF u = s THEN w ELSE h1.head[u]
      BY <3>4, <1>6, <1>8, <1>10, PutHeadIs
    <3> QED BY <3>6, <3>7, <1>10
  <2>2. CASE ~h.head[b].prev
    <3>1. /\ s # b /\ s < b /\ Past(h, s) = b /\ ~h.head[s].alloc
      BY <2>2, <1>5
    <3>2. h1.head[s] = h.head[s]
      BY <3>1, <1>2, <1>6, <1>10
    <3>3. h.head[s].size + size = e - s
      BY <3>1, <1>2, <1>6, <1>7 DEF Past
    <3>4. w = [h1.head[s] EXCEPT !.size = h1.head[s].size + size]
      BY <3>1, <3>2, <3>3, <1>6, Resize
    <3>5. h2 = Unlink(PutHead(h1, s, w), s)
      BY <2>2, <3>4 DEF PutHead
    <3> HIDE DEF h2, w
    <3>6. /\ PutHead(h1, s, w) \in Heaps /\ PutHead(h1, s, w).pages = h.pages
          /\ PutHead(h1, s, w).foot = h.foot /\ PutHead(h1, s, w).list = h1.list
          /\ \A u \in Units : PutHead(h1, s, w).head[u] = IF u = s THEN w ELSE h1.head[u]
      BY <1>6, <1>8, <1>10, PutHeadIs
    <3>7. \A c \in Lists : IsInjective(PutHead(h1, s, w).list[c])
      BY <3>6, <1>10
    <3> QED BY <3>5, <3>6, <3>7, UnlinkIs
  <2> QED BY <2>1, <2>2
<1> HIDE DEF h2, w
<1>12. h2.head[s] = w /\ w.size = e - s /\ Past(h2, s) = e
  <2>1. h2.head[s] = w
    BY <1>6, <1>11
  <2>2. w.size = e - s
    BY <1>6, FreeHeadIs DEF w
  <2> QED BY <2>1, <2>2, <1>6, <1>7 DEF Past
<1>13. /\ h3 \in Heaps /\ h3.pages = h.pages /\ h3.head = h2.head /\ h3.list = h2.list
       /\ \A u \in Units : h3.foot[u] = IF u = e - 1 THEN w ELSE h.foot[u]
  <2>1. h2.head[s].size \in Nat
    BY <1>12, <1>8
  <2>2. e - 1 = Past(h2, s) - 1
    BY <1>12
  <2>3. h3 \in Heaps /\ h3.pages = h2.pages /\ h3.head = h2.head /\ h3.list = h2.list
       /\ \A u \in Units : h3.foot[u] = IF u = e - 1 THEN h2.head[s] ELSE h2.foot[u]
    BY <2>1, <2>2, <1>6, <1>7, <1>11, PutFootIs
  <2> QED BY <2>3, <1>11, <1>12
<1> HIDE DEF h3
<1>14. \A c \in Lists : IsInjective(h3.list[c]) /\ s \notin Range(h3.list[c])
  BY <1>11, <1>13
<1>15. h3.head[s].size \in Nat /\ h3.head[s] = w
  BY <1>8, <1>12, <1>13
<1>16. /\ g \in Heaps /\ g.pages = h3.pages
       /\ \A u \in Units : g.head[u] = IF u = s + 1 THEN Link ELSE h3.head[u]
       /\ \A u \in Units : g.foot[u] = IF u = s THEN Link ELSE h3.foot[u]
       /\ \A c \in Lists :
            /\ IsInjective(g.list[c])
            /\ Range(g.list[c]) = IF InList(h3, c, s) THEN {s} \cup Range(h3.list[c])
                                  ELSE Range(h3.list[c])
            /\ ~InList(h3, c, s) => g.list[c] = h3.list[c]
  BY <1>6, <1>13, <1>14, <1>15, PushIs
<1> HIDE DEF g
<1>17. \A c \in Lists : InList(g, c, s) <=> InList(h3, c, s)
  <2>1. g.head[s].size = h3.head[s].size
    BY <1>6, <1>16
  <2> QED BY <2>1, <1>16, SameInList
<1>18. \A c \in Lists :
         /\ IsInjective(g.list[c])
         /\ Range(g.list[c]) = (Range(h.list[c]) \ {s, next})
                               \cup (IF InList(g, c, s) THEN {s} ELSE {})
         /\ ~InList(g, c, s) /\ s \notin Range(h.list[c]) /\ next \notin Range(h.list[c])
              => g.list[c] = h.list[c]
  <2> SUFFICES ASSUME NEW c \in Lists
               PROVE  /\ IsInjective(g.list[c])
                      /\ Range(g.list[c]) = (Range(h.list[c]) \ {s, next})
                                              \cup (IF InList(g, c, s) THEN {s} ELSE {})
                      /\ ~InList(g, c, s) /\ s \notin Range(h.list[c])
                           /\ next \notin Range(h.list[c]) => g.list[c] = h.list[c]
    OBVIOUS
  <2>1. Range(h3.list[c]) = Range(h.list[c]) \ {s, next}
    BY <1>10, <1>11, <1>13
  <2>2. s \notin Range(h.list[c]) /\ next \notin Range(h.list[c]) => h3.list[c] = h.list[c]
    BY <1>10, <1>11, <1>13
  <2> QED BY <2>1, <2>2, <1>16, <1>17
<1>19. \A u \in Units :
         g.head[u] = IF u = s THEN w
                     ELSE IF u = s + 1 THEN Link
                     ELSE IF u = e /\ u = next THEN NoPrev(h.head[u])
                     ELSE h.head[u]
  BY <1>6, <1>10, <1>11, <1>13, <1>16
<1>20. \A u \in Units :
         g.foot[u] = IF u = s THEN Link ELSE IF u = e - 1 THEN w ELSE h.foot[u]
  BY <1>13, <1>16
<1>21. \/ s = b /\ h.head[b].prev
       \/ s # b /\ Past(h, s) = b /\ ~h.head[s].alloc /\ ~h.head[b].prev
  BY <1>5 DEF s
<1>22. \/ e = next /\ h.head[next].alloc
       \/ next \in S /\ e = Past(h, next) /\ ~h.head[next].alloc
  BY <1>4 DEF e
<1>23. AddedAs(h, S, b, g, s, e)
  BY <1>7, <1>13, <1>16, <1>18, <1>19, <1>20, <1>21, <1>22, Zenon DEF AddedAs, w
<1> QED BY <1>1, <1>6, <1>7, <1>23

(* Blocks, bits and lists are right again after that.                      *)
LEMMA JoinKeeps ==
  ASSUME NEW h \in Heaps, h.pages > 0, NEW S, NEW U, NEW b \in S, b \in U,
         Tiles(h, S), Bits(h, S, b), Listed(h, S, U),
         \A c \in S : Past(h, c) = b /\ ~h.head[c].alloc => c \notin U,
         Past(h, b) \in U => h.head[Past(h, b)].alloc,
         NEW g, NEW s \in S, NEW e \in S \cup {End(h)}, AddedAs(h, S, b, g, s, e)
  PROVE  Joined(h, S, U, b, g, {c \in S : ~(s < c /\ c < e)}, s)
<1> DEFINE T == {c \in S : ~(s < c /\ c < e)}
           next == Past(h, b)
           end == End(h)
           w == FreeHead(e - s, h.head[s].prev)
<1>1. /\ g \in Heaps /\ g.pages = h.pages
      /\ \/ s = b /\ h.head[b].prev
         \/ s # b /\ Past(h, s) = b /\ ~h.head[s].alloc /\ ~h.head[b].prev
      /\ \/ e = next /\ h.head[next].alloc
         \/ next \in S /\ e = Past(h, next) /\ ~h.head[next].alloc
      /\ h.head[e].alloc
  BY DEF AddedAs
<1>2. \A u \in Units :
        /\ g.head[u] = IF u = s THEN w
                       ELSE IF u = s + 1 THEN Link
                       ELSE IF u = e /\ u = next THEN NoPrev(h.head[u])
                       ELSE h.head[u]
        /\ g.foot[u] = IF u = s THEN Link ELSE IF u = e - 1 THEN w ELSE h.foot[u]
  BY DEF AddedAs
<1>3. \A c \in Lists :
        /\ IsInjective(g.list[c])
        /\ Range(g.list[c]) = (Range(h.list[c]) \ {s, next})
                              \cup (IF InList(g, c, s) THEN {s} ELSE {})
  BY DEF AddedAs
<1>4. end \in Units /\ end \in Nat /\ End(g) = end
  BY EndIn, <1>1 DEF End
<1>5. \A c \in S :
        /\ c \in Units /\ c \in Nat /\ c >= 2 /\ c < end
        /\ h.head[c] \in Headers /\ h.head[c].size >= 2
        /\ Past(h, c) \in Nat /\ Past(h, c) >= c + 2 /\ Past(h, c) <= end
        /\ Past(h, c) \in S \cup {end}
  <2> SUFFICES ASSUME NEW c \in S
               PROVE  /\ c \in Units /\ c \in Nat /\ c >= 2 /\ c < end
                      /\ h.head[c] \in Headers /\ h.head[c].size >= 2
                      /\ Past(h, c) \in Nat /\ Past(h, c) >= c + 2 /\ Past(h, c) <= end
                      /\ Past(h, c) \in S \cup {end}
    OBVIOUS
  <2>1. /\ c \in Units /\ c \in Nat /\ c >= 2
        /\ h.head[c] \in Headers /\ h.head[c].size >= 2
        /\ Past(h, c) \in Nat /\ Past(h, c) >= c + 2 /\ Past(h, c) <= end
    BY TileFacts
  <2>2. Past(h, c) \in S \cup {end}
    BY DEF Tiles
  <2>3. c < end
    BY <2>1, <1>4
  <2> QED BY <2>1, <2>2, <2>3
<1>6. \A c \in S, d \in S :
        (c < d => Past(h, c) <= d) /\ (Past(h, c) = Past(h, d) => c = d)
  BY NoOverlap
<1>7. e \in Units /\ e \in Nat /\ e <= end /\ s <= b /\ s \in Nat /\ next <= e /\ s + 1 < e
      /\ s \in Units /\ s + 1 \in Units /\ e - 1 \in Units /\ e > b
  <2>1. e \in Units /\ e \in Nat /\ e <= end
    BY <1>4, <1>5
  <2>2. s <= b /\ s \in Nat /\ s \in Units
    BY <1>1, <1>5
  <2>3. next <= e
    BY <1>1, <1>5
  <2>4. s + 1 < e /\ e > b
    BY <1>5, <2>2, <2>3, <2>1
  <2> QED BY <2>1, <2>2, <2>3, <2>4, Numbers
<1> HIDE DEF next, end
<1>8. ASSUME NEW c \in S, c \notin T
      PROVE  (c = b /\ s # b) \/ (c = next /\ e # next)
  <2>1. s < c /\ c < e
    BY <1>8
  <2>2. c \in Nat /\ b \in Nat /\ next \in Nat /\ e \in Nat /\ s \in Nat
    BY <1>5, <1>7 DEF next
  <2>3. ~(c < b)
    <3>1. CASE s = b
      BY <3>1, <2>1, <2>2
    <3>2. CASE s # b
      BY <3>2, <2>1, <2>2, <1>1, <1>6
    <3> QED BY <3>1, <3>2
  <2>4. c > b => next <= c
    BY <2>2, <1>6 DEF next
  <2>5. ~(c > next)
    <3>1. CASE e = next
      BY <3>1, <2>1, <2>2
    <3>2. CASE e # next
      BY <3>2, <2>1, <2>2, <1>1, <1>6
    <3> QED BY <3>1, <3>2
  <2>6. c = b \/ c = next
    BY <2>2, <2>3, <2>4, <2>5
  <2> QED BY <2>1, <2>2, <2>6
<1>9. ASSUME NEW c \in T, c # s
      PROVE  /\ c # s + 1 /\ c # b /\ (Past(h, c) <= s \/ c >= e)
             /\ (e # next => c # next)
             /\ g.head[c] \in Headers
             /\ g.head[c].size = h.head[c].size /\ (g.head[c].alloc <=> h.head[c].alloc)
             /\ ~(c = e /\ c = next) => g.head[c] = h.head[c]
  <2>1. c \in S /\ ~(s < c /\ c < e)
    OBVIOUS
  <2>2. c # s + 1 /\ (c <= s \/ c >= e)
    BY <2>1, <1>5, <1>7
  <2>3. c < s => Past(h, c) <= s
    BY <2>1, <1>6
  <2>4. c # b
    BY <2>1, <1>1, <1>5, <1>7, <1>9
  <2>5. e # next => c # next
    BY <2>1, <1>1, <1>5, <1>7 DEF next
  <2>6. g.head[c] = IF c = e /\ c = next THEN NoPrev(h.head[c]) ELSE h.head[c]
    BY <2>1, <2>2, <1>2, <1>5, <1>9
  <2>7. h.head[c] \in Headers
    BY <2>1, <1>5
  <2>8. /\ NoPrev(h.head[c]) \in Headers
        /\ NoPrev(h.head[c]).size = h.head[c].size /\ NoPrev(h.head[c]).alloc = h.head[c].alloc
    BY <2>7, NoPrevIs
  <2>9. g.head[c] \in Headers /\ g.head[c].size = h.head[c].size
        /\ (g.head[c].alloc <=> h.head[c].alloc)
    BY <2>6, <2>7, <2>8
  <2>10. Past(h, c) <= s \/ c >= e
    BY <2>1, <2>2, <2>3, <1>5, <1>7, <1>9
  <2> QED BY <2>2, <2>4, <2>5, <2>6, <2>9, <2>10
<1>10. /\ g.head[s] = w /\ w \in Headers /\ w.size = e - s /\ w.size >= 2 /\ ~w.alloc
       /\ w.prev = h.head[s].prev /\ Past(g, s) = e
  <2>1. g.head[s] = w
    BY <1>2, <1>7
  <2>2. e - s \in 0..NUnits /\ e - s >= 2
    BY <1>7, Numbers
  <2>3. h.head[s].prev \in BOOLEAN
    BY TileFacts
  <2>4. w \in Headers /\ w.size = e - s /\ ~w.alloc /\ w.prev = h.head[s].prev
    BY <2>2, <2>3, FreeHeadIs
  <2> HIDE DEF w
  <2>5. Past(g, s) = e
    BY <2>1, <2>4, <1>7 DEF Past
  <2> QED BY <2>1, <2>2, <2>4, <2>5
<1> HIDE DEF w
<1>11. \A c \in T : Past(g, c) = IF c = s THEN e ELSE Past(h, c)
  BY <1>9, <1>10 DEF Past
<1>12. s \in T /\ (e # end => e \in T) /\ 2 \in T
  BY <1>4, <1>5, <1>7 DEF end, Tiles
<1>13. ASSUME NEW c \in T, c # s PROVE Past(h, c) \in T \cup {end}
  <2>1. c \in S /\ c # b /\ (e # next => c # next)
    BY <1>9, <1>13
  <2>2. SUFFICES ASSUME Past(h, c) \in S, Past(h, c) \notin T PROVE FALSE
    BY <2>1, <1>5
  <2>3. (Past(h, c) = b /\ s # b) \/ (Past(h, c) = next /\ e # next)
    BY <2>2, <1>8
  <2>4. CASE Past(h, c) = b /\ s # b
    BY <2>4, <2>1, <1>1, <1>6, <1>13
  <2>5. CASE Past(h, c) = next
    BY <2>5, <2>1, <1>6 DEF next
  <2> QED BY <2>3, <2>4, <2>5
<1> SUFFICES Joined(h, S, U, b, g, T, s)
  OBVIOUS
<1>14. ASSUME NEW c \in T \cup {end}, NEW d \in S, Past(h, d) = c
       PROVE  \E x \in T : Past(g, x) = c
  <2>1. ~(s < c /\ c < e) /\ c \in Nat
    BY <1>4, <1>5, <1>7
  <2>2. CASE d \in T /\ d # s
    BY <2>2, <1>11, <1>14
  <2>3. CASE d = s
    <3>1. s = b
      BY <2>1, <2>3, <1>1, <1>5, <1>7, <1>14
    <3>2. c = next /\ c > s
      BY <3>1, <2>3, <1>5, <1>14 DEF next
    <3>3. c = e
      BY <2>1, <3>2, <1>7
    <3> QED BY <3>3, <1>11, <1>12
  <2>4. CASE d \notin T
    <3>1. c = e
      <4>1. (d = b /\ s # b) \/ (d = next /\ e # next)
        BY <2>4, <1>8
      <4>2. CASE d = b /\ s # b
        <5>1. c = next /\ c > s
          BY <4>2, <1>5, <1>7, <1>14 DEF next
        <5> QED BY <5>1, <2>1, <1>7
      <4>3. CASE d = next /\ e # next
        BY <4>3, <1>1, <1>14
      <4> QED BY <4>1, <4>2, <4>3
    <3> QED BY <3>1, <1>11, <1>12
  <2> QED BY <2>2, <2>3, <2>4
<1>15. g.head[end] \in Headers /\ g.head[end].size = 0 /\ g.head[end].alloc
  <2>1. /\ h.head[end] \in Headers /\ h.head[end].size = 0 /\ h.head[end].alloc
    BY DEF Tiles, end
  <2>2. /\ NoPrev(h.head[end]) \in Headers /\ NoPrev(h.head[end]).size = h.head[end].size
        /\ NoPrev(h.head[end]).alloc = h.head[end].alloc
    BY <2>1, NoPrevIs
  <2>3. g.head[end] = h.head[end] \/ g.head[end] = NoPrev(h.head[end])
    BY <1>2, <1>4, <1>7
  <2> QED BY <2>1, <2>2, <2>3
<1>16. Tiles(g, T)
  <2>1. T \subseteq 2..(End(g) - 1) /\ 2 \in T
    <3>1. S \subseteq 2..(end - 1)
      BY DEF Tiles, end
    <3> QED BY <3>1, <1>4, <1>12
  <2>2. ASSUME NEW c \in T
        PROVE  /\ g.head[c] \in Headers /\ g.head[c].size >= MinUnits
               /\ Past(g, c) \in T \cup {End(g)}
               /\ \A d \in T : ~(c < d /\ d < Past(g, c))
               /\ c = 2 \/ \E d \in T : Past(g, d) = c
    <3>1. g.head[c] \in Headers /\ g.head[c].size >= MinUnits
      <4>1. c \in S
        OBVIOUS
      <4> QED BY <4>1, <1>5, <1>9, <1>10 DEF MinUnits
    <3>2. Past(g, c) \in T \cup {End(g)}
      BY <1>4, <1>11, <1>12, <1>13
    <3>3. \A d \in T : ~(c < d /\ d < Past(g, c))
      <4>1. CASE c = s
        BY <4>1, <1>11
      <4>2. CASE c # s
        BY <4>2, <1>5, <1>6, <1>11
      <4> QED BY <4>1, <4>2
    <3>4. c = 2 \/ \E d \in T : Past(g, d) = c
      <4>1. c = 2 \/ \E d \in S : Past(h, d) = c
        BY DEF Tiles
      <4> QED BY <4>1, <1>14
    <3> QED BY <3>1, <3>2, <3>3, <3>4
  <2>3. \E d \in T : Past(g, d) = End(g)
    <3>1. PICK d \in S : Past(h, d) = end
      BY DEF Tiles, end
    <3> QED BY <3>1, <1>4, <1>14
  <2> QED BY <2>1, <2>2, <2>3, <1>4, <1>15 DEF Tiles
<1>17. Bits(g, T, NULL)
  <2>1. g.head[2].prev
    <3>1. h.head[2].prev
      BY DEF Bits
    <3>2. 2 # e /\ 2 # s + 1
      BY <1>5, <1>7
    <3>3. 2 = s => g.head[2].prev
      BY <3>1, <1>10
    <3>4. 2 # s => g.head[2] = h.head[2]
      BY <3>2, <1>9, <1>12
    <3> QED BY <3>1, <3>3, <3>4
  <2>2. /\ g.head[e].prev <=> g.head[s].alloc
        /\ g.head[e].alloc /\ g.foot[e - 1] = g.head[s]
    <3>1. g.foot[e - 1] = g.head[s]
      BY <1>2, <1>7, <1>10
    <3>2. CASE e = next
      <4>1. h.head[next] \in Headers
        BY TileFacts DEF next
      <4>2. g.head[e] = NoPrev(h.head[e])
        BY <3>2, <1>2, <1>7
      <4>3. ~NoPrev(h.head[e]).prev /\ NoPrev(h.head[e]).alloc = h.head[e].alloc
        BY <4>1, <3>2, NoPrevIs
      <4>4. ~g.head[e].prev /\ g.head[e].alloc
        BY <4>2, <4>3, <1>1
      <4> QED BY <4>4, <3>1, <1>10
    <3>3. CASE e # next
      <4>1. g.head[e] = h.head[e]
        BY <3>3, <1>2, <1>7
      <4>2. next \in S /\ next # b /\ Past(h, next) = e /\ ~h.head[next].alloc
        BY <3>3, <1>1, <1>5 DEF next
      <4>3. ~h.head[e].prev
        BY <4>2 DEF Bits
      <4> QED BY <4>1, <4>3, <3>1, <1>1, <1>10
    <3> QED BY <3>2, <3>3
  <2>3. ASSUME NEW c \in T, c # s
        PROVE  /\ g.head[Past(h, c)].prev <=> g.head[c].alloc
               /\ ~g.head[c].alloc => /\ g.foot[Past(h, c) - 1] = g.head[c]
                                      /\ g.head[Past(h, c)].alloc
    <3> DEFINE q == Past(h, c)
    <3>1. c \in S /\ c # b /\ (e # next => c # next)
      BY <1>9, <2>3
    <3>2. q \in T \cup {end} /\ q \in Units /\ q \in Nat /\ q >= c + 2 /\ q - 1 \in Units
      BY <3>1, <1>13, <1>5, <1>4, <2>3, Numbers
    <3>3. /\ h.head[q].prev <=> h.head[c].alloc
          /\ ~h.head[c].alloc => h.foot[q - 1] = h.head[c] /\ (q = b \/ h.head[q].alloc)
      BY <3>1 DEF Bits
    <3>4. q # next
      BY <3>1, <1>6 DEF next
    <3> HIDE DEF q
    <3>5. q # e
      <4>1. e # next => e = Past(h, next) /\ next \in S
        BY <1>1
      <4>2. e # next => c # next
        BY <3>1
      <4> QED BY <4>1, <4>2, <3>1, <3>4, <1>6 DEF q
    <3>6. q # s + 1
      BY <3>2, <1>4, <1>7
    <3>7. g.head[q] = IF q = s THEN w ELSE h.head[q]
      BY <3>2, <3>4, <3>5, <3>6, <1>2
    <3>8. g.head[q].prev <=> h.head[q].prev
      BY <3>7, <1>10
    <3>9. g.head[c].alloc <=> h.head[c].alloc
      BY <1>9, <2>3
    <3>10. ASSUME ~h.head[c].alloc
           PROVE  g.foot[q - 1] = g.head[c] /\ g.head[q].alloc
      <4>1. g.head[c] = h.head[c]
        BY <3>10, <1>1, <1>9, <2>3
      <4>2. q - 1 # s /\ q - 1 # e - 1
        BY <3>2, <3>5, <3>6, <1>7
      <4>3. g.foot[q - 1] = h.foot[q - 1]
        BY <4>2, <3>2, <1>2
      <4>4. q # b
        <5>1. CASE s = b
          BY <5>1, <3>3, <3>10, <1>1
        <5>2. CASE s # b
          BY <5>2, <3>1, <1>1, <1>6, <2>3 DEF q
        <5> QED BY <5>1, <5>2
      <4>5. q # s
        BY <4>4, <3>3, <3>10, <1>1
      <4> QED BY <4>1, <4>3, <4>4, <4>5, <3>3, <3>7, <3>10
    <3> QED BY <3>3, <3>8, <3>9, <3>10 DEF q
  <2>4. NULL \notin T /\ \A c \in T : Past(g, c) # NULL
    BY <1>5, <1>7, <1>11 DEF NULL
  <2>5. ASSUME NEW c \in T
        PROVE  /\ g.head[Past(g, c)].prev <=> g.head[c].alloc
               /\ ~g.head[c].alloc => /\ g.foot[Past(g, c) - 1] = g.head[c]
                                      /\ g.head[Past(g, c)].alloc
    <3>1. CASE c = s
      BY <3>1, <2>2, <1>11, <1>12
    <3>2. CASE c # s
      BY <3>2, <2>3, <1>11
    <3> QED BY <3>1, <3>2
  <2> QED BY <2>1, <2>4, <2>5 DEF Bits
<1>18. Listed(g, T, U \ {b})
  <2> SUFFICES ASSUME NEW c \in Lists
               PROVE  Range(g.list[c]) =
                        {x \in T \ (U \ {b}) : ~g.head[x].alloc /\ InList(g, c, x)}
    BY <1>3 DEF Listed
  <2> DEFINE R == {x \in T \ (U \ {b}) : ~g.head[x].alloc /\ InList(g, c, x)}
  <2>1. Range(h.list[c]) = {x \in S \ U : ~h.head[x].alloc /\ InList(h, c, x)}
    BY DEF Listed
  <2>2. s \notin U \ {b} /\ ~g.head[s].alloc
    BY <1>1, <1>10
  <2>3. \A x \in T : x # s => (InList(g, c, x) <=> InList(h, c, x))
                              /\ (g.head[x].alloc <=> h.head[x].alloc)
    BY <1>1, <1>9, SameInList
  <2>4. ASSUME NEW x \in Range(g.list[c]) PROVE x \in R
    <3>1. CASE x = s
      <4>1. InList(g, c, s)
        BY <3>1, <1>3
      <4> QED BY <4>1, <3>1, <2>2, <1>12
    <3>2. CASE x # s
      <4>1. x \in Range(h.list[c]) /\ x # next
        BY <3>2, <1>3
      <4>2. x \in S /\ x \notin U /\ ~h.head[x].alloc /\ InList(h, c, x)
        BY <4>1, <2>1
      <4>3. x \in T
        BY <4>1, <4>2, <1>8
      <4> QED BY <4>2, <4>3, <3>2, <2>3
    <3> QED BY <3>1, <3>2
  <2>5. ASSUME NEW x \in R PROVE x \in Range(g.list[c])
    <3>1. CASE x = s
      BY <3>1, <1>3
    <3>2. CASE x # s
      <4>1. x \in S /\ x \notin U /\ ~h.head[x].alloc /\ InList(h, c, x)
        BY <3>2, <2>3, <1>9
      <4>2. x \in Range(h.list[c])
        BY <4>1, <2>1
      <4>3. x # next
        BY <4>1, <3>2, <1>1, <1>9
      <4> QED BY <4>2, <4>3, <3>2, <1>3
    <3> QED BY <3>1, <3>2
  <2> QED BY <2>4, <2>5
<1>19. ASSUME FeetFree(h) PROVE FeetFree(g)
  <2> SUFFICES ASSUME NEW u \in Units, g.foot[u] \in Headers PROVE ~g.foot[u].alloc
    BY DEF FeetFree
  <2>1. g.foot[u] = w \/ g.foot[u] = h.foot[u]
    BY <1>2, WordFacts
  <2> QED BY <2>1, <1>10, <1>19 DEF FeetFree
<1>20. ASSUME NEW c \in T, c # s PROVE SameBlock(h, g, c)
  <2>1. c \in S
    OBVIOUS
  <2>2. ASSUME NEW u \in c..(Past(h, c) - 1)
        PROVE  g.foot[u] = h.foot[u] /\ (u > c => g.head[u] = h.head[u])
    <3>1. u \in Units /\ u \in Nat /\ u >= c /\ u < Past(h, c)
      BY <2>1, <1>4, <1>5, Numbers
    <3>2. u < s \/ u >= e
      BY <3>1, <2>1, <1>5, <1>7, <1>9, <1>20
    <3>3. u # s /\ u # s + 1 /\ u # e - 1
      BY <3>1, <3>2, <1>7
    <3>4. u > c => u # e
      <4>1. CASE c >= e
        BY <4>1, <2>1, <1>5, <1>7, <3>1
      <4>2. CASE Past(h, c) <= s
        BY <4>2, <2>1, <1>5, <1>7, <3>1
      <4> QED BY <4>1, <4>2, <1>9, <1>20
    <3> QED BY <3>1, <3>3, <3>4, <1>2
  <2> QED BY <2>2, <1>9, <1>20 DEF SameBlock
<1>21. \A c \in S : c \notin T => /\ c = b \/ ~h.head[c].alloc
                                  /\ c = b \/ c = Past(h, b)
  BY <1>1, <1>8 DEF next
<1>22. s # b => b \notin T /\ Past(h, s) = b /\ ~h.head[s].alloc
  BY <1>1, <1>9
<1>23. h.head[b].prev => s = b
  BY <1>1
<1> QED
  BY <1>1, <1>10, <1>12, <1>16, <1>17, <1>18, <1>19, <1>20, <1>21, <1>22, <1>23 DEF Joined

(* sf_add_to_free_list keeps the heap sound.                               *)
LEMMA Added ==
  ASSUME NEW h \in Heaps, h.pages > 0, NEW S, NEW U, NEW b \in S, b \in U,
         Tiles(h, S), Bits(h, S, b), Listed(h, S, U),
         \A c \in S : Past(h, c) = b /\ ~h.head[c].alloc => c \notin U,
         Past(h, b) \in U => h.head[Past(h, b)].alloc
  PROVE  \E T, s : Joined(h, S, U, b, AddToFreeList(h, b), T, s)
<1>1. PICK s \in S, e \in S \cup {End(h)} : AddedAs(h, S, b, AddToFreeList(h, b), s, e)
  BY AddEffect
<1> DEFINE g == AddToFreeList(h, b)
<1>2. AddedAs(h, S, b, g, s, e)
  BY <1>1
<1> HIDE DEF g
<1>3. Joined(h, S, U, b, g, {c \in S : ~(s < c /\ c < e)}, s)
  BY <1>2, JoinKeeps
<1> QED BY <1>3 DEF g

(* A header in the middle of a block makes two blocks of it.               *)
LEMMA SplitTiles ==
  ASSUME NEW h \in Heaps, h.pages > 0, NEW S, Tiles(h, S), NEW b \in S, NEW r \in Int,
         NEW g \in Heaps, g.pages = h.pages, b + 2 <= r, r + 2 <= Past(h, b),
         g.head[b] \in Headers, g.head[b].size = r - b,
         g.head[r] \in Headers, g.head[r].size = Past(h, b) - r,
         \A c \in S \cup {End(h)} : c # b => g.head[c] = h.head[c]
  PROVE  /\ Tiles(g, S \cup {r}) /\ r \notin S \cup {End(h)} /\ r \in Units
         /\ Past(g, b) = r /\ Past(g, r) = Past(h, b)
         /\ \A c \in S : c # b => Past(g, c) = Past(h, c)
<1> DEFINE end == End(h)
           T == S \cup {r}
<1>1. End(g) = end /\ end \in Nat /\ end \in Units
  BY EndIn DEF End
<1>2. /\ b \in Nat /\ b >= 2 /\ Past(h, b) \in Nat /\ Past(h, b) <= end
      /\ Past(h, b) \in S \cup {end}
  BY TileFacts DEF Tiles
<1>3. r \in Nat /\ r < end /\ r > 2 /\ r \in Units /\ r \notin S \cup {end}
  <2>1. r \in Nat /\ r < end /\ r > 2 /\ r \in Units
    BY <1>1, <1>2, Numbers
  <2>2. r \notin S
    BY <1>2 DEF Tiles
  <2> QED BY <2>1, <2>2
<1>4. Past(g, b) = r /\ Past(g, r) = Past(h, b)
  BY <1>2 DEF Past
<1>5. \A c \in S : c # b => Past(g, c) = Past(h, c)
  BY DEF Past
<1> HIDE DEF end
<1>6. T \subseteq 2..(end - 1) /\ 2 \in T
  <2>1. S \subseteq 2..(end - 1) /\ 2 \in S
    BY DEF Tiles, end
  <2> QED BY <2>1, <1>1, <1>3
<1>7. ASSUME NEW c \in T
      PROVE  /\ g.head[c] \in Headers /\ g.head[c].size >= MinUnits
             /\ Past(g, c) \in T \cup {end}
             /\ \A d \in T : ~(c < d /\ d < Past(g, c))
             /\ c = 2 \/ \E d \in T : Past(g, d) = c
  <2>1. g.head[c] \in Headers /\ g.head[c].size >= MinUnits
    <3>1. CASE c = b
      BY <3>1, <1>2 DEF MinUnits
    <3>2. CASE c = r
      BY <3>2, <1>2 DEF MinUnits
    <3>3. CASE c # b /\ c # r
      BY <3>3 DEF Tiles
    <3> QED BY <3>1, <3>2, <3>3
  <2>2. Past(g, c) \in T \cup {end}
    BY <1>2, <1>4, <1>5 DEF Tiles, end
  <2>3. ASSUME NEW d \in T PROVE ~(c < d /\ d < Past(g, c))
    <3>1. \A x \in S : x \in Nat /\ ~(b < x /\ x < Past(h, b))
      BY TileFacts DEF Tiles
    <3>2. CASE c = b
      BY <3>1, <3>2, <1>2, <1>3, <1>4
    <3>3. CASE c = r
      BY <3>1, <3>3, <1>2, <1>3, <1>4
    <3>4. CASE c # b /\ c # r
      <4>1. c \in S /\ Past(g, c) = Past(h, c) /\ c \in Nat /\ Past(h, c) \in Nat
        BY <3>4, <1>5, TileFacts
      <4>2. CASE d # r
        BY <4>1, <4>2 DEF Tiles
      <4>3. CASE d = r
        <5>1. c < b => Past(h, c) <= b
          BY <4>1, NoOverlap
        <5>2. b < c => Past(h, b) <= c
          BY <4>1, NoOverlap
        <5> QED BY <4>1, <4>3, <5>1, <5>2, <3>4, <1>2, <1>3
      <4> QED BY <4>2, <4>3
    <3> QED BY <3>2, <3>3, <3>4
  <2>4. c = 2 \/ \E d \in T : Past(g, d) = c
    <3>1. CASE c = r
      BY <3>1, <1>4
    <3>2. CASE c # r /\ c # 2
      <4>1. PICK d \in S : Past(h, d) = c
        BY <3>2 DEF Tiles
      <4>2. CASE d = b
        BY <4>1, <4>2, <1>4
      <4>3. CASE d # b
        BY <4>1, <4>3, <1>5
      <4> QED BY <4>2, <4>3
    <3> QED BY <3>1, <3>2
  <2> QED BY <2>1, <2>2, <2>3, <2>4
<1>8. \E c \in T : Past(g, c) = end
  <2>1. PICK d \in S : Past(h, d) = end
    BY DEF Tiles, end
  <2>2. CASE d = b
    BY <2>1, <2>2, <1>4
  <2>3. CASE d # b
    BY <2>1, <2>3, <1>5
  <2> QED BY <2>2, <2>3
<1>9. g.head[end] \in Headers /\ g.head[end].size = 0 /\ g.head[end].alloc
  <2>1. g.head[end] = h.head[end]
    BY <1>1, <1>6 DEF end
  <2> QED BY <2>1 DEF Tiles, end
<1>10. Tiles(g, T)
  BY <1>1, <1>6, <1>7, <1>8, <1>9 DEF Tiles
<1> QED BY <1>3, <1>4, <1>5, <1>10 DEF end

(* Block b of heap h was given out, with at least size units.              *)
Allotted(h, S, U, b, size, g, T) ==
  /\ g \in Heaps /\ g.pages = h.pages
  /\ Tiles(g, T) /\ Bits(g, T, NULL) /\ Listed(g, T, U \ {b})
  /\ FeetFree(h) => FeetFree(g)
  /\ b \in T /\ g.head[b].alloc
  /\ size <= g.head[b].size /\ g.head[b].size <= h.head[b].size
  /\ \A u \in b..(Past(g, b) - 1) :
       g.foot[u] = h.foot[u] /\ (u > b => g.head[u] = h.head[u])
  /\ \A c \in S : c \notin T => c = Past(h, b) /\ ~h.head[c].alloc
  /\ \A c \in T : c \notin S => ~g.head[c].alloc
  /\ \A c \in S : c \in T /\ c # b => SameBlock(h, g, c)

Given1(w)   == [w EXCEPT !.alloc = TRUE]
PrevGiven(w) == [w EXCEPT !.prev = TRUE]
GivenHead(n, p) == Header(n, TRUE, p)

(* The bits that AllocateBlock sets.                                       *)
LEMMA GivenIs ==
  ASSUME NEW w \in Headers
  PROVE  /\ Given1(w) \in Headers /\ Given1(w).size = w.size
         /\ Given1(w).alloc /\ Given1(w).prev = w.prev
         /\ PrevGiven(w) \in Headers /\ PrevGiven(w).size = w.size
         /\ PrevGiven(w).alloc = w.alloc /\ PrevGiven(w).prev
         /\ w.prev => PrevGiven(w) = w
<1>1. w.prev => PrevGiven(w) = w
  <2> SUFFICES ASSUME w.prev PROVE PrevGiven(w) = w
    OBVIOUS
  <2>1. w.prev = TRUE
    BY Numbers
  <2>2. w = [size |-> w.size, alloc |-> w.alloc, prev |-> w.prev]
    BY DEF Headers
  <2>3. PrevGiven(w) = [size |-> w.size, alloc |-> w.alloc, prev |-> TRUE]
    BY <2>2 DEF PrevGiven
  <2> QED BY <2>1, <2>2, <2>3
<1>2. /\ Given1(w) \in Headers /\ Given1(w).size = w.size
      /\ Given1(w).alloc /\ Given1(w).prev = w.prev
      /\ PrevGiven(w) \in Headers /\ PrevGiven(w).size = w.size
      /\ PrevGiven(w).alloc = w.alloc /\ PrevGiven(w).prev
  BY Numbers DEF Given1, PrevGiven
<1> QED BY <1>1, <1>2

(* The header of an allocated block of n units.                            *)
LEMMA GivenHeadIs ==
  ASSUME NEW n, NEW p \in BOOLEAN
  PROVE  /\ GivenHead(n, p).size = n /\ GivenHead(n, p).alloc /\ GivenHead(n, p).prev = p
         /\ n \in 0..NUnits => GivenHead(n, p) \in Headers
BY Numbers DEF Header, GivenHead

(* sf_allocate_block when the rest is too small to be a block.             *)
LEMMA AllottedWhole ==
  ASSUME NEW h \in Heaps, h.pages > 0, NEW S, NEW U, NEW b \in S, b \in U,
         Tiles(h, S), Bits(h, S, b), Listed(h, S, U), NEW size \in Nat,
         h.head[Past(h, b)].alloc \/ h.head[Past(h, b)].prev,
         size <= h.head[b].size, h.head[b].size - size < MinUnits
  PROVE  Allotted(h, S, U, b, size, AllocateBlock(h, b, size), S)
<1> DEFINE next == Past(h, b)
           h1 == PutHead(h, b, Given1(h.head[b]))
           g  == PutHead(h1, next, PrevGiven(h.head[next]))
<1>1. /\ b \in Units /\ b \in Nat /\ b >= 2 /\ h.head[b] \in Headers /\ h.head[b].size \in Nat
      /\ next \in Units /\ next \in Nat /\ h.head[next] \in Headers /\ next >= b + 2
      /\ next <= End(h)
  BY TileFacts
<1>2. /\ Given1(h.head[b]) \in Words /\ PrevGiven(h.head[next]) \in Words
  BY <1>1, GivenIs, WordFacts
<1>3. AllocateBlock(h, b, size) = g
  <2>1. AllocateBlock(h, b, size) =
          [h EXCEPT !.head[b].alloc = TRUE, !.head[b + h.head[b].size].prev = TRUE]
    BY DEF AllocateBlock
  <2>2. h.head \in [Units -> Words]
    BY HeapIn
  <2>3. h1.head[next] = h.head[next]
    <3> HIDE DEF next
    <3> QED BY <1>1, <1>2, PutHeadIs
  <2>4. g = [h1 EXCEPT !.head[next].prev = TRUE]
    BY <2>3 DEF PutHead, PrevGiven
  <2>5. h1 = [h EXCEPT !.head[b].alloc = TRUE]
    BY DEF PutHead, Given1
  <2> HIDE DEF h1, g
  <2> QED BY <2>1, <2>4, <2>5 DEF Past, Heaps
<1>4. /\ h1 \in Heaps /\ h1.pages = h.pages /\ h1.foot = h.foot /\ h1.list = h.list
      /\ \A u \in Units : h1.head[u] = IF u = b THEN Given1(h.head[b]) ELSE h.head[u]
  BY <1>1, <1>2, PutHeadIs
<1> HIDE DEF h1, next
<1>5. /\ g \in Heaps /\ g.pages = h.pages /\ g.foot = h.foot /\ g.list = h.list
      /\ \A u \in Units : g.head[u] = IF u = next THEN PrevGiven(h.head[next])
                                      ELSE IF u = b THEN Given1(h.head[b]) ELSE h.head[u]
  <2>1. /\ g \in Heaps /\ g.pages = h1.pages /\ g.foot = h1.foot /\ g.list = h1.list
        /\ \A u \in Units : g.head[u] = IF u = next THEN PrevGiven(h.head[next]) ELSE h1.head[u]
    BY <1>1, <1>2, <1>4, PutHeadIs
  <2> QED BY <2>1, <1>4
<1> HIDE DEF g
<1>6. End(g) = End(h) /\ End(h) \in Units /\ End(h) \in Nat
  BY <1>5, EndIn DEF End
<1>7. ASSUME NEW c \in S \cup {End(h)}
      PROVE  /\ g.head[c] \in Headers /\ g.head[c].size = h.head[c].size
             /\ g.head[c].alloc <=> (c = b \/ h.head[c].alloc)
             /\ g.head[c].prev <=> (c = next \/ h.head[c].prev)
             /\ c # b /\ ~h.head[c].alloc => g.head[c] = h.head[c]
             /\ c # b /\ c # next => g.head[c] = h.head[c]
             /\ Past(g, c) = Past(h, c)
  <2>1. c \in Units /\ h.head[c] \in Headers
    BY <1>6, TileFacts DEF Tiles
  <2>2. g.head[c] = IF c = next THEN PrevGiven(h.head[c])
                    ELSE IF c = b THEN Given1(h.head[c]) ELSE h.head[c]
    BY <2>1, <1>5
  <2>3. /\ Given1(h.head[c]) \in Headers /\ Given1(h.head[c]).size = h.head[c].size
        /\ Given1(h.head[c]).alloc /\ Given1(h.head[c]).prev = h.head[c].prev
        /\ PrevGiven(h.head[c]) \in Headers /\ PrevGiven(h.head[c]).size = h.head[c].size
        /\ PrevGiven(h.head[c]).alloc = h.head[c].alloc /\ PrevGiven(h.head[c]).prev
        /\ h.head[c].prev => PrevGiven(h.head[c]) = h.head[c]
    BY <2>1, GivenIs
  <2>4. g.head[c].size = h.head[c].size
    BY <2>2, <2>3
  <2>5. Past(g, c) = Past(h, c)
    BY <2>4 DEF Past
  <2>6. next # b /\ (h.head[next].alloc \/ h.head[next].prev)
    BY <1>1 DEF next
  <2> QED BY <2>1, <2>2, <2>3, <2>4, <2>5, <2>6
<1>8. Tiles(g, S)
  <2>1. /\ h.head[End(h)].size = 0 /\ h.head[End(h)].alloc
    BY DEF Tiles
  <2>2. /\ g.head[End(h)] \in Headers /\ g.head[End(h)].size = 0 /\ g.head[End(h)].alloc
    BY <2>1, <1>7
  <2>3. ASSUME NEW c \in S
        PROVE  /\ g.head[c] \in Headers /\ g.head[c].size >= MinUnits
               /\ Past(g, c) \in S \cup {End(g)}
               /\ \A d \in S : ~(c < d /\ d < Past(g, c))
               /\ c = 2 \/ \E d \in S : Past(g, d) = c
    BY <1>6, <1>7 DEF Tiles
  <2>4. \E c \in S : Past(g, c) = End(g)
    BY <1>6, <1>7 DEF Tiles
  <2>5. S \subseteq 2..(End(g) - 1) /\ 2 \in S
    BY <1>6 DEF Tiles
  <2> QED BY <2>2, <2>3, <2>4, <2>5, <1>6 DEF Tiles
<1>9. Bits(g, S, NULL)
  <2>1. g.head[2].prev
    <3>1. 2 \in S /\ h.head[2].prev
      BY DEF Tiles, Bits
    <3> QED BY <3>1, <1>7
  <2>2. ASSUME NEW c \in S
        PROVE  /\ g.head[Past(g, c)].prev <=> g.head[c].alloc
               /\ ~g.head[c].alloc => /\ g.foot[Past(g, c) - 1] = g.head[c]
                                      /\ g.head[Past(g, c)].alloc
    <3>1. Past(g, c) = Past(h, c) /\ Past(h, c) \in S \cup {End(h)}
      BY <1>7 DEF Tiles
    <3>2. CASE c = b
      BY <3>1, <3>2, <1>7 DEF next
    <3>3. CASE c # b
      <4>1. /\ h.head[Past(h, c)].prev <=> h.head[c].alloc
            /\ ~h.head[c].alloc => /\ h.foot[Past(h, c) - 1] = h.head[c]
                                   /\ Past(h, c) = b \/ h.head[Past(h, c)].alloc
        BY <3>3 DEF Bits
      <4>2. Past(h, c) # next
        BY <3>3, NoOverlap DEF next
      <4>3. ~h.head[c].alloc => g.head[c] = h.head[c]
        BY <3>3, <1>7
      <4>4. g.head[c].alloc <=> h.head[c].alloc
        BY <3>3, <1>7
      <4>5. g.head[Past(h, c)].prev <=> h.head[Past(h, c)].prev
        BY <3>1, <4>2, <1>7
      <4>6. g.head[Past(h, c)].alloc <=> (Past(h, c) = b \/ h.head[Past(h, c)].alloc)
        BY <3>1, <1>7
      <4> QED BY <3>1, <3>3, <4>1, <4>3, <4>4, <4>5, <4>6, <1>5
    <3> QED BY <3>2, <3>3
  <2> QED BY <2>1, <2>2 DEF Bits
<1>10. Listed(g, S, U \ {b})
  <2> SUFFICES ASSUME NEW c \in Lists
               PROVE  /\ IsInjective(g.list[c])
                      /\ Range(g.list[c]) =
                           {x \in S \ (U \ {b}) : ~g.head[x].alloc /\ InList(g, c, x)}
    BY DEF Listed
  <2>1. /\ IsInjective(h.list[c])
        /\ Range(h.list[c]) = {x \in S \ U : ~h.head[x].alloc /\ InList(h, c, x)}
    BY DEF Listed
  <2>2. \A x \in S : /\ InList(g, c, x) <=> InList(h, c, x)
                     /\ g.head[x].alloc <=> (x = b \/ h.head[x].alloc)
    BY <1>5, <1>7, SameInList
  <2>3. g.list[c] = h.list[c]
    BY <1>5
  <2>4. {x \in S \ (U \ {b}) : ~g.head[x].alloc /\ InList(g, c, x)} =
          {x \in S \ U : ~h.head[x].alloc /\ InList(h, c, x)}
    <3>1. ASSUME NEW x \in S
          PROVE  (x \notin U \ {b} /\ ~g.head[x].alloc /\ InList(g, c, x)) <=>
                   (x \notin U /\ ~h.head[x].alloc /\ InList(h, c, x))
      BY <2>2
    <3> QED BY <3>1
  <2> QED BY <2>1, <2>3, <2>4
<1>11. FeetFree(h) => FeetFree(g)
  BY <1>5 DEF FeetFree
<1>12. /\ g.head[b].alloc /\ size <= g.head[b].size /\ g.head[b].size <= h.head[b].size
       /\ Past(g, b) = next
  BY <1>1, <1>7 DEF next
<1>13. ASSUME NEW c \in S, NEW u \in c..(Past(h, c) - 1)
       PROVE  g.foot[u] = h.foot[u] /\ (u > c => g.head[u] = h.head[u])
  <2>1. c \in Nat /\ u \in Units /\ u \in Nat
    BY SMTT(30), <1>6, TileFacts, Numbers
  <2>2. Past(h, c) \in Nat /\ u < Past(h, c) /\ u >= c
    BY TileFacts
  <2>3. u > c => u # b
    BY <2>1, <2>2 DEF Tiles
  <2>4. u > c => u # next
    <3>1. next \in S \cup {End(h)}
      BY DEF Tiles, next
    <3>2. next = End(h) => u # next
      BY <2>2, <1>6, TileFacts
    <3> QED BY <3>1, <3>2, <2>1, <2>2 DEF Tiles
  <2> QED BY <2>1, <2>3, <2>4, <1>5
<1>14. \A c \in S : c # b => SameBlock(h, g, c)
  BY <1>7, <1>13 DEF SameBlock
<1>15. \A u \in b..(Past(g, b) - 1) :
         g.foot[u] = h.foot[u] /\ (u > b => g.head[u] = h.head[u])
  BY <1>12, <1>13 DEF next
<1> QED
  BY <1>3, <1>5, <1>8, <1>9, <1>10, <1>11, <1>12, <1>14, <1>15 DEF Allotted

(* A block that two steps leave alone is left alone.                       *)
LEMMA SameTwice ==
  ASSUME NEW h, NEW f, NEW g, NEW c, SameBlock(h, f, c), SameBlock(f, g, c)
  PROVE  SameBlock(h, g, c)
<1>1. Past(f, c) = Past(h, c)
  BY DEF SameBlock, Past
<1> QED BY <1>1 DEF SameBlock

(* sf_allocate_block when the rest becomes a free block.                   *)
LEMMA AllottedSplit ==
  ASSUME NEW h \in Heaps, h.pages > 0, NEW S, NEW U \in SUBSET S, NEW b \in U,
         Tiles(h, S), Bits(h, S, b), Listed(h, S, U), NEW size \in Nat, size >= MinUnits,
         Past(h, b) \in U => h.head[Past(h, b)].alloc,
         size <= h.head[b].size, h.head[b].size - size >= MinUnits
  PROVE  \E T : Allotted(h, S, U, b, size, AllocateBlock(h, b, size), T)
<1> DEFINE next == Past(h, b)
           rest == b + size
           w == GivenHead(size, h.head[b].prev)
           v == FreeHead(h.head[b].size - size, TRUE)
           h1 == PutHead(h, b, w)
           h2 == PutHead(h1, rest, v)
           h3 == PutFoot(h2, rest)
           R == S \cup {rest}
           V == (U \ {b}) \cup {rest}
           g == AllocateBlock(h, b, size)
<1>1. /\ b \in Units /\ b \in Nat /\ b >= 2 /\ h.head[b] \in Headers /\ h.head[b].size \in Nat
      /\ h.head[b].prev \in BOOLEAN /\ h.head[b].size <= NUnits
      /\ next \in Units /\ next \in Nat /\ h.head[next] \in Headers /\ next = b + h.head[b].size
      /\ next <= End(h) /\ next - 1 \in Units /\ b \in S
  BY TileFacts, Numbers DEF Past
<1>2. /\ rest \in Units /\ rest \in Nat /\ rest >= b + 2 /\ rest + 2 <= next /\ next - 1 > rest - 1
  BY SMTT(30), <1>1, Numbers DEF MinUnits
<1>3. /\ w \in Headers /\ w \in Words /\ w.size = size /\ w.alloc /\ w.prev = h.head[b].prev
      /\ v \in Headers /\ v \in Words /\ v.size = h.head[b].size - size /\ ~v.alloc /\ v.prev
  <2>1. /\ w.size = size /\ w.alloc /\ w.prev = h.head[b].prev
        /\ size \in 0..NUnits => w \in Headers
    BY <1>1, GivenHeadIs
  <2>2. /\ v.size = h.head[b].size - size /\ ~v.alloc /\ v.prev
        /\ h.head[b].size - size \in 0..NUnits => v \in Headers
    BY <1>1, FreeHeadIs
  <2>3. size \in 0..NUnits /\ h.head[b].size - size \in 0..NUnits
    <3>1. \A m, n, k \in Nat : m <= n /\ n <= k => m \in 0..k /\ n - m \in 0..k
      OBVIOUS
    <3>2. NUnits \in Nat
      BY Numbers
    <3> QED BY <3>1, <3>2, <1>1
  <2> HIDE DEF w, v
  <2> QED BY <2>1, <2>2, <2>3, WordFacts
<1>4. g = AddToFreeList(h3, rest)
  <2>1. ~(h.head[b].size - size < MinUnits)
    BY <1>1 DEF MinUnits
  <2> QED BY <2>1 DEF AllocateBlock, GivenHead, FreeHead
<1> HIDE DEF w, v
<1>5. /\ h1 \in Heaps /\ h1.pages = h.pages /\ h1.foot = h.foot /\ h1.list = h.list
      /\ \A u \in Units : h1.head[u] = IF u = b THEN w ELSE h.head[u]
  BY <1>1, <1>3, PutHeadIs
<1> HIDE DEF h1
<1>6. /\ h2 \in Heaps /\ h2.pages = h.pages /\ h2.foot = h.foot /\ h2.list = h.list
      /\ \A u \in Units : h2.head[u] = IF u = rest THEN v ELSE IF u = b THEN w ELSE h.head[u]
  <2>1. /\ h2 \in Heaps /\ h2.pages = h1.pages /\ h2.foot = h1.foot /\ h2.list = h1.list
        /\ \A u \in Units : h2.head[u] = IF u = rest THEN v ELSE h1.head[u]
    BY <1>2, <1>3, <1>5, PutHeadIs
  <2> QED BY <2>1, <1>5
<1> HIDE DEF h2, next
<1>7. /\ h3 \in Heaps /\ h3.pages = h.pages /\ h3.head = h2.head /\ h3.list = h.list
      /\ \A u \in Units : h3.foot[u] = IF u = next - 1 THEN v ELSE h.foot[u]
  <2>1. h2.head[rest] = v
    BY <1>2, <1>6
  <2>2. Past(h2, rest) = next
    BY <2>1, <1>1, <1>2, <1>3 DEF Past
  <2>3. /\ h3 \in Heaps /\ h3.pages = h2.pages /\ h3.head = h2.head /\ h3.list = h2.list
        /\ \A u \in Units : h3.foot[u] = IF u = next - 1 THEN h2.head[rest] ELSE h2.foot[u]
    <3>1. h2.head[rest].size \in Nat
      BY <2>1, <1>1, <1>2, <1>3
    <3> QED BY <2>2, <3>1, <1>1, <1>2, <1>6, PutFootIs
  <2> QED BY <2>1, <2>3, <1>6
<1> HIDE DEF h3
<1>8. /\ h3.head[b] = w /\ h3.head[rest] = v /\ b # rest
      /\ \A u \in Units : u # b /\ u # rest => h3.head[u] = h.head[u]
  <2> HIDE DEF rest
  <2>1. b # rest
    BY <1>1, <1>2
  <2> QED BY <2>1, <1>1, <1>2, <1>6, <1>7
<1> HIDE DEF rest
<1>9. /\ Tiles(h3, R) /\ rest \notin S /\ rest # End(h)
      /\ Past(h3, b) = rest /\ Past(h3, rest) = next
      /\ \A c \in S : c # b => Past(h3, c) = Past(h, c)
  <2>1. End(h) \in Units /\ S \subseteq Units
    BY EndIn, TileFacts
  <2>2. rest \notin S \cup {End(h)}
    <3>1. \A c \in S : ~(b < c /\ c < next)
      BY <1>1 DEF Tiles, next
    <3> QED BY <3>1, <1>1, <1>2
  <2>3. \A c \in S \cup {End(h)} : c # b => h3.head[c] = h.head[c]
    BY <2>1, <2>2, <1>8
  <2>4. w.size = rest - b /\ v.size = next - rest /\ rest \in Int
    BY <1>1, <1>2, <1>3 DEF rest
  <2>5. /\ Tiles(h3, R) /\ rest \notin S \cup {End(h)}
        /\ Past(h3, b) = rest /\ Past(h3, rest) = next
        /\ \A c \in S : c # b => Past(h3, c) = Past(h, c)
    <3> HIDE DEF rest
    <3>1. rest \in Int /\ rest >= b + 2 /\ rest + 2 <= Past(h, b)
      BY <1>2 DEF next
    <3>2. /\ h3.head[b] \in Headers /\ h3.head[b].size = rest - b
          /\ h3.head[rest] \in Headers /\ h3.head[rest].size = Past(h, b) - rest
      BY <2>4, <1>3, <1>8 DEF next
    <3>3. b + 2 <= rest
      BY <3>1, <1>1
    <3> HIDE DEF R
    <3>4. R = S \cup {rest} /\ h3 \in Heaps /\ h3.pages = h.pages /\ b \in S
      BY <1>1, <1>7 DEF R
    <3> QED BY <2>3, <3>1, <3>2, <3>3, <3>4, SplitTiles DEF next
  <2> QED BY <2>5
<1>10. ASSUME NEW c \in S, c # b
       PROVE  /\ h3.head[c] = h.head[c] /\ Past(h3, c) = Past(h, c) /\ c \in Units
              /\ Past(h, c) # rest /\ Past(h, c) # next
              /\ Past(h, c) # b => h3.head[Past(h, c)] = h.head[Past(h, c)]
              /\ h3.foot[Past(h, c) - 1] = h.foot[Past(h, c) - 1]
  <2>1. c \in Units /\ Past(h, c) \in Units /\ Past(h, c) - 1 \in Units /\ Past(h, c) \in Nat
    BY TileFacts
  <2>2. Past(h, c) \in S \cup {End(h)}
    BY DEF Tiles
  <2>3. Past(h, c) # next
    BY <1>1, <1>10, NoOverlap DEF next
  <2>4. Past(h, c) - 1 # next - 1
    BY <2>1, <2>3, <1>1
  <2> QED BY <2>1, <2>2, <2>3, <2>4, <1>7, <1>8, <1>9, <1>10
<1>11. Bits(h3, R, rest)
  <2>1. h3.head[2].prev
    <3>1. 2 \in S /\ h.head[2].prev
      BY DEF Tiles, Bits
    <3>2. CASE b = 2
      BY <3>1, <3>2, <1>3, <1>8
    <3>3. CASE b # 2
      BY <3>1, <3>3, <1>10
    <3> QED BY <3>2, <3>3
  <2>2. ASSUME NEW c \in S
        PROVE  /\ h3.head[Past(h3, c)].prev <=> h3.head[c].alloc
               /\ ~h3.head[c].alloc =>
                    /\ h3.foot[Past(h3, c) - 1] = h3.head[c]
                    /\ Past(h3, c) = rest \/ h3.head[Past(h3, c)].alloc
    <3>1. CASE c = b
      BY <3>1, <1>3, <1>8, <1>9
    <3>2. CASE c # b
      <4>1. /\ h.head[Past(h, c)].prev <=> h.head[c].alloc
            /\ ~h.head[c].alloc => /\ h.foot[Past(h, c) - 1] = h.head[c]
                                   /\ Past(h, c) = b \/ h.head[Past(h, c)].alloc
        BY <3>2 DEF Bits
      <4>2. CASE Past(h, c) = b
        BY <4>1, <4>2, <3>2, <1>10, <1>8, <1>3
      <4>3. CASE Past(h, c) # b
        BY <4>1, <4>3, <3>2, <1>10
      <4> QED BY <4>2, <4>3
    <3> QED BY <3>1, <3>2
  <2> QED BY <2>1, <2>2 DEF Bits
<1>12. Listed(h3, R, V)
  <2> SUFFICES ASSUME NEW c \in Lists
               PROVE  /\ IsInjective(h3.list[c])
                      /\ Range(h3.list[c]) =
                           {x \in R \ V : ~h3.head[x].alloc /\ InList(h3, c, x)}
    BY DEF Listed
  <2>1. /\ IsInjective(h.list[c])
        /\ Range(h.list[c]) = {x \in S \ U : ~h.head[x].alloc /\ InList(h, c, x)}
    BY DEF Listed
  <2>2. ASSUME NEW x \in S, x # b
        PROVE  h3.head[x] = h.head[x] /\ (InList(h3, c, x) <=> InList(h, c, x))
    BY <2>2, <1>7, <1>10, SameInList
  <2>3. h3.head[b].alloc
    BY <1>3, <1>8
  <2>4. {x \in R \ V : ~h3.head[x].alloc /\ InList(h3, c, x)} =
          {x \in S \ U : ~h.head[x].alloc /\ InList(h, c, x)}
    <3>1. ASSUME NEW x \in S
          PROVE  (x \notin V /\ ~h3.head[x].alloc /\ InList(h3, c, x)) <=>
                   (x \notin U /\ ~h.head[x].alloc /\ InList(h, c, x))
      BY <2>2, <2>3, <1>9
    <3> QED BY <3>1
  <2>5. h3.list[c] = h.list[c]
    BY <1>7
  <2> QED BY <2>1, <2>4, <2>5
<1>13. FeetFree(h) => FeetFree(h3)
  BY <1>1, <1>3, <1>7 DEF FeetFree
<1>14. PICK T, s : Joined(h3, R, V, rest, g, T, s)
  <2>1. \A c \in R : Past(h3, c) = rest /\ ~h3.head[c].alloc => c \notin V
    <3>1. \A c \in R : Past(h3, c) = rest => c = b
      BY <1>1, <1>7, <1>9, NoOverlap
    <3> QED BY <3>1, <1>3, <1>8
  <2>2. Past(h3, rest) \in V => h3.head[Past(h3, rest)].alloc
    <3>1. next # rest /\ next # b
      BY <1>1, <1>2
    <3> QED BY <3>1, <1>1, <1>8, <1>9 DEF next
  <2>3. h3 \in Heaps /\ h3.pages > 0 /\ rest \in R /\ rest \in V
    BY <1>7
  <2>4. \E T, s : Joined(h3, R, V, rest, AddToFreeList(h3, rest), T, s)
    <3> HIDE DEF R, V, g
    <3> QED BY <2>1, <2>2, <2>3, <1>9, <1>11, <1>12, Added
  <2> QED BY <2>4, <1>4
<1> HIDE DEF g
<1>15. s = rest
  BY <1>3, <1>8, <1>14 DEF Joined
<1>16. /\ g \in Heaps /\ g.pages = h.pages
       /\ Tiles(g, T) /\ Bits(g, T, NULL) /\ (FeetFree(h) => FeetFree(g))
  BY <1>7, <1>13, <1>14 DEF Joined
<1>17. Listed(g, T, U \ {b})
  <2>1. V \ {rest} = U \ {b}
    BY <1>9
  <2> QED BY <2>1, <1>14 DEF Joined
<1>18. \A c \in R : c \notin T => (c = rest \/ ~h3.head[c].alloc) /\ (c = rest \/ c = next)
  BY <1>9, <1>14 DEF Joined
<1>19. rest \in T /\ ~g.head[rest].alloc
  BY <1>14, <1>15 DEF Joined
<1>20. b \in T
  BY <1>1, <1>3, <1>8, <1>18
<1>21. \A c \in T : c # rest => SameBlock(h3, g, c)
  BY <1>14, <1>15 DEF Joined
<1>22. /\ g.head[b].size = size /\ g.head[b].alloc /\ Past(g, b) = rest
       /\ \A u \in b..(rest - 1) : g.foot[u] = h3.foot[u] /\ (u > b => g.head[u] = h3.head[u])
  <2>1. SameBlock(h3, g, b)
    BY <1>8, <1>20, <1>21
  <2>2. g.head[b].size = size /\ g.head[b].alloc
    BY <2>1, <1>3, <1>8 DEF SameBlock
  <2>3. Past(g, b) = rest
    BY <2>2 DEF Past, rest
  <2> QED BY <2>1, <2>2, <2>3, <1>9 DEF SameBlock
<1>23. \A u \in b..(rest - 1) : g.foot[u] = h.foot[u] /\ (u > b => g.head[u] = h.head[u])
  <2>1. \A u \in b..(rest - 1) : u \in Units /\ u # rest /\ u # next - 1
    BY SMTT(30), <1>1, <1>2, Numbers
  <2>2. \A u \in b..(rest - 1) : h3.foot[u] = h.foot[u] /\ (u > b => h3.head[u] = h.head[u])
    BY <2>1, <1>1, <1>7, <1>8
  <2> QED BY <2>2, <1>22
<1>24. \A c \in S : c \notin T => c = next /\ ~h.head[c].alloc
  BY <1>9, <1>10, <1>18, <1>20
<1>25. \A c \in T : c \notin S => ~g.head[c].alloc
  <2>1. T \subseteq R
    BY <1>14 DEF Joined
  <2> QED BY <2>1, <1>19
<1>26. ASSUME NEW c \in S, c \in T, c # b PROVE SameBlock(h, g, c)
  <2>1. SameBlock(h3, g, c)
    BY <1>9, <1>21, <1>26
  <2>2. SameBlock(h, h3, c)
    <3>1. h3.head[c] = h.head[c]
      BY <1>10, <1>26
    <3>2. ASSUME NEW u \in c..(Past(h, c) - 1)
          PROVE  h3.foot[u] = h.foot[u] /\ (u > c => h3.head[u] = h.head[u])
      <4>1. /\ c \in Nat /\ u \in Units /\ u \in Nat /\ u < Past(h, c) /\ u >= c
            /\ Past(h, c) \in Nat
        <5>1. c \in Nat /\ Past(h, c) \in Nat /\ Past(h, c) <= End(h) /\ End(h) < NUnits
              /\ End(h) \in Nat
          BY TileFacts, EndIn
        <5> QED BY <5>1, Numbers
      <4>2. /\ b < c => next <= c
            /\ c < b => Past(h, c) <= b
        BY <1>1, NoOverlap DEF next
      <4>3. u # next - 1 /\ u # b /\ u # rest
        BY <4>1, <4>2, <1>1, <1>2, <1>26
      <4> QED BY <4>1, <4>3, <1>7, <1>8
    <3> QED BY <3>1, <3>2 DEF SameBlock
  <2> QED BY <2>1, <2>2, SameTwice
<1>27. Allotted(h, S, U, b, size, g, T)
  <2>1. size <= g.head[b].size /\ g.head[b].size <= h.head[b].size
    BY <1>1, <1>22
  <2>2. \A u \in b..(Past(g, b) - 1) :
          g.foot[u] = h.foot[u] /\ (u > b => g.head[u] = h.head[u])
    BY <1>22, <1>23
  <2>3. \A c \in S : c \notin T => c = Past(h, b) /\ ~h.head[c].alloc
    BY <1>24 DEF next
  <2>4. \A c \in S : c \in T /\ c # b => SameBlock(h, g, c)
    BY <1>26
  <2>5. g.head[b].alloc
    BY <1>22
  <2> QED
    BY <2>1, <2>2, <2>3, <2>4, <2>5, <1>16, <1>17, <1>20, <1>25, Zenon DEF Allotted
<1> QED BY <1>27 DEF g

(* sf_allocate_block.                                                      *)
LEMMA AllocatedIs ==
  ASSUME NEW h \in Heaps, h.pages > 0, NEW S, NEW U \in SUBSET S, NEW b \in U,
         Tiles(h, S), Bits(h, S, b), Listed(h, S, U), NEW size \in Nat, size >= MinUnits,
         Past(h, b) \in U => h.head[Past(h, b)].alloc,
         h.head[Past(h, b)].alloc \/ h.head[Past(h, b)].prev,
         size <= h.head[b].size
  PROVE  \E T : Allotted(h, S, U, b, size, AllocateBlock(h, b, size), T)
<1>1. h.head[b].size \in Nat /\ b \in S
  BY TileFacts
<1>2. CASE h.head[b].size - size >= MinUnits
  BY <1>2, AllottedSplit
<1>3. CASE h.head[b].size - size < MinUnits
  BY <1>1, <1>3, AllottedWhole
<1> QED BY <1>1, <1>2, <1>3 DEF MinUnits

(* The quotient and the remainder.                                         *)
LEMMA Division ==
  ASSUME NEW x \in Int, NEW a \in Nat, a > 0
  PROVE  /\ x % a \in 0..(a - 1) /\ x \div a \in Int
         /\ x = a * (x \div a) + (x % a)
OBVIOUS

(* A multiple has no remainder.                                            *)
LEMMA Multiple ==
  ASSUME NEW k \in Int, NEW a \in Nat, a > 0
  PROVE  (a * k) % a = 0
OBVIOUS

(* The padding leads to the alignment and has room for a block.            *)
LEMMA PaddingIs ==
  ASSUME NEW b \in Nat, NEW align \in Nat, align > 0
  PROVE  /\ Padding(b, align) \in Nat
         /\ Padding(b, align) = 0 \/ Padding(b, align) >= 2
         /\ (b + Padding(b, align) + 1) % align = 0
<1> DEFINE x == b + 1
           r == x % align
           k == x \div align
           pad == (align - r) % align
<1>1. r \in 0..(align - 1) /\ k \in Int /\ x = align * k + r /\ x \in Nat
  BY Division
<1>2. pad = IF r = 0 THEN 0 ELSE align - r
  <2>1. CASE r = 0
    BY <2>1
  <2>2. CASE r # 0
    <3>1. align - r \in 1..(align - 1)
      BY <2>2, <1>1
    <3> HIDE DEF r
    <3>2. \A y \in 1..(align - 1) : y % align = y
      OBVIOUS
    <3> QED BY <3>1, <3>2, <2>2
  <2> QED BY <2>1, <2>2
<1>3. Padding(b, align) = IF pad > 0 /\ pad < 2 THEN pad + align ELSE pad
  BY DEF Padding, MinUnits
<1>4. \E j \in Int : x + Padding(b, align) = align * j
  <2>1. CASE r = 0
    <3>1. x + Padding(b, align) = align * k
      BY <2>1, <1>1, <1>2, <1>3
    <3> QED BY <3>1, <1>1
  <2>2. CASE r # 0
    <3>1. align * (k + 1) = align * k + align /\ align * (k + 2) = align * k + align + align
      <4> HIDE DEF k
      <4> QED BY <1>1
    <3>2. \/ x + Padding(b, align) = align * (k + 1)
          \/ x + Padding(b, align) = align * (k + 2)
      <4> HIDE DEF k, r, x
      <4>1. align * k \in Int
        BY <1>1
      <4> HIDE DEF pad
      <4>2. pad = align - r /\ pad > 0 /\ x = align * k + r /\ r \in Int /\ align \in Int
        BY <2>2, <1>1, <1>2
      <4>3. Padding(b, align) = pad \/ Padding(b, align) = pad + align
        BY <1>3
      <4> QED BY <4>1, <4>2, <4>3, <3>1
    <3>3. k + 1 \in Int /\ k + 2 \in Int
      BY <1>1
    <3> HIDE DEF x
    <3> QED BY <3>2, <3>3
  <2> QED BY <2>1, <2>2
<1>5. PICK j \in Int : x + Padding(b, align) = align * j
  BY <1>4
<1>6. (x + Padding(b, align)) % align = 0
  <2>1. (align * j) % align = 0
    BY Multiple
  <2> QED BY <2>1, <1>5
<1>7. Padding(b, align) \in Nat /\ (Padding(b, align) = 0 \/ Padding(b, align) >= 2)
  <2> HIDE DEF r
  <2> QED BY <1>1, <1>2, <1>3
<1>8. b + Padding(b, align) + 1 = x + Padding(b, align)
  BY <1>7
<1> QED BY <1>6, <1>7, <1>8

(* Without overflow a block has room for the header and what was asked for. *)
LEMMA ActualIs ==
  ASSUME NEW n \in Nat
  PROVE  /\ Actual(n) \in Nat /\ Actual(n) >= MinUnits
         /\ n + 23 < SizeLimit => n <= 16 * Actual(n) - 8
<1> DEFINE bytes == (8 + n) % SizeLimit
           q == (bytes + 15) \div 16
           units == ((q * 16) % SizeLimit) \div 16
<1>1. Actual(n) = IF units < 2 THEN 2 ELSE units
  BY DEF Actual, MinUnits
<1>2. SizeLimit \in Nat /\ SizeLimit > 0
  BY SfmmNumbers
<1>3. bytes \in Nat
  BY <1>2, Division
<1>4. q \in Nat
  <2> HIDE DEF bytes
  <2> QED BY <1>3
<1>5. (q * 16) % SizeLimit \in Nat
  <2> HIDE DEF q
  <2>1. q * 16 \in Int
    BY <1>4
  <2> QED BY <2>1, <1>2, Division
<1>6. units \in Nat
  <2> DEFINE z == (q * 16) % SizeLimit
  <2> HIDE DEF z
  <2>1. z \div 16 \in Nat
    BY <1>5 DEF z
  <2> QED BY <2>1 DEF z
<1>7. ASSUME n + 23 < SizeLimit PROVE n <= 16 * units - 8
  <2>1. \A y, l \in Nat : y < l => y % l = y
    OBVIOUS
  <2>2. bytes = 8 + n
    BY <2>1, <1>2, <1>7
  <2>3. q * 16 >= n + 8 /\ q * 16 < SizeLimit /\ q * 16 \in Nat
    <3>1. q = (8 + n + 15) \div 16
      BY <2>2
    <3>2. 8 + n + 15 = 16 * q + ((8 + n + 15) % 16) /\ (8 + n + 15) % 16 \in 0..15
      BY <3>1, Division
    <3> HIDE DEF q
    <3> QED BY <3>2, <1>2, <1>4, <1>7
  <2> HIDE DEF q
  <2>4. (q * 16) % SizeLimit = q * 16
    BY <2>1, <2>3, <1>2
  <2>5. units = q
    BY <2>4, <1>4
  <2> QED BY <2>3, <2>5, <1>4
<1> QED
  <2> HIDE DEF units
  <2> QED BY <1>1, <1>6, <1>7 DEF MinUnits

(* A heap between two calls, and its allocated blocks.                     *)
Sound(h, S) ==
  /\ h \in Heaps /\ h.pages > 0
  /\ Tiles(h, S) /\ Bits(h, S, NULL) /\ Listed(h, S, {})

Held(h, S) == {b \in S : h.head[b].alloc}

(* The heap g is h with block p given out, of at least size units.         *)
GivenOut(h, S, p, size, align, g, T) ==
  /\ Sound(g, T)
  /\ FeetFree(h) => FeetFree(g)
  /\ p \notin Held(h, S) /\ Held(g, T) = Held(h, S) \cup {p}
  /\ size <= g.head[p].size /\ (p + 1) % align = 0
  /\ \A c \in Held(h, S) : SameBlock(h, g, c)

(* Between calls the bits are right for every block.                       *)
LEMMA SoundBits ==
  ASSUME NEW h, NEW S, Sound(h, S), NEW b
  PROVE  Bits(h, S, b)
<1>1. \A c \in S : Past(h, c) # NULL /\ c # NULL
  BY TileFacts DEF Sound, NULL
<1> QED BY <1>1 DEF Sound, Bits

(* Block b leaves its list before it is given out.                         *)
LEMMA Unlisted ==
  ASSUME NEW h, NEW S, Sound(h, S), NEW b \in S, NEW g, g = Unlink(h, b)
  PROVE  /\ g \in Heaps /\ g.pages = h.pages /\ g.head = h.head /\ g.foot = h.foot
         /\ Tiles(g, S) /\ Bits(g, S, b) /\ Listed(g, S, {b})
<1>1. /\ g \in Heaps /\ g.pages = h.pages /\ g.head = h.head /\ g.foot = h.foot
      /\ \A c \in Lists : /\ IsInjective(g.list[c])
                          /\ Range(g.list[c]) = Range(h.list[c]) \ {b}
  BY UnlinkIs DEF Sound, Listed
<1>2. End(g) = End(h) /\ \A c : Past(g, c) = Past(h, c)
  BY <1>1 DEF End, Past
<1>3. Tiles(g, S)
  BY <1>1, <1>2 DEF Sound, Tiles
<1>4. Bits(g, S, b)
  <2>1. Bits(h, S, b)
    BY SoundBits
  <2> QED BY <2>1, <1>1, <1>2 DEF Bits
<1>5. Listed(g, S, {b})
  <2>1. ASSUME NEW c \in Lists, NEW x
        PROVE  InList(g, c, x) <=> InList(h, c, x)
    BY <1>1, SameInList
  <2>2. ASSUME NEW c \in Lists
        PROVE  Range(g.list[c]) = {x \in S \ {b} : ~g.head[x].alloc /\ InList(g, c, x)}
    <3>1. Range(h.list[c]) = {x \in S : ~h.head[x].alloc /\ InList(h, c, x)}
      BY DEF Sound, Listed
    <3> QED BY <3>1, <2>1, <1>1
  <2> QED BY <2>2, <1>1 DEF Listed
<1> QED BY <1>1, <1>2, <1>3, <1>4, <1>5

(* A free block that fits is given out from its start.                     *)
LEMMA TakenWhole ==
  ASSUME NEW h, NEW S, Sound(h, S), NEW b \in S, ~h.head[b].alloc,
         NEW size \in Nat, size >= MinUnits, size <= h.head[b].size,
         NEW align, (b + 1) % align = 0
  PROVE  \E T : GivenOut(h, S, b, size, align, AllocateBlock(Unlink(h, b), b, size), T)
<1> DEFINE h1 == Unlink(h, b)
           g == AllocateBlock(h1, b, size)
<1>1. /\ h1 \in Heaps /\ h1.pages = h.pages /\ h1.head = h.head /\ h1.foot = h.foot
      /\ Tiles(h1, S) /\ Bits(h1, S, b) /\ Listed(h1, S, {b})
  <2>1. h1 = Unlink(h, b)
    OBVIOUS
  <2> HIDE DEF h1
  <2> QED BY <2>1, Unlisted
<1> HIDE DEF h1
<1>2. h \in Heaps /\ h.pages > 0 /\ Tiles(h, S) /\ Bits(h, S, NULL)
  BY DEF Sound
<1>3. b \in Nat /\ Past(h, b) \in Nat /\ Past(h, b) > b
  BY <1>2, TileFacts
<1>4. h.head[Past(h, b)].alloc
  <2>1. b # NULL /\ Past(h, b) # NULL
    BY <1>3 DEF NULL
  <2> QED BY <2>1, <1>2 DEF Bits
<1>5. PICK T : Allotted(h1, S, {b}, b, size, g, T)
  <2>1. /\ {b} \in SUBSET S /\ b \in {b}
        /\ Past(h1, b) \in {b} => h1.head[Past(h1, b)].alloc
        /\ h1.head[Past(h1, b)].alloc \/ h1.head[Past(h1, b)].prev
        /\ size <= h1.head[b].size /\ h1.pages > 0
    BY <1>1, <1>2, <1>4 DEF Past
  <2> QED BY <2>1, <1>1, AllocatedIs
<1> HIDE DEF g
<1>6. Sound(g, T) /\ g.pages = h.pages
  <2>1. {b} \ {b} = {}
    OBVIOUS
  <2> QED BY <2>1, <1>1, <1>2, <1>5 DEF Allotted, Sound
<1>7. FeetFree(h) => FeetFree(g)
  BY <1>1, <1>5 DEF Allotted, FeetFree
<1>8. b \in T /\ g.head[b].alloc /\ size <= g.head[b].size
  BY <1>5 DEF Allotted
<1>9. ASSUME NEW c \in Held(h, S)
      PROVE  c \in T /\ c # b /\ SameBlock(h, g, c) /\ g.head[c].alloc
  <2>1. c \in S /\ h.head[c].alloc /\ c # b
    BY DEF Held
  <2>2. c \in T
    BY <2>1, <1>1, <1>5 DEF Allotted
  <2>3. SameBlock(h1, g, c)
    BY <2>1, <2>2, <1>5 DEF Allotted
  <2>4. SameBlock(h, g, c)
    BY <2>3, <1>1 DEF SameBlock, Past
  <2> QED BY <2>1, <2>2, <2>4 DEF SameBlock
<1>10. ASSUME NEW c \in T, g.head[c].alloc, c # b
       PROVE  c \in Held(h, S)
  <2>1. c \in S
    BY <1>5, <1>10 DEF Allotted
  <2>2. SameBlock(h1, g, c)
    BY <2>1, <1>5, <1>10 DEF Allotted
  <2> QED BY <2>1, <2>2, <1>1, <1>10 DEF SameBlock, Held
<1>11. b \notin Held(h, S) /\ Held(g, T) = Held(h, S) \cup {b}
  <2>1. b \notin Held(h, S)
    BY DEF Held
  <2>2. \A c : c \in Held(g, T) <=> c \in Held(h, S) \cup {b}
    BY <1>8, <1>9, <1>10 DEF Held
  <2> QED BY <2>1, <2>2
<1>12. GivenOut(h, S, b, size, align, g, T)
  BY <1>6, <1>7, <1>8, <1>9, <1>11 DEF GivenOut
<1> QED BY <1>12 DEF g, h1

(* A heap whose free block b was cut in two at p, both in no list.         *)
Cut(h, S, b, p, g) ==
  /\ g \in Heaps /\ g.pages = h.pages
  /\ Tiles(g, S \cup {p}) /\ Bits(g, S \cup {p}, p) /\ Listed(g, S \cup {p}, {b, p})
  /\ FeetFree(h) => FeetFree(g)
  /\ p \notin S /\ p > b /\ p \in Nat
  /\ ~g.head[b].alloc /\ Past(g, b) = p
  /\ ~g.head[p].alloc /\ Past(g, p) = Past(h, b) /\ g.head[Past(g, p)].alloc
  /\ g.head[p].size = Past(h, b) - p
  /\ \A c \in S : c # b => SameBlock(h, g, c) /\ Past(g, c) # p

(* The heap with the headers of the two parts.                             *)
CutAt(h, b, pad) ==
  LET h2 == PutHead(h, b + pad, FreeHead(h.head[b].size - pad, FALSE))
  IN  PutFoot(PutHead(h2, b, FreeHead(pad, h.head[b].prev)), b)

(* The padding is a free block of its own, still in no list.               *)
LEMMA CutIs ==
  ASSUME NEW h, NEW S, Sound(h, S), NEW b \in S, ~h.head[b].alloc,
         NEW pad \in Nat, pad >= 2, pad + 2 <= h.head[b].size
  PROVE  Cut(h, S, b, b + pad, CutAt(Unlink(h, b), b, pad))
<1> DEFINE p == b + pad
           next == Past(h, b)
           h1 == Unlink(h, b)
           w == FreeHead(pad, h.head[b].prev)
           v == FreeHead(h.head[b].size - pad, FALSE)
           h2 == PutHead(h1, p, v)
           h3 == PutHead(h2, b, w)
           g  == PutFoot(h3, b)
           R == S \cup {p}
<1>1. h \in Heaps /\ h.pages > 0 /\ Tiles(h, S) /\ Bits(h, S, NULL)
  BY DEF Sound
<1>2. /\ h1 \in Heaps /\ h1.pages = h.pages /\ h1.head = h.head /\ h1.foot = h.foot
      /\ Tiles(h1, S) /\ Bits(h1, S, b) /\ Listed(h1, S, {b})
  <2>1. h1 = Unlink(h, b)
    OBVIOUS
  <2> HIDE DEF h1
  <2> QED BY <2>1, Unlisted
<1>3. CutAt(h1, b, pad) = g
  BY <1>2 DEF CutAt
<1> HIDE DEF h1
<1>4. /\ b \in Units /\ b \in Nat /\ b >= 2 /\ h.head[b] \in Headers /\ h.head[b].size \in Nat
      /\ h.head[b].prev \in BOOLEAN /\ h.head[b].size <= NUnits
      /\ next \in Units /\ next \in Nat /\ h.head[next] \in Headers /\ next = b + h.head[b].size
      /\ next <= End(h) /\ next - 1 \in Units /\ End(h) \in Units /\ End(h) < NUnits
      /\ End(h) \in Nat
  BY <1>1, TileFacts, EndIn, Numbers DEF Past
<1>5. /\ p \in Units /\ p \in Nat /\ p >= b + 2 /\ p + 2 <= next /\ p - 1 \in Units /\ p > b
  BY SMTT(30), <1>4, Numbers
<1>6. /\ w \in Headers /\ w \in Words /\ w.size = pad /\ ~w.alloc /\ w.prev = h.head[b].prev
      /\ v \in Headers /\ v \in Words /\ v.size = h.head[b].size - pad /\ ~v.alloc /\ ~v.prev
  <2>1. /\ w.size = pad /\ ~w.alloc /\ w.prev = h.head[b].prev
        /\ pad \in 0..NUnits => w \in Headers
    BY <1>4, FreeHeadIs
  <2>2. /\ v.size = h.head[b].size - pad /\ ~v.alloc /\ ~v.prev
        /\ h.head[b].size - pad \in 0..NUnits => v \in Headers
    BY <1>4, FreeHeadIs
  <2>3. pad \in 0..NUnits /\ h.head[b].size - pad \in 0..NUnits
    <3>1. \A m, n, k \in Nat : m + 2 <= n /\ n <= k => m \in 0..k /\ n - m \in 0..k
      OBVIOUS
    <3>2. NUnits \in Nat
      BY Numbers
    <3> QED BY <3>1, <3>2, <1>4
  <2> HIDE DEF w, v
  <2> QED BY <2>1, <2>2, <2>3, WordFacts
<1> HIDE DEF w, v, next
<1>7. /\ h2 \in Heaps /\ h2.pages = h.pages /\ h2.foot = h.foot /\ h2.list = h1.list
      /\ \A u \in Units : h2.head[u] = IF u = p THEN v ELSE h.head[u]
  <2> HIDE DEF p
  <2>1. h1 \in Heaps /\ p \in Units /\ v \in Words
    BY <1>2, <1>5, <1>6
  <2>2. /\ h2 \in Heaps /\ h2.pages = h1.pages /\ h2.foot = h1.foot /\ h2.list = h1.list
        /\ \A u \in Units : h2.head[u] = IF u = p THEN v ELSE h1.head[u]
    BY <2>1, PutHeadIs
  <2> QED BY <2>2, <1>2
<1> HIDE DEF h2
<1>8. /\ h3 \in Heaps /\ h3.pages = h.pages /\ h3.foot = h.foot /\ h3.list = h1.list
      /\ \A u \in Units : h3.head[u] = IF u = b THEN w ELSE IF u = p THEN v ELSE h.head[u]
  <2> HIDE DEF p
  <2>1. /\ h3 \in Heaps /\ h3.pages = h2.pages /\ h3.foot = h2.foot /\ h3.list = h2.list
        /\ \A u \in Units : h3.head[u] = IF u = b THEN w ELSE h2.head[u]
    BY <1>4, <1>6, <1>7, PutHeadIs
  <2> QED BY <2>1, <1>7
<1> HIDE DEF h3
<1>9. /\ g \in Heaps /\ g.pages = h.pages /\ g.head = h3.head /\ g.list = h1.list
      /\ \A u \in Units : g.foot[u] = IF u = p - 1 THEN w ELSE h.foot[u]
  <2>1. h3.head[b] = w
    BY <1>4, <1>8
  <2>2. Past(h3, b) = p
    BY <2>1, <1>6 DEF Past
  <2> HIDE DEF p
  <2>3. /\ g \in Heaps /\ g.pages = h3.pages /\ g.head = h3.head /\ g.list = h3.list
        /\ \A u \in Units : g.foot[u] = IF u = p - 1 THEN h3.head[b] ELSE h3.foot[u]
    <3>1. h3.head[b].size \in Nat
      BY <2>1, <1>6
    <3>2. p - 1 \in Units /\ p - 1 = Past(h3, b) - 1 /\ b \in Units /\ h3 \in Heaps
      BY <2>2, <1>4, <1>5, <1>8
    <3> QED BY <3>1, <3>2, PutFootIs
  <2> QED BY <2>1, <2>3, <1>8
<1> HIDE DEF g, p
<1>10. /\ g.head[b] = w /\ g.head[p] = v /\ b # p
       /\ \A u \in Units : u # b /\ u # p => g.head[u] = h.head[u]
  <2>1. b # p
    BY <1>4, <1>5
  <2> QED BY <2>1, <1>4, <1>5, <1>8, <1>9
<1>11. p \notin S \cup {End(h)} /\ S \subseteq Units
  <2>1. \A c \in S : ~(b < c /\ c < next)
    BY <1>1 DEF Tiles, next
  <2>2. S \subseteq Units
    BY <1>1, TileFacts
  <2> QED BY <2>1, <2>2, <1>4, <1>5
<1>12. /\ Tiles(g, R) /\ Past(g, b) = p /\ Past(g, p) = next
       /\ \A c \in S : c # b => Past(g, c) = Past(h, c)
  <2>1. \A c \in S \cup {End(h)} : c # b => g.head[c] = h.head[c]
    BY <1>4, <1>10, <1>11
  <2>2. /\ g.head[b] \in Headers /\ g.head[b].size = p - b
        /\ g.head[p] \in Headers /\ g.head[p].size = next - p
    <3>1. pad = p - b /\ h.head[b].size - pad = next - p
      BY <1>4 DEF p
    <3> QED BY <3>1, <1>6, <1>10
  <2>3. b + 2 <= p /\ p + 2 <= Past(h, b) /\ p \in Int
    BY <1>4, <1>5 DEF next
  <2> HIDE DEF R
  <2>4. R = S \cup {p}
    BY DEF R
  <2>5. g \in Heaps /\ g.pages = h.pages
    BY <1>9
  <2>6. g.head[p].size = Past(h, b) - p
    BY <2>2 DEF next
  <2> QED BY SMTT(30), <2>1, <2>2, <2>3, <2>4, <2>5, <2>6, <1>1, SplitTiles DEF next
<1>13. ASSUME NEW c \in S, c # b
       PROVE  /\ g.head[c] = h.head[c] /\ Past(g, c) = Past(h, c) /\ c \in Units
              /\ Past(h, c) # p
              /\ Past(h, c) # b => g.head[Past(h, c)] = h.head[Past(h, c)]
              /\ g.foot[Past(h, c) - 1] = h.foot[Past(h, c) - 1]
  <2>1. c \in Units /\ Past(h, c) \in Units /\ Past(h, c) - 1 \in Units /\ Past(h, c) \in Nat
    BY <1>1, TileFacts
  <2>2. Past(h, c) \in S \cup {End(h)}
    BY <1>1 DEF Tiles
  <2>3. Past(h, c) # p
    BY <2>2, <1>11
  <2>4. Past(h, c) - 1 # p - 1
    BY <2>1, <2>3, <1>5
  <2> QED BY <2>1, <2>3, <2>4, <1>9, <1>10, <1>11, <1>12, <1>13
<1>14. Bits(g, R, p)
  <2>1. g.head[2].prev
    <3>1. 2 \in S /\ h.head[2].prev
      BY <1>1 DEF Tiles, Bits
    <3>2. CASE b = 2
      BY <3>1, <3>2, <1>6, <1>10
    <3>3. CASE b # 2
      BY <3>1, <3>3, <1>13
    <3> QED BY <3>2, <3>3
  <2>2. ASSUME NEW c \in S
        PROVE  /\ g.head[Past(g, c)].prev <=> g.head[c].alloc
               /\ ~g.head[c].alloc =>
                    /\ g.foot[Past(g, c) - 1] = g.head[c]
                    /\ Past(g, c) = p \/ g.head[Past(g, c)].alloc
    <3>1. CASE c = b
      <4>1. g.foot[p - 1] = w
        BY <1>5, <1>9
      <4> QED BY <4>1, <3>1, <1>6, <1>10, <1>12
    <3>2. CASE c # b
      <4>1. /\ h.head[Past(h, c)].prev <=> h.head[c].alloc
            /\ ~h.head[c].alloc => /\ h.foot[Past(h, c) - 1] = h.head[c]
                                   /\ Past(h, c) = b \/ h.head[Past(h, c)].alloc
        <5>1. Bits(h, S, b)
          BY SoundBits
        <5> QED BY <3>2, <5>1 DEF Bits
      <4>2. CASE Past(h, c) = b
        <5>1. h.head[c].alloc
          BY <4>2, <1>1, <1>13, <3>2, TileFacts DEF Bits, NULL
        <5> QED BY <4>1, <4>2, <5>1, <3>2, <1>13, <1>10, <1>6
      <4>3. CASE Past(h, c) # b
        BY <4>1, <4>3, <3>2, <1>13
      <4> QED BY <4>2, <4>3
    <3> QED BY <3>1, <3>2
  <2> QED BY <2>1, <2>2 DEF Bits
<1>15. Listed(g, R, {b, p})
  <2> SUFFICES ASSUME NEW c \in Lists
               PROVE  /\ IsInjective(g.list[c])
                      /\ Range(g.list[c]) =
                           {x \in R \ {b, p} : ~g.head[x].alloc /\ InList(g, c, x)}
    BY DEF Listed
  <2>1. /\ IsInjective(h1.list[c])
        /\ Range(h1.list[c]) = {x \in S \ {b} : ~h.head[x].alloc /\ InList(h1, c, x)}
    BY <1>2 DEF Listed
  <2>2. ASSUME NEW x \in S, x # b
        PROVE  g.head[x] = h.head[x] /\ (InList(g, c, x) <=> InList(h1, c, x))
    <3>1. g.head[x].size = h1.head[x].size /\ g.pages = h1.pages
      BY <2>2, <1>2, <1>9, <1>13
    <3> QED BY <2>2, <3>1, <1>13, SameInList
  <2>3. {x \in R \ {b, p} : ~g.head[x].alloc /\ InList(g, c, x)} =
          {x \in S \ {b} : ~h.head[x].alloc /\ InList(h1, c, x)}
    BY <2>2, <1>11
  <2> QED BY <2>1, <2>3, <1>9
<1>16. FeetFree(h) => FeetFree(g)
  BY <1>6, <1>9 DEF FeetFree
<1>17. g.head[next].alloc
  <2>1. h.head[next].alloc
    BY <1>1, <1>4 DEF Bits, next, NULL
  <2>2. next # b /\ next # p
    BY <1>4, <1>5
  <2> QED BY <2>1, <2>2, <1>4, <1>10
<1>18. ASSUME NEW c \in S, c # b PROVE SameBlock(h, g, c) /\ Past(g, c) # p
  <2>1. ASSUME NEW u \in c..(Past(h, c) - 1)
        PROVE  g.foot[u] = h.foot[u] /\ (u > c => g.head[u] = h.head[u])
    <3>1. /\ c \in Nat /\ Past(h, c) \in Nat /\ Past(h, c) <= End(h)
      BY <1>1, TileFacts
    <3>2. u \in Units /\ u \in Nat /\ u < Past(h, c) /\ u >= c
      BY SMTT(30), <3>1, <1>4, Numbers
    <3>3. /\ b < c => next <= c
          /\ c < b => Past(h, c) <= b
      BY <1>1, NoOverlap DEF next
    <3>4. u # p - 1 /\ u # b /\ u # p
      BY <3>1, <3>2, <3>3, <1>4, <1>5, <1>18
    <3> QED BY <3>2, <3>4, <1>9, <1>10
  <2> QED BY <2>1, <1>13, <1>18 DEF SameBlock
<1>19. g.head[p].size = Past(h, b) - p
  BY <1>4, <1>6, <1>10 DEF next, p
<1>20. Cut(h, S, b, p, g)
  <2>1. ~g.head[b].alloc /\ ~g.head[p].alloc
    BY <1>6, <1>10
  <2> QED BY <2>1, <1>5, <1>9, <1>11, <1>12, <1>14, <1>15, <1>16, <1>17, <1>18, <1>19
    DEF Cut, next
<1> QED BY <1>3, <1>20 DEF h1, p

(* A free block that fits is given out after its padding.                  *)
LEMMA TakenPadded ==
  ASSUME NEW h, NEW S, Sound(h, S), NEW b \in S, ~h.head[b].alloc,
         NEW size \in Nat, size >= MinUnits,
         NEW pad \in Nat, pad >= 2, size + pad <= h.head[b].size,
         NEW align, (b + pad + 1) % align = 0
  PROVE  \E T : GivenOut(h, S, b + pad, size, align,
                   AddToFreeList(AllocateBlock(CutAt(Unlink(h, b), b, pad), b + pad, size), b), T)
<1> DEFINE p  == b + pad
           h3 == CutAt(Unlink(h, b), b, pad)
           g1 == AllocateBlock(h3, p, size)
           g  == AddToFreeList(g1, b)
           R  == S \cup {p}
<1>1. h \in Heaps /\ h.pages > 0 /\ Tiles(h, S)
  BY DEF Sound
<1>2. b \in Nat /\ h.head[b].size \in Nat /\ Past(h, b) = b + h.head[b].size
  BY <1>1, TileFacts DEF Past
<1>3. Cut(h, S, b, p, h3)
  BY <1>2, CutIs DEF MinUnits
<1> HIDE DEF h3
<1>4. /\ h3 \in Heaps /\ h3.pages = h.pages /\ h3.pages > 0
      /\ Tiles(h3, R) /\ Bits(h3, R, p) /\ Listed(h3, R, {b, p})
      /\ FeetFree(h) => FeetFree(h3)
      /\ p \notin S /\ p > b /\ p \in Nat
      /\ ~h3.head[b].alloc /\ Past(h3, b) = p
      /\ ~h3.head[p].alloc /\ Past(h3, p) = Past(h, b) /\ h3.head[Past(h3, p)].alloc
      /\ h3.head[p].size = Past(h, b) - p
  BY <1>1, <1>3 DEF Cut
<1>5. \A c \in S : c # b => SameBlock(h, h3, c) /\ Past(h3, c) # p
  BY <1>3 DEF Cut
<1>6. size <= h3.head[p].size
  BY <1>2, <1>4
<1> HIDE DEF p
<1>7. PICK T1 : Allotted(h3, R, {b, p}, p, size, g1, T1)
  <2>1. /\ {b, p} \in SUBSET R /\ p \in {b, p}
        /\ Past(h3, p) \in {b, p} => h3.head[Past(h3, p)].alloc
        /\ h3.head[Past(h3, p)].alloc \/ h3.head[Past(h3, p)].prev
    BY <1>4
  <2> HIDE DEF R
  <2> QED BY <2>1, <1>4, <1>6, AllocatedIs
<1> HIDE DEF g1
<1>8. /\ g1 \in Heaps /\ g1.pages = h.pages /\ g1.pages > 0
      /\ Tiles(g1, T1) /\ Bits(g1, T1, NULL) /\ Listed(g1, T1, {b})
      /\ FeetFree(h) => FeetFree(g1)
      /\ p \in T1 /\ g1.head[p].alloc /\ size <= g1.head[p].size
  <2>1. {b, p} \ {p} = {b}
    BY <1>4
  <2> QED BY <2>1, <1>1, <1>4, <1>7 DEF Allotted
<1>9. /\ \A c \in R : c \notin T1 => c = Past(h3, p) /\ ~h3.head[c].alloc
      /\ \A c \in T1 : c \notin R => ~g1.head[c].alloc
      /\ \A c \in R : c \in T1 /\ c # p => SameBlock(h3, g1, c)
  BY <1>7 DEF Allotted
<1>10. b \in T1 /\ SameBlock(h3, g1, b) /\ Past(g1, b) = p /\ ~g1.head[b].alloc
  <2>1. Past(h3, p) # b
    <3>1. Past(h3, p) \in Nat /\ Past(h3, p) > p
      BY <1>4, TileFacts
    <3> QED BY <3>1, <1>2, <1>4
  <2>2. b \in T1 /\ SameBlock(h3, g1, b)
    BY <2>1, <1>4, <1>9
  <2> QED BY <2>2, <1>4 DEF SameBlock, Past
<1>11. PICK T, s : Joined(g1, T1, {b}, b, g, T, s)
  <2>1. \A c \in T1 : Past(g1, c) = b /\ ~g1.head[c].alloc => c \notin {b}
    BY <1>4, <1>10
  <2>2. Past(g1, b) \in {b} => g1.head[Past(g1, b)].alloc
    BY <1>4, <1>10
  <2>3. b \in {b}
    OBVIOUS
  <2>4. Bits(g1, T1, b)
    <3>1. \A c \in T1 : c # NULL /\ Past(g1, c) # NULL
      BY <1>8, TileFacts DEF NULL
    <3> QED BY <3>1, <1>8 DEF Bits
  <2> QED BY <2>1, <2>2, <2>3, <2>4, <1>8, <1>10, Added
<1> HIDE DEF g
<1>12. Sound(g, T) /\ g.pages = h.pages
  <2>1. {b} \ {b} = {}
    OBVIOUS
  <2> QED BY <2>1, <1>1, <1>8, <1>11 DEF Joined, Sound
<1>13. FeetFree(h) => FeetFree(g)
  BY <1>8, <1>11 DEF Joined
<1>14. /\ T \subseteq T1 /\ s \in T /\ ~g.head[s].alloc
       /\ \A c \in T1 : c \notin T => c = b \/ ~g1.head[c].alloc
       /\ s # b => b \notin T /\ Past(g1, s) = b /\ ~g1.head[s].alloc
       /\ \A c \in T : c # s => SameBlock(g1, g, c)
  BY <1>11 DEF Joined
<1>15. p \in T /\ p # s /\ g.head[p].alloc /\ size <= g.head[p].size
  <2>1. p \in T /\ p # s
    BY <1>4, <1>8, <1>14
  <2> QED BY <2>1, <1>8, <1>14 DEF SameBlock
<1>16. ASSUME NEW c \in Held(h, S)
       PROVE  c \in T /\ c # p /\ SameBlock(h, g, c) /\ g.head[c].alloc
  <2>1. c \in S /\ h.head[c].alloc /\ c # b /\ c # p
    BY <1>4 DEF Held
  <2>2. SameBlock(h, h3, c) /\ h3.head[c].alloc
    BY <2>1, <1>5 DEF SameBlock
  <2>3. c \in T1 /\ SameBlock(h3, g1, c) /\ g1.head[c].alloc
    BY <2>1, <2>2, <1>9 DEF SameBlock
  <2>4. c \in T /\ c # s
    BY <2>1, <2>3, <1>14
  <2>5. SameBlock(g1, g, c)
    BY <2>4, <1>14
  <2>6. SameBlock(h, g, c)
    BY <2>2, <2>3, <2>5, SameTwice
  <2> QED BY <2>1, <2>4, <2>6 DEF SameBlock
<1>17. ASSUME NEW c \in T, g.head[c].alloc, c # p PROVE c \in Held(h, S)
  <2>1. c # s /\ c \in T1 /\ c # b
    BY <1>14, <1>17
  <2>2. g1.head[c].alloc
    BY <2>1, <1>14, <1>17 DEF SameBlock
  <2>3. c \in S
    BY <2>1, <2>2, <1>9, <1>17
  <2>4. h3.head[c].alloc
    BY <2>1, <2>2, <2>3, <1>9, <1>17 DEF SameBlock
  <2> QED BY <2>1, <2>3, <2>4, <1>5 DEF SameBlock, Held
<1>18. p \notin Held(h, S) /\ Held(g, T) = Held(h, S) \cup {p}
  <2>1. p \notin Held(h, S)
    BY <1>4 DEF Held
  <2>2. \A c : c \in Held(g, T) <=> c \in Held(h, S) \cup {p}
    BY <1>15, <1>16, <1>17 DEF Held
  <2> QED BY <2>1, <2>2
<1>19. GivenOut(h, S, p, size, align, g, T)
  <2>1. (p + 1) % align = 0
    BY DEF p
  <2>2. \A c \in Held(h, S) : SameBlock(h, g, c)
    BY <1>16
  <2> QED BY <2>1, <2>2, <1>12, <1>13, <1>15, <1>18 DEF GivenOut
<1> QED BY <1>19 DEF g, g1, h3, p

(* sf_generalize_allocation once a block that fits is found.               *)
LEMMA TakenIs ==
  ASSUME NEW h, NEW S, Sound(h, S), NEW b \in S, ~h.head[b].alloc,
         NEW size \in Nat, size >= MinUnits, NEW align \in Nat, align > 0,
         Fits(h, b, size, align)
  PROVE  \E T : GivenOut(h, S, b + Padding(b, align), size, align,
                         Taken(h, b, size, align), T)
<1> DEFINE pad == Padding(b, align)
<1>1. b \in Nat /\ h.head[b].size \in Nat
  BY TileFacts DEF Sound
<1>2. pad \in Nat /\ (pad = 0 \/ pad >= 2) /\ (b + pad + 1) % align = 0
  BY <1>1, PaddingIs
<1>3. size + pad <= h.head[b].size
  BY DEF Fits
<1>4. Unlink(h, b).head = h.head
  BY UnlinkIs DEF Sound, Listed
<1>5. Taken(h, b, size, align) =
        IF pad = 0 THEN AllocateBlock(Unlink(h, b), b, size)
        ELSE AddToFreeList(AllocateBlock(CutAt(Unlink(h, b), b, pad), b + pad, size), b)
  BY <1>4 DEF Taken, CutAt, FreeHead
<1> HIDE DEF pad
<1>6. CASE pad = 0
  <2>1. b + pad = b /\ (b + 1) % align = 0 /\ size <= h.head[b].size
    BY <1>1, <1>2, <1>3, <1>6
  <2> QED BY <2>1, <1>5, <1>6, TakenWhole DEF pad
<1>7. CASE pad # 0
  BY <1>2, <1>3, <1>5, <1>7, TakenPadded DEF pad
<1> QED BY <1>6, <1>7

(* The heap g is h with more pages: only the end is new.                   *)
Extended(h, S, g, T) ==
  /\ Sound(g, T) /\ h.pages <= g.pages
  /\ FeetFree(h) => FeetFree(g)
  /\ Held(g, T) = Held(h, S)
  /\ \A c \in Held(h, S) : SameBlock(h, g, c)
  /\ \A c \in T : \/ g.head[c].alloc \/ Past(g, c) = End(g)
                  \/ /\ c \in S /\ SameBlock(h, g, c)
                     /\ g.pages = h.pages \/ Past(h, c) # End(h)

(* The first page, its one block still in no list.                         *)
FirstPage(h) ==
  [h EXCEPT !.pages = 1,
            !.head = [h.head EXCEPT ![0] = GivenHead(2, FALSE),
                                    ![2] = FreeHead(PageUnits - 3, TRUE),
                                    ![PageUnits - 1] = GivenHead(0, FALSE)]]

(* What the first page holds.                                              *)
LEMMA FirstPageIs ==
  ASSUME NEW h \in Heaps, NEW g, g = FirstPage(h)
  PROVE  /\ g \in Heaps /\ g.pages = 1 /\ g.foot = h.foot /\ g.list = h.list
         /\ g.head[2] = FreeHead(PageUnits - 3, TRUE)
         /\ g.head[PageUnits - 1] = GivenHead(0, FALSE)
         /\ End(g) = PageUnits - 1
<1> DEFINE v == FreeHead(PageUnits - 3, TRUE)
           w == GivenHead(0, FALSE)
           x == GivenHead(2, FALSE)
           f == [h.head EXCEPT ![0] = x, ![2] = v, ![PageUnits - 1] = w]
<1>1. PageUnits \in Nat /\ PageUnits > 5 /\ MaxPages \in Nat /\ MaxPages > 0 /\ NUnits \in Nat
  BY Numbers
<1>2. NUnits >= PageUnits
  <2>1. \A m \in Nat : m > 0 => PageUnits * m >= PageUnits
    BY <1>1
  <2> QED BY <2>1, <1>1 DEF NUnits
<1>3. v \in Words /\ w \in Words /\ x \in Words
  <2>1. PageUnits - 3 \in 0..NUnits /\ 0 \in 0..NUnits /\ 2 \in 0..NUnits
    BY <1>1, <1>2
  <2> QED BY <2>1, FreeHeadIs, GivenHeadIs, WordFacts
<1>4. 0 \in Units /\ 2 \in Units /\ PageUnits - 1 \in Units /\ 0 # 2 /\ PageUnits - 1 # 2
  BY <1>1, <1>2, Numbers
<1> HIDE DEF v, w, x
<1>5. h.head \in [Units -> Words]
  BY HeapIn
<1>6. f \in [Units -> Words] /\ f[2] = v /\ f[PageUnits - 1] = w
  BY <1>3, <1>4, <1>5
<1>7. g = [[h EXCEPT !.head = f] EXCEPT !.pages = 1]
  BY DEF FirstPage, Heaps, v, w, x
<1> HIDE DEF f
<1>8. /\ [h EXCEPT !.head = f] \in Heaps /\ [h EXCEPT !.head = f].head = f
      /\ [h EXCEPT !.head = f].foot = h.foot /\ [h EXCEPT !.head = f].list = h.list
  BY <1>6, HeapMade
<1>9. 1 \in 0..MaxPages
  BY <1>1
<1>10. /\ g \in Heaps /\ g.pages = 1 /\ g.foot = h.foot /\ g.list = h.list /\ g.head = f
  <2> DEFINE k == [h EXCEPT !.head = f]
  <2>1. k \in Heaps /\ k.head = f /\ k.foot = h.foot /\ k.list = h.list
    BY <1>8
  <2>2. g = [k EXCEPT !.pages = 1]
    BY <1>7
  <2> HIDE DEF k
  <2> QED BY <2>1, <2>2, <1>9, HeapMade
<1>11. End(g) = PageUnits - 1
  BY <1>10, <1>1 DEF End
<1> QED BY <1>6, <1>10, <1>11 DEF v, w

(* sf_init_heap makes a heap of one page and one block.                    *)
LEMMA Started ==
  ASSUME NEW h \in Heaps, \A c \in Lists : h.list[c] = <<>>
  PROVE  \E T : /\ Sound(InitializeHeap(h), T) /\ Held(InitializeHeap(h), T) = {}
                /\ FeetFree(h) => FeetFree(InitializeHeap(h))
<1> DEFINE h1 == FirstPage(h)
           h3 == PutFoot(h1, 2)
           g  == AddToFreeList(h3, 2)
           v  == FreeHead(PageUnits - 3, TRUE)
           w  == GivenHead(0, FALSE)
           end == PageUnits - 1
<1>1. InitializeHeap(h) = g
  BY DEF InitializeHeap, FirstPage, FreeHead, GivenHead, Heaps
<1>2. /\ h1 \in Heaps /\ h1.pages = 1 /\ h1.foot = h.foot /\ h1.list = h.list
      /\ h1.head[2] = v /\ h1.head[end] = w /\ End(h1) = end
  <2>1. h1 = FirstPage(h)
    OBVIOUS
  <2> HIDE DEF h1
  <2> QED BY <2>1, FirstPageIs
<1> HIDE DEF h1
<1>3. PageUnits \in Nat /\ PageUnits > 5 /\ end \in Units /\ end - 1 \in Units
      /\ PageUnits - 3 \in 0..NUnits /\ 0 \in 0..NUnits
  BY <1>2, EndIn, Numbers
<1>4. /\ v \in Headers /\ v.size = PageUnits - 3 /\ ~v.alloc /\ v.prev
      /\ w \in Headers /\ w.size = 0 /\ w.alloc
  BY <1>3, FreeHeadIs, GivenHeadIs
<1> HIDE DEF v, w
<1>5. /\ h3 \in Heaps /\ h3.pages = 1 /\ h3.head = h1.head /\ h3.list = h.list
      /\ \A u \in Units : h3.foot[u] = IF u = end - 1 THEN v ELSE h.foot[u]
  <2>1. Past(h1, 2) = end /\ h1.head[2].size \in Nat /\ 2 \in Units
    BY <1>2, <1>3, <1>4, Numbers DEF Past
  <2>2. end - 1 = Past(h1, 2) - 1
    BY <2>1
  <2> HIDE DEF end
  <2> QED BY <2>1, <2>2, <1>2, <1>3, PutFootIs
<1> HIDE DEF h3
<1>6. Past(h3, 2) = end /\ End(h3) = end /\ h3.head[2] = v /\ h3.head[end] = w
  BY <1>2, <1>3, <1>4, <1>5 DEF Past, End
<1>7. Tiles(h3, {2})
  <2>1. {2} \subseteq 2..(end - 1) /\ \A c \in {2} : ~(2 < c)
    BY <1>3
  <2>2. v.size >= MinUnits
    BY <1>3, <1>4 DEF MinUnits
  <2> HIDE DEF end
  <2> QED BY <2>1, <2>2, <1>4, <1>6 DEF Tiles
<1>8. Bits(h3, {2}, 2)
  BY <1>4, <1>6 DEF Bits
<1>9. Listed(h3, {2}, {2})
  <2>1. IsInjective(<<>>) /\ Range(<<>>) = {}
    BY DEF IsInjective, Range
  <2> QED BY <2>1, <1>5 DEF Listed
<1>10. PICK T, s : Joined(h3, {2}, {2}, 2, g, T, s)
  <2>1. h3.pages > 0 /\ 2 \in {2}
    BY <1>5
  <2>2. \A c \in {2} : Past(h3, c) = 2 /\ ~h3.head[c].alloc => c \notin {2}
    BY <1>3, <1>6
  <2>3. Past(h3, 2) \in {2} => h3.head[Past(h3, 2)].alloc
    BY <1>3, <1>6
  <2> QED BY <2>1, <2>2, <2>3, <1>5, <1>7, <1>8, <1>9, Added
<1> HIDE DEF g
<1>11. /\ g \in Heaps /\ g.pages = 1 /\ Tiles(g, T) /\ Bits(g, T, NULL) /\ Listed(g, T, {2} \ {2})
       /\ FeetFree(h3) => FeetFree(g)
       /\ T \subseteq {2} /\ s \in T /\ ~g.head[s].alloc
  BY <1>5, <1>10 DEF Joined
<1>12. FeetFree(h) => FeetFree(h3)
  BY <1>4, <1>5 DEF FeetFree
<1>13. Sound(g, T)
  <2>1. {2} \ {2} = {}
    OBVIOUS
  <2>2. Listed(g, T, {2} \ {2})
    BY <1>11
  <2>3. Listed(g, T, {})
    BY <2>1, <2>2, Zenon
  <2>4. g.pages > 0
    BY <1>11
  <2> QED BY <2>3, <2>4, <1>11 DEF Sound
<1>14. Held(g, T) = {}
  BY <1>11 DEF Held
<1> QED BY <1>1, <1>11, <1>12, <1>13, <1>14

(* A page more, with the epilogue at its end.                              *)
OnePageMore(h) ==
  [h EXCEPT !.pages = @ + 1, !.head[End(h) + PageUnits] = h.head[End(h)]]

(* What sf_mem_grow changes.                                               *)
LEMMA OnePageMoreIs ==
  ASSUME NEW h \in Heaps, h.pages > 0, h.pages < MaxPages, NEW g, g = OnePageMore(h)
  PROVE  /\ g \in Heaps /\ g.pages = h.pages + 1 /\ g.foot = h.foot /\ g.list = h.list
         /\ End(g) = End(h) + PageUnits /\ End(g) \in Units /\ End(g) - 1 \in Units
         /\ \A u \in Units : g.head[u] = IF u = End(g) THEN h.head[End(h)] ELSE h.head[u]
<1> DEFINE new == End(h) + PageUnits
           f == [h.head EXCEPT ![new] = h.head[End(h)]]
<1>1. /\ new \in Units /\ End(h) \in Units /\ End(h) \in Nat
      /\ PageUnits \in Nat /\ h.pages \in Nat /\ h.pages + 1 \in 0..MaxPages
  BY SMTT(30), EndIn, Numbers, HeapIn
<1>2. h.head \in [Units -> Words]
  BY HeapIn
<1> HIDE DEF new
<1>3. f \in [Units -> Words] /\ \A u \in Units : f[u] = IF u = new THEN h.head[End(h)] ELSE h.head[u]
  BY <1>1, <1>2
<1>4. g = [[h EXCEPT !.head = f] EXCEPT !.pages = h.pages + 1]
  BY DEF OnePageMore, Heaps, new
<1> HIDE DEF f
<1> DEFINE k == [h EXCEPT !.head = f]
<1>5. k \in Heaps /\ k.head = f /\ k.foot = h.foot /\ k.list = h.list
  BY <1>3, HeapMade
<1>6. g = [k EXCEPT !.pages = h.pages + 1]
  BY <1>4
<1> HIDE DEF k
<1>7. /\ g \in Heaps /\ g.pages = h.pages + 1 /\ g.head = f /\ g.foot = h.foot /\ g.list = h.list
  BY <1>1, <1>5, <1>6, HeapMade
<1>8. End(g) = new
  <2>1. PageUnits * (h.pages + 1) = PageUnits * h.pages + PageUnits
    BY <1>1
  <2>2. PageUnits * h.pages \in Int
    BY <1>1
  <2> QED BY <2>1, <2>2, <1>1, <1>7 DEF End, new
<1>9. new - 1 \in Units
  <2>1. new > 0
    BY <1>1, Numbers DEF new
  <2> QED BY <2>1, <1>1, Numbers
<1> QED BY <1>1, <1>3, <1>7, <1>8, <1>9 DEF new

(* The blocks that do not reach the end of h stay as they are.             *)
LEMMA StillInList ==
  ASSUME NEW h, NEW g, NEW b, NEW c, g.head[b].size = h.head[b].size,
         Past(h, b) # End(h), Past(g, b) # End(g)
  PROVE  InList(g, c, b) <=> InList(h, c, b)
BY DEF InList, Past

(* The wilderness takes the page.                                          *)
LEMMA WildernessGrown ==
  ASSUME NEW h, NEW S, Sound(h, S), h.pages < MaxPages, ~h.head[End(h)].prev
  PROVE  Extended(h, S, IncreaseWilderness(h), S) /\ IncreaseWilderness(h).pages = h.pages + 1
<1> DEFINE old == End(h)
           new == old + PageUnits
           h1  == OnePageMore(h)
<1>1. h \in Heaps /\ h.pages > 0 /\ Tiles(h, S) /\ Bits(h, S, NULL) /\ Listed(h, S, {})
  BY DEF Sound
<1>2. PICK b \in S : Past(h, b) = old
  BY <1>1 DEF Tiles
<1>3. /\ b \in Nat /\ b \in Units /\ b >= 2 /\ h.head[b] \in Headers /\ h.head[b].size \in Nat
      /\ h.head[b].prev \in BOOLEAN /\ h.head[b].alloc \in BOOLEAN /\ old = b + h.head[b].size
      /\ old \in Units /\ old \in Nat /\ old - 1 \in Units /\ h.head[b].size >= 2
      /\ h.head[old] \in Headers
  <2>1. /\ b \in Nat /\ b \in Units /\ b >= 2 /\ h.head[b] \in Headers
        /\ h.head[b].prev \in BOOLEAN /\ h.head[b].alloc \in BOOLEAN
        /\ h.head[b].size \in Nat /\ h.head[b].size >= 2
        /\ Past(h, b) - 1 \in Units /\ h.head[Past(h, b)] \in Headers
    BY <1>1, TileFacts
  <2>2. old \in Units /\ old \in Nat
    BY <1>1, EndIn
  <2>3. old = b + h.head[b].size
    BY <1>2 DEF Past
  <2> HIDE DEF old
  <2> QED BY <2>1, <2>2, <2>3, <1>2
<1>4. /\ ~h.head[b].alloc /\ h.foot[old - 1] = h.head[b]
  <2>1. b # NULL
    BY <1>3 DEF NULL
  <2> QED BY <2>1, <1>1, <1>2 DEF Bits
<1>5. /\ h1 \in Heaps /\ h1.pages = h.pages + 1 /\ h1.foot = h.foot /\ h1.list = h.list
      /\ End(h1) = new /\ new \in Units /\ new - 1 \in Units
      /\ \A u \in Units : h1.head[u] = IF u = new THEN h.head[old] ELSE h.head[u]
  <2>1. h1 = OnePageMore(h)
    OBVIOUS
  <2> HIDE DEF h1
  <2>2. /\ h1 \in Heaps /\ h1.pages = h.pages + 1 /\ h1.foot = h.foot /\ h1.list = h.list
        /\ End(h1) = End(h) + PageUnits /\ End(h1) \in Units /\ End(h1) - 1 \in Units
        /\ \A u \in Units : h1.head[u] = IF u = End(h1) THEN h.head[End(h)] ELSE h.head[u]
    BY <2>1, <1>1, OnePageMoreIs
  <2> QED BY <2>2
<1>6. PageUnits \in Nat /\ PageUnits > 5 /\ new > old /\ new \in Nat /\ b # new
  <2>1. old \in Nat /\ old >= b /\ b \in Nat
    BY <1>3
  <2> HIDE DEF old
  <2> QED BY <2>1, Numbers
<1> DEFINE v  == FreeHead(h.head[b].size + PageUnits, h.head[b].prev)
           h2 == PutHead(h1, b, v)
           g  == PutFoot(h2, b)
<1>7. IncreaseWilderness(h) = g
  <2>1. IncreaseWilderness(h) =
          PutFoot([h1 EXCEPT !.head[b].size = @ + PageUnits], b)
    <3>1. old - h.foot[old - 1].size = b
      BY <1>3, <1>4
    <3> HIDE DEF old
    <3>2. IncreaseWilderness(h) =
            PutFoot([h1 EXCEPT !.head[old - h.foot[old - 1].size].size = @ + PageUnits],
                    old - h.foot[old - 1].size)
      BY DEF IncreaseWilderness, OnePageMore, old
    <3> QED BY <3>1, <3>2
  <2>2. [h1 EXCEPT !.head[b].size = @ + PageUnits] =
          PutHead(h1, b, [h1.head[b] EXCEPT !.size = h1.head[b].size + PageUnits])
    <3> HIDE DEF h1
    <3>1. h1.head \in [Units -> Words] /\ h1 \in Heaps
      BY <1>5, HeapIn
    <3> QED BY <3>1, <1>3 DEF PutHead, Heaps
  <2> HIDE DEF h1
  <2>3. h1.head[b] = h.head[b]
    BY <1>3, <1>5, <1>6
  <2>4. [h.head[b] EXCEPT !.size = h.head[b].size + PageUnits] = v
    BY <1>3, <1>4, Resize
  <2> HIDE DEF v
  <2> QED BY <2>1, <2>2, <2>3, <2>4
<1> HIDE DEF h1
<1>8. v \in Headers /\ v \in Words /\ v.size = new - b /\ ~v.alloc /\ v.prev = h.head[b].prev
  <2>1. /\ v.size = h.head[b].size + PageUnits /\ ~v.alloc /\ v.prev = h.head[b].prev
        /\ h.head[b].size + PageUnits \in 0..NUnits => v \in Headers
    BY <1>3, FreeHeadIs
  <2>2. h.head[b].size + PageUnits = new - b
    BY <1>3, <1>6
  <2> HIDE DEF v, old, new
  <2>3. new - b \in 0..NUnits
    <3>1. new \in 0..(NUnits - 1) /\ NUnits \in Nat
      BY <1>5, Numbers
    <3>2. b <= new
      BY <1>3, <1>6
    <3> QED BY <3>1, <3>2, <1>3, <1>6
  <2> QED BY <2>1, <2>2, <2>3, WordFacts
<1> HIDE DEF v, old, new
<1>9. /\ h2 \in Heaps /\ h2.pages = h.pages + 1 /\ h2.foot = h.foot /\ h2.list = h.list
      /\ \A u \in Units : h2.head[u] = IF u = b THEN v ELSE
                                       IF u = new THEN h.head[old] ELSE h.head[u]
  <2>1. /\ h2 \in Heaps /\ h2.pages = h1.pages /\ h2.foot = h1.foot /\ h2.list = h1.list
        /\ \A u \in Units : h2.head[u] = IF u = b THEN v ELSE h1.head[u]
    BY <1>3, <1>5, <1>8, PutHeadIs
  <2> QED BY <2>1, <1>5
<1> HIDE DEF h2
<1>10. h2.head[b] = v /\ Past(h2, b) = new
  <2>1. h2.head[b] = v
    BY <1>3, <1>9
  <2> QED BY <2>1, <1>3, <1>6, <1>8 DEF Past
<1>11. /\ g \in Heaps /\ g.pages = h.pages + 1 /\ g.head = h2.head /\ g.list = h.list
       /\ \A u \in Units : g.foot[u] = IF u = new - 1 THEN v ELSE h.foot[u]
  <2>1. h2.head[b].size \in Nat /\ new - 1 = Past(h2, b) - 1
    BY <1>3, <1>6, <1>8, <1>10
  <2>2. /\ g \in Heaps /\ g.pages = h2.pages /\ g.head = h2.head /\ g.list = h2.list
        /\ \A u \in Units : g.foot[u] = IF u = new - 1 THEN h2.head[b] ELSE h2.foot[u]
    BY <2>1, <1>3, <1>5, <1>9, PutFootIs
  <2> QED BY <2>2, <1>9, <1>10
<1> HIDE DEF g
<1>12. End(g) = new /\ Past(g, b) = new /\ g.head[b] = v /\ g.head[new] = h.head[old]
  <2>1. End(g) = End(h1)
    BY <1>5, <1>11 DEF End
  <2>2. Past(g, b) = Past(h2, b)
    BY <1>11 DEF Past
  <2> QED BY <2>1, <2>2, <1>5, <1>6, <1>9, <1>10, <1>11
<1>13. ASSUME NEW c \in S, c # b
       PROVE  /\ c \in Units /\ c \in Nat /\ g.head[c] = h.head[c]
              /\ Past(g, c) = Past(h, c) /\ Past(h, c) \in S /\ Past(h, c) < old
              /\ Past(h, c) \in Nat
              /\ g.foot[Past(h, c) - 1] = h.foot[Past(h, c) - 1]
              /\ Past(h, c) # b => g.head[Past(h, c)] = h.head[Past(h, c)]
  <2>1. /\ c \in Units /\ c \in Nat /\ Past(h, c) \in Nat /\ Past(h, c) - 1 \in Units
        /\ Past(h, c) \in S \cup {old} /\ c < old /\ Past(h, c) <= old /\ Past(h, c) \in Units
    <3>1. /\ c \in Units /\ c \in Nat /\ Past(h, c) \in Nat /\ Past(h, c) - 1 \in Units
          /\ Past(h, c) <= old /\ Past(h, c) >= c + 2 /\ Past(h, c) \in Units
      BY <1>1, TileFacts DEF old
    <3>2. Past(h, c) \in S \cup {old}
      BY <1>1 DEF Tiles, old
    <3> QED BY <3>1, <3>2, <1>3
  <2>2. Past(h, c) # old
    BY <1>1, <1>2, <1>13, NoOverlap
  <2>3. g.head[c] = h.head[c]
    BY <2>1, <1>6, <1>9, <1>11, <1>13, <1>3
  <2>4. Past(h, c) < old /\ Past(h, c) \in S
    BY <2>1, <2>2, <1>3
  <2>5. Past(g, c) = Past(h, c)
    BY <2>3 DEF Past
  <2>6. g.foot[Past(h, c) - 1] = h.foot[Past(h, c) - 1]
    BY <2>1, <2>4, <1>3, <1>6, <1>11
  <2>7. Past(h, c) # b => g.head[Past(h, c)] = h.head[Past(h, c)]
    BY <2>1, <2>4, <1>3, <1>6, <1>9, <1>11
  <2> QED BY <2>1, <2>3, <2>4, <2>5, <2>6, <2>7
<1>14. Tiles(g, S)
  <2>1. S \subseteq 2..(new - 1) /\ 2 \in S
    <3>1. S \subseteq 2..(old - 1) /\ 2 \in S
      BY <1>1 DEF Tiles, old
    <3> QED BY <3>1, <1>3, <1>6
  <2>2. ASSUME NEW c \in S
        PROVE  /\ g.head[c] \in Headers /\ g.head[c].size >= MinUnits
               /\ Past(g, c) \in S \cup {new}
               /\ \A d \in S : ~(c < d /\ d < Past(g, c))
               /\ c = 2 \/ \E d \in S : Past(g, d) = c
    <3>1. c = 2 \/ \E d \in S : Past(g, d) = c
      <4> SUFFICES ASSUME c # 2 PROVE \E d \in S : Past(g, d) = c
        OBVIOUS
      <4>1. PICK d \in S : Past(h, d) = c
        BY <1>1 DEF Tiles
      <4>2. d # b
        <5>1. c < old
          BY <1>1, <1>3, TileFacts DEF old
        <5> QED BY <5>1, <4>1, <1>2, <1>3
      <4> QED BY <4>1, <4>2, <1>13
    <3>2. CASE c = b
      <4>1. \A d \in S : ~(c < d /\ d < Past(g, c))
        <5>1. \A d \in S : ~(b < d /\ d < old) /\ d < old
          BY <1>1, <1>2, <1>3, TileFacts DEF Tiles, old
        <5> QED BY <5>1, <3>2, <1>3
      <4>2. g.head[c].size >= MinUnits
        BY <3>2, <1>3, <1>6, <1>8, <1>12 DEF MinUnits, new
      <4> QED BY <4>1, <4>2, <3>1, <3>2, <1>8, <1>12
    <3>3. CASE c # b
      <4>1. /\ h.head[c] \in Headers /\ h.head[c].size >= MinUnits
            /\ \A d \in S : ~(c < d /\ d < Past(h, c))
        BY <1>1 DEF Tiles
      <4> QED BY <4>1, <3>1, <3>3, <1>13
    <3> QED BY <3>2, <3>3
  <2>3. h.head[old] \in Headers /\ h.head[old].size = 0 /\ h.head[old].alloc
    BY <1>1 DEF Tiles, old
  <2> QED BY <2>1, <2>2, <2>3, <1>12 DEF Tiles
<1>15. Bits(g, S, NULL)
  <2>1. g.head[2].prev
    <3>1. 2 \in S /\ h.head[2].prev
      BY <1>1 DEF Tiles, Bits
    <3>2. CASE b = 2
      BY <3>1, <3>2, <1>8, <1>12
    <3>3. CASE b # 2
      BY <3>1, <3>3, <1>13
    <3> QED BY <3>2, <3>3
  <2>2. ASSUME NEW c \in S
        PROVE  /\ g.head[Past(g, c)].prev <=> g.head[c].alloc
               /\ ~g.head[c].alloc => /\ g.foot[Past(g, c) - 1] = g.head[c]
                                      /\ g.head[Past(g, c)].alloc
    <3>1. CASE c = b
      <4>1. ~h.head[old].prev /\ h.head[old].alloc
        BY <1>1 DEF Tiles, old
      <4>2. g.foot[new - 1] = v
        BY <1>5, <1>11
      <4> QED BY <4>1, <4>2, <3>1, <1>8, <1>12
    <3>2. CASE c # b
      <4>1. /\ h.head[Past(h, c)].prev <=> h.head[c].alloc
            /\ ~h.head[c].alloc => /\ h.foot[Past(h, c) - 1] = h.head[c]
                                   /\ h.head[Past(h, c)].alloc
        <5>1. c # NULL /\ Past(h, c) # NULL
          BY <1>13, <3>2 DEF NULL
        <5> QED BY <5>1, <1>1 DEF Bits
      <4>2. CASE Past(h, c) = b
        BY <4>1, <4>2, <3>2, <1>4, <1>8, <1>12, <1>13
      <4>3. CASE Past(h, c) # b
        BY <4>1, <4>3, <3>2, <1>13
      <4> QED BY <4>2, <4>3
    <3> QED BY <3>1, <3>2
  <2> QED BY <2>1, <2>2 DEF Bits
<1>16. Listed(g, S, {})
  <2> SUFFICES ASSUME NEW c \in Lists
               PROVE  /\ IsInjective(g.list[c])
                      /\ Range(g.list[c]) = {x \in S : ~g.head[x].alloc /\ InList(g, c, x)}
    BY DEF Listed
  <2>1. /\ IsInjective(h.list[c])
        /\ Range(h.list[c]) = {x \in S : ~h.head[x].alloc /\ InList(h, c, x)}
    BY <1>1 DEF Listed
  <2>2. ASSUME NEW x \in S, x # b
        PROVE  g.head[x] = h.head[x] /\ (InList(g, c, x) <=> InList(h, c, x))
    <3>1. Past(h, x) # old /\ Past(g, x) # new /\ g.head[x] = h.head[x]
      BY <2>2, <1>13, <1>3, <1>6
    <3> QED BY <3>1, <1>12, StillInList DEF old
  <2>3. InList(g, c, b) <=> InList(h, c, b)
    <3>1. b + h.head[b].size = End(h) /\ b + g.head[b].size = End(g)
      BY <1>2, <1>12 DEF Past, old
    <3> QED BY <3>1 DEF InList
  <2>4. ~g.head[b].alloc /\ ~h.head[b].alloc
    BY <1>4, <1>8, <1>12
  <2>5. {x \in S : ~g.head[x].alloc /\ InList(g, c, x)} =
          {x \in S : ~h.head[x].alloc /\ InList(h, c, x)}
    BY <2>2, <2>3, <2>4
  <2> QED BY <2>1, <2>5, <1>11
<1>17. FeetFree(h) => FeetFree(g)
  BY <1>8, <1>11 DEF FeetFree
<1>18. ASSUME NEW c \in S, c # b PROVE SameBlock(h, g, c)
  <2>1. ASSUME NEW u \in c..(Past(h, c) - 1)
        PROVE  g.foot[u] = h.foot[u] /\ (u > c => g.head[u] = h.head[u])
    <3>1. c \in Nat /\ Past(h, c) \in Nat /\ Past(h, c) < old /\ u \in Nat /\ u < old
      BY <1>13, <1>18, <1>3
    <3>2. u \in Units
      BY <3>1, <1>3, Numbers
    <3>3. u # new - 1 /\ u # new
      BY <3>1, <1>3, <1>6
    <3>4. u > c => u # b
      BY <3>1, <1>1 DEF Tiles
    <3> QED BY <3>2, <3>3, <3>4, <1>9, <1>11
  <2> QED BY <2>1, <1>13, <1>18 DEF SameBlock
<1>19. Held(g, S) = Held(h, S)
  <2>1. ~g.head[b].alloc
    BY <1>8, <1>12
  <2> QED BY <2>1, <1>4, <1>13 DEF Held
<1>20. \A c \in Held(h, S) : SameBlock(h, g, c)
  BY <1>4, <1>18 DEF Held
<1>21. Sound(g, S) /\ h.pages <= g.pages
  <2>1. h.pages \in Nat
    BY <1>1, HeapIn
  <2> QED BY <2>1, <1>1, <1>11, <1>14, <1>15, <1>16 DEF Sound
<1>22. \A c \in S : c = b \/ (SameBlock(h, g, c) /\ Past(h, c) # End(h))
  <2>1. \A c \in S : c # b => Past(h, c) # old
    BY <1>13, <1>3
  <2> QED BY <2>1, <1>18 DEF old
<1> QED BY <1>7, <1>11, <1>12, <1>17, <1>19, <1>20, <1>21, <1>22 DEF Extended

(* The page becomes a block.                                               *)
LEMMA PageAdded ==
  ASSUME NEW h, NEW S, Sound(h, S), h.pages < MaxPages, h.head[End(h)].prev
  PROVE  \E T : Extended(h, S, IncreaseWilderness(h), T) /\ IncreaseWilderness(h).pages = h.pages + 1
<1> DEFINE old == End(h)
           new == old + PageUnits
           h1 == OnePageMore(h)
           v  == FreeHead(PageUnits, TRUE)
           h2 == PutHead(h1, old, v)
           h3 == PutFoot(h2, old)
           g  == AddToFreeList(h3, old)
           R  == S \cup {old}
<1>1. h \in Heaps /\ h.pages > 0 /\ Tiles(h, S) /\ Bits(h, S, NULL) /\ Listed(h, S, {})
  BY DEF Sound
<1>2. IncreaseWilderness(h) = g
  BY DEF IncreaseWilderness, OnePageMore, FreeHead
<1>3. /\ h1 \in Heaps /\ h1.pages = h.pages + 1 /\ h1.foot = h.foot /\ h1.list = h.list
      /\ End(h1) = new /\ new \in Units /\ new - 1 \in Units
      /\ \A u \in Units : h1.head[u] = IF u = new THEN h.head[old] ELSE h.head[u]
  <2>1. h1 = OnePageMore(h)
    OBVIOUS
  <2> HIDE DEF h1
  <2>2. /\ h1 \in Heaps /\ h1.pages = h.pages + 1 /\ h1.foot = h.foot /\ h1.list = h.list
        /\ End(h1) = End(h) + PageUnits /\ End(h1) \in Units /\ End(h1) - 1 \in Units
        /\ \A u \in Units : h1.head[u] = IF u = End(h1) THEN h.head[End(h)] ELSE h.head[u]
    BY <2>1, <1>1, OnePageMoreIs
  <2> QED BY <2>2
<1>4. old \in Units /\ old \in Nat /\ old > 4
  BY <1>1, EndIn
<1> HIDE DEF h1, old
<1>5. PageUnits \in Nat /\ PageUnits > 5 /\ new > old + 5 /\ new \in Nat /\ new = old + PageUnits
  BY <1>4, Numbers
<1>6. v \in Headers /\ v \in Words /\ v.size = PageUnits /\ ~v.alloc /\ v.prev
  <2>1. v.size = PageUnits /\ ~v.alloc /\ v.prev /\ (PageUnits \in 0..NUnits => v \in Headers)
    BY FreeHeadIs
  <2>2. PageUnits \in 0..NUnits
    <3> HIDE DEF new
    <3> QED BY <1>3, <1>4, <1>5, Numbers
  <2> HIDE DEF v
  <2> QED BY <2>1, <2>2, WordFacts
<1> HIDE DEF v, new
<1>7. /\ h2 \in Heaps /\ h2.pages = h.pages + 1 /\ h2.foot = h.foot /\ h2.list = h.list
      /\ \A u \in Units : h2.head[u] = IF u = old THEN v ELSE
                                       IF u = new THEN h.head[old] ELSE h.head[u]
  <2>1. /\ h2 \in Heaps /\ h2.pages = h1.pages /\ h2.foot = h1.foot /\ h2.list = h1.list
        /\ \A u \in Units : h2.head[u] = IF u = old THEN v ELSE h1.head[u]
    BY <1>3, <1>4, <1>6, PutHeadIs
  <2> QED BY <2>1, <1>3
<1> HIDE DEF h2
<1>8. h2.head[old] = v /\ Past(h2, old) = new
  <2>1. h2.head[old] = v
    BY <1>4, <1>7
  <2> QED BY <2>1, <1>5, <1>6 DEF Past
<1>9. /\ h3 \in Heaps /\ h3.pages = h.pages + 1 /\ h3.head = h2.head /\ h3.list = h.list
      /\ \A u \in Units : h3.foot[u] = IF u = new - 1 THEN v ELSE h.foot[u]
  <2>1. h2.head[old].size \in Nat /\ new - 1 = Past(h2, old) - 1
    BY <1>5, <1>6, <1>8
  <2>2. /\ h3 \in Heaps /\ h3.pages = h2.pages /\ h3.head = h2.head /\ h3.list = h2.list
        /\ \A u \in Units : h3.foot[u] = IF u = new - 1 THEN h2.head[old] ELSE h2.foot[u]
    BY <2>1, <1>3, <1>4, <1>7, PutFootIs
  <2> QED BY <2>2, <1>7, <1>8
<1> HIDE DEF h3
<1>10. /\ End(h3) = new /\ Past(h3, old) = new /\ h3.head[old] = v
       /\ h3.head[new] = h.head[old]
  <2>1. End(h3) = End(h1)
    BY <1>3, <1>9 DEF End
  <2>2. Past(h3, old) = Past(h2, old)
    BY <1>9 DEF Past
  <2> QED BY <2>1, <2>2, <1>3, <1>5, <1>7, <1>8, <1>9
<1>11. ASSUME NEW c \in S
       PROVE  /\ c \in Units /\ c \in Nat /\ c < old /\ h3.head[c] = h.head[c]
              /\ Past(h3, c) = Past(h, c) /\ Past(h, c) \in R /\ Past(h, c) <= old
              /\ Past(h, c) \in Nat /\ Past(h, c) > c
              /\ h3.foot[Past(h, c) - 1] = h.foot[Past(h, c) - 1]
              /\ Past(h, c) # old => h3.head[Past(h, c)] = h.head[Past(h, c)]
  <2>1. /\ c \in Units /\ c \in Nat /\ Past(h, c) \in Nat /\ Past(h, c) - 1 \in Units
        /\ Past(h, c) \in S \cup {old} /\ c < old /\ Past(h, c) <= old /\ Past(h, c) \in Units
        /\ Past(h, c) > c
    <3>1. /\ c \in Units /\ c \in Nat /\ Past(h, c) \in Nat /\ Past(h, c) - 1 \in Units
          /\ Past(h, c) <= old /\ Past(h, c) >= c + 2 /\ Past(h, c) \in Units
      BY <1>1, TileFacts DEF old
    <3>2. Past(h, c) \in S \cup {old}
      BY <1>1 DEF Tiles, old
    <3> QED BY <3>1, <3>2, <1>4
  <2>2. h3.head[c] = h.head[c]
    BY <2>1, <1>4, <1>5, <1>7, <1>9
  <2>3. Past(h3, c) = Past(h, c)
    BY <2>2 DEF Past
  <2>4. h3.foot[Past(h, c) - 1] = h.foot[Past(h, c) - 1]
    BY <2>1, <1>4, <1>5, <1>9
  <2>5. Past(h, c) # old => h3.head[Past(h, c)] = h.head[Past(h, c)]
    BY <2>1, <1>4, <1>5, <1>7, <1>9
  <2> QED BY <2>1, <2>2, <2>3, <2>4, <2>5
<1>12. h.head[old] \in Headers /\ h.head[old].size = 0 /\ h.head[old].alloc /\ h.head[old].prev
  BY <1>1 DEF Tiles, old
<1>13. Tiles(h3, R)
  <2>1. R \subseteq 2..(new - 1) /\ 2 \in R
    <3>1. S \subseteq 2..(old - 1) /\ 2 \in S
      BY <1>1 DEF Tiles, old
    <3> QED BY <3>1, <1>4, <1>5
  <2>2. ASSUME NEW c \in R
        PROVE  /\ h3.head[c] \in Headers /\ h3.head[c].size >= MinUnits
               /\ Past(h3, c) \in R \cup {new}
               /\ \A d \in R : ~(c < d /\ d < Past(h3, c))
               /\ c = 2 \/ \E d \in R : Past(h3, d) = c
    <3>1. CASE c = old
      <4>1. \A d \in R : ~(c < d /\ d < Past(h3, c))
        BY <3>1, <1>4, <1>11
      <4>2. \E d \in R : Past(h3, d) = c
        <5>1. PICK d \in S : Past(h, d) = old
          BY <1>1 DEF Tiles, old
        <5> QED BY <5>1, <3>1, <1>11
      <4>3. h3.head[c].size >= MinUnits
        BY <3>1, <1>5, <1>6, <1>10 DEF MinUnits
      <4> QED BY <4>1, <4>2, <4>3, <3>1, <1>6, <1>10
    <3>2. CASE c # old
      <4>1. /\ h.head[c] \in Headers /\ h.head[c].size >= MinUnits
            /\ \A d \in S : ~(c < d /\ d < Past(h, c))
            /\ c = 2 \/ \E d \in S : Past(h, d) = c
        BY <3>2, <1>1 DEF Tiles
      <4>2. \A d \in R : ~(c < d /\ d < Past(h3, c))
        BY <4>1, <3>2, <1>4, <1>11
      <4>3. c = 2 \/ \E d \in R : Past(h3, d) = c
        BY <4>1, <1>11
      <4> QED BY <4>1, <4>2, <4>3, <3>2, <1>11
    <3> QED BY <3>1, <3>2
  <2> QED BY <2>1, <2>2, <1>10, <1>12 DEF Tiles
<1>14. Bits(h3, R, old)
  <2>1. h3.head[2].prev
    BY <1>1, <1>11 DEF Tiles, Bits
  <2>2. ASSUME NEW c \in S
        PROVE  /\ h3.head[Past(h3, c)].prev <=> h3.head[c].alloc
               /\ ~h3.head[c].alloc => /\ h3.foot[Past(h3, c) - 1] = h3.head[c]
                                       /\ Past(h3, c) = old \/ h3.head[Past(h3, c)].alloc
    <3>1. /\ h.head[Past(h, c)].prev <=> h.head[c].alloc
          /\ ~h.head[c].alloc => /\ h.foot[Past(h, c) - 1] = h.head[c]
                                 /\ h.head[Past(h, c)].alloc
      <4>1. c # NULL /\ Past(h, c) # NULL
        BY <1>11 DEF NULL
      <4> QED BY <4>1, <1>1 DEF Bits
    <3>2. CASE Past(h, c) = old
      BY <3>1, <3>2, <1>6, <1>10, <1>11, <1>12
    <3>3. CASE Past(h, c) # old
      BY <3>1, <3>3, <1>11
    <3> QED BY <3>2, <3>3
  <2> QED BY <2>1, <2>2 DEF Bits
<1>15. Listed(h3, R, {old})
  <2> SUFFICES ASSUME NEW c \in Lists
               PROVE  /\ IsInjective(h3.list[c])
                      /\ Range(h3.list[c]) =
                           {x \in R \ {old} : ~h3.head[x].alloc /\ InList(h3, c, x)}
    BY DEF Listed
  <2>1. /\ IsInjective(h.list[c])
        /\ Range(h.list[c]) = {x \in S : ~h.head[x].alloc /\ InList(h, c, x)}
    BY <1>1 DEF Listed
  <2>2. ASSUME NEW x \in S, ~h.head[x].alloc
        PROVE  InList(h3, c, x) <=> InList(h, c, x)
    <3>1. x # NULL /\ h3.head[x] = h.head[x] /\ Past(h3, x) # new
      BY <1>4, <1>5, <1>11 DEF NULL
    <3>2. Past(h, x) # old
      BY <2>2, <3>1, <1>1, <1>12 DEF Bits
    <3> QED BY <3>1, <3>2, <1>10, StillInList DEF old
  <2>3. \A x \in S : h3.head[x] = h.head[x] /\ x # old
    BY <1>4, <1>11
  <2>4. {x \in R \ {old} : ~h3.head[x].alloc /\ InList(h3, c, x)} =
          {x \in S : ~h.head[x].alloc /\ InList(h, c, x)}
    BY <2>2, <2>3
  <2> QED BY <2>1, <2>4, <1>9
<1>16. FeetFree(h) => FeetFree(h3)
  BY <1>6, <1>9 DEF FeetFree
<1>17. PICK T, s : Joined(h3, R, {old}, old, g, T, s)
  <2>1. \A c \in R : Past(h3, c) = old /\ ~h3.head[c].alloc => c \notin {old}
    BY <1>4, <1>5, <1>10
  <2>2. Past(h3, old) \in {old} => h3.head[Past(h3, old)].alloc
    BY <1>4, <1>5, <1>10
  <2>3. h3 \in Heaps /\ h3.pages > 0 /\ old \in R /\ old \in {old}
    <3>1. h.pages \in Nat
      BY <1>1, HeapIn
    <3> QED BY <3>1, <1>9
  <2> HIDE DEF R
  <2> QED BY <2>1, <2>2, <2>3, <1>13, <1>14, <1>15, Added
<1> HIDE DEF g
<1>18. s = old
  BY <1>6, <1>10, <1>17 DEF Joined
<1>19. /\ g \in Heaps /\ g.pages = h.pages + 1
       /\ Tiles(g, T) /\ Bits(g, T, NULL) /\ Listed(g, T, {old} \ {old})
       /\ FeetFree(h) => FeetFree(g)
       /\ T \subseteq R /\ old \in T /\ ~g.head[old].alloc
       /\ \A c \in R : c \notin T => (c = old \/ ~h3.head[c].alloc)
       /\ \A c \in T : c # old => SameBlock(h3, g, c)
  BY <1>9, <1>16, <1>17, <1>18 DEF Joined
<1>20. \A c \in R : c \notin T => c = old \/ c = Past(h3, old)
  BY <1>17 DEF Joined
<1>21. Sound(g, T) /\ h.pages <= g.pages
  <2>1. {old} \ {old} = {}
    OBVIOUS
  <2>2. Listed(g, T, {})
    BY <2>1, <1>19, Zenon
  <2>3. h.pages \in Nat
    BY <1>1, HeapIn
  <2> QED BY <2>2, <2>3, <1>1, <1>19 DEF Sound
<1>22. ASSUME NEW c \in S PROVE SameBlock(h, h3, c)
  <2>1. ASSUME NEW u \in c..(Past(h, c) - 1)
        PROVE  h3.foot[u] = h.foot[u] /\ (u > c => h3.head[u] = h.head[u])
    <3>1. u \in Nat /\ u < old
      BY <1>4, <1>11
    <3>2. u \in Units
      BY <3>1, <1>4, Numbers
    <3> QED BY <3>1, <3>2, <1>4, <1>5, <1>7, <1>9
  <2> QED BY <2>1, <1>11 DEF SameBlock
<1>23. ASSUME NEW c \in S PROVE c \in T /\ SameBlock(h, g, c)
  <2>1. c # old /\ c # Past(h3, old) /\ c \in R
    BY <1>4, <1>5, <1>10, <1>11
  <2>2. c \in T /\ SameBlock(h3, g, c)
    BY <2>1, <1>19, <1>20
  <2> QED BY <2>2, <1>22, SameTwice
<1>24. Past(g, old) = End(g)
  <2>1. Past(g, old) \in T \cup {End(g)}
    BY <1>19 DEF Tiles
  <2>2. Past(g, old) > old /\ g.pages > 0 /\ Past(g, old) \in Nat
    BY <1>19, <1>21, TileFacts DEF Sound
  <2>3. \A c \in T : c <= old
    BY <1>4, <1>11, <1>19
  <2> QED BY <2>1, <2>2, <2>3, <1>4
<1>25. Held(g, T) = Held(h, S)
  <2>1. \A c : c \in T <=> c \in S \/ c = old
    BY <1>19, <1>23
  <2>2. \A c \in S : g.head[c].alloc <=> h.head[c].alloc
    BY <1>23 DEF SameBlock
  <2> QED BY <2>1, <2>2, <1>19 DEF Held
<1>26. \A c \in Held(h, S) : SameBlock(h, g, c)
  BY <1>23 DEF Held
<1>27. \A c \in T : \/ g.head[c].alloc \/ Past(g, c) = End(g)
                    \/ c \in S /\ SameBlock(h, g, c) /\ Past(h, c) # End(h)
  <2> SUFFICES ASSUME NEW c \in T, ~g.head[c].alloc, c # old
               PROVE  c \in S /\ SameBlock(h, g, c) /\ Past(h, c) # End(h)
    BY <1>24
  <2>1. c \in S /\ SameBlock(h, g, c) /\ c # NULL
    BY <1>11, <1>19, <1>23 DEF NULL
  <2>2. ~h.head[c].alloc
    BY <2>1 DEF SameBlock
  <2>3. ~(h.head[old].prev <=> h.head[c].alloc)
    BY <2>2, <1>12
  <2> QED BY <2>1, <2>3, <1>1 DEF Bits, old
<1> QED BY <1>2, <1>19, <1>21, <1>25, <1>26, <1>27 DEF Extended

(* sf_increase_wilderness.                                                 *)
LEMMA Increased ==
  ASSUME NEW h, NEW S, Sound(h, S), h.pages < MaxPages
  PROVE  \E T : Extended(h, S, IncreaseWilderness(h), T) /\ IncreaseWilderness(h).pages = h.pages + 1
<1>1. CASE h.head[End(h)].prev
  BY <1>1, PageAdded
<1>2. CASE ~h.head[End(h)].prev
  BY <1>2, WildernessGrown
<1> QED BY <1>1, <1>2

(* Growing twice is growing.                                               *)
LEMMA ExtendedTwice ==
  ASSUME NEW h, NEW S, NEW f, NEW R, NEW g, NEW T, h.pages \in Nat, f.pages \in Nat, g.pages \in Nat,
         Extended(h, S, f, R), Extended(f, R, g, T)
  PROVE  Extended(h, S, g, T)
<1>1. h.pages <= g.pages
  BY DEF Extended
<1>2. \A c \in Held(h, S) : SameBlock(h, g, c)
  BY SameTwice DEF Extended
<1>3. ASSUME NEW c \in T
      PROVE  \/ g.head[c].alloc \/ Past(g, c) = End(g)
             \/ /\ c \in S /\ SameBlock(h, g, c)
                /\ g.pages = h.pages \/ Past(h, c) # End(h)
  <2> SUFFICES ASSUME ~g.head[c].alloc, Past(g, c) # End(g)
               PROVE  /\ c \in S /\ SameBlock(h, g, c)
                      /\ g.pages = h.pages \/ Past(h, c) # End(h)
    OBVIOUS
  <2>1. /\ c \in R /\ SameBlock(f, g, c)
        /\ g.pages = f.pages \/ Past(f, c) # End(f)
    BY DEF Extended
  <2>2. ~f.head[c].alloc /\ Past(f, c) = Past(g, c)
    BY <2>1 DEF SameBlock, Past
  <2>3. Past(f, c) # End(f)
    BY <2>1, <2>2 DEF End
  <2>4. /\ c \in S /\ SameBlock(h, f, c)
        /\ f.pages = h.pages \/ Past(h, c) # End(h)
    BY <2>1, <2>2, <2>3 DEF Extended
  <2>5. Past(h, c) = Past(f, c) /\ (f.pages = h.pages => Past(h, c) # End(h))
    BY <2>3, <2>4 DEF SameBlock, Past, End
  <2> QED BY <2>1, <2>4, <2>5, SameTwice
<1>4. /\ Sound(g, T) /\ (FeetFree(h) => FeetFree(g)) /\ Held(g, T) = Held(h, S)
  BY DEF Extended
<1>5. \A c \in T : \/ g.head[c].alloc \/ Past(g, c) = End(g)
                   \/ /\ c \in S /\ SameBlock(h, g, c)
                      /\ g.pages = h.pages \/ Past(h, c) # End(h)
  BY <1>3
<1> QED BY <1>1, <1>2, <1>4, <1>5 DEF Extended

(* A heap that grows page by page.                                         *)
Growth(h, m, f) == f = [n \in 0..m |-> IF n = 0 THEN h ELSE IncreaseWilderness(f[n - 1])]

(* The heaps of a growth page by page exist, by induction over the pages.  *)
LEMMA GrowthExists ==
  ASSUME NEW h, NEW m \in Nat
  PROVE  \E f : Growth(h, m, f)
<1> DEFINE Bad == {n \in 0..m : ~\E f : Growth(h, n, f)}
<1> SUFFICES ASSUME Bad # {} PROVE FALSE
  OBVIOUS
<1>1. Bad \in SUBSET Nat
  OBVIOUS
<1>2. PICK k \in Bad : \A y \in Bad : k <= y
  BY <1>1, LeastOf
<1>3. k # 0
  <2>1. Growth(h, 0, [n \in 0..0 |-> h])
    BY DEF Growth
  <2> QED BY <2>1
<1>4. k - 1 \in 0..m /\ k - 1 \notin Bad /\ k \in Nat
  BY <1>2, <1>3
<1>5. PICK f : Growth(h, k - 1, f)
  BY <1>4
<1> DEFINE g == [n \in 0..k |-> IF n = k THEN IncreaseWilderness(f[k - 1]) ELSE f[n]]
<1>6. ASSUME NEW n \in 0..k
      PROVE  g[n] = IF n = 0 THEN h ELSE IncreaseWilderness(g[n - 1])
  <2>1. CASE n = k
    <3>1. g[k - 1] = f[k - 1]
      BY <1>3, <1>4
    <3> QED BY <2>1, <3>1, <1>3
  <2>2. CASE n # k
    <3>1. n \in 0..(k - 1) /\ g[n] = f[n]
      BY <2>2, <1>4
    <3>2. f[n] = IF n = 0 THEN h ELSE IncreaseWilderness(f[n - 1])
      BY <3>1, <1>5 DEF Growth
    <3>3. n # 0 => n - 1 \in 0..k /\ n - 1 # k
      BY <2>2, <1>4
    <3>4. n # 0 => g[n - 1] = f[n - 1]
      BY <3>3
    <3> HIDE DEF g
    <3> QED BY <3>1, <3>2, <3>4
  <2> QED BY <2>1, <2>2
<1>7. Growth(h, k, g)
  <2>1. g = [n \in 0..k |-> g[n]]
    OBVIOUS
  <2> HIDE DEF g
  <2> QED BY <2>1, <1>6 DEF Growth
<1> QED BY <1>2, <1>7

(* Not growing is growing by nothing.                                      *)
LEMMA ExtendedSelf ==
  ASSUME NEW h, NEW S, Sound(h, S)
  PROVE  Extended(h, S, h, S)
<1>1. h.pages \in Nat
  BY HeapIn DEF Sound
<1> QED BY <1>1 DEF Extended, SameBlock

(* Each of them is the heap with more pages, by the same induction.        *)
LEMMA GrowthIs ==
  ASSUME NEW h, NEW S, Sound(h, S), NEW f, Growth(h, MaxPages - h.pages, f),
         NEW n \in 0..(MaxPages - h.pages)
  PROVE  f[n].pages = h.pages + n /\ \E T : Extended(h, S, f[n], T)
<1> DEFINE K == MaxPages - h.pages
           Good(i) == f[i].pages = h.pages + i /\ \E T : Extended(h, S, f[i], T)
           Bad == {i \in 0..K : ~Good(i)}
<1>1. h.pages \in Nat /\ K \in Nat /\ MaxPages \in Nat /\ h.pages + K = MaxPages
  BY HeapIn, Numbers DEF Sound
<1>2. \A i \in 0..K : f[i] = IF i = 0 THEN h ELSE IncreaseWilderness(f[i - 1])
  BY DEF Growth
<1> HIDE DEF K
<1> SUFFICES ASSUME Bad # {} PROVE FALSE
  BY DEF K
<1>3. Bad \in SUBSET Nat
  BY <1>1
<1>4. PICK k \in Bad : \A y \in Bad : k <= y
  BY <1>3, LeastOf
<1>5. k \in 0..K /\ ~Good(k)
  BY <1>4
<1>6. CASE k = 0
  BY <1>1, <1>2, <1>5, <1>6, ExtendedSelf
<1>7. CASE k # 0
  <2> DEFINE j == k - 1
  <2>1. j \in 0..K /\ j \notin Bad
    BY <1>1, <1>4, <1>5, <1>7
  <2>2. Good(j)
    BY <2>1
  <2>3. PICK T : Extended(h, S, f[j], T)
    BY <2>2
  <2>4. f[j].pages = h.pages + j /\ f[j].pages < MaxPages /\ f[j].pages \in Nat
    BY <2>2, <1>1, <1>5, <1>7
  <2>5. Sound(f[j], T)
    BY <2>3 DEF Extended
  <2>6. f[k] = IncreaseWilderness(f[j])
    BY <1>2, <1>5, <1>7
  <2>7. PICK R : Extended(f[j], T, f[k], R) /\ f[k].pages = f[j].pages + 1
    BY <2>4, <2>5, <2>6, Increased
  <2>8. f[k].pages = h.pages + k /\ f[k].pages \in Nat
    BY <2>4, <2>7, <1>1, <1>5
  <2>9. Extended(h, S, f[k], R)
    <3> HIDE DEF j
    <3> QED BY <2>3, <2>4, <2>7, <2>8, <1>1, ExtendedTwice
  <2> QED BY <2>8, <2>9, <1>5
<1> QED BY <1>6, <1>7

(* The heap grows until the last list has room, at most to all its pages.  *)
LEMMA GrownIs ==
  ASSUME NEW h, NEW S, Sound(h, S), NEW size, NEW align
  PROVE  LET g == Grown(h, size, align)
         IN  /\ \E T : Extended(h, S, g, T)
             /\ FirstFit(g, size, align, Wild) = NULL => g.pages = MaxPages
<1> DEFINE K == MaxPages - h.pages
           f == CHOOSE a : Growth(h, K, a)
           enough == {n \in 1..K : FirstFit(f[n], size, align, Wild) # NULL}
           last == IF enough = {} THEN K ELSE Min(enough)
           g == Grown(h, size, align)
<1>1. h.pages \in Nat /\ K \in Nat /\ MaxPages \in Nat /\ h.pages + K = MaxPages
  BY HeapIn, Numbers DEF Sound
<1>2. Growth(h, K, f)
  <2>1. \E a : Growth(h, K, a)
    BY <1>1, GrowthExists
  <2> QED BY <2>1
<1>3. g = f[last]
  BY DEF Grown, Growth
<1> HIDE DEF f, g
<1>4. /\ last \in 0..K
      /\ enough # {} => last \in enough
      /\ enough = {} => last = K
  <2>1. enough \in SUBSET Nat
    BY <1>1
  <2>2. enough # {} => Min(enough) \in enough
    BY <2>1, LeastOf
  <2>3. enough \subseteq 0..K
    BY <1>1
  <2> HIDE DEF enough
  <2>4. CASE enough = {}
    BY <2>4, <1>1
  <2>5. CASE enough # {}
    <3>1. last = Min(enough)
      BY <2>5
    <3> QED BY <2>2, <2>3, <2>5, <3>1
  <2> QED BY <2>4, <2>5
<1>5. f[last].pages = h.pages + last /\ \E T : Extended(h, S, f[last], T)
  <2> HIDE DEF last
  <2> QED BY <1>2, <1>4, GrowthIs
<1>6. FirstFit(g, size, align, Wild) = NULL => g.pages = MaxPages
  <2> HIDE DEF last
  <2>1. enough # {} => FirstFit(f[last], size, align, Wild) # NULL
    BY <1>4
  <2> HIDE DEF enough
  <2> QED BY <2>1, <1>1, <1>3, <1>4, <1>5
<1> QED BY <1>3, <1>5, <1>6 DEF g

(* FirstFit finds a free block that fits, or none of these lists has one.  *)
LEMMA FirstFitIs ==
  ASSUME NEW h, NEW S, Sound(h, S), NEW size, NEW align, NEW index \in Lists,
         NEW b, b = FirstFit(h, size, align, index)
  PROVE  /\ b # NULL => b \in S /\ ~h.head[b].alloc /\ Fits(h, b, size, align)
         /\ b = NULL => \A c \in index..Wild : \A x \in Range(h.list[c]) : ~Fits(h, x, size, align)
<1> DEFINE lists == {c \in index..Wild : Fitting(h, size, align, c) # {}}
           first == Min(lists)
           n     == Min(Fitting(h, size, align, first))
<1>1. index..Wild \subseteq Lists /\ Lists \subseteq Nat
  BY Numbers DEF Lists, Wild
<1>2. ASSUME NEW c \in Lists
      PROVE  /\ h.list[c] \in Seq(Units) /\ DOMAIN h.list[c] \subseteq Nat
             /\ Range(h.list[c]) = {x \in S : ~h.head[x].alloc /\ InList(h, c, x)}
  <2>1. h.list[c] \in Seq(Units)
    BY HeapIn DEF Sound
  <2> QED BY <2>1 DEF Sound, Listed
<1>3. b = IF lists = {} THEN NULL ELSE h.list[first][n]
  BY DEF FirstFit
<1>4. CASE lists = {}
  <2>1. ASSUME NEW c \in index..Wild, NEW x \in Range(h.list[c]), Fits(h, x, size, align)
        PROVE  FALSE
    <3>1. PICK i \in DOMAIN h.list[c] : h.list[c][i] = x
      BY DEF Range
    <3>2. i \in Fitting(h, size, align, c)
      BY <2>1, <3>1 DEF Fitting
    <3> QED BY <3>2, <1>4
  <2> QED BY <2>1, <1>3, <1>4
<1>5. CASE lists # {}
  <2>1. lists \in SUBSET Nat
    BY <1>1
  <2>2. first \in lists
    BY <2>1, <1>5, LeastOf
  <2>3. first \in Lists /\ Fitting(h, size, align, first) # {}
    BY <2>2, <1>1
  <2> HIDE DEF first
  <2>4. Fitting(h, size, align, first) \in SUBSET Nat
    BY <2>3, <1>2 DEF Fitting
  <2>5. n \in Fitting(h, size, align, first)
    BY <2>3, <2>4, LeastOf
  <2>6. n \in DOMAIN h.list[first] /\ Fits(h, h.list[first][n], size, align)
    BY <2>5 DEF Fitting
  <2>7. b = h.list[first][n]
    BY <1>3, <1>5
  <2>8. b \in Range(h.list[first])
    BY <2>6, <2>7 DEF Range
  <2>9. b \in S /\ ~h.head[b].alloc
    BY <2>3, <2>8, <1>2
  <2>10. b # NULL
    BY <2>9, TileFacts DEF Sound, NULL
  <2> QED BY <2>6, <2>7, <2>9, <2>10
<1> QED BY <1>4, <1>5

(* No list from the one for the size on has a block that fits: none fits.  *)
LEMMA NoneFits ==
  ASSUME NEW h, NEW S, Sound(h, S), NEW size \in Nat, NEW align \in Nat, align > 0,
         FirstFit(h, size, align, ClassOf(size)) = NULL, NEW b \in S, ~h.head[b].alloc
  PROVE  ~Fits(h, b, size, align)
<1> DEFINE c == ListFor(h, b)
           k == ClassOf(size)
<1>1. b \in Nat /\ h.head[b].size \in Nat
  BY TileFacts DEF Sound
<1>2. c \in Lists /\ InList(h, c, b)
  BY <1>1, OneList
<1>3. k \in Lists /\ \A d \in 0..(k - 1) : size > MinUnits * 2^d
  BY ClassIn
<1>4. Lists \subseteq Nat /\ \A d \in Lists : d <= Wild
  BY Numbers DEF Lists, Wild
<1> HIDE DEF c, k
<1>5. b \in Range(h.list[c])
  BY <1>2 DEF Sound, Listed
<1>6. CASE c >= k
  <2>1. c \in k..Wild
    BY <1>2, <1>3, <1>4, <1>6, Numbers DEF Wild
  <2>2. \A d \in k..Wild : \A x \in Range(h.list[d]) : ~Fits(h, x, size, align)
    BY <1>3, FirstFitIs DEF k
  <2> QED BY <2>1, <2>2, <1>5
<1>7. CASE c < k
  <2>1. c \in 0..(k - 1) /\ c # Wild
    BY <1>2, <1>3, <1>4, <1>7
  <2>2. ~(h.head[b].size > MinUnits * 2^c)
    BY <2>1, <1>2 DEF InList
  <2>3. size > MinUnits * 2^c /\ MinUnits * 2^c \in Int
    BY <2>1, <1>3, <1>4, <1>2 DEF MinUnits
  <2>4. size > h.head[b].size
    BY <2>2, <2>3, <1>1
  <2>5. Padding(b, align) \in Nat
    BY <1>1, PaddingIs
  <2> QED BY <2>4, <2>5, <1>1 DEF Fits
<1> QED BY <1>2, <1>3, <1>4, <1>6, <1>7

(* sf_generalize_allocation gives a block out, or fails with a full heap.  *)
LEMMA Generalized ==
  ASSUME NEW h, NEW S, Sound(h, S), NEW n \in Nat, NEW align \in Nat, align > 0,
         NEW r, r = GeneralizeAllocation(h, n, align)
  PROVE  /\ r.block = NULL =>
              \E T : /\ Extended(h, S, r.heap, T) /\ r.heap.pages = MaxPages
                     /\ \A b \in T : ~r.heap.head[b].alloc => ~Fits(r.heap, b, Actual(n), align)
         /\ r.block # NULL => \E T : GivenOut(h, S, r.block, Actual(n), align, r.heap, T)
<1> DEFINE size  == Actual(n)
           found == FirstFit(h, size, align, ClassOf(size))
           grown == Grown(h, size, align)
           later == FirstFit(grown, size, align, Wild)
<1>1. size \in Nat /\ size >= MinUnits
  BY ActualIs
<1>2. ClassOf(size) \in Lists /\ Wild \in Lists
  BY <1>1, ClassIn, Numbers DEF Lists, Wild
<1>3. r = CASE found # NULL -> [heap |-> Taken(h, found, size, align),
                                block |-> found + Padding(found, align)]
            [] found = NULL /\ later # NULL ->
                 [heap |-> Taken(grown, later, size, align),
                  block |-> later + Padding(later, align)]
            [] OTHER -> [heap |-> grown, block |-> NULL]
  BY DEF GeneralizeAllocation
<1>4. /\ \E T : Extended(h, S, grown, T)
      /\ later = NULL => grown.pages = MaxPages
  BY GrownIs
<1> HIDE DEF size, grown
<1>5. /\ found # NULL => found \in S /\ ~h.head[found].alloc /\ Fits(h, found, size, align)
      /\ found = NULL => \A b \in S : ~h.head[b].alloc => ~Fits(h, b, size, align)
  <2>1. found = NULL => \A b \in S : ~h.head[b].alloc => ~Fits(h, b, size, align)
    BY <1>1, NoneFits
  <2> QED BY <2>1, <1>2, FirstFitIs
<1>6. PICK R : Extended(h, S, grown, R)
  BY <1>4
<1>7. Sound(grown, R)
  BY <1>6 DEF Extended
<1>8. /\ later # NULL => later \in R /\ ~grown.head[later].alloc /\ Fits(grown, later, size, align)
      /\ later = NULL => \A x \in Range(grown.list[Wild]) : ~Fits(grown, x, size, align)
  <2>1. Wild \in Wild..Wild
    BY <1>2, Numbers DEF Wild
  <2> QED BY <2>1, <1>2, <1>7, FirstFitIs
<1> HIDE DEF found, later
<1>9. \A b \in S \cup R : b + Padding(b, align) # NULL
  <2>1. \A b \in S \cup R : b \in Nat
    BY <1>7, TileFacts DEF Sound
  <2>2. \A b \in S \cup R : Padding(b, align) \in Nat
    BY <2>1, PaddingIs
  <2>3. \A i, j \in Nat : i + j # NULL
    BY DEF NULL
  <2> QED BY <2>1, <2>2, <2>3
<1>10. CASE found # NULL
  <2>1. r.heap = Taken(h, found, size, align) /\ r.block = found + Padding(found, align)
    BY <1>3, <1>10
  <2>2. \E T : GivenOut(h, S, r.block, size, align, r.heap, T)
    BY <2>1, <1>1, <1>5, <1>10, TakenIs
  <2>3. r.block # NULL
    BY <2>1, <1>5, <1>9, <1>10
  <2> QED BY <2>2, <2>3 DEF size
<1>11. CASE found = NULL /\ later # NULL
  <2>1. r.heap = Taken(grown, later, size, align) /\ r.block = later + Padding(later, align)
    BY <1>3, <1>11
  <2>2. PICK T : GivenOut(grown, R, r.block, size, align, r.heap, T)
    BY <2>1, <1>1, <1>7, <1>8, <1>11, TakenIs
  <2>3. r.block # NULL
    BY <2>1, <1>8, <1>9, <1>11
  <2>4. GivenOut(h, S, r.block, size, align, r.heap, T)
    <3>1. Held(grown, R) = Held(h, S) /\ (FeetFree(h) => FeetFree(grown))
      BY <1>6 DEF Extended
    <3>2. \A c \in Held(h, S) : SameBlock(h, r.heap, c)
      BY <2>2, <3>1, <1>6, SameTwice DEF Extended, GivenOut
    <3> QED BY <2>2, <3>1, <3>2 DEF GivenOut
  <2> QED BY <2>3, <2>4 DEF size
<1>12. CASE found = NULL /\ later = NULL
  <2>1. r.heap = grown /\ r.block = NULL
    BY <1>3, <1>12
  <2>2. ASSUME NEW b \in R, ~grown.head[b].alloc PROVE ~Fits(grown, b, size, align)
    <3>1. CASE Past(grown, b) = End(grown)
      <4>1. InList(grown, Wild, b)
        BY <3>1 DEF InList, Past
      <4>2. b \in Range(grown.list[Wild])
        BY <4>1, <2>2, <1>2, <1>7 DEF Sound, Listed
      <4> QED BY <4>2, <1>8, <1>12
    <3>2. CASE Past(grown, b) # End(grown)
      <4>1. b \in S /\ SameBlock(h, grown, b)
        BY <3>2, <2>2, <1>6 DEF Extended
      <4>2. grown.head[b].size = h.head[b].size /\ ~h.head[b].alloc
        BY <4>1, <2>2 DEF SameBlock
      <4> QED BY <4>1, <4>2, <1>5, <1>12 DEF Fits
    <3> QED BY <3>1, <3>2
  <2> QED BY <2>1, <2>2, <1>4, <1>6, <1>12 DEF size, later
<1> QED BY <1>10, <1>11, <1>12

(* One step of the walk from block to block.                               *)
Ends(h, b) == b >= End(h) \/ h.head[b] \notin Headers \/ h.head[b].size = 0
Walk(h, f, b) ==
  IF Ends(h, b) THEN {}
  ELSE {b} \cup (IF Past(h, b) \in Units THEN f[Past(h, b)] ELSE {})

(* The walk is a function, by induction from the end of the heap.          *)
LEMMA WalkExists ==
  ASSUME NEW h \in Heaps
  PROVE  \E f : f = [b \in Units |-> Walk(h, f, b)]
<1> DEFINE Right(f, j) == /\ f = [b \in Units |-> f[b]]
                          /\ \A b \in Units : b >= NUnits - j => f[b] = Walk(h, f, b)
           Bad == {j \in 0..NUnits : ~\E f : Right(f, j)}
<1>1. NUnits \in Nat /\ Units = 0..(NUnits - 1)
  BY Numbers
<1>2. Bad = {}
  <2> SUFFICES ASSUME Bad # {} PROVE FALSE
    OBVIOUS
  <2>1. Bad \in SUBSET Nat
    BY <1>1
  <2>2. PICK k \in Bad : \A y \in Bad : k <= y
    BY <2>1, LeastOf
  <2>3. k \in Nat /\ k <= NUnits /\ ~\E f : Right(f, k)
    BY <2>2, <1>1
  <2>4. k # 0
    <3>1. Right([b \in Units |-> {}], 0)
      BY <1>1
    <3> QED BY <3>1, <2>3
  <2>5. k - 1 \in 0..NUnits /\ k - 1 \notin Bad
    BY <2>2, <2>3, <2>4, <1>1
  <2>6. PICK f : Right(f, k - 1)
    BY <2>5
  <2> DEFINE u == NUnits - k
             g == [f EXCEPT ![u] = Walk(h, f, u)]
  <2>7. u \in Units
    BY <2>3, <2>4, <1>1
  <2>8. /\ g = [b \in Units |-> g[b]]
        /\ \A b \in Units : g[b] = IF b = u THEN Walk(h, f, u) ELSE f[b]
    <3> HIDE DEF u
    <3> QED BY <2>6, <2>7
  <2> HIDE DEF g
  <2>9. ASSUME NEW b \in Units, b >= u PROVE Walk(h, g, b) = Walk(h, f, b)
    <3>1. CASE Ends(h, b)
      BY <3>1 DEF Walk
    <3>2. CASE ~Ends(h, b)
      <4>1. h.head[b].size \in Nat /\ h.head[b].size # 0
        BY <3>2, Numbers DEF Ends
      <4>2. Past(h, b) # u
        BY <4>1, <2>7, <2>9, <1>1 DEF Past
      <4>3. Past(h, b) \in Units => g[Past(h, b)] = f[Past(h, b)]
        BY <4>2, <2>8
      <4> QED BY <4>3 DEF Walk
    <3> QED BY <3>1, <3>2
  <2>10. ASSUME NEW b \in Units, b >= u PROVE g[b] = Walk(h, g, b)
    <3>1. CASE b = u
      BY <3>1, <2>7, <2>8, <2>9, <2>10
    <3>2. CASE b # u
      <4>1. b >= NUnits - (k - 1)
        BY <3>2, <2>10, <2>3, <1>1
      <4>2. f[b] = Walk(h, f, b)
        BY <4>1, <2>6
      <4> QED BY <4>2, <3>2, <2>8, <2>9, <2>10
    <3> QED BY <3>1, <3>2
  <2>11. Right(g, k)
    BY <2>8, <2>10
  <2> QED BY <2>3, <2>11
<1>3. NUnits \in 0..NUnits
  BY <1>1
<1>4. PICK f : Right(f, NUnits)
  BY <1>2, <1>3
<1>5. \A b \in Units : f[b] = Walk(h, f, b)
  BY <1>1, <1>4
<1>6. f = [b \in Units |-> f[b]]
  BY <1>4
<1> HIDE DEF Bad, Right
<1>7. f = [b \in Units |-> Walk(h, f, b)]
  BY <1>5, <1>6
<1> QED BY <1>7

(* The walk finds the blocks of the heap.                                  *)
LEMMA BlocksAre ==
  ASSUME NEW h \in Heaps, h.pages > 0, NEW S, Tiles(h, S)
  PROVE  BlocksFrom(h) = S
<1> DEFINE f == CHOOSE a : a = [b \in Units |-> Walk(h, a, b)]
           end == End(h)
           After(b) == {c \in S : c >= b}
           Bad == {i \in 0..end : \E b \in S : i = end - b /\ f[b] # After(b)}
<1>1. f = [b \in Units |-> Walk(h, f, b)]
  <2>1. \E a : a = [b \in Units |-> Walk(h, a, b)]
    BY WalkExists
  <2> QED BY <2>1
<1>2. BlocksFrom(h) = f[2]
  BY DEF BlocksFrom, Walk, Ends, Past
<1> HIDE DEF f
<1>3. \A b \in Units : f[b] = Walk(h, f, b)
  BY <1>1
<1>4. end \in Nat /\ end \in Units /\ S \subseteq 2..(end - 1) /\ 2 \in S
  BY EndIn DEF Tiles
<1> HIDE DEF end
<1>5. f[end] = {}
  <2>1. end >= end
    BY <1>4
  <2>2. Ends(h, end)
    BY <2>1 DEF Ends, end
  <2> QED BY <2>2, <1>3, <1>4 DEF Walk
<1>6. ASSUME NEW b \in S
      PROVE  f[b] = {b} \cup f[Past(h, b)]
  <2>1. b \in Units /\ Past(h, b) \in Units /\ h.head[b] \in Headers /\ h.head[b].size >= 2
        /\ h.head[b].size \in Nat /\ b \in Nat /\ b < end
    BY <1>4, TileFacts
  <2>2. ~Ends(h, b)
    BY <2>1, <1>4 DEF Ends, end
  <2> QED BY <2>1, <2>2, <1>3 DEF Walk
<1>7. Bad = {}
  <2> SUFFICES ASSUME Bad # {} PROVE FALSE
    OBVIOUS
  <2>1. Bad \in SUBSET Nat
    BY <1>4
  <2>2. PICK i \in Bad : \A y \in Bad : i <= y
    BY <2>1, LeastOf
  <2>3. PICK b \in S : i = end - b /\ f[b] # After(b)
    BY <2>2
  <2>4. /\ b \in Nat /\ Past(h, b) \in Nat /\ Past(h, b) > b
        /\ Past(h, b) \in S \cup {end} /\ \A c \in S : c \in Nat /\ ~(b < c /\ c < Past(h, b))
    <3>1. /\ b \in Nat /\ Past(h, b) \in Nat /\ Past(h, b) >= b + 2
          /\ \A c \in S : c \in Nat
      BY TileFacts
    <3>2. Past(h, b) \in S \cup {end} /\ \A c \in S : ~(b < c /\ c < Past(h, b))
      BY DEF Tiles, end
    <3> QED BY <3>1, <3>2
  <2>5. After(b) = {b} \cup After(Past(h, b))
    BY <2>4
  <2>6. f[Past(h, b)] = After(Past(h, b))
    <3>1. CASE Past(h, b) = end
      BY <3>1, <1>4, <1>5
    <3>2. CASE Past(h, b) \in S /\ f[Past(h, b)] # After(Past(h, b))
      <4>1. end - Past(h, b) \in Bad
        <5>1. Past(h, b) \in 2..(end - 1) /\ end - Past(h, b) \in 0..end
          <6> DEFINE c == Past(h, b)
          <6>1. c \in S /\ S \subseteq 2..(end - 1) /\ end \in Nat
            BY <3>2, <1>4
          <6> HIDE DEF c, Bad, After
          <6>2. c \in 2..(end - 1)
            BY <6>1
          <6>3. end - c \in 0..end
            BY <6>1, <6>2
          <6> QED BY <6>2, <6>3 DEF c
        <5> HIDE DEF After
        <5> QED BY <5>1, <3>2
      <4>2. end - Past(h, b) < i /\ end - Past(h, b) \in Int
        BY <2>3, <2>4, <1>4
      <4>3. i <= end - Past(h, b)
        BY <4>1, <2>2
      <4> HIDE DEF Bad
      <4> QED BY <4>2, <4>3, <2>3, <2>4, <1>4
    <3> QED BY <3>1, <3>2, <2>4
  <2> HIDE DEF After
  <2> QED BY <2>3, <2>5, <2>6, <1>6
<1>8. f[2] = After(2)
  <2>1. end - 2 \in 0..end
    BY <1>4
  <2> QED BY <2>1, <1>4, <1>7
<1>9. After(2) = S
  <2>1. \A c \in S : c >= 2
    BY <1>4
  <2> QED BY <2>1
<1> QED BY <1>2, <1>8, <1>9

(* What is in the blocks is nobody's business.                             *)
LEMMA KeepsSound ==
  ASSUME NEW h, NEW S, Sound(h, S), NEW g \in Heaps, g.pages = h.pages, g.list = h.list,
         \A c \in S \cup {End(h)} : g.head[c] = h.head[c],
         \A c \in S : ~h.head[c].alloc => g.foot[Past(h, c) - 1] = h.foot[Past(h, c) - 1]
  PROVE  Sound(g, S) /\ Held(g, S) = Held(h, S)
<1>1. h \in Heaps /\ h.pages > 0 /\ Tiles(h, S) /\ Bits(h, S, NULL) /\ Listed(h, S, {})
  BY DEF Sound
<1>2. End(g) = End(h) /\ \A c \in S : Past(g, c) = Past(h, c) /\ Past(h, c) \in S \cup {End(h)}
  BY <1>1 DEF End, Past, Tiles
<1>3. Tiles(g, S)
  <2>1. ASSUME NEW b \in S
        PROVE  /\ g.head[b] \in Headers /\ g.head[b].size >= MinUnits
               /\ Past(g, b) \in S \cup {End(g)}
               /\ \A c \in S : ~(b < c /\ c < Past(g, b))
               /\ b = 2 \/ \E c \in S : Past(g, c) = b
    BY <1>1, <1>2 DEF Tiles
  <2>2. S \subseteq 2..(End(g) - 1) /\ 2 \in S
    BY <1>1, <1>2 DEF Tiles
  <2>3. \E c \in S : Past(g, c) = End(g)
    BY <1>1, <1>2 DEF Tiles
  <2>4. g.head[End(g)] \in Headers /\ g.head[End(g)].size = 0 /\ g.head[End(g)].alloc
    BY <1>1, <1>2 DEF Tiles
  <2> QED BY <2>1, <2>2, <2>3, <2>4 DEF Tiles
<1>4. Bits(g, S, NULL)
  <2>1. g.head[2].prev
    BY <1>1 DEF Tiles, Bits
  <2>2. ASSUME NEW c \in S
        PROVE  /\ g.head[Past(g, c)].prev <=> g.head[c].alloc
               /\ ~g.head[c].alloc => /\ g.foot[Past(g, c) - 1] = g.head[c]
                                      /\ g.head[Past(g, c)].alloc
    <3>1. c # NULL /\ Past(h, c) # NULL
      BY <1>1, TileFacts DEF NULL
    <3>2. /\ h.head[Past(h, c)].prev <=> h.head[c].alloc
          /\ ~h.head[c].alloc => /\ h.foot[Past(h, c) - 1] = h.head[c]
                                 /\ h.head[Past(h, c)].alloc
      BY <3>1, <1>1 DEF Bits
    <3> QED BY <3>2, <1>2
  <2> QED BY <2>1, <2>2 DEF Bits
<1>5. Listed(g, S, {})
  <2>1. ASSUME NEW c \in Lists, NEW x \in S PROVE InList(g, c, x) <=> InList(h, c, x)
    BY SameInList
  <2>2. ASSUME NEW c \in Lists
        PROVE  Range(g.list[c]) = {x \in S : ~g.head[x].alloc /\ InList(g, c, x)}
    <3>1. Range(h.list[c]) = {x \in S : ~h.head[x].alloc /\ InList(h, c, x)}
      BY <1>1 DEF Listed
    <3> QED BY <3>1, <2>1
  <2>3. \A c \in Lists : IsInjective(g.list[c])
    BY <1>1 DEF Listed
  <2> QED BY <2>2, <2>3 DEF Listed
<1>6. Held(g, S) = Held(h, S)
  BY DEF Held
<1> QED BY <1>1, <1>3, <1>4, <1>5, <1>6 DEF Sound

(* g is h with all but the data and what the allocator keeps forgotten.    *)
Forgotten(h, S, g) ==
  /\ Sound(g, S) /\ Held(g, S) = Held(h, S) /\ g.pages = h.pages
  /\ \A c \in S : g.head[c] = h.head[c]
  /\ \A u \in Units : g.foot[u] = h.foot[u] \/ g.foot[u] = Junk
  /\ \A b \in Held(h, S) : \A u \in b..(Past(h, b) - 1) :
       /\ h.head[u] = Data => g.head[u] = Data
       /\ h.foot[u] = Data => g.foot[u] = Data

(* What Forget makes junk is no header, footer of a free block or data.    *)
LEMMA SettledIs ==
  ASSUME NEW h, NEW S, Sound(h, S)
  PROVE  Forgotten(h, S, Settled(h))
<1> DEFINE free  == {b \in S : ~h.head[b].alloc}
           feet  == {b + h.head[b].size - 1 : b \in free}
           taken == UNION {b..(b + h.head[b].size - 1) : b \in S \ free}
           e == [u \in Units |-> IF \/ u \in S \cup {0, End(h)} \/ u - 1 \in free
                                    \/ u \in taken /\ h.head[u] = Data
                                 THEN h.head[u] ELSE Junk]
           f == [u \in Units |-> IF \/ u \in free \cup feet
                                    \/ u \in taken /\ h.foot[u] = Data
                                 THEN h.foot[u] ELSE Junk]
           g == Settled(h)
<1>1. h \in Heaps /\ h.pages > 0 /\ Tiles(h, S)
  BY DEF Sound
<1>2. BlocksFrom(h) = S
  BY <1>1, BlocksAre
<1>3. h.head \in [Units -> Words] /\ h.foot \in [Units -> Words] /\ h.pages \in Nat
  BY <1>1, HeapIn
<1>4. CASE Forget
  <2>1. g = [h EXCEPT !.head = e, !.foot = f]
    BY <1>1, <1>2, <1>3, <1>4 DEF Settled, Heaps
  <2>2. e \in [Units -> Words] /\ f \in [Units -> Words]
    BY <1>3, WordFacts
  <2> DEFINE k == [h EXCEPT !.head = e]
  <2>3. g = [k EXCEPT !.foot = f]
    BY <2>1
  <2> HIDE DEF e, f, g
  <2>4. k \in Heaps /\ k.pages = h.pages /\ k.list = h.list /\ k.head = e
    BY <1>1, <2>2, HeapMade
  <2> HIDE DEF k
  <2>5. g \in Heaps /\ g.pages = h.pages /\ g.list = h.list /\ g.head = e /\ g.foot = f
    BY <2>2, <2>3, <2>4, HeapMade
  <2>6. \A c \in S \cup {End(h)} : g.head[c] = h.head[c]
    <3>1. \A c \in S \cup {End(h)} : c \in Units
      BY <1>1, TileFacts, EndIn
    <3> QED BY <3>1, <2>5 DEF e
  <2>7. ASSUME NEW c \in S, ~h.head[c].alloc
        PROVE  g.foot[Past(h, c) - 1] = h.foot[Past(h, c) - 1]
    <3>1. Past(h, c) - 1 \in Units
      BY <1>1, TileFacts
    <3>2. Past(h, c) - 1 \in feet
      <4>1. c \in free
        BY <2>7
      <4>2. Past(h, c) = c + h.head[c].size
        BY DEF Past
      <4> HIDE DEF free
      <4>3. c + h.head[c].size - 1 \in feet
        BY <4>1
      <4>4. c \in Nat /\ h.head[c].size \in Nat
        BY <1>1, TileFacts
      <4> HIDE DEF feet
      <4> QED BY <4>2, <4>3, <4>4
    <3> HIDE DEF feet, taken
    <3> QED BY <3>1, <3>2, <2>5 DEF f
  <2>8. Sound(g, S) /\ Held(g, S) = Held(h, S)
    BY <2>5, <2>6, <2>7, KeepsSound
  <2>9. \A u \in Units : g.foot[u] = h.foot[u] \/ g.foot[u] = Junk
    BY <2>5 DEF f
  <2>10. ASSUME NEW b \in Held(h, S), NEW u \in b..(Past(h, b) - 1)
         PROVE  /\ h.head[u] = Data => g.head[u] = Data
                /\ h.foot[u] = Data => g.foot[u] = Data
    <3>1. u \in taken
      <4>1. b \in S \ free
        BY DEF Held
      <4>2. Past(h, b) = b + h.head[b].size
        BY DEF Past
      <4> HIDE DEF free
      <4>3. u \in b..(b + h.head[b].size - 1)
        <5>1. b \in Nat /\ h.head[b].size \in Nat
          BY <1>1, TileFacts DEF Held
        <5> QED BY <4>2, <5>1
      <4> QED BY <4>1, <4>3
    <3>2. u \in Units
      <4>1. b \in Nat /\ Past(h, b) \in Nat /\ Past(h, b) <= End(h) /\ End(h) < NUnits
            /\ End(h) \in Nat
        BY <1>1, TileFacts, EndIn DEF Held
      <4> QED BY <4>1, Numbers
    <3> HIDE DEF taken, feet, free
    <3> QED BY <3>1, <3>2, <2>5 DEF e, f
  <2> QED BY <2>5, <2>6, <2>8, <2>9, <2>10 DEF Forgotten, g
<1>5. CASE ~Forget
  <2>1. Settled(h) = h
    BY <1>5 DEF Settled
  <2> QED BY <2>1 DEF Forgotten
<1> QED BY <1>4, <1>5

(* Block b has the room and the place for x, and the data x says.          *)
Mine(h, b, x) ==
  /\ x \in [asked : Requests, align : Nat, written : Nat]
  /\ x.written <= x.asked /\ x.asked <= 16 * h.head[b].size - 8
  /\ (b + 1) % x.align = 0

Holds(h, b, x) ==
  \A u \in Units :
    /\ InHead(u, b, x.written) => h.head[u] = Data
    /\ InFoot(u, b, x.written) => h.foot[u] = Data

(* A heap and what the user has of it.                                     *)
Kept(h, l, S) ==
  /\ Sound(h, S) /\ DOMAIN l = Held(h, S)
  /\ \A b \in DOMAIN l : Mine(h, b, l[b])
  /\ ~Lookalike => /\ FeetFree(h)
                   /\ \A b \in DOMAIN l : Holds(h, b, l[b])

(* Where an allocated block is.                                            *)
LEMMA HeldFacts ==
  ASSUME NEW h, NEW S, Sound(h, S), NEW b \in Held(h, S)
  PROVE  /\ b \in S /\ b \in Units /\ b \in Nat /\ b >= 2 /\ h.head[b].alloc
         /\ h.head[b] \in Headers /\ h.head[b].size \in Nat /\ h.head[b].size >= 2
         /\ Past(h, b) \in Nat /\ Past(h, b) = b + h.head[b].size
         /\ Past(h, b) <= End(h) /\ End(h) \in Nat /\ End(h) < NUnits
         /\ b..(Past(h, b) - 1) \subseteq Units
<1>1. h \in Heaps /\ h.pages > 0 /\ Tiles(h, S) /\ b \in S /\ h.head[b].alloc
  BY DEF Sound, Held
<1>2. /\ b \in Units /\ b \in Nat /\ b >= 2 /\ h.head[b] \in Headers
      /\ h.head[b].size \in Nat /\ h.head[b].size >= 2
      /\ Past(h, b) \in Nat /\ Past(h, b) <= End(h)
  BY <1>1, TileFacts
<1>3. End(h) \in Nat /\ End(h) < NUnits
  BY <1>1, EndIn
<1>4. Past(h, b) = b + h.head[b].size
  BY DEF Past
<1>5. b..(Past(h, b) - 1) \subseteq Units
  BY <1>2, <1>3, Numbers
<1> QED BY <1>1, <1>2, <1>3, <1>4, <1>5

(* The rows of n bytes are rows of the block.                              *)
LEMMA InRoom ==
  ASSUME NEW h, NEW S, Sound(h, S), NEW b \in Held(h, S), NEW n \in Nat,
         n <= 16 * h.head[b].size - 8, NEW u \in Units
  PROVE  /\ InHead(u, b, n) => u > b /\ u \in b..(Past(h, b) - 1)
         /\ InFoot(u, b, n) => u \in b..(Past(h, b) - 1)
<1>1. /\ b \in Nat /\ h.head[b].size \in Nat /\ Past(h, b) = b + h.head[b].size
      /\ Past(h, b) \in Nat
  BY HeldFacts
<1>2. u \in Nat
  BY Numbers
<1> DEFINE z == h.head[b].size
<1>3. z \in Nat /\ n <= 16 * z - 8 /\ Past(h, b) = b + z
  BY <1>1
<1> HIDE DEF z
<1>4. InHead(u, b, n) => u > b /\ u - b < z
  BY <1>1, <1>2, <1>3 DEF InHead
<1>5. InFoot(u, b, n) => u >= b /\ u - b < z
  BY <1>1, <1>2, <1>3 DEF InFoot
<1> QED BY <1>1, <1>2, <1>3, <1>4, <1>5

(* Who keeps the rows of a block keeps what the user wrote there.          *)
LEMMA SameHolds ==
  ASSUME NEW h, NEW S, Sound(h, S), NEW b \in Held(h, S), NEW x, Mine(h, b, x),
         NEW g, g.head[b].size = h.head[b].size,
         \A u \in b..(Past(h, b) - 1) :
           /\ u > b /\ h.head[u] = Data => g.head[u] = Data
           /\ h.foot[u] = Data => g.foot[u] = Data
  PROVE  Mine(g, b, x) /\ (Holds(h, b, x) => Holds(g, b, x))
<1>1. Mine(g, b, x)
  BY DEF Mine
<1>2. /\ x.written \in Nat /\ x.written <= 16 * h.head[b].size - 8
  <2>1. /\ x.written \in Nat /\ x.asked \in Nat /\ x.written <= x.asked
        /\ x.asked <= 16 * h.head[b].size - 8
    <3>1. Requests \subseteq Nat
      BY SfmmNumbers
    <3>2. x.asked \in Requests /\ x.written \in Nat
      BY DEF Mine
    <3> QED BY <3>1, <3>2 DEF Mine
  <2>2. h.head[b].size \in Nat
    BY HeldFacts
  <2> QED BY <2>1, <2>2
<1>3. ASSUME NEW u \in Units, Holds(h, b, x)
      PROVE  /\ InHead(u, b, x.written) => g.head[u] = Data
             /\ InFoot(u, b, x.written) => g.foot[u] = Data
  <2>1. /\ InHead(u, b, x.written) => u > b /\ u \in b..(Past(h, b) - 1)
        /\ InFoot(u, b, x.written) => u \in b..(Past(h, b) - 1)
    BY <1>2, InRoom
  <2> QED BY <2>1, <1>3 DEF Holds
<1> QED BY <1>1, <1>3 DEF Holds

(* Forgetting takes nothing from the user.                                 *)
LEMMA SettledKept ==
  ASSUME NEW h, NEW l, NEW S, Kept(h, l, S)
  PROVE  Kept(Settled(h), l, S)
<1> DEFINE g == Settled(h)
<1>1. Sound(h, S) /\ DOMAIN l = Held(h, S)
  BY DEF Kept
<1>2. Forgotten(h, S, g)
  BY <1>1, SettledIs
<1> HIDE DEF g
<1>3. ASSUME NEW b \in DOMAIN l
      PROVE  Mine(g, b, l[b]) /\ (Holds(h, b, l[b]) => Holds(g, b, l[b]))
  <2>1. b \in Held(h, S) /\ Mine(h, b, l[b]) /\ b \in S
    BY <1>1 DEF Kept, Held
  <2>2. g.head[b].size = h.head[b].size
    BY <2>1, <1>2 DEF Forgotten
  <2>3. \A u \in b..(Past(h, b) - 1) :
           /\ u > b /\ h.head[u] = Data => g.head[u] = Data
           /\ h.foot[u] = Data => g.foot[u] = Data
    BY <2>1, <1>2 DEF Forgotten
  <2> QED BY <2>1, <2>2, <2>3, <1>1, SameHolds
<1>4. FeetFree(h) => FeetFree(g)
  BY <1>2, WordFacts DEF FeetFree, Forgotten
<1>5. Sound(g, S) /\ DOMAIN l = Held(g, S)
  BY <1>1, <1>2 DEF Forgotten
<1> QED BY <1>3, <1>4, <1>5 DEF Kept, g

(* What the user has stays, or is new or moved and as it should be.        *)
LEMMA Carried ==
  ASSUME NEW h, NEW l, NEW S, Kept(h, l, S), NEW g, NEW T, Sound(g, T),
         ~Lookalike /\ FeetFree(h) => FeetFree(g), NEW m, DOMAIN m = Held(g, T),
         \A b \in DOMAIN m :
           \/ b \in DOMAIN l /\ m[b] = l[b] /\ SameBlock(h, g, b)
           \/ Mine(g, b, m[b]) /\ (~Lookalike => Holds(g, b, m[b]))
  PROVE  Kept(g, m, T)
<1>1. ASSUME NEW b \in DOMAIN m
      PROVE  Mine(g, b, m[b]) /\ (~Lookalike => Holds(g, b, m[b]))
  <2> SUFFICES ASSUME b \in DOMAIN l, m[b] = l[b], SameBlock(h, g, b)
               PROVE  Mine(g, b, l[b]) /\ (~Lookalike => Holds(g, b, l[b]))
    OBVIOUS
  <2>1. Sound(h, S) /\ b \in Held(h, S) /\ Mine(h, b, l[b])
        /\ (~Lookalike => Holds(h, b, l[b]))
    BY DEF Kept
  <2>2. Mine(g, b, l[b]) /\ (Holds(h, b, l[b]) => Holds(g, b, l[b]))
    <3>1. \A u \in b..(Past(h, b) - 1) :
             /\ u > b /\ h.head[u] = Data => g.head[u] = Data
             /\ h.foot[u] = Data => g.foot[u] = Data
      BY DEF SameBlock
    <3>2. g.head[b].size = h.head[b].size
      BY DEF SameBlock
    <3> QED BY <2>1, <3>1, <3>2, SameHolds
  <2> QED BY <2>1, <2>2
<1> QED BY <1>1 DEF Kept

(* Nothing is written at once.                                             *)
LEMMA GivenMine ==
  ASSUME NEW h, NEW b \in Nat, NEW n \in Requests, n + 23 < SizeLimit,
         NEW align \in Nat, (b + 1) % align = 0,
         h.head[b].size \in Nat, Actual(n) <= h.head[b].size
  PROVE  Mine(h, b, Given(n, align)) /\ Holds(h, b, Given(n, align))
<1> DEFINE x == Given(n, align)
<1>1. n \in Nat
  BY SfmmNumbers
<1>2. /\ x \in [asked : Requests, align : Nat, written : Nat]
      /\ x.asked = n /\ x.align = align /\ x.written = 0
  BY DEF Given
<1> HIDE DEF x
<1>3. n <= 16 * h.head[b].size - 8
  <2>1. Actual(n) \in Nat /\ n <= 16 * Actual(n) - 8
    BY <1>1, ActualIs
  <2> QED BY <2>1, <1>1
<1>4. Mine(h, b, x)
  BY <1>1, <1>2, <1>3 DEF Mine
<1>5. \A u \in Units : ~InHead(u, b, 0) /\ ~InFoot(u, b, 0)
  <2>1. \A u \in Units : u \in Nat
    BY Numbers
  <2> QED BY <2>1 DEF InHead, InFoot
<1> QED BY <1>2, <1>4, <1>5 DEF Holds, x

(* The effects of the calls on a heap and what the user has of it.         *)
LEMMA AllocKept ==
  ASSUME NEW h, NEW l, NEW S, Kept(h, l, S), NEW n \in Requests, n + 23 < SizeLimit,
         NEW align \in Nat, align > 0, NEW r, r = GeneralizeAllocation(h, n, align)
  PROVE  /\ r.block = NULL => \E T : Kept(r.heap, l, T)
         /\ r.block # NULL =>
              \E T : /\ Kept(r.heap, Also(l, r.block, Given(n, align)), T)
                     /\ r.block \notin DOMAIN l /\ Actual(n) <= r.heap.head[r.block].size
                     /\ \A b \in DOMAIN l : SameBlock(h, r.heap, b)
<1>1. Sound(h, S) /\ DOMAIN l = Held(h, S) /\ n \in Nat
  BY SfmmNumbers DEF Kept
<1>2. CASE r.block = NULL
  <2>1. PICK T : Extended(h, S, r.heap, T)
    BY <1>1, <1>2, Generalized
  <2>2. Kept(r.heap, l, T)
    <3>1. /\ Sound(r.heap, T) /\ (FeetFree(h) => FeetFree(r.heap))
          /\ DOMAIN l = Held(r.heap, T) /\ \A b \in DOMAIN l : SameBlock(h, r.heap, b)
      BY <1>1, <2>1 DEF Extended
    <3> QED BY <3>1, Carried
  <2> QED BY <1>2, <2>2
<1>3. CASE r.block # NULL
  <2> DEFINE p == r.block
             g == r.heap
             m == Also(l, p, Given(n, align))
  <2>1. PICK T : GivenOut(h, S, p, Actual(n), align, g, T)
    BY <1>1, <1>3, Generalized
  <2> HIDE DEF p, g
  <2>2. /\ Sound(g, T) /\ (FeetFree(h) => FeetFree(g))
        /\ p \notin DOMAIN l /\ Held(g, T) = DOMAIN l \cup {p}
        /\ Actual(n) <= g.head[p].size /\ (p + 1) % align = 0
        /\ \A b \in DOMAIN l : SameBlock(h, g, b)
    BY <1>1, <2>1 DEF GivenOut
  <2>3. p \in Nat /\ g.head[p].size \in Nat
    BY <2>2, HeldFacts
  <2>4. Mine(g, p, Given(n, align)) /\ Holds(g, p, Given(n, align))
    BY <2>2, <2>3, GivenMine
  <2>5. /\ DOMAIN m = Held(g, T) /\ m[p] = Given(n, align)
        /\ \A b \in DOMAIN l : m[b] = l[b]
    BY <2>2 DEF Also
  <2>6. Kept(g, m, T)
    <3> HIDE DEF m
    <3> QED BY <2>2, <2>4, <2>5, Carried
  <2> QED BY <2>2, <2>6, <1>3 DEF p, g
<1> QED BY <1>2, <1>3

(* What sf_free and sf_realloc may count on of a block of the user.        *)
LEMMA HeldBits ==
  ASSUME NEW h, NEW S, Sound(h, S), NEW p \in Held(h, S)
  PROVE  /\ h \in Heaps /\ h.pages > 0 /\ p \in S /\ h.head[p].alloc
         /\ Tiles(h, S) /\ Bits(h, S, p) /\ Listed(h, S, {p})
         /\ h.head[Past(h, p)].prev /\ Past(h, p) # p
<1>1. /\ h \in Heaps /\ h.pages > 0 /\ p \in S /\ h.head[p].alloc
      /\ Tiles(h, S) /\ Bits(h, S, NULL) /\ Listed(h, S, {})
  BY DEF Sound, Held
<1>2. Bits(h, S, p)
  BY SoundBits
<1>3. p # NULL /\ Past(h, p) # p
  BY <1>1, TileFacts DEF NULL
<1>4. h.head[Past(h, p)].prev
  BY <1>1, <1>3 DEF Bits
<1>5. Listed(h, S, {p})
  BY <1>1 DEF Listed
<1> QED BY <1>1, <1>2, <1>3, <1>4, <1>5

(* sf_free leaves the rest of what the user has.                           *)
LEMMA FreeKept ==
  ASSUME NEW h, NEW l, NEW S, Kept(h, l, S), NEW p \in DOMAIN l
  PROVE  \E T : Kept(AddToFreeList(h, p), Without(l, p), T)
<1> DEFINE g == AddToFreeList(h, p)
           m == Without(l, p)
<1>1. Sound(h, S) /\ DOMAIN l = Held(h, S)
  BY DEF Kept
<1>2. /\ h \in Heaps /\ h.pages > 0 /\ p \in S /\ h.head[p].alloc
      /\ Tiles(h, S) /\ Bits(h, S, p) /\ Listed(h, S, {p}) /\ Past(h, p) # p
  BY <1>1, HeldBits
<1>3. PICK T, s : Joined(h, S, {p}, p, g, T, s)
  <2>1. p \in {p} /\ \A c \in S : Past(h, c) = p /\ ~h.head[c].alloc => c \notin {p}
    BY <1>2
  <2>2. Past(h, p) \in {p} => h.head[Past(h, p)].alloc
    BY <1>2
  <2> QED BY <2>1, <2>2, <1>2, Added
<1> HIDE DEF g
<1>4. /\ g \in Heaps /\ g.pages = h.pages /\ (FeetFree(h) => FeetFree(g))
      /\ Tiles(g, T) /\ Bits(g, T, NULL) /\ Listed(g, T, {p} \ {p})
      /\ T \subseteq S /\ s \in T /\ ~g.head[s].alloc
      /\ \A c \in S : c \notin T => c = p \/ ~h.head[c].alloc
      /\ s # p => p \notin T /\ ~h.head[s].alloc
      /\ \A c \in T : c # s => SameBlock(h, g, c)
  BY <1>3 DEF Joined
<1>5. Sound(g, T)
  <2>1. {p} \ {p} = {}
    OBVIOUS
  <2>2. Listed(g, T, {})
    BY <2>1, <1>4, Zenon
  <2> QED BY <2>2, <1>2, <1>4 DEF Sound
<1>6. ASSUME NEW c \in S, h.head[c].alloc, c # p
      PROVE  c \in T /\ SameBlock(h, g, c) /\ g.head[c].alloc
  <2>1. c \in T /\ c # s
    BY <1>4, <1>6
  <2> QED BY <2>1, <1>4, <1>6 DEF SameBlock
<1>7. ASSUME NEW c \in T, g.head[c].alloc
      PROVE  c \in S /\ h.head[c].alloc /\ c # p
  <2>1. c # s /\ c \in S /\ c # p
    BY <1>4, <1>7
  <2> QED BY <2>1, <1>4, <1>7 DEF SameBlock
<1>8. Held(g, T) = Held(h, S) \ {p}
  <2>1. \A c : c \in Held(g, T) <=> c \in Held(h, S) \ {p}
    BY <1>6, <1>7 DEF Held
  <2> QED BY <2>1
<1>9. DOMAIN m = Held(g, T) /\ \A b \in DOMAIN m : b \in DOMAIN l /\ m[b] = l[b]
  BY <1>1, <1>8 DEF Without
<1> HIDE DEF m
<1>10. \A b \in DOMAIN m : SameBlock(h, g, b)
  BY <1>1, <1>6, <1>8, <1>9 DEF Held
<1>11. Kept(g, m, T)
  BY <1>4, <1>5, <1>9, <1>10, Carried
<1> QED BY <1>11 DEF g, m

(* sf_realloc to a size the block has room for.                            *)
LEMMA ShrunkKept ==
  ASSUME NEW h, NEW l, NEW S, Kept(h, l, S), NEW p \in DOMAIN l,
         NEW n \in Requests, n + 23 < SizeLimit, Actual(n) <= h.head[p].size,
         NEW x, x = [Resized(l[p], n) EXCEPT !.align = l[p].align]
  PROVE  \E T : Kept(AllocateBlock(h, p, Actual(n)), [l EXCEPT ![p] = x], T)
<1> DEFINE size == Actual(n)
           g == AllocateBlock(h, p, size)
           m == [l EXCEPT ![p] = x]
<1>1. Sound(h, S) /\ DOMAIN l = Held(h, S) /\ n \in Nat /\ Mine(h, p, l[p])
  BY SfmmNumbers DEF Kept
<1>2. /\ h \in Heaps /\ h.pages > 0 /\ p \in S /\ h.head[p].alloc
      /\ Tiles(h, S) /\ Bits(h, S, p) /\ Listed(h, S, {p}) /\ Past(h, p) # p
      /\ h.head[Past(h, p)].prev
  BY <1>1, HeldBits
<1>3. size \in Nat /\ size >= MinUnits /\ n <= 16 * size - 8
  BY <1>1, ActualIs
<1> HIDE DEF size
<1>4. PICK T : Allotted(h, S, {p}, p, size, g, T)
  <2>1. {p} \in SUBSET S /\ p \in {p} /\ (Past(h, p) \in {p} => h.head[Past(h, p)].alloc)
    BY <1>2
  <2>2. size <= h.head[p].size
    BY DEF size
  <2> QED BY <2>1, <2>2, <1>2, <1>3, AllocatedIs
<1> HIDE DEF g
<1>5. /\ g \in Heaps /\ g.pages = h.pages /\ (FeetFree(h) => FeetFree(g))
      /\ Tiles(g, T) /\ Bits(g, T, NULL) /\ Listed(g, T, {p} \ {p})
      /\ p \in T /\ g.head[p].alloc
      /\ size <= g.head[p].size /\ g.head[p].size <= h.head[p].size
      /\ \A u \in p..(Past(g, p) - 1) :
           g.foot[u] = h.foot[u] /\ (u > p => g.head[u] = h.head[u])
      /\ \A c \in S : c \notin T => ~h.head[c].alloc
      /\ \A c \in T : c \notin S => ~g.head[c].alloc
      /\ \A c \in S : c \in T /\ c # p => SameBlock(h, g, c)
  BY <1>4 DEF Allotted
<1>6. Sound(g, T)
  <2>1. {p} \ {p} = {}
    OBVIOUS
  <2>2. Listed(g, T, {})
    BY <2>1, <1>5, Zenon
  <2> QED BY <2>2, <1>2, <1>5 DEF Sound
<1>7. ASSUME NEW c \in S, h.head[c].alloc, c # p
      PROVE  c \in T /\ SameBlock(h, g, c) /\ g.head[c].alloc
  <2>1. c \in T
    BY <1>5, <1>7
  <2> QED BY <2>1, <1>5, <1>7 DEF SameBlock
<1>8. ASSUME NEW c \in T, g.head[c].alloc, c # p
      PROVE  c \in S /\ h.head[c].alloc
  <2>1. c \in S
    BY <1>5, <1>8
  <2> QED BY <2>1, <1>5, <1>8 DEF SameBlock
<1>9. Held(g, T) = Held(h, S)
  <2>1. \A c : c \in Held(g, T) <=> c \in Held(h, S)
    BY <1>2, <1>5, <1>7, <1>8 DEF Held
  <2> QED BY <2>1
<1>10. /\ DOMAIN m = Held(g, T) /\ m[p] = x
       /\ \A b \in DOMAIN m : b # p => b \in DOMAIN l /\ m[b] = l[b]
  BY <1>1, <1>9
<1> HIDE DEF m
<1>11. \A b \in DOMAIN m : b # p => SameBlock(h, g, b)
  BY <1>7, <1>9, <1>10 DEF Held
<1>12. /\ l[p].written \in Nat /\ l[p].align \in Nat /\ (p + 1) % l[p].align = 0
       /\ x \in [asked : Requests, align : Nat, written : Nat]
       /\ x.asked = n /\ x.align = l[p].align
       /\ x.written = IF n < l[p].written THEN n ELSE l[p].written
  BY <1>1 DEF Mine, Resized
<1>13. g.head[p].size \in Nat /\ p \in Held(g, T) /\ Past(g, p) \in Nat
  BY <1>5, <1>6, HeldFacts DEF Held
<1>14. Mine(g, p, x)
  BY <1>1, <1>3, <1>5, <1>12, <1>13 DEF Mine
<1>15. ASSUME ~Lookalike PROVE Holds(g, p, x)
  <2>1. Holds(h, p, l[p])
    BY <1>15 DEF Kept
  <2>2. ASSUME NEW u \in Units
        PROVE  /\ InHead(u, p, x.written) => g.head[u] = Data
               /\ InFoot(u, p, x.written) => g.foot[u] = Data
    <3>1. x.written \in Nat /\ x.written <= 16 * g.head[p].size - 8 /\ x.written <= l[p].written
      BY <1>1, <1>3, <1>5, <1>12, <1>13
    <3>2. /\ InHead(u, p, x.written) => u > p /\ u \in p..(Past(g, p) - 1)
          /\ InFoot(u, p, x.written) => u \in p..(Past(g, p) - 1)
      BY <3>1, <1>6, <1>13, InRoom
    <3>3. /\ InHead(u, p, x.written) => InHead(u, p, l[p].written)
          /\ InFoot(u, p, x.written) => InFoot(u, p, l[p].written)
      <4>1. u \in Int /\ p \in Int /\ l[p].written \in Int
        BY SMTT(30), <1>1, <1>12, HeldFacts, Numbers
      <4> QED BY <4>1, <3>1 DEF InHead, InFoot
    <3> QED BY <3>2, <3>3, <2>1, <1>5 DEF Holds
  <2> QED BY <2>2 DEF Holds
<1>16. Kept(g, m, T)
  BY <1>5, <1>6, <1>10, <1>11, <1>14, <1>15, Carried
<1> QED BY <1>16 DEF g, m, size

(* The rows of another block are not those of q.                           *)
LEMMA Elsewhere ==
  ASSUME NEW h, NEW S, Sound(h, S), NEW q \in S, NEW b \in S, b # q,
         NEW u \in b..(Past(h, b) - 1)
  PROVE  ~(q <= u /\ u < Past(h, q))
<1>1. /\ b \in Nat /\ q \in Nat /\ Past(h, b) \in Nat /\ Past(h, q) \in Nat
      /\ Past(h, b) >= b + 2
  BY TileFacts DEF Sound
<1>2. (b < q => Past(h, b) <= q) /\ (q < b => Past(h, q) <= b)
  BY NoOverlap DEF Sound
<1> QED BY <1>1, <1>2

(* Writing rows of the allocated block q, its header not among them.       *)
LEMMA Filled ==
  ASSUME NEW h, NEW S, Sound(h, S), NEW q \in Held(h, S),
         NEW g \in Heaps, g.pages = h.pages, g.list = h.list,
         \A u \in Units : ~(q < u /\ u < Past(h, q)) => g.head[u] = h.head[u],
         \A u \in Units : ~(q <= u /\ u < Past(h, q)) => g.foot[u] = h.foot[u]
  PROVE  /\ Sound(g, S) /\ Held(g, S) = Held(h, S)
         /\ \A b \in Held(h, S) : b # q => SameBlock(h, g, b)
         /\ g.head[q] = h.head[q]
<1>1. h \in Heaps /\ h.pages > 0 /\ Tiles(h, S) /\ q \in S
  BY DEF Sound, Held
<1>2. /\ q \in Nat /\ Past(h, q) \in Nat /\ Past(h, q) >= q + 2 /\ Past(h, q) <= End(h)
      /\ q \in Units /\ End(h) \in Nat /\ End(h) \in Units
  BY <1>1, TileFacts, EndIn
<1>3. \A c \in S : /\ c \in Nat /\ c \in Units /\ Past(h, c) \in Nat /\ Past(h, c) >= c + 2
                   /\ Past(h, c) - 1 \in Units /\ Past(h, c) <= End(h)
  BY <1>1, TileFacts
<1>4. ASSUME NEW b \in S, b # q, NEW u \in b..(Past(h, b) - 1)
      PROVE  u \in Units /\ g.head[u] = h.head[u] /\ g.foot[u] = h.foot[u]
  <2>1. u \in Units
    BY <1>2, <1>3, EndIn, <1>1, Numbers
  <2>2. ~(q <= u /\ u < Past(h, q))
    BY <1>1, <1>4, Elsewhere
  <2> QED BY <1>2, <2>1, <2>2, Numbers
<1>5. g.head[q] = h.head[q]
  BY <1>2
<1>6. \A c \in S \cup {End(h)} : g.head[c] = h.head[c]
  <2>1. ASSUME NEW c \in S, c # q PROVE g.head[c] = h.head[c]
    <3>1. c \in c..(Past(h, c) - 1)
      BY <1>3
    <3> QED BY <2>1, <3>1, <1>4
  <2>2. g.head[End(h)] = h.head[End(h)]
    BY <1>2
  <2> QED BY <2>1, <2>2, <1>5
<1>7. \A c \in S : ~h.head[c].alloc => g.foot[Past(h, c) - 1] = h.foot[Past(h, c) - 1]
  <2>1. ASSUME NEW c \in S, ~h.head[c].alloc
        PROVE  g.foot[Past(h, c) - 1] = h.foot[Past(h, c) - 1]
    <3>1. c # q
      BY <2>1 DEF Held
    <3>2. Past(h, c) - 1 \in c..(Past(h, c) - 1)
      BY <1>3
    <3> QED BY <3>1, <3>2, <1>4
  <2> QED BY <2>1
<1>8. Sound(g, S) /\ Held(g, S) = Held(h, S)
  BY <1>6, <1>7, KeepsSound
<1>9. \A b \in Held(h, S) : b # q => SameBlock(h, g, b)
  <2>1. ASSUME NEW b \in Held(h, S), b # q PROVE SameBlock(h, g, b)
    <3>1. b \in S
      BY DEF Held
    <3> QED BY <2>1, <3>1, <1>4, <1>6 DEF SameBlock
  <2> QED BY <2>1
<1> QED BY <1>5, <1>8, <1>9

(* Data in the rows of n bytes at p and last in the footer of the block.   *)
WithData(h, p, n, end, last) ==
  [h EXCEPT !.head = [u \in Units |-> IF InHead(u, p, n) THEN Data ELSE h.head[u]],
            !.foot = [[u \in Units |-> IF InFoot(u, p, n) THEN Data ELSE h.foot[u]]
                        EXCEPT ![end] = last]]

Wrote(h, p, n, end, last, g) ==
  /\ g \in Heaps /\ g.pages = h.pages /\ g.list = h.list
  /\ \A u \in Units : g.head[u] = IF InHead(u, p, n) THEN Data ELSE h.head[u]
  /\ \A u \in Units : g.foot[u] = IF u = end THEN last
                                  ELSE IF InFoot(u, p, n) THEN Data ELSE h.foot[u]

(* What Write may put into the footer.                                     *)
AsLast(h, p, n, end, last) ==
  ~Lookalike => last = IF InFoot(end, p, n) THEN Data ELSE h.foot[end]

(* What Write makes of what the user has.                                  *)
Noted(l, p, m) ==
  /\ DOMAIN m = DOMAIN l /\ \A b \in DOMAIN l : b # p => m[b] = l[b]
  /\ m[p] \in [asked : Requests, align : Nat, written : Nat]
  /\ m[p].asked = l[p].asked /\ m[p].align = l[p].align /\ m[p].written = l[p].asked

(* What Write makes of the heap.                                           *)
LEMMA WriteMakes ==
  ASSUME NEW h \in Heaps, NEW p \in Units, NEW n, NEW end \in Units, NEW last \in Words
  PROVE  Wrote(h, p, n, end, last, WithData(h, p, n, end, last))
<1> DEFINE f == [u \in Units |-> IF InHead(u, p, n) THEN Data ELSE h.head[u]]
           k == [u \in Units |-> IF InFoot(u, p, n) THEN Data ELSE h.foot[u]]
           g == WithData(h, p, n, end, last)
           e == [k EXCEPT ![end] = last]
<1>1. h.head \in [Units -> Words] /\ h.foot \in [Units -> Words]
  BY HeapIn
<1>2. f \in [Units -> Words] /\ k \in [Units -> Words] /\ e \in [Units -> Words]
  <2>1. f \in [Units -> Words] /\ k \in [Units -> Words]
    BY <1>1, WordFacts
  <2> QED BY <2>1
<1>3. /\ \A u \in Units : f[u] = IF InHead(u, p, n) THEN Data ELSE h.head[u]
      /\ \A u \in Units : e[u] = IF u = end THEN last
                                 ELSE IF InFoot(u, p, n) THEN Data ELSE h.foot[u]
  BY <1>2
<1>4. g = [h EXCEPT !.head = f, !.foot = e]
  BY DEF WithData
<1> HIDE DEF e, f, k, g
<1>5. g \in Heaps /\ g.pages = h.pages /\ g.list = h.list /\ g.head = f /\ g.foot = e
  BY <1>2, <1>4 DEF Heaps
<1> QED BY <1>3, <1>5 DEF Wrote, g

(* The user writes into his block.                                         *)
LEMMA WriteKept ==
  ASSUME NEW h, NEW l, NEW S, Kept(h, l, S), NEW p \in DOMAIN l,
         NEW n, n = l[p].asked, NEW end, end = p + h.head[p].size - 1,
         NEW last, NEW g, Wrote(h, p, n, end, last, g), AsLast(h, p, n, end, last),
         NEW m, Noted(l, p, m)
  PROVE  Kept(g, m, S)
<1> DEFINE x == m[p]
<1>1. Sound(h, S) /\ DOMAIN l = Held(h, S) /\ p \in Held(h, S) /\ h \in Heaps
  BY DEF Kept, Sound
<1>14. /\ g \in Heaps /\ g.pages = h.pages /\ g.list = h.list
       /\ \A u \in Units : g.head[u] = IF InHead(u, p, n) THEN Data ELSE h.head[u]
       /\ \A u \in Units : g.foot[u] = IF u = end THEN last
                                       ELSE IF InFoot(u, p, n) THEN Data ELSE h.foot[u]
  BY DEF Wrote
<1>2. /\ n \in Nat /\ n <= 16 * h.head[p].size - 8 /\ n \in Requests
      /\ l[p] \in [asked : Requests, align : Nat, written : Nat]
      /\ (p + 1) % l[p].align = 0
  <2>1. Requests \subseteq Nat
    BY SfmmNumbers
  <2>2. Mine(h, p, l[p])
    BY DEF Kept
  <2> QED BY <2>1, <2>2 DEF Mine
<1>3. /\ p \in Nat /\ h.head[p].size \in Nat /\ h.head[p].size >= 2 /\ h.head[p] \in Headers
      /\ Past(h, p) = p + h.head[p].size /\ Past(h, p) \in Nat
      /\ p..(Past(h, p) - 1) \subseteq Units
  BY <1>1, HeldFacts
<1>4. end \in Units /\ end >= p /\ end < Past(h, p) /\ end \in Nat
  BY <1>3
<1>5. ASSUME NEW u \in Units
      PROVE  /\ InHead(u, p, n) => u > p /\ u < Past(h, p)
             /\ InFoot(u, p, n) => u >= p /\ u < Past(h, p)
  <2>1. /\ InHead(u, p, n) => u > p /\ u \in p..(Past(h, p) - 1)
        /\ InFoot(u, p, n) => u \in p..(Past(h, p) - 1)
    BY <1>1, <1>2, InRoom
  <2> QED BY <2>1, <1>3
<1>6. /\ Sound(g, S) /\ Held(g, S) = Held(h, S)
      /\ \A b \in Held(h, S) : b # p => SameBlock(h, g, b)
      /\ g.head[p] = h.head[p]
  <2>1. \A u \in Units : ~(p < u /\ u < Past(h, p)) => g.head[u] = h.head[u]
    BY <1>5, <1>14
  <2>2. \A u \in Units : ~(p <= u /\ u < Past(h, p)) => g.foot[u] = h.foot[u]
    BY <1>4, <1>5, <1>14
  <2> QED BY <2>1, <2>2, <1>1, <1>14, Filled
<1>7. ~Lookalike /\ FeetFree(h) => FeetFree(g)
  <2>1. ASSUME ~Lookalike, FeetFree(h), NEW u \in Units, g.foot[u] \in Headers
        PROVE  ~g.foot[u].alloc
    <3>1. g.foot[u] = IF InFoot(u, p, n) THEN Data ELSE h.foot[u]
      BY <2>1, <1>14 DEF AsLast
    <3>2. g.foot[u] = h.foot[u]
      BY <3>1, <2>1, WordFacts
    <3> QED BY <2>1, <3>2 DEF FeetFree
  <2> QED BY <2>1 DEF FeetFree
<1>8. /\ x \in [asked : Requests, align : Nat, written : Nat]
      /\ x.asked = n /\ x.written = n /\ x.align = l[p].align
  BY <1>2 DEF Noted
<1> HIDE DEF x
<1>9. DOMAIN m = DOMAIN l /\ \A b \in DOMAIN l : b # p => m[b] = l[b]
  BY DEF Noted
<1>10. Mine(g, p, x)
  BY <1>2, <1>6, <1>8 DEF Mine
<1>11. ~Lookalike => Holds(g, p, x)
  BY <1>8, <1>14 DEF Holds, AsLast
<1>12. \A b \in DOMAIN m :
           \/ b \in DOMAIN l /\ m[b] = l[b] /\ SameBlock(h, g, b)
           \/ Mine(g, b, m[b]) /\ (~Lookalike => Holds(g, b, m[b]))
  BY <1>1, <1>6, <1>9, <1>10, <1>11 DEF x
<1> QED BY <1>1, <1>6, <1>7, <1>9, <1>12, Carried

(* What memcpy of the payload of p to the larger block q makes of the heap. *)
LEMMA CopyMakes ==
  ASSUME NEW h \in Heaps, NEW p \in Nat, NEW q \in Nat, NEW z \in Nat, z > 0,
         p + z < NUnits, NEW g, g = Copy(h, p, q, 16 * z - 8)
  PROVE  /\ g \in Heaps /\ g.pages = h.pages /\ g.list = h.list
         /\ \A u \in Units : g.head[u] = IF q < u /\ u < q + z THEN h.head[u - q + p]
                                                              ELSE h.head[u]
         /\ \A u \in Units : g.foot[u] = IF q <= u /\ u < q + z THEN h.foot[u - q + p]
                                                               ELSE h.foot[u]
<1> DEFINE n == 16 * z - 8
           f == [u \in Units |-> IF InHead(u, q, n) THEN h.head[u - q + p] ELSE h.head[u]]
           k == [u \in Units |-> IF InFoot(u, q, n) THEN h.foot[u - q + p] ELSE h.foot[u]]
<1>1. h.head \in [Units -> Words] /\ h.foot \in [Units -> Words]
  BY HeapIn
<1>2. ASSUME NEW u \in Units
      PROVE  /\ InHead(u, q, n) <=> (q < u /\ u < q + z)
             /\ InFoot(u, q, n) <=> (q <= u /\ u < q + z)
             /\ q <= u /\ u < q + z => u - q + p \in Units
  <2>1. u \in Nat /\ Units = 0..(NUnits - 1) /\ NUnits \in Nat
    BY Numbers
  <2>2. InHead(u, q, n) <=> (q < u /\ u < q + z)
    BY <2>1 DEF InHead
  <2>3. InFoot(u, q, n) <=> (q <= u /\ u < q + z)
    BY <2>1 DEF InFoot
  <2>4. q <= u /\ u < q + z => u - q + p \in Units
    BY <2>1
  <2> QED BY <2>2, <2>3, <2>4
<1>3. g = [h EXCEPT !.head = f, !.foot = k]
  BY DEF Copy, Heaps
<1> HIDE DEF n
<1>4. f \in [Units -> Words] /\ k \in [Units -> Words]
  <2>1. \A u \in Units : InHead(u, q, n) \/ InFoot(u, q, n) => u - q + p \in Units
    <3>1. \A u \in Units : u \in Nat
      BY Numbers
    <3> QED BY <1>2, <3>1
  <2>2. \A u \in Units : \A v \in Units : h.head[v] \in Words /\ h.foot[v] \in Words
    BY <1>1
  <2> QED BY <2>1, <2>2
<1>5. /\ \A u \in Units : f[u] = IF q < u /\ u < q + z THEN h.head[u - q + p] ELSE h.head[u]
      /\ \A u \in Units : k[u] = IF q <= u /\ u < q + z THEN h.foot[u - q + p] ELSE h.foot[u]
  BY <1>2
<1> HIDE DEF f, k
<1>6. g \in Heaps /\ g.pages = h.pages /\ g.list = h.list /\ g.head = f /\ g.foot = k
  BY <1>3, <1>4 DEF Heaps
<1> QED BY <1>5, <1>6

(* What was at p is at q as well, and what was written is not lost.        *)
LEMMA CopyKept ==
  ASSUME NEW h, NEW l, NEW S, Kept(h, l, S), NEW p \in DOMAIN l, NEW q \in DOMAIN l, p # q,
         NEW n \in Requests, n + 23 < SizeLimit, Actual(n) <= h.head[q].size,
         h.head[p].size < h.head[q].size, NEW x, x = Resized(l[p], n),
         NEW g, g = Copy(h, p, q, Payload(h, p)), NEW m, DOMAIN m = DOMAIN l, m[q] = x,
         \A b \in DOMAIN l : b # q => m[b] = l[b]
  PROVE  Kept(g, m, S)
<1> DEFINE z == h.head[p].size
<1>1. /\ Sound(h, S) /\ DOMAIN l = Held(h, S) /\ h \in Heaps /\ Mine(h, p, l[p])
      /\ (~Lookalike => FeetFree(h) /\ Holds(h, p, l[p]))
  BY DEF Kept, Sound
<1>2. /\ p \in Nat /\ p >= 2 /\ z \in Nat /\ z >= 2 /\ Past(h, p) = p + z /\ Past(h, p) \in Nat
      /\ Past(h, p) <= End(h) /\ End(h) \in Nat /\ End(h) < NUnits
      /\ p..(Past(h, p) - 1) \subseteq Units
  BY <1>1, HeldFacts
<1>3. /\ q \in Nat /\ q \in S /\ h.head[q].size \in Nat /\ Past(h, q) = q + h.head[q].size
      /\ Past(h, q) \in Nat
  BY <1>1, HeldFacts
<1>4. z < h.head[q].size
  OBVIOUS
<1>5. Payload(h, p) = 16 * z - 8
  BY DEF Payload
<1> HIDE DEF z
<1>6. q + z < Past(h, q) /\ p + z < NUnits
  <2>1. NUnits \in Nat
    BY Numbers
  <2> QED BY <2>1, <1>2, <1>3, <1>4
<1>7. \A u \in Units : u \in Nat
  BY Numbers
<1>8. /\ g \in Heaps /\ g.pages = h.pages /\ g.list = h.list
      /\ \A u \in Units : g.head[u] = IF q < u /\ u < q + z THEN h.head[u - q + p]
                                                           ELSE h.head[u]
      /\ \A u \in Units : g.foot[u] = IF q <= u /\ u < q + z THEN h.foot[u - q + p]
                                                            ELSE h.foot[u]
  <2>1. g = Copy(h, p, q, 16 * z - 8) /\ z > 0
    BY <1>2, <1>5
  <2> QED BY <2>1, <1>1, <1>2, <1>3, <1>6, CopyMakes
<1>9. /\ Sound(g, S) /\ Held(g, S) = Held(h, S)
      /\ \A b \in Held(h, S) : b # q => SameBlock(h, g, b)
      /\ g.head[q] = h.head[q]
  <2>1. \A u \in Units : ~(q < u /\ u < Past(h, q)) => g.head[u] = h.head[u]
    BY <1>2, <1>3, <1>8, <1>6, <1>7
  <2>2. \A u \in Units : ~(q <= u /\ u < Past(h, q)) => g.foot[u] = h.foot[u]
    BY <1>2, <1>3, <1>8, <1>6, <1>7
  <2> QED BY <2>1, <2>2, <1>1, <1>8, Filled
<1>10. ~Lookalike /\ FeetFree(h) => FeetFree(g)
  <2>1. ASSUME FeetFree(h), NEW u \in Units, g.foot[u] \in Headers
        PROVE  ~g.foot[u].alloc
    <3>1. CASE q <= u /\ u < q + z
      <4>1. u - q + p \in p..(Past(h, p) - 1)
        BY <3>1, <1>2, <1>3, <1>7
      <4>2. u - q + p \in Units /\ g.foot[u] = h.foot[u - q + p]
        BY <3>1, <4>1, <1>2, <1>8
      <4> QED BY <2>1, <4>2 DEF FeetFree
    <3>2. CASE ~(q <= u /\ u < q + z)
      <4>1. g.foot[u] = h.foot[u]
        BY <3>2, <1>8
      <4> QED BY <2>1, <4>1 DEF FeetFree
    <3> QED BY <3>1, <3>2
  <2> QED BY <2>1 DEF FeetFree
<1>11. /\ l[p].written \in Nat /\ l[p].asked \in Nat
      /\ l[p].written <= l[p].asked /\ l[p].asked <= 16 * z - 8
      /\ x \in [asked : Requests, align : Nat, written : Nat] /\ x.asked = n /\ x.align = 1
      /\ x.written \in Nat /\ x.written <= n /\ x.written <= l[p].written /\ n \in Nat
  <2>1. Requests \subseteq Nat
    BY SfmmNumbers
  <2>2. /\ l[p].written \in Nat /\ l[p].asked \in Nat
        /\ l[p].written <= l[p].asked /\ l[p].asked <= 16 * z - 8
    BY <1>1, <2>1 DEF Mine, z
  <2>3. x = [asked |-> n, align |-> 1,
             written |-> IF n < l[p].written THEN n ELSE l[p].written]
    BY DEF Resized
  <2> QED BY <2>1, <2>2, <2>3
<1>12. Mine(g, q, x)
  <2>1. Actual(n) \in Nat /\ n <= 16 * Actual(n) - 8
    BY <1>11, ActualIs
  <2>2. n <= 16 * g.head[q].size - 8
    BY <2>1, <1>3, <1>9, <1>11
  <2>3. (q + 1) % 1 = 0
    BY <1>3
  <2> QED BY <2>2, <2>3, <1>11 DEF Mine
<1>13. ASSUME ~Lookalike PROVE Holds(g, q, x)
  <2>1. Holds(h, p, l[p])
    BY <1>1, <1>13
  <2>2. ASSUME NEW u \in Units
        PROVE  /\ InHead(u, q, x.written) => g.head[u] = Data
               /\ InFoot(u, q, x.written) => g.foot[u] = Data
    <3> DEFINE v == u - q + p
               w == x.written
               o == l[p].written
    <3>1. u \in Nat
      BY Numbers
    <3>2. w \in Nat /\ o \in Nat /\ w <= o /\ o <= 16 * z - 8
      BY <1>11, <1>2
    <3> HIDE DEF w, o
    <3>3. /\ InHead(u, q, w) => q < u /\ u < q + z /\ InHead(v, p, o)
          /\ InFoot(u, q, w) => q <= u /\ u < q + z /\ InFoot(v, p, o)
      BY <3>1, <3>2, <1>2, <1>3 DEF InHead, InFoot
    <3>4. q <= u /\ u < q + z => v \in Units
      <4>1. q <= u /\ u < q + z => v \in p..(Past(h, p) - 1)
        BY <3>1, <1>2, <1>3
      <4> QED BY <4>1, <1>2
    <3> HIDE DEF v
    <3>5. v \in Units => /\ InHead(v, p, o) => h.head[v] = Data
                         /\ InFoot(v, p, o) => h.foot[v] = Data
      BY <2>1 DEF Holds, o
    <3>6. /\ q < u /\ u < q + z => g.head[u] = h.head[v]
          /\ q <= u /\ u < q + z => g.foot[u] = h.foot[v]
      BY <1>8 DEF v
    <3> QED BY <3>1, <3>3, <3>4, <3>5, <3>6, <1>3 DEF w
  <2> QED BY <2>2 DEF Holds
<1>14. \A b \in DOMAIN m :
           \/ b \in DOMAIN l /\ m[b] = l[b] /\ SameBlock(h, g, b)
           \/ Mine(g, b, m[b]) /\ (~Lookalike => Holds(g, b, m[b]))
  BY <1>1, <1>9, <1>12, <1>13
<1>15. DOMAIN m = Held(g, S)
  BY <1>1, <1>9
<1> QED BY <1>9, <1>10, <1>14, <1>15, Carried

(* sf_realloc to a size the block has no room for.                         *)
LEMMA MovedKept ==
  ASSUME NEW h, NEW l, NEW S, Kept(h, l, S), NEW p \in DOMAIN l,
         NEW n \in Requests, n + 23 < SizeLimit, Actual(n) > h.head[p].size,
         NEW r, r = GeneralizeAllocation(h, n, 1), r.block # NULL,
         NEW x, x = Resized(l[p], n), NEW g, g = Copy(r.heap, p, r.block, Payload(h, p))
  PROVE  \E T : Kept(AddToFreeList(g, p), Also(Without(l, p), r.block, x), T)
<1> DEFINE h1 == r.heap
           q  == r.block
           l1 == Also(l, q, Given(n, 1))
           m  == Also(l, q, x)
<1>1. PICK T1 : /\ Kept(h1, l1, T1) /\ q \notin DOMAIN l /\ Actual(n) <= h1.head[q].size
                /\ \A b \in DOMAIN l : SameBlock(h, h1, b)
  <2>1. 1 \in Nat /\ 1 > 0
    OBVIOUS
  <2> QED BY <2>1, AllocKept
<1>2. h1.head[p].size = h.head[p].size /\ p # q
  BY <1>1 DEF SameBlock
<1>3. /\ p \in DOMAIN l1 /\ q \in DOMAIN l1 /\ DOMAIN m = DOMAIN l1 /\ m[q] = x
      /\ l1[p] = l[p] /\ (\A b \in DOMAIN l1 : b # q => m[b] = l1[b])
  BY <1>2 DEF Also
<1>4. g = Copy(h1, p, q, Payload(h1, p))
  BY <1>2 DEF Payload
<1>5. h1.head[p].size < h1.head[q].size
  <2>1. h1.head[q].size \in Nat /\ h1.head[p].size \in Nat
    BY <1>1, <1>3, HeldFacts DEF Kept
  <2>2. Actual(n) \in Nat
    <3>1. n \in Nat
      BY SfmmNumbers
    <3> QED BY <3>1, ActualIs
  <2> QED BY <2>1, <2>2, <1>1, <1>2
<1>6. Without(m, p) = Also(Without(l, p), q, x)
  <2>1. DOMAIN Without(m, p) = DOMAIN Also(Without(l, p), q, x)
    BY <1>2 DEF Also, Without
  <2> QED BY <2>1, <1>2 DEF Also, Without
<1> HIDE DEF h1, q, l1, m
<1>7. x = Resized(l1[p], n)
  BY <1>3
<1>8. Kept(g, m, T1)
  BY <1>1, <1>2, <1>3, <1>4, <1>5, <1>7, CopyKept
<1>9. \E T : Kept(AddToFreeList(g, p), Without(m, p), T)
  BY <1>3, <1>8, FreeKept
<1> QED BY <1>6, <1>9 DEF q

-----------------------------------------------------------------------------
(* The sum of a request and what is added to it fits size_t.               *)
NoWrap == \A n \in Requests : n + 23 < SizeLimit

(* The inductive invariant: before the first call there is no heap, and    *)
(* then some set of blocks tiles it and keeps what the user has.           *)
Consistent ==
  /\ heap \in Heaps /\ sf_errno \in {"none", "EINVAL", "ENOMEM"}
  /\ state \in {"running", "aborted"}
  /\ heap.pages = 0 => /\ DOMAIN live = {} /\ FeetFree(heap)
                       /\ \A c \in Lists : heap.list[c] = <<>>
  /\ heap.pages > 0 => \E S : Kept(heap, live, S)

(* There is no heap before the first call.                                 *)
LEMMA InitConsistent == Init => Consistent
<1> SUFFICES ASSUME Init PROVE Consistent
  OBVIOUS
<1>1. /\ heap.pages = 0 /\ heap.head = [u \in Units |-> Junk]
      /\ heap.foot = [u \in Units |-> Junk] /\ heap.list = [c \in Lists |-> <<>>]
  BY DEF Init
<1>2. heap \in Heaps
  <2>1. 0 \in 0..MaxPages
    BY Numbers
  <2>2. [u \in Units |-> Junk] \in [Units -> Words]
    BY WordFacts
  <2>3. [c \in Lists |-> <<>>] \in [Lists -> Seq(Units)]
    OBVIOUS
  <2> QED BY <2>1, <2>2, <2>3 DEF Init, Heaps
<1>3. FeetFree(heap)
  BY <1>1, WordFacts DEF FeetFree
<1> QED BY <1>1, <1>2, <1>3 DEF Init, Consistent

(* The heap a request works on.                                            *)
LEMMA InitializedKept ==
  ASSUME Consistent
  PROVE  \E S : Kept(Initialized(heap), live, S)
<1>1. CASE heap.pages = 0
  <2>1. /\ Initialized(heap) = InitializeHeap(heap) /\ heap \in Heaps /\ DOMAIN live = {}
        /\ FeetFree(heap) /\ \A c \in Lists : heap.list[c] = <<>>
    BY <1>1 DEF Initialized, Consistent
  <2>2. PICK S : /\ Sound(Initialized(heap), S) /\ Held(Initialized(heap), S) = {}
                 /\ FeetFree(heap) => FeetFree(Initialized(heap))
    BY <2>1, Started
  <2> QED BY <2>1, <2>2 DEF Kept
<1>2. CASE heap.pages # 0
  <2>1. heap.pages > 0
    BY <1>2, HeapIn, Numbers DEF Consistent
  <2> QED BY <1>2, <2>1 DEF Initialized, Consistent
<1> QED BY <1>1, <1>2

(* What is left to show of a call after which there is a heap.             *)
LEMMA StillConsistent ==
  ASSUME NEW S, Kept(heap', live', S), sf_errno' \in {"none", "EINVAL", "ENOMEM"},
         state' \in {"running", "aborted"}
  PROVE  Consistent'
<1>1. heap' \in Heaps /\ heap'.pages > 0
  BY DEF Kept, Sound
<1>2. heap'.pages # 0
  BY <1>1, HeapIn, Numbers
<1> QED BY <1>1, <1>2 DEF Consistent

(* sf_malloc and sf_memalign.                                              *)
LEMMA AllocateKeeps ==
  ASSUME NoWrap, Consistent, NEW n \in Requests, NEW align \in Nat \ {0}, Allocate(n, align)
  PROVE  Consistent'
<1> DEFINE h == Initialized(heap)
           r == GeneralizeAllocation(h, n, align)
<1>1. PICK S : Kept(h, live, S)
  BY InitializedKept
<1>2. state' \in {"running", "aborted"} /\ sf_errno' \in {"none", "EINVAL", "ENOMEM"}
  BY DEF Allocate, Consistent
<1>3. CASE n = 0
  <2>1. heap' = Settled(h) /\ live' = live
    BY <1>3 DEF Allocate
  <2> HIDE DEF h
  <2>2. Kept(heap', live', S)
    BY <1>1, <2>1, SettledKept
  <2> QED BY <1>2, <2>2, StillConsistent
<1>4. CASE n # 0
  <2>1. heap' = Settled(r.heap) /\ live' = Granted(r.block, n, align)
    BY <1>4 DEF Allocate
  <2>2. n + 23 < SizeLimit /\ align \in Nat /\ align > 0
    BY DEF NoWrap
  <2>3. r = GeneralizeAllocation(h, n, align)
    OBVIOUS
  <2> HIDE DEF h, r
  <2>4. /\ r.block = NULL => \E T : Kept(r.heap, live, T)
        /\ r.block # NULL => \E T : Kept(r.heap, Also(live, r.block, Given(n, align)), T)
    BY <1>1, <2>2, <2>3, AllocKept
  <2>5. \E T : Kept(r.heap, live', T)
    BY <2>1, <2>4 DEF Granted
  <2>6. PICK T : Kept(r.heap, live', T)
    BY <2>5
  <2>7. Kept(heap', live', T)
    BY <2>1, <2>6, SettledKept
  <2> QED BY <1>2, <2>7, StillConsistent
<1> QED BY <1>3, <1>4

(* Between calls the walk finds the blocks.                                *)
LEMMA BlocksKept ==
  ASSUME NEW S, Sound(heap, S)
  PROVE  Blocks = S /\ Blocks \ FreeBlocks = Held(heap, S)
<1>1. heap \in Heaps /\ heap.pages > 0 /\ Tiles(heap, S)
  BY DEF Sound
<1>2. heap.pages # 0
  BY <1>1, HeapIn, Numbers
<1>3. Blocks = S
  BY <1>1, <1>2, BlocksAre DEF Blocks
<1> QED BY <1>3 DEF FreeBlocks, Held

(* Of what the user passes, sf_check_pointer lets through what he has.     *)
LEMMA ValidIsLive ==
  ASSUME Consistent, NEW p \in Pointers, Valid(heap, p)
  PROVE  p \in DOMAIN live /\ \E S : Kept(heap, live, S)
<1>1. p # NULL /\ heap.head[p].alloc
  BY DEF Valid, NULL
<1>2. CASE heap.pages = 0
  <2>1. Blocks = {} /\ DOMAIN live = {}
    BY <1>2 DEF Blocks, Consistent
  <2> QED BY <1>1, <2>1 DEF Pointers, FreeBlocks
<1>3. CASE heap.pages # 0
  <2>1. heap.pages > 0
    BY <1>3, HeapIn, Numbers DEF Consistent
  <2>2. p \notin FreeBlocks
    BY <1>1 DEF FreeBlocks
  <2> QED BY <1>1, <2>1, <2>2 DEF Pointers, Consistent
<1> QED BY <1>2, <1>3

(* sf_free, and sf_realloc to 0.                                           *)
LEMMA FreeKeeps ==
  ASSUME Consistent, NEW p \in Pointers, Free(p), sf_errno' = "none"
  PROVE  Consistent'
<1>1. CASE Valid(heap, p)
  <2>1. p \in DOMAIN live /\ \E S : Kept(heap, live, S)
    BY <1>1, ValidIsLive
  <2>2. heap' = Settled(AddToFreeList(heap, p)) /\ live' = Without(live, p) /\ state' = state
    BY <1>1 DEF Free
  <2>3. PICK T : Kept(AddToFreeList(heap, p), live', T)
    BY <2>1, <2>2, FreeKept
  <2>4. Kept(heap', live', T)
    BY <2>2, <2>3, SettledKept
  <2>5. state' \in {"running", "aborted"}
    BY <2>2 DEF Consistent
  <2> QED BY <2>4, <2>5, StillConsistent
<1>2. CASE ~Valid(heap, p)
  BY <1>2 DEF Free, Consistent
<1> QED BY <1>1, <1>2

(* sf_realloc: refused, in place, or to a new block.                       *)
LEMMA ReallocKeeps ==
  ASSUME NoWrap, Consistent, NEW p \in Pointers, NEW n \in Requests, sf_realloc(p, n)
  PROVE  Consistent'
<1>1. n + 23 < SizeLimit
  BY DEF NoWrap
<1>2. CASE n = 0 /\ Free(p) /\ sf_errno' = "none"
  BY <1>2, FreeKeeps
<1>3. CASE sf_errno' = "EINVAL" /\ UNCHANGED <<heap, live, state>>
  BY <1>3 DEF Consistent
<1>4. CASE Valid(heap, p) /\ Actual(n) <= heap.head[p].size /\ ReallocInPlace(p, n)
  <2> DEFINE x == [Resized(live[p], n) EXCEPT !.align = live[p].align]
             h == AllocateBlock(heap, p, Actual(n))
  <2>1. heap' = Settled(h) /\ live' = [live EXCEPT ![p] = x]
    BY <1>4 DEF ReallocInPlace
  <2>2. sf_errno' \in {"none", "EINVAL", "ENOMEM"} /\ state' \in {"running", "aborted"}
    BY <1>4 DEF ReallocInPlace, Consistent
  <2>3. p \in DOMAIN live /\ \E S : Kept(heap, live, S)
    BY <1>4, ValidIsLive
  <2>4. x = [Resized(live[p], n) EXCEPT !.align = live[p].align]
    OBVIOUS
  <2> HIDE DEF x
  <2>5. \E T : Kept(h, [live EXCEPT ![p] = x], T)
    BY <1>1, <1>4, <2>3, <2>4, ShrunkKept
  <2> HIDE DEF h
  <2>6. PICK T : Kept(h, live', T)
    BY <2>1, <2>5
  <2>7. Kept(heap', live', T)
    BY <2>1, <2>6, SettledKept
  <2> QED BY <2>2, <2>7, StillConsistent
<1>5. CASE Valid(heap, p) /\ Actual(n) > heap.head[p].size /\ ReallocMoves(p, n)
  <2> DEFINE r == GeneralizeAllocation(heap, n, 1)
             g == Copy(r.heap, p, r.block, Payload(heap, p))
             x == Resized(live[p], n)
  <2>1. sf_errno' \in {"none", "EINVAL", "ENOMEM"} /\ state' \in {"running", "aborted"}
    BY <1>5 DEF ReallocMoves, Consistent
  <2>2. p \in DOMAIN live /\ \E S : Kept(heap, live, S)
    BY <1>5, ValidIsLive
  <2>3. r.block = NULL => heap' = Settled(r.heap) /\ live' = live
    BY <1>5 DEF ReallocMoves
  <2>4. r.block # NULL => /\ heap' = Settled(AddToFreeList(g, p))
                          /\ live' = Also(Without(live, p), r.block, x)
    BY <1>5 DEF ReallocMoves
  <2>5. /\ r = GeneralizeAllocation(heap, n, 1) /\ x = Resized(live[p], n)
        /\ g = Copy(r.heap, p, r.block, Payload(heap, p))
    OBVIOUS
  <2> HIDE DEF r, g, x
  <2>6. r.block = NULL => \E T : Kept(r.heap, live, T)
    <3>1. 1 \in Nat /\ 1 > 0
      OBVIOUS
    <3> QED BY <1>1, <2>2, <2>5, <3>1, AllocKept
  <2>7. r.block # NULL =>
          \E T : Kept(AddToFreeList(g, p), Also(Without(live, p), r.block, x), T)
    BY <1>1, <1>5, <2>2, <2>5, MovedKept
  <2>8. \E h, T : heap' = Settled(h) /\ Kept(h, live', T)
    <3>1. CASE r.block = NULL
      <4>1. heap' = Settled(r.heap) /\ \E T : Kept(r.heap, live', T)
        BY <3>1, <2>3, <2>6
      <4> QED BY <4>1
    <3>2. CASE r.block # NULL
      <4>1. /\ heap' = Settled(AddToFreeList(g, p))
            /\ \E T : Kept(AddToFreeList(g, p), live', T)
        BY <3>2, <2>4, <2>7
      <4> QED BY <4>1
    <3> QED BY <3>1, <3>2
  <2>9. PICK h, T : heap' = Settled(h) /\ Kept(h, live', T)
    BY <2>8
  <2>10. Kept(heap', live', T)
    BY <2>9, SettledKept
  <2> QED BY <2>1, <2>10, StillConsistent
<1> QED BY <1>2, <1>3, <1>4, <1>5 DEF sf_realloc

(* The user writes what he asked for.                                      *)
LEMMA WriteKeeps ==
  ASSUME Consistent, NEW p \in DOMAIN live, Write(p)
  PROVE  Consistent'
<1> DEFINE n == live[p].asked
           end == p + heap.head[p].size - 1
           f == [u \in Units |-> IF InHead(u, p, n) THEN Data ELSE heap.head[u]]
           k == [u \in Units |-> IF InFoot(u, p, n) THEN Data ELSE heap.foot[u]]
           h == [heap EXCEPT !.head = f, !.foot = k]
<1>1. heap.pages > 0 /\ heap \in Heaps
  BY HeapIn, Numbers DEF Consistent
<1>2. PICK S : Kept(heap, live, S)
  BY <1>1 DEF Consistent
<1>3. p \in Held(heap, S) /\ Sound(heap, S)
  BY <1>2 DEF Kept
<1>4. /\ p \in Nat /\ p \in Units /\ heap.head[p] \in Headers /\ heap.head[p].size \in Nat
      /\ heap.head[p].size >= 2 /\ Past(heap, p) = p + heap.head[p].size
      /\ Past(heap, p) <= End(heap) /\ End(heap) \in Nat /\ End(heap) < NUnits
  BY <1>3, HeldFacts
<1>5. end \in Units
  BY SMTT(30), <1>4, Numbers
<1>6. heap.head \in [Units -> Words] /\ heap.foot \in [Units -> Words]
  BY <1>1, HeapIn
<1>7. \A u \in Units : k[u] \in Words
  BY <1>6, WordFacts
<1>8. h.foot = k
  BY <1>1 DEF Heaps
<1>9. PICK last \in {h.foot[end]} \cup (IF Lookalike /\ InFoot(end, p, n)
                                          THEN {heap.head[p]} ELSE {}) :
        heap' = [h EXCEPT !.foot[end] = last]
  BY DEF Write
<1>10. live' = [live EXCEPT ![p].written = live[p].asked] /\ sf_errno' = sf_errno
       /\ state' = state
  BY DEF Write
<1>11. heap' = WithData(heap, p, n, end, last)
  BY <1>1, <1>8, <1>9 DEF Heaps, WithData
<1>12. last \in Words /\ (~Lookalike => last = k[end])
  BY <1>4, <1>5, <1>7, <1>8, <1>9, WordFacts
<1>13. k[end] = IF InFoot(end, p, n) THEN Data ELSE heap.foot[end]
  BY <1>5
<1>14. AsLast(heap, p, n, end, last)
  BY <1>12, <1>13 DEF AsLast
<1>15. Noted(live, p, live')
  <2>1. live[p] \in [asked : Requests, align : Nat, written : Nat]
    BY <1>2 DEF Kept, Mine
  <2>2. live[p].asked \in Nat
    BY <2>1, SfmmNumbers
  <2> QED BY <2>1, <2>2, <1>10 DEF Noted
<1>16. n = live[p].asked /\ end = p + heap.head[p].size - 1
  OBVIOUS
<1> HIDE DEF f, k, n, end, h
<1>17. Wrote(heap, p, n, end, last, WithData(heap, p, n, end, last))
  BY <1>1, <1>4, <1>5, <1>12, WriteMakes
<1>18. Kept(WithData(heap, p, n, end, last), live', S)
  BY <1>2, <1>14, <1>15, <1>16, <1>17, WriteKept
<1>19. Kept(heap', live', S)
  BY <1>11, <1>18
<1>20. sf_errno' \in {"none", "EINVAL", "ENOMEM"} /\ state' \in {"running", "aborted"}
  BY <1>10 DEF Consistent
<1> QED BY <1>19, <1>20, StillConsistent

(* One case for each action.                                               *)
LEMMA StepConsistent == NoWrap /\ Consistent /\ [Next]_vars => Consistent'
<1> SUFFICES ASSUME NoWrap, Consistent, [Next]_vars PROVE Consistent'
  OBVIOUS
<1>1. ASSUME NEW n \in Requests, sf_malloc(n) PROVE Consistent'
  <2>1. 1 \in Nat \ {0}
    OBVIOUS
  <2> QED BY <1>1, <2>1, AllocateKeeps DEF sf_malloc
<1>2. ASSUME NEW n \in Requests, NEW a \in Aligns, sf_memalign(n, a) PROVE Consistent'
  <2>1. CASE sf_errno' = "EINVAL" /\ UNCHANGED <<heap, live, state>>
    BY <2>1 DEF Consistent
  <2>2. CASE Allocate(n, a)
    <3>1. a \in Nat \ {0}
      BY SfmmNumbers
    <3> QED BY <2>2, <3>1, AllocateKeeps
  <2> QED BY <1>2, <2>1, <2>2 DEF sf_memalign
<1>3. ASSUME NEW p \in Pointers, sf_free(p) PROVE Consistent'
  BY <1>3, FreeKeeps DEF sf_free
<1>4. ASSUME NEW p \in Pointers, NEW n \in Requests, sf_realloc(p, n) PROVE Consistent'
  BY <1>4, ReallocKeeps
<1>5. ASSUME NEW p \in DOMAIN live, Write(p) PROVE Consistent'
  BY <1>5, WriteKeeps
<1>6. CASE UNCHANGED vars
  BY <1>6 DEF vars, Consistent
<1> QED BY <1>1, <1>2, <1>3, <1>4, <1>5, <1>6 DEF Next

(* The invariant holds in every state.                                     *)
LEMMA AlwaysConsistent == ASSUME NoWrap PROVE Spec => []Consistent
BY InitConsistent, StepConsistent, PTL DEF Spec

(* Every variable has its type.                                            *)
THEOREM TypesCorrect == ASSUME NoWrap PROVE Spec => []TypeOK
<1>1. Consistent => TypeOK
  <2> SUFFICES ASSUME Consistent PROVE TypeOK
    OBVIOUS
  <2>1. CASE heap.pages = 0
    BY <2>1 DEF Consistent, TypeOK
  <2>2. CASE heap.pages # 0
    <3>1. heap.pages > 0
      BY <2>2, HeapIn, Numbers DEF Consistent
    <3>2. PICK S : Kept(heap, live, S)
      BY <3>1 DEF Consistent
    <3>3. DOMAIN live \subseteq Units
      BY <3>2, HeldFacts DEF Kept
    <3>4. \A b \in DOMAIN live : live[b] \in [asked : Requests, align : Nat, written : Nat]
      BY <3>2 DEF Kept, Mine
    <3> QED BY <3>3, <3>4 DEF Consistent, TypeOK
  <2> QED BY <2>1, <2>2
<1> QED BY <1>1, AlwaysConsistent, PTL

(* A sound heap is sound by the walk over its headers.                     *)
LEMMA HeapIsSound ==
  ASSUME NEW S, Sound(heap, S)
  PROVE  HeapSound
<1>1. /\ heap \in Heaps /\ heap.pages > 0 /\ Tiles(heap, S) /\ Bits(heap, S, NULL)
      /\ Listed(heap, S, {}) /\ Blocks = S
  BY BlocksKept DEF Sound
<1>2. BlocksSound
  <2>1. \E b \in Blocks : b + heap.head[b].size = End(heap)
    BY <1>1 DEF Tiles, Past
  <2>2. heap.head[2].prev /\ heap.head[End(heap)].size = 0 /\ heap.head[End(heap)].alloc
    BY <1>1 DEF Tiles, Bits
  <2>3. ASSUME NEW b \in Blocks
        PROVE  /\ heap.head[b].size >= MinUnits
               /\ heap.head[b + heap.head[b].size].prev = heap.head[b].alloc
               /\ ~heap.head[b].alloc =>
                    /\ heap.foot[(b + heap.head[b].size) - 1] = heap.head[b]
                    /\ heap.head[b + heap.head[b].size].alloc
    <3>1. /\ b \in S /\ b \in Nat /\ Past(heap, b) = b + heap.head[b].size
          /\ b # NULL /\ Past(heap, b) # NULL
          /\ heap.head[b].alloc \in BOOLEAN /\ heap.head[Past(heap, b)].prev \in BOOLEAN
          /\ heap.head[b].size >= MinUnits /\ heap.head[b].size \in Nat
      BY <1>1, TileFacts DEF Past, NULL, MinUnits
    <3>2. /\ heap.head[Past(heap, b)].prev <=> heap.head[b].alloc
          /\ ~heap.head[b].alloc => /\ heap.foot[Past(heap, b) - 1] = heap.head[b]
                                    /\ heap.head[Past(heap, b)].alloc
      BY <3>1, <1>1 DEF Bits
    <3>3. heap.head[Past(heap, b)].prev = heap.head[b].alloc
      BY <3>1, <3>2
    <3>4. (b + heap.head[b].size) - 1 = Past(heap, b) - 1
      BY <3>1
    <3> QED BY <3>1, <3>2, <3>3, <3>4
  <2> DEFINE end == End(heap)
             Next1(b) == b + heap.head[b].size
  <2>4. /\ \E b \in Blocks : Next1(b) = end
        /\ heap.head[2].prev
        /\ heap.head[end].size = 0 /\ heap.head[end].alloc
        /\ \A b \in Blocks :
             /\ heap.head[b].size >= MinUnits
             /\ heap.head[Next1(b)].prev = heap.head[b].alloc
             /\ ~heap.head[b].alloc =>
                  /\ heap.foot[Next1(b) - 1] = heap.head[b]
                  /\ heap.head[Next1(b)].alloc
    BY <2>1, <2>2, <2>3
  <2> QED BY <2>4 DEF BlocksSound
<1>3. ListsSound
  BY <1>1 DEF Listed, ListsSound, FreeBlocks
<1> QED BY <1>2, <1>3 DEF HeapSound

(* Whatever was merged, split, padded or resized, the blocks fill the heap,  *)
(* their headers, footers and bits agree, no free block is beside another,   *)
(* and each is once in the one list for it.                                *)
THEOREM HeapStaysSound == ASSUME NoWrap PROVE Spec => []HeapSound
<1>1. Consistent => HeapSound
  <2> SUFFICES ASSUME Consistent PROVE HeapSound
    OBVIOUS
  <2>1. CASE heap.pages = 0
    <3>1. Blocks = {}
      BY <2>1 DEF Blocks
    <3>2. \A c \in Lists : heap.list[c] = <<>>
      BY <2>1 DEF Consistent
    <3>3. ListsSound
      BY <3>1, <3>2 DEF ListsSound, FreeBlocks, IsInjective, Range
    <3> QED BY <2>1, <3>3 DEF HeapSound, BlocksSound
  <2>2. CASE heap.pages # 0
    <3>1. heap.pages > 0
      BY <2>2, HeapIn, Numbers DEF Consistent
    <3> QED BY <3>1, HeapIsSound DEF Consistent, Kept
  <2> QED BY <2>1, <2>2
<1> QED BY <1>1, AlwaysConsistent, PTL

(* The allocated blocks are those the user has, with the room and the      *)
(* alignment he asked for.                                                 *)
THEOREM LiveStaysSound == ASSUME NoWrap PROVE Spec => []LiveSound
<1>1. Consistent => LiveSound
  <2> SUFFICES ASSUME Consistent PROVE LiveSound
    OBVIOUS
  <2>1. CASE heap.pages = 0
    BY <2>1 DEF Consistent, LiveSound, Blocks, FreeBlocks
  <2>2. CASE heap.pages # 0
    <3>1. heap.pages > 0
      BY <2>2, HeapIn, Numbers DEF Consistent
    <3>2. PICK S : Kept(heap, live, S)
      BY <3>1 DEF Consistent
    <3>3. DOMAIN live = Blocks \ FreeBlocks
      BY <3>2, BlocksKept DEF Kept
    <3> QED BY <3>2, <3>3 DEF Kept, Mine, LiveSound
  <2> QED BY <2>1, <2>2
<1> QED BY <1>1, AlwaysConsistent, PTL

(* What the user wrote is in his block until he gives it back, also when   *)
(* sf_realloc moves it.                                                    *)
THEOREM DataStays == ASSUME NoWrap, Lookalike = FALSE PROVE Spec => []DataKept
<1>1. Consistent => DataKept
  <2> SUFFICES ASSUME Consistent PROVE DataKept
    OBVIOUS
  <2>1. CASE heap.pages = 0
    BY <2>1 DEF Consistent, DataKept
  <2>2. CASE heap.pages # 0
    <3>1. heap.pages > 0
      BY <2>2, HeapIn, Numbers DEF Consistent
    <3> QED BY <3>1 DEF Consistent, Kept, Holds, DataKept
  <2> QED BY <2>1, <2>2
<1> QED BY <1>1, AlwaysConsistent, PTL

(* sf_check_pointer lets through what the user has, and neither NULL nor   *)
(* the start of a free block.                                              *)
THEOREM PointersStayTold == ASSUME NoWrap, Lookalike = FALSE PROVE Spec => []PointersTold
<1>1. Consistent => PointersTold
  <2> SUFFICES ASSUME Consistent, heap.pages > 0, NEW p \in Pointers
               PROVE  Valid(heap, p) <=> p \in DOMAIN live
    BY DEF PointersTold
  <2>1. Valid(heap, p) => p \in DOMAIN live
    BY ValidIsLive
  <2>2. ASSUME p \in DOMAIN live PROVE Valid(heap, p)
    <3>1. PICK S : Kept(heap, live, S)
      BY DEF Consistent
    <3>2. Sound(heap, S) /\ p \in Held(heap, S) /\ FeetFree(heap)
      BY <3>1, <2>2 DEF Kept
    <3>3. /\ p \in Nat /\ p >= 2 /\ heap.head[p].alloc /\ heap.head[p] \in Headers
          /\ heap.head[p].size \in Nat /\ heap.head[p].size >= 2 /\ p \in Units
          /\ Past(heap, p) = p + heap.head[p].size /\ Past(heap, p) <= End(heap)
          /\ End(heap) \in Nat /\ End(heap) < NUnits
      BY <3>2, HeldFacts
    <3>4. p \in 2..(End(heap) - 1) /\ p + heap.head[p].size <= End(heap)
          /\ p + heap.head[p].size - 1 \in Units /\ p - 1 \in Units
      BY <3>3, Numbers
    <3>5. heap.foot[p + heap.head[p].size - 1] # heap.head[p]
      BY <3>2, <3>3, <3>4 DEF FeetFree
    <3>6. FooterAgrees(heap.foot[p - 1])
      BY <3>2, <3>4 DEF FeetFree, FooterAgrees
    <3> QED BY <3>3, <3>4, <3>5, <3>6 DEF Valid, MinUnits
  <2> QED BY <2>1, <2>2
<1> QED BY <1>1, AlwaysConsistent, PTL

(* A request fails only when the heap has all its pages and no free block, *)
(* wherever it is listed, has the room.                                    *)
THEOREM FailureMeansFull == ASSUME NoWrap PROVE Spec => FailsOnlyWhenFull
<1> DEFINE Full == \A n \in Requests, a \in Aligns \cup {1} :
                     sf_errno' = "ENOMEM" /\ Allocate(n, a) =>
                       /\ heap'.pages = MaxPages
                       /\ \A b \in FreeBlocks' : ~Fits(heap', b, Actual(n), a)
<1>1. Consistent => Full
  <2> SUFFICES ASSUME Consistent, NEW n \in Requests, NEW a \in Aligns \cup {1},
                      sf_errno' = "ENOMEM", Allocate(n, a)
               PROVE  /\ heap'.pages = MaxPages
                      /\ \A b \in FreeBlocks' : ~Fits(heap', b, Actual(n), a)
    OBVIOUS
  <2> DEFINE h == Initialized(heap)
             r == GeneralizeAllocation(h, n, a)
  <2>1. heap' = Settled(r.heap) /\ r.block = NULL
    BY DEF Allocate
  <2>2. PICK S : Sound(h, S)
    BY InitializedKept DEF Kept
  <2>3. r = GeneralizeAllocation(h, n, a) /\ n \in Nat /\ a \in Nat /\ a > 0
    BY SfmmNumbers
  <2> HIDE DEF h, r
  <2>4. PICK T : /\ Extended(h, S, r.heap, T) /\ r.heap.pages = MaxPages
                 /\ \A b \in T : ~r.heap.head[b].alloc => ~Fits(r.heap, b, Actual(n), a)
    BY <2>1, <2>2, <2>3, Generalized
  <2>5. Forgotten(r.heap, T, heap')
    BY <2>1, <2>4, SettledIs DEF Extended
  <2>6. /\ Sound(heap', T) /\ heap'.pages = MaxPages
        /\ \A c \in T : heap'.head[c] = r.heap.head[c]
    BY <2>4, <2>5 DEF Forgotten
  <2>7. FreeBlocks' = {b \in T : ~heap'.head[b].alloc}
    <3>1. heap' \in Heaps /\ heap'.pages > 0 /\ Tiles(heap', T)
      BY <2>6 DEF Sound
    <3>2. heap'.pages # 0
      BY <3>1, HeapIn, Numbers
    <3>3. BlocksFrom(heap') = T
      BY <3>1, BlocksAre
    <3> QED BY <3>2, <3>3 DEF FreeBlocks, Blocks
  <2> QED BY <2>4, <2>6, <2>7 DEF Fits
<1>2. Consistent /\ [Next]_vars => [Full]_vars
  BY <1>1
<1> HIDE DEF Full
<1>3. Spec => [][Full]_vars
  BY <1>2, AlwaysConsistent, PTL DEF Spec
<1> QED BY <1>3 DEF FailsOnlyWhenFull, Full
=============================================================================
