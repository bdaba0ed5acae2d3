-------------------------------- MODULE Sfmm --------------------------------
(***************************************************************************)
(* The allocator of hw3: sf_malloc, sf_free, sf_realloc, sf_memalign.      *)
(*                                                                         *)
(* The heap is counted in units of 16 bytes, each of two rows.  A block is *)
(* named by its unit; its header is the first row of that unit and the     *)
(* pointer the user gets is the second, so the footer of a free block is   *)
(* the second row of its last unit.  Units 0 and 1 are the prologue, the   *)
(* last is the epilogue.  A free list is the sequence of its blocks: the   *)
(* links themselves are kept only as rows that are in use.                 *)
(***************************************************************************)
EXTENDS Integers, Sequences, SequencesExt, FiniteSetsExt

CONSTANTS
  PageUnits,       \* PAGE_SZ / 16
  MaxPages,        \* pages the system gives
  NumFreeLists,
  SizeLimit,       \* size_t holds the numbers below it
  Requests,        \* the sizes in bytes that are asked for
  Aligns,          \* the alignments in units that are asked for
  Lookalike,       \* may the user's data look like a header
  Forget           \* are rows forgotten that nothing but data is in

ASSUME SfmmNumbers ==
  /\ PageUnits \in Nat /\ PageUnits > 5 /\ MaxPages \in Nat \ {0}
  /\ NumFreeLists \in Nat \ {0}
  /\ SizeLimit \in Nat \ {0} /\ Requests \subseteq 0..(SizeLimit - 1)
  /\ Aligns \subseteq Nat \ {0} /\ Lookalike \in BOOLEAN
  /\ Forget \in BOOLEAN

VARIABLES
  heap,        \* pages, rows and free lists
  sf_errno,
  live,        \* what the user was given: [asked, align, written]
  state        \* "running", or "aborted" by abort

vars == <<heap, sf_errno, live, state>>

Units == 0..(PageUnits * MaxPages - 1)
Lists == 0..(NumFreeLists - 1)
Wild  == NumFreeLists - 1
MinUnits == 2
NULL  == -1

Header(size, alloc, prev) == [size |-> size, alloc |-> alloc, prev |-> prev]
Headers == [size : 0..(PageUnits * MaxPages), alloc : BOOLEAN, prev : BOOLEAN]
Junk == [text |-> "junk"]
Link == [text |-> "link"]
Data == [text |-> "data"]
Words == Headers \cup {Junk, Link, Data}
Heaps == [pages : 0..MaxPages, head : [Units -> Words], foot : [Units -> Words],
          list : [Lists -> Seq(Units)]]

Init ==
  /\ heap = [pages |-> 0, head |-> [u \in Units |-> Junk],
             foot |-> [u \in Units |-> Junk], list |-> [c \in Lists |-> <<>>]]
  /\ sf_errno = "none" /\ live = <<>> /\ state = "running"

End(h) == PageUnits * h.pages - 1

-----------------------------------------------------------------------------
(* Headers and free lists.                                                 *)
PutHead(h, b, w) == [h EXCEPT !.head[b] = w]
PutFoot(h, b)    == [h EXCEPT !.foot[b + h.head[b].size - 1] = h.head[b]]

(* Mutants: the next block keeps its bit, a block that is merged or given  *)
(* out stays in its list, the wilderness is listed by its size.            *)
PrevKept(h, b)   == h
LeftListed(h, b) == h
ListBySize(h, b) == Min({c \in Lists : c = Wild \/ h.head[b].size <= MinUnits * 2^c})

PrevFree(h, b) == [h EXCEPT !.head[b].prev = FALSE]
Unlink(h, b)   == [h EXCEPT !.list = [c \in Lists |-> RemoveFirst(@[c], b)]]

(* M, 2M, 4M and so on; the last list takes what is larger.                *)
ClassOf(size) == Min({c \in Lists : c = Wild \/ size <= MinUnits * 2^c})

ListFor(h, b) ==
  IF b + h.head[b].size = End(h) THEN Wild ELSE ClassOf(h.head[b].size)

Push(h, b) ==
  [h EXCEPT !.list[ListFor(h, b)] = <<b>> \o @,
            !.foot[b] = Link, !.head[b + 1] = Link]

(* The header of a block that is merged into the one before it stays.      *)
AddToFreeList(h, b) ==
  LET old   == h.head[b]
      next  == b + old.size
      joins == ~h.head[next].alloc
      size  == old.size + (IF joins THEN h.head[next].size ELSE 0)
      start == IF old.prev THEN b ELSE b - h.foot[b - 1].size
      h1    == IF joins THEN Unlink(h, next) ELSE PrevFree(h, next)
      h2    == IF old.prev
                 THEN PutHead(h1, b, Header(size, FALSE, TRUE))
                 ELSE Unlink([h1 EXCEPT !.head[start].size = @ + size], start)
  IN  Push(PutFoot(h2, start), start)

(* size units of the block b, which is free or to be made smaller.         *)
AllocateBlock(h, b, size) ==
  LET old  == h.head[b]
      rest == b + size
      h1   == PutHead(h, b, Header(size, TRUE, old.prev))
      h2   == PutHead(h1, rest, Header(old.size - size, FALSE, TRUE))
  IN  IF old.size - size < MinUnits
        THEN [h EXCEPT !.head[b].alloc = TRUE, !.head[b + old.size].prev = TRUE]
        ELSE AddToFreeList(PutFoot(h2, rest), rest)

-----------------------------------------------------------------------------
(* The heap.                                                               *)

(* What sf_mem_grow returns for the first page is not tested.              *)
InitializeHeap(h) ==
  LET end == PageUnits - 1
      h1  == [h EXCEPT !.pages = 1, !.head[0] = Header(2, TRUE, FALSE),
                       !.head[2] = Header(PageUnits - 3, FALSE, TRUE),
                       !.head[end] = Header(0, TRUE, FALSE)]
  IN  AddToFreeList(PutFoot(h1, 2), 2)

Initialized(h) == IF h.pages = 0 THEN InitializeHeap(h) ELSE h

(* The epilogue becomes the header of the new page, unless the block       *)
(* before it is free and takes the page.                                   *)
IncreaseWilderness(h) ==
  LET old   == End(h)
      new   == old + PageUnits
      block == old - h.foot[old - 1].size
      h1    == [h EXCEPT !.pages = @ + 1, !.head[new] = h.head[old]]
      h2    == PutHead(h1, old, Header(PageUnits, FALSE, TRUE))
  IN  IF h.head[old].prev THEN AddToFreeList(PutFoot(h2, old), old)
                          ELSE PutFoot([h1 EXCEPT !.head[block].size = @ + PageUnits], block)

-----------------------------------------------------------------------------
(* Finding room.                                                           *)

(* The payload of block b is at 16 * (b + 1); no padding is a lone unit.   *)
Padding(b, align) ==
  LET pad == (align - ((b + 1) % align)) % align
  IN  IF pad > 0 /\ pad < MinUnits THEN pad + align ELSE pad

Fits(h, b, size, align) == size + Padding(b, align) <= h.head[b].size

(* Where in list c blocks are that fit.                                    *)
Fitting(h, size, align, c) ==
  {n \in DOMAIN h.list[c] : Fits(h, h.list[c][n], size, align)}

(* Mutant: only the first of the lists is searched.                        *)
FirstFitInList(h, size, align, index) ==
  LET fitting == Fitting(h, size, align, index)
  IN  IF fitting = {} THEN NULL ELSE h.list[index][Min(fitting)]

(* The first block that fits in the lists from index on; NULL if none.     *)
FirstFit(h, size, align, index) ==
  LET lists == {c \in index..Wild : Fitting(h, size, align, c) # {}}
      first == Min(lists)
  IN  IF lists = {} THEN NULL ELSE h.list[first][Min(Fitting(h, size, align, first))]

(* The heap after block b was taken and the block that was given out.      *)
Taken(h, b, size, align) ==
  LET pad  == Padding(b, align)
      p    == b + pad
      h1   == Unlink(h, b)
      h2   == PutHead(h1, p, Header(h.head[b].size - pad, FALSE, FALSE))
      h3   == PutFoot(PutHead(h2, b, Header(pad, FALSE, h.head[b].prev)), b)
  IN  IF pad = 0 THEN AllocateBlock(h1, b, size)
                 ELSE AddToFreeList(AllocateBlock(h3, p, size), b)

(* Mutant: the header is not counted.                                      *)
ActualOfPayload(n) ==
  LET units == (n + 15) \div 16 IN IF units < MinUnits THEN MinUnits ELSE units

(* Bytes asked for to units, in the arithmetic of size_t.                  *)
Actual(n) ==
  LET bytes == (8 + n) % SizeLimit
      units == ((((bytes + 15) \div 16) * 16) % SizeLimit) \div 16
  IN  IF units < MinUnits THEN MinUnits ELSE units

(* sf_generalize_allocation for a size that is not 0: the heap and the     *)
(* block.  The heap grows page by page until the last list has room.       *)
Grown(h, size, align) ==
  LET after[n \in 0..(MaxPages - h.pages)] ==
        IF n = 0 THEN h ELSE IncreaseWilderness(after[n - 1])
      enough == {n \in 1..(MaxPages - h.pages) :
                   FirstFit(after[n], size, align, Wild) # NULL}
  IN  after[IF enough = {} THEN MaxPages - h.pages ELSE Min(enough)]

GeneralizeAllocation(h, n, align) ==
  LET size  == Actual(n)
      found == FirstFit(h, size, align, ClassOf(size))
      grown == Grown(h, size, align)
      later == FirstFit(grown, size, align, Wild)
  IN  CASE found # NULL -> [heap |-> Taken(h, found, size, align),
                            block |-> found + Padding(found, align)]
        [] found = NULL /\ later # NULL ->
             [heap |-> Taken(grown, later, size, align),
              block |-> later + Padding(later, align)]
        [] OTHER -> [heap |-> grown, block |-> NULL]

-----------------------------------------------------------------------------
(* sf_check_pointer; a row of data is taken for no header.                 *)

(* Mutant: the bit of the footer is read the wrong way round.              *)
FooterAgreesInverted(w) == w \in Headers => w.alloc

FooterAgrees(w) == w \in Headers => ~w.alloc

Valid(h, p) ==
  /\ p \in 2..(End(h) - 1)
  /\ LET w == h.head[p] IN
       /\ w \in Headers /\ w.size >= MinUnits /\ w.alloc
       /\ p + w.size <= End(h) /\ h.foot[p + w.size - 1] # w
       /\ ~w.prev => FooterAgrees(h.foot[p - 1])

-----------------------------------------------------------------------------
(* The blocks from unit b to the epilogue, as their headers say.           *)
BlocksFrom(h) ==
  LET from[b \in Units] ==
        IF b >= End(h) \/ h.head[b] \notin Headers \/ h.head[b].size = 0
          THEN {} ELSE {b} \cup (IF b + h.head[b].size \in Units
                                   THEN from[b + h.head[b].size] ELSE {})
  IN  from[2]

(* What a block held before stays in its rows; no call with a pointer of   *)
(* the user's reads it.  To keep the states few, Forget makes it junk:     *)
(* all but headers, footers, links and the data of allocated blocks.       *)
Settled(h) ==
  LET all   == BlocksFrom(h)
      free  == {b \in all : ~h.head[b].alloc}
      feet  == {b + h.head[b].size - 1 : b \in free}
      taken == UNION {b..(b + h.head[b].size - 1) : b \in all \ free}
  IN  IF ~Forget \/ h.pages = 0 THEN h
      ELSE [h EXCEPT
             !.head = [u \in Units |->
                         IF \/ u \in all \cup {0, End(h)} \/ u - 1 \in free
                            \/ u \in taken /\ @[u] = Data THEN @[u] ELSE Junk],
             !.foot = [u \in Units |->
                         IF \/ u \in free \cup feet
                            \/ u \in taken /\ @[u] = Data THEN @[u] ELSE Junk]]

-----------------------------------------------------------------------------
(* What the user calls; sf_errno is cleared before each call.              *)
Given(n, align) == [asked |-> n, align |-> align, written |-> 0]
Also(f, b, x)   == [c \in DOMAIN f \cup {b} |-> IF c = b THEN x ELSE f[c]]
Without(f, b)   == [c \in DOMAIN f \ {b} |-> f[c]]
Running         == state = "running"

Granted(b, n, align) == IF b = NULL THEN live ELSE Also(live, b, Given(n, align))

Allocate(n, align) ==
  LET h == Initialized(heap)
      r == GeneralizeAllocation(h, n, align)
  IN  /\ UNCHANGED state
      /\ \/ n = 0 /\ heap' = Settled(h) /\ sf_errno' = "none" /\ UNCHANGED live
         \/ /\ n # 0 /\ heap' = Settled(r.heap)
            /\ live' = Granted(r.block, n, align)
            /\ sf_errno' = IF r.block = NULL THEN "ENOMEM" ELSE "none"

sf_malloc(n) == Running /\ Allocate(n, 1)

PowersOfTwo == {2^k : k \in 0..6}

sf_memalign(n, align) ==
  /\ Running
  /\ IF align < MinUnits \/ align \notin PowersOfTwo
       THEN sf_errno' = "EINVAL" /\ UNCHANGED <<heap, live, state>>
       ELSE Allocate(n, align)

Free(p) ==
  IF Valid(heap, p)
    THEN /\ heap' = Settled(AddToFreeList(heap, p))
         /\ live' = Without(live, p) /\ UNCHANGED state
    ELSE state' = "aborted" /\ UNCHANGED <<heap, live>>

sf_free(p) == Running /\ Free(p) /\ sf_errno' = "none"

(* Mutant: the last row is forgotten.                                      *)
PayloadShort(h, b) == 16 * h.head[b].size - 16

Payload(h, b) == 16 * h.head[b].size - 8

(* The rows of the first n bytes that are given out at p.                  *)
InHead(u, p, n) == u > p /\ 16 * (u - p) - 8 < n
InFoot(u, p, n) == u >= p /\ 16 * (u - p) < n

(* memcpy of n bytes.                                                      *)
Copy(h, from, to, n) ==
  [h EXCEPT
    !.head = [u \in Units |-> IF InHead(u, to, n) THEN @[u - to + from] ELSE @[u]],
    !.foot = [u \in Units |-> IF InFoot(u, to, n) THEN @[u - to + from] ELSE @[u]]]

Resized(x, n) == [asked |-> n, align |-> 1, written |-> IF n < x.written THEN n ELSE x.written]

(* A block that shrinks stays where it is and keeps its alignment.         *)
ReallocInPlace(p, n) ==
  /\ heap' = Settled(AllocateBlock(heap, p, Actual(n)))
  /\ live' = [live EXCEPT ![p] = [Resized(@, n) EXCEPT !.align = live[p].align]]
  /\ sf_errno' = "none" /\ UNCHANGED state

ReallocMoves(p, n) ==
  LET r == GeneralizeAllocation(heap, n, 1)
      h == Copy(r.heap, p, r.block, Payload(heap, p))
  IN  /\ UNCHANGED state
      /\ IF r.block = NULL
           THEN heap' = Settled(r.heap) /\ sf_errno' = "ENOMEM" /\ UNCHANGED live
           ELSE /\ heap' = Settled(AddToFreeList(h, p))
                /\ live' = Also(Without(live, p), r.block, Resized(live[p], n))
                /\ sf_errno' = "none"

sf_realloc(p, n) ==
  /\ Running
  /\ \/ n = 0 /\ Free(p) /\ sf_errno' = "none"
     \/ n # 0 /\ ~Valid(heap, p)
        /\ sf_errno' = "EINVAL" /\ UNCHANGED <<heap, live, state>>
     \/ n # 0 /\ Valid(heap, p) /\ Actual(n) <= heap.head[p].size
        /\ ReallocInPlace(p, n)
     \/ n # 0 /\ Valid(heap, p) /\ Actual(n) > heap.head[p].size
        /\ ReallocMoves(p, n)

(* The user writes all he asked for.                                       *)
Write(p) ==
  /\ Running /\ live[p].written = 0
  /\ LET n == live[p].asked
         h == [heap EXCEPT
                !.head = [u \in Units |-> IF InHead(u, p, n) THEN Data ELSE @[u]],
                !.foot = [u \in Units |-> IF InFoot(u, p, n) THEN Data ELSE @[u]]]
         end == p + heap.head[p].size - 1
     IN  \E last \in {h.foot[end]}
                     \cup (IF Lookalike /\ InFoot(end, p, n) THEN {heap.head[p]} ELSE {}) :
           heap' = [h EXCEPT !.foot[end] = last]
  /\ live' = [live EXCEPT ![p].written = live[p].asked]
  /\ UNCHANGED <<sf_errno, state>>

-----------------------------------------------------------------------------
Blocks == IF heap.pages = 0 THEN {} ELSE BlocksFrom(heap)
FreeBlocks == {b \in Blocks : ~heap.head[b].alloc}

(* The user passes NULL, what he was given, or what he gave back and is    *)
(* the start of a free block.                                              *)
Pointers == {NULL} \cup DOMAIN live \cup FreeBlocks

Next ==
  \/ \E n \in Requests : sf_malloc(n)
  \/ \E n \in Requests, a \in Aligns : sf_memalign(n, a)
  \/ \E p \in Pointers : sf_free(p)
  \/ \E p \in Pointers, n \in Requests : sf_realloc(p, n)
  \/ \E p \in DOMAIN live : Write(p)

Spec == Init /\ [][Next]_vars

-----------------------------------------------------------------------------
TypeOK ==
  /\ heap \in Heaps
  /\ sf_errno \in {"none", "EINVAL", "ENOMEM"} /\ state \in {"running", "aborted"}
  /\ DOMAIN live \subseteq Units
  /\ \A b \in DOMAIN live : live[b] \in [asked : Requests, align : Nat, written : Nat]

(* The blocks fill the heap from the prologue to the epilogue, every bit   *)
(* about a block before is right, a free block ends with its header, and   *)
(* no two free blocks are neighbours.                                      *)
BlocksSound ==
  heap.pages > 0 =>
    LET end == End(heap)
        Next1(b) == b + heap.head[b].size
    IN  /\ \E b \in Blocks : Next1(b) = end
        /\ heap.head[2].prev
        /\ heap.head[end].size = 0 /\ heap.head[end].alloc
        /\ \A b \in Blocks :
             /\ heap.head[b].size >= MinUnits
             /\ heap.head[Next1(b)].prev = heap.head[b].alloc
             /\ ~heap.head[b].alloc =>
                  /\ heap.foot[Next1(b) - 1] = heap.head[b]
                  /\ heap.head[Next1(b)].alloc

(* Every free block is once in one list, the one for its size or, for the  *)
(* block at the end of the heap, the last; nothing else is in a list.      *)
InList(h, c, b) ==
  LET size     == h.head[b].size
      atEnd    == b + size = End(h)
      above(d) == size > MinUnits * 2^d
  IN  IF c = Wild THEN atEnd \/ \A d \in 0..(c - 1) : above(d)
                  ELSE ~atEnd /\ ~above(c) /\ \A d \in 0..(c - 1) : above(d)

ListsSound ==
  \A c \in Lists :
    /\ IsInjective(heap.list[c])
    /\ Range(heap.list[c]) = {b \in FreeBlocks : InList(heap, c, b)}

(* The heap and its free lists agree, whatever was merged, split, padded   *)
(* or resized.                                                             *)
HeapSound == BlocksSound /\ ListsSound

(* The allocated blocks are those the user has, each with the room and the *)
(* alignment he asked for.                                                 *)
LiveSound ==
  /\ DOMAIN live = Blocks \ FreeBlocks
  /\ \A b \in DOMAIN live :
       /\ live[b].asked <= 16 * heap.head[b].size - 8
       /\ (b + 1) % live[b].align = 0

(* What the user wrote stays, also when sf_realloc moves it, whatever the  *)
(* allocator writes into the blocks around it.                             *)
DataKept ==
  \A p \in DOMAIN live, u \in Units :
    /\ InHead(u, p, live[p].written) => heap.head[u] = Data
    /\ InFoot(u, p, live[p].written) => heap.foot[u] = Data

(* sf_check_pointer lets through what the user has, and neither NULL nor   *)
(* the start of a free block.                                              *)
PointersTold ==
  heap.pages > 0 => \A p \in Pointers : Valid(heap, p) <=> p \in DOMAIN live

(* A request fails only when the heap has all its pages and no free block  *)
(* of it, wherever it is listed, has the room.                             *)
FailsOnlyWhenFull ==
  [][\A n \in Requests, a \in Aligns \cup {1} :
       sf_errno' = "ENOMEM" /\ Allocate(n, a) =>
         /\ heap'.pages = MaxPages
         /\ \A b \in FreeBlocks' : ~Fits(heap', b, Actual(n), a)]_vars

(* include/sfmm.h: the last list "is only used to contain the so-called    *)
(* wilderness block".                                                      *)
WildernessAlone ==
  \A b \in Range(heap.list[Wild]) : b + heap.head[b].size = End(heap)

(* include/sfmm.h: "If ptr is invalid, the function calls abort()"; also   *)
(* when it is the old place of a block that was merged since.              *)
StaleRefused ==
  \A p \in Units : Valid(heap, p) => p \in DOMAIN live
=============================================================================
