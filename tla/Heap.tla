-------------------------------- MODULE Heap --------------------------------
(***************************************************************************)
(* The kernel heap (mm/heap.c): a list of blocks with split, merge and     *)
(* growth by runs of frames (pmm_alloc_frames, mm/pmm.c), while the rest   *)
(* of the kernel takes and returns single frames of the same pool.         *)
(*                                                                         *)
(* The heap is not reentrant and need not be: handlers that call it run    *)
(* only while a user task is current, never inside the shell's calls.      *)
(*                                                                         *)
(* A call of kmalloc that fails changes nothing and is not an action.      *)
(***************************************************************************)
EXTENDS Naturals, Sequences, FiniteSets, SequencesExt

CONSTANTS
  FRAME_SIZE, \* bytes
  HDR,        \* sizeof(block)
  NFrames,    \* frames of the pool; frame 0 is reserved
  Requests,   \* sizes asked of kmalloc
  MaxOthers   \* bound on the frames that others hold

Grain  == 16
Frames == 1..NFrames

ASSUME HeapConstants ==
  /\ HDR \in Nat /\ HDR % Grain = 0
  /\ FRAME_SIZE \in Nat \ {0} /\ FRAME_SIZE % Grain = 0
  /\ NFrames \in Nat /\ MaxOthers \in Nat
  /\ Requests \subseteq Nat

VARIABLES
  list,        \* the blocks from head on: address of the header, payload
               \* size, free flag
  used_bytes,
  block_count,
  regions,     \* frames that the heap has taken
  others       \* frames that other parts of the kernel hold

heapVars == <<list, used_bytes, block_count, regions, others>>

Block == [at: Nat, size: Nat, free: BOOLEAN]

HeapTypeOK ==
  /\ list \in Seq(Block)
  /\ used_bytes \in Nat
  /\ block_count \in Nat
  /\ regions \subseteq Frames
  /\ others \subseteq Frames

-----------------------------------------------------------------------------
align16(n) == ((n + Grain - 1) \div Grain) * Grain

\* kmalloc: a request of 0 bytes counts as 1.
Payload(n) == align16(IF n = 0 THEN 1 ELSE n)

adjacent(a, b) == b.at = a.at + HDR + a.size

(* pmm_alloc_frames: the first run of count free frames *)
FreeRun(f, count) == f..(f + count - 1) \subseteq Frames \ (regions \union others)
RunExists(count) == \E f \in Frames : FreeRun(f, count)
FirstRun(count) ==
  CHOOSE f \in Frames : FreeRun(f, count) /\ \A g \in Frames : FreeRun(g, count) => f <= g

(* region_alloc *)
FramesFor(size) == (HDR + size + FRAME_SIZE - 1) \div FRAME_SIZE
Region(f, count) == [at |-> f * FRAME_SIZE, size |-> count * FRAME_SIZE - HDR, free |-> TRUE]

\* Mutant of FirstFit: blocks in use are not skipped.
FirstFit_AnyBlock(l, size) == SelectInSeq(l, LAMBDA b : b.size >= size)

\* Place in l of the first free block that is large enough, or 0.
FirstFit(l, size) == SelectInSeq(l, LAMBDA b : b.free /\ b.size >= size)

\* Mutant of Take: the header of the rest is not subtracted.
Take_NoHeader(l, i, size) ==
  LET b == l[i]
      used == [at |-> b.at, size |-> size, free |-> FALSE]
      rest == [at |-> b.at + HDR + size, size |-> b.size - size, free |-> TRUE]
  IN IF b.size - size >= HDR + Grain
     THEN InsertAt([l EXCEPT ![i] = used], i + 1, rest)
     ELSE [l EXCEPT ![i].free = FALSE]

\* Use block i for size bytes, splitting it when the rest can be a block.
Take(l, i, size) ==
  LET b == l[i]
      used == [at |-> b.at, size |-> size, free |-> FALSE]
      rest == [at |-> b.at + HDR + size, size |-> b.size - size - HDR, free |-> TRUE]
  IN IF b.size - size >= HDR + Grain
     THEN InsertAt([l EXCEPT ![i] = used], i + 1, rest)
     ELSE [l EXCEPT ![i].free = FALSE]

\* The heap after block i of l has been taken.
Taken(l, size) ==
  LET i == FirstFit(l, size)
      m == Take(l, i, size)
  IN /\ list' = m
     /\ used_bytes' = used_bytes + m[i].size
     /\ block_count' = block_count + (Len(m) - Len(list))

kmalloc(n) ==
  LET size == Payload(n) IN
  /\ \/ /\ FirstFit(list, size) # 0
        /\ Taken(list, size)
        /\ UNCHANGED regions
     \/ LET count == FramesFor(size) IN
        /\ FirstFit(list, size) = 0
        /\ RunExists(count)
        /\ Taken(Append(list, Region(FirstRun(count), count)), size)
        /\ regions' = regions \union FirstRun(count)..(FirstRun(count) + count - 1)
  /\ UNCHANGED others

\* Block i swallows the next one.
Join(l, i) ==
  RemoveAt([l EXCEPT ![i].size = @ + HDR + l[i + 1].size], i + 1)

Mergeable(l, i) ==
  i \in 1..(Len(l) - 1) /\ l[i].free /\ l[i + 1].free /\ adjacent(l[i], l[i + 1])

MergeNext(l, i) == IF Mergeable(l, i) THEN Join(l, i) ELSE l

\* kfree finds the previous block by walking the list and gives up after 100000
\* steps (heap.c:152); lists of that length are not modelled.
\* Mutant of MergePrev: only the next block is merged.
MergePrev_None(l, i) == l

MergePrev(l, i) == IF Mergeable(l, i - 1) THEN Join(l, i - 1) ELSE l

\* kfree of the block at place i; a pointer is freed once.
kfree(i) ==
  /\ i \in DOMAIN list /\ ~list[i].free
  /\ list' = MergePrev(MergeNext([list EXCEPT ![i].free = TRUE], i), i)
  /\ used_bytes' = used_bytes - list[i].size
  /\ block_count' = block_count - (Len(list) - Len(list'))
  /\ UNCHANGED <<regions, others>>

\* pmm_alloc_frame and pmm_free_frame by the page tables and user tasks.
pmm_alloc_frame ==
  /\ Cardinality(others) < MaxOthers
  /\ RunExists(1)
  /\ others' = others \union {FirstRun(1)}
  /\ UNCHANGED <<list, used_bytes, block_count, regions>>

pmm_free_frame(f) ==
  /\ f \in others
  /\ others' = others \ {f}
  /\ UNCHANGED <<list, used_bytes, block_count, regions>>

-----------------------------------------------------------------------------
HeapInit ==
  /\ list = <<>> /\ used_bytes = 0 /\ block_count = 0
  /\ regions = {} /\ others = {}

HeapNext ==
  \/ \E n \in Requests : kmalloc(n)
  \/ \E i \in DOMAIN list : kfree(i)
  \/ pmm_alloc_frame
  \/ \E f \in Frames : pmm_free_frame(f)

HeapSpec == HeapInit /\ [][HeapNext]_heapVars

-----------------------------------------------------------------------------
(* Properties *)

Span(b) == HDR + b.size
InUse == {b \in ToSet(list) : ~b.free}

\* The sum of a sequence of numbers.
Total(s) ==
  LET sum[i \in 0..Len(s)] == IF i = 0 THEN 0 ELSE sum[i - 1] + s[i]
  IN sum[Len(s)]

Spans(l)   == [i \in DOMAIN l |-> Span(l[i])]
Charges(l) == [i \in DOMAIN l |-> IF l[i].free THEN 0 ELSE l[i].size]

\* The blocks tile the heap's frames: none overlaps another or leaves the
\* frames that the heap owns, and no byte of them is lost (split and merge
\* move the header of a block in and out of a payload).  The statistics that
\* MemInfo prints count exactly these blocks, whatever was split and merged.
Tiled ==
  /\ HeapTypeOK
  /\ \A i, j \in DOMAIN list : i # j =>
       \/ list[i].at + Span(list[i]) <= list[j].at
       \/ list[j].at + Span(list[j]) <= list[i].at
  /\ \A b \in ToSet(list) :
       (b.at \div FRAME_SIZE)..((b.at + Span(b) - 1) \div FRAME_SIZE) \subseteq regions
  /\ Total(Spans(list)) = Cardinality(regions) * FRAME_SIZE
  /\ used_bytes = Total(Charges(list))
  /\ block_count = Len(list)

\* Between calls no free block is followed by an adjacent free one, also
\* where a new region happens to continue the last one.
Coalesced == \A i \in DOMAIN list : ~Mergeable(list, i)

\* Heap implements Allocator: a live block is the range of its payload.
Alloc == INSTANCE Allocator WITH
  Ranges   <- [at: {Grain * k : k \in 0..(((NFrames + 1) * FRAME_SIZE) \div Grain)},
               len: {Grain * k : k \in 1..((NFrames * FRAME_SIZE) \div Grain)}],
  Requests <- Requests,
  Frames   <- Frames,
  FrameAt  <- LAMBDA f : [at |-> f * FRAME_SIZE, len |-> FRAME_SIZE],
  live     <- {[at |-> b.at + HDR, len |-> b.size] : b \in InUse},
  others   <- others

\* Memory handed out is large enough, aligned, overlaps neither other live
\* memory nor a frame that others hold, and does not move until it is freed.
ImplementsAllocator == Alloc!Spec

=============================================================================
