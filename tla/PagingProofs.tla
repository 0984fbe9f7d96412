---------------------------- MODULE PagingProofs ----------------------------
(***************************************************************************)
(* Proofs about user memory, for any number of tasks, frames, swap slots   *)
(* and pages of each region.                                               *)
(***************************************************************************)
EXTENDS Paging, Lemmas

\* Programs swap out pages of their own data only.  The system call does not
\* insist on it, and without it the frames of the model window get mixed up
\* (EvictionSafe is refuted for such programs).
DataOnly == SwapOutPages \subseteq DataPages

-----------------------------------------------------------------------------
(* The inductive invariant *)

\* Owners of the frames of all tasks: each refers to a frame that is marked
\* used, and no two to the same.
FramesOwned ==
  /\ \A t \in Tasks, x \in Owners : Held(task[t], x) # 0 => Held(task[t], x) \in used
  /\ \A t, u \in Tasks, x, y \in Owners :
       Held(task[t], x) # 0 /\ Held(task[t], x) = Held(task[u], y) => t = u /\ x = y

\* The same of the swap slots, none of which is marked without an owner.
SlotsOwned ==
  /\ \A t \in Tasks, p \in Pages : task[t].swap_map[p] # 0 => task[t].swap_map[p] \in slots
  /\ \A t, u \in Tasks, p, q \in Pages :
       task[t].swap_map[p] # 0 /\ task[t].swap_map[p] = task[u].swap_map[q] => t = u /\ p = q
  /\ \A s \in slots : \E t \in Tasks, p \in Pages : task[t].swap_map[p] = s

\* What holds of a single task: where its pages are, that the table above a
\* page outlives the page, and that nothing is left of the model window or
\* the swap slots of a task that is not live.
KBacked(k) == \A p \in Pages : k.pte[p] # 0 => k.swap_map[p] = 0

KTables(k) ==
  \A p \in Pages : k.pte[p] # 0 \/ k.swap_map[p] # 0 => k.tbl[PtOf(p)] # 0

KHeap(k) ==
  \A i \in k.heap_pages..(HeapMax - 1) : k.pte[<<"heap", i>>] = 0 /\ k.swap_map[<<"heap", i>>] = 0

KDead(k) ==
  k.life # "live" => k.resident = {} /\ \A p \in Pages : k.swap_map[p] = 0

KModel(k, w) ==
  /\ k.resident \subseteq 0..(w - 1)
  /\ k.resident \subseteq 0..(k.frames_n - 1)
  /\ k.frames_n < w => k.resident = {}
  /\ \A g \in 0..(WinMax - 1) :
       /\ k.swap_map[ModelPage(g)] = 0
       /\ g \in k.resident => k.pte[ModelPage(g)] \in {0, k.model_frames[g]}
       /\ g \notin k.resident => k.pte[ModelPage(g)] = 0

KInv(k, w) == KBacked(k) /\ KTables(k) /\ KHeap(k) /\ KDead(k) /\ KModel(k, w)

ShellOK ==
  /\ pc # "idle" => who \in Tasks /\ at \in Nat \ {0}
  /\ pc = "spawn" => task[who].life # "live"

IInv ==
  /\ TypeOK
  /\ FramesOwned
  /\ SlotsOwned
  /\ \A t \in Tasks : KInv(task[t], win_pages)
  /\ ShellOK

-----------------------------------------------------------------------------
(* Pages, owners and frames *)

MemType == [used: SUBSET Frames, slots: SUBSET SlotNums, k: TaskRecord]

\* The regions do not overlap, and every page has a directory and a table.
LEMMA PageKinds ==
  /\ \A p \in Pages : PdOf(p) \in Tables /\ PtOf(p) \in Tables /\ p[1] \notin {"cr3", "table"}
  /\ \A p \in DataPages : p[1] # "model" /\ p \in Pages
  /\ \A g \in 0..(WinMax - 1) : ModelPage(g) \in Pages /\ ModelPage(g)[1] = "model"
                                /\ ModelPage(g)[2] = g
  /\ \A p \in Pages : p \notin DataPages => \E g \in 0..(WinMax - 1) : p = ModelPage(g)
BY DEF Pages, DataPages, ModelPages, HeapPages, Region, PdOf, PtOf, Tables, ModelPage

\* The frames a task holds, by the kind of the owner.
LEMMA HeldBy ==
  ASSUME NEW k
  PROVE  /\ <<"cr3", 0>> \in Owners /\ Held(k, <<"cr3", 0>>) = k.cr3
         /\ \A x \in Tables : <<"table", x>> \in Owners /\ Held(k, <<"table", x>>) = k.tbl[x]
         /\ \A p \in DataPages : p \in Owners /\ Held(k, p) = k.pte[p]
         /\ \A g \in 0..(WinMax - 1) :
              /\ ModelPage(g) \in Owners
              /\ Held(k, ModelPage(g)) =
                   IF g \in k.resident THEN k.model_frames[g] ELSE k.pte[ModelPage(g)]
BY PageKinds DEF Owners, Held, ModelPage

\* Every owner is of one of these kinds, and of no other.
LEMMA OwnerKinds ==
  /\ \A x \in Owners : \/ x = <<"cr3", 0>>
                        \/ \E i \in Tables : x = <<"table", i>>
                        \/ x \in DataPages
                        \/ \E g \in 0..(WinMax - 1) : x = ModelPage(g)
  /\ \A p \in Pages : p # <<"cr3", 0>> /\ \A i : p # <<"table", i>>
  /\ \A p \in DataPages, g \in 0..(WinMax - 1) : p # ModelPage(g)
<1>1. \A p \in Pages : p[1] \notin {"cr3", "table"}
  BY PageKinds
<1>2. \A p \in DataPages : p[1] # "model"
  BY PageKinds
<1>3. \A x \in Owners : x = <<"cr3", 0>> \/ (\E i \in Tables : x = <<"table", i>>) \/ x \in Pages
  BY DEF Owners
<1> QED
  BY <1>1, <1>2, <1>3, PageKinds DEF ModelPage

\* The heap's pages are data pages.
LEMMA HeapPage ==
  ASSUME NEW i \in 0..(HeapMax - 1)
  PROVE  <<"heap", i>> \in DataPages /\ <<"heap", i>> \in Pages
BY DEF Pages, DataPages, HeapPages, Region

\* Indices from the heap's end on are indices of heap pages.
LEMMA HeapIndex ==
  ASSUME NEW h \in 0..HeapMax, NEW i \in h..(HeapMax - 1)
  PROVE  i \in 0..(HeapMax - 1)
<1>1. HeapMax \in Nat
  BY PagingConstants DEF PagingConstants
<1> QED
  BY <1>1

\* Two records that differ only in the pages P hold the same elsewhere.
LEMMA HeldSame ==
  ASSUME NEW k, NEW l, NEW P, l.cr3 = k.cr3, l.tbl = k.tbl,
         \A q \in Pages \ P : l.pte[q] = k.pte[q],
         \A g \in 0..(WinMax - 1) : ModelPage(g) \notin P =>
           (g \in l.resident <=> g \in k.resident) /\ l.model_frames[g] = k.model_frames[g]
  PROVE  \A x \in Owners \ P : Held(l, x) = Held(k, x)
<1> TAKE x \in Owners \ P
<1>1. CASE x = <<"cr3", 0>>
  BY <1>1, HeldBy
<1>2. CASE \E i \in Tables : x = <<"table", i>>
  <2>1. PICK i \in Tables : x = <<"table", i>>
    BY <1>2
  <2> QED
    BY <2>1, HeldBy
<1>3. CASE x \in DataPages
  BY <1>3, HeldBy, PageKinds
<1>4. CASE \E g \in 0..(WinMax - 1) : x = ModelPage(g)
  <2>1. PICK g \in 0..(WinMax - 1) : x = ModelPage(g)
    BY <1>4
  <2>2. /\ Held(l, x) = IF g \in l.resident THEN l.model_frames[g] ELSE l.pte[x]
        /\ Held(k, x) = IF g \in k.resident THEN k.model_frames[g] ELSE k.pte[x]
        /\ x \in Pages
    BY <2>1, HeldBy, PageKinds
  <2> QED
    BY <2>1, <2>2
<1> QED
  BY <1>1, <1>2, <1>3, <1>4, OwnerKinds

\* What a task is charged stays a u32.
LEMMA ChargeType ==
  ASSUME NEW w \in 0..(U32 - 1), NEW n \in Nat
  PROVE  Charged(w, n) \in 0..(U32 - 1) /\ Refunded(w, n) \in 0..(U32 - 1)
<1>1. U32 \in Nat \ {0}
  BY PagingConstants DEF PagingConstants
<1>2. Charged(w, n) \in 0..(U32 - 1)
  BY <1>1, SMT DEF Charged
<1>3. Refunded(w, n) \in 0..(U32 - 1)
  BY <1>1, SMT DEF Refunded
<1> QED
  BY <1>2, <1>3

LEMMA NewFrameFree ==
  ASSUME NEW m \in MemType, ~Exhausted(m)
  PROVE  NewFrame(m) \in Frames /\ NewFrame(m) \notin m.used /\ NewFrame(m) # 0
<1>1. Frames \ m.used \in SUBSET Nat /\ Frames \ m.used # {} /\ 0 \notin Frames
  BY PagingConstants DEF Exhausted, Frames, PagingConstants
<1>2. \E f \in Frames \ m.used : \A g \in Frames \ m.used : f <= g
  BY <1>1, LeastExists
<1> QED
  BY <1>1, <1>2 DEF NewFrame

-----------------------------------------------------------------------------
(* vmm.c *)

\* pt_new changes one table entry, and that only from 0 to a new frame.
LEMMA PtNew ==
  ASSUME NEW m \in MemType, NEW x \in Tables
  PROVE  LET n == pt_new(m, x) IN
         /\ n \in MemType /\ n.slots = m.slots /\ m.used \subseteq n.used
         /\ \/ n = m
            \/ /\ m.k.tbl[x] = 0 /\ n.k.tbl[x] \in n.used \ m.used
               /\ n.k = [m.k EXCEPT !.tbl = [m.k.tbl EXCEPT ![x] = n.k.tbl[x]]]
<1>1. CASE m.k.tbl[x] # 0 \/ Exhausted(m)
  BY <1>1 DEF pt_new
<1>2. CASE m.k.tbl[x] = 0 /\ ~Exhausted(m)
  <2> DEFINE f == NewFrame(m)
             n == [m EXCEPT !.k.tbl[x] = f, !.used = @ \union {f}]
  <2>1. f \in Frames /\ f \notin m.used /\ f \in 0..NFrames
    BY <1>2, NewFrameFree, PagingConstants DEF Frames, PagingConstants
  <2>2. pt_new(m, x) = n
    BY <1>2 DEF pt_new
  <2> HIDE DEF f
  <2>3. n.k = [m.k EXCEPT !.tbl = [m.k.tbl EXCEPT ![x] = f]] /\ n.used = m.used \union {f}
        /\ n.slots = m.slots
    BY DEF MemType
  <2>4. m.k \in TaskRecord /\ n.k \in TaskRecord
    BY <2>1, <2>3 DEF MemType, TaskRecord
  <2>5. n \in MemType
    BY <2>1, <2>3, <2>4 DEF MemType
  <2>6. n.k.tbl[x] = f
    BY <2>3, <2>4 DEF TaskRecord
  <2> QED
    BY <1>2, <2>1, <2>2, <2>3, <2>5, <2>6
<1> QED
  BY <1>1, <1>2

TablesUsed(m) == \A x \in Tables : m.k.tbl[x] # 0 => m.k.tbl[x] \in m.used

\* Nothing but page tables and mapped pages differs.
SameRest(k, l) ==
  /\ l.life = k.life /\ l.cr3 = k.cr3 /\ l.swap_map = k.swap_map
  /\ l.heap_pages = k.heap_pages /\ l.frames_n = k.frames_n
  /\ l.model_frames = k.model_frames /\ l.resident = k.resident
  /\ l.weights = k.weights /\ l.budget = k.budget

\* From m to n only tables were added, each with a frame of its own.
TablesGrow(m, n) ==
  /\ n \in MemType /\ n.slots = m.slots /\ m.used \subseteq n.used
  /\ SameRest(m.k, n.k) /\ n.k.pte = m.k.pte
  /\ \A x \in Tables : \/ n.k.tbl[x] = m.k.tbl[x]
                       \/ m.k.tbl[x] = 0 /\ n.k.tbl[x] \in n.used \ m.used
  /\ \A x, y \in Tables : x # y /\ n.k.tbl[x] = n.k.tbl[y]
                            => n.k.tbl[x] = m.k.tbl[x] /\ n.k.tbl[y] = m.k.tbl[y]

LEMMA PtNewGrows ==
  ASSUME NEW m \in MemType, NEW x \in Tables, TablesUsed(m)
  PROVE  TablesGrow(m, pt_new(m, x)) /\ TablesUsed(pt_new(m, x))
<1> DEFINE n == pt_new(m, x)
<1>1. /\ n \in MemType /\ n.slots = m.slots /\ m.used \subseteq n.used
      /\ \/ n = m
         \/ /\ m.k.tbl[x] = 0 /\ n.k.tbl[x] \in n.used \ m.used
            /\ n.k = [m.k EXCEPT !.tbl = [m.k.tbl EXCEPT ![x] = n.k.tbl[x]]]
  BY PtNew
<1> SUFFICES TablesGrow(m, n) /\ TablesUsed(n)
  OBVIOUS
<1> HIDE DEF n
<1>2. m.k \in TaskRecord /\ n.k \in TaskRecord
  BY <1>1 DEF MemType
<1>3. CASE n = m
  BY <1>3 DEF TablesGrow, TablesUsed, SameRest
<1>4. CASE /\ m.k.tbl[x] = 0 /\ n.k.tbl[x] \in n.used \ m.used
           /\ n.k = [m.k EXCEPT !.tbl = [m.k.tbl EXCEPT ![x] = n.k.tbl[x]]]
  <2>0. 0 \notin n.used
    BY <1>1 DEF MemType, Frames
  <2>1. \A y \in Tables : y # x => n.k.tbl[y] = m.k.tbl[y]
    BY <1>2, <1>4 DEF TaskRecord
  <2>2. SameRest(m.k, n.k) /\ n.k.pte = m.k.pte
    BY <1>2, <1>4 DEF TaskRecord, SameRest
  <2>3. \A y \in Tables : y # x => n.k.tbl[y] # n.k.tbl[x]
    BY <1>4, <2>0, <2>1 DEF TablesUsed
  <2>4. TablesUsed(n)
    BY <1>1, <1>4, <2>1 DEF TablesUsed
  <2>5. m.k.tbl[x] = 0 /\ n.k.tbl[x] \in n.used \ m.used
    BY <1>4
  <2> QED
    BY <1>1, <2>1, <2>2, <2>3, <2>4, <2>5 DEF TablesGrow
<1> QED
  BY <1>1, <1>3, <1>4

LEMMA TablesGrowTyped ==
  ASSUME NEW m, NEW n, TablesGrow(m, n)
  PROVE  n \in MemType
BY DEF TablesGrow

LEMMA TablesGrowTwice ==
  ASSUME NEW m \in MemType, NEW n, NEW o, TablesGrow(m, n), TablesGrow(n, o)
  PROVE  TablesGrow(m, o)
<1>2. SameRest(m.k, o.k) /\ o.k.pte = m.k.pte
  BY DEF TablesGrow, SameRest
<1>3. \A x \in Tables : \/ o.k.tbl[x] = m.k.tbl[x]
                        \/ m.k.tbl[x] = 0 /\ o.k.tbl[x] \in o.used \ m.used
  BY DEF TablesGrow
<1>4. \A x, y \in Tables : x # y /\ o.k.tbl[x] = o.k.tbl[y]
                             => o.k.tbl[x] = m.k.tbl[x] /\ o.k.tbl[y] = m.k.tbl[y]
  BY DEF TablesGrow
<1> QED
  BY <1>2, <1>3, <1>4 DEF TablesGrow

\* A frame is taken for page p, and then whatever tables it needs; it is
\* mapped if the table of the page is there in the end.
LEMMA MapNewSpec ==
  ASSUME NEW m \in MemType, ~Exhausted(m), NEW p \in Pages, TablesUsed(m)
  PROVE  LET n == MapNew(m, p)
             f == NewFrame(m) IN
         /\ n \in MemType /\ n.slots = m.slots
         /\ f \in Frames /\ f \notin m.used
         /\ m.used \union {f} \subseteq n.used
         /\ SameRest(m.k, n.k)
         /\ n.k.pte = IF n.k.tbl[PtOf(p)] = 0 THEN m.k.pte ELSE [m.k.pte EXCEPT ![p] = f]
         /\ \A x \in Tables : \/ n.k.tbl[x] = m.k.tbl[x]
                              \/ m.k.tbl[x] = 0 /\ n.k.tbl[x] \in n.used \ (m.used \union {f})
         /\ \A x, y \in Tables : x # y /\ n.k.tbl[x] = n.k.tbl[y]
              => n.k.tbl[x] = m.k.tbl[x] /\ n.k.tbl[y] = m.k.tbl[y]
<1> DEFINE f  == NewFrame(m)
           m0 == [m EXCEPT !.used = @ \union {f}]
           m1 == pt_new(m0, "pdpt")
           m2 == pt_new(m1, PdOf(p))
           m3 == pt_new(m2, PtOf(p))
           n  == IF m3.k.tbl[PtOf(p)] = 0 THEN m3 ELSE [m3 EXCEPT !.k.pte[p] = f]
<1>1. f \in Frames /\ f \notin m.used /\ f \in 0..NFrames
  BY NewFrameFree, PagingConstants DEF Frames, PagingConstants
<1>2. MapNew(m, p) = n
  BY DEF MapNew, vmm_map
<1>3. "pdpt" \in Tables /\ PdOf(p) \in Tables /\ PtOf(p) \in Tables
  BY PageKinds DEF Tables
<1> HIDE DEF f
<1>4. m0 \in MemType /\ m0.used = m.used \union {f} /\ m0.slots = m.slots /\ m0.k = m.k
  BY <1>1 DEF MemType
<1>5. TablesUsed(m0)
  BY <1>4 DEF TablesUsed
<1> HIDE DEF m0
<1>6. TablesGrow(m0, m1) /\ TablesUsed(m1) /\ m1 \in MemType
  BY <1>3, <1>4, <1>5, PtNewGrows, TablesGrowTyped
<1> HIDE DEF m1
<1>7. TablesGrow(m1, m2) /\ TablesUsed(m2) /\ m2 \in MemType
  BY <1>3, <1>6, PtNewGrows, TablesGrowTyped
<1> HIDE DEF m2
<1>8. TablesGrow(m2, m3) /\ m3 \in MemType
  BY <1>3, <1>7, PtNewGrows, TablesGrowTyped
<1> HIDE DEF m3
<1>9. TablesGrow(m0, m3)
  BY <1>4, <1>6, <1>7, <1>8, TablesGrowTwice
<1>10. m3.k \in TaskRecord /\ m.k \in TaskRecord
  BY <1>8 DEF MemType
<1>11. /\ n \in MemType /\ n.used = m3.used /\ n.slots = m3.slots
       /\ SameRest(m3.k, n.k)
       /\ n.k.tbl = m3.k.tbl
       /\ n.k.pte = IF m3.k.tbl[PtOf(p)] = 0 THEN m3.k.pte ELSE [m3.k.pte EXCEPT ![p] = f]
  <2>1. CASE m3.k.tbl[PtOf(p)] = 0
    BY <1>8, <2>1 DEF SameRest
  <2>2. CASE m3.k.tbl[PtOf(p)] # 0
    <3> DEFINE l == [m3.k EXCEPT !.pte = [m3.k.pte EXCEPT ![p] = f]]
    <3>1. n = [m3 EXCEPT !.k = l]
      BY <2>2
    <3>2. l \in TaskRecord
      BY <1>1, <1>10 DEF TaskRecord
    <3>3. SameRest(m3.k, l) /\ l.tbl = m3.k.tbl /\ l.pte = [m3.k.pte EXCEPT ![p] = f]
      BY <1>10 DEF TaskRecord, SameRest
    <3> HIDE DEF l, n
    <3>4. n.k = l /\ n \in MemType /\ n.used = m3.used /\ n.slots = m3.slots
      BY <1>8, <3>1, <3>2 DEF MemType
    <3> QED
      BY <2>2, <3>3, <3>4
  <2> QED
    BY <2>1, <2>2
<1> HIDE DEF n
<1>12. SameRest(m.k, n.k) /\ m3.k.pte = m.k.pte
  BY <1>4, <1>9, <1>11 DEF TablesGrow, SameRest
<1> QED
  BY <1>1, <1>2, <1>4, <1>9, <1>11, <1>12 DEF TablesGrow, f

-----------------------------------------------------------------------------
(* Steps of one task's memory *)

FramesOf(m) ==
  /\ \A x \in Owners : Held(m.k, x) # 0 => Held(m.k, x) \in m.used
  /\ \A x, y \in Owners : Held(m.k, x) # 0 /\ Held(m.k, x) = Held(m.k, y) => x = y

SlotsOf(m) ==
  /\ \A p \in Pages : m.k.swap_map[p] # 0 => m.k.swap_map[p] \in m.slots
  /\ \A p, q \in Pages :
       m.k.swap_map[p] # 0 /\ m.k.swap_map[p] = m.k.swap_map[q] => p = q

Good(m, w) == m \in MemType /\ FramesOf(m) /\ SlotsOf(m) /\ KInv(m.k, w)

\* From m to n the task gave up only frames of its own, and a frame it has
\* now was its own before or free.
FrameStep(m, n) ==
  /\ FramesOf(n)
  /\ \A x \in Owners : Held(n.k, x) \in m.used => \E y \in Owners : Held(m.k, y) = Held(n.k, x)
  /\ \A f \in m.used : f \notin n.used => \E y \in Owners : Held(m.k, y) = f

\* The same of the slots, and one that is marked is still somebody's.
SlotStep(m, n) ==
  /\ SlotsOf(n)
  /\ \A p \in Pages : n.k.swap_map[p] \in m.slots
       => \E q \in Pages : m.k.swap_map[q] = n.k.swap_map[p]
  /\ \A s \in m.slots : s \notin n.slots => \E q \in Pages : m.k.swap_map[q] = s
  /\ \A s \in n.slots : \/ \E p \in Pages : n.k.swap_map[p] = s
                        \/ s \in m.slots /\ \A q \in Pages : m.k.swap_map[q] # s

Step(m, n, w) == n \in MemType /\ KInv(n.k, w) /\ FrameStep(m, n) /\ SlotStep(m, n)

LEMMA StepGood ==
  ASSUME NEW m, NEW n, NEW w, Step(m, n, w)
  PROVE  Good(n, w)
BY DEF Step, Good, FrameStep, SlotStep

LEMMA StepTwice ==
  ASSUME NEW m, NEW n, NEW o, NEW w, Step(m, n, w), Step(n, o, w)
  PROVE  Step(m, o, w)
<1>1. FrameStep(m, o)
  BY DEF Step, FrameStep
<1>2. SlotStep(m, o)
  BY DEF Step, SlotStep
<1> QED
  BY <1>1, <1>2 DEF Step

LEMMA NoStep ==
  ASSUME NEW m, NEW w, Good(m, w)
  PROVE  Step(m, m, w)
BY DEF Step, Good, FrameStep, SlotStep

\* Owners that changed hold new frames, each its own.
LEMMA FramesAdded ==
  ASSUME NEW m \in MemType, NEW n \in MemType, FramesOf(m), m.used \subseteq n.used,
         \A x \in Owners : Held(n.k, x) = Held(m.k, x) \/ Held(n.k, x) \in n.used \ m.used,
         \A x, y \in Owners : Held(n.k, x) # Held(m.k, x) /\ Held(n.k, x) = Held(n.k, y) => x = y
  PROVE  FrameStep(m, n)
BY DEF FrameStep, FramesOf

\* Owners that changed hold nothing; what they held may be free now.
LEMMA FramesDropped ==
  ASSUME NEW m \in MemType, NEW n \in MemType, FramesOf(m), n.used \subseteq m.used,
         \A x \in Owners : Held(n.k, x) = 0 \/ (Held(n.k, x) = Held(m.k, x) /\ Held(n.k, x) \in n.used),
         \A f \in m.used \ n.used : \E y \in Owners : Held(m.k, y) = f
  PROVE  FrameStep(m, n)
<1>1. 0 \notin m.used
  BY DEF MemType, Frames
<1> QED
  BY <1>1 DEF FrameStep, FramesOf

LEMMA SlotsKept ==
  ASSUME NEW m, NEW n, SlotsOf(m), n.slots = m.slots, n.k.swap_map = m.k.swap_map
  PROVE  SlotStep(m, n)
BY DEF SlotStep, SlotsOf

LEMMA TablesAreUsed ==
  ASSUME NEW m, FramesOf(m)
  PROVE  TablesUsed(m)
BY HeldBy DEF FramesOf, TablesUsed

\* Page p is given the new frame, or not, and tables are added for it.
LEMMA MapFrames ==
  ASSUME NEW m \in MemType, FramesOf(m), ~Exhausted(m), NEW p \in Pages,
         NEW n \in MemType, n.used = MapNew(m, p).used, n.k.tbl = MapNew(m, p).k.tbl,
         n.k.cr3 = m.k.cr3,
         Held(n.k, p) = Held(m.k, p) \/ Held(n.k, p) = NewFrame(m),
         \A q \in Pages : q # p => Held(n.k, q) = Held(m.k, q)
  PROVE  FrameStep(m, n)
<1> DEFINE f == NewFrame(m)
           o == MapNew(m, p)
<1>1. /\ f \in Frames /\ f \notin m.used
      /\ m.used \union {f} \subseteq o.used
      /\ \A x \in Tables : \/ o.k.tbl[x] = m.k.tbl[x]
                           \/ m.k.tbl[x] = 0 /\ o.k.tbl[x] \in o.used \ (m.used \union {f})
      /\ \A x, y \in Tables : x # y /\ o.k.tbl[x] = o.k.tbl[y]
           => o.k.tbl[x] = m.k.tbl[x] /\ o.k.tbl[y] = m.k.tbl[y]
  <2>1. TablesUsed(m)
    BY TablesAreUsed
  <2> QED
    BY <2>1, MapNewSpec
<1>4. n.used = o.used /\ n.k.tbl = o.k.tbl
  OBVIOUS
<1> HIDE DEF f, o
<1>2. /\ f \in Frames /\ f \notin m.used
      /\ m.used \union {f} \subseteq n.used
      /\ \A x \in Tables : \/ n.k.tbl[x] = m.k.tbl[x]
                           \/ m.k.tbl[x] = 0 /\ n.k.tbl[x] \in n.used \ (m.used \union {f})
      /\ \A x, y \in Tables : x # y /\ n.k.tbl[x] = n.k.tbl[y]
           => n.k.tbl[x] = m.k.tbl[x] /\ n.k.tbl[y] = m.k.tbl[y]
  BY <1>1, <1>4
<1>3. \A x \in Owners : \/ x = <<"cr3", 0>> \/ (\E i \in Tables : x = <<"table", i>>)
                        \/ x \in Pages
  BY OwnerKinds, PageKinds
<1>5. Held(n.k, <<"cr3", 0>>) = Held(m.k, <<"cr3", 0>>)
  BY HeldBy
<1>6. \A x \in Tables :
        \/ Held(n.k, <<"table", x>>) = Held(m.k, <<"table", x>>)
        \/ Held(n.k, <<"table", x>>) \in n.used \ (m.used \union {f})
  <2> TAKE x \in Tables
  <2>1. Held(n.k, <<"table", x>>) = n.k.tbl[x] /\ Held(m.k, <<"table", x>>) = m.k.tbl[x]
    BY HeldBy
  <2> QED
    BY <1>2, <2>1
<1>7. \A q \in Pages : Held(n.k, q) = Held(m.k, q) \/ (q = p /\ Held(n.k, q) = f)
  BY DEF f
<1>9. \A x \in Owners : Held(n.k, x) = Held(m.k, x) \/ Held(n.k, x) \in n.used \ m.used
  BY <1>2, <1>3, <1>5, <1>6, <1>7
<1>10. ASSUME NEW x \in Owners, NEW y \in Owners,
              Held(n.k, x) # Held(m.k, x), Held(n.k, x) = Held(n.k, y)
       PROVE  x = y
  <2>1. Held(n.k, x) \in n.used \ m.used /\ Held(n.k, x) # 0
    BY <1>9, <1>10 DEF MemType, Frames
  <2>2. Held(n.k, y) # Held(m.k, y)
    BY <1>10, <2>1 DEF FramesOf
  <2>3. x = p \/ (\E i \in Tables : x = <<"table", i>> /\ Held(n.k, x) # f)
    BY <1>3, <1>5, <1>6, <1>7, <1>10
  <2>4. y = p \/ (\E i \in Tables : y = <<"table", i>> /\ Held(n.k, y) # f)
    BY <1>3, <1>5, <1>6, <1>7, <2>2
  <2>5. x = p => Held(n.k, x) = f
    BY <1>7, <1>10
  <2>6. y = p => Held(n.k, y) = f
    BY <1>7, <2>2
  <2>7. CASE x = p \/ y = p
    BY <1>10, <2>3, <2>4, <2>5, <2>6, <2>7
  <2>8. CASE x # p /\ y # p
    <3>1. PICK i \in Tables, j \in Tables : x = <<"table", i>> /\ y = <<"table", j>>
      BY <2>3, <2>4, <2>8
    <3>2. n.k.tbl[i] = n.k.tbl[j] /\ n.k.tbl[i] # m.k.tbl[i]
      BY <1>10, <3>1, HeldBy
    <3> QED
      BY <1>2, <3>1, <3>2
  <2> QED
    BY <2>7, <2>8
<1> QED
  BY <1>2, <1>9, <1>10, FramesAdded

\* A data page is mapped to a new frame.
LEMMA MapDataFrames ==
  ASSUME NEW m \in MemType, FramesOf(m), ~Exhausted(m), NEW p \in DataPages
  PROVE  FrameStep(m, MapNew(m, p))
<1> DEFINE n == MapNew(m, p)
           f == NewFrame(m)
<1>1. p \in Pages
  BY PageKinds
<1>2. /\ n \in MemType /\ SameRest(m.k, n.k)
      /\ n.k.pte = IF n.k.tbl[PtOf(p)] = 0 THEN m.k.pte ELSE [m.k.pte EXCEPT ![p] = f]
  BY <1>1, TablesAreUsed, MapNewSpec
<1>3. n.used = MapNew(m, p).used /\ n.k.tbl = MapNew(m, p).k.tbl
  OBVIOUS
<1> SUFFICES FrameStep(m, n)
  OBVIOUS
<1> HIDE DEF n, f
<1>4. m.k \in TaskRecord /\ n.k \in TaskRecord
  BY <1>2 DEF MemType
<1>5. \A q \in Pages : n.k.pte[q] = m.k.pte[q] \/ (q = p /\ n.k.pte[q] = f)
  BY <1>2, <1>4 DEF TaskRecord
<1>6. \A q \in DataPages : Held(n.k, q) = Held(m.k, q) \/ (q = p /\ Held(n.k, q) = f)
  BY <1>5, HeldBy, PageKinds
<1>7. \A g \in 0..(WinMax - 1) : Held(n.k, ModelPage(g)) = Held(m.k, ModelPage(g))
  <2> TAKE g \in 0..(WinMax - 1)
  <2>1. n.k.pte[ModelPage(g)] = m.k.pte[ModelPage(g)]
    BY <1>5, OwnerKinds, PageKinds
  <2>2. n.k.resident = m.k.resident /\ n.k.model_frames = m.k.model_frames
    BY <1>2 DEF SameRest
  <2> QED
    BY <2>1, <2>2, HeldBy
<1>8. \A q \in Pages : q # p => Held(n.k, q) = Held(m.k, q)
  BY <1>6, <1>7, PageKinds
<1>9. n.k.cr3 = m.k.cr3
  BY <1>2 DEF SameRest
<1>10. Held(n.k, p) = Held(m.k, p) \/ Held(n.k, p) = NewFrame(m)
  BY <1>6 DEF f
<1> QED
  BY <1>1, <1>2, <1>3, <1>8, <1>9, <1>10, MapFrames

-----------------------------------------------------------------------------
(* swap.c *)

LEMMA NewSlotFree ==
  ASSUME NEW m \in MemType, ~(SlotNums \subseteq m.slots)
  PROVE  NewSlot(m) \in SlotNums /\ NewSlot(m) \notin m.slots /\ NewSlot(m) # 0
<1>1. SlotNums \ m.slots \in SUBSET Nat /\ SlotNums \ m.slots # {} /\ 0 \notin SlotNums
  BY PagingConstants DEF SlotNums, PagingConstants
<1>2. \E s \in SlotNums \ m.slots : \A r \in SlotNums \ m.slots : s <= r
  BY <1>1, LeastExists
<1> QED
  BY <1>1, <1>2 DEF NewSlot

\* The frame of the page is freed and a new slot names the page.
LEMMA SwapOutStep ==
  ASSUME NEW m, NEW w, Good(m, w), NEW p \in DataPages, CanSwapOut(m, p)
  PROVE  Step(m, swap_out(m, p), w)
<1> DEFINE s == NewSlot(m)
           n == swap_out(m, p)
           l == [m.k EXCEPT !.pte = [m.k.pte EXCEPT ![p] = 0],
                            !.swap_map = [m.k.swap_map EXCEPT ![p] = s]]
<1>1. /\ m \in MemType /\ FramesOf(m) /\ SlotsOf(m) /\ KInv(m.k, w) /\ m.k \in TaskRecord
      /\ p \in Pages
  BY PageKinds DEF Good, MemType
<1>2. s \in SlotNums /\ s \notin m.slots /\ s # 0 /\ s \in 0..NSlots /\ 0 \in 0..NFrames
  BY <1>1, NewSlotFree, PagingConstants DEF CanSwapOut, SlotNums, PagingConstants
<1>3. /\ m.k.life = "live" /\ m.k.swap_map[p] = 0 /\ m.k.pte[p] # 0
  BY DEF CanSwapOut
<1>4. n = [m EXCEPT !.slots = @ \union {s}, !.used = @ \ {m.k.pte[p]}, !.k = l]
  BY <1>1 DEF swap_out, MemType
<1> SUFFICES Step(m, n, w)
  OBVIOUS
<1> HIDE DEF s, n
<1>5. l \in TaskRecord
  BY <1>1, <1>2 DEF TaskRecord
<1>6. /\ l.life = m.k.life /\ l.cr3 = m.k.cr3 /\ l.tbl = m.k.tbl
      /\ l.heap_pages = m.k.heap_pages /\ l.frames_n = m.k.frames_n
      /\ l.model_frames = m.k.model_frames /\ l.resident = m.k.resident
      /\ l.weights = m.k.weights /\ l.budget = m.k.budget
      /\ l.pte = [m.k.pte EXCEPT ![p] = 0]
      /\ l.swap_map = [m.k.swap_map EXCEPT ![p] = s]
  BY <1>1 DEF TaskRecord
<1> HIDE DEF l
<1>7. /\ n \in MemType /\ n.k = l
      /\ n.slots = m.slots \union {s} /\ n.used = m.used \ {m.k.pte[p]}
  BY <1>1, <1>2, <1>4, <1>5 DEF MemType
<1>8. \A q \in Pages : /\ l.pte[q] = IF q = p THEN 0 ELSE m.k.pte[q]
                       /\ l.swap_map[q] = IF q = p THEN s ELSE m.k.swap_map[q]
  BY <1>1, <1>6 DEF TaskRecord
<1>9. FrameStep(m, n)
  <2>1. Held(m.k, p) = m.k.pte[p] /\ p \in Owners
    BY HeldBy
  <2>2. \A x \in Owners \ {p} : Held(n.k, x) = Held(m.k, x)
    <3> DEFINE P == {p}
    <3>1. \A q \in Pages \ P : l.pte[q] = m.k.pte[q]
      BY <1>8
    <3>2. \A g \in 0..(WinMax - 1) : ModelPage(g) \notin P =>
            (g \in l.resident <=> g \in m.k.resident) /\ l.model_frames[g] = m.k.model_frames[g]
      BY <1>6
    <3>3. l.cr3 = m.k.cr3 /\ l.tbl = m.k.tbl
      BY <1>6
    <3> HIDE DEF P
    <3>4. \A x \in Owners \ P : Held(l, x) = Held(m.k, x)
      BY <3>1, <3>2, <3>3, HeldSame
    <3> QED
      BY <1>7, <3>4 DEF P
  <2>4. Held(n.k, p) = 0
    BY <1>1, <1>7, <1>8, HeldBy
  <2>3. \A x \in Owners : Held(n.k, x) = 0 \/ (Held(n.k, x) = Held(m.k, x) /\ Held(n.k, x) \in n.used)
    BY <1>1, <1>3, <1>7, <2>1, <2>2, <2>4 DEF FramesOf
  <2> QED
    BY <1>1, <1>7, <2>1, <2>3, FramesDropped
<1>10. SlotStep(m, n)
  <2>1. \A q \in Pages : n.k.swap_map[q] = IF q = p THEN s ELSE m.k.swap_map[q]
    BY <1>7, <1>8
  <2>2. SlotsOf(n)
    BY <1>1, <1>2, <1>7, <2>1 DEF SlotsOf
  <2>3. \A q \in Pages : n.k.swap_map[q] \in m.slots
          => \E r \in Pages : m.k.swap_map[r] = n.k.swap_map[q]
    BY <1>2, <2>1
  <2>4. \A r \in m.slots : r \in n.slots
    BY <1>7
  <2>5. ASSUME NEW r \in n.slots
        PROVE  \/ \E q \in Pages : n.k.swap_map[q] = r
               \/ r \in m.slots /\ \A q \in Pages : m.k.swap_map[q] # r
    <3>1. CASE r = s
      BY <1>1, <2>1, <3>1
    <3>2. CASE \E q \in Pages : m.k.swap_map[q] = r
      <4>1. PICK q \in Pages : m.k.swap_map[q] = r
        BY <3>2
      <4>2. r # 0
        BY <1>7 DEF MemType, SlotNums
      <4> QED
        BY <1>3, <2>1, <4>1, <4>2
    <3> QED
      BY <1>7, <3>1, <3>2
  <2> QED
    BY <2>2, <2>3, <2>4, <2>5 DEF SlotStep
<1>11. KInv(l, w)
  <2>1. KBacked(l)
    BY <1>1, <1>8 DEF KInv, KBacked
  <2>2. KTables(l)
    BY <1>1, <1>3, <1>6, <1>8 DEF KInv, KTables
  <2>3. KHeap(l)
    <3>1. ASSUME NEW i \in m.k.heap_pages..(HeapMax - 1)
          PROVE  <<"heap", i>> \in Pages /\ <<"heap", i>> # p
      <4>1. m.k.heap_pages \in 0..HeapMax
        BY <1>1 DEF TaskRecord
      <4>2. i \in 0..(HeapMax - 1)
        BY <4>1, PagingConstants DEF PagingConstants
      <4> QED
        BY <1>1, <1>3, <4>2, HeapPage DEF KInv, KHeap
    <3> QED
      BY <1>1, <1>6, <1>8, <3>1 DEF KInv, KHeap
  <2>4. KDead(l)
    BY <1>3, <1>6 DEF KDead
  <2>5. KModel(l, w)
    <3>1. \A g \in 0..(WinMax - 1) : /\ l.pte[ModelPage(g)] = m.k.pte[ModelPage(g)]
                                     /\ l.swap_map[ModelPage(g)] = m.k.swap_map[ModelPage(g)]
      BY <1>8, PageKinds, OwnerKinds
    <3> QED
      BY <1>1, <1>6, <3>1 DEF KInv, KModel
  <2> QED
    BY <2>1, <2>2, <2>3, <2>4, <2>5 DEF KInv
<1> QED
  BY <1>7, <1>9, <1>10, <1>11 DEF Step

\* Facts about MapNew in the form that the steps below use.
LEMMA MapNewFacts ==
  ASSUME NEW m, NEW w, Good(m, w), ~Exhausted(m), NEW p \in Pages
  PROVE  LET n == MapNew(m, p) IN
         /\ n \in MemType /\ n.slots = m.slots /\ SameRest(m.k, n.k)
         /\ m.used \subseteq n.used
         /\ NewFrame(m) \in Frames /\ NewFrame(m) \in n.used \ m.used
         /\ \A q \in Pages : q # p => n.k.pte[q] = m.k.pte[q]
         /\ n.k.pte[p] = IF n.k.tbl[PtOf(p)] = 0 THEN m.k.pte[p] ELSE NewFrame(m)
         /\ \A x \in Tables : m.k.tbl[x] # 0 => n.k.tbl[x] = m.k.tbl[x]
<1>1. m \in MemType /\ FramesOf(m) /\ m.k \in TaskRecord /\ TablesUsed(m)
  BY TablesAreUsed DEF Good, MemType
<1> DEFINE n == MapNew(m, p)
           f == NewFrame(m)
<1>2. /\ n \in MemType /\ n.slots = m.slots
      /\ f \in Frames /\ f \notin m.used
      /\ m.used \union {f} \subseteq n.used
      /\ SameRest(m.k, n.k)
      /\ n.k.pte = IF n.k.tbl[PtOf(p)] = 0 THEN m.k.pte ELSE [m.k.pte EXCEPT ![p] = f]
      /\ \A x \in Tables : \/ n.k.tbl[x] = m.k.tbl[x]
                           \/ m.k.tbl[x] = 0 /\ n.k.tbl[x] \in n.used \ (m.used \union {f})
  BY <1>1, MapNewSpec
<1> HIDE DEF n, f
<1>3. /\ \A q \in Pages : q # p => n.k.pte[q] = m.k.pte[q]
      /\ n.k.pte[p] = IF n.k.tbl[PtOf(p)] = 0 THEN m.k.pte[p] ELSE f
  BY <1>1, <1>2 DEF TaskRecord
<1>4. \A x \in Tables : m.k.tbl[x] # 0 => n.k.tbl[x] = m.k.tbl[x]
  BY <1>2
<1> QED
  BY <1>2, <1>3, <1>4 DEF n, f

\* A data page with no slot is mapped: everything stays in order, if it is
\* not a heap page that the task does not have yet.
LEMMA MapDataStep ==
  ASSUME NEW m, NEW w, Good(m, w), ~Exhausted(m), NEW p \in DataPages,
         m.k.swap_map[p] = 0,
         \A i \in m.k.heap_pages..(HeapMax - 1) : p # <<"heap", i>>
  PROVE  Step(m, MapNew(m, p), w)
<1> DEFINE n == MapNew(m, p)
<1>1. p \in Pages /\ m \in MemType /\ FramesOf(m) /\ SlotsOf(m) /\ KInv(m.k, w)
      /\ m.k \in TaskRecord
  BY PageKinds DEF Good, MemType
<1>2. /\ n \in MemType /\ n.slots = m.slots /\ SameRest(m.k, n.k)
      /\ NewFrame(m) \in Frames
      /\ \A q \in Pages : q # p => n.k.pte[q] = m.k.pte[q]
      /\ n.k.pte[p] = IF n.k.tbl[PtOf(p)] = 0 THEN m.k.pte[p] ELSE NewFrame(m)
      /\ \A x \in Tables : m.k.tbl[x] # 0 => n.k.tbl[x] = m.k.tbl[x]
  BY <1>1, MapNewFacts
<1>3. FrameStep(m, n)
  BY <1>1, MapDataFrames
<1> SUFFICES Step(m, n, w)
  OBVIOUS
<1> HIDE DEF n
<1>4. SlotStep(m, n)
  BY <1>1, <1>2, SlotsKept DEF SameRest
<1>5. KBacked(n.k)
  BY <1>1, <1>2 DEF KInv, KBacked, SameRest
<1>6. KTables(n.k)
  BY <1>1, <1>2, PageKinds DEF KInv, KTables, SameRest
<1>7. KHeap(n.k)
  <2>1. ASSUME NEW i \in m.k.heap_pages..(HeapMax - 1)
        PROVE  <<"heap", i>> \in Pages /\ <<"heap", i>> # p
    <3>0. m.k.heap_pages \in 0..HeapMax
      BY <1>1 DEF TaskRecord
    <3>1. i \in 0..(HeapMax - 1)
      BY <3>0, HeapIndex
    <3> QED
      BY <3>1, HeapPage
  <2> QED
    BY <1>1, <1>2, <2>1 DEF KInv, KHeap, SameRest
<1>8. KDead(n.k)
  BY <1>1, <1>2 DEF KInv, KDead, SameRest
<1>9. KModel(n.k, w)
  <2>1. \A g \in 0..(WinMax - 1) : n.k.pte[ModelPage(g)] = m.k.pte[ModelPage(g)]
    BY <1>2, PageKinds, OwnerKinds
  <2>2. /\ n.k.resident = m.k.resident /\ n.k.frames_n = m.k.frames_n
        /\ n.k.weights = m.k.weights /\ n.k.swap_map = m.k.swap_map
        /\ n.k.model_frames = m.k.model_frames
    BY <1>2 DEF SameRest
  <2> QED
    BY <1>1, <2>1, <2>2 DEF KInv, KModel
<1> QED
  BY <1>2, <1>3, <1>4, <1>5, <1>6, <1>7, <1>8, <1>9 DEF Step, KInv

\* The slot is given back, and the page is mapped: its table is there since
\* the page was first mapped.
LEMMA SwapInStep ==
  ASSUME NEW m, NEW w, Good(m, w), NEW p \in Pages, CanSwapIn(m, p)
  PROVE  /\ Step(m, swap_in(m, p), w)
         /\ swap_in(m, p).k.pte[p] # 0
         /\ p \in DataPages
<1> DEFINE r == m.k.swap_map[p]
           o == MapNew(m, p)
           n == swap_in(m, p)
           l == [o.k EXCEPT !.swap_map = [o.k.swap_map EXCEPT ![p] = 0]]
<1>1. /\ m \in MemType /\ FramesOf(m) /\ SlotsOf(m) /\ KInv(m.k, w) /\ m.k \in TaskRecord
  BY DEF Good, MemType
<1>2. ~Exhausted(m) /\ r # 0 /\ m.k.life = "live" /\ r \in m.slots
  BY <1>1 DEF CanSwapIn, SlotsOf
<1>3. p \in DataPages
  <2>1. \A g \in 0..(WinMax - 1) : p # ModelPage(g)
    BY <1>1, <1>2 DEF KInv, KModel
  <2> QED
    BY <2>1, PageKinds
<1>4. /\ o \in MemType /\ o.slots = m.slots /\ SameRest(m.k, o.k)
      /\ NewFrame(m) \in Frames
      /\ \A q \in Pages : q # p => o.k.pte[q] = m.k.pte[q]
      /\ o.k.pte[p] = IF o.k.tbl[PtOf(p)] = 0 THEN m.k.pte[p] ELSE NewFrame(m)
      /\ \A x \in Tables : m.k.tbl[x] # 0 => o.k.tbl[x] = m.k.tbl[x]
  BY <1>2, MapNewFacts
<1>5. FrameStep(m, o)
  BY <1>1, <1>2, <1>3, MapDataFrames
<1>6. n = [o EXCEPT !.slots = @ \ {r}, !.k = l]
  BY <1>4 DEF swap_in, MemType
<1> SUFFICES Step(m, n, w) /\ n.k.pte[p] # 0
  BY <1>3
<1> HIDE DEF o, n
<1>7. o.k \in TaskRecord /\ l \in TaskRecord
  <2>1. o.k \in TaskRecord /\ 0 \in 0..NSlots
    BY <1>4, PagingConstants DEF MemType, PagingConstants
  <2> QED
    BY <2>1 DEF TaskRecord
<1>8. /\ l.life = m.k.life /\ l.cr3 = o.k.cr3 /\ l.tbl = o.k.tbl /\ l.pte = o.k.pte
      /\ l.heap_pages = m.k.heap_pages /\ l.frames_n = m.k.frames_n
      /\ l.model_frames = m.k.model_frames /\ l.resident = m.k.resident
      /\ l.weights = m.k.weights
      /\ o.k.resident = m.k.resident /\ o.k.model_frames = m.k.model_frames
      /\ \A q \in Pages : l.swap_map[q] = IF q = p THEN 0 ELSE m.k.swap_map[q]
  BY <1>1, <1>4, <1>7 DEF SameRest, TaskRecord
<1> HIDE DEF l
<1>9. n \in MemType /\ n.k = l /\ n.slots = m.slots \ {r} /\ n.used = o.used
  BY <1>4, <1>6, <1>7 DEF MemType
<1>10. FrameStep(m, n)
  <2>1. \A x \in Owners : Held(l, x) = Held(o.k, x)
    <3> DEFINE P == {}
    <3>1. \A q \in Pages \ P : l.pte[q] = o.k.pte[q]
      BY <1>8
    <3>2. \A g \in 0..(WinMax - 1) : ModelPage(g) \notin P =>
            (g \in l.resident <=> g \in o.k.resident) /\ l.model_frames[g] = o.k.model_frames[g]
      BY <1>8
    <3>3. l.cr3 = o.k.cr3 /\ l.tbl = o.k.tbl
      BY <1>8
    <3> HIDE DEF P
    <3>4. \A x \in Owners \ P : Held(l, x) = Held(o.k, x)
      BY <3>1, <3>2, <3>3, HeldSame
    <3> QED
      BY <3>4 DEF P
  <2> QED
    BY <1>5, <1>9, <2>1 DEF FrameStep, FramesOf
<1>11. SlotStep(m, n)
  <2>1. \A q \in Pages : n.k.swap_map[q] = IF q = p THEN 0 ELSE m.k.swap_map[q]
    BY <1>8, <1>9
  <2>2. 0 \notin m.slots
    BY <1>1 DEF MemType, SlotNums
  <2>3. SlotsOf(n)
    BY <1>1, <1>2, <1>9, <2>1 DEF SlotsOf
  <2>4. \A q \in Pages : n.k.swap_map[q] \in m.slots
          => \E s \in Pages : m.k.swap_map[s] = n.k.swap_map[q]
    BY <2>1, <2>2
  <2>5. \A s \in m.slots : s \notin n.slots => \E q \in Pages : m.k.swap_map[q] = s
    BY <1>9
  <2>6. \A s \in n.slots : \/ \E q \in Pages : n.k.swap_map[q] = s
                           \/ s \in m.slots /\ \A q \in Pages : m.k.swap_map[q] # s
    BY <1>9, <2>1
  <2> QED
    BY <2>3, <2>4, <2>5, <2>6 DEF SlotStep
<1>12. m.k.tbl[PtOf(p)] # 0 /\ l.tbl[PtOf(p)] # 0 /\ l.pte[p] = NewFrame(m) /\ l.pte[p] # 0
  BY <1>1, <1>2, <1>4, <1>8, PageKinds DEF KInv, KTables, Frames
<1>13. KInv(l, w)
  <2>1. KBacked(l)
    BY <1>1, <1>4, <1>8 DEF KInv, KBacked
  <2>2. KTables(l)
    BY <1>1, <1>4, <1>8, <1>12, PageKinds DEF KInv, KTables
  <2>3. KHeap(l)
    <3>1. ASSUME NEW i \in m.k.heap_pages..(HeapMax - 1)
          PROVE  <<"heap", i>> \in Pages /\ <<"heap", i>> # p
      <4>0. m.k.heap_pages \in 0..HeapMax
        BY <1>1 DEF TaskRecord
      <4>1. i \in 0..(HeapMax - 1)
        BY <4>0, HeapIndex
      <4> QED
        BY <1>1, <1>2, <4>1, HeapPage DEF KInv, KHeap
    <3> QED
      BY <1>1, <1>4, <1>8, <3>1 DEF KInv, KHeap
  <2>4. KDead(l)
    BY <1>2, <1>8 DEF KDead
  <2>5. KModel(l, w)
    <3>1. \A g \in 0..(WinMax - 1) : /\ l.pte[ModelPage(g)] = m.k.pte[ModelPage(g)]
                                     /\ l.swap_map[ModelPage(g)] = m.k.swap_map[ModelPage(g)]
      BY <1>3, <1>4, <1>8, PageKinds, OwnerKinds
    <3> QED
      BY <1>1, <1>8, <3>1 DEF KInv, KModel
  <2> QED
    BY <2>1, <2>2, <2>3, <2>4, <2>5 DEF KInv
<1> QED
  BY <1>9, <1>10, <1>11, <1>12, <1>13 DEF Step

-----------------------------------------------------------------------------
(* model.c *)

\* Arrays are replaced only while nothing is resident.
LEMMA EnsureStep ==
  ASSUME NEW m, Good(m, win_pages), win_pages \in 1..WinMax
  PROVE  LET n == model_ensure_task(m) IN
         /\ Step(m, n, win_pages)
         /\ n.k.frames_n >= win_pages /\ n.k.life = m.k.life /\ n.used = m.used
         /\ n.k.pte = m.k.pte /\ n.k.swap_map = m.k.swap_map
         /\ n.k.weights = m.k.weights /\ n.k.budget = m.k.budget
<1> DEFINE n == model_ensure_task(m)
           l == [m.k EXCEPT !.frames_n = win_pages, !.resident = {},
                            !.model_frames = [g \in DOMAIN @ |-> 0]]
<1>1. /\ m \in MemType /\ FramesOf(m) /\ SlotsOf(m) /\ KInv(m.k, win_pages)
      /\ m.k \in TaskRecord /\ m.k.frames_n \in Nat /\ win_pages \in Nat
  <2>1. /\ m \in MemType /\ FramesOf(m) /\ SlotsOf(m) /\ KInv(m.k, win_pages)
    BY DEF Good
  <2>2. m.k \in TaskRecord
    BY <2>1 DEF MemType
  <2>3. m.k.frames_n \in 0..WinMax
    BY <2>2 DEF TaskRecord
  <2> QED
    BY <2>1, <2>2, <2>3, PagingConstants DEF PagingConstants
<1>2. CASE m.k.frames_n >= win_pages
  BY <1>2, NoStep DEF model_ensure_task
<1>3. CASE ~(m.k.frames_n >= win_pages)
  <2>1. m.k.resident = {}
    BY <1>1, <1>3 DEF KInv, KModel
  <2>2. n = [m EXCEPT !.k = l]
    BY <1>1, <1>3 DEF model_ensure_task, MemType
  <2> SUFFICES /\ Step(m, n, win_pages)
               /\ n.k.frames_n >= win_pages /\ n.k.life = m.k.life /\ n.used = m.used
               /\ n.k.pte = m.k.pte /\ n.k.swap_map = m.k.swap_map
               /\ n.k.weights = m.k.weights /\ n.k.budget = m.k.budget
    OBVIOUS
  <2> HIDE DEF n
  <2>3. l \in TaskRecord
    <3>1. win_pages \in 0..WinMax /\ 0 \in 0..NFrames
      BY PagingConstants DEF PagingConstants
    <3>2. DOMAIN m.k.model_frames = 0..(WinMax - 1)
      BY <1>1 DEF TaskRecord
    <3> QED
      BY <1>1, <3>1, <3>2 DEF TaskRecord
  <2>4. /\ l.life = m.k.life /\ l.cr3 = m.k.cr3 /\ l.tbl = m.k.tbl /\ l.pte = m.k.pte
        /\ l.swap_map = m.k.swap_map /\ l.heap_pages = m.k.heap_pages
        /\ l.frames_n = win_pages /\ l.resident = {}
        /\ l.weights = m.k.weights /\ l.budget = m.k.budget
    BY <1>1 DEF TaskRecord
  <2> HIDE DEF l
  <2>5. n \in MemType /\ n.k = l /\ n.slots = m.slots /\ n.used = m.used
    BY <1>1, <2>2, <2>3 DEF MemType
  <2>6. \A x \in Owners : Held(l, x) = Held(m.k, x)
    <3> TAKE x \in Owners
    <3>1. CASE x = <<"cr3", 0>>
      BY <2>4, <3>1, HeldBy
    <3>2. CASE \E i \in Tables : x = <<"table", i>>
      <4>1. PICK i \in Tables : x = <<"table", i>>
        BY <3>2
      <4> QED
        BY <2>4, <4>1, HeldBy
    <3>3. CASE x \in DataPages
      BY <2>4, <3>3, HeldBy
    <3>4. CASE \E g \in 0..(WinMax - 1) : x = ModelPage(g)
      BY <2>1, <2>4, <3>4, HeldBy
    <3> QED
      BY <3>1, <3>2, <3>3, <3>4, OwnerKinds
  <2>7. FrameStep(m, n)
    BY <1>1, <2>5, <2>6 DEF FrameStep, FramesOf
  <2>8. SlotStep(m, n)
    BY <1>1, <2>4, <2>5, SlotsKept
  <2>9. KBacked(l) /\ KTables(l) /\ KHeap(l) /\ KDead(l)
    BY <1>1, <2>1, <2>4 DEF KInv, KBacked, KTables, KHeap, KDead
  <2>10. KModel(l, win_pages)
    BY <1>1, <2>1, <2>4 DEF KInv, KModel
  <2> QED
    BY <1>1, <2>4, <2>5, <2>7, <2>8, <2>9, <2>10 DEF Step, KInv
<1> QED
  BY <1>2, <1>3

\* A page of the window is loaded into a new frame; it is recorded even when
\* the page table could not be allocated.
LEMMA FaultInStep ==
  ASSUME NEW m, NEW w \in 1..WinMax, Good(m, w), ~Exhausted(m), NEW g \in 0..(w - 1),
         g \notin m.k.resident, m.k.frames_n >= w, m.k.life = "live"
  PROVE  LET n == model_fault_in_page(m, g) IN
         /\ Step(m, n, w)
         /\ n.k.life = m.k.life /\ n.k.frames_n = m.k.frames_n
         /\ n.k.swap_map = m.k.swap_map
         /\ \A q \in DataPages : n.k.pte[q] = m.k.pte[q]
<1> DEFINE p == ModelPage(g)
           f == NewFrame(m)
           o == MapNew(m, p)
           n == model_fault_in_page(m, g)
           l == [o.k EXCEPT !.model_frames = [o.k.model_frames EXCEPT ![g] = f],
                            !.resident = o.k.resident \union {g},
                            !.weights = Charged(o.k.weights, 1)]
<1>1. /\ m \in MemType /\ FramesOf(m) /\ SlotsOf(m) /\ KInv(m.k, w) /\ m.k \in TaskRecord
  BY DEF Good, MemType
<1>2. /\ g \in 0..(WinMax - 1) /\ p \in Pages /\ p \notin DataPages
      /\ \A h \in 0..(WinMax - 1) : h # g => ModelPage(h) # p
  <2>1. g \in 0..(WinMax - 1)
    BY PagingConstants DEF PagingConstants
  <2> QED
    BY <2>1, PageKinds, OwnerKinds
<1>3. /\ o \in MemType /\ o.slots = m.slots /\ SameRest(m.k, o.k)
      /\ m.used \subseteq o.used
      /\ f \in Frames /\ f \in o.used \ m.used
      /\ \A q \in Pages : q # p => o.k.pte[q] = m.k.pte[q]
      /\ o.k.pte[p] = IF o.k.tbl[PtOf(p)] = 0 THEN m.k.pte[p] ELSE f
      /\ \A x \in Tables : m.k.tbl[x] # 0 => o.k.tbl[x] = m.k.tbl[x]
  BY <1>2, MapNewFacts
<1>4. n = [o EXCEPT !.k = l]
  BY <1>3 DEF model_fault_in_page, MemType
<1>5. o.used = MapNew(m, p).used /\ o.k.tbl = MapNew(m, p).k.tbl /\ f = NewFrame(m)
  OBVIOUS
<1> SUFFICES /\ Step(m, n, w)
             /\ n.k.life = m.k.life /\ n.k.frames_n = m.k.frames_n
             /\ n.k.swap_map = m.k.swap_map
             /\ \A q \in DataPages : n.k.pte[q] = m.k.pte[q]
  OBVIOUS
<1> HIDE DEF o, n, f, p
<1>6. o.k \in TaskRecord /\ l \in TaskRecord
  <2>1. o.k \in TaskRecord /\ f \in 0..NFrames
    BY <1>3, PagingConstants DEF MemType, PagingConstants, Frames
  <2>2. /\ o.k.model_frames \in [0..(WinMax - 1) -> 0..NFrames]
        /\ o.k.resident \in SUBSET (0..(WinMax - 1)) /\ o.k.weights \in 0..(U32 - 1)
    BY <2>1 DEF TaskRecord
  <2>3. g \in 0..(WinMax - 1)
    BY <1>2
  <2>4. [o.k.model_frames EXCEPT ![g] = f] \in [0..(WinMax - 1) -> 0..NFrames]
    BY <2>1, <2>2
  <2>5. /\ o.k.resident \union {g} \in SUBSET (0..(WinMax - 1))
        /\ Charged(o.k.weights, 1) \in 0..(U32 - 1)
    BY <2>2, <2>3, ChargeType
  <2> QED
    BY <2>1, <2>4, <2>5 DEF TaskRecord
<1>7. /\ l.life = m.k.life /\ l.cr3 = m.k.cr3 /\ l.tbl = o.k.tbl /\ l.pte = o.k.pte
      /\ l.heap_pages = m.k.heap_pages /\ l.frames_n = m.k.frames_n
      /\ l.swap_map = m.k.swap_map /\ l.resident = m.k.resident \union {g}
      /\ \A h \in 0..(WinMax - 1) :
           l.model_frames[h] = IF h = g THEN f ELSE m.k.model_frames[h]
  BY <1>2, <1>3, <1>6 DEF SameRest, TaskRecord
<1> HIDE DEF l
<1>8. n \in MemType /\ n.k = l /\ n.slots = m.slots /\ n.used = o.used
  BY <1>3, <1>4, <1>6 DEF MemType
<1>9. \A q \in DataPages : n.k.pte[q] = m.k.pte[q]
  BY <1>2, <1>3, <1>7, <1>8, PageKinds
<1>10. FrameStep(m, n)
  <2>1. Held(n.k, p) = f
    BY <1>2, <1>7, <1>8, HeldBy DEF p
  <2>2. \A q \in DataPages : Held(n.k, q) = Held(m.k, q)
    BY <1>9, HeldBy
  <2>3. \A h \in 0..(WinMax - 1) : h # g => Held(n.k, ModelPage(h)) = Held(m.k, ModelPage(h))
    <3> TAKE h \in 0..(WinMax - 1)
    <3> HAVE h # g
    <3>1. /\ l.pte[ModelPage(h)] = m.k.pte[ModelPage(h)]
          /\ l.model_frames[h] = m.k.model_frames[h]
          /\ h \in l.resident <=> h \in m.k.resident
      BY <1>2, <1>3, <1>7, PageKinds
    <3> QED
      BY <1>8, <3>1, HeldBy
  <2>4. \A q \in Pages : q # p => Held(n.k, q) = Held(m.k, q)
    BY <2>2, <2>3, PageKinds DEF p
  <2>5. /\ n.used = MapNew(m, p).used /\ n.k.tbl = MapNew(m, p).k.tbl
        /\ n.k.cr3 = m.k.cr3 /\ (Held(n.k, p) = Held(m.k, p) \/ Held(n.k, p) = NewFrame(m))
    BY <1>5, <1>7, <1>8, <2>1
  <2> QED
    BY <1>1, <1>2, <1>8, <2>4, <2>5, MapFrames
<1>11. SlotStep(m, n)
  BY <1>1, <1>7, <1>8, SlotsKept
<1>12. m.k.swap_map[p] = 0
  BY <1>1, <1>2 DEF p, KInv, KModel
<1>13. KBacked(l)
  BY <1>1, <1>3, <1>7, <1>12 DEF KInv, KBacked
<1>14. KTables(l)
  BY <1>1, <1>3, <1>7, <1>12, PageKinds DEF KInv, KTables
<1>15. KHeap(l)
  <2>1. ASSUME NEW i \in m.k.heap_pages..(HeapMax - 1)
        PROVE  <<"heap", i>> \in Pages /\ <<"heap", i>> # p
    <3>1. m.k.heap_pages \in 0..HeapMax
      BY <1>1 DEF TaskRecord
    <3>2. i \in 0..(HeapMax - 1)
      BY <3>1, PagingConstants DEF PagingConstants
    <3> QED
      BY <1>2, <3>2, HeapPage
  <2> QED
    BY <1>1, <1>3, <1>7, <2>1 DEF KInv, KHeap
<1>16. KDead(l)
  BY <1>7 DEF KDead
<1>17. KModel(l, w)
  <2>1. /\ m.k.frames_n \in Nat /\ w \in Nat
    <3>1. m.k.frames_n \in 0..WinMax
      BY <1>1 DEF TaskRecord
    <3>2. WinMax \in Nat
      BY PagingConstants DEF PagingConstants
    <3> QED
      BY <3>1, <3>2
  <2>2. l.resident \subseteq 0..(w - 1) /\ l.resident \subseteq 0..(l.frames_n - 1)
    <3>1. g \in 0..(m.k.frames_n - 1)
      BY <2>1
    <3> QED
      BY <1>1, <1>7, <3>1 DEF KInv, KModel
  <2>3. l.frames_n < w => l.resident = {}
    BY <1>7, <2>1
  <2>4. ASSUME NEW h \in 0..(WinMax - 1)
        PROVE  /\ l.swap_map[ModelPage(h)] = 0
               /\ h \in l.resident => l.pte[ModelPage(h)] \in {0, l.model_frames[h]}
               /\ h \notin l.resident => l.pte[ModelPage(h)] = 0
    <3>1. CASE h = g
      BY <1>1, <1>2, <1>3, <1>7, <1>12, <3>1 DEF p, KInv, KModel
    <3>2. CASE h # g
      <4>1. l.pte[ModelPage(h)] = m.k.pte[ModelPage(h)]
        BY <1>2, <1>3, <1>7, <3>2, PageKinds
      <4> QED
        BY <1>1, <1>7, <3>2, <4>1 DEF KInv, KModel
    <3> QED
      BY <3>1, <3>2
  <2> QED
    BY <2>2, <2>3, <2>4 DEF KModel
<1> QED
  BY <1>7, <1>8, <1>9, <1>10, <1>11, <1>13, <1>14, <1>15, <1>16, <1>17 DEF Step, KInv

\* A resident page is dropped and its charge given back.
LEMMA EvictStep ==
  ASSUME NEW m, NEW w \in 1..WinMax, Good(m, w), NEW g \in 0..(WinMax - 1),
         g \in m.k.resident, m.k.life = "live"
  PROVE  LET n == model_evict_page(m, g) IN
         /\ Step(m, n, w)
         /\ n.k.life = m.k.life /\ n.k.swap_map = m.k.swap_map
         /\ \A q \in DataPages : n.k.pte[q] = m.k.pte[q]
<1> DEFINE p == ModelPage(g)
           f == m.k.model_frames[g]
           n == model_evict_page(m, g)
           l == [m.k EXCEPT !.pte = [m.k.pte EXCEPT ![p] = 0],
                            !.model_frames = [m.k.model_frames EXCEPT ![g] = 0],
                            !.resident = m.k.resident \ {g},
                            !.weights = Refunded(m.k.weights, 1)]
<1>1. /\ m \in MemType /\ FramesOf(m) /\ SlotsOf(m) /\ KInv(m.k, w) /\ m.k \in TaskRecord
  BY DEF Good, MemType
<1>2. /\ p \in Pages /\ p \notin DataPages
      /\ \A h \in 0..(WinMax - 1) : h # g => ModelPage(h) # p
  BY PageKinds, OwnerKinds
<1>3. n = [m EXCEPT !.used = @ \ {f}, !.k = l]
  BY <1>1 DEF model_evict_page, MemType
<1> SUFFICES /\ Step(m, n, w)
             /\ n.k.life = m.k.life /\ n.k.swap_map = m.k.swap_map
             /\ \A q \in DataPages : n.k.pte[q] = m.k.pte[q]
  OBVIOUS
<1> HIDE DEF n
<1>4. /\ m.k.frames_n \in Nat /\ m.k.weights \in 0..(U32 - 1)
      /\ m.k.resident \subseteq 0..(WinMax - 1) /\ m.k.heap_pages \in 0..HeapMax
  <2>1. /\ m.k.frames_n \in 0..WinMax /\ m.k.weights \in 0..(U32 - 1)
        /\ m.k.resident \subseteq 0..(WinMax - 1) /\ m.k.heap_pages \in 0..HeapMax
    BY <1>1 DEF TaskRecord
  <2>2. WinMax \in Nat
    BY PagingConstants DEF PagingConstants
  <2> QED
    BY <2>1, <2>2
<1>6. l \in TaskRecord
  <2>1. Refunded(m.k.weights, 1) \in 0..(U32 - 1)
    BY <1>4, ChargeType
  <2>2. 0 \in 0..NFrames
    BY PagingConstants DEF PagingConstants
  <2>3. /\ [m.k.model_frames EXCEPT ![g] = 0] \in [0..(WinMax - 1) -> 0..NFrames]
        /\ m.k.resident \ {g} \in SUBSET (0..(WinMax - 1))
        /\ [m.k.pte EXCEPT ![p] = 0] \in [Pages -> 0..NFrames]
    BY <1>1, <1>2, <2>2 DEF TaskRecord
  <2> QED
    BY <1>1, <2>1, <2>3 DEF TaskRecord
<1>7. /\ l.life = m.k.life /\ l.cr3 = m.k.cr3 /\ l.tbl = m.k.tbl
      /\ l.heap_pages = m.k.heap_pages /\ l.frames_n = m.k.frames_n
      /\ l.swap_map = m.k.swap_map /\ l.resident = m.k.resident \ {g}
      /\ \A q \in Pages : l.pte[q] = IF q = p THEN 0 ELSE m.k.pte[q]
      /\ \A h \in 0..(WinMax - 1) :
           l.model_frames[h] = IF h = g THEN 0 ELSE m.k.model_frames[h]
  BY <1>1, <1>2 DEF TaskRecord
<1> HIDE DEF l, p, f
<1>8. n \in MemType /\ n.k = l /\ n.slots = m.slots /\ n.used = m.used \ {f}
  BY <1>1, <1>3, <1>6 DEF MemType
<1>9. \A q \in DataPages : n.k.pte[q] = m.k.pte[q]
  BY <1>2, <1>7, <1>8, PageKinds
<1>10. FrameStep(m, n)
  <2>1. Held(m.k, p) = f /\ Held(n.k, p) = 0 /\ p \in Owners
    BY <1>2, <1>7, <1>8, HeldBy DEF p, f
  <2>2. \A x \in Owners \ {p} : Held(n.k, x) = Held(m.k, x)
    <3> DEFINE P == {p}
    <3>1. \A q \in Pages \ P : l.pte[q] = m.k.pte[q]
      BY <1>7
    <3>2. \A h \in 0..(WinMax - 1) : ModelPage(h) \notin P =>
            (h \in l.resident <=> h \in m.k.resident) /\ l.model_frames[h] = m.k.model_frames[h]
      BY <1>7 DEF p
    <3>3. l.cr3 = m.k.cr3 /\ l.tbl = m.k.tbl
      BY <1>7
    <3> HIDE DEF P
    <3>4. \A x \in Owners \ P : Held(l, x) = Held(m.k, x)
      BY <3>1, <3>2, <3>3, HeldSame
    <3> QED
      BY <1>8, <3>4 DEF P
  <2>3. \A x \in Owners : Held(n.k, x) = 0 \/ (Held(n.k, x) = Held(m.k, x) /\ Held(n.k, x) \in n.used)
    BY <1>1, <1>8, <2>1, <2>2 DEF FramesOf
  <2>4. n.used \subseteq m.used /\ \A h \in m.used \ n.used : \E y \in Owners : Held(m.k, y) = h
    BY <1>8, <2>1
  <2> QED
    BY <1>1, <1>8, <2>3, <2>4, FramesDropped
<1>11. SlotStep(m, n)
  BY <1>1, <1>7, <1>8, SlotsKept
<1>12. KBacked(l) /\ KTables(l) /\ KDead(l)
  BY <1>1, <1>7 DEF KInv, KBacked, KTables, KDead
<1>13. KHeap(l)
  <2>1. ASSUME NEW i \in m.k.heap_pages..(HeapMax - 1)
        PROVE  <<"heap", i>> \in Pages
    <3>1. i \in 0..(HeapMax - 1)
      BY <1>4, PagingConstants DEF PagingConstants
    <3> QED
      BY <3>1, HeapPage
  <2> QED
    BY <1>1, <1>7, <2>1 DEF KInv, KHeap
<1>14. KModel(l, w)
  <2>1. l.resident \subseteq 0..(w - 1) /\ l.resident \subseteq 0..(l.frames_n - 1)
    BY <1>1, <1>7 DEF KInv, KModel
  <2>3. l.frames_n < w => l.resident = {}
    BY <1>1, <1>7 DEF KInv, KModel
  <2>4. ASSUME NEW h \in 0..(WinMax - 1)
        PROVE  /\ l.swap_map[ModelPage(h)] = 0
               /\ h \in l.resident => l.pte[ModelPage(h)] \in {0, l.model_frames[h]}
               /\ h \notin l.resident => l.pte[ModelPage(h)] = 0
    BY <1>1, <1>2, <1>7, PageKinds DEF KInv, KModel, p
  <2> QED
    BY <2>1, <2>3, <2>4 DEF KModel
<1> QED
  BY <1>4, <1>7, <1>8, <1>9, <1>10, <1>11, <1>12, <1>13, <1>14 DEF Step, KInv

-----------------------------------------------------------------------------
(* sched.c: address spaces come and go *)

LEMMA TreeIsOwned ==
  ASSUME NEW m, NEW w, Good(m, w), NEW f \in m.used, f \in TreeFrames(m.k)
  PROVE  \E y \in Owners : Held(m.k, y) = f
<1>1. m \in MemType /\ KModel(m.k, w)
  BY DEF Good, KInv
<1>2. f # 0
  BY <1>1 DEF MemType, Frames
<1>3. CASE f = m.k.cr3
  BY <1>3, HeldBy
<1>4. CASE \E x \in Tables : f = m.k.tbl[x]
  BY <1>4, HeldBy
<1>5. CASE \E p \in Pages : f = m.k.pte[p]
  <2>1. PICK p \in Pages : f = m.k.pte[p]
    BY <1>5
  <2>2. CASE p \in DataPages
    BY <2>1, <2>2, HeldBy
  <2>3. CASE p \notin DataPages
    <3>1. PICK g \in 0..(WinMax - 1) : p = ModelPage(g)
      BY <2>3, PageKinds
    <3>2. g \in m.k.resident => m.k.pte[p] = m.k.model_frames[g]
      BY <1>1, <1>2, <2>1, <3>1 DEF KModel
    <3> QED
      BY <2>1, <3>1, <3>2, HeldBy
  <2> QED
    BY <2>2, <2>3
<1> QED
  BY <1>3, <1>4, <1>5 DEF TreeFrames

\* All that a task had is gone: its frames, unless the address space was
\* never populated, and its swap slots.
LEMMA EmptiedStep ==
  ASSUME NEW m, NEW w \in 1..WinMax, Good(m, w), NEW n \in MemType,
         n.k.cr3 = 0, \A x \in Tables : n.k.tbl[x] = 0,
         \A p \in Pages : n.k.pte[p] = 0 /\ n.k.swap_map[p] = 0,
         n.k.resident = {},
         n.used = m.used \/ n.used = m.used \ TreeFrames(m.k),
         n.slots = m.slots \ {m.k.swap_map[p] : p \in Pages}
  PROVE  Step(m, n, w)
<1>1. m \in MemType /\ FramesOf(m) /\ SlotsOf(m) /\ n.k \in TaskRecord
  BY DEF Good, MemType
<1>2. \A x \in Owners : Held(n.k, x) = 0
  <2> TAKE x \in Owners
  <2>1. CASE x = <<"cr3", 0>>
    BY <2>1, HeldBy
  <2>2. CASE \E i \in Tables : x = <<"table", i>>
    BY <2>2, HeldBy
  <2>3. CASE x \in DataPages
    BY <2>3, HeldBy, PageKinds
  <2>4. CASE \E g \in 0..(WinMax - 1) : x = ModelPage(g)
    BY <2>4, HeldBy, PageKinds
  <2> QED
    BY <2>1, <2>2, <2>3, <2>4, OwnerKinds
<1>3. \A f \in m.used \ n.used : \E y \in Owners : Held(m.k, y) = f
  BY TreeIsOwned
<1>4. FrameStep(m, n)
  BY <1>1, <1>2, <1>3, FramesDropped
<1>5. 0 \notin m.slots
  BY <1>1 DEF MemType, SlotNums
<1>6. SlotStep(m, n)
  <2>1. SlotsOf(n)
    BY DEF SlotsOf
  <2>2. \A s \in m.slots : s \notin n.slots => \E q \in Pages : m.k.swap_map[q] = s
    OBVIOUS
  <2>3. \A s \in n.slots : s \in m.slots /\ \A q \in Pages : m.k.swap_map[q] # s
    OBVIOUS
  <2>4. \A p \in Pages : n.k.swap_map[p] \notin m.slots
    BY <1>5
  <2> QED
    BY <2>1, <2>2, <2>3, <2>4 DEF SlotStep
<1>7. KBacked(n.k) /\ KTables(n.k) /\ KDead(n.k)
  BY DEF KBacked, KTables, KDead
<1>8. KHeap(n.k)
  <2>1. n.k.heap_pages \in 0..HeapMax
    BY <1>1 DEF TaskRecord
  <2>2. ASSUME NEW i \in n.k.heap_pages..(HeapMax - 1)
        PROVE  <<"heap", i>> \in Pages
    <3>1. i \in 0..(HeapMax - 1)
      BY <2>1, PagingConstants DEF PagingConstants
    <3> QED
      BY <3>1, HeapPage
  <2> QED
    BY <2>2 DEF KHeap
<1>9. KModel(n.k, w)
  BY PageKinds DEF KModel
<1> QED
  BY <1>4, <1>6, <1>7, <1>8, <1>9 DEF Step, KInv

\* The slot is claimed and cleared.
LEMMA ClaimStep ==
  ASSUME NEW m, NEW w \in 1..WinMax, Good(m, w), m.k.life # "live"
  PROVE  LET n == [m EXCEPT !.k = Cleared] IN
         /\ Step(m, n, w)
         /\ n.k = Cleared /\ n.used = m.used /\ n.slots = m.slots
<1> DEFINE n == [m EXCEPT !.k = Cleared]
<1>1. m \in MemType /\ KDead(m.k)
  BY DEF Good, KInv
<1>2. Cleared \in TaskRecord
  BY PagingConstants DEF Cleared, TaskRecord, PagingConstants
<1>3. n \in MemType /\ n.k = Cleared /\ n.used = m.used /\ n.slots = m.slots
  BY <1>1, <1>2 DEF MemType
<1>4. /\ Cleared.cr3 = 0 /\ \A x \in Tables : Cleared.tbl[x] = 0
      /\ \A p \in Pages : Cleared.pte[p] = 0 /\ Cleared.swap_map[p] = 0
      /\ Cleared.resident = {}
  BY DEF Cleared
<1>5. n.slots = m.slots \ {m.k.swap_map[p] : p \in Pages}
  <2>1. 0 \notin m.slots
    BY <1>1 DEF MemType, SlotNums
  <2>2. \A p \in Pages : m.k.swap_map[p] = 0
    BY <1>1 DEF KDead
  <2> QED
    BY <1>3, <2>1, <2>2
<1> HIDE DEF n
<1>6. Step(m, n, w)
  BY <1>3, <1>4, <1>5, EmptiedStep
<1> QED
  BY <1>3, <1>6 DEF n

\* The PML4 of a cleared slot gets its frame.
LEMMA Pml4Step ==
  ASSUME NEW m, NEW w \in 1..WinMax, Good(m, w), ~Exhausted(m), m.k.cr3 = 0
  PROVE  LET n == [m EXCEPT !.used = @ \union {NewFrame(m)}, !.k.cr3 = NewFrame(m)] IN
         Step(m, n, w) /\ n.k.life = m.k.life
<1> DEFINE f == NewFrame(m)
           n == [m EXCEPT !.used = @ \union {f}, !.k.cr3 = f]
           l == [m.k EXCEPT !.cr3 = f]
<1>1. /\ m \in MemType /\ FramesOf(m) /\ SlotsOf(m) /\ KInv(m.k, w) /\ m.k \in TaskRecord
  BY DEF Good, MemType
<1>2. f \in Frames /\ f \notin m.used /\ f # 0 /\ f \in 0..NFrames
  BY <1>1, NewFrameFree, PagingConstants DEF Frames, PagingConstants
<1> SUFFICES Step(m, n, w) /\ n.k.life = m.k.life
  OBVIOUS
<1> HIDE DEF f
<1>3. l \in TaskRecord
  BY <1>1, <1>2 DEF TaskRecord
<1>4. /\ l.life = m.k.life /\ l.cr3 = f /\ l.tbl = m.k.tbl /\ l.pte = m.k.pte
      /\ l.swap_map = m.k.swap_map /\ l.heap_pages = m.k.heap_pages
      /\ l.frames_n = m.k.frames_n /\ l.resident = m.k.resident
      /\ l.model_frames = m.k.model_frames /\ l.weights = m.k.weights
  BY <1>1 DEF TaskRecord
<1>5. n = [m EXCEPT !.used = @ \union {f}, !.k = l]
  BY <1>1 DEF MemType
<1> HIDE DEF n, l
<1>6. n \in MemType /\ n.k = l /\ n.used = m.used \union {f} /\ n.slots = m.slots
  BY <1>1, <1>2, <1>3, <1>5 DEF MemType
<1>7. FrameStep(m, n)
  <2>1. \A x \in Owners : x # <<"cr3", 0>> => Held(n.k, x) = Held(m.k, x)
    <3> TAKE x \in Owners
    <3> HAVE x # <<"cr3", 0>>
    <3>1. CASE \E i \in Tables : x = <<"table", i>>
      BY <1>4, <1>6, <3>1, HeldBy
    <3>2. CASE x \in DataPages
      BY <1>4, <1>6, <3>2, HeldBy
    <3>3. CASE \E g \in 0..(WinMax - 1) : x = ModelPage(g)
      BY <1>4, <1>6, <3>3, HeldBy
    <3> QED
      BY <3>1, <3>2, <3>3, OwnerKinds
  <2>2. Held(n.k, <<"cr3", 0>>) = f /\ f \in n.used \ m.used
    BY <1>2, <1>4, <1>6, HeldBy
  <2>3. \A x \in Owners : Held(n.k, x) = Held(m.k, x) \/ Held(n.k, x) \in n.used \ m.used
    BY <2>1, <2>2
  <2>4. \A x, y \in Owners : Held(n.k, x) # Held(m.k, x) /\ Held(n.k, x) = Held(n.k, y) => x = y
    BY <1>1, <1>2, <2>1, <2>2 DEF FramesOf
  <2> QED
    BY <1>1, <1>6, <2>3, <2>4, FramesAdded
<1>8. SlotStep(m, n)
  BY <1>1, <1>4, <1>6, SlotsKept
<1>9. KBacked(l) /\ KTables(l) /\ KHeap(l) /\ KDead(l)
  BY <1>1, <1>4 DEF KInv, KBacked, KTables, KHeap, KDead
<1>10. KModel(l, w)
  BY <1>1, <1>4 DEF KInv, KModel
<1> QED
  BY <1>4, <1>6, <1>7, <1>8, <1>9, <1>10 DEF Step, KInv

\* What is cleared has the type of the field.
LEMMA Zeros ==
  /\ 0 \in 0..NFrames /\ 0 \in 0..NSlots /\ 0 \in 0..WinMax /\ 0 \in 0..HeapMax
  /\ [x \in Tables |-> 0] \in [Tables -> 0..NFrames]
  /\ [p \in Pages |-> 0] \in [Pages -> 0..NFrames]
  /\ [p \in Pages |-> 0] \in [Pages -> 0..NSlots]
BY PagingConstants DEF PagingConstants

\* A spawn that fails gives its address space back.
LEMMA FreeSpaceStep ==
  ASSUME NEW m, NEW w \in 1..WinMax, Good(m, w), m.k.life # "live"
  PROVE  LET n == vmm_free_address_space(m) IN Step(m, n, w) /\ n.k.life = m.k.life
<1> DEFINE n == vmm_free_address_space(m)
           l == [m.k EXCEPT !.tbl = [x \in Tables |-> 0], !.pte = [p \in Pages |-> 0], !.cr3 = 0]
<1>1. m \in MemType /\ KDead(m.k) /\ m.k \in TaskRecord
  BY DEF Good, KInv, MemType
<1>2. l \in TaskRecord
  BY <1>1, Zeros DEF TaskRecord
<1>3. /\ l.life = m.k.life /\ l.cr3 = 0 /\ l.swap_map = m.k.swap_map
      /\ l.resident = m.k.resident
      /\ l.tbl = [x \in Tables |-> 0] /\ l.pte = [p \in Pages |-> 0]
  BY <1>1 DEF TaskRecord
<1>4. n = [m EXCEPT !.used = IF m.k.tbl["pdpt"] = 0 THEN @ ELSE @ \ TreeFrames(m.k), !.k = l]
  BY <1>1 DEF vmm_free_address_space, MemType
<1> SUFFICES Step(m, n, w) /\ n.k.life = m.k.life
  OBVIOUS
<1> HIDE DEF n, l
<1>5. /\ n \in MemType /\ n.k = l /\ n.slots = m.slots
      /\ n.used = m.used \/ n.used = m.used \ TreeFrames(m.k)
  BY <1>1, <1>2, <1>4 DEF MemType
<1>6. n.slots = m.slots \ {m.k.swap_map[p] : p \in Pages}
  <2>1. 0 \notin m.slots
    BY <1>1 DEF MemType, SlotNums
  <2>2. \A p \in Pages : m.k.swap_map[p] = 0
    BY <1>1 DEF KDead
  <2> QED
    BY <1>5, <2>1, <2>2
<1>7. /\ n.k.cr3 = 0 /\ \A x \in Tables : n.k.tbl[x] = 0
      /\ \A p \in Pages : n.k.pte[p] = 0 /\ n.k.swap_map[p] = 0
      /\ n.k.resident = {}
  BY <1>1, <1>3, <1>5 DEF KDead
<1>8. Step(m, n, w)
  BY <1>5, <1>6, <1>7, EmptiedStep
<1> QED
  BY <1>3, <1>5, <1>8

\* A task ends: model arrays, slots and address space go.
LEMMA ExitStep ==
  ASSUME NEW m, NEW w \in 1..WinMax, Good(m, w)
  PROVE  LET n == [vmm_free_address_space(swap_exit_task(model_exit_task(m)))
                     EXCEPT !.k.life = "zombie"] IN
         Step(m, n, w) /\ n.k.life = "zombie" /\ n.k.weights = m.k.weights
<1> DEFINE m1 == model_exit_task(m)
           m2 == swap_exit_task(m1)
           m3 == vmm_free_address_space(m2)
           n  == [m3 EXCEPT !.k.life = "zombie"]
<1>1. m \in MemType /\ m.k \in TaskRecord
  BY DEF Good, MemType
<1>2. /\ m1.used = m.used /\ m1.slots = m.slots /\ m1 \in MemType
      /\ m1.k.resident = {} /\ m1.k.swap_map = m.k.swap_map /\ m1.k.tbl = m.k.tbl
      /\ m1.k.pte = m.k.pte /\ m1.k.cr3 = m.k.cr3 /\ m1.k.weights = m.k.weights
  <2> DEFINE l == [m.k EXCEPT !.frames_n = 0, !.resident = {},
                              !.model_frames = [g \in DOMAIN @ |-> 0]]
  <2>1. m1 = [m EXCEPT !.k = l]
    BY <1>1 DEF model_exit_task, MemType
  <2>2. l \in TaskRecord
    <3>0. 0 \in 0..WinMax /\ 0 \in 0..NFrames
      BY PagingConstants DEF PagingConstants
    <3>1. 0 \in 0..WinMax /\ 0 \in 0..NFrames /\ DOMAIN m.k.model_frames = 0..(WinMax - 1)
      BY <1>1, <3>0 DEF TaskRecord
    <3> QED
      BY <1>1, <3>1 DEF TaskRecord
  <2>3. /\ l.resident = {} /\ l.swap_map = m.k.swap_map /\ l.tbl = m.k.tbl
        /\ l.pte = m.k.pte /\ l.cr3 = m.k.cr3 /\ l.weights = m.k.weights
    BY <1>1 DEF TaskRecord
  <2> HIDE DEF l, m1
  <2> QED
    BY <1>1, <2>1, <2>2, <2>3 DEF MemType
<1> HIDE DEF m1
<1>3. /\ m2.used = m.used /\ m2.slots = m.slots \ {m.k.swap_map[p] : p \in Pages}
      /\ m2 \in MemType
      /\ m2.k.resident = {} /\ m2.k.swap_map = [p \in Pages |-> 0] /\ m2.k.tbl = m.k.tbl
      /\ m2.k.pte = m.k.pte /\ m2.k.cr3 = m.k.cr3 /\ m2.k.weights = m.k.weights
  <2> DEFINE l == [m1.k EXCEPT !.swap_map = [p \in Pages |-> 0]]
  <2>0. m1.k \in TaskRecord
    BY <1>2 DEF MemType
  <2> DEFINE S == {m.k.swap_map[p] : p \in Pages}
  <2>1. m2 = [m1 EXCEPT !.slots = @ \ S, !.k = l]
    BY <1>2 DEF swap_exit_task, MemType
  <2>2. l \in TaskRecord
    BY <2>0, Zeros DEF TaskRecord
  <2>3. /\ l.resident = {} /\ l.swap_map = [p \in Pages |-> 0] /\ l.tbl = m.k.tbl
        /\ l.pte = m.k.pte /\ l.cr3 = m.k.cr3 /\ l.weights = m.k.weights
    BY <1>2, <2>0 DEF TaskRecord
  <2> SUFFICES /\ m2.used = m.used /\ m2.slots = m.slots \ S /\ m2 \in MemType /\ m2.k = l
    BY <2>3
  <2> HIDE DEF l, m2, S
  <2> QED
    BY <1>2, <2>1, <2>2 DEF MemType
<1> HIDE DEF m2
<1>4. /\ m3 \in MemType /\ m3.slots = m2.slots
      /\ m3.used = m2.used \/ m3.used = m2.used \ TreeFrames(m2.k)
      /\ m3.k.cr3 = 0 /\ m3.k.tbl = [x \in Tables |-> 0] /\ m3.k.pte = [p \in Pages |-> 0]
      /\ m3.k.resident = {} /\ m3.k.swap_map = [p \in Pages |-> 0]
      /\ m3.k.weights = m.k.weights
  <2> DEFINE l == [m2.k EXCEPT !.tbl = [x \in Tables |-> 0], !.pte = [p \in Pages |-> 0], !.cr3 = 0]
  <2>0. m2.k \in TaskRecord
    BY <1>3 DEF MemType
  <2>1. m3 = [m2 EXCEPT !.used = IF m2.k.tbl["pdpt"] = 0 THEN @ ELSE @ \ TreeFrames(m2.k), !.k = l]
    BY <1>3 DEF vmm_free_address_space, MemType
  <2>2. l \in TaskRecord
    BY <2>0, Zeros DEF TaskRecord
  <2>3. /\ l.cr3 = 0 /\ l.tbl = [x \in Tables |-> 0] /\ l.pte = [p \in Pages |-> 0]
        /\ l.resident = {} /\ l.swap_map = [p \in Pages |-> 0] /\ l.weights = m.k.weights
    BY <1>3, <2>0 DEF TaskRecord
  <2> HIDE DEF l, m3
  <2> QED
    BY <1>3, <2>1, <2>2, <2>3 DEF MemType
<1>5. TreeFrames(m2.k) = TreeFrames(m.k)
  BY <1>3 DEF TreeFrames
<1> SUFFICES Step(m, n, w) /\ n.k.life = "zombie" /\ n.k.weights = m.k.weights
  BY DEF m1, m2
<1> HIDE DEF m3
<1>6. /\ n \in MemType /\ n.slots = m3.slots /\ n.used = m3.used
      /\ n.k.cr3 = 0 /\ n.k.tbl = [x \in Tables |-> 0] /\ n.k.pte = [p \in Pages |-> 0]
      /\ n.k.resident = {} /\ n.k.swap_map = [p \in Pages |-> 0]
      /\ n.k.weights = m.k.weights /\ n.k.life = "zombie"
  <2> DEFINE l == [m3.k EXCEPT !.life = "zombie"]
  <2>0. m3.k \in TaskRecord
    BY <1>4 DEF MemType
  <2>1. n = [m3 EXCEPT !.k = l]
    BY <1>4 DEF MemType
  <2>2. l \in TaskRecord
    BY <2>0 DEF TaskRecord
  <2>3. /\ l.cr3 = 0 /\ l.tbl = [x \in Tables |-> 0] /\ l.pte = [p \in Pages |-> 0]
        /\ l.resident = {} /\ l.swap_map = [p \in Pages |-> 0] /\ l.weights = m.k.weights
        /\ l.life = "zombie"
    BY <1>4, <2>0 DEF TaskRecord
  <2> HIDE DEF l, n
  <2> QED
    BY <1>4, <2>1, <2>2, <2>3 DEF MemType
<1> HIDE DEF n
<1>7. /\ \A x \in Tables : n.k.tbl[x] = 0
      /\ \A p \in Pages : n.k.pte[p] = 0 /\ n.k.swap_map[p] = 0
      /\ n.used = m.used \/ n.used = m.used \ TreeFrames(m.k)
      /\ n.slots = m.slots \ {m.k.swap_map[p] : p \in Pages}
  BY <1>3, <1>4, <1>5, <1>6
<1>8. Step(m, n, w)
  BY <1>6, <1>7, EmptiedStep
<1> QED
  BY <1>6, <1>8

\* Fields that memory is not held by change: the life of the task, what it is
\* charged and its budget.
LEMMA RelabelStep ==
  ASSUME NEW m, NEW w, Good(m, w), NEW l \in TaskRecord,
         l.cr3 = m.k.cr3, l.tbl = m.k.tbl, l.pte = m.k.pte, l.swap_map = m.k.swap_map,
         l.heap_pages = m.k.heap_pages, l.frames_n = m.k.frames_n,
         l.model_frames = m.k.model_frames, l.resident = m.k.resident,
         KDead(l)
  PROVE  LET n == [m EXCEPT !.k = l] IN
         Step(m, n, w) /\ n.k = l /\ n.used = m.used /\ n.slots = m.slots
<1> DEFINE n == [m EXCEPT !.k = l]
<1>1. /\ m \in MemType /\ FramesOf(m) /\ SlotsOf(m) /\ KInv(m.k, w)
  BY DEF Good
<1>2. n \in MemType /\ n.k = l /\ n.used = m.used /\ n.slots = m.slots
  BY <1>1 DEF MemType
<1> SUFFICES Step(m, n, w) /\ n.k = l /\ n.used = m.used /\ n.slots = m.slots
  OBVIOUS
<1> HIDE DEF n
<1>3. \A x \in Owners : Held(n.k, x) = Held(m.k, x)
  <2> DEFINE P == {}
  <2>1. \A q \in Pages \ P : l.pte[q] = m.k.pte[q]
    OBVIOUS
  <2>2. \A g \in 0..(WinMax - 1) : ModelPage(g) \notin P =>
          (g \in l.resident <=> g \in m.k.resident) /\ l.model_frames[g] = m.k.model_frames[g]
    OBVIOUS
  <2> HIDE DEF P
  <2>3. \A x \in Owners \ P : Held(l, x) = Held(m.k, x)
    BY <2>1, <2>2, HeldSame
  <2> QED
    BY <1>2, <2>3 DEF P
<1>4. FrameStep(m, n)
  BY <1>1, <1>2, <1>3 DEF FrameStep, FramesOf
<1>5. SlotStep(m, n)
  BY <1>1, <1>2, SlotsKept
<1>6. KBacked(l) /\ KTables(l) /\ KHeap(l)
  BY <1>1 DEF KInv, KBacked, KTables, KHeap
<1>7. KModel(l, w)
  BY <1>1 DEF KInv, KModel
<1> QED
  BY <1>2, <1>4, <1>5, <1>6, <1>7 DEF Step, KInv

-----------------------------------------------------------------------------
(* What a running task keeps *)

KeepsPages(k, l) == \A p \in DataPages : Backed(k, p) => Backed(l, p)

\* A step of a running task that loses none of its pages.
Advance(m, n, w) ==
  /\ Step(m, n, w)
  /\ m.k.life = "live" /\ n.k.life = "live"
  /\ KeepsPages(m.k, n.k)

LEMMA AdvanceGood ==
  ASSUME NEW m, NEW n, NEW w, Advance(m, n, w)
  PROVE  Good(n, w) /\ n.k.life = "live" /\ Step(m, n, w)
BY StepGood DEF Advance

LEMMA AdvanceTwice ==
  ASSUME NEW m, NEW n, NEW o, NEW w, Good(m, w), Advance(m, n, w), Advance(n, o, w)
  PROVE  Advance(m, o, w)
<1>1. Step(m, o, w)
  BY StepTwice DEF Advance
<1>2. KeepsPages(m.k, o.k)
  BY DEF Advance, KeepsPages
<1> QED
  BY <1>1, <1>2 DEF Advance

LEMMA AdvanceNone ==
  ASSUME NEW m, NEW w, Good(m, w), m.k.life = "live"
  PROVE  Advance(m, m, w)
BY NoStep DEF Advance, KeepsPages

LEMMA SwapOutAdvance ==
  ASSUME NEW m, NEW w, Good(m, w), NEW p \in DataPages, CanSwapOut(m, p)
  PROVE  Advance(m, swap_out(m, p), w)
<1> DEFINE s == NewSlot(m)
           n == swap_out(m, p)
           l == [m.k EXCEPT !.pte = [m.k.pte EXCEPT ![p] = 0],
                            !.swap_map = [m.k.swap_map EXCEPT ![p] = s]]
<1>1. Step(m, n, w)
  BY SwapOutStep
<1>2. m \in MemType /\ m.k \in TaskRecord /\ p \in Pages /\ m.k.life = "live"
  BY PageKinds DEF Good, MemType, CanSwapOut
<1>3. s # 0
  BY <1>2, NewSlotFree DEF CanSwapOut
<1>4. n.k = l
  BY <1>2 DEF swap_out, MemType
<1>5. /\ l.life = m.k.life
      /\ \A q \in Pages : /\ l.pte[q] = IF q = p THEN 0 ELSE m.k.pte[q]
                          /\ l.swap_map[q] = IF q = p THEN s ELSE m.k.swap_map[q]
  BY <1>2 DEF TaskRecord
<1> HIDE DEF s, n, l
<1>6. KeepsPages(m.k, l)
  BY <1>3, <1>5, PageKinds DEF KeepsPages, Backed
<1> QED
  BY <1>1, <1>2, <1>4, <1>5, <1>6 DEF Advance, n

LEMMA SwapInAdvance ==
  ASSUME NEW m, NEW w, Good(m, w), NEW p \in Pages, CanSwapIn(m, p)
  PROVE  Advance(m, swap_in(m, p), w)
<1> DEFINE o == MapNew(m, p)
           n == swap_in(m, p)
           l == [o.k EXCEPT !.swap_map = [o.k.swap_map EXCEPT ![p] = 0]]
<1>1. Step(m, n, w) /\ n.k.pte[p] # 0
  BY SwapInStep
<1>2. m.k.life = "live" /\ ~Exhausted(m)
  BY DEF CanSwapIn
<1>3. /\ o \in MemType /\ SameRest(m.k, o.k)
      /\ \A q \in Pages : q # p => o.k.pte[q] = m.k.pte[q]
  BY <1>2, MapNewFacts
<1>4. n.k = l
  BY <1>3 DEF swap_in, MemType
<1> HIDE DEF o, n
<1>5. o.k \in TaskRecord
  BY <1>3 DEF MemType
<1>6. /\ l.life = m.k.life /\ l.pte = o.k.pte
      /\ \A q \in Pages : q # p => l.swap_map[q] = m.k.swap_map[q]
  BY <1>3, <1>5 DEF TaskRecord, SameRest
<1> HIDE DEF l
<1>7. KeepsPages(m.k, n.k)
  BY <1>1, <1>3, <1>4, <1>6, PageKinds DEF KeepsPages, Backed
<1> QED
  BY <1>1, <1>2, <1>4, <1>6, <1>7 DEF Advance, n

LEMMA EnsureAdvance ==
  ASSUME NEW m, Good(m, win_pages), win_pages \in 1..WinMax, m.k.life = "live"
  PROVE  /\ Advance(m, model_ensure_task(m), win_pages)
         /\ model_ensure_task(m).k.frames_n >= win_pages
         /\ model_ensure_task(m).used = m.used
<1> DEFINE n == model_ensure_task(m)
<1>1. /\ Step(m, n, win_pages)
      /\ n.k.frames_n >= win_pages /\ n.k.life = m.k.life /\ n.used = m.used
      /\ n.k.pte = m.k.pte /\ n.k.swap_map = m.k.swap_map
  BY EnsureStep
<1> HIDE DEF n
<1>3. Advance(m, n, win_pages)
  BY <1>1 DEF Advance, KeepsPages, Backed
<1> QED
  BY <1>1, <1>3 DEF n

LEMMA FaultInAdvance ==
  ASSUME NEW m, NEW w \in 1..WinMax, Good(m, w), NEW g \in 0..(w - 1), CanFaultIn(m, g),
         g \notin m.k.resident, m.k.frames_n >= w, m.k.life = "live"
  PROVE  Advance(m, model_fault_in_page(m, g), w)
         /\ model_fault_in_page(m, g).k.frames_n = m.k.frames_n
<1> DEFINE n == model_fault_in_page(m, g)
<1>1. ~Exhausted(m)
  BY DEF CanFaultIn
<1>2. /\ Step(m, n, w)
      /\ n.k.life = m.k.life /\ n.k.frames_n = m.k.frames_n
      /\ n.k.swap_map = m.k.swap_map
      /\ \A q \in DataPages : n.k.pte[q] = m.k.pte[q]
  BY <1>1, FaultInStep
<1> HIDE DEF n
<1>3. KeepsPages(m.k, n.k)
  BY <1>2 DEF KeepsPages, Backed
<1> QED
  BY <1>1, <1>2, <1>3 DEF Advance, n

LEMMA EvictAdvance ==
  ASSUME NEW m, NEW w \in 1..WinMax, Good(m, w), NEW g \in 0..(WinMax - 1),
         g \in m.k.resident, m.k.life = "live"
  PROVE  Advance(m, model_evict_page(m, g), w)
<1> DEFINE n == model_evict_page(m, g)
<1>1. /\ Step(m, n, w)
      /\ n.k.life = m.k.life /\ n.k.swap_map = m.k.swap_map
      /\ \A q \in DataPages : n.k.pte[q] = m.k.pte[q]
  BY EvictStep
<1> HIDE DEF n
<1>2. KeepsPages(m.k, n.k)
  BY <1>1 DEF KeepsPages, Backed
<1> QED
  BY <1>1, <1>2 DEF Advance, n

\* The next heap page is mapped and counted.
LEMMA AllocAdvance ==
  ASSUME NEW m, NEW w, Good(m, w), ~Exhausted(m), m.k.heap_pages < HeapMax, m.k.life = "live"
  PROVE  Advance(m, [MapNew(m, <<"heap", m.k.heap_pages>>) EXCEPT !.k.heap_pages = @ + 1], w)
<1> DEFINE h == m.k.heap_pages
           p == <<"heap", h>>
           o == MapNew(m, p)
           n == [o EXCEPT !.k.heap_pages = @ + 1]
           l == [o.k EXCEPT !.heap_pages = o.k.heap_pages + 1]
<1>1. /\ m \in MemType /\ FramesOf(m) /\ SlotsOf(m) /\ KInv(m.k, w) /\ m.k \in TaskRecord
  BY DEF Good, MemType
<1>2. h \in 0..HeapMax /\ h \in 0..(HeapMax - 1) /\ h \in h..(HeapMax - 1)
  <2>1. h \in 0..HeapMax
    BY <1>1 DEF TaskRecord
  <2> QED
    BY <2>1, PagingConstants DEF PagingConstants
<1>3. p \in DataPages /\ p \in Pages
  BY <1>2, HeapPage
<1>4. m.k.pte[p] = 0 /\ m.k.swap_map[p] = 0
  BY <1>1, <1>2 DEF KInv, KHeap
<1>5. /\ o \in MemType /\ o.slots = m.slots /\ SameRest(m.k, o.k)
      /\ NewFrame(m) \in Frames
      /\ \A q \in Pages : q # p => o.k.pte[q] = m.k.pte[q]
      /\ o.k.pte[p] = IF o.k.tbl[PtOf(p)] = 0 THEN m.k.pte[p] ELSE NewFrame(m)
      /\ \A x \in Tables : m.k.tbl[x] # 0 => o.k.tbl[x] = m.k.tbl[x]
  BY <1>3, MapNewFacts
<1>6. FrameStep(m, o)
  BY <1>1, <1>3, MapDataFrames
<1>7. n = [o EXCEPT !.k = l]
  BY <1>5 DEF MemType
<1> SUFFICES Advance(m, n, w)
  OBVIOUS
<1> HIDE DEF o, n, p
<1>8. o.k \in TaskRecord /\ l \in TaskRecord
  <2>1. o.k \in TaskRecord
    BY <1>5 DEF MemType
  <2>2. o.k.heap_pages = h
    BY <1>5 DEF SameRest
  <2>3. o.k.heap_pages + 1 \in 0..HeapMax
    BY <1>2, <2>2, PagingConstants DEF PagingConstants
  <2> QED
    BY <2>1, <2>3 DEF TaskRecord
<1>9. /\ l.life = m.k.life /\ l.cr3 = o.k.cr3 /\ l.tbl = o.k.tbl /\ l.pte = o.k.pte
      /\ l.heap_pages = h + 1 /\ l.frames_n = m.k.frames_n
      /\ l.model_frames = m.k.model_frames /\ l.resident = m.k.resident
      /\ l.swap_map = m.k.swap_map
      /\ o.k.resident = m.k.resident /\ o.k.model_frames = m.k.model_frames
  BY <1>1, <1>5, <1>8 DEF SameRest, TaskRecord
<1> HIDE DEF l
<1>10. n \in MemType /\ n.k = l /\ n.slots = m.slots /\ n.used = o.used
  BY <1>5, <1>7, <1>8 DEF MemType
<1>11. FrameStep(m, n)
  <2>1. \A x \in Owners : Held(l, x) = Held(o.k, x)
    <3> DEFINE P == {}
    <3>1. \A q \in Pages \ P : l.pte[q] = o.k.pte[q]
      BY <1>9
    <3>2. \A g \in 0..(WinMax - 1) : ModelPage(g) \notin P =>
            (g \in l.resident <=> g \in o.k.resident) /\ l.model_frames[g] = o.k.model_frames[g]
      BY <1>9
    <3>3. l.cr3 = o.k.cr3 /\ l.tbl = o.k.tbl
      BY <1>9
    <3> HIDE DEF P
    <3>4. \A x \in Owners \ P : Held(l, x) = Held(o.k, x)
      BY <3>1, <3>2, <3>3, HeldSame
    <3> QED
      BY <3>4 DEF P
  <2> QED
    BY <1>6, <1>10, <2>1 DEF FrameStep, FramesOf
<1>12. SlotStep(m, n)
  BY <1>1, <1>9, <1>10, SlotsKept
<1>13. KBacked(l)
  BY <1>1, <1>4, <1>5, <1>9 DEF KInv, KBacked
<1>14. KTables(l)
  BY <1>1, <1>4, <1>5, <1>9, PageKinds DEF KInv, KTables
<1>15. KHeap(l)
  <2>1. ASSUME NEW i \in (h + 1)..(HeapMax - 1)
        PROVE  <<"heap", i>> \in Pages /\ <<"heap", i>> # p /\ i \in h..(HeapMax - 1)
    <3>1. i \in 0..(HeapMax - 1) /\ i # h /\ i \in h..(HeapMax - 1)
      BY <1>2, PagingConstants DEF PagingConstants
    <3> QED
      BY <3>1, HeapPage DEF p
  <2>2. \A i \in (h + 1)..(HeapMax - 1) : l.pte[<<"heap", i>>] = 0 /\ l.swap_map[<<"heap", i>>] = 0
    BY <1>1, <1>5, <1>9, <2>1 DEF KInv, KHeap
  <2> QED
    BY <1>9, <2>2 DEF KHeap
<1>16. KDead(l)
  BY <1>9 DEF KDead
<1>17. KModel(l, w)
  <2>1. \A g \in 0..(WinMax - 1) : l.pte[ModelPage(g)] = m.k.pte[ModelPage(g)]
    BY <1>3, <1>5, <1>9, PageKinds, OwnerKinds
  <2> QED
    BY <1>1, <1>9, <2>1 DEF KInv, KModel
<1>18. KeepsPages(m.k, l)
  BY <1>4, <1>5, <1>9, PageKinds DEF KeepsPages, Backed
<1> QED
  BY <1>9, <1>10, <1>11, <1>12, <1>13, <1>14, <1>15, <1>16, <1>17, <1>18
     DEF Advance, Step, KInv

\* model_demand_fault, with the arrays in place.
LEMMA DemandAdvance ==
  ASSUME NEW m, Good(m, win_pages), win_pages \in 1..WinMax, NEW g \in 0..(WinMax - 1),
         Handled(m, g), m.k.frames_n >= win_pages, m.k.life = "live"
  PROVE  Advance(m, DemandFault(m, g), win_pages)
<1>1. g \in 0..(win_pages - 1)
  BY DEF Handled
<1>2. CASE g \in m.k.resident
  BY <1>2, AdvanceNone DEF DemandFault
<1>3. CASE g \notin m.k.resident
  BY <1>1, <1>3, FaultInAdvance DEF DemandFault, Handled
<1> QED
  BY <1>2, <1>3

\* What the two prefetchers leave.
LEMMA PrefetchAdvance ==
  ASSUME NEW m, NEW w, Good(m, w), m.k.life = "live", NEW q \in Pages, NEW n \in Prefetched(m, q)
  PROVE  Advance(m, n, w)
BY AdvanceNone, SwapInAdvance DEF Prefetched

LEMMA ModelPrefetchAdvance ==
  ASSUME NEW m, Good(m, win_pages), win_pages \in 1..WinMax, m.k.life = "live",
         NEW q \in Pages, NEW n \in ModelPrefetched(m, q)
  PROVE  Advance(m, n, win_pages)
<1>1. CASE n = m
  BY <1>1, AdvanceNone
<1>2. CASE n # m
  <2> DEFINE o == model_ensure_task(m)
             h == q[2]
  <2>1. q \in ModelPages /\ h < win_pages
    BY <1>2 DEF ModelPrefetched
  <2>2. h \in 0..(win_pages - 1)
    BY <2>1, PagingConstants DEF ModelPages, Region, PagingConstants
  <2>3. n = IF h \notin o.k.resident /\ CanFaultIn(o, h) THEN model_fault_in_page(o, h) ELSE o
    BY <1>2, <2>1 DEF ModelPrefetched
  <2>4. Advance(m, o, win_pages) /\ o.k.frames_n >= win_pages
    BY EnsureAdvance
  <2> HIDE DEF o, h
  <2>5. Good(o, win_pages) /\ o.k.life = "live"
    BY <2>4, AdvanceGood
  <2>6. CASE h \notin o.k.resident /\ CanFaultIn(o, h)
    <3>1. Advance(o, n, win_pages)
      BY <2>2, <2>3, <2>4, <2>5, <2>6, FaultInAdvance
    <3> QED
      BY <2>4, <3>1, AdvanceTwice
  <2>7. CASE ~(h \notin o.k.resident /\ CanFaultIn(o, h))
    BY <2>3, <2>4, <2>7
  <2> QED
    BY <2>6, <2>7
<1> QED
  BY <1>1, <1>2

-----------------------------------------------------------------------------
(* From one task to all *)

LEMMA MemGood ==
  ASSUME IInv, NEW t \in Tasks
  PROVE  /\ Good(Mem(t), win_pages) /\ Mem(t) \in MemType
         /\ Mem(t).used = used /\ Mem(t).slots = slots /\ Mem(t).k = task[t]
         /\ win_pages \in 1..WinMax
<1> DEFINE m == Mem(t)
<1>1. m.used = used /\ m.slots = slots /\ m.k = task[t]
  BY DEF Mem
<1>2. m \in MemType
  BY DEF IInv, TypeOK, Mem, MemType
<1> HIDE DEF m
<1>3. FramesOf(m)
  BY <1>1 DEF IInv, FramesOwned, FramesOf
<1>4. SlotsOf(m)
  BY <1>1 DEF IInv, SlotsOwned, SlotsOf
<1>5. KInv(m.k, win_pages) /\ win_pages \in 1..WinMax
  BY <1>1 DEF IInv, TypeOK
<1> QED
  BY <1>1, <1>2, <1>3, <1>4, <1>5 DEF Good, m

\* A step of one task's memory leaves the frames and slots of the others.
LEMMA StoreStep ==
  ASSUME IInv, NEW t \in Tasks, NEW n, Store(t, n), Step(Mem(t), n, win_pages)
  PROVE  /\ used' \subseteq Frames /\ slots' \subseteq SlotNums
         /\ task' \in [Tasks -> TaskRecord]
         /\ FramesOwned' /\ SlotsOwned'
         /\ \A u \in Tasks : KInv(task'[u], win_pages)
         /\ task'[t] = n.k /\ \A u \in Tasks : u # t => task'[u] = task[u]
<1> DEFINE m == Mem(t)
<1>1. m.used = used /\ m.slots = slots /\ m.k = task[t] /\ m \in MemType
  BY MemGood
<1>2. n \in MemType /\ KInv(n.k, win_pages) /\ FrameStep(m, n) /\ SlotStep(m, n)
  BY DEF Step
<1>3. n.used \subseteq Frames /\ n.slots \subseteq SlotNums /\ n.k \in TaskRecord
  BY <1>2 DEF MemType
<1>4. task \in [Tasks -> TaskRecord]
  BY DEF IInv, TypeOK
<1>5. /\ used' = n.used /\ slots' = n.slots
      /\ task' \in [Tasks -> TaskRecord]
      /\ task'[t] = n.k /\ \A u \in Tasks : u # t => task'[u] = task[u]
  BY <1>3, <1>4 DEF Store
<1> HIDE DEF m
<1>6. FramesOwned'
  <2>1. \A u \in Tasks, x \in Owners : u # t /\ Held(task[u], x) # 0 =>
          /\ Held(task[u], x) \in used
          /\ \A y \in Owners : Held(task[u], x) # Held(m.k, y)
    BY <1>1 DEF IInv, FramesOwned
  <2>2. \A u \in Tasks, x \in Owners : u # t /\ Held(task[u], x) # 0 => Held(task[u], x) \in n.used
    BY <1>1, <1>2, <2>1 DEF FrameStep
  <2>3. \A u \in Tasks, x, y \in Owners : u # t /\ Held(task[u], x) # 0
          => Held(task[u], x) # Held(n.k, y)
    BY <1>1, <1>2, <2>1 DEF FrameStep
  <2>4. FramesOf(n)
    BY <1>2 DEF FrameStep
  <2>5. \A u \in Tasks, x \in Owners : Held(task'[u], x) # 0 => Held(task'[u], x) \in used'
    BY <1>5, <2>2, <2>4 DEF FramesOf
  <2>6. ASSUME NEW u \in Tasks, NEW v \in Tasks, NEW x \in Owners, NEW y \in Owners,
               Held(task'[u], x) # 0, Held(task'[u], x) = Held(task'[v], y)
        PROVE  u = v /\ x = y
    <3>1. CASE u = t /\ v = t
      BY <1>5, <2>4, <2>6, <3>1 DEF FramesOf
    <3>2. CASE u # t /\ v # t
      BY <1>5, <2>6, <3>2 DEF IInv, FramesOwned
    <3>3. CASE u = t /\ v # t
      BY <1>5, <2>3, <2>6, <3>3
    <3>4. CASE u # t /\ v = t
      BY <1>5, <2>3, <2>6, <3>4
    <3> QED
      BY <3>1, <3>2, <3>3, <3>4
  <2> QED
    BY <2>5, <2>6 DEF FramesOwned, Held, Owners
<1>7. SlotsOwned'
  <2>1. \A u \in Tasks, p \in Pages : u # t /\ task[u].swap_map[p] # 0 =>
          /\ task[u].swap_map[p] \in slots
          /\ \A q \in Pages : task[u].swap_map[p] # m.k.swap_map[q]
    BY <1>1 DEF IInv, SlotsOwned
  <2>2. \A u \in Tasks, p \in Pages : u # t /\ task[u].swap_map[p] # 0
          => task[u].swap_map[p] \in n.slots
    BY <1>1, <1>2, <2>1 DEF SlotStep
  <2>3. \A u \in Tasks, p, q \in Pages : u # t /\ task[u].swap_map[p] # 0
          => task[u].swap_map[p] # n.k.swap_map[q]
    BY <1>1, <1>2, <2>1 DEF SlotStep
  <2>4. SlotsOf(n)
    BY <1>2 DEF SlotStep
  <2>5. \A u \in Tasks, p \in Pages : task'[u].swap_map[p] # 0 => task'[u].swap_map[p] \in slots'
    BY <1>5, <2>2, <2>4 DEF SlotsOf
  <2>6. ASSUME NEW u \in Tasks, NEW v \in Tasks, NEW p \in Pages, NEW q \in Pages,
               task'[u].swap_map[p] # 0, task'[u].swap_map[p] = task'[v].swap_map[q]
        PROVE  u = v /\ p = q
    <3>1. CASE u = t /\ v = t
      BY <1>5, <2>4, <2>6, <3>1 DEF SlotsOf
    <3>2. CASE u # t /\ v # t
      BY <1>5, <2>6, <3>2 DEF IInv, SlotsOwned
    <3>3. CASE u = t /\ v # t
      BY <1>5, <2>3, <2>6, <3>3
    <3>4. CASE u # t /\ v = t
      BY <1>5, <2>3, <2>6, <3>4
    <3> QED
      BY <3>1, <3>2, <3>3, <3>4
  <2>7. ASSUME NEW s \in slots'
        PROVE  \E u \in Tasks, p \in Pages : task'[u].swap_map[p] = s
    <3>1. CASE \E p \in Pages : n.k.swap_map[p] = s
      BY <1>5, <3>1
    <3>2. CASE s \in m.slots /\ \A q \in Pages : m.k.swap_map[q] # s
      <4>1. PICK u \in Tasks, p \in Pages : task[u].swap_map[p] = s
        BY <1>1, <3>2 DEF IInv, SlotsOwned
      <4> QED
        BY <1>1, <1>5, <3>2, <4>1
    <3> QED
      BY <1>2, <1>5, <3>1, <3>2 DEF SlotStep
  <2> QED
    BY <2>5, <2>6, <2>7 DEF SlotsOwned
<1>8. \A u \in Tasks : KInv(task'[u], win_pages)
  BY <1>2, <1>5 DEF IInv
<1> QED
  BY <1>3, <1>5, <1>6, <1>7, <1>8

-----------------------------------------------------------------------------
(* The actions *)

\* What a step promises of every task: a task that stays alive keeps its
\* pages.
Promised ==
  \A t \in Tasks :
    task[t].life = "live" /\ task'[t].life = "live" => KeepsPages(task[t], task'[t])

\* The frames and slots are not touched, and neither is what a task knows.
LEMMA Untouched ==
  ASSUME IInv, UNCHANGED <<used, slots, task, win_pages>>,
         pc' \in {"idle", "spawn", "reclaim"}, who' \in Tasks \union {0}, at' \in Nat,
         spawns' \in 0..MaxSpawns, panicked' \in BOOLEAN, ShellOK'
  PROVE  IInv' /\ Promised
<1>1. TypeOK'
  BY DEF IInv, TypeOK
<1>2. FramesOwned' /\ SlotsOwned' /\ \A t \in Tasks : KInv(task'[t], win_pages')
  BY DEF IInv, FramesOwned, SlotsOwned
<1>3. Promised
  BY DEF Promised, KeepsPages
<1> QED
  BY <1>1, <1>2, <1>3 DEF IInv

LEMMA StoreInv ==
  ASSUME IInv, NEW t \in Tasks, NEW n, Store(t, n), Step(Mem(t), n, win_pages),
         win_pages' = win_pages,
         pc' \in {"idle", "spawn", "reclaim"}, who' \in Tasks \union {0}, at' \in Nat,
         spawns' \in 0..MaxSpawns, panicked' \in BOOLEAN,
         pc' # "idle" => who' \in Tasks /\ at' # 0,
         pc' = "spawn" => task'[who'].life # "live",
         task[t].life = "live" /\ n.k.life = "live" => KeepsPages(task[t], n.k)
  PROVE  IInv' /\ Promised
<1>1. /\ used' \subseteq Frames /\ slots' \subseteq SlotNums
      /\ task' \in [Tasks -> TaskRecord]
      /\ FramesOwned' /\ SlotsOwned'
      /\ \A u \in Tasks : KInv(task'[u], win_pages)
      /\ task'[t] = n.k /\ \A u \in Tasks : u # t => task'[u] = task[u]
  BY StoreStep
<1>2. TypeOK'
  BY <1>1 DEF IInv, TypeOK
<1>3. ShellOK'
  BY DEF ShellOK
<1>4. Promised
  BY <1>1 DEF Promised, KeepsPages
<1> QED
  BY <1>1, <1>2, <1>3, <1>4 DEF IInv

\* A running task, or a task whose pages the shell reclaims, moves on.
LEMMA AdvanceInv ==
  ASSUME IInv, NEW t \in Tasks, NEW n, Store(t, n), Advance(Mem(t), n, win_pages),
         UNCHANGED <<win_pages, pc, who, spawns, panicked>>,
         pc # "spawn", at' \in Nat, pc # "idle" => at' # 0
  PROVE  IInv' /\ Promised
<1>1. Step(Mem(t), n, win_pages) /\ Mem(t).k = task[t] /\ Good(n, win_pages)
  BY MemGood, StepGood DEF Advance
<1>2. /\ pc' \in {"idle", "spawn", "reclaim"} /\ who' \in Tasks \union {0}
      /\ spawns' \in 0..MaxSpawns /\ panicked' \in BOOLEAN
      /\ (pc' # "idle" => who' \in Tasks /\ at' # 0) /\ pc' # "spawn"
  BY DEF IInv, TypeOK, ShellOK
<1>3. KeepsPages(task[t], n.k)
  BY <1>1 DEF Advance
<1> QED
  BY <1>1, <1>2, <1>3, StoreInv

\* The places of the shell's two lists hold data pages.
LEMMA ListedPages ==
  /\ \A i \in 1..Len(SpawnList) : SpawnList[i] \in DataPages /\ SpawnList[i][1] # "heap"
  /\ \A i \in 1..Len(ReclaimList) : ReclaimList[i] \in DataPages
<1> DEFINE A == PagesOf("image", ImagePages)
           B == PagesOf("script", ScriptPages)
           C == PagesOf("stack", StackPages)
           D == PagesOf("heap", HeapMax)
           E == DataPages \ HeapPages
<1>1. A \in Seq(E) /\ B \in Seq(E) /\ C \in Seq(E) /\ D \in Seq(DataPages)
  <2>1. \A i \in 1..ImagePages : A[i] \in E
    BY PagingConstants DEF PagesOf, DataPages, Region, PagingConstants, HeapPages
  <2>2. \A i \in 1..ScriptPages : B[i] \in E
    BY PagingConstants DEF PagesOf, DataPages, Region, PagingConstants, HeapPages
  <2>3. \A i \in 1..StackPages : C[i] \in E
    BY PagingConstants DEF PagesOf, DataPages, Region, PagingConstants, HeapPages
  <2>4. \A i \in 1..HeapMax : D[i] \in DataPages
    BY PagingConstants DEF PagesOf, DataPages, Region, PagingConstants, HeapPages
  <2> QED
    BY <2>1, <2>2, <2>3, <2>4, PagingConstants DEF PagesOf, PagingConstants
<1>2. \A x \in E : x \in DataPages /\ x[1] # "heap"
  BY DEF DataPages, HeapPages, Region
<1> HIDE DEF A, B, C, D, E
<1>3. (A \o B) \o C \in Seq(E)
  BY <1>1, ConcatProperties
<1>4. B \in Seq(DataPages) /\ C \in Seq(DataPages)
  BY <1>1, <1>2
<1>5. (B \o C) \o D \in Seq(DataPages)
  BY <1>1, <1>4, ConcatProperties
<1>6. SpawnList \in Seq(E) /\ ReclaimList \in Seq(DataPages)
  BY <1>3, <1>5 DEF SpawnList, ReclaimList, A, B, C, D
<1> QED
  BY <1>2, <1>6, ElementOfSeq

LEMMA NextTaskType ==
  ASSUME NEW t
  PROVE  NextTask(t) \in Tasks \union {0}
<1> DEFINE S == {u \in Tasks : u > t}
<1>1. CASE S = {}
  BY <1>1 DEF NextTask
<1>2. CASE S # {}
  <2>1. S \in SUBSET Nat
    BY PagingConstants DEF PagingConstants
  <2>2. \E u \in S : \A v \in S : u <= v
    BY <1>2, <2>1, LeastExists
  <2>3. \E u \in Tasks : u > t /\ \A v \in Tasks : v > t => u <= v
    BY <2>2
  <2> QED
    BY <2>3 DEF NextTask
<1> QED
  BY <1>1, <1>2

LEMMA SpawnClaimInv ==
  ASSUME IInv, NEW t \in Tasks, SpawnClaim(t)
  PROVE  IInv' /\ Promised
<1> DEFINE c == [Mem(t) EXCEPT !.k = Cleared]
           n == [c EXCEPT !.used = @ \union {NewFrame(c)}, !.k.cr3 = NewFrame(c)]
           d == vmm_free_address_space(n)
<1>1. Good(Mem(t), win_pages) /\ Mem(t).k = task[t] /\ win_pages \in 1..WinMax
  BY MemGood
<1>2. task[t].life # "live"
  BY DEF SpawnClaim, Claimable, IInv, TypeOK, TaskRecord
<1>3. Step(Mem(t), c, win_pages) /\ c.k = Cleared
  BY <1>1, <1>2, ClaimStep
<1>4. /\ spawns' \in 0..MaxSpawns /\ win_pages' = win_pages /\ panicked' = panicked
      /\ panicked \in BOOLEAN /\ who \in Tasks \union {0} /\ at \in Nat
      /\ pc = "idle"
  <2>1. TypeOK /\ spawns < MaxSpawns /\ spawns' = spawns + 1 /\ pc = "idle"
        /\ UNCHANGED <<win_pages, panicked>>
    BY DEF SpawnClaim, Idle, IInv
  <2>2. spawns \in 0..MaxSpawns /\ panicked \in BOOLEAN /\ who \in Tasks \union {0} /\ at \in Nat
    BY <2>1 DEF TypeOK
  <2> QED
    BY <2>1, <2>2, PagingConstants DEF PagingConstants
<1>5. c.k.life = "unused" /\ c.k.cr3 = 0
  BY <1>3 DEF Cleared
<1>6. \/ Store(t, c) /\ UNCHANGED <<pc, who, at>>
      \/ ~Exhausted(c) /\ Store(t, d) /\ UNCHANGED <<pc, who, at>>
      \/ ~Exhausted(c) /\ Store(t, n) /\ pc' = "spawn" /\ who' = t /\ at' = 1
  BY DEF SpawnClaim
<1>7. Good(c, win_pages)
  BY <1>3, StepGood
<1>8. CASE Store(t, c) /\ UNCHANGED <<pc, who, at>>
  <2> HIDE DEF c
  <2> QED
    BY <1>2, <1>3, <1>4, <1>5, <1>8, StoreInv
<1>9. ASSUME ~Exhausted(c)
      PROVE  Step(Mem(t), n, win_pages) /\ n.k.life = "unused" /\ Good(n, win_pages)
  <2>1. Step(c, n, win_pages) /\ n.k.life = c.k.life
    BY <1>1, <1>5, <1>7, <1>9, Pml4Step
  <2> QED
    BY <1>3, <1>5, <2>1, StepTwice, StepGood
<1>10. CASE ~Exhausted(c) /\ Store(t, d) /\ UNCHANGED <<pc, who, at>>
  <2>1. Step(Mem(t), n, win_pages) /\ n.k.life = "unused" /\ Good(n, win_pages)
    BY <1>9, <1>10
  <2> HIDE DEF n
  <2>2. Step(n, d, win_pages) /\ d.k.life = "unused"
    BY <1>1, <2>1, FreeSpaceStep
  <2>3. Step(Mem(t), d, win_pages)
    BY <2>1, <2>2, StepTwice
  <2> HIDE DEF d
  <2> QED
    BY <1>2, <1>4, <1>10, <2>2, <2>3, StoreInv
<1>11. CASE ~Exhausted(c) /\ Store(t, n) /\ pc' = "spawn" /\ who' = t /\ at' = 1
  <2>1. Step(Mem(t), n, win_pages) /\ n.k.life = "unused"
    BY <1>9, <1>11
  <2> HIDE DEF n
  <2>2. task'[t] = n.k
    BY <1>11, <2>1, StoreStep
  <2> QED
    BY <1>2, <1>4, <1>11, <2>1, <2>2, StoreInv
<1> QED
  BY <1>6, <1>8, <1>10, <1>11

LEMMA SpawnPageInv ==
  ASSUME IInv, SpawnPage
  PROVE  IInv' /\ Promised
<1> DEFINE m == Mem(who)
           n == MapNew(m, SpawnList[at])
           d == vmm_free_address_space(m)
<1>1. who \in Tasks /\ task[who].life # "live" /\ at \in Nat \ {0} /\ at \in 1..Len(SpawnList)
  BY DEF SpawnPage, IInv, TypeOK, ShellOK
<1>2. Good(m, win_pages) /\ m.k = task[who] /\ m \in MemType /\ win_pages \in 1..WinMax
  BY <1>1, MemGood
<1>3. /\ spawns' \in 0..MaxSpawns /\ win_pages' = win_pages
      /\ panicked' \in BOOLEAN /\ pc = "spawn"
  BY DEF SpawnPage, IInv, TypeOK
<1>5. CASE ~Exhausted(m) /\ Store(who, n) /\ at' = at + 1 /\ UNCHANGED <<pc, who>>
  <2> DEFINE p == SpawnList[at]
  <2>1. p \in DataPages /\ p[1] # "heap" /\ p \in Pages
    BY <1>1, ListedPages, PageKinds
  <2> HIDE DEF p
  <2>2. m.k.swap_map[p] = 0
    BY <1>1, <1>2, <2>1 DEF Good, KInv, KDead
  <2>3. \A i \in m.k.heap_pages..(HeapMax - 1) : p # <<"heap", i>>
    BY <2>1
  <2>4. Step(m, MapNew(m, p), win_pages)
    BY <1>2, <1>5, <2>1, <2>2, <2>3, MapDataStep
  <2>5. SameRest(m.k, MapNew(m, p).k)
    BY <1>2, <1>5, <2>1, MapNewFacts
  <2>6. Step(m, n, win_pages) /\ n.k.life = m.k.life
    BY <2>4, <2>5 DEF p, SameRest
  <2>7. task'[who] = n.k
    BY <1>1, <1>5, <2>6, StoreStep
  <2> HIDE DEF n
  <2> QED
    BY <1>1, <1>2, <1>3, <1>5, <2>6, <2>7, StoreInv
<1>6. CASE Store(who, d) /\ pc' = "idle" /\ who' = 0 /\ at' = 0
  <2>1. Step(m, d, win_pages) /\ d.k.life = m.k.life
    BY <1>1, <1>2, FreeSpaceStep
  <2> HIDE DEF d
  <2> QED
    BY <1>1, <1>2, <1>3, <1>6, <2>1, StoreInv
<1> QED
  BY <1>5, <1>6 DEF SpawnPage

LEMMA SpawnPublishInv ==
  ASSUME IInv, SpawnPublish
  PROVE  IInv' /\ Promised
<1> DEFINE m == Mem(who)
           l == [task[who] EXCEPT !.life = "live"]
           n == [m EXCEPT !.k = l]
<1>1. who \in Tasks /\ task[who].life # "live"
  BY DEF SpawnPublish, IInv, ShellOK
<1>2. /\ Good(m, win_pages) /\ m.k = task[who] /\ m.used = used /\ m.slots = slots
      /\ win_pages \in 1..WinMax
  BY <1>1, MemGood
<1>3. task[who] \in TaskRecord
  BY <1>1 DEF IInv, TypeOK
<1>4. /\ l \in TaskRecord /\ l.life = "live" /\ l.cr3 = m.k.cr3 /\ l.tbl = m.k.tbl
      /\ l.pte = m.k.pte /\ l.swap_map = m.k.swap_map
      /\ l.heap_pages = m.k.heap_pages /\ l.frames_n = m.k.frames_n
      /\ l.model_frames = m.k.model_frames /\ l.resident = m.k.resident
  BY <1>2, <1>3 DEF TaskRecord
<1>5. task' = [task EXCEPT ![who] = l]
  BY DEF SpawnPublish
<1> HIDE DEF l
<1>6. KDead(l)
  BY <1>4 DEF KDead
<1>7. Step(m, n, win_pages) /\ n.k = l /\ n.used = used /\ n.slots = slots
  BY <1>2, <1>4, <1>6, RelabelStep
<1>8. Store(who, n)
  BY <1>5, <1>7 DEF Store, SpawnPublish
<1>9. /\ spawns' \in 0..MaxSpawns /\ win_pages' = win_pages
      /\ panicked' \in BOOLEAN /\ pc' = "idle" /\ who' = 0 /\ at' = 0
  BY DEF SpawnPublish, IInv, TypeOK
<1> HIDE DEF n
<1> QED
  BY <1>1, <1>2, <1>4, <1>7, <1>8, <1>9, StoreInv

LEMMA ReclaimInv ==
  ASSUME IInv, ReclaimStart \/ ReclaimStep
  PROVE  IInv' /\ Promised
<1>1. TypeOK /\ ShellOK
  BY DEF IInv
<1>2. CASE ReclaimStart
  <2>1. who' \in Tasks /\ pc' = "reclaim" /\ at' = 1
    BY <1>2, NextTaskType DEF ReclaimStart
  <2> QED
    BY <1>1, <1>2, <2>1, Untouched DEF ReclaimStart, TypeOK, ShellOK
<1>3. CASE ReclaimStep
  <2>1. who \in Tasks /\ at \in Nat \ {0} /\ pc = "reclaim"
    BY <1>1, <1>3 DEF ReclaimStep, ShellOK
  <2>2. /\ UNCHANGED <<win_pages, spawns, panicked>>
        /\ spawns \in 0..MaxSpawns /\ panicked \in BOOLEAN
    BY <1>1, <1>3 DEF ReclaimStep, TypeOK
  <2>3. CASE pc' = "idle" /\ who' = 0 /\ at' = 0 /\ UNCHANGED <<used, slots, task>>
    BY <2>2, <2>3, Untouched DEF ShellOK
  <2>4. CASE /\ who' = NextTask(who)
             /\ pc' = IF who' = 0 THEN "idle" ELSE "reclaim"
             /\ at' = IF who' = 0 THEN 0 ELSE 1
             /\ UNCHANGED <<used, slots, task>>
    <3>1. who' \in Tasks \union {0}
      BY <2>4, NextTaskType
    <3>2. ShellOK' /\ pc' \in {"idle", "spawn", "reclaim"} /\ at' \in Nat
      BY <2>4, <3>1 DEF ShellOK
    <3> QED
      BY <2>2, <2>4, <3>1, <3>2, Untouched
  <2>5. CASE at' = at + 1 /\ UNCHANGED <<pc, who>> /\ UNCHANGED <<used, slots, task>>
    <3>1. at' \in Nat \ {0} /\ ShellOK'
      BY <1>1, <2>1, <2>5 DEF ShellOK
    <3> QED
      BY <2>1, <2>2, <2>5, <3>1, Untouched
  <2>6. CASE /\ at' = at + 1 /\ UNCHANGED <<pc, who>> /\ at <= Len(ReclaimList)
             /\ CanSwapOut(Mem(who), ReclaimList[at])
             /\ Store(who, swap_out(Mem(who), ReclaimList[at]))
    <3> DEFINE p == ReclaimList[at]
               n == swap_out(Mem(who), p)
    <3>1. p \in DataPages
      BY <2>1, <2>6, ListedPages
    <3>2. Good(Mem(who), win_pages)
      BY <2>1, MemGood
    <3> HIDE DEF p
    <3>3. Advance(Mem(who), n, win_pages)
      BY <2>6, <3>1, <3>2, SwapOutAdvance DEF p
    <3>4. Store(who, n)
      BY <2>6 DEF p
    <3> HIDE DEF n
    <3> QED
      BY <2>1, <2>2, <2>6, <3>3, <3>4, AdvanceInv
  <2> QED
    BY <1>3, <2>3, <2>4, <2>5, <2>6 DEF ReclaimStep
<1> QED
  BY <1>2, <1>3

\* model_invalidate_task on one record: what was resident is unmapped, and
\* nothing else changes.
LEMMA Invalidated ==
  ASSUME NEW k \in TaskRecord, NEW w \in 1..WinMax, KInv(k, w), NEW v \in 1..WinMax
  PROVE  LET l == model_invalidate_task(k) IN
         /\ l \in TaskRecord /\ KInv(l, v)
         /\ l.swap_map = k.swap_map /\ l.life = k.life
         /\ \A p \in DataPages : l.pte[p] = k.pte[p]
         /\ \A x \in Owners : \/ Held(l, x) = 0
                              \/ /\ Held(l, x) = Held(k, x)
                                 /\ \A g \in k.resident : x # ModelPage(g)
<1> DEFINE l == model_invalidate_task(k)
           P == [p \in Pages |-> IF \E g \in k.resident : p = ModelPage(g) THEN 0 ELSE k.pte[p]]
           F == [g \in DOMAIN k.model_frames |-> IF g \in k.resident THEN 0 ELSE k.model_frames[g]]
<1>1. l = [k EXCEPT !.pte = P, !.model_frames = F, !.resident = {},
                    !.weights = Refunded(k.weights, Cardinality(k.resident))]
  BY DEF model_invalidate_task
<1>2. /\ k.resident \subseteq 0..(WinMax - 1) /\ k.weights \in 0..(U32 - 1)
      /\ DOMAIN k.model_frames = 0..(WinMax - 1) /\ k.heap_pages \in 0..HeapMax
  BY DEF TaskRecord
<1>3. Refunded(k.weights, Cardinality(k.resident)) \in 0..(U32 - 1)
  <2>1. IsFiniteSet(0..(WinMax - 1))
    BY FS_Interval, PagingConstants DEF PagingConstants
  <2>2. Cardinality(k.resident) \in Nat
    BY <1>2, <2>1, FS_Subset, FS_CardinalityType
  <2> QED
    BY <1>2, <2>2, ChargeType
<1>4. P \in [Pages -> 0..NFrames] /\ F \in [0..(WinMax - 1) -> 0..NFrames]
  <2>1. k.pte \in [Pages -> 0..NFrames] /\ k.model_frames \in [0..(WinMax - 1) -> 0..NFrames]
    BY DEF TaskRecord
  <2> QED
    BY <1>2, <2>1, Zeros
<1>5. \A p \in Pages : P[p] = IF \E g \in k.resident : p = ModelPage(g) THEN 0 ELSE k.pte[p]
  OBVIOUS
<1> SUFFICES /\ l \in TaskRecord /\ KInv(l, v)
             /\ l.swap_map = k.swap_map /\ l.life = k.life
             /\ \A p \in DataPages : l.pte[p] = k.pte[p]
             /\ \A x \in Owners : \/ Held(l, x) = 0
                                  \/ /\ Held(l, x) = Held(k, x)
                                     /\ \A g \in k.resident : x # ModelPage(g)
  OBVIOUS
<1> HIDE DEF l, P, F
<1>6. /\ l \in TaskRecord
      /\ l.swap_map = k.swap_map /\ l.life = k.life /\ l.pte = P /\ l.resident = {}
      /\ l.tbl = k.tbl /\ l.cr3 = k.cr3 /\ l.heap_pages = k.heap_pages
  BY <1>1, <1>3, <1>4 DEF TaskRecord
<1>7. \A p \in DataPages : l.pte[p] = k.pte[p]
  BY <1>2, <1>5, <1>6, PageKinds, OwnerKinds
<1>8. \A g \in 0..(WinMax - 1) : /\ l.pte[ModelPage(g)] = 0
                                 /\ k.swap_map[ModelPage(g)] = 0
  BY <1>5, <1>6, PageKinds DEF KInv, KModel
<1>9. KInv(l, v)
  <2>1. KBacked(l) /\ KTables(l) /\ KDead(l)
    BY <1>5, <1>6 DEF KInv, KBacked, KTables, KDead
  <2>2. KHeap(l)
    <3>1. ASSUME NEW i \in k.heap_pages..(HeapMax - 1)
          PROVE  <<"heap", i>> \in DataPages
      <4>1. i \in 0..(HeapMax - 1)
        BY <1>2, PagingConstants DEF PagingConstants
      <4> QED
        BY <4>1, HeapPage
    <3> QED
      BY <1>6, <1>7, <3>1 DEF KInv, KHeap
  <2>3. KModel(l, v)
    BY <1>6, <1>8 DEF KModel
  <2> QED
    BY <2>1, <2>2, <2>3 DEF KInv
<1>10. ASSUME NEW x \in Owners
       PROVE  \/ Held(l, x) = 0
              \/ /\ Held(l, x) = Held(k, x)
                 /\ \A g \in k.resident : x # ModelPage(g)
  <2>1. CASE x = <<"cr3", 0>>
    BY <1>2, <1>6, <2>1, HeldBy, OwnerKinds, PageKinds
  <2>2. CASE \E i \in Tables : x = <<"table", i>>
    BY <1>2, <1>6, <2>2, HeldBy, OwnerKinds, PageKinds
  <2>3. CASE x \in DataPages
    BY <1>2, <1>7, <2>3, HeldBy, OwnerKinds
  <2>4. CASE \E g \in 0..(WinMax - 1) : x = ModelPage(g)
    BY <1>6, <1>8, <2>4, HeldBy
  <2> QED
    BY <2>1, <2>2, <2>3, <2>4, OwnerKinds
<1> QED
  BY <1>3, <1>6, <1>7, <1>9, <1>10

LEMMA ModelRebuildInv ==
  ASSUME IInv, NEW w \in 1..WinMax, ModelRebuild(w)
  PROVE  IInv' /\ Promised
<1> DEFINE gone == UNION {InvalidatedFrames(task[t]) : t \in Tasks}
<1>1. /\ TypeOK /\ FramesOwned /\ SlotsOwned /\ ShellOK
      /\ \A t \in Tasks : task[t] \in TaskRecord /\ KInv(task[t], win_pages)
      /\ win_pages \in 1..WinMax
  BY DEF IInv, TypeOK
<1>2. /\ used' = used \ gone /\ win_pages' = w /\ slots' = slots /\ pc = "idle"
      /\ UNCHANGED <<pc, who, at, spawns, panicked>>
      /\ DOMAIN task' = Tasks
      /\ task' = [t \in Tasks |-> task'[t]]
      /\ \A t \in Tasks : task'[t] = model_invalidate_task(task[t])
  BY DEF ModelRebuild, Idle
<1>3. \A t \in Tasks :
        /\ task'[t] \in TaskRecord /\ KInv(task'[t], w)
        /\ task'[t].swap_map = task[t].swap_map /\ task'[t].life = task[t].life
        /\ \A p \in DataPages : task'[t].pte[p] = task[t].pte[p]
        /\ \A x \in Owners : \/ Held(task'[t], x) = 0
                             \/ /\ Held(task'[t], x) = Held(task[t], x)
                                /\ \A g \in task[t].resident : x # ModelPage(g)
  BY <1>1, <1>2, Invalidated
<1>4. ASSUME NEW t \in Tasks, NEW x \in Owners, Held(task'[t], x) # 0
      PROVE  Held(task'[t], x) \in used \ gone /\ Held(task'[t], x) = Held(task[t], x)
  <2>1. Held(task'[t], x) = Held(task[t], x) /\ \A g \in task[t].resident : x # ModelPage(g)
    BY <1>3, <1>4
  <2>2. Held(task[t], x) \in used
    BY <1>1, <1>4, <2>1 DEF FramesOwned
  <2>3. ASSUME NEW u \in Tasks, NEW g \in task[u].resident,
               Held(task[t], x) = task[u].model_frames[g]
        PROVE  FALSE
    <3>1. g \in 0..(WinMax - 1)
      BY <1>1 DEF TaskRecord
    <3>2. ModelPage(g) \in Owners /\ Held(task[u], ModelPage(g)) = task[u].model_frames[g]
      BY <3>1, HeldBy
    <3>3. t = u /\ x = ModelPage(g)
      BY <1>1, <1>4, <2>1, <2>3, <3>2 DEF FramesOwned
    <3> QED
      BY <2>1, <3>3
  <2>4. Held(task[t], x) \notin gone
    BY <2>3 DEF InvalidatedFrames
  <2> QED
    BY <2>1, <2>2, <2>4
<1> HIDE DEF gone
<1>5. FramesOwned'
  <2>1. \A t \in Tasks, x \in Owners : Held(task'[t], x) # 0 => Held(task'[t], x) \in used'
    BY <1>2, <1>4
  <2>2. ASSUME NEW t \in Tasks, NEW u \in Tasks, NEW x \in Owners, NEW y \in Owners,
               Held(task'[t], x) # 0, Held(task'[t], x) = Held(task'[u], y)
        PROVE  t = u /\ x = y
    <3>1. Held(task'[t], x) = Held(task[t], x) /\ Held(task'[u], y) = Held(task[u], y)
      BY <1>4, <2>2
    <3>2. Held(task[t], x) # 0 /\ Held(task[t], x) = Held(task[u], y)
      BY <2>2, <3>1
    <3>3. FramesOwned
      BY <1>1
    <3> QED
      BY <3>2, <3>3 DEF FramesOwned
  <2> QED
    BY <2>1, <2>2 DEF FramesOwned, Held, Owners
<1>6. SlotsOwned'
  BY <1>1, <1>2, <1>3 DEF SlotsOwned
<1>7. TypeOK'
  <2>1. task' \in [Tasks -> TaskRecord]
    BY <1>2, <1>3
  <2> QED
    BY <1>1, <1>2, <2>1 DEF TypeOK
<1>8. ShellOK'
  BY <1>2 DEF ShellOK
<1>9. Promised
  BY <1>3 DEF Promised, KeepsPages, Backed
<1> QED
  BY <1>2, <1>3, <1>5, <1>6, <1>7, <1>8, <1>9 DEF IInv

\* System calls, faults and the end of a task.
LEMMA UserInv ==
  ASSUME IInv, DataOnly, NEW t \in Tasks, User(t)
  PROVE  IInv' /\ Promised
<1> DEFINE m == Mem(t)
<1>1. /\ Good(m, win_pages) /\ m \in MemType /\ m.k = task[t] /\ m.used = used /\ m.slots = slots
      /\ win_pages \in 1..WinMax
  BY MemGood
<1>2. /\ pc \in {"idle", "spawn", "reclaim"} /\ who \in Tasks \union {0} /\ at \in Nat
      /\ spawns \in 0..MaxSpawns /\ panicked \in BOOLEAN /\ ShellOK
      /\ task[t] \in TaskRecord /\ task \in [Tasks -> TaskRecord]
  BY DEF IInv, TypeOK
<1>3. Runs(t) => pc = "idle" /\ m.k.life = "live"
  BY <1>1 DEF Runs, Idle
<1>5. ASSUME NEW n, Store(t, n), Advance(m, n, win_pages), Runs(t),
             UNCHANGED <<win_pages, pc, who, at, spawns, panicked>>
      PROVE  IInv' /\ Promised
  BY <1>2, <1>3, <1>5, AdvanceInv
<1>6. ASSUME NEW l \in TaskRecord, Runs(t), task' = [task EXCEPT ![t] = l],
             UNCHANGED <<used, slots, win_pages, pc, who, at, spawns, panicked>>,
             l.life = m.k.life, l.cr3 = m.k.cr3, l.tbl = m.k.tbl, l.pte = m.k.pte,
             l.swap_map = m.k.swap_map, l.heap_pages = m.k.heap_pages,
             l.frames_n = m.k.frames_n, l.model_frames = m.k.model_frames,
             l.resident = m.k.resident
      PROVE  IInv' /\ Promised
  <2> DEFINE n == [m EXCEPT !.k = l]
  <2>1. KDead(l)
    BY <1>3, <1>6 DEF KDead
  <2>3. Step(m, n, win_pages) /\ n.k = l /\ n.used = m.used /\ n.slots = m.slots
    BY <1>1, <1>6, <2>1, RelabelStep
  <2>4. Store(t, n)
    BY <1>1, <1>6, <2>3 DEF Store
  <2>5. KeepsPages(task[t], n.k)
    BY <1>1, <1>6, <2>3 DEF KeepsPages, Backed
  <2> HIDE DEF n, m
  <2> QED
    BY <1>2, <1>3, <1>6, <2>3, <2>4, <2>5, StoreInv DEF m
<1>7. CASE sched_exit_user(t)
  <2> DEFINE n == [vmm_free_address_space(swap_exit_task(model_exit_task(m))) EXCEPT !.k.life = "zombie"]
  <2>1. Step(m, n, win_pages) /\ n.k.life = "zombie"
    BY <1>1, ExitStep
  <2>2. Store(t, n) /\ UNCHANGED <<win_pages, pc, who, at, spawns, panicked>> /\ Runs(t)
    BY <1>7 DEF sched_exit_user
  <2> HIDE DEF n
  <2> QED
    BY <1>1, <1>2, <1>3, <2>1, <2>2, StoreInv
<1>8. CASE SysAlloc(t)
  <2> DEFINE n == [MapNew(m, <<"heap", m.k.heap_pages>>) EXCEPT !.k.heap_pages = @ + 1]
  <2>1. /\ Store(t, n) /\ UNCHANGED <<win_pages, pc, who, at, spawns, panicked>> /\ Runs(t)
        /\ m.k.heap_pages < HeapMax /\ ~Exhausted(m)
    BY <1>1, <1>8 DEF SysAlloc
  <2>2. Advance(m, n, win_pages)
    BY <1>1, <1>3, <2>1, AllocAdvance
  <2> HIDE DEF n
  <2> QED
    BY <1>5, <2>1, <2>2
<1>9. CASE \E p \in SwapOutPages : SysSwapOut(t, p)
  <2>1. PICK p \in SwapOutPages : SysSwapOut(t, p)
    BY <1>9
  <2> DEFINE n == swap_out(m, p)
  <2>2. /\ Store(t, n) /\ UNCHANGED <<win_pages, pc, who, at, spawns, panicked>> /\ Runs(t)
        /\ CanSwapOut(m, p) /\ p \in DataPages
    BY <2>1 DEF SysSwapOut, DataOnly
  <2>3. Advance(m, n, win_pages)
    BY <1>1, <2>2, SwapOutAdvance
  <2> HIDE DEF n
  <2> QED
    BY <1>5, <2>2, <2>3
<1>10. CASE \E b \in Budgets : SysModelBudget(t, b)
  <2>1. PICK b \in Budgets : SysModelBudget(t, b)
    BY <1>10
  <2> DEFINE l == [task[t] EXCEPT !.budget = b]
  <2>2. b \in 0..(U32 - 1)
    BY PagingConstants DEF PagingConstants
  <2>3. /\ l \in TaskRecord /\ l.life = m.k.life /\ l.cr3 = m.k.cr3 /\ l.tbl = m.k.tbl
        /\ l.pte = m.k.pte /\ l.swap_map = m.k.swap_map /\ l.heap_pages = m.k.heap_pages
        /\ l.frames_n = m.k.frames_n /\ l.model_frames = m.k.model_frames
        /\ l.resident = m.k.resident
    BY <1>1, <1>2, <2>2 DEF TaskRecord
  <2>4. /\ task' = [task EXCEPT ![t] = l] /\ Runs(t)
        /\ UNCHANGED <<used, slots, win_pages, pc, who, at, spawns, panicked>>
    BY <2>1 DEF SysModelBudget
  <2> HIDE DEF l, m
  <2> QED
    BY <1>6, <2>3, <2>4
<1>11. CASE \E a \in CommitArgs : SysModelCommit(t, a)
  <2>1. PICK a \in CommitArgs : SysModelCommit(t, a)
    BY <1>11
  <2> DEFINE c == Charged(task[t].weights, a)
             l == [task[t] EXCEPT !.weights = c]
  <2>2. c \in 0..(U32 - 1)
    <3>1. a \in Nat
      BY PagingConstants DEF PagingConstants
    <3>2. task[t].weights \in 0..(U32 - 1)
      BY <1>2 DEF TaskRecord
    <3> QED
      BY <3>1, <3>2, ChargeType
  <2>3. /\ task' = [task EXCEPT ![t] = l] /\ Runs(t)
        /\ UNCHANGED <<used, slots, win_pages, pc, who, at, spawns, panicked>>
    BY <2>1 DEF SysModelCommit
  <2> HIDE DEF c
  <2>4. /\ l \in TaskRecord /\ l.life = m.k.life /\ l.cr3 = m.k.cr3 /\ l.tbl = m.k.tbl
        /\ l.pte = m.k.pte /\ l.swap_map = m.k.swap_map /\ l.heap_pages = m.k.heap_pages
        /\ l.frames_n = m.k.frames_n /\ l.model_frames = m.k.model_frames
        /\ l.resident = m.k.resident
    BY <1>1, <1>2, <2>2 DEF TaskRecord
  <2> HIDE DEF l, m
  <2> QED
    BY <1>6, <2>3, <2>4
<1>12. CASE \E g \in 0..(WinMax - 1) : SysModelTouch(t, g)
  <2>1. PICK g \in 0..(WinMax - 1) : SysModelTouch(t, g)
    BY <1>12
  <2> DEFINE o == model_ensure_task(m)
             n == IF Handled(o, g) THEN DemandFault(o, g) ELSE o
  <2>2. Store(t, n) /\ UNCHANGED <<win_pages, pc, who, at, spawns, panicked>> /\ Runs(t)
    BY <2>1 DEF SysModelTouch
  <2>3. Advance(m, o, win_pages) /\ o.k.frames_n >= win_pages
    BY <1>1, <1>3, <2>2, EnsureAdvance
  <2> HIDE DEF o
  <2>4. Good(o, win_pages) /\ o.k.life = "live"
    BY <2>3, AdvanceGood
  <2>5. Advance(m, n, win_pages)
    <3>1. CASE Handled(o, g)
      <4>1. Advance(o, n, win_pages)
        BY <1>1, <2>3, <2>4, <3>1, DemandAdvance
      <4> QED
        BY <1>1, <2>3, <4>1, AdvanceTwice
    <3>2. CASE ~Handled(o, g)
      BY <2>3, <3>2
    <3> QED
      BY <3>1, <3>2
  <2> HIDE DEF n
  <2> QED
    BY <1>5, <2>2, <2>5
<1>13. CASE \E g \in 0..(WinMax - 1) : SysModelEvict(t, g)
  <2>1. PICK g \in 0..(WinMax - 1) : SysModelEvict(t, g)
    BY <1>13
  <2> DEFINE n == model_evict_page(m, g)
  <2>2. /\ Store(t, n) /\ UNCHANGED <<win_pages, pc, who, at, spawns, panicked>> /\ Runs(t)
        /\ g \in m.k.resident
    BY <1>1, <2>1 DEF SysModelEvict
  <2>3. Advance(m, n, win_pages)
    BY <1>1, <1>3, <2>2, EvictAdvance
  <2> HIDE DEF n
  <2> QED
    BY <1>5, <2>2, <2>3
<1>14. CASE \E p \in Pages : FaultSwapIn(t, p)
  <2>1. PICK p \in Pages : FaultSwapIn(t, p)
    BY <1>14
  <2> DEFINE o == swap_in(m, p)
  <2>2. CanSwapIn(m, p) /\ UNCHANGED <<win_pages, pc, who, at, spawns, panicked>> /\ Runs(t)
    BY <2>1 DEF FaultSwapIn
  <2>10. PICK q \in Pages : \E n \in Prefetched(o, q) : Store(t, n)
    BY <2>1 DEF FaultSwapIn
  <2>3. PICK n \in Prefetched(o, q) : Store(t, n)
    BY <2>10
  <2>4. Advance(m, o, win_pages)
    BY <1>1, <2>2, SwapInAdvance
  <2> HIDE DEF o
  <2>5. Good(o, win_pages) /\ o.k.life = "live"
    BY <2>4, AdvanceGood
  <2>6. Advance(o, n, win_pages)
    BY <2>5, PrefetchAdvance
  <2>7. Advance(m, n, win_pages)
    BY <1>1, <2>4, <2>6, AdvanceTwice
  <2> QED
    BY <1>5, <2>2, <2>3, <2>7
<1>15. CASE \E g \in 0..(WinMax - 1) : FaultModel(t, g)
  <2>1. PICK g \in 0..(WinMax - 1) : FaultModel(t, g)
    BY <1>15
  <2> DEFINE o == model_ensure_task(m)
             r == DemandFault(o, g)
  <2>2. Handled(o, g) /\ UNCHANGED <<win_pages, pc, who, at, spawns, panicked>> /\ Runs(t)
    BY <2>1 DEF FaultModel
  <2>10. PICK q \in Pages : \E n \in ModelPrefetched(r, q) : Store(t, n)
    BY <2>1 DEF FaultModel
  <2>3. PICK n \in ModelPrefetched(r, q) : Store(t, n)
    BY <2>10
  <2>4. Advance(m, o, win_pages) /\ o.k.frames_n >= win_pages
    BY <1>1, <1>3, <2>2, EnsureAdvance
  <2> HIDE DEF o
  <2>5. Good(o, win_pages) /\ o.k.life = "live"
    BY <2>4, AdvanceGood
  <2>6. Advance(o, r, win_pages)
    BY <1>1, <2>2, <2>4, <2>5, DemandAdvance
  <2> HIDE DEF r
  <2>7. Good(r, win_pages) /\ r.k.life = "live"
    BY <2>6, AdvanceGood
  <2>8. Advance(r, n, win_pages)
    BY <1>1, <2>7, ModelPrefetchAdvance
  <2>9. Advance(m, n, win_pages)
    BY <1>1, <2>4, <2>5, <2>6, <2>8, AdvanceTwice
  <2> QED
    BY <1>5, <2>2, <2>3, <2>9
<1>16. CASE \E p \in DataPages : SysPutsFault(t, p)
  BY <1>2, <1>16, Untouched DEF SysPutsFault, ShellOK, IInv, TypeOK
<1> QED
  BY <1>7, <1>8, <1>9, <1>10, <1>11, <1>12, <1>13, <1>14, <1>15, <1>16 DEF User

-----------------------------------------------------------------------------
(* The theorems *)

LEMMA InitIInv ==
  ASSUME Init
  PROVE  IInv
<1>1. Cleared \in TaskRecord
  BY PagingConstants DEF Cleared, TaskRecord, PagingConstants
<1>2. \A t \in Tasks : task[t] = Cleared
  BY DEF Init
<1>3. /\ Cleared.life = "unused" /\ Cleared.cr3 = 0 /\ \A x \in Tables : Cleared.tbl[x] = 0
      /\ \A p \in Pages : Cleared.pte[p] = 0 /\ Cleared.swap_map[p] = 0
      /\ Cleared.heap_pages = 0 /\ Cleared.resident = {}
  BY DEF Cleared
<1>4. \A x \in Owners : Held(Cleared, x) = 0
  <2> TAKE x \in Owners
  <2>1. CASE x = <<"cr3", 0>>
    BY <1>3, <2>1, HeldBy
  <2>2. CASE \E i \in Tables : x = <<"table", i>>
    BY <1>3, <2>2, HeldBy
  <2>3. CASE x \in DataPages
    BY <1>3, <2>3, HeldBy, PageKinds
  <2>4. CASE \E g \in 0..(WinMax - 1) : x = ModelPage(g)
    BY <1>3, <2>4, HeldBy, PageKinds
  <2> QED
    BY <2>1, <2>2, <2>3, <2>4, OwnerKinds
<1>5. TypeOK
  <2>1. 0 \in 0..MaxSpawns
    BY PagingConstants DEF PagingConstants
  <2>2. task \in [Tasks -> TaskRecord]
    BY <1>1 DEF Init
  <2> HIDE DEF Cleared
  <2> QED
    BY <2>1, <2>2 DEF Init, TypeOK
<1>6. FramesOwned
  BY <1>2, <1>4 DEF FramesOwned
<1>7. SlotsOwned
  BY <1>2, <1>3 DEF SlotsOwned, Init
<1>8. ASSUME NEW w \in 1..WinMax
      PROVE  KInv(Cleared, w)
  <2>1. KBacked(Cleared) /\ KTables(Cleared) /\ KDead(Cleared)
    BY <1>3 DEF KBacked, KTables, KDead
  <2>2. KHeap(Cleared)
    BY <1>3, HeapPage DEF KHeap
  <2>3. KModel(Cleared, w)
    BY <1>3, PageKinds DEF KModel
  <2> QED
    BY <2>1, <2>2, <2>3 DEF KInv
<1>9. \A t \in Tasks : KInv(task[t], win_pages)
  BY <1>2, <1>8 DEF Init
<1>10. ShellOK
  BY DEF Init, ShellOK
<1> QED
  BY <1>5, <1>6, <1>7, <1>9, <1>10 DEF IInv

LEMMA NextIInv ==
  ASSUME DataOnly, IInv, [Next]_vars
  PROVE  IInv' /\ Promised
<1>1. CASE \E t \in Tasks : SpawnClaim(t)
  BY <1>1, SpawnClaimInv
<1>2. CASE SpawnPage
  BY <1>2, SpawnPageInv
<1>3. CASE SpawnPublish
  BY <1>3, SpawnPublishInv
<1>4. CASE ReclaimStart \/ ReclaimStep
  BY <1>4, ReclaimInv
<1>5. CASE \E w \in 1..WinMax : ModelRebuild(w)
  BY <1>5, ModelRebuildInv
<1>6. CASE \E t \in Tasks : User(t)
  BY <1>6, UserInv
<1>7. CASE UNCHANGED vars
  <2>1. UNCHANGED <<used, slots, task, win_pages, pc, who, at, spawns, panicked>>
    BY <1>7 DEF vars
  <2> QED
    BY <2>1, Untouched DEF IInv, TypeOK, ShellOK
<1> QED
  BY <1>1, <1>2, <1>3, <1>4, <1>5, <1>6, <1>7 DEF Next, Shell

\* Whatever spawn, swap, the model window and exit do in whatever order, and
\* however short memory is, the bookkeeping of user memory stays in order.
THEOREM MemoryInvariant ==
  ASSUME DataOnly
  PROVE  Spec => []IInv
<1>1. Init => IInv
  BY InitIInv
<1>2. IInv /\ [Next]_vars => IInv'
  BY NextIInv
<1> QED
  BY <1>1, <1>2, PTL DEF Spec

\* Each frame that a page table, a mapped page or a model array refers to is
\* marked used in pmm.c's bitmap and has that one owner, so that
\* vmm_free_address_space, swap_out, model_evict_page and
\* model_invalidate_all free no frame of anybody else, for any number of
\* tasks and frames.
THEOREM FramesHaveOneOwner ==
  ASSUME DataOnly
  PROVE  Spec => []FramesExclusive
<1>1. ASSUME IInv PROVE FramesExclusive
  <2> DEFINE S == {o \in Tasks \X Owners : Held(task[o[1]], o[2]) # 0}
             F == [o \in S |-> Held(task[o[1]], o[2])]
             H == {Held(task[o[1]], o[2]) : o \in S}
  <2>1. FramesOwned /\ TypeOK /\ used \subseteq Frames
    BY <1>1 DEF IInv, TypeOK
  <2>2. IsFiniteSet(Frames)
    BY FS_Interval, PagingConstants DEF Frames, PagingConstants
  <2>3. ASSUME NEW o \in S
        PROVE  o[1] \in Tasks /\ o[2] \in Owners /\ o = <<o[1], o[2]>> /\ Held(task[o[1]], o[2]) # 0
    OBVIOUS
  <2>4. \A o \in S : Held(task[o[1]], o[2]) \in used
    BY <2>1, <2>3 DEF FramesOwned
  <2>5. ASSUME NEW o \in S, NEW q \in S, Held(task[o[1]], o[2]) = Held(task[q[1]], q[2])
        PROVE  o = q
    <3>1. o[1] = q[1] /\ o[2] = q[2]
      BY <2>1, <2>3, <2>5 DEF FramesOwned
    <3> QED
      BY <2>3, <3>1
  <2>6. F \in [S -> Frames] /\ \A o \in S : F[o] = Held(task[o[1]], o[2])
    BY <2>1, <2>4
  <2>7. H = {F[o] : o \in S}
    BY <2>6
  <2>8. \A o, q \in S : F[o] = F[q] => o = q
    BY <2>5, <2>6
  <2>9. Cardinality(H) = Cardinality(S)
    <3> HIDE DEF S, F, H
    <3> QED
      BY <2>2, <2>6, <2>7, <2>8, ImageCount
  <2>10. H \subseteq used
    BY <2>4
  <2> QED
    BY <2>1, <2>9, <2>10 DEF FramesExclusive
<1>2. Spec => []IInv
  BY MemoryInvariant
<1> QED
  BY <1>1, <1>2, PTL

\* swap.c's slot bitmap marks exactly the slots that the swap maps name, each
\* for one page of one task: swap_exit_task and swap_in lose none.
THEOREM SlotsHaveOneOwner ==
  ASSUME DataOnly
  PROVE  Spec => []SlotsExact
<1>1. ASSUME IInv PROVE SlotsExact
  <2> DEFINE S == {o \in Tasks \X Pages : task[o[1]].swap_map[o[2]] # 0}
             F == [o \in S |-> task[o[1]].swap_map[o[2]]]
             H == {task[o[1]].swap_map[o[2]] : o \in S}
  <2>1. SlotsOwned /\ slots \subseteq SlotNums /\ 0 \notin slots
    BY <1>1 DEF IInv, TypeOK, SlotNums
  <2>2. IsFiniteSet(SlotNums)
    BY FS_Interval, PagingConstants DEF SlotNums, PagingConstants
  <2>3. ASSUME NEW o \in S
        PROVE  o[1] \in Tasks /\ o[2] \in Pages /\ o = <<o[1], o[2]>> /\ task[o[1]].swap_map[o[2]] # 0
    OBVIOUS
  <2>4. \A o \in S : task[o[1]].swap_map[o[2]] \in slots
    BY <2>1, <2>3 DEF SlotsOwned
  <2>5. ASSUME NEW o \in S, NEW q \in S, task[o[1]].swap_map[o[2]] = task[q[1]].swap_map[q[2]]
        PROVE  o = q
    <3>1. o[1] = q[1] /\ o[2] = q[2]
      BY <2>1, <2>3, <2>5 DEF SlotsOwned
    <3> QED
      BY <2>3, <3>1
  <2>6. F \in [S -> SlotNums] /\ \A o \in S : F[o] = task[o[1]].swap_map[o[2]]
    BY <2>1, <2>4
  <2>7. H = {F[o] : o \in S}
    BY <2>6
  <2>8. \A o, q \in S : F[o] = F[q] => o = q
    BY <2>5, <2>6
  <2>9. Cardinality(H) = Cardinality(S)
    <3> HIDE DEF S, F, H
    <3> QED
      BY <2>2, <2>6, <2>7, <2>8, ImageCount
  <2>10. ASSUME NEW s \in slots
         PROVE  s \in H
    <3>1. PICK t \in Tasks, p \in Pages : task[t].swap_map[p] = s
      BY <2>1 DEF SlotsOwned
    <3>2. <<t, p>> \in S /\ <<t, p>>[1] = t /\ <<t, p>>[2] = p
      BY <2>1, <3>1
    <3> QED
      BY <3>1, <3>2
  <2>11. slots = H
    BY <2>4, <2>10
  <2> QED
    BY <2>9, <2>11 DEF SlotsExact
<1>2. Spec => []IInv
  BY MemoryInvariant
<1> QED
  BY <1>1, <1>2, PTL

\* No page is mapped and in swap at once, so that a swap_in never puts old
\* bytes over newer ones.
THEOREM PagesBackedOnce ==
  ASSUME DataOnly
  PROVE  Spec => []BackedOnce
<1>1. IInv => BackedOnce
  BY DEF IInv, KInv, KBacked, BackedOnce
<1> QED
  BY <1>1, MemoryInvariant, PTL

\* model.c: a mapped model page is recorded as resident with the same frame,
\* inside the window and the arrays, whatever the budget and the charge say
\* (both are u32 and wrap).
THEOREM ModelWindowCoherent ==
  ASSUME DataOnly
  PROVE  Spec => []ModelCoherent
<1>1. IInv => ModelCoherent
  BY DEF IInv, KInv, KModel, ModelCoherent
<1> QED
  BY <1>1, MemoryInvariant, PTL

\* Swapping out under memory pressure and swapping back in on a fault never
\* lose a page of a task that stays alive: the page table above a swapped-out
\* page stays, so that vmm_map in swap_in cannot fail.
THEOREM NoPageLost ==
  ASSUME DataOnly
  PROVE  Spec => PagesKept
<1>1. IInv /\ [Next]_vars =>
        [\A t \in Tasks, p \in DataPages :
           Live(t) /\ Live(t)' /\ Backed(task[t], p) => Backed(task'[t], p)]_vars
  BY NextIInv DEF Promised, KeepsPages, Live
<1> QED
  BY <1>1, MemoryInvariant, PTL DEF Spec, PagesKept
=============================================================================
