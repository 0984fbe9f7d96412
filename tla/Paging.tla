------------------------------- MODULE Paging -------------------------------
(***************************************************************************)
(* User memory of NO_OS: the frame allocator (mm/pmm.c), the page tables   *)
(* (mm/vmm.c), swap (mm/swap.c) and the demand-paged model window          *)
(* (mm/model.c), driven by sched_spawn and sched_exit_user (kern/sched.c), *)
(* the memory system calls (arch/x86_64/syscall.c) and the page-fault      *)
(* dispatcher (arch/x86_64/isr.c).                                         *)
(*                                                                         *)
(* System calls and faults run with interrupts disabled and are atomic.    *)
(* The shell's loops (spawn, reclaim) take one step per page; no process   *)
(* runs while the shell is in one of them, because the timer switches      *)
(* tasks only when a user task is current.                                 *)
(*                                                                         *)
(* Frames that the kernel heap takes are never given back, so they are     *)
(* simply not among the frames here; kmalloc either succeeds or fails.     *)
(***************************************************************************)
EXTENDS Naturals, Sequences, FiniteSets

CONSTANTS
  Tasks,        \* the user slots of the task table, a set of numbers
  NFrames,      \* frames of the pool
  NSlots,       \* page slots of the swap region
  SWAP_MAX_PER_TASK,
  Low,          \* low watermark of swap_reclaim (total_frames / 25)
  ImagePages, ScriptPages, StackPages, HeapMax, \* pages of each user region
  WinMax,       \* largest model window
  DefaultBudget,\* model budget of a new task, in pages (8192 KB)
  Budgets,      \* the budgets programs ask for, in pages
  CommitArgs,   \* the numbers of pages programs commit, as u64
  U32, U64,     \* values of a u32 and a u64 number of KB, in pages
                \* (2^30 and 2^62)
  SwapOutPages, \* the pages programs ask to swap out
  MaxSpawns     \* bound on the calls of sched_spawn

Frames == 1..NFrames
SlotNums == 1..NSlots

\* A page is named by its region and its index there.  Each region lies in
\* one 2 MiB page table; all of them are in PML4[2], the image under the
\* first page directory and the rest under the fourth.
Region(r, n) == {<<r, i>> : i \in 0..(n - 1)}
HeapPages  == Region("heap", HeapMax)
ModelPages == Region("model", WinMax)
DataPages  == Region("image", ImagePages) \union Region("script", ScriptPages)
                \union Region("stack", StackPages) \union HeapPages
Pages == DataPages \union ModelPages

Tables == {"pdpt", "pd0", "pd3", "image", "script", "stack", "heap", "model"}
PdOf(p) == IF p[1] = "image" THEN "pd0" ELSE "pd3"
PtOf(p) == p[1]

\* The pages that sched_spawn maps and that reclaim_task tries, in order.
PagesOf(r, n) == [i \in 1..n |-> <<r, i - 1>>]
SpawnList == PagesOf("image", ImagePages) \o PagesOf("script", ScriptPages)
               \o PagesOf("stack", StackPages)
ReclaimList == PagesOf("script", ScriptPages) \o PagesOf("stack", StackPages)
                 \o PagesOf("heap", HeapMax)

ASSUME PagingConstants ==
  /\ Tasks \subseteq Nat \ {0}
  /\ NFrames \in Nat /\ NSlots \in Nat /\ SWAP_MAX_PER_TASK \in Nat
  /\ Low \in Nat /\ HeapMax \in Nat
  /\ U32 \in Nat \ {0} /\ U64 \in Nat \ {0}
  /\ DefaultBudget \in 0..(U32 - 1)
  /\ ImagePages \in Nat /\ ScriptPages \in Nat /\ StackPages \in Nat
  /\ WinMax \in Nat \ {0}
  /\ Budgets \subseteq 0..(U32 - 1)
  /\ CommitArgs \subseteq 0..(U64 - 1)
  /\ SwapOutPages \subseteq Pages
  /\ MaxSpawns \in Nat

VARIABLES
  used,      \* the frame bitmap: frames in use (free_frames counts the rest)
  slots,     \* the swap slot bitmap
  task,      \* the memory of each user task, see TaskRecord
  win_pages, \* current model window
  pc, who, at, \* the shell: "idle" (reading keys), "spawn" or "reclaim", the
               \* task it works on and its place in SpawnList / ReclaimList
  spawns,    \* calls of sched_spawn so far
  panicked   \* isr_panic was called

vars == <<used, slots, task, win_pages, pc, who, at, spawns, panicked>>

\* The fields of task_t and the page tables its cr3 leads to (0: not
\* present).  cr3 includes the address space that sched_spawn is building.
\* weights and budget count 4 KB pages.
TaskRecord ==
  [life: {"unused", "live", "zombie"}, cr3: 0..NFrames,
   tbl: [Tables -> 0..NFrames], pte: [Pages -> 0..NFrames],
   swap_map: [Pages -> 0..NSlots], heap_pages: 0..HeapMax,
   frames_n: 0..WinMax, model_frames: [0..(WinMax - 1) -> 0..NFrames],
   resident: SUBSET (0..(WinMax - 1)), weights: 0..(U32 - 1),
   budget: 0..(U32 - 1)]

TypeOK ==
  /\ used \subseteq Frames
  /\ slots \subseteq SlotNums
  /\ task \in [Tasks -> TaskRecord]
  /\ win_pages \in 1..WinMax
  /\ pc \in {"idle", "spawn", "reclaim"}
  /\ who \in Tasks \union {0}
  /\ at \in Nat
  /\ spawns \in 0..MaxSpawns
  /\ panicked \in BOOLEAN

\* A slot after the memset of sched_spawn.
Cleared ==
  [life |-> "unused", cr3 |-> 0, tbl |-> [x \in Tables |-> 0],
   pte |-> [p \in Pages |-> 0], swap_map |-> [p \in Pages |-> 0], heap_pages |-> 0, frames_n |-> 0,
   model_frames |-> [g \in 0..(WinMax - 1) |-> 0], resident |-> {},
   weights |-> 0, budget |-> DefaultBudget]

-----------------------------------------------------------------------------
(* The operations below transform m = [used, slots, k]: the two bitmaps and
   the record k of the task concerned. *)

Mem(t) == [used |-> used, slots |-> slots, k |-> task[t]]

Store(t, m) ==
  /\ used' = m.used
  /\ slots' = m.slots
  /\ task' = [task EXCEPT ![t] = m.k]

(* pmm.c *)
Exhausted(m) == Frames \subseteq m.used

\* pmm_alloc_frame: the first free frame.
NewFrame(m) == CHOOSE f \in Frames \ m.used : \A g \in Frames \ m.used : f <= g

Avail(m) == Cardinality(Frames \ m.used)

(* vmm.c *)
pt_new(m, x) ==
  IF m.k.tbl[x] # 0 \/ Exhausted(m) THEN m
  ELSE [m EXCEPT !.k.tbl[x] = NewFrame(m), !.used = @ \union {NewFrame(m)}]

\* vmm_map returns silently when a table cannot be allocated.
vmm_map(m, p, f) ==
  LET n == pt_new(pt_new(pt_new(m, "pdpt"), PdOf(p)), PtOf(p)) IN
  IF n.k.tbl[PtOf(p)] = 0 THEN n ELSE [n EXCEPT !.k.pte[p] = f]

\* Mutant of MapNew: the frame is not marked before the tables are allocated.
MapNew_LateMark(m, p) ==
  LET f == NewFrame(m)
      n == vmm_map(m, p, f)
  IN [n EXCEPT !.used = @ \union {f}]

\* Allocate a frame and map it at p.
MapNew(m, p) ==
  LET f == NewFrame(m) IN vmm_map([m EXCEPT !.used = @ \union {f}], p, f)

TreeFrames(k) ==
  {k.tbl[x] : x \in Tables} \union {k.pte[p] : p \in Pages} \union {k.cr3}

\* vmm_free_address_space: an empty user tree is left alone, its PML4 too.
vmm_free_address_space(m) ==
  [m EXCEPT !.used = IF m.k.tbl["pdpt"] = 0 THEN @ ELSE @ \ TreeFrames(m.k),
            !.k.tbl = [x \in Tables |-> 0], !.k.pte = [p \in Pages |-> 0],
            !.k.cr3 = 0]

(* swap.c *)
SwapCount(k) == Cardinality({p \in Pages : k.swap_map[p] # 0})

\* slot_alloc
NewSlot(m) == CHOOSE s \in SlotNums \ m.slots : \A r \in SlotNums \ m.slots : s <= r

CanSwapOut(m, p) ==
  /\ m.k.life = "live"
  /\ m.k.swap_map[p] = 0
  /\ SwapCount(m.k) < SWAP_MAX_PER_TASK
  /\ m.k.pte[p] # 0
  /\ ~(SlotNums \subseteq m.slots)

\* Mutant of swap_out: the page is dropped instead of recorded.
swap_out_Dropped(m, p) ==
  [m EXCEPT !.used = @ \ {m.k.pte[p]}, !.k.pte[p] = 0]

\* swap_out, when the disk write succeeds; otherwise nothing changes.
swap_out(m, p) ==
  [m EXCEPT !.slots = @ \union {NewSlot(m)}, !.used = @ \ {m.k.pte[p]},
            !.k.pte[p] = 0, !.k.swap_map[p] = NewSlot(m)]

CanSwapIn(m, p) ==
  m.k.life = "live" /\ m.k.swap_map[p] # 0 /\ ~Exhausted(m)

\* Mutant of swap_in: the slot stays allocated.
swap_in_KeepsSlot(m, p) ==
  LET n == MapNew(m, p) IN [n EXCEPT !.k.swap_map[p] = 0]

\* Mutant of swap_in: the entry stays in the swap map.
swap_in_KeepsEntry(m, p) ==
  LET n == MapNew(m, p) IN [n EXCEPT !.slots = @ \ {m.k.swap_map[p]}]

\* swap_in, when the disk read succeeds; otherwise nothing changes.
swap_in(m, p) ==
  LET n == MapNew(m, p) IN
  [n EXCEPT !.slots = @ \ {m.k.swap_map[p]}, !.k.swap_map[p] = 0]

swap_exit_task(m) ==
  [m EXCEPT !.slots = @ \ {m.k.swap_map[p] : p \in Pages},
            !.k.swap_map = [p \in Pages |-> 0]]

(* model.c *)
ModelPage(g) == <<"model", g>>

\* model_weights_kb with n pages more, and with n pages less, in u32.
Charged(w, n)  == (w + n) % U32
Refunded(w, n) == (w + n * (U32 - 1)) % U32

\* model_ensure_task, when kmalloc succeeds.
model_ensure_task(m) ==
  IF m.k.frames_n >= win_pages THEN m
  ELSE [m EXCEPT !.k.frames_n = win_pages, !.k.resident = {},
                 !.k.model_frames = [g \in DOMAIN @ |-> 0]]

model_fault_in_page(m, g) ==
  LET n == MapNew(m, ModelPage(g)) IN
  [n EXCEPT !.k.model_frames[g] = NewFrame(m), !.k.resident = @ \union {g},
            !.k.weights = Charged(@, 1)]

\* The budget check and the allocation of model_demand_fault.
CanFaultIn(m, g) == m.k.weights + 1 <= m.k.budget /\ ~Exhausted(m)

model_evict_page(m, g) ==
  [m EXCEPT !.used = @ \ {m.k.model_frames[g]},
            !.k = [m.k EXCEPT !.pte[ModelPage(g)] = 0, !.model_frames[g] = 0,
                              !.resident = @ \ {g}, !.weights = Refunded(@, 1)]]

model_exit_task(m) ==
  [m EXCEPT !.k.frames_n = 0, !.k.resident = {},
            !.k.model_frames = [g \in DOMAIN @ |-> 0]]

-----------------------------------------------------------------------------
(* The shell: sched_spawn *)

Idle == pc = "idle" /\ ~panicked

Claimable(t) == task[t].life \in {"unused", "zombie"}

\* Claim and clear the first free slot, then allocate the PML4 and the kernel
\* stack.
SpawnClaim(t) ==
  /\ Idle
  /\ spawns < MaxSpawns /\ spawns' = spawns + 1
  /\ Claimable(t)
  /\ \A u \in Tasks : u < t => ~Claimable(u)
  /\ LET m == [Mem(t) EXCEPT !.k = Cleared]
         n == [m EXCEPT !.used = @ \union {NewFrame(m)}, !.k.cr3 = NewFrame(m)]
     IN \/ /\ Exhausted(m)
           /\ Store(t, m)
           /\ UNCHANGED <<pc, who, at>>
        \/ /\ ~Exhausted(m)  \* no kernel stack
           /\ Store(t, vmm_free_address_space(n))
           /\ UNCHANGED <<pc, who, at>>
        \/ /\ ~Exhausted(m)
           /\ Store(t, n)
           /\ pc' = "spawn" /\ who' = t /\ at' = 1
  /\ UNCHANGED <<win_pages, panicked>>

\* The next page of the image, the script or the stack; running out of frames
\* tears the new address space down.
SpawnPage ==
  /\ pc = "spawn"
  /\ at <= Len(SpawnList)
  /\ LET m == Mem(who) IN
       \/ /\ ~Exhausted(m)
          /\ Store(who, MapNew(m, SpawnList[at]))
          /\ at' = at + 1
          /\ UNCHANGED <<pc, who>>
       \/ /\ Exhausted(m)
          /\ Store(who, vmm_free_address_space(m))
          /\ pc' = "idle" /\ who' = 0 /\ at' = 0
  /\ UNCHANGED <<win_pages, spawns, panicked>>

SpawnPublish ==
  /\ pc = "spawn"
  /\ at > Len(SpawnList)
  /\ task' = [task EXCEPT ![who].life = "live"]
  /\ pc' = "idle" /\ who' = 0 /\ at' = 0
  /\ UNCHANGED <<used, slots, win_pages, spawns, panicked>>

(* The shell: swap_reclaim over the tasks in slot order *)
LowMemory == Avail([used |-> used]) <= Low

NextTask(t) ==
  IF \E u \in Tasks : u > t
  THEN CHOOSE u \in Tasks : u > t /\ \A v \in Tasks : v > t => u <= v
  ELSE 0

ReclaimStart ==
  /\ Idle
  /\ LowMemory
  /\ NextTask(0) # 0
  /\ pc' = "reclaim" /\ who' = NextTask(0) /\ at' = 1
  /\ UNCHANGED <<used, slots, task, win_pages, spawns, panicked>>

\* reclaim_task tries only the heap pages that the task has.
InReach(k, p) == p[1] = "heap" => p[2] < k.heap_pages

\* swap_out of one page, which the disk may refuse; a task is given up when
\* its pages are done and the whole loop when memory is no longer low.
ReclaimStep ==
  /\ pc = "reclaim"
  /\ \/ /\ ~LowMemory
        /\ pc' = "idle" /\ who' = 0 /\ at' = 0
        /\ UNCHANGED <<used, slots, task>>
     \/ /\ LowMemory
        /\ at > Len(ReclaimList)
        /\ who' = NextTask(who)
        /\ pc' = IF who' = 0 THEN "idle" ELSE "reclaim"
        /\ at' = IF who' = 0 THEN 0 ELSE 1
        /\ UNCHANGED <<used, slots, task>>
     \/ /\ LowMemory
        /\ at <= Len(ReclaimList)
        /\ at' = at + 1
        /\ UNCHANGED <<pc, who>>
        /\ \/ UNCHANGED <<used, slots, task>>
           \/ /\ CanSwapOut(Mem(who), ReclaimList[at])
              /\ InReach(task[who], ReclaimList[at])
              /\ Store(who, swap_out(Mem(who), ReclaimList[at]))
  /\ UNCHANGED <<win_pages, spawns, panicked>>

InvalidatedFrames(k) == {k.model_frames[g] : g \in k.resident}

\* Mutant of model_invalidate_task: the pages stay mapped.
model_invalidate_task_StillMapped(k) ==
  [k EXCEPT !.model_frames = [g \in DOMAIN @ |-> IF g \in k.resident THEN 0 ELSE @[g]],
            !.resident = {},
            !.weights = Refunded(@, Cardinality(k.resident))]

model_invalidate_task(k) ==
  [k EXCEPT !.pte = [p \in Pages |->
                       IF \E g \in k.resident : p = ModelPage(g) THEN 0 ELSE @[p]],
            !.model_frames = [g \in DOMAIN @ |-> IF g \in k.resident THEN 0 ELSE @[g]],
            !.resident = {},
            !.weights = Refunded(@, Cardinality(k.resident))]

\* model_invalidate_all then model_window_setup, from trans_config and
\* trans_set_act_cap (and trans_reset, which leaves the window as it is).
ModelRebuild(w) ==
  /\ Idle
  /\ used' = used \ UNION {InvalidatedFrames(task[t]) : t \in Tasks}
  /\ task' = [t \in Tasks |-> model_invalidate_task(task[t])]
  /\ win_pages' = w
  /\ UNCHANGED <<slots, pc, who, at, spawns, panicked>>

-----------------------------------------------------------------------------
(* A user task that runs: system calls, faults, exit *)

Runs(t) == Idle /\ task[t].life = "live"

\* sched_exit_user: SYS_EXIT, or the kill of isr_dispatch after a fault that
\* nobody handled (a wild address, a write to a read-only page, a denied
\* model page, a swap-in without a frame or with a disk error).
sched_exit_user(t) ==
  /\ Runs(t)
  /\ Store(t, [vmm_free_address_space(swap_exit_task(model_exit_task(Mem(t))))
                 EXCEPT !.k.life = "zombie"])
  /\ UNCHANGED <<win_pages, pc, who, at, spawns, panicked>>

\* sys_alloc, one page of its loop: a longer request is a sequence of these,
\* also when it fails half way.
SysAlloc(t) ==
  /\ Runs(t)
  /\ task[t].heap_pages < HeapMax
  /\ ~Exhausted(Mem(t))
  /\ LET p == <<"heap", task[t].heap_pages>> IN
       Store(t, [MapNew(Mem(t), p) EXCEPT !.k.heap_pages = @ + 1])
  /\ UNCHANGED <<win_pages, pc, who, at, spawns, panicked>>

SysSwapOut(t, p) ==
  /\ Runs(t)
  /\ CanSwapOut(Mem(t), p)
  /\ Store(t, swap_out(Mem(t), p))
  /\ UNCHANGED <<win_pages, pc, who, at, spawns, panicked>>

SysModelBudget(t, b) ==
  /\ Runs(t)
  /\ task' = [task EXCEPT ![t].budget = b]
  /\ UNCHANGED <<used, slots, win_pages, pc, who, at, spawns, panicked>>

\* SYS_MODEL_COMMIT of a pages: the sum that is checked is a u64, which wraps
\* around for a program that commits -1; the charge is a u32.
SysModelCommit(t, a) ==
  /\ Runs(t)
  /\ (task[t].weights + a) % U64 <= task[t].budget
  /\ task' = [task EXCEPT ![t].weights = Charged(@, a)]
  /\ UNCHANGED <<used, slots, win_pages, pc, who, at, spawns, panicked>>

\* model_demand_fault for page g; n is m with the model arrays in place.
Handled(n, g) == g < win_pages /\ (g \in n.k.resident \/ CanFaultIn(n, g))

DemandFault(n, g) ==
  IF g \in n.k.resident THEN n ELSE model_fault_in_page(n, g)

\* SYS_MODEL_TOUCH: no page fault, no prefetch.  A refusal for want of budget
\* or frames still leaves the arrays allocated.
SysModelTouch(t, g) ==
  /\ Runs(t)
  /\ g < win_pages
  /\ LET n == model_ensure_task(Mem(t)) IN
       Store(t, IF Handled(n, g) THEN DemandFault(n, g) ELSE n)
  /\ UNCHANGED <<win_pages, pc, who, at, spawns, panicked>>

SysModelEvict(t, g) ==
  /\ Runs(t)
  /\ g < win_pages
  /\ g \in task[t].resident
  /\ Store(t, model_evict_page(Mem(t), g))
  /\ UNCHANGED <<win_pages, pc, who, at, spawns, panicked>>

(* swap_prefetch and model_prefetch load the page the predictor names, which
   may be any page or none. *)
Prefetched(m, q) ==
  IF CanSwapIn(m, q) THEN {m, swap_in(m, q)} ELSE {m}

ModelPrefetched(m, q) ==
  IF q \in ModelPages /\ q[2] < win_pages
  THEN LET n == model_ensure_task(m) IN
       {m, IF q[2] \notin n.k.resident /\ CanFaultIn(n, q[2])
           THEN model_fault_in_page(n, q[2]) ELSE n}
  ELSE {m}

\* A page fault on a page that was swapped out: swap it in and prefetch.
FaultSwapIn(t, p) ==
  /\ Runs(t)
  /\ task[t].pte[p] = 0
  /\ CanSwapIn(Mem(t), p)
  /\ \E q \in Pages : \E m \in Prefetched(swap_in(Mem(t), p), q) : Store(t, m)
  /\ UNCHANGED <<win_pages, pc, who, at, spawns, panicked>>

\* A page fault on a model page that is not present.  It is also where a
\* failed swap-in of a model page falls through to.
FaultModel(t, g) ==
  /\ Runs(t)
  /\ task[t].pte[ModelPage(g)] = 0
  /\ ~CanSwapIn(Mem(t), ModelPage(g))
  /\ LET n == model_ensure_task(Mem(t)) IN
       /\ Handled(n, g)
       /\ \E q \in Pages : \E m \in ModelPrefetched(DemandFault(n, g), q) : Store(t, m)
  /\ UNCHANGED <<win_pages, pc, who, at, spawns, panicked>>

\* sys_puts reads the program's string in ring 0: a page fault there is a
\* kernel panic, even if the page is only swapped out.
SysPutsFault(t, p) ==
  /\ Runs(t)
  /\ task[t].pte[p] = 0
  /\ task[t].swap_map[p] # 0
  /\ panicked' = TRUE
  /\ UNCHANGED <<used, slots, task, win_pages, pc, who, at, spawns>>

-----------------------------------------------------------------------------
Init ==
  /\ used = {}
  /\ slots = {}
  /\ task = [t \in Tasks |-> Cleared]
  /\ win_pages \in 1..WinMax
  /\ pc = "idle" /\ who = 0 /\ at = 0 /\ spawns = 0
  /\ panicked = FALSE

Shell ==
  \/ \E t \in Tasks : SpawnClaim(t)
  \/ SpawnPage
  \/ SpawnPublish
  \/ ReclaimStart
  \/ ReclaimStep
  \/ \E w \in 1..WinMax : ModelRebuild(w)

User(t) ==
  \/ sched_exit_user(t)
  \/ SysAlloc(t)
  \/ \E p \in SwapOutPages : SysSwapOut(t, p)
  \/ \E b \in Budgets : SysModelBudget(t, b)
  \/ \E a \in CommitArgs : SysModelCommit(t, a)
  \/ \E g \in 0..(WinMax - 1) : SysModelTouch(t, g)
  \/ \E g \in 0..(WinMax - 1) : SysModelEvict(t, g)
  \/ \E p \in Pages : FaultSwapIn(t, p)
  \/ \E g \in 0..(WinMax - 1) : FaultModel(t, g)
  \/ \E p \in DataPages : SysPutsFault(t, p)

Next == Shell \/ \E t \in Tasks : User(t)

Spec == Init /\ [][Next]_vars

-----------------------------------------------------------------------------
(* Properties *)

Live(t) == task[t].life = "live"

\* What can own a frame in a task: its PML4, its tables and its pages.  A
\* resident model page owns the frame in model_frames, mapped or not.
Owners == {<<"cr3", 0>>} \union ({"table"} \X Tables) \union Pages

Held(k, x) ==
  IF x[1] = "cr3" THEN k.cr3
  ELSE IF x[1] = "table" THEN k.tbl[x[2]]
  ELSE IF x[1] = "model" /\ x[2] \in k.resident THEN k.model_frames[x[2]]
  ELSE k.pte[x]

\* Every frame that a page table, a page or a model array refers to is marked
\* used and has that one owner, so no free hits a frame of somebody else.
\* (Frames change hands in swap_out, swap_in, evict, rebuild, exit and a
\* spawn that fails half way.)
FramesExclusive ==
  LET owning == {o \in Tasks \X Owners : Held(task[o[1]], o[2]) # 0}
      held   == {Held(task[o[1]], o[2]) : o \in owning}
  IN TypeOK /\ held \subseteq used /\ Cardinality(held) = Cardinality(owning)

\* The slot bitmap marks exactly the slots that the swap maps name, each for
\* one page: no slot leaks (exit and swap-in return them) and none is shared.
SlotsExact ==
  LET owning == {o \in Tasks \X Pages : task[o[1]].swap_map[o[2]] # 0}
  IN /\ slots = {task[o[1]].swap_map[o[2]] : o \in owning}
     /\ Cardinality(slots) = Cardinality(owning)

\* A page is never both mapped and swapped out: otherwise the next swap-in
\* would put old bytes over new ones.
BackedOnce ==
  \A t \in Tasks, p \in Pages : task[t].pte[p] # 0 => task[t].swap_map[p] = 0

\* The model window of a task and its records agree: a mapped model page is
\* recorded as resident with the same frame, and lies in the current window
\* and inside the arrays, also after the window was resized.
ModelCoherent ==
  \A t \in Tasks : LET k == task[t] IN
    /\ k.resident \subseteq 0..(win_pages - 1)
    /\ k.resident \subseteq 0..(k.frames_n - 1)
    /\ \A g \in 0..(WinMax - 1) :
         /\ g \in k.resident => k.pte[ModelPage(g)] \in {0, k.model_frames[g]}
         /\ g \notin k.resident => k.pte[ModelPage(g)] = 0

Backed(k, p) == k.pte[p] # 0 \/ k.swap_map[p] # 0

\* A live task's data pages are never lost: a page that is mapped or swapped
\* out stays so until the task ends, whatever memory pressure does.
PagesKept ==
  [][\A t \in Tasks, p \in DataPages :
       Live(t) /\ Live(t)' /\ Backed(task[t], p) => Backed(task'[t], p)]_vars

-----------------------------------------------------------------------------
(* What the comments say and the code does not do; each is refuted by a run *)

\* swap.c:2-4: a page is "transparently swapped back in on the next page
\* fault, so a user process keeps running correctly": no access to a
\* swapped-out page stops the system.
SwapTransparent == ~panicked

\* model.h:19-20: "trans_weights() is the only source of truth, so eviction is
\* always safe": evicting a model page never frees a frame that is mapped.
EvictionSafe ==
  \A t \in Tasks, p \in DataPages : task[t].pte[p] # 0 => task[t].pte[p] \in used

\* M5-AI.md:206-208: "a fault that would exceed the budget is denied [...]
\* rather than exceeding the cap", and so is a prefetch: a page that becomes
\* resident leaves the task within its budget.
BudgetRespected ==
  [][\A t \in Tasks :
       ~(task'[t].resident \subseteq task[t].resident)
         => Cardinality(task'[t].resident) <= task'[t].budget]_vars
=============================================================================
