# NO_OS in TLA+

A model of the NO_OS kernel (a hobby x86-64 operating system, `src/kernel/`):
its scheduler, its user memory with swap and the demand-paged model window, its
kernel heap and file system, the NOC language from the parser to the stack
machine, and the parts around the shell that edit, log and learn.  TLC checks the
modules on small instances; TLAPS proves the invariants of the scheduler, user
memory, the heap (with the refinement of an abstract allocator), the file system,
the NOC stack machine, the line editor, the predictors, the corpus, the interaction
log, the bigram model and the size of the transformer for every size.

| file | what it is |
|---|---|
| `Sched.tla` | task table, round robin, timer and keyboard interrupts, blocking system calls |
| `SchedProofs.tla` | the scheduler's invariants and action properties, proved |
| `Paging.tla` | frames, page tables, swap, model window, spawn and exit, page faults |
| `PagingProofs.tla` | one owner for every frame and slot, no page lost, the model window's records: proved |
| `NoosFS.tla` | NO_OSFS with its callers, power loss and reboot |
| `NoosFSProofs.tla` | its three invariants, proved |
| `Heap.tla`, `Allocator.tla` | the kernel heap, and what its users rely on |
| `HeapProofs.tla` | the heap's invariants and that it implements the allocator, proved |
| `NocCore.tla` | NOC: words, and the function registry that compiler and machine share |
| `NocParser.tla`, `NocCompiler.tla` | NOC: parser and compiler |
| `NocVM.tla` | NOC: sessions on the stack machine, with parser and compiler as parameters |
| `NocLang.tla`, `NocDoc.tla` | what `docs/NOC.md` says NOC programs are and mean, and the comparison of parser, compiler and machine with it |
| `NocProofs.tla` | the machine runs well-formed code without internal faults and with a balanced stack, proved |
| `Interact.tla` | interaction log, its checkpoint, the triggers of idle training |
| `Bigram.tla` | the byte-bigram model |
| `Corpus.tla` | versioned corpus of accepted drafts |
| `Predictor.tla` | predictors of commands and of faulting pages |
| `TransConfig.tla` | size of the transformer: budgets, search, blob, window, buffers |
| `LineEdit.tla` | line editor with history and screen row |
| `TransProofs.tla` | the transformer fits its cap where any model can, and its buffers match its configuration, proved |
| `LearnProofs.tla` | proofs about `LineEdit`, `Predictor`, `Corpus`, `Interact` and `Bigram`, and of the parts together |
| `Lemmas.tla` | facts about sets of numbers, counting and sequences that several proofs use |
| `MC*.tla`, `MC*.cfg` | the instances for TLC; `MCStore` puts the heap and the file system side by side, `MCLearn` the parts around the shell |
| `PROJECT.json` | components, runs, mutants, the map from definitions to source lines, findings, hazards, theorems |

## 1. The system: inventory

One CPU, one kernel.  Task 0 is the shell (the NOC read-eval-print loop), in
ring 0 with interrupts enabled; user tasks are NOC programs in ring 3.  System
calls, faults and device interrupts enter through interrupt gates, so handlers
run with interrupts disabled.

| component | state | operations | interacts with |
|---|---|---|---|
| scheduler (`kern/sched.c`, `coro.s`) | `tasks[]`, `current`, `next_pid`, `sched_last` | pick, switch, yield, preempt, block, exit, wake on tick and key, spawn | called by system calls, timer, keyboard, shell; calls paging at spawn and exit |
| timer, keyboard (`pit.c`, `kbd.c`) | tick count, key ring, modifiers | interrupt handlers; `kbd_getc`, `kbd_readc` | wake and switch tasks; `kbd_readc` yields to user tasks and runs the idle work |
| system calls (`syscall.c`) | none of their own | exit, output, sleep, keys, alloc, yield, model, swap | scheduler, paging |
| exceptions (`isr.c`, `isr.s`) | handler table | page fault: swap in, else demand-page the model, else kill; kernel fault: panic | paging, scheduler |
| frames (`pmm.c`) | bitmap, free count | allocate, free | page tables, swap, model, heap |
| page tables (`vmm.c`) | the tables themselves | new, map, unmap, translate, free | frames |
| swap (`swap.c`) | slot bitmap, `swap_map` of each task | out, in, exit, prefetch, reclaim | frames, page tables, disk |
| model window (`model.c`) | window size; per task frames, residency bitmap, charged KB | demand fault, prefetch, evict, invalidate, resize | frames, page tables, transformer |
| page predictor (`pgpred.c`) | history of faults | record, predict | swap and model prefetch |
| kernel heap (`heap.c`) | block list | kmalloc, kfree | frames; used everywhere |
| file system (`noosfs.c`) | on disk: two superblocks, cluster bitmap, inodes, one directory; in memory: both bitmaps | format, mount, create, lookup, write, unlink, write back the bitmap | disk; used by the shell's builtins, the interaction log and the corpus |
| interaction log (`interact.c`) | 64 KB log of records, output capture, checkpoint file | begin and end capture, append, save, load, clear | file system; fed by the shell, read by both models |
| corpus (`corpus.c`) | version files, `last_known_good`, `corpus.seq` | commit, roll back | file system; fed by `DraftRun` |
| idle training, bigram model (`train.c`) | weights, watermark, idle clock | train, decay, score, generate, poll | log, keyboard |
| command predictor (`predict.c`) | ring of commands | add, clear, predict | shell |
| transformer (`trans.c`) | budgets, configuration, blob, buffers, watermark | autotune, degrade, configure, cap, reset, train, evaluate, generate | model window, heap, log |
| NOC (`lexer.c`, `parser.c`, `compiler.c`, `vm.c`, `exec.c`, `repl.c`) | functions, stack and frames of the machine, scripts in progress | parse, compile, run, builtins, Run, DraftRun | everything, through the builtins |
| line editor (`line.c`) | the caller's buffer, history, the row on the screen | one per key | keyboard, console; called by the shell |
| console, disk driver, boot code, formatting | | | |

Hard behaviours, and the properties that answer them (each is listed under
"hazards" in `PROJECT.json` at its line):

* interrupts against the shell's half-done switch and half-done spawn
  (`RunningIsCurrent`, `LoadedContext`, `AddressSpaceLive`, `EoiNeverLost`,
  `ProgramsFrame`);
* starvation and lost wake-ups (`RoundRobin`, `ReadyRuns`, `BlockedHasWaker`,
  `SleeperWakes`, `SleepNotCut`, `KbdWaitReturnsKey`, `ShellKeepsWorking`);
* frames and swap slots that change hands while any allocation can fail
  (`FramesExclusive`, `SlotsExact`, `BackedOnce`, `PagesKept`);
* the model window's records against page tables that others change
  (`ModelCoherent`, `BudgetRespected`, `EvictionSafe`);
* long sequences of splits, merges and growth in the kernel heap (`Tiled`,
  `Coalesced`, `ImplementsAllocator`);
* power loss between the disk writes of one operation, and operations that
  fail half way (`FilesReadBack`, `NoSharing`, `BitmapsExact`, `Persistence`,
  `SavedKept`, `RollbackReady`, `RollbackSafe`, `VersionsDurable`);
* code whose jumps are patched afterwards, functions replaced under their
  callers, scripts inside lines (`ParseExact`, `CodeWellFormed`,
  `RunMeansProgram`, `StackBalanced`, `NoInternalFault`, `LogicDocumented`,
  `PrefixDocumented`, `RegisteredWhenRun`, `EnclosingUnaffected`,
  `ScriptEndsAtEnd`);
* byte positions into a log that drops its oldest records (`LogIsSuffix`,
  `OnlyGenuinelyNew`, `NewBytesTrigger`), saturating and halved counters under a
  logarithm (`LossNeverWraps`, `LogDefined`), rings that wrap and are cleared (`PredictsLikeliest`);
* a model that is resized under its buffers (`FitsWhenPossible`, `BuffersMatch`,
  `ModelFits`, `FootprintTracked`, `AutotuneEnds`); a line edited in place in a buffer that nothing terminates
  (`EditExact`, `ScreenShowsLine`).

## 2. Sched

The variables are the fields of `task_t` that the scheduler uses, its static
variables, and what the CPU has loaded: `cpu` says where it executes, `rsp0` and
`cr3` whose kernel stack and address space are loaded, `eoi` whether a timer
interrupt left its handler without end-of-interrupt.  `ctx[i]` is what the saved
register frame of task *i* resumes: its program, its program behind an
unanswered `kbd_wait`, or a point inside `sched_yield_to_user`.  The last happens
when a tick comes between `current = next` and `iretq`: the frame it pushes in
ring 0 is saved over the only copy of the task's registers.  The task then gets
its registers back only if the local `frame` of `sched_yield_to_user` on the
shell's stack still holds them; `framer` says whose context that is, 0 once the
shell has left the function, so that its next interrupt is pushed over it.  With a
frame that is not its own the task goes on as somebody else, or the CPU faults in
ring 0 and `isr_panic` stops the machine (`Halted`).

A handler is one action, its callees included: `Tick` is `pit_handler` with
`sched_on_tick`, `sched_preempt` and `sched_switch_to_next`; `KeyPlain`,
`KeyDead` and `KeyExtended` are the three ways through `kbd_handler`; `SysSleep`,
`SysYield`, `SysKbdTake`, `SysKbdWaitBlock` and `sched_exit_user` are the system
calls (exit also stands for the kill of a faulting task).  The shell can be
interrupted, so `sched_yield_to_user` is `YieldPick`, `YieldSwitch`,
`YieldFrame`, `YieldCopy`, `YieldEnter`, and `sched_spawn` is `SpawnClaim`, then
`SpawnFail` or `SpawnPublish`.  `SysKbdWaitBlock` is the whole loop of
`SYS_KBD_WAIT`: `sched_block_user` returns into the loop with the *next* task
current, so the loop blocks every ready task before the shell is resumed.

Abstractions: a key is a count in the ring; wake times are relative (ticks left),
which keeps the state finite without changing any comparison; memory of a task
is one bit (`as`); the shell's other work does not change the scheduler's state.

Run `sched` (three user slots, ring of one key, sleeps of 5 and 20 ms, three
spawns): all properties, the two liveness properties `ReadyRuns` and
`SleeperWakes` under `FairSpec`.  `ReadyRuns` asks for the CPU in ring 3, and
excepts a task whose registers a tick in the window displaced (`Displaced`) and
the panic that may follow: `LoadedContext` and `RunningIsCurrent` are about kernel
stack, address space and `current`, not about registers, and run `sched_window`
shows the loss.  `MCSchedKey.cfg` and `MCSchedShell.cfg` refute two sentences of the
documents: `kbd_wait` resumes without a key, and a program that computes for ever
locks the shell out (`ShellKeepsWorking`, under the same fairness).  Three slots are the fewest in which round robin
can pass over a task twice; 5 ms is below a tick and 20 ms above; three spawns
fill all slots or reuse one.  The safety properties are proved for every bound.

Fairness (`FairSpec`): the timer is weakly fair, as the PIT is periodic and
interrupts are enabled outside handlers; the shell's steps are weakly fair while
it has the CPU; its reading of keys and its yield are strongly fair, because
every command ends in `kbd_readc`, and a typist who never pauses for ever is
excluded.  Nothing is assumed of programs: a process may compute forever.

### Proofs

`SchedProofs.tla` proves, for every `TASK_MAX >= 2`, ring capacity, set of sleep
times and bound on spawns (assumption `SchedConstants`), each safety property of
run `sched`.  The argument is one inductive invariant,

    IInv == TypeOK /\ RunningIsCurrent /\ LoadedContext /\ AddressSpaceLive
              /\ BlockedHasWaker /\ EoiNeverLost /\ PidsUnique /\ LocalsOK

`LocalsOK` is the strengthening: it says what the shell's local variables and
the loaded registers are at each position of `sched_yield_to_user` and
`sched_spawn` (the picked task is still ready; the slot being spawned is not yet
a user task; from the switch on `current` is a user slot, and after the next step
its kernel stack and address space are loaded).
The named properties do not speak about those moments, and without them they are
not preserved by the steps that follow.  The lemma `SwitchEffect` says once what
`sched_switch_to_next` establishes for every caller; `EoiNeverLost` follows
because the preempted task is itself runnable again, so a tick always finds
somebody to resume.  There is one lemma per action, `SchedInvariant` combines
them, and the action properties `RoundRobin` and `SleepNotCut` are proved from
the same invariant.  Liveness is only
model-checked: fairness is out of the prover's reach.

## 3. Paging

`used` and `slots` are the frame and swap bitmaps; `task[t]` is the memory of a
task: its page tables (`cr3`, `tbl`, `pte`), its `swap_map`, heap size and the
model window's arrays, residency and charge.  The functions of `vmm.c`, `swap.c`
and `model.c` are operators on `[used, slots, k]` under their own names, so that
a handler is their composition, in the code's order, as in the C.  Actions are
the system calls, the two page-fault paths (with the prefetch they trigger), exit,
and the shell's spawn, reclaim and model rebuild, which take a step per page.
User tasks do not run inside the shell's loops, because the timer preempts only
user tasks; the composition with `Sched` is therefore a single flag, `pc`.

Abstractions: page contents are left out (which page a frame belongs to is what
the properties tell apart); the predictor may name any page; each region fits
one page table; disk transfers succeed or fail, and failure changes nothing;
`kmalloc` of the model arrays succeeds; residency is a set without a storage
bound, so that the probe of `model_evict_page` behind a bitmap that was allocated for
a smaller window (`model.c:203-205`) cannot be seen.  The charge counts pages, modulo
`U32`, and the sum that `SYS_MODEL_COMMIT` checks is taken modulo `U64`, as in the
code: a commit of -1 passes the check and lowers the charge.

Run `paging`: two tasks, ten frames, two slots, one swap entry per task, a window
of one or two pages.  Ten frames hold one process with everything mapped or two
that are starved, so each `pmm_alloc_frame` in the code fails in some behaviour
(also the ones for page tables, where `vmm_map` gives up silently).  In this run
programs ask to swap out their data pages only; run `paging_model` lifts that
and shows why it matters, `paging_puts` shows the panic in `sys_puts`.  Programs
commit single pages here; `paging_budget` adds the commit of -1 and shows that more
pages become resident than the budget allows.  None of the other properties speaks of
the charge, and their proofs are for commits of every size.

### Proofs

`PagingProofs.tla` proves the five properties of run `paging`, the action property
included, for any number of tasks, frames and slots, any size of the regions and of
commits, and any width of the charge (assumption `PagingConstants`).  Nothing is
proved of the charge itself: `paging_budget` shows that it can be too small.  Each theorem has the hypothesis `DataOnly`,
that programs ask to swap out data pages only: it is the restriction of the run,
and `paging_model` refutes the claim without it.

    IInv == TypeOK /\ FramesOwned /\ SlotsOwned /\ (\A t : KInv(task[t], win_pages))
              /\ ShellOK

`FramesOwned` and `SlotsOwned` state `FramesExclusive` and `SlotsExact` pairwise:
what a task holds is marked, and no two owners hold the same.  `KInv` is the
strengthening, about a single task: the page table above a mapped or swapped-out
page exists (so that the `vmm_map` of `swap_in`, whose result nobody looks at,
cannot fail and lose the page), a task that is not live has neither slots nor
resident model pages (so that a slot can be claimed by spawn), nothing lies above
the heap's end, and a resident model page has the frame its record names or none.
The operators of `vmm.c`, `swap.c` and `model.c` each have a lemma about
`[used, slots, k]` (what they keep of one task, and that they take only free frames
and give back only the task's own); one lemma lifts such a step to all tasks.

## 4. NoosFS

Disk state (superblocks, bitmap, root block, entries, inodes, contents) and
memory state (two bitmaps) are separate variables; an operation is a sequence of
steps with one disk write each, and `PowerLoss` may come before any of them.
`Boot` continues with `fs_format` or `fs_mount` and then `fs_selftest`, which
overwrites the first free cluster.  Callers are `SaveFile` (unlink, create,
write), `DeleteFile`, `FormatDisk`, and `Rewrite` for the log and the corpus,
which write in place.  `saved` remembers what was last saved successfully.

`FilesReadBack` and `NoSharing` are claimed while `trusted`: until an operation
begins with bitmaps that do not cover the disk.  After a reboot that happens at
the first operation when files exist, since `fs_mount` rebuilds no inode bitmap;
run `fs_reboot` shows the loss itself.  Within that limit the run shows that
crashes and failures at any point harm no file but the one being written.  Of that
file itself nothing is claimed: what a save, a deletion (`noosfs.c:519`) or a format
(`noosfs.c:206`) cut short by a crash leaves of it is `Unknown`, and after a crash
in `fs_format` nothing is claimed until the next completed one, as the user asked for
the files to go.

Run `storage`, part `fs`: three names, two directory entries, three inodes, four clusters,
files of one or two blocks, one power loss: each of inodes, entries and clusters
can be what runs out.  Names are symmetric.  Left out: disk errors, a bitmap of
several blocks, superblock geometry, failing `kmalloc`; writing the inode table
in `fs_format` is one step (the root inode is in its first block, and with it
goes every name).

### Proofs

`NoosFSProofs.tla` proves the three properties for disks and directories of every
size, all file sizes and any number of power losses (assumption
`NoosFSConstants`):

    FSInv == FSTypeOK /\ Phases /\ (trusted => Core)

`Core` has three parts beyond the properties.  `Position` says what each step of
an operation has found or done so far (an inode whose entry is about to be written
has no blocks; the blocks of a rewrite contain the old ones until the size asked
for is reached).  `Account` says that the bitmaps cover the directory, the other
files and what the operation in progress holds, which is what makes `NoSharing`
inductive: a fresh cluster is then nobody's.  `DirBlock` covers the one moment in
which the root inode names a block that is not a directory yet.  `Phases` says what
formatting, mounting and the self-test find on the disk.  What the file
being worked on holds is unknown until the operation ends, so a failure or power
loss at any step leaves only that file in doubt.

## 5. Heap

`list` is the block list of `heap.c` in list order, each block with its address,
payload size and free flag; `regions` are the frames the heap has taken, `others`
the frames that page tables and user tasks hold.  `kmalloc` is first fit with
split, or a new region at the end of the list and then the same; `kfree` merges
with the next and the previous block *of the list*.  `Allocator` is the promise
to the callers: a block that is handed out is large enough, overlaps no other and
no frame of others, and stays in place until it is freed.  `Heap` implements it
under the mapping live = payloads of the blocks in use.

Run `storage`, part `heap`: frames of 96 bytes, headers of 32, four frames, two of which others
may hold; requests of 0 bytes (rounded to 16, splits a region), 48 (fits without a
split) and 100 (needs two adjacent frames).  So regions come at lower and at
higher addresses than earlier ones, adjacent ones merge, and growth fails.
A request that wraps around 2^64 is left out, and so is the limit of 100000 steps in
`kfree`'s walk to the previous block (`heap.c:152`): with that many blocks in front
of it, a block is not merged with its predecessor and `Coalesced` fails.  `Tiled` also says that the
statistics of `MemInfo` count exactly the blocks of the list.

### Proofs

`HeapProofs.tla` proves `Tiled`, `Coalesced` and the refinement
`ImplementsAllocator` for every frame and header size that is a multiple of 16 and
every set of requests (assumption `HeapConstants`).

    HInv == HeapTypeOK /\ Laid(list, regions) /\ (\A k : ~Mergeable(list, k))
              /\ regions \cap others = {}
              /\ Total(Spans(list)) = Cardinality(regions) * FRAME_SIZE
              /\ used_bytes = Total(Charges(list)) /\ block_count = Len(list)

`Laid` says that blocks are aligned, lie in the heap's frames and are pairwise
disjoint; with the total of their sizes, disjoint blocks cover the frames exactly.
For `Coalesced`, a region is appended at the end of the list only when nothing
fits, and `Taken` then uses it at once, so it is never a free neighbour of the
block before it; a rest that is split off stands behind a block in use.  Sums over
the list are handled by partial sums, with lemmas on what inserting, removing and
replacing an element of the list adds.  For the refinement, `kmalloc` maps to
`Alloc`, `kfree` to `Free`, and the frames that others take and give back to
`TakeFrame` and `ReleaseFrame` of `Allocator`.

## 6. NOC

`NocParser` and `NocCompiler` are the recursive descent and the code generation
as operators under the names of the C functions, from a token sequence to a tree
and from a tree to instructions; `NocVM` is the machine: a line is read, parsed,
compiled and run, one instruction per step, `Interrupt` (Ctrl+C) at any of them.
`b_Run` suspends the line and feeds a script through the same path, `b_DraftRun`
compiles drafts against the same registry and refuses a seed that is too long
(`SeedTooLong`).  After each line `b_Run` resets its index before the loop adds 1, so
the scan behind a script that ends in a newline (`NewlineEnded`) may leave the buffer;
the model stops there, in phase "overrun".  The registry (`noc_register_user_fn`)
replaces functions in place, so code compiled against an earlier version stays
around; `RunFreed` is the run of code that a replacement has freed, and there the
model stops.  Parser, compiler and the bitwise operators of words are constant
operators of `NocVM` (`parse_of`, `compile_of`, `bit_and`, ...), so that the machine
stands by itself; the configurations of `MCNoc` give them the operators of
`NocParser`, `NocCompiler` and `NocDoc`.

`NocLang` is written from `docs/NOC.md`: how a tree is written down with the
parentheses the precedence table asks for, and what a program outputs and how it
ends.  Where the document is silent, on the quotient of the smallest number by -1, the
meaning is "unspecified" and nothing is asked of the rest of the line.  `ParseExact`
says that the parser gives back the tree, for every operator; `RunMeansProgram` that
parsing, compiling and running give the meaning, and that no other division raises
the CPU's exception.  `RunMeansProgram` leaves out two things, each with a
configuration of its own that checks the document's sentence: lines with `&&`, `||` (run `noc_logic`) or prefix `++`/`--`
(`MCNocPrefix.cfg`), whose code leaves values behind, and sessions that are no longer
`settled`.  `settled` ends when a function is registered by a refused line, a script
or a draft (`MCNocRegister.cfg`), when a function is redefined with other parameters or
in other letter case, when a line of a script is refused or stopped by anything but
a division by zero, or memory runs out.
`StackBalanced` has two parts as well: frames never overlap, in any session; the
exact balance is asked of settled sessions without those operators.

Abstractions: tokens instead of characters (no lexer), addresses count
instructions, words of `W` bits, one function object per definition with an
identity, output is a sequence of words.  Builtins that only reach other
components are left out; `Print`, `Run` and `DraftRun` stand for the three ways a
builtin can act on the machine.

Run `noc`: words of four bits (so that they wrap around), stack of 8, four frames,
two nested scripts, five functions, four locals, three strings, three arguments:
every limit is met by some session.  Sessions: every operator on boundary words;
nested expressions of every pair of operators; control flow; calls with
defaults, recursion and replaced callees; scripts that divide by zero, call
themselves, or replace their caller; lines that are refused or reach a limit.

### Proofs

`NocProofs.tla` proves `NocTypeOK`, `StackBalanced` and `NoInternalFault` of the
machine, for every word width, every size of stack, frame table and nesting, every
session, every set of drafts and every parser and compiler, under one hypothesis:
`[]CodeWellFormed`.  That is the interface between compiler and machine, in the
manner of a bytecode verifier: operands are in range, the last instruction leaves
the function, and for each instruction a depth can be given (`Depths`) such that
every instruction finds at least what it takes (`Pops`) and leaves its successors at
least what they expect, exactly so when the session uses no operator whose code
leaves values behind.  It is asked of the line being run, of suspended lines, of the
registered functions and of functions replaced while they run.  It says nothing of
stack or program counter: that the machine stays where the depths say is the theorem.
The other half, that `noc_compile` only makes such code, is what run `noc` checks; it
is an induction over syntax trees.

The invariant `MInv` says of each frame (`Placed`) that it is at an instruction that
is not dead and that the stack will have at least the depth of that instruction above
the frame's locals: for the top frame the stack as it is, for a frame below the
values under the next frame and its result (`Ceiling`).  The same holds of the frames
saved by `Run` (`Suspended`), which find the result of `Run`, 0, when the script
ends; without it nothing would be known after the return.  `Exactly` turns at least into
exactly.  It may be lost in the middle of a line (a script redefines a function) but
not gained, because a new typed line only starts when no line is suspended.  There is
a lemma per instruction; `GoOn`, `Entered` and `Left` are the three things that happen to
a table of frames.  That all frames start on the stack (`FramesOnStack`) goes from the
top frame downwards, by the greatest frame that would not.

`VMAssumption` asks that `NOC_MAX_LOCALS` be at most `NOC_STACK_SIZE` (64 and 4096 in
the code), so that the test of a line's locals at the start of `noc_vm_run` never
fails; it is left out of `Compile`.

## 7. Around the shell

Run `learn` holds six independent parts; a behaviour is about one of them
(`MCLearn`'s variable `part`).

* `Interact`: the ring (12 characters), the checkpoint (7), the capture buffer
  (3) and the watermarks.  `hist` is the ghost of the bytes of all records and of
  where they end; `LogIsSuffix` says the log is the end of it, from such a place on.
  `OnlyGenuinelyNew` says that a model is due only with enough bytes it really has
  not trained on; the converse, the trigger of `docs/M5-AI.md`, is refuted by
  `MCLearnTrigger.cfg`.  A tag is one character; the clock steps in
  seconds; two commands, one process event and one reboot fill and wrap the log.
* `Bigram`: three bytes, weights up to 3, decay after more than one saturation.
  `LossNeverWraps` holds also after a pass that halved the weights; that such a pass
  leaves a row with sum 0, whose logarithm is then taken, is shown by `MCLearnLog.cfg`.
* `Corpus`: two digits of base 2 in a version name, so that names come round;
  numbers up to 6; two faults.  A torn write leaves the new bytes cut at the old
  size, a mixture, or everything.  `SavedKept` and the second half of `RollbackReady`
  presuppose that every write of `corpus.seq` was completed, `RollbackReady` that the
  last one of `last_known_good` was; `MCCorpusVersions.cfg` and `MCCorpusRollback.cfg`
  show what happens otherwise.  Whether the rollback finds room in the task table is left
  to `Sched`: a failed `sched_spawn` changes nothing in the corpus.
* `Predictor`: a ring of four, six items; commands and pages.  `PredictsLikeliest`
  asks for a most frequent follower and leaves ties open.
* `TransConfig`: with the code's own constants and sizes, on machines of 12, 64
  and 128 MB; layers 3 and 32, contexts 20 and 1024, and out-of-range requests;
  caps below the smallest model, around it and above.  `FitsWhenPossible` says that
  the estimate covers the weights and buffers in use, and that the model fits the cap
  whenever the smallest one would; `MCTransFits.cfg` drops that condition, as `trans.h`
  does, and `MCTransFootprint.cfg` counts the whole block `alloc_blob` keeps (`block`)
  instead of the weights in it.  `kmalloc` of buffers may fail, that of the blob does
  not.  `BuffersMatch` excepts `trans_generate` when `ctx` is below its window of 32.
* `LineEdit`: a buffer of four cells, history of two slots of three cells, four
  lines, with whatever the uninitialised buffer holds at the start.  `text` is the
  line the keys mean; `EditExact` compares buffer and history with it.  A line as
  long as a history slot (256 of the 511 characters that can be typed) is copied
  past the slot; the model stops there.

### Proofs

`LearnProofs.tla` has a section for each of the parts below, and one for the whole.
Its first section proves `EditExact` for every size of buffer, slots and history
(assumption `LineAssumption`; `HIST_LEN <= CAP` as in the code, 256 and 512).  The
invariant `LInv` adds to it that the first `len` cells spell the line (`Spells`),
and that every line kept fits a slot, which is what makes a recall spell a whole
line.  The ghost `kept` holds the lines worth keeping as they are returned; the
history is compared with the newest of them.

The other sections:

* `PredictorCorrect`: `PInv` says that the item recorded *b* items ago is in the
  slot *b* places before the next place to write.  From it follows that the window
  the prediction scans is the end of `seen`, and that the follower counted most
  often is found (`PredictorAssumption`).
* `VersionsKept` and `RollbackIsReady`: `LkgInv` says that `last_known_good` is whole
  unless its last write was cut short, whatever became of `corpus.seq`; `CInv` says, unless a write of `corpus.seq`
  was interrupted, that the number in it follows the newest version reported and is
  the number of the version being committed, that every version reported is in its
  file or a later one took its name, and which of the commit's three files already
  hold the new version at each step.
  `DigitsAssumption` is arithmetic of digits (what is written is read back, and
  there are at least two names, digits are below the base) that holds for every base
  but needs an induction over digits and powers, which the provers do not have; TLC
  evaluates it.  That every file is well-formed, a torn one included, is proved
  separately (`CorpusTyped`), without the condition on `corpus.seq`.
* `LogHoldsLastRecords` and `TrainsOnNewBytes`: `LogInv` says that line ends occur
  in the bytes written exactly where records end (`HistOK`), so that dropping up to
  a line end drops whole records and counting line ends counts records; that log
  and checkpoint start at such a place; and that log length, watermark and untrained
  bytes of a model satisfy *length <= watermark + untrained*.  `hist` holds bytes and places, not records, because that is the
  form in which a suffix of a suffix is again a suffix.  `InteractAssumption` asks
  that an escaped command or output fits the log (1025 and 2048 bytes of 64 KiB);
  the lemma `FlattenSpec` bounds what escaping makes of a text.  The invariant also
  says that neither the log nor the capture buffer outgrows its array.  `LogSized`
  adds that `il_records` is the number of line ends in the log (`Counts`), which
  stays true when the log was read back from a checkpoint that was cut off, where the
  number of records is no longer what was written.
* `LossDoesNotWrap`: a count that is scored is one entry of its row and so at most the
  sum of the row, which is a partial sum; halving does not change that.  `log2_mbit` is
  proved monotone: within a power of two because its table is, and across one because
  no entry reaches 1000.
* `PartsRun` and `LearnKeepsSizes`: a step of the whole is a step of one part and
  leaves the variables of the others alone, so a behaviour of the whole is one of each
  part, and the theorems about parts carry over.  `LearnTypeOK` collects their sizes.

`TransProofs.tla` proves `FitsWhenPossible` and `BuffersMatch` for all limits, machines and
requests (`TransAssumption`, `WindowAssumption`).

    TransInv == TransTyped /\ BootClean /\ ConfigFits /\ BuffersMatch

`ConfigFits` says that the configuration fits the cap that holds now, or that not even
the smallest one does; it is what the builtins must restore after each change of cap.
It rests on three facts.  `degrade` ends: `ctx + n_layers + d_ff + 5 * d_model` falls
in every round of its loop (a narrower model may get a larger `d_ff` than it had).
Where it ends without a fit, the configuration is no larger than the smallest in any
dimension, and `working_kb` is monotone in each, so the smallest does not fit either.
And `working_kb`, the estimate, covers the sum of what `alloc_blob`,
`alloc_workspace` and `alloc_train` use, an identity of polynomials up to rounding.
`WindowAssumption` states what the code's numbers give: the smallest model's weights
are within the least budget of weights, and the model window shows a whole budget.
The latter holds on machines below 8 GB; from there on the budget equals the window,
and a blob could be up to 1023 bytes larger, since `degrade` compares kilobytes
rounded down.  `DefaultCapHolds` removes the exception for small caps as long as none
was set with `TransMem`.

The library's induction theorems take an operator as a parameter and cannot be
used.  Where an argument goes along a sequence or a count, the proofs use two facts
of `Lemmas.tla` about *sets* instead: a non-empty set of numbers has a least
element (`LeastExists`, from the well-foundedness of finite sets), and a set that
holds 0 and is closed under successor up to *n* holds everything up to *n*
(`UpTo`).

## 8. What is checked and what is proved

| run | result | properties |
|---|---|---|
| `sched` | holds | `TypeOK` `RunningIsCurrent` `LoadedContext` `AddressSpaceLive` `BlockedHasWaker` `EoiNeverLost` `PidsUnique` `RoundRobin` `SleepNotCut`: also proved; `ReadyRuns` `SleeperWakes` |
| `paging` | holds | `FramesExclusive` (with `TypeOK`) `SlotsExact` `BackedOnce` `ModelCoherent` `PagesKept`: also proved |
| `storage` | holds | `FilesReadBack` `NoSharing` `BitmapsExact` (with `FSTypeOK`), `Tiled` (with `HeapTypeOK`) `Coalesced` `ImplementsAllocator`: also proved |
| `noc` | holds | `NocTypeOK` `StackBalanced` `NoInternalFault`: also proved, from `CodeWellFormed`; `ParseExact` `CodeWellFormed` `RunMeansProgram` |
| `learn` | holds | `LogIsSuffix` `OnlyGenuinelyNew` `SavedKept` `RollbackReady` `PredictsLikeliest` `EditExact` `LossNeverWraps` `FitsWhenPossible` `BuffersMatch` `LearnTypeOK`: also proved |
| `sched_window`, `paging_puts`, `paging_model`, `paging_budget`, `fs_reboot`, `noc_logic`, `trans_boot` | violated | one statement each, section 9 |

Every property of a passing run has a mutant (an operator `X_...` before the
definition `X` it replaces) with which TLC finds the property violated.

Only model-checked: liveness (`ReadyRuns`, `SleeperWakes`), as fairness is out of the
prover's reach; and `ParseExact`, `CodeWellFormed` and `RunMeansProgram`.  Parser, compiler and the
reference meaning are recursive on trees and token sequences, so what they say of
every program needs an induction over data, and the operators are declared RECURSIVE,
with which the prover loses its arithmetic.

`trans_boot` is a liveness statement; its fairness is that the boot code, which
nothing interrupts for good, keeps running (`TransFairSpec`).

## 9. Where code and documents disagree

Refuted by the runs:

* `sched_window`: a tick inside `sched_yield_to_user` after `current = next` saves the
  shell's frame over the registers of the task it is switching to (`sched.c:58-59`).
* `paging_puts`: printing a string from a swapped-out page panics the kernel
  (`swap.c:2-4`).
* `paging_model`: evicting a model page that was swapped out frees a frame that
  is in use (`model.h:19-20`).
* `paging_budget`: a commit of -1 lowers the charge, and more pages than the budget
  become resident (`docs/M5-AI.md:206-208`).
* `fs_reboot`: the first save after a reboot destroys an older file
  (`docs/M4-FILESYSTEM.md:3`).
* `noc_logic`: `&&` is always true and `||` always false, and each leaves an extra
  value (`docs/NOC.md:71-76`).
* `trans_boot`: from 160 MB of RAM on, autotune takes a trial that equals the
  current configuration for growth and never ends (`trans.c:1222-1225`).

Refuted by further configurations, which are not among the runs of `PROJECT.json`.
`tlc -config <cfg> <module>` gives the counterexample, within a minute each:

| configuration | module | statement | what the code does |
|---|---|---|---|
| `MCSchedKey.cfg` | `MCSched` | `KbdWaitReturnsKey` (`docs/M3-USERMODE.md:125`) | `kbd_wait` can return without a key |
| `MCSchedShell.cfg` | `MCSched` | `ShellKeepsWorking` (`docs/M3-USERMODE.md:6-8`) | a program that loops locks the shell out, under `FairSpec` |
| `MCNocPrefix.cfg` | `MCNoc` | `PrefixDocumented` (`docs/NOC.md:62`) | prefix `++` and `--` leave an extra value, which takes the place of a result |
| `MCNocRegister.cfg` | `MCNoc` | `RegisteredWhenRun` (`docs/NOC.md:107-108`) | refused lines and drafts that are only checked register functions |
| `MCNocEnclosing.cfg` | `MCNoc` | `EnclosingUnaffected` (`docs/ROADMAP.md:71-72`) | a function is replaced, and its code freed, while one of its frames waits for a script |
| `MCNocOverrun.cfg` | `MCNoc` | `ScriptEndsAtEnd` (`vm.c:1033-1034`) | behind a final newline `Run` scans past its buffer |
| `MCLearnTrigger.cfg` | `MCLearn` | `NewBytesTrigger` (`docs/M5-AI.md:117`) | after the log has filled up, was cleared, or a training failed, new bytes do not make a model due |
| `MCLearnLog.cfg` | `MCLearn` | `LogDefined` (`train.c:28`) | after a pass that halves the weights the loss takes the logarithm of 0 |
| `MCCorpusRollback.cfg` | `Corpus` | `RollbackSafe` (`docs/M5-AI.md:184`) | a commit cut short in its second write leaves nothing to roll back to |
| `MCCorpusVersions.cfg` | `Corpus` | `VersionsDurable` (`docs/M5-AI.md:185-187`) | after a failed or torn write of `corpus.seq` (9 becoming 10 reads 1) a later commit overwrites a saved version |
| `MCTransFits.cfg` | `TransConfig` | `ModelFits` (`trans.h:58-59`) | under a cap below the smallest model the model does not fit |
| `MCTransFootprint.cfg` | `TransConfig` | `FootprintTracked` (`trans.c:1164-1165`) | the block kept for the weights is larger than the estimate says |
| `MCLineScreen.cfg` | `LineEdit` | `ScreenShowsLine` (`line.c:42-44`) | a deleted character stays on the screen |

Met while modelling, visible in the models, without a run of their own:

* An extended key does not wake a task that waits for a key (`kbd.c:82`).
* `heap_validate` reports a correct list as corrupt once a region below the others
  has been added (`heap.c:28-39`).
* On a 64 MB machine the documented default is degraded at once; `degrade` may halve
  `ctx` below `TRANS_CTX_MIN`; `trans_generate` uses a window of 32 tokens also when
  `ctx` is smaller; `free_workspace` passes addresses inside a block to `kfree`, which
  ignores them.
* A checkpoint whose window starts at a record boundary drops that whole record.
* The history predictors break ties by the oldest occurrence, where the comment
  says the last; page 0 is also the answer for "none".
* The smallest number divided by -1 raises the CPU's divide error, which panics the
  kernel (`vm.c:378`); the document does not speak of it.

## 10. Plan

Done: all modules of the table, and proofs of every safety property that the passing
runs check except the three that are about parser and compiler.  Worth doing next: an
abstract file store that `NoosFS` implements during one power cycle, from the same
invariant.

### Not modelled

* The lexer and the formatting and string functions (but for the copies the line
  editor makes): character-level conversions with output or tokens as their only
  effect; the models start at tokens and words.
* The transformer's arithmetic (forward and backward pass): its state is far
  beyond TLC, and its numbers decide nothing in the control modelled here.
* Device I/O (`ide.c`, `vga.c`, `serial.c`, `pic.c`), scancode translation,
  descriptor tables and boot code: straight-line register access.
* Builtins that only print or call one operation of a modelled component, and the
  user runtime, which wraps the system calls.
* In `NoosFS`: disk errors, several bitmap blocks, a superblock whose geometry
  does not match.
