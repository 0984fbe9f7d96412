------------------------------- MODULE Sched -------------------------------
(***************************************************************************)
(* The preemptive scheduler of NO_OS: the task table and round-robin pick  *)
(* of kern/sched.c, the blocking system calls of arch/x86_64/syscall.c,    *)
(* and the timer and keyboard interrupts that drive them (drivers/pit.c,   *)
(* drivers/kbd.c).                                                         *)
(*                                                                         *)
(* One CPU.  Handlers run with interrupts disabled (interrupt gates), so a *)
(* handler is one action.  The shell (task 0, ring 0) runs with interrupts *)
(* enabled, so sched_yield_to_user and sched_spawn are split at the points *)
(* where an interrupt can observe a difference.                            *)
(*                                                                         *)
(* Time is relative: wake[i] is the number of timer ticks until wake_ticks *)
(* of task i is reached, and 0 when wake_ticks is 0.  No task runs before  *)
(* tick 1, so an absolute wake time is never 0.                            *)
(***************************************************************************)
EXTENDS Naturals

CONSTANTS
  TASK_MAX,   \* size of the task table; slot 0 is the shell
  KbdCap,     \* usable entries of the keyboard ring (BUF_SIZE - 1)
  SleepMs,    \* the sleep times (ms) that programs ask for
  MaxPid      \* bound on the number of successful spawns

PIT_HZ == 100

ASSUME SchedConstants ==
  /\ TASK_MAX \in Nat /\ TASK_MAX >= 2
  /\ KbdCap \in Nat /\ KbdCap >= 1
  /\ SleepMs \subseteq Nat
  /\ MaxPid \in Nat

Slots == 0..(TASK_MAX - 1)
UserSlots == 1..(TASK_MAX - 1)

\* enum task_state_t
TASK_RUNNABLE == "runnable"
TASK_RUNNING  == "running"
TASK_BLOCKED  == "blocked"
TASK_ZOMBIE   == "zombie"
States == {TASK_RUNNABLE, TASK_RUNNING, TASK_BLOCKED, TASK_ZOMBIE}

(***************************************************************************)
(* Where the CPU is, and so what an interrupt frame (struct regs) resumes: *)
(*   "user"      ring 3, in the current task's program                     *)
(*   "kbdwait"   the same, but rax still holds the number of kbd_wait: the *)
(*               call was suspended before it stored a key                 *)
(*   "switching" sched_yield_to_user after it made the task current        *)
(*   "framing"   ... after it loaded rsp0, cr3 and the entry frame         *)
(*   "entering"  ... after it copied the task's context to its local frame *)
(* The shell's other positions are never saved in a task's ctx.  "panic" is *)
(* a machine stopped by isr_panic.                                         *)
(***************************************************************************)
Ring3   == {"user", "kbdwait"}
Window  == {"switching", "framing", "entering"}
Frames  == Ring3 \union Window
ShellPc == {"shell", "spawning", "picked"}

VARIABLES
  pid, state, user, started, as, wake, on_key, ctx, \* fields of tasks[i]
  current,    \* index of the current task
  next_pid,
  sched_last, \* index of the last picked user task
  cpu,        \* position of the CPU
  next,       \* the local `next` of sched_yield_to_user / `t` of sched_spawn
  frame,      \* the local `frame` of sched_yield_to_user
  framer,     \* slot whose context is in `frame`; 0: overwritten by the shell
  rsp0, cr3,  \* slot whose kernel stack / address space is loaded (0: kernel)
  eoi,        \* the timer interrupt in service still lacks its pic_eoi
  ring        \* number of keys in the keyboard ring

taskVars == <<pid, state, user, started, as, wake, on_key, ctx>>
hwVars   == <<cpu, rsp0, cr3, eoi>>
vars == <<pid, state, user, started, as, wake, on_key, ctx, current, next_pid,
          sched_last, cpu, next, frame, framer, rsp0, cr3, eoi, ring>>

TypeOK ==
  /\ pid        \in [Slots -> Nat]
  /\ state      \in [Slots -> States]
  /\ user       \in [Slots -> BOOLEAN]
  /\ started    \in [Slots -> BOOLEAN]
  /\ as         \in [Slots -> BOOLEAN]
  /\ wake       \in [Slots -> Nat]
  /\ on_key     \in [Slots -> BOOLEAN]
  /\ ctx        \in [Slots -> Frames]
  /\ current    \in Slots
  /\ next_pid   \in Nat \ {0}
  /\ sched_last \in Slots
  /\ cpu        \in Frames \union ShellPc \union {"panic"}
  /\ next       \in Slots
  /\ frame      \in Frames
  /\ framer     \in Slots
  /\ rsp0       \in Slots
  /\ cr3        \in Slots
  /\ eoi        \in BOOLEAN
  /\ ring       \in 0..KbdCap

-----------------------------------------------------------------------------
(* sched_pick_user *)

\* How far slot i lies behind sched_last in the round-robin scan: the scan
\* visits sched_last + 1 first and sched_last itself last.
Dist(i) == IF i > sched_last THEN i - sched_last ELSE (i + TASK_MAX) - sched_last

\* `user && state == TASK_RUNNABLE`, for states st.
Ready(st, i) == i \in UserSlots /\ user[i] /\ st[i] = TASK_RUNNABLE

\* Mutant of Picked: the scan always starts at slot 1.
Picked_Lowest(st, i) ==
  Ready(st, i) /\ \A j \in UserSlots : Ready(st, j) => i <= j

\* sched_pick_user returns &tasks[i]: the nearest ready slot of the scan.
Picked(st, i) ==
  /\ Ready(st, i)
  /\ \A j \in UserSlots : Ready(st, j) => Dist(i) <= Dist(j)

NonePicked(st) == \A i \in UserSlots : ~Ready(st, i)

(* sched_switch_to_next, called from an interrupt handler with the table
   states st and the contexts cx its caller left. *)
\* Mutant of RestoreRepl: current still names the task that gave up the CPU.
RestoreRepl_KeepsCurrent(st, cx) ==
  /\ NonePicked(st)
  /\ current' = current
  /\ state' = [st EXCEPT ![0] = TASK_RUNNABLE]
  /\ rsp0' = 0
  /\ cr3' = 0
  /\ cpu' = "shell"
  /\ framer' = 0
  /\ ctx' = cx
  /\ UNCHANGED <<started, sched_last>>

\* The shell returns from sched_yield_to_user, and its next interrupt is
\* pushed over what that call had on the stack, `frame` included.
RestoreRepl(st, cx) ==
  /\ NonePicked(st)
  /\ current' = 0
  /\ state' = [st EXCEPT ![0] = TASK_RUNNABLE]
  /\ rsp0' = 0
  /\ cr3' = 0
  /\ cpu' = "shell"
  /\ framer' = 0
  /\ ctx' = cx
  /\ UNCHANGED <<started, sched_last>>

\* A never-run task gets the ring-3 entry frame of sched_entry_frame.
FrameOf(cx, i) == IF started[i] THEN cx[i] ELSE "user"

\* Mutant of ResumeTask: cr3 is not reloaded.
ResumeTask_StaleCr3(st, cx, i) ==
  /\ Picked(st, i)
  /\ sched_last' = i
  /\ current' = i
  /\ state' = [k \in Slots |-> IF k = i THEN TASK_RUNNING ELSE st[k]]
  /\ rsp0' = i
  /\ cr3' = cr3
  /\ started' = [started EXCEPT ![i] = TRUE]
  /\ ctx' = [cx EXCEPT ![i] = FrameOf(cx, i)]
  /\ cpu' = FrameOf(cx, i)
  /\ UNCHANGED framer

ResumeTask(st, cx, i) ==
  /\ Picked(st, i)
  /\ sched_last' = i
  /\ current' = i
  /\ state' = [k \in Slots |-> IF k = i THEN TASK_RUNNING ELSE st[k]]
  /\ rsp0' = i
  /\ cr3' = i
  /\ started' = [started EXCEPT ![i] = TRUE]
  /\ ctx' = [cx EXCEPT ![i] = FrameOf(cx, i)]
  /\ cpu' = FrameOf(cx, i)
  /\ UNCHANGED framer

sched_switch_to_next(st, cx) ==
  \/ RestoreRepl(st, cx)
  \/ \E i \in UserSlots : ResumeTask(st, cx, i)

-----------------------------------------------------------------------------
(* The shell, with interrupts enabled *)

\* sched_spawn claims the first slot that is a zombie or was never used, and
\* clears it.
FreeSlot(i) == state[i] = TASK_ZOMBIE \/ pid[i] = 0

\* Mutant of SpawnClaim: the slot is not cleared.
SpawnClaim_NotCleared(i) ==
  /\ cpu = "shell"
  /\ next_pid <= MaxPid
  /\ FreeSlot(i)
  /\ \A j \in UserSlots : j < i => ~FreeSlot(j)
  /\ state' = [state EXCEPT ![i] = TASK_RUNNABLE]
  /\ next' = i
  /\ cpu' = "spawning"
  /\ UNCHANGED <<pid, user, started, as, wake, on_key, ctx, current, next_pid,
                 sched_last, frame, framer, rsp0, cr3, eoi, ring>>

SpawnClaim(i) ==
  /\ cpu = "shell"
  /\ next_pid <= MaxPid
  /\ FreeSlot(i)
  /\ \A j \in UserSlots : j < i => ~FreeSlot(j)
  /\ pid' = [pid EXCEPT ![i] = 0]
  /\ state' = [state EXCEPT ![i] = TASK_RUNNABLE]
  /\ user' = [user EXCEPT ![i] = FALSE]
  /\ started' = [started EXCEPT ![i] = FALSE]
  /\ as' = [as EXCEPT ![i] = FALSE]
  /\ wake' = [wake EXCEPT ![i] = 0]
  /\ on_key' = [on_key EXCEPT ![i] = FALSE]
  /\ ctx' = [ctx EXCEPT ![i] = "user"]
  /\ next' = i
  /\ cpu' = "spawning"
  /\ UNCHANGED <<current, next_pid, sched_last, frame, framer, rsp0, cr3, eoi, ring>>

\* Memory for the address space, the kernel stack or a page ran out: the slot
\* stays cleared.
SpawnFail ==
  /\ cpu = "spawning"
  /\ cpu' = "shell"
  /\ UNCHANGED <<taskVars, current, next_pid, sched_last, next, frame, framer, rsp0,
                 cr3, eoi, ring>>

\* Mutant of SpawnPublish: next_pid is not advanced.
SpawnPublish_SamePid ==
  /\ cpu = "spawning"
  /\ pid' = [pid EXCEPT ![next] = next_pid]
  /\ next_pid' = next_pid
  /\ state' = [state EXCEPT ![next] = TASK_RUNNABLE]
  /\ as' = [as EXCEPT ![next] = TRUE]
  /\ user' = [user EXCEPT ![next] = TRUE]
  /\ cpu' = "shell"
  /\ UNCHANGED <<started, wake, on_key, ctx, current, sched_last, next, frame, framer,
                 rsp0, cr3, eoi, ring>>

SpawnPublish ==
  /\ cpu = "spawning"
  /\ pid' = [pid EXCEPT ![next] = next_pid]
  /\ next_pid' = next_pid + 1
  /\ state' = [state EXCEPT ![next] = TASK_RUNNABLE]
  /\ as' = [as EXCEPT ![next] = TRUE]
  /\ user' = [user EXCEPT ![next] = TRUE]
  /\ cpu' = "shell"
  /\ UNCHANGED <<started, wake, on_key, ctx, current, sched_last, next, frame, framer,
                 rsp0, cr3, eoi, ring>>

\* kbd_readc (or KeyGet) takes a key for the shell.
ShellGetc ==
  /\ cpu = "shell"
  /\ ring > 0
  /\ ring' = ring - 1
  /\ UNCHANGED <<taskVars, current, next_pid, sched_last, next, frame, framer, hwVars>>

\* kbd_readc found no key: sched_yield_to_user picks a task.  With none ready
\* it returns and the shell halts until the next interrupt, which changes
\* nothing here.
YieldPick(i) ==
  /\ cpu = "shell"
  /\ ring = 0
  /\ Picked(state, i)
  /\ sched_last' = i
  /\ next' = i
  /\ cpu' = "picked"
  /\ UNCHANGED <<taskVars, current, next_pid, frame, framer, rsp0, cr3, eoi, ring>>

YieldSwitch ==
  /\ cpu = "picked"
  /\ current' = next
  /\ state' = [state EXCEPT ![next] = TASK_RUNNING]
  /\ cpu' = "switching"
  /\ UNCHANGED <<pid, user, started, as, wake, on_key, ctx, next_pid,
                 sched_last, next, frame, framer, rsp0, cr3, eoi, ring>>

\* From here on `next` is in a register that a saved frame restores; it
\* equals current.
YieldFrame ==
  /\ cpu = "switching"
  /\ rsp0' = current
  /\ cr3' = current
  /\ ctx' = [ctx EXCEPT ![current] = FrameOf(ctx, current)]
  /\ started' = [started EXCEPT ![current] = TRUE]
  /\ cpu' = "framing"
  /\ UNCHANGED <<pid, state, user, as, wake, on_key, current, next_pid,
                 sched_last, next, frame, framer, eoi, ring>>

YieldCopy ==
  /\ cpu = "framing"
  /\ frame' = ctx[current]
  /\ framer' = current
  /\ cpu' = "entering"
  /\ UNCHANGED <<taskVars, current, next_pid, sched_last, next, rsp0, cr3,
                 eoi, ring>>

\* enter_user_mode: iretq whatever the local frame holds.  A task that a tick
\* suspended here comes back with its registers as long as nobody wrote the
\* frame; after that it gets those of another task, or garbage, which faults
\* in ring 0.
YieldEnter ==
  /\ cpu = "entering"
  /\ cpu' \in IF framer = current THEN {frame} ELSE {frame, "panic"}
  /\ UNCHANGED <<taskVars, current, next_pid, sched_last, next, frame, framer, rsp0,
                 cr3, eoi, ring>>

YieldStep == YieldSwitch \/ YieldFrame \/ YieldCopy \/ YieldEnter

-----------------------------------------------------------------------------
(* Interrupts *)

\* Mutant of Woken: the scan starts one slot too late.
Woken_SkipsFirst(i) == i \in 2..(TASK_MAX - 1) /\ state[i] = TASK_BLOCKED /\ wake[i] = 1

\* The wake-up scan of sched_on_tick.
Woken(i)   == i \in UserSlots /\ state[i] = TASK_BLOCKED /\ wake[i] = 1
TickStates == [i \in Slots |-> IF Woken(i) THEN TASK_RUNNABLE ELSE state[i]]
TickWake   == [i \in Slots |-> IF wake[i] > 0 THEN wake[i] - 1 ELSE 0]

\* Mutant of sched_preempt: the preempted task is not made runnable again.
sched_preempt_NotRunnable(st) ==
  sched_switch_to_next(st, [ctx EXCEPT ![current] = cpu])

\* sched_preempt: save the interrupted frame, whatever it is, and switch.
sched_preempt(st) ==
  sched_switch_to_next([st EXCEPT ![current] = TASK_RUNNABLE],
                       [ctx EXCEPT ![current] = cpu])

\* pit_handler.  The end-of-interrupt follows sched_on_tick, and is never
\* sent if sched_on_tick leaves through coro_restore.
Tick ==
  /\ ~eoi
  /\ cpu # "panic"
  /\ wake' = TickWake
  /\ \/ /\ ~user[current]
        /\ state' = TickStates
        /\ eoi' = FALSE
        /\ UNCHANGED <<started, ctx, current, sched_last, framer, cpu, rsp0, cr3>>
     \/ /\ user[current]
        /\ sched_preempt(TickStates)
        /\ eoi' = (cpu' = "shell")
  /\ UNCHANGED <<pid, user, as, on_key, next_pid, next, frame, ring>>

\* Mutant of kbd_push: the full test is missing.
kbd_push_Unbounded == ring' = ring + 1

\* kbd_push drops the key when the ring is full.
kbd_push == ring' = IF ring < KbdCap THEN ring + 1 ELSE ring

\* Mutant of KeyWoken: the wake-up scan forgets the on_key test.
KeyWoken_AnyBlocked(i) == i \in UserSlots /\ state[i] = TASK_BLOCKED

KeyWoken(i) == i \in UserSlots /\ state[i] = TASK_BLOCKED /\ on_key[i]

sched_on_key ==
  /\ state' = [i \in Slots |-> IF KeyWoken(i) THEN TASK_RUNNABLE ELSE state[i]]
  /\ on_key' = [i \in Slots |-> on_key[i] /\ ~KeyWoken(i)]

\* kbd_handler for a key with a character, for a key without one, and for an
\* E0-extended key (arrows, Home, End, Del), which returns before
\* sched_on_key.  Modifiers and releases change nothing here.
KeyPlain ==
  /\ cpu # "panic"
  /\ kbd_push
  /\ sched_on_key
  /\ UNCHANGED <<pid, user, started, as, wake, ctx, current, next_pid,
                 sched_last, next, frame, framer, hwVars>>

KeyDead ==
  /\ cpu # "panic"
  /\ sched_on_key
  /\ UNCHANGED <<pid, user, started, as, wake, ctx, current, next_pid,
                 sched_last, next, frame, framer, hwVars, ring>>

KeyExtended ==
  /\ cpu # "panic"
  /\ kbd_push
  /\ UNCHANGED <<taskVars, current, next_pid, sched_last, next, frame, framer, hwVars>>

-----------------------------------------------------------------------------
(* System calls and faults of the current task, in ring 3 *)

\* SYS_EXIT, and the kill path of isr_dispatch.
sched_exit_user ==
  /\ cpu \in Ring3
  /\ as' = [as EXCEPT ![current] = FALSE]
  /\ sched_switch_to_next([state EXCEPT ![current] = TASK_ZOMBIE], ctx)
  /\ UNCHANGED <<pid, user, wake, on_key, next_pid, next, frame, eoi, ring>>

\* Mutant of SleepTicks: a sleep shorter than a tick sets no wake time.
SleepTicks_Truncated(ms) == (ms * PIT_HZ) \div 1000

\* ms * PIT_HZ / 1000 ticks from now.  A wake time that is already reached is
\* noticed at the next tick.
SleepTicks(ms) ==
  IF (ms * PIT_HZ) \div 1000 = 0 THEN 1 ELSE (ms * PIT_HZ) \div 1000

SysSleep(ms) ==
  /\ cpu \in Ring3
  /\ wake' = [wake EXCEPT ![current] = SleepTicks(ms)]
  /\ on_key' = [on_key EXCEPT ![current] = FALSE]
  /\ sched_switch_to_next([state EXCEPT ![current] = TASK_BLOCKED],
                          [ctx EXCEPT ![current] = "user"])
  /\ UNCHANGED <<pid, user, as, next_pid, next, frame, eoi, ring>>

SysYield ==
  /\ cpu \in Ring3
  /\ sched_switch_to_next([state EXCEPT ![current] = TASK_RUNNABLE],
                          [ctx EXCEPT ![current] = "user"])
  /\ UNCHANGED <<pid, user, as, wake, on_key, next_pid, next, frame, eoi, ring>>

\* SYS_KBD_POLL, and SYS_KBD_WAIT with a key in the ring.
SysKbdTake ==
  /\ cpu \in Ring3
  /\ ring > 0
  /\ ring' = ring - 1
  /\ cpu' = "user"
  /\ UNCHANGED <<taskVars, current, next_pid, sched_last, next, frame, framer, rsp0,
                 cr3, eoi>>

(* SYS_KBD_WAIT on an empty ring.  sched_block_user returns to the loop with
   the next task current and that task's context in *r; the ring is still
   empty, so the loop blocks that task too, and so on until sched_block_user
   finds nobody and restores the shell.  The tasks blocked are the caller and
   every ready task; the last one picked is the farthest of the scan. *)
WaitSwept(i) == i = current \/ Ready(state, i)

SysKbdWaitBlock ==
  /\ cpu \in Ring3
  /\ ring = 0
  /\ state' = [i \in Slots |-> IF WaitSwept(i) THEN TASK_BLOCKED ELSE
                               IF i = 0 THEN TASK_RUNNABLE ELSE state[i]]
  /\ wake' = [i \in Slots |-> IF WaitSwept(i) THEN 0 ELSE wake[i]]
  /\ on_key' = [i \in Slots |-> WaitSwept(i) \/ on_key[i]]
  /\ started' = [i \in Slots |-> WaitSwept(i) \/ started[i]]
  /\ ctx' = [i \in Slots |-> IF i = current THEN "kbdwait" ELSE
                             IF Ready(state, i) THEN FrameOf(ctx, i) ELSE ctx[i]]
  /\ \/ /\ NonePicked(state)
        /\ UNCHANGED sched_last
     \/ \E i \in UserSlots :
          /\ Ready(state, i)
          /\ \A j \in UserSlots : Ready(state, j) => Dist(j) <= Dist(i)
          /\ sched_last' = i
  /\ current' = 0
  /\ rsp0' = 0
  /\ cr3' = 0
  /\ cpu' = "shell"
  /\ framer' = 0
  /\ UNCHANGED <<pid, user, as, next_pid, next, frame, eoi, ring>>

-----------------------------------------------------------------------------
Init ==
  /\ pid        = [i \in Slots |-> 0]
  /\ state      = [i \in Slots |-> TASK_RUNNABLE]
  /\ user       = [i \in Slots |-> FALSE]
  /\ started    = [i \in Slots |-> FALSE]
  /\ as         = [i \in Slots |-> FALSE]
  /\ wake       = [i \in Slots |-> 0]
  /\ on_key     = [i \in Slots |-> FALSE]
  /\ ctx        = [i \in Slots |-> "user"]
  /\ current    = 0
  /\ next_pid   = 1
  /\ sched_last = 0
  /\ cpu        = "shell"
  /\ next       = 0
  /\ frame      = "user"
  /\ framer     = 0
  /\ rsp0       = 0
  /\ cr3        = 0
  /\ eoi        = FALSE
  /\ ring       = 0

Yield == \E i \in UserSlots : YieldPick(i)

Shell ==
  \/ \E i \in UserSlots : SpawnClaim(i)
  \/ SpawnFail
  \/ SpawnPublish
  \/ ShellGetc
  \/ Yield
  \/ YieldSwitch \/ YieldFrame \/ YieldCopy \/ YieldEnter

Interrupt == Tick \/ KeyPlain \/ KeyDead \/ KeyExtended

Syscall ==
  \/ sched_exit_user
  \/ \E ms \in SleepMs : SysSleep(ms)
  \/ SysYield
  \/ SysKbdTake
  \/ SysKbdWaitBlock

\* isr_panic: interrupts off, halted for good.
Halted == cpu = "panic" /\ UNCHANGED vars

Next == Shell \/ Interrupt \/ Syscall \/ Halted

Spec == Init /\ [][Next]_vars

(***************************************************************************)
(* Fairness.  The PIT keeps ticking and interrupts are enabled outside the *)
(* handlers; the shell runs whenever it has the CPU, each command ends in  *)
(* a read of the next key, and the typist pauses.  Nothing is assumed of   *)
(* the programs: a process may compute forever.                            *)
(***************************************************************************)
Fairness ==
  /\ WF_vars(Tick)
  /\ WF_vars(YieldStep)
  /\ WF_vars(SpawnFail \/ SpawnPublish)
  /\ SF_vars(ShellGetc)
  /\ SF_vars(Yield)

FairSpec == Spec /\ Fairness

-----------------------------------------------------------------------------
(* Properties *)

\* At most one user task is RUNNING and it is the current one; the current
\* task is the shell or a task that was spawned.  (current and state are
\* written apart in sched_switch_to_next, sched_yield_to_user and the block,
\* exit and preempt paths.)
RunningIsCurrent ==
  /\ \A i \in UserSlots : state[i] = TASK_RUNNING <=> current = i
  /\ current # 0 => user[current]

\* In ring 3 the TSS names the kernel stack and CR3 the address space of the
\* current task, which still owns one; the shell runs on the kernel's own.
\* (sched_exit_user frees the address space that is still loaded.)
LoadedContext ==
  /\ cpu \in Ring3 => rsp0 = current /\ cr3 = current /\ as[current]
  /\ cpu \in ShellPc => rsp0 = 0 /\ cr3 = 0 /\ current = 0

\* A task owns an address space exactly while it is spawned and not a zombie,
\* so the pick never loads a freed one, also after a spawn that failed in a
\* reused slot.
AddressSpaceLive ==
  \A i \in UserSlots : as[i] <=> user[i] /\ state[i] # TASK_ZOMBIE

\* A blocked task waits for exactly one event, a tick or a key: no task
\* sleeps with nothing to wake it.
BlockedHasWaker ==
  \A i \in UserSlots :
    /\ state[i] = TASK_BLOCKED => (wake[i] > 0 <=> ~on_key[i])
    /\ state[i] # TASK_BLOCKED => wake[i] = 0 /\ ~on_key[i]

\* pit_handler always reaches pic_eoi: sched_on_tick never leaves through
\* coro_restore, which would silence the timer for good.
EoiNeverLost == ~eoi

\* No two live tasks share a pid.
PidsUnique ==
  /\ \A i \in UserSlots : pid[i] < next_pid /\ (user[i] => pid[i] # 0)
  /\ \A i, j \in UserSlots : user[i] /\ user[j] /\ pid[i] = pid[j] => i = j

\* Round robin: a pick that passes over a ready task brings that task
\* strictly nearer to its turn, so at most TASK_MAX - 2 others go first.
RoundRobin ==
  [][\A i \in UserSlots :
       Ready(state, i) /\ Ready(state, i)' /\ sched_last' \notin {sched_last, i}
         => Dist(i)' < Dist(i)]_vars

\* Neither keys nor other tasks cut a sleep short: a sleeping task stays
\* blocked until its last tick, and each step uses up at most one tick.
SleepNotCut ==
  [][\A i \in UserSlots :
       state[i] = TASK_BLOCKED /\ wake[i] > 1
         => state'[i] = TASK_BLOCKED /\ wake'[i] >= wake[i] - 1]_vars

\* The window: task i is started, but its saved context is the frame of a tick
\* that came while the shell was still in sched_yield_to_user with i current
\* (sched.c:91-106), so i resumes in ring 0.
Displaced(i) == started[i] /\ ctx[i] \in Window

\* No starvation among user tasks: a ready task gets the CPU in ring 3, unless
\* it is swept into the keyboard wait of another, or a tick in the window put
\* the shell's frame in place of its registers (after which its program may
\* never go on: ProgramsFrame), or the machine panics from that.
ReadyRuns ==
  \A i \in UserSlots :
    Ready(state, i) ~> \/ current = i /\ cpu \in Ring3
                       \/ state[i] = TASK_BLOCKED
                       \/ Displaced(i)
                       \/ cpu = "panic"

\* A task that sleeps is woken, as long as no panic stops the machine.
SleeperWakes ==
  \A i \in UserSlots :
    (state[i] = TASK_BLOCKED /\ wake[i] > 0)
      ~> (state[i] # TASK_BLOCKED \/ cpu = "panic")

(* What the documents say and the code does not do *)

\* A switch saves the frame "on the current user task's kernel stack"
\* (sched.c:58-59): the context of a started task that does not have the CPU
\* is a ring-3 frame, so iretq goes on with its program.
ProgramsFrame ==
  \A i \in UserSlots :
    user[i] /\ started[i] /\ state[i] \in {TASK_RUNNABLE, TASK_BLOCKED}
      => ctx[i] \in Ring3

\* kbd_wait() is "block until a key, then return it" (M3-USERMODE.md:125): no
\* program goes on behind a kbd_wait that stored no key.
KbdWaitReturnsKey == cpu # "kbdwait"

\* "the shell keeps working while user processes run alongside it"
\* (M3-USERMODE.md:6-8): it always gets the CPU again.
ShellKeepsWorking == []<>(cpu \in ShellPc)
=============================================================================
