---------------------------- MODULE SchedProofs ----------------------------
(***************************************************************************)
(* Proofs about the scheduler, for a task table of any size, any keyboard  *)
(* ring, any sleep times and any number of spawns.                         *)
(***************************************************************************)
EXTENDS Sched, TLAPS

(***************************************************************************)
(* The inductive invariant.  The properties are not inductive alone: what  *)
(* sched_yield_to_user and sched_spawn carry in their local `next` across  *)
(* an interrupt must be known, and that the CPU is in ring 3 or in the     *)
(* last steps of the yield only on behalf of a user task.                  *)
(***************************************************************************)
LocalsOK ==
  /\ cpu = "picked" => Ready(state, next)
  /\ cpu = "spawning" => /\ next \in UserSlots
                         /\ ~user[next]
                         /\ state[next] = TASK_RUNNABLE
  /\ cpu \in Frames => current \in UserSlots
  /\ cpu \in Frames \ {"switching"} => rsp0 = current /\ cr3 = current
  /\ user[0] = FALSE
  /\ \A i \in UserSlots : ~user[i] => state[i] = TASK_RUNNABLE

IInv ==
  /\ TypeOK
  /\ RunningIsCurrent
  /\ LoadedContext
  /\ AddressSpaceLive
  /\ BlockedHasWaker
  /\ EoiNeverLost
  /\ PidsUnique
  /\ LocalsOK

\* The initial table: only the shell exists.
LEMMA InitIInv == Init => IInv
<1> USE SchedConstants DEF SchedConstants, Slots, UserSlots
<1> SUFFICES ASSUME Init PROVE IInv
  OBVIOUS
<1>1. TypeOK
  <2>1. TASK_RUNNABLE \in States /\ "user" \in Frames /\ "shell" \in ShellPc
    BY DEF States, Frames, Ring3, ShellPc
  <2>2. /\ pid \in [Slots -> Nat] /\ wake \in [Slots -> Nat]
        /\ next_pid \in Nat \ {0} /\ ring \in 0..KbdCap
        /\ current \in Slots /\ sched_last \in Slots /\ next \in Slots
        /\ rsp0 \in Slots /\ cr3 \in Slots
    BY DEF Init
  <2>3. /\ state \in [Slots -> States] /\ ctx \in [Slots -> Frames]
        /\ cpu \in Frames \union ShellPc /\ frame \in Frames /\ framer \in Slots
    BY <2>1 DEF Init
  <2>4. /\ user \in [Slots -> BOOLEAN] /\ started \in [Slots -> BOOLEAN]
        /\ as \in [Slots -> BOOLEAN] /\ on_key \in [Slots -> BOOLEAN]
        /\ eoi \in BOOLEAN
    BY DEF Init
  <2> QED
    BY <2>2, <2>3, <2>4 DEF TypeOK
<1>2. RunningIsCurrent /\ LoadedContext /\ EoiNeverLost /\ LocalsOK
  BY DEF Init, RunningIsCurrent, LoadedContext, EoiNeverLost, LocalsOK, Frames,
         Ring3, Window, ShellPc, TASK_RUNNABLE, TASK_RUNNING
<1>3. AddressSpaceLive /\ BlockedHasWaker /\ PidsUnique
  BY DEF Init, AddressSpaceLive, BlockedHasWaker, PidsUnique, TASK_RUNNABLE,
         TASK_BLOCKED
<1> QED
  BY <1>1, <1>2, <1>3 DEF IInv

\* What sched_switch_to_next establishes, whoever calls it with no task left
\* in the RUNNING state: it changes the state of at most the task it resumes,
\* from RUNNABLE to RUNNING.
LEMMA SwitchEffect ==
  ASSUME IInv,
         NEW st \in [Slots -> States], NEW cx \in [Slots -> Frames],
         \A i \in UserSlots : st[i] # TASK_RUNNING,
         sched_switch_to_next(st, cx)
  PROVE  /\ state' \in [Slots -> States]
         /\ started' \in [Slots -> BOOLEAN]
         /\ ctx' \in [Slots -> Frames]
         /\ current' \in Slots /\ sched_last' \in Slots /\ framer' \in Slots
         /\ rsp0' = current' /\ cr3' = current'
         /\ \A i \in UserSlots : state'[i] = TASK_RUNNING <=> current' = i
         /\ \A i \in UserSlots : current' # i => state'[i] = st[i]
         /\ \/ /\ cpu' = "shell" /\ current' = 0 /\ NonePicked(st)
               /\ sched_last' = sched_last
            \/ /\ cpu' \in Frames /\ Picked(st, current')
               /\ sched_last' = current'
<1> USE SchedConstants DEF SchedConstants, Slots, UserSlots, States
<1> TypeOK
  BY DEF IInv
<1>1. CASE RestoreRepl(st, cx)
  BY <1>1 DEF RestoreRepl, TypeOK, TASK_RUNNABLE, TASK_RUNNING
<1>2. CASE \E i \in UserSlots : ResumeTask(st, cx, i)
  <2>1. PICK i \in UserSlots : ResumeTask(st, cx, i)
    BY <1>2
  <2>2. i \in Slots /\ i # 0 /\ FrameOf(cx, i) \in Frames
    BY DEF FrameOf, Frames, Ring3
  <2>3. /\ state' = [k \in Slots |-> IF k = i THEN TASK_RUNNING ELSE st[k]]
        /\ current' = i /\ sched_last' = i /\ rsp0' = i /\ cr3' = i
        /\ started' = [started EXCEPT ![i] = TRUE]
        /\ ctx' = [cx EXCEPT ![i] = FrameOf(cx, i)]
        /\ cpu' = FrameOf(cx, i) /\ framer' = framer
        /\ Picked(st, i)
    BY <2>1 DEF ResumeTask
  <2>4. /\ state' \in [Slots -> States]
        /\ started' \in [Slots -> BOOLEAN]
        /\ ctx' \in [Slots -> Frames]
        /\ framer' \in Slots
    BY <2>2, <2>3 DEF TypeOK
  <2>5. \A k \in UserSlots : state'[k] = TASK_RUNNING <=> current' = k
    BY <2>3
  <2>6. \A k \in UserSlots : current' # k => state'[k] = st[k]
    BY <2>3
  <2> QED
    BY <2>2, <2>3, <2>4, <2>5, <2>6
<1> QED
  BY <1>1, <1>2 DEF sched_switch_to_next

\* sched_spawn claims and clears a slot.
LEMMA SpawnClaimIInv ==
  ASSUME IInv, NEW i \in UserSlots, SpawnClaim(i)
  PROVE  IInv'
<1> USE SchedConstants DEF SchedConstants, Slots, UserSlots
<1> TypeOK /\ RunningIsCurrent /\ LoadedContext /\ AddressSpaceLive
  BY DEF IInv
<1> BlockedHasWaker /\ EoiNeverLost /\ PidsUnique /\ LocalsOK
  BY DEF IInv
<1>1. TypeOK'
  <2>1. pid' \in [Slots -> Nat]
    BY DEF TypeOK, States, Frames, Ring3, ShellPc, SpawnClaim
  <2>2. state' \in [Slots -> States]
    BY DEF TypeOK, States, Frames, Ring3, ShellPc, SpawnClaim
  <2>3. user' \in [Slots -> BOOLEAN]
    BY DEF TypeOK, States, Frames, Ring3, ShellPc, SpawnClaim
  <2>4. started' \in [Slots -> BOOLEAN]
    BY DEF TypeOK, States, Frames, Ring3, ShellPc, SpawnClaim
  <2>5. as' \in [Slots -> BOOLEAN]
    BY DEF TypeOK, States, Frames, Ring3, ShellPc, SpawnClaim
  <2>6. wake' \in [Slots -> Nat]
    BY DEF TypeOK, States, Frames, Ring3, ShellPc, SpawnClaim
  <2>7. on_key' \in [Slots -> BOOLEAN]
    BY DEF TypeOK, States, Frames, Ring3, ShellPc, SpawnClaim
  <2>8. ctx' \in [Slots -> Frames]
    BY DEF TypeOK, States, Frames, Ring3, ShellPc, SpawnClaim
  <2>9. cpu' = "spawning" /\ next' \in Slots
    BY DEF SpawnClaim
  <2>10. UNCHANGED <<current, next_pid, sched_last, frame, framer, rsp0, cr3, eoi, ring>>
    BY DEF SpawnClaim
  <2> QED
    BY <2>1, <2>2, <2>3, <2>4, <2>5, <2>6, <2>7, <2>8, <2>9, <2>10 DEF TypeOK, ShellPc
<1>2. RunningIsCurrent'
  BY DEF TypeOK, LocalsOK, RunningIsCurrent, LoadedContext, Ready,
         TASK_RUNNABLE, TASK_RUNNING, TASK_BLOCKED, TASK_ZOMBIE, Frames, Ring3,
         Window, ShellPc, SpawnClaim, FreeSlot
<1>3. LoadedContext'
  BY DEF TypeOK, LocalsOK, RunningIsCurrent, LoadedContext, Ready,
         TASK_RUNNABLE, TASK_RUNNING, TASK_BLOCKED, TASK_ZOMBIE, Frames, Ring3,
         Window, ShellPc, SpawnClaim, FreeSlot
<1>4. AddressSpaceLive'
  <2> SUFFICES ASSUME NEW k \in UserSlots
               PROVE  as'[k] <=> user'[k] /\ state'[k] # TASK_ZOMBIE
    BY DEF AddressSpaceLive
  <2>1. as[k] <=> user[k] /\ state[k] # TASK_ZOMBIE
    BY DEF AddressSpaceLive
  <2>2. CASE k = i
    <3>1. as' = [as EXCEPT ![i] = FALSE] /\ user' = [user EXCEPT ![i] = FALSE]
      BY DEF SpawnClaim
    <3>2. as \in [Slots -> BOOLEAN] /\ user \in [Slots -> BOOLEAN]
      BY DEF TypeOK
    <3>3. k \in Slots
      OBVIOUS
    <3>4. ~as'[k] /\ ~user'[k]
      BY <2>2, <3>1, <3>2, <3>3
    <3> QED
      BY <3>4
  <2>3. CASE k # i
    <3>1. as'[k] = as[k] /\ user'[k] = user[k] /\ state'[k] = state[k]
      BY <2>3 DEF TypeOK, SpawnClaim
    <3> QED
      BY <2>1, <3>1
  <2> QED
    BY <2>2, <2>3
<1>5. BlockedHasWaker'
  BY DEF TypeOK, LocalsOK, RunningIsCurrent, LoadedContext, BlockedHasWaker,
         Ready, TASK_RUNNABLE, TASK_RUNNING, TASK_BLOCKED, TASK_ZOMBIE, Frames,
         Ring3, Window, ShellPc, SpawnClaim, FreeSlot
<1>6. EoiNeverLost'
  BY DEF TypeOK, LocalsOK, RunningIsCurrent, LoadedContext, EoiNeverLost,
         Ready, TASK_RUNNABLE, TASK_RUNNING, TASK_BLOCKED, TASK_ZOMBIE, Frames,
         Ring3, Window, ShellPc, SpawnClaim, FreeSlot
<1>7. PidsUnique'
  BY DEF TypeOK, LocalsOK, RunningIsCurrent, LoadedContext, PidsUnique, Ready,
         TASK_RUNNABLE, TASK_RUNNING, TASK_BLOCKED, TASK_ZOMBIE, Frames, Ring3,
         Window, ShellPc, SpawnClaim, FreeSlot
<1>8. LocalsOK'
  BY DEF TypeOK, LocalsOK, RunningIsCurrent, LoadedContext, Ready,
         TASK_RUNNABLE, TASK_RUNNING, TASK_BLOCKED, TASK_ZOMBIE, Frames, Ring3,
         Window, ShellPc, SpawnClaim, FreeSlot
<1> QED
  BY <1>1, <1>2, <1>3, <1>4, <1>5, <1>6, <1>7, <1>8 DEF IInv

\* sched_spawn gives up.
LEMMA SpawnFailIInv ==
  ASSUME IInv, SpawnFail
  PROVE  IInv'
<1> USE SchedConstants DEF SchedConstants, Slots, UserSlots
<1> TypeOK /\ RunningIsCurrent /\ LoadedContext /\ AddressSpaceLive
  BY DEF IInv
<1> BlockedHasWaker /\ EoiNeverLost /\ PidsUnique /\ LocalsOK
  BY DEF IInv
<1>1. TypeOK'
  BY DEF TypeOK, States, Frames, Ring3, Window, ShellPc, SpawnFail, taskVars
<1>2. RunningIsCurrent' /\ AddressSpaceLive' /\ BlockedHasWaker' /\ EoiNeverLost'
      /\ PidsUnique'
  BY DEF RunningIsCurrent, AddressSpaceLive, BlockedHasWaker, EoiNeverLost,
         PidsUnique, SpawnFail, taskVars
<1>3. LoadedContext'
  BY DEF LoadedContext, SpawnFail, taskVars, ShellPc, Ring3
<1>4. LocalsOK'
  BY DEF LocalsOK, Ready, SpawnFail, taskVars, Frames, Ring3, Window
<1> QED
  BY <1>1, <1>2, <1>3, <1>4 DEF IInv

\* sched_spawn publishes the task.
LEMMA SpawnPublishIInv ==
  ASSUME IInv, SpawnPublish
  PROVE  IInv'
<1> USE SchedConstants DEF SchedConstants, Slots, UserSlots
<1> TypeOK /\ RunningIsCurrent /\ LoadedContext /\ AddressSpaceLive
  BY DEF IInv
<1> BlockedHasWaker /\ EoiNeverLost /\ PidsUnique /\ LocalsOK
  BY DEF IInv
<1>1. TypeOK'
  <2>1. pid' \in [Slots -> Nat]
    BY DEF TypeOK, States, Frames, Ring3, ShellPc, SpawnPublish
  <2>2. next_pid' \in Nat \ {0}
    BY DEF TypeOK, States, Frames, Ring3, ShellPc, SpawnPublish
  <2>3. state' \in [Slots -> States]
    BY DEF TypeOK, States, Frames, Ring3, ShellPc, SpawnPublish
  <2>4. user' \in [Slots -> BOOLEAN]
    BY DEF TypeOK, States, Frames, Ring3, ShellPc, SpawnPublish
  <2>5. as' \in [Slots -> BOOLEAN]
    BY DEF TypeOK, States, Frames, Ring3, ShellPc, SpawnPublish
  <2> QED
    BY <2>1, <2>2, <2>3, <2>4, <2>5 DEF TypeOK, Frames, Ring3, ShellPc, SpawnPublish
<1>2. RunningIsCurrent'
  BY DEF TypeOK, LocalsOK, RunningIsCurrent, LoadedContext, Ready,
         TASK_RUNNABLE, TASK_RUNNING, TASK_BLOCKED, TASK_ZOMBIE, Frames, Ring3,
         Window, ShellPc, SpawnPublish
<1>3. LoadedContext'
  BY DEF TypeOK, LocalsOK, RunningIsCurrent, LoadedContext, Ready,
         TASK_RUNNABLE, TASK_RUNNING, TASK_BLOCKED, TASK_ZOMBIE, Frames, Ring3,
         Window, ShellPc, SpawnPublish
<1>4. AddressSpaceLive'
  <2> SUFFICES ASSUME NEW k \in UserSlots
               PROVE  as'[k] <=> user'[k] /\ state'[k] # TASK_ZOMBIE
    BY DEF AddressSpaceLive
  <2>1. as[k] <=> user[k] /\ state[k] # TASK_ZOMBIE
    BY DEF AddressSpaceLive
  <2>2. CASE k = next
    <3>1. as'[k] = TRUE /\ user'[k] = TRUE /\ state'[k] = TASK_RUNNABLE
      BY <2>2 DEF TypeOK, SpawnPublish
    <3> QED
      BY <3>1 DEF TASK_RUNNABLE, TASK_ZOMBIE
  <2>3. CASE k # next
    <3>1. as'[k] = as[k] /\ user'[k] = user[k] /\ state'[k] = state[k]
      BY <2>3 DEF TypeOK, SpawnPublish
    <3> QED
      BY <2>1, <3>1
  <2> QED
    BY <2>2, <2>3
<1>5. BlockedHasWaker'
  BY DEF TypeOK, LocalsOK, RunningIsCurrent, LoadedContext, BlockedHasWaker,
         Ready, TASK_RUNNABLE, TASK_RUNNING, TASK_BLOCKED, TASK_ZOMBIE, Frames,
         Ring3, Window, ShellPc, SpawnPublish
<1>6. EoiNeverLost'
  BY DEF TypeOK, LocalsOK, RunningIsCurrent, LoadedContext, EoiNeverLost,
         Ready, TASK_RUNNABLE, TASK_RUNNING, TASK_BLOCKED, TASK_ZOMBIE, Frames,
         Ring3, Window, ShellPc, SpawnPublish
<1>7. PidsUnique'
  BY DEF TypeOK, LocalsOK, RunningIsCurrent, LoadedContext, PidsUnique, Ready,
         TASK_RUNNABLE, TASK_RUNNING, TASK_BLOCKED, TASK_ZOMBIE, Frames, Ring3,
         Window, ShellPc, SpawnPublish
<1>8. LocalsOK'
  BY DEF TypeOK, LocalsOK, RunningIsCurrent, LoadedContext, Ready,
         TASK_RUNNABLE, TASK_RUNNING, TASK_BLOCKED, TASK_ZOMBIE, Frames, Ring3,
         Window, ShellPc, SpawnPublish
<1> QED
  BY <1>1, <1>2, <1>3, <1>4, <1>5, <1>6, <1>7, <1>8 DEF IInv

\* The shell reads a key.
LEMMA ShellGetcIInv ==
  ASSUME IInv, ShellGetc
  PROVE  IInv'
<1> USE SchedConstants DEF SchedConstants, Slots, UserSlots
<1> TypeOK /\ RunningIsCurrent /\ LoadedContext /\ AddressSpaceLive
  BY DEF IInv
<1> BlockedHasWaker /\ EoiNeverLost /\ PidsUnique /\ LocalsOK
  BY DEF IInv
<1>1. TypeOK'
  <2>1. ring' \in 0..KbdCap
    BY DEF TypeOK, States, Frames, Ring3, ShellPc, ShellGetc, taskVars, hwVars
  <2> QED
    BY <2>1 DEF TypeOK, Frames, Ring3, ShellPc, ShellGetc, taskVars, hwVars
<1>2. RunningIsCurrent' /\ LoadedContext' /\ AddressSpaceLive' /\ BlockedHasWaker'
      /\ EoiNeverLost' /\ PidsUnique' /\ LocalsOK'
  BY DEF RunningIsCurrent, LoadedContext, AddressSpaceLive, BlockedHasWaker,
         EoiNeverLost, PidsUnique, LocalsOK, ShellGetc, taskVars, hwVars, Ready
<1> QED
  BY <1>1, <1>2 DEF IInv

\* sched_yield_to_user picks a task.
LEMMA YieldPickIInv ==
  ASSUME IInv, NEW i \in UserSlots, YieldPick(i)
  PROVE  IInv'
<1> USE SchedConstants DEF SchedConstants, Slots, UserSlots
<1> TypeOK /\ RunningIsCurrent /\ LoadedContext /\ AddressSpaceLive
  BY DEF IInv
<1> BlockedHasWaker /\ EoiNeverLost /\ PidsUnique /\ LocalsOK
  BY DEF IInv
<1>1. TypeOK'
  <2>1. sched_last' \in Slots
    BY DEF TypeOK, States, Frames, Ring3, ShellPc, YieldPick, Picked, taskVars
  <2> QED
    BY <2>1 DEF TypeOK, Frames, Ring3, ShellPc, YieldPick, Picked, taskVars
<1>2. RunningIsCurrent' /\ AddressSpaceLive' /\ BlockedHasWaker' /\ EoiNeverLost'
      /\ PidsUnique'
  BY DEF RunningIsCurrent, AddressSpaceLive, BlockedHasWaker, EoiNeverLost,
         PidsUnique, YieldPick, taskVars
<1>3. LoadedContext'
  BY DEF LoadedContext, YieldPick, taskVars, ShellPc, Ring3
<1>4. LocalsOK'
  BY DEF LocalsOK, Ready, YieldPick, taskVars, Picked, Frames, Ring3, Window
<1> QED
  BY <1>1, <1>2, <1>3, <1>4 DEF IInv

\* ... makes it current.
LEMMA YieldSwitchIInv ==
  ASSUME IInv, YieldSwitch
  PROVE  IInv'
<1> USE SchedConstants DEF SchedConstants, Slots, UserSlots
<1> TypeOK /\ RunningIsCurrent /\ LoadedContext /\ AddressSpaceLive
  BY DEF IInv
<1> BlockedHasWaker /\ EoiNeverLost /\ PidsUnique /\ LocalsOK
  BY DEF IInv
<1>1. TypeOK'
  BY DEF TypeOK, States, Frames, Ring3, Window, ShellPc, YieldSwitch
<1>2. RunningIsCurrent'
  BY DEF TypeOK, LocalsOK, RunningIsCurrent, LoadedContext, Ready,
         TASK_RUNNABLE, TASK_RUNNING, TASK_BLOCKED, TASK_ZOMBIE, Frames, Ring3,
         Window, ShellPc, YieldSwitch
<1>3. LoadedContext'
  BY DEF TypeOK, LocalsOK, RunningIsCurrent, LoadedContext, Ready,
         TASK_RUNNABLE, TASK_RUNNING, TASK_BLOCKED, TASK_ZOMBIE, Frames, Ring3,
         Window, ShellPc, YieldSwitch
<1>4. AddressSpaceLive'
  <2> SUFFICES ASSUME NEW k \in UserSlots
               PROVE  as'[k] <=> user'[k] /\ state'[k] # TASK_ZOMBIE
    BY DEF AddressSpaceLive
  <2>1. as[k] <=> user[k] /\ state[k] # TASK_ZOMBIE
    BY DEF AddressSpaceLive
  <2>2. as' = as /\ user' = user
    BY DEF YieldSwitch
  <2>3. state'[k] = TASK_ZOMBIE <=> state[k] = TASK_ZOMBIE
    BY DEF TypeOK, LocalsOK, Ready, TASK_RUNNABLE, TASK_RUNNING, TASK_BLOCKED, TASK_ZOMBIE, YieldSwitch
  <2> QED
    BY <2>1, <2>2, <2>3
<1>5. BlockedHasWaker'
  BY DEF TypeOK, LocalsOK, RunningIsCurrent, LoadedContext, BlockedHasWaker,
         Ready, TASK_RUNNABLE, TASK_RUNNING, TASK_BLOCKED, TASK_ZOMBIE, Frames,
         Ring3, Window, ShellPc, YieldSwitch
<1>6. EoiNeverLost'
  BY DEF TypeOK, LocalsOK, RunningIsCurrent, LoadedContext, EoiNeverLost,
         Ready, TASK_RUNNABLE, TASK_RUNNING, TASK_BLOCKED, TASK_ZOMBIE, Frames,
         Ring3, Window, ShellPc, YieldSwitch
<1>7. PidsUnique'
  BY DEF TypeOK, LocalsOK, RunningIsCurrent, LoadedContext, PidsUnique, Ready,
         TASK_RUNNABLE, TASK_RUNNING, TASK_BLOCKED, TASK_ZOMBIE, Frames, Ring3,
         Window, ShellPc, YieldSwitch
<1>8. LocalsOK'
  BY DEF TypeOK, LocalsOK, RunningIsCurrent, LoadedContext, Ready,
         TASK_RUNNABLE, TASK_RUNNING, TASK_BLOCKED, TASK_ZOMBIE, Frames, Ring3,
         Window, ShellPc, YieldSwitch
<1> QED
  BY <1>1, <1>2, <1>3, <1>4, <1>5, <1>6, <1>7, <1>8 DEF IInv

\* ... loads its stack, address space and entry frame.
LEMMA YieldFrameIInv ==
  ASSUME IInv, YieldFrame
  PROVE  IInv'
<1> USE SchedConstants DEF SchedConstants, Slots, UserSlots
<1> TypeOK /\ RunningIsCurrent /\ LoadedContext /\ AddressSpaceLive
  BY DEF IInv
<1> BlockedHasWaker /\ EoiNeverLost /\ PidsUnique /\ LocalsOK
  BY DEF IInv
<1>1. TypeOK'
  BY DEF TypeOK, States, Frames, Ring3, Window, ShellPc, YieldFrame, FrameOf
<1>2. RunningIsCurrent' /\ AddressSpaceLive' /\ BlockedHasWaker' /\ EoiNeverLost'
      /\ PidsUnique'
  BY DEF RunningIsCurrent, AddressSpaceLive, BlockedHasWaker, EoiNeverLost,
         PidsUnique, YieldFrame
<1>3. LoadedContext'
  BY DEF LoadedContext, YieldFrame, ShellPc, Ring3
<1>4. LocalsOK'
  BY DEF LocalsOK, Ready, YieldFrame, Frames, Ring3, Window
<1> QED
  BY <1>1, <1>2, <1>3, <1>4 DEF IInv

\* ... copies its context.
LEMMA YieldCopyIInv ==
  ASSUME IInv, YieldCopy
  PROVE  IInv'
<1> USE SchedConstants DEF SchedConstants, Slots, UserSlots
<1> TypeOK /\ RunningIsCurrent /\ LoadedContext /\ AddressSpaceLive
  BY DEF IInv
<1> BlockedHasWaker /\ EoiNeverLost /\ PidsUnique /\ LocalsOK
  BY DEF IInv
<1>1. TypeOK'
  BY DEF TypeOK, States, Frames, Ring3, Window, ShellPc, YieldCopy, taskVars
<1>2. RunningIsCurrent' /\ AddressSpaceLive' /\ BlockedHasWaker' /\ EoiNeverLost'
      /\ PidsUnique'
  BY DEF RunningIsCurrent, AddressSpaceLive, BlockedHasWaker, EoiNeverLost,
         PidsUnique, YieldCopy, taskVars
<1>3. LoadedContext'
  BY DEF LoadedContext, YieldCopy, taskVars, ShellPc, Ring3
<1>4. LocalsOK'
  BY DEF LocalsOK, Ready, YieldCopy, taskVars, Frames, Ring3, Window
<1> QED
  BY <1>1, <1>2, <1>3, <1>4 DEF IInv

\* ... and enters it.
LEMMA YieldEnterIInv ==
  ASSUME IInv, YieldEnter
  PROVE  IInv'
<1> USE SchedConstants DEF SchedConstants, Slots, UserSlots
<1> TypeOK /\ RunningIsCurrent /\ LoadedContext /\ AddressSpaceLive
  BY DEF IInv
<1> BlockedHasWaker /\ EoiNeverLost /\ PidsUnique /\ LocalsOK
  BY DEF IInv
<1>1. TypeOK'
  BY DEF TypeOK, States, Frames, Ring3, Window, ShellPc, YieldEnter, taskVars
<1>2. RunningIsCurrent' /\ AddressSpaceLive' /\ BlockedHasWaker' /\ EoiNeverLost'
      /\ PidsUnique'
  BY DEF RunningIsCurrent, AddressSpaceLive, BlockedHasWaker, EoiNeverLost,
         PidsUnique, YieldEnter, taskVars
<1>3. LoadedContext'
  <2>1. current \in UserSlots /\ rsp0 = current /\ cr3 = current
    BY DEF YieldEnter, LocalsOK, Frames, Ring3, Window
  <2>2. state[current] = TASK_RUNNING /\ user[current]
    BY <2>1 DEF RunningIsCurrent
  <2>3. as[current]
    BY <2>1, <2>2 DEF AddressSpaceLive, TASK_RUNNING, TASK_ZOMBIE
  <2>4. cpu' \in Frames \union {"panic"} /\ UNCHANGED <<as, current, rsp0, cr3>>
    BY DEF YieldEnter, TypeOK, taskVars
  <2>5. cpu' \notin ShellPc
    BY <2>4 DEF Frames, Ring3, Window, ShellPc
  <2> QED
    BY <2>1, <2>3, <2>4, <2>5 DEF LoadedContext
<1>4. LocalsOK'
  BY DEF LocalsOK, Ready, YieldEnter, taskVars, TypeOK, Frames, Ring3, Window
<1> QED
  BY <1>1, <1>2, <1>3, <1>4 DEF IInv

\* The keyboard interrupt, for the three kinds of key.
LEMMA KeyPlainIInv ==
  ASSUME IInv, KeyPlain
  PROVE  IInv'
<1> USE SchedConstants DEF SchedConstants, Slots, UserSlots
<1> TypeOK /\ RunningIsCurrent /\ LoadedContext /\ AddressSpaceLive
  BY DEF IInv
<1> BlockedHasWaker /\ EoiNeverLost /\ PidsUnique /\ LocalsOK
  BY DEF IInv
<1>1. TypeOK'
  <2>1. ring' \in 0..KbdCap
    BY DEF TypeOK, States, Frames, Ring3, ShellPc, KeyPlain, kbd_push, sched_on_key, hwVars
  <2>2. state' \in [Slots -> States]
    BY DEF TypeOK, States, Frames, Ring3, ShellPc, KeyPlain, kbd_push, sched_on_key, hwVars
  <2>3. on_key' \in [Slots -> BOOLEAN]
    BY DEF TypeOK, States, Frames, Ring3, ShellPc, KeyPlain, kbd_push, sched_on_key, hwVars
  <2> QED
    BY <2>1, <2>2, <2>3 DEF TypeOK, Frames, Ring3, ShellPc, KeyPlain, kbd_push, sched_on_key, hwVars
<1>2. LoadedContext' /\ EoiNeverLost' /\ PidsUnique'
  BY DEF LoadedContext, EoiNeverLost, PidsUnique, KeyPlain, hwVars
<1>3. RunningIsCurrent'
  BY DEF RunningIsCurrent, KeyPlain, hwVars, sched_on_key, KeyWoken,
         TASK_RUNNABLE, TASK_RUNNING, TASK_BLOCKED, TASK_ZOMBIE
<1>4. AddressSpaceLive'
  <2> SUFFICES ASSUME NEW k \in UserSlots
               PROVE  as'[k] <=> user'[k] /\ state'[k] # TASK_ZOMBIE
    BY DEF AddressSpaceLive
  <2>1. as[k] <=> user[k] /\ state[k] # TASK_ZOMBIE
    BY DEF AddressSpaceLive
  <2>2. as' = as /\ user' = user
    BY DEF KeyPlain
  <2>3. state'[k] = TASK_ZOMBIE <=> state[k] = TASK_ZOMBIE
    BY DEF TypeOK, TASK_RUNNABLE, TASK_RUNNING, TASK_BLOCKED, TASK_ZOMBIE, KeyPlain, sched_on_key, KeyWoken
  <2> QED
    BY <2>1, <2>2, <2>3
<1>5. BlockedHasWaker'
  <2> SUFFICES ASSUME NEW k \in UserSlots
               PROVE  /\ state'[k] = TASK_BLOCKED => (wake'[k] > 0 <=> ~on_key'[k])
                      /\ state'[k] # TASK_BLOCKED => wake'[k] = 0 /\ ~on_key'[k]
    BY DEF BlockedHasWaker
  <2>1. /\ state[k] = TASK_BLOCKED => (wake[k] > 0 <=> ~on_key[k])
        /\ state[k] # TASK_BLOCKED => wake[k] = 0 /\ ~on_key[k]
    BY DEF BlockedHasWaker
  <2>2. wake' = wake /\ wake[k] \in Nat
    BY DEF TypeOK, KeyPlain
  <2>3. state'[k] = IF KeyWoken(k) THEN TASK_RUNNABLE ELSE state[k]
    BY DEF KeyPlain, sched_on_key, KeyWoken
  <2>4. on_key'[k] = (on_key[k] /\ ~KeyWoken(k))
    <3>1. k \in Slots
      OBVIOUS
    <3> QED
      BY <3>1, Zenon DEF KeyPlain, sched_on_key
  <2> QED
    <3>1. CASE KeyWoken(k)
      <4>1. wake'[k] = 0
        BY <3>1, <2>1, <2>2 DEF KeyWoken
      <4>2. ~on_key'[k]
        BY <3>1, <2>4, Zenon
      <4> QED
        BY <3>1, <4>1, <4>2, <2>3 DEF TASK_RUNNABLE, TASK_BLOCKED
    <3>2. CASE ~KeyWoken(k)
      BY <3>2, <2>1, <2>2, <2>3, <2>4
    <3> QED
      BY <3>1, <3>2
<1>6. LocalsOK'
  BY DEF LocalsOK, KeyPlain, hwVars, sched_on_key, KeyWoken, Ready,
         TASK_RUNNABLE, TASK_RUNNING, TASK_BLOCKED, TASK_ZOMBIE
<1> QED
  BY <1>1, <1>2, <1>3, <1>4, <1>5, <1>6 DEF IInv

\* A key without a character.
LEMMA KeyDeadIInv ==
  ASSUME IInv, KeyDead
  PROVE  IInv'
<1> USE SchedConstants DEF SchedConstants, Slots, UserSlots
<1> TypeOK /\ RunningIsCurrent /\ LoadedContext /\ AddressSpaceLive
  BY DEF IInv
<1> BlockedHasWaker /\ EoiNeverLost /\ PidsUnique /\ LocalsOK
  BY DEF IInv
<1>1. TypeOK'
  BY DEF TypeOK, States, Frames, Ring3, Window, ShellPc, KeyDead, sched_on_key,
         KeyWoken, hwVars
<1>2. LoadedContext' /\ EoiNeverLost' /\ PidsUnique'
  BY DEF LoadedContext, EoiNeverLost, PidsUnique, KeyDead, hwVars
<1>3. RunningIsCurrent'
  BY DEF RunningIsCurrent, KeyDead, hwVars, sched_on_key, KeyWoken,
         TASK_RUNNABLE, TASK_RUNNING, TASK_BLOCKED, TASK_ZOMBIE
<1>4. AddressSpaceLive'
  <2> SUFFICES ASSUME NEW k \in UserSlots
               PROVE  as'[k] <=> user'[k] /\ state'[k] # TASK_ZOMBIE
    BY DEF AddressSpaceLive
  <2>1. as[k] <=> user[k] /\ state[k] # TASK_ZOMBIE
    BY DEF AddressSpaceLive
  <2>2. as' = as /\ user' = user
    BY DEF KeyDead
  <2>3. state'[k] = TASK_ZOMBIE <=> state[k] = TASK_ZOMBIE
    BY DEF TypeOK, TASK_RUNNABLE, TASK_RUNNING, TASK_BLOCKED, TASK_ZOMBIE, KeyDead, sched_on_key, KeyWoken
  <2> QED
    BY <2>1, <2>2, <2>3
<1>5. BlockedHasWaker'
  <2> SUFFICES ASSUME NEW k \in UserSlots
               PROVE  /\ state'[k] = TASK_BLOCKED => (wake'[k] > 0 <=> ~on_key'[k])
                      /\ state'[k] # TASK_BLOCKED => wake'[k] = 0 /\ ~on_key'[k]
    BY DEF BlockedHasWaker
  <2>1. /\ state[k] = TASK_BLOCKED => (wake[k] > 0 <=> ~on_key[k])
        /\ state[k] # TASK_BLOCKED => wake[k] = 0 /\ ~on_key[k]
    BY DEF BlockedHasWaker
  <2>2. wake' = wake /\ wake[k] \in Nat
    BY DEF TypeOK, KeyDead
  <2>3. state'[k] = IF KeyWoken(k) THEN TASK_RUNNABLE ELSE state[k]
    BY DEF KeyDead, sched_on_key, KeyWoken
  <2>4. on_key'[k] = (on_key[k] /\ ~KeyWoken(k))
    <3>1. k \in Slots
      OBVIOUS
    <3> QED
      BY <3>1, Zenon DEF KeyDead, sched_on_key
  <2> QED
    <3>1. CASE KeyWoken(k)
      <4>1. wake'[k] = 0
        BY <3>1, <2>1, <2>2 DEF KeyWoken
      <4>2. ~on_key'[k]
        BY <3>1, <2>4, Zenon
      <4> QED
        BY <3>1, <4>1, <4>2, <2>3 DEF TASK_RUNNABLE, TASK_BLOCKED
    <3>2. CASE ~KeyWoken(k)
      BY <3>2, <2>1, <2>2, <2>3, <2>4
    <3> QED
      BY <3>1, <3>2
<1>6. LocalsOK'
  BY DEF LocalsOK, KeyDead, hwVars, sched_on_key, KeyWoken, Ready,
         TASK_RUNNABLE, TASK_RUNNING, TASK_BLOCKED, TASK_ZOMBIE
<1> QED
  BY <1>1, <1>2, <1>3, <1>4, <1>5, <1>6 DEF IInv

\* An extended key.
LEMMA KeyExtendedIInv ==
  ASSUME IInv, KeyExtended
  PROVE  IInv'
<1> USE SchedConstants DEF SchedConstants, Slots, UserSlots
<1> TypeOK /\ RunningIsCurrent /\ LoadedContext /\ AddressSpaceLive
  BY DEF IInv
<1> BlockedHasWaker /\ EoiNeverLost /\ PidsUnique /\ LocalsOK
  BY DEF IInv
<1>1. TypeOK'
  <2>1. ring' \in 0..KbdCap
    BY DEF TypeOK, States, Frames, Ring3, ShellPc, KeyExtended, kbd_push, taskVars, hwVars
  <2> QED
    BY <2>1 DEF TypeOK, Frames, Ring3, ShellPc, KeyExtended, kbd_push, taskVars, hwVars
<1>2. RunningIsCurrent' /\ LoadedContext' /\ AddressSpaceLive' /\ BlockedHasWaker'
      /\ EoiNeverLost' /\ PidsUnique' /\ LocalsOK'
  BY DEF RunningIsCurrent, LoadedContext, AddressSpaceLive, BlockedHasWaker,
         EoiNeverLost, PidsUnique, LocalsOK, KeyExtended, taskVars, hwVars,
         Ready
<1> QED
  BY <1>1, <1>2 DEF IInv

\* A program takes a key.
LEMMA SysKbdTakeIInv ==
  ASSUME IInv, SysKbdTake
  PROVE  IInv'
<1> USE SchedConstants DEF SchedConstants, Slots, UserSlots
<1> TypeOK /\ RunningIsCurrent /\ LoadedContext /\ AddressSpaceLive
  BY DEF IInv
<1> BlockedHasWaker /\ EoiNeverLost /\ PidsUnique /\ LocalsOK
  BY DEF IInv
<1>1. TypeOK'
  <2>1. ring' \in 0..KbdCap
    BY DEF TypeOK, States, Frames, Ring3, ShellPc, SysKbdTake, taskVars
  <2> QED
    BY <2>1 DEF TypeOK, Frames, Ring3, ShellPc, SysKbdTake, taskVars
<1>2. RunningIsCurrent' /\ AddressSpaceLive' /\ BlockedHasWaker' /\ EoiNeverLost'
      /\ PidsUnique'
  BY DEF RunningIsCurrent, AddressSpaceLive, BlockedHasWaker, EoiNeverLost,
         PidsUnique, SysKbdTake, taskVars
<1>3. LoadedContext'
  BY DEF LoadedContext, SysKbdTake, taskVars, ShellPc, Ring3
<1>4. LocalsOK'
  BY DEF LocalsOK, Ready, SysKbdTake, taskVars, Frames, Ring3, Window
<1> QED
  BY <1>1, <1>2, <1>3, <1>4 DEF IInv

\* kbd_wait on an empty ring.
LEMMA SysKbdWaitBlockIInv ==
  ASSUME IInv, SysKbdWaitBlock
  PROVE  IInv'
<1> USE SchedConstants DEF SchedConstants, Slots, UserSlots
<1> TypeOK /\ RunningIsCurrent /\ LoadedContext /\ AddressSpaceLive
  BY DEF IInv
<1> BlockedHasWaker /\ EoiNeverLost /\ PidsUnique /\ LocalsOK
  BY DEF IInv
<1>1. TypeOK'
  <2>1. state' \in [Slots -> States]
    BY DEF TypeOK, States, Frames, Ring3, ShellPc, SysKbdWaitBlock, FrameOf
  <2>2. wake' \in [Slots -> Nat]
    BY DEF TypeOK, States, Frames, Ring3, ShellPc, SysKbdWaitBlock, FrameOf
  <2>3. on_key' \in [Slots -> BOOLEAN]
    BY DEF TypeOK, States, Frames, Ring3, ShellPc, SysKbdWaitBlock, FrameOf
  <2>4. started' \in [Slots -> BOOLEAN]
    BY DEF TypeOK, States, Frames, Ring3, ShellPc, SysKbdWaitBlock, FrameOf
  <2>5. ctx' \in [Slots -> Frames]
    BY DEF TypeOK, States, Frames, Ring3, ShellPc, SysKbdWaitBlock, FrameOf
  <2>6. sched_last' \in Slots
    BY DEF TypeOK, States, Frames, Ring3, ShellPc, SysKbdWaitBlock, FrameOf
  <2>7. cpu' = "shell" /\ current' = 0 /\ rsp0' = 0 /\ cr3' = 0 /\ framer' = 0
    BY DEF SysKbdWaitBlock
  <2> 0 \in Slots
    OBVIOUS
  <2>8. UNCHANGED <<pid, user, as, next_pid, next, frame, eoi, ring>>
    BY DEF SysKbdWaitBlock
  <2> QED
    BY <2>1, <2>2, <2>3, <2>4, <2>5, <2>6, <2>7, <2>8 DEF TypeOK, ShellPc
<1>2. RunningIsCurrent'
  BY DEF TypeOK, LocalsOK, RunningIsCurrent, LoadedContext, Ready,
         TASK_RUNNABLE, TASK_RUNNING, TASK_BLOCKED, TASK_ZOMBIE, Frames, Ring3,
         Window, ShellPc, SysKbdWaitBlock, WaitSwept, FrameOf, NonePicked
<1>3. LoadedContext'
  BY DEF TypeOK, LocalsOK, RunningIsCurrent, LoadedContext, Ready,
         TASK_RUNNABLE, TASK_RUNNING, TASK_BLOCKED, TASK_ZOMBIE, Frames, Ring3,
         Window, ShellPc, SysKbdWaitBlock, WaitSwept, FrameOf, NonePicked
<1>4. AddressSpaceLive'
  <2> SUFFICES ASSUME NEW k \in UserSlots
               PROVE  as'[k] <=> user'[k] /\ state'[k] # TASK_ZOMBIE
    BY DEF AddressSpaceLive
  <2>1. as[k] <=> user[k] /\ state[k] # TASK_ZOMBIE
    BY DEF AddressSpaceLive
  <2>2. as' = as /\ user' = user
    BY DEF SysKbdWaitBlock
  <2>3. state'[k] = TASK_ZOMBIE <=> state[k] = TASK_ZOMBIE
    BY DEF TypeOK, RunningIsCurrent, LocalsOK, Frames, Ring3, TASK_RUNNABLE, TASK_RUNNING, TASK_BLOCKED, TASK_ZOMBIE, SysKbdWaitBlock,
           WaitSwept, Ready
  <2> QED
    BY <2>1, <2>2, <2>3
<1>5. BlockedHasWaker'
  BY DEF TypeOK, LocalsOK, RunningIsCurrent, LoadedContext, BlockedHasWaker,
         Ready, TASK_RUNNABLE, TASK_RUNNING, TASK_BLOCKED, TASK_ZOMBIE, Frames,
         Ring3, Window, ShellPc, SysKbdWaitBlock, WaitSwept, FrameOf,
         NonePicked
<1>6. EoiNeverLost'
  BY DEF TypeOK, LocalsOK, RunningIsCurrent, LoadedContext, EoiNeverLost,
         Ready, TASK_RUNNABLE, TASK_RUNNING, TASK_BLOCKED, TASK_ZOMBIE, Frames,
         Ring3, Window, ShellPc, SysKbdWaitBlock, WaitSwept, FrameOf,
         NonePicked
<1>7. PidsUnique'
  BY DEF TypeOK, LocalsOK, RunningIsCurrent, LoadedContext, PidsUnique, Ready,
         TASK_RUNNABLE, TASK_RUNNING, TASK_BLOCKED, TASK_ZOMBIE, Frames, Ring3,
         Window, ShellPc, SysKbdWaitBlock, WaitSwept, FrameOf, NonePicked
<1>8. LocalsOK'
  BY DEF TypeOK, LocalsOK, RunningIsCurrent, LoadedContext, Ready,
         TASK_RUNNABLE, TASK_RUNNING, TASK_BLOCKED, TASK_ZOMBIE, Frames, Ring3,
         Window, ShellPc, SysKbdWaitBlock, WaitSwept, FrameOf, NonePicked
<1> QED
  BY <1>1, <1>2, <1>3, <1>4, <1>5, <1>6, <1>7, <1>8 DEF IInv

(***************************************************************************)
(* The handlers that end in sched_switch_to_next.  Each shows that it gives *)
(* a table without a RUNNING task to the switch, and the lemma SwitchEffect *)
(* does the rest; this lemma collects what they share.                     *)
(***************************************************************************)
LEMMA SwitchIInv ==
  ASSUME IInv,
         NEW st \in [Slots -> States], NEW cx \in [Slots -> Frames],
         \A i \in UserSlots : st[i] # TASK_RUNNING,
         \A i \in UserSlots : ~user[i] => st[i] = TASK_RUNNABLE,
         sched_switch_to_next(st, cx),
         UNCHANGED <<pid, user, next_pid, next, frame, ring>>,
         wake' \in [Slots -> Nat], on_key' \in [Slots -> BOOLEAN],
         as' \in [Slots -> BOOLEAN], eoi' = FALSE,
         \A i \in UserSlots : as'[i] <=> user[i] /\ st[i] # TASK_ZOMBIE,
         \A i \in UserSlots :
           /\ st[i] = TASK_BLOCKED => (wake'[i] > 0 <=> ~on_key'[i])
           /\ st[i] # TASK_BLOCKED => wake'[i] = 0 /\ ~on_key'[i]
  PROVE  IInv'
<1> USE SchedConstants DEF SchedConstants, Slots, UserSlots
<1> TypeOK /\ PidsUnique /\ LocalsOK
  BY DEF IInv
<1>0. /\ state' \in [Slots -> States]
      /\ started' \in [Slots -> BOOLEAN]
      /\ ctx' \in [Slots -> Frames]
      /\ current' \in Slots /\ sched_last' \in Slots /\ framer' \in Slots
      /\ rsp0' = current' /\ cr3' = current'
      /\ \A i \in UserSlots : state'[i] = TASK_RUNNING <=> current' = i
      /\ \A i \in UserSlots : current' # i => state'[i] = st[i]
      /\ \/ cpu' = "shell" /\ current' = 0
         \/ cpu' \in Frames /\ Picked(st, current')
  BY SwitchEffect
<1>1. TypeOK'
  <2>1. cpu' \in Frames \union ShellPc
    BY <1>0 DEF ShellPc
  <2>2. rsp0' \in Slots /\ cr3' \in Slots /\ eoi' \in BOOLEAN
    BY <1>0
  <2> QED
    BY <1>0, <2>1, <2>2 DEF TypeOK
<1>2. cpu' \in Frames => current' \in UserSlots /\ user[current']
                        /\ st[current'] = TASK_RUNNABLE
  BY <1>0 DEF Picked, Ready, Frames, Ring3, Window
<1>3. cpu' \in ShellPc => cpu' = "shell" /\ current' = 0
  BY <1>0 DEF ShellPc, Frames, Ring3, Window
<1>4. RunningIsCurrent'
  BY <1>0, <1>2, <1>3 DEF RunningIsCurrent
<1>5. AddressSpaceLive'
  <2> SUFFICES ASSUME NEW k \in UserSlots
               PROVE  as'[k] <=> user'[k] /\ state'[k] # TASK_ZOMBIE
    BY DEF AddressSpaceLive
  <2>1. state'[k] = TASK_ZOMBIE <=> st[k] = TASK_ZOMBIE
    <3>1. CASE current' = k
      BY <1>0, <1>2, <3>1 DEF TASK_RUNNABLE, TASK_RUNNING, TASK_ZOMBIE
    <3>2. CASE current' # k
      BY <1>0, <3>2
    <3> QED
      BY <3>1, <3>2
  <2>2. user' = user
    OBVIOUS
  <2> QED
    BY <2>1, <2>2
<1>6. LoadedContext'
  <2>1. ASSUME cpu' \in Ring3
        PROVE  rsp0' = current' /\ cr3' = current' /\ as'[current']
    <3>1. current' \in UserSlots /\ user[current'] /\ st[current'] = TASK_RUNNABLE
      BY <1>2, <2>1 DEF Frames
    <3>2. as'[current']
      BY <3>1 DEF TASK_RUNNABLE, TASK_ZOMBIE
    <3> QED
      BY <1>0, <3>2
  <2> QED
    BY <1>0, <1>3, <2>1 DEF LoadedContext
<1>7. BlockedHasWaker'
  <2> SUFFICES ASSUME NEW k \in UserSlots
               PROVE  /\ state'[k] = TASK_BLOCKED => (wake'[k] > 0 <=> ~on_key'[k])
                      /\ state'[k] # TASK_BLOCKED => wake'[k] = 0 /\ ~on_key'[k]
    BY DEF BlockedHasWaker
  <2>1. state'[k] = TASK_BLOCKED <=> st[k] = TASK_BLOCKED
    <3>1. CASE current' = k
      BY <1>0, <1>2, <3>1 DEF TASK_RUNNABLE, TASK_RUNNING, TASK_BLOCKED
    <3>2. CASE current' # k
      BY <1>0, <3>2
    <3> QED
      BY <3>1, <3>2
  <2> QED
    BY <2>1
<1>8. EoiNeverLost' /\ PidsUnique'
  BY DEF EoiNeverLost, PidsUnique
<1>9. LocalsOK'
  <2>1. \A i \in UserSlots : ~user[i] => state'[i] = TASK_RUNNABLE
    BY <1>0, <1>2, <1>3 DEF Frames, Ring3, Window, ShellPc
  <2> QED
    BY <1>0, <1>2, <2>1 DEF LocalsOK, Frames, Ring3, Window
<1> QED
  BY <1>1, <1>4, <1>5, <1>6, <1>7, <1>8, <1>9 DEF IInv

\* The timer interrupt.  While the shell runs it only wakes sleepers; while a
\* user task runs it also preempts, and since the preempted task is runnable
\* again the pick never comes back empty.
LEMMA TickIInv ==
  ASSUME IInv, Tick
  PROVE  IInv'
<1> USE SchedConstants DEF SchedConstants, Slots, UserSlots
<1> TypeOK /\ RunningIsCurrent /\ LoadedContext /\ AddressSpaceLive
  BY DEF IInv
<1> BlockedHasWaker /\ EoiNeverLost /\ PidsUnique /\ LocalsOK
  BY DEF IInv
<1>1. TickStates \in [Slots -> States] /\ TickWake \in [Slots -> Nat]
  BY DEF TypeOK, TickStates, TickWake, States
<1>2. \A k \in UserSlots :
        /\ TickStates[k] = TASK_ZOMBIE <=> state[k] = TASK_ZOMBIE
        /\ TickStates[k] = TASK_RUNNING <=> state[k] = TASK_RUNNING
  BY DEF TickStates, Woken, TASK_RUNNABLE, TASK_RUNNING, TASK_BLOCKED, TASK_ZOMBIE
<1>3. \A k \in UserSlots :
        /\ TickStates[k] = TASK_BLOCKED => (TickWake[k] > 0 <=> ~on_key[k])
        /\ TickStates[k] # TASK_BLOCKED => TickWake[k] = 0 /\ ~on_key[k]
  <2> SUFFICES ASSUME NEW k \in UserSlots
               PROVE  /\ TickStates[k] = TASK_BLOCKED => (TickWake[k] > 0 <=> ~on_key[k])
                      /\ TickStates[k] # TASK_BLOCKED => TickWake[k] = 0 /\ ~on_key[k]
    OBVIOUS
  <2>1. wake[k] \in Nat /\ TickWake[k] = IF wake[k] > 0 THEN wake[k] - 1 ELSE 0
    BY DEF TypeOK, TickWake
  <2>2. TickStates[k] = IF Woken(k) THEN TASK_RUNNABLE ELSE state[k]
    BY DEF TickStates
  <2>3. /\ state[k] = TASK_BLOCKED => (wake[k] > 0 <=> ~on_key[k])
        /\ state[k] # TASK_BLOCKED => wake[k] = 0 /\ ~on_key[k]
    BY DEF BlockedHasWaker
  <2> QED
    BY <2>1, <2>2, <2>3 DEF Woken, TASK_RUNNABLE, TASK_RUNNING, TASK_BLOCKED, TASK_ZOMBIE
<1>4. CASE ~user[current]
  <2>1. /\ state' = TickStates /\ wake' = TickWake /\ eoi' = FALSE
        /\ UNCHANGED <<pid, user, started, as, on_key, ctx, current, next_pid,
                       sched_last, cpu, next, frame, framer, rsp0, cr3, ring>>
    BY <1>4 DEF Tick
  <2>2. TypeOK'
    BY <1>1, <2>1 DEF TypeOK
  <2>3. RunningIsCurrent' /\ LoadedContext' /\ EoiNeverLost' /\ PidsUnique'
    BY <1>2, <2>1 DEF RunningIsCurrent, LoadedContext, EoiNeverLost, PidsUnique
  <2>4. AddressSpaceLive'
    BY <1>2, <2>1 DEF AddressSpaceLive
  <2>5. BlockedHasWaker'
    BY <1>3, <2>1 DEF BlockedHasWaker
  <2>6. LocalsOK'
    BY <2>1 DEF LocalsOK, Ready, TickStates, Woken, TASK_RUNNABLE, TASK_RUNNING, TASK_BLOCKED, TASK_ZOMBIE
  <2> QED
    BY <2>2, <2>3, <2>4, <2>5, <2>6 DEF IInv
<1>5. CASE user[current]
  <2> DEFINE st == [TickStates EXCEPT ![current] = TASK_RUNNABLE]
             cx == [ctx EXCEPT ![current] = cpu]
  <2>1. current \in UserSlots /\ cpu \in Frames
    BY <1>5 DEF Tick, LocalsOK, LoadedContext, TypeOK
  <2>2. st \in [Slots -> States] /\ cx \in [Slots -> Frames]
    BY <1>1, <2>1 DEF TypeOK, States
  <2>3. \A k \in UserSlots : st[k] # TASK_RUNNING
    BY <1>1, <1>2, <2>1 DEF RunningIsCurrent, TASK_RUNNABLE, TASK_RUNNING, TASK_BLOCKED, TASK_ZOMBIE
  <2>4. sched_switch_to_next(st, cx)
    BY <1>5 DEF Tick, sched_preempt
  <2>5. Ready(st, current)
    BY <1>1, <1>5, <2>1 DEF Ready
  <2>6. ~NonePicked(st)
    BY <2>1, <2>5 DEF NonePicked
  <2>7. cpu' # "shell"
    <3> HIDE DEF st, cx
    <3>1. cpu' \in Frames
      BY <2>2, <2>3, <2>4, <2>6, SwitchEffect
    <3> QED
      BY <3>1 DEF Frames, Ring3, Window
  <2>8. /\ eoi' = FALSE /\ wake' = TickWake
        /\ UNCHANGED <<pid, user, as, on_key, next_pid, next, frame, ring>>
    BY <1>5, <2>7 DEF Tick
  <2>9. \A k \in UserSlots : as'[k] <=> user[k] /\ st[k] # TASK_ZOMBIE
    <3> SUFFICES ASSUME NEW k \in UserSlots
                 PROVE  as[k] <=> user[k] /\ st[k] # TASK_ZOMBIE
      BY <2>8
    <3>1. st[k] = TASK_ZOMBIE <=> state[k] = TASK_ZOMBIE
      BY <1>1, <1>2, <2>1 DEF RunningIsCurrent, TASK_RUNNABLE, TASK_RUNNING, TASK_BLOCKED, TASK_ZOMBIE
    <3> QED
      BY <3>1 DEF AddressSpaceLive
  <2>10. \A k \in UserSlots :
           /\ st[k] = TASK_BLOCKED => (wake'[k] > 0 <=> ~on_key'[k])
           /\ st[k] # TASK_BLOCKED => wake'[k] = 0 /\ ~on_key'[k]
    <3> SUFFICES ASSUME NEW k \in UserSlots
                 PROVE  /\ st[k] = TASK_BLOCKED => (TickWake[k] > 0 <=> ~on_key[k])
                        /\ st[k] # TASK_BLOCKED => TickWake[k] = 0 /\ ~on_key[k]
      BY <2>8
    <3>1. st[k] = TASK_BLOCKED <=> TickStates[k] = TASK_BLOCKED
      BY <1>1, <1>2, <2>1 DEF RunningIsCurrent, TASK_RUNNABLE, TASK_RUNNING, TASK_BLOCKED, TASK_ZOMBIE
    <3> QED
      BY <1>3, <3>1
  <2>11. wake' \in [Slots -> Nat] /\ on_key' \in [Slots -> BOOLEAN]
         /\ as' \in [Slots -> BOOLEAN]
    BY <1>1, <2>8 DEF TypeOK
  <2>12. \A k \in UserSlots : ~user[k] => st[k] = TASK_RUNNABLE
    BY <1>1, <2>1 DEF LocalsOK, TickStates
  <2> HIDE DEF st, cx
  <2> QED
    BY <2>2, <2>3, <2>4, <2>8, <2>9, <2>10, <2>11, <2>12, SwitchIInv
<1> QED
  BY <1>4, <1>5

\* A sleep always leaves a wake time: at least one tick.
LEMMA SleepTicksPositive ==
  ASSUME NEW ms \in SleepMs
  PROVE  SleepTicks(ms) \in Nat /\ SleepTicks(ms) > 0
<1>1. ms \in Nat
  BY SchedConstants DEF SchedConstants
<1>2. (ms * PIT_HZ) \div 1000 \in Nat
  BY <1>1 DEF PIT_HZ
<1> QED
  BY <1>2 DEF SleepTicks

\* SYS_EXIT and the kill path.
LEMMA ExitIInv ==
  ASSUME IInv, sched_exit_user
  PROVE  IInv'
<1> USE SchedConstants DEF SchedConstants, Slots, UserSlots
<1> TypeOK /\ RunningIsCurrent /\ LoadedContext /\ AddressSpaceLive
  BY DEF IInv
<1> BlockedHasWaker /\ EoiNeverLost /\ PidsUnique /\ LocalsOK
  BY DEF IInv
<1> DEFINE st == [state EXCEPT ![current] = TASK_ZOMBIE]
           cx == ctx
<1>1. current \in UserSlots /\ user[current] /\ cpu \in Ring3
  BY DEF sched_exit_user, LocalsOK, Frames, RunningIsCurrent
<1>2. st \in [Slots -> States] /\ cx \in [Slots -> Frames]
  BY <1>1 DEF TypeOK, States, Frames, Ring3
<1>3. \A k \in UserSlots : st[k] # TASK_RUNNING
  BY <1>1 DEF TypeOK, RunningIsCurrent, TASK_RUNNABLE, TASK_RUNNING, TASK_BLOCKED, TASK_ZOMBIE
<1>4. /\ sched_switch_to_next(st, cx) /\ eoi' = FALSE
      /\ UNCHANGED <<pid, user, next_pid, next, frame, ring>>
  BY DEF sched_exit_user, EoiNeverLost
<1>5. wake' = wake /\ on_key' = on_key /\ as' = [as EXCEPT ![current] = FALSE]
  BY DEF sched_exit_user
<1>6. \A k \in UserSlots : as'[k] <=> user[k] /\ st[k] # TASK_ZOMBIE
  <2> SUFFICES ASSUME NEW k \in UserSlots
               PROVE  as'[k] <=> user[k] /\ st[k] # TASK_ZOMBIE
    OBVIOUS
  <2>1. as[k] <=> user[k] /\ state[k] # TASK_ZOMBIE
    BY DEF AddressSpaceLive
  <2>2. CASE k = current
    <3>1. ~as'[k]
      BY <1>5, <2>2 DEF TypeOK
    <3>2. st[k] = TASK_ZOMBIE
      BY <2>2 DEF TypeOK
    <3> QED
      BY <3>1, <3>2
  <2>3. CASE k # current
    <3>1. as'[k] = as[k] /\ st[k] = state[k]
      BY <1>5, <2>3 DEF TypeOK
    <3> QED
      BY <2>1, <3>1
  <2> QED
    BY <2>2, <2>3
<1>7. \A k \in UserSlots :
        /\ st[k] = TASK_BLOCKED => (wake'[k] > 0 <=> ~on_key'[k])
        /\ st[k] # TASK_BLOCKED => wake'[k] = 0 /\ ~on_key'[k]
  <2> SUFFICES ASSUME NEW k \in UserSlots
               PROVE  /\ st[k] = TASK_BLOCKED => (wake[k] > 0 <=> ~on_key[k])
                      /\ st[k] # TASK_BLOCKED => wake[k] = 0 /\ ~on_key[k]
    BY <1>5
  <2>1. st[k] = TASK_BLOCKED <=> state[k] = TASK_BLOCKED
    BY <1>1 DEF TypeOK, RunningIsCurrent, TASK_RUNNABLE, TASK_RUNNING, TASK_BLOCKED, TASK_ZOMBIE
  <2> QED
    BY <2>1 DEF BlockedHasWaker
<1>8. /\ wake' \in [Slots -> Nat] /\ on_key' \in [Slots -> BOOLEAN]
      /\ as' \in [Slots -> BOOLEAN]
  BY <1>5 DEF TypeOK
<1>9. \A k \in UserSlots : ~user[k] => st[k] = TASK_RUNNABLE
  BY <1>1 DEF LocalsOK, TypeOK
<1> HIDE DEF st, cx
<1> QED
  BY <1>2, <1>3, <1>4, <1>6, <1>7, <1>8, <1>9, SwitchIInv

\* SYS_YIELD.
LEMMA SysYieldIInv ==
  ASSUME IInv, SysYield
  PROVE  IInv'
<1> USE SchedConstants DEF SchedConstants, Slots, UserSlots
<1> TypeOK /\ RunningIsCurrent /\ LoadedContext /\ AddressSpaceLive
  BY DEF IInv
<1> BlockedHasWaker /\ EoiNeverLost /\ PidsUnique /\ LocalsOK
  BY DEF IInv
<1> DEFINE st == [state EXCEPT ![current] = TASK_RUNNABLE]
           cx == [ctx EXCEPT ![current] = "user"]
<1>1. current \in UserSlots /\ user[current] /\ cpu \in Ring3
  BY DEF SysYield, LocalsOK, Frames, RunningIsCurrent
<1>2. st \in [Slots -> States] /\ cx \in [Slots -> Frames]
  BY <1>1 DEF TypeOK, States, Frames, Ring3
<1>3. \A k \in UserSlots : st[k] # TASK_RUNNING
  BY <1>1 DEF TypeOK, RunningIsCurrent, TASK_RUNNABLE, TASK_RUNNING, TASK_BLOCKED, TASK_ZOMBIE
<1>4. /\ sched_switch_to_next(st, cx) /\ eoi' = FALSE
      /\ UNCHANGED <<pid, user, next_pid, next, frame, ring>>
  BY DEF SysYield, EoiNeverLost
<1>5. wake' = wake /\ on_key' = on_key /\ as' = as
  BY DEF SysYield
<1>6. \A k \in UserSlots : as'[k] <=> user[k] /\ st[k] # TASK_ZOMBIE
  <2> SUFFICES ASSUME NEW k \in UserSlots
               PROVE  as[k] <=> user[k] /\ st[k] # TASK_ZOMBIE
    BY <1>5
  <2>1. st[k] = TASK_ZOMBIE <=> state[k] = TASK_ZOMBIE
    BY <1>1 DEF TypeOK, RunningIsCurrent, TASK_RUNNABLE, TASK_RUNNING, TASK_BLOCKED, TASK_ZOMBIE
  <2> QED
    BY <2>1 DEF AddressSpaceLive
<1>7. \A k \in UserSlots :
        /\ st[k] = TASK_BLOCKED => (wake'[k] > 0 <=> ~on_key'[k])
        /\ st[k] # TASK_BLOCKED => wake'[k] = 0 /\ ~on_key'[k]
  <2> SUFFICES ASSUME NEW k \in UserSlots
               PROVE  /\ st[k] = TASK_BLOCKED => (wake[k] > 0 <=> ~on_key[k])
                      /\ st[k] # TASK_BLOCKED => wake[k] = 0 /\ ~on_key[k]
    BY <1>5
  <2>1. st[k] = TASK_BLOCKED <=> state[k] = TASK_BLOCKED
    BY <1>1 DEF TypeOK, RunningIsCurrent, TASK_RUNNABLE, TASK_RUNNING, TASK_BLOCKED, TASK_ZOMBIE
  <2> QED
    BY <2>1 DEF BlockedHasWaker
<1>8. /\ wake' \in [Slots -> Nat] /\ on_key' \in [Slots -> BOOLEAN]
      /\ as' \in [Slots -> BOOLEAN]
  BY <1>5 DEF TypeOK
<1>9. \A k \in UserSlots : ~user[k] => st[k] = TASK_RUNNABLE
  BY <1>1 DEF LocalsOK, TypeOK
<1> HIDE DEF st, cx
<1> QED
  BY <1>2, <1>3, <1>4, <1>6, <1>7, <1>8, <1>9, SwitchIInv

\* SYS_SLEEP.
LEMMA SysSleepIInv ==
  ASSUME IInv, NEW ms \in SleepMs, SysSleep(ms)
  PROVE  IInv'
<1> USE SchedConstants DEF SchedConstants, Slots, UserSlots
<1> TypeOK /\ RunningIsCurrent /\ LoadedContext /\ AddressSpaceLive
  BY DEF IInv
<1> BlockedHasWaker /\ EoiNeverLost /\ PidsUnique /\ LocalsOK
  BY DEF IInv
<1> DEFINE st == [state EXCEPT ![current] = TASK_BLOCKED]
           cx == [ctx EXCEPT ![current] = "user"]
<1>1. current \in UserSlots /\ user[current] /\ cpu \in Ring3
  BY DEF SysSleep, LocalsOK, Frames, RunningIsCurrent
<1>2. st \in [Slots -> States] /\ cx \in [Slots -> Frames]
  BY <1>1 DEF TypeOK, States, Frames, Ring3
<1>3. \A k \in UserSlots : st[k] # TASK_RUNNING
  BY <1>1 DEF TypeOK, RunningIsCurrent, TASK_RUNNABLE, TASK_RUNNING, TASK_BLOCKED, TASK_ZOMBIE
<1>4. /\ sched_switch_to_next(st, cx) /\ eoi' = FALSE
      /\ UNCHANGED <<pid, user, next_pid, next, frame, ring>>
  BY DEF SysSleep, EoiNeverLost
<1>5. wake' = [wake EXCEPT ![current] = SleepTicks(ms)] /\ on_key' = [on_key EXCEPT ![current] = FALSE] /\ as' = as
  BY DEF SysSleep
<1>6. \A k \in UserSlots : as'[k] <=> user[k] /\ st[k] # TASK_ZOMBIE
  <2> SUFFICES ASSUME NEW k \in UserSlots
               PROVE  as[k] <=> user[k] /\ st[k] # TASK_ZOMBIE
    BY <1>5
  <2>1. st[k] = TASK_ZOMBIE <=> state[k] = TASK_ZOMBIE
    BY <1>1 DEF TypeOK, RunningIsCurrent, TASK_RUNNABLE, TASK_RUNNING, TASK_BLOCKED, TASK_ZOMBIE
  <2> QED
    BY <2>1 DEF AddressSpaceLive
<1>7. \A k \in UserSlots :
        /\ st[k] = TASK_BLOCKED => (wake'[k] > 0 <=> ~on_key'[k])
        /\ st[k] # TASK_BLOCKED => wake'[k] = 0 /\ ~on_key'[k]
  <2> SUFFICES ASSUME NEW k \in UserSlots
               PROVE  /\ st[k] = TASK_BLOCKED => (wake'[k] > 0 <=> ~on_key'[k])
                      /\ st[k] # TASK_BLOCKED => wake'[k] = 0 /\ ~on_key'[k]
    OBVIOUS
  <2>1. SleepTicks(ms) \in Nat /\ SleepTicks(ms) > 0
    BY SleepTicksPositive
  <2>2. CASE k = current
    <3>1. wake'[k] > 0
      BY <1>5, <2>1, <2>2 DEF TypeOK
    <3>2. ~on_key'[k]
      BY <1>5, <2>2 DEF TypeOK
    <3>3. st[k] = TASK_BLOCKED
      BY <2>2 DEF TypeOK
    <3> QED
      BY <3>1, <3>2, <3>3
  <2>3. CASE k # current
    <3>1. wake'[k] = wake[k] /\ on_key'[k] = on_key[k] /\ st[k] = state[k]
      BY <1>5, <2>3 DEF TypeOK
    <3> QED
      BY <3>1 DEF BlockedHasWaker
  <2> QED
    BY <2>2, <2>3
<1>8. /\ wake' \in [Slots -> Nat] /\ on_key' \in [Slots -> BOOLEAN]
      /\ as' \in [Slots -> BOOLEAN]
  BY <1>5, SleepTicksPositive DEF TypeOK
<1>9. \A k \in UserSlots : ~user[k] => st[k] = TASK_RUNNABLE
  BY <1>1 DEF LocalsOK, TypeOK
<1> HIDE DEF st, cx
<1> QED
  BY <1>2, <1>3, <1>4, <1>6, <1>7, <1>8, <1>9, SwitchIInv

\* Every step keeps the invariant.
LEMMA NextIInv ==
  ASSUME IInv, [Next]_vars
  PROVE  IInv'
<1>1. CASE Shell
  BY <1>1, SpawnClaimIInv, SpawnFailIInv, SpawnPublishIInv, ShellGetcIInv,
     YieldPickIInv, YieldSwitchIInv, YieldFrameIInv, YieldCopyIInv, YieldEnterIInv
     DEF Shell, Yield
<1>2. CASE Interrupt
  BY <1>2, TickIInv, KeyPlainIInv, KeyDeadIInv, KeyExtendedIInv DEF Interrupt
<1>3. CASE Syscall
  BY <1>3, ExitIInv, SysSleepIInv, SysYieldIInv, SysKbdTakeIInv,
     SysKbdWaitBlockIInv DEF Syscall
<1>4. CASE UNCHANGED vars
  BY <1>4 DEF vars, IInv, TypeOK, RunningIsCurrent, LoadedContext,
     AddressSpaceLive, BlockedHasWaker, EoiNeverLost, PidsUnique, LocalsOK, Ready
<1> QED
  BY <1>1, <1>2, <1>3, <1>4 DEF Next, Halted

\* The inductive invariant holds in every reachable state of the scheduler.
THEOREM SchedInvariant == Spec => []IInv
<1>1. Init => IInv
  BY InitIInv
<1>2. IInv /\ [Next]_vars => IInv'
  BY NextIInv
<1> QED
  BY <1>1, <1>2, PTL DEF Spec

\* Type correctness of the task table and the CPU state.
THEOREM TypeCorrect == Spec => []TypeOK
<1>1. IInv => TypeOK
  BY DEF IInv
<1> QED
  BY <1>1, SchedInvariant, PTL

\* sched.c keeps `current` and the RUNNING state in step across every switch:
\* at most one user task is RUNNING, and it is the current one.
THEOREM OneRunningTask == Spec => []RunningIsCurrent
<1>1. IInv => RunningIsCurrent
  BY DEF IInv
<1> QED
  BY <1>1, SchedInvariant, PTL

\* In ring 3 the loaded kernel stack and address space are the live ones of the
\* current task, also after a tick has cut through sched_yield_to_user between
\* its switch and its return to the program.
THEOREM OwnContextLoaded == Spec => []LoadedContext
<1>1. IInv => LoadedContext
  BY DEF IInv
<1> QED
  BY <1>1, SchedInvariant, PTL

\* No freed address space can be picked, whatever spawns fail or slots are
\* reused.
THEOREM NoStaleAddressSpace == Spec => [](AddressSpaceLive)
<1>1. IInv => AddressSpaceLive
  BY DEF IInv
<1> QED
  BY <1>1, SchedInvariant, PTL

\* Every blocked task has something that wakes it.
THEOREM NoLostSleeper == Spec => [](BlockedHasWaker)
<1>1. IInv => BlockedHasWaker
  BY DEF IInv
<1> QED
  BY <1>1, SchedInvariant, PTL

\* The timer handler always acknowledges its interrupt.
THEOREM TimerKeepsRunning == Spec => [](EoiNeverLost)
<1>1. IInv => EoiNeverLost
  BY DEF IInv
<1> QED
  BY <1>1, SchedInvariant, PTL

\* Live tasks have different pids.
THEOREM LivePidsUnique == Spec => [](PidsUnique)
<1>1. IInv => PidsUnique
  BY DEF IInv
<1> QED
  BY <1>1, SchedInvariant, PTL

(***************************************************************************)
(* Action properties.  A step either ends in sched_switch_to_next, or picks *)
(* a task in sched_yield_to_user, or is the sweep of kbd_wait, or leaves    *)
(* sched_last alone and does not give the CPU back to the shell.           *)
(***************************************************************************)
KeepsSleeping(st) ==
  \A i \in UserSlots :
    state[i] = TASK_BLOCKED /\ wake[i] > 1
      => st[i] = TASK_BLOCKED /\ wake'[i] >= wake[i] - 1

SwitchStep ==
  \E st \in [Slots -> States], cx \in [Slots -> Frames] :
    /\ \A i \in UserSlots : st[i] # TASK_RUNNING
    /\ sched_switch_to_next(st, cx)
    /\ user' = user
    /\ KeepsSleeping(st)

QuietStep ==
  /\ sched_last' = sched_last
  /\ KeepsSleeping(state')

\* The four handlers that preempt, block or end the current task.
LEMMA SwitchSteps ==
  ASSUME IInv,
         \/ Tick /\ user[current]
         \/ sched_exit_user
         \/ SysYield
         \/ \E ms \in SleepMs : SysSleep(ms)
  PROVE  SwitchStep
<1> USE SchedConstants DEF SchedConstants, Slots, UserSlots
<1> TypeOK /\ RunningIsCurrent /\ LoadedContext /\ LocalsOK
  BY DEF IInv
<1>1. current \in UserSlots /\ cpu \in Frames /\ state[current] = TASK_RUNNING
  BY DEF LocalsOK, LoadedContext, TypeOK, RunningIsCurrent, Frames, Ring3,
         Tick, sched_exit_user, SysYield, SysSleep
<1>2. CASE Tick /\ user[current]
  <2> DEFINE st == [TickStates EXCEPT ![current] = TASK_RUNNABLE]
             cx == [ctx EXCEPT ![current] = cpu]
  <2>1. TickStates \in [Slots -> States]
    BY DEF TypeOK, TickStates, States
  <2>2. st \in [Slots -> States] /\ cx \in [Slots -> Frames]
    BY <1>1, <2>1 DEF TypeOK, States
  <2>3. \A k \in UserSlots : st[k] # TASK_RUNNING
    BY <1>1, <2>1 DEF TickStates, RunningIsCurrent, TASK_RUNNABLE, TASK_RUNNING, TASK_BLOCKED, TASK_ZOMBIE
  <2>4. sched_switch_to_next(st, cx) /\ user' = user
    BY <1>2 DEF Tick, sched_preempt
  <2>5. KeepsSleeping(st)
    <3> SUFFICES ASSUME NEW k \in UserSlots, state[k] = TASK_BLOCKED, wake[k] > 1
                 PROVE  st[k] = TASK_BLOCKED /\ wake'[k] >= wake[k] - 1
      BY DEF KeepsSleeping
    <3>1. wake[k] \in Nat /\ wake'[k] = wake[k] - 1
      BY <1>2 DEF Tick, TickWake, TypeOK
    <3>2. st[k] = TASK_BLOCKED
      BY <1>1, <2>1 DEF TickStates, Woken, TASK_RUNNING, TASK_BLOCKED
    <3> QED
      BY <3>1, <3>2
  <2> HIDE DEF st, cx
  <2> QED
    BY <2>2, <2>3, <2>4, <2>5 DEF SwitchStep
<1>3. ASSUME NEW v \in {TASK_ZOMBIE, TASK_RUNNABLE, TASK_BLOCKED},
             NEW cx \in [Slots -> Frames],
             sched_switch_to_next([state EXCEPT ![current] = v], cx),
             user' = user,
             \A k \in UserSlots : k # current => wake'[k] = wake[k]
      PROVE  SwitchStep
  <2> DEFINE st == [state EXCEPT ![current] = v]
  <2>1. st \in [Slots -> States]
    BY <1>1 DEF TypeOK, States
  <2>2. \A k \in UserSlots : st[k] # TASK_RUNNING
    BY <1>1 DEF TypeOK, RunningIsCurrent, TASK_RUNNABLE, TASK_RUNNING, TASK_BLOCKED, TASK_ZOMBIE
  <2>3. KeepsSleeping(st)
    <3> SUFFICES ASSUME NEW k \in UserSlots, state[k] = TASK_BLOCKED, wake[k] > 1
                 PROVE  st[k] = TASK_BLOCKED /\ wake'[k] >= wake[k] - 1
      BY DEF KeepsSleeping
    <3>1. k # current
      BY <1>1 DEF TASK_RUNNING, TASK_BLOCKED
    <3>2. wake[k] \in Nat /\ wake'[k] = wake[k]
      BY <1>3, <3>1 DEF TypeOK
    <3> QED
      BY <3>1, <3>2 DEF TypeOK
  <2>4. sched_switch_to_next(st, cx) /\ user' = user
    BY <1>3
  <2> HIDE DEF st
  <2> QED
    BY <2>1, <2>2, <2>3, <2>4 DEF SwitchStep
<1>4. ctx \in [Slots -> Frames] /\ [ctx EXCEPT ![current] = "user"] \in [Slots -> Frames]
  BY <1>1 DEF TypeOK, Frames, Ring3
<1>5. CASE sched_exit_user
  <2>1. user' = user /\ wake' = wake
    BY <1>5 DEF sched_exit_user
  <2>2. sched_switch_to_next([state EXCEPT ![current] = TASK_ZOMBIE], ctx)
    BY <1>5 DEF sched_exit_user
  <2> QED
    BY <1>3, <1>4, <2>1, <2>2
<1>6. CASE SysYield
  <2>1. user' = user /\ wake' = wake
    BY <1>6 DEF SysYield
  <2>2. sched_switch_to_next([state EXCEPT ![current] = TASK_RUNNABLE],
                             [ctx EXCEPT ![current] = "user"])
    BY <1>6 DEF SysYield
  <2> QED
    BY <1>3, <1>4, <2>1, <2>2
<1>7. CASE \E ms \in SleepMs : SysSleep(ms)
  <2>1. PICK ms \in SleepMs : SysSleep(ms)
    BY <1>7
  <2>2. user' = user /\ wake' = [wake EXCEPT ![current] = SleepTicks(ms)]
    BY <2>1 DEF SysSleep
  <2>3. sched_switch_to_next([state EXCEPT ![current] = TASK_BLOCKED],
                             [ctx EXCEPT ![current] = "user"])
    BY <2>1 DEF SysSleep
  <2>4. \A k \in UserSlots : k # current => wake'[k] = wake[k]
    BY <2>2 DEF TypeOK
  <2> QED
    BY <1>3, <1>4, <2>2, <2>3, <2>4
<1> QED
  BY <1>2, <1>5, <1>6, <1>7

\* All other steps are quiet.
LEMMA StepKinds ==
  ASSUME IInv, [Next]_vars
  PROVE  SwitchStep \/ Yield \/ SysKbdWaitBlock \/ QuietStep
<1> USE SchedConstants DEF SchedConstants, Slots, UserSlots
<1> TypeOK /\ RunningIsCurrent /\ LoadedContext /\ BlockedHasWaker /\ LocalsOK
    /\ PidsUnique
  BY DEF IInv
<1>1. ASSUME state' = state, wake' = wake
      PROVE  KeepsSleeping(state')
  BY <1>1 DEF KeepsSleeping, TypeOK
<1>2. CASE Shell /\ ~Yield
  <2>1. sched_last' = sched_last
    BY <1>2 DEF Shell, SpawnClaim, SpawnFail, SpawnPublish, ShellGetc, YieldSwitch,
       YieldFrame, YieldCopy, YieldEnter, taskVars, hwVars
  <2>2. KeepsSleeping(state')
    <3> SUFFICES ASSUME NEW k \in UserSlots, state[k] = TASK_BLOCKED, wake[k] > 1
                 PROVE  state'[k] = TASK_BLOCKED /\ wake'[k] >= wake[k] - 1
      BY DEF KeepsSleeping
    <3>1. CASE \E i \in UserSlots : SpawnClaim(i)
      <4>1. PICK i \in UserSlots : SpawnClaim(i)
        BY <3>1
      <4>2. pid[k] # 0
        BY DEF LocalsOK, PidsUnique, TASK_BLOCKED, TASK_RUNNABLE
      <4>3. k # i
        BY <4>1, <4>2 DEF SpawnClaim, FreeSlot, TASK_BLOCKED, TASK_ZOMBIE
      <4>4. state'[k] = state[k] /\ wake'[k] = wake[k]
        BY <4>1, <4>3 DEF SpawnClaim, TypeOK
      <4> QED
        BY <4>4 DEF TypeOK
    <3>2. CASE YieldSwitch \/ SpawnPublish
      <4>1. state[next] = TASK_RUNNABLE
        BY <3>2 DEF YieldSwitch, SpawnPublish, LocalsOK, Ready
      <4>2. k # next
        BY <4>1 DEF TASK_RUNNABLE, TASK_BLOCKED
      <4>3. wake' = wake /\ \E v : state' = [state EXCEPT ![next] = v]
        BY <3>2 DEF YieldSwitch, SpawnPublish
      <4>4. state'[k] = state[k]
        BY <4>2, <4>3 DEF TypeOK
      <4> QED
        BY <4>3, <4>4 DEF TypeOK
    <3>3. CASE SpawnFail \/ ShellGetc \/ YieldFrame \/ YieldCopy \/ YieldEnter
      <4>1. state' = state /\ wake' = wake
        BY <3>3 DEF SpawnFail, ShellGetc, YieldFrame, YieldCopy, YieldEnter, taskVars
      <4> QED
        BY <4>1 DEF TypeOK
    <3> QED
      BY <1>2, <3>1, <3>2, <3>3 DEF Shell
  <2> QED
    BY <2>1, <2>2 DEF QuietStep
<1>3. CASE Interrupt
  <2>1. CASE Tick /\ user[current]
    BY <2>1, SwitchSteps
  <2>2. CASE Tick /\ ~user[current]
    <3>1. /\ state' = TickStates /\ wake' = TickWake
          /\ sched_last' = sched_last
      BY <2>2 DEF Tick
    <3>2. KeepsSleeping(state')
      BY <3>1 DEF KeepsSleeping, TickStates, TickWake, Woken, TypeOK
    <3> QED
      BY <3>1, <3>2 DEF QuietStep
  <2>3. CASE KeyPlain \/ KeyDead \/ KeyExtended
    <3>1. sched_last' = sched_last /\ wake' = wake
      BY <2>3 DEF KeyPlain, KeyDead, KeyExtended, taskVars, hwVars
    <3>2. KeepsSleeping(state')
      <4> SUFFICES ASSUME NEW k \in UserSlots, state[k] = TASK_BLOCKED, wake[k] > 1
                   PROVE  state'[k] = TASK_BLOCKED
        BY <3>1 DEF KeepsSleeping, TypeOK
      <4>1. ~on_key[k]
        BY DEF BlockedHasWaker, TypeOK
      <4>2. ~KeyWoken(k)
        BY <4>1 DEF KeyWoken
      <4>3. ASSUME sched_on_key PROVE state'[k] = state[k]
        BY <4>2, <4>3 DEF sched_on_key
      <4>4. sched_on_key \/ state' = state
        BY <2>3 DEF KeyPlain, KeyDead, KeyExtended, taskVars
      <4> QED
        BY <4>3, <4>4
    <3> QED
      BY <3>1, <3>2 DEF QuietStep
  <2> QED
    BY <1>3, <2>1, <2>2, <2>3 DEF Interrupt
<1>4. CASE SysKbdTake
  <2>1. sched_last' = sched_last /\ state' = state /\ wake' = wake
    BY <1>4 DEF SysKbdTake, taskVars
  <2> QED
    BY <1>1, <2>1 DEF QuietStep
<1>5. CASE UNCHANGED vars \/ Halted
  <2>1. sched_last' = sched_last /\ state' = state /\ wake' = wake
    BY <1>5 DEF Halted, vars
  <2> QED
    BY <1>1, <2>1 DEF QuietStep
<1> QED
  BY <1>2, <1>3, <1>4, <1>5, SwitchSteps DEF Next, Syscall

\* The arithmetic of the scan: moving sched_last to a slot j that comes before
\* i in the scan brings i nearer.
LEMMA DistShrinks ==
  ASSUME TypeOK, NEW i \in UserSlots, NEW j \in UserSlots,
         i # j, j # sched_last, sched_last' = j, Dist(j) <= Dist(i)
  PROVE  Dist(i)' < Dist(i)
  BY SchedConstants DEF SchedConstants, TypeOK, Slots, UserSlots, Dist

\* Round robin, for every size of the table: a pick that passes over a ready
\* task brings it strictly nearer to its turn (sched_pick_user).
THEOREM RoundRobinHolds == Spec => RoundRobin
<1> USE SchedConstants DEF SchedConstants, Slots, UserSlots
<1> DEFINE RR == \A i \in UserSlots :
       Ready(state, i) /\ Ready(state, i)' /\ sched_last' \notin {sched_last, i}
         => Dist(i)' < Dist(i)
<1>1. ASSUME IInv, [Next]_vars PROVE RR
  <2> SUFFICES ASSUME NEW i \in UserSlots, Ready(state, i), Ready(state, i)',
                      sched_last' \notin {sched_last, i}
               PROVE  Dist(i)' < Dist(i)
    OBVIOUS
  <2> TypeOK
    BY <1>1 DEF IInv
  <2>1. CASE SwitchStep
    <3>1. PICK st \in [Slots -> States], cx \in [Slots -> Frames] :
            /\ \A k \in UserSlots : st[k] # TASK_RUNNING
            /\ sched_switch_to_next(st, cx)
            /\ user' = user
      BY <2>1 DEF SwitchStep
    <3>2. Picked(st, sched_last') /\ current' = sched_last'
      BY <1>1, <3>1, SwitchEffect
    <3>3. state'[i] = st[i]
      BY <1>1, <3>1, <3>2, SwitchEffect
    <3>4. Ready(st, i)
      BY <3>1, <3>3 DEF Ready
    <3>5. sched_last' \in UserSlots /\ Dist(sched_last') <= Dist(i)
      BY <3>2, <3>4 DEF Picked, Ready
    <3> QED
      BY <3>5, DistShrinks
  <2>2. CASE Yield
    <3>1. PICK j \in UserSlots : YieldPick(j)
      BY <2>2 DEF Yield
    <3>2. sched_last' = j /\ Dist(j) <= Dist(i)
      BY <3>1 DEF YieldPick, Picked
    <3> QED
      BY <3>2, DistShrinks
  <2>3. CASE SysKbdWaitBlock
    <3>1. state'[i] = TASK_BLOCKED
      BY <2>3 DEF SysKbdWaitBlock, WaitSwept
    <3>2. state'[i] = TASK_RUNNABLE
      BY DEF Ready
    <3> QED
      BY <3>1, <3>2 DEF TASK_BLOCKED, TASK_RUNNABLE
  <2>4. CASE QuietStep
    BY <2>4 DEF QuietStep
  <2> QED
    BY <1>1, <2>1, <2>2, <2>3, <2>4, StepKinds
<1>2. IInv /\ [Next]_vars => [RR]_vars
  BY <1>1
<1> QED
  BY <1>2, SchedInvariant, PTL DEF Spec, RoundRobin

\* A sleep is never cut short, by keys, by other tasks or by the reuse of
\* slots.
THEOREM SleepNotCutHolds == Spec => SleepNotCut
<1> USE SchedConstants DEF SchedConstants, Slots, UserSlots
<1> DEFINE SN == \A i \in UserSlots :
       state[i] = TASK_BLOCKED /\ wake[i] > 1
         => state'[i] = TASK_BLOCKED /\ wake'[i] >= wake[i] - 1
<1>1. ASSUME IInv, [Next]_vars PROVE SN
  <2> SUFFICES ASSUME NEW i \in UserSlots, state[i] = TASK_BLOCKED, wake[i] > 1
               PROVE  state'[i] = TASK_BLOCKED /\ wake'[i] >= wake[i] - 1
    OBVIOUS
  <2> TypeOK /\ RunningIsCurrent /\ LocalsOK
    BY <1>1 DEF IInv
  <2>1. CASE SwitchStep
    <3>1. PICK st \in [Slots -> States], cx \in [Slots -> Frames] :
            /\ \A k \in UserSlots : st[k] # TASK_RUNNING
            /\ sched_switch_to_next(st, cx)
            /\ KeepsSleeping(st)
      BY <2>1 DEF SwitchStep
    <3>2. st[i] = TASK_BLOCKED /\ wake'[i] >= wake[i] - 1
      BY <3>1 DEF KeepsSleeping
    <3>3. Picked(st, current') \/ current' = 0
      BY <1>1, <3>1, SwitchEffect
    <3>4. current' # i
      BY <3>2, <3>3 DEF Picked, Ready, TASK_RUNNABLE, TASK_BLOCKED
    <3>5. state'[i] = st[i]
      BY <1>1, <3>1, <3>4, SwitchEffect
    <3> QED
      BY <3>2, <3>5
  <2>2. CASE Yield
    <3>1. state' = state /\ wake' = wake
      BY <2>2 DEF Yield, YieldPick, taskVars
    <3> QED
      BY <3>1 DEF TypeOK
  <2>3. CASE SysKbdWaitBlock
    <3>1. ~WaitSwept(i)
      BY <2>3 DEF SysKbdWaitBlock, WaitSwept, Ready, LocalsOK, Frames, RunningIsCurrent,
         TASK_RUNNABLE, TASK_RUNNING, TASK_BLOCKED
    <3>2. state'[i] = state[i] /\ wake'[i] = wake[i]
      BY <2>3, <3>1 DEF SysKbdWaitBlock
    <3> QED
      BY <3>2 DEF TypeOK
  <2>4. CASE QuietStep
    BY <2>4 DEF QuietStep, KeepsSleeping
  <2> QED
    BY <1>1, <2>1, <2>2, <2>3, <2>4, StepKinds
<1>2. IInv /\ [Next]_vars => [SN]_vars
  BY <1>1
<1> QED
  BY <1>2, SchedInvariant, PTL DEF Spec, SleepNotCut
=============================================================================
