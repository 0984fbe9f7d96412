------------------------------- MODULE Interact -------------------------------
(***************************************************************************)
(* The interaction log (src/kernel/noc/interact.c): what the shell records *)
(* of every command, its checkpoint on disk, and the two models that train *)
(* on it while nobody types (the triggers of train.c and trans.c, polled   *)
(* from kbd_readc).                                                        *)
(*                                                                         *)
(* A character is a member of a small set; a tag such as "[CMD] ", and the *)
(* prefix "NOC: " of an error, is one character.  One step of the clock is *)
(* a second.  Kernel code is never preempted by another task, so a call    *)
(* into the log is one step; what programs and builtins do while a command *)
(* runs or waits for a key are steps of their own.                         *)
(***************************************************************************)
EXTENDS Integers, SequencesExt

CONSTANTS IL_RING_SIZE, IL_FILE_MAX, IL_CAP_MAX,
          NEW_MIN,       \* IDLE_NEW_MIN, TRANS_IDLE_NEW_MIN
          TRAIN_MIN,     \* TRAIN_MIN, TRANS_MIN
          Commands,      \* what may be typed
          Output,        \* characters a command may print
          Seconds,       \* idle thresholds that may be asked for
          MaxQuiet,      \* bound: seconds counted since the last key
          MaxCommands,   \* bound: commands typed
          MaxSteps,      \* bound: characters printed and builtins run by commands
          MaxEvents,     \* bound: processes spawned or ended
          MaxBoots       \* bound: reboots

\* What the log may hold: what is printed or typed, and what records add to it.
Octets == Output \cup {"nl", "\\", "n", "r", "t", "x", "none",
                     "TICK", "CMD", "OUT", "ERR", "SPAWN", "EXIT"}

ASSUME InteractAssumption ==
  /\ IL_RING_SIZE \in Nat /\ IL_RING_SIZE >= 2
  /\ IL_FILE_MAX \in 1..(IL_RING_SIZE - 1)
  /\ IL_CAP_MAX \in Nat \ {0}
  /\ NEW_MIN \in Nat \ {0} /\ TRAIN_MIN \in Nat
  /\ MaxQuiet \in Nat \ {0} /\ Seconds \subseteq Nat
  /\ Commands \subseteq Seq(Octets)
  \* An escaped payload fits the log, so that Cut does nothing: 2 * 512 + 1
  \* and 2 * 1024 bytes of 64 KiB.
  /\ \A c \in Commands : c # <<>> /\ 2 * Len(c) + 1 <= IL_RING_SIZE - 2
  /\ 2 * IL_CAP_MAX <= IL_RING_SIZE - 2

Models == {"bigram", "trans"}
NoFile == <<"none">>
IdleDefault == 2   \* 30 s

VARIABLES
  il,        \* il_ring[0 .. il_len-1] and il_records
  cap,       \* il_cap[0 .. il_cap_len-1]
  cap_on,    \* il_cap_on
  typed,     \* the command that runs, <<>> at the prompt
  file,      \* contents of interact.log, NoFile before the first save
  mark,      \* train_watermark of each model
  idle,      \* idle_secs of each model
  quiet,     \* seconds since last_input_tick
  left,      \* how many of each the bounds still allow
  hist,      \* history: the bytes written since the log was last empty, and
             \* where in them records end
  saved,     \* history: hist when the checkpoint was written
  whole,     \* history: log and checkpoint stem from complete writes
  fresh      \* history: bytes logged since each model last trained

logVars == <<il, cap, cap_on, typed, file, mark, idle, quiet, left,
             hist, saved, whole, fresh>>

Len0 == Len(il.ring)
NoLog == [ring |-> <<>>, records |-> 0]
NoBytes == [bytes |-> <<>>, ends |-> {}]

LogInit ==
  /\ il = NoLog
  /\ cap = <<>> /\ cap_on = FALSE /\ typed = <<>> /\ file = NoFile
  /\ mark = [m \in Models |-> 0] /\ idle = [m \in Models |-> IdleDefault] /\ quiet = 0
  /\ left = [commands |-> MaxCommands, steps |-> MaxSteps, events |-> MaxEvents,
             boots |-> MaxBoots]
  /\ hist = NoBytes /\ saved = NoBytes /\ whole = [log |-> TRUE, file |-> TRUE]
  /\ fresh = [m \in Models |-> 0]

-----------------------------------------------------------------------------
(* Records *)

\* Places up to which the loop of il_append may drop: ends of records, and
\* the end of the log.
Ends(r) == {i \in DOMAIN r : r[i] = "nl"} \cup {Len(r)}

\* What a record keeps of its text; never cut in practice.
Cut(s) == SubSeq(s, 1, Min({Len(s), IL_RING_SIZE - 2}))

\* Mutant of il_append: whole records are not kept whole when the log is full.
il_append_AnyByte(l, s) ==
  LET t == Cut(s)
      k == Max({0, Len(l.ring) + Len(t) + 2 - IL_RING_SIZE}) IN
  [ring    |-> SubSeq(l.ring, k + 1, Len(l.ring)) \o t \o <<"nl">>,
   records |-> l.records + 1 - Cardinality({i \in Ends(l.ring) : i <= k /\ i > 0})]

\* Whole records leave at the front until the new one fits.
il_append(l, s) ==
  LET t == Cut(s)
      k == Min({i \in {0} \cup Ends(l.ring) :
                  Len(l.ring) - i + Len(t) + 1 <= IL_RING_SIZE - 1})
      gone == Cardinality({i \in Ends(l.ring) : i <= k /\ i > 0}) IN
  [ring    |-> SubSeq(l.ring, k + 1, Len(l.ring)) \o t \o <<"nl">>,
   records |-> Max({0, l.records - gone}) + 1]

Escape(c) ==
  CASE c = "\\" -> <<"\\", "\\">>
    [] c = "nl" -> <<"\\", "n">>
    [] c = "cr" -> <<"\\", "r">>
    [] c = "tab" -> <<"\\", "t">>
    [] c = "ctl" -> <<>>
    [] OTHER -> <<c>>

\* The text of a record: its tag and the escaped payload (of at most
\* IL_CAP_MAX characters, so the buffer of il_append_esc never limits it).
Tagged(tag, s) == <<tag>> \o FlattenSeq([i \in DOMAIN s |-> Escape(s[i])])

\* The log and what is known of its past, before and after the record s.
LogState == [il |-> il, hist |-> hist, fresh |-> fresh]

Appended(g, s) ==
  LET l == il_append(g.il, s)
      n == Len(s) + 1 IN
  [il    |-> l,
   hist  |-> [bytes |-> g.hist.bytes \o Append(s, "nl"),
              ends  |-> g.hist.ends \cup {Len(g.hist.bytes) + n}],
   fresh |-> [m \in Models |-> g.fresh[m] + n]]

LogBecomes(g) == il' = g.il /\ hist' = g.hist /\ fresh' = g.fresh

-----------------------------------------------------------------------------
(* A command, from the prompt back to the prompt *)

Running == typed # <<>>
Spend(what) == left[what] > 0 /\ left' = [left EXCEPT ![what] = @ - 1]
Idle == <<mark, idle, quiet>>
Rest == <<file, saved, whole>>

Begin(c) ==
  /\ ~Running /\ Spend("commands")
  /\ typed' = c /\ cap' = <<>> /\ cap_on' = TRUE
  /\ UNCHANGED <<il, Idle, Rest, hist, fresh>>

\* Mutant of Captured: no room is left for the terminator.
Captured_Full(s) ==
  IF cap_on THEN SubSeq(cap \o s, 1, Min({Len(cap) + Len(s), IL_CAP_MAX})) ELSE cap

\* il_capture_putc, for what the command, or a program that runs meanwhile,
\* prints.
Captured(s) ==
  IF cap_on THEN SubSeq(cap \o s, 1, Min({Len(cap) + Len(s), IL_CAP_MAX - 1})) ELSE cap

Put(c) ==
  /\ Running /\ Spend("steps")
  /\ cap' = Captured(<<c>>)
  /\ cap' # cap
  /\ UNCHANGED <<il, cap_on, typed, Idle, Rest, hist, fresh>>

\* The captured output without the line ends at its end.
Stripped ==
  SubSeq(cap, 1, Max({0} \cup {i \in DOMAIN cap : cap[i] \notin {"nl", "cr"}}))

OutputRecord(s) ==
  IF s[1] = "error" THEN Tagged("ERR", Tail(s)) ELSE Tagged("OUT", s)

\* il_end_capture: a tick marker, the command and, if any, its output.
End ==
  LET cmd == Appended(Appended(LogState, <<"TICK">>), Tagged("CMD", typed)) IN
  /\ Running
  /\ LogBecomes(IF Stripped = <<>> THEN cmd ELSE Appended(cmd, OutputRecord(Stripped)))
  /\ cap_on' = FALSE /\ cap' = <<>> /\ typed' = <<>>
  /\ UNCHANGED <<Idle, left, Rest>>

\* il_event_spawn, il_event_exit: a command spawns, a program ends while the
\* shell waits for a key.
Event(tag) ==
  /\ tag = "SPAWN" => Running
  /\ Spend("events")
  /\ LogBecomes(Appended(LogState, <<tag>>))
  /\ UNCHANGED <<cap, cap_on, typed, Idle, Rest>>

-----------------------------------------------------------------------------
(* Checkpoint *)

\* The bytes il_save writes: the end of the log, from behind the first line
\* end in the window if the log is longer than the window.
Window ==
  LET off == Len0 - Min({Len0, IL_FILE_MAX})
      ends == {i \in (off + 1)..Len0 : il.ring[i] = "nl"} IN
  IF Len0 > IL_FILE_MAX /\ ends # {}
    THEN SubSeq(il.ring, Min(ends) + 1, Len0)
    ELSE SubSeq(il.ring, off + 1, Len0)

\* il_save; with nothing to save it only says so.
LogSave ==
  /\ Running /\ Spend("steps")
  /\ Window # <<>>
  /\ file' = Window
  /\ saved' = hist /\ whole' = [whole EXCEPT !.file = whole.log]
  /\ cap' = Captured(<<"x">>)
  /\ UNCHANGED <<il, cap_on, typed, Idle, hist, fresh>>

\* The disk is full: the file cannot be created, or its old clusters have
\* been overwritten when no further one is found.
LogSaveFails ==
  /\ Running /\ Spend("steps")
  /\ Window # <<>>
  /\ \/ file = NoFile /\ UNCHANGED <<file, whole>>
     \/ /\ file # NoFile /\ Len(Window) > Len(file)
        /\ file' = SubSeq(Window, 1, Len(file))
        /\ whole' = [whole EXCEPT !.file = FALSE]
  /\ cap' = Captured(<<"x">>)
  /\ UNCHANGED <<il, cap_on, typed, Idle, hist, saved, fresh>>

LogClear ==
  /\ Running /\ Spend("steps")
  /\ il' = NoLog
  /\ hist' = NoBytes /\ whole' = [whole EXCEPT !.log = TRUE]
  /\ cap' = Captured(<<"x">>)
  /\ UNCHANGED <<cap_on, typed, Idle, file, saved, fresh>>

\* Power goes at any moment; il_load, train_init and trans_init follow.
Reboot ==
  LET ring == IF file = NoFile \/ Len(file) > IL_FILE_MAX THEN <<>> ELSE file IN
  /\ Spend("boots")
  /\ il' = [ring |-> ring, records |-> Cardinality({i \in DOMAIN ring : ring[i] = "nl"})]
  /\ cap' = <<>> /\ cap_on' = FALSE /\ typed' = <<>>
  /\ mark' = [m \in Models |-> Len(ring)] /\ idle' = [m \in Models |-> IdleDefault] /\ quiet' = 0
  /\ hist' = (IF ring = <<>> THEN NoBytes ELSE saved)
  /\ whole' = [whole EXCEPT !.log = ring = <<>> \/ whole.file]
  /\ fresh' = [m \in Models |-> 0]
  /\ UNCHANGED <<file, saved>>

-----------------------------------------------------------------------------
(* Training *)

\* Mutant of Trains: the watermark is not advanced.
Trains_KeepsMark(ms, able) ==
  LET done == {m \in ms : Len0 >= TRAIN_MIN /\ (m = "trans" => able)} IN
  /\ mark' = mark
  /\ fresh' = [m \in Models |-> IF m \in done THEN 0 ELSE fresh[m]]
  /\ cap' = Captured([k \in 1..Cardinality(done) |-> "x"])

\* The models in ms are asked to train on the end of the log.  The new
\* watermark is set first: a log that is too short, or memory that is too
\* short for the transformer, makes them return without having trained.
Trains(ms, able) ==
  LET done == {m \in ms : Len0 >= TRAIN_MIN /\ (m = "trans" => able)} IN
  /\ mark' = [m \in Models |-> IF m \in ms THEN Len0 ELSE mark[m]]
  /\ fresh' = [m \in Models |-> IF m \in done THEN 0 ELSE fresh[m]]
  /\ cap' = Captured([k \in 1..Cardinality(done) |-> "x"])

\* Train and TransTrain.
Train(m) ==
  /\ Running /\ Spend("steps")
  /\ \E able \in BOOLEAN : Trains({m}, able)
  /\ UNCHANGED <<il, cap_on, typed, idle, quiet, Rest, hist>>

\* TrainIdle and TransIdle.
SetIdle(m, secs) ==
  /\ Running /\ Spend("steps")
  /\ idle' = [idle EXCEPT ![m] = Max({1, secs})]
  /\ cap' = Captured(<<"x">>)
  /\ UNCHANGED <<il, cap_on, typed, mark, quiet, Rest, hist, fresh>>

\* The conditions of train_poll_idle and trans_poll_idle.  (That the tick of
\* the last input is not 0 is certain: boot sleeps before train_init.)
Due(m) == quiet >= idle[m] /\ Len0 >= mark[m] + NEW_MIN

\* One turn of the loop in kbd_readc, at the prompt or in a command.
PollIdle ==
  /\ \E m \in Models : Due(m)
  /\ \E able \in BOOLEAN : Trains({m \in Models : Due(m)}, able)
  /\ UNCHANGED <<il, cap_on, typed, idle, quiet, left, Rest, hist>>

Second ==
  /\ quiet < MaxQuiet
  /\ quiet' = quiet + 1
  /\ UNCHANGED <<il, cap, cap_on, typed, mark, idle, left, Rest, hist, fresh>>

\* kbd_getc returns a key and resets the idle clocks.
Key ==
  /\ quiet > 0
  /\ quiet' = 0
  /\ UNCHANGED <<il, cap, cap_on, typed, mark, idle, left, Rest, hist, fresh>>

LogNext ==
  \/ \E c \in Commands : Begin(c)
  \/ \E c \in Output : Put(c)
  \/ End
  \/ \E tag \in {"SPAWN", "EXIT"} : Event(tag)
  \/ LogSave \/ LogSaveFails \/ LogClear \/ Reboot
  \/ \E m \in Models : Train(m) \/ \E secs \in Seconds : SetIdle(m, secs)
  \/ PollIdle \/ Second \/ Key

LogSpec == LogInit /\ [][LogNext]_logVars

-----------------------------------------------------------------------------
(* Properties *)

LogTypeOK ==
  /\ Len0 < IL_RING_SIZE /\ il.records \in 0..Len0
  /\ Len(cap) < IL_CAP_MAX
  /\ file = NoFile \/ Len(file) \in 1..IL_FILE_MAX
  /\ mark \in [Models -> 0..(IL_RING_SIZE - 1)] /\ idle \in [Models -> Nat \ {0}]

\* The bytes b are the last records of the history h, whole ones only, from
\* behind place k.
LastRecords(h, b, k) == k \in {0} \cup h.ends /\ b = SubSeq(h.bytes, k + 1, Len(h.bytes))

\* However full the log was, whatever was printed and wherever a save or a
\* reboot fell, the log consists of the most recent records, none cut or
\* merged, il_records counts them, and the checkpoint consists of the most
\* recent records of its time (interact.c:19 "dropping whole oldest records
\* until it fits", :50 "so multi-line output stays one record", :117 "align
\* the checkpoint to a record boundary").
LogIsSuffix ==
  /\ whole.log =>
       \E k \in {0} \cup hist.ends : /\ LastRecords(hist, il.ring, k)
                                    /\ il.records = Cardinality({e \in hist.ends : e > k})
  /\ file # NoFile /\ whole.file => \E k \in {0} \cup saved.ends : LastRecords(saved, file, k)

\* "The watermark gate means it only fires on genuinely new bytes"
\* (trans.c:1101): a model that is due has at least that many bytes it has not
\* trained on, whatever manual training, failed training, clearing, reboots and
\* evictions came in between.
OnlyGenuinelyNew == \A m \in Models : Due(m) => fresh[m] >= NEW_MIN

\* M5-AI.md's trigger, "System idle for >30 seconds AND log has >=1024 new
\* bytes" (64 since): with so many bytes in the log that a model has not trained
\* on, and nobody typing, it is due.
NewBytesTrigger ==
  \A m \in Models : quiet >= idle[m] /\ Min({fresh[m], Len0}) >= NEW_MIN => Due(m)
=============================================================================
