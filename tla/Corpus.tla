-------------------------------- MODULE Corpus --------------------------------
(***************************************************************************)
(* The versioned corpus of accepted drafts (src/kernel/noc/corpus.c): a    *)
(* commit writes the version file, last_known_good.noc and corpus.seq one  *)
(* after the other; each write may fail, and power may go at any moment.   *)
(*                                                                         *)
(* A file is Absent, Empty (created, nothing written) or its contents.  A  *)
(* write goes into the old clusters before the inode follows, so one that  *)
(* stops in between leaves the new bytes cut at the old size, a part of    *)
(* both, or all of the new ones (contents that are not whole); see module  *)
(* NoosFS for the file system itself.                                      *)
(***************************************************************************)
EXTENDS Integers, SequencesExt

CONSTANTS Programs,   \* drafts that pass the syntax check and were spawned
          Base,       \* 10: digits of version numbers
          NameDigits, \* 4: digits in the name of a version file
          MaxSeq,     \* bound: version numbers used
          MaxFaults   \* bound: failed writes and power losses

ASSUME CorpusAssumption ==
  Base \in Nat /\ Base >= 2 /\ NameDigits \in Nat \ {0} /\ MaxSeq \in Nat /\ MaxFaults \in Nat

Absent == [kind |-> "none"]
Empty == [kind |-> "empty"]
Text(seq, parent, prog) ==
  [kind |-> "text", seq |-> seq, parent |-> parent, prog |-> prog, whole |-> TRUE]
NoProgram == "none"

VARIABLES
  vers,     \* the version files, by the number in their name
  lkg,      \* last_known_good.noc
  seqf,     \* corpus.seq: digits in its cluster, and its size
  pc,       \* which write of a commit comes next, or "idle"
  job,      \* the contents being committed
  spawned,  \* what the last rollback spawned, NoProgram if it refused
  faults,   \* faults still allowed
  reported, \* history: versions reported as saved
  seqLost,  \* history: a write of corpus.seq was not completed
  lkgTorn   \* history: the last write of last_known_good was not completed

corpusVars == <<vers, lkg, seqf, pc, job, spawned, faults, reported, seqLost, lkgTorn>>

Names == 0..(Base^NameDigits - 1)

\* corp_name keeps the last digits of the version number.
corp_name(seq) == seq % Base^NameDigits

CorpusInit ==
  /\ vers = [n \in Names |-> Absent] /\ lkg = Absent
  /\ seqf = Absent
  /\ pc = "idle" /\ job = Empty /\ spawned = NoProgram /\ faults = MaxFaults
  /\ reported = {} /\ seqLost = FALSE /\ lkgTorn = FALSE

-----------------------------------------------------------------------------
(* corpus.seq *)

NDigits(n) == CHOOSE k \in 1..(n + 1) : n < Base^k /\ \A j \in 1..(k - 1) : n >= Base^j
Digits(n) == [i \in 1..NDigits(n) |-> (n \div Base^(NDigits(n) - i)) % Base]

\* The number in the digits that the size covers, 0 without a file.
Number(f) ==
  IF f \in {Absent, Empty} THEN 0
  ELSE LET n == Min({f.size, Len(f.digits)})
           num[i \in 0..n] == IF i = 0 THEN 0 ELSE num[i - 1] * Base + f.digits[i]
       IN num[n]
corp_read_seq == Number(seqf)

\* The number of the next version, and the version it descends from.
NextSeq == Max({1, corp_read_seq})
Parent(seq) == IF seq > 1 THEN seq - 1 ELSE 0

SeqFile(n) == [kind |-> "seq", digits |-> Digits(n), size |-> NDigits(n)]
SeqFiles == [kind: {"seq"}, digits: Seq(0..(Base - 1)), size: Nat]

\* Arithmetic of the digits, true of every base: there are several names, a
\* number is written with digits of the base, and read back as written.
ASSUME DigitsAssumption ==
  /\ Base^NameDigits \in Nat /\ Base^NameDigits >= 2
  /\ \A n \in 1..(MaxSeq + 1) : SeqFile(n) \in SeqFiles /\ Number(SeqFile(n)) = n

\* What a write of new over old may leave when it is not completed.
Interrupted(old, new) ==
  IF old.kind = "none" THEN {Absent, Empty}
  ELSE IF old.kind = "empty" THEN {Empty}
  ELSE {old, new, [new EXCEPT !.whole = FALSE]}
InterruptedSeq(old, new) ==
  IF old.kind = "none" THEN {Absent, Empty}
  ELSE IF old.kind = "empty" THEN {Empty}
  ELSE {old, [new EXCEPT !.size = old.size]}

-----------------------------------------------------------------------------
(* corpus_commit, called by DraftRun once a draft has been spawned *)

\* Mutant of Commit: the version just saved is taken again.
Commit_SameSeq(prog) ==
  LET seq == Max({1, corp_read_seq - 1}) IN
  /\ pc = "idle" /\ seq <= MaxSeq
  /\ job' = Text(seq, Parent(seq), prog) /\ pc' = "version"
  /\ UNCHANGED <<vers, lkg, seqf, spawned, faults, reported, seqLost, lkgTorn>>

Commit(prog) ==
  /\ pc = "idle" /\ NextSeq <= MaxSeq
  /\ job' = Text(NextSeq, Parent(NextSeq), prog) /\ pc' = "version"
  /\ UNCHANGED <<vers, lkg, seqf, spawned, faults, reported, seqLost, lkgTorn>>

WriteVersion ==
  /\ pc = "version"
  /\ vers' = [vers EXCEPT ![corp_name(job.seq)] = job] /\ pc' = "lkg"
  /\ UNCHANGED <<lkg, seqf, job, spawned, faults, reported, seqLost, lkgTorn>>

\* Mutant of WriteLkg: the previous version stays the last known good one.
WriteLkg_Previous ==
  /\ pc = "lkg"
  /\ lkg' = vers[corp_name(Parent(job.seq))] /\ pc' = "seq" /\ lkgTorn' = FALSE
  /\ UNCHANGED <<vers, seqf, job, spawned, faults, reported, seqLost>>

WriteLkg ==
  /\ pc = "lkg"
  /\ lkg' = job /\ pc' = "seq" /\ lkgTorn' = FALSE
  /\ UNCHANGED <<vers, seqf, job, spawned, faults, reported, seqLost>>

\* corp_write_seq and the report.
WriteSeq ==
  /\ pc = "seq"
  /\ seqf' = SeqFile(job.seq + 1)
  /\ pc' = "idle" /\ reported' = reported \cup {job}
  /\ UNCHANGED <<vers, lkg, job, spawned, faults, seqLost, lkgTorn>>

\* A write that is not completed: the disk is full (go on as the code does)
\* or the power is gone (nothing of the commit remains to be done).  A failed
\* corp_write ends the commit; corp_write_seq does not tell whether it failed.
Fault(power) ==
  /\ pc # "idle" /\ faults > 0
  /\ faults' = faults - 1 /\ pc' = "idle"
  /\ CASE pc = "version" ->
            /\ \E f \in Interrupted(vers[corp_name(job.seq)], job) :
                 vers' = [vers EXCEPT ![corp_name(job.seq)] = f]
            /\ UNCHANGED <<lkg, seqf, reported, seqLost, lkgTorn>>
       [] pc = "lkg" ->
            /\ lkg' \in Interrupted(lkg, job)
            /\ lkgTorn' = (lkgTorn \/ lkg' # lkg)
            /\ UNCHANGED <<vers, seqf, reported, seqLost>>
       [] pc = "seq" ->
            /\ seqf' \in InterruptedSeq(seqf, SeqFile(job.seq + 1))
            /\ seqLost' = TRUE
            /\ reported' = IF power THEN reported ELSE reported \cup {job}
            /\ UNCHANGED <<vers, lkg, lkgTorn>>
  /\ UNCHANGED <<job, spawned>>

\* Power goes between two writes.
PowerLoss ==
  /\ pc # "idle" /\ faults > 0
  /\ faults' = faults - 1 /\ pc' = "idle"
  /\ seqLost' = (seqLost \/ pc = "seq")
  /\ UNCHANGED <<vers, lkg, seqf, job, spawned, reported, lkgTorn>>

\* corpus_rollback: contents that are not whole may lack the source, fail the
\* syntax check, or pass it as another program.  (That the task table has room
\* for it is Sched's matter: a failed sched_spawn changes nothing here.)
Rollback ==
  /\ pc = "idle"
  /\ spawned' \in IF lkg.kind # "text" THEN {NoProgram}
                  ELSE IF lkg.whole THEN {lkg.prog} ELSE {NoProgram, "fragment"}
  /\ UNCHANGED <<vers, lkg, seqf, pc, job, faults, reported, seqLost, lkgTorn>>

CorpusNext ==
  \/ \E prog \in Programs : Commit(prog)
  \/ WriteVersion \/ WriteLkg \/ WriteSeq
  \/ \E power \in BOOLEAN : Fault(power)
  \/ PowerLoss \/ Rollback

CorpusSpec == CorpusInit /\ [][CorpusNext]_corpusVars

-----------------------------------------------------------------------------
(* Properties *)

Files == {Absent, Empty} \cup
  [kind: {"text"}, seq: 1..MaxSeq, parent: 0..MaxSeq, prog: Programs, whole: BOOLEAN]

CorpusTypeOK ==
  /\ vers \in [Names -> Files] /\ lkg \in Files
  /\ spawned \in Programs \cup {NoProgram, "fragment"}

\* docs/M5-AI.md:184 "the corpus is now versioned": a version
\* reported as saved stays in its file, whatever drafts, failed writes and
\* power losses follow, until the four digits of its name come round again,
\* and provided every write of corpus.seq was completed.
SavedKept ==
  ~seqLost => \A s \in reported :
    \/ vers[corp_name(s.seq)] = s
    \/ \E t \in reported \cup {job} : t.kind = "text" /\ t.seq > s.seq /\ corp_name(t.seq) = corp_name(s.seq)

\* Once a version was reported as saved, a rollback finds a whole program,
\* whatever became of corpus.seq, unless the last write of last_known_good was
\* cut short (RollbackSafe).  If besides every write of corpus.seq was completed,
\* that program is the one in its version file, and no older than any version
\* reported.
RollbackReady ==
  ~lkgTorn /\ reported # {} =>
    /\ lkg.kind = "text" /\ lkg.whole
    /\ ~seqLost => vers[corp_name(lkg.seq)] = lkg /\ \A s \in reported : lkg.seq >= s.seq

\* M5-AI.md of the corpus: "versioned and rollback-safe", "a bad commit can be
\* unwound": once a version was reported as saved there is a whole program to
\* roll back to, wherever a later commit was cut short.
RollbackSafe == reported # {} => lkg.kind = "text" /\ lkg.whole

\* M5-AI.md: each accepted draft goes to "corpNNNN.noc (incrementing NNNN)", so
\* that "the versioned file is the durable corpus (survives reboot)": SavedKept
\* without its proviso on corpus.seq.
VersionsDurable ==
  \A s \in reported :
    \/ vers[corp_name(s.seq)] = s
    \/ \E t \in reported \cup {job} : t.kind = "text" /\ t.seq > s.seq /\ corp_name(t.seq) = corp_name(s.seq)
=============================================================================
