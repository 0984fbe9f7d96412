-------------------------------- MODULE NocVM --------------------------------
(***************************************************************************)
(* A NOC session (src/kernel/noc/exec.c, repl.c) on the stack machine      *)
(* (vm.c): lines are parsed, compiled and run; Run feeds the lines of a    *)
(* script through the same path in the middle of a line; DraftRun checks   *)
(* model-drafted programs with the same compiler.                          *)
(*                                                                         *)
(* One step of the model is one instruction, or one phase of a line.  The  *)
(* stack is the sequence of its live entries.  Allocation failures are     *)
(* modelled where they bound the nesting of scripts (MaxNest); formatting  *)
(* of output is left out: Print outputs its argument words.                *)
(*                                                                         *)
(* Parser and compiler are parameters, so that the machine can be reasoned *)
(* about by itself: for the code it runs it asks for no more than what     *)
(* CodeWellFormed says.  NocDoc puts the parts together.                   *)
(***************************************************************************)
EXTENDS NocCore

CONSTANTS
          tokens_of(_),        \* the tokens of a line
          parse_of(_),         \* noc_parse: <<>> or the tree and a position
          compile_of(_, _, _), \* noc_compile
          bit_and(_, _), bit_or(_, _), bit_xor(_, _),
          defs_of(_, _),       \* the functions defined after a line
          plain(_),            \* no operator that leaves values behind is used
          Sessions,   \* the sequences of lines a user may type
          Drafts,     \* the programs a model may draft, <<>> if it adds nothing
          Seed,       \* what the seed of a draft is by itself, a program
          Long,       \* the strings too long to be the seed of a draft
          NewlineEnded, \* the scripts whose last line ends in a newline
          Builtins,   \* the table of builtins: name, ret, nargs, variadic
          StackSize,  \* NOC_STACK_SIZE
          MaxFrames,  \* NOC_MAX_FRAMES
          MaxNest     \* scripts running inside each other before memory is short

ASSUME VMAssumption ==
  /\ StackSize \in Nat /\ MaxFrames \in Nat \ {0} /\ MaxNest \in Nat
  /\ MaxLocals \in 0..StackSize
  /\ \A a, b \in Word : {bit_and(a, b), bit_or(a, b), bit_xor(a, b)} \subseteq Word

VARIABLES
  input,    \* lines not typed yet
  phase,    \* "idle", "lexed", "parsed", "running", "trap" (CPU exception),
            \* "wild" (freed code is run), "overrun" (Run has left its buffer)
  toks,     \* tokens of the current line
  stmts,    \* its syntax tree
  chunk,    \* the function it was compiled to
  funcs,    \* noc_funcs
  nobj,     \* identity of the next function object
  vstack,   \* vstack[0 .. sp-1]
  frames,   \* frames[0 .. nframes-1]: fn, pc, vbase
  outer,    \* lines suspended in Run, with the rest of their scripts
  out,      \* what the typed line has output
  res,      \* how the last line ended
  line,     \* history: the typed line
  defs,     \* history: the functions defined by the lines before it
  settled   \* history: no function was registered by a refused line, a script
            \* or a draft, no definition changed the parameters of a registered
            \* one or its case, and no script had a line refused or stopped other
            \* than by a division by zero, or no memory

vars == <<input, phase, toks, stmts, chunk, funcs, nobj, vstack, frames, outer, out, res,
          line, defs, settled>>
front == <<input, toks, stmts, chunk, line, defs, settled>>

NoChunk == [code |-> <<>>, nlocals |-> 0, last_expr |-> FALSE, id |-> 0]
Outcome(kind, why) == [kind |-> kind, why |-> why]

\* The registry entry of a builtin: no code, no defaults.
noc_register_builtin(b) ==
  [name |-> b.name, ret |-> b.ret, nargs |-> b.nargs, defaults |-> [j \in 1..b.nargs |-> <<>>],
   variadic |-> b.variadic, builtin |-> b.name, code |-> <<>>, nlocals |-> 0, id |-> 0]

\* noc_init registers the builtins, in the order of their table.
noc_init == [k \in DOMAIN Builtins |-> noc_register_builtin(Builtins[k])]

Init ==
  /\ input \in Sessions
  /\ phase = "idle" /\ toks = <<>> /\ stmts = <<>> /\ chunk = NoChunk
  /\ funcs = noc_init /\ nobj = 1
  /\ vstack = <<>> /\ frames = <<>> /\ outer = <<>>
  /\ out = <<>> /\ res = Outcome("none", "") /\ line = <<>> /\ defs = <<>> /\ settled = TRUE

------------------------------------------------------------------------------
(* A line: noc_exec_line *)

\* The typed line ends, or the next line of the script starts, or the script
\* ends and Run returns 0 into the line it was called from.  After a newline
\* b_Run goes on at the second character of what follows: harmless for a line,
\* which is blank or starts there, but at the end of a script it looks for the
\* next newline past the buffer, and if there is one zeroes it and may run what
\* follows; the model stops there.  `expected` says whether the session stays
\* settled.
EndLine(o, expected) ==
  /\ res' = o
  /\ settled' = (settled /\ expected)
  /\ IF outer = <<>>
     THEN /\ phase' = "idle"
          /\ vstack' = <<>> /\ frames' = <<>> /\ chunk' = NoChunk
          /\ UNCHANGED <<toks, outer>>
     ELSE LET up == Last(outer) IN
          IF up.rest # <<>>
          THEN /\ phase' = "lexed" /\ toks' = tokens_of(Head(up.rest))
               /\ outer' = Append(Front(outer), [up EXCEPT !.rest = Tail(@)])
               /\ vstack' = <<>> /\ frames' = <<>> /\ chunk' = NoChunk
          ELSE /\ UNCHANGED toks
               /\ \/ /\ phase' = "running"
                     /\ vstack' = Append(up.vstack, 0)
                     /\ frames' = up.frames /\ chunk' = up.chunk
                     /\ outer' = Front(outer)
                  \/ /\ up.over /\ phase' = "overrun"
                     /\ vstack' = <<>> /\ frames' = <<>> /\ chunk' = NoChunk
                     /\ UNCHANGED outer

\* line_read returns a line; the REPL hands it to noc_exec_line.
ReadLine ==
  /\ phase = "idle" /\ input # <<>>
  /\ phase' = "lexed" /\ toks' = tokens_of(Head(input))
  /\ input' = Tail(input) /\ out' = <<>>
  /\ line' = Head(input)
  /\ defs' = IF res.kind = "reject" THEN defs ELSE defs_of(line, defs)
  /\ UNCHANGED <<stmts, chunk, funcs, nobj, vstack, frames, outer, res, settled>>

Parse ==
  /\ phase = "lexed"
  /\ LET r == parse_of(toks) IN
     IF r = <<>>
     THEN EndLine(Outcome("reject", "parse"), outer = <<>>) /\ UNCHANGED stmts
     ELSE /\ phase' = "parsed" /\ stmts' = r[1]
          /\ UNCHANGED <<chunk, vstack, frames, outer, toks, res, settled>>
  /\ UNCHANGED <<input, funcs, nobj, out, line, defs>>

\* A registry extends another in the way the documentation describes: a name
\* keeps its parameters and their defaults, and names differ in any case.
Extends(G, F) ==
  /\ \A i \in DOMAIN F : G[i].defaults = F[i].defaults /\ G[i].builtin = F[i].builtin
  /\ \A i, j \in DOMAIN G : Lower[G[i].name] = Lower[G[j].name] => i = j

\* noc_compile, and the start of noc_vm_run: locals are zero.
Compile ==
  /\ phase = "parsed"
  /\ \E r \in {compile_of(stmts, funcs, nobj)} :
     /\ funcs' = r.funcs /\ nobj' = r.id + 1
     /\ IF ~r.ok
        THEN EndLine(Outcome("reject", "compile"), outer = <<>> /\ r.funcs = funcs)
        ELSE /\ chunk' = r.chunk /\ phase' = "running"
             /\ settled' = (settled /\ (r.funcs = funcs \/ (outer = <<>> /\ Extends(r.funcs, funcs))))
             /\ vstack' = [k \in 1..r.chunk.nlocals |-> 0]
             /\ frames' = << [fn |-> r.chunk, pc |-> 1, vbase |-> 0] >>
             /\ UNCHANGED <<toks, outer, res>>
  /\ UNCHANGED <<input, stmts, out, line, defs>>

------------------------------------------------------------------------------
(* The machine: run_loop *)

fr == Last(frames)
instr == IF fr.pc > Len(fr.fn.code) THEN <<"OFFEND">> ELSE fr.fn.code[fr.pc]
At(ops) == phase = "running" /\ instr[1] \in ops

Fault(why) ==
  /\ EndLine(Outcome("error", why), outer = <<>> \/ why = "division by zero")
  /\ UNCHANGED <<input, stmts, funcs, nobj, out, line, defs>>

\* The frames after the current instruction, with the top one at pc.
goto(pc) == [frames EXCEPT ![Len(frames)].pc = pc]

\* Mutant of Continue: the room on the stack is not checked.
Continue_Unchecked(st, pc) ==
  /\ vstack' = st /\ frames' = goto(pc)
  /\ UNCHANGED <<front, phase, funcs, nobj, outer, out, res>>

\* Go on at pc with stack st; the last value pushed may not have fitted.
Continue(st, pc) ==
  IF Len(st) > StackSize
  THEN Fault("stack overflow")
  ELSE /\ vstack' = st /\ frames' = goto(pc)
       /\ UNCHANGED <<front, phase, funcs, nobj, outer, out, res>>

\* An instruction that pops n values finds them on the stack.
Popping(n, A) == IF Len(vstack) < n THEN Fault("stack underflow") ELSE A

top == Last(vstack)
below(n) == SubSeq(vstack, 1, Len(vstack) - n)

OpPush ==
  /\ At({"PUSH", "PUSHSTR"})
  /\ Continue(Append(vstack, IF instr[1] = "PUSH" THEN instr[2] ELSE Addr[instr[2]]), fr.pc + 1)

OpDup == At({"DUP"}) /\ Popping(1, Continue(Append(vstack, top), fr.pc + 1))

OpPop == At({"POP"}) /\ Popping(1, Continue(below(1), fr.pc + 1))

OpLoad ==
  /\ At({"LOAD"})
  /\ IF instr[2] > fr.fn.nlocals
     THEN Fault("bad local slot")
     ELSE Continue(Append(vstack, vstack[fr.vbase + instr[2]]), fr.pc + 1)

OpStore ==
  /\ At({"STORE"})
  /\ Popping(1, IF instr[2] > fr.fn.nlocals
                THEN Fault("bad local slot")
                ELSE Continue([below(1) EXCEPT ![fr.vbase + instr[2]] = top], fr.pc + 1))

OpJump ==
  /\ At({"JMP", "JMPF", "JMPT"})
  /\ IF instr[1] = "JMP"
     THEN Continue(vstack, instr[2])
     ELSE Popping(1, Continue(below(1), IF (top = 0) = (instr[1] = "JMPF") THEN instr[2] ELSE fr.pc + 1))

BinaryOps == {"+", "-", "*", "/", "%", "==", "!=", "<", "<=", ">", ">=", "&", "|", "^", "<<", ">>"}

Quotient(a, b) == LET q == Abs(a) \div Abs(b) IN IF (a < 0) # (b < 0) THEN -q ELSE q

\* The result of a binary instruction that does not fail.
binary(op, a, b) ==
  CASE op = "+"  -> Wrap(a + b)
    [] op = "-"  -> Wrap(a - b)
    [] op = "*"  -> Wrap(a * b)
    [] op = "/"  -> Wrap(Quotient(Signed(a), Signed(b)))
    [] op = "%"  -> Wrap(Signed(a) - Signed(b) * Quotient(Signed(a), Signed(b)))
    [] op = "==" -> Truth(a = b)
    [] op = "!=" -> Truth(a # b)
    [] op = "<"  -> Truth(Signed(a) < Signed(b))
    [] op = "<=" -> Truth(Signed(a) <= Signed(b))
    [] op = ">"  -> Truth(Signed(a) > Signed(b))
    [] op = ">=" -> Truth(Signed(a) >= Signed(b))
    [] op = "&"  -> bit_and(a, b)
    [] op = "|"  -> bit_or(a, b)
    [] op = "^"  -> bit_xor(a, b)
    [] op = "<<" -> Wrap(a * 2^(b % W))
    [] op = ">>" -> a \div 2^(b % W)

\* A division that overflows raises the CPU's divide error.
OpBinary ==
  /\ At(BinaryOps)
  /\ Popping(2,
       LET a == vstack[Len(vstack) - 1]
           b == top
           divides == instr[1] \in {"/", "%"}
       IN CASE divides /\ b = 0 -> Fault("division by zero")
            [] divides /\ DivOverflows(a, b) ->
                 /\ phase' = "trap" /\ res' = Outcome("trap", "")
                 /\ UNCHANGED <<front, funcs, nobj, vstack, frames, outer, out>>
            [] OTHER -> Continue(Append(below(2), binary(instr[1], a, b)), fr.pc + 1))

OpUnary ==
  /\ At({"NOT", "NEG", "BNOT"})
  /\ Popping(1, Continue(Append(below(1), CASE instr[1] = "NOT"  -> Truth(top = 0)
                                            [] instr[1] = "NEG"  -> Wrap(-top)
                                            [] instr[1] = "BNOT" -> MinusOne - top), fr.pc + 1))

\* Enter a function: the arguments become its first locals, the others are 0.
OpCall ==
  /\ At({"CALL"})
  /\ LET i == noc_lookup(funcs, instr[2])
         callee == funcs[i]
         vbase == Len(vstack) - instr[3]
     IN /\ i = 0 \/ callee.builtin = ""
        /\ CASE i = 0                              -> Fault("unknown function at runtime")
             [] vbase < 0                          -> Fault("call with too few arguments on stack")
             [] Len(frames) >= MaxFrames           -> Fault("call nesting too deep")
             [] callee.nlocals < instr[3]          -> Fault("bad callee frame")
             [] vbase + callee.nlocals > StackSize -> Fault("stack overflow on call")
             [] OTHER ->
                  /\ vstack' = vstack \o [k \in 1..(callee.nlocals - instr[3]) |-> 0]
                  /\ frames' = Append(goto(fr.pc + 1), [fn |-> callee, pc |-> 1, vbase |-> vbase])
                  /\ UNCHANGED <<front, phase, funcs, nobj, outer, out, res>>

OpRet ==
  /\ At({"RET"})
  /\ IF Len(frames) = 1
     THEN Fault("return at top level")
     ELSE Popping(1, /\ vstack' = Append(SubSeq(vstack, 1, fr.vbase), top)
                     /\ frames' = Front(frames)
                     /\ UNCHANGED <<front, phase, funcs, nobj, outer, out, res>>)

\* The line is done: its result is the entry above its locals, and is output
\* when it is not zero.
OpHalt ==
  /\ At({"HALT", "OFFEND"})
  /\ IF instr[1] = "OFFEND"
     THEN Fault("program counter ran off end of code")
     ELSE /\ EndLine(Outcome("done", ""), TRUE)
          /\ out' = LET v == vstack[chunk.nlocals + 1] IN
                    IF chunk.last_expr /\ v # 0 THEN Append(out, <<v>>) ELSE out
          /\ UNCHANGED <<input, stmts, funcs, nobj, line, defs>>

\* Esc or Ctrl+C, looked for every 256 instructions: at any instruction here.
Interrupt == phase = "running" /\ Fault("interrupted")

\* The function objects that have not been freed: the registered ones, and
\* the lines being run.
LiveIds == {f.id : f \in Range(funcs)} \cup {chunk.id} \cup {up.chunk.id : up \in Range(outer)}

\* A frame of a function that was replaced reads freed memory: it may find the
\* old code still there (the actions above), or anything else.
RunFreed ==
  /\ phase = "running" /\ fr.fn.id \notin LiveIds
  /\ phase' = "wild"
  /\ UNCHANGED <<front, funcs, nobj, vstack, frames, outer, out, res>>

------------------------------------------------------------------------------
(* Builtins *)

Calling(b) ==
  /\ At({"CALL"})
  /\ LET i == noc_lookup(funcs, instr[2]) IN i # 0 /\ funcs[i].builtin = b

args == SubSeq(vstack, Len(vstack) - instr[3] + 1, Len(vstack))

\* A builtin returns v: the arguments are replaced by it.
Returning(v) ==
  /\ vstack' = Append(below(instr[3]), v) /\ frames' = goto(fr.pc + 1)
  /\ UNCHANGED <<input, phase, toks, stmts, chunk, outer, res, line, defs>>

b_Print == Calling("Print") /\ Returning(0) /\ out' = Append(out, args) /\ UNCHANGED <<funcs, nobj, settled>>

\* Run a script: the machine's state is saved, the first line starts.  A
\* script that does not exist, or for which there is no memory, gives -1.
b_Run ==
  /\ Calling("Run")
  /\ LET fs == {f \in DOMAIN Files : Addr[f] = args[1]} IN
     IF fs = {} \/ Len(outer) >= MaxNest
     THEN /\ Returning(MinusOne) /\ settled' = (settled /\ fs = {})
          /\ UNCHANGED <<out, funcs, nobj>>
     ELSE LET name == CHOOSE f \in fs : TRUE
              script == Files[name]
          IN
          /\ outer' = Append(outer, [vstack |-> below(instr[3]), frames |-> goto(fr.pc + 1),
                                     chunk |-> chunk, rest |-> Tail(script),
                                     over |-> name \in NewlineEnded])
          /\ phase' = "lexed" /\ toks' = tokens_of(Head(script))
          /\ vstack' = <<>> /\ frames' = <<>> /\ chunk' = NoChunk
          /\ UNCHANGED <<input, stmts, funcs, nobj, out, res, line, defs, settled>>

\* noc_check_syntax: parse and compile, drop the code.  Functions that the
\* text defines are registered all the same.
noc_check_syntax(prog, F, id) ==
  LET compiled(r) == [ok |-> r.ok, funcs |-> r.funcs, id |-> r.id + 1]
      check(p) == IF p = <<>> THEN [ok |-> FALSE, funcs |-> F, id |-> id]
                  ELSE compiled(compile_of(p[1], F, id))
  IN check(parse_of(tokens_of(prog)))

\* The transformer's draft t if there is one and it passes the check, else the
\* bigram model's draft b, else the seed; the chosen one is checked (again), and
\* spawned if it passes.  (The task is Sched's, the committed text Learn's.)
\* A seed that does not fit fails the call, and the line.
b_DraftRun(t, b) ==
  /\ Calling("DraftRun") /\ args[1] \notin {Addr[s] : s \in Long}
  /\ \E first \in {IF t = <<>> THEN [ok |-> FALSE, funcs |-> funcs, id |-> nobj]
                   ELSE noc_check_syntax(t, funcs, nobj)} :
     \E prog \in {IF first.ok THEN t ELSE IF b = <<>> THEN Seed ELSE b} :
     \E final \in {noc_check_syntax(prog, first.funcs, first.id)} :
       /\ funcs' = final.funcs /\ nobj' = final.id
       /\ \/ final.ok /\ \E pid \in {1, MinusOne} : Returning(pid)
          \/ ~final.ok /\ Returning(MinusOne)
  /\ settled' = FALSE
  /\ UNCHANGED out

SeedTooLong ==
  /\ Calling("DraftRun") /\ args[1] \in {Addr[s] : s \in Long}
  /\ Fault("builtin call failed")

Next ==
  \/ ReadLine \/ Parse \/ Compile
  \/ OpPush \/ OpDup \/ OpPop \/ OpLoad \/ OpStore \/ OpJump
  \/ OpBinary \/ OpUnary \/ OpCall \/ OpRet \/ OpHalt
  \/ Interrupt \/ RunFreed
  \/ b_Print \/ b_Run \/ SeedTooLong \/ \E t, b \in Drafts : b_DraftRun(t, b)

Spec == Init /\ [][Next]_vars

------------------------------------------------------------------------------
(* Properties *)

\* Type correctness: every value is a word, the stack and the table of frames
\* stay within the arrays vstack and frames of vm.c, and scripts within their
\* nesting, whatever is typed, run from a script or drafted.
NocTypeOK ==
  /\ phase \in {"idle", "lexed", "parsed", "running", "trap", "wild", "overrun"}
  /\ vstack \in Seq(Word) /\ Len(vstack) <= StackSize
  /\ Len(frames) <= MaxFrames /\ (phase = "running" => frames # <<>>)
  /\ Len(outer) <= MaxNest
  /\ \A k \in DOMAIN frames : frames[k].vbase \in 0..Len(vstack)
  /\ settled \in BOOLEAN

\* How many values an instruction takes from the stack and leaves on it, and
\* where it may go on; RET and HALT go nowhere in their function.
Pops(i) ==
  CASE i[1] \in BinaryOps -> 2
    [] i[1] = "CALL" -> i[3]
    [] i[1] \in {"PUSH", "PUSHSTR", "LOAD", "JMP", "HALT"} -> 0
    [] OTHER -> 1
Pushes(i) ==
  CASE i[1] = "DUP" -> 2
    [] i[1] \in {"POP", "STORE", "JMP", "JMPF", "JMPT", "RET", "HALT"} -> 0
    [] OTHER -> 1
Targets(i, k) ==
  CASE i[1] = "JMP" -> {i[2]}
    [] i[1] \in {"JMPF", "JMPT"} -> {i[2], k + 1}
    [] i[1] \in {"RET", "HALT"} -> {}
    [] OTHER -> {k + 1}

Dead == -1

\* What each instruction finds on the stack at least, above the locals: the
\* least that an instruction before it leaves there, Dead if none leads to it.
Depths(code) ==
  LET found(d, k) == {d[j] - Pops(code[j]) + Pushes(code[j]) :
                        j \in {j \in 1..(k - 1) : d[j] # Dead /\ k \in Targets(code[j], j)}}
      depth(d, k) == IF k = 1 THEN 0 ELSE IF found(d, k) = {} THEN Dead ELSE Min(found(d, k))
      upto[k \in 0..Len(code)] ==
        IF k = 0 THEN <<>> ELSE LET d == upto[k - 1] IN Append(d, depth(d, k))
  IN upto[Len(code)]

\* The operands of an instruction of f: a jump leads to an instruction, a slot
\* is a local, a value is a word, a callee is registered and its frame holds
\* the arguments, unless it was redefined in a way NOC.md does not speak of.
OperandsOK(i, f) ==
  CASE i[1] \in {"JMP", "JMPF", "JMPT"} -> i[2] \in DOMAIN f.code
    [] i[1] \in {"LOAD", "STORE"}       -> i[2] \in 1..f.nlocals
    [] i[1] = "PUSH"                    -> i[2] \in Word
    [] i[1] = "PUSHSTR"                 -> i[2] \in DOMAIN Addr
    [] i[1] = "CALL" ->
         /\ i[3] \in Nat /\ noc_lookup(funcs, i[2]) # 0
         /\ LET callee == funcs[noc_lookup(funcs, i[2])] IN
            IF callee.builtin = "" THEN settled => i[3] <= callee.nlocals ELSE i[3] >= 1
    [] OTHER -> i[1] \in {"DUP", "POP", "NOT", "NEG", "BNOT", "RET", "HALT"} \cup BinaryOps

\* The session uses no operator whose code leaves values behind on the stack:
\* no &&, ||, prefix ++ or --.
PlainSession == plain(line) /\ \A x \in DOMAIN defs : plain(defs[x].body)

\* Instruction k finds what it takes, and leaves its successors what they
\* expect: no less, and in a plain session no more.
FlowOK(f, d, k, result) ==
  LET i == f.code[k]
      rest == d[k] - Pops(i) + Pushes(i)
      exact == settled /\ PlainSession
  IN /\ d[k] >= Pops(i)
     /\ \A s \in Targets(i, k) : /\ s \in DOMAIN f.code /\ d[s] # Dead
                                 /\ d[s] <= rest /\ (exact => d[s] = rest)
     /\ Targets(i, k) = {} => d[k] >= result /\ (exact => d[k] = result)

\* The code of f, which is left by `leave` with `result` values above its
\* locals.
WellFormed(f, leave, result) ==
  LET d == Depths(f.code) IN
  /\ f.nlocals \in 0..MaxLocals
  /\ f.code \in Seq(Range(f.code)) /\ f.code # <<>> /\ Last(f.code)[1] = leave
  /\ d \in Seq(Int) /\ Len(d) = Len(f.code) /\ d[1] = 0
  /\ \A k \in DOMAIN f.code :
       /\ OperandsOK(f.code[k], f)
       /\ f.code[k][1] \in {"RET", "HALT"} => f.code[k][1] = leave
       /\ d[k] # Dead => FlowOK(f, d, k, result)

Callees(fs) == {fs[k].fn : k \in 2..Len(fs)}
UserFns == {funcs[k] : k \in {j \in 1..Len(funcs) : funcs[j].builtin = ""}}

\* The functions that can be called or are being run, and the lines.
FnsInUse == UserFns \cup Callees(frames) \cup UNION {Callees(outer[j].frames) : j \in 1..Len(outer)}
LinesInUse == {outer[j].chunk : j \in 1..Len(outer)} \cup (IF phase = "running" THEN {chunk} ELSE {})

\* Code that cannot leave its function or its part of the stack: operands are
\* in range, the last instruction leaves the function, and on every path to an
\* instruction there are the values it takes.  It holds of the lines being
\* run, of every function in the registry, also after the functions they call
\* were replaced, and of functions replaced while they run.  (In a session that
\* is not settled a callee's frame may be too small for the arguments.)
CodeWellFormed ==
  /\ Len(funcs) \in 0..MaxFuncs
  /\ \A f \in FnsInUse : WellFormed(f, "RET", 1)
  /\ \A f \in LinesInUse : WellFormed(f, "HALT", IF f.last_expr THEN 1 ELSE 0)

\* The frames do not overlap, in any session: each frame's locals are its own
\* and below the next frame's, and the values of an expression above them, even
\* where && , ||, prefix ++ and -- leave values behind.  In settled sessions
\* without these operators the stack is balanced exactly: a line halts with its
\* locals and its result, a function returns with its locals and its result.
\* (compile_stmt pops what it does not use.)
StackBalanced ==
  phase = "running" =>
    /\ \A k \in 1..(Len(frames) - 1) : frames[k].vbase + frames[k].fn.nlocals <= frames[k + 1].vbase
    /\ Len(vstack) >= fr.vbase + fr.fn.nlocals
    /\ settled /\ PlainSession /\ instr[1] \in {"HALT", "RET"} =>
         Len(vstack) = fr.vbase + fr.fn.nlocals
                         + (IF instr[1] = "RET" \/ chunk.last_expr THEN 1 ELSE 0)

\* No line that compiles runs into one of run_loop's own consistency checks;
\* a callee whose parameters were changed after its caller was compiled is the
\* only way to a bad frame.
NoInternalFault ==
  /\ res.why \notin {"stack underflow", "bad local slot", "program counter ran off end of code",
                     "return at top level", "call with too few arguments on stack",
                     "unknown function at runtime"}
  /\ res.why = "bad callee frame" => ~settled

\* NOC.md: "Functions are registered in the global table when the defining line
\* runs".  The registry changes only by a line that goes on to run: not by one
\* that is refused, nor by a draft that is only checked.
RegisteredWhenRun == [][funcs' # funcs => phase = "parsed" /\ phase' = "running"]_vars

\* ROADMAP.md of Run: it "snapshots and restores the VM execution state so the
\* enclosing chunk is unaffected".  The code of every function that is running,
\* or will be when the script has ended, is still there.
EnclosingUnaffected ==
  /\ \A f \in Callees(frames) : f.id \in LiveIds
  /\ \A j \in DOMAIN outer : \A f \in Callees(outer[j].frames) : f.id \in LiveIds

\* b_Run feeds the lines of its script to noc_exec_line, "exactly like the REPL
\* would", and nothing else: its scan stays in the buffer it has read.
ScriptEndsAtEnd == phase # "overrun"
==============================================================================
