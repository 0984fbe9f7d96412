-------------------------------- MODULE NocDoc --------------------------------
(***************************************************************************)
(* NOC as a whole: parser, compiler and machine, compared with what        *)
(* src/docs/NOC.md says (NocLang).  The parameters of NocVM are            *)
(*   tokens_of <- Source       parse_of <- noc_parse                       *)
(*   compile_of <- noc_compile defs_of <- Defined      plain <- Plain      *)
(*   bit_and <- BitAnd         bit_or <- BitOr         bit_xor <- BitXor   *)
(***************************************************************************)
EXTENDS NocVM, NocLang, Bitwise

BitAnd(a, b) == a & b
BitOr(a, b) == a | b
BitXor(a, b) == a ^^ b

\* Programs without the operators whose code leaves values behind on the
\* stack (see LogicDocumented and PrefixDocumented).
Plain(prog) == ~Logical(prog) /\ ~PrefixStep(prog)

------------------------------------------------------------------------------
(* Properties *)

\* The parser gives back the tree a line was written from, with only the
\* parentheses that the precedence table of NOC.md asks for: the tiers of
\* parse_binop bind and associate as documented.
ParseExact == phase = "parsed" /\ outer = <<>> => stmts = line

\* A typed line has ended in a way its program decides: not by a refusal, an
\* interrupt, a limit of the machine, or the end of the model.
LineDecided ==
  \/ phase = "trap"
  \/ phase = "idle" /\ (res.kind = "done" \/ res.why = "division by zero")

\* What it output and how it ended are what NOC.md says, as far as it says
\* something.  A CPU exception is never what it says.
Agrees ==
  LET t == Meaning(line, <<>>, defs) IN
  t.st # "unspecified" => /\ out = t.out
                          /\ res.kind = IF t.st = "ok" THEN "done" ELSE "error"

\* Running a line means what NOC.md says: parsing, compiling and running the
\* bytecode outputs what the documented meaning of the program outputs, fails
\* where it fails, for nested calls, defaults, loops, scripts and words that
\* wrap around; the only CPU exception is that of a division whose quotient is
\* no word.  It speaks of sessions that are settled and use no operator that
\* leaves values behind (LogicDocumented and PrefixDocumented are about the
\* others, RegisteredWhenRun about functions of lines that do not run).
RunMeansProgram == settled /\ PlainSession /\ LineDecided => Agrees

\* NOC.md's account of && and ||: they short-circuit and yield 1 or 0.
LogicDocumented == settled /\ LineDecided /\ ~PrefixStep(line) => Agrees

\* NOC.md's account of the prefix ++ and --: unary operators like the others,
\* with one value each.  (compile_expr leaves a second one on the stack.)
PrefixDocumented == settled /\ LineDecided /\ ~Logical(line) => Agrees
==============================================================================
