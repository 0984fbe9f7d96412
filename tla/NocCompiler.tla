----------------------------- MODULE NocCompiler -----------------------------
(***************************************************************************)
(* The NOC compiler (src/kernel/noc/compiler.c).                           *)
(*                                                                         *)
(* An instruction is a tuple, its opcode first, and a code address is the  *)
(* index of an instruction (the code uses byte offsets).  Instructions     *)
(* name strings and callees directly (the code keeps an index into the     *)
(* function's table of strings).  Slots count from 1.  Exhaustion of the   *)
(* kernel heap is left out.                                                *)
(***************************************************************************)
EXTENDS NocParser, NocCore, FiniteSets, FiniteSetsExt

CONSTANT MaxStrings   \* NOC_MAX_STRINGS

ASSUME CompilerAssumption == MaxLocals \in Nat /\ MaxStrings \in Nat /\ MaxFuncs \in Nat

------------------------------------------------------------------------------
(* The compiler's state: c.code, c.syms (a sequence of names and types),   *)
(* c.strs, c.in_fn, c.last_expr, and c.ok, FALSE once an error was met.    *)

ccomp(syms, in_fn) ==
  [code |-> <<>>, syms |-> syms, strs |-> {}, in_fn |-> in_fn, last_expr |-> FALSE, ok |-> TRUE]

cerr(c) == [c EXCEPT !.ok = FALSE]

\* Go on from c unless an error was met.
on(c, K(_)) == IF c.ok THEN K(c) ELSE c

emit(c, is) == IF c.ok THEN [c EXCEPT !.code = @ \o is] ELSE c

code_pc(c) == Len(c.code) + 1

\* Give the jump emitted at `at` its target.
patch_jump(c, at, target) == [c EXCEPT !.code[at] = <<@[1], target>>]

add_string(c, s) ==
  IF s \notin c.strs /\ Cardinality(c.strs) >= MaxStrings
  THEN cerr(c)
  ELSE [c EXCEPT !.strs = @ \cup {s}]

\* The slot of a variable, its latest declaration first; 0 if undeclared.
resolve_var(c, x) == Max({0} \cup {i \in DOMAIN c.syms : c.syms[i][2] = x})

add_var(c, ty, x) ==
  IF resolve_var(c, x) # 0 \/ Len(c.syms) >= MaxLocals
  THEN cerr(c)
  ELSE [c EXCEPT !.syms = Append(@, <<ty, x>>)]

expr_type(c, n, F) ==
  CASE n[1] = "Str"  -> "Str"
    [] n[1] = "Var"  -> LET s == resolve_var(c, n[2]) IN
                        IF s # 0 THEN c.syms[s][1] ELSE "I64"
    [] n[1] = "Call" -> LET f == noc_lookup(F, n[2]) IN
                        IF f # 0 THEN F[f].ret ELSE "I64"
    [] OTHER         -> "I64"

------------------------------------------------------------------------------
(* Expressions *)

RECURSIVE compile_expr(_, _, _), compile_args(_, _, _)

compile_args(c, args, F) ==
  IF args = <<>> THEN c ELSE compile_args(compile_expr(c, Head(args), F), Tail(args), F)

\* The arguments given, the defaults of the missing ones, the call.
compile_call(c, name, args, F) ==
  LET i == noc_lookup(F, name)
      f == F[i]
      given == Len(args)
      arity_ok == IF f.variadic
                  THEN given >= f.nargs
                  ELSE /\ given <= f.nargs
                       /\ \A k \in (given + 1)..f.nargs : f.defaults[k] # <<>>
      count == IF f.variadic THEN given ELSE f.nargs
      rest == [k \in 1..(count - given) |-> <<"PUSH", f.defaults[given + k][1]>>]
  IN IF i = 0 \/ ~arity_ok
     THEN cerr(c)
     ELSE emit(add_string(emit(compile_args(c, args, F), rest), name),
               << <<"CALL", name, count>> >>)

\* && and ||: both jumps lead to the PUSH that follows them.
compile_logic(c, n, F) ==
  LET is_and == n[2] = "&&"
      jump == IF is_and THEN "JMPF" ELSE "JMPT"
      tail == << <<jump, 0>>, <<"PUSH", IF is_and THEN 0 ELSE 1>>, <<"JMP", 0>>,
                 <<"PUSH", IF is_and THEN 1 ELSE 0>> >>
      patched(d, j1, j2) ==
        LET l_false_or_true == j2 + 1
            l_done == j2 + 3
        IN patch_jump(patch_jump(patch_jump(d, j1, l_false_or_true), j2, l_false_or_true),
                      j2 + 2, l_done)
  IN on(compile_expr(c, n[3], F), LAMBDA c1 :
       on(compile_expr(emit(c1, << <<jump, 0>> >>), n[4], F), LAMBDA c2 :
         patched(emit(c2, tail), code_pc(c1), code_pc(c2))))

\* The other operators are instructions, and named as in the source.
compile_bin(c, n, F) ==
  IF n[2] \in {"&&", "||"}
  THEN compile_logic(c, n, F)
  ELSE emit(compile_expr(compile_expr(c, n[3], F), n[4], F), << <<n[2]>> >>)

CompoundOp == [op \in {"+=", "-=", "*=", "/="} |->
                 CASE op = "+=" -> "+" [] op = "-=" -> "-" [] op = "*=" -> "*" [] op = "/=" -> "/"]

compile_assign(c, op, x, e, F) ==
  LET s == resolve_var(c, x) IN
  CASE s = 0    -> cerr(c)
    [] op = "=" -> emit(compile_expr(c, e, F), << <<"DUP">>, <<"STORE", s>> >>)
    [] OTHER    -> emit(compile_expr(emit(c, << <<"LOAD", s>> >>), e, F),
                        << <<CompoundOp[op]>>, <<"DUP">>, <<"STORE", s>> >>)

step_of(op) == <<"PUSH", IF op = "++" THEN 1 ELSE MinusOne>>

\* ++x and --x: the operand was compiled, as for every unary operator, first.
compile_pre(c, op, x) ==
  LET s == resolve_var(c, x) IN
  emit(c, << <<"LOAD", s>>, step_of(op), <<"+">>, <<"DUP">>, <<"STORE", s>> >>)

compile_post(c, op, x) ==
  LET s == resolve_var(c, x) IN
  IF s = 0 THEN cerr(c)
  ELSE emit(c, << <<"LOAD", s>>, <<"DUP">>, step_of(op), <<"+">>, <<"STORE", s>> >>)

UnaryInstr == [op \in {"-", "!", "~"} |->
                 CASE op = "-" -> "NEG" [] op = "!" -> "NOT" [] op = "~" -> "BNOT"]

compile_expr(c, n, F) ==
  CASE ~c.ok          -> c
    [] n[1] = "Lit"   -> emit(c, << <<"PUSH", n[2]>> >>)
    [] n[1] = "Str"   -> emit(add_string(c, n[2]), << <<"PUSHSTR", n[2]>> >>)
    [] n[1] = "Var"   -> LET s == resolve_var(c, n[2]) IN
                         IF s = 0 THEN cerr(c) ELSE emit(c, << <<"LOAD", s>> >>)
    [] n[1] = "Call"  -> compile_call(c, n[2], n[3], F)
    [] n[1] = "Bin"   -> compile_bin(c, n, F)
    [] n[1] = "Un"    -> on(compile_expr(c, n[3], F), LAMBDA d :
                           IF n[2] \in {"++", "--"}
                           THEN compile_pre(d, n[2], n[3][2])
                           ELSE emit(d, << <<UnaryInstr[n[2]]>> >>))
    [] n[1] = "Post"  -> compile_post(c, n[2], n[3])
    [] n[1] = "Assign" -> compile_assign(c, n[2], n[3], n[4], F)

------------------------------------------------------------------------------
(* Statements; `last` marks the last statement of a line.                  *)

RECURSIVE compile_stmt(_, _, _, _), compile_stmts(_, _, _)

compile_stmts(c, ss, F) ==
  IF ss = <<>> THEN c ELSE compile_stmts(compile_stmt(c, Head(ss), FALSE, F), Tail(ss), F)

\* Mutant of compile_exprstmt: the value stays on the stack.
compile_exprstmt_NoPop(c, e, last, F) ==
  on(compile_expr(c, e, F), LAMBDA d :
    IF last /\ ~c.in_fn /\ expr_type(c, e, F) # "U0" THEN [d EXCEPT !.last_expr = TRUE] ELSE d)

\* An expression statement drops its value, unless it is the line's result.
\* A bare name that is a function and no variable is a call.
compile_exprstmt(c, e, last, F) ==
  LET is_call == e[1] = "Var" /\ resolve_var(c, e[2]) = 0 /\ noc_lookup(F, e[2]) # 0
      call == IF is_call THEN <<"Call", e[2], <<>> >> ELSE e
  IN on(compile_expr(c, call, F), LAMBDA d :
       IF last /\ ~c.in_fn /\ expr_type(c, call, F) # "U0"
       THEN [d EXCEPT !.last_expr = TRUE]
       ELSE emit(d, << <<"POP">> >>))

\* Mutant of compile_vardecl: the variable with an initialiser gets no slot.
compile_vardecl_Late(c, n, F) ==
  IF n[4] = <<>> THEN add_var(c, n[2], n[3])
  ELSE emit(compile_expr(c, n[4], F), << <<"STORE", Len(c.syms) + 1>> >>)

\* A declaration takes a slot; only an initialiser makes code.
compile_vardecl(c, n, F) ==
  on(add_var(c, n[2], n[3]), LAMBDA d :
    IF n[4] = <<>> THEN d
    ELSE emit(compile_expr(d, n[4], F), << <<"STORE", Len(d.syms)>> >>))

\* Mutant of compile_if: no jump over the else branch.
compile_if_FallsThrough(c, n, F) ==
  on(compile_expr(c, n[2], F), LAMBDA c1 :
    on(compile_stmt(emit(c1, << <<"JMPF", 0>> >>), n[3], FALSE, F), LAMBDA c2 :
      IF n[4] = <<>>
      THEN patch_jump(c2, code_pc(c1), code_pc(c2))
      ELSE patch_jump(compile_stmt(c2, n[4], FALSE, F), code_pc(c1), code_pc(c2))))

compile_if(c, n, F) ==
  on(compile_expr(c, n[2], F), LAMBDA c1 :
    on(compile_stmt(emit(c1, << <<"JMPF", 0>> >>), n[3], FALSE, F), LAMBDA c2 :
      IF n[4] = <<>>
      THEN patch_jump(c2, code_pc(c1), code_pc(c2))
      ELSE on(compile_stmt(emit(c2, << <<"JMP", 0>> >>), n[4], FALSE, F), LAMBDA c3 :
             patch_jump(patch_jump(c3, code_pc(c1), code_pc(c2) + 1), code_pc(c2), code_pc(c3)))))

\* The rest of a loop, from its condition on: the body, what follows it, and
\* the jump back.
loop(c, cond, K(_), F) ==
  IF cond = <<>>
  THEN on(K(c), LAMBDA c2 : emit(c2, << <<"JMP", code_pc(c)>> >>))
  ELSE on(compile_expr(c, cond, F), LAMBDA c1 :
         on(K(emit(c1, << <<"JMPF", 0>> >>)), LAMBDA c2 :
           patch_jump(emit(c2, << <<"JMP", code_pc(c)>> >>), code_pc(c1), code_pc(c2) + 1)))

\* Mutant of compile_while: the exit of the loop is not patched.
compile_while_Unpatched(c, n, F) ==
  on(emit(compile_expr(c, n[2], F), << <<"JMPF", 0>> >>), LAMBDA c1 :
    on(compile_stmt(c1, n[3], FALSE, F), LAMBDA c2 : emit(c2, << <<"JMP", code_pc(c)>> >>)))

compile_while(c, n, F) == loop(c, n[2], LAMBDA c1 : compile_stmt(c1, n[3], FALSE, F), F)

compile_for(c, n, F) ==
  LET dropped(d, e) == IF e = <<>> THEN d ELSE emit(compile_expr(d, e, F), << <<"POP">> >>)
      init == IF n[2] # <<>> /\ n[2][1] = "Decl"
              THEN compile_stmt(c, n[2], FALSE, F) ELSE dropped(c, n[2])
  IN on(init, LAMBDA c1 :
       loop(c1, n[3], LAMBDA c2 : dropped(compile_stmt(c2, n[5], FALSE, F), n[4]), F))

compile_return(c, e, F) ==
  CASE ~c.in_fn -> cerr(c)
    [] e = <<>> -> emit(c, << <<"PUSH", 0>>, <<"RET">> >>)
    [] OTHER    -> emit(compile_expr(c, e, F), << <<"RET">> >>)

compile_stmt(c, n, last, F) ==
  CASE ~c.ok           -> c
    [] n[1] = "Expr"   -> compile_exprstmt(c, n[2], last, F)
    [] n[1] = "Decl"   -> compile_vardecl(c, n, F)
    [] n[1] = "Block"  -> compile_stmts(c, n[2], F)
    [] n[1] = "If"     -> compile_if(c, n, F)
    [] n[1] = "While"  -> compile_while(c, n, F)
    [] n[1] = "For"    -> compile_for(c, n, F)
    [] n[1] = "Return" -> compile_return(c, n[2], F)
    [] n[1] = "Func"   -> cerr(c)   \* nested definitions

------------------------------------------------------------------------------
(* Function definitions and lines *)

\* The function object a definition makes; `id` tells objects apart.
new_fn(n, c, id) ==
  [name |-> n[3], ret |-> n[2], nargs |-> Len(n[4]),
   defaults |-> [k \in DOMAIN n[4] |-> n[4][k][3]],
   variadic |-> FALSE, builtin |-> "", code |-> c.code, nlocals |-> Len(c.syms), id |-> id]

\* A definition is compiled against the registry it is not yet part of, and
\* registered when its body compiled.
compile_funcdecl(n, F, id) ==
  LET prms == [k \in DOMAIN n[4] |-> <<n[4][k][1], n[4][k][2]>>]
      registered(c) == IF c.ok THEN noc_register_user_fn(F, new_fn(n, c, id))
                       ELSE [funcs |-> F, ok |-> FALSE]
  IN registered(emit(compile_stmts(ccomp(prms, TRUE), n[5], F), << <<"PUSH", 0>>, <<"RET">> >>))

RECURSIVE compile_line(_, _, _, _, _)

\* The statements of a line from the i-th on: the compiler's state, the
\* registry and the next object id.
compile_line(c, stmts, i, F, id) ==
  IF ~c.ok \/ i > Len(stmts)
  THEN [c |-> c, funcs |-> F, id |-> id]
  ELSE IF stmts[i][1] = "Func"
       THEN LET r == compile_funcdecl(stmts[i], F, id) IN
            compile_line(IF r.ok THEN c ELSE cerr(c), stmts, i + 1, r.funcs, id + 1)
       ELSE compile_line(compile_stmt(c, stmts[i], i = Len(stmts), F), stmts, i + 1, F, id)

\* A line becomes a function of its own, or an error; what it registered
\* before the error stays registered.
noc_compile(stmts, F, id) ==
  LET result(r, c) ==
        [ok |-> c.ok, funcs |-> r.funcs, id |-> r.id,
         chunk |-> [name |-> "<line>", ret |-> "U0", nargs |-> 0, defaults |-> <<>>,
                    variadic |-> FALSE, builtin |-> "", code |-> c.code,
                    nlocals |-> Len(c.syms), id |-> r.id, last_expr |-> c.last_expr]]
      halted(r) == result(r, emit(r.c, << <<"HALT">> >>))
  IN halted(compile_line(ccomp(<<>>, FALSE), stmts, 1, F, id))
==============================================================================
