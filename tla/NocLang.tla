------------------------------- MODULE NocLang -------------------------------
(***************************************************************************)
(* The NOC language as src/docs/NOC.md defines it, independent of the      *)
(* parser, the compiler and the machine: how a program is written down     *)
(* (section 5, precedence), and what it computes (sections 1, 4 to 7).     *)
(* Nothing here models code; NocDoc compares the code with it.             *)
(*                                                                         *)
(* Programs are the trees of NocParser.                                    *)
(***************************************************************************)
EXTENDS NocCompiler, TLC

------------------------------------------------------------------------------
(* Writing a program down with no more parentheses than NOC.md asks for.   *)

\* The table of section 5, loosest binding first.
Precedence ==
  << {"=", "+=", "-=", "*=", "/="}, {"||"}, {"&&"}, {"|"}, {"^"}, {"&"}, {"==", "!="},
     {"<", "<=", ">", ">="}, {"<<", ">>"}, {"+", "-"}, {"*", "/", "%"} >>

Unary == Len(Precedence) + 1
Postfix == Len(Precedence) + 2

Binding(e) ==
  CASE e[1] \in {"Bin", "Assign"} -> CHOOSE k \in DOMAIN Precedence : e[2] \in Precedence[k]
    [] e[1] = "Un"                -> Unary
    [] OTHER                      -> Postfix

RECURSIVE Written(_, _), WrittenArgs(_)

\* The tokens of e where an expression binding at least as tight as k stands.
Written(e, k) ==
  LET b == Binding(e)
      toks == CASE e[1] = "Lit"    -> << <<"num", e[2]>> >>
                [] e[1] = "Str"    -> << <<"str", e[2]>> >>
                [] e[1] = "Var"    -> << <<"id", e[2]>> >>
                [] e[1] = "Bin"    -> Written(e[3], b) \o << <<e[2]>> >> \o Written(e[4], b + 1)
                [] e[1] = "Un"     -> << <<e[2]>> >> \o Written(e[3], b)
                [] e[1] = "Post"   -> << <<"id", e[3]>>, <<e[2]>> >>
                [] e[1] = "Assign" -> << <<"id", e[3]>>, <<e[2]>> >> \o Written(e[4], b)
                [] e[1] = "Call"   -> << <<"id", e[2]>>, <<"(">> >> \o WrittenArgs(e[3]) \o << <<")">> >>
  IN IF b >= k THEN toks ELSE << <<"(">> >> \o toks \o << <<")">> >>

WrittenArgs(args) ==
  CASE args = <<>>    -> <<>>
    [] Len(args) = 1  -> Written(args[1], 1)
    [] OTHER          -> Written(args[1], 1) \o << <<",">> >> \o WrittenArgs(Tail(args))

WrittenOpt(e) == IF e = <<>> THEN <<>> ELSE Written(e, 1)

WrittenParam(p) ==
  << <<"type", p[1]>>, <<"id", p[2]>> >>
    \o (IF p[3] = <<>> THEN <<>> ELSE << <<"=">>, <<"num", p[3][1]>> >>)

WrittenParams(ps) ==
  FlattenSeq([k \in DOMAIN ps |->
    (IF k = 1 THEN <<>> ELSE << <<",">> >>) \o WrittenParam(ps[k])])

WrittenDecl(n) ==
  << <<"type", n[2]>>, <<"id", n[3]>> >>
    \o (IF n[4] = <<>> THEN <<>> ELSE << <<"=">> >> \o Written(n[4], 1))

RECURSIVE WrittenStmt(_), WrittenStmts(_)

WrittenStmts(ss) == IF ss = <<>> THEN <<>> ELSE WrittenStmt(Head(ss)) \o WrittenStmts(Tail(ss))

WrittenStmt(n) ==
  CASE n[1] = "Expr"   -> Written(n[2], 1) \o << <<";">> >>
    [] n[1] = "Decl"   -> WrittenDecl(n) \o << <<";">> >>
    [] n[1] = "Block"  -> << <<"{">> >> \o WrittenStmts(n[2]) \o << <<"}">> >>
    [] n[1] = "If"     -> << <<"if">>, <<"(">> >> \o Written(n[2], 1) \o << <<")">> >> \o WrittenStmt(n[3])
                            \o (IF n[4] = <<>> THEN <<>> ELSE << <<"else">> >> \o WrittenStmt(n[4]))
    [] n[1] = "While"  -> << <<"while">>, <<"(">> >> \o Written(n[2], 1) \o << <<")">> >> \o WrittenStmt(n[3])
    [] n[1] = "For"    -> << <<"for">>, <<"(">> >>
                            \o (IF n[2] # <<>> /\ n[2][1] = "Decl" THEN WrittenDecl(n[2]) ELSE WrittenOpt(n[2]))
                            \o << <<";">> >> \o WrittenOpt(n[3]) \o << <<";">> >>
                            \o WrittenOpt(n[4]) \o << <<")">> >> \o WrittenStmt(n[5])
    [] n[1] = "Return" -> << <<"return">> >> \o WrittenOpt(n[2]) \o << <<";">> >>
    [] n[1] = "Func"   -> << <<"type", n[2]>>, <<"id", n[3]>>, <<"(">> >> \o WrittenParams(n[4])
                            \o << <<")">>, <<"{">> >> \o WrittenStmts(n[5]) \o << <<"}">> >>

\* The tokens of a line.
Source(prog) == WrittenStmts(prog) \o << <<"eof">> >>

------------------------------------------------------------------------------
(* Arithmetic on words *)

\* The bits of a word.
Bits(a) == {k \in 0..(W - 1) : (a \div 2^k) % 2 = 1}
OfBits(B) == SumSet({2^k : k \in B})

Arith(op, a, b) ==
  LET x == Signed(a)
      y == Signed(b)
      quotient == CHOOSE q \in -(2^W)..2^W : /\ Abs(q * y) <= Abs(x) /\ Abs(x - q * y) < Abs(y)
                                             /\ q = 0 \/ (q > 0) = ((x > 0) = (y > 0))
  IN CASE op = "+"  -> Wrap(x + y)
       [] op = "-"  -> Wrap(x - y)
       [] op = "*"  -> Wrap(x * y)
       [] op = "/"  -> Wrap(quotient)
       [] op = "%"  -> Wrap(x - y * quotient)
       [] op = "==" -> Truth(x = y)
       [] op = "!=" -> Truth(x # y)
       [] op = "<"  -> Truth(x < y)
       [] op = "<=" -> Truth(x <= y)
       [] op = ">"  -> Truth(x > y)
       [] op = ">=" -> Truth(x >= y)
       [] op = "&"  -> OfBits(Bits(a) \cap Bits(b))
       [] op = "|"  -> OfBits(Bits(a) \cup Bits(b))
       [] op = "^"  -> OfBits((Bits(a) \cup Bits(b)) \ (Bits(a) \cap Bits(b)))
       [] op = "<<" -> OfBits({k \in 0..(W - 1) : k - (b % W) \in Bits(a)})
       [] op = ">>" -> OfBits({k \in 0..(W - 1) : k + (b % W) \in Bits(a)})

------------------------------------------------------------------------------
(* Meaning.  A store s holds the variables (s.env, 0 until assigned), what *)
(* was printed (s.out), the value of the last expression (s.v) and how the *)
(* program stands (s.st): "ok", "ret" after a return, "err" after a        *)
(* division by zero, "unspecified" once a quotient is no word: NOC.md does *)
(* not say what such a division gives, so nothing is asked from there on.  *)
(* D maps the lower-case names of the defined functions to definitions.    *)

Store0(out) == [env |-> <<>>, out |-> out, v |-> 0, st |-> "ok"]

Value(s, x) == IF x \in DOMAIN s.env THEN s.env[x] ELSE 0
Give(s, v) == [s EXCEPT !.v = v]
Assign(s, x, v) == [s EXCEPT !.env = (x :> v) @@ @, !.v = v]

Apply(s, op, a, b) ==
  CASE op \in {"/", "%"} /\ b = 0             -> [s EXCEPT !.st = "err"]
    [] op \in {"/", "%"} /\ DivOverflows(a, b) -> [s EXCEPT !.st = "unspecified"]
    [] OTHER                                   -> Give(s, Arith(op, a, b))

\* The functions defined once a line has run.
Defined(prog, D) ==
  LET fs == SelectSeq(prog, LAMBDA n : n[1] = "Func") IN
  [x \in {Lower[fs[k][3]] : k \in DOMAIN fs} |->
     LET n == fs[Max({k \in DOMAIN fs : Lower[fs[k][3]] = x})] IN
     [ret |-> n[2], params |-> n[4], body |-> n[5]]] @@ D

IsBuiltin(name) == Lower[name] \in {"print", "run"}

\* Go on from s, unless the program has ended.
Ran(s, K(_)) == IF s.st = "ok" THEN K(s) ELSE s

RECURSIVE Eval(_, _, _), EvalArgs(_, _, _, _), Exec(_, _, _), ExecAll(_, _, _), Script(_, _, _)

\* Arguments from left to right; the values so far are in vs.
EvalArgs(args, s, D, vs) ==
  LET next(t) == EvalArgs(Tail(args), t, D, Append(vs, t.v)) IN
  IF args = <<>> \/ s.st # "ok"
  THEN [s |-> s, vs |-> vs]
  ELSE next(Eval(Head(args), s, D))

\* Whether a statement is an expression with a value to print.
Printable(n, D) ==
  /\ n[1] = "Expr"
  /\ n[2][1] \in {"Call", "Var"} /\ n[2][2] \in DOMAIN Lower =>
       /\ ~IsBuiltin(n[2][2])
       /\ Lower[n[2][2]] \in DOMAIN D => D[Lower[n[2][2]]].ret # "U0"

\* A line: its functions are known when it runs, its variables are its own,
\* and the value of a last expression is printed when it is not zero.
Meaning(prog, out, D) ==
  LET E == Defined(prog, D)
      printed(t) == IF prog # <<>> /\ Printable(Last(prog), E) /\ t.v # 0
                    THEN [t EXCEPT !.out = Append(@, <<t.v>>)] ELSE t
  IN Ran(ExecAll(prog, Store0(out), E), printed)

\* A script runs line by line; a line that fails is given up, and the next one
\* runs.
Script(lines, s, D) ==
  LET next(t) == Script(Tail(lines), [s EXCEPT !.out = t.out,
                                               !.st = IF t.st = "unspecified" THEN t.st ELSE "ok"], D)
  IN IF lines = <<>> \/ s.st # "ok" THEN Give(s, 0) ELSE next(Meaning(Head(lines), s.out, D))

\* A call of a defined function, with the defaults of the missing arguments.
CallDefined(s, d, vs, D) ==
  LET n == Len(d.params)
      all == [k \in 1..n |-> IF k <= Len(vs) THEN vs[k] ELSE d.params[k][3][1]]
      env == [x \in {d.params[k][2] : k \in 1..n} |->
                all[CHOOSE k \in 1..n : d.params[k][2] = x]]
      back(t) == [s EXCEPT !.out = t.out, !.v = IF t.st = "ret" THEN t.v ELSE 0,
                           !.st = IF t.st \in {"err", "unspecified"} THEN t.st ELSE "ok"]
  IN back(ExecAll(d.body, [Store0(s.out) EXCEPT !.env = env], D))

EvalCall(name, args, s, D) ==
  LET scripts(v) == {f \in DOMAIN Files : Addr[f] = v}
      apply(r) ==
        CASE r.s.st # "ok"            -> r.s
          [] Lower[name] = "print"    -> [r.s EXCEPT !.out = Append(@, r.vs), !.v = 0]
          [] Lower[name] # "run"      -> CallDefined(r.s, D[Lower[name]], r.vs, D)
          [] scripts(r.vs[1]) = {}    -> Give(r.s, MinusOne)
          [] OTHER                    -> Script(Files[CHOOSE f \in scripts(r.vs[1]) : TRUE], r.s, D)
  IN apply(EvalArgs(args, s, D, <<>>))

Eval(e, s, D) ==
  CASE s.st # "ok"      -> s
    [] e[1] = "Lit"     -> Give(s, e[2])
    [] e[1] = "Str"     -> Give(s, Addr[e[2]])
    [] e[1] = "Var"     -> Give(s, Value(s, e[2]))
    [] e[1] = "Call"    -> EvalCall(e[2], e[3], s, D)
    [] e[1] = "Assign"  -> Ran(IF e[2] = "=" THEN Eval(e[4], s, D)
                               ELSE Ran(Eval(e[4], s, D), LAMBDA t :
                                      Apply(t, CompoundOp[e[2]], Value(s, e[3]), t.v)),
                               LAMBDA u : Assign(u, e[3], u.v))
    [] e[1] = "Post"    -> LET old == Value(s, e[3]) IN
                           Give(Assign(s, e[3], Wrap(IF e[2] = "++" THEN old + 1 ELSE old - 1)), old)
    [] e[1] = "Un"      -> Ran(Eval(e[3], s, D), LAMBDA t :
                             CASE e[2] = "-"            -> Give(t, Wrap(-t.v))
                               [] e[2] = "!"            -> Give(t, Truth(t.v = 0))
                               [] e[2] = "~"            -> Give(t, MinusOne - t.v)
                               [] e[2] = "++"           -> Assign(t, e[3][2], Wrap(t.v + 1))
                               [] e[2] = "--"           -> Assign(t, e[3][2], Wrap(t.v - 1)))
    [] e[1] = "Bin"     -> Ran(Eval(e[3], s, D), LAMBDA a :
                             CASE e[2] = "&&" /\ a.v = 0 -> Give(a, 0)
                               [] e[2] = "||" /\ a.v # 0 -> Give(a, 1)
                               [] OTHER -> Ran(Eval(e[4], a, D), LAMBDA b :
                                             IF e[2] \in {"&&", "||"}
                                             THEN Give(b, Truth(b.v # 0))
                                             ELSE Apply(b, e[2], a.v, b.v)))

ExecAll(ss, s, D) ==
  IF ss = <<>> \/ s.st # "ok" THEN s ELSE ExecAll(Tail(ss), Exec(Head(ss), s, D), D)

\* A for loop is its first part and a while loop; the last part of the
\* header runs after the body.
Exec(n, s, D) ==
  LET bare == /\ n[2][1] = "Var" /\ n[2][2] \in DOMAIN Lower
              /\ IsBuiltin(n[2][2]) \/ Lower[n[2][2]] \in DOMAIN D
      Opt(ss) == SelectSeq(ss, LAMBDA x : x[2] # <<>>)
      first == IF n[2] # <<>> /\ n[2][1] = "Decl" THEN <<n[2]>> ELSE Opt(<< <<"Expr", n[2]>> >>)
      body == <<"Block", <<n[5]>> \o Opt(<< <<"Expr", n[4]>> >>)>>
      cond == IF n[3] = <<>> THEN <<"Lit", 1>> ELSE n[3]
      given == IF n[2] = <<>> THEN <<"Lit", 0>> ELSE n[2]
  IN CASE s.st # "ok"     -> s
       [] n[1] = "Expr"   -> Eval(IF bare THEN <<"Call", n[2][2], <<>> >> ELSE n[2], s, D)
       [] n[1] = "Decl"   -> IF n[4] = <<>> THEN s
                             ELSE Ran(Eval(n[4], s, D), LAMBDA t : Assign(t, n[3], t.v))
       [] n[1] = "Block"  -> ExecAll(n[2], s, D)
       [] n[1] = "If"     -> Ran(Eval(n[2], s, D), LAMBDA t :
                               IF t.v # 0 THEN Exec(n[3], t, D)
                               ELSE IF n[4] = <<>> THEN t ELSE Exec(n[4], t, D))
       [] n[1] = "While"  -> Ran(Eval(n[2], s, D), LAMBDA t :
                               IF t.v = 0 THEN t ELSE Exec(n, Exec(n[3], t, D), D))
       [] n[1] = "For"    -> ExecAll(first \o << <<"While", cond, body>> >>, s, D)
       [] n[1] = "Return" -> Ran(Eval(given, s, D), LAMBDA t : [t EXCEPT !.st = "ret"])
       [] n[1] = "Func"   -> s

------------------------------------------------------------------------------
(* How programs are written *)

\* Whether a program uses a logical operator.
Logical(prog) == {<<"&&">>, <<"||">>} \cap Range(Source(prog)) # {}

\* Whether it uses a prefix ++ or --: one that follows no name.
PrefixStep(prog) ==
  LET s == Source(prog) IN
  \E k \in DOMAIN s : s[k] \in {<<"++">>, <<"--">>} /\ (k = 1 \/ s[k - 1][1] # "id")
==============================================================================
