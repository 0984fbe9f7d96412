------------------------------ MODULE NocParser ------------------------------
(***************************************************************************)
(* The NOC parser (src/kernel/noc/parser.c): from the token sequence of a  *)
(* line to its syntax tree, by recursive descent with one tier of binary   *)
(* operators per precedence.                                               *)
(*                                                                         *)
(* A token is a tuple whose first element is its kind: <<"num", v>>,       *)
(* <<"str", s>>, <<"id", x>>, <<"type", ty>>, and <<k>> for an operator, a *)
(* punctuation mark, a keyword or "eof".  A line ends with <<"eof">>.      *)
(*                                                                         *)
(* A node is a tuple whose first element is its kind; an absent child      *)
(* (NULL in the code) is <<>>.  Allocation from the line's arena and the   *)
(* wording of errors are left out: a parse gives a tree or Fail.           *)
(***************************************************************************)
EXTENDS Integers, Sequences

CONSTANT MaxArgs   \* NOC_MAX_ARGS

ASSUME MaxArgsAssumption == MaxArgs \in Nat \ {0}

\* A parsing function returns Fail, or the node and the next position.
Fail == <<>>
Ok(n, i) == <<n, i>>

\* The kind of the token under the cursor.
cur(s, i) == s[i][1]

\* Go on with a node that was parsed; a failure is passed up.
Then(r, K(_, _)) == IF r = Fail THEN Fail ELSE K(r[1], r[2])

\* Step over a token that must be there.
expect(s, i, t, K(_)) == IF cur(s, i) = t THEN K(i + 1) ELSE Fail

\* A statement ends with ';', which the end of the line may stand for.
semi_ok(s, i, n) ==
  CASE cur(s, i) = ";"   -> Ok(n, i + 1)
    [] cur(s, i) = "eof" -> Ok(n, i)
    [] OTHER             -> Fail

\* Mutant of Tiers: shifts bind looser than comparisons.
Tiers_ShiftLoose ==
  << {"||"}, {"&&"}, {"|"}, {"^"}, {"&"}, {"==", "!="},
     {"<<", ">>"}, {"<", "<=", ">", ">="}, {"+", "-"}, {"*", "/", "%"} >>

\* The binary operators, a tier for each parse_xxx function, loosest first.
Tiers == << {"||"}, {"&&"}, {"|"}, {"^"}, {"&"}, {"==", "!="},
            {"<", "<=", ">", ">="}, {"<<", ">>"}, {"+", "-"}, {"*", "/", "%"} >>

UnaryOps == {"!", "-", "~", "++", "--"}
AssignOps == {"=", "+=", "-=", "*=", "/="}

RECURSIVE parse_assign(_, _), arg_list(_, _, _), postfix_loop(_, _, _),
          parse_unary(_, _), parse_binop(_, _, _), binop_loop(_, _, _, _)

parse_expr(s, i) == parse_assign(s, i)

parse_primary(s, i) ==
  CASE cur(s, i) = "num"   -> Ok(<<"Lit", s[i][2]>>, i + 1)
    [] cur(s, i) = "str"   -> Ok(<<"Str", s[i][2]>>, i + 1)
    [] cur(s, i) = "true"  -> Ok(<<"Lit", 1>>, i + 1)
    [] cur(s, i) = "false" -> Ok(<<"Lit", 0>>, i + 1)
    [] cur(s, i) = "id"    -> Ok(<<"Var", s[i][2]>>, i + 1)
    [] cur(s, i) = "("     -> Then(parse_expr(s, i + 1), LAMBDA e, j :
                                expect(s, j, ")", LAMBDA k : Ok(e, k)))
    [] OTHER               -> Fail

\* The arguments of a call, after the first of them or ','.
arg_list(s, i, args) ==
  Then(parse_expr(s, i), LAMBDA e, j :
    CASE Len(args) >= MaxArgs -> Fail
      [] cur(s, j) = ","      -> arg_list(s, j + 1, Append(args, e))
      [] OTHER                -> expect(s, j, ")", LAMBDA k : Ok(Append(args, e), k)))

\* Calls and postfix ++ and -- apply to a name.
postfix_loop(s, e, i) ==
  CASE cur(s, i) \notin {"(", "++", "--"} -> Ok(e, i)
    [] e[1] # "Var"      -> Fail
    [] cur(s, i) = "("   ->
         Then(IF cur(s, i + 1) = ")" THEN Ok(<<>>, i + 2) ELSE arg_list(s, i + 1, <<>>),
              LAMBDA args, j : postfix_loop(s, <<"Call", e[2], args>>, j))
    [] OTHER             -> postfix_loop(s, <<"Post", cur(s, i), e[2]>>, i + 1)

parse_postfix(s, i) == Then(parse_primary(s, i), LAMBDA e, j : postfix_loop(s, e, j))

parse_unary(s, i) ==
  IF cur(s, i) \in UnaryOps
  THEN Then(parse_unary(s, i + 1), LAMBDA e, j :
         IF cur(s, i) \in {"++", "--"} /\ e[1] # "Var"
         THEN Fail
         ELSE Ok(<<"Un", cur(s, i), e>>, j))
  ELSE parse_postfix(s, i)

\* One tier: operands of the next tier, joined from the left.
binop_loop(s, lhs, i, k) ==
  IF cur(s, i) \in Tiers[k]
  THEN Then(parse_binop(s, i + 1, k + 1), LAMBDA rhs, j :
         binop_loop(s, <<"Bin", cur(s, i), lhs, rhs>>, j, k))
  ELSE Ok(lhs, i)

parse_binop(s, i, k) ==
  IF k > Len(Tiers)
  THEN parse_unary(s, i)
  ELSE Then(parse_binop(s, i, k + 1), LAMBDA lhs, j : binop_loop(s, lhs, j, k))

parse_assign(s, i) ==
  Then(parse_binop(s, i, 1), LAMBDA lhs, j :
    CASE cur(s, j) \notin AssignOps -> Ok(lhs, j)
      [] lhs[1] # "Var"             -> Fail
      [] OTHER -> Then(parse_assign(s, j + 1), LAMBDA rhs, k :
                    Ok(<<"Assign", cur(s, j), lhs[2], rhs>>, k)))

------------------------------------------------------------------------------
(* Statements *)

\* An expression that may be left out before the token `stop`.
optional_expr(s, i, stop) ==
  IF cur(s, i) = stop THEN Ok(<<>>, i) ELSE parse_expr(s, i)

\* '=' and an expression, or nothing.
initialiser(s, i) == IF cur(s, i) = "=" THEN parse_expr(s, i + 1) ELSE Ok(<<>>, i)

\* A parameter: its type, its name and its default, a literal or absent.
param(s, i) ==
  expect(s, i, "type", LAMBDA j : expect(s, j, "id", LAMBDA k :
    CASE cur(s, k) # "="         -> Ok(<<s[i][2], s[j][2], <<>> >>, k)
      [] cur(s, k + 1) = "num"   -> Ok(<<s[i][2], s[j][2], <<s[k + 1][2]>> >>, k + 2)
      [] cur(s, k + 1) = "true"  -> Ok(<<s[i][2], s[j][2], <<1>> >>, k + 2)
      [] cur(s, k + 1) = "false" -> Ok(<<s[i][2], s[j][2], <<0>> >>, k + 2)
      [] OTHER                   -> Fail))

RECURSIVE parse_params(_, _, _), parse_stmt(_, _), parse_stmts(_, _, _, _)

\* The parameters after '(' or ','.  The last slot of the table is never used.
parse_params(s, i, prms) ==
  Then(param(s, i), LAMBDA p, j :
    CASE Len(prms) + 1 >= MaxArgs -> Fail
      [] cur(s, j) = ","          -> parse_params(s, j + 1, Append(prms, p))
      [] OTHER                    -> expect(s, j, ")", LAMBDA k : Ok(Append(prms, p), k)))

\* Statements up to the token `stop`: '}' in a block, the end of the line.
parse_stmts(s, i, stop, done) ==
  CASE cur(s, i) = stop  -> Ok(done, i + 1)
    [] cur(s, i) = "eof" -> Fail
    [] OTHER -> Then(parse_stmt(s, i), LAMBDA n, j :
                  parse_stmts(s, j, stop, Append(done, n)))

parse_block(s, i) == expect(s, i, "{", LAMBDA j : parse_stmts(s, j, "}", <<>>))

\* A declaration of a function, or of a variable.
parse_decl(s, i) ==
  expect(s, i + 1, "id", LAMBDA j :
    IF cur(s, j) = "("
    THEN Then(IF cur(s, j + 1) = ")" THEN Ok(<<>>, j + 2) ELSE parse_params(s, j + 1, <<>>),
              LAMBDA prms, k : Then(parse_block(s, k), LAMBDA body, m :
                Ok(<<"Func", s[i][2], s[i + 1][2], prms, body>>, m)))
    ELSE Then(initialiser(s, j), LAMBDA e, k :
           semi_ok(s, k, <<"Decl", s[i][2], s[i + 1][2], e>>)))

\* '(' condition ')', of if and while.
condition(s, i, K(_, _)) ==
  expect(s, i + 1, "(", LAMBDA j : Then(parse_expr(s, j), LAMBDA e, k :
    expect(s, k, ")", LAMBDA m : K(e, m))))

\* The first part of a for header, with its ';'.
for_init(s, i) ==
  IF cur(s, i) = "type"
  THEN expect(s, i + 1, "id", LAMBDA j : Then(initialiser(s, j), LAMBDA e, k :
         expect(s, k, ";", LAMBDA m : Ok(<<"Decl", s[i][2], s[i + 1][2], e>>, m))))
  ELSE Then(optional_expr(s, i, ";"), LAMBDA e, k :
         expect(s, k, ";", LAMBDA m : Ok(e, m)))

parse_for(s, i) ==
  expect(s, i + 1, "(", LAMBDA j : Then(for_init(s, j), LAMBDA a, k :
    Then(optional_expr(s, k, ";"), LAMBDA b, m : expect(s, m, ";", LAMBDA n :
      Then(optional_expr(s, n, ")"), LAMBDA c, p : expect(s, p, ")", LAMBDA q :
        Then(parse_stmt(s, q), LAMBDA body, r :
          Ok(<<"For", a, b, c, body>>, r))))))))

parse_if(s, i) ==
  condition(s, i, LAMBDA e, j : Then(parse_stmt(s, j), LAMBDA b, k :
    IF cur(s, k) = "else"
    THEN Then(parse_stmt(s, k + 1), LAMBDA c, m : Ok(<<"If", e, b, c>>, m))
    ELSE Ok(<<"If", e, b, <<>> >>, k)))

parse_stmt(s, i) ==
  CASE cur(s, i) = "type"   -> parse_decl(s, i)
    [] cur(s, i) = "{"      -> Then(parse_block(s, i), LAMBDA b, j : Ok(<<"Block", b>>, j))
    [] cur(s, i) = "if"     -> parse_if(s, i)
    [] cur(s, i) = "while"  -> condition(s, i, LAMBDA e, j :
                                 Then(parse_stmt(s, j), LAMBDA b, k : Ok(<<"While", e, b>>, k)))
    [] cur(s, i) = "for"    -> parse_for(s, i)
    [] cur(s, i) = "return" -> Then(optional_expr(s, i + 1, ";"), LAMBDA e, j :
                                 semi_ok(s, j, <<"Return", e>>))
    [] cur(s, i) = "eof"    -> Fail
    [] OTHER                -> Then(parse_expr(s, i), LAMBDA e, j : semi_ok(s, j, <<"Expr", e>>))

\* A whole line: Fail, or its statements.
noc_parse(s) == Then(parse_stmts(s, 1, "eof", <<>>), LAMBDA stmts, i : <<stmts>>)
==============================================================================
