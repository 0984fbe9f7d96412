-------------------------------- MODULE MCNoc --------------------------------
(***************************************************************************)
(* NOC sessions small enough to enumerate, with words of four bits.        *)
(***************************************************************************)
EXTENDS NocDoc

Lit(v) == <<"Lit", v>>
Var(x) == <<"Var", x>>
Bin(op, e, f) == <<"Bin", op, e, f>>
Un(op, e) == <<"Un", op, e>>
Set(x, e) == <<"Assign", "=", x, e>>
Call(f, es) == <<"Call", f, es>>
Do(e) == <<"Expr", e>>
Let(x, e) == <<"Decl", "I64", x, e>>
Block(ss) == <<"Block", ss>>
Ret(e) == <<"Return", e>>
Fun(ty, f, prms, body) == <<"Func", ty, f, prms, body>>
Param(x) == <<"I64", x, <<>> >>
Default(x, v) == <<"I64", x, <<v>> >>
Show(e) == Do(Call("Print", <<e>>))

a == Var("a")
b == Var("b")

MCLower == ("Print" :> "print") @@
           [print |-> "print", Run |-> "run", DraftRun |-> "draftrun",
            f |-> "f", F |-> "f", g |-> "g", h |-> "h", m |-> "m",
            a |-> "a", b |-> "b", nowhere |-> "nowhere"]

MCBuiltins ==
  << [name |-> "Print", ret |-> "U0", nargs |-> 1, variadic |-> TRUE],
     [name |-> "Run", ret |-> "U0", nargs |-> 1, variadic |-> FALSE],
     [name |-> "DraftRun", ret |-> "I64", nargs |-> 1, variadic |-> FALSE] >>

MCAddr == [script |-> 9, redef |-> 10, loop |-> 11, hi |-> 12, lost |-> 13, tale |-> 14]

Plain1 == UNION {Tiers[k] : k \in 3..Len(Tiers)}
Binary1 == Plain1 \cup {"&&", "||"}
Unary1 == {"-", "!", "~"}

\* Every operator on every pair of words.
WordLines == {<< Let("a", Lit(v)), Show(Bin(op, a, Lit(w))) >> :
                v \in Word, w \in Word, op \in Plain1}
               \cup {<< Let("a", Lit(v)), Do(Un(u, a)) >> : v \in Word, u \in Unary1}

\* Every operator nested in every other, on either side.
Nested ==
  {Bin(p, Bin(q, a, b), Lit(5)) : p \in Binary1, q \in Binary1}
    \cup {Bin(p, a, Bin(q, b, Lit(5))) : p \in Binary1, q \in Binary1}
    \cup {Un(u, Bin(p, a, b)) : u \in Unary1, p \in Binary1}
    \cup {Bin(p, Un(u, a), Un("-", b)) : u \in Unary1, p \in Binary1}
    \cup {Un(u, Un(v, a)) : u \in Unary1, v \in Unary1}
    \cup {Un("-", <<"Post", "++", "a">>), Bin("+", <<"Post", "--", "a">>, a), Un("++", a), Un("--", b)}
    \cup {<<"Assign", op, "a", e>> :
            op \in {"=", "+=", "-=", "*=", "/="},
            e \in {b, Bin("-", a, b), <<"Assign", "*=", "b", Lit(2)>>, <<"Post", "++", "b">>}}
    \cup {Bin(p, Set("a", Lit(1)), a) : p \in Plain1}
NestedLines == {<< Let("a", Lit(3)), Let("b", Lit(14)), Do(e), Do(Bin("+", a, b)) >> : e \in Nested}

------------------------------------------------------------------------------
(* Control flow *)

Conditions == {a, Bin(">", b, a), Bin("==", a, Lit(2))}
Step(x, d) == Do(<<"Assign", "+=", x, Lit(d)>>)
Bodies == {Step("a", 1), Block(<<Show(a), Step("a", 15)>>)}

Branches ==
  {<<"If", c, s, <<>> >> : c \in Conditions, s \in Bodies}
    \cup {<<"If", c, Block(<<s>>), t>> : c \in Conditions, s \in Bodies, t \in Bodies}
    \cup {<<"If", a, Block(<< <<"If", b, Show(a), <<>> >> >>), Show(b)>>}

Loops ==
  {<<"While", Bin("<", a, b), Step("a", 1)>>,
   <<"While", a, Block(<<Show(a), Step("a", 15)>>)>>,
   <<"For", Let("i", Lit(0)), Bin("<", Var("i"), Lit(3)), <<"Post", "++", "i">>, Show(Var("i"))>>,
   <<"For", Set("a", Lit(2)), a, <<"Post", "--", "a">>, Block(<<Let("k", a), Show(Var("k"))>>)>>,
   <<"For", <<>>, Bin("!=", a, b), <<>>, Step("a", 1)>>,
   <<"For", Let("i", <<>>), Bin("<", Var("i"), Lit(2)), Set("i", Bin("+", Var("i"), Lit(1))),
     <<"For", Let("j", Lit(0)), Bin("<", Var("j"), Lit(2)), <<"Post", "++", "j">>,
       Show(Bin("+", Var("i"), Var("j")))>> >>}

Flow == {<<Let("a", Lit(v)), Let("b", Lit(3)), s, Do(a)>> : v \in {0, 1, 2}, s \in Branches \cup Loops}

------------------------------------------------------------------------------
(* Sessions of several lines *)

I64f(body) == <<Fun("I64", "f", <<Param("x")>>, body)>>
Mul2 == <<Fun("I64", "m", <<Param("x"), Default("y", 2)>>, <<Ret(Bin("*", Var("x"), Var("y")))>>)>>
Early == <<Fun("I64", "h", <<Param("x")>>,
             <<<<"While", Lit(1), Block(<<Step("x", 1),
                 <<"If", Bin(">", Var("x"), Lit(3)), Ret(Var("x")), <<>> >>,
                 <<"If", Bin("==", Var("x"), Lit(2)), Ret(<<>>), <<>> >> >>)>>>>)>>
Greet == <<Fun("U0", "g", <<>>, <<Let("t", Lit(6)), Show(Bin("+", Var("t"), <<"Str", "hi">>))>>)>>
Rec == I64f(<< <<"If", Bin("==", Var("x"), Lit(0)), Ret(Lit(1)), <<>> >>,
               Ret(Bin("+", Lit(1), Call("f", <<Bin("-", Var("x"), Lit(1))>>)))>>)

CallSessions ==
  {<<Mul2, <<Do(Call("m", <<Lit(3)>>)), Do(Call("m", <<Call("m", <<Lit(2)>>), Call("m", <<Lit(1), Lit(3)>>)>>))>> >>,
   <<Greet, <<Do(Var("g"))>>, <<Do(Call("print", <<Lit(4), Lit(5)>>))>> >>,
   <<Early, <<Show(Call("h", <<Lit(0)>>)), Do(Call("h", <<Lit(2)>>))>> >>,
   <<Mul2 \o <<Do(Call("m", <<Lit(7)>>))>>, <<Do(Var("m"))>> >>,
   \* recursion, through a definition that replaces an earlier one
   <<I64f(<<>>), Rec, <<Do(Call("f", <<Lit(2)>>))>> >>,
   <<I64f(<<>>), Rec, <<Do(Call("f", <<Lit(9)>>))>> >>,
   <<I64f(<<Ret(Lit(1))>>), I64f(<<Ret(Lit(2))>>), <<Do(Call("f", <<Lit(0)>>))>> >>,
   \* a caller compiled before its callee got fewer parameters
   <<I64f(<<Ret(Lit(1))>>), <<Fun("I64", "g", <<>>, <<Ret(Call("f", <<Lit(3)>>))>>)>>,
     <<Fun("I64", "f", <<>>, <<Ret(Lit(2))>>)>>, <<Do(Var("g"))>> >>,
   \* a name that differs from a registered one in case only
   <<I64f(<<Ret(Lit(1))>>), <<Fun("I64", "F", <<Param("x")>>, <<Ret(Lit(2))>>)>>,
     <<Do(Call("F", <<Lit(0)>>))>> >>}

Say(f) == Do(Call("Run", <<<<"Str", f>>>>))

MCFiles ==
  [script |-> << <<Let("k", Lit(5)), Show(Var("k"))>>, <<Do(Bin("/", Lit(1), Lit(0)))>>,
                 <<Do(Bin("+", Lit(2), Lit(2)))>> >>,
   redef  |-> << I64f(<<Ret(Lit(7))>>) >>,
   loop   |-> << <<Say("loop"), Show(Lit(1))>> >>]

MCNewlineEnded == {"script"}
MCLong == {"tale"}

ScriptSessions ==
  {<< <<Let("k", Lit(1)), Say("script"), Show(Var("k"))>> >>,
   << <<Say("lost"), Say("loop")>> >>,
   \* a script, or a draft, that replaces the function it is called from
   <<I64f(<<Say("redef"), Ret(Var("x"))>>), <<Do(Call("f", <<Lit(3)>>))>>, <<Do(Call("f", <<Lit(3)>>))>> >>,
   <<I64f(<<Ret(Call("DraftRun", <<<<"Str", "hi">>>>))>>), <<Do(Call("f", <<Lit(3)>>))>> >>,
   << <<Show(Lit(1)), Do(Call("DraftRun", <<<<"Str", "tale">>>>)), Show(Lit(2))>> >>,
   <<I64f(<<Say("script"), Ret(Bin("+", Var("x"), Lit(1)))>>), <<Do(Call("f", <<Lit(3)>>))>> >>}

MCSeed == <<Do(Var("nowhere"))>>
MCDrafts == {<<>>, I64f(<<Ret(Lit(4))>>), I64f(<<>>) \o <<Do(Var("nowhere"))>>, <<Do(Lit(1))>>}

\* Lines that are refused, and lines at the limits.
Refused ==
  {<<Do(a)>>, <<Let("a", Lit(1)), Let("a", Lit(2))>>, <<Ret(Lit(1))>>,
   <<Do(Un("++", Lit(1)))>>, <<Do(Call("h", <<>>))>>, <<Do(Call("Run", <<>>))>>,
   <<Do(Call("Run", <<Lit(1), Lit(2)>>))>>,
   <<Block(I64f(<<>>))>>, <<Do(Call("Print", <<Lit(1), Lit(2), Lit(3), Lit(4)>>))>>,
   <<Fun("I64", "f", <<Param("x"), Param("y"), Param("z")>>, <<>>)>>,
   <<Let("a", <<>>), Let("b", <<>>), Let("c", <<>>), Let("d", <<>>), Let("e", <<>>)>>,
   I64f(<<>>) \o Mul2 \o Greet,
   <<Do(Call("Print", <<<<"Str", "hi">>, <<"Str", "lost">>, <<"Str", "loop">>>>))>>,
   I64f(<<Ret(Lit(1))>>) \o <<Do(Var("nowhere"))>>}

\* Expressions that keep six, and nine, values on the stack.
Sums(e) == Bin("+", Lit(1), Bin("+", Lit(2), Bin("+", Lit(3), Bin("+", Lit(4), Bin("+", Lit(5),
             Bin("+", Lit(6), e))))))
Deep == Sums(Bin("+", Lit(7), Bin("+", Lit(8), Lit(9))))

LimitSessions ==
  {<<l, <<Show(Lit(1))>> >> : l \in Refused}
    \cup {<< <<Do(Deep)>> >>,
          <<I64f(<<Let("y", <<>>), Let("z", <<>>), Ret(Var("x"))>>), <<Do(Sums(Call("f", <<Lit(1)>>)))>> >> }

MCSessions ==
  {<<l>> : l \in WordLines \cup NestedLines \cup Flow} \cup CallSessions \cup ScriptSessions \cup LimitSessions

==============================================================================
