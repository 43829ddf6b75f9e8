------------------------------- MODULE MCOptimizer ------------------------------
(***************************************************************************)
(* Bodies of up to three statements and a return for Optimizer, over two   *)
(* variables and the parameters a, an int, and p, a bool.                  *)
(***************************************************************************)
EXTENDS Optimizer

CONSTANT Length  \* statements before the return

MCInputs == {[a |-> Value("int", n), p |-> Value("bool", b), m |-> Value("int", 0)] :
               n \in {1, 2}, b \in BOOLEAN}

F == Call("f", <<>>)
One == Num("int", 1)
Zero == Num("int", 0)
Again == Call("self", <<Bin("-", Var("a"), One)>>)
Numbers ==
  {Bin("+", Var("a"), Zero), Bin("-", Zero, Bin("*", One, Var("a"))), Un("-", Un("-", Var("a"))), F,
   Bin("+", One, F)}
Mixed == Bin("/", Bin("*", Var("a"), Num("double", 1)), Num("int", 2))
Strings ==
  {Bin("+", Text(<<"u">>), Bin("+", Text(<<"v">>), Text(<<"w">>))),
   Interpolated(<<"", "", "", "%">>, <<Text(<<"u">>), Var("a"), Text(<<"v">>), Var("a")>>),
   Interpolated(<<"", "", "">>, <<Text(<<"u">>), Text(<<"v">>), Var("a")>>)}

Statements ==
  {Decl("x", "int", e) : e \in Numbers} \cup {Decl("y", "str", e) : e \in Strings}
    \cup {Decl("z", "int", Assign("x", Bin("/", Var("a"), One))),
          Expr(Lambda(<<Expr(Var("x"))>>)), Expr(Assign("x", F)), Expr(Compound("+", Var("x"), One)),
          Expr(F), If(Var("p"), Block(<<Return(Var("x")), Expr(F)>>)),
          IfElse(Un("!", Un("!", Var("p"))), Block(<<Return(F), Expr(F)>>), Block(<<Return(Again)>>)),
          While(Var("p"), Block(<<If(Un("!", Var("p")), Jump("continue")), Expr(F), Jump("break"), Expr(F)>>)),
          Lock(Block(<<Return(Again)>>))}
Ends == {Return(Var("x")), Return(Var("y")), Return(Again)}

Bodies(stmts, ends) ==
  {b \in {Append(s, r) : s \in UNION {[1..k -> stmts] : k \in 1..Length}, r \in ends} :
     FreeInOrder(b, {"a", "p", "m"}) = {}}
MCPrograms == Bodies(Statements, Ends)
(* a * 1.0 is a double, "u" + 0 is a string, and the format belongs to a.  *)
MCUntyped ==
  {<<Return(Mixed)>>, <<Return(Bin("+", Text(<<"u">>), Zero))>>,
   <<Return(Interpolated(<<"", "", "%">>, <<Text(<<"u">>), Text(<<"v">>), Var("a")>>))>>}
================================================================================
