--------------------------------- MODULE Meaning --------------------------------
(***************************************************************************)
(* What the body of a function does, by evaluating its syntax tree the way *)
(* the generated C does: the type of an arithmetic operation is that of    *)
(* its operands.  A node is [k, v, t, kids]: its kind, a name, operator or *)
(* value, a type, and the nodes below it.  This is the reference that      *)
(* Optimizer is compared with, no part of the compiler.                    *)
(***************************************************************************)
EXTENDS Integers, Sequences, SequencesExt, FiniteSets, TLC

CONSTANT Fuel  \* rounds of a loop that are followed

Node(k, v, t, kids) == [k |-> k, v |-> v, t |-> t, kids |-> kids]
Num(t, n) == Node("lit", n, t, <<>>)
Text(s) == Node("lit", s, "str", <<>>)
Var(name) == Node("var", name, "", <<>>)
Bin(op, l, r) == Node("bin", op, "", <<l, r>>)
Un(op, e) == Node("un", op, "", <<e>>)
Call(name, args) == Node("call", name, "", args)
Assign(name, e) == Node("assign", name, "", <<e>>)
Compound(op, target, e) == Node("compound", op, "", <<target, e>>)
Interpolated(specs, parts) == Node("interp", specs, "", parts)
Lambda(body) == Node("lambda", "", "", body)
Expr(e) == Node("expr", "", "", <<e>>)
Decl(name, t, e) == Node("decl", name, t, <<e>>)
Return(e) == Node("return", "", "", <<e>>)
Block(stmts) == Node("block", "", "", stmts)
If(c, then) == Node("if", "", "", <<c, then>>)
IfElse(c, then, else) == Node("if", "", "", <<c, then, else>>)
While(c, body) == Node("while", "", "", <<c, body>>)
Lock(body) == Node("lock", "", "", <<Var("m"), body>>)
Jump(kind) == Node(kind, "", "", <<>>)

--------------------------------------------------------------------------------
(* Values.  A double is counted in quarters.                               *)

Value(t, n) == [t |-> t, n |-> n]
NoValue == Value("void", 0)
Quarters(v) == IF v.t = "double" THEN v.n ELSE 4 * v.n
Converted(v, t) ==
  CASE t = "double" /\ v.t # "double" -> Value("double", Quarters(v))
    [] t = "int" /\ v.t = "double" -> Value("int", v.n \div 4)
    [] OTHER -> v
Printed(v, spec) ==
  IF v.t = "str" THEN v.n ELSE <<spec \o (IF v.t = "double" THEN "." ELSE "") \o ToString(v.n)>>

Arithmetic(op, l, r) ==
  LET both(f(_, _)) == IF "double" \in {l.t, r.t} THEN Value("double", f(Quarters(l), Quarters(r)))
                       ELSE Value("int", f(l.n, r.n))
      times == IF "double" \in {l.t, r.t} THEN Value("double", (Quarters(l) * Quarters(r)) \div 4)
               ELSE Value("int", l.n * r.n)
      over == IF "double" \in {l.t, r.t} THEN Value("double", (4 * Quarters(l)) \div Quarters(r))
              ELSE Value("int", l.n \div r.n)
  IN  CASE op = "+" /\ l.t = "str" -> Value("str", l.n \o Printed(r, ""))
        [] op = "+" -> both(LAMBDA x, y : x + y)
        [] op = "-" -> both(LAMBDA x, y : x - y)
        [] op = "*" -> times
        [] op = "/" -> over

--------------------------------------------------------------------------------
(* A state: the scopes, innermost last, what was called and printed, how   *)
(* the last statement ended, the value of the last expression, and after   *)
(* how many events a call marked as a tail call was made.                  *)

Started(input) ==
  [scopes |-> <<input>>, trace |-> <<>>, out |-> "next", value |-> NoValue, tails |-> {}]
Going(s) == s.out = "next"
With(s, v) == [s EXCEPT !.value = v]
Ended(s, out) == [s EXCEPT !.out = out]
Event(s, e) == [s EXCEPT !.trace = Append(@, e)]
ScopesOf(s, name) == {i \in DOMAIN s.scopes : name \in DOMAIN s.scopes[i]}
InnermostOf(s, name) == CHOOSE i \in ScopesOf(s, name) : \A j \in ScopesOf(s, name) : j <= i
Lookup(s, name) == s.scopes[InnermostOf(s, name)][name]
Store(s, name, v) ==
  LET i == InnermostOf(s, name)
  IN  [s EXCEPT !.scopes[i][name] = Converted(v, @.t), !.value = Converted(v, Lookup(s, name).t)]
Declare(s, name, v) ==
  [s EXCEPT !.scopes[Len(s.scopes)] = (name :> v) @@ @]
Opened(s) == [s EXCEPT !.scopes = Append(@, <<>>)]
Closed(s) == [s EXCEPT !.scopes = Front(@)]

RECURSIVE Eval(_, _)
RECURSIVE EvalAll(_, _, _)
(* The values of several expressions, from left to right, in acc.          *)
EvalAll(s, nodes, acc) ==
  IF nodes = <<>> \/ ~Going(s) THEN [s |-> s, values |-> acc]
  ELSE LET after == Eval(s, Head(nodes)) IN EvalAll(after, Tail(nodes), Append(acc, after.value))

Eval(s, e) ==
  LET all == EvalAll(s, e.kids, <<>>)
      after == all.s
      v == all.values
      of(w) == With(after, w)
      target == e.kids[1].v
      made == Event(after, <<e.v, [i \in DOMAIN v |-> v[i]]>>)
  IN  CASE e.k = "lit" -> With(s, Value(e.t, IF e.t = "double" THEN 4 * e.v ELSE e.v))
        [] e.k = "var" -> IF ScopesOf(s, e.v) = {} THEN Ended(s, "undeclared") ELSE With(s, Lookup(s, e.v))
        [] e.k = "lambda" -> With(s, NoValue)
        [] ~Going(after) -> after
        [] e.k = "bin" /\ e.v = "/" /\ v[2].n = 0 -> Ended(after, "panic")
        [] e.k = "bin" -> of(Arithmetic(e.v, v[1], v[2]))
        [] e.k = "un" -> of(IF e.v = "!" THEN Value("bool", ~v[1].n) ELSE Value(v[1].t, -v[1].n))
        [] e.k = "call" ->
             With([made EXCEPT !.tails = IF e.t = "tail" THEN @ \cup {Len(made.trace)} ELSE @],
                  Value("int", 2))
        [] e.k = "assign" ->
             IF ScopesOf(after, e.v) = {} THEN Ended(after, "undeclared") ELSE Store(after, e.v, v[1])
        [] e.k = "compound" -> Store(after, target, Arithmetic(e.v, v[1], v[2]))
        [] e.k = "interp" ->
             of(Value("str", FlattenSeq([i \in DOMAIN v |-> Printed(v[i], e.v[i])])))

RECURSIVE Exec(_, _)
RECURSIVE ExecAll(_, _)
ExecAll(s, stmts) ==
  IF stmts = <<>> \/ ~Going(s) THEN s ELSE ExecAll(Exec(s, Head(stmts)), Tail(stmts))
InScope(s, stmts) == Closed(ExecAll(Opened(s), stmts))
RECURSIVE Rounds(_, _, _)
Rounds(s, loop, left) ==
  LET tested == Eval(s, loop.kids[1])
      body == Exec(tested, loop.kids[2])
  IN  IF ~Going(tested) \/ ~tested.value.n THEN tested
      ELSE IF left = 0 THEN Ended(tested, "spent")
      ELSE CASE body.out \in {"next", "continue"} -> Rounds(Ended(body, "next"), loop, left - 1)
             [] body.out = "break" -> Ended(body, "next")
             [] OTHER -> body

Exec(s, n) ==
  LET first == Eval(s, n.kids[1])
      done == Exec(Event(first, <<"lock", <<>>>>), n.kids[2])
  IN  CASE n.k \in {"break", "continue"} -> Ended(s, n.k)
        [] n.k = "block" -> InScope(s, n.kids)
        [] n.k = "while" -> Rounds(s, n, Fuel)
        [] n.k = "return" /\ n.kids = <<>> -> Ended(s, "return")
        [] ~Going(first) -> first
        [] n.k = "expr" -> first
        [] n.k = "decl" -> Declare(first, n.v, Converted(first.value, n.t))
        [] n.k = "return" -> Ended(first, "return")
        [] n.k = "if" -> IF first.value.n THEN Exec(first, n.kids[2])
                         ELSE IF Len(n.kids) = 3 THEN Exec(first, n.kids[3]) ELSE first
        [] n.k = "lock" -> Event(done, <<"unlock", <<>>>>)

(* What a caller sees of a body: what it did, how it ended, what it gave.  *)
Run(body, input) == InScope(Started(input), body)
Seen(body, input) ==
  LET s == Run(body, input)
  IN  <<s.trace, s.out, IF s.out = "return" THEN s.value ELSE NoValue>>
CallsSeen(body, input) == SelectSeq(Run(body, input).trace, LAMBDA e : e[1] \notin {"lock", "unlock"})

(* The names a body mentions where they are not declared; C has no such    *)
(* program, whether it comes there or not.                                 *)
RECURSIVE Free(_, _)
FreeInOrder(nodes, bound) ==
  FoldLeft(LAMBDA acc, n :
             [free |-> acc.free \cup Free(n, acc.bound),
              bound |-> acc.bound \cup (IF n.k = "decl" THEN {n.v} ELSE {})],
           [free |-> {}, bound |-> bound], nodes).free
Free(n, bound) ==
  FreeInOrder(n.kids, bound) \cup (IF n.k \in {"var", "assign"} THEN {n.v} \ bound ELSE {})
================================================================================
