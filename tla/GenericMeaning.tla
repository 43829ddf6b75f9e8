--------------------------- MODULE GenericMeaning ---------------------------
(* What a program with templates means, said without a compiler: an instance  *)
(* is the template with the arguments in place of the parameters, everywhere, *)
(* and a program has the instances that can be reached from main and from the *)
(* structs it declares.  Types keep their structure (Box<Box<int>> stays so)  *)
(* until Flat gives them the names of the C code.                             *)
EXTENDS GenericTypes, FiniteSets, FiniteSetsExt, Functions, TLC

RECURSIVE Closed(_, _, _), Flat(_), Inside(_), TypeOf(_, _, _), Uses(_, _, _),
          ReachIn(_, _, _), Embeds(_, _, _)

(* A unit is what has bodies: a struct, an instance, an instance of a         *)
(* function, or main.  It says what parameters stand for.                     *)
Function(f, args) == Type("function", <<f>>, args)
MainUnit          == Type("main", <<"main">>, <<>>)
Params(p, u) == IF u.k = "inst" THEN p.templates[u.n[1]].params
                ELSE IF u.k = "function" THEN p.functions[u.n[1]].params ELSE <<>>
DeclaredIn(p)  == {s.n : s \in Range(p.structs)}
ClosedIn(p, u, t) == Closed(p, t, [x \in Range(Params(p, u)) |->
                                     u.a[SelectInSeq(Params(p, u), LAMBDA q : q = x)]])
Closed(p, t, for) ==
  IF t.k = "name" /\ t.n[1] \in DOMAIN for THEN for[t.n[1]]
  ELSE IF t.k = "name" /\ t.n \in DeclaredIn(p) THEN Struct(t.n)
  ELSE [t EXCEPT !.a = [i \in DOMAIN t.a |-> Closed(p, t.a[i], for)]]

(* The name of the C code for an instance.                                    *)
Flat(t) == IF t.k \in {"inst", "function"}
           THEN Struct(MonoName(t.n[1], [i \in DOMAIN t.a |-> Flat(t.a[i])]))
           ELSE [t EXCEPT !.a = [i \in DOMAIN t.a |-> Flat(t.a[i])]]
Inside(t) == {t} \cup UNION {Inside(t.a[i]) : i \in DOMAIN t.a}

(* Fields and methods of a struct or an instance.                             *)
Body(p, u) == IF u.k = "inst" THEN p.templates[u.n[1]]
              ELSE p.structs[SelectInSeq(p.structs, LAMBDA s : s.n = u.n)]
HasBody(p, u) == \/ u.k = "inst" /\ u.n[1] \in DOMAIN p.templates
                                 /\ Len(p.templates[u.n[1]].params) = Len(u.a)
                 \/ u.k = "struct" /\ u.n \in DeclaredIn(p)
ClosedAll(p, u, typed) == [i \in DOMAIN typed |-> [typed[i] EXCEPT !.t = ClosedIn(p, u, @)]]
FieldsOf(p, u) == IF HasBody(p, u) THEN ClosedAll(p, u, Body(p, u).fields) ELSE <<>>
MethodOf(p, u, n, static) ==
  LET ms == IF HasBody(p, u) THEN SelectSeq(Body(p, u).methods, LAMBDA m : m.n = n /\ m.static = static)
            ELSE <<>>
  IN IF ms = <<>> THEN Nothing
     ELSE [k |-> "method", ret |-> ClosedIn(p, u, ms[1].ret), params |-> ClosedAll(p, u, ms[1].params)]
TypesOf(typed) == [i \in DOMAIN typed |-> typed[i].t]

(* The arguments for which a function takes values of these types.            *)
Solutions(p, f, given) ==
  LET F == p.functions[f]
      parts == UNION {Inside(given[i]) : i \in DOMAIN given}
  IN {a \in [DOMAIN F.params -> parts] : TypesOf(ClosedAll(p, Function(f, a), F.vars)) = given}

(* The type of an expression in u with variables env, Nothing if it has none. *)
Point(t) == IF t.k = "pointer" THEN t.a[1] ELSE t
TypesIn(p, x, es) == [i \in DOMAIN es |-> TypeOf(p, x, es[i])]
Called(m, given) == IF m # Nothing /\ TypesOf(m.params) = given THEN m.ret ELSE Nothing
TypeOf(p, x, e) ==
  LET given == TypesIn(p, x, e.a)
  IN CASE e.e = "literal"  -> ClosedIn(p, x.u, e.t)
       [] e.e = "variable" -> IF e.n \in DOMAIN x.env THEN x.env[e.n] ELSE Nothing
       [] e.e = "member"   -> LET fs == SelectSeq(FieldsOf(p, Point(given[1])), LAMBDA f : f.n = e.n)
                              IN IF fs = <<>> THEN Nothing ELSE fs[1].t
       [] e.e = "invoke"   -> Called(MethodOf(p, Point(given[1]), e.n, FALSE), Tail(given))
       [] e.e = "items"    -> IF given[1] = Nothing THEN Nothing ELSE ArrayOf(given[1])
       [] e.e = "make"     -> LET t == ClosedIn(p, x.u, e.t)
                              IN IF HasBody(p, t) /\ TypesOf(FieldsOf(p, t)) = given THEN t ELSE Nothing
       [] e.e = "static"   -> Called(MethodOf(p, ClosedIn(p, x.u, e.t), e.n, TRUE), given)
       [] e.e = "call"     -> LET as == Solutions(p, e.n, given)
                              IN IF Cardinality(as) # 1 THEN Nothing
                                 ELSE LET a == CHOOSE a \in as : TRUE
                                      IN ClosedIn(p, Function(e.n, a), p.functions[e.n].ret)

(* What each mention in an expression stands for: types and functions.        *)
Uses(p, x, e) ==
  UNION {Uses(p, x, e.a[i]) : i \in DOMAIN e.a} \cup
  CASE e.e = "make"   -> {<<"annotation", e.t, ClosedIn(p, x.u, e.t)>>}
    [] e.e = "static" -> {<<"static", e.t, ClosedIn(p, x.u, e.t)>>}
    [] e.e = "call"   -> {<<"callee", Name(e.n), Function(e.n, a)>> :
                            a \in Solutions(p, e.n, TypesIn(p, x, e.a))}
    [] OTHER -> {}

(* The bodies of a unit: what they are called, variables, statements, return. *)
Bodies(p, u) ==
  CASE u.k = "main" -> {[n |-> "", env |-> <<>>, body |-> p.main, ret |-> Nothing]}
    [] u.k = "function" ->
         LET F == p.functions[u.n[1]]
             vs == ClosedAll(p, u, F.vars)
         IN {[n |-> "", env |-> [n \in {v.n : v \in Range(vs)} |-> (CHOOSE v \in Range(vs) : v.n = n).t],
              body |-> F.body, ret |-> ClosedIn(p, u, F.ret)]}
    [] OTHER ->
         {LET vs == ClosedAll(p, u, m.params)
          IN [n |-> m.n,
              env |-> [n \in {v.n : v \in Range(vs)} |-> (CHOOSE v \in Range(vs) : v.n = n).t]
                      @@ (IF m.static THEN <<>> ELSE "self" :> PointerTo(u)),
              body |-> m.body, ret |-> ClosedIn(p, u, m.ret)] : m \in Range(Body(p, u).methods)}

(* The variables before statement i of a body.                                *)
At(p, u, b, i) ==
  FoldLeft(LAMBDA x, s : IF s.s # "var" THEN x
                         ELSE [x EXCEPT !.env = (s.x :> IF s.t = Nothing THEN TypeOf(p, x, s.e)
                                                        ELSE ClosedIn(p, u, s.t)) @@ @],
           [u |-> u, env |-> b.env], SubSeq(b.body, 1, i - 1))

Lines(p, u) == {<<b, i>> \in Bodies(p, u) \X (1..10) : i <= Len(b.body)}
LineUses(p, u, l) == Uses(p, At(p, u, l[1], l[2]), l[1].body[l[2]].e)

(* The types mentioned in a unit, and the units it needs.                     *)
Mentioned(p, u) ==
  (IF u.k \in {"main", "function"} THEN {} ELSE {f.t : f \in Range(FieldsOf(p, u))})
  \cup UNION {{b.ret} \cup Range(b.env) : b \in Bodies(p, u)}
  \cup UNION {{ClosedIn(p, u, l[1].body[l[2]].t)} \cup {w[3] : w \in LineUses(p, u, l)} : l \in Lines(p, u)}
Needs(p, u) == {t \in UNION {Inside(m) : m \in Mentioned(p, u)} : t.k = "function" \/ t.k = "inst"}

ReachIn(p, units, rounds) ==
  LET more == units \cup UNION {Needs(p, u) : u \in {v \in units : v.k # "inst" \/ HasBody(p, v)}}
  IN IF more = units \/ rounds = 0 THEN units ELSE ReachIn(p, more, rounds - 1)
Roots(p) == {MainUnit} \cup {Struct(s.n) : s \in Range(p.structs)}
Reach(p, rounds) == ReachIn(p, Roots(p), rounds)

(* Whether values of type t hold values of type u, directly or in arrays.     *)
Embeds(p, t, rounds) ==
  IF rounds = 0 THEN {}
  ELSE LET fs == UNION {Inside(f.t) : f \in Range(FieldsOf(p, t))}
           ss == {f \in fs : f.k \in {"inst", "struct"}}
       IN ss \cup UNION {Embeds(p, s, rounds - 1) : s \in ss}

(* What a type must have for a constraint.                                    *)
Meets(p, t, i) ==
  IF ~HasBody(p, t)
  THEN \/ t \in {Plain("int"), Plain("uint"), Plain("str")} /\ i \in {"Comparable", "Hashable", "Stringable"}
       \/ t = Plain("bool") /\ i \in {"Hashable", "Stringable"}
  ELSE \A m \in Range(p.interfaces[i]) :
         LET has == MethodOf(p, t, m.n, FALSE)
             put(w) == IF w = Name("Self") THEN t ELSE w
         IN has # Nothing /\ has.ret = put(m.ret)
            /\ TypesOf(has.params) = [j \in DOMAIN m.params |-> put(m.params[j])]

(* A unit is right when its mentions are of things there are, with arguments  *)
(* that meet the constraints, every expression has a type, and that type is   *)
(* the one asked for.                                                         *)
Sound(p, u) ==
  /\ u.k = "inst" => HasBody(p, u)
  /\ u.k \in {"inst", "function"} =>
       LET needs == IF u.k = "inst" THEN p.templates[u.n[1]].needs ELSE p.functions[u.n[1]].needs
       IN \A j \in DOMAIN u.a : \A i \in needs[j] : Meets(p, u.a[j], i)
  /\ u.k \in {"inst", "struct"} => /\ u \notin Embeds(p, u, 4)
                                   /\ \A t \in UNION {Inside(f.t) : f \in Range(FieldsOf(p, u))} : t.k # "name"
  /\ \A l \in Lines(p, u) :
       LET s == l[1].body[l[2]]
           t == TypeOf(p, At(p, u, l[1], l[2]), s.e)
       IN /\ t # Nothing
          /\ IF s.s = "return" THEN t = l[1].ret \/ Point(t) = l[1].ret
             ELSE t.k # "pointer" /\ (s.t # Nothing => t = ClosedIn(p, u, s.t))

(* What is to be written for a unit.                                          *)
LineText(p, u, l) ==
  LET s == l[1].body[l[2]]
      t == Flat(TypeOf(p, At(p, u, l[1], l[2]), s.e))
  IN IF s.s = "return" THEN [declared |-> Nothing, value |-> Flat(l[1].ret),
                             uses |-> {<<w[1], w[2], Flat(w[3])>> : w \in LineUses(p, u, l)}]
     ELSE [declared |-> t, value |-> t,
           uses |-> {<<w[1], w[2], Flat(w[3])>> : w \in LineUses(p, u, l)}]
BodyText(p, u, n) ==
  LET b == CHOOSE b \in Bodies(p, u) : b.n = n
  IN [i \in DOMAIN b.body |-> LineText(p, u, <<b, i>>)]
FlatAll(typed) == [i \in DOMAIN typed |-> [typed[i] EXCEPT !.t = Flat(@)]]
UnitText(p, u) ==
  IF u.k = "main" THEN [n |-> <<"main">>, ret |-> Nothing, params |-> <<>>, text |-> BodyText(p, u, "")]
  ELSE IF u.k = "function"
  THEN LET F == p.functions[u.n[1]]
       IN [n |-> Flat(u).n, ret |-> Flat(ClosedIn(p, u, F.ret)),
           params |-> FlatAll(ClosedAll(p, u, F.vars)), text |-> BodyText(p, u, "")]
  ELSE [n |-> Flat(u).n, fields |-> FlatAll(FieldsOf(p, u)),
        methods |-> [i \in DOMAIN Body(p, u).methods |->
                       LET m == Body(p, u).methods[i]
                       IN [n |-> m.n, ret |-> Flat(ClosedIn(p, u, m.ret)),
                           params |-> FlatAll(ClosedAll(p, u, m.params)),
                           text |-> BodyText(p, u, m.n)]]]
=============================================================================
