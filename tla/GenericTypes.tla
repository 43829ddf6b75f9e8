---------------------------- MODULE GenericTypes ----------------------------
(* The types of the language as far as generics tell them apart, and what is  *)
(* done with them alone: putting arguments for parameters, naming an instance *)
(* and comparing.  A type has a kind k, a name n and the types a it is made   *)
(* of.  Names are sequences of words, as instances are called by the words of *)
(* the template and of its arguments.                                         *)
EXTENDS Naturals, SequencesExt

Type(k, n, a) == [k |-> k, n |-> n, a |-> a]
Plain(x)      == Type("plain", <<x>>, <<>>)
Name(x)       == Type("name", <<x>>, <<>>)     \* a struct without fields: T, or a struct not declared yet
Inst(x, args) == Type("inst", <<x>>, args)     \* as written: Box<int>, Box<T>
Struct(n)     == Type("struct", n, <<>>)       \* declared, or an instance
ArrayOf(t)    == Type("array", <<"array">>, <<t>>)
PointerTo(t)  == Type("pointer", <<"pointer">>, <<t>>)
Nothing       == Type("none", <<>>, <<>>)      \* NULL: not there, or refused
Nil           == Type("nil", <<>>, <<>>)

RECURSIVE Substitute(_, _, _), Mangle(_), Same(_, _)

(* substitute_type_params: args for params in t.                              *)
Substitute(t, params, args) ==
  IF t.k = "name" /\ Contains(params, t.n[1])
  THEN args[SelectInSeq(params, LAMBDA x : x = t.n[1])]
  ELSE [t EXCEPT !.a = [i \in DOMAIN t.a |-> Substitute(t.a[i], params, args)]]

(* mangle_type_name and generic_build_monomorphized_name.                     *)
Mangle(t) == FoldLeft(LAMBDA w, u : w \o Mangle(u), t.n, t.a)
MonoName(of, args) == FoldLeft(LAMBDA w, u : w \o Mangle(u), <<of>>, args)

(* ast_type_equals.  Numbers that convert without being asked count as one,   *)
(* nil as everything, and structs are compared by name.                       *)
Converts == {Plain("int"), Plain("uint")}
Same(t, u) ==
  \/ "nil" \in {t.k, u.k}
  \/ {t, u} \subseteq Converts
  \/ /\ t.k = u.k \/ {t.k, u.k} = {"name", "struct"}
     /\ t.n = u.n /\ Len(t.a) = Len(u.a)
     /\ \A i \in DOMAIN t.a : Same(t.a[i], u.a[i])
SameAll(ts, us) == Len(ts) = Len(us) /\ \A i \in DOMAIN ts : Same(ts[i], us[i])

(* Expressions: a literal of a type; a variable; a member n of a[1]; a struct *)
(* literal of type t whose fields are a; an array of a[1]; a call of method n *)
(* of a[1], of function n, or of static method n of type t.                   *)
Expr(e, n, t, a)  == [e |-> e, n |-> n, t |-> t, a |-> a]
Lit(t)            == Expr("literal", "", t, <<>>)
Var(x)            == Expr("variable", x, Nothing, <<>>)
Member(o, f)      == Expr("member", f, Nothing, <<o>>)
Make(t, a)        == Expr("make", "", t, a)
Items(e)          == Expr("items", "", Nothing, <<e>>)
Invoke(o, m, a)   == Expr("invoke", m, Nothing, <<o>> \o a)
Call(f, a)        == Expr("call", f, Nothing, a)
Static(t, m, a)   == Expr("static", m, t, a)

(* Statements: a variable with the type written for it, or none; a return.    *)
Let(x, t, e) == [s |-> "var", x |-> x, t |-> t, e |-> e]
Return(e)    == [s |-> "return", x |-> "", t |-> Nothing, e |-> e]
=============================================================================
