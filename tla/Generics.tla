------------------------------ MODULE Generics ------------------------------
(* Templates and their instances.  A template is not checked: each time it is *)
(* mentioned with other arguments an instance is made, whose signatures are   *)
(* copies with the arguments put in, and whose bodies are THE SAME statements *)
(* as those of every other instance.  They are checked with the parameters    *)
(* entered as types of the global scope, which nobody takes out again, while  *)
(* other bodies are being checked: a mention met on the way makes the next    *)
(* instance at once.  What a check finds out it writes into the statements.   *)
(* So that the C code of each instance has its own types, everything is       *)
(* checked once more right before it is written.                              *)
(* A program here lists its templates before its structs, and those before    *)
(* main; of statements there are variables and returns.                       *)
EXTENDS GenericTypes, FiniteSets, Functions, TLC

CONSTANTS Programs,     \* the programs compiled
          StackDepth    \* instances made inside one another before the C stack ends

ASSUME StackDepthAssumption == StackDepth \in Nat \ {0}

VARIABLES prog,    \* templates, functions (templates), structs, interfaces, main
          c,       \* what the compiler keeps, see Start
          phase,   \* "check", "instances", "functions", "done", "refused", "crashed"
          at,      \* the next declaration, statement or instance
          count,   \* how many there are, read once
          out      \* [structs, functions] written
vars == <<prog, c, phase, at, count, out>>

(* What the compiler keeps: types of the global scope; what struct types look *)
(* like (fields and methods); instances and instances of functions; variables *)
(* and functions of the scopes being checked; what was written into the       *)
(* statements of bodies (tree).                                               *)
Start(p) ==
  [types   |-> [n \in {s.n : s \in Range(p.structs)} |-> Struct(n)],
   shapes  |-> [n \in {s.n : s \in Range(p.structs)} |->
                  CHOOSE s \in Range(p.structs) : s.n = n],
   insts   |-> <<>>,  fns |-> <<>>,
   vars    |-> <<>>,  visible |-> {},
   tree    |-> <<>>,
   refused |-> FALSE, crashed |-> FALSE, depth |-> 0]

Result(d, t) == [c |-> d, t |-> t]
Refuse(d)    == [d EXCEPT !.refused = TRUE]
LookupType(d, n) == IF n \in DOMAIN d.types THEN d.types[n] ELSE Nothing

(* A place of the tree: a statement, what of it, and which type or function.  *)
NoSite == <<>>
Place(site, what, t) == [site |-> site, what |-> what, t |-> t]
Written(d, place) == place.site # NoSite /\ place \in DOMAIN d.tree
Write(d, place, t) ==
  IF place.site = NoSite \/ t = Nothing THEN d ELSE [d EXCEPT !.tree = (place :> t) @@ @]
Keep(r, place) == Result(Write(r.c, place, r.t), r.t)

(* Mutant: the types of struct literals are kept. *)
ClearValuesOnly(d, owners) ==
  [d EXCEPT !.tree = Restrict(@, {p \in DOMAIN @ :
     SubSeq(p.site, 1, 2) \notin owners \/ p.what \notin {"value", "placed"}})]

(* clear_expr_types_in_stmts: types of expressions, of struct literals and of *)
(* variables declared with a parameter go.  Types of variables, the arguments *)
(* inside a type, and the names of functions called stay.                     *)
Clear(d, owners) ==
  [d EXCEPT !.tree = Restrict(@, {p \in DOMAIN @ :
     SubSeq(p.site, 1, 2) \notin owners \/ p.what \notin {"value", "annotation", "placed"}})]

(* The parameters become types of the global scope.                           *)
Alias(d, params, args) ==
  [d EXCEPT !.types = [n \in {<<p>> : p \in Range(params)} |->
                         args[SelectInSeq(params, LAMBDA p : p = n[1])]] @@ @]

Found(insts, of, args) ==
  SelectInSeq(insts, LAMBDA i : i.of = of /\ SameAll(i.args, args))

(* Numbers, strings and truth values satisfy what is built in, structs what   *)
(* they have methods for; Self is the struct itself.                          *)
Builtin(n) == IF n \in {"int", "uint", "str"} THEN {"Comparable", "Hashable", "Stringable"}
              ELSE IF n = "bool" THEN {"Hashable", "Stringable"} ELSE {}
Fits(wanted, t, self) == IF wanted = Name("Self") THEN t.k = "struct" /\ Same(t, self)
                         ELSE Same(wanted, t)
Satisfies(d, t, i) ==
  IF t.k # "struct" THEN t.k = "plain" /\ i \in Builtin(t.n[1])
  ELSE \A m \in Range(prog.interfaces[i]) :
         LET has == SelectInSeq(d.shapes[t.n].methods, LAMBDA x : x.n = m.n)
         IN /\ has # 0
            /\ LET x == d.shapes[t.n].methods[has]
               IN /\ Len(x.params) = Len(m.params)
                  /\ \A j \in DOMAIN m.params : Fits(m.params[j], x.params[j].t, t)
                  /\ Fits(m.ret, x.ret, t)
Constrained(d, needs, args) ==
  \A j \in DOMAIN args : \A i \in needs[j] : Satisfies(d, args[j], i)

(* Fields that contain their own struct (detect_cycle_in_type).               *)
RECURSIVE Contained(_, _, _)
Contained(d, t, seen) ==
  LET s == IF t.k = "name" /\ LookupType(d, t.n).k = "struct" THEN LookupType(d, t.n) ELSE t
  IN \/ /\ s.k = "struct"
        /\ \/ s.n \in seen
           \/ \E f \in Range(d.shapes[s.n].fields) : Contained(d, f.t, seen \cup {s.n})
     \/ s.k = "array" /\ Contained(d, s.a[1], seen)

ValidField(d, t) == LET e == IF t.k = "array" THEN t.a[1] ELSE t
                    IN e.k = "name" => LookupType(d, e.n).k = "struct"

RECURSIVE Resolve(_, _, _, _), Instantiate(_, _, _), Forward(_, _), CheckStruct(_, _),
          CheckBody(_, _, _, _, _), CheckExpr(_, _, _), CheckAll(_, _, _), Unify(_, _, _, _, _)

(* The next of several types found.                                           *)
AndType(ts, x) == Result(x.c, Append(ts, x.t))
AndTyped(vs, v, x) == Result(x.c, Append(vs, [v EXCEPT !.t = x.t]))

(* What the arguments of an instance stand for here; ok: all of them do.      *)
AndArgument(ts, x) == [c |-> x.c, ts |-> Append(ts, x.t), ok |-> x.t # Nothing]
Arguments(d, site, args) ==
  FoldLeft(LAMBDA r, t :
      IF ~r.ok THEN r
      ELSE IF t.k = "inst" THEN AndArgument(r.ts, Resolve(r.c, site, "argument", t))
      ELSE [r EXCEPT !.ts = Append(@, IF t.k = "name" /\ LookupType(r.c, t.n) # Nothing
                                      THEN LookupType(r.c, t.n) ELSE t)],
    [c |-> d, ts |-> <<>>, ok |-> TRUE], args)

(* resolve_generic_instantiation: what was found out for this mention stays.  *)
ResolveWith(r, place, of) ==
  LET known == Found(r.c.insts, of, r.ts)
  IN IF ~r.ok THEN Result(r.c, Nothing)
     ELSE IF known # 0 THEN Keep(Result(r.c, Struct(r.c.insts[known].decl.n)), place)
     ELSE IF \/ of \notin DOMAIN prog.templates
             \/ Len(r.ts) # Len(prog.templates[of].params)
             \/ ~Constrained(r.c, prog.templates[of].needs, r.ts)
          THEN Result(Refuse(r.c), Nothing)
     ELSE Keep(Instantiate(r.c, of, r.ts), place)

Resolve(d, site, what, t) ==
  IF Written(d, Place(site, what, t)) THEN Result(d, d.tree[Place(site, what, t)])
  ELSE ResolveWith(Arguments(d, site, t.a), Place(site, what, t), t.n[1])

(* The methods of a struct with a type of each parameter and a return type.   *)
Signatures(methods, f(_)) ==
  FoldLeft(LAMBDA ms, m :
      Append(ms, [m EXCEPT !.ret = f(@),
                           !.params = [j \in DOMAIN @ |-> [@[j] EXCEPT !.t = f(@)]]]),
    <<>>, methods)

(* An instance: the template with the arguments put in.                       *)
Copy(of, args) ==
  LET T == prog.templates[of]
      put(t) == Substitute(t, T.params, args)
  IN [n |-> MonoName(of, args), of |-> of,
      fields |-> [i \in DOMAIN T.fields |-> [T.fields[i] EXCEPT !.t = put(@)]],
      methods |-> Signatures(T.methods, put)]

(* An instance is entered before it is checked, so that it may mention itself.*)
EnterInstance(d, of, args, decl) ==
  [d EXCEPT !.types = (decl.n :> Struct(decl.n)) @@ @, !.shapes = (decl.n :> decl) @@ @,
            !.insts = Append(@, [of |-> of, args |-> args, decl |-> decl])]

(* monomorphize_struct_type: the type has the signatures of the methods as    *)
(* the check resolves them, and the fields as they were before.               *)
Resolved(r, of, args) ==
  LET i == Found(r.c.insts, of, args)
  IN Result([r.c EXCEPT !.insts[i].decl = r.t, !.shapes[r.t.n].methods = r.t.methods,
                        !.depth = @ - 1], Struct(r.t.n))
Instantiate(d, of, args) ==
  IF d.crashed \/ d.depth = StackDepth THEN Result([d EXCEPT !.crashed = TRUE], Nothing)
  ELSE Resolved(CheckStruct(Alias(EnterInstance([d EXCEPT !.depth = @ + 1], of, args, Copy(of, args)),
                                  prog.templates[of].params, args), Copy(of, args)), of, args)

InArray(r) == Result(r.c, IF r.t = Nothing THEN Nothing ELSE ArrayOf(r.t))
OrAsWritten(r, t) == Result(r.c, IF r.t = Nothing THEN t ELSE r.t)
(* resolve_struct_forward_reference.                                          *)
Forward(d, t) ==
  CASE t.k = "array" -> InArray(Forward(d, t.a[1]))
    [] t.k = "inst"  -> OrAsWritten(Resolve(d, NoSite, "", t), t)
    [] t.k = "name" /\ LookupType(d, t.n).k = "struct" -> Result(d, LookupType(d, t.n))
    [] OTHER -> Result(d, t)

ForwardAll(d, typed) ==
  FoldLeft(LAMBDA r, v : AndTyped(r.t, v, Forward(r.c, v.t)), Result(d, <<>>), typed)

(* Fields of a struct: an instance is resolved, in an array it is not.        *)
Top(d, t) == IF t.k = "inst" THEN OrAsWritten(Resolve(d, NoSite, "", t), t) ELSE Result(d, t)
Valid(x) == IF ValidField(x.c, x.t) THEN x ELSE Result(Refuse(x.c), x.t)
CheckFields(d, fields) ==
  FoldLeft(LAMBDA r, f : AndTyped(r.t, f, Valid(Top(r.c, f.t))), Result(d, <<>>), fields)

(* Named types as variables of a scope.                                       *)
Scope(typed) == [x \in {v.n : v \in Range(typed)} |->
                   (CHOOSE v \in Range(typed) : v.n = x).t]

(* A declared struct is its type, an instance is a copy.                      *)
Seen(d, decl) ==
  IF decl.of \in DOMAIN prog.templates THEN d ELSE [d EXCEPT !.shapes[decl.n] = decl]

CheckMethodWith(d, decl, m, ret, params) ==
  LET self == "self" :> (IF m.static THEN Nothing ELSE PointerTo(Struct(decl.n)))
  IN Result(CheckBody(Seen(d, decl), <<decl.of, m.n>>, Scope(params) @@ self, m.body, ret), decl)
CheckSignature(back, sig, decl, i) ==
  CheckMethodWith(sig.c, [decl EXCEPT !.methods[i].ret = back.t, !.methods[i].params = sig.t],
                  decl.methods[i], back.t, sig.t)
CheckReturned(back, decl, i) ==
  CheckSignature(back, ForwardAll(back.c, decl.methods[i].params), decl, i)
CheckMethod(d, decl, i) == CheckReturned(Forward(d, decl.methods[i].ret), decl, i)

(* type_check_struct_decl, of a declared struct or of an instance; after      *)
(* type_check_generic_instantiation_decl has cleared the bodies.              *)
CheckMethods(fields, decl) ==
  FoldLeftDomain(LAMBDA x, i : CheckMethod(x.c, x.t, i), Result(Seen(fields.c, decl), decl),
                 decl.methods)
CheckCycle(r) ==
  IF \E f \in Range(r.t.fields) : Contained(r.c, f.t, {r.t.n}) THEN Result(Refuse(r.c), r.t) ELSE r
CheckPlaced(fields, decl) == CheckCycle(CheckMethods(fields, [decl EXCEPT !.fields = fields.t]))
CheckStruct(d, decl) ==
  CheckPlaced(CheckFields(Clear(d, {<<decl.of, m.n>> : m \in Range(decl.methods)}), decl.fields),
              decl)

(* Methods have what self points to; the rest, the struct itself.             *)
Base(t) == IF t.k = "pointer" THEN t.a[1] ELSE t

(* type_check_return, value being what the value turned out to be.            *)
CheckReturn(site, value, ret) ==
  IF value.t = Nothing \/ Same(value.t, ret) THEN value.c
  ELSE IF value.t.k = "pointer" /\ Base(value.t).k = "struct" /\ Same(Base(value.t), ret)
       THEN Write(value.c, Place(site, "value", Nothing), ret)
  ELSE Refuse(value.c)

(* type_check_expr: what was found out before is not found out again.         *)
Value(d, site, e) ==
  LET place == Place(site, "value", Nothing)
  IN IF Written(d, place) THEN Result(d, d.tree[place]) ELSE Keep(CheckExpr(d, site, e), place)

(* The type of a variable as the statement has it now.                        *)
Declared(d, site, s) ==
  IF Written(d, Place(site, "declared", Nothing))
  THEN d.tree[Place(site, "declared", Nothing)] ELSE s.t

(* A parameter, or an array of one, by what it stands for.                    *)
Placed(d, t) ==
  IF t.k = "name" THEN (IF LookupType(d, t.n) = Nothing THEN t ELSE LookupType(d, t.n))
  ELSE IF t.k = "array" /\ t.a[1].k = "name"
       THEN (IF LookupType(d, t.a[1].n) = Nothing THEN t ELSE ArrayOf(LookupType(d, t.a[1].n)))
  ELSE t

(* The type written for a variable: an instance takes the place of what was   *)
(* written; what a parameter stands for is kept beside it.                    *)
Declare(d, site, t) ==
  IF t.k = "inst" THEN Keep(Resolve(d, NoSite, "", t), Place(site, "declared", Nothing))
  ELSE Result(IF Placed(d, t) = t THEN d ELSE Write(d, Place(site, "placed", Nothing), Placed(d, t)),
              Placed(d, t))

Enter(d, x, t) == [d EXCEPT !.vars = (x :> t) @@ @]

(* type_check_var_decl, with the type written, what is declared by it and the *)
(* value.                                                                     *)
CheckDeclared(d, site, s, t, value) ==
  Enter(IF "pointer" \in {t.k, value.k} \/ ~Same(t, value) THEN Refuse(d) ELSE d, s.x, t)
CheckInitial(site, s, written, declared, value) ==
  IF value.t = Nothing
  THEN Enter(value.c, s.x, IF written = Nothing THEN Nil ELSE declared.t)
  ELSE IF written = Nothing
  THEN CheckDeclared(Write(value.c, Place(site, "declared", Nothing), value.t), site, s, value.t, value.t)
  ELSE CheckDeclared(value.c, site, s, declared.t, value.t)
CheckVariableAs(site, s, written, declared) ==
  IF written # Nothing /\ declared.t = Nothing THEN Enter(declared.c, s.x, Nil)
  ELSE CheckInitial(site, s, written, declared, Value(declared.c, site, s.e))
CheckVariable(d, site, s) ==
  CheckVariableAs(site, s, Declared(d, site, s), Declare(d, site, Declared(d, site, s)))

CheckStatement(d, site, s, ret) ==
  IF s.s = "var" THEN CheckVariable(d, site, s)
  ELSE CheckReturn(site, Value(d, site, s.e), ret)

(* A body in a scope of its own, inside that of whoever asked for it.         *)
CheckBody(d, owner, scope, body, ret) ==
  LET inside == FoldLeftDomain(LAMBDA e, i : CheckStatement(e, Append(owner, i), body[i], ret),
                               [d EXCEPT !.vars = scope @@ @], body)
  IN [inside EXCEPT !.vars = d.vars, !.visible = d.visible]

(* Expressions one after the other; Nothing ends it.                          *)
CheckAll(d, site, es) ==
  FoldLeft(LAMBDA r, e :
      IF Contains(r.t, Nothing) THEN r
      ELSE AndType(r.t, CheckExpr(r.c, site, e)),
    Result(d, <<>>), es)

(* What a call of something with params and ret comes to, for arguments of    *)
(* the types in given.                                                        *)
Accept(given, params, ret) ==
  IF ~Contains(given.t, Nothing) /\ SameAll(given.t, [i \in DOMAIN params |-> params[i].t])
  THEN Result(given.c, ret) ELSE Result(Refuse(given.c), Nothing)

MethodsOf(d, t, static) ==
  IF Base(t).k # "struct" THEN <<>>
  ELSE SelectSeq(d.shapes[Base(t).n].methods, LAMBDA m : m.static = static)
Named(things, n) == SelectInSeq(things, LAMBDA x : x.n = n)

(* type_check_member of a field, and of a method with the call of it.         *)
CheckField(object, n) ==
  LET fields == IF Base(object.t).k = "struct" THEN object.c.shapes[Base(object.t).n].fields
                ELSE <<>>
  IN IF object.t = Nothing THEN object
     ELSE IF Named(fields, n) = 0 THEN Result(Refuse(object.c), Nothing)
     ELSE Result(object.c, fields[Named(fields, n)].t)

CheckInvoke(object, site, n, args) ==
  LET methods == MethodsOf(object.c, object.t, FALSE)
  IN IF object.t = Nothing \/ Named(methods, n) = 0 THEN Result(Refuse(object.c), Nothing)
     ELSE Accept(CheckAll(object.c, site, args), methods[Named(methods, n)].params,
                 methods[Named(methods, n)].ret)

(* The struct a literal or a static call is of.                               *)
StructFor(d, site, what, t) ==
  IF t.k = "inst" THEN Resolve(d, site, what, t)
  ELSE IF LookupType(d, t.n).k = "struct"
       THEN Keep(Result(d, LookupType(d, t.n)), Place(site, what, t))
  ELSE Result(Refuse(d), Nothing)

(* type_check_struct_literal: all fields in their order.                      *)
CheckMade(each, fields, t) ==
  LET wrong == Len(each.t) # Len(fields)
               \/ \E i \in DOMAIN fields : each.t[i] # Nothing /\ ~Same(each.t[i], fields[i].t)
  IN Result(IF wrong THEN Refuse(each.c) ELSE each.c, IF Len(each.t) # Len(fields) THEN Nothing ELSE t)
CheckMake(of, site, values) ==
  IF of.t = Nothing THEN of
  ELSE CheckMade(FoldLeft(LAMBDA r, e : AndType(r.t, CheckExpr(r.c, site, e)), Result(of.c, <<>>), values),
             of.c.shapes[of.t.n].fields, of.t)

(* type_check_static_method_call: the arguments come first.                   *)
CheckStaticOf(of, given, n) ==
  LET methods == MethodsOf(of.c, of.t, TRUE)
  IN IF of.t = Nothing \/ Named(methods, n) = 0 THEN Result(Refuse(of.c), Nothing)
     ELSE Accept(Result(of.c, given), methods[Named(methods, n)].params,
                 methods[Named(methods, n)].ret)
CheckStatic(given, site, t, n) ==
  IF Contains(given.t, Nothing) THEN Result(given.c, Nothing)
  ELSE CheckStaticOf(StructFor(given.c, site, "static", t), given.t, n)

(* try_infer: what parameters have to be for a type written to be this one.   *)
Unify(d, written, t, params, bound) ==
  LET pairs(ws, ts) ==
        FoldLeftDomain(LAMBDA b, i : IF b = <<>> THEN b ELSE Unify(d, ws[i], ts[i], params, b),
                       bound, ws)
      slot == IF written.k = "name" THEN SelectInSeq(params, LAMBDA p : p = written.n[1]) ELSE 0
      is   == SelectInSeq(d.insts, LAMBDA i : i.of = written.n[1] /\ i.decl.n = t.n)
  IN IF slot # 0
     THEN (IF bound[slot] = Nothing THEN [bound EXCEPT ![slot] = t]
           ELSE IF Same(bound[slot], t) THEN bound ELSE <<>>)
     ELSE IF written.k = "array" /\ t.k = "array" THEN pairs(written.a, t.a)
     ELSE IF written.k = "inst" /\ t.k = "inst" /\ written.n = t.n /\ Len(t.a) = Len(written.a)
          THEN pairs(written.a, t.a)
     ELSE IF written.k = "inst" /\ t.k = "struct" /\ is # 0
             /\ Len(d.insts[is].args) = Len(written.a)
          THEN pairs(written.a, d.insts[is].args)
     ELSE bound

(* infer_type_params_from_args; <<>> when it cannot be done.                  *)
Infer(d, f, ts) ==
  LET bound == FoldLeftDomain(
                 LAMBDA b, i : IF b = <<>> \/ i > Len(ts) THEN b
                               ELSE Unify(d, f.vars[i].t, ts[i], f.params, b),
                 [i \in DOMAIN f.params |-> Nothing], f.vars)
  IN IF Contains(bound, Nothing) THEN <<>> ELSE bound

(* An instance of a function is entered as a function of the scope of the     *)
(* call that made it, and checked.                                            *)
CheckFunction(d, F, fn) ==
  IF fn.ret.k = "pointer" \/ \E v \in Range(fn.params) : v.t.k = "pointer" THEN Refuse(d)
  ELSE CheckBody([d EXCEPT !.visible = @ \cup {fn.n}], <<fn.of, "">>, Scope(fn.params), F.body, fn.ret)
EnterFunction(types, of, args, F) ==
  LET fn == [of |-> of, args |-> args, n |-> MonoName(of, args), ret |-> Last(types.t),
             params |-> [i \in DOMAIN F.vars |-> [F.vars[i] EXCEPT !.t = types.t[i]]]]
  IN CheckFunction(Alias(Clear([types.c EXCEPT !.fns = Append(@, fn)], {<<of, "">>}), F.params, args),
                   F, fn)
InstantiateFunction(d, of, args) ==
  LET F == prog.functions[of]
  IN EnterFunction(FoldLeft(LAMBDA r, t : AndType(r.t, Top(r.c, Substitute(t, F.params, args))),
                            Result(d, <<>>), Append([i \in DOMAIN F.vars |-> F.vars[i].t], F.ret)),
                   of, args, F)

(* A call of a function known by its own name.                                *)
CallInstance(given, fn) == Accept(given, fn.params, fn.ret)

(* A call of a template: it is inferred what for, and the name called is      *)
(* replaced by that of the instance.                                          *)
CallKept(r, place, fn) == IF r.t = Nothing THEN r ELSE Result(Write(r.c, place, Struct(fn.n)), r.t)
CallMade(d, given, site, of, args) ==
  LET fn == d.fns[SelectInSeq(d.fns, LAMBDA f : f.of = of /\ SameAll(f.args, args))]
  IN CallKept(CallInstance(Result(d, given), fn), Place(site, "callee", Name(of)), fn)
CallTemplate(given, site, of, args) ==
  IF \/ Contains(given.t, Nothing)
     \/ args = <<>>
     \/ ~Constrained(given.c, prog.functions[of].needs, args)
  THEN Result(Refuse(given.c), Nothing)
  ELSE CallMade(IF \E f \in Range(given.c.fns) : f.of = of /\ SameAll(f.args, args)
                THEN given.c ELSE InstantiateFunction(given.c, of, args), given.t, site, of, args)

(* type_check_call_expression.                                                *)
CheckCall(given, site, of) ==
  LET callee == Place(site, "callee", Name(of))
      fn     == SelectInSeq(given.c.fns, LAMBDA f : f.n = given.c.tree[callee].n)
  IN IF ~Written(given.c, callee) THEN CallTemplate(given, site, of, Infer(given.c, prog.functions[of], given.t))
     ELSE IF given.c.tree[callee].n \notin given.c.visible THEN Result(Refuse(given.c), Nothing)
     ELSE CallInstance(given, given.c.fns[fn])

ForwardType(x) == Forward(x.c, x.t)

(* type_check_expr.                                                           *)
CheckExpr(d, site, e) ==
  CASE e.e = "literal"  -> Result(d, e.t)
    [] e.e = "variable" -> IF e.n \in DOMAIN d.vars /\ d.vars[e.n] # Nothing
                           THEN Result(d, d.vars[e.n]) ELSE Result(Refuse(d), Nothing)
    [] e.e = "member"   -> CheckField(ForwardType(CheckExpr(d, site, e.a[1])), e.n)
    [] e.e = "invoke"   -> CheckInvoke(ForwardType(CheckExpr(d, site, e.a[1])), site, e.n, Tail(e.a))
    [] e.e = "items"    -> InArray(CheckExpr(d, site, e.a[1]))
    [] e.e = "make"     -> CheckMake(StructFor(d, site, "annotation", e.t), site, e.a)
    [] e.e = "static"   -> CheckStatic(CheckAll(d, site, e.a), site, e.t, e.n)
    [] e.e = "call"     -> CheckCall(CheckAll(d, site, e.a), site, e.n)

-----------------------------------------------------------------------------
(* What is written for a body: of each statement the type of its variable and *)
(* of its value, and the types and functions it uses.                         *)
Mark(d, place) == IF place \in DOMAIN d.tree THEN d.tree[place] ELSE Nothing
TextOf(d, owner, body) ==
  [i \in DOMAIN body |->
     LET site   == Append(owner, i)
         placed == Mark(d, Place(site, "placed", Nothing))
     IN [declared |-> IF placed # Nothing THEN placed ELSE Declared(d, site, body[i]),
         value    |-> Mark(d, Place(site, "value", Nothing)),
         uses     |-> {<<p.what, p.t, d.tree[p]>> :
                         p \in {q \in DOMAIN d.tree : q.site = site
                                  /\ q.what \in {"annotation", "static", "callee"}}}]]

StructText(d, decl) ==
  [n |-> decl.n, fields |-> decl.fields,
   methods |-> [i \in DOMAIN decl.methods |->
                  LET m == decl.methods[i]
                  IN [n |-> m.n, ret |-> m.ret, params |-> m.params,
                      text |-> TextOf(d, <<decl.of, m.n>>, m.body)]]]
FunctionText(d, fn, body) ==
  [n |-> fn.n, ret |-> fn.ret, params |-> fn.params, text |-> TextOf(d, <<fn.of, "">>, body)]

Main == [of |-> "main", n |-> <<"main">>, ret |-> Nothing, params |-> <<>>]

(* Mutant: a struct may come before those it has as fields. *)
SortNothing(items) == items
(* topo_sort_structs: those whose fields are all written, the first of them   *)
(* each time; as they were if that ends early.                                *)
Sort(items) ==
  LET ready(done) ==
        {i \in DOMAIN items \ Range(done) :
           \A f \in Range(items[i].fields) : f.t.k \in {"name", "struct"} =>
             \A j \in DOMAIN items \ (Range(done) \cup {i}) : items[j].n # f.t.n}
      order == FoldLeftDomain(LAMBDA done, k :
                 IF ready(done) = {} THEN done
                 ELSE Append(done, CHOOSE i \in ready(done) : \A j \in ready(done) : i <= j),
               <<>>, items)
  IN IF Len(order) = Len(items) THEN [k \in DOMAIN order |-> items[order[k]]] ELSE items

Init ==
  /\ prog \in Programs
  /\ c = Start(prog) /\ phase = "structs" /\ at = 1 /\ count = Len(prog.structs)
  /\ out = [structs |-> <<>>, functions |-> <<>>]

Stop(d) == IF d.crashed THEN "crashed" ELSE phase

(* type_check_module: templates come first, then structs, then main.          *)
CheckDeclaration ==
  /\ phase = "structs" /\ at <= count
  /\ c' = CheckStruct(c, prog.structs[at]).c
  /\ phase' = Stop(c') /\ at' = at + 1
  /\ UNCHANGED <<prog, count, out>>

BeginMain ==
  /\ phase = "structs" /\ at > count
  /\ phase' = "main" /\ at' = 1 /\ count' = Len(prog.main)
  /\ UNCHANGED <<prog, c, out>>

CheckMain ==
  /\ phase = "main" /\ at <= count
  /\ c' = CheckStatement(c, <<"main", "", at>>, prog.main[at], Nothing)
  /\ phase' = Stop(c') /\ at' = at + 1
  /\ UNCHANGED <<prog, count, out>>

(* gen_model_build: functions are known again, main and declared structs are  *)
(* written as they are.                                                       *)
BeginWriting ==
  /\ phase = "main" /\ at > count
  /\ IF c.refused
     THEN phase' = "refused" /\ UNCHANGED <<c, at, count, out>>
     ELSE /\ phase' = "instances" /\ at' = 1 /\ count' = Len(c.insts)
          /\ c' = [c EXCEPT !.vars = <<>>, !.visible = {f.n : f \in Range(c.fns)}]
          /\ out' = [structs |-> [i \in DOMAIN prog.structs |->
                                    StructText(c, c.shapes[prog.structs[i].n])],
                     functions |-> <<FunctionText(c, Main, prog.main)>>]
  /\ UNCHANGED prog

(* Mutant: an instance is written without checking it again. *)
RecheckNothing(d, i) == Alias(d, prog.templates[d.insts[i].of].params, d.insts[i].args)

Rechecked(r, i) == [r.c EXCEPT !.insts[i].decl = r.t]
Recheck(d, i) ==
  Rechecked(CheckStruct(Alias(d, prog.templates[d.insts[i].of].params, d.insts[i].args),
                        d.insts[i].decl), i)

WriteInstance ==
  /\ phase = "instances" /\ at <= count
  /\ c' = Recheck(c, at)
  /\ out' = [out EXCEPT !.structs = Append(@, StructText(c', c'.insts[at].decl))]
  /\ phase' = Stop(c') /\ at' = at + 1
  /\ UNCHANGED <<prog, count>>

SortStructs ==
  /\ phase = "instances" /\ at > count
  /\ out' = [out EXCEPT !.structs = Sort(@)]
  /\ phase' = "functions" /\ at' = 1 /\ count' = Len(c.fns)
  /\ UNCHANGED <<prog, c>>

RecheckFunction(d, fn) ==
  LET F == prog.functions[fn.of]
  IN CheckBody(Alias(Clear(d, {<<fn.of, "">>}), F.params, fn.args), <<fn.of, "">>,
               Scope(fn.params), F.body, fn.ret)

WriteFunction ==
  /\ phase = "functions" /\ at <= count
  /\ c' = RecheckFunction(c, c.fns[at])
  /\ out' = [out EXCEPT !.functions = Append(@,
               FunctionText(c', c.fns[at], prog.functions[c.fns[at].of].body))]
  /\ phase' = Stop(c') /\ at' = at + 1
  /\ UNCHANGED <<prog, count>>

Finish ==
  /\ phase = "functions" /\ at > count
  /\ phase' = "done"
  /\ UNCHANGED <<prog, c, at, count, out>>

Next == \/ CheckDeclaration \/ BeginMain \/ CheckMain \/ BeginWriting
        \/ WriteInstance \/ SortStructs \/ WriteFunction \/ Finish
Spec == Init /\ [][Next]_vars

Ended == phase \in {"done", "refused", "crashed"}
=============================================================================
