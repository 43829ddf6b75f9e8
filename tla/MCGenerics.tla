----------------------------- MODULE MCGenerics -----------------------------
(* Programs for Generics: one collection of templates, functions, structs and *)
(* interfaces, and every main of at most Length statements from a list that   *)
(* makes instances in each way there is: by name, by a literal, by a static   *)
(* call, by inference, through a signature or a body, or one in another.      *)
EXTENDS Generics, GenericMeaning

CONSTANT Length

Whole  == Plain("int")   Str == Plain("str")   Bool == Plain("bool")
FirstName == "a"
Names == <<FirstName, "b", "c">>
Typed(n, t)  == [n |-> n, t |-> t]
Does(n, params, ret, body)   == [n |-> n, static |-> FALSE, ret |-> ret, params |-> params, body |-> body]
Builds(n, params, ret, body) == [n |-> n, static |-> TRUE, ret |-> ret, params |-> params, body |-> body]
Self == Var("self")

Box(t)    == Inst("Box", <<t>>)
Pair(t, u) == Inst("Pair", <<t, u>>)
Shelf(t)  == Inst("Shelf", <<t>>)
Rank(t)   == Inst("Rank", <<t>>)

(* struct Box<T> => value: T, with                                            *)
(*   static of(v: T): Box<T> => return Box<T> { value: v }                    *)
(*   get(): T => var now: T = self.value; return now                          *)
BoxTemplate ==
  [params |-> <<"T">>, needs |-> <<{}>>, fields |-> <<Typed("value", Name("T"))>>,
   methods |-> <<Builds("of", <<Typed("v", Name("T"))>>, Box(Name("T")),
                        <<Return(Make(Box(Name("T")), <<Var("v")>>))>>),
                 Does("get", <<>>, Name("T"),
                      <<Let("now", Name("T"), Member(Self, "value")), Return(Var("now"))>>)>>]
(* struct Pair<K, V>, with boxed(): Box<V>, and second through that.          *)
PairTemplate ==
  [params |-> <<"K", "V">>, needs |-> <<{}, {}>>,
   fields |-> <<Typed("first", Name("K")), Typed("second", Name("V"))>>,
   methods |-> <<Does("boxed", <<>>, Box(Name("V")),
                      <<Return(Make(Box(Name("V")), <<Member(Self, "second")>>))>>),
                 Does("last", <<>>, Name("V"),
                      <<Return(Invoke(Static(Box(Name("V")), "of", <<Member(Self, "second")>>),
                                      "get", <<>>))>>)>>]
(* struct Shelf<E> => items: E[], with pairs of what it holds.                *)
ShelfTemplate ==
  [params |-> <<"E">>, needs |-> <<{}>>, fields |-> <<Typed("items", ArrayOf(Name("E")))>>,
   methods |-> <<Does("with", <<Typed("e", Name("E"))>>, Pair(Name("E"), Name("E")),
                      <<Return(Make(Pair(Name("E"), Name("E")), <<Var("e"), Var("e")>>))>>),
                 Does("all", <<>>, ArrayOf(Name("E")), <<Return(Member(Self, "items"))>>)>>]
(* struct Rank<C: Comparable + Hashable> => best: C                           *)
RankTemplate ==
  [params |-> <<"C">>, needs |-> <<{"Comparable", "Hashable"}>>,
   fields |-> <<Typed("best", Name("C"))>>,
   methods |-> <<Does("top", <<>>, Name("C"), <<Return(Member(Self, "best"))>>)>>]

(* fn same<A>(x: A): A and fn boxed<B>(x: B): Box<B> and                      *)
(* fn open<D>(x: Box<D>): D                                                   *)
Templates == ("Box" :> BoxTemplate) @@ ("Pair" :> PairTemplate) @@ ("Shelf" :> ShelfTemplate)
             @@ ("Rank" :> RankTemplate)
FunctionTemplates ==
  ("same" :> [params |-> <<"A">>, needs |-> <<{}>>, vars |-> <<Typed("x", Name("A"))>>,
              ret |-> Name("A"), body |-> <<Return(Var("x"))>>]) @@
  ("boxed" :> [params |-> <<"B">>, needs |-> <<{"Hashable"}>>, vars |-> <<Typed("x", Name("B"))>>,
               ret |-> Box(Name("B")), body |-> <<Return(Make(Box(Name("B")), <<Var("x")>>))>>]) @@
  ("open" :> [params |-> <<"D">>, needs |-> <<{}>>, vars |-> <<Typed("x", Box(Name("D")))>>,
              ret |-> Name("D"), body |-> <<Return(Invoke(Var("x"), "get", <<>>))>>])

(* struct Point has what Comparable and Hashable ask for, struct Crate is    *)
(* declared before what its fields are made of.                               *)
Interfaces ==
  ("Comparable" :> <<[n |-> "compare", params |-> <<Name("Self")>>, ret |-> Whole]>>) @@
  ("Hashable"   :> <<[n |-> "hash", params |-> <<>>, ret |-> Whole]>>)
Structs ==
  << [n |-> <<"Crate">>, of |-> "Crate",
      fields |-> <<Typed("box", Box(Name("Point"))), Typed("spare", Name("Point"))>>,
      methods |-> <<Does("peek", <<>>, Name("Point"), <<Return(Member(Member(Self, "box"), "value"))>>)>>],
     [n |-> <<"Point">>, of |-> "Point", fields |-> <<Typed("x", Whole)>>,
      methods |-> <<Does("compare", <<Typed("other", Name("Point"))>>, Whole, <<Return(Member(Self, "x"))>>),
                    Does("hash", <<>>, Whole, <<Return(Lit(Whole))>>)>>] >>

ThePoint  == Make(Name("Point"), <<Lit(Whole)>>)
Boxed(t) == Make(Box(t), <<Lit(t)>>)
(* The statements of main, each declaring a variable x.                       *)
Statements(x) ==
  << Let(x, Box(Whole), Boxed(Whole)),
     Let(x, Nothing, Static(Box(Str), "of", <<Lit(Str)>>)),
     Let(x, Box(Box(Whole)), Make(Box(Box(Whole)), <<Boxed(Whole)>>)),
     Let(x, Nothing, Invoke(Make(Pair(Whole, Str), <<Lit(Whole), Lit(Str)>>), "boxed", <<>>)),
     Let(x, Str, Invoke(Make(Pair(Box(Bool), Str), <<Boxed(Bool), Lit(Str)>>), "last", <<>>)),
     Let(x, Nothing, Invoke(Make(Shelf(Str), <<Items(Lit(Str))>>), "with", <<Lit(Str)>>)),
     Let(x, Nothing, Make(Name("Crate"), <<Make(Box(Name("Point")), <<ThePoint>>), ThePoint>>)),
     Let(x, Nothing, Call("same", <<Boxed(Whole)>>)),
     Let(x, Nothing, Call("boxed", <<Lit(Bool)>>)),
     Let(x, Str, Call("open", <<Boxed(Str)>>)),
     Let(x, Rank(Name("Point")), Make(Rank(Name("Point")), <<ThePoint>>)),
     Let(x, Nothing, Call("boxed", <<Boxed(Whole)>>)),              \* Box has no hash
     Let(x, Nothing, Make(Rank(Bool), <<Lit(Bool)>>)),            \* bool is not Comparable
     Let(x, Box(Str), Boxed(Whole)),
     Let(x, Nothing, Invoke(Var(FirstName), "get", <<>>)) >>      \* when the first is a Box
Program(ss) == [templates |-> Templates, functions |-> FunctionTemplates, structs |-> Structs,
                interfaces |-> Interfaces, main |-> ss]
Mixed == {Program([i \in DOMAIN pick |-> Statements(Names[i])[pick[i]]]) :
            pick \in UNION {[1..n -> DOMAIN Statements("a")] : n \in 1..Length}}

(* struct Tower<G>, up(): Tower<Tower<G>>: there is no end to its instances.  *)
Growing ==
  [Program(<<Let("a", Nothing, Make(Inst("Tower", <<Whole>>), <<Lit(Whole)>>))>>) EXCEPT
     !.structs = <<>>,
     !.templates = "Tower" :>
        [params |-> <<"G">>, needs |-> <<{}>>, fields |-> <<Typed("top", Name("G"))>>,
         methods |-> <<Does("up", <<>>, Inst("Tower", <<Inst("Tower", <<Name("G")>>)>>), <<>>)>>]]
MCPrograms == Mixed \cup {Growing}

-----------------------------------------------------------------------------
(* The instances of a program settle when they are reached in as many rounds  *)
(* as there can be instances in one another.                                  *)
Units   == Reach(prog, StackDepth)
Settles == Reach(prog, StackDepth + 1) = Units
Ends    == Ended /\ Settles
Given(x) == Closed(prog, x, <<>>)                   \* structs declared by their name
GivenAll(typed) == [i \in DOMAIN typed |-> [typed[i] EXCEPT !.t = Given(@)]]
GivenText(text) == [i \in DOMAIN text |-> [text[i] EXCEPT !.declared = Given(@), !.value = Given(@)]]
GivenFunction(f) == [f EXCEPT !.ret = Given(@), !.params = GivenAll(@), !.text = GivenText(@)]
GivenStruct(s) == [s EXCEPT !.fields = GivenAll(@),
                            !.methods = [i \in DOMAIN @ |-> GivenFunction(@[i])]]

NamesOf(things) == [i \in DOMAIN things |-> things[i].n]

(* Every instance is written with its own types: fields, signatures, the type *)
(* of each variable and value of its bodies, and each type or function they   *)
(* mention are those of the template with its own arguments put in, although  *)
(* the statements are shared by all of them (type_checker_generics.c, the     *)
(* checks in gen_model.c right before an instance is written).                *)
OwnTypes ==
  Ends /\ phase = "done" =>
    /\ \A s \in Range(out.structs) : \E u \in Units : GivenStruct(s) = UnitText(prog, u)
    /\ \A f \in Range(out.functions) : \E u \in Units : GivenFunction(f) = UnitText(prog, u)

(* What can be reached from main and the declared structs is written, once,   *)
(* and nothing else, although the lists of instances are read while they may  *)
(* grow; and a struct comes after those it has as fields, as the C compiler   *)
(* needs them, although instances are appended behind the structs declared.   *)
WrittenInOrder ==
  Ends /\ phase = "done" =>
    /\ IsInjective(NamesOf(out.structs)) /\ IsInjective(NamesOf(out.functions))
    /\ Range(NamesOf(out.structs)) = {Flat(u).n : u \in {v \in Units : v.k \in {"inst", "struct"}}}
    /\ Range(NamesOf(out.functions)) = {Flat(u).n : u \in {v \in Units : v.k \in {"function", "main"}}}
    /\ \A i \in DOMAIN out.structs : \A f \in Range(out.structs[i].fields) :
         Given(f.t).k = "struct" => \E j \in 1..(i - 1) : out.structs[j].n = f.t.n

(* A program is compiled when all its instances are right by themselves and   *)
(* refused when one is not, whatever was checked before: an instance found    *)
(* before is not held against another, and none is forgotten.                 *)
AcceptsWhatFits == Ends => (phase = "done" <=> \A u \in Units : Sound(prog, u))
=============================================================================
