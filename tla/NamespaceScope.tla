----------------------------- MODULE NamespaceScope ----------------------------
(***************************************************************************)
(* The names of a module that was put together from files: the global      *)
(* scope, the namespaces in it, and what each use of a name is checked     *)
(* against.  scope.globals is the global scope by name (a name is in it    *)
(* once): the declaration whose type it has, the file of the name's token, *)
(* whether it is a function or a namespace, and what the namespace holds.  *)
(* scope.seen collects, for a use in a function's body, the declarations   *)
(* it was checked against.                                                 *)
(***************************************************************************)
EXTENDS Imports

Local == [kind |-> "local"]
None == [kind |-> "none"]

--------------------------------------------------------------------------------
(* The global scope and the namespaces in it                               *)

Known(sc, name) == name \in DOMAIN sc.globals
IsNamespaceName(sc, name) == Known(sc, name) /\ sc.globals[name].isNs
Erred(sc, what) == [sc EXCEPT !.errors = @ \cup {what}]
Enter(sc, name, symbol) == [sc EXCEPT !.globals = Put(@, name, symbol)]

Symbol(decl, isFn) ==
  [decl |-> decl, file |-> decl.path, isFn |-> isFn, isNs |-> FALSE, inner |-> <<>>]

AddFunction(sc, name, decl) ==
  IF Known(sc, name)
  THEN [sc EXCEPT !.globals[name].decl = decl, !.globals[name].isFn = TRUE]
  ELSE Enter(sc, name, Symbol(decl, TRUE))
AddVariable(sc, name, decl) ==
  IF Known(sc, name) THEN sc ELSE Enter(sc, name, Symbol(decl, FALSE))
RemoveFromGlobal(sc, name) ==
  IF Known(sc, name) /\ ~IsNamespaceName(sc, name)
  THEN [sc EXCEPT !.globals = [n \in DOMAIN @ \ {name} |-> @[n]]] ELSE sc

AddNamespace(sc, alias) ==
  IF Known(sc, alias) THEN sc
  ELSE Enter(sc, alias, [decl |-> None, file |-> Main, isFn |-> FALSE, isNs |-> TRUE,
                         inner |-> <<>>])
Member(decl) == [decl |-> decl, isNs |-> FALSE, inner |-> <<>>]
AddToNamespace(sc, alias, name, decl) ==
  IF ~IsNamespaceName(sc, alias) THEN sc
  ELSE [sc EXCEPT !.globals[alias].inner =
          IF name \in DOMAIN @ THEN [@ EXCEPT ![name].decl = decl] ELSE Put(@, name, Member(decl))]

AddNestedNamespace(sc, alias, nested) ==
  IF ~IsNamespaceName(sc, alias) \/ nested \in DOMAIN sc.globals[alias].inner THEN sc
  ELSE [sc EXCEPT !.globals[alias].inner =
          Put(@, nested, [decl |-> None, isNs |-> TRUE, inner |-> <<>>])]
AddToNestedNamespace(sc, alias, nested, name, decl) ==
  IF ~IsNamespaceName(sc, alias) THEN sc
  ELSE LET within == sc.globals[alias].inner
       IN  IF nested \notin DOMAIN within THEN sc
           ELSE IF ~within[nested].isNs THEN sc
           ELSE [sc EXCEPT !.globals[alias].inner[nested].inner = Put(@, name, decl)]

--------------------------------------------------------------------------------
(* Bodies                                                                  *)

(* A use is a name, or a name after one or two namespaces; it is checked   *)
(* against a declaration, or against none of them.                         *)
ResolveBare(sc, body, name) ==
  IF name \in Stmt(body).params THEN Local
  ELSE IF ~Known(sc, name) THEN None
  ELSE LET s == sc.globals[name]
       IN  IF s.isNs \/ (s.isFn /\ ~IsVisible(importMap, body.path, s.file)) THEN None ELSE s.decl
ResolveQualified(sc, alias, name) ==
  IF ~IsNamespaceName(sc, alias) THEN None
  ELSE LET within == sc.globals[alias].inner
       IN  IF name \in DOMAIN within /\ ~within[name].isNs THEN within[name].decl ELSE None
ResolveNested(sc, alias, nested, name) ==
  IF ~IsNamespaceName(sc, alias) THEN None
  ELSE LET within == sc.globals[alias].inner
       IN  IF nested \notin DOMAIN within THEN None
           ELSE IF ~within[nested].isNs \/ name \notin DOMAIN within[nested].inner THEN None
           ELSE within[nested].inner[name]
Resolve(sc, body, use) ==
  CASE Len(use) = 1 -> ResolveBare(sc, body, use[1])
    [] Len(use) = 2 -> ResolveQualified(sc, use[1], use[2])
    [] OTHER -> ResolveNested(sc, use[1], use[2], use[3])

CheckUse(sc, body, at) ==
  LET decl == Resolve(sc, body, Stmt(body).uses[at])
  IN  IF decl = None THEN Erred(sc, <<"undefined", body, at>>)
      ELSE [sc EXCEPT !.seen = @ \cup {<<body, at, decl>>}]
CheckUses(sc, body) ==
  FoldLeft(LAMBDA acc, at : CheckUse(acc, body, at), sc, [i \in DOMAIN Stmt(body).uses |-> i])
CheckFunctionBodyOnly(sc, node) ==
  IF node \in sc.checked THEN sc
  ELSE [CheckUses(sc, node) EXCEPT !.checked = @ \cup {node}]

CheckFunction(sc, node) ==
  LET name == Stmt(node).name
  IN  IF Known(sc, name) /\ sc.globals[name].isFn THEN Erred(sc, <<"defined", node>>)
      ELSE [CheckUses(AddFunction(sc, name, node), node) EXCEPT !.checked = @ \cup {node}]
CheckVariable(sc, node) ==
  LET name == Stmt(node).name
  IN  IF Known(sc, name) THEN Erred(sc, <<"declared", node>>)
      ELSE Enter(sc, name, Symbol(node, FALSE))

--------------------------------------------------------------------------------
(* An import with a name                                                   *)

FunctionsOf(nodes) == SelectSeq(nodes, LAMBDA n : Stmt(n).kind = "fn")
VariablesOf(nodes) == SelectSeq(nodes, LAMBDA n : Stmt(n).kind \in {"var", "static"})
NamespacesOf(nodes) == SelectSeq(nodes, IsNamespaced)
Over(op(_, _), sc, nodes) == FoldLeft(op, sc, nodes)

(* The walks that count the functions of a module stop at the last one.    *)
Counted(nodes) ==
  SubSeq(nodes, 1, CHOOSE k \in 0..Len(nodes) :
           /\ k = 0 \/ Stmt(nodes[k]).kind = "fn"
           /\ \A j \in k + 1..Len(nodes) : Stmt(nodes[j]).kind # "fn")
Held(node) == IF Got(held, node) = NoModule THEN <<>> ELSE held[node]
Declarations(nodes) == SelectSeq(nodes, LAMBDA n : Stmt(n).kind # "import")

(* Pass 0: the namespaces of the imported module, one level down.          *)
ProcessNestedNamespaces(sc, alias, nodes) ==
  Over(LAMBDA acc, n :
         Over(LAMBDA a, d : AddToNestedNamespace(a, alias, Stmt(n).as, Stmt(d).name, d),
              AddNestedNamespace(acc, alias, Stmt(n).as), Declarations(Counted(Held(n)))),
       sc, NamespacesOf(nodes))

(* Pass 1: a function the global scope has is given this module's type.    *)
RegisterFunctions(sc, alias, nodes) ==
  Over(LAMBDA acc, n : AddFunction(AddToNamespace(acc, alias, Stmt(n).name, n), Stmt(n).name, n),
       sc, FunctionsOf(nodes))
RegisterVariables(sc, alias, nodes) ==
  Over(LAMBDA acc, n : AddVariable(AddToNamespace(acc, alias, Stmt(n).name, n), Stmt(n).name, n),
       sc, VariablesOf(nodes))

(* What was not there before is taken out again.                           *)
RemoveAdded(sc, before, nodes) ==
  Over(LAMBDA acc, n : IF Known(before, Stmt(n).name) THEN acc ELSE RemoveFromGlobal(acc, Stmt(n).name),
       sc, FunctionsOf(nodes))

CheckBodies(sc, nodes) == Over(CheckFunctionBodyOnly, sc, FunctionsOf(nodes))

(* Pass 1.5: the same names once more, as namespaces of the global scope;  *)
(* an alias that is one already stays what it is.                          *)
RECURSIVE ProcessNestedImports(_, _)
ProcessNestedImports(sc, nodes) ==
  LET AddMissing(acc, n) ==
        IF Known(acc, Stmt(n).name) THEN acc
        ELSE IF Stmt(n).kind = "fn" THEN AddFunction(acc, Stmt(n).name, n)
        ELSE AddVariable(acc, Stmt(n).name, n)
      Process(acc, node) ==
        LET alias == Stmt(node).as
            own == Held(node)
            declared == Declarations(Counted(own))
            named == Over(LAMBDA a, d : AddToNamespace(a, alias, Stmt(d).name, d),
                          AddNamespace(acc, alias), declared)
            below == ProcessNestedImports(named, own)
            open == Over(AddMissing, below, declared)
        IN  IF IsNamespaceName(acc, alias) THEN acc
            ELSE IF own = <<>> THEN AddNamespace(acc, alias)
            ELSE RemoveAdded(CheckBodies(open, own), below, own)
  IN  Over(Process, sc, NamespacesOf(nodes))

CheckNamespacedImport(sc, node) ==
  LET alias == Stmt(node).as
      nodes == Held(node)
      nested == ProcessNestedNamespaces(AddNamespace(sc, alias), alias, nodes)
      named == RegisterVariables(RegisterFunctions(nested, alias, nodes), alias, nodes)
  IN  IF Known(sc, alias) THEN Erred(sc, <<"alias", node>>)
      ELSE RemoveAdded(CheckBodies(ProcessNestedImports(named, nodes), nodes), nested, nodes)

CheckStatement(sc, node) ==
  CASE Stmt(node).kind = "fn" -> CheckFunction(sc, node)
    [] IsNamespaced(node) -> CheckNamespacedImport(sc, node)
    [] IsDirect(node) -> sc
    [] OTHER -> CheckVariable(sc, node)

(* type_check_module *)
CheckModule ==
  /\ phase = "check"
  /\ scope' = Over(CheckStatement, scope, statements)
  /\ phase' = "emit"
  /\ UNCHANGED <<program, walk, statements>>
================================================================================
