----------------------------- MODULE NamespacedCode ----------------------------
(***************************************************************************)
(* The C names the code model gives to what an imported module declares    *)
(* and to each use of it.  A C name is the sequence of the parts that "__" *)
(* joins: a function or a variable of an import with a name gets the       *)
(* aliases on the way to it, a static variable only the name of its file,  *)
(* what is compiled as part of the main module nothing.                    *)
(***************************************************************************)
EXTENDS NamespaceScope

VARIABLE code  \* defs: a C name and what it defines; sites: a use and its C name

vars == <<program, walk, scope, statements, phase, code>>

NoCode == [defs |-> {}, sites |-> {}]
Defined(c, name) == \E d \in c.defs : d.name = name
Define(c, name, node) == [c EXCEPT !.defs = @ \cup {[name |-> name, node |-> node]}]
FileName(node) == Last(Stmt(node).name)

(* emit_ns_import_recursive, gen_model_expr: how a use is written.         *)
NamesOf(kind, nodes) == {Stmt(n).name : n \in {m \in Range(nodes) : Stmt(m).kind = kind}}
BareSite(name, prefix, canonical, nodes) ==
  CASE name \in NamesOf("static", nodes) -> <<canonical, name>>
    [] name \in NamesOf("var", nodes) \cup NamesOf("fn", nodes) -> Append(prefix, name)
    [] OTHER -> <<name>>
(* Mutant: a call that names a namespace is written without the prefix of the body it is in. *)
SiteNameShort(use, prefix, canonical, nodes) ==
  IF Len(use) = 1 THEN BareSite(use[1], prefix, canonical, nodes) ELSE use

SiteName(use, prefix, canonical, nodes) ==
  IF Len(use) = 1 THEN BareSite(use[1], prefix, canonical, nodes) ELSE prefix \o use

EmitBody(c, body, prefix, canonical, nodes) ==
  [c EXCEPT !.sites = @ \cup
     {[body |-> body, at |-> i, name |-> SiteName(Stmt(body).uses[i], prefix, canonical, nodes)]
        : i \in DOMAIN Stmt(body).uses}]

(* Mutant: a static variable is written under the alias it is reached by. *)
EmitVariableApart(c, node, prefix, canonical) ==
  LET name == Append(prefix, Stmt(node).name)
  IN  IF Defined(c, name) THEN c ELSE Define(c, name, node)

EmitVariable(c, node, prefix, canonical) ==
  LET name == IF Stmt(node).kind = "static" THEN <<canonical, Stmt(node).name>>
              ELSE Append(prefix, Stmt(node).name)
  IN  IF Defined(c, name) THEN c ELSE Define(c, name, node)
EmitFunction(c, node, prefix, canonical, nodes) ==
  LET name == Append(prefix, Stmt(node).name)
  IN  IF Stmt(node).name = "main" \/ Defined(c, name) THEN c
      ELSE EmitBody(Define(c, name, node), node, prefix, canonical, nodes)

RECURSIVE EmitNamespace(_, _, _, _)
EmitNamespace(c, nodes, prefix, canonical) ==
  LET withVariables == Over(LAMBDA acc, n : EmitVariable(acc, n, prefix, canonical), c,
                            VariablesOf(nodes))
      withFunctions == Over(LAMBDA acc, n : EmitFunction(acc, n, prefix, canonical, nodes),
                            withVariables, FunctionsOf(nodes))
  IN  Over(LAMBDA acc, n : EmitNamespace(acc, Held(n), Append(prefix, Stmt(n).as), FileName(n)),
           withFunctions, NamespacesOf(nodes))

EmitStatement(c, node) ==
  CASE IsNamespaced(node) -> EmitNamespace(c, Held(node), <<Stmt(node).as>>, FileName(node))
    [] IsDirect(node) -> c
    [] Stmt(node).kind = "fn" ->
         EmitBody(Define(c, <<Stmt(node).name>>, node), node, <<>>, "", <<>>)
    [] OTHER -> Define(c, <<Stmt(node).name>>, node)

(* gen_model_build, which only runs when the module has no errors.         *)
BuildModel ==
  /\ phase = "emit"
  /\ code' = IF scope.errors = {} THEN Over(EmitStatement, NoCode, statements) ELSE code
  /\ phase' = IF scope.errors = {} THEN "done" ELSE "refused"
  /\ UNCHANGED <<program, walk, scope, statements>>

Finished == phase \in {"failed", "refused", "done"} /\ UNCHANGED vars

Next ==
  \/ ImportNext /\ UNCHANGED code
  \/ CheckModule /\ UNCHANGED code
  \/ BuildModel
  \/ Finished
Init == ImportInit /\ code = NoCode
Spec == Init /\ [][Next]_vars /\ WF_vars(Next)

--------------------------------------------------------------------------------
(* Programs by how their files import one another                          *)

ImportNodes == UNION {{n \in Range(NodesOf(p, 1)) : Stmt(n).kind = "import"} : p \in Parsed}
NamespaceNodes == {n \in ImportNodes : IsNamespaced(n)}
BelowNames == Reached({Target(n) : n \in NamespaceNodes})

(* No file is imported both directly and with a name.                      *)
OneStyle ==
  \A m, n \in ImportNodes : Target(m) = Target(n) => (IsDirect(m) <=> IsDirect(n))
(* What a file imports directly that is itself below a name, nobody else imports. *)
DirectOnce ==
  \A m, n \in ImportNodes :
    IsDirect(m) /\ m.path \in BelowNames /\ Target(m) = Target(n) => m = n
(* No import with a name leads back to the file it stands in.              *)
NoNameCycle == \A n \in NamespaceNodes : n.path \notin Reached({Target(n)})
(* A name is given once.                                                   *)
NameOnce == \A m, n \in NamespaceNodes : Stmt(m).as = Stmt(n).as => m = n

--------------------------------------------------------------------------------
(* Properties                                                              *)

Checked(site) == {s[3] : s \in {t \in scope.seen : t[1] = site.body /\ t[2] = site.at}}
Denoted(site) == {d.node : d \in {e \in code.defs : e.name = site.name}}
Linked(site) ==
  \/ Checked(site) = {Local} /\ site.name = Stmt(site.body).uses[site.at]
  \/ Checked(site) = Denoted(site)

(* In a program that is accepted, every use is written with the C name of  *)
(* the one declaration it was checked against; the type checker finds it   *)
(* in a global scope that changes as imports are checked, the generator    *)
(* composes it from the aliases on the way to the body it is in.           *)
LinkedAsChecked ==
  phase = "done" /\ OneStyle /\ DirectOnce /\ NoNameCycle => \A site \in code.sites : Linked(site)

(* A program whose uses follow its imports is not refused, in whatever     *)
(* order and through whatever cycles its files are parsed, unless a file   *)
(* is imported both ways or an alias is given twice.                       *)
FollowsItsImports == phase = "refused" => ~OneStyle \/ ~NameOnce

(* A static variable is one variable for all who import its file, whatever *)
(* aliases lead to it.                                                     *)
StaticsShared ==
  phase = "done" /\ OneStyle =>
    \A d, e \in code.defs : Stmt(d.node).kind = "static" /\ d.node = e.node => d = e

(* One name is imported directly and is a namespace's name of something    *)
(* else: the bare name is checked against the one imported directly.       *)
BareIsDirect ==
  phase \in {"done", "refused"} =>
    \A s \in scope.seen :
      LET use == Stmt(s[1]).uses[s[2]]
      IN  Len(use) = 1 /\ s[1].path = Main /\ s[3] # Local =>
            s[3].path = Main \/ \E n \in ImportNodes : n.path = Main /\ IsDirect(n) /\ Target(n) = s[3].path
================================================================================
