-------------------------------- MODULE Imports --------------------------------
(***************************************************************************)
(* How the files of a program become one module.  A file is parsed when    *)
(* the import that first names it is met, inside the parsing of the file   *)
(* that holds the import; each import keeps what it got; what is imported  *)
(* directly is put in front of the importing file's own statements.        *)
(*                                                                         *)
(* A statement is an import, a function, or a variable of the module; the  *)
(* node of one is where it stands, and copy tells the main file from the   *)
(* same file imported again.                                               *)
(***************************************************************************)
EXTENDS Naturals, Sequences, SequencesExt, FiniteSets, TLC

CONSTANTS
  Cwd,       \* real path of the directory the compiler runs in
  SdkRoot,   \* real path of the directory the SDK is installed in
  Programs,  \* each gives the files there are their statements
  Main,      \* the path the compiler is given
  NoModule,  \* the NULL of a module that is not parsed yet
  VisitedCap,\* the room in is_visible_recursive's list
  CallDepth  \* its calls that fit on the stack inside one another

(* A path is the sequence of its parts, the last being the file's name     *)
(* without ".sn"; an absolute one begins with the part "".  A file is      *)
(* known to the system by its real path, absolute and without "." and "..".*)
Missing == <<>>
Directory(path) == Front(path)

(* Mutant: ".." is kept. *)
AppendPartUp(path, part) == IF part \in {"", "."} THEN path ELSE Append(path, part)

(* normalize_path: a ".." removes the part before it where there is one.   *)
AppendPart(path, part) ==
  CASE part \in {"", "."} -> path
    [] part = ".." /\ path # <<>> /\ Last(path) # ".." -> Front(path)
    [] OTHER -> Append(path, part)

NormalizePath(path) == FoldLeft(AppendPart, <<>>, path)

(* What the operating system makes of a path.                              *)
Walk(at, part) ==
  CASE part \in {"", "."} -> at
    [] part = ".." -> IF at = <<>> THEN at ELSE Front(at)
    [] OTHER -> Append(at, part)
Real(path) == FoldLeft(Walk, IF Head(path) = "" THEN <<>> ELSE Cwd, path)
Exists(files, path) == path # Missing /\ Real(path) \in files

ConstructImportPath(from, name) == NormalizePath(Directory(from) \o name)

(* The nearest .sn directory on the way up that holds the module.          *)
ResolvePackageImport(files, from, name) ==
  LET Candidate(depth) == SubSeq(from, 1, depth) \o <<".sn">> \o name
      found == {d \in 0..Len(Directory(from)) : Exists(files, Candidate(d))}
  IN  IF found = {} THEN Missing ELSE Candidate(CHOOSE d \in found : \A e \in found : e <= d)

ResolveSdkImport(files, name) ==
  LET path == <<"">> \o SdkRoot \o <<"sdk">>
              \o (IF Head(name) = "sdk" THEN Tail(name) ELSE name)
  IN  IF Exists(files, path) THEN path ELSE Missing

ResolveImport(files, from, name) ==
  LET near == ConstructImportPath(from, name)
      package == ResolvePackageImport(files, from, name)
  IN  IF Exists(files, near) THEN near
      ELSE IF package # Missing THEN package ELSE ResolveSdkImport(files, name)

--------------------------------------------------------------------------------
(* The command opens the main file before it parses; a path has a part at  *)
(* least, an import's name too; statements stand in their file's order;    *)
(* the stack has room for as many calls as the list has for files.         *)
ASSUME ImportAssumption ==
  /\ VisitedCap \in Nat /\ CallDepth \in Nat /\ VisitedCap <= CallDepth
  /\ {Main, Cwd, SdkRoot} \subseteq Seq(STRING) /\ Main # <<>>
  /\ \A p \in Programs :
       /\ Real(Main) \in DOMAIN p
       /\ \A file \in DOMAIN p :
            /\ DOMAIN p[file] = 1..Len(p[file]) /\ Len(p[file]) \in Nat
            /\ \A i \in DOMAIN p[file] :
                 p[file][i].kind = "import" => p[file][i].name \in Seq(STRING) \ {<<>>}

VARIABLES
  program,
  frames,     \* the files being parsed, the innermost last
  imported,   \* paths, in the order they were first met
  modules,    \* imported_modules: a path's statements once it is parsed
  directly,   \* imported_directly
  held,       \* an import's imported_stmts
  importMap,  \* table->import_map
  scope,      \* the symbol table and what was checked against it
  statements, \* the module that is compiled, as far as it is known
  phase

walk == <<frames, imported, modules, directly, held, importMap>>

NoAlias == "direct"
Import(name, as) == [kind |-> "import", name |-> name, as |-> as]
Function(name, params, uses) == [kind |-> "fn", name |-> name, params |-> params, uses |-> uses]
Variable(kind, name) == [kind |-> kind, name |-> name]

Files == DOMAIN program
TextOf(path) == program[Real(path)]
Stmt(node) == TextOf(node.path)[node.at]
IsDirect(node) == Stmt(node).kind = "import" /\ Stmt(node).as = NoAlias
IsNamespaced(node) == Stmt(node).kind = "import" /\ Stmt(node).as # NoAlias
Target(node) == ResolveImport(Files, node.path, Stmt(node).name)
NodesOf(path, copy) ==
  [i \in 1..Len(TextOf(path)) |-> [path |-> path, copy |-> copy, at |-> i]]

Frame(path, copy) == [path |-> path, copy |-> copy, at |-> 1, bad |-> FALSE]
Fr == Last(frames)
Here == [path |-> Fr.path, copy |-> Fr.copy, at |-> Fr.at]
Advanced(frs) == [frs EXCEPT ![Len(frs)].at = @ + 1]
Spoiled(frs) == [frs EXCEPT ![Len(frs)].bad = TRUE]
Parsing(kinds) == phase = "parse" /\ Fr.at <= Len(TextOf(Fr.path)) /\ Stmt(Here).kind \in kinds
AtEndOfFile == phase = "parse" /\ Fr.at > Len(TextOf(Fr.path))

Put(f, x, v) == [y \in DOMAIN f \cup {x} |-> IF y = x THEN v ELSE f[y]]
Got(f, x) == IF x \in DOMAIN f THEN f[x] ELSE NoModule

(* A file's entry names the file itself, so that it is never without one.  *)
Recorded(map, importer, file) ==
  Put(map, importer, (IF importer \in DOMAIN map THEN map[importer] ELSE {}) \cup {file})

--------------------------------------------------------------------------------
(* symbol_table_is_visible                                                 *)

ImportsOf(map, file) == IF file \in DOMAIN map THEN map[file] ELSE {}
FilesIn(map) == DOMAIN map \cup UNION {map[file] : file \in DOMAIN map}

(* An import that finds the list full is followed but not listed.          *)
Listing(visited, next) == IF Len(visited) < VisitedCap THEN Append(visited, next) ELSE visited

(* The search goes on from an import that is listed no more; what a call   *)
(* for one of them returns is what below says, unless it does not end.     *)
TryImport(below, acc, next) ==
  IF acc.found \/ ~acc.ended \/ next \in Range(acc.visited) THEN acc
  ELSE below[<<next, Listing(acc.visited, next)>>]

SearchFrom(map, file, below, from, visited) ==
  LET imports == SetToSeq(ImportsOf(map, from))
      tried[j \in 0..Len(imports)] ==
        IF j = 0 THEN [found |-> file \in ImportsOf(map, from), visited |-> visited, ended |-> TRUE]
        ELSE TryImport(below, tried[j - 1], imports[j])
  IN  tried[Len(imports)]

(* What the calls return by how deep they may call on.  Where there is no  *)
(* depth left the compiler's stack is used up, and it does not come back.  *)
Search(map, file) ==
  LET calls == FilesIn(map) \X Seq(FilesIn(map))
      search[depth \in 0..CallDepth] ==
        IF depth = 0
        THEN [call \in calls |-> [found |-> FALSE, visited |-> call[2], ended |-> FALSE]]
        ELSE [call \in calls |-> SearchFrom(map, file, search[depth - 1], call[1], call[2])]
  IN  search[CallDepth]

SearchEnds(map, from, file) ==
  from = file \/ from \notin DOMAIN map \/ Search(map, file)[<<from, <<from>>>>].ended

(* Mutant: only what a file imports itself is visible. *)
IsVisibleNear(map, from, file) == from = file \/ from \notin DOMAIN map \/ file \in map[from]

IsVisible(map, from, file) ==
  from = file \/ from \notin DOMAIN map \/ Search(map, file)[<<from, <<from>>>>].found

--------------------------------------------------------------------------------
(* parse_module_with_imports                                               *)

ImportInit ==
  /\ program \in Programs
  /\ frames = <<Frame(Main, 0)>>
  /\ imported = <<>> /\ modules = <<>> /\ directly = <<>> /\ held = <<>>
  /\ importMap = Recorded(<<>>, Main, Main)
  /\ scope = [globals |-> <<>>, checked |-> {}, seen |-> {}, errors |-> {}]
  /\ statements = <<>> /\ phase = "parse"

(* The parser enters a function's type under its name, for calls that      *)
(* stand before it; a name that is there keeps its token.                  *)
ParseFunction ==
  /\ Parsing({"fn"})
  /\ LET name == Stmt(Here).name
         g == scope.globals
     IN  scope' = [scope EXCEPT !.globals =
           IF name \in DOMAIN g THEN [g EXCEPT ![name].decl = Here]
           ELSE Put(g, name, [decl |-> Here, file |-> Fr.path, isFn |-> FALSE,
                              isNs |-> FALSE, inner |-> <<>>])]
  /\ frames' = Advanced(frames)
  /\ UNCHANGED <<program, imported, modules, directly, held, importMap, statements, phase>>

ParseVariable ==
  /\ Parsing({"var", "static"})
  /\ frames' = Advanced(frames)
  /\ UNCHANGED <<program, imported, modules, directly, held, importMap, scope, statements, phase>>

(* parser_process_import *)
ImportMissing ==
  /\ Parsing({"import"}) /\ Target(Here) = Missing
  /\ frames' = Spoiled(Advanced(frames))
  /\ UNCHANGED <<program, imported, modules, directly, held, importMap, scope, statements, phase>>

(* Mutant: a direct import of a file that is known gets its statements again. *)
ImportAgainHeld ==
  /\ Parsing({"import"})
  /\ LET path == Target(Here)
     IN  /\ path \in Range(imported)
         /\ importMap' = Recorded(importMap, Fr.path, path)
         /\ held' = Put(held, Here, modules[path])
  /\ frames' = Advanced(frames)
  /\ UNCHANGED <<program, imported, modules, directly, scope, statements, phase>>

ImportAgain ==
  /\ Parsing({"import"})
  /\ LET path == Target(Here)
     IN  /\ path \in Range(imported)
         /\ importMap' = Recorded(importMap, Fr.path, path)
         /\ held' = IF IsNamespaced(Here) THEN Put(held, Here, modules[path]) ELSE held
  /\ frames' = Advanced(frames)
  /\ UNCHANGED <<program, imported, modules, directly, scope, statements, phase>>

ImportFirst ==
  /\ Parsing({"import"})
  /\ LET path == Target(Here)
     IN  /\ path \notin Range(imported) /\ path # Missing
         /\ imported' = Append(imported, path)
         /\ modules' = Put(modules, path, NoModule)
         /\ directly' = Put(directly, path, IsDirect(Here))
         /\ importMap' = Recorded(Recorded(importMap, Fr.path, path), path, path)
         /\ frames' = Append(frames, Frame(path, 1))
  /\ UNCHANGED <<program, held, scope, statements, phase>>

(* process_import_callback: what was imported directly, then the rest.     *)
Inlined(node) == IsDirect(node) /\ Got(held, node) # NoModule
InlinedIn(nodes) ==
  FlattenSeq([i \in DOMAIN SelectSeq(nodes, Inlined) |-> held[SelectSeq(nodes, Inlined)[i]]])
Merged(path) ==
  LET nodes == NodesOf(path, 1)
  IN  InlinedIn(nodes) \o SelectSeq(nodes, LAMBDA n : ~Inlined(n))

FinishImport ==
  /\ AtEndOfFile /\ Len(frames) > 1
  /\ LET importer == frames[Len(frames) - 1]
         node == [path |-> importer.path, copy |-> importer.copy, at |-> importer.at]
         rest == Advanced(Front(frames))
     IN  IF Fr.bad
         THEN /\ frames' = Spoiled(rest)
              /\ UNCHANGED <<modules, held>>
         ELSE /\ frames' = rest
              /\ modules' = [modules EXCEPT ![Fr.path] = Merged(Fr.path)]
              /\ held' = Put(held, node, Merged(Fr.path))
  /\ UNCHANGED <<program, imported, directly, importMap, scope, statements, phase>>

(* The main file's imports once more: one that got its statements is       *)
(* inlined; one with a name is kept, with what its file has become; one of *)
(* a file that so far only had names is inlined now; others are dropped.   *)
InlineHeld(acc, node) == [acc EXCEPT !.list = @ \o held[node]]
RefillNamespace(acc, node) ==
  [acc EXCEPT !.kept = Append(@, node), !.held = Put(@, node, modules[Target(node)])]
InlineAfterNames(acc, node) ==
  [acc EXCEPT !.list = @ \o modules[Target(node)], !.directly[Target(node)] = TRUE]

TakeMainStatement(acc, node) ==
  CASE Stmt(node).kind # "import" -> [acc EXCEPT !.kept = Append(@, node)]
    [] Inlined(node) -> InlineHeld(acc, node)
    [] IsNamespaced(node) /\ modules[Target(node)] # NoModule -> RefillNamespace(acc, node)
    [] IsDirect(node) /\ ~Inlined(node) /\ ~acc.directly[Target(node)]
         /\ modules[Target(node)] # NoModule -> InlineAfterNames(acc, node)
    [] OTHER -> acc

FinishMain ==
  /\ AtEndOfFile /\ Len(frames) = 1
  /\ frames' = <<>>
  /\ IF Fr.bad
     THEN phase' = "failed" /\ UNCHANGED <<directly, held, statements>>
     ELSE LET done == FoldLeft(TakeMainStatement,
                        [list |-> <<>>, kept |-> <<>>, held |-> held, directly |-> directly],
                        NodesOf(Main, 0))
          IN  /\ statements' = done.list \o done.kept
              /\ held' = done.held /\ directly' = done.directly
              /\ phase' = "check"
  /\ UNCHANGED <<program, imported, modules, importMap, scope>>

ImportNext ==
  \/ ParseFunction \/ ParseVariable \/ ImportMissing \/ ImportAgain \/ ImportFirst
  \/ FinishImport \/ FinishMain

(* What comes after the parsing changes nothing of it.                     *)
AfterParsing == phase # "parse" /\ phase' # "parse" /\ UNCHANGED <<program, walk>>
ImportSpec == ImportInit /\ [][ImportNext \/ AfterParsing]_<<program, walk, phase>>

--------------------------------------------------------------------------------
(* One file is parsed once, however the imports of it are spelled: its     *)
(* path is what tells the imports that it is known.                        *)
ParsedOnce == \A i, j \in DOMAIN imported : Real(imported[i]) = Real(imported[j]) => i = j

Parsed == {Main} \cup Range(imported)
(* What some files reach through imports: the least set with these files   *)
(* that has what its members import.                                       *)
Reached(files) ==
  LET whole == {seen \in SUBSET DOMAIN importMap :
                  files \subseteq seen /\ \A file \in seen : importMap[file] \subseteq seen}
  IN  {file \in DOMAIN importMap : \A seen \in whole : file \in seen}

(* What is visible from a file is what it reaches through imports.  The    *)
(* search marks files as it goes, so cutting it short at one that was seen *)
(* on another branch must lose nothing; and it must come to an end, though *)
(* files import themselves and one another.                                *)
VisibleIsReached ==
  phase = "check" =>
    \A from, file \in Parsed :
      /\ SearchEnds(importMap, from, file)
      /\ IsVisible(importMap, from, file) <=> file \in Reached({from})
================================================================================
