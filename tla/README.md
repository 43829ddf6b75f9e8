# A verification development for the Sindarin compiler

The repository is a compiler (`src/src`, C) for the Sindarin language. It parses
`.sn` files with what they import, type-checks them, rewrites the bodies of
functions, turns the result into a JSON model, renders that through Handlebars
templates (`src/templates/c`) into C, and has a C compiler build it together with
a small runtime (`src/src/runtime`). The same binary is a package manager and a
source formatter.

Modelled are

* what *generated programs* do at run time: threads, reference counts and locks,
  the work of checker, templates and runtime together;
* the *package manager*, which keeps a project and a shared cache in step;
* the *compiler* where one thing it does depends on what it did before: layout and
  parsing, imports and namespaces, generics, the optimizer;
* the *formatter*, which must write what the lexer reads as the same program.

Paths below are relative to the repository; `RT` is `src/runtime`, `TC` is
`src/type_checker`, `T` is `templates/c/partials`.

## 1. Inventory

| Component | State | Operations | Interacts with | What makes it correct |
|---|---|---|---|---|
| Thread runtime (`RT/sn_thread.h`, `T/expr/thread_*.hbs`, `templates/c/module.hbs`) | `struct SnThread` (refcount, result, joined, detached), a companion handle per variable | spawn, sync, list sync, detach, fire-and-forget, `&f()!`, scope exit; the wrapper of the thread | checker (which statements exist), pthreads | never used after free, freed exactly once, never joined twice, result ready before it is read |
| Thread-state checker (`src/symbol_table/symbol_table_thread.c`, `TC/expr/type_checker_expr_thread.c`, `..._assign.c`, `..._basic.c`) | `thread_state` of a symbol | mark pending / synchronized / detached, and the tests before read, assignment, sync, detach | thread runtime | a program it accepts never reads a variable whose thread is running |
| Sync variables and locks (`T/stmt/lock.hbs`, `T/expr/increment.hbs`, `T/expr/compound_assign.hbs`, `src/cgen/gen_model_stmt.c`) | an `_Atomic` variable, its mutex; in the generator a stack of lock names | `x++`, `x += n`, `lock(x) =>`, and leaving a block by return, break, continue, lambda | pthreads | mutual exclusion, no lost update, no mutex left held |
| Closures and `as ref` structures (`RT/sn_core.h`, `T/struct_typedef.hbs`) | `__rc__`, a plain int | retain, release, copy | threads (a structure given as an argument is retained by the spawner and released by the wrapper, a closure is only lent) | released once, by the last holder |
| Arrays (`RT/sn_array.c`, `.h`) | len, cap, data, element release and copy hooks | push, pop, insert, remove, slice, extend, copy, thread-handle arrays | ownership inference | len <= cap, elements owned once |
| Arithmetic (`RT/sn_arith.h`) | none | checked and wrapping operations | optimizer's constant folding | the exact result or an error |
| Strings, conversion, serialisation, reflection (`RT/sn_string.c`, `sn_conv.h`, `sn_serial.h`, `sn_reflect.h`, `sn_minimal.c`) | none kept | formatting, JSON | | ownership of results |
| Package manager (`src/package.c`, `src/package/*.c`) | `.sn/<name>` directories, `~/.sn-cache`, `sn.yaml`, the visited set | install, install all, sync, add dependency, clear cache, install scripts | git, other compilers sharing the cache | the project ends with the closure of its dependencies at the refs asked for |
| Git LFS (`src/package/lfs`) | pointer files | batch, download | package manager | |
| Imports (`src/parser_import.c`, `_util.c`, `TC/stmt/type_checker_stmt_import*.c`, `src/cgen/gen_model.c`) | imported modules, import map, namespaces, C prefixes | resolve a path, parse, merge, enter in scope, check uses, name in C | parser, symbol table, code model | each file parsed once; a use means in C what it was checked against |
| Symbol table (`src/symbol_table`) | scopes, namespaces, arenas, which file sees which | push, pop, lookup, escape, visibility | checker, code generator | lookup finds the innermost declaration; only what is imported is visible |
| Lexer (`src/lexer.c`, `src/lexer`) | indentation stack, bracket depth, a pending level | scan, save, rewind | parser, which saves and restores it | every INDENT has its DEDENT, none inside brackets |
| Parser (`src/parser*`) | two tokens, panic mode, continuation depth, type names | one per construct, resynchronize | lexer, symbol table, imports | blocks are the levels of the layout; ends on every file |
| Optimizer (`src/optimizer*`) | none kept, the body is rewritten in place | unreachable code, unused variables, operations that do nothing, tail calls, string literals | AST | meaning preserved after each pass |
| Generics (`TC/type_checker_generics.c`, `TC/stmt/..._struct*.c`, `src/cgen/gen_model.c`) | registries of templates and instances, types of the global scope, statements that all instances share | instantiate, infer, check constraints, check again before writing | symbol table, code model | each instance has its own types, once, after what it embeds |
| Type checker, the rest (`TC`) | error count | one per construct | symbol table | |
| Code model and ownership (`src/cgen`) | lambda, thread, lock and handle tables (globals) | one per construct | templates | each value freed once |
| Module splitting and build (`src/cgen/gen_model_split.c`, `src/main.c`, `src/gcc_backend*.c`) | buckets, file names, cache stamps | split, render, compile, link | file system | each function emitted once, stale objects rebuilt |
| Formatter (`src/formatter.c`) | indentation stack, brackets, the string it is in | format a line, a file, a directory; `--check` | lexer's rules, file system | the lexer reads the same program; formatting again changes nothing |
| Diagnostics, arena, debug output, AST, tokens, platform shims | | | | |

### What is hard about it

* **Two owners of one structure.** The spawning scope and the wrapper release
  an `SnThread` in any order, and the owner may also join, detach, overwrite its
  handle, or leave the scope, at any moment of the wrapper's life.
* **A static state for a dynamic thing.** The checker visits each statement
  once; branches and loops make the state it keeps and what has happened differ.
* **Locks whose release is generated.** Each way out of a block has its own
  template; the mutex is not recursive.
* **Plain reference counts** of closures and structures that threads share.
* **Layout decided by two.** The lexer gives INDENT and DEDENT, the parser skips,
  restores and re-reads them, in chains over several lines and lambda bodies.
* **One list of files, three walks.** Parser, checker and code generator each go
  through the imports in their own order, and must agree on every name.
* **Shared statements.** All instances of a template are checked on one syntax
  tree, which keeps what the last check wrote into it.
* **Two readers of one text.** The formatter has its own idea of strings, comments
  and levels, and is right only where it is the lexer's.
* **A shared cache and a project directory without transactions.** A crash, a
  failed copy, or a second compiler between two steps is visible later.

## 2. Plan

| Stage | Module | What it models | Composes with |
|---|---|---|---|
| 1, done | `CoOwned` | abstract: what a reference count promises, without a count | implemented by `SnThread` |
| 1, done | `ThreadState` | the checker's state of a variable, as operators | used by `SnThread` |
| 1, done | `SnThread` | spawn, sync, detach, scope exit, the wrapper, the checker | `ThreadState`, `CoOwned` |
| 1, done | `ThreadControl` | branches and loops around those statements | extends `SnThread` |
| 1, done | `SyncLock` | sync variables, lock blocks and the generator's lock stack | |
| 1, done | `SharedRef` | plain reference counts across threads | |
| 1, done | `PackageVisit` | collecting the dependencies of a project | used by name in `PackageManager` |
| 1, done | `PackageManager` | the commands over project directories and cache | |
| 2, done | `Layout`, `ParserState`, `ExpressionRules`, `StatementRules`, `DeclarationRules`, `Parser` | lexer layout and the parser | each extends the one before |
| 2, done | `Imports`, `NamespaceScope`, `NamespacedCode` | imports, from the path to the C name | each extends the one before |
| 2, done | `Meaning`, `Optimizer` | the passes, and a meaning they are held to | `Optimizer` extends `Meaning` |
| 2, done | `FormatLine`, `FileTokens`, `FormatFiles`, `Formatter` | the formatter, and the lexer it is held to | `Formatter` extends `FormatFiles`, whose constants it fills |
| 2, done | `GenericTypes`, `Generics`, `GenericMeaning` | templates and instances, and a meaning they are held to | both extend `GenericTypes` |
| 3, done | `ThreadProofs` | safety, exact counts, the refinement of `CoOwned`, branches and loops | |
| 3, done | `SyncLockProofs`, `SharedRefProofs` | exclusion, exact holding, lost updates; plain counts | |
| 3, done | `SequenceFacts`, `PackageVisitProofs`, `PackageManagerProofs` | the walk and the commands of the package manager; lemmas on sequences and stacks | both walks use `SequenceFacts` |
| 4, done | `ImportsProofs`, `FormatFilesProofs` | a file is parsed once, and the search through imports is complete; formatting a directory leaves the other files whole | both use `SequenceFacts` |
| later | `SymbolScopes` | nested scopes, lookup and escape | `ThreadState` lives in its symbols |
| later | `SnArray`, `HandleArray` | capacity, element ownership; thread handles kept in arrays | `HandleArray` with `SnThread` |
| later | `SnArith` | checked arithmetic at a small width, against the exact result | |
| later | `ModuleSplit`, `BuildDriver` | buckets, file names, compile and link | |
| later | `Lfs` | pointer files, temporary file and rename | `PackageManager`'s checkout |

Abstract specifications: `CoOwned` (a refinement), `Needed` of `PackageVisit` (the
least closed set), `Meaning` (what a body does), `Tokens` of `FileTokens` (what the
lexer reads), `GenericMeaning` (which instances there are and which types they
have). Worth stating still: an atomic counter for `SyncLock`, a map from names to
declarations for scopes.

Theorems left to prove: that the levels of `Layout` grow from the margin and come back
to it, for which an invariant has to say at each of the parser's labels what is on the
stack (`Layout` and `ParserState` use no RECURSIVE operator); and in `SyncLock` an
atomic counter per variable as an abstract specification, of which the increments
are the steps.

## 3. The modules and the code

### Threads: `ThreadState`, `SnThread`, `ThreadControl`

`ThreadState` is `symbol_table_thread.c` with the tests of the checker: each
transition is taken from one state only and otherwise does nothing.

In `SnThread` one function, the owner, runs statements; every spawn makes a
wrapper that runs beside it. The variables are the fields of `struct SnThread`
(`mem` is the allocation), what the operating system knows of a thread (`reap`),
the wrapper's program counter, the C frame of the owner (the companion handles
`__sn__x__th__`, the variables, the local of the statement being executed) and
the checker's `tstate`. A statement action conjoins the checker's test, the
checker's transition and the first step of the generated code; joins, releases
and copies of results are steps of their own, with every wrapper step possible in
between. The wrapper's steps are those of `__thread_wrapper` in `module.hbs`:
read the arguments, return from the function (the argument block is freed and
unlinked), store the result, drop the reference, exit.

Undefined behaviour is recorded in `faults` rather than modelled further: reading
a freed structure, joining or detaching a thread that is not joinable, copying a
result that is not there.

`ThreadControl` adds what straight-line statements cannot show. A branch not
taken moves the checker and nothing else (`SkipSync` and its fellows); a loop
body is checked in its first iteration and only executed in the later ones
(`Again`), each of which may take branches the others did not (`PassOver`).

### Locks: `SyncLock`

`x++` is lock, add, unlock, load of the value; `x += n` is a load and a store; a
lock block is entered and left by the template `lock.hbs`. `blocks` is the nesting
the thread is in, `emitted` the generator's stack at the statement it has come to,
which is what a return unlocks. They differ in three places: beyond
`MaxLockDepth`, after a break, in a lambda. Programs that use break or lambdas in
blocks are specifications of their own (`BreakSpec`, `LambdaSpec`), and `Kinds`
selects the statements of the others, so the runs that pass state for which
programs they do. Blocks are entered in one global order of variables: deadlock
by opposite nesting is the program's own doing and not claimed of the compiler.

### Plain counts: `SharedRef`

`++` and `--` on `__rc__` are a load and a store. The owner retains the object for
each thread it is an argument of, and the wrapper drops that reference when the
function has returned (`Spawn`, `Released`). The closure a spawn calls, and closures
among its arguments, are lent: nothing is retained or dropped (`Lend`). Whoever may
use the object may copy it. The spawn of a method stores the structure it is called
on without a retain, and the wrapper drops it like an argument; that is `SpawnSelf`,
a step of `MethodSpec` only, since with it the count is wrong (section 4). `Overlapping` says whether the owner uses
the object while a thread runs. `held` is how many references each party has by its
own reckoning, which the code does not store; `FreedWithLast` compares the one count
of the object with it: the object is freed exactly when nobody has one left.

### Packages: `PackageVisit`, `PackageManager`

`PackageVisit` is the walk of `package_visit.c`, one step per turn of the loop, the
recursion as a stack of what the loops have left, the visited array with its
capacity, chosen in the initial state. Graphs with a cycle that does not fit in
the array are left out of `Init`: the code walks them without end. `Needed` is
defined without the walk: a set of packages is `Closed` when it has what the root
and its own members name, and `Needed` is what all closed sets have in common.
`Collected` of `PackageManager` is defined the same way over what is on disk.

`PackageManager` has the commands (compile, `--install`, `--install url`) as jobs with a program counter, one step per libgit2 call or
directory operation, on `disk`: the package directories of each project and of
the cache. `Crash` drops a job at any step and leaves the disk as it is. `Publish`
and `Edit` are the environment: new versions upstream, an edited `sn.yaml`. What
`CloneTransfer`, `CloneFails` and `CloneFiles` do inside libgit2's `git_clone` is
taken from its use in `package_git.c` and marked external.

Directories are removed entry by entry, in no given order: `Left` is what may be
there after some of them, and a step of `ClearCache` or `RemoveOrphan` removes any
further part of one package's directory. `--clear-cache` is no job: its steps may
come at any moment, between any two of a command, and when it is killed no more of
them come. A checkout writes the files (`CheckoutTree`), then makes or advances the
branch and sets HEAD (`CheckoutHead`). The results of those calls are ignored, so
`HeadsAfter` has all that `.git` may be afterwards, and the job goes on as if HEAD
had moved. Two histories say for what no claim is made: `unmoved`, the packages
whose HEAD this command left elsewhere without noticing, and `raced`, those whose
directory in the cache another process wrote to while this command was using it.

What is abstracted there: version numbers stand for commits and tags, one branch
name stands for all; `.git` and the files of a directory are each copied at once,
in either order; what is left of a `.git` while it is removed is all of it, a
repository without commits, or none; a project runs one command at a time; the recursion's failure results, which are
only printed, are one flag `ok`. Left out: Git LFS, a `sn.yaml` that does not parse
or is half written, two URLs with the same last part, `--init`.

### Source text to syntax: `Layout`, `ParserState`, `ExpressionRules`, `StatementRules`, `DeclarationRules`, `Parser`

`Layout` is the lexer as far as levels go: a lexeme is a token, or a line break
with the column of the next line. `Scan` keeps the indentation stack, the bracket
depth, the pending level of several DEDENTs, and comments on lines of their own,
which are tokens.

`ParserState` has the parser's registers. The C call stack is the sequence `stack`,
an entry being what is left to do of one call; a step takes the top entry, does
one primitive (`advance`, `match`, `consume`, an error, saving and restoring the
lexer) or replaces it by the entries of the calls it makes. The three rule modules
are the functions of `parser/expr`, `parser/stmt` and the declarations, one
operator per function, by label. `ret` is the node kind a call returned, kept only
where the parser looks at it. A word of the file is typed when the lexer asks for
it (`Write`, `EndOfFile`): the file is chosen while it is read, so every
continuation of an opening is covered and none is longer than the parser looks.
Whether an import brings type names is left open (`DoImported`). A NULL that the
code follows is `DoCrash`. Expressions inside interpolated strings have a parser
of their own and are the node `$str` here.

In a file with a `tidy` opening a line under an expression is indented only to go
on with it; `BlocksMatchLevels` is claimed of these. The untidy one is there for
`Finishes`.

### Imports: `Imports`, `NamespaceScope`, `NamespacedCode`

`Imports` resolves and normalizes paths, which are sequences of their parts, and is
`parser_import.c`: a stack of files being parsed, the arrays of those
seen, what each import keeps, and the merging of directly imported statements. It
also has `symbol_table_is_visible`: `Search` gives what each call of
`is_visible_recursive` returns by how deep it may call on, and `ended` says whether it
returns at all, since a call that finds the list of visited files full goes on without
listing. `NamespaceScope` enters the merged module in the symbol table and checks each
use of a name;
`scope.seen` is what it was checked against. `NamespacedCode` gives definitions and
uses their C names; `LinkedAsChecked` compares the two.

A file's statements are imports, functions with the names they use, and variables;
structs, pragmas, native functions and the caps of 256 and 4096 are left out, and
so are `also_imported_directly`, `namespace_code_emitted` and
`canonical_namespace_prefix`, which feed a JSON field nothing reads. The branch of
`parser.c` for an import that was not parsed before (425–521) is never taken.

What is claimed is claimed of programs in which no file is imported in both styles
(`OneStyle`), a name is given once (`NameOnce`), no named import leads back to its
own file (`NoNameCycle`), and a file below a name that is imported directly is so
only once (`DirectOnce`). Outside of these the C code has names without
definition; see section 6.

### Optimizer: `Meaning`, `Optimizer`

`Optimizer` has one action per pass over a body, in the order of the compiler.
`Meaning` evaluates a body the way the generated C does, to the calls it makes and
what it returns; it is no part of the compiler and therefore not mapped. `for`
loops are `while` loops, counters of what was removed are left out. `SameMeaning`
is claimed of bodies in which a variable that is written is read (`WrittenIsRead`),
no operation mixes a double literal or a string with a number (`OneType`), effects
in an initializer are outermost (`EffectsOutermost`), and no format follows two
literals in a row (`PlainParts`): the passes look at none of these.

### Formatter: `FormatLine`, `FileTokens`, `FormatFiles`, `Formatter`

`FormatLine` is the spacing and the wrapping of initializers of one line, given as
pieces and blanks. Pieces with no blank between them are spelled and read again by
longest match (`Words`), by the formatter and, with `->` in addition, by the lexer: a
`-` written next to `--` is `--` and `-` for both. `Formatter` is what becomes of a line, with the levels, the brackets
and the strings that go on. `FormatFiles` takes the files of a directory line by line,
with `--check`, files that cannot be read or written, and kills; the formatter's state,
what a line does to it and what it puts out are constants there, which `MCFormatter.cfg`
sets to the definitions of `Formatter`. `FileTokens` is the lexer again, from lines
to tokens with their levels, and ends strings where the lexer ends them.

The claims are about `Ordinary` files: no tabs, no line beyond the token array, no
sign before the same sign, single or doubled (`- -x`, `- --x`), no two `<` in a row, no `{` on a line with a comment behind code, no deeper
than the level array, no lexical error, no line without layout left of the code it
stands before (`Hangs`), and `|` strings that end in their only blank line
(`BlocksEndBlank`).

### Generics: `GenericTypes`, `Generics`, `GenericMeaning`

`Generics` takes a program (templates, generic functions, structs, a main) through
the phases of the compiler: check the structs, check main, write the instances in
order, write the functions. `c` is what the compiler keeps: both registries, the
types of the global scope, which instances are entered, and `tree`, what checks
wrote into the statements that all instances share. A mention of an instance met
while a body is checked makes that instance at once, inside the other
(`monomorphize_struct_type`), up to `StackDepth`, where the compiler crashes.

`GenericMeaning` says the same without a compiler and is not mapped: an instance
is the template with arguments for parameters, the program has the instances that
can be reached, and is accepted when each of them is right by itself. `Flat` gives
both the C names. The programs list templates before structs and those before
main, and bodies consist of variables and returns. The templates of `MCGenerics`
have parameter names of their own and no variable in a body whose type is inferred
or is an instance: for both the compiler differs from the meaning (section 6).

## 4. The runs

| Run | Question | Result |
|---|---|---|
| `threads` | are thread structures safe, is a variable ready when the checker lets it be read, is everything freed, is `CoOwned` implemented? | holds, variables spawned once |
| `control` | the same safety with branches not taken; nothing dangles in loops, though it may leak | holds |
| `locks` | exclusion, no lost update, exact holding; everyone gets the mutex | holds for programs without the statements named below |
| `shared_refs` | does a plain count free exactly once? | holds for arguments and closures, if the owner keeps away while a thread runs |
| `collect` | does the walk find exactly what is needed, end, and stay in its array? | holds; a set that does not fit is cut, a cycle that does not fit is excluded |
| `packages` | is the closure there after an install, what is tagged at its tag and nothing needed deleted after a sync, with kills, removals in progress and HEADs that did not move, and does every command end? | holds; of a package that was raced for or left `unmoved` less is claimed |
| `packages_shared` | are packages at the refs asked for when two projects share the cache and it is cleared? | holds, except for what `raced` and `unmoved` name |
| `parser` | are levels and blocks the same, brackets balanced and without layout between them, and does every file come to its end? | holds for files without comments between brackets and lambdas left of their statement |
| `modules` | is each file parsed once, each use written as the name it was checked against, each `static` shared? | holds for the programs named above |
| `optimizer` | does a body mean the same after each pass? | holds for the bodies named above |
| `format` | are the tokens kept, is the result final, do failures leave the other files whole? | holds for ordinary files |
| `generics` | is exactly what fits accepted, each instance written once with its own types and after what it embeds? | holds for templates as named above |

Where the code does not do what a document or a comment of the repository says, the
programs concerned are outside the class that a run is about. Each such disagreement
can be seen with one of the following configurations or changes, which check one
invariant and end with a counterexample:

| Configuration | What it shows | What it contradicts |
|---|---|---|
| `SnThread_respawn.cfg` | spawn, detach, and a second spawn into the same variable, whose result is then read: `symbol_table_mark_pending` moves a NORMAL symbol only, so the variable stays DETACHED, which the checker lets be read at once (`ReadsAreReady`); after a sync it stays SYNCHRONIZED in the same way | `docs/threading.md:745` |
| `SharedRef_method.cfg` | a thread runs a method of an `as ref` structure: the spawn stores the structure without a retain (`thread_spawn.hbs:13`), the wrapper releases it, and it is freed while its owner holds it (`FreedWithLast`) | comment at `gen_model_expr.c:3262` |
| `MCModules_variables.cfg` | two named imports with a variable of one name: the second's use is checked against the first's | `docs/namespaces.md:21` |
| `MCModulesCollision.cfg` | a function imported directly and one of a named import have one name: the bare use is checked against the other | `docs/namespaces.md:80` |

Others are a change of a constant or of the specification in a run's configuration,
with the invariant named in the third column put in place of the run's properties:

| Of | Change | Then fails | Contradicts |
|---|---|---|---|
| `SyncLock` | `Kinds = {"update outside"}` (`x += n` from two threads) | `NoLostUpdate` | `docs/threading.md:369` |
| `SyncLock` | `Kinds = {"increment", "increment inside"}` | `NoSelfWait` | `docs/threading.md:549` |
| `SyncLock` | `BreakSpec` | `HeldExactly` | `docs/threading.md:531` |
| `SyncLock` | none: `x++` loads its value after the unlock | `DeliversOwnValue` | `docs/threading.md:328` |
| `SyncLock` | `NumVars = 1`, `MaxLockDepth = 1`, `Kinds = {"return"}`: so does `return x` | `DeliversOwnValue` | `docs/threading.md:494` |
| `SyncLock` | `LambdaSpec`, `NumVars = 1`, `MaxLockDepth = 1`, `Kinds = {}`: a lambda's return unlocks the block it is written in | `MutualExclusion` | `docs/threading.md:739` |
| `SyncLock` | `Procs = {p}`, `NumVars = 2`, `MaxLockDepth = 1`, `Kinds = {"return"}`: a return in a block too deep for the stack does not unlock it (17 in the code) | `HeldExactly` | comment at `gen_model_stmt.c:690` |
| `ThreadControl` | `MaxBody = 0` | `ReadsAreReady` | `docs/threading.md:745` |
| `ThreadControl` | `MaxBody = 1` | `NoFaults` | `docs/threading.md:827` |
| `SnThread` | `MaxSpawns = 2` | `NoOrphan` | `docs/threading.md:187` |
| `SnThread` | `ListDetached = TRUE` | `NoFaults` | `docs/threading.md:749` |
| `MCPackageManager` | none: a killed install never runs the install script | `ScriptsRun` | comment at `package_install.c:12` |
| `MCPackageManager` | none: a transitive package is missing at a build, unnoticed | `NoneMissing` | the check before a build, `package.c:136` |
| `MCPackageManager` | none: a killed clone leaves a repository without files | `NoneHollow` | `package.h:96` |
| `MCPackageManager_shared` | `MaxFaults = 0`: another project's command writes to the cache directory a package is being copied from | `AtRefDespiteOthers` | `package.h:83` |
| `SharedRef` | `Overlapping = TRUE`: two uses at once, one count is lost | `FreedWithLast` | `docs/memory.md:392` |
| `MCOptimizer` | `Programs <- MCUntyped` | `MeaningKept` | |
| `MCOptimizer` | `Length = 1`: a call inside an unused initializer is removed | `CallsKept` | comment at `optimizer_util_dead.c:44` |
| `MCParser` | `Openings <- BracketOpenings`, `Room = 5`: when a lambda between brackets turns out to have no block, the bracket depth restored is not that of the text read again | `Balanced` | comment at `parser_expr_lambda.c:171` |
| `MCParser` | `Openings <- CommentOpenings`: after a comment that ends a body the parser looks for a statement where there is none | `StatementFollows` | `docs/structs.md:148` |
| `MCParser` | `Openings <- LooseOpenings`, `Room = 5`: a comment between brackets ends the line | `NoLayoutInBrackets` | comment at `lexer.c:237` |
| `MCParser` | `Openings <- LeftOpenings`, `Room = 5`: lines of a lambda left of the statement it is in; the levels they close come after its block | `NoLayoutInBrackets` | |
| `MCModules` | `Main <- <<".", "src", "Main">>` (as in `sn ./src/main.sn`), a package in `src/.sn` that two files import: the main file's path to it begins with a `.`, the other's does not | `ParsedOnce` | comment at `parser_import_util.c:4` |
| `MCModules` | `VisitedCap = 1`: a file that the list has no room for is not listed and imports itself, so the search of it does not end (in the code beyond 256 files) | `VisibleIsReached` | comment at `symbol_table_core.c:822` |
| `MCFormatter` | `Commands <- Unkept`: files that are not ordinary | `SameTokensAlways` | `formatter.c:13` |

Further ones no configuration shows: `docs/threading.md:566` describes a panic in a
thread as delivered by the sync, the runtime calls `exit(1)`; its description of the
cleanup predates the reference count; more than `PKG_MAX_VISITED` packages are
collected incompletely, although the comment at `package_visit.c:99` says ALL.

### Bounds

* `threads`: two variables and two structures, so that one variable's thread and
  the other variable's, or one held by a statement, exist together;
  `MaxSpawns = 1`, spawns per variable and declaration. With 2 the model contains
  the program of `SnThread_respawn.cfg`, which fails.
* `control`: three structures, one variable, loop bodies of up to `MaxBody = 2`
  statements repeated any number of times, each of which may be skipped in any
  iteration; the third thread is the one that overwrites or follows a second.
* `locks`: two threads with three statements each over two variables, depth 2: an
  increment inside a nested block on another variable against a block on it.
* `collect`: three packages with up to two dependencies each and every subset of
  them on disk contains cycles of length one to three and diamonds; with a
  capacity of 2 the array gets full.
* `packages`: two packages in two versions whose dependencies differ between
  versions and form a cycle, two `sn.yaml` files, two commands and one fault
  (`MaxFaults`): a kill, a removal of some or all of a cached package, or a HEAD
  that did not move. Two commands are what it takes for one to find what another
  left behind.
* `packages_shared`: two projects, a package in two versions that asks for itself at
  other refs, compiled, installed or added, with the shared cache or without; two
  commands in all and one fault, of the same three kinds. Two processes are enough for every way
  of writing between two steps of a third.
* `shared_refs`: three threads in a row, at most three references per party.
* `parser`: eleven openings, one of them untidy, each followed by up to `Room = 4`
  words of a vocabulary of its own. The openings take the parser to the functions
  that treat layout in their own way; four words open, continue and leave them.
* `modules`: four files, a main with one or two imports, the others with up to two
  (two different lists for each), every order and both styles, four spellings of a
  path; `VisitedCap = 8` and `CallDepth = 8` are more than four files need. With no
  room in the list `VisibleIsReached` fails (above).
* `optimizer`: bodies of up to three statements (`Length`) and a return, from seventeen
  statements; loops are followed for `Fuel = 2` rounds, enough for a `continue` and
  a `break`.
* `format`: files of up to four lines, lines of up to seven words, `MaxIndentDepth = 4`
  (128 in the code), which one family of files exceeds, `MaxLineTokens = 40` (512),
  which none does; directories of two files. The operators of those lines are all
  the sequences of up to four from two vocabularies, among them signs next to
  doubled signs and `<`, `>` and `>>` in every order.
* `generics`: mains of up to two (`Length`) of fifteen statements, 241 programs, over
  templates that embed, contain, return and constrain one another; `StackDepth = 5`
  instances inside one another, which only the template that grows reaches. Two
  statements are what it takes for one instance to find what another left in the
  shared statements.

### Fairness

* Wrappers (`WF_vars(Wrapper(t))`): the platform runs every thread, and spawned
  functions are assumed to return. A statement that has begun is carried through
  (`WF_vars(Inside)`); what the owner does next, and whether it ever returns, is
  left open.
* `SyncLock`: weak fairness of `Continue`. Weak fairness of a lock acquisition is
  enough only because programs are finite here: a mutex promises no fairness, and
  with endless programs a thread can starve.
* `PackageManager`: a job takes its next step (git and the network answer or fail);
  nothing is assumed of kills, removals, publishing or new commands.
* `PackageVisit` and `Parser`: sequential code, `WF_vars(Next)`. In `Parser` this
  includes that the file, which is of finite length, is written to its end.

### Mutants

For each property of each passing run a variant of a definition stands before it
(`SpawnOneRef` before `Spawn`), marked as a mutant: a plausible mistake at that
place, with which the run finds the property violated. They are part of no
specification.

## 5. What is proved

Each theorem holds for every value of the constants that their `ASSUME`s admit
(`None` is none of the others, bounds are numbers, sets of packages are finite).
Where it has a further hypothesis, that stands in the theorem, and without it the
property is false: TLC finds a counterexample with each of them left out, most of
which are in the tables of section 4. The method is the same throughout. An
invariant strong enough to be inductive is stated as a conjunction of named parts,
checked by TLC on the run of its module, and shown to be kept by the actions one by
one; the property follows from it.

| Theorem | States | For |
|---|---|---|
| `TypeCorrect` | `TypeOK` | every program |
| `MemorySafety` | `NoFaults` | no detached variable in a sync list |
| `CountIsExact`, `NothingOrphaned`, `OnlyDetachedOutlive` | `RefcountExact`, `NoOrphan`, `ReturnLeavesOnlyDetached` | variables spawned once |
| `Refinement` | `KeepsPromise`: `SnThread` implements `CoOwned` | variables spawned once |
| `ReadsSeeLatest` | `ReadsAreReady` | variables spawned once, no detached variable in a list |
| `LoopsNeverDangle` | `NoUseAfterFree` | every program with branches and loops |
| `UntakenBranchesHarmless` | `BranchesSafe` | variables spawned once, no detached variable in a list |
| `BlocksExclude` | `MutualExclusion` | every program; with break and continue, `BreakExcludes` |
| `NothingLeftHeld` | `HeldExactly` | as many levels in the generator's stack as variables |
| `LosesNoUpdate` | `NoLostUpdate` | no `x += n` outside a block on `x`; with break, `BreakLosesNoUpdate` |
| `NeverWaitsForItself` | `NoSelfWait` | as `NothingLeftHeld`, and no `x++` inside a block on `x` |
| `NeverWaitInACircle` | while a mutex is held, one of the holders does not wait | as `NeverWaitsForItself` |
| `LastFrees` | `FreedWithLast` | arguments and closures; the owner keeps away while a thread runs |
| `RecordsOnce`, `CollectsWhatIsNeeded` | `RecordedOnce`, `CollectsNeeded` | every graph and capacity of `Init` |
| `InstallCloses` | `InstalledClosed` | any projects, commands, kills and removals |
| `SyncSpares` | `SyncKeepsClosed`, an action property | any projects, commands, kills and removals |
| `SyncReachesTags` | `SyncedAtTag` | `sn.yaml` files that give no package two refs |
| `InstallsAtRefs` | `InstalledAtRef` | any projects, commands, kills and removals |
| `OneParse` | `ParsedOnce` | every path met so far is canonical |
| `OneParseOfPlainNames` | `ParsedOnce` | imports and main file named without `.` and `..`, no file met both by a path from the root and by one from the compiler's directory |
| `ParsingNestsOnce` | `ParsingNests` | every set of programs |
| `SearchIsComplete` | `VisibleIsReached` | the list of visited files has room for the files met so far |
| `NormalizedGoesUpFirst` | what `normalize_path` returns | every path |
| `OthersStayWhole` | `OthersWhole` | every directory and whatever becomes of a line |
| `CountIsExact`, `CheckWritesNothing` | `CountsChanged`; with `--check` the disk stays as it was | as `OthersStayWhole` |

### Threads

The first part of `ThreadProofs` is about `NoFaults`. Its `IInv` adds what that rests on: while
owner and wrapper both hold a structure its count is 2, and a structure held by
either is allocated (`Covered`); no handle is in two companions, nor in a companion
and the statement's local (`HeldOnce`); a companion's thread is joinable, or detached
and its variable known to the checker as DETACHED (`Companions`); the local is
joinable, joined or detached according to the place in the statement (`AtLocal`); a
variable about to be synced is not DETACHED (`SyncsNoDetached`), so what it holds is
joinable; and a wrapper past its store has stored (`ResultStored`), so that a thread
that was joined, hence exited, has its result. `StepIInv` takes the actions one by
one. With `ListDetached = TRUE` TLC finds `NoFaults` violated.

The same part has what no program can disturb. `CountInv` says nothing of the
checker: it is `TypeOK`, no use after free, `Covered`, `HeldOnce`, and that the
statement's local is set inside statements that have one (`LocalSet`). It is
inductive without any hypothesis on the program.

The second part adds `ShareInv`, for `MaxSpawns <= 1`. Every count is the number
of parties that hold the structure (`Counted`); a variable not spawned since its
declaration has no handle (`NullUntilSpawned`), so that a spawn overwrites none;
what the flags say of joins and detaches has been done (`Reaped`); and who is left
holding a structure without the owner is a detached thread (`LeftDetached`). For
`Counted` each step is shown to be one of four (`SharesStep`): nobody's share changes,
a spawn hands out two, the owner lets go of one, the wrapper lets go of one. The same
cases give the refinement, in which the owner's and the wrapper's shares of a
structure are the parties of `CoOwned`. With a second spawn of a variable the first
handle may be overwritten and its share lost. None of this needs the checker's state;
only `ReadsSeeLatest` does: for each variable that state says where its latest result
is, in the variable, in the companion, or in the statement's local on its way
(`Tracking`), and a detached variable in a sync list breaks that. The program of
`SnThread_respawn.cfg` breaks it with a second spawn.

The third part shows that loops and branches keep `CountInv` too: loops may leak,
join twice or read too early, but never touch freed memory. The second theorem goes
back to `IInv`, `Counted` and `NullUntilSpawned` while no statement has been repeated;
a branch not taken moves the checker ahead of the program, and the proof is that
this is harmless.

### Locks and counts

`LockInv`: in every thread both stacks increase in the global order of variables, and
the generator's is part of the thread's blocks (`Stacks`); who is in a block on `x`
or in the middle of `x++` has the mutex of `x` (`Holding`); who waits does so in the
order (`InOrder`). Exclusion follows because a mutex has one holder. It is inductive
for `BreakSpec` too, where mutexes stay locked that no block stands for. It fails for
`LambdaSpec`. `NothingLeftHeld` needs the converse: the generator's stack is the
thread's (`Tracked`), and what is locked is in a block (`Released`); a block beyond
`MaxLockDepth` is in the thread's only. No thread is in more blocks than there
are variables, which is where `NumVars <= MaxLockDepth` comes from. `UpdateInv` says
that the copy a thread is about to store is the current value. For the absence of
deadlock, `WaitsUpward`: what a thread waits for is greater than all it holds, so whoever
holds the greatest locked mutex does not wait. With `x++` inside a block on `x` that is
false, and TLC finds a single thread stuck. That the others then get their mutexes, too, is liveness
(`LockGranted`) and stays with TLC.

For plain counts `Inv` says that one party is at work at a time (`OneAtATime`), the
count it has loaded is the current one (`ReadsCurrent`), the count is the sum of
what parties hold (`Counts`), and while the object is lent its owner has a reference
(`OwnerLends`), so that a thread without one uses no freed object. With `Overlapping`
the first part fails, and with it the rest; with spawned methods `Counts` fails.

### Packages

`PackageVisitProofs`: what is recorded or waits on the stack is needed (`Sound`), and
each thing that the root or a recorded package names is recorded, waits on the stack,
or did not fit (`Complete`). When the stack is empty the recorded set is closed,
and so contains `Needed`.

`PackageManagerProofs` reads the same argument on a disk that others write to. `IInv`
has, beside types, which command is at which label in which mode with what on its
stack (`JobOK`); that past the clone, the fetch or the copy the package at hand is a
repository, and its directory in the cache before the copy, if no other process has
written to that (`Arrived`); that as long as nothing failed each name read is either walked to or in
the rest of a loop (`Closing`); and that what sync is about to delete is not collected
(`Spared`). Each step of a job is shown to touch at most the package at hand of its
own project and the cache, so that for the other projects it is a step of the
environment. A step of another process that touches the cache directory a job is
using is recorded in `raced`, and takes that package out of the claim. Kills,
and removals that got anywhere, leave a disk that satisfies the invariant because
nothing is claimed of directories but of those that running jobs are at work on.

The two theorems about refs have invariants of their own on top of `IInv`. `TagInv`:
as long as nothing failed, sync has each direct dependency still before it, at hand,
or at its tag, unless its repository has no commit checked out or its HEAD could not
be moved (`unmoved`); a `sn.yaml` with two refs of one package undoes the first with
the second. `RefInv`: each package done with is at
the ref it was first asked for (`RefKept`), and the one at hand is as far as its label
says (`Halfway`: the tree before the head, the cache before the copy). Between the
checkout in the cache and the copy out of it another process may check out
something else or remove it; then the package is in `raced` and `Halfway` says
nothing of it. The files are at the ref even where HEAD is not, since `Halfway` has
them from the checkout of the tree, and HEAD from a call that moved it. TLC finds
the claim violated without the exception (`AtRefDespiteOthers`, section 4). None of
these theorems restricts the number of projects.

### Imports

A file that was parsed is known by its path, and paths are compared as strings
(`parser_import.c:55`). `ImportsProofs` therefore asks which paths of one file are equal.
What `normalize_path` makes of any path has its `..` in front and nothing empty in it
(`NormalizedGoesUpFirst`: the loop removes what a `..` follows, unless that is a `..`).
A path that only goes down, from the compiler's directory or from the root, leads the
operating system where it says (`WalkDown`, `WalkFromRoot`), so two such paths of one
file are equal (`OneName`), provided the one from the root does not lead through the
compiler's directory. These are the canonical paths. `IInv` says which paths are on
the parser's stack and in its array: each of a file that exists (`Stacked`, `Listed`),
none twice (`ListedOnce`), each with its module (`HasModule`), none of them being
parsed inside itself (`NestedOnce`). `OneParse` follows. It covers `..` in imports as
long as it stays below the directory; `OneParseOfPlainNames` gets rid of the condition
on states for programs that do not use `.` and `..`, since the three ways in which an
import is resolved keep a plain path plain. TLC finds `ParsedOnce` violated where the
condition fails (section 4, the command given `./src/main.sn`; section 6).

`SearchIsComplete` is about the search for a chain of imports. It marks a file when it
comes to it, keeps the marks of branches that found nothing, and leaves out what is
marked. `Answers` says what a call promises: it ends; what it finds is in every set of
files that is closed under imports and has the file it started from; and when it finds
nothing, no file it listed imports the one looked for, and what those files import is
listed too, by it or before it. Taken together with the files that were on the list
when it was called this is not closed: a file further up is listed and its imports are
not all tried yet. Only for the outermost call, where nothing else is on the list, the
files listed are closed under imports and leave the one looked for out. `NextImport` is
one turn of the loop, `CallAnswers` the loop, and `SearchAnswers` the induction over the
depth: a call made for a new file leaves one file fewer to be listed (`ListingGrows`),
so neither the list nor the stack runs out. `Mapped` is the invariant that what is
imported has an entry of its own. Where the list has no room the search does not end
(section 4).

The theorems are about `ImportSpec`, the parsing alone. That `NamespacedCode` does
nothing else to these variables, `[][ImportNext \/ AfterParsing]_<<program, walk, phase>>`,
was checked by TLC on the run `modules`; it is not proved, since the later phases use
RECURSIVE operators.

### Files of a directory

`FormatFilesProofs` knows nothing of what the formatter does to a line. Its invariant
has where the command is (`Walking`), that the formatter's state is what the lines taken
so far make of the first one (`Taken`), hence at the end of a file what `Formatted` says
of the whole, and that every file is what it was or formatted, the one at hand excepted
while it is written (`Whole`). `CountsChanged` is inductive with these. The only
assumption is that files are sequences of lines (`CommandAssumption`), which TLC
evaluates for the commands of `format`.

### Sequences

`SequenceFacts` has what the walks share: lemmas on what a step does to a stack, on
subsequences, and on folds. `FoldLeft` of the community modules is defined through a
recursive function; that there is one such function, and that one more element is one
more application, is proved here for an operator the module is given as a constant
(`FoldExists`, `FoldedAppend`), once for every instance. The inductions behind it are
over the set of numbers, or of sequences, for which the statement holds
(`InductionOverNat`, `InductionOverSeq`), and so is the one in `ImportsProofs` for the
functions of `Search` (`IterationExists`), because the library's theorems take the
statement as an operator, which the provers cannot instantiate.

### Model-checked only

* Liveness (`AllReclaimed`, `LockGranted`, `WalkEnds`, `CommandEnds`, `Finishes`) rests
  on fairness, hence on ENABLED, which the prover does not handle.
* `SameMeaning`, `StaysClosed`, `TailIsLast`, `OwnTypes`, `WrittenInOrder`,
  `AcceptsWhatFits`, `SameTokens` and `Settles`, and of the imports `LinkedAsChecked`,
  `FollowsItsImports` and `StaticsShared`, are about trees and
  scopes that RECURSIVE operators go through, for which the prover has no backend.
* `BlocksMatchLevels`, `NoLayoutInBrackets` and `Balanced` hold for the openings of the
  run and not for every file (section 4), so a theorem would have to say which files;
  that, and what is on the stack at each of some hundred labels, has not been written.

## 6. What is not modelled

Of the type checker the rules for expressions and statements, of the code
generator everything but threads, locks, C names and the order of instances: these
are translations of data whose state does not outlive a call. How characters become
a word, number or string, and expressions inside interpolated strings. Nested
scopes of a function, arrays and handles in them, arithmetic, the splitting and
building of C files, Git LFS: in the plan. In the thread model also a
`pthread_create` that fails, and spawned calls inside larger expressions, whose
order C leaves open. In the package model: a `sn.yaml` that does not parse or is
half written, two URLs with the same last part, `--init`.

### What lies outside the classes of programs

The properties of imports, optimizer, formatter and generics are stated for classes
of programs. What the code does outside of them, met while modelling:

*Imports.*
- A file imported only `as b` can be used without `b.`; the checker accepts it, the C
  name is not defined (`docs/namespaces.md:21` says it cannot).
- A parameter or local variable with the name of a variable of the module is
  written as that variable (`gen_model_expr.c:754`).
- A direct import inside a file that is imported with a name is written without a
  definition when somebody else imports it too; the same alias in two files is
  reported as an error; statics are shared by the base name of their file.
- An absolute path loses its first `/` when it is normalized, so an import beside a
  file found by one, as in the SDK, is looked for below the compiler's directory.
- A path that climbs out of the directory and comes back is another one than the path
  that stays inside; so are one from the root and one from the directory. Such a file
  is parsed twice. So is a package of `./main.sn`, and in a cycle the main file.
- The path of a package or of the SDK is not normalized: `a/../b` of a package is
  another file than its `b`.

*Optimizer.*
- `(a * 1.0) / b` loses its type, `s + 0` becomes `s`.
- A variable that is only written loses its declaration, and `1 + f()` in an unused
  initializer its call; a panic in one disappears.
- A format moves to another part when literals before it are merged.

*Formatter.*
- A comment at the margin inside a nested body moves the next statement out of it.
- A comment `# T { a: 1, b: 2 }` behind code becomes code; `- -x` becomes `--x`, `- -- x` becomes `--- x`.
- A `|` string that ends with the file loses its last line break; one that is not
  ended by a blank line, or a continued line left of its statement, is moved.
- A line of more than 511 tokens is cut. Files are opened for writing before they
  are written, so a kill empties one; an unreadable file passes `--check`.

*Generics.*
- `var x = self.value` and `var b: Box<T>` in a body are refused in the second instance
  made, as is a generic function that calls another.
- `swap(): Pair<U, T>` in `Pair<T, U>`, nested templates with one parameter name, and
  `return self.copy()` in a template are refused; `Box<int>[]` equals nothing.
- Parameters of templates can be used as types in main. `up(): Box<Box<T>>` has no
  end. Templates that embed each other are accepted.
- `Box<uint>` after `Box<int>` is `Box_int`. Errors found while instances are written
  are ignored.

### How the models were compared with the code

Besides being read against each other, two models were run against the compiled
sources: `Formatted` gave the formatter's own output on some eight thousand files
of the shapes above, and `Generics` the checker's verdicts and instances on about
a thousand random programs, except where `StackDepth` ends a program earlier. These
comparisons are not part of this directory.
