-------------------------------- MODULE Optimizer -------------------------------
(***************************************************************************)
(* The passes over the body of a function, in the order the compiler runs  *)
(* them.  Each rewrites the tree in place; nothing in them looks at types  *)
(* other than those of literals.                                           *)
(***************************************************************************)
EXTENDS Meaning

CONSTANTS
  Programs,  \* bodies that the type checker accepts
  Inputs,    \* values of the parameters
  Level,     \* optimization_level: 0, 1 or 2
  Self       \* the function's name

VARIABLES
  source,  \* the body as it was checked
  body,    \* as it is now
  stage    \* the pass that is next

vars == <<source, body, stage>>

--------------------------------------------------------------------------------
(* Unreachable statements                                                  *)

(* stmt_is_terminator                                                      *)
RECURSIVE IsTerminator(_)
IsTerminator(n) ==
  \/ n.k \in {"return", "break", "continue"}
  \/ n.k = "block" /\ \E i \in DOMAIN n.kids : IsTerminator(n.kids[i])
  \/ n.k = "if" /\ Len(n.kids) = 3 /\ IsTerminator(n.kids[2]) /\ IsTerminator(n.kids[3])

RECURSIVE WithoutUnreachable(_)
ReachableIn(n) ==
  LET inBlock(b) == IF b.k = "block" THEN [b EXCEPT !.kids = WithoutUnreachable(@)] ELSE b
  IN  CASE n.k = "block" -> inBlock(n)
        [] n.k \in {"if", "while"} -> [n EXCEPT !.kids = [i \in DOMAIN @ |-> inBlock(@[i])]]
        [] OTHER -> n
WithoutUnreachable(stmts) ==
  LET ends == {i \in DOMAIN stmts : IsTerminator(stmts[i])}
      kept == {i \in DOMAIN stmts : \A j \in ends : i <= j}
  IN  [i \in kept |-> ReachableIn(stmts[i])]

--------------------------------------------------------------------------------
(* Operations that do nothing                                              *)

IsNumber(e, n) == e.k = "lit" /\ e.t \in {"int", "double"} /\ e.v = n
IsUnary(e, op) == e.k = "un" /\ e.v = op
(* Mutant: minuends that are zero are dropped as summands are. *)
NoopEitherSide(e) ==
  LET l == e.kids[1] r == e.kids[2]
  IN  CASE e.k = "bin" /\ e.v \in {"+", "-"} /\ IsNumber(r, 0) -> l
        [] e.k = "bin" /\ e.v \in {"+", "-"} /\ IsNumber(l, 0) -> r
        [] e.k = "bin" /\ e.v \in {"*", "/"} /\ IsNumber(r, 1) -> l
        [] e.k = "bin" /\ e.v = "*" /\ IsNumber(l, 1) -> r
        [] e.k = "un" /\ e.v \in {"!", "-"} /\ IsUnary(l, e.v) -> l.kids[1]
        [] OTHER -> e

(* expr_is_noop: e, or the operand that stands for it.                     *)
Noop(e) ==
  LET l == e.kids[1] r == e.kids[2]
  IN  CASE e.k = "bin" /\ e.v \in {"+", "-"} /\ IsNumber(r, 0) -> l
        [] e.k = "bin" /\ e.v = "+" /\ IsNumber(l, 0) -> r
        [] e.k = "bin" /\ e.v \in {"*", "/"} /\ IsNumber(r, 1) -> l
        [] e.k = "bin" /\ e.v = "*" /\ IsNumber(l, 1) -> r
        [] e.k = "un" /\ e.v \in {"!", "-"} /\ IsUnary(l, e.v) -> l.kids[1]
        [] OTHER -> e

RECURSIVE WithoutNoops(_)
WithoutNoops(n) == Noop([n EXCEPT !.kids = [i \in DOMAIN @ |-> WithoutNoops(@[i])]])

--------------------------------------------------------------------------------
(* Unused variables                                                        *)

(* Mutant: what is only used in a lambda is not used. *)
RECURSIVE UsedOutsideLambdas(_)
UsedOutsideLambdas(n) ==
  (IF n.k = "var" THEN {n.v} ELSE {})
    \cup (IF n.k = "lambda" THEN {} ELSE UNION {UsedOutsideLambdas(n.kids[i]) : i \in DOMAIN n.kids})

(* collect_used_variables: the target of a plain assignment is no use.     *)
RECURSIVE Used(_)
Used(n) ==
  (IF n.k = "var" THEN {n.v} ELSE {}) \cup UNION {Used(n.kids[i]) : i \in DOMAIN n.kids}

(* Of the initializer only the outermost operation is looked at.           *)
HasSideEffects(init) == init.k \in {"call", "increment", "assign", "spawn", "sync"}
WithoutUnused(stmts) ==
  LET used == UNION {Used(stmts[i]) : i \in DOMAIN stmts}
  IN  SelectSeq(stmts, LAMBDA n :
        n.k = "decl" /\ n.v \notin used => n.kids # <<>> /\ HasSideEffects(n.kids[1]))

--------------------------------------------------------------------------------
(* String literals                                                         *)

IsText(e) == e.k = "lit" /\ e.t = "str"
AddPart(parts, e) ==
  IF parts # <<>> /\ IsText(e) /\ IsText(Last(parts))
  THEN [parts EXCEPT ![Len(parts)] = Text(@.v \o e.v)] ELSE Append(parts, e)
(* merge_interpolated_parts: the formats stay where they are.              *)
MergeParts(e) == [e EXCEPT !.kids = FoldLeft(AddPart, <<>>, e.kids)]

StringsBelow ==
  {"interp", "bin", "call", "un", "assign", "expr", "decl", "return", "block", "if", "while"}
Joined(e) ==
  LET l == e.kids[1] r == e.kids[2]
  IN  IF e.k = "bin" /\ e.v = "+" /\ IsText(l) /\ IsText(r) THEN Text(l.v \o r.v) ELSE e

(* optimize_string_expr, optimize_string_stmt                              *)
RECURSIVE StringsMerged(_)
StringsMerged(n) ==
  LET m == IF n.k = "interp" THEN MergeParts(n) ELSE n
  IN  IF n.k \notin StringsBelow THEN n
      ELSE Joined([m EXCEPT !.kids = [i \in DOMAIN @ |-> StringsMerged(@[i])]])

--------------------------------------------------------------------------------
(* Tail calls                                                              *)

(* Mutant: a call from inside a lock is marked too. *)
RECURSIVE MarkedInLocks(_)
MarkedInLocks(n) ==
  CASE n.k = "return" ->
         [n EXCEPT !.kids = [i \in DOMAIN @ |->
            IF @[i].k = "call" /\ @[i].v = Self THEN [@[i] EXCEPT !.t = "tail"] ELSE @[i]]]
    [] n.k \in {"block", "if", "lock"} -> [n EXCEPT !.kids = [i \in DOMAIN @ |-> MarkedInLocks(@[i])]]
    [] OTHER -> n

(* mark_tail_calls_in_stmt                                                 *)
RECURSIVE Marked(_)
Marked(n) ==
  CASE n.k = "return" ->
         [n EXCEPT !.kids = [i \in DOMAIN @ |->
            IF @[i].k = "call" /\ @[i].v = Self THEN [@[i] EXCEPT !.t = "tail"] ELSE @[i]]]
    [] n.k \in {"block", "if"} -> [n EXCEPT !.kids = [i \in DOMAIN @ |-> Marked(@[i])]]
    [] OTHER -> n

--------------------------------------------------------------------------------
Init == source \in Programs /\ body = source /\ stage = IF Level >= 1 THEN "unreachable" ELSE "done"

Pass(here, next, new) == stage = here /\ stage' = next /\ body' = new /\ UNCHANGED source
Each(f(_), stmts) == [i \in DOMAIN stmts |-> f(stmts[i])]

RemoveUnreachable == Pass("unreachable", "noops", WithoutUnreachable(body))
SimplifyNoops == Pass("noops", "unused", Each(WithoutNoops, body))
RemoveUnused == Pass("unused", "strings", WithoutUnused(body))
MergeStrings ==
  Pass("strings", IF Level >= 2 THEN "tails" ELSE "done", Each(StringsMerged, body))
MarkTailCalls == Pass("tails", "done", Each(Marked, body))
Done == stage = "done" /\ UNCHANGED vars

Next == RemoveUnreachable \/ SimplifyNoops \/ RemoveUnused \/ MergeStrings \/ MarkTailCalls \/ Done
Spec == Init /\ [][Next]_vars

--------------------------------------------------------------------------------
(* Programs by what is in them                                             *)

RECURSIVE Below(_)
Below(n) == {n} \cup UNION {Below(n.kids[i]) : i \in DOMAIN n.kids}
Nodes == UNION {Below(source[i]) : i \in DOMAIN source}
Params == DOMAIN (CHOOSE i \in Inputs : TRUE)

(* No variable is only assigned to, reads that are never come to aside.   *)
WrittenIsRead ==
  \A n \in Nodes : n.k = "assign" =>
    \E i \in DOMAIN WithoutUnreachable(source) : n.v \in Used(WithoutUnreachable(source)[i])
(* An operation of a double and an integer is no operation that does       *)
(* nothing, nor is adding a number to a string.                            *)
OneType ==
  \A n \in Nodes : n.k = "bin" =>
    /\ \A i \in {1, 2} : ~(n.kids[i].k = "lit" /\ n.kids[i].t = "double")
    /\ ~(n.kids[1].k \in {"lit", "bin"} /\ IsText(n.kids[1]) /\ n.kids[2].k = "lit" /\ n.kids[2].t # "str")
(* An initializer that does something is a call or an assignment.          *)
Effects(e) == \E n \in Below(e) : n.k \in {"call", "assign", "compound"} \/ (n.k = "bin" /\ n.v = "/")
EffectsOutermost ==
  \A n \in Nodes : n.k = "decl" =>
    HasSideEffects(n.kids[1]) \/ ~Effects(n.kids[1])
(* A format is not behind two literals in a row.                           *)
PlainParts ==
  \A n \in Nodes : n.k = "interp" => \A i \in DOMAIN n.v : n.v[i] # "" =>
    \A j \in 1..i - 2 : ~(IsText(n.kids[j]) /\ IsText(n.kids[j + 1]))

--------------------------------------------------------------------------------
(* Properties                                                              *)

(* After every pass the body does, ends and gives what it did before.      *)
SameMeaning ==
  WrittenIsRead /\ OneType /\ EffectsOutermost /\ PlainParts =>
    \A input \in Inputs : Seen(body, input) = Seen(source, input)

(* Every variable the body still mentions it still declares, in what is    *)
(* never run too.                                                          *)
StaysClosed == WrittenIsRead => FreeInOrder(body, Params) = {}

(* A marked call is the last thing its function does.                      *)
TailIsLast ==
  \A input \in Inputs :
    LET s == Run(body, input) IN \A k \in s.tails : k = Len(s.trace) /\ s.out = "return"

(* The same of every program, also of those that mix types.                *)
MeaningKept == \A input \in Inputs : Seen(body, input) = Seen(source, input)

(* "Conservative: assume function calls and thread operations have side    *)
(* effects": no call is removed.                                           *)
CallsKept ==
  WrittenIsRead /\ OneType /\ PlainParts =>
    \A input \in Inputs : CallsSeen(body, input) = CallsSeen(source, input)
================================================================================
