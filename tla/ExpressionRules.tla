----------------------------- MODULE ExpressionRules ---------------------------
(***************************************************************************)
(* The parser of expressions and types: for each function of it, the work  *)
(* left to be done from each of its labels on.  A rule reads the current   *)
(* token and what the last call returned, and changes nothing.             *)
(***************************************************************************)
EXTENDS ParserState

Do(function) == <<function, "start">>

(* A node is NULL when its parts are.                                      *)
Node(kind, part) == IF part = "null" THEN "null" ELSE kind
Build(kind, left) == <<"build", kind, left>>
BuildRule(e) == <<Return(Node(Node(e[2], e[3]), ret))>>

List(item) == <<Do(item), <<"more", item>>>>
MoreRule(e) == IF cur = "," THEN <<Advance>> \o List(e[2]) ELSE <<>>
ListUnless(closers, item) == IF cur \in closers THEN <<>> ELSE List(item)

Angles == {">", ">>"}
Sizeable == TypeWords \cup {"*"}

--------------------------------------------------------------------------------
Expression(e) ==
  CASE e[2] = "start" -> <<Do("assignment"), <<"expression", "made">>>>
    [] e[2] = "made" -> IF ret = "null" THEN <<ErrorAtCurrent, Advance>> ELSE <<>>

(* The kinds of operators, the loosest first; a range takes one operand on *)
(* each side.  Operators of the levels e[2] to e[3] may follow.            *)
Levels == << {"||"}, {"&&"}, {"|"}, {"^"}, {"&"}, {"!=", "=="}, {"<", "<=", ">", ">="},
             {"<<", ">>"}, {".."}, {"+", "-"}, {"*", "/", "%"} >>
RangeLevel == 9
TermLevel == 10
OperatorsFrom(level) == <<Do("unary"), <<"operators", level, Len(Levels)>>>>
Term == OperatorsFrom(TermLevel)

Operators(e) ==
  LET levels == {j \in e[2]..e[3] : cur \in Levels[j]}
  IN  IF levels = {} THEN <<>>
      ELSE LET j == CHOOSE i \in levels : TRUE
           IN  <<Advance>> \o OperatorsFrom(j + 1)
               \o <<Build("value", ret),
                    <<"operators", e[2], IF j = RangeLevel THEN j - 1 ELSE j>>>>

CompoundOperators == {"+=", "-=", "*=", "/=", "%=", "&=", "|=", "^=", "<<=", ">>="}

Assignment(e) ==
  CASE e[2] = "start" -> OperatorsFrom(1) \o <<<<"assignment", "equals">>>>
    [] e[2] = "equals" ->
         IF cur = "=" THEN <<Advance, Do("assignment"), <<"assignment", "target", ret>>>>
         ELSE <<<<"assignment", "compound">>>>
    [] e[2] = "target" ->
         CASE e[3] = "null" -> <<Crash>>
           [] e[3] \in {"var", "index", "member"} -> <<Build("value", e[3])>>
           [] OTHER -> <<Error, Return(e[3]), <<"assignment", "compound">>>>
    [] e[2] = "compound" ->
         IF cur \in CompoundOperators
           THEN <<Advance, Do("assignment"), Build("value", ret)>> ELSE <<>>

(* Suffixes: a call, an access and a member.                               *)
Suffix ==
  <<Advance, CASE cur = "(" -> <<"call", ret>>
               [] cur = "[" -> <<"array_access", "start", ret>>
               [] cur = "." -> <<"access", ret>>>>

Call(e) ==
  ListUnless({")"}, "expression") \o <<Consume(")"), Return(Node("call", e[2]))>>

MemberAccess(e) ==
  (IF cur \in MethodNames THEN <<>> ELSE <<ErrorAtCurrent>>)
  \o <<Advance, Return(Node("member", e[2]))>>

ArrayAccess(e) ==
  CASE e[2] = "start" -> IF cur = ".." THEN <<Advance, <<"array_access", "end", e[3]>>>>
                         ELSE Term \o <<<<"array_access", "index", e[3]>>>>
    [] e[2] = "index" -> IF cur = ".." THEN <<Advance, <<"array_access", "end", e[3]>>>>
                         ELSE <<Consume("]"), Build("index", e[3])>>
    [] e[2] = "end" ->
         (IF cur \in {"]", ":"} THEN <<>> ELSE Term) \o <<<<"array_access", "step", e[3]>>>>
    [] e[2] = "step" ->
         (IF cur = ":" THEN <<Advance>> \o Term ELSE <<>>)
         \o <<Consume("]"), Return(Node("value", e[3]))>>

Unary(e) ==
  CASE e[2] = "start" ->
         CASE cur \in {"!", "-", "~"} -> <<Advance, Do("unary"), Build("value", "value")>>
           [] cur = "sizeof" -> <<Advance, <<"unary", "sizeof">>>>
           [] cur = "&" -> <<Advance, Do("primary"), <<"unary", "spawn">>>>
           [] OTHER -> <<Do("postfix")>>
    [] e[2] = "sizeof" -> IF cur = "(" THEN <<Advance, <<"unary", "operand", <<Consume(")")>>>>>>
                          ELSE <<<<"unary", "operand", <<>>>>>>
    [] e[2] = "operand" ->
         (IF cur \in Sizeable \/ KnownStruct(cur) THEN <<Do("type")>> ELSE <<Do("unary")>>)
         \o e[3] \o <<Build("value", "value")>>
    [] e[2] = "spawn" ->
         IF ret = "null" THEN <<Error, Return("null")>> ELSE <<<<"unary", "spawned">>>>
    [] e[2] = "spawned" ->
         CASE cur \in {"(", "[", "."} -> Suffix \o <<<<"unary", "spawned">>>>
           [] ret = "null" -> <<Crash>>
           [] ret # "call" -> <<Error, Return("null")>>
           [] OTHER -> <<Match("!"), Return("value")>>

Postfix(e) ==
  CASE e[2] = "start" -> <<Do("primary"), <<"postfix", "suffix">>>>
    [] e[2] = "suffix" ->
         CASE cur \in {"(", "[", "."} -> Suffix \o <<e>>
           [] cur \in {"++", "--", "~"} -> <<Advance, Build("value", ret), e>>
           [] cur = "!" -> IF ret = "null" THEN <<Crash>> ELSE <<Advance, Return("value"), e>>
           [] cur = "NEWLINE" -> <<<<"peek", 1, "continuation", "newline">>>>
           [] OTHER -> <<Do("continuation_dedents")>>

(* Mutant: the level a chain opens is not counted.                         *)
ContinuationUncounted(e) ==
  LET again == <<"postfix", "suffix">>
      no == Do("continuation_dedents")
  IN  CASE e[2] = "newline" ->
             CASE e[3] = "." -> <<Advance, again>>
               [] e[3] = "INDENT" -> <<Advance, <<"peek", 1, "continuation", "indent", prev>>>>
               [] OTHER -> <<no>>
        [] e[2] = "indent" -> IF e[4] = "." THEN <<Advance, again>> ELSE <<PutBack(e[3]), no>>

(* skip_whitespace_for_continuation.  What is put back when no dot follows *)
(* an indentation are the parser's two tokens, not the place in the text.  *)
Continuation(e) ==
  LET again == <<"postfix", "suffix">>
      no == Do("continuation_dedents")
  IN  CASE e[2] = "newline" ->
             CASE e[3] = "." -> <<Advance, again>>
               [] e[3] = "INDENT" -> <<Advance, <<"peek", 1, "continuation", "indent", prev>>>>
               [] OTHER -> <<no>>
        [] e[2] = "indent" ->
             IF e[4] = "." THEN <<Advance, Deeper(1), again>> ELSE <<PutBack(e[3]), no>>

ContinuationDedents(e) ==
  CASE e[2] = "start" ->
         IF cont = 0 THEN <<>> ELSE <<Newlines, <<"continuation_dedents", "level">>>>
    [] e[2] = "level" -> IF cur = "DEDENT" THEN <<Advance, Deeper(-1), Do("continuation_dedents")>>
                         ELSE <<>>

--------------------------------------------------------------------------------
(* inferred_type is for this primary alone.  typeOf stands for the four    *)
(* intrinsic functions.                                                    *)
Primary(e) ==
  CASE e[2] = "start" -> <<Infer(FALSE), <<"primary", "of", inferred>>>>
    [] e[2] = "of" ->
         CASE cur \in Literals -> <<Advance, Return("value")>>
           [] cur = "fn" -> <<Advance, Do("lambda")>>
           [] cur \in Identifiers \cup {"lock", "val"} -> <<Advance, Do("primary_name")>>
           [] cur = "(" -> <<Advance, Do("expression"), Consume(")")>>
           [] cur = "{" -> IF e[3] THEN <<Do("struct_literal")>>
                           ELSE <<Advance, Do("array_literal")>>
           [] cur = "[" -> <<Advance, Do("sync_list")>>
           [] cur = "$str" -> <<Advance, Do("interpolated")>>
           [] cur = "match" -> <<Advance, Do("match_expression")>>
           [] OTHER -> <<ErrorAtCurrent, Return("value")>>

PrimaryName(e) ==
  CASE e[2] = "start" ->
         CASE cur = "(" /\ prev = "typeOf" ->
                <<Advance, Do("expression"), Consume(")"), Build("value", "value")>>
           [] cur = "<" /\ KnownStruct(prev) -> <<Advance, <<"primary_name", "arguments">>>>
           [] cur \in {"{", "."} /\ KnownStruct(prev) -> <<<<"primary_name", "literal">>>>
           [] OTHER -> <<Return("var")>>
    [] e[2] = "arguments" -> ListUnless(Angles, "type") \o <<<<"primary_name", "close">>>>
    [] e[2] = "close" -> (IF cur \in Angles THEN <<CloseGeneric>> ELSE <<>>)
                         \o <<<<"primary_name", IF cur \in Angles THEN "literal" ELSE "neither">>>>
    [] e[2] = "literal" -> CASE cur = "{" -> <<Do("struct_literal")>>
                             [] cur = "." -> <<Do("static_call")>>
                             [] OTHER -> <<<<"primary_name", "neither">>>>
    [] e[2] = "neither" -> <<ErrorAtCurrent, Return("null")>>

ArrayLiteral(e) ==
  CASE e[2] = "start" -> <<PassLayout, <<"array_literal", "elements">>>>
    [] e[2] = "elements" ->
         ListUnless({"}"}, "element") \o <<PassLayout, Consume("}"), Return("value")>>

Element(e) ==
  CASE e[2] = "start" -> <<PassLayout, <<"element", "spread">>>>
    [] e[2] = "spread" -> (IF cur = "..." THEN <<Advance>> ELSE <<>>) \o <<Do("expression")>>

SyncList(e) == ListUnless({"]"}, "expression") \o <<Consume("]"), Return("value")>>

StructLiteral(e) ==
  LET close == <<PassLayout, Consume("}"), Return("value")>>
  IN  CASE e[2] = "start" -> <<Advance, PassLayout, <<"struct_literal", "fields">>>>
        [] e[2] = "fields" ->
             IF cur = "}" THEN close ELSE <<PassLayout, <<"struct_literal", "field">>>>
        [] e[2] = "field" ->
             IF cur \in Identifiers
               THEN <<Advance, Consume(":"), Do("expression"), <<"struct_literal", "value">>>>
               ELSE <<ErrorAtCurrent>> \o close
        [] e[2] = "value" ->
             CASE ret = "null" -> <<Error>> \o close
               [] cur = "," -> <<Advance, PassLayout, <<"struct_literal", "field">>>>
               [] OTHER -> close

StaticCall(e) ==
  LET missing == <<ErrorAtCurrent, Return("null")>>
  IN  CASE e[2] = "start" -> <<Advance, <<"static_call", "method">>>>
        [] e[2] = "method" ->
             IF cur \in MethodNames THEN <<Advance, <<"static_call", "paren">>>> ELSE missing
        [] e[2] = "paren" -> IF cur = "(" THEN <<Advance, <<"call", "call">>>> ELSE missing

(* What stands between the braces is parsed by a parser of its own.        *)
Interpolated(e) == <<<<"interpolate">>>>

--------------------------------------------------------------------------------
(* The arms' loop also stops when an arm consumed nothing; it never does   *)
(* without an error.                                                       *)
MatchExpression(e) ==
  LET at(label) == <<"match_expression", label, e[3]>>
      close == <<Match("DEDENT"), Return(Node("match", e[3]))>>
      over == cur \in {"DEDENT", "EOF"}
  IN  CASE e[2] = "start" -> <<Do("expression"), <<"match_expression", "subject">>>>
        [] e[2] = "subject" -> <<Consume("=>"), Newlines, <<"match_expression", "open", ret>>>>
        [] e[2] = "open" ->
             IF cur = "INDENT" THEN <<Advance, at("arm")>> ELSE <<Error, Return(e[3])>>
        [] e[2] = "arm" -> IF over THEN close ELSE <<Newlines, at("pattern")>>
        [] e[2] = "pattern" ->
             CASE over -> close
               [] cur = "else" -> <<Advance, at("arrow")>>
               [] OTHER -> <<Do("expression"), at("patterns")>>
        [] e[2] = "patterns" ->
             CASE panic -> close
               [] cur = "," -> <<Advance, Do("expression"), at("patterns")>>
               [] OTHER -> <<at("arrow")>>
        [] e[2] = "arrow" -> <<Consume("=>"), at("body")>>
        [] e[2] = "body" ->
             CASE panic -> close
               [] cur = "NEWLINE" -> <<Newlines, at("lines")>>
               [] OTHER -> <<Do("statement"), at("next")>>
        [] e[2] = "lines" -> <<Do(IF cur = "INDENT" THEN "block" ELSE "statement"), at("next")>>
        [] e[2] = "next" -> IF panic THEN close ELSE <<at("arm")>>

LambdaParameter(e) ==
  CASE e[2] = "start" -> (IF cur = "val" THEN <<Advance>> ELSE <<Consume("id")>>)
                         \o <<<<"lambda_parameter", "type">>>>
    [] e[2] = "type" ->
         (IF cur = ":" THEN <<Advance, Do("type")>> ELSE <<>>) \o <<Do("qualifier")>>

(* Between brackets the body of a lambda is read again, as if there were   *)
(* none, when it begins on a line of its own.                              *)
Lambda(e) ==
  LET body == <<Do("expression"), Build("value", "value")>>
  IN  CASE e[2] = "start" -> <<Consume("("), <<"lambda", "parameters">>>>
        [] e[2] = "parameters" ->
             ListUnless({")"}, "lambda_parameter") \o <<Consume(")"), <<"lambda", "returns">>>>
        [] e[2] = "returns" -> (IF cur = ":" THEN <<Advance, Do("type")>> ELSE <<>>)
                               \o <<Consume("=>"), <<"lambda", "body">>>>
        [] e[2] = "body" ->
             CASE cur = "NEWLINE" -> <<SkipNewlines, <<"lambda", "block">>>>
               [] lx.depth > 0 /\ fresh -> <<Relex, <<"lambda", "relexed", lx.depth, BodyText>>>>
               [] OTHER -> body
        [] e[2] = "block" -> IF cur = "INDENT" THEN <<Do("block"), Return("value")>>
                             ELSE <<Error, Return("null")>>
        [] e[2] = "relexed" ->
             (IF cur = "NEWLINE" THEN <<SkipNewlines>> ELSE <<>>)
             \o <<<<"lambda", IF cur = "NEWLINE" THEN "reblock" ELSE "unlex", e[3], e[4]>>>>
        [] e[2] = "reblock" -> IF cur = "INDENT" THEN <<Do("block"), SetDepth(e[3]), Return("value")>>
                               ELSE <<<<"lambda", "unlex", e[3], e[4]>>>>
        [] e[2] = "unlex" -> <<Unlex(e[3], e[4])>> \o body

--------------------------------------------------------------------------------
(* A type is "T" when it is a struct declared so far, "S" when it is a     *)
(* name that may yet become one, "generic" when it is a T with arguments,  *)
(* "ptr", or any other, "type".                                            *)
NamedType(name) ==
  CASE KnownStruct(name) -> "T"
    [] name \in TypeNames /\ names[name] \in {"interface", "alias"} -> "type"
    [] OTHER -> "S"

Type(e) ==
  CASE e[2] = "start" ->
         CASE cur = "*" -> <<Advance, Do("type"), Return("ptr")>>
           [] cur = "(" -> <<Advance, Do("type"), Consume(")"), <<"type", "generic">>>>
           [] cur = "fn" -> <<Advance, Do("function_type"), <<"type", "suffix">>>>
           [] cur \in TypeWords -> <<Advance, Return("type"), <<"type", "suffix">>>>
           [] cur \in Identifiers -> <<Advance, <<"type", "named">>>>
           [] OTHER -> <<ErrorAtCurrent, Return("type")>>
    [] e[2] = "named" -> IF cur = "." THEN <<Advance, <<"type", "qualified">>>>
                         ELSE <<Return(NamedType(prev)), <<"type", "generic">>>>
    [] e[2] = "qualified" ->
         IF cur \in Identifiers THEN <<Advance, Return("S"), <<"type", "generic">>>>
         ELSE <<ErrorAtCurrent, Return("type")>>
    [] e[2] = "generic" -> IF cur = "<" /\ ret \in {"T", "S"}
                             THEN <<Advance, <<"type", "arguments", ret>>>>
                             ELSE <<<<"type", "suffix">>>>
    [] e[2] = "arguments" ->
         ListUnless(Angles, "type")
         \o <<CloseGeneric, Return(IF e[3] = "T" THEN "generic" ELSE "type"),
              <<"type", "suffix">>>>
    [] e[2] = "suffix" -> IF cur = "[" THEN <<Advance, <<"type", "size", ret>>>> ELSE <<>>
    [] e[2] = "size" -> IF cur = "]" THEN <<Advance, Return("type"), <<"type", "suffix">>>>
                        ELSE <<Do("expression"), <<"type", "sized", e[3]>>>>
    [] e[2] = "sized" -> (IF ret # "null" /\ cur = "]" THEN <<Advance>> ELSE <<ErrorAtCurrent>>)
                         \o <<Return(e[3])>>

FunctionType(e) ==
  CASE e[2] = "start" -> <<Consume("("), <<"function_type", "parameters">>>>
    [] e[2] = "parameters" ->
         ListUnless({")"}, "type")
         \o <<Consume(")"), Consume(":"), Do("type"), Return("type")>>

Qualifier(e) ==
  CASE e[2] = "start" -> IF cur = "as" THEN <<Advance, <<"qualifier", "kind">>>> ELSE <<>>
    [] e[2] = "kind" -> <<IF cur \in {"val", "ref"} THEN Advance ELSE ErrorAtCurrent>>
================================================================================
