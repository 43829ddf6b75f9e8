------------------------------ MODULE StatementRules ---------------------------
(***************************************************************************)
(* The parser of statements and blocks, written like ExpressionRules.      *)
(***************************************************************************)
EXTENDS ExpressionRules

(* A semicolon, of which a second one is taken too, or a token of stops.   *)
Terminator(stops) ==
  CASE cur = ";" -> <<Advance, Match(";")>>
    [] cur \in stops -> <<>>
    [] OTHER -> <<Consume(";")>>
LineEnds == {"NEWLINE", "EOF"}

(* A name, or whatever stands in its place.                                *)
Name(besides) ==
  IF cur \in Identifiers \cup besides THEN <<Advance>> ELSE <<ErrorAtCurrent, Advance>>

Optional(token, function) == IF cur = token THEN <<Advance, Do(function)>> ELSE <<>>

--------------------------------------------------------------------------------
(* parser_execute: the module.                                             *)
Execute(e) ==
  CASE e[2] = "loop" -> IF cur = "EOF" THEN <<>> ELSE <<Newlines, <<"execute", "declaration">>>>
    [] e[2] = "declaration" ->
         IF cur = "EOF" THEN <<>> ELSE <<Do("declaration"), <<"execute", "next">>>>
    [] e[2] = "next" -> (IF panic THEN <<Do("synchronize")>> ELSE <<>>) \o <<<<"execute", "loop">>>>

Restarting == {"fn", "var", "for", "if", "while", "return", "import", "else"}

(* Mutant: panic_mode is not left.                                         *)
SynchronizeInPanic(e) ==
  CASE e[2] = "start" -> <<<<"synchronize", "seek">>>>
    [] e[2] = "seek" ->
         IF cur = "EOF" \/ prev \in {";", "NEWLINE"} \/ cur \in Restarting
           THEN <<>> ELSE <<Advance, e>>

Synchronize(e) ==
  CASE e[2] = "start" -> <<<<"calm">>, <<"synchronize", "seek">>>>
    [] e[2] = "seek" ->
         IF cur = "EOF" \/ prev \in {";", "NEWLINE"} \/ cur \in Restarting
           THEN <<>> ELSE <<Advance, e>>

(* parser_indented_block.  A block is open as long as the lexer's levels   *)
(* reach its own; an error takes the lexer back to the first level.        *)
Block(e) ==
  CASE e[2] = "start" ->
         CASE cur = "COMMENT" -> <<Advance, Newlines, e>>
           [] cur = "INDENT" -> <<Advance, <<"block", "enter">>>>
           [] OTHER -> <<Error>>
    [] e[2] = "enter" -> <<<<"block", "loop", Last(lx.indents)>>>>
    [] e[2] = "loop" ->
         IF cur # "EOF" /\ Last(lx.indents) >= e[3]
           THEN <<Newlines, <<"block", "declaration", e[3]>>>>
           ELSE <<<<"block", "close", e[3]>>>>
    [] e[2] = "declaration" ->
         IF cur \in {"DEDENT", "EOF"} THEN <<<<"block", "close", e[3]>>>>
         ELSE <<Do("declaration"), <<"block", "next", e[3]>>>>
    [] e[2] = "next" -> (IF panic THEN <<Do("synchronize")>> ELSE <<>>)
                        \o <<<<"block", "loop", e[3]>>>>
    [] e[2] = "close" -> CASE cur = "DEDENT" -> <<Advance>>
                           [] cur # "DEDENT" /\ Last(lx.indents) < e[3] -> <<Error>>
                           [] OTHER -> <<>>

(* The body of a control statement: a block, or a statement, on which a    *)
(* block may follow.                                                       *)
Body(e) ==
  CASE e[2] = "start" -> <<SkipNewlines, <<"body", "kind">>>>
    [] e[2] = "kind" -> IF cur = "INDENT" THEN <<Do("block")>>
                        ELSE <<Do("statement"), SkipNewlines, <<"body", "more">>>>
    [] e[2] = "more" -> IF cur = "INDENT" THEN <<Do("block")>> ELSE <<>>

--------------------------------------------------------------------------------
Statement(e) ==
  CASE e[2] = "start" -> <<Newlines, <<"statement", "kind">>>>
    [] e[2] = "kind" ->
         CASE cur = "EOF" -> <<Error>>
           [] cur = "var" -> <<Advance, Do("var_declaration")>>
           [] cur = "sync" -> <<Advance, <<"statement", "var">>>>
           [] cur \in {"if", "while", "for", "return"} -> <<Advance, Do(cur)>>
           [] cur \in {"break", "continue"} -> <<Advance, <<"statement", "end">>>>
           [] cur = "using" -> <<Advance, Consume("id"), Consume("="), Do("expression"),
                                 Consume("=>"), SkipNewlines, Do("block")>>
           [] cur = "lock" -> <<<<"peek", 1, "statement", "lock">>>>
           [] OTHER -> <<Do("expression_statement")>>
    [] e[2] = "var" ->
         <<IF cur = "var" THEN Advance ELSE ErrorAtCurrent>>
         \o (IF cur = "var" THEN <<Do("var_declaration")>> ELSE <<>>)
    [] e[2] = "end" -> <<IF cur = ";" THEN Advance ELSE Consume("NEWLINE")>>
    [] e[2] = "lock" -> IF e[3] = "(" THEN <<<<"peek", 2, "statement", "locked">>>>
                        ELSE <<<<"statement", "locked", "(">>>>
    [] e[2] = "locked" ->
         IF e[3] = ")" THEN <<Do("expression_statement")>>
         ELSE <<Advance, Consume("("), Do("expression"), Consume(")"), Consume("=>"),
                SkipNewlines, Do("block")>>

(* A match expression has closed its own lines.                            *)
ExpressionEnd ==
  IF ret = "match" THEN <<Match("NEWLINE")>> ELSE Terminator(LineEnds \cup {"DEDENT"})

ExpressionStatement(e) ==
  CASE e[2] = "start" -> <<Do("expression"), <<"expression_statement", "end">>>>
    [] e[2] = "end" -> ExpressionEnd

ReturnStatement(e) ==
  CASE e[2] = "start" ->
         (IF cur \in LineEnds \cup {";"} THEN <<Return("null")>> ELSE <<Do("expression")>>)
         \o <<<<"return", "end">>>>
    [] e[2] = "end" -> ExpressionEnd

IfStatement(e) ==
  CASE e[2] = "start" -> <<Do("expression"), Consume("=>"), Do("body"), SkipNewlines,
                           <<"if", "else">>>>
    [] e[2] = "else" -> IF cur = "else" THEN <<Advance, <<"if", "otherwise">>>> ELSE <<>>
    [] e[2] = "otherwise" ->
         IF cur = "if" THEN <<Advance, Do("if")>> ELSE <<Consume("=>"), Do("body")>>

WhileStatement(e) == <<Do("expression"), Consume("=>"), Do("body")>>

ForStatement(e) ==
  LET clauses == <<Consume(";"), <<"for", "condition">>>>
  IN  CASE e[2] = "start" ->
             CASE cur \in Identifiers -> <<Advance, <<"for", "named">>>>
               [] cur = "var" -> <<Advance, <<"for", "var">>>>
               [] cur = ";" -> clauses
               [] OTHER -> <<Do("expression")>> \o clauses
        [] e[2] = "named" ->
             IF cur = "in" THEN <<Advance, Do("expression"), Consume("=>"), Do("body")>>
             ELSE Optional("=", "expression") \o clauses
        [] e[2] = "var" -> Name({"val"}) \o <<Consume(":"), Do("type"), <<"for", "init">>>>
        [] e[2] = "init" -> Optional("=", "expression") \o clauses
        [] e[2] = "condition" -> (IF cur = ";" THEN <<>> ELSE <<Do("expression")>>)
                                 \o <<Consume(";"), <<"for", "increment">>>>
        [] e[2] = "increment" -> (IF cur = "=>" THEN <<>> ELSE <<Do("expression")>>)
                                 \o <<Consume("=>"), Do("body")>>

(* What may follow a declaration without a terminator: after the block of  *)
(* a lambda the next statement comes at once.                              *)
Followers == Identifiers \cup {"var", "fn", "if", "while", "for", "return", "break", "continue",
                               "DEDENT", "EOF"}

VarDeclaration(e) ==
  LET at(label) == <<"var_declaration", label, e[3]>>
  IN  CASE e[2] = "start" -> Name({"val"}) \o <<<<"var_declaration", "type">>>>
        [] e[2] = "type" -> IF cur = ":" THEN <<Advance, Do("type"), <<"var_declaration", "typed">>>>
                            ELSE <<<<"var_declaration", "init", "none">>>>
        [] e[2] = "typed" -> <<Do("qualifier"), <<"var_declaration", "init", ret>>>>
        [] e[2] = "init" ->
             IF cur = "=" THEN <<Advance, Infer(e[3] \in {"T", "generic"}), Do("expression"),
                                 Infer(FALSE), at("made")>>
             ELSE <<Return("null"), at("made")>>
        [] e[2] = "made" -> (IF ret = "null" /\ e[3] = "none" THEN <<ErrorAtCurrent>> ELSE <<>>)
                            \o <<at("end")>>
        [] e[2] = "end" -> CASE cur \in {";", "NEWLINE"} -> <<Advance>>
                             [] cur \in Followers -> <<>>
                             [] OTHER -> <<Consume(";")>>
================================================================================
