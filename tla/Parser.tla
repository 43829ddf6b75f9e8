--------------------------------- MODULE Parser --------------------------------
(***************************************************************************)
(* Lexer and parser at work on a file that is written as it is read: the   *)
(* primitives of ParserState and the functions of the rule modules.        *)
(***************************************************************************)
EXTENDS DeclarationRules

ExpressionWork(e) ==
  CASE e[1] = "expression" -> Expression(e)
    [] e[1] = "assignment" -> Assignment(e)
    [] e[1] = "operators" -> Operators(e)
    [] e[1] = "unary" -> Unary(e)
    [] e[1] = "postfix" -> Postfix(e)
    [] e[1] = "call" -> Call(e)
    [] e[1] = "access" -> MemberAccess(e)
    [] e[1] = "array_access" -> ArrayAccess(e)
    [] e[1] = "continuation" -> Continuation(e)
    [] e[1] = "continuation_dedents" -> ContinuationDedents(e)
    [] e[1] = "primary" -> Primary(e)
    [] e[1] = "primary_name" -> PrimaryName(e)
    [] e[1] = "array_literal" -> ArrayLiteral(e)
    [] e[1] = "element" -> Element(e)
    [] e[1] = "sync_list" -> SyncList(e)
    [] e[1] = "struct_literal" -> StructLiteral(e)
    [] e[1] = "static_call" -> StaticCall(e)
    [] e[1] = "interpolated" -> Interpolated(e)
    [] e[1] = "match_expression" -> MatchExpression(e)
    [] e[1] = "lambda" -> Lambda(e)
    [] e[1] = "lambda_parameter" -> LambdaParameter(e)
    [] e[1] = "type" -> Type(e)
    [] e[1] = "function_type" -> FunctionType(e)
    [] e[1] = "qualifier" -> Qualifier(e)
    [] e[1] = "build" -> BuildRule(e)
    [] e[1] = "more" -> MoreRule(e)

StatementWork(e) ==
  CASE e[1] = "execute" -> Execute(e)
    [] e[1] = "synchronize" -> Synchronize(e)
    [] e[1] = "block" -> Block(e)
    [] e[1] = "body" -> Body(e)
    [] e[1] = "statement" -> Statement(e)
    [] e[1] = "expression_statement" -> ExpressionStatement(e)
    [] e[1] = "return" -> ReturnStatement(e)
    [] e[1] = "if" -> IfStatement(e)
    [] e[1] = "while" -> WhileStatement(e)
    [] e[1] = "for" -> ForStatement(e)
    [] e[1] = "var_declaration" -> VarDeclaration(e)

DeclarationWork(e) ==
  CASE e[1] = "declaration" -> Declaration(e)
    [] e[1] = "function" -> FunctionDeclaration(e)
    [] e[1] = "native" -> NativeFunction(e)
    [] e[1] = "type_parameters" -> TypeParameters(e)
    [] e[1] = "parameter" -> Parameter(e)
    [] e[1] = "signature" -> Signature(e)
    [] e[1] = "function_body" -> FunctionBody(e)
    [] e[1] = "method" -> Method(e)
    [] e[1] = "struct" -> Struct(e)
    [] e[1] = "member" -> Member(e)
    [] e[1] = "modifiers" -> Modifiers(e)
    [] e[1] = "modified" -> Modified(e)
    [] e[1] = "method_name" -> MethodName(e)
    [] e[1] = "skip_line" -> SkipLine(e)
    [] e[1] = "skip_block" -> SkipBlock(e)
    [] e[1] = "interface" -> Interface(e)
    [] e[1] = "type_declaration" -> TypeDeclaration(e)
    [] e[1] = "native_type" -> NativeFunctionType(e)
    [] e[1] = "native_parameter" -> NativeParameter(e)
    [] e[1] = "pragma" -> Pragma(e)
    [] e[1] = "pack" -> Pack(e)
    [] e[1] = "alias" -> Alias(e)
    [] e[1] = "import" -> Import(e)

ExpressionFunctions ==
  {"expression", "assignment", "operators", "unary", "postfix", "call", "access", "array_access",
   "continuation", "continuation_dedents", "primary", "primary_name", "array_literal", "element",
   "sync_list", "struct_literal", "static_call", "interpolated", "match_expression", "lambda",
   "lambda_parameter", "type", "function_type", "qualifier", "build", "more"}
StatementFunctions ==
  {"execute", "synchronize", "block", "body", "statement", "expression_statement", "return",
   "if", "while", "for", "var_declaration"}
DeclarationFunctions ==
  {"declaration", "function", "native", "type_parameters", "parameter", "signature",
   "function_body", "method", "struct", "member", "modifiers", "modified", "method_name",
   "skip_line", "skip_block", "interface", "type_declaration", "native_type",
   "native_parameter", "pragma", "pack", "alias", "import"}

Works(functions) == stack # <<>> /\ cur \notin {"MORE", "DROP"} /\ Top[1] \in functions

ExpressionStep ==
  /\ Works(ExpressionFunctions)
  /\ Then(ExpressionWork(Top)) /\ Quiet /\ UNCHANGED others
StatementStep ==
  /\ Works(StatementFunctions)
  /\ Then(StatementWork(Top)) /\ Quiet /\ UNCHANGED others
DeclarationStep ==
  /\ Works(DeclarationFunctions)
  /\ Then(DeclarationWork(Top)) /\ Quiet /\ UNCHANGED others

Parses == ExpressionStep \/ StatementStep \/ DeclarationStep
Reads == DoAdvance \/ DoConsume \/ DoMatch \/ DoPass \/ DoSkipNewlines \/ DoSkippedNewline
         \/ DoCloseGeneric \/ DoPeek \/ DoPutBack \/ DoRelex \/ DoUnlex \/ DoSetDepth
Notes == DoError \/ DoErrorAtCurrent \/ DoCalm \/ DoReturn \/ DoEnd \/ DoLeave \/ DoCrash
         \/ DoDeeper \/ DoInfer \/ DoSerializable \/ DoAlias \/ DoDeclare \/ DoImported
         \/ DoInterpolate

Done == stack = <<>>
Finished == Done /\ UNCHANGED vars

Next == Lex \/ Parses \/ Reads \/ Notes \/ Write \/ EndOfFile \/ Finished

(* The parser is one process that is never preempted for good, and a file  *)
(* has an end.                                                             *)
FairSpec == Init /\ [][Next]_vars /\ WF_vars(Next)

--------------------------------------------------------------------------------
(* A block is open from its INDENT to its DEDENT.                          *)
Open(e) ==
  \/ e[1] = "block" /\ e[2] \in {"loop", "declaration", "next", "close"}
  \/ e[1] = "match_expression" /\ e[2] \notin {"start", "subject", "open"}
  \/ e[1] \in {"struct", "interface"} /\ e[2] \in {"members", "methods"}
OpenBlocks == Len(SelectSeq(stack, Open))

AtDeclaration == Running("declaration") /\ Top[2] = "kind" /\ ~had

(* As long as no error has been reported, whenever a declaration or a      *)
(* statement begins the levels of indentation are the blocks being parsed, *)
(* and those a chain of methods has opened: no block is closed by the      *)
(* DEDENT of another (parser_indented_block, skip_whitespace_for_          *)
(* continuation, consume_continuation_dedents).                            *)
BlocksMatchLevels ==
  AtDeclaration /\ opening.tidy /\ cur \notin {"INDENT", "EOF"}
    => Len(lx.indents) - 1 = OpenBlocks + cont

(* The parser sees no layout between brackets, save in the block of a      *)
(* lambda, for which the lexer forgets them (parse_lambda_expr); if there  *)
(* is no comment between them and no line of the block is left of the      *)
(* statement the lambda is in.                                             *)
NoLayoutInBrackets == ~had /\ cur \in {"NEWLINE", "INDENT", "DEDENT"} => lx.depth = 0

(* What is accepted has closed each of its brackets as often as it opened  *)
(* it, those around a lambda that was read twice too.                      *)
Balanced == Done /\ ~had /\ ret # "fault" => lx.depth = 0

(* Whatever is written the parser comes to the end of the file: no loop    *)
(* over declarations, statements, members or arms goes on without reading, *)
(* with errors or without (parser_execute, synchronize, parse_match_expr). *)
Finishes == <>Done

(* A comment is no statement: where one is expected and none was reported  *)
(* missing there is one.                                                   *)
StatementFollows == AtDeclaration => cur \notin {"DEDENT", "EOF"}
================================================================================
