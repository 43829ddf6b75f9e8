----------------------------- MODULE DeclarationRules --------------------------
(***************************************************************************)
(* The parser of declarations, written like ExpressionRules.  A function   *)
(* that returns from its middle leaves for the next End below it.          *)
(***************************************************************************)
EXTENDS StatementRules

Whole(entry) == <<entry, End>>
Over == cur \in {"DEDENT", "EOF"}
CloseBlock == <<Match("DEDENT")>>

(* Passing what is left of a line, and of a block of the given depth.      *)
SkipLine(e) == IF Over \/ cur = "NEWLINE" THEN <<>> ELSE <<Advance, e>>
SkipBlock(e) ==
  CASE e[2] = 0 \/ cur = "EOF" -> <<>>
    [] OTHER -> <<Advance, <<"skip_block", CASE cur = "INDENT" -> e[2] + 1
                                             [] cur = "DEDENT" -> e[2] - 1
                                             [] OTHER -> e[2]>>>>

(* <T, U: I & J>: a constraint is an interface declared so far.            *)
TypeParameters(e) ==
  LET next == CASE cur = "," -> <<Advance, <<"type_parameters", "name">>>>
                [] cur = "&" -> <<Advance, <<"type_parameters", "constraint">>>>
                [] OTHER -> <<Consume(">")>>
  IN  CASE e[2] = "start" -> <<Advance, <<"type_parameters", "open">>>>
        [] e[2] = "open" -> IF cur = ">" THEN <<Advance>> ELSE <<<<"type_parameters", "name">>>>
        [] e[2] = "name" -> IF cur \in Identifiers THEN <<Advance, <<"type_parameters", "named">>>>
                            ELSE <<ErrorAtCurrent, Leave>>
        [] e[2] = "named" -> CASE cur = ":" -> <<Advance, <<"type_parameters", "constraint">>>>
                               [] cur = "," -> next
                               [] OTHER -> <<Consume(">")>>
        [] e[2] = "constraint" ->
             IF cur \in Identifiers THEN <<Advance, <<"type_parameters", "check">>>>
             ELSE <<ErrorAtCurrent, Leave>>
        [] e[2] = "check" -> IF prev \in TypeNames /\ names[prev] = "interface"
                               THEN <<<<"type_parameters", "next">>>> ELSE <<Error, Leave>>
        [] e[2] = "next" -> next

(* The signatures of the five kinds of functions: "fn", "native", "method",*)
(* "native_method" and "interface".                                        *)
Variadic == {"native", "method", "native_method"}
Strict == {"method", "native_method", "interface"}
Qualified == {"fn", "method", "native_method"}

Parameter(e) ==
  CASE e[2] = "start" ->
         CASE cur = "..." /\ e[3] \in Variadic -> <<Advance>>
           [] cur \notin Identifiers \cup {"val"} /\ e[3] \in Strict -> <<ErrorAtCurrent, Leave>>
           [] OTHER -> Name({"val"}) \o <<Consume(":"), Do("type"), Do("qualifier"),
                                           <<"parameter", "next", e[3]>>>>
    [] e[2] = "next" -> IF cur = "," THEN <<Advance, <<"parameter", "start", e[3]>>>> ELSE <<>>

Signature(e) ==
  LET at(label) == <<"signature", label, e[3]>>
      all == <<at("parameters"), Consume(")"), at("static")>>
  IN  CASE e[2] = "start" ->
             CASE cur = "(" -> <<Advance, at("arena")>>
               [] OTHER -> <<at("static")>>
        [] e[2] = "arena" -> IF cur = "arena" /\ e[3] \in {"native", "native_method"}
                               THEN <<<<"peek", 1, "signature", "passed", e[3]>>>> ELSE all
        [] e[2] = "passed" ->
             IF e[4] \in {",", ")"} THEN <<Advance, at("comma")>> \o all ELSE all
        [] e[2] = "comma" -> IF cur = ")" THEN <<>> ELSE <<Consume(",")>>
        [] e[2] = "parameters" -> IF cur = ")" THEN <<>> ELSE <<<<"parameter", "start", e[3]>>>>
        [] e[2] = "static" -> (IF cur = "static" /\ e[3] # "interface"
                                 THEN <<ErrorAtCurrent, Advance>> ELSE <<>>) \o <<at("returns")>>
        [] e[2] = "returns" ->
             Optional(":", "type")
             \o (IF cur = ":" /\ e[3] \in Qualified THEN <<Do("qualifier")>> ELSE <<>>)

Starting == Literals \cup Identifiers \cup {"$str", "val", "fn", "(", "{", "!", "-", "sizeof", "&"}

(* What follows the arrow: on its line an expression or a statement that   *)
(* leaves, otherwise a block.                                              *)
FunctionBody(e) ==
  CASE ~fresh /\ cur \in Starting -> <<Do("expression")>>
    [] ~fresh /\ cur \in {"return", "break", "continue"} /\ e[2] # "native" -> <<Do("statement")>>
    [] OTHER -> <<SkipNewlines, Do("block")>>

(* A function of the name of a type takes its place in the symbol table.   *)
Named(function) ==
  (IF cur \in Identifiers THEN <<>> ELSE <<ErrorAtCurrent>>) \o <<<<function, "name">>>>

FunctionDeclaration(e) ==
  CASE e[2] = "start" -> Named("function")
    [] e[2] = "name" -> <<Advance, <<"function", "generic", cur>>>>
    [] e[2] = "generic" -> (IF cur = "<" THEN <<Do("type_parameters")>> ELSE <<>>)
                           \o <<<<"signature", "start", "fn">>, Declare(e[3], "none"),
                                Consume("=>"), <<"function_body", "fn">>>>

NativeFunction(e) ==
  CASE e[2] = "start" -> Named("native")
    [] e[2] = "name" -> <<Advance, <<"signature", "start", "native">>, Declare(cur, "none"),
                          <<"native", "body">>>>
    [] e[2] = "body" ->
         (CASE cur = "=>" -> <<Advance, <<"function_body", "native">>>>
            [] cur \in {";", "NEWLINE"} -> <<Advance>>
            [] cur \in {"EOF", "fn", "native", "var", "DEDENT"} -> <<>>
            [] OTHER -> <<Consume("NEWLINE")>>)
         \o <<SetAlias(FALSE)>>

(* A method has returned NULL unless its body was reached.                 *)
Method(e) ==
  CASE e[2] = "start" -> <<<<"signature", "start", e[3]>>, <<"method", "body", e[3]>>>>
    [] e[2] = "body" ->
         CASE cur = "=>" -> <<Advance, <<"function_body", "method">>, Return("value")>>
           [] cur # "=>" /\ e[3] = "native_method" -> <<Return("value")>>
           [] OTHER -> <<ErrorAtCurrent, Leave>>

--------------------------------------------------------------------------------
(* What a struct declaration comes to; a struct that is @serializable gets *)
(* methods of its own.                                                     *)
Declared(s) ==
  <<SetSerializable(FALSE)>>
  \o (IF serializable /\ s.native THEN <<Error>>
      ELSE <<SetAlias(FALSE)>>
           \o IF alias /\ ~s.native THEN <<Error>> ELSE <<Declare(s.name, "struct")>>)

(* s holds what has been read of the struct.                               *)
Struct(e) ==
  LET at(label) == <<"struct", label, e[3]>>
  IN  CASE e[2] = "start" -> IF cur \in Identifiers THEN <<Advance, at("name")>>
                             ELSE <<ErrorAtCurrent>>
        [] e[2] = "name" ->
             (IF cur = "<" THEN <<Do("type_parameters")>> ELSE <<>>)
             \o <<<<"struct", "as", [name |-> prev, native |-> e[3], fields |-> {}, methods |-> {}]>>>>
        [] e[2] = "as" -> IF cur = "as" THEN <<Advance, at("by")>> ELSE <<at("arrow")>>
        [] e[2] = "by" -> IF cur \in {"ref", "val"} THEN <<Advance, at("arrow")>>
                          ELSE <<ErrorAtCurrent, Leave>>
        [] e[2] = "arrow" ->
             <<Consume("=>"), SkipNewlines, Declare(e[3].name, "struct"), at("open")>>
        [] e[2] = "open" -> IF cur = "INDENT" THEN <<Advance, at("members")>> ELSE <<at("declared")>>
        [] e[2] = "close" -> CloseBlock \o <<at("declared")>>
        [] e[2] = "declared" -> Declared(e[3])
        [] OTHER -> <<<<"member", e[2], e[3]>>>>

Comparisons == {"==", "!=", "<", "<=", ">", ">="}
OperatorMethod ==
  IF cur \in Comparisons THEN <<Advance>> \o Whole(<<"method", "start", "method">>)
  ELSE <<ErrorAtCurrent>>

(* A member, or the end of the block.                                      *)
Member(e) ==
  LET s == e[3]
      back == <<"struct", "members", s>>
      at(label) == <<"member", label, s>>
      close == <<"struct", "close", s>>
  IN  CASE e[2] = "members" -> IF Over THEN <<close>> ELSE <<Newlines, at("kind")>>
        [] e[2] = "kind" ->
             CASE Over -> <<close>>
               [] cur = "@alias" -> <<Advance, at("alias")>>
               [] cur = "operator" -> <<Advance, at("operator")>>
               [] cur \in {"fn", "static", "native"} -> <<<<"modifiers", s, {}>>>>
               [] cur \in Identifiers ->
                    <<Advance, Consume(":"), Do("type"), <<"member", "default", s, cur>>>>
               [] OTHER -> <<ErrorAtCurrent, close>>
        [] e[2] = "alias" ->
             (IF cur \in Strings THEN <<Advance, Match("NEWLINE")>> ELSE <<ErrorAtCurrent>>)
             \o <<back>>
        [] e[2] = "operator" -> OperatorMethod \o <<back>>
        [] e[2] = "default" -> Optional("=", "expression") \o <<<<"member", "field", s, e[4], ret>>>>
        [] e[2] = "field" ->
             (IF e[4] \in s.fields THEN <<Error>> ELSE <<>>)
             \o (IF e[5] = "ptr" /\ ~s.native THEN <<Error>> ELSE <<>>)
             \o (CASE cur = "NEWLINE" -> <<Advance>>
                   [] Over -> <<>>
                   [] OTHER -> <<Consume("NEWLINE")>>)
             \o <<<<"struct", "members", [s EXCEPT !.fields = @ \cup {e[4]}]>>>>
        [] e[2] = "method" ->
             (IF ret # "null" /\ e[4] \in s.methods THEN <<Error>> ELSE <<>>)
             \o <<<<"struct", "members",
                    IF ret = "null" THEN s ELSE [s EXCEPT !.methods = @ \cup {e[4]}]>>>>
        [] e[2] = "skip" -> IF cur = "NEWLINE" THEN <<Advance, at("skip_body")>> ELSE <<back>>
        [] e[2] = "skip_body" ->
             (IF cur = "INDENT" THEN <<Advance, <<"skip_block", 1>>>> ELSE <<>>) \o <<back>>

(* static and native, e[3] of which have been read, then a method.         *)
Modifiers(e) ==
  LET s == e[2]
      native == IF "native" \in e[3] THEN "native_method" ELSE "method"
      static == "static" \in e[3]
      back == <<"struct", "members", s>>
  IN  CASE cur \in {"static", "native"} ->
             (IF cur \in e[3] THEN <<ErrorAtCurrent>> ELSE <<>>)
             \o <<Advance, <<"modified", s, e[3] \cup {cur}, cur>>>>
        [] cur = "fn" -> <<Advance, <<"method_name", s, native, static>>>>
        [] OTHER -> <<ErrorAtCurrent, back>>

Modified(e) ==
  IF cur = "operator" /\ e[4] = "static"
    THEN <<ErrorAtCurrent, <<"skip_line">>, <<"member", "skip", e[2]>>>>
    ELSE <<<<"modifiers", e[2], e[3]>>>>

MethodName(e) ==
  IF cur \in MethodNames
    THEN <<Advance>> \o Whole(<<"method", "start", e[3]>>)
         \o <<<<"member", "method", e[2], <<cur, e[4]>>>>>>
    ELSE <<ErrorAtCurrent, <<"struct", "members", e[2]>>>>

Interface(e) ==
  LET at(label) == <<"interface", label, e[3]>>
      close == <<at("close")>>
  IN  CASE e[2] = "start" -> IF cur \in Identifiers THEN <<Advance, <<"interface", "name">>>>
                             ELSE <<ErrorAtCurrent>>
        [] e[2] = "name" -> <<Consume("=>"), SkipNewlines, <<"interface", "open", prev>>>>
        [] e[2] = "open" ->
             IF cur = "INDENT" THEN <<Advance, at("methods")>> ELSE <<ErrorAtCurrent>>
        [] e[2] = "methods" -> IF Over THEN close ELSE <<Newlines, at("method")>>
        [] e[2] = "method" ->
             CASE Over -> close
               [] cur = "fn" -> <<Advance, at("method_name")>>
               [] OTHER -> <<ErrorAtCurrent>> \o close
        [] e[2] = "method_name" ->
             IF cur \in Identifiers
               THEN <<Advance, <<"signature", "start", "interface">>, at("end")>>
               ELSE <<ErrorAtCurrent>> \o close
        [] e[2] = "end" ->
             IF cur = "=>" THEN <<ErrorAtCurrent, Advance, SkipNewlines, at("body")>>
             ELSE <<Match("NEWLINE"), at("methods")>>
        [] e[2] = "body" ->
             (IF cur = "INDENT" THEN <<Advance, <<"skip_block", 1>>>> ELSE <<<<"skip_line">>>>)
             \o <<Match("NEWLINE"), at("methods")>>
        [] e[2] = "close" -> CloseBlock \o <<Declare(e[3], "interface")>>

--------------------------------------------------------------------------------
TypeDeclaration(e) ==
  CASE e[2] = "start" -> IF cur \in Identifiers THEN <<Advance, <<"type_declaration", "name">>>>
                         ELSE <<ErrorAtCurrent>>
    [] e[2] = "name" -> <<Consume("="), <<"type_declaration", "of", prev>>>>
    [] e[2] = "of" ->
         CASE cur = "native" -> <<Advance, Do("native_type"), Declare(e[3], "alias"),
                                  <<"type_declaration", "end">>>>
           [] cur = "opaque" -> <<Advance, Declare(e[3], "opaque"), <<"type_declaration", "end">>>>
           [] cur = "fn" -> <<Do("type"), Declare(e[3], "alias"), <<"type_declaration", "end">>>>
           [] OTHER -> <<ErrorAtCurrent>>
    [] e[2] = "end" -> Terminator(LineEnds \cup {"DEDENT", "fn", "native", "var", "type"})

(* In a native function type a parameter's name is optional.               *)
NativeFunctionType(e) ==
  CASE e[2] = "start" -> <<Consume("fn"), Consume("("), <<"native_type", "parameters">>>>
    [] e[2] = "parameters" -> ListUnless({")"}, "native_parameter")
                              \o <<Consume(")"), Consume(":"), Do("type")>>

NativeParameter(e) ==
  CASE e[2] = "start" -> IF cur \in Identifiers THEN <<Advance, <<"native_parameter", "named">>>>
                         ELSE <<Do("type")>>
    [] e[2] = "named" ->
         CASE cur = ":" -> <<Advance, Do("type")>>
           [] cur # ":" /\ prev \in TypeNames /\ names[prev] # "none" -> <<>>
           [] OTHER -> <<ErrorAtCurrent, Leave>>

(* #pragma include, link and source: the rest of the line is their value.  *)
Pragma(e) ==
  CASE e[2] = "start" ->
         CASE cur = "<text>" -> <<ErrorAtCurrent>>
           [] cur \in LineEnds \cup {";"} -> <<Error>>
           [] OTHER -> <<<<"pragma", "value">>>>
    [] e[2] = "value" -> IF cur \in LineEnds \cup {";"} THEN <<Match(";")>> ELSE <<Advance, e>>

Pack(e) ==
  CASE e[2] = "start" -> <<Consume("("), <<"pack", "value">>>>
    [] e[2] = "value" -> CASE cur = ")" -> <<Advance, <<"pack", "end">>>>
                           [] cur \in {"1", "2"} -> <<Advance, <<"pack", "number">>>>
                           [] OTHER -> <<ErrorAtCurrent>>
    [] e[2] = "number" -> IF prev = "1" THEN <<Consume(")"), <<"pack", "end">>>> ELSE <<Error>>
    [] e[2] = "end" -> Terminator(LineEnds)

Alias(e) ==
  CASE e[2] = "start" -> IF cur \in Strings THEN <<Advance, SetAlias(TRUE), <<"alias", "end">>>>
                         ELSE <<ErrorAtCurrent>>
    [] e[2] = "end" -> Terminator(LineEnds)

Keywords == TypeWords \cup {"fn", "var", "return", "if", "else", "for", "while", "break",
                            "continue", "in", "import", "as", "val", "ref", "using"}

Import(e) ==
  CASE e[2] = "start" ->
         (IF cur \in Strings THEN <<Advance>> ELSE <<ErrorAtCurrent, Advance>>)
         \o <<<<"import", "as">>>>
    [] e[2] = "as" -> (IF cur = "as" THEN <<Advance, <<"import", "namespace">>>> ELSE <<>>)
                      \o <<<<"import", "end">>>>
    [] e[2] = "namespace" ->
         CASE cur \in Identifiers -> <<Advance>>
           [] cur \in Keywords -> <<ErrorAtCurrent, Advance>>
           [] OTHER -> <<ErrorAtCurrent, <<"import", "unexpected">>>>
    [] e[2] = "unexpected" -> IF cur \in LineEnds \cup {";"} THEN <<>> ELSE <<Advance>>
    [] e[2] = "end" -> Terminator(LineEnds) \o <<Imported>>

--------------------------------------------------------------------------------
Pragmas == {"@include", "@link", "@source"}

Declaration(e) ==
  CASE e[2] = "start" -> <<Newlines, <<"declaration", "comments">>>>
    [] e[2] = "comments" -> IF cur = "COMMENT" THEN <<Advance, Newlines, e>>
                            ELSE <<<<"declaration", "kind">>>>
    [] e[2] = "kind" ->
         CASE cur = "EOF" -> <<Error>>
           [] cur = "var" -> <<Advance, Do("var_declaration")>>
           [] cur = "static" -> <<Advance, Match("sync"), <<"statement", "var">>>>
           [] cur = "sync" -> <<Advance, Match("static"), <<"statement", "var">>>>
           [] cur = "fn" -> <<Advance>> \o Whole(Do("function"))
           [] cur = "native" -> <<Advance, <<"declaration", "native">>>>
           [] cur = "struct" -> <<Advance>> \o Whole(<<"struct", "start", FALSE>>)
           [] cur = "interface" -> <<Advance>> \o Whole(Do("interface"))
           [] cur = "import" -> <<Advance, Do("import")>>
           [] cur \in Pragmas -> <<Advance, Do("pragma")>>
           [] cur = "@pack" -> <<Advance, Do("pack")>>
           [] cur = "@alias" -> <<Advance, Do("alias")>>
           [] cur = "@serializable" ->
                <<SetSerializable(TRUE), Advance, Match("NEWLINE"), Do("declaration")>>
           [] cur = "type" -> <<Advance>> \o Whole(Do("type_declaration"))
           [] OTHER -> <<Do("statement")>>
    [] e[2] = "native" ->
         CASE cur = "fn" -> <<Advance, Do("native")>>
           [] cur = "struct" -> <<Advance>> \o Whole(<<"struct", "start", TRUE>>)
           [] OTHER -> <<ErrorAtCurrent>>
================================================================================
