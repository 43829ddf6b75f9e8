-------------------------------- MODULE MCParser -------------------------------
(***************************************************************************)
(* Files for Parser: how each begins, the words it goes on with and how    *)
(* many of them.  The beginnings take the parser to where its functions    *)
(* differ; the words are those that function, and its errors, react to.    *)
(***************************************************************************)
EXTENDS Parser

CONSTANT Room  \* words written after the beginning

File(begun, used) == [text |-> begun, words |-> used, room |-> Room, tidy |-> TRUE]
Untidy(file) == [file EXCEPT !.tidy = FALSE]

FunctionBody1 == <<"fn", "x", "=>", "nl1">>
StructT == <<"struct", "T", "=>", "nl1", "x", ":", "int", "nl0">>

Control == File(FunctionBody1, {"nl0", "nl1", "nl2", "x", "if", "=>", "else", "while", "."})
Chains == File(FunctionBody1 \o <<"x", "nl2", ".", "x">>,
               {"nl0", "nl1", "nl2", "x", ".", "var", "="})
Lambdas == File(FunctionBody1 \o <<"x", "(", "fn", "(", ")", "=>">>,
                {"nl1", "nl2", "nl3", "x", ")", "return", "."})
BracketBodies == File(FunctionBody1 \o <<"x", "(", "fn", "(", ")", "=>">>,
                      {"nl1", "x", "(", ")"})
Expressions == File(StructT, {"&", "T", "<", ">", "!", "$str", "(", ")", "."})
Types == File(StructT \o <<"var", "x", ":">>, {"T", "<", ">>", "(", ")", "fn", ":", "[", "=", "nl0"})
Members == File(<<"struct", "T", "=>", "nl1">>,
                {"x", ":", "int", "nl0", "nl1", "fn", "=>", "static", "native", "@alias"})
Matches == File(FunctionBody1 \o <<"match", "x", "=>", "nl2">>,
                {"1", "else", "=>", "x", "nl1", "nl2", "nl3", ","})
Fors == File(FunctionBody1 \o <<"for">>, {"x", "in", ";", "var", ":", "int", "=", "=>"})
Imports == File(<<"import">>, {"text", "as", "x", "int", "nl0", ";", "@alias", "@pack", "("})
Declarations ==
  File(<<>>, {"native", "type", "x", "=", "opaque", "fn", "struct", "interface", "=>",
              "nl0", "nl1", "@serializable"})
Comments == File(FunctionBody1 \o <<"x">>, {"nl0", "nl1", "//", "x"})

(* A comment between brackets, and lines of a lambda left of the statement.*)
BracketComments == File(FunctionBody1 \o <<"x", "(">>, {"nl0", "nl1", "//", "x", ")"})
BracketsLeft == File(FunctionBody1 \o <<"x", "(", "fn", "(", ")", "=>">>, {"nl0", "nl2", "x", ")"})

MCOpenings ==
  {Control, Chains, Lambdas, Expressions, Types, Members, Matches, Fors, Imports, Declarations,
   Untidy(Control)}
CommentOpenings == {Comments}
BracketOpenings == {BracketBodies}
LooseOpenings == {BracketComments}
LeftOpenings == {BracketsLeft}
================================================================================
