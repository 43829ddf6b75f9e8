------------------------------- MODULE ParserState -----------------------------
(***************************************************************************)
(* The parser's registers and what they are changed by.  The C call stack  *)
(* is the sequence stack: an entry names what is still to be done, as      *)
(* <<function, label, locals...>>, and the entry on top is replaced by     *)
(* those of the work it stands for.  ret is what the last call returned:   *)
(* for an expression the kind of its node, "null" for NULL.                *)
(***************************************************************************)
EXTENDS Layout

CONSTANT Openings  \* records: text a file begins with, words that follow, room for them

VARIABLES
  opening, text, room, ended,  \* the source
  lx,                          \* the lexer
  cur, prev,                   \* parser->current and parser->previous
  fresh,                       \* current.line > previous.line
  panic, had,                  \* panic_mode, had_error
  cont,                        \* continuation_indent_depth
  stack, ret,
  names,                       \* what the symbol table holds of a type name
  inferred,                    \* inferred_type is a struct
  serializable, alias          \* pending_serializable, pending_alias

source == <<opening, text, room, ended>>
tokens == <<cur, prev, fresh, lx>>
errors == <<panic, had>>
pending == <<inferred, serializable, alias>>
vars == <<source, tokens, errors, cont, stack, ret, names, pending>>

TypeNames == {"x", "T"}
Identifiers == TypeNames \cup {"arena", "typeOf"}
Strings == {"text", "<text>"}
Literals == Strings \cup {"1", "2"}
TypeWords == {"int", "void"}
MethodNames == Identifiers \cup {"int", "lock"}

Kind(token) == IF token \in Identifiers THEN "id" ELSE token
KnownStruct(name) == name \in TypeNames /\ names[name] = "struct"

Init ==
  /\ opening \in Openings
  /\ text = opening.text /\ room = opening.room /\ ended = FALSE
  /\ lx = FreshLexer
  /\ cur = "MORE" /\ prev = "ERROR" /\ fresh = FALSE
  /\ panic = FALSE /\ had = FALSE /\ cont = 0
  /\ stack = <<<<"execute", "loop">>>> /\ ret = "value"
  /\ names = [n \in TypeNames |-> "none"]
  /\ inferred = FALSE /\ serializable = FALSE /\ alias = FALSE

--------------------------------------------------------------------------------
(* Entries that are one operation each, and how the rules write them.      *)
Advance == <<"advance">>
Consume(kind) == <<"consume", kind>>
Match(token) == <<"match", token>>
Error == <<"error">>
ErrorAtCurrent == <<"error_at_current">>
Return(kind) == <<"result", kind>>
Newlines == <<"pass", {"NEWLINE"}>>
PassLayout == <<"pass", {"NEWLINE", "INDENT", "DEDENT"}>>
SkipNewlines == <<"skip_newlines">>
CloseGeneric == <<"close_generic">>
Calm == <<"calm">>
Crash == <<"crash">>
Deeper(levels) == <<"deeper", levels>>
PutBack(token) == <<"put_back", token>>
Infer(is_struct) == <<"infer", is_struct>>
SetSerializable(set) == <<"serializable", set>>
SetAlias(set) == <<"alias_pending", set>>
Declare(name, kind) == <<"declare", name, kind>>
Imported == <<"imported">>

(* The end of a function that returns from its middle, and that return.    *)
End == <<"end">>
Leave == <<"leave">>

Top == Head(stack)
Running(op) == stack # <<>> /\ cur \notin {"MORE", "DROP"} /\ Top[1] = op
Then(entries) == stack' = entries \o Tail(stack)

(* parser_advance: the token is read by the action Lex.                    *)
Advanced == prev' = cur /\ cur' = "MORE" /\ fresh' = FALSE
Reported == panic' = TRUE /\ had' = TRUE

Quiet == UNCHANGED <<tokens, errors>>
Moves == Advanced /\ UNCHANGED <<lx, errors>>

ReportAtPrevious ==
  IF panic THEN Quiet
  ELSE /\ Reported
       /\ lx' = [lx EXCEPT !.indents = <<0>>]
       /\ UNCHANGED <<cur, prev, fresh>>

(* An error at the current token passes it.                                *)
ReportAtCurrent ==
  IF panic THEN Quiet
  ELSE Reported /\ lx' = [lx EXCEPT !.indents = <<0>>] /\ Advanced

others == <<source, cont, ret, names, pending>>

DoAdvance == Running("advance") /\ Moves /\ Then(<<>>) /\ UNCHANGED others

DoConsume ==
  /\ Running("consume")
  /\ IF Kind(cur) = Top[2] THEN Moves ELSE ReportAtCurrent
  /\ Then(<<>>) /\ UNCHANGED others

DoMatch ==
  /\ Running("match")
  /\ IF cur = Top[2] THEN Moves ELSE Quiet
  /\ Then(<<>>) /\ UNCHANGED others

DoPass ==
  /\ Running("pass")
  /\ IF cur \in Top[2] THEN Moves /\ UNCHANGED stack ELSE Quiet /\ Then(<<>>)
  /\ UNCHANGED others

(* skip_newlines stops in front of a token that opens or closes a block.   *)
DoSkipNewlines ==
  /\ Running("skip_newlines")
  /\ IF cur = "NEWLINE"
       THEN Moves /\ Then(<<<<"skipped_newline">>>>)
       ELSE Quiet /\ Then(<<>>)
  /\ UNCHANGED others

DoSkippedNewline ==
  /\ Running("skipped_newline")
  /\ Then(IF cur \in {"INDENT", "DEDENT"} THEN <<>> ELSE <<SkipNewlines>>)
  /\ Quiet /\ UNCHANGED others

DoError == Running("error") /\ ReportAtPrevious /\ Then(<<>>) /\ UNCHANGED others
DoErrorAtCurrent ==
  Running("error_at_current") /\ ReportAtCurrent /\ Then(<<>>) /\ UNCHANGED others

(* parser_consume_generic_close: >> closes two lists.                      *)
DoCloseGeneric ==
  /\ Running("close_generic")
  /\ CASE cur = ">" -> Moves
       [] cur = ">>" -> cur' = ">" /\ prev' = ">" /\ fresh' = FALSE /\ UNCHANGED <<lx, errors>>
       [] OTHER -> ReportAtCurrent
  /\ Then(<<>>) /\ UNCHANGED others

DoReturn ==
  /\ Running("result")
  /\ ret' = Top[2]
  /\ Then(<<>>) /\ Quiet /\ UNCHANGED <<source, cont, names, pending>>

DoEnd == Running("end") /\ Then(<<>>) /\ Quiet /\ UNCHANGED others

DoLeave ==
  /\ Running("leave")
  /\ LET end == SelectInSeq(stack, LAMBDA entry : entry = End)
     IN  stack' = SubSeq(stack, end + 1, Len(stack))
  /\ ret' = "null"
  /\ Quiet /\ UNCHANGED <<source, cont, names, pending>>

DoCalm ==
  /\ Running("calm") /\ panic' = FALSE
  /\ Then(<<>>) /\ UNCHANGED <<tokens, had, others>>

(* A NULL pointer is followed.                                             *)
DoCrash ==
  /\ Running("crash") /\ ret' = "fault" /\ stack' = <<>>
  /\ Quiet /\ UNCHANGED <<source, cont, names, pending>>

DoDeeper ==
  /\ Running("deeper") /\ cont' = cont + Top[2]
  /\ Then(<<>>) /\ Quiet /\ UNCHANGED <<source, ret, names, pending>>

DoPutBack ==
  /\ Running("put_back") /\ cur' = "NEWLINE" /\ prev' = Top[2] /\ fresh' = TRUE
  /\ Then(<<>>) /\ UNCHANGED <<lx, errors, others>>

DoInfer ==
  /\ Running("infer") /\ inferred' = Top[2]
  /\ Then(<<>>) /\ Quiet /\ UNCHANGED <<source, cont, ret, names, serializable, alias>>

DoSerializable ==
  /\ Running("serializable") /\ serializable' = Top[2]
  /\ Then(<<>>) /\ Quiet /\ UNCHANGED <<source, cont, ret, names, inferred, alias>>

DoAlias ==
  /\ Running("alias_pending") /\ alias' = Top[2]
  /\ Then(<<>>) /\ Quiet /\ UNCHANGED <<source, cont, ret, names, inferred, serializable>>

DoDeclare ==
  /\ Running("declare")
  /\ names' = IF Top[2] \in TypeNames THEN [names EXCEPT ![Top[2]] = Top[3]] ELSE names
  /\ Then(<<>>) /\ Quiet /\ UNCHANGED <<source, cont, ret, pending>>

(* A parser of the imported file may have declared types, in any order.    *)
DoImported ==
  /\ Running("imported")
  /\ \/ names' = names
     \/ \E name \in TypeNames : names' = [names EXCEPT ![name] = "struct"]
  /\ Then(<<>>) /\ Quiet /\ UNCHANGED <<source, cont, ret, pending>>

(* An interpolated string is read by a parser of its own, which may fail.  *)
DoInterpolate ==
  /\ Running("interpolate")
  /\ \E outcome \in {<<Return("value")>>, <<ErrorAtCurrent, Return("value")>>,
                      <<Error, Return("null")>>} : Then(outcome)
  /\ Quiet /\ UNCHANGED others

(* Looking n tokens ahead; the entry's function goes on with what is seen. *)
Ahead(n) == IF n = 1 THEN Peek(lx, text, ended) ELSE Peek2(lx, text, ended)

DoPeek ==
  /\ Running("peek")
  /\ LET seen == Ahead(Top[2])
     IN  /\ seen.tok # "MORE"
         /\ lx' = Restored(lx, seen)
         /\ Then(<<Append(SubSeq(Top, 3, Len(Top)), seen.tok)>>)
  /\ UNCHANGED <<cur, prev, fresh, errors, others>>

--------------------------------------------------------------------------------
(* The body of a lambda between brackets, put back as it was typed, to be  *)
(* read as if no bracket were open, and once more as it was.               *)
Lexeme(token) == IF token = "COMMENT" THEN "//" ELSE token
BodyText == <<BreakTo(lx.col)>> \o (IF cur = "EOF" THEN <<>> ELSE <<Lexeme(cur)>>) \o text

Relex == <<"relex">>
DoRelex ==
  /\ Running("relex")
  /\ lx' = [lx EXCEPT !.depth = 0, !.start = FALSE, !.pending = FALSE]
  /\ text' = BodyText
  /\ Advanced /\ Then(<<>>)
  /\ UNCHANGED <<opening, room, ended, errors, cont, ret, names, pending>>

Unlex(depth, body) == <<"unlex", depth, body>>
DoUnlex ==
  /\ Running("unlex")
  /\ lx' = [lx EXCEPT !.depth = Top[2], !.start = FALSE, !.pending = FALSE]
  /\ text' = Top[3]
  /\ Advanced /\ Then(<<>>)
  /\ UNCHANGED <<opening, room, ended, errors, cont, ret, names, pending>>

(* The bracket that ended the block was scanned outside the brackets.      *)
SetDepth(depth) == <<"set_depth", depth>>
(* Mutant: the bracket that ended the block still counts.                  *)
DoSetDepthBlindly ==
  /\ Running("set_depth")
  /\ lx' = [lx EXCEPT !.depth = Top[2]]
  /\ Then(<<>>)
  /\ UNCHANGED <<cur, prev, fresh, errors, others>>

DoSetDepth ==
  /\ Running("set_depth")
  /\ lx' = [lx EXCEPT !.depth = IF cur \in Closers THEN Top[2] - 1 ELSE Top[2]]
  /\ Then(<<>>)
  /\ UNCHANGED <<cur, prev, fresh, errors, others>>

--------------------------------------------------------------------------------
(* parser_advance reads on past a token the lexer reports as an error; the *)
(* first one is reported, and the token read while it is, is lost.         *)
Lex ==
  /\ cur \in {"MORE", "DROP"}
  /\ LET read == Scan(lx, text, ended)
     IN  /\ read.tok # "MORE"
         /\ text' = read.text
         /\ fresh' = (fresh \/ read.fresh)
         /\ IF read.tok = "ERROR" /\ ~panic
              THEN /\ Reported
                   /\ lx' = [read.lx EXCEPT !.indents = <<0>>]
                   /\ prev' = "ERROR" /\ cur' = "DROP"
              ELSE /\ lx' = read.lx
                   /\ cur' = CASE read.tok = "ERROR" -> cur
                               [] cur = "DROP" -> "MORE"
                               [] OTHER -> read.tok
                   /\ UNCHANGED <<prev, errors>>
  /\ UNCHANGED <<opening, room, ended, cont, stack, ret, names, pending>>

Waiting ==
  \/ cur \in {"MORE", "DROP"} /\ Scan(lx, text, ended).tok = "MORE"
  \/ Running("peek") /\ Ahead(Top[2]).tok = "MORE"

(* A text put aside to be read again (see the lambda rules) grows too.     *)
Grown(entry, word) ==
  CASE entry[1] = "lambda" /\ Len(entry) = 4 -> [entry EXCEPT ![4] = Append(@, word)]
    [] entry[1] = "unlex" -> [entry EXCEPT ![3] = Append(@, word)]
    [] OTHER -> entry

(* A tidy file indents a line under an expression only to go on with it.   *)
Continues(word) ==
  (Running("peek") /\ Top[3] = "continuation" /\ lx.start /\ lx.col > Last(lx.indents))
    => word = "."

Write ==
  /\ Waiting /\ room > 0
  /\ \E word \in opening.words :
       /\ (text # <<>> /\ Last(text) = "//") => word \in Breaks
       /\ opening.tidy => Continues(word)
       /\ text' = Append(text, word)
       /\ stack' = [i \in DOMAIN stack |-> Grown(stack[i], word)]
  /\ room' = room - 1
  /\ UNCHANGED <<opening, ended, tokens, errors, cont, ret, names, pending>>

EndOfFile ==
  /\ Waiting /\ ended' = TRUE
  /\ UNCHANGED <<opening, text, room, tokens, errors, cont, stack, ret, names, pending>>
================================================================================
