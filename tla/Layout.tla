--------------------------------- MODULE Layout --------------------------------
(***************************************************************************)
(* The lexer: lexemes to tokens, with the layout tokens NEWLINE, INDENT    *)
(* and DEDENT.  A lexeme is the token it becomes, except for a line break, *)
(* which carries the indentation of the line it opens, and a // comment.   *)
(* Blank lines and # comments are two breaks in a row.                     *)
(*                                                                         *)
(* Text is what is left of the source as far as it has been typed: ended   *)
(* says that no more will follow.  Where the scanner would have to look    *)
(* past it, the token is MORE and nothing has happened.                    *)
(***************************************************************************)
EXTENDS Integers, SequencesExt

Indentation == [nl0 |-> 0, nl1 |-> 1, nl2 |-> 2, nl3 |-> 3, nl4 |-> 4,
                nl5 |-> 5, nl6 |-> 6, nl7 |-> 7, nl8 |-> 8]
Breaks == DOMAIN Indentation
BreakTo(col) == CHOOSE b \in Breaks : Indentation[b] = col

Openers == {"(", "[", "{"}
Closers == {")", "]", "}"}
LayoutTokens == {"NEWLINE", "INDENT", "DEDENT", "COMMENT", "EOF", "ERROR"}

(* start: at_line_start.  col: the indentation of the line being read.     *)
(* pending: pending_indent has been saved.  comment:                       *)
(* pending_standalone_comment.  depth: bracket_depth.                      *)
FreshLexer == [start |-> TRUE, col |-> 0, indents |-> <<0>>,
               pending |-> FALSE, comment |-> FALSE, depth |-> 0]

(* fresh: the token's line number is greater than that of the one before.  *)
Scanned(tok, lx, text, fresh) == [tok |-> tok, lx |-> lx, text |-> text, fresh |-> fresh]

Starts(text, lexemes) == text # <<>> /\ Head(text) \in lexemes

--------------------------------------------------------------------------------
(* Mutant: breaks between brackets are not passed.                         *)
LeadingNone(text) == 0

(* The length of the run of breaks at the front of the text.               *)
Leading(text) ==
  LET ends == {i \in 1..Len(text) : text[i] \notin Breaks}
  IN  IF ends = {} THEN Len(text) ELSE (CHOOSE i \in ends : \A j \in ends : i <= j) - 1

Depth(lx, lexeme) ==
  CASE lexeme \in Openers -> lx.depth + 1
    [] lexeme \in Closers /\ lx.depth > 0 -> lx.depth - 1
    [] OTHER -> lx.depth

LineEnd(lx, text, used) ==
  Scanned("NEWLINE", [lx EXCEPT !.start = TRUE, !.col = Indentation[text[used]]],
          SubSeq(text, used + 1, Len(text)), TRUE)

(* What follows // up to the end of its line.                              *)
ScanComment(lx, text, ended, fresh) ==
  CASE Len(text) = 1 /\ ~ended -> Scanned("MORE", lx, text, fresh)
    [] lx.comment -> Scanned("COMMENT", [lx EXCEPT !.comment = FALSE], Tail(text), fresh)
    [] Len(text) > 1 -> LineEnd(lx, text, 2)
    [] OTHER -> Scanned("EOF", lx, <<>>, fresh)

(* From skip_indent_processing on.  Between brackets breaks are passed.    *)
ScanInLine(lx0, text0, ended) ==
  LET n == IF lx0.depth > 0 THEN Leading(text0) ELSE 0
      text == SubSeq(text0, n + 1, Len(text0))
      lx == IF n = 0 THEN lx0 ELSE [lx0 EXCEPT !.start = FALSE, !.col = Indentation[text0[n]]]
  IN  CASE text = <<>> -> Scanned(IF ended THEN "EOF" ELSE "MORE", lx, text, n > 0)
        [] Starts(text, Breaks) -> LineEnd(lx, text, 1)
        [] Starts(text, {"//"}) -> ScanComment(lx, text, ended, n > 0)
        [] OTHER -> Scanned(Head(text), [lx EXCEPT !.depth = Depth(lx, Head(text))],
                            Tail(text), n > 0)

(* An indentation that is on no open level is reported after its level has *)
(* been popped; the blanks have been read, so the line then counts as one  *)
(* without indentation.                                                    *)
Dedent(lx, text) ==
  LET popped == [lx EXCEPT !.indents = Front(lx.indents), !.pending = FALSE]
      top == Last(Front(lx.indents))
  IN  CASE lx.col = top -> Scanned("DEDENT", [popped EXCEPT !.start = FALSE], text, FALSE)
        [] lx.col > top -> Scanned("ERROR", [popped EXCEPT !.col = 0], text, FALSE)
        [] lx.col < top -> Scanned("DEDENT", [popped EXCEPT !.pending = TRUE], text, FALSE)

(* A comment on a line of its own opens a level like any other line.       *)
ScanLineStart(lx, text, ended) ==
  LET top == Last(lx.indents)
      alone == Starts(text, {"//"}) /\ ~lx.pending
      begun == [lx EXCEPT !.start = FALSE, !.pending = FALSE]
  IN  CASE ~ended /\ text \in {<<>>, <<"//">>} -> Scanned("MORE", lx, text, FALSE)
        [] ~lx.pending /\ (text = <<>> \/ Starts(text, Breaks)) -> ScanInLine(lx, text, ended)
        [] lx.col > top ->
             Scanned("INDENT",
                     [begun EXCEPT !.indents = Append(@, lx.col), !.comment = @ \/ alone],
                     text, FALSE)
        [] lx.col < top -> Dedent(lx, text)
        [] alone -> Scanned("COMMENT", [lx EXCEPT !.start = FALSE], Tail(text), FALSE)
        [] OTHER -> ScanInLine(begun, text, ended)

(* lexer_scan_token.                                                       *)
Scan(lx, text, ended) ==
  IF lx.start /\ lx.depth = 0
    THEN ScanLineStart(lx, text, ended)
    ELSE ScanInLine([lx EXCEPT !.start = FALSE], text, ended)

(* parser_peek_token, parser_peek_token2: everything is put back but the   *)
(* pending comment.                                                        *)
Peek(lx, text, ended) == Scan(lx, text, ended)
Peek2(lx, text, ended) ==
  LET one == Scan(lx, text, ended)
  IN  IF one.tok = "MORE" THEN one ELSE Scan(one.lx, one.text, ended)
Restored(lx, peeked) == [lx EXCEPT !.comment = peeked.lx.comment]
================================================================================
