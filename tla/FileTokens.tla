-------------------------------- MODULE FileTokens ------------------------------
(***************************************************************************)
(* What the lexer makes of a file.  A line is [space, tabs, words]: the    *)
(* blanks and tabs before its text, and the pieces of its text.  From the  *)
(* lines come the lexemes that Layout turns into tokens.                   *)
(***************************************************************************)
EXTENDS FormatLine

Line(space, tabs, words) == [space |-> space, tabs |-> tabs, words |-> words]
IsBlank(line) == line.words = <<>>
Begins(line, words) == line.words # <<>> /\ Head(line.words) \in words
(* The lexer counts a tab as one blank.                                    *)
LexedColumn(line) == line.space + line.tabs

(* The lexer reads the characters.  >> is two brackets where the parser    *)
(* wants so.  A // comment is one lexeme, a # comment none.                *)
WordsOf(pieces) ==
  LET words == Words(pieces, Compound \cup {"->"})
  IN  FlattenSeq([i \in DOMAIN words |-> IF words[i] = ">>" THEN <<">", ">">> ELSE <<words[i]>>])
Lexemes(pieces) ==
  IF Cut(pieces, "//") < Cut(pieces, "#")
  THEN Append(WordsOf(SubSeq(pieces, 1, Cut(pieces, "//") - 1)), "//")
  ELSE WordsOf(SubSeq(pieces, 1, Cut(pieces, "#") - 1))

(* text: the lexemes.  inside: "string" or "pipe" while one is open; held  *)
(* is what it consists of.  level: the column of the last line that was    *)
(* not between brackets.                                                   *)
NothingLexed == [text |-> <<>>, inside |-> "", held |-> "", level |-> 0]
Brackets(text) == FoldLeft(LAMBDA d, w : Depth([depth |-> d], w), 0, text)
Raw(line) == FoldLeft(LAMBDA acc, w : acc \o w, "/" \o ToString(LexedColumn(line)) \o ":", line.words)

Opening(lexemes) ==
  IF lexemes = <<>> THEN ""
  ELSE CASE Last(lexemes) = "\"text" -> "string"
         [] Last(lexemes) \in {"|", "$|"} -> "pipe"
         [] OTHER -> ""
Extended(f, lexemes) ==
  IF Opening(lexemes) = "" THEN [f EXCEPT !.text = @ \o lexemes, !.inside = ""]
  ELSE [f EXCEPT !.text = @ \o Front(lexemes), !.inside = Opening(lexemes), !.held = Last(lexemes)]
Broken(f, line) ==
  [f EXCEPT !.text = Append(@, BreakTo(LexedColumn(line))),
            !.level = IF ~IsBlank(line) /\ ~Begins(line, {"#"}) /\ Brackets(f.text) = 0
                      THEN LexedColumn(line) ELSE @]
Closed(f, more) == [f EXCEPT !.text = Append(@, f.held \o more), !.inside = "", !.held = ""]
(* What a line adds to an open string, and what is left of the line.       *)
IntoString(f, line, end) ==
  IF end > Len(line.words) THEN [f EXCEPT !.held = @ \o Raw(line)]
  ELSE Extended(Closed(f, Raw([line EXCEPT !.words = SubSeq(@, 1, end)])),
                Lexemes(SubSeq(line.words, end + 1, Len(line.words))))
LexLine(f, line) ==
  CASE f.inside = "string" -> IntoString(f, line, Cut(line.words, "text\""))
    [] f.inside = "pipe" /\ (IsBlank(line) \/ LexedColumn(line) > f.level) ->
         [f EXCEPT !.held = @ \o Raw(line)]
    [] OTHER ->
         Extended(Broken(IF f.inside = "pipe" THEN Closed(f, "") ELSE f, line), Lexemes(line.words))
Lexed(lines) == FoldLeft(LexLine, NothingLexed, lines)
TextOf(f) == Append(IF f.inside = "" THEN f.text ELSE Closed(f, "").text, BreakTo(0))

RECURSIVE AndOn(_)
AndOn(s) ==
  IF s.tok \in {"EOF", "ERROR"} THEN <<s.tok>> ELSE <<s.tok>> \o AndOn(Scan(s.lx, s.text, TRUE))
Tokens(lines) == AndOn(Scan(FreshLexer, TextOf(Lexed(lines)), TRUE))

(* What the parser tells apart: a run of NEWLINEs is one, and a type named *)
(* again by the initializer of a declaration is not needed.                *)
Squeezed(tokens) ==
  FoldLeft(LAMBDA acc, t :
             LET n == Len(acc)
             IN  CASE n > 0 /\ t = "NEWLINE" /\ acc[n] = t -> acc
                   [] n > 3 /\ t = "{" /\ acc[n - 1] = "=" /\ acc[n] = acc[n - 2] /\ acc[n - 3] = ":" ->
                        Append(Front(acc), t)
                   [] OTHER -> Append(acc, t),
           <<>>, tokens)
================================================================================
