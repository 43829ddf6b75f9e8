-------------------------------- MODULE Formatter -------------------------------
(***************************************************************************)
(* What the formatter makes of a file, line by line.  It knows nothing of  *)
(* the lexer: it keeps its own stack of indentations, into which every     *)
(* line with something on it is put.                                       *)
(***************************************************************************)
EXTENDS FileTokens, FormatFiles

CONSTANT MaxIndentDepth  \* room in the stack of indentations

(* StartState, TakeInto and Output of FormatFiles are Starting, AfterLine  *)
(* and Result.                                                             *)

(* stack: indent_stack.  blanks: consecutive_blanks.  inside: the kind of  *)
(* string that is open.  out: the output.                                  *)
Starting == [stack |-> <<0>>, blanks |-> 0, inside |-> "", out |-> <<>>]

(* compute_indent_level: the stack after a line in that column; the line's *)
(* level is what is below it.                                              *)
Levels(stack, col) ==
  LET kept == SelectSeq(stack, LAMBDA c : c <= col)
  IN  IF Last(kept) = col \/ Len(kept) = MaxIndentDepth THEN kept ELSE Append(kept, col)
Column(line) == line.space + 4 * line.tabs
Placed(f, line) == [f EXCEPT !.stack = Levels(@, Column(line)), !.blanks = 0]
LevelOf(f) == Len(f.stack) - 1

(* The lines of a text with breaks in it.                                  *)
RECURSIVE SplitLines(_, _)
SplitLines(col, text) ==
  LET ends == {i \in DOMAIN text : text[i] \in Breaks}
      end == CHOOSE i \in ends : \A j \in ends : i <= j
  IN  IF ends = {} THEN <<Line(col, 0, text)>>
      ELSE <<Line(col, 0, SubSeq(text, 1, end - 1))>>
           \o SplitLines(Indentation[text[end]], SubSeq(text, end + 1, Len(text)))
Out(f, text) == [f EXCEPT !.out = @ \o SplitLines(2 * LevelOf(f), text)]

Uncommented(words) ==
  LET code == SubSeq(words, 1, Cut(words, "//") - 1) IN SubSeq(code, 1, Cut(code, "#") - 1)
(* detect_multiline_open: a quote that stays open before any comment, or a *)
(* bar after = at the very end.                                            *)
Opens(words) ==
  LET shown == Uncommented(words)
      solid == SelectSeq(words, LAMBDA w : w # Gap)
      n == Len(solid)
  IN  CASE "\"text" \in Range(shown) -> "string"
        [] n > 1 /\ solid[n] \in {"|", "$|"} /\ solid[n - 1] \in {"=", "=="} -> "pipe"
        [] OTHER -> ""

Verbatim(f, line) ==
  [f EXCEPT !.out = Append(@, line), !.blanks = 0,
            !.inside = IF @ = "pipe" THEN (IF IsBlank(line) THEN "" ELSE @)
                       ELSE IF {"\"text", "text\""} \cap Range(line.words) # {} THEN "" ELSE @]
Blank(f) ==
  [f EXCEPT !.blanks = @ + 1, !.out = IF f.blanks = 0 THEN Append(@, Line(0, 0, <<>>)) ELSE @]
Comment(f, line) ==
  LET rest == Trimmed(Tail(line.words))
  IN  Out(Placed(f, line), <<Head(line.words)>> \o IF rest = <<>> THEN <<>> ELSE <<Gap>> \o rest)
Code(f, line) ==
  LET g == Placed(f, line)
  IN  [Out(g, FormatCode(line.words, LevelOf(g))) EXCEPT !.inside = Opens(line.words)]

Comments == {"#", "//", "@source"}
AfterLine(f, line) ==
  CASE f.inside # "" -> Verbatim(f, line)
    [] f.inside = "" /\ IsBlank(line) -> Blank(f)
    [] f.inside = "" /\ Begins(line, Comments) -> Comment(f, line)
    [] OTHER -> Code(f, line)

(* Blank lines at the end go, unless there is nothing else.                *)
Ended(lines) ==
  LET solid == {i \in DOMAIN lines : ~IsBlank(lines[i])}
  IN  IF solid = {} THEN SubSeq(lines, 1, 1) ELSE SubSeq(lines, 1, Max(solid))
Result(f) == Ended(f.out)

--------------------------------------------------------------------------------
(* Files by what is in them.                                               *)

(* The lexer takes no layout from a line between brackets, a # comment.    *)
LexedBefore(lines, i) == Lexed(SubSeq(lines, 1, i - 1))
GivesLayout(f, line) == Brackets(f.text) = 0 /\ ~Begins(line, {"#"})
OnItsOwn(lines, i) == LexedBefore(lines, i).inside = "" /\ ~IsBlank(lines[i])
TakesLayout(lines, i) == OnItsOwn(lines, i) /\ GivesLayout(LexedBefore(lines, i), lines[i])
HasNoLayout(lines, i) == OnItsOwn(lines, i) /\ ~GivesLayout(LexedBefore(lines, i), lines[i])
(* A line without layout stands where the next one with layout does, or    *)
(* right of it.                                                            *)
Hangs(lines) ==
  \A i, j \in DOMAIN lines :
    /\ i < j /\ lines[i].space < lines[j].space
    /\ HasNoLayout(lines, i) /\ TakesLayout(lines, j)
    => \E k \in i + 1..j - 1 : TakesLayout(lines, k)
(* A string in lines of its own is introduced by =, stands right of where  *)
(* the formatter puts its first line, and its only blank line is its last, *)
(* with another line behind it.                                            *)
EndsBlank(lines, i, level) ==
  \E end \in i + 2..Len(lines) - 1 :
    /\ IsBlank(lines[end])
    /\ \A j \in i + 1..end - 1 : ~IsBlank(lines[j]) /\ lines[j].space > 2 * level
    /\ ~IsBlank(lines[end + 1]) /\ lines[end + 1].space <= level
BlocksEndBlank(lines) ==
  \A i \in DOMAIN lines :
    LexedBefore(lines, i).inside = "" /\ LexedBefore(lines, i + 1).inside = "pipe" =>
      Opens(lines[i].words) = "pipe" /\ EndsBlank(lines, i, LexedBefore(lines, i + 1).level)
(* A sign before the same sign, or before the same sign twice: the         *)
(* formatter leaves no blank behind a unary sign.                          *)
SignsFuse(ts) ==
  \E i \in DOMAIN ts : \E sign \in {"-", "+"} :
    /\ ts[i].k = "unary" /\ ts[i].w = <<sign>> /\ KindAt(ts, i + 1) \in {"unary", "incdec"}
    /\ ts[i + 1].w \in {<<sign>>, <<sign \o sign>>}
(* Two < in a row, which no program has, close up in a list of types.      *)
AnglesFuse(ts) ==
  \E i \in DOMAIN ts : i < Len(ts) /\ Is(ts[i], "<") /\ Is(ts[i + 1], "<")
Ordinary(lines) ==
  /\ \A i \in DOMAIN lines :
       /\ lines[i].tabs = 0 /\ Len(lines[i].words) < MaxLineTokens
       /\ ~SignsFuse(Tokenized(lines[i].words)) /\ ~AnglesFuse(Tokenized(lines[i].words))
       /\ Cut(lines[i].words, "#") > 1 => "{" \notin Range(lines[i].words) \/ "#" \notin Range(lines[i].words)
  /\ \A i \in DOMAIN lines :
       Cardinality({0} \cup {lines[j].space : j \in DOMAIN lines}) + Braces(Tokenized(lines[i].words), "{")
         <= MaxIndentDepth
  /\ "ERROR" \notin Range(Tokens(lines)) /\ Hangs(lines) /\ BlocksEndBlank(lines)

--------------------------------------------------------------------------------
(* Properties                                                              *)

(* The lexer reads the formatted file as the same tokens, blocks included. *)
Kept == Squeezed(Tokens(Result(fmt))) = Squeezed(Tokens(Source))
SameTokens == AtEnd /\ Ordinary(Source) => Kept

(* The same of every file.                                                 *)
SameTokensAlways == AtEnd => Kept

(* Formatting again changes nothing, so that --check accepts what --format *)
(* has written.                                                            *)
Settles == AtEnd /\ Ordinary(Source) => Formatted(Result(fmt)) = Result(fmt)
================================================================================
