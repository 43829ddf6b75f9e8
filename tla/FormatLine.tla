-------------------------------- MODULE FormatLine ------------------------------
(***************************************************************************)
(* What the formatter makes of one line of code.  The text of a line is a  *)
(* sequence of pieces: words and operators, and " " for the blanks between *)
(* two of them.  Where no blank is between, the characters are read anew,  *)
(* and two pieces may be one word.  // begins a comment up to the end of   *)
(* the line; # does so for the lexer, and is a word like others here.      *)
(***************************************************************************)
EXTENDS Layout, FiniteSetsExt

CONSTANT MaxLineTokens  \* room for the tokens of a line and the end

Gap == " "
(* Operators of more than one character.  What is left of one without its  *)
(* last character is an operator too, so that adding character by          *)
(* character ends with the longest.                                        *)
Assigning == {"+=", "-=", "*=", "&=", "|=", "<<=", ">>="}
Compound == {"--", "++", "==", "=>", "!=", "<=", ">=", "<<", ">>", "&&", "||", "..", "..."} \cup Assigning
Wordy == {"x", "T", "1", "if", "return", "text", "var"}
(* The text with every operator as its characters, "->" too, which only    *)
(* the lexer knows.                                                        *)
Spelled(pieces) ==
  FlattenSeq([i \in DOMAIN pieces |->
    IF pieces[i] \in Compound \cup {"->"} THEN [c \in 1..Len(pieces[i]) |-> SubSeq(pieces[i], c, c)]
    ELSE <<pieces[i]>>])
(* The words the characters are read as: what stands next to one another   *)
(* is one as far as it is an operator or a word.                           *)
Fused(acc, piece, operators) ==
  LET last == Last(acc.words)
      one == /\ acc.near /\ acc.words # <<>>
             /\ last \o piece \in operators \/ {last, piece} \subseteq Wordy
  IN  IF piece = Gap THEN [acc EXCEPT !.near = FALSE]
      ELSE [words |-> IF one THEN Append(Front(acc.words), last \o piece) ELSE Append(acc.words, piece),
            near |-> TRUE]
Words(pieces, operators) ==
  FoldLeft(LAMBDA acc, p : Fused(acc, p, operators), [words |-> <<>>, near |-> FALSE], Spelled(pieces)).words

Bin == {"<", ">", "<<", ">>", "|", "||", "==", "!=", "<=", ">=", "&&"}
(* "text is a string that the line does not close, text" the end of it on  *)
(* a later line.                                                           *)
Literals == {"1", "text", "\"text", "text\"", "$|"}
Token(k, w) == [k |-> k, w |-> w]

(* is_unary_context: the kinds of token a sign follows.                    *)
BeforeSign == {"none", "equal", "arrow", "(", "[", "{", ",", ":", "bin", "assign", "unary", ";"}
KindOf(word, prev) ==
  CASE word \in {"+", "-"} -> IF prev \in BeforeSign THEN "unary" ELSE "bin"
    [] word = "*" -> IF prev \in {":", "(", ","} THEN "unary" ELSE "bin"
    [] word = "!" -> "unary"
    [] word \in Bin -> "bin"
    [] word \in Assigning -> "assign"
    [] word \in {"++", "--"} -> "incdec"
    [] word = "=" -> "equal"
    [] word = "=>" -> "arrow"
    [] word \in {"(", ")", "[", "]", "{", "}", ",", ":", ";", ".", "..", "..."} -> word
    [] word \in Literals -> "literal"
    [] OTHER -> "word"

Trimmed(pieces) ==
  LET front == IF pieces # <<>> /\ Head(pieces) = Gap THEN Tail(pieces) ELSE pieces
  IN  IF front # <<>> /\ Last(front) = Gap THEN Front(front) ELSE front
Cut(pieces, word) ==
  LET at == {i \in DOMAIN pieces : pieces[i] = word}
  IN  IF at = {} THEN Len(pieces) + 1 ELSE CHOOSE i \in at : \A j \in at : i <= j

(* tokenize_line: what finds no room is left out.                          *)
Tokenized(pieces) ==
  LET comment == Cut(pieces, "//")
      words == Words(SubSeq(pieces, 1, comment - 1), Compound)
      kinds == FoldLeft(LAMBDA acc, w : Append(acc, KindOf(w, IF acc = <<>> THEN "none" ELSE Last(acc))),
                        <<>>, words)
      all == [i \in DOMAIN words |-> Token(kinds[i], <<words[i]>>)]
             \o IF comment > Len(pieces) THEN <<>>
                ELSE <<Token("comment", Trimmed(SubSeq(pieces, comment + 1, Len(pieces))))>>
  IN  SubSeq(all, 1, Min({Len(all), MaxLineTokens - 1}))

--------------------------------------------------------------------------------
(* classify_generics                                                       *)

Is(token, word) == token.w = <<word>> /\ token.k # "comment"
AfterGeneric ==
  {"(", "{", "[", ")", "}", "]", "equal", "arrow", "assign", ":", ",", ";", "comment", "end"}
(* Where the list that is open levels deep closes, 0 if it is none.        *)
RECURSIVE CloseOf(_, _, _)
CloseOf(ts, j, open) ==
  IF j > Len(ts) THEN 0
  ELSE CASE Is(ts[j], "<") -> CloseOf(ts, j + 1, open + 1)
         [] Is(ts[j], ">") -> IF open = 1 THEN j ELSE CloseOf(ts, j + 1, open - 1)
         [] Is(ts[j], ">>") /\ open <= 2 -> IF open = 2 THEN j ELSE 0
         [] Is(ts[j], ">>") -> CloseOf(ts, j + 1, open - 2)
         [] ts[j].k \in {"word", ",", "[", "]"} -> CloseOf(ts, j + 1, open)
         [] OTHER -> 0
KindAt(ts, i) == IF i \in DOMAIN ts THEN ts[i].k ELSE "end"
Angled(token) ==
  CASE Is(token, "<") -> <<Token("<", token.w)>>
    [] Is(token, ">") -> <<Token(">", token.w)>>
    [] Is(token, ">>") -> <<Token(">", <<">">>), Token(">", <<">">>)>>
    [] OTHER -> <<token>>
RECURSIVE ClassifyFrom(_, _)
ClassifyFrom(ts, i) ==
  LET close == CloseOf(ts, i + 1, 1)
      generic == /\ Is(ts[i], "<") /\ i > 1 /\ KindAt(ts, i - 1) = "word"
                 /\ close > 0 /\ KindAt(ts, close + 1) \in AfterGeneric
  IN  IF i > Len(ts) THEN <<>>
      ELSE IF generic
      THEN FlattenSeq([k \in 1..close - i + 1 |-> Angled(ts[i + k - 1])]) \o ClassifyFrom(ts, close + 1)
      ELSE <<ts[i]>> \o ClassifyFrom(ts, i + 1)
ClassifyGenerics(ts) == ClassifyFrom(ts, 1)

--------------------------------------------------------------------------------
(* strip_redundant_struct_type                                             *)

RECURSIVE AngleEnd(_, _, _)
AngleEnd(ts, i, depth) ==
  IF depth = 0 THEN i
  ELSE IF i > Len(ts) THEN 0
  ELSE AngleEnd(ts, i + 1, CASE ts[i].k = "<" -> depth + 1 [] ts[i].k = ">" -> depth - 1 [] OTHER -> depth)
TypeLength(ts, start) ==
  IF KindAt(ts, start) # "word" THEN 0
  ELSE IF KindAt(ts, start + 1) # "<" THEN 1
  ELSE LET end == AngleEnd(ts, start + 2, 1) IN IF end = 0 THEN 0 ELSE end - start
FieldsBegin(ts, at) ==
  \/ KindAt(ts, at) \in {"end", "}"}
  \/ (KindAt(ts, at) = "word" /\ KindAt(ts, at + 1) = ":")
RECURSIVE StripFrom(_, _)
StripFrom(ts, i) ==
  LET n == TypeLength(ts, i + 1)
      right == i + n + 2
      redundant == /\ ts[i].k = ":" /\ n > 0 /\ KindAt(ts, i + n + 1) = "equal"
                   /\ TypeLength(ts, right) = n /\ KindAt(ts, right + n) = "{"
                   /\ FieldsBegin(ts, right + n + 1)
                   /\ SubSeq(ts, i + 1, i + n) = SubSeq(ts, right, right + n - 1)
  IN  IF i > Len(ts) THEN ts
      ELSE StripFrom(IF redundant THEN SubSeq(ts, 1, right - 1) \o SubSeq(ts, right + n, Len(ts)) ELSE ts,
                     i + 1)
StripRedundantType(ts) == StripFrom(ts, 1)

--------------------------------------------------------------------------------
(* needs_space                                                             *)

(* Mutant: a sign keeps no distance from an operator. *)
NeedsSpaceSigns(p, c) ==
  CASE p.k \in {"(", "[", "<"} \/ c.k \in {")", "]", ">"} -> FALSE
    [] (p.k = "word" /\ c.k = "<") \/ (p.k = ">" /\ c.k \in {"(", "["}) -> FALSE
    [] "." \in {p.k, c.k} \/ ".." \in {p.k, c.k} \/ p.k = "..." -> FALSE
    [] c.k \in {",", ":", ";"} -> FALSE
    [] p.k \in {",", ":"} -> TRUE
    [] p.k = "bin" /\ c.k \in {"unary", "incdec"} -> FALSE
    [] {"equal", "arrow", "bin", "assign"} \cap {p.k, c.k} # {} -> TRUE
    [] p.k = "unary" \/ c.k = "incdec" -> FALSE
    [] p.k = "word" /\ c.k = "(" -> p.w[1] \in {"if", "return"}
    [] p.k \in {"word", "]", ")"} /\ c.k = "[" -> FALSE
    [] OTHER -> TRUE

NeedsSpace(p, c) ==
  CASE p.k \in {"(", "[", "<"} \/ c.k \in {")", "]", ">"} -> FALSE
    [] (p.k = "word" /\ c.k = "<") \/ (p.k = ">" /\ c.k \in {"(", "["}) -> FALSE
    [] "." \in {p.k, c.k} \/ ".." \in {p.k, c.k} \/ p.k = "..." -> FALSE
    [] c.k \in {",", ":", ";"} -> FALSE
    [] p.k \in {",", ":"} -> TRUE
    [] {"equal", "arrow", "bin", "assign"} \cap {p.k, c.k} # {} -> TRUE
    [] p.k = "unary" \/ c.k = "incdec" -> FALSE
    [] p.k = "word" /\ c.k = "(" -> p.w[1] \in {"if", "return"}
    [] p.k \in {"word", "]", ")"} /\ c.k = "[" -> FALSE
    [] OTHER -> TRUE

--------------------------------------------------------------------------------
(* emit_tokens, emit_struct_init_multi                                     *)

Depths(ts) ==
  [i \in DOMAIN ts |-> Cardinality({j \in 1..i : ts[j].k \in Openers})
                       - Cardinality({j \in 1..i : ts[j].k \in Closers})]
Braces(ts, kind) == Cardinality({j \in DOMAIN ts : ts[j].k = kind})
Nested(ts, i) == Braces(SubSeq(ts, 1, i), "{") - Braces(SubSeq(ts, 1, i), "}")
(* The brace that closes the one at i, 0 if it is not on the line.         *)
CloseBrace(ts, i) ==
  LET closes == {j \in i + 1..Len(ts) : ts[j].k = "}" /\ Nested(ts, j) = Nested(ts, i - 1)}
  IN  IF closes = {} THEN 0 ELSE CHOOSE j \in closes : \A k \in closes : j <= k
Commas(ts) == {i \in DOMAIN ts : ts[i].k = "," /\ Depths(ts)[i] = 0}
(* The fields between two braces; nothing follows a comma at the end.      *)
FieldsOf(ts) ==
  LET ends == SetToSortSeq(Commas(ts) \cup {Len(ts) + 1}, <)
  IN  [k \in DOMAIN ends |-> SubSeq(ts, IF k = 1 THEN 1 ELSE ends[k - 1] + 1, ends[k] - 1)]
IsStructInit(inner) == KindAt(inner, 1) = "word" /\ KindAt(inner, 2) = ":"
HoldsStructInit(inner) == Len(inner) >= 3 /\ KindAt(inner, 1) = "word" /\ KindAt(inner, 2) = "{"

RECURSIVE EmitFrom(_, _, _, _)
Emit(ts, level) == EmitFrom(ts, 1, Token("none", <<>>), level)
(* Mutant: fields stand one column to the left. *)
EmitFieldsLeft(fields, level) ==
  FlattenSeq([k \in DOMAIN fields |->
    IF fields[k] = <<>> /\ k = Len(fields) THEN <<>>
    ELSE <<BreakTo(2 * level + 1)>> \o Emit(fields[k], level + 1)
         \o IF k < Len(fields) THEN <<",">> ELSE <<>>])
EmitFields(fields, level) ==
  FlattenSeq([k \in DOMAIN fields |->
    IF fields[k] = <<>> /\ k = Len(fields) THEN <<>>
    ELSE <<BreakTo(2 * level + 2)>> \o Emit(fields[k], level + 1)
         \o IF k < Len(fields) THEN <<",">> ELSE <<>>])
EmitFrom(ts, i, prev, level) ==
  LET gap == IF prev.k # "none" /\ NeedsSpace(prev, ts[i]) THEN <<Gap>> ELSE <<>>
      close == CloseBrace(ts, i)
      inner == SubSeq(ts, i + 1, close - 1)
      pad == IF IsStructInit(inner) \/ HoldsStructInit(inner) THEN <<Gap>> ELSE <<>>
      after == EmitFrom(ts, close + 1, Token("}", <<"}">>), level)
  IN  CASE i > Len(ts) -> <<>>
        [] ts[i].k = "comment" ->
             <<Gap, "//">> \o IF ts[i].w = <<>> THEN <<>> ELSE <<Gap>> \o ts[i].w
        [] ts[i].k = "{" /\ close > 0 /\ IsStructInit(inner) /\ Len(FieldsOf(inner)) >= 2 ->
             gap \o <<"{">> \o EmitFields(FieldsOf(inner), level) \o <<BreakTo(2 * level), "}">> \o after
        [] ts[i].k = "{" /\ close > 0 ->
             gap \o <<"{">> \o pad \o Emit(inner, level) \o pad \o <<"}">> \o after
        [] OTHER -> gap \o ts[i].w \o EmitFrom(ts, i + 1, ts[i], level)

FormatCode(pieces, level) ==
  Emit(StripRedundantType(ClassifyGenerics(Tokenized(pieces))), level)
================================================================================
