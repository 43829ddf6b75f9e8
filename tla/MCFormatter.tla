------------------------------- MODULE MCFormatter ------------------------------
(***************************************************************************)
(* Directories for Formatter: files whose lines differ in how they are     *)
(* laid out, files of one line, and two files of which one may not be      *)
(* readable or writable.                                                   *)
(***************************************************************************)
EXTENDS Formatter

Blank0 == Line(0, 0, <<>>)
At(col, words) == Line(col, 0, words)
Entries(lines) == [lines |-> lines, readable |-> TRUE, writable |-> TRUE]
Alone(files) == {[check |-> FALSE, files |-> <<Entries(f)>>] : f \in files}
UpTo(n, lines) == UNION {[1..k -> lines] : k \in 1..n}

(* Blocks, comments, brackets over several lines.                          *)
Laid == {At(c, w) : c \in {0, 2, 3},
                    w \in {<<"x">>, <<"#", "x">>, <<"//">>, <<"x", "(">>, <<")">>}} \cup {Blank0}
Blocks == {<<At(0, <<"if", Gap, "x", "=>">>)>> \o f : f \in UpTo(3, Laid)}
Deep == {[i \in 1..k |-> At(i - 1, <<"x">>)] : k \in 1..6}

(* Strings over several lines, between quotes and behind a bar.            *)
Closing == {At(c, <<"text\"", Gap, "x">>) : c \in {0, 1, 3}}
Quoted == Closing \cup {At(c, <<"-", "1">>) : c \in {0, 1, 3}}
Barred == {At(c, w) : c \in {0, 1, 3}, w \in {<<"x", "=", "|">>, <<"x", "-", "1">>}} \cup {Blank0}
Strings ==
  {<<At(0, <<"if", Gap, "x", "=>">>), At(c, <<"x", "=", "\"text">>)>> \o f :
     c \in {0, 1}, f \in {g \in UpTo(3, Quoted) : Cardinality({i \in DOMAIN g : g[i] \in Closing}) <= 1}}
  \cup {<<At(0, <<"if", Gap, "x", "=>">>), At(c, <<"x", "=", "|">>)>> \o f :
           c \in {0, 1}, f \in UpTo(3, Barred)}

(* Lines of up to seven words, with a blank between any two.               *)
Spread(words) == FlattenSeq([i \in DOMAIN words |-> IF i = 1 THEN <<words[1]>> ELSE <<Gap, words[i]>>])
OneLine(begun, words) == {<<At(0, Spread(begun \o w))>> : w \in UpTo(4, words)}
Signs == OneLine(<<>>, {"x", "-", "+", "!", "(", "--"})
Generics == OneLine(<<"T", "<", "x">>, {"x", "<", ">", ">>", "("})
Inits == {<<At(0, <<"var", Gap, "x", ":", "T", "=", "T", "{">> \o Spread(f))>> :
            f \in UpTo(2, {"x", ":", "1", "}"})}
         \cup {<<At(2, <<"x", "=", "{">> \o f \o <<"x", ":", "1", "}">>)>> :
                f \in {<<>>, <<"x", ":", "1", ",">>, <<"x", ":", "{", "x", ":", "1", ",", "x", ":", "1", "}", ",">>,
                       <<"x", ":", "T", "{", "}", ",">>}}
         \cup {<<At(0, <<"x", "{", "x", ":", "1", ",", "x", ":", "1", ",", "}", "//", "x">>)>>}

Wide == <<At(3, <<"x">>)>>
Tidy == <<At(0, <<"x">>)>>
Pairs == {[check |-> c, files |-> <<[lines |-> f, readable |-> r, writable |-> w], Entries(g)>>] :
            f \in {Wide, Tidy, <<Blank0, Blank0>>}, g \in {Wide, Tidy}, c, r, w \in BOOLEAN}

MCCommands ==
  UNION {Pairs, Alone(Blocks), Alone(Deep), Alone(Strings), Alone(Signs), Alone(Generics), Alone(Inits)}
(* A comment at the margin of a nested block; one that looks like an       *)
(* initializer; a sign before a sign or before two; an arrow that only the *)
(* lexer knows; a string that ends with the file.                          *)
Unkept ==
  Alone({<<At(0, <<"if", Gap, "x", "=>">>), At(2, <<"if", Gap, "x", "=>">>), At(4, <<"x">>),
           At(0, <<"#", "x">>), At(4, <<"x">>)>>,
         <<At(0, <<"x", "#", "T", "{", "x", ":", "1", ",", "x", ":", "1", "}">>)>>,
         <<At(0, <<"x", "=", "-", Gap, "-", "x">>)>>, <<At(0, <<"-", Gap, "--", Gap, "x">>)>>,
         <<At(0, <<"x", "->", "x">>)>>,
         <<At(0, <<"x", "=", "|">>), At(1, <<"x">>), Blank0>>})
================================================================================
