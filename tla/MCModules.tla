-------------------------------- MODULE MCModules ------------------------------
(***************************************************************************)
(* Programs of four files for NamespacedCode.  Each file has a variable, a *)
(* static variable and a function that uses both and a function of every   *)
(* file it imports, the way the import says it is named.  Main imports one *)
(* or two of the others, every other file up to two, in every order and    *)
(* style, so that cycles among them, a file reached along two paths and a  *)
(* file that does not exist all occur.                                     *)
(***************************************************************************)
EXTENDS NamespacedCode

MCMain == <<"src", "Main">>
MCCwd == <<"home">>
MCSdkRoot == <<"opt">>

(* C is found by a longer way from B, D in a package of the directory, E   *)
(* nowhere.                                                                *)
Spelled(from, to) ==
  CASE to = "D" -> <<"pkg", "D">>
    [] from = "D" -> <<"..", "..", to>>
    [] from = "B" /\ to = "C" -> <<"..", "src", ".", "C">>
    [] OTHER -> <<to>>
RealPath(file) ==
  MCCwd \o (IF file = "D" THEN <<"src", ".sn", "pkg", "D">> ELSE <<"src", file>>)
Names == [B |-> [as |-> "b", fn |-> "fb", count |-> "nb", total |-> "tb"],
          C |-> [as |-> "c", fn |-> "fc", count |-> "nc", total |-> "tc"],
          D |-> [as |-> "d", fn |-> "fd", count |-> "nd", total |-> "td"],
          E |-> [as |-> "e", fn |-> "fe"], Main |-> [fn |-> "main"]]

Imported(from, i) == Import(Spelled(from, i.to), IF i.named THEN Names[i.to].as ELSE NoAlias)
UseOf(i) == IF i.named THEN <<Names[i.to].as, Names[i.to].fn>> ELSE <<Names[i.to].fn>>
File(file, imports) ==
  RealPath(file) :>
    [i \in DOMAIN imports |-> Imported(file, imports[i])]
    \o (IF file = "Main" THEN <<>> ELSE <<Variable("var", Names[file].count), Variable("static", Names[file].total)>>)
    \o <<Function(Names[file].fn, {},
           (IF file = "Main" THEN <<>> ELSE <<<<Names[file].count>>, <<Names[file].total>>>>)
           \o [i \in DOMAIN imports |-> UseOf(imports[i])])>>

Lists(files, most) ==
  {s \in UNION {[1..k -> [to : files, named : BOOLEAN]] : k \in 0..most} :
     \A i, j \in DOMAIN s : i # j => s[i] # s[j]}
MCPrograms ==
  {File("Main", m) @@ File("B", b) @@ File("C", c) @@ File("D", d) :
     m \in Lists({"B", "C", "D"}, 2) \ {<<>>},
     b \in Lists({"C", "D"}, 1), c \in Lists({"B", "D"}, 2), d \in Lists({"B", "E"}, 1)}

(* Two files declare f, or a variable of one name; one of them is imported *)
(* directly, the other with a name, or both with a name.                   *)
Two(main, inB, inC) ==
  RealPath("Main") :> main @@ RealPath("B") :> inB @@ RealPath("C") :> inC
MCCollisions ==
  {Two(<<Import(<<"B">>, NoAlias), Import(<<"C">>, "c"), Function("main", {}, <<<<"f">>, <<"c", "f">>>>)>>,
       <<Function("f", params, <<>>)>>, <<Function("f", {}, <<>>)>>) : params \in {{}, {"x"}}}
MCSameVariables ==
  {Two(<<Import(<<"B">>, "b"), Import(<<"C">>, "c"), Function("main", {}, <<<<"c", "f">>>>)>>,
       <<Variable(kind, "count")>>, <<Variable(kind, "count"), Function("f", {}, <<<<"count">>>>)>>) :
     kind \in {"var", "static"}}
================================================================================
