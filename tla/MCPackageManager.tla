--------------------------- MODULE MCPackageManager ----------------------------
(* PackageManager on small instances: one project with two packages that   *)
(* depend on each other, in versions that ask for different things; two    *)
(* projects with one package that asks for itself.                         *)
EXTENDS PackageManager, TLC
CONSTANTS a, b

Dep(n, r) == [name |-> n, ref |-> r]

MCManifest == (a :> << <<Dep(b, 1)>>, <<Dep(b, Main)>> >>)
           @@ (b :> << <<Dep(a, NoRef)>>, <<>> >>)
MCManifests == {<<Dep(a, 2), Dep(b, 2)>>, <<Dep(b, Main)>>}

SelfManifest == (a :> << <<Dep(a, 2)>>, <<Dep(a, 1)>> >>)
SelfManifests == {<<Dep(a, Main)>>}

MCAsked == {Dep(a, NoRef)}
NoneAsked == {}
================================================================================
