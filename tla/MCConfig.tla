------------------------------- MODULE MCConfig -------------------------------
(***************************************************************************)
(* The values and texts ConfigApi is model-checked with.                   *)
(***************************************************************************)
EXTENDS ConfigApi

FewValues ==
  "int" :> {INT_MAX} @@ "int64" :> {INT_MAX + 1} @@ "float" :> {1} @@ "string" :> {3}
    @@ "bool" :> {1}

(* Numbers of one and two digits, beyond the int range and beyond what a   *)
(* float keeps, and a fraction.                                            *)
ManyValues ==
  "int" :> {5, 12} @@ "int64" :> {5, 13} @@ "float" :> {1, 10, 26} @@ "string" :> {3}
    @@ "bool" :> {0, 1}

Name(n)   == [tok |-> "NAME", name |-> n]
Number(n) == [tok |-> "INTEGER", val |-> n]

(* One text in order, one that stops after a name, one that names a        *)
(* setting twice, and one whose array mixes types.                         *)
FewTexts ==
  { <<Name("a"), Mark("="), Mark("("), Mark("["),
      [tok |-> "INTEGER64", val |-> 1], Mark("]"), Mark(")")>>,
    <<Name("a"), Mark("=")>>,
    <<Name("a"), Mark("="), Number(1), Mark(";"), Name("a"), Mark("="), Number(1)>>,
    <<Name("a"), Mark("="), Mark("["), Number(1), Mark(","),
      [tok |-> "INTEGER64", val |-> 1], Mark("]")>> }
===============================================================================
