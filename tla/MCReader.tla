------------------------------- MODULE MCReader -------------------------------
(***************************************************************************)
(* The files ConfigReader is model-checked with: every file of a few       *)
(* lines, out of lines that together open, fill and close each kind of     *)
(* setting, begin and end a comment, and include.                          *)
(***************************************************************************)
EXTENDS ReaderHistory

Name(n)   == [tok |-> "NAME", name |-> n]
Number(n) == [tok |-> "INTEGER", val |-> n]
Text(s)   == [tok |-> "STRING", val |-> s]
Reads(k)  == [tokens |-> k]

TopLines ==
  { Reads(<<Name("a"), Mark("="), Number(1)>>),
    Reads(<<Name("a"), Mark("="), Mark("[")>>),
    Reads(<<Name("b"), Mark("="), Mark("("), Mark("{")>>),
    Reads(<<Text(2)>>),
    Reads(<<Mark("]")>>),
    Reads(<<Mark("}"), Mark(")")>>),
    [include |-> "one"], [include |-> "all"],
    CommentStart, CommentEnd }

IncludedLines ==
  { Reads(<<Name("b"), Mark("="), Text(2)>>),
    Reads(<<Number(1), Mark(","), Text(2)>>),
    Reads(<<Mark(","), Number(1)>>),
    Reads(<<Mark("}"), Mark(","), Mark("[")>>),
    Reads(<<Mark("]"), Mark(")")>>),
    Reads(<<Text(2), Text(2)>>),
    CommentStart,
    [include |-> "one"], [include |-> "two"] }

UpTo(n, lines) == UNION { [1 .. k -> lines] : k \in 0 .. n }

Second == <<Reads(<<Name("c"), Mark("="), Number(1)>>)>>

FewDisks ==
  { "top" :> t @@ "x" :> x @@ "y" :> Second :
      t \in UpTo(3, TopLines), x \in UpTo(1, IncludedLines) }

FewEdits ==
  { << >>,
    "top" :> <<Reads(<<Name("a")>>), Reads(<<Number(1)>>)>>,
    "top" :> <<[include |-> "none"], [include |-> "bad"]>>,
    "top" :> <<[include |-> "all"]>> @@ "x" :> << >> }

FewPaths ==
  "one" :> [files |-> <<"x">>, error |-> NULL]
    @@ "two" :> [files |-> <<"y">>, error |-> NULL]
    @@ "all" :> [files |-> <<"x", "y">>, error |-> NULL]
    @@ "bad" :> [files |-> << >>, error |-> "no match"]
===============================================================================
