------------------------------ MODULE ConfigText ------------------------------
(***************************************************************************)
(* The text of a configuration as a sequence of tokens: config_write of    *)
(* libconfig.c, and the grammar and the actions of grammar.y.              *)
(***************************************************************************)
EXTENDS Settings

CONSTANT ReservedNames   \* valid names that are read as a boolean: true, false

TypeOfToken == [ INTEGER |-> "int", INTEGER64 |-> "int64", FLOAT |-> "float",
                 STRING |-> "string", BOOLEAN |-> "bool" ]

Opening == [m \in {"[", "(", "{"} |->
              CASE m = "[" -> "array" [] m = "(" -> "list" [] m = "{" -> "group"]
Closing == [array |-> "]", list |-> ")", group |-> "}"]

Mark(m) == [tok |-> m]

-----------------------------------------------------------------------------
(* Writing.                                                                *)

ScalarText_NoSuffix(s) ==                                       \* mutant: no "L" after int64
  IF s.type = "none" THEN <<Mark("GARBAGE"), Mark("GARBAGE"), Mark("GARBAGE")>>
  ELSE <<[tok |-> IF s.type = "int64" /\ s.value \in Ints THEN "INTEGER" ELSE
                  CHOOSE k \in DOMAIN TypeOfToken : TypeOfToken[k] = s.type,
          val |-> IF s.type = "string" /\ s.value = 0 THEN 1 ELSE s.value]>>

ScalarText(s) ==
  IF s.type = "none" THEN <<Mark("GARBAGE"), Mark("GARBAGE"), Mark("GARBAGE")>>
  ELSE <<[tok |-> CHOOSE k \in DOMAIN TypeOfToken : TypeOfToken[k] = s.type,
          val |-> IF s.type = "string" /\ s.value = 0 THEN 1 ELSE s.value]>>

NameText(name) == IF name \in ReservedNames THEN [tok |-> "BOOLEAN", val |-> 1]
                                            ELSE [tok |-> "NAME", name |-> name]

(* The elements of an array or a list are separated by commas; a group,    *)
(* but for the root, is put in braces.                                     *)
AggregateText(p, type, parts) ==
  LET mark(m)    == <<Mark(m)>>
      element(i) == parts[i] \o (IF i < Len(parts) THEN mark(",") ELSE <<>>)
      inside     == IF type = "group" THEN FlattenSeq(parts)
                    ELSE FlattenSeq([i \in DOMAIN parts |-> element(i)])
      opening    == CHOOSE m \in DOMAIN Opening : Opening[m] = type
  IN  IF p = <<>> THEN inside ELSE mark(opening) \o inside \o mark(Closing[type])

SettingText(name, text, separators) ==
  <<NameText(name), Mark("=")>> \o text \o (IF separators THEN <<Mark(";")>> ELSE <<>>)

config_write(t, separators) ==
  LET text[p \in DOMAIN t] ==
        LET child(i) == Append(p, i - 1)
            part(i)  == IF t[p].type # "group" THEN text[child(i)]
                        ELSE SettingText(t[child(i)].name, text[child(i)], separators)
        IN  IF t[p].type \in Aggregates
              THEN AggregateText(p, t[p].type,
                                 [i \in 1 .. config_setting_length(t, p) |-> part(i)])
              ELSE ScalarText(t[p])
  IN  text[<<>>]

(***************************************************************************)
(* What is left of a token when the text ends inside it: of a name some    *)
(* name, of a boolean one that is no boolean, of a number its first        *)
(* digits, of a string nothing, for it is not closed.  Numbers have three  *)
(* digits at most.                                                         *)
(***************************************************************************)
LeadingDigits(n) == { n \div d : d \in { d \in {1, 10, 100} : d = 1 \/ d <= n } }

IntegerToken(n) == [tok |-> IF n \in Ints THEN "INTEGER" ELSE "INTEGER64", val |-> n]

CutToken(k) ==
  CASE k.tok = "NAME"                     -> { NameText(name) : name \in ValidNames }
    [] k.tok = "BOOLEAN"                  -> { NameText(name) : name \in ValidNames \ ReservedNames }
    [] k.tok \in {"INTEGER", "INTEGER64"} -> { IntegerToken(n) : n \in LeadingDigits(k.val) }
    [] k.tok = "FLOAT"                    ->
         { IntegerToken(n) : n \in LeadingDigits(k.val \div 2) }
           \cup {[k EXCEPT !.val = 2 * (@ \div 2)]}
    [] OTHER                              -> {}

(* config_write_file looks at none of its writes, which end anywhere when  *)
(* the disk is full.                                                       *)
CutTexts(text) ==
  UNION { LET whole == SubSeq(text, 1, n - 1) IN
          {whole} \cup { Append(whole, k) : k \in CutToken(text[n]) } : n \in DOMAIN text }

-----------------------------------------------------------------------------
(* The parse context, and what the rules of the grammar do to it.          *)

parsectx_init(t, allow_overrides) ==
  [ tree |-> t, parent |-> <<>>, setting |-> <<>>, string |-> 0,
    error |-> NULL, overrides |-> allow_overrides ]

The(found) == CHOOSE x \in found : TRUE

IN_LIST(c) == c.tree[c.parent].type = "list"

IN_SEQUENCE(c) == c.tree[c.parent].type \in {"array", "list"}

Failed(c, text) == [c EXCEPT !.error = text]

(* No message of the parser is taken for none.                             *)
ASSUME NoErrorAssumption ==
  NULL \notin {"duplicate setting name", "mismatched element type in array", "syntax error"}

(* The last element of the parent, with its position captured.             *)
LastOf(t, p) == Append(p, config_setting_length(t, p) - 1)

CapturedLast(t, p, at) == [t EXCEPT ![LastOf(t, p)].source = at]

TakeName(c, name, at) ==
  LET added == config_setting_add(c.tree, c.parent, name, "none", c.overrides)
  IN  IF added = {} THEN Failed(c, "duplicate setting name")
      ELSE [c EXCEPT !.tree = CapturedLast(The(added), c.parent, at),
                     !.setting = LastOf(The(added), c.parent)]

simple_value(c, type, v, at) ==
  IF IN_SEQUENCE(c)
    THEN LET added == config_setting_set_elem(c.tree, c.parent, -1, type, v, FALSE)
         IN  IF added = {} THEN Failed(c, "mismatched element type in array")
             ELSE [c EXCEPT !.tree = CapturedLast(The(added), c.parent, at)]
    ELSE LET set == config_setting_set(c.tree, c.setting, type, v, FALSE)
         IN  [c EXCEPT !.tree = IF set = {} THEN @ ELSE The(set)]

Open(c, type, at) ==
  IF IN_LIST(c)
    THEN LET t == The(config_setting_add(c.tree, c.parent, NULL, type, c.overrides))
         IN  [c EXCEPT !.tree = CapturedLast(t, c.parent, at), !.parent = LastOf(t, c.parent)]
    ELSE [c EXCEPT !.tree[c.setting].type = type, !.parent = c.setting, !.setting = NULL]

Close_ParentKept(c) == c                                        \* mutant: parent not restored

Close(c) == [c EXCEPT !.parent = Front(@)]

(* Adjacent strings are joined.                                            *)
append_string(c, s) == [c EXCEPT !.string = IF @ = 0 THEN s ELSE @ + s - 1]

take_string(c, at) == [simple_value(c, "string", c.string, at) EXCEPT !.string = 0]

-----------------------------------------------------------------------------
(***************************************************************************)
(* The grammar, as one reads it: what the parser expects next, and the     *)
(* brackets it has seen open, stand for its stack of states.  A token is   *)
(* acted upon at once where its rule needs no look at the next one.        *)
(***************************************************************************)
Reading(c) ==
  [ tree |-> c.tree, parent |-> c.parent, setting |-> c.setting, string |-> c.string,
    error |-> c.error, overrides |-> c.overrides, nesting |-> <<>>, want |-> "setting" ]

Innermost(c) == IF c.nesting = <<>> THEN "group" ELSE Last(c.nesting)

Wants(c, what) == [c EXCEPT !.want = what]

ValueRead(c) == Wants(c, IF Innermost(c) = "group" THEN "terminator" ELSE "comma")

Opened(c, type) == Wants([c EXCEPT !.nesting = Append(@, type)],
                         IF type = "group" THEN "setting" ELSE "first")

Closed(c) == ValueRead([c EXCEPT !.nesting = Front(@)])

Take(c, k, at) ==
  LET inGroup == c.want \in {"setting", "terminator"}
      atValue == c.want \in {"value", "first", "next"}
  IN  CASE inGroup /\ k.tok = "NAME"                     -> Wants(TakeName(c, k.name, at), "equals")
        [] c.want = "terminator" /\ k.tok \in {";", ","} -> Wants(c, "setting")
        [] inGroup /\ k.tok = "}" /\ c.nesting # <<>>    -> Closed(Close(c))
        [] inGroup /\ k.tok = "EOF" /\ c.nesting = <<>>  -> Wants(c, "nothing")
        [] c.want = "equals" /\ k.tok = "="              -> Wants(c, "value")
        [] atValue /\ k.tok = "STRING"                   -> Wants(append_string(c, k.val), "string")
        [] atValue /\ k.tok \in DOMAIN TypeOfToken \ {"STRING"} ->
             ValueRead(simple_value(c, TypeOfToken[k.tok], k.val, at))
        [] atValue /\ k.tok \in DOMAIN Opening /\ Innermost(c) # "array" ->
             Opened(Open(c, Opening[k.tok], at), Opening[k.tok])
        [] c.want \in {"first", "next", "comma"} /\ k.tok = Closing[Innermost(c)] ->
             Closed(Close(c))
        [] c.want \in {"next", "comma"} /\ k.tok = ","   -> Wants(c, "next")
        [] OTHER                                         -> Failed(c, "syntax error")

(* A string ends with the token after it.                                  *)
ReadToken(c, k, at) ==
  IF c.want # "string" THEN Take(c, k, at)
  ELSE IF k.tok = "STRING" THEN append_string(c, k.val)
  ELSE LET d == ValueRead(take_string(c, at))
       IN  IF d.error # NULL THEN d ELSE Take(d, k, at)

(* The tokens up to the first that is refused.                             *)
ReadTokens(c, tokens, at) ==
  FoldLeft(LAMBDA d, k : The({ IF e.error # NULL THEN e ELSE ReadToken(e, k, at) : e \in {d} }),
           c, tokens)

config_read_string_NoEnd(text, allow_overrides) ==             \* mutant: ends anywhere
  ReadTokens(Reading(parsectx_init(config_clear, allow_overrides)), text, NULL)

(* config_read_string of a text without includes.                          *)
config_read_string(text, allow_overrides) ==
  ReadTokens(Reading(parsectx_init(config_clear, allow_overrides)),
             Append(text, Mark("EOF")), NULL)
===============================================================================
