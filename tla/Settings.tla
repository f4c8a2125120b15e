------------------------------- MODULE Settings -------------------------------
(***************************************************************************)
(* The tree of settings of a configuration, and the operations of          *)
(* lib/libconfig-1.7.3/lib/libconfig.c on it.                              *)
(*                                                                         *)
(* A setting is named by its path, the indices from the root down to it: a *)
(* tree is a function from paths to settings.  A result that may be NULL   *)
(* is a set of at most one element.  Values are natural numbers: a float   *)
(* is counted in halves, a bool is 0 or 1, the string 0 is NULL, and a     *)
(* string of length n is n + 1.                                            *)
(***************************************************************************)
EXTENDS Integers, FiniteSets, Functions, SequencesExt, TLC

CONSTANTS
  ValidNames,   \* names config_validate_name accepts
  INT_MAX,      \* integers up to it fit an int
  FLT_EXACT,    \* integers up to it have an exact float (2^24 in the code)
  OutOfRange,   \* the int the machine makes of a double that fits none
  NULL          \* no name, no hook, no source

Ints == 0 .. INT_MAX

ASSUME ExactAssumption      == FLT_EXACT \in Nat \ {0}
ASSUME OutOfRangeAssumption == OutOfRange \in Ints

Scalars    == {"int", "int64", "float", "string", "bool"}
Aggregates == {"group", "array", "list"}
Types      == Scalars \cup Aggregates \cup {"none"}

Setting(name, type) ==
  [name |-> name, type |-> type, value |-> 0, hook |-> NULL, source |-> NULL]

config_clear == [p \in {<<>>} |-> Setting(NULL, "group")]

-----------------------------------------------------------------------------
(* Looking at a tree.                                                      *)

config_setting_is_aggregate(t, p) == t[p].type \in Aggregates

config_setting_get_elem(t, p, i) ==
  {Append(p, i)} \cap DOMAIN t

Elements(t, p) == { q \in DOMAIN t : q # <<>> /\ Front(q) = p }

config_setting_length(t, p) == Cardinality(Elements(t, p))

First(paths) == { p \in paths : \A q \in paths : Last(p) <= Last(q) }

config_setting_get_member(t, p, name) ==
  IF t[p].type = "group" THEN First({ q \in Elements(t, p) : t[q].name = name })
                         ELSE {}

(***************************************************************************)
(* A textual path is the sequence of its steps, names and indices:         *)
(* "a.[0]" is <<[name |-> "a"], [elem |-> 0]>>.                            *)
(***************************************************************************)
Taken(t, p, step) ==
  IF "elem" \in DOMAIN step THEN config_setting_get_elem(t, p, step.elem)
                            ELSE config_setting_get_member(t, p, step.name)

config_setting_lookup(t, p, steps) ==
  IF steps = <<>> THEN {}
  ELSE FoldLeft(LAMBDA found, step : UNION { Taken(t, q, step) : q \in found },
                {p}, steps)

-----------------------------------------------------------------------------
(* Adding and removing.                                                    *)

(* The first element of an array determines its type; a list has none.     *)
config_list_checktype(t, p, type) ==
  t[p].type = "array" => \A q \in config_setting_get_elem(t, p, 0) : t[q].type = type

(* The tree with one more setting.                                         *)
With(t, p, setting) ==
  [q \in DOMAIN t \cup {p} |-> IF q \in DOMAIN t THEN t[q] ELSE setting]

config_setting_create(t, p, name, type) ==
  IF config_setting_is_aggregate(t, p)
    THEN {With(t, Append(p, config_setting_length(t, p)), Setting(name, type))}
    ELSE {}

Subtree(t, p) == { q \in DOMAIN t : IsPrefix(p, q) }

Hooks(t, paths) == { t[q].hook : q \in paths } \ {NULL}

config_setting_destroy_Shallow(t, p) == Hooks(t, {p})             \* mutant: children forgotten

(* The hooks the destructor is called with when a setting is destroyed.    *)
config_setting_destroy(t, p) == Hooks(t, Subtree(t, p))

config_setting_remove_elem_Gap(t, p, i) ==                        \* mutant: no memmove
  IF config_setting_get_elem(t, p, i) = {} THEN {}
  ELSE {Restrict(t, DOMAIN t \ Subtree(t, Append(p, i)))}

(* Those after the removed one move up by one.                             *)
config_setting_remove_elem(t, p, i) ==
  LET n        == Len(p) + 1
      moved(q) == IsStrictPrefix(p, q) /\ q[n] > i
      left     == DOMAIN t \ Subtree(t, Append(p, i))
      kept     == { IF moved(q) THEN [q EXCEPT ![n] = @ - 1] ELSE q : q \in left }
      was(q)   == IF IsStrictPrefix(p, q) /\ q[n] >= i THEN [q EXCEPT ![n] = @ + 1] ELSE q
  IN  IF config_setting_get_elem(t, p, i) = {} THEN {}
                                               ELSE {[q \in kept |-> t[was(q)]]}

(***************************************************************************)
(* The setting the path leads to is looked for once more among its         *)
(* siblings, by the last step as a name: one named by an index is not      *)
(* found.                                                                  *)
(***************************************************************************)
config_setting_remove(t, p, steps) ==
  IF t[p].type # "group" \/ steps = <<>> \/ "elem" \in DOMAIN Last(steps) THEN {}
  ELSE UNION { config_setting_remove_elem(t, Front(q), Last(q)) :
                 q \in config_setting_lookup(t, p, steps) }

NameOf(t, p, name) == IF t[p].type \in {"array", "list"} THEN NULL ELSE name

config_setting_add_NoRemoval(t, p, name, type, overrides) ==      \* mutant
  LET own  == NameOf(t, p, name)
      same == config_setting_get_member(t, p, own)
  IN  IF \/ t[p].type = "array" /\ type \notin Scalars
         \/ own \notin ValidNames \cup {NULL}
         \/ same # {} /\ ~overrides
        THEN {}
        ELSE config_setting_create(t, p, own, type)

config_setting_add(t, p, name, type, overrides) ==
  LET own  == NameOf(t, p, name)
      same == config_setting_get_member(t, p, own)
      room == IF same = {} THEN {t} ELSE config_setting_remove(t, p, <<[name |-> own]>>)
  IN  IF \/ t[p].type = "array" /\ type \notin Scalars
         \/ own \notin ValidNames \cup {NULL}
         \/ same # {} /\ ~overrides
        THEN {}
        ELSE UNION { config_setting_create(u, p, own, type) : u \in room }

-----------------------------------------------------------------------------
(* Values.                                                                 *)

(* An integer as a float: up to twice FLT_EXACT only the even ones are     *)
(* left, up to twice that the multiples of four and so on; the nearest is  *)
(* taken, a tie goes to the even mantissa.                                 *)
Single(n) ==
  LET step == Min({ 2 ^ k : k \in { k \in 0 .. n : n <= FLT_EXACT * 2 ^ k } })
      down == n \div step
      over == 2 * (n % step)
  IN  IF n <= FLT_EXACT THEN n
      ELSE step * IF over < step \/ (over = step /\ down % 2 = 0) THEN down ELSE down + 1

(* A double, in halves, cast to int: the fraction is cut off.  To an int64 *)
(* the cast finds all of them here.                                        *)
AsInt(v) == IF v \div 2 \in Ints THEN v \div 2 ELSE OutOfRange

StoredAs_Truncated(type, old, v, auto) ==                         \* mutant: range not tested
  CASE old \in {"none", type}                                 -> {v}
    [] type = "int64" /\ old = "int"                          -> {v % (INT_MAX + 1)}
    [] auto /\ type \in {"int", "int64"} /\ old = "float"     -> {2 * Single(v)}
    [] auto /\ type = "float" /\ old = "int"                 -> {AsInt(v)}
    [] auto /\ type = "float" /\ old = "int64"               -> {v \div 2}
    [] OTHER                                                  -> {}

(* What the setter of a type makes of a value in a setting of type "old".  *)
StoredAs(type, old, v, auto) ==
  CASE old \in {"none", type}                                 -> {v}
    [] type = "int64" /\ old = "int"                          -> {v} \cap Ints
    [] auto /\ type \in {"int", "int64"} /\ old = "float"     -> {2 * Single(v)}
    [] auto /\ type = "float" /\ old = "int"                 -> {AsInt(v)}
    [] auto /\ type = "float" /\ old = "int64"               -> {v \div 2}
    [] OTHER                                                  -> {}

(* What the getters make of a value in a setting of type "old".            *)
get_int(old, v, auto) ==
  CASE old = "int"                             -> {v}
    [] old = "int64"                           -> {v} \cap Ints
    [] auto /\ old = "float"                   -> {AsInt(v)}
    [] OTHER                                   -> {}

get_int64(old, v, auto) ==
  CASE old \in {"int", "int64"}                -> {v}
    [] auto /\ old = "float"                   -> {v \div 2}
    [] OTHER                                   -> {}

get_float(old, v, auto) ==
  CASE old = "float"                           -> {v}
    [] auto /\ old \in {"int", "int64"}        -> {2 * v}
    [] OTHER                                   -> {}

ReadAs(type, old, v, auto) ==
  CASE type = "int"   -> get_int(old, v, auto)
    [] type = "int64" -> get_int64(old, v, auto)
    [] type = "float" -> get_float(old, v, auto)
    [] OTHER          -> IF old = type THEN {v} ELSE {}

(* config_setting_lookup_int and its like: the value of a member of that   *)
(* name, if it is of the type or can be had as it.                         *)
config_setting_lookup_value(t, p, name, type, auto) ==
  UNION { ReadAs(type, t[q].type, t[q].value, auto) :
            q \in config_setting_get_member(t, p, name) }

(* config_lookup_int and its like: the value at a path from the root.      *)
config_lookup_value(t, steps, type, auto) ==
  UNION { ReadAs(type, t[q].type, t[q].value, auto) :
            q \in config_setting_lookup(t, <<>>, steps) }

(* config_setting_set_int and its like.                                    *)
config_setting_set(t, p, type, v, auto) ==
  { [t EXCEPT ![p].type = IF @ = "none" THEN type ELSE @, ![p].value = stored] :
      stored \in StoredAs(type, t[p].type, v, auto) }

(* config_setting_set_int_elem and its like; i < 0 appends.                *)
config_setting_set_elem(t, p, i, type, v, auto) ==
  IF t[p].type \notin {"array", "list"} THEN {}
  ELSE IF i >= 0
    THEN UNION { config_setting_set(t, q, type, v, auto) :
                   q \in config_setting_get_elem(t, p, i) }
    ELSE IF ~config_list_checktype(t, p, type) THEN {}
         ELSE UNION { config_setting_set(u, Append(p, config_setting_length(t, p)),
                                         type, v, auto) :
                        u \in config_setting_create(t, p, NULL, type) }
===============================================================================
