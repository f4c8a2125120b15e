------------------------------- MODULE ConfigApi -------------------------------
(***************************************************************************)
(* A configuration object and a program that uses it, either by the C      *)
(* functions of libconfig.c or by the classes of libconfigcpp.c++.  The    *)
(* classes keep a wrapper object for every setting a reference has been    *)
(* given out to; it is the hook of the setting, knows the type the setting *)
(* had when it was made, and is deleted by the destructor function.        *)
(***************************************************************************)
EXTENDS ConfigText

CONSTANTS
  OtherNames,    \* names config_validate_name rejects
  Values,        \* the values set, a function of the type
  AddedTypes,    \* the types settings are added with
  Texts,         \* the texts read
  MaxSettings,   \* bound on the size of the tree
  Wrappers       \* memory for wrapper objects, a set of numbers: a bound

ASSUME ValuesAssumption     == \A type \in Scalars : Values[type] \subseteq Nat
ASSUME IntsAssumption       == Values["int"] \subseteq Ints
ASSUME AddedTypesAssumption == AddedTypes \subseteq Types
ASSUME TextsAssumption      == \A text \in Texts : text \in Seq(Range(text))
ASSUME WrappersAssumption   == NULL \notin Wrappers

VARIABLES
  api,         \* "C" or "C++"
  config,      \* the tree
  auto,        \* CONFIG_OPTION_AUTOCONVERT
  overrides,   \* CONFIG_OPTION_ALLOW_OVERRIDES
  alive        \* the wrapper objects: memory -> _type

apiVars == <<api, config, auto, overrides, alive>>

Names == ValidNames \cup OtherNames

Steps == [name : ValidNames] \cup [elem : 0 .. 1]

(* The configuration becomes "t", the settings with hooks "gone" destroyed. *)
Becomes(t, gone) ==
  /\ config' = t
  /\ alive' = Restrict(alive, DOMAIN alive \ gone)
  /\ UNCHANGED <<api, auto, overrides>>

(* NULL, FALSE or an exception.                                            *)
Refused == UNCHANGED apiVars

Outcome(found, gone) == IF found = {} THEN Refused ELSE Becomes(The(found), gone)

-----------------------------------------------------------------------------
(* What both libraries offer.                                              *)

config_init ==
  /\ api \in {"C", "C++"}
  /\ config = config_clear
  /\ auto = FALSE
  /\ overrides = FALSE
  /\ alive = << >>

config_set_option ==
  /\ \/ auto' = ~auto /\ UNCHANGED overrides
     \/ overrides' = ~overrides /\ UNCHANGED auto
  /\ ~(auto' /\ overrides')   \* bound: no call looks at both
  /\ UNCHANGED <<api, config, alive>>

Clear == Becomes(config_clear, config_setting_destroy(config, <<>>))

Read(text) ==
  LET c == config_read_string(text, overrides) IN
  /\ config' = c.tree
  /\ alive' = Restrict(alive, DOMAIN alive \ config_setting_destroy(config, <<>>))
  /\ UNCHANGED <<api, auto, overrides>>

(* The settings a named addition overrides.                                *)
Overridden(p, name) ==
  UNION { config_setting_destroy(config, q) :
            q \in config_setting_get_member(config, p, NameOf(config, p, name)) }

Fits(t) == Cardinality(DOMAIN t) <= MaxSettings

AddTo(p, name, type) ==
  LET added == config_setting_add(config, p, name, type, overrides) IN
  /\ \A t \in added : Fits(t)
  /\ Outcome(added, Overridden(p, name))

RemovePath(p, steps) ==
  Outcome(config_setting_remove(config, p, steps),
          UNION { config_setting_destroy(config, q) :
                    q \in config_setting_lookup(config, p, steps) })

RemoveElem(p, i) ==
  Outcome(config_setting_remove_elem(config, p, i),
          UNION { config_setting_destroy(config, q) :
                    q \in config_setting_get_elem(config, p, i) })

-----------------------------------------------------------------------------
(* The C functions.                                                        *)

CallSet(p, type, v) == Outcome(config_setting_set(config, p, type, v, auto), {})

CallSetElem(p, i, type, v) ==
  LET set == config_setting_set_elem(config, p, i, type, v, auto) IN
  /\ \A t \in set : Fits(t)
  /\ Outcome(set, {})

CallFromC(p) ==
  /\ api = "C"
  /\ \/ \E name \in Names, type \in AddedTypes : AddTo(p, name, type)
     \/ \E type \in Scalars : \E v \in Values[type] :
          \/ CallSet(p, type, v)
          \/ \E i \in -1 .. 1 : CallSetElem(p, i, type, v)
     \/ \E a \in Steps : RemovePath(p, <<a>>) \/ \E b \in Steps : RemovePath(p, <<a, b>>)
     \/ \E i \in 0 .. 1 : RemoveElem(p, i)

-----------------------------------------------------------------------------
(* The C++ classes, for a setting a reference to which the program has.    *)

_type(p) == alive[config[p].hook]

assertType(p, type) ==
  \/ _type(p) = type
  \/ /\ auto
     /\ {_type(p), type} \subseteq {"int", "int64", "float"}

(* The tree with a wrapper object for the setting: the one it has, or a    *)
(* new one; none if memory, a bound, is full.                              *)
Wrapped(t, objects, p) ==
  IF t[p].hook # NULL THEN {[tree |-> t, alive |-> objects]}
  ELSE { [ tree  |-> [t EXCEPT ![p].hook = w],
           alive |-> [x \in DOMAIN objects \cup {w} |->
                        IF x \in DOMAIN objects THEN objects[x] ELSE t[p].type] ] :
           w \in { w \in Wrappers \ DOMAIN objects :
                    \A other \in Wrappers \ DOMAIN objects : w <= other } }

Left(found) ==
  /\ config' = found.tree
  /\ alive' = found.alive
  /\ UNCHANGED <<api, auto, overrides>>

(* getRoot, lookup and operator[] give out a reference to a setting.       *)
wrapSetting(p) == \E found \in Wrapped(config, alive, p) : Left(found)

(* A reference to the setting added is given out.                          *)
AddWrapped(t, objects, p, name, type) ==
  LET added == config_setting_add(t, p, name, type, overrides)
      kept  == Restrict(objects, DOMAIN objects \ Overridden(p, name))
  IN  IF added = {} THEN Left([tree |-> t, alive |-> objects])
      ELSE \E u \in added :
             /\ Fits(u)
             /\ \E found \in Wrapped(u, kept, LastOf(u, p)) : Left(found)

addNamed(p, name, type) ==
  IF _type(p) = "group" /\ type # "none" THEN AddWrapped(config, alive, p, name, type)
                                         ELSE Refused

ElementAllowed_Unchecked(p, type) == TRUE                         \* mutant

(* An array takes scalars, of the type of its first element.               *)
ElementAllowed(p, type) ==
  _type(p) = "array" =>
    type \in { config[q].type : q \in config_setting_get_elem(config, p, 0) }
               \cup (IF Elements(config, p) = {} THEN Scalars ELSE {})

(* A look at the type of the first element gives out a reference to it.    *)
FirstWrapped(p) ==
  LET first == IF _type(p) = "array" THEN config_setting_get_elem(config, p, 0) ELSE {}
  IN  IF first = {} THEN {[tree |-> config, alive |-> alive]}
                    ELSE Wrapped(config, alive, The(first))

addElement(p, type) ==
  \/ _type(p) \notin {"array", "list"} /\ Refused
  \/ /\ _type(p) \in {"array", "list"}
     /\ \E seen \in FirstWrapped(p) :
          IF ElementAllowed(p, type) THEN AddWrapped(seen.tree, seen.alive, p, NULL, type)
                                     ELSE Left(seen)

(* operator= asserts the type and leaves the rest to the setter, whose     *)
(* result it does not look at.                                             *)
assign(p, type, v) ==
  LET set == config_setting_set(config, p, type, v, auto) IN
  IF assertType(p, type)
    THEN Becomes(IF set = {} THEN config ELSE The(set), {})
    ELSE Refused

(* The conversion operators assert the type, and give 0 where the getter   *)
(* finds nothing of it; the value in the tree t.                           *)
converted(t, p, type) ==
  LET found == ReadAs(type, t[p].type, t[p].value, auto) IN
  IF ~assertType(p, type) THEN {} ELSE IF found = {} THEN {0} ELSE found

(* lookupValue finds a setting by its path and converts it, or fails.      *)
lookupValue(t, steps, type) ==
  UNION { converted(t, p, type) : p \in config_setting_lookup(t, <<>>, steps) }

(* Setting::lookupValue does the same with a member, by its name.          *)
memberValue(t, p, name, type) ==
  UNION { converted(t, q, type) : q \in config_setting_get_member(t, p, name) }

removeNamed(p, step) == IF _type(p) = "group" THEN RemovePath(p, <<step>>) ELSE Refused

removeElem(p, i) == IF _type(p) \in Aggregates THEN RemoveElem(p, i) ELSE Refused

CallFromCpp(p) ==
  /\ api = "C++"
  /\ \/ wrapSetting(p)
     \/ /\ config[p].hook # NULL
        /\ \/ \E name \in Names, type \in AddedTypes : addNamed(p, name, type)
           \/ \E type \in AddedTypes : addElement(p, type)
           \/ \E type \in Scalars : \E v \in Values[type] : assign(p, type, v)
           \/ \E step \in Steps : removeNamed(p, step)
           \/ \E i \in 0 .. 1 : removeElem(p, i)

-----------------------------------------------------------------------------

ApiNext ==
  \/ config_set_option
  \/ Clear
  \/ \E text \in Texts : Read(text)
  \/ \E p \in DOMAIN config : CallFromC(p) \/ CallFromCpp(p)

ApiSpec == config_init /\ [][ApiNext]_apiVars

-----------------------------------------------------------------------------
(* Properties.                                                             *)

(* The settings form a tree, numbered without gaps, and only aggregates    *)
(* have children.                                                          *)
ApiTypeOK ==
  /\ \A p \in DOMAIN config :
       /\ config[p].type \in Types
       /\ config[p].hook \in Wrappers \cup {NULL}
       /\ p # <<>> => config[Front(p)].type \in Aggregates
       /\ p # <<>> /\ Last(p) > 0 => Append(Front(p), Last(p) - 1) \in DOMAIN config
  /\ config[<<>>].type = "group"

(* Every setting can be found again by its path, and nothing else is found *)
(* there: no two members of a group share a name, whatever was overridden, *)
(* removed or read.                                                        *)
StepTo(p) == IF config[Front(p)].type = "group" THEN [name |-> config[p].name]
                                                ELSE [elem |-> Last(p)]

PathTo(p) == [k \in DOMAIN p |-> StepTo(SubSeq(p, 1, k))]

PathsFindSettings ==
  \A p \in DOMAIN config \ {<<>>} : config_setting_lookup(config, <<>>, PathTo(p)) = {p}

(* An array keeps to one scalar type (libconfig.texi:491), and so can be   *)
(* read back after it was written: true of what is read and of what the    *)
(* C++ classes build, which check what config_setting_add does not.        *)
Homogeneous(t) ==
  \A p \in DOMAIN t : t[p].type = "array" =>
    \E type \in Scalars : \A q \in Elements(t, p) : t[q].type = type

ArraysHaveOneType == api = "C++" => Homogeneous(config)

(* The values alone: a NULL string is written as an empty one.             *)
Shape(t) ==
  [p \in DOMAIN t |-> <<t[p].name, t[p].type,
                        IF t[p].type = "string" /\ t[p].value = 0 THEN 1 ELSE t[p].value>>]

Writable(t) ==
  /\ Homogeneous(t)
  /\ \A p \in DOMAIN t : t[p].type # "none" /\ t[p].name \notin ReservedNames

(* A configuration written, with separators or without, is the same when   *)
(* it is read again.                                                       *)
WrittenReadsBack ==
  Writable(config) =>
    \A separators \in BOOLEAN :
      LET c == config_read_string(config_write(config, separators), overrides)
      IN  c.error = NULL /\ Shape(c.tree) = Shape(config)

(* The setting written last: it and what it is in have nothing after them. *)
Newest(t, p) ==
  \A k \in 0 .. Len(p) :
    config_setting_length(t, SubSeq(p, 1, k)) = IF k = Len(p) THEN 0 ELSE p[k + 1] + 1

Numbers == {"int", "int64", "float"}

WholePart(s) == IF s.type = "float" THEN s.value \div 2 ELSE s.value

BeginsLike(cut, s) ==
  /\ {cut.type, s.type} \subseteq Numbers
  /\ cut.type = "float" => s.type = "float" /\ cut.value % 2 = 0
  /\ WholePart(cut) \in LeadingDigits(WholePart(s))

(* config_write_file writes over the old file and does not notice a full   *)
(* disk.  A text cut short can still be a configuration: then all settings *)
(* in it are as they were, but that the last, at the top, may be a number  *)
(* that lost digits at its end.  Nothing in brackets, and no name, string  *)
(* or boolean is cut unnoticed.  Of a text that is not one, all but the    *)
(* last setting are as they were, unless settings may override: then its   *)
(* name, cut short, may be that of an earlier one, which is removed.       *)
CutLosesTheEnd ==
  Writable(config) =>
    \A separators \in BOOLEAN : \A text \in CutTexts(config_write(config, separators)) :
      LET c    == config_read_string(text, overrides)
          t    == c.tree
          same == { p \in DOMAIN t \cap DOMAIN config : Shape(t)[p] = Shape(config)[p] }
      IN  /\ c.error = NULL =>
               \A p \in DOMAIN t \ same :
                 /\ Len(p) = 1 /\ Newest(t, p) /\ p \in DOMAIN config
                 /\ t[p].name = config[p].name /\ BeginsLike(t[p], config[p])
          /\ c.error # NULL /\ ~overrides =>
               \A p \in DOMAIN t \ same : Newest(t, p) /\ p \in DOMAIN config

(* Every wrapper object belongs to one setting and dies with it, however   *)
(* the setting goes: removed, overridden, or below one that is, or when    *)
(* the next text is read.  What it knows of the type stays true.           *)
WrappersFollowSettings ==
  /\ DOMAIN alive = Hooks(config, DOMAIN config)
  /\ \A p, q \in DOMAIN config :
       config[p].hook = config[q].hook => p = q \/ config[p].hook = NULL
  /\ \A p \in DOMAIN config : config[p].hook # NULL => _type(p) = config[p].type

(* libconfig.texi:1893: an assignment throws an exception on a mismatch of *)
(* types.  operator= does not look at the setter's result: with automatic  *)
(* conversion two values are lost, and nobody is told.                     *)
LostInSilence(type, old, v) ==
  /\ auto
  /\ \/ type = "int64" /\ old = "int" /\ v \notin Ints
     \/ type = "int" /\ old = "int64"

(* Conversions that may lose: a float keeps the integers up to FLT_EXACT,  *)
(* an integer no fraction, an int no float beyond its range.               *)
Loses(type, old, v) ==
  \/ type \in {"int", "int64"} /\ old = "float" /\ v > FLT_EXACT
  \/ type = "float" /\ old \in {"int", "int64"} /\ v % 2 = 1
  \/ type = "float" /\ old = "int" /\ v \div 2 \notin Ints

(* The value is found at the setting's path, and under its name in a group. *)
FoundAgain(t, p, type, v) ==
  /\ config_lookup_value(t, PathTo(p), type, auto) = {v}
  /\ p # <<>> /\ t[Front(p)].type = "group" =>
       config_setting_lookup_value(t, Front(p), t[p].name, type, auto) = {v}

FoundByWrapper(t, p, type, v) ==
  /\ lookupValue(t, PathTo(p), type) = {v}
  /\ p # <<>> /\ t[Front(p)].type = "group" =>
       memberValue(t, Front(p), t[p].name, type) = {v}

(* What a setter stores, the getters of the same type give back, in a      *)
(* setting of any type that takes it, from wherever they look for it; and  *)
(* a C++ assignment that does not throw is what the lookupValue functions  *)
(* then find.                                                              *)
SettersReadBack ==
  \A type \in Scalars : \A v \in Values[type] :
    \A p \in { p \in DOMAIN config : ~Loses(type, config[p].type, v) } :
      LET set == config_setting_set(config, p, type, v, auto) IN
      /\ \A t \in set : FoundAgain(t, p, type, v)
      /\ config[p].hook # NULL /\ assertType(p, type) =>
           IF set = {} THEN LostInSilence(type, config[p].type, v)
                       ELSE FoundByWrapper(The(set), p, type, v)
===============================================================================
