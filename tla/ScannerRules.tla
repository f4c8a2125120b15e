----------------------------- MODULE ScannerRules -----------------------------
(***************************************************************************)
(* scanner.l: the patterns of the rules, by number, as sets of texts, and  *)
(* what the longest-match discipline chooses among them.                   *)
(***************************************************************************)
EXTENDS Integers, SequencesExt, FiniteSetsExt, TLC

(* The start conditions; QUOTED is STRING, a word of TLA+.                 *)
INITIAL == 0
SINGLE_LINE_COMMENT == 1
MULTI_LINE_COMMENT == 2
QUOTED == 3
INCLUDE == 4

(* A character is the one that stands for its class; g for the letters no  *)
(* pattern names, 1 for the digits but 0, ! for what no pattern names.     *)
Upper   == {"E", "F", "L", "R", "T", "U"}
Lower   == {"a", "b", "c", "d", "e", "f", "g", "i", "l", "n", "r", "s", "t", "u", "x"}
Digits  == {"0", "1"}
HexDigits == Digits \union {"a", "b", "c", "d", "e", "f", "E", "F"}
Blanks  == {" "}

Over(s, set) == s # <<>> /\ ToSet(s) \subseteq set

Signless(s) == IF s # <<>> /\ s[1] \in {"+", "-"} THEN Tail(s) ELSE s

(* The texts made of a word in either case, letter by letter.              *)
Word(s, letters) == Len(s) = Len(letters) /\ \A i \in DOMAIN s : s[i] \in letters[i]

true    == << {"t", "T"}, {"r", "R"}, {"u", "U"}, {"e", "E"} >>
false   == << {"f", "F"}, {"a"}, {"l", "L"}, {"s"}, {"e", "E"} >>
name(s) == /\ s # <<>> /\ s[1] \in Upper \union Lower \union {"*"}
           /\ ToSet(s) \subseteq Upper \union Lower \union Digits \union {"*", "-", "_"}

integer(s) == Over(Signless(s), Digits)
hex(s)     == Len(s) > 2 /\ s[1] = "0" /\ s[2] = "x" /\ Over(SubSeq(s, 3, Len(s)), HexDigits)

(* What is left of a text before the one or two L of a long number.         *)
BeforeMark(s) ==
  { SubSeq(s, 1, Len(s) - n) : n \in { k \in {1, 2} : Len(s) > k /\ Over(SubSeq(s, Len(s) - k + 1, Len(s)), {"L"}) } }

integer64(s) == \E number \in BeforeMark(s) : integer(number)
hex64(s)     == \E number \in BeforeMark(s) : hex(number)

(* Digits, a point, digits, and an exponent or none; or digits, a point    *)
(* and digits or none, and an exponent.                                    *)
float(s) ==
  LET u            == Signless(s)
      Exponent(x)  == x # <<>> /\ x[1] \in {"e", "E"} /\ integer(Tail(x))
      Fraction(x)  == Cardinality({i \in DOMAIN x : x[i] = "."}) = 1 /\ ToSet(x) \subseteq Digits \union {"."}
  IN \/ Fraction(u)
     \/ \E k \in 1 .. Len(u) - 1 :
          /\ Exponent(SubSeq(u, k + 1, Len(u)))
          /\ LET m == SubSeq(u, 1, k) IN Fraction(m) \/ Over(m, Digits)

(* Blanks, the word, blanks, the quote.                                    *)
include_open(s) ==
  LET word == <<"@", "i", "n", "c", "l", "u", "d", "e">>
  IN /\ Len(s) > 9 /\ Last(s) = "\""
     /\ \E k \in 0 .. Len(s) - 10 :
          /\ SubSeq(s, k + 1, k + 8) = word
          /\ \A i \in (1 .. k) \union (k + 9 .. Len(s) - 1) : s[i] \in Blanks

One(s, set) == Len(s) = 1 /\ s[1] \in set
Escaped(s, c) == s = <<"\\", c>>

(* What a rule matches.  A dot is any character but the end of a line.     *)
Matches(rule, s) ==
  CASE rule = 1  -> s \in {<<"#">>, <<"/", "/">>}
    [] rule \in {2, 7} -> s = <<"\n">>
    [] rule \in {3, 6, 43} -> Len(s) = 1 /\ s # <<"\n">>
    [] rule = 4  -> s = <<"/", "*">>
    [] rule = 5  -> s = <<"*", "/">>
    [] rule \in {8, 18, 23} -> s = <<"\"">>
    [] rule \in {9, 20} -> s # <<>> /\ ToSet(s) \intersect {"\"", "\\"} = {}
    [] rule = 10 -> Escaped(s, "n")
    [] rule = 11 -> Escaped(s, "r")
    [] rule = 12 -> Escaped(s, "t")
    [] rule = 13 -> Escaped(s, "f")
    [] rule \in {14, 21} -> Escaped(s, "\\")
    [] rule \in {15, 22} -> Escaped(s, "\"")
    [] rule = 16 -> Len(s) = 4 /\ s[1] = "\\" /\ s[2] = "x" /\ {s[3], s[4]} \subseteq HexDigits
    [] rule = 17 -> s = <<"\\">>
    [] rule = 19 -> include_open(s)
    [] rule = 24 -> One(s, {"\n", "\r", "\f"})
    [] rule = 25 -> Over(s, Blanks)
    [] rule = 26 -> One(s, {"=", ":"})
    [] rule = 27 -> s = <<",">>
    [] rule = 28 -> s = <<"{">>
    [] rule = 29 -> s = <<"}">>
    [] rule = 30 -> Word(s, true)
    [] rule = 31 -> Word(s, false)
    [] rule = 32 -> name(s)
    [] rule = 33 -> float(s)
    [] rule = 34 -> integer(s)
    [] rule = 35 -> integer64(s)
    [] rule = 36 -> hex(s)
    [] rule = 37 -> hex64(s)
    [] rule = 38 -> s = <<"[">>
    [] rule = 39 -> s = <<"]">>
    [] rule = 40 -> s = <<"(">>
    [] rule = 41 -> s = <<")">>
    [] rule = 42 -> s = <<";">>
    [] rule = 44 -> Len(s) = 1

(* The rules of a start condition; 44 is flex's own, for any character.    *)
Rules(condition, at_bol) ==
  {44} \union
  CASE condition = INITIAL             -> {1, 4, 8} \union (24 .. 43) \union IF at_bol THEN {19} ELSE {}
    [] condition = SINGLE_LINE_COMMENT -> {2, 3}
    [] condition = MULTI_LINE_COMMENT  -> {5, 6, 7}
    [] condition = QUOTED              -> 9 .. 18
    [] condition = INCLUDE             -> 20 .. 23

(* The longest prefix of a text some rule matches, by the first such rule. *)
LongestMatch(condition, at_bol, text) ==
  LET Of(n)  == {r \in Rules(condition, at_bol) : Matches(r, SubSeq(text, 1, n))}
      length == Max({n \in 1 .. Len(text) : Of(n) # {}})
  IN [rule |-> Min(Of(length)), length |-> length]
===============================================================================
