------------------------------ MODULE MCScanner -------------------------------
(***************************************************************************)
(* The scanner on texts made of up to three pieces, in buffers of two      *)
(* characters at first, so that every token is cut somewhere.              *)
(***************************************************************************)
EXTENDS Scanner

(* The end of a line, blanks, quotes, escapes, comments, numbers that are  *)
(* prefixes of others, words, a NUL and the directive.                     *)
MCDirective == <<"@", "i", "n", "c", "l", "u", "d", "e", " ", "\"">>

MCPieces ==
  { <<"\n">>, <<" ">>, <<"\"">>, <<"\\">>, <<"#">>, <<"/", "*">>, <<"*", "/">>,
    <<"x">>, <<"0">>, <<"1", "L">>, <<"-", "1">>, <<".">>, <<"e">>,
    <<"t", "R", "u", "e">>, <<"NUL">>, <<"{">>,
    MCDirective, MCDirective \o <<"\"">> }

(* The escapes, an escaped path, the long forms of numbers, and each       *)
(* character once.                                                         *)
MCSamples ==
  { <<"\"", "\\", "x", "1", "e", "\\", "n", "\\", "r", "\\", "t", "\\", "f", "\\", "\\",
      "\\", "\"", "\\", "x", "1", "g", "\"">>,
    MCDirective \o <<"b", "\\", "\\", "\\", "\"", "\\", "c", "\"", "1">>,
    <<"0", "x", "1", "F", "L", "L", "L">>, <<"0", "x", "g">>, <<"+", "1", "L", "L", ",">>,
    <<"-", ".", "1", "e", "+", "g">>, <<"1", ".", "E", "-", "0", "1", ".">>,
    <<"F", "a", "l", "s", "E", "=", "f", "a", "l", "s", "e", "_">>,
    yy_ec, SelectSeq(yy_ec, LAMBDA c : c \notin {"#", "\""}) }

MCTexts == { FlattenSeq(s) : s \in SeqOf(MCPieces, 3) } \union MCSamples

(* The files included: one that ends in a token, and one that opens a      *)
(* comment, after one with an include of its own.                          *)
MCIncluded == { << <<"\n", "1">> >>, << MCDirective \o <<"\"", "\n">>, <<"/", "*">> >> }
===============================================================================
