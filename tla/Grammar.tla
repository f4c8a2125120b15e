------------------------------- MODULE Grammar --------------------------------
(***************************************************************************)
(* yyparse, the table-driven parser Bison made of grammar.y (grammar.c).   *)
(* The scanner hands it one token at a time; the parser goes on until it   *)
(* needs a token to decide, accepts, or fails.                             *)
(*                                                                         *)
(* The value stack is read at its top only, right after a token is         *)
(* shifted: yylval stands for it.  Numbers in hex are numbers here.        *)
(***************************************************************************)
EXTENDS ConfigText

CONSTANT YYMAXDEPTH      \* the states the stack may grow to

(* The tables, from index 0.                                               *)
Entry(table, i) == table[i + 1]

YYFINAL   == 6
YYLAST    == 35
YYNTOKENS == 23
YYTERROR  == 1

YYPACT_NINF == -26

yypact == << -8, -26, 12, -8, -26, 5, -26, -26, 0, -26, -26, -26, -26, -26, -26, -26,
  -26, -26, -26, -26, -26, -6, 10, -26, -26, 23, 0, -8, -26, -26, -26, -26, -26, 3, 7,
  -26, 6, 8, -8, 14, 23, -26, 0, -26, -26, -26, -26 >>

yydefact == << 2, 11, 0, 3, 4, 0, 1, 5, 0, 23, 24, 26, 25, 27, 28, 21, 13, 15, 40, 18,
  19, 8, 29, 17, 20, 38, 33, 6, 10, 9, 12, 22, 35, 39, 0, 30, 34, 0, 7, 0, 37, 14, 32,
  16, 41, 36, 31 >>

yypgoto == << -26, -26, -5, -26, -26, -3, -26, -26, -26, -26, -26, -25, -26, -15, -26,
  -26, -26, -26, -26, -26 >>

yydefgoto == << -1, 2, 3, 39, 30, 4, 5, 19, 25, 20, 26, 21, 22, 23, 36, 37, 33, 34, 24,
  27 >>

yytable == << 7, 35, 1, 9, 10, 11, 12, 13, 14, 15, 32, 28, 6, 16, 29, 17, 8, 46, 18, 31,
  40, 41, 38, 42, 43, 45, 9, 10, 11, 12, 13, 14, 15, 44, 0, 7 >>

yycheck == << 3, 26, 10, 3, 4, 5, 6, 7, 8, 9, 25, 17, 0, 13, 20, 15, 11, 42, 18, 9, 17,
  14, 27, 17, 16, 40, 3, 4, 5, 6, 7, 8, 9, 19, -1, 38 >>

yystos == << 0, 10, 24, 25, 28, 29, 0, 28, 11, 3, 4, 5, 6, 7, 8, 9, 13, 15, 18, 30, 32,
  34, 35, 36, 41, 31, 33, 42, 17, 20, 27, 9, 36, 39, 40, 34, 37, 38, 25, 26, 17, 14, 17,
  16, 19, 36, 34 >>

yyr1 == << 0, 23, 24, 24, 25, 25, 26, 26, 27, 27, 27, 29, 28, 31, 30, 33, 32, 34, 34, 34,
  34, 35, 35, 36, 36, 36, 36, 36, 36, 36, 37, 37, 37, 38, 38, 39, 39, 39, 40, 40, 42,
  41 >>

yyr2 == << 0, 2, 0, 1, 1, 2, 0, 1, 0, 1, 1, 0, 5, 0, 4, 0, 4, 1, 1, 1, 1, 1, 2, 1, 1, 1,
  1, 1, 1, 1, 1, 3, 2, 0, 1, 1, 3, 2, 0, 1, 0, 4 >>

yytranslate ==
  "EOF" :> 0 @@ "BOOLEAN" :> 3 @@ "INTEGER" :> 4 @@ "INTEGER64" :> 6 @@ "FLOAT" :> 8
    @@ "STRING" :> 9 @@ "NAME" :> 10 @@ "=" :> 11 @@ "[" :> 13 @@ "]" :> 14 @@ "(" :> 15
    @@ ")" :> 16 @@ "," :> 17 @@ "{" :> 18 @@ "}" :> 19 @@ ";" :> 20 @@ "GARBAGE" :> 21
    @@ "ERROR" :> 22

-----------------------------------------------------------------------------
(* The parser: a parse context with the stack of states.                   *)

Parser(c) == c @@ [ yyss |-> <<0>>, yychar |-> NULL, yylval |-> NULL, accepted |-> FALSE ]

State(y) == Last(y.yyss)

(* The entry of the packed table for a state and a symbol, if there is one. *)
Listed(row, symbol) ==
  row # YYPACT_NINF /\ row + symbol \in 0 .. YYLAST /\ Entry(yycheck, row + symbol) = symbol

yysetstate(y, state) ==
  [y EXCEPT !.yyss     = Append(@, state),
            !.error    = IF Len(y.yyss) + 1 >= YYMAXDEPTH THEN "memory exhausted" ELSE @,
            !.accepted = (state = YYFINAL)]

Recovers(state) == Listed(Entry(yypact, state), YYTERROR)

(***************************************************************************)
(* yyerrlab1 pops the states that do not shift the error token: all of     *)
(* them, and the parser gives up.                                          *)
(***************************************************************************)
yyerrlab(y) == [Failed(y, "syntax error") EXCEPT !.yyss = SelectSeq(@, Recovers)]

RuleOfType   == 23 :> "bool" @@ 24 :> "int" @@ 25 :> "int64" @@ 28 :> "float"
RuleOpens    == 13 :> "array" @@ 15 :> "list" @@ 40 :> "group"
RulesToClose == {14, 16, 41}

RuleAction(rule, c, at) ==
  CASE rule = 11                  -> TakeName(c, c.yylval.name, at)
    [] rule \in DOMAIN RuleOpens  -> Open(c, RuleOpens[rule], at)
    [] rule \in RulesToClose      -> Close(c)
    [] rule \in {21, 22}          -> append_string(c, c.yylval.val)
    [] rule \in DOMAIN RuleOfType -> simple_value(c, RuleOfType[rule], c.yylval.val, at)
    [] rule = 29                  -> take_string(c, at)
    [] OTHER                      -> c

Goto_Default(symbol, state) ==                                  \* mutant: yypgoto not looked at
  Entry(yydefgoto, symbol - YYNTOKENS)

Goto(symbol, state) ==
  LET row == Entry(yypgoto, symbol - YYNTOKENS) + state IN
  IF row \in 0 .. YYLAST /\ Entry(yycheck, row) = state THEN Entry(yytable, row)
                                                        ELSE Entry(yydefgoto, symbol - YYNTOKENS)

yyreduce(y, rule, at) ==
  LET left == Len(y.yyss) - Entry(yyr2, rule) IN
  The({ IF z.error # NULL THEN z ELSE yysetstate(z, Goto(Entry(yyr1, rule), State(z))) :
          z \in {[RuleAction(rule, y, at) EXCEPT !.yyss = SubSeq(@, 1, left)]} })

yydefault(y, at) ==
  LET rule == Entry(yydefact, State(y)) IN
  IF rule = 0 THEN yyerrlab(y) ELSE yyreduce(y, rule, at)

Done(y) == y.error # NULL \/ y.accepted

NeedsToken(y) == Entry(yypact, State(y)) # YYPACT_NINF /\ y.yychar = NULL

(* One round from yybackup back to it.                                     *)
yybackup(y, at) ==
  LET row    == Entry(yypact, State(y))
      symbol == yytranslate[y.yychar.tok]
  IN  IF row = YYPACT_NINF \/ ~Listed(row, symbol) THEN yydefault(y, at)
      ELSE yysetstate([y EXCEPT !.yylval = y.yychar, !.yychar = NULL],
                      Entry(yytable, row + symbol))

Rounds == 12             \* more than a token ever takes

(* The parser takes a token, and goes on until it needs the next.          *)
TakeToken(y, k, at) ==
  FoldLeft(LAMBDA d, i :
             The({ IF Done(z) \/ NeedsToken(z) THEN z ELSE yybackup(z, at) : z \in {d} }),
           [y EXCEPT !.yychar = k], [i \in 1 .. Rounds |-> i])

yyparse(y, tokens, at) ==
  FoldLeft(LAMBDA d, k : The({ IF Done(z) THEN z ELSE TakeToken(z, k, at) : z \in {d} }),
           y, tokens)

(* The brackets open on the stack of states.                               *)
Brackets == 13 :> "array" @@ 15 :> "list" @@ 18 :> "group"

OpenBrackets(y) ==
  LET symbols == [i \in DOMAIN y.yyss |-> Entry(yystos, y.yyss[i])]
      open    == SelectSeq(symbols, LAMBDA s : s \in DOMAIN Brackets)
  IN  [i \in DOMAIN open |-> Brackets[open[i]]]
===============================================================================
