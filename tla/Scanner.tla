------------------------------- MODULE Scanner --------------------------------
(***************************************************************************)
(* yylex, the scanner flex made of scanner.l (scanner.c): a table-driven   *)
(* automaton over a buffer that is refilled, moved and grown while a token *)
(* is still open, and the buffers of the files that include others.        *)
(*                                                                         *)
(* A character is the one that stands for its class in yy_ec; "NUL" is the *)
(* zero byte.  What a rule makes of its text (numbers, strings) is         *)
(* ConfigText's subject; here a rule is its number, its text, and the      *)
(* start condition it leaves.  ConfigReader has the files of the includes. *)
(*                                                                         *)
(* yylex is called until it has returned the end of the input or TOK_ERROR *)
(* from an include; a parser that fails on a token merely stops calling.   *)
(***************************************************************************)
EXTENDS ScannerRules

CONSTANTS
  Texts,               \* what may be scanned: sequences of characters
  Included,            \* the lists of texts an include may open
  YY_BUF_SIZE,         \* the characters a buffer has room for at first
  YY_READ_BUF_SIZE,    \* the most characters one read asks for
  MAX_INCLUDE_DEPTH

ASSUME SizesAreCounts == YY_BUF_SIZE \in Nat \ {0} /\ YY_READ_BUF_SIZE \in Nat \ {0}

(* The tables, from index 0; yy_ec from class 1, class 0 is NUL's.         *)
Entry(table, i) == table[i + 1]

yy_accept == << 0, 0, 0, 0, 0, 0, 0, 0, 0, 0, 0, 45, 43, 25, 24, 24, 8, 1, 40, 41, 32,
  43, 27, 33, 43, 34, 34, 26, 42, 32, 32, 38, 39, 28, 29, 25, 43, 3, 2, 6, 7, 6, 9, 18,
  17, 20, 23, 44, 25, 32, 33, 34, 33, 0, 4, 1, 33, 0, 35, 0, 32, 32, 25, 0, 0, 5, 9, 15,
  0, 14, 13, 10, 11, 12, 20, 22, 21, 0, 33, 33, 0, 0, 33, 35, 36, 32, 32, 0, 0, 0, 33, 37,
  32, 30, 0, 16, 37, 31, 0, 0, 0, 0, 0, 19, 0 >>

yy_meta == << 0, 1, 1, 1, 1, 1, 2, 1, 1, 1, 3, 1, 1, 3, 1, 1, 4, 4, 1, 1, 1, 1, 4, 4, 4,
  4, 3, 3, 3, 3, 3, 3, 3, 1, 2, 1, 3, 4, 4, 4, 4, 3, 3, 3, 3, 3, 3, 1, 1 >>

yy_base == << 0, 0, 47, 199, 198, 47, 48, 46, 47, 48, 49, 200, 203, 197, 203, 203, 203,
  203, 203, 203, 0, 45, 203, 47, 50, 60, 74, 203, 203, 176, 28, 203, 203, 203, 203, 64,
  156, 203, 203, 203, 203, 181, 0, 203, 63, 0, 203, 83, 191, 0, 88, 102, 98, 62, 203, 203,
  104, 119, 162, 0, 67, 65, 121, 127, 124, 203, 0, 203, 0, 203, 203, 203, 203, 203, 0,
  203, 203, 108, 117, 122, 134, 132, 136, 203, 139, 136, 116, 126, 0, 140, 142, 135, 130,
  0, 102, 203, 203, 0, 85, 72, 63, 98, 158, 203, 203, 169, 173, 177, 181, 183, 187, 191,
  89, 66, 63 >>

yy_def == << 0, 104, 1, 105, 105, 106, 106, 107, 107, 108, 108, 104, 104, 104, 104, 104,
  104, 104, 104, 104, 109, 104, 104, 104, 104, 104, 104, 104, 104, 109, 109, 104, 104,
  104, 104, 104, 104, 104, 104, 104, 104, 104, 110, 104, 104, 111, 104, 104, 104, 109,
  104, 104, 104, 104, 104, 104, 104, 104, 104, 112, 109, 109, 104, 104, 104, 104, 110,
  104, 113, 104, 104, 104, 104, 104, 111, 104, 104, 104, 104, 104, 104, 104, 104, 104,
  112, 109, 109, 104, 114, 104, 104, 104, 109, 109, 104, 104, 104, 109, 104, 104, 104,
  104, 104, 104, 0, 104, 104, 104, 104, 104, 104, 104, 104, 104, 104 >>

yy_nxt == << 0, 12, 13, 14, 15, 15, 16, 17, 18, 19, 20, 21, 22, 21, 23, 24, 25, 26, 27,
  28, 27, 12, 20, 20, 20, 29, 20, 20, 20, 20, 30, 20, 20, 31, 12, 32, 12, 20, 20, 20, 29,
  20, 20, 20, 20, 30, 20, 33, 34, 35, 40, 40, 43, 43, 46, 46, 61, 41, 41, 50, 54, 51, 51,
  52, 52, 55, 62, 95, 36, 67, 88, 53, 61, 77, 56, 77, 51, 51, 78, 78, 44, 44, 47, 47, 57,
  63, 53, 58, 56, 75, 51, 51, 59, 84, 85, 68, 86, 69, 57, 57, 102, 58, 101, 70, 52, 52,
  71, 72, 73, 85, 100, 86, 53, 57, 52, 52, 56, 76, 51, 51, 79, 79, 53, 62, 78, 78, 57, 53,
  80, 58, 81, 99, 81, 78, 78, 82, 82, 53, 79, 79, 93, 57, 63, 80, 98, 89, 80, 89, 82, 82,
  90, 90, 82, 82, 97, 93, 90, 90, 90, 90, 102, 80, 96, 94, 103, 92, 91, 87, 64, 97, 37,
  37, 37, 37, 39, 39, 39, 39, 42, 42, 42, 42, 45, 45, 45, 45, 49, 49, 66, 83, 66, 66, 74,
  48, 74, 74, 65, 64, 60, 48, 104, 38, 38, 11, 104, 104, 104, 104, 104, 104, 104, 104,
  104, 104, 104, 104, 104, 104, 104, 104, 104, 104, 104, 104, 104, 104, 104, 104, 104,
  104, 104, 104, 104, 104, 104, 104, 104, 104, 104, 104, 104, 104, 104, 104, 104, 104,
  104, 104, 104, 104, 104, 104 >>

yy_chk == << 0, 1, 1, 1, 1, 1, 1, 1, 1, 1, 1, 1, 1, 1, 1, 1, 1, 1, 1, 1, 1, 1, 1, 1, 1,
  1, 1, 1, 1, 1, 1, 1, 1, 1, 1, 1, 1, 1, 1, 1, 1, 1, 1, 1, 1, 1, 1, 1, 1, 2, 5, 6, 7, 8,
  9, 10, 30, 5, 6, 21, 24, 21, 21, 23, 23, 24, 35, 114, 2, 44, 113, 23, 30, 53, 25, 53,
  25, 25, 53, 53, 7, 8, 9, 10, 25, 35, 23, 25, 26, 47, 26, 26, 25, 112, 60, 44, 61, 44,
  26, 25, 101, 26, 100, 44, 50, 50, 44, 44, 44, 60, 99, 61, 50, 26, 52, 52, 51, 47, 51,
  51, 56, 56, 52, 62, 77, 77, 51, 50, 56, 51, 57, 98, 57, 78, 78, 57, 57, 52, 79, 79, 86,
  51, 62, 56, 94, 80, 79, 80, 81, 81, 80, 80, 82, 82, 92, 86, 89, 89, 90, 90, 102, 79, 91,
  87, 102, 85, 84, 64, 63, 92, 105, 105, 105, 105, 106, 106, 106, 106, 107, 107, 107, 107,
  108, 108, 108, 108, 109, 109, 110, 58, 110, 110, 111, 48, 111, 111, 41, 36, 29, 13, 11,
  4, 3, 104, 104, 104, 104, 104, 104, 104, 104, 104, 104, 104, 104, 104, 104, 104, 104,
  104, 104, 104, 104, 104, 104, 104, 104, 104, 104, 104, 104, 104, 104, 104, 104, 104,
  104, 104, 104, 104, 104, 104, 104, 104, 104, 104, 104, 104, 104, 104, 104, 104 >>

yy_rule_can_match_eol == << 0, 0, 1, 0, 0, 0, 0, 1, 0, 1, 0, 0, 0, 0, 0, 0, 0, 0, 0, 0,
  1, 0, 0, 0, 1, 0, 0, 0, 0, 0, 0, 0, 0, 0, 0, 0, 0, 0, 0, 0, 0, 0, 0, 0, 0 >>

yy_ec == << "!", " ", "\n", "\f", "\r", "\"", "#", "(", ")", "*", "+", ",", "-", ".",
  "/", "0", "1", ":", ";", "=", "@", "a", "b", "E", "F", "g", "L", "R", "s", "T", "U",
  "x", "[", "\\", "]", "_", "c", "d", "e", "f", "i", "l", "n", "r", "t", "u", "{", "}" >>

JAM               == 104
YY_END_OF_BUFFER  == 45
YY_NUM_RULES      == 44
Class(c)          == IF c = "NUL" THEN 0 ELSE CHOOSE k \in DOMAIN yy_ec : yy_ec[k] = c
Characters        == {"NUL"} \union ToSet(yy_ec)

RECURSIVE NextState(_, _)
NextState(state, class) ==
  IF Entry(yy_chk, Entry(yy_base, state) + class) = state
  THEN Entry(yy_nxt, Entry(yy_base, state) + class)
  ELSE LET default == Entry(yy_def, state)
       IN NextState(default, IF default >= 105 THEN Entry(yy_meta, class) ELSE class)

(* The packed tables, unpacked once: the state after a state and a class.  *)
yy_trans == [p \in (1 .. JAM) \X (0 .. Len(yy_ec)) |-> NextState(p[1], p[2])]

Classes == [c \in Characters |-> Class(c)]

-----------------------------------------------------------------------------
VARIABLES
  buffer,         \* the current buffer
  includes,       \* the include stack: the buffer that waits, the files to come
  yy_c_buf_p,     \* positions in the buffer count from 0
  yytext_ptr,
  yy_start,       \* the start condition, doubled, plus one
  last,           \* yy_last_accepting_state and its yy_last_accepting_cpos
  yy_act, yytext, \* the rule matched last, and its text
  pc              \* what yylex goes on with

vars == <<buffer, includes, yy_c_buf_p, yytext_ptr, yy_start, last, yy_act, yytext, pc>>

(* The start condition a rule leaves, where it names one.                  *)
BEGIN == 1 :> SINGLE_LINE_COMMENT @@ 2 :> INITIAL @@ 4 :> MULTI_LINE_COMMENT @@ 5 :> INITIAL
           @@ 8 :> QUOTED @@ 18 :> INITIAL @@ 19 :> INCLUDE @@ 23 :> INITIAL

YY_START == (yy_start - 1) \div 2

-----------------------------------------------------------------------------
(* The buffers.  ch_buf has the yy_n_chars characters before the two       *)
(* end-of-buffer bytes, file what the stream still has; text, all of it,   *)
(* is kept for the properties.                                             *)

yy_flush_buffer(b) == [b EXCEPT !.ch_buf = <<>>, !.pos = 0, !.at_bol = TRUE, !.status = "NEW"]

(* The line is the current buffer's own when it is read to its end.        *)
yy_init_buffer_FromLineOne(b, isCurrent) ==                 \* mutant: never kept
  [yy_flush_buffer(b) EXCEPT !.fill = TRUE, !.lineno = 1]

yy_init_buffer(b, isCurrent) ==
  [yy_flush_buffer(b) EXCEPT !.fill = TRUE, !.lineno = IF isCurrent THEN @ ELSE 1]

(* At the end of the file the scanner starts over in the same buffer.      *)
yyrestart(b) == yy_init_buffer(b, TRUE)

NoBuffer == [ch_buf |-> <<>>, size |-> 0, fill |-> FALSE, status |-> "NEW", pos |-> 0,
             at_bol |-> TRUE, lineno |-> 1, file |-> <<>>, text |-> <<>>]

yy_create_buffer(text) ==
  yy_init_buffer([NoBuffer EXCEPT !.size = YY_BUF_SIZE, !.file = text, !.text = text], FALSE)

(* The bytes up to the first NUL; the line is set by config_read_string.   *)
yy_scan_string(text) ==
  LET strlen == Min({i \in DOMAIN text : text[i] = "NUL"} \union {Len(text) + 1}) - 1
      bytes  == SubSeq(text, 1, strlen)
  IN [NoBuffer EXCEPT !.ch_buf = bytes, !.size = strlen, !.text = bytes]

n_chars == Len(buffer.ch_buf)

(* Beyond the text there are the two end-of-buffer bytes.                  *)
CharAt(cp) == IF cp < n_chars THEN buffer.ch_buf[cp + 1] ELSE "NUL"

yy_switch_to_buffer(b) == buffer' = b /\ yy_c_buf_p' = b.pos /\ yytext_ptr' = b.pos

-----------------------------------------------------------------------------
(* The automaton.  A match is a state and the position it ends at.         *)

Match == (0 .. JAM) \X Nat

StartState == yy_start + IF buffer.at_bol THEN 1 ELSE 0

Accepting(m, best) == IF Entry(yy_accept, m[1]) # 0 THEN m ELSE best

yy_match[m \in Match, best \in Match] ==
  LET next == yy_trans[m[1], Classes[CharAt(m[2])]]
  IN IF next = JAM THEN Accepting(m, best)
     ELSE yy_match[<<next, m[2] + 1>>, Accepting(m, best)]

(* The state the open token leads to; a NUL in it is of class 1 here.      *)
Class1(c) == IF c = "NUL" THEN 1 ELSE Classes[c]

Previous[m \in Match, best \in Match] ==
  IF m[2] = yy_c_buf_p THEN [state |-> m[1], best |-> best]
  ELSE Previous[<<yy_trans[m[1], Class1(CharAt(m[2]))], m[2] + 1>>, Accepting(m, best)]

yy_get_previous_state_AnyColumn ==                          \* mutant: no YY_AT_BOL
  Previous[<<yy_start, yytext_ptr>>, last]

yy_get_previous_state == Previous[<<StartState, yytext_ptr>>, last]

yy_try_NUL_trans(state) == IF yy_trans[state, 1] = JAM THEN 0 ELSE yy_trans[state, 1]

(* The match yylex finds from where it goes on.                            *)
yy_find_action ==
  LET previous == yy_get_previous_state
      reached  == <<previous.state, yy_c_buf_p>>
      next     == yy_try_NUL_trans(previous.state)
  IN CASE pc = "yylex"         -> yy_match[<<StartState, yy_c_buf_p>>, last]
       [] pc = "CONTINUE_SCAN" -> yy_match[reached, previous.best]
       [] pc = "LAST_MATCH"    -> Accepting(reached, previous.best)
       [] pc = "NUL"           -> IF next = 0 THEN Accepting(reached, previous.best)
                                  ELSE yy_match[<<next, yy_c_buf_p + 1>>, Accepting(reached, previous.best)]

-----------------------------------------------------------------------------
(* A rule.                                                                 *)

Newlines(s) == Cardinality({i \in DOMAIN s : s[i] = "\n"})

(* The buffer after YY_DO_BEFORE_ACTION, the count of the lines and        *)
(* YY_RULE_SETUP.                                                          *)
YY_RULE_SETUP(act, text, cp) ==
  [buffer EXCEPT
    !.pos    = cp,
    !.at_bol = Last(text) = "\n",
    !.lineno = @ + IF Entry(yy_rule_can_match_eol, act) = 1 THEN Newlines(text) ELSE 0]

(* Rule 23 closes the path of an include: its files are read first, there  *)
(* are none, or it fails.                                                  *)
OpenInclude(b, from) ==
  \/ /\ Len(includes) < MAX_INCLUDE_DEPTH
     /\ \E files \in Included :
          /\ includes' = Append(includes, [parent |-> b, files |-> Tail(files)])
          /\ yy_switch_to_buffer(yy_create_buffer(Head(files)))
     /\ yy_start' = 1 + 2 * BEGIN[23]
     /\ pc' = "yylex"
  \/ /\ \/ yy_start' = 1 + 2 * BEGIN[23] /\ pc' = "yylex"
        \/ UNCHANGED yy_start /\ pc' = "TOK_ERROR"
     /\ buffer' = b
     /\ yy_c_buf_p' = b.pos
     /\ yytext_ptr' = from
     /\ UNCHANGED includes

Rule ==
  /\ pc \in {"yylex", "CONTINUE_SCAN", "LAST_MATCH", "NUL"}
  /\ LET match == yy_find_action
         from  == IF pc = "yylex" THEN yy_c_buf_p ELSE yytext_ptr
     IN /\ last'    = match
        /\ yy_act'  = Entry(yy_accept, match[1])
        /\ yytext'  = [i \in 1 .. match[2] - from |-> CharAt(from + i - 1)]
        /\ \/ /\ yy_act' \in 1 .. YY_NUM_RULES \ {23}
              /\ buffer'     = YY_RULE_SETUP(yy_act', yytext', match[2])
              /\ yy_c_buf_p' = match[2]
              /\ yytext_ptr' = from
              /\ yy_start'   = IF yy_act' \in DOMAIN BEGIN THEN 1 + 2 * BEGIN[yy_act'] ELSE yy_start
              /\ pc'         = "yylex"
              /\ UNCHANGED includes
           \/ /\ yy_act' = 23
              /\ OpenInclude(YY_RULE_SETUP(yy_act', yytext', match[2]), from)
           \/ /\ yy_act' = YY_END_OF_BUFFER
              /\ yy_c_buf_p' = match[2]
              /\ yytext_ptr' = from
              /\ pc'         = "END_OF_BUFFER"
              /\ UNCHANGED <<buffer, includes, yy_start>>

-----------------------------------------------------------------------------
(* The end of the buffer.                                                  *)

number_to_move == yy_c_buf_p - yytext_ptr - 1

RECURSIVE Grown(_)
Grown(size) == IF size - number_to_move - 1 <= 0 THEN Grown(size * 2) ELSE size

(* The characters a refill reads, in a buffer that has grown to a size.    *)
YY_INPUT_WholeBuffer(size) ==                               \* mutant: number_to_move forgotten
  IF buffer.status = "EOF_PENDING" THEN <<>>
  ELSE SubSeq(buffer.file, 1, Min({size - 1, YY_READ_BUF_SIZE, Len(buffer.file)}))

YY_INPUT(size) ==
  IF buffer.status = "EOF_PENDING" THEN <<>>
  ELSE SubSeq(buffer.file, 1, Min({size - number_to_move - 1, YY_READ_BUF_SIZE, Len(buffer.file)}))

EndOrLastMatch == IF number_to_move = 0 THEN "END_OF_FILE" ELSE "LAST_MATCH"

(* The buffer after a refill: the open token at its start, then what has   *)
(* been read.  At the end of the file the buffer is restarted, once the    *)
(* token that is still open has been taken as it is.                       *)
Refilled ==
  LET size   == IF buffer.status = "EOF_PENDING" THEN buffer.size
                ELSE Grown(buffer.size)
      read   == YY_INPUT(size)
      moved  == SubSeq(buffer.ch_buf, yytext_ptr + 1, yytext_ptr + number_to_move)
      filled == [buffer EXCEPT !.ch_buf = moved \o read, !.size = size,
                               !.file = SubSeq(@, Len(read) + 1, Len(@)),
                               !.status = IF read = <<>> THEN "EOF_PENDING" ELSE "NORMAL"]
  IN IF read = <<>> /\ number_to_move = 0 THEN yyrestart(filled) ELSE filled

yy_get_next_buffer_LastMatchFirst ==                        \* mutant: no END_OF_FILE
  CASE yy_c_buf_p > n_chars + 1 ->
         pc' = "YY_FATAL_ERROR" /\ UNCHANGED <<buffer, yytext_ptr>>
    [] yy_c_buf_p <= n_chars + 1 /\ ~buffer.fill ->
         /\ buffer' = [buffer EXCEPT !.status = "NORMAL"]
         /\ UNCHANGED yytext_ptr
         /\ pc' = "LAST_MATCH"
    [] yy_c_buf_p <= n_chars + 1 /\ buffer.fill ->
         /\ buffer' = Refilled
         /\ yytext_ptr' = 0
         /\ pc' = IF YY_INPUT(Refilled.size) # <<>> THEN "CONTINUE_SCAN" ELSE "LAST_MATCH"

yy_get_next_buffer ==
  CASE yy_c_buf_p > n_chars + 1 ->
         pc' = "YY_FATAL_ERROR" /\ UNCHANGED <<buffer, yytext_ptr>>
    [] yy_c_buf_p <= n_chars + 1 /\ ~buffer.fill ->
         /\ buffer' = [buffer EXCEPT !.status = "NORMAL"]
         /\ UNCHANGED yytext_ptr
         /\ pc' = EndOrLastMatch
    [] yy_c_buf_p <= n_chars + 1 /\ buffer.fill ->
         /\ buffer' = Refilled
         /\ yytext_ptr' = 0
         /\ pc' = IF YY_INPUT(Refilled.size) # <<>> THEN "CONTINUE_SCAN" ELSE EndOrLastMatch

(* A NUL of the text is told from the end of the buffer by its place.      *)
EndOfBuffer ==
  /\ pc = "END_OF_BUFFER"
  /\ \/ /\ yy_c_buf_p <= n_chars
        /\ buffer' = [buffer EXCEPT !.status = IF @ = "NEW" THEN "NORMAL" ELSE @]
        /\ pc' = "NUL"
        /\ UNCHANGED yytext_ptr
     \/ yy_c_buf_p > n_chars /\ yy_get_next_buffer
  /\ yy_c_buf_p' = yytext_ptr' + number_to_move
  /\ UNCHANGED <<includes, yy_start, last, yy_act, yytext>>

(* <<EOF>>: the next file of the include list, the file that included it,  *)
(* or the end.  The start condition stays what it is.                      *)
EndOfFile ==
  /\ pc = "END_OF_FILE"
  /\ \/ /\ includes = <<>>
        /\ pc' = "YY_NULL"
        /\ UNCHANGED <<buffer, includes, yy_c_buf_p, yytext_ptr>>
     \/ /\ includes # <<>> /\ Last(includes).files = <<>>
        /\ yy_switch_to_buffer(Last(includes).parent)
        /\ includes' = Front(includes)
        /\ pc' = "yylex"
     \/ /\ includes # <<>> /\ Last(includes).files # <<>>
        /\ yy_switch_to_buffer(yy_create_buffer(Head(Last(includes).files)))
        /\ includes' = [includes EXCEPT ![Len(includes)].files = Tail(@)]
        /\ pc' = "yylex"
     \/ /\ includes # <<>> /\ Last(includes).files # <<>>
        /\ pc' = "TOK_ERROR"
        /\ UNCHANGED <<buffer, includes, yy_c_buf_p, yytext_ptr>>
  /\ UNCHANGED <<yy_start, last, yy_act, yytext>>

Init ==
  /\ \E text \in Texts : buffer \in {yy_create_buffer(text), yy_scan_string(text)}
  /\ includes = <<>>
  /\ yy_c_buf_p = 0
  /\ yytext_ptr = 0
  /\ yy_start = 1
  /\ last = <<0, 0>>
  /\ yy_act = 0
  /\ yytext = <<>>
  /\ pc = "yylex"

Next == Rule \/ EndOfBuffer \/ EndOfFile

Spec == Init /\ [][Next]_vars /\ WF_vars(Next)

-----------------------------------------------------------------------------
(* The variables' types: what is in a buffer has room for the two bytes    *)
(* that end it, and no position is past the first of them read.            *)
ScannerTypeOK ==
  /\ \A b \in {buffer} \union {includes[i].parent : i \in DOMAIN includes} :
       /\ b.ch_buf \in Seq(Characters) /\ b.file \in Seq(Characters)
       /\ Len(b.ch_buf) <= b.size
       /\ b.status \in {"NEW", "NORMAL", "EOF_PENDING"}
       /\ b.lineno \in Nat \ {0}
  /\ Len(includes) <= MAX_INCLUDE_DEPTH
  /\ yytext_ptr \in 0 .. n_chars /\ yy_c_buf_p \in yytext_ptr .. n_chars + 1
  /\ YY_START \in INITIAL .. INCLUDE
  /\ yy_act \in 0 .. YY_END_OF_BUFFER

(* What of a buffer's file has not been scanned, from a position on.       *)
Unread(b, from) == SubSeq(b.ch_buf, from + 1, Len(b.ch_buf)) \o b.file

(* The same for the files that wait and, last, for the one being scanned.  *)
Unscanned ==
  Append([i \in DOMAIN includes |-> Unread(includes[i].parent, includes[i].parent.pos)],
         Unread(buffer, IF pc \in {"yylex", "TOK_ERROR"} THEN yy_c_buf_p ELSE yytext_ptr))

Scanned(b, unread) == SubSeq(b.text, 1, Len(b.text) - Len(unread))

(* Every rule takes the longest text its file has for it, however the file *)
(* is cut into buffers, and the first of the rules that match it; no other *)
(* step loses, repeats or changes a character of any file (the refills and *)
(* back-ups of yy_get_next_buffer, the switches of the includes).          *)
RuleIsLongest ==
  LET unread == Last(Unscanned)
      before == Scanned(buffer, unread)
      bol    == before = <<>> \/ Last(before) = "\n"
      m      == LongestMatch(YY_START, bol, unread)
  IN /\ yy_act' = m.rule
     /\ yytext' = SubSeq(unread, 1, m.length)
     /\ SubSeq(Unscanned', 1, Len(includes) + 1) =
          Append(Front(Unscanned), SubSeq(unread, m.length + 1, Len(unread)))

MatchesAreLongest ==
  [][ CASE pc = "END_OF_BUFFER" -> Unscanned' = Unscanned
        [] pc = "END_OF_FILE"   -> Last(Unscanned) = <<>> /\ IsPrefix(Front(Unscanned), Unscanned')
        [] OTHER -> yy_act' = YY_END_OF_BUFFER \/ RuleIsLongest ]_vars

(* The line an error is reported at, yylineno, is one more than the ends   *)
(* of lines scanned in that file: across the files it includes, for the    *)
(* next file of a list, and when the buffer is restarted at the end.       *)
LinesCounted ==
  LET OfBuffer(b, unread) == b.lineno = 1 + Newlines(Scanned(b, unread))
  IN /\ OfBuffer(buffer, Last(Unscanned))
     /\ \A i \in DOMAIN includes : OfBuffer(includes[i].parent, Unscanned[i])

(* yylex reaches the end of the input, or an include that fails.           *)
ScanEnds == <>(pc \in {"YY_NULL", "TOK_ERROR"})
===============================================================================
