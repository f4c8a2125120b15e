----------------------------- MODULE ConfigReader -----------------------------
(***************************************************************************)
(* config_read_file: the scanner of scanner.l takes the lines of the files *)
(* one after the other, follows the include directives with the stack of   *)
(* scanctx.c, and hands the tokens of a line to the parser of grammar.c.   *)
(*                                                                         *)
(* A line of a file is a sequence of tokens, an include directive, or one  *)
(* end of a comment.  The configuration object outlives a read: its error  *)
(* fields are those the last read left, and the files may be edited before *)
(* they are read again.                                                    *)
(***************************************************************************)
EXTENDS Grammar

CONSTANTS
  MAX_INCLUDE_DEPTH,
  Streams,       \* file descriptors, a set of numbers
  FileNames,
  Disks,         \* what may be on the disk, functions from names to lines
  Edits,         \* what an edit may leave on the disk
  TopFile,       \* the name of the file read
  IncludeFn      \* what the include function finds: path -> [files, error]

ASSUME ReaderAssumption ==
  /\ MAX_INCLUDE_DEPTH \in Nat
  /\ TopFile \in FileNames
  /\ \A path \in DOMAIN IncludeFn : IncludeFn[path].files \in Seq(FileNames)

VARIABLES
  disk,           \* the files there are
  call,           \* "none", "running", or what the last read returned
  top,            \* the stream of the file read
  ctx,            \* the parse context; its tree is the configuration
  comment,        \* the start condition MULTI_LINE_COMMENT
  buffer,         \* YY_CURRENT_BUFFER: a file, and the lines of it scanned
  include_stack,
  streams,        \* the descriptors in use
  error           \* error_text, error_file, error_line, error_type

scannerVars == <<comment, buffer, include_stack, streams>>
readerVars  == <<disk, call, top, ctx, comment, buffer, include_stack, streams, error>>

-----------------------------------------------------------------------------
(* scanctx.c                                                               *)

fopen(file, used) ==
  IF file \notin DOMAIN disk THEN {}
  ELSE { s \in Streams \ used : \A other \in Streams \ used : s <= other }

Current(frame) == frame.files[frame.current]

current_filename_Top == TopFile                                 \* mutant

current_filename ==
  IF include_stack = << >> THEN TopFile ELSE Current(Last(include_stack))

StreamsOf(stack) == { stack[i].stream : i \in DOMAIN stack }

lineno == buffer.at + 1

Start(file) == [file |-> file, at |-> 0]

Advanced == [buffer EXCEPT !.at = @ + 1]

-----------------------------------------------------------------------------
(* The parser's side of a line.                                            *)

yyerror(e, text) ==
  IF e.text # NULL THEN e ELSE [e EXCEPT !.text = text, !.line = lineno]

Return_NotUnwound(result) ==                                    \* mutant
  /\ call' = result
  /\ include_stack' = << >>
  /\ streams' = streams \ {top}

(* __config_read, once yyparse has returned.                               *)
Return(result) ==
  /\ call' = result
  /\ include_stack' = << >>
  /\ streams' = streams \ ({top} \cup StreamsOf(include_stack))

Refuse(c, e, file) ==
  /\ ctx' = c
  /\ error' = [yyerror(e, c.error) EXCEPT !.file = file, !.type = "PARSE"]
  /\ Return("false")

(* The parser takes the tokens of the line just scanned, or the end.       *)
Parse(tokens) ==
  \E c \in { yyparse(ctx, tokens, [file |-> current_filename, line |-> lineno]) } :
    \/ c.error # NULL /\ Refuse(c, error, current_filename)
    \/ /\ c.error = NULL
       /\ ctx' = c
       /\ UNCHANGED error
       /\ IF c.accepted THEN Return("true")
                        ELSE UNCHANGED <<call, include_stack, streams>>

(* The scanner found an error: it says so, and returns TOK_ERROR.          *)
ScanError(text, file) ==
  \E c \in { yyparse(ctx, <<Mark("ERROR")>>, [file |-> file, line |-> lineno]) } :
    Refuse(c, [error EXCEPT !.text = text, !.file = file, !.line = lineno], file)

-----------------------------------------------------------------------------
(* The include stack.                                                      *)

include_fn(path) ==
  IF path \in DOMAIN IncludeFn THEN IncludeFn[path] ELSE [files |-> << >>, error |-> NULL]

Frame_Again(files, n, stream) ==                                \* mutant: back to the directive
  [files |-> files, current |-> n, stream |-> stream, parent |-> buffer]

Frame(files, n, stream) ==
  [files |-> files, current |-> n, stream |-> stream, parent |-> Advanced]

TooDeep_Late == Len(include_stack) = MAX_INCLUDE_DEPTH + 1      \* mutant

TooDeep == Len(include_stack) = MAX_INCLUDE_DEPTH

push_include(path) ==
  LET found == include_fn(path)
      first == IF found.files = << >> THEN {} ELSE fopen(Head(found.files), streams)
  IN  \/ /\ TooDeep
         /\ ScanError("include file nesting too deep", current_filename)
         /\ UNCHANGED <<comment, buffer>>
      \/ /\ ~TooDeep /\ found.error # NULL
         /\ ScanError(found.error, current_filename)
         /\ UNCHANGED <<comment, buffer>>
      \/ /\ ~TooDeep /\ found.error = NULL /\ found.files = << >>
         /\ buffer' = Advanced
         /\ UNCHANGED <<call, ctx, comment, include_stack, streams, error>>
      \/ /\ ~TooDeep /\ found.error = NULL /\ found.files # << >> /\ first = {}
         /\ ScanError("cannot open include file", current_filename)
         /\ UNCHANGED <<comment, buffer>>
      \/ /\ ~TooDeep /\ found.error = NULL
         /\ \E s \in first :
              /\ include_stack' = Append(include_stack, Frame(found.files, 1, s))
              /\ streams' = streams \cup {s}
         /\ buffer' = Start(Head(found.files))
         /\ UNCHANGED <<call, ctx, comment, error>>

pop_include ==
  LET frame == Last(include_stack) IN
  /\ include_stack' = Front(include_stack)
  /\ streams' = streams \ {frame.stream}
  /\ buffer' = frame.parent
  /\ UNCHANGED <<call, ctx, comment, error>>

(* The next file of the innermost frame is opened, or found missing.       *)
next_include_file(frame, n) ==
  LET used == streams \ {frame.stream} IN
  \/ /\ \E s \in fopen(frame.files[n], used) :
          /\ include_stack' = [include_stack EXCEPT ![Len(include_stack)] =
                                 [@ EXCEPT !.current = n, !.stream = s]]
          /\ streams' = used \cup {s}
     /\ buffer' = Start(frame.files[n])
     /\ UNCHANGED <<call, ctx, comment, error>>
  \/ /\ fopen(frame.files[n], used) = {}
     /\ ScanError("cannot open include file", frame.files[n])
     /\ UNCHANGED <<comment, buffer>>

-----------------------------------------------------------------------------
(* Scanning.                                                               *)

Running == call = "running"

AtEnd == buffer.at = Len(disk[buffer.file])

Line == disk[buffer.file][lineno]

CommentStart == [comment |-> "/*"]
CommentEnd   == [comment |-> "*/"]

(* The end of a comment that was not begun reads as a name and a slash.    *)
Tokens(line) == IF "tokens" \in DOMAIN line THEN line.tokens
                ELSE <<[tok |-> "NAME", name |-> "*"], Mark("GARBAGE")>>

SkipLine ==
  /\ Running /\ ~AtEnd
  /\ comment \/ Line = CommentStart
  /\ comment' = (comment => Line # CommentEnd)
  /\ buffer' = Advanced
  /\ UNCHANGED <<disk, call, top, ctx, include_stack, streams, error>>

TakeLine ==
  /\ Running /\ ~AtEnd /\ ~comment
  /\ Line # CommentStart /\ "include" \notin DOMAIN Line
  /\ Parse(Tokens(Line))
  /\ buffer' = Advanced
  /\ UNCHANGED <<disk, top, comment>>

Include ==
  /\ Running /\ ~AtEnd /\ ~comment
  /\ "include" \in DOMAIN Line
  /\ push_include(Line.include)
  /\ UNCHANGED <<disk, top>>

EndOfIncluded_FirstOnly ==                                      \* mutant
  /\ Running /\ AtEnd /\ include_stack # << >>
  /\ pop_include
  /\ UNCHANGED <<disk, top>>

(* <<EOF>>: a comment still open stays open.                               *)
EndOfIncluded ==
  /\ Running /\ AtEnd /\ include_stack # << >>
  /\ LET frame == Last(include_stack)
         n     == frame.current + 1
     IN  IF n <= Len(frame.files) THEN next_include_file(frame, n) ELSE pop_include
  /\ UNCHANGED <<disk, top>>

EndOfTop ==
  /\ Running /\ AtEnd /\ include_stack = << >>
  /\ Parse(<<Mark("EOF")>>)
  /\ UNCHANGED <<disk, top, comment, buffer>>

yylex == SkipLine \/ TakeLine \/ Include \/ EndOfIncluded \/ EndOfTop

-----------------------------------------------------------------------------
(* The calls of the program.                                               *)

ReaderInit ==
  /\ disk \in Disks
  /\ call = "none"
  /\ top = NULL
  /\ ctx = Parser(parsectx_init(config_clear, FALSE))
  /\ comment = FALSE
  /\ buffer = Start(TopFile)
  /\ include_stack = << >>
  /\ streams = {}
  /\ error = [text |-> NULL, file |-> NULL, line |-> 0, type |-> "NONE"]

config_read_file ==
  /\ ~Running
  /\ \/ /\ fopen(TopFile, streams) = {}
        /\ error' = [error EXCEPT !.text = "file I/O error", !.type = "FILE_IO"]
        /\ call' = "false"
        /\ UNCHANGED <<top, ctx, scannerVars>>
     \/ /\ \E s \in fopen(TopFile, streams) : top' = s /\ streams' = streams \cup {s}
        /\ call' = "running"
        /\ ctx' = Parser(parsectx_init(config_clear, FALSE))
        /\ comment' = FALSE
        /\ buffer' = Start(TopFile)
        /\ include_stack' = << >>
        /\ UNCHANGED error
  /\ UNCHANGED disk

Edit ==
  /\ ~Running
  /\ disk' \in Edits
  /\ call' = "none"
  /\ UNCHANGED <<top, ctx, scannerVars, error>>

ReaderNext == yylex \/ config_read_file \/ Edit

ReaderSpec == ReaderInit /\ [][ReaderNext]_readerVars /\ WF_readerVars(yylex)

-----------------------------------------------------------------------------
(* Properties.                                                             *)

(* The include stack stays within its array, every frame has a current     *)
(* file whose name and stream can be used, and no stack is left behind.    *)
ReaderTypeOK ==
  /\ Len(include_stack) <= MAX_INCLUDE_DEPTH
  /\ \A i \in DOMAIN include_stack :
       LET frame == include_stack[i] IN
       /\ frame.current \in DOMAIN frame.files
       /\ frame.stream \in Streams
  /\ call \in {"none", "running", "true", "false"}
  /\ ~Running => include_stack = << >>

(* The descriptors in use are those of the file read and of the files that *)
(* wait on the include stack, one each: none is closed too early, and none *)
(* is left open, whichever way the read ends.                              *)
StreamsFollowStack ==
  /\ streams = IF Running THEN {top} \cup StreamsOf(include_stack) ELSE {}
  /\ \A i, j \in DOMAIN include_stack :
       include_stack[i].stream = include_stack[j].stream => i = j
  /\ Running => top \notin StreamsOf(include_stack)

(* The parent pointer of the parser, which the actions of grammar.y move   *)
(* by hand, is at the setting whose bracket was opened last on the stack   *)
(* of the parser, and IN_ARRAY and IN_LIST tell the truth.                 *)
StackFollowsNesting ==
  Running =>
    /\ Len(ctx.parent) = Len(OpenBrackets(ctx))
    /\ \A i \in DOMAIN OpenBrackets(ctx) :
         ctx.tree[SubSeq(ctx.parent, 1, i)].type = OpenBrackets(ctx)[i]

(* The text of a file with the included ones in place of their directives. *)
Inlined ==
  LET add(a, s)  == [text |-> a.text \o s.text, comment |-> s.comment]
      scan[d \in 0 .. MAX_INCLUDE_DEPTH, file \in DOMAIN disk, open \in BOOLEAN] ==
        FoldLeft(
          LAMBDA a, line :
            IF a.comment THEN [a EXCEPT !.comment = line # CommentEnd]
            ELSE IF line = CommentStart THEN [a EXCEPT !.comment = TRUE]
            ELSE IF "include" \in DOMAIN line
              THEN FoldLeft(LAMBDA b, f : add(b, scan[d - 1, f, b.comment]), a,
                            include_fn(line.include).files)
              ELSE [a EXCEPT !.text = @ \o Tokens(line)],
          [text |-> << >>, comment |-> open], disk[file])
  IN  scan[MAX_INCLUDE_DEPTH, TopFile, FALSE].text

Unplaced(t) == [p \in DOMAIN t |-> [t[p] EXCEPT !.source = NULL]]

(* libconfig.texi:467: the contents of an included file are inlined.  A    *)
(* read that succeeds gives what the text all in one file would.           *)
IncludesInline ==
  call = "true" =>
    LET c == config_read_string(Inlined, FALSE)
    IN  c.error = NULL /\ c.tree = Unplaced(ctx.tree)

Declares(line, s) ==
  \E i \in DOMAIN Tokens(line) :
    LET k == Tokens(line)[i] IN
    \/ k.tok = "NAME" /\ s.name = k.name
    \/ k.tok \in DOMAIN TypeOfToken /\ s.type = TypeOfToken[k.tok]
    \/ k.tok \in DOMAIN Opening /\ s.type = Opening[k.tok]

(* config_setting_source_file and _line lead to the name of a member, and  *)
(* to the element of an array or a list, but for a string: that is added   *)
(* when the next token is known, and has the place of it.                  *)
SourcesShowTheSetting ==
  Running \/ call = "true" \/ (call = "false" /\ error.type = "PARSE") =>
    \A p \in DOMAIN ctx.tree \ {<< >>} :
      LET s == ctx.tree[p] IN
      s.name # NULL \/ s.type # "string" => Declares(disk[s.source.file][s.source.line], s)

(* Every read returns, even of files that include themselves or each       *)
(* other: the scanner always comes to an end or to the depth limit.        *)
ReadEnds == Running ~> ~Running

-----------------------------------------------------------------------------
(* What the documentation says and the code does not do.                   *)

(* libconfig.texi:780: config_error_text and config_error_line return the  *)
(* text and the line of the parse error of the call to config_read_file.   *)
(* A parse error leaves the line the scanner is at.                        *)
ErrorIsOfThisRead ==
  [][Running /\ call' = "false" => error'.line = lineno]_readerVars
===============================================================================
