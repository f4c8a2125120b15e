-------------------------- MODULE ConfigReader_proofs --------------------------
(***************************************************************************)
(* The include stack of ConfigReader never outgrows its array, and the     *)
(* descriptors in use are always those of the files on it, for any files,  *)
(* include function, depth limit and number of descriptors.                *)
(***************************************************************************)
EXTENDS ConfigReader, TLAPS

Buffers == [file : FileNames, at : Nat]

Frames == [files : Seq(FileNames), current : Nat, stream : Streams, parent : Buffers]

Distinct(stack) ==
  \A i, j \in DOMAIN stack : stack[i].stream = stack[j].stream => i = j

InRange(stack) == \A i \in DOMAIN stack : stack[i].current \in DOMAIN stack[i].files

(* The strengthening: what the frames are, and that a file is open while   *)
(* it is read.                                                             *)
StackInv(running, stack, used) ==
  /\ stack \in Seq(Frames)
  /\ Len(stack) <= MAX_INCLUDE_DEPTH
  /\ InRange(stack)
  /\ Distinct(stack)
  /\ ~running => stack = << >> /\ used = {}

ReaderInv ==
  /\ buffer \in Buffers
  /\ call \in {"none", "running", "true", "false"}
  /\ StackInv(Running, include_stack, streams)
  /\ Running => /\ top \in Streams
                /\ top \notin StreamsOf(include_stack)
                /\ streams = {top} \cup StreamsOf(include_stack)

-----------------------------------------------------------------------------
(* The stack by itself.                                                    *)

(* A descriptor fopen gives out is not in use.                             *)
LEMMA FopenIsFree ==
  ASSUME NEW file, NEW used, NEW s \in fopen(file, used)
  PROVE  s \in Streams /\ s \notin used
BY DEF fopen

(* Pushing a frame adds its stream, and a new one keeps them distinct.     *)
LEMMA Pushed ==
  ASSUME NEW stack \in Seq(Frames), NEW frame \in Frames,
         InRange(stack), Distinct(stack),
         frame.current \in DOMAIN frame.files,
         frame.stream \notin StreamsOf(stack)
  PROVE  LET pushed == Append(stack, frame) IN
         /\ pushed \in Seq(Frames)
         /\ Len(pushed) = Len(stack) + 1
         /\ InRange(pushed)
         /\ Distinct(pushed)
         /\ StreamsOf(pushed) = StreamsOf(stack) \cup {frame.stream}
<1> DEFINE pushed == Append(stack, frame)
           n      == Len(stack) + 1
<1>1. pushed \in Seq(Frames) /\ Len(pushed) = n /\ n \in Nat /\ DOMAIN pushed = 1 .. n
  OBVIOUS
<1>2. pushed[n] = frame /\ \A i \in 1 .. Len(stack) : pushed[i] = stack[i]
  OBVIOUS
<1>3. DOMAIN stack = 1 .. Len(stack) /\ DOMAIN pushed = DOMAIN stack \cup {n}
  BY <1>1
<1> HIDE DEF pushed
<1>4. InRange(pushed)
  BY <1>2, <1>3 DEF InRange
<1>5. \A i \in DOMAIN stack : stack[i].stream # frame.stream
  BY DEF StreamsOf
<1>6. Distinct(pushed)
  BY <1>2, <1>3, <1>5 DEF Distinct
<1>7. StreamsOf(pushed) = StreamsOf(stack) \cup {frame.stream}
  BY <1>2, <1>3 DEF StreamsOf
<1>8. QED
  BY <1>1, <1>4, <1>6, <1>7 DEF pushed

(* Popping takes away the stream of the last frame and no other.           *)
LEMMA Popped ==
  ASSUME NEW stack \in Seq(Frames), stack # << >>, InRange(stack), Distinct(stack)
  PROVE  /\ Front(stack) \in Seq(Frames)
         /\ Len(Front(stack)) = Len(stack) - 1
         /\ InRange(Front(stack))
         /\ Distinct(Front(stack))
         /\ StreamsOf(Front(stack)) = StreamsOf(stack) \ {Last(stack).stream}
<1> DEFINE front == Front(stack)
           n     == Len(stack)
<1>1. n \in Nat \ {0} /\ DOMAIN stack = 1 .. n /\ Last(stack) = stack[n]
  BY DEF Last
<1>2. /\ front \in Seq(Frames) /\ Len(front) = n - 1 /\ DOMAIN front = 1 .. n - 1
      /\ \A i \in 1 .. n - 1 : front[i] = stack[i]
  BY <1>1 DEF Front
<1>3. DOMAIN front = DOMAIN stack \ {n}
  BY <1>1, <1>2
<1>3a. \A i \in DOMAIN front : front[i] = stack[i] /\ i \in DOMAIN stack /\ i # n
  BY <1>1, <1>2, <1>3
<1> HIDE DEF front, n
<1>4. InRange(front)
  BY <1>3a DEF InRange
<1>5. Distinct(front)
  BY <1>3a DEF Distinct
<1>6. n \in DOMAIN stack
  BY <1>1
<1>7. \A i \in DOMAIN front : stack[i].stream # stack[n].stream
  BY <1>3a, <1>6 DEF Distinct
<1>8. StreamsOf(front) = StreamsOf(stack) \ {stack[n].stream}
  <2>1. \A s \in StreamsOf(front) : s \in StreamsOf(stack) /\ s # stack[n].stream
    BY <1>3a, <1>7 DEF StreamsOf
  <2>2. ASSUME NEW s \in StreamsOf(stack), s # stack[n].stream
        PROVE  s \in StreamsOf(front)
    <3>1. PICK i \in DOMAIN stack : s = stack[i].stream
      BY DEF StreamsOf
    <3>2. i \in DOMAIN front
      BY <1>3, <2>2, <3>1
    <3>3. QED
      BY <1>3a, <3>1, <3>2 DEF StreamsOf
  <2>3. QED
    BY <2>1, <2>2
<1>9. QED
  BY <1>1, <1>2, <1>4, <1>5, <1>8 DEF front, n

(* Opening the next file in the last frame exchanges its stream.           *)
LEMMA Replaced ==
  ASSUME NEW stack \in Seq(Frames), stack # << >>, InRange(stack), Distinct(stack),
         NEW n \in Nat, NEW s \in Streams,
         n \in DOMAIN Last(stack).files,
         s \notin StreamsOf(stack) \ {Last(stack).stream}
  PROVE  LET moved == [stack EXCEPT ![Len(stack)] =
                         [@ EXCEPT !.current = n, !.stream = s]] IN
         /\ moved \in Seq(Frames)
         /\ Len(moved) = Len(stack)
         /\ InRange(moved)
         /\ Distinct(moved)
         /\ StreamsOf(moved) = (StreamsOf(stack) \ {Last(stack).stream}) \cup {s}
<1> DEFINE k     == Len(stack)
           frame == [stack[k] EXCEPT !.current = n, !.stream = s]
           moved == [stack EXCEPT ![k] = frame]
<1>1. k \in Nat \ {0} /\ DOMAIN stack = 1 .. k /\ Last(stack) = stack[k] /\ k \in DOMAIN stack
  BY DEF Last
<1>2. stack[k] \in Frames
  BY <1>1
<1>3. /\ frame \in Frames
      /\ frame.current = n /\ frame.stream = s /\ frame.files = stack[k].files
  BY <1>2 DEF Frames
<1> HIDE DEF frame, k
<1>4. /\ moved \in Seq(Frames) /\ Len(moved) = Len(stack)
      /\ DOMAIN moved = DOMAIN stack
      /\ moved[k] = frame
      /\ \A i \in DOMAIN stack : i # k => moved[i] = stack[i]
  BY <1>1, <1>3
<1> HIDE DEF moved
<1>5. \A i \in DOMAIN stack : i # k => stack[i].stream \in StreamsOf(stack) \ {stack[k].stream}
  BY <1>1 DEF Distinct, StreamsOf
<1>6. InRange(moved)
  BY <1>1, <1>3, <1>4 DEF InRange
<1>7. Distinct(moved)
  BY <1>1, <1>3, <1>4, <1>5 DEF Distinct
<1>8. StreamsOf(moved) = (StreamsOf(stack) \ {stack[k].stream}) \cup {s}
  <2>1. StreamsOf(moved) \subseteq (StreamsOf(stack) \ {stack[k].stream}) \cup {s}
    BY <1>3, <1>4, <1>5 DEF StreamsOf
  <2>2. ASSUME NEW r \in StreamsOf(stack), r # stack[k].stream
        PROVE  r \in StreamsOf(moved)
    <3>1. PICK i \in DOMAIN stack : r = stack[i].stream
      BY DEF StreamsOf
    <3>2. QED
      BY <1>4, <2>2, <3>1 DEF StreamsOf
  <2>3. s \in StreamsOf(moved)
    BY <1>1, <1>3, <1>4 DEF StreamsOf
  <2>4. QED
    BY <2>1, <2>2, <2>3
<1>9. QED
  BY <1>1, <1>4, <1>6, <1>7, <1>8 DEF moved, frame, k

-----------------------------------------------------------------------------
(* The steps.                                                              *)

(* However a read returns, nothing is left open.                           *)
LEMMA Returned ==
  ASSUME ReaderInv, Running, NEW result \in {"true", "false"}, Return(result)
  PROVE  /\ call' \in {"none", "running", "true", "false"}
         /\ ~Running'
         /\ include_stack' = << >>
         /\ streams' = {}
BY DEF ReaderInv, Return, Running

(* A scanner error is such a return.                                       *)
LEMMA ScanErrorReturns ==
  ASSUME NEW text, NEW file, ScanError(text, file)
  PROVE  Return("false")
BY DEF ScanError, Refuse

(* The invariant after a return.                                           *)
LEMMA InvAfterReturn ==
  ASSUME ReaderInv, Running, NEW result \in {"true", "false"}, Return(result),
         buffer' \in Buffers
  PROVE  ReaderInv'
<1>1. /\ call' \in {"none", "running", "true", "false"}
      /\ ~Running'
      /\ include_stack' = << >>
      /\ streams' = {}
  BY Returned
<1>2. << >> \in Seq(Frames) /\ Len(<< >>) = 0 /\ DOMAIN << >> = {}
  OBVIOUS
<1>3. StackInv(Running, include_stack, streams)'
  BY <1>1, <1>2, ReaderAssumption DEF StackInv, InRange, Distinct
<1>4. QED
  BY <1>1, <1>3 DEF ReaderInv

LEMMA AdvancedType ==
  ASSUME buffer \in Buffers
  PROVE  Advanced \in Buffers
BY DEF Buffers, Advanced

LEMMA StartType ==
  ASSUME NEW file \in FileNames
  PROVE  Start(file) \in Buffers
BY DEF Buffers, Start

(* The parser either returns, or leaves the scanner alone.                 *)
LEMMA ParseStep ==
  ASSUME ReaderInv, Running, NEW tokens, Parse(tokens), UNCHANGED top,
         buffer' \in Buffers
  PROVE  ReaderInv'
<1>1. \/ Return("false")
      \/ Return("true")
      \/ UNCHANGED <<call, include_stack, streams>>
  BY Zenon DEF Parse, Refuse
<1>2. CASE Return("false")
  BY <1>2, InvAfterReturn
<1>3. CASE Return("true")
  BY <1>3, InvAfterReturn
<1>4. CASE UNCHANGED <<call, include_stack, streams>>
  BY <1>4 DEF ReaderInv, StackInv, Running, InRange, Distinct, StreamsOf
<1>5. QED
  BY <1>1, <1>2, <1>3, <1>4

LEMMA IncludeFnType ==
  ASSUME NEW path
  PROVE  include_fn(path).files \in Seq(FileNames)
BY ReaderAssumption DEF include_fn

(* A directive ends the read, is skipped, or pushes a frame.               *)
LEMMA IncludeStep ==
  ASSUME ReaderInv, Running, NEW path, push_include(path), UNCHANGED top
  PROVE  ReaderInv'
<1> DEFINE files == include_fn(path).files
<1>1. CASE /\ \E text : ScanError(text, current_filename)
           /\ UNCHANGED buffer
  <2>1. Return("false")
    BY <1>1, ScanErrorReturns
  <2>2. buffer' \in Buffers
    BY <1>1 DEF ReaderInv
  <2>3. QED
    BY <2>1, <2>2, InvAfterReturn
<1>2. CASE buffer' = Advanced /\ UNCHANGED <<call, include_stack, streams>>
  <2>1. buffer' \in Buffers
    BY <1>2, AdvancedType DEF ReaderInv
  <2>2. QED
    BY <1>2, <2>1 DEF ReaderInv, StackInv, Running, InRange, Distinct, StreamsOf
<1>3. ASSUME ~TooDeep, files # << >>,
             NEW s \in fopen(Head(files), streams),
             include_stack' = Append(include_stack, Frame(files, 1, s)),
             streams' = streams \cup {s},
             buffer' = Start(Head(files)),
             UNCHANGED call
      PROVE  ReaderInv'
  <2> DEFINE frame == Frame(files, 1, s)
  <2>1. files \in Seq(FileNames)
    BY IncludeFnType
  <2>2. Head(files) \in FileNames /\ 1 \in DOMAIN files
    BY <1>3, <2>1
  <2>3. s \in Streams /\ s \notin streams
    BY FopenIsFree
  <2>4. Advanced \in Buffers
    BY AdvancedType DEF ReaderInv
  <2>5. frame \in Frames /\ frame.current = 1 /\ frame.files = files /\ frame.stream = s
    BY <2>1, <2>3, <2>4 DEF Frame, Frames
  <2>6. s \notin StreamsOf(include_stack) /\ s # top
    BY <2>3 DEF ReaderInv
  <2>7. /\ include_stack \in Seq(Frames) /\ Len(include_stack) <= MAX_INCLUDE_DEPTH
        /\ InRange(include_stack) /\ Distinct(include_stack)
    BY DEF ReaderInv, StackInv
  <2> HIDE DEF frame
  <2>8. /\ include_stack' \in Seq(Frames)
        /\ Len(include_stack') = Len(include_stack) + 1
        /\ InRange(include_stack')
        /\ Distinct(include_stack')
        /\ StreamsOf(include_stack') = StreamsOf(include_stack) \cup {s}
    <3>1. include_stack' = Append(include_stack, frame)
      BY <1>3 DEF frame
    <3>2. QED
      BY <2>2, <2>5, <2>6, <2>7, <3>1, Pushed
  <2>9. Len(include_stack') <= MAX_INCLUDE_DEPTH
    BY <1>3, <2>7, <2>8, ReaderAssumption DEF TooDeep
  <2>10. Running' /\ call' = call
    BY <1>3 DEF Running
  <2>11. buffer' \in Buffers
    BY <1>3, <2>2, StartType
  <2>12. StackInv(Running, include_stack, streams)'
    BY <2>8, <2>9, <2>10 DEF StackInv, InRange, Distinct
  <2>13. /\ top' \in Streams
         /\ top' \notin StreamsOf(include_stack')
         /\ streams' = {top'} \cup StreamsOf(include_stack')
    BY <1>3, <2>6, <2>8 DEF ReaderInv
  <2>14. StreamsOf(include_stack)' = StreamsOf(include_stack')
    BY DEF StreamsOf
  <2>15. QED
    BY <2>10, <2>11, <2>12, <2>13, <2>14 DEF ReaderInv
<1>4. QED
  BY <1>1, <1>2, <1>3, Zenon DEF push_include

(* At the end of an included file its stream goes, and that of the next    *)
(* file in the frame comes, or the frame goes.                             *)
LEMMA EndOfIncludedStep ==
  ASSUME ReaderInv, EndOfIncluded
  PROVE  ReaderInv'
<1> DEFINE frame == Last(include_stack)
           n     == frame.current + 1
           used  == streams \ {frame.stream}
<1>1. /\ include_stack \in Seq(Frames) /\ include_stack # << >>
      /\ Len(include_stack) <= MAX_INCLUDE_DEPTH
      /\ InRange(include_stack) /\ Distinct(include_stack)
      /\ Running /\ top' = top /\ Len(include_stack) \in Nat
  BY DEF ReaderInv, StackInv, EndOfIncluded
<1>2. frame \in Frames /\ frame.stream \in StreamsOf(include_stack)
  BY <1>1 DEF Last, StreamsOf
<1>3. /\ frame.files \in Seq(FileNames) /\ n \in Nat \ {0}
      /\ frame.parent \in Buffers
  BY <1>2 DEF Frames
<1>4. frame.stream # top /\ used = {top} \cup (StreamsOf(include_stack) \ {frame.stream})
  BY <1>1, <1>2 DEF ReaderInv
<1>5. CASE n <= Len(frame.files) /\ ScanError("cannot open include file", frame.files[n])
           /\ UNCHANGED buffer
  BY <1>1, <1>5, ScanErrorReturns, InvAfterReturn DEF ReaderInv
<1>6. ASSUME n <= Len(frame.files),
             NEW s \in fopen(frame.files[n], used),
             include_stack' = [include_stack EXCEPT ![Len(include_stack)] =
                                 [@ EXCEPT !.current = n, !.stream = s]],
             streams' = used \cup {s},
             buffer' = Start(frame.files[n]),
             UNCHANGED call
      PROVE  ReaderInv'
  <2>1. s \in Streams /\ s \notin used
    BY FopenIsFree
  <2>2. n \in DOMAIN frame.files /\ frame.files[n] \in FileNames
    BY <1>3, <1>6
  <2>3. s \notin StreamsOf(include_stack) \ {frame.stream} /\ s # top
    BY <1>4, <2>1
  <2> HIDE DEF frame, n
  <2>4. /\ include_stack' \in Seq(Frames)
        /\ Len(include_stack') = Len(include_stack)
        /\ InRange(include_stack')
        /\ Distinct(include_stack')
        /\ StreamsOf(include_stack') = (StreamsOf(include_stack) \ {frame.stream}) \cup {s}
    BY <1>1, <1>3, <1>6, <2>1, <2>2, <2>3, Replaced DEF frame
  <2>5. Running' /\ call' = call
    BY <1>1, <1>6 DEF Running
  <2>6. buffer' \in Buffers
    BY <1>6, <2>2, StartType
  <2>7. StackInv(Running, include_stack, streams)'
    BY <1>1, <2>4, <2>5 DEF StackInv, InRange, Distinct
  <2>8. /\ top' \in Streams
        /\ top' \notin StreamsOf(include_stack')
        /\ streams' = {top'} \cup StreamsOf(include_stack')
    BY <1>1, <1>4, <1>6, <2>3, <2>4 DEF ReaderInv
  <2>9. StreamsOf(include_stack)' = StreamsOf(include_stack')
    BY DEF StreamsOf
  <2>10. QED
    BY <2>5, <2>6, <2>7, <2>8, <2>9 DEF ReaderInv
<1>7. CASE pop_include
  <2>1. /\ include_stack' = Front(include_stack)
        /\ streams' = used /\ buffer' = frame.parent /\ call' = call
    BY <1>7 DEF pop_include
  <2>2. /\ include_stack' \in Seq(Frames)
        /\ Len(include_stack') = Len(include_stack) - 1
        /\ InRange(include_stack')
        /\ Distinct(include_stack')
        /\ StreamsOf(include_stack') = StreamsOf(include_stack) \ {frame.stream}
    BY <1>1, <2>1, Popped
  <2> HIDE DEF frame
  <2>3. Len(include_stack') <= MAX_INCLUDE_DEPTH
    BY <1>1, <2>2, ReaderAssumption
  <2>4. Running'
    BY <1>1, <2>1 DEF Running
  <2>5. StackInv(Running, include_stack, streams)'
    BY <2>2, <2>3, <2>4 DEF StackInv, InRange, Distinct
  <2>6. /\ top' \in Streams
        /\ top' \notin StreamsOf(include_stack')
        /\ streams' = {top'} \cup StreamsOf(include_stack')
    BY <1>1, <1>4, <2>1, <2>2 DEF ReaderInv
  <2>7. StreamsOf(include_stack)' = StreamsOf(include_stack')
    BY DEF StreamsOf
  <2>8. QED
    BY <1>3, <2>1, <2>4, <2>5, <2>6, <2>7 DEF ReaderInv
<1>8. QED
  BY <1>1, <1>5, <1>6, <1>7, Zenon DEF EndOfIncluded, next_include_file

-----------------------------------------------------------------------------
(* The theorems.                                                           *)

LEMMA ReaderInvHolds == ReaderSpec => []ReaderInv
<1>1. ReaderInit => ReaderInv
  <2> SUFFICES ASSUME ReaderInit PROVE ReaderInv
    OBVIOUS
  <2>1. buffer \in Buffers
    BY ReaderAssumption, StartType DEF ReaderInit
  <2>2. << >> \in Seq(Frames) /\ Len(<< >>) = 0 /\ DOMAIN << >> = {}
    OBVIOUS
  <2>3. StackInv(Running, include_stack, streams)
    BY <2>2, ReaderAssumption DEF ReaderInit, StackInv, InRange, Distinct
  <2>4. QED
    BY <2>1, <2>3 DEF ReaderInit, ReaderInv, Running
<1>2. ReaderInv /\ [ReaderNext]_readerVars => ReaderInv'
  <2> SUFFICES ASSUME ReaderInv, [ReaderNext]_readerVars PROVE ReaderInv'
    OBVIOUS
  <2>1. CASE SkipLine
    <3>1. buffer' \in Buffers
      BY <2>1, AdvancedType DEF SkipLine, ReaderInv
    <3>2. UNCHANGED <<call, top, include_stack, streams>>
      BY <2>1 DEF SkipLine
    <3>3. QED
      BY <3>1, <3>2 DEF ReaderInv, StackInv, Running, InRange, Distinct, StreamsOf
  <2>2. CASE TakeLine
    <3>1. buffer' \in Buffers
      BY <2>2, AdvancedType DEF TakeLine, ReaderInv
    <3>2. Running /\ UNCHANGED top /\ Parse(Tokens(Line))
      BY <2>2 DEF TakeLine
    <3>3. QED
      BY <3>1, <3>2, ParseStep
  <2>3. CASE Include
    BY <2>3, IncludeStep DEF Include
  <2>4. CASE EndOfIncluded
    BY <2>4, EndOfIncludedStep
  <2>5. CASE EndOfTop
    <3>1. Running /\ UNCHANGED <<top, buffer>> /\ Parse(<<Mark("EOF")>>)
      BY <2>5 DEF EndOfTop
    <3>2. QED
      BY <3>1, ParseStep DEF ReaderInv
  <2>6. CASE config_read_file
    <3>1. CASE call' = "false" /\ UNCHANGED <<top, scannerVars>>
      BY <2>6, <3>1 DEF config_read_file, scannerVars, ReaderInv, StackInv, Running,
                        InRange, Distinct, StreamsOf
    <3>2. ASSUME NEW s \in fopen(TopFile, streams), top' = s, streams' = streams \cup {s},
                 call' = "running", buffer' = Start(TopFile), include_stack' = << >>
          PROVE  ReaderInv'
      <4>1. streams = {} /\ s \in Streams
        BY <2>6, FopenIsFree DEF config_read_file, ReaderInv, StackInv
      <4>2. buffer' \in Buffers
        BY <3>2, StartType, ReaderAssumption
      <4>3. << >> \in Seq(Frames) /\ Len(<< >>) = 0 /\ DOMAIN << >> = {}
        OBVIOUS
      <4>4. StackInv(Running, include_stack, streams)'
        BY <3>2, <4>3, ReaderAssumption DEF StackInv, InRange, Distinct, Running
      <4>5. StreamsOf(include_stack)' = {}
        BY <3>2, <4>3 DEF StreamsOf
      <4>6. QED
        BY <3>2, <4>1, <4>2, <4>4, <4>5 DEF ReaderInv
    <3>3. QED
      BY <2>6, <3>1, <3>2 DEF config_read_file
  <2>7. CASE Edit
    BY <2>7 DEF Edit, scannerVars, ReaderInv, StackInv, Running, InRange, Distinct, StreamsOf
  <2>8. CASE UNCHANGED readerVars
    BY <2>8 DEF readerVars, ReaderInv, StackInv, Running, InRange, Distinct, StreamsOf
  <2>9. QED
    BY <2>1, <2>2, <2>3, <2>4, <2>5, <2>6, <2>7, <2>8 DEF ReaderNext, yylex
<1>3. QED
  BY <1>1, <1>2, PTL DEF ReaderSpec

(* The array include_stack of MAX_INCLUDE_DEPTH frames is never overrun,   *)
(* and current_filename never reads past the end of a frame's files.       *)
THEOREM ReaderTypeCorrect == ReaderSpec => []ReaderTypeOK
<1>1. ReaderInv => ReaderTypeOK
  <2> SUFFICES ASSUME ReaderInv PROVE ReaderTypeOK
    OBVIOUS
  <2>1. include_stack \in Seq(Frames)
    BY DEF ReaderInv, StackInv
  <2>2. \A i \in DOMAIN include_stack : include_stack[i] \in Frames
    BY <2>1
  <2>3. \A i \in DOMAIN include_stack : include_stack[i].stream \in Streams
    BY <2>2 DEF Frames
  <2>4. QED
    BY <2>3 DEF ReaderInv, StackInv, InRange, ReaderTypeOK
<1>2. QED
  BY <1>1, ReaderInvHolds, PTL

(* No file is closed while it is still read, and none stays open when a    *)
(* read returns, in success or in error.                                   *)
THEOREM StreamsAreClosed == ReaderSpec => []StreamsFollowStack
<1>1. ReaderInv => StreamsFollowStack
  BY DEF ReaderInv, StackInv, Distinct, StreamsFollowStack
<1>2. QED
  BY <1>1, ReaderInvHolds, PTL
===============================================================================
