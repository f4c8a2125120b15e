---------------------------- MODULE ReaderHistory ----------------------------
(***************************************************************************)
(* The reader with one history variable: the parse context as the grammar  *)
(* read by hand has it after the tokens the parser of grammar.c was given. *)
(***************************************************************************)
EXTENDS ConfigReader

VARIABLE reference

historyVars == <<readerVars, reference>>

Place == [file |-> current_filename, line |-> lineno]

Start_Reading == Reading(parsectx_init(config_clear, FALSE))

HInit == ReaderInit /\ reference = Start_Reading

HSkipLine == SkipLine /\ UNCHANGED reference

HTakeLine == TakeLine /\ reference' = ReadTokens(reference, Tokens(Line), Place)

HEndOfTop == EndOfTop /\ reference' = ReadTokens(reference, <<Mark("EOF")>>, Place)

(* An include that fails hands the parser TOK_ERROR.                       *)
HInclude ==
  /\ Include \/ EndOfIncluded
  /\ reference' = IF call' = "running" THEN reference
                  ELSE ReadTokens(reference, <<Mark("ERROR")>>,
                                  [file |-> error'.file, line |-> lineno])

HCall ==
  /\ config_read_file \/ Edit
  /\ reference' = IF call' = "running" THEN Start_Reading ELSE reference

HNext == HSkipLine \/ HTakeLine \/ HEndOfTop \/ HInclude \/ HCall

HSpec == HInit /\ [][HNext]_historyVars /\ WF_readerVars(yylex)

(* The tables of grammar.c accept the texts the grammar accepts, and have  *)
(* its actions done in its order, as soon as the tokens seen allow; but    *)
(* they have no room for a text nested too deep.                           *)
TablesFollowGrammar ==
  ctx.error # "memory exhausted" =>
    /\ \A field \in DOMAIN parsectx_init(config_clear, FALSE) : ctx[field] = reference[field]
    /\ ctx.accepted <=> reference.want = "nothing"
===============================================================================
