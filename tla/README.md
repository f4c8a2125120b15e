# A formal model of fDraft

fDraft is an interactive engine for fantasy drafts.  A user loads a league and a pool of players and
then types, pick by pick, what happens in the draft; the engine keeps the rosters and proposes picks
with a Monte Carlo tree search.  League files are read with libconfig, whose source is part of the
repository.  This directory models both in TLA+, checks the models with TLC and proves the most
important properties with TLAPS.  Every definition is translated from the source; `PROJECT.json` maps
each one to its lines, and lists the hazards of the code with the properties that watch them.

Paths are relative to the repository's root; `lib/` below is `lib/libconfig-1.7.3/lib/`.

## 1. Inventory

### The parts of the program

| Part | Source | State it keeps | Operations |
| --- | --- | --- | --- |
| Command loop | `src/control.c`, `src/main.c` | the `Engine`: configuration, `DraftState` (`pick`, `taken`, `still_required`), thinking time | one handler per command |
| Configuration | `src/config.c` | the `DraftConfig`; `SNAKE_DRAFT_PICKS`, the team of each pick | `load_config`, `team_with_pick`, `assign_pick` |
| Player pool | `src/players.c` | the static array `players`, `number_of_players`, `slot_markers` | `load_players`, the lookups, `whos_highest_projected` |
| Pick search | `src/drafter.c` | a tree and two contexts during a call, nothing between calls | `calculate_best_pick` |
| libconfig: settings | `lib/libconfig.c` | a tree of settings, the error of a read, include directory, options | lookup, get, set, add, remove, read, write, clear |
| libconfig: C++ classes | `lib/libconfigcpp.c++` | a wrapper object per setting a reference was given out to (the setting's hook) | the same, with types asserted |
| libconfig: scanner | `lib/scanner.l`, `lib/scanner.c`, `lib/scanctx.c` | the flex buffers, the start condition, the include stack and its streams | `yylex`, include push and pop |
| libconfig: parser | `lib/grammar.y`, `lib/grammar.c` | the LALR stack; the parse context (`parent`, `setting`, `name`) | `yyparse` |
| libconfig: helpers | `lib/strvec.c`, `strbuf.c`, `util.c`, `wincompat.c` | growing memory | append, parse and format numbers |
| The rest | csv files, `scripts/`, `lib/../contrib`, examples, tests | none | not part of the engine |

### How they interact

There is one thread and there are no callbacks: `main` reads a line and calls `do_command`, which
calls a handler, which runs to its end.  What makes the program hard to get right is *sharing between
commands*, and between layers:

- The pool is global and outlives configurations.  A player's **id is his index in the array**, which
  every load sorts anew, while the draft and the save files hold ids.  His **position is the index of
  a slot** of the configuration he was loaded under, while a new configuration renumbers the slots.
- The roster books are kept twice: the handlers update `still_required` pick by pick, and the search
  rebuilds them from the `taken` array for every proposal.  `undo` rebuilds the first from the second.
- The order of picks is global, built with a configuration and changed by trades; each pick also
  records its team.  `undo` asks the order, the search asks the record.
- Save files outlive the process, and hold ids only.
- The search keeps a tree, the node it has come to, and a context (players taken, requirements, pick)
  that must be that of the node; it is moved along by hand and reset field by field.
- The parser moves the context's `parent` beside its own stack; the scanner's includes switch
  buffers under an open token; a failed read leaves both half-way.
- The C++ wrapper of a setting is deleted by the C library, through a destructor function, wherever
  settings go away.

### What is hard

- **Long sequences of legal commands**: undo after bench, load after trade, a pool loaded twice, a
  configuration changed under a pool; settings overridden, removed, read again under live references.
- **Partial failure**: a load of players that stops at a malformed row or a full array, a load of a
  draft that stops at a repeated id, a search that returns NULL or ends the process in an assertion; a
  parse error inside nested includes, descriptors that run out, a file cut short while it is written.
- **Crash and restart**: only save files survive.
- **Timeout**: the search is stopped by a clock of whole CPU seconds, wherever it is in the tree.
- **Boundaries**: the last pick and the pick after it, the end of a position's group in the pool, the
  last element of the players array, more teams than slots, a thinking time of one second; tokens cut
  by the end of a buffer, the include depth, the parser's stack limit, integers that do not fit.
- **Memory never written**: the order past the last pick, the slots past `num_slots`, the tail of the
  array that `group_by_position` copies back.
- **Generated tables**: scanner and parser run from packed arrays that nobody reads.

### What makes each part correct

- Command loop: no player is drafted twice; picks are recorded for the team whose turn it is; a pick
  fills at most one slot, the position's own first; what teams require is what the search will rebuild;
  a saved draft resumes; commands end.
- Player pool: loading loses and copies no player of a real slot; the query that looks at the first free player only
  does find the best one.
- Pick search: every branch of the tree is a draft the real one could become; its context is that of
  its node; a rollout counts each pick for its team; it ends, and answers a free player that fills an
  open slot.
- Settings: a tree without two members of one name; arrays of one type; written text reads back;
  wrappers live as long as their settings.
- Scanner: each rule takes the longest match of what is left, and no step loses, repeats or changes a
  character, wherever the buffer ends; the tables do what `scanner.l` says.
- Parser and includes: the tables do what `grammar.y` says, `parent` is the setting the text is in, an
  include is read in the place of its directive, streams are closed on every way out.

## 2. The modules

The engine:

| Module | What it is |
| --- | --- |
| `DraftConfig` | The league made of a file, the number of picks, the snake order, `fill_slot`. Pure operators. |
| `Players` | The pool: variables `players`, `slot_markers`; loading, sorting, grouping; the queries. |
| `Drafter` | The contract of `calculate_best_pick`: from the draft to the set of players it may return, NULL among them, and whether the process may end. |
| `DraftEngine` | The command loop, composed of the three above. One action per command, one step per iteration for `undo`, `load` and `sim`. |
| `Draft` | The abstract specification of the engine: a board of picks and an order of turns. |
| `EngineHistory` | `DraftEngine` with history variables (benched picks, whether a pick was undone, whether an id was drafted that the pool had no player for, the draft each file was saved from) and the properties that need them. |
| `PoolLoads` | The pool alone, under every sequence of configurations and loads. |
| `Search` | The tree search step by step: tree, context, expansion, selection, rollout, back-propagation, the clock. |
| `PickAnswer` | The abstract specification of a search, one answer out of those promised; `Search` implements it with the promise of `Drafter`. |

libconfig:

| Module | What it is |
| --- | --- |
| `Settings` | The tree of settings as a function from paths; each operation of `libconfig.c` on it. Pure operators. |
| `ConfigText` | Text as a sequence of tokens: `config_write`, the grammar and its actions. |
| `ConfigApi` | One configuration object under every sequence of C and C++ operations, with its wrappers. |
| `ScannerRules` | The patterns of `scanner.l`, as sets of texts, and the longest-match rule. Pure operators. |
| `Scanner` | `yylex` of `scanner.c`: tables, buffer, refills, back-ups, include buffers. |
| `Grammar` | `yyparse` of `grammar.c`: its tables and its stack. |
| `ConfigReader` | `config_read_file` over several files: lines, comments, the include stack, descriptors, parser, errors. |
| `ReaderHistory` | `ConfigReader` with the context the grammar, read by hand, has after the tokens read so far. |

Theorems and proofs (section 4):

| Module | About | Extends |
| --- | --- | --- |
| `Sums_proofs` | sums over finite sets (`MapThenSumSet`): that they are defined, and what an element more does | the libraries |
| `Drafter_proofs` | operators of `DraftConfig`, `Players` and `Drafter`: ranks, sorting, grouping, the queries, `fill_slot`; the requirements rebuilt from the picks as a run of charges | `Sums_proofs` |
| `PoolLoads_proofs` | theorems about `PoolLoads` | `Drafter_proofs` |
| `DraftEngine_proofs` | theorems about `DraftEngine` | `Drafter_proofs` |
| `EngineHistory_proofs` | theorems about `EngineHistory` | `DraftEngine_proofs` |
| `Search_proofs` | theorems about `Search` | `Drafter_proofs` |
| `ConfigReader_proofs` | theorems about `ConfigReader` | the libraries |
| `ConfigApi_proofs` | operators of `Settings` and `ConfigText`: what each makes of a tree; theorems about `ConfigApi` | `Sums_proofs` |

`Leagues`, `MCEngine`,
`MCHistory`, `MCPool`, `MCSearch`, `MCConfig`, `MCReader` and `MCScanner` hold values for model checking.

### How the state corresponds

| Model | Code |
| --- | --- |
| `pc` of the engine | `"prompt"`: `main` is reading a line. `"undo"`, `"load"`, `"sim"`: inside the loop of that command. `"exited"`, `"crashed"`: there is no process. |
| `config` | `engine->config`; `unwritten` is the `num_required` of slots past `num_slots`, which `load_config` never writes |
| `order` | `SNAKE_DRAFT_PICKS[0 .. n_picks - 1]` |
| `taken`, `pick`, `still_required` | the `DraftState`; `pick` is the length of `taken` |
| `players` | `players[0 .. number_of_players - 1]`; an id is an index from 0 |
| `cursor` | the `i` of `undo_pick`'s loop; the ids `load` has read |
| `disk` of the engine | the save files, as sequences of ids |
| `tree`, `context` of the search | the tree, a node being the path of child indices from the root; `current_context`, with the node the loop has come to |
| `sim`, `clock` of the search | the context of a rollout and its sums; the whole CPU seconds since the call |
| a path of settings | the indices from the root; the tree is a function from paths to settings, so a parent pointer is `Front` of a path |
| `hook` of a setting, `alive` | the setting's hook; the wrapper objects there are, with the type each remembers |
| `buffer` of the scanner | `yy_ch_buf`, its size, position, line and fill state; `includes` the frames of `scanctx` with the buffer each suspended |
| `disk` of the reader | files as sequences of lines, a line a sequence of tokens, an include or a mark of a comment |

A handler that does one assignment after another is one action, because nothing can happen in between.
An error that changes nothing is a stuttering step.  A handler that fails *after* changing something
has an action of its own (`load_player_pool_Fails`, `LoadReturns` when `LoadRejected`).  A failed
assertion, a NULL dereference or an index out of range ends the process (`Crash`); `Restart` then
starts it again with the save files it left.

### Modelling decisions

The engine:

- **Past the last pick** (`team_with_pick`): the array holds memory that was never written.  The model
  lets the team be any team of the league, or the process end.  A write past the `taken` array is
  modelled as if the array were long enough.
- **A position past the row** (`fill_slot`): a player loaded under a configuration with more slots can
  have one.  The code then reads, and may decrement, a word of memory the model has no state for.
- **A full players array**: the one record past its end is modelled as stored (`PoolTypeOK`).
- **Elements not copied** by `group_by_position` (`Leftovers`): each is a zero record or one of the
  records the pool holds.  Looking up a name past a NULL one ends the process (`LookupFaults`).
- **Equal points** keep their order: C does not promise it, glibc's merge sort does it.
- **Ids past the pool** (`get_player_by_id`): static storage, hence a zero record.  `load` charges the slot
  of that record's position, which is 0, and records its id, which is 0 as well and the id of a player whose
  position may be another (`LoadOne`).
- **Positions of csv rows** are the set of slot names their text contains, as `strstr` sees it; points
  are naturals (the order and zero matter, not the fractions).
- **Configuration files** are the well-formed ones README.md describes.  Save files are those written by
  `save`, whole (one step, since nothing runs beside it) or cut short in any of their lines, inside a
  number too (`LeadingDigits`; the ids of the instances have one digit, so there a number is cut before or
  behind it).
- **An option of a flex slot** that is itself the name of a flex slot is resolved one level deep, where
  `whos_highest_projected` calls itself; configuration files as README.md describes them have no such option.
- **Inside the command loop a proposal is one step** (`Drafter`): any player for whom a root child would
  be made.  `abort` is true where the assertion in `simulate_score` or a NULL option of a flex slot
  cannot be excluded.  `Search` runs the search from the same drafts and shows that its answer, and its
  abort, are among those (`AnswersAsPromised`).
- **Scores** in `Search` are classes: zero, positive, infinite, not a number.  That is what selection
  and the test for a best child tell apart; ties and order among positive scores are left open.  The
  z-scores weigh a random choice: every choice is allowed.  The early return for a clock that fails
  (`drafter.c:132`) is left out.
- **Before a search** `Search` takes the commands that change what the search is given, in any order and any
  number: configurations, loads of the pool that succeed or fail, loads of drafts, picks, undos, trades.  They
  leave out the requirements the command loop keeps, which a search does not read.

libconfig:

- **Numbers** are naturals with their limits as constants: `INT_MAX`, and `FLT_EXACT` beyond which a float no
  longer holds every integer and takes the nearest (`Single`).  Floats are counted in halves; a cast to an
  int cuts the fraction off, and one beyond the range gives what the machine makes of it (`OutOfRange`), which
  C leaves undefined.  An int64 has no limit here.
- **Text cut short** (`CutTexts`) ends behind any token or inside one: a number keeps its first digits, a
  name becomes some name, a boolean some name that is none, a string or a bracket cut open is an error.
  Numbers have up to three digits, and no exponent.
- **Removal** in C++ is by a path of one step; `config_setting_remove` is given paths of two as well.
- **Wrappers** exist for a bounded set of settings at a time (`Wrappers`).
- **Reading back** in `ConfigApi` uses the grammar by hand (`config_read_string`); that the tables do
  the same is `TablesFollowGrammar`, checked in `ConfigReader`, where the tables run.
- **Lines** are the unit of `ConfigReader`, with tokens in them; characters are the unit of `Scanner`,
  which establishes that tokens come out as `scanner.l` says.  A character of `Scanner` stands for its
  equivalence class (`yy_ec`), so the tables are the real ones, column by column.
- **Buffers** start at `YY_BUF_SIZE` characters and reads return up to `YY_READ_BUF_SIZE`; both are
  constants, so that a small text meets every refill.

## 3. What is model-checked

Passing runs (distinct states; deadlock is checked in all of them but `ConfigApi`, `ConfigValues`,
`Scanner` and the two runs of `Search`, where the program may be done):

| Run | Instance | Properties |
| --- | --- | --- |
| `EngineDraft` | four leagues of three or four picks (one and two flex slots, two of them for one position; equal requirements; two positions and one team), 4 players, some of two positions; 644 000 states | `TypeOK`, `PicksFollowOrder`, `SlotsFollowPicks`, `AgreesWithSearch`, `ImplementsDraft`, `SimCompletesUntraded` |
| `EngineSave` | two teams, slots RB 1, WR 0 (two picks), two pools that number their players differently, one smaller than the other; one file, cut short by a full disk or a kill in any save, and loaded under either pool or none; 737 000 states | `NoPlayerTwice`, `AgreesWithSearch`, `SavedDraftResumes` |
| `EngineLoops` | a league with more teams than slots, one without picks and one that is rejected, a pool that grows by a file of one player and one that stops at a malformed row after a player listed under a flex slot's name; 88 000 states | `CommandsFinish`, `IdsKeepTheirPlayer` |
| `Pool` | three leagues that number the same positions differently, four files (ties, zero points, an unknown position, a player listed under a flex slot's name, a malformed row); 9 600 states | `PoolTypeOK`, `HighestIsBest`, `FlexIsBestOfItsSlots`, `PoolKeepsItsPlayers` |
| `Search` | four small leagues, one with a flex slot and one with a single team; pools with few players and with a worthless one; called from drafts of any length whose picks were of the two first free players of the array (`Reach`), with at most one pick traded (`TradeCap`) and the pool loaded once (`LoadCap`); 207 000 states | `SearchTypeOK`, `ContextFollowsTree`, `BranchesAreLegal`, `RolloutCountsEveryPick`, `OnlyTimeStopsIt` |
| `SearchCall` | two leagues that number the positions differently, one with a flex slot; three pools, one with a malformed row, loaded again while there are no more than two players (`LoadCap`), also after another configuration; up to two picks traded at a time; 60 000 states | `AnswersAsPromised`, `SearchEnds` |
| `ConfigApi` | the root and up to three settings of two usable names and one that is not, of all types; texts with errors; 108 000 states | `ApiTypeOK`, `PathsFindSettings`, `ArraysHaveOneType`, `WrittenReadsBack`, `WrappersFollowSettings` |
| `ConfigValues` | the root and up to two settings of three usable names and one that is not; values of one and two digits, beyond the range of an int, beyond what a float keeps, and with a fraction; 49 000 states | `CutLosesTheEnd`, `SettersReadBack` |
| `Scanner` | every text of up to three of 18 pieces, and samples of escapes, long numbers and every character class; as a file and as a string; include depth 2; buffers of 2 characters, reads of 3; 274 000 states | `ScannerTypeOK`, `LinesCounted`, `MatchesAreLongest`, `ScanEnds` |
| `ConfigReader` | all files of up to three of ten kinds of line, including files of up to one line (themselves too), edits between reads, four descriptors, include depth 2 | `ReaderTypeOK`, `StreamsFollowStack`, `StackFollowsNesting`, `TablesFollowGrammar`, `IncludesInline`, `SourcesShowTheSetting`, `ReadEnds` |

What they show:

- **Picks.** Whatever is picked, benched, simulated, undone, loaded or traded, no id occurs twice among
  the picks, every pick is recorded for the team the order names (so that `undo`, which asks the order,
  and the search, which asks the record, mean the same team), and the engine implements `Draft`.
- **Rosters.** A pick fills one slot at most and its own position's first.  The requirements the handlers
  keep are those the search rebuilds, through loads of drafts too, as long as nobody is benched and
  `load` found a player for every id, and after an undo only if every slot requires the same number (see
  below).  A draft loaded under a smaller pool, or none, breaks this: ids without a player are charged to
  the first slot.  Without trades the search always has an open slot for every pick to come, so its
  assertion holds and `sim` completes; a thinking time of one second is excluded, because whole seconds
  are compared and the loop may end before its first iteration.
- **Files.** A draft loaded under the configuration, order and pool of its save has the same picks, in
  the same process or a later one, and the same requirements if nothing was benched or undone and every
  id had its player.  A save cut short comes back as far as its lines are whole; nothing says that it was
  cut.
- **Pool.**  Whatever is loaded on top of whatever, the array begins with the players of real slots, each
  as often as the files have listed him; those whose position is a flex slot, or none of this
  configuration, are dropped, and what was left in memory fills the array to its length.  An id names the
  same player for as long as a draft goes on, through failed loads too.  The query that stops at the
  first free player after a marker is right for real and flex slots, as long as the last load succeeded
  under the current configuration, every player in the array has a real slot (`grouped`) and a free
  player of the position is left.  The capacity test lets one record too many be stored, and never a
  second.
- **Loops.** `undo`, `load` and `sim` end.
- **Search.** The context is that of the node at every step of the loop, a branch never takes a player
  twice or one without an open slot, a rollout counts the points of every pick for the team that makes
  it, and the search ends, with an answer as promised, after any sequence of the commands that prepare the
  call.  While every player is projected above zero no division is without a result and
  only the clock ends the search.  A player worth nothing can make a score 0/0, after which the search
  may find no child and stop early.
- **Settings.** Paths find what they name after any sequence of operations; what is written is read back,
  provided no array holds two types (the C functions allow it) and no name is a word of the grammar; wrappers
  and settings live and die together.  A text cut short may still read, because a setting needs no
  terminator: then settings at its end are missing, and the last one there, if it is a number at the top
  level, may have lost digits; nothing else is changed.  If it does not read, the same holds of what was
  stored before the error, but that the last setting may be unfinished; unless settings may override: then a
  name cut short may be that of an earlier setting, which is removed.  What a setter accepted, a getter
  returns, whether a path or a member's name is looked up, but for the conversions that lose (`Loses`): a
  fraction into an integer, a number beyond the range of an int into an int, an integer beyond what a float
  keeps into a float.
- **Scanner.** With every token cut somewhere by the end of a buffer, each action takes the longest match
  of the rules of `scanner.l` (the packed tables against the patterns), nothing is lost or scanned twice,
  `yylineno` is right in each file, and every scan ends.
- **Reader.** Through failures anywhere in nested includes the open streams are those of the stack, and
  none is left when the read returns; the tables accept what the grammar accepts and the parse context is
  that of the grammar; an included file is read in the place of its directive.

**Bounds.**  Nothing in the engine's model counts without limit: a draft has at most `n_picks + 1` picks
by `pick`, loads replay files no longer than a draft, and the pool stops at `MAX_PLAYERS`, set to 1 to 4
so that full arrays and repeated loads happen.  Two teams and two rounds are enough for a snake to turn,
for a trade to unbalance the teams, and for an undo to have picks to replay; four players for the three
picks of one league leave one beyond the end of the draft.  In the league without picks every pick is
past the last one, so the replays of `load` and `undo` past it take few steps.  A flex slot needs a
position with an open slot, a position without one and a second flex slot to choose wrongly, and those
are in the leagues.  `VisitCap` bounds how often a node is counted as visited: selection asks whether a
child was visited at all and whether its parent was more than once, and averages whether a node was
visited before; what a counter beyond the bound would add is a weight among positive scores, whose order
is left open anyway.  At 5 the two rounds of the leagues are visited to the end and again.  `Reach`
bounds how far down the array the picks made before the search reach, `TradeCap` how many picks are away
from their snake team at a time, `LoadCap` the players there may be when a pool is loaded.  One trade
suffices for the branches and rollouts of `Search`, where only the team of a pick matters; `SearchCall`
trades two of the picks a league has and loads on top of loads, at the price of smaller leagues and fewer
visits (`VisitCap` 3), because the promise depends on the draft the search is called in and the first
look at the root's children.  Four settings (`MaxSettings`), the root among them, are a group in a group
beside another setting, a list in a list, or an array with two elements: each kind of parent, and an
index that shifts when an earlier element goes.  Two settings and the root are enough in `ConfigValues`,
where the values matter: one that is cut and one before it or around it.  Three pieces of text are a
token with one on either side, or a construct opened, filled and closed; a buffer of two characters has
to grow and to move for most of them.  `YYMAXDEPTH` is 16 in `ConfigReader`, which three lines of
openings reach.  Names and players are ordered by the code, so no symmetry is used.

**Fairness.**  The engine's `Spec` has weak fairness of `LoopStep`, the steps of a command that has
begun; nothing is assumed of the user, who may never enter another command, nor of `Restart`.  `Search`
has weak fairness of its steps and of the clock: both go on by themselves, and a second of CPU time
suffices to look at every child of the root once, which is the only relation between the two that the
model assumes.  `Scanner` has weak fairness of its steps and `ConfigReader` of `yylex`, the steps of a
read: one thread scans until it returns, and nothing is assumed of the calls in between.

### Where the documentation and the code differ

Two runs find a behaviour that contradicts the quoted sentence (`findings` in `PROJECT.json`):

| Run | What happens |
| --- | --- |
| `UndoRestores` | `undo` resets row *i* to the requirement of *slot i*, not slot by slot (`control.c:277`). |
| `ErrorIsOfThisRead` | a read that fails reports the text and line of an earlier failure (`lib/grammar.y:67`). |

Others have no run of their own but are in the models as the code has them.

fDraft:

- a second `load_players` adds to the pool (`players.c:65`, against README.md:20);
- `load` never answers "Player not found." (`control.c:499`): `get_player_by_id` gives an address for every
  id, and an id past the pool is charged to the first slot and recorded as player 0;
- once a position is exhausted the query answers with a player of the next group (`players.c:134`, against
  `players.h:29`);
- one pick more than the draft has is accepted (`control.c:237`, against the message after it);
- trades are not saved, so a draft may resume with picks on other teams (`control.c:515`, README.md:28);
- `undo` charges benched players as if they had been picked (`control.c:286` against 394);
- after a trade that gives a team more picks than slots the search ends in an assertion (`drafter.c:428`);
- the score share is divided by the simulated picks' points only (`drafter.c:437`), not in [0, 1] as the
  comment at 93 states;
- a pick that no slot is open for is accepted (`fill_slot`, against the message at `control.c:252`);
  commands run without a pool (`control.c:57`); a player can get a flex slot for position
  (`codify_position_str`, against `players.c:255`), and is then dropped from the array.

libconfig:

- `operator=` of the C++ classes says nothing when the setter refuses (`libconfigcpp.c++:801`, against
  `libconfig.texi:1893`);
- `config_setting_add` lets an array hold two types (`libconfig.c:1620`, against `libconfig.texi:491`);
- `config_setting_remove` returns FALSE for a path that ends in an index (`libconfig.c:1643`);
- a later file of an include list that is missing is reported with the line of the file before it
  (`scanner.l:183`); `error_type` is not reset by a read that succeeds;
- a member named `true` or `false` is written and reads back as a boolean, a setting of type none is
  written `???`; a comment that never ends is accepted; `.` alone is a float;
- a string element's source line is that of the token after it, by when it is added (`grammar.y:318`);
- `Setting::add` wraps element 0 even when it then throws.

## 4. What is proved

Each theorem holds for every set of leagues, pools, names, files, thinking times and bounds that satisfies
the assumptions below.  The runs of section 3 check the same properties on small instances, `VisitsAddUp` excepted, which is
proved only.

| Theorem | Statement |
| --- | --- |
| `DraftEngine_proofs`: `TypeCorrect` | `Spec => []TypeOK` |
| `NeverTwice` | `Spec => []NoPlayerTwice` |
| `PicksFollowTheOrder` | `Spec => []PicksFollowOrder` |
| `EngineImplementsDraft` | `Spec => ImplementsDraft` |
| `EnginePoolTypeCorrect` | `Spec => []PoolTypeOK` |
| `IdsStandForPlayers` | `Spec => IdsKeepTheirPlayer` |
| `EngineHistory_proofs`: `BooksAgree` | `HSpec => []AgreesWithSearch` |
| `RostersFollowPicks` | `HSpec => []SlotsFollowPicks` |
| `DraftsResume` | `HSpec => SavedDraftResumes` |
| `SimCompletes` | `HSpec => SimCompletesUntraded` |
| `PoolLoads_proofs`: `PoolTypeCorrect` | `PSpec => []PoolTypeOK` |
| `HighestIsTheBest` | `PSpec => []HighestIsBest` |
| `FlexIsTheBestOfItsSlots` | `PSpec => []FlexIsBestOfItsSlots` |
| `PoolKeepsPlayers` | `PSpec => PoolKeepsItsPlayers` |
| `Search_proofs`: `SearchTypeCorrect` | `SearchSpec => []SearchTypeOK` |
| `ContextFollows` | `SearchSpec => []ContextFollowsTree` |
| `BranchesLegal` | `SearchSpec => []BranchesAreLegal` |
| `VisitsAdd` | `SearchSpec => []VisitsAddUp` |
| `RolloutsCountEveryPick` | `SearchSpec => []RolloutCountsEveryPick` |
| `OnlyTheClockStops` | `SearchSpec => []OnlyTimeStopsIt` |
| `SearchAnswers` | `SearchSpec => AnswersAsPromised` |
| `ConfigReader_proofs`: `ReaderTypeCorrect` | `ReaderSpec => []ReaderTypeOK` |
| `StreamsAreClosed` | `ReaderSpec => []StreamsFollowStack` |
| `ConfigApi_proofs`: `ApiTypeCorrect` | `ApiSpec => []ApiTypeOK` |
| `PathsLeadBack` | `ApiSpec => []PathsFindSettings` |
| `ArraysKeepOneType` | `ApiSpec => []ArraysHaveOneType` |
| `WrappersDieWithSettings` | `ApiSpec => []WrappersFollowSettings` |
| `WhatIsSetIsFound` | `ApiSpec => []SettersReadBack` |

**Assumptions.**  Configuration files are well formed (`ConfigFilesAssumption`) and pools are sequences of
rows, malformed ones among them (`PoolFilesAssumption`).  The array of players has a length that is a
natural number (`MaxPlayersAssumption`), that of slots a positive one (`MaxSlotsAssumption`); memory never
written holds integers (`GarbageAssumption`).  Thinking times are integers, for a search positive ones
(`ThinkTimesAssumption`, `SearchTimesAssumption`), and a counter of visits tells never, once and more often
apart (`VisitCapAssumption`).  The values that stand for NULL, for no file and for no configuration are
none of the things they are told from (`NoPlayerAssumption`, `NoNameAssumption`, `NoNodeAssumption`,
`NoFileAssumption`, `SaveFilesAssumption`, `NoConfigAssumption`).  The reader assumes that the depth limit
is a natural number and that the file read and those an include names are files (`ReaderAssumption`).
Of configuration objects it is assumed that values are the naturals they are modelled by
(`ValuesAssumption`; negative numbers, which C truncates the other way, are left out), that the values of
ints, and what a cast makes of a number beyond them, are ints (`IntsAssumption`, `OutOfRangeAssumption`), that
settings are
added with one of the types there are (`AddedTypesAssumption`; `config_setting_add` refuses
every other number), that the bound of exact floats is a positive number (`ExactAssumption`), that texts are
sequences, of whatever tokens (`TextsAssumption`), and that NULL is neither memory nor a message
(`WrappersAssumption`, `NoErrorAssumption`).  The size of trees is not bounded in these proofs.
Nothing is assumed of what the operators compute: that the number of picks of a league is a natural number,
for one, is the lemma `PicksType`.

**Without induction.**  The models compute with recursive functions: sums over sets, requirements after
each pick, a score carried up a branch.  None of the provers can instantiate an induction theorem.  Two
arguments take its place.  Where a function of the numbers up to *n* is concerned, the set of numbers at
which a claim fails has a least element, which is not 0, and the claim at the number before it gives the
contradiction.  Sets are treated by their cardinality in the same way: the smallest set over which a sum
is not defined has an element, and the sum without it is (`Sums_proofs`).  Existence comes first, because
a `LET` of a recursive function is a `CHOOSE`; then the equations; then what is needed of the values.

**Engine.**  `TypeOK` is inductive as it stands: its part `DraftTypeOK` ties order, picks and requirements
to the configuration that is loaded, which is what the array accesses of `control.c` rely on, and its part
about `pc` says that a loop runs only in a draft.  The three theorems after it rest on one observation, the
lemma `EveryStepIsBoardStep`: each step of the engine starts over, adds a pick of a player not yet taken for
the team on the clock (`DrafterPicks`), removes the last pick, changes the order only from the current pick
on (`OnlyTrades`), or leaves board and order alone.  The loop of `load` is the case that needs care: it
takes ids from a file, and an id past the pool stands for player 0, so what must be free is the id of the
record found.  Loads of a pool are followed record by record: a failing one appends, a successful one
starts a new draft, and in both the array holds at most one record more than it has room for.

**Engine with history.**  `AgreesWithSearch` is not inductive.  `BooksInv` adds that every pick was of a
player the pool had (`KnownPicks`), that the loop index of `undo` is at rest outside of it (`CursorRests`),
and that within it the requirements are those of the picks replayed so far (`ReplayAgrees`), which is where
the reset row by row instead of slot by slot shows (`ResetIsExact`).  The
variable `unknown` marks the drafts of which all this is false: `load` has taken an id the pool has no player
for, that of a larger pool or any where none is loaded.  It is charged to the first slot and recorded as
player 0, who may have another position, or get one by a load of a pool that fails later.  `SlotsFollowPicks`
needs that benched picks are picks and a tally of the filled slots, which a pick raises by one at most and
only for the team it is charged to.  `SavedDraftResumes` is proved from `HistoryInv`: no player twice, ids
in drafts and files are ids of records (`RealIds`), what is loaded so far is a beginning of what was saved
(`LoadInv`), and a file holds the ids of the draft it was saved from, or, cut short, a beginning of them
and perhaps one more number (`FilesInv`); crashes and restarts leave files and their circumstances alone.

`SimCompletes` needs, beyond types, only `PicksFollowOrder`, because a search rebuilds its rosters from the
picks.  In a snake draft a team picks once in each round (`OncePerRound`: of a number below *k n*, quotient
and remainder by *n* are its round and its place), so it has no more picks than rounds (`SnakePicks`, by an
injection), which is the number of slots it has to fill (`OpenAtFirst`).  Each pick takes at most one of
them (`RoomAfterPick`), so the room is there after any number of picks (`UntradedHasRoom`), and where there
are players as well the search answers (`SufficesAnswers`).

**Pool.**  `PoolInv` says what `grouped` means: players of real slots sorted by position and then by
points, and a marker before the first of each position that has any.  Sorting is shown to be a permutation
in order, grouping to move no player of a real slot.  `PoolKeepsItsPlayers` asks nothing of the pool it
starts from: sorting by position and grouping put the players of real slots first, as many of each record as
there were, whoever else is in the array, and what follows them is left open.

**Search.**  Invariants, each on top of those before it:

- `SearchInv`.  The nodes form a tree closed under prefixes, whose children are where their parents say
  (`TreeInv`); nodes other than the root are picks, and legal ones (`LegalAt`); the context is
  `ContextAt` of the node, the draft and the branch *above* it (`ContextInv`), while expansion and
  simulation work with the pick of the node added (`WithPickOf`).  Branches are functions of the players of
  the nodes alone, so visits and scores do not disturb them, and a node grown gets children that were legal
  when they were found.
- `VisitInv`.  The visits add up, and a node visited that has no children stays so: the same branch would be
  expanded again, with the same result (`Barren`).
- `RolloutInv`.  The scores of a rollout are sums over the picks it holds by the team that makes each, from
  the walk up the branch (`BranchPoints`, which counts back from the last pick) and from each simulated pick.
- `OrderInv` and `ScoreInv`, while all projections are positive: no score is NaN, nodes never visited have
  scores zero, nodes with children were visited, nodes above the one the search has come to more than once,
  no path goes past the end of the draft, and the team that picked the leaf has points in the rollout that
  is under way, so that its share is no 0/0 and the average no infinity times nothing.  Then every bound is
  positive, and `select_child` finds a node.

`SearchAnswers` is a refinement, `SearchSpec => P!AnswerSpec`, for every `Reach`, `TradeCap` and `LoadCap` and
so from any number of picks, trades, undos, configurations and loads before the call; of these the proof needs
only that they keep the types of the pool, the order and the picks (a pick of an id without a player is
allowed, as `load` makes it).  A step of `Search` asks, answers, aborts or
leaves the abstract state alone, and the promise, which is the operator the command loop uses for a
proposal (`calculate_best_pick` of `Drafter`), stays the same throughout a call (`PromiseStays`).  For this
it must be shown that what `Drafter` states in one formula about the draft is what comes of any number of
visits.

- What may be answered.  Once the root has been expanded its children are `RootChildren` of the draft, each
  with the player a query for its slot finds (`RootInv`), and none was made after a query that faults.
  After the first second of the search, or once it is below them, each of the children has been visited
  (`LookInv`; `WayInv` keeps the way from the root in step with the visits).  A child visited whose player
  is projected above zero scores above zero for the team on the clock, through every average
  (`MoverInv`): so the answer is NULL only without children, after one second, or if all of the best
  players are worthless, which are the cases of `NullPossible`.
- What may abort.  A rollout holds the draft and some picks more, and its requirements are those of its
  picks (`RoomInv`).  Where every team has room for the picks it still has and the players suffice, a pick
  keeps it so: the team on the clock gives up one open slot and one pick (`TeamsHaveRoom`), and one player
  less is free for one pick less (`PlayersSuffice`).  Then a team on the clock always finds a player, so an
  abort means that the draft the search was called in already had not enough of them.

The proof corrected the model in one place: a query for a flex slot starts from the markers of the slot's
options, so players must suffice from these markers too (`QueriedSlots`), not only from those of slots that
the league requires.

**Reader.**  `StreamsFollowStack` is not inductive by itself: that a stream is closed once needs that the
streams of the frames differ from each other and from the one of the file read, and that the frames keep
within their lists of files.  `ReaderInv` adds both (`StackInv`), and each action (open, push, next file of
a list, pop, unwinding after an error) moves streams into or out of the stack and the set of those in use
together.

**Configuration objects.**  None of the five properties is inductive.  `ApiInv` is what makes them so: the
settings form a tree (`IsTree`: paths closed under parents and under earlier siblings, children below
aggregates only, members of a group with different names), the wrapper objects are the hooks of the
settings (`Wrapping`), arrays are `Uniform` in a C++ program and there are no hooks in a C program.  That
invariant was checked with TLC on the instance of `ConfigApi` first.  The proof is in three layers.

- *Trees.*  A removal moves the later siblings and all below them up by one: each setting of the new tree
  is one of the old, found by `Was`, and parents and siblings go with it (`WithoutShape`, `RenamedTree`).
  An addition grows the tree at the next index, which is free because indices have no gaps (`ElementsAre`,
  `GrownShape`).  Everything else is a change of one setting that keeps its name, and its type unless it
  had none (`ChangedTree`).  `AddIs` puts them together: `config_setting_add` either finds no member of
  the name or, with overrides, adds to the tree without it.
- *The parser.*  Between tokens the brackets open are the settings around the parent, innermost last
  (`Places`), and a setting that waits for its value has no type yet (`Pending`), so that what
  `simple_value` and `Open` do to it can change no aggregate.  `Parsing` says so of the parse context, and
  each token keeps it (`TakeParses`, `TokenParses`), errors included.  A text is a fold over its tokens and
  a lookup one over its steps; `FoldExists` and `FoldSteps` unroll such a fold into its steps without
  induction, and `KeptThroughout` carries a property along them.  So what is read is a good tree wherever
  the reading stops (`ReadGood`), and a path leads through the settings above (`LookupLeadsTo`).
- *The operations.*  Each call of either library keeps `ApiInv`.  The C++ classes need most care where they
  act before they fail: `Setting::add` wraps element 0 to look at its type, and an override destroys the
  wrapper objects of a whole subtree before the new setting is wrapped, perhaps in the same memory.

`SettersReadBack` then compares each conversion of a setter with that of the getter (`ReadBack`), casts to
int and the rounding of integers by a float included, finds the two kinds of value that are stored nowhere
(`LostMeans`), and looks the setting up in the new tree.

**Only model-checked**:

- liveness (`CommandsFinish`, `SearchEnds`, `ReadEnds`, `ScanEnds`), out of the prover's reach;
- the scanner (`ScannerTypeOK`, `LinesCounted`, `MatchesAreLongest`): it runs from packed tables, whose
  agreement with the patterns is a matter of evaluation, not of proof;
- the reader's properties of text (`StackFollowsNesting`, `TablesFollowGrammar`, `IncludesInline`,
  `SourcesShowTheSetting`): the parser too runs from packed tables;
- written text (`WrittenReadsBack`, `CutLosesTheEnd`): that the parser makes of the text of a setting that
  setting again is an induction over the tree, with a claim about all the text before and after it.

## 5. What is not modelled

- The commands that only print (`state`, `history`, `roster`, `available`, and the listing by position
  they use), the reading of lines, and what `main` does at end of input (the buffer keeps the last
  command).
- Save files edited by hand.
- `load_config` of malformed files (`config.c:42-127`): it never destroys the configuration on its error
  paths and leaves slots without a name or a number uninitialised.
- The z-scores and the progress output of the search.
- In libconfig: the C++ iterators (`libconfigcpp.c++:1218` on), the formatting of numbers and the options
  that govern it, memory that grows (`strvec.c`, `strbuf.c`), the parsing of digits (`util.c`), the
  values the scanner's rules compute from escapes and numbers, Windows compatibility.
- libconfig's contrib, examples, tests and `tinytest`, the scraper, the csv data and the build: not part
  of the engine.
- Memory leaks and the freeing of memory at exit; widths of integers in the engine (counts stay far below
  them).

## 6. Plan

1. *(done)* The engine: `DraftConfig`, `Players`, `Drafter`, `DraftEngine`, `Draft`, with theorems.
2. *(done)* `Search`, shown to keep the contract of `Drafter`.
3. *(done)* libconfig: settings and classes, text, scanner, parser, includes; theorems about the includes.
4. *(done)* Proofs of the engine with its history, of the pool, of the search and of configuration objects.
5. The printing commands as observations: `roster` against README.md:26 (benched players' points are
   added to the total, `control.c:350`), `available` against the pool.
6. Input lines and their end.
7. Iterators over settings that change under them (`libconfigcpp.c++:1218`).
