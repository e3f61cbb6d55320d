# Mini_SQL, specified

TLA+ models of Mini_SQL (`src/src/*.c`, `src/include/*.h`), a small SQL program in C that
keeps each table in a CSV file, the TLC configurations that check them, and TLAPS proofs of
the results that hold for every value of the constants.

Paths below are relative to `src/` of the repository: `storage.c` is `src/src/storage.c`.

## 1. The system

| component | state it keeps | operations | interacts with |
|---|---|---|---|
| main, file mode (`main.c` 471-689, 910-942, 1029-1074) | the text, the list of statements, exit status | read, split, run in order, free | parser, executor |
| main, REPL on a terminal (`main.c` 104-404, 954-1027) | line buffer, length, cursor, terminal settings | one byte at a time: insert, delete, move, escape, Enter, Ctrl-D | kernel (termios, read), parser, executor |
| main, REPL on a pipe (`main.c` 417-465, 954-1027) | line buffer, the indicators of stdin | fgets, trim, run | C library, parser, executor |
| tokenizer (`tokenizer.c`) | token array | `tokenize_sql` | called by the parser |
| parser (`parser.c`) | cursor into the tokens | `parse_sql` | fills a `Command` |
| schema manager (`schema_manager.c`) | none between calls; reads `schema/<table>.schema` | `load_schema`, `validate_values`, `cast_value` | called by the executor, per statement |
| executor (`executor.c`) | three row lists per SELECT, on the heap | `execute_command` | schema manager, storage |
| storage (`storage.c`) | the file `data/<table>.csv`, shared by every process | `append_row`, `read_all_rows` | C library streams |
| result printing (`main.c` 695-849) | none | prints a table or `INSERT 1` | executor's result |

A statement goes down the table: text, tokens, command, schema, rows, file, and its result
comes back up. The data file is the only state the program writes that outlives a statement,
and the only one two processes write. The schema file is written by the user, with an editor,
and read by every statement anew. Nothing locks either of them.

### What is hard in it

* Concurrency: several processes append to and read from one CSV file through buffered
  streams. Only the size of the stream's buffer keeps their lines apart.
* Failure: a disk that fills up in `fprintf` or `fclose`, an allocation that fails in the
  middle of a SELECT or of the splitting of a file, a process that dies before `fclose`.
* State read and used later: a statement holds the schema it loaded while another process
  appends and the user replaces the schema file.
* Order: keys are byte sequences read in nested loops while the terminal's mode, and with it
  the fate of what is typed, changes; the whole file is split before anything runs.
* Two descriptions of one thing: the splitter and the tokenizer (strings, blanks), the CSV
  writer and the CSV reader (blank lines, lengths), the line buffer and its length; a literal
  checked as a token, as a value of a column's type and as a field of a CSV line.
* Limits: the line buffer, the longest line, the longest value, the arrays of MAX_COLUMNS, the
  lines of a schema file, the range of an int.
* End of input: every loop must end when the input does, after an error too.

`PROJECT.json` lists the hazards with their lines and the properties about them.

### What makes each part correct

* storage: to every process the file is a table that only grows; an INSERT adds one row at
  one instant or fails and returns, a SELECT reads one instant, and returns when the file is
  let alone. (`CallsReturn`, `LineTableSpec`, `RowTableSpec`,
  `InsertAddsOneRow`, `AnswersStayTrue`; `FailureSpoilsOneRow` and `NothingIsOverwritten`
  say what is left where that is lost.)
* executor: the steps of a statement amount to its meaning, every block is owned by one list and
  freed once, and a list that may be read has the rows it counts. (`SessionSpec`, `MemoryOwned`,
  `InBounds`, `RunEnds`)
* terminal REPL: the line is what the keys say, the buffer is a C string, the terminal is
  given back, the end of the input ends the session. (`KeysHaveTheirMeaning`, `EditedSpec`,
  `BufferIsString`, `TerminalRestored`, `HangUpEndsTheSession`, `EnterIsAnswered`)
* piped REPL: a line is a statement, the end of the input ends the session.
* file mode: the statements are the pieces between semicolons outside of strings, nothing
  runs early, status 0 means that all ran, nothing leaks.
* tokenizer: it sees the same strings as the splitter (`SplitAgreesWithTokens`).
* parser: it accepts the sentences of the grammar and hands over their meaning, and no array
  is overrun. (`SentencesAreAccepted`, `ArraysHold`)
* schema manager: a schema file is read as the list of columns it is, and a statement is
  carried out if and only if it is valid under it. (`SchemaIsTheText`, `PlanIsTheMeaning`)
* the program in several processes: rows stored under older schemas are still shown, as they
  were inserted, and only an edit in its midst can spoil a SELECT. (`RowsAreShownAsInserted`,
  `OnlyEditsSpoilSelects`)

## 2. The modules

Abstract specifications: `Table` (storage), `SqlSession` (executor), `EditedLine` (line
buffer). Detailed ones: the rest. Proofs are in modules of their own.

```
CsvCodec <--- Storage <--- StorageProperties <--- StorageProofs        Table  (refined by it)
   ^                                  ^-- MCStorage
   +--------- Sql <--- SqlSession  (refined by Executor)
   |           ^------ Executor <--- ExecutorProofs, MCExecutor
   |           ^------ MiniSql <--- MiniSqlProofs, MCMiniSql
   +--------- CodecProofs, with FoldFacts  (used by StorageProofs, ExecutorProofs, MiniSqlProofs)
   +--------- Grammar <--- Parser <---------- Statement <--- StatementProofs, MCStatement
   |          (Models, Tokenizer)                  |
   +--------- SchemaLoader (Models) <--------------+
EditedLine (refined by) LineEditor <--- LineEditorProofs, MCLineEditor
PipedRepl <--- MCPipedRepl  (proved about in LineEditorProofs, through an instance)
Tokenizer <--- SqlFile <--- SqlFileProofs, MCSqlFile
```

A definition with "a slip" or "Mutant" in its comment is no part of a specification: it is what
a mistake in the code would have made of the definition after it, kept to see that the
properties notice it.

### CsvCodec: the format of a row (`storage.c` 119-449)

No state. A text is a sequence of bytes. `ValidText`, `ValidRow`, `Serialize` and `Line` are
the writer, `Fields`, `Parsable`, `ParsedRow`, `Blank` and `Readable` the reader, with the
same limits as the code: `MAX_COLUMNS`, `MAX_VALUE_LENGTH` (a field), `MAX_LINE_LENGTH` (a
line with its newline) and the range of an int. `IsNumeral` and `NumeralValue` are `strtol`
with its leading blanks and its sign, so `" +5"` in a file edited by hand is 5. What numbers
and lines look like is kept, byte by byte, because `RowTableSpec` is about the conversion.

### Storage: append_row and read_all_rows (`storage.c` 486-655)

| variable | in the code |
|---|---|
| `lines`, `tail` | the bytes of the data file: its finished lines, and what follows the last newline |
| `pc[s]`, `row[s]` | where process `s` is in a call, and the row it appends |
| `stream[s]` | what is in the stream's buffer, or still to be printed |
| `got[s]` | the lines the fgets loop has read |
| `answer[s]` | what the last call returned |
| `calls`, `acked`, `broken` | history: calls begun, rows confirmed, appends that opened the file and were not confirmed by success |
| `overlaps` | history: appends that opened the file while another process was still printing |

One action per library call that can be seen from outside: `BeginAppend` is the validation and
serialization before any effect, `OpenAppend` the fopen and the start of fprintf, `WriteBuffer` a
write(2) that fprintf makes when the buffer is full, `CloseWrites` the one fclose makes,
`AppendOk` the return. A data file that is not there is an empty one, as ENOENT is for
`read_all_rows`; `OpenFails` is also a data directory that is not there. The error paths are
`RefuseAppend`, `OpenFails`, `PrintFails` with `CloseAfterError`, `FlushFails`, `CloseFails`;
`FgetsBadLine` and `ReadFails` for the reader; `Crash` for the process. A write that fails has
written any part of what it was given. A reader that meets a bad line fails as a whole. The
reader's own buffer is not modelled: the file only grows, so what a block read earlier held is
still what the file begins with.

### Table: what storage promises

A sequence of items that only grows, with concurrent operations that take effect at one
instant between call and answer, may fail, and when an INSERT fails it may have taken effect
once. `LineTable` and `RowTable` in `StorageProperties` are the two refinement mappings: to
the lines of the file, and to the rows these lines stand for.

### Sql, SqlSession and Executor (`executor.c`, `main.c` 855-942)

`Sql` has the statements with typed values and what they mean on rows under a schema: the checks
of `cast_value` and of the executor, the rows WHERE keeps, the columns shown and how wide each is
printed. `SqlSession` says in one step per statement what a script means: validity, the row
added, the header and rows shown, and that a file stops at the first failure while a REPL goes
on. `Executor` is the code: `full`, `filtered` and `result` are the three row lists, pointer and
count, `heap` maps the live blocks to their rows. Actions follow `execute_select_command` in
order: `ReadRow` (one realloc), `FilterMoves`, `FilterCopies`, `FilterFails`, `ReleaseFull`,
`UnknownColumn`, `ProjectMoves`, `ProjectCopies`, `ProjectFails`, `DropFiltered`, `PrintResult`,
which widens the columns row by row as `print_select_result` does. A statement that fails comes
to "failed", where `execute_command` has returned -1 and `result` is what it left the caller:
nothing, except after `ProjectFails`, when it has the count of the rows that were wanted and no
block (415-425). `ReportFailure` is `run_statement`, which neither reads nor frees the result of
a statement that failed. `append_row` is one step, which may fail before or after its row is in
the table; that it may be taken as one step is what `LineTableSpec` shows. A statement is what
`Statement` makes of a text, and a text that is refused is `BadSql`. Refinement: a statement
still in progress is not yet in the abstract script.

### EditedLine and LineEditor (`main.c` 104-404, 954-1027)

`EditedLine` is a line as two texts, left and right of the cursor. `LineEditor` has the array
(`buffer`, with whatever was on the stack at first), `length` and `cursor`, the terminal (`mode`,
`saved`, `gone`), the bytes typed and not read (`input`), the place in the code (`pc`: `escape`,
`bracket` and `other` are inside `handle_repl_escape_sequence`) and the user, who presses `Keys`,
each the bytes it sends, whenever he likes. `asked` is "lost" from a lone ESC or a read error
inside a key to the end of that line. `refused` records that the terminal once did not take the
settings back. `EnableRawMode` and `DisableRawMode` include TCSAFLUSH, which discards `input`.
`wish` and `asked` are what the keys pressed at a prompt mean; they are history, no action of the
program reads them.

### PipedRepl (`main.c` 81-96, 451-465, 954-1027)

`input` is the rest of stdin, `error` the stream's error indicator, which nothing clears.
`FgetsLine` takes a line or as much as fits, `FgetsFails` is a read error, `FgetsEof` asks
`ferror` first, as the code does.

### Tokenizer and SqlFile (`tokenizer.c`, `main.c` 471-689, 910-942, 1029-1074)

`Tokenize` is a function from texts to tokens or refusal. `SqlFile` is main with a file: the
splitter is one action per kind of byte, `statements` is the list, `live` counts heap blocks.
A statement runs or fails as it likes, except that one without tokens, or with a token the
tokenizer refuses, fails.

### Models, Grammar, Parser, SchemaLoader and Statement: one statement

`Models` has the command structures of `models.h`, `Grammar` the sentences: which token stands
at which position, for INSERT with n values and for SELECT with n columns and a condition or
none, and the command each sentence means. `Grammar` is the reference, and only its `IsWord`,
`IsName` and `IsValue` (what one token can be taken for) are also what the parser uses.

`Parser` (`parser.c` 30-651, `tokenizer.c` 32-68 and 193-402) has the token list with the
cursor (`tokens`, `at`, `index`), the local command (`draft`) and the caller's (`command`). The
scanning is token by token, with `ReallocFails` at each. `pc` is what the recursive descent
expects next; `Moves` lists keyword and symbol moves, `After` the places that take a name or a
value. `Release` is `free_token_list`, which every way out calls.

`SchemaLoader` (`schema_manager.c` 25-86, 188-376) has the file's bytes (`content`), how far they
are read, the columns so far, and how `load_schema` returned. One action per line read: blank,
a column, refused; plus the read error and the end. `fgets` takes at most `LINE_SIZE` - 1
bytes. `WellFormed` and `SchemaOf` are the reference: they look at the whole text and its
pieces between newlines. A last line that fills the buffer is refused although it is not too
long, because `feof` is asked before the end was met: the reference says so in `WellFormed`.

`Statement` composes the two with `execute_command` (`executor.c` 157-445) up to the call of
`append_row` or of the filter: number of values, `cast_value` of each raw literal, columns
looked up. `plan` is the row appended, or the condition and columns of a SELECT. Here the
checks of a SELECT come before its rows are read, which changes no outcome as reading is left
out; their order with the reading is in `Executor` and `MiniSql`.

### MiniSql: several processes and a schema file that is edited

Each process begins a statement, loads the schema, and then appends or reads, one step each.
That `append_row` and `read_all_rows` may be one step is `LineTableSpec`, so this module speaks
of tables whose lines fit the stream's buffer. `schemas` are the schema files there have been,
`loaded[s]` which of them `s` holds; `file` the lines of the data file. `EditSchema` is the
user: an edit renames columns and makes int columns string columns (`Widens`). Dropping or
adding a column makes old rows unreadable by design, so those edits are left out. The file is
replaced at one instant, as an editor that renames does; while it is away a load fails
(`LoadFails`). `added` and `began` are history.

## 3. The runs

Each has a `.cfg` of the same name. Sizes are distinct states.

| run | instance | what it shows |
|---|---|---|
| `storage_shared` (44 thousand) | 2 processes, 4 calls, table (int, string), 6 rows: one with a field and a line of exactly the longest, one with no text, and four that are refused, for a field or a line a byte too long, a comma, a type; every fault but a full disk, a process may die at any step | the file is an atomic table of lines and of rows; every INSERT that was confirmed is one readable row |
| `storage_long` (161 thousand) | 2 processes, 3 calls, lines of up to 4 bytes against a buffer of 2, every call failing, a process may die | each failed append and each overlap spoils at most the rows it touches; while nothing fails lines mix but no byte is lost; an INSERT returns, a SELECT returns unless the file grows meanwhile |
| `executor_session` (71 thousand) | 3 statements out of 13, in a file or at the prompt, failing allocations, appends and reads | memory ownership, bounds of every list that may be read, refinement of `SqlSession` (a file stops at its first failure), the script ends |
| `editor_session` (947 thousand) | 4 keys of 10, a lone ESC among them, buffer of 3, read errors, refused settings, Ctrl-C and a hang-up anywhere, garbage in the buffer | keys have their meaning, the buffer is a string, refinement of `EditedLine`, the terminal is restored, a hang-up ends the session, an Enter is answered unless one of the two bytes before it is an ESC |
| `piped_lines` (33 thousand) | every input of up to 5 bytes over two letters, blank, newline, and of up to 3 with CR LF; buffer of 5 | lines that fit are the statements; end of input ends an error-free session |
| `file_texts` (470 thousand) | every text of up to 5 bytes over 8; failing reads, allocations and statements | the splitter against its definition and against the tokenizer; no early run, no leak, exit status |
| `statement_texts` (197 thousand) | 6 sentences and each one edit away from them (a token removed, replaced or inserted, the rest cut off), lists one too long, two schema columns; 3 sentences with 813 schema files of up to 3 lines; buffers of 3 to 8 bytes; realloc, fopen and fgets may fail | accepted texts are sentences, arrays hold, the schema is the file, the plan is the meaning |
| `minisql_edits` (971 thousand, processes interchangeable) | 2 processes, 6 statements, 2 edits of 8 schemas, a row at the start and one more, every call may fail, processes die | old rows stay readable and are shown as inserted |

Why these bounds are enough to be of interest: two processes and two calls each have every pair
of operations overlap; buffers of 2 to 5 bytes are reached and passed by lines of that length;
three statements let a failed one follow and precede good ones; three blocks are the most lists
that live at once plus the one realloc moves to; four keys fill a buffer of two characters, move
in it, delete or press Enter; a token more or less at any place is what a wrong branch of the
parser would take; two edits let a row be stored under a schema that is older than the one its
reader was told of; five bytes hold a string with a semicolon in it between two others.
`MaxCalls`, `MaxStatements`, `MaxKeys`, `MaxEdits`, `MaxRows` and the lengths of inputs are
bounds of the checking only: where they are reached the model stutters (`Finished`), so that a
deadlock anywhere else is an error. No property is true because of such a bound: where a reader
can be outrun by appenders that go on, `CallsReturn` says so instead of resting on `MaxCalls`,
which there only bounds the numbers of lines that a file can come to have.

### Disagreements between the code and its comments

Four runs check what a comment says and find a counterexample.

| run | what happens |
|---|---|
| `storage_unterminated` | a data file without a newline at its end: the next INSERT joins its row to the last line (`storage.h` 8-10) |
| `storage_blank` | a table of one string column: INSERT of `''` is confirmed, the row is never read back (`main.c` 842) |
| `editor_delete` | the Delete key inserts `~` (`main.c` 260-261) |
| `piped_error` | after a read error the end of the input is reported as an error for ever (`main.c` 952) |

Four more are seen in the passing runs as the condition of a property. A lone ESC takes the
next two bytes with it, an Enter too (`main.c` 268-283): `EnterIsAnswered` is about an Enter with
no ESC among the two bytes before it, and `KeysHaveTheirMeaning` says nothing of the rest of a line
in which Escape was pressed alone. Ctrl-C in a line
leaves the terminal in raw mode, which clears ICANON and ECHO but not ISIG (`main.c` 231,
248): `TerminalRestored` is about a program that was not killed. A piped line of more
than 4095 bytes runs as several statements (`main.c` 451, 945): `ShortLinesAreStatements` is
about lines that fit. A statement of a form feed or a vertical tab alone is not empty to
`trim_range` (`main.c` 64, 595), has no tokens and fails the file: `SplitAgreesWithTokens`
leaves statements without tokens aside.

One more is a choice the references make: two columns of one name are a schema to `load_schema`
(`schema_manager.c` 329), and the second is then out of reach of any SELECT. `WellFormed` allows
it and `ColumnIndex` takes the first, so that `PlanIsTheMeaning` says what such a table does.

## 4. Fairness

* `Storage`: weak fairness of the steps of a call that has begun, per process. A process is
  scheduled; nothing makes a user begin a call, and no failure is assumed to happen. That is
  enough for an INSERT to return. It is not enough for a SELECT: the loop of fgets (`storage.c`
  604) ends at the end of the file, which processes that go on appending can move away from it
  for ever. So `CallsReturn` promises a SELECT, for each length of the file, that the reading
  ends or the file becomes longer.
* `Executor`: weak fairness of its one process, which waits for nobody.
* `SqlFile`, `Statement`, `MiniSql`: none, and no liveness property. They are sequential
  programs without a loop that waits; that a statement's steps come to an end is `RunEnds`, and
  `CallsReturn` for what it waits for in storage.
* `LineEditor`, `PipedRepl`: weak fairness of the program. `read` returns when there is a
  byte or the terminal has gone. Keys, errors, hang-ups and signals are not fair: nobody has
  to press a key, so `EnterIsAnswered` starts from an Enter that waits in the input of a line being
  edited, with no ESC among the two bytes before it.

No run uses strong fairness.

## 5. What is proved

Every theorem holds for every value of the constants that meets the assumptions below. The
strengthening named in the last column is inductive; TLC evaluated it on the run of the
property before it was proved.

| module | theorem | property | inductive invariant |
|---|---|---|---|
| StorageProofs | `TypeCorrect` | `TypeOK` | itself: a row in progress is storable, a stream holds at most one newline, at its end |
| | `LinesStayWhole`, `AnswersStay`, `StorageIsATable` | `WholeLines`, `AnswersStayTrue`, `LineTableSpec` | `IInv == TypeOK /\ WholeLines /\ AnswersStayTrue` |
| | `StorageIsATableOfRows` | `RowTableSpec` | `RowInv`: `IInv`, and a process that inserts nothing holds no row |
| | `InsertsAddOneRow` | `InsertAddsOneRow` | `IInv /\ RowsAreCounted` |
| | `NoByteIsLost` | `NothingIsOverwritten` | `TypeOK /\ BytesAreKept` |
| | `FailuresSpoilFewRows` | `FailureSpoilsOneRow` | `TypeOK /\ BytesAreKept /\ Paid` |
| ExecutorProofs | `HeapIsOwned` | `MemoryOwned` | `Inv == MemoryOwned /\ Phases` |
| | `ExecutorIsASession`, `ListsStayInBounds` | `SessionSpec`, `InBounds` | `IInv == Inv /\ Typed /\ Rows` |
| | `ExecutorTypes` | `TypeOK` | `Lists` with `IInv` |
| LineEditorProofs | `BufferStaysAString`, `BufferIsEdited` | `BufferIsString`, `EditedSpec` | `Inv`: the array has its type, the cursor is within the length, `BufferIsString` |
| | `TerminalIsRestored` | `TerminalRestored` | `ModeInv` |
| | `LineEditorTypes` | `TypeOK` | `Inv /\ Typed` |
| | `KeysMeanWhatTheySay` | `KeysHaveTheirMeaning` | `Inv /\ Typed /\ Heard /\ Answered` |
| | `PipedReplTypes`, `ShortLinesAreExecuted` (of `PipedRepl`) | `TypeOK`, `ShortLinesAreStatements` | `PipeInv == PipeTyped /\ Followed` |
| SqlFileProofs | `SplitterFindsThePieces`, `ZeroMeansAllHasRun`, `NothingOfAnOpenStringRuns`, `EverythingIsFreed`, `SqlFileTypes`, `SplitterAgreesWithTokenizer` | `StatementsAreThePieces`, `StatusTellsTheTruth`, `OpenStringRunsNothing`, `NothingLeaks`, `TypeOK`, `SplitAgreesWithTokens` | `IInv == Typed /\ Untouched /\ Scanned /\ Split /\ Blocks` |
| StatementProofs | `ArraysAlwaysHold` | `ArraysHold` | `Typed /\ ConditionHasColumn /\ ParserHolds /\ SchemaHolds` |
| | `SentencesAlwaysAccepted` | `SentencesAreAccepted` | `Typed /\ Scanned /\ Parsed` with the property |
| | `SchemaIsAlwaysTheText` | `SchemaIsTheText` | `LoadInv`: `ReadSoFar` while it reads, with the property |
| | `PlanIsAlwaysTheMeaning` | `PlanIsTheMeaning` | `MeaningInv`: the three above, and `PlanInv` |
| | `StatementTypes` | `TypeOK` | `TypesInv`: the first three, with the types in three parts |
| MiniSqlProofs | `SelectsReadOldRows`, `SelectsShowWhatWasInserted`, `MiniSqlTypes` | `OnlyEditsSpoilSelects`, `RowsAreShownAsInserted`, `TypeOK` | `Typed /\ SchemasWiden /\ LinesWereStored /\ StatementsAreFresh` with the properties |

`CodecProofs` and `FoldFacts` hold lemmas these rest on: what the CSV format does to one row,
and what a loop over a sequence computes.

### Assumptions

Each module states what it assumes of its constants (`CodecConstants`, `StorageConstants`,
`ExecutorConstants`, `SqlFileConstants`, `MiniSqlConstants`, ...), and TLC evaluates these on every
run. `NumbersFit` says that the text of every int fits a field, which 256 bytes give. Some
theorems state more:

* `Undisturbed` (the refinements of `Table`): no storable line is longer than the stream's
  buffer, writes do not fail half way, and the file did not start with an unfinished line.
  Each conjunct is needed: the runs `storage_long` and `storage_unterminated` are what happens
  without it. The buffer of a stream is usually 4096 bytes, so tables whose rows are that short
  meet it, though `MAX_LINE_LENGTH` is 8226.
* `Legible` (rows instead of lines): the rows are rows of values of the columns' types, and none
  is written as an empty line, which `read_all_rows` would skip; a table of one string column
  does not meet it (`storage_blank`). `LegibleStart`: the lines of the file at the start can
  be read.
* `RowsAreTyped` (`NoByteIsLost`, `FailuresSpoilFewRows`): the first half of `Legible`. Nothing
  is assumed of the buffer's size or of the faults.
* `InitTail = <<>>` (`FailuresSpoilFewRows`): the file did not start with half a line, which would
  spoil a row that nobody failed to write.
* `KeysAreReadWhole` (`KeysMeanWhatTheySay`): a key is one byte, or an escape and two more, which
  is what `handle_repl_escape_sequence` reads. Longer keys leave a byte over that is taken for
  a key of its own, as `editor_delete` shows. A lone ESC is allowed, and `asked` is "lost" from
  there to the end of the line, as what it does depends on the two bytes that follow. The keys of
  `editor_session` meet the assumption.
* `GrammarConstants` (`SentencesAlwaysAccepted`): no word is two keywords, as the six spellings
  are all different. Without it one text could be an INSERT and a SELECT. `PlanIsAlwaysTheMeaning`
  rests on it too.
* `LoaderConstants` (`SchemaIsAlwaysTheText`): the words `int` and `string` differ and are not empty.
* `TokenizerConstants` (`PlanIsAlwaysTheMeaning`, `SplitterAgreesWithTokenizer`): in the C locale
  the letters, the digits, the quote, the blanks, the signs, the symbols and the underscore are
  different bytes, so that the first byte of a token says what it is; and a token's text has room
  for one byte beside its NUL (`MAX_VALUE_LENGTH`, 256 bytes, in the code).
* `PipeConstants` (`PipedReplTypes`, `ShortLinesAreExecuted`): what `PipedRepl` assumes of its
  constants, said again because a theorem about an instance of a module does not inherit them: the
  buffer has room for one byte and its NUL, and an input is a sequence of bytes. Nothing is
  assumed of what is piped; that the lines fit the buffer is in the property.
* `MiniSqlConstants`: a row that may be inserted is not written as an empty line. That old rows
  are readable under later schemas is not assumed: it is proved (`ReadWider`).

### The arguments

**Storage, short lines.** `AnswersStayTrue` alone is not inductive, since a reader in the
middle of a file must have read a beginning of it, and this stays true only if the file grows
by whole lines. `WholeLines` says so: the file has no tail, a stream that is being printed
holds exactly one serialized row with its newline, what a reader got is a prefix of the file.
Then the one step that changes the file, `CloseWrites`, is the abstract `Add`
(`CloseAddsLine`), the pieces never happen (`NoPieces`), and `TableStep` maps each step to a
step of `Table` or a stutter. For rows, `RowIsAdded` says that the line of a row adds this row,
and no other, to the rows read; for the count, `Owed` adds to the acknowledged rows those whose
process is about to answer.

**Storage, long lines.** Pieces mix, so no line is known. What is kept is a count: while nothing
has failed the bytes of the file are those of the start, those of the acknowledged lines, and what
each process has sent of the line it is printing; and the lines are those of the start, one
for each acknowledged row and one for each process that has written. The sums over processes are
cardinalities of sets (`Units`), which change by what one step moves.

**Storage, failures.** Each row that is lost must be paid by a failure or an overlap, whichever
step loses it. `debts` counts, for each row, the acknowledged copies and those about to be that
no line of the file is; `Reserve` is what the appends that are printing may still cost: nothing
while one alone has all of its line in the file so far (`Clean`), otherwise one row each, and one
while the file ends with half a line. `Paid` says that debts and reserve together are at most
`broken + 2 * overlaps`. An append that begins beside another raises the reserve by at most two
(`PaidOpen`), one that ends its line turns its reserve into a debt (`PaidLine`), one that fails
may leave half a line behind (`PaidFailure`).

**The CSV format** (`CodecProofs`). Commas part the fields, as no stored text has one; a text
field is read back as it is; the decimal text of an int and `NumeralValue` are inverse (`IntValue`,
by induction over the digits); so a stored row is read back (`RowIsRead`), and under a wider
schema as the texts it was written from.

**The executor.** `MemoryOwned` needs `Phases`, which list may be non-empty at which place;
without it `Fails` could drop a list it has not freed. `InBounds` compares a count with a block
where the list may be read, and follows from `Rows`: the array is as long as the rows the list
stands for. At "failed" the result is left aside, as the count that `ProjectFails` leaves has no
block behind it; that `ReportFailure` drops it unread is what makes this harmless. For the
refinement, `Rows` says what each list holds at each place: the first `full.count` rows of the
table, those WHERE keeps, and those with the columns chosen. The loops of the model are folds;
that they compute `Matching` and the widths is proved for all tables (`Filter`, `Measure`).

**The editor.** The text left of the cursor and the text right of it, as functions of the array,
change under the two memmoves as the abstract line does (`CharacterInserted`,
`CharacterDeleted`, `CursorMovesLeft`, `CursorMovesRight`); the rest is that no other step
touches the array. What the keys mean is a statement about bytes that have not been read:
`Heard` folds them, through `ByteRead`, onto the line in the buffer and the place of the reader
in a key, and says that the line the user has in mind comes out. A key pressed adds its bytes
at the end of that fold, a byte read takes one from its front (`ReadsKey`, `ReadsFirst`).

**The splitter.** While it is at a byte, it is inside a string if and only if an odd number of
quotes is before it, the current statement starts after the last semicolon that was outside,
and the statements collected are the pieces up to there (`Scanned`). `Split` carries that to the
end, and `Blocks` counts the heap's blocks from it: one for the text, one for the list if it is
not empty, one for each statement.

**Splitter and tokenizer.** They go over one text in different steps and never meet, so no
invariant relates them; `Split` already says what the statements are, and the rest is about
texts (`StatementsHaveTheTokens`). What the tokenizer finds from a place on is a function of the
place. A piece between two semicolons outside of strings is scanned alone as it is in its place
(`PieceIsScannedAlone`): no name, number or string runs over its end (`RunsAgree`, `StringsAgree`,
`NumbersAgree`), which for a string is the parity of the quotes before it, by induction from the
end of the piece to its beginning. Blanks around it yield nothing (`BlanksAreSkipped`), and the
semicolon after it is a token (`SemicolonIsScanned`). The tokens of the text are then those of
its pieces with semicolons between them, by induction over the pieces (`SplitSoFar`).

**The piped REPL.** `LinesOf` and `StatementsOf` are folds over the input and over its lines, so
that each has a value at every place of the input (`CutAt`, `TalkAt`). `Followed` says that between
two calls of fgets the place is just after a newline and what has been executed is what the lines
before it say, or that all has been read, the unfinished last line too. A call of fgets takes a
line or the rest (`ChunkIsALine`): were it cut short by the buffer, the line it is in would be
too long, as a line only grows (`LongStaysLong`). What has been said is never unsaid
(`TalkGrows`), so the statements executed are a prefix of those meant.

**The arrays.** A token is as long as the distance the tokenizer compared with the token's size,
which needs that it never passes the end of the text (`TokenIsInText`). Each array of a command
is filled at one place, behind a check of its count; the one array with no check of its own is the
condition's, name and literal, and `ConditionHasColumn` says that a literal is expected only
when the name alone is there.

**The sentences.** While the text is scanned, the tokens in the list followed by those the rest of
the text yields are the tokens of the text (`Scanned`); the scanner skips blanks and moves by
whole tokens, so what is left is again what `Tokenize` finds from there (`ScanNext`). While the
tokens are parsed, those consumed are the beginning of an INSERT or a SELECT up to the place the
parser is at, and the draft is what they say (`Parsed`, by `UnderWay`); `Leads` says that one row
of the table of moves keeps it so. At an accepting place with no token left, the beginning is
a whole sentence, the only one (`InsertIsWhole`, `SelectIsWhole`). For the converse, a list of tokens
that is a sentence fixes, at each place, what the next token is, and that a list is not full
before its last element (`InsertGoesOn`, `ListGoesOn`, `TailGoesOn`); so when the parser finds
nothing it can take, the tokens are no sentence.

**The schema.** Between two lines the bytes read are whole pieces of the file, each of them sound
(short enough, and blank or a column), and the columns so far are those of these pieces
(`ReadSoFar`). `fgets` returns the next piece with its newline, or the last one without
(`LineIsPiece`); the two trimmed halves around the only colon are its name and type if it describes
a column at all (`ColumnOfLine`, `NoColumnOfLine`). A file is refused at a piece that has no column,
fills the buffer, or comes after the last column the array takes; what follows only adds pieces
(`PiecesGoOn`), so the whole file is no schema either (`NotWellFormed`).

**The plan.** `PlanInv` adds to the other invariants that the schema loaded is that of the command's
table and that each value cast so far is `ValueOf` its literal. `CastIsMeaning` is the heart: a literal
of a sentence is quoted at both ends or does not begin with a quote (`LiteralsAreRaw`), and of such
literals `cast_value` accepts exactly those whose meaning is a value of the column's type. So the
casts of an INSERT and the condition of a SELECT are what `SqlOf` says of the command, and each
refusal is of a command that `Valid` refuses.

**Old rows.** The schema files widen each other in the order of `schemas`, each line was stored
under one of them, and what a statement has loaded is no older than the schema at its beginning.
When nothing was edited since, that is the last schema, which is as wide as any, and every line
is read under it as the texts it was written from. WHERE and the choice of columns then do to the
rows what they do to their texts. `OnlyEditsSpoilSelects` by itself says nothing of the lines and
is far from inductive.

**Loops over data.** The library's induction theorems take an operator as parameter, which the
provers cannot instantiate. `FoldFacts` avoids it: it has the operator of a fold as a CONSTANT
of the module, so that an INSTANCE supplies it, and proves induction for sets, as the absence
of a least counterexample. A loop that is proved about is therefore a `FoldLeft` or a recursive
function in the model, never a RECURSIVE operator, `SelectSeq` or `SetToSortSeq`, of which the prover
knows nothing.

### Only model-checked

Every invariant, step property and refinement that a run checks is stated by a theorem, for
all values of the constants or under the conditions above. What stays with TLC:

* The liveness properties `CallsReturn`, `RunEnds`, `EnterIsAnswered`, `HangUpEndsTheSession` and
  `EofEndsAnErrorFreeSession`: they need fairness and ENABLED, which the prover does not have.
* The violations of section 3, which are single behaviours.

## 6. What is not modelled

* `parse_insert` and `parse_select`, entry points that only tests call: `parse_sql` without the
  choice of the statement's kind.
* Redrawing of the line, borders and padding of the printed table, the wording of errors, the
  error buffers.
* Edits of a schema file that drop, add or narrow columns, which make old rows unreadable by
  design, and an edit in place that a loader sees half of.
* Schema and data files with NUL bytes, which C strings end at.
* Tables whose lines are longer than the stream's buffer, in `MiniSql`: `Storage` has them.
* Checks for NULL arguments that no caller passes.
* SQL files that grow between ftell and fread, or have NUL bytes (`main.c` 505): the text of
  `SqlFile` is what was read up to the first NUL. It is a hazard in `PROJECT.json` that no property
  covers: the code promises nothing about such a file that could be checked.
* Of the blocks of file mode, those that `read_text_file` and the statement list give back in the
  function that took them (`main.c` 531, 579): `live` counts what a function leaves behind.
* Locales other than C, in which `isprint` and `isspace` accept more.

## 7. Plan

Done: the modules above, in the order storage, executor, terminal REPL, piped REPL, file mode;
then parser, schema loader, the statement they make up, and several processes with an edited
schema. Proved since: the executor's refinement, the splitter and the heap of file mode, what the
keys mean, the CSV format's round trip, the counts of rows and bytes of storage, that the
parser accepts the grammar, and that schema and plan are what their texts mean.

That splitter and tokenizer agree, and that a piped line is a statement, were the last two
invariants without a theorem. What is left needs other tools: the liveness properties for every
size, and the loops that `FoldFacts` reaches only when they are folds.
