# choam in TLA+

A formal model of choam, a small relational database written in Rust
(`src/crates/`). The modules state what its parts do, TLC checks them on small
instances, and TLAPS proves the central results for every instance.

## 1. The system

choam is a stack of crates in one process. There is no server and there are no
messages: concurrency is operating-system threads that share one `Engine`, and
the only shared state is the key-value store at the bottom.

| Part | Code | State it keeps | Operations |
|---|---|---|---|
| store (`sietch`) | external, a git dependency | all keys and values, durable, multi-version | `begin`, `get`, `put`, `delete`, `scan`, `commit`, `abort` |
| row keys | `row/src/key.rs` | none | the byte layout of catalog and row keys |
| values, rows, schemas | `row/src/value.rs`, `row.rs` | none | encode and decode values and rows, `Schema::new` |
| catalog | `catalog/src/catalog.rs` | three kinds of key: next table id, list of names, one entry per table | `create_table`, `get_table`, `list_tables` |
| catalog codec | `catalog/src/codec.rs` | none | bytes of entries and of the list of names |
| transactions | `txn/src/lib.rs` | per transaction: one store transaction | `begin`, `read`, `scan`, `write`, `delete`, `commit`, `abort` |
| sessions | `engine/src/lib.rs` 123-219 | per session: the open transaction, a failed flag | `execute_statement` |
| statements | `engine/src/lib.rs` 80-121, 221-476 | none | `CREATE TABLE`, `INSERT`, `SELECT`, `UPDATE`, `DELETE`, `access_path` |
| expressions | `engine/src/eval.rs` | none | `eval`, `check_type`, `check_filter`, `keeps_row` |
| SQL text | `sql/src/lexer.rs`, `parser.rs`, `ast.rs` | none | `lex`, `parse`, `parse_script`, rendering an AST as SQL |
| shell | `cli/src/lib.rs`, `main.rs` | pending input, a session, whether anything failed | arguments, one line at a time, `.tables`, `.schema`, tables of results, exit status |

How they interact. A `Session` parses a statement and runs it in a
`RelTransaction`, its own or the one BEGIN opened. Every call on a
`RelTransaction` that names a table first asks the catalog for the table's
handle, *outside* the transaction, then reads or buffers row keys made of the
handle's table id and the primary key. `CREATE TABLE` is a separate transaction
of the catalog. `commit` hands the buffer to the store, which applies all of it
or refuses all of it, naming a key somebody else committed first; the catalog is
asked once more which row that key was.

### What is hard, and what makes each part correct

* **catalog.** Threads race in `create_table`, any of which can fail or die
  around its commit, while `list_tables` reads key by key without a
  transaction. Correct: counter, index and entries always agree
  (`CatalogConsistent`); an acknowledged table never goes away or changes
  (`AckedTablesSurvive`, `TablesNeverChange`); a listing misses nothing
  (`ListingComplete`); every call takes effect at once, as its result says
  (`ImplementsRegistry`); retrying ends (`EveryRetrySucceeds`).
* **transactions.** The handle comes from the newest catalog and the rows from a
  snapshot; the table of a refused key is looked up after the refusal. Correct:
  clients see snapshot isolation of named rows and nothing else
  (`ImplementsSnapshots`); a new table is empty for everybody
  (`NoOrphanRows`); a conflict is blamed on a row the client changed
  (`ConflictsAreAttributed`).
* **sessions.** A store transaction has no savepoint, so a statement that fails
  half way leaves its first half in the buffer. Correct: nothing of it is ever
  committed, and what is committed is what sessions were told
  (`CommittedRowsAreDue`); no session is stuck (`NeverWedged`). Statements read
  with a filter and write by key, and the store compares writes only: a
  transaction that writes all it reads must still behave as if it ran alone
  (`CommitsSerialize`); write skew is what is left.
* **expressions and statements.** Types are checked without looking at rows, so
  the checker has to be sound for every operator and every value, NULL and the
  ends of the integers included (`TypesAreSound`, `ErrorsIgnoreRows`). A WHERE
  clause has three outcomes (`WhereSplitsInThree`). The point lookup must find
  what a scan finds (`LookupSkipsWork`). Statements over many rows read the
  table they are changing (`RowsChangeOnce`, `AssignmentsCommute`).
* **SQL text.** Parsing undoes rendering, and `.schema` prints what creates the
  same table (`RenderedTextsParseBack`), operators
  bind as documented (`PrecedenceIsAsDocumented`), errors are reported where
  they are (`RejectionIsFinal`), tokens end where they should
  (`SeparatorsSeparate`, `QuotedTextsReadBack`).
* **shell.** Its idea of where a statement ends must agree with the lexer's
  (`ShellAgreesWithLexer`, `CommandsAreBetweenStatements`), and its exit status
  with what happened, also when reading or writing fails half way
  (`ExitStatusIsRight`).
* **codecs.** What is written is read back (`RowsReadBack`, `CatalogReadsBack`),
  what lost its end is refused (`TruncationIsRefused`), and keys read back, sort
  and stay apart as promised (`KeysKeepOrder`, `PrefixesSeparateTables`).

`PROJECT.json` lists the hazards one by one at their lines.

## 2. The modules

```
Keys   Sietch                 the key space; the store (external)
  |  \   / |
  |  RelTxn |                 read, scan, write, delete of one table's rows
  |    |    |
  |    |  Catalog ---------- TableRegistry   (abstract; refinement)
  |    |  /   |  \
  |  Database |   CreateTableRetry           (retrying create_table)
  |   |   \   |        |
  |   |   \   |   BankTransfers              (retrying transfers beside it)
  |   |    \  |        |
  |   |   DatabaseProofs                     (theorems on Catalog, Database, BankTransfers)
  |   |
  |   |-- SnapshotRows                       (abstract; refinement)
  |   |
  |  Session - - MCSession - - RowStatements (sessions run those statements)
  |   |
  |  SessionProofs                           (theorems)
  |
CommitLog                                    (the log of a test)

TypedValues
 |
 |-- Ast --- SqlValues --- Eval ------ RowStatements --- Executor
 |     \                   |                            |   expressions and statements
 |      \              Expressions                      |   expressions of any depth
 |       \                 |                            |
 |        \                |------ EvalProofs ---- ExecutorProofs   (theorems)
 |         \               |           |
 |          Parser -- Ddl  |           |   tokens to statements and back;
 |                     \   |           |   CREATE TABLE to schemas and back
 |                    Sentences        |   the expressions in every statement
 |                          \          |
 |                          ParserProofs     (theorems)
 |
 |-- RowCodec --- Bytes --- CatalogCodec     values, rows, keys, entries as bytes
        |                     |
        +------- Codecs ------+              what the encodings promise
                   |
              CodecProofs                    (theorems)

Lexer --- Shell                              characters to tokens; lines to statements;
            |                                arguments to exit status
        ShellProofs                          (theorems)
```

`Induction` has the lemmas by which the proofs reason about numbers, finite sets
and loops; the other modules with theorems use it.

The groups meet at their interfaces. `Session` takes what a statement does to
rows as its parameter `Effect`, and `MCSession` gives it the statements of
`RowStatements`, so that racing sessions run real filters, access paths and
half-failed statements. What `Session` relies on is stated as
`EffectAssumption`: a statement that succeeds changes each row at most once,
starting from what is there, to a row that fits the schema (`RowFits`), and would
have done the same on any rows that agree with these where it read. TLC evaluates
it on all tables of the `session` run, and `StatementsAreEffects` of
`ExecutorProofs` proves it of every statement of `RowStatements` on every table of
every schema (up to the type of the rows a SELECT returns). `Catalog` and `Database` take keys and stored
values to be tuples; `Codecs` shows that their bytes identify them. `Shell` passes to `Parser` the texts that `Lexer` turns into tokens.

`MC*.tla` modules add only what TLC needs: model values, symmetry, a view.
Operators whose comment calls them mutants are seeded bugs (a dropped guard, a
missing write, a swapped order): put in place of the operator they name, they
make TLC find the property listed beside them in `PROJECT.json` violated. They
are not part of any specification.

**Keys** is `row/src/key.rs`: a key is a tuple, and the namespaces, tables and
rows are distinct tuples. That the byte layout is injective is
`PrefixesSeparateTables`, in `Codecs`.

**Sietch** is the contract the crates above rely on, as pure operators on store
and transaction records: a transaction reads its snapshot overlaid with its own
writes; `Conflicts` are the keys of its write set committed by others since the
snapshot; `Apply` is the atomic batch. Its code is not in this repository.

**Catalog** models threads in `create_table` (`Creators`) and in `list_tables`
(`Listers`). Between `begin` and `commit` a transaction touches only its own
buffer, so `create_table` is two steps others can see: `CreateBegin`, with all
early returns, reads and buffered writes, and one of `CommitOk`,
`CommitConflict`, `CommitStoreError`. `list_tables` has no transaction and is
one step for the index and one per name. `CrashAndReopen` forgets every thread;
a commit in flight may or may not have become durable.

**TableRegistry** is the abstract promise: an append-only list of handles whose
position is the id. `Catalog!ImplementsRegistry` maps the index, looked up name
by name, to that list.

**CreateTableRetry** is the retry loop the documentation of
`ConcurrentCreateTable` asks for.

**RelTxn** and **Database** are `txn/src/lib.rs`. A client's reads are
functions of its transaction (`RelRead`, `RelScan`); its changes, commit, abort
and the two halves of a refused commit (`RefuseTxn`, then `ConflictError`, which
reads the catalog of a later moment) are actions. The creators of `Catalog` run
beside the clients.

**SnapshotRows** is the abstract promise of `Database`: snapshot isolation of
rows of named tables, first committer wins per row, no ids, keys or catalog.

**Session** is `Session::execute_statement`. A statement sees the rows of its
table as its transaction does, and answers with success or failure, the rows it
returns, what it read, and the changes it made, half way if it failed; these go
into the transaction one by one. Autocommit is `ExecAuto` followed by
`ExecCommit`; other sessions run in between. The history variable `due` redoes,
commit by commit, what successful statements reported, and marks a change that
does not start from the row that is there.

**BankTransfers** is the workload of `engine/tests/bank.rs`: transfers that
start over when their commit is refused. The loops of `CreateTableRetry` run
beside them on the same store. **CommitLog** is the log of
`txn/tests/concurrency.rs`.

**TypedValues**, **Ast**, **SqlValues** and **Eval** are the values of
`row/src/value.rs` and the expressions of `sql/src/ast.rs` and
`engine/src/eval.rs`. `Ast` has the trees: `Trees(leaves)[n]` are those with at
most `n` operators between root and leaf. `SqlValues` has what concerns one
operator: its value (`Binary`, `Unary`) and its static type (`CheckBinary`,
`CheckUnary`). `Eval` has the recursion over expressions and the WHERE clause. The
recursion is written as functions on `Exprs`, the trees of height `MaxHeight`, for
two reasons: a TLA+ function needs a domain, and a function can be reasoned about.
Integers are bounded by `MaxInt`; a result out of range is an error, as
`checked_add` and its kin make it. Texts and byte strings occur only in
comparisons and are numbered in their order.

**Expressions** lets an expression grow, one operator at a time, and states what
`check_type`, `eval` and `keeps_row` promise of it.

**RowStatements** is `INSERT`, `SELECT`, `UPDATE`, `DELETE` and `access_path` on
the rows of one table, in the order of the code's checks, with every error, and
with the changes made before it. **Executor** runs them one after the other,
each in a transaction of its own.

**Parser** is `sql/src/parser.rs` on tokens and the `Display` of `ast.rs`. The
functions of the parser call each other, always at a later position. So they are
operators of a position and of a function, `later`, that says what is found at the
later ones, and `Parsing` ties the knot: it is the function from positions and
`Goals` (an expression, an operand of `-` or `NOT`, the rest of the loop of one
level) to what is `Found` there. The loop of a level gives its turns, each an
operator with its right operand, and `Grouped` puts them to the left operand one
after the other, as the assignments to `left` do. A failed parse keeps the
position it is reported at; nothing is built in that case.

**Ddl** is `create_table` of the engine, from a parsed statement to a schema,
and `describe` of the shell, from a schema to text.

**Sentences** puts the expressions of `Expressions` into every place of every
statement, with tokens for their literals, and states what parsing and rendering
promise of them.

**Lexer** is `sql/src/lexer.rs` on classes of characters. **Shell** is
`cli/src/lib.rs` and `main.rs`: `Start` reads the arguments and opens the
database; lines go into `buf`, which is cut at semicolons; each statement
succeeds or fails, as long as it lexes; a dot command is one of its kinds (quits,
never fails, asks the catalog, unknown). Writing may fail after any statement or
command, and reading before any line, unless the input is an argument. The
words of commands are parameters.

**Bytes**, **RowCodec** and **CatalogCodec** are the encodings of the `row` and
`catalog` crates. The number of values of a byte and the width of each field are
constants, so that both sides of every width can be reached. Their loops are
functions on the number of turns. **Codecs** puts them together: a
table is given one column after another, and its entry, the index, its rows and
its keys are written and read. Names, ids and values are parameters. Ids
and the lengths of texts fit their fields (`CodecsAssumption`; 32 bits in the
code, so a text has less than 4 GiB). Nothing is assumed of names, which
`create_table` does not limit either; `CatalogReadsBack` and `TruncationIsRefused`
state as their hypothesis, `CatalogFits`, that names and columns fit 16 bits,
and `codecs_long` shows what happens when they do not.

## 3. The runs

| Run | Question | Instance |
|---|---|---|
| `catalog` | Do racing, failing, crashing `create_table`s keep the catalog whole, and does a listing miss nothing? | 2 creators, 1 lister, 3 names, an invalid schema |
| `retries` | Is a transfer lost, doubled, halved or starved, and does retrying `create_table` end beside it? | 3 threads, 3 accounts, 5 transfers, 2 creators |
| `database` | Is it snapshot isolation, beside `CREATE TABLE`? | 2 clients, 2 tables, 1 row key, 1 creator |
| `session` | Is exactly what successful statements reported committed, and as if one transaction ran after the other where the store can tell? | 2 sessions, 1 table, 2 row keys, 7 statements |
| `commit_log` | violation: is the test's log in commit order? | 2 threads, one row |
| `expressions` | Does parsing undo rendering, and `CREATE TABLE` `.schema`, with the documented precedence and errors where they are? Is `check_type` sound, and three-valued logic complete? | 9 leaves, 2 levels of operators, in every statement; 12 rows, integers -4..3 |
| `parser_limit` | violation: is an error also in place after `LIMIT`? | as `expressions` |
| `executor` | Do statements keep the schema, ignore the access path and the rows they do not touch? | 3 columns, 3 keys, 23 filters, 10 assignments |
| `executor_lookup` | violation: does the point lookup change nothing? | as `executor` |
| `shell` | Does the shell cut its input where the lexer would, and the lexer where it should? Does the exit status tell? | up to 4 arguments, lines of 2 characters and one of two statements, 6 characters of SQL and a line |
| `codecs` | Do rows, keys, entries and the index read back, is what lost its end refused, and do keys keep order and stay apart? | 3 columns, 2 bits to a byte, all integers of 2 bytes, names that fit |
| `codecs_long` | violation: does the index also read back with names of any length? | names of 3 and 4 bytes, a length field for 3 |

### Bounds

* `IdSpace` stands for 2^32. `IdSpaceAssumption` says it exceeds the number of
  names; `WrappingSucc` still wraps, as a release build does. No run and no
  proof says anything of a database with 2^32 tables.
* `catalog` needs no bound: names run out. Three names let a creator lose a
  race, lose again, and still succeed; two creators are enough for a race since
  the conflict test compares one transaction with all commits since its start.
* `MaxCommits` (3) stops new transactions once the store
  has seen that many commits: a table, and then two commits of rows, so that a
  transaction can be overtaken by one that was itself overtaken.
* `MaxStatements` (2) is the number of statements a session transaction has
  that succeed; those that fail end it. The statements of `session` are an
  INSERT of one row and of two, which can fail on either; UPDATEs that overflow
  on one row of several, that write NULL where it may not be, and that write what
  was there; a DELETE; a SELECT of a row by its key.
* One row key in `database` (two tables share it, so keys that forget the table
  collide) and two in `session` (a statement can fail between them).
* Clients, sessions and tables are symmetric where a run declares it; primary
  keys are not, since scans are ordered. `SessionView` leaves out variables that
  no guard reads and of which the run's invariants read the type alone.
* `retries`: the transfers of three threads overlap in a ring of three accounts,
  so that each can be refused by either of the others, and by a second transfer
  of one it has lost to before; the two creators can each lose to the other.
* `MaxInt` (3 in `expressions`, 1 in `executor`) makes every arithmetic operator
  overflow, and `MinInt / -1` and `-MinInt` among them. The theorems of
  `EvalProofs` and `ExecutorProofs` hold for every `MaxInt`, 2^63 - 1 among them.
* `MaxHeight` (2 in `session`, 3 elsewhere) is as high as the expressions of the
  run get, WHERE clauses under `NOT` or `IS NULL` included. The theorems hold for
  every `MaxHeight`.
* `Depth` 2 puts every operator under every other, on either side, which is
  what typing rules, precedence levels and parentheses can tell apart.
* `executor` starts from an empty table and reaches every table its statements
  can build, with up to three keys; two rows are what a duplicate, an order or
  a failure after a success needs. Its filters have every shape `access_path`
  distinguishes.
* `Foreign`: a token of each class is put at every place of every statement around
  a leaf, and all prefixes of the result are parsed.
* `shell`: lines of two characters put a line break before, after and inside
  every pair of quotes and at every semicolon; the lines with digits, blanks and
  comparisons put two adjacent tokens of any two kinds side by side; `MaxDigits`
  1 makes an integer overflow at two digits. `MaxFault` (2): input and output
  fail no later than after two characters of SQL, enough to be
  inside a statement, a literal or between two, with a line of two statements to come. Four arguments are two
  options with values, in any order, or one too many. `MCView` forgets what is
  read from when reading can fail no more.
* Codecs: a byte of 2 bits makes the null bitmap two bytes long at the third
  column; 2-byte integers and table ids carry from byte to byte; 1-byte name
  lengths make both sides of the limit reachable. The theorems of `CodecProofs`
  hold for every width, also for those of the code (8 bits, 8-byte integers, 4-byte
  ids and lengths, 2-byte name lengths).

### Fairness

Only `BankTransfers` assumes any: weak fairness of each thread's loop, of the
transfers and of `create_table`, because each is an operating-system thread that
is never blocked. No fairness of commits against conflicts is needed: first
committer wins, so a refusal means that another thread's commit went through.
The runs without liveness assume none, and every operation there may stop for
good.

`BankTransfers` and `CommitLog` end when all threads are done, hence
`CHECK_DEADLOCK FALSE` in `retries` and `commit_log`. The runs that build an
input piece by piece (`expressions`, `codecs`) end when it has its full size,
and `shell` when `run` returns.

## 4. What the runs found

* `commit_log`: in `txn/tests/concurrency.rs` the log entry is pushed after
  `commit` returns, so two committers of a row can log in the other order and
  the test's assertion would fail, although its comment says the two orders
  cannot race apart.
* `executor_lookup`: ADR-004 says the point lookup can "only skip work, never
  change results". `WHERE id = 0 AND 1 / n = 1` is refused by a scan when some
  other row has `n = 0`, and succeeds with the lookup. What does hold is
  `LookupSkipsWork`: the rows are the same wherever the scan succeeds, and the
  lookup never fails where the scan would not.
* `parser_limit`: `SELECT * FROM t LIMIT` reports an unexpected `LIMIT`, at its
  offset, instead of the end of the input: `pos` is decremented although
  `advance` had nothing to advance over. No other error is misplaced
  (`RejectionIsFinal`).
* `codecs_long`: `write_string` truncates a length to 16 bits, and nothing
  refuses a table name of 65536 bytes or more. It is the last of the index when
  it is first written, so `decode_table_index` succeeds: the name is cut short
  and the bytes left over are ignored (it fails only where the cut splits a
  character). What follows is read from the code, not checked: `list_tables`
  looks the cut name up, finds no table and leaves it out, and the next
  `create_table` writes the cut name back. The table's own entry is cut in the
  same place, and what comes after the name is misread.

Four remarks that are not runs. The module documentation of `engine` says a
statement that fails inside an explicit transaction poisons it; `BEGIN`,
`CREATE TABLE` and text that does not parse fail without doing so (`ExecRefused`).
Atomicity is not at stake: `CommittedRowsAreDue` holds, since these have no
effect. `docs/design/DATABASE.md` promises snapshot isolation for schema changes;
a transaction sees tables created after it began (empty, by `NoOrphanRows`).
`parse` reports a second statement at byte 0
wherever it begins. And ADR-003 calls the fully parenthesized round trip a sharp
test of precedence; it cannot be one, since every operator is in parentheses:
`RenderedTextsParseBack` holds of a parser with `NOT` at the wrong level, which
`PrecedenceIsAsDocumented`, with its minimal parentheses, refutes.

## 5. What is proved

`DatabaseProofs` proves of `Catalog`, for any finite number of names and any sets of
creators, listers and schemas, under `IdSpaceAssumption`, `CatalogAssumption`
and `MarkerAssumption` (fewer names than ids; "" is not a table name; the two
markers are not stored values):

| Theorem | States |
|---|---|
| `CatalogInvariant` | `Spec => []CatalogInv`, the inductive invariant |
| `CatalogTypeOK`, `CatalogIsConsistent`, `CatalogIsDurable` | its three parts that readers want |
| `CatalogIsAppendOnly` | `Spec => TablesNeverChange` |
| `ListingsAreComplete` | `Spec => []ListingComplete` |
| `CatalogRefinesRegistry` | `Spec => Registry!Spec`, the refinement |

The argument. `CatalogConsistent` alone is not inductive: a commit could write
a buffer that was computed from an older catalog. `PendingCreate` says what the
buffer of a creator about to commit holds, and that, *if nobody has committed to
the counter key since its snapshot*, it was computed from the current catalog.
Every `create_table` writes the counter, so any commit makes all other pending
creates conflict, and `CommitKeepsCatalog` only has to treat the commit of an
up-to-date buffer. `Room` (there is always an unused id, by counting names)
keeps `WrappingSucc` from wrapping. The listing and the refinement follow from
the invariant and from `ListGrows`: entries never change and the index only
grows at its end.

It proves of `Database`, for any sets of
clients, creators, rows and primary keys, under `DatabaseAssumption` (markers are
not rows) besides the three above:

| Theorem | States |
|---|---|
| `DatabaseInvariant` | `DbSpec => []DbInv`, the inductive invariant |
| `DatabaseTypeOK` | `DbSpec => []DbTypeOK` |
| `NewTablesAreEmpty` | `DbSpec => []NoOrphanRows` |
| `RefusalsAreAttributed` | `DbSpec => []ConflictsAreAttributed` |
| `DatabaseRefinesSnapshots` | `DbSpec => Snapshots!Spec`, the refinement |

The argument. `DbInv` contains `CatalogInv`, and each side has to survive the
steps of the other. A client writes row keys only, so its commit leaves the
catalog's keys, and when they were last written, as they are
(`SameCatalogKeys`), and with them every pending `create_table` (`RowsOnly`). A
`create_table` writes no row key (`CatalogKeepsRows`). What a client relies on
across either kind of step is `Later`: handles stay, ids grow, keys are only
written again; so `ClientInv`, which says that every key in its buffer belongs to
a table it used, is kept (`ClientKept`). `RowsInv` adds that no key of an id
still to come was ever written; it is what makes a new table empty. Since no id
is used twice, a refused key has exactly one table (`BlameFinds`).
For the refinement, `RowsNow`, `ViewNow`, `DirtyNow` and `StaleNow` translate
keys back to names. A new table changes none of them, because what lies under its
id is empty (`NewTablesAreHigh`, `HighKeys`); a commit changes them as `Publish`
says, for distinct places have distinct keys (`Mapped`); the refusal by the store
is a stutter, and `ConflictError` is the abstract `Refuse`.

It proves of `BankTransfers`, for any finite sets of threads and
accounts and any transfers, under `BankAssumption` (the accounts have a name of
their own among the tables; balances are integers; a transfer is between two
accounts):

| Theorem | States |
|---|---|
| `NoTransferIsLost` | `BankSpec => []NoTransferLost` |
| `MoneyIsConserved` | `BankSpec => []SnapshotsConserveMoney` |

The argument. `BankInv` says that every account holds its opening balance and what
the committed transfers of all threads moved, that these balances add up to
`Money`, and of every open transaction (`TransferInv`) that its snapshot adds up to
`Money` too, that its buffer is its transfer made on that snapshot, and that a row
nobody has committed since is still as in the snapshot. A commit is refused unless the two rows are still those of the
snapshot, so what is applied is the transfer on the current balances. That the
creators of tables beside it touch no row is taken over from the catalog's
lemmas. Sums over accounts and over threads are folds over finite sets; their
lemmas are by induction over finite sets.

`SessionProofs` proves, for any sets of sessions, schemas, rows and statements
under `SessionAssumption` and `EffectAssumption`:

| Theorem | States |
|---|---|
| `SessionsNeverWedge` | `SessionSpec => []NeverWedged`; it needs `SessionAssumption` alone |
| `SessionTypesHold` | `SessionSpec => []SessionTypeOK` |
| `CommittedRowsAreWhatWasReported` | `SessionSpec => []CommittedRowsAreDue` |
| `CommitsAreSerial` | `SessionSpec => []CommitsSerialize` |

The argument. `NeverWedged` becomes inductive with the fact that neither an
autocommitted statement nor a refused commit is ever in a failed session. The
other two need to know how the buffer of a transaction, the rows it sees and the
reports of its statements go together. `ReportsInv` says it: redoing the
reports on the snapshot gives the rows the transaction sees, and every key it
buffered is one that a report changed. A statement adds one report and buffers the
changes of that report. `DueInv` says that the committed rows are `due`. When a
transaction commits, the store has compared what it wrote: no key that it changed
was changed by others. So, on those keys, the committed rows are those of the
snapshot, and redoing the reports on them meets at every change the row that it
met the first time (`CommittedRowsAreDue`). If moreover every row read was also
changed, every statement finds on the committed rows all it read, and
`EffectAssumption` gives the same result (`CommitsSerialize`). Both are inductions
over the number of reports, and over the changes of each.

`EvalProofs` proves, for every `MaxInt`, every `MaxHeight`, every schema and
every set of its rows:

| Theorem | States |
|---|---|
| `BinaryIsSound`, `UnaryIsSound` | operands that fit types `CheckBinary` or `CheckUnary` accepts give a result that fits its answer, or an overflow or a division by zero |
| `TypesAreSoundForAll` | `TypeIsSound` of every expression |
| `WhereSplitsForAll` | `SplitsInThree` of every WHERE clause |
| `TypesAreAlwaysSound` | `ExprSpec => []TypesAreSound`, for any leaves and any `Depth` (`ExpressionsAssumption`) |
| `WhereAlwaysSplitsInThree` | `ExprSpec => []WhereSplitsInThree` |

The argument. An operator is sound by cases on its kind; `Checked` is the only
source of overflow, and the quotient of two integers is an integer. For whole
expressions, `Nested` gives an induction over their structure, and from it
follows that the functions by which `Eval` recurs exist and satisfy their
equations (`EvalEquation`, `TypeEquation`). Then each expression is sound because
its operands are. An expression that has grown n times is in `Nested[n]`
(`ExprInv`), so both theorems apply to it, and its negation is an expression, too.

`ExecutorProofs` proves of `Executor`, for every schema and every set of
statements (`ExecutorAssumption`), besides every `MaxInt` and `MaxHeight`:

| Theorem | States |
|---|---|
| `ExecutorInvariant` | `Spec => []ExecInv`, the inductive invariant |
| `RowsFitSchemaHolds` | `Spec => []RowsFitSchema` |
| `LookupSkipsWorkHolds` | `Spec => []LookupSkipsWork` |
| `RowsChangeOnceHolds` | `Spec => []RowsChangeOnce` |
| `ErrorsIgnoreRowsHolds` | `Spec => []ErrorsIgnoreRows` |
| `AssignmentsCommuteHolds` | `Spec => []AssignmentsCommute` |
| `SelectsAreOrderedHolds` | `Spec => []SelectsAreOrdered` |
| `StatementsAreEffects` | a statement that succeeds keeps `EffectAssumption` of `Session` (`IsEffect`) |

The argument. The invariant says that the table is a table of its schema: a finite
function from keys to rows that fit, each under its own key. The work is in a single
statement. INSERT, UPDATE and DELETE are loops, and `Turns` (of `Induction`) leads
from one turn to the next. `Good` says where the loop may be: each key was
changed at most once, from what the table held before the statement to what it
holds now. A turn is good for another key, and the keys are another each time
because INSERT has just looked for its own, and because UPDATE and DELETE go
through a list of distinct keys made before the first turn (`MatchedAre`). That the
rows fit uses `TypesAreSoundForAll`: an accepted assignment has a value of its
column's type or NULL, and `EncodeRow` sees to NULL.
For the point lookup, a filter that pins the primary key is TRUE only of the row
under that key (`PinnedRow`, by induction over the filter), so the candidates
contain every row that the scan keeps. For the verdicts, all that is checked before
a row is looked at does not mention the rows, and what a row can add is a
data error. The order of assignments does not matter because each reads the old
row and writes a column that is no other's. Sorting counts, for each row, those
ahead of it; in a strict order of N elements this gives each of 1 .. N once
(`RankingIs`), and the order of SELECT, by value and then by place, is one
(`StableIs`).
`StatementsAreEffects` compares two runs of a statement on two tables that hold
the same where the first run read. After a scan the tables are the same; a lookup
has the same candidates in both (`MatchedAlike`), and the turns that follow use
nothing else; INSERT asks only whether its keys are there, and the keys it asks for
are those it changes, because it succeeds (`InsertAlike`).

`ParserProofs` proves, for every set of names and literals (`TokenAssumption`:
different tokens are different, and are not keywords) and every `MaxHeight`:

| Theorem | States |
|---|---|
| `PrecedenceIsAlwaysAsDocumented` | `ExprSpec => []PrecedenceIsAsDocumented`, for any leaves that tokens can express (`SentencesAssumption`) and any `Depth` |
| `RoundTripForAll` | `RoundTrips` of every statement, with lists of any length and expressions of any height |
| `CreatesItselfForAll` | `CreatesItself` of every `CREATE TABLE` |
| `RenderedTextsAlwaysParseBack` | `ExprSpec => []RenderedTextsParseBack`, from the two before it |
| `RejectionIsFinalForAll` | `FinalIn` of every sequence of tokens, statement or not, for all its beginnings that do not end in `LIMIT` |
| `RejectionIsAlwaysFinal` | `ExprSpec => []RejectionIsFinal`, for any set `Foreign` |

The argument. `Parsing(ts)` is a function that calls itself, so it has to be shown
to exist. It does because what is found at a position lies at or after it and
depends on later positions alone (`FoundFine`); the table of all positions is made
from the end of the text backwards (`ParsingRight`), like the lexer's.

For precedence, `Writes(s, x, k)` says that wherever the text `s` occurs, each
level from 1 to `k` reads it as `x` and then goes on behind it as that level would
with `x` as its left operand (`Resume`). "Goes on" is what makes it inductive: after
`a`, the level of products does not know yet whether it has read its operand
or the first factor of a longer product. A level that finds none of its operators
behind the text is done (`LoopStops`), and one that does takes a turn
(`LoopTurns`). The sparsest text of an expression, put at the rank of its
operator, satisfies `Writes`, by induction on the expression: an operand of
too low a rank is in parentheses, which every level reads (`ParenWrites`). The same
induction serves the rendering with all parentheses.

For rejection, a beginning `s` of a text `t` is parsed beside `t`. `Meets` says
that what is found in `s` is what is found in `t`, or ends at the end of `s`: the
parser decides by the next token, and the next token is the same until the
beginning has none. All of the grammar meets, part by part, from the end of
`s` backwards (`FullExprParses`, `ListParses`, `StatementParses`, `ScriptMeets`).
An error at a token of `s` is before its end, so it is the error of `t`. `LIMIT` is
the exception: its error may be one token before the end, which is why beginnings
that end in `LIMIT` are left out (`LimitMeets`), and `parser_limit` shows why they
must be.

For the round trip, `Spans(ts, p, q, s)` says that the text `s` is in `ts` from `p`
to `q`. Each part of a statement is shown to read as what it was rendered from, if
it is followed by one of the tokens that may follow it (`ExprReads`, `NamesRead`,
`RowReads`, `ColumnReads`, `WhereReads` and so on). Lists are read by induction over
their length (`PartsRead`), and the clauses of a statement in their
order; the token behind an absent clause is that of the next one (`OrderReads`,
`LimitReads`).

`ShellProofs` proves of `Shell`, for lines of any length and any number
(`ShellAssumption`: they consist of characters the model knows), any words of
commands, any `MaxDigits`, `MaxText` and `MaxFault`:

| Theorem | States |
|---|---|
| `ShellInvariant` | `Spec => []ShellInv`, the inductive invariant |
| `SeparatorsAlwaysSeparate` | `Spec => []SeparatorsSeparate` |
| `QuotedTextsAlwaysReadBack` | `Spec => []QuotedTextsReadBack` |
| `ShellAlwaysAgreesWithLexer` | `Spec => []ShellAgreesWithLexer` |
| `CommandsAreAlwaysBetweenStatements` | `Spec => []CommandsAreBetweenStatements` |
| `ExitStatusIsAlwaysRight` | `Spec => []ExitStatusIsRight` |

The argument. The lexer is a function of the position it starts at, made from the
end of the text backwards (`Downwards` and `Backwards` of `Induction`). What it
finds from a position on depends only on the text from there on (`LexingMoved`).
What it finds in a first part does not depend on what follows, if one of the two
sides of the cut is white space or a semicolon and the first part does not end in a
string literal (`LexingBegun`): numbers and words end there, and a comparison does
not take a separator along. Together these say how a text cut there is read
(`LexJoined`), which is `SeparatorsSeparate`. A doubled quote is read as one at
every place of a literal, again from the end backwards (`AllQuotedReadBack`).

The shell and the lexer share one fact, parity: where the number of quotes is
even, the text so far ends in no literal (`Balanced`). So a
statement that the shell cuts off, with its semicolon, is `Whole`: the lexer can
stop behind it, at a semicolon token, unless it meets an error before
(`StatementIs`). Whole texts can be put together (`WholeJoined`), and so, by
induction over the cuts, a buffer is a whole text and a rest without a cut
(`SplitAllIs`); blank statements make no difference (`PiecewiseNotBlank`).

`ShellAgreesWithLexer` and `CommandsAreBetweenStatements` are not inductive. They
say how the input and the statements are *read*, which does not tell how the
input with another line is read: a literal might be open. `ShellInv` says,
while the shell runs, that `sql` is some whole text followed by `buf`, and that the
text is read as the statements that were executed (`GoesOn`); for every command,
that what had been read before ends a statement (`AllBetween`); when it has
ended, that the statements executed are read as the input is, or as the first part of it if
reading or writing failed (`HasEnded`); and that `had_error` and the exit status follow
the histories (`ErrorIsKept`, `StatusIs`). A line adds to `buf`, and the
statements cut from it to the whole text (`LineDoes`); the end of the input makes
the rest a statement (`EndDoes`); a command is run only when `buf` is blank, so that
all that was read is whole.

`CodecProofs` proves of `Codecs`, for bytes, integers and length fields of every
width, under the assumptions that name them (`ByteAssumption`,
`RowCodecAssumption`, `CatalogCodecAssumption`, `CodecsAssumption`):

| Theorem | States |
|---|---|
| `CodecTypes` | `CodecSpec => []CodecTypeOK`, the inductive invariant |
| `RowsAlwaysReadBack` | `CodecSpec => []RowsReadBack` |
| `CatalogAlwaysReadsBack` | `CodecSpec => []CatalogReadsBack` |
| `TruncationIsAlwaysRefused` | `CodecSpec => []TruncationIsRefused` |
| `KeysAlwaysKeepOrder` | `CodecSpec => []KeysKeepOrder` |
| `PrefixesAlwaysSeparateTables` | `CodecSpec => []PrefixesSeparateTables` |

The argument. A number below the limit of its width is made of its digits, which
are the remainders of repeated division, and words of one width compare as their
numbers do; the sign flip adds half of the limit, which makes the signed integers
such numbers in their order. A decoder reads at the front of its data, and what
it reads there is the same when more bytes follow (`Longer`). So what is read
back alone is read back in front of others, and a decoder that runs others one
after the other, or in a loop, reads back what they read (`TurnsReadBack`). The
other way round, a decoder that reads all of a string reads no beginning
of it, for then it would read the same of the string and leave a rest
(`MoreFails`). A loop over columns meets its first failure and stays there, so the
statement is proved of each turn. A row has its null bitmap in front, whose bits
are the digits of its bytes. The prefixes of tables have one length, and
differ where their ids do; the keys of the catalog begin with another byte.

Left to TLC: the liveness properties (`EveryRetrySucceeds`,
`EveryTransferSucceeds`), for TLAPS does not prove liveness under fairness. Every
other property that a passing run checks is a theorem. No module uses `RECURSIVE`
operators, which TLAPS does not support.

## 6. Not modelled

* The store itself (another repository), hence its durability and its
  compaction; `Sietch` states what is relied on.
* That write skew happens: snapshot isolation allows it, ADR-002 says so, and
  `SnapshotRows` allows it too. `CommitsSerialize` draws its boundary.
* What results, prompts and messages look like (`format_table`, `cell`): layout
  without state. The benchmark in `engine/examples`, a program that measures;
  the CI configuration.
* Keywords in any case, Unicode classes and the wording of errors. Positions are
  of tokens in `Parser` and of characters, each one byte, in `Lexer`.
* Texts and byte strings of 4 GiB, whose 32-bit length would be truncated like
  the 16-bit one of names.

## 7. Plan

Done: sections 2 to 5. What is worth adding:

1. `Shell` over `Session`: a failed `COMMIT` in the middle of a script.
2. Write skew as a run: two sessions of disjoint writes that read each other's rows.
