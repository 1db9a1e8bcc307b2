# TLA+ project for pqfh

pqfh is a file handler for COBOL programs. The COBOL runtime calls `pqfh(opcode, fcd)` for every
statement on an indexed file; pqfh executes it on a PostgreSQL table, on the ISAM file behind the
vendor's handler `EXTFH`, or on both. This directory models the core of it in TLA+, checks the models
with TLC and proves part of what they say with TLAPS.

## Inventory

| Component | State | Operations | Hard behaviours |
|---|---|---|---|
| Transaction core (`pqfh.c`, `command.c`) | one connection always in a transaction; `in_transaction`, `pending_commits`, `fatal`; mutex `lock` | `pqfh_begin_transaction`, `pqfh_commit`, `pqfh_rollback`, `commit`, `thread_commit`, COMMIT and ROLLBACK commands, signals | two threads, globals read outside the mutex, one failed statement spoils the whole batch |
| Open, close, delete file (`pqfh.c`, `op_open.c`, `op_close.c`, `delete_file.c`, `create_table.c`, `copy_table.c`, `meta.c`, `cache.c`) | the fields `mode`, `isam`, `open_mode`, `status`, `file_id` of the fcd; a heap `table_t`; the metadata cache | OPEN in four ways, CLOSE, DELETE FILE, `MODE:`, `CACHE_START`, `CACHE_STOP` | two stores opened in sequence, failure of the second, a mode that may change, stale cache |
| Record operations (`op_read_random.c`, `op_write.c`, `op_rewrite.c`, `op_delete.c`, `pqfh.c`) | record area, key of reference, both stores | READ, WRITE, REWRITE, DELETE, the undo of mode A | failure, commit or exit between the two halves |
| Cursors (`op_start.c`, `op_next_prev.c`, `kdb.c`, `utils.c`) | a server cursor; `first`, `restart`, `eof_start`, `key_next`, `buf_next` and their `prev` twins; prepared statements | START with five relations, READ NEXT, READ PREVIOUS | remembered rows that go stale, cursors lost in a rollback |
| Keys to SQL (`kdb.c`, `meta.c`) | `tab->columns`, `tab->keys`, the marks `pk` | `getkeys`, `getwhere`, `getwhere_prepared`, `getkbuf`, the UPDATE of REWRITE | composite, split, partial and weak keys |
| Record locks (`pqfh.c`, `op_read_random.c`) | `advisory_lock` | every makefile defines `IGNORELOCK`: no READ locks, only UNLOCK is left | UNLOCK counts as an update |
| Memory files (`memfh.c`, `memfh_cbl.c`, `memfh_idx.c`) | `hdrs`, B+ trees with a path per index, one flag `start` | OPEN, CLOSE, WRITE, REWRITE, READ, START, READ NEXT in modes M and F | splits that link a page twice, scans and searches on one path, headers two fcds share |
| Compare, load, copy (`cmp_table.c`, `cmp_isam.c`, `load_table.c`, `copy_table.c`) | two scans, a log, the open transaction | CMP, SYNC, LOAD, COPY:, CMPISAM | failures taken for the end of a file, orders that differ, bytes the database does not keep |
| Change log (`changelog/`, `sync.cbl`) | the table `changelog`, `sync_tables` and `sync_fcds` | the trigger, `sync_execute` | ids visible out of order, passes repeated after a crash |
| Screen sharing (`central_compartilhamento/`, `Compartilhamento` and `Suporte` of `terminal/`) | a map of sessions, a list of refreshes, sockets | share, stop, draw, support joins and leaves | an accepting thread that also serves, a list two threads use, short reads |
| Region of the screen (`Terminal`, `Escape`, `Compartilhamento` of `terminal/`) | the cursor, the rectangle `r`, the state of the login | a batch of output, the send of its region | batches that return early, throw, or run inside another one's `showAndWait` |
| Replicator (`replicator.c`) | a second connection | repeats updates on other tables | its commits are commented out |
| JSON files, web API (`op_json.c`, `json_*.c`, `thread_api.c`, `call_api.c`) | a parsed document; a thread per call | read only; POST | arguments shared with the thread |

Interaction: `pqfh()` chooses the mode, calls EXTFH (before the mutex is taken), then one `op_*`
function under the mutex; each `op_*` sends SQL on the one connection and increments
`pending_commits`; `thread_commit` ends the transaction behind the program's back every second.
So a transaction's end is visible to everything: to the table, to the cursors, and, when it is a
rollback, to the agreement with the ISAM file.

The commands of `command.c` (CMP, SYNC, LOAD...) are calls of the same `op_*` functions in a loop. The
change log and screen sharing are programs of their own: the first sees only what transactions commit,
the second nothing of the file handler.

Terminals (but for screen sharing), the updater, the emulator, `fx`, `pendencias` (user interfaces), the
JVM bridges and the vendored `putty` are outside the project.

## Modules

| Module | Models | Composes |
|---|---|---|
| `PqfhTransaction` | the two threads, one step per access to shared state | the program, `thread_commit`, the session |
| `PqfhTransactionProofs` | the proofs | extends `PqfhTransaction` |
| `CobolFile` | abstract: the rules of OPEN, CLOSE, DELETE FILE and their statuses | |
| `PqfhFile` | the same statements in modes A, B, W, I, with cache and creation of tables | refines `CobolFile` |
| `PqfhFileProofs` | the proofs | extends `PqfhFile` |
| `PqfhDual` | READ, WRITE, REWRITE, DELETE in two stores | EXTFH, the table, the transaction |
| `PqfhDualProofs` | the proofs | extends `PqfhDual` |
| `PqfhCursor` | START, READ NEXT, READ PREVIOUS | cursor, table, transaction |
| `PqfhCursorProofs` | the proofs | extends `PqfhCursor` |
| `PqfhKeys` | which columns a key has, the WHERE and ORDER BY of a START, the UPDATE of a REWRITE; justifies `getwhere` of `PqfhCursor` | |
| `PqfhKeysProofs` | the proofs | extends `PqfhKeys` |
| `Changelog` | sessions, trigger and `sync_execute` | tables, change log, ISAM files |
| `ChangelogProofs` | the proofs | extends `Changelog` |
| `MemIndex` | the B+ tree of a memory file, as operators | |
| `MemFile` | memory files | extends `MemIndex` |
| `TableSync` | CMP, SYNC, LOAD, COPY:, CMPISAM | both stores, the transaction |
| `TableSyncProofs` | the proofs | extends `TableSync` |
| `Sharing` | terminals, the sharing server and its threads, supports | |
| `SharingProofs` | the proofs | extends `Sharing` |
| `TerminalRegion` | which cells of its screen a terminal sends: what `Regions` of `Sharing` abstracts | |
| `MC...` | values of the constants for TLC | one for each of the models above |

`PROJECT.json` maps every definition to its lines. Definitions whose name ends in `_Something` and
whose comment begins with "Mutant" are faulty variants of the definition that follows; they are used
by no specification and exist to show that a property would notice the fault.

### PqfhTransaction

`pc` and `tpc` are the places of the program's thread and of `thread_commit`; a step takes or releases
the mutex, executes one SQL statement or reads or writes one global. `work`, `aborted` and `durable` are
the server's side: COMMIT of a failed transaction rolls back. A statement is a number, taken in order
(`next`). `truncated`, `explicit`, `strays` and `sigterm` are history. An OPEN OUTPUT executes its
TRUNCATE in the open transaction and leaves `pending_commits` alone (op_open.c:88), so `thread_commit` does
not see it: `PendingCoversWork` and `AutoCommit` are about the updates that are counted.

`fatal` is set in one place, when `valida_numero` meets a bad key (validador.c:82). The process then exits in
`valida_comando`, unless the log of errors cannot be opened; if it goes on, `thread_commit` and
`pqfh_commit` commit without the mutex, reset the counter and exit, three steps each with the other thread
in between, and the other calls exit. The signal handlers do not touch `fatal`: they end the process
(`Kill`, which may also come at any other point), and SIGTERM only writes a line.

### PqfhFile

One call is one step, because EXTFH and the database half of OPEN, CLOSE and DELETE FILE have no
observer in between. The content of the stores is a Boolean each (`rows`, `isam_rows`), which is what
truncation, rollback and creation tell apart. `tab` is the state of the memory `file_id` points to:
none, live, freed. `op`, `ext` and `gone` are history. EXTFH is external: a call succeeds, or fails with 35
or 9A, or is refused because of the fcd's open mode. The mode in `.pqfh` is fixed during a behaviour.

`OpenTruthful` says when an OPEN may succeed although the table is not there: an entry of the cache that
outlived a DROP TABLE, and a `create_table` whose COMMIT rolled the new table back because an index failed.
It names what the state is then, so that nothing else passes for one of the two.

### PqfhDual

A call takes two steps (EXTFH's, then the database's), with commits and exits allowed in between.
A record is a key and the rest of it; `Norm` is what `valida_numero` does to the rest on its way to
the table (bad digits are replaced; applying it twice is applying it once), so the stores are compared
up to it. `tainted` is history: the keys at which the code itself gave up agreement (a batch rolled
back, an exit between the halves, an undo that EXTFH refused). `Divergence` says there are no others.

### PqfhCursor

A cursor is the set of rows not fetched yet and an order; it is insensitive, so later updates do not
change it. `WITH HOLD` makes it outlive a COMMIT, not the rollback of the transaction that declared
it. `want` is history: the records the program is still owed by the last START, computed from the
table and not from the cursor. `Hasty = FALSE` is the assumption that a program READs after a START
before it does something else with the file; a READ in the other direction ends the scan the
properties speak of. `Touched` limits the keys of the calls by key. `partial` and `full` are the two shapes
of the statement `op_read_random` prepares once per key. `Ops` gives the relations the program uses on
a table that is weak and on one that is not.

`eof_start` is one global for all files (op_start.c:10): STARTs of other files set and clear it
(`OtherStart`), at any moment. `own_eof` is history: the value it would have if each file had its own.
`ScanRight` and `EofHonest` use the pair to say what the sharing does and that it does nothing else. A key
that is no number ends the process, in the DECLARE of a START, into which its bytes go as they are, or in
`valida_comando`, for a call by key and a START of a weak table; `badkey` is history for that.

### PqfhKeys

A record is a sequence of bytes, a key what COBOL says it is: the bytes of its components, compared as
one string. The module builds what the code builds from it, a list of columns, one comparison per call of
`adiciona_comp` and an ORDER BY, and evaluates them as the database would. `Value` is the conversion of a
field: low-values become the lowest value, so START > low-values passes over a record of lowest key,
which EXTFH would return. An apostrophe in a text field of a key ends the process in `escape`, whose loop does
not stop at the end of the text. REWRITE converts signs as the code does, the minus over the first digit
(`Overlaid`, `Unsigned`), and ends the process when every column is marked `pk` and one changed, because the
UPDATE has no SET list. Partial (`set_partial`) and weak keys are read by their leading columns. Init
leaves out what reads past `key.columns`: a weak table with a partial key, a weak key of one column, a
partial key longer than the key.

Two assumptions are about the layouts. `Sized`: no column is empty and every key has a component.
`Aligned`: a component lies in the record and begins and ends where columns do; for one that does not,
`getkeys` takes no column, or one with bytes outside of it, and the key of COBOL is not a list of columns.

### Changelog

A change draws an id, locks its row until the transaction ends and becomes visible with it. A pass of
`sync_execute` is the set of PENDING rows at its beginning; each row is one step that calls EXTFH and
marks the row, and the marks are committed at the end. A crash loses the marks, not what EXTFH did.
`Paired` is the walk over `sync_tables` and `sync_fcds` as the code does it, with the second list not taken
back to its first item. The rest of a record is the id of the change that made it, so that a lost or
doubled change cannot look right.

`Truncate` empties a table without a row in the log, and `Rekey`, an UPDATE of the primary key, leaves one
row, which is replayed as a REWRITE of the new key. A text with a "|" (`Pipes`) shifts the columns of its
row: `Decode` then gives any record. `unlogged` and `astray` are history, the keys of these changes;
`unlogged` keeps a key also when the session rolls back, since its lock order is then not that of the rows.

### MemIndex and MemFile

`MemIndex` has pages, links and splits as in `memfh_idx.c`; a path is a sequence of pages and positions,
with room for `MaxDepth` levels. A scan that passes from a branch to its sibling adds a level and takes none
off; a path that does not fit is written over what comes after it, and the behaviour ends (`Undefined`).
`MemFile` adds headers, fcds and the one flag `start`. Searches move the path the scan goes on from, as
in the code, and so does a READ NEXT of another fcd with the same header. A scenario fixes which fcds, keys
and headers a behaviour uses: one large file, or small ones that are shared, or two fcds that take turns at
one header; whether the primary key has one component (`first`) and is at the front of the record
(`front`), on which two ways to end the process depend (`CreateExit`, `UpdateExit`).

### TableSync

One turn of the merge is one step, since any READ or update in it may fail and the next turn sees what
that left. The bytes of a column are kept, because `reccmp`, `op_write`, `op_rewrite` and `pq2cob` each do
something else to NULs, spaces and signs. `order` holds the order of each scan: the primary key, a
collation that is not that of the bytes, an alternate key, and the keys a weak table shows. A command finds
the transaction as the program left it: with updates that are not committed (`saved` is not `table`), or
failed. A file may have the key that is all NUL, which START > low values passes by. LOAD after the OPEN of an ISAM
file truncates the table opened before (`LoadElsewhere`). The validator ends the process for a bad key, and
`thread_commit` may commit first. `before`, `base`, `last`, `astray` and `undone` are history. `Broken` says
which columns the database does not keep: a byte other than a space after a NUL in a string; in a number a
digit other than zero beside a NUL, a byte that is no digit, a first digit that is not zero under a minus,
and the sign of a zero.

### Sharing

One step per message handled, and two for `pendentes.add` and the write after it, because the accepting
thread replays the list in between. The screen is a function from cells, and a cell is the number of its last
change; a REFRESH has the cells of one line and some columns, so that a later one of other columns repairs
nothing. A connection is accepted by the system before it sends its key (`Connect`, `SendKey`; `Dial`,
`Ask`), and the accepting thread waits in its read for the head of the queue. `AcceptFails` is the end of
`main`: a key that is no number or came in part, or an answer that cannot be written. `AgentReturns` is a
header that was read in part, at any message. A cast says who takes part. `direct` and `doubt` are history:
the cells of the terminal a support watches that a direct write or a replay may have left out of date.

### TerminalRegion

One step per character or escape sequence, then the end of the batch in the order of `Terminal.atualiza`:
the menu, the marker that closes it, the login with its returns, `verificaMenuPrincipal` and
`verificaFilial`, the send. `alteraRegiao` is translated line by line, with its -1 and with the line above the
region, for which it adds to the width. The cursor leaves the screen by one line or column at most (more
makes no difference: the test is `>=`). A batch in `showAndWait` is an entry of `waiting`; until it goes on others
begin, and set the same `r`. `stale` is history, the cells that changed since they were sent, and `excused`
those of batches the code is known to leave unsent. A mark of the whole screen empties `excused`:
`ScreenSent` then demands them too, of the same batch.

## Runs

| Run | Shows | Bounds |
|---|---|---|
| `transaction` | the counter covers the work that is counted, stray commits are bounded, no silent loss; under fairness every call returns, except the ROLLBACK command that waits for itself, every update leaves the open transaction, and a process with a fatal error ends | three statements, updates or TRUNCATEs: two in a batch and one in the next |
| `file` | no use after free, EXTFH's handle follows the fcd, mode W shows what EXTFH shows, the mode is stable, OPEN is truthful, refinement of `CobolFile` | none: all four modes, all flags |
| `dual` | divergence is accounted for, 00 means done, a refused update is undone | two keys, two clean values and one that is normalised |
| `cursor` | scans are complete and in order, 10 only at the end, or under the flag of another file; the process ends only after a failure or over a bad key | three keys, the middle one updated; START >= and <, and START of a weak table of two groups |
| `keys` | WHERE selects and ORDER BY sorts by the bytes of the key, up to the column after a partial key; REWRITE stores the record up to the fields before the primary key and the first digit of negative numbers, and exits only where there is no column to set | seven layouts with keys of one component, of several columns, split, with decimals and of the whole record; two characters, low-values, the apostrophe and the sign |
| `changelog` | file and table converge but for changes without a row and garbled ones, changes of a key arrive in order the first time, no row of the added table stays PENDING | two changes of two records of the added table or one of another, by two sessions, with TRUNCATE, UPDATE of the key and "&#124;", two crashes or EXTFH failures |
| `memory` | the index finds and orders every record, scans are complete until a path overruns, headers dangle only in mode F | pages of three items and seven keys in any order (three levels), paths of four levels; six keys with READs and REWRITEs in between; two fcds, two headers, two fcds at one header with two keys |
| `sync` | the log of CMP is right, SYNC and LOAD are all or nothing, a SYNC settles, it deletes only what the ISAM file lacks or could not be read to, every command ends | three keys, one of them bad, and the key of NULs; two bytes of data; three orders and a weak table; work committed or not; one command |
| `sharing` | sessions are reachable until one is stopped, the support sees every cell as it was sent, terminals are answered | three terminals; or two and a support; or one, two supports and two batches of output, with two overlapping regions of a screen of two by two |
| `region` | a batch sends the cells it changed, and a mark of the whole screen those that earlier ones left | two lines, three columns, steps of one and two; three characters or sequences in a batch; one batch in `showAndWait` |

Two keys are enough in `dual` because no operation relates more than the key it is given and one
other. Three keys are needed in `cursor`: one before, one after, one that appears and disappears. In
`memory` five keys are the fewest that split a branch of three items; with seven there is one to scan on
both sides of the split. Two ids are enough in `changelog` for one to become visible before an earlier one
and for two changes of a key with a repeated pass between them. One command is enough in `sync`:
`SyncSettles` says what the next would find.

Several of these properties carry exceptions. Each is a place where the code does less than a reader
would expect, written into the property so that nothing else hides behind it. The runs reach them all but
for the undo of DELETE: `dual` deletes what was just read, and `dual_alt` checks another property.

- `PendingCoversWork`, `AutoCommit`: the TRUNCATE of OPEN OUTPUT, which is not counted; the last commit()
  after a fatal error, which takes no mutex.
- `OpenTruthful`: a cache entry of a dropped table; a table that went with its failed index.
- `Divergence`, `Undone`: a batch that is rolled back or an exit between the halves; a DELETE of a record
  that was not just read, whose undo writes the record area and not the saved record (pqfh.c:1249).
- `ScanRight`, `EofHonest` of the cursor: the flag `eof_start`, which other files set and clear.
- `StartSurvives`: a failed statement, a rollback, a key that is no number.
- `OrderRight`: the column after a partial key is not in the ORDER BY (kdb.c:182).
- `RewriteWhole`: `getkeys` marks every column before a primary key of one component `pk`, and REWRITE
  leaves them alone (kdb.c:68), or has nothing to set and ends the process (op_rewrite.c:137); a negative
  number loses its first digit (op_rewrite.c:174); a primary key with decimals is sent without its point, so
  the UPDATE finds no row, or another (op_rewrite.c:200).
- `Converges`: keys changed by a TRUNCATE or an UPDATE of the key, hit by a row with a "|", or whose change
  EXTFH refused.
- `Drained`: more than one table added, where nothing drains (`StaysPending`).
- `ScanRight` of memory files: a second START, the READ NEXT of another fcd at the same header, a path that
  overruns (memfh.h:7).
- `OnlyInDatabase`, `AllOrNothing`: an error of EXTFH is taken for the end of the ISAM file, and SYNC
  deletes the rest of the table (cmp_table.c:101); scans in another order; a bad key in the middle.
- `SyncSettles`: the columns that are `Broken`.
- `Reachable`: a session number is given twice after a STOP (Central.java:41).
- `Mirror`: cells refreshed directly for an earlier support, overtaken in the replay or added after it.
- `Answered`: an accepting thread that relays, or has died.
- `ScreenSent`: a line above the region (Terminal.java:1178), a column off the screen, a batch that threw or
  returned during the login, a batch whose region another one overwrote.

The runs that must fail each show one disagreement between the code and what a comment or a program of
the repository says of it:

| Run | Disagreement |
|---|---|
| `dual_alt` | DELETE "checks whether the record exists" by the current alternate key and deletes the row that comes back |
| `cursor_shortcut` | the shortcut of START is not only "performance": the row it remembers is believed again after a START that found nothing, and READ returns a deleted record |

That `sync.cbl`, which adds two tables, "fica em loop sincronizando as tabelas" (sync.cbl:39) is refuted by a
proof: with different first and last tables no row is ever marked, and all stay PENDING (`StaysPending` of
`ChangelogProofs`).

The models show more, stated by no run: a TRUNCATE fires no row trigger, and the ISAM file keeps the
records (`Truncate` of `Changelog`); WRITE looks a record up with the statement that a START of a weak
table prepared for the leading part of the key, and answers 22 for a record that is not there (`Prepare` of
`PqfhCursor`); the undo of DELETE writes the record area (pqfh.c:1249); LOAD after the OPEN of an ISAM file
truncates the table opened before (`LoadElsewhere`); a START with an apostrophe in its key copies past a
buffer (`escape` of `PqfhKeys`); SIGTERM does not commit although release 3.13.0 says so
(`trataTerm` changes nothing); an OPEN OUTPUT of mode A that EXTFH refuses leaves the table truncated
although the log says "desfaz open" (`OpenBoth`);
`op_close` after a failed OPEN of mode A frees nothing (`OpenBoth`); the shortcut with START = skips the
record (`Restart` has no case for it) and with START > answers 00 at the last key; a START without READ
before it leaves `restart` for the next cursor's first row (`FirstRow`).

### Fairness

- `transaction`: weak fairness of the steps inside a call and of `thread_commit`: a thread that can run
  does, the server answers, `sleep(1)` ends. Strong fairness of taking the mutex: the other thread lets
  go of it again and again (at least once a second's sleep), and a waiter is served. Nothing is assumed
  of the program: it need never make another call.
- `changelog`: weak fairness of `sync_execute`, which `sync.cbl` calls in an endless loop; sessions need
  not commit, and the number of crashes is bounded (`MaxFaults`): a process that dies in every pass
  drains nothing.
- `sync`: weak fairness of the loop of a command, which is one thread.
- `sharing`: weak fairness of the accepting thread and of each Agente; of a terminal or a support that has
  connected, to send its key, and of a terminal that was answered, to send its screen, unless it closes:
  each of these is the next statement of the same thread. Nobody has to draw, to type, to leave or to stop;
  so the relay to a terminal that is gone (`RelayFails`), which ends when the support types, is not fair.

## Proofs

`PqfhTransactionProofs` proves for every `MaxStmt`: `TypeCorrect`, `MutexCorrect`, `PendingCorrect`,
`StrayCorrect` and `NoLossCorrect`. They rest on one inductive invariant,

    IInv == TypeOK /\ LockInv /\ FatalInv /\ PendingInv /\ StrayInv

`LockInv` ties the places of the two threads to the holder of the mutex, without which mutual exclusion
is not inductive. `FatalInv` says where the two threads can be once `fatal` is set, when commits are made
without it. `PendingInv` adds to `PendingCoversWork` what holds in the moments between a statement and its
increment and between COMMIT and the reset. `StrayInv` bounds the commits by where `thread_commit` stands
after its stale test: a thread that has passed the test owes at most one. Each action has a step of its own,
and the Boolean parts are apart from the arithmetic ones because different backends prove them.

`PqfhFileProofs` proves for every set of modes: `FileTypeCorrect`, `NoDanglingCorrect`,
`HandleCorrect`, `TransparentCorrect`, `ModeCorrect`, `TruthfulCorrect` and `FileRefinement`. The
inductive invariant has the invariants the run `file` checks and one more,

    FInv == TypeOK /\ NoDangling /\ HandleFollows /\ WTransparent /\ CacheSeen

which no part of is inductive alone: that no handle is left by CLOSE in mode B needs `HandleFollows`
and the types of the mode, and an OPEN keeps the table_t only because the mode of an open file does not
change. `CacheSeen` (what the cache calls found is there, or was) is what `TruthfulCorrect` needs. Lemmas say
what the calls of EXTFH and `op_open` return (`ExtOpenResult`, `OpOpenResult`, `OpOpenDb`,
`OpOpenTruthful`), one lemma per action shows the invariant kept, and the Boolean variables have lemmas of
their own. The refinement maps the fcd's open mode and status to themselves and "128" to `Closed`.

`PqfhDualProofs` proves `DivergenceCorrect`, `OkAppliedCorrect` and `UndoneCorrect` for any keys, values and
idempotent conversion `Norm`. `DInv` says what EXTFH has done for the call in progress (`isam` is `isam0`
with the update applied, and `undo` is the record of before); `AgreeInv` that the table has what the file
had before the call, but for tainted keys, and that a record read and not yet deleted is the row of its
key. Two hypotheses are about the program, and the run `dual` makes them too: `ByPrimaryKey`, without
which `op_delete` deletes another row (the run `dual_alt`), and `DeletesWhatItRead`, without which the
undo of DELETE writes whatever is in the record area.

`PqfhCursorProofs` proves `SurvivesCorrect` for all programs, and `ScanCorrect` and
`EofCorrect` for those that READ after a START (`Patient`) and do not START = a table that is not weak
(`NoEqual`): the row remembered by a START = stands at a cursor without the rest of the file. `WantInv` says
that what READ owes the program is the row START has fetched or a shortcut has remembered and then the rest
of the cursor; `IntactInv` that the remembered row is where the cursor stands, in the table without the rows it cannot
see, and, once the cursor is held, in the committed table too, to which a rollback returns. Both speak of
`own_eof` and not of `eof_start`, which other files change at any moment.

`PqfhKeysProofs` proves `SelectsRightAlways`, `OrderRightAlways` and `RewriteWholeAlways` for every layout
that is `Sized` and `Aligned`, any bytes and any partial keys, where the run has seven layouts. There are two
halves. The invariant

    IInv == TypeInv /\ OpenInv /\ RecordInv /\ WhereInv /\ DeclaredInv /\ LookupInv /\ RewriteInv

says of the state machine what `adiciona_comp` has built after each column (`WhereInv`), so that at the end
the WHERE is `Comparison(i, n)` and the ORDER BY `OrderCol(i)` for every i. The other half is about data and
has no steps: the columns `table_info` finds are adjacent (`ColumnsShape`), `getkeys` finds for a component
the columns with its bytes (`ComponentIs`), so the bytes of a key are cut into pieces by its columns
(`KeyTiles`, `KeyView`), the order of the bytes is that of the pieces, the first ones first (`LexPieces`),
and the nested comparisons say just that (`SatIs`). `ArgIs` is the conversion of low-values. What a
recursive function computes is shown without an induction scheme: a function that satisfies the defining
equation exists, and no two differ, because there would be a least argument at which they do (`EndsExist`
and `EndsUnique`, `FlatExists`, `SatIs`).

`ChangelogProofs` proves `FirstInOrderCorrect` for any tables, and `ConvergesCorrect` when the pairing of
`sync_execute` is that of one table (`OneTable`: what `Paired` gives when one table was added). In the other
case, that of `sync.cbl`, `StaysPending` says that no row leaves PENDING: the pass marks rows of the first
table and applies those of the last. A pass lost in a crash is repeated on a file that has its changes,
so the file is not a function of the marks. The invariant says what a record of it can be: the value of the
last row marked, or of a row still to come, and that the rows of a record are in the order done, PENDING,
open, which is what the row lock of the trigger gives. What is said of the values of rows is said of the
keys that are not `unlogged` (`Logged`).

`TableSyncProofs` proves `LogRightCorrect`, `AllOrNothingCorrect`, `SyncSettlesCorrect` and
`OnlyInDatabaseCorrect` for any keys, columns of any length, contents and orders. `MergeInv` is the invariant
of the merge: the record read is before those left, a key both files have is pending in both or in neither,
and the log is right for the keys that are not pending. `LowInv` says that no row has the key of NULs. `SyncInv` says that a row dealt with is as it should
be and the others as they were, and that a cursor cut short belongs to a failed transaction; `LoadInv` is
its counterpart for LOAD. `StoredCompared` is the fact about bytes: `reccmp` and what `op_write` and
`pq2cob` do to a column agree unless the column is `Broken`.

`SharingProofs` proves `ReachableCorrect` and `MirrorCorrect` for any terminals and supports, a screen of any
size and any regions. For the first, `MapInv` says that the numbers in use are a segment 1 .. m, each Agente
under its own, as long as nothing was removed, so that `size() + 1` is new. For the second, the invariant
follows a cell from the terminal to the support: what was last sent of it is the last message about it on its
way, or else the last one in `pendentes`, or else in the first screen, unless it was written directly
(`StreamInv`); the lines of the first screen come before any REFRESH (`FirstInv`); and what the support sees of
a cell out of doubt is what `pendentes` had for it so far, or, once it was written directly, nothing is left to
replay over it (`SeenInv`).

Least and greatest elements (`CHOOSE` in the models) exist by `LeastExists` and `GreatestExists`, which rest
on the library's well-foundedness of the naturals. Attempts to prove corrected the models twice: `Broken` left out a zero
after a NUL in a string, and an Agente of another terminal could clear the doubts of the one being watched.

`MutexCorrect` (`MutualExclusion`) is proved only: its consequence `PendingCoversWork` is what the run checks.
The types are part of the invariants of the proved modules; the others describe each variable where they
declare it.

The proofs assume the named ASSUMEs of the modules, which TLC evaluates in every run, and the hypotheses
named above: `ByPrimaryKey`, `DeletesWhatItRead`, `Patient`, `NoEqual`, `OneTable`. Each of these is a
condition on the program or its tables that the corresponding passing run satisfies.

TLC alone covers:

- liveness and ENABLED, which are out of the prover's reach: `CallReturns`, `AutoCommit`, `Drained`,
  `FatalEnds`, `CommandEnds`, `Answered`;
- the B+ tree: `IndexRight` and `ScanRight` of `MemFile`, whose correctness for every sequence of
  WRITEs needs induction over the height of a tree in which a split branch is reached in two ways;
- `NoDangling` of `MemFile` and `ScreenSent`, for which no proof was written.

## Limits

- EXTFH and PostgreSQL are modelled from how the code uses them. EXTFH does not return 02, nor OPEN 05 or
  07, which mode A (pqfh.c:989) and mode W (pqfh.c:842) would treat differently.
- One process and one file at a time; of the other files of a process `PqfhCursor` has what they do to
  `eof_start` and to the transaction.
- `PqfhCursor` has one key of reference, `PqfhDual` two. START = of a table that is not weak is in
  `PqfhKeys` only.
- Formatting, logging and timing are left out; column layouts but for `PqfhKeys`; the conversion of
  numbers is `Norm` in `PqfhDual`, byte by byte in `TableSync`, and in `PqfhKeys` that of digits with a sign.
  Keys are unsigned; a number column has more digits than decimals.
- In `TableSync` bytes are below 0x80, numbers have no '+', '-' or '.', and of the keys only the one that is
  all NUL has NULs.
- `Changelog` has no table lock: a TRUNCATE waits for the rows of other sessions, and what these insert
  afterwards under keys that were absent is not held back.
- The mode in `.pqfh` does not change under a running program.
- `Sharing` leaves out the character set (ISO-8859-1 at one end, the platform's at the other), what the
  support types, and the Java memory model: `sockSuporte` and `pendentes` are not synchronised, and a write of
  one thread is seen by the other at once. An Agente at the end of a stream inside a message loops for ever
  (Agente.java:54); it counts as dead.
- `TerminalRegion` takes the parameters of escape sequences to be at least 1, and has no support's terminal: its
  "SUPORTE:" batches change the region too, but it shares nothing.
- `MemFile` ends a behaviour where the code follows a path or a pointer that was never set, writes past the
  levels of a path or uses a freed header (`Undefined`).
- What freed memory holds is not modelled: `sync.cbl` closes each file after `sync_add_table`, and
  `sync_execute` walks columns that `op_close` freed.

## Not modelled

- Replicator: the second connection is in a transaction from the start (pqfh.c:756) and
  `replica_commit` and `replica_rollback` have their bodies commented out, so nothing it writes outlives
  the process. Reading `get_clones` shows one more thing: it does not compare the table name, so a table
  takes over the clones of every table after it.
- JSON files and web API: parsing of a document and HTTP I/O, built only with `API`. The arguments of the
  API thread are on the stack of a caller that returns (thread_api.c:157).
- JVM and terminal bridges: calls into other runtimes, no state of their own.
- Desktop programs: user interfaces. `putty` is third-party code, the larger part of the repository's
  lines.
- The metadata dictionary (`get_schema`, `nome_dicionario`, `tabela_convertida`) only by its outcomes.

## Plan

1. Proofs about `MemFile`: `NoDangling` (headers in `hdrs` are distinct and not freed, an open file has the
   name of its header), then `IndexRight` from an invariant of the pages: the keys below a branch are between
   its own, and the page after the last is the next one in the order of the keys.
2. A proof of `ScreenSent`, from the invariant that the cursor's cell is in the region.
3. Cursors by alternate keys in `PqfhCursor`.
