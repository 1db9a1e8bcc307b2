---------------------------- MODULE PqfhTransaction ----------------------------
(***************************************************************************)
(* The transaction core of pqfh.c.  One PostgreSQL connection is always    *)
(* inside a transaction.  The COBOL program's thread executes file         *)
(* operations on it under the mutex `lock'; thread_commit wakes every      *)
(* second and commits what is pending unless the program has opened an     *)
(* explicit transaction (pqfh_begin_transaction ... pqfh_commit or         *)
(* pqfh_rollback).  The flags in_transaction, pending_commits and fatal    *)
(* are plain globals that both threads read outside the mutex.             *)
(*                                                                         *)
(* A step is one access to the shared state: taking or releasing the       *)
(* mutex, one SQL statement, one read of a global by thread_commit.        *)
(***************************************************************************)
EXTENDS Naturals

CONSTANT MaxStmt    \* bound: updates, UNLOCKs and TRUNCATEs in one process

ASSUME MaxStmtAssumption == MaxStmt \in Nat

Stmt == 1 .. MaxStmt

VARIABLES
    pc,                 \* where the program's thread is
    call,               \* the transaction function it is in
    tpc,                \* where thread_commit is
    lock,               \* the holder of the mutex
    in_transaction, pending_commits, fatal,
    work,               \* statements executed in the open transaction
    aborted,            \* a statement of it failed
    durable,            \* statements committed
    next,               \* the next statement
    truncated,          \* history: the statements that were TRUNCATEs
    explicit,           \* history: begin has been executed, commit/rollback has not
    strays,             \* history: commits by thread_commit since that begin
    sigterm             \* history: SIGTERM has been delivered

mainVars == <<pc, call>>
flagVars == <<in_transaction, pending_commits, fatal>>
dbVars   == <<work, aborted, durable>>
histVars == <<truncated, explicit, strays, sigterm>>
vars == <<mainVars, tpc, lock, flagVars, dbVars, next, histVars>>

--------------------------------------------------------------------------------
(* PostgreSQL: the effect of the statements on the session's transaction.  *)

\* COMMIT; BEGIN.  COMMIT of a failed transaction rolls it back.
Commit ==
    /\ durable' = IF aborted THEN durable ELSE durable \cup work
    /\ work' = {}
    /\ aborted' = FALSE

\* ROLLBACK; BEGIN.  Also what the server does when the process ends.
Rollback ==
    /\ work' = {}
    /\ aborted' = FALSE
    /\ UNCHANGED durable

\* A statement that fails puts the transaction into the failed state.
Fail == aborted' = TRUE /\ UNCHANGED <<work, durable>>

--------------------------------------------------------------------------------
Init ==
    /\ pc = "idle" /\ call = "none"
    /\ tpc = "none"
    /\ lock = "free"
    /\ in_transaction = FALSE /\ pending_commits = 0 /\ fatal = FALSE
    /\ work = {} /\ aborted = FALSE /\ durable = {}
    /\ next = 1
    /\ truncated = {} /\ explicit = FALSE /\ strays = 0 /\ sigterm = FALSE

\* The first call in a mode other than I connects, sends BEGIN and starts the thread.
Connect ==
    /\ pc = "idle" /\ tpc = "none"
    /\ tpc' = "sleep"
    /\ UNCHANGED <<mainVars, lock, flagVars, dbVars, next, histVars>>

\* exit(-1) ends both threads; the server rolls back the open transaction.
Exit ==
    /\ Rollback
    /\ pc' = "exited" /\ tpc' = "exited"
    /\ UNCHANGED <<call, lock, flagVars, next, histVars>>

Running == pc # "exited" /\ tpc # "none"

\* SIGHUP (trataHUP) and SIGSEGV (trata114): log and exit.
Kill == Running /\ Exit

\* SIGTERM: the handler writes a line to stderr and returns.
trataTerm ==
    /\ Running /\ ~sigterm
    /\ sigterm' = TRUE
    /\ UNCHANGED <<mainVars, tpc, lock, flagVars, dbVars, next, truncated, explicit, strays>>

--------------------------------------------------------------------------------
(* pqfh(): a file operation of the program.                                *)

\* "if (fatal) exit(-1)": at the start of the next file operation, of
\* pqfh_begin_transaction and of pqfh_rollback.
FatalExit == Running /\ pc = "idle" /\ fatal /\ Exit

\* pthread_mutex_lock(&lock)
OpEnter ==
    /\ Running /\ pc = "idle" /\ ~fatal
    /\ lock = "free"
    /\ lock' = "main"
    /\ pc' = "op"
    /\ UNCHANGED <<call, tpc, flagVars, dbVars, next, histVars>>

\* A READ, a START, a CLOSE, an OPEN that changes nothing: no update; a statement
\* of it that fails aborts the transaction.
OpRead ==
    /\ pc = "op"
    /\ pc' = "end"
    /\ (~aborted /\ UNCHANGED dbVars) \/ Fail
    /\ UNCHANGED <<call, tpc, lock, flagVars, next, histVars>>

\* The TRUNCATE of an OPEN OUTPUT is part of the open transaction, and
\* pending_commits is left alone.
OpTruncate ==
    /\ pc = "op" /\ ~aborted
    /\ next \in Stmt
    /\ next' = next + 1
    /\ pc' = "end"
    /\ work' = work \cup {next} /\ UNCHANGED <<aborted, durable>>
    /\ truncated' = truncated \cup {next}
    /\ UNCHANGED <<call, tpc, lock, flagVars, explicit, strays, sigterm>>

\* exit(-1) inside the operation: an error of PQprepare or of declare
\* cursor, or valida_comando after a bad digit in a key.
OpExit == pc \in {"op", "bad"} /\ Exit

\* The INSERT, UPDATE or DELETE of op_write, op_rewrite, op_delete; it
\* fails in a transaction that has failed.  Both outcomes go on to
\* pending_commits++.
OpUpdate ==
    /\ pc \in {"op", "bad"}
    /\ next \in Stmt
    /\ next' = next + 1
    /\ pc' = "bump"
    /\ \/ ~aborted /\ work' = work \cup {next} /\ UNCHANGED <<aborted, durable>>
       \/ Fail
    /\ UNCHANGED <<call, tpc, lock, flagVars, histVars>>

\* unlock(): pg_advisory_unlock, then pending_commits++.
OpUnlock ==
    /\ pc = "op"
    /\ next \in Stmt
    /\ next' = next + 1
    /\ pc' = "bump"
    /\ UNCHANGED dbVars \/ Fail
    /\ UNCHANGED <<call, tpc, lock, flagVars, histVars>>

Bump ==
    /\ pc = "bump"
    /\ pending_commits' = pending_commits + 1
    /\ pc' = "end"
    /\ UNCHANGED <<call, tpc, lock, in_transaction, fatal, dbVars, next, histVars>>

\* valida_numero found a bad digit in a key column.
OpInvalidKey ==
    /\ pc = "op"
    /\ fatal' = TRUE
    /\ pc' = "bad"
    /\ UNCHANGED <<call, tpc, lock, in_transaction, pending_commits, dbVars, next, histVars>>

\* valida_comando returns if the error log cannot be opened: then the read
\* (this action) or the update (OpUpdate) is executed as it is.
OpInvalidRead ==
    /\ pc = "bad"
    /\ pc' = "end"
    /\ (~aborted /\ UNCHANGED dbVars) \/ Fail
    /\ UNCHANGED <<call, tpc, lock, flagVars, next, histVars>>

\* create_table inside op_open: CREATE TABLE and the indexes.  An index that
\* fails is logged and the loop goes on; if CREATE TABLE itself fails
\* create_table returns, which is an OpRead that failed.
OpCreateTable ==
    /\ pc = "op" /\ ~aborted
    /\ pc' = "create"
    /\ UNCHANGED dbVars \/ Fail
    /\ UNCHANGED <<call, tpc, lock, flagVars, next, histVars>>

\* Its own COMMIT; BEGIN, pending_commits untouched.
OpCreateCommit ==
    /\ pc = "create"
    /\ Commit
    /\ pc' = "end"
    /\ UNCHANGED <<call, tpc, lock, flagVars, next, histVars>>

OpLeave ==
    /\ pc = "end"
    /\ lock' = "free"
    /\ pc' = "idle" /\ call' = "none"
    /\ UNCHANGED <<tpc, flagVars, dbVars, next, histVars>>

\* Writing COMMIT to the file "pqfh": commit() with the mutex of pqfh() held.
\* Also the commit() after COPY:, LOAD, SYNC and at the end of op_delete_file.
CommandCommit ==
    /\ pc = "op"
    /\ Commit
    /\ pc' = "reset"
    /\ UNCHANGED <<call, tpc, lock, flagVars, next, histVars>>

\* Writing ROLLBACK to the file "pqfh": pqfh_rollback() takes the mutex that
\* pqfh() holds already; the mutex is not recursive.
CommandRollback ==
    /\ pc = "op"
    /\ in_transaction' = FALSE
    /\ pc' = "wait" /\ call' = "rollback"
    /\ UNCHANGED <<tpc, lock, pending_commits, fatal, dbVars, next, histVars>>

--------------------------------------------------------------------------------
(* pqfh_begin_transaction, pqfh_commit, pqfh_rollback, called by the       *)
(* program: set the flag, then take the mutex.                             *)

pqfh_begin_transaction ==
    /\ Running /\ pc = "idle" /\ ~fatal
    /\ in_transaction' = TRUE
    /\ pc' = "wait" /\ call' = "begin"
    /\ UNCHANGED <<tpc, lock, pending_commits, fatal, dbVars, next, histVars>>

pqfh_commit ==
    /\ Running /\ pc = "idle" /\ ~fatal
    /\ in_transaction' = FALSE
    /\ pc' = "wait" /\ call' = "commit"
    /\ UNCHANGED <<tpc, lock, pending_commits, fatal, dbVars, next, histVars>>

pqfh_rollback ==
    /\ Running /\ pc = "idle" /\ ~fatal
    /\ in_transaction' = FALSE
    /\ pc' = "wait" /\ call' = "rollback"
    /\ UNCHANGED <<tpc, lock, pending_commits, fatal, dbVars, next, histVars>>

\* pqfh_commit after a fatal error: commit() without the mutex, exit(-1).
\* Nothing keeps thread_commit from running between its statements.
FatalCall ==
    /\ Running /\ pc = "idle" /\ fatal
    /\ in_transaction' = FALSE
    /\ pc' = "fatal" /\ call' = "commit"
    /\ UNCHANGED <<tpc, lock, pending_commits, fatal, dbVars, next, histVars>>

FatalCommit ==
    /\ pc = "fatal"
    /\ Commit
    /\ pc' = "last_reset"
    /\ explicit' = FALSE /\ strays' = 0
    /\ UNCHANGED <<call, tpc, lock, flagVars, next, truncated, sigterm>>

FatalReset ==
    /\ pc = "last_reset"
    /\ pending_commits' = 0
    /\ pc' = "last_exit"
    /\ UNCHANGED <<call, tpc, lock, in_transaction, fatal, dbVars, next, histVars>>

FatalLast == pc = "last_exit" /\ Exit

CallLock ==
    /\ pc = "wait" /\ lock = "free"
    /\ lock' = "main"
    /\ pc' = "sql"
    /\ UNCHANGED <<call, tpc, flagVars, dbVars, next, histVars>>

\* Mutant: begin discards what auto-commit had pending instead of committing it.
CallSql_BeginDiscards ==
    /\ pc = "sql"
    /\ IF call = "commit" THEN Commit ELSE Rollback
    /\ pc' = "reset"
    /\ explicit' = (call = "begin")
    /\ strays' = 0
    /\ UNCHANGED <<call, tpc, lock, flagVars, next, truncated, sigterm>>

CallSql ==
    /\ pc = "sql"
    /\ IF call = "rollback" THEN Rollback ELSE Commit
    /\ pc' = "reset"
    /\ explicit' = (call = "begin")
    /\ strays' = 0
    /\ UNCHANGED <<call, tpc, lock, flagVars, next, truncated, sigterm>>

\* Mutant: one statement is taken off the counter, not all of them.
Reset_One ==
    /\ pc = "reset"
    /\ pending_commits' = pending_commits - 1
    /\ pc' = "end"
    /\ UNCHANGED <<call, tpc, lock, in_transaction, fatal, dbVars, next, histVars>>

\* "pending_commits = 0" at the end of commit() and pqfh_rollback().
Reset ==
    /\ pc = "reset"
    /\ pending_commits' = 0
    /\ pc' = "end"
    /\ UNCHANGED <<call, tpc, lock, in_transaction, fatal, dbVars, next, histVars>>

--------------------------------------------------------------------------------
(* thread_commit                                                           *)

\* Mutant: "fatal" is tested only when there is something to commit.
ThreadWake_Pending ==
    /\ tpc = "sleep"
    /\ tpc' = IF fatal /\ pending_commits > 0 THEN "fatal" ELSE "pending"
    /\ UNCHANGED <<mainVars, lock, flagVars, dbVars, next, histVars>>

\* sleep(1) is over; "if (fatal)".
ThreadWake ==
    /\ tpc = "sleep"
    /\ tpc' = IF fatal THEN "fatal" ELSE "pending"
    /\ UNCHANGED <<mainVars, lock, flagVars, dbVars, next, histVars>>

\* commit() without the mutex and whatever in_transaction is, then exit(-1).
\* The program's thread may be anywhere in an operation meanwhile.
ThreadFatal ==
    /\ tpc = "fatal"
    /\ Commit
    /\ tpc' = "last_reset"
    /\ strays' = IF explicit THEN strays + 1 ELSE strays
    /\ UNCHANGED <<mainVars, lock, flagVars, next, truncated, explicit, sigterm>>

ThreadFatalReset ==
    /\ tpc = "last_reset"
    /\ pending_commits' = 0
    /\ tpc' = "last_exit"
    /\ UNCHANGED <<mainVars, lock, in_transaction, fatal, dbVars, next, histVars>>

ThreadLast == tpc = "last_exit" /\ Exit

\* Mutant: off by one, a single pending update is not enough.
ThreadTestPending_OffByOne ==
    /\ tpc = "pending"
    /\ tpc' = IF pending_commits > 1 THEN "transaction" ELSE "sleep"
    /\ UNCHANGED <<mainVars, lock, flagVars, dbVars, next, histVars>>

ThreadTestPending ==
    /\ tpc = "pending"
    /\ tpc' = IF pending_commits > 0 THEN "transaction" ELSE "sleep"
    /\ UNCHANGED <<mainVars, lock, flagVars, dbVars, next, histVars>>

\* Mutant: the test of in_transaction is dropped.
ThreadTestTransaction_Dropped ==
    /\ tpc = "transaction"
    /\ tpc' = "wait"
    /\ UNCHANGED <<mainVars, lock, flagVars, dbVars, next, histVars>>

ThreadTestTransaction ==
    /\ tpc = "transaction"
    /\ tpc' = IF in_transaction THEN "sleep" ELSE "wait"
    /\ UNCHANGED <<mainVars, lock, flagVars, dbVars, next, histVars>>

\* Mutant: commit() without pthread_mutex_lock.
ThreadLock_Dropped ==
    /\ tpc = "wait"
    /\ tpc' = "sql"
    /\ UNCHANGED <<mainVars, lock, flagVars, dbVars, next, histVars>>

ThreadLock ==
    /\ tpc = "wait" /\ lock = "free"
    /\ lock' = "thread"
    /\ tpc' = "sql"
    /\ UNCHANGED <<mainVars, flagVars, dbVars, next, histVars>>

ThreadCommit ==
    /\ tpc = "sql"
    /\ Commit
    /\ tpc' = "reset"
    /\ strays' = IF explicit THEN strays + 1 ELSE strays
    /\ UNCHANGED <<mainVars, lock, flagVars, next, truncated, explicit, sigterm>>

ThreadReset ==
    /\ tpc = "reset"
    /\ pending_commits' = 0
    /\ tpc' = "unlock"
    /\ UNCHANGED <<mainVars, lock, in_transaction, fatal, dbVars, next, histVars>>

\* Mutant: pthread_mutex_unlock is forgotten.
ThreadUnlock_Dropped ==
    /\ tpc = "unlock"
    /\ tpc' = "sleep"
    /\ UNCHANGED <<mainVars, lock, flagVars, dbVars, next, histVars>>

ThreadUnlock ==
    /\ tpc = "unlock"
    /\ lock' = "free"
    /\ tpc' = "sleep"
    /\ UNCHANGED <<mainVars, flagVars, dbVars, next, histVars>>

--------------------------------------------------------------------------------
\* The steps the program's thread takes inside a call.
InCall ==
    \/ OpRead \/ OpTruncate \/ OpExit \/ OpUpdate \/ OpUnlock \/ Bump
    \/ OpInvalidKey \/ OpInvalidRead \/ OpCreateTable \/ OpCreateCommit \/ OpLeave
    \/ CommandCommit \/ CommandRollback
    \/ CallSql \/ Reset \/ FatalCommit \/ FatalReset \/ FatalLast

MainStep ==
    \/ FatalExit \/ FatalCall \/ OpEnter \/ InCall \/ CallLock
    \/ pqfh_begin_transaction \/ pqfh_commit \/ pqfh_rollback

thread_commit ==
    \/ ThreadWake \/ ThreadFatal \/ ThreadFatalReset \/ ThreadLast
    \/ ThreadTestPending \/ ThreadTestTransaction
    \/ ThreadLock \/ ThreadCommit \/ ThreadReset \/ ThreadUnlock

Next == Connect \/ Kill \/ trataTerm \/ MainStep \/ thread_commit

Spec == Init /\ [][Next]_vars

\* A call the program has entered goes on, and thread_commit is scheduled.
\* Both threads sleep on the mutex and the other one releases it again and
\* again, so neither is passed over for ever.
Fairness ==
    /\ WF_vars(InCall) /\ SF_vars(CallLock)
    /\ WF_vars(thread_commit) /\ SF_vars(ThreadLock)

FairSpec == Spec /\ Fairness

--------------------------------------------------------------------------------
(* Properties                                                              *)

LastPc   == {"fatal", "last_reset", "last_exit", "exited"}
MainPc   == {"idle", "op", "bad", "create", "bump", "end", "wait", "sql", "reset"} \cup LastPc
ThreadPc == {"none", "sleep", "pending", "transaction", "wait", "sql", "reset",
             "unlock"} \cup LastPc

FlagsOK ==
    /\ in_transaction \in BOOLEAN /\ fatal \in BOOLEAN
    /\ aborted \in BOOLEAN
    /\ explicit \in BOOLEAN /\ sigterm \in BOOLEAN

ValuesOK ==
    /\ pc \in MainPc /\ call \in {"none", "begin", "commit", "rollback"}
    /\ tpc \in ThreadPc
    /\ lock \in {"free", "main", "thread"}
    /\ pending_commits \in Nat
    /\ work \subseteq Stmt /\ durable \subseteq Stmt /\ truncated \subseteq Stmt
    /\ next \in 1 .. MaxStmt + 1
    /\ strays \in Nat

\* The values the globals, the two program counters and the session may take.
TypeOK == FlagsOK /\ ValuesOK

\* The steps between pthread_mutex_lock and pthread_mutex_unlock.
MainSection   == {"op", "bad", "create", "bump", "sql", "reset", "end"}
ThreadSection == {"sql", "reset", "unlock"}

\* The program's thread and thread_commit are never both between lock and
\* unlock, so no statement of one falls between COMMIT and the reset of
\* pending_commits of the other (the last commit() after a fatal error, which
\* takes no mutex, is apart).
MutualExclusion == ~ (pc \in MainSection /\ tpc \in ThreadSection)

\* exit(-1) is the next thing thread_commit does.
LastWords == tpc \in {"last_reset", "last_exit"}

\* Whenever the mutex is free, uncommitted updates are visible to
\* thread_commit in pending_commits: no interleaving of pending_commits++
\* and pending_commits = 0 leaves an update nobody will commit.  Not so the
\* TRUNCATE of an OPEN OUTPUT, which is not counted, and an update that meets
\* the last commit() of a process with a fatal error.
PendingCoversWork ==
    lock = "free" /\ pc # "exited" /\ ~LastWords /\ work \ truncated # {}
        => pending_commits > 0

\* thread_commit tests in_transaction before it waits for the mutex, and
\* commit and rollback clear it before they do.  It may therefore commit an
\* explicit transaction behind the program's back: once on a test made
\* before begin, once more on a test made while commit or rollback waits,
\* and never oftener; after a fatal error, when it makes no test, once more.
StrayCommits ==
    /\ strays <= IF fatal THEN 3 ELSE 2
    /\ in_transaction => strays <= IF fatal THEN 2 ELSE 1

\* An executed update leaves the open transaction only into the database,
\* or because a statement failed, the program rolled back or the process ended.
NoSilentLoss ==
    [][\A s \in work \ work' :
        \/ s \in durable' \/ aborted
        \/ pc' = "exited" \/ (pc = "sql" /\ call = "rollback")]_vars

\* pqfh_rollback called by command() waits for the mutex its caller holds.
SelfWait == pc = "wait" /\ lock = "main"

\* Every call into pqfh returns or ends the process, except the ROLLBACK command.
CallReturns == pc # "idle" ~> pc \in {"idle", "exited"} \/ SelfWait

\* Outside an explicit transaction thread_commit takes every update out of
\* the open transaction without any further call of the program, and with it
\* a TRUNCATE before or after it.  A TRUNCATE alone stays, and inside an explicit
\* transaction everything does, not even SIGTERM, whose handler only writes a
\* line, ends it.
AutoCommit ==
    \A s \in Stmt :
        s \in work /\ work \ truncated # {} /\ ~in_transaction
            ~> s \notin work \/ in_transaction \/ SelfWait

\* A process in which valida_numero met a bad key ends, although valida_comando
\* may not have ended it, although nothing may be pending, and although the
\* program may never call again: thread_commit ends it.
FatalEnds == fatal ~> pc = "exited"

--------------------------------------------------------------------------------
(* The inductive invariant: what holds between any two steps.              *)

LockInv ==
    /\ pc \in MainSection => lock = "main"
    /\ tpc \in ThreadSection => lock = "thread"

\* A fatal error is found in an operation, after which no other begins.
FatalInv ==
    /\ pc = "bad" => fatal
    /\ tpc \in {"fatal", "last_reset", "last_exit"} => fatal
    /\ pc \in {"fatal", "last_reset", "last_exit"} => fatal
    /\ fatal => pc \in {"bad", "bump", "end", "idle"} \cup LastPc

PendingInv ==
    /\ work \ truncated # {} => pending_commits > 0 \/ pc = "bump" \/ LastWords
    /\ pc = "reset" => work = {}
    /\ tpc = "reset" => work = {}
    /\ pc \in {"last_reset", "last_exit"} => work = {}
    /\ tpc = "unlock" => pending_commits = 0

\* thread_commit has a commit in hand or will find one to do.
ThreadDue ==
    \/ tpc \in {"transaction", "wait", "sql"}
    \/ tpc \in {"sleep", "pending"} /\ pending_commits > 0

\* One for the commit() that follows a fatal error, once it has been made.
Last == IF fatal /\ tpc \in {"last_reset", "last_exit", "exited"} THEN 1 ELSE 0

StrayInv ==
    /\ ~explicit => strays = 0
    /\ in_transaction => strays <= 1 + Last /\ (tpc \in {"wait", "sql"} => strays = 0)
    /\ explicit /\ ~in_transaction =>
          /\ pc \in {"wait", "sql", "fatal", "exited"}
          /\ strays <= 2 + Last
          /\ ThreadDue => strays <= 1
    /\ pc \in {"wait", "sql"} /\ call = "begin" => in_transaction
    /\ tpc = "none" => pc = "idle" /\ ~explicit

IInv == TypeOK /\ LockInv /\ FatalInv /\ PendingInv /\ StrayInv
================================================================================
