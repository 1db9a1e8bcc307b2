------------------------- MODULE PqfhTransactionProofs -------------------------
(***************************************************************************)
(* Proofs about PqfhTransaction for every value of MaxStmt.                *)
(* IInv is inductive: LockInv makes the two critical sections exclusive,   *)
(* FatalInv says where a fatal error can leave the two threads, PendingInv  *)
(* follows the counter through the non-atomic increment and reset,         *)
(* StrayInv follows a test of in_transaction that has gone stale.          *)
(***************************************************************************)
EXTENDS PqfhTransaction, TLAPS

\* exit(-1) keeps the invariant whatever the program and the thread were doing.
ExitStep == Kill \/ FatalExit \/ FatalLast \/ OpExit \/ ThreadLast

\* What an exit does.
LEMMA ExitCases ==
    ASSUME ExitStep
    PROVE  Exit
BY DEF ExitStep, Kill, FatalExit, FatalLast, OpExit, ThreadLast

\* The step relation, one disjunct per action, for the case splits below.
LEMMA NextCases ==
    ASSUME [Next]_vars
    PROVE  \/ Connect \/ ExitStep \/ trataTerm \/ OpEnter \/ OpRead \/ OpTruncate
           \/ OpUpdate \/ OpUnlock \/ Bump \/ OpInvalidKey \/ OpInvalidRead
           \/ OpCreateTable \/ OpCreateCommit \/ OpLeave \/ CommandCommit \/ CommandRollback
           \/ pqfh_begin_transaction \/ pqfh_commit \/ pqfh_rollback
           \/ CallLock \/ CallSql \/ Reset \/ FatalCall \/ FatalCommit \/ FatalReset
           \/ ThreadFatal \/ ThreadFatalReset \/ ThreadWake \/ ThreadTestPending \/ ThreadTestTransaction
           \/ ThreadLock \/ ThreadCommit \/ ThreadReset \/ ThreadUnlock
           \/ UNCHANGED vars
BY DEF Next, MainStep, InCall, thread_commit, ExitStep

\* Before the first call.
LEMMA InitTypeOK == Init => TypeOK
<1>1. Init => FlagsOK
  BY DEF Init, FlagsOK
<1>2. Init => ValuesOK
  BY MaxStmtAssumption DEF Init, ValuesOK, MainPc, ThreadPc, LastPc, Stmt
<1> QED
  BY <1>1, <1>2 DEF TypeOK

\* Every step leaves Booleans in the flags.
LEMMA FlagsStep ==
    ASSUME FlagsOK, [Next]_vars
    PROVE  FlagsOK'
<1> USE DEF FlagsOK, vars, mainVars, flagVars, dbVars, histVars
<1>1. CASE ExitStep
  BY <1>1, ExitCases DEF Exit, Rollback
<1>2. CASE Connect \/ trataTerm \/ OpEnter
  BY <1>2 DEF Connect, trataTerm, OpEnter
<1>3. CASE OpRead \/ OpTruncate \/ OpInvalidRead \/ OpUpdate \/ OpUnlock \/ OpCreateTable
  BY <1>3 DEF OpRead, OpTruncate, OpInvalidRead, OpUpdate, OpUnlock, OpCreateTable, Fail
<1>4. CASE Bump \/ OpInvalidKey \/ OpLeave \/ CommandRollback \/ CallLock \/ Reset
  BY <1>4 DEF Bump, OpInvalidKey, OpLeave, CommandRollback, CallLock, Reset
<1>5. CASE OpCreateCommit \/ CommandCommit \/ CallSql \/ ThreadCommit
  BY <1>5 DEF OpCreateCommit, CommandCommit, CallSql, ThreadCommit, Commit, Rollback
<1>6. CASE pqfh_begin_transaction \/ pqfh_commit \/ pqfh_rollback
  BY <1>6 DEF pqfh_begin_transaction, pqfh_commit, pqfh_rollback
<1>7. CASE ThreadWake \/ ThreadTestPending \/ ThreadTestTransaction \/ ThreadLock
           \/ ThreadReset \/ ThreadUnlock
  BY <1>7 DEF ThreadWake, ThreadTestPending, ThreadTestTransaction, ThreadLock,
              ThreadReset, ThreadUnlock
<1>8. CASE FatalCall \/ FatalCommit \/ FatalReset \/ ThreadFatal \/ ThreadFatalReset
  BY <1>8 DEF FatalCall, FatalCommit, FatalReset, ThreadFatal, ThreadFatalReset, Commit
<1>9. CASE UNCHANGED vars
  BY <1>9
<1> QED
  BY <1>1, <1>2, <1>3, <1>4, <1>5, <1>6, <1>7, <1>8, <1>9, NextCases

\* Every step leaves the other variables in their types.
LEMMA ValuesStep ==
    ASSUME ValuesOK, [Next]_vars
    PROVE  ValuesOK'
<1> USE DEF ValuesOK, MainPc, ThreadPc, LastPc, vars, mainVars, flagVars, dbVars, histVars
<1>1. CASE ExitStep
  BY <1>1, ExitCases DEF Exit, Rollback
<1>2. CASE Connect \/ trataTerm \/ OpEnter
  BY <1>2 DEF Connect, trataTerm, OpEnter
<1>3. CASE OpRead \/ OpInvalidRead \/ OpCreateTable
  BY <1>3 DEF OpRead, OpInvalidRead, OpCreateTable, Fail
<1>4. CASE OpUpdate \/ OpUnlock \/ OpTruncate
  <2>1. next' \in 1 .. MaxStmt + 1
    BY <1>4, MaxStmtAssumption DEF OpUpdate, OpUnlock, OpTruncate, Stmt
  <2>2. work' \subseteq Stmt /\ durable' \subseteq Stmt /\ truncated' \subseteq Stmt
    BY <1>4 DEF OpUpdate, OpUnlock, OpTruncate, Fail
  <2>3. pc' \in {"bump", "end"} /\ UNCHANGED <<call, tpc, lock, pending_commits, strays>>
    BY <1>4 DEF OpUpdate, OpUnlock, OpTruncate
  <2> QED
    BY <2>1, <2>2, <2>3
<1>5. CASE Bump \/ OpInvalidKey \/ OpLeave \/ CommandRollback \/ CallLock \/ Reset
  BY <1>5 DEF Bump, OpInvalidKey, OpLeave, CommandRollback, CallLock, Reset
<1>6. CASE OpCreateCommit \/ CommandCommit \/ CallSql
  BY <1>6 DEF OpCreateCommit, CommandCommit, CallSql, Commit, Rollback
<1>7. CASE pqfh_begin_transaction \/ pqfh_commit \/ pqfh_rollback
  BY <1>7 DEF pqfh_begin_transaction, pqfh_commit, pqfh_rollback
<1>8. CASE ThreadWake \/ ThreadTestPending \/ ThreadTestTransaction \/ ThreadLock
           \/ ThreadReset \/ ThreadUnlock
  BY <1>8 DEF ThreadWake, ThreadTestPending, ThreadTestTransaction, ThreadLock,
              ThreadReset, ThreadUnlock
<1>9. CASE ThreadCommit
  BY <1>9 DEF ThreadCommit, Commit
<1>10. CASE FatalCall \/ FatalReset \/ ThreadFatalReset
  BY <1>10 DEF FatalCall, FatalReset, ThreadFatalReset
<1>11. CASE FatalCommit \/ ThreadFatal
  BY <1>11 DEF FatalCommit, ThreadFatal, Commit
<1>12. CASE UNCHANGED vars
  BY <1>12
<1> QED
  BY <1>1, <1>2, <1>3, <1>4, <1>5, <1>6, <1>7, <1>8, <1>9, <1>10, <1>11, <1>12, NextCases

\* The values the globals, the two program counters and the session may
\* take, for any number of statements.
THEOREM TypeCorrect == Spec => []TypeOK
<1>1. Init => TypeOK
  BY InitTypeOK
<1>2. TypeOK /\ [Next]_vars => TypeOK'
  BY FlagsStep, ValuesStep DEF TypeOK
<1> QED
  BY <1>1, <1>2, PTL DEF Spec

--------------------------------------------------------------------------------
(* The mutex.                                                              *)

\* Every step keeps the mutex with the thread that is where it is held.
LEMMA LockStep ==
    ASSUME LockInv, [Next]_vars
    PROVE  LockInv'
<1> USE DEF LockInv, MainSection, ThreadSection, vars, mainVars, flagVars, dbVars, histVars
<1>1. CASE ExitStep
  BY <1>1, ExitCases DEF Exit
<1>2. CASE Connect \/ trataTerm \/ OpEnter
  BY <1>2 DEF Connect, trataTerm, OpEnter
<1>3. CASE OpRead \/ OpTruncate \/ OpInvalidRead \/ OpUpdate \/ OpUnlock
  BY <1>3 DEF OpRead, OpTruncate, OpInvalidRead, OpUpdate, OpUnlock
<1>4. CASE Bump \/ OpInvalidKey \/ OpLeave \/ CommandCommit \/ CommandRollback
  BY <1>4 DEF Bump, OpInvalidKey, OpLeave, CommandCommit, CommandRollback
<1>5. CASE pqfh_begin_transaction \/ pqfh_commit \/ pqfh_rollback
  BY <1>5 DEF pqfh_begin_transaction, pqfh_commit, pqfh_rollback
<1>6. CASE CallLock \/ CallSql \/ Reset
  BY <1>6 DEF CallLock, CallSql, Reset
<1>7. CASE ThreadWake \/ ThreadTestPending \/ ThreadTestTransaction
  BY <1>7 DEF ThreadWake, ThreadTestPending, ThreadTestTransaction
<1>8. CASE ThreadLock \/ ThreadCommit \/ ThreadReset \/ ThreadUnlock
  BY <1>8 DEF ThreadLock, ThreadCommit, ThreadReset, ThreadUnlock
<1>9. CASE OpCreateTable \/ OpCreateCommit
  BY <1>9 DEF OpCreateTable, OpCreateCommit
<1>10. CASE FatalCall \/ FatalCommit \/ FatalReset \/ ThreadFatal \/ ThreadFatalReset
  BY <1>10 DEF FatalCall, FatalCommit, FatalReset, ThreadFatal, ThreadFatalReset
<1>11. CASE UNCHANGED vars
  BY <1>11
<1> QED
  BY <1>1, <1>2, <1>3, <1>4, <1>5, <1>6, <1>7, <1>8, <1>9, <1>10, <1>11, NextCases

\* The critical sections of the program's thread and of thread_commit are
\* disjoint: MutualExclusion holds in every reachable state.
THEOREM MutexCorrect == Spec => []MutualExclusion
<1>1. Init => LockInv
  BY DEF Init, LockInv, MainSection, ThreadSection
<1>2. LockInv /\ [Next]_vars => LockInv'
  BY LockStep
<1>3. LockInv => MutualExclusion
  BY DEF LockInv, MutualExclusion
<1> QED
  BY <1>1, <1>2, <1>3, PTL DEF Spec

--------------------------------------------------------------------------------
(* After a fatal error.                                                    *)

\* Every step keeps the program's thread in the operation that met the fatal
\* error, or outside of all others.
LEMMA FatalStep ==
    ASSUME FatalInv, [Next]_vars
    PROVE  FatalInv'
<1> USE DEF FatalInv, LastPc, vars, mainVars, flagVars, dbVars, histVars
<1>1. CASE ExitStep
  BY <1>1, ExitCases DEF Exit
<1>2. CASE Connect \/ trataTerm \/ OpEnter
  BY <1>2 DEF Connect, trataTerm, OpEnter
<1>3. CASE OpRead \/ OpTruncate \/ OpInvalidRead \/ OpUpdate \/ OpUnlock
  BY <1>3 DEF OpRead, OpTruncate, OpInvalidRead, OpUpdate, OpUnlock
<1>4. CASE OpCreateTable \/ OpCreateCommit \/ Bump \/ OpInvalidKey \/ OpLeave
  BY <1>4 DEF OpCreateTable, OpCreateCommit, Bump, OpInvalidKey, OpLeave
<1>5. CASE CommandCommit \/ CommandRollback
  BY <1>5 DEF CommandCommit, CommandRollback
<1>6. CASE pqfh_begin_transaction \/ pqfh_commit \/ pqfh_rollback
  BY <1>6 DEF pqfh_begin_transaction, pqfh_commit, pqfh_rollback
<1>7. CASE CallLock \/ CallSql \/ Reset
  BY <1>7 DEF CallLock, CallSql, Reset
<1>8. CASE FatalCall \/ FatalCommit \/ FatalReset \/ ThreadFatal \/ ThreadFatalReset
  BY <1>8 DEF FatalCall, FatalCommit, FatalReset, ThreadFatal, ThreadFatalReset
<1>9. CASE ThreadWake \/ ThreadTestPending \/ ThreadTestTransaction
  BY <1>9 DEF ThreadWake, ThreadTestPending, ThreadTestTransaction
<1>10. CASE ThreadLock \/ ThreadCommit \/ ThreadReset \/ ThreadUnlock
  BY <1>10 DEF ThreadLock, ThreadCommit, ThreadReset, ThreadUnlock
<1>11. CASE UNCHANGED vars
  BY <1>11
<1> QED
  BY <1>1, <1>2, <1>3, <1>4, <1>5, <1>6, <1>7, <1>8, <1>9, <1>10, <1>11, NextCases

--------------------------------------------------------------------------------
(* The counter pending_commits.                                            *)

\* Every step keeps the counter above zero while there is counted work, but for
\* the gaps.
LEMMA PendingStep ==
    ASSUME ValuesOK, LockInv, FatalInv, PendingInv, [Next]_vars
    PROVE  PendingInv'
<1> USE DEF PendingInv, LastWords, vars, mainVars, flagVars, dbVars, histVars
<1>1. CASE ExitStep
  BY <1>1, ExitCases DEF Exit, Rollback
<1>2. CASE Connect \/ trataTerm \/ OpEnter
  BY <1>2 DEF Connect, trataTerm, OpEnter
<1>3. CASE OpRead \/ OpInvalidRead \/ OpCreateTable
  BY <1>3 DEF OpRead, OpInvalidRead, OpCreateTable, Fail
<1>4. CASE OpUpdate \/ OpUnlock
  BY <1>4 DEF OpUpdate, OpUnlock, Fail, LockInv, MainSection, ThreadSection
<1>5. CASE OpTruncate
  <2>1. work' \ truncated' \subseteq work \ truncated
    BY <1>5 DEF OpTruncate
  <2>2. pc = "op" /\ pc' = "end" /\ UNCHANGED <<tpc, pending_commits>>
    BY <1>5 DEF OpTruncate
  <2> QED
    BY <2>1, <2>2 DEF LockInv, MainSection, ThreadSection
<1>6. CASE Bump
  BY <1>6 DEF Bump, ValuesOK, LockInv, MainSection, ThreadSection
<1>7. CASE OpInvalidKey \/ OpLeave \/ CommandRollback \/ CallLock \/ Reset
  BY <1>7 DEF OpInvalidKey, OpLeave, CommandRollback, CallLock, Reset
<1>8. CASE OpCreateCommit \/ CommandCommit \/ CallSql
  BY <1>8 DEF OpCreateCommit, CommandCommit, CallSql, Commit, Rollback
<1>9. CASE pqfh_begin_transaction \/ pqfh_commit \/ pqfh_rollback
  BY <1>9 DEF pqfh_begin_transaction, pqfh_commit, pqfh_rollback
<1>10. CASE FatalCall \/ FatalCommit \/ FatalReset \/ ThreadFatal \/ ThreadFatalReset
  BY <1>10 DEF FatalCall, FatalCommit, FatalReset, ThreadFatal, ThreadFatalReset, Commit
<1>11. CASE ThreadWake \/ ThreadTestPending \/ ThreadTestTransaction \/ ThreadLock
           \/ ThreadReset \/ ThreadUnlock
  BY <1>11 DEF ThreadWake, ThreadTestPending, ThreadTestTransaction, ThreadLock,
              ThreadReset, ThreadUnlock
<1>12. CASE ThreadCommit
  BY <1>12 DEF ThreadCommit, Commit
<1>13. CASE UNCHANGED vars
  BY <1>13
<1> QED
  BY <1>1, <1>2, <1>3, <1>4, <1>5, <1>6, <1>7, <1>8, <1>9, <1>10, <1>11, <1>12, <1>13,
     NextCases

\* With the mutex free, an uncommitted update that was counted always shows in
\* pending_commits, so thread_commit cannot overlook it; a TRUNCATE of OPEN OUTPUT
\* was not counted.
THEOREM PendingCorrect == Spec => []PendingCoversWork
<1> DEFINE Inv == ValuesOK /\ LockInv /\ FatalInv /\ PendingInv
<1>1. Init => Inv
  BY InitTypeOK DEF TypeOK, Init, LockInv, MainSection, ThreadSection, FatalInv, PendingInv
<1>2. Inv /\ [Next]_vars => Inv'
  BY ValuesStep, LockStep, FatalStep, PendingStep
<1>3. Inv => PendingCoversWork
  BY DEF LockInv, MainSection, PendingInv, PendingCoversWork
<1> QED
  BY <1>1, <1>2, <1>3, PTL DEF Spec

--------------------------------------------------------------------------------
(* Explicit transactions.                                                  *)

\* Every step keeps the bound on stray commits.
LEMMA StrayStep ==
    ASSUME ValuesOK, LockInv, FatalInv, PendingInv, StrayInv, [Next]_vars
    PROVE  StrayInv'
<1> USE DEF StrayInv, ThreadDue, Last, vars, mainVars, flagVars, dbVars, histVars
<1>1. CASE ExitStep
  BY <1>1, ExitCases DEF Exit, ValuesOK
<1>2. CASE Connect
  BY <1>2 DEF Connect, ValuesOK
<1>3. CASE trataTerm \/ OpEnter
  BY <1>3 DEF trataTerm, OpEnter, Running
<1>4. CASE OpRead \/ OpTruncate \/ OpInvalidRead \/ OpUpdate \/ OpUnlock \/ OpCreateTable
           \/ OpCreateCommit
  BY <1>4 DEF OpRead, OpTruncate, OpInvalidRead, OpUpdate, OpUnlock, OpCreateTable,
              OpCreateCommit
<1>5. CASE Bump \/ OpLeave \/ CommandCommit
  BY <1>5 DEF Bump, OpLeave, CommandCommit
<1>6. CASE OpInvalidKey
  BY <1>6 DEF OpInvalidKey, FatalInv, ValuesOK, LastPc
<1>7. CASE CommandRollback \/ pqfh_commit \/ pqfh_rollback \/ FatalCall
  BY <1>7 DEF CommandRollback, pqfh_commit, pqfh_rollback, FatalCall, Running, ValuesOK
<1>8. CASE pqfh_begin_transaction
  BY <1>8 DEF pqfh_begin_transaction, Running, ValuesOK
<1>9. CASE CallLock \/ Reset \/ FatalReset \/ ThreadFatalReset
  BY <1>9 DEF CallLock, Reset, FatalReset, ThreadFatalReset, FatalInv
<1>10. CASE CallSql
  <2>1. /\ pc = "sql" /\ pc' = "reset" /\ strays' = 0
        /\ UNCHANGED <<call, tpc, in_transaction, pending_commits, fatal>>
    BY <1>10 DEF CallSql
  <2>2. explicit' <=> call = "begin"
    BY <1>10 DEF CallSql
  <2> QED
    BY <2>1, <2>2
<1>11. CASE FatalCommit
  BY <1>11 DEF FatalCommit
<1>12. CASE ThreadWake \/ ThreadTestPending \/ ThreadTestTransaction \/ ThreadLock
  BY <1>12 DEF ThreadWake, ThreadTestPending, ThreadTestTransaction, ThreadLock
<1>13. CASE ThreadCommit
  BY <1>13 DEF ThreadCommit, ValuesOK
<1>14. CASE ThreadFatal
  BY <1>14 DEF ThreadFatal, ValuesOK, FatalInv
<1>15. CASE ThreadReset \/ ThreadUnlock
  BY <1>15 DEF ThreadReset, ThreadUnlock, PendingInv
<1>16. CASE UNCHANGED vars
  BY <1>16
<1> QED
  BY <1>1, <1>2, <1>3, <1>4, <1>5, <1>6, <1>7, <1>8, <1>9, <1>10, <1>11, <1>12, <1>13,
     <1>14, <1>15, <1>16, NextCases

\* thread_commit commits at most once inside an explicit transaction and at
\* most once more while its end is waiting for the mutex; a fatal error adds one.
THEOREM StrayCorrect == Spec => []StrayCommits
<1> DEFINE Inv == TypeOK /\ LockInv /\ FatalInv /\ PendingInv /\ StrayInv
<1>1. Init => Inv
  <2>1. Init => LockInv /\ FatalInv /\ PendingInv
    BY DEF Init, LockInv, MainSection, ThreadSection, FatalInv, PendingInv
  <2>2. Init => StrayInv
    BY DEF Init, StrayInv
  <2> QED
    BY <2>1, <2>2, InitTypeOK
<1>2. Inv /\ [Next]_vars => Inv'
  BY FlagsStep, ValuesStep, LockStep, FatalStep, PendingStep, StrayStep DEF TypeOK
<1>3. Inv => StrayCommits
  BY DEF TypeOK, ValuesOK, FlagsOK, StrayInv, StrayCommits, Last
<1> QED
  BY <1>1, <1>2, <1>3, PTL DEF Spec

--------------------------------------------------------------------------------
(* What leaves the open transaction.                                       *)

\* No step drops an executed update silently: NoSilentLoss.
THEOREM NoLossCorrect == Spec => NoSilentLoss
<1> DEFINE Kept == \A s \in work \ work' :
                      \/ s \in durable' \/ aborted
                      \/ pc' = "exited" \/ (pc = "sql" /\ call = "rollback")
<1>1. ASSUME [Next]_vars PROVE [Kept]_vars
  <2> USE DEF vars, mainVars, flagVars, dbVars, histVars
  <2>1. CASE ExitStep
    BY <2>1, ExitCases DEF Exit
  <2>2. CASE OpCreateCommit \/ CommandCommit \/ CallSql \/ ThreadCommit \/ ThreadFatal
             \/ FatalCommit
    BY <2>2 DEF OpCreateCommit, CommandCommit, CallSql, ThreadCommit, ThreadFatal,
                FatalCommit, Commit, Rollback
  <2>3. CASE OpRead \/ OpTruncate \/ OpInvalidRead \/ OpUpdate \/ OpUnlock \/ OpCreateTable
    BY <2>3 DEF OpRead, OpTruncate, OpInvalidRead, OpUpdate, OpUnlock, OpCreateTable, Fail
  <2>4. CASE work' = work
    BY <2>4
  <2> QED
    BY <1>1, <2>1, <2>2, <2>3, <2>4, NextCases
       DEF Connect, trataTerm, OpEnter, Bump, OpInvalidKey, OpLeave, CommandRollback,
           pqfh_begin_transaction, pqfh_commit, pqfh_rollback, CallLock, Reset, FatalCall, FatalReset, ThreadFatalReset,
           ThreadWake, ThreadTestPending, ThreadTestTransaction, ThreadLock,
           ThreadReset, ThreadUnlock
<1> QED
  BY <1>1, PTL DEF Spec, NoSilentLoss
================================================================================
