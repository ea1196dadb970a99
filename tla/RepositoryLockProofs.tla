------------------------- MODULE RepositoryLockProofs -------------------------
(***************************************************************************)
(* Theorems about the repository lock, for any set of attempts, any        *)
(* timeout and any staleness limit.                                        *)
(***************************************************************************)
EXTENDS RepositoryLock, TLAPS

\* A step of the lock is a step of one attempt or a tick: every file operation
\* keeps the directory, the calls and the clocks within their types.
THEOREM LockTypeCorrect == Spec => []TypeOK
<1> USE LockAssumption
<1>1. Init => TypeOK
  BY DEF Init, TypeOK, Directories
<1>2. TypeOK /\ [Next]_vars => TypeOK'
  <2> SUFFICES ASSUME TypeOK, [Next]_vars
               PROVE  TypeOK'
    OBVIOUS
  <2> USE DEF TypeOK, Directories, Fresh, Touched, Go, Trying, Entering, Leaving,
              Holding, Ended
  <2>1. CASE Tick
    BY <2>1 DEF Tick, Least
  <2>2. ASSUME NEW a \in Attempts, Start(a) \/ Call(a) \/ WriteFails(a) \/ Crash(a)
        PROVE  TypeOK'
    <3>1. CASE Start(a)
      BY <3>1 DEF Start
    <3>2. CASE Mkdir(a)
      BY <3>2 DEF Mkdir
    <3>3. CASE Ensure(a)
      BY <3>3 DEF Ensure
    <3>4. CASE Temp(a)
      BY <3>4 DEF Temp
    <3>5. CASE Commit(a)
      BY <3>5 DEF Commit, HasTemp
    <3>6. CASE Stat(a)
      BY <3>6 DEF Stat
    <3>7. CASE Break(a)
      BY <3>7 DEF Break
    <3>8. CASE Deadline(a)
      BY <3>8 DEF Deadline
    <3>9. CASE ReadOwner(a)
      BY <3>9 DEF ReadOwner
    <3>10. CASE Unlink(a)
      BY <3>10 DEF Unlink
    <3>11. CASE Rmdir(a)
      BY <3>11 DEF Rmdir
    <3>12. CASE WriteFails(a)
      BY <3>12 DEF WriteFails, HasTemp
    <3>13. CASE Crash(a)
      BY <3>13 DEF Crash
    <3> QED
      BY <2>2, <3>1, <3>2, <3>3, <3>4, <3>5, <3>6, <3>7, <3>8, <3>9, <3>10, <3>11,
         <3>12, <3>13 DEF Call
  <2>3. CASE UNCHANGED vars
    BY <2>3 DEF vars
  <2> QED
    BY <2>1, <2>2, <2>3 DEF Next
<1> QED
  BY <1>1, <1>2, PTL DEF Spec

\* A fault is never taken back.
LEMMA FaultsCounted ==
    ASSUME TypeOK, [Next]_vars, faults' = 0
    PROVE  faults = 0
<1> USE LockAssumption DEF TypeOK
<1>1. CASE UNCHANGED vars
  BY <1>1 DEF vars
<1>2. CASE Tick
  BY <1>2 DEF Tick
<1>3. ASSUME NEW a \in Attempts, Start(a) \/ Call(a) \/ WriteFails(a) \/ Crash(a)
      PROVE  faults = 0
  <2>1. CASE Start(a) \/ Call(a)
    BY <2>1 DEF Start, Call, Mkdir, Ensure, Temp, Commit, Stat, Break, Deadline,
                ReadOwner, Unlink, Rmdir
  <2>2. CASE WriteFails(a) \/ Crash(a)
    BY <2>2 DEF WriteFails, Crash
  <2> QED
    BY <1>3, <2>1, <2>2
<1> QED
  BY <1>1, <1>2, <1>3 DEF Next

\* If no live process keeps the lock beyond the staleness limit then, up to the
\* first process that dies or write that fails, the invariant of the lock is kept
\* by every system call: no directory becomes stale, so none is broken, so it
\* changes hands only through the mkdir of one attempt and the rmdir of the same.
THEOREM LockInvariant ==
    ASSUME Prompt
    PROVE  Spec => []LockInv
<1> USE LockAssumption
<1>1. Init => LockInv
  BY DEF Init, LockInv, HeldByOne, TypeOK, NoLeftover, OnlyTimeoutsFail, Directories, Trying,
         Entering, Leaving, Holding, Ended
<1>2. LockInv /\ TypeOK' /\ [Next]_vars => LockInv'
  <2> SUFFICES ASSUME TypeOK, HeldByOne, TypeOK', [Next]_vars, faults = 0, faults' = 0
               PROVE  HeldByOne'
    BY FaultsCounted DEF LockInv
  <2> USE DEF HeldByOne, TypeOK, NoLeftover, OnlyTimeoutsFail, Directories, Fresh,
              Touched, Go, Trying, Entering, Leaving, Holding, Ended, Contents
  <2>1. CASE Tick
    BY <2>1 DEF Tick, Least
  <2>2. ASSUME NEW a \in Attempts, Start(a) \/ Call(a) \/ WriteFails(a) \/ Crash(a)
        PROVE  HeldByOne'
    <3>1. CASE Start(a)
      BY <3>1 DEF Start
    <3>2. CASE Mkdir(a)
      BY <3>2 DEF Mkdir
    <3>3. CASE Ensure(a)
      BY <3>3 DEF Ensure
    <3>4. CASE Temp(a)
      BY <3>4 DEF Temp
    <3>5. CASE Commit(a)
      BY <3>5 DEF Commit, HasTemp
    <3>6. CASE Stat(a)
      BY <3>6 DEF Stat, IsStale
    <3>7. CASE Break(a)
      BY <3>7 DEF Break
    <3>8. CASE Deadline(a)
      BY <3>8 DEF Deadline
    <3>9. CASE ReadOwner(a)
      BY <3>9 DEF ReadOwner
    <3>10. CASE Unlink(a)
      BY <3>10 DEF Unlink
    <3>11. CASE Rmdir(a)
      BY <3>11 DEF Rmdir, IsEmpty
    <3>12. ~ WriteFails(a) /\ ~ Crash(a)
      BY DEF WriteFails, Crash
    <3> QED
      BY <2>2, <3>1, <3>2, <3>3, <3>4, <3>5, <3>6, <3>7, <3>8, <3>9, <3>10, <3>11,
         <3>12 DEF Call
  <2>3. CASE UNCHANGED vars
    BY <2>3 DEF vars
  <2> HIDE DEF HeldByOne
  <2> QED
    BY <2>1, <2>2, <2>3 DEF Next
<1> QED
  BY <1>1, <1>2, LockTypeCorrect, PTL DEF Spec

\* Under the same assumptions the lock excludes: two processes are never inside
\* it together.
THEOREM LockExcludes ==
    ASSUME Prompt
    PROVE  Spec => []ExclusiveUntilFault
<1>1. LockInv => ExclusiveUntilFault
  BY DEF LockInv, HeldByOne, ExclusiveUntilFault, MutualExclusion, Holding
<1> QED
  BY <1>1, LockInvariant, PTL

\* And who is inside it finds its own uuid in owner.json when it leaves.
THEOREM LockOwned ==
    ASSUME Prompt
    PROVE  Spec => []HolderOwnsDirectory
<1>1. LockInv => HolderOwnsDirectory
  BY DEF LockInv, HeldByOne, HolderOwnsDirectory, Holding, Contents
<1> QED
  BY <1>1, LockInvariant, PTL

\* No directory is left behind.
THEOREM LockCleanedUp ==
    ASSUME Prompt
    PROVE  Spec => []NoLeftover
<1>1. LockInv => NoLeftover
  BY DEF LockInv, HeldByOne, NoLeftover
<1> QED
  BY <1>1, LockInvariant, PTL

\* And no error but the timeout leaves __enter__.
THEOREM LockFailsByTimeout ==
    ASSUME Prompt
    PROVE  Spec => []OnlyTimeoutsFail
<1>1. LockInv => OnlyTimeoutsFail
  BY DEF LockInv, HeldByOne, OnlyTimeoutsFail
<1> QED
  BY <1>1, LockInvariant, PTL
=============================================================================
