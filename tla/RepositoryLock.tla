---------------------------- MODULE RepositoryLock ----------------------------
(***************************************************************************)
(* _RepositoryLock of scripts/agent_queue_common.py: the directory         *)
(* .agent-runtime/claim-global.lock, made with mkdir and marked with the   *)
(* owner's uuid in owner.json, under which every queue operation runs.     *)
(* One attempt is one "with self._lock()" of one process, which may use    *)
(* the lock again when it is over; a step is one system call on the path,  *)
(* so that attempts interleave between them.                               *)
(***************************************************************************)
EXTENDS Naturals

CONSTANTS
    Attempts,    \* the uses of the lock, each with its uuid
    Timeout,     \* LOCK_TIMEOUT_SECONDS, in ticks
    StaleAfter,  \* LOCK_STALE_SECONDS, in ticks
    Prompt,      \* TRUE: no live process keeps the lock beyond StaleAfter
    MaxFaults,   \* bound: processes that die and writes that fail
    NoDir,       \* the lock directory does not exist
    NoOwner      \* there is no owner.json in it

Directories == [owner : Attempts \cup {NoOwner}, temps : SUBSET Attempts,
                age : 0 .. StaleAfter + 1]

ASSUME LockAssumption ==
    /\ Timeout \in Nat
    /\ StaleAfter \in Nat \ {0}
    /\ Prompt \in BOOLEAN
    /\ MaxFaults \in Nat
    /\ NoDir \notin Directories
    /\ NoOwner \notin Attempts

VARIABLES
    dir,     \* what the path names: a directory, with the age of its mtime
    pc,      \* the next system call of each attempt
    waited,  \* the time since the attempt began, up to Timeout
    faults   \* how many faults happened

vars == <<dir, pc, waited, faults>>

\* __enter__ before and after the mkdir that succeeds, the body, __exit__.
Trying == {"mkdir", "stat", "break", "deadline"}
Entering == {"ensure", "temp", "commit"}
Leaving == {"unlink", "rmdir"}
Holding == Entering \cup {"body"} \cup Leaving
Ended == {"done", "failed", "crashed"}

TypeOK ==
    /\ dir \in Directories \cup {NoDir}
    /\ pc \in [Attempts -> {"idle"} \cup Trying \cup Holding \cup Ended]
    /\ waited \in [Attempts -> 0 .. Timeout]
    /\ faults \in 0 .. MaxFaults

Fresh == [owner |-> NoOwner, temps |-> {}, age |-> 0]

\* Any change of its entries renews the mtime of the directory.
Touched(owner, temps) == [owner |-> owner, temps |-> temps, age |-> 0]

Go(a, from, to) == pc[a] = from /\ pc' = [pc EXCEPT ![a] = to]

IsStale == dir # NoDir /\ dir.age > StaleAfter

Init ==
    /\ dir = NoDir
    /\ pc = [a \in Attempts |-> "idle"]
    /\ waited = [a \in Attempts |-> 0]
    /\ faults = 0

-----------------------------------------------------------------------------
(* __enter__ *)

\* A use of the lock, the first or a later one.  A use that ended left nothing of
\* its own in the directory, so a later one may go by the same name: the uuid of
\* the code is new.
Start(a) ==
    /\ pc[a] \in {"idle", "done", "failed"}
    /\ pc' = [pc EXCEPT ![a] = "mkdir"]
    /\ waited' = [waited EXCEPT ![a] = 0]
    /\ UNCHANGED <<dir, faults>>

\* A slip: mkdir with exist_ok.
MkdirExisting(a) ==
    /\ Go(a, "mkdir", "ensure")
    /\ dir' = IF dir = NoDir THEN Fresh ELSE dir
    /\ UNCHANGED <<waited, faults>>

Mkdir(a) ==
    /\ \/ dir = NoDir /\ dir' = Fresh /\ Go(a, "mkdir", "ensure")
       \/ dir # NoDir /\ UNCHANGED dir /\ Go(a, "mkdir", "stat")
    /\ UNCHANGED <<waited, faults>>

\* atomic_write_json begins with parent.mkdir(exist_ok=True): a directory that
\* was broken in the meantime is made again.
Ensure(a) ==
    /\ Go(a, "ensure", "temp")
    /\ dir' = IF dir = NoDir THEN Fresh ELSE dir
    /\ UNCHANGED <<waited, faults>>

\* The temporary file is made; FileNotFoundError leaves __enter__.
Temp(a) ==
    /\ \/ /\ dir # NoDir /\ Go(a, "temp", "commit")
          /\ dir' = Touched(dir.owner, dir.temps \cup {a})
       \/ dir = NoDir /\ Go(a, "temp", "failed") /\ UNCHANGED dir
    /\ UNCHANGED <<waited, faults>>

HasTemp(a) == dir # NoDir /\ a \in dir.temps

\* os.replace(temporary, owner.json)
Commit(a) ==
    /\ \/ HasTemp(a) /\ Go(a, "commit", "body") /\ dir' = Touched(a, dir.temps \ {a})
       \/ ~ HasTemp(a) /\ Go(a, "commit", "failed") /\ UNCHANGED dir
    /\ UNCHANGED <<waited, faults>>

\* A write that fails leaves __enter__ with the directory in place.
WriteFails(a) ==
    /\ faults < MaxFaults /\ faults' = faults + 1
    /\ \/ Go(a, "temp", "failed") /\ UNCHANGED dir
       \/ Go(a, "commit", "failed") /\
            dir' = IF HasTemp(a) THEN Touched(dir.owner, dir.temps \ {a}) ELSE dir
    /\ UNCHANGED waited

\* Slips: ">=" for ">"; stat tried again where mkdir should be; the deadline
\* tested before the age.
StatEarly(a) ==
    /\ \/ dir = NoDir /\ Go(a, "stat", "mkdir")
       \/ dir # NoDir /\ dir.age >= StaleAfter /\ Go(a, "stat", "break")
       \/ dir # NoDir /\ dir.age < StaleAfter /\ Go(a, "stat", "deadline")
    /\ UNCHANGED <<dir, waited, faults>>

StatAgain(a) ==
    /\ \/ dir = NoDir /\ Go(a, "stat", "stat")
       \/ IsStale /\ Go(a, "stat", "break")
       \/ dir # NoDir /\ ~ IsStale /\ Go(a, "stat", "deadline")
    /\ UNCHANGED <<dir, waited, faults>>

StatAfterDeadline(a) ==
    /\ \/ dir = NoDir /\ Go(a, "stat", "mkdir")
       \/ IsStale /\ waited[a] < Timeout /\ Go(a, "stat", "break")
       \/ dir # NoDir /\ (~ IsStale \/ waited[a] = Timeout) /\ Go(a, "stat", "deadline")
    /\ UNCHANGED <<dir, waited, faults>>

\* The directory is looked at: gone, stale, or someone's.
Stat(a) ==
    /\ \/ dir = NoDir /\ Go(a, "stat", "mkdir")
       \/ IsStale /\ Go(a, "stat", "break")
       \/ dir # NoDir /\ ~ IsStale /\ Go(a, "stat", "deadline")
    /\ UNCHANGED <<dir, waited, faults>>

\* os.replace(path, stale): whatever the path names by now is moved away.
Break(a) ==
    /\ \/ dir # NoDir /\ dir' = NoDir /\ Go(a, "break", "mkdir")
       \/ dir = NoDir /\ UNCHANGED dir /\ Go(a, "break", "deadline")
    /\ UNCHANGED <<waited, faults>>

\* A slip: the sleep is a state of its own that the loop never leaves.
DeadlineSleeping(a) ==
    /\ Go(a, "deadline", "sleep")
    /\ UNCHANGED <<dir, waited, faults>>

Deadline(a) ==
    /\ \/ waited[a] = Timeout /\ Go(a, "deadline", "failed")
       \/ waited[a] < Timeout /\ Go(a, "deadline", "mkdir")
    /\ UNCHANGED <<dir, waited, faults>>

-----------------------------------------------------------------------------
(* __exit__ *)

\* The body is over; owner.json is read.
ReadOwner(a) ==
    /\ \/ dir # NoDir /\ dir.owner = a /\ Go(a, "body", "unlink")
       \/ ~ (dir # NoDir /\ dir.owner = a) /\ Go(a, "body", "done")
    /\ UNCHANGED <<dir, waited, faults>>

\* shutil.rmtree(path, ignore_errors=True): first the files, then the directory.
Unlink(a) ==
    /\ Go(a, "unlink", "rmdir")
    /\ dir' = IF dir = NoDir THEN NoDir ELSE Fresh
    /\ UNCHANGED <<waited, faults>>

IsEmpty == dir # NoDir /\ dir.owner = NoOwner /\ dir.temps = {}

\* A slip: the files are removed and the directory stays.
RmdirForgotten(a) ==
    /\ Go(a, "rmdir", "done")
    /\ UNCHANGED <<dir, waited, faults>>

Rmdir(a) ==
    /\ Go(a, "rmdir", "done")
    /\ dir' = IF IsEmpty THEN NoDir ELSE dir
    /\ UNCHANGED <<waited, faults>>

-----------------------------------------------------------------------------
(* The environment *)

Crash(a) ==
    /\ faults < MaxFaults /\ faults' = faults + 1
    /\ pc[a] \in Trying \cup Holding
    /\ pc' = [pc EXCEPT ![a] = "crashed"]
    /\ UNCHANGED <<dir, waited>>

Least(m, n) == IF m <= n THEN m ELSE n

\* Under Prompt the clock does not take the directory of a live holder past
\* StaleAfter.
Tick ==
    /\ Prompt /\ dir # NoDir /\ dir.age = StaleAfter =>
         \A a \in Attempts : pc[a] \notin Holding
    /\ dir' = IF dir = NoDir THEN NoDir
                             ELSE [dir EXCEPT !.age = Least(@ + 1, StaleAfter + 1)]
    /\ waited' = [a \in Attempts |-> IF pc[a] \in Trying
                                     THEN Least(waited[a] + 1, Timeout) ELSE waited[a]]
    /\ UNCHANGED <<pc, faults>>

\* What attempt a does next, once it has started.
Call(a) ==
    \/ Mkdir(a) \/ Ensure(a) \/ Temp(a) \/ Commit(a)
    \/ Stat(a) \/ Break(a) \/ Deadline(a)
    \/ ReadOwner(a) \/ Unlink(a) \/ Rmdir(a)

Next ==
    \/ Tick
    \/ \E a \in Attempts : Start(a) \/ Call(a) \/ WriteFails(a) \/ Crash(a)

Spec == Init /\ [][Next]_vars

\* The clock moves and a running process gets to its next call.
FairSpec == Spec /\ WF_vars(Tick) /\ \A a \in Attempts : WF_vars(Call(a))

-----------------------------------------------------------------------------
(* Properties *)

\* "All operations that can change ownership are serialized by an atomic
\* repository-local directory lock" (scripts/agent_queue_common.py, docstring):
\* two processes are never inside the lock together.
MutualExclusion ==
    \A a, b \in Attempts : pc[a] = "body" /\ pc[b] = "body" => a = b

\* While no process has died and no write has failed, the lock does exclude.
ExclusiveUntilFault == faults = 0 => MutualExclusion

\* And the process inside finds its own uuid in owner.json when it leaves, so
\* that __exit__ removes the directory and only its owner removes it.
HolderOwnsDirectory ==
    faults = 0 => \A a \in Attempts : pc[a] = "body" => dir # NoDir /\ dir.owner = a

\* Nothing is left behind: while the directory exists someone is entering,
\* inside or leaving, so no one waits for a lock that nobody has.
NoLeftover == faults = 0 /\ dir # NoDir => \E a \in Attempts : pc[a] \in Holding

\* No error but the timeout leaves __enter__: the directory does not vanish
\* between the mkdir and the write of owner.json.
OnlyTimeoutsFail ==
    faults = 0 => \A a \in Attempts : pc[a] = "failed" => waited[a] = Timeout

\* The two "continue" of the retry loop, which skip its deadline: the directory
\* is gone by the time it is looked at, or was stale and is moved away.  Only other
\* users of the lock can keep an attempt in them: every use of the lock ends, in
\* and out or with an error, or else others get in again and again while it tries.
EveryAttemptEnds ==
    \A a \in Attempts :
        \/ pc[a] = "mkdir" ~> pc[a] \in Ended
        \/ []<>(\E b \in Attempts \ {a} : pc[b] = "body")

\* A lock whose owner died does not stop the next process: whoever finds a stale
\* directory when it tries moves it out of the way, however long it has waited.
StaleLockBroken ==
    \A a \in Attempts :
        pc[a] = "mkdir" /\ IsStale ~> ~ IsStale \/ pc[a] = "crashed"

\* What keeps MutualExclusion true while nothing fails: the directory exists
\* exactly while someone holds it, is never stale, and its contents tell how far
\* the holder got.
Contents(a) ==
    CASE pc[a] \in {"ensure", "temp", "rmdir"} -> dir.owner = NoOwner /\ dir.temps = {}
      [] pc[a] = "commit" -> dir.owner = NoOwner /\ dir.temps = {a}
      [] pc[a] \in {"body", "unlink"} -> dir.owner = a /\ dir.temps = {}
      [] OTHER -> TRUE

HeldByOne ==
    /\ NoLeftover
    /\ OnlyTimeoutsFail
    /\ dir # NoDir => dir.age <= StaleAfter
    /\ \A a \in Attempts : pc[a] \notin {"break", "crashed"}
    /\ \A a \in Attempts : pc[a] \in Holding => dir # NoDir /\ Contents(a)
    /\ \A a, b \in Attempts : pc[a] \in Holding /\ pc[b] \in Holding => a = b

LockInv == TypeOK /\ (faults = 0 => HeldByOne)
=============================================================================
