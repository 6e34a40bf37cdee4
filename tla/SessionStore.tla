--------------------------- MODULE SessionStore ---------------------------
(***************************************************************************)
(* One session of WinterCompatibilitySessionStore                          *)
(* (packages/sdk/src/store/session-store.ts): the transcript               *)
(* <sessionId>.jsonl, the sidecar <sessionId>.summary.json and the writer  *)
(* lease of SessionLease, shared by processes that create, resume, append  *)
(* to, read, rename and delete the session and may die between any two     *)
(* file system operations.                                                 *)
(*                                                                         *)
(* The transcript is a sequence of fragments.  An entry is written as a    *)
(* head and an end, the end carrying the newline, so that a reader or a    *)
(* crash can fall inside a write; "nul" is the padding that truncating a   *)
(* file to more than its length leaves behind.                             *)
(***************************************************************************)
EXTENDS SessionLease, Sequences, FiniteSetsExt

CONSTANTS
  MaxEntries,  \* bound on the entries ever written
  MaxRenames   \* bound on the names ever given

ASSUME StoreBoundsAssumption == MaxEntries \in Nat /\ MaxRenames \in Nat

VARIABLES
  job,      \* the store operation a process executes
  at,       \* where it is in that operation
  item,     \* the entry or the name the operation was given
  opened,   \* the processes with a transcript writer on the session
  log,      \* the .jsonl file
  summary,  \* the .summary.json file
  view,     \* the transcript as load() read it
  prev,     \* the summary as foldSummary or mergeSessionMetadata read it
  entries,  \* entries handed to append so far
  renames,  \* names handed to mergeSessionMetadata so far
  acked,    \* history: the entries whose write and fsync returned
  named,    \* history: the last name whose merge returned (0: none)
  skipped,  \* history: acknowledged entries a crash kept from the summary
  cut,      \* history: a repair truncated a file that had changed since its read
  deleted   \* history: delete() has run

storeVars == <<job, at, item, opened, log, summary, view, prev, entries, renames,
               acked, named, skipped, cut, deleted>>

allVars == <<leaseVars, storeVars>>

Fragments == [part : {"head", "end", "nul"}, id : 0..MaxEntries]

\* What can be at the transcript's path.
Files == Seq(Fragments) \cup {Missing}

Summaries == [count : 0..MaxEntries, name : 0..MaxRenames]

\* A file that is not there is told apart from every content it can have.
ASSUME FilesAssumption == Missing \notin Seq(Fragments) /\ Missing \notin Summaries

StoreTypeOK ==
  /\ job \in [Procs -> {"none", "open", "append", "merge", "read", "delete"}]
  /\ at \in [Procs -> {"out", "lease", "load", "check", "truncate", "head", "end",
                       "fold", "save", "drop", "sweep"}]
  /\ item \in [Procs -> 0..MaxEntries \cup 0..MaxRenames]
  /\ opened \in SUBSET Procs
  /\ log \in Files
  /\ summary \in Summaries \cup {Missing}
  /\ view \in [Procs -> Files]
  /\ prev \in [Procs -> Summaries]
  /\ entries \in 0..MaxEntries /\ renames \in 0..MaxRenames
  /\ acked \in Seq(1..MaxEntries)
  /\ named \in 0..MaxRenames /\ skipped \in 0..MaxEntries
  /\ cut \in BOOLEAN /\ deleted \in BOOLEAN

---------------------------------------------------------------------------
(* parseWithTailRepair                                                     *)

Newlines(f) == {i \in 1..Len(f) : f[i].part = "end"}

\* The newline before position i, 0 when there is none.
NewlineBefore(f, i) == Max({0} \cup {j \in Newlines(f) : j < i})

\* The line ending at newline i parses: it holds one entry and all of it.
Parseable(f, i) ==
  /\ NewlineBefore(f, i) = i - 2
  /\ f[i - 1] = [part |-> "head", id |-> f[i].id]

\* FAULT (used by a mutant): the bytes kept when the newline search starts one
\* position too far left.
KeepOneLess(f) == NewlineBefore(f, Len(f) - 1)

\* The bytes a repair keeps: all before the final line.
Keep(f) == NewlineBefore(f, Len(f))

\* The final line is unterminated, or terminated and unparseable.
Torn(f) == f # <<>> /\ (Len(f) \notin Newlines(f) \/ ~Parseable(f, Len(f)))

\* decodeCompleteLines throws: a line before the final one does not parse.
Undecodable(f) == \E i \in Newlines(f) : i < Len(f) /\ ~Parseable(f, i)

\* The newline that ends the k-th line.
LineEnd(f, k) ==
  CHOOSE i \in Newlines(f) : Cardinality({j \in Newlines(f) : j <= i}) = k

\* The entries load() returns, one for each line.
Decoded(f) ==
  LET kept == IF Torn(f) THEN SubSeq(f, 1, Keep(f)) ELSE f
  IN  [k \in 1..Cardinality(Newlines(kept)) |-> kept[LineEnd(kept, k)].id]

Bytes(f) == IF f = Missing THEN <<>> ELSE f

\* ftruncate: shorter files grow, by zero bytes.
Truncated(f, n) ==
  [i \in 1..n |-> IF i <= Len(f) THEN f[i] ELSE [part |-> "nul", id |-> 0]]

\* hasLiveForeignLeaseHolder
LiveForeignHolder(p) ==
  \/ lock = Corrupt /\ Identified(p)
  \/ lock \in Procs /\ ~Owned(p, lock) /\ HolderAlive(p, lock)

---------------------------------------------------------------------------
NoSummary == [count |-> 0, name |-> 0]

StoreInit ==
  /\ LeaseInit
  /\ job = [p \in Procs |-> "none"]
  /\ at = [p \in Procs |-> "out"]
  /\ item = [p \in Procs |-> 0]
  /\ opened = {}
  /\ log = Missing
  /\ summary = Missing
  /\ view = [p \in Procs |-> Missing]
  /\ prev = [p \in Procs |-> NoSummary]
  /\ entries = 0 /\ renames = 0
  /\ acked = <<>>
  /\ named = 0 /\ skipped = 0
  /\ cut = FALSE /\ deleted = FALSE

Free(p) == Idle(p) /\ at[p] = "out"

At(p, stage) == at' = [at EXCEPT ![p] = stage]

\* The operation of p is over, and with it its locals.
Done(p) ==
  /\ job' = [job EXCEPT ![p] = "none"]
  /\ At(p, "out")
  /\ item' = [item EXCEPT ![p] = 0]
  /\ view' = [view EXCEPT ![p] = Missing]
  /\ prev' = [prev EXCEPT ![p] = NoSummary]

\* The variables a process uses to track its operation.
progress == <<job, at, item, view, prev>>

\* Everything on disk but the lock, and what is known about it.
disk == <<log, summary, acked, named, skipped, cut, deleted>>

ProcessStart(p) == Birth(p) /\ UNCHANGED storeVars

\* A process dies.  Dying between the transcript write and the summary write
\* leaves an acknowledged entry uncounted.
ProcessDeath(p) ==
  /\ Crash(p)
  /\ Done(p)
  /\ opened' = opened \ {p}
  /\ skipped' = IF job[p] = "append" /\ at[p] \in {"fold", "save"} THEN skipped + 1 ELSE skipped
  /\ UNCHANGED <<log, summary, entries, renames, acked, named, cut, deleted>>

HostAttests(k) == Attest(k) /\ UNCHANGED storeVars

\* A fresh session: a new session id, a writer and nothing on disk yet.
Create(p) ==
  /\ Free(p)
  /\ entries = 0 /\ opened = {}
  /\ opened' = {p}
  /\ UNCHANGED <<leaseVars, progress, disk, entries, renames>>

\* append, mergeSessionMetadata and acquireSessionLease open with acquireLease.
Begin(p, operation, given) ==
  /\ Free(p)
  /\ BeginAcquire(p)
  /\ job' = [job EXCEPT ![p] = operation]
  /\ item' = [item EXCEPT ![p] = given]
  /\ At(p, "lease")
  /\ UNCHANGED <<opened, disk, view, prev>>

BeginAppend(p) ==
  /\ p \in opened /\ entries < MaxEntries
  /\ entries' = entries + 1
  /\ Begin(p, "append", entries')
  /\ UNCHANGED renames

BeginMerge(p) ==
  /\ log # Missing /\ renames < MaxRenames
  /\ renames' = renames + 1
  /\ Begin(p, "merge", renames')
  /\ UNCHANGED entries

BeginOpen(p) ==
  /\ p \notin opened /\ log # Missing
  /\ Begin(p, "open", 0)
  /\ UNCHANGED <<entries, renames>>

\* acquireLease takes a step.  A refusal ends the operation; with the lease in
\* hand append writes, a rename reads the summary and resume loads.
Lease(p) ==
  /\ at[p] = "lease"
  /\ AcquireStep(p)
  /\ \/ pc'[p] \notin {"idle", "write"} /\ UNCHANGED progress
     \/ pc'[p] = "idle" /\ Done(p)
     \/ /\ pc'[p] = "write"
        /\ At(p, CASE job[p] = "append" -> "head" [] job[p] = "merge" -> "fold" [] OTHER -> "load")
        /\ UNCHANGED <<job, item, view, prev>>
  /\ UNCHANGED <<opened, disk, entries, renames>>

\* appendLinesAtomically, the bytes up to a point inside the line.
WriteHead(p) ==
  /\ at[p] = "head"
  /\ log' = Append(Bytes(log), [part |-> "head", id |-> item[p]])
  /\ At(p, "end")
  /\ UNCHANGED <<leaseVars, job, item, opened, summary, view, prev, entries, renames,
                 acked, named, skipped, cut, deleted>>

\* The rest of the line, its newline and the fsync: the entry is on disk.
WriteEnd(p) ==
  /\ at[p] = "end"
  /\ log' = Append(Bytes(log), [part |-> "end", id |-> item[p]])
  /\ acked' = Append(acked, item[p])
  /\ At(p, "fold")
  /\ UNCHANGED <<leaseVars, job, item, opened, summary, view, prev, entries, renames,
                 named, skipped, cut, deleted>>

\* foldSummary and mergeSessionMetadata read the summary they will rewrite.
ReadSummary(p) ==
  /\ at[p] = "fold"
  /\ prev' = [prev EXCEPT ![p] = IF summary = Missing THEN NoSummary ELSE summary]
  /\ At(p, "save")
  /\ UNCHANGED <<leaseVars, job, item, opened, disk, view, entries, renames>>

\* FAULT (used by a mutant): a fold that counts the batch twice.
FoldSummaryDoubled(p) ==
  /\ at[p] = "save" /\ job[p] = "append"
  /\ summary' = [prev[p] EXCEPT !.count = @ + 2]
  /\ Finish(p)
  /\ Done(p)
  /\ UNCHANGED <<opened, log, entries, renames, acked, named, skipped, cut, deleted>>

\* writeJsonAtomically of foldSummary: one more entry, every other field kept.
FoldSummary(p) ==
  /\ at[p] = "save" /\ job[p] = "append"
  /\ summary' = [prev[p] EXCEPT !.count = @ + 1]
  /\ Finish(p)
  /\ Done(p)
  /\ UNCHANGED <<opened, log, entries, renames, acked, named, skipped, cut, deleted>>

\* FAULT (used by a mutant): a rename that rewrites the summary from nothing.
MergeMetadataAfresh(p) ==
  /\ at[p] = "save" /\ job[p] = "merge"
  /\ summary' = [NoSummary EXCEPT !.name = item[p]]
  /\ named' = item[p]
  /\ Finish(p)
  /\ Done(p)
  /\ UNCHANGED <<opened, log, entries, renames, acked, skipped, cut, deleted>>

\* writeJsonAtomically of mergeSessionMetadata: a name, every other field kept.
MergeMetadata(p) ==
  /\ at[p] = "save" /\ job[p] = "merge"
  /\ summary' = [prev[p] EXCEPT !.name = item[p]]
  /\ named' = item[p]
  /\ Finish(p)
  /\ Done(p)
  /\ UNCHANGED <<opened, log, entries, renames, acked, skipped, cut, deleted>>

\* acquireSessionLease returns to resolveEngineSession, which reads back.
Claimed(p) ==
  /\ at[p] = "load" /\ pc[p] = "write"
  /\ Finish(p)
  /\ UNCHANGED storeVars

\* getSessionMessages, getSessionInfo and forkSession load without a lease.
BeginRead(p) ==
  /\ Free(p)
  /\ p \notin opened
  /\ log # Missing
  /\ job' = [job EXCEPT ![p] = "read"]
  /\ At(p, "load")
  /\ UNCHANGED <<leaseVars, item, opened, disk, view, prev, entries, renames>>

\* load() is over; a resume that loaded now has its writer.
Loaded(p) ==
  /\ Done(p)
  /\ opened' = IF job[p] = "open" THEN opened \cup {p} ELSE opened

\* The read of load() and the parse.  A missing transcript, or one with a bad
\* line before the last, ends a resume without a writer.
LoadRead(p) ==
  /\ at[p] = "load" /\ pc[p] = "idle"
  /\ \/ (log = Missing \/ Undecodable(Bytes(log))) /\ Done(p) /\ UNCHANGED opened
     \/ log # Missing /\ ~Undecodable(log) /\ ~Torn(log) /\ Loaded(p)
     \/ /\ log # Missing /\ ~Undecodable(log) /\ Torn(log)
        /\ view' = [view EXCEPT ![p] = log]
        /\ At(p, "check")
        /\ UNCHANGED <<job, item, prev, opened>>
  /\ UNCHANGED <<leaseVars, disk, entries, renames>>

\* FAULT (used by a mutant): a repair that does not look at the lease.
LoadCheckNothing(p) ==
  /\ at[p] = "check"
  /\ At(p, "truncate")
  /\ UNCHANGED <<leaseVars, job, item, view, prev, opened, disk, entries, renames>>

\* A torn tail under a live foreign lease is left alone.
LoadCheck(p) ==
  /\ at[p] = "check"
  /\ \/ LiveForeignHolder(p) /\ Loaded(p)
     \/ ~LiveForeignHolder(p) /\ At(p, "truncate") /\ UNCHANGED <<job, item, view, prev, opened>>
  /\ UNCHANGED <<leaseVars, disk, entries, renames>>

\* quarantineTornTail saves the torn bytes, then repairTruncate cuts the file to
\* the length computed from what was read.  A file that has gone is an error.
LoadTruncate(p) ==
  /\ at[p] = "truncate"
  /\ \/ log = Missing /\ Done(p) /\ UNCHANGED <<log, opened>>
     \/ log # Missing /\ log' = Truncated(log, Keep(view[p])) /\ Loaded(p)
  /\ cut' = (cut \/ log # view[p])
  /\ UNCHANGED <<leaseVars, summary, entries, renames, acked, named, skipped, deleted>>

\* releaseSessionLease, the hand-off of a session to another process: the
\* releasing process has no writer on it afterwards.
Release(p) ==
  /\ at[p] = "out"
  /\ BeginRelease(p)
  /\ opened' = opened \ {p}
  /\ UNCHANGED <<progress, disk, entries, renames>>

ReleaseUnlink(p) == Unlink(p) /\ UNCHANGED storeVars

\* delete() removes the transcript, then the lock, then the summary, and takes
\* no lease.
DeleteLog(p) ==
  /\ Free(p)
  /\ log # Missing /\ ~deleted
  /\ log' = Missing
  /\ deleted' = TRUE
  /\ job' = [job EXCEPT ![p] = "delete"]
  /\ At(p, "drop")
  /\ UNCHANGED <<leaseVars, item, opened, summary, view, prev, entries, renames,
                 acked, named, skipped, cut>>

DeleteLock(p) ==
  /\ at[p] = "drop"
  /\ DropLock(p) \/ (lock = Missing /\ UNCHANGED leaseVars)
  /\ At(p, "sweep")
  /\ UNCHANGED <<job, item, opened, disk, view, prev, entries, renames>>

DeleteSummary(p) ==
  /\ at[p] = "sweep"
  /\ summary' = Missing
  /\ Done(p)
  /\ UNCHANGED <<leaseVars, opened, log, entries, renames, acked, named, skipped, cut, deleted>>

StoreNext ==
  \/ \E p \in Procs :
       \/ ProcessStart(p) \/ ProcessDeath(p) \/ Create(p)
       \/ BeginAppend(p) \/ BeginMerge(p) \/ BeginOpen(p)
       \/ Lease(p) \/ WriteHead(p) \/ WriteEnd(p) \/ ReadSummary(p)
       \/ FoldSummary(p) \/ MergeMetadata(p) \/ Claimed(p)
       \/ BeginRead(p) \/ LoadRead(p) \/ LoadCheck(p) \/ LoadTruncate(p)
       \/ Release(p) \/ ReleaseUnlink(p)
       \/ DeleteLog(p) \/ DeleteLock(p) \/ DeleteSummary(p)
  \/ \E k \in Kernels : HostAttests(k)

StoreSpec == StoreInit /\ [][StoreNext]_allVars

---------------------------------------------------------------------------
\* No lease was taken from a live process and nobody deleted the session.
Undisturbed == ~raced /\ ~deleted

\* The transcript reads back as the acknowledged entries, in order and each
\* once, with no unparseable line before the last: appends, crashes inside them
\* and repairs of what they leave never lose, repeat, reorder or glue entries,
\* as long as no repair acted on a file that changed after it was read.
TranscriptIsAcked ==
  Undisturbed /\ ~cut /\ log # Missing => ~Undecodable(log) /\ Decoded(log) = acked

\* The appends whose entry is written and not yet counted.
Folding == {p \in Procs : job[p] = "append" /\ at[p] \in {"fold", "save"}}

\* The read-modify-write cycles of foldSummary and mergeSessionMetadata never
\* lose each other's update: the summary counts each acknowledged entry but the
\* one being folded and those a crash skipped.  The last are more than sessions.ts
\* allows for, which calls the count "accurate by construction": an entry whose
\* writer died between its write and foldSummary is never counted.
SummaryCountsAcked ==
  Undisturbed => Len(acked) = (IF summary = Missing THEN 0 ELSE summary.count)
                              + skipped + Cardinality(Folding)

\* The name of the last completed rename is the name in the summary.
RenameKept ==
  Undisturbed => named = (IF summary = Missing THEN 0 ELSE summary.name)

\* A repair only ever removes bytes of entries that were not acknowledged,
\* unless the file changed between its read and its truncate.
RepairTakesOnlyTorn ==
  [][\A p \in Procs : LoadTruncate(p) /\ Undisturbed /\ ~cut' => Decoded(Bytes(log')) = acked]_allVars

\* "Earlier valid entries are never dropped" (session-store.ts, tail repair).
EarlierEntriesNeverDropped ==
  Undisturbed /\ log # Missing => \A i \in 1..Len(acked) :
    \E j \in Newlines(log) : Parseable(log, j) /\ log[j].id = acked[i]

\* Neither kind of update of the summary is lost to the other.
SummaryKept == SummaryCountsAcked /\ RenameKept
===========================================================================
