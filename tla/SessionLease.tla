--------------------------- MODULE SessionLease ---------------------------
(***************************************************************************)
(* The writer lease of one session: the file <sessionId>.lock that every   *)
(* process appending to the session's transcripts must own                 *)
(* (packages/sdk/src/store/leases.ts).                                     *)
(*                                                                         *)
(* The file system operations of acquireLease and releaseLease are         *)
(* separate steps, because other processes run between them; the steps of  *)
(* one process never interleave with each other, because every function of *)
(* leases.ts is synchronous.  An element of Procs is one process           *)
(* incarnation: its /proc start ticks name it, its pid may be reused by a  *)
(* later one.  A lease file is identified with the process it names.       *)
(***************************************************************************)
EXTENDS Naturals, FiniteSets

CONSTANTS
  Procs,        \* process incarnations
  Kernels,      \* kernels (boots) whose processes share the store
  Linux,        \* the kernels with a boot id and start ticks to record
  KernelOf,     \* the kernel a process runs on
  PidOf,        \* its pid there
  MaxAttempts,  \* the retry bound of acquireLease (8 in the code)
  Missing,      \* no file at lockPath
  Corrupt       \* a file at lockPath that does not parse as a lease

ASSUME KernelsAssumption == /\ KernelOf \in [Procs -> Kernels]
                            /\ Linux \subseteq Kernels
ASSUME LockStatesAssumption == /\ Missing \notin Procs
                               /\ Corrupt \notin Procs
                               /\ Missing # Corrupt
ASSUME AttemptsAssumption == MaxAttempts \in Nat \ {0}

\* A pid without a boot id is meaningful on one machine only, so at most one
\* kernel without kernel identities (macOS) shares a store.
ASSUME OneLegacyKernel == \A j, k \in Kernels \ Linux : j = k

VARIABLES
  life,      \* whether a process has started, runs, or is gone
  attested,  \* the kernels whose termination the host has confirmed
  lock,      \* the file at lockPath
  pc,        \* where a process is in acquireLease, releaseLease or its writes
  snap,      \* the lock file as the process last read it
  tries,     \* the attempts acquireLease has used up
  newborn,   \* history: the processes started since a process set out to replace
             \* the lock file, which it decides when it has judged the lease
  raced      \* history: a takeover renamed over a lease it would no longer judge
             \* stale, or delete() removed a live process's lease

leaseVars == <<life, attested, lock, pc, snap, tries, newborn, raced>>

Phases == {"idle", "link", "read", "judge", "replace", "write", "unlink"}

LockStates == Procs \cup {Missing, Corrupt}

LeaseTypeOK ==
  /\ life \in [Procs -> {"unborn", "live", "dead"}]
  /\ attested \in SUBSET Kernels
  /\ lock \in LockStates
  /\ pc \in [Procs -> Phases]
  /\ snap \in [Procs -> LockStates]
  /\ tries \in [Procs -> 0..(MaxAttempts - 1)]
  /\ newborn \in [Procs -> SUBSET Procs]
  /\ raced \in BOOLEAN

---------------------------------------------------------------------------
(* What a process can tell about the process a lease names.                *)

\* A probe for kernel identities exists, so the process records its own.
Identified(p) == KernelOf[p] \in Linux

\* isLeaseOwnedByCurrentProcess: with identities the incarnation must match,
\* without them the pid has to do.
Owned(p, h) ==
  /\ PidOf[h] = PidOf[p]
  /\ IF Identified(p) THEN h = p ELSE ~Identified(h)

\* isPidAlive, and on Linux a comparison of the start ticks found at that pid.
PidAlive(p, h) ==
  \E q \in Procs : /\ life[q] = "live"
                   /\ KernelOf[q] = KernelOf[p]
                   /\ PidOf[q] = PidOf[h]
                   /\ Identified(p) => q = h

\* FAULT (used by a mutant): Liveness by pid alone, without the boot and start-tick comparison.
HolderAliveByPid(p, h) ==
  \E q \in Procs : life[q] = "live" /\ KernelOf[q] = KernelOf[p] /\ PidOf[q] = PidOf[h]

\* isLeaseHolderAlive: a lease of another boot, or one without an identity, is
\* only given up for dead on the host's word; macOS never gives up a Linux one.
HolderAlive(p, h) ==
  \/ ~Identified(p) /\ Identified(h)
  \/ /\ Identified(p)
     /\ ~Identified(h) \/ KernelOf[h] # KernelOf[p]
     /\ KernelOf[h] \notin attested
  \/ /\ Identified(p) <=> Identified(h)
     /\ Identified(p) => KernelOf[h] = KernelOf[p]
     /\ PidAlive(p, h)

\* The lease of h is one acquireLease, run by p, would take over.
Stale(p, h) == ~Owned(p, h) /\ ~HolderAlive(p, h)

\* Judged now, the file l would be one p may replace.
Replaceable(p, l) ==
  \/ l \in {Missing, Corrupt}
  \/ l \in Procs /\ Stale(p, l)

\* Some live process other than p owns the lease file.
HeldByOther(p) ==
  lock \in Procs /\ \E q \in Procs \ {p} : life[q] = "live" /\ Owned(q, lock)

---------------------------------------------------------------------------
Idle(p) == life[p] = "live" /\ pc[p] = "idle"

Goto(p, phase) == pc' = [pc EXCEPT ![p] = phase]

\* A call of leases.ts returns, throws or dies, and its locals with it.
Leave(p, phase) ==
  /\ Goto(p, phase)
  /\ snap' = [snap EXCEPT ![p] = Missing]
  /\ tries' = [tries EXCEPT ![p] = 0]
  /\ newborn' = [newborn EXCEPT ![p] = {}]

LeaseInit ==
  /\ life = [p \in Procs |-> "unborn"]
  /\ attested = {}
  /\ lock \in {Missing, Corrupt}
  /\ pc = [p \in Procs |-> "idle"]
  /\ snap = [p \in Procs |-> Missing]
  /\ tries = [p \in Procs |-> 0]
  /\ newborn = [p \in Procs |-> {}]
  /\ raced = FALSE

\* A process starts; its kernel gives it a pid no live process there has.
Birth(p) ==
  /\ life[p] = "unborn"
  /\ KernelOf[p] \notin attested
  /\ \A q \in Procs : life[q] = "live" /\ KernelOf[q] = KernelOf[p] => PidOf[q] # PidOf[p]
  /\ life' = [life EXCEPT ![p] = "live"]
  /\ newborn' = [q \in Procs |-> IF pc[q] = "replace" THEN newborn[q] \cup {p} ELSE newborn[q]]
  /\ UNCHANGED <<attested, lock, pc, snap, tries, raced>>

\* A process dies, at any of its steps.  Whatever it left on disk stays there.
Crash(p) ==
  /\ life[p] = "live"
  /\ life' = [life EXCEPT ![p] = "dead"]
  /\ Leave(p, "idle")
  /\ UNCHANGED <<attested, lock, raced>>

\* The host confirms that a kernel is gone for good (the contract of
\* confirmPreviousBootTerminated and confirmLegacyLeaseTerminated).
Attest(k) ==
  /\ k \notin attested
  /\ \A p \in Procs : KernelOf[p] = k => life[p] # "live"
  /\ attested' = attested \cup {k}
  /\ UNCHANGED <<life, lock, pc, snap, tries, newborn, raced>>

\* acquireLease is entered.
BeginAcquire(p) ==
  /\ Idle(p)
  /\ Goto(p, "link")
  /\ UNCHANGED <<life, attested, lock, snap, tries, newborn, raced>>

\* createExclusive: link(2) exposes the finished lease file, or fails EEXIST.
Link(p) ==
  /\ pc[p] = "link"
  /\ \/ lock = Missing /\ lock' = p /\ Leave(p, "write")
     \/ lock # Missing /\ Goto(p, "read") /\ UNCHANGED <<lock, snap, tries, newborn>>
  /\ UNCHANGED <<life, attested, raced>>

\* FAULT (used by a mutant): A missing file retried without counting the attempt.
ReadLockUncounted(p) ==
  /\ pc[p] = "read"
  /\ snap' = [snap EXCEPT ![p] = lock]
  /\ Goto(p, CASE lock = Missing   -> "link"
               [] lock \in Procs   -> "judge"
               [] Identified(p)    -> "idle"
               [] OTHER            -> "replace")
  /\ UNCHANGED <<life, attested, lock, tries, newborn, raced>>

\* FAULT (used by a mutant): one attempt more than the bound.
ReadLockOneMore(p) ==
  /\ pc[p] = "read"
  /\ lock = Missing
  /\ tries[p] < MaxAttempts
  /\ tries' = [tries EXCEPT ![p] = @ + 1]
  /\ Goto(p, "link")
  /\ UNCHANGED <<life, attested, lock, snap, newborn, raced>>

\* readLeaseSnapshot after EEXIST.  A file that has gone sends the loop back to
\* link(2) while attempts remain; a corrupt one is an error on Linux only.
ReadLock(p) ==
  /\ pc[p] = "read"
  /\ \/ /\ lock = Missing
        /\ tries[p] + 1 < MaxAttempts
        /\ tries' = [tries EXCEPT ![p] = @ + 1]
        /\ Goto(p, "link")
        /\ UNCHANGED <<snap, newborn>>
     \/ /\ \/ lock = Missing /\ tries[p] + 1 = MaxAttempts
           \/ lock = Corrupt /\ Identified(p)
        /\ Leave(p, "idle")
     \/ /\ lock \in Procs \/ (lock = Corrupt /\ ~Identified(p))
        /\ snap' = [snap EXCEPT ![p] = lock]
        /\ Goto(p, IF lock = Corrupt THEN "replace" ELSE "judge")
        /\ UNCHANGED <<tries, newborn>>
  /\ UNCHANGED <<life, attested, lock, raced>>

\* FAULT (used by a mutant): without kernel identities a foreign pid is taken for
\* dead, unprobed.
JudgeUnprobed(p) ==
  /\ pc[p] = "judge"
  /\ \/ Owned(p, snap[p]) /\ Leave(p, "write")
     \/ ~Owned(p, snap[p]) /\ Identified(p) /\ HolderAlive(p, snap[p]) /\ Leave(p, "idle")
     \/ /\ ~Owned(p, snap[p])
        /\ ~Identified(p) \/ ~HolderAlive(p, snap[p])
        /\ Goto(p, "replace")
        /\ UNCHANGED <<snap, tries, newborn>>
  /\ UNCHANGED <<life, attested, lock, raced>>

\* The three outcomes for a readable lease: re-entry, WinterStoreLeaseError, or
\* a takeover.  The lease judged is the one read, not the one now on disk.
Judge(p) ==
  /\ pc[p] = "judge"
  /\ \/ Owned(p, snap[p]) /\ Leave(p, "write")
     \/ ~Owned(p, snap[p]) /\ HolderAlive(p, snap[p]) /\ Leave(p, "idle")
     \/ Stale(p, snap[p]) /\ Goto(p, "replace") /\ UNCHANGED <<snap, tries, newborn>>
  /\ UNCHANGED <<life, attested, lock, raced>>

\* writeLeaseInfoReplacing: rename(2) over whatever is at lockPath by now.
Replace(p) ==
  /\ pc[p] = "replace"
  /\ raced' = (raced \/ ~Replaceable(p, lock))
  /\ lock' = p
  /\ Leave(p, "write")
  /\ UNCHANGED <<life, attested>>

\* The caller's synchronous writes are over.  The lease stays on disk.
Finish(p) ==
  /\ pc[p] = "write"
  /\ Goto(p, "idle")
  /\ UNCHANGED <<life, attested, lock, snap, tries, newborn, raced>>

\* FAULT (used by a mutant): A release that unlinks whatever lease it finds.
BeginReleaseAny(p) ==
  /\ Idle(p)
  /\ lock \in Procs
  /\ Goto(p, "unlink")
  /\ UNCHANGED <<life, attested, lock, snap, tries, newborn, raced>>

\* releaseLease: read the lease and go on only when it is this process's own.
BeginRelease(p) ==
  /\ Idle(p)
  /\ lock \in Procs /\ Owned(p, lock)
  /\ Goto(p, "unlink")
  /\ UNCHANGED <<life, attested, lock, snap, tries, newborn, raced>>

\* The unlink(2) of releaseLease; a file that has gone is no error.
Unlink(p) ==
  /\ pc[p] = "unlink"
  /\ lock' = Missing
  /\ Goto(p, "idle")
  /\ UNCHANGED <<life, attested, snap, tries, newborn, raced>>

\* delete() removes the lock file among the session's others and asks nobody.
DropLock(p) ==
  /\ Idle(p)
  /\ lock # Missing
  /\ raced' = (raced \/ HeldByOther(p))
  /\ lock' = Missing
  /\ UNCHANGED <<life, attested, pc, snap, tries, newborn>>

\* The steps of acquireLease after it is entered.
AcquireStep(p) == Link(p) \/ ReadLock(p) \/ Judge(p) \/ Replace(p)

LeaseNext ==
  \/ \E p \in Procs : \/ Birth(p) \/ Crash(p) \/ BeginAcquire(p) \/ AcquireStep(p)
                      \/ Finish(p) \/ BeginRelease(p) \/ Unlink(p) \/ DropLock(p)
  \/ \E k \in Kernels : Attest(k)

\* A process that runs keeps executing the synchronous call it is in.
LeaseFairness ==
  \A p \in Procs : WF_leaseVars(AcquireStep(p) \/ Finish(p) \/ Unlink(p))

LeaseSpec == LeaseInit /\ [][LeaseNext]_leaseVars

FairLeaseSpec == LeaseSpec /\ LeaseFairness

---------------------------------------------------------------------------
\* Between the return of acquireLease and the last write of the caller no other
\* process is in the same stretch (leases.ts: "one exclusive writer lease per
\* (projectKey, sessionId)"), as long as no live owner's lease was taken away:
\* by a takeover whose check was out of date when it renamed (the limitation
\* acquireLease's own comment records) or by delete().
WriterExclusion ==
  ~raced => \A p, q \in Procs : pc[p] = "write" /\ pc[q] = "write" => p = q

\* A process about to write, or about to unlink in releaseLease, owns the file
\* that is at lockPath at that moment ("must never delete the NEW holder's
\* lease out from under it").
HolderOnDisk ==
  ~raced => \A p \in Procs : pc[p] \in {"write", "unlink"} => lock \in Procs /\ Owned(p, lock)

\* A takeover can only harm a live owner inside its check-then-rename gap: the
\* file changed after p read it, or p has no kernel identities to go by and a
\* process that started after p judged the lease was given the pid it names.  A
\* process that ran when p judged is never the one harmed.
TakeoverHarmsOnlyInGap ==
  [][\A p \in Procs : Replace(p) /\ raced' # raced =>
       \/ lock # snap[p]
       \/ ~Identified(p) /\ \E q \in newborn[p] : life[q] = "live" /\ Owned(q, lock)]_leaseVars

\* Every acquireLease of a process that keeps running ends, with the lease or
\* with an error, however often others create and release the file meanwhile.
AcquireEnds ==
  \A p \in Procs : pc[p] = "link" ~> pc[p] \in {"write", "idle"}

===========================================================================
