------------------------ MODULE SessionLeaseProofs ------------------------
(***************************************************************************)
(* Proofs about SessionLease, for any set of processes and kernels.        *)
(*                                                                         *)
(* The heart is the pair OwnerUnique and OwnerNotStale: no two live        *)
(* processes recognise one lease as theirs, and none judges stale a lease  *)
(* that a live process recognises as its own.  Everything the protocol     *)
(* guarantees follows from these and from what the system calls do.        *)
(***************************************************************************)
EXTENDS SessionLease, TLAPS

\* A kernel never gives one pid to two live processes.
PidsDistinct ==
  \A p, q \in Procs :
    /\ life[p] = "live" /\ life[q] = "live"
    /\ KernelOf[p] = KernelOf[q] /\ PidOf[p] = PidOf[q]
    => p = q

\* Only live processes are inside a call.
OnlyLiveRun == \A p \in Procs : pc[p] # "idle" => life[p] = "live"

\* No process lives on a kernel whose termination was confirmed.
AttestedGone == \A p \in Procs : KernelOf[p] \in attested => life[p] # "live"

\* A lease being judged parsed, and one this process owns is still on disk.
JudgedIsCurrent ==
  \A p \in Procs : pc[p] = "judge" =>
    /\ snap[p] \in Procs
    /\ ~raced /\ Owned(p, snap[p]) => lock = snap[p]

LeaseInv ==
  /\ LeaseTypeOK
  /\ PidsDistinct
  /\ OnlyLiveRun
  /\ AttestedGone
  /\ JudgedIsCurrent
  /\ HolderOnDisk

---------------------------------------------------------------------------
\* Processes without a kernel identity run on the same kernel.
LEMMA SameLegacyKernel ==
  ASSUME NEW p \in Procs, NEW q \in Procs, ~Identified(p), ~Identified(q)
  PROVE  KernelOf[p] = KernelOf[q]
<1>1. KernelOf[p] \in Kernels \ Linux /\ KernelOf[q] \in Kernels \ Linux
  BY KernelsAssumption DEF Identified
<1> QED BY <1>1, OneLegacyKernel

\* No two live processes recognise the same lease as their own.
LEMMA OwnerUnique ==
  ASSUME PidsDistinct,
         NEW h \in Procs, NEW p \in Procs, NEW q \in Procs,
         life[p] = "live", life[q] = "live", Owned(p, h), Owned(q, h)
  PROVE  p = q
<1>1. CASE Identified(p) \/ Identified(q)
  BY <1>1 DEF Owned
<1>2. CASE ~Identified(p) /\ ~Identified(q)
  <2>1. KernelOf[p] = KernelOf[q]
    BY <1>2, SameLegacyKernel
  <2> QED BY <2>1, <1>2 DEF PidsDistinct, Owned
<1> QED BY <1>1, <1>2

\* Whoever judges it, the lease of a live process is never found stale.
LEMMA OwnerNotStale ==
  ASSUME AttestedGone,
         NEW h \in Procs, NEW p \in Procs, NEW q \in Procs,
         life[q] = "live", Owned(q, h)
  PROVE  ~Stale(p, h)
<1>1. CASE Identified(q)
  BY <1>1, KernelsAssumption
  DEF Stale, HolderAlive, PidAlive, AttestedGone, Owned, Identified
<1>2. CASE ~Identified(q)
  <2>1. ~Identified(h) /\ KernelOf[h] = KernelOf[q]
    BY <1>2, SameLegacyKernel DEF Owned
  <2>2. CASE Identified(p)
    BY <2>1, <2>2, <1>2 DEF Stale, HolderAlive, AttestedGone
  <2>3. CASE ~Identified(p)
    <3>1. KernelOf[q] = KernelOf[p]
      BY <1>2, <2>3, SameLegacyKernel
    <3> QED BY <3>1, <2>1, <2>3, <1>2 DEF Stale, HolderAlive, PidAlive, Owned
  <2> QED BY <2>2, <2>3
<1> QED BY <1>1, <1>2

\* The initial states satisfy the inductive invariant.
LEMMA InitInv == LeaseInit => LeaseInv
<1> SUFFICES ASSUME LeaseInit PROVE LeaseInv
  OBVIOUS
<1>1. LeaseTypeOK
  <2>1. raced \in BOOLEAN
    BY Zenon DEF LeaseInit
  <2>2. tries \in [Procs -> 0..(MaxAttempts - 1)]
    BY AttemptsAssumption DEF LeaseInit
  <2>4. newborn \in [Procs -> SUBSET Procs]
    BY DEF LeaseInit
  <2>3. /\ lock \in LockStates
        /\ snap \in [Procs -> LockStates]
        /\ pc \in [Procs -> Phases]
    BY DEF LeaseInit, LockStates, Phases
  <2> QED BY <2>1, <2>2, <2>3, <2>4 DEF LeaseInit, LeaseTypeOK
<1>2. PidsDistinct /\ OnlyLiveRun /\ AttestedGone
  BY DEF LeaseInit, PidsDistinct, OnlyLiveRun, AttestedGone
<1>3. JudgedIsCurrent /\ HolderOnDisk
  BY DEF LeaseInit, JudgedIsCurrent, HolderOnDisk
<1> QED BY <1>1, <1>2, <1>3 DEF LeaseInv

\* Every step preserves the types.
LEMMA TypeStep == LeaseTypeOK /\ [LeaseNext]_leaseVars => LeaseTypeOK'
<1> SUFFICES ASSUME LeaseTypeOK, [LeaseNext]_leaseVars PROVE LeaseTypeOK'
  OBVIOUS
<1> USE AttemptsAssumption DEF LeaseTypeOK, LockStates, Phases, Goto, Leave
<1>1. ASSUME NEW p \in Procs, Birth(p) PROVE LeaseTypeOK'
  BY <1>1 DEF Birth
<1>2. ASSUME NEW p \in Procs, Crash(p) PROVE LeaseTypeOK'
  BY <1>2 DEF Crash
<1>3. ASSUME NEW p \in Procs, BeginAcquire(p) PROVE LeaseTypeOK'
  BY <1>3 DEF BeginAcquire
<1>4. ASSUME NEW p \in Procs, Link(p) PROVE LeaseTypeOK'
  BY <1>4 DEF Link
<1>5. ASSUME NEW p \in Procs, ReadLock(p) PROVE LeaseTypeOK'
  BY <1>5 DEF ReadLock
<1>6. ASSUME NEW p \in Procs, Judge(p) PROVE LeaseTypeOK'
  BY <1>6 DEF Judge
<1>7. ASSUME NEW p \in Procs, Replace(p) PROVE LeaseTypeOK'
  BY <1>7 DEF Replace
<1>8. ASSUME NEW p \in Procs, Finish(p) PROVE LeaseTypeOK'
  BY <1>8 DEF Finish
<1>9. ASSUME NEW p \in Procs, BeginRelease(p) PROVE LeaseTypeOK'
  BY <1>9 DEF BeginRelease
<1>10. ASSUME NEW p \in Procs, Unlink(p) PROVE LeaseTypeOK'
  BY <1>10 DEF Unlink
<1>11. ASSUME NEW p \in Procs, DropLock(p) PROVE LeaseTypeOK'
  BY <1>11 DEF DropLock
<1>12. ASSUME NEW k \in Kernels, Attest(k) PROVE LeaseTypeOK'
  BY <1>12 DEF Attest
<1>13. CASE UNCHANGED leaseVars
  BY <1>13 DEF leaseVars
<1> QED
  BY <1>1, <1>2, <1>3, <1>4, <1>5, <1>6, <1>7, <1>8, <1>9, <1>10, <1>11, <1>12, <1>13
  DEF LeaseNext, AcquireStep

\* Processes stay distinct, and calls stay with live processes.
LEMMA LifeStep ==
  LeaseInv /\ [LeaseNext]_leaseVars => PidsDistinct' /\ OnlyLiveRun' /\ AttestedGone'
<1> SUFFICES ASSUME LeaseInv, [LeaseNext]_leaseVars
             PROVE  PidsDistinct' /\ OnlyLiveRun' /\ AttestedGone'
  OBVIOUS
<1> USE DEF LeaseInv, LeaseTypeOK, PidsDistinct, OnlyLiveRun, AttestedGone
<1>1. ASSUME NEW p \in Procs, Birth(p)
      PROVE  PidsDistinct' /\ OnlyLiveRun' /\ AttestedGone'
  BY <1>1 DEF Birth
<1>2. ASSUME NEW p \in Procs, Crash(p)
      PROVE  PidsDistinct' /\ OnlyLiveRun' /\ AttestedGone'
  BY <1>2 DEF Crash, Leave, Goto
<1>3. ASSUME NEW k \in Kernels, Attest(k)
      PROVE  PidsDistinct' /\ OnlyLiveRun' /\ AttestedGone'
  BY <1>3 DEF Attest
<1>4. ASSUME NEW p \in Procs,
             \/ BeginAcquire(p) \/ AcquireStep(p) \/ Finish(p)
             \/ BeginRelease(p) \/ Unlink(p) \/ DropLock(p)
      PROVE  PidsDistinct' /\ OnlyLiveRun' /\ AttestedGone'
  <2>1. UNCHANGED <<life, attested>>
    BY <1>4 DEF BeginAcquire, AcquireStep, Link, ReadLock, Judge, Replace, Finish,
                BeginRelease, Unlink, DropLock
  <2>2. \A q \in Procs : q # p => pc'[q] = pc[q]
    BY <1>4 DEF BeginAcquire, AcquireStep, Link, ReadLock, Judge, Replace, Finish,
                BeginRelease, Unlink, DropLock, Leave, Goto
  <2>3. life[p] = "live"
    BY <1>4 DEF BeginAcquire, AcquireStep, Link, ReadLock, Judge, Replace, Finish,
                BeginRelease, Unlink, DropLock, Idle
  <2> QED BY <2>1, <2>2, <2>3
<1>5. CASE UNCHANGED leaseVars
  BY <1>5 DEF leaseVars
<1> QED BY <1>1, <1>2, <1>3, <1>4, <1>5 DEF LeaseNext

\* A process's claim on the lock file: it is about to write or unlink under it,
\* or it has just found the lease to be its own.
Claims(p) == \/ pc[p] \in {"write", "unlink"}
             \/ pc[p] = "judge" /\ Owned(p, snap[p])

\* While no lease was taken away from a live process, a step of one process
\* never moves the lock file from under another's claim.
LEMMA ClaimKept ==
  ASSUME LeaseInv, NEW p \in Procs, NEW q \in Procs, p # q,
         \/ Birth(p) \/ Crash(p) \/ BeginAcquire(p) \/ AcquireStep(p)
         \/ Finish(p) \/ BeginRelease(p) \/ Unlink(p) \/ DropLock(p),
         ~raced', Claims(q)
  PROVE  ~raced /\ lock \in Procs /\ Owned(q, lock) /\ lock' = lock
<1>1. ~raced
  BY DEF Birth, Crash, BeginAcquire, AcquireStep, Link, ReadLock, Judge, Replace, Finish,
         BeginRelease, Unlink, DropLock
<1>2. lock \in Procs /\ Owned(q, lock) /\ life[q] = "live"
  BY <1>1 DEF LeaseInv, HolderOnDisk, JudgedIsCurrent, OnlyLiveRun, Claims
<1>3. lock # Missing /\ lock # Corrupt
  BY <1>2, LockStatesAssumption
<1>4. ~Replace(p)
  <2>1. ~Stale(p, lock)
    BY <1>2, OwnerNotStale DEF LeaseInv
  <2> QED BY <2>1, <1>3 DEF Replace, Replaceable
<1>5. ~Unlink(p)
  <2> SUFFICES ASSUME Unlink(p) PROVE FALSE
    OBVIOUS
  <2>1. Owned(p, lock) /\ life[p] = "live"
    BY <1>1 DEF Unlink, LeaseInv, HolderOnDisk, OnlyLiveRun
  <2> QED BY <2>1, <1>2, OwnerUnique DEF LeaseInv
<1>6. ~DropLock(p)
  BY <1>2 DEF DropLock, HeldByOther
<1> QED
  BY <1>1, <1>2, <1>3, <1>4, <1>5, <1>6
  DEF Birth, Crash, BeginAcquire, AcquireStep, Link, ReadLock, Judge, Finish, BeginRelease

\* A process enters its own claims only with the lock file in hand.
LEMMA ClaimMade ==
  ASSUME LeaseInv, NEW p \in Procs,
         \/ Birth(p) \/ Crash(p) \/ BeginAcquire(p) \/ AcquireStep(p)
         \/ Finish(p) \/ BeginRelease(p) \/ Unlink(p) \/ DropLock(p),
         ~raced', Claims(p)'
  PROVE  /\ lock' \in Procs /\ Owned(p, lock')
         /\ pc'[p] = "judge" => lock' = snap'[p]
<1> USE DEF LeaseInv, LeaseTypeOK
<1>1. Owned(p, p)
  BY DEF Owned
<1>2. CASE Link(p) \/ Replace(p)
  BY <1>1, <1>2, LockStatesAssumption DEF Link, Replace, Leave, Goto, Claims
<1>3. CASE ReadLock(p)
  BY <1>3 DEF ReadLock, Leave, Goto, Claims
<1>4. CASE Judge(p)
  BY <1>4 DEF Judge, Leave, Goto, Claims, JudgedIsCurrent
<1>5. CASE BeginRelease(p)
  BY <1>5 DEF BeginRelease, Goto, Claims
<1>6. CASE DropLock(p) \/ Birth(p)
  BY <1>6 DEF DropLock, Birth, Claims, Idle, OnlyLiveRun
<1>7. CASE Crash(p) \/ BeginAcquire(p) \/ Finish(p) \/ Unlink(p)
  BY <1>7 DEF Crash, BeginAcquire, Finish, Unlink, Leave, Goto, Claims
<1> QED BY <1>2, <1>3, <1>4, <1>5, <1>6, <1>7 DEF AcquireStep

\* Both claims on the lock file survive every step.
LEMMA ClaimStep == LeaseInv /\ [LeaseNext]_leaseVars => JudgedIsCurrent' /\ HolderOnDisk'
<1> SUFFICES ASSUME LeaseInv, [LeaseNext]_leaseVars
             PROVE  JudgedIsCurrent' /\ HolderOnDisk'
  OBVIOUS
<1>1. ASSUME NEW p \in Procs,
             \/ Birth(p) \/ Crash(p) \/ BeginAcquire(p) \/ AcquireStep(p)
             \/ Finish(p) \/ BeginRelease(p) \/ Unlink(p) \/ DropLock(p)
      PROVE  JudgedIsCurrent' /\ HolderOnDisk'
  <2>1. \A q \in Procs : q # p => pc'[q] = pc[q] /\ snap'[q] = snap[q]
    BY <1>1 DEF Birth, Crash, BeginAcquire, AcquireStep, Link, ReadLock, Judge, Replace,
                Finish, BeginRelease, Unlink, DropLock, Leave, Goto, LeaseInv, LeaseTypeOK
  <2>2. \A q \in Procs : pc'[q] = "judge" => snap'[q] \in Procs
    BY <2>1, <1>1 DEF Birth, Crash, BeginAcquire, AcquireStep, Link, ReadLock, Judge, Replace,
                Finish, BeginRelease, Unlink, DropLock, Leave, Goto, LeaseInv, LeaseTypeOK,
                JudgedIsCurrent, OnlyLiveRun, Idle
  <2>3. ASSUME NEW q \in Procs, ~raced', Claims(q)'
        PROVE  /\ lock' \in Procs /\ Owned(q, lock')
               /\ pc'[q] = "judge" => lock' = snap'[q]
    <3>1. CASE q = p
      BY <1>1, <2>3, <3>1, ClaimMade
    <3>2. CASE q # p
      <4>1. Claims(q)
        BY <2>1, <2>3, <3>2 DEF Claims, Owned
      <4>2. ~raced /\ lock \in Procs /\ Owned(q, lock) /\ lock' = lock
        BY <1>1, <2>3, <3>2, <4>1, ClaimKept
      <4> QED BY <4>1, <4>2, <2>1, <3>2 DEF Claims, LeaseInv, JudgedIsCurrent
    <3> QED BY <3>1, <3>2
  <2> QED BY <2>2, <2>3 DEF JudgedIsCurrent, HolderOnDisk, Claims
<1>2. ASSUME NEW k \in Kernels, Attest(k)
      PROVE  JudgedIsCurrent' /\ HolderOnDisk'
  BY <1>2 DEF Attest, LeaseInv, JudgedIsCurrent, HolderOnDisk, Owned
<1>3. CASE UNCHANGED leaseVars
  BY <1>3 DEF leaseVars, LeaseInv, JudgedIsCurrent, HolderOnDisk, Owned
<1> QED BY <1>1, <1>2, <1>3 DEF LeaseNext

\* The invariant holds of every reachable state.
THEOREM LeaseInvariant == LeaseSpec => []LeaseInv
<1>1. LeaseInv /\ [LeaseNext]_leaseVars => LeaseInv'
  BY TypeStep, LifeStep, ClaimStep DEF LeaseInv
<1> QED BY <1>1, InitInv, PTL DEF LeaseSpec

\* Every variable keeps its type.
THEOREM LeaseTypeCorrect == LeaseSpec => []LeaseTypeOK
<1>1. LeaseInv => LeaseTypeOK
  BY DEF LeaseInv
<1> QED BY <1>1, LeaseInvariant, PTL

\* acquireLease and releaseLease keep their promise: whoever is about to write
\* or to unlink owns the file that is at lockPath at that moment.
THEOREM HolderOnDiskAlways == LeaseSpec => []HolderOnDisk
<1>1. LeaseInv => HolderOnDisk
  BY DEF LeaseInv
<1> QED BY <1>1, LeaseInvariant, PTL

\* One writer at a time, whatever the number of processes, kernels and reused
\* pids, as long as no takeover raced and delete() took no live lease away.
THEOREM WritersExclude == LeaseSpec => []WriterExclusion
<1>1. LeaseInv => WriterExclusion
  BY OwnerUnique DEF LeaseInv, HolderOnDisk, OnlyLiveRun, WriterExclusion
<1> QED BY <1>1, LeaseInvariant, PTL

---------------------------------------------------------------------------
(* The check-then-rename gap of a takeover.                                *)

\* A lease names a process that has started.
LeasesNameBorn ==
  /\ lock \in Procs => life[lock] # "unborn"
  /\ \A p \in Procs : snap[p] \in Procs => life[snap[p]] # "unborn"

\* With kernel identities a lease judged stale stays stale.  Without them only
\* leases without identities are ever taken over, and whoever has the pid that
\* the judged lease names was not there when it was judged.
TakeoverJudgement ==
  \A p \in Procs : pc[p] = "replace" =>
    /\ snap[p] \in Procs \cup {Corrupt}
    /\ snap[p] \in Procs => /\ ~Owned(p, snap[p])
                            /\ Identified(p) => ~HolderAlive(p, snap[p])
                            /\ ~Identified(p) => ~Identified(snap[p])
                            /\ ~Identified(p) => \A q \in Procs :
                                 /\ life[q] = "live" /\ KernelOf[q] = KernelOf[p]
                                 /\ PidOf[q] = PidOf[snap[p]]
                                 => q \in newborn[p]

GapInv == LeaseInv /\ LeasesNameBorn /\ TakeoverJudgement

\* A lease a Linux process has found stale can never come back to life.
LEMMA StaleForGood ==
  ASSUME LeaseInv, [LeaseNext]_leaseVars,
         NEW p \in Procs, NEW h \in Procs, Identified(p),
         life[h] # "unborn", ~HolderAlive(p, h)
  PROVE  ~HolderAlive(p, h)'
<1>1. attested \subseteq attested'
  BY DEF LeaseNext, leaseVars, Birth, Crash, Attest, BeginAcquire, AcquireStep, Link, ReadLock,
         Judge, Replace, Finish, BeginRelease, Unlink, DropLock
<1>2. life'[h] = "live" => life[h] = "live"
  BY DEF LeaseNext, leaseVars, Birth, Crash, Attest, BeginAcquire, AcquireStep, Link, ReadLock,
         Judge, Replace, Finish, BeginRelease, Unlink, DropLock, LeaseInv, LeaseTypeOK
<1> QED BY <1>1, <1>2 DEF HolderAlive, PidAlive, Identified

\* A started process never becomes unstarted.
LEMMA StaysBorn ==
  ASSUME LeaseInv, [LeaseNext]_leaseVars, NEW h \in Procs, life[h] # "unborn"
  PROVE  life'[h] # "unborn"
BY DEF LeaseNext, leaseVars, Birth, Crash, Attest, BeginAcquire, AcquireStep, Link, ReadLock,
       Judge, Replace, Finish, BeginRelease, Unlink, DropLock, LeaseInv, LeaseTypeOK

\* Every lease on disk or in hand was read, or was written by its live owner.
LEMMA BornStep == GapInv /\ [LeaseNext]_leaseVars => LeasesNameBorn'
<1> SUFFICES ASSUME GapInv, [LeaseNext]_leaseVars PROVE LeasesNameBorn'
  OBVIOUS
<1>1. \/ lock' \in {lock, Missing}
      \/ lock' \in Procs /\ life[lock'] = "live"
  BY DEF LeaseNext, leaseVars, Birth, Crash, Attest, BeginAcquire, AcquireStep, Link, ReadLock,
         Judge, Replace, Finish, BeginRelease, Unlink, DropLock, GapInv, LeaseInv, OnlyLiveRun
<1>2. \A p \in Procs : snap'[p] \in {snap[p], lock, Missing}
  BY DEF LeaseNext, leaseVars, Birth, Crash, Attest, BeginAcquire, AcquireStep, Link, ReadLock,
         Judge, Replace, Finish, BeginRelease, Unlink, DropLock, Leave, Goto,
         GapInv, LeaseInv, LeaseTypeOK
<1> QED
  BY <1>1, <1>2, StaysBorn, LockStatesAssumption DEF GapInv, LeasesNameBorn

\* A takeover under way keeps note of every process that starts meanwhile.
LEMMA BirthNoted ==
  ASSUME LeaseInv, [LeaseNext]_leaseVars, NEW p \in Procs,
         pc[p] = "replace", pc'[p] = "replace"
  PROVE  /\ newborn[p] \subseteq newborn'[p]
         /\ \A q \in Procs : life[q] # "live" /\ life'[q] = "live" => q \in newborn'[p]
<1> USE DEF LeaseInv, LeaseTypeOK
<1>1. ASSUME NEW q \in Procs, Birth(q)
      PROVE  /\ newborn[p] \subseteq newborn'[p]
             /\ \A r \in Procs : life[r] # "live" /\ life'[r] = "live" => r \in newborn'[p]
  BY <1>1 DEF Birth
<1>2. ASSUME NEW q \in Procs,
             \/ Crash(q) \/ BeginAcquire(q) \/ AcquireStep(q)
             \/ Finish(q) \/ BeginRelease(q) \/ Unlink(q) \/ DropLock(q)
      PROVE  /\ newborn'[p] = newborn[p]
             /\ \A r \in Procs : life'[r] = "live" => life[r] = "live"
  BY <1>2 DEF Crash, BeginAcquire, AcquireStep, Link, ReadLock, Judge, Replace, Finish,
              BeginRelease, Unlink, DropLock, Leave, Goto
<1>3. ASSUME NEW k \in Kernels, Attest(k)
      PROVE  UNCHANGED <<newborn, life>>
  BY <1>3 DEF Attest
<1>4. UNCHANGED leaseVars => UNCHANGED <<newborn, life>>
  BY DEF leaseVars
<1> QED BY <1>1, <1>2, <1>3, <1>4 DEF LeaseNext

\* A takeover under way keeps its judgement, except where a pid is all it knows.
LEMMA JudgementStep == GapInv /\ [LeaseNext]_leaseVars => TakeoverJudgement'
<1> SUFFICES ASSUME GapInv, [LeaseNext]_leaseVars, NEW p \in Procs, pc'[p] = "replace"
             PROVE  /\ snap'[p] \in Procs \cup {Corrupt}
                    /\ snap'[p] \in Procs =>
                         /\ ~Owned(p, snap'[p])
                         /\ Identified(p) => ~HolderAlive(p, snap[p])'
                         /\ ~Identified(p) => ~Identified(snap'[p])
                         /\ ~Identified(p) => \A q \in Procs :
                              /\ life'[q] = "live" /\ KernelOf[q] = KernelOf[p]
                              /\ PidOf[q] = PidOf[snap'[p]]
                              => q \in newborn'[p]
  BY DEF TakeoverJudgement, Owned, Identified
<1>1. \/ pc[p] = "replace" /\ snap'[p] = snap[p]
      \/ pc[p] = "judge" /\ snap'[p] = snap[p] /\ Stale(p, snap[p]) /\ snap[p] \in Procs
      \/ snap'[p] = Corrupt
  BY DEF LeaseNext, leaseVars, Birth, Crash, Attest, BeginAcquire, AcquireStep, Link, ReadLock,
         Judge, Replace, Finish, BeginRelease, Unlink, DropLock, Leave, Goto, GapInv, LeaseInv,
         LeaseTypeOK, JudgedIsCurrent
<1>2. ASSUME snap[p] \in Procs, snap'[p] = snap[p], Identified(p), ~HolderAlive(p, snap[p])
      PROVE  ~HolderAlive(p, snap[p])'
  <2>1. ~HolderAlive(p, snap[p])' <=> \A h \in Procs : h = snap[p] => ~HolderAlive(p, h)'
    BY <1>2
  <2> QED BY <2>1, <1>2, StaleForGood DEF GapInv, LeasesNameBorn
<1>3. ASSUME snap'[p] \in Procs, ~Identified(p), NEW q \in Procs,
             life'[q] = "live", KernelOf[q] = KernelOf[p], PidOf[q] = PidOf[snap'[p]]
      PROVE  q \in newborn'[p]
  <2>1. CASE pc[p] = "replace" /\ snap'[p] = snap[p]
    <3>1. life[q] # "live" => q \in newborn'[p]
      BY <1>3, <2>1, BirthNoted DEF GapInv
    <3>2. life[q] = "live" => q \in newborn[p]
      BY <1>3, <2>1 DEF GapInv, TakeoverJudgement
    <3>3. newborn[p] \subseteq newborn'[p]
      BY <2>1, BirthNoted DEF GapInv
    <3> QED BY <3>1, <3>2, <3>3
  <2>2. CASE pc[p] = "judge" /\ snap'[p] = snap[p] /\ Stale(p, snap[p]) /\ snap[p] \in Procs
    <3>1. life'[q] = life[q]
      BY <2>2 DEF LeaseNext, leaseVars, Birth, Crash, Attest, BeginAcquire, AcquireStep, Link,
         ReadLock, Judge, Replace, Finish, BeginRelease, Unlink, DropLock, Leave, Goto, GapInv,
         LeaseInv, LeaseTypeOK, Idle
    <3>2. ~Identified(snap[p]) /\ ~PidAlive(p, snap[p])
      BY <1>3, <2>2 DEF Stale, HolderAlive
    <3> QED BY <1>3, <2>2, <3>1, <3>2 DEF PidAlive
  <2> QED BY <1>1, <1>3, <2>1, <2>2, LockStatesAssumption
<1> QED
  BY <1>1, <1>2, <1>3, LockStatesAssumption DEF GapInv, TakeoverJudgement, Stale, HolderAlive

\* A takeover renames over a lease that it would no longer judge stale only if
\* the file changed after it was read, or a process without kernel identities,
\* started after the lease was judged, was given the pid that the lease names.
THEOREM TakeoverGap == LeaseSpec => TakeoverHarmsOnlyInGap
<1>1. LeaseInit => GapInv
  BY InitInv, LockStatesAssumption DEF LeaseInit, GapInv, LeasesNameBorn, TakeoverJudgement
<1>2. GapInv /\ [LeaseNext]_leaseVars => GapInv'
  BY TypeStep, LifeStep, ClaimStep, BornStep, JudgementStep DEF GapInv, LeaseInv
<1>3. ASSUME GapInv, NEW p \in Procs, Replace(p), raced' # raced, lock = snap[p]
      PROVE  ~Identified(p) /\ \E q \in newborn[p] : life[q] = "live" /\ Owned(q, lock)
  <2>1. lock \in Procs /\ ~Stale(p, lock)
    BY <1>3 DEF Replace, Replaceable, GapInv, LeaseInv, LeaseTypeOK, LockStates
  <2>2. HolderAlive(p, lock) /\ ~Identified(p) /\ ~Identified(lock)
    BY <2>1, <1>3 DEF Replace, Stale, GapInv, TakeoverJudgement
  <2>3. PICK q \in Procs : /\ life[q] = "live" /\ KernelOf[q] = KernelOf[p]
                           /\ PidOf[q] = PidOf[lock]
    BY <2>2 DEF HolderAlive, PidAlive
  <2>4. q \in newborn[p]
    BY <1>3, <2>1, <2>2, <2>3 DEF Replace, GapInv, TakeoverJudgement
  <2> QED BY <2>2, <2>3, <2>4 DEF Owned, Identified
<1>4. GapInv /\ [LeaseNext]_leaseVars =>
        [\A p \in Procs : Replace(p) /\ raced' # raced =>
           \/ lock # snap[p]
           \/ ~Identified(p) /\ \E q \in newborn[p] : life[q] = "live" /\ Owned(q, lock)]_leaseVars
  BY <1>3
<1> QED BY <1>1, <1>2, <1>4, PTL DEF LeaseSpec, TakeoverHarmsOnlyInGap
===========================================================================
