------------------------ MODULE SessionStoreProofs ------------------------
(***************************************************************************)
(* Theorems about SessionStore: the lease invariant still holds when the   *)
(* lease is one file among the session's, types, the summary never loses   *)
(* an update, and the transcript reads back as what was acknowledged,      *)
(* through crashes inside a write and the repairs of what they leave.      *)
(***************************************************************************)
EXTENDS SessionStore, SessionLeaseProofs, SequenceTheorems, FiniteSetTheorems,
        FunctionTheorems, WellFoundedInduction

---------------------------------------------------------------------------
(* The inductive invariant.                                                *)

\* Where a process is in acquireLease follows from where it is in its operation,
\* and only a process that runs is in one or has a writer.
ControlAt(p) ==
  /\ job[p] = "none" <=> at[p] = "out"
  /\ at[p] = "lease" =>
       /\ job[p] \in {"append", "merge", "open"}
       /\ pc[p] \in {"link", "read", "judge", "replace"}
  /\ at[p] \in {"head", "end"} => job[p] = "append"
  /\ at[p] \in {"fold", "save"} => job[p] \in {"append", "merge"}
  /\ at[p] \in {"head", "end", "fold", "save"} => pc[p] = "write"
  /\ at[p] \in {"load", "check", "truncate"} => job[p] \in {"open", "read"}
  /\ at[p] = "load" => pc[p] \in {"idle", "write"}
  /\ at[p] \in {"check", "truncate", "drop", "sweep"} => pc[p] = "idle"
  /\ at[p] \in {"drop", "sweep"} => job[p] = "delete" /\ deleted
  /\ at[p] = "out" => pc[p] \in {"idle", "unlink"}
  /\ pc[p] = "unlink" => p \notin opened
  /\ job[p] # "none" \/ p \in opened => life[p] = "live"
  /\ job[p] = "append" => p \in opened /\ item[p] \in 1..entries
  /\ job[p] = "merge" => item[p] \in 1..renames
  /\ at[p] \in {"check", "truncate"} => view[p] # Missing /\ Torn(view[p])

ControlFits == \A p \in Procs : ControlAt(p)

\* The entries of appends that are under way are in no count yet.
Pending == {p \in Procs : job[p] = "append"}

CountsFit ==
  /\ IsFiniteSet(Pending)
  /\ skipped + Cardinality(Pending) <= entries
  /\ summary # Missing => summary.count + Cardinality(Pending) <= entries
  /\ \A p \in Procs : prev[p].count + Cardinality(Pending) <= entries

\* Bytes of the entry e are in the file f.
Mentions(f, e) == f # Missing /\ \E i \in 1..Len(f) : f[i].id = e

\* Nothing of an entry is anywhere before its append writes it.
ItemsFresh ==
  /\ \A p, q \in Procs :
       job[p] = "append" /\ job[q] = "append" /\ item[p] = item[q] => p = q
  /\ \A p \in Procs : job[p] = "append" /\ at[p] \in {"lease", "head"} =>
       /\ ~Mentions(log, item[p])
       /\ \A q \in Procs : ~Mentions(view[q], item[p])
  /\ \A e \in Nat : e > entries =>
       ~Mentions(log, e) /\ \A q \in Procs : ~Mentions(view[q], e)
  /\ entries = 0 => log = Missing

\* The summary as a reader takes it.
Current == IF summary = Missing THEN NoSummary ELSE summary

\* Who is about to save a summary has the one on disk in hand.
SavesCurrent ==
  Undisturbed => \A p \in Procs : at[p] = "save" => prev[p] = Current

\* The process has a writer on the session or resumes it with the lease.
Holding(p) == p \in opened \/ (job[p] = "open" /\ at[p] \in {"load", "check", "truncate"})

\* It owns the lease, unless it has created the session and not yet written.
HoldersOwn ==
  Undisturbed =>
    /\ \A p \in Procs : Holding(p) =>
         (lock \in Procs /\ Owned(p, lock)) \/ (log = Missing /\ p \in opened)
    /\ log = Missing => \A p, q \in opened : p = q
    /\ \A p \in Procs : at[p] \in {"check", "truncate"} => log # Missing

\* The file f holds a complete line for each entry of es and perhaps the head of
\* one more.
Lines(f, es) ==
  /\ Len(f) \in {2 * Len(es), 2 * Len(es) + 1}
  /\ \A i \in 1..Len(es) : /\ f[2 * i - 1] = [part |-> "head", id |-> es[i]]
                           /\ f[2 * i] = [part |-> "end", id |-> es[i]]
  /\ Len(f) = 2 * Len(es) + 1 => f[Len(f)].part = "head"

\* The acknowledged entries are the transcript; a torn tail belongs to the append
\* under way, or there is no writer that could append to it.
LogFits ==
  Undisturbed /\ ~cut =>
    /\ log = Missing => acked = <<>>
    /\ log # Missing => Lines(log, acked)
    /\ \A p \in Procs : at[p] = "end" =>
         log # Missing /\ Len(log) = 2 * Len(acked) + 1 /\ log[Len(log)].id = item[p]
    /\ log # Missing /\ Len(log) = 2 * Len(acked) + 1 =>
         opened = {} \/ \E p \in Procs : at[p] = "end"

\* No append is in the middle of the line a repair is about to cut.
RepairsDead ==
  Undisturbed => \A p, q \in Procs :
    at[p] = "end" /\ at[q] = "truncate" => view[q][Len(view[q])].id # item[p]

StoreInv ==
  /\ LeaseInv /\ StoreTypeOK /\ ControlFits /\ CountsFit /\ ItemsFresh
  /\ SavesCurrent /\ SummaryKept /\ HoldersOwn /\ LogFits /\ RepairsDead

---------------------------------------------------------------------------
(* The lease.                                                              *)

\* The steps of one process.
StoreStep(p) ==
  \/ ProcessStart(p) \/ ProcessDeath(p) \/ Create(p)
  \/ BeginAppend(p) \/ BeginMerge(p) \/ BeginOpen(p)
  \/ Lease(p) \/ WriteHead(p) \/ WriteEnd(p) \/ ReadSummary(p)
  \/ FoldSummary(p) \/ MergeMetadata(p) \/ Claimed(p)
  \/ BeginRead(p) \/ LoadRead(p) \/ LoadCheck(p) \/ LoadTruncate(p)
  \/ Release(p) \/ ReleaseUnlink(p)
  \/ DeleteLog(p) \/ DeleteLock(p) \/ DeleteSummary(p)

\* What a step does to the lease is a step of SessionLease, or nothing.
LEMMA StepLease ==
  ASSUME NEW p \in Procs, StoreStep(p)
  PROVE  \/ \/ Birth(p) \/ Crash(p) \/ BeginAcquire(p) \/ AcquireStep(p)
            \/ Finish(p) \/ BeginRelease(p) \/ Unlink(p) \/ DropLock(p)
         \/ UNCHANGED leaseVars
<1>1. CASE ProcessStart(p)
  BY <1>1 DEF ProcessStart
<1>2. CASE ProcessDeath(p)
  BY <1>2 DEF ProcessDeath
<1>3. CASE BeginAppend(p) \/ BeginMerge(p) \/ BeginOpen(p)
  BY <1>3 DEF BeginAppend, BeginMerge, BeginOpen, Begin
<1>4. CASE Lease(p)
  BY <1>4 DEF Lease
<1>5. CASE FoldSummary(p) \/ MergeMetadata(p) \/ Claimed(p)
  BY <1>5 DEF FoldSummary, MergeMetadata, Claimed
<1>6. CASE Release(p)
  BY <1>6 DEF Release
<1>7. CASE ReleaseUnlink(p)
  BY <1>7 DEF ReleaseUnlink
<1>8. CASE DeleteLock(p)
  BY <1>8 DEF DeleteLock
<1>9. CASE Create(p) \/ WriteHead(p) \/ WriteEnd(p) \/ ReadSummary(p) \/ BeginRead(p)
           \/ LoadRead(p) \/ LoadCheck(p) \/ LoadTruncate(p) \/ DeleteLog(p) \/ DeleteSummary(p)
  BY <1>9 DEF Create, WriteHead, WriteEnd, ReadSummary, BeginRead, LoadRead, LoadCheck,
              LoadTruncate, DeleteLog, DeleteSummary
<1> QED BY <1>1, <1>2, <1>3, <1>4, <1>5, <1>6, <1>7, <1>8, <1>9 DEF StoreStep

LEMMA NextLease == [StoreNext]_allVars => [LeaseNext]_leaseVars
<1>1. ASSUME NEW p \in Procs, StoreStep(p) PROVE [LeaseNext]_leaseVars
  BY <1>1, StepLease DEF LeaseNext
<1>2. ASSUME NEW k \in Kernels, HostAttests(k) PROVE [LeaseNext]_leaseVars
  BY <1>2 DEF LeaseNext, HostAttests
<1>3. UNCHANGED allVars => UNCHANGED leaseVars
  BY DEF allVars
<1> QED BY <1>1, <1>2, <1>3 DEF StoreNext, StoreStep

\* The lease protocol's invariant survives the store around it.
LEMMA LeaseKept == LeaseInv /\ [StoreNext]_allVars => LeaseInv'
BY NextLease, TypeStep, LifeStep, ClaimStep DEF LeaseInv

---------------------------------------------------------------------------
(* The operators on transcripts.                                           *)

LEMMA MaxOfBounded ==
  ASSUME NEW n \in Nat, NEW S \in SUBSET (0..n), S # {}
  PROVE  Max(S) \in S /\ \A s \in S : s <= Max(S)
<1> DEFINE T == {d \in 0..n : n - d \in S}
<1>1. T \subseteq Nat /\ T # {}
  <2>1. PICK s \in S : TRUE
    OBVIOUS
  <2>2. n - s \in T
    BY <2>1
  <2> QED BY <2>2
<1>2. PICK d \in T : \A e \in T : ~(<<e, d>> \in OpToRel(<, Nat))
  BY <1>1, NatLessThanWellFounded, WFMin, Zenon
<1>3. \A e \in T : d <= e
  <2>1. \A e \in T : ~(e < d)
    BY <1>1, <1>2 DEF OpToRel
  <2> QED BY <1>1, <2>1
<1>4. n - d \in S /\ \A s \in S : n - d >= s
  <2>1. ASSUME NEW s \in S PROVE n - d >= s
    <3>1. n - s \in T
      OBVIOUS
    <3> QED BY <3>1, <1>3
  <2> QED BY <2>1
<1> HIDE DEF T
<1>5. \E x \in S : \A y \in S : x >= y
  BY <1>4
<1>6. Max(S) \in S /\ \A y \in S : Max(S) >= y
  BY <1>5 DEF Max
<1> QED BY <1>6

\* The last line found lies in the file.
LEMMA NewlineBeforeFacts ==
  ASSUME NEW f \in Seq(Fragments), NEW i \in Nat
  PROVE  /\ NewlineBefore(f, i) \in {0} \cup {j \in Newlines(f) : j < i}
         /\ \A j \in Newlines(f) : j < i => j <= NewlineBefore(f, i)
         /\ NewlineBefore(f, i) \in 0..Len(f)
<1> DEFINE S == {0} \cup {j \in Newlines(f) : j < i}
<1>1. Len(f) \in Nat /\ S \in SUBSET (0..Len(f)) /\ S # {}
  BY LenProperties DEF Newlines
<1>2. Max(S) \in S /\ \A s \in S : s <= Max(S)
  BY <1>1, MaxOfBounded
<1>3. NewlineBefore(f, i) = Max(S)
  BY DEF NewlineBefore
<1> QED BY <1>1, <1>2, <1>3

LEMMA KeepNat == ASSUME NEW f \in Seq(Fragments) PROVE Keep(f) \in Nat
<1>1. Len(f) \in Nat
  BY LenProperties
<1>2. NewlineBefore(f, Len(f)) \in 0..Len(f)
  BY <1>1, NewlineBeforeFacts
<1> QED BY <1>1, <1>2 DEF Keep

LEMMA TruncatedFacts ==
  ASSUME NEW f \in Seq(Fragments), NEW n \in Nat
  PROVE  /\ Truncated(f, n) \in Seq(Fragments)
         /\ Len(Truncated(f, n)) = n
         /\ \A i \in 1..n : i <= Len(f) => Truncated(f, n)[i] = f[i]
         /\ \A i \in 1..n : ~(i <= Len(f)) => Truncated(f, n)[i].id = 0
<1>1. \A i \in 1..n : (IF i <= Len(f) THEN f[i] ELSE [part |-> "nul", id |-> 0]) \in Fragments
  <2>1. [part |-> "nul", id |-> 0] \in Fragments
    BY StoreBoundsAssumption DEF Fragments
  <2> QED BY <2>1, ElementOfSeq
<1>2. Truncated(f, n) \in [1..n -> Fragments]
  BY <1>1 DEF Truncated
<1>3. Truncated(f, n) \in Seq(Fragments) /\ Len(Truncated(f, n)) = n
  BY <1>2
<1> QED BY <1>3 DEF Truncated

\* A file of complete lines, with or without the head of one more.
LEMMA LinesNewlines ==
  ASSUME NEW f \in Seq(Fragments), NEW es \in Seq(1..MaxEntries), Lines(f, es)
  PROVE  /\ \A i \in 1..Len(es) : 2 * i \in Newlines(f)
         /\ \A j \in Newlines(f) : \E i \in 1..Len(es) : j = 2 * i
<1>1. ASSUME NEW i \in 1..Len(es) PROVE 2 * i \in Newlines(f)
  <2>1. f[2 * i] = [part |-> "end", id |-> es[i]]
    BY DEF Lines
  <2>2. f[2 * i].part = "end"
    BY <2>1
  <2>3. 2 * i \in 1..Len(f)
    BY LenProperties DEF Lines
  <2> QED BY <2>2, <2>3 DEF Newlines
<1>2. ASSUME NEW j \in Newlines(f) PROVE \E i \in 1..Len(es) : j = 2 * i
  <2>1. j \in 1..Len(f) /\ f[j].part = "end" /\ Len(f) \in Nat /\ Len(es) \in Nat
    BY DEF Newlines
  <2>2. PICK k \in Nat : j = 2 * k \/ j = 2 * k + 1
    <3>1. j \in Nat
      BY <2>1
    <3> QED BY <3>1, j \div 2 \in Nat
  <2>3. CASE j = 2 * k
    <3>1. Len(f) = 2 * Len(es) \/ Len(f) = 2 * Len(es) + 1
      BY DEF Lines
    <3>2. k \in 1..Len(es)
      BY <2>1, <2>3, <3>1
    <3> QED BY <2>3, <3>2
  <2>4. CASE j = 2 * k + 1
    <3>1. CASE k + 1 <= Len(es)
      <4>1. k + 1 \in 1..Len(es) /\ 2 * (k + 1) - 1 = j
        BY <2>1, <2>4, <3>1
      <4>2. f[j] = [part |-> "head", id |-> es[k + 1]]
        BY <4>1 DEF Lines
      <4>3. f[j].part = "head"
        BY <4>2
      <4> QED BY <4>3, <2>1
    <3>2. CASE ~(k + 1 <= Len(es))
      <4>1. Len(f) = 2 * Len(es) + 1 /\ j = Len(f)
        BY <2>1, <2>4, <3>2 DEF Lines
      <4>2. f[j].part = "head"
        BY <4>1 DEF Lines
      <4> QED BY <4>2, <2>1
    <3> QED BY <3>1, <3>2
  <2> QED BY <2>2, <2>3, <2>4
<1> QED BY <1>1, <1>2

LEMMA LinesBefore ==
  ASSUME NEW f \in Seq(Fragments), NEW es \in Seq(1..MaxEntries), Lines(f, es),
         NEW i \in 1..(Len(es) + 1), NEW m \in {2 * i - 1, 2 * i}
  PROVE  NewlineBefore(f, m) = 2 * i - 2
<1>1. Len(es) \in Nat /\ i \in Nat /\ m \in Nat
  BY LenProperties
<1> DEFINE b == NewlineBefore(f, m)
<1>2. /\ b \in {0} \cup {j \in Newlines(f) : j < m}
      /\ \A j \in Newlines(f) : j < m => j <= b
      /\ b \in Nat
  <2>1. b \in 0..Len(f)
    BY <1>1, NewlineBeforeFacts
  <2>2. /\ b \in {0} \cup {j \in Newlines(f) : j < m}
        /\ \A j \in Newlines(f) : j < m => j <= b
    BY <1>1, NewlineBeforeFacts, Zenon
  <2> QED BY <2>1, <2>2, LenProperties
<1>n. /\ \A j \in 1..Len(es) : 2 * j \in Newlines(f)
      /\ \A j \in Newlines(f) : \E k \in 1..Len(es) : j = 2 * k
  BY LinesNewlines
<1> HIDE DEF b
<1>3. b <= 2 * i - 2
  BY <1>1, <1>2, <1>n
<1>4. b >= 2 * i - 2
  <2>1. CASE i = 1
    BY <1>2, <2>1
  <2>2. CASE i # 1
    <3>1. i - 1 \in 1..Len(es)
      BY <1>1, <2>2
    <3>2. 2 * (i - 1) \in Newlines(f)
      BY <3>1, <1>n, Zenon
    <3>3. 2 * (i - 1) < m
      BY <1>1
    <3> QED BY <3>2, <3>3, <1>1, <1>2
  <2> QED BY <2>1, <2>2
<1>5. b = 2 * i - 2
  BY <1>1, <1>2, <1>3, <1>4
<1> QED BY <1>5 DEF b

\* Only the final line can be torn, and it is when it has a head and no end.
LEMMA LinesTorn ==
  ASSUME NEW f \in Seq(Fragments), NEW es \in Seq(1..MaxEntries), Lines(f, es)
  PROVE  /\ ~Undecodable(f)
         /\ Len(f) = 2 * Len(es) => ~Torn(f)
         /\ Len(f) = 2 * Len(es) + 1 => Torn(f) /\ Keep(f) = 2 * Len(es)
<1>1. Len(es) \in Nat /\ Len(f) \in Nat
  BY LenProperties
<1>2. ASSUME NEW j \in Newlines(f) PROVE Parseable(f, j)
  <2>1. PICK i \in 1..Len(es) : j = 2 * i
    BY LinesNewlines
  <2>2. NewlineBefore(f, 2 * i) = 2 * i - 2
    BY <1>1, LinesBefore
  <2>3. f[2 * i - 1] = [part |-> "head", id |-> es[i]] /\ f[2 * i] = [part |-> "end", id |-> es[i]]
    BY DEF Lines
  <2>4. f[2 * i].id = es[i]
    BY <2>3
  <2>5. f[2 * i - 1] = [part |-> "head", id |-> f[2 * i].id]
    BY <2>3, <2>4
  <2> QED BY <2>1, <2>2, <2>5 DEF Parseable
<1>3. ~Undecodable(f)
  BY <1>2 DEF Undecodable
<1>4. ASSUME Len(f) = 2 * Len(es), f # <<>> PROVE Len(f) \in Newlines(f)
  <2>1. Len(es) \in 1..Len(es)
    BY <1>1, <1>4, EmptySeq
  <2> QED BY <2>1, <1>4, LinesNewlines
<1>5. Len(f) = 2 * Len(es) => ~Torn(f)
  BY <1>2, <1>4 DEF Torn
<1>6. ASSUME Len(f) = 2 * Len(es) + 1 PROVE Torn(f) /\ Keep(f) = 2 * Len(es)
  <2>1. f # <<>>
    BY <1>1, <1>6, EmptySeq
  <2>2. Len(f) \notin Newlines(f)
    BY <1>1, <1>6, LinesNewlines
  <2>3. Len(es) + 1 \in 1..(Len(es) + 1) /\ Len(f) = 2 * (Len(es) + 1) - 1
    BY <1>1, <1>6
  <2>4. NewlineBefore(f, Len(f)) = 2 * (Len(es) + 1) - 2
    BY <2>3, LinesBefore
  <2> QED BY <1>1, <2>1, <2>2, <2>4 DEF Torn, Keep
<1> QED BY <1>3, <1>5, <1>6

\* The k-th newline is the second fragment of the k-th pair.
LEMMA LinesCount ==
  ASSUME NEW f \in Seq(Fragments), NEW es \in Seq(1..MaxEntries), Lines(f, es),
         NEW k \in 0..Len(es)
  PROVE  LET S == {j \in Newlines(f) : j <= 2 * k}
         IN  IsFiniteSet(S) /\ Cardinality(S) = k
<1> DEFINE S == {j \in Newlines(f) : j <= 2 * k}
<1> DEFINE b == [i \in 1..k |-> 2 * i]
<1>1. Len(es) \in Nat /\ k \in Nat
  BY LenProperties
<1>n. /\ \A j \in 1..Len(es) : 2 * j \in Newlines(f)
      /\ \A j \in Newlines(f) : \E i \in 1..Len(es) : j = 2 * i
  BY LinesNewlines
<1>2. ASSUME NEW i \in 1..k PROVE 2 * i \in S
  <2>1. i \in 1..Len(es) /\ 2 * i <= 2 * k
    BY <1>1
  <2>2. 2 * i \in Newlines(f)
    BY <2>1, <1>n, Zenon
  <2> QED BY <2>1, <2>2
<1>3. \A j \in S : \E i \in 1..k : j = 2 * i
  BY <1>1, <1>n
<1> HIDE DEF S
<1>4. b \in [1..k -> S]
  BY <1>2
<1>5. \A i, j \in 1..k : b[i] = b[j] => i = j
  BY <1>1
<1>6. \A j \in S : \E i \in 1..k : b[i] = j
  BY <1>3
<1>7. b \in Bijection(1..k, S)
  BY <1>4, <1>5, <1>6, Fun_IsBij
<1>8. ExistsBijection(1..k, S)
  BY <1>7 DEF ExistsBijection
<1>9. IsFiniteSet(S) /\ Cardinality(S) = k
  BY <1>1, <1>8, FS_CountingElements, FS_NatBijection
<1> QED BY <1>9 DEF S

\* What load() returns for such a file are the entries of its lines.
LEMMA LinesDecode ==
  ASSUME NEW f \in Seq(Fragments), NEW es \in Seq(1..MaxEntries), Lines(f, es)
  PROVE  Decoded(f) = es
<1> DEFINE kept == IF Torn(f) THEN SubSeq(f, 1, Keep(f)) ELSE f
<1>1. Len(es) \in Nat /\ Len(f) \in Nat
  BY LenProperties
<1>2. kept \in Seq(Fragments) /\ Lines(kept, es) /\ Len(kept) = 2 * Len(es)
  <2>1. CASE Len(f) = 2 * Len(es)
    BY <2>1, LinesTorn
  <2>2. CASE Len(f) = 2 * Len(es) + 1
    <3>1. kept = SubSeq(f, 1, 2 * Len(es))
      BY <2>2, LinesTorn
    <3> HIDE DEF kept
    <3>2. /\ kept \in Seq(Fragments) /\ Len(kept) = 2 * Len(es)
          /\ \A i \in 1..(2 * Len(es)) : kept[i] = f[i]
      BY <1>1, <2>2, <3>1, SubSeqProperties
    <3>3. ASSUME NEW i \in 1..Len(es)
          PROVE  /\ kept[2 * i - 1] = [part |-> "head", id |-> es[i]]
                 /\ kept[2 * i] = [part |-> "end", id |-> es[i]]
      <4>1. 2 * i - 1 \in 1..(2 * Len(es)) /\ 2 * i \in 1..(2 * Len(es))
        BY <1>1
      <4>2. kept[2 * i - 1] = f[2 * i - 1] /\ kept[2 * i] = f[2 * i]
        BY <3>2, <4>1, Zenon
      <4> QED BY <4>2, Zenon DEF Lines
    <3>4. Len(kept) \in {2 * Len(es), 2 * Len(es) + 1} /\ Len(kept) # 2 * Len(es) + 1
      BY <1>1, <3>2
    <3>5. Lines(kept, es)
      BY <3>3, <3>4, Zenon DEF Lines
    <3> QED BY <3>2, <3>5
  <2> QED BY <2>1, <2>2 DEF Lines
<1>3. Decoded(f) = [k \in 1..Cardinality(Newlines(kept)) |-> kept[LineEnd(kept, k)].id]
  BY DEF Decoded
<1> HIDE DEF kept
<1>n. /\ \A j \in 1..Len(es) : 2 * j \in Newlines(kept)
      /\ \A j \in Newlines(kept) : \E i \in 1..Len(es) : j = 2 * i
  BY <1>2, LinesNewlines
<1>4. \A k \in 0..Len(es) : Cardinality({j \in Newlines(kept) : j <= 2 * k}) = k
  BY <1>2, LinesCount
<1>5. Cardinality(Newlines(kept)) = Len(es)
  <2>1. \A j \in Newlines(kept) : j <= 2 * Len(es)
    BY <1>1, <1>n
  <2>2. Newlines(kept) = {j \in Newlines(kept) : j <= 2 * Len(es)}
    BY <2>1
  <2>3. Len(es) \in 0..Len(es)
    BY <1>1
  <2> QED BY <2>2, <2>3, <1>4, Zenon
<1>6. ASSUME NEW k \in 1..Len(es) PROVE kept[LineEnd(kept, k)].id = es[k]
  <2>1. 2 * k \in Newlines(kept) /\ Cardinality({j \in Newlines(kept) : j <= 2 * k}) = k
    <3>1. k \in 0..Len(es)
      BY <1>1
    <3> QED BY <3>1, <1>n, <1>4, Zenon
  <2>2. ASSUME NEW j \in Newlines(kept), Cardinality({i \in Newlines(kept) : i <= j}) = k
        PROVE  j = 2 * k
    <3>1. PICK m \in 1..Len(es) : j = 2 * m
      BY <1>n
    <3>2. m \in 0..Len(es)
      BY <1>1
    <3>3. Cardinality({i \in Newlines(kept) : i <= j}) = m
      BY <3>1, <3>2, <1>4, Zenon
    <3> QED BY <2>2, <3>1, <3>3
  <2>3. LineEnd(kept, k) = 2 * k
    BY <2>1, <2>2, Zenon DEF LineEnd
  <2>4. kept[2 * k] = [part |-> "end", id |-> es[k]]
    BY <1>2 DEF Lines
  <2> QED BY <2>3, <2>4
<1>7. Decoded(f) = [k \in 1..Len(es) |-> es[k]]
  BY <1>3, <1>5, <1>6
<1> QED BY <1>7

LEMMA EmptyLines ==
  <<>> \in Seq(Fragments) /\ Lines(<<>>, <<>>) /\ Len(<<>>) = 2 * Len(<<>>)
BY EmptySeq DEF Lines

\* The first half of a write leaves a head at the end, the second half turns it
\* into a line.
LEMMA LinesHead ==
  ASSUME NEW f \in Seq(Fragments), NEW es \in Seq(1..MaxEntries), Lines(f, es),
         Len(f) = 2 * Len(es), NEW e \in 1..MaxEntries
  PROVE  LET g == Append(f, [part |-> "head", id |-> e])
         IN  g \in Seq(Fragments) /\ Lines(g, es) /\ Len(g) = 2 * Len(es) + 1 /\ g[Len(g)].id = e
<1> DEFINE x == [part |-> "head", id |-> e]
<1> DEFINE g == Append(f, x)
<1>1. Len(es) \in Nat /\ Len(f) \in Nat
  BY LenProperties
<1>2. x \in Fragments /\ x.part = "head" /\ x.id = e
  BY StoreBoundsAssumption DEF Fragments
<1> HIDE DEF x
<1>3. /\ g \in Seq(Fragments) /\ Len(g) = Len(f) + 1 /\ g[Len(f) + 1] = x
      /\ \A i \in 1..Len(f) : g[i] = f[i]
  BY <1>2, AppendProperties
<1> HIDE DEF g
<1>4. ASSUME NEW i \in 1..Len(es)
      PROVE  /\ g[2 * i - 1] = [part |-> "head", id |-> es[i]]
             /\ g[2 * i] = [part |-> "end", id |-> es[i]]
  <2>1. 2 * i - 1 \in 1..Len(f) /\ 2 * i \in 1..Len(f)
    BY <1>1
  <2>2. g[2 * i - 1] = f[2 * i - 1] /\ g[2 * i] = f[2 * i]
    BY <1>3, <2>1, Zenon
  <2> QED BY <2>2, Zenon DEF Lines
<1>5. Len(g) = 2 * Len(es) + 1 /\ g[Len(g)].part = "head" /\ g[Len(g)].id = e
  BY <1>1, <1>2, <1>3
<1>6. Lines(g, es)
  BY <1>4, <1>5 DEF Lines
<1> QED BY <1>3, <1>5, <1>6 DEF g, x

LEMMA LinesEnd ==
  ASSUME NEW f \in Seq(Fragments), NEW es \in Seq(1..MaxEntries), Lines(f, es),
         Len(f) = 2 * Len(es) + 1, NEW e \in 1..MaxEntries, f[Len(f)].id = e
  PROVE  LET g == Append(f, [part |-> "end", id |-> e])
         IN  /\ g \in Seq(Fragments) /\ Lines(g, Append(es, e))
             /\ Len(g) = 2 * Len(Append(es, e))
<1> DEFINE x == [part |-> "end", id |-> e]
<1> DEFINE g == Append(f, x)
<1> DEFINE n == Append(es, e)
<1>1. Len(es) \in Nat /\ Len(f) \in Nat
  BY LenProperties
<1>2. x \in Fragments
  BY StoreBoundsAssumption DEF Fragments
<1>3. f[Len(f)] = [part |-> "head", id |-> e]
  <2>1. f[Len(f)] \in Fragments
    BY <1>1, ElementOfSeq
  <2>2. f[Len(f)].part = "head"
    BY DEF Lines
  <2> QED BY <2>1, <2>2 DEF Fragments
<1>4. /\ g \in Seq(Fragments) /\ Len(g) = Len(f) + 1 /\ g[Len(f) + 1] = x
      /\ \A i \in 1..Len(f) : g[i] = f[i]
  BY <1>2, AppendProperties
<1>5. /\ n \in Seq(1..MaxEntries) /\ Len(n) = Len(es) + 1 /\ n[Len(es) + 1] = e
      /\ \A i \in 1..Len(es) : n[i] = es[i]
  BY AppendProperties
<1>6. x = [part |-> "end", id |-> e]
  OBVIOUS
<1> HIDE DEF g, n, x
<1>7. ASSUME NEW i \in 1..Len(n)
      PROVE  /\ g[2 * i - 1] = [part |-> "head", id |-> n[i]]
             /\ g[2 * i] = [part |-> "end", id |-> n[i]]
  <2>1. CASE i \in 1..Len(es)
    <3>1. 2 * i - 1 \in 1..Len(f) /\ 2 * i \in 1..Len(f)
      BY <1>1, <2>1
    <3>2. g[2 * i - 1] = f[2 * i - 1] /\ g[2 * i] = f[2 * i] /\ n[i] = es[i]
      BY <1>4, <1>5, <2>1, <3>1, Zenon
    <3> QED BY <2>1, <3>2, Zenon DEF Lines
  <2>2. CASE i = Len(es) + 1
    <3>1. 2 * i - 1 = Len(f) /\ 2 * i = Len(f) + 1 /\ Len(f) \in 1..Len(f)
      BY <1>1, <2>2
    <3>2. g[2 * i - 1] = f[Len(f)] /\ g[2 * i] = x /\ n[i] = e
      BY <1>4, <1>5, <2>2, <3>1
    <3> QED BY <3>2, <1>3, <1>6, Zenon
  <2> QED BY <1>1, <1>5, <2>1, <2>2
<1>8. Len(g) = 2 * Len(n)
  BY <1>1, <1>4, <1>5
<1>9. Len(g) \in {2 * Len(n), 2 * Len(n) + 1} /\ Len(g) # 2 * Len(n) + 1
  BY <1>1, <1>5, <1>8
<1>10. Lines(g, n)
  BY <1>7, <1>9, Zenon DEF Lines
<1> QED BY <1>4, <1>8, <1>10 DEF g, n, x

\* A repair of such a file takes the head and nothing else.
LEMMA LinesCut ==
  ASSUME NEW f \in Seq(Fragments), NEW es \in Seq(1..MaxEntries), Lines(f, es), Torn(f)
  PROVE  LET g == Truncated(f, Keep(f))
         IN  g \in Seq(Fragments) /\ Lines(g, es) /\ Len(g) = 2 * Len(es)
<1>1. Len(es) \in Nat /\ Len(f) \in Nat
  BY LenProperties
<1>2. Keep(f) = 2 * Len(es) /\ Len(f) = 2 * Len(es) + 1
  BY LinesTorn DEF Lines
<1> DEFINE g == Truncated(f, Keep(f))
<1>3. /\ g \in Seq(Fragments) /\ Len(g) = 2 * Len(es)
      /\ \A i \in 1..(2 * Len(es)) : i <= Len(f) => g[i] = f[i]
  <2>1. /\ g \in Seq(Fragments) /\ Len(g) = Keep(f)
        /\ \A i \in 1..Keep(f) : i <= Len(f) => g[i] = f[i]
    <3>1. Keep(f) \in Nat
      BY <1>1, <1>2
    <3> QED BY <3>1, TruncatedFacts
  <2> QED BY <1>2, <2>1, Zenon
<1> HIDE DEF g
<1>4. ASSUME NEW i \in 1..Len(es)
      PROVE  /\ g[2 * i - 1] = [part |-> "head", id |-> es[i]]
             /\ g[2 * i] = [part |-> "end", id |-> es[i]]
  <2>1. /\ 2 * i - 1 \in 1..(2 * Len(es)) /\ 2 * i \in 1..(2 * Len(es))
        /\ 2 * i - 1 <= Len(f) /\ 2 * i <= Len(f)
    BY <1>1, <1>2
  <2>2. g[2 * i - 1] = f[2 * i - 1] /\ g[2 * i] = f[2 * i]
    BY <1>3, <2>1, Zenon
  <2> QED BY <2>2, Zenon DEF Lines
<1>5. Len(g) \in {2 * Len(es), 2 * Len(es) + 1} /\ Len(g) # 2 * Len(es) + 1
  BY <1>1, <1>3
<1>6. Lines(g, es)
  BY <1>4, <1>5, Zenon DEF Lines
<1> QED BY <1>3, <1>6 DEF g

---------------------------------------------------------------------------
(* Types.                                                                  *)

\* The locals of an operation that has ended.
LEMMA DoneTypes ==
  ASSUME StoreTypeOK, NEW p \in Procs, Done(p)
  PROVE  /\ job' \in [Procs -> {"none", "open", "append", "merge", "read", "delete"}]
         /\ at' \in [Procs -> {"out", "lease", "load", "check", "truncate", "head", "end",
                               "fold", "save", "drop", "sweep"}]
         /\ item' \in [Procs -> 0..MaxEntries \cup 0..MaxRenames]
         /\ view' \in [Procs -> Files]
         /\ prev' \in [Procs -> Summaries]
<1>1. NoSummary \in Summaries /\ Missing \in Files
  BY StoreBoundsAssumption DEF NoSummary, Summaries, Files
<1>2. 0 \in 0..MaxEntries
  BY StoreBoundsAssumption
<1> QED BY <1>1, <1>2 DEF StoreTypeOK, Done, At

LEMMA PendingCounted ==
  ASSUME CountsFit
  PROVE  /\ Cardinality(Pending) \in Nat
         /\ \A p \in Procs : job[p] = "append" => Cardinality(Pending) # 0
<1>1. IsFiniteSet(Pending)
  BY DEF CountsFit
<1>2. Cardinality(Pending) \in Nat /\ (Cardinality(Pending) = 0 <=> Pending = {})
  BY <1>1, FS_CardinalityType, FS_EmptySet
<1>3. \A p \in Procs : job[p] = "append" => Pending # {}
  BY DEF Pending
<1> QED BY <1>2, <1>3

\* A summary that is saved is a summary.
LEMMA SavedSummary ==
  ASSUME StoreTypeOK, ControlFits, CountsFit, NEW p \in Procs, FoldSummary(p) \/ MergeMetadata(p)
  PROVE  summary' \in Summaries
<1>1. MaxEntries \in Nat /\ MaxRenames \in Nat /\ prev[p] \in Summaries /\ entries \in 0..MaxEntries
  BY StoreBoundsAssumption DEF StoreTypeOK
<1>2. CASE FoldSummary(p)
  <2>1. prev[p].count + Cardinality(Pending) <= entries
    BY DEF CountsFit
  <2>2. Cardinality(Pending) \in Nat /\ Cardinality(Pending) # 0
    BY <1>2, PendingCounted DEF FoldSummary
  <2>3. prev[p].count + 1 \in 0..MaxEntries
    BY <1>1, <2>1, <2>2 DEF Summaries
  <2>4. [prev[p] EXCEPT !.count = @ + 1] \in Summaries
    BY <1>1, <2>3 DEF Summaries
  <2> QED BY <1>2, <2>4 DEF FoldSummary
<1>3. CASE MergeMetadata(p)
  <2>1. item[p] \in 1..renames /\ renames \in 0..MaxRenames
    BY <1>3 DEF MergeMetadata, ControlFits, ControlAt, StoreTypeOK
  <2>2. [prev[p] EXCEPT !.name = item[p]] \in Summaries
    BY <1>1, <2>1 DEF Summaries
  <2> QED BY <1>3, <2>2 DEF MergeMetadata
<1> QED BY <1>2, <1>3

LEMMA StepTypes ==
  ASSUME StoreTypeOK, ControlFits, CountsFit, LeaseTypeOK, NEW p \in Procs, StoreStep(p)
  PROVE  StoreTypeOK'
<1> USE DEF StoreTypeOK
<1>a. MaxEntries \in Nat /\ MaxRenames \in Nat
  BY StoreBoundsAssumption
<1>b. ControlAt(p)
  BY DEF ControlFits
<1>1. CASE ProcessStart(p) \/ Claimed(p) \/ ReleaseUnlink(p)
  BY <1>1 DEF ProcessStart, Claimed, ReleaseUnlink, storeVars
<1>2. CASE ProcessDeath(p)
  <2>1. skipped' \in 0..MaxEntries
    <3>1. CASE job[p] = "append"
      <4>1. Cardinality(Pending) \in Nat /\ Cardinality(Pending) # 0
        BY <3>1, PendingCounted
      <4> QED BY <1>2, <1>a, <4>1 DEF ProcessDeath, CountsFit
    <3> QED BY <1>2, <3>1 DEF ProcessDeath
  <2>2. Done(p)
    BY <1>2 DEF ProcessDeath
  <2> QED BY <1>2, <2>1, <2>2, DoneTypes DEF ProcessDeath
<1>3. CASE Create(p) \/ Release(p)
  BY <1>3 DEF Create, Release, progress, disk
<1>4. CASE BeginAppend(p)
  BY <1>4, <1>a DEF BeginAppend, Begin, At, disk
<1>5. CASE BeginMerge(p)
  BY <1>5, <1>a DEF BeginMerge, Begin, At, disk
<1>6. CASE BeginOpen(p)
  BY <1>6, <1>a DEF BeginOpen, Begin, At, disk
<1>7. CASE Lease(p)
  <2>1. CASE UNCHANGED progress
    BY <1>7, <2>1 DEF Lease, progress, disk
  <2>2. CASE Done(p)
    BY <1>7, <2>2, DoneTypes DEF Lease, disk
  <2>3. CASE At(p, CASE job[p] = "append" -> "head" [] job[p] = "merge" -> "fold" [] OTHER -> "load")
             /\ UNCHANGED <<job, item, view, prev>>
    BY <1>7, <2>3 DEF Lease, At, disk
  <2> QED BY <1>7, <2>1, <2>2, <2>3 DEF Lease
<1>8. CASE WriteHead(p) \/ WriteEnd(p)
  <2>1. item[p] \in 1..MaxEntries
    BY <1>8, <1>a, <1>b DEF WriteHead, WriteEnd, ControlAt
  <2>2. Bytes(log) \in Seq(Fragments)
    BY EmptySeq DEF Bytes, Files
  <2>3. [part |-> "head", id |-> item[p]] \in Fragments /\ [part |-> "end", id |-> item[p]] \in Fragments
    BY <1>a, <2>1 DEF Fragments
  <2>4. log' \in Files
    <3>1. \A x \in Fragments : Append(Bytes(log), x) \in Files
      BY <2>2 DEF Files
    <3> QED BY <1>8, <2>3, <3>1 DEF WriteHead, WriteEnd
  <2>5. acked' \in Seq(1..MaxEntries)
    <3>1. Append(acked, item[p]) \in Seq(1..MaxEntries)
      BY <2>1
    <3> QED BY <1>8, <3>1 DEF WriteHead, WriteEnd
  <2> QED BY <1>8, <2>4, <2>5 DEF WriteHead, WriteEnd, At
<1>9. CASE ReadSummary(p)
  <2>1. NoSummary \in Summaries
    BY <1>a DEF NoSummary, Summaries
  <2> QED BY <1>9, <2>1 DEF ReadSummary, At, disk
<1>10. CASE FoldSummary(p)
  BY <1>10, SavedSummary, DoneTypes DEF FoldSummary
<1>11. CASE MergeMetadata(p)
  <2>1. named' \in 0..MaxRenames
    BY <1>11, <1>a, <1>b DEF MergeMetadata, ControlAt
  <2> QED BY <1>11, <2>1, SavedSummary, DoneTypes DEF MergeMetadata
<1>12. CASE BeginRead(p)
  BY <1>12 DEF BeginRead, At, disk
<1>13. CASE LoadRead(p)
  <2>1. CASE Done(p)
    BY <1>13, <2>1, DoneTypes DEF LoadRead, Loaded, disk
  <2>2. CASE view' = [view EXCEPT ![p] = log] /\ At(p, "check") /\ UNCHANGED <<job, item, prev, opened>>
    BY <1>13, <2>2 DEF LoadRead, At, disk
  <2> QED BY <1>13, <2>1, <2>2 DEF LoadRead, Loaded
<1>14. CASE LoadCheck(p)
  <2>1. CASE Loaded(p)
    BY <1>14, <2>1, DoneTypes DEF LoadCheck, Loaded, disk
  <2>2. CASE At(p, "truncate") /\ UNCHANGED <<job, item, view, prev, opened>>
    BY <1>14, <2>2 DEF LoadCheck, At, disk
  <2> QED BY <1>14, <2>1, <2>2 DEF LoadCheck
<1>15. CASE LoadTruncate(p)
  <2>1. cut' \in BOOLEAN
    BY <1>15, Zenon DEF LoadTruncate
  <2>2. Done(p) /\ opened' \in SUBSET Procs
    BY <1>15 DEF LoadTruncate, Loaded
  <2>3. log' \in Files
    <3>1. CASE log' = Truncated(log, Keep(view[p])) /\ log # Missing
      <4>1. log \in Seq(Fragments) /\ view[p] \in Seq(Fragments)
        BY <1>15, <1>b, <3>1 DEF Files, LoadTruncate, ControlAt
      <4>2. Keep(view[p]) \in Nat
        BY <4>1, KeepNat
      <4> QED BY <3>1, <4>1, <4>2, TruncatedFacts DEF Files
    <3> QED BY <1>15, <3>1 DEF LoadTruncate
  <2> QED BY <1>15, <2>1, <2>2, <2>3, DoneTypes DEF LoadTruncate
<1>16. CASE DeleteLog(p)
  BY <1>16 DEF DeleteLog, At, Files
<1>17. CASE DeleteLock(p)
  BY <1>17 DEF DeleteLock, At, disk
<1>18. CASE DeleteSummary(p)
  BY <1>18, DoneTypes DEF DeleteSummary
<1> QED BY <1>1, <1>2, <1>3, <1>4, <1>5, <1>6, <1>7, <1>8, <1>9, <1>10, <1>11, <1>12, <1>13,
           <1>14, <1>15, <1>16, <1>17, <1>18 DEF StoreStep

---------------------------------------------------------------------------
(* Control.                                                                *)

\* What an action of the lease protocol leaves alone.
LEMMA LeaseOthersAlone ==
  ASSUME LeaseTypeOK, NEW p \in Procs, NEW q \in Procs, q # p,
         \/ \/ Birth(p) \/ Crash(p) \/ BeginAcquire(p) \/ AcquireStep(p)
            \/ Finish(p) \/ BeginRelease(p) \/ Unlink(p) \/ DropLock(p)
         \/ UNCHANGED leaseVars
  PROVE  pc'[q] = pc[q] /\ life'[q] = life[q]
BY DEF LeaseTypeOK, leaseVars, Birth, Crash, BeginAcquire, AcquireStep, Link, ReadLock, Judge,
       Replace, Finish, BeginRelease, Unlink, DropLock, Leave, Goto

\* A step of one process leaves the locals of the others alone.
LEMMA OthersAlone ==
  ASSUME LeaseTypeOK, StoreTypeOK, NEW p \in Procs, StoreStep(p), NEW q \in Procs, q # p
  PROVE  /\ pc'[q] = pc[q] /\ life'[q] = life[q]
         /\ job'[q] = job[q] /\ at'[q] = at[q] /\ item'[q] = item[q]
         /\ view'[q] = view[q] /\ prev'[q] = prev[q]
         /\ q \in opened' <=> q \in opened
<1>1. pc'[q] = pc[q] /\ life'[q] = life[q]
  BY StepLease, LeaseOthersAlone
<1> DEFINE Same == /\ job'[q] = job[q] /\ at'[q] = at[q] /\ item'[q] = item[q]
                   /\ view'[q] = view[q] /\ prev'[q] = prev[q]
<1>2. Done(p) => Same
  BY DEF Done, At, StoreTypeOK
<1>3. UNCHANGED storeVars => Same /\ opened' = opened
  BY DEF storeVars
<1>4. UNCHANGED progress => Same
  BY DEF progress
<1>5. ASSUME NEW s, At(p, s), UNCHANGED <<item, view, prev>>,
             job' = job \/ \E o \in {"append", "merge", "open", "read", "delete"} :
               job' = [job EXCEPT ![p] = o]
      PROVE  Same
  BY <1>5 DEF At, StoreTypeOK
<1>6. CASE ProcessStart(p) \/ Claimed(p) \/ ReleaseUnlink(p)
  BY <1>1, <1>3, <1>6 DEF ProcessStart, Claimed, ReleaseUnlink
<1>7. CASE ProcessDeath(p)
  BY <1>1, <1>2, <1>7 DEF ProcessDeath
<1>8. CASE Create(p) \/ Release(p)
  BY <1>1, <1>4, <1>8 DEF Create, Release
<1>9. CASE BeginAppend(p) \/ BeginMerge(p) \/ BeginOpen(p)
  BY <1>1, <1>9 DEF BeginAppend, BeginMerge, BeginOpen, Begin, At, StoreTypeOK
<1>10. CASE Lease(p)
  BY <1>1, <1>2, <1>4, <1>5, <1>10 DEF Lease
<1>11. CASE WriteHead(p) \/ WriteEnd(p)
  BY <1>1, <1>5, <1>11 DEF WriteHead, WriteEnd
<1>12. CASE ReadSummary(p)
  BY <1>1, <1>12 DEF ReadSummary, At, StoreTypeOK
<1>13. CASE FoldSummary(p) \/ MergeMetadata(p) \/ DeleteSummary(p)
  BY <1>1, <1>2, <1>13 DEF FoldSummary, MergeMetadata, DeleteSummary
<1>14. CASE BeginRead(p) \/ DeleteLog(p) \/ DeleteLock(p)
  BY <1>1, <1>5, <1>14 DEF BeginRead, DeleteLog, DeleteLock
<1>15. CASE LoadRead(p)
  <2>1. CASE Done(p)
    BY <1>1, <1>2, <1>15, <2>1 DEF LoadRead, Loaded
  <2>2. CASE view' = [view EXCEPT ![p] = log] /\ At(p, "check") /\ UNCHANGED <<job, item, prev, opened>>
    BY <1>1, <2>2 DEF At, StoreTypeOK
  <2> QED BY <1>15, <2>1, <2>2 DEF LoadRead, Loaded
<1>16. CASE LoadCheck(p)
  BY <1>1, <1>2, <1>5, <1>16 DEF LoadCheck, Loaded
<1>17. CASE LoadTruncate(p)
  BY <1>1, <1>2, <1>17 DEF LoadTruncate, Loaded
<1> QED BY <1>6, <1>7, <1>8, <1>9, <1>10, <1>11, <1>12, <1>13, <1>14, <1>15, <1>16, <1>17
        DEF StoreStep

\* Counters only grow, and a session is deleted for good.
LEMMA StepGrows ==
  ASSUME StoreTypeOK, NEW p \in Procs, StoreStep(p)
  PROVE  /\ entries' \in Nat /\ renames' \in Nat
         /\ entries' >= entries /\ renames' >= renames /\ (deleted => deleted')
<1>1. entries \in Nat /\ renames \in Nat
  BY StoreBoundsAssumption DEF StoreTypeOK
<1> QED
  BY <1>1 DEF StoreStep, ProcessStart, ProcessDeath, Create, BeginAppend, BeginMerge, BeginOpen, Begin,
         Lease, WriteHead, WriteEnd, ReadSummary, FoldSummary, MergeMetadata, Claimed, BeginRead,
         LoadRead, LoadCheck, LoadTruncate, Release, ReleaseUnlink, DeleteLog, DeleteLock,
         DeleteSummary, storeVars, disk

\* An operation that has ended leaves its process where it can begin another.
LEMMA DoneControl ==
  ASSUME StoreTypeOK, NEW p \in Procs, Done(p), pc'[p] = "idle",
         p \in opened' => life'[p] = "live"
  PROVE  ControlAt(p)'
<1>1. job'[p] = "none" /\ at'[p] = "out"
  BY DEF Done, At, StoreTypeOK
<1> QED BY <1>1 DEF ControlAt

LEMMA StepControl ==
  ASSUME LeaseInv, StoreTypeOK, ControlFits, NEW p \in Procs, StoreStep(p)
  PROVE  ControlAt(p)'
<1>a. ControlAt(p)
  BY DEF ControlFits
<1>b. LeaseTypeOK /\ (life[p] # "live" => pc[p] = "idle")
  BY DEF LeaseInv, OnlyLiveRun
<1>c. entries \in Nat /\ renames \in Nat
  BY StoreBoundsAssumption DEF StoreTypeOK
<1>1. CASE ProcessStart(p)
  BY <1>a, <1>b, <1>1 DEF ProcessStart, Birth, storeVars, ControlAt, LeaseTypeOK
<1>2. CASE ProcessDeath(p)
  <2>1. pc'[p] = "idle" /\ p \notin opened'
    BY <1>b, <1>2 DEF ProcessDeath, Crash, Leave, Goto, LeaseTypeOK
  <2> QED BY <1>2, <2>1, DoneControl DEF ProcessDeath
<1>3. CASE Create(p)
  BY <1>a, <1>3 DEF Create, Free, Idle, leaseVars, progress, disk, ControlAt
<1>4. CASE BeginAppend(p)
  BY <1>a, <1>b, <1>c, <1>4 DEF BeginAppend, Begin, Free, BeginAcquire, Idle, Goto, At, disk, StoreTypeOK,
     ControlAt, LeaseTypeOK
<1>5. CASE BeginMerge(p)
  BY <1>a, <1>b, <1>c, <1>5 DEF BeginMerge, Begin, Free, BeginAcquire, Idle, Goto, At, disk, StoreTypeOK,
     ControlAt, LeaseTypeOK
<1>6. CASE BeginOpen(p)
  BY <1>a, <1>b, <1>6 DEF BeginOpen, Begin, Free, BeginAcquire, Idle, Goto, At, disk, StoreTypeOK,
     ControlAt, LeaseTypeOK
<1>7. CASE Lease(p)
  <2>1. /\ pc'[p] \in {"link", "read", "judge", "replace", "idle", "write"}
        /\ life' = life /\ opened' = opened /\ entries' = entries /\ renames' = renames
        /\ deleted' = deleted
    BY <1>b, <1>7 DEF Lease, AcquireStep, Link, ReadLock, Judge, Replace, Leave, Goto, LeaseTypeOK, disk
  <2>2. at[p] = "lease" /\ life[p] = "live"
    BY <1>a, <1>7 DEF Lease, ControlAt
  <2>3. CASE pc'[p] \notin {"idle", "write"} /\ UNCHANGED progress
    BY <1>a, <2>1, <2>2, <2>3 DEF progress, ControlAt
  <2>4. CASE pc'[p] = "idle" /\ Done(p)
    BY <2>1, <2>2, <2>4, DoneControl
  <2>5. CASE /\ pc'[p] = "write"
             /\ At(p, CASE job[p] = "append" -> "head" [] job[p] = "merge" -> "fold" [] OTHER -> "load")
             /\ UNCHANGED <<job, item, view, prev>>
    BY <1>a, <2>1, <2>2, <2>5 DEF At, ControlAt, StoreTypeOK
  <2> QED BY <1>7, <2>3, <2>4, <2>5 DEF Lease
<1>8. CASE WriteHead(p) \/ WriteEnd(p)
  BY <1>a, <1>8 DEF WriteHead, WriteEnd, leaseVars, At, ControlAt, StoreTypeOK
<1>9. CASE ReadSummary(p)
  BY <1>a, <1>9 DEF ReadSummary, leaseVars, disk, At, ControlAt, StoreTypeOK
<1>10. CASE FoldSummary(p) \/ MergeMetadata(p)
  <2>1. pc'[p] = "idle" /\ Done(p) /\ life' = life /\ opened' = opened
    BY <1>b, <1>10 DEF FoldSummary, MergeMetadata, Finish, Goto, LeaseTypeOK
  <2>2. life[p] = "live"
    BY <1>a, <1>10 DEF FoldSummary, MergeMetadata, ControlAt
  <2> QED BY <2>1, <2>2, DoneControl
<1>11. CASE Claimed(p)
  BY <1>a, <1>b, <1>11 DEF Claimed, Finish, Goto, storeVars, ControlAt, LeaseTypeOK
<1>12. CASE BeginRead(p)
  BY <1>a, <1>12 DEF BeginRead, Free, Idle, leaseVars, At, disk, ControlAt, StoreTypeOK
<1>13. CASE LoadRead(p)
  <2>1. pc'[p] = "idle" /\ life'[p] = "live"
    BY <1>a, <1>13 DEF LoadRead, leaseVars, ControlAt
  <2>2. CASE Done(p)
    BY <2>1, <2>2, DoneControl
  <2>3. CASE /\ log # Missing /\ Torn(log)
             /\ view' = [view EXCEPT ![p] = log] /\ At(p, "check") /\ UNCHANGED <<job, item, prev, opened>>
    <3>1. at'[p] = "check" /\ view'[p] = log /\ job'[p] = job[p]
      BY <2>3 DEF At, StoreTypeOK
    <3>2. view'[p] # Missing /\ Torn(view'[p])
      BY <2>3, <3>1
    <3>3. job[p] \in {"open", "read"}
      BY <1>a, <1>13 DEF LoadRead, ControlAt
    <3> QED BY <2>1, <3>1, <3>2, <3>3 DEF ControlAt
  <2> QED BY <1>13, <2>2, <2>3 DEF LoadRead, Loaded
<1>14. CASE LoadCheck(p)
  <2>1. pc'[p] = "idle" /\ life'[p] = "live"
    BY <1>a, <1>14 DEF LoadCheck, leaseVars, ControlAt
  <2>2. CASE Loaded(p)
    BY <2>1, <2>2, DoneControl DEF Loaded
  <2>3. CASE At(p, "truncate") /\ UNCHANGED <<job, item, view, prev, opened>>
    <3>1. at'[p] = "truncate" /\ view'[p] = view[p] /\ job'[p] = job[p]
      BY <2>3 DEF At, StoreTypeOK
    <3>2. job[p] \in {"open", "read"} /\ view[p] # Missing /\ Torn(view[p])
      BY <1>a, <1>14 DEF LoadCheck, ControlAt
    <3>3. view'[p] # Missing /\ Torn(view'[p])
      BY <3>1, <3>2
    <3> QED BY <2>1, <3>1, <3>2, <3>3 DEF ControlAt
  <2> QED BY <1>14, <2>2, <2>3 DEF LoadCheck
<1>15. CASE LoadTruncate(p)
  <2>1. pc'[p] = "idle" /\ life'[p] = "live"
    BY <1>a, <1>15 DEF LoadTruncate, leaseVars, ControlAt
  <2> QED BY <1>15, <2>1, DoneControl DEF LoadTruncate, Loaded
<1>16. CASE Release(p)
  BY <1>a, <1>b, <1>16 DEF Release, BeginRelease, Idle, Goto, progress, disk, ControlAt, LeaseTypeOK
<1>17. CASE ReleaseUnlink(p)
  BY <1>a, <1>b, <1>17 DEF ReleaseUnlink, Unlink, Goto, storeVars, ControlAt, LeaseTypeOK
<1>18. CASE DeleteLog(p)
  BY <1>a, <1>18 DEF DeleteLog, Free, Idle, leaseVars, At, ControlAt, StoreTypeOK
<1>19. CASE DeleteLock(p)
  <2>1. pc' = pc /\ life' = life
    BY <1>19 DEF DeleteLock, DropLock, leaseVars
  <2> QED BY <1>a, <1>19, <2>1 DEF DeleteLock, At, disk, ControlAt, StoreTypeOK
<1>20. CASE DeleteSummary(p)
  <2>1. pc'[p] = "idle" /\ life'[p] = "live"
    BY <1>a, <1>20 DEF DeleteSummary, leaseVars, ControlAt
  <2> QED BY <1>20, <2>1, DoneControl DEF DeleteSummary
<1> QED BY <1>1, <1>2, <1>3, <1>4, <1>5, <1>6, <1>7, <1>8, <1>9, <1>10, <1>11, <1>12, <1>13,
           <1>14, <1>15, <1>16, <1>17, <1>18, <1>19, <1>20 DEF StoreStep

LEMMA ControlKept ==
  ASSUME LeaseInv, StoreTypeOK, ControlFits, NEW p \in Procs, StoreStep(p)
  PROVE  ControlFits'
<1>1. ControlAt(p)'
  BY StepControl
<1>2. ASSUME NEW q \in Procs, q # p PROVE ControlAt(q)'
  <2>1. /\ pc'[q] = pc[q] /\ life'[q] = life[q]
        /\ job'[q] = job[q] /\ at'[q] = at[q] /\ item'[q] = item[q] /\ view'[q] = view[q]
        /\ q \in opened' <=> q \in opened
    BY <1>2, OthersAlone DEF LeaseInv
  <2>2. ControlAt(q)
    BY DEF ControlFits
  <2>3. /\ entries' \in Nat /\ renames' \in Nat
        /\ entries' >= entries /\ renames' >= renames /\ (deleted => deleted')
    BY StepGrows
  <2>4. 1..entries \subseteq 1..entries' /\ 1..renames \subseteq 1..renames'
    BY <2>3, StoreBoundsAssumption DEF StoreTypeOK
  <2> QED BY <2>1, <2>2, <2>3, <2>4 DEF ControlAt, Torn, Newlines
<1> QED BY <1>1, <1>2 DEF ControlFits

---------------------------------------------------------------------------
(* Counts.                                                                 *)

\* How a step changes the set of appends under way.
LEMMA PendingStep ==
  ASSUME LeaseTypeOK, StoreTypeOK, CountsFit, NEW p \in Procs, StoreStep(p)
  PROVE  /\ IsFiniteSet(Pending') /\ Cardinality(Pending') \in Nat
         /\ job[p] = "append" /\ job'[p] # "append" =>
              Cardinality(Pending') + 1 = Cardinality(Pending)
         /\ job[p] # "append" /\ job'[p] = "append" =>
              Cardinality(Pending') = Cardinality(Pending) + 1
         /\ (job[p] = "append" <=> job'[p] = "append") =>
              Cardinality(Pending') = Cardinality(Pending)
<1>1. \A q \in Procs : q # p => job'[q] = job[q]
  BY OthersAlone
<1>2. IsFiniteSet(Pending) /\ Cardinality(Pending) \in Nat
  BY PendingCounted DEF CountsFit
<1>3. CASE job[p] = "append" /\ job'[p] # "append"
  <2>1. Pending' = Pending \ {p} /\ p \in Pending
    BY <1>1, <1>3 DEF Pending
  <2>2. IsFiniteSet(Pending') /\ Cardinality(Pending') = Cardinality(Pending) - 1
    BY <1>2, <2>1, FS_RemoveElement
  <2>3. Cardinality(Pending') \in Nat
    BY <2>2, FS_CardinalityType
  <2> QED BY <1>2, <1>3, <2>2, <2>3
<1>4. CASE job[p] # "append" /\ job'[p] = "append"
  <2>1. Pending' = Pending \cup {p} /\ p \notin Pending
    BY <1>1, <1>4 DEF Pending
  <2>2. IsFiniteSet(Pending') /\ Cardinality(Pending') = Cardinality(Pending) + 1
    BY <1>2, <2>1, FS_AddElement
  <2> QED BY <1>2, <1>4, <2>2
<1>5. CASE job[p] = "append" <=> job'[p] = "append"
  <2>1. Pending' = Pending
    BY <1>1, <1>5 DEF Pending
  <2> QED BY <1>2, <1>5, <2>1
<1> QED BY <1>3, <1>4, <1>5

\* Only an append adds to the counts, once it is no longer under way.
LEMMA CountsKept ==
  ASSUME LeaseInv, StoreTypeOK, ControlFits, CountsFit, NEW p \in Procs, StoreStep(p)
  PROVE  CountsFit'
<1> DEFINE n == Cardinality(Pending)
<1> DEFINE m == Cardinality(Pending')
<1>1. /\ IsFiniteSet(Pending') /\ m \in Nat /\ n \in Nat
      /\ job[p] = "append" /\ job'[p] # "append" => m + 1 = n
      /\ job[p] # "append" /\ job'[p] = "append" => m = n + 1
      /\ (job[p] = "append" <=> job'[p] = "append") => m = n
  BY PendingStep, PendingCounted DEF LeaseInv
<1>2. /\ skipped + n <= entries
      /\ summary # Missing => summary.count + n <= entries
      /\ \A q \in Procs : prev[q].count + n <= entries
  BY DEF CountsFit
<1>3. /\ entries \in Nat /\ skipped \in Nat
      /\ summary # Missing => summary.count \in Nat
      /\ \A q \in Procs : prev[q].count \in Nat
  BY StoreBoundsAssumption DEF StoreTypeOK, Summaries
<1>4. SUFFICES /\ skipped' + m <= entries'
               /\ summary' # Missing => summary'.count + m <= entries'
               /\ \A q \in Procs : prev'[q].count + m <= entries'
  BY <1>1 DEF CountsFit
<1> HIDE DEF n, m
<1>5. \A q \in Procs : q # p => prev'[q] = prev[q]
  BY OthersAlone DEF LeaseInv
<1>6. ControlAt(p)
  BY DEF ControlFits
<1>7. NoSummary.count = 0
  BY DEF NoSummary
<1>8. ASSUME Done(p) PROVE job'[p] = "none" /\ prev'[p] = NoSummary
  BY <1>8 DEF Done, StoreTypeOK
<1>9. CASE BeginAppend(p)
  <2>1. job[p] = "none" /\ job'[p] = "append" /\ entries' = entries + 1
        /\ UNCHANGED <<skipped, summary, prev>>
    BY <1>6, <1>9 DEF BeginAppend, Begin, Free, disk, StoreTypeOK, ControlAt
  <2>2. m = n + 1
    BY <2>1, <1>1
  <2> QED BY <1>1, <1>2, <1>3, <2>1, <2>2
<1>10. CASE \/ ProcessStart(p) \/ Claimed(p) \/ ReleaseUnlink(p)
            \/ Create(p) \/ Release(p) \/ BeginMerge(p) \/ BeginOpen(p) \/ WriteHead(p) \/ WriteEnd(p)
            \/ BeginRead(p) \/ DeleteLog(p) \/ DeleteLock(p)
  <2>1. UNCHANGED <<skipped, summary, prev, entries>>
    BY <1>10 DEF ProcessStart, Claimed, ReleaseUnlink, storeVars, Create, Release, progress, disk,
       BeginMerge, BeginOpen, Begin, WriteHead, WriteEnd, BeginRead, DeleteLog, DeleteLock
  <2>2. job'[p] = "append" => job[p] = "append"
    BY <1>10 DEF ProcessStart, Claimed, ReleaseUnlink, storeVars, Create, Release, progress, disk,
       BeginMerge, BeginOpen, Begin, WriteHead, WriteEnd, BeginRead, DeleteLog, DeleteLock, StoreTypeOK
  <2>3. m <= n
    BY <1>1, <2>2
  <2> QED BY <1>1, <1>2, <1>3, <2>1, <2>3
<1>11. CASE ProcessDeath(p)
  <2>1. /\ job'[p] = "none" /\ prev'[p] = NoSummary /\ UNCHANGED <<summary, entries>>
        /\ skipped' = skipped \/ (job[p] = "append" /\ skipped' = skipped + 1)
    BY <1>8, <1>11 DEF ProcessDeath
  <2>2. m <= n /\ (job[p] = "append" => m + 1 = n)
    BY <1>1, <2>1
  <2> QED BY <1>1, <1>2, <1>3, <1>5, <1>7, <2>1, <2>2
<1>12. CASE Lease(p)
  <2>1. /\ UNCHANGED <<skipped, summary, entries>>
        /\ job'[p] \in {job[p], "none"} /\ prev'[p] \in {prev[p], NoSummary}
    BY <1>8, <1>12 DEF Lease, progress, disk
  <2>2. m <= n
    BY <1>1, <2>1
  <2> QED BY <1>1, <1>2, <1>3, <1>5, <1>7, <2>1, <2>2
<1>13. CASE ReadSummary(p)
  <2>1. /\ UNCHANGED <<skipped, summary, entries, job>>
        /\ prev'[p] = IF summary = Missing THEN NoSummary ELSE summary
    BY <1>13 DEF ReadSummary, disk, StoreTypeOK
  <2>2. m = n
    BY <1>1, <2>1
  <2> QED BY <1>1, <1>2, <1>3, <1>5, <1>7, <2>1, <2>2
<1>14. CASE FoldSummary(p)
  <2>1. /\ job[p] = "append" /\ job'[p] = "none" /\ prev'[p] = NoSummary
        /\ UNCHANGED <<skipped, entries>> /\ summary' = [prev[p] EXCEPT !.count = @ + 1]
    BY <1>8, <1>14 DEF FoldSummary
  <2>2. m + 1 = n
    BY <1>1, <2>1
  <2>3. summary'.count = prev[p].count + 1
    <3>1. prev[p] \in Summaries
      BY DEF StoreTypeOK
    <3> QED BY <2>1, <3>1 DEF Summaries
  <2> QED BY <1>1, <1>2, <1>3, <1>5, <1>7, <2>1, <2>2, <2>3
<1>15. CASE MergeMetadata(p)
  <2>1. /\ job[p] = "merge" /\ job'[p] = "none" /\ prev'[p] = NoSummary
        /\ UNCHANGED <<skipped, entries>> /\ summary' = [prev[p] EXCEPT !.name = item[p]]
    BY <1>8, <1>15 DEF MergeMetadata
  <2>2. m = n
    BY <1>1, <2>1
  <2>3. summary'.count = prev[p].count
    <3>1. prev[p] \in Summaries
      BY DEF StoreTypeOK
    <3> QED BY <2>1, <3>1 DEF Summaries
  <2> QED BY <1>1, <1>2, <1>3, <1>5, <1>7, <2>1, <2>2, <2>3
<1>16. CASE LoadRead(p) \/ LoadCheck(p) \/ LoadTruncate(p) \/ DeleteSummary(p)
  <2>1. /\ UNCHANGED <<skipped, entries>> /\ summary' \in {summary, Missing}
        /\ job'[p] \in {job[p], "none"} /\ prev'[p] \in {prev[p], NoSummary}
    BY <1>8, <1>16 DEF LoadRead, LoadCheck, LoadTruncate, Loaded, DeleteSummary, disk
  <2>2. m <= n
    BY <1>1, <2>1
  <2> QED BY <1>1, <1>2, <1>3, <1>5, <1>7, <2>1, <2>2
<1> QED BY <1>9, <1>10, <1>11, <1>12, <1>13, <1>14, <1>15, <1>16 DEF StoreStep

---------------------------------------------------------------------------
(* The summary.                                                            *)

\* What has been disturbed stays so.
LEMMA StepDisturbs ==
  ASSUME StoreTypeOK, NEW p \in Procs, StoreStep(p), Undisturbed'
  PROVE  Undisturbed
<1>1. ~raced
  BY StepLease DEF Undisturbed, leaseVars, Birth, Crash, BeginAcquire, AcquireStep, Link, ReadLock,
     Judge, Replace, Finish, BeginRelease, Unlink, DropLock
<1> QED BY <1>1, StepGrows DEF Undisturbed

\* One process at a time is between its first write and its last.
LEMMA OneWriter ==
  ASSUME LeaseInv, ControlFits, ~raced, NEW p \in Procs, NEW q \in Procs,
         at[p] \in {"head", "end", "fold", "save"}, at[q] \in {"head", "end", "fold", "save"}
  PROVE  p = q
<1>1. pc[p] = "write" /\ pc[q] = "write"
  BY DEF ControlFits, ControlAt
<1> QED BY <1>1, OwnerUnique DEF LeaseInv, HolderOnDisk, OnlyLiveRun

LEMMA CurrentTypes ==
  ASSUME StoreTypeOK
  PROVE  Current \in Summaries /\ Current.count \in Nat
<1>1. NoSummary \in Summaries
  BY StoreBoundsAssumption DEF NoSummary, Summaries
<1>2. Current \in Summaries
  BY <1>1 DEF Current, StoreTypeOK
<1> QED BY <1>2, StoreBoundsAssumption DEF Summaries

IsFolding(p) == job[p] = "append" /\ at[p] \in {"fold", "save"}

LEMMA FoldingStep ==
  ASSUME LeaseTypeOK, StoreTypeOK, CountsFit, NEW p \in Procs, StoreStep(p)
  PROVE  /\ Cardinality(Folding) \in Nat /\ Cardinality(Folding') \in Nat
         /\ IsFolding(p) /\ ~IsFolding(p)' => Cardinality(Folding') + 1 = Cardinality(Folding)
         /\ ~IsFolding(p) /\ IsFolding(p)' => Cardinality(Folding') = Cardinality(Folding) + 1
         /\ (IsFolding(p) <=> IsFolding(p)') => Cardinality(Folding') = Cardinality(Folding)
<1>1. \A q \in Procs : q # p => (IsFolding(q)' <=> IsFolding(q))
  BY OthersAlone DEF IsFolding
<1>2. IsFiniteSet(Folding) /\ Cardinality(Folding) \in Nat
  <2>1. Folding \subseteq Pending /\ IsFiniteSet(Pending)
    BY DEF Folding, IsFolding, Pending, CountsFit
  <2>2. IsFiniteSet(Folding)
    BY <2>1, FS_Subset
  <2> QED BY <2>2, FS_CardinalityType
<1>3. CASE IsFolding(p) /\ ~IsFolding(p)'
  <2>1. Folding' = Folding \ {p} /\ p \in Folding
    BY <1>1, <1>3 DEF Folding, IsFolding
  <2>2. IsFiniteSet(Folding') /\ Cardinality(Folding') = Cardinality(Folding) - 1
    BY <1>2, <2>1, FS_RemoveElement
  <2>3. Cardinality(Folding') \in Nat
    BY <2>2, FS_CardinalityType
  <2> QED BY <1>2, <1>3, <2>2, <2>3
<1>4. CASE ~IsFolding(p) /\ IsFolding(p)'
  <2>1. Folding' = Folding \cup {p} /\ p \notin Folding
    BY <1>1, <1>4 DEF Folding, IsFolding
  <2>2. IsFiniteSet(Folding') /\ Cardinality(Folding') = Cardinality(Folding) + 1
    BY <1>2, <2>1, FS_AddElement
  <2> QED BY <1>2, <1>4, <2>2
<1>5. CASE IsFolding(p) <=> IsFolding(p)'
  <2>1. Folding' = Folding
    BY <1>1, <1>5 DEF Folding, IsFolding
  <2> QED BY <1>2, <1>5, <2>1
<1> QED BY <1>3, <1>4, <1>5

\* SummaryKept in terms of the summary as a reader takes it.
LEMMA SummaryKeptIs ==
  SummaryKept <=> (Undisturbed => /\ Len(acked) = Current.count + skipped + Cardinality(Folding)
                                  /\ named = Current.name)
<1>1. (IF summary = Missing THEN 0 ELSE summary.count) = Current.count
      /\ (IF summary = Missing THEN 0 ELSE summary.name) = Current.name
  BY DEF Current, NoSummary
<1> QED BY <1>1 DEF SummaryKept, SummaryCountsAcked, RenameKept

\* Between the read of a summary and its rewrite nobody else rewrites it, and
\* every acknowledged entry is counted, skipped by a crash or about to be counted.
LEMMA SummaryStep ==
  ASSUME LeaseInv, StoreTypeOK, ControlFits, CountsFit, SavesCurrent, SummaryKept,
         NEW p \in Procs, StoreStep(p)
  PROVE  SavesCurrent' /\ SummaryKept'
<1> SUFFICES ASSUME Undisturbed'
             PROVE  /\ \A q \in Procs : at'[q] = "save" => prev'[q] = Current'
                    /\ Len(acked') = Current'.count + skipped' + Cardinality(Folding')
                    /\ named' = Current'.name
  <2>1. /\ (IF summary' = Missing THEN 0 ELSE summary'.count) = Current'.count
        /\ (IF summary' = Missing THEN 0 ELSE summary'.name) = Current'.name
    BY DEF Current, NoSummary
  <2> QED BY <2>1 DEF SavesCurrent, SummaryKept, SummaryCountsAcked, RenameKept
<1>1. Undisturbed
  BY StepDisturbs
<1>2. /\ \A q \in Procs : at[q] = "save" => prev[q] = Current
      /\ Len(acked) = Current.count + skipped + Cardinality(Folding)
      /\ named = Current.name
  BY <1>1, SummaryKeptIs DEF SavesCurrent
<1>3. \A q \in Procs : q # p => at'[q] = at[q] /\ prev'[q] = prev[q]
  BY OthersAlone DEF LeaseInv
<1>4. /\ Cardinality(Folding) \in Nat /\ Cardinality(Folding') \in Nat
      /\ IsFolding(p) /\ ~IsFolding(p)' => Cardinality(Folding') + 1 = Cardinality(Folding)
      /\ ~IsFolding(p) /\ IsFolding(p)' => Cardinality(Folding') = Cardinality(Folding) + 1
      /\ (IsFolding(p) <=> IsFolding(p)') => Cardinality(Folding') = Cardinality(Folding)
  BY FoldingStep DEF LeaseInv
<1>5. Current \in Summaries /\ Current.count \in Nat /\ skipped \in Nat /\ Len(acked) \in Nat
  BY CurrentTypes, StoreBoundsAssumption, LenProperties DEF StoreTypeOK
<1>6. ControlAt(p)
  BY DEF ControlFits
<1>7. ASSUME Done(p) PROVE job'[p] = "none" /\ at'[p] = "out"
  BY <1>7 DEF Done, At, StoreTypeOK
<1>8. \* A step that changes nothing of this.
      ASSUME UNCHANGED <<summary, acked, skipped, named>>, IsFolding(p) <=> IsFolding(p)',
             at'[p] = "save" => at[p] = "save" /\ prev'[p] = prev[p]
      PROVE  /\ \A q \in Procs : at'[q] = "save" => prev'[q] = Current'
             /\ Len(acked') = Current'.count + skipped' + Cardinality(Folding')
             /\ named' = Current'.name
  <2>1. Current' = Current
    BY <1>8 DEF Current
  <2>2. Cardinality(Folding') = Cardinality(Folding)
    BY <1>4, <1>8
  <2>3. \A q \in Procs : at'[q] = "save" => prev'[q] = Current'
    BY <1>2, <1>3, <1>8, <2>1
  <2> QED BY <1>2, <1>8, <2>1, <2>2, <2>3
<1>9. CASE ProcessStart(p) \/ Claimed(p) \/ ReleaseUnlink(p) \/ Create(p) \/ Release(p)
  BY <1>8, <1>9 DEF ProcessStart, Claimed, ReleaseUnlink, Create, Release, storeVars, progress, disk,
                    IsFolding
<1>10. CASE ProcessDeath(p)
  <2>1. /\ ~IsFolding(p)' /\ at'[p] = "out" /\ UNCHANGED <<summary, acked, named>>
        /\ skipped' = IF IsFolding(p) THEN skipped + 1 ELSE skipped
    BY <1>7, <1>10 DEF ProcessDeath, IsFolding
  <2>2. Current' = Current
    BY <2>1 DEF Current
  <2>3. \A q \in Procs : at'[q] = "save" => prev'[q] = Current'
    BY <1>2, <1>3, <2>1, <2>2
  <2> QED BY <1>2, <1>4, <1>5, <2>1, <2>2, <2>3
<1>11. CASE BeginAppend(p) \/ BeginMerge(p) \/ BeginOpen(p)
  <2>1. /\ at[p] = "out" /\ at'[p] = "lease" /\ UNCHANGED <<summary, acked, skipped, named>>
    BY <1>11 DEF BeginAppend, BeginMerge, BeginOpen, Begin, Free, At, disk, StoreTypeOK
  <2> QED BY <1>8, <2>1 DEF IsFolding
<1>12. CASE Lease(p)
  <2>1. /\ at[p] = "lease" /\ UNCHANGED <<summary, acked, skipped, named>>
        /\ \/ at'[p] \in {"lease", "out", "head", "load"}
           \/ at'[p] = "fold" /\ job'[p] = "merge"
    BY <1>7, <1>12 DEF Lease, At, progress, disk, StoreTypeOK
  <2> QED BY <1>8, <2>1 DEF IsFolding
<1>13. CASE WriteHead(p)
  <2>1. /\ at[p] = "head" /\ at'[p] = "end" /\ UNCHANGED <<summary, acked, skipped, named>>
    BY <1>13 DEF WriteHead, At, StoreTypeOK
  <2> QED BY <1>8, <2>1 DEF IsFolding
<1>14. CASE WriteEnd(p)
  <2>1. /\ at[p] = "end" /\ at'[p] = "fold" /\ job'[p] = "append" /\ UNCHANGED <<summary, skipped, named>>
    BY <1>6, <1>14 DEF WriteEnd, At, StoreTypeOK, ControlAt
  <2>2. Len(acked') = Len(acked) + 1
    BY <1>14, AppendProperties DEF WriteEnd, StoreTypeOK
  <2>3. Current' = Current /\ ~IsFolding(p) /\ IsFolding(p)'
    BY <2>1 DEF Current, IsFolding
  <2>4. \A q \in Procs : at'[q] = "save" => prev'[q] = Current'
    BY <1>2, <1>3, <2>1, <2>3
  <2>5. Cardinality(Folding') = Cardinality(Folding) + 1
    BY <1>4, <2>3
  <2>6. Len(acked') = Current'.count + skipped' + Cardinality(Folding')
    BY <1>2, <1>4, <1>5, <2>1, <2>2, <2>3, <2>5
  <2> QED BY <1>2, <2>1, <2>3, <2>4, <2>6
<1>15. CASE ReadSummary(p)
  <2>1. /\ at[p] = "fold" /\ at'[p] = "save" /\ job' = job /\ prev'[p] = Current
        /\ UNCHANGED <<summary, acked, skipped, named>>
    BY <1>15 DEF ReadSummary, At, disk, StoreTypeOK, Current
  <2>2. Current' = Current /\ (IsFolding(p) <=> IsFolding(p)')
    BY <2>1 DEF Current, IsFolding
  <2>3. \A q \in Procs : at'[q] = "save" => prev'[q] = Current'
    BY <1>2, <1>3, <2>1, <2>2
  <2> QED BY <1>2, <1>4, <1>5, <2>1, <2>2, <2>3
<1>16. CASE FoldSummary(p) \/ MergeMetadata(p)
  <2>1. /\ at[p] = "save" /\ job'[p] = "none" /\ at'[p] = "out" /\ UNCHANGED <<acked, skipped>>
        /\ \/ /\ job[p] = "append" /\ summary' = [prev[p] EXCEPT !.count = @ + 1] /\ named' = named
           \/ /\ job[p] = "merge" /\ summary' = [prev[p] EXCEPT !.name = item[p]] /\ named' = item[p]
    BY <1>7, <1>16 DEF FoldSummary, MergeMetadata
  <2>2. \A q \in Procs : at'[q] # "save"
    BY <1>1, <1>3, <2>1, OneWriter DEF Undisturbed
  <2>3. prev[p] = Current
    BY <1>2, <2>1
  <2>6. Current' = summary'
    BY <1>16, SavedSummary, FilesAssumption DEF Current
  <2>7. CASE job[p] = "append"
    <3>1. summary' = [Current EXCEPT !.count = @ + 1] /\ named' = named
      BY <2>1, <2>3, <2>7
    <3>2. Current'.count = Current.count + 1 /\ Current'.name = Current.name
      BY <1>5, <2>6, <3>1 DEF Summaries
    <3>3. Cardinality(Folding') + 1 = Cardinality(Folding)
      <4>1. IsFolding(p) /\ ~IsFolding(p)'
        BY <2>1, <2>7 DEF IsFolding
      <4> QED BY <1>4, <4>1
    <3>4. Len(acked') = Current'.count + skipped' + Cardinality(Folding')
      <4>1. acked' = acked /\ skipped' = skipped
        BY <2>1
      <4> QED BY <1>2, <1>4, <1>5, <3>2, <3>3, <4>1
    <3> QED BY <1>2, <2>2, <3>1, <3>2, <3>4
  <2>8. CASE job[p] = "merge"
    <3>1. summary' = [Current EXCEPT !.name = item[p]] /\ named' = item[p]
      BY <2>1, <2>3, <2>8
    <3>2. Current'.count = Current.count /\ Current'.name = item[p]
      BY <1>5, <2>6, <3>1 DEF Summaries
    <3>3. ~IsFolding(p) /\ ~IsFolding(p)'
      BY <2>1, <2>8 DEF IsFolding
    <3> QED BY <1>2, <1>4, <1>5, <2>1, <2>2, <3>1, <3>2, <3>3
  <2> QED BY <2>1, <2>7, <2>8
<1>17. CASE BeginRead(p)
  <2>1. /\ at[p] = "out" /\ at'[p] = "load" /\ UNCHANGED <<summary, acked, skipped, named>>
    BY <1>17 DEF BeginRead, Free, At, disk, StoreTypeOK
  <2> QED BY <1>8, <2>1 DEF IsFolding
<1>18. CASE LoadRead(p) \/ LoadCheck(p) \/ LoadTruncate(p)
  <2>1. /\ at[p] \in {"load", "check", "truncate"} /\ at'[p] \in {"out", "check", "truncate"}
        /\ UNCHANGED <<summary, acked, skipped, named>>
    BY <1>7, <1>18 DEF LoadRead, LoadCheck, LoadTruncate, Loaded, At, disk, StoreTypeOK
  <2> QED BY <1>8, <2>1 DEF IsFolding
<1>19. CASE DeleteLog(p) \/ DeleteLock(p) \/ DeleteSummary(p)
  BY <1>6, <1>19 DEF DeleteLog, DeleteLock, DeleteSummary, disk, ControlAt, Undisturbed
<1> QED BY <1>9, <1>10, <1>11, <1>12, <1>13, <1>14, <1>15, <1>16, <1>17, <1>18, <1>19 DEF StoreStep

---------------------------------------------------------------------------
(* Entries.                                                                *)

\* A write adds the bytes of its entry and a repair adds none.
LEMMA AppendMentions ==
  ASSUME NEW f \in Files, NEW x \in Fragments, NEW e \in Nat, Mentions(Append(Bytes(f), x), e)
  PROVE  Mentions(f, e) \/ e = x.id
<1> DEFINE g == Append(Bytes(f), x)
<1>1. PICK i \in 1..Len(g) : g[i].id = e
  BY DEF Mentions
<1>2. Bytes(f) \in Seq(Fragments) /\ (f # Missing => Bytes(f) = f) /\ (f = Missing => Len(Bytes(f)) = 0)
  BY DEF Bytes, Files
<1>3. /\ Len(g) = Len(Bytes(f)) + 1 /\ g[Len(Bytes(f)) + 1] = x /\ Len(Bytes(f)) \in Nat
      /\ \A k \in 1..Len(Bytes(f)) : g[k] = Bytes(f)[k]
  BY <1>2, AppendProperties, LenProperties
<1> HIDE DEF g
<1>4. CASE i \in 1..Len(Bytes(f))
  <2>1. f # Missing
    BY <1>2, <1>4
  <2>2. i \in 1..Len(f) /\ f[i].id = e
    BY <1>1, <1>2, <1>3, <1>4, <2>1
  <2> QED BY <2>1, <2>2 DEF Mentions
<1>5. CASE i = Len(Bytes(f)) + 1
  BY <1>1, <1>3, <1>5
<1> QED BY <1>1, <1>3, <1>4, <1>5

LEMMA TruncatedMentions ==
  ASSUME NEW f \in Seq(Fragments), NEW n \in Nat, NEW e \in Nat \ {0}, Mentions(Truncated(f, n), e)
  PROVE  Mentions(f, e)
<1> DEFINE g == Truncated(f, n)
<1>1. /\ Len(g) = n
      /\ \A i \in 1..n : i <= Len(f) => g[i] = f[i]
      /\ \A i \in 1..n : ~(i <= Len(f)) => g[i].id = 0
  BY TruncatedFacts
<1>2. PICK i \in 1..n : g[i].id = e
  BY <1>1 DEF Mentions
<1> HIDE DEF g
<1>3. i <= Len(f) /\ g[i] = f[i]
  BY <1>1, <1>2
<1>4. i \in 1..Len(f) /\ f[i].id = e
  BY <1>2, <1>3, LenProperties
<1>5. f # Missing
  BY FilesAssumption
<1> QED BY <1>4, <1>5 DEF Mentions

\* What a step does to the transcript.
LEMMA LogStep ==
  ASSUME StoreTypeOK, ControlFits, NEW p \in Procs, StoreStep(p)
  PROVE  \/ log' = log
         \/ /\ WriteHead(p) \/ WriteEnd(p)
            /\ \E x \in Fragments : x.id = item[p] /\ log' = Append(Bytes(log), x)
         \/ /\ LoadTruncate(p) /\ log \in Seq(Fragments) /\ view[p] \in Seq(Fragments)
            /\ Keep(view[p]) \in Nat /\ log' = Truncated(log, Keep(view[p]))
         \/ DeleteLog(p) /\ log' = Missing
<1>1. CASE WriteHead(p) \/ WriteEnd(p)
  <2>1. item[p] \in 0..MaxEntries
    <3>1. item[p] \in 1..entries
      BY <1>1 DEF WriteHead, WriteEnd, ControlFits, ControlAt
    <3> QED BY <3>1, StoreBoundsAssumption DEF StoreTypeOK
  <2>2. \A s \in {"head", "end"} : [part |-> s, id |-> item[p]] \in Fragments
                                   /\ [part |-> s, id |-> item[p]].id = item[p]
    BY <2>1 DEF Fragments
  <2> QED BY <1>1, <2>2 DEF WriteHead, WriteEnd
<1>2. CASE LoadTruncate(p)
  <2>1. CASE log = Missing
    BY <1>2, <2>1 DEF LoadTruncate
  <2>2. CASE log # Missing
    <3>1. log \in Seq(Fragments) /\ view[p] \in Seq(Fragments)
      BY <1>2, <2>2 DEF LoadTruncate, StoreTypeOK, Files, ControlFits, ControlAt
    <3>2. Keep(view[p]) \in Nat
      BY <3>1, KeepNat
    <3> QED BY <1>2, <2>2, <3>1, <3>2 DEF LoadTruncate
  <2> QED BY <2>1, <2>2
<1>3. CASE DeleteLog(p)
  BY <1>3 DEF DeleteLog
<1>4. CASE ~(WriteHead(p) \/ WriteEnd(p) \/ LoadTruncate(p) \/ DeleteLog(p))
  BY <1>4 DEF StoreStep, ProcessStart, ProcessDeath, Create, BeginAppend, BeginMerge, BeginOpen, Begin,
         Lease, ReadSummary, FoldSummary, MergeMetadata, Claimed, BeginRead,
         LoadRead, LoadCheck, Release, ReleaseUnlink, DeleteLock, DeleteSummary, storeVars, disk
<1> QED BY <1>1, <1>2, <1>3, <1>4

\* What a step does to what the load() of its process has read.
LEMMA ViewStep ==
  ASSUME StoreTypeOK, NEW p \in Procs, StoreStep(p)
  PROVE  \/ view'[p] \in {view[p], Missing}
         \/ LoadRead(p) /\ log' = log /\ log # Missing /\ view'[p] = log
<1>1. Done(p) => view'[p] = Missing
  BY DEF Done, StoreTypeOK
<1>2. CASE LoadRead(p)
  BY <1>1, <1>2 DEF LoadRead, Loaded, disk, StoreTypeOK
<1>3. CASE ~LoadRead(p)
  BY <1>1, <1>3 DEF StoreStep, ProcessStart, ProcessDeath, Create, BeginAppend, BeginMerge, BeginOpen, Begin,
         Lease, WriteHead, WriteEnd, ReadSummary, FoldSummary, MergeMetadata, Claimed, BeginRead,
         LoadCheck, LoadTruncate, Loaded, Release, ReleaseUnlink, DeleteLog, DeleteLock,
         DeleteSummary, storeVars, progress
<1> QED BY <1>2, <1>3

LEMMA MentionStep ==
  ASSUME LeaseInv, StoreTypeOK, ControlFits, NEW p \in Procs, StoreStep(p), NEW e \in Nat \ {0}
  PROVE  /\ Mentions(log', e) => \/ Mentions(log, e)
                                 \/ at[p] \in {"head", "end"} /\ e = item[p]
         /\ \A q \in Procs : Mentions(view'[q], e) => Mentions(view[q], e) \/ Mentions(log, e)
<1>1. ASSUME Mentions(log', e)
      PROVE  Mentions(log, e) \/ (at[p] \in {"head", "end"} /\ e = item[p])
  <2>1. CASE log' = log
    BY <1>1, <2>1
  <2>2. CASE /\ WriteHead(p) \/ WriteEnd(p)
             /\ \E x \in Fragments : x.id = item[p] /\ log' = Append(Bytes(log), x)
    <3>1. PICK x \in Fragments : x.id = item[p] /\ log' = Append(Bytes(log), x)
      BY <2>2
    <3>2. Mentions(log, e) \/ e = x.id
      BY <1>1, <3>1, AppendMentions DEF StoreTypeOK
    <3> QED BY <2>2, <3>1, <3>2 DEF WriteHead, WriteEnd
  <2>3. CASE /\ log \in Seq(Fragments) /\ Keep(view[p]) \in Nat
             /\ log' = Truncated(log, Keep(view[p]))
    BY <1>1, <2>3, TruncatedMentions
  <2>4. CASE log' = Missing
    BY <1>1, <2>4 DEF Mentions
  <2> QED BY <2>1, <2>2, <2>3, <2>4, LogStep
<1>2. ASSUME NEW q \in Procs, Mentions(view'[q], e) PROVE Mentions(view[q], e) \/ Mentions(log, e)
  <2>1. CASE q # p
    <3>1. view'[q] = view[q]
      BY <2>1, OthersAlone DEF LeaseInv
    <3> QED BY <1>2, <3>1
  <2>2. CASE q = p
    <3>1. view'[p] = view[p] \/ view'[p] = Missing \/ view'[p] = log
      BY ViewStep
    <3>2. ~Mentions(Missing, e)
      BY DEF Mentions
    <3> QED BY <1>2, <2>2, <3>1, <3>2
  <2> QED BY <2>1, <2>2
<1> QED BY <1>1, <1>2

LEMMA ItemsKept ==
  ASSUME LeaseInv, StoreTypeOK, ControlFits, ItemsFresh, NEW p \in Procs, StoreStep(p)
  PROVE  ItemsFresh'
<1>a. /\ entries \in Nat /\ entries' \in Nat /\ entries' >= entries
  BY StepGrows, StoreBoundsAssumption DEF StoreTypeOK
<1>b. \A q \in Procs : q # p => job'[q] = job[q] /\ at'[q] = at[q] /\ item'[q] = item[q]
  BY OthersAlone DEF LeaseInv
<1>c. \A q \in Procs : job[q] = "append" => item[q] \in 1..entries
  BY DEF ControlFits, ControlAt
<1>d. at[p] \in {"head", "end"} => job[p] = "append"
  BY DEF ControlFits, ControlAt
<1>e. Done(p) => job'[p] = "none"
  BY DEF Done, StoreTypeOK
\* The entry of an append is handed to it when it begins.
<1>f. ASSUME job'[p] = "append"
      PROVE  \/ BeginAppend(p) /\ item'[p] = entries + 1 /\ entries' = entries + 1
             \/ job[p] = "append" /\ item'[p] = item[p]
  <2>1. CASE BeginAppend(p)
    <3>1. entries' = entries + 1 /\ item'[p] = entries'
      BY <2>1 DEF BeginAppend, Begin, StoreTypeOK
    <3> QED BY <2>1, <3>1
  <2>2. CASE ~BeginAppend(p)
    BY <1>e, <1>f, <2>2 DEF StoreStep, ProcessStart, ProcessDeath, Create, BeginMerge, BeginOpen, Begin,
         Lease, WriteHead, WriteEnd, ReadSummary, FoldSummary, MergeMetadata, Claimed, BeginRead,
         LoadRead, LoadCheck, LoadTruncate, Loaded, Release, ReleaseUnlink, DeleteLog, DeleteLock,
         DeleteSummary, storeVars, progress, StoreTypeOK
  <2> QED BY <2>1, <2>2
\* It is not written before the append has the lease.
<1>g. ASSUME job'[p] = "append", at'[p] \in {"lease", "head"}, ~BeginAppend(p)
      PROVE  job[p] = "append" /\ at[p] \in {"lease", "head"} /\ log' = log
  BY <1>e, <1>g DEF StoreStep, ProcessStart, ProcessDeath, Create, BeginMerge, BeginOpen, Begin,
       Lease, WriteHead, WriteEnd, ReadSummary, FoldSummary, MergeMetadata, Claimed, BeginRead,
       LoadRead, LoadCheck, LoadTruncate, Loaded, Release, ReleaseUnlink, DeleteLog, DeleteLock,
       DeleteSummary, storeVars, progress, disk, StoreTypeOK, Free, At, ControlFits, ControlAt
<1>1. ASSUME NEW q \in Procs, NEW r \in Procs,
             job'[q] = "append", job'[r] = "append", item'[q] = item'[r]
      PROVE  q = r
  BY <1>1, <1>a, <1>b, <1>c, <1>f DEF ItemsFresh
<1>2. ASSUME NEW e \in Nat, e > entries'
      PROVE  ~Mentions(log', e) /\ \A q \in Procs : ~Mentions(view'[q], e)
  <2>1. e \in Nat \ {0} /\ e > entries
    BY <1>2, <1>a
  <2>2. /\ Mentions(log', e) => Mentions(log, e) \/ (at[p] \in {"head", "end"} /\ e = item[p])
        /\ \A q \in Procs : Mentions(view'[q], e) => Mentions(view[q], e) \/ Mentions(log, e)
    BY <2>1, MentionStep
  <2>3. ~Mentions(log, e) /\ \A q \in Procs : ~Mentions(view[q], e)
    BY <2>1 DEF ItemsFresh
  <2>4. at[p] \in {"head", "end"} => e # item[p]
    BY <2>1, <1>a, <1>c, <1>d
  <2> QED BY <2>2, <2>3, <2>4
<1>3. ASSUME NEW r \in Procs, job'[r] = "append", at'[r] \in {"lease", "head"}
      PROVE  ~Mentions(log', item'[r]) /\ \A q \in Procs : ~Mentions(view'[q], item'[r])
  <2>1. PICK e \in Nat \ {0} : e = item'[r]
    BY <1>3, <1>a, <1>b, <1>c, <1>f
  <2>2. /\ Mentions(log', e) => Mentions(log, e) \/ (at[p] \in {"head", "end"} /\ e = item[p])
        /\ \A q \in Procs : Mentions(view'[q], e) => Mentions(view[q], e) \/ Mentions(log, e)
    BY MentionStep
  <2>3. CASE r = p /\ BeginAppend(p)
    <3>1. e > entries /\ at[p] = "out"
      <4>1. at[p] = "out" /\ job[p] = "none"
        BY <2>3 DEF BeginAppend, Begin, Free, ControlFits, ControlAt
      <4> QED BY <1>3, <1>a, <1>f, <2>1, <2>3, <4>1
    <3>2. ~Mentions(log, e) /\ \A q \in Procs : ~Mentions(view[q], e)
      BY <3>1 DEF ItemsFresh
    <3> QED BY <2>1, <2>2, <3>1, <3>2
  <2>4. CASE r = p /\ ~BeginAppend(p)
    <3>1. job[p] = "append" /\ at[p] \in {"lease", "head"} /\ log' = log /\ e = item[p]
      BY <1>3, <1>f, <1>g, <2>1, <2>4
    <3>2. ~Mentions(log, e) /\ \A q \in Procs : ~Mentions(view[q], e)
      BY <3>1 DEF ItemsFresh
    <3> QED BY <2>1, <2>2, <3>1, <3>2
  <2>5. CASE r # p
    <3>1. job[r] = "append" /\ at[r] \in {"lease", "head"} /\ e = item[r]
      BY <1>3, <1>b, <2>1, <2>5
    <3>2. ~Mentions(log, e) /\ \A q \in Procs : ~Mentions(view[q], e)
      BY <3>1 DEF ItemsFresh
    <3>3. at[p] \in {"head", "end"} => e # item[p]
      BY <3>1, <2>5, <1>d DEF ItemsFresh
    <3> QED BY <2>1, <2>2, <3>2, <3>3
  <2> QED BY <2>3, <2>4, <2>5
<1>4. ASSUME entries' = 0 PROVE log' = Missing
  <2>1. entries = 0 /\ log = Missing
    BY <1>4, <1>a DEF ItemsFresh
  <2>2. ~WriteHead(p) /\ ~WriteEnd(p)
    BY <2>1, <1>c, <1>d DEF WriteHead, WriteEnd
  <2> QED BY <2>1, <2>2, LogStep, FilesAssumption
<1> QED BY <1>1, <1>2, <1>3, <1>4 DEF ItemsFresh, Mentions

---------------------------------------------------------------------------
(* Writers.                                                                *)

\* A live owner keeps the lease until it releases it.
LEMMA OwnerStays ==
  ASSUME LeaseInv, StoreTypeOK, ControlFits, NEW p \in Procs, StoreStep(p), Undisturbed',
         NEW q \in Procs, life[q] = "live", pc[q] # "unlink", lock \in Procs, Owned(q, lock)
  PROVE  lock' \in Procs /\ Owned(q, lock')
<1>1. CASE lock' = lock
  BY <1>1
<1>2. CASE Lease(p)
  <2>1. CASE Link(p)
    BY <2>1, <1>1, LockStatesAssumption DEF Link
  <2>2. CASE ReadLock(p) \/ Judge(p)
    BY <2>2, <1>1 DEF ReadLock, Judge
  <2>3. CASE Replace(p)
    <3>1. lock' = p /\ Replaceable(p, lock)
      BY <2>3 DEF Replace, Undisturbed
    <3>2. Stale(p, lock)
      BY <3>1, LockStatesAssumption DEF Replaceable
    <3>3. ~Stale(p, lock)
      BY OwnerNotStale DEF LeaseInv
    <3> QED BY <3>2, <3>3
  <2> QED BY <1>2, <2>1, <2>2, <2>3 DEF Lease, AcquireStep
<1>3. CASE ReleaseUnlink(p)
  <2>1. pc[p] = "unlink" /\ ~raced
    BY <1>3, StepDisturbs DEF ReleaseUnlink, Unlink, Undisturbed
  <2>2. life[p] = "live" /\ Owned(p, lock)
    BY <2>1 DEF LeaseInv, OnlyLiveRun, HolderOnDisk
  <2>3. p = q
    BY <2>2, OwnerUnique DEF LeaseInv
  <2> QED BY <2>1, <2>3
<1>4. CASE DeleteLock(p)
  BY <1>4 DEF DeleteLock, ControlFits, ControlAt, disk, Undisturbed
<1>5. CASE ~(Lease(p) \/ ReleaseUnlink(p) \/ DeleteLock(p))
  <2>1. lock' = lock
    BY <1>5 DEF StoreStep, ProcessStart, Birth, ProcessDeath, Crash, Create, BeginAppend, BeginMerge,
       BeginOpen, Begin, BeginAcquire, WriteHead, WriteEnd, ReadSummary, FoldSummary, MergeMetadata,
       Claimed, Finish, BeginRead, LoadRead, LoadCheck, LoadTruncate, Release, BeginRelease,
       DeleteLog, DeleteSummary, leaseVars
  <2> QED BY <2>1
<1> QED BY <1>2, <1>3, <1>4, <1>5

\* Nothing but delete() removes a transcript, and only an append creates one.
LEMMA LogStays ==
  ASSUME StoreTypeOK, ControlFits, NEW p \in Procs, StoreStep(p), Undisturbed'
  PROVE  /\ log # Missing => log' # Missing
         /\ log = Missing /\ log' # Missing => WriteHead(p) \/ WriteEnd(p)
<1>1. CASE log' = log
  BY <1>1
<1>2. CASE /\ WriteHead(p) \/ WriteEnd(p)
           /\ \E x \in Fragments : x.id = item[p] /\ log' = Append(Bytes(log), x)
  <2>1. PICK x \in Fragments : log' = Append(Bytes(log), x)
    BY <1>2
  <2>2. Bytes(log) \in Seq(Fragments)
    BY DEF Bytes, StoreTypeOK, Files
  <2>3. Append(Bytes(log), x) \in Seq(Fragments)
    BY <2>2
  <2> QED BY <1>2, <2>1, <2>3, FilesAssumption
<1>3. CASE /\ log \in Seq(Fragments) /\ Keep(view[p]) \in Nat
           /\ log' = Truncated(log, Keep(view[p]))
  BY <1>3, TruncatedFacts, FilesAssumption
<1>4. CASE DeleteLog(p)
  BY <1>4 DEF DeleteLog, Undisturbed
<1> QED BY <1>1, <1>2, <1>3, <1>4, LogStep

\* How processes come by a writer and lose it.
LEMMA OpenedStep ==
  ASSUME StoreTypeOK, NEW p \in Procs, StoreStep(p)
  PROVE  \/ opened' = opened
         \/ Create(p) /\ entries = 0 /\ opened = {} /\ opened' = {p} /\ log' = log
         \/ (ProcessDeath(p) \/ Release(p)) /\ opened' = opened \ {p} /\ at'[p] = "out"
         \/ /\ job[p] = "open" /\ opened' = opened \cup {p} /\ at'[p] = "out"
            /\ \/ LoadRead(p) /\ log # Missing /\ ~Torn(log)
               \/ LoadCheck(p) /\ LiveForeignHolder(p)
               \/ LoadTruncate(p) /\ log # Missing
<1>1. Done(p) => at'[p] = "out"
  BY DEF Done, At, StoreTypeOK
<1>2. CASE ProcessDeath(p) \/ Release(p)
  BY <1>1, <1>2 DEF ProcessDeath, Release, progress
<1>3. CASE Create(p)
  BY <1>3 DEF Create, disk
<1>4. CASE LoadRead(p) \/ LoadCheck(p) \/ LoadTruncate(p)
  BY <1>1, <1>4 DEF LoadRead, LoadCheck, LoadTruncate, Loaded
<1>5. CASE ~(ProcessDeath(p) \/ Release(p) \/ Create(p) \/ LoadRead(p) \/ LoadCheck(p) \/ LoadTruncate(p))
  BY <1>5 DEF StoreStep, ProcessStart, BeginAppend, BeginMerge, BeginOpen, Begin,
         Lease, WriteHead, WriteEnd, ReadSummary, FoldSummary, MergeMetadata, Claimed, BeginRead,
         ReleaseUnlink, DeleteLog, DeleteLock, DeleteSummary, storeVars
<1> QED BY <1>2, <1>3, <1>4, <1>5

\* How a process comes to hold the session.
LEMMA HoldingBegins ==
  ASSUME LeaseInv, StoreTypeOK, ControlFits, NEW p \in Procs, StoreStep(p),
         NEW q \in Procs, Holding(q)', ~Holding(q)
  PROVE  /\ q = p
         /\ \/ Create(p) /\ entries = 0 /\ log' = log /\ p \in opened'
            \/ Lease(p) /\ pc'[p] = "write"
<1>1. q = p
  BY OthersAlone DEF Holding, LeaseInv
<1>2. CASE p \in opened'
  BY <1>1, <1>2, OpenedStep DEF Holding, LoadRead, LoadCheck, LoadTruncate
<1>3. CASE job'[p] = "open" /\ at'[p] \in {"load", "check", "truncate"}
  <2>1. Done(p) => job'[p] = "none"
    BY DEF Done, StoreTypeOK
  <2>2. ~(job[p] = "open" /\ at[p] \in {"load", "check", "truncate"})
    BY <1>1 DEF Holding
  <2>3. CASE Lease(p)
    BY <1>3, <2>1, <2>2, <2>3, <1>1 DEF Lease, progress
  <2>4. CASE ~Lease(p)
    BY <1>3, <2>1, <2>2, <2>4 DEF StoreStep, ProcessStart, ProcessDeath, Create, BeginAppend, BeginMerge,
       BeginOpen, Begin, WriteHead, WriteEnd, ReadSummary, FoldSummary, MergeMetadata, Claimed, BeginRead,
       LoadRead, LoadCheck, LoadTruncate, Loaded, Release, ReleaseUnlink, DeleteLog, DeleteLock,
       DeleteSummary, storeVars, progress, StoreTypeOK, At, ControlFits, ControlAt
  <2> QED BY <2>3, <2>4
<1> QED BY <1>1, <1>2, <1>3 DEF Holding

LEMMA HoldersKept ==
  ASSUME LeaseInv, StoreTypeOK, ControlFits, ItemsFresh, HoldersOwn, NEW p \in Procs, StoreStep(p),
         LeaseInv', ControlFits'
  PROVE  HoldersOwn'
<1> SUFFICES ASSUME Undisturbed' PROVE
      /\ \A q \in Procs : Holding(q)' =>
           (lock' \in Procs /\ Owned(q, lock')) \/ (log' = Missing /\ q \in opened')
      /\ log' = Missing => \A q, r \in opened' : q = r
      /\ \A q \in Procs : at'[q] \in {"check", "truncate"} => log' # Missing
  BY DEF HoldersOwn, Owned, Identified
<1>1. Undisturbed /\ ~raced /\ ~raced'
  BY StepDisturbs DEF Undisturbed
<1>2. /\ \A q \in Procs : Holding(q) =>
           (lock \in Procs /\ Owned(q, lock)) \/ (log = Missing /\ q \in opened)
      /\ log = Missing => \A q, r \in opened : q = r
      /\ \A q \in Procs : at[q] \in {"check", "truncate"} => log # Missing
  BY <1>1 DEF HoldersOwn
<1>3. /\ log # Missing => log' # Missing
      /\ log = Missing /\ log' # Missing => WriteHead(p) \/ WriteEnd(p)
  BY LogStays
<1>4. \A q \in Procs : q # p => at'[q] = at[q] /\ (q \in opened' <=> q \in opened)
  BY OthersAlone DEF LeaseInv
<1>5. ASSUME NEW q \in Procs, Holding(q)'
      PROVE  (lock' \in Procs /\ Owned(q, lock')) \/ (log' = Missing /\ q \in opened')
  <2>1. CASE ~Holding(q)
    <3>1. /\ q = p
          /\ \/ Create(p) /\ entries = 0 /\ log' = log /\ p \in opened'
             \/ Lease(p) /\ pc'[p] = "write"
      BY <1>5, <2>1, HoldingBegins
    <3>2. CASE pc'[p] = "write"
      <4>1. lock' \in Procs /\ Owned(p, lock')
        BY <1>1, <3>2 DEF LeaseInv, HolderOnDisk, Owned, Identified
      <4> QED BY <3>1, <4>1
    <3>3. CASE entries = 0 /\ log' = log /\ p \in opened'
      BY <3>1, <3>3 DEF ItemsFresh
    <3> QED BY <3>1, <3>2, <3>3
  <2>2. CASE Holding(q) /\ lock \in Procs /\ Owned(q, lock)
    <3>1. life[q] = "live" /\ pc[q] # "unlink"
      BY <2>2 DEF Holding, ControlFits, ControlAt
    <3> QED BY <2>2, <3>1, OwnerStays
  <2>3. CASE log = Missing /\ q \in opened /\ log' = Missing
    <3>1. q \in opened'
      <4>1. CASE q # p
        BY <1>4, <2>3, <4>1
      <4>2. CASE q = p
        <5>1. q \notin opened' => at'[p] = "out"
          BY <2>3, <4>2, OpenedStep
        <5> QED BY <1>5, <4>2, <5>1 DEF Holding
      <4> QED BY <4>1, <4>2
    <3> QED BY <2>3, <3>1
  <2>4. CASE log = Missing /\ q \in opened /\ log' # Missing
    <3>1. WriteHead(p) \/ WriteEnd(p)
      BY <1>3, <2>4
    <3>2. p \in opened /\ pc[p] = "write" /\ lock' = lock
      BY <3>1 DEF WriteHead, WriteEnd, leaseVars, ControlFits, ControlAt
    <3>3. p = q
      BY <1>2, <2>4, <3>2
    <3>4. lock \in Procs /\ Owned(p, lock)
      BY <1>1, <3>2 DEF LeaseInv, HolderOnDisk
    <3> QED BY <3>2, <3>3, <3>4
  <2> QED BY <1>2, <2>1, <2>2, <2>3, <2>4
<1>6. ASSUME log' = Missing, NEW q \in opened', NEW r \in opened' PROVE q = r
  <2>1. log = Missing
    BY <1>3, <1>6
  <2>2. at[p] \notin {"check", "truncate"}
    BY <1>2, <2>1
  <2>3. opened' \subseteq opened \/ opened' = {p}
    BY <2>1, <2>2, OpenedStep DEF LoadCheck, LoadTruncate
  <2> QED BY <1>2, <1>6, <2>1, <2>3
<1>7. ASSUME NEW q \in Procs, at'[q] \in {"check", "truncate"} PROVE log' # Missing
  <2>1. CASE q # p
    BY <1>2, <1>3, <1>4, <1>7, <2>1
  <2>2. CASE q = p
    <3>1. Done(p) => at'[p] = "out"
      BY DEF Done, At, StoreTypeOK
    <3>2. at[p] \in {"check", "truncate"} \/ log # Missing
      BY <1>7, <2>2, <3>1 DEF StoreStep, ProcessStart, ProcessDeath, Create, BeginAppend, BeginMerge,
       BeginOpen, Begin, Lease, WriteHead, WriteEnd, ReadSummary, FoldSummary, MergeMetadata, Claimed, BeginRead,
       LoadRead, LoadCheck, LoadTruncate, Loaded, Release, ReleaseUnlink, DeleteLog, DeleteLock,
       DeleteSummary, storeVars, progress, StoreTypeOK, At
    <3> QED BY <1>2, <1>3, <3>2
  <2> QED BY <2>1, <2>2
<1> QED BY <1>5, <1>6, <1>7

---------------------------------------------------------------------------
(* The transcript.                                                         *)

\* There is one writer on the session.
LEMMA OneOpened ==
  ASSUME LeaseInv, ControlFits, HoldersOwn, Undisturbed,
         NEW p \in Procs, NEW q \in Procs, p \in opened, q \in opened
  PROVE  p = q
<1>1. CASE log = Missing
  BY <1>1 DEF HoldersOwn
<1>2. CASE log # Missing
  <2>1. lock \in Procs /\ Owned(p, lock) /\ Owned(q, lock)
    BY <1>2 DEF HoldersOwn, Holding
  <2>2. life[p] = "live" /\ life[q] = "live"
    BY DEF ControlFits, ControlAt
  <2> QED BY <2>1, <2>2, OwnerUnique DEF LeaseInv
<1> QED BY <1>1, <1>2

\* How a process comes to the middle of a write, how it leaves it, and how it
\* comes to a repair.
LEMMA StageStep ==
  ASSUME LeaseInv, StoreTypeOK, ControlFits, NEW p \in Procs, StoreStep(p)
  PROVE  /\ at'[p] = "end" => WriteHead(p) \/ (at[p] = "end" /\ item'[p] = item[p])
         /\ at[p] = "end" => WriteEnd(p) \/ ProcessDeath(p) \/ at'[p] = "end"
         /\ at'[p] = "truncate" => \/ LoadCheck(p) /\ ~LiveForeignHolder(p) /\ log' = log
                                   \/ at[p] = "truncate" /\ view'[p] = view[p]
<1>1. Done(p) => at'[p] = "out"
  BY DEF Done, At, StoreTypeOK
<1>2. CASE \/ ProcessStart(p) \/ Claimed(p) \/ ReleaseUnlink(p) \/ Create(p) \/ Release(p)
           \/ BeginAppend(p) \/ BeginMerge(p) \/ BeginOpen(p) \/ BeginRead(p) \/ DeleteLog(p)
  BY <1>2 DEF ProcessStart, Claimed, ReleaseUnlink, Create, Release, BeginAppend, BeginMerge, BeginOpen,
       Begin, BeginRead, DeleteLog, Free, At, storeVars, progress, StoreTypeOK
<1>3. CASE ProcessDeath(p) \/ FoldSummary(p) \/ MergeMetadata(p) \/ DeleteSummary(p) \/ LoadTruncate(p)
  BY <1>1, <1>3 DEF ProcessDeath, FoldSummary, MergeMetadata, DeleteSummary, LoadTruncate, Loaded
<1>4. CASE WriteHead(p) \/ WriteEnd(p) \/ ReadSummary(p) \/ DeleteLock(p)
  BY <1>4 DEF WriteHead, WriteEnd, ReadSummary, DeleteLock, At, StoreTypeOK
<1>5. CASE Lease(p)
  BY <1>1, <1>5 DEF Lease, At, progress, StoreTypeOK
<1>6. CASE LoadRead(p) \/ LoadCheck(p)
  BY <1>1, <1>6 DEF LoadRead, LoadCheck, Loaded, At, disk, StoreTypeOK
<1> QED BY <1>2, <1>3, <1>4, <1>5, <1>6 DEF StoreStep

\* hasLiveForeignLeaseHolder sees an append that is under way.
LEMMA WriterIsSeen ==
  ASSUME LeaseInv, ControlFits, ~raced, NEW p \in Procs, NEW q \in Procs, p # q,
         at[p] = "end", life[q] = "live"
  PROVE  LiveForeignHolder(q)
<1>1. lock \in Procs /\ Owned(p, lock) /\ life[p] = "live"
  BY DEF ControlFits, ControlAt, LeaseInv, HolderOnDisk
<1>2. ~Owned(q, lock)
  BY <1>1, OwnerUnique DEF LeaseInv
<1>3. ~Stale(q, lock)
  BY <1>1, OwnerNotStale DEF LeaseInv
<1> QED BY <1>1, <1>2, <1>3 DEF Stale, LiveForeignHolder

LEMMA RepairsKept ==
  ASSUME LeaseInv, StoreTypeOK, ControlFits, ItemsFresh, RepairsDead, NEW p \in Procs, StoreStep(p)
  PROVE  RepairsDead'
<1> SUFFICES ASSUME Undisturbed', NEW a \in Procs, NEW b \in Procs,
                    at'[a] = "end", at'[b] = "truncate"
             PROVE  view'[b][Len(view'[b])].id # item'[a]
  BY DEF RepairsDead
<1>1. Undisturbed /\ ~raced
  BY StepDisturbs DEF Undisturbed
<1>2. a # b
  OBVIOUS
<1>3. \A q \in Procs : q # p => at'[q] = at[q] /\ view'[q] = view[q] /\ item'[q] = item[q]
  BY OthersAlone DEF LeaseInv
<1>4. /\ at'[p] = "end" => WriteHead(p) \/ (at[p] = "end" /\ item'[p] = item[p])
      /\ at'[p] = "truncate" => \/ LoadCheck(p) /\ ~LiveForeignHolder(p) /\ log' = log
                                \/ at[p] = "truncate" /\ view'[p] = view[p]
  BY StageStep
<1>5. CASE at[a] = "end" /\ item'[a] = item[a] /\ at[b] = "truncate" /\ view'[b] = view[b]
  BY <1>1, <1>5 DEF RepairsDead
<1>6. CASE a = p /\ WriteHead(p)
  <2>1. at[b] = "truncate" /\ view'[b] = view[b]
    BY <1>2, <1>3, <1>6
  <2>2. item'[a] = item[p] /\ job[p] = "append" /\ at[p] = "head"
    BY <1>6 DEF WriteHead, ControlFits, ControlAt
  <2>3. view[b] \in Seq(Fragments) /\ view[b] # <<>> /\ view[b] # Missing
    BY <2>1 DEF ControlFits, ControlAt, Torn, StoreTypeOK, Files
  <2>4. Len(view[b]) \in 1..Len(view[b])
    BY <2>3, EmptySeq, LenProperties
  <2>5. ~Mentions(view[b], item[p])
    BY <2>2 DEF ItemsFresh
  <2> QED BY <2>1, <2>2, <2>3, <2>4, <2>5 DEF Mentions
<1>7. CASE b = p /\ LoadCheck(p) /\ ~LiveForeignHolder(p)
  <2>1. at[a] = "end"
    BY <1>2, <1>3, <1>7
  <2>2. life[p] = "live"
    BY <1>7 DEF LoadCheck, ControlFits, ControlAt
  <2> QED BY <1>1, <1>2, <1>7, <2>1, <2>2, WriterIsSeen
<1> QED BY <1>2, <1>3, <1>4, <1>5, <1>6, <1>7

\* A repair that changes nothing but what it has read cuts the torn tail of an
\* append that died, and leaves the acknowledged lines.
LEMMA RepairStep ==
  ASSUME LeaseInv, StoreTypeOK, ControlFits, HoldersOwn, LogFits, RepairsDead,
         NEW p \in Procs, LoadTruncate(p), Undisturbed, ~cut'
  PROVE  /\ log' \in Seq(Fragments) /\ Lines(log', acked) /\ Len(log') = 2 * Len(acked)
         /\ \A q \in Procs : at[q] # "end"
<1>1. ~cut /\ log = view[p]
  BY DEF LoadTruncate
<1>2. log # Missing /\ Torn(log)
  BY <1>1 DEF LoadTruncate, HoldersOwn, ControlFits, ControlAt
<1>3. log \in Seq(Fragments) /\ acked \in Seq(1..MaxEntries) /\ Lines(log, acked)
  BY <1>1, <1>2 DEF StoreTypeOK, Files, LogFits
<1>4. log' = Truncated(log, Keep(log))
  BY <1>1, <1>2 DEF LoadTruncate
<1>5. log' \in Seq(Fragments) /\ Lines(log', acked) /\ Len(log') = 2 * Len(acked)
  BY <1>2, <1>3, <1>4, LinesCut
<1>6. \A q \in Procs : at[q] # "end"
  BY <1>1 DEF LoadTruncate, LogFits, RepairsDead
<1> QED BY <1>5, <1>6

LEMMA LogKept ==
  ASSUME LeaseInv, StoreTypeOK, ControlFits, ItemsFresh, HoldersOwn, LogFits, RepairsDead,
         NEW p \in Procs, StoreStep(p), StoreTypeOK'
  PROVE  LogFits'
<1> SUFFICES ASSUME Undisturbed', ~cut' PROVE
      /\ log' = Missing => acked' = <<>>
      /\ log' # Missing => Lines(log', acked')
      /\ \A q \in Procs : at'[q] = "end" =>
           log' # Missing /\ Len(log') = 2 * Len(acked') + 1 /\ log'[Len(log')].id = item'[q]
      /\ log' # Missing /\ Len(log') = 2 * Len(acked') + 1 =>
           opened' = {} \/ \E q \in Procs : at'[q] = "end"
  BY DEF LogFits, Lines
<1>1. Undisturbed /\ ~raced
  BY StepDisturbs DEF Undisturbed
<1>2. ~cut
  BY DEF StoreStep, ProcessStart, ProcessDeath, Create, BeginAppend, BeginMerge, BeginOpen, Begin,
     Lease, WriteHead, WriteEnd, ReadSummary, FoldSummary, MergeMetadata, Claimed, BeginRead,
     LoadRead, LoadCheck, LoadTruncate, Release, ReleaseUnlink, DeleteLog, DeleteLock,
     DeleteSummary, storeVars, disk
<1>3. /\ log = Missing => acked = <<>>
      /\ log # Missing => Lines(log, acked)
      /\ \A q \in Procs : at[q] = "end" =>
           log # Missing /\ Len(log) = 2 * Len(acked) + 1 /\ log[Len(log)].id = item[q]
      /\ log # Missing /\ Len(log) = 2 * Len(acked) + 1 =>
           opened = {} \/ \E q \in Procs : at[q] = "end"
  BY <1>1, <1>2 DEF LogFits
<1>4. \A q \in Procs : q # p => at'[q] = at[q] /\ item'[q] = item[q]
  BY OthersAlone DEF LeaseInv
<1>5. /\ at'[p] = "end" => WriteHead(p) \/ (at[p] = "end" /\ item'[p] = item[p])
      /\ at[p] = "end" => WriteEnd(p) \/ ProcessDeath(p) \/ at'[p] = "end"
  BY StageStep
<1>6. acked \in Seq(1..MaxEntries) /\ Len(acked) \in Nat /\ (log # Missing => log \in Seq(Fragments))
  BY LenProperties DEF StoreTypeOK, Files
<1>7. at[p] \in {"head", "end"} => item[p] \in 1..MaxEntries /\ p \in opened
  <2>1. at[p] \in {"head", "end"} => item[p] \in 1..entries /\ p \in opened
    BY DEF ControlFits, ControlAt
  <2> QED BY <2>1, StoreBoundsAssumption DEF StoreTypeOK
<1>8. CASE WriteHead(p)
  <2>1. /\ at[p] = "head" /\ at'[p] = "end" /\ item' = item /\ acked' = acked
        /\ log' = Append(Bytes(log), [part |-> "head", id |-> item[p]])
    BY <1>8 DEF WriteHead, At, StoreTypeOK
  <2>2. \A q \in Procs : at[q] # "end"
    BY <1>1, <2>1, OneWriter
  <2>3. Bytes(log) \in Seq(Fragments) /\ Lines(Bytes(log), acked) /\ Len(Bytes(log)) = 2 * Len(acked)
    <3>1. CASE log = Missing
      <4>1. Bytes(log) = <<>> /\ acked = <<>>
        BY <1>3, <3>1 DEF Bytes
      <4> QED BY <4>1, EmptyLines
    <3>2. CASE log # Missing
      <4>1. Bytes(log) = log /\ Lines(log, acked) /\ log \in Seq(Fragments)
        BY <1>3, <1>6, <3>2 DEF Bytes
      <4>2. Len(log) # 2 * Len(acked) + 1
        BY <1>3, <1>7, <2>1, <2>2, <3>2
      <4>3. Len(log) = 2 * Len(acked)
        BY <4>1, <4>2 DEF Lines
      <4> QED BY <4>1, <4>3
    <3> QED BY <3>1, <3>2
  <2>4. /\ log' \in Seq(Fragments) /\ Lines(log', acked)
        /\ Len(log') = 2 * Len(acked) + 1 /\ log'[Len(log')].id = item[p]
    BY <1>6, <1>7, <2>1, <2>3, LinesHead
  <2>5. log' # Missing
    BY <2>4, FilesAssumption
  <2>6. \A q \in Procs : at'[q] = "end" => q = p
    BY <1>4, <2>2
  <2> QED BY <2>1, <2>4, <2>5, <2>6
<1>9. CASE WriteEnd(p)
  <2>1. /\ at[p] = "end" /\ at'[p] = "fold" /\ acked' = Append(acked, item[p])
        /\ log' = Append(Bytes(log), [part |-> "end", id |-> item[p]])
    BY <1>9 DEF WriteEnd, At, StoreTypeOK
  <2>2. /\ log \in Seq(Fragments) /\ Lines(log, acked) /\ Bytes(log) = log
        /\ Len(log) = 2 * Len(acked) + 1 /\ log[Len(log)].id = item[p]
    BY <1>3, <1>6, <2>1 DEF Bytes
  <2>3. log' \in Seq(Fragments) /\ Lines(log', acked') /\ Len(log') = 2 * Len(acked')
    BY <1>6, <1>7, <2>1, <2>2, LinesEnd
  <2>4. \A q \in Procs : at'[q] # "end"
    BY <1>1, <1>4, <2>1, OneWriter
  <2>5. log' # Missing /\ Len(log') # 2 * Len(acked') + 1
    <3>1. Len(acked') \in Nat
      BY LenProperties DEF StoreTypeOK
    <3> QED BY <2>3, <3>1, FilesAssumption
  <2> QED BY <2>3, <2>4, <2>5
<1>10. CASE LoadTruncate(p)
  <2>1. /\ log' \in Seq(Fragments) /\ Lines(log', acked) /\ Len(log') = 2 * Len(acked)
        /\ \A q \in Procs : at[q] # "end"
    BY <1>1, <1>10, RepairStep
  <2>2. acked' = acked /\ log' # Missing /\ ~WriteHead(p) /\ Len(log') # 2 * Len(acked) + 1
    BY <1>6, <1>10, <2>1, FilesAssumption DEF LoadTruncate, WriteHead
  <2>3. \A q \in Procs : at'[q] # "end"
    BY <1>4, <1>5, <2>1, <2>2
  <2> QED BY <2>1, <2>2, <2>3
<1>11. CASE ~(WriteHead(p) \/ WriteEnd(p) \/ LoadTruncate(p))
  <2>1. log' = log /\ acked' = acked
    <3>1. ~DeleteLog(p)
      BY DEF DeleteLog, Undisturbed
    <3>2. acked' = acked
      BY <1>11 DEF StoreStep, ProcessStart, ProcessDeath, Create, BeginAppend, BeginMerge, BeginOpen, Begin,
         Lease, ReadSummary, FoldSummary, MergeMetadata, Claimed, BeginRead, LoadRead, LoadCheck, Release,
         ReleaseUnlink, DeleteLog, DeleteLock, DeleteSummary, storeVars, disk
    <3> QED BY <1>11, <3>1, <3>2, LogStep
  <2>2. \A q \in Procs : at'[q] = "end" => at[q] = "end" /\ item'[q] = item[q]
    BY <1>4, <1>5, <1>11
  <2>3. ASSUME log # Missing, Len(log) = 2 * Len(acked) + 1, NEW r \in Procs, at[r] = "end"
        PROVE  opened' = {} \/ \E q \in Procs : at'[q] = "end"
    <3>1. CASE r # p
      BY <1>4, <2>3, <3>1
    <3>2. CASE r = p /\ ProcessDeath(p)
      <4>1. \A q \in opened : q = p
        BY <1>1, <1>7, <2>3, <3>2, OneOpened DEF StoreTypeOK
      <4> QED BY <3>2, <4>1 DEF ProcessDeath
    <3>3. CASE r = p /\ at'[p] = "end"
      BY <3>3
    <3> QED BY <1>5, <1>11, <2>3, <3>1, <3>2, <3>3
  <2>4. ASSUME log # Missing, Len(log) = 2 * Len(acked) + 1, opened = {} PROVE opened' = {}
    <3>1. Torn(log)
      BY <1>3, <1>6, <2>4, LinesTorn
    <3>2. entries # 0
      BY <2>4 DEF ItemsFresh
    <3>3. ASSUME LoadCheck(p), job[p] = "open" PROVE ~LiveForeignHolder(p)
      <4>1. Holding(p)
        BY <3>3 DEF LoadCheck, Holding
      <4>2. lock \in Procs /\ Owned(p, lock)
        BY <1>1, <2>4, <4>1 DEF HoldersOwn
      <4> QED BY <4>2, LockStatesAssumption DEF LiveForeignHolder
    <3> QED BY <1>11, <2>4, <3>1, <3>2, <3>3, OpenedStep
  <2> QED BY <1>3, <2>1, <2>2, <2>3, <2>4
<1> QED BY <1>8, <1>9, <1>10, <1>11

---------------------------------------------------------------------------
(* Theorems.                                                               *)

LEMMA StoreInitInv == StoreInit => StoreInv
<1> SUFFICES ASSUME StoreInit PROVE StoreInv
  OBVIOUS
<1>a. LeaseInv
  BY InitInv DEF StoreInit
<1>b. MaxEntries \in Nat /\ MaxRenames \in Nat
  BY StoreBoundsAssumption
<1>c. Pending = {} /\ Folding = {}
  BY DEF StoreInit, Pending, Folding
<1>d. IsFiniteSet({}) /\ Cardinality({}) = 0
  BY FS_EmptySet
<1>e. NoSummary.count = 0 /\ NoSummary.name = 0
  BY DEF NoSummary
<1>1. StoreTypeOK
  <2>1. cut \in BOOLEAN /\ deleted \in BOOLEAN
    BY Zenon DEF StoreInit
  <2>2. prev \in [Procs -> Summaries] /\ acked \in Seq(1..MaxEntries)
    BY <1>b DEF StoreInit, Summaries, NoSummary
  <2> QED BY <1>b, <2>1, <2>2 DEF StoreInit, StoreTypeOK, Files
<1>2. ControlFits
  BY DEF StoreInit, LeaseInit, ControlFits, ControlAt
<1>3. CountsFit
  BY <1>c, <1>d, <1>e DEF StoreInit, CountsFit
<1>4. ItemsFresh
  BY DEF StoreInit, ItemsFresh, Mentions
<1>5. SavesCurrent /\ HoldersOwn /\ RepairsDead
  BY DEF StoreInit, SavesCurrent, HoldersOwn, Holding, RepairsDead
<1>6. SummaryKept
  <2>1. Len(acked) = 0 /\ Current = NoSummary
    BY DEF StoreInit, Current
  <2> QED BY <1>c, <1>d, <1>e, <2>1 DEF StoreInit, SummaryKept, SummaryCountsAcked, RenameKept
<1>7. LogFits
  BY DEF StoreInit, LogFits
<1> QED BY <1>a, <1>1, <1>2, <1>3, <1>4, <1>5, <1>6, <1>7 DEF StoreInv

\* A step that leaves the files and the processes alone.
LEMMA StillKept ==
  ASSUME StoreInv, LeaseInv', UNCHANGED storeVars, UNCHANGED <<life, lock, pc, raced>>
  PROVE  StoreInv'
<1> USE DEF storeVars
<1>1. StoreTypeOK'
  BY DEF StoreInv, StoreTypeOK
<1>2. ControlFits'
  BY DEF StoreInv, ControlFits, ControlAt
<1>3. CountsFit' /\ SummaryKept'
  <2>1. Pending' = Pending /\ Folding' = Folding
    BY DEF Pending, Folding
  <2> QED BY <2>1 DEF StoreInv, CountsFit, SummaryKept, SummaryCountsAcked, RenameKept, Undisturbed
<1>4. ItemsFresh'
  BY DEF StoreInv, ItemsFresh, Mentions
<1>5. SavesCurrent'
  BY DEF StoreInv, SavesCurrent, Current, Undisturbed
<1>6. HoldersOwn'
  BY DEF StoreInv, HoldersOwn, Holding, Undisturbed, Owned, Identified
<1>7. LogFits'
  BY DEF StoreInv, LogFits, Undisturbed
<1>8. RepairsDead'
  BY DEF StoreInv, RepairsDead, Undisturbed
<1> QED BY <1>1, <1>2, <1>3, <1>4, <1>5, <1>6, <1>7, <1>8 DEF StoreInv

\* The inductive invariant: the lease's own, and how the transcript, the summary
\* and the writers stand to each other between any two file operations.
THEOREM StoreInvariant == StoreSpec => []StoreInv
<1>1. ASSUME StoreInv, [StoreNext]_allVars PROVE StoreInv'
  <2>1. LeaseInv'
    BY <1>1, LeaseKept DEF StoreInv
  <2>2. ASSUME NEW p \in Procs, StoreStep(p) PROVE StoreInv'
    <3>1. LeaseTypeOK
      BY <1>1 DEF StoreInv, LeaseInv
    <3>2. StoreTypeOK' /\ ControlFits'
      BY <1>1, <2>2, <3>1, StepTypes, ControlKept DEF StoreInv
    <3>3. CountsFit' /\ ItemsFresh'
      BY <1>1, <2>2, CountsKept, ItemsKept DEF StoreInv
    <3>4. SavesCurrent' /\ SummaryKept'
      BY <1>1, <2>2, SummaryStep DEF StoreInv
    <3>5. HoldersOwn' /\ RepairsDead'
      BY <1>1, <2>1, <2>2, <3>2, HoldersKept, RepairsKept DEF StoreInv
    <3>6. LogFits'
      BY <1>1, <2>2, <3>2, LogKept DEF StoreInv
    <3> QED BY <2>1, <3>2, <3>3, <3>4, <3>5, <3>6 DEF StoreInv
  <2>3. ASSUME NEW k \in Kernels, HostAttests(k) PROVE StoreInv'
    BY <1>1, <2>1, <2>3, StillKept DEF HostAttests, Attest
  <2>4. CASE UNCHANGED allVars
    BY <1>1, <2>1, <2>4, StillKept DEF allVars, leaseVars
  <2> QED BY <1>1, <2>2, <2>3, <2>4 DEF StoreNext, StoreStep
<1> QED BY <1>1, StoreInitInv, PTL DEF StoreSpec

\* Every variable of the store keeps its type; the counts stay within the entries
\* handed to append even when leases are raced and sessions deleted.
THEOREM StoreTypeCorrect == StoreSpec => []StoreTypeOK
<1>1. StoreInv => StoreTypeOK
  BY DEF StoreInv
<1> QED BY <1>1, StoreInvariant, PTL

\* One process at a time is between the return of acquireLease and its last write
\* also in the store, where append, rename, resume and delete share the lease.
THEOREM StoreWritersExclude == StoreSpec => []WriterExclusion
<1>1. StoreInv => WriterExclusion
  BY OwnerUnique DEF StoreInv, LeaseInv, HolderOnDisk, OnlyLiveRun, WriterExclusion
<1> QED BY <1>1, StoreInvariant, PTL

\* foldSummary and mergeSessionMetadata never lose each other's update, whatever
\* processes die between the read and the rewrite.
THEOREM SummaryIsKept == StoreSpec => []SummaryKept
<1>1. StoreInv => SummaryKept
  BY DEF StoreInv
<1> QED BY <1>1, StoreInvariant, PTL

\* load() returns the acknowledged entries, in order and each once, whatever
\* processes append, die inside a write, resume, read and repair.
THEOREM TranscriptKept == StoreSpec => []TranscriptIsAcked
<1>1. ASSUME StoreInv, Undisturbed, ~cut, log # Missing
      PROVE  ~Undecodable(log) /\ Decoded(log) = acked
  <2>1. log \in Seq(Fragments) /\ acked \in Seq(1..MaxEntries) /\ Lines(log, acked)
    BY <1>1 DEF StoreInv, StoreTypeOK, Files, LogFits
  <2> QED BY <2>1, LinesTorn, LinesDecode
<1>2. StoreInv => TranscriptIsAcked
  BY <1>1 DEF TranscriptIsAcked
<1> QED BY <1>2, StoreInvariant, PTL

\* The tail repair of load() takes nothing but bytes that were never acknowledged,
\* unless the file changed after it was read.
THEOREM RepairsTakeOnlyTorn == StoreSpec => RepairTakesOnlyTorn
<1>1. ASSUME StoreInv, NEW p \in Procs, LoadTruncate(p), Undisturbed, ~cut'
      PROVE  Decoded(Bytes(log')) = acked
  <2>1. log' \in Seq(Fragments) /\ Lines(log', acked)
    BY <1>1, RepairStep DEF StoreInv
  <2>2. Bytes(log') = log' /\ acked \in Seq(1..MaxEntries)
    BY <1>1, <2>1, FilesAssumption DEF Bytes, StoreInv, StoreTypeOK
  <2> QED BY <2>1, <2>2, LinesDecode
<1>2. StoreInv => [\A p \in Procs : LoadTruncate(p) /\ Undisturbed /\ ~cut' =>
                     Decoded(Bytes(log')) = acked]_allVars
  BY <1>1
<1> QED BY <1>2, StoreInvariant, PTL DEF RepairTakesOnlyTorn

===========================================================================
