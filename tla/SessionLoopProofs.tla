------------------------- MODULE SessionLoopProofs -------------------------
(***************************************************************************)
(* Proofs about SessionLoop, for any finite set of tasks, any owners and   *)
(* any number of inputs.                                                   *)
(*                                                                         *)
(* A task's notice is in one place at a time: queued, among userFrames,    *)
(* or the frame of the current turn, and it is used up when the prompt's   *)
(* hook lets that frame pass or blocks it (NoticesFit).  The refinement of *)
(* TaskNotice and the bound on how often a notice is told follow from it.  *)
(***************************************************************************)
EXTENDS SessionLoop, FiniteSetTheorems, SequenceTheorems, TLAPS

-----------------------------------------------------------------------------
(* The inductive invariant.                                                *)

Distinct(s) == \A i, j \in DOMAIN s : s[i] = s[j] => i = j

\* Queue entries and userFrames hold nothing twice, neither together.
QueueFits(es, fs) ==
  /\ es \in Seq(Tasks) /\ fs \in Seq(Frames)
  /\ Distinct(es) /\ Distinct(fs)
  /\ Members(es) \cap Members(fs) = {}

Pending == Members(entries) \cup Members(frames)

\* An agent's child engine is live just while its row runs; a shell's process
\* does not outlive its row; a claimed notice is that of a finished row.
TasksFit ==
  /\ \A a \in Agents : /\ row[a] = "running" <=> work[a] = "live"
                       /\ work[a] \in {"none", "live", "winding", "gone"}
  /\ claimed \subseteq {t \in Tasks : row[t] \in Terminal}
  /\ NoProcessOutlives

\* The loop has a frame that the prompt's hook has not seen.
Unasked == {"taken", "prompt"}

\* A notice is one of a finished row, in one place, and used when the hook has answered.
NoticesFit ==
  /\ QueueFits(entries, frames)
  /\ cur \notin Pending
  /\ \A t \in Tasks :
       /\ t \in Pending \cup {cur} \/ used[t] # 0 => row[t] \in Terminal
       /\ t \in Pending => used[t] = 0
       /\ t = cur => used[t] = (IF loop \in Unasked THEN 0 ELSE 1)
       /\ used[t] \in {0, 1}
  /\ \A n \in 1..Inputs : n \in Pending \cup {cur} => n <= sent

LoopFits == loop \in {"drained", "flushed", "reaping", "done"} => framesEnded \/ hard

\* The turns that have their result.
Answered == IF loop \in {"prompt", "turn", "compact"} THEN turns - 1 ELSE turns

\* Of the results written (o) and after them the held ones (h), each that is
\* not in d is older than all that follow.
InOrder(h, o, d) ==
  /\ \A i, j \in DOMAIN o : i < j /\ o[i] \notin d => o[i] < o[j]
  /\ \A i, j \in DOMAIN h : i < j => h[i] < h[j]
  /\ \A i \in DOMAIN o, j \in DOMAIN h : o[i] \notin d => o[i] < h[j]

\* Each of the first n turns has one result, held or written.
Given(h, o, d, n) ==
  /\ h \in Seq(1..n) /\ o \in Seq(1..n) /\ d \subseteq 1..n
  /\ Members(h) \cup Members(o) = 1..n
  /\ Len(h) + Len(o) = n
  /\ InOrder(h, o, d)

ResultsFit ==
  /\ Answered \in Nat
  /\ Given(held, out, direct, Answered)
  /\ loop \in {"flushed", "reaping", "done"} => held = <<>>

SessionInv ==
  /\ SessionTypeOK
  /\ TasksFit
  /\ NoticesFit
  /\ LoopFits
  /\ NothingStranded
  /\ ResultsFit

-----------------------------------------------------------------------------
(* Positions, members and what a queue keeps.                              *)

\* The positions of a finite set of numbers are numbered by Position.
LEMMA PositionFacts ==
  ASSUME NEW n \in Nat, NEW I \in SUBSET (1..n)
  PROVE  /\ Cardinality(I) \in Nat
         /\ \A k \in 1..Cardinality(I) : Position(I, k) \in I
         /\ \A k, m \in 1..Cardinality(I) : Position(I, k) = Position(I, m) => k = m
         /\ \A i \in I : \E k \in 1..Cardinality(I) : Position(I, k) = i
<1> DEFINE Below(i) == {j \in I : j <= i}
           rank == [i \in I |-> Cardinality(Below(i))]
           c == Cardinality(I)
<1>1. IsFiniteSet(I) /\ c \in Nat /\ IsFiniteSet(1..c) /\ Cardinality(1..c) = c
  <2>1. IsFiniteSet(1..n)
    BY FS_Interval
  <2>2. IsFiniteSet(I) /\ c \in Nat
    BY <2>1, FS_Subset, FS_CardinalityType
  <2> HIDE DEF c
  <2> QED BY <2>2, FS_Interval
<1>2. ASSUME NEW i \in I PROVE IsFiniteSet(Below(i)) /\ Cardinality(Below(i)) \in 1..c
  <2>1. Below(i) \in SUBSET I /\ i \in Below(i)
    OBVIOUS
  <2>2. IsFiniteSet(Below(i)) /\ Cardinality(Below(i)) <= c /\ Cardinality(Below(i)) \in Nat
    BY <1>1, <2>1, FS_Subset, FS_CardinalityType
  <2>3. Cardinality(Below(i)) # 0
    BY <2>1, <2>2, FS_EmptySet
  <2> QED BY <1>1, <2>2, <2>3
<1>3. ASSUME NEW i \in I, NEW j \in I, i < j PROVE Cardinality(Below(i)) # Cardinality(Below(j))
  <2>1. \A k \in I : k \in Int
    OBVIOUS
  <2>2. \A k \in I : k <= i => k <= j
    BY <1>3, <2>1
  <2>3. j <= j /\ ~(j <= i)
    BY <1>3, <2>1
  <2>4. Below(i) \in SUBSET Below(j) /\ j \in Below(j) /\ j \notin Below(i)
    BY <2>2, <2>3
  <2> QED BY <1>2, <2>4, FS_Subset
<1>4. \A i, j \in I : rank[i] = rank[j] => i = j
  BY <1>3
<1>5. rank \in Injection(I, 1..c)
  <2>1. rank \in [I -> 1..c]
    BY <1>2
  <2> QED BY <2>1, <1>4 DEF Injection, IsInjective
<1>6. rank \in Surjection(I, 1..c)
  BY <1>1, <1>5, FS_Injection
<1>7. ASSUME NEW k \in 1..c PROVE Position(I, k) \in I /\ rank[Position(I, k)] = k
  <2>1. \E i \in I : rank[i] = k
    BY <1>6 DEF Surjection
  <2>2. \E i \in I : Cardinality({j \in I : j <= i}) = k
    BY <2>1
  <2>3. Position(I, k) \in I /\ Cardinality({j \in I : j <= Position(I, k)}) = k
    BY <2>2, Zenon DEF Position
  <2> QED BY <2>3
<1>8. ASSUME NEW i \in I PROVE \E k \in 1..c : Position(I, k) = i
  <2>1. rank[i] \in 1..c
    BY <1>2
  <2> QED BY <2>1, <1>4, <1>7
<1> QED BY <1>1, <1>7, <1>8

\* What is picked from a sequence: its members, none of them twice unless the
\* sequence has it twice.
LEMMA ElementsAtFacts ==
  ASSUME NEW X, NEW s \in Seq(X), NEW I \in SUBSET DOMAIN s
  PROVE  /\ ElementsAt(s, I) \in Seq(X)
         /\ Members(ElementsAt(s, I)) = {s[i] : i \in I}
         /\ Distinct(s) => Distinct(ElementsAt(s, I))
<1> DEFINE c == Cardinality(I)
           e == ElementsAt(s, I)
<1>1. Len(s) \in Nat /\ DOMAIN s = 1..Len(s) /\ \A i \in DOMAIN s : s[i] \in X
  OBVIOUS
<1>2. I \in SUBSET (1..Len(s))
  BY <1>1
<1>3. /\ c \in Nat
      /\ \A k \in 1..c : Position(I, k) \in I
      /\ \A k, m \in 1..c : Position(I, k) = Position(I, m) => k = m
      /\ \A i \in I : \E k \in 1..c : Position(I, k) = i
  BY <1>1, <1>2, PositionFacts
<1> HIDE DEF c
<1>4. e = [k \in 1..c |-> s[Position(I, k)]]
  BY DEF ElementsAt, c
<1> HIDE DEF e
<1>5. e \in [1..c -> X]
  BY <1>1, <1>3, <1>4
<1>6. e \in Seq(X)
  BY <1>3, <1>5
<1>7. DOMAIN e = 1..c
  BY <1>4
<1>8. Members(e) = {s[i] : i \in I}
  <2>1. ASSUME NEW k \in 1..c PROVE \E i \in I : e[k] = s[i]
    BY <1>3, <1>4
  <2>2. ASSUME NEW i \in I PROVE \E k \in 1..c : e[k] = s[i]
    BY <1>3, <1>4
  <2> QED BY <1>7, <2>1, <2>2 DEF Members
<1>9. Distinct(s) => Distinct(e)
  <2> SUFFICES ASSUME Distinct(s), NEW k \in 1..c, NEW m \in 1..c, e[k] = e[m] PROVE k = m
    BY <1>7 DEF Distinct
  <2>1. Position(I, k) \in DOMAIN s /\ Position(I, m) \in DOMAIN s
    BY <1>3
  <2>2. s[Position(I, k)] = s[Position(I, m)]
    BY <1>4
  <2> QED BY <1>3, <2>1, <2>2 DEF Distinct
<1> QED BY <1>6, <1>8, <1>9 DEF e

LEMMA MembersFacts ==
  ASSUME NEW X, NEW s \in Seq(X)
  PROVE  /\ Members(s) \subseteq X
         /\ s # <<>> <=> Members(s) # {}
         /\ s # <<>> => Head(s) \in Members(s) /\ Head(s) = s[1]
         /\ Distinct(<<>>) /\ Members(<<>>) = {}
<1>1. Len(s) \in Nat /\ DOMAIN s = 1..Len(s) /\ \A i \in 1..Len(s) : s[i] \in X
  OBVIOUS
<1>2. Members(s) \subseteq X
  BY <1>1 DEF Members
<1>3. s # <<>> => 1 \in DOMAIN s /\ Head(s) = s[1]
  BY <1>1
<1>4. DOMAIN <<>> = {}
  OBVIOUS
<1> QED BY <1>2, <1>3, <1>4 DEF Members, Distinct

\* Two sequences one after the other.
LEMMA ConcatMembers ==
  ASSUME NEW X, NEW s \in Seq(X), NEW u \in Seq(X)
  PROVE  /\ s \o u \in Seq(X)
         /\ Members(s \o u) = Members(s) \cup Members(u)
         /\ Distinct(s) /\ Distinct(u) /\ Members(s) \cap Members(u) = {} => Distinct(s \o u)
<1> DEFINE m == Len(s)
           n == Len(u)
           w == s \o u
<1>1. m \in Nat /\ n \in Nat /\ DOMAIN s = 1..m /\ DOMAIN u = 1..n
  OBVIOUS
<1>2. /\ w \in Seq(X) /\ DOMAIN w = 1..(m + n)
      /\ \A i \in 1..(m + n) : w[i] = IF i <= m THEN s[i] ELSE u[i - m]
  BY ConcatProperties
<1> HIDE DEF m, n, w
<1>3. ASSUME NEW i \in 1..(m + n)
      PROVE  \/ i \in 1..m /\ w[i] = s[i]
             \/ i - m \in 1..n /\ w[i] = u[i - m] /\ i > m
  BY <1>1, <1>2
<1>4. ASSUME NEW i \in 1..m PROVE i \in 1..(m + n) /\ w[i] = s[i]
  BY <1>1, <1>2
<1>5. ASSUME NEW i \in 1..n PROVE i + m \in 1..(m + n) /\ w[i + m] = u[i]
  <2>1. i + m \in 1..(m + n) /\ ~(i + m <= m) /\ (i + m) - m = i
    BY <1>1
  <2> QED BY <1>2, <2>1
<1>6. Members(w) \subseteq Members(s) \cup Members(u)
  BY <1>1, <1>2, <1>3 DEF Members
<1>7. Members(s) \subseteq Members(w)
  BY <1>1, <1>2, <1>4 DEF Members
<1>8. Members(u) \subseteq Members(w)
  BY <1>1, <1>2, <1>5 DEF Members
<1>9. ASSUME Distinct(s), Distinct(u), Members(s) \cap Members(u) = {} PROVE Distinct(w)
  <2> SUFFICES ASSUME NEW i \in 1..(m + n), NEW j \in 1..(m + n), w[i] = w[j] PROVE i = j
    BY <1>2 DEF Distinct
  <2>1. ASSUME NEW a \in 1..m, NEW b \in 1..n PROVE s[a] # u[b]
    BY <1>1, <1>9 DEF Members
  <2>2. CASE i \in 1..m /\ w[i] = s[i] /\ j \in 1..m /\ w[j] = s[j]
    BY <1>1, <1>9, <2>2 DEF Distinct
  <2>3. CASE i \in 1..m /\ w[i] = s[i] /\ j - m \in 1..n /\ w[j] = u[j - m]
    BY <2>1, <2>3
  <2>4. CASE j \in 1..m /\ w[j] = s[j] /\ i - m \in 1..n /\ w[i] = u[i - m]
    BY <2>1, <2>4
  <2>5. CASE i - m \in 1..n /\ w[i] = u[i - m] /\ j - m \in 1..n /\ w[j] = u[j - m]
    <3>1. i - m = j - m
      BY <1>1, <1>9, <2>5 DEF Distinct
    <3> QED BY <3>1, <1>1
  <2> QED BY <1>3, <2>2, <2>3, <2>4, <2>5
<1> QED BY <1>2, <1>6, <1>7, <1>8, <1>9 DEF w

\* One element more at the end.
LEMMA AppendMembers ==
  ASSUME NEW X, NEW s \in Seq(X), NEW x \in X
  PROVE  /\ Append(s, x) \in Seq(X)
         /\ Members(Append(s, x)) = Members(s) \cup {x}
         /\ Distinct(s) /\ x \notin Members(s) => Distinct(Append(s, x))
<1>1. Append(s, x) = s \o <<x>>
  OBVIOUS
<1>2. <<x>> \in Seq(X) /\ DOMAIN <<x>> = {1} /\ <<x>>[1] = x
  OBVIOUS
<1>3. Members(<<x>>) = {x} /\ Distinct(<<x>>)
  BY <1>2 DEF Members, Distinct
<1>4. /\ s \o <<x>> \in Seq(X)
      /\ Members(s \o <<x>>) = Members(s) \cup Members(<<x>>)
      /\ Distinct(s) /\ Distinct(<<x>>) /\ Members(s) \cap Members(<<x>>) = {} => Distinct(s \o <<x>>)
  BY <1>2, ConcatMembers, Zenon
<1>5. x \notin Members(s) => Members(s) \cap {x} = {}
  OBVIOUS
<1> QED BY <1>1, <1>3, <1>4, <1>5, Zenon

\* The first element taken off.
LEMMA TailMembers ==
  ASSUME NEW X, NEW s \in Seq(X), s # <<>>
  PROVE  /\ Tail(s) \in Seq(X)
         /\ Members(s) = Members(Tail(s)) \cup {Head(s)}
         /\ Distinct(s) => Distinct(Tail(s)) /\ Head(s) \notin Members(Tail(s))
<1> DEFINE u == Tail(s)
           n == Len(s)
<1>1. n \in Nat /\ n > 0 /\ DOMAIN s = 1..n /\ Head(s) = s[1]
  OBVIOUS
<1>2. u \in Seq(X) /\ DOMAIN u = 1..(n - 1) /\ \A i \in 1..(n - 1) : u[i] = s[i + 1]
  BY HeadTailProperties, <1>1
<1> HIDE DEF u, n
<1>3. ASSUME NEW i \in 1..n PROVE i = 1 \/ (i - 1 \in 1..(n - 1) /\ s[i] = u[i - 1])
  BY <1>1, <1>2
<1>4. ASSUME NEW i \in 1..(n - 1) PROVE i + 1 \in 1..n /\ i + 1 # 1 /\ u[i] = s[i + 1]
  BY <1>1, <1>2
<1>5. Members(s) = Members(u) \cup {s[1]}
  <2>1. Members(s) \subseteq Members(u) \cup {s[1]}
    BY <1>1, <1>2, <1>3 DEF Members
  <2>2. Members(u) \subseteq Members(s)
    BY <1>1, <1>2, <1>4 DEF Members
  <2>3. s[1] \in Members(s)
    BY <1>1 DEF Members
  <2> QED BY <2>1, <2>2, <2>3
<1>6. ASSUME Distinct(s) PROVE Distinct(u) /\ s[1] \notin Members(u)
  <2>1. ASSUME NEW i \in 1..(n - 1), NEW j \in 1..(n - 1), u[i] = u[j] PROVE i = j
    <3>1. i + 1 \in DOMAIN s /\ j + 1 \in DOMAIN s /\ s[i + 1] = s[j + 1]
      BY <1>1, <1>4, <2>1
    <3>2. i + 1 = j + 1
      BY <1>6, <3>1, Zenon DEF Distinct
    <3> QED BY <3>2, <1>1
  <2>2. ASSUME NEW i \in 1..(n - 1) PROVE u[i] # s[1]
    BY <1>1, <1>4, <1>6 DEF Distinct
  <2> QED BY <1>2, <2>1, <2>2 DEF Distinct, Members
<1> QED BY <1>1, <1>2, <1>5, <1>6 DEF u

-----------------------------------------------------------------------------
(* The queue's operators.                                                  *)

LEMMA WithoutFacts ==
  ASSUME NEW X, NEW s \in Seq(X), NEW taken
  PROVE  /\ Without(s, taken) \in Seq(X)
         /\ Members(Without(s, taken)) = Members(s) \ taken
         /\ Distinct(s) => Distinct(Without(s, taken))
<1> DEFINE I == {i \in DOMAIN s : s[i] \notin taken}
<1>1. /\ ElementsAt(s, I) \in Seq(X)
      /\ Members(ElementsAt(s, I)) = {s[i] : i \in I}
      /\ Distinct(s) => Distinct(ElementsAt(s, I))
  BY ElementsAtFacts
<1>2. {s[i] : i \in I} = Members(s) \ taken
  BY DEF Members
<1> QED BY <1>1, <1>2 DEF Without

LEMMA PeekFacts ==
  ASSUME NEW es \in Seq(Tasks), NEW a, NEW eps
  PROVE  /\ Peek(es, a, eps) \in Seq(Tasks)
         /\ Members(Peek(es, a, eps)) = {t \in Members(es) : IsFor(t, a, eps)}
<1> DEFINE I == {i \in DOMAIN es : IsFor(es[i], a, eps)}
<1>1. /\ ElementsAt(es, I) \in Seq(Tasks)
      /\ Members(ElementsAt(es, I)) = {es[i] : i \in I}
  BY ElementsAtFacts
<1>2. {es[i] : i \in I} = {t \in Members(es) : IsFor(t, a, eps)}
  BY DEF Members
<1> QED BY <1>1, <1>2 DEF Peek, Addressed

\* Something is queued for the main thread just when some entry is for it.
LEMMA QueuedFacts ==
  ASSUME NEW es \in Seq(Tasks), NEW eps
  PROVE  /\ Queued(es, eps) <=> \E t \in Members(es) : IsFor(t, Main, eps)
         /\ Queued(es, eps) => Head(Peek(es, Main, eps)) \in Members(es)
<1> DEFINE w == Peek(es, Main, eps)
<1>1. w \in Seq(Tasks) /\ Members(w) = {t \in Members(es) : IsFor(t, Main, eps)}
  BY PeekFacts
<1> HIDE DEF w
<1>2. /\ w # <<>> <=> Members(w) # {}
      /\ w # <<>> => Head(w) \in Members(w)
  BY <1>1, MembersFacts
<1>3. Queued(es, eps) <=> w # <<>>
  BY DEF Queued, w
<1> QED BY <1>1, <1>2, <1>3 DEF w

\* An enqueue wakes the main thread just when the entry is for it.
LEMMA WakesMain ==
  ASSUME NEW t \in Tasks, NEW eps \in SUBSET Agents
  PROVE  WakeTarget(OwnerOf[t], eps) = Main <=> IsFor(t, Main, eps)
<1>1. Main \notin eps
  BY OwnerAssumption, AgentsAssumption
<1> QED BY <1>1 DEF WakeTarget, IsFor

\* Nothing waits for the main thread without a turn that will look at it.
Attended(es, eps, ta) == ~ta /\ ~framesEnded /\ ~hard => ~Queued(es, eps)

\* What pumpNotifications keeps.
LEMMA PumpFacts ==
  ASSUME NEW es, NEW fs, QueueFits(es, fs), NEW eps, NEW ta \in BOOLEAN, Pump(es, eps, fs, ta)
  PROVE  /\ QueueFits(entries', frames')
         /\ Members(entries') \cup Members(frames') = Members(es) \cup Members(fs)
         /\ Members(frames') \subseteq Members(fs) \cup Tasks
         /\ turnActive' \in BOOLEAN /\ (ta => turnActive')
         /\ Attended(entries', eps, turnActive')
<1>1. CASE ta \/ framesEnded \/ hard \/ ~Queued(es, eps)
  <2>1. entries' = es /\ frames' = fs /\ turnActive' = ta
    BY <1>1 DEF Pump
  <2>2. Attended(entries', eps, turnActive')
    BY <1>1, <2>1 DEF Attended
  <2> QED BY <2>1, <2>2
<1>2. CASE ~(ta \/ framesEnded \/ hard \/ ~Queued(es, eps))
  <2> DEFINE t == Head(Peek(es, Main, eps))
  <2>1. es \in Seq(Tasks) /\ fs \in Seq(Frames) /\ Distinct(es) /\ Distinct(fs) /\ Members(es) \cap Members(fs) = {}
    BY DEF QueueFits
  <2>2. t \in Members(es) /\ t \in Tasks /\ t \in Frames
    <3>1. t \in Members(es)
      BY <1>2, <2>1, QueuedFacts
    <3> QED BY <3>1, <2>1, MembersFacts DEF Frames
  <2>3. entries' = Without(es, {t}) /\ frames' = Append(fs, t) /\ turnActive' = TRUE
    BY <1>2 DEF Pump
  <2> HIDE DEF t
  <2>4. entries' \in Seq(Tasks) /\ Members(entries') = Members(es) \ {t} /\ Distinct(entries')
    BY <2>1, <2>3, WithoutFacts
  <2>5. frames' \in Seq(Frames) /\ Members(frames') = Members(fs) \cup {t} /\ Distinct(frames')
    <3>1. t \notin Members(fs)
      BY <2>1, <2>2
    <3> QED BY <2>1, <2>2, <2>3, <3>1, AppendMembers
  <2>6. Attended(entries', eps, turnActive')
    BY <2>3 DEF Attended
  <2>7. Members(entries') \cap Members(frames') = {}
    BY <2>1, <2>4, <2>5
  <2> QED BY <2>1, <2>2, <2>3, <2>4, <2>5, <2>6, <2>7 DEF QueueFits
<1> QED BY <1>1, <1>2

\* The rows of a set in some order: each once.
LEMMA OrdersFacts ==
  ASSUME NEW S \in SUBSET Tasks, NEW order \in Orders(S)
  PROVE  order \in Seq(Tasks) /\ Members(order) = S /\ Distinct(order)
<1> DEFINE n == Cardinality(S)
<1>1. IsFiniteSet(S) /\ n \in Nat
  BY TasksAssumption, FS_Subset, FS_CardinalityType
<1>2. order \in [1..n -> S] /\ Members(order) = S
  BY DEF Orders
<1> HIDE DEF n
<1>3. IsFiniteSet(1..n) /\ Cardinality(1..n) = n
  BY <1>1, FS_Interval
<1>4. order \in Surjection(1..n, S)
  BY <1>2 DEF Surjection, Members
<1>5. order \in Injection(1..n, S)
  BY <1>1, <1>3, <1>4, FS_SurjSameCardinalityImpliesInj DEF n
<1>6. Distinct(order)
  BY <1>2, <1>5 DEF Injection, IsInjective, Distinct
<1>7. order \in Seq(Tasks)
  BY <1>1, <1>2
<1> QED BY <1>2, <1>6, <1>7

\* What notices of the tasks in S, queued and pumped, do to the queue.
QueueGrows(S, eps) ==
  /\ QueueFits(entries', frames')
  /\ Members(entries') \cup Members(frames') = Pending \cup S
  /\ Members(frames') \subseteq Members(frames) \cup Tasks
  /\ turnActive' \in BOOLEAN
  /\ Attended(entries', eps, turnActive')

\* The types, a variable at a time.
LEMMA Types ==
  ASSUME SessionTypeOK
  PROVE  /\ row \in [Tasks -> {"none", "running"} \cup Terminal]
         /\ work \in [Tasks -> {"none", "spawning", "live", "exited", "winding", "gone"}]
         /\ claimed \subseteq Tasks /\ endpoints \subseteq Agents
         /\ turnActive \in BOOLEAN /\ struck \in BOOLEAN /\ inputClosed \in BOOLEAN /\ framesEnded \in BOOLEAN
         /\ aborted \in BOOLEAN /\ hard \in BOOLEAN /\ swept \in BOOLEAN
  BY DEF SessionTypeOK

\* A row that runs has no notice yet.
LEMMA RunningFacts ==
  ASSUME SessionInv
  PROVE  /\ Running \subseteq Tasks /\ Running \cap claimed = {}
         /\ Running \cap Pending = {} /\ cur \notin Running
         /\ \A t \in Running : used[t] = 0
<1>1. \A t \in Running : t \in Tasks /\ row[t] = "running" /\ row[t] \notin Terminal
  BY DEF Running, Terminal
<1>2. \A t \in claimed : row[t] \in Terminal
  BY DEF SessionInv, TasksFit
<1>3. \A t \in Tasks : t \in Pending \cup {cur} \/ used[t] # 0 => row[t] \in Terminal
  BY DEF SessionInv, NoticesFit
<1> QED BY <1>1, <1>2, <1>3

LEMMA EnqueueFacts ==
  ASSUME QueueFits(entries, frames), NEW order \in Seq(Tasks), Distinct(order), Members(order) \cap Pending = {}
  PROVE  /\ QueueFits(entries \o order, frames)
         /\ Members(entries \o order) = Members(entries) \cup Members(order)
<1>1. /\ entries \in Seq(Tasks) /\ frames \in Seq(Frames) /\ Distinct(entries) /\ Distinct(frames)
      /\ Members(entries) \cap Members(frames) = {}
  BY DEF QueueFits
<1>2. Members(entries) \cap Members(order) = {} /\ Members(order) \cap Members(frames) = {}
  BY DEF Pending
<1>3. /\ entries \o order \in Seq(Tasks) /\ Members(entries \o order) = Members(entries) \cup Members(order)
      /\ Distinct(entries \o order)
  BY <1>1, <1>2, ConcatMembers
<1> QED BY <1>1, <1>2, <1>3 DEF QueueFits

\* The registry's door: each row of S gets its notice, and the main thread is
\* woken if one of them is its own.
LEMMA NotifyFacts ==
  ASSUME SessionInv, NEW S \in SUBSET Running,
         NEW order \in Seq(Tasks), Members(order) = S, Distinct(order), Notify(order)
  PROVE  claimed' = claimed \cup S /\ QueueGrows(S, endpoints)
<1> DEFINE notes == Without(order, claimed)
<1>1. /\ S \cap claimed = {} /\ S \cap Pending = {} /\ S \subseteq Tasks
      /\ QueueFits(entries, frames) /\ turnActive \in BOOLEAN /\ endpoints \in SUBSET Agents
      /\ Attended(entries, endpoints, turnActive)
  BY RunningFacts, Types DEF SessionInv, NoticesFit, NothingStranded, Attended
<1>2. notes \in Seq(Tasks) /\ Members(notes) = S /\ Distinct(notes)
  <2>1. S \ claimed = S
    BY <1>1
  <2> QED BY <2>1, WithoutFacts
<1>3. /\ claimed' = claimed \cup S
      /\ IF \E t \in Members(notes) : WakeTarget(OwnerOf[t], endpoints) = Main
           THEN Pump(entries \o notes, endpoints, frames, turnActive)
           ELSE entries' = entries \o notes /\ UNCHANGED <<frames, turnActive>>
  BY DEF Notify
<1> HIDE DEF notes
<1>4. QueueFits(entries \o notes, frames) /\ Members(entries \o notes) = Members(entries) \cup S
  BY <1>1, <1>2, EnqueueFacts
<1>5. CASE \E t \in Members(notes) : WakeTarget(OwnerOf[t], endpoints) = Main
  <2>1. Pump(entries \o notes, endpoints, frames, turnActive)
    BY <1>3, <1>5
  <2>2. /\ QueueFits(entries', frames')
        /\ Members(entries') \cup Members(frames') = Members(entries \o notes) \cup Members(frames)
        /\ Members(frames') \subseteq Members(frames) \cup Tasks
        /\ turnActive' \in BOOLEAN
        /\ Attended(entries', endpoints, turnActive')
    BY <2>1, <1>1, <1>4, PumpFacts
  <2> QED BY <1>3, <1>4, <2>2 DEF QueueGrows, Pending
<1>6. CASE ~\E t \in Members(notes) : WakeTarget(OwnerOf[t], endpoints) = Main
  <2>1. entries' = entries \o notes /\ frames' = frames /\ turnActive' = turnActive
    BY <1>3, <1>6
  <2>2. \A t \in S : ~IsFor(t, Main, endpoints)
    BY <1>1, <1>2, <1>6, WakesMain
  <2>3. entries \in Seq(Tasks) /\ entries \o notes \in Seq(Tasks)
    BY <1>1, <1>4 DEF QueueFits
  <2>4. Queued(entries \o notes, endpoints) => Queued(entries, endpoints)
    BY <1>4, <2>2, <2>3, QueuedFacts
  <2>5. Attended(entries', endpoints, turnActive')
    BY <1>1, <2>1, <2>4 DEF Attended
  <2> QED BY <1>1, <1>3, <1>4, <2>1, <2>5 DEF QueueGrows, Pending
<1> QED BY <1>5, <1>6

-----------------------------------------------------------------------------
(* Steps in which the rows of a set R end, which may be none.  Their       *)
(* notices are queued, and nothing else of the tasks changes but that a    *)
(* child engine is torn down and a shell's process comes and goes.         *)

WorkEnds(R) ==
  /\ work' \in [Tasks -> {"none", "spawning", "live", "exited", "winding", "gone"}]
  /\ \A t \in Tasks :
       \/ t \notin R /\ work'[t] = work[t]
       \/ t \in Agents /\ t \in R /\ work'[t] = "winding"
       \/ t \in Agents /\ t \notin R /\ work[t] = "winding" /\ work'[t] = "gone"
       \/ t \in Shells /\ (work'[t] = "live" => t \notin R /\ row[t] = "running")

Ending(R, eps) ==
  /\ R \subseteq Running
  /\ \E v \in Terminal : row' = [t \in Tasks |-> IF t \in R THEN v ELSE row[t]]
  /\ claimed' = claimed \cup R
  /\ QueueGrows(R, eps)
  /\ endpoints' = eps /\ eps \subseteq endpoints
  /\ WorkEnds(R)

\* What such a step leaves of the rest.
Keeps ==
  /\ used' = used /\ dropped' = dropped /\ sent' = sent
  /\ cur' = None \/ (cur' = cur /\ (cur \in Tasks => (loop' \in Unasked <=> loop \in Unasked)))
  /\ framesEnded => framesEnded'
  /\ hard => hard'
  /\ loop' = "done" => loop = "done"

\* The types of what such a step changes.
TaskTypes ==
  /\ row \in [Tasks -> {"none", "running"} \cup Terminal]
  /\ work \in [Tasks -> {"none", "spawning", "live", "exited", "winding", "gone"}]
  /\ claimed \subseteq Tasks
  /\ entries \in Seq(Tasks) /\ endpoints \subseteq Agents
  /\ frames \in Seq(Frames) /\ turnActive \in BOOLEAN

LEMMA EndingTypes ==
  ASSUME SessionInv, NEW R, NEW eps, Ending(R, eps)
  PROVE  TaskTypes'
<1>1. row \in [Tasks -> {"none", "running"} \cup Terminal] /\ claimed \subseteq Tasks /\ endpoints \subseteq Agents
  BY Types DEF SessionInv
<1>2. row' \in [Tasks -> {"none", "running"} \cup Terminal]
  BY <1>1 DEF Ending
<1>3. claimed' \subseteq Tasks /\ endpoints' \subseteq Agents
  BY <1>1 DEF Ending, Running
<1>4. entries' \in Seq(Tasks) /\ frames' \in Seq(Frames) /\ turnActive' \in BOOLEAN
  BY DEF Ending, QueueGrows, QueueFits
<1>5. work' \in [Tasks -> {"none", "spawning", "live", "exited", "winding", "gone"}]
  BY DEF Ending, WorkEnds
<1> QED BY <1>2, <1>3, <1>4, <1>5 DEF TaskTypes

LEMMA EndingTasks ==
  ASSUME SessionInv, NEW R, NEW eps, Ending(R, eps), loop' = "done" => loop = "done"
  PROVE  TasksFit'
<1>1. /\ row \in [Tasks -> {"none", "running"} \cup Terminal] /\ claimed \subseteq Tasks
      /\ Agents \subseteq Tasks /\ Shells = Tasks \ Agents
  BY Types, AgentsAssumption DEF SessionInv, Shells
<1>2. PICK v \in Terminal : row' = [t \in Tasks |-> IF t \in R THEN v ELSE row[t]]
  BY DEF Ending
<1>3. /\ R \subseteq Tasks /\ (\A t \in R : row[t] = "running" /\ row'[t] = v)
      /\ \A t \in Tasks \ R : row'[t] = row[t]
  BY <1>2 DEF Ending, Running
<1>4. /\ \A a \in Agents : (row[a] = "running" <=> work[a] = "live") /\ work[a] \in {"none", "live", "winding", "gone"}
      /\ \A t \in claimed : row[t] \in Terminal
      /\ \A s \in Shells : row[s] \in Terminal => work[s] # "live"
      /\ loop = "done" => Running = {} /\ \A a \in Agents : work[a] \in {"none", "gone"}
  BY DEF SessionInv, TasksFit, NoProcessOutlives
<1>5. \A t \in Tasks :
       \/ t \notin R /\ work'[t] = work[t]
       \/ t \in Agents /\ t \in R /\ work'[t] = "winding"
       \/ t \in Agents /\ t \notin R /\ work[t] = "winding" /\ work'[t] = "gone"
       \/ t \in Shells /\ (work'[t] = "live" => t \notin R /\ row[t] = "running")
  BY DEF Ending, WorkEnds
<1>6. ASSUME NEW a \in Agents
      PROVE  /\ row'[a] = "running" <=> work'[a] = "live"
             /\ work'[a] \in {"none", "live", "winding", "gone"}
  <2>1. a \in Tasks /\ a \notin Shells
    BY <1>1
  <2>2. CASE a \in R
    <3>1. row'[a] = v /\ work'[a] = "winding"
      BY <1>3, <1>5, <2>1, <2>2
    <3> QED BY <3>1 DEF Terminal
  <2>3. CASE a \notin R
    <3>1. row'[a] = row[a] /\ (work'[a] = work[a] \/ (work[a] = "winding" /\ work'[a] = "gone"))
      BY <1>3, <1>5, <2>1, <2>3
    <3> QED BY <3>1, <1>4
  <2> QED BY <2>2, <2>3
<1>7. claimed' \subseteq {t \in Tasks : row'[t] \in Terminal}
  <2>1. claimed' = claimed \cup R
    BY DEF Ending
  <2> QED BY <1>1, <1>3, <1>4, <2>1
<1>8. \A s \in Shells : row'[s] \in Terminal => work'[s] # "live"
  <2> SUFFICES ASSUME NEW s \in Shells, row'[s] \in Terminal, work'[s] = "live" PROVE FALSE
    OBVIOUS
  <2>1. s \in Tasks /\ s \notin Agents
    BY <1>1
  <2>2. s \notin R
    BY <1>5, <2>1
  <2>3. row[s] \in Terminal
    BY <1>3, <2>1, <2>2
  <2> QED BY <1>4, <1>5, <2>1, <2>2, <2>3 DEF Terminal
<1>9. loop' = "done" => Running' = {} /\ \A a \in Agents : work'[a] \in {"none", "gone"}
  <2> SUFFICES ASSUME loop' = "done" PROVE Running' = {} /\ \A a \in Agents : work'[a] \in {"none", "gone"}
    OBVIOUS
  <2>1. Running = {} /\ R = {} /\ \A a \in Agents : work[a] \in {"none", "gone"}
    BY <1>4 DEF Ending
  <2>2. \A t \in Tasks : row'[t] # "running"
    BY <1>3, <2>1 DEF Running
  <2>3. \A a \in Agents : work'[a] \in {"none", "gone"}
    BY <1>1, <1>5, <2>1
  <2> QED BY <2>2, <2>3 DEF Running
<1> QED BY <1>6, <1>7, <1>8, <1>9 DEF TasksFit, NoProcessOutlives

LEMMA EndingNotices ==
  ASSUME SessionInv, NEW R, NEW eps, Ending(R, eps), Keeps
  PROVE  NoticesFit'
<1>1. PICK v \in Terminal : row' = [t \in Tasks |-> IF t \in R THEN v ELSE row[t]]
  BY DEF Ending
<1>2. /\ R \subseteq Tasks /\ R \cap Pending = {} /\ cur \notin R /\ \A t \in R : used[t] = 0
  BY RunningFacts DEF Ending
<1>3. /\ \A t \in R : row'[t] \in Terminal
      /\ \A t \in Tasks \ R : row'[t] = row[t]
  BY <1>1, <1>2
<1>4. /\ cur \notin Pending
      /\ \A t \in Tasks :
           /\ t \in Pending \cup {cur} \/ used[t] # 0 => row[t] \in Terminal
           /\ t \in Pending => used[t] = 0
           /\ t = cur => used[t] = (IF loop \in Unasked THEN 0 ELSE 1)
           /\ used[t] \in {0, 1}
      /\ \A n \in 1..Inputs : n \in Pending \cup {cur} => n <= sent
  BY DEF SessionInv, NoticesFit
<1>5. /\ QueueFits(entries', frames') /\ Pending' = Pending \cup R
  BY DEF Ending, QueueGrows, Pending
<1>6. /\ None \notin Tasks /\ None \notin 1..Inputs /\ \A n \in 1..Inputs : n \notin Tasks
  BY TasksAssumption, InputsAssumption DEF None
<1>7. Pending \subseteq Frames /\ Frames = (1..Inputs) \cup Tasks
  <2>1. entries \in Seq(Tasks) /\ frames \in Seq(Frames)
    BY DEF SessionInv, SessionTypeOK
  <2>2. Members(entries) \subseteq Tasks /\ Members(frames) \subseteq Frames
    BY <2>1, MembersFacts
  <2> QED BY <2>2 DEF Pending, Frames
<1>8. /\ used' = used /\ sent' = sent
      /\ cur' = None \/ (cur' = cur /\ (cur \in Tasks => (loop' \in Unasked <=> loop \in Unasked)))
  BY DEF Keeps
<1>9. cur' \notin Pending'
  BY <1>2, <1>4, <1>5, <1>6, <1>7, <1>8
<1>10. ASSUME NEW t \in Tasks
       PROVE  /\ t \in Pending' \cup {cur'} \/ used'[t] # 0 => row'[t] \in Terminal
              /\ t \in Pending' => used'[t] = 0
              /\ t = cur' => used'[t] = (IF loop' \in Unasked THEN 0 ELSE 1)
              /\ used'[t] \in {0, 1}
  <2>1. t \in Pending' \cup {cur'} => t \in Pending \cup {cur} \cup R
    BY <1>5, <1>6, <1>8
  <2>2. t \in Pending' \cup {cur'} \/ used'[t] # 0 => row'[t] \in Terminal
    BY <1>3, <1>4, <1>8, <2>1
  <2>3. t \in Pending' => used'[t] = 0
    BY <1>2, <1>4, <1>5, <1>8
  <2>4. t = cur' => used'[t] = (IF loop' \in Unasked THEN 0 ELSE 1)
    BY <1>4, <1>6, <1>8
  <2> QED BY <1>4, <1>8, <2>2, <2>3, <2>4
<1>11. ASSUME NEW n \in 1..Inputs, n \in Pending' \cup {cur'} PROVE n <= sent'
  <2>1. n \in Pending \cup {cur}
    BY <1>2, <1>5, <1>6, <1>8, <1>11
  <2> QED BY <1>4, <1>8, <2>1
<1> QED BY <1>5, <1>9, <1>10, <1>11 DEF NoticesFit

\* All that depends on tasks and queue survives such a step.
LEMMA EndingKeeps ==
  ASSUME SessionInv, NEW R, NEW eps, Ending(R, eps), Keeps
  PROVE  TaskTypes' /\ TasksFit' /\ NoticesFit' /\ NothingStranded'
<1>1. NothingStranded'
  <2>1. Attended(entries', endpoints', turnActive')
    BY DEF Ending, QueueGrows
  <2> QED BY <2>1 DEF Attended, NothingStranded, Keeps
<1> QED BY <1>1, EndingTypes, EndingTasks, EndingNotices DEF Keeps

-----------------------------------------------------------------------------
(* The steps of that kind.                                                 *)

\* Tasks and queue stay as they are, but for a shell's process.
LEMMA EndingNone ==
  ASSUME SessionInv, UNCHANGED <<row, claimed, queueVars, endpoints>>, WorkEnds({})
  PROVE  Ending({}, endpoints)
<1>1. QueueFits(entries, frames) /\ Attended(entries, endpoints, turnActive) /\ turnActive \in BOOLEAN
  BY Types DEF SessionInv, NoticesFit, NothingStranded, Attended
<1>2. entries' = entries /\ frames' = frames /\ turnActive' = turnActive
  BY DEF queueVars
<1>3. QueueGrows({}, endpoints)
  BY <1>1, <1>2 DEF QueueGrows, Pending
<1>4. row' = [t \in Tasks |-> IF t \in {} THEN "stopped" ELSE row[t]]
  BY Types DEF SessionInv
<1>5. \E v \in Terminal : row' = [t \in Tasks |-> IF t \in {} THEN v ELSE row[t]]
  BY <1>4 DEF Terminal
<1> QED BY <1>3, <1>5 DEF Ending

LEMMA NoWork ==
  ASSUME SessionInv, work' = work
  PROVE  WorkEnds({})
  BY Types DEF SessionInv, WorkEnds

LEMMA TasksSame ==
  ASSUME SessionInv, UNCHANGED <<taskVars, queueVars, endpoints>>
  PROVE  Ending({}, endpoints)
  BY NoWork, EndingNone DEF taskVars

\* A pump without new notices.
LEMMA EndingPump ==
  ASSUME SessionInv, UNCHANGED <<taskVars, endpoints>>, NEW ta \in BOOLEAN, Pump(entries, endpoints, frames, ta)
  PROVE  Ending({}, endpoints)
<1>1. QueueFits(entries, frames)
  BY DEF SessionInv, NoticesFit
<1>2. QueueGrows({}, endpoints)
  BY <1>1, PumpFacts DEF QueueGrows, Pending
<1>3. row' = row /\ claimed' = claimed /\ work' = work
  BY DEF taskVars
<1>4. row' = [t \in Tasks |-> IF t \in {} THEN "stopped" ELSE row[t]]
  BY <1>3, Types DEF SessionInv
<1>5. \E v \in Terminal : row' = [t \in Tasks |-> IF t \in {} THEN v ELSE row[t]]
  BY <1>4 DEF Terminal
<1>6. WorkEnds({})
  BY <1>3, NoWork
<1> QED BY <1>2, <1>3, <1>5, <1>6 DEF Ending

\* Rows are stopped, by TaskStop, the sweep or the session's end.
LEMMA EndingStopAll ==
  ASSUME SessionInv, NEW S \in SUBSET Tasks, StopAll(S), UNCHANGED endpoints
  PROVE  Ending(S \cap Running, endpoints)
<1> DEFINE R == S \cap Running
<1>1. PICK order \in Orders(R) : Verdict(S, "stopped") /\ Notify(order) /\ StopWork(R)
  BY DEF StopAll
<1>2. R \in SUBSET Running /\ R \in SUBSET Tasks
  BY DEF Running
<1>3. order \in Seq(Tasks) /\ Members(order) = R /\ Distinct(order)
  BY <1>2, OrdersFacts
<1>4. claimed' = claimed \cup R /\ QueueGrows(R, endpoints)
  BY <1>1, <1>2, <1>3, NotifyFacts
<1>5. row' = [t \in Tasks |-> IF t \in R THEN "stopped" ELSE row[t]]
  BY <1>1 DEF Verdict
<1>6. \E v \in Terminal : row' = [t \in Tasks |-> IF t \in R THEN v ELSE row[t]]
  BY <1>5 DEF Terminal
<1>7. WorkEnds(R)
  <2>1. work' = [t \in Tasks |-> IF t \in R THEN Killed(t) ELSE work[t]]
    BY <1>1 DEF StopWork
  <2>2. work \in [Tasks -> {"none", "spawning", "live", "exited", "winding", "gone"}]
    BY Types DEF SessionInv
  <2>3. ASSUME NEW t \in Tasks
        PROVE  /\ Killed(t) \in {"none", "spawning", "live", "exited", "winding", "gone"}
               /\ t \in R /\ t \in Agents => Killed(t) = "winding"
               /\ t \in Shells => Killed(t) # "live"
    <3>1. t \in R /\ t \in Agents => work[t] = "live"
      BY DEF SessionInv, TasksFit, Running
    <3> QED BY <2>2, <3>1 DEF Killed, Shells
  <2>4. \A t \in Tasks : t \in Agents \/ t \in Shells
    BY DEF Shells
  <2>5. work' \in [Tasks -> {"none", "spawning", "live", "exited", "winding", "gone"}]
    BY <2>1, <2>2, <2>3
  <2> QED BY <2>1, <2>3, <2>4, <2>5 DEF WorkEnds
<1> QED BY <1>2, <1>4, <1>6, <1>7 DEF Ending

\* A task's own end: a shell's run settles, or a child's generation does.
LEMMA EndingReport ==
  ASSUME SessionInv, NEW t \in Tasks, NEW w, Report(t), UNCHANGED endpoints, work' = [work EXCEPT ![t] = w],
         (t \in Shells /\ w = "gone") \/ (t \in Agents /\ work[t] = "live" /\ w = "winding")
  PROVE  \E R : Ending(R, endpoints)
<1>1. work \in [Tasks -> {"none", "spawning", "live", "exited", "winding", "gone"}]
  BY Types DEF SessionInv
<1>2. /\ work' \in [Tasks -> {"none", "spawning", "live", "exited", "winding", "gone"}]
      /\ work'[t] = w /\ \A u \in Tasks : u # t => work'[u] = work[u]
  BY <1>1
<1>3. CASE row[t] = "running"
  <2>1. Verdict({t}, "completed") /\ Notify(<<t>>)
    BY <1>3 DEF Report
  <2>2. {t} \in SUBSET Running
    BY <1>3 DEF Running
  <2>3. <<t>> \in Seq(Tasks) /\ DOMAIN <<t>> = {1} /\ <<t>>[1] = t
    OBVIOUS
  <2>4. Members(<<t>>) = {t} /\ Distinct(<<t>>)
    BY <2>3 DEF Members, Distinct
  <2>5. claimed' = claimed \cup {t} /\ QueueGrows({t}, endpoints)
    BY <2>1, <2>2, <2>3, <2>4, NotifyFacts
  <2>6. {t} \cap Running = {t}
    BY <2>2
  <2>7. row' = [u \in Tasks |-> IF u \in {t} THEN "completed" ELSE row[u]]
    BY <2>1, <2>6 DEF Verdict
  <2>8. \E v \in Terminal : row' = [u \in Tasks |-> IF u \in {t} THEN v ELSE row[u]]
    BY <2>7 DEF Terminal
  <2>9. WorkEnds({t})
    BY <1>2 DEF WorkEnds
  <2>10. Ending({t}, endpoints)
    BY <2>2, <2>5, <2>8, <2>9 DEF Ending
  <2> QED BY <2>10
<1>4. CASE row[t] # "running"
  <2>1. t \in Shells /\ w = "gone"
    BY <1>4 DEF SessionInv, TasksFit
  <2>2. UNCHANGED <<row, claimed, queueVars>>
    BY <1>4 DEF Report
  <2>3. WorkEnds({})
    BY <1>2, <2>1 DEF WorkEnds
  <2>4. Ending({}, endpoints)
    BY <2>2, <2>3, EndingNone
  <2> QED BY <2>4
<1> QED BY <1>3, <1>4

\* A child engine's teardown.
LEMMA EndingTeardown ==
  ASSUME SessionInv, NEW a \in Tasks, ChildTearsDown(a)
  PROVE  \E R : Ending(R, endpoints \ {a})
<1> DEFINE R == {t \in Running \ Agents : OwnerOf[t] = a}
           eps == endpoints \ {a}
<1>1. PICK order \in Orders(R \ claimed) : Disposed(a, entries \o order)
  BY DEF ChildTearsDown
<1>2. /\ a \in Agents /\ work[a] = "winding" /\ Verdict(R, "stopped") /\ claimed' = claimed \cup R
      /\ work' = [t \in Tasks |-> IF t = a THEN "gone" ELSE IF t \in R THEN Killed(t) ELSE work[t]]
  BY DEF ChildTearsDown
<1>3. /\ R \subseteq Running /\ R \in SUBSET Tasks /\ R \ claimed = R /\ R \cap Pending = {} /\ R \cap Running = R
      /\ \A t \in R : OwnerOf[t] = a /\ t \in Shells /\ t # a
  BY <1>2, RunningFacts DEF Shells
<1> HIDE DEF R
<1>4. order \in Seq(Tasks) /\ Members(order) = R /\ Distinct(order)
  BY <1>1, <1>3, OrdersFacts
<1>5. /\ QueueFits(entries, frames) /\ turnActive \in BOOLEAN /\ endpoints \in SUBSET Agents
      /\ Attended(entries, endpoints, turnActive)
  BY Types DEF SessionInv, NoticesFit, NothingStranded, Attended
<1>6. QueueFits(entries \o order, frames) /\ Members(entries \o order) = Members(entries) \cup R
  BY <1>3, <1>4, <1>5, EnqueueFacts
<1>7. QueueGrows(R, eps)
  <2>1. CASE \E t \in Members(entries \o order) : OwnerOf[t] = a
    <3>1. Pump(entries \o order, eps, frames, turnActive)
      BY <1>1, <2>1 DEF Disposed
    <3> QED BY <1>5, <1>6, <3>1, PumpFacts DEF QueueGrows, Pending
  <2>2. CASE ~\E t \in Members(entries \o order) : OwnerOf[t] = a
    <3>1. entries' = entries \o order /\ frames' = frames /\ turnActive' = turnActive
      BY <1>1, <2>2 DEF Disposed
    <3>2. R = {} /\ \A t \in Members(entries) : OwnerOf[t] # a
      BY <1>3, <1>6, <2>2
    <3>3. \A t \in Members(entries \o order) : t \in Members(entries) /\ (IsFor(t, Main, eps) => IsFor(t, Main, endpoints))
      BY <1>6, <3>2 DEF IsFor
    <3>4. entries \in Seq(Tasks) /\ entries \o order \in Seq(Tasks)
      BY <1>5, <1>6 DEF QueueFits
    <3>5. Queued(entries \o order, eps) => Queued(entries, endpoints)
      BY <3>3, <3>4, QueuedFacts
    <3>6. Attended(entries', eps, turnActive')
      BY <1>5, <3>1, <3>5 DEF Attended
    <3> QED BY <1>5, <1>6, <3>1, <3>6 DEF QueueGrows, Pending
  <2> QED BY <2>1, <2>2
<1>8. row' = [t \in Tasks |-> IF t \in R THEN "stopped" ELSE row[t]]
  BY <1>2, <1>3 DEF Verdict
<1>9. \E v \in Terminal : row' = [t \in Tasks |-> IF t \in R THEN v ELSE row[t]]
  BY <1>8 DEF Terminal
<1>10. WorkEnds(R)
  <2>1. work \in [Tasks -> {"none", "spawning", "live", "exited", "winding", "gone"}]
    BY Types DEF SessionInv
  <2>2. \A t \in Tasks : /\ Killed(t) \in {"none", "spawning", "live", "exited", "winding", "gone"}
                         /\ t \in Shells => Killed(t) # "live"
    BY <2>1 DEF Killed, Shells
  <2>3. work' \in [Tasks -> {"none", "spawning", "live", "exited", "winding", "gone"}]
    BY <1>2, <2>1, <2>2
  <2>4. ASSUME NEW t \in Tasks
        PROVE  \/ t \notin R /\ work'[t] = work[t]
               \/ t \in Agents /\ t \notin R /\ work[t] = "winding" /\ work'[t] = "gone"
               \/ t \in Shells /\ (work'[t] = "live" => t \notin R /\ row[t] = "running")
    <3>1. CASE t = a
      BY <1>2, <1>3, <3>1
    <3>2. CASE t # a /\ t \in R
      BY <1>2, <1>3, <2>2, <3>2
    <3>3. CASE t # a /\ t \notin R
      BY <1>2, <3>3
    <3> QED BY <3>1, <3>2, <3>3
  <2> QED BY <2>3, <2>4 DEF WorkEnds
<1>11. endpoints' = eps
  BY <1>1 DEF Disposed
<1>12. Ending(R, eps)
  BY <1>2, <1>3, <1>7, <1>9, <1>10, <1>11 DEF Ending
<1> QED BY <1>12

\* A shell's process is spawned, or exits.
LEMMA EndingProcess ==
  ASSUME SessionInv, NEW t \in Tasks, Spawned(t) \/ Exits(t)
  PROVE  Ending({}, endpoints)
<1>1. work \in [Tasks -> {"none", "spawning", "live", "exited", "winding", "gone"}]
  BY Types DEF SessionInv
<1>2. t \in Shells
  <2>1. work[t] = "spawning" \/ t \in Shells
    BY DEF Spawned, Exits
  <2> QED BY <2>1 DEF SessionInv, TasksFit, Shells
<1>3. PICK w \in {"live", "gone", "exited"} : work' = [work EXCEPT ![t] = w] /\ (w = "live" => row[t] = "running")
  BY DEF Spawned, Exits
<1>4. WorkEnds({})
  BY <1>1, <1>2, <1>3 DEF WorkEnds
<1>5. claimed' = claimed
  <2>1. CASE Exits(t)
    BY <2>1 DEF Exits
  <2>2. CASE Spawned(t)
    <3>1. row[t] = "running" => t \notin claimed
      BY DEF SessionInv, TasksFit, Terminal
    <3> QED BY <2>2, <3>1 DEF Spawned
  <2> QED BY <2>1, <2>2
<1>6. UNCHANGED <<row, queueVars, endpoints>>
  BY DEF Spawned, Exits
<1> QED BY <1>4, <1>5, <1>6, EndingNone

-----------------------------------------------------------------------------
(* Results.                                                                *)

LEMMA AppendFacts ==
  ASSUME NEW X, NEW s \in Seq(X), NEW x \in X
  PROVE  /\ DOMAIN s = 1..Len(s) /\ Len(s) \in Nat
         /\ Append(s, x) \in Seq(X) /\ Len(Append(s, x)) = Len(s) + 1
         /\ DOMAIN Append(s, x) = 1..(Len(s) + 1)
         /\ \A i \in 1..Len(s) : Append(s, x)[i] = s[i] /\ i < Len(s) + 1
         /\ Append(s, x)[Len(s) + 1] = x
         /\ \A i \in 1..(Len(s) + 1) : i \in 1..Len(s) \/ i = Len(s) + 1
  OBVIOUS

\* A turn's result, once given, is older than those to come.
LEMMA GivenFacts ==
  ASSUME NEW n \in Nat, NEW h, NEW o, NEW d, Given(h, o, d, n)
  PROVE  /\ h \in Seq(1..(n + 1)) /\ o \in Seq(1..(n + 1)) /\ d \subseteq 1..(n + 1)
         /\ n + 1 \in 1..(n + 1) /\ 1..n \subseteq 1..(n + 1) /\ 1..(n + 1) = (1..n) \cup {n + 1}
         /\ \A i \in DOMAIN h : h[i] \in Nat /\ h[i] < n + 1
         /\ \A i \in DOMAIN o : o[i] \in Nat /\ o[i] < n + 1
<1>1. h \in Seq(1..n) /\ o \in Seq(1..n) /\ d \subseteq 1..n
  BY DEF Given
<1>2. n + 1 \in 1..(n + 1) /\ 1..n \subseteq 1..(n + 1) /\ 1..(n + 1) = (1..n) \cup {n + 1}
  OBVIOUS
<1>3. h \in Seq(1..(n + 1)) /\ o \in Seq(1..(n + 1))
  BY <1>1, <1>2, SeqMonotonic
<1>4. \A i \in DOMAIN h : h[i] \in 1..n
  BY <1>1
<1>5. \A i \in DOMAIN o : o[i] \in 1..n
  BY <1>1
<1> QED BY <1>1, <1>2, <1>3, <1>4, <1>5

LEMMA GivenHeld ==
  ASSUME NEW n \in Nat, NEW h, NEW o, NEW d, Given(h, o, d, n)
  PROVE  Given(Append(h, n + 1), o, d, n + 1)
<1> DEFINE X == 1..(n + 1)
           g == Append(h, n + 1)
           m == Len(h)
<1>1. /\ h \in Seq(X) /\ o \in Seq(X) /\ d \subseteq X /\ n + 1 \in X /\ X = (1..n) \cup {n + 1}
      /\ \A i \in DOMAIN h : h[i] \in Nat /\ h[i] < n + 1
      /\ \A i \in DOMAIN o : o[i] \in Nat /\ o[i] < n + 1
  BY GivenFacts
<1>2. /\ Members(h) \cup Members(o) = 1..n /\ m + Len(o) = n /\ Len(o) \in Nat
      /\ InOrder(h, o, d)
  BY DEF Given
<1>3. /\ m \in Nat /\ DOMAIN h = 1..m /\ g \in Seq(X) /\ Len(g) = m + 1 /\ DOMAIN g = 1..(m + 1)
      /\ \A i \in 1..m : g[i] = h[i] /\ i < m + 1
      /\ g[m + 1] = n + 1
      /\ \A i \in 1..(m + 1) : i \in 1..m \/ i = m + 1
  BY <1>1, AppendFacts
<1>4. Members(g) = Members(h) \cup {n + 1}
  <2>1. h \in Seq(X) /\ n + 1 \in X
    BY <1>1
  <2> HIDE DEF X
  <2>2. ASSUME NEW x \in X PROVE Members(Append(h, x)) = Members(h) \cup {x}
    BY <2>1, AppendMembers
  <2> QED BY <2>1, <2>2
<1> HIDE DEF X, g, m
<1>5. InOrder(g, o, d)
  <2>1. ASSUME NEW i \in DOMAIN g, NEW j \in DOMAIN g, i < j PROVE g[i] < g[j]
    <3>1. i \in 1..m
      BY <1>3, <2>1
    <3>2. CASE j \in 1..m
      BY <1>2, <1>3, <2>1, <3>1, <3>2 DEF InOrder
    <3>3. CASE j = m + 1
      BY <1>1, <1>3, <3>1, <3>3
    <3> QED BY <1>3, <3>2, <3>3
  <2>2. ASSUME NEW i \in DOMAIN o, NEW j \in DOMAIN g, o[i] \notin d PROVE o[i] < g[j]
    <3>1. CASE j \in 1..m
      BY <1>2, <1>3, <2>2, <3>1 DEF InOrder
    <3>2. CASE j = m + 1
      BY <1>1, <1>3, <3>2
    <3> QED BY <1>3, <3>1, <3>2
  <2> QED BY <1>2, <2>1, <2>2 DEF InOrder
<1>6. Members(g) \cup Members(o) = X
  BY <1>1, <1>2, <1>4
<1>7. Len(g) + Len(o) = n + 1
  BY <1>2, <1>3
<1> QED BY <1>1, <1>3, <1>5, <1>6, <1>7 DEF Given, X, g

\* A result is written, through the door when nothing is held or around it.
LEMMA GivenWritten ==
  ASSUME NEW n \in Nat, NEW h, NEW o, NEW d, Given(h, o, d, n),
         NEW e, (h = <<>> /\ e = d) \/ e = d \cup {n + 1}
  PROVE  Given(h, Append(o, n + 1), e, n + 1)
<1> DEFINE X == 1..(n + 1)
           g == Append(o, n + 1)
           m == Len(o)
<1>1. /\ h \in Seq(X) /\ o \in Seq(X) /\ d \subseteq X /\ n + 1 \in X /\ X = (1..n) \cup {n + 1}
      /\ \A i \in DOMAIN h : h[i] \in Nat /\ h[i] < n + 1
      /\ \A i \in DOMAIN o : o[i] \in Nat /\ o[i] < n + 1
  BY GivenFacts
<1>2. /\ Members(h) \cup Members(o) = 1..n /\ Len(h) + m = n /\ Len(h) \in Nat
      /\ InOrder(h, o, d)
  BY DEF Given
<1>3. /\ m \in Nat /\ DOMAIN o = 1..m /\ g \in Seq(X) /\ Len(g) = m + 1 /\ DOMAIN g = 1..(m + 1)
      /\ \A i \in 1..m : g[i] = o[i] /\ i < m + 1
      /\ g[m + 1] = n + 1
      /\ \A i \in 1..(m + 1) : i \in 1..m \/ i = m + 1
  BY <1>1, AppendFacts
<1>4. Members(g) = Members(o) \cup {n + 1}
  <2>1. o \in Seq(X) /\ n + 1 \in X
    BY <1>1
  <2> HIDE DEF X
  <2>2. ASSUME NEW x \in X PROVE Members(Append(o, x)) = Members(o) \cup {x}
    BY <2>1, AppendMembers
  <2> QED BY <2>1, <2>2
<1>5. e \subseteq X /\ d \subseteq e
  BY <1>1
<1> HIDE DEF X, g, m
<1>6. InOrder(h, g, e)
  <2>1. ASSUME NEW i \in DOMAIN g, NEW j \in DOMAIN g, i < j, g[i] \notin e PROVE g[i] < g[j]
    <3>1. i \in 1..m
      BY <1>3, <2>1
    <3>2. CASE j \in 1..m
      <4>1. o[i] \notin d
        BY <1>3, <1>5, <2>1, <3>1, <3>2
      <4> QED BY <1>2, <1>3, <2>1, <3>1, <3>2, <4>1 DEF InOrder
    <3>3. CASE j = m + 1
      BY <1>1, <1>3, <3>1, <3>3
    <3> QED BY <1>3, <3>2, <3>3
  <2>2. ASSUME NEW i \in DOMAIN g, NEW j \in DOMAIN h, g[i] \notin e PROVE g[i] < h[j]
    <3>1. i # m + 1
      <4>1. h # <<>>
        BY <2>2
      <4> QED BY <1>3, <2>2, <4>1
    <3>2. i \in 1..m /\ o[i] \notin d
      BY <1>3, <1>5, <2>2, <3>1
    <3> QED BY <1>2, <1>3, <3>2 DEF InOrder
  <2> QED BY <1>2, <2>1, <2>2 DEF InOrder
<1>7. Members(h) \cup Members(g) = X
  BY <1>1, <1>2, <1>4
<1>8. Len(h) + Len(g) = n + 1
  BY <1>2, <1>3
<1> QED BY <1>1, <1>3, <1>5, <1>6, <1>7, <1>8 DEF Given, X, g

\* The held results are written.
LEMMA GivenFlushed ==
  ASSUME NEW n \in Nat, NEW h, NEW o, NEW d, Given(h, o, d, n)
  PROVE  Given(<<>>, o \o h, d, n)
<1> DEFINE X == 1..n
           w == o \o h
           m == Len(o)
           k == Len(h)
<1>1. /\ h \in Seq(X) /\ o \in Seq(X) /\ d \subseteq X
      /\ Members(h) \cup Members(o) = X /\ k + m = n /\ k \in Nat /\ m \in Nat
      /\ DOMAIN h = 1..k /\ DOMAIN o = 1..m
      /\ InOrder(h, o, d)
  BY DEF Given
<1>2. /\ w \in Seq(X) /\ Len(w) = m + k /\ DOMAIN w = 1..(m + k)
      /\ \A i \in 1..(m + k) : w[i] = IF i <= m THEN o[i] ELSE h[i - m]
  BY <1>1, ConcatProperties
<1>3. Members(w) = X
  <2>1. o \in Seq(X) /\ h \in Seq(X) /\ Members(o) \cup Members(h) = X
    BY <1>1
  <2> HIDE DEF X
  <2>2. Members(w) = Members(o) \cup Members(h)
    BY <2>1, ConcatMembers, ZenonT(40)
  <2> QED BY <2>1, <2>2
<1>4. Members(<<>>) = {} /\ <<>> \in Seq(X) /\ Len(<<>>) = 0 /\ DOMAIN <<>> = {}
  BY DEF Members
<1> HIDE DEF X, w, m, k
<1>5. ASSUME NEW i \in 1..(m + k)
      PROVE  (i \in 1..m /\ w[i] = o[i]) \/ (i - m \in 1..k /\ i > m /\ w[i] = h[i - m])
  BY <1>1, <1>2
<1>6. ASSUME NEW i \in DOMAIN w, NEW j \in DOMAIN w, i < j, w[i] \notin d PROVE w[i] < w[j]
  <2>1. CASE i \in 1..m /\ w[i] = o[i] /\ j \in 1..m /\ w[j] = o[j]
    BY <1>1, <1>6, <2>1 DEF InOrder
  <2>2. CASE i \in 1..m /\ w[i] = o[i] /\ j - m \in 1..k /\ w[j] = h[j - m]
    BY <1>1, <1>6, <2>2 DEF InOrder
  <2>3. CASE i - m \in 1..k /\ w[i] = h[i - m] /\ j - m \in 1..k /\ w[j] = h[j - m]
    <3>1. i - m < j - m
      BY <1>1, <1>2, <1>6
    <3> QED BY <1>1, <2>3, <3>1 DEF InOrder
  <2>4. CASE i > m /\ j \in 1..m
    BY <1>1, <1>2, <1>6, <2>4
  <2> QED BY <1>2, <1>5, <2>1, <2>2, <2>3, <2>4
<1>7. InOrder(<<>>, w, d)
  BY <1>4, <1>6 DEF InOrder
<1>8. Len(<<>>) + Len(w) = n
  BY <1>1, <1>2, <1>4
<1> QED BY <1>1, <1>2, <1>3, <1>4, <1>7, <1>8 DEF Given, X, w

LEMMA GivenTypes ==
  ASSUME NEW n \in Nat, NEW m \in {n, n + 1}, NEW h, NEW o, NEW d, Given(h, o, d, n)
  PROVE  h \in Seq(1..m) /\ o \in Seq(1..m) /\ d \subseteq 1..m
<1>1. CASE m = n
  BY <1>1 DEF Given
<1>2. CASE m = n + 1
  BY <1>2, GivenFacts
<1> QED BY <1>1, <1>2

InTurn == {"prompt", "turn", "compact"}
Flushed == {"flushed", "reaping", "done"}

\* Every step keeps the results: one for each turn that is over, in order.
LEMMA ResultsStep ==
  ASSUME SessionInv, SessionNext
  PROVE  /\ ResultsFit' /\ turns' \in Nat
         /\ held' \in Seq(1..turns') /\ out' \in Seq(1..turns') /\ direct' \subseteq 1..turns'
<1> DEFINE n == Answered
<1>1. n \in Nat /\ Given(held, out, direct, n) /\ (loop \in Flushed => held = <<>>)
  BY DEF SessionInv, ResultsFit, Flushed
<1>2. turns \in Nat /\ n = (IF loop \in InTurn THEN turns - 1 ELSE turns)
  BY DEF SessionInv, SessionTypeOK, Answered, InTurn
<1>3. Answered' = IF loop' \in InTurn THEN turns' - 1 ELSE turns'
  BY DEF Answered, InTurn
<1> HIDE DEF n
<1> SUFFICES turns' \in Nat /\ ResultsFit'
  <2>1. turns' \in Nat /\ Answered' \in Nat /\ Given(held', out', direct', Answered')
    BY DEF ResultsFit
  <2>2. turns' \in {Answered', Answered' + 1}
    <3>1. Answered' = turns' - 1 \/ Answered' = turns'
      BY <1>3
    <3>2. \A i, j \in Nat : i = j - 1 => j = i + 1
      OBVIOUS
    <3> QED BY <2>1, <3>1, <3>2
  <2>3. \A m \in {Answered', Answered' + 1} : held' \in Seq(1..m) /\ out' \in Seq(1..m) /\ direct' \subseteq 1..m
    BY <2>1, GivenTypes
  <2> QED BY <2>1, <2>2, <2>3
<1>4. ASSUME UNCHANGED <<turns, held, out, direct>>, loop' \in InTurn <=> loop \in InTurn, loop' \in Flushed => loop \in Flushed
      PROVE  turns' \in Nat /\ ResultsFit'
  <2>1. Answered' = n
    BY <1>2, <1>3, <1>4
  <2> QED BY <1>1, <1>2, <1>4, <2>1 DEF ResultsFit, Flushed
<1>5. CASE TaskStep \/ HostStep \/ WaitPoll \/ WaitSweep
  <2>1. UNCHANGED <<loop, turns, held, out, direct>>
    BY <1>5 DEF TaskStep, HostStep, WaitPoll, WaitSweep, StartTask, Spawned, Exits, ShellReports, ChildSettles,
                ChildDrains, ChildTearsDown, TaskStop, HostFrame, EndInput, Interrupt, HardStop, turnVars, resultVars
  <2> QED BY <1>4, <2>1
<1>6. CASE Startup \/ Take \/ DropTaken \/ PromptPasses \/ TurnDrains \/ EndTurn \/ Drained \/ StopChildren \/ Finish
  <2>1. UNCHANGED <<turns, held, out, direct>>
    BY <1>6 DEF Startup, Take, DropTaken, PromptPasses, TurnDrains, EndTurn, Drained, StopChildren, Finish,
                turnVars, resultVars
  <2>2. (loop' \in InTurn <=> loop \in InTurn) /\ (loop' \in Flushed => loop \in Flushed)
    BY <1>6 DEF Startup, Take, DropTaken, PromptPasses, TurnDrains, EndTurn, Drained, StopChildren, Finish,
                turnVars, InTurn, Flushed
  <2> QED BY <1>4, <2>1, <2>2
<1>7. CASE TurnBegins
  <2>1. loop = "taken" /\ turns' = turns + 1 /\ loop' \in {"compact", "prompt"} /\ UNCHANGED <<held, out, direct>>
    BY <1>7 DEF TurnBegins, resultVars
  <2>2. Answered' = n /\ loop' \notin Flushed /\ turns' \in Nat
    BY <1>2, <1>3, <2>1 DEF InTurn, Flushed
  <2> QED BY <1>1, <2>1, <2>2 DEF ResultsFit, Flushed
<1>8. CASE PromptBlocked \/ Compacted
  <2>1. /\ loop \in InTurn /\ loop' = "closing" /\ turns' = turns /\ held' = held
        /\ out' = Append(out, turns) /\ direct' = direct \cup {turns}
    BY <1>8 DEF PromptBlocked, Compacted, DirectResult, InTurn
  <2>2. turns = n + 1 /\ Answered' = n + 1 /\ loop' \notin Flushed
    BY <1>1, <1>2, <1>3, <2>1 DEF InTurn, Flushed
  <2>3. Given(held', out', direct', n + 1)
    BY <1>1, <2>1, <2>2, GivenWritten
  <2> QED BY <1>1, <1>2, <2>1, <2>2, <2>3 DEF ResultsFit, Flushed
<1>9. CASE TurnEnds
  <2>1. /\ loop \in InTurn /\ loop' = "closing" /\ turns' = turns /\ direct' = direct
        /\ \/ held' = Append(held, turns) /\ out' = out
           \/ out' = Append(out \o held, turns) /\ held' = <<>>
    BY <1>9 DEF TurnEnds, WriteTurnResult, InTurn
  <2>2. turns = n + 1 /\ Answered' = n + 1 /\ loop' \notin Flushed
    BY <1>1, <1>2, <1>3, <2>1 DEF InTurn, Flushed
  <2>3. CASE held' = Append(held, turns) /\ out' = out
    <3>1. Given(held', out', direct', n + 1)
      BY <1>1, <2>1, <2>2, <2>3, GivenHeld
    <3> QED BY <1>1, <1>2, <2>1, <2>2, <3>1 DEF ResultsFit, Flushed
  <2>4. CASE out' = Append(out \o held, turns) /\ held' = <<>>
    <3>1. Given(<<>>, out \o held, direct, n)
      BY <1>1, GivenFlushed
    <3>2. Given(<<>>, Append(out \o held, n + 1), direct, n + 1)
      BY <1>1, <3>1, GivenWritten
    <3>3. Given(held', out', direct', n + 1)
      BY <2>1, <2>2, <2>4, <3>2
    <3> QED BY <1>1, <1>2, <2>1, <2>2, <3>3 DEF ResultsFit, Flushed
  <2> QED BY <2>1, <2>3, <2>4
<1>10. CASE FlushHeld
  <2>1. /\ loop = "drained" /\ loop' = "flushed" /\ turns' = turns /\ direct' = direct
        /\ out' = out \o held /\ held' = <<>>
    BY <1>10 DEF FlushHeld
  <2>2. Answered' = n
    BY <1>2, <1>3, <2>1 DEF InTurn
  <2>3. Given(held', out', direct', n)
    BY <1>1, <2>1, GivenFlushed
  <2> QED BY <1>1, <1>2, <2>1, <2>2, <2>3 DEF ResultsFit
<1> QED BY <1>5, <1>6, <1>7, <1>8, <1>9, <1>10 DEF SessionNext, LoopStep

\* The types of the loop's own variables.
LoopTypes ==
  /\ cur \in Frames \cup {None} /\ sent \in 0..Inputs
  /\ loop \in {"starting", "idle", "taken", "prompt", "turn", "compact", "closing", "drained", "flushed",
               "reaping", "done"}
  /\ struck \in BOOLEAN /\ inputClosed \in BOOLEAN /\ framesEnded \in BOOLEAN
  /\ aborted \in BOOLEAN /\ hard \in BOOLEAN /\ swept \in BOOLEAN
  /\ used \in [Tasks -> Nat] /\ dropped \subseteq Tasks

LEMMA LoopStepTypes ==
  ASSUME SessionInv, SessionNext
  PROVE  LoopTypes' /\ LoopFits'
<1>1. LoopTypes /\ TaskTypes
  BY Types DEF SessionInv, SessionTypeOK, LoopTypes, TaskTypes
<1>2. loop \in {"drained", "flushed", "reaping", "done"} => framesEnded \/ hard
  BY DEF SessionInv, LoopFits
<1>3. ASSUME UNCHANGED <<inputVars, waitVars, turnVars, aborted, used, dropped>> PROVE LoopTypes' /\ LoopFits'
  BY <1>1, <1>2, <1>3 DEF LoopTypes, LoopFits, inputVars, waitVars, turnVars
<1>4. ASSUME NEW S, Use(S) PROVE used' \in [Tasks -> Nat]
  BY <1>1, <1>4 DEF Use, LoopTypes
<1>5. CASE TaskStep
  <2>1. ASSUME NEW t \in Tasks, ChildDrains(t) PROVE LoopTypes' /\ LoopFits'
    <3>1. used' \in [Tasks -> Nat]
      BY <1>4, <2>1 DEF ChildDrains
    <3> QED BY <1>1, <1>2, <2>1, <3>1 DEF ChildDrains, LoopTypes, LoopFits, inputVars, waitVars, turnVars
  <2>2. ASSUME NEW t \in Tasks,
               StartTask(t) \/ Spawned(t) \/ Exits(t) \/ ShellReports(t) \/ ChildSettles(t) \/ ChildTearsDown(t) \/ TaskStop(t)
        PROVE  LoopTypes' /\ LoopFits'
    <3>1. UNCHANGED <<inputVars, waitVars, turnVars, aborted, used, dropped>>
      BY <2>2 DEF StartTask, Spawned, Exits, ShellReports, ChildSettles, ChildTearsDown, TaskStop
    <3> QED BY <1>3, <3>1
  <2> QED BY <1>5, <2>1, <2>2 DEF TaskStep
<1>6. CASE HostFrame
  <2>1. sent' \in 0..Inputs
    BY <1>1, <1>6, InputsAssumption DEF HostFrame, LoopTypes
  <2> QED BY <1>1, <1>2, <1>6, <2>1 DEF HostFrame, LoopTypes, LoopFits, waitVars, turnVars
<1>7. CASE EndInput \/ WaitPoll
  <2>1. /\ UNCHANGED <<sent, hard, swept, turnVars, aborted, used, dropped>>
        /\ inputClosed' = inputClosed \/ inputClosed' = TRUE
        /\ framesEnded' = framesEnded \/ framesEnded' = TRUE
    BY <1>7 DEF EndInput, WaitPoll, WaitIteration, inputVars
  <2>2. inputClosed' \in BOOLEAN /\ framesEnded' \in BOOLEAN
    BY <1>1, <2>1, Zenon DEF LoopTypes
  <2>3. framesEnded => framesEnded'
    BY <1>1, <2>1 DEF LoopTypes
  <2> QED BY <1>1, <1>2, <2>1, <2>2, <2>3 DEF LoopTypes, LoopFits, turnVars
<1>8. CASE WaitSweep
  <2>1. UNCHANGED <<inputVars, framesEnded, turnVars, aborted, used, dropped>> /\ swept' = TRUE
    BY <1>8 DEF WaitSweep
  <2> QED BY <1>1, <1>2, <2>1 DEF LoopTypes, LoopFits, turnVars, inputVars
<1>9. CASE Interrupt
  <2>1. struck' \in BOOLEAN /\ aborted' \in BOOLEAN
    BY <1>1, <1>9, Zenon DEF Interrupt, Interruptible
  <2>2. UNCHANGED <<inputVars, waitVars, loop, cur, turns, used, dropped>>
    BY <1>9 DEF Interrupt
  <2> QED BY <1>1, <1>2, <2>1, <2>2 DEF LoopTypes, LoopFits, waitVars, inputVars
<1>10. CASE HardStop
  <2>1. struck' \in BOOLEAN /\ framesEnded' \in BOOLEAN
    BY <1>1, <1>10, Zenon DEF HardStop, Interruptible
  <2>2. UNCHANGED <<sent, swept, loop, cur, used, dropped>> /\ hard' = TRUE /\ aborted' = TRUE /\ inputClosed' = TRUE
    BY <1>10 DEF HardStop
  <2> QED BY <1>1, <2>1, <2>2 DEF LoopTypes, LoopFits
<1>11. CASE Startup \/ DropTaken \/ Drained \/ EndTurn \/ StopChildren \/ FlushHeld \/ Finish
  <2>1. UNCHANGED <<inputVars, waitVars, struck, aborted, used, dropped>> /\ cur' \in {cur, None}
    BY <1>11 DEF Startup, DropTaken, Drained, EndTurn, StopChildren, FlushHeld, Finish
  <2>2. /\ loop' \in {"idle", "drained", "flushed", "reaping", "done"}
        /\ loop' \in {"drained", "flushed", "reaping", "done"} =>
             hard \/ framesEnded \/ loop \in {"drained", "flushed", "reaping", "done"}
    BY <1>11 DEF Startup, DropTaken, Drained, EndTurn, StopChildren, FlushHeld, Finish
  <2> QED BY <1>1, <1>2, <2>1, <2>2 DEF LoopTypes, LoopFits, waitVars, inputVars
<1>12. CASE Take
  <2>1. Head(frames) \in Frames
    BY <1>1, <1>12, HeadTailProperties DEF Take, TaskTypes
  <2> QED BY <1>1, <1>2, <1>12, <2>1 DEF Take, LoopTypes, LoopFits, waitVars, inputVars
<1>13. CASE TurnBegins
  <2>1. aborted' \in BOOLEAN
    BY <1>1, <1>13, Zenon DEF TurnBegins
  <2>2. loop' \in {"compact", "prompt"} /\ UNCHANGED <<inputVars, waitVars, cur, struck, used, dropped>>
    BY <1>13 DEF TurnBegins
  <2> QED BY <1>1, <2>1, <2>2 DEF LoopTypes, LoopFits, waitVars, inputVars
<1>14. CASE PromptPasses \/ PromptBlocked \/ Compacted
  <2>1. used' \in [Tasks -> Nat]
    BY <1>1, <1>4, <1>14 DEF PromptPasses, PromptBlocked, Compacted, LoopTypes
  <2>2. dropped' \subseteq Tasks
    BY <1>1, <1>14 DEF PromptPasses, PromptBlocked, Compacted, LoopTypes
  <2>3. /\ loop' \in {"turn", "closing"} /\ struck' \in {struck, FALSE}
        /\ UNCHANGED <<inputVars, waitVars, cur, aborted>>
    BY <1>14 DEF PromptPasses, PromptBlocked, Compacted, DirectResult
  <2>4. struck' \in BOOLEAN
    BY <1>1, <2>3, Zenon DEF LoopTypes
  <2> QED BY <1>1, <2>1, <2>2, <2>3, <2>4 DEF LoopTypes, LoopFits, waitVars, inputVars
<1>15. CASE TurnDrains
  <2>1. used' \in [Tasks -> Nat]
    BY <1>4, <1>15 DEF TurnDrains
  <2> QED BY <1>1, <1>2, <1>15, <2>1 DEF TurnDrains, LoopTypes, LoopFits, waitVars, inputVars, turnVars
<1>16. CASE TurnEnds
  <2>1. aborted' \in {aborted, aborted \/ struck}
    BY <1>16 DEF TurnEnds
  <2>2. aborted' \in BOOLEAN
    BY <1>1, <2>1, Zenon DEF LoopTypes
  <2>3. loop' = "closing" /\ struck' = FALSE /\ UNCHANGED <<inputVars, waitVars, cur, used, dropped>>
    BY <1>16 DEF TurnEnds
  <2> QED BY <1>1, <2>2, <2>3 DEF LoopTypes, LoopFits, waitVars, inputVars
<1> QED BY <1>5, <1>6, <1>7, <1>8, <1>9, <1>10, <1>11, <1>12, <1>13, <1>14, <1>15, <1>16
        DEF SessionNext, HostStep, LoopStep

-----------------------------------------------------------------------------
(* Every step and the invariant.                                           *)

\* The steps in which rows end, or none does.
EndingStep ==
  \/ \E t \in Tasks : Spawned(t) \/ Exits(t) \/ ShellReports(t) \/ ChildSettles(t) \/ ChildTearsDown(t) \/ TaskStop(t)
  \/ EndInput \/ WaitPoll \/ WaitSweep \/ Interrupt
  \/ Startup \/ DropTaken \/ Compacted \/ TurnEnds \/ EndTurn \/ Drained \/ FlushHeld \/ StopChildren

LEMMA EndingSteps ==
  ASSUME SessionInv, EndingStep
  PROVE  Keeps /\ \E R, eps : Ending(R, eps)
<1>1. ASSUME UNCHANGED <<inputVars, framesEnded, cur, used, dropped>>, loop' \in Unasked <=> loop \in Unasked,
             loop' # "done" \/ loop = "done"
      PROVE  Keeps
  BY <1>1 DEF Keeps, inputVars
<1>2. ASSUME UNCHANGED <<inputVars, framesEnded, turnVars, used, dropped>> PROVE Keeps
  BY <1>1, <1>2 DEF turnVars
<1>3. CASE \E t \in Tasks : Spawned(t) \/ Exits(t) \/ ShellReports(t) \/ ChildSettles(t) \/ ChildTearsDown(t) \/ TaskStop(t)
  <2> PICK t \in Tasks : Spawned(t) \/ Exits(t) \/ ShellReports(t) \/ ChildSettles(t) \/ ChildTearsDown(t) \/ TaskStop(t)
    BY <1>3
  <2>1. Keeps
    <3>1. UNCHANGED <<inputVars, waitVars, turnVars, used, dropped>>
      BY DEF Spawned, Exits, ShellReports, ChildSettles, ChildTearsDown, TaskStop
    <3> QED BY <1>2, <3>1 DEF waitVars
  <2>2. CASE Spawned(t) \/ Exits(t)
    BY <2>1, <2>2, EndingProcess
  <2>3. CASE ShellReports(t)
    <3>1. Report(t) /\ UNCHANGED endpoints /\ work' = [work EXCEPT ![t] = "gone"] /\ t \in Shells
      BY <2>3 DEF ShellReports
    <3> QED BY <2>1, <3>1, EndingReport
  <2>4. CASE ChildSettles(t)
    <3>1. Report(t) /\ UNCHANGED endpoints /\ work' = [work EXCEPT ![t] = "winding"] /\ t \in Agents /\ work[t] = "live"
      BY <2>4 DEF ChildSettles
    <3> QED BY <2>1, <3>1, EndingReport
  <2>5. CASE ChildTearsDown(t)
    BY <2>1, <2>5, EndingTeardown
  <2>6. CASE TaskStop(t)
    <3>1. StopAll({t}) /\ UNCHANGED endpoints /\ {t} \in SUBSET Tasks
      BY <2>6 DEF TaskStop
    <3> QED BY <2>1, <3>1, EndingStopAll
  <2> QED BY <2>2, <2>3, <2>4, <2>5, <2>6
<1>4. CASE EndInput \/ WaitPoll
  <2>1. /\ UNCHANGED <<taskVars, endpoints>> /\ Pump(entries, endpoints, frames, turnActive)
        /\ UNCHANGED <<sent, hard, turnVars, used, dropped>>
        /\ framesEnded' = TRUE \/ framesEnded' = framesEnded
    BY <1>4 DEF EndInput, WaitPoll, WaitIteration, inputVars
  <2>2. Keeps
    BY <2>1 DEF Keeps, turnVars
  <2>3. turnActive \in BOOLEAN
    BY Types DEF SessionInv
  <2> QED BY <2>1, <2>2, <2>3, EndingPump
<1>5. CASE WaitSweep
  <2>1. /\ StopAll(Running) /\ UNCHANGED endpoints /\ Running \in SUBSET Tasks
        /\ UNCHANGED <<inputVars, framesEnded, turnVars, used, dropped>>
    BY <1>5 DEF WaitSweep, Running
  <2> QED BY <1>2, <2>1, EndingStopAll
<1>6. CASE Interrupt \/ Startup \/ Compacted \/ TurnEnds \/ Drained
  <2>1. UNCHANGED <<taskVars, queueVars, endpoints>>
    BY <1>6 DEF Interrupt, Startup, Compacted, DirectResult, TurnEnds, Drained
  <2>2. /\ UNCHANGED <<inputVars, framesEnded, cur, used, dropped>>
        /\ (loop' \in Unasked <=> loop \in Unasked) /\ (loop' # "done" \/ loop = "done")
    BY <1>6 DEF Interrupt, Startup, Compacted, DirectResult, TurnEnds, Drained, waitVars, Unasked
  <2> QED BY <1>1, <2>1, <2>2, TasksSame
<1>7. CASE DropTaken
  <2>1. UNCHANGED <<taskVars, queueVars, endpoints>>
    BY <1>7 DEF DropTaken
  <2>2. Keeps
    BY <1>7 DEF DropTaken, Keeps, inputVars, waitVars
  <2> QED BY <2>1, <2>2, TasksSame
<1>8. CASE EndTurn
  <2>1. UNCHANGED <<taskVars, endpoints>> /\ Pump(entries, endpoints, frames, FALSE)
    BY <1>8 DEF EndTurn
  <2>2. Keeps
    BY <1>8 DEF EndTurn, Keeps, inputVars, waitVars
  <2> QED BY <2>1, <2>2, EndingPump
<1>9. CASE FlushHeld \/ StopChildren
  <2>1. /\ UNCHANGED <<inputVars, framesEnded, cur, used, dropped>> /\ UNCHANGED endpoints
        /\ (loop' \in Unasked <=> loop \in Unasked) /\ (loop' # "done" \/ loop = "done")
        /\ StopAll(Running \cap Agents) \/ UNCHANGED <<taskVars, queueVars>>
    BY <1>9 DEF FlushHeld, StopChildren, waitVars, Unasked
  <2>2. Keeps /\ Running \cap Agents \in SUBSET Tasks
    BY <1>1, <2>1 DEF Running
  <2> QED BY <2>1, <2>2, EndingStopAll, TasksSame
<1> QED BY <1>3, <1>4, <1>5, <1>6, <1>7, <1>8, <1>9 DEF EndingStep

\* What the invariant says, a fact at a time.
LEMMA InvFacts ==
  ASSUME SessionInv
  PROVE  /\ row \in [Tasks -> {"none", "running"} \cup Terminal]
         /\ work \in [Tasks -> {"none", "spawning", "live", "exited", "winding", "gone"}]
         /\ claimed \subseteq Tasks /\ endpoints \in SUBSET Agents /\ Agents \subseteq Tasks
         /\ entries \in Seq(Tasks) /\ frames \in Seq(Frames) /\ Distinct(entries) /\ Distinct(frames)
         /\ Members(entries) \cap Members(frames) = {} /\ Members(entries) \subseteq Tasks /\ Members(frames) \subseteq Frames
         /\ turnActive \in BOOLEAN /\ used \in [Tasks -> Nat] /\ sent \in 0..Inputs /\ cur \in Frames \cup {None}
         /\ cur \notin Pending
         /\ \A t \in Tasks :
              /\ t \in Pending \cup {cur} \/ used[t] # 0 => row[t] \in Terminal
              /\ t \in Pending => used[t] = 0
              /\ t = cur => used[t] = (IF loop \in Unasked THEN 0 ELSE 1)
              /\ used[t] \in {0, 1}
         /\ \A n \in 1..Inputs : n \in Pending \cup {cur} => n <= sent
         /\ None \notin Tasks /\ None \notin 1..Inputs /\ \A n \in 1..Inputs : n \notin Tasks
<1>1. entries \in Seq(Tasks) /\ frames \in Seq(Frames)
  BY DEF SessionInv, SessionTypeOK
<1>2. Members(entries) \subseteq Tasks /\ Members(frames) \subseteq Frames
  BY <1>1, MembersFacts
<1>3. None \notin Tasks /\ None \notin 1..Inputs /\ \A n \in 1..Inputs : n \notin Tasks
  BY TasksAssumption, InputsAssumption DEF None
<1>4. Agents \subseteq Tasks
  BY AgentsAssumption
<1>5. used \in [Tasks -> Nat] /\ sent \in 0..Inputs /\ cur \in Frames \cup {None}
  BY DEF SessionInv, SessionTypeOK
<1>6. QueueFits(entries, frames) /\ NoticesFit
  BY DEF SessionInv, NoticesFit
<1> QED BY <1>1, <1>2, <1>3, <1>4, <1>5, <1>6, Types DEF SessionInv, NoticesFit, QueueFits

\* Tasks, as long as neither rows nor work nor the claims change.
LEMMA SameTasksFit ==
  ASSUME SessionInv, UNCHANGED taskVars, loop' = "done" => loop = "done"
  PROVE  TasksFit'
  BY DEF SessionInv, TasksFit, NoProcessOutlives, taskVars, Running

LEMMA StartTaskKeeps ==
  ASSUME SessionInv, NEW t \in Tasks, StartTask(t)
  PROVE  TaskTypes' /\ TasksFit' /\ NoticesFit' /\ NothingStranded'
<1>1. /\ row[t] = "none" /\ row' = [row EXCEPT ![t] = "running"] /\ claimed' = claimed \ {t}
      /\ work' = [work EXCEPT ![t] = IF t \in Agents THEN "live" ELSE "spawning"]
      /\ endpoints' = (IF t \in Agents THEN endpoints \cup {t} ELSE endpoints)
      /\ IF OwnerOf[t] = Main THEN loop = "turn" ELSE work[OwnerOf[t]] = "live"
      /\ UNCHANGED <<entries, frames, turnActive, loop, cur, sent, used, framesEnded, hard>>
  BY DEF StartTask, queueVars, inputVars, waitVars, turnVars
<1>2. TaskTypes'
  BY <1>1, InvFacts DEF TaskTypes
<1>3. row'[t] = "running" /\ \A u \in Tasks : u # t => row'[u] = row[u] /\ work'[u] = work[u]
  BY <1>1, InvFacts
<1>4. loop # "done"
  <2>1. loop = "done" => \A a \in Agents : work[a] \in {"none", "gone"}
    BY DEF SessionInv, TasksFit, NoProcessOutlives
  <2>2. OwnerOf[t] = Main \/ OwnerOf[t] \in Agents
    BY AgentsAssumption
  <2> QED BY <1>1, <2>1, <2>2
<1>5. TasksFit'
  <2>1. ASSUME NEW a \in Agents
        PROVE  /\ row'[a] = "running" <=> work'[a] = "live"
               /\ work'[a] \in {"none", "live", "winding", "gone"}
    <3>1. a \in Tasks /\ (row[a] = "running" <=> work[a] = "live") /\ work[a] \in {"none", "live", "winding", "gone"}
      BY InvFacts DEF SessionInv, TasksFit
    <3>2. CASE a = t
      BY <1>1, <1>3, <3>2, InvFacts
    <3>3. CASE a # t
      BY <1>3, <3>1, <3>3
    <3> QED BY <3>2, <3>3
  <2>2. claimed' \subseteq {u \in Tasks : row'[u] \in Terminal}
    BY <1>1, <1>3 DEF SessionInv, TasksFit
  <2>3. \A s \in Shells : row'[s] \in Terminal => work'[s] # "live"
    <3> SUFFICES ASSUME NEW s \in Shells, row'[s] \in Terminal PROVE work'[s] # "live"
      OBVIOUS
    <3>1. s # t
      BY <1>3 DEF Terminal
    <3> QED BY <1>3, <3>1 DEF SessionInv, TasksFit, NoProcessOutlives, Shells
  <2> QED BY <1>1, <1>4, <2>1, <2>2, <2>3 DEF TasksFit, NoProcessOutlives
<1>6. NoticesFit'
  <2>1. t \notin Pending \cup {cur} /\ used[t] = 0
    BY <1>1, InvFacts DEF Terminal
  <2>2. Pending' = Pending /\ cur' = cur /\ used' = used /\ loop' = loop /\ sent' = sent
    BY <1>1 DEF Pending
  <2>3. QueueFits(entries', frames')
    BY <1>1 DEF SessionInv, NoticesFit
  <2>4. ASSUME NEW u \in Tasks, u \in Pending' \cup {cur'} \/ used'[u] # 0 PROVE row'[u] \in Terminal
    BY <1>3, <2>1, <2>2, <2>4, InvFacts
  <2> QED BY <2>2, <2>3, <2>4, InvFacts DEF NoticesFit
<1>7. NothingStranded'
  <2>1. \A u : IsFor(u, Main, endpoints') => IsFor(u, Main, endpoints)
    BY <1>1 DEF IsFor
  <2>2. Queued(entries, endpoints') => Queued(entries, endpoints)
    BY <2>1, QueuedFacts, InvFacts
  <2> QED BY <1>1, <2>2 DEF SessionInv, NothingStranded
<1> QED BY <1>2, <1>5, <1>6, <1>7

\* A turn takes entries from the queue and is told them.
LEMMA DrainKeeps ==
  ASSUME SessionInv, NEW taken \in SUBSET Members(entries), Use(taken), entries' = Without(entries, taken),
         UNCHANGED <<taskVars, frames, turnActive, endpoints, sent, framesEnded, hard, loop, cur>>
  PROVE  TaskTypes' /\ TasksFit' /\ NoticesFit' /\ NothingStranded'
<1>1. entries' \in Seq(Tasks) /\ Members(entries') = Members(entries) \ taken /\ Distinct(entries')
  BY WithoutFacts, InvFacts
<1>2. TaskTypes' /\ TasksFit'
  BY <1>1, InvFacts, SameTasksFit DEF TaskTypes, taskVars
<1>3. Pending' = Pending \ taken
  <2>1. taken \cap Members(frames) = {}
    BY InvFacts
  <2> QED BY <1>1, <2>1 DEF Pending
<1>4. \A t \in Tasks : used'[t] = IF t \in taken THEN used[t] + 1 ELSE used[t]
  BY DEF Use
<1>5. taken \subseteq Pending /\ cur \notin taken
  BY InvFacts DEF Pending
<1>6. NoticesFit'
  <2>1. QueueFits(entries', frames')
    BY <1>1, InvFacts DEF QueueFits
  <2>2. ASSUME NEW t \in Tasks
        PROVE  /\ t \in Pending' \cup {cur'} \/ used'[t] # 0 => row'[t] \in Terminal
               /\ t \in Pending' => used'[t] = 0
               /\ t = cur' => used'[t] = (IF loop' \in Unasked THEN 0 ELSE 1)
               /\ used'[t] \in {0, 1}
    <3>1. row'[t] = row[t] /\ cur' = cur /\ loop' = loop
      BY DEF taskVars
    <3>2. CASE t \in taken
      <4>1. t \in Pending /\ used[t] = 0 /\ row[t] \in Terminal /\ t # cur /\ used'[t] = 1 /\ t \notin Pending'
        BY <1>3, <1>4, <1>5, <3>2, InvFacts
      <4> QED BY <3>1, <4>1
    <3>3. CASE t \notin taken
      <4>1. used'[t] = used[t] /\ (t \in Pending' <=> t \in Pending)
        BY <1>3, <1>4, <3>3
      <4> QED BY <3>1, <4>1, InvFacts
    <3> QED BY <3>2, <3>3
  <2>3. cur' \notin Pending' /\ \A n \in 1..Inputs : n \in Pending' \cup {cur'} => n <= sent'
    BY <1>3, InvFacts
  <2> QED BY <2>1, <2>2, <2>3 DEF NoticesFit
<1>7. NothingStranded'
  <2>1. Queued(entries', endpoints) => Queued(entries, endpoints)
    BY <1>1, QueuedFacts, InvFacts
  <2> QED BY <2>1 DEF SessionInv, NothingStranded
<1> QED BY <1>2, <1>6, <1>7

LEMMA HostFrameKeeps ==
  ASSUME SessionInv, HostFrame
  PROVE  TaskTypes' /\ TasksFit' /\ NoticesFit' /\ NothingStranded'
<1> DEFINE n == sent + 1
<1>1. /\ n \in 1..Inputs /\ n \in Frames /\ n \notin Tasks /\ ~(n <= sent) /\ sent' = n /\ sent \in Nat
      /\ frames' = Append(frames, n)
      /\ UNCHANGED <<taskVars, entries, turnActive, endpoints, framesEnded, hard, loop, cur, used>>
  <2>1. n \in 1..Inputs /\ ~(n <= sent) /\ sent \in Nat
    BY InvFacts, InputsAssumption DEF HostFrame
  <2> QED BY <2>1, InvFacts DEF HostFrame, Frames, waitVars, turnVars
<1> HIDE DEF n
<1>2. n \notin Pending \cup {cur}
  BY <1>1, InvFacts
<1>3. frames' \in Seq(Frames) /\ Members(frames') = Members(frames) \cup {n} /\ Distinct(frames')
  BY <1>1, <1>2, AppendMembers, InvFacts DEF Pending
<1>4. TaskTypes' /\ TasksFit'
  BY <1>1, <1>3, InvFacts, SameTasksFit DEF TaskTypes, taskVars
<1>5. Pending' = Pending \cup {n}
  BY <1>1, <1>3 DEF Pending
<1>6. QueueFits(entries', frames')
  BY <1>1, <1>2, <1>3, InvFacts DEF QueueFits, Pending
<1>7. \A m \in 1..Inputs : m \in Pending' \cup {cur'} => m <= sent'
  <2>1. \A m \in Nat : m <= sent => m <= sent + 1
    BY <1>1
  <2> QED BY <1>1, <1>5, <2>1, InvFacts DEF n
<1>8. NoticesFit'
  <2>1. \A t \in Tasks : t \in Pending' <=> t \in Pending
    BY <1>1, <1>5
  <2>2. cur' \notin Pending'
    BY <1>1, <1>2, <1>5, InvFacts
  <2> QED BY <1>1, <1>6, <1>7, <2>1, <2>2, InvFacts DEF NoticesFit, taskVars
<1>9. NothingStranded'
  BY <1>1 DEF SessionInv, NothingStranded
<1> QED BY <1>4, <1>8, <1>9

LEMMA HardStopKeeps ==
  ASSUME SessionInv, HardStop
  PROVE  TaskTypes' /\ TasksFit' /\ NoticesFit' /\ NothingStranded'
<1>1. hard' = TRUE /\ frames' = <<>> /\ UNCHANGED <<taskVars, entries, turnActive, endpoints, sent, loop, cur, used>>
  BY DEF HardStop
<1>2. <<>> \in Seq(Frames) /\ Members(<<>>) = {} /\ Distinct(<<>>)
  BY MembersFacts, EmptySeq, Zenon
<1>3. TaskTypes' /\ TasksFit'
  BY <1>1, <1>2, InvFacts, SameTasksFit DEF TaskTypes, taskVars
<1>4. Pending' = Members(entries) /\ Members(entries) \subseteq Pending
  BY <1>1, <1>2 DEF Pending
<1>5. QueueFits(entries', frames')
  BY <1>1, <1>2, InvFacts DEF QueueFits
<1>6. NoticesFit'
  BY <1>1, <1>4, <1>5, InvFacts DEF NoticesFit, taskVars
<1>7. NothingStranded'
  BY <1>1 DEF NothingStranded
<1> QED BY <1>3, <1>6, <1>7

LEMMA TakeKeeps ==
  ASSUME SessionInv, Take
  PROVE  TaskTypes' /\ TasksFit' /\ NoticesFit' /\ NothingStranded'
<1>1. /\ loop = "idle" /\ loop' = "taken" /\ frames # <<>> /\ cur' = Head(frames) /\ frames' = Tail(frames)
      /\ UNCHANGED <<taskVars, entries, turnActive, endpoints, sent, framesEnded, hard, used>>
  BY DEF Take, inputVars, waitVars
<1>2. /\ frames' \in Seq(Frames) /\ Members(frames) = Members(frames') \cup {cur'} /\ Distinct(frames')
      /\ cur' \notin Members(frames')
  BY <1>1, TailMembers, InvFacts
<1>3. TaskTypes' /\ TasksFit'
  BY <1>1, <1>2, InvFacts, SameTasksFit DEF TaskTypes, taskVars
<1>4. Pending = Pending' \cup {cur'} /\ cur' \notin Pending'
  <2>1. cur' \notin Members(entries)
    BY <1>2, InvFacts
  <2> QED BY <1>1, <1>2, <2>1 DEF Pending
<1>5. QueueFits(entries', frames')
  BY <1>1, <1>2, InvFacts DEF QueueFits
<1>6. NoticesFit'
  BY <1>1, <1>4, <1>5, InvFacts DEF NoticesFit, taskVars, Unasked
<1>7. NothingStranded'
  BY <1>1 DEF SessionInv, NothingStranded
<1> QED BY <1>3, <1>6, <1>7

LEMMA TurnBeginsKeeps ==
  ASSUME SessionInv, TurnBegins
  PROVE  TaskTypes' /\ TasksFit' /\ NoticesFit' /\ NothingStranded'
<1>1. /\ loop = "taken" /\ turnActive' = TRUE /\ (cur \notin Compacts => loop' = "prompt")
      /\ loop' # "done"
      /\ UNCHANGED <<taskVars, entries, frames, endpoints, sent, cur, used>>
  BY DEF TurnBegins, inputVars
<1>2. TaskTypes' /\ TasksFit'
  BY <1>1, InvFacts, SameTasksFit DEF TaskTypes, taskVars
<1>3. Pending' = Pending
  BY <1>1 DEF Pending
<1>4. cur \in Tasks => loop \in Unasked /\ loop' \in Unasked
  BY <1>1, InvFacts, InputsAssumption DEF Unasked
<1>5. QueueFits(entries', frames')
  BY <1>1, InvFacts DEF QueueFits
<1>6. NoticesFit'
  BY <1>1, <1>3, <1>4, <1>5, InvFacts DEF NoticesFit, taskVars
<1>7. NothingStranded'
  BY <1>1 DEF NothingStranded
<1> QED BY <1>2, <1>6, <1>7

\* The prompt's hook answers.
Answers ==
  /\ loop = "prompt" /\ loop' \in {"turn", "closing"} /\ Use({cur})
  /\ dropped \subseteq dropped' /\ dropped' \subseteq dropped \cup {cur}
  /\ UNCHANGED <<taskVars, queueVars, endpoints, sent, framesEnded, hard, cur>>

LEMMA HookAnswers ==
  ASSUME PromptPasses \/ PromptBlocked
  PROVE  Answers
<1>1. CASE PromptPasses
  BY <1>1 DEF PromptPasses, Answers, inputVars, waitVars
<1>2. CASE PromptBlocked
  <2>1. DirectResult /\ loop = "prompt" /\ Use({cur}) /\ dropped' = dropped \cup ({cur} \cap Tasks)
    BY <1>2 DEF PromptBlocked
  <2> QED BY <2>1 DEF DirectResult, Answers, inputVars, waitVars
<1> QED BY <1>1, <1>2

LEMMA HookKeeps ==
  ASSUME SessionInv, Answers
  PROVE  TaskTypes' /\ TasksFit' /\ NoticesFit' /\ NothingStranded'
<1>1. /\ loop \in Unasked /\ loop' \notin Unasked /\ loop' # "done" /\ Use({cur})
      /\ UNCHANGED <<taskVars, entries, frames, turnActive, endpoints, sent, framesEnded, hard, cur>>
  BY DEF Answers, queueVars, Unasked
<1>2. TaskTypes' /\ TasksFit'
  BY <1>1, InvFacts, SameTasksFit DEF TaskTypes, taskVars
<1>3. Pending' = Pending
  BY <1>1 DEF Pending
<1>4. \A t \in Tasks : used'[t] = IF t = cur THEN used[t] + 1 ELSE used[t]
  BY <1>1 DEF Use
<1>5. ASSUME NEW t \in Tasks
      PROVE  /\ t \in Pending' \cup {cur'} \/ used'[t] # 0 => row'[t] \in Terminal
             /\ t \in Pending' => used'[t] = 0
             /\ t = cur' => used'[t] = (IF loop' \in Unasked THEN 0 ELSE 1)
             /\ used'[t] \in {0, 1}
  <2>1. row'[t] = row[t] /\ cur' = cur /\ loop' \notin Unasked
    BY <1>1 DEF taskVars
  <2>2. CASE t = cur
    <3>1. used[t] = 0 /\ used'[t] = 1 /\ row[t] \in Terminal /\ t \notin Pending
      BY <1>1, <1>4, <2>2, InvFacts
    <3> QED BY <1>3, <2>1, <3>1
  <2>3. CASE t # cur
    BY <1>3, <1>4, <2>1, <2>3, InvFacts
  <2> QED BY <2>2, <2>3
<1>6. QueueFits(entries', frames')
  BY <1>1, InvFacts DEF QueueFits
<1>7. NoticesFit'
  BY <1>1, <1>3, <1>5, <1>6, InvFacts DEF NoticesFit
<1>8. NothingStranded'
  BY <1>1 DEF SessionInv, NothingStranded
<1> QED BY <1>2, <1>7, <1>8

LEMMA FinishKeeps ==
  ASSUME SessionInv, Finish
  PROVE  TaskTypes' /\ TasksFit' /\ NoticesFit' /\ NothingStranded'
<1>1. /\ loop = "reaping" /\ loop' = "done" /\ \A a \in Agents : work[a] \in {"none", "gone"}
      /\ row' = [t \in Tasks |-> IF t \in Shells \cap Running THEN "stopped" ELSE row[t]]
      /\ work' = [t \in Tasks |-> IF t \in Shells \cap Running THEN Killed(t) ELSE work[t]]
      /\ claimed' = claimed \cup (Shells \cap Running) /\ entries' = <<>>
      /\ UNCHANGED <<frames, turnActive, endpoints, sent, framesEnded, hard, cur, used>>
  BY DEF Finish, Verdict, StopWork, inputVars, waitVars
<1>2. <<>> \in Seq(Tasks) /\ Members(<<>>) = {} /\ Distinct(<<>>)
  BY MembersFacts, EmptySeq, Zenon
<1>3. ASSUME NEW t \in Tasks
      PROVE  /\ Killed(t) \in {"none", "spawning", "live", "exited", "winding", "gone"}
             /\ t \in Shells => Killed(t) # "live"
  BY InvFacts DEF Killed, Shells
<1>4. Shells \subseteq Tasks /\ \A t \in Tasks : t \in Agents \/ t \in Shells
  BY DEF Shells
<1>5. TaskTypes'
  <2>1. row' \in [Tasks -> {"none", "running"} \cup Terminal]
    BY <1>1, InvFacts DEF Terminal
  <2>2. work' \in [Tasks -> {"none", "spawning", "live", "exited", "winding", "gone"}]
    BY <1>1, <1>3, InvFacts
  <2> QED BY <1>1, <1>2, <1>4, <2>1, <2>2, InvFacts DEF TaskTypes
<1>6. \A a \in Agents : a \in Tasks /\ row[a] # "running" /\ a \notin Shells /\ row'[a] = row[a] /\ work'[a] = work[a]
  <2>1. \A a \in Agents : a \in Tasks /\ a \notin Shells /\ (row[a] = "running" => work[a] = "live")
    BY InvFacts DEF SessionInv, TasksFit, Shells
  <2> QED BY <1>1, <2>1
<1>7. \A t \in Tasks : row'[t] # "running"
  <2> SUFFICES ASSUME NEW t \in Tasks, row'[t] = "running" PROVE FALSE
    OBVIOUS
  <2>1. t \notin Running
    BY <1>1, <1>4, <1>6
  <2> QED BY <1>1, <2>1 DEF Running
<1>8. TasksFit'
  <2>1. \A a \in Agents : /\ row'[a] = "running" <=> work'[a] = "live"
                          /\ work'[a] \in {"none", "live", "winding", "gone"}
    BY <1>1, <1>6
  <2>2. claimed' \subseteq {t \in Tasks : row'[t] \in Terminal}
    <3>1. \A t \in claimed : t \in Tasks /\ row[t] \in Terminal
      BY DEF SessionInv, TasksFit
    <3> QED BY <1>1, <1>4, <3>1 DEF Terminal
  <2>3. \A s \in Shells : row'[s] \in Terminal => work'[s] # "live"
    <3> SUFFICES ASSUME NEW s \in Shells, row'[s] \in Terminal PROVE work'[s] # "live"
      OBVIOUS
    <3>1. CASE s \in Running
      BY <1>1, <1>3, <1>4, <3>1
    <3>2. CASE s \notin Running
      BY <1>1, <1>4, <3>2 DEF SessionInv, TasksFit, NoProcessOutlives
    <3> QED BY <3>1, <3>2
  <2>4. Running' = {} /\ \A a \in Agents : work'[a] \in {"none", "gone"}
    BY <1>1, <1>6, <1>7 DEF Running
  <2> QED BY <2>1, <2>2, <2>3, <2>4 DEF TasksFit, NoProcessOutlives
<1>9. NoticesFit'
  <2>1. Pending' = Members(frames) /\ Members(frames) \subseteq Pending
    BY <1>1, <1>2 DEF Pending
  <2>2. QueueFits(entries', frames')
    BY <1>1, <1>2, InvFacts DEF QueueFits
  <2>3. \A t \in Tasks : row[t] \in Terminal => row'[t] \in Terminal
    BY <1>1 DEF Terminal
  <2> QED BY <1>1, <2>1, <2>2, <2>3, InvFacts DEF NoticesFit, Unasked
<1>10. NothingStranded'
  <2>1. ~Queued(<<>>, endpoints)
    BY <1>2, QueuedFacts
  <2> QED BY <1>1, <2>1 DEF NothingStranded
<1> QED BY <1>5, <1>8, <1>9, <1>10

LEMMA SessionInit_Inv == SessionInit => SessionInv
<1> SUFFICES ASSUME SessionInit PROVE SessionInv
  OBVIOUS
<1>1. /\ row = [t \in Tasks |-> "none"] /\ work = [t \in Tasks |-> "none"] /\ claimed = {} /\ endpoints = {}
      /\ entries = <<>> /\ frames = <<>> /\ sent = 0 /\ loop = "starting" /\ cur = None
      /\ turnActive = FALSE /\ struck = FALSE /\ inputClosed = FALSE /\ framesEnded = FALSE /\ aborted = FALSE
      /\ hard = FALSE /\ swept = FALSE
      /\ turns = 0 /\ held = <<>> /\ out = <<>> /\ direct = {} /\ used = [t \in Tasks |-> 0]
      /\ dropped = {}
  BY DEF SessionInit
<1>2. /\ <<>> \in Seq(Tasks) /\ <<>> \in Seq(Frames) /\ <<>> \in Seq(1..turns) /\ <<>> \in Seq(1..0)
      /\ Members(<<>>) = {} /\ Distinct(<<>>) /\ Len(<<>>) = 0 /\ DOMAIN <<>> = {}
  BY DEF Members, Distinct
<1>3. SessionTypeOK
  <2>1. /\ row \in [Tasks -> {"none", "running"} \cup Terminal]
        /\ work \in [Tasks -> {"none", "spawning", "live", "exited", "winding", "gone"}]
        /\ used \in [Tasks -> Nat] /\ dropped \subseteq Tasks
    BY <1>1
  <2>2. /\ claimed \subseteq Tasks /\ entries \in Seq(Tasks) /\ endpoints \subseteq Agents
        /\ frames \in Seq(Frames) /\ cur \in Frames \cup {None}
    BY <1>1, <1>2
  <2>3. sent \in 0..Inputs /\ turns \in Nat
    BY <1>1, InputsAssumption
  <2>4. held \in Seq(1..turns) /\ out \in Seq(1..turns) /\ direct \subseteq 1..turns
    BY <1>1, <1>2
  <2>5. {turnActive, struck, inputClosed, framesEnded, aborted, hard, swept} \subseteq BOOLEAN
    BY <1>1, Zenon
  <2>6. loop \in {"starting", "idle", "taken", "prompt", "turn", "compact", "closing", "drained", "flushed",
             "reaping", "done"}
    BY <1>1
  <2> QED BY <2>1, <2>2, <2>3, <2>4, <2>5, <2>6, Zenon DEF SessionTypeOK
<1>4. Running = {} /\ Agents \subseteq Tasks /\ Shells \subseteq Tasks
  BY <1>1, AgentsAssumption DEF Running, Shells
<1>5. TasksFit
  BY <1>1, <1>4 DEF TasksFit, NoProcessOutlives, Terminal
<1>6. NoticesFit
  <2>1. None \notin Tasks /\ None \notin 1..Inputs
    BY TasksAssumption, InputsAssumption DEF None
  <2>2. Pending = {}
    BY <1>1, <1>2 DEF Pending
  <2>3. QueueFits(entries, frames)
    BY <1>1, <1>2 DEF QueueFits
  <2> QED BY <1>1, <2>1, <2>2, <2>3 DEF NoticesFit
<1>7. LoopFits
  BY <1>1 DEF LoopFits
<1>8. NothingStranded
  <2>1. ~Queued(<<>>, {})
    BY <1>2, QueuedFacts
  <2> QED BY <1>1, <2>1 DEF NothingStranded
<1>9. ResultsFit
  <2>1. Answered = 0 /\ 1..0 = {}
    BY <1>1 DEF Answered
  <2>2. InOrder(<<>>, <<>>, {})
    BY <1>2 DEF InOrder
  <2> QED BY <1>1, <1>2, <2>1, <2>2 DEF ResultsFit, Given
<1> QED BY <1>3, <1>5, <1>6, <1>7, <1>8, <1>9 DEF SessionInv

LEMMA SessionNext_Inv == SessionInv /\ [SessionNext]_loopVars => SessionInv'
<1> SUFFICES ASSUME SessionInv, [SessionNext]_loopVars PROVE SessionInv'
  OBVIOUS
<1>1. CASE UNCHANGED loopVars
  <2>1. /\ row' = row /\ work' = work /\ claimed' = claimed /\ entries' = entries /\ endpoints' = endpoints
        /\ frames' = frames /\ sent' = sent /\ loop' = loop /\ cur' = cur /\ turnActive' = turnActive /\ struck' = struck
        /\ inputClosed' = inputClosed /\ framesEnded' = framesEnded /\ aborted' = aborted /\ hard' = hard
        /\ swept' = swept /\ turns' = turns /\ held' = held /\ out' = out /\ direct' = direct /\ used' = used
        /\ dropped' = dropped
    BY <1>1 DEF loopVars
  <2>2. Running' = Running /\ Pending' = Pending /\ Answered' = Answered
    BY <2>1 DEF Running, Pending, Answered
  <2>3. SessionTypeOK' /\ LoopFits' /\ NothingStranded'
    BY <2>1 DEF SessionInv, SessionTypeOK, LoopFits, NothingStranded
  <2>4. TasksFit' /\ NoticesFit' /\ ResultsFit'
    BY <2>1, <2>2 DEF SessionInv, TasksFit, NoProcessOutlives, NoticesFit, ResultsFit
  <2> QED BY <2>3, <2>4 DEF SessionInv
<1>2. CASE SessionNext
  <2>1. TaskTypes' /\ TasksFit' /\ NoticesFit' /\ NothingStranded'
    <3>1. CASE EndingStep
      BY <3>1, EndingSteps, EndingKeeps
    <3>2. CASE \E t \in Tasks : StartTask(t)
      BY <3>2, StartTaskKeeps
    <3>3. CASE \E t \in Tasks : ChildDrains(t)
      <4> PICK t \in Tasks : ChildDrains(t)
        BY <3>3
      <4> DEFINE taken == Members(Peek(entries, t, endpoints))
      <4>1. taken \in SUBSET Members(entries)
        BY PeekFacts, InvFacts
      <4>2. /\ Use(taken) /\ entries' = Without(entries, taken)
            /\ UNCHANGED <<taskVars, frames, turnActive, endpoints, sent, framesEnded, hard, loop, cur>>
        BY DEF ChildDrains, inputVars, waitVars, turnVars
      <4> QED BY <4>1, <4>2, DrainKeeps
    <3>4. CASE TurnDrains
      <4> DEFINE taken == Members(Peek(entries, Main, endpoints))
      <4>1. taken \in SUBSET Members(entries)
        BY PeekFacts, InvFacts
      <4>2. /\ Use(taken) /\ entries' = Without(entries, taken)
            /\ UNCHANGED <<taskVars, frames, turnActive, endpoints, sent, framesEnded, hard, loop, cur>>
        BY <3>4 DEF TurnDrains, inputVars, waitVars, turnVars
      <4> QED BY <4>1, <4>2, DrainKeeps
    <3> QED BY <1>2, <3>1, <3>2, <3>3, <3>4, HostFrameKeeps, HardStopKeeps, TakeKeeps, TurnBeginsKeeps,
               HookAnswers, HookKeeps, FinishKeeps
            DEF SessionNext, TaskStep, HostStep, LoopStep, EndingStep
  <2>2. LoopTypes' /\ LoopFits'
    BY <1>2, LoopStepTypes
  <2>3. /\ ResultsFit' /\ turns' \in Nat
        /\ held' \in Seq(1..turns') /\ out' \in Seq(1..turns') /\ direct' \subseteq 1..turns'
    BY <1>2, ResultsStep
  <2>4. SessionTypeOK'
    BY <2>1, <2>2, <2>3 DEF SessionTypeOK, TaskTypes, LoopTypes
  <2> QED BY <2>1, <2>2, <2>3, <2>4 DEF SessionInv
<1> QED BY <1>1, <1>2

(***************************************************************************)
(* The invariant holds in every state of every session.                    *)
(***************************************************************************)
THEOREM SessionInvariant == SessionSpec => []SessionInv
<1>1. SessionInit => SessionInv
  BY SessionInit_Inv
<1>2. SessionInv /\ [SessionNext]_loopVars => SessionInv'
  BY SessionNext_Inv
<1> QED BY <1>1, <1>2, PTL DEF SessionSpec

(***************************************************************************)
(* The session's state stays well-typed.                                   *)
(***************************************************************************)
THEOREM SessionTypeCorrect == SessionSpec => []SessionTypeOK
<1>1. SessionInv => SessionTypeOK
  BY DEF SessionInv
<1> QED BY <1>1, SessionInvariant, PTL

(***************************************************************************)
(* No process outlives the verdict on its task, one spawned after the task *)
(* was stopped included, and a finished session leaves no task running and *)
(* no child engine up.                                                     *)
(***************************************************************************)
THEOREM NothingLeftRunning == SessionSpec => []NoProcessOutlives
<1>1. SessionInv => NoProcessOutlives
  BY DEF SessionInv, TasksFit
<1> QED BY <1>1, SessionInvariant, PTL

(***************************************************************************)
(* No notice is told to a model twice or queued twice, and none waits for  *)
(* the main thread while no turn is claimed.                               *)
(***************************************************************************)
THEOREM NoticesAreKept == SessionSpec => []NoticesKept
<1>1. SessionInv => NoticesKept
  <2> SUFFICES ASSUME SessionInv PROVE NoticesKept
    OBVIOUS
  <2>1. ASSUME NEW t \in Tasks PROVE used[t] <= 1
    <3>1. used[t] \in {0, 1}
      BY InvFacts
    <3> QED BY <3>1
  <2>2. ASSUME NEW t \in Tasks PROVE Cardinality({i \in DOMAIN entries : entries[i] = t}) <= 1
    <3> DEFINE I == {i \in DOMAIN entries : entries[i] = t}
    <3>1. \A i, j \in I : i = j
      BY InvFacts DEF Distinct
    <3>2. CASE I = {}
      <4>1. Cardinality(I) = 0
        BY <3>2, FS_EmptySet
      <4> QED BY <4>1
    <3>3. CASE I # {}
      <4>1. PICK i \in I : I = {i}
        BY <3>1, <3>3
      <4>2. Cardinality(I) = 1
        BY <4>1, FS_Singleton
      <4> QED BY <4>2
    <3> QED BY <3>2, <3>3
  <2> QED BY <2>1, <2>2 DEF NoticesKept, ToldOnce, SessionInv
<1> QED BY <1>1, SessionInvariant, PTL

(***************************************************************************)
(* Every turn that is over has exactly one result, written or held, and    *)
(* only the results that go around writeTurnResult are written ahead of    *)
(* earlier ones; a session that is done holds none back.                   *)
(***************************************************************************)
THEOREM ResultsAreKept == SessionSpec => []ResultsKept
<1>1. SessionInv => ResultsKept
  <2> SUFFICES ASSUME SessionInv PROVE ResultsKept
    OBVIOUS
  <2> DEFINE n == Answered
             X == 1..n
  <2>1. /\ n \in Nat /\ held \in Seq(X) /\ out \in Seq(X) /\ Members(held) \cup Members(out) = X
        /\ Len(held) + Len(out) = n /\ InOrder(held, out, direct) /\ (loop = "done" => held = <<>>)
    BY DEF SessionInv, ResultsFit, Given
  <2>2. OneResultPerTurn
    <3>1. Members(held \o out) = X
      <4>1. held \in Seq(X) /\ out \in Seq(X) /\ Members(held) \cup Members(out) = X
        BY <2>1
      <4> HIDE DEF X
      <4>2. Members(held \o out) = Members(held) \cup Members(out)
        BY <4>1, ConcatMembers, Zenon
      <4> QED BY <4>1, <4>2
    <3>2. Len(held \o out) = n
      BY <2>1
    <3>3. Cardinality(X) = n
      <4> HIDE DEF n
      <4> QED BY <2>1, FS_Interval
    <3>4. X = IF loop \in {"prompt", "turn", "compact"} THEN 1..(turns - 1) ELSE 1..turns
      BY DEF Answered
    <3> QED BY <2>1, <3>1, <3>2, <3>3, <3>4 DEF OneResultPerTurn
  <2>3. DoorKeepsOrder
    <3> DEFINE s == out \o held
               m == Len(out)
               k == Len(held)
    <3>1. m \in Nat /\ k \in Nat /\ DOMAIN out = 1..m /\ DOMAIN held = 1..k
      BY <2>1
    <3>2. DOMAIN s = 1..(m + k) /\ \A i \in 1..(m + k) : s[i] = IF i <= m THEN out[i] ELSE held[i - m]
      BY <2>1, ConcatProperties
    <3> HIDE DEF s, m, k
    <3>3. ASSUME NEW i \in 1..(m + k)
          PROVE  (i \in 1..m /\ i <= m /\ s[i] = out[i]) \/ (i - m \in 1..k /\ i > m /\ s[i] = held[i - m])
      BY <3>1, <3>2
    <3>4. ASSUME NEW i \in DOMAIN s, NEW j \in DOMAIN s, i < j,
                 s[i] \notin direct
          PROVE  s[i] < s[j]
      <4>1. CASE i \in 1..m /\ i <= m /\ s[i] = out[i] /\ j \in 1..m /\ j <= m /\ s[j] = out[j]
        BY <2>1, <3>1, <3>4, <4>1 DEF InOrder
      <4>2. CASE i \in 1..m /\ i <= m /\ s[i] = out[i] /\ j - m \in 1..k /\ s[j] = held[j - m]
        BY <2>1, <3>1, <3>4, <4>2 DEF InOrder
      <4>3. CASE i - m \in 1..k /\ s[i] = held[i - m] /\ j - m \in 1..k /\ s[j] = held[j - m]
        <5>1. i - m < j - m
          BY <3>1, <3>2, <3>4
        <5> QED BY <2>1, <3>1, <4>3, <5>1 DEF InOrder
      <4>4. CASE i > m /\ j <= m
        BY <3>1, <3>2, <3>4, <4>4
      <4> QED BY <3>2, <3>3, <4>1, <4>2, <4>3, <4>4
    <3>5. \A i \in DOMAIN s : s[i] \in Int
      <4>1. \A i \in DOMAIN out : out[i] \in Int
        BY <2>1
      <4>2. \A i \in DOMAIN held : held[i] \in Int
        BY <2>1
      <4> QED BY <3>1, <3>2, <3>3, <4>1, <4>2
    <3>6. \A i, j \in DOMAIN s : i < j /\ s[j] < s[i] => s[i] \in direct
      BY <3>4, <3>5
    <3> QED BY <3>6 DEF DoorKeepsOrder, s
  <2> QED BY <2>2, <2>3 DEF ResultsKept
<1> QED BY <1>1, SessionInvariant, PTL

-----------------------------------------------------------------------------
(* The session implements TaskNotice.                                      *)

Leaving == framesEnded \/ hard

\* The notice of t is queued, among userFrames, or the frame the loop has taken.
Here(t) == t \in Pending \cup {cur}

\* The step leaves it as it was whether the notice of t was dropped.
DropStays(t) == t \in dropped' <=> t \in dropped

\* How far row and notice of a task come in one step, in terms of the session.
Moves(t) ==
  \/ row'[t] = row[t] /\ used'[t] = used[t] /\ (Here(t)' <=> Here(t)) /\ DropStays(t)
  \/ row[t] \in Terminal /\ row'[t] \in Terminal /\ used[t] = 1 /\ used'[t] = 1 /\ DropStays(t)
  \/ row[t] \in Terminal /\ row'[t] \in Terminal /\ used[t] = 0 /\ used'[t] = 1 /\ Here(t)
  \/ row[t] = "running" /\ row'[t] \in Terminal /\ used'[t] = 0 /\ Here(t)'
  \/ /\ Leaving' /\ row'[t] \in Terminal /\ used'[t] = 0 /\ ~Here(t)'
     /\ row[t] = "running" \/ (row[t] \in Terminal /\ used[t] = 0 /\ Here(t))

StageSet == {"unborn", "running", "owed", "told", "refused", "lapsed"}

\* The stage of a task, case by case, before and after a step.
LEMMA StageFacts ==
  ASSUME SessionInv, NEW t \in Tasks
  PROVE  /\ StageOf(t) \in StageSet
         /\ row[t] = "none" => StageOf(t) = "unborn"
         /\ row[t] = "running" => StageOf(t) = "running"
         /\ row[t] \in Terminal /\ used[t] = 1 => StageOf(t) = (IF t \in dropped THEN "refused" ELSE "told")
         /\ row[t] \in Terminal /\ used[t] = 0 /\ Here(t) => StageOf(t) = "owed"
         /\ row[t] \in Terminal /\ used[t] = 0 /\ ~Here(t) => StageOf(t) = "lapsed"
<1>1. used[t] \in {0, 1} /\ row[t] \in {"none", "running", "completed", "stopped"}
  BY InvFacts DEF Terminal
<1> QED BY <1>1 DEF StageOf, Here, Pending, Terminal, StageSet

LEMMA StageFactsNext ==
  ASSUME SessionInv', NEW t \in Tasks
  PROVE  /\ StageOf(t)' \in StageSet
         /\ row'[t] = "none" => StageOf(t)' = "unborn"
         /\ row'[t] = "running" => StageOf(t)' = "running"
         /\ row'[t] \in Terminal /\ used'[t] = 1 => StageOf(t)' = (IF t \in dropped' THEN "refused" ELSE "told")
         /\ row'[t] \in Terminal /\ used'[t] = 0 /\ Here(t)' => StageOf(t)' = "owed"
         /\ row'[t] \in Terminal /\ used'[t] = 0 /\ ~Here(t)' => StageOf(t)' = "lapsed"
         /\ row'[t] \in {"none", "running"} \cup Terminal /\ used'[t] \in {0, 1}
<1>1. used'[t] \in {0, 1} /\ row'[t] \in {"none", "running", "completed", "stopped"}
  BY DEF SessionInv, NoticesFit, SessionTypeOK, Terminal
<1> QED BY <1>1 DEF StageOf, Here, Pending, Terminal, StageSet

\* A step in which every task moves so is a step of TaskNotice.
LEMMA MovesAdvance ==
  ASSUME SessionInv, SessionInv', \A t \in Tasks : Moves(t), framesEnded => framesEnded', hard => hard'
  PROVE  Notice!Advance
<1>1. ASSUME NEW t \in Tasks
      PROVE  \/ StageOf(t)' = StageOf(t)
             \/ StageOf(t) = "running" /\ StageOf(t)' = "owed"
             \/ StageOf(t) = "owed" /\ StageOf(t)' \in {"told", "refused"}
             \/ Leaving' /\ StageOf(t) \in {"running", "owed"} /\ StageOf(t)' = "lapsed"
  <2>1. CASE row'[t] = row[t] /\ used'[t] = used[t] /\ (Here(t)' <=> Here(t)) /\ DropStays(t)
    <3>1. row'[t] \in {"none", "running"} \cup Terminal /\ used'[t] \in {0, 1}
      BY StageFactsNext
    <3> QED BY <2>1, <3>1, StageFacts, StageFactsNext DEF DropStays
  <2>2. CASE row[t] \in Terminal /\ row'[t] \in Terminal /\ used[t] = 1 /\ used'[t] = 1 /\ DropStays(t)
    BY <2>2, StageFacts, StageFactsNext DEF DropStays
  <2>3. CASE row[t] \in Terminal /\ row'[t] \in Terminal /\ used[t] = 0 /\ used'[t] = 1 /\ Here(t)
    BY <2>3, StageFacts, StageFactsNext
  <2>4. CASE row[t] = "running" /\ row'[t] \in Terminal /\ used'[t] = 0 /\ Here(t)'
    BY <2>4, StageFacts, StageFactsNext
  <2>5. CASE /\ Leaving' /\ row'[t] \in Terminal /\ used'[t] = 0 /\ ~Here(t)'
             /\ row[t] = "running" \/ (row[t] \in Terminal /\ used[t] = 0 /\ Here(t))
    BY <2>5, StageFacts, StageFactsNext
  <2> QED BY <2>1, <2>2, <2>3, <2>4, <2>5 DEF Moves
<1>2. \A t \in Tasks : StageOf(t) \in StageSet /\ StageOf(t)' \in StageSet
  BY StageFacts, StageFactsNext
<1>3. (framesEnded \/ hard)' \in {framesEnded \/ hard, TRUE}
  <2>1. CASE framesEnded' \/ hard'
    BY <2>1, Zenon
  <2>2. CASE ~(framesEnded' \/ hard')
    BY <2>2, Zenon
  <2> QED BY <2>1, <2>2, Zenon
<1> DEFINE pairs == {<<s, s>> : s \in StageSet}
                      \cup {<<"running", "owed">>, <<"running", "told">>, <<"owed", "told">>, <<"owed", "refused">>}
                      \cup (IF Leaving' THEN {<<"running", "lapsed">>, <<"owed", "lapsed">>} ELSE {})
<1>4. ASSUME NEW a \in StageSet, NEW b \in StageSet,
             b = a \/ (a = "running" /\ b = "owed") \/ (a = "owed" /\ b \in {"told", "refused"})
               \/ (Leaving' /\ a \in {"running", "owed"} /\ b = "lapsed")
      PROVE  <<a, b>> \in pairs
  BY <1>4
<1>5. \A t \in Tasks : <<StageOf(t), StageOf(t)'>> \in pairs
  <2> HIDE DEF pairs
  <2> QED BY <1>1, <1>2, <1>4
<1> QED BY <1>2, <1>3, <1>5 DEF Notice!Advance, Notice!Stages, StageSet, Leaving

LEMMA EndingMoves ==
  ASSUME SessionInv, EndingStep
  PROVE  /\ framesEnded => framesEnded'
         /\ hard => hard'
         /\ \A t \in Tasks : Moves(t)
<1>1. Keeps
  BY EndingSteps
<1>2. PICK R, eps : Ending(R, eps)
  BY EndingSteps
<1>3. PICK v \in Terminal : row' = [t \in Tasks |-> IF t \in R THEN v ELSE row[t]]
  BY <1>2 DEF Ending
<1>4. R \subseteq Running /\ Pending' = Pending \cup R
  BY <1>2 DEF Ending, QueueGrows, Pending
<1>5. cur' = cur \/ loop \notin Unasked \/ hard
  BY DEF EndingStep, Spawned, Exits, ShellReports, ChildSettles, ChildTearsDown, TaskStop, EndInput, WaitPoll,
         WaitSweep, Interrupt, Startup, DropTaken, Compacted, DirectResult, TurnEnds, EndTurn, Drained, FlushHeld,
         StopChildren, turnVars, Unasked
<1>6. ASSUME NEW t \in Tasks PROVE Moves(t)
  <2>1. used'[t] = used[t] /\ (cur' = cur \/ cur' = None) /\ t # None /\ DropStays(t)
    BY <1>1, InvFacts DEF Keeps, DropStays
  <2>2. CASE t \in R
    <3>1. row[t] = "running" /\ row'[t] \in Terminal /\ used[t] = 0
      BY <1>3, <1>4, <2>2, RunningFacts DEF Running
    <3>2. Here(t)'
      BY <1>4, <2>2 DEF Here
    <3> QED BY <2>1, <3>1, <3>2 DEF Moves
  <2>3. CASE t \notin R
    <3>1. row'[t] = row[t] /\ (t \in Pending' <=> t \in Pending)
      BY <1>3, <1>4, <2>3
    <3>2. CASE Here(t)' <=> Here(t)
      BY <2>1, <3>1, <3>2 DEF Moves
    <3>3. CASE ~(Here(t)' <=> Here(t))
      <4>1. t = cur /\ cur' # cur /\ Here(t) /\ ~Here(t)'
        BY <2>1, <3>1, <3>3 DEF Here
      <4>2. row[t] \in Terminal /\ used[t] = (IF loop \in Unasked THEN 0 ELSE 1)
        BY <4>1, InvFacts
      <4>3. CASE loop \in Unasked
        <5>1. hard'
          BY <1>1, <1>5, <4>1, <4>3 DEF Keeps
        <5> QED BY <2>1, <3>1, <4>1, <4>2, <4>3, <5>1 DEF Moves, Leaving
      <4>4. CASE loop \notin Unasked
        BY <2>1, <3>1, <4>2, <4>4 DEF Moves
      <4> QED BY <4>3, <4>4
    <3> QED BY <3>2, <3>3
  <2> QED BY <2>2, <2>3
<1> QED BY <1>1, <1>6 DEF Keeps

\* A drain tells what it takes from the queue.
LEMMA DrainMoves ==
  ASSUME SessionInv, NEW taken \in SUBSET Members(entries), Use(taken), entries' = Without(entries, taken),
         UNCHANGED <<taskVars, frames, turnActive, endpoints, sent, framesEnded, hard, loop, cur, dropped>>
  PROVE  \A t \in Tasks : Moves(t)
<1>1. Members(entries') = Members(entries) \ taken
  BY WithoutFacts, InvFacts
<1>2. taken \subseteq Pending /\ Pending' = Pending \ taken
  BY <1>1, InvFacts DEF Pending
<1>3. ASSUME NEW t \in Tasks PROVE Moves(t)
  <2>1. row'[t] = row[t] /\ cur' = cur /\ DropStays(t) /\ used'[t] = IF t \in taken THEN used[t] + 1 ELSE used[t]
    BY DEF taskVars, Use, DropStays
  <2>2. CASE t \in taken
    <3>1. row[t] \in Terminal /\ used[t] = 0 /\ Here(t)
      BY <1>2, <2>2, InvFacts DEF Here
    <3> QED BY <2>1, <2>2, <3>1 DEF Moves
  <2>3. CASE t \notin taken
    BY <1>2, <2>1, <2>3 DEF Moves, Here
  <2> QED BY <2>2, <2>3
<1> QED BY <1>3

\* The frames of host, loop and hard stop.
LEMMA FrameMoves ==
  ASSUME SessionInv, HostFrame \/ HardStop \/ Take \/ TurnBegins \/ Answers
  PROVE  \A t \in Tasks : Moves(t)
<1> SUFFICES ASSUME NEW t \in Tasks PROVE Moves(t)
  OBVIOUS
<1>1. row'[t] = row[t] /\ entries' = entries /\ (DropStays(t) \/ Answers)
  BY DEF HostFrame, HardStop, Take, TurnBegins, Answers, taskVars, queueVars, DropStays
<1>2. CASE HostFrame
  <2>1. sent + 1 \in Frames /\ sent + 1 # t
    <3>1. sent + 1 \in 1..Inputs
      BY <1>2, InvFacts, InputsAssumption DEF HostFrame
    <3> QED BY <3>1, InvFacts DEF Frames
  <2>2. frames' = Append(frames, sent + 1) /\ cur' = cur /\ used' = used /\ DropStays(t)
    BY <1>2 DEF HostFrame, turnVars, DropStays
  <2> DEFINE n == sent + 1
  <2>3. n \in Frames /\ n # t /\ frames' = Append(frames, n)
    BY <2>1, <2>2
  <2> HIDE DEF n
  <2>4. Members(frames') = Members(frames) \cup {n}
    BY <2>3, AppendMembers, InvFacts
  <2> QED BY <1>1, <2>2, <2>3, <2>4 DEF Moves, Here, Pending
<1>3. CASE HardStop
  <2>1. hard' = TRUE /\ frames' = <<>> /\ cur' = cur /\ used' = used /\ DropStays(t)
    BY <1>3 DEF HardStop, DropStays
  <2>2. Here(t)' => Here(t)
    <3>1. Members(<<>>) = {}
      BY MembersFacts, EmptySeq, Zenon
    <3> QED BY <1>1, <2>1, <3>1 DEF Here, Pending
  <2>3. CASE Here(t)' <=> Here(t)
    BY <1>1, <2>1, <2>3 DEF Moves
  <2>4. CASE Here(t) /\ ~Here(t)'
    <3>1. used[t] = 0 \/ used[t] = 1
      BY <2>4, InvFacts DEF Here
    <3>2. row[t] \in Terminal
      BY <2>4, InvFacts DEF Here
    <3> QED BY <1>1, <2>1, <2>4, <3>1, <3>2 DEF Moves, Leaving
  <2> QED BY <2>2, <2>3, <2>4
<1>4. CASE Take
  <2>1. /\ loop = "idle" /\ frames # <<>> /\ cur' = Head(frames) /\ frames' = Tail(frames) /\ used' = used
        /\ DropStays(t)
    BY <1>4 DEF Take, DropStays
  <2>2. Members(frames) = Members(frames') \cup {cur'}
    BY <2>1, TailMembers, InvFacts
  <2>3. CASE t = cur
    <3>1. used[t] = 1 /\ row[t] \in Terminal
      BY <2>1, <2>3, InvFacts DEF Unasked
    <3> QED BY <1>1, <2>1, <3>1 DEF Moves
  <2>4. CASE t # cur
    BY <1>1, <2>1, <2>2, <2>4 DEF Moves, Here, Pending
  <2> QED BY <2>3, <2>4
<1>5. CASE TurnBegins
  <2>1. cur' = cur /\ frames' = frames /\ used' = used /\ DropStays(t)
    BY <1>5 DEF TurnBegins, DropStays
  <2> QED BY <1>1, <2>1 DEF Moves, Here, Pending
<1>6. CASE Answers
  <2>1. /\ loop \in Unasked /\ cur' = cur /\ frames' = frames
        /\ used'[t] = IF t = cur THEN used[t] + 1 ELSE used[t]
        /\ t # cur => DropStays(t)
    BY <1>6 DEF Answers, Use, Unasked, queueVars, DropStays
  <2>2. CASE t = cur
    <3>1. used[t] = 0 /\ row[t] \in Terminal /\ Here(t)
      BY <2>1, <2>2, InvFacts DEF Here
    <3> QED BY <1>1, <2>1, <2>2, <3>1 DEF Moves
  <2>3. CASE t # cur
    BY <1>1, <2>1, <2>3 DEF Moves, Here, Pending
  <2> QED BY <2>2, <2>3
<1> QED BY <1>2, <1>3, <1>4, <1>5, <1>6

\* What the end of the session leaves untold lapses.
LEMMA FinishMoves ==
  ASSUME SessionInv, Finish
  PROVE  \A t \in Tasks : Moves(t)
<1> SUFFICES ASSUME NEW t \in Tasks PROVE Moves(t)
  OBVIOUS
<1>1. /\ loop = "reaping" /\ row' = [u \in Tasks |-> IF u \in Shells \cap Running THEN "stopped" ELSE row[u]]
      /\ entries' = <<>> /\ frames' = frames /\ cur' = cur /\ used' = used
      /\ framesEnded' = framesEnded /\ hard' = hard /\ DropStays(t)
  BY DEF Finish, Verdict, inputVars, waitVars, DropStays
<1>2. Leaving'
  BY <1>1 DEF SessionInv, LoopFits, Leaving
<1>3. Here(t)' => Here(t)
  <2>1. Members(<<>>) = {}
    BY MembersFacts, EmptySeq, Zenon
  <2> QED BY <1>1, <2>1 DEF Here, Pending
<1>4. CASE t \in Shells \cap Running
  <2>1. row[t] = "running" /\ row'[t] \in Terminal /\ used[t] = 0 /\ ~Here(t)
    BY <1>1, <1>4, RunningFacts DEF Running, Terminal, Here
  <2> QED BY <1>1, <1>2, <1>3, <2>1 DEF Moves
<1>5. CASE t \notin Shells \cap Running
  <2>1. row'[t] = row[t]
    BY <1>1, <1>5
  <2>2. CASE Here(t)' <=> Here(t)
    BY <1>1, <2>1, <2>2 DEF Moves
  <2>3. CASE Here(t) /\ ~Here(t)'
    <3>1. row[t] \in Terminal /\ (used[t] = 0 \/ used[t] = 1)
      BY <2>3, InvFacts DEF Here
    <3> QED BY <1>1, <1>2, <2>1, <2>3, <3>1 DEF Moves
  <2> QED BY <1>3, <2>2, <2>3
<1> QED BY <1>4, <1>5

LEMMA StartTaskStarts ==
  ASSUME SessionInv, SessionInv', NEW t \in Tasks, StartTask(t)
  PROVE  Notice!Start(t)
<1>1. /\ row[t] = "none" /\ row' = [row EXCEPT ![t] = "running"]
      /\ UNCHANGED <<entries, frames, cur, used, dropped, framesEnded, hard>>
  BY DEF StartTask, queueVars, inputVars, waitVars, turnVars
<1>2. StageOf(t) = "unborn" /\ StageOf(t)' = "running"
  BY <1>1, StageFacts, StageFactsNext, InvFacts
<1>3. \A u \in Tasks : u # t => StageOf(u)' = StageOf(u)
  BY <1>1, InvFacts DEF StageOf
<1>4. [u \in Tasks |-> StageOf(u)'] = [[u \in Tasks |-> StageOf(u)] EXCEPT ![t] = "running"]
  BY <1>2, <1>3
<1>5. (framesEnded \/ hard)' = (framesEnded \/ hard)
  BY <1>1, Zenon
<1> QED BY <1>2, <1>4, <1>5 DEF Notice!Start

\* Every step of the session is one of TaskNotice, or leaves it alone.
LEMMA SessionStepIsNoticeStep ==
  ASSUME SessionInv, SessionInv', [SessionNext]_loopVars
  PROVE  [Notice!NoticeNext]_(Notice!noticeVars)
<1>1. CASE UNCHANGED loopVars
  <2>1. UNCHANGED <<row, used, dropped, entries, frames, cur, framesEnded, hard>>
    BY <1>1 DEF loopVars
  <2>2. \A t \in Tasks : StageOf(t)' = StageOf(t)
    BY <2>1 DEF StageOf
  <2>3. (framesEnded \/ hard)' = (framesEnded \/ hard)
    BY <2>1, Zenon
  <2>4. [t \in Tasks |-> StageOf(t)'] = [t \in Tasks |-> StageOf(t)]
    BY <2>2
  <2> QED BY <2>3, <2>4 DEF Notice!noticeVars
<1>2. CASE \E t \in Tasks : StartTask(t)
  BY <1>2, StartTaskStarts DEF Notice!NoticeNext
<1>3. CASE EndingStep
  BY <1>3, EndingMoves, MovesAdvance DEF Notice!NoticeNext
<1>4. CASE (\E t \in Tasks : ChildDrains(t)) \/ TurnDrains
  <2>1. PICK a : /\ Use(Members(Peek(entries, a, endpoints)))
                 /\ entries' = Without(entries, Members(Peek(entries, a, endpoints)))
                 /\ UNCHANGED <<taskVars, frames, turnActive, endpoints, sent, framesEnded, hard, loop, cur, dropped>>
    <3>1. CASE \E t \in Tasks : ChildDrains(t)
      BY <3>1 DEF ChildDrains, inputVars, waitVars, turnVars
    <3>2. CASE TurnDrains
      BY <3>2 DEF TurnDrains, inputVars, waitVars, turnVars
    <3> QED BY <1>4, <3>1, <3>2
  <2> DEFINE taken == Members(Peek(entries, a, endpoints))
  <2>2. taken \in SUBSET Members(entries)
    BY PeekFacts, InvFacts
  <2>3. \A t \in Tasks : Moves(t)
    BY <2>1, <2>2, DrainMoves
  <2>4. (framesEnded => framesEnded') /\ (hard => hard')
    BY <2>1
  <2> QED BY <2>3, <2>4, MovesAdvance DEF Notice!NoticeNext
<1>5. CASE HostFrame \/ HardStop \/ Take \/ TurnBegins \/ Answers \/ Finish
  <2>1. (framesEnded => framesEnded') /\ (hard => hard')
    <3>1. CASE HardStop
      <4>1. framesEnded' = (framesEnded \/ ~inputClosed) /\ hard' = TRUE
        BY <3>1 DEF HardStop
      <4> QED BY <4>1, Zenon
    <3>2. CASE HostFrame \/ Take \/ TurnBegins \/ Answers \/ Finish
      BY <3>2 DEF HostFrame, Take, TurnBegins, Answers, Finish, inputVars, waitVars
    <3> QED BY <1>5, <3>1, <3>2
  <2> QED BY <1>5, <2>1, FrameMoves, FinishMoves, MovesAdvance DEF Notice!NoticeNext
<1> QED BY <1>1, <1>2, <1>3, <1>4, <1>5, HookAnswers DEF SessionNext, TaskStep, HostStep, LoopStep, EndingStep

(***************************************************************************)
(* The session implements TaskNotice: a finished task's notice is never    *)
(* lost on its way between the queue, a child's endpoint, userFrames and a *)
(* turn.  Only the UserPromptSubmit hook refuses it, and it lapses only    *)
(* once the session takes no more turns.                                   *)
(***************************************************************************)
THEOREM SessionImplementsNotice == SessionSpec => NoticeSpec
<1>1. SessionInit => Notice!NoticeInit
  <2> SUFFICES ASSUME SessionInit PROVE Notice!NoticeInit
    OBVIOUS
  <2>1. \A t \in Tasks : StageOf(t) = "unborn"
    BY DEF SessionInit, StageOf
  <2>2. (framesEnded \/ hard) = FALSE
    BY Zenon DEF SessionInit
  <2> QED BY <2>1, <2>2 DEF Notice!NoticeInit
<1>2. SessionInv /\ SessionInv' /\ [SessionNext]_loopVars => [Notice!NoticeNext]_(Notice!noticeVars)
  BY SessionStepIsNoticeStep
<1> QED BY <1>1, <1>2, SessionInvariant, PTL DEF SessionSpec, NoticeSpec, Notice!NoticeSpec

=============================================================================
