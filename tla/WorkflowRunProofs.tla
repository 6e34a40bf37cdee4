------------------------- MODULE WorkflowRunProofs -------------------------
(***************************************************************************)
(* Proofs about WorkflowRun, for any set of requests, any number of        *)
(* permits, cap and budget.                                                *)
(*                                                                         *)
(* The permits are accounted for because a request is at one place of its  *)
(* way at a time: a frame in the pipe is a request that was sent and not   *)
(* yet serviced, a waiter of the semaphore one that was queued and not yet *)
(* granted (InTransit).  The report and the children follow from what      *)
(* `hosted' says of the rest of the run (HostedIsWhole).                   *)
(***************************************************************************)
EXTENDS WorkflowRun, FiniteSetTheorems, SequenceTheorems, TLAPS

-----------------------------------------------------------------------------
(* The inductive invariant.                                                *)

Distinct(s) == \A i, j \in 1..Len(s) : s[i] = s[j] => i = j

\* A frame in the pipe or a waiter in the queue is there once, and its request
\* has come no further.
InTransit ==
  /\ Distinct(pipe) /\ Distinct(queue)
  /\ \A i \in 1..Len(pipe) : pipe[i] \in Calls => call[pipe[i]] = "sent"
  /\ \A i \in 1..Len(queue) : call[queue[i]] = "queued"

\* A request has a child exactly while it is running.
RunningHasAgent == agents = {c \in Calls : call[c] = "running"}

\* Every handle the run holds is that of a child that runs.
HandlesRun == children \subseteq agents

\* Before launch there is nothing, and a run that could not be launched has
\* a task and a registry entry only; a live run has reported nothing; a run
\* torn down has reported its status and takes in no new request.
HostedIsWhole ==
  /\ hosted \in {"no", "half"} => worker = "none" /\ pipe = <<>> /\ \A c \in Calls : call[c] = "unsent"
  /\ hosted = "no" => status = "none" /\ task = "none"
  /\ hosted = "half" => status \in {"running", "stopped"} /\ task = "open"
  /\ hosted = "live" => status = "running" /\ task = "open"
  /\ hosted = "gone" => /\ status \in Terminal /\ task = status
                        /\ worker = "down"
                        /\ Unspawned \subseteq late

RunInv ==
  /\ WorkflowTypeOK
  /\ InTransit
  /\ PermitsAccounted
  /\ RunningHasAgent
  /\ HandlesRun
  /\ HostedIsWhole
  /\ ChildrenAccounted

-----------------------------------------------------------------------------
(* Sequences without repetition.                                           *)

\* What is left of a sequence without its head: the same members in the same
\* order, the head not among them.
LEMMA TailFacts ==
  ASSUME NEW S, NEW s \in Seq(S), s # <<>>
  PROVE  /\ Head(s) \in S /\ Tail(s) \in Seq(S)
         /\ Len(s) >= 1 /\ Head(s) = s[1]
         /\ Len(Tail(s)) = Len(s) - 1 /\ Len(Tail(s)) \in Nat
         /\ \A i \in 1..Len(Tail(s)) : i + 1 \in 1..Len(s) /\ Tail(s)[i] = s[i + 1]
         /\ Distinct(s) => Distinct(Tail(s)) /\ \A i \in 1..Len(Tail(s)) : Tail(s)[i] # Head(s)
<1>1. /\ Head(s) \in S /\ Tail(s) \in Seq(S) /\ Len(Tail(s)) = Len(s) - 1
      /\ \A i \in 1..Len(Tail(s)) : Tail(s)[i] = s[i + 1]
  BY HeadTailProperties
<1>2. Len(s) \in Nat /\ Len(s) >= 1 /\ Head(s) = s[1]
  BY EmptySeq, LenProperties
<1>3. \A i \in 1..Len(Tail(s)) : i + 1 \in 1..Len(s)
  BY <1>1, <1>2
<1>4. ASSUME Distinct(s) PROVE Distinct(Tail(s)) /\ \A i \in 1..Len(Tail(s)) : Tail(s)[i] # Head(s)
  <2>1. ASSUME NEW i \in 1..Len(Tail(s)), NEW j \in 1..Len(Tail(s)), Tail(s)[i] = Tail(s)[j]
        PROVE  i = j
    <3>1. i + 1 = j + 1
      BY <1>1, <1>3, <1>4, <2>1 DEF Distinct
    <3> QED BY <3>1, <1>1, <1>2
  <2>2. ASSUME NEW i \in 1..Len(Tail(s)), Tail(s)[i] = Head(s)
        PROVE  FALSE
    <3>1. i + 1 = 1
      BY <1>1, <1>2, <1>3, <1>4, <2>2 DEF Distinct
    <3> QED BY <3>1, <1>1, <1>2
  <2> QED BY <2>1, <2>2 DEF Distinct
<1> QED BY <1>1, <1>2, <1>3, <1>4

\* A sequence made longer by an element it did not have.
LEMMA AppendFacts ==
  ASSUME NEW S, NEW s \in Seq(S), NEW e \in S
  PROVE  /\ Append(s, e) \in Seq(S) /\ Append(s, e) # <<>>
         /\ \A i \in 1..Len(Append(s, e)) :
              \/ i \in 1..Len(s) /\ Append(s, e)[i] = s[i]
              \/ i = Len(s) + 1 /\ Append(s, e)[i] = e
         /\ Distinct(s) /\ (\A i \in 1..Len(s) : s[i] # e) => Distinct(Append(s, e))
<1>1. /\ Append(s, e) \in Seq(S) /\ Append(s, e) # <<>> /\ Len(Append(s, e)) = Len(s) + 1
      /\ \A i \in 1..Len(s) : Append(s, e)[i] = s[i]
      /\ Append(s, e)[Len(s) + 1] = e
  BY AppendProperties
<1>2. Len(s) \in Nat
  BY LenProperties
<1>3. \A i \in 1..Len(Append(s, e)) :
        \/ i \in 1..Len(s) /\ Append(s, e)[i] = s[i]
        \/ i = Len(s) + 1 /\ Append(s, e)[i] = e
  BY <1>1, <1>2
<1>4. ASSUME Distinct(s), \A i \in 1..Len(s) : s[i] # e PROVE Distinct(Append(s, e))
  BY <1>3, <1>4 DEF Distinct
<1> QED BY <1>1, <1>3, <1>4

-----------------------------------------------------------------------------
(* Permits.                                                                *)

\* The set of holders is finite, so that it can be counted.
LEMMA HoldingFinite == IsFiniteSet(Holding) /\ Cardinality(Holding) \in Nat
<1>1. Holding \in SUBSET Calls
  BY DEF Holding
<1> QED BY <1>1, CallsAssumption, FS_Subset, FS_CardinalityType

\* How one request's move changes the number of holders.
LEMMA HoldingMoves ==
  ASSUME WorkflowTypeOK, NEW c \in Calls, NEW x,
         call' = [call EXCEPT ![c] = x]
  PROVE  /\ c \notin Holding /\ x \in {"granted", "spawning", "running"} =>
              Cardinality(Holding') = Cardinality(Holding) + 1
         /\ c \in Holding /\ x \notin {"granted", "spawning", "running"} =>
              Cardinality(Holding') = Cardinality(Holding) - 1
         /\ (c \in Holding <=> x \in {"granted", "spawning", "running"}) =>
              Holding' = Holding
<1>1. \A d \in Calls : call'[d] = IF d = c THEN x ELSE call[d]
  BY DEF WorkflowTypeOK
<1>2. c \notin Holding /\ x \in {"granted", "spawning", "running"} => Holding' = Holding \cup {c}
  BY <1>1 DEF Holding
<1>3. c \in Holding /\ x \notin {"granted", "spawning", "running"} => Holding' = Holding \ {c}
  BY <1>1 DEF Holding
<1>4. (c \in Holding <=> x \in {"granted", "spawning", "running"}) => Holding' = Holding
  BY <1>1 DEF Holding
<1> QED BY <1>2, <1>3, <1>4, HoldingFinite, FS_AddElement, FS_RemoveElement

\* A release returns the permit, or hands it on to the first waiter: the
\* permits stay accounted for, and the waiters stay in the queue.
LEMMA ReleaseKeeps ==
  ASSUME RunInv, NEW c \in Holding, NEW x \in {"answered", "refused"}, Released(c, x),
         pipe' = pipe
  PROVE  /\ queue' \in Seq(Calls) /\ active' \in 0..Permits
         /\ call' \in [Calls -> {"unsent", "sent", "queued", "granted", "spawning", "running",
                                 "answered", "refused"}]
         /\ PermitsAccounted' /\ InTransit'
         /\ call'[c] = x
         /\ \A d \in Calls : d # c => \/ call'[d] = call[d]
                                      \/ call[d] = "queued" /\ call'[d] = "granted"
<1>1. /\ c \in Calls /\ call[c] \in {"granted", "spawning", "running"}
      /\ call \in [Calls -> {"unsent", "sent", "queued", "granted", "spawning", "running",
                             "answered", "refused"}]
      /\ queue \in Seq(Calls) /\ pipe \in Seq(Frames) /\ active \in 0..Permits /\ Permits \in Nat
  BY CapsAssumption DEF RunInv, WorkflowTypeOK, Holding
<1>2. Cardinality(Holding) = active /\ active > 0
  <2>1. Cardinality(Holding \ {c}) = Cardinality(Holding) - 1 /\ IsFiniteSet(Holding \ {c})
    BY HoldingFinite, FS_RemoveElement
  <2>2. Cardinality(Holding \ {c}) \in Nat
    BY <2>1, FS_CardinalityType
  <2> QED BY <2>1, <2>2, HoldingFinite DEF RunInv, PermitsAccounted
<1>3. CASE queue = <<>>
  <2>1. active' = active - 1 /\ call' = [call EXCEPT ![c] = x] /\ queue' = queue
    BY <1>3 DEF Released
  <2>2. Cardinality(Holding') = Cardinality(Holding) - 1
    BY <1>1, <2>1, HoldingMoves DEF RunInv
  <2>3. PermitsAccounted'
    BY <1>1, <1>2, <1>3, <2>1, <2>2 DEF PermitsAccounted
  <2>4. InTransit'
    <3>1. \A i \in 1..Len(pipe) : pipe[i] \in Calls => call'[pipe[i]] = "sent"
      BY <1>1, <2>1 DEF RunInv, InTransit
    <3>2. \A i \in 1..Len(queue) : FALSE
      BY <1>3, EmptySeq
    <3> QED BY <2>1, <3>1, <3>2 DEF RunInv, InTransit
  <2> QED BY <1>1, <1>2, <2>1, <2>3, <2>4
<1>4. CASE queue # <<>>
  <2> DEFINE h == Head(queue)
  <2>1. /\ active' = active /\ queue' = Tail(queue)
        /\ call' = [call EXCEPT ![c] = x, ![h] = "granted"]
    BY <1>4 DEF Released
  <2>2. /\ h \in Calls /\ Tail(queue) \in Seq(Calls) /\ h = queue[1] /\ 1 \in 1..Len(queue)
        /\ \A i \in 1..Len(Tail(queue)) : i + 1 \in 1..Len(queue) /\ Tail(queue)[i] = queue[i + 1]
        /\ Distinct(Tail(queue)) /\ \A i \in 1..Len(Tail(queue)) : Tail(queue)[i] # h
    BY <1>1, <1>4, TailFacts, LenProperties DEF RunInv, InTransit
  <2>3. call[h] = "queued" /\ h # c
    BY <1>1, <2>2 DEF RunInv, InTransit
  <2>4. \A d \in Calls : call'[d] = IF d = h THEN "granted" ELSE IF d = c THEN x ELSE call[d]
    BY <1>1, <2>1, <2>2
  <2>5. Cardinality(Holding') = Cardinality(Holding)
    <3>1. Holding' = (Holding \ {c}) \cup {h}
      BY <1>1, <2>2, <2>3, <2>4 DEF Holding
    <3>2. IsFiniteSet(Holding \ {c}) /\ Cardinality(Holding \ {c}) = Cardinality(Holding) - 1
      BY HoldingFinite, FS_RemoveElement
    <3>3. h \notin Holding \ {c}
      BY <2>3 DEF Holding
    <3>4. Cardinality((Holding \ {c}) \cup {h}) = Cardinality(Holding \ {c}) + 1
      BY <3>2, <3>3, FS_AddElement
    <3> QED BY <3>1, <3>2, <3>4, HoldingFinite
  <2>6. PermitsAccounted'
    BY <1>1, <1>4, <2>1, <2>5 DEF RunInv, PermitsAccounted
  <2>7. InTransit'
    <3>1. \A i \in 1..Len(queue') : call'[queue'[i]] = "queued"
      BY <1>1, <2>1, <2>2, <2>4 DEF RunInv, InTransit
    <3>2. \A i \in 1..Len(pipe) : pipe[i] \in Calls => call'[pipe[i]] = "sent"
      BY <1>1, <2>3, <2>4 DEF RunInv, InTransit
    <3> QED BY <2>1, <2>2, <3>1, <3>2 DEF RunInv, InTransit
  <2>8. call' \in [Calls -> {"unsent", "sent", "queued", "granted", "spawning", "running",
                             "answered", "refused"}]
    BY <1>1, <2>1, <2>2
  <2> QED BY <1>1, <2>1, <2>2, <2>3, <2>4, <2>6, <2>7, <2>8
<1> QED BY <1>3, <1>4

-----------------------------------------------------------------------------
(* Teardown.                                                               *)

\* A launched run's teardown, first or repeated, leaves it reported and whole,
\* if no request comes nearer to a child in the same step.
LEMMA TeardownKeeps ==
  ASSUME RunInv, NEW o \in Terminal, Teardown(Settle(o)), hosted \in {"live", "gone"},
         agents' = agents, Unspawned' \subseteq Unspawned
  PROVE  /\ HostedIsWhole' /\ ChildrenAccounted' /\ HandlesRun'
         /\ status' \in {"none", "running"} \cup Terminal
         /\ hosted' \in {"no", "live", "gone", "half"} /\ worker' \in {"none", "up", "down"}
         /\ asked' \subseteq Calls /\ children' \subseteq Calls /\ late' \subseteq Calls
         /\ task' \in {"none", "open"} \cup Terminal
         /\ waiter' \in {"none", "waiting", "resolved"}
<1>1. CASE hosted = "live"
  <2>1. Settle(o) = o /\ task = "open"
    BY <1>1 DEF RunInv, HostedIsWhole, Settle
  <2>2. /\ hosted' = "gone" /\ status' = o /\ task' = o /\ worker' = "down"
        /\ asked' = asked \cup children /\ children' = {} /\ late' = Unspawned
        /\ waiter' = IF waiter = "waiting" THEN "resolved" ELSE waiter
    BY <1>1, <2>1 DEF Teardown, Finish
  <2>3. HostedIsWhole'
    BY <2>2 DEF HostedIsWhole
  <2>4. ChildrenAccounted'
    BY <1>1, <2>2 DEF RunInv, ChildrenAccounted
  <2> QED BY <2>2, <2>3, <2>4 DEF RunInv, WorkflowTypeOK, Unspawned, HandlesRun
<1>2. CASE hosted = "gone"
  <2>1. UNCHANGED <<hosted, asked, children, worker, late, status, task, waiter>>
    BY <1>2 DEF Teardown
  <2>2. HostedIsWhole'
    BY <1>2, <2>1 DEF RunInv, HostedIsWhole
  <2>3. ChildrenAccounted'
    BY <1>2, <2>1 DEF RunInv, ChildrenAccounted
  <2> QED BY <2>1, <2>2, <2>3 DEF RunInv, WorkflowTypeOK, HandlesRun
<1> QED BY <1>1, <1>2

-----------------------------------------------------------------------------
(* Each operation keeps the invariant.                                     *)

\* The operations that leave the requests alone and tear nothing down.
LEMMA LaunchStep ==
  ASSUME RunInv, Launch \/ LaunchThrows \/ Await \/ WorkerDies
  PROVE  RunInv'
<1>1. UNCHANGED <<pipe, call, queue, active, total, spent, agents, asked, children, late>>
  BY DEF Launch, LaunchThrows, Await, WorkerDies
<1>2. WorkflowTypeOK'
  BY <1>1 DEF Launch, LaunchThrows, Await, WorkerDies, RunInv, WorkflowTypeOK
<1>3. InTransit' /\ PermitsAccounted' /\ RunningHasAgent'
  BY <1>1 DEF RunInv, InTransit, PermitsAccounted, Holding, RunningHasAgent
<1>4. Unspawned' = Unspawned
  BY <1>1 DEF Unspawned
<1>5. CASE Launch \/ LaunchThrows
  <2>1. agents = {}
    BY <1>5 DEF Launch, LaunchThrows, RunInv, HostedIsWhole, RunningHasAgent
  <2>2. children = {}
    BY <1>5 DEF Launch, LaunchThrows, RunInv, HostedIsWhole, RunningHasAgent, HandlesRun
  <2>3. HostedIsWhole' /\ ChildrenAccounted'
    BY <1>1, <1>5, <2>1, <2>2 DEF Launch, LaunchThrows, RunInv, HostedIsWhole, ChildrenAccounted
  <2> QED BY <1>1, <1>2, <1>3, <2>3 DEF RunInv, HandlesRun
<1>6. CASE Await \/ WorkerDies
  <2>1. hosted' = hosted /\ status' = status /\ task' = task
    BY <1>6 DEF Await, WorkerDies
  <2>2. hosted \in {"no", "half"} => worker' = "none"
    BY <1>6 DEF Await, WorkerDies, RunInv, HostedIsWhole
  <2>3. hosted = "gone" => worker' = "down"
    BY <1>6 DEF Await, WorkerDies, RunInv, HostedIsWhole
  <2>4. HostedIsWhole' /\ ChildrenAccounted'
    BY <1>1, <1>4, <2>1, <2>2, <2>3 DEF RunInv, HostedIsWhole, ChildrenAccounted
  <2> QED BY <1>1, <1>2, <1>3, <2>4 DEF RunInv, HandlesRun
<1> QED BY <1>5, <1>6

\* A frame is written: a request that was not sent before, or a last word.
LEMMA WriteStep ==
  ASSUME RunInv, NEW f \in Frames, WorkerWrites(f)
  PROVE  RunInv'
<1>1. /\ pipe \in Seq(Frames) /\ queue \in Seq(Calls) /\ pipe' = Append(pipe, f)
      /\ call \in [Calls -> {"unsent", "sent", "queued", "granted", "spawning", "running",
                             "answered", "refused"}]
      /\ UNCHANGED <<status, hosted, worker, queue, active, total, spent, agents, asked, children,
                     task, waiter, late>>
  BY DEF RunInv, WorkflowTypeOK, WorkerWrites
<1>2. hosted = "live"
  BY DEF WorkerWrites, RunInv, HostedIsWhole, WorkflowTypeOK
<1>3. /\ f \in Calls => call[f] = "unsent" /\ call' = [call EXCEPT ![f] = "sent"]
      /\ f \notin Calls => call' = call
  BY CallsAssumption DEF WorkerWrites
<1>4. \A d \in Calls : call'[d] = IF d = f THEN "sent" ELSE call[d]
  BY <1>1, <1>3
<1>5. call' \in [Calls -> {"unsent", "sent", "queued", "granted", "spawning", "running",
                           "answered", "refused"}]
  BY <1>1, <1>3
<1>6. WorkflowTypeOK'
  BY <1>1, <1>5, AppendFacts DEF RunInv, WorkflowTypeOK
<1>7. InTransit'
  <2>1. Distinct(pipe')
    BY <1>1, AppendFacts DEF RunInv, InTransit, WorkerWrites
  <2>2. ASSUME NEW i \in 1..Len(pipe'), pipe'[i] \in Calls PROVE call'[pipe'[i]] = "sent"
    <3>1. \/ i \in 1..Len(pipe) /\ pipe'[i] = pipe[i]
          \/ pipe'[i] = f
      BY <1>1, AppendFacts
    <3> QED BY <2>2, <3>1, <1>4 DEF RunInv, InTransit
  <2>3. ASSUME NEW i \in 1..Len(queue) PROVE call'[queue[i]] = "queued"
    <3>1. queue[i] \in Calls /\ call[queue[i]] = "queued"
      BY <1>1 DEF RunInv, InTransit
    <3> QED BY <3>1, <1>3, <1>4
  <2> QED BY <1>1, <2>1, <2>2, <2>3 DEF RunInv, InTransit
<1>8. Holding' = Holding /\ RunningHasAgent'
  BY <1>1, <1>3, <1>4 DEF Holding, RunInv, RunningHasAgent
<1>9. PermitsAccounted' /\ HandlesRun' /\ HostedIsWhole' /\ ChildrenAccounted'
  BY <1>1, <1>2, <1>8 DEF RunInv, PermitsAccounted, HandlesRun, HostedIsWhole, ChildrenAccounted
<1> QED BY <1>6, <1>7, <1>8, <1>9 DEF RunInv

\* What taking the first frame from the pipe leaves.
LEMMA FrameTaken ==
  ASSUME RunInv, pipe # <<>>, pipe' = Tail(pipe)
  PROVE  /\ Frame \in Frames /\ pipe' \in Seq(Frames) /\ Distinct(pipe')
         /\ Frame \in Calls => call[Frame] = "sent"
         /\ \A i \in 1..Len(pipe') : pipe'[i] # Frame /\ (pipe'[i] \in Calls => call[pipe'[i]] = "sent")
         /\ hosted \in {"live", "gone"}
<1>1. pipe \in Seq(Frames) /\ Distinct(pipe)
      /\ \A i \in 1..Len(pipe) : pipe[i] \in Calls => call[pipe[i]] = "sent"
  BY DEF RunInv, WorkflowTypeOK, InTransit
<1>2. hosted \in {"live", "gone"}
  BY DEF RunInv, HostedIsWhole, WorkflowTypeOK
<1>3. Len(pipe) \in Nat
  BY <1>1, LenProperties
<1> QED BY <1>1, <1>2, <1>3, TailFacts DEF Frame

\* A request is serviced: refused, given a permit, or queued for one.
LEMMA ServiceStep ==
  ASSUME RunInv, ServiceAgent
  PROVE  RunInv'
<1> DEFINE F == Frame
<1>1. /\ F \in Calls /\ call[F] = "sent" /\ pipe' \in Seq(Frames) /\ Distinct(pipe')
      /\ \A i \in 1..Len(pipe') : pipe'[i] # F /\ (pipe'[i] \in Calls => call[pipe'[i]] = "sent")
      /\ hosted \in {"live", "gone"}
      /\ UNCHANGED <<total, spent, agents>>
  BY FrameTaken DEF ServiceAgent
<1>2. /\ queue \in Seq(Calls) /\ active \in 0..Permits /\ Permits \in Nat /\ total \in Nat /\ spent \in Nat
      /\ call \in [Calls -> {"unsent", "sent", "queued", "granted", "spawning", "running",
                             "answered", "refused"}]
      /\ agents \subseteq Calls
  BY CapsAssumption DEF RunInv, WorkflowTypeOK
<1>3. PICK x \in {"refused", "granted", "queued"} : call' = [call EXCEPT ![F] = x]
  BY DEF ServiceAgent
<1> HIDE DEF F
<1>4. \A d \in Calls : call'[d] = IF d = F THEN x ELSE call[d]
  BY <1>1, <1>2, <1>3
<1>5. call' \in [Calls -> {"unsent", "sent", "queued", "granted", "spawning", "running",
                           "answered", "refused"}]
  BY <1>1, <1>2, <1>3
<1>6. F \notin Holding /\ RunningHasAgent' /\ Unspawned' \subseteq Unspawned
  BY <1>1, <1>4 DEF Holding, RunInv, RunningHasAgent, Unspawned
<1>7. \A i \in 1..Len(queue) : call'[queue[i]] = "queued" /\ queue[i] # F
  BY <1>1, <1>2, <1>4 DEF RunInv, InTransit
<1>8. \A i \in 1..Len(pipe') : pipe'[i] \in Calls => call'[pipe'[i]] = "sent"
  BY <1>1, <1>4
<1>9. CASE total >= TotalCap \/ (Budget # 0 /\ spent >= Budget)
  <2>1. Teardown(Settle("failed")) /\ call'[F] = "refused" /\ UNCHANGED <<queue, active>>
    BY <1>2, <1>1, <1>9, CapsAssumption DEF ServiceAgent, F
  <2>2. Holding' = Holding
    BY <1>4, <1>1, <2>1 DEF Holding
  <2>3. PermitsAccounted' /\ InTransit'
    BY <1>1, <1>7, <1>8, <2>1, <2>2 DEF RunInv, PermitsAccounted, InTransit
  <2>4. "failed" \in Terminal
    BY DEF Terminal
  <2> HIDE DEF Terminal
  <2>5. /\ HostedIsWhole' /\ ChildrenAccounted' /\ HandlesRun'
        /\ status' \in {"none", "running"} \cup Terminal
        /\ hosted' \in {"no", "live", "gone", "half"} /\ worker' \in {"none", "up", "down"}
        /\ asked' \subseteq Calls /\ children' \subseteq Calls /\ late' \subseteq Calls
        /\ task' \in {"none", "open"} \cup Terminal
        /\ waiter' \in {"none", "waiting", "resolved"}
    BY <1>1, <1>6, <2>1, <2>4, TeardownKeeps
  <2>6. WorkflowTypeOK'
    BY <1>1, <1>2, <1>5, <2>1, <2>5 DEF WorkflowTypeOK
  <2> QED BY <1>6, <2>3, <2>5, <2>6 DEF RunInv
<1>10. CASE ~(total >= TotalCap \/ (Budget # 0 /\ spent >= Budget))
  <2>1. /\ UNCHANGED <<status, hosted, worker, asked, children, task, waiter, late>>
        /\ \/ active < Permits /\ active' = active + 1 /\ call' = [call EXCEPT ![F] = "granted"] /\ queue' = queue
           \/ active = Permits /\ active' = active /\ call' = [call EXCEPT ![F] = "queued"]
              /\ queue' = Append(queue, F)
    BY <1>10 DEF ServiceAgent, F
  <2>2. HostedIsWhole' /\ HandlesRun' /\ ChildrenAccounted'
    BY <1>1, <1>6, <2>1 DEF RunInv, HostedIsWhole, HandlesRun, ChildrenAccounted
  <2>3. CASE active < Permits
    <3>1. active' = active + 1 /\ call' = [call EXCEPT ![F] = "granted"] /\ queue' = queue
      BY <2>1, <2>3, <1>2
    <3>2. Cardinality(Holding') = Cardinality(Holding) + 1
      BY <1>1, <1>6, <3>1, HoldingMoves DEF RunInv
    <3>3. PermitsAccounted' /\ InTransit'
      BY <1>1, <1>2, <1>7, <1>8, <2>3, <3>1, <3>2 DEF RunInv, PermitsAccounted, InTransit
    <3>4. WorkflowTypeOK'
      BY <1>1, <1>2, <1>5, <2>1, <2>3, <3>1 DEF RunInv, WorkflowTypeOK
    <3> QED BY <1>6, <2>2, <3>3, <3>4 DEF RunInv
  <2>4. CASE ~(active < Permits)
    <3>1. active = Permits /\ active' = active /\ call' = [call EXCEPT ![F] = "queued"] /\ queue' = Append(queue, F)
      BY <2>1, <2>4
    <3>2. Holding' = Holding
      BY <1>1, <1>2, <3>1 DEF Holding
    <3>3. PermitsAccounted'
      BY <1>2, <3>1, <3>2 DEF RunInv, PermitsAccounted
    <3>4. queue' \in Seq(Calls) /\ Distinct(queue')
      BY <1>1, <1>2, <1>7, <3>1, AppendFacts DEF RunInv, InTransit
    <3>5. ASSUME NEW i \in 1..Len(queue') PROVE call'[queue'[i]] = "queued"
      <4>1. \/ i \in 1..Len(queue) /\ queue'[i] = queue[i]
            \/ queue'[i] = F
        BY <1>1, <1>2, <3>1, AppendFacts
      <4> QED BY <1>1, <1>2, <1>7, <3>1, <4>1
    <3>6. InTransit'
      BY <1>1, <1>8, <3>4, <3>5 DEF InTransit
    <3>7. WorkflowTypeOK'
      BY <1>1, <1>2, <1>5, <2>1, <3>1, <3>4 DEF RunInv, WorkflowTypeOK
    <3> QED BY <1>6, <2>2, <3>3, <3>6, <3>7 DEF RunInv
  <2> QED BY <2>3, <2>4
<1> QED BY <1>9, <1>10

\* The counts after a permit was granted, and the handle of a spawned child.
LEMMA SpawnStep ==
  ASSUME RunInv, NEW c \in Calls, Granted(c) \/ Spawned(c)
  PROVE  RunInv'
<1>1. /\ call \in [Calls -> {"unsent", "sent", "queued", "granted", "spawning", "running",
                             "answered", "refused"}]
      /\ queue \in Seq(Calls) /\ agents \subseteq Calls
      /\ call[c] \in {"granted", "spawning"}
      /\ UNCHANGED <<status, hosted, worker, pipe, queue, active, spent, asked, task, waiter, late>>
  BY DEF RunInv, WorkflowTypeOK, Granted, Spawned
<1>2. hosted \in {"live", "gone"}
  BY <1>1 DEF RunInv, HostedIsWhole, WorkflowTypeOK
<1>3. PICK x \in {"spawning", "running"} :
        /\ call' = [call EXCEPT ![c] = x]
        /\ x = "running" => /\ call[c] = "spawning"
                            /\ agents' = agents \cup {c} /\ children' = children \cup {c}
        /\ x = "spawning" => agents' = agents /\ children' = children
  BY DEF Granted, Spawned
<1>4. \A d \in Calls : call'[d] = IF d = c THEN x ELSE call[d]
  BY <1>1, <1>3
<1>5. call' \in [Calls -> {"unsent", "sent", "queued", "granted", "spawning", "running",
                           "answered", "refused"}]
  BY <1>1, <1>3
<1>6. total' \in Nat
  BY DEF Granted, Spawned, RunInv, WorkflowTypeOK
<1>7. WorkflowTypeOK'
  BY <1>1, <1>3, <1>5, <1>6 DEF RunInv, WorkflowTypeOK
<1>8. InTransit'
  BY <1>1, <1>4 DEF RunInv, InTransit
<1>9. Holding' = Holding
  BY <1>1, <1>4 DEF Holding
<1>10. PermitsAccounted'
  BY <1>1, <1>9 DEF RunInv, PermitsAccounted
<1>11. RunningHasAgent' /\ HandlesRun'
  BY <1>1, <1>3, <1>4 DEF RunInv, RunningHasAgent, HandlesRun
<1>12. HostedIsWhole'
  <2>1. Unspawned' \subseteq Unspawned
    BY <1>1, <1>4 DEF Unspawned
  <2> QED BY <1>1, <1>2, <2>1 DEF RunInv, HostedIsWhole
<1>13. ChildrenAccounted'
  <2>1. hosted = "gone" => c \in late
    BY <1>1 DEF RunInv, HostedIsWhole, Unspawned
  <2> QED BY <1>1, <1>3, <2>1 DEF RunInv, ChildrenAccounted
<1> QED BY <1>7, <1>8, <1>10, <1>11, <1>12, <1>13 DEF RunInv

\* A request that held a permit ends: its child's result came, or spawnAgent
\* threw and the run is torn down.
LEMMA EndStep ==
  ASSUME RunInv, NEW c \in Calls, SpawnThrows(c) \/ ChildResult(c)
  PROVE  RunInv'
<1>1. /\ call \in [Calls -> {"unsent", "sent", "queued", "granted", "spawning", "running",
                             "answered", "refused"}]
      /\ agents \subseteq Calls /\ children \subseteq Calls /\ pipe' = pipe /\ total' = total
      /\ c \in Holding
  BY DEF RunInv, WorkflowTypeOK, SpawnThrows, ChildResult, Holding
<1>2. hosted \in {"live", "gone"}
  BY <1>1 DEF RunInv, HostedIsWhole, WorkflowTypeOK, Holding
<1>3. PICK x \in {"answered", "refused"} : Released(c, x)
  BY DEF SpawnThrows, ChildResult
<1>4. /\ queue' \in Seq(Calls) /\ active' \in 0..Permits
      /\ call' \in [Calls -> {"unsent", "sent", "queued", "granted", "spawning", "running",
                              "answered", "refused"}]
      /\ PermitsAccounted' /\ InTransit'
      /\ call'[c] = x
      /\ \A d \in Calls : d # c => \/ call'[d] = call[d]
                                   \/ call[d] = "queued" /\ call'[d] = "granted"
  BY <1>1, <1>3, ReleaseKeeps
<1>5. Unspawned' \subseteq Unspawned
  BY <1>1, <1>4 DEF Unspawned
<1>6. CASE SpawnThrows(c)
  <2>1. Teardown(Settle("failed")) /\ agents' = agents /\ spent' = spent /\ call[c] = "spawning"
    BY <1>6 DEF SpawnThrows
  <2>2. RunningHasAgent'
    BY <1>1, <1>4, <2>1 DEF RunInv, RunningHasAgent
  <2>3. "failed" \in Terminal
    BY DEF Terminal
  <2>4. /\ HostedIsWhole' /\ ChildrenAccounted' /\ HandlesRun'
        /\ status' \in {"none", "running"} \cup Terminal
        /\ hosted' \in {"no", "live", "gone", "half"} /\ worker' \in {"none", "up", "down"}
        /\ asked' \subseteq Calls /\ children' \subseteq Calls /\ late' \subseteq Calls
        /\ task' \in {"none", "open"} \cup Terminal
        /\ waiter' \in {"none", "waiting", "resolved"}
    BY <1>2, <1>5, <2>1, <2>3, TeardownKeeps
  <2>5. WorkflowTypeOK'
    BY <1>1, <1>4, <2>1, <2>4 DEF RunInv, WorkflowTypeOK
  <2> QED BY <1>4, <2>2, <2>4, <2>5 DEF RunInv
<1>7. CASE ChildResult(c)
  <2>1. /\ agents' = agents \ {c} /\ children' = children \ {c} /\ spent' = spent + 1
        /\ UNCHANGED <<status, hosted, worker, asked, task, waiter, late>>
    BY <1>7 DEF ChildResult
  <2>2. RunningHasAgent' /\ HandlesRun'
    BY <1>1, <1>4, <2>1 DEF RunInv, RunningHasAgent, HandlesRun
  <2>3. HostedIsWhole'
    BY <1>2, <1>5, <2>1 DEF RunInv, HostedIsWhole
  <2>4. ChildrenAccounted'
    BY <1>2, <2>1 DEF RunInv, ChildrenAccounted
  <2>5. WorkflowTypeOK'
    BY <1>1, <1>4, <2>1 DEF RunInv, WorkflowTypeOK
  <2> QED BY <1>4, <2>2, <2>3, <2>4, <2>5 DEF RunInv
<1> QED BY <1>6, <1>7

\* What ends the run as a whole: the worker's last word, its exit, and a stop.
LEMMA FinishStep ==
  ASSUME RunInv, WorkerResult \/ WorkerExited \/ Stop
  PROVE  RunInv'
<1>1. UNCHANGED <<call, queue, active, total, spent, agents>>
  BY DEF WorkerResult, WorkerExited, Stop
<1>2. /\ pipe' \in Seq(Frames) /\ Distinct(pipe')
      /\ \A i \in 1..Len(pipe') : pipe'[i] \in Calls => call[pipe'[i]] = "sent"
  <2>1. CASE WorkerResult
    BY <2>1, FrameTaken DEF WorkerResult
  <2>2. CASE WorkerExited \/ Stop
    BY <2>2 DEF WorkerExited, Stop, RunInv, WorkflowTypeOK, InTransit
  <2> QED BY <2>1, <2>2
<1>3. Holding' = Holding /\ Unspawned' = Unspawned /\ RunningHasAgent'
  BY <1>1 DEF Holding, Unspawned, RunInv, RunningHasAgent
<1>4. PermitsAccounted' /\ InTransit'
  BY <1>1, <1>2, <1>3 DEF RunInv, PermitsAccounted, InTransit
<1>5. CASE \E o \in Terminal : Teardown(Settle(o)) /\ hosted \in {"live", "gone"}
  <2>1. /\ HostedIsWhole' /\ ChildrenAccounted' /\ HandlesRun'
        /\ status' \in {"none", "running"} \cup Terminal
        /\ hosted' \in {"no", "live", "gone", "half"} /\ worker' \in {"none", "up", "down"}
        /\ asked' \subseteq Calls /\ children' \subseteq Calls /\ late' \subseteq Calls
        /\ task' \in {"none", "open"} \cup Terminal
        /\ waiter' \in {"none", "waiting", "resolved"}
    BY <1>1, <1>3, <1>5, TeardownKeeps
  <2>2. WorkflowTypeOK'
    BY <1>1, <1>2, <2>1 DEF RunInv, WorkflowTypeOK
  <2> QED BY <1>3, <1>4, <2>1, <2>2 DEF RunInv
<1>6. WorkerResult \/ WorkerExited => \E o \in Terminal : Teardown(Settle(o)) /\ hosted \in {"live", "gone"}
  <2>1. {"completed", "failed"} \subseteq Terminal
    BY DEF Terminal
  <2>2. WorkerResult => hosted \in {"live", "gone"}
    BY FrameTaken DEF WorkerResult
  <2> QED BY <2>1, <2>2 DEF WorkerResult, WorkerExited
<1>7. CASE Stop
  <2>1. status = "running"
    BY <1>7 DEF Stop
  <2>2. CASE hosted = "live"
    <3>1. Teardown(Settle("stopped")) /\ "stopped" \in Terminal
      BY <1>7, <2>1, <2>2 DEF Stop, Settle, Terminal
    <3> QED BY <1>5, <2>2, <3>1
  <2>3. CASE hosted # "live"
    <3>1. hosted = "half"
      BY <2>1, <2>3 DEF RunInv, HostedIsWhole, WorkflowTypeOK, Terminal
    <3>2. status' = "stopped" /\ UNCHANGED <<pipe, hosted, asked, children, worker, late, task, waiter>>
      BY <1>7, <2>3 DEF Stop
    <3>3. HostedIsWhole' /\ HandlesRun' /\ ChildrenAccounted'
      BY <1>1, <3>1, <3>2 DEF RunInv, HostedIsWhole, HandlesRun, ChildrenAccounted
    <3>4. WorkflowTypeOK'
      BY <1>1, <3>2 DEF RunInv, WorkflowTypeOK, Terminal
    <3> QED BY <1>3, <1>4, <3>3, <3>4 DEF RunInv
  <2> QED BY <2>2, <2>3
<1> QED BY <1>5, <1>6, <1>7

\* Nothing has happened before launch.
LEMMA RunInitInv == WorkflowInit => RunInv
<1> SUFFICES ASSUME WorkflowInit PROVE RunInv
  OBVIOUS
<1>1. \A c \in Calls : call[c] = "unsent"
  BY DEF WorkflowInit
<1>2. Holding = {} /\ Unspawned = {}
  BY <1>1 DEF Holding, Unspawned
<1>3. PermitsAccounted
  BY <1>2, FS_EmptySet, CapsAssumption DEF WorkflowInit, PermitsAccounted
<1>4. WorkflowTypeOK
  BY CapsAssumption DEF WorkflowInit, WorkflowTypeOK
<1>5. InTransit
  BY DEF WorkflowInit, InTransit, Distinct
<1>6. RunningHasAgent /\ HandlesRun /\ HostedIsWhole /\ ChildrenAccounted
  BY <1>1 DEF WorkflowInit, RunningHasAgent, HandlesRun, HostedIsWhole, ChildrenAccounted
<1> QED BY <1>3, <1>4, <1>5, <1>6 DEF RunInv

-----------------------------------------------------------------------------
(* The theorems.                                                           *)

\* The inductive invariant behind the others: every request is at one place of
\* its way through serviceAgent, and `hosted' tells what the registry, the task
\* handle and the worker are.
THEOREM RunInvariant == WorkflowSpec => []RunInv
<1>1. WorkflowInit => RunInv
  BY RunInitInv
<1>2. RunInv /\ [WorkflowNext]_runVars => RunInv'
  <2> SUFFICES ASSUME RunInv, [WorkflowNext]_runVars PROVE RunInv'
    OBVIOUS
  <2>1. CASE UNCHANGED runVars
    BY <2>1 DEF runVars, RunInv, WorkflowTypeOK, InTransit, PermitsAccounted, Holding, RunningHasAgent,
                HandlesRun, HostedIsWhole, ChildrenAccounted, Unspawned
  <2> QED BY <2>1, LaunchStep, WriteStep, ServiceStep, SpawnStep, EndStep, FinishStep DEF WorkflowNext
<1> QED BY <1>1, <1>2, PTL DEF WorkflowSpec

\* The state of a run stays well-typed; in particular no more permits are lent
\* than the semaphore has.
THEOREM RunTypeCorrect == WorkflowSpec => []WorkflowTypeOK
<1>1. RunInv => WorkflowTypeOK
  BY DEF RunInv
<1> QED BY <1>1, RunInvariant, PTL

\* The task handle's report is the registry's status, whichever of a result,
\* an exit, a refusal and a stop settled the run.
THEOREM ReportIsStatus == WorkflowSpec => []ReportMatchesStatus
<1>1. RunInv => ReportMatchesStatus
  BY DEF RunInv, HostedIsWhole, ReportMatchesStatus, WorkflowTypeOK, Terminal
<1> QED BY <1>1, RunInvariant, PTL

\* No permit is lost or lent twice, and teardown misses only children of
\* requests that were still short of a child.
THEOREM ResourcesKept == WorkflowSpec => []ResourcesAccounted
<1>1. RunInv => ResourcesAccounted
  BY DEF RunInv, ResourcesAccounted
<1> QED BY <1>1, RunInvariant, PTL
============================================================================
