---------------------------- MODULE WorkflowRun ----------------------------
(***************************************************************************)
(* One workflow run as its parent process services it                      *)
(* (packages/runtime/src/workflows/runtime.ts, registry.ts, semaphore.ts   *)
(* and the task handle of tools/impl/workflow.ts).                         *)
(*                                                                         *)
(* The parent is one event loop: an action is the code between two awaits. *)
(* The worker process is not trusted to keep to the caps it mirrors, so it *)
(* sends agent() requests as it likes.  Frames it wrote before it died are *)
(* still delivered, and its close event comes after them.                  *)
(***************************************************************************)
EXTENDS Naturals, Sequences, FiniteSets

CONSTANTS
  Calls,     \* the agent() requests the worker may send
  Permits,   \* the concurrency cap of the run's semaphore
  TotalCap,  \* the per-run agent cap (1000 in the code)
  Budget     \* the token ceiling; one token per finished agent; 0 for none

ASSUME CapsAssumption == Permits \in Nat \ {0} /\ TotalCap \in Nat /\ Budget \in Nat
ASSUME CallsAssumption == IsFiniteSet(Calls) /\ Calls \cap {"done", "error"} = {}

VARIABLES
  status,    \* registry: the run's lifecycle state
  hosted,    \* "no" before launch, "live" while the LiveRun exists, "gone" after teardown,
             \* "half" when the worker could not be spawned after the task was registered
  worker,    \* whether the worker process runs
  pipe,      \* its frames not yet handled
  call,      \* the state of each request's serviceAgent
  queue,     \* the semaphore's waiters
  active,    \* the semaphore's permits in use
  total,     \* run.total
  spent,     \* the session's token spend
  agents,    \* requests whose child agent runs
  asked,     \* those of them that were told to stop
  children,  \* run.children: the handles the run holds
  task,      \* what the task handle was told last
  waiter,    \* a caller of await(runId)
  late       \* history: the requests still short of a child at teardown

runVars == <<status, hosted, worker, pipe, call, queue, active, total, spent,
             agents, asked, children, task, waiter, late>>

Frames == Calls \cup {"done", "error"}

Terminal == {"completed", "failed", "stopped"}

WorkflowTypeOK ==
  /\ status \in {"none", "running"} \cup Terminal
  /\ hosted \in {"no", "live", "gone", "half"}
  /\ worker \in {"none", "up", "down"}
  /\ pipe \in Seq(Frames) /\ queue \in Seq(Calls)
  /\ call \in [Calls -> {"unsent", "sent", "queued", "granted", "spawning", "running",
                         "answered", "refused"}]
  /\ active \in 0..Permits /\ total \in Nat /\ spent \in Nat
  /\ agents \subseteq Calls /\ asked \subseteq Calls /\ children \subseteq Calls
  /\ task \in {"none", "open"} \cup Terminal
  /\ waiter \in {"none", "waiting", "resolved"}
  /\ late \subseteq Calls

WorkflowInit ==
  /\ status = "none" /\ hosted = "no" /\ worker = "none"
  /\ pipe = <<>> /\ queue = <<>>
  /\ call = [c \in Calls |-> "unsent"]
  /\ active = 0 /\ total = 0 /\ spent = 0
  /\ agents = {} /\ asked = {} /\ children = {}
  /\ task = "none" /\ waiter = "none" /\ late = {}

---------------------------------------------------------------------------
\* Requests that were sent and have no child yet.
Unspawned == {c \in Calls : call[c] \in {"sent", "queued", "granted", "spawning"}}

\* Requests that hold a permit.
Holding == {c \in Calls : call[c] \in {"granted", "spawning", "running"}}

\* registry.complete and registry.fail: no-ops on a terminal run.
Settle(outcome) == IF status = "running" THEN outcome ELSE status

\* finish: the registry, the task handle (a stop is told apart from a failure by
\* the registry's status) and the callers of await.
Finish(state) ==
  /\ status' = state
  /\ task' = IF task = "open" THEN state ELSE task
  /\ waiter' = IF waiter = "waiting" THEN "resolved" ELSE waiter

\* FAULT (used by a mutant): a teardown that forgets the children.
TeardownLeavingChildren(state) ==
  \/ /\ hosted = "live"
     /\ hosted' = "gone"
     /\ children' = {}
     /\ worker' = "down"
     /\ late' = Unspawned
     /\ Finish(state)
     /\ UNCHANGED asked
  \/ hosted # "live" /\ UNCHANGED <<hosted, asked, children, worker, late, status, task, waiter>>

\* teardown: only the first one does anything.
Teardown(state) ==
  \/ /\ hosted = "live"
     /\ hosted' = "gone"
     /\ asked' = asked \cup children
     /\ children' = {}
     /\ worker' = "down"
     /\ late' = Unspawned
     /\ Finish(state)
  \/ hosted # "live" /\ UNCHANGED <<hosted, asked, children, worker, late, status, task, waiter>>

\* FAULT (used by a mutant): a release that leaves the next waiter asleep.
ReleasedNoHandOver(c, outcome) ==
  /\ active' = active - 1
  /\ UNCHANGED queue
  /\ call' = [call EXCEPT ![c] = outcome]

\* sem.release: the permit goes to the first waiter, if there is one.
Released(c, outcome) ==
  \/ /\ queue = <<>>
     /\ active' = active - 1
     /\ call' = [call EXCEPT ![c] = outcome]
     /\ UNCHANGED queue
  \/ /\ queue # <<>>
     /\ call' = [call EXCEPT ![c] = outcome, ![Head(queue)] = "granted"]
     /\ queue' = Tail(queue)
     /\ UNCHANGED active

---------------------------------------------------------------------------
\* launch: task, registry entry, worker and LiveRun, in one synchronous call.
Launch ==
  /\ hosted = "no"
  /\ status' = "running" /\ hosted' = "live" /\ worker' = "up" /\ task' = "open"
  /\ UNCHANGED <<pipe, call, queue, active, total, spent, agents, asked, children, waiter, late>>

\* launch throws out of spawnWorker: task and registry entry stay behind.
LaunchThrows ==
  /\ hosted = "no"
  /\ status' = "running" /\ hosted' = "half" /\ task' = "open"
  /\ UNCHANGED <<worker, pipe, call, queue, active, total, spent, agents, asked, children, waiter, late>>

\* await(runId): a terminal run resolves at once.
Await ==
  /\ hosted # "no" /\ waiter = "none"
  /\ waiter' = IF status = "running" THEN "waiting" ELSE "resolved"
  /\ UNCHANGED <<status, hosted, worker, pipe, call, queue, active, total, spent, agents,
                 asked, children, task, late>>

\* The worker writes a frame: an agent() request, its result or its failure.
WorkerWrites(f) ==
  /\ worker = "up"
  /\ \A i \in 1..Len(pipe) : pipe[i] # f
  /\ \/ f \in Calls /\ call[f] = "unsent" /\ call' = [call EXCEPT ![f] = "sent"]
     \/ f \in {"done", "error"} /\ UNCHANGED call
  /\ pipe' = Append(pipe, f)
  /\ UNCHANGED <<status, hosted, worker, queue, active, total, spent, agents, asked, children,
                 task, waiter, late>>

\* The worker dies without a word.
WorkerDies ==
  /\ worker = "up"
  /\ worker' = "down"
  /\ UNCHANGED <<status, hosted, pipe, call, queue, active, total, spent, agents, asked,
                 children, task, waiter, late>>

Frame == Head(pipe)

\* FAULT (used by a mutant): the semaphore lets one request too many in.
ServiceAgentOffByOne ==
  /\ pipe # <<>> /\ Frame \in Calls
  /\ pipe' = Tail(pipe)
  /\ \/ /\ active <= Permits
        /\ active' = active + 1
        /\ call' = [call EXCEPT ![Frame] = "granted"]
        /\ UNCHANGED queue
     \/ /\ active > Permits
        /\ queue' = Append(queue, Frame)
        /\ call' = [call EXCEPT ![Frame] = "queued"]
        /\ UNCHANGED active
  /\ UNCHANGED <<status, hosted, worker, total, spent, agents, asked, children, task, waiter, late>>

\* serviceAgent up to its first await: the total cap, the budget, then a slot.
\* Nothing here asks whether the run still lives.
ServiceAgent ==
  /\ pipe # <<>> /\ Frame \in Calls
  /\ pipe' = Tail(pipe)
  /\ \/ /\ total >= TotalCap \/ (Budget # 0 /\ spent >= Budget)
        /\ Teardown(Settle("failed"))
        /\ call' = [call EXCEPT ![Frame] = "refused"]
        /\ UNCHANGED <<queue, active>>
     \/ /\ total < TotalCap /\ ~(Budget # 0 /\ spent >= Budget)
        /\ \/ /\ active < Permits
              /\ active' = active + 1
              /\ call' = [call EXCEPT ![Frame] = "granted"]
              /\ UNCHANGED queue
           \/ /\ active = Permits
              /\ queue' = Append(queue, Frame)
              /\ call' = [call EXCEPT ![Frame] = "queued"]
              /\ UNCHANGED active
        /\ UNCHANGED <<status, hosted, worker, asked, children, task, waiter, late>>
  /\ UNCHANGED <<total, spent, agents>>

\* The continuation after sem.acquire: the counts, then spawnAgent is called.
Granted(c) ==
  /\ call[c] = "granted"
  /\ call' = [call EXCEPT ![c] = "spawning"]
  /\ total' = total + 1
  /\ UNCHANGED <<status, hosted, worker, pipe, queue, active, spent, agents, asked, children,
                 task, waiter, late>>

\* spawnAgent resolves: the handle joins run.children and its result is awaited.
Spawned(c) ==
  /\ call[c] = "spawning"
  /\ call' = [call EXCEPT ![c] = "running"]
  /\ agents' = agents \cup {c}
  /\ children' = children \cup {c}
  /\ UNCHANGED <<status, hosted, worker, pipe, queue, active, total, spent, asked, task, waiter, late>>

\* spawnAgent throws: the host cannot start agents, and the run fails.
SpawnThrows(c) ==
  /\ call[c] = "spawning"
  /\ Teardown(Settle("failed"))
  /\ Released(c, "refused")
  /\ UNCHANGED <<pipe, total, spent, agents>>

\* The child's result: the handle is dropped, the permit returned, the worker
\* answered if the run still lives.
ChildResult(c) ==
  /\ call[c] = "running"
  /\ agents' = agents \ {c}
  /\ children' = children \ {c}
  /\ spent' = spent + 1
  /\ Released(c, "answered")
  /\ UNCHANGED <<status, hosted, worker, pipe, total, asked, task, waiter, late>>

\* The worker's terminal frames.
WorkerResult ==
  /\ pipe # <<>> /\ Frame \in {"done", "error"}
  /\ pipe' = Tail(pipe)
  /\ Teardown(Settle(IF Frame = "done" THEN "completed" ELSE "failed"))
  /\ UNCHANGED <<call, queue, active, total, spent, agents>>

\* FAULT (used by a mutant): no crash fallback.
WorkerExitedIgnored == FALSE /\ UNCHANGED runVars

\* onExit: a worker gone without a terminal frame fails the run.
WorkerExited ==
  /\ worker = "down" /\ pipe = <<>>
  /\ hosted = "live"
  /\ Teardown(Settle("failed"))
  /\ UNCHANGED <<pipe, call, queue, active, total, spent, agents>>

\* FAULT (used by a mutant): the abort fires before the status is set, so the
\* cascade finds the run still running and fails it.
StopAbortFirst ==
  /\ status = "running" /\ hosted = "live"
  /\ hosted' = "gone"
  /\ asked' = asked \cup children
  /\ children' = {}
  /\ worker' = "down"
  /\ late' = Unspawned
  /\ task' = IF task = "open" THEN "failed" ELSE task
  /\ waiter' = IF waiter = "waiting" THEN "resolved" ELSE waiter
  /\ status' = "stopped"
  /\ UNCHANGED <<pipe, call, queue, active, total, spent, agents>>

\* registry.stop: the status first, then the abort and its synchronous cascade.
\* A half-launched run has no abort listener, so its task stays open.
Stop ==
  /\ status = "running"
  /\ \/ hosted = "live" /\ Teardown("stopped")
     \/ hosted # "live" /\ status' = "stopped"
        /\ UNCHANGED <<hosted, asked, children, worker, late, task, waiter>>
  /\ UNCHANGED <<pipe, call, queue, active, total, spent, agents>>

WorkflowNext ==
  \/ Launch \/ LaunchThrows \/ Await \/ Stop
  \/ \E f \in Frames : WorkerWrites(f)
  \/ WorkerDies \/ ServiceAgent \/ WorkerResult \/ WorkerExited
  \/ \E c \in Calls : Granted(c) \/ Spawned(c) \/ SpawnThrows(c) \/ ChildResult(c)

\* The event loop delivers frames, exit events and continuations; the host
\* answers spawnAgent, and a child agent ends.
WorkflowFairness ==
  /\ WF_runVars(ServiceAgent \/ WorkerResult)
  /\ WF_runVars(WorkerExited)
  /\ \A c \in Calls : /\ WF_runVars(Granted(c))
                      /\ WF_runVars(Spawned(c) \/ SpawnThrows(c))
                      /\ WF_runVars(ChildResult(c))

WorkflowSpec == WorkflowInit /\ [][WorkflowNext]_runVars /\ WorkflowFairness

---------------------------------------------------------------------------

\* What the task handle reported is what the registry says, so a stop is never
\* reported as a crash; and a run torn down has reported.
ReportMatchesStatus ==
  /\ task \in Terminal => task = status
  /\ hosted = "gone" => task \in Terminal

\* The semaphore never lends more permits than it has, never loses one, and
\* keeps nobody waiting while one is free.
PermitsAccounted ==
  /\ Cardinality(Holding) = active
  /\ active <= Permits
  /\ queue # <<>> => active = Permits

\* While the run lives it holds the handle of every child that runs, so the
\* abort chaining of teardown reaches them all.  Afterwards a child that was not
\* told to stop is one whose request was still in the pipe, or waiting for a
\* permit or for spawnAgent, at that moment.  That falls short of what runtime.ts
\* quotes of WS-11 1.8, a stop that "cancels in-flight bridged agents": such a
\* child is started after the stop and runs on.
ChildrenAccounted ==
  /\ hosted = "live" => agents = children
  /\ hosted = "gone" => agents \ asked \subseteq late

\* A request waiting for a permit gets one, torn-down run or not.
WaitersServed == \A c \in Calls : call[c] = "queued" ~> call[c] # "queued"

\* "A worker that exits without a terminal bridge message fails the run, never
\* hangs the awaiting caller."
ExitSettlesWaiter == worker = "down" /\ waiter = "waiting" ~> waiter = "resolved"

\* "A worker that ignored its mirror entirely could still not spawn one agent
\* past the cap."
TotalCapHolds == total <= TotalCap

\* Permits and child handles are accounted for, whatever order results,
\* exits, refusals and a stop come in.
ResourcesAccounted == PermitsAccounted /\ ChildrenAccounted
===========================================================================
