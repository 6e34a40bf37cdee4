# Formal models of winter-agent-sdk

TLA+ models of the parts of this repository whose correctness depends on the
order of things: processes that share a session on disk, the event loop of a
session with its background tasks and child agents, tool calls that wait for an
approval across restarts, and a parent process that services a workflow worker
it does not trust. TLC checks each model on small instances; for all of them
TLAPS proves the safety properties for instances of any size, one refinement
included.
`PROJECT.json` lists the components, the runs with their properties, a
deliberate fault that breaks each property, the source lines every definition
stands for, the disagreements found, and the hazards the properties are for.

Paths below are relative to `src/packages/`.

## Inventory

| Component | State | Operations | What is hard |
| --- | --- | --- | --- |
| Writer lease (`sdk/src/store/leases.ts`, `process-identity.ts`) | the file `<sessionId>.lock` | acquire, judge, take over, release | other processes between any two system calls; deaths; reused pids; several boots |
| Session store (`sdk/src/store/session-store.ts`) | transcript `.jsonl`, `.summary.json`, lock | append, load with tail repair, rename/tag, claim, release, delete | crashes inside a write; repair of a file somebody may be writing; read-modify-write of the summary |
| Session surface and resume (`sdk/src/sessions.ts`, `runtime/src/store/dialect.ts`) | the chain of entries a resumed engine continues | create, resume, read, rename, delete, fork | claim before read-back |
| Workflow run (`runtime/src/workflows/runtime.ts`, `registry.ts`, `semaphore.ts`, `budget.ts`, `tools/impl/workflow.ts`) | registry entry, LiveRun, semaphore, child handles, task handle | launch, service frames, stop, await | result, exit, refusal and stop in any order; awaits between a check and its use |
| Workflow replay (`journal.ts`, `script-api.ts`, `bridge.ts`, `subprocess-entry.ts`) | journal of a run, position and latch of a replay | agent(), `resumed`, resume | completion order against call order; resume of a resume |
| Engine turn loop (`runtime/src/engine.ts`) | turn claim, userFrames, held results, wait | turns, pump, input end, interrupt, sweep, teardown | turns, notices and tasks that start each other while the session is ending |
| Notification queue (`runtime/src/subagents/notification-queue.ts`) | entries, endpoints by agent | enqueue, drain, withdraw, register, relay | endpoints that change hands; entries nobody is woken for |
| Background tasks, monitor, cron (`runtime/src/tools/impl/`) | task table, notified ids | start, update, stop, notify | five finalizers racing for one row; a pid that arrives late |
| Subagents (`runtime/src/subagents/child-engine.ts`, `limits.ts`, `watchdog.ts`) | child records, generations, slots, server names | spawn, resume, stop, settle, stall | a resume with three awaits against stop, change of context and an old generation's teardown |
| Restored children (`runtime/src/subagents/restore.ts`) | wrapper, resume gate, binding | resume, stop, bind, drain | contexts that end while something is being made from them |
| Durable approvals (`runtime/src/permissions/approvals.ts`, `engine.ts`) | `<session>.approvals.jsonl` | record, respond, cancel, expire, consume, resume scan | death between intent, call and result; appends cut short; a second process answering |
| Messaging (`sdk/src/messaging/`) | route table, held messages, idle watches | route, deliver, hold, release | delivery that outlives its target |
| Query, transport, RPC bridge (`sdk/src/query.ts`, `transport.ts`, `runtime/src/rpc/bridge.ts`) | pending requests, streams | request, reply, cancel, close | a reply racing a cancel or the close |
| MCP (`runtime/src/mcp/`) | connections and their generation | connect, reconnect, call, close | results of an earlier connection |
| Hooks, permission evaluation (`runtime/src/hooks/`, `permissions/`) | decisions, counters | evaluate, reduce | order of answers; mostly text processing |
| Checkpoint, compaction, provider state, held inputs | files beside the transcript | record, rewind, compact, attach | crash between two files |
| Provider runtime (`provider-runtime/src/`) | retry budgets, partial streams | request, retry, assemble | retry of what was already streamed |
| Sandbox, catalog, conformance, web | policy text, data, test tooling | | not a state machine |

Interactions. A runtime engine owns a transcript writer, which goes through the
session store and its lease; other processes reach the same files through the
session functions of the SDK. The engine's loop takes a turn from `userFrames`,
which the host's frames and the main thread's notifications feed. A turn may
start shells and child agents; their ends are verdicts on a row of the task
table and a notice in the notification queue, which wakes the agent that started
them or, when that agent has no engine any more, the main thread. A child agent
is a handle that runs one engine after another (generations); its engine may
have tasks and children of its own. After a restart the children come back as
restored ones, whose handles are made when they are resumed. A tool call parked
by a hook goes to the approvals file and is run by a later resume of the
session. The Workflow tool creates a background task, registers a run and spawns
a worker; the worker's `agent()` calls come back as frames, become child engines
through `spawnAgent`, and their results go to the journal and to the worker.

## Modules

| Module | Models | Used by |
| --- | --- | --- |
| `SessionLease` | one lock file and the processes that acquire and release it | `MCSessionLease`, `SessionStore`, `SessionLeaseProofs` |
| `SessionStore` | one session's files; extends `SessionLease` and drives its steps | `MCSessionStore`, `SessionStoreProofs` |
| `WorkflowRun` | one workflow run in its parent process | `MCWorkflowRun`, `WorkflowRunProofs` |
| `WorkflowReplay` | a chain of runs, each resuming the one before | `MCWorkflowReplay`, `WorkflowReplayProofs` |
| `NotificationQueue` | the queue, as operators on its entries and endpoints | `SessionLoop` |
| `TaskNotice` | abstract: what a session promises about each task's notice | instantiated by `SessionLoop` |
| `SessionLoop` | a top-level session: turns, pump, tasks, queue, closed-input wait, teardown | `MCSessionLoop`, `SessionLoopProofs` |
| `ChildHandle` | the handles of a session's children and what they share | `MCChildHandle`, `RestoredChild`, `ChildHandleProofs` |
| `RestoredChild` | the wrapper of a restored child; extends `ChildHandle` and drives its steps | `MCRestoredChild`, `RestoredChildProofs` |
| `DurableApprovals` | the approvals file, the engine that parks and resumes, and a responder | `MCDurableApprovals`, `DurableApprovalsProofs` |
| `SessionLeaseProofs`, `SessionStoreProofs`, `WorkflowRunProofs`, `WorkflowReplayProofs`, `SessionLoopProofs`, `ChildHandleProofs`, `RestoredChildProofs`, `DurableApprovalsProofs` | theorems; the store's proofs extend the lease's, those of restored children the handles' | |

The `MC` modules only give instances. Operators marked FAULT are plausible bugs.
No specification uses them; each stands for a definition in one of the mutants
of `PROJECT.json`.

### SessionLease

An element of `Procs` is one process incarnation, with a kernel (`KernelOf`) and
a pid (`PidOf`). A kernel in `Linux` has a boot id and start ticks, so its
processes record an identity (`Identified`); macOS has neither. A lease file is
identified with the process it names: `lock` is a process, `Missing` or
`Corrupt`. `Owned`, `PidAlive` and `HolderAlive` are `isLeaseOwnedByCurrentProcess`,
`isPidAlive` and `isLeaseHolderAlive`; the host's two confirmation callbacks
become the set `attested`, which by their contract only ever contains kernels
without a live process.

Every system call of `acquireLease` and `releaseLease` is an action: `Link`
(`link(2)` exposes a finished file or fails), `ReadLock`, `Judge` (which decides
about the lease that was read), `Replace` (`rename(2)` over whatever is there by
then), `BeginRelease`, `Unlink`. `pc = "write"` is the stretch from the return of
`acquireLease` to the caller's last synchronous write; the lease stays on disk
after it. `Crash` may come at any point. `DropLock` is what `delete()` does to
the lock. The history variable `raced` records that a live owner's lease was
taken away, by a takeover whose judgement no longer held when it renamed
(the limitation `leases.ts:231` records) or by `delete()`. `newborn` records which
processes started since a process decided to replace the file, so that
`TakeoverHarmsOnlyInGap` can say when the harm is the gap's: the file is no longer
the one judged, or, without kernel identities, its owner started after the
judgement with the pid the file names. A process that ran when it was judged is
never the one harmed; a judgement that skips the probe breaks this.

The retry bound is 2 in the runs (8 in the code). A probe that fails on Linux,
and I/O errors other than ENOENT and EEXIST, end the call without touching the
file and are left out.

### SessionStore

The transcript is a sequence of fragments: an entry is a head and an end, the
end carrying the newline, so that a read or a death can fall inside a write.
`Parseable`, `Torn`, `Keep` and `Undecodable` are `parseWithTailRepair` over
fragments, and `Decoded` is what it returns: the entry on each line, the k-th
line ending at the k-th newline (`LineEnd`). `Truncated` is `ftruncate`, which
also lengthens. An operation is a
`job` of a process at a stage `at`: append is lease, head, end (write and fsync),
fold (read summary), save; a rename is lease, fold, save; a resume is lease,
load; `load` is read, check of the lease, truncate; `delete` removes transcript,
lock and summary one after the other and takes no lease. The quarantine copy of a
torn tail is never read back and is part of `LoadTruncate`.

History variables: `acked` (entries whose fsync returned), `named` (last
completed rename), `skipped` (acknowledged entries a death kept from the
summary), `cut` (a repair truncated a file that had changed since its read),
`deleted`. A process creates the session only while nothing was written: the
code gives every fresh session a new id. A batch is one entry; a write ends
early only by death.

### WorkflowRun

The parent is one event loop, so an action is the code between two awaits.
`serviceAgent` is `ServiceAgent` (the two refusals and `sem.acquire`), `Granted`
(the counts and the call of `spawnAgent`), `Spawned` or `SpawnThrows`, and
`ChildResult` with the release of the permit. `Teardown`, `Settle`, `Finish` and
`Stop` are `teardown`, the registry's guarded transitions, `finish` and
`registry.stop` with the synchronous cascade of its abort. The worker is not
trusted: it sends requests as it likes, and what it wrote before it died is still
delivered. Calls are symmetric tokens; a finished agent costs one token of the
budget. `late` records the requests without a child at teardown: nothing stops
those (see the finding below), and `ResourcesAccounted` says that it misses no
others.

### WorkflowReplay

A script is the sequence of prompt keys of its calls; a live success yields a
value that names its run and call, so the model can tell where a replayed value
came from. `AgentCached`/`AgentLive` are the two halves of `agent()` around the
`diverged` latch, `HandleResumed` copies the reported prefix, `AgentEnds` journals
a success when it arrives, `Resume` seeds a new run with the journal of the
stopped one, with the recorded source or an edited one. The chain is linear: only
the latest run is resumed, and what a resumed run's predecessor still journals is
of no consequence to it.

### SessionLoop, NotificationQueue, TaskNotice

`SessionLoop` is one top-level `runEngine` of `engine.ts`, again one event loop:
an action is the code between two awaits. The loop's position is `loop`, the
frame it took is `cur`; `turnActive` is the claim that the pump and the wait look
at, `Pump` is what a wake-up does (one notice from the queue into `userFrames`),
`WaitPoll` and `WaitSweep` are `runBackgroundWait`, `WriteTurnResult` is the door
that holds results back while background work is running. A turn begins with the
`UserPromptSubmit` hook, which lets the prompt pass (`PromptPasses`) or drops it
(`PromptBlocked`), a notice's like the host's; only a prompt that passes enters
the history. A blocked prompt and `/compact` write their results around that door
(`DirectResult`). `used` counts how often a notice was taken by a turn or a tool
round, `dropped` holds those the hook refused. A task has a `row` in
the registry, whose update is the one `Verdict` for all finalizers: the exit
handler, TaskStop, the sweep, a child's teardown, a pid that arrives after the
stop; `claimed` is `notifiedTaskIds`. `work` is the process or child engine
behind the row, which may live on after the verdict. `NotificationQueue` holds
addressing, the orphan fallback to the main thread and waking as operators; the
filters of the code keep the elements at a set of positions (`ElementsAt`).

`TaskNotice` says what this is for, without queues, engines or turns: a task that
ended owes one notice; it is given once, or the host's hook refuses it, or it
lapses in a session that is going away. `SessionLoop` implements it, with the stage of a task read off its row, the
queue, `userFrames` and the current frame (`NoticeSpec`).

Left out: clocks (a deadline may pass whenever its timer runs), the content of a
turn, failure as distinct from completion of a task, workflow rows, monitors and
their relay, foreground children, spawns abandoned half-way; children have shells
but no children. The order in which a sweep visits the rows is left open.

### ChildHandle

One handle per child of a session. A generation is one run of the child's engine:
`engine[c][g]` goes from busy over replied to gone, or is refused before it
starts. The handle's `status` turns terminal when the generation settles, while
its engine is still being torn down. A resume is `ResumeBegins` and one action
per await (`phase`): resolving the context, reading the transcript, recording,
waiting for the last generation's teardown (bounded by a timer: `WaitOver`), and
undoing. `stop()` and a change of context during it are marks on its `ticket`.
Shared between children: the slots of `limits.ts`, the server names children
claim for their own MCP servers, and the notification endpoints, which a late
teardown must not take from a later generation. The stall watchdog is `Stall`,
and `asks`/`paused` its pausing for the questions forwarded to the host. The
child's bridge may give a question up, after a timeout or because it was cancelled
(`Withdraw`); the read loop does nothing then, so the id stays claimed and the
clock paused until the host answers after all. `withdrawn` counts such questions.

The teardown of an engine is one step. Steering, the depth limit, worktrees and
the refusal of a child whose persistence failed are left out.

### RestoredChild

The wrapper around a durable record: `wrap` is where its resume is (retiring the
old handle, creating one from the context the child is bound to, driving the
handle's own resume), `suspended` the closed gate, `drain` the waits of a stop, of
the root's end and of the parent's end. The handles are those of `ChildHandle`,
whose actions are conjoined with the wrapper's. A context is the root session or
a generation of the parent. When a generation starts it binds its descendants;
the variable `binding` makes that one step with the start, as it is in the code.
Continuations of awaited promises run before later calls.

The root's end follows `engine.ts:11168` and after: it closes every gate and waits
for what runs (`RootDrains`), from then on nothing is bound to it; when all drains
are over it fires `SessionEnd` (`RootStops`), stops and awaits each child
(`RootStopsChild`) and returns (`RootReturns`), where the disposer finds the
context ended already.

A generation ends by `Stall` only, which stands for any end; an error that
escapes the engine of a child with descendants is left out.

### DurableApprovals

The file is kept as what a load can tell of it: `folded`, the fold of its
terminated well-formed lines, `tail`, how it ends, and `unreadable`, a malformed
line before the last. This is exact because the fold is incremental, line by
line. An append is the decision (`pen`, or `hostPen` for the responder) and the
write, which may leave nothing, a fragment, the line without its newline, or the
whole line, and then return an error or be the end of the process. The history
`lost` holds the lines that were glued to a torn one. `Transition` is the table of
legal transitions and `applyEnvelope` its use; the engine parks calls in a turn,
cancels pending ones on a mode switch, loads the file in `Resume`, and from
`ScanBegins` on scans its copy of the records (control frames are served before
that, so the policy may change in between): it expires, revalidates, announces (`markConsuming`), runs, records the
end, and saves the tool result. There is one engine at a time, which the writer
lease provides; the responder works concurrently from its own copy.

Left out: the path axis of `revalidateApproval` (it compares like the policy
axis) and the in-memory store, which folds the same envelopes without a file.

## Runs

| Run | Instance | Shows |
| --- | --- | --- |
| `lease` | a process of a Linux boot, three of macOS, two of them with one pid, 2 attempts, fairness (144,426 states) | types, exclusion of writers, ownership of the file written under or unlinked, takeovers harmful only in their gap; every `acquireLease` ends |
| `store` | 3 processes of one boot, 2 entries, 1 rename, symmetric (891,322 states) | the transcript is the acknowledged entries; the summary loses no name, and no count but of entries whose writer died before the fold; a repair takes torn bytes only |
| `workflow` | 3 calls, 2 permits, cap 2, budget 1, fairness | report equal to status, permits and child handles accounted for but for the children of requests a stop does not reach, nobody waits for ever |
| `replay` | 4 scripts over 3 keys, 3 runs | replayed values are the right ones, a prefix, and carried over |
| `session` | 2 inputs, the second `/compact`; an agent and a shell it starts; the hook may block any prompt; fairness of code and tasks (84,903 states) | refines `TaskNotice`; no process outlives its verdict; no notice twice or stranded; one result per turn, overtaken only by those written directly; a closed-input session ends |
| `child` | 2 children, 1 slot, 1 server name, one resume, questions to the host, fairness (67,959 states) | slots and names follow the generations; a live engine keeps its endpoint; a cancelled resume stands; resumes end; stalled generations fail unless the host owes an answer |
| `restored` | a restored child resumed twice and its restored child, fairness (37,926 states) | a generation runs alone and on a living, current context; a drain keeps outcomes; the root ends and nothing outlives its drain |
| `approvals` | 2 requests, 2 policies (symmetric), 4 resumes, 1 cut append, 2 answers, 1 policy change (4,676,478 states) | a call runs at most once unless its announcement was glued to a torn line; never after a refusal; only under its policy; announced requests are on disk |
| `store_repair_race`, `workflow_cap`, `session_hang`, `approvals_twice` | smallest instance that shows it | a statement in the source that the code does not keep; see below |

Why the bounds are enough. The lease needs a holder, a stealer, a second stealer
or a fresh holder, and a pid that comes back while a third process without
identities replaces; processes of one Linux boot meet in the store's instance, and
processes of two boots are left to the proof, which covers any number of them. Two entries suffice for a torn tail
after a good line, and three processes for a writer, a reader that repairs and a
third that intervenes. With three calls and two permits one request queues, the
cap is met with requests still queued, and the budget runs out with a child still
running. Three runs are the shortest resume of a resume. An agent with a shell is
the smallest case of an orphaned notice, and a second input the smallest of a
result that waits behind another. With one slot the second child meets the limit
while the first is in its resume. Two resumes of the parent give a binding that
is replaced while its child is being made. A repeated run of a call needs a cut,
an append after it and two more resumes; the fourth resume comes after all of it.

Deadlock is not checked: every one of these systems may come to rest, with all
processes dead, all bounds used up, the session or the run over.

Fairness is weak fairness throughout. `lease`: a process that stays alive executes
the synchronous call it is in; a crash disables it. `workflow`: the event loop
delivers frames, the exit event and continuations, `spawnAgent` settles, and a
child agent ends; the last is the host's duty (child handles have a watchdog).
`session`: `CodeFairness` is the event loop, turns and hooks that end, timers, the
teardown of a stopped child and spawns that settle; no shell has to exit. The
passing run adds `TaskFairness`, that shells exit and children finish, which is
what `ClosedInputEnds` depends on (`session_hang` shows what happens without it).
`child`: the store, the resolver and the timers answer, a reply is read and
reported; nothing is assumed of the host, or of an engine's teardown. `restored`
adds that the teardown of a settled generation ends, because a drain waits for it
without a bound, and that the root goes on once its drains and its stops are over. Nothing makes a worker write, a user stop or a process die.

## Where the code and its text disagree

- `store_repair_race`. `load()` reads the transcript, looks at the lease, and
  truncates to the length of the complete lines it read. In the run a process
  reads, without the lease, a line of which the holder has written the head; the
  holder completes and syncs the line and dies before its append returns; the
  reader finds no live holder and removes the line, complete by now. The comments
  (`session-store.ts:309`, `:574`) promise that earlier valid entries are never
  dropped and call the lease a signal that is not itself racy.
- `workflow_cap`. The cap is compared before the semaphore is awaited and counted
  after, so requests queued meanwhile exceed it. The header of `runtime.ts`
  promises that not one agent is spawned past the cap.
- `session_hang`. The closed-input wait sweeps once (`engine.ts:6562`). The turn
  that delivers the sweep's notices may start another background shell, and the
  session then waits for it without a ceiling, against the comment at
  `engine.ts:6396`.
- `approvals_twice`. A torn last line is tolerated by `loadExisting` but left in
  the file, and the next append is glued to it (`approvals.ts:614`). If that is
  the line announcing a run, the next load drops it and the resume scan runs the
  call again, against "at most once across its ENTIRE lifetime"
  (`engine.ts:7675`) and `approvals.ts:642`.

Four more are findings on passing runs: the property there states what does hold,
with the exception spelled out, and the exception is what a line of the source
denies.

- `store`, `SummaryKept`. A death between the transcript write and `foldSummary`
  (`session-store.ts:537`) leaves `entryCount` short for good. `sessions.ts:151`
  calls it "accurate by construction, not an approximation".
- `workflow`, `ResourcesAccounted`. A request in the pipe, waiting for a permit or
  for `spawnAgent` when the run is stopped goes on to start a child nobody tells
  to stop. `runtime.ts:290` and `:405` (WS-11 §1.8): a stop "cancels in-flight
  bridged agents".
- `session`, `ResultsKept`. The results of `/compact` and of a blocked prompt are
  written while earlier ones are held, and overtake them. `engine.ts:6440`: "A
  result that is NOT held flushes everything held before it, then itself."
- `child`, `StalledFails`. The stall clock paused for a question the child has
  given up since runs again only after a late answer, which a cancelled question
  is not owed (`query.ts:1685`). `child-engine.ts:1366` justifies the pause with "a
  child waiting on a human".

The passing properties say how far the damage goes: `TranscriptIsAcked` and
`RepairTakesOnlyTorn` hold whenever no repair met a changed file,
`ResourcesAccounted` says which children a teardown misses, `ClosedInputEnds`
holds when the tasks end by themselves, and `RunsOnceUnlessSwallowed` (proved)
names the only way to a second run.

Other observations made while modelling, in words only:

- The journal is written in completion order and read by call position: parallel
  calls that finish in another order make an unedited resume replay nothing. Two
  equal calls, the first failed: the resume answers it with the other's value.
  `ServedIsPriorAnswer` needs distinct keys.
- `runBackgroundWait` leaves its loop (`engine.ts:6535`) without looking at
  `userFrames`; an interrupt that arrives while the claim is taken but no turn runs
  is lost; a `UserPromptSubmit` hook that blocks a task's notice drops it for good
  (`engine.ts:9538`).
- A child handle's `result()` resolves once, so the end of a resumed generation
  is not reported through it. A steer during a resume's wait is acknowledged into
  a channel nobody reads. The teardown of an old generation also sweeps the
  shells of the next. An error that escapes `runEngineBody` leaves the
  notification endpoint registered.
- An fsync error after a complete write denies a call whose request stays
  pending in the file. Two responders can both be told `applied: true`. An
  unreadable approvals file keeps the session from resuming.

## Proofs

`SessionLeaseProofs` proves, for any processes, kernels, pids and retry bound,
under the assumptions stated in `SessionLease` (every process has a kernel; the
file states are distinct from processes; the bound is positive; at most one
kernel without identities shares a store):

- `LeaseTypeCorrect`, `HolderOnDiskAlways`, `WritersExclude`: the invariants
  `LeaseTypeOK`, `HolderOnDisk` and `WriterExclusion`;
- `TakeoverGap`: the action property `TakeoverHarmsOnlyInGap`.

`WriterExclusion` is not inductive. That a process may write says nothing by
itself about the file, and that a release may unlink is only safe because nobody
else could have taken over in between. The invariant `LeaseInv` adds that the
file on disk is owned by whoever writes or unlinks (`HolderOnDisk`), that a lease
being judged which its reader owns is still the one on disk (`JudgedIsCurrent`:
re-entry goes from the read to the write without another system call), and three
facts about the world: live processes of a kernel have distinct pids, only live
processes are inside a call, nobody lives on an attested kernel. Two lemmas carry
the argument: `OwnerUnique`, no two live processes recognise one lease as theirs,
and `OwnerNotStale`, nobody judges stale a lease a live process recognises. With
them each system call preserves `HolderOnDisk`, and exclusion follows, since two
writers would own one file. `TakeoverGap` needs in addition what a process that is
about to replace the file knows (`TakeoverJudgement`): as long as the file is the
one it judged, whoever owns it was born since, and is among `newborn`. With
identities nobody can be (`StaleForGood`); without, the kernel's next owner of the
pid can, and `BirthNoted` says that no birth is missed. A file names only processes
that have started (`LeasesNameBorn`).

`DurableApprovalsProofs` proves, for any requests, policies and bounds, assuming
only that requests are numbered and the bounds are numbers:

- `ApprovalTypeCorrect`, `AtMostOnce`, `DeferredStays`: the invariants
  `ApprovalTypeOK`, `RunsOnceUnlessSwallowed` and `DeferredIsDurable`;
- `RefusedStays`, `StartedAsIssued`: the action properties `RefusedNeverRuns` and
  `RunsAsIssued`.

That a call ran at most once is not inductive either: a resume decides from the
copy of the file it loaded, about runs made by processes that are gone. The
invariant `ApprovalInv` follows the announcement. A call that was started, or is
about to be, has its announcement in the fold of the file, or swallowed, or the
file cannot be loaded again (`SpentIsShown`); what the scan has still to look at
is, in what matters, as the file says, although a responder may have appended
since (`LoadIsFresh` before the scan, `ScanIsFresh` in it, where `Startable` uses that a terminal state of a request
never changes and that a damaged tail stays damaged); an announced call may still
be started (`IntentHolds`); and what is being appended fits where the engine is
(`PenFits`). The lemmas `TransitionFacts`, `FileFacts` and `FileKeeps` say what an
append, complete or cut, keeps of the file; `ResumeIsFresh` establishes the load's
half, `NothingStarted` disposes of all steps that start nothing, and
`OnlyExecuteStarts` carries the two action properties.

`SessionStoreProofs` proves, for any processes and any number of entries and
renames, assuming besides the lease's assumptions that the marker of a missing
file is neither a file nor a summary (`FilesAssumption`):

- `StoreTypeCorrect`, `StoreWritersExclude`, `SummaryIsKept`, `TranscriptKept`: the
  invariants `StoreTypeOK`, `WriterExclusion`, `SummaryKept` and
  `TranscriptIsAcked`;
- `RepairsTakeOnlyTorn`: the action property `RepairTakesOnlyTorn`.

Every step of the store is a step of the lease or leaves it alone (`StepLease`),
so `LeaseInv` carries over; this includes `delete()`, whose removal of the lock is
the lease's `DropLock`. `StoreInv` adds where a process is in `acquireLease` for
each stage of its operation (`ControlAt`); that the appends under way account for
what the counts have still to show (`CountsFit`); that one process at a time is
between its first and last write, so that the summary it saves is made from the
current one (`SavesCurrent`); that an entry is nowhere before it is written
(`ItemsFresh`); that whoever keeps a writer open owns the lease (`HoldersOwn`);
and that the file is the acknowledged lines, followed by at most one head, which
belongs to the append under way unless nobody has a writer open (`LogFits`). A repair about to
cut never meets the head of a live append, since the check of the lease sees its
writer (`RepairsDead`, `WriterIsSeen`). The lemmas about `Lines` compute newlines,
torn tail, cut and decoding for files of that shape, which replaces an induction
over the file. What depends on exclusion is conditional on `raced`, `deleted` and
`cut`, as the properties are.

`WorkflowRunProofs` proves, for any finite set of calls and any permits, cap and
budget, assuming that a request is not one of the two marks a worker's last frame
carries:

- `RunTypeCorrect`, `ReportIsStatus`, `ResourcesKept`: `WorkflowTypeOK`,
  `ReportMatchesStatus` and `ResourcesAccounted`.

The permits can only be counted if no request is counted twice: `InTransit` says
that a request is in the pipe or among the semaphore's waiters at most once and
has come no further. `HostedIsWhole` says how status, task and worker go together
before the launch, while the run is in the live table and after its teardown: a
live run has reported nothing, which makes the first of result, exit, refusal and
stop the one that reports.

`WorkflowReplayProofs` proves, for any scripts and any number of resumes:

- `ReplayTypeCorrect`, `ReplayIsPrefix`, `PrefixIsCarried`, `ReplayIsTrue`:
  `ReplayTypeOK`, `ServedPrefix`, `PrefixCarried` and `ServedIsPriorAnswer`.

A run is in one of three stages: nothing live was called and nothing is on its
way, the length of the prefix is the first frame in the pipe, or the prefix is in
the journal (`Fresh`, `Reporting`, `Carried`). That order of the pipe is why
`PrefixCarried` holds although journalling is asynchronous. A replayed value is
right because every entry of a journal is true of the run that wrote it
(`JournalTrue`), and the seed of a run is the journal of the one before
(`SeedTrue`).

`ChildHandleProofs` proves, for any finite set of children, any limit of slots,
any number of generations and questions of the children to the host:

- `ChildTypeCorrect`, `ClaimsKept`, `LiveEnginesHeard`: `ChildTypeOK`,
  `ClaimsAccounted` and `LiveEngineHeard`;
- `CancelledResumesStand`: the action property `CancelledResumeStands`.

The invariant is stated child by child: status, phase of the resume, ticket and
earlier outcome fit (`HandleFits`), and so do the generations (`GenerationsFit`:
only the last may be unsettled, an engine that is up has its names). Every step
is one of one child and leaves the others alone (`SameAt`), so slots are counted
by adding or removing one. That a free server name is always found is a
pigeonhole argument over the engines that are up (`NameLeft`). The set of children
is assumed finite, as the table of handles is. The invariant holds from any state
in which nothing runs (`QuietInv`), those with children that ended before this
session included.

`RestoredChildProofs` proves, for any finite set of restored children, any
generations and any parents, at any depth (the root's `bindDescendants` is handed
down to every child), assuming only that a parent is another restored child or the
root (`ParentAssumption`):

- `RestoredTypeCorrect`, `NothingOutlives`, `ContextIsInForce`: `RestoredTypeOK`,
  `NothingOutlivesRoot` and `ContextInForce`; `RestoredClaimsKept`: slots and
  server names stay accounted for (`ClaimsAccounted`) under the wrapper too;
- `DrainsKeepOutcome`: the action property `DrainKeepsOutcome`.

`ChildInv` carries over, the wrapper's steps being handle steps or cancellations
(`CancelKeeps`). What is new follows the gate. A resume that could still start a
generation has an open gate and was made from the binding in force, and what a
child is bound to or runs on has not returned (`ContextFits`). Nothing of a child
is up while a handle is being made for it or its resume is under way (`WrapFits`),
so generations do not overlap. A drain that has passed its first wait has only
the awaited generation left (`DrainFits`), because the gate was closed, and the
ticket taken, before that wait began; once the root is past its drains every child
is such a one with nothing left (`RootFits`). A generation returns only when its
descendants have been drained and bound elsewhere, or it was refused and never
bound any. Most steps are calm: they start no generation, end no engine and begin
no resume (`Calm`), and the parts of the invariant whose variables they leave alone
stay (`WrapStays`, `ContextStays`, `DrainStays`).

`SessionLoopProofs` proves, for any finite set of tasks, any owners and any number
of inputs, assuming that tasks are not mistaken for the numbers of host frames
(`TasksAssumption`) and that shells and agents are owned by the main thread or by
an agent (`AgentsAssumption`):

- `SessionTypeCorrect`, `NothingLeftRunning`, `NoticesAreKept`, `ResultsAreKept`:
  `SessionTypeOK`, `NoProcessOutlives`, `NoticesKept` and `ResultsKept`;
- `SessionImplementsNotice`: the refinement of `TaskNotice` (`NoticeSpec`).

A notice is told once because it is in one place at a time: the queue,
`userFrames`, or the frame the loop has taken, and unused as long as it is in
one of the first two or its prompt has not passed the hook (`NoticesFit`); a row has a notice only after its verdict and
a claim only then (`TasksFit`). Most actions are of one kind, in which some rows
end, perhaps none, their notices join the queue and a pump may follow (`Ending`,
`EndingSteps`); the invariant is shown once for that kind and once for each of the
other actions. `ResultsFit` counts results: held and written together are a
permutation of the turns that are over, and in order but for the direct ones. For
the refinement, `Moves` says in terms of the session how far a task may come in
a step; the cases in which a notice disappears are a drain or a prompt that passes
the hook, which tell it, a prompt that is blocked, which refuses it, and a hard stop, a frame dropped after one, and the session's end,
after which no more turns are taken (`LoopFits`).

Only model-checked. Liveness under fairness (`AcquireEnds`, `WaitersServed`,
`ExitSettlesWaiter`, `ClosedInputEnds`, `ResumesEnd`, `StalledFails`, `RootEnds`) is
out of the prover's reach and stays with TLC.

## Not modelled

Write errors of the session store while the process lives on (a full disk),
subpath transcripts and their metadata sidecar, the provider-state file, listing
and path validation of the store; phases, progress, transcripts and nested
`workflow()` of a run; monitors and their relay, cron and foreground tasks; what
happens inside a turn (the model's answer, tool rounds, permission evaluation,
hooks other than `UserPromptSubmit`, compaction), which `SessionLoop` takes as one step; the components listed
as `not_modelled` in `PROJECT.json`, each with its reason. Most of the
repository's lines are provider wire formats, command and rule parsing, catalog
data and conformance tooling, in which there is no state to explore.

## Plan

1. Messaging router and idle watch; query, transport and RPC bridge: request
   correlation, cancel and close.
2. MCP lifecycle: generations against stale results. Auto-mode counters.
3. Checkpoint and rewind, compaction, provider state, held inputs: two files and
   a crash between them. Hook decisions and provider retry as pure functions
   against a reference.
4. The monitor's relay and its bound; write errors of the session store.
