----------------------------- MODULE SessionLoop -----------------------------
(***************************************************************************)
(* A top-level session of the engine: the turn loop, the input pump, the   *)
(* background-task registry, the notification queue, the wait of a         *)
(* closed-input session, and teardown (packages/runtime/src/engine.ts,     *)
(* tools/impl/background-task-runtime.ts, bash.ts, agent.ts, task-stop.ts, *)
(* subagents/notification-queue.ts).                                       *)
(*                                                                         *)
(* The process is one event loop: an action is the code between two        *)
(* awaits.  A background task is a shell, with an operating-system         *)
(* process, or an agent, with a child engine that may start shells of its  *)
(* own.  Clocks are left out: a deadline may pass whenever its timer runs. *)
(***************************************************************************)
EXTENDS NotificationQueue

CONSTANTS
  Agents,    \* the tasks that are agents; the others are shells
  Inputs,    \* how many frames the host may send
  Compacts,  \* those of them that are the /compact built-in
  Ceiling    \* whether the wait has a ceiling (PRINT_BG_WAIT_CEILING_MS # 0)

ASSUME AgentsAssumption ==
  Agents \subseteq Tasks /\ \A t \in Tasks : OwnerOf[t] \in (IF t \in Agents THEN {Main} ELSE Agents \cup {Main})
ASSUME InputsAssumption == Inputs \in Nat /\ Compacts \subseteq 1..Inputs /\ Ceiling \in BOOLEAN
\* A frame in userFrames is a numbered input of the host or names a task.
ASSUME TasksAssumption == IsFiniteSet(Tasks) /\ Tasks \cap 0..Inputs = {}

VARIABLES
  row,        \* the registry's status of each task
  work,       \* each task's process or child engine
  claimed,    \* notifiedTaskIds
  entries,    \* the notification queue
  endpoints,  \* the agents with a live endpoint
  frames,     \* userFrames: what waits to start a turn
  sent,       \* how many frames the host has sent
  loop,       \* where the turn loop is
  cur,        \* the frame the loop has taken
  turnActive, \* the turn claim
  struck,     \* the running turn's interrupt signal fired
  inputClosed, framesEnded, aborted, hard,
  swept,      \* the wait has swept
  turns,      \* turns begun
  held,       \* heldResults: the turns whose result is held
  out,        \* results written, by turn
  direct,     \* history: the turns whose result went around writeTurnResult
  used,       \* history: how often each task's notice reached a model or was dropped
  dropped     \* history: the tasks whose notice the UserPromptSubmit hook dropped

loopVars == <<row, work, claimed, entries, endpoints, frames, sent, loop, cur, turnActive, struck,
              inputClosed, framesEnded, aborted, hard, swept, turns, held, out, direct, used, dropped>>

taskVars  == <<row, work, claimed>>
queueVars == <<entries, frames, turnActive>>
inputVars == <<sent, inputClosed, hard>>
waitVars  == <<swept, framesEnded>>
turnVars  == <<loop, cur, struck, turns>>
resultVars == <<held, out, direct>>

Shells   == Tasks \ Agents

\* "completed" stands for an end of the task's own, failed or not.
Terminal == {"completed", "stopped"}

\* interruptCurrentTurn is set from the start of a turn to its result, but not for a built-in.
Interruptible == loop \in {"prompt", "turn"}

\* runBackgroundWait runs from requestInputEnd until it ends userFrames.
Waiting == inputClosed /\ ~framesEnded

\* What waits in userFrames: a host input by its number, or the task a notification is about.
Frames == (1..Inputs) \cup Tasks
None   == 0

SessionTypeOK ==
  /\ row \in [Tasks -> {"none", "running"} \cup Terminal]
  /\ work \in [Tasks -> {"none", "spawning", "live", "exited", "winding", "gone"}]
  /\ claimed \subseteq Tasks
  /\ entries \in Seq(Tasks) /\ endpoints \subseteq Agents
  /\ frames \in Seq(Frames) /\ cur \in Frames \cup {None}
  /\ sent \in 0..Inputs
  /\ loop \in {"starting", "idle", "taken", "prompt", "turn", "compact", "closing", "drained", "flushed",
             "reaping", "done"}
  /\ {turnActive, struck, inputClosed, framesEnded, aborted, hard, swept} \subseteq BOOLEAN
  /\ turns \in Nat
  /\ held \in Seq(1..turns) /\ out \in Seq(1..turns) /\ direct \subseteq 1..turns
  /\ used \in [Tasks -> Nat] /\ dropped \subseteq Tasks

SessionInit ==
  /\ row = [t \in Tasks |-> "none"] /\ work = [t \in Tasks |-> "none"]
  /\ claimed = {} /\ entries = <<>> /\ endpoints = {}
  /\ frames = <<>> /\ sent = 0
  /\ loop = "starting" /\ cur = None
  /\ turnActive = FALSE /\ struck = FALSE
  /\ inputClosed = FALSE /\ framesEnded = FALSE /\ aborted = FALSE /\ hard = FALSE
  /\ swept = FALSE
  /\ turns = 0 /\ held = <<>> /\ out = <<>> /\ direct = {}
  /\ used = [t \in Tasks |-> 0] /\ dropped = {}

-----------------------------------------------------------------------------
(* The queue and the turn claim. *)

Queued(es, eps) == Peek(es, Main, eps) # <<>>

\* FAULT (used by a mutant): the drain has no limit, and only its first entry starts a turn.
PumpDrainsAll(es, eps, fs, ta) ==
  IF ta \/ framesEnded \/ hard \/ ~Queued(es, eps)
    THEN entries' = es /\ frames' = fs /\ turnActive' = ta
    ELSE LET mine == Peek(es, Main, eps) IN
         entries' = Without(es, Members(mine)) /\ frames' = Append(fs, Head(mine)) /\ turnActive' = TRUE

(***************************************************************************)
(* pumpNotifications over the entries es, the endpoints eps, the frames fs *)
(* and the claim ta: with no turn claimed and the session taking turns, it *)
(* moves the main thread's oldest entry to userFrames and claims the turn. *)
(***************************************************************************)
Pump(es, eps, fs, ta) ==
  IF ta \/ framesEnded \/ hard \/ ~Queued(es, eps)
    THEN entries' = es /\ frames' = fs /\ turnActive' = ta
    ELSE LET t == Head(Peek(es, Main, eps)) IN
         entries' = Without(es, {t}) /\ frames' = Append(fs, t) /\ turnActive' = TRUE


(***************************************************************************)
(* The registry's doors.  Each of the tasks in the sequence order gets its *)
(* one notice: the claim is taken, the entry queued to the owner, and the  *)
(* owner's engine woken.  A child's engine takes no turn of its own for a  *)
(* notice, so only a wake of the main thread pumps.                        *)
(***************************************************************************)
Notify(order) ==
  LET notes == Without(order, claimed)
  IN /\ claimed' = claimed \cup Members(order)
     /\ IF \E t \in Members(notes) : WakeTarget(OwnerOf[t], endpoints) = Main
          THEN Pump(entries \o notes, endpoints, frames, turnActive)
          ELSE entries' = entries \o notes /\ UNCHANGED <<frames, turnActive>>

Running == {t \in Tasks : row[t] = "running"}

\* FAULT (used by a mutant): the row keeps the wire's spelling of a stop.
VerdictOnTheWire(S, v) ==
  row' = [t \in Tasks |-> IF t \in S \cap Running THEN (IF v = "stopped" THEN "killed" ELSE v) ELSE row[t]]

\* updateTask: the first terminal verdict is the last.
Verdict(S, v) == row' = [t \in Tasks |-> IF t \in S \cap Running THEN v ELSE row[t]]

\* The registry's rows of the set S in some order (it keeps the order they were registered in).
Orders(S) == {s \in [1..Cardinality(S) -> S] : Members(s) = S}

\* stopTask: kills the process the row knows, or stops the child; a process not yet spawned has no pid.
Killed(t) == IF work[t] = "live" THEN (IF t \in Agents THEN "winding" ELSE "gone") ELSE work[t]

StopWork(S) == work' = [t \in Tasks |-> IF t \in S THEN Killed(t) ELSE work[t]]

\* The rows of S that still run are finalized, then killed.
StopAll(S) ==
  \E order \in Orders(S \cap Running) :
    Verdict(S, "stopped") /\ Notify(order) /\ StopWork(S \cap Running)

-----------------------------------------------------------------------------
(* Tasks: a shell's process, an agent's child engine. *)

\* A turn of the main thread, or of the child that owns t, starts a task in the background.
StartTask(t) ==
  /\ row[t] = "none"
  /\ IF OwnerOf[t] = Main THEN loop = "turn" ELSE work[OwnerOf[t]] = "live"
  /\ row' = [row EXCEPT ![t] = "running"]
  /\ claimed' = claimed \ {t}
  /\ work' = [work EXCEPT ![t] = IF t \in Agents THEN "live" ELSE "spawning"]
  /\ endpoints' = IF t \in Agents THEN endpoints \cup {t} ELSE endpoints
  /\ UNCHANGED <<queueVars, inputVars, waitVars, turnVars, resultVars, aborted, used, dropped>>

\* FAULT (used by a mutant): a pid that arrives for a finished row is dropped, not killed.
SpawnedUnnoticed(t) ==
  /\ work[t] = "spawning"
  /\ IF row[t] = "running" THEN claimed' = claimed \ {t} ELSE UNCHANGED claimed
  /\ work' = [work EXCEPT ![t] = "live"]
  /\ UNCHANGED <<row, queueVars, endpoints, inputVars, waitVars, turnVars, resultVars, aborted, used, dropped>>

\* onSpawned: the row learns the pid, unless it is terminal already; then the process is killed here.
Spawned(t) ==
  /\ work[t] = "spawning"
  /\ IF row[t] = "running"
       THEN claimed' = claimed \ {t} /\ work' = [work EXCEPT ![t] = "live"]
       ELSE work' = [work EXCEPT ![t] = "gone"] /\ UNCHANGED claimed
  /\ UNCHANGED <<row, queueVars, endpoints, inputVars, waitVars, turnVars, resultVars, aborted, used, dropped>>

Exits(t) ==
  /\ t \in Shells /\ work[t] = "live"
  /\ work' = [work EXCEPT ![t] = "exited"]
  /\ UNCHANGED <<row, claimed, queueVars, endpoints, inputVars, waitVars, turnVars, resultVars,
                 aborted, used, dropped>>

\* The end of a run of the task reaches its row, if no one has finalized it before.
Report(t) ==
  IF row[t] = "running"
    THEN Verdict({t}, "completed") /\ Notify(<<t>>)
    ELSE UNCHANGED <<row, claimed, queueVars>>

\* runCommand settles: the process ended, or it could not be spawned.
ShellReports(t) ==
  /\ t \in Shells
  /\ \/ work[t] = "exited" /\ Report(t)
     \/ work[t] = "spawning" /\ Report(t)
  /\ work' = [work EXCEPT ![t] = "gone"]
  /\ UNCHANGED <<endpoints, inputVars, waitVars, turnVars, resultVars, aborted, used, dropped>>

\* The child's one turn is over: its generation settles and its engine starts to tear down.
ChildSettles(a) ==
  /\ a \in Agents /\ work[a] = "live"
  /\ Report(a)
  /\ work' = [work EXCEPT ![a] = "winding"]
  /\ UNCHANGED <<endpoints, inputVars, waitVars, turnVars, resultVars, aborted, used, dropped>>

\* These notices will not come again.
Use(taken) == used' = [t \in Tasks |-> IF t \in taken THEN used[t] + 1 ELSE used[t]]

\* A tool round of a child's turn takes the entries addressed to it.
ChildDrains(a) ==
  /\ a \in Agents /\ work[a] = "live"
  /\ Peek(entries, a, endpoints) # <<>>
  /\ LET taken == Members(Peek(entries, a, endpoints)) IN
       Use(taken) /\ entries' = Without(entries, taken)
  /\ UNCHANGED <<taskVars, frames, turnActive, endpoints, inputVars, waitVars, turnVars, resultVars, aborted,
                 dropped>>

\* FAULT (used by a mutant): the disposer withdraws the endpoint and wakes nobody.
DisposedSilently(a, es) ==
  endpoints' = endpoints \ {a} /\ entries' = es /\ UNCHANGED <<frames, turnActive>>

(***************************************************************************)
(* A child engine's teardown: it stops the shells the child started, then  *)
(* withdraws its endpoint; what is still addressed to the child is the     *)
(* main thread's from now on, and the main thread is woken for it.         *)
(***************************************************************************)
Disposed(a, es) ==
  /\ endpoints' = endpoints \ {a}
  /\ IF \E t \in Members(es) : OwnerOf[t] = a
       THEN Pump(es, endpoints \ {a}, frames, turnActive)
       ELSE entries' = es /\ UNCHANGED <<frames, turnActive>>

ChildTearsDown(a) ==
  /\ a \in Agents /\ work[a] = "winding"
  /\ LET mine == {t \in Running \ Agents : OwnerOf[t] = a} IN
     /\ Verdict(mine, "stopped")
     /\ claimed' = claimed \cup mine
     /\ work' = [t \in Tasks |-> IF t = a THEN "gone" ELSE IF t \in mine THEN Killed(t) ELSE work[t]]
     /\ \E order \in Orders(mine \ claimed) : Disposed(a, entries \o order)
  /\ UNCHANGED <<inputVars, waitVars, turnVars, resultVars, aborted, used, dropped>>

-----------------------------------------------------------------------------
(* The pump of host frames. *)

HostFrame ==
  /\ sent < Inputs /\ ~inputClosed
  /\ sent' = sent + 1 /\ frames' = Append(frames, sent + 1)
  /\ UNCHANGED <<taskVars, entries, turnActive, endpoints, inputClosed, hard, waitVars, turnVars,
                 resultVars, aborted, used, dropped>>

(***************************************************************************)
(* One iteration of runBackgroundWait, short of its sweep.  It ends        *)
(* userFrames when the session was aborted, or when no turn is claimed,    *)
(* nothing is queued and no task runs.                                     *)
(***************************************************************************)
WaitIteration ==
  /\ Pump(entries, endpoints, frames, turnActive)
  /\ IF aborted \/ (~turnActive' /\ ~Queued(entries', endpoints) /\ Running = {})
       THEN framesEnded' = TRUE
       ELSE UNCHANGED framesEnded

\* end_input, or the end of the input itself: requestInputEnd runs the wait's first iteration at once.
EndInput ==
  /\ ~inputClosed /\ inputClosed' = TRUE
  /\ WaitIteration
  /\ UNCHANGED <<taskVars, endpoints, sent, hard, swept, turnVars, resultVars, aborted, used, dropped>>

WaitPoll ==
  /\ Waiting /\ WaitIteration
  /\ UNCHANGED <<taskVars, endpoints, inputVars, swept, turnVars, resultVars, aborted, used, dropped>>

\* Nothing is queued, and either the ceiling passed with no turn running or only shells are left.
Armed ==
  /\ Running # {} /\ ~Queued(entries, endpoints)
  /\ (Ceiling /\ ~turnActive) \/ Running \cap Agents = {}

\* The wait's one sweep of everything that runs.
WaitSweep ==
  /\ Waiting /\ ~aborted /\ ~swept /\ Armed
  /\ swept' = TRUE
  /\ StopAll(Running)
  /\ UNCHANGED <<endpoints, inputVars, framesEnded, turnVars, resultVars, aborted, used, dropped>>

\* An interrupt strikes the running turn; with the input closed and no turn claimed, it ends the wait.
Interrupt ==
  /\ loop \notin {"reaping", "done"}
  /\ struck' = (struck \/ Interruptible)
  /\ aborted' = (aborted \/ (inputClosed /\ ~turnActive))
  /\ UNCHANGED <<taskVars, queueVars, endpoints, inputVars, waitVars, loop, cur, turns,
                 resultVars, used, dropped>>

\* The session's hard stop drops what waits to start a turn; the wait's first iteration then breaks.
HardStop ==
  /\ loop # "done" /\ ~hard
  /\ hard' = TRUE /\ aborted' = TRUE
  /\ frames' = <<>>
  /\ inputClosed' = TRUE
  /\ framesEnded' = (framesEnded \/ ~inputClosed)
  /\ struck' = (struck \/ Interruptible)
  /\ UNCHANGED <<taskVars, entries, turnActive, endpoints, sent, swept, loop, cur,
                 turns, resultVars, used, dropped>>

-----------------------------------------------------------------------------
(* The turn loop. *)

\* MCP startup and the SessionStart hook come between the pump's start and the first turn.
Startup ==
  /\ loop = "starting" /\ loop' = "idle"
  /\ UNCHANGED <<taskVars, queueVars, endpoints, inputVars, waitVars, cur, struck, turns,
                 resultVars, aborted, used, dropped>>

Take ==
  /\ loop = "idle" /\ frames # <<>>
  /\ cur' = Head(frames) /\ frames' = Tail(frames)
  /\ loop' = "taken"
  /\ UNCHANGED <<taskVars, entries, turnActive, endpoints, inputVars, waitVars, struck, turns,
                 resultVars, aborted, used, dropped>>

\* A frame taken before a hard stop starts no turn.
DropTaken ==
  /\ loop = "taken" /\ hard
  /\ loop' = "drained" /\ cur' = None
  /\ UNCHANGED <<taskVars, queueVars, endpoints, inputVars, waitVars, struck, turns,
                 resultVars, aborted, used, dropped>>

TurnBegins ==
  /\ loop = "taken" /\ ~hard
  /\ turnActive' = TRUE
  /\ turns' = turns + 1
  /\ aborted' = (aborted /\ cur \in Tasks)
  /\ loop' = IF cur \in Compacts THEN "compact" ELSE "prompt"
  /\ UNCHANGED <<taskVars, entries, frames, endpoints, inputVars, waitVars, cur, struck, resultVars,
                 used, dropped>>

\* The UserPromptSubmit hook has let the prompt pass: it enters the history and the transcript.
PromptPasses ==
  /\ loop = "prompt" /\ loop' = "turn"
  /\ Use({cur})
  /\ UNCHANGED <<taskVars, queueVars, endpoints, inputVars, waitVars, cur, struck, turns,
                 resultVars, aborted, dropped>>

\* A turn without a model writes its result itself, around writeTurnResult.
DirectResult ==
  /\ out' = Append(out, turns) /\ direct' = direct \cup {turns}
  /\ struck' = FALSE
  /\ loop' = "closing"
  /\ UNCHANGED <<taskVars, queueVars, endpoints, inputVars, waitVars, cur, turns, held, aborted>>

\* The hook blocks the prompt, a notice's like any other: the model never sees it.
PromptBlocked ==
  /\ loop = "prompt"
  /\ DirectResult
  /\ Use({cur})
  /\ dropped' = dropped \cup ({cur} \cap Tasks)

Compacted ==
  /\ loop = "compact"
  /\ DirectResult
  /\ UNCHANGED <<used, dropped>>

\* A tool round of the main thread's turn takes everything addressed to the main thread.
TurnDrains ==
  /\ loop = "turn" /\ Queued(entries, endpoints)
  /\ LET taken == Members(Peek(entries, Main, endpoints)) IN
       Use(taken) /\ entries' = Without(entries, taken)
  /\ UNCHANGED <<taskVars, frames, turnActive, endpoints, inputVars, waitVars, turnVars, resultVars, aborted,
                 dropped>>

TaskStop(t) ==
  /\ loop = "turn" /\ row[t] = "running"
  /\ StopAll({t})
  /\ UNCHANGED <<endpoints, inputVars, waitVars, turnVars, resultVars, aborted, used, dropped>>

HoldBack == inputClosed /\ (Running \cap Agents # {} \/ Queued(entries, endpoints))

\* FAULT (used by a mutant): a result that is not held overtakes the held ones.
ResultOvertakes ==
  /\ IF HoldBack
       THEN held' = Append(held, turns) /\ UNCHANGED out
       ELSE out' = Append(out, turns) \o held /\ held' = <<>>
  /\ UNCHANGED direct

WriteTurnResult ==
  /\ IF HoldBack
       THEN held' = Append(held, turns) /\ UNCHANGED out
       ELSE out' = Append(out \o held, turns) /\ held' = <<>>
  /\ UNCHANGED direct

\* The turn ends with its own result, or, when it was struck and has none, as interrupted.
TurnEnds ==
  /\ loop = "turn"
  /\ aborted' \in {aborted, aborted \/ struck}
  /\ WriteTurnResult
  /\ struck' = FALSE
  /\ loop' = "closing"
  /\ UNCHANGED <<taskVars, queueVars, endpoints, inputVars, waitVars, cur, turns, used, dropped>>

\* FAULT (used by a mutant): the built-in's exit leaves the turn claimed.
EndTurnKeepsClaim ==
  /\ loop = "closing" /\ loop' = "idle" /\ cur' = None
  /\ Pump(entries, endpoints, frames, cur \in Compacts)
  /\ UNCHANGED <<taskVars, endpoints, inputVars, waitVars, struck, turns, resultVars, aborted, used, dropped>>

\* After the store is flushed the claim is released and the next notice may take it.
EndTurn ==
  /\ loop = "closing" /\ loop' = "idle" /\ cur' = None
  /\ Pump(entries, endpoints, frames, FALSE)
  /\ UNCHANGED <<taskVars, endpoints, inputVars, waitVars, struck, turns, resultVars, aborted, used, dropped>>

Drained ==
  /\ loop = "idle" /\ frames = <<>> /\ framesEnded
  /\ loop' = "drained"
  /\ UNCHANGED <<taskVars, queueVars, endpoints, inputVars, waitVars, cur, struck, turns,
                 resultVars, aborted, used, dropped>>

\* Held results go out; an aborted session stops its background children first.
FlushHeld ==
  /\ loop = "drained" /\ loop' = "flushed"
  /\ IF held # <<>> /\ aborted
       THEN StopAll(Running \cap Agents)
       ELSE UNCHANGED <<taskVars, queueVars>>
  /\ out' = out \o held /\ held' = <<>> /\ UNCHANGED direct
  /\ UNCHANGED <<endpoints, inputVars, waitVars, cur, struck, turns, aborted, used, dropped>>

StopChildren ==
  /\ loop = "flushed" /\ loop' = "reaping"
  /\ StopAll(Running \cap Agents)
  /\ UNCHANGED <<endpoints, inputVars, waitVars, cur, struck, turns, resultVars, aborted, used, dropped>>

\* With every child's generation done: the session's shells die, and the queue is dropped.
Finish ==
  /\ loop = "reaping" /\ \A a \in Agents : work[a] \in {"none", "gone"}
  /\ loop' = "done"
  /\ Verdict(Shells, "stopped") /\ StopWork(Shells \cap Running)
  /\ claimed' = claimed \cup (Shells \cap Running)
  /\ entries' = <<>>
  /\ UNCHANGED <<frames, turnActive, endpoints, inputVars, waitVars, cur, struck, turns,
                 resultVars, aborted, used, dropped>>

-----------------------------------------------------------------------------

TaskStep == \E t \in Tasks :
  StartTask(t) \/ Spawned(t) \/ Exits(t) \/ ShellReports(t) \/ ChildSettles(t) \/ ChildDrains(t)
    \/ ChildTearsDown(t) \/ TaskStop(t)

HostStep == HostFrame \/ EndInput \/ Interrupt \/ HardStop

LoopStep ==
  \/ Startup \/ Take \/ DropTaken \/ TurnBegins \/ PromptPasses \/ PromptBlocked \/ Compacted \/ TurnDrains
  \/ TurnEnds \/ EndTurn \/ Drained \/ FlushHeld \/ StopChildren \/ Finish

SessionNext == TaskStep \/ HostStep \/ LoopStep \/ WaitPoll \/ WaitSweep

SessionSpec == SessionInit /\ [][SessionNext]_loopVars

(***************************************************************************)
(* Fairness of the code's own steps: the event loop runs what is ready,    *)
(* model turns and hooks end, timers fire, a stopped child's engine tears  *)
(* down, and a spawn settles.  No shell has to exit by itself.             *)
(***************************************************************************)
CodeFairness ==
  /\ WF_loopVars(Startup \/ Take \/ DropTaken \/ TurnBegins)
  /\ WF_loopVars(PromptPasses \/ PromptBlocked \/ Compacted)
  /\ WF_loopVars(TurnEnds) /\ WF_loopVars(EndTurn)
  /\ WF_loopVars(Drained \/ FlushHeld \/ StopChildren \/ Finish)
  /\ WF_loopVars(WaitPoll) /\ WF_loopVars(WaitSweep)
  /\ \A t \in Tasks : WF_loopVars(Spawned(t) \/ (work[t] # "live" /\ ShellReports(t)))
  /\ \A a \in Agents : WF_loopVars(ChildTearsDown(a))

SessionFairSpec == SessionSpec /\ CodeFairness

\* Fairness of the tasks too: shells exit and children finish.
TaskFairness == \A t \in Tasks : WF_loopVars(Exits(t)) /\ WF_loopVars(ShellReports(t)) /\ WF_loopVars(ChildSettles(t))

SessionTasksEndSpec == SessionFairSpec /\ TaskFairness

-----------------------------------------------------------------------------
(* Properties. *)

StageOf(t) ==
  CASE row[t] = "none"    -> "unborn"
    [] row[t] = "running" -> "running"
    [] OTHER -> IF used[t] > 0 THEN (IF t \in dropped THEN "refused" ELSE "told")
                ELSE IF t \in Members(entries) \cup Members(frames) \cup {cur} THEN "owed"
                ELSE "lapsed"

Notice == INSTANCE TaskNotice WITH stage <- [t \in Tasks |-> StageOf(t)], leaving <- framesEnded \/ hard

(***************************************************************************)
(* The session implements the promise of TaskNotice: a finished task's     *)
(* notice is given to a model at most once, never lost on the way between  *)
(* the queue, a child's endpoint, userFrames, the prompt's hook and a turn *)
(* unless that hook refuses it, and it lapses only once the session takes  *)
(* no more turns.                                                          *)
(***************************************************************************)
NoticeSpec == Notice!NoticeSpec

(***************************************************************************)
(* A notice reaches a model once, whatever races the row's finalizers: the *)
(* exit handler, TaskStop, the sweep, a child's teardown, a late pid.      *)
(***************************************************************************)
ToldOnce == \A t \in Tasks : used[t] <= 1 /\ Cardinality({i \in DOMAIN entries : entries[i] = t}) <= 1

(***************************************************************************)
(* No operating-system process outlives its verdict, a process spawned     *)
(* after its task was stopped included, and a finished session leaves no   *)
(* task running.                                                           *)
(***************************************************************************)
NoProcessOutlives ==
  /\ \A s \in Shells : row[s] \in Terminal => work[s] # "live"
  /\ loop = "done" => Running = {} /\ \A a \in Agents : work[a] \in {"none", "gone"}

(***************************************************************************)
(* Nothing addressed to the main thread waits while no turn is claimed: an *)
(* entry queued by a child's teardown, or left behind by a child, wakes it *)
(***************************************************************************)
NothingStranded == ~turnActive /\ ~framesEnded /\ ~hard => ~Queued(entries, endpoints)

(***************************************************************************)
(* Every turn gets exactly one result: it is written or held once, and a   *)
(* session that is done holds none back.                                   *)
(***************************************************************************)
OneResultPerTurn ==
  LET all == held \o out
      due == IF loop \in {"prompt", "turn", "compact"} THEN 1..(turns - 1) ELSE 1..turns
  IN /\ Members(all) = due /\ Len(all) = Cardinality(due)
     /\ loop = "done" => held = <<>>

(***************************************************************************)
(* Results reach the host in the order of their turns, but for those that  *)
(* go around writeTurnResult: the result of /compact or of a blocked       *)
(* prompt is written ahead of the earlier results that are held.  No other *)
(* result ever overtakes one.                                              *)
(***************************************************************************)
DoorKeepsOrder ==
  LET s == out \o held
  IN \A i, j \in DOMAIN s : i < j /\ s[j] < s[i] => s[i] \in direct

(***************************************************************************)
(* Once its input is closed, a session whose background tasks end by       *)
(* themselves comes to its end.                                            *)
(***************************************************************************)
ClosedInputEnds == inputClosed ~> loop = "done"

(***************************************************************************)
(* Notices are kept: none is told twice, none is left behind where nobody  *)
(* will look for it.                                                       *)
(***************************************************************************)
NoticesKept == ToldOnce /\ NothingStranded

(***************************************************************************)
(* Results are kept: one per turn, held or written, and overtaken only by  *)
(* those that go around writeTurnResult.                                   *)
(***************************************************************************)
ResultsKept == OneResultPerTurn /\ DoorKeepsOrder

=============================================================================
