----------------------------- MODULE ChildHandle -----------------------------
(***************************************************************************)
(* The handles of a session's child agents: spawn, the generations a       *)
(* handle runs, stop, and resume (packages/runtime/src/subagents/          *)
(* child-engine.ts), with what they share: the concurrency slots           *)
(* (limits.ts), the MCP server names children claim, and the notification  *)
(* endpoints (notification-queue.ts).                                      *)
(*                                                                         *)
(* A generation is one run of the child's engine.  A handle's status turns *)
(* terminal when its generation settles, while the engine is still being   *)
(* torn down; a resume may start the next generation before the teardown   *)
(* of the last one is over.  An action is the code between two awaits.     *)
(***************************************************************************)
EXTENDS Naturals, FiniteSets

CONSTANTS
  Kids,        \* the children
  Declaring,   \* those whose definition declares an MCP server of its own
  MaxRunning,  \* MAX_CONCURRENT_SUBAGENTS
  MaxGen,      \* bound: generations of any child
  GensOf,      \* bound: generations of each child
  MaxAsks      \* bound: host requests of a generation outstanding at once

ASSUME BoundsAssumption ==
  IsFiniteSet(Kids) /\ Declaring \subseteq Kids /\ MaxRunning \in Nat \ {0} /\ MaxGen \in Nat \ {0} /\ GensOf \in [Kids -> 1..MaxGen] /\ MaxAsks \in Nat

VARIABLES
  status,    \* record.status of each child; "none" before its spawn
  gen,       \* how many generations each child has started
  engine,    \* each generation's runEngine
  settled,   \* the generations whose settle has run
  phase,     \* where a spawn or a resume is
  ticket,    \* the pending resume's ticket: how it was cancelled
  prior,     \* the pending resume's previousStatus
  slots,     \* depthById's children
  running,   \* runningCount
  liveNames, \* liveChildScopedServerNames
  claim,     \* the server name each generation claimed
  endpoint,  \* the generation each child's notification endpoint belongs to
  asks,      \* forwardedHostRequestIds of the current generation
  withdrawn, \* those of them the child no longer waits for: gone from its own bridge's pending
  paused,    \* the stall watchdog's pausedDepth
  answer,    \* the generation that resolved result(), or 0
  reported   \* history: the generations whose end the parent was notified of

childVars == <<status, gen, engine, settled, phase, ticket, prior, slots, running, liveNames, claim,
               endpoint, asks, withdrawn, paused, answer, reported>>

genVars    == <<gen, engine, claim, liveNames, endpoint>>
ticketVars == <<ticket, prior>>
slotVars   == <<slots, running>>
askVars    == <<asks, withdrawn, paused>>
resultVars == <<answer, reported>>

Gens     == 1..MaxGen
Ended    == {"completed", "failed", "stopped"}
Resuming == {"resolving", "reading", "recording", "waiting", "undoing"}

\* The declared name is 1; the others are its numbered alternatives.
Names == 1..(Cardinality(Kids) * MaxGen)

ChildTypeOK ==
  /\ status \in [Kids -> {"none", "running"} \cup Ended]
  /\ gen \in [Kids -> 0..MaxGen]
  /\ engine \in [Kids -> [Gens -> {"none", "refused", "busy", "replied", "gone"}]]
  /\ settled \in [Kids -> SUBSET Gens]
  /\ phase \in [Kids -> {"none", "spawning"} \cup Resuming]
  /\ ticket \in [Kids -> SUBSET {"stopped", "changed"}]
  /\ prior \in [Kids -> {"none"} \cup Ended]
  /\ slots \subseteq Kids /\ running \in 0..MaxRunning
  /\ liveNames \subseteq Names /\ claim \in [Kids -> [Gens -> Names \cup {0}]]
  /\ endpoint \in [Kids -> 0..MaxGen]
  /\ asks \in [Kids -> 0..MaxAsks] /\ withdrawn \in [Kids -> 0..MaxAsks] /\ paused \in [Kids -> 0..MaxAsks]
  /\ answer \in [Kids -> 0..MaxGen] /\ reported \in [Kids -> SUBSET Gens]

\* A generation that has started and not settled: the one a stop or a stall would settle.
Unsettled(c) == gen[c] > 0 /\ gen[c] \notin settled[c]

----------------------------------------------------------------------------
(* The concurrency slots. *)

\* FAULT (used by a mutant): the limit is compared off by one.
CanRegisterLate == running <= MaxRunning

CanRegister == running < MaxRunning

Register(c) == slots' = slots \cup {c} /\ running' = running + 1

ReleaseSpawn(c) ==
  /\ slots' = slots \ {c}
  /\ running' = (IF c \in slots THEN running - 1 ELSE running)

----------------------------------------------------------------------------
(* Server names. *)

Free(n) == n \notin liveNames

FirstFree == CHOOSE n \in Names : Free(n) /\ \A m \in Names : Free(m) => n <= m

\* The name the child's last generation had if it is free, else the first free one; 0 is none.
Allocate(c) ==
  LET last == IF gen[c] > 0 THEN claim[c][gen[c]] ELSE 1
  IN IF c \notin Declaring THEN 0 ELSE IF Free(last) THEN last ELSE FirstFree

----------------------------------------------------------------------------
(* Generations. *)

(***************************************************************************)
(* startGeneration: the name is claimed and runEngine runs up to its first *)
(* await.  It registers the endpoint on the way, unless the startup        *)
(* validation refuses the configuration before that.                       *)
(***************************************************************************)
StartGeneration(c) ==
  LET g == gen[c] + 1
      n == Allocate(c)
  IN /\ gen' = [gen EXCEPT ![c] = g]
     /\ claim' = [claim EXCEPT ![c][g] = n]
     /\ liveNames' = liveNames \cup ({n} \ {0})
     /\ \/ /\ engine' = [engine EXCEPT ![c][g] = "busy"]
           /\ endpoint' = [endpoint EXCEPT ![c] = g]
        \/ /\ engine' = [engine EXCEPT ![c][g] = "refused"]
           /\ UNCHANGED endpoint

(***************************************************************************)
(* settle of the current generation, at most once: the status, the slot,   *)
(* the forwarded requests, the stall clock, and the handle's one result.   *)
(***************************************************************************)
Settle(c, end) ==
  /\ Unsettled(c)
  /\ settled' = [settled EXCEPT ![c] = @ \cup {gen[c]}]
  /\ status' = [status EXCEPT ![c] = end]
  /\ ReleaseSpawn(c)
  /\ asks' = [asks EXCEPT ![c] = 0] /\ withdrawn' = [withdrawn EXCEPT ![c] = 0]
  /\ paused' = [paused EXCEPT ![c] = 0]
  /\ answer' = [answer EXCEPT ![c] = IF @ = 0 THEN gen[c] ELSE @]

\* The child's engine writes its result frame.
EngineReplies(c) ==
  /\ Unsettled(c)
  /\ engine[c][gen[c]] = "busy"
  /\ engine' = [engine EXCEPT ![c][gen[c]] = "replied"]
  /\ UNCHANGED <<status, gen, settled, phase, ticketVars, slotVars, liveNames, claim, endpoint, askVars, resultVars>>

\* The read loop observes the result frame; "completed" stands for an error result too.
Observe(c) ==
  /\ Settle(c, "completed")
  /\ engine[c][gen[c]] = "replied"
  /\ UNCHANGED <<genVars, phase, ticketVars, reported>>

\* The stall watchdog fires: its timer runs only while no host request is outstanding.
Stall(c) ==
  /\ paused[c] = 0
  /\ Settle(c, "failed")
  /\ UNCHANGED <<genVars, phase, ticketVars, reported>>

\* FAULT (used by a mutant): the clock is paused before the request is known to have been forwarded.
AskPausesFirst(c) ==
  /\ Unsettled(c) /\ engine[c][gen[c]] = "busy" /\ paused[c] < MaxAsks
  /\ paused' = [paused EXCEPT ![c] = @ + 1]
  /\ \E forwarded \in BOOLEAN : asks' = [asks EXCEPT ![c] = IF forwarded THEN @ + 1 ELSE @]
  /\ UNCHANGED <<status, genVars, settled, phase, ticketVars, slotVars, withdrawn, resultVars>>

(***************************************************************************)
(* The child asks its host something.  The read loop forwards the request, *)
(* and only a request that was forwarded is claimed and pauses the clock.  *)
(***************************************************************************)
Ask(c) ==
  /\ Unsettled(c) /\ engine[c][gen[c]] = "busy" /\ asks[c] < MaxAsks
  /\ \E forwarded \in BOOLEAN :
       /\ asks' = [asks EXCEPT ![c] = IF forwarded THEN @ + 1 ELSE @]
       /\ paused' = [paused EXCEPT ![c] = IF forwarded THEN @ + 1 ELSE @]
  /\ UNCHANGED <<status, genVars, settled, phase, ticketVars, slotVars, withdrawn, resultVars>>

\* The child waits for an answer of its host.
Waits(c) == asks[c] > withdrawn[c]

(***************************************************************************)
(* The child's bridge gives a request up: it timed out, or its signal was  *)
(* aborted and a cancel frame tells the host.  The read loop forwards that *)
(* frame like any other; the id stays claimed and the clock paused.        *)
(***************************************************************************)
Withdraw(c) ==
  /\ Unsettled(c) /\ engine[c][gen[c]] \in {"busy", "replied"} /\ Waits(c)
  /\ withdrawn' = [withdrawn EXCEPT ![c] = @ + 1]
  /\ UNCHANGED <<status, genVars, settled, phase, ticketVars, slotVars, asks, paused, resultVars>>

\* The host's answer, claimed by the child that forwarded the request, whether it still waits or not.
HostAnswers(c) ==
  /\ asks[c] > 0
  /\ \/ Waits(c) /\ UNCHANGED withdrawn
     \/ withdrawn[c] > 0 /\ withdrawn' = [withdrawn EXCEPT ![c] = @ - 1]
  /\ asks' = [asks EXCEPT ![c] = @ - 1]
  /\ paused' = [paused EXCEPT ![c] = IF @ > 0 THEN @ - 1 ELSE 0]
  /\ UNCHANGED <<status, genVars, settled, phase, ticketVars, slotVars, resultVars>>

Up(c, g) == engine[c][g] \in {"refused", "busy", "replied"}

Gone(c, g) ==
  /\ Up(c, g)
  /\ engine' = [engine EXCEPT ![c][g] = "gone"]
  /\ liveNames' = liveNames \ {claim[c][g]}

\* FAULT (used by a mutant): the endpoint is disposed by key, whichever generation owns it.
DisposeByKey(c, g) == endpoint' = [endpoint EXCEPT ![c] = 0]

\* The disposer of registerEndpoint: a later generation under the same key keeps it.
DisposeEndpoint(c, g) == endpoint' = [endpoint EXCEPT ![c] = IF @ = g THEN 0 ELSE @]

\* A settled generation's engine, interrupted and out of input, is torn down and returns.
EngineReturns(c, g) ==
  /\ g \in settled[c]
  /\ Gone(c, g)
  /\ DisposeEndpoint(c, g)
  /\ UNCHANGED <<status, gen, claim, settled, phase, ticketVars, slotVars, askVars, resultVars>>

(***************************************************************************)
(* runEngine rejects: its startup validation, or an error that escapes its *)
(* body and with it the disposal of the endpoint.                          *)
(***************************************************************************)
EngineThrows(c, g) ==
  /\ Gone(c, g)
  /\ IF g \in settled[c]
     THEN UNCHANGED <<status, settled, slotVars, askVars, answer>>
     ELSE Settle(c, "failed")
  /\ UNCHANGED <<gen, claim, endpoint, phase, ticketVars, reported>>

\* finishBackgroundAgentTaskLater: the parent hears of the handle's result and ends the task.
ParentHears(c) ==
  /\ answer[c] # 0 /\ reported[c] = {}
  /\ reported' = [reported EXCEPT ![c] = {answer[c]}]
  /\ UNCHANGED <<status, genVars, settled, phase, ticketVars, slotVars, askVars, answer>>

----------------------------------------------------------------------------
(* Spawn. *)

\* The limits are checked, and the slot taken, before anything is awaited.
SpawnBegins(c) ==
  /\ status[c] = "none" /\ phase[c] = "none"
  /\ CanRegister
  /\ Register(c)
  /\ phase' = [phase EXCEPT ![c] = "spawning"]
  /\ UNCHANGED <<status, genVars, settled, ticketVars, askVars, resultVars>>

SpawnStarts(c) ==
  /\ phase[c] = "spawning"
  /\ StartGeneration(c)
  /\ status' = [status EXCEPT ![c] = "running"]
  /\ phase' = [phase EXCEPT ![c] = "none"]
  /\ UNCHANGED <<settled, ticketVars, slotVars, askVars, resultVars>>

\* Resolving the model or the provider, or making the workspace, fails.
SpawnFails(c) ==
  /\ phase[c] = "spawning"
  /\ ReleaseSpawn(c)
  /\ phase' = [phase EXCEPT ![c] = "none"]
  /\ UNCHANGED <<status, genVars, settled, ticketVars, askVars, resultVars>>

----------------------------------------------------------------------------
(* Stop and resume. *)

\* stop(): a pending resume is cancelled; else the current generation, if any, is settled.
Stop(c) ==
  \/ /\ phase[c] \in Resuming
     /\ ticket' = [ticket EXCEPT ![c] = @ \cup {"stopped"}]
     /\ status' = [status EXCEPT ![c] = "stopped"]
     /\ UNCHANGED <<genVars, settled, phase, prior, slotVars, askVars, resultVars>>
  \/ /\ phase[c] = "none" /\ status[c] = "running"
     /\ Settle(c, "stopped")
     /\ UNCHANGED <<genVars, phase, ticketVars, reported>>

\* cancelPendingResume(); once the resume is being undone its ticket is not read again.
ChangeContext(c) ==
  /\ phase[c] \in Resuming \ {"undoing"}
  /\ ticket' = [ticket EXCEPT ![c] = @ \cup {"changed"}]
  /\ UNCHANGED <<status, genVars, settled, phase, prior, slotVars, askVars, resultVars>>

ResumeBegins(c) ==
  /\ phase[c] = "none" /\ status[c] \in Ended /\ gen[c] < GensOf[c]
  /\ phase' = [phase EXCEPT ![c] = "resolving"]
  /\ prior' = [prior EXCEPT ![c] = status[c]]
  /\ UNCHANGED <<status, genVars, settled, ticket, slotVars, askVars, resultVars>>

\* The resume is over; its ticket goes with it.
Finished(c) ==
  /\ phase' = [phase EXCEPT ![c] = "none"]
  /\ ticket' = [ticket EXCEPT ![c] = {}]
  /\ prior' = [prior EXCEPT ![c] = "none"]

\* The resume's way out before it has marked the child running: its slot, if any, is released.
Refuse(c) ==
  /\ ReleaseSpawn(c)
  /\ Finished(c)
  /\ UNCHANGED <<status, genVars, settled, askVars, resultVars>>

\* The status a child marked running for a resume goes back to.
UndoneStatus(c) == IF ticket[c] = {"changed"} THEN prior[c] ELSE "stopped"

\* FAULT (used by a mutant): the slot of a resume that was marked running is not given back.
UndoKeepsSlot(c) ==
  /\ UNCHANGED slotVars
  /\ IF status[c] = "running"
     THEN /\ status' = [status EXCEPT ![c] = UndoneStatus(c)]
          /\ phase' = [phase EXCEPT ![c] = "undoing"]
          /\ UNCHANGED ticketVars
     ELSE Finished(c) /\ UNCHANGED status
  /\ UNCHANGED <<genVars, settled, askVars, resultVars>>

\* Its way out after that: the status is put back, unless a stop has already ended it, and recorded.
Undo(c) ==
  /\ ReleaseSpawn(c)
  /\ IF status[c] = "running"
     THEN /\ status' = [status EXCEPT ![c] = UndoneStatus(c)]
          /\ phase' = [phase EXCEPT ![c] = "undoing"]
          /\ UNCHANGED ticketVars
     ELSE Finished(c) /\ UNCHANGED status
  /\ UNCHANGED <<genVars, settled, askVars, resultVars>>

Undone(c) ==
  /\ phase[c] = "undoing"
  /\ Finished(c)
  /\ UNCHANGED <<status, genVars, settled, slotVars, askVars, resultVars>>

\* The provider has been resolved again, or has not; the slot is taken before anything is read.
ResumeResolved(c) ==
  /\ phase[c] = "resolving"
  /\ \/ Refuse(c)
     \/ /\ ticket[c] = {} /\ CanRegister
        /\ Register(c)
        /\ phase' = [phase EXCEPT ![c] = "reading"]
        /\ UNCHANGED <<status, genVars, settled, ticketVars, askVars, resultVars>>

\* The transcript has been read back, or is missing; the child is marked running and recorded so.
ResumeRead(c) ==
  /\ phase[c] = "reading"
  /\ \/ Refuse(c)
     \/ /\ ticket[c] = {}
        /\ status' = [status EXCEPT ![c] = "running"]
        /\ phase' = [phase EXCEPT ![c] = "recording"]
        /\ UNCHANGED <<genVars, settled, ticketVars, slotVars, askVars, resultVars>>

\* The metadata has been written, or the write was rejected.
ResumeRecorded(c) ==
  /\ phase[c] = "recording"
  /\ \/ Undo(c)
     \/ /\ phase' = [phase EXCEPT ![c] = "waiting"]
        /\ UNCHANGED <<status, genVars, settled, ticketVars, slotVars, askVars, resultVars>>

\* FAULT (used by a mutant): the wait for the last generation's teardown has no bound.
WaitUnbounded(c) == gen[c] = 0 \/ engine[c][gen[c]] = "gone"

\* The wait for the last generation's teardown is over: it has returned, or 5 s have passed.
WaitOver(c) == TRUE

\* FAULT (used by a mutant): a stop during the last wait is not looked at again.
WaitedUnchecked(c) ==
  /\ phase[c] = "waiting" /\ WaitOver(c)
  /\ StartGeneration(c)
  /\ Finished(c)
  /\ UNCHANGED <<status, settled, slotVars, askVars, resultVars>>

ResumeWaited(c) ==
  /\ phase[c] = "waiting" /\ WaitOver(c)
  /\ \/ ticket[c] # {} /\ Undo(c)
     \/ /\ ticket[c] = {}
        /\ StartGeneration(c)
        /\ Finished(c)
        /\ UNCHANGED <<status, settled, slotVars, askVars, resultVars>>

----------------------------------------------------------------------------
\* Nothing runs, and every child has the given status.
Quiet(initial) ==
  /\ status = [c \in Kids |-> initial] /\ gen = [c \in Kids |-> 0]
  /\ engine = [c \in Kids |-> [g \in Gens |-> "none"]]
  /\ settled = [c \in Kids |-> {}]
  /\ phase = [c \in Kids |-> "none"]
  /\ ticket = [c \in Kids |-> {}] /\ prior = [c \in Kids |-> "none"]
  /\ slots = {} /\ running = 0
  /\ liveNames = {} /\ claim = [c \in Kids |-> [g \in Gens |-> 0]]
  /\ endpoint = [c \in Kids |-> 0]
  /\ asks = [c \in Kids |-> 0] /\ withdrawn = [c \in Kids |-> 0] /\ paused = [c \in Kids |-> 0]
  /\ answer = [c \in Kids |-> 0] /\ reported = [c \in Kids |-> {}]

ChildInit == Quiet("none")

ResumeStep(c) == ResumeResolved(c) \/ ResumeRead(c) \/ ResumeRecorded(c) \/ ResumeWaited(c) \/ Undone(c)

EngineStep(c) ==
  \/ EngineReplies(c) \/ Observe(c) \/ Stall(c) \/ Ask(c) \/ Withdraw(c) \/ HostAnswers(c)
  \/ ParentHears(c)
  \/ \E g \in Gens : EngineReturns(c, g) \/ EngineThrows(c, g)

ChildNext ==
  \E c \in Kids :
    \/ SpawnBegins(c) \/ SpawnStarts(c) \/ SpawnFails(c)
    \/ Stop(c) \/ ChangeContext(c) \/ ResumeBegins(c)
    \/ ResumeStep(c) \/ EngineStep(c)

ChildSpec == ChildInit /\ [][ChildNext]_childVars

(***************************************************************************)
(* The store, the resolver and the timers answer; a result frame is read   *)
(* and reported.  Nothing is assumed of the host, which may never answer,  *)
(* nor of an engine's teardown.  Of a child's frames only its results and  *)
(* requests are modelled: one that sends neither is one that makes no      *)
(* progress, and its stall timer runs out.  (Other frames restart that     *)
(* timer; a child that sends them for ever is not stalled.)                *)
(***************************************************************************)
ChildFairSpec ==
  ChildSpec /\ \A c \in Kids : WF_childVars(ResumeStep(c)) /\ WF_childVars(Observe(c) \/ Stall(c)) /\ WF_childVars(ParentHears(c))

----------------------------------------------------------------------------
(* Properties. *)

(***************************************************************************)
(* The slots are those of the children being spawned, running, or far      *)
(* enough into a resume, and the counter counts them: whatever fails or is *)
(* cancelled on the way, no slot is lost and none is given out twice.      *)
(***************************************************************************)
SlotsAccounted ==
  /\ slots = {c \in Kids : phase[c] \in {"spawning", "reading", "recording", "waiting"} \/ Unsettled(c)}
  /\ running = Cardinality(slots)

(***************************************************************************)
(* No two engines that are still up have the same server name, and a name  *)
(* is in use exactly while such an engine has it; also while a generation  *)
(* starts before the teardown of the last one is over.                     *)
(***************************************************************************)
NamesExclusive ==
  /\ \A c, d \in Declaring, g, h \in Gens : Up(c, g) /\ Up(d, h) /\ claim[c][g] = claim[d][h] => c = d /\ g = h
  /\ liveNames = {n \in Names : \E c \in Declaring, g \in Gens : Up(c, g) /\ claim[c][g] = n}

(***************************************************************************)
(* A running engine hears its notifications: the teardown of an earlier    *)
(* generation, however late, does not take its endpoint away.              *)
(***************************************************************************)
LiveEngineHeard ==
  \A c \in Kids : gen[c] > 0 /\ engine[c][gen[c]] \in {"busy", "replied"} => endpoint[c] = gen[c]

(***************************************************************************)
(* A stop that meets a resume holds: the child stays stopped and no        *)
(* generation starts, whichever of the resume's awaits the stop fell in.   *)
(***************************************************************************)
StopHolds ==
  [][\A c \in Kids : phase[c] \in Resuming /\ "stopped" \in ticket[c] => status'[c] = "stopped" /\ gen'[c] = gen[c]]_childVars

(***************************************************************************)
(* A resume that only a change of context cancels leaves the child's       *)
(* outcome as it was, although the resume had already marked it running.   *)
(***************************************************************************)
OutcomeKept ==
  [][\A c \in Kids :
       phase[c] \in Resuming /\ phase'[c] = "none" /\ ticket[c] = {"changed"} => status'[c] = prior[c]]_childVars

(***************************************************************************)
(* A resume ends, started or refused, even if the teardown of the last     *)
(* generation never does.                                                  *)
(***************************************************************************)
ResumesEnd == \A c \in Kids : phase[c] \in Resuming ~> phase[c] = "none"

(***************************************************************************)
(* A generation that makes no progress is failed by the stall watchdog,    *)
(* unless it waits for its host, or has given up a request that its host   *)
(* has not answered.  The second is more than the code's comment grants    *)
(* (pause while "a child waiting on a human"): the clock of a child whose  *)
(* request timed out or was cancelled stays paused until a late answer.    *)
(***************************************************************************)
StalledFails == \A c \in Kids : Unsettled(c) ~> ~Unsettled(c) \/ Waits(c) \/ withdrawn[c] > 0

(***************************************************************************)
(* What children share, the slots of the concurrency limit and the server  *)
(* names, is taken and given back in step with their generations.          *)
(***************************************************************************)
ClaimsAccounted == SlotsAccounted /\ NamesExclusive

(***************************************************************************)
(* A cancelled resume leaves the child as what cancelled it demands:       *)
(* stopped after a stop, as it was after a change of context.              *)
(***************************************************************************)
CancelledResumeStands == StopHolds /\ OutcomeKept

=============================================================================
