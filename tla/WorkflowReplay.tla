--------------------------- MODULE WorkflowReplay ---------------------------
(***************************************************************************)
(* Resuming a stopped workflow run from its journal                        *)
(* (packages/runtime/src/workflows/journal.ts, the agent() of script-api.ts*)
(* and the `resumed`, `agent` and resume paths of runtime.ts).             *)
(*                                                                         *)
(* A script is the sequence of prompt keys its agent() calls have.  The    *)
(* worker replays the longest prefix whose keys match the journal of the   *)
(* run it resumes, and sends the rest to the parent, which journals each   *)
(* successful result when it arrives.  Each live success is a value of its *)
(* own, so that the model can tell where a replayed value came from.       *)
(*                                                                         *)
(* The chain is linear: a resume always continues the latest run.          *)
(***************************************************************************)
EXTENDS Naturals, Sequences, FiniteSets

CONSTANTS
  Keys,     \* prompt keys: promptKey(prompt, opts)
  Scripts,  \* the sources a run may be given, each the sequence of its calls' keys
  MaxRuns   \* bound on the length of the chain of resumes

ASSUME ReplayAssumption ==
  /\ Scripts \subseteq Seq(Keys) /\ Scripts # {}
  /\ MaxRuns \in Nat \ {0}

VARIABLES
  script,     \* the source of the current run
  run,        \* its number in the chain
  phase,      \* "live", "stopped" or "over"
  seed,       \* the journal it was seeded with
  journal,    \* its own journal on disk
  issued,     \* state.callIndex
  diverged,   \* the latch of the replay
  served,     \* history: the calls answered from the cache
  answer,     \* what each call resolved to
  pipe,       \* worker frames not yet handled by the parent
  inService,  \* calls whose child agent runs
  prior       \* history: the script and the answers of the run that was resumed

replayVars == <<script, run, phase, seed, journal, issued, diverged, served,
                answer, pipe, inService, prior>>

\* A call has no answer yet, or failed: agent() resolves to null.
Pending == <<>>
Null == <<0>>

Values == (1..MaxRuns) \X Nat

Entries == [key : Keys, value : Values]

Frames == [op : {"resumed", "agent", "done"}, n : Nat]

ReplayTypeOK ==
  /\ script \in Scripts /\ run \in 1..MaxRuns /\ phase \in {"live", "stopped", "over"}
  /\ seed \in Seq(Entries) /\ journal \in Seq(Entries)
  /\ issued \in 0..Len(script)
  /\ diverged \in BOOLEAN
  /\ served \subseteq 1..issued /\ inService \subseteq 1..issued
  /\ answer \in [1..Len(script) -> Values \cup {Pending, Null}]
  /\ pipe \in Seq(Frames)
  /\ prior.script \in Scripts \cup {<<>>}

ReplayInit ==
  /\ script \in Scripts
  /\ run = 1 /\ phase = "live"
  /\ seed = <<>> /\ journal = <<>> /\ pipe = <<>>
  /\ issued = 0 /\ diverged = FALSE
  /\ served = {} /\ inService = {}
  /\ answer = [i \in 1..Len(script) |-> Pending]
  /\ prior = [script |-> <<>>, answer |-> <<>>]

---------------------------------------------------------------------------
Call == issued + 1

Frame(op, n) == [op |-> op, n |-> n]

\* FAULT (used by a mutant): a later match is served although an earlier call changed.
CachedHereUnlatched == Call \in 1..Len(seed) /\ seed[Call].key = script[Call]

\* FAULT (used by a mutant): the cache is positional only.
CachedHereByPosition == ~diverged /\ Call \in 1..Len(seed)

\* The journal's entry at this position, while no call has diverged, with this key.
CachedHere == ~diverged /\ Call \in 1..Len(seed) /\ seed[Call].key = script[Call]

\* agent(): a cached call short-circuits in the worker.
AgentCached ==
  /\ phase = "live" /\ issued < Len(script)
  /\ CachedHere
  /\ issued' = Call
  /\ answer' = [answer EXCEPT ![Call] = seed[Call].value]
  /\ served' = served \cup {Call}
  /\ UNCHANGED <<script, run, phase, seed, journal, diverged, pipe, inService, prior>>

\* FAULT (used by a mutant): the prefix is reported after the first live request.
AgentLiveReportsLate ==
  /\ phase = "live" /\ issued < Len(script)
  /\ ~CachedHere
  /\ issued' = Call
  /\ diverged' = TRUE
  /\ pipe' = pipe \o (IF diverged THEN <<Frame("agent", Call)>>
                      ELSE <<Frame("agent", Call), Frame("resumed", issued)>>)
  /\ UNCHANGED <<script, run, phase, seed, journal, served, answer, inService, prior>>

\* agent(): the first call that does not match latches `diverged` and reports
\* the length of the replayed prefix, before its own request is posted.
AgentLive ==
  /\ phase = "live" /\ issued < Len(script)
  /\ ~CachedHere
  /\ issued' = Call
  /\ diverged' = TRUE
  /\ pipe' = pipe \o (IF diverged THEN <<Frame("agent", Call)>>
                      ELSE <<Frame("resumed", issued), Frame("agent", Call)>>)
  /\ UNCHANGED <<script, run, phase, seed, journal, served, answer, inService, prior>>

\* runWorkflowScript returns: a fully cached run reports its prefix here.
ScriptEnds ==
  /\ phase = "live" /\ issued = Len(script)
  /\ \A i \in 1..issued : answer[i] # Pending
  /\ \A i \in 1..Len(pipe) : pipe[i].op # "done"
  /\ pipe' = pipe \o (IF ~diverged /\ seed # <<>>
                      THEN <<Frame("resumed", issued), Frame("done", 0)>>
                      ELSE <<Frame("done", 0)>>)
  /\ UNCHANGED <<script, run, phase, seed, journal, issued, diverged, served, answer, inService, prior>>

\* The parent handles a frame; the frames of a stopped run that are already in
\* the pipe are handled too.
Handle(op) == phase # "over" /\ pipe # <<>> /\ Head(pipe).op = op /\ pipe' = Tail(pipe)

\* `resumed`: the replayed prefix is copied into this run's own journal, bounded
\* by what the worker was given.
HandleResumed ==
  /\ Handle("resumed")
  /\ journal' = LET n == Head(pipe).n
                IN journal \o SubSeq(seed, 1, IF n < Len(seed) THEN n ELSE Len(seed))
  /\ UNCHANGED <<script, run, phase, seed, issued, diverged, served, answer, inService, prior>>

HandleAgent ==
  /\ Handle("agent")
  /\ inService' = inService \cup {Head(pipe).n}
  /\ UNCHANGED <<script, run, phase, seed, journal, issued, diverged, served, answer, prior>>

\* `done`: the run is over, unless it was stopped before.
HandleDone ==
  /\ Handle("done")
  /\ phase' = IF phase = "live" THEN "over" ELSE phase
  /\ UNCHANGED <<script, run, seed, journal, issued, diverged, served, answer, inService, prior>>

\* FAULT (used by a mutant): a failed call is journaled like a successful one.
AgentEndsJournalingAll(i, value) ==
  /\ phase # "over" /\ i \in inService
  /\ inService' = inService \ {i}
  /\ answer' = [answer EXCEPT ![i] = value]
  /\ journal' = Append(journal, [key |-> script[i], value |-> value])
  /\ UNCHANGED <<script, run, phase, seed, issued, diverged, served, pipe, prior>>

\* The child's result: only a success is journaled, in the order of arrival.
AgentEnds(i, value) ==
  /\ phase # "over" /\ i \in inService
  /\ inService' = inService \ {i}
  /\ answer' = [answer EXCEPT ![i] = value]
  /\ journal' = IF value = Null THEN journal
                ELSE Append(journal, [key |-> script[i], value |-> value])
  /\ UNCHANGED <<script, run, phase, seed, issued, diverged, served, pipe, prior>>

\* stop: the worker is killed, so it makes no further call.
Stop ==
  /\ phase = "live"
  /\ phase' = "stopped"
  /\ UNCHANGED <<script, run, seed, journal, issued, diverged, served, answer, pipe,
                 inService, prior>>

\* resume: a fresh run seeded with the stopped run's journal, with the recorded
\* source or an edited one.
Resume(s) ==
  /\ phase = "stopped" /\ run < MaxRuns
  /\ run' = run + 1 /\ phase' = "live" /\ script' = s
  /\ seed' = journal /\ journal' = <<>> /\ pipe' = <<>>
  /\ issued' = 0 /\ diverged' = FALSE
  /\ served' = {} /\ inService' = {}
  /\ answer' = [i \in 1..Len(s) |-> Pending]
  /\ prior' = [script |-> script, answer |-> answer]

ReplayNext ==
  \/ AgentCached \/ AgentLive \/ ScriptEnds
  \/ HandleResumed \/ HandleAgent \/ HandleDone
  \/ \E i \in inService : AgentEnds(i, <<run, i>>) \/ AgentEnds(i, Null)
  \/ Stop
  \/ \E s \in Scripts : Resume(s)

ReplaySpec == ReplayInit /\ [][ReplayNext]_replayVars

---------------------------------------------------------------------------
\* No script calls agent() twice with the same prompt and options.
KeysDiffer == \A s \in Scripts : \A i, j \in 1..Len(s) : s[i] = s[j] => i = j

\* With distinct keys a replayed call gets what that call resolved to in the run
\* being resumed, whatever the order in which its results arrived and however
\* the script was edited.
ServedIsPriorAnswer ==
  KeysDiffer => \A i \in served, j \in 1..Len(prior.script) :
                  prior.script[j] = script[i] => prior.answer[j] = answer[i]

\* Everything from the first changed call on runs live, even where a later call
\* happens to match: the replayed calls are a prefix.
ServedPrefix == \A i \in served : 1..i \subseteq served

\* "Copy exactly that prefix into this run's journal, before any live append, so
\* a resume-of-a-resume replays them too."
PrefixCarried ==
  journal # <<>> => \A i \in served : i <= Len(journal) /\ journal[i] = seed[i]

===========================================================================
