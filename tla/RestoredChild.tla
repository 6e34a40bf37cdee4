---------------------------- MODULE RestoredChild ----------------------------
(***************************************************************************)
(* Children restored from durable storage (packages/runtime/src/           *)
(* subagents/restore.ts) around the handles of ChildHandle, and the        *)
(* execution contexts they are bound to (engine.ts): the root session's,   *)
(* and for a child's own restored descendants each of its generations'.    *)
(*                                                                         *)
(* A restored child has no live handle until it is resumed; a resume makes *)
(* one from the context the child is bound to at the time, and a later     *)
(* resume retires it and makes another.  A context that ends drains its    *)
(* children: it closes their resume gate, then waits for what runs.        *)
(***************************************************************************)
EXTENDS ChildHandle

CONSTANT Parent   \* the child each restored child belongs to, or Root

Root == "root"

ASSUME ParentAssumption ==
  Parent \in [Kids -> Kids \cup {Root}] /\ Root \notin Kids /\ \A c \in Kids : Parent[c] # c

VARIABLES
  wrap,       \* where the wrapper's resume is
  live,       \* the children with a live handle
  suspended,  \* the children whose resume gate is closed
  cancelled,  \* the children stopped since their resume began, while it is under way
  bound,      \* the context each child is bound to: a generation of its parent, or 0 for the root
  stale,      \* the children bound again since the handle now being made was asked for
  home,       \* the context each live handle was made from
  drain,      \* where each wait on a child is, by who waits
  awaited,    \* the generation it waits for
  binding,    \* the children whose new generation has yet to bind its descendants
  root        \* where the root session's end is

wrapVars     == <<wrap, live, suspended, cancelled, bound, stale, home, drain, awaited, binding, root>>
restoredVars == <<childVars, wrapVars>>

Descendants(p) == {d \in Kids : Parent[d] = p}
Waiters == {"stop", "root", "parent"}

RestoredTypeOK ==
  /\ wrap \in [Kids -> {"none", "retiring", "creating", "live"}]
  /\ {live, suspended, binding} \subseteq SUBSET Kids
  /\ cancelled \subseteq {c \in Kids : wrap[c] # "none"} /\ stale \subseteq {c \in Kids : wrap[c] = "creating"}
  /\ bound \in [Kids -> 0..MaxGen] /\ home \in [Kids -> 0..MaxGen]
  /\ drain \in [Kids -> [Waiters -> {"none", "resumes", "engine", "over", "rebound"}]]
  /\ awaited \in [Kids -> [Waiters -> 0..MaxGen]]
  /\ root \in {"up", "draining", "stopping", "done"}

\* generationDone, of the handle's last generation or of one noted before: its runEngine has returned.
LastGeneration(c) == IF c \in live THEN gen[c] ELSE 0
GenerationDone(c, g) == g \in Gens => ~Up(c, g)

\* cancelPendingResume on the live handles of the children in S.
CancelPending(S) ==
  ticket' = [c \in Kids |->
               IF c \in S \cap live /\ phase[c] \in Resuming \ {"undoing"} THEN ticket[c] \cup {"changed"} ELSE ticket[c]]

----------------------------------------------------------------------------
(* The wrapper's resume. *)

Wrapping == {c \in Kids : wrap[c] # "none"}

\* What waits for a resume that is over goes on before another call arrives.
Awoken(c) == \A by \in Waiters : drain[c][by] # "resumes"

\* A handle whose generation has ended is retired first, once that generation is torn down.
WrapResume(c) ==
  /\ c \notin suspended /\ wrap[c] = "none" /\ Awoken(c)
  /\ ~(c \in live /\ status[c] = "running")
  /\ gen[c] < GensOf[c]
  /\ \/ /\ c \in live
        /\ wrap' = [wrap EXCEPT ![c] = "retiring"]
        /\ UNCHANGED home
     \/ /\ c \notin live
        /\ wrap' = [wrap EXCEPT ![c] = "creating"]
        /\ home' = [home EXCEPT ![c] = bound[c]]
  /\ UNCHANGED <<childVars, live, suspended, cancelled, bound, stale, drain, awaited, binding, root>>

\* await live.generationDone(), without a bound.
RetiredDone(c) == GenerationDone(c, LastGeneration(c))

\* FAULT (used by a mutant): a stop noted for this resume is kept for the next.
AnsweredKeepsStop(c) ==
  /\ wrap' = [wrap EXCEPT ![c] = "none"]
  /\ stale' = stale \ {c}
  /\ UNCHANGED cancelled

\* The resume answers: what was noted for it is not read again.
Answered(c) ==
  /\ wrap' = [wrap EXCEPT ![c] = "none"]
  /\ cancelled' = cancelled \ {c}
  /\ stale' = stale \ {c}

Retired(c) ==
  /\ wrap[c] = "retiring" /\ RetiredDone(c)
  /\ live' = live \ {c}
  /\ \/ /\ c \in suspended \cup cancelled
        /\ Answered(c)
        /\ UNCHANGED home
     \/ /\ c \notin suspended \cup cancelled
        /\ wrap' = [wrap EXCEPT ![c] = "creating"]
        /\ home' = [home EXCEPT ![c] = bound[c]]
        /\ UNCHANGED <<cancelled, stale>>
  /\ UNCHANGED <<childVars, suspended, bound, drain, awaited, binding, root>>

\* restore(record) rejects.
CreateFails(c) ==
  /\ wrap[c] = "creating"
  /\ live' = live \ {c}
  /\ Answered(c)
  /\ UNCHANGED <<childVars, suspended, bound, home, drain, awaited, binding, root>>

\* FAULT (used by a mutant): a handle made while its context ended or changed is used all the same.
CreatedUnchecked(c) ==
  /\ wrap[c] = "creating"
  /\ live' = live \cup {c}
  /\ stale' = stale \ {c}
  /\ wrap' = [wrap EXCEPT ![c] = "live"]
  /\ ResumeBegins(c)
  /\ UNCHANGED <<suspended, cancelled, bound, home, drain, awaited, binding, root>>

(***************************************************************************)
(* The handle has been made.  It is made again if the binding has changed  *)
(* meanwhile; given up if the context is ending or the child was stopped;  *)
(* else resumed.                                                           *)
(***************************************************************************)
Created(c) ==
  /\ wrap[c] = "creating"
  /\ live' = live \cup {c}
  /\ \/ /\ c \in suspended \cup cancelled
        /\ Answered(c)
        /\ UNCHANGED <<childVars, home>>
     \/ /\ c \notin suspended \cup cancelled /\ c \in stale
        /\ home' = [home EXCEPT ![c] = bound[c]]
        /\ stale' = stale \ {c}
        /\ UNCHANGED <<childVars, wrap, cancelled>>
     \/ /\ c \notin suspended \cup cancelled \cup stale
        /\ ResumeBegins(c)
        /\ wrap' = [wrap EXCEPT ![c] = "live"]
        /\ UNCHANGED <<home, stale, cancelled>>
  /\ UNCHANGED <<suspended, bound, drain, awaited, binding, root>>

\* The live handle's resume has answered.
WrapReturns(c) ==
  /\ wrap[c] = "live" /\ phase[c] = "none"
  /\ Answered(c)
  /\ UNCHANGED <<childVars, live, suspended, bound, home, drain, awaited, binding, root>>

\* stop() on the live handle, if there is one that has anything to stop.
StopLive(c) == IF c \in live /\ (phase[c] \in Resuming \/ status[c] = "running") THEN Stop(c) ELSE UNCHANGED childVars

WrapStop(c) ==
  /\ cancelled' = cancelled \cup ({c} \cap Wrapping)
  /\ StopLive(c)
  /\ UNCHANGED <<wrap, live, suspended, bound, stale, home, drain, awaited, binding, root>>

----------------------------------------------------------------------------
(* Contexts. *)

\* A binding opens the gate; a resume pending on the old context loses its ticket.
Bind(S, ctx) ==
  /\ bound' = [c \in Kids |-> IF c \in S THEN ctx ELSE bound[c]]
  /\ suspended' = suspended \ S
  /\ stale' = stale \cup {c \in S : wrap[c] = "creating"}
  /\ CancelPending({c \in S : wrap[c] # "none"})

\* FAULT (used by a mutant): the gate is closed only after the running work has been waited for.
CloseGatesLate(S, by) ==
  /\ drain' = [c \in Kids |-> IF c \in S THEN [drain[c] EXCEPT ![by] = "resumes"] ELSE drain[c]]
  /\ stale' = stale \cup {c \in S : wrap[c] = "creating"}
  /\ CancelPending(S)
  /\ UNCHANGED suspended

\* The part of a drain before its first await.
CloseGates(S, by) ==
  /\ drain' = [c \in Kids |-> IF c \in S THEN [drain[c] EXCEPT ![by] = "resumes"] ELSE drain[c]]
  /\ suspended' = suspended \cup S
  /\ stale' = stale \cup {c \in S : wrap[c] = "creating"}
  /\ CancelPending(S)

\* The wait for the pending resume is over; from here the last generation is waited for.
ResumeAwaited(c, by) ==
  /\ drain[c][by] = "resumes"
  /\ drain' = [drain EXCEPT ![c][by] = "engine"]
  /\ awaited' = [awaited EXCEPT ![c][by] = LastGeneration(c)]
  /\ UNCHANGED <<wrap, live, suspended, cancelled, bound, stale, home, binding, root>>

\* FAULT (used by a mutant): the drain stops the child at once instead of waiting for its resume.
DrainStopsAtOnce(c, by) ==
  /\ by # "stop"
  /\ ResumeAwaited(c, by)
  /\ StopLive(c)

\* FAULT (used by a mutant): the drain waits for the running generation without stopping it.
DrainOnlyWaits(c, by) ==
  /\ by # "stop" /\ wrap[c] = "none"
  /\ ResumeAwaited(c, by)
  /\ UNCHANGED childVars

\* The pending resume is over: a generation that runs all the same is stopped.
DrainStops(c, by) ==
  /\ by # "stop" /\ wrap[c] = "none"
  /\ ResumeAwaited(c, by)
  /\ IF c \in live /\ status[c] = "running" THEN Stop(c) ELSE UNCHANGED childVars

\* The same wait of the root's stop, which has stopped the child already.
StopWaits(c) == wrap[c] = "none" /\ ResumeAwaited(c, "stop") /\ UNCHANGED childVars

\* The generation waited for has released its resources.
WaitEnds(c, by) ==
  /\ drain[c][by] = "engine" /\ GenerationDone(c, awaited[c][by])
  /\ drain' = [drain EXCEPT ![c][by] = "over"]
  /\ awaited' = [awaited EXCEPT ![c][by] = 0]
  /\ UNCHANGED <<childVars, wrap, live, suspended, cancelled, bound, stale, home, binding, root>>

(***************************************************************************)
(* A child with restored descendants.  The start of its engine binds them  *)
(* to the new generation; nothing runs in between.  Its end drains them,   *)
(* and binds them to the root again unless the root is ending.             *)
(***************************************************************************)
Starts(c) ==
  /\ ResumeWaited(c)
  /\ binding' = IF gen'[c] # gen[c] /\ engine'[c][gen'[c]] = "busy" /\ Descendants(c) # {} THEN binding \cup {c} ELSE binding
  /\ UNCHANGED <<wrap, live, suspended, cancelled, bound, stale, home, drain, awaited, root>>

BindDescendants(p) ==
  /\ p \in binding
  /\ Bind(Descendants(p), gen[p])
  /\ binding' = binding \ {p}
  /\ UNCHANGED <<status, genVars, settled, phase, prior, slotVars, askVars, resultVars, wrap, live, cancelled, home, drain, awaited, root>>

DrainDescendants(p) ==
  /\ Descendants(p) # {} /\ gen[p] > 0 /\ gen[p] \in settled[p] /\ engine[p][gen[p]] \in {"busy", "replied"}
  /\ \A d \in Descendants(p) : drain[d]["parent"] = "none"
  /\ CloseGates(Descendants(p), "parent")
  /\ UNCHANGED <<status, genVars, settled, phase, prior, slotVars, askVars, resultVars, wrap, live, cancelled, bound, home, binding, root, awaited>>

RebindDescendants(p) ==
  /\ Descendants(p) # {} /\ \A d \in Descendants(p) : drain[d]["parent"] = "over"
  /\ drain' = [c \in Kids |-> IF c \in Descendants(p) THEN [drain[c] EXCEPT !["parent"] = "rebound"] ELSE drain[c]]
  /\ IF root = "up"
     THEN Bind(Descendants(p), 0)
     ELSE UNCHANGED <<bound, suspended, stale, ticket>>
  /\ UNCHANGED <<status, genVars, settled, phase, prior, slotVars, askVars, resultVars, wrap, live, cancelled, home, binding, root, awaited>>

\* runEngine returns after its descendants are drained, or never bound any.
Returns(c, g) ==
  /\ engine[c][g] = "refused" \/ \A d \in Descendants(c) : drain[d]["parent"] = "rebound"
  /\ EngineReturns(c, g)
  /\ drain' = [d \in Kids |-> IF d \in Descendants(c) THEN [drain[d] EXCEPT !["parent"] = "none"] ELSE drain[d]]
  /\ UNCHANGED <<wrap, live, suspended, cancelled, bound, stale, home, binding, root, awaited>>

\* A configuration the startup validation refuses.
Refused(c, g) ==
  /\ engine[c][g] = "refused"
  /\ EngineThrows(c, g)
  /\ UNCHANGED wrapVars

(***************************************************************************)
(* The root session's turn loop is over.  It first ends its own context:   *)
(* every gate is closed, for good, and all that runs is waited for.        *)
(***************************************************************************)
RootDrains ==
  /\ root = "up" /\ root' = "draining"
  /\ CloseGates(Kids, "root")
  /\ UNCHANGED <<status, genVars, settled, phase, prior, slotVars, askVars, resultVars, wrap, live, cancelled, bound, home, binding, awaited>>

\* With the drains over, and the SessionEnd hook run, it stops each child and waits for it ...
RootStops ==
  /\ root = "draining" /\ \A c \in Kids : drain[c]["root"] = "over"
  /\ root' = "stopping"
  /\ UNCHANGED <<childVars, wrap, live, suspended, cancelled, bound, stale, home, drain, awaited, binding>>

RootStopsChild(c) ==
  /\ root = "stopping" /\ drain[c]["stop"] = "none"
  /\ drain' = [drain EXCEPT ![c]["stop"] = "resumes"]
  /\ cancelled' = cancelled \cup ({c} \cap Wrapping)
  /\ StopLive(c)
  /\ UNCHANGED <<wrap, live, suspended, bound, stale, home, binding, root, awaited>>

\* ... and returns; the disposer that runs then finds the context ended already.
RootReturns ==
  /\ root = "stopping" /\ \A c \in Kids : drain[c]["stop"] = "over"
  /\ root' = "done"
  /\ UNCHANGED <<childVars, wrap, live, suspended, cancelled, bound, stale, home, drain, awaited, binding>>

----------------------------------------------------------------------------
RestoredInit ==
  /\ Quiet("completed")
  /\ wrap = [c \in Kids |-> "none"]
  /\ live = {} /\ suspended = {} /\ cancelled = {} /\ stale = {} /\ binding = {}
  /\ bound = [c \in Kids |-> 0] /\ home = [c \in Kids |-> 0]
  /\ drain = [c \in Kids |-> [by \in Waiters |-> "none"]]
  /\ awaited = [c \in Kids |-> [by \in Waiters |-> 0]]
  /\ root = "up"

\* A generation that ends by itself does so by Stall here: how it ends makes no difference.
HandleStep(c) ==
  /\ ResumeResolved(c) \/ ResumeRead(c) \/ ResumeRecorded(c) \/ Undone(c) \/ Stall(c)
  /\ UNCHANGED wrapVars

WrapStep(c) == Retired(c) \/ Created(c) \/ CreateFails(c) \/ WrapReturns(c)

DrainStep(c) ==
  \/ \E by \in Waiters : DrainStops(c, by) \/ WaitEnds(c, by)
  \/ StopWaits(c) \/ DrainDescendants(c) \/ RebindDescendants(c)

EndStep(c) == \E g \in Gens : Returns(c, g) \/ Refused(c, g)

RestoredNext ==
  \/ \E c \in Kids : BindDescendants(c)
  \/ /\ binding = {}
     /\ \/ RootDrains \/ RootStops \/ RootReturns
        \/ \E c \in Kids :
             WrapResume(c) \/ WrapStep(c) \/ WrapStop(c) \/ HandleStep(c) \/ Starts(c) \/ DrainStep(c) \/ EndStep(c)
             \/ RootStopsChild(c)

RestoredSpec == RestoredInit /\ [][RestoredNext]_restoredVars

(***************************************************************************)
(* What the code awaits answers: the resolver, the store and the timers,   *)
(* and here also the teardown of a settled generation, which a drain waits *)
(* for without a bound.  A child's work may go on for ever.                *)
(***************************************************************************)
RestoredFairSpec ==
  /\ RestoredSpec
  /\ WF_restoredVars(RootStops) /\ WF_restoredVars(RootReturns)
  /\ \A c \in Kids :
       /\ WF_restoredVars(BindDescendants(c)) /\ WF_restoredVars(WrapStep(c)) /\ WF_restoredVars(Starts(c))
       /\ WF_restoredVars(HandleStep(c) /\ phase' # phase) /\ WF_restoredVars(DrainStep(c))
       /\ WF_restoredVars(EndStep(c)) /\ WF_restoredVars(RootStopsChild(c))

----------------------------------------------------------------------------
(* Properties. *)

(***************************************************************************)
(* Once the root session has drained its children, and so before it lets   *)
(* go of what they run on, nothing of a restored child runs or is about    *)
(* to: no engine is up and no resume is under way, then or later.          *)
(***************************************************************************)
NothingOutlivesRoot ==
  root \in {"stopping", "done"} => \A c \in Kids : phase[c] = "none" /\ wrap[c] = "none" /\ \A g \in Gens : ~Up(c, g)

(***************************************************************************)
(* A generation of a restored child runs on the context its handle was     *)
(* made from, and that context is still there: the parent's generation has *)
(* not returned, and the root session has not got past its drain.          *)
(***************************************************************************)
ContextAlive ==
  \A c \in Kids : gen[c] > 0 /\ c \in live /\ Up(c, gen[c]) =>
    IF home[c] = 0 THEN root \in {"up", "draining"} ELSE Up(Parent[c], home[c])

(***************************************************************************)
(* A resume that may still start a generation does so on the binding in    *)
(* force: one made from an earlier binding is made again or has lost its   *)
(* ticket, however the bindings change while it is under way.              *)
(***************************************************************************)
FreshContext ==
  \A c \in Kids : phase[c] \in Resuming \ {"undoing"} /\ ticket[c] = {} => home[c] = bound[c]

(***************************************************************************)
(* Two generations of a restored child never overlap, as those of a child  *)
(* spawned in this session may.                                            *)
(***************************************************************************)
NoOverlap == \A c \in Kids : \A g, h \in Gens : Up(c, g) /\ Up(c, h) => g = h

(***************************************************************************)
(* A drain stops a running generation, never a resume: the resume loses    *)
(* its ticket and puts the child's earlier outcome back, which a stop      *)
(* would replace.                                                          *)
(***************************************************************************)
DrainKeepsOutcome ==
  [][\A c \in Kids, by \in Waiters :
       drain[c][by] = "resumes" /\ drain'[c][by] = "engine" /\ status'[c] # status[c] => Unsettled(c)]_restoredVars

(***************************************************************************)
(* The root session's end terminates, whatever is being resumed, bound or  *)
(* drained when it begins.                                                 *)
(***************************************************************************)
RootEnds == root = "draining" ~> root = "done"

(***************************************************************************)
(* A generation of a restored child runs alone, on the binding in force    *)
(* when it started, and not after the engine that gave it.                 *)
(***************************************************************************)
ContextInForce == ContextAlive /\ FreshContext /\ NoOverlap

=============================================================================
