------------------------ MODULE RestoredChildProofs ------------------------
(***************************************************************************)
(* Proofs about RestoredChild, for any finite set of restored children and *)
(* any number of generations: the invariant of the handles carries over,   *)
(* and a generation runs alone, on a living context, and not past the root *)
(* session.                                                                *)
(*                                                                         *)
(* The argument follows the gate.  A child whose gate is closed has no     *)
(* resume that could still start a generation; a context closes the gates  *)
(* of its children before it waits for them, and opens none before it has  *)
(* bound them to another one.                                              *)
(***************************************************************************)
EXTENDS RestoredChild, ChildHandleProofs

-----------------------------------------------------------------------------
(* The inductive invariant.                                                *)

\* The root session has closed every gate.
Leaving == root \in {"draining", "stopping", "done"}

\* No generation of the child is up.
Idle(c) == \A g \in Gens : ~Up(c, g)

\* The child has a resume that may still start a generation.
Startable(c) == phase[c] \in Resuming \ {"undoing"} /\ ticket[c] = {}

\* The generation g of q can be a context: it was not refused and has not returned.
Serving(q, g) == q \in Kids /\ g \in Gens /\ engine[q][g] \in {"busy", "replied"}

\* The wrapper's resume and the handle's; at most the last generation is up, and
\* none while another is being prepared.
WrapFits(c) ==
  /\ phase[c] # "spawning"
  /\ phase[c] \in Resuming => wrap[c] = "live"
  /\ wrap[c] \in {"live", "retiring"} => c \in live
  /\ c \notin live \/ wrap[c] = "creating" \/ phase[c] \in Resuming => Idle(c)
  /\ \A g \in Gens : Up(c, g) => g = gen[c]

\* What a child starts on, what it is bound to and what it runs on.
ContextFits(c) ==
  /\ Startable(c) => home[c] = bound[c] /\ c \notin suspended
  /\ wrap[c] = "creating" /\ c \notin stale => home[c] = bound[c]
  /\ bound[c] # 0 => Leaving \/ Serving(Parent[c], bound[c])
  /\ Idle(c) \/ home[c] = 0 \/ Serving(Parent[c], home[c])
  /\ c \in binding => Unsettled(c) /\ Serving(c, gen[c])

\* A drain past its first wait: nothing of the child is up but what it waits for.
Waited(c, by) ==
  /\ drain[c][by] = "engine" => wrap[c] = "none" /\ \A g \in Gens : Up(c, g) => g = awaited[c][by]
  /\ drain[c][by] = "over" => wrap[c] = "none" /\ Idle(c)

\* The drain of the root's end, and that of the end of the parent's generation.
DrainFits(c) ==
  /\ drain[c]["root"] # "none" => Leaving
  /\ drain[c]["root"] # "rebound"
  /\ Waited(c, "root")
  /\ drain[c]["parent"] # "none" => Serving(Parent[c], gen[Parent[c]]) /\ gen[Parent[c]] \in settled[Parent[c]]
  /\ drain[c]["parent"] \in {"resumes", "engine", "over"} => c \in suspended
  /\ Waited(c, "parent")
  /\ drain[c]["parent"] = "rebound" => (Leaving \/ bound[c] = 0) /\ (Idle(c) \/ home[c] = 0)

RootFits ==
  /\ Leaving => suspended = Kids /\ binding = {}
  /\ root \in {"stopping", "done"} => \A c \in Kids : drain[c]["root"] = "over"

RestoredInv ==
  /\ RestoredTypeOK
  /\ ChildInv
  /\ \A c \in Kids : WrapFits(c) /\ ContextFits(c) /\ DrainFits(c)
  /\ RootFits

-----------------------------------------------------------------------------
(* The handles.                                                            *)

\* A step that starts no generation and ends no engine, and no resume comes of it.
Calm ==
  /\ engine' = engine /\ gen' = gen
  /\ \A c \in Kids : /\ settled[c] \subseteq settled'[c]
                     /\ phase'[c] # "spawning" \/ phase[c] = "spawning"
                     /\ phase'[c] \in Resuming => phase[c] \in Resuming
                     /\ Startable(c)' => Startable(c)

\* Tickets taken from resumes that are under way.
LEMMA CancelKeeps ==
  ASSUME ChildInv, NEW S, CancelPending(S),
         UNCHANGED <<status, genVars, settled, phase, prior, slotVars, askVars, resultVars>>
  PROVE  ChildInv' /\ Calm
<1>1. /\ UNCHANGED <<status, gen, engine, claim, liveNames, endpoint, settled, phase, prior, slots, running, asks,
                     withdrawn, paused, answer, reported>>
  BY DEF genVars, slotVars, askVars, resultVars
<1>2. ChildTypeOK /\ \A c \in Kids : HandleFits(c) /\ GenerationsFit(c)
  BY DEF ChildInv
<1>3. ticket \in [Kids -> SUBSET {"stopped", "changed"}]
  BY <1>2 DEF ChildTypeOK
<1>4. ticket' \in [Kids -> SUBSET {"stopped", "changed"}]
  BY <1>3 DEF CancelPending
<1>5. \A c \in Kids : \/ ticket'[c] = ticket[c]
                      \/ phase[c] \in Resuming \ {"undoing"} /\ ticket'[c] = ticket[c] \cup {"changed"}
  BY DEF CancelPending
<1>6. ASSUME NEW c \in Kids PROVE HandleFits(c)' /\ GenerationsFit(c)' /\ (Holds(c)' <=> Holds(c))
  <2>1. Unsettled(c)' <=> Unsettled(c)
    BY <1>1 DEF Unsettled
  <2>2. GenerationsFit(c)' /\ (Holds(c)' <=> Holds(c))
    BY <1>1, <1>2, <2>1 DEF GenerationsFit, Holds
  <2>3. HandleFits(c)'
    BY <1>1, <1>2, <1>5, <2>1 DEF HandleFits
  <2> QED BY <2>2, <2>3
<1>7. SlotsAccounted'
  BY <1>1, <1>6, SlotsStay DEF slotVars
<1>8. NamesExclusive' /\ LiveEngineHeard'
  <2>1. \A d \in Kids, h \in Gens : Up(d, h)' <=> Up(d, h)
    BY <1>1 DEF Up
  <2> QED BY <1>1, <2>1, NamesStay DEF ChildInv, LiveEngineHeard
<1>9. ChildTypeOK'
  BY <1>1, <1>2, <1>4 DEF ChildTypeOK
<1>10. Calm
  BY <1>1, <1>5 DEF Calm, Startable
<1> QED BY <1>6, <1>7, <1>8, <1>9, <1>10 DEF ChildInv

LEMMA SameCalm ==
  ASSUME ChildInv, UNCHANGED childVars
  PROVE  ChildInv' /\ Calm
<1>1. ChildInv'
  BY ChildStepInv
<1> QED BY <1>1 DEF Calm, childVars, Startable

\* A handle's own steps.
LEMMA HandleCalm ==
  ASSUME ChildInv, NEW c \in Kids,
         \/ ResumeResolved(c) \/ ResumeRead(c) \/ ResumeRecorded(c) \/ Undone(c) \/ Stall(c) \/ Stop(c)
         \/ ResumeWaited(c) /\ ticket[c] # {}
  PROVE  ChildInv' /\ Calm
<1>1. ChildInv'
  BY ResumeKeeps, SettleKeeps, QuietStep DEF ResumeWaited
<1>2. /\ phase \in [Kids -> {"none", "spawning"} \cup Resuming] /\ ticket \in [Kids -> SUBSET {"stopped", "changed"}]
      /\ settled \in [Kids -> SUBSET Gens]
  BY DEF ChildInv, ChildTypeOK
<1>3. engine' = engine /\ gen' = gen
  BY DEF ResumeResolved, ResumeRead, ResumeRecorded, Undone, Stall, Stop, ResumeWaited, Refuse, Undo, genVars
<1>4. \A d \in Kids : settled[d] \subseteq settled'[d]
  BY <1>2 DEF ResumeResolved, ResumeRead, ResumeRecorded, Undone, Stall, Stop, ResumeWaited, Refuse, Undo, Settle
<1>5. /\ \A d \in Kids : d # c => phase'[d] = phase[d] /\ ticket'[d] = ticket[d]
      /\ \/ phase'[c] = phase[c] /\ (ticket'[c] = {} => ticket[c] = {})
         \/ phase'[c] \in {"none", "undoing"} /\ (phase'[c] # "none" => phase[c] \in Resuming)
         \/ phase[c] \in Resuming \ {"undoing"} /\ phase'[c] \in Resuming /\ ticket'[c] = ticket[c]
  <2>1. CASE ResumeResolved(c) \/ ResumeRead(c)
    BY <1>2, <2>1 DEF ResumeResolved, ResumeRead, Refuse, Finished, Resuming, ticketVars
  <2>2. CASE ResumeRecorded(c) \/ Undone(c) \/ (ResumeWaited(c) /\ ticket[c] # {})
    BY <1>2, <2>2 DEF ResumeRecorded, ResumeWaited, Undone, Undo, Finished, Resuming, ticketVars
  <2>3. CASE Stall(c) \/ Stop(c)
    BY <1>2, <2>3 DEF Stall, Stop, Resuming, ticketVars
  <2> QED BY <2>1, <2>2, <2>3
<1>6. \A d \in Kids : /\ phase'[d] # "spawning" \/ phase[d] = "spawning"
                      /\ phase'[d] \in Resuming => phase[d] \in Resuming
                      /\ Startable(d)' => Startable(d)
  BY <1>5 DEF Startable, Resuming
<1> QED BY <1>1, <1>3, <1>4, <1>6 DEF Calm

-----------------------------------------------------------------------------
(* What a calm step leaves alone.                                          *)

\* A child's parent is another child, or the root.
LEMMA Ancestry ==
  /\ \A c \in Kids : Parent[c] \in Kids \cup {Root} /\ Parent[c] # c
  /\ Root \notin Kids
  BY ParentAssumption

LEMMA SameEngines ==
  ASSUME Calm
  PROVE  /\ \A c \in Kids : (Idle(c)' <=> Idle(c)) /\ \A g \in Gens : Up(c, g)' <=> Up(c, g)
         /\ \A q, g : Serving(q, g)' <=> Serving(q, g)
  BY DEF Calm, Idle, Up, Serving

\* The parts of the invariant, in a calm step that leaves their variables alone.
LEMMA WrapStays ==
  ASSUME Calm, NEW c \in Kids, WrapFits(c), wrap'[c] = wrap[c], c \in live' <=> c \in live
  PROVE  WrapFits(c)'
<1>1. (Idle(c)' <=> Idle(c)) /\ \A g \in Gens : Up(c, g)' <=> Up(c, g)
  BY SameEngines
<1>2. gen'[c] = gen[c] /\ (phase'[c] # "spawning" \/ phase[c] = "spawning") /\ (phase'[c] \in Resuming => phase[c] \in Resuming)
  BY DEF Calm
<1> QED BY <1>1, <1>2 DEF WrapFits

LEMMA ContextStays ==
  ASSUME Calm, NEW c \in Kids, ContextFits(c), wrap'[c] = wrap[c], home'[c] = home[c], bound'[c] = bound[c],
         c \in suspended' => c \in suspended, c \in stale => c \in stale', c \in binding' => c \in binding /\ Unsettled(c)', Leaving => Leaving'
  PROVE  ContextFits(c)'
<1>1. (Idle(c)' <=> Idle(c)) /\ \A q, g : Serving(q, g)' <=> Serving(q, g)
  BY SameEngines
<1>2. (Startable(c)' => Startable(c)) /\ gen' = gen
  BY DEF Calm
<1> QED BY <1>1, <1>2 DEF ContextFits

LEMMA DrainStays ==
  ASSUME Calm, NEW c \in Kids, DrainFits(c), wrap'[c] = wrap[c], home'[c] = home[c], bound'[c] = bound[c],
         c \in suspended => c \in suspended', drain'[c]["root"] = drain[c]["root"], drain'[c]["parent"] = drain[c]["parent"],
         awaited'[c]["root"] = awaited[c]["root"], awaited'[c]["parent"] = awaited[c]["parent"], Leaving => Leaving'
  PROVE  DrainFits(c)'
<1>1. (Idle(c)' <=> Idle(c)) /\ \A g \in Gens : Up(c, g)' <=> Up(c, g)
  BY SameEngines
<1>2. \A q, g : Serving(q, g)' <=> Serving(q, g)
  BY SameEngines
<1>3. gen' = gen /\ \A q \in Kids : settled[q] \subseteq settled'[q]
  BY DEF Calm
<1>4. Waited(c, "root")' /\ Waited(c, "parent")'
  BY <1>1 DEF DrainFits, Waited
<1>5. drain[c]["parent"] # "none" => Parent[c] \in Kids
  BY DEF DrainFits, Serving
<1> QED BY <1>1, <1>2, <1>3, <1>4, <1>5 DEF DrainFits

-----------------------------------------------------------------------------
(* The wrapper's resume.                                                   *)

\* The invariant of one child.
Fits(c) == WrapFits(c) /\ ContextFits(c) /\ DrainFits(c)

\* The types as the steps below use them.
LEMMA RestoredTypes ==
  ASSUME RestoredInv
  PROVE  /\ wrap \in [Kids -> {"none", "retiring", "creating", "live"}]
         /\ live \subseteq Kids /\ suspended \subseteq Kids /\ binding \subseteq Kids
         /\ cancelled \subseteq {c \in Kids : wrap[c] # "none"} /\ stale \subseteq {c \in Kids : wrap[c] = "creating"}
         /\ bound \in [Kids -> 0..MaxGen] /\ home \in [Kids -> 0..MaxGen] /\ gen \in [Kids -> 0..MaxGen]
         /\ drain \in [Kids -> [Waiters -> {"none", "resumes", "engine", "over", "rebound"}]]
         /\ awaited \in [Kids -> [Waiters -> 0..MaxGen]]
  BY DEF RestoredInv, RestoredTypeOK, ChildInv, ChildTypeOK

\* A step of one child's wrapper: the other children keep their parts.
LEMMA OthersFit ==
  ASSUME RestoredInv, Calm, NEW c \in Kids, binding' = {}, root' = root, drain' = drain, awaited' = awaited, bound' = bound,
         suspended' = suspended,
         \A d \in Kids : d # c => /\ wrap'[d] = wrap[d] /\ home'[d] = home[d]
                                  /\ d \in live' <=> d \in live
                                  /\ d \in stale' <=> d \in stale
  PROVE  \A d \in Kids : d # c => Fits(d)'
<1>1. SUFFICES ASSUME NEW d \in Kids, d # c PROVE Fits(d)'
  OBVIOUS
<1>2. WrapFits(d) /\ ContextFits(d) /\ DrainFits(d) /\ (Leaving => Leaving')
  BY DEF RestoredInv, Leaving
<1>3. WrapFits(d)'
  BY <1>1, <1>2, WrapStays
<1>4. ContextFits(d)'
  BY <1>1, <1>2, ContextStays
<1>5. DrainFits(d)'
  BY <1>1, <1>2, DrainStays
<1> QED BY <1>3, <1>4, <1>5 DEF Fits

\* An open gate: the session is not leaving and no drain has begun to wait.
LEMMA OpenGate ==
  ASSUME RestoredInv, NEW c \in Kids, c \notin suspended
  PROVE  ~Leaving /\ drain[c]["root"] = "none" /\ drain[c]["parent"] \in {"none", "rebound"}
<1>1. RootFits /\ DrainFits(c)
  BY DEF RestoredInv
<1>2. ~Leaving
  BY <1>1 DEF RootFits
<1>3. drain[c]["parent"] \in {"none", "resumes", "engine", "over", "rebound"}
  BY RestoredTypes DEF Waiters
<1> QED BY <1>1, <1>2, <1>3 DEF DrainFits

\* A wrapper at work: no drain is past its first wait.
LEMMA WrapperAtWork ==
  ASSUME RestoredInv, NEW c \in Kids, wrap[c] # "none"
  PROVE  \A by \in {"root", "parent"} : drain[c][by] \notin {"engine", "over"}
  BY DEF RestoredInv, DrainFits, Waited

LEMMA WrapResumeKeeps ==
  ASSUME RestoredInv, binding = {}, NEW c \in Kids, WrapResume(c)
  PROVE  RestoredInv'
<1>1. ChildInv' /\ Calm
  BY SameCalm DEF RestoredInv, WrapResume
<1>2. /\ UNCHANGED <<live, suspended, cancelled, bound, stale, drain, awaited, binding, root>>
      /\ wrap[c] = "none" /\ c \notin suspended
      /\ \/ c \in live /\ wrap' = [wrap EXCEPT ![c] = "retiring"] /\ home' = home
         \/ c \notin live /\ wrap' = [wrap EXCEPT ![c] = "creating"] /\ home' = [home EXCEPT ![c] = bound[c]]
  BY DEF WrapResume
<1>3. RestoredTypeOK'
  <2>1. RestoredTypeOK
    BY DEF RestoredInv
  <2>2. /\ wrap' \in [Kids -> {"none", "retiring", "creating", "live"}]
        /\ home' \in [Kids -> 0..MaxGen]
    <3>1. /\ wrap \in [Kids -> {"none", "retiring", "creating", "live"}]
          /\ home \in [Kids -> 0..MaxGen] /\ bound[c] \in 0..MaxGen
      BY RestoredTypes
    <3>2. CASE wrap' = [wrap EXCEPT ![c] = "retiring"] /\ home' = home
      BY <3>1, <3>2
    <3>3. CASE wrap' = [wrap EXCEPT ![c] = "creating"] /\ home' = [home EXCEPT ![c] = bound[c]]
      BY <3>1, <3>3
    <3> QED BY <1>2, <3>2, <3>3
  <2>3. \A d \in Kids : wrap'[d] = wrap[d] \/ (d = c /\ wrap'[d] # "none")
    <3>1. wrap \in [Kids -> {"none", "retiring", "creating", "live"}]
      BY RestoredTypes
    <3>2. wrap' = [wrap EXCEPT ![c] = "retiring"] \/ wrap' = [wrap EXCEPT ![c] = "creating"]
      BY <1>2
    <3>3. SUFFICES ASSUME NEW d \in Kids PROVE wrap'[d] = wrap[d] \/ (d = c /\ wrap'[d] # "none")
      OBVIOUS
    <3>4. CASE wrap' = [wrap EXCEPT ![c] = "retiring"]
      BY <3>1, <3>3, <3>4
    <3>5. CASE wrap' = [wrap EXCEPT ![c] = "creating"]
      BY <3>1, <3>3, <3>5
    <3> QED BY <3>2, <3>4, <3>5
  <2>4. /\ cancelled' \subseteq {d \in Kids : wrap'[d] # "none"}
        /\ stale' \subseteq {d \in Kids : wrap'[d] = "creating"}
    <3>1. cancelled' = cancelled /\ stale' = stale /\ wrap[c] = "none"
      BY <1>2
    <3>2. \A d \in cancelled : d \in Kids /\ wrap[d] # "none"
      BY RestoredTypes
    <3>3. \A d \in stale : d \in Kids /\ wrap[d] = "creating"
      BY RestoredTypes
    <3> QED BY <2>3, <3>1, <3>2, <3>3
  <2> QED BY <1>2, <2>1, <2>2, <2>4 DEF RestoredTypeOK
<1>4. \A d \in Kids : d # c => Fits(d)'
  BY <1>1, <1>2, OthersFit, RestoredTypes
<1>5. /\ WrapFits(c) /\ ContextFits(c) /\ DrainFits(c) /\ RootFits
      /\ ~Leaving /\ drain[c]["root"] = "none" /\ drain[c]["parent"] \in {"none", "rebound"}
  BY <1>2, OpenGate DEF RestoredInv
<1>6. phase[c] \notin Resuming /\ phase'[c] \notin Resuming /\ ~Startable(c)'
  BY <1>1, <1>2, <1>5 DEF WrapFits, Calm, Startable
<1>7. /\ Idle(c)' <=> Idle(c)
      /\ \A q, g : Serving(q, g)' <=> Serving(q, g)
      /\ \A g \in Gens : Up(c, g)' <=> Up(c, g)
      /\ gen' = gen /\ phase'[c] # "spawning" /\ \A q \in Kids : settled[q] \subseteq settled'[q]
  BY <1>1, <1>5, SameEngines DEF Calm, WrapFits
<1>8. wrap'[c] \in {"retiring", "creating"} /\ (wrap'[c] = "creating" => home'[c] = bound[c] /\ Idle(c) /\ c \notin live)
      /\ (wrap'[c] = "retiring" => home'[c] = home[c] /\ c \in live)
  BY <1>2, <1>5, RestoredTypes DEF WrapFits
<1>9. WrapFits(c)'
  BY <1>2, <1>5, <1>6, <1>7, <1>8 DEF WrapFits
<1>10. ContextFits(c)'
  BY <1>2, <1>5, <1>6, <1>7, <1>8 DEF ContextFits, Leaving
<1>11. DrainFits(c)'
  BY <1>2, <1>5, <1>7, <1>8 DEF DrainFits, Leaving, Waited, Serving
<1>12. RootFits'
  BY <1>2, <1>5 DEF RootFits, Leaving
<1> QED BY <1>1, <1>3, <1>4, <1>9, <1>10, <1>11, <1>12 DEF RestoredInv, Fits

\* The other steps of the wrapper that resume nothing: the resume is answered, or a handle is made (again).
LEMMA WrapperKeeps ==
  ASSUME RestoredInv, binding = {}, NEW c \in Kids, UNCHANGED <<childVars, suspended, bound, drain, awaited, binding, root>>,
         wrap[c] # "none", phase[c] \notin Resuming,
         \A d \in Kids : d # c => /\ wrap'[d] = wrap[d] /\ home'[d] = home[d]
                                  /\ d \in live' <=> d \in live
                                  /\ d \in stale' <=> d \in stale,
         c \in live' \/ Idle(c),
         \/ wrap'[c] = "none" /\ home'[c] = home[c]
         \/ wrap'[c] = "creating" /\ home'[c] = bound[c] /\ Idle(c),
         RestoredTypeOK'
  PROVE  RestoredInv'
<1>1. ChildInv' /\ Calm
  BY SameCalm DEF RestoredInv
<1>2. \A d \in Kids : d # c => Fits(d)'
  BY <1>1, OthersFit
<1>3. WrapFits(c) /\ ContextFits(c) /\ DrainFits(c) /\ RootFits
  BY DEF RestoredInv
<1>4. /\ drain[c]["root"] \notin {"engine", "over"} /\ drain[c]["parent"] \notin {"engine", "over"}
      /\ phase'[c] \notin Resuming /\ ~Startable(c)'
  BY <1>1, WrapperAtWork DEF Calm, Startable
<1>5. /\ Idle(c)' <=> Idle(c)
      /\ \A q, g : Serving(q, g)' <=> Serving(q, g)
      /\ \A g \in Gens : Up(c, g)' <=> Up(c, g)
      /\ gen' = gen /\ phase'[c] # "spawning" /\ \A q \in Kids : settled[q] \subseteq settled'[q]
  BY <1>1, <1>3, SameEngines DEF Calm, WrapFits
<1>6. WrapFits(c)'
  BY <1>3, <1>4, <1>5 DEF WrapFits
<1>7. ContextFits(c)'
  BY <1>3, <1>4, <1>5 DEF ContextFits, Leaving
<1>8. DrainFits(c)'
  BY <1>3, <1>4, <1>5 DEF DrainFits, Leaving, Waited, Serving
<1>9. RootFits'
  BY <1>3 DEF RootFits, Leaving
<1> QED BY <1>1, <1>2, <1>6, <1>7, <1>8, <1>9 DEF RestoredInv, Fits

LEMMA RetiredKeeps ==
  ASSUME RestoredInv, binding = {}, NEW c \in Kids, Retired(c)
  PROVE  RestoredInv'
<1>1. WrapFits(c) /\ wrap[c] = "retiring"
  BY DEF RestoredInv, Retired
<1>2. c \in live /\ phase[c] \notin Resuming
  BY <1>1 DEF WrapFits
<1>3. Idle(c)
  BY <1>1, <1>2 DEF WrapFits, Retired, RetiredDone, GenerationDone, LastGeneration, Idle
<1>4. /\ UNCHANGED <<childVars, suspended, bound, drain, awaited, binding, root>>
      /\ live' = live \ {c} /\ stale' \subseteq stale /\ stale \subseteq stale' \cup {c}
      /\ \/ wrap' = [wrap EXCEPT ![c] = "none"] /\ home' = home /\ cancelled' = cancelled \ {c} /\ stale' = stale \ {c}
         \/ wrap' = [wrap EXCEPT ![c] = "creating"] /\ home' = [home EXCEPT ![c] = bound[c]] /\ cancelled' = cancelled /\ stale' = stale
  BY DEF Retired, Answered
<1>5. RestoredTypeOK'
  BY <1>1, <1>4, RestoredTypes DEF RestoredInv, RestoredTypeOK
<1>6. \/ wrap'[c] = "none" /\ home'[c] = home[c]
      \/ wrap'[c] = "creating" /\ home'[c] = bound[c]
  BY <1>4, RestoredTypes
<1>7. \A d \in Kids : d # c => /\ wrap'[d] = wrap[d] /\ home'[d] = home[d]
                               /\ d \in live' <=> d \in live
                               /\ d \in stale' <=> d \in stale
  BY <1>4, RestoredTypes
<1> QED BY <1>1, <1>2, <1>3, <1>4, <1>5, <1>6, <1>7, WrapperKeeps

\* The handle could not be made; or it was, and is given up or made again.
LEMMA CreatingKeeps ==
  ASSUME RestoredInv, binding = {}, NEW c \in Kids, CreateFails(c) \/ (Created(c) /\ UNCHANGED childVars)
  PROVE  RestoredInv'
<1>1. WrapFits(c) /\ wrap[c] = "creating"
  BY DEF RestoredInv, CreateFails, Created
<1>2. Idle(c) /\ phase[c] \notin Resuming
  BY <1>1 DEF WrapFits
<1>3. ~ResumeBegins(c) \/ CreateFails(c)
  <2>1. phase \in [Kids -> {"none", "spawning"} \cup Resuming]
    BY DEF RestoredInv, ChildInv, ChildTypeOK
  <2>2. ASSUME ResumeBegins(c), UNCHANGED childVars PROVE FALSE
    <3>1. phase[c] = "none" /\ phase'[c] = "resolving" /\ phase' = phase
      BY <2>1, <2>2 DEF ResumeBegins, childVars
    <3> QED BY <3>1
  <2> QED BY <2>2 DEF Created
<1>4. /\ UNCHANGED <<childVars, suspended, bound, drain, awaited, binding, root>>
      /\ live' \in {live \ {c}, live \cup {c}} /\ stale' = stale \ {c}
      /\ \/ wrap' = [wrap EXCEPT ![c] = "none"] /\ home' = home /\ cancelled' = cancelled \ {c}
         \/ wrap' = wrap /\ home' = [home EXCEPT ![c] = bound[c]] /\ cancelled' = cancelled
  BY <1>3 DEF CreateFails, Created, Answered
<1>5. RestoredTypeOK'
  <2>1. live' \subseteq Kids /\ suspended' \subseteq Kids /\ binding' \subseteq Kids
    BY <1>4, RestoredTypes
  <2>2. wrap' \in [Kids -> {"none", "retiring", "creating", "live"}] /\ home' \in [Kids -> 0..MaxGen]
    BY <1>4, RestoredTypes
  <2>3. /\ cancelled' \subseteq {d \in Kids : wrap'[d] # "none"}
        /\ stale' \subseteq {d \in Kids : wrap'[d] = "creating"}
    BY <1>4, RestoredTypes
  <2> QED BY <1>4, <2>1, <2>2, <2>3, RestoredTypes DEF RestoredInv, RestoredTypeOK
<1>6. \/ wrap'[c] = "none" /\ home'[c] = home[c]
      \/ wrap'[c] = "creating" /\ home'[c] = bound[c]
  BY <1>1, <1>4, RestoredTypes
<1>7. \A d \in Kids : d # c => /\ wrap'[d] = wrap[d] /\ home'[d] = home[d]
                               /\ d \in live' <=> d \in live
                               /\ d \in stale' <=> d \in stale
  BY <1>4, RestoredTypes
<1> QED BY <1>1, <1>2, <1>4, <1>5, <1>6, <1>7, WrapperKeeps

LEMMA WrapReturnsKeeps ==
  ASSUME RestoredInv, binding = {}, NEW c \in Kids, WrapReturns(c)
  PROVE  RestoredInv'
<1>1. WrapFits(c) /\ wrap[c] = "live" /\ phase[c] \notin Resuming
  BY DEF RestoredInv, WrapReturns, Resuming
<1>2. /\ UNCHANGED <<childVars, suspended, bound, drain, awaited, binding, root, live, home>>
      /\ wrap' = [wrap EXCEPT ![c] = "none"] /\ cancelled' = cancelled \ {c} /\ stale' = stale \ {c}
  BY DEF WrapReturns, Answered
<1>3. c \in live' /\ wrap'[c] = "none"
  BY <1>1, <1>2, RestoredTypes DEF WrapFits
<1>4. RestoredTypeOK'
  BY <1>1, <1>2, RestoredTypes DEF RestoredInv, RestoredTypeOK
<1>5. \A d \in Kids : d # c => /\ wrap'[d] = wrap[d] /\ home'[d] = home[d]
                               /\ d \in live' <=> d \in live
                               /\ d \in stale' <=> d \in stale
  BY <1>2, RestoredTypes
<1> QED BY <1>1, <1>2, <1>3, <1>4, <1>5, WrapperKeeps

\* The handle has been made from the binding in force, and its resume begins.
LEMMA ResumedKeeps ==
  ASSUME RestoredInv, binding = {}, NEW c \in Kids, Created(c), ~UNCHANGED childVars
  PROVE  RestoredInv'
<1>1. /\ wrap[c] = "creating" /\ c \notin suspended \cup stale
      /\ UNCHANGED <<home, stale, cancelled, suspended, bound, drain, awaited, binding, root>>
      /\ wrap' = [wrap EXCEPT ![c] = "live"] /\ live' = live \cup {c}
      /\ ResumeBegins(c)
  BY DEF Created
<1>2. ChildInv'
  BY <1>1, QuietStep DEF RestoredInv
<1>3. engine' = engine /\ gen' = gen /\ settled' = settled /\ ticket' = ticket /\ phase' = [phase EXCEPT ![c] = "resolving"]
  BY <1>1 DEF ResumeBegins, genVars
<1>4. phase \in [Kids -> {"none", "spawning"} \cup Resuming]
  BY DEF RestoredInv, ChildInv, ChildTypeOK
<1>5. /\ WrapFits(c) /\ ContextFits(c) /\ DrainFits(c) /\ RootFits
      /\ ~Leaving /\ drain[c]["root"] = "none" /\ drain[c]["parent"] \in {"none", "rebound"}
  BY <1>1, OpenGate DEF RestoredInv
<1>6. /\ \A d \in Kids : (Idle(d)' <=> Idle(d)) /\ \A g \in Gens : Up(d, g)' <=> Up(d, g)
      /\ \A q, g : Serving(q, g)' <=> Serving(q, g)
  BY <1>3 DEF Idle, Up, Serving
<1>7. ASSUME NEW d \in Kids, d # c PROVE Fits(d)'
  <2>1. WrapFits(d) /\ ContextFits(d) /\ DrainFits(d)
    BY DEF RestoredInv
  <2>2. phase'[d] = phase[d] /\ wrap'[d] = wrap[d] /\ (d \in live' <=> d \in live) /\ (Startable(d)' <=> Startable(d))
    BY <1>1, <1>3, <1>4, <1>7, RestoredTypes DEF Startable
  <2>3. WrapFits(d)'
    BY <1>3, <1>6, <2>1, <2>2 DEF WrapFits
  <2>4. ContextFits(d)'
    BY <1>1, <1>3, <1>6, <2>1, <2>2 DEF ContextFits, Leaving
  <2>5. Waited(d, "root")' /\ Waited(d, "parent")'
    BY <1>1, <1>6, <2>1, <2>2 DEF DrainFits, Waited
  <2>6. DrainFits(d)'
    BY <1>1, <1>3, <1>6, <2>1, <2>5 DEF DrainFits, Leaving
  <2> QED BY <2>3, <2>4, <2>6 DEF Fits
<1>8. phase'[c] = "resolving" /\ wrap'[c] = "live" /\ c \in live' /\ Idle(c) /\ home[c] = bound[c]
  BY <1>1, <1>3, <1>4, <1>5, RestoredTypes DEF WrapFits, ContextFits
<1>9. WrapFits(c)'
  BY <1>3, <1>5, <1>6, <1>8 DEF WrapFits
<1>10. ContextFits(c)'
  BY <1>1, <1>5, <1>6, <1>8 DEF ContextFits, Leaving
<1>11. DrainFits(c)'
  BY <1>1, <1>3, <1>5, <1>6, <1>8 DEF DrainFits, Waited, Leaving
<1>12. RootFits'
  BY <1>1, <1>5 DEF RootFits, Leaving
<1>13. RestoredTypeOK'
  BY <1>1, RestoredTypes DEF RestoredInv, RestoredTypeOK
<1> QED BY <1>2, <1>7, <1>9, <1>10, <1>11, <1>12, <1>13 DEF RestoredInv, Fits

-----------------------------------------------------------------------------
(* Steps that leave the wrappers and the bindings alone.                   *)

\* Leaving is for good, and nothing of a drain that is not the root's stop changes.
LEMMA StillKeeps ==
  ASSUME RestoredInv, ChildInv', Calm, binding = {}, UNCHANGED <<wrap, live, suspended, bound, stale, home, binding>>,
         \A c \in Kids : \A by \in {"root", "parent"} : drain'[c][by] = drain[c][by] /\ awaited'[c][by] = awaited[c][by],
         \/ root' = root
         \/ root = "draining" /\ root' = "stopping" /\ \A c \in Kids : drain[c]["root"] = "over"
         \/ root = "stopping" /\ root' = "done",
         RestoredTypeOK'
  PROVE  RestoredInv'
<1>1. Leaving <=> Leaving'
  BY DEF Leaving
<1>2. ASSUME NEW d \in Kids PROVE Fits(d)'
  <2>1. WrapFits(d) /\ ContextFits(d) /\ DrainFits(d)
    BY DEF RestoredInv
  <2> QED BY <1>1, <2>1, WrapStays, ContextStays, DrainStays DEF Fits
<1>3. RootFits'
  BY <1>1 DEF RestoredInv, RootFits
<1> QED BY <1>2, <1>3 DEF RestoredInv, Fits

\* One wait of one child changes.
LEMMA WaitUpdated ==
  ASSUME NEW S, NEW f \in [Kids -> [Waiters -> S]], NEW c \in Kids, NEW by \in Waiters, NEW v \in S,
         NEW h, h = [f EXCEPT ![c][by] = v]
  PROVE  /\ h \in [Kids -> [Waiters -> S]]
         /\ \A d \in Kids, b \in Waiters : h[d][b] = IF d = c /\ b = by THEN v ELSE f[d][b]
<1>1. f[c] \in [Waiters -> S]
  OBVIOUS
<1> DEFINE k == [f[c] EXCEPT ![by] = v]
<1>2. k \in [Waiters -> S] /\ \A b \in Waiters : k[b] = IF b = by THEN v ELSE f[c][b]
  BY <1>1
<1>3. h = [f EXCEPT ![c] = k]
  OBVIOUS
<1> HIDE DEF k
<1>4. h \in [Kids -> [Waiters -> S]] /\ \A d \in Kids : h[d] = IF d = c THEN k ELSE f[d]
  BY <1>2, <1>3
<1> QED BY <1>2, <1>4

LEMMA StopLiveCalm ==
  ASSUME ChildInv, NEW c \in Kids, StopLive(c)
  PROVE  ChildInv' /\ Calm
  BY SameCalm, HandleCalm DEF StopLive

LEMMA StillSteps ==
  ASSUME RestoredInv, binding = {}, NEW c \in Kids,
         \/ HandleStep(c) \/ WrapStop(c) \/ RootStops \/ RootStopsChild(c) \/ RootReturns
         \/ Starts(c) /\ ticket[c] # {}
  PROVE  RestoredInv'
<1>1. ChildInv' /\ Calm
  BY SameCalm, HandleCalm, StopLiveCalm DEF RestoredInv, HandleStep, WrapStop, RootStops, RootStopsChild, RootReturns, Starts
<1>2. UNCHANGED <<wrap, live, suspended, bound, stale, home, binding, awaited>>
  <2>1. CASE Starts(c)
    BY <1>1, <2>1 DEF Starts, Calm
  <2> QED BY <2>1 DEF HandleStep, WrapStop, RootStops, RootStopsChild, RootReturns, wrapVars
<1>3. \/ root' = root
      \/ root = "draining" /\ root' = "stopping" /\ \A d \in Kids : drain[d]["root"] = "over"
      \/ root = "stopping" /\ root' = "done"
  BY DEF HandleStep, WrapStop, RootStops, RootStopsChild, RootReturns, wrapVars, Starts
<1>4. drain' = drain \/ drain' = [drain EXCEPT ![c]["stop"] = "resumes"]
  BY DEF HandleStep, WrapStop, RootStops, RootStopsChild, RootReturns, wrapVars, Starts
<1>5. /\ drain' \in [Kids -> [Waiters -> {"none", "resumes", "engine", "over", "rebound"}]]
      /\ \A d \in Kids : \A by \in {"root", "parent"} : drain'[d][by] = drain[d][by]
  <2>1. CASE drain' = drain
    BY <2>1, RestoredTypes
  <2>2. CASE drain' = [drain EXCEPT ![c]["stop"] = "resumes"]
    <3>1. /\ "resumes" \in {"none", "resumes", "engine", "over", "rebound"} /\ "stop" \in Waiters
          /\ {"root", "parent"} \subseteq Waiters \ {"stop"}
      BY DEF Waiters
    <3> QED BY <2>2, <3>1, RestoredTypes, WaitUpdated
  <2> QED BY <1>4, <2>1, <2>2
<1>6. cancelled' \in {cancelled, cancelled \cup ({c} \cap Wrapping)}
  BY DEF HandleStep, WrapStop, RootStops, RootStopsChild, RootReturns, wrapVars, Starts
<1>7. cancelled' \subseteq {d \in Kids : wrap'[d] # "none"}
  BY <1>2, <1>6, RestoredTypes DEF Wrapping
<1>8. RestoredTypeOK'
  BY <1>2, <1>3, <1>5, <1>7 DEF RestoredInv, RestoredTypeOK
<1> QED BY <1>1, <1>2, <1>3, <1>5, <1>8, StillKeeps

-----------------------------------------------------------------------------
(* Drains.                                                                 *)

\* A wait goes on: from the pending resume to the last generation, and from there to its end.
LEMMA AwaitKeeps ==
  ASSUME RestoredInv, binding = {}, NEW c \in Kids, NEW by \in Waiters,
         \/ DrainStops(c, by)
         \/ StopWaits(c) /\ by = "stop"
         \/ WaitEnds(c, by)
  PROVE  RestoredInv'
<1>1. ChildInv' /\ Calm
  BY SameCalm, HandleCalm DEF RestoredInv, DrainStops, StopWaits, WaitEnds
<1>2. UNCHANGED <<wrap, live, suspended, cancelled, bound, stale, home, binding, root>>
  BY DEF DrainStops, StopWaits, WaitEnds, ResumeAwaited
<1>3. PICK v \in {"engine", "over"}, n \in 0..MaxGen :
        /\ drain' = [drain EXCEPT ![c][by] = v] /\ awaited' = [awaited EXCEPT ![c][by] = n]
        /\ v = "engine" => drain[c][by] = "resumes" /\ wrap[c] = "none" /\ n = LastGeneration(c)
        /\ v = "over" => drain[c][by] = "engine" /\ GenerationDone(c, awaited[c][by])
  <2>1. LastGeneration(c) \in 0..MaxGen /\ 0 \in 0..MaxGen
    BY RestoredTypes, Bounds DEF LastGeneration
  <2>2. CASE WaitEnds(c, by)
    BY <2>1, <2>2 DEF WaitEnds
  <2>3. CASE DrainStops(c, by) \/ (StopWaits(c) /\ by = "stop")
    BY <2>1, <2>3 DEF DrainStops, StopWaits, ResumeAwaited
  <2> QED BY <2>2, <2>3
<1>4. /\ drain' \in [Kids -> [Waiters -> {"none", "resumes", "engine", "over", "rebound"}]]
      /\ \A d \in Kids, b \in Waiters : drain'[d][b] = IF d = c /\ b = by THEN v ELSE drain[d][b]
  <2>1. v \in {"none", "resumes", "engine", "over", "rebound"}
    OBVIOUS
  <2> QED BY <1>3, <2>1, RestoredTypes, WaitUpdated
<1>5. /\ awaited' \in [Kids -> [Waiters -> 0..MaxGen]]
      /\ \A d \in Kids, b \in Waiters : awaited'[d][b] = IF d = c /\ b = by THEN n ELSE awaited[d][b]
  BY <1>3, RestoredTypes, WaitUpdated
<1>6. RestoredTypeOK'
  BY <1>2, <1>4, <1>5 DEF RestoredInv, RestoredTypeOK
<1>7. {"root", "parent"} \subseteq Waiters /\ (Leaving <=> Leaving')
  BY <1>2 DEF Waiters, Leaving
<1>8. ASSUME NEW d \in Kids PROVE Fits(d)'
  <2>1. WrapFits(d) /\ ContextFits(d) /\ DrainFits(d)
    BY DEF RestoredInv
  <2>2. WrapFits(d)' /\ ContextFits(d)'
    BY <1>1, <1>2, <1>7, <2>1, WrapStays, ContextStays
  <2>3. CASE d # c \/ by = "stop"
    <3>1. \A b \in {"root", "parent"} : drain'[d][b] = drain[d][b] /\ awaited'[d][b] = awaited[d][b]
      BY <1>4, <1>5, <1>7, <2>3
    <3>2. DrainFits(d)'
      BY <1>1, <1>2, <1>7, <2>1, <3>1, DrainStays
    <3> QED BY <2>2, <3>2 DEF Fits
  <2>4. CASE d = c /\ by \in {"root", "parent"}
    <3>1. /\ (Idle(c)' <=> Idle(c)) /\ \A g \in Gens : Up(c, g)' <=> Up(c, g)
          /\ \A q, g : Serving(q, g)' <=> Serving(q, g)
      BY <1>1, SameEngines
    <3>2. v = "engine" => \A g \in Gens : Up(c, g) => g = n
      BY <1>3, <2>1, <2>4 DEF LastGeneration, WrapFits, Idle
    <3>3. v = "over" => Idle(c) /\ wrap[c] = "none"
      BY <1>3, <2>1, <2>4 DEF DrainFits, Waited, GenerationDone, Idle
    <3>4. drain'[c][by] = v /\ awaited'[c][by] = n /\ wrap'[c] = wrap[c] /\ (v = "engine" => wrap[c] = "none")
      BY <1>2, <1>3, <1>4, <1>5
    <3>5. Waited(c, by)'
      BY <3>1, <3>2, <3>3, <3>4 DEF Waited
    <3>6. \A b \in {"root", "parent"} : b # by => drain'[c][b] = drain[c][b] /\ awaited'[c][b] = awaited[c][b]
      BY <1>4, <1>5, <1>7
    <3>7. \A b \in {"root", "parent"} : b # by => Waited(c, b)'
      BY <1>2, <2>1, <2>4, <3>1, <3>6 DEF Waited, DrainFits
    <3>8. gen' = gen /\ \A q \in Kids : settled[q] \subseteq settled'[q]
      BY <1>1 DEF Calm
    <3>9. drain[c][by] \in {"resumes", "engine"} /\ v \in {"engine", "over"}
      BY <1>3
    <3>10. DrainFits(c)'
      <4>1. CASE by = "root"
        BY <1>2, <1>7, <2>1, <2>4, <3>1, <3>4, <3>5, <3>6, <3>7, <3>8, <3>9, <4>1 DEF DrainFits, Serving
      <4>2. CASE by = "parent"
        BY <1>2, <1>7, <2>1, <2>4, <3>1, <3>4, <3>5, <3>6, <3>7, <3>8, <3>9, <4>2 DEF DrainFits, Serving
      <4> QED BY <2>4, <4>1, <4>2
    <3> QED BY <2>2, <2>4, <3>10 DEF Fits
  <2> QED BY <2>3, <2>4 DEF Waiters
<1>9. RootFits'
  <2>1. RootFits
    BY DEF RestoredInv
  <2>2. root \in {"stopping", "done"} => \A d \in Kids : drain'[d]["root"] = "over"
    BY <1>3, <1>4, <1>7, <2>1 DEF RootFits
  <2> QED BY <1>2, <1>7, <2>1, <2>2 DEF RootFits
<1> QED BY <1>1, <1>6, <1>8, <1>9 DEF RestoredInv, Fits

handleVars == <<status, genVars, settled, phase, prior, slotVars, askVars, resultVars>>

\* A resume under way in S that lost its ticket will not start a generation.
LEMMA NoneStartable ==
  ASSUME RestoredInv, NEW S, CancelPending(S), UNCHANGED handleVars, NEW c \in S \cap Kids
  PROVE  ~Startable(c)'
<1>1. WrapFits(c) /\ ticket \in [Kids -> SUBSET {"stopped", "changed"}]
  BY DEF RestoredInv, ChildInv, ChildTypeOK
<1>2. phase' = phase
  BY DEF handleVars
<1>3. phase[c] \in Resuming \ {"undoing"} => c \in live
  BY <1>1 DEF WrapFits
<1>4. phase[c] \in Resuming \ {"undoing"} => ticket'[c] = ticket[c] \cup {"changed"}
  BY <1>3 DEF CancelPending
<1> QED BY <1>2, <1>4 DEF Startable

\* The gates of the children in S are closed, for the root's end or for that of a parent's generation.
LEMMA CloseGatesKeeps ==
  ASSUME RestoredInv, binding = {}, NEW S \in SUBSET Kids, NEW by \in {"root", "parent"}, CloseGates(S, by),
         UNCHANGED <<handleVars, wrap, live, cancelled, bound, home, binding, awaited>>,
         \/ by = "root" /\ S = Kids /\ root = "up" /\ root' = "draining"
         \/ /\ by = "parent" /\ root' = root
            /\ \A d \in S : Serving(Parent[d], gen[Parent[d]]) /\ gen[Parent[d]] \in settled[Parent[d]]
  PROVE  RestoredInv'
<1>1. ChildInv' /\ Calm
  BY CancelKeeps DEF RestoredInv, CloseGates, handleVars
<1>2. /\ suspended' = suspended \cup S /\ stale' = stale \cup {c \in S : wrap[c] = "creating"}
      /\ wrap' = wrap /\ live' = live /\ cancelled' = cancelled /\ bound' = bound /\ home' = home /\ binding' = binding
      /\ awaited' = awaited /\ gen' = gen /\ settled' = settled /\ (Leaving => Leaving')
  BY DEF CloseGates, handleVars, genVars, Leaving
<1>3. \A d \in Kids : /\ drain'[d] \in [Waiters -> {"none", "resumes", "engine", "over", "rebound"}]
                      /\ \A b \in Waiters : drain'[d][b] = IF d \in S /\ b = by THEN "resumes" ELSE drain[d][b]
  <2>1. SUFFICES ASSUME NEW d \in Kids
                 PROVE  /\ drain'[d] \in [Waiters -> {"none", "resumes", "engine", "over", "rebound"}]
                        /\ \A b \in Waiters : drain'[d][b] = IF d \in S /\ b = by THEN "resumes" ELSE drain[d][b]
    OBVIOUS
  <2>2. drain[d] \in [Waiters -> {"none", "resumes", "engine", "over", "rebound"}]
    BY RestoredTypes
  <2>3. drain'[d] = IF d \in S THEN [drain[d] EXCEPT ![by] = "resumes"] ELSE drain[d]
    BY DEF CloseGates
  <2>4. "resumes" \in {"none", "resumes", "engine", "over", "rebound"}
    OBVIOUS
  <2> QED BY <2>2, <2>3, <2>4
<1>4. RestoredTypeOK'
  <2>1. drain' \in [Kids -> [Waiters -> {"none", "resumes", "engine", "over", "rebound"}]]
    BY <1>3 DEF CloseGates
  <2>2. suspended' \subseteq Kids /\ stale' \subseteq {c \in Kids : wrap'[c] = "creating"}
    BY <1>2, RestoredTypes
  <2>3. root' \in {"up", "draining", "stopping", "done"}
    BY DEF RestoredInv, RestoredTypeOK
  <2> QED BY <1>2, <2>1, <2>2, <2>3, RestoredTypes DEF RestoredTypeOK
<1>5. {"root", "parent"} \subseteq Waiters
  BY DEF Waiters
<1>6. ASSUME NEW d \in Kids PROVE Fits(d)'
  <2>1. WrapFits(d) /\ ContextFits(d) /\ DrainFits(d)
    BY DEF RestoredInv
  <2>2. /\ (Idle(d)' <=> Idle(d)) /\ \A g \in Gens : Up(d, g)' <=> Up(d, g)
        /\ \A q, g : Serving(q, g)' <=> Serving(q, g)
    BY <1>1, SameEngines
  <2>3. WrapFits(d)'
    BY <1>1, <1>2, <2>1, WrapStays
  <2>4. CASE d \notin S
    <3>1. \A b \in {"root", "parent"} : drain'[d][b] = drain[d][b]
      BY <1>3, <1>5, <2>4
    <3>2. ContextFits(d)'
      BY <1>1, <1>2, <2>1, <2>4, ContextStays
    <3>3. DrainFits(d)'
      BY <1>1, <1>2, <2>1, <2>4, <3>1, DrainStays
    <3> QED BY <2>3, <3>2, <3>3 DEF Fits
  <2>5. CASE d \in S
    <3>1. ~Startable(d)'
      BY <2>5, NoneStartable DEF CloseGates
    <3>2. ContextFits(d)'
      BY <1>2, <2>1, <2>2, <2>5, <3>1 DEF ContextFits
    <3>3. \A b \in {"root", "parent"} : drain'[d][b] = IF b = by THEN "resumes" ELSE drain[d][b]
      BY <1>3, <1>5, <2>5
    <3>4. Waited(d, "root")' /\ Waited(d, "parent")'
      BY <1>2, <2>1, <2>2, <3>3 DEF Waited, DrainFits
    <3>5. DrainFits(d)'
      <4>1. CASE by = "root"
        <5>1. Leaving'
          BY <4>1 DEF Leaving
        <5> QED BY <1>2, <2>1, <2>2, <2>5, <3>3, <3>4, <4>1, <5>1 DEF DrainFits
      <4>2. CASE by = "parent"
        BY <1>2, <2>1, <2>2, <2>5, <3>3, <3>4, <4>2 DEF DrainFits
      <4> QED BY <4>1, <4>2
    <3> QED BY <2>3, <3>2, <3>5 DEF Fits
  <2> QED BY <2>4, <2>5
<1>7. RootFits'
  <2>1. RootFits
    BY DEF RestoredInv
  <2>2. CASE by = "root"
    BY <1>2, <2>2, RestoredTypes DEF RootFits
  <2>3. CASE by = "parent"
    <3>1. root' = root /\ \A d \in Kids : drain'[d]["root"] = drain[d]["root"]
      BY <1>3, <1>5, <2>3
    <3> QED BY <1>2, <2>1, <3>1 DEF RootFits, Leaving
  <2> QED BY <2>2, <2>3
<1> QED BY <1>1, <1>4, <1>6, <1>7 DEF RestoredInv, Fits

LEMMA DrainBegins ==
  ASSUME RestoredInv, binding = {},
         \/ RootDrains
         \/ \E p \in Kids : DrainDescendants(p)
  PROVE  RestoredInv'
<1>1. CASE RootDrains
  BY <1>1, CloseGatesKeeps DEF RootDrains, handleVars
<1>2. ASSUME NEW p \in Kids, DrainDescendants(p) PROVE RestoredInv'
  <2>1. /\ CloseGates(Descendants(p), "parent") /\ UNCHANGED <<handleVars, wrap, live, cancelled, bound, home, binding, root, awaited>>
        /\ gen[p] \in settled[p] /\ engine[p][gen[p]] \in {"busy", "replied"} /\ gen[p] > 0
    BY <1>2 DEF DrainDescendants, handleVars
  <2>2. gen[p] \in Gens
    BY <2>1, RestoredTypes, Bounds DEF Gens
  <2>3. Descendants(p) \in SUBSET Kids
        /\ \A d \in Descendants(p) : Serving(Parent[d], gen[Parent[d]]) /\ gen[Parent[d]] \in settled[Parent[d]]
    BY <2>1, <2>2 DEF Descendants, Serving
  <2> QED BY <2>1, <2>3, CloseGatesKeeps
<1> QED BY <1>1, <1>2

-----------------------------------------------------------------------------
(* Bindings.                                                               *)

\* The children in S are bound to ctx while the session is not leaving; a drain of theirs that was over ends.
LEMMA BindKeeps ==
  ASSUME RestoredInv, ~Leaving, NEW S \in SUBSET Kids, NEW ctx \in 0..MaxGen, Bind(S, ctx),
         UNCHANGED <<handleVars, wrap, live, cancelled, home, root, awaited>>, binding' \subseteq binding,
         \A d \in S : ctx # 0 => Serving(Parent[d], ctx),
         drain' \in [Kids -> [Waiters -> {"none", "resumes", "engine", "over", "rebound"}]],
         \A d \in Kids : /\ drain'[d]["root"] = drain[d]["root"]
                         /\ d \notin S => drain'[d]["parent"] = drain[d]["parent"]
                         /\ d \in S => \/ drain'[d]["parent"] = "none"
                                       \/ ctx = 0 /\ drain[d]["parent"] = "over" /\ drain'[d]["parent"] = "rebound"
  PROVE  RestoredInv'
<1>1. ChildInv' /\ Calm
  BY CancelKeeps DEF RestoredInv, Bind, handleVars
<1>2. /\ suspended' = suspended \ S /\ stale' = stale \cup {c \in S : wrap[c] = "creating"}
      /\ wrap' = wrap /\ live' = live /\ cancelled' = cancelled /\ home' = home /\ root' = root
      /\ awaited' = awaited /\ gen' = gen /\ settled' = settled /\ phase' = phase /\ (Leaving <=> Leaving')
  BY DEF Bind, handleVars, genVars, Leaving
<1>3. bound' \in [Kids -> 0..MaxGen] /\ \A d \in Kids : bound'[d] = IF d \in S THEN ctx ELSE bound[d]
  BY RestoredTypes DEF Bind
<1>4. RestoredTypeOK'
  <2>1. suspended' \subseteq Kids /\ binding' \subseteq Kids /\ stale' \subseteq {c \in Kids : wrap'[c] = "creating"}
    BY <1>2, RestoredTypes
  <2>2. root' \in {"up", "draining", "stopping", "done"}
    BY <1>2 DEF RestoredInv, RestoredTypeOK
  <2> QED BY <1>2, <1>3, <2>1, <2>2, RestoredTypes DEF RestoredTypeOK
<1>5. ASSUME NEW d \in Kids PROVE Fits(d)'
  <2>1. WrapFits(d) /\ ContextFits(d) /\ DrainFits(d)
    BY DEF RestoredInv
  <2>2. /\ (Idle(d)' <=> Idle(d)) /\ \A g \in Gens : Up(d, g)' <=> Up(d, g)
        /\ \A q, g : Serving(q, g)' <=> Serving(q, g)
    BY <1>1, SameEngines
  <2>3. WrapFits(d)'
    BY <1>1, <1>2, <2>1, WrapStays
  <2>4. Unsettled(d)' <=> Unsettled(d)
    BY <1>2 DEF Unsettled
  <2>5. d \in binding' => d \in binding /\ Unsettled(d)'
    BY <2>1, <2>4 DEF ContextFits
  <2>6. CASE d \notin S
    <3>1. ContextFits(d)'
      BY <1>1, <1>2, <1>3, <2>1, <2>5, <2>6, ContextStays
    <3>2. DrainFits(d)'
      BY <1>1, <1>2, <1>3, <2>1, <2>6, DrainStays
    <3> QED BY <2>3, <3>1, <3>2 DEF Fits
  <2>7. CASE d \in S
    <3>1. bound'[d] = ctx /\ (ctx # 0 => Serving(Parent[d], ctx)')
      BY <1>3, <2>2, <2>7
    <3>2. ~Startable(d)'
      <4>1. CASE wrap[d] = "none"
        BY <1>2, <2>1, <4>1 DEF WrapFits, Startable
      <4>2. CASE wrap[d] # "none"
        BY <2>7, <4>2, NoneStartable DEF Bind
      <4> QED BY <4>1, <4>2
    <3>3. ContextFits(d)'
      BY <1>2, <2>1, <2>2, <2>5, <2>7, <3>1, <3>2 DEF ContextFits
    <3>4. drain'[d]["root"] = "none"
      BY <2>1 DEF DrainFits
    <3>5. DrainFits(d)'
      <4>1. CASE drain'[d]["parent"] = "none"
        BY <3>4, <4>1 DEF DrainFits, Waited
      <4>2. CASE ctx = 0 /\ drain[d]["parent"] = "over" /\ drain'[d]["parent"] = "rebound"
        <5>1. Idle(d) /\ Serving(Parent[d], gen[Parent[d]]) /\ gen[Parent[d]] \in settled[Parent[d]]
          BY <2>1, <4>2 DEF DrainFits, Waited
        <5> QED BY <1>2, <2>2, <3>1, <3>4, <4>2, <5>1 DEF DrainFits, Waited
      <4> QED BY <2>7, <4>1, <4>2
    <3> QED BY <2>3, <3>3, <3>5 DEF Fits
  <2> QED BY <2>6, <2>7
<1>6. RootFits'
  BY <1>2 DEF RootFits, Leaving
<1> QED BY <1>1, <1>4, <1>5, <1>6 DEF RestoredInv, Fits

LEMMA BindDescendantsKeeps ==
  ASSUME RestoredInv, NEW p \in Kids, BindDescendants(p)
  PROVE  RestoredInv'
<1>1. /\ p \in binding /\ Bind(Descendants(p), gen[p]) /\ binding' = binding \ {p} /\ drain' = drain
      /\ UNCHANGED <<handleVars, wrap, live, cancelled, home, root, awaited>>
  BY DEF BindDescendants, handleVars
<1>2. ~Leaving /\ Unsettled(p) /\ Serving(p, gen[p])
  BY <1>1 DEF RestoredInv, RootFits, ContextFits
<1>3. \A d \in Descendants(p) : d \in Kids /\ Parent[d] = p
  BY DEF Descendants
<1>4. \A d \in Descendants(p) : drain[d]["parent"] = "none"
  BY <1>2, <1>3 DEF RestoredInv, DrainFits, Unsettled
<1> QED BY <1>1, <1>2, <1>3, <1>4, BindKeeps, RestoredTypes

\* The descendants drained by p's generation go back to the root, unless it is leaving too.
LEMMA RebindKeeps ==
  ASSUME RestoredInv, binding = {}, NEW p \in Kids, RebindDescendants(p)
  PROVE  RestoredInv'
<1> DEFINE S == Descendants(p)
<1>1. /\ UNCHANGED <<handleVars, wrap, live, cancelled, home, binding, root, awaited>>
      /\ drain' = [c \in Kids |-> IF c \in S THEN [drain[c] EXCEPT !["parent"] = "rebound"] ELSE drain[c]]
      /\ \A d \in S : drain[d]["parent"] = "over"
  BY DEF RebindDescendants, handleVars
<1>2. S \in SUBSET Kids
  BY DEF Descendants
<1> HIDE DEF S
<1>3. \A d \in Kids : /\ drain'[d] \in [Waiters -> {"none", "resumes", "engine", "over", "rebound"}]
                      /\ \A b \in Waiters : drain'[d][b] = IF d \in S /\ b = "parent" THEN "rebound" ELSE drain[d][b]
  <2>1. SUFFICES ASSUME NEW d \in Kids
                 PROVE  /\ drain'[d] \in [Waiters -> {"none", "resumes", "engine", "over", "rebound"}]
                        /\ \A b \in Waiters : drain'[d][b] = IF d \in S /\ b = "parent" THEN "rebound" ELSE drain[d][b]
    OBVIOUS
  <2>2. drain[d] \in [Waiters -> {"none", "resumes", "engine", "over", "rebound"}]
    BY RestoredTypes
  <2>3. drain'[d] = IF d \in S THEN [drain[d] EXCEPT !["parent"] = "rebound"] ELSE drain[d]
    BY <1>1
  <2>4. "rebound" \in {"none", "resumes", "engine", "over", "rebound"}
    OBVIOUS
  <2> QED BY <2>2, <2>3, <2>4
<1>4. drain' \in [Kids -> [Waiters -> {"none", "resumes", "engine", "over", "rebound"}]]
  BY <1>1, <1>3
<1>5. {"root", "parent"} \subseteq Waiters
  BY DEF Waiters
<1>6. \A d \in Kids : /\ drain'[d]["root"] = drain[d]["root"]
                      /\ drain'[d]["parent"] = IF d \in S THEN "rebound" ELSE drain[d]["parent"]
  BY <1>3, <1>5
<1>7. CASE root = "up"
  <2>1. Bind(S, 0) /\ ~Leaving /\ 0 \in 0..MaxGen
    BY <1>7, Bounds DEF RebindDescendants, Leaving, S
  <2> QED BY <1>1, <1>2, <1>4, <1>6, <2>1, BindKeeps
<1>8. CASE root # "up"
  <2>1. UNCHANGED <<childVars, bound, suspended, stale>> /\ Leaving /\ Leaving'
    BY <1>1, <1>8 DEF RebindDescendants, handleVars, genVars, slotVars, askVars, resultVars, childVars, Leaving, RestoredInv,
       RestoredTypeOK
  <2>2. ChildInv' /\ Calm
    BY <2>1, SameCalm DEF RestoredInv
  <2>3. RestoredTypeOK'
    BY <1>1, <1>4, <2>1 DEF RestoredInv, RestoredTypeOK
  <2>4. ASSUME NEW d \in Kids PROVE Fits(d)'
    <3>1. WrapFits(d) /\ ContextFits(d) /\ DrainFits(d)
      BY DEF RestoredInv
    <3>2. WrapFits(d)' /\ ContextFits(d)'
      BY <1>1, <2>1, <2>2, <3>1, WrapStays, ContextStays
    <3>3. CASE d \notin S
      BY <1>1, <1>6, <2>1, <2>2, <3>1, <3>2, <3>3, DrainStays DEF Fits
    <3>4. CASE d \in S
      <4>1. Idle(d) /\ Serving(Parent[d], gen[Parent[d]]) /\ gen[Parent[d]] \in settled[Parent[d]]
        BY <1>1, <3>1, <3>4 DEF DrainFits, Waited
      <4>2. /\ (Idle(d)' <=> Idle(d)) /\ \A g \in Gens : Up(d, g)' <=> Up(d, g)
            /\ \A q, g : Serving(q, g)' <=> Serving(q, g)
            /\ gen' = gen /\ settled' = settled
        BY <2>1, <2>2, SameEngines DEF childVars
      <4>3. Waited(d, "root")' /\ Waited(d, "parent")'
        BY <1>1, <1>6, <3>1, <3>4, <4>2 DEF Waited, DrainFits
      <4>4. DrainFits(d)'
        BY <1>6, <2>1, <3>1, <3>4, <4>1, <4>2, <4>3 DEF DrainFits
      <4> QED BY <3>2, <4>4 DEF Fits
    <3> QED BY <3>3, <3>4
  <2>5. RootFits'
    BY <1>1, <1>6, <2>1 DEF RestoredInv, RootFits
  <2> QED BY <2>2, <2>3, <2>4, <2>5 DEF RestoredInv, Fits
<1> QED BY <1>7, <1>8

-----------------------------------------------------------------------------
(* Generations.                                                            *)

\* A resume starts its generation: no other is up, and the context it was made from is in force.
LEMMA StartsKeeps ==
  ASSUME RestoredInv, binding = {}, NEW c \in Kids, Starts(c), ticket[c] = {}
  PROVE  RestoredInv'
<1> DEFINE h == gen[c] + 1
<1>1. /\ ResumeWaited(c) /\ phase[c] = "waiting" /\ StartGeneration(c) /\ Finished(c) /\ settled' = settled
      /\ UNCHANGED <<wrap, live, suspended, cancelled, bound, stale, home, drain, awaited, root>>
  BY DEF Starts, ResumeWaited
<1>2. ChildInv'
  BY <1>1, StartKeeps DEF RestoredInv
<1>3. h \in Gens /\ gen[c] \in Nat
  <2>1. gen[c] \in 0..MaxGen /\ gen[c] < GensOf[c] /\ GensOf[c] <= MaxGen /\ GensOf[c] \in Nat
    BY <1>1, RestoredTypes, Bounds DEF RestoredInv, ChildInv, HandleFits, Resuming
  <2> QED BY <2>1, Bounds DEF Gens
<1>4. /\ gen'[c] = h /\ \A d \in Kids : d # c => gen'[d] = gen[d] /\ engine'[d] = engine[d]
      /\ gen' \in [Kids -> 0..MaxGen]
  BY <1>1, <1>3, StartFacts DEF RestoredInv
<1>5. \A g \in Gens : g # h => engine'[c][g] = engine[c][g]
  BY <1>1 DEF StartGeneration, RestoredInv, ChildInv, ChildTypeOK
<1>6. /\ phase'[c] = "none" /\ \A d \in Kids : d # c => phase'[d] = phase[d] /\ ticket'[d] = ticket[d]
  BY <1>1 DEF Finished, RestoredInv, ChildInv, ChildTypeOK
<1> HIDE DEF h
<1>7. /\ WrapFits(c) /\ ContextFits(c) /\ DrainFits(c) /\ GenerationsFit(c)
      /\ wrap[c] = "live" /\ c \in live /\ Idle(c) /\ home[c] = bound[c] /\ c \notin suspended
  BY <1>1 DEF RestoredInv, ChildInv, WrapFits, ContextFits, Startable, Resuming
<1>8. ~Leaving /\ ~Leaving' /\ drain[c]["root"] = "none" /\ drain[c]["parent"] \in {"none", "rebound"}
  BY <1>1, <1>7, OpenGate DEF Leaving
<1>9. \A g : \A q \in Kids : q # c => (Serving(q, g)' <=> Serving(q, g))
  BY <1>4 DEF Serving
<1>10. /\ binding' \subseteq {c}
       /\ c \in binding' => engine'[c][h] = "busy"
  BY <1>4 DEF Starts
<1>11. RestoredTypeOK'
  <2>1. binding' \subseteq Kids
    BY <1>10
  <2> QED BY <1>1, <2>1 DEF RestoredInv, RestoredTypeOK
<1>12. WrapFits(c)'
  <2>1. \A g \in Gens : Up(c, g)' => g = h
    BY <1>5, <1>7 DEF Up, Idle
  <2> QED BY <1>1, <1>4, <1>6, <1>7, <2>1 DEF WrapFits, Resuming
<1>13. ContextFits(c)'
  <2>1. bound[c] = 0 \/ (Serving(Parent[c], bound[c]) /\ Serving(Parent[c], bound[c])')
    <3>1. Serving(Parent[c], bound[c]) => Parent[c] \in Kids /\ Parent[c] # c
      BY Ancestry DEF Serving
    <3> QED BY <1>1, <1>7, <1>8, <1>9, <3>1 DEF ContextFits
  <2>2. h \notin settled[c]
    BY <1>3, <1>7 DEF GenerationsFit, h
  <2>3. c \in binding' => Unsettled(c)' /\ Serving(c, gen[c])'
    BY <1>1, <1>3, <1>4, <1>10, <2>2 DEF Unsettled, Serving, h
  <2>4. ~Startable(c)' /\ wrap'[c] # "creating" /\ home'[c] = home[c] /\ bound'[c] = bound[c]
    BY <1>1, <1>6, <1>7 DEF Startable, Resuming
  <2> QED BY <1>7, <2>1, <2>3, <2>4 DEF ContextFits
<1>14. DrainFits(c)'
  <2>1. drain[c]["parent"] = "rebound" => home[c] = 0 /\ bound[c] = 0
    BY <1>7, <1>8 DEF DrainFits
  <2>2. drain[c]["parent"] = "rebound" =>
          /\ Parent[c] \in Kids /\ Parent[c] # c
          /\ Serving(Parent[c], gen[Parent[c]])' /\ gen'[Parent[c]] \in settled'[Parent[c]]
    <3>1. drain[c]["parent"] = "rebound" => Serving(Parent[c], gen[Parent[c]]) /\ gen[Parent[c]] \in settled[Parent[c]]
      BY <1>7 DEF DrainFits
    <3>2. Serving(Parent[c], gen[Parent[c]]) => Parent[c] \in Kids /\ Parent[c] # c
      BY Ancestry DEF Serving
    <3> QED BY <1>1, <1>4, <1>9, <3>1, <3>2
  <2> QED BY <1>1, <1>8, <2>1, <2>2 DEF DrainFits, Waited
<1>15. ASSUME NEW d \in Kids, d # c PROVE Fits(d)'
  <2>1. WrapFits(d) /\ ContextFits(d) /\ DrainFits(d)
    BY DEF RestoredInv
  <2>2. (Idle(d)' <=> Idle(d)) /\ (Startable(d)' <=> Startable(d)) /\ \A g \in Gens : Up(d, g)' <=> Up(d, g)
    BY <1>4, <1>6, <1>15 DEF Idle, Up, Startable
  <2>3. WrapFits(d)'
    BY <1>1, <1>4, <1>6, <1>15, <2>1, <2>2 DEF WrapFits
  <2>4. \A g : ~Serving(c, g)
    BY <1>7 DEF Idle, Up, Serving
  <2>5. \A g : Serving(Parent[d], g) => Serving(Parent[d], g)' /\ Parent[d] \in Kids /\ Parent[d] # c
    BY <1>9, <2>4 DEF Serving
  <2>6. ContextFits(d)'
    BY <1>1, <1>8, <1>10, <1>15, <2>1, <2>2, <2>5 DEF ContextFits
  <2>7. Waited(d, "root")' /\ Waited(d, "parent")'
    BY <1>1, <2>1, <2>2 DEF Waited, DrainFits
  <2>8. drain[d]["parent"] # "none" => Serving(Parent[d], gen[Parent[d]])' /\ gen'[Parent[d]] \in settled'[Parent[d]]
    <3>1. drain[d]["parent"] # "none" => Serving(Parent[d], gen[Parent[d]]) /\ gen[Parent[d]] \in settled[Parent[d]]
      BY <2>1 DEF DrainFits
    <3> QED BY <1>1, <1>4, <2>5, <3>1
  <2>9. DrainFits(d)'
    BY <1>1, <1>8, <2>1, <2>2, <2>7, <2>8 DEF DrainFits
  <2> QED BY <2>3, <2>6, <2>9 DEF Fits
<1>16. RootFits'
  BY <1>8 DEF RootFits, Leaving
<1> QED BY <1>2, <1>11, <1>12, <1>13, <1>14, <1>15, <1>16 DEF RestoredInv, Fits

\* A generation's engine returns: it was refused and served nobody, or its descendants have left it.
LEMMA EndKeeps ==
  ASSUME RestoredInv, binding = {}, NEW c \in Kids, NEW g \in Gens, Returns(c, g) \/ Refused(c, g)
  PROVE  RestoredInv'
<1>1. /\ EngineReturns(c, g) \/ EngineThrows(c, g)
      /\ UNCHANGED <<wrap, live, suspended, cancelled, bound, stale, home, binding, root, awaited>>
      /\ Gone(c, g) /\ UNCHANGED <<gen, claim, phase, ticket>>
      /\ engine[c][g] = "refused" \/ \A d \in Descendants(c) : drain[d]["parent"] = "rebound"
      /\ \/ drain' = drain /\ engine[c][g] = "refused"
         \/ drain' = [d \in Kids |-> IF d \in Descendants(c) THEN [drain[d] EXCEPT !["parent"] = "none"] ELSE drain[d]]
  BY DEF Returns, Refused, EngineReturns, EngineThrows, wrapVars, ticketVars
<1>2. ChildInv'
  BY <1>1, EngineEndKeeps DEF RestoredInv
<1>3. /\ \A d \in Kids : d # c => engine'[d] = engine[d]
      /\ \A h \in Gens : engine'[c][h] = IF h = g THEN "gone" ELSE engine[c][h]
  BY <1>1, GoneFacts DEF RestoredInv
<1>4. \A d \in Kids : settled[d] \subseteq settled'[d]
  <2>1. settled \in [Kids -> SUBSET Gens]
    BY DEF RestoredInv, ChildInv, ChildTypeOK
  <2>2. settled' = settled \/ settled' = [settled EXCEPT ![c] = @ \cup {gen[c]}]
    BY <1>1 DEF EngineReturns, EngineThrows, Settle
  <2> QED BY <2>1, <2>2
<1>5. /\ \A d \in Kids : (Idle(d) => Idle(d)') /\ \A h \in Gens : Up(d, h)' => Up(d, h)
      /\ \A h : \A q \in Kids : Serving(q, h) /\ (q # c \/ h # g) => Serving(q, h)'
  BY <1>3 DEF Idle, Up, Serving
<1>6. Up(c, g) /\ g = gen[c]
  BY <1>1 DEF Gone, RestoredInv, WrapFits
<1>7. \A d \in Kids : /\ drain'[d] \in [Waiters -> {"none", "resumes", "engine", "over", "rebound"}]
                      /\ \A b \in Waiters : \/ drain'[d][b] = drain[d][b]
                                            \/ d \in Descendants(c) /\ b = "parent" /\ drain'[d][b] = "none"
  <2>1. CASE drain' = drain
    BY <2>1, RestoredTypes
  <2>2. CASE drain' = [d \in Kids |-> IF d \in Descendants(c) THEN [drain[d] EXCEPT !["parent"] = "none"] ELSE drain[d]]
    <3>1. SUFFICES ASSUME NEW d \in Kids
                   PROVE  /\ drain'[d] \in [Waiters -> {"none", "resumes", "engine", "over", "rebound"}]
                          /\ \A b \in Waiters : \/ drain'[d][b] = drain[d][b]
                                                \/ d \in Descendants(c) /\ b = "parent" /\ drain'[d][b] = "none"
      OBVIOUS
    <3>2. drain[d] \in [Waiters -> {"none", "resumes", "engine", "over", "rebound"}]
      BY RestoredTypes
    <3>3. drain'[d] = IF d \in Descendants(c) THEN [drain[d] EXCEPT !["parent"] = "none"] ELSE drain[d]
      BY <2>2
    <3>4. "none" \in {"none", "resumes", "engine", "over", "rebound"}
      OBVIOUS
    <3> QED BY <3>2, <3>3, <3>4
  <2> QED BY <1>1, <2>1, <2>2
<1>8. \A d \in Kids : Parent[d] = c => drain'[d]["parent"] = "none"
  <2>1. SUFFICES ASSUME NEW d \in Kids, Parent[d] = c PROVE drain'[d]["parent"] = "none"
    OBVIOUS
  <2>2. d \in Descendants(c)
    BY <2>1 DEF Descendants
  <2>3. CASE drain' = drain /\ engine[c][g] = "refused"
    <3>1. drain[d]["parent"] # "none" => Serving(c, gen[c])
      BY <2>1 DEF RestoredInv, DrainFits
    <3> QED BY <1>6, <2>3, <3>1 DEF Serving
  <2>4. CASE drain' = [e \in Kids |-> IF e \in Descendants(c) THEN [drain[e] EXCEPT !["parent"] = "none"] ELSE drain[e]]
    <3>1. drain'[d] = [drain[d] EXCEPT !["parent"] = "none"] /\ "parent" \in Waiters
      BY <2>2, <2>4 DEF Waiters
    <3>2. drain[d] \in [Waiters -> {"none", "resumes", "engine", "over", "rebound"}]
      BY RestoredTypes
    <3> QED BY <3>1, <3>2
  <2> QED BY <1>1, <2>3, <2>4
<1>9. RestoredTypeOK'
  <2>1. drain' \in [Kids -> [Waiters -> {"none", "resumes", "engine", "over", "rebound"}]]
    <3>1. CASE drain' = drain
      BY <3>1, RestoredTypes
    <3>2. CASE drain' = [d \in Kids |-> IF d \in Descendants(c) THEN [drain[d] EXCEPT !["parent"] = "none"] ELSE drain[d]]
      BY <1>7, <3>2
    <3> QED BY <1>1, <3>1, <3>2
  <2> QED BY <1>1, <2>1 DEF RestoredInv, RestoredTypeOK
<1>10. ASSUME NEW d \in Kids PROVE Fits(d)'
  <2>1. WrapFits(d) /\ ContextFits(d) /\ DrainFits(d) /\ RootFits
    BY DEF RestoredInv
  <2>2. /\ (Idle(d) => Idle(d)') /\ (\A h \in Gens : Up(d, h)' => Up(d, h))
        /\ (Startable(d)' <=> Startable(d)) /\ (Leaving <=> Leaving')
    BY <1>1, <1>5 DEF Startable, Leaving
  <2>3. WrapFits(d)'
    BY <1>1, <2>1, <2>2 DEF WrapFits
  <2>4. /\ bound[d] # 0 => Leaving \/ Serving(Parent[d], bound[d])'
        /\ Idle(d) \/ home[d] = 0 \/ Serving(Parent[d], home[d])'
    <3>1. CASE Parent[d] # c
      <4>1. \A h : Serving(Parent[d], h) => Serving(Parent[d], h)'
        BY <1>5, <3>1 DEF Serving
      <4> QED BY <1>1, <2>1, <4>1 DEF ContextFits
    <3>2. CASE Parent[d] = c /\ engine[c][g] = "refused"
      <4>1. \A h : Serving(Parent[d], h) => Serving(Parent[d], h)'
        BY <1>5, <3>2 DEF Serving
      <4> QED BY <1>1, <2>1, <4>1 DEF ContextFits
    <3>3. CASE Parent[d] = c /\ drain[d]["parent"] = "rebound"
      BY <2>1, <3>3 DEF DrainFits
    <3>4. Parent[d] = c => d \in Descendants(c)
      BY DEF Descendants
    <3> QED BY <1>1, <3>1, <3>2, <3>3, <3>4
  <2>5. ContextFits(d)'
    BY <1>1, <2>1, <2>2, <2>4 DEF ContextFits
  <2>6. {"root", "parent"} \subseteq Waiters
    BY DEF Waiters
  <2>7. drain'[d]["root"] = drain[d]["root"] /\ drain'[d]["parent"] \in {drain[d]["parent"], "none"}
    BY <1>7, <2>6
  <2>8. Waited(d, "root")' /\ Waited(d, "parent")'
    BY <1>1, <2>1, <2>2, <2>7 DEF Waited, DrainFits
  <2>9. drain'[d]["parent"] # "none" => Serving(Parent[d], gen[Parent[d]])' /\ gen'[Parent[d]] \in settled'[Parent[d]]
    <3>1. drain'[d]["parent"] # "none" =>
            Serving(Parent[d], gen[Parent[d]]) /\ gen[Parent[d]] \in settled[Parent[d]] /\ Parent[d] \in Kids /\ Parent[d] # c
      BY <1>8, <2>1, <2>7 DEF DrainFits, Serving
    <3> QED BY <1>1, <1>4, <1>5, <3>1
  <2>10. DrainFits(d)'
    BY <1>1, <2>1, <2>2, <2>7, <2>8, <2>9 DEF DrainFits
  <2> QED BY <2>3, <2>5, <2>10 DEF Fits
<1>11. RootFits'
  <2>1. "root" \in Waiters /\ RootFits /\ \A d \in Kids : drain'[d]["root"] = drain[d]["root"]
    BY <1>7 DEF Waiters, RestoredInv
  <2> QED BY <1>1, <2>1 DEF RootFits, Leaving
<1> QED BY <1>2, <1>9, <1>10, <1>11 DEF RestoredInv, Fits

-----------------------------------------------------------------------------
(* The theorems.                                                           *)

LEMMA RestoredInitInv == RestoredInit => RestoredInv
<1> SUFFICES ASSUME RestoredInit PROVE RestoredInv
  OBVIOUS
<1>1. ChildInv
  BY QuietInv DEF RestoredInit, Ended
<1>2. RestoredTypeOK
  BY Bounds DEF RestoredInit, RestoredTypeOK
<1>3. \A c \in Kids : phase[c] = "none" /\ ~Startable(c) /\ Idle(c)
  BY DEF RestoredInit, Quiet, Startable, Resuming, Idle, Up
<1>4. \A c \in Kids : WrapFits(c)
  BY <1>3 DEF WrapFits, RestoredInit, Resuming, Idle
<1>5. \A c \in Kids : ContextFits(c)
  BY <1>3 DEF ContextFits, RestoredInit
<1>6. \A c \in Kids : DrainFits(c)
  BY DEF DrainFits, Waited, RestoredInit, Waiters
<1>7. RootFits
  BY DEF RootFits, Leaving, RestoredInit
<1> QED BY <1>1, <1>2, <1>4, <1>5, <1>6, <1>7 DEF RestoredInv

LEMMA RestoredStepInv ==
  ASSUME RestoredInv, [RestoredNext]_restoredVars
  PROVE  RestoredInv'
<1>1. CASE UNCHANGED restoredVars
  <2>1. UNCHANGED <<childVars, wrap, live, suspended, cancelled, bound, stale, home, drain, awaited, binding, root>>
    BY <1>1 DEF restoredVars, wrapVars
  <2>2. ChildInv' /\ Calm
    BY <2>1, SameCalm DEF RestoredInv
  <2>3. RestoredTypeOK' /\ RootFits' /\ (Leaving <=> Leaving')
    BY <2>1 DEF RestoredInv, RestoredTypeOK, RootFits, Leaving
  <2>4. ASSUME NEW d \in Kids PROVE Fits(d)'
    <3>1. WrapFits(d) /\ ContextFits(d) /\ DrainFits(d)
      BY DEF RestoredInv
    <3>2. Unsettled(d)' <=> Unsettled(d)
      BY <2>1 DEF childVars, Unsettled
    <3> QED BY <2>1, <2>2, <2>3, <3>1, <3>2, WrapStays, ContextStays, DrainStays DEF Fits, ContextFits
  <2> QED BY <2>2, <2>3, <2>4 DEF RestoredInv, Fits
<1>2. CASE \E c \in Kids : BindDescendants(c)
  BY <1>2, BindDescendantsKeeps
<1>3. CASE binding = {} /\ (RootStops \/ RootDrains \/ RootReturns)
  <2>1. CASE Kids = {}
    <3>1. ChildInv'
      BY <1>3, SameCalm, DrainBegins DEF RestoredInv, RootStops, RootReturns
    <3> QED BY <1>3, <2>1, <3>1, DrainBegins DEF RestoredInv, RestoredTypeOK, RootFits, Leaving, RootStops, RootReturns
  <2>2. ASSUME NEW c \in Kids PROVE RestoredInv'
    BY <1>3, DrainBegins, StillSteps
  <2> QED BY <2>1, <2>2
<1>4. ASSUME binding = {}, NEW c \in Kids,
             WrapResume(c) \/ WrapStep(c) \/ WrapStop(c) \/ HandleStep(c) \/ Starts(c) \/ DrainStep(c) \/ EndStep(c)
             \/ RootStopsChild(c)
      PROVE  RestoredInv'
  <2>1. CASE WrapResume(c)
    BY <1>4, <2>1, WrapResumeKeeps
  <2>2. CASE WrapStep(c)
    BY <1>4, <2>2, RetiredKeeps, CreatingKeeps, ResumedKeeps, WrapReturnsKeeps DEF WrapStep
  <2>3. CASE WrapStop(c) \/ HandleStep(c) \/ RootStopsChild(c)
    BY <1>4, <2>3, StillSteps
  <2>4. CASE Starts(c)
    BY <1>4, <2>4, StillSteps, StartsKeeps
  <2>5. CASE DrainStep(c)
    <3>1. CASE \E by \in Waiters : DrainStops(c, by) \/ WaitEnds(c, by)
      BY <1>4, <3>1, AwaitKeeps
    <3>2. CASE StopWaits(c)
      BY <1>4, <3>2, AwaitKeeps DEF Waiters
    <3>3. CASE DrainDescendants(c) \/ RebindDescendants(c)
      BY <1>4, <3>3, DrainBegins, RebindKeeps
    <3> QED BY <2>5, <3>1, <3>2, <3>3 DEF DrainStep
  <2>6. CASE EndStep(c)
    BY <1>4, <2>6, EndKeeps DEF EndStep
  <2> QED BY <1>4, <2>1, <2>2, <2>3, <2>4, <2>5, <2>6
<1> QED BY <1>1, <1>2, <1>3, <1>4 DEF RestoredNext

(***************************************************************************)
(* Every reachable state of the restored children satisfies the inductive  *)
(* invariant, that of their handles (ChildInv) included.                   *)
(***************************************************************************)
THEOREM RestoredInvariant == RestoredSpec => []RestoredInv
<1>1. RestoredInit => RestoredInv
  BY RestoredInitInv
<1>2. RestoredInv /\ [RestoredNext]_restoredVars => RestoredInv'
  BY RestoredStepInv
<1> QED BY <1>1, <1>2, PTL DEF RestoredSpec

(***************************************************************************)
(* The wrapper's state, the bindings and the drains (restore.ts,           *)
(* engine.ts) keep to their types.                                         *)
(***************************************************************************)
THEOREM RestoredTypeCorrect == RestoredSpec => []RestoredTypeOK
<1>1. RestoredInv => RestoredTypeOK
  BY DEF RestoredInv
<1> QED BY <1>1, RestoredInvariant, PTL

(***************************************************************************)
(* What restored children share, slots and server names, is accounted for  *)
(* as it is for spawned ones, through every restore, binding and drain.    *)
(***************************************************************************)
THEOREM RestoredClaimsKept == RestoredSpec => []ClaimsAccounted
<1>1. RestoredInv => ClaimsAccounted
  BY DEF RestoredInv, ChildInv, ClaimsAccounted
<1> QED BY <1>1, RestoredInvariant, PTL

(***************************************************************************)
(* From the end of the root session's drain (engine.ts 11168), and so      *)
(* before it ends its pump and its MCP clients, no engine of a restored    *)
(* child is up and no resume is under way, whatever was being resumed,     *)
(* bound or drained when the drain began.                                  *)
(***************************************************************************)
THEOREM NothingOutlives == RestoredSpec => []NothingOutlivesRoot
<1>1. RestoredInv => NothingOutlivesRoot
  <2>1. SUFFICES ASSUME RestoredInv, root \in {"stopping", "done"}, NEW c \in Kids
                 PROVE  phase[c] = "none" /\ wrap[c] = "none" /\ \A g \in Gens : ~Up(c, g)
    BY DEF NothingOutlivesRoot
  <2>2. WrapFits(c) /\ DrainFits(c) /\ RootFits /\ phase[c] \in {"none", "spawning"} \cup Resuming
    BY <2>1 DEF RestoredInv, ChildInv, ChildTypeOK
  <2>3. wrap[c] = "none" /\ Idle(c)
    BY <2>1, <2>2 DEF RootFits, DrainFits, Waited
  <2> QED BY <2>2, <2>3 DEF WrapFits, Idle
<1> QED BY <1>1, RestoredInvariant, PTL

(***************************************************************************)
(* A generation of a restored child runs alone and on a living context;    *)
(* a resume that may start one was made from the binding in force.         *)
(***************************************************************************)
THEOREM ContextIsInForce == RestoredSpec => []ContextInForce
<1>1. RestoredInv => ContextInForce
  <2> SUFFICES ASSUME RestoredInv PROVE ContextInForce
    OBVIOUS
  <2>1. ASSUME NEW c \in Kids, gen[c] > 0, c \in live, Up(c, gen[c])
        PROVE  IF home[c] = 0 THEN root \in {"up", "draining"} ELSE Up(Parent[c], home[c])
    <3>1. ContextFits(c) /\ DrainFits(c) /\ RootFits /\ gen[c] \in Gens
      BY <2>1, RestoredTypes, Bounds DEF RestoredInv, Gens
    <3>2. ~Idle(c)
      BY <2>1, <3>1 DEF Idle
    <3>3. root \in {"up", "draining"}
      BY <3>1, <3>2 DEF RootFits, DrainFits, Waited, RestoredInv, RestoredTypeOK
    <3>4. home[c] = 0 \/ Up(Parent[c], home[c])
      BY <3>1, <3>2 DEF ContextFits, Serving, Up
    <3> QED BY <3>3, <3>4
  <2>2. FreshContext
    BY DEF FreshContext, RestoredInv, ContextFits, Startable
  <2>3. NoOverlap
    BY DEF NoOverlap, RestoredInv, WrapFits
  <2> QED BY <2>1, <2>2, <2>3 DEF ContextInForce, ContextAlive
<1> QED BY <1>1, RestoredInvariant, PTL

\* Only a drain, or the root's stop, ends its wait for a pending resume.
LEMMA WaitsForResume ==
  ASSUME RestoredInv, RestoredNext, NEW c \in Kids, NEW by \in Waiters,
         drain[c][by] = "resumes", drain'[c][by] = "engine"
  PROVE  DrainStops(c, by) \/ StopWaits(c)
<1>1. drain[c] \in [Waiters -> {"none", "resumes", "engine", "over", "rebound"}] /\ drain' # drain
  BY RestoredTypes
<1>2. \A S, b : CloseGates(S, b) => drain'[c][by] # "engine"
  BY <1>1 DEF CloseGates
<1>3. ASSUME NEW p \in Kids PROVE ~DrainDescendants(p) /\ ~RebindDescendants(p) /\ ~BindDescendants(p)
  BY <1>1, <1>2 DEF DrainDescendants, RebindDescendants, BindDescendants
<1>4. ASSUME NEW p \in Kids, NEW g \in Gens PROVE ~Returns(p, g) /\ ~Refused(p, g)
  BY <1>1 DEF Returns, Refused, wrapVars
<1>5. ~RootStops /\ ~RootDrains /\ ~RootReturns
  BY <1>1, <1>2 DEF RootStops, RootDrains, RootReturns
<1>6. ASSUME NEW p \in Kids
      PROVE  ~(WrapResume(p) \/ WrapStep(p) \/ WrapStop(p) \/ HandleStep(p) \/ Starts(p))
  BY <1>1 DEF WrapResume, WrapStep, Retired, Created, CreateFails, WrapReturns, WrapStop, HandleStep, Starts, wrapVars
<1>7. \A p \in Kids, b \in Waiters, v \in {"resumes", "engine", "over"} :
        drain' = [drain EXCEPT ![p][b] = v] => p = c /\ b = by /\ v = "engine"
  <2>1. {"resumes", "engine", "over"} \subseteq {"none", "resumes", "engine", "over", "rebound"}
    OBVIOUS
  <2>2. ASSUME NEW p \in Kids, NEW b \in Waiters, NEW v \in {"resumes", "engine", "over"}, drain' = [drain EXCEPT ![p][b] = v]
        PROVE  \A d \in Kids, a \in Waiters : drain'[d][a] = IF d = p /\ a = b THEN v ELSE drain[d][a]
    <3>1. v \in {"none", "resumes", "engine", "over", "rebound"}
      BY <2>1
    <3> QED BY <2>2, <3>1, RestoredTypes, WaitUpdated
  <2> QED BY <2>2
<1>8. ASSUME NEW p \in Kids PROVE ~RootStopsChild(p)
  BY <1>7 DEF RootStopsChild, Waiters
<1>9. ASSUME NEW p \in Kids, NEW b \in Waiters PROVE ~WaitEnds(p, b)
  BY <1>7 DEF WaitEnds
<1>10. ASSUME NEW p \in Kids, NEW b \in Waiters, DrainStops(p, b) PROVE DrainStops(c, by)
  BY <1>7, <1>10 DEF DrainStops, ResumeAwaited
<1>11. ASSUME NEW p \in Kids, StopWaits(p) PROVE StopWaits(c)
  BY <1>7, <1>11 DEF StopWaits, ResumeAwaited, Waiters
<1> QED BY <1>3, <1>4, <1>5, <1>6, <1>8, <1>9, <1>10, <1>11 DEF RestoredNext, DrainStep, EndStep

(***************************************************************************)
(* A drain stops a running generation and never a resume, whose own undo   *)
(* puts the child's outcome back (cancelPendingResume, not stop, is what   *)
(* the drain of restore.ts calls on it).                                   *)
(***************************************************************************)
THEOREM DrainsKeepOutcome == RestoredSpec => DrainKeepsOutcome
<1>1. ASSUME RestoredInv, [RestoredNext]_restoredVars, NEW c \in Kids, NEW by \in Waiters,
             drain[c][by] = "resumes", drain'[c][by] = "engine", status'[c] # status[c]
      PROVE  Unsettled(c)
  <2>1. RestoredNext
    BY <1>1 DEF restoredVars, wrapVars
  <2>2. DrainStops(c, by) \/ StopWaits(c)
    BY <1>1, <2>1, WaitsForResume
  <2>3. wrap[c] = "none" /\ Stop(c)
    BY <1>1, <2>2 DEF DrainStops, StopWaits, childVars
  <2>4. phase[c] \notin Resuming
    BY <1>1, <2>3 DEF RestoredInv, WrapFits
  <2> QED BY <2>3, <2>4 DEF Stop, Settle
<1>2. RestoredInv /\ [RestoredNext]_restoredVars =>
        [\A c \in Kids, by \in Waiters :
           drain[c][by] = "resumes" /\ drain'[c][by] = "engine" /\ status'[c] # status[c] => Unsettled(c)]_restoredVars
  BY <1>1
<1> QED BY <1>2, RestoredInvariant, PTL DEF RestoredSpec, DrainKeepsOutcome

=============================================================================
