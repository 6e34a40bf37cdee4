------------------------ MODULE WorkflowReplayProofs ------------------------
(***************************************************************************)
(* Proofs about WorkflowReplay, for any set of scripts and any number of   *)
(* resumes.                                                                *)
(*                                                                         *)
(* A run is in one of three stages: it has called nothing live and nothing *)
(* is on its way (Fresh); the length of the replayed prefix is the first   *)
(* frame in the pipe (Reporting); or the prefix is in the run's journal    *)
(* (Carried).  A journal's entries are true of the run that wrote them,    *)
(* and this is what makes a replay of them true of the run they seed.      *)
(***************************************************************************)
EXTENDS WorkflowReplay, SequenceTheorems, TLAPS

-----------------------------------------------------------------------------
(* The inductive invariant.                                                *)

\* The types, with the history of the resumed run.
TypesHold ==
  /\ script \in Scripts /\ run \in 1..MaxRuns /\ phase \in {"live", "stopped", "over"}
  /\ seed \in Seq(Entries) /\ journal \in Seq(Entries)
  /\ issued \in 0..Len(script)
  /\ diverged \in BOOLEAN
  /\ served \subseteq 1..issued /\ inService \subseteq 1..issued
  /\ answer \in [1..Len(script) -> Values \cup {Pending, Null}]
  /\ pipe \in Seq(Frames)
  /\ prior.script \in Seq(Keys)
  /\ prior.script \in Scripts \cup {<<>>}

\* A frame of the pipe that tells the length of the replayed prefix.
Telling(i) == pipe[i].op = "resumed"

\* The worker has said that the script is over.
Told == \E i \in 1..Len(pipe) : pipe[i].op = "done"

Fresh == pipe = <<>> /\ journal = <<>> /\ inService = {} /\ ~diverged

Reporting ==
  /\ pipe # <<>> /\ Telling(1) /\ served = 1..pipe[1].n
  /\ \A i \in 2..Len(pipe) : ~Telling(i)
  /\ journal = <<>> /\ inService = {}

Carried ==
  /\ \A i \in 1..Len(pipe) : ~Telling(i)
  /\ \A i \in served : i <= Len(journal) /\ journal[i] = seed[i]

\* A run that has replayed every call says so as it ends.
Stages == Fresh \/ ((Reporting \/ Carried) /\ (diverged \/ (issued = Len(script) /\ (phase = "live" => Told))))

\* What has been replayed: nothing but the seed, from its start, as long as no
\* call has differed.
Replayed ==
  /\ ServedPrefix
  /\ ~diverged => served = 1..issued
  /\ \A i \in served : i <= Len(seed) /\ seed[i].key = script[i] /\ answer[i] = seed[i].value

\* A call on its way, in the pipe or in service, is there once and unanswered.
Unanswered ==
  /\ \A i \in 1..Len(script) : i > issued => answer[i] = Pending
  /\ \A i \in inService : answer[i] = Pending
  /\ \A i \in 1..Len(pipe) : pipe[i].op = "agent" =>
       pipe[i].n \in 1..issued /\ pipe[i].n \notin inService /\ answer[pipe[i].n] = Pending
  /\ \A i, j \in 1..Len(pipe) : pipe[i].op = "agent" /\ pipe[j].op = "agent" /\ pipe[i].n = pipe[j].n => i = j

\* An entry's value is the answer of the call with its key.
JournalTrue ==
  \A m \in 1..Len(journal), j \in 1..Len(script) : script[j] = journal[m].key => answer[j] = journal[m].value

SeedTrue ==
  \A m \in 1..Len(seed), j \in 1..Len(prior.script) :
    prior.script[j] = seed[m].key => prior.answer[j] = seed[m].value

ReplayInv ==
  /\ TypesHold
  /\ Stages
  /\ Replayed
  /\ Unanswered
  /\ KeysDiffer => JournalTrue /\ SeedTrue

-----------------------------------------------------------------------------
(* Sequences and values.                                                   *)

LEMMA ScriptFacts ==
  ASSUME NEW s \in Scripts
  PROVE  s \in Seq(Keys) /\ Len(s) \in Nat /\ \A i \in 1..Len(s) : s[i] \in Keys
<1>1. s \in Seq(Keys)
  BY ReplayAssumption
<1> QED BY <1>1, LenProperties, ElementOfSeq

\* A call that was answered with a value is neither pending nor failed.
LEMMA ValuesAnswer == Pending \notin Values /\ Null \notin Values /\ Pending # Null
<1>1. \A v \in Values : Len(v) = 2
  BY DEF Values
<1> QED BY <1>1 DEF Pending, Null

\* A frame joins the pipe.
LEMMA PipeGrows ==
  ASSUME NEW s \in Seq(Frames), NEW f \in Frames
  PROVE  /\ s \o <<f>> \in Seq(Frames) /\ s \o <<f>> # <<>> /\ Len(s \o <<f>>) = Len(s) + 1 /\ Len(s) \in Nat
         /\ \A i \in 1..Len(s) : i \in 1..(Len(s) + 1) /\ (s \o <<f>>)[i] = s[i]
         /\ (s \o <<f>>)[Len(s) + 1] = f
         /\ \A i \in 1..(Len(s) + 1) : i \in 1..Len(s) \/ i = Len(s) + 1
<1>1. s \o <<f>> = Append(s, f)
  BY AppendIsConcat
<1>2. Len(s) \in Nat
  BY LenProperties
<1> QED BY <1>1, <1>2, AppendProperties

\* Two frames enter an empty pipe.
LEMMA PipeOpens ==
  ASSUME NEW f \in Frames, NEW h \in Frames
  PROVE  /\ <<>> \o <<f, h>> \in Seq(Frames) /\ Len(<<>> \o <<f, h>>) = 2 /\ <<>> \o <<f, h>> # <<>>
         /\ (<<>> \o <<f, h>>)[1] = f /\ (<<>> \o <<f, h>>)[2] = h
<1>1. <<f, h>> \in Seq(Frames)
  OBVIOUS
<1>2. <<>> \o <<f, h>> = <<f, h>>
  BY <1>1, ConcatEmptySeq
<1> QED BY <1>1, <1>2

\* The first frame leaves the pipe.
LEMMA PipeShrinks ==
  ASSUME NEW s \in Seq(Frames), s # <<>>
  PROVE  /\ Head(s) = s[1] /\ s[1] \in Frames /\ Tail(s) \in Seq(Frames) /\ Len(s) \in Nat /\ 1 \in 1..Len(s)
         /\ Len(Tail(s)) = Len(s) - 1
         /\ \A i \in 1..Len(Tail(s)) : i + 1 \in 2..Len(s) /\ i + 1 \in 1..Len(s) /\ Tail(s)[i] = s[i + 1]
<1>1. /\ Tail(s) \in Seq(Frames) /\ Len(Tail(s)) = Len(s) - 1
      /\ \A i \in 1..Len(Tail(s)) : Tail(s)[i] = s[i + 1]
  BY HeadTailProperties
<1>2. Len(s) \in Nat /\ Len(s) >= 1 /\ Head(s) = s[1]
  BY EmptySeq, LenProperties
<1>3. s[1] \in Frames
  BY <1>2, ElementOfSeq
<1> QED BY <1>1, <1>2, <1>3

LEMMA FrameFacts ==
  ASSUME NEW n \in Nat
  PROVE  /\ Frame("resumed", n) \in Frames /\ Frame("resumed", n).op = "resumed" /\ Frame("resumed", n).n = n
         /\ Frame("agent", n) \in Frames /\ Frame("agent", n).op = "agent" /\ Frame("agent", n).n = n
         /\ Frame("done", n) \in Frames /\ Frame("done", n).op = "done" /\ Frame("done", n).n = n
  BY DEF Frame, Frames

-----------------------------------------------------------------------------
(* The steps.                                                              *)

\* What the steps below use of the types.
LEMMA Numbers ==
  ASSUME TypesHold
  PROVE  /\ issued \in Nat /\ Len(script) \in Nat /\ Len(seed) \in Nat /\ Len(journal) \in Nat /\ Len(pipe) \in Nat
         /\ \A i \in served : i \in Nat /\ i >= 1 /\ i <= issued /\ i \in 1..Len(script)
         /\ \A i \in inService : i \in 1..Len(script) /\ i <= issued
         /\ \A i \in 1..Len(seed) : seed[i] \in Entries
         /\ \A i \in 1..Len(script) : script[i] \in Keys
<1>1. script \in Scripts /\ seed \in Seq(Entries) /\ journal \in Seq(Entries) /\ pipe \in Seq(Frames)
  BY DEF TypesHold
<1>2. /\ Len(script) \in Nat /\ Len(seed) \in Nat /\ Len(journal) \in Nat /\ Len(pipe) \in Nat
      /\ \A i \in 1..Len(seed) : seed[i] \in Entries
      /\ \A i \in 1..Len(script) : script[i] \in Keys
  BY <1>1, ScriptFacts, LenProperties, ElementOfSeq
<1>3. issued \in Nat /\ issued <= Len(script) /\ served \subseteq 1..issued /\ inService \subseteq 1..issued
  BY <1>2 DEF TypesHold
<1> QED BY <1>2, <1>3

\* A call is replayed.
LEMMA CachedStep ==
  ASSUME ReplayInv, AgentCached
  PROVE  ReplayInv'
<1>1. TypesHold /\ Replayed /\ Unanswered
  BY DEF ReplayInv
<1>2. /\ ~diverged /\ issued < Len(script) /\ Call \in 1..Len(seed) /\ seed[Call].key = script[Call]
      /\ issued' = Call /\ answer' = [answer EXCEPT ![Call] = seed[Call].value] /\ served' = served \cup {Call}
      /\ UNCHANGED <<script, run, phase, seed, journal, diverged, pipe, inService, prior>>
  BY DEF AgentCached, CachedHere
<1>3. PICK c \in 1..Len(seed) : c = Call /\ c = issued + 1
  BY <1>2 DEF Call
<1>4. issued \in Nat /\ Len(script) \in Nat /\ c \in Nat /\ c \in 1..Len(script) /\ c \in 0..Len(script)
  BY <1>1, <1>2, <1>3, Numbers
<1>5. seed[c] \in Entries /\ seed[c].value \in Values
  BY <1>1, <1>3, Numbers DEF Entries
<1>6. answer \in [1..Len(script) -> Values \cup {Pending, Null}]
  BY <1>1 DEF TypesHold
<1>7. \A i \in 1..Len(script) : answer'[i] = IF i = c THEN seed[c].value ELSE answer[i]
  BY <1>2, <1>3, <1>4, <1>6
<1>8. served = 1..issued /\ served' = 1..c
  BY <1>1, <1>2, <1>3, <1>4 DEF Replayed
<1>9. TypesHold'
  <2>1. answer' \in [1..Len(script) -> Values \cup {Pending, Null}]
    BY <1>2, <1>3, <1>4, <1>5, <1>6
  <2>2. inService \subseteq 1..c
    BY <1>1, <1>3, <1>4 DEF TypesHold
  <2> QED BY <1>1, <1>2, <1>3, <1>4, <1>8, <2>1, <2>2 DEF TypesHold
<1>10. Fresh /\ Fresh'
  <2>1. Fresh
    BY <1>2, <1>4 DEF ReplayInv, Stages
  <2> QED BY <1>2, <2>1 DEF Fresh
<1>11. Replayed'
  <2>1. ServedPrefix'
    BY <1>4, <1>8 DEF ServedPrefix
  <2>2. \A i \in served' : i <= Len(seed) /\ seed[i].key = script[i] /\ answer'[i] = seed[i].value
    <3> SUFFICES ASSUME NEW i \in 1..c PROVE i <= Len(seed) /\ seed[i].key = script[i] /\ answer'[i] = seed[i].value
      BY <1>8
    <3>1. CASE i = c
      BY <1>1, <1>2, <1>3, <1>4, <1>7, <3>1, Numbers
    <3>2. CASE i # c
      <4>1. i \in served /\ i \in 1..Len(script)
        BY <1>3, <1>4, <1>8, <3>2
      <4> QED BY <1>1, <1>7, <3>2, <4>1 DEF Replayed
    <3> QED BY <3>1, <3>2
  <2>3. served' = 1..issued'
    BY <1>2, <1>3, <1>8
  <2> QED BY <1>2, <2>1, <2>2, <2>3 DEF Replayed
<1>12. Unanswered'
  <2>1. \A i \in 1..Len(script) : i > c => answer'[i] = Pending
    BY <1>1, <1>3, <1>4, <1>7 DEF Unanswered
  <2> QED BY <1>2, <1>3, <1>10, <2>1 DEF Unanswered, Fresh
<1>13. JournalTrue' /\ (KeysDiffer => SeedTrue')
  BY <1>2, <1>10 DEF JournalTrue, SeedTrue, Fresh, ReplayInv
<1> QED BY <1>9, <1>10, <1>11, <1>12, <1>13 DEF ReplayInv, Stages

\* A call goes to the parent.
LEMMA LiveStep ==
  ASSUME ReplayInv, AgentLive
  PROVE  ReplayInv'
<1>1. TypesHold /\ Replayed /\ Unanswered
  BY DEF ReplayInv
<1>2. /\ issued < Len(script) /\ issued' = Call /\ diverged' = TRUE
      /\ pipe' = pipe \o (IF diverged THEN <<Frame("agent", Call)>>
                          ELSE <<Frame("resumed", issued), Frame("agent", Call)>>)
      /\ UNCHANGED <<script, run, phase, seed, journal, served, answer, inService, prior>>
  BY DEF AgentLive
<1>3. issued \in Nat /\ Len(script) \in Nat /\ pipe \in Seq(Frames) /\ Len(pipe) \in Nat
  BY <1>1, Numbers DEF TypesHold
<1>4. PICK c \in Nat : c = Call /\ c = issued + 1
  BY <1>3 DEF Call
<1>5. c \in 1..Len(script) /\ c \in 1..c /\ answer[c] = Pending
  BY <1>1, <1>2, <1>3, <1>4 DEF Unanswered
<1>6. Frame("resumed", issued) \in Frames /\ Frame("agent", c) \in Frames
  BY <1>3, FrameFacts
<1>7. /\ \A i \in inService : i <= issued /\ i # c /\ i \in Nat
      /\ \A i \in served : i <= issued /\ i \in Nat
  BY <1>1, <1>3, <1>4, Numbers
<1>8. Replayed'
  BY <1>1, <1>2 DEF Replayed, ServedPrefix
<1>9. TypesHold' /\ Stages' /\ Unanswered'
  <2>1. ASSUME pipe' \in Seq(Frames) PROVE TypesHold'
    <3>1. served \subseteq 1..c /\ inService \subseteq 1..c /\ c \in 0..Len(script)
      BY <1>1, <1>3, <1>4, <1>5 DEF TypesHold
    <3> QED BY <1>1, <1>2, <1>4, <2>1, <3>1 DEF TypesHold
  <2>2. \A i \in 1..Len(script) : i > c => answer[i] = Pending
    BY <1>1, <1>3, <1>4 DEF Unanswered
  <2>3. CASE diverged
    <3>1. pipe' = pipe \o <<Frame("agent", c)>>
      BY <1>2, <1>4, <2>3
    <3>2. /\ pipe' \in Seq(Frames) /\ pipe' # <<>> /\ Len(pipe') = Len(pipe) + 1
          /\ \A i \in 1..Len(pipe) : pipe'[i] = pipe[i]
          /\ pipe'[Len(pipe) + 1].op = "agent" /\ pipe'[Len(pipe) + 1].n = c
          /\ \A i \in 1..(Len(pipe) + 1) : i \in 1..Len(pipe) \/ i = Len(pipe) + 1
      BY <1>3, <1>4, <1>6, <3>1, PipeGrows, FrameFacts
    <3>3. Reporting \/ Carried
      BY <2>3 DEF ReplayInv, Stages, Fresh
    <3>4. Reporting' \/ Carried'
      <4>1. CASE Carried
        BY <1>2, <3>2, <4>1 DEF Carried, Telling
      <4>2. CASE Reporting
        <5>1. 1 \in 1..Len(pipe)
          BY <1>3, <4>2, EmptySeq DEF Reporting
        <5>2. \A i \in 2..Len(pipe') : i = Len(pipe) + 1 \/ i \in 2..Len(pipe)
          BY <1>3, <3>2
        <5>3. \A i \in 2..Len(pipe) : i \in 1..Len(pipe)
          OBVIOUS
        <5>4. \A i \in 2..Len(pipe') : pipe'[i].op # "resumed"
          BY <3>2, <4>2, <5>2, <5>3 DEF Reporting, Telling
        <5> QED BY <1>2, <3>2, <4>2, <5>1, <5>4 DEF Reporting, Telling
      <4> QED BY <3>3, <4>1, <4>2
    <3>5. \A i \in 1..Len(pipe) : pipe[i].op = "agent" =>
            /\ pipe[i].n \in 1..c /\ pipe[i].n # c /\ pipe[i].n \notin inService /\ answer[pipe[i].n] = Pending
      <4>1. \A n \in 1..issued : n \in 1..c /\ n # c
        BY <1>3, <1>4
      <4> QED BY <1>1, <4>1 DEF Unanswered
    <3>6. Unanswered'
      <4>1. \A i \in 1..Len(pipe') : pipe'[i].op = "agent" =>
              pipe'[i].n \in 1..c /\ pipe'[i].n \notin inService /\ answer[pipe'[i].n] = Pending
        BY <1>5, <1>7, <3>2, <3>5
      <4>2. \A i, j \in 1..Len(pipe') :
              pipe'[i].op = "agent" /\ pipe'[j].op = "agent" /\ pipe'[i].n = pipe'[j].n => i = j
        BY <1>1, <3>2, <3>5 DEF Unanswered
      <4> QED BY <1>1, <1>2, <1>4, <2>2, <4>1, <4>2 DEF Unanswered
    <3> QED BY <1>2, <2>1, <3>2, <3>4, <3>6 DEF Stages
  <2>4. CASE ~diverged
    <3>1. Fresh
      BY <1>2, <1>3, <2>4 DEF ReplayInv, Stages
    <3>2. pipe' = <<>> \o <<Frame("resumed", issued), Frame("agent", c)>>
      BY <1>2, <1>4, <2>4, <3>1 DEF Fresh
    <3>3. /\ pipe' \in Seq(Frames) /\ Len(pipe') = 2 /\ pipe' # <<>>
          /\ pipe'[1].op = "resumed" /\ pipe'[1].n = issued
          /\ pipe'[2].op = "agent" /\ pipe'[2].n = c
      BY <1>3, <1>4, <1>6, <3>2, PipeOpens, FrameFacts
    <3>4. /\ \A i \in 2..Len(pipe') : i = 2
          /\ \A i \in 1..Len(pipe') : i = 1 \/ i = 2
      BY <3>3
    <3>5. Reporting'
      BY <1>1, <1>2, <2>4, <3>1, <3>3, <3>4 DEF Reporting, Telling, Fresh, Replayed
    <3>6. Unanswered'
      BY <1>2, <1>4, <1>5, <1>7, <2>2, <3>1, <3>3, <3>4 DEF Unanswered, Fresh
    <3> QED BY <1>2, <2>1, <3>3, <3>5, <3>6 DEF Stages
  <2> QED BY <2>3, <2>4
<1>10. KeysDiffer => JournalTrue' /\ SeedTrue'
  BY <1>2 DEF JournalTrue, SeedTrue, ReplayInv
<1> QED BY <1>8, <1>9, <1>10 DEF ReplayInv

\* The script returns.
LEMMA EndsStep ==
  ASSUME ReplayInv, ScriptEnds
  PROVE  ReplayInv'
<1>1. TypesHold /\ Replayed /\ Unanswered
  BY DEF ReplayInv
<1>2. /\ phase = "live" /\ issued = Len(script) /\ ~Told
      /\ pipe' = pipe \o (IF ~diverged /\ seed # <<>>
                          THEN <<Frame("resumed", issued), Frame("done", 0)>> ELSE <<Frame("done", 0)>>)
      /\ UNCHANGED <<script, run, phase, seed, journal, issued, diverged, served, answer, inService, prior>>
  BY DEF ScriptEnds, Told
<1>3. issued \in Nat /\ pipe \in Seq(Frames) /\ Len(pipe) \in Nat
  BY <1>1, Numbers DEF TypesHold
<1>4. Frame("resumed", issued) \in Frames /\ Frame("done", 0) \in Frames /\ Frame("done", 0).op = "done"
  BY <1>3, FrameFacts
<1>5. Replayed' /\ (KeysDiffer => JournalTrue' /\ SeedTrue')
  BY <1>1, <1>2 DEF Replayed, ServedPrefix, JournalTrue, SeedTrue, ReplayInv
<1>6. ~diverged => Fresh
  BY <1>2 DEF ReplayInv, Stages
<1>7. CASE ~diverged /\ seed # <<>>
  <2>1. pipe' = <<>> \o <<Frame("resumed", issued), Frame("done", 0)>>
    BY <1>2, <1>6, <1>7 DEF Fresh
  <2>2. /\ pipe' \in Seq(Frames) /\ Len(pipe') = 2 /\ pipe' # <<>>
        /\ pipe'[1].op = "resumed" /\ pipe'[1].n = issued /\ pipe'[2].op = "done"
    BY <1>3, <1>4, <2>1, PipeOpens, FrameFacts
  <2>3. /\ \A i \in 2..Len(pipe') : i = 2
        /\ \A i \in 1..Len(pipe') : i = 1 \/ i = 2
        /\ 2 \in 1..Len(pipe')
    BY <2>2
  <2>4. Reporting' /\ Told'
    BY <1>1, <1>2, <1>6, <1>7, <2>2, <2>3 DEF Reporting, Telling, Fresh, Replayed, Told
  <2>5. Unanswered'
    BY <1>1, <1>2, <2>2, <2>3 DEF Unanswered
  <2>6. TypesHold'
    BY <1>1, <1>2, <2>2 DEF TypesHold
  <2> QED BY <1>2, <1>5, <2>4, <2>5, <2>6 DEF ReplayInv, Stages
<1>8. CASE ~(~diverged /\ seed # <<>>)
  <2>1. pipe' = pipe \o <<Frame("done", 0)>>
    BY <1>2, <1>8
  <2>2. /\ pipe' \in Seq(Frames) /\ pipe' # <<>> /\ Len(pipe') = Len(pipe) + 1
        /\ \A i \in 1..Len(pipe) : i \in 1..Len(pipe') /\ pipe'[i] = pipe[i]
        /\ pipe'[Len(pipe) + 1].op = "done"
        /\ \A i \in 1..(Len(pipe) + 1) : i \in 1..Len(pipe) \/ i = Len(pipe) + 1
        /\ Len(pipe) + 1 \in 1..Len(pipe')
    BY <1>3, <1>4, <2>1, PipeGrows
  <2>3. Told'
    BY <2>2 DEF Told
  <2>4. Reporting' \/ Carried'
    <3>1. CASE ~diverged
      <4>1. seed = <<>> /\ served = {} /\ pipe = <<>>
        BY <1>1, <1>6, <1>8, <3>1, Numbers DEF Replayed, Fresh
      <4> QED BY <1>2, <2>2, <4>1 DEF Carried, Telling
    <3>2. CASE diverged /\ Carried
      BY <1>2, <2>2, <3>2 DEF Carried, Telling
    <3>3. CASE diverged /\ Reporting
      <4>1. 1 \in 1..Len(pipe)
        BY <1>3, <3>3, EmptySeq DEF Reporting
      <4>2. \A i \in 2..Len(pipe') : i = Len(pipe) + 1 \/ i \in 2..Len(pipe)
        BY <1>3, <2>2
      <4>3. \A i \in 2..Len(pipe) : i \in 1..Len(pipe)
        OBVIOUS
      <4>4. \A i \in 2..Len(pipe') : pipe'[i].op # "resumed"
        BY <2>2, <3>3, <4>2, <4>3 DEF Reporting, Telling
      <4> QED BY <1>2, <2>2, <3>3, <4>1, <4>4 DEF Reporting, Telling
    <3> QED BY <3>1, <3>2, <3>3 DEF ReplayInv, Stages, Fresh
  <2>5. Unanswered'
    BY <1>1, <1>2, <2>2 DEF Unanswered
  <2>6. TypesHold'
    BY <1>1, <1>2, <2>2 DEF TypesHold
  <2> QED BY <1>2, <1>5, <2>3, <2>4, <2>5, <2>6 DEF ReplayInv, Stages
<1> QED BY <1>7, <1>8

\* The parent handles the length of the prefix: the prefix is in the journal.
LEMMA ResumedStep ==
  ASSUME ReplayInv, HandleResumed
  PROVE  ReplayInv'
<1>1. TypesHold /\ Replayed /\ Unanswered
  BY DEF ReplayInv
<1>2. /\ pipe # <<>> /\ Head(pipe).op = "resumed" /\ pipe' = Tail(pipe)
      /\ journal' = journal \o SubSeq(seed, 1, IF Head(pipe).n < Len(seed) THEN Head(pipe).n ELSE Len(seed))
      /\ UNCHANGED <<script, run, phase, seed, issued, diverged, served, answer, inService, prior>>
  BY DEF HandleResumed, Handle
<1>3. pipe \in Seq(Frames)
  BY <1>1 DEF TypesHold
<1>4. /\ Head(pipe) = pipe[1] /\ pipe[1] \in Frames /\ Len(pipe) \in Nat /\ 1 \in 1..Len(pipe)
      /\ pipe' \in Seq(Frames) /\ Len(pipe') = Len(pipe) - 1
      /\ \A i \in 1..Len(pipe') : i + 1 \in 2..Len(pipe) /\ i + 1 \in 1..Len(pipe) /\ pipe'[i] = pipe[i + 1]
  BY <1>2, <1>3, PipeShrinks
<1>5. Reporting
  BY <1>2, <1>4 DEF ReplayInv, Stages, Fresh, Carried, Telling
<1>6. PICK n \in Nat : n = pipe[1].n
  BY <1>4 DEF Frames
<1>7. served = 1..n /\ journal = <<>> /\ inService = {}
  BY <1>5, <1>6 DEF Reporting
<1>8. Len(seed) \in Nat /\ n <= Len(seed)
  BY <1>1, <1>7, Numbers DEF Replayed
<1>9. journal' \in Seq(Entries) /\ Len(journal') = n /\ \A i \in 1..n : journal'[i] = seed[i]
  <2>1. (IF n < Len(seed) THEN n ELSE Len(seed)) = n
    BY <1>8
  <2>2. \A i \in 1..n : seed[i] \in Entries
    BY <1>1, <1>8, Numbers
  <2>3. 1 \in Int /\ n \in Int
    OBVIOUS
  <2>4. /\ SubSeq(seed, 1, n) \in Seq(Entries) /\ Len(SubSeq(seed, 1, n)) = (IF 1 <= n THEN n - 1 + 1 ELSE 0)
        /\ \A i \in 1..(n - 1 + 1) : SubSeq(seed, 1, n)[i] = seed[1 + i - 1]
    BY <2>2, <2>3, SubSeqProperties
  <2>5. journal' = SubSeq(seed, 1, n)
    BY <1>2, <1>4, <1>6, <1>7, <2>1, <2>4, ConcatEmptySeq
  <2>6. n - 1 + 1 = n /\ (IF 1 <= n THEN n - 1 + 1 ELSE 0) = n /\ \A i \in 1..n : 1 + i - 1 = i
    OBVIOUS
  <2>7. \A i \in 1..n : journal'[i] = seed[i]
    BY <2>4, <2>5, <2>6
  <2> QED BY <2>4, <2>5, <2>6, <2>7
<1>10. TypesHold'
  BY <1>1, <1>2, <1>4, <1>9 DEF TypesHold
<1>11. Replayed'
  BY <1>1, <1>2 DEF Replayed, ServedPrefix
<1>12. Stages'
  <2>1. Carried'
    <3>1. \A i \in 1..Len(pipe') : pipe'[i].op # "resumed"
      BY <1>4, <1>5 DEF Reporting, Telling
    <3>2. \A i \in 1..n : i <= Len(journal') /\ journal'[i] = seed[i]
      BY <1>9
    <3>3. served' = 1..n /\ seed' = seed
      BY <1>2, <1>7
    <3> QED BY <3>1, <3>2, <3>3 DEF Carried, Telling
  <2>2. diverged \/ (issued = Len(script) /\ (phase = "live" => Told))
    BY <1>2, <1>4 DEF ReplayInv, Stages, Fresh
  <2>3. Told => Told'
    <3> SUFFICES ASSUME NEW i \in 1..Len(pipe), pipe[i].op = "done" PROVE Told'
      BY DEF Told
    <3>1. i # 1 /\ i - 1 \in 1..Len(pipe')
      BY <1>2, <1>4
    <3>2. pipe'[i - 1] = pipe[(i - 1) + 1]
      BY <1>4, <3>1
    <3>3. (i - 1) + 1 = i
      BY <1>4
    <3> QED BY <3>1, <3>2, <3>3 DEF Told
  <2> QED BY <1>2, <2>1, <2>2, <2>3 DEF Stages
<1>13. Unanswered'
  <2>1. \A i, j \in 1..Len(pipe') : i + 1 = j + 1 => i = j
    BY <1>4
  <2>2. \A i \in 1..Len(pipe') : pipe'[i].op = "agent" =>
          pipe'[i].n \in 1..issued /\ pipe'[i].n \notin inService /\ answer[pipe'[i].n] = Pending
    BY <1>1, <1>4 DEF Unanswered
  <2>3. \A i, j \in 1..Len(pipe') :
          pipe'[i].op = "agent" /\ pipe'[j].op = "agent" /\ pipe'[i].n = pipe'[j].n => i = j
    BY <1>1, <1>4, <2>1 DEF Unanswered
  <2> QED BY <1>1, <1>2, <2>2, <2>3 DEF Unanswered
<1>14. KeysDiffer => JournalTrue' /\ SeedTrue'
  <2> SUFFICES ASSUME KeysDiffer PROVE JournalTrue' /\ SeedTrue'
    OBVIOUS
  <2>1. SeedTrue'
    BY <1>2 DEF SeedTrue, ReplayInv
  <2>2. ASSUME NEW m \in 1..n, NEW j \in 1..Len(script), script[j] = seed[m].key PROVE answer[j] = seed[m].value
    <3>1. m \in served /\ m \in 1..Len(script)
      BY <1>1, <1>7, Numbers
    <3>2. seed[m].key = script[m] /\ answer[m] = seed[m].value
      BY <1>1, <3>1 DEF Replayed
    <3>3. script \in Scripts
      BY <1>1 DEF TypesHold
    <3>4. j = m
      BY <2>2, <3>1, <3>2, <3>3 DEF KeysDiffer
    <3> QED BY <3>2, <3>4
  <2>3. JournalTrue'
    <3>1. script' = script /\ answer' = answer
      BY <1>2
    <3>2. \A m \in 1..n, j \in 1..Len(script) : script[j] = journal'[m].key => answer[j] = journal'[m].value
      BY <1>9, <2>2
    <3> QED BY <1>9, <3>1, <3>2 DEF JournalTrue
  <2> QED BY <2>1, <2>3
<1> QED BY <1>10, <1>11, <1>12, <1>13, <1>14 DEF ReplayInv

\* The parent handles a request, or the end of the script.
LEMMA HandleStep ==
  ASSUME ReplayInv, HandleAgent \/ HandleDone
  PROVE  ReplayInv'
<1>1. TypesHold /\ Replayed /\ Unanswered
  BY DEF ReplayInv
<1>2. /\ pipe # <<>> /\ Head(pipe).op \in {"agent", "done"} /\ pipe' = Tail(pipe)
      /\ UNCHANGED <<script, run, seed, journal, issued, diverged, served, answer, prior>>
  BY DEF HandleAgent, HandleDone, Handle
<1>3. pipe \in Seq(Frames)
  BY <1>1 DEF TypesHold
<1>4. /\ Head(pipe) = pipe[1] /\ pipe[1] \in Frames /\ Len(pipe) \in Nat /\ 1 \in 1..Len(pipe)
      /\ pipe' \in Seq(Frames) /\ Len(pipe') = Len(pipe) - 1
      /\ \A i \in 1..Len(pipe') : i + 1 \in 2..Len(pipe) /\ i + 1 \in 1..Len(pipe) /\ pipe'[i] = pipe[i + 1]
  BY <1>2, <1>3, PipeShrinks
<1>5. Carried /\ (diverged \/ (issued = Len(script) /\ (phase = "live" => Told)))
  BY <1>2, <1>4 DEF ReplayInv, Stages, Fresh, Reporting, Telling
<1>6. Replayed' /\ (KeysDiffer => JournalTrue' /\ SeedTrue')
  BY <1>1, <1>2 DEF Replayed, ServedPrefix, JournalTrue, SeedTrue, ReplayInv
<1>7. Carried'
  BY <1>2, <1>4, <1>5 DEF Carried, Telling
<1>8. \A i, j \in 1..Len(pipe') :
        /\ i + 1 = j + 1 => i = j
        /\ i + 1 # 1
  BY <1>4
<1>9. /\ \A i \in 1..Len(pipe') : pipe'[i].op = "agent" =>
           /\ pipe'[i].n \in 1..issued /\ pipe'[i].n \notin inService /\ answer[pipe'[i].n] = Pending
           /\ pipe[1].op = "agent" => pipe'[i].n # pipe[1].n
      /\ \A i, j \in 1..Len(pipe') :
           pipe'[i].op = "agent" /\ pipe'[j].op = "agent" /\ pipe'[i].n = pipe'[j].n => i = j
  <2>1. \A i \in 1..Len(pipe') : pipe'[i].op = "agent" =>
          pipe'[i].n \in 1..issued /\ pipe'[i].n \notin inService /\ answer[pipe'[i].n] = Pending
    BY <1>1, <1>4 DEF Unanswered
  <2>2. \A i \in 1..Len(pipe') : pipe'[i].op = "agent" /\ pipe[1].op = "agent" => pipe'[i].n # pipe[1].n
    BY <1>1, <1>4, <1>8 DEF Unanswered
  <2>3. \A i, j \in 1..Len(pipe') :
          pipe'[i].op = "agent" /\ pipe'[j].op = "agent" /\ pipe'[i].n = pipe'[j].n => i = j
    BY <1>1, <1>4, <1>8 DEF Unanswered
  <2> QED BY <2>1, <2>2, <2>3
<1>10. CASE HandleAgent
  <2>1. /\ pipe[1].op = "agent" /\ phase' = phase /\ inService' = inService \cup {pipe[1].n}
    BY <1>4, <1>10 DEF HandleAgent, Handle
  <2>2. pipe[1].n \in 1..issued /\ answer[pipe[1].n] = Pending
    BY <1>1, <1>4, <2>1 DEF Unanswered
  <2>3. TypesHold'
    BY <1>1, <1>2, <1>4, <2>1, <2>2 DEF TypesHold
  <2>4. Unanswered'
    <3>1. /\ \A i \in 1..Len(pipe') : pipe'[i].op = "agent" =>
               pipe'[i].n \in 1..issued /\ pipe'[i].n \notin inService' /\ answer[pipe'[i].n] = Pending
          /\ \A i \in inService' : answer[i] = Pending
      BY <1>1, <1>9, <2>1, <2>2 DEF Unanswered
    <3> QED BY <1>1, <1>2, <1>9, <3>1 DEF Unanswered
  <2>5. Told => Told'
    <3> SUFFICES ASSUME NEW i \in 1..Len(pipe), pipe[i].op = "done" PROVE Told'
      BY DEF Told
    <3>1. i # 1 /\ i - 1 \in 1..Len(pipe')
      BY <1>4, <2>1
    <3>2. pipe'[i - 1] = pipe[(i - 1) + 1]
      BY <1>4, <3>1
    <3>3. (i - 1) + 1 = i
      BY <1>4
    <3> QED BY <3>1, <3>2, <3>3 DEF Told
  <2>6. Stages'
    BY <1>2, <1>5, <1>7, <2>1, <2>5 DEF Stages
  <2> QED BY <1>6, <2>3, <2>4, <2>6 DEF ReplayInv
<1>11. CASE HandleDone
  <2>1. phase' \in {"stopped", "over"} /\ inService' = inService
    BY <1>1, <1>11 DEF HandleDone, TypesHold
  <2>2. TypesHold'
    BY <1>1, <1>2, <1>4, <2>1 DEF TypesHold
  <2>3. Unanswered'
    BY <1>1, <1>2, <1>9, <2>1 DEF Unanswered
  <2>4. Stages'
    BY <1>2, <1>5, <1>7, <2>1 DEF Stages
  <2> QED BY <1>6, <2>2, <2>3, <2>4 DEF ReplayInv
<1> QED BY <1>10, <1>11

\* A live call's result arrives, and is journaled unless it failed.
LEMMA AnswerStep ==
  ASSUME ReplayInv, NEW i \in inService, NEW v \in Values \cup {Null}, AgentEnds(i, v)
  PROVE  ReplayInv'
<1>1. TypesHold /\ Replayed /\ Unanswered
  BY DEF ReplayInv
<1>2. /\ inService' = inService \ {i} /\ answer' = [answer EXCEPT ![i] = v]
      /\ UNCHANGED <<script, run, phase, seed, issued, diverged, served, pipe, prior>>
  BY DEF AgentEnds
<1>3. /\ i \in 1..Len(script) /\ i \in 1..issued /\ answer[i] = Pending /\ script[i] \in Keys
      /\ i <= issued /\ issued \in Nat /\ journal \in Seq(Entries) /\ Len(journal) \in Nat
  BY <1>1, Numbers DEF Unanswered, TypesHold
<1>4. answer \in [1..Len(script) -> Values \cup {Pending, Null}]
  BY <1>1 DEF TypesHold
<1>5. \A j \in 1..Len(script) : answer'[j] = IF j = i THEN v ELSE answer[j]
  BY <1>2, <1>3, <1>4
<1>6. \/ journal' = journal
      \/ /\ journal' \in Seq(Entries) /\ Len(journal') = Len(journal) + 1
         /\ \A m \in 1..Len(journal) : journal'[m] = journal[m]
         /\ journal'[Len(journal) + 1].key = script[i] /\ journal'[Len(journal) + 1].value = v
  <2>1. CASE v = Null
    BY <2>1 DEF AgentEnds
  <2>2. CASE v # Null
    <3>1. [key |-> script[i], value |-> v] \in Entries
      BY <1>3, <2>2 DEF Entries
    <3>2. journal' = Append(journal, [key |-> script[i], value |-> v])
      BY <2>2 DEF AgentEnds
    <3> QED BY <1>3, <3>1, <3>2, AppendProperties
  <2> QED BY <2>1, <2>2
<1>7. journal' \in Seq(Entries) /\ Len(journal') \in Nat /\ Len(journal') >= Len(journal)
      /\ \A m \in 1..Len(journal) : journal'[m] = journal[m]
  BY <1>3, <1>6
<1>8. i \notin served
  <2> SUFFICES ASSUME i \in served PROVE FALSE
    OBVIOUS
  <2>1. seed[i].value \in Values
    BY <1>1, Numbers DEF Replayed, Entries
  <2> QED BY <1>1, <1>3, <2>1, ValuesAnswer DEF Replayed
<1>9. TypesHold'
  <2>1. answer' \in [1..Len(script) -> Values \cup {Pending, Null}]
    BY <1>2, <1>3, <1>4
  <2> QED BY <1>1, <1>2, <1>7, <2>1 DEF TypesHold
<1>10. Stages'
  <2>1. Carried /\ (diverged \/ (issued = Len(script) /\ (phase = "live" => Told)))
    BY DEF ReplayInv, Stages, Fresh, Reporting
  <2>2. \A j \in served : j <= Len(journal') /\ journal'[j] = seed[j]
    <3> SUFFICES ASSUME NEW j \in served PROVE j <= Len(journal') /\ journal'[j] = seed[j]
      OBVIOUS
    <3>1. j <= Len(journal) /\ journal[j] = seed[j] /\ j \in Nat /\ j >= 1
      BY <1>1, <2>1, Numbers DEF Carried
    <3> QED BY <1>3, <1>7, <3>1
  <2>3. Carried'
    BY <1>2, <2>1, <2>2 DEF Carried, Telling
  <2> QED BY <1>2, <2>1, <2>3 DEF Stages, Told
<1>11. Replayed'
  <2>1. \A j \in served : answer'[j] = answer[j]
    BY <1>1, <1>5, <1>8, Numbers
  <2> QED BY <1>1, <1>2, <2>1 DEF Replayed, ServedPrefix
<1>12. Unanswered'
  <2>1. \A j \in 1..Len(script) : j > issued => answer'[j] = Pending
    BY <1>1, <1>3, <1>5 DEF Unanswered
  <2>2. \A j \in inService' : answer'[j] = Pending
    BY <1>1, <1>2, <1>5, Numbers DEF Unanswered
  <2>3. \A m \in 1..Len(pipe) : pipe[m].op = "agent" =>
          pipe[m].n \in 1..issued /\ pipe[m].n \notin inService' /\ answer'[pipe[m].n] = Pending
    <3>1. \A j \in 1..issued : j \in 1..Len(script)
      BY <1>1, Numbers DEF TypesHold
    <3> QED BY <1>1, <1>2, <1>5, <3>1 DEF Unanswered
  <2> QED BY <1>1, <1>2, <2>1, <2>2, <2>3 DEF Unanswered
<1>13. KeysDiffer => JournalTrue' /\ SeedTrue'
  <2> SUFFICES ASSUME KeysDiffer PROVE JournalTrue' /\ SeedTrue'
    OBVIOUS
  <2>1. SeedTrue'
    BY <1>2 DEF SeedTrue, ReplayInv
  <2>2. JournalTrue
    BY DEF ReplayInv
  <2>3. ASSUME NEW m \in 1..Len(journal'), NEW j \in 1..Len(script), script[j] = journal'[m].key
        PROVE  answer'[j] = journal'[m].value
    <3>1. CASE m \in 1..Len(journal)
      <4>1. journal'[m] = journal[m] /\ answer[j] = journal[m].value
        BY <1>7, <2>2, <2>3, <3>1 DEF JournalTrue
      <4>2. journal[m].value \in Values
        <5>1. journal[m] \in Entries
          BY <1>3, <3>1, ElementOfSeq
        <5> QED BY <5>1 DEF Entries
      <4>3. j # i
        BY <1>3, <4>1, <4>2, ValuesAnswer
      <4> QED BY <1>5, <4>1, <4>3
    <3>2. CASE m \notin 1..Len(journal)
      <4>1. m = Len(journal) + 1 /\ journal'[m].key = script[i] /\ journal'[m].value = v
        BY <1>3, <1>6, <2>3, <3>2
      <4>2. script \in Scripts
        BY <1>1 DEF TypesHold
      <4>3. j = i
        BY <1>3, <2>3, <4>1, <4>2 DEF KeysDiffer
      <4> QED BY <1>5, <4>1, <4>3
    <3> QED BY <3>1, <3>2
  <2>4. JournalTrue'
    <3>1. script' = script
      BY <1>2
    <3> QED BY <2>3, <3>1 DEF JournalTrue
  <2> QED BY <2>1, <2>4
<1> QED BY <1>9, <1>10, <1>11, <1>12, <1>13 DEF ReplayInv

\* A run starts that resumes the last.
LEMMA StartStep ==
  ASSUME ReplayInv, NEW s \in Scripts, Resume(s)
  PROVE  ReplayInv'
<1>1. TypesHold
  BY DEF ReplayInv
<1>2. /\ run < MaxRuns /\ run' = run + 1 /\ phase' = "live" /\ script' = s /\ seed' = journal /\ journal' = <<>>
      /\ pipe' = <<>> /\ issued' = 0 /\ diverged' = FALSE /\ served' = {} /\ inService' = {}
      /\ answer' = [i \in 1..Len(s) |-> Pending] /\ prior' = [script |-> script, answer |-> answer]
  BY DEF Resume
<1>3. prior'.script = script /\ prior'.answer = answer
  BY <1>2
<1>4. Len(s) \in Nat /\ script \in Seq(Keys) /\ script \in Scripts /\ journal \in Seq(Entries) /\ run \in 1..MaxRuns
  BY <1>1, ScriptFacts DEF TypesHold
<1>5. TypesHold'
  <2>1. run' \in 1..MaxRuns
    BY <1>2, <1>4, ReplayAssumption
  <2>2. pipe' \in Seq(Frames) /\ journal' \in Seq(Entries)
    BY <1>2
  <2>3. answer' \in [1..Len(s) -> Values \cup {Pending, Null}]
    BY <1>2
  <2>4. issued' \in 0..Len(script') /\ served' \subseteq 1..issued' /\ inService' \subseteq 1..issued'
    BY <1>2, <1>4
  <2>5. diverged' \in BOOLEAN /\ phase' \in {"live", "stopped", "over"}
    BY <1>2, Zenon
  <2> QED BY <1>2, <1>3, <1>4, <2>1, <2>2, <2>3, <2>4, <2>5 DEF TypesHold
<1>6. Fresh' /\ Replayed' /\ Unanswered'
  BY <1>2, <1>4 DEF Fresh, Replayed, ServedPrefix, Unanswered
<1>7. JournalTrue'
  BY <1>2 DEF JournalTrue
<1>8. KeysDiffer => SeedTrue'
  BY <1>2, <1>3 DEF JournalTrue, SeedTrue, ReplayInv
<1> QED BY <1>5, <1>6, <1>7, <1>8 DEF ReplayInv, Stages

LEMMA StopStep ==
  ASSUME ReplayInv, Stop \/ UNCHANGED replayVars
  PROVE  ReplayInv'
<1>1. /\ phase' \in {"stopped", phase}
      /\ UNCHANGED <<script, run, seed, journal, issued, diverged, served, answer, pipe, inService, prior>>
  BY DEF Stop, replayVars
<1>2. TypesHold'
  BY <1>1 DEF ReplayInv, TypesHold
<1>3. Stages'
  BY <1>1 DEF ReplayInv, Stages, Fresh, Reporting, Carried, Telling, Told
<1>4. Replayed' /\ Unanswered' /\ (KeysDiffer => JournalTrue' /\ SeedTrue')
  BY <1>1 DEF ReplayInv, Replayed, ServedPrefix, Unanswered, JournalTrue, SeedTrue
<1> QED BY <1>2, <1>3, <1>4 DEF ReplayInv

LEMMA ReplayInitInv == ReplayInit => ReplayInv
<1> SUFFICES ASSUME ReplayInit PROVE ReplayInv
  OBVIOUS
<1>1. /\ script \in Scripts /\ run = 1 /\ phase = "live"
      /\ seed = <<>> /\ journal = <<>> /\ pipe = <<>> /\ issued = 0 /\ diverged = FALSE
      /\ served = {} /\ inService = {}
      /\ answer = [i \in 1..Len(script) |-> Pending]
      /\ prior.script = <<>>
  BY DEF ReplayInit
<1>2. Len(script) \in Nat /\ 1 \in 1..MaxRuns
  BY <1>1, ScriptFacts, ReplayAssumption
<1>3. TypesHold
  <2>1. issued \in 0..Len(script) /\ served \subseteq 1..issued /\ inService \subseteq 1..issued
    BY <1>1, <1>2
  <2>2. diverged \in BOOLEAN /\ phase \in {"live", "stopped", "over"}
    BY <1>1, Zenon
  <2>3. pipe \in Seq(Frames) /\ journal \in Seq(Entries) /\ seed \in Seq(Entries) /\ prior.script \in Seq(Keys)
    BY <1>1
  <2>4. answer \in [1..Len(script) -> Values \cup {Pending, Null}]
    BY <1>1
  <2> QED BY <1>1, <1>2, <2>1, <2>2, <2>3, <2>4 DEF TypesHold
<1>4. Fresh /\ Replayed /\ Unanswered
  BY <1>1, <1>2 DEF Fresh, Replayed, ServedPrefix, Unanswered
<1>5. JournalTrue /\ SeedTrue
  BY <1>1 DEF JournalTrue, SeedTrue
<1> QED BY <1>3, <1>4, <1>5 DEF ReplayInv, Stages

LEMMA ReplayStepInv ==
  ASSUME ReplayInv, [ReplayNext]_replayVars
  PROVE  ReplayInv'
<1>1. CASE AgentCached \/ AgentLive \/ ScriptEnds
  BY <1>1, CachedStep, LiveStep, EndsStep
<1>2. CASE HandleResumed \/ HandleAgent \/ HandleDone
  BY <1>2, ResumedStep, HandleStep
<1>3. ASSUME NEW i \in inService, AgentEnds(i, <<run, i>>) \/ AgentEnds(i, Null) PROVE ReplayInv'
  <2>1. run \in 1..MaxRuns /\ i \in Nat
    BY Numbers DEF ReplayInv, TypesHold
  <2>2. <<run, i>> \in Values
    BY <2>1 DEF Values
  <2> QED BY <1>3, <2>2, AnswerStep
<1>4. ASSUME NEW s \in Scripts, Resume(s) PROVE ReplayInv'
  BY <1>4, StartStep
<1>5. CASE Stop \/ UNCHANGED replayVars
  BY <1>5, StopStep
<1> QED BY <1>1, <1>2, <1>3, <1>4, <1>5 DEF ReplayNext

-----------------------------------------------------------------------------
(* The theorems.                                                           *)

(***************************************************************************)
(* Every reachable state of a chain of resumed runs satisfies the          *)
(* inductive invariant.                                                    *)
(***************************************************************************)
THEOREM ReplayInvariant == ReplaySpec => []ReplayInv
  BY ReplayInitInv, ReplayStepInv, PTL DEF ReplaySpec

\* The types of a run, its journal and its pipe.
THEOREM ReplayTypeCorrect == ReplaySpec => []ReplayTypeOK
<1>1. ReplayInv => ReplayTypeOK
  BY DEF ReplayInv, TypesHold, ReplayTypeOK
<1> QED BY <1>1, ReplayInvariant, PTL

(***************************************************************************)
(* The calls answered from the journal are a prefix of the script's calls: *)
(* nothing is replayed after the first call that differs.                  *)
(***************************************************************************)
THEOREM ReplayIsPrefix == ReplaySpec => []ServedPrefix
<1>1. ReplayInv => ServedPrefix
  BY DEF ReplayInv, Replayed
<1> QED BY <1>1, ReplayInvariant, PTL

(***************************************************************************)
(* Whatever a run's journal holds, the calls it replayed are there, at the *)
(* positions they had, so that a resume of the resumed run replays them.   *)
(***************************************************************************)
THEOREM PrefixIsCarried == ReplaySpec => []PrefixCarried
<1>1. ReplayInv => PrefixCarried
  BY DEF ReplayInv, Stages, Fresh, Reporting, Carried, PrefixCarried
<1> QED BY <1>1, ReplayInvariant, PTL

(***************************************************************************)
(* With distinct keys, a replayed call has the answer that the call with   *)
(* its key had in the run that was resumed, in whatever order the results  *)
(* arrived there and however the script was edited since.                  *)
(***************************************************************************)
THEOREM ReplayIsTrue == ReplaySpec => []ServedIsPriorAnswer
<1>1. ReplayInv => ServedIsPriorAnswer
  <2> SUFFICES ASSUME ReplayInv, KeysDiffer, NEW i \in served, NEW j \in 1..Len(prior.script),
                      prior.script[j] = script[i]
               PROVE  prior.answer[j] = answer[i]
    BY DEF ServedIsPriorAnswer
  <2>1. i \in 1..Len(seed) /\ seed[i].key = script[i] /\ answer[i] = seed[i].value
    BY Numbers DEF ReplayInv, Replayed
  <2> QED BY <2>1 DEF ReplayInv, SeedTrue
<1> QED BY <1>1, ReplayInvariant, PTL

=============================================================================
