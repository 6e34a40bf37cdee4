----------------------- MODULE DurableApprovalsProofs -----------------------
(***************************************************************************)
(* Proofs about DurableApprovals, for any set of requests and policies and *)
(* any number of crashes, cut appends, answers and resumes.                *)
(*                                                                         *)
(* The argument for "at most once" follows one announcement: a call that   *)
(* was started has its line in the fold of the file, or swallowed by a     *)
(* torn one, or the file can no longer be read (SpentIsShown).  A resume   *)
(* reads that fold (LoadIsFresh), so what its scan may still start was not *)
(* started before, unless the line was swallowed (ScanIsFresh).            *)
(***************************************************************************)
EXTENDS DurableApprovals, WellFoundedInduction, TLAPS

-----------------------------------------------------------------------------
(* The inductive invariant.                                                *)

Refused == {"denied", "cancelled", "expired"}

\* The line that announces the call was swallowed.
Swallow(r) == Env("consuming", r) \in disk.lost

\* The call was started, or is about to be.
Spent(r) == runs[r] > 0 \/ call = r

\* The file still lets an allowed call be announced, or is damaged at its end
\* and so will not change any more.
Startable(r) ==
  \/ disk.folded[r].state = "allowed" /\ ~disk.folded[r].consumed
  \/ disk.tail # Clean /\ disk.folded[r].state \notin Refused

\* What is being appended fits where the engine is.
PenFits ==
  /\ hostPen.kind \in {"idle", "allow", "deny"}
  /\ pen.kind = "consumed" => pen.id = call
  /\ phase \in {"down", "loaded"} => pen.kind \in {"idle", "cancel"}
  /\ pen.kind = "consuming" =>
       /\ phase = "scan"
       /\ pen.id \in todo
       /\ snap[pen.id].state = "allowed" /\ ~snap[pen.id].consumed /\ ~snap[pen.id].consuming
       /\ ctx = issued[pen.id]

\* Every started call is announced in the file, as far as that can be read.
SpentIsShown ==
  \A r \in Requests :
    Spent(r) => disk.folded[r].consuming \/ Swallow(r) \/ disk.unreadable

\* What was loaded for the scan is as the file says.
LoadIsFresh ==
  phase = "loaded" =>
    \A r \in Requests :
      /\ mem[r].state = "allowed" /\ ~mem[r].consumed => Startable(r)
      /\ Spent(r) => mem[r].consuming \/ Swallow(r)

\* What the scan has still to look at is as the file says.
ScanIsFresh ==
  /\ call \notin todo
  /\ \A r \in todo :
       /\ snap[r].state = "allowed" /\ ~snap[r].consumed => Startable(r)
       /\ Spent(r) => snap[r].consuming \/ Swallow(r)

\* A call that was announced and not started yet may be started.
IntentHolds ==
  phase = "intended" =>
    /\ ctx = issued[call]
    /\ runs[call] > 0 => Swallow(call)
    /\ \/ disk.folded[call].state = "allowed"
       \/ disk.tail # Clean /\ disk.folded[call].state \notin Refused

ApprovalInv ==
  /\ ApprovalTypeOK
  /\ PenFits
  /\ SpentIsShown
  /\ LoadIsFresh
  /\ ScanIsFresh
  /\ IntentHolds
  /\ RunsOnceUnlessSwallowed
  /\ DeferredIsDurable

-----------------------------------------------------------------------------
(* The first request of a set.                                             *)

\* Least picks a member: a set of numbers has a smallest one.
LEMMA LeastIsMember ==
  ASSUME NEW s, s \subseteq Requests, s # {}
  PROVE  Least(s) \in s
<1>1. s \subseteq Nat
  BY ApprovalBounds
<1>2. PICK r \in s : \A q \in s : ~(<<q, r>> \in OpToRel(<, Nat))
  BY <1>1, NatLessThanWellFounded, WFMin, Zenon
<1>3. \A q \in s : ~(q < r)
  BY <1>1, <1>2 DEF OpToRel
<1>4. \A q \in s : r <= q
  BY <1>1, <1>3
<1> QED BY <1>4, Zenon DEF Least

-----------------------------------------------------------------------------
(* Envelopes and the file.                                                 *)

\* An envelope leaves a record a record.  It never makes one absent again,
\* never takes back an announcement, and of the lines other than "expire" and
\* "consumed" none touches a request that was allowed.
LEMMA TransitionFacts ==
  ASSUME NEW rec \in Records, NEW k \in Kinds
  PROVE  /\ Transition(rec, k) \in Records
         /\ rec.state # "absent" => Transition(rec, k).state # "absent"
         /\ rec.consuming => Transition(rec, k).consuming
         /\ rec.state = "allowed" /\ k # "expire" => Transition(rec, k).state = "allowed"
         /\ ~rec.consumed /\ k # "consumed" => ~Transition(rec, k).consumed
         /\ k = "record" => Transition(rec, k).state # "absent"
         /\ k = "consuming" /\ rec.state = "allowed" /\ ~rec.consumed
              => Transition(rec, k).consuming
         /\ Transition(rec, k).state = "allowed" => rec.state \in {"pending", "allowed"}
         /\ ~Transition(rec, k).consumed => ~rec.consumed
  BY DEF Transition, Records, Kinds

\* The fold of one envelope changes the record it names and no other.
LEMMA ApplyFacts ==
  ASSUME NEW m \in Folds, NEW e \in Envelopes
  PROVE  /\ applyEnvelope(m, e) \in Folds
         /\ e.id \in Requests /\ e.kind \in Kinds
         /\ applyEnvelope(m, e)[e.id] = Transition(m[e.id], e.kind)
         /\ \A r \in Requests : r # e.id => applyEnvelope(m, e)[r] = m[r]
<1>1. e.id \in Requests /\ e.kind \in Kinds
  BY DEF Envelopes
<1>2. m[e.id] \in Records
  BY <1>1 DEF Folds
<1>3. Transition(m[e.id], e.kind) \in Records
  BY <1>1, <1>2, TransitionFacts
<1> QED BY <1>1, <1>3 DEF applyEnvelope, Folds

\* The marks that stand for the end of the file are no envelopes.
LEMMA MarksAreNoEnvelopes ==
  /\ Clean \notin Envelopes /\ Torn \notin Envelopes /\ Glued \notin Envelopes
  /\ Idle \notin Envelopes
  /\ Clean # Torn /\ Clean # Glued /\ Torn # Glued
  BY DEF Clean, Torn, Glued, Idle, Env, Envelopes, Kinds

\* Every append, returned or cut short, leaves a file that still says what it
\* said: of its fold at most the record named by the envelope moves, and that
\* only while the file ends well.
LEMMA FileFacts ==
  ASSUME NEW d \in Files, NEW e \in Envelopes, NEW d2 \in CutShort(d, e)
  PROVE  /\ d2 \in Files
         /\ d.lost \subseteq d2.lost
         /\ d.unreadable => d2.unreadable
         /\ d.tail # Clean => d2.tail # Clean /\ d2.folded = d.folded
         /\ d2.folded = d.folded \/ d2.folded = applyEnvelope(d.folded, e)
<1>1. d.folded \in Folds /\ d.tail \in {Clean, Torn, Glued} \cup Envelopes
      /\ d.unreadable \in BOOLEAN /\ d.lost \in SUBSET Envelopes
  BY DEF Files
<1>2. Swallowed(d) \subseteq Envelopes
  BY DEF Swallowed
<1>3. applyEnvelope(d.folded, e) \in Folds
  BY <1>1, ApplyFacts
<1>4. CASE d2 = d
  BY <1>4
<1>5. CASE d2 = appendJsonLine(d, e)
  <2>1. CASE d.tail = Clean
    <3>1. d.tail # Glued
      BY <2>1 DEF Clean, Glued, Env
    <3>2. d2 = [d EXCEPT !.folded = applyEnvelope(d.folded, e)]
      BY <1>5, <2>1, <3>1, Zenon DEF appendJsonLine
    <3> QED BY <1>1, <1>3, <2>1, <3>2 DEF Files
  <2>2. CASE d.tail = Glued
    <3>1. d.tail # Clean
      BY <2>2 DEF Clean, Glued, Env
    <3>2. d2 = [d EXCEPT !.unreadable = TRUE]
      BY <1>5, <2>2, <3>1, Zenon DEF appendJsonLine
    <3> QED BY <1>1, <3>1, <3>2 DEF Files
  <2>3. CASE d.tail # Clean /\ d.tail # Glued
    <3>1. d2 = [d EXCEPT !.tail = Glued, !.lost = d.lost \cup {e} \cup Swallowed(d)]
      BY <1>5, <2>3, Zenon DEF appendJsonLine
    <3> QED BY <1>1, <1>2, <3>1, MarksAreNoEnvelopes DEF Files
  <2> QED BY <2>1, <2>2, <2>3
<1>6. ASSUME NEW end \in {Torn, e}, d2 = PartOf(d, end)
      PROVE  /\ d2 \in Files
             /\ d.lost \subseteq d2.lost
             /\ d.unreadable => d2.unreadable
             /\ d2.tail # Clean /\ d2.folded = d.folded
  <2>1. CASE d.tail = Clean
    <3>1. d.tail # Glued
      BY <2>1 DEF Clean, Glued, Env
    <3>2. d2 = [d EXCEPT !.tail = end]
      BY <1>6, <2>1, <3>1, Zenon DEF PartOf
    <3> QED BY <1>1, <1>6, <3>2, MarksAreNoEnvelopes DEF Files
  <2>2. CASE d.tail = Glued
    <3>1. d.tail # Clean
      BY <2>2 DEF Clean, Glued, Env
    <3>2. d2 = [d EXCEPT !.unreadable = TRUE]
      BY <1>6, <2>2, <3>1, Zenon DEF PartOf
    <3> QED BY <1>1, <3>1, <3>2 DEF Files
  <2>3. CASE d.tail # Clean /\ d.tail # Glued
    <3>1. d2 = [d EXCEPT !.tail = Torn, !.lost = d.lost \cup Swallowed(d)]
      BY <1>6, <2>3, Zenon DEF PartOf
    <3> QED BY <1>1, <1>2, <3>1, MarksAreNoEnvelopes DEF Files
  <2> QED BY <2>1, <2>2, <2>3
<1> QED BY <1>4, <1>5, <1>6 DEF CutShort

\* What an append says of each request that its envelope may touch.
LEMMA AppendFacts ==
  ASSUME NEW d \in Files, NEW e \in Envelopes, NEW d2 \in CutShort(d, e)
  PROVE  \A r \in Requests :
           /\ d.folded[r].state # "absent" => d2.folded[r].state # "absent"
           /\ d.folded[r].consuming => d2.folded[r].consuming
           /\ d.folded[r].state = "allowed" /\ (e.kind # "expire" \/ e.id # r)
                => d2.folded[r].state = "allowed"
           /\ ~d.folded[r].consumed /\ (e.kind # "consumed" \/ e.id # r)
                => ~d2.folded[r].consumed
<1>1. d.folded \in Folds
  BY DEF Files
<1>2. d2.folded = d.folded \/ d2.folded = applyEnvelope(d.folded, e)
  BY FileFacts
<1>3. SUFFICES ASSUME d2.folded = applyEnvelope(d.folded, e), NEW r \in Requests, r = e.id
               PROVE  /\ d.folded[r].state # "absent" => d2.folded[r].state # "absent"
                      /\ d.folded[r].consuming => d2.folded[r].consuming
                      /\ d.folded[r].state = "allowed" /\ e.kind # "expire"
                           => d2.folded[r].state = "allowed"
                      /\ ~d.folded[r].consumed /\ e.kind # "consumed"
                           => ~d2.folded[r].consumed
  <2>1. CASE d2.folded = d.folded
    BY <2>1
  <2>2. CASE d2.folded = applyEnvelope(d.folded, e)
    <3>1. \A r \in Requests : r # e.id => d2.folded[r] = d.folded[r]
      BY <1>1, <2>2, ApplyFacts
    <3> QED BY <1>3, <2>2, <3>1
  <2> QED BY <1>2, <2>1, <2>2
<1>4. d2.folded[r] = Transition(d.folded[r], e.kind) /\ e.kind \in Kinds
  BY <1>1, <1>3, ApplyFacts
<1>5. d.folded[r] \in Records
  BY <1>1, <1>3 DEF Folds
<1> QED BY <1>4, <1>5, TransitionFacts

\* What a load reads: all that the fold shows, and of an allowed request the
\* fold itself says nothing against it.
LEMMA LoadFacts ==
  ASSUME NEW d \in Files
  PROVE  /\ loadExisting(d) \in Folds
         /\ d.tail = Clean => loadExisting(d) = d.folded
         /\ \A r \in Requests :
              /\ d.folded[r].consuming => loadExisting(d)[r].consuming
              /\ loadExisting(d)[r].state = "allowed" => d.folded[r].state \in {"pending", "allowed"}
<1>1. d.folded \in Folds
  BY DEF Files
<1>2. CASE d.tail \notin Envelopes
  BY <1>1, <1>2 DEF loadExisting, Folds
<1>3. CASE d.tail \in Envelopes
  <2>1. loadExisting(d) = applyEnvelope(d.folded, d.tail)
    BY <1>3 DEF loadExisting
  <2>2. loadExisting(d) \in Folds
    BY <1>1, <1>3, <2>1, ApplyFacts
  <2>3. d.tail # Clean
    BY <1>3, MarksAreNoEnvelopes
  <2>4. ASSUME NEW r \in Requests
        PROVE  /\ d.folded[r].consuming => loadExisting(d)[r].consuming
               /\ loadExisting(d)[r].state = "allowed" => d.folded[r].state \in {"pending", "allowed"}
    <3>1. d.folded[r] \in Records
      BY <1>1 DEF Folds
    <3>2. CASE r # d.tail.id
      BY <1>1, <1>3, <2>1, <3>2, ApplyFacts
    <3>3. CASE r = d.tail.id
      BY <1>1, <1>3, <2>1, <3>1, <3>3, ApplyFacts, TransitionFacts
    <3> QED BY <3>2, <3>3
  <2> QED BY <2>2, <2>3, <2>4
<1> QED BY <1>2, <1>3, MarksAreNoEnvelopes

-----------------------------------------------------------------------------
(* Types.                                                                  *)

\* Of an envelope that is being appended the id and the kind are known, and
\* the file it leaves is a file.
LEMMA PenFacts ==
  ASSUME ApprovalTypeOK, NEW e \in {pen, hostPen}, e # Idle
  PROVE  /\ e \in Envelopes /\ e.id \in Requests /\ e.id # NoCall
         /\ CutShort(disk, e) \subseteq Files
         /\ appendJsonLine(disk, e) \in CutShort(disk, e)
         /\ applyEnvelope(mem, e) \in Folds /\ applyEnvelope(host, e) \in Folds
<1>1. e \in Envelopes /\ disk \in Files /\ mem \in Folds /\ host \in Folds
  BY DEF ApprovalTypeOK
<1>2. e.id \in Requests /\ e.id # NoCall
  BY <1>1, ApprovalBounds DEF Envelopes, NoCall
<1>3. CutShort(disk, e) \subseteq Files
  BY <1>1, FileFacts
<1>4. applyEnvelope(mem, e) \in Folds /\ applyEnvelope(host, e) \in Folds
  BY <1>1, ApplyFacts
<1> QED BY <1>1, <1>2, <1>3, <1>4 DEF CutShort

\* An append of the engine that returns keeps the types of what it writes.
LEMMA PersistTypes ==
  ASSUME ApprovalTypeOK, pen # Idle, persistAndApply
  PROVE  /\ disk' \in Files /\ disk' \in CutShort(disk, pen)
         /\ mem' \in Folds
         /\ pen' = Idle
         /\ pen \in Envelopes /\ pen.id \in Requests /\ pen.id # NoCall
  BY PenFacts DEF persistAndApply

\* So does one that is cut short.
LEMMA CutTypes ==
  ASSUME ApprovalTypeOK, NEW e \in {pen, hostPen}, e # Idle, Cut(e)
  PROVE  /\ disk' \in Files /\ disk' \in CutShort(disk, e)
         /\ cuts' \in Nat
         /\ e \in Envelopes /\ e.id \in Requests
<1>1. cuts \in Nat
  BY DEF ApprovalTypeOK
<1> QED BY <1>1, PenFacts DEF Cut

\* A run that is down is well-typed.
LEMMA DownTypes ==
  ASSUME Down, ctx \in Contexts
  PROVE  /\ phase' = "down" /\ call' = NoCall /\ pen' = Idle /\ last' = FALSE
         /\ mem' \in Folds /\ snap' \in Folds
         /\ todo' = {} /\ queue' = {} /\ unsaved' = {}
         /\ ctx' \in Contexts
  BY DEF Down, NoRecords, Folds, Records, Absent

\* An envelope that is Idle has no kind an action asks for.
LEMMA KindNotIdle ==
  ASSUME NEW e, e.kind \in Kinds
  PROVE  e # Idle
  BY DEF Idle, Env, Kinds

\* The specification's initial states are well-typed.
LEMMA ApprovalInitTypes == ApprovalInit => ApprovalTypeOK
<1> SUFFICES ASSUME ApprovalInit PROVE ApprovalTypeOK
  OBVIOUS
<1>1. NoRecords \in Folds
  BY DEF NoRecords, Folds, Records, Absent
<1>2. disk \in Files
  BY <1>1 DEF ApprovalInit, Files
<1>3. runs \in [Requests -> Nat] /\ issued \in [Requests -> Contexts]
      /\ answered \in [Requests -> {"nothing", "asked", "deferred", "denied"}]
  BY DEF ApprovalInit
<1>4. call = NoCall /\ phase = "down"
  BY DEF ApprovalInit
<1>5. last \in BOOLEAN /\ hostUp \in BOOLEAN
  BY DEF ApprovalInit
<1>6. mem \in Folds /\ snap \in Folds /\ host \in Folds
  BY <1>1 DEF ApprovalInit
<1>7. {resumes, cuts, responses, switches} \subseteq Nat
  BY DEF ApprovalInit
<1>8. todo = {} /\ queue = {} /\ unsaved = {} /\ saved = {} /\ pen = Idle /\ hostPen = Idle
      /\ ctx \in Contexts
  BY DEF ApprovalInit
<1> QED BY <1>2, <1>3, <1>4, <1>5, <1>6, <1>7, <1>8, Zenon DEF ApprovalTypeOK

\* Every step keeps the types.
LEMMA ApprovalStepTypes ==
  ASSUME ApprovalTypeOK, [ApprovalNext]_vars
  PROVE  ApprovalTypeOK'
<1>1. ASSUME NEW c \in Contexts, Resume(c) PROVE ApprovalTypeOK'
  <2>1. mem' \in Folds
    BY <1>1, LoadFacts DEF Resume, ApprovalTypeOK
  <2> QED BY <1>1, <2>1 DEF Resume, ApprovalTypeOK, engine, calls, responder, counters
<1>29. CASE ScanBegins
  BY <1>29 DEF ScanBegins, ApprovalTypeOK, engine, calls, responder, counters
<1>2. CASE Crash
  <2> QED BY <1>2, DownTypes DEF Crash, ApprovalTypeOK, engine, calls, responder, counters
<1>3. CASE CrashWriting
  <2>1. pen # Idle
    BY <1>3 DEF CrashWriting
  <2>2. disk' \in Files /\ cuts' \in Nat
    BY <1>3, <2>1, CutTypes DEF CrashWriting
  <2> QED BY <1>3, <2>2, DownTypes DEF CrashWriting, ApprovalTypeOK, engine, calls, responder, counters
<1>4. CASE EndRun
  <2> QED BY <1>4, DownTypes DEF EndRun, ApprovalTypeOK, engine, calls, responder, counters
<1>5. CASE ScanPasses
  BY <1>5 DEF ScanPasses, Scanning, ApprovalTypeOK, engine, calls, responder, counters
<1>6. CASE ScanDecides
  <2>1. Least(todo) \in Requests
    BY <1>6, LeastIsMember DEF ScanDecides, ApprovalTypeOK
  <2>2. Verdict(Least(todo)) \in {"expire", "consuming"}
    BY <1>6 DEF ScanDecides, Verdict
  <2>3. pen' \in Envelopes
    BY <1>6, <2>1, <2>2 DEF ScanDecides, Env, Envelopes, Kinds
  <2> QED BY <1>6, <2>3 DEF ScanDecides, ApprovalTypeOK, engine, calls, responder, counters
<1>7. CASE expire
  <2>1. pen # Idle
    BY <1>7, KindNotIdle DEF expire, Kinds
  <2> QED BY <1>7, <2>1, PersistTypes DEF expire, ApprovalTypeOK, engine, calls, responder, counters
<1>8. CASE markConsuming
  <2>1. pen # Idle
    BY <1>8, KindNotIdle DEF markConsuming, Kinds
  <2> QED BY <1>8, <2>1, PersistTypes DEF markConsuming, ApprovalTypeOK, engine, calls, responder, counters
<1>9. CASE Execute
  BY <1>9 DEF Execute, ApprovalTypeOK, engine, calls, responder, counters
<1>10. ASSUME NEW threw \in BOOLEAN, ToolEnds(threw) PROVE ApprovalTypeOK'
  <2>1. call \in Requests
    BY <1>10 DEF ToolEnds, ApprovalTypeOK
  <2>2. pen' \in Envelopes
    BY <1>10, <2>1 DEF ToolEnds, Env, Envelopes, Kinds
  <2> QED BY <1>10, <2>2 DEF ToolEnds, ApprovalTypeOK, engine, calls, responder, counters
<1>11. CASE markConsumed
  <2>1. pen # Idle
    BY <1>11, KindNotIdle DEF markConsumed, Kinds
  <2> QED BY <1>11, <2>1, PersistTypes DEF markConsumed, ApprovalTypeOK, engine, calls, responder, counters
<1>12. CASE ResultRetried
  <2>1. pen # Idle
    BY <1>12, KindNotIdle DEF ResultRetried, Kinds
  <2>2. disk' \in Files /\ cuts' \in Nat /\ pen.id \in Requests
    BY <1>12, <2>1, CutTypes DEF ResultRetried
  <2> QED BY <1>12, <2>2 DEF ResultRetried, ApprovalTypeOK, engine, calls, responder, counters
<1>13. CASE ScanThrows
  <2>1. pen # Idle
    BY <1>13, KindNotIdle DEF ScanThrows, Kinds
  <2>2. disk' \in Files /\ cuts' \in Nat
    BY <1>13, <2>1, CutTypes DEF ScanThrows
  <2> QED BY <1>13, <2>2, DownTypes DEF ScanThrows, ApprovalTypeOK, engine, calls, responder, counters
<1>14. CASE ScanEnds
  BY <1>14 DEF ScanEnds, Scanning, ApprovalTypeOK, engine, calls, responder, counters
<1>15. CASE Park
  <2>1. PICK r \in Requests :
          /\ pen' = Env("record", r)
          /\ issued' = [issued EXCEPT ![r] = ctx]
          /\ answered' = [answered EXCEPT ![r] = "asked"]
    BY <1>15 DEF Park
  <2>2. pen' \in Envelopes
    BY <2>1 DEF Env, Envelopes, Kinds
  <2> QED BY <1>15, <2>1, <2>2 DEF Park, Quiet, ApprovalTypeOK, engine, calls, responder, counters
<1>16. CASE record
  <2>1. pen # Idle
    BY <1>16, KindNotIdle DEF record, Kinds
  <2> QED BY <1>16, <2>1, PersistTypes DEF record, ApprovalTypeOK, engine, calls, responder, counters
<1>17. CASE ParkFails
  <2>1. pen # Idle
    BY <1>17, KindNotIdle DEF ParkFails, Kinds
  <2>2. disk' \in Files /\ cuts' \in Nat /\ pen.id \in Requests
    BY <1>17, <2>1, CutTypes DEF ParkFails
  <2> QED BY <1>17, <2>2 DEF ParkFails, ApprovalTypeOK, engine, calls, responder, counters
<1>18. CASE SaveResults
  BY <1>18 DEF SaveResults, Quiet, ApprovalTypeOK, engine, calls, responder, counters
<1>19. ASSUME NEW c \in Contexts, ChangeRules(c) PROVE ApprovalTypeOK'
  BY <1>19 DEF ChangeRules, PolicyChanges, ApprovalTypeOK, engine, calls, responder, counters
<1>20. ASSUME NEW c \in Contexts, SwitchMode(c) PROVE ApprovalTypeOK'
  BY <1>20 DEF SwitchMode, PolicyChanges, ApprovalTypeOK, engine, calls, responder, counters
<1>21. CASE CancelNext
  <2>1. Least(queue) \in Requests
    BY <1>21, LeastIsMember DEF CancelNext, ApprovalTypeOK
  <2>2. pen' \in Envelopes
    BY <1>21, <2>1 DEF CancelNext, Env, Envelopes, Kinds
  <2> QED BY <1>21, <2>2 DEF CancelNext, ApprovalTypeOK, engine, calls, responder, counters
<1>22. CASE cancelPendingFor
  <2>1. pen # Idle
    BY <1>22, KindNotIdle DEF cancelPendingFor, Kinds
  <2> QED BY <1>22, <2>1, PersistTypes DEF cancelPendingFor, ApprovalTypeOK, engine, calls, responder, counters
<1>23. CASE CancelFails
  <2>1. pen # Idle
    BY <1>23, KindNotIdle DEF CancelFails, Kinds
  <2>2. disk' \in Files /\ cuts' \in Nat /\ pen.id \in Requests
    BY <1>23, <2>1, CutTypes DEF CancelFails
  <2> QED BY <1>23, <2>2 DEF CancelFails, ApprovalTypeOK, engine, calls, responder, counters
<1>24. CASE HostOpens
  <2>1. host' \in Folds
    BY <1>24, LoadFacts DEF HostOpens, ApprovalTypeOK
  <2> QED BY <1>24, <2>1 DEF HostOpens, ApprovalTypeOK, engine, calls, responder, counters
<1>25. ASSUME NEW r \in Requests, NEW k \in {"allow", "deny"}, respond(r, k) PROVE ApprovalTypeOK'
  <2>1. hostPen' \in Envelopes
    BY <1>25 DEF respond, Env, Envelopes, Kinds
  <2> QED BY <1>25, <2>1 DEF respond, ApprovalTypeOK, engine, calls, responder, counters
<1>26. CASE ResponseWritten
  <2>1. disk' \in Files /\ host' \in Folds
    BY <1>26, PenFacts DEF ResponseWritten
  <2> QED BY <1>26, <2>1 DEF ResponseWritten, ApprovalTypeOK, engine, calls, responder, counters
<1>27. CASE ResponseCut
  <2>1. disk' \in Files /\ cuts' \in Nat
    BY <1>27, CutTypes DEF ResponseCut
  <2> QED BY <1>27, <2>1 DEF ResponseCut, ApprovalTypeOK, engine, calls, responder, counters
<1>28. CASE UNCHANGED vars
  BY <1>28 DEF vars, ApprovalTypeOK, engine, calls, responder, counters
<1> QED BY <1>1, <1>2, <1>3, <1>4, <1>5, <1>6, <1>7, <1>8, <1>9, <1>10, <1>11, <1>12, <1>13, <1>14,
       <1>15, <1>16, <1>17, <1>18, <1>19, <1>20, <1>21, <1>22, <1>23, <1>24, <1>25, <1>26, <1>27, <1>28, <1>29
       DEF ApprovalNext, RunStep, ScanStep, TurnStep, HostStep

-----------------------------------------------------------------------------
(* The inductive invariant holds.  Most steps start no call and announce   *)
(* none; they are treated together.                                        *)

\* A step that starts and announces nothing: it may append a line, but none
\* that closes a request the scan has still to look at.  Of what was loaded it
\* may cancel a request.
StartsNothing ==
  /\ \/ disk' = disk
     \/ \E e \in Envelopes :
          /\ disk' \in CutShort(disk, e)
          /\ e.kind \in {"expire", "consumed"} => e.id \notin todo' /\ phase' # "loaded"
          /\ e.kind = "expire" => phase' # "intended"
  /\ phase' = "loaded" =>
       /\ phase = "loaded"
       /\ mem' = mem \/ \E e \in Envelopes : e.kind = "cancel" /\ mem' = applyEnvelope(mem, e)
  /\ runs' = runs
  /\ call' \in {call, NoCall}
  /\ todo' = {} \/ (todo' \subseteq todo /\ snap' = snap)
  /\ phase' = "intended" =>
       phase = "intended" /\ call' = call /\ ctx' = ctx /\ issued' = issued
  /\ \A r \in Requests : answered'[r] = "deferred" => answered[r] = "deferred"

\* The file of a step that appends at most one line: nothing readable is
\* taken back.
LEMMA FileKeeps ==
  ASSUME ApprovalTypeOK,
         disk' = disk \/ \E e \in Envelopes : disk' \in CutShort(disk, e)
  PROVE  /\ disk.lost \subseteq disk'.lost
         /\ disk.unreadable => disk'.unreadable
         /\ disk.tail # Clean => disk'.tail # Clean /\ disk'.folded = disk.folded
         /\ \A r \in Requests :
              /\ disk.folded[r].consuming => disk'.folded[r].consuming
              /\ disk.folded[r].state # "absent" => disk'.folded[r].state # "absent"
<1>1. disk \in Files
  BY DEF ApprovalTypeOK
<1>2. CASE disk' = disk
  BY <1>2
<1>3. ASSUME NEW e \in Envelopes, disk' \in CutShort(disk, e)
      PROVE  /\ disk.lost \subseteq disk'.lost
             /\ disk.unreadable => disk'.unreadable
             /\ disk.tail # Clean => disk'.tail # Clean /\ disk'.folded = disk.folded
             /\ \A r \in Requests :
                  /\ disk.folded[r].consuming => disk'.folded[r].consuming
                  /\ disk.folded[r].state # "absent" => disk'.folded[r].state # "absent"
  BY <1>1, <1>3, FileFacts, AppendFacts
<1> QED BY <1>2, <1>3

\* Such a step keeps what the scan may rely on.
LEMMA NothingStartedKeepsScan ==
  ASSUME ApprovalInv, StartsNothing
  PROVE  ScanIsFresh'
<1>1. disk \in Files /\ todo \subseteq Requests
  BY DEF ApprovalInv, ApprovalTypeOK
<1>2. disk.lost \subseteq disk'.lost
      /\ (disk.tail # Clean => disk'.tail # Clean /\ disk'.folded = disk.folded)
  BY FileKeeps DEF ApprovalInv, StartsNothing
<1>3. CASE todo' = {}
  BY <1>3 DEF ScanIsFresh
<1>4. CASE todo' \subseteq todo /\ snap' = snap
  <2>1. call' \notin todo'
    BY <1>1, <1>4, ApprovalBounds DEF StartsNothing, ApprovalInv, ScanIsFresh, NoCall
  <2>2. ASSUME NEW r \in todo', snap[r].state = "allowed", ~snap[r].consumed
        PROVE  Startable(r)'
    <3>1. r \in todo /\ r \in Requests /\ Startable(r)
      BY <1>1, <1>4, <2>2 DEF ApprovalInv, ScanIsFresh
    <3>2. CASE disk.folded[r].state = "allowed" /\ ~disk.folded[r].consumed
      <4>1. CASE disk' = disk
        BY <3>2, <4>1 DEF Startable
      <4>2. ASSUME NEW e \in Envelopes, disk' \in CutShort(disk, e),
                   e.kind \in {"expire", "consumed"} => e.id \notin todo'
            PROVE  Startable(r)'
        <5>1. (e.kind # "expire" \/ e.id # r) /\ (e.kind # "consumed" \/ e.id # r)
          BY <2>2, <4>2
        <5>2. disk'.folded[r].state = "allowed" /\ ~disk'.folded[r].consumed
          BY <1>1, <3>1, <3>2, <4>2, <5>1, AppendFacts
        <5> QED BY <5>2 DEF Startable
      <4> QED BY <4>1, <4>2 DEF StartsNothing
    <3>3. CASE disk.tail # Clean /\ disk.folded[r].state \notin Refused
      BY <1>2, <3>3 DEF Startable
    <3> QED BY <3>1, <3>2, <3>3 DEF Startable
  <2>3. ASSUME NEW r \in todo', Spent(r)' PROVE snap[r].consuming \/ Swallow(r)'
    <3>1. r \in todo /\ r # NoCall
      BY <1>1, <1>4, <2>3, ApprovalBounds DEF NoCall
    <3>2. Spent(r)
      BY <2>3, <3>1 DEF Spent, StartsNothing
    <3> QED BY <1>2, <3>1, <3>2 DEF ApprovalInv, ScanIsFresh, Swallow
  <2> QED BY <1>4, <2>1, <2>2, <2>3 DEF ScanIsFresh
<1> QED BY <1>3, <1>4 DEF StartsNothing

\* And what was loaded for it.
LEMMA NothingStartedKeepsLoad ==
  ASSUME ApprovalInv, StartsNothing
  PROVE  LoadIsFresh'
<1>1. SUFFICES ASSUME phase' = "loaded", NEW r \in Requests
               PROVE  /\ mem'[r].state = "allowed" /\ ~mem'[r].consumed => Startable(r)'
                      /\ Spent(r)' => mem'[r].consuming \/ Swallow(r)'
  BY DEF LoadIsFresh
<1>2. disk \in Files /\ mem \in Folds /\ mem[r] \in Records /\ phase = "loaded"
  BY <1>1 DEF ApprovalInv, ApprovalTypeOK, StartsNothing, Folds
<1>3. disk.lost \subseteq disk'.lost
      /\ (disk.tail # Clean => disk'.tail # Clean /\ disk'.folded = disk.folded)
  BY FileKeeps DEF ApprovalInv, StartsNothing
<1>4. /\ mem[r].consuming => mem'[r].consuming
      /\ mem'[r].state = "allowed" => mem[r].state = "allowed"
      /\ ~mem'[r].consumed => ~mem[r].consumed
  <2>1. CASE mem' = mem
    BY <2>1
  <2>2. ASSUME NEW e \in Envelopes, e.kind = "cancel", mem' = applyEnvelope(mem, e)
        PROVE  /\ mem[r].consuming => mem'[r].consuming
               /\ mem'[r].state = "allowed" => mem[r].state = "allowed"
               /\ ~mem'[r].consumed => ~mem[r].consumed
    <3>1. CASE r # e.id
      BY <1>2, <2>2, <3>1, ApplyFacts
    <3>2. CASE r = e.id
      <4>1. mem'[r] = Transition(mem[r], "cancel")
        BY <1>2, <2>2, <3>2, ApplyFacts
      <4> QED BY <1>2, <4>1 DEF Transition, Records
    <3> QED BY <3>1, <3>2
  <2> QED BY <1>1, <2>1, <2>2 DEF StartsNothing
<1>5. ASSUME mem'[r].state = "allowed", ~mem'[r].consumed PROVE Startable(r)'
  <2>1. Startable(r)
    BY <1>2, <1>4, <1>5 DEF ApprovalInv, LoadIsFresh
  <2>2. CASE disk.folded[r].state = "allowed" /\ ~disk.folded[r].consumed
    <3>1. CASE disk' = disk
      BY <2>2, <3>1 DEF Startable
    <3>2. ASSUME NEW e \in Envelopes, disk' \in CutShort(disk, e), e.kind \notin {"expire", "consumed"}
          PROVE  Startable(r)'
      <4>1. disk'.folded[r].state = "allowed" /\ ~disk'.folded[r].consumed
        BY <1>2, <2>2, <3>2, AppendFacts
      <4> QED BY <4>1 DEF Startable
    <3> QED BY <1>1, <3>1, <3>2 DEF StartsNothing
  <2>3. CASE disk.tail # Clean /\ disk.folded[r].state \notin Refused
    BY <1>3, <2>3 DEF Startable
  <2> QED BY <2>1, <2>2, <2>3 DEF Startable
<1>6. ASSUME Spent(r)' PROVE mem'[r].consuming \/ Swallow(r)'
  <2>1. Spent(r)
    BY <1>6, ApprovalBounds DEF Spent, StartsNothing, NoCall
  <2> QED BY <1>2, <1>3, <1>4, <2>1 DEF ApprovalInv, LoadIsFresh, Swallow
<1> QED BY <1>5, <1>6

\* And everything else.
LEMMA NothingStarted ==
  ASSUME ApprovalInv, StartsNothing
  PROVE  /\ SpentIsShown'
         /\ LoadIsFresh'
         /\ ScanIsFresh'
         /\ IntentHolds'
         /\ RunsOnceUnlessSwallowed'
         /\ DeferredIsDurable'
<1>1. disk \in Files /\ call \in Requests \cup {NoCall}
      /\ (phase = "intended" => call # NoCall)
  BY DEF ApprovalInv, ApprovalTypeOK
<1>2. /\ disk.lost \subseteq disk'.lost
      /\ disk.unreadable => disk'.unreadable
      /\ disk.tail # Clean => disk'.tail # Clean /\ disk'.folded = disk.folded
      /\ \A r \in Requests :
           /\ disk.folded[r].consuming => disk'.folded[r].consuming
           /\ disk.folded[r].state # "absent" => disk'.folded[r].state # "absent"
  BY FileKeeps DEF ApprovalInv, StartsNothing
<1>3. SpentIsShown'
  <2> SUFFICES ASSUME NEW r \in Requests, Spent(r)'
               PROVE  disk'.folded[r].consuming \/ Swallow(r)' \/ disk'.unreadable
    BY DEF SpentIsShown
  <2>1. Spent(r)
    BY ApprovalBounds DEF Spent, StartsNothing, NoCall
  <2> QED BY <1>2, <2>1 DEF ApprovalInv, SpentIsShown, Swallow
<1>4. IntentHolds'
  <2> SUFFICES ASSUME phase' = "intended" PROVE IntentHolds'
    BY DEF IntentHolds
  <2>1. phase = "intended" /\ call' = call /\ ctx' = ctx /\ issued' = issued /\ runs' = runs
        /\ call \in Requests
    BY <1>1 DEF StartsNothing
  <2>2. runs[call] > 0 => Swallow(call)'
    BY <1>2, <2>1 DEF ApprovalInv, IntentHolds, Swallow
  <2>3. CASE disk.tail # Clean /\ disk.folded[call].state \notin Refused
    BY <1>2, <2>1, <2>2, <2>3 DEF ApprovalInv, IntentHolds, Swallow
  <2>4. CASE disk.folded[call].state = "allowed"
    <3>1. disk'.folded[call].state = "allowed"
      <4>1. CASE disk' = disk
        BY <2>4, <4>1
      <4>2. ASSUME NEW e \in Envelopes, disk' \in CutShort(disk, e), e.kind # "expire"
            PROVE  disk'.folded[call].state = "allowed"
        BY <1>1, <2>1, <2>4, <4>2, AppendFacts
      <4> QED BY <4>1, <4>2 DEF StartsNothing
    <3> QED BY <2>1, <2>2, <3>1 DEF ApprovalInv, IntentHolds, Swallow
  <2> QED BY <2>1, <2>3, <2>4 DEF ApprovalInv, IntentHolds
<1>5. RunsOnceUnlessSwallowed'
  BY <1>2 DEF ApprovalInv, RunsOnceUnlessSwallowed, StartsNothing
<1>6. DeferredIsDurable'
  BY <1>2 DEF ApprovalInv, DeferredIsDurable, StartsNothing
<1> QED BY <1>3, <1>4, <1>5, <1>6, NothingStartedKeepsLoad, NothingStartedKeepsScan

\* A resume reads a fold that shows every started call, unless its line was
\* swallowed.
LEMMA ResumeIsFresh ==
  ASSUME ApprovalInv, NEW c \in Contexts, Resume(c)
  PROVE  LoadIsFresh'
<1>1. disk \in Files /\ disk' = disk /\ ~disk.unreadable /\ mem' = loadExisting(disk) /\ runs' = runs /\ call' = call
  BY DEF Resume, ApprovalInv, ApprovalTypeOK, calls
<1>2. ASSUME NEW r \in Requests, mem'[r].state = "allowed", ~mem'[r].consumed
      PROVE  Startable(r)'
  <2>1. CASE disk.tail = Clean
    BY <1>1, <1>2, <2>1, LoadFacts DEF Startable
  <2>2. CASE disk.tail # Clean
    <3>1. disk.folded[r].state \in {"pending", "allowed"}
      BY <1>1, <1>2, LoadFacts
    <3> QED BY <1>1, <2>2, <3>1 DEF Startable, Refused
  <2> QED BY <2>1, <2>2
<1>3. ASSUME NEW r \in Requests, Spent(r)' PROVE mem'[r].consuming \/ Swallow(r)'
  <2>1. Spent(r)
    BY <1>1, <1>3 DEF Spent
  <2>2. disk.folded[r].consuming \/ Swallow(r)
    BY <1>1, <2>1 DEF ApprovalInv, SpentIsShown
  <2> QED BY <1>1, <2>2, LoadFacts DEF Swallow
<1> QED BY <1>2, <1>3 DEF LoadIsFresh

\* The announcement: the line is in the fold, or swallowed, or the file can
\* no longer be read; and the call was not started before, unless an earlier
\* announcement was swallowed.
LEMMA AnnouncementShows ==
  ASSUME ApprovalInv, markConsuming
  PROVE  /\ disk'.folded[call'].consuming \/ Swallow(call)' \/ disk'.unreadable
         /\ runs[call'] > 0 => Swallow(call)'
         /\ \/ disk'.folded[call'].state = "allowed"
            \/ disk'.tail # Clean /\ disk'.folded[call'].state \notin Refused
<1>1. pen # Idle
  BY KindNotIdle DEF markConsuming, Kinds
<1>2. /\ pen \in Envelopes /\ pen.id \in Requests /\ pen.kind = "consuming"
      /\ call' = pen.id /\ disk' = appendJsonLine(disk, pen)
      /\ disk' \in CutShort(disk, pen)
      /\ disk \in Files
  BY <1>1, PersistTypes DEF ApprovalInv, markConsuming, persistAndApply, ApprovalTypeOK
<1>3. /\ pen.id \in todo /\ snap[pen.id].state = "allowed"
      /\ ~snap[pen.id].consumed /\ ~snap[pen.id].consuming
  BY <1>2 DEF ApprovalInv, PenFits
<1>4. Startable(pen.id)
  BY <1>3 DEF ApprovalInv, ScanIsFresh
<1>5. pen = Env("consuming", pen.id)
  BY <1>2 DEF Envelopes, Env
<1>6. disk.lost \subseteq disk'.lost
  BY <1>2, FileFacts
<1>7. runs[call'] > 0 => Swallow(call)'
  <2> SUFFICES ASSUME runs[pen.id] > 0 PROVE Swallow(call)'
    BY <1>2
  <2>1. Swallow(pen.id)
    BY <1>3 DEF Spent, ApprovalInv, ScanIsFresh
  <2> QED BY <1>2, <1>6, <2>1 DEF Swallow
<1>8. CASE disk.tail = Clean
  <2>1. disk.tail # Glued
    BY <1>8 DEF Clean, Glued, Env
  <2>2. disk' = [disk EXCEPT !.folded = applyEnvelope(disk.folded, pen)]
    BY <1>2, <1>8, <2>1, Zenon DEF appendJsonLine
  <2>3. disk.folded \in Folds /\ disk'.folded = applyEnvelope(disk.folded, pen)
    BY <1>2, <2>2 DEF Files
  <2>4. disk'.folded[pen.id] = Transition(disk.folded[pen.id], "consuming")
    BY <1>2, <2>3, ApplyFacts
  <2>5. disk.folded[pen.id] \in Records /\ "consuming" \in Kinds
    BY <1>2, <2>3 DEF Folds, Kinds
  <2>6. disk.folded[pen.id].state = "allowed" /\ ~disk.folded[pen.id].consumed
    BY <1>4, <1>8 DEF Startable
  <2>7. disk'.folded[pen.id].consuming /\ disk'.folded[pen.id].state = "allowed"
    BY <2>4, <2>5, <2>6, TransitionFacts
  <2> QED BY <1>2, <1>7, <2>7
<1>9. CASE disk.tail # Clean
  <2>1. disk'.tail # Clean /\ disk'.folded = disk.folded
    BY <1>2, <1>9, FileFacts
  <2>2. disk.folded[pen.id].state \notin Refused
    BY <1>4 DEF Startable, Refused
  <2>3. CASE disk.tail = Glued
    <3>1. disk' = [disk EXCEPT !.unreadable = TRUE]
      BY <1>2, <1>9, <2>3, Zenon DEF appendJsonLine
    <3>2. disk'.unreadable
      BY <1>2, <3>1 DEF Files
    <3> QED BY <1>2, <1>7, <2>1, <2>2, <3>2
  <2>4. CASE disk.tail # Glued
    <3>1. disk' = [disk EXCEPT !.tail = Glued, !.lost = disk.lost \cup {pen} \cup Swallowed(disk)]
      BY <1>2, <1>9, <2>4, Zenon DEF appendJsonLine
    <3>2. pen \in disk'.lost
      BY <1>2, <3>1 DEF Files
    <3>3. Swallow(call)'
      BY <1>2, <1>5, <3>2 DEF Swallow
    <3> QED BY <1>2, <1>7, <2>1, <2>2, <3>3
  <2> QED BY <2>3, <2>4
<1> QED BY <1>8, <1>9

\* A record that was written is in the fold, swallowed, or beyond reading.
LEMMA RecordShows ==
  ASSUME ApprovalTypeOK, record
  PROVE  \/ disk'.folded[pen.id].state # "absent"
         \/ Env("record", pen.id) \in disk'.lost
         \/ disk'.unreadable
<1>1. pen # Idle
  BY KindNotIdle DEF record, Kinds
<1>2. /\ pen \in Envelopes /\ pen.id \in Requests /\ pen.kind = "record"
      /\ disk' = appendJsonLine(disk, pen) /\ disk \in Files
  BY <1>1, PersistTypes DEF record, persistAndApply, ApprovalTypeOK
<1>3. pen = Env("record", pen.id)
  BY <1>2 DEF Envelopes, Env
<1>4. CASE disk.tail = Clean
  <2>1. disk.tail # Glued
    BY <1>4 DEF Clean, Glued, Env
  <2>2. disk' = [disk EXCEPT !.folded = applyEnvelope(disk.folded, pen)]
    BY <1>2, <1>4, <2>1, Zenon DEF appendJsonLine
  <2>3. disk.folded \in Folds /\ disk'.folded = applyEnvelope(disk.folded, pen)
    BY <1>2, <2>2 DEF Files
  <2>4. disk'.folded[pen.id] = Transition(disk.folded[pen.id], "record")
    BY <1>2, <2>3, ApplyFacts
  <2>5. disk.folded[pen.id] \in Records /\ "record" \in Kinds
    BY <1>2, <2>3 DEF Folds, Kinds
  <2> QED BY <2>4, <2>5, TransitionFacts
<1>5. CASE disk.tail = Glued
  <2>1. disk.tail # Clean
    BY <1>5 DEF Clean, Glued, Env
  <2>2. disk' = [disk EXCEPT !.unreadable = TRUE]
    BY <1>2, <1>5, <2>1, Zenon DEF appendJsonLine
  <2> QED BY <1>2, <2>2 DEF Files
<1>6. CASE disk.tail # Clean /\ disk.tail # Glued
  <2>1. disk' = [disk EXCEPT !.tail = Glued, !.lost = disk.lost \cup {pen} \cup Swallowed(disk)]
    BY <1>2, <1>6, Zenon DEF appendJsonLine
  <2> QED BY <1>2, <1>3, <2>1 DEF Files
<1> QED BY <1>4, <1>5, <1>6

\* Every step keeps the invariant.
LEMMA ApprovalStep ==
  ASSUME ApprovalInv, [ApprovalNext]_vars
  PROVE  ApprovalInv'
<1>0. ApprovalTypeOK'
  BY ApprovalStepTypes DEF ApprovalInv
<1>1. ApprovalTypeOK
  BY DEF ApprovalInv
<1>2. ASSUME NEW c \in Contexts, Resume(c) PROVE ApprovalInv'
  <2>1. SpentIsShown' /\ RunsOnceUnlessSwallowed' /\ DeferredIsDurable'
    BY <1>2 DEF Resume, ApprovalInv, SpentIsShown, Spent, Swallow, RunsOnceUnlessSwallowed,
                DeferredIsDurable, engine, calls, responder, counters
  <2>2. IntentHolds'
    BY <1>2 DEF Resume, IntentHolds
  <2>3. pen.kind # "consuming"
    BY <1>2 DEF Resume, ApprovalInv, PenFits
  <2>4. PenFits'
    BY <1>2, <2>3 DEF Resume, ApprovalInv, PenFits, engine, calls, responder, counters
  <2>5. ScanIsFresh'
    BY <1>2 DEF Resume, ApprovalInv, ScanIsFresh, Startable, Spent, Swallow, calls
  <2> QED BY <1>2, <2>1, <2>2, <2>4, <2>5, ResumeIsFresh, <1>0 DEF ApprovalInv
<1>30. CASE ScanBegins
  <2>1. /\ UNCHANGED <<disk, call, pen, ctx, calls, responder>> /\ phase = "loaded" /\ phase' = "scan"
        /\ snap' = mem /\ todo' \subseteq Requests /\ pen = Idle
    BY <1>30 DEF ScanBegins
  <2>2. SpentIsShown' /\ RunsOnceUnlessSwallowed' /\ DeferredIsDurable'
    BY <2>1 DEF ApprovalInv, SpentIsShown, Spent, Swallow, RunsOnceUnlessSwallowed, DeferredIsDurable, calls
  <2>3. IntentHolds' /\ LoadIsFresh' /\ PenFits'
    BY <2>1 DEF IntentHolds, LoadIsFresh, ApprovalInv, PenFits, Idle, Env, responder
  <2>4. call = NoCall
    BY <1>1, <2>1 DEF ApprovalTypeOK
  <2>5. call' \notin todo'
    BY <2>1, <2>4, ApprovalBounds DEF NoCall
  <2>6. ScanIsFresh'
    BY <2>1, <2>5 DEF ApprovalInv, LoadIsFresh, ScanIsFresh, Startable, Spent, Swallow, calls
  <2> QED BY <2>2, <2>3, <2>6, <1>0 DEF ApprovalInv
<1>3. CASE Crash
  <2>1. StartsNothing
    BY <1>1, <1>3 DEF Crash, Down, StartsNothing, engine, calls, responder, counters
  <2>2. PenFits'
    BY <1>1, <1>3 DEF Crash, Down, ApprovalInv, PenFits, Idle, Env, engine, calls, responder, counters
  <2> QED BY <2>1, <2>2, NothingStarted, <1>0 DEF ApprovalInv
<1>4. CASE CrashWriting
  <2>1. pen # Idle /\ pen \in Envelopes /\ disk' \in CutShort(disk, pen)
    BY <1>1, <1>4, KindNotIdle, CutTypes DEF CrashWriting, Kinds
  <2>2. StartsNothing
    BY <1>1, <1>4, <2>1 DEF CrashWriting, Down, StartsNothing, engine, calls, responder, counters
  <2>3. PenFits'
    BY <1>1, <1>4, <2>1 DEF CrashWriting, Down, ApprovalInv, PenFits, Idle, Env, engine, calls, responder, counters
  <2> QED BY <2>2, <2>3, NothingStarted, <1>0 DEF ApprovalInv
<1>5. CASE EndRun
  <2>1. StartsNothing
    BY <1>1, <1>5 DEF EndRun, Down, StartsNothing, engine, calls, responder, counters
  <2>2. PenFits'
    BY <1>1, <1>5 DEF EndRun, Down, ApprovalInv, PenFits, Idle, Env, engine, calls, responder, counters
  <2> QED BY <2>1, <2>2, NothingStarted, <1>0 DEF ApprovalInv
<1>6. CASE ScanPasses
  <2>1. StartsNothing
    BY <1>1, <1>6 DEF ScanPasses, Scanning, StartsNothing, engine, calls, responder, counters
  <2>2. PenFits'
    BY <1>1, <1>6 DEF ScanPasses, Scanning, ApprovalInv, PenFits, Idle, Env, engine, calls, responder, counters
  <2> QED BY <2>1, <2>2, NothingStarted, <1>0 DEF ApprovalInv
<1>7. CASE ScanDecides
  <2>1. Least(todo) \in todo /\ todo \subseteq Requests
    BY <1>1, <1>7, LeastIsMember DEF ScanDecides, ApprovalTypeOK
  <2>2. StartsNothing
    BY <1>7 DEF ScanDecides, Scanning, StartsNothing, engine, calls, responder, counters
  <2>3. pen'.kind = Verdict(Least(todo)) /\ pen'.id = Least(todo)
    BY <1>7 DEF ScanDecides, Env
  <2>4. Verdict(Least(todo)) \in {"expire", "consuming"}
    BY <1>7 DEF ScanDecides, Verdict
  <2>5. Verdict(Least(todo)) = "consuming" =>
          /\ snap[Least(todo)].state = "allowed"
          /\ ~snap[Least(todo)].consumed /\ ~snap[Least(todo)].consuming
          /\ ctx = issued[Least(todo)]
    BY DEF Verdict, revalidateApproval
  <2>6. PenFits'
    BY <1>7, <2>1, <2>3, <2>4, <2>5 DEF ScanDecides, Scanning, ApprovalInv, PenFits, engine, calls, responder, counters
  <2> QED BY <2>2, <2>6, NothingStarted, <1>0 DEF ApprovalInv
<1>8. CASE expire
  <2>1. pen # Idle /\ pen \in Envelopes /\ disk' \in CutShort(disk, pen)
    BY <1>1, <1>8, KindNotIdle, PersistTypes DEF expire, Kinds
  <2>2. StartsNothing
    BY <1>1, <1>8, <2>1 DEF expire, persistAndApply, StartsNothing, engine, calls, responder, counters
  <2>3. PenFits'
    BY <1>1, <1>8, <2>1 DEF expire, persistAndApply, ApprovalInv, PenFits, Idle, Env, engine, calls, responder, counters
  <2> QED BY <2>2, <2>3, NothingStarted, <1>0 DEF ApprovalInv
<1>9. CASE markConsuming
  <2>1. /\ pen.id \in Requests /\ call' = pen.id /\ todo' = todo \ {pen.id} /\ snap' = snap
        /\ pen \in Envelopes /\ disk' \in CutShort(disk, pen) /\ pen' = Idle
        /\ runs' = runs /\ answered' = answered /\ ctx' = ctx /\ issued' = issued /\ hostPen' = hostPen
        /\ pen.kind = "consuming"
    BY <1>1, <1>9, KindNotIdle, PersistTypes DEF markConsuming, Kinds, calls, responder
  <2>2. /\ disk.lost \subseteq disk'.lost
        /\ disk.unreadable => disk'.unreadable
        /\ disk.tail # Clean => disk'.tail # Clean /\ disk'.folded = disk.folded
        /\ \A r \in Requests :
             /\ disk.folded[r].consuming => disk'.folded[r].consuming
             /\ disk.folded[r].state # "absent" => disk'.folded[r].state # "absent"
    BY <1>1, <2>1, FileKeeps
  <2>3. SpentIsShown'
    <3> SUFFICES ASSUME NEW r \in Requests, Spent(r)'
                 PROVE  disk'.folded[r].consuming \/ Swallow(r)' \/ disk'.unreadable
      BY DEF SpentIsShown
    <3>1. CASE r = call'
      BY <1>9, <3>1, AnnouncementShows DEF Swallow
    <3>2. CASE r # call'
      BY <2>1, <2>2, <3>2 DEF Spent, ApprovalInv, SpentIsShown, Swallow
    <3> QED BY <3>1, <3>2
  <2>4. ScanIsFresh'
    <3>1. disk \in Files /\ todo \subseteq Requests
      BY <1>1 DEF ApprovalTypeOK
    <3>2. ASSUME NEW r \in todo', snap[r].state = "allowed", ~snap[r].consumed
          PROVE  Startable(r)'
      <4>1. r \in todo /\ r \in Requests /\ Startable(r)
        BY <2>1, <3>1, <3>2 DEF ApprovalInv, ScanIsFresh
      <4>2. CASE disk.folded[r].state = "allowed" /\ ~disk.folded[r].consumed
        BY <2>1, <3>1, <4>1, <4>2, AppendFacts DEF Startable
      <4>3. CASE disk.tail # Clean /\ disk.folded[r].state \notin Refused
        BY <2>2, <4>3 DEF Startable
      <4> QED BY <4>1, <4>2, <4>3 DEF Startable
    <3>3. ASSUME NEW r \in todo', Spent(r)' PROVE snap[r].consuming \/ Swallow(r)'
      <4>1. r \in todo /\ Spent(r)
        BY <2>1, <3>3 DEF Spent
      <4> QED BY <2>2, <4>1 DEF ApprovalInv, ScanIsFresh, Swallow
    <3> QED BY <2>1, <3>2, <3>3 DEF ScanIsFresh
  <2>8. LoadIsFresh'
    BY <1>9 DEF markConsuming, LoadIsFresh
  <2>5. IntentHolds'
    <3>1. ctx = issued[pen.id]
      BY <2>1 DEF ApprovalInv, PenFits
    <3> QED BY <1>9, <2>1, <3>1, AnnouncementShows DEF IntentHolds
  <2>6. RunsOnceUnlessSwallowed' /\ DeferredIsDurable'
    BY <2>1, <2>2 DEF ApprovalInv, RunsOnceUnlessSwallowed, DeferredIsDurable
  <2>7. PenFits'
    BY <2>1 DEF ApprovalInv, PenFits, Idle, Env
  <2> QED BY <2>3, <2>4, <2>5, <2>6, <2>7, <2>8, <1>0 DEF ApprovalInv
<1>10. CASE Execute
  <2>1. /\ phase = "intended" /\ phase' = "running" /\ call \in Requests /\ call' = call /\ disk' = disk
        /\ runs' = [runs EXCEPT ![call] = @ + 1] /\ runs \in [Requests -> Nat]
        /\ todo' = todo /\ snap' = snap /\ todo \subseteq Requests
    BY <1>1, <1>10 DEF Execute, ApprovalTypeOK
  <2>2. \A r \in Requests : Spent(r)' => Spent(r)
    BY <2>1 DEF Spent
  <2>3. SpentIsShown'
    BY <2>1, <2>2 DEF ApprovalInv, SpentIsShown, Swallow
  <2>4. ScanIsFresh'
    BY <2>1, <2>2 DEF ApprovalInv, ScanIsFresh, Startable, Swallow
  <2>5. RunsOnceUnlessSwallowed'
    <3>1. runs[call] > 0 => Env("consuming", call) \in disk.lost
      BY <2>1 DEF ApprovalInv, IntentHolds, Swallow
    <3>2. runs'[call] > 1 => runs[call] > 0
      BY <2>1
    <3>3. \A r \in Requests : r # call => runs'[r] = runs[r]
      BY <2>1
    <3> QED BY <2>1, <3>1, <3>2, <3>3 DEF ApprovalInv, RunsOnceUnlessSwallowed
  <2>6. IntentHolds' /\ LoadIsFresh'
    BY <2>1 DEF IntentHolds, LoadIsFresh
  <2>7. PenFits' /\ DeferredIsDurable'
    BY <1>10 DEF Execute, ApprovalInv, PenFits, DeferredIsDurable, engine, calls, responder, counters
  <2> QED BY <2>3, <2>4, <2>5, <2>6, <2>7, <1>0 DEF ApprovalInv
<1>11. ASSUME NEW threw \in BOOLEAN, ToolEnds(threw) PROVE ApprovalInv'
  <2>1. StartsNothing
    BY <1>1, <1>11 DEF ToolEnds, StartsNothing, engine, calls, responder, counters
  <2>2. PenFits'
    BY <1>1, <1>11 DEF ToolEnds, ApprovalInv, PenFits, Idle, Env, engine, calls, responder, counters
  <2> QED BY <2>1, <2>2, NothingStarted, <1>0 DEF ApprovalInv
<1>12. CASE markConsumed
  <2>1. pen # Idle /\ pen \in Envelopes /\ disk' \in CutShort(disk, pen)
    BY <1>1, <1>12, KindNotIdle, PersistTypes DEF markConsumed, Kinds
  <2>2. pen.kind = "consumed" /\ pen.id \notin todo
    BY <1>12 DEF markConsumed, ApprovalInv, PenFits, ScanIsFresh
  <2>3. StartsNothing
    BY <1>12, <2>1, <2>2 DEF markConsumed, persistAndApply, StartsNothing, engine, calls, responder, counters
  <2>4. PenFits'
    BY <1>1, <1>12, <2>1 DEF markConsumed, persistAndApply, ApprovalInv, PenFits, Idle, Env, engine, calls, responder, counters
  <2> QED BY <2>3, <2>4, NothingStarted, <1>0 DEF ApprovalInv
<1>13. CASE ResultRetried
  <2>1. pen # Idle /\ pen \in Envelopes /\ disk' \in CutShort(disk, pen)
    BY <1>1, <1>13, KindNotIdle, CutTypes DEF ResultRetried, Kinds
  <2>2. pen.kind = "consumed" /\ pen.id \notin todo /\ phase # "loaded"
    BY <1>13 DEF ResultRetried, ApprovalInv, PenFits, ScanIsFresh
  <2>3. StartsNothing
    BY <1>13, <2>1, <2>2 DEF ResultRetried, StartsNothing, engine, calls, responder, counters
  <2>4. PenFits'
    BY <1>1, <1>13, <2>1 DEF ResultRetried, ApprovalInv, PenFits, Idle, Env, engine, calls, responder, counters
  <2> QED BY <2>3, <2>4, NothingStarted, <1>0 DEF ApprovalInv
<1>14. CASE ScanThrows
  <2>1. pen # Idle /\ pen \in Envelopes /\ disk' \in CutShort(disk, pen)
    BY <1>1, <1>14, KindNotIdle, CutTypes DEF ScanThrows, Kinds
  <2>2. StartsNothing
    BY <1>1, <1>14, <2>1 DEF ScanThrows, Down, StartsNothing, engine, calls, responder, counters
  <2>3. PenFits'
    BY <1>1, <1>14, <2>1 DEF ScanThrows, Down, ApprovalInv, PenFits, Idle, Env, engine, calls, responder, counters
  <2> QED BY <2>2, <2>3, NothingStarted, <1>0 DEF ApprovalInv
<1>15. CASE ScanEnds
  <2>1. StartsNothing
    BY <1>1, <1>15 DEF ScanEnds, Scanning, StartsNothing, engine, calls, responder, counters
  <2>2. PenFits'
    BY <1>1, <1>15 DEF ScanEnds, Scanning, ApprovalInv, PenFits, Idle, Env, engine, calls, responder, counters
  <2> QED BY <2>1, <2>2, NothingStarted, <1>0 DEF ApprovalInv
<1>16. CASE Park
  <2>1. StartsNothing
    BY <1>1, <1>16 DEF Park, Quiet, StartsNothing, engine, calls, responder, counters
  <2>2. PenFits'
    BY <1>1, <1>16 DEF Park, Quiet, ApprovalInv, PenFits, Idle, Env, engine, calls, responder, counters
  <2> QED BY <2>1, <2>2, NothingStarted, <1>0 DEF ApprovalInv
<1>17. CASE record
  <2>1. /\ pen \in Envelopes /\ pen.id \in Requests /\ disk' \in CutShort(disk, pen)
        /\ pen' = Idle /\ pen.kind = "record"
    BY <1>1, <1>17, KindNotIdle, PersistTypes DEF record, Kinds
  <2>2. /\ phase' = phase /\ call' = call /\ todo' = todo /\ snap' = snap /\ ctx' = ctx
        /\ issued' = issued /\ runs' = runs /\ hostPen' = hostPen
        /\ answered' = [answered EXCEPT ![pen.id] = "deferred"]
    BY <1>17 DEF record, responder
  <2>3. /\ disk.lost \subseteq disk'.lost
        /\ disk.unreadable => disk'.unreadable
        /\ disk.tail # Clean => disk'.tail # Clean /\ disk'.folded = disk.folded
        /\ \A r \in Requests :
             /\ disk.folded[r].consuming => disk'.folded[r].consuming
             /\ disk.folded[r].state # "absent" => disk'.folded[r].state # "absent"
             /\ disk.folded[r].state = "allowed" => disk'.folded[r].state = "allowed"
             /\ ~disk.folded[r].consumed => ~disk'.folded[r].consumed
    <3>1. disk \in Files
      BY <1>1 DEF ApprovalTypeOK
    <3> QED BY <2>1, <3>1, FileFacts, AppendFacts
  <2>4. SpentIsShown' /\ RunsOnceUnlessSwallowed'
    BY <2>2, <2>3 DEF ApprovalInv, SpentIsShown, RunsOnceUnlessSwallowed, Spent, Swallow
  <2>5. ScanIsFresh'
    <3>1. todo \subseteq Requests
      BY <1>1 DEF ApprovalTypeOK
    <3> QED BY <2>2, <2>3, <3>1 DEF ApprovalInv, ScanIsFresh, Startable, Spent, Swallow
  <2>6. IntentHolds'
    <3>1. phase = "intended" => call \in Requests
      BY <1>1 DEF ApprovalTypeOK
    <3> QED BY <2>2, <2>3, <3>1 DEF ApprovalInv, IntentHolds, Swallow
  <2>7. DeferredIsDurable'
    <3> SUFFICES ASSUME NEW r \in Requests, answered'[r] = "deferred"
                 PROVE  \/ disk'.folded[r].state # "absent"
                        \/ Env("record", r) \in disk'.lost
                        \/ disk'.unreadable
      BY DEF DeferredIsDurable
    <3>1. CASE r = pen.id
      BY <1>1, <1>17, <3>1, RecordShows
    <3>2. CASE r # pen.id
      <4>1. answered[r] = "deferred"
        BY <1>1, <2>2, <3>2 DEF ApprovalTypeOK
      <4> QED BY <2>3, <4>1 DEF ApprovalInv, DeferredIsDurable
    <3> QED BY <3>1, <3>2
  <2>8. PenFits' /\ LoadIsFresh'
    BY <2>1, <2>2 DEF ApprovalInv, PenFits, LoadIsFresh, Idle, Env
  <2> QED BY <2>4, <2>5, <2>6, <2>7, <2>8, <1>0 DEF ApprovalInv
<1>18. CASE ParkFails
  <2>1. pen # Idle /\ pen \in Envelopes /\ disk' \in CutShort(disk, pen)
    BY <1>1, <1>18, KindNotIdle, CutTypes DEF ParkFails, Kinds
  <2>2. StartsNothing
    BY <1>1, <1>18, <2>1 DEF ApprovalInv, PenFits, ParkFails, StartsNothing, engine, calls, responder, counters
  <2>3. PenFits'
    BY <1>1, <1>18, <2>1 DEF ParkFails, ApprovalInv, PenFits, Idle, Env, engine, calls, responder, counters
  <2> QED BY <2>2, <2>3, NothingStarted, <1>0 DEF ApprovalInv
<1>19. CASE SaveResults
  <2>1. StartsNothing
    BY <1>1, <1>19 DEF SaveResults, Quiet, StartsNothing, engine, calls, responder, counters
  <2>2. PenFits'
    BY <1>1, <1>19 DEF SaveResults, Quiet, ApprovalInv, PenFits, Idle, Env, engine, calls, responder, counters
  <2> QED BY <2>1, <2>2, NothingStarted, <1>0 DEF ApprovalInv
<1>20. ASSUME NEW c \in Contexts, ChangeRules(c) PROVE ApprovalInv'
  <2>1. StartsNothing
    BY <1>1, <1>20 DEF ChangeRules, PolicyChanges, StartsNothing, engine, calls, responder, counters
  <2>2. PenFits'
    BY <1>1, <1>20 DEF ChangeRules, PolicyChanges, ApprovalInv, PenFits, Idle, Env, engine, calls, responder, counters
  <2> QED BY <2>1, <2>2, NothingStarted, <1>0 DEF ApprovalInv
<1>21. ASSUME NEW c \in Contexts, SwitchMode(c) PROVE ApprovalInv'
  <2>1. StartsNothing
    BY <1>1, <1>21 DEF SwitchMode, PolicyChanges, StartsNothing, engine, calls, responder, counters
  <2>2. PenFits'
    BY <1>1, <1>21 DEF SwitchMode, PolicyChanges, ApprovalInv, PenFits, Idle, Env, engine, calls, responder, counters
  <2> QED BY <2>1, <2>2, NothingStarted, <1>0 DEF ApprovalInv
<1>22. CASE CancelNext
  <2>1. StartsNothing
    BY <1>1, <1>22 DEF CancelNext, StartsNothing, engine, calls, responder, counters
  <2>2. PenFits'
    BY <1>1, <1>22 DEF CancelNext, ApprovalInv, PenFits, Idle, Env, engine, calls, responder, counters
  <2> QED BY <2>1, <2>2, NothingStarted, <1>0 DEF ApprovalInv
<1>23. CASE cancelPendingFor
  <2>1. pen # Idle /\ pen \in Envelopes /\ disk' \in CutShort(disk, pen)
    BY <1>1, <1>23, KindNotIdle, PersistTypes DEF cancelPendingFor, Kinds
  <2>2. StartsNothing
    BY <1>1, <1>23, <2>1 DEF cancelPendingFor, persistAndApply, StartsNothing, engine, calls, responder, counters
  <2>3. PenFits'
    BY <1>1, <1>23, <2>1 DEF cancelPendingFor, persistAndApply, ApprovalInv, PenFits, Idle, Env, engine, calls, responder, counters
  <2> QED BY <2>2, <2>3, NothingStarted, <1>0 DEF ApprovalInv
<1>24. CASE CancelFails
  <2>1. pen # Idle /\ pen \in Envelopes /\ disk' \in CutShort(disk, pen)
    BY <1>1, <1>24, KindNotIdle, CutTypes DEF CancelFails, Kinds
  <2>2. StartsNothing
    BY <1>1, <1>24, <2>1 DEF CancelFails, StartsNothing, engine, calls, responder, counters
  <2>3. PenFits'
    BY <1>1, <1>24, <2>1 DEF CancelFails, ApprovalInv, PenFits, Idle, Env, engine, calls, responder, counters
  <2> QED BY <2>2, <2>3, NothingStarted, <1>0 DEF ApprovalInv
<1>25. CASE HostOpens
  <2>1. StartsNothing
    BY <1>1, <1>25 DEF HostOpens, StartsNothing, engine, calls, responder, counters
  <2>2. PenFits'
    BY <1>1, <1>25 DEF HostOpens, ApprovalInv, PenFits, Idle, Env, engine, calls, responder, counters
  <2> QED BY <2>1, <2>2, NothingStarted, <1>0 DEF ApprovalInv
<1>26. ASSUME NEW r \in Requests, NEW k \in {"allow", "deny"}, respond(r, k) PROVE ApprovalInv'
  <2>1. StartsNothing
    BY <1>1, <1>26 DEF respond, StartsNothing, engine, calls, responder, counters
  <2>2. PenFits'
    BY <1>1, <1>26 DEF respond, ApprovalInv, PenFits, Idle, Env, engine, calls, responder, counters
  <2> QED BY <2>1, <2>2, NothingStarted, <1>0 DEF ApprovalInv
<1>27. CASE ResponseWritten
  <2>1. hostPen \in Envelopes /\ disk' \in CutShort(disk, hostPen)
    BY <1>1, <1>27, PenFacts DEF ResponseWritten
  <2>2. hostPen.kind \in {"allow", "deny"}
    BY <2>1 DEF ApprovalInv, PenFits, Envelopes, Kinds
  <2>3. StartsNothing
    BY <1>27, <2>1, <2>2 DEF ResponseWritten, StartsNothing, engine, calls, responder, counters
  <2>4. PenFits'
    BY <1>1, <1>27, <2>1 DEF ResponseWritten, ApprovalInv, PenFits, Idle, Env, engine, calls, responder, counters
  <2> QED BY <2>3, <2>4, NothingStarted, <1>0 DEF ApprovalInv
<1>28. CASE ResponseCut
  <2>1. hostPen \in Envelopes /\ disk' \in CutShort(disk, hostPen)
    BY <1>1, <1>28, CutTypes DEF ResponseCut
  <2>2. hostPen.kind \in {"allow", "deny"}
    BY <2>1 DEF ApprovalInv, PenFits, Envelopes, Kinds
  <2>3. StartsNothing
    BY <1>28, <2>1, <2>2 DEF ResponseCut, StartsNothing, engine, calls, responder, counters
  <2>4. PenFits'
    BY <1>1, <1>28, <2>1 DEF ResponseCut, ApprovalInv, PenFits, Idle, Env, engine, calls, responder, counters
  <2> QED BY <2>3, <2>4, NothingStarted, <1>0 DEF ApprovalInv
<1>29. CASE UNCHANGED vars
  <2>1. StartsNothing
    BY <1>29 DEF vars, StartsNothing, engine, calls, responder, counters
  <2>2. PenFits'
    BY <1>29 DEF vars, ApprovalInv, PenFits, engine, calls, responder, counters
  <2> QED BY <2>1, <2>2, NothingStarted, <1>0 DEF ApprovalInv
<1> QED BY <1>2, <1>3, <1>4, <1>5, <1>6, <1>7, <1>8, <1>9, <1>10, <1>11, <1>12, <1>13, <1>14,
       <1>15, <1>16, <1>17, <1>18, <1>19, <1>20, <1>21, <1>22, <1>23, <1>24, <1>25, <1>26, <1>27, <1>28, <1>29, <1>30
       DEF ApprovalNext, RunStep, ScanStep, TurnStep, HostStep

\* The initial states satisfy the invariant: nothing was parked or started.
LEMMA ApprovalInitInv == ApprovalInit => ApprovalInv
<1> SUFFICES ASSUME ApprovalInit PROVE ApprovalInv
  OBVIOUS
<1>1. ApprovalTypeOK
  BY ApprovalInitTypes
<1>2. PenFits
  BY DEF ApprovalInit, PenFits, Idle, Env
<1>3. \A r \in Requests : ~Spent(r) /\ runs[r] = 0 /\ answered[r] = "nothing"
  <2> SUFFICES ASSUME NEW r \in Requests
               PROVE  ~Spent(r) /\ runs[r] = 0 /\ answered[r] = "nothing"
    OBVIOUS
  <2>1. runs[r] = 0 /\ answered[r] = "nothing" /\ call = NoCall
    BY DEF ApprovalInit
  <2>2. r # NoCall
    BY ApprovalBounds DEF NoCall
  <2> QED BY <2>1, <2>2 DEF Spent
<1>4. SpentIsShown /\ RunsOnceUnlessSwallowed /\ DeferredIsDurable
  BY <1>3 DEF SpentIsShown, RunsOnceUnlessSwallowed, DeferredIsDurable
<1>5. LoadIsFresh /\ ScanIsFresh /\ IntentHolds
  BY DEF ApprovalInit, LoadIsFresh, ScanIsFresh, IntentHolds
<1> QED BY <1>1, <1>2, <1>4, <1>5 DEF ApprovalInv

\* Only Execute starts a call, and only the one it was announced for.
LEMMA OnlyExecuteStarts ==
  ASSUME ApprovalTypeOK, [ApprovalNext]_vars, runs' # runs
  PROVE  /\ phase = "intended" /\ call \in Requests
         /\ \A r \in Requests : r # call => runs'[r] = runs[r]
<1>1. ~RunStep
  BY DEF RunStep, Resume, Crash, CrashWriting, EndRun, calls
<1>2. ~TurnStep
  BY DEF TurnStep, Park, record, ParkFails, SaveResults, ChangeRules, SwitchMode, PolicyChanges,
         CancelNext, cancelPendingFor, CancelFails, calls
<1>3. ~HostStep
  BY DEF HostStep, HostOpens, respond, ResponseWritten, ResponseCut, calls
<1>4. ScanStep => Execute
  BY DEF ScanStep, ScanBegins, ScanPasses, ScanDecides, expire, markConsuming, ToolEnds, markConsumed,
         ResultRetried, ScanThrows, ScanEnds, calls
<1>5. Execute
  BY <1>1, <1>2, <1>3, <1>4 DEF ApprovalNext, vars, calls
<1> QED BY <1>5 DEF Execute, ApprovalTypeOK

-----------------------------------------------------------------------------
(* The theorems.                                                           *)

\* The inductive invariant behind the others: every started call is announced
\* in the file as far as that can be read, and what a scan may still start is
\* as the file says.
THEOREM ApprovalInvariant == ApprovalSpec => []ApprovalInv
<1>1. ApprovalInit => ApprovalInv
  BY ApprovalInitInv
<1>2. ApprovalInv /\ [ApprovalNext]_vars => ApprovalInv'
  BY ApprovalStep
<1> QED BY <1>1, <1>2, PTL DEF ApprovalSpec

\* The state of the approvals stays well-typed; a call is under way exactly in
\* the phases of the scan that run one.
THEOREM ApprovalTypeCorrect == ApprovalSpec => []ApprovalTypeOK
<1>1. ApprovalInv => ApprovalTypeOK
  BY DEF ApprovalInv
<1> QED BY <1>1, ApprovalInvariant, PTL

\* An allowed call is run at most once over any number of resumes, crashes and
\* cut appends, unless markConsuming's line was swallowed by a torn one.
THEOREM AtMostOnce == ApprovalSpec => []RunsOnceUnlessSwallowed
<1>1. ApprovalInv => RunsOnceUnlessSwallowed
  BY DEF ApprovalInv
<1> QED BY <1>1, ApprovalInvariant, PTL

\* The model is told that a call is deferred only when the file holds the
\* request, unless its line was swallowed or the file cannot be read.
THEOREM DeferredStays == ApprovalSpec => []DeferredIsDurable
<1>1. ApprovalInv => DeferredIsDurable
  BY DEF ApprovalInv
<1> QED BY <1>1, ApprovalInvariant, PTL

\* No step starts a call that the file shows denied, cancelled or expired,
\* whenever the engine loaded it.
THEOREM RefusedStays == ApprovalSpec => RefusedNeverRuns
<1>1. ASSUME ApprovalInv, [ApprovalNext]_vars
      PROVE  [\A r \in Requests :
                disk.folded[r].state \in {"denied", "cancelled", "expired"} =>
                  runs'[r] = runs[r]]_vars
  <2>1. CASE runs' = runs
    BY <2>1
  <2>2. CASE runs' # runs
    <3>1. phase = "intended" /\ call \in Requests
          /\ \A r \in Requests : r # call => runs'[r] = runs[r]
      BY <1>1, <2>2, OnlyExecuteStarts DEF ApprovalInv
    <3>2. disk.folded[call].state \notin {"denied", "cancelled", "expired"}
      BY <1>1, <3>1 DEF ApprovalInv, IntentHolds, Refused
    <3> QED BY <3>1, <3>2
  <2> QED BY <2>1, <2>2
<1> QED BY <1>1, ApprovalInvariant, PTL DEF ApprovalSpec, RefusedNeverRuns

\* A call is started only under the policy it was parked under.
THEOREM StartedAsIssued == ApprovalSpec => RunsAsIssued
<1>1. ASSUME ApprovalInv, [ApprovalNext]_vars
      PROVE  [\A r \in Requests : runs'[r] # runs[r] => ctx = issued[r]]_vars
  <2>1. CASE runs' = runs
    BY <2>1
  <2>2. CASE runs' # runs
    <3>1. phase = "intended" /\ call \in Requests
          /\ \A r \in Requests : r # call => runs'[r] = runs[r]
      BY <1>1, <2>2, OnlyExecuteStarts DEF ApprovalInv
    <3>2. ctx = issued[call]
      BY <1>1, <3>1 DEF ApprovalInv, IntentHolds
    <3> QED BY <3>1, <3>2
  <2> QED BY <2>1, <2>2
<1> QED BY <1>1, ApprovalInvariant, PTL DEF ApprovalSpec, RunsAsIssued
=============================================================================
