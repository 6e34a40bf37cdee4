--------------------------- MODULE DurableApprovals ---------------------------
(***************************************************************************)
(* Durable approvals (permissions/approvals.ts and the two places of       *)
(* engine.ts that use them).  A hook may park a tool call: the engine      *)
(* records a request in <session>.approvals.jsonl and goes on.  A host     *)
(* answers the request, possibly much later and from another process, and  *)
(* the next resume of the session runs the call if it was allowed.         *)
(*                                                                         *)
(* Every transition is one line appended to the file; the state of a       *)
(* request is the fold of the lines.  An append is two steps here, the     *)
(* decision (`pen', `hostPen') and the write, which may also be cut short: *)
(* by the death of the process or by an error it survives.                 *)
(*                                                                         *)
(* The file is kept as what a load can tell of it: `folded', the fold of   *)
(* its well-formed, terminated lines; `tail', how it ends; `unreadable',   *)
(* whether a malformed line is followed by another one.                    *)
(***************************************************************************)
EXTENDS Naturals

CONSTANTS
  Requests,     \* the calls that may be parked, in the order they are issued
  Contexts,     \* the circumstances revalidation compares (policy, targets)
  MaxResumes,   \* how often the session is resumed
  MaxCuts,      \* how many appends are cut short
  MaxResponses, \* how many answers hosts give
  MaxSwitches   \* how many mode switches happen

\* The bounds are numbers, and requests are numbered in the order of issue.
ASSUME ApprovalBounds ==
  /\ Requests \subseteq Nat \ {0}
  /\ {MaxResumes, MaxCuts, MaxResponses, MaxSwitches} \subseteq Nat

VARIABLES
  disk,     \* the approvals file
  phase,    \* where the engine is: down, loaded, scan, intended, running, live
  mem,      \* the engine's own fold (the store's map)
  snap,     \* the records the resume scan iterates over (listFor)
  todo,     \* the requests the scan has not come to
  call,     \* the request whose call is being run, or NoCall
  pen,      \* the envelope the engine is appending, or Idle
  last,     \* TRUE when a failed append of a result is not tried again
  queue,    \* the requests a mode switch has still to cancel
  unsaved,  \* the parked calls whose tool_result is not in the transcript yet
  ctx,      \* the circumstances of this run
  issued,   \* the circumstances each request was parked under
  answered, \* what the model was told when the call was to be parked
  saved,    \* the calls with a tool_result in the transcript
  runs,     \* how often the call was run
  hostUp,   \* whether a responder has the file open
  host,     \* the responder's own fold
  hostPen,  \* the envelope the responder is appending, or Idle
  resumes, cuts, responses, switches

engine == <<phase, mem, snap, todo, call, pen, last, queue, unsaved, ctx>>
calls == <<issued, answered, saved, runs>>
responder == <<hostUp, host, hostPen>>
counters == <<resumes, cuts, responses, switches>>
vars == <<disk, engine, calls, responder, counters>>

NoCall == 0

-----------------------------------------------------------------------------
(* Envelopes and their fold.                                               *)

Kinds == {"record", "allow", "deny", "cancel", "expire", "consuming", "consumed"}

Envelopes == [kind : Kinds, id : Requests]

Env(k, r) == [kind |-> k, id |-> r]

\* No append is under way.
Idle == Env("idle", NoCall)

\* A request as the map holds it; "absent" when the map does not.
Records == [state : {"absent", "pending", "allowed", "denied", "cancelled", "expired"},
            consuming : BOOLEAN, consumed : BOOLEAN]

Absent == [state |-> "absent", consuming |-> FALSE, consumed |-> FALSE]

Folds == [Requests -> Records]

NoRecords == [r \in Requests |-> Absent]

\* FAULT (used by a mutant): the response's outcome is stored as it came.
TransitionVerbatim(rec, k) ==
  CASE k = "record" /\ rec.state = "absent" -> [rec EXCEPT !.state = "pending"]
    [] k \in {"allow", "deny"} /\ rec.state = "pending" -> [rec EXCEPT !.state = k]
    [] OTHER -> rec

\* FAULT (used by a mutant): a later response replaces an earlier one.
TransitionLastWins(rec, k) ==
  CASE k = "record" /\ rec.state = "absent" -> [rec EXCEPT !.state = "pending"]
    [] k = "allow" -> [rec EXCEPT !.state = "allowed"]
    [] k = "deny" -> [rec EXCEPT !.state = "denied"]
    [] OTHER -> rec

\* What one envelope does to the record it names: the first transition wins.
Transition(rec, k) ==
  CASE k = "record" /\ rec.state = "absent" -> [rec EXCEPT !.state = "pending"]
    [] k = "allow" /\ rec.state = "pending" -> [rec EXCEPT !.state = "allowed"]
    [] k = "deny" /\ rec.state = "pending" -> [rec EXCEPT !.state = "denied"]
    [] k = "cancel" /\ rec.state = "pending" -> [rec EXCEPT !.state = "cancelled"]
    [] k = "expire" /\ rec.state \in {"pending", "allowed"} /\ ~rec.consumed ->
         [rec EXCEPT !.state = "expired"]
    [] k = "consuming" /\ rec.state = "allowed" /\ ~rec.consumed /\ ~rec.consuming ->
         [rec EXCEPT !.consuming = TRUE]
    [] k = "consumed" /\ rec.state # "absent" -> [rec EXCEPT !.consumed = TRUE]
    [] OTHER -> rec

applyEnvelope(m, e) == [m EXCEPT ![e.id] = Transition(@, e.kind)]

-----------------------------------------------------------------------------
(* The file.  It ends after a well-formed line (Clean), in a fragment      *)
(* (Torn), after a malformed but terminated line (Glued), or in a whole    *)
(* line that lacks its newline (that line's envelope).  `lost' is a        *)
(* history: the envelopes that were written, or readable, and are part of  *)
(* a malformed line now.                                                   *)

Clean == Env("clean", NoCall)
Torn == Env("torn", NoCall)
Glued == Env("glued", NoCall)

Files == [folded : Folds, tail : {Clean, Torn, Glued} \cup Envelopes,
          unreadable : BOOLEAN, lost : SUBSET Envelopes]

\* What a load makes of the file, when it does not throw.
loadExisting(d) == IF d.tail \in Envelopes THEN applyEnvelope(d.folded, d.tail) ELSE d.folded

Swallowed(d) == {d.tail} \cap Envelopes

\* The whole line is in the file.  It starts where the file ends, also when
\* that is in the middle of a line.
appendJsonLine(d, e) ==
  CASE d.tail = Clean -> [d EXCEPT !.folded = applyEnvelope(@, e)]
    [] d.tail = Glued -> [d EXCEPT !.unreadable = TRUE]
    [] OTHER -> [d EXCEPT !.tail = Glued, !.lost = @ \cup {e} \cup Swallowed(d)]

\* A part of the line, `end' being how the file ends if it ended well before.
PartOf(d, end) ==
  CASE d.tail = Clean -> [d EXCEPT !.tail = end]
    [] d.tail = Glued -> [d EXCEPT !.unreadable = TRUE]
    [] OTHER -> [d EXCEPT !.tail = Torn, !.lost = @ \cup Swallowed(d)]

\* What an append that does not return may leave behind: nothing, a fragment,
\* the line without its newline, or all of it.
CutShort(d, e) == {d, PartOf(d, Torn), PartOf(d, e), appendJsonLine(d, e)}

\* An append of the engine that returns: the line is in the file, then in the map.
persistAndApply ==
  /\ disk' = appendJsonLine(disk, pen)
  /\ mem' = applyEnvelope(mem, pen)
  /\ pen' = Idle

\* One that does not, for whatever reason.
Cut(e) ==
  /\ cuts < MaxCuts
  /\ cuts' = cuts + 1
  /\ disk' \in CutShort(disk, e)

-----------------------------------------------------------------------------
(* The run of a session: resume, and how it ends.                          *)

Least(s) == CHOOSE r \in s : \A q \in s : r <= q

\* Nothing of the run's own is left: the process is gone, or left runEngine.
Down ==
  /\ phase' = "down"
  /\ mem' = NoRecords
  /\ snap' = NoRecords
  /\ todo' = {}
  /\ call' = NoCall
  /\ pen' = Idle
  /\ last' = FALSE
  /\ queue' = {}
  /\ unsaved' = {}
  /\ UNCHANGED ctx

\* The session is resolved (the lease keeps other runs out) and the file is
\* read.  A file that cannot be read ends this.
Resume(c) ==
  /\ phase = "down"
  /\ ~disk.unreadable
  /\ resumes < MaxResumes
  /\ phase' = "loaded"
  /\ mem' = loadExisting(disk)
  /\ ctx' = c
  /\ resumes' = resumes + 1
  /\ UNCHANGED <<disk, snap, todo, call, pen, last, queue, unsaved, calls, responder,
                 cuts, responses, switches>>

\* The process dies, not inside an append.
Crash ==
  /\ phase # "down"
  /\ pen = Idle
  /\ Down
  /\ UNCHANGED <<disk, calls, responder, counters>>

\* The process dies inside an append.
CrashWriting ==
  /\ pen # Idle
  /\ Cut(pen)
  /\ Down
  /\ UNCHANGED <<calls, responder, resumes, responses, switches>>

EndRun ==
  /\ phase = "live"
  /\ pen = Idle
  /\ queue = {}
  /\ unsaved = {}
  /\ Down
  /\ UNCHANGED <<disk, calls, responder, counters>>

-----------------------------------------------------------------------------
(* The resume scan, one request at a time.                                 *)

\* The policy is the one the request was parked under.
revalidateApproval(r) == ctx = issued[r]

\* FAULT (used by a mutant): a started run without a result is not looked for.
VerdictIgnoresIntent(r) ==
  IF r \notin saved \/ snap[r].consumed THEN "pass"
  ELSE IF snap[r].state \in {"pending", "allowed"} /\ ~revalidateApproval(r) THEN "expire"
  ELSE IF snap[r].state = "allowed" THEN "consuming"
  ELSE "pass"

\* FAULT (used by a mutant): a host's consent is taken as good for any policy.
VerdictTrustsAllowed(r) ==
  IF r \notin saved \/ snap[r].consumed THEN "pass"
  ELSE IF snap[r].consuming THEN "expire"
  ELSE IF snap[r].state = "pending" /\ ~revalidateApproval(r) THEN "expire"
  ELSE IF snap[r].state = "allowed" THEN "consuming"
  ELSE "pass"

\* What the scan does about a request, in the order it asks: "pass" leaves or
\* substitutes the tool_result without touching the file.
Verdict(r) ==
  IF r \notin saved \/ snap[r].consumed THEN "pass"
  ELSE IF snap[r].consuming THEN "expire"
  ELSE IF snap[r].state \in {"pending", "allowed"} /\ ~revalidateApproval(r) THEN "expire"
  ELSE IF snap[r].state = "allowed" THEN "consuming"
  ELSE "pass"

\* The pump is up by now; the scan lists what the map holds.
ScanBegins ==
  /\ phase = "loaded"
  /\ pen = Idle
  /\ queue = {}
  /\ phase' = "scan"
  /\ snap' = mem
  /\ todo' = {r \in Requests : mem[r].state # "absent"}
  /\ UNCHANGED <<disk, mem, call, pen, last, queue, unsaved, ctx, calls, responder, counters>>

Scanning ==
  /\ phase = "scan"
  /\ pen = Idle
  /\ queue = {}

ScanPasses ==
  /\ Scanning
  /\ todo # {}
  /\ Verdict(Least(todo)) = "pass"
  /\ todo' = todo \ {Least(todo)}
  /\ UNCHANGED <<disk, phase, mem, snap, call, pen, last, queue, unsaved, ctx, calls,
                 responder, counters>>

ScanDecides ==
  /\ Scanning
  /\ todo # {}
  /\ Verdict(Least(todo)) # "pass"
  /\ pen' = Env(Verdict(Least(todo)), Least(todo))
  /\ UNCHANGED <<disk, phase, mem, snap, todo, call, last, queue, unsaved, ctx, calls,
                 responder, counters>>

expire ==
  /\ phase = "scan"
  /\ pen.kind = "expire"
  /\ persistAndApply
  /\ todo' = todo \ {pen.id}
  /\ UNCHANGED <<phase, snap, call, last, queue, unsaved, ctx, calls, responder, counters>>

markConsuming ==
  /\ phase = "scan"
  /\ pen.kind = "consuming"
  /\ persistAndApply
  /\ todo' = todo \ {pen.id}
  /\ call' = pen.id
  /\ phase' = "intended"
  /\ UNCHANGED <<snap, last, queue, unsaved, ctx, calls, responder, counters>>

\* tools.execute() is called: from here on the call has happened.
Execute ==
  /\ phase = "intended"
  /\ phase' = "running"
  /\ runs' = [runs EXCEPT ![call] = @ + 1]
  /\ UNCHANGED <<disk, mem, snap, todo, call, pen, last, queue, unsaved, ctx, issued,
                 answered, saved, responder, counters>>

\* The tool returns or throws; markConsumed is called by the try block or by
\* its handler.
ToolEnds(threw) ==
  /\ phase = "running"
  /\ pen = Idle
  /\ queue = {}
  /\ pen' = Env("consumed", call)
  /\ last' = threw
  /\ UNCHANGED <<disk, phase, mem, snap, todo, call, queue, unsaved, ctx, calls,
                 responder, counters>>

markConsumed ==
  /\ phase = "running"
  /\ pen.kind = "consumed"
  /\ persistAndApply
  /\ phase' = "scan"
  /\ call' = NoCall
  /\ last' = FALSE
  /\ UNCHANGED <<snap, todo, queue, unsaved, ctx, calls, responder, counters>>

\* markConsumed throws inside the try block: the handler records an error.
ResultRetried ==
  /\ pen.kind = "consumed"
  /\ ~last
  /\ Cut(pen)
  /\ last' = TRUE
  /\ UNCHANGED <<phase, mem, snap, todo, call, pen, queue, unsaved, ctx, calls, responder,
                 resumes, responses, switches>>

\* An append of the scan throws where nothing catches it: the run ends.
ScanThrows ==
  /\ pen.kind \in {"expire", "consuming"} \/ (pen.kind = "consumed" /\ last)
  /\ Cut(pen)
  /\ Down
  /\ UNCHANGED <<calls, responder, resumes, responses, switches>>

ScanEnds ==
  /\ Scanning
  /\ todo = {}
  /\ phase' = "live"
  /\ UNCHANGED <<disk, mem, snap, todo, call, pen, last, queue, unsaved, ctx, calls,
                 responder, counters>>

-----------------------------------------------------------------------------
(* The turns: parking a call, saving its result, changing the policy.      *)

Quiet ==
  /\ phase = "live"
  /\ pen = Idle
  /\ queue = {}

\* A hook defers the next call: the record is made under the live policy.
Park ==
  /\ Quiet
  /\ \E r \in Requests :
       /\ answered[r] = "nothing"
       /\ \A q \in Requests : q < r => answered[q] # "nothing"
       /\ pen' = Env("record", r)
       /\ issued' = [issued EXCEPT ![r] = ctx]
       /\ answered' = [answered EXCEPT ![r] = "asked"]
  /\ UNCHANGED <<disk, phase, mem, snap, todo, call, last, queue, unsaved, ctx, saved, runs,
                 responder, counters>>

record ==
  /\ pen.kind = "record"
  /\ persistAndApply
  /\ answered' = [answered EXCEPT ![pen.id] = "deferred"]
  /\ unsaved' = unsaved \cup {pen.id}
  /\ UNCHANGED <<phase, snap, todo, call, last, queue, ctx, issued, saved, runs, responder,
                 counters>>

\* FAULT (used by a mutant): a record that could not be written is shrugged off.
ParkFailsSilently ==
  /\ pen.kind = "record"
  /\ Cut(pen)
  /\ pen' = Idle
  /\ answered' = [answered EXCEPT ![pen.id] = "deferred"]
  /\ unsaved' = unsaved \cup {pen.id}
  /\ UNCHANGED <<phase, mem, snap, todo, call, last, queue, ctx, issued, saved, runs,
                 responder, resumes, responses, switches>>

\* The record could not be written: the call is denied.
ParkFails ==
  /\ pen.kind = "record"
  /\ Cut(pen)
  /\ pen' = Idle
  /\ answered' = [answered EXCEPT ![pen.id] = "denied"]
  /\ unsaved' = unsaved \cup {pen.id}
  /\ UNCHANGED <<phase, mem, snap, todo, call, last, queue, ctx, issued, saved, runs,
                 responder, resumes, responses, switches>>

\* The round's tool_results reach the transcript.
SaveResults ==
  /\ Quiet
  /\ unsaved # {}
  /\ saved' = saved \cup unsaved
  /\ unsaved' = {}
  /\ UNCHANGED <<disk, phase, mem, snap, todo, call, pen, last, queue, ctx, issued, answered,
                 runs, responder, counters>>

\* The policy changes while the engine is starting, or waits for the host, the
\* model or a tool.  A switch of the mode cancels what is pending; new rules do not.
PolicyChanges(c, pending) ==
  /\ phase \in {"loaded", "live", "running"}
  /\ pen = Idle
  /\ queue = {}
  /\ c # ctx
  /\ switches < MaxSwitches
  /\ switches' = switches + 1
  /\ ctx' = c
  /\ queue' = pending
  /\ UNCHANGED <<disk, phase, mem, snap, todo, call, pen, last, unsaved, calls, responder,
                 resumes, cuts, responses>>

ChangeRules(c) == PolicyChanges(c, {})

SwitchMode(c) == PolicyChanges(c, {r \in Requests : mem[r].state = "pending"})

\* cancelPendingFor goes through what was pending, without a pause.
CancelNext ==
  /\ queue # {}
  /\ pen = Idle
  /\ pen' = Env("cancel", Least(queue))
  /\ UNCHANGED <<disk, phase, mem, snap, todo, call, last, queue, unsaved, ctx, calls,
                 responder, counters>>

cancelPendingFor ==
  /\ pen.kind = "cancel"
  /\ persistAndApply
  /\ queue' = queue \ {pen.id}
  /\ UNCHANGED <<phase, snap, todo, call, last, unsaved, ctx, calls, responder, counters>>

\* One of the appends throws: the error is swallowed, the rest is left.
CancelFails ==
  /\ pen.kind = "cancel"
  /\ Cut(pen)
  /\ pen' = Idle
  /\ queue' = {}
  /\ UNCHANGED <<phase, mem, snap, todo, call, last, unsaved, ctx, calls, responder, resumes,
                 responses, switches>>

-----------------------------------------------------------------------------
(* A responder: a process with a store of its own over the same file.      *)

HostOpens ==
  /\ hostPen = Idle
  /\ ~disk.unreadable
  /\ responses < MaxResponses
  /\ hostUp' = TRUE
  /\ host' = loadExisting(disk)
  /\ UNCHANGED <<disk, engine, calls, hostPen, counters>>

\* respond() writes its envelope whatever the state it finds.
respond(r, k) ==
  /\ hostUp
  /\ hostPen = Idle
  /\ host[r].state # "absent"
  /\ responses < MaxResponses
  /\ responses' = responses + 1
  /\ hostPen' = Env(k, r)
  /\ UNCHANGED <<disk, engine, calls, hostUp, host, resumes, cuts, switches>>

ResponseWritten ==
  /\ hostPen # Idle
  /\ disk' = appendJsonLine(disk, hostPen)
  /\ host' = applyEnvelope(host, hostPen)
  /\ hostPen' = Idle
  /\ UNCHANGED <<engine, calls, hostUp, counters>>

\* The responder dies or its append throws.
ResponseCut ==
  /\ hostPen # Idle
  /\ Cut(hostPen)
  /\ hostPen' = Idle
  /\ UNCHANGED <<engine, calls, hostUp, host, resumes, responses, switches>>

-----------------------------------------------------------------------------
ApprovalInit ==
  /\ disk = [folded |-> NoRecords, tail |-> Clean, unreadable |-> FALSE, lost |-> {}]
  /\ phase = "down"
  /\ mem = NoRecords
  /\ snap = NoRecords
  /\ todo = {}
  /\ call = NoCall
  /\ pen = Idle
  /\ last = FALSE
  /\ queue = {}
  /\ unsaved = {}
  /\ ctx \in Contexts
  /\ issued = [r \in Requests |-> ctx]
  /\ answered = [r \in Requests |-> "nothing"]
  /\ saved = {}
  /\ runs = [r \in Requests |-> 0]
  /\ hostUp = FALSE
  /\ host = NoRecords
  /\ hostPen = Idle
  /\ resumes = 0
  /\ cuts = 0
  /\ responses = 0
  /\ switches = 0

RunStep == (\E c \in Contexts : Resume(c)) \/ Crash \/ CrashWriting \/ EndRun

ScanStep ==
  \/ ScanBegins
  \/ ScanPasses
  \/ ScanDecides
  \/ expire
  \/ markConsuming
  \/ Execute
  \/ \E threw \in BOOLEAN : ToolEnds(threw)
  \/ markConsumed
  \/ ResultRetried
  \/ ScanThrows
  \/ ScanEnds

TurnStep ==
  \/ Park
  \/ record
  \/ ParkFails
  \/ SaveResults
  \/ \E c \in Contexts : ChangeRules(c) \/ SwitchMode(c)
  \/ CancelNext
  \/ cancelPendingFor
  \/ CancelFails

HostStep ==
  \/ HostOpens
  \/ \E r \in Requests, k \in {"allow", "deny"} : respond(r, k)
  \/ ResponseWritten
  \/ ResponseCut

ApprovalNext == RunStep \/ ScanStep \/ TurnStep \/ HostStep

ApprovalSpec == ApprovalInit /\ [][ApprovalNext]_vars

-----------------------------------------------------------------------------
(* Properties.                                                             *)

\* Every variable has its type.  In particular a call is run only while the
\* engine is in its scan, and a run that is down holds nothing.
ApprovalTypeOK ==
  /\ disk \in Files
  /\ phase \in {"down", "loaded", "scan", "intended", "running", "live"}
  /\ mem \in Folds
  /\ snap \in Folds
  /\ todo \subseteq Requests
  /\ call \in Requests \cup {NoCall}
  /\ pen \in Envelopes \cup {Idle}
  /\ last \in BOOLEAN
  /\ queue \subseteq Requests
  /\ unsaved \subseteq Requests
  /\ ctx \in Contexts
  /\ issued \in [Requests -> Contexts]
  /\ answered \in [Requests -> {"nothing", "asked", "deferred", "denied"}]
  /\ saved \subseteq Requests
  /\ runs \in [Requests -> Nat]
  /\ hostUp \in BOOLEAN
  /\ host \in Folds
  /\ hostPen \in Envelopes \cup {Idle}
  /\ {resumes, cuts, responses, switches} \subseteq Nat
  /\ phase \in {"intended", "running"} <=> call # NoCall

\* An allowed call is run at most once over the whole life of the session,
\* whatever is killed and resumed, unless the line that announced its first
\* run (markConsuming) was swallowed by a torn one.
RunsOnceUnlessSwallowed ==
  \A r \in Requests : runs[r] > 1 => Env("consuming", r) \in disk.lost

\* "executed via tools.execute() at most once across its ENTIRE lifetime,
\* regardless of how many times this session is later resumed" (engine.ts).
RunsOnce == \A r \in Requests : runs[r] <= 1

\* A request that the file shows denied, cancelled or expired is never run
\* from then on, also by an engine that loaded the file before.
RefusedNeverRuns ==
  [][\A r \in Requests :
       disk.folded[r].state \in {"denied", "cancelled", "expired"} => runs'[r] = runs[r]]_vars

\* A call is started only under the policy it was parked under, although the
\* policy may change while the scan waits for the call before it.
RunsAsIssued ==
  [][\A r \in Requests : runs'[r] # runs[r] => ctx = issued[r]]_vars

\* The model is told "[deferred]" only of a request that the file holds, so
\* that it can be answered at all: unless its line was swallowed, or the file
\* can no longer be read.
DeferredIsDurable ==
  \A r \in Requests :
    answered[r] = "deferred" =>
      \/ disk.folded[r].state # "absent"
      \/ Env("record", r) \in disk.lost
      \/ disk.unreadable
=============================================================================
