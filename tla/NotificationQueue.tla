------------------------- MODULE NotificationQueue -------------------------
(***************************************************************************)
(* The session's notification queue (packages/runtime/src/subagents/       *)
(* notification-queue.ts) as operators on its two fields: the entries, in  *)
(* the order they were queued, and the agents with a live endpoint.  An    *)
(* entry is the task it reports; OwnerOf names the agent it is addressed   *)
(* to.  Every producer in the code queues at priority "next", so priority  *)
(* never reorders anything and queue order is delivery order.              *)
(***************************************************************************)
EXTENDS Naturals, Sequences, FiniteSets

CONSTANTS
  Tasks,    \* the background tasks a session may start
  Main,     \* the main thread's key among the endpoints
  OwnerOf   \* the agent that started each task, or Main

ASSUME OwnerAssumption == OwnerOf \in [Tasks -> Tasks \cup {Main}] /\ Main \notin Tasks

\* The k-th of the positions in I, and the elements of s at those positions, in order.
Position(I, k) == CHOOSE i \in I : Cardinality({j \in I : j <= i}) = k
ElementsAt(s, I) == [k \in 1..Cardinality(I) |-> s[Position(I, k)]]

Members(s) == {s[i] : i \in DOMAIN s}

(***************************************************************************)
(* The entries agent a would take: its own, and for the main thread also   *)
(* those addressed to an agent with no live engine.                        *)
(***************************************************************************)
IsFor(t, a, endpoints) ==
  \/ OwnerOf[t] = a
  \/ a = Main /\ OwnerOf[t] \notin endpoints

Addressed(entries, a, endpoints) ==
  ElementsAt(entries, {i \in DOMAIN entries : IsFor(entries[i], a, endpoints)})

Peek(entries, a, endpoints) == Addressed(entries, a, endpoints)

\* What stays queued when the entries in the set taken leave.
Without(entries, taken) == ElementsAt(entries, {i \in DOMAIN entries : entries[i] \notin taken})

\* The endpoint an enqueue for agent a wakes.
WakeTarget(a, endpoints) == IF a \in endpoints THEN a ELSE Main

=============================================================================
