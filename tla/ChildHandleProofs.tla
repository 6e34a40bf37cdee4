------------------------- MODULE ChildHandleProofs -------------------------
(***************************************************************************)
(* Proofs about ChildHandle, for any finite set of children, any limit and *)
(* any number of generations.                                              *)
(*                                                                         *)
(* What the children share is accounted for child by child: a handle's     *)
(* status, the phase of its resume, its ticket and its generations fit     *)
(* each other (HandleFits, GenerationsFit), and every step is one of one   *)
(* child that leaves the others alone (SameAt).                            *)
(***************************************************************************)
EXTENDS ChildHandle, FiniteSetTheorems, WellFoundedInduction, TLAPS

-----------------------------------------------------------------------------
(* The inductive invariant.                                                *)

\* The child holds a slot.
Holds(c) == phase[c] \in {"spawning", "reading", "recording", "waiting"} \/ Unsettled(c)

\* A handle's status, the phase of its spawn or resume, and its ticket.
HandleFits(c) ==
  /\ status[c] = "none" => gen[c] = 0
  /\ phase[c] = "spawning" => gen[c] = 0 /\ status[c] = "none"
  /\ Unsettled(c) => status[c] = "running" /\ phase[c] = "none"
  /\ phase[c] = "none" /\ status[c] = "running" => Unsettled(c)
  /\ phase[c] \in Resuming => status[c] # "none" /\ gen[c] < GensOf[c] /\ prior[c] \in Ended
  /\ phase[c] \notin Resuming => ticket[c] = {} /\ prior[c] = "none"
  /\ "stopped" \in ticket[c] => status[c] = "stopped"
  /\ phase[c] \in {"resolving", "reading"} /\ "stopped" \notin ticket[c] => status[c] = prior[c]
  /\ phase[c] \in {"recording", "waiting"} /\ "stopped" \notin ticket[c] => status[c] = "running"
  /\ phase[c] = "undoing" => status[c] \in Ended
  /\ phase[c] = "undoing" /\ ticket[c] = {"changed"} => status[c] = prior[c]

\* A child's generations: those started so far, all but the last one settled,
\* each with a name if the child declares a server.
GenerationsFit(c) ==
  /\ settled[c] \subseteq 1..gen[c]
  /\ \A g \in Gens : g < gen[c] => g \in settled[c]
  /\ \A g \in Gens : engine[c][g] = "none" <=> g > gen[c]
  /\ \A g \in Gens : c \in Declaring /\ g <= gen[c] => claim[c][g] \in Names
  /\ c \notin Declaring => \A g \in Gens : claim[c][g] = 0
  /\ paused[c] = asks[c]

ChildInv ==
  /\ ChildTypeOK
  /\ \A c \in Kids : HandleFits(c) /\ GenerationsFit(c)
  /\ SlotsAccounted
  /\ NamesExclusive
  /\ LiveEngineHeard

-----------------------------------------------------------------------------
(* Numbers and names.                                                      *)

\* The bounds as the steps below use them.
LEMMA Bounds ==
  /\ MaxRunning \in Nat /\ MaxRunning > 0 /\ MaxGen \in Nat /\ MaxGen > 0 /\ MaxAsks \in Nat
  /\ \A c \in Kids : GensOf[c] \in Nat /\ GensOf[c] <= MaxGen
  /\ Gens \subseteq Nat /\ 1 \in Gens /\ 0 \notin Gens
  /\ Names \subseteq Nat /\ 0 \notin Names
  BY BoundsAssumption DEF Gens, Names

\* An engine that is up and declares a server has a name.
LEMMA UpIsNamed ==
  ASSUME ChildInv, NEW c \in Declaring, NEW g \in Gens, Up(c, g)
  PROVE  claim[c][g] \in Names /\ g <= gen[c]
<1>1. c \in Kids /\ gen[c] \in Nat /\ g \in Nat
  BY Bounds, BoundsAssumption DEF ChildInv, ChildTypeOK
<1>2. engine[c][g] # "none"
  BY DEF Up
<1> QED BY <1>1, <1>2 DEF ChildInv, GenerationsFit

\* As long as some generation has not been started, some name is free: there
\* are as many names as generations, and no two engines share one.
LEMMA NameLeft ==
  ASSUME ChildInv, NEW c \in Declaring, NEW g \in Gens, ~Up(c, g)
  PROVE  \E n \in Names : Free(n)
<1> DEFINE All == Declaring \X Gens
           Ups == {q \in All : Up(q[1], q[2])}
           f == [q \in Ups |-> claim[q[1]][q[2]]]
           top == Cardinality(Kids) * MaxGen
<1>1. /\ IsFiniteSet(Kids) /\ Cardinality(Kids) \in Nat
      /\ IsFiniteSet(Declaring) /\ Cardinality(Declaring) \in Nat /\ Cardinality(Declaring) <= Cardinality(Kids)
  BY BoundsAssumption, FS_Subset, FS_CardinalityType
<1>2. IsFiniteSet(Gens) /\ Cardinality(Gens) = MaxGen
  BY FS_Interval, BoundsAssumption DEF Gens
<1>3. top \in Nat /\ Cardinality(Names) = top /\ IsFiniteSet(Names)
  <2>1. top \in Nat
    BY <1>1, BoundsAssumption
  <2> HIDE DEF top
  <2>2. Names = 1..top
    BY DEF Names, top
  <2> QED BY <2>1, <2>2, FS_Interval
<1>4. IsFiniteSet(All) /\ Cardinality(All) = Cardinality(Declaring) * MaxGen
  BY <1>1, <1>2, FS_Product
<1>5. Cardinality(All) \in Nat /\ Cardinality(All) <= top
  <2>1. \A a, b, m \in Nat : a <= b => a * m \in Nat /\ a * m <= b * m
    OBVIOUS
  <2> QED BY <1>1, <1>4, <2>1, BoundsAssumption
<1>6. IsFiniteSet(Ups) /\ Cardinality(Ups) < Cardinality(All)
  <2>1. Ups \in SUBSET All /\ <<c, g>> \in All /\ <<c, g>> \notin Ups
    OBVIOUS
  <2>2. Ups # All
    BY <2>1
  <2>3. IsFiniteSet(Ups) /\ Cardinality(Ups) <= Cardinality(All) /\ Cardinality(Ups) # Cardinality(All)
    BY <2>1, <2>2, <1>4, FS_Subset
  <2> QED BY <2>3, <1>5, FS_CardinalityType
<1>7. f \in Surjection(Ups, liveNames)
  <2>1. liveNames = {m \in Names : \E d \in Declaring, h \in Gens : Up(d, h) /\ claim[d][h] = m}
    BY DEF ChildInv, NamesExclusive
  <2>2. ASSUME NEW q \in Ups PROVE f[q] \in liveNames
    <3>1. q[1] \in Declaring /\ q[2] \in Gens /\ Up(q[1], q[2]) /\ f[q] = claim[q[1]][q[2]]
      OBVIOUS
    <3>2. claim[q[1]][q[2]] \in Names
      BY <3>1, UpIsNamed
    <3> QED BY <2>1, <3>1, <3>2
  <2>3. ASSUME NEW m \in liveNames PROVE \E q \in Ups : f[q] = m
    <3>1. PICK d \in Declaring, h \in Gens : Up(d, h) /\ claim[d][h] = m
      BY <2>1
    <3>2. <<d, h>> \in Ups /\ f[<<d, h>>] = m
      BY <3>1
    <3> QED BY <3>2
  <2> QED BY <2>2, <2>3 DEF Surjection
<1>8. Cardinality(liveNames) <= Cardinality(Ups) /\ IsFiniteSet(liveNames)
  BY <1>6, <1>7, FS_Surjection
<1>9. Cardinality(liveNames) # Cardinality(Names)
  BY <1>3, <1>5, <1>6, <1>8, FS_CardinalityType
<1>10. liveNames \in SUBSET Names
  BY DEF ChildInv, ChildTypeOK
<1> QED BY <1>9, <1>10 DEF Free

\* A name that is free is found, and it is free.
LEMMA FirstFreeIsFree ==
  ASSUME NEW n \in Names, Free(n)
  PROVE  FirstFree \in Names /\ Free(FirstFree)
<1> DEFINE S == {m \in Names : Free(m)}
<1>1. S \subseteq Nat /\ S # {}
  BY Bounds
<1>2. PICK r \in S : \A q \in S : ~(<<q, r>> \in OpToRel(<, Nat))
  BY <1>1, NatLessThanWellFounded, WFMin, Zenon
<1>3. \A q \in S : ~(q < r)
  BY <1>1, <1>2 DEF OpToRel
<1>4. \A q \in S : r <= q
  BY <1>1, <1>3
<1>5. r \in Names /\ Free(r) /\ \A m \in Names : Free(m) => r <= m
  BY <1>4
<1> QED BY <1>5, Zenon DEF FirstFree

\* What a new generation is called: nothing, or a name that no engine has.
LEMMA AllocateFacts ==
  ASSUME ChildInv, NEW c \in Kids, gen[c] + 1 \in Gens
  PROVE  /\ c \notin Declaring => Allocate(c) = 0
         /\ c \in Declaring => Allocate(c) \in Names /\ Free(Allocate(c))
<1>1. CASE c \notin Declaring
  BY <1>1 DEF Allocate
<1>2. CASE c \in Declaring
  <2> DEFINE last == IF gen[c] > 0 THEN claim[c][gen[c]] ELSE 1
  <2>1. gen[c] \in Nat /\ (gen[c] > 0 => gen[c] \in Gens)
    BY DEF ChildInv, ChildTypeOK, Gens
  <2>2. ~Up(c, gen[c] + 1)
    <3>1. engine[c][gen[c] + 1] = "none"
      BY <2>1 DEF ChildInv, GenerationsFit
    <3> QED BY <3>1 DEF Up
  <2>3. FirstFree \in Names /\ Free(FirstFree)
    BY <1>2, <2>2, NameLeft, FirstFreeIsFree
  <2>4. last \in Names
    <3>1. CASE gen[c] > 0
      BY <1>2, <2>1, <3>1 DEF ChildInv, GenerationsFit
    <3>2. CASE ~(gen[c] > 0)
      <4>1. \A n \in Names : 1 \in Names
        BY BoundsAssumption, FS_CardinalityType DEF Names
      <4> QED BY <2>3, <3>2, <4>1
    <3> QED BY <3>1, <3>2
  <2>5. Allocate(c) = IF Free(last) THEN last ELSE FirstFree
    BY <1>2 DEF Allocate
  <2> QED BY <1>2, <2>3, <2>4, <2>5
<1> QED BY <1>1, <1>2

-----------------------------------------------------------------------------
(* Steps of one child.                                                     *)

\* The step leaves child d as it was.
SameAt(d) ==
  /\ status'[d] = status[d] /\ gen'[d] = gen[d] /\ engine'[d] = engine[d] /\ settled'[d] = settled[d]
  /\ phase'[d] = phase[d] /\ ticket'[d] = ticket[d] /\ prior'[d] = prior[d]
  /\ claim'[d] = claim[d] /\ endpoint'[d] = endpoint[d]
  /\ asks'[d] = asks[d] /\ paused'[d] = paused[d]

\* A child left as it was fits as it did.
LEMMA SameFits ==
  ASSUME NEW d \in Kids, HandleFits(d), GenerationsFit(d), SameAt(d)
  PROVE  HandleFits(d)' /\ GenerationsFit(d)' /\ (Holds(d)' <=> Holds(d))
  BY DEF SameAt, HandleFits, GenerationsFit, Unsettled, Holds

\* The slots after a step that takes none and gives none back, after one that
\* takes one, and after one that gives back what the child may have.
LEMMA SlotsStay ==
  ASSUME ChildInv, UNCHANGED slotVars, \A d \in Kids : Holds(d)' <=> Holds(d)
  PROVE  SlotsAccounted' /\ slots' \subseteq Kids /\ running' \in 0..MaxRunning
<1>1. slots' = {d \in Kids : Holds(d)'} /\ running' = Cardinality(slots')
  BY DEF ChildInv, SlotsAccounted, slotVars, Holds
<1>2. SlotsAccounted'
  BY <1>1 DEF SlotsAccounted, Holds
<1> QED BY <1>2 DEF ChildInv, ChildTypeOK, slotVars

LEMMA SlotTaken ==
  ASSUME ChildInv, NEW c \in Kids, CanRegister, Register(c), ~Holds(c), Holds(c)',
         \A d \in Kids : d # c => (Holds(d)' <=> Holds(d))
  PROVE  SlotsAccounted' /\ slots' \subseteq Kids /\ running' \in 0..MaxRunning
<1>1. slots = {d \in Kids : Holds(d)} /\ running = Cardinality(slots)
  BY DEF ChildInv, SlotsAccounted, Holds
<1>2. IsFiniteSet(slots) /\ c \notin slots
  BY <1>1, BoundsAssumption, FS_Subset
<1>3. slots' = {d \in Kids : Holds(d)'}
  BY <1>1 DEF Register
<1>4. running' = Cardinality(slots')
  BY <1>1, <1>2, FS_AddElement DEF Register
<1>5. running' \in 0..MaxRunning
  BY Bounds DEF Register, CanRegister, ChildInv, ChildTypeOK
<1> QED BY <1>3, <1>4, <1>5 DEF SlotsAccounted, Holds

LEMMA SlotReleased ==
  ASSUME ChildInv, NEW c \in Kids, ReleaseSpawn(c), ~Holds(c)',
         \A d \in Kids : d # c => (Holds(d)' <=> Holds(d))
  PROVE  SlotsAccounted' /\ slots' \subseteq Kids /\ running' \in 0..MaxRunning
<1>1. slots = {d \in Kids : Holds(d)} /\ running = Cardinality(slots)
  BY DEF ChildInv, SlotsAccounted, Holds
<1>2. IsFiniteSet(slots)
  BY <1>1, BoundsAssumption, FS_Subset
<1>3. slots' = {d \in Kids : Holds(d)'}
  BY <1>1 DEF ReleaseSpawn
<1>4. running' = Cardinality(slots')
  BY <1>1, <1>2, FS_RemoveElement DEF ReleaseSpawn
<1>5. running' \in 0..MaxRunning
  <2>1. IsFiniteSet(slots') /\ Cardinality(slots') \in Nat
    BY <1>2, FS_RemoveElement, FS_CardinalityType DEF ReleaseSpawn
  <2> QED BY <1>4, <2>1, Bounds DEF ReleaseSpawn, ChildInv, ChildTypeOK
<1> QED BY <1>3, <1>4, <1>5 DEF SlotsAccounted, Holds

\* The names, when no engine comes or goes.
LEMMA NamesStay ==
  ASSUME ChildInv, liveNames' = liveNames, claim' = claim,
         \A d \in Kids, g \in Gens : Up(d, g)' <=> Up(d, g)
  PROVE  NamesExclusive'
  BY BoundsAssumption DEF ChildInv, NamesExclusive

\* A generation starts: only its child changes, and it gets a name of its own.
LEMMA StartFacts ==
  ASSUME ChildInv, NEW c \in Kids, gen[c] + 1 \in Gens, StartGeneration(c)
  PROVE  /\ gen' \in [Kids -> 0..MaxGen] /\ gen'[c] = gen[c] + 1
         /\ engine' \in [Kids -> [Gens -> {"none", "refused", "busy", "replied", "gone"}]]
         /\ claim' \in [Kids -> [Gens -> Names \cup {0}]]
         /\ endpoint' \in [Kids -> 0..MaxGen]
         /\ liveNames' \subseteq Names
         /\ \A d \in Kids : d # c => /\ gen'[d] = gen[d] /\ engine'[d] = engine[d]
                                     /\ claim'[d] = claim[d] /\ endpoint'[d] = endpoint[d]
         /\ \A g \in Gens : engine'[c][g] = "none" <=> g > gen[c] + 1
         /\ \A g \in Gens : c \in Declaring /\ g <= gen[c] + 1 => claim'[c][g] \in Names
         /\ c \notin Declaring => \A g \in Gens : claim'[c][g] = 0
         /\ NamesExclusive' /\ LiveEngineHeard'
<1> DEFINE n == Allocate(c)
<1>0. PICK g \in Gens : g = gen[c] + 1
  OBVIOUS
<1>1. /\ gen \in [Kids -> 0..MaxGen] /\ gen[c] \in Nat /\ g \in Nat /\ g \in 0..MaxGen
      /\ engine \in [Kids -> [Gens -> {"none", "refused", "busy", "replied", "gone"}]]
      /\ claim \in [Kids -> [Gens -> Names \cup {0}]]
      /\ endpoint \in [Kids -> 0..MaxGen] /\ liveNames \subseteq Names
      /\ 0 \notin Names /\ Declaring \subseteq Kids
  BY Bounds, BoundsAssumption DEF ChildInv, ChildTypeOK, Gens
<1>2. /\ c \notin Declaring => n = 0
      /\ c \in Declaring => n \in Names /\ n \notin liveNames
  BY AllocateFacts DEF Free
<1>3. PICK e \in {"busy", "refused"} :
        /\ gen' = [gen EXCEPT ![c] = g]
        /\ claim' = [claim EXCEPT ![c][g] = n]
        /\ liveNames' = liveNames \cup ({n} \ {0})
        /\ engine' = [engine EXCEPT ![c][g] = e]
        /\ e = "busy" => endpoint' = [endpoint EXCEPT ![c] = g]
        /\ e = "refused" => endpoint' = endpoint
  BY <1>0 DEF StartGeneration
<1> HIDE DEF n
<1>4. \A d \in Kids, h \in Gens :
        /\ engine'[d][h] = IF d = c /\ h = g THEN e ELSE engine[d][h]
        /\ claim'[d][h] = IF d = c /\ h = g THEN n ELSE claim[d][h]
  BY <1>1, <1>3
<1>5. engine[c][g] = "none" /\ ~Up(c, g)
  BY <1>0, <1>1 DEF ChildInv, GenerationsFit, Up
<1>6. \A d \in Kids, h \in Gens : Up(d, h)' <=> Up(d, h) \/ (d = c /\ h = g)
  BY <1>4 DEF Up
<1>7. /\ gen' \in [Kids -> 0..MaxGen] /\ gen'[c] = g
      /\ engine' \in [Kids -> [Gens -> {"none", "refused", "busy", "replied", "gone"}]]
      /\ claim' \in [Kids -> [Gens -> Names \cup {0}]]
      /\ endpoint' \in [Kids -> 0..MaxGen]
      /\ liveNames' \subseteq Names
      /\ \A d \in Kids : d # c => /\ gen'[d] = gen[d] /\ engine'[d] = engine[d]
                                  /\ claim'[d] = claim[d] /\ endpoint'[d] = endpoint[d]
  BY <1>1, <1>2, <1>3
<1>8. /\ \A h \in Gens : engine'[c][h] = "none" <=> h > g
      /\ \A h \in Gens : c \in Declaring /\ h <= g => claim'[c][h] \in Names
      /\ c \notin Declaring => \A h \in Gens : claim'[c][h] = 0
  <2>1. /\ \A h \in Gens : engine[c][h] = "none" <=> h > gen[c]
        /\ \A h \in Gens : c \in Declaring /\ h <= gen[c] => claim[c][h] \in Names
        /\ c \notin Declaring => \A h \in Gens : claim[c][h] = 0
    BY DEF ChildInv, GenerationsFit
  <2>2. \A h \in Gens : h \in Nat /\ (h <= g => h = g \/ h <= gen[c]) /\ (h > gen[c] <=> h = g \/ h > g)
    <3>1. gen[c] \in Nat
      BY <1>1
    <3>2. \A h \in Gens : h \in Nat
      BY Bounds
    <3> QED BY <1>0, <3>1, <3>2
  <2>3. \A h \in Gens : engine'[c][h] = IF h = g THEN e ELSE engine[c][h]
    BY <1>4
  <2>4. \A h \in Gens : claim'[c][h] = IF h = g THEN n ELSE claim[c][h]
    BY <1>4
  <2>5. \A h \in Gens : engine'[c][h] = "none" <=> h > g
    BY <1>1, <2>1, <2>2, <2>3
  <2>6. c \in Declaring => \A h \in Gens : h <= g => claim'[c][h] \in Names
    BY <1>2, <2>1, <2>2, <2>4
  <2>7. c \notin Declaring => \A h \in Gens : claim'[c][h] = 0
    BY <1>2, <2>1, <2>4
  <2> QED BY <2>5, <2>6, <2>7
<1>9. NamesExclusive'
  <2>1. \A d \in Declaring, h \in Gens : Up(d, h) => claim[d][h] \in liveNames
    BY UpIsNamed DEF ChildInv, NamesExclusive
  <2>2. \A d1, d2 \in Declaring, h1, h2 \in Gens :
          Up(d1, h1) /\ Up(d2, h2) /\ claim[d1][h1] = claim[d2][h2] => d1 = d2 /\ h1 = h2
    BY DEF ChildInv, NamesExclusive
  <2>3. \A d1, d2 \in Declaring, h1, h2 \in Gens :
          Up(d1, h1)' /\ Up(d2, h2)' /\ claim'[d1][h1] = claim'[d2][h2] => d1 = d2 /\ h1 = h2
    BY <1>1, <1>2, <1>4, <1>5, <1>6, <2>1, <2>2
  <2>4. \A m : m \in liveNames <=> \E d \in Declaring, h \in Gens : Up(d, h) /\ m = claim[d][h]
    BY UpIsNamed DEF ChildInv, NamesExclusive
  <2>5. \A m : m \in liveNames' <=> \E d \in Declaring, h \in Gens : Up(d, h)' /\ m = claim'[d][h]
    <3>1. ASSUME NEW m, m \in liveNames' PROVE \E d \in Declaring, h \in Gens : Up(d, h)' /\ m = claim'[d][h]
      <4>1. CASE m \in liveNames
        <5>1. PICK d \in Declaring, h \in Gens : Up(d, h) /\ m = claim[d][h]
          BY <2>4, <4>1
        <5>2. Up(d, h)' /\ m = claim'[d][h]
          BY <1>1, <1>4, <1>5, <1>6, <5>1
        <5> QED BY <5>2
      <4>2. CASE m \notin liveNames
        <5>1. m = n /\ c \in Declaring
          BY <1>2, <1>3, <3>1, <4>2
        <5>2. Up(c, g)' /\ claim'[c][g] = n
          BY <1>1, <1>4, <1>6
        <5> QED BY <1>1, <5>1, <5>2
      <4> QED BY <4>1, <4>2
    <3>2. ASSUME NEW d \in Declaring, NEW h \in Gens, Up(d, h)' PROVE claim'[d][h] \in liveNames'
      <4>1. CASE d = c /\ h = g
        BY <1>1, <1>2, <1>3, <1>4, <4>1
      <4>2. CASE ~(d = c /\ h = g)
        <5>1. Up(d, h) /\ claim'[d][h] = claim[d][h]
          BY <1>1, <1>4, <1>6, <3>2, <4>2
        <5> QED BY <1>3, <2>1, <5>1
      <4> QED BY <4>1, <4>2
    <3> QED BY <3>1, <3>2
  <2> QED BY <1>7, <2>3, <2>5 DEF NamesExclusive
<1>10. LiveEngineHeard'
  <2> SUFFICES ASSUME NEW d \in Kids, gen'[d] > 0, engine'[d][gen'[d]] \in {"busy", "replied"}
               PROVE  endpoint'[d] = gen'[d]
    BY DEF LiveEngineHeard
  <2>1. CASE d = c
    BY <1>1, <1>3, <1>4, <2>1
  <2>2. CASE d # c
    BY <1>7, <2>2 DEF ChildInv, LiveEngineHeard
  <2> QED BY <2>1, <2>2
<1> QED BY <1>0, <1>7, <1>8, <1>9, <1>10

\* An engine is gone: its name, if it had one, is free again.
LEMMA GoneFacts ==
  ASSUME ChildInv, NEW c \in Kids, NEW g \in Gens, Gone(c, g), claim' = claim, gen' = gen
  PROVE  /\ engine' \in [Kids -> [Gens -> {"none", "refused", "busy", "replied", "gone"}]]
         /\ liveNames' \subseteq Names
         /\ \A d \in Kids : d # c => engine'[d] = engine[d]
         /\ \A h \in Gens : engine'[c][h] = IF h = g THEN "gone" ELSE engine[c][h]
         /\ g <= gen[c]
         /\ \A h \in Gens : engine'[c][h] = "none" <=> h > gen[c]
         /\ NamesExclusive'
<1>1. /\ engine \in [Kids -> [Gens -> {"none", "refused", "busy", "replied", "gone"}]]
      /\ liveNames \subseteq Names /\ 0 \notin Names /\ Declaring \subseteq Kids /\ gen[c] \in Nat /\ g \in Nat
      /\ Up(c, g) /\ engine' = [engine EXCEPT ![c][g] = "gone"] /\ liveNames' = liveNames \ {claim[c][g]}
  BY Bounds, BoundsAssumption DEF ChildInv, ChildTypeOK, Gone
<1>2. /\ engine' \in [Kids -> [Gens -> {"none", "refused", "busy", "replied", "gone"}]]
      /\ \A d \in Kids, h \in Gens : engine'[d][h] = IF d = c /\ h = g THEN "gone" ELSE engine[d][h]
      /\ \A d \in Kids : d # c => engine'[d] = engine[d]
  BY <1>1
<1>3. \A d \in Kids, h \in Gens : Up(d, h)' <=> Up(d, h) /\ ~(d = c /\ h = g)
  BY <1>2 DEF Up
<1>4. g <= gen[c] /\ \A h \in Gens : engine'[c][h] = "none" <=> h > gen[c]
  <2>1. \A h \in Gens : engine[c][h] = "none" <=> h > gen[c]
    BY DEF ChildInv, GenerationsFit
  <2>2. engine[c][g] # "none"
    BY <1>1 DEF Up
  <2>3. g <= gen[c]
    <3>1. ~(g > gen[c])
      BY <2>1, <2>2
    <3> QED BY <1>1, <3>1
  <2>4. ASSUME NEW h \in Gens PROVE engine'[c][h] = "none" <=> engine[c][h] = "none"
    <3>1. engine'[c][h] = IF h = g THEN "gone" ELSE engine[c][h]
      BY <1>2
    <3> QED BY <2>2, <3>1
  <2> QED BY <2>1, <2>3, <2>4
<1>5. NamesExclusive'
  <2>1. \A d1, d2 \in Declaring, h1, h2 \in Gens :
          Up(d1, h1) /\ Up(d2, h2) /\ claim[d1][h1] = claim[d2][h2] => d1 = d2 /\ h1 = h2
    BY DEF ChildInv, NamesExclusive
  <2>2. \A m : m \in liveNames <=> \E d \in Declaring, h \in Gens : Up(d, h) /\ m = claim[d][h]
    BY UpIsNamed DEF ChildInv, NamesExclusive
  <2>3. c \notin Declaring => claim[c][g] \notin liveNames
    BY <1>1 DEF ChildInv, GenerationsFit
  <2>4. \A m : m \in liveNames' <=> \E d \in Declaring, h \in Gens : Up(d, h)' /\ m = claim'[d][h]
    <3>1. ASSUME NEW m, m \in liveNames' PROVE \E d \in Declaring, h \in Gens : Up(d, h)' /\ m = claim'[d][h]
      <4>1. m \in liveNames /\ m # claim[c][g]
        BY <1>1, <3>1
      <4>2. PICK d \in Declaring, h \in Gens : Up(d, h) /\ m = claim[d][h]
        BY <2>2, <4>1
      <4>3. Up(d, h)' /\ m = claim'[d][h]
        BY <1>1, <1>3, <4>1, <4>2
      <4> QED BY <4>3
    <3>2. ASSUME NEW d \in Declaring, NEW h \in Gens, Up(d, h)' PROVE claim'[d][h] \in liveNames'
      <4>1. Up(d, h) /\ ~(d = c /\ h = g) /\ claim[d][h] \in liveNames
        BY <1>1, <1>3, <2>2, <3>2
      <4>2. claim[d][h] # claim[c][g]
        BY <1>1, <2>1, <2>3, <4>1
      <4> QED BY <1>1, <4>1, <4>2
    <3> QED BY <3>1, <3>2
  <2>5. \A d1, d2 \in Declaring, h1, h2 \in Gens :
          Up(d1, h1)' /\ Up(d2, h2)' /\ claim'[d1][h1] = claim'[d2][h2] => d1 = d2 /\ h1 = h2
    BY <1>1, <1>3, <2>1
  <2>6. liveNames' \subseteq Names
    BY <1>1
  <2> QED BY <2>4, <2>5, <2>6 DEF NamesExclusive
<1> QED BY <1>1, <1>2, <1>4, <1>5

\* The invariant from its parts: a step of child c leaves the other children
\* as they were.
LEMMA StepKeeps ==
  ASSUME ChildInv, NEW c \in Kids, \A d \in Kids : d # c => SameAt(d),
         ChildTypeOK', HandleFits(c)', GenerationsFit(c)',
         SlotsAccounted', NamesExclusive', LiveEngineHeard'
  PROVE  ChildInv'
<1>1. \A d \in Kids : HandleFits(d)' /\ GenerationsFit(d)'
  BY SameFits DEF ChildInv
<1> QED BY <1>1 DEF ChildInv

\* The slots, when only child c may have taken or left one.
LEMMA OthersHold ==
  ASSUME ChildInv, NEW c \in Kids, \A d \in Kids : d # c => SameAt(d)
  PROVE  \A d \in Kids : d # c => (Holds(d)' <=> Holds(d))
  BY SameFits DEF ChildInv

\* Steps that start no engine, end none, and settle nothing.
LEMMA QuietStep ==
  ASSUME ChildInv, NEW c \in Kids,
         \/ EngineReplies(c) \/ Ask(c) \/ Withdraw(c) \/ HostAnswers(c) \/ ParentHears(c)
         \/ ChangeContext(c) \/ ResumeBegins(c) \/ Undone(c)
  PROVE  ChildInv'
<1>1. ChildTypeOK /\ HandleFits(c) /\ GenerationsFit(c)
  BY DEF ChildInv
<1>2. UNCHANGED slotVars /\ gen' = gen /\ claim' = claim /\ liveNames' = liveNames /\ endpoint' = endpoint
      /\ settled' = settled /\ status' = status
  BY DEF EngineReplies, Ask, Withdraw, HostAnswers, ParentHears, ChangeContext, ResumeBegins, Undone, Finished,
         genVars, slotVars
<1>3. Unsettled(c)' <=> Unsettled(c)
  BY <1>2 DEF Unsettled
<1>4. gen[c] \in Nat /\ (gen[c] > 0 => gen[c] \in Gens)
  BY <1>1 DEF ChildTypeOK, Gens
<1>5. CASE EngineReplies(c)
  <2>1. /\ engine[c][gen[c]] = "busy" /\ gen[c] \in Gens
        /\ engine' = [engine EXCEPT ![c][gen[c]] = "replied"]
        /\ UNCHANGED <<status, phase, ticketVars, askVars, resultVars>>
    BY <1>4, <1>5 DEF EngineReplies, Unsettled
  <2>2. ChildTypeOK'
    BY <1>1, <1>2, <2>1 DEF ChildTypeOK, ticketVars, askVars, resultVars, slotVars
  <2>3. \A d \in Kids : d # c => SameAt(d)
    BY <1>1, <1>2, <2>1 DEF SameAt, ChildTypeOK, ticketVars, askVars
  <2>4. HandleFits(c)'
    BY <1>1, <1>2, <1>3, <2>1 DEF HandleFits, ticketVars
  <2>5. \A d \in Kids, h \in Gens :
          engine'[d][h] = IF d = c /\ h = gen[c] THEN "replied" ELSE engine[d][h]
    BY <1>1, <2>1 DEF ChildTypeOK
  <2>6. GenerationsFit(c)'
    BY <1>1, <1>2, <2>1, <2>5 DEF GenerationsFit, askVars
  <2>7. \A d \in Kids, h \in Gens : Up(d, h)' <=> Up(d, h)
    BY <2>1, <2>5 DEF Up
  <2>8. SlotsAccounted'
    BY <1>2, <1>3, <2>1, <2>3, OthersHold, SlotsStay DEF Holds
  <2>9. NamesExclusive'
    BY <1>2, <2>7, NamesStay
  <2>10. LiveEngineHeard'
    <3> SUFFICES ASSUME NEW d \in Kids, gen[d] > 0, engine'[d][gen[d]] \in {"busy", "replied"}
                 PROVE  endpoint[d] = gen[d]
      BY <1>2 DEF LiveEngineHeard
    <3>1. gen[d] \in Gens
      BY <1>1 DEF ChildTypeOK, Gens
    <3>2. engine[d][gen[d]] \in {"busy", "replied"}
      BY <2>1, <2>5, <3>1
    <3> QED BY <3>2 DEF ChildInv, LiveEngineHeard
  <2> QED BY <2>2, <2>3, <2>4, <2>6, <2>8, <2>9, <2>10, StepKeeps
<1>6. CASE Ask(c) \/ Withdraw(c) \/ HostAnswers(c) \/ ParentHears(c) \/ ChangeContext(c) \/ ResumeBegins(c) \/ Undone(c)
  <2>1. engine' = engine
    BY <1>6 DEF Ask, Withdraw, HostAnswers, ParentHears, ChangeContext, ResumeBegins, Undone, genVars
  <2>2. NamesExclusive' /\ LiveEngineHeard'
    <3>1. \A d \in Kids, h \in Gens : Up(d, h)' <=> Up(d, h)
      BY <2>1 DEF Up
    <3> QED BY <1>2, <2>1, <3>1, NamesStay DEF ChildInv, LiveEngineHeard
  <2>3. /\ asks' \in [Kids -> 0..MaxAsks] /\ withdrawn' \in [Kids -> 0..MaxAsks] /\ paused' \in [Kids -> 0..MaxAsks] /\ paused'[c] = asks'[c]
        /\ \A d \in Kids : d # c => asks'[d] = asks[d] /\ paused'[d] = paused[d]
    <3>1. /\ asks \in [Kids -> 0..MaxAsks] /\ withdrawn \in [Kids -> 0..MaxAsks] /\ paused \in [Kids -> 0..MaxAsks]
          /\ paused[c] = asks[c]
      BY <1>1 DEF ChildTypeOK, GenerationsFit
    <3>2. CASE Ask(c)
      BY <3>1, <3>2, Bounds DEF Ask
    <3>3. CASE HostAnswers(c)
      BY <3>1, <3>3, Bounds DEF HostAnswers
    <3>4. CASE Withdraw(c)
      BY <3>1, <3>4, Bounds DEF Withdraw, Waits
    <3>5. CASE ~Ask(c) /\ ~Withdraw(c) /\ ~HostAnswers(c)
      BY <1>6, <3>1, <3>5 DEF ParentHears, ChangeContext, ResumeBegins, Undone, askVars
    <3> QED BY <3>2, <3>3, <3>4, <3>5
  <2>4. GenerationsFit(c)'
    BY <1>1, <1>2, <2>1, <2>3 DEF GenerationsFit
  <2>5. /\ \A d \in Kids : d # c => phase'[d] = phase[d] /\ ticket'[d] = ticket[d] /\ prior'[d] = prior[d]
        /\ phase' \in [Kids -> {"none", "spawning"} \cup Resuming]
        /\ ticket' \in [Kids -> SUBSET {"stopped", "changed"}]
        /\ prior' \in [Kids -> {"none"} \cup Ended]
        /\ HandleFits(c)'
        /\ Holds(c)' <=> Holds(c)
    <3>1. /\ phase \in [Kids -> {"none", "spawning"} \cup Resuming]
          /\ ticket \in [Kids -> SUBSET {"stopped", "changed"}]
          /\ prior \in [Kids -> {"none"} \cup Ended]
          /\ gen[c] \in Nat
      BY <1>1 DEF ChildTypeOK
    <3>2. CASE Ask(c) \/ Withdraw(c) \/ HostAnswers(c) \/ ParentHears(c)
      BY <1>1, <1>2, <1>3, <3>1, <3>2 DEF Ask, Withdraw, HostAnswers, ParentHears, HandleFits, Holds, ticketVars
    <3>3. CASE ChangeContext(c)
      <4>1. /\ phase[c] \in Resuming \ {"undoing"} /\ phase' = phase /\ prior' = prior
            /\ ticket' = [ticket EXCEPT ![c] = @ \cup {"changed"}]
        BY <3>3 DEF ChangeContext
      <4>2. ticket'[c] = ticket[c] \cup {"changed"}
        BY <3>1, <4>1
      <4>3. HandleFits(c)' /\ (Holds(c)' <=> Holds(c))
        BY <1>1, <1>2, <1>3, <4>1, <4>2 DEF HandleFits, Holds
      <4> QED BY <3>1, <4>1, <4>3
    <3>4. CASE ResumeBegins(c)
      <4>1. /\ phase[c] = "none" /\ status[c] \in Ended /\ gen[c] < GensOf[c] /\ ticket' = ticket
            /\ phase' = [phase EXCEPT ![c] = "resolving"] /\ prior' = [prior EXCEPT ![c] = status[c]]
        BY <3>4 DEF ResumeBegins
      <4>2. phase'[c] = "resolving" /\ prior'[c] = status[c] /\ ~Unsettled(c) /\ ticket[c] = {}
        BY <1>1, <3>1, <4>1 DEF HandleFits, Ended, Resuming
      <4>3. HandleFits(c)' /\ (Holds(c)' <=> Holds(c))
        BY <1>1, <1>2, <1>3, <4>1, <4>2 DEF HandleFits, Holds, Resuming, Ended
      <4> QED BY <3>1, <4>1, <4>3 DEF Resuming
    <3>5. CASE Undone(c)
      <4>1. /\ phase[c] = "undoing"
            /\ phase' = [phase EXCEPT ![c] = "none"] /\ ticket' = [ticket EXCEPT ![c] = {}]
            /\ prior' = [prior EXCEPT ![c] = "none"]
        BY <3>5 DEF Undone, Finished
      <4>2. phase'[c] = "none" /\ ticket'[c] = {} /\ prior'[c] = "none"
        BY <3>1, <4>1
      <4>3. HandleFits(c)' /\ (Holds(c)' <=> Holds(c))
        BY <1>1, <1>2, <1>3, <4>1, <4>2 DEF HandleFits, Holds, Resuming, Ended
      <4> QED BY <3>1, <4>1, <4>3
    <3> QED BY <1>6, <3>2, <3>3, <3>4, <3>5
  <2>6. answer' \in [Kids -> 0..MaxGen] /\ reported' \in [Kids -> SUBSET Gens]
    <3>1. answer \in [Kids -> 0..MaxGen] /\ reported \in [Kids -> SUBSET Gens]
      BY <1>1 DEF ChildTypeOK
    <3>2. CASE ParentHears(c)
      BY <3>1, <3>2, Bounds DEF ParentHears, Gens
    <3>3. CASE ~ParentHears(c)
      BY <1>6, <3>1, <3>3 DEF Ask, Withdraw, HostAnswers, ChangeContext, ResumeBegins, Undone, resultVars
    <3> QED BY <3>2, <3>3
  <2>7. ChildTypeOK'
    BY <1>1, <1>2, <2>1, <2>3, <2>5, <2>6 DEF ChildTypeOK, slotVars
  <2>8. \A d \in Kids : d # c => SameAt(d)
    BY <1>2, <2>1, <2>3, <2>5 DEF SameAt
  <2>9. SlotsAccounted'
    BY <1>2, <2>5, <2>8, OthersHold, SlotsStay
  <2> QED BY <2>2, <2>4, <2>5, <2>7, <2>8, <2>9, StepKeeps
<1> QED BY <1>5, <1>6

\* The step changes nothing but the status, phase, ticket and slot of child c.
HandleOnly(c) ==
  /\ UNCHANGED <<genVars, settled, askVars, resultVars>>
  /\ status' \in [Kids -> {"none", "running"} \cup Ended]
  /\ phase' \in [Kids -> {"none", "spawning"} \cup Resuming]
  /\ ticket' \in [Kids -> SUBSET {"stopped", "changed"}]
  /\ prior' \in [Kids -> {"none"} \cup Ended]
  /\ \A d \in Kids : d # c => /\ status'[d] = status[d] /\ phase'[d] = phase[d]
                              /\ ticket'[d] = ticket[d] /\ prior'[d] = prior[d]

\* Such a step keeps the invariant if the handle fits afterwards and the slot
\* is taken, kept or left as it should be.
LEMMA HandleStepKeeps ==
  ASSUME ChildInv, NEW c \in Kids, HandleOnly(c), HandleFits(c)',
         \/ UNCHANGED slotVars /\ (Holds(c)' <=> Holds(c))
         \/ CanRegister /\ Register(c) /\ ~Holds(c) /\ Holds(c)'
         \/ ReleaseSpawn(c) /\ ~Holds(c)'
  PROVE  ChildInv'
<1>1. ChildTypeOK /\ GenerationsFit(c)
  BY DEF ChildInv
<1>2. UNCHANGED <<gen, engine, claim, liveNames, endpoint, settled, asks, withdrawn, paused, answer, reported>>
  BY DEF HandleOnly, genVars, askVars, resultVars
<1>3. \A d \in Kids : d # c => SameAt(d)
  BY <1>2 DEF HandleOnly, SameAt
<1>4. GenerationsFit(c)'
  BY <1>1, <1>2 DEF GenerationsFit
<1>5. NamesExclusive' /\ LiveEngineHeard'
  <2>1. \A d \in Kids, h \in Gens : Up(d, h)' <=> Up(d, h)
    BY <1>2 DEF Up
  <2> QED BY <1>2, <2>1, NamesStay DEF ChildInv, LiveEngineHeard
<1>6. SlotsAccounted' /\ slots' \subseteq Kids /\ running' \in 0..MaxRunning
  BY <1>3, OthersHold, SlotsStay, SlotTaken, SlotReleased
<1>7. ChildTypeOK'
  BY <1>1, <1>2, <1>6 DEF HandleOnly, ChildTypeOK
<1> QED BY <1>3, <1>4, <1>5, <1>6, <1>7, StepKeeps

\* The steps of a spawn or resume between its awaits, and a stop that meets one.
LEMMA ResumeKeeps ==
  ASSUME ChildInv, NEW c \in Kids,
         \/ SpawnBegins(c) \/ SpawnFails(c)
         \/ Stop(c) /\ phase[c] \in Resuming
         \/ ResumeResolved(c) \/ ResumeRead(c) \/ ResumeRecorded(c)
         \/ ResumeWaited(c) /\ Undo(c)
  PROVE  ChildInv'
<1>1. /\ status \in [Kids -> {"none", "running"} \cup Ended]
      /\ phase \in [Kids -> {"none", "spawning"} \cup Resuming]
      /\ ticket \in [Kids -> SUBSET {"stopped", "changed"}]
      /\ prior \in [Kids -> {"none"} \cup Ended]
      /\ gen \in [Kids -> 0..MaxGen] /\ gen[c] \in Nat /\ HandleFits(c)
  BY DEF ChildInv, ChildTypeOK
<1>2. CASE SpawnBegins(c)
  <2>1. /\ status[c] = "none" /\ phase[c] = "none" /\ CanRegister /\ Register(c)
        /\ phase' = [phase EXCEPT ![c] = "spawning"]
        /\ UNCHANGED <<status, ticket, prior, genVars, settled, askVars, resultVars, gen>>
    BY <1>2 DEF SpawnBegins, ticketVars, genVars
  <2>2. HandleOnly(c) /\ phase'[c] = "spawning" /\ gen[c] = 0
    BY <1>1, <2>1 DEF HandleOnly, HandleFits
  <2>3. HandleFits(c)' /\ ~Holds(c) /\ Holds(c)'
    BY <1>1, <2>1, <2>2 DEF HandleFits, Holds, Unsettled, Resuming
  <2> QED BY <2>1, <2>2, <2>3, HandleStepKeeps
<1>3. CASE SpawnFails(c)
  <2>1. /\ phase[c] = "spawning" /\ ReleaseSpawn(c)
        /\ phase' = [phase EXCEPT ![c] = "none"]
        /\ UNCHANGED <<status, ticket, prior, genVars, settled, askVars, resultVars, gen>>
    BY <1>3 DEF SpawnFails, ticketVars, genVars
  <2>2. HandleOnly(c) /\ phase'[c] = "none" /\ gen[c] = 0
    BY <1>1, <2>1 DEF HandleOnly, HandleFits
  <2>3. HandleFits(c)' /\ ~Holds(c)'
    BY <1>1, <2>1, <2>2 DEF HandleFits, Holds, Unsettled, Resuming
  <2> QED BY <2>1, <2>2, <2>3, HandleStepKeeps
<1>4. CASE Stop(c) /\ phase[c] \in Resuming
  <2>1. /\ phase[c] \in Resuming
        /\ ticket' = [ticket EXCEPT ![c] = @ \cup {"stopped"}] /\ status' = [status EXCEPT ![c] = "stopped"]
        /\ UNCHANGED <<phase, prior, genVars, settled, askVars, resultVars, slotVars, gen>>
    BY <1>4 DEF Stop, Resuming, genVars
  <2>2. HandleOnly(c) /\ ticket'[c] = ticket[c] \cup {"stopped"} /\ status'[c] = "stopped"
    BY <1>1, <2>1 DEF HandleOnly, Ended
  <2>3. ~Unsettled(c) /\ ~Unsettled(c)'
    BY <1>1, <2>1 DEF HandleFits, Unsettled, Resuming
  <2>4. HandleFits(c)' /\ (Holds(c)' <=> Holds(c))
    BY <1>1, <2>1, <2>2, <2>3 DEF HandleFits, Holds, Resuming, Ended
  <2> QED BY <2>1, <2>2, <2>4, HandleStepKeeps
<1>5. CASE phase[c] \in {"resolving", "reading"} /\ Refuse(c)
  <2>1. /\ ReleaseSpawn(c)
        /\ phase' = [phase EXCEPT ![c] = "none"] /\ ticket' = [ticket EXCEPT ![c] = {}]
        /\ prior' = [prior EXCEPT ![c] = "none"]
        /\ UNCHANGED <<status, genVars, settled, askVars, resultVars, gen>>
    BY <1>5 DEF Refuse, Finished, genVars
  <2>2. HandleOnly(c) /\ phase'[c] = "none" /\ ticket'[c] = {} /\ prior'[c] = "none"
    BY <1>1, <2>1 DEF HandleOnly
  <2>3. ~Unsettled(c)'
    BY <1>1, <1>5, <2>1 DEF HandleFits, Unsettled
  <2>4. HandleFits(c)' /\ ~Holds(c)'
    BY <1>1, <1>5, <2>1, <2>2, <2>3 DEF HandleFits, Holds, Resuming, Ended
  <2> QED BY <2>1, <2>2, <2>4, HandleStepKeeps
<1>6. CASE phase[c] \in {"recording", "waiting"} /\ Undo(c)
  <2>1. ~Unsettled(c) /\ prior[c] \in Ended /\ gen[c] < GensOf[c]
    BY <1>1, <1>6 DEF HandleFits, Resuming
  <2>2. ReleaseSpawn(c) /\ UNCHANGED <<genVars, settled, askVars, resultVars, gen>>
    BY <1>6 DEF Undo, genVars
  <2>3. CASE status[c] = "running"
    <3>1. /\ status' = [status EXCEPT ![c] = UndoneStatus(c)] /\ phase' = [phase EXCEPT ![c] = "undoing"]
          /\ ticket' = ticket /\ prior' = prior
      BY <1>6, <2>3 DEF Undo, ticketVars
    <3>2. UndoneStatus(c) \in Ended /\ "stopped" \notin ticket[c]
      BY <1>1, <2>1, <2>3 DEF UndoneStatus, Ended, HandleFits
    <3>3. HandleOnly(c) /\ phase'[c] = "undoing" /\ status'[c] = UndoneStatus(c)
      BY <1>1, <2>2, <3>1, <3>2 DEF HandleOnly, Resuming
    <3>4. HandleFits(c)' /\ ~Holds(c)'
      BY <1>1, <2>1, <2>2, <3>1, <3>2, <3>3 DEF HandleFits, Holds, Unsettled, UndoneStatus, Resuming, Ended
    <3> QED BY <2>2, <3>3, <3>4, HandleStepKeeps
  <2>4. CASE status[c] # "running"
    <3>1. /\ status' = status
          /\ phase' = [phase EXCEPT ![c] = "none"] /\ ticket' = [ticket EXCEPT ![c] = {}]
          /\ prior' = [prior EXCEPT ![c] = "none"]
      BY <1>6, <2>4 DEF Undo, Finished
    <3>2. HandleOnly(c) /\ phase'[c] = "none" /\ ticket'[c] = {} /\ prior'[c] = "none"
      BY <1>1, <2>2, <3>1 DEF HandleOnly
    <3>3. HandleFits(c)' /\ ~Holds(c)'
      BY <1>1, <1>6, <2>1, <2>2, <2>4, <3>1, <3>2 DEF HandleFits, Holds, Unsettled, Resuming
    <3> QED BY <2>2, <3>2, <3>3, HandleStepKeeps
  <2> QED BY <2>3, <2>4
<1>7. CASE ResumeResolved(c) /\ ~Refuse(c)
  <2>1. /\ phase[c] = "resolving" /\ ticket[c] = {} /\ CanRegister /\ Register(c)
        /\ phase' = [phase EXCEPT ![c] = "reading"]
        /\ UNCHANGED <<status, ticket, prior, genVars, settled, askVars, resultVars, gen>>
    BY <1>7 DEF ResumeResolved, ticketVars, genVars
  <2>2. HandleOnly(c) /\ phase'[c] = "reading"
    BY <1>1, <2>1 DEF HandleOnly, Resuming
  <2>3. ~Unsettled(c) /\ ~Unsettled(c)'
    BY <1>1, <2>1 DEF HandleFits, Unsettled, Resuming
  <2>4. HandleFits(c)' /\ ~Holds(c) /\ Holds(c)'
    BY <1>1, <2>1, <2>2, <2>3 DEF HandleFits, Holds, Resuming
  <2> QED BY <2>1, <2>2, <2>4, HandleStepKeeps
<1>8. CASE ResumeRead(c) /\ ~Refuse(c)
  <2>1. /\ phase[c] = "reading" /\ ticket[c] = {}
        /\ status' = [status EXCEPT ![c] = "running"] /\ phase' = [phase EXCEPT ![c] = "recording"]
        /\ UNCHANGED <<ticket, prior, genVars, settled, askVars, resultVars, slotVars, gen>>
    BY <1>8 DEF ResumeRead, ticketVars, genVars
  <2>2. HandleOnly(c) /\ phase'[c] = "recording" /\ status'[c] = "running"
    BY <1>1, <2>1 DEF HandleOnly, Resuming
  <2>3. ~Unsettled(c) /\ ~Unsettled(c)'
    BY <1>1, <2>1 DEF HandleFits, Unsettled, Resuming
  <2>4. HandleFits(c)' /\ (Holds(c)' <=> Holds(c))
    BY <1>1, <2>1, <2>2, <2>3 DEF HandleFits, Holds, Resuming
  <2> QED BY <2>1, <2>2, <2>4, HandleStepKeeps
<1>9. CASE ResumeRecorded(c) /\ ~Undo(c)
  <2>1. /\ phase[c] = "recording" /\ phase' = [phase EXCEPT ![c] = "waiting"]
        /\ UNCHANGED <<status, ticket, prior, genVars, settled, askVars, resultVars, slotVars, gen>>
    BY <1>9 DEF ResumeRecorded, ticketVars, genVars
  <2>2. HandleOnly(c) /\ phase'[c] = "waiting"
    BY <1>1, <2>1 DEF HandleOnly, Resuming
  <2>3. ~Unsettled(c) /\ ~Unsettled(c)'
    BY <1>1, <2>1 DEF HandleFits, Unsettled, Resuming
  <2>4. HandleFits(c)' /\ (Holds(c)' <=> Holds(c))
    BY <1>1, <2>1, <2>2, <2>3 DEF HandleFits, Holds, Resuming
  <2> QED BY <2>1, <2>2, <2>4, HandleStepKeeps
<1> QED BY <1>2, <1>3, <1>4, <1>5, <1>6, <1>7, <1>8, <1>9
        DEF ResumeResolved, ResumeRead, ResumeRecorded, ResumeWaited

\* The current generation settles: its child is at an end, holds no slot and
\* owes its host nothing.
LEMMA SettleFacts ==
  ASSUME ChildInv, NEW c \in Kids, NEW end \in Ended, Settle(c, end),
         UNCHANGED <<gen, claim, phase, ticket, prior, reported>>
  PROVE  /\ settled' \in [Kids -> SUBSET Gens] /\ status' \in [Kids -> {"none", "running"} \cup Ended]
         /\ asks' \in [Kids -> 0..MaxAsks] /\ withdrawn' \in [Kids -> 0..MaxAsks] /\ paused' \in [Kids -> 0..MaxAsks] /\ answer' \in [Kids -> 0..MaxGen]
         /\ \A d \in Kids : d # c => /\ settled'[d] = settled[d] /\ status'[d] = status[d]
                                     /\ asks'[d] = asks[d] /\ paused'[d] = paused[d]
         /\ settled'[c] = settled[c] \cup {gen[c]} /\ asks'[c] = 0 /\ paused'[c] = 0
         /\ gen[c] \in Gens /\ HandleFits(c)' /\ ~Holds(c)'
<1>1. /\ settled \in [Kids -> SUBSET Gens] /\ status \in [Kids -> {"none", "running"} \cup Ended]
      /\ asks \in [Kids -> 0..MaxAsks] /\ withdrawn \in [Kids -> 0..MaxAsks] /\ paused \in [Kids -> 0..MaxAsks] /\ answer \in [Kids -> 0..MaxGen]
      /\ gen \in [Kids -> 0..MaxGen] /\ HandleFits(c)
  BY DEF ChildInv, ChildTypeOK
<1>2. /\ settled' = [settled EXCEPT ![c] = @ \cup {gen[c]}] /\ status' = [status EXCEPT ![c] = end]
      /\ asks' = [asks EXCEPT ![c] = 0] /\ withdrawn' = [withdrawn EXCEPT ![c] = 0] /\ paused' = [paused EXCEPT ![c] = 0]
      /\ answer' = [answer EXCEPT ![c] = IF @ = 0 THEN gen[c] ELSE @]
      /\ Unsettled(c)
  BY DEF Settle
<1>3. gen[c] \in Nat /\ gen[c] > 0 /\ gen[c] \in Gens /\ gen[c] \in 0..MaxGen
  BY <1>1, <1>2 DEF Unsettled, Gens
<1>4. settled'[c] = settled[c] \cup {gen[c]} /\ status'[c] = end /\ phase[c] = "none"
  BY <1>1, <1>2 DEF HandleFits
<1>5. ~Unsettled(c)'
  BY <1>4 DEF Unsettled
<1>6. HandleFits(c)'
  BY <1>1, <1>3, <1>4, <1>5 DEF HandleFits, Ended, Resuming
<1>7. ~Holds(c)'
  BY <1>4, <1>5 DEF Holds
<1>8. answer' \in [Kids -> 0..MaxGen]
  BY <1>1, <1>2, <1>3
<1>9. /\ asks' \in [Kids -> 0..MaxAsks] /\ withdrawn' \in [Kids -> 0..MaxAsks] /\ paused' \in [Kids -> 0..MaxAsks]
      /\ asks'[c] = 0 /\ paused'[c] = 0
  BY <1>1, <1>2, Bounds
<1>10. settled' \in [Kids -> SUBSET Gens] /\ status' \in [Kids -> {"none", "running"} \cup Ended]
  BY <1>1, <1>2, <1>3
<1>11. \A d \in Kids : d # c => /\ settled'[d] = settled[d] /\ status'[d] = status[d]
                                /\ asks'[d] = asks[d] /\ paused'[d] = paused[d]
  BY <1>1, <1>2
<1> QED BY <1>3, <1>4, <1>6, <1>7, <1>8, <1>9, <1>10, <1>11

\* A generation settles: its result is read, it stalls, or it is stopped.
LEMMA SettleKeeps ==
  ASSUME ChildInv, NEW c \in Kids, Observe(c) \/ Stall(c) \/ (Stop(c) /\ phase[c] \notin Resuming)
  PROVE  ChildInv'
<1>1. ChildTypeOK /\ GenerationsFit(c)
  BY DEF ChildInv
<1>2. UNCHANGED <<gen, engine, claim, liveNames, endpoint, phase, ticket, prior, reported>>
  BY DEF Observe, Stall, Stop, genVars, ticketVars
<1>3. PICK end \in Ended : Settle(c, end)
  BY DEF Observe, Stall, Stop, Ended
<1>4. /\ settled' \in [Kids -> SUBSET Gens] /\ status' \in [Kids -> {"none", "running"} \cup Ended]
      /\ asks' \in [Kids -> 0..MaxAsks] /\ withdrawn' \in [Kids -> 0..MaxAsks] /\ paused' \in [Kids -> 0..MaxAsks] /\ answer' \in [Kids -> 0..MaxGen]
      /\ \A d \in Kids : d # c => /\ settled'[d] = settled[d] /\ status'[d] = status[d]
                                  /\ asks'[d] = asks[d] /\ paused'[d] = paused[d]
      /\ settled'[c] = settled[c] \cup {gen[c]} /\ asks'[c] = 0 /\ paused'[c] = 0
      /\ gen[c] \in Gens /\ HandleFits(c)' /\ ~Holds(c)'
  BY <1>2, <1>3, SettleFacts
<1>5. \A d \in Kids : d # c => SameAt(d)
  BY <1>2, <1>4 DEF SameAt
<1>6. SlotsAccounted' /\ slots' \subseteq Kids /\ running' \in 0..MaxRunning
  <2>1. ReleaseSpawn(c)
    BY <1>3 DEF Settle
  <2> QED BY <1>4, <1>5, <2>1, OthersHold, SlotReleased
<1>7. NamesExclusive' /\ LiveEngineHeard'
  <2>1. \A d \in Kids, h \in Gens : Up(d, h)' <=> Up(d, h)
    BY <1>2 DEF Up
  <2> QED BY <1>2, <2>1, NamesStay DEF ChildInv, LiveEngineHeard
<1>8. GenerationsFit(c)'
  <2>1. gen[c] \in 1..gen[c]
    BY <1>4 DEF Gens
  <2> QED BY <1>1, <1>2, <1>4, <2>1 DEF GenerationsFit
<1>9. ChildTypeOK'
  BY <1>1, <1>2, <1>4, <1>6 DEF ChildTypeOK
<1> QED BY <1>4, <1>5, <1>6, <1>7, <1>8, <1>9, StepKeeps

\* An engine ends: its teardown returns, or it throws, and with it the
\* generation settles unless it has already.
LEMMA EngineEndKeeps ==
  ASSUME ChildInv, NEW c \in Kids, NEW g \in Gens, EngineReturns(c, g) \/ EngineThrows(c, g)
  PROVE  ChildInv'
<1>1. ChildTypeOK /\ HandleFits(c) /\ GenerationsFit(c) /\ gen[c] \in Nat /\ g \in Nat
  BY Bounds DEF ChildInv, ChildTypeOK
<1>2. Gone(c, g) /\ UNCHANGED <<gen, claim, phase, ticket, prior, reported>>
  BY DEF EngineReturns, EngineThrows, ticketVars, resultVars
<1>3. /\ engine' \in [Kids -> [Gens -> {"none", "refused", "busy", "replied", "gone"}]]
      /\ liveNames' \subseteq Names
      /\ \A d \in Kids : d # c => engine'[d] = engine[d]
      /\ \A h \in Gens : engine'[c][h] = IF h = g THEN "gone" ELSE engine[c][h]
      /\ g <= gen[c]
      /\ \A h \in Gens : engine'[c][h] = "none" <=> h > gen[c]
      /\ NamesExclusive'
  BY <1>2, GoneFacts
<1>4. /\ endpoint' \in [Kids -> 0..MaxGen]
      /\ \A d \in Kids : d # c => endpoint'[d] = endpoint[d]
      /\ endpoint[c] # g => endpoint'[c] = endpoint[c]
  <2>1. endpoint \in [Kids -> 0..MaxGen]
    BY <1>1 DEF ChildTypeOK
  <2>2. CASE EngineReturns(c, g)
    BY <2>1, <2>2, Bounds DEF EngineReturns, DisposeEndpoint
  <2>3. CASE EngineThrows(c, g)
    BY <2>1, <2>3 DEF EngineThrows
  <2> QED BY <2>2, <2>3
<1>5. LiveEngineHeard'
  <2> SUFFICES ASSUME NEW d \in Kids, gen[d] > 0, engine'[d][gen[d]] \in {"busy", "replied"}
               PROVE  endpoint'[d] = gen[d]
    BY <1>2 DEF LiveEngineHeard
  <2>1. gen[d] \in Gens
    BY <1>1 DEF ChildTypeOK, Gens
  <2>2. engine[d][gen[d]] \in {"busy", "replied"} /\ ~(d = c /\ gen[d] = g)
    BY <1>3, <2>1
  <2>3. endpoint[d] = gen[d]
    BY <2>2 DEF ChildInv, LiveEngineHeard
  <2> QED BY <1>4, <2>2, <2>3
<1>6. CASE g \in settled[c]
  <2>1. UNCHANGED <<status, settled, slots, running, asks, withdrawn, paused, answer>>
    BY <1>6 DEF EngineReturns, EngineThrows, slotVars, askVars, resultVars
  <2>2. \A d \in Kids : d # c => SameAt(d)
    BY <1>2, <1>3, <1>4, <2>1 DEF SameAt
  <2>3. Unsettled(c)' <=> Unsettled(c)
    BY <1>2, <2>1 DEF Unsettled
  <2>4. HandleFits(c)' /\ (Holds(c)' <=> Holds(c))
    BY <1>1, <1>2, <2>1, <2>3 DEF HandleFits, Holds
  <2>5. GenerationsFit(c)'
    BY <1>1, <1>2, <1>3, <2>1 DEF GenerationsFit
  <2>6. SlotsAccounted' /\ slots' \subseteq Kids /\ running' \in 0..MaxRunning
    BY <2>1, <2>2, <2>4, OthersHold, SlotsStay DEF slotVars
  <2>7. ChildTypeOK'
    BY <1>1, <1>2, <1>3, <1>4, <2>1 DEF ChildTypeOK
  <2> QED BY <1>3, <1>5, <2>2, <2>4, <2>5, <2>6, <2>7, StepKeeps
<1>7. CASE g \notin settled[c]
  <2>1. EngineThrows(c, g) /\ Settle(c, "failed")
    BY <1>7 DEF EngineReturns, EngineThrows
  <2>2. /\ settled' \in [Kids -> SUBSET Gens] /\ status' \in [Kids -> {"none", "running"} \cup Ended]
        /\ asks' \in [Kids -> 0..MaxAsks] /\ withdrawn' \in [Kids -> 0..MaxAsks] /\ paused' \in [Kids -> 0..MaxAsks] /\ answer' \in [Kids -> 0..MaxGen]
        /\ \A d \in Kids : d # c => /\ settled'[d] = settled[d] /\ status'[d] = status[d]
                                    /\ asks'[d] = asks[d] /\ paused'[d] = paused[d]
        /\ settled'[c] = settled[c] \cup {gen[c]} /\ asks'[c] = 0 /\ paused'[c] = 0
        /\ gen[c] \in Gens /\ HandleFits(c)' /\ ~Holds(c)'
    BY <1>2, <2>1, SettleFacts DEF Ended
  <2>3. \A d \in Kids : d # c => SameAt(d)
    BY <1>2, <1>3, <1>4, <2>2 DEF SameAt
  <2>4. GenerationsFit(c)'
    <3>1. gen[c] \in 1..gen[c]
      BY <2>2 DEF Gens
    <3> QED BY <1>1, <1>2, <1>3, <2>2, <3>1 DEF GenerationsFit
  <2>5. SlotsAccounted' /\ slots' \subseteq Kids /\ running' \in 0..MaxRunning
    <3>1. ReleaseSpawn(c)
      BY <2>1 DEF Settle
    <3> QED BY <2>2, <2>3, <3>1, OthersHold, SlotReleased
  <2>6. ChildTypeOK'
    BY <1>1, <1>2, <1>3, <1>4, <2>2, <2>5 DEF ChildTypeOK
  <2> QED BY <1>3, <1>5, <2>2, <2>3, <2>4, <2>5, <2>6, StepKeeps
<1> QED BY <1>6, <1>7

\* A generation starts, the first of a spawn or the next of a resume.
LEMMA StartKeeps ==
  ASSUME ChildInv, NEW c \in Kids,
         \/ SpawnStarts(c)
         \/ ResumeWaited(c) /\ ticket[c] = {}
  PROVE  ChildInv'
<1>1. /\ status \in [Kids -> {"none", "running"} \cup Ended]
      /\ phase \in [Kids -> {"none", "spawning"} \cup Resuming]
      /\ ticket \in [Kids -> SUBSET {"stopped", "changed"}]
      /\ prior \in [Kids -> {"none"} \cup Ended]
      /\ settled[c] \subseteq 1..gen[c]
      /\ gen[c] \in Nat /\ ChildTypeOK /\ HandleFits(c) /\ GenerationsFit(c)
  BY DEF ChildInv, ChildTypeOK, GenerationsFit
<1>2. StartGeneration(c) /\ UNCHANGED <<settled, slots, running, asks, withdrawn, paused, answer, reported>>
  BY DEF SpawnStarts, ResumeWaited, slotVars, askVars, resultVars
<1>3. /\ phase[c] \in {"spawning", "waiting"} /\ ticket[c] = {}
      /\ phase' = [phase EXCEPT ![c] = "none"]
      /\ \A d \in Kids : status'[d] = (IF d = c THEN "running" ELSE status[d])
      /\ status' \in [Kids -> {"none", "running"} \cup Ended]
      /\ \A d \in Kids : ticket'[d] = ticket[d] /\ (d # c => prior'[d] = prior[d])
      /\ ticket' \in [Kids -> SUBSET {"stopped", "changed"}]
      /\ prior' \in [Kids -> {"none"} \cup Ended] /\ prior'[c] = "none"
  <2>1. CASE SpawnStarts(c)
    BY <1>1, <2>1 DEF SpawnStarts, ticketVars, HandleFits, Resuming
  <2>2. CASE ResumeWaited(c) /\ ticket[c] = {}
    <3>1. status' = status /\ phase[c] = "waiting" /\ Finished(c)
      BY <2>2 DEF ResumeWaited
    <3>2. status[c] = "running"
      BY <1>1, <2>2, <3>1 DEF HandleFits
    <3> QED BY <1>1, <2>2, <3>1, <3>2 DEF Finished
  <2> QED BY <2>1, <2>2
<1>4. gen[c] + 1 \in Gens
  <2>1. gen[c] < MaxGen
    BY <1>1, <1>3, Bounds DEF HandleFits, Resuming
  <2> QED BY <1>1, <2>1, Bounds DEF Gens
<1>5. /\ gen' \in [Kids -> 0..MaxGen] /\ gen'[c] = gen[c] + 1
      /\ engine' \in [Kids -> [Gens -> {"none", "refused", "busy", "replied", "gone"}]]
      /\ claim' \in [Kids -> [Gens -> Names \cup {0}]]
      /\ endpoint' \in [Kids -> 0..MaxGen]
      /\ liveNames' \subseteq Names
      /\ \A d \in Kids : d # c => /\ gen'[d] = gen[d] /\ engine'[d] = engine[d]
                                  /\ claim'[d] = claim[d] /\ endpoint'[d] = endpoint[d]
      /\ \A g \in Gens : engine'[c][g] = "none" <=> g > gen[c] + 1
      /\ \A g \in Gens : c \in Declaring /\ g <= gen[c] + 1 => claim'[c][g] \in Names
      /\ c \notin Declaring => \A g \in Gens : claim'[c][g] = 0
      /\ NamesExclusive' /\ LiveEngineHeard'
  BY <1>2, <1>4, StartFacts
<1>6. \A d \in Kids : d # c => SameAt(d)
  BY <1>1, <1>2, <1>3, <1>5 DEF SameAt
<1>7. phase'[c] = "none" /\ status'[c] = "running" /\ gen'[c] > 0 /\ Unsettled(c)'
  <2>1. gen[c] + 1 \notin settled[c]
    BY <1>1
  <2> QED BY <1>1, <1>2, <1>3, <1>5, <2>1 DEF Unsettled
<1>8. HandleFits(c)' /\ Holds(c) /\ Holds(c)'
  <2>1. ticket'[c] = {} /\ prior'[c] = "none" /\ phase'[c] \notin Resuming /\ gen'[c] # 0
    BY <1>1, <1>3, <1>5, <1>7 DEF Resuming
  <2>2. HandleFits(c)'
    BY <1>7, <2>1 DEF HandleFits
  <2> QED BY <1>3, <1>7, <2>2 DEF Holds
<1>9. GenerationsFit(c)'
  <2>1. settled'[c] \subseteq 1..gen'[c]
    BY <1>1, <1>2, <1>5
  <2>2. \A g \in Gens : g < gen'[c] => g \in settled'[c]
    <3>1. ~Unsettled(c) /\ \A g \in Gens : g \in Nat
      BY <1>1, <1>3, Bounds DEF HandleFits
    <3>2. \A g \in Gens : g <= gen[c] => g \in settled[c]
      BY <1>1, <3>1 DEF GenerationsFit, Unsettled, Gens
    <3> QED BY <1>1, <1>2, <1>5, <3>1, <3>2
  <2> QED BY <1>1, <1>2, <1>5, <2>1, <2>2 DEF GenerationsFit
<1>10. SlotsAccounted'
  BY <1>2, <1>6, <1>8, OthersHold, SlotsStay DEF slotVars
<1>11. ChildTypeOK'
  <2>1. phase' \in [Kids -> {"none", "spawning"} \cup Resuming]
    BY <1>1, <1>3
  <2> QED BY <1>1, <1>2, <1>3, <1>5, <2>1 DEF ChildTypeOK
<1> QED BY <1>5, <1>6, <1>8, <1>9, <1>10, <1>11, StepKeeps

-----------------------------------------------------------------------------
(* The theorems.                                                           *)

\* With nothing running, whether the children are yet to be spawned or ended before.
LEMMA QuietInv ==
  ASSUME NEW initial \in {"none"} \cup Ended, Quiet(initial)
  PROVE  ChildInv
<1> USE DEF Quiet
<1>1. ChildTypeOK
  BY Bounds DEF ChildTypeOK
<1>2. \A c \in Kids : HandleFits(c) /\ GenerationsFit(c)
  BY Bounds DEF HandleFits, GenerationsFit, Unsettled, Resuming, Ended
<1>3. SlotsAccounted
  BY FS_EmptySet DEF SlotsAccounted, Unsettled
<1>4. NamesExclusive
  BY BoundsAssumption DEF NamesExclusive, Up
<1>5. LiveEngineHeard
  BY DEF LiveEngineHeard
<1> QED BY <1>1, <1>2, <1>3, <1>4, <1>5 DEF ChildInv

LEMMA ChildInitInv == ChildInit => ChildInv
  BY QuietInv DEF ChildInit

LEMMA ChildStepInv ==
  ASSUME ChildInv, [ChildNext]_childVars
  PROVE  ChildInv'
<1>1. CASE ChildNext
  <2>1. PICK c \in Kids :
          \/ SpawnBegins(c) \/ SpawnStarts(c) \/ SpawnFails(c)
          \/ Stop(c) \/ ChangeContext(c) \/ ResumeBegins(c)
          \/ ResumeStep(c) \/ EngineStep(c)
    BY <1>1 DEF ChildNext
  <2>2. CASE SpawnBegins(c) \/ SpawnFails(c)
    BY <2>2, ResumeKeeps
  <2>3. CASE SpawnStarts(c)
    BY <2>3, StartKeeps
  <2>4. CASE Stop(c)
    BY <2>4, ResumeKeeps, SettleKeeps
  <2>5. CASE ChangeContext(c) \/ ResumeBegins(c)
    BY <2>5, QuietStep
  <2>6. CASE ResumeStep(c)
    <3>1. CASE ResumeWaited(c)
      BY <3>1, ResumeKeeps, StartKeeps DEF ResumeWaited
    <3>2. CASE Undone(c)
      BY <3>2, QuietStep
    <3> QED BY <2>6, <3>1, <3>2, ResumeKeeps DEF ResumeStep
  <2>7. CASE EngineStep(c)
    <3>1. CASE \E g \in Gens : EngineReturns(c, g) \/ EngineThrows(c, g)
      BY <3>1, EngineEndKeeps
    <3>2. CASE Observe(c) \/ Stall(c)
      BY <3>2, SettleKeeps
    <3> QED BY <2>7, <3>1, <3>2, QuietStep DEF EngineStep
  <2> QED BY <2>1, <2>2, <2>3, <2>4, <2>5, <2>6, <2>7
<1>2. CASE UNCHANGED childVars
  <2>1. \A d \in Kids, g \in Gens : Up(d, g)' <=> Up(d, g)
    BY <1>2 DEF childVars, Up
  <2>2. \A d \in Kids : SameAt(d)
    BY <1>2 DEF childVars, SameAt
  <2>3. \A d \in Kids : HandleFits(d)' /\ GenerationsFit(d)' /\ (Holds(d)' <=> Holds(d))
    BY <2>2, SameFits DEF ChildInv
  <2>4. SlotsAccounted'
    BY <1>2, <2>3, SlotsStay DEF childVars, slotVars
  <2>5. NamesExclusive'
    BY <1>2, <2>1, NamesStay DEF childVars
  <2>6. ChildTypeOK' /\ LiveEngineHeard'
    BY <1>2 DEF childVars, ChildInv, ChildTypeOK, LiveEngineHeard
  <2> QED BY <2>3, <2>4, <2>5, <2>6 DEF ChildInv
<1> QED BY <1>1, <1>2

(***************************************************************************)
(* Every reachable state of the children's handles satisfies the inductive *)
(* invariant.                                                              *)
(***************************************************************************)
THEOREM ChildInvariant == ChildSpec => []ChildInv
  BY ChildInitInv, ChildStepInv, PTL DEF ChildSpec

(***************************************************************************)
(* The types, and with them the concurrency limit: `running` never exceeds *)
(* MaxRunning.                                                             *)
(***************************************************************************)
THEOREM ChildTypeCorrect == ChildSpec => []ChildTypeOK
<1>1. ChildInv => ChildTypeOK
  BY DEF ChildInv
<1> QED BY <1>1, ChildInvariant, PTL

(***************************************************************************)
(* No slot is lost or given out twice, and no two engines that are up have *)
(* the same server name, whatever spawns, stops, resumes and teardowns     *)
(* overlap.                                                                *)
(***************************************************************************)
THEOREM ClaimsKept == ChildSpec => []ClaimsAccounted
<1>1. ChildInv => ClaimsAccounted
  BY DEF ChildInv, ClaimsAccounted
<1> QED BY <1>1, ChildInvariant, PTL

(***************************************************************************)
(* The late teardown of an earlier generation never takes the endpoint of  *)
(* the running one.                                                        *)
(***************************************************************************)
THEOREM LiveEnginesHeard == ChildSpec => []LiveEngineHeard
<1>1. ChildInv => LiveEngineHeard
  BY DEF ChildInv
<1> QED BY <1>1, ChildInvariant, PTL

\* What a step makes of a child whose resume is under way, cancelled or not.
LEMMA ResumingStep ==
  ASSUME ChildInv, ChildNext, NEW c \in Kids, phase[c] \in Resuming
  PROVE  /\ "stopped" \in ticket[c] => status'[c] = "stopped" /\ gen'[c] = gen[c]
         /\ phase'[c] = "none" /\ ticket[c] = {"changed"} => status'[c] = prior[c]
<1> DEFINE Stands == /\ "stopped" \in ticket[c] => status'[c] = "stopped" /\ gen'[c] = gen[c]
                     /\ phase'[c] = "none" /\ ticket[c] = {"changed"} => status'[c] = prior[c]
<1>1. /\ status \in [Kids -> {"none", "running"} \cup Ended]
      /\ phase \in [Kids -> {"none", "spawning"} \cup Resuming]
      /\ gen \in [Kids -> 0..MaxGen] /\ HandleFits(c)
  BY DEF ChildInv, ChildTypeOK
<1>2. /\ ~Unsettled(c) /\ phase[c] # "none" /\ phase[c] # "spawning"
      /\ "stopped" \in ticket[c] => status[c] = "stopped"
      /\ phase[c] \in {"resolving", "reading", "undoing"} /\ ticket[c] = {"changed"} => status[c] = prior[c]
      /\ phase[c] \in {"recording", "waiting"} /\ ticket[c] = {"changed"} => status[c] = "running"
  BY <1>1 DEF HandleFits, Resuming
<1>3. PICK d \in Kids :
        \/ SpawnBegins(d) \/ SpawnStarts(d) \/ SpawnFails(d)
        \/ Stop(d) \/ ChangeContext(d) \/ ResumeBegins(d)
        \/ ResumeStep(d) \/ EngineStep(d)
  BY DEF ChildNext
<1>4. CASE status'[c] = status[c] /\ gen'[c] = gen[c] /\ phase'[c] = phase[c]
  BY <1>2, <1>4
<1>5. CASE SpawnBegins(d) \/ SpawnStarts(d) \/ SpawnFails(d)
  <2>1. d # c
    BY <1>2, <1>5 DEF SpawnBegins, SpawnStarts, SpawnFails
  <2>2. status'[c] = status[c] /\ gen'[c] = gen[c] /\ phase'[c] = phase[c]
    BY <1>1, <1>5, <2>1 DEF SpawnBegins, SpawnStarts, SpawnFails, StartGeneration, genVars
  <2> QED BY <1>4, <2>2
<1>6. CASE Stop(d)
  <2>1. gen' = gen /\ phase' = phase /\ \A e \in Kids : e # d => status'[e] = status[e]
    BY <1>1, <1>6 DEF Stop, Settle, genVars
  <2>2. CASE d = c
    <3>1. status'[c] = "stopped"
      BY <1>1, <1>2, <1>6, <2>2 DEF Stop
    <3> QED BY <1>2, <2>1, <3>1
  <2> QED BY <1>4, <2>1, <2>2
<1>7. CASE ChangeContext(d) \/ ResumeBegins(d)
  <2>1. status' = status /\ gen' = gen /\ \A e \in Kids : phase'[e] = phase[e] \/ (e = d /\ phase'[e] = "resolving")
    BY <1>1, <1>7 DEF ChangeContext, ResumeBegins, genVars
  <2> QED BY <1>2, <2>1
<1>8. CASE EngineStep(d)
  <2>1. gen' = gen /\ phase' = phase
    BY <1>8 DEF EngineStep, EngineReplies, Observe, Stall, Ask, Withdraw, HostAnswers, ParentHears, EngineReturns,
                EngineThrows, genVars
  <2>2. status' = status \/ (Unsettled(d) /\ \E e \in Ended : status' = [status EXCEPT ![d] = e])
    <3>1. ASSUME NEW e \in Ended, Settle(d, e) PROVE Unsettled(d) /\ status' = [status EXCEPT ![d] = e]
      BY <3>1 DEF Settle
    <3>2. CASE Observe(d) \/ Stall(d)
      BY <3>1, <3>2 DEF Observe, Stall, Ended
    <3>3. CASE \E g \in Gens : EngineReturns(d, g) \/ EngineThrows(d, g)
      BY <3>1, <3>3 DEF EngineReturns, EngineThrows, Ended
    <3>4. CASE EngineReplies(d) \/ Ask(d) \/ Withdraw(d) \/ HostAnswers(d) \/ ParentHears(d)
      BY <3>4 DEF EngineReplies, Ask, Withdraw, HostAnswers, ParentHears
    <3> QED BY <1>8, <3>2, <3>3, <3>4 DEF EngineStep
  <2>3. status'[c] = status[c]
    BY <1>1, <1>2, <2>2
  <2> QED BY <1>4, <2>1, <2>3
<1>9. CASE ResumeStep(d) /\ d # c
  <2>1. /\ \A e \in Kids : e # d => status'[e] = status[e]
        /\ \A e \in Kids : e # d => gen'[e] = gen[e]
        /\ \A e \in Kids : e # d => phase'[e] = phase[e]
    BY <1>1, <1>9 DEF ResumeStep, ResumeResolved, ResumeRead, ResumeRecorded, ResumeWaited, Undone, Refuse,
                      Undo, Finished, StartGeneration, genVars
  <2> QED BY <1>4, <1>9, <2>1
<1>10. CASE ResumeStep(d) /\ d = c
  <2>1. CASE ResumeResolved(c) \/ ResumeRead(c) \/ Undone(c)
    <3>1. gen' = gen /\ (ticket[c] # {} => status' = status)
      BY <2>1 DEF ResumeResolved, ResumeRead, Undone, Refuse, genVars
    <3>2. phase[c] \in {"resolving", "reading", "undoing"}
      BY <2>1 DEF ResumeResolved, ResumeRead, Undone
    <3> QED BY <1>2, <3>1, <3>2
  <2>2. CASE ResumeRecorded(c) \/ ResumeWaited(c)
    <3>1. phase[c] \in {"recording", "waiting"}
      BY <2>2 DEF ResumeRecorded, ResumeWaited
    <3>2. CASE Undo(c)
      <4>1. gen' = gen
        BY <3>2 DEF Undo, genVars
      <4>2. CASE status[c] = "running"
        <5>1. phase'[c] = "undoing" /\ "stopped" \notin ticket[c]
          BY <1>1, <1>2, <3>2, <4>2 DEF Undo
        <5> QED BY <5>1
      <4>3. CASE status[c] # "running"
        <5>1. status' = status
          BY <3>2, <4>3 DEF Undo
        <5> QED BY <1>2, <3>1, <4>1, <4>3, <5>1
      <4> QED BY <4>2, <4>3
    <3>3. CASE ~Undo(c)
      <4>1. CASE ResumeRecorded(c)
        <5>1. status' = status /\ gen' = gen /\ phase'[c] = "waiting"
          BY <1>1, <3>3, <4>1 DEF ResumeRecorded, genVars
        <5> QED BY <1>2, <5>1
      <4>2. CASE ResumeWaited(c)
        BY <3>3, <4>2 DEF ResumeWaited
      <4> QED BY <2>2, <4>1, <4>2
    <3> QED BY <3>2, <3>3
  <2> QED BY <1>10, <2>1, <2>2 DEF ResumeStep
<1> QED BY <1>3, <1>5, <1>6, <1>7, <1>8, <1>9, <1>10

(***************************************************************************)
(* A cancelled resume leaves the child as what cancelled it demands: after *)
(* a stop it stays stopped and starts nothing, after a change of context   *)
(* alone it has the outcome it had before.                                 *)
(***************************************************************************)
THEOREM CancelledResumesStand == ChildSpec => CancelledResumeStands
<1> DEFINE HoldsStep == \A c \in Kids : phase[c] \in Resuming /\ "stopped" \in ticket[c]
                                          => status'[c] = "stopped" /\ gen'[c] = gen[c]
           KeptStep  == \A c \in Kids : phase[c] \in Resuming /\ phase'[c] = "none" /\ ticket[c] = {"changed"}
                                          => status'[c] = prior[c]
<1>1. ChildInv /\ [ChildNext]_childVars => [HoldsStep]_childVars
  BY ResumingStep
<1>2. ChildInv /\ [ChildNext]_childVars => [KeptStep]_childVars
  BY ResumingStep
<1>3. ChildSpec => [][HoldsStep]_childVars
  BY <1>1, ChildInvariant, PTL DEF ChildSpec
<1>4. ChildSpec => [][KeptStep]_childVars
  BY <1>2, ChildInvariant, PTL DEF ChildSpec
<1> QED BY <1>3, <1>4 DEF CancelledResumeStands, StopHolds, OutcomeKept

============================================================================
