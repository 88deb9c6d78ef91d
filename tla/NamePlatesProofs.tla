---------------------------- MODULE NamePlatesProofs ---------------------------
(***************************************************************************)
(* For any pool of plates and any units: between frames the registry lists *)
(* what add-ons were told, the handlers of REMOVED and ADDED can look up   *)
(* the plate and the unit of their event, the events of a plate alternate, *)
(* and every listed plate stacks as it was asked to.                       *)
(*                                                                         *)
(* The properties speak of the moments between frames, or of an event.     *)
(* IInv says what a frame has done so far: to the plates the scan has      *)
(* visited, to those it has not, and to those whose ADDED event is due.    *)
(***************************************************************************)
EXTENDS NamePlates, FiniteSetTheorems, TLAPS

\* Ids count the registered plates, and a plate without one is nowhere else.
Numbering ==
    /\ \A p \in Registered : id[p] <= Cardinality(Registered)
    /\ \A p, q \in Registered : id[p] = id[q] => p = q
    /\ \A p \in Plates \ Registered :
          guid[p] = NoUnit /\ told[p] = NoUnit /\ entries[p] = 0 /\ p \notin active

\* The link between a living unit and its plate goes both ways, and a shown
\* plate of a living unit is linked.
Links ==
    /\ \A u \in Units : plateOf[u] # NoPlate => u \in alive /\ owner[plateOf[u]] = u
    /\ \A p \in shown : owner[p] \in alive => plateOf[owner[p]] = p

Linked(p) == owner[p] \in alive /\ plateOf[owner[p]] = p

\* The registry agrees with what add-ons have been told of p.
Settled(p) ==
    /\ guid[p] = told[p]
    /\ entries[p] = 1 <=> told[p] # NoUnit
    /\ p \in active <=> told[p] # NoUnit

\* The guid a plate was announced with is not another plate's.
Distinct == \A p, q \in Plates : guid[p] = guid[q] /\ guid[p] # NoUnit => p = q

BetweenFrames ==
    phase = "idle" => todo = {} /\ pending = {} /\ Distinct /\ \A p \in Plates : Settled(p)

\* What the scan has done to a plate it has visited.
Visited(p) ==
    /\ entries[p] = 0 => guid[p] = NoUnit
    /\ p \notin active => told[p] = NoUnit /\ p \notin pending
    /\ p \in active =>
          /\ entries[p] = 1 /\ Linked(p)
          /\ IF p \in pending THEN told[p] = NoUnit
             ELSE told[p] = guid[p] /\ guid[p] = owner[p]

InScan ==
    phase = "scan" =>
        /\ Distinct
        /\ \A p \in todo : Settled(p) /\ p \notin pending
        /\ \A p \in Plates \ todo : Visited(p)

InFlush ==
    phase = "flush" =>
        /\ \A p \in todo : p \in active /\ entries[p] = 1 /\ told[p] = NoUnit /\ Linked(p)
        /\ \A p \in Plates \ todo :
              Settled(p) /\ (told[p] # NoUnit => told[p] = owner[p] /\ Linked(p))

\* What is true of the plate of an event while its handlers run.
Delivering ==
    LET p == event.plate
    IN  /\ event.kind = "CREATED" =>
              phase = "scan" /\ p \in todo /\ p \in Registered /\ told[p] = NoUnit /\ Linked(p)
        /\ event.kind = "REMOVED" =>
              /\ phase = "scan" /\ p \in Plates \ todo
              /\ entries[p] = 1 /\ guid[p] = event.unit /\ guid[p] # NoUnit
        /\ event.kind = "ADDED" =>
              /\ phase = "flush" /\ p \in Plates \ todo
              /\ guid[p] = event.unit /\ told[p] = event.unit /\ told[p] # NoUnit
              /\ \A q \in todo : id[p] < id[q]

\* StacksAsAsked, inside a frame too.
Stacking ==
    \A p \in Listed : p \in stacks <=> (p \notin transient /\ WantsStack(mode, p, friendly))

IInv == TypeOK /\ Numbering /\ Links /\ BetweenFrames /\ InScan /\ InFlush /\ Delivering /\ Stacking

-------------------------------------------------------------------------------
\* The number of registered plates is one of the ids.
LEMMA RegisteredCount ==
    TypeOK => /\ Cardinality(Plates) \in Nat
              /\ Cardinality(Registered) \in 0..Cardinality(Plates)
  <1> SUFFICES ASSUME TypeOK PROVE /\ Cardinality(Plates) \in Nat
                                   /\ Cardinality(Registered) \in 0..Cardinality(Plates)
    OBVIOUS
  <1>1. IsFiniteSet(Plates)
    BY PlatesAssumption
  <1>2. Registered \subseteq Plates
    BY DEF Registered
  <1>3. /\ IsFiniteSet(Registered)
        /\ Cardinality(Registered) <= Cardinality(Plates)
    BY <1>1, <1>2, FS_Subset
  <1> QED
    BY <1>1, <1>3, FS_CardinalityType

\* A plate not seen before gets the next id, which no other plate has and
\* which the pool still has room for.
LEMMA NextId ==
    ASSUME TypeOK, NEW p \in Plates, InitEntry(p)
    PROVE  /\ p \notin Registered
           /\ Registered' = Registered \cup {p}
           /\ Cardinality(Registered') = Cardinality(Registered) + 1
           /\ Cardinality(Registered') <= Cardinality(Plates)
           /\ id'[p] = Cardinality(Registered) + 1
           /\ \A q \in Plates \ {p} : id'[q] = id[q]
  <1>1. p \notin Registered /\ id' = [id EXCEPT ![p] = Cardinality(Registered) + 1]
    BY DEF InitEntry, Registered
  <1>2. Cardinality(Registered) \in Nat
    BY RegisteredCount
  <1>3. /\ id'[p] = Cardinality(Registered) + 1
        /\ \A q \in Plates \ {p} : id'[q] = id[q]
    BY <1>1 DEF TypeOK
  <1>4. Registered' = Registered \cup {p}
    BY <1>2, <1>3 DEF Registered
  <1>5. Registered \subseteq Plates /\ Registered' \subseteq Plates
    BY <1>4 DEF Registered
  <1>6. IsFiniteSet(Registered)
    BY <1>5, PlatesAssumption, FS_Subset
  <1>7. Cardinality(Registered') = Cardinality(Registered) + 1
    BY <1>1, <1>4, <1>6, FS_AddElement
  <1>8. Cardinality(Registered') <= Cardinality(Plates)
    BY <1>5, PlatesAssumption, FS_Subset
  <1> QED
    BY <1>1, <1>3, <1>4, <1>7, <1>8

-------------------------------------------------------------------------------
\* Nothing is shown and nothing has been told.
LEMMA InitHolds == Init => IInv
  <1> SUFFICES ASSUME Init PROVE IInv
    OBVIOUS
  <1>1. Cardinality(Plates) \in Nat
    BY PlatesAssumption, FS_CardinalityType
  <1>2. TypeOK
    BY <1>1, PlatesAssumption DEF Init, TypeOK, Events, Quiet
  <1>3. Numbering
    BY DEF Init, Numbering, Registered
  <1>4. Links
    BY DEF Init, Links
  <1>5. BetweenFrames
    BY DEF Init, BetweenFrames, Distinct, Settled
  <1>6. InScan /\ InFlush /\ Delivering
    BY DEF Init, InScan, InFlush, Delivering, Quiet
  <1>7. Stacking
    BY DEF Init, Stacking, Listed
  <1> QED
    BY <1>2, <1>3, <1>4, <1>5, <1>6, <1>7 DEF IInv

-------------------------------------------------------------------------------
\* A plate that no add-on has been told of, and whose unit it shows.
Untold(p) == told[p] = NoUnit /\ entries[p] = 0 /\ p \notin active /\ Linked(p)

\* What a visit finds, and what it can do about it.
LEMMA ScanCases ==
    ASSUME IInv, NEW p \in Plates, ScanPlate(p)
    PROVE  /\ phase = "scan" /\ p \in todo /\ Settled(p) /\ p \notin pending
           /\ UNCHANGED <<shown, owner, plateOf, alive, named, friends, mode, phase>>
           /\ \/ InitEntry(p) /\ Untold(p) /\ todo' = todo
              \/ Drop(p) /\ told[p] = guid[p] /\ guid[p] # NoUnit /\ todo' = todo \ {p}
              \/ /\ Retarget(p) /\ told[p] = guid[p] /\ guid[p] # NoUnit
                 /\ Linked(p) /\ todo' = todo \ {p}
              \/ Admit(p) /\ Untold(p) /\ p \in Registered /\ todo' = todo \ {p}
              \/ Unchanged(p) /\ todo' = todo \ {p}
  <1>0. TypeOK /\ Numbering /\ Links /\ InScan /\ Delivering
    BY DEF IInv
  <1>1. phase = "scan" /\ p \in todo
    BY DEF ScanPlate
  <1>2. Settled(p) /\ p \notin pending /\ entries[p] \in {0, 1}
    BY <1>0, <1>1 DEF InScan, TypeOK
  <1>3. UNCHANGED <<shown, owner, plateOf, alive, named, friends, mode, phase>>
    BY DEF ScanPlate, engine
  <1>4. told[p] = NoUnit => entries[p] = 0 /\ p \notin active
    BY <1>2 DEF Settled
  <1>5. Fresh(p) => Untold(p)
    <2> SUFFICES ASSUME Fresh(p) PROVE told[p] = NoUnit /\ Linked(p)
      BY <1>4 DEF Untold
    <2>1. Linked(p)
      BY <1>0 DEF Fresh, Links, Linked
    <2>2. told[p] = NoUnit
      BY <1>0, <1>2 DEF Fresh, IsListed, GetEntry, Settled, Numbering, Registered
    <2> QED
      BY <2>1, <2>2
  <1>6. IsListed(p) => told[p] = guid[p] /\ guid[p] # NoUnit
    BY <1>2 DEF IsListed, GetEntry, Settled
  <1>7. CASE event.kind # "CREATED" /\ InitEntry(p) /\ todo' = todo
    BY <1>1, <1>2, <1>3, <1>5, <1>7 DEF InitEntry
  <1>8. CASE Drop(p) /\ todo' = todo \ {p}
    BY <1>1, <1>2, <1>3, <1>6, <1>8 DEF Drop
  <1>9. CASE Retarget(p) /\ todo' = todo \ {p}
    <2>1. Linked(p)
      BY <1>0, <1>9 DEF Retarget, Gone, Links, Linked
    <2> QED
      BY <1>1, <1>2, <1>3, <1>6, <1>9, <2>1 DEF Retarget
  <1>10. CASE Fresh(p) /\ id[p] # 0 /\ Admit(p) /\ todo' = todo \ {p}
    BY <1>1, <1>2, <1>3, <1>5, <1>10 DEF Registered
  <1>11. CASE Unchanged(p) /\ todo' = todo \ {p}
    BY <1>1, <1>2, <1>3, <1>11
  <1>12. CASE CreatedNow(p) /\ Admit(p) /\ todo' = todo \ {p}
    <2>1. p \in Registered /\ told[p] = NoUnit /\ Linked(p)
      BY <1>0, <1>12 DEF CreatedNow, Delivering
    <2> QED
      BY <1>1, <1>2, <1>3, <1>4, <1>12, <2>1 DEF Untold
  <1> QED
    BY <1>7, <1>8, <1>9, <1>10, <1>11, <1>12 DEF ScanPlate

-------------------------------------------------------------------------------
\* Every action leaves the state well typed.
LEMMA EngineType == TypeOK /\ EngineStep => TypeOK'
  <1> SUFFICES ASSUME TypeOK, EngineStep PROVE TypeOK'
    OBVIOUS
  <1> USE DEF TypeOK
  <1>0. /\ Quiet \in Events /\ event' = Quiet
        /\ UNCHANGED <<id, guid, active, entries, pending, mode, phase, todo, told>>
    BY DEF EngineStep, Quiet, Events, registry, frame
  <1>1. ASSUME NEW u \in Units, Enter(u) PROVE TypeOK'
    BY <1>0, <1>1 DEF Enter, flags
  <1>2. ASSUME NEW u \in Units, Leave(u) PROVE TypeOK'
    BY <1>0, <1>2 DEF Leave, flags
  <1>3. ASSUME NEW u \in Units, LearnName(u) PROVE TypeOK'
    BY <1>0, <1>3 DEF LearnName, flags
  <1>4. ASSUME NEW u \in Units, NEW p \in Plates, Attach(u, p) PROVE TypeOK'
    BY <1>0, <1>4 DEF Attach, flags
  <1>5. ASSUME NEW u \in Units, Detach(u) PROVE TypeOK'
    BY <1>0, <1>5 DEF Detach, flags
  <1>6. ASSUME NEW p \in Plates, Reveal(p) PROVE TypeOK'
    BY <1>0, <1>6 DEF Reveal, flags
  <1>7. ASSUME NEW P \in SUBSET Plates, NEW F, ApplyReaction(P, F)
        PROVE  friendly' \subseteq Plates /\ stacks' \subseteq Plates /\ transient' \subseteq Plates
    BY <1>7 DEF ApplyReaction, ApplyStackingState
  <1>8. ASSUME NEW u \in Units, UpdateReaction(u) PROVE TypeOK'
    <2> DEFINE F == IF u \in friends THEN friends \ {u} ELSE friends \cup {u}
               P == {p \in {plateOf[u]} \ {NoPlate} : GetEntry(p)}
    <2>1. P \in SUBSET Plates /\ F \subseteq Units
      OBVIOUS
    <2>2. ApplyReaction(P, F) /\ friends' = F /\ UNCHANGED <<shown, owner, plateOf, alive, named>>
      BY <1>8 DEF UpdateReaction
    <2> HIDE DEF F, P
    <2> QED
      BY <1>0, <1>7, <2>1, <2>2
  <1>9. ASSUME NEW F \in SUBSET Units, UpdatePlayerReaction(F) PROVE TypeOK'
    <2>1. Listed \in SUBSET Plates
      BY DEF Listed
    <2> QED
      BY <1>0, <1>7, <1>9, <2>1 DEF UpdatePlayerReaction
  <1> QED
    BY <1>1, <1>2, <1>3, <1>4, <1>5, <1>6, <1>8, <1>9 DEF EngineStep

LEMMA AddonType == TypeOK /\ AddonStep => TypeOK'
  <1> SUFFICES ASSUME TypeOK, AddonStep PROVE TypeOK'
    OBVIOUS
  <1> USE DEF TypeOK
  <1>0. UNCHANGED <<id, guid, active, entries, pending, phase, todo, event, told>>
    BY DEF AddonStep, registry, frame
  <1>1. ASSUME NEW p \in Plates, Hide(p) PROVE TypeOK'
    BY <1>0, <1>1 DEF Hide, flags
  <1>2. ASSUME NEW p \in Plates, NEW on \in BOOLEAN, SetStackingEnabled(p, on) PROVE TypeOK'
    BY <1>0, <1>2 DEF SetStackingEnabled, ApplyStackingState, engine
  <1>3. ASSUME NEW m \in Modes, NameplateStacking(m) PROVE TypeOK'
    BY <1>0, <1>3 DEF NameplateStacking, ApplyStackingState, Listed, engine
  <1> QED
    BY <1>1, <1>2, <1>3 DEF AddonStep

LEMMA ScanType == ASSUME IInv, NEW p \in Plates, ScanPlate(p) PROVE TypeOK'
  <1>0. /\ TypeOK
        /\ UNCHANGED <<shown, owner, plateOf, alive, named, friends, mode, phase>>
        /\ todo' \subseteq Plates
        /\ Quiet \in Events /\ guid[p] \in Units \cup {NoUnit}
    BY ScanCases DEF IInv, TypeOK, Quiet, Events
  <1> USE DEF TypeOK
  <1>1. CASE InitEntry(p)
    <2>1. id' \in [Plates -> 0..Cardinality(Plates)]
      <3>1. Cardinality(Registered) + 1 \in 0..Cardinality(Plates)
        BY <1>0, <1>1, NextId, RegisteredCount
      <3> QED
        BY <1>0, <1>1, <3>1 DEF InitEntry
    <2> QED
      BY <1>0, <1>1, <2>1 DEF InitEntry, Fire, flags, Events
  <1>2. CASE Drop(p)
    BY <1>0, <1>2 DEF Drop, FireRemoved, Fire, flags, Events
  <1>3. CASE Retarget(p)
    <2>1. entries' = entries
      BY <1>3 DEF Retarget, IsListed, AppendAdded
    <2> QED
      BY <1>0, <1>3, <2>1 DEF Retarget, AppendAdded, FireRemoved, Fire, flags, Events
  <1>4. CASE Admit(p) /\ Untold(p)
    <2>1. entries' \in [Plates -> {0, 1}]
      BY <1>0, <1>4 DEF Untold, Admit, AppendAdded
    <2> QED
      BY <1>0, <1>4, <2>1 DEF Admit, AppendAdded, ApplyStackingState
  <1>5. CASE Unchanged(p)
    BY <1>0, <1>5 DEF Unchanged, flags, registry
  <1> QED
    BY <1>1, <1>2, <1>3, <1>4, <1>5, ScanCases

LEMMA NextType == IInv /\ Next => TypeOK'
  <1> SUFFICES ASSUME IInv, Next PROVE TypeOK'
    OBVIOUS
  <1>0. TypeOK /\ Quiet \in Events
    BY DEF IInv, Quiet, Events
  <1>1. CASE EngineStep
    BY <1>0, <1>1, EngineType
  <1>2. CASE ClearAll
    BY <1>0, <1>2, RegisteredCount DEF ClearAll, frame, TypeOK
  <1>3. CASE AddonStep
    BY <1>0, <1>3, AddonType
  <1>4. CASE BeginFrame
    BY <1>0, <1>4 DEF BeginFrame, engine, flags, registry, TypeOK
  <1>5. ASSUME NEW p \in Plates, ScanPlate(p) PROVE TypeOK'
    BY <1>5, ScanType
  <1>6. CASE FlushRemoved
    BY <1>0, <1>6 DEF FlushRemoved, engine, flags, TypeOK
  <1>7. ASSUME NEW p \in Plates, FlushAdded(p) PROVE TypeOK'
    BY <1>0, <1>7, PlatesAssumption DEF FlushAdded, Fire, Events, engine, flags, TypeOK
  <1>8. CASE ClearPending
    BY <1>0, <1>8 DEF ClearPending, engine, flags, TypeOK
  <1> QED
    BY <1>1, <1>2, <1>3, <1>4, <1>5, <1>6, <1>7, <1>8 DEF Next, Frame

-------------------------------------------------------------------------------
\* A visit to a plate leaves the ids of the others, and what is known of them.
LEMMA NumberingScanned == ASSUME IInv, NEW p \in Plates, ScanPlate(p) PROVE Numbering'
  <1>0. TypeOK /\ Numbering
    BY DEF IInv
  <1>1. CASE InitEntry(p) /\ Untold(p)
    <2>0. UNCHANGED <<guid, told, entries, active>>
      BY <1>1 DEF InitEntry
    <2>1. Cardinality(Registered) \in Nat /\ Cardinality(Registered') = Cardinality(Registered) + 1
      BY <1>0, <1>1, RegisteredCount, NextId
    <2>2. Registered' = Registered \cup {p} /\ id'[p] = Cardinality(Registered) + 1
      BY <1>0, <1>1, NextId
    <2>3. \A q \in Registered : q # p /\ q \in Registered' /\ id'[q] = id[q]
                                /\ id[q] \in Nat /\ id[q] <= Cardinality(Registered)
      <3>1. p \notin Registered /\ \A q \in Plates \ {p} : id'[q] = id[q]
        BY <1>0, <1>1, NextId
      <3> QED
        BY <1>0, <2>2, <3>1 DEF Registered, Numbering, TypeOK
    <2>4. \A q \in Registered' : id'[q] <= Cardinality(Registered')
      BY <2>1, <2>2, <2>3
    <2>5. \A q, r \in Registered' : id'[q] = id'[r] => q = r
      BY <1>0, <2>1, <2>2, <2>3 DEF Numbering
    <2>6. \A q \in Plates \ Registered' : q \in Plates \ Registered
      BY <2>3
    <2> QED
      BY <1>0, <2>0, <2>4, <2>5, <2>6 DEF Numbering
  <1>2. CASE Drop(p)
    BY <1>0, <1>2 DEF Drop, IsListed, GetEntry, FireRemoved, Numbering, Registered, TypeOK
  <1>3. CASE Retarget(p)
    BY <1>0, <1>3 DEF Retarget, IsListed, GetEntry, FireRemoved, AppendAdded, Numbering, Registered, TypeOK
  <1>4. CASE Admit(p) /\ p \in Registered
    BY <1>0, <1>4 DEF Admit, AppendAdded, Numbering, Registered, TypeOK
  <1>5. CASE Unchanged(p)
    BY <1>0, <1>5 DEF Unchanged, registry, Numbering, Registered
  <1> QED
    BY <1>1, <1>2, <1>3, <1>4, <1>5, ScanCases

\* The ids stay distinct and count the registered plates.
LEMMA NumberingKept == IInv /\ Next => Numbering'
  <1> SUFFICES ASSUME IInv, Next PROVE Numbering'
    OBVIOUS
  <1>0. TypeOK /\ Numbering /\ InFlush
    BY DEF IInv
  <1>1. CASE EngineStep
    BY <1>0, <1>1 DEF EngineStep, registry, Numbering, Registered
  <1>2. CASE ClearAll
    BY <1>0, <1>2 DEF ClearAll, Numbering, Registered
  <1>3. CASE AddonStep
    BY <1>0, <1>3 DEF AddonStep, registry, Numbering, Registered
  <1>4. CASE BeginFrame
    BY <1>0, <1>4 DEF BeginFrame, registry, Numbering, Registered
  <1>5. ASSUME NEW p \in Plates, ScanPlate(p) PROVE Numbering'
    BY <1>0, <1>5, NumberingScanned
  <1>6. CASE FlushRemoved
    BY <1>0, <1>6 DEF FlushRemoved, Dropped, Listed, Numbering, Registered
  <1>7. ASSUME NEW p \in Plates, FlushAdded(p) PROVE Numbering'
    <2>1. p \in Registered
      BY <1>0, <1>7 DEF FlushAdded, InFlush, Numbering, Registered
    <2>2. UNCHANGED <<id, active, entries>>
      BY <1>7 DEF FlushAdded
    <2>3. \A q \in Plates \ {p} : guid'[q] = guid[q] /\ told'[q] = told[q]
      BY <1>0, <1>7 DEF FlushAdded, TypeOK
    <2> QED
      BY <1>0, <2>1, <2>2, <2>3 DEF Numbering, Registered
  <1>8. CASE ClearPending
    BY <1>0, <1>8 DEF ClearPending, Numbering, Registered
  <1> QED
    BY <1>1, <1>2, <1>3, <1>4, <1>5, <1>6, <1>7, <1>8 DEF Next, Frame

\* The engine keeps the links of its plates and units, and add-ons only hide
\* plates.
LEMMA LinksKept == IInv /\ Next => Links'
  <1> SUFFICES ASSUME IInv, Next PROVE Links'
    OBVIOUS
  <1>0. TypeOK /\ Links /\ NoPlate \notin Plates
    BY PlatesAssumption DEF IInv
  <1> USE DEF TypeOK, Links
  <1>1. ASSUME NEW u \in Units, Enter(u) PROVE Links'
    BY <1>0, <1>1 DEF Enter
  <1>2. ASSUME NEW u \in Units, Leave(u) PROVE Links'
    BY <1>0, <1>2 DEF Leave
  <1>3. ASSUME NEW u \in Units, LearnName(u) PROVE Links'
    BY <1>0, <1>3 DEF LearnName
  <1>4. ASSUME NEW u \in Units, NEW p \in Plates, Attach(u, p) PROVE Links'
    BY <1>0, <1>4 DEF Attach, Taken
  <1>5. ASSUME NEW u \in Units, Detach(u) PROVE Links'
    BY <1>0, <1>5 DEF Detach
  <1>6. ASSUME NEW p \in Plates, Reveal(p) PROVE Links'
    BY <1>0, <1>6 DEF Reveal, Taken
  <1>7. ASSUME UNCHANGED <<shown, owner, plateOf, alive>> PROVE Links'
    BY <1>0, <1>7
  <1>8. CASE ClearAll
    BY <1>0, <1>8 DEF ClearAll
  <1>9. ASSUME NEW p \in Plates, Hide(p) PROVE Links'
    BY <1>0, <1>9 DEF Hide
  <1>10. CASE EngineStep
    BY <1>1, <1>2, <1>3, <1>4, <1>5, <1>6, <1>7, <1>10
    DEF EngineStep, UpdateReaction, UpdatePlayerReaction
  <1>11. CASE AddonStep
    BY <1>7, <1>9, <1>11 DEF AddonStep, SetStackingEnabled, NameplateStacking, engine
  <1>12. CASE Frame
    BY <1>7, <1>12
    DEF Frame, BeginFrame, ScanPlate, FlushRemoved, FlushAdded, ClearPending, engine
  <1> QED
    BY <1>8, <1>10, <1>11, <1>12 DEF Next

\* A frame ends with every plate settled, and no guid on two plates.
LEMMA BetweenFramesKept == IInv /\ Next => BetweenFrames'
  <1> SUFFICES ASSUME IInv, Next PROVE BetweenFrames'
    OBVIOUS
  <1>0. TypeOK /\ BetweenFrames /\ InScan /\ InFlush
    BY DEF IInv
  <1>1. CASE EngineStep
    BY <1>0, <1>1 DEF EngineStep, registry, frame, BetweenFrames, Distinct, Settled
  <1>2. CASE ClearAll
    BY <1>0, <1>2 DEF ClearAll, frame, BetweenFrames, Distinct, Settled
  <1>3. CASE AddonStep
    BY <1>0, <1>3 DEF AddonStep, registry, frame, BetweenFrames, Distinct, Settled
  <1>4. CASE BeginFrame
    BY <1>0, <1>4 DEF BeginFrame, BetweenFrames
  <1>5. ASSUME NEW p \in Plates, ScanPlate(p) PROVE BetweenFrames'
    BY <1>0, <1>5 DEF ScanPlate, BetweenFrames
  <1>6. CASE FlushRemoved
    <2> SUFFICES ASSUME phase' = "idle"
                 PROVE  todo' = {} /\ pending' = {} /\ Distinct' /\ \A p \in Plates : Settled(p)'
      BY DEF BetweenFrames
    <2>1. /\ phase = "scan" /\ todo = {} /\ Listed \ Dropped = {}
          /\ pending' = {} /\ todo' = todo
          /\ UNCHANGED <<active, told>>
      BY <1>6 DEF FlushRemoved
    <2>2. Distinct /\ \A p \in Plates : Visited(p)
      BY <1>0, <2>1 DEF InScan
    <2>3. \A p \in Plates : p \notin active
      BY <2>1, <2>2 DEF Dropped, Listed, Visited
    <2>4. \A p \in Plates : entries'[p] = 0 /\ guid'[p] = NoUnit
      <3>1. \A p \in Plates : p \notin Listed => guid[p] = NoUnit
        BY <2>2 DEF Listed, Visited
      <3> QED
        BY <1>6, <2>1, <2>3, <3>1 DEF FlushRemoved, Dropped
    <2>5. \A p \in Plates : told'[p] = NoUnit /\ p \notin active'
      BY <2>1, <2>2, <2>3 DEF Visited
    <2> QED
      BY <2>1, <2>4, <2>5 DEF Distinct, Settled
  <1>7. ASSUME NEW p \in Plates, FlushAdded(p) PROVE BetweenFrames'
    BY <1>0, <1>7 DEF FlushAdded, BetweenFrames
  <1>8. CASE ClearPending
    <2>1. /\ phase = "flush" /\ todo = {} /\ todo' = todo /\ pending' = {}
          /\ UNCHANGED <<guid, told, entries, active>>
      BY <1>8 DEF ClearPending
    <2>2. \A p \in Plates : Settled(p) /\ (told[p] # NoUnit => told[p] = owner[p] /\ Linked(p))
      BY <1>0, <2>1 DEF InFlush
    <2>3. Distinct
      BY <2>2 DEF Distinct, Settled, Linked
    <2> QED
      BY <2>1, <2>2, <2>3 DEF BetweenFrames, Distinct, Settled
  <1> QED
    BY <1>1, <1>2, <1>3, <1>4, <1>5, <1>6, <1>7, <1>8 DEF Next, Frame

\* A visit to a plate leaves it as visited plates are, and the others alone.
LEMMA ScanVisits == ASSUME IInv, NEW p \in Plates, ScanPlate(p) PROVE InScan'
  <1>0. /\ TypeOK /\ Numbering /\ Links /\ InScan
        /\ phase = "scan" /\ p \in todo /\ Settled(p) /\ p \notin pending
        /\ UNCHANGED <<owner, plateOf, alive>> /\ todo' \subseteq todo
    BY ScanCases DEF IInv
  <1>1. Distinct'
    <2>1. guid' = guid
      BY ScanCases DEF InitEntry, Drop, Retarget, Admit, Unchanged, registry
    <2> QED
      BY <1>0, <2>1 DEF InScan, Distinct
  <1>2. ASSUME NEW q \in Plates \ {p}
        PROVE  /\ Settled(q) => Settled(q)'
               /\ Visited(q) => Visited(q)'
               /\ q \notin pending => q \notin pending'
    <2>1. /\ guid'[q] = guid[q] /\ told'[q] = told[q] /\ entries'[q] = entries[q]
          /\ q \in active' <=> q \in active
          /\ q \in pending' <=> q \in pending
      <3>1. CASE InitEntry(p)
        BY <3>1 DEF InitEntry
      <3>2. CASE Drop(p)
        BY <1>0, <3>2 DEF Drop, FireRemoved, TypeOK
      <3>3. CASE Retarget(p)
        BY <1>0, <3>3 DEF Retarget, FireRemoved, AppendAdded, TypeOK
      <3>4. CASE Admit(p)
        BY <1>0, <3>4 DEF Admit, AppendAdded, TypeOK
      <3>5. CASE Unchanged(p)
        BY <3>5 DEF Unchanged, registry
      <3> QED
        BY <3>1, <3>2, <3>3, <3>4, <3>5, ScanCases
    <2> QED
      BY <1>0, <2>1 DEF Settled, Visited, Linked
  <1>3. CASE InitEntry(p) /\ todo' = todo
    <2>1. Settled(p)' /\ p \notin pending'
      BY <1>0, <1>3 DEF InitEntry, Settled
    <2> QED
      <3>1. \A q \in todo' : Settled(q)' /\ q \notin pending'
        BY <1>0, <1>2, <1>3, <2>1 DEF InScan, TypeOK
      <3>2. \A q \in Plates \ todo' : Visited(q)'
        BY <1>0, <1>2, <1>3 DEF InScan
      <3> QED
        BY <1>1, <3>1, <3>2 DEF InScan
  <1>4. ASSUME todo' = todo \ {p}, Visited(p)' PROVE InScan'
    <2>1. \A q \in todo' : q # p /\ q \in todo /\ Settled(q)' /\ q \notin pending'
      BY <1>0, <1>2, <1>4 DEF InScan, TypeOK
    <2>2. \A q \in Plates \ todo' : Visited(q)'
      BY <1>0, <1>2, <1>4 DEF InScan
    <2> QED
      BY <1>1, <2>1, <2>2 DEF InScan
  <1>5. CASE Drop(p) /\ told[p] = guid[p] /\ guid[p] # NoUnit /\ todo' = todo \ {p}
    <2>1. Visited(p)'
      BY <1>0, <1>5 DEF Drop, FireRemoved, Visited, Settled, TypeOK
    <2> QED
      BY <1>4, <1>5, <2>1
  <1>6. CASE Retarget(p) /\ told[p] = guid[p] /\ guid[p] # NoUnit /\ Linked(p) /\ todo' = todo \ {p}
    <2>1. entries[p] = 1 /\ entries' = entries
      BY <1>0, <1>6 DEF Retarget, IsListed, AppendAdded, Settled
    <2>2. Visited(p)'
      BY <1>0, <1>6, <2>1 DEF Retarget, FireRemoved, AppendAdded, Visited, Linked, TypeOK
    <2> QED
      BY <1>4, <1>6, <2>2
  <1>7. CASE Admit(p) /\ Untold(p) /\ todo' = todo \ {p}
    <2>1. Visited(p)'
      BY <1>0, <1>7 DEF Admit, Untold, AppendAdded, Visited, Linked, TypeOK
    <2> QED
      BY <1>4, <1>7, <2>1
  <1>8. CASE Unchanged(p) /\ todo' = todo \ {p}
    <2>1. UNCHANGED <<guid, told, entries, active, pending>>
      BY <1>8 DEF Unchanged, registry
    <2>2. CASE IsListed(p)
      <3>1. ~Gone(p) /\ owner[plateOf[owner[p]]] = guid[p]
        BY <1>8, <2>2 DEF Unchanged
      <3>2. Linked(p) /\ owner[p] = guid[p]
        BY <1>0, <3>1 DEF Gone, Links, Linked
      <3> QED
        BY <1>0, <1>4, <1>8, <2>1, <2>2, <3>2 DEF IsListed, GetEntry, Settled, Visited, Linked
    <2>3. CASE ~IsListed(p)
      <3>1. p \notin active
        BY <1>0, <2>3 DEF IsListed, GetEntry, Settled, Numbering, Registered
      <3> QED
        BY <1>0, <1>4, <1>8, <2>1, <3>1 DEF Settled, Visited
    <2> QED
      BY <2>2, <2>3
  <1> QED
    BY <1>3, <1>5, <1>6, <1>7, <1>8, ScanCases

\* The add-ons' handlers leave the plates as the scan has left them.
LEMMA InScanKept == IInv /\ Next => InScan'
  <1> SUFFICES ASSUME IInv, Next PROVE InScan'
    OBVIOUS
  <1>0. BetweenFrames /\ InScan
    BY DEF IInv
  <1>1. CASE EngineStep
    BY <1>0, <1>1 DEF EngineStep, frame, InScan
  <1>2. CASE ClearAll
    BY <1>0, <1>2 DEF ClearAll, frame, InScan
  <1>3. CASE AddonStep
    <2>1. /\ UNCHANGED <<phase, todo, pending, guid, entries, active, told>>
          /\ UNCHANGED <<owner, plateOf, alive>>
      BY <1>3 DEF AddonStep, Hide, SetStackingEnabled, NameplateStacking, engine, registry, frame
    <2> QED
      BY <1>0, <2>1 DEF InScan, Distinct, Settled, Visited, Linked
  <1>4. CASE BeginFrame
    BY <1>0, <1>4 DEF BeginFrame, registry, BetweenFrames, InScan, Distinct, Settled
  <1>5. ASSUME NEW p \in Plates, ScanPlate(p) PROVE InScan'
    BY <1>0, <1>5, ScanVisits
  <1>6. CASE FlushRemoved
    BY <1>0, <1>6 DEF FlushRemoved, InScan
  <1>7. ASSUME NEW p \in Plates, FlushAdded(p) PROVE InScan'
    BY <1>0, <1>7 DEF FlushAdded, InScan
  <1>8. CASE ClearPending
    BY <1>0, <1>8 DEF ClearPending, InScan
  <1> QED
    BY <1>1, <1>2, <1>3, <1>4, <1>5, <1>6, <1>7, <1>8 DEF Next, Frame

\* What an ADDED event finds, and what it leaves.
LEMMA InFlushKept == IInv /\ Next => InFlush'
  <1> SUFFICES ASSUME IInv, Next PROVE InFlush'
    OBVIOUS
  <1>0. TypeOK /\ Links /\ InScan /\ InFlush
    BY DEF IInv
  <1>1. CASE EngineStep
    BY <1>0, <1>1 DEF EngineStep, frame, InFlush
  <1>2. CASE ClearAll
    BY <1>0, <1>2 DEF ClearAll, frame, InFlush
  <1>3. CASE AddonStep
    <2>1. /\ UNCHANGED <<phase, todo, guid, entries, active, told>>
          /\ UNCHANGED <<owner, plateOf, alive>>
      BY <1>3 DEF AddonStep, Hide, SetStackingEnabled, NameplateStacking, engine, registry, frame
    <2> QED
      BY <1>0, <2>1 DEF InFlush, Settled, Linked
  <1>4. CASE BeginFrame
    BY <1>0, <1>4 DEF BeginFrame, InFlush
  <1>5. ASSUME NEW p \in Plates, ScanPlate(p) PROVE InFlush'
    BY <1>0, <1>5 DEF ScanPlate, InFlush
  <1>6. CASE FlushRemoved
    <2> SUFFICES ASSUME phase' = "flush" PROVE InFlush'
      BY DEF InFlush
    <2>1. /\ phase = "scan" /\ todo = {} /\ todo' = pending
          /\ UNCHANGED <<owner, plateOf, alive, active, told>>
      BY <1>6 DEF FlushRemoved, engine
    <2>2. \A p \in Plates : Visited(p)
      BY <1>0, <2>1 DEF InScan
    <2>3. \A p \in Plates : p \in active => /\ entries'[p] = 1 /\ entries[p] = 1
                                             /\ guid'[p] = guid[p]
      BY <1>6, <2>2 DEF FlushRemoved, Dropped, Listed, Visited
    <2>4. \A p \in Plates : p \notin active => entries'[p] = 0 /\ guid'[p] = NoUnit
      <3>1. \A p \in Plates : p \notin Listed => guid[p] = NoUnit
        BY <2>2 DEF Listed, Visited
      <3> QED
        BY <1>6, <3>1 DEF FlushRemoved, Dropped
    <2>5. ASSUME NEW p \in todo'
          PROVE  p \in active /\ entries'[p] = 1 /\ told[p] = NoUnit /\ Linked(p)
      BY <1>0, <2>1, <2>2, <2>3, <2>5 DEF Visited, TypeOK
    <2>6. ASSUME NEW p \in Plates \ todo'
          PROVE  Settled(p)' /\ (told[p] # NoUnit => told[p] = owner[p] /\ Linked(p))
      <3>1. CASE p \in active
        <4>1. Linked(p) /\ told[p] = guid[p] /\ guid[p] = owner[p]
          BY <2>1, <2>2, <2>6, <3>1 DEF Visited
        <4>2. owner[p] # NoUnit
          BY <1>0, <4>1, PlatesAssumption DEF Linked, TypeOK
        <4> QED
          BY <2>1, <2>3, <3>1, <4>1, <4>2 DEF Settled
      <3>2. CASE p \notin active
        BY <2>1, <2>2, <2>4, <3>2 DEF Visited, Settled
      <3> QED
        BY <3>1, <3>2
    <2> QED
      BY <2>1, <2>5, <2>6 DEF InFlush, Linked
  <1>7. ASSUME NEW p \in Plates, FlushAdded(p) PROVE InFlush'
    <2>0. /\ phase = "flush" /\ p \in todo /\ todo' = todo \ {p}
          /\ UNCHANGED <<owner, plateOf, alive, active, entries>>
      BY <1>7 DEF FlushAdded, engine
    <2>1. p \in active /\ entries[p] = 1 /\ Linked(p)
      BY <1>0, <2>0 DEF InFlush
    <2>2. /\ guid' = [guid EXCEPT ![p] = owner[p]]
          /\ told' = [told EXCEPT ![p] = owner[p]]
      BY <1>7, <2>1, PlatesAssumption DEF FlushAdded, Linked
    <2>3. owner[p] # NoUnit
      BY <1>0, <2>1, PlatesAssumption DEF Linked, TypeOK
    <2>4. Settled(p)' /\ told'[p] = owner'[p] /\ Linked(p)'
      BY <1>0, <2>0, <2>1, <2>2, <2>3 DEF Settled, Linked, TypeOK
    <2>5. \A q \in Plates \ {p} : guid'[q] = guid[q] /\ told'[q] = told[q]
      BY <1>0, <2>2 DEF TypeOK
    <2> QED
      BY <1>0, <2>0, <2>4, <2>5 DEF InFlush, Settled, Linked, TypeOK
  <1>8. CASE ClearPending
    BY <1>0, <1>8 DEF ClearPending, InFlush
  <1> QED
    BY <1>1, <1>2, <1>3, <1>4, <1>5, <1>6, <1>7, <1>8 DEF Next, Frame

\* What the handlers of an event may rely on.
LEMMA DeliveringKept == IInv /\ Next => Delivering'
  <1> SUFFICES ASSUME IInv, Next PROVE Delivering'
    OBVIOUS
  <1>0. TypeOK /\ Numbering /\ InScan /\ InFlush /\ Delivering
    BY DEF IInv
  <1>1. CASE EngineStep
    BY <1>0, <1>1 DEF EngineStep, Quiet, Delivering
  <1>2. CASE ClearAll
    BY <1>0, <1>2 DEF ClearAll, Quiet, Delivering
  <1>3. CASE AddonStep
    <2>1. /\ UNCHANGED <<phase, todo, id, guid, entries, told, event>>
          /\ UNCHANGED <<owner, plateOf, alive>>
      BY <1>3 DEF AddonStep, Hide, SetStackingEnabled, NameplateStacking, engine, registry, frame
    <2> QED
      BY <1>0, <2>1 DEF Delivering, Registered, Linked
  <1>4. CASE BeginFrame
    BY <1>0, <1>4 DEF BeginFrame, Quiet, Delivering
  <1>5. ASSUME NEW p \in Plates, ScanPlate(p) PROVE Delivering'
    <2>0. /\ phase = "scan" /\ phase' = phase /\ p \in todo /\ Settled(p)
          /\ UNCHANGED <<owner, plateOf, alive>>
      BY <1>5, ScanCases
    <2>1. CASE InitEntry(p) /\ Untold(p) /\ todo' = todo
      <3>1. p \in Registered'
        BY <1>0, <2>1, NextId
      <3>2. event' = [kind |-> "CREATED", plate |-> p, unit |-> NoUnit] /\ told' = told
        BY <2>1 DEF InitEntry, Fire
      <3> QED
        BY <2>0, <2>1, <3>1, <3>2 DEF Untold, Linked, Delivering
    <2>2. CASE (Drop(p) \/ Retarget(p)) /\ told[p] = guid[p] /\ guid[p] # NoUnit /\ todo' = todo \ {p}
      <3>1. /\ event' = [kind |-> "REMOVED", plate |-> p, unit |-> guid[p]]
            /\ guid' = guid /\ entries' = entries
        BY <2>2 DEF Drop, Retarget, IsListed, FireRemoved, Fire, AppendAdded
      <3>2. entries[p] = 1
        BY <2>0, <2>2 DEF Settled
      <3> QED
        BY <2>0, <2>2, <3>1, <3>2 DEF Delivering
    <2>3. CASE Admit(p) \/ Unchanged(p)
      BY <2>3 DEF Admit, Unchanged, Quiet, Delivering
    <2> QED
      BY <1>5, <2>1, <2>2, <2>3, ScanCases
  <1>6. CASE FlushRemoved
    BY <1>0, <1>6 DEF FlushRemoved, Quiet, Delivering
  <1>7. ASSUME NEW p \in Plates, FlushAdded(p) PROVE Delivering'
    <2>0. /\ phase = "flush" /\ phase' = phase /\ p \in todo /\ todo' = todo \ {p}
          /\ id' = id /\ \A q \in todo : id[p] <= id[q]
      BY <1>7 DEF FlushAdded
    <2>1. \A q \in todo : q \in Registered /\ id[q] \in Nat
      BY <1>0, <2>0 DEF InFlush, Numbering, TypeOK
    <2>2. \A q \in todo' : id[p] < id[q]
      BY <1>0, <2>0, <2>1 DEF Numbering
    <2>3. CASE event' = Quiet
      BY <2>3 DEF Quiet, Delivering
    <2>4. Linked(p) /\ owner[p] \in Units
      BY <1>0, <2>0 DEF InFlush, Linked, TypeOK
    <2>5. /\ event' = [kind |-> "ADDED", plate |-> p, unit |-> owner[p]]
          /\ guid' = [guid EXCEPT ![p] = owner[p]]
          /\ told' = [told EXCEPT ![p] = owner[p]]
      BY <1>7, <2>4, PlatesAssumption DEF FlushAdded, Fire, Linked
    <2>6. guid'[p] = owner[p] /\ told'[p] = owner[p] /\ owner[p] # NoUnit
      BY <1>0, <2>4, <2>5, PlatesAssumption DEF TypeOK
    <2> QED
      BY <2>0, <2>2, <2>5, <2>6 DEF Delivering
  <1>8. CASE ClearPending
    BY <1>0, <1>8 DEF ClearPending, Quiet, Delivering
  <1> QED
    BY <1>1, <1>2, <1>3, <1>4, <1>5, <1>6, <1>7, <1>8 DEF Next, Frame

\* Whether a plate wants to stack depends on the side of that plate only.
LEMMA WantsLocal ==
    ASSUME NEW m \in Modes, NEW p, NEW F, NEW G, p \in F <=> p \in G
    PROVE  WantsStack(m, p, F) <=> WantsStack(m, p, G)
  <1>1. m \in {0, 1, 2, 3}
    BY PlatesAssumption
  <1> QED
    BY <1>1 DEF WantsStack, S_DISABLED, S_ALL, S_ENEMY, S_FRIENDLY

\* applyStackingState settles the plates of P and leaves the others alone.
LEMMA ApplyStacks ==
    ASSUME TypeOK, Stacking, NEW P, NEW m \in Modes, NEW F, NEW T, NEW p \in Plates,
           p \in P \/ (p \in Listed /\ m = mode /\ (p \in F <=> p \in friendly) /\ (p \in T <=> p \in transient))
    PROVE  p \in ApplyStackingState(P, m, F, T) <=> (p \notin T /\ WantsStack(m, p, F))
  <1>1. CASE p \in P
    BY <1>1 DEF ApplyStackingState
  <1>2. CASE p \notin P
    <2>1. WantsStack(m, p, F) <=> WantsStack(m, p, friendly)
      BY <1>2, WantsLocal
    <2>2. p \in stacks <=> (p \notin transient /\ WantsStack(mode, p, friendly))
      BY <1>2 DEF Stacking
    <2> QED
      BY <1>2, <2>1, <2>2 DEF ApplyStackingState
  <1> QED
    BY <1>1, <1>2

\* So a handler that calls it for P leaves every listed plate as asked.
LEMMA StackingApplied ==
    ASSUME TypeOK, TypeOK', Stacking, NEW P,
           stacks' = ApplyStackingState(P, mode', friendly', transient'),
           \A p \in Plates \ P :
               /\ entries'[p] # 0 => entries[p] # 0 /\ mode' = mode
               /\ p \in friendly' <=> p \in friendly
               /\ p \in transient' <=> p \in transient
    PROVE  Stacking'
  <1> SUFFICES ASSUME NEW p \in Plates, entries'[p] # 0
               PROVE  p \in stacks' <=> (p \notin transient' /\ WantsStack(mode', p, friendly'))
    BY DEF Stacking, Listed
  <1>1. p \in P \/ (p \in Listed /\ mode' = mode /\ (p \in friendly' <=> p \in friendly)
                                /\ (p \in transient' <=> p \in transient))
    BY DEF Listed
  <1>2. mode' \in Modes
    BY DEF TypeOK
  <1> QED
    BY <1>1, <1>2, ApplyStacks

\* Whoever ran last, a listed plate stacks as it was asked to.
LEMMA StackingKept == IInv /\ Next => Stacking'
  <1> SUFFICES ASSUME IInv, Next PROVE Stacking'
    OBVIOUS
  <1>0. TypeOK /\ TypeOK' /\ Stacking
    BY NextType DEF IInv
  <1>1. ASSUME UNCHANGED <<flags, mode>>, \A p \in Plates : entries'[p] # 0 => entries[p] # 0
        PROVE  Stacking'
    BY <1>0, <1>1 DEF flags, Stacking, Listed
  <1>2. ASSUME NEW P, NEW F, ApplyReaction(P, F), UNCHANGED <<entries, mode>> PROVE Stacking'
    <2>1. \A p \in Plates \ P : (p \in friendly' <=> p \in friendly)
      BY <1>2 DEF ApplyReaction
    <2>2. PICK Q \in SUBSET P : stacks' = ApplyStackingState(Q, mode', friendly', transient')
                                /\ \A p \in Plates \ Q : (p \in friendly' <=> p \in friendly)
      BY <1>2 DEF ApplyReaction
    <2>3. UNCHANGED <<entries, mode, transient>>
      BY <1>2 DEF ApplyReaction
    <2> QED
      BY <1>0, <2>2, <2>3, StackingApplied
  <1>3. CASE EngineStep
    <2>1. UNCHANGED <<entries, mode>>
      BY <1>3 DEF EngineStep, registry
    <2>2. CASE UNCHANGED flags
      BY <1>1, <2>1, <2>2
    <2>3. ASSUME NEW u \in Units, UpdateReaction(u) PROVE Stacking'
      BY <1>2, <2>1, <2>3 DEF UpdateReaction
    <2>4. ASSUME NEW F \in SUBSET Units, UpdatePlayerReaction(F) PROVE Stacking'
      BY <1>2, <2>1, <2>4 DEF UpdatePlayerReaction
    <2> QED
      BY <1>3, <2>2, <2>3, <2>4 DEF EngineStep, Enter, Leave, LearnName, Attach, Detach, Reveal
  <1>4. CASE ClearAll
    BY <1>4 DEF ClearAll, Stacking, Listed
  <1>5. ASSUME NEW p \in Plates, Hide(p), UNCHANGED entries PROVE Stacking'
    BY <1>1, <1>5 DEF Hide
  <1>6. ASSUME NEW p \in Plates, NEW on \in BOOLEAN, SetStackingEnabled(p, on), UNCHANGED entries
        PROVE  Stacking'
    <2>1. /\ UNCHANGED <<friendly, mode, entries>>
          /\ stacks' = ApplyStackingState({p}, mode', friendly', transient')
          /\ \A q \in Plates \ {p} : (q \in transient' <=> q \in transient)
      BY <1>6 DEF SetStackingEnabled
    <2> QED
      BY <1>0, <2>1, StackingApplied
  <1>7. ASSUME NEW m \in Modes, NameplateStacking(m), UNCHANGED entries PROVE Stacking'
    <2>1. /\ UNCHANGED <<friendly, transient, entries>>
          /\ stacks' = ApplyStackingState(Listed, mode', friendly', transient')
      BY <1>7 DEF NameplateStacking
    <2>2. \A p \in Plates \ Listed : ~(entries'[p] # 0)
      BY <2>1 DEF Listed
    <2> QED
      BY <1>0, <2>1, <2>2, StackingApplied
  <1>8. CASE AddonStep
    BY <1>5, <1>6, <1>7, <1>8 DEF AddonStep, registry
  <1>9. CASE BeginFrame
    BY <1>1, <1>9 DEF BeginFrame, registry
  <1>10. ASSUME NEW p \in Plates, ScanPlate(p) PROVE Stacking'
    <2>0. mode' = mode
      BY <1>10, ScanCases
    <2>1. CASE InitEntry(p) \/ Drop(p) \/ Unchanged(p)
      BY <1>1, <2>0, <2>1 DEF InitEntry, Drop, Unchanged, registry
    <2>2. CASE Retarget(p)
      <3>1. entries' = entries
        BY <2>2 DEF Retarget, IsListed, AppendAdded
      <3> QED
        BY <1>1, <2>0, <2>2, <3>1 DEF Retarget
    <2>3. CASE Admit(p)
      <3>1. stacks' = ApplyStackingState({p}, mode', friendly', transient')
        BY <2>0, <2>3 DEF Admit
      <3>2. ASSUME NEW q \in Plates \ {p}
            PROVE  /\ entries'[q] # 0 => entries[q] # 0 /\ mode' = mode
                   /\ q \in friendly' <=> q \in friendly
                   /\ q \in transient' <=> q \in transient
        <4>1. entries'[q] = entries[q]
          BY <1>0, <2>3 DEF Admit, AppendAdded, TypeOK
        <4>2. (q \in friendly' <=> q \in friendly) /\ (q \in transient' <=> q \in transient)
          BY <2>3 DEF Admit
        <4> QED
          BY <2>0, <4>1, <4>2
      <3> QED
        BY <1>0, <3>1, <3>2, StackingApplied
    <2> QED
      BY <1>10, <2>1, <2>2, <2>3, ScanCases
  <1>11. CASE FlushRemoved
    BY <1>1, <1>11 DEF FlushRemoved
  <1>12. ASSUME NEW p \in Plates, FlushAdded(p) PROVE Stacking'
    BY <1>1, <1>12 DEF FlushAdded
  <1>13. CASE ClearPending
    BY <1>1, <1>13 DEF ClearPending
  <1> QED
    BY <1>3, <1>4, <1>8, <1>9, <1>10, <1>11, <1>12, <1>13 DEF Next, Frame

-------------------------------------------------------------------------------
\* The inductive invariant holds of every behaviour, whatever the pool and the
\* units: what the registry and the flags are between frames, what a frame
\* has done so far, and what an event's handlers find (src/AwesomeWotlkLib/
\* NamePlates.cpp, CGWorldFrame__UpdateNamePlatePositionsHk with initEntry,
\* flushRemoved and flushAdded).
THEOREM Invariance == Spec => []IInv
  <1>1. IInv /\ [Next]_vars => IInv'
    <2> SUFFICES ASSUME IInv, [Next]_vars PROVE IInv'
      OBVIOUS
    <2>1. CASE Next
      BY <2>1, NextType, NumberingKept, LinksKept, BetweenFramesKept, InScanKept,
         InFlushKept, DeliveringKept, StackingKept DEF IInv
    <2>2. CASE UNCHANGED vars
      BY <2>2 DEF vars, engine, flags, registry, frame, IInv, TypeOK, Numbering, Registered,
                  Links, BetweenFrames, Distinct, Settled, InScan, Visited, Linked, InFlush,
                  Delivering, Stacking, Listed
    <2> QED
      BY <2>1, <2>2
  <1> QED
    BY <1>1, InitHolds, PTL DEF Spec

\* The state is well typed: an entry is in `entries' once at most, and no id
\* exceeds the size of the pool.
THEOREM TypeCorrect == Spec => []TypeOK
  BY Invariance, PTL DEF IInv

-------------------------------------------------------------------------------
\* Ids are distinct, so the first of some registered plates is the one whose id
\* is not above the others'.
LEMMA FirstIs ==
    ASSUME TypeOK, Numbering, NEW S \in SUBSET Registered, NEW p \in S,
           \A q \in S : id[p] <= id[q]
    PROVE  First(S) = p
  <1>1. \A q \in S : q \in Registered /\ id[q] \in Nat
    BY DEF Registered, TypeOK
  <1>2. \A q \in S : (\A r \in S : id[q] <= id[r]) => q = p
    BY <1>1 DEF Numbering
  <1> QED
    BY <1>2 DEF First

\* A plate's token stands for the guid of its entry.
LEMMA TokenOf ==
    ASSUME TypeOK, Numbering, NEW p \in Registered
    PROVE  GetGuidByKeyword(id[p]) = guid[p]
  <1> DEFINE Nth == {q \in Registered : id[q] = id[p]}
  <1>1. p \in Plates /\ id[p] \in Nat /\ id[p] > 0
    BY DEF Registered, TypeOK
  <1>2. Nth = {p}
    BY DEF Numbering
  <1>3. First({p}) = p
    BY <1>1, FirstIs
  <1>4. GetTokenGuid(id[p]) = guid[p]
    BY <1>2, <1>3 DEF GetTokenGuid
  <1> QED
    BY <1>1, <1>4 DEF GetGuidByKeyword

\* A unit whose guid one entry has is found there and nowhere else.
LEMMA HolderFound ==
    ASSUME TypeOK, Numbering, NEW u \in Units, NEW p \in Registered,
           guid[p] = u, \A q \in Registered : guid[q] = u => q = p
    PROVE  /\ GetNameplateByGuid(u) = p
           /\ GetKeywordsByGuid(u) = {id[p]}
           /\ GetNamePlateTokenByGUID(u) = id[p]
  <1>1. {q \in Registered : guid[q] = u} = {p}
    OBVIOUS
  <1>2. First({p}) = p
    BY FirstIs DEF Registered, TypeOK
  <1>3. GetTokenId(u) = p
    BY <1>1, <1>2 DEF GetTokenId
  <1>4. {q \in Registered : guid[q] = u /\ q = GetTokenId(u)} = {p}
    BY <1>1, <1>3
  <1>5. GetKeywordsByGuid(u) = {id[p]}
    BY <1>4 DEF GetKeywordsByGuid
  <1>6. GetNamePlateTokenByGUID(u) = id[p]
    BY <1>1, <1>2, PlatesAssumption DEF GetNamePlateTokenByGUID
  <1> QED
    BY <1>3, <1>5, <1>6 DEF GetNameplateByGuid

\* A unit whose guid no entry has is not found.
LEMMA NoHolderFound ==
    ASSUME NEW u \in Units, \A q \in Registered : guid[q] # u
    PROVE  /\ GetNameplateByGuid(u) = NoPlate
           /\ GetKeywordsByGuid(u) = {}
           /\ GetNamePlateTokenByGUID(u) = 0
  BY DEF GetNameplateByGuid, GetKeywordsByGuid, GetNamePlateTokenByGUID

\* Between frames the look-ups and the list say what add-ons were told, each
\* plate once and each unit on one plate (C_NamePlate.GetNamePlates,
\* GetNamePlateByGUID, GetNamePlateTokenByGUID and the nameplate keywords in
\* src/AwesomeWotlkLib/NamePlates.cpp).
THEOREM ListedAsTold == Spec => []ListsWhatWasTold
  <1>1. IInv => ListsWhatWasTold
    <2> SUFFICES ASSUME IInv, phase = "idle" PROVE ListsWhatWasTold
      BY DEF ListsWhatWasTold
    <2>0. TypeOK /\ Numbering /\ Distinct /\ \A p \in Plates : Settled(p)
      BY DEF IInv, BetweenFrames
    <2>1. GetNamePlates = {p \in Plates : told[p] # NoUnit}
      BY <2>0 DEF GetNamePlates, Listed, Settled, TypeOK
    <2>2. \A p \in GetNamePlates : entries[p] = 1
      BY <2>0 DEF GetNamePlates, Listed, TypeOK
    <2>3. ASSUME NEW p \in Registered PROVE GetGuidByKeyword(id[p]) = told[p]
      BY <2>0, TokenOf DEF Registered, Settled
    <2>4. ASSUME NEW u \in Units
          PROVE  /\ {p \in Plates : told[p] = u} = {GetNameplateByGuid(u)} \ {NoPlate}
                 /\ GetKeywordsByGuid(u) = {id[p] : p \in {q \in Plates : told[q] = u}}
                 /\ GetKeywordsByGuid(u) = {GetNamePlateTokenByGUID(u)} \ {0}
      <3>0. u # NoUnit /\ \A p \in Plates : told[p] = u <=> guid[p] = u
        BY <2>0, PlatesAssumption DEF Settled
      <3>1. \A p \in Plates : guid[p] = u => p \in Registered
        BY <2>0, <3>0 DEF Numbering
      <3>2. CASE \A p \in Registered : guid[p] # u
        <4>1. {p \in Plates : told[p] = u} = {}
          BY <3>0, <3>1, <3>2
        <4>2. /\ GetNameplateByGuid(u) = NoPlate
              /\ GetKeywordsByGuid(u) = {}
              /\ GetNamePlateTokenByGUID(u) = 0
          BY <3>2, NoHolderFound
        <4> QED
          BY <4>1, <4>2
      <3>3. ASSUME NEW p \in Registered, guid[p] = u PROVE
                 /\ {q \in Plates : told[q] = u} = {GetNameplateByGuid(u)} \ {NoPlate}
                 /\ GetKeywordsByGuid(u) = {id[q] : q \in {r \in Plates : told[r] = u}}
                 /\ GetKeywordsByGuid(u) = {GetNamePlateTokenByGUID(u)} \ {0}
        <4>1. p \in Plates /\ p # NoPlate /\ id[p] # 0
          BY PlatesAssumption DEF Registered
        <4>2. \A q \in Plates : guid[q] = u => q = p
          BY <2>0, <3>0, <3>3, <4>1 DEF Distinct
        <4>3. {q \in Plates : told[q] = u} = {p}
          BY <3>0, <3>3, <4>1, <4>2
        <4>4. \A q \in Registered : guid[q] = u => q = p
          BY <4>2 DEF Registered
        <4>5. /\ GetNameplateByGuid(u) = p
              /\ GetKeywordsByGuid(u) = {id[p]}
              /\ GetNamePlateTokenByGUID(u) = id[p]
          BY <2>0, <3>3, <4>4, HolderFound
        <4> QED
          BY <4>1, <4>3, <4>5
      <3> QED
        BY <3>2, <3>3
    <2> QED
      BY <2>1, <2>2, <2>3, <2>4 DEF ListsWhatWasTold
  <1> QED
    BY <1>1, Invariance, PTL

\* While the scan runs, a plate that add-ons were told of and not yet told to
\* forget is listed with the unit they were told; so is the plate of the
\* REMOVED event being handled (flushRemoved erases the entry afterwards).
THEOREM RemovedResolved == Spec => []RemovedStillResolves
  <1>1. IInv => RemovedStillResolves
    <2> SUFFICES ASSUME IInv PROVE RemovedStillResolves
      OBVIOUS
    <2>0. TypeOK /\ Numbering /\ InScan /\ Delivering
      BY DEF IInv
    <2>1. ASSUME event.kind = "REMOVED"
          PROVE  entries[event.plate] = 1 /\ GetGuidByKeyword(id[event.plate]) = event.unit
      <3>1. /\ event.plate \in Plates /\ entries[event.plate] = 1
            /\ guid[event.plate] = event.unit /\ guid[event.plate] # NoUnit
        BY <2>0, <2>1 DEF Delivering
      <3>2. event.plate \in Registered
        BY <2>0, <3>1 DEF Numbering
      <3> QED
        BY <2>0, <3>1, <3>2, TokenOf
    <2>2. ASSUME phase = "scan", NEW p \in Plates, told[p] # NoUnit
          PROVE  entries[p] = 1 /\ guid[p] = told[p]
      <3>1. CASE p \in todo
        BY <2>0, <2>2, <3>1 DEF InScan, Settled
      <3>2. CASE p \notin todo
        BY <2>0, <2>2, <3>2 DEF InScan, Visited
      <3> QED
        BY <3>1, <3>2
    <2> QED
      BY <2>1, <2>2 DEF RemovedStillResolves
  <1> QED
    BY <1>1, Invariance, PTL

\* While an ADDED event is handled, the look-up by the unit's guid finds its
\* plate: plates later in the flush may still carry that guid, but flushAdded
\* goes by id and the look-up takes the first (NamePlates.cpp, the sort in
\* flushAdded).
THEOREM AddedResolved == Spec => []AddedResolves
  <1>1. IInv => AddedResolves
    <2> SUFFICES ASSUME IInv, event.kind = "ADDED"
                 PROVE  /\ GetGuidByKeyword(id[event.plate]) = event.unit
                        /\ GetNameplateByGuid(event.unit) = event.plate
      BY DEF AddedResolves
    <2> DEFINE p == event.plate
               u == event.unit
               S == {q \in Registered : guid[q] = u}
    <2>0. TypeOK /\ Numbering /\ InFlush /\ Delivering
      BY DEF IInv
    <2>1. /\ phase = "flush" /\ p \in Plates \ todo
          /\ guid[p] = u /\ told[p] = u /\ u # NoUnit
          /\ \A q \in todo : id[p] < id[q]
      BY <2>0 DEF Delivering
    <2>2. p \in Registered /\ p \in S
      BY <2>0, <2>1 DEF Numbering
    <2>3. owner[p] = u /\ Linked(p)
      BY <2>0, <2>1 DEF InFlush
    <2>4. ASSUME NEW q \in S PROVE id[p] <= id[q]
      <3>1. q \in Plates /\ id[p] \in Nat /\ id[q] \in Nat
        BY <2>0, <2>1 DEF Registered, TypeOK
      <3>2. CASE q \in todo
        BY <2>1, <3>1, <3>2
      <3>3. CASE q \notin todo
        <4>1. owner[q] = u /\ Linked(q)
          BY <2>0, <2>1, <3>1, <3>3 DEF InFlush, Settled
        <4> QED
          BY <2>3, <3>1, <4>1 DEF Linked
      <3> QED
        BY <3>2, <3>3
    <2>5. First(S) = p
      BY <2>0, <2>2, <2>4, FirstIs
    <2>6. GetNameplateByGuid(u) = p
      BY <2>2, <2>5 DEF GetNameplateByGuid, GetTokenId
    <2> QED
      BY <2>0, <2>1, <2>2, <2>6, TokenOf
  <1> QED
    BY <1>1, Invariance, PTL

\* Between frames every listed plate stacks as the CVar, the override and the
\* recorded reaction ask (applyStackingState and its callers).
THEOREM StackedAsAsked == Spec => []StacksAsAsked
  <1>1. IInv => StacksAsAsked
    BY DEF IInv, Stacking, StacksAsAsked
  <1> QED
    BY <1>1, Invariance, PTL

\* No plate is ADDED twice without a REMOVED between, nor REMOVED for a unit
\* that was not ADDED: across frames, and across units that share a plate.
THEOREM EventsInTurn == Spec => EventsAlternate
  <1> DEFINE InTurn == /\ event'.kind = "ADDED" => told[event'.plate] = NoUnit
                       /\ event'.kind = "REMOVED" =>
                             event'.unit # NoUnit /\ told[event'.plate] = event'.unit
  <1>1. ASSUME IInv, NEW p \in Plates, ScanPlate(p) PROVE InTurn
    <2>1. CASE InitEntry(p)
      BY <2>1 DEF InitEntry, Fire
    <2>2. CASE (Drop(p) \/ Retarget(p)) /\ told[p] = guid[p] /\ guid[p] # NoUnit
      <3>1. event' = [kind |-> "REMOVED", plate |-> p, unit |-> guid[p]]
        BY <2>2 DEF Drop, Retarget, FireRemoved, Fire
      <3> QED
        BY <2>2, <3>1
    <2>3. CASE Admit(p) \/ Unchanged(p)
      BY <2>3 DEF Admit, Unchanged, Quiet
    <2> QED
      BY <1>1, <2>1, <2>2, <2>3, ScanCases
  <1>2. ASSUME IInv, NEW p \in Plates, FlushAdded(p) PROVE InTurn
    <2>1. told[p] = NoUnit
      BY <1>2 DEF IInv, InFlush, FlushAdded
    <2>2. event' = Quiet \/ (event'.kind = "ADDED" /\ event'.plate = p)
      BY <1>2 DEF FlushAdded, Fire
    <2> QED
      BY <2>1, <2>2 DEF Quiet
  <1>3. IInv => [(\E p \in Plates : ScanPlate(p) \/ FlushAdded(p)) => InTurn]_vars
    BY <1>1, <1>2
  <1> QED
    BY <1>3, Invariance, PTL DEF EventsAlternate
===============================================================================
