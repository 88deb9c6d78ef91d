------------------------------ MODULE NamePlates ------------------------------
(***************************************************************************)
(* The nameplate registry g_entries (EntryManager) and the per-frame hook  *)
(* that keeps it in step with the plates the engine shows: which plates    *)
(* add-ons have been told about by NAME_PLATE_UNIT_ADDED and _REMOVED,     *)
(* which GUID a "nameplateN" token stands for, and which plates take part  *)
(* in stacking.                                                            *)
(*                                                                         *)
(* One thread runs everything, so the engine moves only between frames;    *)
(* inside a frame the add-ons' event handlers run between two plates, and  *)
(* may hide plates, override stacking or change the CVar.  The floating-   *)
(* point layout (pairs, momentum, visual offsets, alpha) is left out.      *)
(***************************************************************************)
EXTENDS Naturals, FiniteSets

CONSTANTS Plates, NoPlate,   \* CGNamePlate objects of the engine's pool
          Units, NoUnit,     \* guids; NoUnit is guid 0
          Modes              \* the values nameplateStacking is set to

S_DISABLED == 0   \* std::abs(g_stackingMode): the sign only asks for the
S_ALL == 1        \* "smart" layout
S_ENEMY == 2
S_FRIENDLY == 3

ASSUME PlatesAssumption ==
    /\ IsFiniteSet(Plates)
    /\ NoPlate \notin Plates
    /\ NoUnit \notin Units
    /\ Modes \subseteq 0..3
    /\ S_DISABLED \in Modes

VARIABLES shown,      \* plates with m_isShown
          owner,      \* m_ownerGuid of a plate
          plateOf,    \* m_nameplate of a unit
          alive,      \* units the object manager has
          named,      \* units whose name the client has received
          friends,    \* units with IsFriendly()
          id,         \* the order a plate entered byId in, 0 before
          guid,       \* Entry::guid
          active,     \* IS_ACTIVE
          friendly,   \* IS_FRIENDLY
          transient,  \* IS_TRANSIENT: SetStackingEnabled(false)
          stacks,     \* SHOULD_STACK
          entries,    \* how often `entries' holds a plate
          pending,    \* plates whose ADDED event is due
          mode,       \* g_stackingMode
          phase,      \* "idle" between frames, "scan" or "flush" in one
          todo,       \* the plates the loop has still to visit
          event,      \* the event being delivered
          told        \* history: the unit add-ons were last told of

engine == <<shown, owner, plateOf, alive, named, friends>>
flags == <<friendly, transient, stacks>>
registry == <<id, guid, active, entries, pending>>
frame == <<phase, todo>>
vars == <<engine, flags, registry, mode, frame, event, told>>

Quiet == [kind |-> "none", plate |-> NoPlate, unit |-> NoUnit]
Events == [kind : {"none", "CREATED", "ADDED", "REMOVED"},
           plate : Plates \cup {NoPlate}, unit : Units \cup {NoUnit}]

TypeOK ==
    /\ shown \subseteq Plates
    /\ owner \in [Plates -> Units \cup {NoUnit}]
    /\ plateOf \in [Units -> Plates \cup {NoPlate}]
    /\ alive \subseteq Units
    /\ named \subseteq Units
    /\ friends \subseteq Units
    /\ id \in [Plates -> 0..Cardinality(Plates)]
    /\ guid \in [Plates -> Units \cup {NoUnit}]
    /\ active \subseteq Plates
    /\ friendly \subseteq Plates
    /\ transient \subseteq Plates
    /\ stacks \subseteq Plates
    /\ entries \in [Plates -> {0, 1}]
    /\ pending \subseteq Plates
    /\ mode \in Modes
    /\ phase \in {"idle", "scan", "flush"}
    /\ todo \subseteq Plates
    /\ event \in Events
    /\ told \in [Plates -> Units \cup {NoUnit}]

Init ==
    /\ shown = {}
    /\ owner = [p \in Plates |-> NoUnit]
    /\ plateOf = [u \in Units |-> NoPlate]
    /\ alive = {} /\ named = {} /\ friends \in SUBSET Units
    /\ id = [p \in Plates |-> 0]
    /\ guid = [p \in Plates |-> NoUnit]
    /\ active = {} /\ friendly = {} /\ transient = {} /\ stacks = {}
    /\ entries = [p \in Plates |-> 0]
    /\ pending = {}
    /\ mode = S_DISABLED
    /\ phase = "idle" /\ todo = {}
    /\ event = Quiet
    /\ told = [p \in Plates |-> NoUnit]

-------------------------------------------------------------------------------
\* The registry's look-ups.

Registered == {p \in Plates : id[p] # 0}
Listed == {p \in Plates : entries[p] # 0}
Taken == {plateOf[u] : u \in Units}

GetEntry(p) == id[p] # 0 /\ guid[p] # NoUnit

First(S) == CHOOSE p \in S : \A q \in S : id[p] <= id[q]

GetTokenId(u) == First({p \in Registered : guid[p] = u})

\* The "nameplateN" token of the plate that is Nth in byId.
GetTokenGuid(n) ==
    LET Nth == {p \in Registered : id[p] = n}
    IN  IF Nth = {} THEN NoUnit ELSE guid[First(Nth)]

GetGuidByKeyword(n) == IF n > 0 THEN GetTokenGuid(n) ELSE NoUnit

GetKeywordsByGuid(u) ==
    {id[p] : p \in {q \in Registered : guid[q] = u /\ q = GetTokenId(u)}}

\* C_NamePlate: GetNamePlates, and GetNamePlateByGUID or -ForUnit.
GetNamePlates == Listed

GetNameplateByGuid(u) ==
    IF \E p \in Registered : guid[p] = u THEN GetTokenId(u) ELSE NoPlate

\* The number in the token getToken finds for a guid; 0 is the token "none".
GetNamePlateTokenByGUID(u) ==
    LET Holders == {p \in Registered : guid[p] = u}
    IN  IF u = NoUnit \/ Holders = {} THEN 0 ELSE id[First(Holders)]

WantsStack(m, p, F) ==
    CASE m = S_DISABLED -> FALSE
      [] m = S_ALL      -> TRUE
      [] m = S_ENEMY    -> p \notin F
      [] m = S_FRIENDLY -> p \in F

\* stacks after applyStackingState on the entries of P, whose other flags
\* are then F (friendly) and T (transient).
ApplyStackingState(P, m, F, T) ==
    (stacks \ P) \cup {p \in P : p \notin T /\ WantsStack(m, p, F)}

\* CGUnit_C__UpdateReactionHk on the entries of P, once friends is F:
\* applyReaction leaves an entry alone whose unit is gone.
ApplyReaction(P, F) ==
    LET Known == {p \in P : owner[p] \in alive}
    IN  /\ friendly' = (friendly \ Known) \cup {p \in Known : owner[p] \in F}
        /\ stacks' = ApplyStackingState(Known, mode, friendly', transient)
        /\ UNCHANGED transient

-------------------------------------------------------------------------------
(***************************************************************************)
(* The engine, between frames.  A unit that leaves may leave its plate     *)
(* shown; a plate whose unit keeps living is hidden with the link.  The    *)
(* object manager does not get a unit back while a plate still shows for   *)
(* it (with such a plate the ADDED event would be skipped at m_nameplate   *)
(* and the entry listed without a guid).                                   *)
(***************************************************************************)
Enter(u) ==
    /\ u \notin alive
    /\ \A p \in shown : owner[p] # u
    /\ alive' = alive \cup {u}
    /\ UNCHANGED <<shown, owner, plateOf, named, friends, flags>>

Leave(u) ==
    /\ u \in alive
    /\ alive' = alive \ {u}
    /\ plateOf' = [plateOf EXCEPT ![u] = NoPlate]
    /\ shown' \in {shown, shown \ {plateOf[u]}}
    /\ UNCHANGED <<owner, named, friends, flags>>

LearnName(u) ==
    /\ u \in alive \ named
    /\ named' = named \cup {u}
    /\ UNCHANGED <<shown, owner, plateOf, alive, friends, flags>>

\* A plate of the pool is given to a unit: a new one, one hidden for some
\* time, or one that served another unit a moment ago.
Attach(u, p) ==
    /\ u \in alive /\ plateOf[u] = NoPlate
    /\ p \notin Taken
    /\ plateOf' = [plateOf EXCEPT ![u] = p]
    /\ owner' = [owner EXCEPT ![p] = u]
    /\ shown' = shown \cup {p}
    /\ UNCHANGED <<alive, named, friends, flags>>

Detach(u) ==
    /\ u \in alive /\ plateOf[u] # NoPlate
    /\ shown' = shown \ {plateOf[u]}
    /\ plateOf' = [plateOf EXCEPT ![u] = NoPlate]
    /\ UNCHANGED <<owner, alive, named, friends, flags>>

\* The engine shows again a plate that an add-on has hidden.
Reveal(p) ==
    /\ p \in Taken \ shown
    /\ shown' = shown \cup {p}
    /\ UNCHANGED <<owner, plateOf, alive, named, friends, flags>>

UpdateReaction(u) ==
    LET F == IF u \in friends THEN friends \ {u} ELSE friends \cup {u}
    IN  /\ u \in alive
        /\ friends' = F
        /\ ApplyReaction({p \in {plateOf[u]} \ {NoPlate} : GetEntry(p)}, F)
        /\ UNCHANGED <<shown, owner, plateOf, alive, named>>

\* The player's own reaction decides everybody's.
UpdatePlayerReaction(F) ==
    /\ F # friends
    /\ friends' = F
    /\ ApplyReaction(Listed, F)
    /\ UNCHANGED <<shown, owner, plateOf, alive, named>>

EngineStep ==
    /\ phase = "idle"
    /\ \/ \E u \in Units : Enter(u)
       \/ \E u \in Units : Leave(u)
       \/ \E u \in Units : LearnName(u)
       \/ \E u \in Units, p \in Plates : Attach(u, p)
       \/ \E u \in Units : Detach(u)
       \/ \E p \in Plates : Reveal(p)
       \/ \E u \in Units : UpdateReaction(u)
       \/ \E F \in SUBSET Units : UpdatePlayerReaction(F)
    /\ event' = Quiet
    /\ UNCHANGED <<registry, mode, frame, told>>

\* The UI is reloaded: clearAll, then the pool and the add-ons start afresh.
ClearAll ==
    /\ phase = "idle"
    /\ shown' = {}
    /\ plateOf' = [u \in Units |-> NoPlate]
    /\ owner' = [p \in Plates |-> NoUnit]
    /\ id' = [p \in Plates |-> 0]
    /\ guid' = [p \in Plates |-> NoUnit]
    /\ active' = {} /\ friendly' = {} /\ transient' = {} /\ stacks' = {}
    /\ entries' = [p \in Plates |-> 0]
    /\ pending' = {}
    /\ told' = [p \in Plates |-> NoUnit]
    /\ event' = Quiet
    /\ UNCHANGED <<alive, named, friends, mode, frame>>

-------------------------------------------------------------------------------
(***************************************************************************)
(* What an add-on may do, between frames or while an event is delivered.   *)
(***************************************************************************)
Hide(p) ==
    /\ p \in shown
    /\ shown' = shown \ {p}
    /\ UNCHANGED <<owner, plateOf, alive, named, friends, flags, mode>>

SetStackingEnabledOnly(p, enabled) ==   \* mutant: applyStackingState is not called
    /\ p \in Registered
    /\ transient' = IF enabled THEN transient \ {p} ELSE transient \cup {p}
    /\ UNCHANGED <<engine, friendly, stacks, mode>>

SetStackingEnabled(p, enabled) ==
    /\ p \in Registered
    /\ transient' = IF enabled THEN transient \ {p} ELSE transient \cup {p}
    /\ stacks' = ApplyStackingState({p}, mode, friendly, transient')
    /\ UNCHANGED <<engine, friendly, mode>>

NameplateStacking(m) ==
    /\ mode' = m
    /\ stacks' = ApplyStackingState(Listed, m, friendly, transient)
    /\ UNCHANGED <<engine, friendly, transient>>

AddonStep ==
    /\ phase = "idle" \/ event # Quiet
    /\ \/ \E p \in Plates : Hide(p)
       \/ \E p \in Plates, on \in BOOLEAN : SetStackingEnabled(p, on)
       \/ \E m \in Modes : NameplateStacking(m)
    /\ UNCHANGED <<registry, frame, event, told>>

-------------------------------------------------------------------------------
(***************************************************************************)
(* One frame: CGWorldFrame__UpdateNamePlatePositionsHk.  The scan visits   *)
(* the world frame's children in the order the engine keeps them in.       *)
(***************************************************************************)
Fire(kind, p, u) == event' = [kind |-> kind, plate |-> p, unit |-> u]

BeginFrame ==
    /\ phase = "idle"
    /\ phase' = "scan" /\ todo' = Plates
    /\ event' = Quiet
    /\ UNCHANGED <<engine, flags, registry, mode, told>>

IsListed(p) == GetEntry(p) /\ p \in active

FireRemoved(p) ==
    /\ Fire("REMOVED", p, guid[p])
    /\ told' = [told EXCEPT ![p] = NoUnit]

\* The plate is hidden, or its unit is gone.
Gone(p) == p \notin shown \/ owner[p] \notin alive \/ plateOf[owner[p]] = NoPlate

DropAtOnce(p) ==   \* mutant: the entry is erased before its handlers run
    /\ IsListed(p) /\ Gone(p)
    /\ FireRemoved(p)
    /\ active' = active \ {p}
    /\ guid' = [guid EXCEPT ![p] = NoUnit]
    /\ entries' = [entries EXCEPT ![p] = 0]
    /\ UNCHANGED <<id, pending, flags>>

DropKeepsActive(p) ==   \* mutant: IS_ACTIVE is not cleared
    /\ IsListed(p) /\ Gone(p)
    /\ FireRemoved(p)
    /\ UNCHANGED <<registry, flags>>

Drop(p) ==
    /\ IsListed(p) /\ Gone(p)
    /\ FireRemoved(p)
    /\ active' = active \ {p}
    /\ UNCHANGED <<id, guid, entries, pending, flags>>

RetargetSilently(p) ==   \* mutant: no REMOVED event for the old unit
    /\ IsListed(p) /\ ~Gone(p)
    /\ owner[plateOf[owner[p]]] # guid[p]
    /\ event' = Quiet
    /\ pending' = pending \cup {p}
    /\ UNCHANGED <<id, guid, active, entries, flags, told>>

\* appendAdded, A being the entries with IS_ACTIVE.
AppendAdded(p, A) ==
    /\ pending' = pending \cup {p}
    /\ active' = A \cup {p}
    /\ entries' = IF p \in A THEN entries ELSE [entries EXCEPT ![p] = @ + 1]

\* The plate shows another unit than the one it was announced for.
Retarget(p) ==
    /\ IsListed(p) /\ ~Gone(p)
    /\ owner[plateOf[owner[p]]] # guid[p]
    /\ FireRemoved(p)
    /\ AppendAdded(p, active)
    /\ UNCHANGED <<id, guid, flags>>

Fresh(p) == ~IsListed(p) /\ p \in shown /\ owner[p] \in alive \cap named

\* initEntry of a plate never seen before; its handlers run before the
\* entry is filled in.
InitEntry(p) ==
    /\ Fresh(p) /\ id[p] = 0
    /\ id' = [id EXCEPT ![p] = Cardinality(Registered) + 1]
    /\ Fire("CREATED", p, NoUnit)
    /\ UNCHANGED <<guid, active, entries, pending, flags, told>>

\* clearState, which takes IS_ACTIVE too, the unit's flags and appendAdded.
Admit(p) ==
    /\ friendly' = IF owner[p] \in friends THEN friendly \cup {p} ELSE friendly \ {p}
    /\ transient' = transient \ {p}
    /\ stacks' = ApplyStackingState({p}, mode, friendly', transient')
    /\ AppendAdded(p, active \ {p})
    /\ event' = Quiet
    /\ UNCHANGED <<id, guid, told>>

Unchanged(p) ==
    /\ IF IsListed(p)
       THEN ~Gone(p) /\ owner[plateOf[owner[p]]] = guid[p]
       ELSE ~Fresh(p)
    /\ event' = Quiet
    /\ UNCHANGED <<flags, registry, told>>

CreatedNow(p) == event.kind = "CREATED" /\ event.plate = p

ScanPlate(p) ==
    /\ phase = "scan" /\ p \in todo
    /\ \/ /\ event.kind # "CREATED"
          /\ InitEntry(p)
          /\ UNCHANGED todo
       \/ /\ event.kind # "CREATED"
          /\ \/ Drop(p)
             \/ Retarget(p)
             \/ Fresh(p) /\ id[p] # 0 /\ Admit(p)
             \/ Unchanged(p)
          /\ todo' = todo \ {p}
       \/ /\ CreatedNow(p)
          /\ Admit(p)
          /\ todo' = todo \ {p}
    /\ UNCHANGED <<engine, mode, phase>>

\* The entries flushRemoved erases and takes the guid of.
Dropped == Listed \ active

FlushRemovedKeepsGuid ==   \* mutant: e->guid = 0 is forgotten
    /\ phase = "scan" /\ todo = {}
    /\ LET Kept == Listed \ Dropped
       IN  /\ entries' = [p \in Plates |-> IF p \in Kept THEN entries[p] ELSE 0]
           /\ IF Kept = {}
              THEN phase' = "idle" /\ pending' = {} /\ UNCHANGED todo
              ELSE phase' = "flush" /\ todo' = pending /\ UNCHANGED pending
    /\ event' = Quiet
    /\ UNCHANGED <<engine, flags, id, guid, active, mode, told>>

\* With nothing left to show the frame ends here; otherwise the layout runs
\* and the ADDED events go out.
FlushRemoved ==
    /\ phase = "scan" /\ todo = {}
    /\ LET Kept == Listed \ Dropped
       IN  /\ entries' = [p \in Plates |-> IF p \in Kept THEN entries[p] ELSE 0]
           /\ guid' = [p \in Plates |-> IF p \in Dropped THEN NoUnit ELSE guid[p]]
           /\ IF Kept = {}
              THEN phase' = "idle" /\ pending' = {} /\ UNCHANGED todo
              ELSE phase' = "flush" /\ todo' = pending /\ UNCHANGED pending
    /\ event' = Quiet
    /\ UNCHANGED <<engine, flags, id, active, mode, told>>

FlushAddedLastFirst(p) ==   \* mutant: the highest id goes first
    /\ phase = "flush" /\ p \in todo /\ \A q \in todo : id[q] <= id[p]
    /\ IF owner[p] \in alive /\ plateOf[owner[p]] # NoPlate
       THEN LET u == owner[plateOf[owner[p]]]
            IN  /\ guid' = [guid EXCEPT ![p] = u]
                /\ told' = [told EXCEPT ![p] = u]
                /\ Fire("ADDED", p, u)
       ELSE event' = Quiet /\ UNCHANGED <<guid, told>>
    /\ todo' = todo \ {p}
    /\ UNCHANGED <<engine, flags, id, active, entries, pending, mode, phase>>

FlushAddedForgetsGuid(p) ==   \* mutant: the event goes out, the guid stays
    /\ phase = "flush" /\ p \in todo /\ \A q \in todo : id[p] <= id[q]
    /\ IF owner[p] \in alive /\ plateOf[owner[p]] # NoPlate
       THEN LET u == owner[plateOf[owner[p]]]
            IN  told' = [told EXCEPT ![p] = u] /\ Fire("ADDED", p, u)
       ELSE event' = Quiet /\ UNCHANGED told
    /\ todo' = todo \ {p}
    /\ UNCHANGED <<engine, flags, id, guid, active, entries, pending, mode, phase>>

FlushAdded(p) ==
    /\ phase = "flush" /\ p \in todo /\ \A q \in todo : id[p] <= id[q]
    /\ IF owner[p] \in alive /\ plateOf[owner[p]] # NoPlate
       THEN LET u == owner[plateOf[owner[p]]]
            IN  /\ guid' = [guid EXCEPT ![p] = u]
                /\ told' = [told EXCEPT ![p] = u]
                /\ Fire("ADDED", p, u)
       ELSE event' = Quiet /\ UNCHANGED <<guid, told>>
    /\ todo' = todo \ {p}
    /\ UNCHANGED <<engine, flags, id, active, entries, pending, mode, phase>>

ClearPending ==
    /\ phase = "flush" /\ todo = {}
    /\ pending' = {}
    /\ phase' = "idle"
    /\ event' = Quiet
    /\ UNCHANGED <<engine, flags, id, guid, active, entries, mode, todo, told>>

Frame ==
    \/ BeginFrame
    \/ \E p \in Plates : ScanPlate(p)
    \/ FlushRemoved
    \/ \E p \in Plates : FlushAdded(p)
    \/ ClearPending

Next == EngineStep \/ ClearAll \/ AddonStep \/ Frame

\* The engine draws frame after frame.
Spec == Init /\ [][Next]_vars /\ WF_vars(Frame)

-------------------------------------------------------------------------------
\* Between frames GetNamePlates returns each plate that add-ons have been told
\* of once and no other; the token of a plate, and no other token, stands for
\* the unit they were told; and the look-up of a unit finds its plate, of which
\* there is one at most, or none when they were told of none.
ListsWhatWasTold ==
    phase = "idle" =>
        /\ GetNamePlates = {p \in Plates : told[p] # NoUnit}
        /\ \A p \in GetNamePlates : entries[p] = 1
        /\ \A p \in Registered : GetGuidByKeyword(id[p]) = told[p]
        /\ \A u \in Units :
            /\ {p \in Plates : told[p] = u} = {GetNameplateByGuid(u)} \ {NoPlate}
            /\ GetKeywordsByGuid(u) = {id[p] : p \in {q \in Plates : told[q] = u}}
            /\ GetKeywordsByGuid(u) = {GetNamePlateTokenByGUID(u)} \ {0}

\* While add-ons handle NAME_PLATE_UNIT_REMOVED, the plate is still listed
\* and its token still stands for the unit that was announced for it, and so
\* do all plates not yet removed: the snapshot of the previous frame that the
\* comment on flushRemoved speaks of.
RemovedStillResolves ==
    /\ event.kind = "REMOVED" =>
        entries[event.plate] = 1 /\ GetGuidByKeyword(id[event.plate]) = event.unit
    /\ phase = "scan" =>
        \A p \in Plates : told[p] # NoUnit => entries[p] = 1 /\ guid[p] = told[p]

\* While add-ons handle NAME_PLATE_UNIT_ADDED, the look-up by the unit's GUID
\* finds the plate of the event, although plates that changed units and come
\* later in the flush still carry their old guid.
AddedResolves ==
    event.kind = "ADDED" =>
        /\ GetGuidByKeyword(id[event.plate]) = event.unit
        /\ GetNameplateByGuid(event.unit) = event.plate

\* Between frames SHOULD_STACK is what the CVar, the override and the
\* recorded reaction ask for, whichever of the four handlers ran last.
StacksAsAsked ==
    phase = "idle" => \A p \in Listed :
        (p \in stacks) <=> (p \notin transient /\ WantsStack(mode, p, friendly))

\* ADDED and REMOVED alternate for a plate, and REMOVED is for the unit that
\* was ADDED.
EventsAlternate ==
    [][ (\E p \in Plates : ScanPlate(p) \/ FlushAdded(p)) =>
          /\ event'.kind = "ADDED" => told[event'.plate] = NoUnit
          /\ event'.kind = "REMOVED" =>
                event'.unit # NoUnit /\ told[event'.plate] = event'.unit ]_vars

\* A plate that stays shown for a living unit whose name is known is
\* announced for it in the end, and stays so.
Steady(p, u) == p \in shown /\ plateOf[u] = p /\ owner[p] = u /\ u \in alive \cap named

ShownIsAnnounced ==
    \A p \in Plates, u \in Units :
        <>[]Steady(p, u) => <>[](told[p] = u)

\* "2 = Enemy Only", "3 = Friendly Only" (nameplateStacking in the API
\* reference): a plate that is being announced for a unit does not stack when
\* the mode leaves that unit's side out.
StacksOnlyItsSide ==
    event.kind = "ADDED" =>
        (event.plate \in stacks => WantsStack(mode, event.unit, friends))
===============================================================================
