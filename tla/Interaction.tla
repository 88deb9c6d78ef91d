------------------------------ MODULE Interaction ------------------------------
(***************************************************************************)
(* QueueInteract, /interact, and the target keywords @cursor and           *)
(* @playerlocation.  An add-on's call may not click an object (taint), so  *)
(* it leaves a guid that a function in the engine's update loop clicks     *)
(* later.  Every load of the UI registers that function once more.         *)
(***************************************************************************)
EXTENDS Naturals, FiniteSets

CONSTANTS Objects,  \* guids of units and game objects other than the player
          None,     \* guid 0
          Places,   \* what trySetCandidate asks of an object: records
                    \* [distance, valid, ahead]
          Range20,  \* the distance of 20 yards
          MaxLoads  \* bound on the loads of the UI

Keywords == {"cursor", "playerlocation"}

VARIABLES
    present,    \* Places of the objects the object manager has
    player,     \* it has the player
    mode,       \* g_iMode: 1 asks for objects within interactionAngle
    requested,  \* s_requestedInteraction
    registered, \* entries of s_customOnUpdate that are ProcessQueuedInteraction
    turns,      \* of these, the ones still to run in this update
    active,     \* keywords whose flag is set
    due,        \* history: chosen by the last call and not clicked yet
    unasked     \* history: an object was clicked that was not due

queue == <<requested, due, unasked>>
scene == <<present, player>>
vars == <<scene, mode, queue, registered, turns, active>>

TypeOK ==
    /\ DOMAIN present \subseteq Objects /\ \A o \in DOMAIN present : present[o] \in Places
    /\ player \in BOOLEAN /\ mode \in 0..1
    /\ requested \in Objects \cup {None} /\ due \in Objects \cup {None}
    /\ registered \in 0..MaxLoads /\ turns \in 0..registered
    /\ active \subseteq Keywords
    /\ unasked \in BOOLEAN

Init ==
    /\ present = <<>> /\ player = FALSE /\ mode = 1
    /\ requested = None /\ due = None /\ unasked = FALSE
    /\ registered = 0 /\ turns = 0 /\ active = {}

-------------------------------------------------------------------------------
\* The engine, between two updates.

EnterWorld == /\ turns = 0 /\ ~player /\ player' = TRUE
              /\ UNCHANGED <<present, mode, queue, registered, turns, active>>

\* Nothing queued and no keyword is forgotten on the way out.
LeaveWorld == /\ turns = 0 /\ player /\ player' = FALSE /\ present' = <<>>
              /\ UNCHANGED <<mode, queue, registered, turns, active>>

Appear(o, p) == /\ turns = 0 /\ player
                /\ present' = [i \in DOMAIN present \cup {o} |-> IF i = o THEN p ELSE present[i]]
                /\ UNCHANGED <<player, mode, queue, registered, turns, active>>

Vanish(o) == /\ turns = 0 /\ o \in DOMAIN present
             /\ present' = [i \in DOMAIN present \ {o} |-> present[i]]
             /\ UNCHANGED <<player, mode, queue, registered, turns, active>>

\* lua_openmisclib.
LoadUI == /\ turns = 0 /\ registered < MaxLoads /\ registered' = registered + 1
          /\ UNCHANGED <<scene, mode, queue, turns, active>>

CVarHandler_interactionMode(v) ==
    /\ turns = 0 /\ mode' = v
    /\ UNCHANGED <<scene, queue, registered, turns, active>>

-------------------------------------------------------------------------------
\* lua_QueueInteract.

\* trySetCandidate's early returns.
Eligible(o) == /\ o \in DOMAIN present
               /\ present[o].distance # 0 /\ present[o].distance <= Range20
               /\ present[o].valid
               /\ mode = 1 => present[o].ahead

\* The nearest of those tried; of equals the last one the engine enumerates.
Candidates(tried) ==
    {o \in tried : Eligible(o) /\ \A i \in tried :
        Eligible(i) => present[o].distance <= present[i].distance}

\* Without a candidate an earlier request stays.
QueueInteract(tried) ==
    IF player /\ Candidates(tried) # {}
    THEN /\ requested' \in Candidates(tried) /\ due' = requested'
         /\ UNCHANGED unasked
    ELSE UNCHANGED queue

\* A call names no object, or one by its unit token.
Call(tried) == /\ turns = 0 /\ QueueInteract(tried)
               /\ UNCHANGED <<scene, mode, registered, turns, active>>

-------------------------------------------------------------------------------
\* FireOnUpdateHk: each registered function in turn.

BeginUpdate == /\ turns = 0 /\ registered > 0 /\ turns' = registered
               /\ UNCHANGED <<scene, mode, queue, registered, active>>

\* mutant: the request is cleared only when its object is missing
ClickKeepsRequest(o) ==
    /\ unasked' = (unasked \/ due # o)
    /\ due' = None
    /\ UNCHANGED requested

\* OnRightClick, whose events may run add-on code that calls QueueInteract:
\* what it requests is wiped with the old request.
Click(o) ==
    /\ unasked' = (unasked \/ due # o)
    /\ due' \in {None} \cup Candidates(Objects)
    /\ requested' = None

ProcessQueuedInteraction ==
    /\ turns > 0 /\ turns' = turns - 1
    /\ \/ requested = None /\ UNCHANGED queue
       \/ requested \in DOMAIN present /\ Click(requested)
       \/ /\ requested # None /\ requested \notin DOMAIN present
          /\ requested' = None /\ UNCHANGED <<due, unasked>>
    /\ UNCHANGED <<scene, mode, registered, active>>

-------------------------------------------------------------------------------
\* The keywords.

\* SecureCmdOptionParseHk, whoever asks and whether or not a cast follows.
Parse(k) == /\ turns = 0 /\ active' = active \cup {k}
            /\ UNCHANGED <<scene, mode, queue, registered, turns>>

\* InteractFunction_C: the target the options name, or the nearest if they
\* name none; a keyword is taken for the latter.
SlashInteract(tried, k) ==
    /\ turns = 0
    /\ QueueInteract(IF k = {} THEN tried ELSE Objects) /\ active' = active \cup k
    /\ UNCHANGED <<scene, mode, registered, turns>>

\* OnLayerTrackTerrainHk: one terrain click a call, at the player's feet first.
TrackTerrain ==
    /\ turns = 0 /\ player /\ active # {}
    /\ active' = active \ (IF "playerlocation" \in active THEN {"playerlocation"} ELSE {"cursor"})
    /\ UNCHANGED <<scene, mode, queue, registered, turns>>

\* SpellCastResetHk.
ResetKeywordFlags == /\ turns = 0 /\ active # {} /\ active' = {}
                     /\ UNCHANGED <<scene, mode, queue, registered, turns>>

Next ==
    \/ EnterWorld \/ LeaveWorld \/ LoadUI
    \/ \E o \in Objects : Vanish(o) \/ (\E p \in Places : Appear(o, p))
    \/ \E v \in 0..1 : CVarHandler_interactionMode(v)
    \/ \E tried \in {{o} : o \in Objects} \cup {Objects} :
            Call(tried) \/ \E k \in {{}} \cup {{w} : w \in Keywords} : SlashInteract(tried, k)
    \/ BeginUpdate \/ ProcessQueuedInteraction
    \/ \E k \in Keywords : Parse(k)
    \/ TrackTerrain \/ ResetKeywordFlags

Spec == Init /\ [][Next]_vars

-------------------------------------------------------------------------------
\* Properties.

\* One call leads to at most one click, on what the last successful call
\* chose, however often the update function was registered and whatever
\* add-on code requests in the middle of a click (Misc.cpp:79-87, 244).
ClicksAsAsked == ~unasked
===============================================================================
