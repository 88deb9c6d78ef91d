------------------------------ MODULE PlateFocus ------------------------------
(***************************************************************************)
(* Which nameplate the mouse is over.  The engine asks with every move of  *)
(* the cursor (CGUnit_C__SetNamePlateFocusHk); the answer depends on the   *)
(* order the last frame left `entries' in, and that frame put the focus of *)
(* the time first when nameplateMouseMode says so.                         *)
(***************************************************************************)
EXTENDS Integers, FiniteSets

CONSTANTS Plates, Friends,   \* listed plates, and those with IS_FRIENDLY
          None,
          MouseModes         \* values of nameplateMouseMode, within 0..8

VARIABLES entries, \* as last sorted
          under,   \* plates that take the mouse (m_flags 0x100) and are under the cursor
          target,  \* the plate of the target
          focus,   \* *g_nameplateFocus
          mode,    \* g_mouseOverMode, as an index into g_mouseModeMap
          combat,  \* InCombatLockdown
          raised   \* history: the focus the last frame put first, for this target
vars == <<entries, under, target, focus, mode, combat, raised>>

Orders == {s \in [1..Cardinality(Plates) -> Plates] :
              \A p \in Plates : \E i \in DOMAIN s : s[i] = p}

TypeOK ==
    /\ entries \in Orders /\ under \in SUBSET Plates
    /\ {target, focus, raised} \subseteq Plates \cup {None}
    /\ mode \in MouseModes /\ combat \in BOOLEAN

Init == /\ entries \in Orders /\ under = {} /\ target = None /\ focus = None
        /\ mode \in MouseModes /\ combat = FALSE /\ raised = None

\* g_mouseModeMap
ClickThruEnemy == mode \in {1, 2, 3}
ClickThruFriend == mode \in {4, 5, 6}
Over == mode \in {2, 5, 7} \/ (mode \in {3, 6, 8} /\ combat)

-------------------------------------------------------------------------------
\* A frame (sort(ST_OUT)): the target first, the focus next, the others by depth.

\* mutant: the raised plate is sorted behind the others
FocusLast(order, front) ==
    \A i, j \in DOMAIN order : i < j =>
        /\ order[j] # target
        /\ order[i] = front => order[j] = front

Sorted(order, front) ==
    \A i, j \in DOMAIN order : i < j =>
        /\ order[j] # target
        /\ order[j] = front => order[i] = target

Frame ==
    LET front == IF Over THEN focus ELSE None IN
    /\ entries' \in {order \in Orders : Sorted(order, front)}
    /\ raised' = front
    /\ UNCHANGED <<under, target, focus, mode, combat>>

-------------------------------------------------------------------------------
\* The cursor.

FirstOf(S) ==
    LET first == CHOOSE i \in DOMAIN entries :
                     entries[i] \in S /\ \A j \in 1..(i - 1) : entries[j] \notin S
    IN  entries[first]

\* The first plate, or the first of the preferred side if one is there.
FindBestPlate(candidates, preferred) ==
    IF candidates = {} THEN None
    ELSE IF preferred \cap candidates = {} THEN FirstOf(candidates)
    ELSE FirstOf(preferred \cap candidates)

Preferred == IF ClickThruEnemy THEN Friends
             ELSE IF ClickThruFriend THEN Plates \ Friends ELSE {}

\* No mouse button is held.  OnLoseFocus and OnGainFocus are the engine's.
SetNamePlateFocus ==
    /\ focus' = FindBestPlate(under \ {target}, Preferred)
    /\ UNCHANGED <<entries, under, target, mode, combat, raised>>

\* The cursor or a plate moves.
Move == /\ \E p \in Plates : under' \in {under \cup {p}, under \ {p}}
        /\ UNCHANGED <<entries, target, focus, mode, combat, raised>>

-------------------------------------------------------------------------------
\* The player.

\* The order stands until the next frame, but one made with the old target first
\* lets that plate, no longer passed over, take the mouse from the raised one.
Target(p) == /\ target' = p    \* None: ClearTarget
             /\ raised' = None
             /\ UNCHANGED <<entries, under, focus, mode, combat>>

CombatChange == /\ combat' = ~combat
                /\ UNCHANGED <<entries, under, target, focus, mode, raised>>

NameplateMouseMode == /\ mode' \in MouseModes
                      /\ UNCHANGED <<entries, under, target, focus, combat, raised>>

Next == \/ Frame \/ SetNamePlateFocus \/ Move \/ CombatChange \/ NameplateMouseMode
        \/ \E p \in Plates \cup {None} : Target(p)

Spec == Init /\ [][Next]_vars

-------------------------------------------------------------------------------
\* Properties.

\* A plate raised because the mouse is over it keeps the mouse while the cursor
\* stays on it, whatever its neighbours' depth: the search goes by the order
\* the raise has made, so focus and frame level do not chase each other
\* (NamePlates.cpp:559-577, 753-780).  Only the preferred side may take it.
FocusSticks ==
    [][ SetNamePlateFocus /\ raised # None /\ raised = focus
        /\ focus \in under \ {target}
        /\ (focus \in Preferred \/ Preferred \cap (under \ {target}) = {})
        => focus' = focus ]_vars
===============================================================================
