---------------------------- MODULE ObjectHighlight ----------------------------
(***************************************************************************)
(* objectHighlightMode: a CVar whose handler attaches a hook to the        *)
(* client's CheckForPassiveHighlight while the mode is not 0, and lights   *)
(* or darkens the objects the client knows.                                *)
(*                                                                         *)
(* Detours hooks whatever the function pointer names: a second attach      *)
(* hooks the first one's trampoline, a call of the client's function still *)
(* passes the hook once, a detach undoes one attach, and a detach with     *)
(* nothing attached fails.  `attached' counts the attaches outstanding.    *)
(***************************************************************************)
EXTENDS Integers

CONSTANTS Objects,     \* game objects: records of what the hook asks about
          MaxAttached  \* bound on the attaches outstanding

HL_DISABLED == 0
HL_ALWAYS == 1
HL_TRACKED == 2
Modes == {HL_DISABLED, HL_ALWAYS, HL_TRACKED}

\* type: chests, gathering nodes (chests with a lock of type 2), quest givers,
\* and the types the hook leaves alone; goobers are treated like chests that
\* are no nodes.
Object == [name : STRING, type : {"chest", "node", "questgiver", "other"},
           usable : BOOLEAN, mark : BOOLEAN,   \* CanUse, m_questMark
           own : BOOLEAN]                      \* the client highlights it itself

VARIABLES mode,      \* g_highlightMode
          attached,  \* attaches outstanding on CheckForPassiveHighlightFn
          present,   \* objects the object manager has
          lit        \* objects with 0x400000 in m_highlightMask

vars == <<mode, attached, present, lit>>

TypeOK ==
    /\ mode \in Modes
    /\ attached \in 0..MaxAttached
    /\ \A o \in present : o \in Objects
    /\ \A o \in lit : o \in present

Init == mode = HL_DISABLED /\ attached = 0 /\ present = {} /\ lit = {}

-------------------------------------------------------------------------------
\* CheckForPassiveHighlight itself, which decides by its own rule and so
\* takes back what the hook lit (the handler calls it for that).
Own(o) == o.own

\* The hook's early returns: whether it lights the object in mode m.
Wanted(m, o) ==
    /\ o.usable
    /\ o.type # "other"
    /\ m = HL_TRACKED => /\ o.type = "questgiver" => o.mark
                         /\ o.type # "node"

\* CheckForPassiveHighlightHk: the original, then the mode's wishes.  The
\* hook looks at the mode only for HL_TRACKED.
Hooked(m, o) == Own(o) \/ Wanted(m, o)

\* What the client's own call does, through the hook if it is attached.
Checked(n, m, o) == IF n > 0 THEN Hooked(m, o) ELSE Own(o)

Attach(n) == n + 1
Detach(n) == IF n = 0 THEN 0 ELSE n - 1

\* CVar::Sync clamps the value.
Clamped(v) == IF v < HL_DISABLED THEN HL_DISABLED
              ELSE IF v > HL_TRACKED THEN HL_TRACKED ELSE v

\* mutant: the objects already there are not looked at again
HandlerLeavesObjects(v) ==
    /\ mode' = Clamped(v)
    /\ attached' = IF mode' # HL_DISABLED THEN Attach(attached) ELSE Detach(attached)
    /\ attached' <= MaxAttached
    /\ UNCHANGED <<present, lit>>

\* CVarHandler_objectHighlightMode: every non-zero value attaches, and every
\* object is run through the hook, or at 0 through the original.
Handler(v) ==
    /\ mode' = Clamped(v)
    /\ attached' = IF mode' # HL_DISABLED THEN Attach(attached) ELSE Detach(attached)
    /\ attached' <= MaxAttached
    /\ lit' = {o \in present : IF mode' # HL_DISABLED THEN Hooked(mode', o) ELSE Own(o)}
    /\ UNCHANGED present

\* The client looks at an object, when it appears and whenever it likes.
Check(o) ==
    /\ present' = present \cup {o}
    /\ lit' = IF Checked(attached, mode, o) THEN lit \cup {o} ELSE lit \ {o}
    /\ UNCHANGED <<mode, attached>>

Vanish(o) ==
    /\ o \in present
    /\ present' = present \ {o} /\ lit' = lit \ {o}
    /\ UNCHANGED <<mode, attached>>

Next == \/ \E v \in -1..3 : Handler(v)
        \/ \E o \in Objects : Check(o) \/ Vanish(o)

Spec == Init /\ [][Next]_vars

-------------------------------------------------------------------------------
\* Properties.

Shown(m, o) == \/ o.own
               \/ m = HL_ALWAYS /\ o.usable /\ o.type # "other"
               \/ m = HL_TRACKED /\ o.usable /\ (o.type = "chest" \/ (o.type = "questgiver" /\ o.mark))

\* While the mode is on, exactly the objects it names are lit besides the
\* client's own, whether they came before or after the CVar was set and
\* whatever the order of modes (Misc.cpp:221-277).
LitAsAsked == mode # HL_DISABLED => \A o \in present : o \in lit <=> Shown(mode, o)
===============================================================================
