------------------------------ MODULE PlateLayout ------------------------------
(***************************************************************************)
(* Where a frame of CGWorldFrame__UpdateNamePlatePositionsHk wants the     *)
(* nameplates: sorted from the bottom up, plates that come too close side  *)
(* by side push each other up, a plate of higher rank stays below, and     *)
(* what was pushed last frame sinks back by up to a half first.            *)
(*                                                                         *)
(* Heights are in units, all plates are Height high and bandY is 1.  Which *)
(* plates come too close (their distance, widened by the hysteresis) is    *)
(* chosen anew in each frame; horizontal pulls only move that distance.    *)
(* So is whether the clamp mode is one of those for all edges.             *)
(***************************************************************************)
EXTENDS Integers, Sequences, FiniteSets

CONSTANTS Plates,    \* numbers, in the order of the plates' addresses
          Rank,      \* getRankWeight of each plate
          Heights,   \* heights on the screen a unit may be at
          Height, MaxRaise,
          Ceiling, Floor,   \* where a clamped plate still is on the screen
          Clamped    \* plates with SHOULD_CLAMP

VARIABLES y,         \* m_NDCproj.y
          offset,    \* targetOffsetY
          listed,    \* entries
          fresh,     \* IS_FRESH
          smart,     \* g_stackingMode < 0
          clash      \* history: pairs the last step, a standard frame, left too close

vars == <<y, offset, listed, fresh, smart, clash>>

Pairs == {s \in SUBSET Plates : Cardinality(s) = 2}

TypeOK ==
    /\ y \in [Plates -> Heights] /\ offset \in [Plates -> Int]
    /\ listed \subseteq Plates /\ fresh \subseteq listed
    /\ \A p \in listed : offset[p] <= MaxRaise
    /\ smart \in BOOLEAN /\ clash \subseteq Pairs

Init ==
    /\ y \in [Plates -> Heights] /\ offset = [p \in Plates |-> 0]
    /\ listed = {} /\ fresh = {} /\ smart = FALSE /\ clash = {}

-------------------------------------------------------------------------------
\* Between frames.

Move(p, h) == y' = [y EXCEPT ![p] = h] /\ clash' = {} /\ UNCHANGED <<offset, listed, fresh, smart>>

\* clearState, when a plate is admitted.
Show(p) == /\ p \notin listed
           /\ listed' = listed \cup {p} /\ fresh' = fresh \cup {p}
           /\ offset' = [offset EXCEPT ![p] = 0]
           /\ clash' = {} /\ UNCHANGED <<y, smart>>

Drop(p) == /\ p \in listed /\ listed' = listed \ {p} /\ fresh' = fresh \ {p}
           /\ clash' = {} /\ UNCHANGED <<y, offset, smart>>

NameplateStacking == smart' = ~smart /\ clash' = {} /\ UNCHANGED <<y, offset, listed, fresh>>

-------------------------------------------------------------------------------
\* The frame.

\* sort(ST_IN): by height, then the higher rank, then the address.
Before(p, q) ==
    LET hp == y[p] + offset[p]
        hq == y[q] + offset[q]
    IN  \/ hp < hq
        \/ hp = hq /\ Rank[p] > Rank[q]
        \/ hp = hq /\ Rank[p] = Rank[q] /\ p < q
Order == CHOOSE order \in [1..Cardinality(listed) -> listed] :
            /\ \A p \in listed : \E i \in DOMAIN order : order[i] = p
            /\ \A i, j \in DOMAIN order : i < j => Before(order[i], order[j])

\* freshState, for as much of the time of a frame as has passed.
Sunk(half) == [p \in Plates |-> IF p \in listed /\ half THEN offset[p] \div 2 ELSE offset[p]]

\* getReqYFor: the offset q needs to stand on p.
ReqY(t, p, q) == y[p] + t[p] + Height - y[q]

\* mutant: the offset is raised only when the plates touch at the same height
PushLevel(t, p, q, through) ==
    IF ReqY(t, p, q) > t[q] /\ y[p] + t[p] = y[q] + t[q] THEN [t EXCEPT ![q] = ReqY(t, p, q)] ELSE t

\* The pair's push, p being before q in the order; a q of higher rank stays
\* where it is and p goes above it ("rank prio hot correction"); one that p
\* lets through is left.
Push(t, p, q, through) ==
    IF ReqY(t, p, q) <= t[q] THEN t
    ELSE IF Rank[q] > Rank[p]
    THEN IF ReqY(t, q, p) > t[p] THEN [t EXCEPT ![p] = ReqY(t, q, p)] ELSE t
    ELSE IF through[p] = q THEN t
    ELSE [t EXCEPT ![q] = ReqY(t, p, q)]

\* Fresh plates take no part.
Collides(near, p, q) == {p, q} \in near /\ {p, q} \cap fresh = {}

\* The inner loop: the i-th plate against those behind it.
Row(order, t, i, near, through) ==
    LET n == Len(order) - i
        row[k \in 0..n] ==
          IF k = 0 THEN t
          ELSE IF Collides(near, order[i], order[i + k])
          THEN Push(row[k - 1], order[i], order[i + k], through)
          ELSE row[k - 1]
    IN  row[n]

Pushed(half, near, through) ==
    LET order == Order
        loop[i \in 0..Len(order)] ==
          IF i = 0 THEN Sunk(half) ELSE Row(order, loop[i - 1], i, near, through)
    IN  loop[Len(order)]

\* updVis: the limits of a raise; for a clamped plate the screen's upper edge,
\* and the lower one in the modes for all edges.
NoLimit == -10000
Limit(p) == IF p \in Clamped /\ Ceiling - y[p] < MaxRaise THEN Ceiling - y[p] ELSE MaxRaise
Least(p, edges) ==
    IF p \notin Clamped \/ ~edges THEN NoLimit
    ELSE IF Floor - y[p] < MaxRaise THEN Floor - y[p] ELSE MaxRaise
Limited(t, edges) ==
    [p \in Plates |-> IF p \notin listed THEN t[p]
                      ELSE IF t[p] < Least(p, edges) THEN Least(p, edges)
                      ELSE IF t[p] > Limit(p) THEN Limit(p) ELSE t[p]]

Apart(t, p, q) == \/ y[p] + t[p] >= y[q] + t[q] + Height
                  \/ y[q] + t[q] >= y[p] + t[p] + Height

\* From t to u the limits have lowered q towards p below it, or lifted p.
Brought(t, u, p, q) == u[q] < t[q] \/ u[p] > t[p]

Frame(half, near, through, edges) ==
    LET t == Pushed(half, near, through)
        u == Limited(t, edges)
    IN  /\ offset' = u
        /\ fresh' = {}
        /\ clash' = {s \in near : \E p, q \in s :
                        /\ p # q /\ Collides(near, p, q) /\ ~smart
                        /\ y[p] + t[p] <= y[q] + t[q] /\ ~Brought(t, u, p, q)
                        /\ ~Apart(u, p, q)}
        /\ UNCHANGED <<y, listed, smart>>

\* In a smart mode a plate may let one pass that it would push (freed,
\* resolvePush); which, depends on positions this model leaves out.  A plate
\* that lets none pass is mapped to itself.
Passes(p) == {p} \cup {q \in listed : smart /\ p \in listed /\ Before(p, q)}
Throughs == {f \in [Plates -> Plates] : \A p \in Plates : f[p] \in Passes(p)}

Next ==
    \/ \E p \in Plates : (\E h \in Heights : Move(p, h)) \/ Show(p) \/ Drop(p)
    \/ NameplateStacking
    \/ \E half \in BOOLEAN, near \in SUBSET {s \in Pairs : s \subseteq listed},
          through \in Throughs, edges \in BOOLEAN : Frame(half, near, through, edges)

Spec == Init /\ [][Next]_vars

-------------------------------------------------------------------------------
\* Properties.

\* In the standard modes a frame leaves no two colliding plates overlapping, in
\* whatever order they were pushed; except that the limits may lower the upper
\* of two into the lower (MaxRaise, the upper edge) or lift the lower into the
\* upper (the lower edge), to which the loops do not come back
\* (NamePlates.cpp:847-900); and except for two of which a third one outranks
\* one: nor do they come back to plates that this third one has moved up.
StacksApart == \A s \in clash : \E p \in s, r \in listed \ s : Rank[r] > Rank[p]
===============================================================================
