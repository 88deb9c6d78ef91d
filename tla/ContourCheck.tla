----------------------------- MODULE ContourCheck -----------------------------
(***************************************************************************)
(* MSDFValidator: a font may be drawn from distance fields only when no    *)
(* outline of its ASCII glyphs crosses itself.  Points lie on an integer   *)
(* grid, FLATTEN_EPS (0.5) is half a unit and EPS is 0.  An edge is the    *)
(* sequence of points it is sampled at, an outline the sequence of its     *)
(* edges; a glyph of several contours is accepted when each of them is.    *)
(***************************************************************************)
EXTENDS Integers, Sequences, FiniteSets, FiniteSetsExt, SequencesExt

CONSTANTS Corners, \* the outlines' corners: sequences of points [x, y]
          Bends    \* what their first edge may pass between its ends: <<>> or <<point>>

VARIABLES outline, verdict    \* "none" before IsGlyphValid returns
vars == <<outline, verdict>>

\* msdfgen's contour: every edge ends where the next one starts.
Closed(corners, bend) ==
    [i \in 1..Len(corners) |->
        <<corners[i]>> \o (IF i = 1 THEN bend ELSE <<>>) \o <<corners[(i % Len(corners)) + 1]>>]

Init == /\ \E corners \in Corners, bend \in Bends : outline = Closed(corners, bend)
        /\ verdict = "none"

-------------------------------------------------------------------------------
\* Flattening.

Sq(p, q) == (p.x - q.x) * (p.x - q.x) + (p.y - q.y) * (p.y - q.y)
Dot(a, b, p) == (b.x - a.x) * (p.x - a.x) + (b.y - a.y) * (p.y - a.y)
Cross(a, b, p) == (b.x - a.x) * (p.y - a.y) - (b.y - a.y) * (p.x - a.x)

\* distPointToLine(p, a, b) <= 0.5; past an end it is the distance to that end.
Near(p, a, b) ==
    IF Dot(a, b, p) <= 0 THEN 4 * Sq(p, a) <= 1
    ELSE IF Dot(a, b, p) >= Sq(a, b) THEN 4 * Sq(p, b) <= 1
    ELSE 4 * Cross(a, b, p) * Cross(a, b, p) <= Sq(a, b)

\* An edge that stays near its chord becomes the chord.
Flattened(edge) ==
    IF \A k \in 2..(Len(edge) - 1) : Near(edge[k], edge[1], Last(edge))
    THEN <<Last(edge)>> ELSE Tail(edge)

\* Ends with the point it starts with.
FlattenMsdfContour == <<outline[1][1]>> \o FlattenSeq([i \in 1..Len(outline) |-> Flattened(outline[i])])

-------------------------------------------------------------------------------
\* The test.

Orient(a, b, c) == LET v == Cross(a, b, c) IN IF v > 0 THEN 1 ELSE IF v < 0 THEN -1 ELSE 0

OnSegment(a, b, p) ==
    /\ Orient(a, b, p) = 0
    /\ Min({a.x, b.x}) <= p.x /\ p.x <= Max({a.x, b.x})
    /\ Min({a.y, b.y}) <= p.y /\ p.y <= Max({a.y, b.y})

SegsIntersectProper(a1, a2, b1, b2) ==
    \/ Orient(a1, a2, b1) # Orient(a1, a2, b2) /\ Orient(b1, b2, a1) # Orient(b1, b2, a2)
    \/ OnSegment(a1, a2, b1) \/ OnSegment(a1, a2, b2)
    \/ OnSegment(b1, b2, a1) \/ OnSegment(b1, b2, a2)

\* mutant: the inner loop starts one edge late
SkipsTheNextButOne(pts) ==
    LET n == Len(pts)
        To(i) == pts[(i % n) + 1]
    IN  \E i \in 1..n : \E j \in (i + 3)..n :
            /\ pts[i] # To(i) /\ pts[j] # To(j)
            /\ SegsIntersectProper(pts[i], To(i), pts[j], To(j))
            /\ {pts[i], To(i)} \cap {pts[j], To(j)} = {}

\* Edges of no length are passed over, and edges with a common end may touch.
HasSelfIntersections(pts) ==
    LET n == Len(pts)
        To(i) == pts[(i % n) + 1]
    IN  /\ n >= 4
        /\ \E i \in 1..n : \E j \in (i + 2)..n :
            /\ ~(i = 1 /\ j = n)
            /\ pts[i] # To(i) /\ pts[j] # To(j)
            /\ SegsIntersectProper(pts[i], To(i), pts[j], To(j))
            /\ {pts[i], To(i)} \cap {pts[j], To(j)} = {}

ValidateResolvedShape ==
    LET pts == FlattenMsdfContour IN
    /\ Len(pts) >= 3
    /\ \E i \in 1..Len(pts) : pts[i] # pts[(i % Len(pts)) + 1]
    /\ ~HasSelfIntersections(pts)

IsGlyphValid ==
    /\ verdict = "none"
    /\ verdict' = IF ValidateResolvedShape THEN "valid" ELSE "refused"
    /\ UNCHANGED outline

Next == IsGlyphValid
Spec == Init /\ [][Next]_vars

-------------------------------------------------------------------------------
\* Properties.

TypeOK == verdict \in {"none", "valid", "refused"}

Between(n, d) == IF d > 0 THEN 0 < n /\ n < d ELSE d < n /\ n < 0

\* The lines through two edges meet in one point, inside both (Cramer's rule).
Crosses(a, b, c, d) ==
    LET den == (b.x - a.x) * (d.y - c.y) - (b.y - a.y) * (d.x - c.x)
        s   == (c.x - a.x) * (d.y - c.y) - (c.y - a.y) * (d.x - c.x)
        t   == (c.x - a.x) * (b.y - a.y) - (c.y - a.y) * (b.x - a.x)
    IN  den # 0 /\ Between(s, den) /\ Between(t, den)

\* An accepted outline has no two edges that cross inside: the pairs the loop
\* leaves out, and the ones excused for a common end, hide no crossing, not
\* even where the outline passes a corner twice (MSDFValidator.h:127-146).
AcceptedIsSimple ==
    LET pts == FlattenMsdfContour IN
    verdict = "valid" =>
        \A i, j \in 1..(Len(pts) - 1) : ~Crosses(pts[i], pts[i + 1], pts[j], pts[j + 1])
===============================================================================
