------------------------------- MODULE PairMemory -------------------------------
(***************************************************************************)
(* What PairsManager remembers of two nameplates that came close: that     *)
(* they touched in the last frame, how much wider than their boxes they    *)
(* keep apart since, and how often they came together again while the      *)
(* memory of it was still warm.  A plate marks in activeCollisions whom it *)
(* has to settle with; a pair that drew apart is forgotten only there.     *)
(*                                                                         *)
(* Times matter only against the present frame's, so a stamp is of this    *)
(* instant or older; two frames may fall into one millisecond.             *)
(***************************************************************************)
EXTENDS Naturals, FiniteSets

CONSTANTS Plates,
          Span,     \* hystDecay 1.0, in steps of a cooling
          Cools,    \* getProximity * delta, in those steps
          Drops     \* by how much a kept distance shrinks, in twentieths

VARIABLES pair,     \* PairState of each two plates
          bits,     \* activeCollisions of each plate
          listed,   \* entries
          fresh,    \* IS_FRESH
          met,      \* history: pairs laid out at this instant, since both were admitted
          theirs,   \* history: pairs whose memory, if any, began with the present units
          heirs     \* history: pairs laid out when one of them got another unit
                    \* in between, and at every instant since

vars == <<pair, bits, listed, fresh, met, theirs, heirs>>

Pairs == {s \in SUBSET Plates : Cardinality(s) = 2}
MaxSteps == 5    \* more hystSteps widen no further

\* Distances in twentieths of a box.
PairState ==
    [known : BOOLEAN,                        \* e1 and e2 are set
     near : BOOLEAN,                         \* proximate is this instant
     timestamp : {"none", "old", "now"},
     decay : 0..Span, steps : 0..MaxSteps, hysteresis : 20..40]

Blank == [known |-> FALSE, near |-> FALSE, timestamp |-> "none",
          decay |-> 0, steps |-> 0, hysteresis |-> 20]

TypeOK ==
    /\ pair \in [Pairs -> PairState]
    /\ bits \in [Plates -> SUBSET Plates]
    /\ listed \subseteq Plates /\ fresh \subseteq listed
    /\ met \subseteq Pairs /\ theirs \subseteq Pairs /\ heirs \subseteq met

Init ==
    /\ pair = [s \in Pairs |-> Blank]
    /\ bits = [p \in Plates |-> {}]
    /\ listed = {} /\ fresh = {} /\ met = {} /\ theirs = {} /\ heirs = {}

-------------------------------------------------------------------------------
\* One pair's memory.

Least(a, b) == IF a < b THEN a ELSE b

Seed(s) == [s EXCEPT !.near = TRUE, !.known = TRUE]

Commit(s, wide) ==
    LET again == s.timestamp = "none"
    IN  [s EXCEPT !.steps = IF again /\ s.decay > 0 THEN Least(@ + 1, MaxSteps) ELSE @,
                  !.decay = IF again THEN Span ELSE @,
                  !.timestamp = "now", !.hysteresis = wide]

Reset(s, full) == IF full THEN Blank ELSE [s EXCEPT !.hysteresis = 20, !.timestamp = "none"]

Cooldown(s, cool) ==
    LET left == IF s.known /\ s.decay > cool THEN s.decay - cool ELSE 0
    IN  [s EXCEPT !.decay = left, !.steps = IF left = 0 THEN 0 ELSE @]

\* What a plate does to a pair it has marked.
Resolve(s, cool) ==
    IF s.timestamp = "now" THEN s ELSE Cooldown(Reset(s, ~s.near), cool)

\* The distance a pair keeps from now on, its boxes still overlapping or not.
Widened(s, natural, drop) ==
    IF natural THEN 25 + Least(3 * s.steps, 15)
    ELSE IF s.hysteresis > 20 + drop THEN s.hysteresis - drop ELSE 20

\* How two plates of the layout may stand to each other: nothing to do, in
\* reach of a distance kept so far, or overlapping.
Contacts == [kind : {"none", "extended", "overlap"}, natural : BOOLEAN, drop : Drops]

CommitPair(s, c) ==
    IF c.kind = "overlap" \/ (c.kind = "extended" /\ s.timestamp # "none")
    THEN Commit(s, Widened(s, c.natural, c.drop)) ELSE s

-------------------------------------------------------------------------------
\* The plates.

Without(S, p) == {s \in S : p \notin s}

ShowKeepsPairs(p) ==   \* mutant: a plate is admitted without settling its pairs
    /\ p \notin listed
    /\ listed' = listed \cup {p} /\ fresh' = fresh \cup {p}
    /\ met' = Without(met, p) /\ theirs' = Without(theirs, p) /\ heirs' = Without(heirs, p)
    /\ UNCHANGED <<pair, bits>>

\* A plate is admitted for a unit: resolvePairs(e, -1, 0), to which every
\* stamp is old.
Show(p) ==
    /\ p \notin listed
    /\ listed' = listed \cup {p} /\ fresh' = fresh \cup {p}
    /\ pair' = [s \in Pairs |-> IF \E q \in bits[p] : s = {p, q} THEN Blank ELSE pair[s]]
    /\ bits' = [bits EXCEPT ![p] = {}]
    /\ met' = Without(met, p) /\ theirs' = Without(theirs, p) /\ heirs' = Without(heirs, p)

Hide(p) ==
    /\ p \in listed
    /\ listed' = listed \ {p} /\ fresh' = fresh \ {p}
    /\ UNCHANGED <<pair, bits, met, theirs, heirs>>

\* A listed plate is seen with another unit than in the last frame: it is
\* announced again (appendAdded), but settles nothing and forgets nothing.
Retarget(p) ==
    /\ p \in listed
    /\ theirs' = Without(theirs, p) /\ heirs' = heirs \cup {s \in met : p \in s}
    /\ UNCHANGED <<pair, bits, listed, fresh, met>>

ClearAll ==
    /\ pair' = [s \in Pairs |-> Blank] /\ bits' = [p \in Plates |-> {}]
    /\ listed' = {} /\ fresh' = {} /\ met' = {} /\ theirs' = {} /\ heirs' = {}

\* seedPair: the plates of the layout mark each other.
Marked(P) == [p \in Plates |-> bits[p] \cup (IF p \in P THEN P \ {p} ELSE {})]

\* The clock's value for this frame: the last frame's, or a later one.
Aged(s, tick) ==
    IF ~tick THEN s
    ELSE [s EXCEPT !.near = FALSE, !.timestamp = IF @ = "now" THEN "old" ELSE @]

LaidOut(s, P, tick, c) ==
    IF s \subseteq P THEN CommitPair(Seed(Aged(pair[s], tick)), c) ELSE Aged(pair[s], tick)

\* A frame lays out the stacking, visible plates of P, then every listed plate
\* settles the pairs it has marked: one that both have marked, twice.
Frame(P, tick, c, cool) ==
    LET laid == [s \in Pairs |-> LaidOut(s, P, tick, c[s])]
        marks == Marked(P)
        Settlers(s) == {p \in s \cap listed : s \ {p} \subseteq marks[p]}
    IN  /\ P \subseteq listed \ fresh
        /\ pair' = [s \in Pairs |->
                        CASE Cardinality(Settlers(s)) = 0 -> laid[s]
                          [] Cardinality(Settlers(s)) = 1 -> Resolve(laid[s], cool)
                          [] OTHER -> Resolve(Resolve(laid[s], cool), cool)]
        /\ bits' = [p \in Plates |-> IF p \in listed THEN {q \in marks[p] : laid[{p, q}].near}
                                     ELSE marks[p]]
        /\ fresh' = {}
        /\ met' = (IF tick THEN {} ELSE met) \cup {s \in Pairs : s \subseteq P}
        /\ theirs' = theirs \cup {s \in Pairs : pair[s] = Blank}
        /\ heirs' = {s \in heirs : tick => s \subseteq P}
        /\ UNCHANGED listed

Next ==
    \/ \E p \in Plates : Show(p) \/ Hide(p) \/ Retarget(p)
    \/ ClearAll
    \/ \E P \in SUBSET listed, tick \in BOOLEAN, c \in [Pairs -> Contacts], cool \in Cools :
            Frame(P, tick, c, cool)

Spec == Init /\ [][Next]_vars

-------------------------------------------------------------------------------
\* Properties.

\* Two listed plates remember each other only if both were laid out at the
\* present instant and since both were admitted, and then both have the mark
\* by which the memory is settled again: no memory is left that nobody clears.
\* And it is of their present units, a plate that was hidden coming back with
\* none; except that a plate given another unit while it is listed takes over
\* what the last one's was to those it stood with, as long as it is laid out
\* with them at every instant (NamePlates.cpp:800-803 settle no pairs).
MemoryIsTheirs ==
    \A p, q \in listed :
        p # q /\ pair[{p, q}] # Blank =>
            {p, q} \in met /\ p \in bits[q] /\ {p, q} \in theirs \cup heirs
===============================================================================
