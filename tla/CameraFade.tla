------------------------------ MODULE CameraFade ------------------------------
(***************************************************************************)
(* cameraIndirectVisibility: the camera passes through models between it   *)
(* and the player and fades them.  The hook of the camera's intersection   *)
(* test finds one model a call: those found already (g_models_current) are *)
(* skipped by the collision filters until a call finds none.  A model not  *)
(* found for longer than such a round takes is given its alpha back.       *)
(*                                                                         *)
(* Alphas are levels: a step of a quarter of the way is one level, and     *)
(* the step that comes within 0.01 arrives.  Models are numbered from the  *)
(* player outwards.  Freed memory is what IsBadReadPtr can tell; a model   *)
(* does not take the address of one that is still being faded.             *)
(***************************************************************************)
EXTENDS Naturals, Integers, FiniteSets

CONSTANTS Models,      \* a set of numbers
          Opaque,      \* the level of a model's own alpha
          Alphas,      \* the levels cameraIndirectAlpha is set to
          MaxAttached  \* bound on the attaches outstanding

VARIABLES attached,   \* attaches outstanding (all three hooks together)
          target,     \* g_indirectAlpha
          walled,     \* g_actual_distance < 1: a wall ended the last round
          current,    \* g_models_current
          faded,      \* g_models_being_faded
          originals,  \* g_models_original_alphas
          timers,     \* g_models_grace_timers
          alpha,      \* m_alpha of each model
          live,       \* models whose memory is there
          way,        \* models between player and camera, or the first wall
          wall        \* there is a wall behind them

sets == <<current, faded, originals, timers>>
scene == <<live, way, wall>>
vars == <<attached, target, walled, sets, alpha, scene>>

MaxTimer == Cardinality(Models) + 2   \* a bound beyond every threshold

TypeOK ==
    /\ attached \in 0..MaxAttached
    /\ target \in Alphas
    /\ walled \in BOOLEAN /\ wall \in BOOLEAN
    /\ current \subseteq Models /\ live \subseteq Models /\ way \subseteq live
    /\ faded \subseteq Models /\ DOMAIN originals = faded
    /\ \A m \in faded : originals[m] \in 0..Opaque
    /\ faded \subseteq DOMAIN timers /\ DOMAIN timers \subseteq Models
    /\ \A m \in DOMAIN timers : timers[m] \in 0..MaxTimer
    /\ alpha \in [Models -> 0..Opaque]

Init ==
    /\ attached = 0 /\ target \in Alphas /\ walled = FALSE
    /\ current = {} /\ faded = {} /\ originals = <<>> /\ timers = <<>>
    /\ alpha = [m \in Models |-> Opaque]
    /\ live = Models /\ way = {} /\ wall = FALSE

-------------------------------------------------------------------------------
\* The scene changes between two calls.

Move(W, hasWall) ==
    /\ way' = W /\ wall' = hasWall
    /\ UNCHANGED <<attached, target, walled, sets, alpha, live>>

Unload(m) ==
    /\ m \in live
    /\ live' = live \ {m} /\ way' = way \ {m}
    /\ UNCHANGED <<attached, target, walled, sets, alpha, wall>>

Load(m) ==
    /\ m \notin live /\ m \notin faded
    /\ live' = live \cup {m}
    /\ alpha' = [alpha EXCEPT ![m] = Opaque]
    /\ UNCHANGED <<attached, target, walled, sets, way, wall>>

-------------------------------------------------------------------------------
\* CGWorldFrame_IntersectHk.

Toward(a, goal) == IF a < goal THEN a + 1 ELSE IF a > goal THEN a - 1 ELSE a

With(f, k, v) == [i \in DOMAIN f \cup {k} |-> IF i = k THEN v ELSE f[i]]
Only(f, S) == [i \in DOMAIN f \cap S |-> f[i]]

Nearest(S) == CHOOSE m \in S : \A k \in S : m <= k

\* A round finds each model in the way once and nothing once.
CleanupTimer(F) == Cardinality(F) + 1

\* The clean-up over being_faded, then one tick for every timer.
Cleanup(F, O, T, A) ==
    LET back == {m \in F \cap live : T[m] > CleanupTimer(F)}
        moved == [m \in Models |-> IF m \in back THEN Toward(A[m], O[m]) ELSE A[m]]
        done == {m \in back : moved[m] = O[m]}
        kept == (F \ done) \cap live
        left == Only(T, DOMAIN T \ (F \ kept))
    IN  /\ faded' = kept
        /\ originals' = Only(O, kept)
        /\ timers' = [m \in DOMAIN left |-> IF left[m] < MaxTimer THEN left[m] + 1 ELSE MaxTimer]
        /\ alpha' = moved

\* mutant: the alpha is noted after the first step of the fade
NotedLate(m) ==
    IF m \in DOMAIN originals THEN originals ELSE With(originals, m, Toward(alpha[m], target))

\* The alpha a model had before it was first faded.
Noted(m) == IF m \in DOMAIN originals THEN originals ELSE With(originals, m, alpha[m])

\* A model is hit.
FindModel ==
    LET found == way \ current IN
    /\ found # {}
    /\ LET m == Nearest(found) IN
        /\ current' = current \cup {m}
        /\ Cleanup(faded \cup {m}, Noted(m), With(timers, m, 0),
                   [alpha EXCEPT ![m] = Toward(@, target)])
    /\ UNCHANGED walled

\* Something else is hit, or nothing: the round is over.  With nothing hit
\* and nothing faded the hook returns at once.
EndRound ==
    /\ way \subseteq current
    /\ IF ~wall /\ faded = {}
       THEN UNCHANGED <<sets, alpha, walled>>
       ELSE /\ current' = {} /\ walled' = wall
            /\ Cleanup(faded, originals, timers, alpha)

Intersect ==
    /\ attached > 0
    /\ FindModel \/ EndRound
    /\ UNCHANGED <<attached, target, scene>>

-------------------------------------------------------------------------------
\* The CVar handlers.

Attach(n) == n + 1
Detach(n) == IF n = 0 THEN 0 ELSE n - 1

\* mutant: the alphas noted stay
OffKeepsOriginals ==
    /\ alpha' = [m \in Models |-> IF m \in faded THEN originals[m] ELSE alpha[m]]
    /\ faded' = {} /\ current' = {}
    /\ attached' = Detach(attached)
    /\ UNCHANGED <<originals, timers>>

\* The value 0: faded models get their alpha back; timers stay.
Off ==
    /\ alpha' = [m \in Models |-> IF m \in faded THEN originals[m] ELSE alpha[m]]
    /\ faded' = {} /\ originals' = <<>> /\ current' = {}
    /\ attached' = Detach(attached)
    /\ UNCHANGED timers

\* Every other value, 2 and -1 as well: the handler asks for atoi(value).
On ==
    /\ attached < MaxAttached
    /\ attached' = Attach(attached)
    /\ UNCHANGED <<sets, alpha>>

CVarHandler_cameraIndirectVisibility ==
    /\ Off \/ On
    /\ UNCHANGED <<target, walled, scene>>

CVarHandler_cameraIndirectAlpha(a) ==
    /\ target' = a
    /\ UNCHANGED <<attached, walled, sets, alpha, scene>>

Next ==
    \/ \E W \in SUBSET live, b \in BOOLEAN : Move(W, b)
    \/ \E m \in Models : Unload(m) \/ Load(m)
    \/ Intersect
    \/ CVarHandler_cameraIndirectVisibility
    \/ \E a \in Alphas : CVarHandler_cameraIndirectAlpha(a)

\* The engine tests the camera's line of sight in every frame.
Fairness == WF_vars(Intersect)

Spec == Init /\ [][Next]_vars /\ Fairness

-------------------------------------------------------------------------------
\* Properties.

\* A model that has left the way for good is shown as it was before it was
\* faded, as long as the hook is called, whatever else is in the way or
\* comes into it, and in whatever order the option is switched.
OutOfTheWayRestored ==
    \A m \in Models :
        <>[](m \notin way /\ attached > 0 /\ m \in live)
            => []<>(m \notin faded /\ alpha[m] = Opaque)
===============================================================================
