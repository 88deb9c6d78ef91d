------------------------------ MODULE PlateAlpha ------------------------------
(***************************************************************************)
(* The transparency of one nameplate: CSimpleFrame__SetFrameAlpha_siteHk   *)
(* gives the engine the plate's next alpha, a step nearer to the one that  *)
(* target, mouse-over and occlusion ask for.  Alphas are 0..Full (255 in   *)
(* the code), CVars in hundredths.                                         *)
(***************************************************************************)
EXTENDS Integers

CONSTANTS Full, NonTarget, Occlusions, Speeds   \* Occlusions: -100..100, Speeds: 1..100

VARIABLES alpha,     \* m_alpha
          fresh,     \* NP_IS_FRESH
          opaque,    \* NP_IS_OPAQUE
          locked,    \* whose plate the target's is: "none", "this" or "other"
          focused,   \* g_nameplateFocus is this plate
          blocked,   \* TraceLine hits something between camera and unit
          combat,    \* InCombatLockdown
          occlusion, \* value of nameplateOcclusionAlpha
          onlyPeace, \* g_occlusionMode is OC_NOT_IN_COMBAT
          speed      \* g_alphaSpd

scene == <<opaque, locked, focused, blocked, combat, occlusion, onlyPeace, speed>>
vars == <<alpha, fresh, scene>>

TypeOK ==
    /\ alpha \in 0..Full /\ fresh \in BOOLEAN /\ opaque \in BOOLEAN
    /\ locked \in {"none", "this", "other"} /\ focused \in BOOLEAN
    /\ blocked \in BOOLEAN /\ combat \in BOOLEAN
    /\ occlusion \in Occlusions /\ onlyPeace \in BOOLEAN /\ speed \in Speeds

Init ==
    /\ alpha = Full /\ fresh = TRUE /\ opaque = FALSE
    /\ locked = "none" /\ focused = FALSE /\ blocked = FALSE /\ combat = FALSE
    /\ occlusion = 100 /\ onlyPeace = FALSE /\ speed = 25

Abs(n) == IF n < 0 THEN -n ELSE n
Lower(a, b) == IF a < b THEN a ELSE b
Part(n, percent) == (n * percent) \div 100    \* static_cast<uint8_t>

-------------------------------------------------------------------------------
\* What the alpha should be.

IsTargetOrMouseOver == IF locked = "none" THEN focused ELSE locked = "this"

Unblocked == IF locked = "other" THEN Part(Full, NonTarget) ELSE Full

Occludes == /\ ~IsTargetOrMouseOver /\ Abs(occlusion) < 100
            /\ ~onlyPeace \/ ~combat
            /\ ~opaque /\ blocked

\* A negative nameplateOcclusionAlpha is a ceiling, a positive one a factor.
TargetAlpha ==
    IF ~Occludes THEN Unblocked
    ELSE IF occlusion < 0 THEN Lower(Unblocked, Part(Full, Abs(occlusion)))
    ELSE Part(Unblocked, occlusion)

\* mutant: a step is not made at least 1
PlainStep(from, goal) == 100 * from + (goal - from) * speed

\* Where a step leads, in hundredths: a share of the way, but 1 at least.
Stepped(from, goal) ==
    LET step == (goal - from) * speed IN
    100 * from + (IF Abs(step) >= 100 THEN step ELSE IF step > 0 THEN 100 ELSE -100)

\* The step is cut to a byte; one that comes within 1 or passes arrives.
NextAlpha(from, goal) ==
    LET to == Stepped(from, goal) IN
    IF \/ from = goal
       \/ Abs(100 * goal - to) < 100
       \/ goal > from /\ to > 100 * goal
       \/ goal < from /\ to < 100 * goal
    THEN goal ELSE to \div 100

SetFrameAlpha ==
    /\ alpha' = IF fresh THEN TargetAlpha ELSE NextAlpha(alpha, TargetAlpha)
    /\ fresh' = FALSE
    /\ UNCHANGED scene

-------------------------------------------------------------------------------
\* What changes around it.

\* The plate is admitted for a unit (UpdateNamePlatePositionsHk).
Admit == /\ fresh' = TRUE /\ opaque' = FALSE
         /\ UNCHANGED <<alpha, locked, focused, blocked, combat, occlusion, onlyPeace, speed>>

SetOcclusionEnabled ==
    /\ opaque' = ~opaque
    /\ UNCHANGED <<alpha, fresh, locked, focused, blocked, combat, occlusion, onlyPeace, speed>>

Look == /\ \/ locked' \in {"none", "this", "other"} /\ UNCHANGED <<focused, blocked, combat>>
           \/ focused' = ~focused /\ UNCHANGED <<locked, blocked, combat>>
           \/ blocked' = ~blocked /\ UNCHANGED <<locked, focused, combat>>
           \/ combat' = ~combat /\ UNCHANGED <<locked, focused, blocked>>
        /\ UNCHANGED <<alpha, fresh, opaque, occlusion, onlyPeace, speed>>

\* nameplateOcclusionAlpha, nameplateOcclusionMode, nameplateAlphaSpeed.
Configure == /\ \/ occlusion' \in Occlusions /\ UNCHANGED <<onlyPeace, speed>>
                \/ onlyPeace' = ~onlyPeace /\ UNCHANGED <<occlusion, speed>>
                \/ speed' \in Speeds /\ UNCHANGED <<occlusion, onlyPeace>>
             /\ UNCHANGED <<alpha, fresh, opaque, locked, focused, blocked, combat>>

Next == SetFrameAlpha \/ Admit \/ SetOcclusionEnabled \/ Look \/ Configure

\* The engine sets a shown plate's alpha in every update.
Fairness == WF_vars(SetFrameAlpha)

Spec == Init /\ [][Next]_vars /\ Fairness

-------------------------------------------------------------------------------
\* Properties.

\* When what is around a plate stays as it is, the plate's alpha reaches the
\* one asked for: no fade stops short on a byte or goes back and forth about
\* it, whatever the speed (NamePlates.cpp:1011-1019).
FadesToTarget == []<><<TRUE>>_scene \/ []<>(alpha = TargetAlpha)
===============================================================================
