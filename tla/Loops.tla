--------------------------------- MODULE Loops ---------------------------------
(***************************************************************************)
(* The components that share no state with another one and go over         *)
(* something again and again: the camera over what is in its way, the      *)
(* mouse over the plates, a plate's fade over the frames, the glyph atlas  *)
(* over glyphs and quads, the font validator over the edges of an outline, *)
(* the login over the words of the command line.  A behaviour is one of    *)
(* any of them, the others rest.                                           *)
(***************************************************************************)
EXTENDS Integers, Sequences, FiniteSets

CONSTANTS
    Models, Opaque, Alphas, MaxAttached,                \* CameraFade
    Plates, Friends, None, MouseModes,                  \* PlateFocus
    Full, NonTarget, Occlusions, Speeds,                \* PlateAlpha
    Codepoints, Width, Height, Unloadable, Bytes,       \* GlyphAtlas
    Lines, Texts, ATLAS_SIZE, ATLAS_GUTTER,
    MAX_ATLAS_PAGES, Half, MaxEvictions,
    Polygons, Bends,                                    \* ContourCheck
    CommandLines, Rosters, Nothing                      \* CommandLine

VARIABLE part    \* the component of this behaviour
VARIABLES
    attached, cameraTarget, walled, current, faded, originals, timers, cameraAlpha,
    live, way, wall, entries, under, focusTarget, focus, mode, focusCombat, raised,
    fadeAlpha, fresh, opaque, locked, focused, blocked, fadeCombat, occlusion,
    onlyPeace, speed, font, atlasDevice, strings, todo, began, tainted, since, outline,
    verdict, launch, args, screen, realm, posted, chosen, logins, roster, offered,
    entered

Camera == INSTANCE CameraFade WITH target <- cameraTarget, alpha <- cameraAlpha
Focus == INSTANCE PlateFocus WITH target <- focusTarget, combat <- focusCombat
Alpha == INSTANCE PlateAlpha WITH alpha <- fadeAlpha, combat <- fadeCombat
Atlas == INSTANCE GlyphAtlas WITH Strings <- Lines, device <- atlasDevice
Contour == INSTANCE ContourCheck WITH Corners <- Polygons
Login == INSTANCE CommandLine WITH Launches <- CommandLines

\* What the proofs need of the constants: finitely many models and plates, None
\* not one of these, levels and percentages within their ranges and the CVars'
\* defaults among them, glyphs that fit an empty page, outlines on the grid,
\* launches whose options of the five names have a value, but for a bare last one.
ASSUME LoopsAssumption ==
    /\ Models \subseteq Nat /\ IsFiniteSet(Models)
    /\ Opaque \in Nat /\ Alphas \subseteq 0..Opaque /\ MaxAttached \in Nat
    /\ IsFiniteSet(Plates) /\ None \notin Plates
    /\ Full \in Nat /\ NonTarget \in 0..100
    /\ Occlusions \subseteq -100..100 /\ 100 \in Occlusions
    /\ Speeds \subseteq 1..100 /\ 25 \in Speeds
    /\ Atlas!Max(Codepoints) \in Nat /\ Codepoints \subseteq 1..Atlas!Max(Codepoints)
    /\ Width \in [Codepoints -> Nat] /\ Height \in [Codepoints -> Nat]
    /\ Bytes \in [Codepoints -> SUBSET Codepoints] /\ Texts \subseteq Seq(Codepoints)
    /\ ATLAS_SIZE \in Nat /\ ATLAS_GUTTER \in 0..ATLAS_SIZE /\ MAX_ATLAS_PAGES \in Nat \ {0}
    /\ \A cp \in Codepoints : /\ Width[cp] + 2 * ATLAS_GUTTER <= ATLAS_SIZE
                              /\ Height[cp] + 2 * ATLAS_GUTTER <= ATLAS_SIZE
    /\ Half \in Nat \ {0} /\ MaxEvictions \in Nat
    /\ Polygons \subseteq Seq([x : Int, y : Int]) \ {<<>>}
    /\ Bends \subseteq Seq([x : Int, y : Int])
    /\ CommandLines \subseteq Seq([key : STRING, value : STRING])
    /\ \A l \in CommandLines : \A i \in 1..Len(l) :
          l[i].key \in Login!Keys /\ l[i].value = Nothing => i = Len(l)

cameraVars == <<attached, cameraTarget, walled, current, faded, originals, timers,
          cameraAlpha, live, way, wall>>
focusVars == <<entries, under, focusTarget, focus, mode, focusCombat, raised>>
fadeVars == <<fadeAlpha, fresh, opaque, locked, focused, blocked, fadeCombat,
          occlusion, onlyPeace, speed>>
atlasVars == <<font, atlasDevice, strings, todo, began, tainted, since>>
contourVars == <<outline, verdict>>
loginVars == <<launch, args, screen, realm, posted, chosen, logins, roster, offered,
          entered>>

Parts == {"camera", "focus", "fade", "atlas", "contour", "login"}

\* A component that rests has one initial state, the outline none at all.
Init ==
    /\ part \in Parts
    /\ Camera!Init
    /\ part # "camera" => cameraTarget = CHOOSE a \in Alphas : TRUE
    /\ Focus!Init
    /\ part # "focus" => /\ entries = (CHOOSE order \in Focus!Orders : TRUE)
                         /\ mode = (CHOOSE m \in MouseModes : TRUE)
    /\ Alpha!Init
    /\ Atlas!Init
    /\ part # "atlas" => \A s \in Lines : strings[s].text = CHOOSE t \in Texts : TRUE
    /\ \/ part # "contour" /\ outline = <<>> /\ verdict = "none"
       \/ part = "contour" /\ Contour!Init
    /\ Login!Init
    /\ part # "login" => launch = CHOOSE given \in CommandLines : TRUE

CameraStep ==
    /\ part = "camera" /\ Camera!Next
    /\ UNCHANGED <<part, focusVars, fadeVars, atlasVars, contourVars, loginVars>>

FocusStep ==
    /\ part = "focus" /\ Focus!Next
    /\ UNCHANGED <<part, cameraVars, fadeVars, atlasVars, contourVars, loginVars>>

AlphaStep ==
    /\ part = "fade" /\ Alpha!Next
    /\ UNCHANGED <<part, cameraVars, focusVars, atlasVars, contourVars, loginVars>>

AtlasStep ==
    /\ part = "atlas" /\ Atlas!Next
    /\ UNCHANGED <<part, cameraVars, focusVars, fadeVars, contourVars, loginVars>>

ContourStep ==
    /\ part = "contour" /\ Contour!Next
    /\ UNCHANGED <<part, cameraVars, focusVars, fadeVars, atlasVars, loginVars>>

LoginStep ==
    /\ part = "login" /\ Login!Next
    /\ UNCHANGED <<part, cameraVars, focusVars, fadeVars, atlasVars, contourVars>>

vars == <<part, cameraVars, focusVars, fadeVars, atlasVars, contourVars, loginVars>>

\* The verdict ends the check of an outline, and the bound on evictions may end
\* a behaviour of the atlas in the middle of a frame.
Over == /\ \/ part = "contour" /\ verdict # "none"
           \/ part = "atlas" /\ todo # {}
        /\ UNCHANGED vars

Next == CameraStep \/ FocusStep \/ AlphaStep \/ AtlasStep \/ ContourStep \/ LoginStep
        \/ Over

\* The hook on the camera's line of sight and the one on a plate's alpha are
\* called again and again, as CameraFade and PlateAlpha say.
Fairness == /\ WF_cameraVars(part = "camera" /\ Camera!Intersect)
            /\ WF_fadeVars(part = "fade" /\ Alpha!SetFrameAlpha)

Spec == Init /\ [][Next]_vars /\ Fairness

-------------------------------------------------------------------------------
\* Properties: those of the components.

\* Every component's variables stay within their types.
TypeOK == /\ Camera!TypeOK /\ Focus!TypeOK /\ Alpha!TypeOK
          /\ Atlas!TypeOK /\ Contour!TypeOK /\ Login!TypeOK

\* A model that has left the way for good is shown as before it was faded
\* (Camera.cpp:57-79).
OutOfTheWayRestored == Camera!OutOfTheWayRestored

\* A raised plate keeps the mouse while the cursor stays on it
\* (NamePlates.cpp:559-577, 753-780).
FocusSticks == Focus!FocusSticks

\* When nothing changes around a plate its fade ends at the alpha asked for
\* (NamePlates.cpp:1011-1019).
FadesToTarget == Alpha!FadesToTarget

\* Geometry that counts as current shows its own glyphs, if the frame that gave
\* it its places evicted no page, fewer than 2 * Half evictions ago, but for old
\* pixels around a glyph on a page that was not cleared when it was emptied
\* (MSDF.cpp:144-168, MSDFFont.cpp:123-208).
CurrentIsRight == Atlas!CurrentIsRight

\* What MSDF.cpp:152 says ("force re-calc geometry if any msdf page was
\* evicted"): geometry that refers to an evicted page is not current.
EvictionForcesRecalc == Atlas!EvictionForcesRecalc

\* An accepted outline has no two edges that cross (MSDFValidator.h:107-148).
AcceptedIsSimple == Contour!AcceptedIsSimple

\* Each option gets the value meant for it, and the named character enters the
\* world once, when it has been in a list (CommandLine.cpp:12-57).
LaunchAsMeant == Login!LaunchAsMeant
===============================================================================
