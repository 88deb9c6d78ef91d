-------------------------------- MODULE Features -------------------------------
(***************************************************************************)
(* Components that share no state with another one: a behaviour is one of  *)
(* any of them, the others rest.  Their variables and constants have other *)
(* names here where two of them use the same one.  Loops has the others.   *)
(***************************************************************************)
EXTENDS Integers, Sequences, FiniteSets

CONSTANTS
    Things, MaxHighlights,                              \* ObjectHighlight
    SapiTokens, VoiceNumbers, MaxRefs,                  \* VoiceList
    Targets, NoTarget, Spots, Range20, MaxLoads,        \* Interaction
    LayoutPlates, Rank, Heights, PlateHeight,           \* PlateLayout
    MaxRaise, Ceiling, Floor, ClampedPlates,
    PairPlates, Span, Cools, Drops,                     \* PairMemory
    Names, Place,                                       \* Patcher
    Faces, FontFiles, MaxAttached, MaxLibraries,        \* FontEngine
    Pointers, Surfaces                                  \* D3DResources

VARIABLE part    \* the component of this behaviour
VARIABLES
    highlightMode, highlightAttached, highlightPresent, lit, installed, inWorld,
    cached, refs, voiceId, interactionPresent, player, interactionMode, requested,
    registered, turns, active, due, unasked, y, offset, layoutListed, layoutFresh,
    smart, clash, pair, bits, pairsListed, pairsFresh, met, theirs,
    heirs, exe, dll, at, path,
    image, result, engineMode, engineAttached, initialized, unsafe, cjk, redirected,
    library, msdf, opened, faces, fonts, d3dDevice, managed, held, surfaced, alive,
    released

Highlight == INSTANCE ObjectHighlight WITH
        Objects <- Things, MaxAttached <- MaxHighlights, mode <- highlightMode,
        attached <- highlightAttached, present <- highlightPresent
Voices == INSTANCE VoiceList WITH
        Tokens <- SapiTokens, Strings <- VoiceNumbers
Interact == INSTANCE Interaction WITH
        Objects <- Targets, None <- NoTarget, Places <- Spots,
        present <- interactionPresent, mode <- interactionMode
Layout == INSTANCE PlateLayout WITH
        Plates <- LayoutPlates, Height <- PlateHeight, Clamped <- ClampedPlates,
        listed <- layoutListed, fresh <- layoutFresh
PairsOf == INSTANCE PairMemory WITH
        Plates <- PairPlates, listed <- pairsListed, fresh <- pairsFresh
Patch == INSTANCE Patcher
Engine == INSTANCE FontEngine WITH
        Files <- FontFiles, mode <- engineMode, attached <- engineAttached
Resources == INSTANCE D3DResources WITH device <- d3dDevice

\* What the proofs need of the constants: objects of the kinds the highlight knows,
\* finitely many voices, numbers for the ones asked for, a guid 0 nobody has, rates
\* and bounds that are not negative, patches that lie in the executable, finitely
\* many plates with numbers for ranks and heights, limits that are numbers.
ASSUME FeaturesAssumption ==
    /\ Things \subseteq Highlight!Object
    /\ IsFiniteSet(SapiTokens) /\ VoiceNumbers \subseteq Int
    /\ {MaxHighlights, MaxRefs, MaxLoads, MaxAttached, MaxLibraries} \subseteq Nat
    /\ NoTarget \notin Targets
    /\ Span \in Nat /\ Cools \subseteq Nat /\ Drops \subseteq Nat
    /\ Names \in Nat /\ Place # <<>> /\ Place \in Seq(1..Patch!Full)
    /\ IsFiniteSet(LayoutPlates) /\ LayoutPlates \subseteq Int
    /\ Rank \in [LayoutPlates -> Int] /\ Heights \subseteq Int
    /\ {PlateHeight, MaxRaise} \subseteq Nat /\ {Ceiling, Floor} \subseteq Int

highlightVars == <<highlightMode, highlightAttached, highlightPresent, lit>>
voicesVars == <<installed, inWorld, cached, refs, voiceId>>
interactionVars == <<interactionPresent, player, interactionMode, requested, registered,
          turns, active, due, unasked>>
layoutVars == <<y, offset, layoutListed, layoutFresh, smart, clash>>
pairsVars == <<pair, bits, pairsListed, pairsFresh, met, theirs, heirs>>
patcherVars == <<exe, dll, at, path, image, result>>
engineVars == <<engineMode, engineAttached, initialized, unsafe, cjk, redirected,
          library, msdf, opened, faces, fonts>>
d3dVars == <<d3dDevice, managed, held, surfaced, alive, released>>

Parts == {"highlight", "voices", "interaction", "layout", "pairs", "patcher", "engine",
          "d3d"}

\* A component that rests has one initial state.
Init ==
    /\ part \in Parts
    /\ Highlight!Init
    /\ Voices!Init
    /\ part # "voices" => installed = <<>>
    /\ Interact!Init
    /\ Layout!Init
    /\ part # "layout" => \A p \in LayoutPlates : y[p] = CHOOSE h \in Heights : TRUE
    /\ PairsOf!Init
    /\ Patch!Init
    /\ part # "patcher" => exe = [n \in 1..Names |-> Patch!None] /\ ~dll.game /\ ~dll.app
    /\ Engine!Init
    /\ part # "engine" => cjk = FALSE
    /\ Resources!Init

HighlightStep ==
    /\ part = "highlight" /\ Highlight!Next
    /\ UNCHANGED <<part, voicesVars, interactionVars, layoutVars, pairsVars,
                     patcherVars, engineVars, d3dVars>>

VoicesStep ==
    /\ part = "voices" /\ Voices!Next
    /\ UNCHANGED <<part, highlightVars, interactionVars, layoutVars, pairsVars,
                     patcherVars, engineVars, d3dVars>>

InteractStep ==
    /\ part = "interaction" /\ Interact!Next
    /\ UNCHANGED <<part, highlightVars, voicesVars, layoutVars, pairsVars,
                     patcherVars, engineVars, d3dVars>>

LayoutStep ==
    /\ part = "layout" /\ Layout!Next
    /\ UNCHANGED <<part, highlightVars, voicesVars, interactionVars, pairsVars,
                     patcherVars, engineVars, d3dVars>>

PairsOfStep ==
    /\ part = "pairs" /\ PairsOf!Next
    /\ UNCHANGED <<part, highlightVars, voicesVars, interactionVars, layoutVars,
                     patcherVars, engineVars, d3dVars>>

PatchStep ==
    /\ part = "patcher" /\ Patch!Next
    /\ UNCHANGED <<part, highlightVars, voicesVars, interactionVars, layoutVars,
                     pairsVars, engineVars, d3dVars>>

EngineStep ==
    /\ part = "engine" /\ Engine!Next
    /\ UNCHANGED <<part, highlightVars, voicesVars, interactionVars, layoutVars,
                     pairsVars, patcherVars, d3dVars>>

ResourcesStep ==
    /\ part = "d3d" /\ Resources!Next
    /\ UNCHANGED <<part, highlightVars, voicesVars, interactionVars, layoutVars,
                     pairsVars, patcherVars, engineVars>>

vars == <<part, highlightVars, voicesVars, interactionVars, layoutVars, pairsVars,
          patcherVars, engineVars, d3dVars>>

Next == HighlightStep \/ VoicesStep \/ InteractStep \/ LayoutStep \/ PairsOfStep
        \/ PatchStep \/ EngineStep \/ ResourcesStep

Spec == Init /\ [][Next]_vars

-------------------------------------------------------------------------------
\* Properties: those of the components.

\* Every component's variables stay within their types.
TypeOK ==
    /\ Highlight!TypeOK /\ Voices!TypeOK /\ Interact!TypeOK /\ Layout!TypeOK
    /\ PairsOf!TypeOK /\ Patch!TypeOK /\ Engine!TypeOK /\ Resources!TypeOK

\* While the mode is on, exactly the objects it names are lit besides the
\* client's own, whatever the order of modes (Misc.cpp:221-277).
LitAsAsked == Highlight!LitAsAsked

\* Every cached voice holds a reference on its token, through refreshes and
\* world changes (VoiceChat.cpp:146, 182-203, 533).
CachedTokensHeld == Voices!CachedTokensHeld

\* One call leads to one click at most, on what the last successful call chose
\* (Misc.cpp:79-87, 111-180).
ClicksAsAsked == Interact!ClicksAsAsked

\* In the standard modes a frame leaves no two colliding plates overlapping,
\* except where the limits lower the upper or lift the lower one afterwards,
\* and except for two of which a third one outranks one
\* (NamePlates.cpp:208-228, 847-900).
StacksApart == Layout!StacksApart

\* Listed plates remember only whom they were laid out with at this instant,
\* both can settle what they remember, and it is of their present units but
\* for plates given another unit while listed (NamePlates.cpp:334-409,
\* 517-557, 800-816).
MemoryIsTheirs == PairsOf!MemoryIsTheirs

\* The patcher leaves no whole executable with some of its patches
\* (AwesomeWotlkPatch/Main.cpp:19-40).
AllOrNothing == Patch!AllOrNothing

\* No FreeType or msdfgen library is handed what another one made
\* (MSDF.cpp:434-498, MSDFFont.cpp:29-57).
HandlesStayHome == Engine!HandlesStayHome

\* No tracked resource is left when the device is reset (D3D.cpp:51-62).
NothingAliveAtReset == Resources!NothingAliveAtReset
===============================================================================
