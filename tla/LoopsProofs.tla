------------------------------ MODULE LoopsProofs ------------------------------
(***************************************************************************)
(* The components that go over something again and again, for every value  *)
(* of their constants: what the camera's and the fade's liveness rest on   *)
(* (a faded model's own alpha stays known, every step leads nearer), that  *)
(* a raised plate keeps the mouse, and what the validator accepts, the     *)
(* command line understands and the glyph atlas shows.                     *)
(***************************************************************************)
EXTENDS Loops, Induction, SequenceTheorems

-------------------------------------------------------------------------------
\* A step of the sum is a step of a component, or leaves its variables alone.

LEMMA CameraOnly == [Next]_vars => [Camera!Next]_cameraVars
<1> SUFFICES ASSUME [Next]_vars PROVE [Camera!Next]_cameraVars
    OBVIOUS
<1>1. CASE CameraStep
    BY <1>1 DEF CameraStep
<1>2. CASE ~CameraStep
    BY <1>2 DEF Next, vars, FocusStep, AlphaStep, AtlasStep, ContourStep, LoginStep, Over,
        cameraVars
<1> QED
    BY <1>1, <1>2

LEMMA FocusOnly == [Next]_vars => [Focus!Next]_focusVars
<1> SUFFICES ASSUME [Next]_vars PROVE [Focus!Next]_focusVars
    OBVIOUS
<1>1. CASE FocusStep
    BY <1>1 DEF FocusStep
<1>2. CASE ~FocusStep
    BY <1>2 DEF Next, vars, CameraStep, AlphaStep, AtlasStep, ContourStep, LoginStep, Over,
        focusVars
<1> QED
    BY <1>1, <1>2

LEMMA AlphaOnly == [Next]_vars => [Alpha!Next]_fadeVars
<1> SUFFICES ASSUME [Next]_vars PROVE [Alpha!Next]_fadeVars
    OBVIOUS
<1>1. CASE AlphaStep
    BY <1>1 DEF AlphaStep
<1>2. CASE ~AlphaStep
    BY <1>2 DEF Next, vars, CameraStep, FocusStep, AtlasStep, ContourStep, LoginStep, Over,
        fadeVars
<1> QED
    BY <1>1, <1>2

LEMMA AtlasOnly == [Next]_vars => [Atlas!Next]_atlasVars
<1> SUFFICES ASSUME [Next]_vars PROVE [Atlas!Next]_atlasVars
    OBVIOUS
<1>1. CASE AtlasStep
    BY <1>1 DEF AtlasStep
<1>2. CASE ~AtlasStep
    BY <1>2 DEF Next, vars, CameraStep, FocusStep, AlphaStep, ContourStep, LoginStep, Over,
        atlasVars
<1> QED
    BY <1>1, <1>2

LEMMA LoginOnly == [Next]_vars => [Login!Next]_loginVars
<1> SUFFICES ASSUME [Next]_vars PROVE [Login!Next]_loginVars
    OBVIOUS
<1>1. CASE LoginStep
    BY <1>1 DEF LoginStep
<1>2. CASE ~LoginStep
    BY <1>2 DEF Next, vars, CameraStep, FocusStep, AlphaStep, AtlasStep, ContourStep, Over,
        loginVars
<1> QED
    BY <1>1, <1>2

LEMMA ContourOnly == [Next]_vars /\ ~ContourStep => part' = part /\ UNCHANGED contourVars
    BY DEF Next, vars, CameraStep, FocusStep, AlphaStep, AtlasStep, LoginStep, Over

-------------------------------------------------------------------------------
\* The models in the camera's way.

\* A model that is there is being faded, with the alpha noted that it came with,
\* or shows that alpha.
OwnAlpha ==
    \A m \in Models : /\ m \in faded => originals[m] = Opaque
                      /\ m \in live \ faded => cameraAlpha[m] = Opaque

CameraInv == Camera!TypeOK /\ OwnAlpha

LEMMA Timers == Camera!MaxTimer \in Nat
<1>1. Cardinality(Models) \in Nat /\ Camera!Cardinality(Models) = Cardinality(Models)
    BY LoopsAssumption, FS_CardinalityType DEF Camera!Cardinality, Cardinality
<1> QED
    BY <1>1 DEF Camera!MaxTimer

LEMMA CameraInit == Camera!Init => CameraInv
<1> SUFFICES ASSUME Camera!Init PROVE CameraInv
    OBVIOUS
<1>1. DOMAIN originals = {} /\ DOMAIN timers = {}
    BY DEF Camera!Init
<1>2. Camera!TypeOK
  <2>1. /\ attached = 0 /\ cameraTarget \in Alphas /\ walled = FALSE /\ wall = FALSE
        /\ current = {} /\ faded = {} /\ live = Models /\ way = {}
        /\ cameraAlpha = [m \in Models |-> Opaque]
    BY DEF Camera!Init
  <2>2. cameraAlpha \in [Models -> 0..Opaque] /\ attached \in 0..MaxAttached
    BY <2>1, LoopsAssumption
  <2> QED
    BY <1>1, <2>1, <2>2 DEF Camera!TypeOK
<1>3. OwnAlpha
    BY DEF Camera!Init, OwnAlpha
<1> QED
    BY <1>2, <1>3 DEF CameraInv

LEMMA TowardType == \A a, goal \in 0..Opaque : Camera!Toward(a, goal) \in 0..Opaque
    BY LoopsAssumption DEF Camera!Toward

\* The nearest of some models is one of them.
LEMMA NearestIs ==
    ASSUME NEW S \in SUBSET Models, S # {}
    PROVE  Camera!Nearest(S) \in S
<1>1. \E m \in S : \A k \in S : m <= k
    BY LoopsAssumption, Least
<1> QED
    BY <1>1 DEF Camera!Nearest

\* The clean-up gives up a model only when it is gone or shows its own alpha.
LEMMA CleanupKeeps ==
    ASSUME live \subseteq Models, NEW F \in SUBSET Models, NEW O, NEW T,
           NEW A \in [Models -> 0..Opaque],
           DOMAIN O = F, \A m \in F : O[m] = Opaque,
           F \subseteq DOMAIN T, DOMAIN T \subseteq Models,
           \A m \in DOMAIN T : T[m] \in 0..Camera!MaxTimer,
           \A m \in live \ F : A[m] = Opaque,
           Camera!Cleanup(F, O, T, A)
    PROVE  /\ faded' \subseteq Models /\ DOMAIN originals' = faded'
           /\ \A m \in faded' : originals'[m] = Opaque
           /\ faded' \subseteq DOMAIN timers' /\ DOMAIN timers' \subseteq Models
           /\ \A m \in DOMAIN timers' : timers'[m] \in 0..Camera!MaxTimer
           /\ cameraAlpha' \in [Models -> 0..Opaque]
           /\ \A m \in live \ faded' : cameraAlpha'[m] = Opaque
<1> DEFINE back == {m \in F \cap live : T[m] > Camera!CleanupTimer(F)}
           moved == [m \in Models |-> IF m \in back THEN Camera!Toward(A[m], O[m]) ELSE A[m]]
           done == {m \in back : moved[m] = O[m]}
           kept == (F \ done) \cap live
           left == Camera!Only(T, DOMAIN T \ (F \ kept))
<1>1. /\ faded' = kept /\ originals' = Camera!Only(O, kept) /\ cameraAlpha' = moved
      /\ timers' = [m \in DOMAIN left |->
                       IF left[m] < Camera!MaxTimer THEN left[m] + 1 ELSE Camera!MaxTimer]
    BY DEF Camera!Cleanup
<1>2. moved \in [Models -> 0..Opaque]
  <2>1. \A m \in F : O[m] \in 0..Opaque
    BY LoopsAssumption
  <2> QED
    BY <2>1, TowardType
<1>3. kept \subseteq F /\ kept \subseteq Models
    OBVIOUS
<1>4. DOMAIN originals' = kept /\ \A m \in kept : originals'[m] = Opaque
    BY <1>1, <1>3 DEF Camera!Only
<1>5. /\ DOMAIN left = DOMAIN T \ (F \ kept)
      /\ \A m \in DOMAIN left : left[m] = T[m] /\ m \in DOMAIN T
    BY DEF Camera!Only
<1>6. \A m \in live \ kept : moved[m] = Opaque
  <2> SUFFICES ASSUME NEW m \in live, m \notin kept PROVE moved[m] = Opaque
    OBVIOUS
  <2>1. CASE m \in F
    BY <2>1
  <2>2. CASE m \notin F
    BY <2>2
  <2> QED
    BY <2>1, <2>2
<1>7. kept \subseteq DOMAIN left /\ DOMAIN left \subseteq Models
    BY <1>3, <1>5
<1> HIDE DEF back, moved, done, kept, left
<1>8. DOMAIN timers' = DOMAIN left /\ \A m \in DOMAIN left : timers'[m] \in 0..Camera!MaxTimer
    BY <1>1, <1>5, Timers
<1> QED
    BY <1>1, <1>2, <1>3, <1>4, <1>6, <1>7, <1>8

LEMMA IntersectKeeps == CameraInv /\ Camera!Intersect => CameraInv'
<1> SUFFICES ASSUME CameraInv, Camera!Intersect PROVE CameraInv'
    OBVIOUS
<1> USE DEF CameraInv, OwnAlpha
<1>0. /\ live \subseteq Models /\ faded \subseteq Models /\ current \subseteq Models
      /\ DOMAIN originals = faded /\ faded \subseteq DOMAIN timers /\ DOMAIN timers \subseteq Models
      /\ \A m \in DOMAIN timers : timers[m] \in 0..Camera!MaxTimer
      /\ cameraAlpha \in [Models -> 0..Opaque] /\ cameraTarget \in 0..Opaque
      /\ \A m \in faded : originals[m] = Opaque
      /\ \A m \in live \ faded : cameraAlpha[m] = Opaque
    BY LoopsAssumption DEF Camera!TypeOK
<1>1. UNCHANGED <<attached, cameraTarget, live, way, wall>>
    BY DEF Camera!Intersect, Camera!scene
<1>2. CASE Camera!FindModel
  <2> DEFINE found == way \ current
             m == Camera!Nearest(found)
             O == Camera!Noted(m)
             T == Camera!With(timers, m, 0)
             A == [cameraAlpha EXCEPT ![m] = Camera!Toward(@, cameraTarget)]
  <2>1. /\ found # {} /\ current' = current \cup {m} /\ walled' = walled
        /\ Camera!Cleanup(faded \cup {m}, O, T, A)
    BY <1>2 DEF Camera!FindModel
  <2>2. m \in way /\ m \in live /\ m \in Models
    <3>1. found \subseteq Models /\ way \subseteq live
      BY <1>0 DEF Camera!TypeOK
    <3> QED
      BY <1>0, <2>1, <3>1, NearestIs
  <2>3. DOMAIN O = faded \cup {m} /\ \A k \in faded \cup {m} : O[k] = Opaque
    <3> HIDE DEF m
    <3> QED
      BY <1>0, <2>2 DEF Camera!Noted, Camera!With
  <2>4. /\ DOMAIN T = DOMAIN timers \cup {m}
        /\ \A k \in DOMAIN T : T[k] \in 0..Camera!MaxTimer
    <3> HIDE DEF m
    <3> QED
      BY <1>0, Timers DEF Camera!With
  <2>5. A \in [Models -> 0..Opaque] /\ \A k \in live \ (faded \cup {m}) : A[k] = Opaque
    <3> HIDE DEF m
    <3> QED
      BY <1>0, <2>2, TowardType
  <2> HIDE DEF found, m, O, T, A
  <2>6. /\ faded' \subseteq Models /\ DOMAIN originals' = faded'
        /\ \A k \in faded' : originals'[k] = Opaque
        /\ faded' \subseteq DOMAIN timers' /\ DOMAIN timers' \subseteq Models
        /\ \A k \in DOMAIN timers' : timers'[k] \in 0..Camera!MaxTimer
        /\ cameraAlpha' \in [Models -> 0..Opaque]
        /\ \A k \in live \ faded' : cameraAlpha'[k] = Opaque
    <3>1. faded \cup {m} \in SUBSET Models /\ faded \cup {m} \subseteq DOMAIN T /\ DOMAIN T \subseteq Models
      BY <1>0, <2>2, <2>4
    <3> QED
      BY <1>0, <2>1, <2>3, <2>4, <2>5, <3>1, CleanupKeeps
  <2>7. Camera!TypeOK'
    BY <1>0, <1>1, <2>1, <2>2, <2>6, LoopsAssumption DEF Camera!TypeOK, Camera!MaxTimer
  <2> QED
    BY <1>1, <2>6, <2>7
<1>3. CASE Camera!EndRound
  <2>1. CASE UNCHANGED <<current, faded, originals, timers, cameraAlpha, walled>>
    BY <1>1, <2>1 DEF Camera!TypeOK, Camera!MaxTimer
  <2>2. CASE /\ current' = {} /\ walled' = wall
             /\ Camera!Cleanup(faded, originals, timers, cameraAlpha)
    <3>1. /\ faded' \subseteq Models /\ DOMAIN originals' = faded'
          /\ \A k \in faded' : originals'[k] = Opaque
          /\ faded' \subseteq DOMAIN timers' /\ DOMAIN timers' \subseteq Models
          /\ \A k \in DOMAIN timers' : timers'[k] \in 0..Camera!MaxTimer
          /\ cameraAlpha' \in [Models -> 0..Opaque]
          /\ \A k \in live \ faded' : cameraAlpha'[k] = Opaque
      BY <1>0, <2>2, CleanupKeeps
    <3>2. Camera!TypeOK'
      BY <1>1, <2>2, <3>1, LoopsAssumption DEF Camera!TypeOK, Camera!MaxTimer
    <3> QED
      BY <1>1, <3>1, <3>2
  <2> QED
    BY <1>3, <2>1, <2>2 DEF Camera!EndRound, Camera!sets
<1> QED
    BY <1>2, <1>3 DEF Camera!Intersect

LEMMA CameraKeeps == CameraInv /\ [Camera!Next]_cameraVars => CameraInv'
<1> SUFFICES ASSUME CameraInv, [Camera!Next]_cameraVars PROVE CameraInv'
    OBVIOUS
<1> USE DEF CameraInv, OwnAlpha, Camera!TypeOK, Camera!MaxTimer
<1>1. CASE \E W \in SUBSET live, b \in BOOLEAN : Camera!Move(W, b)
    BY <1>1 DEF Camera!Move, Camera!sets
<1>2. CASE \E m \in Models : Camera!Unload(m)
    BY <1>2 DEF Camera!Unload, Camera!sets
<1>3. CASE \E m \in Models : Camera!Load(m)
  <2>1. PICK m \in Models : Camera!Load(m)
    BY <1>3
  <2>2. /\ live' = live \cup {m} /\ cameraAlpha' = [cameraAlpha EXCEPT ![m] = Opaque]
        /\ UNCHANGED <<attached, cameraTarget, walled, current, faded, originals, timers, way, wall>>
    BY <2>1 DEF Camera!Load, Camera!sets
  <2> QED
    BY <2>2, LoopsAssumption
<1>4. CASE Camera!Intersect
    BY <1>4, IntersectKeeps
<1>5. CASE Camera!CVarHandler_cameraIndirectVisibility
  <2>1. UNCHANGED <<cameraTarget, walled, live, way, wall>>
    BY <1>5 DEF Camera!CVarHandler_cameraIndirectVisibility, Camera!scene
  <2>2. CASE Camera!Off
    <3>1. /\ cameraAlpha' = [m \in Models |-> IF m \in faded THEN originals[m] ELSE cameraAlpha[m]]
          /\ faded' = {} /\ current' = {} /\ timers' = timers
          /\ attached' = Camera!Detach(attached) /\ DOMAIN originals' = {}
      BY <2>2 DEF Camera!Off
    <3>2. attached' \in 0..MaxAttached
      BY <3>1, LoopsAssumption DEF Camera!Detach
    <3>3. cameraAlpha' \in [Models -> 0..Opaque] /\ \A m \in live : cameraAlpha'[m] = Opaque
      BY <3>1
    <3> QED
      BY <2>1, <3>1, <3>2, <3>3
  <2>3. CASE Camera!On
    <3>1. /\ attached' \in 0..MaxAttached
          /\ UNCHANGED <<current, faded, originals, timers, cameraAlpha>>
      BY <2>3, LoopsAssumption DEF Camera!On, Camera!Attach, Camera!sets
    <3> QED
      BY <2>1, <3>1
  <2> QED
    BY <1>5, <2>2, <2>3 DEF Camera!CVarHandler_cameraIndirectVisibility
<1>6. CASE \E a \in Alphas : Camera!CVarHandler_cameraIndirectAlpha(a)
    BY <1>6 DEF Camera!CVarHandler_cameraIndirectAlpha, Camera!sets, Camera!scene
<1>7. CASE UNCHANGED cameraVars
    BY <1>7 DEF cameraVars
<1> QED
    BY <1>1, <1>2, <1>3, <1>4, <1>5, <1>6, <1>7 DEF Camera!Next

\* Whatever unloads, comes into the way or is switched meanwhile, a model that is
\* there shows its own alpha or is being faded with that alpha noted: no note is
\* taken of a model half faded, and none given up before it is restored
\* (Camera.cpp:57-79, 116-146).
THEOREM OwnAlphasKept == Spec => []OwnAlpha
<1>1. Init => CameraInv
    BY CameraInit DEF Init
<1>2. CameraInv /\ [Next]_vars => CameraInv'
    BY CameraOnly, CameraKeeps
<1>3. CameraInv => OwnAlpha
    BY DEF CameraInv
<1> QED
    BY <1>1, <1>2, <1>3, PTL DEF Spec

-------------------------------------------------------------------------------
\* The plate under the mouse.

\* The order is the one the last frame has made, with the raised plate first but
\* for the target.
FocusInv == Focus!TypeOK /\ (raised # None => Focus!Sorted(entries, raised))

\* An order has numbers for its places and every plate at one of them.
LEMMA OrderIs ==
    ASSUME NEW order \in Focus!Orders
    PROVE  /\ DOMAIN order \subseteq Nat \ {0} /\ \A i \in DOMAIN order : order[i] \in Plates
           /\ \A p \in Plates : \E i \in DOMAIN order : order[i] = p
           /\ \A i \in DOMAIN order : 1..i \subseteq DOMAIN order
<1>1. Focus!Cardinality(Plates) \in Nat
    BY LoopsAssumption, FS_CardinalityType DEF Focus!Cardinality, Cardinality
<1>2. DOMAIN order = 1..Focus!Cardinality(Plates)
    BY DEF Focus!Orders
<1> QED
    BY <1>1, <1>2 DEF Focus!Orders

\* The first of some plates is one of them, with none of them before it.
LEMMA FirstIs ==
    ASSUME entries \in Focus!Orders, NEW S \in SUBSET Plates, S # {}
    PROVE  \E i \in DOMAIN entries : /\ Focus!FirstOf(S) = entries[i] /\ entries[i] \in S
                                     /\ \A j \in 1..(i - 1) : entries[j] \notin S
<1> DEFINE at == {i \in DOMAIN entries : entries[i] \in S}
           First(i) == entries[i] \in S /\ \A j \in 1..(i - 1) : entries[j] \notin S
<1>1. /\ DOMAIN entries \subseteq Nat \ {0}
      /\ \A p \in Plates : \E i \in DOMAIN entries : entries[i] = p
      /\ \A i \in DOMAIN entries : 1..i \subseteq DOMAIN entries
    BY OrderIs
<1>2. at # {} /\ at \subseteq Nat
    BY <1>1
<1>3. PICK i \in at : \A k \in at : i <= k
  <2> HIDE DEF at
  <2> QED
    BY <1>2, Least
<1>4. First(i)
  <2> SUFFICES ASSUME NEW j \in 1..(i - 1) PROVE entries[j] \notin S
    BY <1>3
  <2>1. j \in 1..i /\ i \in DOMAIN entries /\ ~(i <= j)
    BY <1>1, <1>3
  <2> QED
    BY <1>1, <1>3, <2>1
<1>5. First(CHOOSE k \in DOMAIN entries : First(k)) /\ (CHOOSE k \in DOMAIN entries : First(k)) \in DOMAIN entries
  <2>1. \E k \in DOMAIN entries : First(k)
    BY <1>3, <1>4
  <2> HIDE DEF First
  <2> QED
    BY <2>1
<1> QED
    BY <1>5 DEF Focus!FirstOf

\* What the search finds is a plate under the cursor, if there is one.
LEMMA BestIs ==
    ASSUME entries \in Focus!Orders, NEW S \in SUBSET Plates, NEW preferred
    PROVE  Focus!FindBestPlate(S, preferred) \in Plates \cup {None}
<1>1. CASE S = {}
    BY <1>1 DEF Focus!FindBestPlate
<1>2. CASE S # {} /\ preferred \cap S = {}
    BY <1>2, FirstIs DEF Focus!FindBestPlate
<1>3. CASE preferred \cap S # {}
  <2>1. Focus!FirstOf(preferred \cap S) \in preferred \cap S
    BY <1>3, FirstIs
  <2> QED
    BY <1>3, <2>1 DEF Focus!FindBestPlate
<1> QED
    BY <1>1, <1>2, <1>3

LEMMA FocusInit == Focus!Init => FocusInv
    BY DEF Focus!Init, FocusInv, Focus!TypeOK

LEMMA FocusKeeps == FocusInv /\ [Focus!Next]_focusVars => FocusInv'
<1> SUFFICES ASSUME FocusInv, [Focus!Next]_focusVars PROVE FocusInv'
    OBVIOUS
<1> USE DEF FocusInv, Focus!TypeOK
<1>1. CASE Focus!Frame
  <2>1. /\ entries' \in Focus!Orders /\ Focus!Sorted(entries', raised')
        /\ raised' \in Plates \cup {None}
        /\ UNCHANGED <<under, focusTarget, focus, mode, focusCombat>>
    BY <1>1 DEF Focus!Frame
  <2> QED
    BY <2>1 DEF Focus!Sorted
<1>2. CASE Focus!SetNamePlateFocus
  <2>1. /\ focus' = Focus!FindBestPlate(under \ {focusTarget}, Focus!Preferred)
        /\ UNCHANGED <<entries, under, focusTarget, mode, focusCombat, raised>>
    BY <1>2 DEF Focus!SetNamePlateFocus
  <2>2. focus' \in Plates \cup {None}
    BY <2>1, BestIs
  <2> QED
    BY <2>1, <2>2 DEF Focus!Sorted
<1>3. CASE Focus!Move
    BY <1>3 DEF Focus!Move, Focus!Sorted
<1>4. CASE \E p \in Plates \cup {None} : Focus!Target(p)
    BY <1>4 DEF Focus!Target
<1>5. CASE Focus!CombatChange
    BY <1>5 DEF Focus!CombatChange, Focus!Sorted
<1>6. CASE Focus!NameplateMouseMode
    BY <1>6 DEF Focus!NameplateMouseMode, Focus!Sorted
<1>7. CASE UNCHANGED focusVars
    BY <1>7 DEF focusVars, Focus!Sorted
<1> QED
    BY <1>1, <1>2, <1>3, <1>4, <1>5, <1>6, <1>7 DEF Focus!Next

\* The first of some plates with the raised one is the raised one.
LEMMA RaisedIsFirst ==
    ASSUME FocusInv, raised # None, NEW S \in SUBSET (Plates \ {focusTarget}), raised \in S
    PROVE  Focus!FirstOf(S) = raised
<1>1. PICK i \in DOMAIN entries : /\ Focus!FirstOf(S) = entries[i] /\ entries[i] \in S
                                  /\ \A j \in 1..(i - 1) : entries[j] \notin S
    BY FirstIs DEF FocusInv, Focus!TypeOK
<1>2. PICK k \in DOMAIN entries : entries[k] = raised
    BY OrderIs DEF FocusInv, Focus!TypeOK
<1>3. i \in Nat \ {0} /\ k \in Nat \ {0}
    BY OrderIs DEF FocusInv, Focus!TypeOK
<1>4. ~(k < i)
    BY <1>1, <1>2, <1>3
<1>5. ~(i < k)
    BY <1>1, <1>2 DEF FocusInv, Focus!Sorted
<1> QED
    BY <1>1, <1>2, <1>3, <1>4, <1>5

LEMMA SearchSticks ==
    FocusInv /\ Focus!SetNamePlateFocus /\ raised # None /\ raised = focus
    /\ focus \in under \ {focusTarget}
    /\ (focus \in Focus!Preferred \/ Focus!Preferred \cap (under \ {focusTarget}) = {})
    => focus' = focus
<1> DEFINE candidates == under \ {focusTarget}
<1> SUFFICES ASSUME FocusInv, Focus!SetNamePlateFocus, raised # None, raised = focus,
                    focus \in candidates,
                    focus \in Focus!Preferred \/ Focus!Preferred \cap candidates = {}
             PROVE  focus' = focus
    OBVIOUS
<1>1. focus' = Focus!FindBestPlate(candidates, Focus!Preferred)
    BY DEF Focus!SetNamePlateFocus
<1>2. candidates \subseteq Plates \ {focusTarget}
    BY DEF FocusInv, Focus!TypeOK
<1>3. CASE Focus!Preferred \cap candidates = {}
  <2>1. Focus!FirstOf(candidates) = raised
    BY <1>2, RaisedIsFirst
  <2> QED
    BY <1>1, <1>3, <2>1 DEF Focus!FindBestPlate
<1>4. CASE focus \in Focus!Preferred
  <2>1. Focus!FirstOf(Focus!Preferred \cap candidates) = raised
    BY <1>2, <1>4, RaisedIsFirst
  <2> QED
    BY <1>1, <1>4, <2>1 DEF Focus!FindBestPlate
<1> QED
    BY <1>3, <1>4

\* A plate raised under the mouse keeps it while the cursor stays on it, whatever
\* frames, moves and settings come between the raise and the search, for any
\* plates and sides (NamePlates.cpp:559-577, 753-780).
THEOREM RaisedKeepsMouse == Spec => FocusSticks
<1>1. Init => FocusInv
    BY FocusInit DEF Init
<1>2. FocusInv /\ [Next]_vars => FocusInv'
    BY FocusOnly, FocusKeeps
<1>3. FocusInv /\ [Next]_vars =>
        [ Focus!SetNamePlateFocus /\ raised # None /\ raised = focus
          /\ focus \in under \ {focusTarget}
          /\ (focus \in Focus!Preferred \/ Focus!Preferred \cap (under \ {focusTarget}) = {})
          => focus' = focus ]_focusVars
    BY SearchSticks
<1> QED
    BY <1>1, <1>2, <1>3, PTL DEF Spec, FocusSticks, Focus!FocusSticks, Focus!vars, focusVars

-------------------------------------------------------------------------------
\* The transparency of a plate.

\* A percentage of a number is no more than the number.
LEMMA PartType ==
    ASSUME NEW n \in Nat, NEW percent \in 0..100
    PROVE  Alpha!Part(n, percent) \in 0..n
<1>1. n * percent \in Nat /\ n * (100 - percent) \in Nat
    OBVIOUS
<1>2. n * (100 - percent) = 100 * n - n * percent
    OBVIOUS
<1> DEFINE p == n * percent
<1>3. p \in 0..(100 * n)
    BY <1>1, <1>2
<1> HIDE DEF p
<1>4. p \div 100 \in 0..n
    BY <1>3
<1> QED
    BY <1>4 DEF Alpha!Part, p

\* The alpha a plate should have is one it can have.
LEMMA TargetType == Alpha!TypeOK => Alpha!TargetAlpha \in 0..Full
<1> SUFFICES ASSUME Alpha!TypeOK PROVE Alpha!TargetAlpha \in 0..Full
    OBVIOUS
<1>1. occlusion \in -100..100
    BY LoopsAssumption DEF Alpha!TypeOK
<1>2. Alpha!Unblocked \in 0..Full /\ Alpha!Unblocked \in Nat
  <2>1. Full \in Nat /\ NonTarget \in 0..100
    BY LoopsAssumption
  <2>2. Alpha!Part(Full, NonTarget) \in 0..Full
    BY <2>1, PartType
  <2> QED
    BY <2>1, <2>2 DEF Alpha!Unblocked
<1>3. CASE ~Alpha!Occludes
    BY <1>2, <1>3 DEF Alpha!TargetAlpha
<1>4. CASE Alpha!Occludes /\ occlusion < 0
  <2>1. Alpha!Abs(occlusion) \in 0..100
    BY <1>1 DEF Alpha!Abs
  <2>2. Alpha!Part(Full, Alpha!Abs(occlusion)) \in 0..Full
    BY <2>1, LoopsAssumption, PartType
  <2> QED
    BY <1>2, <1>4, <2>2 DEF Alpha!TargetAlpha, Alpha!Lower
<1>5. CASE Alpha!Occludes /\ ~(occlusion < 0)
  <2>1. Alpha!Part(Alpha!Unblocked, occlusion) \in 0..Alpha!Unblocked
    <3>1. occlusion \in 0..100
      BY <1>1, <1>5
    <3> QED
      BY <1>2, <3>1, PartType
  <2> QED
    BY <1>2, <1>5, <2>1, LoopsAssumption DEF Alpha!TargetAlpha
<1> QED
    BY <1>3, <1>4, <1>5

\* A step leads nearer and not past the goal.
Nearer(from, to, goal) ==
    /\ from < goal => from < to /\ to <= goal
    /\ from > goal => goal <= to /\ to < from

LEMMA StepNearer ==
    ASSUME NEW from \in 0..Full, NEW goal \in 0..Full, speed \in 1..100
    PROVE  /\ Alpha!NextAlpha(from, goal) \in 0..Full
           /\ Nearer(from, Alpha!NextAlpha(from, goal), goal)
<1>0. Full \in Nat
    BY LoopsAssumption
<1> DEFINE step == (goal - from) * speed
           to == Alpha!Stepped(from, goal)
           next == Alpha!NextAlpha(from, goal)
<1>1. CASE from = goal
    BY <1>1 DEF Alpha!NextAlpha, Nearer
<1>2. CASE from < goal
  <2>1. step \in Nat \ {0}
    BY <1>0, <1>2
  <2>2. to \in Int /\ to >= 100 * from + 100
    <3>1. to = 100 * from + (IF Alpha!Abs(step) >= 100 THEN step ELSE IF step > 0 THEN 100 ELSE -100)
      BY DEF Alpha!Stepped
    <3>2. 100 * from \in Int
      BY <1>0
    <3> HIDE DEF step, to
    <3>3. Alpha!Abs(step) = IF step < 0 THEN -step ELSE step
      BY DEF Alpha!Abs
    <3> QED
      BY <2>1, <3>1, <3>2, <3>3
  <2>3. next = goal \/ (next = to \div 100 /\ to <= 100 * goal)
    <3> HIDE DEF to
    <3> QED
      BY <1>0, <1>2, <2>2 DEF Alpha!NextAlpha, to
  <2> HIDE DEF step, to, next
  <2>4. next \in 0..Full /\ from < next /\ next <= goal
    BY <1>0, <1>2, <2>2, <2>3
  <2> QED
    BY <1>0, <1>2, <2>4 DEF Nearer, next
<1>3. CASE from > goal
  <2>1. step \in Int /\ step < 0
    <3>1. (from - goal) * speed \in Nat \ {0} /\ step = -((from - goal) * speed)
      BY <1>0, <1>3
    <3> QED
      BY <3>1
  <2>2. to \in Int /\ to <= 100 * from - 100
    <3>1. to = 100 * from + (IF Alpha!Abs(step) >= 100 THEN step ELSE IF step > 0 THEN 100 ELSE -100)
      BY DEF Alpha!Stepped
    <3>2. 100 * from \in Int
      BY <1>0
    <3> HIDE DEF step, to
    <3>3. Alpha!Abs(step) = IF step < 0 THEN -step ELSE step
      BY DEF Alpha!Abs
    <3> QED
      BY <2>1, <3>1, <3>2, <3>3
  <2>3. next = goal \/ (next = to \div 100 /\ to >= 100 * goal)
    <3> HIDE DEF to
    <3> QED
      BY <1>0, <1>3, <2>2 DEF Alpha!NextAlpha, to
  <2> HIDE DEF step, to, next
  <2>4. next \in 0..Full /\ goal <= next /\ next < from
    BY <1>0, <1>3, <2>2, <2>3
  <2> QED
    BY <1>0, <1>3, <2>4 DEF Nearer, next
<1> QED
    BY <1>0, <1>1, <1>2, <1>3

LEMMA AlphaInit == Alpha!Init => Alpha!TypeOK
<1> SUFFICES ASSUME Alpha!Init PROVE Alpha!TypeOK
    OBVIOUS
<1>1. fadeAlpha \in 0..Full /\ occlusion \in Occlusions /\ speed \in Speeds
    BY LoopsAssumption DEF Alpha!Init
<1>2. /\ fresh \in BOOLEAN /\ opaque \in BOOLEAN /\ focused \in BOOLEAN
      /\ blocked \in BOOLEAN /\ fadeCombat \in BOOLEAN /\ onlyPeace \in BOOLEAN
    BY DEF Alpha!Init
<1>3. locked \in {"none", "this", "other"}
    BY DEF Alpha!Init
<1> QED
    BY <1>1, <1>2, <1>3 DEF Alpha!TypeOK

LEMMA FadeKeeps == Alpha!TypeOK /\ Alpha!SetFrameAlpha
                     => /\ Alpha!TypeOK'
                        /\ ~fresh => Nearer(fadeAlpha, fadeAlpha', Alpha!TargetAlpha)
<1> SUFFICES ASSUME Alpha!TypeOK, Alpha!SetFrameAlpha
             PROVE  /\ Alpha!TypeOK'
                    /\ ~fresh => Nearer(fadeAlpha, fadeAlpha', Alpha!TargetAlpha)
    OBVIOUS
<1>1. Alpha!TargetAlpha \in 0..Full
    BY TargetType
<1>2. /\ Alpha!NextAlpha(fadeAlpha, Alpha!TargetAlpha) \in 0..Full
      /\ Nearer(fadeAlpha, Alpha!NextAlpha(fadeAlpha, Alpha!TargetAlpha), Alpha!TargetAlpha)
    BY <1>1, LoopsAssumption, StepNearer DEF Alpha!TypeOK
<1>3. /\ fadeAlpha' = IF fresh THEN Alpha!TargetAlpha
                      ELSE Alpha!NextAlpha(fadeAlpha, Alpha!TargetAlpha)
      /\ fresh' = FALSE
      /\ UNCHANGED <<opaque, locked, focused, blocked, fadeCombat, occlusion, onlyPeace, speed>>
    BY DEF Alpha!SetFrameAlpha, Alpha!scene
<1> QED
    BY <1>1, <1>2, <1>3 DEF Alpha!TypeOK

LEMMA AlphaKeeps == Alpha!TypeOK /\ [Alpha!Next]_fadeVars => Alpha!TypeOK'
<1> SUFFICES ASSUME Alpha!TypeOK, [Alpha!Next]_fadeVars PROVE Alpha!TypeOK'
    OBVIOUS
<1>1. CASE Alpha!SetFrameAlpha
    BY <1>1, FadeKeeps
<1>2. CASE Alpha!Admit
    BY <1>2 DEF Alpha!Admit, Alpha!TypeOK
<1>3. CASE Alpha!SetOcclusionEnabled
    BY <1>3 DEF Alpha!SetOcclusionEnabled, Alpha!TypeOK
<1>4. CASE Alpha!Look
    BY <1>4 DEF Alpha!Look, Alpha!TypeOK
<1>5. CASE Alpha!Configure
    BY <1>5 DEF Alpha!Configure, Alpha!TypeOK
<1>6. CASE UNCHANGED fadeVars
    BY <1>6 DEF fadeVars, Alpha!TypeOK
<1> QED
    BY <1>1, <1>2, <1>3, <1>4, <1>5, <1>6 DEF Alpha!Next

\* Every step of the fade of a plate that is not fresh leads nearer to the alpha
\* asked for and not past it, at any speed and from any alpha: none stops short on
\* a byte, wraps around or goes back and forth (NamePlates.cpp:1011-1019).
THEOREM FadesNearer ==
    Spec => [][Alpha!SetFrameAlpha /\ ~fresh
                 => Nearer(fadeAlpha, fadeAlpha', Alpha!TargetAlpha)]_fadeVars
<1>1. Init => Alpha!TypeOK
    BY AlphaInit DEF Init
<1>2. Alpha!TypeOK /\ [Next]_vars => Alpha!TypeOK'
    BY AlphaOnly, AlphaKeeps
<1>3. Alpha!TypeOK /\ [Next]_vars =>
        [Alpha!SetFrameAlpha /\ ~fresh
           => Nearer(fadeAlpha, fadeAlpha', Alpha!TargetAlpha)]_fadeVars
    BY FadeKeeps
<1> QED
    BY <1>1, <1>2, <1>3, PTL DEF Spec

-------------------------------------------------------------------------------
\* The points of an outline.
Points == [x : Int, y : Int]

-------------------------------------------------------------------------------
\* Where two edges cross inside, neither has an end on the other's line, nor
\* are both ends on one side of it.

\* Crossing, in the vectors u and w along two edges and v between their starts.
LEMMA Sides ==
    ASSUME NEW s \in Int, NEW den \in Int, Contour!Between(s, den)
    PROVE  /\ den > 0 => s > 0 /\ s - den < 0
           /\ ~(den > 0) => den < 0 /\ s < 0 /\ s - den > 0
BY DEF Contour!Between

LEMMA Areas ==
    ASSUME NEW a \in Points, NEW b \in Points, NEW c \in Points, NEW d \in Points
    PROVE  LET den == (b.x - a.x) * (d.y - c.y) - (b.y - a.y) * (d.x - c.x)
               s   == (c.x - a.x) * (d.y - c.y) - (c.y - a.y) * (d.x - c.x)
               t   == (c.x - a.x) * (b.y - a.y) - (c.y - a.y) * (b.x - a.x)
           IN  /\ den \in Int /\ s \in Int /\ t \in Int
               /\ Contour!Cross(a, b, c) = 0 - t /\ Contour!Cross(a, b, d) = den - t
               /\ Contour!Cross(c, d, a) = s /\ Contour!Cross(c, d, b) = s - den
<1>1. /\ a.x \in Int /\ a.y \in Int /\ b.x \in Int /\ b.y \in Int
      /\ c.x \in Int /\ c.y \in Int /\ d.x \in Int /\ d.y \in Int
    BY DEF Points
<1> DEFINE ax == a.x
           ay == a.y
           bx == b.x
           by == b.y
           cx == c.x
           cy == c.y
           dx == d.x
           dy == d.y
<1>2. /\ ax \in Int /\ ay \in Int /\ bx \in Int /\ by \in Int
      /\ cx \in Int /\ cy \in Int /\ dx \in Int /\ dy \in Int
    BY <1>1
<1>3. /\ Contour!Cross(a, b, c) = (bx - ax) * (cy - ay) - (by - ay) * (cx - ax)
      /\ Contour!Cross(a, b, d) = (bx - ax) * (dy - ay) - (by - ay) * (dx - ax)
      /\ Contour!Cross(c, d, a) = (dx - cx) * (ay - cy) - (dy - cy) * (ax - cx)
      /\ Contour!Cross(c, d, b) = (dx - cx) * (by - cy) - (dy - cy) * (bx - cx)
    BY DEF Contour!Cross
<1> DEFINE den == (bx - ax) * (dy - cy) - (by - ay) * (dx - cx)
           s   == (cx - ax) * (dy - cy) - (cy - ay) * (dx - cx)
           t   == (cx - ax) * (by - ay) - (cy - ay) * (bx - ax)
<1> HIDE DEF ax, ay, bx, by, cx, cy, dx, dy
<1>4. (bx - ax) * (cy - ay) - (by - ay) * (cx - ax) = 0 - t
    BY <1>2
<1>5. (bx - ax) * (dy - ay) - (by - ay) * (dx - ax) = den - t
    BY <1>2
<1>6. (dx - cx) * (ay - cy) - (dy - cy) * (ax - cx) = s
    BY <1>2
<1>7. (dx - cx) * (by - cy) - (dy - cy) * (bx - cx) = s - den
    BY <1>2
<1>8. den \in Int /\ s \in Int /\ t \in Int
    BY <1>2
<1> HIDE DEF den, s, t
<1>9. /\ den \in Int /\ s \in Int /\ t \in Int
      /\ Contour!Cross(a, b, c) = 0 - t /\ Contour!Cross(a, b, d) = den - t
      /\ Contour!Cross(c, d, a) = s /\ Contour!Cross(c, d, b) = s - den
    BY <1>3, <1>4, <1>5, <1>6, <1>7, <1>8
<1> QED
    BY <1>9 DEF den, s, t, ax, ay, bx, by, cx, cy, dx, dy

LEMMA CrossingIsSeen ==
    ASSUME NEW a \in Points, NEW b \in Points, NEW c \in Points, NEW d \in Points,
           Contour!Crosses(a, b, c, d)
    PROVE  Contour!SegsIntersectProper(a, b, c, d)
<1> DEFINE den == (b.x - a.x) * (d.y - c.y) - (b.y - a.y) * (d.x - c.x)
           s   == (c.x - a.x) * (d.y - c.y) - (c.y - a.y) * (d.x - c.x)
           t   == (c.x - a.x) * (b.y - a.y) - (c.y - a.y) * (b.x - a.x)
<1>1. /\ den \in Int /\ s \in Int /\ t \in Int
      /\ Contour!Cross(a, b, c) = 0 - t /\ Contour!Cross(a, b, d) = den - t
      /\ Contour!Cross(c, d, a) = s /\ Contour!Cross(c, d, b) = s - den
    BY Areas
<1>2. den # 0 /\ Contour!Between(s, den) /\ Contour!Between(t, den)
    BY DEF Contour!Crosses
<1> HIDE DEF den, s, t
<1>3. Contour!Orient(a, b, c) # Contour!Orient(a, b, d)
  <2>1. den > 0 => 0 - t < 0 /\ den - t > 0
    BY <1>1, <1>2, Sides
  <2>2. ~(den > 0) => 0 - t > 0 /\ den - t < 0
    BY <1>1, <1>2, Sides
  <2> QED
    BY <1>1, <2>1, <2>2 DEF Contour!Orient
<1>4. Contour!Orient(c, d, a) # Contour!Orient(c, d, b)
  <2>1. den > 0 => s > 0 /\ s - den < 0
    BY <1>1, <1>2, Sides
  <2>2. ~(den > 0) => s < 0 /\ s - den > 0
    BY <1>1, <1>2, Sides
  <2> QED
    BY <1>1, <2>1, <2>2 DEF Contour!Orient
<1> QED
    BY <1>3, <1>4 DEF Contour!SegsIntersectProper

\* So they have no end in common, and both have a length.
LEMMA CrossingIsInside ==
    ASSUME NEW a \in Points, NEW b \in Points, NEW c \in Points, NEW d \in Points,
           Contour!Crosses(a, b, c, d)
    PROVE  a # b /\ c # d /\ {a, b} \cap {c, d} = {}
<1> DEFINE den == (b.x - a.x) * (d.y - c.y) - (b.y - a.y) * (d.x - c.x)
           s   == (c.x - a.x) * (d.y - c.y) - (c.y - a.y) * (d.x - c.x)
           t   == (c.x - a.x) * (b.y - a.y) - (c.y - a.y) * (b.x - a.x)
<1>1. /\ den \in Int /\ s \in Int /\ t \in Int
      /\ Contour!Cross(a, b, c) = 0 - t /\ Contour!Cross(a, b, d) = den - t
      /\ Contour!Cross(c, d, a) = s /\ Contour!Cross(c, d, b) = s - den
    BY Areas
<1>2. den # 0 /\ Contour!Between(s, den) /\ Contour!Between(t, den)
    BY DEF Contour!Crosses
<1> HIDE DEF den, s, t
<1>3. /\ Contour!Cross(a, b, c) # 0 /\ Contour!Cross(a, b, d) # 0
      /\ Contour!Cross(c, d, a) # 0 /\ Contour!Cross(c, d, b) # 0
    BY <1>1, <1>2 DEF Contour!Between
<1>4. \A p, q \in Points : /\ Contour!Cross(p, q, p) = 0 /\ Contour!Cross(p, q, q) = 0
                           /\ \A r \in Points : Contour!Cross(p, p, r) = 0
  <2> SUFFICES ASSUME NEW p \in Points, NEW q \in Points, NEW r \in Points
               PROVE  /\ Contour!Cross(p, q, p) = 0 /\ Contour!Cross(p, q, q) = 0
                       /\ Contour!Cross(p, p, r) = 0
    OBVIOUS
  <2>1. /\ p.x \in Int /\ p.y \in Int /\ q.x \in Int /\ q.y \in Int
        /\ r.x \in Int /\ r.y \in Int
    BY DEF Points
  <2>2. \A m, n \in Int : m * n - n * m = 0
    OBVIOUS
  <2>3. \A m, n \in Int : /\ m - m = 0 /\ m - n \in Int /\ m * 0 = 0 /\ 0 * m = 0
    OBVIOUS
  <2>4. Contour!Cross(p, q, q) = 0
    BY <2>1, <2>2, <2>3 DEF Contour!Cross
  <2>5. Contour!Cross(p, q, p) = 0
    BY <2>1, <2>3 DEF Contour!Cross
  <2>6. Contour!Cross(p, p, r) = 0
    BY <2>1, <2>3 DEF Contour!Cross
  <2> QED
    BY <2>4, <2>5, <2>6
<1> QED
    BY <1>3, <1>4

LEMMA CrossingIsMutual ==
    ASSUME NEW a \in Points, NEW b \in Points, NEW c \in Points, NEW d \in Points,
           Contour!Crosses(a, b, c, d)
    PROVE  Contour!Crosses(c, d, a, b)
<1> DEFINE den == (b.x - a.x) * (d.y - c.y) - (b.y - a.y) * (d.x - c.x)
           s   == (c.x - a.x) * (d.y - c.y) - (c.y - a.y) * (d.x - c.x)
           t   == (c.x - a.x) * (b.y - a.y) - (c.y - a.y) * (b.x - a.x)
           den2 == (d.x - c.x) * (b.y - a.y) - (d.y - c.y) * (b.x - a.x)
           s2   == (a.x - c.x) * (b.y - a.y) - (a.y - c.y) * (b.x - a.x)
           t2   == (a.x - c.x) * (d.y - c.y) - (a.y - c.y) * (d.x - c.x)
<1>1. /\ a.x \in Int /\ a.y \in Int /\ b.x \in Int /\ b.y \in Int
      /\ c.x \in Int /\ c.y \in Int /\ d.x \in Int /\ d.y \in Int
    BY DEF Points
<1>2. den2 = 0 - den
    BY <1>1
<1>3. s2 = 0 - t
    BY <1>1
<1>4. t2 = 0 - s
    BY <1>1
<1>5. den \in Int /\ s \in Int /\ t \in Int
    BY <1>1
<1>6. den # 0 /\ Contour!Between(s, den) /\ Contour!Between(t, den)
    BY DEF Contour!Crosses
<1> HIDE DEF den, s, t, den2, s2, t2
<1>7. den2 # 0 /\ Contour!Between(s2, den2) /\ Contour!Between(t2, den2)
    BY <1>2, <1>3, <1>4, <1>5, <1>6 DEF Contour!Between
<1> QED
    BY <1>7 DEF Contour!Crosses, den2, s2, t2

\* What the two loops pass over, and what they excuse, hides no crossing.
LEMMA NoneMissed ==
    ASSUME NEW pts \in Seq(Points), ~Contour!HasSelfIntersections(pts),
           NEW i \in 1..(Len(pts) - 1), NEW j \in 1..(Len(pts) - 1), i < j
    PROVE  ~Contour!Crosses(pts[i], pts[i + 1], pts[j], pts[j + 1])
<1> SUFFICES ASSUME Contour!Crosses(pts[i], pts[i + 1], pts[j], pts[j + 1]) PROVE FALSE
    OBVIOUS
<1> DEFINE n == Len(pts)
<1>1. /\ n \in Nat /\ i \in 1..n /\ j \in 1..n /\ i + 1 \in 1..n /\ j + 1 \in 1..n
      /\ i % n = i /\ j % n = j
    OBVIOUS
<1>2. \A k \in 1..n : pts[k] \in Points
    OBVIOUS
<1>3. /\ pts[i] \in Points /\ pts[i + 1] \in Points
      /\ pts[j] \in Points /\ pts[j + 1] \in Points
    BY <1>1, <1>2
<1>4. /\ pts[i] # pts[i + 1] /\ pts[j] # pts[j + 1]
      /\ {pts[i], pts[i + 1]} \cap {pts[j], pts[j + 1]} = {}
    BY <1>3, CrossingIsInside
<1>5. Contour!SegsIntersectProper(pts[i], pts[i + 1], pts[j], pts[j + 1])
    BY <1>3, CrossingIsSeen
<1>6. j # i + 1
    BY <1>4
<1>7. n >= 4 /\ j \in (i + 2)..n /\ ~(i = 1 /\ j = n)
    BY <1>1, <1>6
<1>8. \E p \in 1..n : \E q \in (p + 2)..n :
        /\ ~(p = 1 /\ q = n)
        /\ pts[p] # pts[(p % n) + 1] /\ pts[q] # pts[(q % n) + 1]
        /\ Contour!SegsIntersectProper(pts[p], pts[(p % n) + 1], pts[q], pts[(q % n) + 1])
        /\ {pts[p], pts[(p % n) + 1]} \cap {pts[q], pts[(q % n) + 1]} = {}
  <2> HIDE DEF n
  <2>1. /\ ~(i = 1 /\ j = n)
        /\ pts[i] # pts[(i % n) + 1] /\ pts[j] # pts[(j % n) + 1]
        /\ Contour!SegsIntersectProper(pts[i], pts[(i % n) + 1], pts[j], pts[(j % n) + 1])
        /\ {pts[i], pts[(i % n) + 1]} \cap {pts[j], pts[(j % n) + 1]} = {}
    BY <1>1, <1>4, <1>5, <1>7
  <2> QED
    BY <1>1, <1>7, <2>1
<1>9. Contour!HasSelfIntersections(pts)
    BY <1>7, <1>8, Zenon DEF Contour!HasSelfIntersections
<1> QED
    BY <1>9

LEMMA NoneMissedEitherWay ==
    ASSUME NEW pts \in Seq(Points), ~Contour!HasSelfIntersections(pts),
           NEW i \in 1..(Len(pts) - 1), NEW j \in 1..(Len(pts) - 1)
    PROVE  ~Contour!Crosses(pts[i], pts[i + 1], pts[j], pts[j + 1])
<1>1. /\ i + 1 \in 1..Len(pts) /\ j + 1 \in 1..Len(pts)
      /\ i \in 1..Len(pts) /\ j \in 1..Len(pts)
    OBVIOUS
<1>2. \A k \in 1..Len(pts) : pts[k] \in Points
    OBVIOUS
<1>3. /\ pts[i] \in Points /\ pts[i + 1] \in Points
      /\ pts[j] \in Points /\ pts[j + 1] \in Points
    BY <1>1, <1>2
<1>4. CASE i < j
    BY <1>4, NoneMissed
<1>5. CASE j < i
  <2>1. ~Contour!Crosses(pts[j], pts[j + 1], pts[i], pts[i + 1])
    BY <1>5, NoneMissed
  <2> QED
    BY <1>3, <2>1, CrossingIsMutual
<1>6. CASE i = j
    BY <1>3, <1>6, CrossingIsInside
<1> QED
    BY <1>4, <1>5, <1>6

-------------------------------------------------------------------------------
\* The outline and its flattening are made of points.

Edges == {e \in Seq(Points) : Len(e) >= 2}

LEMMA ClosedIs ==
    ASSUME NEW corners \in Polygons, NEW bend \in Bends
    PROVE  Contour!Closed(corners, bend) \in Seq(Edges) \ {<<>>}
<1>1. corners \in Seq(Points) /\ Len(corners) \in Nat \ {0} /\ bend \in Seq(Points)
    BY LoopsAssumption DEF Points
<1> DEFINE Edge(i) == <<corners[i]>> \o (IF i = 1 THEN bend ELSE <<>>)
                        \o <<corners[(i % Len(corners)) + 1]>>
<1>2. ASSUME NEW i \in 1..Len(corners) PROVE Edge(i) \in Edges
  <2>1. (i % Len(corners)) + 1 \in 1..Len(corners)
    BY <1>1
  <2>2. corners[i] \in Points /\ corners[(i % Len(corners)) + 1] \in Points
    BY <1>1, <2>1
  <2> DEFINE m == IF i = 1 THEN bend ELSE <<>>
  <2>3. m \in Seq(Points) /\ Len(m) \in Nat
    BY <1>1
  <2> HIDE DEF m
  <2>4. <<corners[i]>> \o m \in Seq(Points) /\ Len(<<corners[i]>> \o m) = 1 + Len(m)
    BY <2>2, <2>3
  <2> DEFINE h == <<corners[i]>> \o m
  <2> HIDE DEF h
  <2>5. /\ h \o <<corners[(i % Len(corners)) + 1]>> \in Seq(Points)
        /\ Len(h \o <<corners[(i % Len(corners)) + 1]>>) = Len(h) + 1
    BY <2>2, <2>4 DEF h
  <2>6. Len(h) + 1 >= 2
    BY <2>3, <2>4 DEF h
  <2>7. h \o <<corners[(i % Len(corners)) + 1]>> \in Edges
    BY <2>5, <2>6 DEF Edges
  <2> QED
    BY <2>7 DEF h, m
<1>3. Contour!Closed(corners, bend) = [i \in 1..Len(corners) |-> Edge(i)]
    BY DEF Contour!Closed
<1> HIDE DEF Edge
<1>4. [i \in 1..Len(corners) |-> Edge(i)] \in Seq(Edges)
    BY <1>1, <1>2
<1>5. Len([i \in 1..Len(corners) |-> Edge(i)]) = Len(corners)
    BY <1>1
<1> QED
    BY <1>1, <1>3, <1>4, <1>5

LEMMA FlattenedIs ==
    ASSUME NEW edge \in Edges
    PROVE  Contour!Flattened(edge) \in Seq(Points)
<1>1. edge \in Seq(Points) /\ Len(edge) >= 2 /\ Len(edge) \in Nat
    BY DEF Edges
<1>2. Contour!Last(edge) \in Points
    BY <1>1 DEF Contour!Last
<1>3. Tail(edge) \in Seq(Points)
    BY <1>1
<1>4. <<Contour!Last(edge)>> \in Seq(Points)
    BY <1>2
<1> QED
    BY <1>3, <1>4 DEF Contour!Flattened

\* The pieces before each one, joined.
Joins(h, seqs, V) ==
    /\ h \in [0..Len(seqs) -> Seq(V)] /\ h[0] = <<>>
    /\ \A i \in 1..Len(seqs) : h[i] = h[i - 1] \o seqs[i]

\* The pieces joined: the recursive function has a value, and it is this one.
LEMMA FlattenSeqJoins ==
    ASSUME NEW V, NEW seqs \in Seq(Seq(V)), seqs # <<>>
    PROVE  \E h : Joins(h, seqs, V) /\ Contour!FlattenSeq(seqs) = h[Len(seqs)]
<1> DEFINE N == Len(seqs)
           R(g) == [i \in 1..N |-> IF i = 1 THEN seqs[i] ELSE g[i - 1] \o seqs[i]]
           M == CHOOSE g : g = R(g)
           G == [e \in Nat \X Seq(V) |-> IF e[1] = 1 THEN seqs[1]
                                         ELSE IF e[1] \in 2..N THEN e[2] \o seqs[e[1]] ELSE <<>>]
<1>1. N \in Nat \ {0} /\ \A i \in 1..N : seqs[i] \in Seq(V)
    OBVIOUS
<1>2. G \in [Nat \X Seq(V) -> Seq(V)]
  <2> SUFFICES ASSUME NEW e \in Nat \X Seq(V)
               PROVE  (IF e[1] = 1 THEN seqs[1]
                       ELSE IF e[1] \in 2..N THEN e[2] \o seqs[e[1]] ELSE <<>>) \in Seq(V)
    OBVIOUS
  <2>1. e[1] \in Nat /\ e[2] \in Seq(V) /\ <<>> \in Seq(V) /\ seqs[1] \in Seq(V)
    BY <1>1
  <2>2. e[1] \in 2..N => e[2] \o seqs[e[1]] \in Seq(V)
    BY <1>1, <2>1
  <2> HIDE DEF N
  <2> QED
    BY <2>1, <2>2, Zenon
<1>3. PICK h \in [0..N -> Seq(V)] : \A i \in 1..N : h[i] = G[<<i, h[i - 1]>>]
  <2>1. <<>> \in Seq(V) /\ N \in Nat
    BY <1>1
  <2> HIDE DEF N, G
  <2>2. \E h : h \in Recursive(N, Seq(V), <<>>, G)
    BY <1>2, <2>1, Recursion
  <2> QED
    BY <2>2 DEF Recursive
<1> DEFINE f == [i \in 1..N |-> h[i]]
<1>4. f = R(f)
  <2> SUFFICES ASSUME NEW i \in 1..N PROVE h[i] = IF i = 1 THEN seqs[i] ELSE f[i - 1] \o seqs[i]
    OBVIOUS
  <2>1. i \in Nat /\ i - 1 \in 0..N /\ h[i - 1] \in Seq(V)
    BY <1>1, <1>3
  <2>2. h[i] = G[<<i, h[i - 1]>>] /\ <<i, h[i - 1]>> \in Nat \X Seq(V)
    BY <1>3, <2>1
  <2>3. CASE i = 1
    BY <2>2, <2>3
  <2>4. CASE i # 1
    <3>1. i \in 2..N /\ i - 1 \in 1..N
      BY <1>1, <2>4
    <3> QED
      BY <2>2, <2>4, <3>1
  <2> QED
    BY <2>3, <2>4
<1>5. M = R(M)
  <2> HIDE DEF R, f
  <2> QED
    BY <1>4, Zenon
<1>6. \A i \in 1..N : M[i] = IF i = 1 THEN seqs[i] ELSE M[i - 1] \o seqs[i]
  <2> HIDE DEF M, N
  <2> QED
    BY <1>5
<1>7. Contour!FlattenSeq(seqs) = M[N]
    BY <1>1, Zenon DEF Contour!FlattenSeq
<1> DEFINE S == {i \in 0..N : i # 0 => M[i] \in Seq(V)}
<1>8. 0..N \subseteq S
  <2> HIDE DEF M, N
  <2>1. 0 \in S
    BY <1>1
  <2>2. ASSUME NEW i \in 1..N, i - 1 \in S PROVE i \in S
    <3>1. i \in 0..N /\ i # 0 /\ seqs[i] \in Seq(V)
      BY <1>1
    <3>2. CASE i = 1
      BY <1>6, <3>1, <3>2
    <3>3. CASE i # 1
      <4>1. i - 1 # 0 /\ i - 1 \in 0..N
        BY <1>1, <3>3
      <4>2. M[i - 1] \in Seq(V)
        BY <2>2, <4>1
      <4>3. M[i] = M[i - 1] \o seqs[i]
        BY <1>6, <3>3
      <4>4. M[i - 1] \o seqs[i] \in Seq(V)
        BY <3>1, <4>2
      <4> QED
        BY <3>1, <4>3, <4>4
    <3> QED
      BY <3>2, <3>3
  <2>3. \A i \in 1..N : i - 1 \in S => i \in S
    BY <2>2
  <2> HIDE DEF S
  <2> QED
    BY <1>1, <2>1, <2>3, InductiveUpTo
<1>9. \A i \in 1..N : M[i] \in Seq(V)
  <2> HIDE DEF M, N
  <2> QED
    BY <1>1, <1>8
<1> DEFINE H == [i \in 0..N |-> IF i = 0 THEN <<>> ELSE M[i]]
<1>10. H[0] = <<>> /\ \A i \in 1..N : H[i] = M[i]
  <2> HIDE DEF M, N
  <2> QED
    BY <1>1
<1>11. H \in [0..N -> Seq(V)]
  <2> HIDE DEF M, N
  <2> QED
    BY <1>1, <1>9
<1>12. ASSUME NEW i \in 1..N PROVE H[i] = H[i - 1] \o seqs[i]
  <2> HIDE DEF M, H
  <2>1. CASE i = 1
    <3>1. seqs[i] \in Seq(V) /\ <<>> \o seqs[i] = seqs[i]
      BY <1>1
    <3>2. H[i] = M[i] /\ M[i] = seqs[i]
      BY <1>6, <1>10, <2>1
    <3>3. H[i - 1] = <<>>
      BY <1>10, <2>1
    <3> QED
      BY <3>1, <3>2, <3>3
  <2>2. CASE i # 1
    <3>1. i - 1 \in 1..N
      BY <1>1, <2>2
    <3>2. H[i] = M[i] /\ H[i - 1] = M[i - 1]
      BY <1>10, <3>1
    <3>3. M[i] = M[i - 1] \o seqs[i]
      BY <1>6, <2>2
    <3> QED
      BY <3>2, <3>3
  <2> QED
    BY <2>1, <2>2
<1>13. H[N] = M[N] /\ N \in 1..N
  <2> HIDE DEF M, N, H
  <2> QED
    BY <1>1, <1>10
<1>14. Joins(H, seqs, V)
  <2> HIDE DEF M, H
  <2> QED
    BY <1>10, <1>11, <1>12 DEF Joins
<1> HIDE DEF H, M
<1> QED
    BY <1>7, <1>13, <1>14

\* ... which is a sequence.
LEMMA FlattenSeqIs ==
    ASSUME NEW V, NEW seqs \in Seq(Seq(V)), seqs # <<>>
    PROVE  Contour!FlattenSeq(seqs) \in Seq(V)
<1>1. PICK h : Joins(h, seqs, V) /\ Contour!FlattenSeq(seqs) = h[Len(seqs)]
    BY FlattenSeqJoins
<1>2. Len(seqs) \in 0..Len(seqs)
    OBVIOUS
<1> QED
    BY <1>1, <1>2 DEF Joins

\* The points of an outline.
LEMMA OutlineIs ==
    ASSUME outline \in Seq(Edges) \ {<<>>}
    PROVE  Contour!FlattenMsdfContour \in Seq(Points)
<1> DEFINE n == Len(outline)
           F == [i \in 1..n |-> Contour!Flattened(outline[i])]
<1>1. n \in Nat \ {0} /\ \A i \in 1..n : outline[i] \in Edges
    OBVIOUS
<1>2. \A i \in 1..n : Contour!Flattened(outline[i]) \in Seq(Points)
    BY <1>1, FlattenedIs
<1>3. F \in Seq(Seq(Points)) /\ F # <<>>
  <2>1. F \in Seq(Seq(Points)) /\ Len(F) = n
    BY <1>1, <1>2
  <2> QED
    BY <1>1, <2>1
<1> HIDE DEF F
<1>4. Contour!FlattenSeq(F) \in Seq(Points)
    BY <1>3, FlattenSeqIs
<1>5. outline[1][1] \in Points
  <2>1. outline[1] \in Seq(Points) /\ Len(outline[1]) >= 2 /\ Len(outline[1]) \in Nat
    BY <1>1 DEF Edges
  <2> QED
    BY <2>1
<1>6. <<outline[1][1]>> \o Contour!FlattenSeq(F) \in Seq(Points)
    BY <1>4, <1>5
<1> QED
    BY <1>6 DEF F, Contour!FlattenMsdfContour

-------------------------------------------------------------------------------
\* A verdict is about the outline, which stays.
ContourInv ==
    /\ part = "contour" => outline \in Seq(Edges) \ {<<>>}
    /\ verdict = "valid" =>
          part = "contour" /\ ~Contour!HasSelfIntersections(Contour!FlattenMsdfContour)

LEMMA ContourInit == Init => ContourInv
<1> SUFFICES ASSUME Init PROVE ContourInv
    OBVIOUS
<1>1. verdict = "none" /\ (part = "contour" => Contour!Init)
    BY DEF Init, Contour!Init
<1>2. part = "contour" => outline \in Seq(Edges) \ {<<>>}
    BY <1>1, ClosedIs DEF Contour!Init
<1> QED
    BY <1>1, <1>2 DEF ContourInv

LEMMA ContourKeeps == ContourInv /\ [Next]_vars => ContourInv'
<1> SUFFICES ASSUME ContourInv, [Next]_vars PROVE ContourInv'
    OBVIOUS
<1>1. CASE ContourStep
  <2>1. /\ part = "contour" /\ part' = part /\ outline' = outline
        /\ verdict' = IF Contour!ValidateResolvedShape THEN "valid" ELSE "refused"
    BY <1>1 DEF ContourStep, Contour!Next, Contour!IsGlyphValid
  <2>2. Contour!FlattenMsdfContour' = Contour!FlattenMsdfContour
    BY <2>1 DEF Contour!FlattenMsdfContour
  <2>3. verdict' = "valid" => ~Contour!HasSelfIntersections(Contour!FlattenMsdfContour)
    BY <2>1, Zenon DEF Contour!ValidateResolvedShape
  <2> QED
    BY <2>1, <2>2, <2>3 DEF ContourInv
<1>2. CASE ~ContourStep
  <2>1. part' = part /\ outline' = outline /\ verdict' = verdict
    BY <1>2, ContourOnly DEF contourVars
  <2>2. Contour!FlattenMsdfContour' = Contour!FlattenMsdfContour
    BY <2>1 DEF Contour!FlattenMsdfContour
  <2> QED
    BY <2>1, <2>2 DEF ContourInv
<1> QED
    BY <1>1, <1>2

LEMMA ContourHolds == ContourInv => Contour!AcceptedIsSimple
<1> SUFFICES ASSUME ContourInv, verdict = "valid",
                    NEW i \in 1..(Len(Contour!FlattenMsdfContour) - 1),
                    NEW j \in 1..(Len(Contour!FlattenMsdfContour) - 1)
             PROVE  ~Contour!Crosses(Contour!FlattenMsdfContour[i], Contour!FlattenMsdfContour[i + 1],
                             Contour!FlattenMsdfContour[j], Contour!FlattenMsdfContour[j + 1])
    BY DEF Contour!AcceptedIsSimple
<1>1. Contour!FlattenMsdfContour \in Seq(Points) /\ ~Contour!HasSelfIntersections(Contour!FlattenMsdfContour)
    BY OutlineIs DEF ContourInv
<1> QED
    BY <1>1, NoneMissedEitherWay

\* An accepted outline has no two edges that cross inside, whatever points of
\* the grid it is made of and however many: the loops miss no such pair
\* (MSDFValidator.h:107-148).
THEOREM AcceptedAreSimple == Spec => []AcceptedIsSimple
<1>1. Init => ContourInv
    BY ContourInit
<1>2. ContourInv /\ [Next]_vars => ContourInv'
    BY ContourKeeps
<1>3. ContourInv => AcceptedIsSimple
    BY ContourHolds DEF AcceptedIsSimple
<1> QED
    BY <1>1, <1>2, <1>3, PTL DEF Spec

-------------------------------------------------------------------------------
\* A page: its glyphs lie inside and apart, in rows above the current one, or in
\* this row before the place where it goes on.

Glyphs == [cp : Codepoints, x : Nat, y : Nat]
Pages == [nextX : 0..ATLAS_SIZE, nextY : 0..ATLAS_SIZE, rowHeight : Nat,
          placed : SUBSET Glyphs, left : SUBSET Glyphs]

RightOf(g) == g.x + Width[g.cp] + ATLAS_GUTTER
Below(g) == g.y + Height[g.cp] + ATLAS_GUTTER
Apart(g, h) == \/ RightOf(g) <= h.x \/ RightOf(h) <= g.x
               \/ Below(g) <= h.y \/ Below(h) <= g.y
InRow(p, g) == g.y = p.nextY /\ RightOf(g) <= p.nextX /\ Height[g.cp] <= p.rowHeight

Packed(p) ==
    /\ p \in Pages
    /\ \A g \in p.placed : /\ RightOf(g) <= ATLAS_SIZE /\ Below(g) <= ATLAS_SIZE
                           /\ Below(g) <= p.nextY \/ InRow(p, g)
    /\ \A g, h \in p.placed : g # h => Apart(g, h)

\* The sizes are numbers, and so are the places of glyphs and their far sides.
LEMMA Sizes ==
    /\ ATLAS_SIZE \in Nat /\ ATLAS_GUTTER \in Nat
    /\ \A g \in Glyphs : /\ g.cp \in Codepoints /\ g.x \in Nat /\ g.y \in Nat
                         /\ Width[g.cp] \in Nat /\ Height[g.cp] \in Nat
                         /\ RightOf(g) \in Nat /\ Below(g) \in Nat
<1>1. \A g \in Glyphs : g.cp \in Codepoints /\ g.x \in Nat /\ g.y \in Nat
    BY DEF Glyphs
<1>2. \A cp \in Codepoints : Width[cp] \in Nat /\ Height[cp] \in Nat
    BY LoopsAssumption
<1>3. ATLAS_SIZE \in Nat /\ ATLAS_GUTTER \in Nat
    BY LoopsAssumption
<1> QED
    BY <1>1, <1>2, <1>3 DEF RightOf, Below

\* A page that has no glyphs, whatever its texture shows.
Blank(p) == /\ p.nextX = ATLAS_GUTTER /\ p.nextY = ATLAS_GUTTER
            /\ p.rowHeight = 0 /\ p.placed = {}

\* A page is created empty (MSDFFont.cpp:123-128).
LEMMA NewPageIs == Packed(Atlas!NewPage) /\ Blank(Atlas!NewPage)
    BY LoopsAssumption DEF Atlas!NewPage, Packed, Pages, Blank

\* A page that is evicted has no glyphs, cleared or not (MSDFFont.cpp:157-168).
LEMMA EmptiedIs ==
    ASSUME NEW p, Packed(p) PROVE Packed(Atlas!Emptied(p)) /\ Blank(Atlas!Emptied(p))
<1> DEFINE left == IF atlasDevice = "stuck" THEN p.left \cup p.placed ELSE {}
           e == [nextX |-> ATLAS_GUTTER, nextY |-> ATLAS_GUTTER, rowHeight |-> 0,
                 placed |-> {}, left |-> left]
<1>1. left \in SUBSET Glyphs
    BY DEF Packed, Pages
<1>2. Atlas!Emptied(p) = e
    BY DEF Atlas!Emptied, Atlas!NewPage
<1> HIDE DEF left
<1>3. e \in Pages /\ Blank(e)
    BY <1>1, LoopsAssumption DEF Pages, Blank
<1> HIDE DEF e
<1> QED
    BY <1>2, <1>3 DEF Packed, Blank

\* Every glyph fits the first row of a page without glyphs.
LEMMA BlankFits == ASSUME NEW p, Blank(p), NEW cp \in Codepoints PROVE Atlas!FitsRow(p, cp)
<1>1. /\ Width[cp] \in Nat /\ Height[cp] \in Nat /\ ATLAS_SIZE \in Nat /\ ATLAS_GUTTER \in Nat
      /\ Width[cp] + 2 * ATLAS_GUTTER <= ATLAS_SIZE
      /\ Height[cp] + 2 * ATLAS_GUTTER <= ATLAS_SIZE
    BY LoopsAssumption
<1> QED
    BY <1>1 DEF Atlas!FitsRow, Blank

\* A row that is full, or of no more use, is left for the next one.
LEMMA NextRowKeeps ==
    ASSUME NEW p, Packed(p), NEW cp \in Codepoints,
           Atlas!FitsRow(p, cp) \/ Atlas!FitsBelow(p, cp) \/ Blank(p)
    PROVE  Packed(Atlas!Row(p, cp)) /\ Atlas!Row(p, cp).placed = p.placed
<1>1. CASE Atlas!FitsRow(p, cp)
    BY <1>1 DEF Atlas!Row
<1>2. CASE ~Atlas!FitsRow(p, cp)
  <2> DEFINE r == [p EXCEPT !.nextX = ATLAS_GUTTER, !.nextY = Atlas!RowBelow(p), !.rowHeight = 0]
  <2>1. /\ p \in Pages /\ p.nextX \in Nat /\ p.nextY \in Nat /\ p.rowHeight \in Nat
        /\ p.placed \subseteq Glyphs
    BY Sizes DEF Packed, Pages
  <2>2. /\ Atlas!RowBelow(p) = p.nextY + p.rowHeight + ATLAS_GUTTER
        /\ Atlas!RowBelow(p) \in 0..ATLAS_SIZE
    <3>1. /\ Atlas!RowBelow(p) = p.nextY + p.rowHeight + ATLAS_GUTTER
          /\ Atlas!RowBelow(p) \in Nat
      BY <2>1, Sizes DEF Atlas!RowBelow
    <3>2. Height[cp] \in Nat
      BY LoopsAssumption
    <3>3. Atlas!FitsBelow(p, cp)
      BY <1>2, BlankFits
    <3> QED
      BY <3>1, <3>2, <3>3, Sizes DEF Atlas!FitsBelow
  <2>3. /\ r \in Pages /\ r.placed = p.placed /\ r.nextY = Atlas!RowBelow(p)
    BY <2>1, <2>2, Sizes, LoopsAssumption DEF Pages
  <2>4. \A g \in p.placed : Below(g) <= Atlas!RowBelow(p)
    <3> TAKE g \in p.placed
    <3>1. g \in Glyphs
      BY <2>1
    <3>2. CASE Below(g) <= p.nextY
      BY <2>1, <2>2, <3>1, <3>2, Sizes
    <3>3. CASE InRow(p, g)
      BY <2>1, <2>2, <3>1, <3>3, Sizes DEF InRow, Below
    <3> QED
      BY <3>2, <3>3 DEF Packed
  <2>5. Packed(r)
    <3> HIDE DEF r
    <3> QED
      BY <2>3, <2>4 DEF Packed
  <2> QED
    BY <1>2, <2>3, <2>5 DEF Atlas!Row
<1> QED
    BY <1>1, <1>2

\* On a page chosen for it, or a new one, the glyph fits the row it is given.
LEMMA RowFits ==
    ASSUME NEW p, Packed(p), NEW cp \in Codepoints,
           Atlas!FitsRow(p, cp) \/ Atlas!FitsBelow(p, cp) \/ Blank(p)
    PROVE  Atlas!FitsRow(Atlas!Row(p, cp), cp)
<1>1. /\ Width[cp] \in Nat /\ Height[cp] \in Nat /\ ATLAS_SIZE \in Nat /\ ATLAS_GUTTER \in Nat
      /\ Width[cp] + 2 * ATLAS_GUTTER <= ATLAS_SIZE
      /\ Height[cp] + 2 * ATLAS_GUTTER <= ATLAS_SIZE
    BY LoopsAssumption
<1>2. CASE Atlas!FitsRow(p, cp)
    BY <1>2 DEF Atlas!Row
<1>3. CASE Blank(p)
  <2>1. Atlas!FitsRow(p, cp)
    BY <1>3, BlankFits
  <2> QED
    BY <2>1 DEF Atlas!Row
<1>4. CASE ~Atlas!FitsRow(p, cp) /\ Atlas!FitsBelow(p, cp)
  <2>1. p \in Pages
    BY DEF Packed
  <2>2. Atlas!Row(p, cp).nextX = ATLAS_GUTTER /\ Atlas!Row(p, cp).nextY = Atlas!RowBelow(p)
    BY <1>4, <2>1 DEF Atlas!Row, Pages
  <2> QED
    BY <1>1, <1>4, <2>2 DEF Atlas!FitsRow, Atlas!FitsBelow
<1> QED
    BY <1>2, <1>3, <1>4

\* The glyph that goes into the row.
Newest(p, cp) == [cp |-> cp, x |-> p.nextX, y |-> p.nextY]

\* A glyph copied to the end of its row lies inside, and apart from the others.
LEMMA CopyKeeps ==
    ASSUME NEW p, Packed(p), NEW cp \in Codepoints, Atlas!FitsRow(p, cp)
    PROVE  Packed(Atlas!Copy(p, cp)) /\ Atlas!Copy(p, cp).placed = p.placed \cup {Newest(p, cp)}
<1> DEFINE g == Newest(p, cp)
           c == Atlas!Copy(p, cp)
<1>1. /\ p.nextX \in Nat /\ p.nextY \in Nat /\ p.rowHeight \in Nat
      /\ p.placed \subseteq Glyphs /\ p.left \subseteq Glyphs
    BY Sizes DEF Packed, Pages
<1>2. g \in Glyphs /\ g.cp = cp /\ g.x = p.nextX /\ g.y = p.nextY
    BY <1>1 DEF Newest, Glyphs
<1>3. Width[cp] \in Nat /\ Height[cp] \in Nat
    BY LoopsAssumption
<1>4. /\ c.nextX = p.nextX + Width[cp] + ATLAS_GUTTER /\ c.nextY = p.nextY
      /\ c.rowHeight = IF Height[cp] > p.rowHeight THEN Height[cp] ELSE p.rowHeight
      /\ c.placed = p.placed \cup {g}
    BY DEF Atlas!Copy, Newest
<1>5. c \in Pages
  <2>1. /\ p.nextX + Width[cp] + ATLAS_GUTTER \in 0..ATLAS_SIZE
        /\ (IF Height[cp] > p.rowHeight THEN Height[cp] ELSE p.rowHeight) \in Nat
        /\ p.placed \cup {[cp |-> cp, x |-> p.nextX, y |-> p.nextY]} \in SUBSET Glyphs
    BY <1>1, <1>2, <1>3, Sizes DEF Newest, Atlas!FitsRow
  <2>2. p.nextY \in 0..ATLAS_SIZE
    BY DEF Packed, Pages
  <2> QED
    BY <1>1, <2>1, <2>2 DEF Atlas!Copy, Pages
<1>6. /\ RightOf(g) = c.nextX /\ RightOf(g) <= ATLAS_SIZE /\ Below(g) <= ATLAS_SIZE
      /\ InRow(c, g)
  <2>1. RightOf(g) = p.nextX + Width[cp] + ATLAS_GUTTER /\ Below(g) = p.nextY + Height[cp] + ATLAS_GUTTER
    BY <1>2 DEF RightOf, Below
  <2> HIDE DEF g, c
  <2>2. Height[g.cp] <= c.rowHeight
    BY <1>1, <1>2, <1>3, <1>4
  <2>3. RightOf(g) <= c.nextX
    BY <1>1, <1>3, <1>4, <2>1, Sizes
  <2> QED
    BY <1>2, <1>4, <2>1, <2>2, <2>3 DEF Atlas!FitsRow, InRow
<1> HIDE DEF g, c
<1>7. ASSUME NEW h \in p.placed
      PROVE  /\ RightOf(h) <= ATLAS_SIZE /\ Below(h) <= ATLAS_SIZE
             /\ Below(h) <= c.nextY \/ InRow(c, h)
             /\ Apart(g, h) /\ Apart(h, g)
  <2>1. h \in Glyphs /\ RightOf(h) <= ATLAS_SIZE /\ Below(h) <= ATLAS_SIZE
    BY <1>1 DEF Packed
  <2>2. CASE Below(h) <= p.nextY
    BY <1>2, <1>4, <2>1, <2>2 DEF Apart
  <2>3. CASE InRow(p, h)
    <3>1. h.y = p.nextY /\ RightOf(h) <= p.nextX /\ Height[h.cp] <= p.rowHeight
      BY <2>3 DEF InRow
    <3>2. RightOf(h) <= c.nextX /\ Height[h.cp] <= c.rowHeight
      BY <1>1, <1>3, <1>4, <2>1, <3>1, Sizes
    <3> QED
      BY <1>2, <1>4, <2>1, <3>1, <3>2 DEF Apart, InRow
  <2> QED
    BY <2>2, <2>3 DEF Packed
<1>8. Packed(c)
  <2>1. \A h \in c.placed : /\ RightOf(h) <= ATLAS_SIZE /\ Below(h) <= ATLAS_SIZE
                            /\ Below(h) <= c.nextY \/ InRow(c, h)
    BY <1>4, <1>6, <1>7
  <2>2. \A h, k \in c.placed : h # k => Apart(h, k)
    BY <1>4, <1>7 DEF Packed
  <2> QED
    BY <1>5, <2>1, <2>2 DEF Packed
<1> QED
    BY <1>4, <1>8 DEF g, c

-------------------------------------------------------------------------------
\* A font: every glyph of its pages is pooled, on one page only, and what the
\* pool says of a glyph's place is so.

Ats == Atlas!Rects \cup {Atlas!NoRect, Atlas!RawRect}
Pools == UNION {[D -> Ats] : D \in SUBSET Codepoints}
Fonts == [pool : Pools, pages : Seq(Pages), oldest : 1..MAX_ATLAS_PAGES, evictions : Nat]

Lies(f, place, cp) ==
    /\ place.page \in 1..Len(f.pages)
    /\ [cp |-> cp, x |-> place.x, y |-> place.y] \in f.pages[place.page].placed

\* The code points of page i.
On(f, i) == {g.cp : g \in f.pages[i].placed}

FontOK(f) ==
    /\ f \in Fonts /\ Len(f.pages) <= MAX_ATLAS_PAGES
    /\ \A i \in 1..Len(f.pages) : Packed(f.pages[i])
    /\ \A i \in 1..Len(f.pages) : On(f, i) \subseteq DOMAIN f.pool
    /\ \A i, j \in 1..Len(f.pages) : i # j => On(f, i) \cap On(f, j) = {}
    /\ \A cp \in DOMAIN f.pool : /\ cp \notin Unloadable
                                 /\ f.pool[cp] = Atlas!NoRect \/ Lies(f, f.pool[cp], cp)

\* In g every glyph still lies where it does in f.
Stays(f, g) == \A place, cp : Lies(f, place, cp) => Lies(g, place, cp)

\* The fields of a font, one page at a time.
LEMMA FontIs ==
    ASSUME NEW f \in Fonts
    PROVE  /\ f.pages \in Seq(Pages) /\ f.oldest \in 1..MAX_ATLAS_PAGES /\ f.evictions \in Nat
           /\ DOMAIN f.pool \subseteq Codepoints /\ f.pool \in [DOMAIN f.pool -> Ats]
           /\ f = [pool |-> f.pool, pages |-> f.pages, oldest |-> f.oldest,
                   evictions |-> f.evictions]
<1>1. f.pool \in Pools
    BY DEF Fonts
<1>2. PICK D \in SUBSET Codepoints : f.pool \in [D -> Ats]
    BY <1>1 DEF Pools
<1>3. DOMAIN f.pool = D
    BY <1>2
<1> QED
    BY <1>2, <1>3 DEF Fonts

\* A pool is a function from some of the code points.
LEMMA PoolIs == ASSUME NEW D \in SUBSET Codepoints, NEW q \in [D -> Ats] PROVE q \in Pools
    BY DEF Pools

\* The two marks for "no place" are places by type, and different.
LEMMA NoRectIs == Atlas!NoRect \in Ats /\ Atlas!NoRect # Atlas!RawRect /\ Atlas!RawRect \in Ats
    BY DEF Atlas!NoRect, Atlas!RawRect, Ats

\* Pages of glyphs that are all pooled have nothing of one that is not.
LEMMA NotOn ==
    ASSUME NEW f, FontOK(f), NEW cp, cp \notin DOMAIN f.pool
    PROVE  \A i \in 1..Len(f.pages) : cp \notin On(f, i)
    BY DEF FontOK

\* The glyph at hand enters the pool, and may lose what it says there.
Adds(f, cp) == [f EXCEPT !.pool = [c \in DOMAIN @ \cup {cp} |-> IF c = cp THEN Atlas!NoRect ELSE @[c]]]

\* A code point enters the pool without a place (MSDFFont.cpp:59-116).
LEMMA AddKeeps ==
    ASSUME NEW f, FontOK(f), NEW cp \in Codepoints, cp \notin Unloadable
    PROVE  /\ FontOK(Adds(f, cp)) /\ Stays(f, Adds(f, cp)) /\ Stays(Adds(f, cp), f)
           /\ cp \in DOMAIN Adds(f, cp).pool /\ Adds(f, cp).pool[cp] = Atlas!NoRect
           /\ Adds(f, cp).pages = f.pages /\ Adds(f, cp).evictions = f.evictions
           /\ Adds(f, cp).oldest = f.oldest
<1> DEFINE D == DOMAIN f.pool \cup {cp}
           q == [c \in D |-> IF c = cp THEN Atlas!NoRect ELSE f.pool[c]]
           g == Adds(f, cp)
<1>1. f \in Fonts
    BY DEF FontOK
<1>2. D \in SUBSET Codepoints /\ \A c \in D : (IF c = cp THEN Atlas!NoRect ELSE f.pool[c]) \in Ats
    BY <1>1, FontIs, NoRectIs
<1>3. q \in [D -> Ats] /\ DOMAIN q = D
    BY <1>2
<1>4. g = [pool |-> q, pages |-> f.pages, oldest |-> f.oldest, evictions |-> f.evictions]
    BY <1>1, FontIs DEF Adds
<1>5. q \in Pools
    BY <1>2, <1>3, PoolIs
<1>6. g.pool = q /\ g.pages = f.pages /\ g.oldest = f.oldest /\ g.evictions = f.evictions
    BY <1>4
<1>7. g \in Fonts
    BY <1>1, <1>4, <1>5, FontIs DEF Fonts
<1>8. \A c \in D : q[c] = IF c = cp THEN Atlas!NoRect ELSE f.pool[c]
    OBVIOUS
<1> HIDE DEF g, q
<1>9. \A place, c : Lies(g, place, c) <=> Lies(f, place, c)
    BY <1>6 DEF Lies
<1>10. \A c \in DOMAIN g.pool : /\ c \notin Unloadable
                                /\ g.pool[c] = Atlas!NoRect \/ Lies(g, g.pool[c], c)
  <2> TAKE c \in DOMAIN g.pool
  <2>1. c \in D
    BY <1>3, <1>6
  <2>2. CASE c = cp
    BY <1>6, <1>8, <2>1, <2>2
  <2>3. CASE c # cp
    BY <1>6, <1>8, <1>9, <2>1, <2>3 DEF FontOK
  <2> QED
    BY <2>2, <2>3
<1>11. \A i \in 1..Len(g.pages) : On(g, i) = On(f, i)
    BY <1>6 DEF On
<1>12. FontOK(g)
  <2>1. \A i \in 1..Len(g.pages) : On(g, i) \subseteq DOMAIN g.pool
    BY <1>3, <1>6, <1>11 DEF FontOK
  <2>2. \A i, j \in 1..Len(g.pages) : i # j => On(g, i) \cap On(g, j) = {}
    BY <1>6, <1>11 DEF FontOK
  <2>3. Len(g.pages) <= MAX_ATLAS_PAGES /\ \A i \in 1..Len(g.pages) : Packed(g.pages[i])
    BY <1>6 DEF FontOK
  <2> QED
    BY <1>7, <1>10, <2>1, <2>2, <2>3 DEF FontOK
<1> QED
    BY <1>3, <1>6, <1>8, <1>9, <1>12 DEF g, Stays

Forgets(f, cp) == [f EXCEPT !.pool[cp] = Atlas!NoRect]

\* A pooled glyph may lose its place: the pool says less, nothing false.
LEMMA ForgetKeeps ==
    ASSUME NEW f, FontOK(f), NEW cp
    PROVE  /\ FontOK(Forgets(f, cp)) /\ Stays(f, Forgets(f, cp))
           /\ Forgets(f, cp).evictions = f.evictions
<1> DEFINE q == [f.pool EXCEPT ![cp] = Atlas!NoRect]
           g == Forgets(f, cp)
<1>1. f \in Fonts
    BY DEF FontOK
<1>2. /\ q \in [DOMAIN f.pool -> Ats] /\ DOMAIN q = DOMAIN f.pool
      /\ \A c \in DOMAIN q : q[c] = Atlas!NoRect \/ q[c] = f.pool[c]
    BY <1>1, FontIs, NoRectIs
<1>3. g = [pool |-> q, pages |-> f.pages, oldest |-> f.oldest, evictions |-> f.evictions]
    BY <1>1, FontIs DEF Forgets
<1>4. q \in Pools
    BY <1>1, <1>2, FontIs, PoolIs
<1>5. g.pool = q /\ g.pages = f.pages /\ g.oldest = f.oldest /\ g.evictions = f.evictions
    BY <1>3
<1>6. g \in Fonts
    BY <1>1, <1>3, <1>4, FontIs DEF Fonts
<1> HIDE DEF g, q
<1>7. \A place, c : Lies(g, place, c) <=> Lies(f, place, c)
    BY <1>5 DEF Lies
<1>8. \A c \in DOMAIN g.pool : /\ c \notin Unloadable
                               /\ g.pool[c] = Atlas!NoRect \/ Lies(g, g.pool[c], c)
    BY <1>2, <1>5, <1>7 DEF FontOK
<1>9. \A i \in 1..Len(g.pages) : On(g, i) = On(f, i)
    BY <1>5 DEF On
<1>10. FontOK(g)
  <2>1. \A i \in 1..Len(g.pages) : On(g, i) \subseteq DOMAIN g.pool
    BY <1>2, <1>5, <1>9 DEF FontOK
  <2>2. \A i, j \in 1..Len(g.pages) : i # j => On(g, i) \cap On(g, j) = {}
    BY <1>5, <1>9 DEF FontOK
  <2>3. Len(g.pages) <= MAX_ATLAS_PAGES /\ \A i \in 1..Len(g.pages) : Packed(g.pages[i])
    BY <1>5 DEF FontOK
  <2> QED
    BY <1>6, <1>8, <2>1, <2>2, <2>3 DEF FontOK
<1> QED
    BY <1>5, <1>7, <1>10 DEF g, Stays

\* A page more.
Grows(f) == [f EXCEPT !.pages = Append(@, Atlas!NewPage)]

\* A new page shows nothing, and the others stay what they are.
LEMMA GrowKeeps ==
    ASSUME NEW f, FontOK(f), Len(f.pages) < MAX_ATLAS_PAGES
    PROVE  /\ FontOK(Grows(f)) /\ Stays(f, Grows(f))
           /\ Grows(f).pool = f.pool /\ Grows(f).evictions = f.evictions
           /\ Len(Grows(f).pages) = Len(f.pages) + 1
           /\ Grows(f).pages[Len(f.pages) + 1] = Atlas!NewPage
<1> DEFINE n == Len(f.pages)
           ps == Append(f.pages, Atlas!NewPage)
           g == Grows(f)
<1>1. f \in Fonts /\ f.pages \in Seq(Pages) /\ n \in Nat /\ Atlas!NewPage \in Pages
    BY FontIs, NewPageIs DEF FontOK, Packed
<1>2. /\ ps \in Seq(Pages) /\ Len(ps) = n + 1 /\ ps[n + 1] = Atlas!NewPage
      /\ \A i \in 1..n : ps[i] = f.pages[i]
    BY <1>1
<1>3. g = [pool |-> f.pool, pages |-> ps, oldest |-> f.oldest, evictions |-> f.evictions]
  <2>1. \A s : [f EXCEPT !.pages = s] = [pool |-> f.pool, pages |-> s, oldest |-> f.oldest,
                                        evictions |-> f.evictions]
    BY <1>1, FontIs
  <2>2. g = [f EXCEPT !.pages = ps]
    BY Zenon DEF Grows
  <2> HIDE DEF g, ps
  <2> QED
    BY <2>1, <2>2
<1>4. g.pool = f.pool /\ g.pages = ps /\ g.oldest = f.oldest /\ g.evictions = f.evictions
    BY <1>3
<1>5. g \in Fonts
    BY <1>1, <1>2, <1>3, FontIs DEF Fonts
<1> HIDE DEF g, ps
<1>6. 1..n \subseteq 1..(n + 1) /\ \A i \in 1..(n + 1) : i \in 1..n \/ i = n + 1
    BY <1>1
<1>7. \A place, c : Lies(f, place, c) => Lies(g, place, c)
    BY <1>2, <1>4, <1>6 DEF Lies
<1>8. /\ \A i \in 1..n : On(g, i) = On(f, i) /\ Packed(g.pages[i])
      /\ On(g, n + 1) = {} /\ Packed(g.pages[n + 1])
  <2>1. On(g, n + 1) = {}
    BY <1>2, <1>4 DEF On, Atlas!NewPage
  <2> QED
    BY <1>2, <1>4, <2>1, NewPageIs DEF On, FontOK
<1>9. FontOK(g)
  <2> HIDE DEF n
  <2>1. \A i \in 1..(n + 1) : On(g, i) \subseteq DOMAIN g.pool
    BY <1>4, <1>6, <1>8 DEF FontOK, n
  <2>2. \A i, j \in 1..(n + 1) : i # j => On(g, i) \cap On(g, j) = {}
    <3> TAKE i, j \in 1..(n + 1)
    <3>1. CASE i \in 1..n /\ j \in 1..n
      BY <1>8, <3>1 DEF FontOK, n
    <3>2. CASE i = n + 1 \/ j = n + 1
      BY <1>8, <3>2
    <3> QED
      BY <1>6, <3>1, <3>2
  <2>3. \A i \in 1..(n + 1) : Packed(g.pages[i])
    BY <1>6, <1>8
  <2>4. n + 1 <= MAX_ATLAS_PAGES
    BY <1>1, LoopsAssumption DEF n
  <2>5. \A c \in DOMAIN g.pool : /\ c \notin Unloadable
                                 /\ g.pool[c] = Atlas!NoRect \/ Lies(g, g.pool[c], c)
    BY <1>4, <1>7 DEF FontOK
  <2> QED
    BY <1>2, <1>4, <1>5, <2>1, <2>2, <2>3, <2>4, <2>5 DEF FontOK
<1> QED
    BY <1>2, <1>4, <1>7, <1>9 DEF g, Stays

\* The oldest page is emptied: what is pooled and on no page stays in the pool.
LEMMA EvictKeeps ==
    ASSUME NEW f, FontOK(f), Len(f.pages) = MAX_ATLAS_PAGES
    PROVE  /\ FontOK(Atlas!Evict(f)) /\ Atlas!Evict(f).evictions = f.evictions + 1
           /\ Len(Atlas!Evict(f).pages) = Len(f.pages) /\ f.oldest \in 1..Len(f.pages)
           /\ Blank(Atlas!Evict(f).pages[f.oldest])
           /\ \A cp \in DOMAIN f.pool :
                (\A i \in 1..Len(f.pages) : cp \notin On(f, i)) =>
                    /\ cp \in DOMAIN Atlas!Evict(f).pool
                    /\ \A i \in 1..Len(f.pages) : cp \notin On(Atlas!Evict(f), i)
<1> DEFINE n == Len(f.pages)
           o == f.oldest
           gone == {x.cp : x \in f.pages[o].placed}
           D == DOMAIN f.pool \ gone
           q == [c \in D |-> f.pool[c]]
           e == Atlas!Emptied(f.pages[o])
           ps == [f.pages EXCEPT ![o] = e]
           g == Atlas!Evict(f)
<1>1. /\ f \in Fonts /\ f.pages \in Seq(Pages) /\ n \in Nat
      /\ o \in 1..n /\ f.evictions \in Nat /\ n = MAX_ATLAS_PAGES /\ n # 0
    BY FontIs, LoopsAssumption DEF FontOK
<1>0. Packed(e) /\ Blank(e) /\ e \in Pages
  <2>1. Packed(f.pages[o])
    BY <1>1 DEF FontOK
  <2> QED
    BY <2>1, EmptiedIs DEF Packed
<1> HIDE DEF e
<1>2. gone = On(f, o)
    BY DEF On
<1>3. /\ ps \in Seq(Pages) /\ Len(ps) = n /\ ps[o] = e
      /\ \A i \in 1..n : i # o => ps[i] = f.pages[i]
    BY <1>0, <1>1
<1>4. D \in SUBSET Codepoints /\ q \in [D -> Ats] /\ DOMAIN q = D
    BY <1>1, FontIs
<1>5. q \in Pools
    BY <1>4, PoolIs
<1>6. (o % MAX_ATLAS_PAGES) + 1 \in 1..MAX_ATLAS_PAGES
    BY <1>1
<1>7. /\ g.pool = q /\ g.pages = ps /\ g.oldest = (o % MAX_ATLAS_PAGES) + 1
      /\ g.evictions = f.evictions + 1
    BY DEF Atlas!Evict, e
<1>8. g \in Fonts
  <2>1. f.evictions + 1 \in Nat
    BY <1>1
  <2>2. g = [pool |-> q, pages |-> ps, oldest |-> (o % MAX_ATLAS_PAGES) + 1,
             evictions |-> f.evictions + 1]
    BY DEF Atlas!Evict, e
  <2> HIDE DEF g, q, ps, o
  <2> QED
    BY <1>3, <1>5, <1>6, <2>1, <2>2 DEF Fonts
<1>9. \A c \in D : q[c] = f.pool[c]
    OBVIOUS
<1> HIDE DEF g, q, ps, gone, o
<1>10. /\ \A i \in 1..n : i # o => On(g, i) = On(f, i)
       /\ On(g, o) = {} /\ \A i \in 1..n : Packed(g.pages[i])
  <2>1. On(g, o) = {}
    BY <1>0, <1>3, <1>7 DEF On, Blank
  <2> QED
    BY <1>0, <1>3, <1>7, <2>1 DEF On, FontOK
<1>11. FontOK(g)
  <2>1. \A i \in 1..n : On(g, i) \subseteq DOMAIN g.pool
    <3> TAKE i \in 1..n
    <3>1. CASE i = o
      BY <1>10, <3>1
    <3>2. CASE i # o
      <4>1. On(f, i) \subseteq DOMAIN f.pool /\ On(f, i) \cap gone = {}
        BY <1>1, <1>2, <3>2 DEF FontOK
      <4> QED
        BY <1>4, <1>7, <1>10, <3>2, <4>1
    <3> QED
      BY <3>1, <3>2
  <2>2. \A i, j \in 1..n : i # j => On(g, i) \cap On(g, j) = {}
    <3> TAKE i, j \in 1..n
    <3>1. CASE i # o /\ j # o
      BY <1>10, <3>1 DEF FontOK
    <3>2. CASE i = o \/ j = o
      BY <1>10, <3>2
    <3> QED
      BY <3>1, <3>2
  <2>3. \A c \in DOMAIN g.pool : /\ c \notin Unloadable
                                 /\ g.pool[c] = Atlas!NoRect \/ Lies(g, g.pool[c], c)
    <3> TAKE c \in DOMAIN g.pool
    <3>1. c \in DOMAIN f.pool /\ c \notin gone /\ g.pool[c] = f.pool[c]
      BY <1>4, <1>7, <1>9
    <3>2. ASSUME Lies(f, f.pool[c], c) PROVE Lies(g, f.pool[c], c)
      <4> DEFINE place == f.pool[c]
      <4>1. place.page \in 1..n /\ [cp |-> c, x |-> place.x, y |-> place.y] \in f.pages[place.page].placed
        BY <3>2 DEF Lies
      <4>2. c \in On(f, place.page)
        BY <4>1 DEF On
      <4>3. place.page # o
        BY <1>2, <3>1, <4>2
      <4> QED
        BY <1>3, <1>7, <4>1, <4>3 DEF Lies
    <3> QED
      BY <3>1, <3>2 DEF FontOK
  <2> QED
    BY <1>1, <1>3, <1>7, <1>8, <1>10, <2>1, <2>2, <2>3 DEF FontOK
<1>12. ASSUME NEW cp \in DOMAIN f.pool, \A i \in 1..n : cp \notin On(f, i)
       PROVE  cp \in DOMAIN g.pool /\ \A i \in 1..n : cp \notin On(g, i)
  <2>1. cp \notin gone
    BY <1>1, <1>2, <1>12
  <2>2. \A i \in 1..n : cp \notin On(g, i)
    BY <1>10, <1>12
  <2> QED
    BY <1>4, <1>7, <2>1, <2>2
<1> QED
    BY <1>0, <1>1, <1>3, <1>7, <1>11, <1>12 DEF g, o

\* A pooled glyph that is on no page goes where there is room.
LEMMA PutKeeps ==
    ASSUME NEW f, FontOK(f), NEW i \in 1..Len(f.pages), NEW cp \in DOMAIN f.pool,
           \A j \in 1..Len(f.pages) : cp \notin On(f, j),
           Atlas!FitsRow(f.pages[i], cp) \/ Atlas!FitsBelow(f.pages[i], cp) \/ Blank(f.pages[i])
    PROVE  /\ FontOK(Atlas!Put(f, i, cp)) /\ Stays(f, Atlas!Put(f, i, cp))
           /\ Atlas!Put(f, i, cp).evictions = f.evictions
           /\ \/ Atlas!Put(f, i, cp).pool[cp] = Atlas!NoRect
              \/ Lies(Atlas!Put(f, i, cp), Atlas!Put(f, i, cp).pool[cp], cp)
<1> DEFINE n == Len(f.pages)
           r == Atlas!Row(f.pages[i], cp)
           np == IF atlasDevice = "stuck" THEN r ELSE Atlas!Copy(r, cp)
           na == IF atlasDevice = "stuck" THEN Atlas!NoRect ELSE [page |-> i, x |-> r.nextX, y |-> r.nextY]
           ps == [f.pages EXCEPT ![i] = np]
           q == [f.pool EXCEPT ![cp] = na]
           g == Atlas!Put(f, i, cp)
<1>1. /\ f \in Fonts /\ f.pages \in Seq(Pages) /\ n \in Nat /\ i \in Nat /\ cp \in Codepoints
      /\ DOMAIN f.pool \subseteq Codepoints /\ f.pool \in [DOMAIN f.pool -> Ats]
    BY FontIs DEF FontOK
<1>2. Packed(f.pages[i])
    BY DEF FontOK
<1>3. Packed(r) /\ r.placed = f.pages[i].placed /\ Atlas!FitsRow(r, cp)
    BY <1>1, <1>2, NextRowKeeps, RowFits
<1>4. /\ Packed(Atlas!Copy(r, cp)) /\ Atlas!Copy(r, cp).placed = r.placed \cup {Newest(r, cp)}
    BY <1>1, <1>3, CopyKeeps
<1>5. /\ r.nextX \in 0..ATLAS_SIZE /\ r.nextY \in 0..ATLAS_SIZE
      /\ np \in Pages /\ Packed(np)
    BY <1>3, <1>4 DEF Packed, Pages
<1>6. na \in Ats
  <2>1. n <= MAX_ATLAS_PAGES /\ i \in 1..n
    BY DEF FontOK
  <2>2. MAX_ATLAS_PAGES \in Nat
    BY LoopsAssumption
  <2>3. i \in 1..MAX_ATLAS_PAGES
    <3> HIDE DEF n
    <3> QED
      BY <1>1, <2>1, <2>2
  <2> QED
    BY <1>5, <2>3 DEF Ats, Atlas!Rects
<1>7. /\ np.placed = f.pages[i].placed /\ na = Atlas!NoRect
      \/ /\ np.placed = f.pages[i].placed \cup {Newest(r, cp)}
         /\ na = [page |-> i, x |-> r.nextX, y |-> r.nextY]
    BY <1>3, <1>4
<1> HIDE DEF np, na
<1>8. /\ ps \in Seq(Pages) /\ Len(ps) = n /\ ps[i] = np
      /\ \A j \in 1..n : j # i => ps[j] = f.pages[j]
    BY <1>1, <1>5
<1>9. /\ q \in [DOMAIN f.pool -> Ats] /\ DOMAIN q = DOMAIN f.pool /\ q[cp] = na
      /\ \A c \in DOMAIN f.pool : c # cp => q[c] = f.pool[c]
    BY <1>1, <1>6
<1>10. g = [pool |-> q, pages |-> ps, oldest |-> f.oldest, evictions |-> f.evictions]
  <2>1. \A s, u : [f EXCEPT !.pages = s, !.pool = u] =
                    [pool |-> u, pages |-> s, oldest |-> f.oldest, evictions |-> f.evictions]
    <3> TAKE s, u
    <3>1. [f EXCEPT !.pages = s, !.pool = u] = [[f EXCEPT !.pages = s] EXCEPT !.pool = u]
      OBVIOUS
    <3>2. [f EXCEPT !.pages = s] = [pool |-> f.pool, pages |-> s, oldest |-> f.oldest,
                                    evictions |-> f.evictions]
      BY <1>1, FontIs
    <3>3. \A P, O, E : [[pool |-> P, pages |-> s, oldest |-> O, evictions |-> E] EXCEPT !.pool = u]
                       = [pool |-> u, pages |-> s, oldest |-> O, evictions |-> E]
      OBVIOUS
    <3> DEFINE h == [pool |-> f.pool, pages |-> s, oldest |-> f.oldest, evictions |-> f.evictions]
    <3>4. [h EXCEPT !.pool = u]
            = [pool |-> u, pages |-> s, oldest |-> f.oldest, evictions |-> f.evictions]
      BY <3>3
    <3>5. [f EXCEPT !.pages = s, !.pool = u] = [h EXCEPT !.pool = u]
      <4> HIDE DEF h
      <4>1. [f EXCEPT !.pages = s] = h
        BY <3>2 DEF h
      <4> QED
        BY <3>1, <4>1
    <3> QED
      BY <3>4, <3>5, Zenon
  <2>2. g = [f EXCEPT !.pages = ps, !.pool = q]
    BY Zenon DEF Atlas!Put, np, na
  <2> HIDE DEF g, ps, q
  <2> QED
    BY <2>1, <2>2
<1>11. g.pool = q /\ g.pages = ps /\ g.oldest = f.oldest /\ g.evictions = f.evictions
    BY <1>10
<1>12. g \in Fonts
  <2>1. q \in Pools
    BY <1>1, <1>9, PoolIs
  <2> HIDE DEF ps, q
  <2> QED
    BY <1>1, <1>8, <1>10, <2>1, FontIs DEF Fonts
<1> HIDE DEF g, ps, q, r
<1>13. \A j \in 1..n : f.pages[j].placed \subseteq g.pages[j].placed
    BY <1>7, <1>8, <1>11
<1>14. \A place, c : Lies(f, place, c) => Lies(g, place, c)
    BY <1>8, <1>11, <1>13 DEF Lies
<1>15. /\ \A j \in 1..n : j # i => On(g, j) = On(f, j)
       /\ On(g, i) \subseteq On(f, i) \cup {cp}
       /\ \A j \in 1..n : Packed(g.pages[j])
  <2>1. Newest(r, cp).cp = cp
    BY DEF Newest
  <2>2. On(g, i) \subseteq On(f, i) \cup {cp}
    BY <1>7, <1>8, <1>11, <2>1 DEF On
  <2>3. \A j \in 1..n : Packed(g.pages[j])
    BY <1>5, <1>8, <1>11 DEF FontOK
  <2> QED
    BY <1>8, <1>11, <2>2, <2>3 DEF On
<1>16. na = Atlas!NoRect \/ Lies(g, na, cp)
    BY <1>1, <1>7, <1>8, <1>11 DEF Lies, Newest
<1>17. FontOK(g)
  <2>1. \A j \in 1..n : On(g, j) \subseteq DOMAIN g.pool
    BY <1>9, <1>11, <1>15 DEF FontOK
  <2>2. \A j, k \in 1..n : j # k => On(g, j) \cap On(g, k) = {}
    <3> SUFFICES ASSUME NEW j \in 1..n, NEW k \in 1..n, j # k
                 PROVE  On(g, j) \cap On(g, k) = {}
      OBVIOUS
    <3>1. On(f, j) \cap On(f, k) = {} /\ cp \notin On(f, j) /\ cp \notin On(f, k)
      BY DEF FontOK
    <3> QED
      BY <1>15, <3>1
  <2>3. \A c \in DOMAIN g.pool : /\ c \notin Unloadable
                                 /\ g.pool[c] = Atlas!NoRect \/ Lies(g, g.pool[c], c)
    BY <1>9, <1>11, <1>14, <1>16 DEF FontOK
  <2>4. n <= MAX_ATLAS_PAGES
    BY DEF FontOK
  <2> QED
    BY <1>8, <1>11, <1>12, <1>15, <2>1, <2>2, <2>3, <2>4 DEF FontOK
<1> QED
    BY <1>9, <1>11, <1>14, <1>16, <1>17 DEF g, Stays

\* No eviction happened, and all glyphs stay; or the count has gone up.
After(f, g) ==
    /\ FontOK(g) /\ g.evictions >= f.evictions
    /\ g.evictions = f.evictions => Stays(f, g)

\* A font follows itself.
LEMMA AfterSame == ASSUME NEW f, FontOK(f) PROVE After(f, f)
<1>1. f.evictions \in Nat
    BY FontIs DEF FontOK
<1> QED
    BY <1>1 DEF After, Stays

\* ... and what follows a font that follows another follows that one.
LEMMA AfterAfter ==
    ASSUME NEW f, NEW g, NEW h, FontOK(f), After(f, g), After(g, h)
    PROVE  After(f, h)
<1>1. f.evictions \in Nat /\ g.evictions \in Nat /\ h.evictions \in Nat
    BY FontIs DEF FontOK, After
<1>2. h.evictions >= f.evictions /\ FontOK(h)
    BY <1>1 DEF After
<1>3. ASSUME h.evictions = f.evictions PROVE Stays(f, h)
  <2>1. g.evictions = f.evictions /\ h.evictions = g.evictions
    BY <1>1, <1>3 DEF After
  <2> QED
    BY <2>1 DEF After, Stays
<1> QED
    BY <1>2, <1>3 DEF After

\* What is told of a glyph: it lies there, or nowhere.
Tells(f, place, cp) == place \in Ats /\ (place = Atlas!NoRect \/ Lies(f, place, cp))

\* What the pool says of a glyph is nothing, or where it lies.
LEMMA PoolTells ==
    ASSUME NEW f, FontOK(f), NEW cp \in DOMAIN f.pool
    PROVE  Tells(f, f.pool[cp], cp)
<1>1. f.pool[cp] \in Ats
    BY FontIs DEF FontOK
<1> QED
    BY <1>1 DEF FontOK, Tells

\* Writing an entry that is already there changes nothing.
LEMMA ReplacedBySame ==
    ASSUME NEW f \in Fonts, NEW cp
    PROVE  [f EXCEPT !.pool[cp] = f.pool[cp]] = f
<1>1. f.pool = [f.pool EXCEPT ![cp] = f.pool[cp]]
    BY FontIs
<1>2. \A u : [f EXCEPT !.pool = u] = [pool |-> u, pages |-> f.pages, oldest |-> f.oldest,
                                      evictions |-> f.evictions]
    BY FontIs
<1>3. [f EXCEPT !.pool[cp] = f.pool[cp]] = [f EXCEPT !.pool = [f.pool EXCEPT ![cp] = f.pool[cp]]]
    OBVIOUS
<1> QED
    BY <1>1, <1>2, <1>3, FontIs

\* A pooled glyph that is on no page is uploaded.
LEMMA UploadKeeps ==
    ASSUME NEW f, FontOK(f), NEW cp \in DOMAIN f.pool, f.pool[cp] = Atlas!NoRect,
           \A j \in 1..Len(f.pages) : cp \notin On(f, j)
    PROVE  /\ After(f, Atlas!UploadGlyphToAtlas(f, cp).font)
           /\ Tells(Atlas!UploadGlyphToAtlas(f, cp).font, Atlas!UploadGlyphToAtlas(f, cp).at, cp)
<1> DEFINE open == {i \in DOMAIN f.pages : Atlas!FitsRow(f.pages[i], cp) \/ Atlas!FitsBelow(f.pages[i], cp)}
           full == Len(f.pages) = MAX_ATLAS_PAGES
           made == [f EXCEPT !.pages = Append(@, Atlas!NewPage)]
           put == IF open # {} THEN Atlas!Put(f, Atlas!Min(open), cp)
                  ELSE IF full THEN Atlas!Put(Atlas!Evict(f), f.oldest, cp)
                  ELSE IF atlasDevice = "lost" THEN f ELSE Atlas!Put(made, Len(made.pages), cp)
           up == Atlas!UploadGlyphToAtlas(f, cp)
<1>1. /\ f.pages \in Seq(Pages) /\ Len(f.pages) \in Nat /\ f.evictions \in Nat
      /\ Len(f.pages) <= MAX_ATLAS_PAGES /\ f \in Fonts /\ MAX_ATLAS_PAGES \in Nat
    BY FontIs, LoopsAssumption DEF FontOK
<1>2. up = [font |-> [put EXCEPT !.pool[cp] = IF open = {} /\ full THEN Atlas!NoRect ELSE put.pool[cp]],
            at |-> put.pool[cp]]
    BY Zenon DEF Atlas!UploadGlyphToAtlas
<1> HIDE DEF up
<1>3. ASSUME NEW g, After(f, g), Tells(g, g.pool[cp], cp),
             up = [font |-> [g EXCEPT !.pool[cp] = g.pool[cp]], at |-> g.pool[cp]]
      PROVE  After(f, up.font) /\ Tells(up.font, up.at, cp)
  <2>1. g \in Fonts
    BY <1>3 DEF After, FontOK
  <2>2. up.font = g /\ up.at = g.pool[cp]
    BY <1>3, <2>1, ReplacedBySame
  <2> QED
    BY <1>3, <2>2
<1>4. CASE open # {}
  <2> DEFINE i == Atlas!Min(open)
             g == Atlas!Put(f, i, cp)
  <2>1. i \in open
    <3>1. open \subseteq Nat
      BY <1>1
    <3>2. \E k \in open : \A l \in open : k <= l
      <4> HIDE DEF open
      <4> QED
        BY <1>4, <3>1, Least
    <3> HIDE DEF open
    <3> QED
      BY <3>2 DEF Atlas!Min
  <2> HIDE DEF i
  <2>2. i \in 1..Len(f.pages) /\ (Atlas!FitsRow(f.pages[i], cp) \/ Atlas!FitsBelow(f.pages[i], cp))
    BY <1>1, <2>1
  <2>3. FontOK(g) /\ Stays(f, g) /\ g.evictions = f.evictions
    BY <2>2, PutKeeps
  <2>4. g.pool[cp] = Atlas!NoRect \/ Lies(g, g.pool[cp], cp)
    BY <2>2, PutKeeps
  <2>5. cp \in DOMAIN g.pool
    BY <1>1, FontIs DEF Atlas!Put
  <2>6. up = [font |-> [g EXCEPT !.pool[cp] = g.pool[cp]], at |-> g.pool[cp]]
    <3> HIDE DEF open
    <3> QED
      BY <1>2, <1>4, Zenon DEF i
  <2> HIDE DEF g
  <2>7. After(f, g) /\ Tells(g, g.pool[cp], cp)
    BY <1>1, <2>3, <2>5, PoolTells DEF After
  <2> QED
    BY <1>3, <2>6, <2>7 DEF up
<1>5. CASE open = {} /\ full
  <2> DEFINE e == Atlas!Evict(f)
             g == Atlas!Put(e, f.oldest, cp)
  <2>1. /\ FontOK(e) /\ e.evictions = f.evictions + 1 /\ Len(e.pages) = Len(f.pages)
        /\ f.oldest \in 1..Len(e.pages) /\ Blank(e.pages[f.oldest])
        /\ cp \in DOMAIN e.pool /\ \A i \in 1..Len(e.pages) : cp \notin On(e, i)
    BY <1>5, EvictKeeps
  <2> HIDE DEF e
  <2>2. FontOK(g) /\ g.evictions = e.evictions /\ (g.pool[cp] = Atlas!NoRect \/ Lies(g, g.pool[cp], cp))
    BY <2>1, PutKeeps
  <2>3. cp \in DOMAIN g.pool
    BY <2>1, FontIs DEF Atlas!Put, FontOK
  <2>4. up = [font |-> Forgets(g, cp), at |-> g.pool[cp]]
    <3> HIDE DEF open
    <3> QED
      BY <1>2, <1>5, Zenon DEF e, Forgets
  <2> HIDE DEF g
  <2>5. /\ FontOK(Forgets(g, cp)) /\ Stays(g, Forgets(g, cp))
        /\ Forgets(g, cp).evictions = f.evictions + 1
    BY <2>1, <2>2, ForgetKeeps
  <2>6. Tells(g, g.pool[cp], cp)
    BY <2>2, <2>3, PoolTells
  <2>7. up.font = Forgets(g, cp) /\ up.at = g.pool[cp]
    BY <2>4
  <2>8. f.evictions + 1 > f.evictions
    BY <1>1
  <2>9. After(f, up.font)
    BY <1>1, <2>5, <2>7, <2>8 DEF After
  <2>10. Tells(up.font, up.at, cp)
    BY <2>5, <2>6, <2>7 DEF Tells, Stays
  <2> QED
    BY <2>9, <2>10 DEF up
<1>6. CASE open = {} /\ ~full /\ atlasDevice = "lost"
  <2>1. up = [font |-> [f EXCEPT !.pool[cp] = f.pool[cp]], at |-> f.pool[cp]]
    <3> HIDE DEF open
    <3> QED
      BY <1>2, <1>6, Zenon
  <2> QED
    BY <1>3, <2>1, AfterSame, PoolTells DEF up
<1>7. CASE open = {} /\ ~full /\ atlasDevice # "lost"
  <2> DEFINE e == Grows(f)
             n == Len(f.pages) + 1
             g == Atlas!Put(e, n, cp)
  <2>1. /\ FontOK(e) /\ Stays(f, e) /\ e.pool = f.pool /\ e.evictions = f.evictions
        /\ Len(e.pages) = n /\ e.pages[n] = Atlas!NewPage
    BY <1>1, <1>7, GrowKeeps
  <2>2. \A i \in 1..Len(e.pages) : cp \notin On(e, i)
    <3> TAKE i \in 1..Len(e.pages)
    <3>1. CASE i \in 1..Len(f.pages)
      <4>1. e.pages[i] = f.pages[i]
        BY <1>1, <3>1, FontIs DEF Grows
      <4> QED
        BY <3>1, <4>1 DEF On
    <3>2. CASE i = n
      BY <2>1, <3>2 DEF On, Atlas!NewPage
    <3> QED
      BY <1>1, <2>1, <3>1, <3>2
  <2>3. up = [font |-> [g EXCEPT !.pool[cp] = g.pool[cp]], at |-> g.pool[cp]]
    <3>1. made = e /\ Len(made.pages) = n
      BY <2>1, Zenon DEF Grows
    <3> HIDE DEF open, made, e, n
    <3> QED
      BY <1>2, <1>7, <3>1, Zenon
  <2> HIDE DEF e
  <2>4. n \in 1..Len(e.pages) /\ cp \in DOMAIN e.pool
    BY <1>1, <2>1
  <2> HIDE DEF n
  <2>5. /\ FontOK(g) /\ Stays(e, g) /\ g.evictions = e.evictions
        /\ g.pool[cp] = Atlas!NoRect \/ Lies(g, g.pool[cp], cp)
    BY <2>1, <2>2, <2>4, NewPageIs, PutKeeps
  <2>6. cp \in DOMAIN g.pool
    BY <2>1, <2>4, FontIs DEF Atlas!Put, FontOK
  <2> HIDE DEF g
  <2>7. After(f, g) /\ Tells(g, g.pool[cp], cp)
    BY <1>1, <2>1, <2>5, <2>6, PoolTells DEF After, Stays
  <2> QED
    BY <1>3, <2>3, <2>7 DEF up
<1> QED
    BY <1>4, <1>5, <1>6, <1>7 DEF up

\* GetGlyph leaves a font that follows, and tells the truth or nothing, for a
\* pooled glyph, one that FreeType fails on, an empty one and an uploaded one.
LEMMA GlyphKeeps ==
    ASSUME NEW f, FontOK(f), NEW cp \in Codepoints
    PROVE  /\ After(f, Atlas!GetGlyph(f, cp).font)
           /\ IF cp \in Unloadable THEN Atlas!GetGlyph(f, cp).at = Atlas!RawRect
              ELSE Tells(Atlas!GetGlyph(f, cp).font, Atlas!GetGlyph(f, cp).at, cp)
<1> DEFINE r == Atlas!GetGlyph(f, cp)
<1>1. CASE cp \in DOMAIN f.pool
  <2>1. r.font = f /\ r.at = f.pool[cp]
    BY <1>1 DEF Atlas!GetGlyph
  <2> QED
    BY <1>1, <2>1, AfterSame, PoolTells DEF FontOK
<1>2. CASE cp \notin DOMAIN f.pool /\ cp \in Unloadable
  <2>1. r.font = f /\ r.at = Atlas!RawRect
    BY <1>2 DEF Atlas!GetGlyph
  <2> QED
    BY <1>2, <2>1, AfterSame
<1>3. CASE cp \notin DOMAIN f.pool /\ cp \notin Unloadable
  <2> DEFINE g == Adds(f, cp)
  <2>1. /\ FontOK(g) /\ Stays(f, g) /\ cp \in DOMAIN g.pool /\ g.pool[cp] = Atlas!NoRect
        /\ g.pages = f.pages /\ g.evictions = f.evictions
    BY <1>3, AddKeeps
  <2>2. r = IF Width[cp] = 0 THEN [font |-> g, at |-> Atlas!NoRect] ELSE Atlas!UploadGlyphToAtlas(g, cp)
    BY <1>3, Zenon DEF Atlas!GetGlyph, Adds
  <2> HIDE DEF g
  <2>3. \A j \in 1..Len(g.pages) : cp \notin On(g, j)
    BY <1>3, <2>1, NotOn DEF On
  <2>4. After(f, g)
    <3>1. f.evictions \in Nat
      BY FontIs DEF FontOK
    <3> QED
      BY <2>1, <3>1 DEF After
  <2>5. CASE Width[cp] = 0
    <3>1. r.font = g /\ r.at = Atlas!NoRect
      BY <2>2, <2>5
    <3> QED
      BY <1>3, <2>4, <3>1, NoRectIs DEF Tells
  <2>6. CASE Width[cp] # 0
    <3>1. r = Atlas!UploadGlyphToAtlas(g, cp)
      BY <2>2, <2>6
    <3>2. After(g, r.font) /\ Tells(r.font, r.at, cp)
      BY <2>1, <2>3, <3>1, UploadKeeps
    <3> QED
      BY <1>3, <2>4, <3>2, AfterAfter
  <2> QED
    BY <2>5, <2>6
<1> QED
    BY <1>1, <1>2, <1>3

-------------------------------------------------------------------------------
\* The loops of a frame.

\* So does the loop of PrefetchCodepoints, by induction over the code points.
LEMMA PrefetchKeeps ==
    ASSUME FontOK(font), NEW cps \in SUBSET Codepoints
    PROVE  After(font, Atlas!Prefetched(cps))
<1> DEFINE N == Atlas!Max(Codepoints)
           V == {g \in Fonts : After(font, g)}
           Turn(cp, u) == IF cp \in cps THEN Atlas!GetGlyph(u, cp).font ELSE u
           G == [e \in Nat \X V |-> IF e[1] \in 1..N THEN Turn(e[1], e[2]) ELSE e[2]]
           R(g) == [cp \in 0..N |-> IF cp = 0 THEN font ELSE Turn(cp, g[cp - 1])]
           M == CHOOSE g : g = R(g)
<1>1. N \in Nat /\ font \in V
    BY LoopsAssumption, AfterSame DEF FontOK
<1>2. ASSUME NEW cp \in 1..N, NEW u \in V PROVE Turn(cp, u) \in V
  <2>1. CASE cp \in cps
    <3>1. After(u, Atlas!GetGlyph(u, cp).font)
      BY <2>1, GlyphKeeps DEF After
    <3>2. After(font, Atlas!GetGlyph(u, cp).font)
      BY <3>1, AfterAfter
    <3> QED
      BY <2>1, <3>2 DEF After, FontOK
  <2>2. CASE cp \notin cps
    BY <2>2
  <2> QED
    BY <2>1, <2>2
<1>3. G \in [Nat \X V -> V]
  <2> SUFFICES ASSUME NEW e \in Nat \X V
               PROVE  (IF e[1] \in 1..N THEN Turn(e[1], e[2]) ELSE e[2]) \in V
    OBVIOUS
  <2>1. e[2] \in V
    OBVIOUS
  <2> HIDE DEF Turn, N, V
  <2> QED
    BY <1>2, <2>1
<1>4. PICK f \in [0..N -> V] :
        f[0] = font /\ \A cp \in 1..N : f[cp] = G[<<cp, f[cp - 1]>>]
  <2> HIDE DEF N, G, V
  <2>1. \E f : f \in Recursive(N, V, font, G)
    BY <1>1, <1>3, Recursion
  <2> QED
    BY <2>1 DEF Recursive
<1>5. \A cp \in 1..N : f[cp] = Turn(cp, f[cp - 1])
  <2> HIDE DEF Turn, N, V
  <2> TAKE cp \in 1..N
  <2>1. cp - 1 \in 0..N /\ cp \in Nat
    BY <1>1
  <2>2. <<cp, f[cp - 1]>> \in Nat \X V
    BY <1>4, <2>1
  <2>3. f[cp] = G[<<cp, f[cp - 1]>>]
    BY <1>4
  <2> QED
    BY <2>2, <2>3
<1>6. f = R(f)
  <2> HIDE DEF Turn, N, G, V
  <2> QED
    BY <1>1, <1>4, <1>5
<1>7. M = R(M)
  <2> HIDE DEF R
  <2> QED
    BY <1>6, Zenon
<1>8. M[0] = font /\ \A cp \in 1..N : M[cp] = Turn(cp, M[cp - 1])
  <2> HIDE DEF Turn, N, M
  <2> QED
    BY <1>1, <1>7
<1> DEFINE S == {cp \in 0..N : M[cp] \in V}
<1>9. 0..N \subseteq S
  <2>1. 0 \in S
    <3> HIDE DEF M, N, V
    <3> QED
      BY <1>1, <1>8
  <2>2. ASSUME NEW cp \in 1..N, cp - 1 \in S PROVE cp \in S
    <3> HIDE DEF M, N, Turn, V
    <3> QED
      BY <1>1, <1>2, <1>8, <2>2
  <2>3. \A cp \in 1..N : cp - 1 \in S => cp \in S
    BY <2>2
  <2> HIDE DEF S, N
  <2> QED
    BY <1>1, <2>1, <2>3, InductiveUpTo
<1>10. M[N] \in V
  <2> HIDE DEF M, N, V
  <2> QED
    BY <1>1, <1>9
<1>11. Atlas!Prefetched(cps) = M[N]
    BY Zenon DEF Atlas!Prefetched
<1> HIDE DEF M, N
<1> QED
    BY <1>10, <1>11

\* A quad that is raw still, or has nothing, or the place of its glyph.
AnyQuads == [cp : Codepoints, at : Ats]
Fine(f, q) == q.at \in {Atlas!NoRect, Atlas!RawRect} \/ Lies(f, q.at, q.cp)

\* What one turn of the loop makes of a quad.
Answer(f, q) == IF q.at # Atlas!RawRect THEN q ELSE [cp |-> q.cp, at |-> Atlas!GetGlyph(f, q.cp).at]
Answered(f, q) == IF q.at # Atlas!RawRect THEN f ELSE Atlas!GetGlyph(f, q.cp).font

\* One turn of the loop over the quads, and what the quad becomes.
LEMMA AnswerIs ==
    ASSUME NEW f, FontOK(f), NEW q \in AnyQuads
    PROVE  /\ Answer(f, q) \in AnyQuads /\ After(f, Answered(f, q))
           /\ Answer(f, q).at = Atlas!RawRect => Answer(f, q).cp \in Unloadable
           /\ q.at # Atlas!RawRect \/ q.cp \in Unloadable => Answer(f, q) = q
           /\ Answered(f, q).evictions = f.evictions /\ Fine(f, q)
                => Fine(Answered(f, q), Answer(f, q))
<1>1. q.cp \in Codepoints /\ q.at \in Ats /\ q = [cp |-> q.cp, at |-> q.at]
    BY DEF AnyQuads
<1>2. CASE q.at # Atlas!RawRect
    BY <1>2, AfterSame DEF Answer, Answered
<1>3. CASE q.at = Atlas!RawRect
  <2> DEFINE r == Atlas!GetGlyph(f, q.cp)
  <2>1. /\ After(f, r.font)
        /\ IF q.cp \in Unloadable THEN r.at = Atlas!RawRect ELSE Tells(r.font, r.at, q.cp)
    BY <1>1, GlyphKeeps
  <2>2. Answer(f, q) = [cp |-> q.cp, at |-> r.at] /\ Answered(f, q) = r.font
    BY <1>3 DEF Answer, Answered
  <2> HIDE DEF r
  <2>3. Answer(f, q).cp = q.cp /\ Answer(f, q).at = r.at
    BY <2>2
  <2>4. r.at \in Ats
    BY <2>1, NoRectIs DEF Tells
  <2>5. Answer(f, q) \in AnyQuads
    BY <1>1, <2>2, <2>4 DEF AnyQuads
  <2>6. CASE q.cp \in Unloadable
    <3>1. Answer(f, q) = q
      BY <1>1, <1>3, <2>1, <2>2, <2>6
    <3> QED
      BY <1>3, <2>1, <2>2, <2>5, <2>6, <3>1 DEF Fine
  <2>7. CASE q.cp \notin Unloadable
    <3>1. Tells(r.font, r.at, q.cp)
      BY <2>1, <2>7
    <3>2. r.at # Atlas!RawRect
      <4>1. Atlas!RawRect.page = 0
        BY DEF Atlas!RawRect
      <4>2. ~Lies(r.font, Atlas!RawRect, q.cp)
        BY <4>1 DEF Lies
      <4> QED
        BY <3>1, <4>2, NoRectIs DEF Tells
    <3> QED
      BY <1>3, <2>1, <2>2, <2>3, <2>5, <2>7, <3>1, <3>2 DEF Fine, Tells
  <2> QED
    BY <2>6, <2>7
<1> QED
    BY <1>2, <1>3

\* What the loop has made of the first n quads.
Sofar(quads, n, a) ==
    /\ a = [font |-> a.font, quads |-> a.quads]
    /\ a.font \in Fonts /\ After(font, a.font)
    /\ a.quads \in Seq(AnyQuads) /\ Len(a.quads) = n
    /\ \A i \in 1..n :
        /\ a.quads[i].at = Atlas!RawRect => a.quads[i].cp \in Unloadable
        /\ quads[i].at # Atlas!RawRect \/ quads[i].cp \in Unloadable => a.quads[i] = quads[i]
        /\ a.font.evictions = font.evictions /\ Fine(font, quads[i]) => Fine(a.font, a.quads[i])

\* A quad that is right stays right while the font only grows.
LEMMA FineStays ==
    ASSUME NEW f, NEW g, Stays(f, g), NEW q, Fine(f, q) PROVE Fine(g, q)
    BY DEF Fine, Stays

\* One turn keeps what holds of the quads so far: each is right in the font it
\* has led to, if that has evicted nothing since the frame began.
LEMMA ResolveKeeps ==
    ASSUME FontOK(font), NEW quads \in Seq(AnyQuads), NEW n \in 1..Len(quads), NEW a,
           Sofar(quads, n - 1, a)
    PROVE  Sofar(quads, n, Atlas!Resolve(a, quads[n]))
<1> DEFINE q == quads[n]
           b == Atlas!Resolve(a, q)
           z == Answer(a.font, q)
           f == Answered(a.font, q)
<1>1. q \in AnyQuads /\ FontOK(a.font) /\ a.quads \in Seq(AnyQuads) /\ Len(a.quads) = n - 1
    BY DEF Sofar, After
<1>2. /\ z \in AnyQuads /\ After(a.font, f)
      /\ z.at = Atlas!RawRect => z.cp \in Unloadable
      /\ q.at # Atlas!RawRect \/ q.cp \in Unloadable => z = q
      /\ f.evictions = a.font.evictions /\ Fine(a.font, q) => Fine(f, z)
    BY <1>1, AnswerIs
<1>3. b = [font |-> f, quads |-> Append(a.quads, z)]
  <2>1. CASE q.at # Atlas!RawRect
    <3>1. b = [a EXCEPT !.quads = Append(a.quads, q)]
      BY <2>1, Zenon DEF Atlas!Resolve
    <3>2. z = q /\ f = a.font
      BY <2>1 DEF Answer, Answered
    <3>3. a = [font |-> a.font, quads |-> a.quads]
      BY DEF Sofar
    <3>4. \A s : [a EXCEPT !.quads = s] = [font |-> a.font, quads |-> s]
      BY <3>3
    <3> HIDE DEF b, z, f
    <3> QED
      BY <3>1, <3>2, <3>4
  <2>2. CASE q.at = Atlas!RawRect
    BY <2>2, Zenon DEF Atlas!Resolve, Answer, Answered
  <2> QED
    BY <2>1, <2>2
<1> HIDE DEF b, z, f, q
<1>4. b.font = f /\ b.quads = Append(a.quads, z)
    BY <1>3
<1>5. /\ b.quads \in Seq(AnyQuads) /\ Len(b.quads) = n /\ b.quads[n] = z
      /\ \A i \in 1..(n - 1) : b.quads[i] = a.quads[i]
    BY <1>1, <1>2, <1>4
<1>6. After(font, f) /\ f \in Fonts
  <2>1. After(font, f)
    BY <1>2, AfterAfter DEF Sofar
  <2> QED
    BY <2>1 DEF After, FontOK
<1>7. f.evictions = font.evictions => a.font.evictions = font.evictions /\ f.evictions = a.font.evictions
  <2>1. font.evictions \in Nat /\ a.font.evictions \in Nat /\ f.evictions \in Nat
    BY <1>1, <1>6, FontIs DEF FontOK
  <2>2. a.font.evictions >= font.evictions /\ f.evictions >= a.font.evictions
    BY <1>2 DEF Sofar, After
  <2> QED
    BY <2>1, <2>2
<1>8. ASSUME NEW i \in 1..n
      PROVE  /\ b.quads[i].at = Atlas!RawRect => b.quads[i].cp \in Unloadable
             /\ quads[i].at # Atlas!RawRect \/ quads[i].cp \in Unloadable => b.quads[i] = quads[i]
             /\ b.font.evictions = font.evictions /\ Fine(font, quads[i])
                  => Fine(b.font, b.quads[i])
  <2>1. CASE i \in 1..(n - 1)
    <3>1. b.quads[i] = a.quads[i]
      BY <1>5, <2>1
    <3>2. /\ a.quads[i].at = Atlas!RawRect => a.quads[i].cp \in Unloadable
          /\ quads[i].at # Atlas!RawRect \/ quads[i].cp \in Unloadable => a.quads[i] = quads[i]
          /\ a.font.evictions = font.evictions /\ Fine(font, quads[i])
               => Fine(a.font, a.quads[i])
      BY <2>1 DEF Sofar
    <3>3. ASSUME f.evictions = font.evictions, Fine(font, quads[i]) PROVE Fine(f, a.quads[i])
      <4>1. Fine(a.font, a.quads[i]) /\ Stays(a.font, f)
        BY <1>2, <1>7, <3>2, <3>3 DEF After
      <4> QED
        BY <4>1, FineStays
    <3> QED
      BY <1>4, <3>1, <3>2, <3>3
  <2>2. CASE i = n
    <3>1. b.quads[i] = z /\ quads[i] = q
      BY <1>5, <2>2 DEF q
    <3>2. ASSUME f.evictions = font.evictions, Fine(font, q) PROVE Fine(f, z)
      <4>1. Stays(font, a.font)
        BY <1>7, <3>2 DEF Sofar, After
      <4>2. Fine(a.font, q)
        BY <3>2, <4>1, FineStays
      <4> QED
        BY <1>2, <1>7, <3>2, <4>2
    <3> QED
      BY <1>2, <1>4, <3>1, <3>2
  <2>3. i \in 1..(n - 1) \/ i = n
    OBVIOUS
  <2> QED
    BY <2>1, <2>2, <2>3
<1>9. Sofar(quads, n, b)
  <2>1. b = [font |-> b.font, quads |-> b.quads]
    BY <1>3, <1>4
  <2> QED
    BY <1>4, <1>5, <1>6, <1>8, <2>1 DEF Sofar
<1> QED
    BY <1>9 DEF b, q

\* Hence so does the loop, by induction over the quads.
LEMMA ResolvedIs ==
    ASSUME FontOK(font), NEW quads \in Seq(AnyQuads)
    PROVE  Sofar(quads, Len(quads), Atlas!Resolved(quads))
<1> DEFINE N == Len(quads)
           V == {u \in [font : Fonts, quads : Seq(AnyQuads)] : After(font, u.font)}
           v0 == [font |-> font, quads |-> <<>>]
           Turn(n, u) == Atlas!Resolve(u, quads[n])
           G == [e \in Nat \X V |-> IF e[1] \in 1..N THEN Turn(e[1], e[2]) ELSE e[2]]
           R(g) == [n \in 0..N |-> IF n = 0 THEN v0 ELSE Turn(n, g[n - 1])]
           M == CHOOSE g : g = R(g)
<1>1. N \in Nat /\ v0 \in V
    BY AfterSame DEF FontOK
<1>2. ASSUME NEW n \in 1..N, NEW u \in V PROVE Turn(n, u) \in V
  <2> DEFINE q == quads[n]
  <2>1. q \in AnyQuads /\ FontOK(u.font) /\ After(font, u.font)
    BY DEF After
  <2> HIDE DEF q
  <2>2. Answer(u.font, q) \in AnyQuads /\ After(u.font, Answered(u.font, q))
    BY <2>1, AnswerIs
  <2>3. After(font, Answered(u.font, q)) /\ Answered(u.font, q) \in Fonts
    <3>1. After(font, Answered(u.font, q))
      BY <2>1, <2>2, AfterAfter
    <3> QED
      BY <3>1 DEF After, FontOK
  <2>4. Atlas!Resolve(u, q).font = Answered(u.font, q)
    BY DEF Atlas!Resolve, Answered
  <2>5. Atlas!Resolve(u, q) \in [font : Fonts, quads : Seq(AnyQuads)]
    <3>1. CASE q.at # Atlas!RawRect
      <4>1. Append(u.quads, q) \in Seq(AnyQuads)
        BY <2>1
      <4> QED
        BY <3>1, <4>1 DEF Atlas!Resolve
    <3>2. CASE q.at = Atlas!RawRect
      <4>1. Append(u.quads, Answer(u.font, q)) \in Seq(AnyQuads)
        BY <2>2
      <4>2. Atlas!Resolve(u, q) = [font |-> Answered(u.font, q),
                             quads |-> Append(u.quads, Answer(u.font, q))]
        BY <3>2, Zenon DEF Atlas!Resolve, Answer, Answered
      <4> QED
        BY <2>3, <4>1, <4>2
    <3> QED
      BY <3>1, <3>2
  <2>6. Atlas!Resolve(u, q) \in V
    BY <2>3, <2>4, <2>5
  <2> QED
    BY <2>6 DEF q
<1>3. G \in [Nat \X V -> V]
  <2> SUFFICES ASSUME NEW e \in Nat \X V
               PROVE  (IF e[1] \in 1..N THEN Turn(e[1], e[2]) ELSE e[2]) \in V
    OBVIOUS
  <2>1. e[2] \in V
    OBVIOUS
  <2> HIDE DEF Turn, N, V
  <2> QED
    BY <1>2, <2>1
<1>4. PICK f \in [0..N -> V] :
        f[0] = v0 /\ \A n \in 1..N : f[n] = G[<<n, f[n - 1]>>]
  <2> HIDE DEF N, G, V, v0
  <2>1. \E f : f \in Recursive(N, V, v0, G)
    BY <1>1, <1>3, Recursion
  <2> QED
    BY <2>1 DEF Recursive
<1>5. \A n \in 1..N : f[n] = Turn(n, f[n - 1])
  <2> HIDE DEF Turn, N, V
  <2> TAKE n \in 1..N
  <2>1. n - 1 \in 0..N /\ n \in Nat
    BY <1>1
  <2>2. <<n, f[n - 1]>> \in Nat \X V
    BY <1>4, <2>1
  <2>3. f[n] = G[<<n, f[n - 1]>>]
    BY <1>4
  <2> QED
    BY <2>2, <2>3
<1>6. f = R(f)
  <2> HIDE DEF Turn, N, G, V, v0
  <2> QED
    BY <1>1, <1>4, <1>5
<1>7. M = R(M)
  <2> HIDE DEF R
  <2> QED
    BY <1>6, Zenon
<1>8. M[0] = v0 /\ \A n \in 1..N : M[n] = Turn(n, M[n - 1])
  <2> HIDE DEF Turn, N, M, v0
  <2> QED
    BY <1>1, <1>7
<1> DEFINE S == {n \in 0..N : Sofar(quads, n, M[n])}
<1>9. 0..N \subseteq S
  <2>1. 0 \in S
    <3>1. Sofar(quads, 0, v0)
      <4>1. font \in Fonts /\ After(font, font)
        BY AfterSame DEF FontOK
      <4>2. v0 = [font |-> font, quads |-> <<>>] /\ <<>> \in Seq(AnyQuads) /\ Len(<<>>) = 0
        BY DEF v0
      <4> HIDE DEF v0
      <4>3. v0.font = font /\ v0.quads = <<>>
        BY <4>2
      <4>4. 1..0 = {}
        OBVIOUS
      <4> QED
        BY <4>1, <4>2, <4>3, <4>4 DEF Sofar
    <3> HIDE DEF M, N, v0
    <3> QED
      BY <1>1, <1>8, <3>1
  <2>2. ASSUME NEW n \in 1..N, n - 1 \in S PROVE n \in S
    <3>1. Sofar(quads, n - 1, M[n - 1])
      BY <2>2
    <3> HIDE DEF M
    <3>2. Sofar(quads, n, Atlas!Resolve(M[n - 1], quads[n]))
      BY <3>1, ResolveKeeps
    <3>3. M[n] = Atlas!Resolve(M[n - 1], quads[n])
      BY <1>8
    <3> QED
      BY <1>1, <3>2, <3>3
  <2>3. \A n \in 1..N : n - 1 \in S => n \in S
    BY <2>2
  <2> HIDE DEF S, N
  <2> QED
    BY <1>1, <2>1, <2>3, InductiveUpTo
<1>10. Sofar(quads, N, M[N])
  <2> HIDE DEF M, N
  <2> QED
    BY <1>1, <1>9
<1>11. Atlas!Resolved(quads) = M[N]
    BY Zenon DEF Atlas!Resolved
<1> HIDE DEF M
<1> QED
    BY <1>10, <1>11

-------------------------------------------------------------------------------
\* The versions.  Seven bits tell a count from the next 2 * Half - 1.

\* A version is a mark, and a stamped one.
LEMMA VersionMarks == ASSUME NEW n \in Nat
                      PROVE  Atlas!Version(n) \in Atlas!Marks /\ Atlas!Version(n).stamped
<1>1. Half \in Nat /\ Half > 0
    BY LoopsAssumption
<1>2. n % Half \in 0..(Half - 1)
    BY <1>1
<1>3. ((n \div Half) % 2 = 1) \in BOOLEAN
    OBVIOUS
<1> DEFINE r == (n \div Half) % 2 = 1
           l == n % Half
<1>4. Atlas!Version(n) = [stamped |-> TRUE, raw |-> r, low |-> l]
    BY DEF Atlas!Version
<1>5. l \in 0..(Half - 1) /\ r \in BOOLEAN
    BY <1>2, <1>3
<1> HIDE DEF r, l
<1>6. [stamped |-> TRUE, raw |-> r, low |-> l] \in Atlas!Marks
    BY <1>5, Zenon DEF Atlas!Marks
<1> QED
    BY <1>4, <1>6

LEMMA Division == ASSUME NEW k \in Nat, NEW h \in Nat, h > 0
                  PROVE  k = h * (k \div h) + (k % h)
OBVIOUS

\* Two counts less than 2 * Half apart have different versions.
LEMMA VersionsDiffer ==
    ASSUME NEW m \in Nat, NEW n \in Nat, m <= n, n - m < 2 * Half,
           Atlas!Version(m) = Atlas!Version(n)
    PROVE  m = n
<1>1. Half \in Nat /\ Half > 0
    BY LoopsAssumption
<1> DEFINE a == m \div Half
           b == n \div Half
           l == m % Half
<1>2. l = n % Half /\ (a % 2 = 1) = (b % 2 = 1)
  <2>1. Atlas!Version(m).low = Atlas!Version(n).low /\ Atlas!Version(m).raw = Atlas!Version(n).raw
    OBVIOUS
  <2> QED
    BY <2>1 DEF Atlas!Version
<1>3. a \in Nat /\ b \in Nat /\ l \in Nat
    BY <1>1
<1>4. m = Half * a + l /\ n = Half * b + l
  <2>1. m = Half * a + l
    BY <1>1, Division
  <2>2. n = Half * b + (n % Half)
    BY <1>1, Division
  <2> HIDE DEF a, b, l
  <2> QED
    BY <1>2, <2>1, <2>2
<1> HIDE DEF a, b, l
<1>5. b < a + 2
  <2>1. CASE b >= a + 2
    <3>1. PICK d \in Nat : b = a + 2 + d
      <4>1. b - a - 2 \in Nat /\ b = a + 2 + (b - a - 2)
        BY <1>3, <2>1
      <4> QED
        BY <4>1
    <3>2. Half * b = Half * a + 2 * Half + Half * d
      BY <1>1, <1>3, <3>1
    <3>3. Half * d >= 0 /\ Half * d \in Nat /\ Half * a \in Nat /\ Half * b \in Nat
      BY <1>1, <1>3
    <3> DEFINE x == Half * a
               y == Half * b
               z == Half * d
    <3>4. m = x + l /\ n = y + l /\ y = x + 2 * Half + z /\ z >= 0
      BY <1>4, <3>2, <3>3
    <3>5. x \in Nat /\ y \in Nat /\ z \in Nat
      BY <3>3
    <3> HIDE DEF x, y, z
    <3> QED
      BY <1>1, <1>3, <3>4, <3>5
  <2> QED
    BY <1>3, <2>1
<1>6. a <= b
  <2>1. CASE b < a
    <3>1. PICK d \in Nat : a = b + 1 + d
      <4>1. a - b - 1 \in Nat /\ a = b + 1 + (a - b - 1)
        BY <1>3, <2>1
      <4> QED
        BY <4>1
    <3>2. Half * a = Half * b + Half + Half * d
      BY <1>1, <1>3, <3>1
    <3>3. Half * d >= 0 /\ Half * d \in Nat /\ Half * a \in Nat /\ Half * b \in Nat
      BY <1>1, <1>3
    <3> QED
      BY <1>1, <1>3, <1>4, <3>2, <3>3
  <2> QED
    BY <1>3, <2>1
<1>7. a = b
  <2>1. b # a + 1
    BY <1>2, <1>3
  <2> QED
    BY <1>3, <1>5, <1>6, <2>1
<1> QED
    BY <1>4, <1>7

-------------------------------------------------------------------------------
\* The strings.

AnyLines == [text : Texts, quads : Seq(AnyQuads), mark : Atlas!Marks]

\* Raw quads are left only for what cannot be loaded.
Settles(quads) == \A i \in 1..Len(quads) : quads[i].at = Atlas!RawRect => quads[i].cp \in Unloadable
AllFine(f, quads) == \A i \in 1..Len(quads) : Fine(f, quads[i])
AllRaw(quads) == \A i \in 1..Len(quads) : quads[i].at = Atlas!RawRect

\* The places of a string's quads are of the count it has noted: its version is
\* that count's, and it shows its glyphs if no page was evicted in that frame or
\* since.
Dated(s) ==
    /\ strings[s].mark = Atlas!Version(since[s])
    /\ since[s] = font.evictions => AllFine(font, strings[s].quads)

\* A string without geometry, or with nothing but what cannot be loaded, may have
\* any mark; another has a version.
Rests(s) ==
    \/ AllRaw(strings[s].quads)
    \/ /\ Settles(strings[s].quads) /\ strings[s].mark.stamped
       /\ s \notin tainted => Dated(s)

\* A string of the batch is raw as a whole, or has the version of the count when
\* the frame began.
Waits(s) ==
    \/ AllRaw(strings[s].quads)
    \/ /\ Settles(strings[s].quads) /\ strings[s].mark = Atlas!Version(began)
       /\ s \notin tainted => Dated(s)

AtlasInv ==
    /\ FontOK(font) /\ font.evictions <= MaxEvictions
    /\ began \in Nat /\ began <= font.evictions
    /\ todo \subseteq Lines
    /\ strings \in [Lines -> AnyLines]
    /\ since \in [Lines -> Nat] /\ \A s \in Lines : since[s] <= font.evictions
    /\ \A s \in Lines \ todo : Rests(s)
    /\ \A s \in todo : Waits(s)

\* The same for all quads of a string.
LEMMA AllFineStays ==
    ASSUME NEW f, NEW g, Stays(f, g), NEW quads, AllFine(f, quads)
    PROVE  AllFine(g, quads)
    BY FineStays DEF AllFine

\* A font that follows leaves a string dated as it is.
LEMMA DatedStill ==
    ASSUME FontOK(font), After(font, font'), NEW s, strings'[s] = strings[s], Dated(s),
           since'[s] = since[s], since[s] <= font.evictions, since[s] \in Nat
    PROVE  Dated(s)'
<1>1. font.evictions \in Nat /\ font'.evictions \in Nat /\ font'.evictions >= font.evictions
    BY FontIs DEF FontOK, After
<1>2. ASSUME since[s] = font'.evictions PROVE AllFine(font', strings[s].quads)
  <2>1. since[s] = font.evictions /\ font'.evictions = font.evictions
    BY <1>1, <1>2
  <2> QED
    BY <2>1, AllFineStays DEF After, Dated
<1>3. strings'[s].mark = Atlas!Version(since'[s])
    BY DEF Dated
<1>4. Atlas!Version(since[s])' = Atlas!Version(since'[s])
    BY DEF Atlas!Version
<1> QED
    BY <1>2, <1>3, <1>4 DEF Dated

\* What does not touch a string leaves it as it is, resting or waiting.
LEMMA RestsStill ==
    ASSUME FontOK(font), After(font, font'), NEW s, strings'[s] = strings[s], Rests(s),
           since'[s] = since[s], since[s] <= font.evictions, since[s] \in Nat,
           s \in tainted => s \in tainted'
    PROVE  Rests(s)'
    BY DatedStill DEF Rests, AllRaw, Settles

\* A string still to be processed waits on while others are.
LEMMA WaitsStill ==
    ASSUME FontOK(font), After(font, font'), NEW s, strings'[s] = strings[s], Waits(s),
           since'[s] = since[s], since[s] <= font.evictions, since[s] \in Nat,
           began' = began, s \in tainted => s \in tainted'
    PROVE  Waits(s)'
<1>1. Atlas!Version(began)' = Atlas!Version(began)
    BY DEF Atlas!Version
<1> QED
    BY <1>1, DatedStill DEF Waits, AllRaw, Settles

\* At first there is nothing: no page, no glyph, no geometry.
LEMMA AtlasInit == Atlas!Init => AtlasInv
<1> SUFFICES ASSUME Atlas!Init PROVE AtlasInv
    OBVIOUS
<1>1. font = [pool |-> <<>>, pages |-> <<>>, oldest |-> 1, evictions |-> 0]
    BY DEF Atlas!Init, Atlas!NewFont
<1>2. FontOK(font)
  <2>1. <<>> \in [{} -> Ats] /\ DOMAIN <<>> = {} /\ {} \in SUBSET Codepoints
    OBVIOUS
  <2>2. <<>> \in Pools
    BY <2>1, PoolIs
  <2>3. /\ font.pool = <<>> /\ font.pages = <<>> /\ font.oldest = 1 /\ font.evictions = 0
        /\ 1 \in 1..MAX_ATLAS_PAGES
    BY <1>1, LoopsAssumption
  <2>4. font \in Fonts
    BY <1>1, <2>2, <2>3 DEF Fonts
  <2> QED
    BY <2>1, <2>3, <2>4, LoopsAssumption DEF FontOK
<1>3. strings \in [Lines -> AnyLines] /\ \A s \in Lines : strings[s].quads = <<>>
  <2>1. Atlas!NoMark \in Atlas!Marks
    BY LoopsAssumption DEF Atlas!NoMark, Atlas!Marks
  <2>2. \A t \in Texts : [text |-> t, quads |-> <<>>, mark |-> Atlas!NoMark] \in AnyLines
    BY <2>1 DEF AnyLines
  <2> QED
    BY <2>2 DEF Atlas!Init
<1>4. /\ font.evictions = 0 /\ began = 0 /\ todo = {} /\ 0 <= MaxEvictions
      /\ since = [s \in Lines |-> 0]
    BY <1>1, LoopsAssumption DEF Atlas!Init
<1>5. \A s \in Lines : AllRaw(strings[s].quads)
  <2>1. 1..Len(<<>>) = {}
    OBVIOUS
  <2> QED
    BY <1>3, <2>1 DEF AllRaw
<1> QED
    BY <1>2, <1>3, <1>4, <1>5 DEF AtlasInv, Rests

\* A string of the batch.
LEMMA BuiltIs ==
    ASSUME NEW st \in AnyLines
    PROVE  /\ Atlas!Built(st) \in AnyLines
           /\ \/ AllRaw(Atlas!Built(st).quads)
              \/ /\ Atlas!Built(st) = st /\ st.quads # <<>>
                 /\ st.mark.stamped => st.mark = Atlas!Version(font.evictions)
<1>1. /\ st.text \in Texts /\ st.quads \in Seq(AnyQuads) /\ st.mark \in Atlas!Marks
      /\ st = [text |-> st.text, quads |-> st.quads, mark |-> st.mark]
    BY DEF AnyLines
<1>2. /\ Atlas!Checked(st) \in AnyLines
      /\ \/ Atlas!Checked(st) = st /\ (st.mark.stamped => st.mark = Atlas!Version(font.evictions))
         \/ Atlas!Checked(st).quads = <<>>
  <2>1. CASE st.mark.stamped /\ st.mark # Atlas!Version(font.evictions)
    <3> DEFINE c == [st EXCEPT !.quads = <<>>, !.mark = Atlas!NoMark]
    <3>1. Atlas!Checked(st) = c
      BY <2>1 DEF Atlas!Checked
    <3>2. Atlas!NoMark \in Atlas!Marks /\ <<>> \in Seq(AnyQuads)
      BY LoopsAssumption DEF Atlas!NoMark, Atlas!Marks
    <3>3. c \in AnyLines /\ c.quads = <<>>
      BY <1>1, <3>2 DEF AnyLines
    <3> QED
      BY <3>1, <3>3
  <2>2. CASE ~(st.mark.stamped /\ st.mark # Atlas!Version(font.evictions))
    <3>1. Atlas!Checked(st) = st
      BY <2>2 DEF Atlas!Checked
    <3> QED
      BY <2>2, <3>1
  <2> QED
    BY <2>1, <2>2
<1>3. CASE ~Atlas!IsBuilt(st)
    BY <1>2, <1>3 DEF Atlas!Built, Atlas!IsBuilt
<1>4. CASE Atlas!IsBuilt(st)
  <2> DEFINE c == Atlas!Checked(st).mark
             m == [c EXCEPT !.raw = TRUE]
             qs == [i \in DOMAIN st.text |-> [cp |-> st.text[i], at |-> Atlas!RawRect]]
  <2>1. Atlas!Built(st) = [text |-> st.text, quads |-> qs, mark |-> m]
    BY <1>4 DEF Atlas!Built
  <2>2. st.text \in Seq(Codepoints)
    BY <1>1, LoopsAssumption
  <2>3. qs \in Seq(AnyQuads) /\ AllRaw(qs)
    <3>1. \A i \in 1..Len(st.text) : st.text[i] \in Codepoints
      BY <2>2
    <3>2. \A i \in 1..Len(st.text) : [cp |-> st.text[i], at |-> Atlas!RawRect] \in AnyQuads
      BY <3>1, NoRectIs DEF AnyQuads
    <3>3. DOMAIN st.text = 1..Len(st.text) /\ Len(st.text) \in Nat
      BY <2>2
    <3>4. qs \in Seq(AnyQuads) /\ Len(qs) = Len(st.text)
      BY <3>2, <3>3
    <3>5. \A i \in 1..Len(qs) : qs[i].at = Atlas!RawRect
      BY <3>3, <3>4
    <3> QED
      BY <3>4, <3>5 DEF AllRaw
  <2>4. m \in Atlas!Marks /\ m.raw
    <3>1. c \in Atlas!Marks
      BY <1>2 DEF AnyLines
    <3> HIDE DEF c
    <3> QED
      BY <3>1 DEF Atlas!Marks
  <2> HIDE DEF m, qs, c
  <2>5. Atlas!Built(st) \in AnyLines /\ Atlas!Built(st).quads = qs /\ Atlas!Built(st).mark = m
    BY <1>1, <2>1, <2>3, <2>4 DEF AnyLines
  <2> QED
    BY <2>3, <2>4, <2>5
<1> QED
    BY <1>3, <1>4

\* A frame begins: the batch is checked, built anew and marked (MSDF.cpp:150-162),
\* and its bytes prefetched; what is not in the batch rests.
LEMMA BeginKeeps ==
    ASSUME AtlasInv, NEW batch \in SUBSET Lines, Atlas!BeginFrame(batch)
    PROVE  AtlasInv'
<1>0. /\ FontOK(font) /\ strings \in [Lines -> AnyLines] /\ font.evictions \in Nat
      /\ todo = {} /\ \A s \in Lines : Rests(s)
      /\ since \in [Lines -> Nat] /\ \A s \in Lines : since[s] <= font.evictions
    BY FontIs DEF AtlasInv, FontOK, Atlas!BeginFrame
<1>1. /\ todo' = batch /\ began' = font.evictions /\ tainted' = tainted /\ since' = since
      /\ strings' = [s \in Lines |-> IF s \in batch THEN Atlas!Built(strings[s]) ELSE strings[s]]
      /\ font'.evictions <= MaxEvictions
    BY DEF Atlas!BeginFrame
<1>2. After(font, font')
  <2> DEFINE cps == UNION {Atlas!Noted(strings[s]) : s \in batch}
  <2>1. \A s \in batch : Atlas!Noted(strings[s]) \subseteq Codepoints
    <3> TAKE s \in batch
    <3>1. strings[s].text \in Seq(Codepoints)
      BY <1>0, LoopsAssumption DEF AnyLines
    <3>2. \A i \in DOMAIN strings[s].text : Bytes[strings[s].text[i]] \subseteq Codepoints
      BY <3>1, LoopsAssumption
    <3> QED
      BY <3>2 DEF Atlas!Noted
  <2>2. cps \in SUBSET Codepoints
    BY <2>1
  <2>3. font' = Atlas!Prefetched(cps)
    BY DEF Atlas!BeginFrame
  <2> HIDE DEF cps
  <2> QED
    BY <1>0, <2>2, <2>3, PrefetchKeeps
<1>3. FontOK(font') /\ font'.evictions \in Nat /\ font'.evictions >= font.evictions
    BY <1>2, FontIs DEF After, FontOK
<1>4. /\ \A s \in batch : strings'[s] = Atlas!Built(strings[s])
      /\ \A s \in Lines \ batch : strings'[s] = strings[s]
      /\ strings' \in [Lines -> AnyLines]
  <2>1. \A s \in Lines : strings[s] \in AnyLines /\ Atlas!Built(strings[s]) \in AnyLines
    BY <1>0, BuiltIs
  <2> QED
    BY <1>1, <2>1
<1>5. ASSUME NEW s \in Lines \ batch PROVE Rests(s)'
    BY <1>0, <1>1, <1>2, <1>4, RestsStill
<1>6. ASSUME NEW s \in batch PROVE Waits(s)'
  <2> DEFINE st == strings[s]
             b == Atlas!Built(st)
  <2>1. st \in AnyLines /\ strings'[s] = b
    BY <1>0, <1>4
  <2>2. \/ AllRaw(b.quads)
        \/ b = st /\ st.quads # <<>> /\ (st.mark.stamped => st.mark = Atlas!Version(font.evictions))
    BY <2>1, BuiltIs
  <2> HIDE DEF b
  <2>3. CASE AllRaw(b.quads)
    BY <2>1, <2>3 DEF Waits, AllRaw
  <2>4. CASE /\ ~AllRaw(b.quads) /\ b = st
             /\ st.mark.stamped => st.mark = Atlas!Version(font.evictions)
    <3>1. Settles(st.quads) /\ st.mark.stamped /\ (s \notin tainted => Dated(s))
      BY <1>0, <2>4 DEF Rests
    <3>2. strings'[s] = st /\ st.mark = Atlas!Version(font.evictions)
      BY <2>1, <2>4, <3>1
    <3>3. s \notin tainted => Dated(s)'
      BY <1>0, <1>1, <1>2, <3>1, <3>2, DatedStill
    <3>4. Atlas!Version(began)' = Atlas!Version(font.evictions)
      BY <1>1 DEF Atlas!Version
    <3> HIDE DEF st
    <3> QED
      BY <1>1, <3>1, <3>2, <3>3, <3>4 DEF Waits, Settles
  <2> QED
    BY <2>2, <2>3, <2>4
<1>7. since' \in [Lines -> Nat] /\ \A s \in Lines : since'[s] <= font'.evictions
    BY <1>0, <1>1, <1>3
<1> QED
    BY <1>0, <1>1, <1>3, <1>4, <1>5, <1>6, <1>7 DEF AtlasInv

\* A string is processed: its raw quads get their places, and it the count.
LEMMA ProcessKeeps ==
    ASSUME AtlasInv, NEW s \in Lines, Atlas!ProcessGeometry(s)
    PROVE  AtlasInv'
<1>0. /\ FontOK(font) /\ strings \in [Lines -> AnyLines] /\ font.evictions \in Nat
      /\ \A u \in Lines \ todo : Rests(u)
      /\ \A u \in todo : Waits(u)
      /\ began \in Nat /\ began <= font.evictions /\ todo \subseteq Lines
      /\ since \in [Lines -> Nat] /\ \A u \in Lines : since[u] <= font.evictions
    BY FontIs DEF AtlasInv, FontOK
<1>1. /\ s \in todo /\ todo' = todo \ {s} /\ began' = began /\ font'.evictions <= MaxEvictions
    BY DEF Atlas!ProcessGeometry
<1>2. strings[s].quads \in Seq(AnyQuads) /\ strings[s] \in AnyLines /\ Waits(s)
    BY <1>0, <1>1 DEF AnyLines
<1>3. ASSUME After(font, font'), strings' \in [Lines -> AnyLines], Rests(s)',
             since' \in [Lines -> Nat], since'[s] <= font'.evictions,
             \A u \in Lines \ {s} : strings'[u] = strings[u],
             \A u \in Lines \ {s} : since'[u] = since[u],
             \A u \in Lines \ {s} : u \in tainted => u \in tainted'
      PROVE  AtlasInv'
  <2>1. FontOK(font') /\ font'.evictions \in Nat /\ font'.evictions >= font.evictions
    BY <1>3, FontIs DEF After, FontOK
  <2>2. ASSUME NEW u \in Lines \ todo' PROVE Rests(u)'
    <3>1. CASE u = s
      BY <1>3, <3>1
    <3>2. CASE u # s
      <4>1. u \in Lines \ {s} /\ u \in Lines \ todo
        BY <1>1, <2>2, <3>2
      <4>2. strings'[u] = strings[u] /\ (u \in tainted => u \in tainted')
        BY <1>3, <4>1, Zenon
      <4>3. Rests(u)
        BY <1>0, <4>1, Zenon
      <4>4. since'[u] = since[u]
        BY <1>3, <4>1, Zenon
      <4>5. since[u] <= font.evictions /\ since[u] \in Nat
        BY <1>0, <4>1
      <4> QED
        BY <1>0, <1>3, <4>1, <4>2, <4>3, <4>4, <4>5, RestsStill
    <3> QED
      BY <3>1, <3>2
  <2>3. ASSUME NEW u \in todo' PROVE Waits(u)'
    <3>1. u \in Lines \ {s} /\ u \in todo
      BY <1>0, <1>1, <2>3
    <3>2. strings'[u] = strings[u] /\ (u \in tainted => u \in tainted')
      BY <1>3, <3>1, Zenon
    <3>3. Waits(u)
      BY <1>0, <3>1, Zenon
    <3>4. since'[u] = since[u]
      BY <1>3, <3>1, Zenon
    <3>5. since[u] <= font.evictions /\ since[u] \in Nat
      BY <1>0, <3>1
    <3> QED
      BY <1>0, <1>1, <1>3, <3>1, <3>2, <3>3, <3>4, <3>5, WaitsStill
  <2>4. ASSUME NEW u \in Lines PROVE since'[u] <= font'.evictions
    <3>1. CASE u = s
      BY <1>3, <3>1
    <3>2. CASE u # s
      <4>1. since[u] <= font.evictions /\ since[u] \in Nat
        BY <1>0
      <4>2. since'[u] = since[u]
        BY <1>3, <3>2, Zenon
      <4> QED
        BY <1>0, <2>1, <4>1, <4>2
    <3> QED
      BY <3>1, <3>2
  <2> QED
    BY <1>0, <1>1, <1>3, <2>1, <2>2, <2>3, <2>4 DEF AtlasInv
<1>4. CASE ~strings[s].mark.raw
  <2>1. font' = font /\ strings' = strings /\ tainted' = tainted /\ since' = since
    BY <1>4 DEF Atlas!ProcessGeometry
  <2>2. Rests(s)
    <3>1. Atlas!Version(began).stamped
      BY <1>0, VersionMarks
    <3> QED
      BY <1>2, <3>1 DEF Waits, Rests
  <2>3. After(font, font')
    BY <1>0, <2>1, AfterSame
  <2>4. since[s] <= font.evictions /\ since[s] \in Nat
    BY <1>0
  <2>5. Rests(s)'
    BY <1>0, <2>1, <2>2, <2>3, <2>4, RestsStill
  <2> QED
    BY <1>0, <1>3, <2>1, <2>3, <2>4, <2>5
<1>5. CASE strings[s].mark.raw
  <2> DEFINE qs == strings[s].quads
             r == Atlas!Resolved(qs)
             m == Atlas!Version(r.font.evictions)
  <2>1. /\ font' = r.font
        /\ strings' = [strings EXCEPT ![s].quads = r.quads, ![s].mark = m]
        /\ tainted' = IF r.font.evictions # began THEN tainted \cup {s}
                      ELSE IF r.quads # qs THEN tainted \ {s} ELSE tainted
        /\ since' = IF r.quads # qs THEN [since EXCEPT ![s] = r.font.evictions] ELSE since
    BY <1>5, Zenon DEF Atlas!ProcessGeometry
  <2>2. Sofar(qs, Len(qs), r)
    BY <1>0, <1>2, ResolvedIs
  <2> HIDE DEF r, m
  <2>3. /\ After(font, r.font) /\ r.quads \in Seq(AnyQuads) /\ Len(r.quads) = Len(qs)
        /\ r.font.evictions \in Nat /\ r.font.evictions >= font.evictions
        /\ FontOK(r.font)
    BY <2>2, FontIs DEF Sofar, After
  <2>5. m \in Atlas!Marks /\ m.stamped
    BY <2>3, VersionMarks DEF m
  <2>6. /\ strings'[s].quads = r.quads /\ strings'[s].mark = m
        /\ strings' \in [Lines -> AnyLines]
        /\ \A u \in Lines \ {s} : strings'[u] = strings[u]
    <3> DEFINE st == [strings[s] EXCEPT !.quads = r.quads, !.mark = m]
    <3>1. strings' = [strings EXCEPT ![s] = st]
      BY <2>1
    <3>2. st \in AnyLines /\ st.quads = r.quads /\ st.mark = m
      BY <1>2, <2>3, <2>5 DEF AnyLines
    <3> HIDE DEF st
    <3> QED
      BY <1>0, <3>1, <3>2
  <2>7. \A u \in Lines \ {s} : u \in tainted => u \in tainted'
    BY <2>1
  <2>8. Settles(r.quads)
    BY <2>2, <2>3 DEF Sofar, Settles
  <2>9. /\ since' \in [Lines -> Nat] /\ since'[s] <= font'.evictions
        /\ \A u \in Lines \ {s} : since'[u] = since[u]
        /\ since'[s] = IF r.quads # qs THEN font'.evictions ELSE since[s]
    <3>1. since[s] <= font.evictions /\ since[s] \in Nat /\ font.evictions \in Nat
      BY <1>0
    <3> QED
      BY <1>0, <2>1, <2>3, <3>1
  <2>10. ASSUME s \notin tainted', ~AllRaw(r.quads) PROVE Dated(s)'
    <3>1. r.font.evictions = began /\ (r.quads = qs => s \notin tainted)
      BY <2>1, <2>10
    <3>2. font.evictions = began /\ r.font.evictions = font.evictions
      BY <1>0, <2>3, <3>1
    <3>3. CASE AllRaw(qs)
      <4>1. r.quads # qs
        BY <2>10, <3>3
      <4>2. AllFine(font, qs)
        BY <3>3 DEF AllRaw, AllFine, Fine
      <4>3. \A i \in 1..Len(qs) : Fine(r.font, r.quads[i])
        BY <2>2, <3>2, <4>2 DEF Sofar, AllFine
      <4>4. AllFine(r.font, r.quads)
        BY <2>3, <4>3 DEF AllFine
      <4>5. since'[s] = font'.evictions
        BY <2>9, <4>1
      <4>6. strings'[s].mark = Atlas!Version(font'.evictions)
        BY <2>1, <2>6 DEF m
      <4> QED
        BY <2>1, <2>6, <4>4, <4>5, <4>6 DEF Dated, Atlas!Version
    <3>4. CASE /\ Settles(qs) /\ strings[s].mark = Atlas!Version(began)
               /\ s \notin tainted => Dated(s)
      <4>1. r.quads = qs
        <5>1. \A i \in 1..Len(qs) : r.quads[i] = qs[i]
          BY <2>2, <3>4 DEF Sofar, Settles
        <5> QED
          BY <1>2, <2>3, <5>1, SeqEqual
      <4>2. Dated(s) /\ since'[s] = since[s]
        BY <2>9, <3>1, <3>4, <4>1
      <4>3. m = strings[s].mark
        BY <3>1, <3>4 DEF m
      <4>4. strings'[s].quads = strings[s].quads /\ strings'[s].mark = strings[s].mark
        BY <2>6, <4>1, <4>3
      <4>5. Stays(font, font')
        BY <2>1, <2>3, <3>2 DEF After
      <4>6. ASSUME since[s] = font'.evictions PROVE AllFine(font', strings[s].quads)
        <5>1. AllFine(font, strings[s].quads)
          BY <2>1, <3>2, <4>2, <4>6 DEF Dated
        <5> QED
          BY <4>5, <5>1, AllFineStays
      <4> QED
        BY <4>2, <4>4, <4>6 DEF Dated, Atlas!Version
    <3> QED
      BY <1>2, <3>3, <3>4 DEF Waits
  <2>11. Rests(s)'
    <3>1. strings'[s].mark.stamped /\ Settles(strings'[s].quads)
      BY <2>5, <2>6, <2>8
    <3>2. AllRaw(r.quads) \/ (s \notin tainted' => Dated(s)')
      BY <2>10
    <3> QED
      BY <2>6, <3>1, <3>2 DEF Rests, AllRaw, Settles
  <2> QED
    BY <1>3, <2>1, <2>3, <2>6, <2>7, <2>9, <2>11
<1> QED
    BY <1>4, <1>5

\* A new text drops the geometry; a string without any is in order.
LEMMA SetTextKeeps ==
    ASSUME AtlasInv, NEW s \in Lines, NEW t \in Texts, Atlas!SetText(s, t)
    PROVE  AtlasInv'
<1>0. /\ FontOK(font) /\ strings \in [Lines -> AnyLines]
      /\ todo = {} /\ \A u \in Lines : Rests(u)
      /\ since \in [Lines -> Nat] /\ \A u \in Lines : since[u] <= font.evictions
    BY DEF AtlasInv, Atlas!SetText
<1>1. /\ font' = font /\ todo' = todo /\ began' = began /\ tainted' = tainted /\ since' = since
      /\ strings' = [strings EXCEPT ![s].text = t, ![s].quads = <<>>]
    BY DEF Atlas!SetText
<1>2. /\ strings'[s].quads = <<>> /\ strings' \in [Lines -> AnyLines]
      /\ \A u \in Lines \ {s} : strings'[u] = strings[u]
  <2> DEFINE st == [strings[s] EXCEPT !.text = t, !.quads = <<>>]
  <2>1. strings' = [strings EXCEPT ![s] = st]
    BY <1>1
  <2>2. st \in AnyLines /\ st.quads = <<>>
    <3>1. strings[s] \in AnyLines /\ <<>> \in Seq(AnyQuads)
      BY <1>0
    <3> QED
      BY <3>1 DEF AnyLines
  <2> HIDE DEF st
  <2> QED
    BY <1>0, <2>1, <2>2
<1>3. \A u \in Lines : Rests(u)'
  <2> TAKE u \in Lines
  <2>1. CASE u = s
    <3>1. 1..Len(<<>>) = {}
      OBVIOUS
    <3> QED
      BY <1>2, <2>1, <3>1 DEF Rests, AllRaw
  <2>2. CASE u # s
    <3>1. Rests(u) /\ since[u] \in Nat /\ since[u] <= font.evictions
      BY <1>0
    <3> QED
      BY <1>0, <1>1, <1>2, <2>2, <3>1, AfterSame, RestsStill
  <2> QED
    BY <2>1, <2>2
<1> QED
    BY <1>0, <1>1, <1>2, <1>3 DEF AtlasInv

\* Without the device nothing is left on any page, and the count says so.
LEMMA DestroyKeeps ==
    ASSUME AtlasInv, Atlas!DestroyDevice
    PROVE  AtlasInv'
<1>0. /\ FontOK(font) /\ strings \in [Lines -> AnyLines] /\ font.evictions \in Nat
      /\ todo = {} /\ font.evictions < MaxEvictions
      /\ \A u \in Lines : Rests(u)
      /\ began \in Nat /\ began <= font.evictions
      /\ since \in [Lines -> Nat] /\ \A u \in Lines : since[u] <= font.evictions
    BY FontIs DEF AtlasInv, Atlas!DestroyDevice, FontOK
<1>1. /\ font' = [pool |-> <<>>, pages |-> <<>>, oldest |-> 1, evictions |-> font.evictions + 1]
      /\ strings' = strings /\ todo' = todo /\ began' = began /\ tainted' = tainted
      /\ since' = since
    BY DEF Atlas!DestroyDevice, Atlas!ClearAllCache
<1>2. FontOK(font')
  <2>1. <<>> \in [{} -> Ats] /\ DOMAIN <<>> = {} /\ {} \in SUBSET Codepoints
    OBVIOUS
  <2>2. <<>> \in Pools
    BY <2>1, PoolIs
  <2>3. /\ font'.pool = <<>> /\ font'.pages = <<>> /\ font'.oldest = 1
        /\ font'.evictions = font.evictions + 1 /\ 1 \in 1..MAX_ATLAS_PAGES
    BY <1>1, LoopsAssumption
  <2>4. font' \in Fonts
    BY <1>0, <1>1, <2>2, <2>3 DEF Fonts
  <2> QED
    BY <2>1, <2>3, <2>4, LoopsAssumption DEF FontOK
<1>3. font'.evictions = font.evictions + 1
    BY <1>1
<1>4. After(font, font')
    BY <1>0, <1>2, <1>3 DEF After
<1>5. \A u \in Lines : Rests(u)'
    BY <1>0, <1>1, <1>4, RestsStill
<1>7. \A u \in Lines : since'[u] <= font'.evictions
    BY <1>0, <1>1, <1>3
<1>6. font'.evictions <= MaxEvictions /\ began <= font'.evictions
  <2>1. MaxEvictions \in Nat
    BY LoopsAssumption
  <2>2. /\ font.evictions \in Nat /\ began \in Nat
        /\ began <= font.evictions /\ font.evictions < MaxEvictions
    BY <1>0
  <2> QED
    BY <1>3, <2>1, <2>2, SMT
<1> QED
    BY <1>0, <1>1, <1>2, <1>5, <1>6, <1>7 DEF AtlasInv

\* Every step of the atlas.
LEMMA AtlasKeeps == AtlasInv /\ [Atlas!Next]_atlasVars => AtlasInv'
<1> SUFFICES ASSUME AtlasInv, [Atlas!Next]_atlasVars PROVE AtlasInv'
    OBVIOUS
<1>1. ASSUME UNCHANGED <<font, strings, todo, began, tainted, since>> PROVE AtlasInv'
  <2>1. FontOK(font)
    BY DEF AtlasInv
  <2>2. ASSUME NEW u \in Lines \ todo PROVE Rests(u)'
    BY <1>1, <2>1, AfterSame, RestsStill DEF AtlasInv
  <2>3. ASSUME NEW u \in todo PROVE Waits(u)'
    BY <1>1, <2>1, AfterSame, WaitsStill DEF AtlasInv
  <2> QED
    BY <1>1, <2>2, <2>3 DEF AtlasInv
<1>2. ASSUME NEW d \in {"up", "lost", "stuck"}, Atlas!DeviceChanges(d) PROVE AtlasInv'
    BY <1>1, <1>2 DEF Atlas!DeviceChanges
<1>3. CASE UNCHANGED atlasVars
    BY <1>1, <1>3 DEF atlasVars
<1> QED
    BY <1>2, <1>3, BeginKeeps, ProcessKeeps, SetTextKeeps, DestroyKeeps DEF Atlas!Next

\* Geometry that counts as current, and has its places from a count near enough,
\* has the count of now: the strings that rest are right about the font as it is.
LEMMA AtlasHolds == AtlasInv => Atlas!CurrentIsRight
<1> SUFFICES ASSUME AtlasInv, todo = {}, NEW s \in Lines \ tainted,
                    Atlas!Current(s), Atlas!Recent(s),
                    NEW q \in Atlas!Range(strings[s].quads), q.at \notin {Atlas!NoRect, Atlas!RawRect}
             PROVE  /\ Atlas!Shows(q.at, q.cp)
                    /\ ~Atlas!Soiled(q.at) => Atlas!Clear(q.at, q.cp)
    BY DEF Atlas!CurrentIsRight, Atlas!Wrong
<1>1. /\ FontOK(font) /\ strings[s].quads \in Seq(AnyQuads) /\ Rests(s)
      /\ font.evictions \in Nat /\ since[s] \in Nat /\ since[s] <= font.evictions
    BY FontIs DEF AtlasInv, AnyLines, FontOK
<1>2. PICK i \in 1..Len(strings[s].quads) : q = strings[s].quads[i]
    BY <1>1 DEF Atlas!Range
<1>3. AllFine(font, strings[s].quads)
  <2>1. ~AllRaw(strings[s].quads)
    BY <1>2 DEF AllRaw
  <2>2. Dated(s)
    BY <1>1, <2>1 DEF Rests
  <2>3. Atlas!Version(since[s]) = Atlas!Version(font.evictions)
    BY <2>2 DEF Dated, Atlas!Current
  <2>4. font.evictions - since[s] < 2 * Half
    BY DEF Atlas!Recent
  <2>5. since[s] = font.evictions
    BY <1>1, <2>3, <2>4, VersionsDiffer
  <2> QED
    BY <2>2, <2>5 DEF Dated
<1>4. Lies(font, q.at, q.cp)
    BY <1>2, <1>3 DEF AllFine, Fine
<1> DEFINE p == font.pages[q.at.page]
           g == [cp |-> q.cp, x |-> q.at.x, y |-> q.at.y]
<1>5. /\ q.at.page \in 1..Len(font.pages) /\ g \in p.placed /\ Packed(p)
      /\ DOMAIN font.pages = 1..Len(font.pages)
    BY <1>1, <1>4, FontIs DEF Lies, FontOK
<1>6. ~Atlas!Soiled(q.at) => Atlas!Clear(q.at, q.cp)
    BY DEF Atlas!Soiled, Atlas!Clear
<1> HIDE DEF p
<1>7. /\ RightOf(g) <= ATLAS_SIZE /\ Below(g) <= ATLAS_SIZE
      /\ \A h \in p.placed \ {g} : Apart(g, h)
    BY <1>5 DEF Packed
<1> HIDE DEF g
<1>8. Atlas!Shows(q.at, q.cp)
    BY <1>5, <1>7, Zenon DEF Atlas!Shows, Atlas!At, Atlas!Right, Atlas!Bottom, Atlas!Apart,
        p, g, RightOf, Below, Apart
<1> QED
    BY <1>6, <1>8

\* However strings, frames, new rows, evictions, failed locks and devices
\* follow one another, geometry that counts as current shows its own glyphs
\* or nothing, if the frame that gave it its places evicted no page, that was
\* fewer than 2 * Half evictions ago, but for old pixels around it on a page that
\* was not cleared: for any texts, sizes of glyphs and pages, and any evictions
\* (MSDF.cpp:67-162, MSDFFont.cpp:44-208).
THEOREM CurrentShowsItsOwn == Spec => []CurrentIsRight
<1>1. Init => AtlasInv
    BY AtlasInit DEF Init
<1>2. AtlasInv /\ [Next]_vars => AtlasInv'
    BY AtlasOnly, AtlasKeeps
<1>3. AtlasInv => CurrentIsRight
    BY AtlasHolds DEF CurrentIsRight
<1> QED
    BY <1>1, <1>2, <1>3, PTL DEF Spec

-------------------------------------------------------------------------------
\* The words of a launch: options, and values.
Options == [key : STRING, value : STRING]
AnyWord == [flag : BOOLEAN, text : STRING]
Split == [i \in DOMAIN launch |-> Login!Words(launch[i])]

\* One word or two.
LEMMA WordsAre ==
    ASSUME NEW o \in Options
    PROVE  /\ Login!Words(o) \in Seq(AnyWord) /\ Login!Words(o)[1] = Login!Word(TRUE, o.key)
           /\ o.value = Nothing => Len(Login!Words(o)) = 1
           /\ o.value # Nothing => Len(Login!Words(o)) = 2 /\ Login!Words(o)[2] = Login!Word(FALSE, o.value)
<1> DEFINE k == Login!Word(TRUE, o.key)
           v == Login!Word(FALSE, o.value)
<1>1. k \in AnyWord /\ v \in AnyWord
    BY DEF Options, Login!Word, AnyWord
<1>2. Login!Words(o) = IF o.value = Nothing THEN <<k>> ELSE <<k, v>>
    BY DEF Login!Words
<1> HIDE DEF k, v
<1>3. /\ <<k>> \in Seq(AnyWord) /\ Len(<<k>>) = 1 /\ <<k>>[1] = k
      /\ <<k, v>> \in Seq(AnyWord) /\ Len(<<k, v>>) = 2 /\ <<k, v>>[1] = k /\ <<k, v>>[2] = v
    BY <1>1
<1> QED
    BY <1>2, <1>3 DEF k, v

\* Where the words of an option begin, given the words before it.
Begins(h, i) == Len(h[i - 1]) + 1

\* Each option is at its place with its value behind it, and no other word is
\* an option; a bare last option is the last word.
Spelled(h, n) ==
    /\ \A i \in 1..n :
          /\ Begins(h, i) \in 1..Len(h[n])
          /\ h[n][Begins(h, i)] = Login!Word(TRUE, launch[i].key)
          /\ launch[i].value # Nothing =>
                /\ Begins(h, i) < Len(h[n])
                /\ h[n][Begins(h, i) + 1] = Login!Word(FALSE, launch[i].value)
          /\ launch[i].value = Nothing /\ i = n => Begins(h, i) = Len(h[n])
    /\ \A i, j \in 1..n : i < j => Begins(h, i) < Begins(h, j)
    /\ \A p \in 1..Len(h[n]) : h[n][p].flag => \E i \in 1..n : p = Begins(h, i)

\* The next option is at the end of the words so far.
LEMMA SpellsOn ==
    ASSUME launch \in Seq(Options), NEW h, Joins(h, Split, AnyWord),
           NEW n \in 1..Len(launch), Spelled(h, n - 1)
    PROVE  Spelled(h, n)
<1> DEFINE a == h[n - 1]
           b == h[n]
           w == Login!Words(launch[n])
           q == Begins(h, n)
<1>1. Len(Split) = Len(launch) /\ Split[n] = w /\ launch[n] \in Options
    BY DEF Split
<1>2. /\ a \in Seq(AnyWord) /\ b = a \o w /\ w \in Seq(AnyWord) /\ q = Len(a) + 1
      /\ w[1] = Login!Word(TRUE, launch[n].key)
      /\ launch[n].value = Nothing => Len(w) = 1
      /\ launch[n].value # Nothing => Len(w) = 2 /\ w[2] = Login!Word(FALSE, launch[n].value)
  <2>1. n \in 1..Len(Split) /\ n \in 0..Len(Split) /\ n - 1 \in 0..Len(Split)
    BY <1>1
  <2>2. a \in Seq(AnyWord) /\ b = a \o Split[n]
    BY <2>1 DEF Joins
  <2>3. q = Len(a) + 1
    BY DEF Begins
  <2> HIDE DEF a, b, q
  <2> QED
    BY <1>1, <2>2, <2>3, WordsAre
<1> HIDE DEF a, b, w, q
<1>3. /\ \A p \in 1..Len(a) : b[p] = a[p]
      /\ \A p \in 1..Len(w) : b[Len(a) + p] = w[p]
  <2>1. ASSUME NEW p \in 1..Len(a) PROVE b[p] = a[p]
    BY <1>2
  <2>2. ASSUME NEW p \in 1..Len(w) PROVE b[Len(a) + p] = w[p]
    BY <1>2
  <2> QED
    BY <2>1, <2>2
<1> DEFINE la == Len(a)
           lb == Len(b)
           lw == Len(w)
<1>11. la \in Nat /\ lb = la + lw /\ (lw = 1 \/ lw = 2) /\ q = la + 1
  <2>1. la \in Nat /\ lb = la + lw
    BY <1>2
  <2>2. lw = 1 \/ lw = 2
    BY <1>2
  <2> QED
    BY <1>2, <2>1, <2>2
<1> HIDE DEF la, lb, lw
<1>12. lb \in Nat /\ q \in 1..lb /\ la < lb /\ 1 \in 1..lw
    BY <1>11
<1>13. (lw = 2 => 2 \in 1..lw /\ la + 2 = q + 1 /\ q < lb /\ lb = q + 1) /\ (lw = 1 => lb = q)
    BY <1>11
<1>4. /\ q \in 1..Len(b) /\ b[q] = Login!Word(TRUE, launch[n].key)
      /\ launch[n].value = Nothing => q = Len(b)
      /\ launch[n].value # Nothing => q < Len(b) /\ b[q + 1] = Login!Word(FALSE, launch[n].value)
  <2>1. b[q] = w[1]
    BY <1>3, <1>11, <1>12 DEF la, lw
  <2>2. CASE launch[n].value = Nothing
    BY <1>2, <1>12, <1>13, <2>1, <2>2 DEF lw, lb
  <2>3. CASE launch[n].value # Nothing
    <3>1. lw = 2
      BY <1>2, <2>3 DEF lw
    <3>2. b[la + 2] = w[2]
      BY <1>3, <1>13, <3>1 DEF la, lw
    <3> QED
      BY <1>2, <1>12, <1>13, <2>1, <2>3, <3>1, <3>2 DEF lb
  <2> QED
    BY <2>2, <2>3
<1>5. \A p \in q..Len(b) : b[p].flag => p = q
  <2> SUFFICES ASSUME NEW p \in q..lb, p # q PROVE b[p].flag = FALSE
    BY DEF lb
  <2>1. lw = 2 /\ p = q + 1
    BY <1>11, <1>12, <1>13
  <2>2. launch[n].value # Nothing
    BY <1>2, <2>1 DEF lw
  <2> QED
    BY <1>4, <2>1, <2>2 DEF Login!Word
<1>6. /\ \A i \in 1..(n - 1) :
            /\ Begins(h, i) \in 1..Len(a)
            /\ a[Begins(h, i)] = Login!Word(TRUE, launch[i].key)
            /\ launch[i].value # Nothing =>
                  /\ Begins(h, i) < Len(a)
                  /\ a[Begins(h, i) + 1] = Login!Word(FALSE, launch[i].value)
      /\ \A i, j \in 1..(n - 1) : i < j => Begins(h, i) < Begins(h, j)
      /\ \A p \in 1..Len(a) : a[p].flag => \E i \in 1..(n - 1) : p = Begins(h, i)
    BY DEF Spelled, a
<1>7. n \in Nat /\ \A i \in 1..n : i = n \/ i \in 1..(n - 1)
    OBVIOUS
<1>8. ASSUME NEW i \in 1..n
      PROVE  /\ Begins(h, i) \in 1..Len(b)
             /\ b[Begins(h, i)] = Login!Word(TRUE, launch[i].key)
             /\ launch[i].value # Nothing =>
                   /\ Begins(h, i) < Len(b)
                   /\ b[Begins(h, i) + 1] = Login!Word(FALSE, launch[i].value)
             /\ launch[i].value = Nothing /\ i = n => Begins(h, i) = Len(b)
  <2>1. CASE i = n
    BY <1>4, <2>1 DEF q
  <2>2. CASE i # n
    <3>1. i \in 1..(n - 1)
      BY <1>7, <2>2
    <3>2. /\ Begins(h, i) \in 1..Len(a) /\ a[Begins(h, i)] = Login!Word(TRUE, launch[i].key)
          /\ launch[i].value # Nothing =>
                /\ Begins(h, i) < Len(a)
                /\ a[Begins(h, i) + 1] = Login!Word(FALSE, launch[i].value)
      BY <1>6, <3>1
    <3>5. Len(a) <= Len(b) /\ Len(a) \in Nat /\ Len(b) \in Nat
      BY <1>11, <1>12 DEF la, lb
    <3>3. Begins(h, i) \in 1..Len(b) /\ b[Begins(h, i)] = Login!Word(TRUE, launch[i].key)
      <4>1. b[Begins(h, i)] = a[Begins(h, i)]
        BY <1>3, <3>2
      <4> QED
        BY <3>2, <3>5, <4>1
    <3>4. CASE launch[i].value # Nothing
      <4> DEFINE z == Begins(h, i)
      <4>2. z \in 1..Len(a) /\ z < Len(a)
        BY <3>2, <3>4
      <4> HIDE DEF z
      <4>3. z + 1 \in 1..Len(a) /\ z < Len(b)
        BY <3>5, <4>2
      <4>1. Begins(h, i) + 1 \in 1..Len(a) /\ Begins(h, i) < Len(b)
        BY <4>3 DEF z
      <4> QED
        BY <1>3, <2>2, <3>2, <3>3, <3>4, <4>1
    <3> QED
      BY <2>2, <3>3, <3>4
  <2> QED
    BY <2>1, <2>2
<1>9. ASSUME NEW i \in 1..n, NEW j \in 1..n, i < j PROVE Begins(h, i) < Begins(h, j)
  <2>1. i \in 1..(n - 1)
    BY <1>7, <1>9
  <2>2. CASE j = n
    <3>1. Begins(h, i) \in 1..Len(a) /\ Begins(h, j) = Len(a) + 1
      BY <1>2, <1>6, <2>1, <2>2 DEF q
    <3> QED
      BY <1>11, <3>1 DEF la
  <2>3. CASE j # n
    BY <1>6, <1>7, <1>9, <2>1, <2>3
  <2> QED
    BY <2>2, <2>3
<1>10. ASSUME NEW p \in 1..Len(b), b[p].flag PROVE \E i \in 1..n : p = Begins(h, i)
  <2>1. CASE p \in 1..Len(a)
    <3>1. PICK i \in 1..(n - 1) : p = Begins(h, i)
      BY <1>3, <1>6, <1>10, <2>1
    <3>2. i \in 1..n
      BY <1>7
    <3> QED
      BY <3>1, <3>2
  <2>2. CASE p \in q..Len(b)
    BY <1>5, <1>7, <1>10, <2>2 DEF q
  <2> QED
    <3>1. p \in 1..lb /\ ~(p \in 1..la) => p \in q..lb
      BY <1>11
    <3> QED
      BY <2>1, <2>2, <3>1 DEF la, lb
<1> QED
    BY <1>8, <1>9, <1>10 DEF Spelled, b

\* The same function in both components.
LEMMA FlattenSame == \A s : Login!FlattenSeq(s) = Contour!FlattenSeq(s)
    BY DEF Login!FlattenSeq, Contour!FlattenSeq

\* Hence so are all of a launch.
LEMMA SpelledAll ==
    ASSUME launch \in Seq(Options), launch # <<>>
    PROVE  \E h : Spelled(h, Len(launch)) /\ h[Len(launch)] = Login!FlattenSeq(Split)
                  /\ h[Len(launch)] \in Seq(AnyWord)
<1> DEFINE N == Len(launch)
<1>1. /\ N \in Nat \ {0} /\ Split \in Seq(Seq(AnyWord)) /\ Len(Split) = N /\ Split # <<>>
  <2>1. /\ N \in Nat \ {0} /\ DOMAIN launch = 1..N
        /\ \A i \in 1..N : launch[i] \in Options
    OBVIOUS
  <2>2. \A i \in 1..N : Login!Words(launch[i]) \in Seq(AnyWord)
    BY <2>1, WordsAre
  <2>3. Split = [i \in 1..N |-> Login!Words(launch[i])]
    BY <2>1 DEF Split
  <2> HIDE DEF N
  <2>4. Split \in Seq(Seq(AnyWord)) /\ Len(Split) = N
    BY <2>1, <2>2, <2>3
  <2> QED
    BY <2>1, <2>4
<1>2. PICK h : Joins(h, Split, AnyWord) /\ Login!FlattenSeq(Split) = h[Len(Split)]
    BY <1>1, FlattenSeqJoins, FlattenSame
<1> DEFINE S == {n \in 0..N : Spelled(h, n)}
<1>3. 0 \in S
  <2>1. h[0] = <<>> /\ Len(h[0]) = 0 /\ 1..0 = {}
    BY <1>2 DEF Joins
  <2>2. Spelled(h, 0)
    BY <2>1 DEF Spelled
  <2> QED
    BY <1>1, <2>2
<1>4. \A n \in 1..N : n - 1 \in S => n \in S
    BY <1>1, <1>2, SpellsOn
<1>5. 0..N \subseteq S
  <2> HIDE DEF S, N
  <2> QED
    BY <1>1, <1>3, <1>4, InductiveUpTo
<1>6. h[N] \in Seq(AnyWord) /\ Login!FlattenSeq(Split) = h[N]
  <2>1. N \in 0..Len(Split) /\ h \in [0..Len(Split) -> Seq(AnyWord)]
    BY <1>1, <1>2 DEF Joins
  <2> QED
    BY <1>1, <1>2, <2>1
<1>7. Spelled(h, N)
  <2> HIDE DEF N
  <2> QED
    BY <1>1, <1>5
<1> QED
    BY <1>6, <1>7

\* The least member of a set is its Min.
LEMMA MinIs == ASSUME NEW S \in SUBSET Nat, NEW m \in S, \A n \in S : m <= n PROVE Login!Min(S) = m
<1>1. \A n \in S : (\A k \in S : n <= k) => n = m
    BY SMT
<1> QED
    BY <1>1 DEF Login!Min

\* What GetParam finds is what the player meant.
Understood == \A key \in Login!Keys : Login!GetParam(key) = Login!Given(key)

\* The first option of a name that has a value begins where the search stops: a
\* value is not taken for an option, and a bare last word has none behind it.
LEMMA MeantIsFound ==
    ASSUME launch \in CommandLines, args = Login!FlattenSeq(Split)
    PROVE  Understood
<1>1. /\ launch \in Seq(Options)
      /\ \A i \in 1..Len(launch) :
           launch[i].key \in Login!Keys /\ launch[i].value = Nothing => i = Len(launch)
    BY LoopsAssumption DEF Options
<1> SUFFICES ASSUME NEW key \in Login!Keys PROVE Login!GetParam(key) = Login!Given(key)
    BY DEF Understood
<1> DEFINE N == Len(launch)
           Meant == {i \in 1..N : launch[i].key = key /\ launch[i].value # Nothing}
           Hits == {i \in 1..(Len(args) - 1) : args[i].flag /\ args[i].text = key}
<1>2. /\ Login!GetParam(key) = IF Hits = {} THEN Nothing ELSE args[Login!Min(Hits) + 1].text
      /\ Login!Given(key) = IF Meant = {} THEN Nothing ELSE launch[Login!Min(Meant)].value
    BY DEF Login!GetParam, Login!Given
<1>3. CASE launch = <<>>
  <2>1. Len(Split) = 0 /\ Split = <<>>
    BY <1>3 DEF Split
  <2>2. args = <<>>
    BY <2>1 DEF Login!FlattenSeq
  <2>3. Meant = {} /\ Hits = {}
    BY <1>3, <2>2
  <2> QED
    BY <1>2, <2>3
<1>4. CASE launch # <<>>
  <2>1. PICK h : Spelled(h, N) /\ args = h[N] /\ args \in Seq(AnyWord)
    BY <1>1, <1>4, SpelledAll
  <2>2. N \in Nat \ {0} /\ Len(args) \in Nat
    BY <1>1, <1>4, <2>1
  <2>3. ASSUME NEW i \in Meant
        PROVE  Begins(h, i) \in Hits /\ args[Begins(h, i) + 1].text = launch[i].value
    <3>1. /\ Begins(h, i) \in 1..Len(args) /\ Begins(h, i) < Len(args)
          /\ args[Begins(h, i)] = Login!Word(TRUE, key)
          /\ args[Begins(h, i) + 1] = Login!Word(FALSE, launch[i].value)
      BY <2>1 DEF Spelled
    <3> QED
      BY <2>2, <3>1 DEF Login!Word
  <2>4. ASSUME NEW p \in Hits PROVE \E i \in Meant : p = Begins(h, i)
    <3>1. p \in 1..Len(args) /\ p # Len(args) /\ args[p].flag /\ args[p].text = key
      BY <2>2
    <3>2. PICK i \in 1..N : p = Begins(h, i)
      BY <2>1, <3>1 DEF Spelled
    <3>3. launch[i].key = key
      <4>1. args[p] = Login!Word(TRUE, launch[i].key)
        BY <2>1, <3>2 DEF Spelled
      <4> QED
        BY <3>1, <4>1 DEF Login!Word
    <3>4. launch[i].value # Nothing
      BY <1>1, <2>1, <3>1, <3>2, <3>3 DEF Spelled
    <3> QED
      BY <3>2, <3>3, <3>4
  <2>5. CASE Meant = {}
    <3>1. Hits = {}
      BY <2>4, <2>5
    <3> QED
      BY <1>2, <2>5, <3>1
  <2>6. CASE Meant # {}
    <3>1. Meant \in SUBSET Nat /\ Hits \in SUBSET Nat
      BY <2>2
    <3> HIDE DEF Meant, Hits
    <3>2. PICK m \in Meant : \A i \in Meant : m <= i
      BY <2>6, <3>1, Least
    <3>3. Begins(h, m) \in Hits /\ args[Begins(h, m) + 1].text = launch[m].value
      BY <2>3
    <3>4. ASSUME NEW p \in Hits PROVE Begins(h, m) <= p
      <4>1. PICK i \in Meant : p = Begins(h, i)
        BY <2>4
      <4>2. m <= i /\ m \in 1..N /\ i \in 1..N /\ p \in Nat /\ Begins(h, m) \in Nat
        BY <3>1, <3>2, <3>3 DEF Meant
      <4>3. m < i => Begins(h, m) < Begins(h, i)
        BY <2>1, <4>2 DEF Spelled
      <4> QED
        BY <2>2, <4>1, <4>2, <4>3
    <3>5. Login!Min(Meant) = m /\ Login!Min(Hits) = Begins(h, m)
      BY <3>1, <3>2, <3>3, <3>4, MinIs
    <3> QED
      BY <1>2, <2>6, <3>3, <3>5
  <2> QED
    BY <2>5, <2>6
<1> QED
    BY <1>3, <1>4

-------------------------------------------------------------------------------
\* What has been done so far is what was meant, by each of the two that act
\* once; the second has acted exactly if the character was in a list.
LoginInv ==
    /\ Understood
    /\ posted \in BOOLEAN /\ offered \in BOOLEAN /\ chosen = offered
    /\ ~posted => realm = [list |-> Nothing, name |-> Nothing] /\ logins = <<>>
    /\ Login!LaunchAsMeant

\* Nothing has been done yet.
LEMMA LoginInit == Login!Init => LoginInv
<1> SUFFICES ASSUME Login!Init PROVE LoginInv
    OBVIOUS
<1>1. Understood
  <2>1. launch \in CommandLines /\ args = Login!FlattenSeq(Split)
    BY DEF Login!Init, Split
  <2> QED
    BY <2>1, MeantIsFound
<1> QED
    BY <1>1 DEF Login!Init, LoginInv, Login!LaunchAsMeant

\* Each step does what was meant, at most once.
LEMMA LoginKeeps == LoginInv /\ [Login!Next]_loginVars => LoginInv'
<1> SUFFICES ASSUME LoginInv, [Login!Next]_loginVars PROVE LoginInv'
    OBVIOUS
<1>1. /\ Understood /\ posted \in BOOLEAN /\ offered \in BOOLEAN /\ chosen = offered
      /\ ~posted => realm = [list |-> Nothing, name |-> Nothing] /\ logins = <<>>
      /\ posted =>
          /\ realm = [list |-> Login!Given("realmlist"), name |-> Login!Given("realmname")]
          /\ logins = IF Nothing \in {Login!Given("login"), Login!Given("password")} THEN <<>>
                      ELSE <<<<Login!Given("login"), Login!Given("password")>>>>
      /\ entered = IF offered THEN <<Login!Given("character")>> ELSE <<>>
    BY DEF LoginInv, Login!LaunchAsMeant
<1>2. launch' = launch /\ args' = args
    BY DEF Login!Next, loginVars, Login!PostLoad, Login!CharEnum, Login!EnterByHand
<1>3. /\ \A key \in Login!Keys : Login!Given(key)' = Login!Given(key) /\ Login!GetParam(key) = Login!Given(key)
      /\ Understood'
    BY <1>1, <1>2 DEF Understood, Login!Given, Login!GetParam
<1>4. /\ Login!Given("realmlist")' = Login!Given("realmlist") /\ Login!Given("realmname")' = Login!Given("realmname")
      /\ Login!Given("login")' = Login!Given("login") /\ Login!Given("password")' = Login!Given("password")
      /\ Login!Given("character")' = Login!Given("character")
    BY <1>3 DEF Login!Keys
<1>5. /\ Login!GetParam("realmlist") = Login!Given("realmlist") /\ Login!GetParam("realmname") = Login!Given("realmname")
      /\ Login!GetParam("login") = Login!Given("login") /\ Login!GetParam("password") = Login!Given("password")
      /\ Login!GetParam("character") = Login!Given("character")
    BY <1>3 DEF Login!Keys
<1>6. ASSUME posted' \in BOOLEAN, offered' \in BOOLEAN, chosen' = offered',
             ~posted' => realm' = [list |-> Nothing, name |-> Nothing] /\ logins' = <<>>,
             posted' =>
               /\ realm' = [list |-> Login!Given("realmlist"), name |-> Login!Given("realmname")]
               /\ logins' = IF Nothing \in {Login!Given("login"), Login!Given("password")} THEN <<>>
                            ELSE <<<<Login!Given("login"), Login!Given("password")>>>>,
             entered' = IF offered' THEN <<Login!Given("character")>> ELSE <<>>
      PROVE  LoginInv'
    BY <1>3, <1>4, <1>6 DEF LoginInv, Login!LaunchAsMeant
<1>7. CASE Login!PostLoad
  <2>1. /\ offered' = offered /\ chosen' = chosen /\ entered' = entered
    BY <1>7 DEF Login!PostLoad
  <2>2. CASE posted
    <3>1. posted' = posted /\ realm' = realm /\ logins' = logins
      BY <1>7, <2>2 DEF Login!PostLoad
    <3> QED
      BY <1>1, <1>6, <2>1, <2>2, <3>1
  <2>3. CASE ~posted
    <3>1. /\ posted' = TRUE
          /\ realm' = [list |-> Login!SetCVarFromParam("realmlist", realm.list),
                       name |-> Login!SetCVarFromParam("realmname", realm.name)]
          /\ logins' = IF Nothing \in {Login!GetParam("login"), Login!GetParam("password")} THEN logins
                       ELSE Append(logins, <<Login!GetParam("login"), Login!GetParam("password")>>)
      BY <1>7, <2>3 DEF Login!PostLoad
    <3>2. realm.list = Nothing /\ realm.name = Nothing /\ logins = <<>>
      BY <1>1, <2>3
    <3>3. realm' = [list |-> Login!Given("realmlist"), name |-> Login!Given("realmname")]
      BY <1>5, <3>1, <3>2 DEF Login!SetCVarFromParam
    <3>4. logins' = IF Nothing \in {Login!Given("login"), Login!Given("password")} THEN <<>>
                    ELSE <<<<Login!Given("login"), Login!Given("password")>>>>
      BY <1>5, <3>1, <3>2
    <3> QED
      BY <1>1, <1>6, <2>1, <3>1, <3>3, <3>4
  <2> QED
    BY <1>1, <2>2, <2>3
<1>8. ASSUME NEW list \in Rosters, Login!CharEnum(list) PROVE LoginInv'
  <2> DEFINE hit == Login!Given("character") # Nothing /\ Login!Contains(list, Login!Given("character"))
  <2>1. posted' = posted /\ realm' = realm /\ logins' = logins /\ offered' = (offered \/ hit)
    BY <1>8 DEF Login!CharEnum
  <2>2. IF ~chosen /\ hit THEN chosen' = TRUE /\ entered' = Append(entered, Login!Given("character"))
        ELSE chosen' = chosen /\ entered' = entered
    BY <1>5, <1>8 DEF Login!CharEnum
  <2> HIDE DEF hit
  <2>3. CASE ~chosen /\ hit
    <3>1. offered = FALSE /\ entered = <<>> /\ offered' = TRUE /\ chosen' = TRUE
      BY <1>1, <2>1, <2>2, <2>3
    <3>2. entered' = <<Login!Given("character")>>
      BY <2>2, <2>3, <3>1
    <3> QED
      BY <1>1, <1>6, <2>1, <3>1, <3>2
  <2>4. CASE ~(~chosen /\ hit)
    <3>1. offered' = offered /\ chosen' = chosen /\ entered' = entered
      BY <1>1, <2>1, <2>2, <2>4
    <3> QED
      BY <1>1, <1>6, <2>1, <3>1
  <2> QED
    BY <2>3, <2>4
<1>9. CASE Login!EnterByHand \/ UNCHANGED loginVars
    BY <1>1, <1>6, <1>9 DEF Login!EnterByHand, loginVars
<1> QED
    BY <1>7, <1>8, <1>9 DEF Login!Next

\* The property is a part of the invariant.
LEMMA LoginHolds == LoginInv => Login!LaunchAsMeant
    BY DEF LoginInv

\* Whatever values the options of a launch have, also ones that spell options,
\* and however often the login screen and the lists of characters come back, the
\* realm, the login and the character are those of the launch, each used at most
\* once: for launches whose options of the five names have a value each, but for
\* a bare last one (CommandLine.cpp:12-57).
THEOREM LaunchesAreMeant == Spec => []LaunchAsMeant
<1>1. Init => LoginInv
    BY LoginInit DEF Init
<1>2. LoginInv /\ [Next]_vars => LoginInv'
    BY LoginOnly, LoginKeeps
<1>3. LoginInv => LaunchAsMeant
    BY LoginHolds DEF LaunchAsMeant
<1> QED
    BY <1>1, <1>2, <1>3, PTL DEF Spec

-------------------------------------------------------------------------------
\* What the proofs above did not need of the types.
AtlasRest == tainted \subseteq Lines /\ atlasDevice \in {"up", "lost", "stuck"}
LoginRest == /\ launch \in CommandLines /\ screen \in {"start", "login", "characters", "world"}
             /\ roster \in Rosters \cup {<<>>}

\* Only strings are noted, and the device has three states.
LEMMA AtlasRestKeeps == AtlasInv /\ AtlasRest /\ [Atlas!Next]_atlasVars => AtlasRest'
<1> SUFFICES ASSUME AtlasInv, AtlasRest, [Atlas!Next]_atlasVars PROVE AtlasRest'
    OBVIOUS
<1>1. todo \subseteq Lines
    BY DEF AtlasInv
<1>2. ASSUME NEW batch \in SUBSET Lines, Atlas!BeginFrame(batch) PROVE AtlasRest'
    BY <1>2 DEF AtlasRest, Atlas!BeginFrame
<1>3. ASSUME NEW s \in Lines, Atlas!ProcessGeometry(s) PROVE AtlasRest'
  <2>1. atlasDevice' = atlasDevice /\ s \in Lines
    BY <1>3 DEF Atlas!ProcessGeometry
  <2>2. tainted' \subseteq tainted \cup {s}
    <3> HIDE DEF Atlas!Resolved
    <3> QED
      BY <1>3 DEF Atlas!ProcessGeometry
  <2> QED
    BY <2>1, <2>2 DEF AtlasRest
<1>4. ASSUME NEW s \in Lines, NEW t \in Texts, Atlas!SetText(s, t) PROVE AtlasRest'
    BY <1>4 DEF AtlasRest, Atlas!SetText
<1>5. ASSUME NEW d \in {"up", "lost", "stuck"}, Atlas!DeviceChanges(d) PROVE AtlasRest'
    BY <1>5 DEF AtlasRest, Atlas!DeviceChanges
<1>6. CASE Atlas!DestroyDevice
    BY <1>6 DEF AtlasRest, Atlas!DestroyDevice
<1>7. CASE UNCHANGED atlasVars
    BY <1>7 DEF AtlasRest, atlasVars
<1> QED
    BY <1>2, <1>3, <1>4, <1>5, <1>6, <1>7 DEF Atlas!Next

\* Places lie on pages, as the glyphs there do, and geometry refers to places.
LEMMA AtlasTypes == AtlasInv /\ AtlasRest => Atlas!TypeOK
<1> SUFFICES ASSUME AtlasInv, AtlasRest PROVE Atlas!TypeOK
    OBVIOUS
<1>1. /\ FontOK(font) /\ font \in Fonts /\ font.pages \in Seq(Pages)
      /\ Len(font.pages) <= MAX_ATLAS_PAGES /\ font.oldest \in 1..MAX_ATLAS_PAGES
      /\ font.evictions \in 0..MaxEvictions
      /\ DOMAIN font.pool \subseteq Codepoints /\ font.pool \in [DOMAIN font.pool -> Ats]
  <2>1. FontOK(font) /\ font.evictions <= MaxEvictions
    BY DEF AtlasInv
  <2>2. font \in Fonts /\ Len(font.pages) <= MAX_ATLAS_PAGES
    BY <2>1 DEF FontOK
  <2>3. /\ font.pages \in Seq(Pages) /\ font.oldest \in 1..MAX_ATLAS_PAGES
        /\ font.evictions \in Nat
        /\ DOMAIN font.pool \subseteq Codepoints /\ font.pool \in [DOMAIN font.pool -> Ats]
    BY <2>2, FontIs
  <2>4. MaxEvictions \in Nat
    BY LoopsAssumption
  <2>5. font.evictions \in 0..MaxEvictions
    BY <2>1, <2>3, <2>4
  <2> QED
    BY <2>1, <2>2, <2>3, <2>5
<1>2. ASSUME NEW cp \in DOMAIN font.pool
      PROVE  font.pool[cp] \in Atlas!Rects \cup {Atlas!NoRect} /\ cp \notin Unloadable
  <2>1. /\ cp \notin Unloadable /\ font.pool[cp] \in Ats
        /\ font.pool[cp] = Atlas!NoRect \/ Lies(font, font.pool[cp], cp)
    BY <1>1 DEF FontOK
  <2>2. Atlas!RawRect.page = 0
    BY DEF Atlas!RawRect
  <2>3. ~Lies(font, Atlas!RawRect, cp)
    BY <2>2 DEF Lies
  <2> QED
    BY <2>1, <2>3 DEF Ats
<1>3. \A i \in DOMAIN font.pages : /\ font.pages[i].nextX \in 0..ATLAS_SIZE
                                   /\ font.pages[i].nextY \in 0..ATLAS_SIZE
  <2>1. \A i \in DOMAIN font.pages : font.pages[i] \in Pages
    BY <1>1
  <2> QED
    BY <2>1 DEF Pages
<1>4. ASSUME NEW s \in Lines
      PROVE  /\ strings[s].text \in Texts /\ strings[s].mark \in Atlas!Marks
             /\ \A i \in DOMAIN strings[s].quads : strings[s].quads[i] \in Atlas!Quads
  <2>1. strings[s] \in AnyLines
    BY DEF AtlasInv
  <2>2. AnyQuads = Atlas!Quads
    BY DEF AnyQuads, Atlas!Quads, Ats
  <2>3. strings[s].text \in Texts /\ strings[s].mark \in Atlas!Marks /\ strings[s].quads \in Seq(Atlas!Quads)
    BY <2>1, <2>2 DEF AnyLines
  <2> QED
    BY <2>3
<1>5. \A s \in Lines : since[s] \in 0..font.evictions
    BY <1>1 DEF AtlasInv
<1> QED
    BY <1>1, <1>2, <1>3, <1>4, <1>5 DEF Atlas!TypeOK, AtlasInv, AtlasRest

\* The launch stays, a list of characters is one that may arrive.
LEMMA LoginRestKeeps == LoginRest /\ [Login!Next]_loginVars => LoginRest'
    BY DEF LoginRest, loginVars, Login!Next, Login!PostLoad, Login!CharEnum, Login!EnterByHand

\* What is done at most once is noted at most once.
LEMMA LoginTypes == LoginInv /\ LoginRest => Login!TypeOK
<1> SUFFICES ASSUME LoginInv, LoginRest PROVE Login!TypeOK
    OBVIOUS
<1>1. posted \in BOOLEAN /\ offered \in BOOLEAN /\ chosen \in BOOLEAN
    BY DEF LoginInv
<1>2. logins = <<>> \/ \E l : logins = <<l>>
    BY DEF LoginInv, Login!LaunchAsMeant
<1>3. entered = <<>> \/ \E c : entered = <<c>>
    BY DEF LoginInv, Login!LaunchAsMeant
<1>4. Len(<<>>) <= 1 /\ \A x : Len(<<x>>) <= 1
    OBVIOUS
<1>5. Len(logins) <= 1 /\ Len(entered) <= 1
    BY <1>2, <1>3, <1>4, Zenon
<1> QED
    BY <1>1, <1>5 DEF LoginRest, Login!TypeOK

\* Every variable of the six components stays within its type: alphas within
\* what a byte holds, an order with every plate, places inside the pages and
\* quads that refer to such places, a row that never leaves its page, one login
\* (Camera.cpp:57-146; NamePlates.cpp:559-577, 984-1020; MSDFFont.cpp:59-208;
\* CommandLine.cpp:12-57).
THEOREM TypeCorrect == Spec => []TypeOK
<1> DEFINE Inv == /\ CameraInv /\ FocusInv /\ Alpha!TypeOK
                  /\ AtlasInv /\ AtlasRest /\ Contour!TypeOK /\ LoginInv /\ LoginRest
<1>1. ASSUME Init PROVE Inv
  <2>1. Camera!Init /\ Focus!Init /\ Alpha!Init /\ Atlas!Init /\ Login!Init /\ verdict = "none"
    BY <1>1 DEF Init, Contour!Init
  <2>2. AtlasRest /\ Contour!TypeOK /\ LoginRest
    BY <2>1 DEF AtlasRest, Contour!TypeOK, LoginRest, Atlas!Init, Login!Init
  <2> QED
    BY <2>1, <2>2, CameraInit, FocusInit, AlphaInit, AtlasInit, LoginInit
<1>2. ASSUME Inv, [Next]_vars PROVE Inv'
  <2>1. CameraInv' /\ FocusInv' /\ Alpha!TypeOK'
    BY <1>2, CameraOnly, FocusOnly, AlphaOnly, CameraKeeps, FocusKeeps, AlphaKeeps
  <2>2. AtlasInv' /\ AtlasRest' /\ LoginInv' /\ LoginRest'
    BY <1>2, AtlasOnly, LoginOnly, AtlasKeeps, AtlasRestKeeps, LoginKeeps, LoginRestKeeps
  <2>3. Contour!TypeOK'
    <3>1. CASE ContourStep
      BY <3>1 DEF ContourStep, Contour!Next, Contour!IsGlyphValid, Contour!TypeOK
    <3>2. CASE ~ContourStep
      BY <1>2, <3>2, ContourOnly DEF contourVars, Contour!TypeOK
    <3> QED
      BY <3>1, <3>2
  <2> QED
    BY <2>1, <2>2, <2>3
<1>3. Inv => TypeOK
    BY AtlasTypes, LoginTypes DEF CameraInv, FocusInv, TypeOK
<1> QED
    BY <1>1, <1>2, <1>3, PTL DEF Spec
===============================================================================
