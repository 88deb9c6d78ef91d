----------------------------- MODULE FeaturesProofs ----------------------------
(***************************************************************************)
(* Components that share no state, for every value of their constants.     *)
(* A behaviour of the sum is one of each component, steps of the others    *)
(* being stutters: the highlight, the interaction queue, the memories of   *)
(* the nameplates and their stacking, the patcher, the font engine, the    *)
(* Direct3D resources and the voices.                                      *)
(***************************************************************************)
EXTENDS Features, Induction, SequenceTheorems

-------------------------------------------------------------------------------
\* A step of the sum is a step of a component, or leaves its variables alone.

LEMMA HighlightOnly == [Next]_vars => [Highlight!Next]_highlightVars
<1> SUFFICES ASSUME [Next]_vars PROVE [Highlight!Next]_highlightVars
    OBVIOUS
<1>1. CASE HighlightStep
    BY <1>1 DEF HighlightStep
<1>2. CASE ~HighlightStep
    BY <1>2 DEF Next, vars, VoicesStep, InteractStep, LayoutStep, PairsOfStep,
        PatchStep, EngineStep, ResourcesStep, highlightVars
<1> QED
    BY <1>1, <1>2

LEMMA InteractionOnly == [Next]_vars => [Interact!Next]_interactionVars
<1> SUFFICES ASSUME [Next]_vars PROVE [Interact!Next]_interactionVars
    OBVIOUS
<1>1. CASE InteractStep
    BY <1>1 DEF InteractStep
<1>2. CASE ~InteractStep
    BY <1>2 DEF Next, vars, VoicesStep, HighlightStep, LayoutStep, PairsOfStep,
        PatchStep, EngineStep, ResourcesStep, interactionVars
<1> QED
    BY <1>1, <1>2

LEMMA PairsOnly == [Next]_vars => [PairsOf!Next]_pairsVars
<1> SUFFICES ASSUME [Next]_vars PROVE [PairsOf!Next]_pairsVars
    OBVIOUS
<1>1. CASE PairsOfStep
    BY <1>1 DEF PairsOfStep
<1>2. CASE ~PairsOfStep
    BY <1>2 DEF Next, vars, VoicesStep, HighlightStep, LayoutStep, InteractStep,
        PatchStep, EngineStep, ResourcesStep, pairsVars
<1> QED
    BY <1>1, <1>2

LEMMA PatcherOnly == [Next]_vars => [Patch!Next]_patcherVars
<1> SUFFICES ASSUME [Next]_vars PROVE [Patch!Next]_patcherVars
    OBVIOUS
<1>1. CASE PatchStep
    BY <1>1 DEF PatchStep
<1>2. CASE ~PatchStep
    BY <1>2 DEF Next, vars, VoicesStep, HighlightStep, LayoutStep, InteractStep,
        PairsOfStep, EngineStep, ResourcesStep, patcherVars
<1> QED
    BY <1>1, <1>2

LEMMA EngineOnly == [Next]_vars => [Engine!Next]_engineVars
<1> SUFFICES ASSUME [Next]_vars PROVE [Engine!Next]_engineVars
    OBVIOUS
<1>1. CASE EngineStep
    BY <1>1 DEF EngineStep
<1>2. CASE ~EngineStep
    BY <1>2 DEF Next, vars, VoicesStep, HighlightStep, LayoutStep, InteractStep,
        PairsOfStep, PatchStep, ResourcesStep, engineVars
<1> QED
    BY <1>1, <1>2

LEMMA ResourcesOnly == [Next]_vars => [Resources!Next]_d3dVars
<1> SUFFICES ASSUME [Next]_vars PROVE [Resources!Next]_d3dVars
    OBVIOUS
<1>1. CASE ResourcesStep
    BY <1>1 DEF ResourcesStep
<1>2. CASE ~ResourcesStep
    BY <1>2 DEF Next, vars, VoicesStep, HighlightStep, LayoutStep, InteractStep,
        PairsOfStep, PatchStep, EngineStep, d3dVars
<1> QED
    BY <1>1, <1>2

LEMMA LayoutOnly == [Next]_vars => [Layout!Next]_layoutVars
<1> SUFFICES ASSUME [Next]_vars PROVE [Layout!Next]_layoutVars
    OBVIOUS
<1>1. CASE LayoutStep
    BY <1>1 DEF LayoutStep
<1>2. CASE ~LayoutStep
    BY <1>2 DEF Next, vars, VoicesStep, HighlightStep, ResourcesStep,
        InteractStep, PairsOfStep, PatchStep, EngineStep, layoutVars
<1> QED
    BY <1>1, <1>2

LEMMA VoicesOnly == [Next]_vars => [Voices!Next]_voicesVars
<1> SUFFICES ASSUME [Next]_vars PROVE [Voices!Next]_voicesVars
    OBVIOUS
<1>1. CASE VoicesStep
    BY <1>1 DEF VoicesStep
<1>2. CASE ~VoicesStep
    BY <1>2 DEF Next, vars, LayoutStep, HighlightStep, ResourcesStep,
        InteractStep, PairsOfStep, PatchStep, EngineStep, voicesVars
<1> QED
    BY <1>1, <1>2

-------------------------------------------------------------------------------
\* The memories of the pairs of plates.

\* The rates and distances the code has are not negative.
Sizes == Span \in Nat /\ Cools \subseteq Nat /\ Drops \subseteq Nat

LEMMA PairsCount == \A S : PairsOf!Cardinality(S) = Cardinality(S)
    BY DEF PairsOf!Cardinality, Cardinality

\* A pair is stamped with this instant only by a layout, which seeds it first.
Stamped == \A s \in PairsOf!Pairs : pair[s].timestamp = "now" => pair[s].near

\* A memory is marked on both sides; while one of the plates is listed it is of
\* this instant, and while both are, of their present units or inherited.
Remembered ==
    \A p, q \in PairPlates :
        p # q /\ pair[{p, q}] # PairsOf!Blank =>
            /\ q \in bits[p] /\ p \in bits[q]
            /\ p \in pairsListed \/ q \in pairsListed => pair[{p, q}].near
            /\ p \in pairsListed /\ q \in pairsListed => {p, q} \in met /\ {p, q} \in theirs \cup heirs

PairsInv == PairsOf!TypeOK /\ Stamped /\ Remembered

-------------------------------------------------------------------------------
\* Two plates make a pair.
LEMMA PairOf == \A p, q \in PairPlates : p # q => {p, q} \in PairsOf!Pairs /\ IsFiniteSet({p, q})
  <1> SUFFICES ASSUME NEW p \in PairPlates, NEW q \in PairPlates, p # q
               PROVE  {p, q} \in PairsOf!Pairs /\ IsFiniteSet({p, q})
    OBVIOUS
  <1>1. IsFiniteSet({q}) /\ Cardinality({q}) = 1
    BY FS_Singleton
  <1>2. {p, q} = {q} \cup {p} /\ p \notin {q}
    OBVIOUS
  <1>3. IsFiniteSet({p, q}) /\ Cardinality({p, q}) = 1 + 1
    BY <1>1, <1>2, FS_AddElement
  <1> QED
    BY <1>3, PairsCount DEF PairsOf!Pairs

\* The types of the operators on one pair's memory.
LEMMA BlankState == Sizes => PairsOf!Blank \in PairsOf!PairState
  BY DEF Sizes, PairsOf!Blank, PairsOf!PairState, PairsOf!MaxSteps

LEMMA SameState ==
    ASSUME NEW s \in PairsOf!PairState, NEW t \in PairsOf!PairState,
           s.known = t.known, s.near = t.near, s.timestamp = t.timestamp,
           s.decay = t.decay, s.steps = t.steps, s.hysteresis = t.hysteresis
    PROVE  s = t
  BY DEF PairsOf!PairState

LEMMA LaidOutState ==
    ASSUME Sizes, NEW s \in PairsOf!Pairs, pair[s] \in PairsOf!PairState, NEW P,
           NEW tick \in BOOLEAN, NEW c \in PairsOf!Contacts
    PROVE  PairsOf!LaidOut(s, P, tick, c) \in PairsOf!PairState
  <1>1. PairsOf!Aged(pair[s], tick) \in PairsOf!PairState
    BY DEF PairsOf!Aged, PairsOf!PairState
  <1>2. ASSUME NEW t \in PairsOf!PairState PROVE PairsOf!CommitPair(PairsOf!Seed(t), c) \in PairsOf!PairState
    <2>1. PairsOf!Seed(t) \in PairsOf!PairState
      BY DEF PairsOf!Seed, PairsOf!PairState
    <2>2. ASSUME NEW u \in PairsOf!PairState PROVE PairsOf!Widened(u, c.natural, c.drop) \in 20..40
      <3>1. u.steps \in 0..5 /\ u.hysteresis \in 20..40 /\ c.drop \in Nat
        BY DEF PairsOf!PairState, PairsOf!MaxSteps, PairsOf!Contacts, Sizes
      <3>2. PairsOf!Least(3 * u.steps, 15) \in 0..15
        BY <3>1 DEF PairsOf!Least
      <3>3. 25 + PairsOf!Least(3 * u.steps, 15) \in 20..40
        BY <3>2
      <3> QED
        BY <3>1, <3>3 DEF PairsOf!Widened
    <2>3. ASSUME NEW u \in PairsOf!PairState, NEW w \in 20..40 PROVE PairsOf!Commit(u, w) \in PairsOf!PairState
      <3>1. u.steps \in 0..PairsOf!MaxSteps /\ u.decay \in 0..Span /\ Span \in 0..Span
        BY DEF PairsOf!PairState, Sizes
      <3>2. PairsOf!Least(u.steps + 1, PairsOf!MaxSteps) \in 0..PairsOf!MaxSteps
        BY <3>1 DEF PairsOf!Least, PairsOf!MaxSteps
      <3> QED
        BY <3>1, <3>2 DEF PairsOf!Commit, PairsOf!PairState
    <2> QED
      BY <2>1, <2>2, <2>3 DEF PairsOf!CommitPair
  <1> QED
    BY <1>1, <1>2 DEF PairsOf!LaidOut

LEMMA CooldownState ==
    ASSUME Sizes, NEW t \in PairsOf!PairState, NEW cool \in Cools
    PROVE  PairsOf!Cooldown(t, cool) \in PairsOf!PairState
  <1> PICK left : left = IF t.known /\ t.decay > cool THEN t.decay - cool ELSE 0
    OBVIOUS
  <1>1. left \in 0..Span
    BY DEF PairsOf!PairState, Sizes
  <1>2. 0 \in 0..PairsOf!MaxSteps
    BY DEF PairsOf!MaxSteps
  <1> QED
    BY <1>1, <1>2 DEF PairsOf!Cooldown, PairsOf!PairState

LEMMA ResolveState ==
    ASSUME Sizes, NEW s \in PairsOf!PairState, NEW cool \in Cools
    PROVE  PairsOf!Resolve(s, cool) \in PairsOf!PairState
  <1>1. ASSUME NEW full \in BOOLEAN PROVE PairsOf!Reset(s, full) \in PairsOf!PairState
    <2>1. 20 \in 20..40
      OBVIOUS
    <2>2. [s EXCEPT !.hysteresis = 20, !.timestamp = "none"] \in PairsOf!PairState
      BY <2>1 DEF PairsOf!PairState
    <2> QED
      BY <2>2, BlankState DEF PairsOf!Reset
  <1>2. ASSUME NEW t \in PairsOf!PairState PROVE PairsOf!Cooldown(t, cool) \in PairsOf!PairState
    BY CooldownState
  <1>3. (~s.near) \in BOOLEAN
    OBVIOUS
  <1> QED
    BY <1>1, <1>2, <1>3 DEF PairsOf!Resolve

\* To settle a pair keeps what it knows of this instant, and forgets the rest.
LEMMA PairSettled ==
    ASSUME Sizes, NEW s \in PairsOf!PairState, NEW cool \in Cools, s.timestamp = "now" => s.near
    PROVE  /\ s.near => PairsOf!Resolve(s, cool).near
           /\ ~s.near => PairsOf!Resolve(s, cool) = PairsOf!Blank
           /\ PairsOf!Resolve(s, cool).timestamp = "now" => s.timestamp = "now"
  <1>1. CASE s.timestamp = "now"
    BY <1>1 DEF PairsOf!Resolve
  <1>2. CASE s.timestamp # "now" /\ s.near
    BY <1>2 DEF PairsOf!Resolve, PairsOf!Reset, PairsOf!Cooldown, PairsOf!PairState
  <1>3. CASE s.timestamp # "now" /\ ~s.near
    <2>1. PairsOf!Resolve(s, cool) = PairsOf!Cooldown(PairsOf!Blank, cool)
      BY <1>3 DEF PairsOf!Resolve, PairsOf!Reset
    <2>2. PairsOf!Cooldown(PairsOf!Blank, cool) \in PairsOf!PairState /\ PairsOf!Blank \in PairsOf!PairState
      BY BlankState, CooldownState
    <2>3. PairsOf!Cooldown(PairsOf!Blank, cool) = PairsOf!Blank
      BY <2>2, SameState DEF PairsOf!Cooldown, PairsOf!Blank
    <2> QED
      BY <1>3, <2>1, <2>3 DEF PairsOf!Blank
  <1> QED
    BY <1>1, <1>2, <1>3

\* A layout brings its plates together at this instant; others only age.
LEMMA LaidOutFacts ==
    ASSUME NEW s \in PairsOf!Pairs, pair[s] \in PairsOf!PairState, pair[s].timestamp = "now" => pair[s].near,
           NEW P, NEW tick \in BOOLEAN, NEW c \in PairsOf!Contacts
    PROVE  LET t == PairsOf!LaidOut(s, P, tick, c)
           IN  /\ t.timestamp = "now" => t.near
               /\ t.near => s \subseteq P \/ (~tick /\ pair[s].near)
               /\ ~(s \subseteq P) /\ pair[s] = PairsOf!Blank => t = PairsOf!Blank
  <1>1. /\ PairsOf!Aged(pair[s], tick) \in PairsOf!PairState
        /\ PairsOf!Aged(pair[s], tick).timestamp = "now" => PairsOf!Aged(pair[s], tick).near
        /\ PairsOf!Aged(pair[s], tick).near => ~tick /\ pair[s].near
    BY DEF PairsOf!Aged, PairsOf!PairState
  <1>2. pair[s] = PairsOf!Blank => PairsOf!Aged(pair[s], tick) = PairsOf!Blank
    <2> SUFFICES ASSUME pair[s] = PairsOf!Blank PROVE PairsOf!Aged(PairsOf!Blank, tick) = PairsOf!Blank
      OBVIOUS
    <2>1. PairsOf!Aged(PairsOf!Blank, tick) \in PairsOf!PairState /\ PairsOf!Blank \in PairsOf!PairState
      BY <1>1
    <2> QED
      BY <2>1, SameState DEF PairsOf!Aged, PairsOf!Blank
  <1>3. ASSUME NEW t \in PairsOf!PairState PROVE PairsOf!CommitPair(PairsOf!Seed(t), c).near
    BY DEF PairsOf!CommitPair, PairsOf!Commit, PairsOf!Seed, PairsOf!PairState
  <1> QED
    BY <1>1, <1>2, <1>3 DEF PairsOf!LaidOut

-------------------------------------------------------------------------------
\* No plates, no memories.
LEMMA PairsInit == Sizes /\ PairsOf!Init => PairsInv
  <1> SUFFICES ASSUME Sizes, PairsOf!Init PROVE PairsInv
    OBVIOUS
  <1>1. \A s \in PairsOf!Pairs : pair[s] = PairsOf!Blank
    BY DEF PairsOf!Init
  <1>2. Stamped
    BY <1>1 DEF Stamped, PairsOf!Blank
  <1> QED
    BY <1>1, <1>2, BlankState, PairOf DEF PairsOf!Init, PairsInv, PairsOf!TypeOK, Remembered

\* Whatever a plate remembers it has a mark for, so nothing of it survives.
LEMMA ShowKeeps == ASSUME Sizes, PairsInv, NEW p \in PairPlates, PairsOf!Show(p) PROVE PairsInv'
  <1>0. PairsOf!TypeOK /\ Stamped /\ Remembered
    BY DEF PairsInv
  <1>1. \A s \in PairsOf!Pairs : pair'[s] \in {PairsOf!Blank, pair[s]}
    BY DEF PairsOf!Show
  <1>2. PairsOf!TypeOK'
    <2>1. pair' \in [PairsOf!Pairs -> PairsOf!PairState]
      BY <1>0, BlankState DEF PairsOf!Show, PairsOf!TypeOK
    <2> QED
      BY <1>0, <2>1 DEF PairsOf!Show, PairsOf!TypeOK, PairsOf!Without
  <1>3. Stamped'
    BY <1>0, <1>1 DEF Stamped, PairsOf!Blank
  <1>4. \A q \in PairPlates : q # p => pair'[{p, q}] = PairsOf!Blank
    <2> SUFFICES ASSUME NEW q \in PairPlates, q # p PROVE pair'[{p, q}] = PairsOf!Blank
      OBVIOUS
    <2>1. {p, q} \in PairsOf!Pairs
      BY PairOf
    <2>2. pair[{p, q}] # PairsOf!Blank => q \in bits[p]
      BY <1>0 DEF Remembered
    <2> QED
      BY <2>1, <2>2 DEF PairsOf!Show
  <1>5. Remembered'
    <2> SUFFICES ASSUME NEW a \in PairPlates, NEW b \in PairPlates, a # b, pair'[{a, b}] # PairsOf!Blank
                 PROVE  /\ b \in bits'[a] /\ a \in bits'[b]
                        /\ a \in pairsListed' \/ b \in pairsListed' => pair'[{a, b}].near
                        /\ a \in pairsListed' /\ b \in pairsListed' =>
                              {a, b} \in met' /\ {a, b} \in theirs' \cup heirs'
      BY DEF Remembered
    <2>1. a # p /\ b # p
      <3>1. {a, b} = {b, a}
        OBVIOUS
      <3> QED
        BY <1>4, <3>1
    <2>2. pair'[{a, b}] = pair[{a, b}]
      BY <1>1, PairOf
    <2>3. /\ bits'[a] = bits[a] /\ bits'[b] = bits[b]
          /\ pairsListed' = pairsListed \cup {p}
          /\ {a, b} \in met => {a, b} \in met'
          /\ {a, b} \in theirs \cup heirs => {a, b} \in theirs' \cup heirs'
      BY <1>0, <2>1 DEF PairsOf!Show, PairsOf!TypeOK, PairsOf!Without
    <2> QED
      BY <1>0, <2>1, <2>2, <2>3 DEF Remembered
  <1> QED
    BY <1>2, <1>3, <1>5 DEF PairsInv

\* A hidden plate keeps its memories and marks; fewer are listed.
LEMMA HideKeeps == ASSUME PairsInv, NEW p \in PairPlates, PairsOf!Hide(p) PROVE PairsInv'
  <1>1. PairsOf!TypeOK'
    BY DEF PairsOf!Hide, PairsInv, PairsOf!TypeOK
  <1>2. Stamped' /\ Remembered'
    BY DEF PairsOf!Hide, PairsInv, Stamped, Remembered
  <1> QED
    BY <1>1, <1>2 DEF PairsInv

\* With another unit a plate keeps them too: those of a pair are inherited now.
LEMMA RetargetKeeps == ASSUME PairsInv, NEW p \in PairPlates, PairsOf!Retarget(p) PROVE PairsInv'
  <1>0. PairsOf!TypeOK /\ Stamped /\ Remembered
    BY DEF PairsInv
  <1>1. /\ pair' = pair /\ bits' = bits /\ pairsListed' = pairsListed /\ pairsFresh' = pairsFresh
        /\ met' = met /\ theirs' = {s \in theirs : p \notin s}
        /\ heirs' = heirs \cup {s \in met : p \in s}
    BY DEF PairsOf!Retarget, PairsOf!Without
  <1>2. PairsOf!TypeOK'
    BY <1>0, <1>1 DEF PairsOf!TypeOK
  <1>3. Stamped'
    BY <1>0, <1>1 DEF Stamped
  <1>4. \A s \in met : s \in theirs \cup heirs => s \in theirs' \cup heirs'
    BY <1>1
  <1>5. Remembered'
    BY <1>0, <1>1, <1>4 DEF Remembered
  <1> QED
    BY <1>2, <1>3, <1>5 DEF PairsInv

LEMMA ClearAllKeeps == ASSUME Sizes, PairsOf!ClearAll PROVE PairsInv'
  <1>1. \A s \in PairsOf!Pairs : pair'[s] = PairsOf!Blank
    BY DEF PairsOf!ClearAll
  <1>2. PairsOf!TypeOK'
    BY BlankState DEF PairsOf!ClearAll, PairsOf!TypeOK
  <1>3. Stamped'
    BY <1>1 DEF Stamped, PairsOf!Blank
  <1>4. Remembered'
    BY <1>1, PairOf DEF Remembered
  <1> QED
    BY <1>2, <1>3, <1>4 DEF PairsInv

\* After a frame a memory is that of a pair this instant has brought together,
\* or of one that no listed plate is part of.
LEMMA PairFrameKeeps ==
    ASSUME Sizes, PairsInv, NEW P \in SUBSET pairsListed, NEW tick \in BOOLEAN,
           NEW c \in [PairsOf!Pairs -> PairsOf!Contacts], NEW cool \in Cools, PairsOf!Frame(P, tick, c, cool)
    PROVE  PairsInv'
  <1> DEFINE laid == [s \in PairsOf!Pairs |-> PairsOf!LaidOut(s, P, tick, c[s])]
             marks == PairsOf!Marked(P)
             settlers(s) == {p \in s \cap pairsListed : s \ {p} \subseteq marks[p]}
  <1>0. PairsOf!TypeOK /\ Stamped /\ Remembered
    BY DEF PairsInv
  <1>1. \A s \in PairsOf!Pairs :
          /\ laid[s] \in PairsOf!PairState
          /\ laid[s].timestamp = "now" => laid[s].near
          /\ laid[s].near => s \subseteq P \/ (~tick /\ pair[s].near)
          /\ ~(s \subseteq P) /\ pair[s] = PairsOf!Blank => laid[s] = PairsOf!Blank
    <2> SUFFICES ASSUME NEW s \in PairsOf!Pairs
                 PROVE  LET t == PairsOf!LaidOut(s, P, tick, c[s])
                        IN  /\ t \in PairsOf!PairState
                            /\ t.timestamp = "now" => t.near
                            /\ t.near => s \subseteq P \/ (~tick /\ pair[s].near)
                            /\ ~(s \subseteq P) /\ pair[s] = PairsOf!Blank => t = PairsOf!Blank
      OBVIOUS
    <2>1. /\ pair[s] \in PairsOf!PairState /\ c[s] \in PairsOf!Contacts
          /\ pair[s].timestamp = "now" => pair[s].near
      BY <1>0 DEF PairsOf!TypeOK, Stamped
    <2> QED
      BY <2>1, LaidOutState, LaidOutFacts
  \* What is left of a pair.
  <1>2. pair' = [s \in PairsOf!Pairs |->
                   CASE PairsOf!Cardinality(settlers(s)) = 0 -> laid[s]
                     [] PairsOf!Cardinality(settlers(s)) = 1 -> PairsOf!Resolve(laid[s], cool)
                     [] OTHER -> PairsOf!Resolve(PairsOf!Resolve(laid[s], cool), cool)]
    BY DEF PairsOf!Frame
  <1>3. \A s \in PairsOf!Pairs :
          /\ pair'[s] \in PairsOf!PairState
          /\ pair'[s].timestamp = "now" => pair'[s].near
          /\ pair'[s] = laid[s] \/ (laid[s].near /\ pair'[s].near) \/ pair'[s] = PairsOf!Blank
          /\ PairsOf!Cardinality(settlers(s)) # 0 /\ pair'[s] # PairsOf!Blank => laid[s].near /\ pair'[s].near
    <2> SUFFICES ASSUME NEW s \in PairsOf!Pairs
                 PROVE  /\ pair'[s] \in PairsOf!PairState
                        /\ pair'[s].timestamp = "now" => pair'[s].near
                        /\ pair'[s] = laid[s] \/ (laid[s].near /\ pair'[s].near) \/ pair'[s] = PairsOf!Blank
                        /\ PairsOf!Cardinality(settlers(s)) # 0 /\ pair'[s] # PairsOf!Blank =>
                              laid[s].near /\ pair'[s].near
      OBVIOUS
    <2> PICK t : t = laid[s]
      OBVIOUS
    <2> PICK once : once = PairsOf!Resolve(t, cool)
      OBVIOUS
    <2> PICK twice : twice = PairsOf!Resolve(once, cool)
      OBVIOUS
    <2>1. t \in PairsOf!PairState /\ (t.timestamp = "now" => t.near)
      BY <1>1
    <2>2. /\ once \in PairsOf!PairState
          /\ t.near => once.near
          /\ ~t.near => once = PairsOf!Blank
          /\ once.timestamp = "now" => once.near
      BY <2>1, ResolveState, PairSettled
    <2>3. /\ twice \in PairsOf!PairState
          /\ once.near => twice.near
          /\ ~once.near => twice = PairsOf!Blank
          /\ twice.timestamp = "now" => twice.near
      BY <2>2, ResolveState, PairSettled
    <2>4. ~PairsOf!Blank.near
      BY DEF PairsOf!Blank
    <2>5. pair'[s] = IF PairsOf!Cardinality(settlers(s)) = 0 THEN t
                     ELSE IF PairsOf!Cardinality(settlers(s)) = 1 THEN once ELSE twice
      BY <1>2
    <2> HIDE DEF laid, settlers
    <2> QED
      BY <2>1, <2>2, <2>3, <2>4, <2>5
  <1>4. /\ pairsListed' = pairsListed
        /\ bits' = [p \in PairPlates |-> IF p \in pairsListed THEN {q \in marks[p] : laid[{p, q}].near}
                                     ELSE marks[p]]
        /\ met' = (IF tick THEN {} ELSE met) \cup {s \in PairsOf!Pairs : s \subseteq P}
        /\ P \subseteq pairsListed /\ pairsFresh' = {}
        /\ theirs' = theirs \cup {s \in PairsOf!Pairs : pair[s] = PairsOf!Blank}
        /\ heirs' = {s \in heirs : tick => s \subseteq P}
    BY DEF PairsOf!Frame
  <1>5. \A p \in PairPlates : marks[p] = bits[p] \cup (IF p \in P THEN P \ {p} ELSE {})
    BY DEF PairsOf!Marked
  <1> HIDE DEF laid, marks
  <1>6. PairsOf!TypeOK'
    <2>1. pair' \in [PairsOf!Pairs -> PairsOf!PairState]
      BY <1>2, <1>3
    <2>2. bits' \in [PairPlates -> SUBSET PairPlates]
      BY <1>0, <1>4, <1>5 DEF PairsOf!TypeOK
    <2> QED
      BY <1>0, <1>4, <2>1, <2>2 DEF PairsOf!TypeOK
  <1>7. Stamped'
    BY <1>3 DEF Stamped
  <1>8. Remembered'
    <2> SUFFICES ASSUME NEW a \in PairPlates, NEW b \in PairPlates, a # b, pair'[{a, b}] # PairsOf!Blank
                 PROVE  /\ b \in bits'[a] /\ a \in bits'[b]
                        /\ a \in pairsListed \/ b \in pairsListed => pair'[{a, b}].near
                        /\ a \in pairsListed /\ b \in pairsListed =>
                              {a, b} \in met' /\ {a, b} \in theirs' \cup heirs'
      BY <1>4 DEF Remembered
    <2> PICK s : s = {a, b}
      OBVIOUS
    <2>1. s \in PairsOf!Pairs /\ IsFiniteSet(s) /\ s = {b, a}
      BY PairOf
    \* It was a memory before, or the layout has made it.
    <2>2. s \subseteq P \/ pair[s] # PairsOf!Blank
      <3>1. ~PairsOf!Blank.near
        BY DEF PairsOf!Blank
      <3> QED
        BY <1>1, <1>3, <2>1, <3>1
    <2>3. b \in marks[a] /\ a \in marks[b]
      BY <1>0, <1>5, <2>2 DEF Remembered
    \* A listed plate of the two settles it.
    <2>4. a \in pairsListed \/ b \in pairsListed => laid[s].near /\ pair'[s].near
      <3> SUFFICES ASSUME a \in pairsListed \/ b \in pairsListed PROVE laid[s].near /\ pair'[s].near
        OBVIOUS
      <3>1. settlers(s) # {} /\ settlers(s) \subseteq s
        BY <2>3
      <3>2. PairsOf!Cardinality(settlers(s)) # 0
        BY <2>1, <3>1, PairsCount, FS_Subset, FS_EmptySet
      <3> QED
        BY <1>3, <2>1, <3>2
    <2>5. b \in bits'[a] /\ a \in bits'[b]
      BY <1>4, <2>1, <2>3, <2>4
    <2>6. a \in pairsListed /\ b \in pairsListed => {a, b} \in met' /\ {a, b} \in theirs' \cup heirs'
      <3> SUFFICES ASSUME a \in pairsListed, b \in pairsListed
                   PROVE  s \in met' /\ s \in theirs' \cup heirs'
        OBVIOUS
      <3>1. s \subseteq P \/ (~tick /\ pair[s].near)
        BY <1>1, <2>1, <2>4
      <3>2. ~(s \subseteq P) => s \in met
        BY <1>0, <2>2 DEF Remembered
      <3>3. pair[s] # PairsOf!Blank => s \in theirs \cup heirs
        BY <1>0 DEF Remembered
      <3> QED
        BY <1>4, <2>1, <3>1, <3>2, <3>3
    <2> QED
      BY <2>4, <2>5, <2>6
  <1> QED
    BY <1>6, <1>7, <1>8 DEF PairsInv

LEMMA PairsKeep == Sizes /\ PairsInv /\ [PairsOf!Next]_pairsVars => PairsInv'
  <1> SUFFICES ASSUME Sizes, PairsInv, [PairsOf!Next]_pairsVars PROVE PairsInv'
    OBVIOUS
  <1>1. CASE \E p \in PairPlates : PairsOf!Show(p) \/ PairsOf!Hide(p) \/ PairsOf!Retarget(p)
    BY <1>1, ShowKeeps, HideKeeps, RetargetKeeps
  <1>2. CASE PairsOf!ClearAll
    BY <1>2, ClearAllKeeps
  <1>3. CASE \E P \in SUBSET pairsListed, tick \in BOOLEAN, c \in [PairsOf!Pairs -> PairsOf!Contacts],
                cool \in Cools : PairsOf!Frame(P, tick, c, cool)
    BY <1>3, PairFrameKeeps
  <1>4. CASE UNCHANGED pairsVars
    BY <1>4 DEF pairsVars, PairsInv, PairsOf!TypeOK, Stamped, Remembered
  <1> QED
    BY <1>1, <1>2, <1>3, <1>4 DEF PairsOf!Next

\* Listed plates remember only whom they were laid out with at this instant, and
\* both can settle it, for any plates, spans and rates.  What they remember is
\* of their present units, a hidden plate coming back with nothing; except that
\* a plate given another unit while it is listed inherits the last one's, as
\* long as it is laid out with the other plate at every instant
\* (NamePlates.cpp:334-409, 517-557, 800-816).
THEOREM MemoriesAreTheirs == Spec => []MemoryIsTheirs
<1>1. Sizes
    BY FeaturesAssumption DEF Sizes
<1>2. Init => PairsInv
    BY <1>1, PairsInit DEF Init
<1>3. PairsInv /\ [Next]_vars => PairsInv'
    BY <1>1, PairsOnly, PairsKeep
<1>4. PairsInv => MemoryIsTheirs
    BY DEF PairsInv, PairsOf!TypeOK, Remembered, PairsOf!MemoryIsTheirs, MemoryIsTheirs
<1> QED
    BY <1>2, <1>3, <1>4, PTL DEF Spec

-------------------------------------------------------------------------------
\* The highlight: while the mode is on, the hook is attached.

Lighting ==
    /\ highlightMode \in Highlight!Modes /\ highlightAttached \in Nat
    /\ highlightMode # Highlight!HL_DISABLED => highlightAttached > 0
    /\ highlightPresent \subseteq Things
    /\ LitAsAsked

\* What the hook lights is what the mode names.
LEMMA HookedIsShown ==
    ASSUME NEW m \in Highlight!Modes, m # Highlight!HL_DISABLED, NEW o \in Things
    PROVE  Highlight!Hooked(m, o) <=> Highlight!Shown(m, o)
<1>1. o \in Highlight!Object
    BY FeaturesAssumption
<1>2. o.type \in {"chest", "node", "questgiver", "other"}
    BY <1>1 DEF Highlight!Object
<1>3. CASE m = Highlight!HL_ALWAYS
    BY <1>2, <1>3 DEF Highlight!Hooked, Highlight!Own, Highlight!Wanted, Highlight!Shown,
        Highlight!HL_ALWAYS, Highlight!HL_TRACKED
<1>4. CASE m = Highlight!HL_TRACKED
    BY <1>2, <1>4 DEF Highlight!Hooked, Highlight!Own, Highlight!Wanted, Highlight!Shown,
        Highlight!HL_ALWAYS, Highlight!HL_TRACKED
<1> QED
    BY <1>3, <1>4 DEF Highlight!Modes

\* Every step keeps what the hook lights and what the mode names the same.
LEMMA HighlightKeeps == Lighting /\ [Highlight!Next]_highlightVars => Lighting'
<1> SUFFICES ASSUME Lighting, [Highlight!Next]_highlightVars PROVE Lighting'
    OBVIOUS
<1>1. ASSUME NEW v \in -1..3, Highlight!Handler(v) PROVE Lighting'
  <2>1. highlightMode' \in Highlight!Modes
    BY <1>1 DEF Highlight!Handler, Highlight!Clamped, Highlight!Modes,
        Highlight!HL_DISABLED, Highlight!HL_ALWAYS, Highlight!HL_TRACKED
  <2>2. highlightAttached' \in Nat
    BY <1>1 DEF Lighting, Highlight!Handler, Highlight!Attach, Highlight!Detach
  <2>3. highlightMode' # Highlight!HL_DISABLED => highlightAttached' > 0
    BY <1>1 DEF Lighting, Highlight!Handler, Highlight!Attach
  <2>4. highlightPresent' = highlightPresent
    BY <1>1 DEF Highlight!Handler
  <2>5. ASSUME highlightMode' # Highlight!HL_DISABLED, NEW o \in highlightPresent
        PROVE  o \in lit' <=> Highlight!Shown(highlightMode', o)
    <3>1. o \in lit' <=> Highlight!Hooked(highlightMode', o)
      BY <1>1, <2>5 DEF Highlight!Handler
    <3> QED
      BY <3>1, <2>1, <2>5, HookedIsShown DEF Lighting
  <2> QED
    BY <2>1, <2>2, <2>3, <2>4, <2>5 DEF Lighting, LitAsAsked, Highlight!LitAsAsked
<1>2. ASSUME NEW o \in Things, Highlight!Check(o) PROVE Lighting'
  <2>1. /\ highlightMode' = highlightMode /\ highlightAttached' = highlightAttached
        /\ highlightPresent' = highlightPresent \cup {o}
    BY <1>2 DEF Highlight!Check
  <2>2. ASSUME highlightMode # Highlight!HL_DISABLED, NEW q \in highlightPresent'
        PROVE  q \in lit' <=> Highlight!Shown(highlightMode, q)
    <3>1. CASE q = o
      BY <1>2, <2>2, <3>1, HookedIsShown DEF Lighting, Highlight!Check, Highlight!Checked
    <3>2. CASE q # o
      <4>1. q \in lit' <=> q \in lit
        BY <1>2, <3>2 DEF Highlight!Check
      <4> QED
        BY <2>1, <2>2, <3>2, <4>1 DEF Lighting, LitAsAsked, Highlight!LitAsAsked
    <3> QED
      BY <3>1, <3>2
  <2> QED
    BY <2>1, <2>2 DEF Lighting, LitAsAsked, Highlight!LitAsAsked
<1>3. ASSUME NEW o \in Things, Highlight!Vanish(o) PROVE Lighting'
    BY <1>3 DEF Lighting, LitAsAsked, Highlight!LitAsAsked, Highlight!Vanish
<1>4. CASE UNCHANGED highlightVars
    BY <1>4 DEF Lighting, LitAsAsked, Highlight!LitAsAsked, highlightVars
<1> QED
    BY <1>1, <1>2, <1>3, <1>4 DEF Highlight!Next

LEMMA LightingInit == Highlight!Init => Lighting
    BY DEF Highlight!Init, Lighting, LitAsAsked, Highlight!LitAsAsked, Highlight!Modes,
        Highlight!HL_DISABLED

\* While the mode is on, exactly the objects it names are lit besides the
\* client's own, whatever objects there are and in whatever order they, the
\* modes and the client's own looks come (Misc.cpp:221-277).
THEOREM ModesLight == Spec => []LitAsAsked
<1>1. Init => Lighting
    BY LightingInit DEF Init
<1>2. Lighting /\ [Next]_vars => Lighting'
    BY HighlightOnly, HighlightKeeps
<1>3. Lighting => LitAsAsked
    BY DEF Lighting
<1> QED
    BY <1>1, <1>2, <1>3, PTL DEF Spec

-------------------------------------------------------------------------------
\* The interaction queue: what is requested is due.

Due == /\ DOMAIN interactionPresent \subseteq Targets
       /\ requested # NoTarget => due = requested
       /\ unasked = FALSE

\* Every step keeps due what is requested.
LEMMA InteractionKeeps == Due /\ [Interact!Next]_interactionVars => Due'
<1> SUFFICES ASSUME Due, [Interact!Next]_interactionVars PROVE Due'
    OBVIOUS
<1> USE DEF Due
<1>1. ASSUME NEW tried, Interact!QueueInteract(tried)
      PROVE  (requested # NoTarget => due = requested)' /\ unasked' = FALSE
    BY <1>1 DEF Interact!QueueInteract, Interact!queue
<1>2. CASE Interact!EnterWorld \/ Interact!LeaveWorld \/ Interact!LoadUI
    BY <1>2 DEF Interact!EnterWorld, Interact!LeaveWorld, Interact!LoadUI, Interact!queue,
        Interact!scene
<1>3. ASSUME NEW o \in Targets, Interact!Vanish(o) PROVE Due'
    BY <1>3 DEF Interact!Vanish, Interact!queue
<1>4. ASSUME NEW o \in Targets, NEW p \in Spots, Interact!Appear(o, p) PROVE Due'
    BY <1>4 DEF Interact!Appear, Interact!queue
<1>5. ASSUME NEW v \in 0..1, Interact!CVarHandler_interactionMode(v) PROVE Due'
    BY <1>5 DEF Interact!CVarHandler_interactionMode, Interact!queue, Interact!scene
<1>6. ASSUME NEW tried, Interact!Call(tried) PROVE Due'
    BY <1>1, <1>6 DEF Interact!Call, Interact!scene
<1>7. ASSUME NEW tried, NEW k, Interact!SlashInteract(tried, k) PROVE Due'
    BY <1>1, <1>7 DEF Interact!SlashInteract, Interact!scene
<1>8. CASE Interact!ProcessQueuedInteraction
  <2>1. interactionPresent' = interactionPresent
    BY <1>8 DEF Interact!ProcessQueuedInteraction, Interact!scene
  <2>2. CASE UNCHANGED Interact!queue
    BY <2>1, <2>2 DEF Interact!queue
  <2>3. CASE requested \in DOMAIN interactionPresent /\ Interact!Click(requested)
    BY <2>1, <2>3, FeaturesAssumption DEF Interact!Click
  <2>4. CASE requested' = NoTarget /\ UNCHANGED <<due, unasked>>
    BY <2>1, <2>4
  <2> QED
    BY <1>8, <2>2, <2>3, <2>4 DEF Interact!ProcessQueuedInteraction
<1>9. CASE Interact!BeginUpdate \/ Interact!TrackTerrain \/ Interact!ResetKeywordFlags
    BY <1>9 DEF Interact!BeginUpdate, Interact!TrackTerrain, Interact!ResetKeywordFlags,
        Interact!queue, Interact!scene
<1>10. ASSUME NEW k \in Interact!Keywords, Interact!Parse(k) PROVE Due'
    BY <1>10 DEF Interact!Parse, Interact!queue, Interact!scene
<1>11. CASE UNCHANGED interactionVars
    BY <1>11 DEF interactionVars
<1> QED
    BY <1>2, <1>3, <1>4, <1>5, <1>6, <1>7, <1>8, <1>9, <1>10, <1>11 DEF Interact!Next

\* One call leads to one click at most, on what the last successful call chose,
\* for any objects, places and loads of the UI (Misc.cpp:79-87, 111-180).
THEOREM ClicksAreAsked == Spec => []ClicksAsAsked
<1>1. Init => Due
    BY DEF Init, Interact!Init, Due
<1>2. Due /\ [Next]_vars => Due'
    BY InteractionOnly, InteractionKeeps
<1>3. Due => ClicksAsAsked
    BY DEF Due, ClicksAsAsked, Interact!ClicksAsAsked
<1> QED
    BY <1>1, <1>2, <1>3, PTL DEF Spec
-------------------------------------------------------------------------------
\* The patcher: a whole image that is written has every patch and the mark.

Executable == [size : 0..Patch!Full, laa : BOOLEAN, done : SUBSET Patch!Patches,
               lacks : SUBSET Patch!Patches, gone : BOOLEAN]
Whole(img) == img.size = Patch!Full => img.done = Patch!Patches /\ img.laa = TRUE
Untouched(img) == img.done = {} /\ img.laa = FALSE

Patching ==
    /\ exe \in [1..Names -> Executable] /\ image \in Executable
    /\ path \in 0..Names /\ at \in {"idle", "apply", "write", "copy"}
    /\ at # "idle" => path # 0
    /\ at = "write" => Whole(image)
    /\ \A n \in 1..Names : Whole(exe[n]) \/ Untouched(exe[n])

\* There is a patch, and all of them lie within a whole executable.
LEMMA PatchesThere == /\ Patch!Full \in Nat \ {0} /\ Patch!Patches # {}
                      /\ \A p \in Patch!Patches : Place[p] \in 1..Patch!Full
<1>1. ASSUME NEW S, Place \in Seq(S)
      PROVE  Len(Place) \in Nat /\ \A p \in 1..Len(Place) : Place[p] \in S
    BY <1>1
<1>2. Len(Place) \in Nat /\ \A p \in 1..Len(Place) : Place[p] \in 1..Patch!Full
    BY <1>1, FeaturesAssumption
<1>3. Len(Place) # 0
    BY FeaturesAssumption
<1>4. 1 \in 1..Len(Place)
    BY <1>2, <1>3
<1> QED
    BY <1>2, <1>4 DEF Patch!Full, Patch!Patches

\* What is written of a whole image is whole, or not all there.
LEMMA CutIsWhole ==
    ASSUME NEW img \in Executable, Whole(img), NEW s \in 0..img.size
    PROVE  Patch!Cut(img, s) \in Executable /\ Whole(Patch!Cut(img, s))
<1> DEFINE cut == Patch!Cut(img, s)
<1>1. /\ cut.size = s /\ cut.laa = (img.laa /\ s >= 1)
      /\ cut.done = {p \in img.done : Place[p] <= s}
      /\ cut.lacks = img.lacks /\ cut.gone = img.gone
    BY DEF Patch!Cut, Executable
<1>2. s \in 0..Patch!Full /\ img.size \in 0..Patch!Full
    BY PatchesThere DEF Executable
<1>3. cut \in Executable
    BY <1>2 DEF Patch!Cut, Executable
<1>4. ASSUME s = Patch!Full PROVE cut.done = Patch!Patches /\ cut.laa = TRUE
  <2>1. img.size = Patch!Full
    BY <1>2, <1>4, PatchesThere
  <2>2. img.done = Patch!Patches /\ img.laa = TRUE
    BY <2>1 DEF Whole
  <2>3. cut.done = Patch!Patches
    BY <1>1, <1>4, <2>2, PatchesThere
  <2>4. s >= 1
    BY <1>4, PatchesThere
  <2> QED
    BY <1>1, <2>2, <2>3, <2>4
<1> QED
    BY <1>1, <1>3, <1>4 DEF Whole

\* The file the run writes is cut from the image, the others stay.
LEMMA WrittenKeeps ==
    ASSUME Patching, at = "write", NEW s \in 0..image.size,
           exe' = [exe EXCEPT ![path] = Patch!Cut(image, s)]
    PROVE  /\ exe' \in [1..Names -> Executable]
           /\ \A n \in 1..Names : Whole(exe'[n]) \/ Untouched(exe'[n])
<1>1. Patch!Cut(image, s) \in Executable /\ Whole(Patch!Cut(image, s))
    BY CutIsWhole DEF Patching
<1>2. \A n \in 1..Names : exe'[n] = IF n = path THEN Patch!Cut(image, s) ELSE exe[n]
    BY DEF Patching
<1>3. exe' \in [1..Names -> Executable]
    BY <1>1 DEF Patching
<1>4. \A n \in 1..Names : Whole(exe'[n]) \/ Untouched(exe'[n])
    BY <1>1, <1>2 DEF Patching
<1> QED
    BY <1>3, <1>4

\* Every step, a kill among them, leaves each file whole or untouched.
LEMMA PatcherKeeps == Patching /\ [Patch!Next]_patcherVars => Patching'
<1> SUFFICES ASSUME Patching, [Patch!Next]_patcherVars PROVE Patching'
    OBVIOUS
<1>1. CASE Patch!Start
  <2>1. PICK n \in 0..Names : Patch!Run(n)
    BY <1>1 DEF Patch!Start
  <2>2. /\ path' = n /\ exe' = exe /\ image' = image
        /\ at' = IF n = 0 THEN at ELSE "apply"
    BY <2>1 DEF Patch!Run
  <2> QED
    BY <1>1, <2>2 DEF Patching, Patch!Start, Whole, Untouched
<1>2. CASE Patch!ApplyPatches
  <2> DEFINE read == exe[path]
             within == {p \in Patch!Patches : Place[p] <= read.size}
             next == [read EXCEPT !.laa = TRUE, !.done = @ \cup within]
  <2>1. UNCHANGED <<exe, dll, path>> /\ at = "apply"
    BY <1>2 DEF Patch!ApplyPatches
  <2>2. CASE Patch!Fail /\ UNCHANGED image
    BY <2>1, <2>2 DEF Patching, Patch!Fail, Whole, Untouched
  <2>3. CASE image' = next /\ at' = "write"
    <3>1. path \in 1..Names
      BY <2>1 DEF Patching
    <3>2. read \in Executable
      BY <3>1 DEF Patching
    <3>3. next \in Executable /\ next.size = read.size /\ next.laa = TRUE
          /\ next.done = read.done \cup within
      BY <3>2 DEF Executable
    <3>4. ASSUME next.size = Patch!Full PROVE next.done = Patch!Patches
      <4>1. within = Patch!Patches
        BY <3>3, <3>4, PatchesThere
      <4>2. read.done \subseteq Patch!Patches
        BY <3>2 DEF Executable
      <4> QED
        BY <3>3, <4>1, <4>2
    <3>5. Whole(next)
      BY <3>3, <3>4 DEF Whole
    <3>6. image' \in Executable /\ Whole(image')
      BY <2>3, <3>3, <3>5
    <3> QED
      BY <2>1, <2>3, <3>1, <3>6 DEF Patching, Whole, Untouched
  <2> QED
    BY <1>2, <2>2, <2>3 DEF Patch!ApplyPatches
<1>3. CASE Patch!WriteFile
  <2>1. UNCHANGED <<dll, path, image>> /\ at = "write"
    BY <1>3 DEF Patch!WriteFile
  <2>2. CASE Patch!Fail /\ UNCHANGED exe
    BY <2>1, <2>2 DEF Patching, Patch!Fail, Whole, Untouched
  <2>3. ASSUME NEW s \in 0..image.size, exe' = [exe EXCEPT ![path] = Patch!Cut(image, s)],
               at' = "copy"
        PROVE  Patching'
    BY <2>1, <2>3, WrittenKeeps DEF Patching, Whole, Untouched
  <2> QED
    BY <1>3, <2>2, <2>3 DEF Patch!WriteFile
<1>4. CASE Patch!CopyLibrary
    BY <1>4 DEF Patching, Patch!CopyLibrary, Whole, Untouched
<1>5. CASE Patch!Kill
  <2>1. UNCHANGED <<dll, path, image>> /\ at' = "idle"
    BY <1>5 DEF Patch!Kill
  <2>2. CASE UNCHANGED exe
    BY <2>1, <2>2 DEF Patching, Whole, Untouched
  <2>3. ASSUME at = "write", NEW s \in 0..image.size,
               exe' = [exe EXCEPT ![path] = Patch!Cut(image, s)]
        PROVE  Patching'
    BY <2>1, <2>3, WrittenKeeps DEF Patching, Whole, Untouched
  <2> QED
    BY <1>5, <2>2, <2>3 DEF Patch!Kill
<1>6. CASE UNCHANGED patcherVars
    BY <1>6 DEF Patching, patcherVars, Whole, Untouched
<1> QED
    BY <1>1, <1>2, <1>3, <1>4, <1>5, <1>6 DEF Patch!Next

LEMMA PatchingInit == Patch!Init => Patching
<1> SUFFICES ASSUME Patch!Init PROVE Patching
  OBVIOUS
<1>1. /\ exe \in [1..Names -> {Patch!None} \cup {Patch!Client(l) : l \in SUBSET Patch!Patches}]
      /\ at = "idle" /\ path = 0 /\ image = Patch!None
  BY DEF Patch!Init
<1>2. Patch!None \in Executable /\ Untouched(Patch!None)
  BY PatchesThere DEF Patch!None, Executable, Untouched
<1>3. ASSUME NEW l \in SUBSET Patch!Patches
      PROVE  Patch!Client(l) \in Executable /\ Untouched(Patch!Client(l))
  BY PatchesThere DEF Patch!Client, Executable, Untouched
<1>4. \A n \in 1..Names : exe[n] \in Executable /\ Untouched(exe[n])
  BY <1>1, <1>2, <1>3
<1>5. exe \in [1..Names -> Executable]
  BY <1>1, <1>4
<1>6. path \in 0..Names
  BY <1>1, FeaturesAssumption
<1> QED
  BY <1>1, <1>2, <1>4, <1>5, <1>6 DEF Patching

\* The patcher leaves no whole executable with some of its patches, wherever
\* they lie, whichever names there are and whatever stops it
\* (AwesomeWotlkPatch/Main.cpp:19-40).
THEOREM PatchesAreAll == Spec => []AllOrNothing
<1>1. Init => Patching
    BY PatchingInit DEF Init
<1>2. Patching /\ [Next]_vars => Patching'
    BY PatcherOnly, PatcherKeeps
<1>3. Patching => AllOrNothing
  <2> SUFFICES ASSUME Patching, NEW n \in 1..Names, exe[n].size = Patch!Full
               PROVE  /\ (exe[n].done = Patch!Patches) = exe[n].laa
                      /\ exe[n].done \in {{}, Patch!Patches}
    BY DEF AllOrNothing, Patch!AllOrNothing
  <2>1. CASE Untouched(exe[n])
    BY <2>1, PatchesThere DEF Untouched
  <2>2. CASE Whole(exe[n])
    BY <2>2 DEF Whole
  <2> QED
    BY <2>1, <2>2 DEF Patching
<1> QED
    BY <1>1, <1>2, <1>3, PTL DEF Spec

-------------------------------------------------------------------------------
\* The font engine: besides the two halves of HandlesStayHome, no library means
\* no faces, and before the redirection there are no fonts.

NoFacesWithoutLibrary == library = "none" => DOMAIN faces = {}
NoFontsBeforeRedirection == redirected = FALSE => DOMAIN fonts = {}

EngineInv ==
    /\ redirected \in BOOLEAN
    /\ Engine!HandlesStayHome
    /\ NoFacesWithoutLibrary
    /\ NoFontsBeforeRedirection

\* What Engine!Without does to a table.
LEMMA WithoutTable ==
    ASSUME NEW f, NEW k
    PROVE  /\ DOMAIN Engine!Without(f, k) = DOMAIN f \ {k}
           /\ \A i \in DOMAIN Engine!Without(f, k) : Engine!Without(f, k)[i] = f[i]
BY DEF Engine!Without

\* The initial state has the invariant: nothing is open yet.
LEMMA EngineInit == Engine!Init => EngineInv
<1>1. DOMAIN <<>> = {}
    BY SMT
<1> QED
    BY <1>1 DEF Engine!Init, EngineInv, Engine!HandlesStayHome, Engine!FacesStayHome,
        Engine!FontsAreLive, NoFacesWithoutLibrary, NoFontsBeforeRedirection

\* Opening a library: there are no faces, hence no fonts, whose maker or
\* msdfgen library could differ from the new ones.
LEMMA OpenKeeps == EngineInv /\ Engine!FreeType_Init => EngineInv'
<1> SUFFICES ASSUME EngineInv, Engine!FreeType_Init PROVE EngineInv'
    OBVIOUS
<1>1. DOMAIN faces = {} /\ DOMAIN fonts = {}
    BY DEF EngineInv, Engine!FreeType_Init, NoFacesWithoutLibrary,
        Engine!HandlesStayHome, Engine!FontsAreLive
<1>2. DOMAIN faces' = {} /\ DOMAIN fonts' = {}
    BY <1>1 DEF Engine!FreeType_Init
<1>3. redirected' \in BOOLEAN
    BY DEF EngineInv, Engine!FreeType_Init, Engine!FreeType_InitHk, Engine!latched
<1> QED
    BY <1>2, <1>3 DEF EngineInv, Engine!HandlesStayHome, Engine!FacesStayHome,
        Engine!FontsAreLive, NoFacesWithoutLibrary, NoFontsBeforeRedirection

\* A new face is made by the FreeType the functions belong to; its font, if
\* it gets one, is of the open msdfgen library.
LEMMA FaceKeeps ==
    ASSUME NEW f, NEW file, EngineInv, Engine!NewMemoryFace(f, file)
    PROVE  EngineInv'
<1> USE DEF Engine!NewMemoryFace, Engine!settings, Engine!latched, Engine!libraries
<1>1. f \notin DOMAIN fonts
    BY DEF EngineInv, Engine!HandlesStayHome, Engine!FontsAreLive
<1>2. /\ DOMAIN faces' = DOMAIN faces \cup {f}
      /\ \A i \in DOMAIN faces' :
            faces'[i] = IF i = f
                        THEN [maker |-> IF redirected THEN "real" ELSE "client",
                              file |-> file]
                        ELSE faces[i]
    BY DEF Engine!With
<1>3. Engine!FacesStayHome'
    BY <1>2 DEF Engine!FacesStayHome, EngineInv, Engine!HandlesStayHome
<1>4. Engine!FontsAreLive'
  <2>1. CASE fonts' = fonts
    BY <1>1, <1>2, <2>1 DEF Engine!FontsAreLive, EngineInv, Engine!HandlesStayHome
  <2>2. CASE fonts' = Engine!With(fonts, f, [file |-> file, msdf |-> msdf])
    <3>1. /\ DOMAIN fonts' = DOMAIN fonts \cup {f}
          /\ \A i \in DOMAIN fonts' : fonts'[i] = IF i = f THEN [file |-> file, msdf |-> msdf]
                                                  ELSE fonts[i]
        BY <2>2 DEF Engine!With
    <3> QED
        BY <1>1, <1>2, <3>1 DEF Engine!FontsAreLive, EngineInv, Engine!HandlesStayHome
  <2> QED
    BY <2>1, <2>2 DEF Engine!Register
<1>5. NoFacesWithoutLibrary'
    BY DEF NoFacesWithoutLibrary
<1>6. NoFontsBeforeRedirection'
    BY DEF NoFontsBeforeRedirection, EngineInv
<1> QED
    BY <1>3, <1>4, <1>5, <1>6 DEF EngineInv, Engine!HandlesStayHome

\* A closed face takes its font with it.
LEMMA CloseFaceKeeps ==
    ASSUME NEW f, EngineInv, Engine!Done_Face(f)
    PROVE  EngineInv'
<1> USE DEF Engine!Done_Face, Engine!settings, Engine!latched, Engine!libraries
<1>1. /\ DOMAIN faces' = DOMAIN faces \ {f}
      /\ \A i \in DOMAIN faces' : faces'[i] = faces[i]
    BY WithoutTable
<1>2. /\ DOMAIN fonts' = DOMAIN fonts \ {f}
      /\ \A i \in DOMAIN fonts' : fonts'[i] = fonts[i]
  <2>1. CASE redirected
    BY <2>1, WithoutTable
  <2>2. CASE ~redirected
    <3>1. DOMAIN fonts = {}
        BY <2>2 DEF EngineInv, NoFontsBeforeRedirection
    <3> QED
        BY <2>2, <3>1
  <2> QED
    BY <2>1, <2>2
<1>3. Engine!FacesStayHome'
    BY <1>1 DEF Engine!FacesStayHome, EngineInv, Engine!HandlesStayHome
<1>4. Engine!FontsAreLive'
    BY <1>1, <1>2 DEF Engine!FontsAreLive, EngineInv, Engine!HandlesStayHome
<1>5. NoFacesWithoutLibrary' /\ NoFontsBeforeRedirection'
    BY <1>1, <1>2 DEF NoFacesWithoutLibrary, NoFontsBeforeRedirection, EngineInv
<1> QED
    BY <1>3, <1>4, <1>5 DEF EngineInv, Engine!HandlesStayHome

\* Closing the library leaves no face and no font, whatever was open.
LEMMA CloseKeeps == EngineInv /\ Engine!Done_FreeType => EngineInv'
<1> SUFFICES ASSUME EngineInv, Engine!Done_FreeType PROVE EngineInv'
    OBVIOUS
<1>1. DOMAIN faces' = {} /\ redirected' = redirected
    BY DEF Engine!Done_FreeType, Engine!latched
<1>2. DOMAIN fonts' = {}
    BY DEF Engine!Done_FreeType, EngineInv, NoFontsBeforeRedirection
<1> QED
    BY <1>1, <1>2 DEF EngineInv, Engine!HandlesStayHome, Engine!FacesStayHome,
        Engine!FontsAreLive, NoFacesWithoutLibrary, NoFontsBeforeRedirection

\* Every step keeps the invariant; a change of mode touches nothing in it.
LEMMA EngineKeeps == EngineInv /\ [Engine!Next]_engineVars => EngineInv'
<1> SUFFICES ASSUME EngineInv, [Engine!Next]_engineVars PROVE EngineInv'
    OBVIOUS
<1>1. ASSUME NEW v \in 0..2, Engine!CVarHandler_MSDFMode(v) PROVE EngineInv'
    BY <1>1 DEF Engine!CVarHandler_MSDFMode, Engine!latched, Engine!libraries,
        EngineInv, Engine!HandlesStayHome, Engine!FacesStayHome, Engine!FontsAreLive,
        NoFacesWithoutLibrary, NoFontsBeforeRedirection
<1>2. CASE Engine!FreeType_Init
    BY <1>2, OpenKeeps
<1>3. CASE Engine!Done_FreeType
    BY <1>3, CloseKeeps
<1>4. ASSUME NEW f \in Faces, Engine!Done_Face(f) PROVE EngineInv'
    BY <1>4, CloseFaceKeeps
<1>5. ASSUME NEW f \in Faces, NEW file \in FontFiles, Engine!NewMemoryFace(f, file)
      PROVE  EngineInv'
    BY <1>5, FaceKeeps
<1>6. CASE UNCHANGED engineVars
    BY <1>6 DEF engineVars, EngineInv, Engine!HandlesStayHome, Engine!FacesStayHome,
        Engine!FontsAreLive, NoFacesWithoutLibrary, NoFontsBeforeRedirection
<1> QED
    BY <1>1, <1>2, <1>3, <1>4, <1>5, <1>6 DEF Engine!Next

\* No FreeType or msdfgen library is handed what another one made, for any
\* faces, fonts and modes (MSDF.cpp:434-498, 554-562, MSDFFont.cpp:29-57).
THEOREM HandlesAtHome == Spec => []HandlesStayHome
<1>1. Init => EngineInv
    BY EngineInit DEF Init
<1>2. EngineInv /\ [Next]_vars => EngineInv'
    BY EngineOnly, EngineKeeps
<1>3. EngineInv => HandlesStayHome
    BY DEF EngineInv, HandlesStayHome
<1> QED
    BY <1>1, <1>2, <1>3, PTL DEF Spec

-------------------------------------------------------------------------------
\* The Direct3D resources: the account of references.  A pointer that is not
\* null is one, a surface pointer another, and between release and restore
\* neither of a registered address is set.

\* 1 for a member, 0 for another value.
One(p, S) == IF p \in S THEN 1 ELSE 0

Accounted == /\ DOMAIN alive = Pointers
             /\ \A p \in Pointers : alive[p] = One(p, held) + One(p, surfaced)

ResourcesInv ==
    /\ Accounted
    /\ held \subseteq Pointers /\ surfaced \subseteq held
    /\ DOMAIN managed \subseteq Pointers
    /\ released \in BOOLEAN
    /\ released => DOMAIN managed \cap held = {}

\* The numbers of references the operators of the module count.
LEMMA CountOne == \A p, S : Resources!Cardinality({p} \cap S) = One(p, S)
<1> TAKE p, S
<1>. Resources!Cardinality({p} \cap S) = Cardinality({p} \cap S)
    BY DEF Resources!Cardinality, Cardinality
<1>1. CASE p \in S
  <2>1. {p} \cap S = {p}
    BY <1>1
  <2>2. Cardinality({p}) = 1
    BY FS_Singleton
  <2> QED
    BY <1>1, <2>1, <2>2 DEF One
<1>2. CASE p \notin S
  <2>1. {p} \cap S = {}
    BY <1>2
  <2> QED
    BY <1>2, <2>1, FS_EmptySet DEF One
<1> QED
    BY <1>1, <1>2

\* The surface, if there is one, is the second reference of a creation.
LEMMA TakenIs ==
    \A p, kind, locks :
        Resources!Taken(p, kind, locks) = 1 + One(p, Resources!Surfaced(p, kind, locks))
<1> TAKE p, kind, locks
<1>1. Resources!Surfaced(p, kind, locks) = {p} \cap Resources!Surfaced(p, kind, locks)
    BY DEF Resources!Surfaced
<1>2. Resources!Cardinality(Resources!Surfaced(p, kind, locks))
        = One(p, Resources!Surfaced(p, kind, locks))
    BY <1>1, CountOne
<1> QED
    BY <1>2 DEF Resources!Taken

\* A texture's surface belongs to its own address.
LEMMA SurfacedIs ==
    \A p, kind, locks : Resources!Surfaced(p, kind, locks) \subseteq {p}
BY DEF Resources!Surfaced

\* Before the first d3dDevice there is nothing to account for.
LEMMA ResourcesInit == Resources!Init => ResourcesInv
<1> SUFFICES ASSUME Resources!Init PROVE ResourcesInv
    OBVIOUS
<1>1. DOMAIN managed = {}
  <2>1. DOMAIN <<>> = {}
    BY SMT
  <2> QED
    BY <2>1, Zenon DEF Resources!Init
<1>2. Accounted
  <2>1. DOMAIN alive = Pointers /\ \A p \in Pointers : alive[p] = 0
    BY DEF Resources!Init
  <2>2. \A p \in Pointers : One(p, held) = 0 /\ One(p, surfaced) = 0
    BY DEF Resources!Init, One
  <2> QED
    BY <2>1, <2>2 DEF Accounted
<1> QED
    BY <1>1, <1>2 DEF Resources!Init, ResourcesInv

\* A caller's creation: the references taken are those of the new pointers.
LEMMA CreateKeeps ==
    ASSUME NEW p \in Pointers, NEW kind, NEW locks, ResourcesInv,
           Resources!Create(p, kind, locks)
    PROVE  ResourcesInv'
<1> DEFINE S == Resources!Surfaced(p, kind, locks)
<1>1. S \subseteq {p} /\ Resources!Taken(p, kind, locks) = 1 + One(p, S)
    BY SurfacedIs, TakenIs
<1>2. p \notin held /\ p \notin surfaced
    BY DEF Resources!Create, ResourcesInv
<1>3. /\ held' = held \cup {p} /\ surfaced' = surfaced \cup S
      /\ alive' = [alive EXCEPT ![p] = @ + Resources!Taken(p, kind, locks)]
      /\ released = FALSE /\ released' = FALSE
    BY DEF Resources!Create, ResourcesInv
<1>4. Accounted'
  <2>1. DOMAIN alive' = Pointers
    BY <1>3 DEF ResourcesInv, Accounted
  <2>2. ASSUME NEW q \in Pointers
        PROVE  alive'[q] = One(q, held') + One(q, surfaced')
    <3> HIDE DEF S
    <3>1. alive[q] = One(q, held) + One(q, surfaced)
        BY DEF ResourcesInv, Accounted
    <3>2. CASE q = p
        BY <1>1, <1>2, <1>3, <3>1, <3>2 DEF One, ResourcesInv, Accounted
    <3>3. CASE q # p
        BY <1>1, <1>3, <3>1, <3>3 DEF One, ResourcesInv, Accounted
    <3> QED
        BY <3>2, <3>3
  <2> QED
    BY <2>1, <2>2 DEF Accounted
<1>5. DOMAIN managed' \subseteq Pointers
    BY DEF Resources!Create, Resources!RegisterForCleanup, ResourcesInv
<1> HIDE DEF S
<1> QED
    BY <1>1, <1>3, <1>4, <1>5 DEF ResourcesInv

\* The release drops exactly the references of registered addresses.
LEMMA ReleaseKeeps == ResourcesInv /\ Resources!ReleaseD3dResources => ResourcesInv'
<1> SUFFICES ASSUME ResourcesInv, Resources!ReleaseD3dResources PROVE ResourcesInv'
    OBVIOUS
<1>1. /\ held' = held \ DOMAIN managed /\ surfaced' = surfaced \ DOMAIN managed
      /\ managed' = managed /\ released' = TRUE
    BY DEF Resources!ReleaseD3dResources, Resources!Cleanup
<1>2. alive' = [p \in Pointers |->
                  IF p \notin DOMAIN managed THEN alive[p]
                  ELSE alive[p] - One(p, held) - One(p, surfaced)]
  <2>1. \A p \in Pointers : /\ Resources!Cardinality({p} \cap held) = One(p, held)
                            /\ Resources!Cardinality({p} \cap surfaced) = One(p, surfaced)
    BY CountOne
  <2> QED
    BY <2>1 DEF Resources!ReleaseD3dResources, Resources!Cleanup
<1>3. Accounted'
    BY <1>1, <1>2 DEF Accounted, ResourcesInv, One
<1> QED
    BY <1>1, <1>3 DEF ResourcesInv

\* A restore takes references only for pointers that were null.
LEMMA RestoreKeeps ==
    ASSUME NEW done, NEW locks, ResourcesInv, Resources!Restore(done, locks)
    PROVE  ResourcesInv'
<1>1. managed' = managed /\ released' = FALSE
    BY DEF Resources!Restore
<1>2. CASE d3dDevice # "ok"
    BY <1>1, <1>2 DEF Resources!Restore, ResourcesInv, Accounted
<1>3. CASE d3dDevice = "ok"
  <2> DEFINE S(p) == Resources!Surfaced(p, managed[p], locks)
  <2>1. /\ done \subseteq Pointers /\ done \cap held = {} /\ done \cap surfaced = {}
        /\ held' = held \cup done
        /\ surfaced' = surfaced \cup UNION {S(p) : p \in done}
    BY <1>3 DEF Resources!Restore, Resources!Missing, ResourcesInv
  <2>2. \A p : S(p) \subseteq {p} /\ Resources!Taken(p, managed[p], locks) = 1 + One(p, S(p))
    BY SurfacedIs, TakenIs
  <2>3. alive' = [p \in Pointers |-> IF p \in done THEN alive[p] + 1 + One(p, S(p)) ELSE alive[p]]
    <3>1. alive' = [p \in Pointers |->
                      IF p \in done THEN alive[p] + Resources!Taken(p, managed[p], locks)
                      ELSE alive[p]]
        BY <1>3 DEF Resources!Restore
    <3>2. \A p \in Pointers : alive[p] \in Nat /\ One(p, S(p)) \in Nat
        BY DEF ResourcesInv, Accounted, One
    <3> HIDE DEF S
    <3>3. \A p \in Pointers :
            alive[p] + Resources!Taken(p, managed[p], locks) = alive[p] + 1 + One(p, S(p))
        BY <2>2, <3>2
    <3> QED
        BY <3>1, <3>3
  <2> HIDE DEF S
  <2>4. \A p \in Pointers : p \in surfaced' <=> (p \in surfaced \/ (p \in done /\ p \in S(p)))
    BY <2>1, <2>2
  <2>5. Accounted'
    <3>1. ASSUME NEW p \in Pointers
          PROVE  alive'[p] = One(p, held') + One(p, surfaced')
      <4>1. alive[p] = One(p, held) + One(p, surfaced)
        BY DEF ResourcesInv, Accounted
      <4>2. CASE p \in done
        BY <2>1, <2>3, <2>4, <4>1, <4>2 DEF One
      <4>3. CASE p \notin done
        BY <2>1, <2>3, <2>4, <4>1, <4>3 DEF One
      <4> QED
        BY <4>2, <4>3
    <3> QED
        BY <2>3, <3>1 DEF Accounted
  <2>6. held' \subseteq Pointers /\ surfaced' \subseteq held'
    BY <2>1, <2>2 DEF ResourcesInv
  <2> QED
    BY <1>1, <2>5, <2>6 DEF ResourcesInv
<1> QED
    BY <1>2, <1>3

\* Every step keeps the account; what happens to the d3dDevice changes none of it.
LEMMA ResourcesKeep == ResourcesInv /\ [Resources!Next]_d3dVars => ResourcesInv'
<1> SUFFICES ASSUME ResourcesInv, [Resources!Next]_d3dVars PROVE ResourcesInv'
    OBVIOUS
<1>1. ASSUME NEW p \in Pointers, NEW kind \in Resources!Kinds, NEW locks \in BOOLEAN,
             Resources!Create(p, kind, locks)
      PROVE  ResourcesInv'
    BY <1>1, CreateKeeps
<1>2. CASE \/ Resources!CreateDevice \/ Resources!DestroyDevice
           \/ Resources!LoseDevice \/ Resources!RegainDevice
           \/ UNCHANGED d3dVars
    BY <1>2 DEF Resources!CreateDevice, Resources!DestroyDevice, Resources!LoseDevice,
        Resources!RegainDevice, d3dVars, ResourcesInv, Accounted
<1>3. CASE Resources!ReleaseD3dResources
    BY <1>3, ReleaseKeeps
<1>4. ASSUME NEW done \in SUBSET Pointers, NEW locks \in BOOLEAN, Resources!Restore(done, locks)
      PROVE  ResourcesInv'
    BY <1>4, RestoreKeeps
<1> QED
    BY <1>1, <1>2, <1>3, <1>4 DEF Resources!Next

\* At a reset no reference to a registered resource or its surface is left, for
\* any set of pointers (D3D.cpp:51-62, 295-299).
THEOREM ResetFindsNothing == Spec => []NothingAliveAtReset
<1>1. Init => ResourcesInv
    BY ResourcesInit DEF Init
<1>2. ResourcesInv /\ [Next]_vars => ResourcesInv'
    BY ResourcesOnly, ResourcesKeep
<1>3. ResourcesInv => NothingAliveAtReset
    BY DEF ResourcesInv, Accounted, One, NothingAliveAtReset, Resources!NothingAliveAtReset
<1> QED
    BY <1>1, <1>2, <1>3, PTL DEF Spec

-------------------------------------------------------------------------------
\* The order of a frame.

LayoutTypes ==
    /\ layoutListed \in SUBSET LayoutPlates
    /\ y \in [LayoutPlates -> Heights] /\ offset \in [LayoutPlates -> Int]

LEMMA LayoutNumbers ==
    ASSUME LayoutTypes
    PROVE  /\ \A p \in LayoutPlates : /\ p \in Int /\ y[p] \in Int /\ offset[p] \in Int
                                      /\ Rank[p] \in Int /\ Layout!Limit(p) \in Int
                                      /\ \A e \in BOOLEAN : Layout!Least(p, e) \in Int
           /\ PlateHeight \in Nat
<1>1. \A p \in LayoutPlates : p \in Int /\ y[p] \in Int /\ offset[p] \in Int /\ Rank[p] \in Int
    BY FeaturesAssumption DEF LayoutTypes
<1>2. \A p \in LayoutPlates : Layout!Limit(p) \in Int
    BY <1>1, FeaturesAssumption DEF Layout!Limit
<1>3. \A p \in LayoutPlates, e \in BOOLEAN : Layout!Least(p, e) \in Int
    BY <1>1, FeaturesAssumption DEF Layout!Least, Layout!NoLimit
<1> QED
    BY <1>1, <1>2, <1>3, FeaturesAssumption

\* All listed plates, one behind the other.
InOrder(order) ==
    /\ order \in [1..Cardinality(layoutListed) -> layoutListed]
    /\ \A p \in layoutListed : \E i \in DOMAIN order : order[i] = p
    /\ \A i, j \in DOMAIN order : i < j => Layout!Before(order[i], order[j])

LEMMA OrderIs ==
    ASSUME LayoutTypes
    PROVE  /\ Cardinality(layoutListed) \in Nat /\ Len(Layout!Order) = Cardinality(layoutListed)
           /\ InOrder(Layout!Order)
           /\ \A i, j \in 1..Cardinality(layoutListed) :
                 Layout!Order[i] = Layout!Order[j] => i = j
<1> DEFINE R == {e \in layoutListed \X layoutListed : Layout!Before(e[1], e[2])}
           n == Cardinality(layoutListed)
<1>1. IsFiniteSet(layoutListed) /\ n \in Nat
    BY FeaturesAssumption, FS_Subset, FS_CardinalityType DEF LayoutTypes
<1>2. \A p, q \in layoutListed : <<p, q>> \in R <=> Layout!Before(p, q)
    OBVIOUS
<1>3. \A p \in layoutListed : /\ p \in Int /\ Rank[p] \in Int /\ y[p] \in Int /\ offset[p] \in Int
    BY LayoutNumbers DEF LayoutTypes
<1>4. \A p, q \in layoutListed : p # q => Layout!Before(p, q) \/ Layout!Before(q, p)
    BY <1>3 DEF Layout!Before
<1>5. \A p, q, r \in layoutListed :
          Layout!Before(p, q) /\ Layout!Before(q, r) => Layout!Before(p, r)
    BY <1>3 DEF Layout!Before
<1>6. \A p \in layoutListed : ~Layout!Before(p, p)
    BY <1>3 DEF Layout!Before
<1>7. \E f : Listing(layoutListed, R, f)
  <2>1. /\ \A p, q \in layoutListed : p # q => <<p, q>> \in R \/ <<q, p>> \in R
        /\ \A p, q, r \in layoutListed : <<p, q>> \in R /\ <<q, r>> \in R => <<p, r>> \in R
    BY <1>2, <1>4, <1>5, Zenon
  <2> HIDE DEF R
  <2> QED
    BY <1>1, <2>1, Listings
<1>8. \E f \in [1..n -> layoutListed] : InOrder(f)
  <2>1. PICK f : Listing(layoutListed, R, f)
    BY <1>7
  <2>2. /\ f \in [1..n -> layoutListed] /\ DOMAIN f = 1..n
        /\ \A i, j \in 1..n : i < j => <<f[i], f[j]>> \in R
    BY <2>1 DEF Listing
  <2>3. \A i, j \in 1..n : i < j => Layout!Before(f[i], f[j])
    BY <2>2
  <2>4. \A p \in layoutListed : \E i \in 1..n : f[i] = p
    BY <2>1 DEF Listing
  <2>5. InOrder(f)
    BY <2>2, <2>3, <2>4, Zenon DEF InOrder
  <2> QED
    BY <2>2, <2>5
<1>9. InOrder(Layout!Order)
  <2>1. Layout!Cardinality(layoutListed) = n
    BY DEF Layout!Cardinality, Cardinality
  <2> QED
    BY <1>8, <2>1, Zenon DEF Layout!Order, InOrder
<1>10. DOMAIN Layout!Order = 1..n /\ \A i \in 1..n : Layout!Order[i] \in layoutListed
    BY <1>9 DEF InOrder
<1>11. ASSUME NEW i \in 1..n, NEW j \in 1..n, Layout!Order[i] = Layout!Order[j] PROVE i = j
  <2>1. ~(i < j)
    BY <1>6, <1>9, <1>10, <1>11 DEF InOrder
  <2>2. ~(j < i)
    BY <1>6, <1>9, <1>10, <1>11 DEF InOrder
  <2> QED
    BY <2>1, <2>2
<1>12. Len(Layout!Order) = n
  <2>1. Layout!Order \in [1..n -> layoutListed]
    BY <1>9 DEF InOrder
  <2> HIDE DEF n
  <2> QED
    BY <1>1, <2>1
<1> QED
    BY <1>1, <1>9, <1>11, <1>12

-------------------------------------------------------------------------------
\* The pushes.

Tops == [LayoutPlates -> Int]

\* p stays under q, or q has been made to give way and outranks p.
Settled(t, p, q) ==
    \/ y[q] + t[q] >= y[p] + t[p] + PlateHeight
    \/ y[p] + t[p] >= y[q] + t[q] + PlateHeight /\ Rank[q] > Rank[p]

\* A push raises one of the two, the plate of lower rank or the one behind.
LEMMA PushIs ==
    ASSUME LayoutTypes, NEW t \in Tops, NEW p \in LayoutPlates, NEW q \in LayoutPlates, p # q,
           NEW through
    PROVE  LET u == Layout!Push(t, p, q, through)
           IN  /\ u \in Tops
               /\ \A r \in LayoutPlates \ {p, q} : u[r] = t[r]
               /\ Rank[q] > Rank[p] => u[q] = t[q]
               /\ ~(Rank[q] > Rank[p]) => u[p] = t[p] /\ u[q] >= t[q]
               /\ through[p] # q => Settled(u, p, q)
<1> DEFINE up == Layout!ReqY(t, p, q)
           over == Layout!ReqY(t, q, p)
<1>1. /\ y[p] \in Int /\ y[q] \in Int /\ Rank[p] \in Int /\ Rank[q] \in Int
      /\ PlateHeight \in Int
      /\ t[p] \in Int /\ t[q] \in Int /\ \A r \in LayoutPlates : t[r] \in Int
    BY LayoutNumbers DEF Tops
<1>2. /\ up = y[p] + t[p] + PlateHeight - y[q] /\ up \in Int
      /\ over = y[q] + t[q] + PlateHeight - y[p] /\ over \in Int
    BY <1>1 DEF Layout!ReqY
<1> HIDE DEF up, over
<1>3. CASE up <= t[q]
  <2>1. Layout!Push(t, p, q, through) = t
    BY <1>3 DEF Layout!Push, up
  <2>2. y[q] + t[q] >= y[p] + t[p] + PlateHeight
    BY <1>1, <1>2, <1>3
  <2> QED
    BY <1>1, <2>1, <2>2 DEF Settled
<1>4. CASE ~(up <= t[q]) /\ Rank[q] > Rank[p]
  <2>1. CASE over > t[p]
    <3>1. Layout!Push(t, p, q, through) = [t EXCEPT ![p] = over]
      BY <1>4, <2>1 DEF Layout!Push, up, over
    <3> DEFINE u == [t EXCEPT ![p] = over]
    <3>2. u \in Tops /\ u[p] = over /\ \A r \in LayoutPlates \ {p} : u[r] = t[r]
      BY <1>2 DEF Tops
    <3>3. y[p] + u[p] >= y[q] + u[q] + PlateHeight
      BY <1>1, <1>2, <3>2
    <3> QED
      BY <1>4, <3>1, <3>2, <3>3 DEF Settled
  <2>2. CASE ~(over > t[p])
    <3>1. Layout!Push(t, p, q, through) = t
      BY <1>4, <2>2 DEF Layout!Push, up, over
    <3>2. y[p] + t[p] >= y[q] + t[q] + PlateHeight
      BY <1>1, <1>2, <2>2
    <3> QED
      BY <1>1, <1>4, <3>1, <3>2 DEF Settled
  <2> QED
    BY <2>1, <2>2
<1>5. CASE ~(up <= t[q]) /\ ~(Rank[q] > Rank[p]) /\ through[p] = q
  <2>1. Layout!Push(t, p, q, through) = t
    BY <1>5 DEF Layout!Push, up
  <2>2. t[q] >= t[q]
    BY <1>1
  <2> QED
    BY <1>5, <2>1, <2>2, Zenon
<1>6. CASE ~(up <= t[q]) /\ ~(Rank[q] > Rank[p]) /\ through[p] # q
  <2>1. Layout!Push(t, p, q, through) = [t EXCEPT ![q] = up]
    BY <1>6 DEF Layout!Push, up
  <2> DEFINE u == [t EXCEPT ![q] = up]
  <2>2. u \in Tops /\ u[q] = up /\ \A r \in LayoutPlates \ {q} : u[r] = t[r]
    BY <1>2 DEF Tops
  <2>3. y[q] + u[q] >= y[p] + u[p] + PlateHeight
    BY <1>1, <1>2, <2>2
  <2>4. u[q] >= t[q]
    BY <1>1, <1>2, <1>6, <2>2
  <2> QED
    BY <1>6, <2>1, <2>2, <2>3, <2>4 DEF Settled
<1> QED
    BY <1>3, <1>4, <1>5, <1>6

\* p is before q and settled against it.  A push that p is not behind in and
\* that is not theirs keeps that, if the third plate outranks neither of them.
LEMMA PushKeeps ==
    ASSUME LayoutTypes, NEW t \in Tops, NEW p \in LayoutPlates, NEW q \in LayoutPlates, p # q,
           Settled(t, p, q),
           NEW x \in LayoutPlates, NEW z \in LayoutPlates, x # z, z # p, ~(x = p /\ z = q),
           \A r \in {x, z} \ {p, q} : ~(Rank[r] > Rank[p]) /\ ~(Rank[r] > Rank[q]),
           NEW through
    PROVE  Settled(Layout!Push(t, x, z, through), p, q)
<1> DEFINE u == Layout!Push(t, x, z, through)
<1>1. /\ u \in Tops
      /\ \A r \in LayoutPlates \ {x, z} : u[r] = t[r]
      /\ Rank[z] > Rank[x] => u[z] = t[z]
      /\ ~(Rank[z] > Rank[x]) => u[x] = t[x] /\ u[z] >= t[z]
    BY PushIs
<1>2. /\ y[p] \in Int /\ y[q] \in Int /\ PlateHeight \in Int
      /\ Rank[p] \in Int /\ Rank[q] \in Int /\ Rank[x] \in Int /\ Rank[z] \in Int
      /\ t[p] \in Int /\ t[q] \in Int
    BY LayoutNumbers DEF Tops
<1>3. u[p] \in Int /\ u[q] \in Int
    BY <1>1 DEF Tops
<1> HIDE DEF u
<1>4. CASE z # q
  <2>1. x \in {p, q} => ~(Rank[z] > Rank[x])
    BY <1>4
  <2>2. u[p] = t[p] /\ u[q] = t[q]
    BY <1>1, <1>4, <2>1
  <2> QED
    BY <2>2 DEF Settled, u
<1>5. CASE z = q
  <2>1. x # p /\ ~(Rank[x] > Rank[p]) /\ ~(Rank[x] > Rank[q])
    BY <1>5
  <2>2. u[p] = t[p]
    BY <1>1, <1>5, <2>1
  <2>3. u[q] >= t[q]
    BY <1>1, <1>2, <1>5
  <2>4. CASE y[q] + t[q] >= y[p] + t[p] + PlateHeight
    <3>1. y[q] + u[q] >= y[p] + u[p] + PlateHeight
      BY <1>2, <1>3, <2>2, <2>3, <2>4
    <3> QED
      BY <3>1 DEF Settled, u
  <2>5. CASE y[p] + t[p] >= y[q] + t[q] + PlateHeight /\ Rank[q] > Rank[p]
    <3>1. Rank[z] > Rank[x]
      BY <1>2, <1>5, <2>1, <2>5
    <3>2. u[q] = t[q]
      BY <1>1, <1>5, <3>1
    <3> QED
      BY <2>2, <2>5, <3>2 DEF Settled, u
  <2> QED
    BY <2>4, <2>5 DEF Settled
<1> QED
    BY <1>4, <1>5 DEF u

-------------------------------------------------------------------------------
\* The loops.  Which plates pass which is a function of them.

\* The inner loop as a function of the rounds.
Runs(row, t, i, near, through) ==
    LET N == Cardinality(layoutListed) - i
    IN  /\ row \in [0..N -> Tops] /\ row[0] = t
        /\ \A k \in 1..N :
              row[k] = IF Layout!Collides(near, Layout!Order[i], Layout!Order[i + k])
                       THEN Layout!Push(row[k - 1], Layout!Order[i], Layout!Order[i + k], through)
                       ELSE row[k - 1]
        /\ Layout!Row(Layout!Order, t, i, near, through) = row[N]

LEMMA RowIs ==
    ASSUME LayoutTypes, NEW near,
           NEW through \in [LayoutPlates -> LayoutPlates], NEW t \in Tops,
           NEW i \in 1..Cardinality(layoutListed)
    PROVE  \E row : Runs(row, t, i, near, through)
<1> DEFINE n == Cardinality(layoutListed)
           N == n - i
           Turn(k, u) == IF Layout!Collides(near, Layout!Order[i], Layout!Order[i + k])
                         THEN Layout!Push(u, Layout!Order[i], Layout!Order[i + k], through)
                         ELSE u
           G == [e \in Nat \X Tops |-> IF e[1] \in 1..N THEN Turn(e[1], e[2]) ELSE e[2]]
           R(g) == [k \in 0..N |-> IF k = 0 THEN t ELSE Turn(k, g[k - 1])]
           M == CHOOSE g : g = R(g)
<1>1. n \in Nat /\ Len(Layout!Order) = n /\ N \in Nat
    BY OrderIs
<1>2. ASSUME NEW k \in 1..N, NEW u \in Tops PROVE Turn(k, u) \in Tops
  <2>1. i + k \in 1..n /\ i + k # i
    BY <1>1
  <2>2. /\ Layout!Order[i] \in LayoutPlates /\ Layout!Order[i + k] \in LayoutPlates
        /\ Layout!Order[i] # Layout!Order[i + k]
    BY <2>1, OrderIs DEF InOrder, LayoutTypes
  <2> HIDE DEF n
  <2>3. Layout!Push(u, Layout!Order[i], Layout!Order[i + k], through) \in Tops
    BY <2>2, PushIs
  <2> QED
    BY <2>3
<1>3. G \in [Nat \X Tops -> Tops]
  <2> SUFFICES ASSUME NEW e \in Nat \X Tops
               PROVE  (IF e[1] \in 1..N THEN Turn(e[1], e[2]) ELSE e[2]) \in Tops
    OBVIOUS
  <2>1. e[2] \in Tops
    OBVIOUS
  <2> HIDE DEF Turn, N
  <2> QED
    BY <1>2, <2>1
<1>4. PICK f \in [0..N -> Tops] :
        f[0] = t /\ \A k \in 1..N : f[k] = G[<<k, f[k - 1]>>]
  <2> HIDE DEF N, G
  <2>1. \E f : f \in Recursive(N, Tops, t, G)
    BY <1>1, <1>3, Recursion
  <2> QED
    BY <2>1 DEF Recursive
<1>5. \A k \in 1..N : f[k] = Turn(k, f[k - 1])
  <2> HIDE DEF Turn, N
  <2> TAKE k \in 1..N
  <2>1. k - 1 \in 0..N /\ k \in Nat
    BY <1>1
  <2>2. <<k, f[k - 1]>> \in Nat \X Tops
    BY <1>4, <2>1
  <2>3. f[k] = G[<<k, f[k - 1]>>]
    BY <1>4
  <2> QED
    BY <2>2, <2>3
<1>6. f = R(f)
  <2> HIDE DEF Turn, N, G
  <2> QED
    BY <1>1, <1>4, <1>5
<1>7. M = R(M)
  <2> HIDE DEF R
  <2> QED
    BY <1>6, Zenon
<1>8. Layout!Row(Layout!Order, t, i, near, through) = M[N]
    BY <1>1, Zenon DEF Layout!Row
<1>9. /\ M \in [0..N -> Tops] /\ M[0] = t
      /\ \A k \in 1..N : M[k] = Turn(k, M[k - 1])
  <2>1. \A k \in 0..N : M[k] = IF k = 0 THEN t ELSE Turn(k, M[k - 1])
    <3> HIDE DEF M, Turn, N
    <3> QED
      BY <1>7
  <2>2. DOMAIN M = 0..N /\ M = [k \in 0..N |-> M[k]]
    <3> HIDE DEF M, Turn, N
    <3> QED
      BY <1>7
  <2>3. 0..N \subseteq {k \in 0..N : M[k] \in Tops}
    <3> DEFINE S == {k \in 0..N : M[k] \in Tops}
    <3> HIDE DEF M, Turn, N
    <3>1. 0 \in S
      BY <1>1, <2>1
    <3>2. \A k \in 1..N : k - 1 \in S => k \in S
      BY <1>1, <1>2, <2>1
    <3> HIDE DEF S
    <3>3. 0..N \subseteq S
      BY <1>1, <3>1, <3>2, InductiveUpTo
    <3> QED
      BY <3>3 DEF S
  <2> HIDE DEF M, Turn, N
  <2>4. M \in [0..N -> Tops]
    BY <2>2, <2>3
  <2>5. \A k \in 1..N : k \in 0..N /\ k # 0
    BY <1>1
  <2>6. \A k \in 1..N : M[k] = Turn(k, M[k - 1])
    BY <2>1, <2>5
  <2>7. M[0] = t
    BY <1>1, <2>1
  <2> QED
    BY <2>4, <2>6, <2>7
<1>10. Runs(M, t, i, near, through)
  <2> HIDE DEF M
  <2> QED
    BY <1>8, <1>9 DEF Runs
<1> QED
  <2> HIDE DEF M
  <2> QED
    BY <1>10

\* Two plates in their order, of which no third listed one outranks either.
Unrivalled(a, b) ==
    \A r \in layoutListed \ {Layout!Order[a], Layout!Order[b]} :
        ~(Rank[r] > Rank[Layout!Order[a]]) /\ ~(Rank[r] > Rank[Layout!Order[b]])

\* The rounds of a later plate do not unsettle two before it.
LEMMA RowKeeps ==
    ASSUME LayoutTypes, NEW near, NEW through \in [LayoutPlates -> LayoutPlates],
           NEW a \in 1..Cardinality(layoutListed), NEW b \in 1..Cardinality(layoutListed),
           a < b,
           Unrivalled(a, b), NEW t \in Tops, NEW i \in 1..Cardinality(layoutListed), a < i,
           Settled(t, Layout!Order[a], Layout!Order[b])
    PROVE  Settled(Layout!Row(Layout!Order, t, i, near, through),
                   Layout!Order[a], Layout!Order[b])
<1> DEFINE n == Cardinality(layoutListed)
           N == n - i
<1>0. PICK row : Runs(row, t, i, near, through)
    BY RowIs
<1>1. /\ row \in [0..N -> Tops] /\ row[0] = t
      /\ \A k \in 1..N :
            row[k] = IF Layout!Collides(near, Layout!Order[i], Layout!Order[i + k])
                     THEN Layout!Push(row[k - 1], Layout!Order[i], Layout!Order[i + k], through)
                     ELSE row[k - 1]
      /\ Layout!Row(Layout!Order, t, i, near, through) = row[N]
    BY <1>0 DEF Runs
<1>2. /\ n \in Nat /\ N \in Nat
      /\ \A k \in 1..n : Layout!Order[k] \in layoutListed /\ Layout!Order[k] \in LayoutPlates
      /\ \A k, l \in 1..n : Layout!Order[k] = Layout!Order[l] => k = l
  <2>1. n \in Nat /\ N \in Nat
    BY OrderIs
  <2>2. \A k \in 1..n : Layout!Order[k] \in layoutListed /\ Layout!Order[k] \in LayoutPlates
    BY OrderIs DEF InOrder, LayoutTypes
  <2> QED
    BY <2>1, <2>2, OrderIs
<1> HIDE DEF n
<1> DEFINE S == {k \in 0..N : Settled(row[k], Layout!Order[a], Layout!Order[b])}
<1>3. 0 \in S
    BY <1>1, <1>2
<1>4. ASSUME NEW k \in 1..N, k - 1 \in S PROVE k \in S
  <2>1. /\ k \in 0..N /\ k - 1 \in 0..N /\ i + k \in 1..n /\ i + k # i /\ i + k # a
        /\ i \in 1..n /\ a \in 1..n /\ b \in 1..n
    BY <1>2 DEF n
  <2>2. /\ row[k - 1] \in Tops
        /\ Settled(row[k - 1], Layout!Order[a], Layout!Order[b])
    BY <1>1, <1>4, <2>1
  <2>3. CASE Layout!Collides(near, Layout!Order[i], Layout!Order[i + k])
    <3>1. row[k] = Layout!Push(row[k - 1], Layout!Order[i], Layout!Order[i + k], through)
      BY <1>1, <2>3
    <3>2. /\ Layout!Order[i] # Layout!Order[i + k] /\ Layout!Order[i + k] # Layout!Order[a]
          /\ Layout!Order[i] # Layout!Order[a]
          /\ Layout!Order[a] # Layout!Order[b]
      BY <1>2, <2>1
    <3>3. /\ Layout!Order[i] \in LayoutPlates /\ Layout!Order[i + k] \in LayoutPlates
          /\ Layout!Order[a] \in LayoutPlates /\ Layout!Order[b] \in LayoutPlates
          /\ {Layout!Order[i], Layout!Order[i + k]} \subseteq layoutListed
      BY <1>2, <2>1
    <3>4. \A r \in {Layout!Order[i], Layout!Order[i + k]}
                   \ {Layout!Order[a], Layout!Order[b]} :
             ~(Rank[r] > Rank[Layout!Order[a]]) /\ ~(Rank[r] > Rank[Layout!Order[b]])
      BY <3>3 DEF Unrivalled
    <3>5. Settled(Layout!Push(row[k - 1], Layout!Order[i], Layout!Order[i + k], through),
                  Layout!Order[a], Layout!Order[b])
      BY <2>2, <3>2, <3>3, <3>4, PushKeeps
    <3> QED
      BY <2>1, <3>1, <3>5
  <2>4. CASE ~Layout!Collides(near, Layout!Order[i], Layout!Order[i + k])
    <3>1. row[k] = row[k - 1]
      BY <1>1, <2>4
    <3> QED
      BY <2>1, <2>2, <3>1
  <2> QED
    BY <2>3, <2>4
<1>5. 0..N \subseteq S
  <2>1. \A k \in 1..N : k - 1 \in S => k \in S
    BY <1>4
  <2> HIDE DEF S, N
  <2> QED
    BY <1>2, <1>3, <2>1, InductiveUpTo
<1>6. N \in S
    BY <1>2, <1>5
<1> QED
    BY <1>1, <1>6

\* The first one's own rounds settle the two.
LEMMA RowSettles ==
    ASSUME LayoutTypes, NEW near, NEW through \in [LayoutPlates -> LayoutPlates],
           NEW a \in 1..Cardinality(layoutListed), NEW b \in 1..Cardinality(layoutListed),
           a < b,
           Unrivalled(a, b), NEW t \in Tops,
           Layout!Collides(near, Layout!Order[a], Layout!Order[b]),
           through[Layout!Order[a]] = Layout!Order[a]
    PROVE  Settled(Layout!Row(Layout!Order, t, a, near, through),
                   Layout!Order[a], Layout!Order[b])
<1> DEFINE n == Cardinality(layoutListed)
           N == n - a
           c == b - a
<1>0. PICK row : Runs(row, t, a, near, through)
    BY RowIs
<1>1. /\ row \in [0..N -> Tops] /\ row[0] = t
      /\ \A k \in 1..N :
            row[k] = IF Layout!Collides(near, Layout!Order[a], Layout!Order[a + k])
                     THEN Layout!Push(row[k - 1], Layout!Order[a], Layout!Order[a + k], through)
                     ELSE row[k - 1]
      /\ Layout!Row(Layout!Order, t, a, near, through) = row[N]
    BY <1>0 DEF Runs
<1>2. /\ n \in Nat /\ N \in Nat /\ c \in 1..N /\ a + c = b
      /\ \A k \in 1..n : Layout!Order[k] \in layoutListed /\ Layout!Order[k] \in LayoutPlates
      /\ \A k, l \in 1..n : Layout!Order[k] = Layout!Order[l] => k = l
  <2>1. n \in Nat /\ N \in Nat
    BY OrderIs
  <2>2. \A k \in 1..n : Layout!Order[k] \in layoutListed /\ Layout!Order[k] \in LayoutPlates
    BY OrderIs DEF InOrder, LayoutTypes
  <2>3. c \in 1..N /\ a + c = b
    BY <2>1
  <2> QED
    BY <2>1, <2>2, <2>3, OrderIs
<1> HIDE DEF n
<1> DEFINE S == {k \in 0..N : k >= c => Settled(row[k], Layout!Order[a], Layout!Order[b])}
<1>3. 0 \in S
    BY <1>2
<1>4. ASSUME NEW k \in 1..N, k - 1 \in S PROVE k \in S
  <2>1. /\ k \in 0..N /\ k - 1 \in 0..N /\ a + k \in 1..n /\ a + k # a
        /\ a \in 1..n /\ b \in 1..n /\ (k = c => a + k = b) /\ (k # c => a + k # b)
        /\ (k > c => k - 1 >= c) /\ (k >= c => k = c \/ k > c)
    BY <1>2 DEF n
  <2>2. row[k - 1] \in Tops
    BY <1>1, <2>1
  <2>3. /\ Layout!Order[a] # Layout!Order[a + k] /\ Layout!Order[a] # Layout!Order[b]
        /\ Layout!Order[a] \in LayoutPlates /\ Layout!Order[b] \in LayoutPlates
        /\ Layout!Order[a + k] \in LayoutPlates
        /\ Layout!Order[a + k] \in layoutListed
        /\ (k # c => Layout!Order[a + k] # Layout!Order[b])
    BY <1>2, <2>1
  <2>4. through[Layout!Order[a]] # Layout!Order[b]
    BY <2>3
  <2>5. row[k] = IF Layout!Collides(near, Layout!Order[a], Layout!Order[a + k])
                 THEN Layout!Push(row[k - 1], Layout!Order[a], Layout!Order[a + k], through)
                 ELSE row[k - 1]
    BY <1>1
  <2>6. CASE k = c
    <3>1. Settled(Layout!Push(row[k - 1], Layout!Order[a], Layout!Order[b], through),
                  Layout!Order[a], Layout!Order[b])
      BY <2>2, <2>3, <2>4, PushIs
    <3>2. row[k] = Layout!Push(row[k - 1], Layout!Order[a], Layout!Order[b], through)
      BY <2>1, <2>5, <2>6
    <3> QED
      BY <2>1, <3>1, <3>2
  <2>7. CASE k > c /\ Layout!Collides(near, Layout!Order[a], Layout!Order[a + k])
    <3>1. k # c
      BY <1>2, <2>7
    <3>2. Settled(row[k - 1], Layout!Order[a], Layout!Order[b])
      BY <1>4, <2>1, <2>7
    <3>3. \A r \in {Layout!Order[a], Layout!Order[a + k]}
                   \ {Layout!Order[a], Layout!Order[b]} :
             ~(Rank[r] > Rank[Layout!Order[a]]) /\ ~(Rank[r] > Rank[Layout!Order[b]])
      BY <2>3 DEF Unrivalled
    <3>4. Settled(Layout!Push(row[k - 1], Layout!Order[a], Layout!Order[a + k], through),
                  Layout!Order[a], Layout!Order[b])
      BY <2>2, <2>3, <2>4, <3>1, <3>2, <3>3, PushKeeps
    <3> QED
      BY <2>1, <2>5, <2>7, <3>4
  <2>8. CASE k > c /\ ~Layout!Collides(near, Layout!Order[a], Layout!Order[a + k])
    BY <1>4, <2>1, <2>5, <2>8
  <2>9. CASE ~(k >= c)
    BY <2>1, <2>9
  <2> QED
    BY <2>1, <2>6, <2>7, <2>8, <2>9
<1>5. 0..N \subseteq S
  <2>1. \A k \in 1..N : k - 1 \in S => k \in S
    BY <1>4
  <2> HIDE DEF S, N
  <2> QED
    BY <1>2, <1>3, <2>1, InductiveUpTo
<1>6. N \in S /\ N >= c
    BY <1>2, <1>5
<1> QED
    BY <1>1, <1>6

\* A row leaves heights.
LEMMA RowLeaves ==
    ASSUME LayoutTypes, NEW near,
           NEW through \in [LayoutPlates -> LayoutPlates], NEW t \in Tops,
           NEW i \in 1..Cardinality(layoutListed)
    PROVE  Layout!Row(Layout!Order, t, i, near, through) \in Tops
<1>0. PICK row : Runs(row, t, i, near, through)
    BY RowIs
<1>1. /\ row \in [0..(Cardinality(layoutListed) - i) -> Tops]
      /\ Layout!Row(Layout!Order, t, i, near, through) = row[Cardinality(layoutListed) - i]
    BY <1>0 DEF Runs
<1>2. Cardinality(layoutListed) - i \in 0..(Cardinality(layoutListed) - i)
    BY OrderIs
<1> QED
    BY <1>1, <1>2

LEMMA SunkIs ==
    ASSUME LayoutTypes, NEW half \in BOOLEAN
    PROVE  Layout!Sunk(half) \in Tops
<1>1. \A p \in LayoutPlates : offset[p] \in Int /\ offset[p] \div 2 \in Int
    BY LayoutNumbers
<1>2. \A p \in LayoutPlates :
          (IF p \in layoutListed /\ half THEN offset[p] \div 2 ELSE offset[p]) \in Int
    BY <1>1, Zenon
<1> QED
    BY <1>2, Zenon DEF Layout!Sunk, Tops

\* The outer loop as a function of the rows.
Rows(loop, half, near, through) ==
    LET n == Cardinality(layoutListed)
    IN  /\ loop \in [0..n -> Tops] /\ loop[0] = Layout!Sunk(half)
        /\ \A i \in 1..n : loop[i] = Layout!Row(Layout!Order, loop[i - 1], i, near, through)
        /\ Layout!Pushed(half, near, through) = loop[n]

LEMMA PushedIs ==
    ASSUME LayoutTypes, NEW half \in BOOLEAN, NEW near,
           NEW through \in [LayoutPlates -> LayoutPlates]
    PROVE  \E loop : Rows(loop, half, near, through)
<1> DEFINE n == Cardinality(layoutListed)
           Turn(i, u) == Layout!Row(Layout!Order, u, i, near, through)
           G == [e \in Nat \X Tops |-> IF e[1] \in 1..n THEN Turn(e[1], e[2]) ELSE e[2]]
           R(g) == [i \in 0..n |-> IF i = 0 THEN Layout!Sunk(half) ELSE Turn(i, g[i - 1])]
           M == CHOOSE g : g = R(g)
<1>1. n \in Nat /\ Len(Layout!Order) = n
    BY OrderIs
<1>2. ASSUME NEW i \in 1..n, NEW u \in Tops PROVE Turn(i, u) \in Tops
    BY RowLeaves
<1>3. G \in [Nat \X Tops -> Tops]
  <2> SUFFICES ASSUME NEW e \in Nat \X Tops
               PROVE  (IF e[1] \in 1..n THEN Turn(e[1], e[2]) ELSE e[2]) \in Tops
    OBVIOUS
  <2>1. e[2] \in Tops
    OBVIOUS
  <2> HIDE DEF Turn, n
  <2> QED
    BY <1>2, <2>1
<1>4. PICK f \in [0..n -> Tops] :
        f[0] = Layout!Sunk(half) /\ \A i \in 1..n : f[i] = G[<<i, f[i - 1]>>]
  <2>1. Layout!Sunk(half) \in Tops
    BY SunkIs
  <2> HIDE DEF n, G
  <2>2. \E f : f \in Recursive(n, Tops, Layout!Sunk(half), G)
    BY <1>1, <1>3, <2>1, Recursion
  <2> QED
    BY <2>2 DEF Recursive
<1>5. \A i \in 1..n : f[i] = Turn(i, f[i - 1])
  <2> HIDE DEF Turn, n
  <2> TAKE i \in 1..n
  <2>1. i - 1 \in 0..n /\ i \in Nat
    BY <1>1
  <2>2. <<i, f[i - 1]>> \in Nat \X Tops
    BY <1>4, <2>1
  <2>3. f[i] = G[<<i, f[i - 1]>>]
    BY <1>4
  <2> QED
    BY <2>2, <2>3
<1>6. f = R(f)
  <2> HIDE DEF Turn, n, G
  <2> QED
    BY <1>1, <1>4, <1>5
<1>7. M = R(M)
  <2> HIDE DEF R
  <2> QED
    BY <1>6, Zenon
<1>8. Layout!Pushed(half, near, through) = M[n]
    BY <1>1, Zenon DEF Layout!Pushed
<1>9. /\ M \in [0..n -> Tops] /\ M[0] = Layout!Sunk(half)
      /\ \A i \in 1..n : M[i] = Turn(i, M[i - 1])
  <2>1. \A i \in 0..n : M[i] = IF i = 0 THEN Layout!Sunk(half) ELSE Turn(i, M[i - 1])
    <3> HIDE DEF M, Turn, n
    <3> QED
      BY <1>7
  <2>2. DOMAIN M = 0..n /\ M = [i \in 0..n |-> M[i]]
    <3> HIDE DEF M, Turn, n
    <3> QED
      BY <1>7
  <2>3. 0..n \subseteq {i \in 0..n : M[i] \in Tops}
    <3> DEFINE S == {i \in 0..n : M[i] \in Tops}
    <3>0. Layout!Sunk(half) \in Tops
      BY SunkIs
    <3> HIDE DEF M, Turn, n
    <3>1. 0 \in S
      BY <1>1, <2>1, <3>0
    <3>2. \A i \in 1..n : i - 1 \in S => i \in S
      BY <1>1, <1>2, <2>1
    <3> HIDE DEF S
    <3>3. 0..n \subseteq S
      BY <1>1, <3>1, <3>2, InductiveUpTo
    <3> QED
      BY <3>3 DEF S
  <2> HIDE DEF M, Turn, n
  <2>4. M \in [0..n -> Tops]
    BY <2>2, <2>3
  <2>5. \A i \in 1..n : i \in 0..n /\ i # 0
    BY <1>1
  <2>6. \A i \in 1..n : M[i] = Turn(i, M[i - 1])
    BY <2>1, <2>5
  <2>7. M[0] = Layout!Sunk(half)
    BY <1>1, <2>1
  <2> QED
    BY <2>4, <2>6, <2>7
<1>10. Rows(M, half, near, through)
  <2> HIDE DEF M
  <2> QED
    BY <1>8, <1>9 DEF Rows
<1> QED
  <2> HIDE DEF M
  <2> QED
    BY <1>10

LEMMA PushedLeaves ==
    ASSUME LayoutTypes, NEW half \in BOOLEAN, NEW near,
           NEW through \in [LayoutPlates -> LayoutPlates]
    PROVE  Layout!Pushed(half, near, through) \in Tops
<1> DEFINE n == Cardinality(layoutListed)
<1>0. PICK loop : Rows(loop, half, near, through)
    BY PushedIs
<1>1. /\ loop \in [0..n -> Tops]
      /\ \A i \in 1..n : loop[i] = Layout!Row(Layout!Order, loop[i - 1], i, near, through)
      /\ Layout!Pushed(half, near, through) = loop[n]
    BY <1>0 DEF Rows
<1>2. n \in 0..n
    BY OrderIs
<1> QED
    BY <1>1, <1>2

\* After the loops two colliding plates without a rival are settled.
LEMMA PushedSettles ==
    ASSUME LayoutTypes, NEW half \in BOOLEAN, NEW near,
           NEW through \in [LayoutPlates -> LayoutPlates],
           NEW a \in 1..Cardinality(layoutListed), NEW b \in 1..Cardinality(layoutListed),
           a < b,
           Unrivalled(a, b), Layout!Collides(near, Layout!Order[a], Layout!Order[b]),
           through[Layout!Order[a]] = Layout!Order[a]
    PROVE  /\ Layout!Pushed(half, near, through) \in Tops
           /\ Settled(Layout!Pushed(half, near, through), Layout!Order[a], Layout!Order[b])
<1> DEFINE n == Cardinality(layoutListed)
<1>0. PICK loop : Rows(loop, half, near, through)
    BY PushedIs
<1>1. /\ loop \in [0..n -> Tops]
      /\ \A i \in 1..n : loop[i] = Layout!Row(Layout!Order, loop[i - 1], i, near, through)
      /\ Layout!Pushed(half, near, through) = loop[n]
    BY <1>0 DEF Rows
<1>2. n \in Nat
    BY OrderIs
<1> DEFINE S == {i \in 0..n : i >= a => Settled(loop[i], Layout!Order[a], Layout!Order[b])}
<1>3. 0 \in S
    BY <1>2
<1>4. ASSUME NEW i \in 1..n, i - 1 \in S PROVE i \in S
  <2> HIDE DEF n
  <2>1. /\ i \in 0..n /\ i - 1 \in 0..n /\ (i > a => i - 1 >= a)
        /\ (i >= a => i = a \/ i > a) /\ (i > a => a < i)
    BY <1>2 DEF n
  <2>2. loop[i - 1] \in Tops /\ loop[i] = Layout!Row(Layout!Order, loop[i - 1], i, near, through)
    BY <1>1, <2>1
  <2> DEFINE t == loop[i - 1]
  <2>3. t \in Tops
    BY <2>2
  <2>4. CASE i = a
    <3> HIDE DEF t
    <3>1. Settled(Layout!Row(Layout!Order, t, a, near, through),
                  Layout!Order[a], Layout!Order[b])
      BY <2>3, RowSettles DEF n
    <3> QED
      BY <2>1, <2>2, <2>4, <3>1 DEF t
  <2>5. CASE i > a
    <3>1. Settled(t, Layout!Order[a], Layout!Order[b])
      BY <1>4, <2>1, <2>5
    <3> HIDE DEF t
    <3>2. Settled(Layout!Row(Layout!Order, t, i, near, through),
                  Layout!Order[a], Layout!Order[b])
      BY <2>1, <2>3, <2>5, <3>1, RowKeeps DEF n
    <3> QED
      BY <2>1, <2>2, <3>2 DEF t
  <2>6. CASE ~(i >= a)
    BY <2>1, <2>6
  <2> QED
    BY <2>1, <2>4, <2>5, <2>6
<1>5. 0..n \subseteq S
  <2>1. \A i \in 1..n : i - 1 \in S => i \in S
    BY <1>4
  <2> HIDE DEF S, n
  <2> QED
    BY <1>2, <1>3, <2>1, InductiveUpTo
<1>6. n \in S /\ n >= a
    BY <1>2, <1>5
<1> QED
    BY <1>1, <1>2, <1>6

-------------------------------------------------------------------------------
\* The frame.

LEMMA LimitedIs ==
    ASSUME LayoutTypes, NEW t \in Tops, NEW edges \in BOOLEAN
    PROVE  Layout!Limited(t, edges) \in [LayoutPlates -> Int]
<1>1. \A p \in LayoutPlates : /\ t[p] \in Int /\ Layout!Limit(p) \in Int
                              /\ Layout!Least(p, edges) \in Int
    BY LayoutNumbers DEF Tops
<1> QED
    BY <1>1, Zenon DEF Layout!Limited

\* The limits leave what is settled, or bring the two together.
LEMMA LimitedApart ==
    ASSUME LayoutTypes, NEW t \in Tops, NEW edges \in BOOLEAN,
           NEW p \in LayoutPlates, NEW q \in LayoutPlates,
           Settled(t, p, q) \/ Settled(t, q, p),
           y[p] + t[p] <= y[q] + t[q], ~Layout!Brought(t, Layout!Limited(t, edges), p, q)
    PROVE  Layout!Apart(Layout!Limited(t, edges), p, q)
<1> PICK u : u = Layout!Limited(t, edges)
    OBVIOUS
<1>1. u[p] \in Int /\ u[q] \in Int /\ t[p] \in Int /\ t[q] \in Int
    BY LimitedIs DEF Tops
<1>2. y[p] \in Int /\ y[q] \in Int /\ PlateHeight \in Nat
    BY LayoutNumbers
<1>3. ~(u[q] < t[q]) /\ ~(u[p] > t[p])
    BY DEF Layout!Brought
<1>4. y[q] + t[q] >= y[p] + t[p] + PlateHeight
  <2>1. \/ y[p] + t[p] >= y[q] + t[q] + PlateHeight
        \/ y[q] + t[q] >= y[p] + t[p] + PlateHeight
    BY DEF Settled
  <2> QED
    BY <1>1, <1>2, <2>1
<1>5. y[q] + u[q] >= y[p] + u[p] + PlateHeight
    BY <1>1, <1>2, <1>3, <1>4
<1> QED
    BY <1>5, Zenon DEF Layout!Apart

\* Two members of a set of two are all of it.
LEMMA TwoOfTwo ==
    ASSUME NEW s \in Layout!Pairs, NEW p \in s, NEW q \in s, p # q
    PROVE  s = {p, q}
<1>0. Layout!Cardinality(s) = Cardinality(s)
    BY DEF Layout!Cardinality, Cardinality
<1>1. IsFiniteSet(s) /\ Cardinality(s) = 2
    BY <1>0, FeaturesAssumption, FS_Subset DEF Layout!Pairs
<1>2. IsFiniteSet(s \ {p}) /\ Cardinality(s \ {p}) = 1
  <2>1. IsFiniteSet(s \ {p}) /\ Cardinality(s \ {p}) = Cardinality(s) - 1
    BY <1>1, FS_RemoveElement
  <2> QED
    BY <1>1, <2>1
<1>3. s \ {p} = {q}
  <2>1. PICK r : s \ {p} = {r}
    BY <1>2, FS_Singleton
  <2> QED
    BY <2>1
<1> QED
    BY <1>3

\* Two colliding plates that no third one outranks end up apart, if the limits
\* do not bring them together.
LEMMA FrameParts ==
    ASSUME LayoutTypes, NEW half \in BOOLEAN, NEW near, NEW through \in Layout!Throughs, ~smart,
           NEW p \in layoutListed, NEW q \in layoutListed, p # q, Layout!Collides(near, p, q),
           \A r \in layoutListed \ {p, q} : ~(Rank[r] > Rank[p]) /\ ~(Rank[r] > Rank[q])
    PROVE  /\ Layout!Pushed(half, near, through) \in Tops
           /\ \/ Settled(Layout!Pushed(half, near, through), p, q)
              \/ Settled(Layout!Pushed(half, near, through), q, p)
<1> DEFINE n == Cardinality(layoutListed)
           t == Layout!Pushed(half, near, through)
<1>1. through \in [LayoutPlates -> LayoutPlates] /\ through[p] = p /\ through[q] = q
    BY Zenon DEF Layout!Throughs, Layout!Passes, LayoutTypes
<1>2. n \in Nat /\ DOMAIN Layout!Order = 1..n
    BY OrderIs DEF InOrder
<1>3. PICK a \in 1..n : Layout!Order[a] = p
    BY <1>2, OrderIs, Zenon DEF InOrder
<1>4. PICK b \in 1..n : Layout!Order[b] = q
    BY <1>2, OrderIs, Zenon DEF InOrder
<1>5. p \in LayoutPlates /\ q \in LayoutPlates
    BY DEF LayoutTypes
<1>6. CASE a < b
  <2>1. Unrivalled(a, b)
    BY <1>3, <1>4, Zenon DEF Unrivalled
  <2>2. /\ Layout!Collides(near, Layout!Order[a], Layout!Order[b])
        /\ through[Layout!Order[a]] = Layout!Order[a]
    BY <1>1, <1>3, <1>4
  <2>3. t \in Tops /\ Settled(t, Layout!Order[a], Layout!Order[b])
    BY <1>1, <1>6, <2>1, <2>2, PushedSettles
  <2>4. Settled(t, p, q)
    BY <1>3, <1>4, <2>3
  <2> QED
    BY <2>3, <2>4
<1>7. CASE b < a
  <2>0. {p, q} = {q, p}
    OBVIOUS
  <2>1. Unrivalled(b, a)
    BY <1>3, <1>4, <2>0, Zenon DEF Unrivalled
  <2>2. /\ Layout!Collides(near, Layout!Order[b], Layout!Order[a])
        /\ through[Layout!Order[b]] = Layout!Order[b]
    BY <1>1, <1>3, <1>4, <2>0, Zenon DEF Layout!Collides
  <2>3. t \in Tops /\ Settled(t, Layout!Order[b], Layout!Order[a])
    BY <1>1, <1>7, <2>1, <2>2, PushedSettles
  <2>4. Settled(t, q, p)
    BY <1>3, <1>4, <2>3
  <2> QED
    BY <2>3, <2>4
<1>8. a # b
    BY <1>3, <1>4
<1> QED
    BY <1>2, <1>6, <1>7, <1>8

LayoutInv == LayoutTypes /\ Layout!StacksApart

LEMMA FrameKeeps ==
    ASSUME LayoutTypes, NEW half \in BOOLEAN,
           NEW near \in SUBSET {s \in Layout!Pairs : s \subseteq layoutListed},
           NEW through \in Layout!Throughs, NEW edges \in BOOLEAN,
           Layout!Frame(half, near, through, edges)
    PROVE  LayoutInv'
<1>0. Layout!Pushed(half, near, through) \in Tops
    BY PushedLeaves DEF Layout!Throughs
<1>1. LayoutTypes'
  <2>1. offset' \in [LayoutPlates -> Int]
    BY <1>0, LimitedIs DEF Layout!Frame
  <2> QED
    BY <2>1 DEF Layout!Frame, LayoutTypes
<1>2. Layout!StacksApart'
  <2> SUFFICES ASSUME NEW s \in clash',
                      \A p \in s, r \in layoutListed \ s : ~(Rank[r] > Rank[p])
               PROVE  FALSE
    BY DEF Layout!StacksApart, Layout!Frame
  <2> DEFINE t == Layout!Pushed(half, near, through)
             u == Layout!Limited(t, edges)
  <2>1. PICK p \in s, q \in s :
           /\ s \in near /\ p # q /\ Layout!Collides(near, p, q) /\ ~smart
           /\ y[p] + t[p] <= y[q] + t[q] /\ ~Layout!Brought(t, u, p, q)
           /\ ~Layout!Apart(u, p, q)
    BY DEF Layout!Frame
  <2>2. s \in Layout!Pairs /\ s \subseteq layoutListed
    BY <2>1
  <2>3. s = {p, q}
    BY <2>1, <2>2, TwoOfTwo
  <2>4. p \in layoutListed /\ q \in layoutListed
    BY <2>2
  <2>5. \A r \in layoutListed \ {p, q} : ~(Rank[r] > Rank[p]) /\ ~(Rank[r] > Rank[q])
    BY <2>3
  <2>6. Settled(t, p, q) \/ Settled(t, q, p)
    BY <2>1, <2>4, <2>5, FrameParts
  <2>7. p \in LayoutPlates /\ q \in LayoutPlates
    BY <2>4 DEF LayoutTypes
  <2> HIDE DEF t
  <2>8. t \in Tops
    BY <1>0 DEF t
  <2> QED
    BY <2>1, <2>6, <2>7, <2>8, LimitedApart
<1> QED
    BY <1>1, <1>2 DEF LayoutInv

LEMMA LayoutInit == Layout!Init => LayoutInv
<1> SUFFICES ASSUME Layout!Init PROVE LayoutInv
    OBVIOUS
<1>1. offset \in [LayoutPlates -> Int]
    BY DEF Layout!Init
<1> QED
    BY <1>1 DEF Layout!Init, LayoutInv, LayoutTypes, Layout!StacksApart

LEMMA LayoutKeeps == LayoutInv /\ [Layout!Next]_layoutVars => LayoutInv'
<1> SUFFICES ASSUME LayoutInv, [Layout!Next]_layoutVars PROVE LayoutInv'
    OBVIOUS
<1>0. LayoutTypes /\ Layout!StacksApart
    BY DEF LayoutInv
<1>1. ASSUME clash' = {}, LayoutTypes' PROVE LayoutInv'
    BY <1>1 DEF LayoutInv, Layout!StacksApart
<1>2. ASSUME NEW p \in LayoutPlates, NEW h \in Heights, Layout!Move(p, h) PROVE LayoutInv'
  <2>1. clash' = {} /\ LayoutTypes'
    BY <1>0, <1>2 DEF Layout!Move, LayoutTypes
  <2> QED
    BY <1>1, <2>1
<1>3. ASSUME NEW p \in LayoutPlates, Layout!Show(p) PROVE LayoutInv'
  <2>1. clash' = {} /\ LayoutTypes'
    BY <1>0, <1>3 DEF Layout!Show, LayoutTypes
  <2> QED
    BY <1>1, <2>1
<1>4. ASSUME NEW p \in LayoutPlates, Layout!Drop(p) PROVE LayoutInv'
  <2>1. clash' = {} /\ LayoutTypes'
    BY <1>0, <1>4 DEF Layout!Drop, LayoutTypes
  <2> QED
    BY <1>1, <2>1
<1>5. CASE Layout!NameplateStacking
  <2>1. clash' = {} /\ LayoutTypes'
    BY <1>0, <1>5 DEF Layout!NameplateStacking, LayoutTypes
  <2> QED
    BY <1>1, <2>1
<1>6. ASSUME NEW half \in BOOLEAN,
             NEW near \in SUBSET {s \in Layout!Pairs : s \subseteq layoutListed},
             NEW through \in Layout!Throughs, NEW edges \in BOOLEAN,
             Layout!Frame(half, near, through, edges)
      PROVE  LayoutInv'
    BY <1>0, <1>6, FrameKeeps
<1>7. CASE UNCHANGED layoutVars
    BY <1>0, <1>7 DEF layoutVars, LayoutInv, LayoutTypes, Layout!StacksApart
<1> QED
    BY <1>2, <1>3, <1>4, <1>5, <1>6, <1>7 DEF Layout!Next

\* In the standard modes a frame leaves no two colliding plates overlapping,
\* except where the limits lower the upper or lift the lower one afterwards,
\* and except for two of which a third one outranks one: for any plates, ranks,
\* heights and limits, whichever collide (NamePlates.cpp:208-228, 842-900).
THEOREM PlatesApart == Spec => []StacksApart
<1>1. Init => LayoutInv
    BY LayoutInit DEF Init
<1>2. LayoutInv /\ [Next]_vars => LayoutInv'
    BY LayoutOnly, LayoutKeeps
<1>3. LayoutInv => StacksApart
    BY DEF LayoutInv, StacksApart
<1> QED
    BY <1>1, <1>2, <1>3, PTL DEF Spec

-------------------------------------------------------------------------------
\* A list of voices, each with its token.
VoiceLists == Seq([voiceID : Nat, token : SapiTokens])

VoicesInv ==
    /\ installed \in Seq(SapiTokens) /\ cached \in VoiceLists
    /\ refs \in [SapiTokens -> Int]
    /\ \A t \in SapiTokens : refs[t] >= Voices!Holding(cached, t)

\* The list as a function of the tokens looked at so far.
Finds(list) ==
    LET N == Len(installed)
    IN  /\ list \in [0..N -> VoiceLists] /\ list[0] = <<>>
        /\ \A n \in 1..N :
              list[n] = IF installed[n].described
                        THEN Append(list[n - 1], [voiceID |-> n - 1, token |-> installed[n]])
                        ELSE list[n - 1]
        /\ Voices!Found = list[N]

LEMMA FoundIs == ASSUME installed \in Seq(SapiTokens) PROVE \E list : Finds(list)
<1> DEFINE N == Len(installed)
           Turn(n, u) == IF installed[n].described
                         THEN Append(u, [voiceID |-> n - 1, token |-> installed[n]]) ELSE u
           G == [e \in Nat \X VoiceLists |-> IF e[1] \in 1..N THEN Turn(e[1], e[2]) ELSE e[2]]
           R(g) == [n \in 0..N |-> IF n = 0 THEN <<>> ELSE Turn(n, g[n - 1])]
           M == CHOOSE g : g = R(g)
<1>1. N \in Nat /\ <<>> \in VoiceLists
    BY DEF VoiceLists
<1>2. ASSUME NEW n \in 1..N, NEW u \in VoiceLists PROVE Turn(n, u) \in VoiceLists
  <2>1. installed[n] \in SapiTokens /\ n - 1 \in Nat
    OBVIOUS
  <2>2. [voiceID |-> n - 1, token |-> installed[n]] \in [voiceID : Nat, token : SapiTokens]
    BY <2>1
  <2>3. Append(u, [voiceID |-> n - 1, token |-> installed[n]]) \in VoiceLists
    BY <2>2 DEF VoiceLists
  <2> QED
    BY <2>3
<1>3. G \in [Nat \X VoiceLists -> VoiceLists]
  <2> SUFFICES ASSUME NEW e \in Nat \X VoiceLists
               PROVE  (IF e[1] \in 1..N THEN Turn(e[1], e[2]) ELSE e[2]) \in VoiceLists
    OBVIOUS
  <2>1. e[2] \in VoiceLists
    OBVIOUS
  <2> HIDE DEF Turn, N
  <2> QED
    BY <1>2, <2>1
<1>4. PICK f \in [0..N -> VoiceLists] :
        f[0] = <<>> /\ \A n \in 1..N : f[n] = G[<<n, f[n - 1]>>]
  <2> HIDE DEF N, G
  <2>1. \E f : f \in Recursive(N, VoiceLists, <<>>, G)
    BY <1>1, <1>3, Recursion
  <2> QED
    BY <2>1 DEF Recursive
<1>5. \A n \in 1..N : f[n] = Turn(n, f[n - 1])
  <2> HIDE DEF Turn, N
  <2> TAKE n \in 1..N
  <2>1. n - 1 \in 0..N /\ n \in Nat
    BY <1>1
  <2>2. <<n, f[n - 1]>> \in Nat \X VoiceLists
    BY <1>4, <2>1
  <2>3. f[n] = G[<<n, f[n - 1]>>]
    BY <1>4
  <2> QED
    BY <2>2, <2>3
<1>6. f = R(f)
  <2> HIDE DEF Turn, N, G
  <2> QED
    BY <1>1, <1>4, <1>5
<1>7. M = R(M)
  <2> HIDE DEF R
  <2> QED
    BY <1>6, Zenon
<1>8. M[0] = <<>> /\ \A n \in 1..N : M[n] = Turn(n, M[n - 1])
  <2> HIDE DEF Turn, N, M
  <2> QED
    BY <1>1, <1>7
<1> DEFINE S == {n \in 0..N : M[n] \in VoiceLists}
<1>9. 0..N \subseteq S
  <2>1. 0 \in S
    <3> HIDE DEF M, N
    <3> QED
      BY <1>1, <1>8
  <2>2. ASSUME NEW n \in 1..N, n - 1 \in S PROVE n \in S
    <3> HIDE DEF M, N, Turn
    <3> QED
      BY <1>1, <1>2, <1>8, <2>2
  <2>3. \A n \in 1..N : n - 1 \in S => n \in S
    BY <2>2
  <2> HIDE DEF S, N
  <2> QED
    BY <1>1, <2>1, <2>3, InductiveUpTo
<1>10. M \in [0..N -> VoiceLists]
  <2>1. M = [n \in 0..N |-> M[n]]
    <3> HIDE DEF Turn, N, M
    <3> QED
      BY <1>1, <1>7
  <2> HIDE DEF M, N, Turn
  <2> QED
    BY <1>9, <2>1
<1>11. Voices!Found = M[N]
    BY Zenon DEF Voices!Found
<1>12. Finds(M)
  <2> HIDE DEF M
  <2> QED
    BY <1>8, <1>10, <1>11 DEF Finds
<1> QED
  <2> HIDE DEF M
  <2> QED
    BY <1>12

LEMMA FoundType == ASSUME installed \in Seq(SapiTokens) PROVE Voices!Found \in VoiceLists
<1>1. PICK list : Finds(list)
    BY FoundIs
<1>2. Len(installed) \in Nat
    OBVIOUS
<1> QED
    BY <1>1, <1>2 DEF Finds

LEMMA VoicesCount == \A S : Voices!Cardinality(S) = Cardinality(S)
    BY DEF Voices!Cardinality, Cardinality

\* What a list holds of a token is a number.
LEMMA HoldingIs == ASSUME NEW v \in VoiceLists, NEW t PROVE Voices!Holding(v, t) \in Nat
<1>1. IsFiniteSet(1..Len(v))
  <2>1. Len(v) \in Nat
    BY DEF VoiceLists
  <2> QED
    BY <2>1, FS_Interval
<1>2. DOMAIN v = 1..Len(v)
    BY DEF VoiceLists
<1>3. IsFiniteSet({i \in DOMAIN v : v[i].token = t})
    BY <1>1, <1>2, FS_Subset
<1> QED
    BY <1>3, FS_CardinalityType, VoicesCount DEF Voices!Holding

LEMMA HoldingNothing == \A t : Voices!Holding(<<>>, t) = 0
<1> SUFFICES ASSUME NEW t PROVE Voices!Holding(<<>>, t) = 0
    OBVIOUS
<1>1. {i \in DOMAIN <<>> : <<>>[i].token = t} = {}
    OBVIOUS
<1> QED
    BY <1>1, FS_EmptySet, VoicesCount DEF Voices!Holding

\* SAPI's lists have their length.
LEMMA ListsAre == Voices!Lists \subseteq Seq(SapiTokens)
<1>1. Cardinality(SapiTokens) \in Nat
    BY FeaturesAssumption, FS_CardinalityType
<1>2. \A m \in Nat : [1..m -> SapiTokens] \subseteq Seq(SapiTokens)
    OBVIOUS
<1> QED
    BY <1>1, <1>2 DEF Voices!Lists, Voices!SeqOf

LEMMA RefreshKeeps ==
    ASSUME VoicesInv, installed' = installed, Voices!RefreshVoices
    PROVE  VoicesInv'
<1>1. Voices!Found \in VoiceLists
    BY FoundType DEF VoicesInv
<1>2. \A t \in SapiTokens : Voices!Holding(Voices!Found, t) \in Nat /\ Voices!Holding(cached, t) \in Nat
    BY <1>1, HoldingIs DEF VoicesInv
<1>3. CASE Voices!Changed(Voices!Found)
  <2> DEFINE new == Voices!Found
  <2>1. cached' = new /\ refs' = Voices!Released(Voices!Taken(new), cached)
    BY <1>3 DEF Voices!RefreshVoices
  <2> HIDE DEF new
  <2> DEFINE more == [t \in SapiTokens |-> refs[t] + Voices!Holding(new, t)]
  <2>7. Voices!Taken(new) = more
    BY DEF Voices!Taken
  <2>8. refs' = [t \in SapiTokens |-> more[t] - Voices!Holding(cached, t)]
    <3> HIDE DEF more
    <3> QED
      BY <2>1, <2>7 DEF Voices!Released
  <2>9. \A t \in SapiTokens : more[t] = refs[t] + Voices!Holding(new, t)
    OBVIOUS
  <2> HIDE DEF more
  <2>2. /\ \A t \in SapiTokens : refs'[t] = more[t] - Voices!Holding(cached, t)
        /\ refs' \in [SapiTokens -> Int] <=> \A t \in SapiTokens : refs'[t] \in Int
    BY <2>8
  <2>3. \A t \in SapiTokens : /\ Voices!Holding(new, t) \in Nat
                              /\ Voices!Holding(cached, t) \in Nat
    BY <1>2 DEF new
  <2>4. \A t \in SapiTokens : /\ refs'[t] \in Int /\ refs'[t] >= Voices!Holding(new, t)
    <3> TAKE t \in SapiTokens
    <3>1. refs[t] \in Int /\ refs[t] >= Voices!Holding(cached, t)
      BY DEF VoicesInv
    <3>2. /\ refs'[t] = more[t] - Voices!Holding(cached, t)
          /\ more[t] = refs[t] + Voices!Holding(new, t)
          /\ Voices!Holding(new, t) \in Nat /\ Voices!Holding(cached, t) \in Nat
      BY <2>2, <2>3, <2>9
    <3>3. \A r, h \in Int, k \in Nat : r >= h => (r + k) - h >= k /\ (r + k) - h \in Int
      OBVIOUS
    <3> QED
      BY <3>1, <3>2, <3>3
  <2>5. \A t \in SapiTokens : Voices!Holding(cached', t) = Voices!Holding(new, t)
    BY <2>1
  <2>6. /\ cached' \in VoiceLists /\ installed' \in Seq(SapiTokens)
        /\ refs' \in [SapiTokens -> Int]
    BY <1>1, <2>1, <2>2, <2>4 DEF VoicesInv, new
  <2> QED
    BY <2>4, <2>5, <2>6 DEF VoicesInv, Voices!Holding
<1>4. CASE ~Voices!Changed(Voices!Found)
    BY <1>4 DEF Voices!RefreshVoices, VoicesInv, Voices!Holding
<1> QED
    BY <1>3, <1>4

\* More references on the tokens do no harm.
LEMMA MoreKeeps ==
    ASSUME VoicesInv, NEW more \in [SapiTokens -> Nat],
           refs' = [t \in SapiTokens |-> refs[t] + more[t]],
           UNCHANGED <<installed, cached>>
    PROVE  VoicesInv'
<1>1. \A t \in SapiTokens : Voices!Holding(cached, t) \in Nat
    BY HoldingIs DEF VoicesInv
<1>2. \A t \in SapiTokens : refs'[t] \in Int /\ refs'[t] >= Voices!Holding(cached, t)
    BY <1>1 DEF VoicesInv
<1>3. refs' \in [SapiTokens -> Int]
    BY <1>2
<1> QED
    BY <1>2, <1>3 DEF VoicesInv, Voices!Holding

LEMMA LeaksKeep ==
    ASSUME VoicesInv, NEW n \in Nat, Voices!Leaks(n), UNCHANGED <<installed, cached>>
    PROVE  VoicesInv'
<1> DEFINE more == [t \in SapiTokens |-> n * Voices!Holding(Voices!Found, t)]
<1>1. Voices!Found \in VoiceLists
    BY FoundType DEF VoicesInv
<1>2. \A t \in SapiTokens : Voices!Holding(Voices!Found, t) \in Nat
    BY <1>1, HoldingIs
<1>3. \A k \in Nat : n * k \in Nat
    OBVIOUS
<1>4. more \in [SapiTokens -> Nat]
    BY <1>2, <1>3
<1>5. refs' = [t \in SapiTokens |-> refs[t] + more[t]]
    BY DEF Voices!Leaks
<1> HIDE DEF more
<1> QED
    BY <1>4, <1>5, MoreKeeps

LEMMA VoicesInit == Voices!Init => VoicesInv
<1> SUFFICES ASSUME Voices!Init PROVE VoicesInv
    OBVIOUS
<1>1. installed \in Seq(SapiTokens) /\ cached \in VoiceLists
    BY ListsAre DEF Voices!Init, VoiceLists
<1>2. \A t \in SapiTokens : Voices!Holding(cached, t) = 0
    BY HoldingNothing DEF Voices!Init
<1> QED
    BY <1>1, <1>2 DEF Voices!Init, VoicesInv

LEMMA VoicesKeep == VoicesInv /\ [Voices!Next]_voicesVars => VoicesInv'
<1> SUFFICES ASSUME VoicesInv, [Voices!Next]_voicesVars PROVE VoicesInv'
    OBVIOUS
<1>1. ASSUME UNCHANGED <<installed, cached, refs>> PROVE VoicesInv'
    BY <1>1 DEF VoicesInv, Voices!Holding
<1>2. CASE Voices!Install
  <2>1. installed' \in Seq(SapiTokens)
    BY <1>2, ListsAre DEF Voices!Install
  <2> QED
    BY <1>2, <2>1 DEF Voices!Install, VoicesInv, Voices!Holding
<1>3. CASE Voices!EnterWorld
    BY <1>1, <1>3, RefreshKeeps DEF Voices!EnterWorld
<1>4. CASE Voices!LeaveWorld
  <2>1. \A t \in SapiTokens : Voices!Holding(cached, t) \in Nat
    BY HoldingIs DEF VoicesInv
  <2>2. /\ refs' = [t \in SapiTokens |-> refs[t] - Voices!Holding(cached, t)] /\ cached' = <<>>
        /\ installed' = installed
    BY <1>4 DEF Voices!LeaveWorld, Voices!Released
  <2>3. \A t \in SapiTokens : refs'[t] \in Int /\ refs'[t] >= 0
    BY <2>1, <2>2 DEF VoicesInv
  <2>4. \A t \in SapiTokens : Voices!Holding(cached', t) = 0
    BY <2>2, HoldingNothing
  <2>5. cached' \in VoiceLists /\ refs' \in [SapiTokens -> Int]
    BY <2>2, <2>3 DEF VoiceLists
  <2> QED
    BY <2>2, <2>3, <2>4, <2>5 DEF VoicesInv, Voices!Holding
<1>5. CASE Voices!Refresh
    BY <1>5, RefreshKeeps DEF Voices!Refresh
<1>6. CASE Voices!SetDefaultSettings
    BY <1>6, LeaksKeep DEF Voices!SetDefaultSettings
<1>7. ASSUME NEW v \in VoiceNumbers, Voices!SetVoiceOption(v) \/ Voices!OnVoiceIDChanged(v)
      PROVE  VoicesInv'
    BY <1>7, LeaksKeep DEF Voices!SetVoiceOption, Voices!OnVoiceIDChanged
<1>8. ASSUME NEW i \in 1..Cardinality(SapiTokens), Voices!SetVoiceOptionByName(i)
      PROVE  VoicesInv'
  <2> DEFINE kept == SubSeq(Voices!Found, i, Len(Voices!Found))
             more == [t \in SapiTokens |-> Voices!Holding(kept, t)]
  <2>1. Voices!Found \in VoiceLists
    BY FoundType DEF VoicesInv
  <2>2. i \in 1..Len(Voices!Found)
    BY <1>8, <2>1 DEF Voices!SetVoiceOptionByName, VoiceLists
  <2>3. kept \in VoiceLists
    <3> DEFINE V == [voiceID : Nat, token : SapiTokens]
               list == Voices!Found
    <3>1. list \in Seq(V)
      BY <2>1 DEF VoiceLists
    <3> HIDE DEF V, list
    <3>2. \A j \in i..Len(list) : list[j] \in V
      BY <3>1
    <3>3. SubSeq(list, i, Len(list)) \in Seq(V)
      BY <3>1, <3>2, SubSeqProperties
    <3> QED
      BY <3>3 DEF VoiceLists, V, list
  <2>4. more \in [SapiTokens -> Nat]
    BY <2>3, HoldingIs
  <2>5. refs' = [t \in SapiTokens |-> refs[t] + more[t]] /\ UNCHANGED <<installed, cached>>
    BY <1>8 DEF Voices!SetVoiceOptionByName
  <2> HIDE DEF more
  <2> QED
    BY <2>4, <2>5, MoreKeeps
<1>9. CASE UNCHANGED voicesVars
    BY <1>1, <1>9 DEF voicesVars
<1> QED
    BY <1>2, <1>3, <1>4, <1>5, <1>6, <1>7, <1>8, <1>9, VoicesCount
    DEF Voices!Next

LEMMA VoicesHold == VoicesInv => Voices!CachedTokensHeld
<1> SUFFICES ASSUME VoicesInv, NEW i \in DOMAIN cached
             PROVE  refs[cached[i].token] >= Voices!Holding(cached, cached[i].token)
    BY DEF Voices!CachedTokensHeld
<1>1. cached[i] \in [voiceID : Nat, token : SapiTokens]
  <2> DEFINE V == [voiceID : Nat, token : SapiTokens]
  <2>1. cached \in Seq(V)
    BY DEF VoicesInv, VoiceLists
  <2> HIDE DEF V
  <2>2. cached[i] \in V
    BY <2>1
  <2> QED
    BY <2>2 DEF V
<1>2. cached[i].token \in SapiTokens
    BY <1>1
<1> QED
    BY <1>2 DEF VoicesInv

\* However voices come and go, every voice of the list is one the library holds
\* a reference on, for any voices and any number of references left behind by
\* the choices (VoiceChat.cpp:146, 182-203, 533).
THEOREM CachedAreHeld == Spec => []CachedTokensHeld
<1>1. Init => VoicesInv
    BY VoicesInit DEF Init
<1>2. VoicesInv /\ [Next]_vars => VoicesInv'
    BY VoicesOnly, VoicesKeep
<1>3. VoicesInv => CachedTokensHeld
    BY VoicesHold DEF CachedTokensHeld
<1> QED
    BY <1>1, <1>2, <1>3, PTL DEF Spec
-------------------------------------------------------------------------------
\* The types.  To each component's invariant a ...Rest adds what of its types the
\* proofs above did not need.

HighlightRest == highlightAttached <= MaxHighlights /\ lit \subseteq highlightPresent

LEMMA HighlightRestKeeps == HighlightRest /\ [Highlight!Next]_highlightVars => HighlightRest'
<1> SUFFICES ASSUME HighlightRest, [Highlight!Next]_highlightVars PROVE HighlightRest'
    OBVIOUS
<1>1. ASSUME NEW v \in -1..3, Highlight!Handler(v) PROVE HighlightRest'
    BY <1>1 DEF HighlightRest, Highlight!Handler
<1>2. ASSUME NEW o \in Things, Highlight!Check(o) \/ Highlight!Vanish(o) PROVE HighlightRest'
    BY <1>2 DEF HighlightRest, Highlight!Check, Highlight!Vanish
<1>3. CASE UNCHANGED highlightVars
    BY <1>3 DEF HighlightRest, highlightVars
<1> QED
    BY <1>1, <1>2, <1>3 DEF Highlight!Next

\* Who is requested, and who is due, is an object; the places stay in their set.
LEMMA InteractionTypes == Interact!TypeOK /\ [Interact!Next]_interactionVars => Interact!TypeOK'
<1> SUFFICES ASSUME Interact!TypeOK, [Interact!Next]_interactionVars PROVE Interact!TypeOK'
    OBVIOUS
<1> USE DEF Interact!TypeOK, Interact!queue, Interact!scene
<1>0. MaxLoads \in Nat
    BY FeaturesAssumption
<1>1. ASSUME NEW tried, Interact!QueueInteract(tried), UNCHANGED interactionPresent
      PROVE  requested' \in Targets \cup {NoTarget} /\ due' \in Targets \cup {NoTarget} /\ unasked' \in BOOLEAN
  <2>1. Interact!Candidates(tried) \subseteq Targets
    BY DEF Interact!Candidates, Interact!Eligible
  <2> QED
    BY <1>1, <2>1 DEF Interact!QueueInteract
<1>2. CASE Interact!EnterWorld \/ Interact!LeaveWorld
  <2>1. DOMAIN <<>> = {}
    OBVIOUS
  <2> QED
    BY <1>2, <2>1 DEF Interact!EnterWorld, Interact!LeaveWorld
<1>3. CASE Interact!LoadUI
    BY <1>0, <1>3 DEF Interact!LoadUI
<1>4. ASSUME NEW o \in Targets, Interact!Vanish(o) PROVE Interact!TypeOK'
    BY <1>4 DEF Interact!Vanish
<1>5. ASSUME NEW o \in Targets, NEW p \in Spots, Interact!Appear(o, p) PROVE Interact!TypeOK'
    BY <1>5 DEF Interact!Appear
<1>6. ASSUME NEW v \in 0..1, Interact!CVarHandler_interactionMode(v) PROVE Interact!TypeOK'
    BY <1>6 DEF Interact!CVarHandler_interactionMode
<1>7. ASSUME NEW tried, Interact!Call(tried) PROVE Interact!TypeOK'
    BY <1>1, <1>7 DEF Interact!Call
<1>8. ASSUME NEW tried, NEW k \in SUBSET Interact!Keywords, Interact!SlashInteract(tried, k)
      PROVE  Interact!TypeOK'
    BY <1>1, <1>8 DEF Interact!SlashInteract
<1>9. CASE Interact!BeginUpdate
    BY <1>9 DEF Interact!BeginUpdate
<1>10. CASE Interact!ProcessQueuedInteraction
  <2>1. turns' \in 0..registered'
    BY <1>0, <1>10 DEF Interact!ProcessQueuedInteraction
  <2>2. Interact!Candidates(Targets) \subseteq Targets
    BY DEF Interact!Candidates
  <2>3. /\ requested' \in Targets \cup {NoTarget} /\ due' \in Targets \cup {NoTarget}
        /\ unasked' \in BOOLEAN
    BY <1>10, <2>2 DEF Interact!ProcessQueuedInteraction, Interact!Click
  <2> QED
    BY <1>10, <2>1, <2>3 DEF Interact!ProcessQueuedInteraction
<1>11. CASE Interact!TrackTerrain \/ Interact!ResetKeywordFlags
    BY <1>11 DEF Interact!TrackTerrain, Interact!ResetKeywordFlags
<1>12. ASSUME NEW k \in Interact!Keywords, Interact!Parse(k) PROVE Interact!TypeOK'
    BY <1>12 DEF Interact!Parse
<1>13. CASE UNCHANGED interactionVars
    BY <1>13 DEF interactionVars
<1> QED
    BY <1>2, <1>3, <1>4, <1>5, <1>6, <1>7, <1>8, <1>9, <1>10, <1>11, <1>12, <1>13
    DEF Interact!Next

\* A listed plate is never raised further than it may be.
LayoutRest ==
    /\ layoutFresh \subseteq layoutListed /\ smart \in BOOLEAN /\ clash \subseteq Layout!Pairs
    /\ \A p \in layoutListed : offset[p] <= MaxRaise

LEMMA LayoutRestKeeps == LayoutInv /\ LayoutRest /\ [Layout!Next]_layoutVars => LayoutRest'
<1> SUFFICES ASSUME LayoutTypes, LayoutRest, [Layout!Next]_layoutVars PROVE LayoutRest'
    BY DEF LayoutInv
<1> USE DEF LayoutRest
<1>1. MaxRaise \in Nat /\ layoutListed \subseteq LayoutPlates /\ offset \in [LayoutPlates -> Int]
    BY FeaturesAssumption DEF LayoutTypes
<1>2. ASSUME NEW p \in LayoutPlates, NEW h \in Heights, Layout!Move(p, h) PROVE LayoutRest'
    BY <1>2 DEF Layout!Move
<1>3. ASSUME NEW p \in LayoutPlates, Layout!Show(p) PROVE LayoutRest'
    BY <1>1, <1>3 DEF Layout!Show
<1>4. ASSUME NEW p \in LayoutPlates, Layout!Drop(p) PROVE LayoutRest'
    BY <1>4 DEF Layout!Drop
<1>5. CASE Layout!NameplateStacking
    BY <1>5 DEF Layout!NameplateStacking
<1>6. ASSUME NEW half \in BOOLEAN,
             NEW near \in SUBSET {s \in Layout!Pairs : s \subseteq layoutListed},
             NEW through \in Layout!Throughs, NEW edges \in BOOLEAN,
             Layout!Frame(half, near, through, edges)
      PROVE  LayoutRest'
  <2> DEFINE t == Layout!Pushed(half, near, through)
  <2>1. layoutFresh' = {} /\ smart' = smart /\ layoutListed' = layoutListed /\ clash' \subseteq near
        /\ offset' = Layout!Limited(t, edges)
    BY <1>6 DEF Layout!Frame
  <2>2. t \in Tops
    BY PushedLeaves DEF Layout!Throughs
  <2> HIDE DEF t
  <2>3. ASSUME NEW p \in layoutListed PROVE offset'[p] <= MaxRaise
    <3>1. offset'[p] = IF t[p] < Layout!Least(p, edges) THEN Layout!Least(p, edges)
                       ELSE IF t[p] > Layout!Limit(p) THEN Layout!Limit(p) ELSE t[p]
      BY <1>1, <2>1 DEF Layout!Limited
    <3>2. t[p] \in Int /\ y[p] \in Int /\ Layout!Limit(p) \in Int /\ Layout!Least(p, edges) \in Int
      BY <1>1, <2>2, LayoutNumbers DEF Tops
    <3>3. Ceiling - y[p] \in Int /\ Floor - y[p] \in Int
      BY <3>2, FeaturesAssumption
    <3>4. Layout!Limit(p) <= MaxRaise
      BY <1>1, <3>3 DEF Layout!Limit
    <3>5. Layout!Least(p, edges) <= MaxRaise
      BY <1>1, <3>3 DEF Layout!Least, Layout!NoLimit
    <3> QED
      BY <1>1, <3>1, <3>2, <3>4, <3>5
  <2> QED
    BY <2>1, <2>3
<1>7. CASE UNCHANGED layoutVars
    BY <1>7 DEF layoutVars
<1> QED
    BY <1>2, <1>3, <1>4, <1>5, <1>6, <1>7 DEF Layout!Next

LEMMA LayoutTypesHold == LayoutInv /\ LayoutRest => Layout!TypeOK
    BY DEF LayoutInv, LayoutTypes, LayoutRest, Layout!TypeOK

\* A run ends in one of three ways.
PatchRest == result \in {"none", "applied", "noLib", "error"}

LEMMA PatchRestKeeps == PatchRest /\ [Patch!Next]_patcherVars => PatchRest'
    BY DEF PatchRest, patcherVars, Patch!Next, Patch!Start, Patch!Run, Patch!ApplyPatches,
        Patch!Fail, Patch!WriteFile, Patch!CopyLibrary, Patch!Kill

LEMMA PatchTypesHold == Patching /\ PatchRest => Patch!TypeOK
<1> SUFFICES ASSUME Patching, PatchRest PROVE Patch!TypeOK
    OBVIOUS
<1>1. \A n \in 1..Names : exe[n].size \in 0..Patch!Full /\ exe[n].done \subseteq Patch!Patches
    BY DEF Patching, Executable
<1> QED
    BY <1>1 DEF Patching, PatchRest, Patch!TypeOK

\* The kinds of what is managed, and the three states of the device.
ResourcesRest == /\ d3dDevice \in {"ok", "lost", "none"}
                 /\ \A p \in DOMAIN managed : managed[p] \in Resources!Kinds
                 /\ alive = [p \in Pointers |-> alive[p]]

LEMMA ResourcesRestKeeps == ResourcesRest /\ [Resources!Next]_d3dVars => ResourcesRest'
<1> SUFFICES ASSUME ResourcesRest, [Resources!Next]_d3dVars PROVE ResourcesRest'
    OBVIOUS
<1> USE DEF ResourcesRest
<1>1. ASSUME NEW p \in Pointers, NEW kind \in Resources!Kinds, NEW locks \in BOOLEAN,
             Resources!Create(p, kind, locks)
      PROVE  ResourcesRest'
  <2> DEFINE n == Resources!Taken(p, kind, locks)
  <2>1. alive' = [alive EXCEPT ![p] = @ + n]
    BY <1>1 DEF Resources!Create
  <2> HIDE DEF n
  <2>2. alive' = [q \in Pointers |-> alive'[q]]
    BY <2>1
  <2>3. d3dDevice' = d3dDevice
        /\ \A q \in DOMAIN managed' : managed'[q] \in Resources!Kinds
    BY <1>1 DEF Resources!Create, Resources!RegisterForCleanup
  <2> QED
    BY <2>2, <2>3
<1>2. CASE \/ Resources!CreateDevice \/ Resources!DestroyDevice
           \/ Resources!LoseDevice \/ Resources!RegainDevice
           \/ Resources!ReleaseD3dResources \/ UNCHANGED d3dVars
    BY <1>2 DEF Resources!CreateDevice, Resources!DestroyDevice, Resources!LoseDevice,
        Resources!RegainDevice, Resources!ReleaseD3dResources, Resources!Cleanup, d3dVars
<1>3. ASSUME NEW done \in SUBSET Pointers, NEW locks \in BOOLEAN, Resources!Restore(done, locks)
      PROVE  ResourcesRest'
    BY <1>3 DEF Resources!Restore
<1> QED
    BY <1>1, <1>2, <1>3 DEF Resources!Next

LEMMA ResourcesTypesHold == ResourcesInv /\ ResourcesRest => Resources!TypeOK
<1> SUFFICES ASSUME ResourcesInv, ResourcesRest PROVE Resources!TypeOK
    OBVIOUS
<1>1. DOMAIN alive = Pointers /\ \A p \in Pointers : alive[p] \in 0..2
    BY DEF ResourcesInv, Accounted, One
<1>2. alive \in [Pointers -> 0..2]
    BY <1>1 DEF ResourcesRest
<1> QED
    BY <1>2 DEF ResourcesInv, ResourcesRest, Resources!TypeOK

\* Faces and fonts are of the kinds there are, a font of a library that was opened.
LEMMA EngineTypes == Engine!TypeOK /\ [Engine!Next]_engineVars => Engine!TypeOK'
<1> SUFFICES ASSUME Engine!TypeOK, [Engine!Next]_engineVars PROVE Engine!TypeOK'
    OBVIOUS
<1> USE DEF Engine!settings, Engine!latched, Engine!libraries
<1>0. MaxLibraries \in Nat /\ MaxAttached \in Nat /\ DOMAIN <<>> = {}
    BY FeaturesAssumption
<1>1. ASSUME NEW v \in 0..2, Engine!CVarHandler_MSDFMode(v) PROVE Engine!TypeOK'
  <2>1. engineAttached' \in 0..MaxAttached
    BY <1>0, <1>1 DEF Engine!CVarHandler_MSDFMode, Engine!TypeOK
  <2> QED
    BY <1>1, <2>1 DEF Engine!CVarHandler_MSDFMode, Engine!TypeOK
<1>2. CASE Engine!FreeType_Init
  <2>1. /\ opened' \in 0..MaxLibraries /\ msdf' \in 0..opened' /\ opened <= opened'
        /\ library' \in {"none", "client", "real"}
    BY <1>0, <1>2 DEF Engine!FreeType_Init, Engine!FreeType_InitHk, Engine!TypeOK
  <2>2. {initialized', unsafe', cjk', redirected'} \subseteq BOOLEAN
    BY <1>2 DEF Engine!FreeType_Init, Engine!FreeType_InitHk, Engine!TypeOK
  <2>3. /\ engineMode' = engineMode /\ engineAttached' = engineAttached
        /\ faces' = faces /\ fonts' = fonts
    BY <1>2 DEF Engine!FreeType_Init
  <2>4. \A f \in DOMAIN fonts : fonts[f].msdf \in 1..opened'
    BY <2>1 DEF Engine!TypeOK
  <2> QED
    BY <2>1, <2>2, <2>3, <2>4 DEF Engine!TypeOK
<1>3. CASE Engine!Done_FreeType
    BY <1>0, <1>3 DEF Engine!Done_FreeType, Engine!TypeOK
<1>4. ASSUME NEW f \in Faces, Engine!Done_Face(f) PROVE Engine!TypeOK'
    BY <1>4 DEF Engine!Done_Face, Engine!Without, Engine!TypeOK
<1>5. ASSUME NEW f \in Faces, NEW file \in FontFiles, Engine!NewMemoryFace(f, file)
      PROVE  Engine!TypeOK'
  <2>1. UNCHANGED <<engineMode, engineAttached, initialized, unsafe, cjk, redirected,
                    library, msdf, opened>>
    BY <1>5 DEF Engine!NewMemoryFace
  <2>2. /\ DOMAIN faces' \subseteq Faces
        /\ \A g \in DOMAIN faces' : /\ faces'[g].maker \in {"client", "real"}
                                    /\ faces'[g].file \in FontFiles
    BY <1>5 DEF Engine!NewMemoryFace, Engine!With, Engine!TypeOK
  <2>3. /\ DOMAIN fonts' \subseteq Faces
        /\ \A g \in DOMAIN fonts' : fonts'[g].file \in FontFiles /\ fonts'[g].msdf \in 1..opened
    <3>1. CASE fonts' = fonts
      BY <3>1 DEF Engine!TypeOK
    <3>2. CASE msdf # 0 /\ fonts' = Engine!With(fonts, f, [file |-> file, msdf |-> msdf])
      <4>1. msdf \in 1..opened
        BY <1>0, <3>2 DEF Engine!TypeOK
      <4> QED
        BY <3>2, <4>1 DEF Engine!With, Engine!TypeOK
    <3> QED
      BY <1>5, <3>1, <3>2 DEF Engine!NewMemoryFace, Engine!Register
  <2> QED
    BY <2>1, <2>2, <2>3 DEF Engine!TypeOK
<1>6. CASE UNCHANGED engineVars
    BY <1>6 DEF engineVars, Engine!TypeOK
<1> QED
    BY <1>1, <1>2, <1>3, <1>4, <1>5, <1>6 DEF Engine!Next

\* What is found among the first n tokens: some of them, each once, by its index.
Tells(list, n) ==
    /\ Len(list) <= n
    /\ \A i \in 1..Len(list) : /\ list[i].voiceID \in 0..(n - 1)
                               /\ list[i].token = installed[list[i].voiceID + 1]
    /\ \A i, j \in 1..Len(list) : i < j => list[i].voiceID < list[j].voiceID

LEMMA FoundTells ==
    ASSUME installed \in Seq(SapiTokens) PROVE Tells(Voices!Found, Len(installed))
<1> DEFINE N == Len(installed)
<1>1. PICK list : Finds(list)
    BY FoundIs
<1>2. /\ list \in [0..N -> VoiceLists] /\ list[0] = <<>> /\ N \in Nat
      /\ \A n \in 1..N :
            list[n] = IF installed[n].described
                      THEN Append(list[n - 1], [voiceID |-> n - 1, token |-> installed[n]])
                      ELSE list[n - 1]
      /\ Voices!Found = list[N]
    BY <1>1 DEF Finds
<1> HIDE DEF N
<1> DEFINE S == {n \in 0..N : Tells(list[n], n)}
<1>3. 0 \in S
    BY <1>2 DEF Tells
<1>4. ASSUME NEW n \in 1..N, n - 1 \in S PROVE n \in S
  <2> DEFINE u == list[n - 1]
             v == [voiceID |-> n - 1, token |-> installed[n]]
  <2>1. /\ n \in Nat /\ n - 1 \in 0..N /\ n \in 0..N
    BY <1>2
  <2>2. Tells(u, n - 1) /\ u \in VoiceLists
    BY <1>2, <1>4, <2>1
  <2>3. list[n] = IF installed[n].described THEN Append(u, v) ELSE u
    BY <1>2
  <2> HIDE DEF u
  <2>4. Len(u) \in Nat
    BY <2>2 DEF VoiceLists
  <2>5. Tells(u, n)
    BY <2>1, <2>2, <2>4 DEF Tells
  <2>6. Tells(Append(u, v), n)
    <3> DEFINE w == Append(u, v)
    <3>1. /\ Len(w) = Len(u) + 1 /\ w[Len(u) + 1] = v
          /\ \A i \in 1..Len(u) : w[i] = u[i]
      BY <2>2 DEF VoiceLists
    <3>2. v.voiceID = n - 1 /\ v.token = installed[n]
      OBVIOUS
    <3> HIDE DEF w, v
    <3>3. ASSUME NEW i \in 1..Len(w)
          PROVE  w[i].voiceID \in 0..(n - 1) /\ w[i].token = installed[w[i].voiceID + 1]
      <4>1. CASE i \in 1..Len(u)
        BY <2>1, <2>5, <3>1, <4>1 DEF Tells
      <4>2. CASE i = Len(u) + 1
        BY <2>1, <3>1, <3>2, <4>2
      <4> QED
        BY <2>4, <3>1, <4>1, <4>2
    <3>4. ASSUME NEW i \in 1..Len(w), NEW j \in 1..Len(w), i < j
          PROVE  w[i].voiceID < w[j].voiceID
      <4>1. i \in 1..Len(u)
        BY <2>4, <3>1, <3>4
      <4>2. CASE j \in 1..Len(u)
        BY <2>2, <3>1, <3>4, <4>1, <4>2 DEF Tells
      <4>3. CASE j = Len(u) + 1
        <5>1. w[i].voiceID \in 0..(n - 1 - 1) /\ w[j].voiceID = n - 1
          BY <2>2, <3>1, <3>2, <4>1, <4>3 DEF Tells
        <5> QED
          BY <2>1, <5>1
      <4> QED
        BY <2>4, <3>1, <4>2, <4>3
    <3>5. Len(w) <= n
      BY <2>1, <2>2, <2>4, <3>1 DEF Tells
    <3> QED
      BY <3>3, <3>4, <3>5 DEF Tells, w
  <2>7. Tells(list[n], n)
    BY <2>3, <2>5, <2>6
  <2> QED
    BY <2>1, <2>7
<1>5. 0..N \subseteq S
  <2>1. \A n \in 1..N : n - 1 \in S => n \in S
    BY <1>4
  <2> HIDE DEF S
  <2> QED
    BY <1>2, <1>3, <2>1, InductiveUpTo
<1> QED
    BY <1>2, <1>5 DEF N

\* No token is in SAPI's list twice, nor in the one the library makes of it.
LEMMA HeldOnce ==
    ASSUME installed \in Voices!Lists, NEW t PROVE Voices!Holding(Voices!Found, t) <= 1
<1> DEFINE list == Voices!Found
           H == {i \in DOMAIN list : list[i].token = t}
<1>1. installed \in Seq(SapiTokens) /\ \A a, b \in DOMAIN installed : installed[a] = installed[b] => a = b
    BY ListsAre DEF Voices!Lists, Voices!IsInjective
<1>2. Tells(list, Len(installed)) /\ list \in VoiceLists
    BY <1>1, FoundTells, FoundType
<1> HIDE DEF list
<1>3. DOMAIN list = 1..Len(list) /\ Len(list) \in Nat /\ Len(installed) \in Nat
      /\ DOMAIN installed = 1..Len(installed)
    BY <1>1, <1>2 DEF VoiceLists
<1>4. ASSUME NEW i \in H, NEW j \in H PROVE i = j
  <2>1. /\ i \in 1..Len(list) /\ j \in 1..Len(list)
        /\ installed[list[i].voiceID + 1] = t /\ installed[list[j].voiceID + 1] = t
        /\ list[i].voiceID \in 0..(Len(installed) - 1) /\ list[j].voiceID \in 0..(Len(installed) - 1)
    BY <1>2, <1>3 DEF Tells
  <2> DEFINE a == list[i].voiceID + 1
             b == list[j].voiceID + 1
  <2>2. a \in DOMAIN installed /\ b \in DOMAIN installed /\ installed[a] = installed[b]
    BY <1>3, <2>1
  <2>3. a = b
    <3> HIDE DEF a, b
    <3> QED
      BY <1>1, <2>2
  <2>4. list[i].voiceID = list[j].voiceID
    BY <2>1, <2>3
  <2>5. ~(i < j) /\ ~(j < i)
    BY <1>2, <2>1, <2>4 DEF Tells
  <2> QED
    BY <2>1, <2>5
<1>5. H = {} \/ \E i : H = {i}
    BY <1>4
<1> HIDE DEF H
<1>6. Cardinality(H) <= 1
  <2>1. CASE H = {}
    BY <2>1, FS_EmptySet
  <2>2. ASSUME NEW i, H = {i} PROVE Cardinality(H) <= 1
    BY <2>2, FS_Singleton
  <2> QED
    BY <1>5, <2>1, <2>2
<1> QED
    BY <1>6, VoicesCount DEF Voices!Holding, list, H

\* Beyond the references on what is cached no more are left behind than the
\* bound on a behaviour lets through.
VoicesRest ==
    /\ installed \in Voices!Lists /\ inWorld \in BOOLEAN
    /\ voiceId \in -1..Cardinality(SapiTokens)
    /\ \A i \in DOMAIN cached : cached[i].voiceID \in 0..Cardinality(SapiTokens)
    /\ \A t \in SapiTokens : /\ Voices!Holding(cached, t) <= 1
                             /\ refs[t] <= MaxRefs + Voices!Holding(cached, t)

LEMMA FoundFits ==
    ASSUME installed \in Voices!Lists
    PROVE  /\ Voices!Found \in VoiceLists /\ Len(Voices!Found) \in 0..Cardinality(SapiTokens)
           /\ Cardinality(SapiTokens) \in Nat
           /\ \A i \in DOMAIN Voices!Found : Voices!Found[i].voiceID \in 0..Cardinality(SapiTokens)
<1>1. installed \in Seq(SapiTokens) /\ Len(installed) \in 0..Cardinality(SapiTokens)
      /\ Cardinality(SapiTokens) \in Nat
  <2>1. Cardinality(SapiTokens) \in Nat /\ Voices!Cardinality(SapiTokens) = Cardinality(SapiTokens)
    BY FeaturesAssumption, FS_CardinalityType, VoicesCount
  <2>2. PICK m \in 0..Cardinality(SapiTokens) : installed \in [1..m -> SapiTokens]
    BY <2>1 DEF Voices!Lists, Voices!SeqOf
  <2>3. Len(installed) = m
    BY <2>1, <2>2
  <2> QED
    BY <2>1, <2>3, ListsAre
<1>2. Tells(Voices!Found, Len(installed)) /\ Voices!Found \in VoiceLists
    BY <1>1, FoundTells, FoundType
<1> DEFINE list == Voices!Found
<1> HIDE DEF list
<1>3. DOMAIN list = 1..Len(list) /\ Len(list) \in Nat
    BY <1>2 DEF VoiceLists, list
<1>4. Tells(list, Len(installed))
    BY <1>2 DEF list
<1>5. /\ Len(list) \in 0..Cardinality(SapiTokens)
      /\ \A i \in DOMAIN list : list[i].voiceID \in 0..Cardinality(SapiTokens)
    BY <1>1, <1>3, <1>4 DEF Tells
<1> QED
    BY <1>1, <1>2, <1>5 DEF list

LEMMA VoicesRestKeeps == VoicesInv /\ VoicesRest /\ [Voices!Next]_voicesVars => VoicesRest'
<1> SUFFICES ASSUME VoicesInv, VoicesRest, [Voices!Next]_voicesVars PROVE VoicesRest'
    OBVIOUS
<1> DEFINE new == Voices!Found
           C == Cardinality(SapiTokens)
<1>1. /\ new \in VoiceLists /\ Len(new) \in 0..C /\ C \in Nat
      /\ \A i \in DOMAIN new : new[i].voiceID \in 0..C
      /\ \A t \in SapiTokens : Voices!Holding(new, t) <= 1 /\ Voices!Holding(new, t) \in Nat
    BY FoundFits, HeldOnce, HoldingIs DEF VoicesRest
<1>2. /\ installed \in Voices!Lists /\ inWorld \in BOOLEAN /\ voiceId \in -1..C
      /\ \A i \in DOMAIN cached : cached[i].voiceID \in 0..C
      /\ \A t \in SapiTokens : /\ Voices!Holding(cached, t) <= 1 /\ refs[t] \in Int
                               /\ Voices!Holding(cached, t) \in Nat
                               /\ refs[t] <= MaxRefs + Voices!Holding(cached, t)
      /\ MaxRefs \in Nat
    BY HoldingIs, FeaturesAssumption DEF VoicesRest, VoicesInv
<1>3. ASSUME cached' = cached, installed' \in Voices!Lists, inWorld' \in BOOLEAN,
             voiceId' \in -1..C,
             \A t \in SapiTokens : refs'[t] <= MaxRefs + Voices!Holding(cached, t)
      PROVE  VoicesRest'
  <2>1. \A t : Voices!Holding(cached, t)' = Voices!Holding(cached, t)
    BY <1>3 DEF Voices!Holding
  <2> QED
    BY <1>2, <1>3, <2>1 DEF VoicesRest
<1>4. ASSUME cached' = cached, installed' = installed, inWorld' = inWorld,
             voiceId' \in -1..C, \A t \in SapiTokens : refs'[t] <= MaxRefs /\ refs'[t] \in Int
      PROVE  VoicesRest'
    BY <1>2, <1>3, <1>4
<1>5. ASSUME Voices!RefreshVoices, installed' = installed, inWorld' \in BOOLEAN, voiceId' = voiceId
      PROVE  VoicesRest'
  <2>1. CASE UNCHANGED <<cached, refs>>
    BY <1>2, <1>3, <1>5, <2>1
  <2>2. CASE cached' = new /\ refs' = Voices!Released(Voices!Taken(new), cached)
    <3> HIDE DEF new
    <3>1. ASSUME NEW t \in SapiTokens
          PROVE  refs'[t] = (refs[t] + Voices!Holding(new, t)) - Voices!Holding(cached, t)
      BY <2>2 DEF Voices!Released, Voices!Taken
    <3>2. \A t \in SapiTokens : refs'[t] <= MaxRefs + Voices!Holding(new, t)
      BY <1>1, <1>2, <3>1
    <3>3. \A t : Voices!Holding(cached', t) = Voices!Holding(new, t)
      BY <2>2
    <3>4. \A i \in DOMAIN cached' : cached'[i].voiceID \in 0..C
      BY <1>1, <2>2
    <3> QED
      BY <1>1, <1>2, <1>5, <3>2, <3>3, <3>4 DEF VoicesRest, Voices!Holding
  <2> QED
    BY <1>5, <2>1, <2>2 DEF Voices!RefreshVoices
<1> HIDE DEF C
<1>6. CASE Voices!Install
    BY <1>2, <1>3, <1>6 DEF Voices!Install
<1>7. CASE Voices!EnterWorld
    BY <1>2, <1>3, <1>5, <1>7 DEF Voices!EnterWorld
<1>8. CASE Voices!LeaveWorld
  <2>1. cached' = <<>> /\ refs' = Voices!Released(refs, cached)
        /\ installed' = installed /\ inWorld' = FALSE /\ voiceId' = voiceId
    BY <1>8 DEF Voices!LeaveWorld
  <2>2. \A t \in SapiTokens : refs'[t] = refs[t] - Voices!Holding(cached, t)
    BY <2>1 DEF Voices!Released
  <2>3. \A t \in SapiTokens : refs'[t] <= MaxRefs
    BY <1>2, <2>2
  <2>4. \A t : Voices!Holding(cached', t) = 0
    BY <2>1, HoldingNothing
  <2>5. DOMAIN cached' = {}
    BY <2>1
  <2>6. \A t \in SapiTokens : /\ Voices!Holding(cached', t) <= 1
                              /\ refs'[t] <= MaxRefs + Voices!Holding(cached', t)
    BY <1>2, <2>3, <2>4
  <2> QED
    BY <1>2, <2>1, <2>5, <2>6 DEF VoicesRest, Voices!Holding, C
<1>9. CASE Voices!Refresh
    BY <1>2, <1>5, <1>9 DEF Voices!Refresh
<1>10. ASSUME NEW n \in Nat, Voices!Leaks(n)
       PROVE  \A t \in SapiTokens : refs'[t] <= MaxRefs /\ refs'[t] \in Int
  <2>1. ASSUME NEW t \in SapiTokens PROVE refs'[t] \in Int
    <3>1. refs'[t] = refs[t] + n * Voices!Holding(new, t)
      BY <1>10 DEF Voices!Leaks
    <3>2. n * Voices!Holding(new, t) \in Int
      BY <1>1
    <3> QED
      BY <1>2, <3>1, <3>2
  <2> QED
    BY <1>10, <2>1 DEF Voices!Leaks
<1>11. ASSUME NEW v \in Int, NEW max \in -1..C, Voices!Choose(v, max), v \in -1..C \/ max >= 0
       PROVE  voiceId' \in -1..C
    BY <1>1, <1>11 DEF Voices!Choose
<1>12. CASE Voices!SetDefaultSettings
  <2> DEFINE v == IF Len(new) > 1 THEN 1 ELSE 0
  <2>1. v \in 0..C /\ Len(new) - 1 \in -1..C /\ v \in Int
    BY <1>1
  <2>2. voiceId' \in -1..C
    BY <1>1, <1>11, <1>12, <2>1 DEF Voices!SetDefaultSettings
  <2> QED
    BY <1>4, <1>10, <1>12, <2>2 DEF Voices!SetDefaultSettings
<1>13. ASSUME NEW v \in VoiceNumbers, Voices!SetVoiceOption(v) PROVE VoicesRest'
  <2>1. voiceId' \in -1..C
    BY <1>1, <1>11, <1>13, FeaturesAssumption DEF Voices!SetVoiceOption
  <2> QED
    BY <1>4, <1>10, <1>13, <2>1 DEF Voices!SetVoiceOption
<1>14. ASSUME NEW v \in VoiceNumbers, Voices!OnVoiceIDChanged(v) PROVE VoicesRest'
  <2> DEFINE max == IF new = <<>> THEN 0 ELSE Len(new) - 1
  <2>1. max \in -1..C /\ max >= 0 /\ v \in Int
    BY <1>1, FeaturesAssumption DEF VoiceLists
  <2>2. Voices!Choose(v, max)
    BY <1>14 DEF Voices!OnVoiceIDChanged
  <2>3. voiceId' \in -1..C
    BY <1>11, <2>1, <2>2
  <2> QED
    BY <1>4, <1>10, <1>14, <2>3 DEF Voices!OnVoiceIDChanged
<1>15. ASSUME NEW i \in 1..Cardinality(SapiTokens), Voices!SetVoiceOptionByName(i)
       PROVE  VoicesRest'
  <2>1. voiceId' \in -1..C
    BY <1>1, <1>15 DEF Voices!SetVoiceOptionByName, C
  <2>2. \A t \in SapiTokens : refs'[t] <= MaxRefs + Voices!Holding(cached, t)
    <3> TAKE t \in SapiTokens
    <3>1. VoicesInv'
      BY <1>15, VoicesKeep, VoicesCount DEF Voices!Next
    <3>2. refs'[t] \in Int /\ refs'[t] <= MaxRefs
      BY <1>15, <3>1 DEF VoicesInv, Voices!SetVoiceOptionByName
    <3> QED
      BY <1>2, <3>2
  <2> QED
    BY <1>2, <1>3, <1>15, <2>1, <2>2 DEF Voices!SetVoiceOptionByName
<1>16. CASE UNCHANGED voicesVars
    BY <1>2, <1>3, <1>16 DEF voicesVars
<1> QED
    BY <1>6, <1>7, <1>8, <1>9, <1>12, <1>13, <1>14, <1>15, <1>16, VoicesCount
    DEF Voices!Next

LEMMA VoicesTypesHold == VoicesInv /\ VoicesRest => Voices!TypeOK
<1> SUFFICES ASSUME VoicesInv, VoicesRest PROVE Voices!TypeOK
    OBVIOUS
<1>1. Voices!Cardinality(SapiTokens) = Cardinality(SapiTokens) /\ MaxRefs \in Nat
    BY VoicesCount, FeaturesAssumption
<1>2. \A i \in DOMAIN cached : cached[i].token \in SapiTokens
  <2> DEFINE V == [voiceID : Nat, token : SapiTokens]
  <2>1. cached \in Seq(V)
    BY DEF VoicesInv, VoiceLists
  <2> HIDE DEF V
  <2>2. \A i \in DOMAIN cached : cached[i] \in V
    BY <2>1
  <2> QED
    BY <2>2 DEF V
<1>3. refs \in [SapiTokens -> 0..(MaxRefs + 1)]
  <2>1. \A t \in SapiTokens : refs[t] \in 0..(MaxRefs + 1)
    BY <1>1, HoldingIs DEF VoicesInv, VoicesRest
  <2> QED
    BY <2>1 DEF VoicesInv
<1> QED
    BY <1>1, <1>2, <1>3 DEF VoicesRest, Voices!TypeOK

\* Every variable of the eight components stays within its type: no plate is
\* raised further than it may be, no more references are left on a voice than
\* the choices leave behind and the list holds, a font is of a library that was
\* opened, an address has a resource and a surface at most (NamePlates.cpp:873-894;
\* VoiceChat.cpp:146-203; MSDF.cpp:434-498; D3D.cpp:51-62).
THEOREM TypeCorrect == Spec => []TypeOK
<1> DEFINE Inv == /\ Lighting /\ HighlightRest /\ VoicesInv /\ VoicesRest
                  /\ Interact!TypeOK /\ LayoutInv /\ LayoutRest /\ PairsInv
                  /\ Patching /\ PatchRest /\ Engine!TypeOK
                  /\ ResourcesInv /\ ResourcesRest
<1>0. Sizes
    BY FeaturesAssumption DEF Sizes
<1>1. ASSUME Init PROVE Inv
  <2>1. /\ Highlight!Init /\ Voices!Init /\ Interact!Init /\ Layout!Init
        /\ PairsOf!Init /\ Patch!Init /\ Engine!Init /\ Resources!Init
    BY <1>1 DEF Init
  <2>2. DOMAIN <<>> = {}
    OBVIOUS
  <2>3. HighlightRest /\ LayoutRest /\ PatchRest /\ ResourcesRest
    <3>1. HighlightRest
      BY <2>1, FeaturesAssumption DEF HighlightRest, Highlight!Init
    <3>2. LayoutRest
      BY <2>1 DEF LayoutRest, Layout!Init
    <3>3. PatchRest
      BY <2>1 DEF PatchRest, Patch!Init
    <3>4. ResourcesRest
      BY <2>1, <2>2 DEF ResourcesRest, Resources!Init
    <3> QED
      BY <3>1, <3>2, <3>3, <3>4
  <2>4. VoicesRest
    <3>1. \A t : Voices!Holding(<<>>, t) = 0
      BY HoldingNothing
    <3>2. Cardinality(SapiTokens) \in Nat /\ MaxRefs \in Nat
      BY FeaturesAssumption, FS_CardinalityType
    <3>3. /\ installed \in Voices!Lists /\ inWorld = FALSE /\ voiceId = 0 /\ cached = <<>>
          /\ \A t \in SapiTokens : refs[t] = 0
      BY <2>1 DEF Voices!Init
    <3>4. \A t \in SapiTokens : /\ Voices!Holding(cached, t) <= 1
                                /\ refs[t] <= MaxRefs + Voices!Holding(cached, t)
      BY <3>1, <3>2, <3>3
    <3>5. DOMAIN cached = {}
      BY <2>2, <3>3
    <3>6. voiceId \in -1..Cardinality(SapiTokens)
      BY <3>2, <3>3
    <3>7. installed \in Voices!Lists /\ inWorld \in BOOLEAN
      BY <3>3
    <3> QED
      BY <3>4, <3>5, <3>6, <3>7 DEF VoicesRest
  <2>5. Interact!TypeOK
    <3>1. interactionPresent = <<>>
      BY <2>1 DEF Interact!Init
    <3>2. interactionMode \in 0..1 /\ turns \in 0..registered /\ registered \in 0..MaxLoads
      BY <2>1, FeaturesAssumption DEF Interact!Init
    <3>3. active = {} /\ requested = NoTarget /\ due = NoTarget
      BY <2>1 DEF Interact!Init
    <3>4. player \in BOOLEAN
      BY <2>1 DEF Interact!Init
    <3>5. unasked \in BOOLEAN
      BY <2>1 DEF Interact!Init
    <3> QED
      BY <2>2, <3>1, <3>2, <3>3, <3>4, <3>5 DEF Interact!TypeOK
  <2>6. Engine!TypeOK
    <3>1. faces = <<>> /\ fonts = <<>> /\ library = "none"
      BY <2>1 DEF Engine!Init
    <3>2. /\ engineMode \in 0..2 /\ engineAttached \in 0..MaxAttached
          /\ opened \in 0..MaxLibraries /\ msdf \in 0..opened
      BY <2>1, FeaturesAssumption DEF Engine!Init
    <3>3. {initialized, unsafe, cjk, redirected} \subseteq BOOLEAN
      BY <2>1 DEF Engine!Init
    <3> QED
      BY <2>2, <3>1, <3>2, <3>3 DEF Engine!TypeOK
  <2> QED
    BY <1>0, <1>1, <2>1, <2>3, <2>4, <2>5, <2>6, LightingInit, VoicesInit, LayoutInit,
       PairsInit, PatchingInit, ResourcesInit
<1>2. ASSUME Inv, [Next]_vars PROVE Inv'
  <2>1. Lighting' /\ HighlightRest'
    BY <1>2, HighlightOnly, HighlightKeeps, HighlightRestKeeps
  <2>2. VoicesInv' /\ VoicesRest'
    BY <1>2, VoicesOnly, VoicesKeep, VoicesRestKeeps
  <2>3. Interact!TypeOK'
    BY <1>2, InteractionOnly, InteractionTypes
  <2>4. LayoutInv' /\ LayoutRest'
    BY <1>2, LayoutOnly, LayoutKeeps, LayoutRestKeeps
  <2>5. PairsInv'
    BY <1>0, <1>2, PairsOnly, PairsKeep
  <2>6. Patching' /\ PatchRest'
    BY <1>2, PatcherOnly, PatcherKeeps, PatchRestKeeps
  <2>7. Engine!TypeOK'
    BY <1>2, EngineOnly, EngineTypes
  <2>8. ResourcesInv' /\ ResourcesRest'
    BY <1>2, ResourcesOnly, ResourcesKeep, ResourcesRestKeeps
  <2> QED
    BY <2>1, <2>2, <2>3, <2>4, <2>5, <2>6, <2>7, <2>8
<1>3. ASSUME Inv PROVE TypeOK
  <2>1. Highlight!TypeOK
    BY <1>3, FeaturesAssumption DEF Lighting, HighlightRest, Highlight!TypeOK
  <2> QED
    BY <1>3, <2>1, VoicesTypesHold, LayoutTypesHold, PatchTypesHold, ResourcesTypesHold
    DEF PairsInv, TypeOK
<1> QED
    BY <1>1, <1>2, <1>3, PTL DEF Spec
===============================================================================
