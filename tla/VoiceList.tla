------------------------------ MODULE VoiceList -------------------------------
(***************************************************************************)
(* The list of installed voices that C_VoiceChat and C_TTSSettings keep:   *)
(* g_cachedVoices with the reference each entry holds on its SAPI token,   *)
(* and the chosen voice.  Voices can be installed and removed at any time; *)
(* VOICE_CHAT_TTS_VOICES_UPDATE is fired by the actions that change the    *)
(* list or the choice, and is left out.                                    *)
(***************************************************************************)
EXTENDS Integers, Sequences, SequencesExt, FiniteSets

CONSTANTS Tokens,    \* SAPI voice tokens: records [name, described]
          Strings,   \* numbers that add-ons and the console set ttsVoice to
          MaxRefs    \* bound on the references a choice may leave on a token

VARIABLES installed,  \* the tokens SAPI enumerates, in its order
          inWorld,
          cached,     \* g_cachedVoices
          refs,       \* references this library holds on each token
          voiceId     \* g_voiceId

vars == <<installed, inWorld, cached, refs, voiceId>>

Lists == {s \in SeqOf(Tokens, Cardinality(Tokens)) : IsInjective(s)}
Voice == [voiceID : Nat, token : Tokens]

TypeOK ==
    /\ installed \in Lists
    /\ inWorld \in BOOLEAN
    /\ \A i \in DOMAIN cached : /\ cached[i].voiceID \in 0..Cardinality(Tokens)
                                /\ cached[i].token \in Tokens
    /\ refs \in [Tokens -> 0..(MaxRefs + 1)]
    /\ voiceId \in -1..Cardinality(Tokens)

Init ==
    /\ installed \in Lists
    /\ inWorld = FALSE
    /\ cached = <<>>
    /\ refs = [t \in Tokens |-> 0]
    /\ voiceId = 0

-------------------------------------------------------------------------------
\* VoiceChat_GetTtsVoices: a token without a description is skipped, but its
\* index is used up.  Each entry holds a reference.
Found ==
    LET found[n \in 0..Len(installed)] ==
          IF n = 0 THEN <<>>
          ELSE IF installed[n].described
          THEN Append(found[n - 1], [voiceID |-> n - 1, token |-> installed[n]])
          ELSE found[n - 1]
    IN  found[Len(installed)]

Holding(voices, t) == Cardinality({i \in DOMAIN voices : voices[i].token = t})
Taken(voices) == [t \in Tokens |-> refs[t] + Holding(voices, t)]
Released(r, voices) == [t \in Tokens |-> r[t] - Holding(voices, t)]

NamesOf(voices) == [i \in DOMAIN voices |-> voices[i].token.name]

\* The names are compared one by one.
Changed(new) == NamesOf(new) # NamesOf(cached)

\* mutant: the new voices are released also when they are kept
RefreshReleasesNew ==
    /\ IF Changed(Found)
       THEN /\ cached' = Found
            /\ refs' = Released(refs, cached)
       ELSE UNCHANGED <<cached, refs>>

\* VoiceChat_RefreshVoices: the lists take each other's place with their
\* references, or the new one is given back.
RefreshVoices ==
    IF Changed(Found)
    THEN /\ cached' = Found
         /\ refs' = Released(Taken(Found), cached)
    ELSE UNCHANGED <<cached, refs>>

-------------------------------------------------------------------------------
\* SAPI, and entering and leaving the world.

Install ==
    /\ installed' \in Lists
    /\ UNCHANGED <<inWorld, cached, refs, voiceId>>

EnterWorld ==
    /\ ~inWorld /\ inWorld' = TRUE
    /\ \/ RefreshVoices
       \/ UNCHANGED <<cached, refs>>   \* there is no voice object
    /\ UNCHANGED <<installed, voiceId>>

\* OnLeave.
LeaveWorld ==
    /\ inWorld /\ inWorld' = FALSE
    /\ refs' = Released(refs, cached)
    /\ cached' = <<>>
    /\ UNCHANGED <<installed, voiceId>>

\* GetTtsVoices and RefreshVoices; GetRemoteTtsVoices changes nothing.
Refresh ==
    /\ inWorld /\ RefreshVoices
    /\ UNCHANGED <<installed, inWorld, voiceId>>

-------------------------------------------------------------------------------
\* The chosen voice.  CVar::Sync clamps to 0..max; with no voice installed
\* SetDefaultSettings clamps to 0..-1, which std::clamp leaves undefined.

Choose(v, max) ==
    voiceId' \in IF max < 0 THEN {v, 0, max}
                 ELSE {IF v < 0 THEN 0 ELSE IF v > max THEN max ELSE v}

\* Enumerating for its size alone, the code keeps n references to each voice.
Leaks(n) ==
    /\ refs' = [t \in Tokens |-> refs[t] + n * Holding(Found, t)]
    /\ \A t \in Tokens : refs'[t] <= MaxRefs

SetDefaultSettings ==
    /\ inWorld
    /\ Choose(IF Len(Found) > 1 THEN 1 ELSE 0, Len(Found) - 1)
    /\ Leaks(2)
    /\ UNCHANGED <<installed, inWorld, cached>>

SetVoiceOption(v) ==
    /\ inWorld /\ Len(Found) > 0
    /\ Choose(v, Len(Found) - 1)
    /\ Leaks(1)
    /\ UNCHANGED <<installed, inWorld, cached>>

\* The voices before the one that is found are released, it and those behind
\* it are not.
SetVoiceOptionByName(i) ==
    /\ inWorld /\ i \in DOMAIN Found
    /\ \A j \in 1..(i - 1) : NamesOf(Found)[j] # NamesOf(Found)[i]
    /\ voiceId' = i - 1
    /\ refs' = [t \in Tokens |-> refs[t] + Holding(SubSeq(Found, i, Len(Found)), t)]
    /\ \A t \in Tokens : refs'[t] <= MaxRefs
    /\ UNCHANGED <<installed, inWorld, cached>>

OnVoiceIDChanged(v) ==
    /\ Choose(v, IF Found = <<>> THEN 0 ELSE Len(Found) - 1)
    /\ Leaks(1)
    /\ UNCHANGED <<installed, inWorld, cached>>

Next ==
    \/ Install \/ EnterWorld \/ LeaveWorld \/ Refresh
    \/ SetDefaultSettings
    \/ \E v \in Strings : SetVoiceOption(v) \/ OnVoiceIDChanged(v)
    \/ \E i \in 1..Cardinality(Tokens) : SetVoiceOptionByName(i)

Spec == Init /\ [][Next]_vars

-------------------------------------------------------------------------------
\* Properties.

\* Every cached voice holds a reference on its token through refreshes,
\* uninstalls and world changes: StartSpeakNow may hand it to SAPI
\* (VoiceChat.cpp:146, 182-203, 533).
CachedTokensHeld == \A i \in DOMAIN cached : refs[cached[i].token] >= Holding(cached, cached[i].token)
===============================================================================
