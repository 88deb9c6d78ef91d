------------------------------ MODULE VoiceChat -------------------------------
(***************************************************************************)
(* Text to speech: the way of an utterance from C_VoiceChat.SpeakText      *)
(* through SAPI, whose notifications are queued by OnSpeechNotifyCallback  *)
(* and told to add-ons by VoiceChat_OnUpdate; detached threads that stop   *)
(* all speech; and entering and leaving the world, which makes and drops   *)
(* the voice object.                                                       *)
(*                                                                         *)
(* Add-on handlers run between two events of one update and may speak and  *)
(* stop there.  PLAYBACK_FAILED is fired inside SpeakText with g_streamMx  *)
(* held: its handlers run in a state of their own (failing).  SAPI is      *)
(* external: it speaks its queue in order and posts one START and one END  *)
(* event for each stream; a purge forgets the queue and may or may not     *)
(* post the END of the stream it cuts off.                                 *)
(***************************************************************************)
EXTENDS Naturals, Sequences

CONSTANTS MaxCalls,     \* SpeakText calls
          MaxSessions,  \* entries into the world
          MaxStops,     \* stop threads at one time
          MaxInt        \* numeric_limits<int>::max(), the last utterance id

ASSUME VoiceAssumption ==
    /\ MaxCalls \in Nat /\ MaxSessions \in Nat /\ MaxStops \in Nat
    /\ MaxInt \in Nat \ {0}

VARIABLES inWorld, session,  \* between OnEnter and OnLeave; entries so far
          voice,             \* g_pVoice: the session that made it, 0 for null
          sapi,              \* the voice object's streams and events
          notified,          \* the callback is due
          streamMap,         \* g_streamMap
          pendingEvents,     \* g_pendingEvents
          localEvents,       \* s_localEvents not yet fired
          nextId,            \* g_nextUtteranceID
          stops,             \* stop threads that have not purged yet
          failing,           \* the call whose PLAYBACK_FAILED is delivered, or 0
          gone,              \* the client waits for itself, or has ended
          calls              \* history: the SpeakText calls and what became of them

world == <<inWorld, session, voice>>
engine == <<sapi, notified>>
events == <<pendingEvents, localEvents>>
vars == <<world, engine, streamMap, events, nextId, stops, failing, gone, calls>>

CallIds == 1..MaxCalls
Streams == 1..MaxCalls
Stream == [num : Streams, call : CallIds]      \* `call' is history
Notice == [kind : {"start", "end"}, num : Streams]
Meta == [call : CallIds, started : BOOLEAN]    \* UtteranceMeta, by its call
Event == [type : {"started", "finished"}, call : CallIds]
Call == [id : 1..MaxInt, session : 1..MaxSessions,
         heard : Seq([what : {"started", "finished", "failed"}, in : 1..MaxSessions]),
         cut : {"no", "asked", "early"}]  \* "early": by a stop older than the call

NewVoice == [last |-> 0, queue |-> <<>>, speaking |-> <<>>, posted |-> <<>>]

TypeOK ==
    /\ inWorld \in BOOLEAN /\ session \in 0..MaxSessions
    /\ voice \in {0, session} /\ (voice # 0 => inWorld)
    /\ sapi \in [last : 0..MaxCalls, queue : Seq(Stream), speaking : Seq(Stream),
                posted : Seq(Notice)]
    /\ notified \in BOOLEAN
    /\ DOMAIN streamMap \subseteq Streams
    /\ \A n \in DOMAIN streamMap : streamMap[n] \in Meta
    /\ pendingEvents \in Seq(Event) /\ localEvents \in Seq(Event)
    /\ nextId \in 1..MaxInt
    /\ stops \in Seq([voice : 1..MaxSessions, after : 0..MaxCalls])
    /\ failing \in 0..Len(calls)
    /\ gone \in BOOLEAN
    /\ calls \in Seq(Call) /\ Len(calls) <= MaxCalls

Init ==
    /\ inWorld = FALSE /\ session = 0 /\ voice = 0
    /\ sapi = NewVoice /\ notified = FALSE
    /\ streamMap = <<>>
    /\ pendingEvents = <<>> /\ localEvents = <<>>
    /\ nextId = 1
    /\ stops = <<>>
    /\ failing = 0 /\ gone = FALSE
    /\ calls = <<>>

\* The main thread runs the game or a handler, and g_streamMx is free.
Running == ~gone /\ failing = 0

-------------------------------------------------------------------------------
\* Entering and leaving the world.

EnterWorld ==
    /\ Running /\ ~inWorld /\ session < MaxSessions
    /\ inWorld' = TRUE /\ session' = session + 1
    /\ voice' \in {0, session + 1}     \* CoCreateInstance may fail
    /\ sapi' = NewVoice /\ notified' = FALSE
    /\ UNCHANGED <<streamMap, events, nextId, stops, failing, gone, calls>>

\* The voice is purged and released; g_streamMap keeps its entries.
LeaveWorld ==
    /\ Running /\ inWorld /\ localEvents = <<>>
    /\ inWorld' = FALSE /\ voice' = 0
    /\ sapi' = NewVoice /\ notified' = FALSE
    /\ pendingEvents' = <<>>
    /\ UNCHANGED <<session, streamMap, localEvents, nextId, stops, failing, gone, calls>>

-------------------------------------------------------------------------------
\* SpeakText and StopSpeakingText.

\* At MaxInt the counter is stored as 1 and 1 is handed out, so the next
\* call gets 1 as well.
GetNextUtteranceID == IF nextId = MaxInt THEN 1 ELSE nextId
FollowingId == IF nextId = MaxInt THEN 1 ELSE nextId + 1

Called(told) ==
    Append(calls, [id |-> GetNextUtteranceID, session |-> session,
                   heard |-> told, cut |-> "no"])

\* g_streamMap[streamNum] = meta
Mapped(num, meta) ==
    [n \in DOMAIN streamMap \cup {num} |-> IF n = num THEN meta ELSE streamMap[n]]

\* mutant: stream 0 is not told from a stream
SpeakTextUnchecked ==
    /\ Running /\ inWorld /\ Len(calls) < MaxCalls
    /\ streamMap' = Mapped(0, [call |-> Len(calls) + 1, started |-> FALSE])
    /\ nextId' = FollowingId
    /\ calls' = Called(<<>>)
    /\ UNCHANGED <<world, engine, events, stops, failing, gone>>

\* VoiceChat_StartSpeakNow returned a stream.  The lock is held throughout,
\* so no notification is handled before the stream is in the map.
SpeakText ==
    /\ Running /\ inWorld /\ voice # 0 /\ Len(calls) < MaxCalls
    /\ LET num == sapi.last + 1
           c == Len(calls) + 1
       IN  /\ sapi' = [sapi EXCEPT !.last = num,
                                   !.queue = Append(@, [num |-> num, call |-> c])]
           /\ streamMap' = Mapped(num, [call |-> c, started |-> FALSE])
    /\ nextId' = FollowingId
    /\ calls' = Called(<<>>)
    /\ UNCHANGED <<world, notified, events, stops, failing, gone>>

\* No voice, a voice id out of range, or SAPI refuses: the handlers of
\* PLAYBACK_FAILED are called before SpeakText returns.
SpeakTextFails ==
    /\ Running /\ inWorld /\ Len(calls) < MaxCalls
    /\ nextId' = FollowingId
    /\ calls' = Called(<<[what |-> "failed", in |-> session]>>)
    /\ failing' = Len(calls) + 1
    /\ UNCHANGED <<world, engine, streamMap, events, stops, gone>>

\* A handler of PLAYBACK_FAILED calls SpeakText: its scoped_lock takes a
\* std::mutex that its own thread holds.  That is undefined: the thread
\* blocks for good, or an exception nobody catches ends the process.
SpeakTextRelocks ==
    /\ ~gone /\ failing # 0 /\ Len(calls) < MaxCalls
    /\ gone' = TRUE
    /\ UNCHANGED <<world, engine, streamMap, events, nextId, stops, failing, calls>>

FailedHandled ==
    /\ ~gone /\ failing # 0
    /\ failing' = 0
    /\ UNCHANGED <<world, engine, streamMap, events, nextId, stops, gone, calls>>

\* VoiceChat_StopAll_Async: the voice is kept alive for a detached thread.
StopSpeakingText ==
    /\ ~gone /\ voice # 0 /\ Len(stops) < MaxStops
    /\ stops' = Append(stops, [voice |-> voice, after |-> Len(calls)])
    /\ UNCHANGED <<world, engine, streamMap, events, nextId, failing, gone, calls>>

Without(s, i) == SubSeq(s, 1, i - 1) \o SubSeq(s, i + 1, Len(s))

Cut == {(sapi.queue \o sapi.speaking)[i].call :
           i \in 1..(Len(sapi.queue) + Len(sapi.speaking))}

\* Speak(nullptr, SPF_PURGEBEFORESPEAK) on its thread, whenever that runs;
\* on a voice of an earlier session it cuts nothing off.
StopThread(i) ==
    /\ ~gone
    /\ stops' = Without(stops, i)
    /\ IF stops[i].voice # voice THEN UNCHANGED <<engine, calls>>
       ELSE /\ calls' = [c \in DOMAIN calls |->
                           IF c \notin Cut THEN calls[c]
                           ELSE [calls[c] EXCEPT !.cut =
                                   IF c <= stops[i].after THEN "asked" ELSE "early"]]
            /\ \E told \in BOOLEAN :
                 /\ told => sapi.speaking # <<>>
                 /\ sapi' = [sapi EXCEPT !.queue = <<>>, !.speaking = <<>>,
                               !.posted = IF told THEN Append(@, [kind |-> "end",
                                                        num |-> sapi.speaking[1].num])
                                          ELSE @]
                 /\ notified' = (notified \/ told)
    /\ UNCHANGED <<world, streamMap, events, nextId, failing, gone>>

-------------------------------------------------------------------------------
\* SAPI speaks.

Begin ==
    /\ ~gone /\ voice # 0 /\ sapi.speaking = <<>> /\ sapi.queue # <<>>
    /\ sapi' = [sapi EXCEPT !.speaking = <<Head(sapi.queue)>>, !.queue = Tail(@),
                            !.posted = Append(@, [kind |-> "start",
                                                  num |-> Head(sapi.queue).num])]
    /\ notified' = TRUE
    /\ UNCHANGED <<world, streamMap, events, nextId, stops, failing, gone, calls>>

Finish ==
    /\ ~gone /\ voice # 0 /\ sapi.speaking # <<>>
    /\ sapi' = [sapi EXCEPT !.speaking = <<>>,
                            !.posted = Append(@, [kind |-> "end",
                                                  num |-> sapi.speaking[1].num])]
    /\ notified' = TRUE
    /\ UNCHANGED <<world, streamMap, events, nextId, stops, failing, gone, calls>>

-------------------------------------------------------------------------------
\* OnSpeechNotifyCallback takes one event; START marks the entry, END
\* erases it, and an event whose stream is not in the map is ignored.

Queue(type, num) ==
    pendingEvents' = Append(pendingEvents, [type |-> type, call |-> streamMap[num].call])

HandleStart(num) ==
    IF num \in DOMAIN streamMap /\ ~streamMap[num].started
    THEN /\ streamMap' = [streamMap EXCEPT ![num] = [@ EXCEPT !.started = TRUE]]
         /\ Queue("started", num)
    ELSE UNCHANGED <<streamMap, pendingEvents>>

HandleEnd(num) ==
    IF num \in DOMAIN streamMap
    THEN /\ streamMap' = [n \in DOMAIN streamMap \ {num} |-> streamMap[n]]
         /\ Queue("finished", num)
    ELSE UNCHANGED <<streamMap, pendingEvents>>

Handle(ev) == IF ev.kind = "start" THEN HandleStart(ev.num) ELSE HandleEnd(ev.num)

\* mutant: one event is fetched for each notification
NotifyFetchesOne ==
    /\ Running /\ voice # 0 /\ notified /\ sapi.posted # <<>>
    /\ Handle(Head(sapi.posted))
    /\ sapi' = [sapi EXCEPT !.posted = Tail(@)]
    /\ notified' = FALSE
    /\ UNCHANGED <<world, localEvents, nextId, stops, failing, gone, calls>>

\* One turn of the callback's loop, which goes on until nothing is posted.
OnSpeechNotifyCallback ==
    /\ Running /\ voice # 0 /\ notified /\ sapi.posted # <<>>
    /\ Handle(Head(sapi.posted))
    /\ sapi' = [sapi EXCEPT !.posted = Tail(@)]
    /\ notified' = (Tail(sapi.posted) # <<>>)
    /\ UNCHANGED <<world, localEvents, nextId, stops, failing, gone, calls>>

\* mutant: the queue is copied, not moved
OnUpdateCopies ==
    /\ Running /\ localEvents = <<>> /\ pendingEvents # <<>>
    /\ localEvents' = pendingEvents
    /\ UNCHANGED <<world, engine, streamMap, pendingEvents, nextId, stops, failing,
                   gone, calls>>

\* VoiceChat_OnUpdate takes the queue over under its lock ...
OnUpdate ==
    /\ Running /\ localEvents = <<>> /\ pendingEvents # <<>>
    /\ localEvents' = pendingEvents /\ pendingEvents' = <<>>
    /\ UNCHANGED <<world, engine, streamMap, nextId, stops, failing, gone, calls>>

\* ... and fires one event after the other without it.
FireEvent ==
    /\ Running /\ localEvents # <<>>
    /\ calls' = [calls EXCEPT ![Head(localEvents).call].heard =
                   Append(@, [what |-> Head(localEvents).type, in |-> session])]
    /\ localEvents' = Tail(localEvents)
    /\ UNCHANGED <<world, engine, streamMap, pendingEvents, nextId, stops, failing, gone>>

-------------------------------------------------------------------------------
\* All sessions are over, or the client is.
Over ==
    /\ gone \/ (session = MaxSessions /\ ~inWorld /\ stops = <<>>)
    /\ UNCHANGED vars

Addon == SpeakText \/ SpeakTextFails \/ SpeakTextRelocks \/ FailedHandled \/ StopSpeakingText

Next ==
    \/ EnterWorld \/ LeaveWorld
    \/ Addon
    \/ \E i \in DOMAIN stops : StopThread(i)
    \/ Begin \/ Finish
    \/ OnSpeechNotifyCallback \/ OnUpdate \/ FireEvent
    \/ Over

\* SAPI goes on speaking, its notifications are dispatched by the message
\* loop, the game updates every frame, and handlers return.
Fairness ==
    /\ WF_vars(Begin) /\ WF_vars(Finish)
    /\ WF_vars(OnSpeechNotifyCallback) /\ WF_vars(OnUpdate) /\ WF_vars(FireEvent)
    /\ WF_vars(FailedHandled)

Spec == Init /\ [][Next]_vars /\ Fairness

-------------------------------------------------------------------------------
\* Properties.

Whats(c) == [i \in DOMAIN calls[c].heard |-> calls[c].heard[i].what]

\* What add-ons hear of one utterance is a prefix of STARTED, FINISHED, or
\* FAILED alone, and they hear it in the session that asked for it: whatever
\* handlers, stop threads and notifications do between, no event is repeated,
\* reordered, mixed with another call's or carried over to the next session,
\* although g_streamMap outlives the session and stream numbers start again.
EventsTellAStory ==
    \A c \in DOMAIN calls :
        /\ Whats(c) \in {<<>>, <<"failed">>, <<"started">>, <<"started", "finished">>}
        /\ \A i \in DOMAIN calls[c].heard : calls[c].heard[i].in = calls[c].session

Ended(c) == calls[c].heard # <<>> /\ Whats(c)[Len(calls[c].heard)] \in {"failed", "finished"}

\* The add-on has lost the right to an answer: a stop cut the utterance off,
\* or the session or the client is over.
Excused(c) == calls[c].cut # "no" \/ calls[c].session # session \/ ~inWorld \/ gone

\* Each SpeakText is answered in the end by PLAYBACK_FAILED or _FINISHED,
\* unless a stop cut it off or the session ended first.
EveryCallAnswered ==
    \A c \in CallIds :
        (c \in DOMAIN calls) ~> (c \in DOMAIN calls /\ (Ended(c) \/ Excused(c)))

\* A stop cuts off only utterances that were queued or playing when
\* StopSpeakingText was called.
StopsOnlyWhatWasAsked ==
    \A c \in DOMAIN calls : calls[c].cut # "early"
===============================================================================
