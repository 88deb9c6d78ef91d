----------------------------- MODULE VoiceChatProofs ----------------------------
(***************************************************************************)
(* For any number of calls, sessions and stop threads, and any last id:    *)
(* the state is well typed, and what add-ons hear of an utterance is       *)
(* STARTED and then FINISHED, or FAILED alone, in its own session.         *)
(*                                                                         *)
(* A notification goes through three places: the voice object's queue, the *)
(* map of streams and the queue of events that are due.  IInv says that    *)
(* the three agree on how far each utterance of this session has come.     *)
(***************************************************************************)
EXTENDS VoiceChat, SequenceTheorems, TLAPS

\* The events not yet fired, in their order.
Due == localEvents \o pendingEvents

IsDue(type, c) == \E i \in DOMAIN Due : Due[i].type = type /\ Due[i].call = c

IsQueued(n) == \E i \in DOMAIN sapi.queue : sapi.queue[i].num = n
IsSpeaking(n) == \E i \in DOMAIN sapi.speaking : sapi.speaking[i].num = n
IsPosted(kind, n) ==
    \E i \in DOMAIN sapi.posted : sapi.posted[i].kind = kind /\ sapi.posted[i].num = n

\* Out of the world, and with no voice object, there is nothing to hear of.
Absence ==
    /\ inWorld => session \in 1..MaxSessions
    /\ ~inWorld => localEvents = <<>> /\ pendingEvents = <<>>
    /\ voice = 0 => sapi = NewVoice

\* A stream is in the map; its START is still to come, or underway or taken.
Unstarted(n) == n \in DOMAIN streamMap /\ ~streamMap[n].started
Underway(n) == n \in DOMAIN streamMap /\ (streamMap[n].started \/ IsPosted("start", n))

\* SAPI has a stream in one place at most, and has told of it accordingly.
Speaking ==
    /\ sapi.last <= Len(calls)
    /\ Len(sapi.speaking) <= 1
    /\ \A i, j \in DOMAIN sapi.queue : sapi.queue[i].num = sapi.queue[j].num => i = j
    /\ \A n \in Streams : IsQueued(n) =>
          /\ n <= sapi.last /\ Unstarted(n) /\ ~IsSpeaking(n)
          /\ ~IsPosted("start", n) /\ ~IsPosted("end", n)
    /\ \A n \in Streams : IsSpeaking(n) =>
          n <= sapi.last /\ Underway(n) /\ ~IsPosted("end", n)

\* The notifications of a stream are posted once each, START before END.
PostedInOrder ==
    \A i, j \in DOMAIN sapi.posted :
        i < j /\ sapi.posted[i].num = sapi.posted[j].num =>
            sapi.posted[i].kind = "start" /\ sapi.posted[j].kind = "end"

Posting ==
    /\ PostedInOrder
    /\ \A n \in Streams : IsPosted("start", n) => n <= sapi.last /\ Unstarted(n)
    /\ \A n \in Streams : IsPosted("end", n) => n <= sapi.last /\ Underway(n)

Said(c, what) == [what |-> what, in |-> calls[c].session]

\* An utterance of this session that has started, as add-ons know or will.
Begun(c) ==
    /\ c \in DOMAIN calls
    /\ calls[c].session = session
    /\ IF IsDue("started", c) THEN calls[c].heard = <<>>
       ELSE calls[c].heard = <<Said(c, "started")>>

NotBegun(c) ==
    /\ c \in DOMAIN calls
    /\ calls[c].session = session
    /\ ~IsDue("started", c) /\ calls[c].heard = <<>>

\* The streams of this session are those up to sapi.last; the map may hold
\* others of earlier sessions.
Mapping ==
    \A n \in DOMAIN streamMap : n <= sapi.last =>
        LET c == streamMap[n].call
        IN  /\ IF streamMap[n].started THEN Begun(c) ELSE NotBegun(c)
            /\ ~IsDue("finished", c)
            /\ \A m \in DOMAIN streamMap : m <= sapi.last /\ streamMap[m].call = c => m = n

\* The events of an utterance are due once each, STARTED before FINISHED.
DueInOrder ==
    \A i, j \in DOMAIN Due :
        i < j /\ Due[i].call = Due[j].call =>
            Due[i].type = "started" /\ Due[j].type = "finished"

Queueing ==
    /\ DueInOrder
    /\ \A c \in CallIds : IsDue("started", c) \/ IsDue("finished", c) => Begun(c)

\* What add-ons have heard of an utterance so far.
Stories(c) == {<<>>, <<Said(c, "failed")>>, <<Said(c, "started")>>,
               <<Said(c, "started"), Said(c, "finished")>>}
Telling == \A c \in DOMAIN calls : calls[c].heard \in Stories(c)

\* The inductive invariant.
Course == Absence /\ Speaking /\ Posting /\ Mapping /\ Queueing /\ Telling
IInv == TypeOK /\ Course

-------------------------------------------------------------------------------
\* Sequences grow at the end and shrink at the front.
LEMMA Appended ==
    ASSUME NEW S, NEW s \in Seq(S), NEW e \in S
    PROVE  /\ Append(s, e) \in Seq(S)
           /\ Len(s) \in Nat /\ DOMAIN s = 1..Len(s)
           /\ DOMAIN Append(s, e) = 1..(Len(s) + 1)
           /\ Append(s, e)[Len(s) + 1] = e
           /\ \A i \in DOMAIN s : Append(s, e)[i] = s[i]
  BY AppendProperties, LenProperties

LEMMA Tailed ==
    ASSUME NEW S, NEW s \in Seq(S), s # <<>>
    PROVE  /\ Tail(s) \in Seq(S) /\ Head(s) \in S
           /\ Len(s) \in Nat /\ DOMAIN s = 1..Len(s) /\ 1 \in DOMAIN s
           /\ Head(s) = s[1]
           /\ DOMAIN Tail(s) = 1..(Len(s) - 1)
           /\ \A i \in DOMAIN Tail(s) : i + 1 \in DOMAIN s /\ Tail(s)[i] = s[i + 1]
  <1>1. Len(s) \in Nat \ {0} /\ DOMAIN s = 1..Len(s)
    BY EmptySeq, LenProperties
  <1>2. /\ Tail(s) \in Seq(S) /\ Head(s) \in S /\ Len(Tail(s)) = Len(s) - 1
        /\ \A i \in 1..Len(Tail(s)) : Tail(s)[i] = s[i + 1]
    BY HeadTailProperties
  <1>3. DOMAIN Tail(s) = 1..(Len(s) - 1)
    BY <1>2, LenProperties
  <1>4. Head(s) = s[1]
    BY <1>1
  <1> QED
    BY <1>1, <1>2, <1>3, <1>4

\* An entry of a sequence may be replaced.
LEMMA Replaced ==
    ASSUME NEW S, NEW s \in Seq(S), NEW t, DOMAIN t = DOMAIN s, t = [i \in DOMAIN t |-> t[i]],
           \A i \in DOMAIN s : t[i] \in S
    PROVE  t \in Seq(S) /\ Len(t) = Len(s)
  <1>1. Len(s) \in Nat /\ DOMAIN s = 1..Len(s)
    BY LenProperties
  <1>2. t \in [1..Len(s) -> S]
    BY <1>1
  <1>3. t \in Seq(S)
    BY <1>1, <1>2
  <1> QED
    BY <1>1, <1>3, LenProperties

\* The types of the queues, spelled out.
LEMMA Types ==
    ASSUME TypeOK
    PROVE  /\ localEvents \in Seq(Event) /\ pendingEvents \in Seq(Event) /\ Due \in Seq(Event)
           /\ sapi.queue \in Seq(Stream) /\ sapi.speaking \in Seq(Stream)
           /\ sapi.posted \in Seq(Notice) /\ sapi.last \in 0..MaxCalls
           /\ calls \in Seq(Call) /\ Len(calls) <= MaxCalls
           /\ Len(calls) \in Nat /\ DOMAIN calls = 1..Len(calls)
           /\ Len(sapi.posted) \in Nat /\ DOMAIN sapi.posted = 1..Len(sapi.posted)
           /\ Len(sapi.queue) \in Nat /\ DOMAIN sapi.queue = 1..Len(sapi.queue)
           /\ Len(sapi.speaking) \in Nat /\ DOMAIN sapi.speaking = 1..Len(sapi.speaking)
           /\ Len(Due) \in Nat /\ DOMAIN Due = 1..Len(Due)
  <1>1. /\ localEvents \in Seq(Event) /\ pendingEvents \in Seq(Event)
        /\ calls \in Seq(Call) /\ Len(calls) <= MaxCalls
    BY DEF TypeOK
  <1>2. /\ sapi.queue \in Seq(Stream) /\ sapi.speaking \in Seq(Stream)
        /\ sapi.posted \in Seq(Notice) /\ sapi.last \in 0..MaxCalls
    BY DEF TypeOK
  <1>3. Due \in Seq(Event)
    BY <1>1, ConcatProperties DEF Due
  <1> QED
    BY <1>1, <1>2, <1>3, LenProperties

\* An event becomes due, is taken, or moves from one queue to the other.
LEMMA DueAppended ==
    ASSUME TypeOK, NEW e \in Event, pendingEvents' = Append(pendingEvents, e),
           localEvents' = localEvents
    PROVE  Due' = Append(Due, e)
  <1>1. localEvents \in Seq(Event) /\ pendingEvents \in Seq(Event) /\ <<e>> \in Seq(Event)
    BY Types
  <1>2. Due' = localEvents \o (pendingEvents \o <<e>>)
    BY <1>1, AppendIsConcat DEF Due
  <1>3. Due' = Due \o <<e>>
    BY <1>1, <1>2, ConcatAssociative DEF Due
  <1> QED
    BY <1>3, Types, AppendIsConcat

LEMMA DueTaken ==
    ASSUME TypeOK, localEvents # <<>>, localEvents' = Tail(localEvents),
           pendingEvents' = pendingEvents
    PROVE  Due # <<>> /\ Due' = Tail(Due) /\ Head(Due) = Head(localEvents)
  <1>1. localEvents \in Seq(Event) /\ pendingEvents \in Seq(Event) /\ Due \in Seq(Event)
    BY Types
  <1>2. Len(localEvents) \in Nat \ {0} /\ Len(pendingEvents) \in Nat
    BY <1>1, EmptySeq, LenProperties
  <1>3. /\ Len(Due) = Len(localEvents) + Len(pendingEvents)
        /\ \A i \in 1..Len(Due) : Due[i] = IF i <= Len(localEvents) THEN localEvents[i]
                                          ELSE pendingEvents[i - Len(localEvents)]
    BY <1>1, ConcatProperties DEF Due
  <1>4. /\ localEvents' \in Seq(Event) /\ Len(localEvents') = Len(localEvents) - 1
        /\ \A i \in 1..Len(localEvents') : localEvents'[i] = localEvents[i + 1]
    BY <1>1, HeadTailProperties
  <1>5. /\ Due' \in Seq(Event) /\ Len(Due') = Len(localEvents') + Len(pendingEvents)
        /\ \A i \in 1..Len(Due') : Due'[i] = IF i <= Len(localEvents') THEN localEvents'[i]
                                            ELSE pendingEvents[i - Len(localEvents')]
    <2>1. Due' = localEvents' \o pendingEvents
      BY DEF Due
    <2> QED
      BY <1>1, <1>4, <2>1, ConcatProperties
  <1>6. Due # <<>>
    BY <1>1, <1>2, <1>3, EmptySeq
  <1>7. /\ Tail(Due) \in Seq(Event) /\ Len(Tail(Due)) = Len(Due) - 1
        /\ \A i \in 1..Len(Tail(Due)) : Tail(Due)[i] = Due[i + 1]
    BY <1>1, <1>6, HeadTailProperties
  <1>8. \A i \in 1..Len(Due') : Due'[i] = Tail(Due)[i]
    BY <1>2, <1>3, <1>4, <1>5, <1>7
  <1>9. Due' = Tail(Due)
    BY <1>2, <1>3, <1>4, <1>5, <1>7, <1>8, SeqEqual
  <1>10. Head(Due) = Due[1] /\ Head(localEvents) = localEvents[1]
    BY <1>1, <1>6
  <1> QED
    BY <1>2, <1>3, <1>6, <1>9, <1>10

LEMMA DueMoved ==
    ASSUME TypeOK, localEvents = <<>>, localEvents' = pendingEvents, pendingEvents' = <<>>
    PROVE  Due' = Due
  BY Types, ConcatEmptySeq DEF Due

\* What that means for the events of an utterance.
LEMMA MoreDue ==
    ASSUME TypeOK, NEW e \in Event, Due' = Append(Due, e), DueInOrder,
           ~IsDue("finished", e.call), e.type = "started" => ~IsDue("started", e.call)
    PROVE  /\ DueInOrder'
           /\ \A type, c : IsDue(type, c)' <=> (IsDue(type, c) \/ (type = e.type /\ c = e.call))
  <1>1. /\ DOMAIN Due = 1..Len(Due) /\ Len(Due) \in Nat /\ DOMAIN Due' = 1..(Len(Due) + 1)
        /\ Due'[Len(Due) + 1] = e /\ \A i \in DOMAIN Due : Due'[i] = Due[i]
    BY Types, Appended
  <1>2. DueInOrder'
    <2>1. \A i \in DOMAIN Due : Due[i].type \in {"started", "finished"}
      <3>1. \A i \in DOMAIN Due : Due[i] \in Event
        BY Types
      <3> QED
        BY <3>1 DEF Event
    <2>2. \A i \in DOMAIN Due : Due[i].call = e.call => Due[i].type = "started" /\ e.type = "finished"
      BY <2>1 DEF IsDue, Event
    <2> QED
      BY <1>1, <2>2 DEF DueInOrder
  <1>3. \A type, c : IsDue(type, c)' <=> (IsDue(type, c) \/ (type = e.type /\ c = e.call))
    BY <1>1 DEF IsDue
  <1> QED
    BY <1>2, <1>3

LEMMA LessDue ==
    ASSUME TypeOK, Due # <<>>, Due' = Tail(Due), DueInOrder
    PROVE  /\ Head(Due) \in Event /\ IsDue(Head(Due).type, Head(Due).call)
           /\ Head(Due).type = "finished" => ~IsDue("started", Head(Due).call)
           /\ DueInOrder'
           /\ \A type, c : IsDue(type, c)' <=>
                 IsDue(type, c) /\ ~(type = Head(Due).type /\ c = Head(Due).call)
  <1>1. /\ DOMAIN Due = 1..Len(Due) /\ Len(Due) \in Nat /\ 1 \in DOMAIN Due
        /\ DOMAIN Due' = 1..(Len(Due) - 1)
        /\ \A i \in DOMAIN Due' : i + 1 \in DOMAIN Due /\ Due'[i] = Due[i + 1]
        /\ Head(Due) = Due[1] /\ Head(Due) \in Event
    BY Types, Tailed
  <1>2. \A j \in DOMAIN Due \ {1} : j - 1 \in DOMAIN Due' /\ Due'[j - 1] = Due[j]
    BY <1>1
  <1>3. \A j \in DOMAIN Due \ {1} :
           Due[j].call = Head(Due).call => Head(Due).type = "started" /\ Due[j].type = "finished"
    BY <1>1 DEF DueInOrder
  <1>4. DueInOrder'
    BY <1>1 DEF DueInOrder
  <1>5. IsDue(Head(Due).type, Head(Due).call)
    BY <1>1 DEF IsDue
  <1>6. Head(Due).type = "finished" => ~IsDue("started", Head(Due).call)
    BY <1>1, <1>3 DEF IsDue
  <1>7. ASSUME NEW type, NEW c
        PROVE  IsDue(type, c)' <=> IsDue(type, c) /\ ~(type = Head(Due).type /\ c = Head(Due).call)
    <2>1. IsDue(type, c)' => IsDue(type, c) /\ ~(type = Head(Due).type /\ c = Head(Due).call)
      BY <1>1, <1>3 DEF IsDue
    <2>2. IsDue(type, c) /\ ~(type = Head(Due).type /\ c = Head(Due).call) => IsDue(type, c)'
      BY <1>1, <1>2 DEF IsDue
    <2> QED
      BY <2>1, <2>2
  <1> QED
    BY <1>1, <1>4, <1>5, <1>6, <1>7

\* The same for the notifications of a stream.
LEMMA MorePosted ==
    ASSUME TypeOK, NEW e \in Notice, sapi'.posted = Append(sapi.posted, e), PostedInOrder,
           ~IsPosted("end", e.num), e.kind = "start" => ~IsPosted("start", e.num)
    PROVE  /\ PostedInOrder'
           /\ \A kind, n : IsPosted(kind, n)' <=> (IsPosted(kind, n) \/ (kind = e.kind /\ n = e.num))
  <1> DEFINE P == sapi.posted
  <1>1. /\ DOMAIN P = 1..Len(P) /\ Len(P) \in Nat /\ DOMAIN P' = 1..(Len(P) + 1)
        /\ P'[Len(P) + 1] = e /\ \A i \in DOMAIN P : P'[i] = P[i]
    <2>1. P \in Seq(Notice)
      BY Types
    <2> QED
      BY <2>1, Appended
  <1>2. PostedInOrder'
    <2>1. \A i \in DOMAIN P : P[i].kind \in {"start", "end"}
      <3>1. \A i \in DOMAIN P : P[i] \in Notice
        BY Types
      <3> QED
        BY <3>1 DEF Notice
    <2>2. \A i \in DOMAIN P : P[i].num = e.num => P[i].kind = "start" /\ e.kind = "end"
      BY <2>1 DEF IsPosted, Notice
    <2> QED
      BY <1>1, <2>2 DEF PostedInOrder
  <1>3. \A kind, n : IsPosted(kind, n)' <=> (IsPosted(kind, n) \/ (kind = e.kind /\ n = e.num))
    BY <1>1 DEF IsPosted
  <1> QED
    BY <1>2, <1>3

LEMMA LessPosted ==
    ASSUME TypeOK, sapi.posted # <<>>, sapi'.posted = Tail(sapi.posted), PostedInOrder
    PROVE  LET ev == Head(sapi.posted)
           IN  /\ ev \in Notice /\ IsPosted(ev.kind, ev.num)
               /\ ev.kind = "end" => ~IsPosted("start", ev.num)
               /\ PostedInOrder'
               /\ \A kind, n : IsPosted(kind, n)' <=>
                     IsPosted(kind, n) /\ ~(kind = ev.kind /\ n = ev.num)
  <1> DEFINE P == sapi.posted
             ev == Head(P)
  <1>1. /\ DOMAIN P = 1..Len(P) /\ Len(P) \in Nat /\ 1 \in DOMAIN P
        /\ DOMAIN P' = 1..(Len(P) - 1)
        /\ \A i \in DOMAIN P' : i + 1 \in DOMAIN P /\ P'[i] = P[i + 1]
        /\ ev = P[1] /\ ev \in Notice
    BY Types, Tailed
  <1>2. \A j \in DOMAIN P \ {1} : j - 1 \in DOMAIN P' /\ P'[j - 1] = P[j]
    BY <1>1
  <1>3. \A j \in DOMAIN P \ {1} : P[j].num = ev.num => ev.kind = "start" /\ P[j].kind = "end"
    BY <1>1 DEF PostedInOrder
  <1>4. PostedInOrder'
    <2> SUFFICES ASSUME NEW i \in DOMAIN P', NEW j \in DOMAIN P', i < j, P'[i].num = P'[j].num
                 PROVE  P'[i].kind = "start" /\ P'[j].kind = "end"
      BY DEF PostedInOrder
    <2>1. i + 1 \in DOMAIN P /\ j + 1 \in DOMAIN P /\ P'[i] = P[i + 1] /\ P'[j] = P[j + 1]
      BY <1>1
    <2>2. i + 1 < j + 1
      BY <1>1
    <2> QED
      BY <2>1, <2>2 DEF PostedInOrder
  <1>5. IsPosted(ev.kind, ev.num)
    BY <1>1 DEF IsPosted
  <1>6. ev.kind = "end" => ~IsPosted("start", ev.num)
    BY <1>1, <1>3 DEF IsPosted
  <1>7. ASSUME NEW kind, NEW n
        PROVE  IsPosted(kind, n)' <=> IsPosted(kind, n) /\ ~(kind = ev.kind /\ n = ev.num)
    <2>1. IsPosted(kind, n)' => IsPosted(kind, n) /\ ~(kind = ev.kind /\ n = ev.num)
      BY <1>1, <1>3 DEF IsPosted
    <2>2. IsPosted(kind, n) /\ ~(kind = ev.kind /\ n = ev.num) => IsPosted(kind, n)'
      <3> SUFFICES ASSUME IsPosted(kind, n), ~(kind = ev.kind /\ n = ev.num)
                   PROVE  \E i \in DOMAIN P' : P'[i].kind = kind /\ P'[i].num = n
        BY DEF IsPosted
      <3>1. PICK j \in DOMAIN P : P[j].kind = kind /\ P[j].num = n
        BY DEF IsPosted
      <3>2. j \in DOMAIN P \ {1}
        BY <1>1, <3>1
      <3> QED
        BY <1>2, <3>1, <3>2
    <2> QED
      BY <2>1, <2>2
  <1> QED
    BY <1>1, <1>4, <1>5, <1>6, <1>7

-------------------------------------------------------------------------------
\* Nothing has been said.
LEMMA InitHolds == Init => IInv
  <1> SUFFICES ASSUME Init PROVE IInv
    OBVIOUS
  <1>0. \A S : <<>> \in Seq(S) /\ Len(<<>>) = 0 /\ DOMAIN <<>> = {}
    BY EmptySeq
  <1>1. TypeOK
    <2>1. sapi \in [last : 0..MaxCalls, queue : Seq(Stream), speaking : Seq(Stream),
                    posted : Seq(Notice)]
      BY <1>0, VoiceAssumption DEF Init, NewVoice
    <2>2. DOMAIN streamMap \subseteq Streams /\ \A n \in DOMAIN streamMap : streamMap[n] \in Meta
      BY <1>0 DEF Init
    <2>3. /\ pendingEvents \in Seq(Event) /\ localEvents \in Seq(Event)
          /\ stops \in Seq([voice : 1..MaxSessions, after : 0..MaxCalls])
          /\ calls \in Seq(Call) /\ Len(calls) = 0
      BY <1>0 DEF Init
    <2>4. nextId \in 1..MaxInt /\ session \in 0..MaxSessions /\ 0 \in 0..Len(calls)
          /\ Len(calls) <= MaxCalls
      BY <2>3, VoiceAssumption DEF Init
    <2> QED
      BY <2>1, <2>2, <2>3, <2>4 DEF Init, TypeOK
  <1>2. Due = <<>>
    BY <1>0, ConcatEmptySeq DEF Init, Due
  <1>3. Course
    BY <1>0, <1>2 DEF Init, Course, Absence, Speaking, Posting, PostedInOrder, Mapping, Queueing,
                      DueInOrder, Telling, IsDue, IsQueued, IsSpeaking, IsPosted, NewVoice
  <1> QED
    BY <1>1, <1>3 DEF IInv

-------------------------------------------------------------------------------
\* A new record of a call, and a call whose record grows.
LEMMA CalledType ==
    ASSUME TypeOK, Absence, inWorld, Len(calls) < MaxCalls,
           NEW told \in Seq([what : {"started", "finished", "failed"}, in : 1..MaxSessions]),
           calls' = Called(told)
    PROVE  /\ calls' \in Seq(Call) /\ Len(calls') = Len(calls) + 1
           /\ nextId' = FollowingId => nextId' \in 1..MaxInt
  <1> DEFINE c == [id |-> GetNextUtteranceID, session |-> session, heard |-> told, cut |-> "no"]
  <1>1. GetNextUtteranceID \in 1..MaxInt /\ FollowingId \in 1..MaxInt
    BY VoiceAssumption DEF TypeOK, GetNextUtteranceID, FollowingId
  <1>2. c \in Call
    BY <1>1 DEF Absence, Call
  <1>3. calls' = Append(calls, c)
    BY DEF Called
  <1> HIDE DEF c
  <1> QED
    BY <1>1, <1>2, <1>3, Types, AppendProperties

LEMMA SpeakTextType == ASSUME IInv, SpeakText PROVE TypeOK'
  <1>0. TypeOK /\ Absence /\ sapi.last <= Len(calls) /\ MaxCalls \in Nat
    BY VoiceAssumption DEF IInv, Course, Speaking
  <1> DEFINE num == sapi.last + 1
             c == Len(calls) + 1
             stream == [num |-> num, call |-> c]
  <1>1. calls' \in Seq(Call) /\ Len(calls') = Len(calls) + 1 /\ nextId' \in 1..MaxInt
    BY <1>0, CalledType, EmptySeq DEF SpeakText
  <1>2. num \in Streams /\ c \in CallIds
    BY <1>0, Types DEF Streams, CallIds, SpeakText
  <1>3. sapi' = [sapi EXCEPT !.last = num, !.queue = Append(@, stream)]
        /\ streamMap' = Mapped(num, [call |-> c, started |-> FALSE])
    BY DEF SpeakText
  <1>4. Append(sapi.queue, stream) \in Seq(Stream)
    BY <1>0, <1>2, Types, AppendProperties DEF Stream
  <1> HIDE DEF num, c, stream
  <1>5. sapi' \in [last : 0..MaxCalls, queue : Seq(Stream), speaking : Seq(Stream),
                   posted : Seq(Notice)]
    <2>1. sapi \in [last : 0..MaxCalls, queue : Seq(Stream), speaking : Seq(Stream),
                    posted : Seq(Notice)]
      BY <1>0 DEF TypeOK
    <2>2. num \in 0..MaxCalls
      BY <1>0, <1>2 DEF Streams
    <2> QED
      BY <1>3, <1>4, <2>1, <2>2
  <1>6. DOMAIN streamMap' \subseteq Streams /\ \A n \in DOMAIN streamMap' : streamMap'[n] \in Meta
    BY <1>0, <1>2, <1>3 DEF TypeOK, Mapped, Meta
  <1>7. failing' \in 0..Len(calls') /\ Len(calls') <= MaxCalls
    <2>1. Len(calls) \in Nat /\ Len(calls) < MaxCalls /\ MaxCalls \in Nat /\ failing' = 0
      BY <1>0, Types, VoiceAssumption DEF SpeakText, Running
    <2> QED
      BY <1>1, <2>1
  <1> QED
    BY <1>0, <1>1, <1>5, <1>6, <1>7 DEF SpeakText, TypeOK, world, events

LEMMA StopThreadType ==
    ASSUME IInv, NEW i \in DOMAIN stops, StopThread(i)
    PROVE  /\ TypeOK'
           /\ DOMAIN calls' = DOMAIN calls /\ Len(calls') = Len(calls)
           /\ \A c \in DOMAIN calls : /\ calls'[c].heard = calls[c].heard
                                      /\ calls'[c].session = calls[c].session
  <1>0. TypeOK
    BY DEF IInv
  <1> DEFINE Thread == [voice : 1..MaxSessions, after : 0..MaxCalls]
  <1>1. stops' \in Seq(Thread)
    <2>1. stops \in Seq(Thread) /\ Len(stops) \in Nat /\ i \in 1..Len(stops)
      BY <1>0, LenProperties DEF TypeOK
    <2>2. /\ \A j \in 1..(i - 1) : stops[j] \in Thread
          /\ \A j \in (i + 1)..Len(stops) : stops[j] \in Thread
      <3>1. \A j \in 1..Len(stops) : stops[j] \in Thread
        BY <2>1, ElementOfSeq
      <3> HIDE DEF Thread
      <3> QED
        BY <2>1, <3>1
    <2>3. SubSeq(stops, 1, i - 1) \in Seq(Thread)
      BY <2>1, <2>2, SubSeqProperties
    <2>4. SubSeq(stops, i + 1, Len(stops)) \in Seq(Thread)
      BY <2>1, <2>2, SubSeqProperties
    <2> QED
      BY <2>3, <2>4, ConcatProperties DEF StopThread, Without
  <1>2. /\ calls' \in Seq(Call) /\ Len(calls') = Len(calls) /\ DOMAIN calls' = DOMAIN calls
        /\ \A c \in DOMAIN calls : /\ calls'[c].heard = calls[c].heard
                                   /\ calls'[c].session = calls[c].session
    <2>1. CASE calls' = calls
      BY <1>0, <2>1, Types
    <2>2. CASE calls' = [c \in DOMAIN calls |->
                           IF c \notin Cut THEN calls[c]
                           ELSE [calls[c] EXCEPT !.cut =
                                   IF c <= stops[i].after THEN "asked" ELSE "early"]]
      <3>1. \A c \in DOMAIN calls : calls[c] \in Call
        BY <1>0, Types
      <3>2. \A c \in DOMAIN calls : /\ calls'[c] \in Call
                                    /\ calls'[c].heard = calls[c].heard
                                    /\ calls'[c].session = calls[c].session
        BY <2>2, <3>1 DEF Call
      <3>3. DOMAIN calls' = DOMAIN calls /\ calls' = [c \in DOMAIN calls' |-> calls'[c]]
        BY <2>2
      <3> QED
        BY <1>0, <3>2, <3>3, Types, Replaced
    <2> QED
      BY <2>1, <2>2 DEF StopThread
  <1>3. sapi' \in [last : 0..MaxCalls, queue : Seq(Stream), speaking : Seq(Stream),
                   posted : Seq(Notice)] /\ notified' \in BOOLEAN
    <2>1. CASE UNCHANGED engine
      BY <1>0, <2>1 DEF engine, TypeOK
    <2>2. ASSUME NEW told \in BOOLEAN, told => sapi.speaking # <<>>,
                 sapi' = [sapi EXCEPT !.queue = <<>>, !.speaking = <<>>,
                            !.posted = IF told THEN Append(@, [kind |-> "end",
                                                     num |-> sapi.speaking[1].num])
                                       ELSE @],
                 notified' = (notified \/ told)
          PROVE  sapi' \in [last : 0..MaxCalls, queue : Seq(Stream), speaking : Seq(Stream),
                            posted : Seq(Notice)] /\ notified' \in BOOLEAN
      <3>1. told => Append(sapi.posted, [kind |-> "end", num |-> sapi.speaking[1].num]) \in Seq(Notice)
        <4> SUFFICES ASSUME told PROVE [kind |-> "end", num |-> sapi.speaking[1].num] \in Notice
          BY <1>0, Types, AppendProperties
        <4>1. sapi.speaking[1] \in Stream
          BY <1>0, <2>2, Types, Tailed
        <4> QED
          BY <4>1 DEF Stream, Notice
      <3>2. <<>> \in Seq(Stream)
        BY EmptySeq
      <3>3. notified' \in BOOLEAN
        BY <1>0, <2>2 DEF TypeOK
      <3> QED
        BY <1>0, <2>2, <3>1, <3>2, <3>3 DEF TypeOK
    <2> QED
      BY <2>1, <2>2 DEF StopThread
  <1> QED
    BY <1>0, <1>1, <1>2, <1>3 DEF StopThread, TypeOK, world, events

\* What a notification does: START marks its stream and END erases it, and
\* either way an event becomes due.
LEMMA Handled ==
    ASSUME IInv, OnSpeechNotifyCallback
    PROVE  LET ev == Head(sapi.posted)
               type == IF ev.kind = "start" THEN "started" ELSE "finished"
           IN  /\ ev \in Notice /\ ev.num \in DOMAIN streamMap /\ ev.num <= sapi.last
               /\ streamMap[ev.num].started <=> ev.kind = "end"
               /\ [type |-> type, call |-> streamMap[ev.num].call] \in Event
               /\ pendingEvents' = Append(pendingEvents,
                                          [type |-> type, call |-> streamMap[ev.num].call])
               /\ streamMap' = IF ev.kind = "start"
                               THEN [streamMap EXCEPT ![ev.num] = [@ EXCEPT !.started = TRUE]]
                               ELSE [n \in DOMAIN streamMap \ {ev.num} |-> streamMap[n]]
               /\ sapi' = [sapi EXCEPT !.posted = Tail(@)]
  <1> DEFINE ev == Head(sapi.posted)
  <1>0. TypeOK /\ Posting /\ sapi.posted # <<>> /\ Handle(ev) /\ sapi' = [sapi EXCEPT !.posted = Tail(@)]
    BY DEF IInv, Course, OnSpeechNotifyCallback
  <1>1. /\ PostedInOrder /\ ev \in Notice /\ IsPosted(ev.kind, ev.num)
        /\ ev.kind = "end" => ~IsPosted("start", ev.num)
    <2>1. PostedInOrder
      BY <1>0 DEF Posting
    <2>2. sapi'.posted = Tail(sapi.posted)
      BY <1>0 DEF TypeOK
    <2> QED
      BY <1>0, <2>1, <2>2, LessPosted
  <1>2. ev.kind \in {"start", "end"} /\ ev.num \in Streams
    BY <1>1 DEF Notice
  <1>3. /\ ev.num \in DOMAIN streamMap /\ ev.num <= sapi.last
        /\ streamMap[ev.num].started <=> ev.kind = "end"
    BY <1>0, <1>1, <1>2 DEF Posting, Unstarted, Underway
  <1>4. streamMap[ev.num].call \in CallIds
    BY <1>0, <1>3 DEF TypeOK, Meta
  <1> HIDE DEF ev
  <1> QED
    BY <1>0, <1>1, <1>2, <1>3, <1>4 DEF ev, Handle, HandleStart, HandleEnd, Queue, Event

LEMMA NotifyType == ASSUME IInv, OnSpeechNotifyCallback PROVE TypeOK'
  <1>0. TypeOK /\ sapi.posted # <<>>
    BY DEF IInv, OnSpeechNotifyCallback
  <1> DEFINE ev == Head(sapi.posted)
             e == [type |-> IF ev.kind = "start" THEN "started" ELSE "finished",
                   call |-> streamMap[ev.num].call]
  <1>1. e \in Event /\ pendingEvents' = Append(pendingEvents, e)
    BY Handled
  <1> HIDE DEF e
  <1>2. pendingEvents' \in Seq(Event)
    BY <1>0, <1>1, Types, AppendProperties
  <1>3. sapi' \in [last : 0..MaxCalls, queue : Seq(Stream), speaking : Seq(Stream),
                   posted : Seq(Notice)]
    <2>1. Tail(sapi.posted) \in Seq(Notice)
      BY <1>0, Types, HeadTailProperties
    <2> QED
      BY <1>0, <2>1 DEF OnSpeechNotifyCallback, TypeOK
  <1>4. DOMAIN streamMap' \subseteq Streams /\ \A n \in DOMAIN streamMap' : streamMap'[n] \in Meta
    <2>1. ev.num \in DOMAIN streamMap
          /\ streamMap' = IF ev.kind = "start"
                          THEN [streamMap EXCEPT ![ev.num] = [@ EXCEPT !.started = TRUE]]
                          ELSE [n \in DOMAIN streamMap \ {ev.num} |-> streamMap[n]]
      BY Handled
    <2>2. DOMAIN streamMap \subseteq Streams /\ \A n \in DOMAIN streamMap : streamMap[n] \in Meta
      BY <1>0 DEF TypeOK
    <2>3. [streamMap[ev.num] EXCEPT !.started = TRUE] \in Meta
      BY <2>1, <2>2 DEF Meta
    <2> HIDE DEF ev
    <2>4. CASE ev.kind = "start"
      BY <2>1, <2>2, <2>3, <2>4
    <2>5. CASE ev.kind # "start"
      BY <2>1, <2>2, <2>5
    <2> QED
      BY <2>4, <2>5
  <1>5. /\ notified' \in BOOLEAN
        /\ UNCHANGED <<inWorld, session, voice, localEvents, nextId, stops, failing, gone, calls>>
    BY DEF OnSpeechNotifyCallback, world
  <1> QED
    BY <1>0, <1>2, <1>3, <1>4, <1>5 DEF TypeOK

\* An event fired is heard of its call, in the session of that call.
LEMMA Fired ==
    ASSUME IInv, FireEvent
    PROVE  LET e == Head(Due)
           IN  /\ Due # <<>> /\ Due' = Tail(Due) /\ e \in Event /\ Begun(e.call)
               /\ IsDue(e.type, e.call)
               /\ calls' \in Seq(Call) /\ Len(calls') = Len(calls) /\ DOMAIN calls' = DOMAIN calls
               /\ calls'[e.call].heard = Append(calls[e.call].heard, Said(e.call, e.type))
               /\ \A c \in DOMAIN calls : calls'[c].session = calls[c].session
               /\ \A c \in DOMAIN calls \ {e.call} : calls'[c].heard = calls[c].heard
  <1> DEFINE e == Head(Due)
  <1>0. /\ TypeOK /\ Absence /\ Queueing
        /\ localEvents # <<>> /\ localEvents' = Tail(localEvents) /\ pendingEvents' = pendingEvents
        /\ calls' = [calls EXCEPT ![Head(localEvents).call].heard =
                       Append(@, [what |-> Head(localEvents).type, in |-> session])]
    BY DEF IInv, Course, FireEvent, events
  <1>1. Tail(localEvents) \in Seq(Event)
    BY <1>0, Types, HeadTailProperties
  <1>2. Due # <<>> /\ Due' = Tail(Due) /\ e = Head(localEvents)
    BY <1>0, <1>1, DueTaken
  <1>3. e \in Event /\ IsDue(e.type, e.call)
    BY <1>0, <1>2, LessDue DEF Queueing
  <1> HIDE DEF e
  <1>4. e.call \in CallIds /\ e.type \in {"started", "finished"}
    BY <1>3 DEF Event
  <1>5. Begun(e.call)
    BY <1>0, <1>3, <1>4 DEF Queueing
  <1>6. e.call \in DOMAIN calls /\ calls[e.call].session = session /\ session \in 1..MaxSessions
    BY <1>0, <1>5 DEF Begun, Absence
  <1> DEFINE said == [what |-> e.type, in |-> session]
             new == [calls[e.call] EXCEPT !.heard = Append(@, said)]
  <1>7. calls[e.call] \in Call /\ said = Said(e.call, e.type)
    BY <1>0, <1>6, Types DEF Said
  <1>8. /\ new \in Call /\ new.session = calls[e.call].session
        /\ new.heard = Append(calls[e.call].heard, said)
    <2>1. said \in [what : {"started", "finished", "failed"}, in : 1..MaxSessions]
      BY <1>4, <1>6
    <2>2. Append(calls[e.call].heard, said)
             \in Seq([what : {"started", "finished", "failed"}, in : 1..MaxSessions])
      BY <1>7, <2>1, AppendProperties DEF Call
    <2> HIDE DEF said
    <2> QED
      BY <1>7, <2>2 DEF Call
  <1>9. calls' = [calls EXCEPT ![e.call] = new]
    BY <1>0, <1>2
  <1> HIDE DEF new, said
  <1>10. calls' \in Seq(Call) /\ Len(calls') = Len(calls) /\ DOMAIN calls' = DOMAIN calls
         /\ calls'[e.call] = new /\ \A c \in DOMAIN calls \ {e.call} : calls'[c] = calls[c]
    <2>1. e.call \in 1..Len(calls) /\ calls \in Seq(Call) /\ DOMAIN calls = 1..Len(calls)
      BY <1>0, <1>6, Types
    <2>2. calls' \in Seq(Call) /\ Len(calls') = Len(calls)
      BY <1>8, <1>9, <2>1, ExceptSeq
    <2> QED
      BY <1>6, <1>9, <2>1, <2>2
  <1> QED
    BY <1>2, <1>3, <1>5, <1>7, <1>8, <1>10 DEF e

LEMMA NextType == IInv /\ Next => TypeOK'
  <1> SUFFICES ASSUME IInv, Next PROVE TypeOK'
    OBVIOUS
  <1>0. /\ TypeOK /\ Absence
        /\ \A S : <<>> \in Seq(S)
        /\ sapi \in [last : 0..MaxCalls, queue : Seq(Stream), speaking : Seq(Stream),
                     posted : Seq(Notice)]
        /\ NewVoice \in [last : 0..MaxCalls, queue : Seq(Stream), speaking : Seq(Stream),
                         posted : Seq(Notice)]
    BY EmptySeq, VoiceAssumption DEF IInv, Course, TypeOK, NewVoice
  <1>1. CASE EnterWorld
    <2>1. /\ session' \in 0..MaxSessions /\ inWorld' = TRUE
          /\ voice' \in {0, session'} /\ notified' = FALSE
      <3>1. session \in Nat /\ session < MaxSessions /\ MaxSessions \in Nat
        BY <1>0, <1>1, VoiceAssumption DEF EnterWorld, TypeOK
      <3>2. session' = session + 1 /\ inWorld' = TRUE /\ voice' \in {0, session + 1} /\ notified' = FALSE
        BY <1>1 DEF EnterWorld
      <3> QED
        BY <3>1, <3>2
    <2> QED
      BY <1>0, <1>1, <2>1 DEF EnterWorld, TypeOK, events
  <1>2. CASE LeaveWorld
    BY <1>0, <1>2 DEF LeaveWorld, TypeOK
  <1>3. CASE SpeakText
    BY <1>3, SpeakTextType
  <1>4. CASE SpeakTextFails
    <2>1. <<[what |-> "failed", in |-> session]>>
             \in Seq([what : {"started", "finished", "failed"}, in : 1..MaxSessions])
      BY <1>0, <1>4 DEF SpeakTextFails, Absence
    <2>2. calls' \in Seq(Call) /\ Len(calls') = Len(calls) + 1 /\ nextId' \in 1..MaxInt
      BY <1>0, <1>4, <2>1, CalledType DEF SpeakTextFails
    <2>3. failing' \in 0..Len(calls') /\ Len(calls') <= MaxCalls
      <3>1. Len(calls) \in Nat /\ Len(calls) < MaxCalls /\ MaxCalls \in Nat
        BY <1>0, <1>4, Types, VoiceAssumption DEF SpeakTextFails
      <3> QED
        BY <1>4, <2>2, <3>1 DEF SpeakTextFails
    <2> QED
      BY <1>0, <1>4, <2>2, <2>3 DEF SpeakTextFails, TypeOK, world, engine, events
  <1>5. CASE SpeakTextRelocks
    BY <1>0, <1>5 DEF SpeakTextRelocks, TypeOK, world, engine, events
  <1>6. CASE FailedHandled
    BY <1>0, <1>6, Types DEF FailedHandled, TypeOK, world, engine, events
  <1>7. CASE StopSpeakingText
    <2>1. Len(calls) \in 0..MaxCalls
      BY <1>0, VoiceAssumption, Types
    <2>2. [voice |-> voice, after |-> Len(calls)] \in [voice : 1..MaxSessions, after : 0..MaxCalls]
      BY <1>0, <1>7, <2>1 DEF StopSpeakingText, Absence, TypeOK
    <2>3. stops' \in Seq([voice : 1..MaxSessions, after : 0..MaxCalls])
      BY <1>0, <1>7, <2>2, AppendProperties DEF StopSpeakingText, TypeOK
    <2> QED
      BY <1>0, <1>7, <2>3 DEF StopSpeakingText, TypeOK, world, engine, events
  <1>8. ASSUME NEW i \in DOMAIN stops, StopThread(i) PROVE TypeOK'
    BY <1>8, StopThreadType
  <1>9. CASE Begin
    <2>1. Head(sapi.queue) \in Stream /\ Tail(sapi.queue) \in Seq(Stream)
      BY <1>0, <1>9, Types, HeadTailProperties DEF Begin
    <2>2. /\ <<Head(sapi.queue)>> \in Seq(Stream)
          /\ [kind |-> "start", num |-> Head(sapi.queue).num] \in Notice
      BY <2>1 DEF Stream, Notice
    <2>3. Append(sapi.posted, [kind |-> "start", num |-> Head(sapi.queue).num]) \in Seq(Notice)
      BY <1>0, <2>2, Types, AppendProperties
    <2> QED
      BY <1>0, <1>9, <2>1, <2>2, <2>3 DEF Begin, TypeOK, world, events
  <1>10. CASE Finish
    <2>1. sapi.speaking[1] \in Stream
      BY <1>0, <1>10, Types, Tailed DEF Finish
    <2>2. [kind |-> "end", num |-> sapi.speaking[1].num] \in Notice
      BY <2>1 DEF Stream, Notice
    <2>3. Append(sapi.posted, [kind |-> "end", num |-> sapi.speaking[1].num]) \in Seq(Notice)
      BY <1>0, <2>2, Types, AppendProperties
    <2> QED
      BY <1>0, <1>10, <2>3 DEF Finish, TypeOK, world, events
  <1>11. CASE OnSpeechNotifyCallback
    BY <1>11, NotifyType
  <1>12. CASE OnUpdate
    BY <1>0, <1>12 DEF OnUpdate, TypeOK, world, engine
  <1>13. CASE FireEvent
    <2>1. calls' \in Seq(Call) /\ Len(calls') = Len(calls)
      BY <1>13, Fired
    <2>2. localEvents' \in Seq(Event)
      BY <1>0, <1>13, Types, HeadTailProperties DEF FireEvent
    <2> QED
      BY <1>0, <1>13, <2>1, <2>2 DEF FireEvent, TypeOK, world, engine
  <1>14. CASE Over
    BY <1>0, <1>14 DEF Over, vars, TypeOK, world, engine, events
  <1> QED
    BY <1>1, <1>2, <1>3, <1>4, <1>5, <1>6, <1>7, <1>8, <1>9, <1>10, <1>11, <1>12, <1>13, <1>14
    DEF Next, Addon

-------------------------------------------------------------------------------
\* What an action leaves alone: the course of the events, or of the streams.
LEMMA EventsStand ==
    ASSUME IInv, Due' = Due, UNCHANGED <<streamMap, session>>, sapi'.last = sapi.last,
           DOMAIN calls' = DOMAIN calls,
           \A c \in DOMAIN calls : /\ calls'[c].heard = calls[c].heard
                                   /\ calls'[c].session = calls[c].session
    PROVE  Mapping' /\ Queueing' /\ Telling'
  <1>0. Mapping /\ Queueing /\ Telling
    BY DEF IInv, Course
  <1>1. \A type, c : IsDue(type, c)' <=> IsDue(type, c)
    BY DEF IsDue
  <1>2. \A c : (Begun(c) => Begun(c)') /\ (NotBegun(c) => NotBegun(c)')
    BY <1>1 DEF Begun, NotBegun, Said
  <1>3. Mapping'
    BY <1>0, <1>1, <1>2 DEF Mapping
  <1>4. Queueing'
    BY <1>0, <1>1, <1>2 DEF Queueing, DueInOrder
  <1>5. Telling'
    BY <1>0 DEF Telling, Stories, Said
  <1> QED
    BY <1>3, <1>4, <1>5

LEMMA StreamsStand ==
    ASSUME IInv, TypeOK', UNCHANGED <<sapi, streamMap>>, Len(calls') >= Len(calls)
    PROVE  Speaking' /\ Posting'
  <1>0. TypeOK /\ Speaking /\ Posting
    BY DEF IInv, Course
  <1>1. Speaking'
    <2>1. Len(calls) \in Nat /\ sapi.last \in Nat
      BY <1>0, Types
    <2>2. Len(calls') \in Nat
      BY LenProperties DEF TypeOK
    <2> QED
      BY <1>0, <2>1, <2>2 DEF Speaking, IsQueued, IsSpeaking, IsPosted, Unstarted, Underway
  <1>2. Posting'
    BY <1>0 DEF Posting, PostedInOrder, IsPosted, Unstarted, Underway
  <1> QED
    BY <1>1, <1>2

\* What to show of the map after a step.
LEMMA MappingPrimed ==
    ASSUME \A n \in DOMAIN streamMap' : n <= sapi'.last =>
              \E c : /\ streamMap'[n].call = c
                     /\ IF streamMap'[n].started THEN Begun(c)' ELSE NotBegun(c)'
                     /\ ~IsDue("finished", c)'
                     /\ \A m \in DOMAIN streamMap' :
                           m <= sapi'.last /\ streamMap'[m].call = c => m = n
    PROVE  Mapping'
  <1> SUFFICES ASSUME NEW n \in DOMAIN streamMap', n <= sapi'.last
               PROVE (LET c == streamMap[n].call
                      IN  /\ IF streamMap[n].started THEN Begun(c) ELSE NotBegun(c)
                          /\ ~IsDue("finished", c)
                          /\ \A m \in DOMAIN streamMap :
                                m <= sapi.last /\ streamMap[m].call = c => m = n)'
    BY DEF Mapping
  <1>1. PICK c : /\ streamMap'[n].call = c
                 /\ IF streamMap'[n].started THEN Begun(c)' ELSE NotBegun(c)'
                 /\ ~IsDue("finished", c)'
                 /\ \A m \in DOMAIN streamMap' :
                       m <= sapi'.last /\ streamMap'[m].call = c => m = n
    OBVIOUS
  <1> QED
    BY <1>1 DEF Begun, NotBegun, IsDue, Said

\* A voice object is made or dropped: the streams start again from none.
LEMMA VoiceChanged ==
    ASSUME IInv, TypeOK', sapi' = NewVoice, Due' = <<>>, UNCHANGED <<streamMap, calls>>
    PROVE  Speaking' /\ Posting' /\ Mapping' /\ Queueing' /\ Telling'
  <1>0. /\ TypeOK /\ Telling /\ Len(calls) \in Nat
        /\ Len(<<>>) = 0 /\ DOMAIN <<>> = {}
    BY Types, EmptySeq DEF IInv, Course
  <1>1. \A n : ~IsQueued(n)' /\ ~IsSpeaking(n)' /\ \A kind : ~IsPosted(kind, n)'
    BY <1>0 DEF IsQueued, IsSpeaking, IsPosted, NewVoice
  <1>2. \A type, c : ~IsDue(type, c)'
    BY <1>0 DEF IsDue
  <1>3. Speaking'
    BY <1>0, <1>1 DEF Speaking, NewVoice
  <1>4. Posting'
    BY <1>0, <1>1 DEF Posting, PostedInOrder, NewVoice
  <1>5. Mapping'
    <2>1. \A n \in DOMAIN streamMap' : n \in Nat /\ n > 0
      <3>1. DOMAIN streamMap' \subseteq Streams
        BY DEF TypeOK
      <3> QED
        BY <3>1, VoiceAssumption DEF Streams
    <2>2. sapi'.last = 0
      BY DEF NewVoice
    <2>3. \A n \in DOMAIN streamMap' : ~(n <= sapi'.last)
      BY <2>1, <2>2
    <2> QED
      BY <2>3 DEF Mapping
  <1>6. Queueing'
    BY <1>0, <1>2 DEF Queueing, DueInOrder
  <1>7. Telling'
    BY <1>0 DEF Telling, Stories, Said
  <1> QED
    BY <1>3, <1>4, <1>5, <1>6, <1>7

LEMMA EnterWorldKeeps == ASSUME IInv, TypeOK', EnterWorld PROVE Course'
  <1>1. Due' = <<>>
    BY EmptySeq, ConcatEmptySeq DEF IInv, Course, Absence, EnterWorld, events, Due
  <1>2. Absence'
    BY DEF IInv, Course, Absence, TypeOK, EnterWorld, events
  <1> QED
    BY <1>1, <1>2, VoiceChanged DEF EnterWorld, Course

LEMMA LeaveWorldKeeps == ASSUME IInv, TypeOK', LeaveWorld PROVE Course'
  <1>1. Due' = <<>>
    BY EmptySeq, ConcatEmptySeq DEF LeaveWorld, Due
  <1>2. Absence'
    BY DEF LeaveWorld, Absence
  <1> QED
    BY <1>1, <1>2, VoiceChanged DEF LeaveWorld, Course

-------------------------------------------------------------------------------
\* A call is recorded after the others.
LEMMA NewCall ==
    ASSUME IInv, TypeOK', NEW told, calls' = Called(told), Due' = Due, session' = session,
           NEW k, k = Len(calls) + 1
    PROVE  /\ k \notin DOMAIN calls /\ k \in CallIds
           /\ DOMAIN calls' = DOMAIN calls \cup {k} /\ Len(calls') = k
           /\ \A c \in DOMAIN calls : calls'[c] = calls[c]
           /\ calls'[k].heard = told /\ calls'[k].session = session
           /\ \A type, c : IsDue(type, c)' <=> IsDue(type, c)
           /\ \A type \in {"started", "finished"}, c \in CallIds :
                 IsDue(type, c) => c \in DOMAIN calls
           /\ \A c \in DOMAIN calls : (Begun(c) => Begun(c)') /\ (NotBegun(c) => NotBegun(c)')
           /\ Queueing'
           /\ told \in {<<>>, <<Said(k, "failed")'>>} => Telling'
  <1> DEFINE new == [id |-> GetNextUtteranceID, session |-> session, heard |-> told, cut |-> "no"]
  <1>0. TypeOK /\ Queueing /\ Telling
    BY DEF IInv, Course
  <1>1. /\ calls \in Seq(Call) /\ Len(calls) \in Nat /\ DOMAIN calls = 1..Len(calls)
        /\ calls' \in Seq(Call) /\ DOMAIN calls' = 1..Len(calls') /\ Len(calls') <= MaxCalls
    BY <1>0, Types, LenProperties DEF TypeOK
  <1>2. calls' = Append(calls, new)
    BY DEF Called
  <1>3. Len(calls') = k /\ calls'[k] = new /\ \A c \in DOMAIN calls : calls'[c] = calls[c]
    <2> HIDE DEF new
    <2> QED
      BY <1>1, <1>2
  <1>4. k \notin DOMAIN calls /\ DOMAIN calls' = DOMAIN calls \cup {k} /\ k \in CallIds
    BY <1>1, <1>3 DEF CallIds
  <1>5. calls'[k].heard = told /\ calls'[k].session = session
    BY <1>3
  <1> HIDE DEF new
  <1>6. \A type, c : IsDue(type, c)' <=> IsDue(type, c)
    BY DEF IsDue
  <1>7. \A type \in {"started", "finished"}, c \in CallIds : IsDue(type, c) => c \in DOMAIN calls
    BY <1>0 DEF Queueing, Begun
  <1>8. \A c \in DOMAIN calls : (Begun(c) => Begun(c)') /\ (NotBegun(c) => NotBegun(c)')
    BY <1>3, <1>4, <1>6 DEF Begun, NotBegun, Said
  <1>9. Queueing'
    BY <1>0, <1>6, <1>7, <1>8 DEF Queueing, DueInOrder
  <1>10. told \in {<<>>, <<Said(k, "failed")'>>} => Telling'
    <2> SUFFICES ASSUME told \in {<<>>, <<Said(k, "failed")'>>}, NEW c \in DOMAIN calls'
                 PROVE  calls'[c].heard \in Stories(c)'
      BY DEF Telling
    <2>1. CASE c = k
      BY <1>5, <2>1 DEF Stories
    <2>2. CASE c \in DOMAIN calls
      BY <1>0, <1>3, <2>2 DEF Telling, Stories, Said
    <2> QED
      BY <1>4, <2>1, <2>2
  <1> QED
    BY <1>3, <1>4, <1>5, <1>6, <1>7, <1>8, <1>9, <1>10

LEMMA SpeakTextKeeps == ASSUME IInv, TypeOK', SpeakText PROVE Course'
  <1> PICK num : num = sapi.last + 1
    OBVIOUS
  <1> PICK k : k = Len(calls) + 1
    OBVIOUS
  <1> DEFINE stream == [num |-> num, call |-> k]
  <1>0. TypeOK /\ Absence /\ Speaking /\ Posting /\ Mapping
    BY DEF IInv, Course
  <1>1. /\ sapi' = [sapi EXCEPT !.last = num, !.queue = Append(@, stream)]
        /\ streamMap' = Mapped(num, [call |-> k, started |-> FALSE])
        /\ calls' = Called(<<>>)
        /\ UNCHANGED <<inWorld, session, voice, pendingEvents, localEvents>> /\ voice # 0
    BY DEF SpeakText, world, events
  <1>2. Due' = Due
    BY <1>1 DEF Due
  <1>3. /\ k \notin DOMAIN calls /\ DOMAIN calls' = DOMAIN calls \cup {k} /\ Len(calls') = k
        /\ k \in CallIds
        /\ \A c \in DOMAIN calls : calls'[c] = calls[c]
        /\ calls'[k].heard = <<>> /\ calls'[k].session = session
        /\ \A type, c : IsDue(type, c)' <=> IsDue(type, c)
        /\ \A type \in {"started", "finished"}, c \in CallIds : IsDue(type, c) => c \in DOMAIN calls
        /\ \A c \in DOMAIN calls : (Begun(c) => Begun(c)') /\ (NotBegun(c) => NotBegun(c)')
        /\ Queueing' /\ Telling'
    BY <1>1, <1>2, NewCall
  <1>4. sapi.last \in Nat /\ num \in Streams /\ num > sapi.last /\ Len(calls) \in Nat
    <2>1. Len(calls) \in Nat /\ sapi.last <= Len(calls) /\ sapi.last \in Nat /\ k \in 1..MaxCalls
      BY <1>0, <1>3, Types DEF Speaking, CallIds
    <2> QED
      BY <2>1, VoiceAssumption DEF Streams
  <1>5. /\ num \in DOMAIN streamMap' /\ streamMap'[num] = [call |-> k, started |-> FALSE]
        /\ \A n \in DOMAIN streamMap : n # num => n \in DOMAIN streamMap' /\ streamMap'[n] = streamMap[n]
        /\ \A n \in DOMAIN streamMap' : n # num => n \in DOMAIN streamMap
    BY <1>1 DEF Mapped
  <1>6. /\ sapi'.last = num /\ sapi'.queue = Append(sapi.queue, stream)
        /\ sapi'.speaking = sapi.speaking /\ sapi'.posted = sapi.posted
    BY <1>0, <1>1 DEF TypeOK
  <1>7. stream \in Stream
    BY <1>3, <1>4 DEF Stream
  <1>8. /\ DOMAIN sapi.queue = 1..Len(sapi.queue) /\ Len(sapi.queue) \in Nat
        /\ DOMAIN sapi'.queue = 1..(Len(sapi.queue) + 1)
        /\ sapi'.queue[Len(sapi.queue) + 1] = stream
        /\ \A i \in DOMAIN sapi.queue : sapi'.queue[i] = sapi.queue[i]
    <2>1. sapi.queue \in Seq(Stream)
      BY <1>0, Types
    <2> HIDE DEF stream
    <2> QED
      BY <1>6, <1>7, <2>1, Appended
  <1>9. /\ \A n : IsQueued(n)' <=> IsQueued(n) \/ n = num
        /\ \A n : IsSpeaking(n)' <=> IsSpeaking(n)
        /\ \A kind, n : IsPosted(kind, n)' <=> IsPosted(kind, n)
    BY <1>6, <1>8 DEF IsQueued, IsSpeaking, IsPosted
  <1>10. \A n \in Streams : n <= sapi.last =>
            /\ n # num /\ n <= sapi'.last
            /\ Unstarted(n) => Unstarted(n)'
            /\ Underway(n) => Underway(n)'
    BY <1>4, <1>5, <1>6, <1>9 DEF Streams, Unstarted, Underway
  <1>11. Speaking'
    <2>1. sapi'.last <= Len(calls')
      BY <1>0, <1>3, <1>4, <1>6 DEF Speaking
    <2>2. \A i \in DOMAIN sapi.queue : sapi.queue[i].num # num
      <3>1. \A i \in DOMAIN sapi.queue : sapi.queue[i].num \in Streams
        <4>1. \A i \in DOMAIN sapi.queue : sapi.queue[i] \in Stream
          BY <1>0, Types
        <4> QED
          BY <4>1 DEF Stream
      <3> QED
        BY <1>0, <1>10, <3>1 DEF Speaking, IsQueued
    <2>3. \A i, j \in DOMAIN sapi'.queue : sapi'.queue[i].num = sapi'.queue[j].num => i = j
      <3>1. sapi'.queue[Len(sapi.queue) + 1].num = num
        BY <1>8
      <3>2. \A i \in DOMAIN sapi.queue : sapi'.queue[i].num = sapi.queue[i].num
        BY <1>8
      <3>3. \A i, j \in DOMAIN sapi.queue : sapi.queue[i].num = sapi.queue[j].num => i = j
        BY <1>0 DEF Speaking
      <3>4. \A i \in DOMAIN sapi'.queue : i \in DOMAIN sapi.queue \/ i = Len(sapi.queue) + 1
        BY <1>8
      <3> HIDE DEF stream
      <3> QED
        BY <2>2, <3>1, <3>2, <3>3, <3>4
    <2>4. ASSUME NEW n \in Streams, IsQueued(n)'
          PROVE  /\ n <= sapi'.last /\ Unstarted(n)' /\ ~IsSpeaking(n)'
                 /\ ~IsPosted("start", n)' /\ ~IsPosted("end", n)'
      <3>1. CASE n = num
        <4>1. Unstarted(n)'
          BY <1>5, <3>1 DEF Unstarted
        <4> QED
          BY <1>0, <1>4, <1>6, <1>9, <3>1, <4>1 DEF Speaking, Posting
      <3>2. CASE IsQueued(n)
        BY <1>0, <1>9, <1>10, <3>2 DEF Speaking
      <3> QED
        BY <1>9, <2>4, <3>1, <3>2
    <2>5. ASSUME NEW n \in Streams, IsSpeaking(n)'
          PROVE  n <= sapi'.last /\ Underway(n)' /\ ~IsPosted("end", n)'
      BY <1>0, <1>9, <1>10, <2>5 DEF Speaking
    <2> QED
      BY <1>0, <1>6, <2>1, <2>3, <2>4, <2>5 DEF Speaking
  <1>12. Posting'
    <2>1. PostedInOrder'
      BY <1>0, <1>6 DEF Posting, PostedInOrder
    <2> QED
      BY <1>0, <1>9, <1>10, <2>1 DEF Posting
  <1>13. Mapping'
    <2> SUFFICES ASSUME NEW n \in DOMAIN streamMap', n <= sapi'.last
                 PROVE  \E c : /\ streamMap'[n].call = c
                               /\ IF streamMap'[n].started THEN Begun(c)' ELSE NotBegun(c)'
                               /\ ~IsDue("finished", c)'
                               /\ \A m \in DOMAIN streamMap' :
                                     m <= sapi'.last /\ streamMap'[m].call = c => m = n
      BY MappingPrimed
    <2>1. \A m \in DOMAIN streamMap' : m # num /\ m <= sapi'.last => m \in DOMAIN streamMap /\ m <= sapi.last
      <3>1. \A m \in DOMAIN streamMap : m \in Nat
        <4>1. DOMAIN streamMap \subseteq Streams
          BY <1>0 DEF TypeOK
        <4> QED
          BY <4>1 DEF Streams
      <3> QED
        BY <1>4, <1>5, <1>6, <3>1
    <2>2. \A m \in DOMAIN streamMap : m <= sapi.last => streamMap[m].call \in DOMAIN calls
      BY <1>0 DEF Mapping, Begun, NotBegun
    <2>3. CASE n = num
      <3>1. NotBegun(k)' /\ ~IsDue("finished", k)'
        BY <1>1, <1>3 DEF NotBegun
      <3>2. \A m \in DOMAIN streamMap' : m <= sapi'.last /\ streamMap'[m].call = k => m = n
        BY <1>3, <1>5, <2>1, <2>2, <2>3
      <3> QED
        BY <1>5, <2>3, <3>1, <3>2
    <2>4. CASE n # num
      <3>1. n \in DOMAIN streamMap /\ n <= sapi.last /\ streamMap'[n] = streamMap[n]
        BY <1>5, <2>1, <2>4
      <3>2. streamMap[n].call \in DOMAIN calls /\ streamMap[n].call # k
        BY <1>3, <2>2, <3>1
      <3> PICK c : c = streamMap[n].call
        OBVIOUS
      <3>3. IF streamMap[n].started THEN Begun(c)' ELSE NotBegun(c)'
        BY <1>0, <1>3, <3>1, <3>2 DEF Mapping
      <3>4. ~IsDue("finished", c)'
        BY <1>0, <1>3, <3>1 DEF Mapping
      <3>5. \A m \in DOMAIN streamMap' : m <= sapi'.last /\ streamMap'[m].call = c => m = n
        BY <1>0, <1>5, <2>1, <3>1, <3>2 DEF Mapping
      <3> QED
        BY <3>1, <3>3, <3>4, <3>5
    <2> QED
      BY <2>3, <2>4
  <1> QED
    BY <1>0, <1>1, <1>3, <1>11, <1>12, <1>13 DEF Course, Absence

LEMMA SpeakTextFailsKeeps == ASSUME IInv, TypeOK', SpeakTextFails PROVE Course'
  <1>0. TypeOK /\ Absence /\ Mapping
    BY DEF IInv, Course
  <1>1. /\ calls' = Called(<<[what |-> "failed", in |-> session]>>)
        /\ UNCHANGED <<inWorld, session, voice, sapi, streamMap, pendingEvents, localEvents>>
    BY DEF SpeakTextFails, world, engine, events
  <1>2. Due' = Due
    BY <1>1 DEF Due
  <1> PICK k : k = Len(calls) + 1
    OBVIOUS
  <1> DEFINE told == <<[what |-> "failed", in |-> session]>>
  <1>3. /\ Len(calls') = k /\ calls'[k].session = session
        /\ \A type, c : IsDue(type, c)' <=> IsDue(type, c)
        /\ \A c \in DOMAIN calls : (Begun(c) => Begun(c)') /\ (NotBegun(c) => NotBegun(c)')
        /\ Queueing'
        /\ told \in {<<>>, <<Said(k, "failed")'>>} => Telling'
    BY <1>1, <1>2, NewCall
  <1>4. Telling'
    <2>1. Said(k, "failed")' = [what |-> "failed", in |-> session]
      BY <1>3 DEF Said
    <2> QED
      BY <1>3, <2>1
  <1>5. Speaking' /\ Posting'
    BY <1>0, <1>1, <1>3, Types, StreamsStand
  <1>6. Mapping'
    <2>1. \A n \in DOMAIN streamMap : n <= sapi.last => streamMap[n].call \in DOMAIN calls
      BY <1>0 DEF Mapping, Begun, NotBegun
    <2> QED
      BY <1>0, <1>1, <1>3, <2>1 DEF Mapping
  <1> QED
    BY <1>0, <1>1, <1>3, <1>4, <1>5, <1>6 DEF Course, Absence

-------------------------------------------------------------------------------
\* The stream that speaks ends, or is cut off and END is told: the streams in
\* the queue wait on, or are forgotten.
LEMMA EndPosted ==
    ASSUME IInv, TypeOK', sapi.speaking # <<>>,
           sapi'.last = sapi.last, sapi'.queue \in {sapi.queue, <<>>}, sapi'.speaking = <<>>,
           sapi'.posted = Append(sapi.posted, [kind |-> "end", num |-> sapi.speaking[1].num]),
           streamMap' = streamMap, Len(calls') = Len(calls)
    PROVE  Speaking' /\ Posting'
  <1>0. TypeOK /\ Speaking /\ Posting /\ Len(<<>>) = 0 /\ DOMAIN <<>> = {}
    BY EmptySeq DEF IInv, Course
  <1> PICK k : k = sapi.speaking[1].num
    OBVIOUS
  <1>1. IsSpeaking(k) /\ k \in Streams
    <2>1. 1 \in DOMAIN sapi.speaking /\ sapi.speaking[1] \in Stream
      BY <1>0, Types, Tailed
    <2> QED
      BY <2>1 DEF IsSpeaking, Stream
  <1>2. k <= sapi.last /\ Underway(k) /\ ~IsPosted("end", k)
    BY <1>0, <1>1 DEF Speaking
  <1>3. /\ PostedInOrder'
        /\ \A kind, n : IsPosted(kind, n)' <=> IsPosted(kind, n) \/ (kind = "end" /\ n = k)
    <2>1. [kind |-> "end", num |-> k] \in Notice
      BY <1>1 DEF Notice
    <2> QED
      BY <1>0, <1>2, <2>1, MorePosted DEF Posting
  <1>4. \A n : (Unstarted(n) => Unstarted(n)') /\ (Underway(n) => Underway(n)')
    BY <1>3 DEF Unstarted, Underway
  <1>5. \A n : ~IsSpeaking(n)' /\ (IsQueued(n)' => IsQueued(n))
    BY <1>0 DEF IsSpeaking, IsQueued
  <1>6. \A i, j \in DOMAIN sapi'.queue : sapi'.queue[i].num = sapi'.queue[j].num => i = j
    BY <1>0 DEF Speaking
  <1>7. ASSUME NEW n \in Streams, IsQueued(n)'
        PROVE  n <= sapi'.last /\ Unstarted(n)' /\ ~IsPosted("start", n)' /\ ~IsPosted("end", n)'
    <2>1. IsQueued(n)
      BY <1>5, <1>7
    <2>2. n # k
      BY <1>0, <1>1, <2>1 DEF Speaking
    <2> QED
      BY <1>0, <1>3, <1>4, <2>1, <2>2 DEF Speaking
  <1>8. Speaking'
    BY <1>0, <1>5, <1>6, <1>7 DEF Speaking
  <1>9. Posting'
    BY <1>0, <1>2, <1>3, <1>4 DEF Posting
  <1> QED
    BY <1>8, <1>9

LEMMA FinishKeeps == ASSUME IInv, TypeOK', Finish PROVE Course'
  <1>0. /\ sapi' = [sapi EXCEPT !.speaking = <<>>,
                      !.posted = Append(@, [kind |-> "end", num |-> sapi.speaking[1].num])]
        /\ sapi.speaking # <<>> /\ TypeOK /\ Absence /\ voice # 0
        /\ UNCHANGED <<inWorld, session, voice, streamMap, pendingEvents, localEvents, calls>>
    BY DEF Finish, world, events, IInv, Course
  <1>1. /\ sapi'.last = sapi.last /\ sapi'.queue = sapi.queue /\ sapi'.speaking = <<>>
        /\ sapi'.posted = Append(sapi.posted, [kind |-> "end", num |-> sapi.speaking[1].num])
    BY <1>0 DEF TypeOK
  <1>2. Speaking' /\ Posting'
    BY <1>0, <1>1, EndPosted
  <1>3. Mapping' /\ Queueing' /\ Telling'
    BY <1>0, <1>1, EventsStand DEF Due
  <1> QED
    BY <1>0, <1>2, <1>3 DEF Course, Absence

LEMMA StopThreadKeeps ==
    ASSUME IInv, TypeOK', NEW i \in DOMAIN stops, StopThread(i) PROVE Course'
  <1>0. /\ TypeOK /\ Absence /\ Speaking /\ Posting
        /\ UNCHANGED <<inWorld, session, voice, streamMap, pendingEvents, localEvents>>
        /\ DOMAIN calls' = DOMAIN calls /\ Len(calls') = Len(calls) /\ Len(calls) \in Nat
        /\ \A c \in DOMAIN calls : /\ calls'[c].heard = calls[c].heard
                                   /\ calls'[c].session = calls[c].session
    BY StopThreadType, Types DEF StopThread, world, events, IInv, Course
  <1>1. CASE sapi' = sapi
    <2>1. Speaking' /\ Posting'
      BY <1>0, <1>1, StreamsStand
    <2>2. Mapping' /\ Queueing' /\ Telling'
      BY <1>0, <1>1, EventsStand DEF Due
    <2> QED
      BY <1>0, <1>1, <2>1, <2>2 DEF Course, Absence
  <1>2. ASSUME voice # 0, NEW told \in BOOLEAN, told => sapi.speaking # <<>>,
               sapi' = [sapi EXCEPT !.queue = <<>>, !.speaking = <<>>,
                          !.posted = IF told THEN Append(@, [kind |-> "end",
                                                   num |-> sapi.speaking[1].num])
                                     ELSE @]
        PROVE  Course'
    <2>1. /\ sapi'.last = sapi.last /\ sapi'.queue = <<>> /\ sapi'.speaking = <<>>
          /\ sapi'.posted = IF told THEN Append(sapi.posted, [kind |-> "end",
                                                 num |-> sapi.speaking[1].num])
                            ELSE sapi.posted
      BY <1>0, <1>2 DEF TypeOK
    <2>2. Mapping' /\ Queueing' /\ Telling'
      BY <1>0, <2>1, EventsStand DEF Due
    <2>3. CASE told
      BY <1>0, <1>2, <2>1, <2>2, <2>3, EndPosted DEF Course, Absence
    <2>4. CASE ~told
      <3>0. Len(<<>>) = 0 /\ DOMAIN <<>> = {}
        BY EmptySeq
      <3>1. \A n : ~IsSpeaking(n)' /\ ~IsQueued(n)' /\ \A kind : IsPosted(kind, n)' <=> IsPosted(kind, n)
        BY <2>1, <2>4, <3>0 DEF IsSpeaking, IsQueued, IsPosted
      <3>2. Speaking'
        BY <1>0, <2>1, <3>0, <3>1 DEF Speaking
      <3>3. Posting'
        <4>1. sapi'.posted = sapi.posted /\ sapi'.last = sapi.last /\ streamMap' = streamMap
          BY <1>0, <2>1, <2>4
        <4>2. PostedInOrder'
          BY <1>0, <4>1 DEF Posting, PostedInOrder
        <4> QED
          BY <1>0, <3>1, <4>1, <4>2 DEF Posting, Unstarted, Underway
      <3> QED
        BY <1>0, <1>2, <2>2, <3>2, <3>3 DEF Course, Absence
    <2> QED
      BY <2>3, <2>4
  <1>3. sapi' = sapi \/
        (voice # 0 /\ \E told \in BOOLEAN :
            /\ told => sapi.speaking # <<>>
            /\ sapi' = [sapi EXCEPT !.queue = <<>>, !.speaking = <<>>,
                          !.posted = IF told THEN Append(@, [kind |-> "end",
                                                   num |-> sapi.speaking[1].num])
                                     ELSE @])
    <2>1. stops[i] \in [voice : 1..MaxSessions, after : 0..MaxCalls]
      <3>1. stops \in Seq([voice : 1..MaxSessions, after : 0..MaxCalls])
        BY <1>0 DEF TypeOK
      <3> QED
        BY <3>1, LenProperties, ElementOfSeq
    <2>2. stops[i].voice # 0
      BY <2>1
    <2>3. CASE stops[i].voice # voice
      BY <2>3 DEF StopThread, engine
    <2>4. CASE stops[i].voice = voice
      <3>1. \E told \in BOOLEAN :
               /\ told => sapi.speaking # <<>>
               /\ sapi' = [sapi EXCEPT !.queue = <<>>, !.speaking = <<>>,
                             !.posted = IF told THEN Append(@, [kind |-> "end",
                                                      num |-> sapi.speaking[1].num])
                                        ELSE @]
        BY <2>4 DEF StopThread
      <3> QED
        BY <2>2, <2>4, <3>1
    <2> QED
      BY <2>3, <2>4
  <1> QED
    BY <1>1, <1>2, <1>3

\* The next stream begins to speak.
LEMMA BeginKeeps == ASSUME IInv, TypeOK', Begin PROVE Course'
  <1>0. /\ sapi' = [sapi EXCEPT !.speaking = <<Head(sapi.queue)>>, !.queue = Tail(@),
                      !.posted = Append(@, [kind |-> "start", num |-> Head(sapi.queue).num])]
        /\ sapi.speaking = <<>> /\ sapi.queue # <<>> /\ voice # 0
        /\ UNCHANGED <<inWorld, session, voice, streamMap, pendingEvents, localEvents, calls>>
        /\ TypeOK /\ Absence /\ Speaking /\ Posting
    BY DEF Begin, world, events, IInv, Course
  <1> PICK k : k = Head(sapi.queue).num
    OBVIOUS
  <1>1. /\ sapi'.last = sapi.last /\ sapi'.queue = Tail(sapi.queue)
        /\ sapi'.speaking = <<Head(sapi.queue)>>
        /\ sapi'.posted = Append(sapi.posted, [kind |-> "start", num |-> k])
    BY <1>0 DEF TypeOK
  <1>2. Mapping' /\ Queueing' /\ Telling'
    BY <1>0, <1>1, EventsStand DEF Due
  <1>3. /\ 1 \in DOMAIN sapi.queue /\ Head(sapi.queue) = sapi.queue[1] /\ Head(sapi.queue) \in Stream
        /\ DOMAIN sapi.queue = 1..Len(sapi.queue) /\ Len(sapi.queue) \in Nat
        /\ \A j \in DOMAIN sapi'.queue : j \in Nat /\ j + 1 # 1 /\ j + 1 \in DOMAIN sapi.queue
                                         /\ sapi'.queue[j] = sapi.queue[j + 1]
    BY <1>0, <1>1, Types, Tailed
  <1>4. k \in Streams /\ IsQueued(k)
    BY <1>3 DEF IsQueued, Stream
  <1>5. k <= sapi.last /\ Unstarted(k) /\ ~IsPosted("start", k) /\ ~IsPosted("end", k)
    BY <1>0, <1>4 DEF Speaking
  <1>6. /\ PostedInOrder'
        /\ \A kind, n : IsPosted(kind, n)' <=> IsPosted(kind, n) \/ (kind = "start" /\ n = k)
    <2>1. [kind |-> "start", num |-> k] \in Notice
      BY <1>4 DEF Notice
    <2> QED
      BY <1>0, <1>1, <1>5, <2>1, MorePosted DEF Posting
  <1>7. \A n : (Unstarted(n) => Unstarted(n)') /\ (Underway(n) => Underway(n)')
    BY <1>0, <1>6 DEF Unstarted, Underway
  <1>8. /\ \A n : IsQueued(n)' => IsQueued(n) /\ n # k
        /\ \A n : IsSpeaking(n)' => n = k
        /\ Len(sapi'.speaking) = 1
    <2>1. \A i, j \in DOMAIN sapi.queue : sapi.queue[i].num = sapi.queue[j].num => i = j
      BY <1>0 DEF Speaking
    <2>2. \A n : IsQueued(n)' => IsQueued(n) /\ n # k
      BY <1>3, <2>1 DEF IsQueued
    <2>3. Len(sapi'.speaking) = 1 /\ \A n : IsSpeaking(n)' => n = k
      BY <1>1 DEF IsSpeaking
    <2> QED
      BY <2>2, <2>3
  <1>9. \A i, j \in DOMAIN sapi'.queue : sapi'.queue[i].num = sapi'.queue[j].num => i = j
    <2> SUFFICES ASSUME NEW i \in DOMAIN sapi'.queue, NEW j \in DOMAIN sapi'.queue,
                        sapi'.queue[i].num = sapi'.queue[j].num
                 PROVE  i = j
      OBVIOUS
    <2>1. sapi.queue[i + 1].num = sapi.queue[j + 1].num /\ i \in Nat /\ j \in Nat
      BY <1>3
    <2>2. i + 1 = j + 1
      BY <1>0, <1>3, <2>1 DEF Speaking
    <2> QED
      BY <2>1, <2>2
  <1>10. Speaking'
    <2>1. ASSUME NEW n \in Streams, IsQueued(n)'
          PROVE  /\ n <= sapi'.last /\ Unstarted(n)' /\ ~IsSpeaking(n)'
                 /\ ~IsPosted("start", n)' /\ ~IsPosted("end", n)'
      BY <1>0, <1>1, <1>6, <1>7, <1>8, <2>1 DEF Speaking
    <2>2. ASSUME NEW n \in Streams, IsSpeaking(n)'
          PROVE  n <= sapi'.last /\ Underway(n)' /\ ~IsPosted("end", n)'
      <3>1. n = k
        BY <1>8, <2>2
      <3>2. Underway(k)'
        BY <1>0, <1>5, <1>6 DEF Unstarted, Underway
      <3> QED
        BY <1>1, <1>5, <1>6, <3>1, <3>2
    <2> QED
      BY <1>0, <1>1, <1>8, <1>9, <2>1, <2>2 DEF Speaking
  <1>11. Posting'
    BY <1>0, <1>1, <1>5, <1>6, <1>7 DEF Posting
  <1> QED
    BY <1>0, <1>2, <1>10, <1>11 DEF Course, Absence

-------------------------------------------------------------------------------
\* One notification is handled: the stream's mark and the event that is due
\* stand for it from now on.
LEMMA NotifyKeeps == ASSUME IInv, TypeOK', OnSpeechNotifyCallback PROVE Course'
  <1>0. /\ TypeOK /\ Absence /\ Speaking /\ Posting /\ Mapping /\ Queueing /\ Telling
        /\ sapi.posted # <<>> /\ voice # 0
        /\ UNCHANGED <<inWorld, session, voice, localEvents, calls>>
    BY DEF OnSpeechNotifyCallback, world, IInv, Course
  <1> PICK ev : ev = Head(sapi.posted)
    OBVIOUS
  <1> PICK k : k = ev.num
    OBVIOUS
  <1> PICK c : c = streamMap[k].call
    OBVIOUS
  <1> PICK type : type = IF ev.kind = "start" THEN "started" ELSE "finished"
    OBVIOUS
  <1> DEFINE e == [type |-> type, call |-> c]
  <1>1. /\ ev \in Notice /\ k \in DOMAIN streamMap /\ k <= sapi.last
        /\ streamMap[k].started <=> ev.kind = "end"
        /\ e \in Event /\ pendingEvents' = Append(pendingEvents, e)
        /\ streamMap' = IF ev.kind = "start"
                        THEN [streamMap EXCEPT ![k] = [@ EXCEPT !.started = TRUE]]
                        ELSE [n \in DOMAIN streamMap \ {k} |-> streamMap[n]]
        /\ sapi' = [sapi EXCEPT !.posted = Tail(@)]
    BY Handled
  <1>2. /\ sapi'.last = sapi.last /\ sapi'.queue = sapi.queue /\ sapi'.speaking = sapi.speaking
        /\ sapi'.posted = Tail(sapi.posted)
    BY <1>0, <1>1 DEF TypeOK
  <1>3. /\ k \in Streams /\ ev.kind \in {"start", "end"}
        /\ IsPosted(ev.kind, k) /\ (ev.kind = "end" => ~IsPosted("start", k))
        /\ PostedInOrder'
        /\ \A kind, n : IsPosted(kind, n)' <=> IsPosted(kind, n) /\ ~(kind = ev.kind /\ n = k)
    <2>1. PostedInOrder
      BY <1>0 DEF Posting
    <2> QED
      BY <1>0, <1>1, <1>2, <2>1, LessPosted DEF Notice
  <1>4. /\ \A n : IsQueued(n)' <=> IsQueued(n)
        /\ \A n : IsSpeaking(n)' <=> IsSpeaking(n)
    BY <1>2 DEF IsQueued, IsSpeaking
  \* The call of the stream, and the event.
  <1>5. /\ c \in CallIds /\ ~IsDue("finished", c)
        /\ IF ev.kind = "end" THEN Begun(c) ELSE NotBegun(c)
        /\ \A m \in DOMAIN streamMap : m <= sapi.last /\ streamMap[m].call = c => m = k
    BY <1>0, <1>1 DEF Mapping, Event
  <1>6. /\ DueInOrder'
        /\ \A t, d : IsDue(t, d)' <=> IsDue(t, d) \/ (t = type /\ d = c)
    <2>1. Due' = Append(Due, e)
      <3> HIDE DEF e
      <3> QED
        BY <1>0, <1>1, DueAppended
    <2>2. type = "started" => ~IsDue("started", c)
      BY <1>3, <1>5 DEF NotBegun
    <2>3. DueInOrder
      BY <1>0 DEF Queueing
    <2>4. e.type = type /\ e.call = c
      OBVIOUS
    <2> HIDE DEF e
    <2> QED
      BY <1>0, <1>1, <1>5, <2>1, <2>2, <2>3, <2>4, MoreDue
  <1>7. /\ Begun(c)'
        /\ \A d : d # c => (Begun(d) => Begun(d)') /\ (NotBegun(d) => NotBegun(d)')
    <2>1. ASSUME ev.kind = "start" PROVE Begun(c)'
      <3>1. IsDue("started", c)' /\ NotBegun(c)
        BY <1>5, <1>6, <2>1
      <3>2. calls' = calls /\ session' = session
        BY <1>0
      <3> QED
        BY <3>1, <3>2, Zenon DEF Begun, NotBegun
    <2>2. ASSUME ev.kind = "end" PROVE Begun(c)'
      <3>1. Begun(c) /\ (IsDue("started", c)' <=> IsDue("started", c))
        BY <1>5, <1>6, <2>2
      <3>2. calls' = calls /\ session' = session
        BY <1>0
      <3> QED
        BY <3>1, <3>2, Zenon DEF Begun, Said
    <2>3. \A d : d # c => (Begun(d) => Begun(d)') /\ (NotBegun(d) => NotBegun(d)')
      BY <1>0, <1>6 DEF Begun, NotBegun, Said
    <2> QED
      BY <1>3, <2>1, <2>2, <2>3
  <1>8. Queueing'
    <2>1. ASSUME NEW d \in CallIds, IsDue("started", d)' \/ IsDue("finished", d)' PROVE Begun(d)'
      BY <1>0, <1>6, <1>7, <2>1 DEF Queueing
    <2> QED
      BY <1>6, <2>1 DEF Queueing
  <1>9. Telling'
    BY <1>0 DEF Telling, Stories, Said
  \* The other streams.
  <1>10. /\ \A n : n # k => (n \in DOMAIN streamMap' <=> n \in DOMAIN streamMap)
         /\ \A n \in DOMAIN streamMap : n # k => streamMap'[n] = streamMap[n]
         /\ ev.kind = "end" => k \notin DOMAIN streamMap'
         /\ ev.kind = "start" => k \in DOMAIN streamMap' /\ streamMap'[k].started
                                /\ streamMap'[k].call = c
    <2>1. streamMap[k] \in Meta
      BY <1>0, <1>1 DEF TypeOK
    <2> QED
      BY <1>1, <1>3, <2>1 DEF Meta
  <1>11. \A n : n # k => (Unstarted(n) => Unstarted(n)') /\ (Underway(n) => Underway(n)')
    BY <1>3, <1>10 DEF Unstarted, Underway
  <1>12. ev.kind = "start" => Underway(k)'
    BY <1>10 DEF Underway
  <1>13. Speaking'
    <2>1. ASSUME NEW n \in Streams, IsQueued(n)'
          PROVE  /\ n <= sapi'.last /\ Unstarted(n)' /\ ~IsSpeaking(n)'
                 /\ ~IsPosted("start", n)' /\ ~IsPosted("end", n)'
      <3>1. IsQueued(n) /\ n # k
        BY <1>0, <1>3, <1>4, <2>1 DEF Speaking
      <3> QED
        BY <1>0, <1>2, <1>3, <1>4, <1>11, <3>1 DEF Speaking
    <2>2. ASSUME NEW n \in Streams, IsSpeaking(n)'
          PROVE  n <= sapi'.last /\ Underway(n)' /\ ~IsPosted("end", n)'
      <3>1. IsSpeaking(n) /\ n <= sapi.last /\ Underway(n) /\ ~IsPosted("end", n)
        BY <1>0, <1>4, <2>2 DEF Speaking
      <3>2. Underway(n)'
        BY <1>3, <1>11, <1>12, <3>1
      <3> QED
        BY <1>2, <1>3, <3>1, <3>2
    <2>3. /\ sapi'.last <= Len(calls') /\ Len(sapi'.speaking) <= 1
          /\ \A i, j \in DOMAIN sapi'.queue : sapi'.queue[i].num = sapi'.queue[j].num => i = j
      BY <1>0, <1>2 DEF Speaking
    <2> QED
      BY <2>1, <2>2, <2>3 DEF Speaking
  <1>14. Posting'
    <2>1. ASSUME NEW n \in Streams, IsPosted("start", n)' PROVE n <= sapi'.last /\ Unstarted(n)'
      <3>1. IsPosted("start", n) /\ n # k
        BY <1>3, <2>1
      <3> QED
        BY <1>0, <1>2, <1>11, <3>1 DEF Posting
    <2>2. ASSUME NEW n \in Streams, IsPosted("end", n)' PROVE n <= sapi'.last /\ Underway(n)'
      <3>1. IsPosted("end", n) /\ ~(ev.kind = "end" /\ n = k)
        BY <1>3, <2>2
      <3>2. n <= sapi.last /\ Underway(n)
        BY <1>0, <3>1 DEF Posting
      <3> QED
        BY <1>2, <1>3, <1>11, <1>12, <3>1, <3>2
    <2> QED
      BY <1>3, <2>1, <2>2 DEF Posting
  <1>15. Mapping'
    <2> SUFFICES ASSUME NEW n \in DOMAIN streamMap', n <= sapi'.last
                 PROVE  \E d : /\ streamMap'[n].call = d
                               /\ IF streamMap'[n].started THEN Begun(d)' ELSE NotBegun(d)'
                               /\ ~IsDue("finished", d)'
                               /\ \A m \in DOMAIN streamMap' :
                                     m <= sapi'.last /\ streamMap'[m].call = d => m = n
      BY MappingPrimed
    <2>1. \A m \in DOMAIN streamMap' : m \in DOMAIN streamMap /\ streamMap'[m].call = streamMap[m].call
      BY <1>1, <1>3, <1>10
    <2>2. CASE n = k
      <3>1. ev.kind = "start" /\ streamMap'[k].started /\ streamMap'[k].call = c
        BY <1>3, <1>10, <2>2
      <3>2. ~IsDue("finished", c)'
        BY <1>5, <1>6, <3>1
      <3>3. \A m \in DOMAIN streamMap' : m <= sapi'.last /\ streamMap'[m].call = c => m = n
        BY <1>2, <1>5, <2>1, <2>2
      <3> QED
        BY <1>7, <2>2, <3>1, <3>2, <3>3
    <2>3. CASE n # k
      <3> PICK d : d = streamMap[n].call
        OBVIOUS
      <3>1. /\ n \in DOMAIN streamMap /\ n <= sapi.last /\ streamMap'[n] = streamMap[n]
            /\ d # c
        BY <1>2, <1>5, <1>10, <2>1, <2>3
      <3>2. /\ IF streamMap[n].started THEN Begun(d) ELSE NotBegun(d)
            /\ ~IsDue("finished", d)
            /\ \A m \in DOMAIN streamMap : m <= sapi.last /\ streamMap[m].call = d => m = n
        BY <1>0, <3>1 DEF Mapping
      <3>3. /\ IF streamMap'[n].started THEN Begun(d)' ELSE NotBegun(d)'
            /\ ~IsDue("finished", d)'
        BY <1>6, <1>7, <3>1, <3>2
      <3>4. \A m \in DOMAIN streamMap' : m <= sapi'.last /\ streamMap'[m].call = d => m = n
        BY <1>2, <2>1, <3>2
      <3> QED
        BY <3>1, <3>3, <3>4
    <2> QED
      BY <2>2, <2>3
  <1>16. Absence'
    BY <1>0 DEF Absence, TypeOK
  <1> QED
    BY <1>8, <1>9, <1>13, <1>14, <1>15, <1>16 DEF Course

LEMMA ShortAppends == \A x, y : Append(<<>>, x) = <<x>> /\ Append(<<x>>, y) = <<x, y>>
  <1> TAKE x, y
  <1>1. Append(<<>>, x) = <<x>>
    OBVIOUS
  <1>2. Append(<<x>>, y) = <<x, y>>
    <2>1. <<x>> \in Seq({x, y}) /\ <<x, y>> \in Seq({x, y}) /\ Append(<<x>>, y) \in Seq({x, y})
      OBVIOUS
    <2>2. Len(Append(<<x>>, y)) = 2 /\ Len(<<x, y>>) = 2
      OBVIOUS
    <2>3. \A i \in 1..2 : Append(<<x>>, y)[i] = <<x, y>>[i]
      OBVIOUS
    <2> QED
      BY <2>1, <2>2, <2>3, SeqEqual
  <1> QED
    BY <1>1, <1>2

\* One event is fired: add-ons have heard of it now.
LEMMA FireEventKeeps == ASSUME IInv, TypeOK', FireEvent PROVE Course'
  <1>0. /\ TypeOK /\ Absence /\ Mapping /\ Queueing /\ Telling
        /\ localEvents # <<>>
        /\ UNCHANGED <<inWorld, session, voice, sapi, streamMap, pendingEvents>>
    BY DEF FireEvent, world, engine, IInv, Course
  <1> PICK e : e = Head(Due)
    OBVIOUS
  <1> PICK c : c = e.call
    OBVIOUS
  <1>1. /\ Due # <<>> /\ Due' = Tail(Due) /\ e \in Event /\ Begun(c) /\ IsDue(e.type, c)
        /\ Len(calls') = Len(calls) /\ DOMAIN calls' = DOMAIN calls
        /\ calls'[c].heard = Append(calls[c].heard, Said(c, e.type))
        /\ \A d \in DOMAIN calls : calls'[d].session = calls[d].session
        /\ \A d \in DOMAIN calls \ {c} : calls'[d].heard = calls[d].heard
    BY Fired
  <1>2. /\ e.type = "finished" => ~IsDue("started", c)
        /\ DueInOrder'
        /\ \A t, d : IsDue(t, d)' <=> IsDue(t, d) /\ ~(t = e.type /\ d = c)
    BY <1>0, <1>1, LessDue DEF Queueing
  <1>3. /\ e.type \in {"started", "finished"} /\ c \in DOMAIN calls
        /\ calls[c].session = session /\ Said(c, e.type)' = Said(c, e.type)
    BY <1>1 DEF Event, Begun, Said
  <1>4. calls'[c].heard = IF e.type = "started" THEN <<Said(c, "started")>>
                          ELSE <<Said(c, "started"), Said(c, "finished")>>
    <2>1. CASE e.type = "started"
      <3>1. calls[c].heard = <<>>
        BY <1>1, <2>1 DEF Begun
      <3> QED
        BY <1>1, <2>1, <3>1, ShortAppends
    <2>2. CASE e.type = "finished"
      <3>1. calls[c].heard = <<Said(c, "started")>>
        BY <1>1, <1>2, <2>2 DEF Begun
      <3> QED
        BY <1>1, <2>2, <3>1, ShortAppends
    <2> QED
      BY <1>3, <2>1, <2>2
  <1>5. /\ \A d \in DOMAIN calls : \A what : Said(d, what)' = Said(d, what)
        /\ \A d : d # c => (Begun(d) => Begun(d)') /\ (NotBegun(d) => NotBegun(d)')
        /\ e.type = "started" => Begun(c)'
    <2>1. \A d \in DOMAIN calls : \A what : Said(d, what)' = Said(d, what)
      BY <1>1 DEF Said
    <2>2. \A d : d # c => (Begun(d) => Begun(d)') /\ (NotBegun(d) => NotBegun(d)')
      BY <1>0, <1>1, <1>2, <2>1 DEF Begun, NotBegun
    <2>3. e.type = "started" => Begun(c)'
      BY <1>0, <1>1, <1>2, <1>3, <1>4, <2>1 DEF Begun
    <2> QED
      BY <2>1, <2>2, <2>3
  <1>6. Queueing'
    <2>1. ASSUME NEW d \in CallIds, IsDue("started", d)' \/ IsDue("finished", d)' PROVE Begun(d)'
      <3>1. Begun(d)
        BY <1>0, <1>2, <2>1 DEF Queueing
      <3>2. CASE d # c
        BY <1>5, <3>1, <3>2
      <3>3. CASE d = c
        <4>1. e.type = "started"
          <5>1. CASE IsDue("started", c)' 
            BY <1>2, <1>3, <5>1
          <5>2. CASE IsDue("finished", c)'
            BY <1>2, <1>3, <5>2
          <5> QED
            BY <2>1, <3>3, <5>1, <5>2
        <4> QED
          BY <1>5, <3>3, <4>1
      <3> QED
        BY <3>2, <3>3
    <2> QED
      BY <1>2, <2>1 DEF Queueing
  <1>7. Telling'
    <2> SUFFICES ASSUME NEW d \in DOMAIN calls PROVE calls'[d].heard \in Stories(d)'
      BY <1>1 DEF Telling
    <2>1. CASE d = c
      BY <1>3, <1>4, <1>5, <2>1 DEF Stories
    <2>2. CASE d # c
      BY <1>0, <1>1, <1>5, <2>2 DEF Telling, Stories
    <2> QED
      BY <2>1, <2>2
  <1>8. Mapping'
    <2> SUFFICES ASSUME NEW n \in DOMAIN streamMap', n <= sapi'.last
                 PROVE  \E d : /\ streamMap'[n].call = d
                               /\ IF streamMap'[n].started THEN Begun(d)' ELSE NotBegun(d)'
                               /\ ~IsDue("finished", d)'
                               /\ \A m \in DOMAIN streamMap' :
                                     m <= sapi'.last /\ streamMap'[m].call = d => m = n
      BY MappingPrimed
    <2> PICK d : d = streamMap[n].call
      OBVIOUS
    <2>1. /\ IF streamMap[n].started THEN Begun(d) ELSE NotBegun(d)
          /\ ~IsDue("finished", d)
          /\ \A m \in DOMAIN streamMap : m <= sapi.last /\ streamMap[m].call = d => m = n
      BY <1>0 DEF Mapping
    <2>2. d = c => e.type = "started" /\ streamMap[n].started
      BY <1>1, <1>3, <2>1 DEF NotBegun
    <2>3. IF streamMap[n].started THEN Begun(d)' ELSE NotBegun(d)'
      BY <1>5, <2>1, <2>2
    <2>4. ~IsDue("finished", d)'
      BY <1>2, <2>1
    <2> QED
      BY <1>0, <2>1, <2>3, <2>4
  <1>9. Speaking' /\ Posting'
    <2>1. Len(calls) \in Nat
      BY <1>0, Types
    <2>2. Len(calls') >= Len(calls)
      <3>1. Len(calls') = Len(calls)
        BY <1>1, Zenon
      <3> QED
        BY <2>1, <3>1
    <2>3. UNCHANGED <<sapi, streamMap>>
      BY <1>0
    <2> QED
      BY <2>2, <2>3, StreamsStand
  <1>10. Absence'
    BY <1>0 DEF Absence
  <1> QED
    BY <1>6, <1>7, <1>8, <1>9, <1>10 DEF Course

\* The other actions leave streams, events and calls alone.
LEMMA RestKeeps ==
    ASSUME IInv, TypeOK', UNCHANGED <<world, engine, streamMap, calls>>,
           UNCHANGED events \/ OnUpdate
    PROVE  Course'
  <1>0. TypeOK /\ Absence /\ UNCHANGED <<inWorld, session, voice, sapi>> /\ Len(calls) \in Nat
    BY Types DEF IInv, Course, world, engine
  <1>1. Due' = Due
    BY <1>0, DueMoved DEF Due, OnUpdate, events
  <1>2. Mapping' /\ Queueing' /\ Telling'
    BY <1>0, <1>1, EventsStand
  <1>3. Speaking' /\ Posting'
    BY <1>0, StreamsStand
  <1>4. Absence'
    BY <1>0 DEF Absence, OnUpdate, events
  <1> QED
    BY <1>2, <1>3, <1>4 DEF Course

-------------------------------------------------------------------------------
\* The inductive invariant holds of every behaviour, whatever the bounds
\* (src/AwesomeWotlkLib/VoiceChat.cpp: SpeakText, OnSpeechNotifyCallback and
\* VoiceChat_OnUpdate).
THEOREM Invariance == Spec => []IInv
  <1>1. IInv /\ [Next]_vars => IInv'
    <2> SUFFICES ASSUME IInv, [Next]_vars PROVE IInv'
      OBVIOUS
    <2>1. TypeOK'
      <3>1. CASE Next
        BY <3>1, NextType
      <3>2. CASE UNCHANGED vars
        BY <3>2 DEF IInv, TypeOK, vars, world, engine, events
      <3> QED
        BY <3>1, <3>2
    <2>2. CASE EnterWorld \/ LeaveWorld
      BY <2>1, <2>2, EnterWorldKeeps, LeaveWorldKeeps DEF IInv
    <2>3. CASE SpeakText \/ SpeakTextFails
      BY <2>1, <2>3, SpeakTextKeeps, SpeakTextFailsKeeps DEF IInv
    <2>4. ASSUME NEW i \in DOMAIN stops, StopThread(i) PROVE IInv'
      BY <2>1, <2>4, StopThreadKeeps DEF IInv
    <2>5. CASE Begin \/ Finish
      BY <2>1, <2>5, BeginKeeps, FinishKeeps DEF IInv
    <2>6. CASE OnSpeechNotifyCallback \/ FireEvent
      BY <2>1, <2>6, NotifyKeeps, FireEventKeeps DEF IInv
    <2>7. CASE SpeakTextRelocks \/ FailedHandled \/ StopSpeakingText \/ UNCHANGED vars
      BY <2>1, <2>7, RestKeeps DEF IInv, SpeakTextRelocks, FailedHandled, StopSpeakingText, vars
    <2>8. CASE OnUpdate
      BY <2>1, <2>8, RestKeeps DEF IInv, OnUpdate
    <2> QED
      BY <2>2, <2>3, <2>4, <2>5, <2>6, <2>7, <2>8 DEF Next, Addon, Over
  <1> QED
    BY <1>1, InitHolds, PTL DEF Spec

\* The state is well typed; streams are never numbered past the calls.
THEOREM TypeCorrect == Spec => []TypeOK
  BY Invariance, PTL DEF IInv

\* What add-ons hear of one utterance is STARTED and then FINISHED, in the
\* session that asked for it, or FAILED alone, whatever handlers, stop threads
\* and notifications come between, and although g_streamMap keeps entries of
\* earlier sessions under the same stream numbers.
THEOREM StoriesTold == Spec => []EventsTellAStory
  <1>1. IInv => EventsTellAStory
    <2> SUFFICES ASSUME IInv, NEW c \in DOMAIN calls
                 PROVE  /\ Whats(c) \in {<<>>, <<"failed">>, <<"started">>, <<"started", "finished">>}
                        /\ \A i \in DOMAIN calls[c].heard : calls[c].heard[i].in = calls[c].session
      BY DEF EventsTellAStory
    <2>1. calls[c].heard \in Stories(c)
      BY DEF IInv, Course, Telling
    <2>2. CASE calls[c].heard = <<>>
      BY <2>2 DEF Whats
    <2>3. ASSUME NEW what, calls[c].heard = <<Said(c, what)>>
          PROVE  /\ Whats(c) = <<what>>
                 /\ \A i \in DOMAIN calls[c].heard : calls[c].heard[i].in = calls[c].session
      BY <2>3 DEF Whats, Said
    <2>4. CASE calls[c].heard = <<Said(c, "started"), Said(c, "finished")>>
      BY <2>4 DEF Whats, Said
    <2> QED
      BY <2>1, <2>2, <2>3, <2>4 DEF Stories
  <1> QED
    BY <1>1, Invariance, PTL
===============================================================================
