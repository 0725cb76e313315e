------------------------------- MODULE Playout -------------------------------
(***************************************************************************)
(* The outbound audio of one RTC call (rtc_telephony.py, _CallState): the   *)
(* bounded playout queue, audio_out feeding it, the mixing pump draining it *)
(* in real time, the barge-in fade-out and close_iterators.                 *)
(*                                                                          *)
(* A frame is the utterance it belongs to and whether it has been faded.    *)
(* The jitter cushion only delays put, so it is part of the feeder's        *)
(* freedom to be slow; mixing the background bed changes no state here.     *)
(***************************************************************************)
EXTENDS Integers, Sequences, FiniteSets

CONSTANTS
  Capacity,      \* playout_q maxsize
  FadeFrames,    \* ceil(barge_in_fadeout_ms / 10)
  MaxUtterances, \* bound: calls of audio_out
  MaxFrames      \* bound: frames of one utterance

ASSUME PlayoutAssumption ==
  /\ Capacity \in Nat \ {0}
  /\ FadeFrames \in Nat
  /\ MaxUtterances \in Nat
  /\ MaxFrames \in Nat

VARIABLES
  queue,      \* playout_q
  unfinished, \* its count of put items without a task_done
  hand,       \* the TTS frames the pump took and has not marked done: 0 or 1
  pump,       \* outbound_pump: None, sleeping, in push_audio, or exited
  feeder,     \* feed_playout of the current utterance
  utterance,  \* number of the current utterance
  offered,    \* frames of it put so far
  cut,        \* history: utterances ended by a barge-in
  failed,     \* history: utterances whose synthesis raised
  joined,     \* rtc_session.is_joined
  closing     \* progress of close_iterators

vars == <<queue, unfinished, hand, pump, feeder, utterance, offered, cut, failed,
          joined, closing>>

Frames == [utterance : Nat, faded : BOOLEAN]

TypeOK ==
  /\ queue \in Seq(Frames)
  /\ unfinished \in Nat
  /\ hand \in Seq(Frames)
  /\ pump \in {"none", "sleeping", "pushing", "exited"}
  /\ feeder \in {"idle", "feeding", "joining"}
  /\ utterance \in Nat
  /\ offered \in Nat
  /\ cut \subseteq Nat
  /\ failed \subseteq Nat
  /\ joined \in BOOLEAN
  /\ closing \in {"open", "leaving", "closed"}

\* The call is connected and configure_ambient has started the pump.
Init ==
  /\ queue = <<>>
  /\ unfinished = 0
  /\ hand = <<>>
  /\ pump = "sleeping"
  /\ feeder = "idle"
  /\ utterance = 0
  /\ offered = 0
  /\ cut = {}
  /\ failed = {}
  /\ joined = TRUE
  /\ closing = "open"

-----------------------------------------------------------------------------
\* audio_out and feed_playout.

\* start_outbound_pump: a new queue with a new pump, unless there is a pump.
AudioOut ==
  /\ feeder = "idle"
  /\ utterance < MaxUtterances
  /\ utterance' = utterance + 1
  /\ offered' = 0
  /\ feeder' = "feeding"
  /\ IF pump = "none"
     THEN /\ pump' = "sleeping"
          /\ queue' = <<>>
          /\ unfinished' = 0
     ELSE UNCHANGED <<pump, queue, unfinished>>
  /\ UNCHANGED <<hand, cut, failed, joined, closing>>

Put ==
  /\ feeder = "feeding"
  /\ offered < MaxFrames
  /\ Len(queue) < Capacity
  /\ queue' = Append(queue, [utterance |-> utterance, faded |-> FALSE])
  /\ unfinished' = unfinished + 1
  /\ offered' = offered + 1
  /\ UNCHANGED <<hand, pump, feeder, utterance, cut, failed, joined, closing>>

\* The chunk stream ends; q.join() waits for every frame.
StreamEnds ==
  /\ feeder = "feeding"
  /\ feeder' = "joining"
  /\ UNCHANGED <<queue, unfinished, hand, pump, utterance, offered, cut, failed,
                 joined, closing>>

\* The chunk stream raises: feed_playout leaves what it has put.
StreamFails ==
  /\ feeder = "feeding"
  /\ feeder' = "idle"
  /\ failed' = failed \union {utterance}
  /\ UNCHANGED <<queue, unfinished, hand, pump, utterance, offered, cut, joined, closing>>

\* Mutant: playback is complete once the queue is empty.
JoinedEarly ==
  /\ feeder = "joining"
  /\ queue = <<>>
  /\ feeder' = "idle"
  /\ UNCHANGED <<queue, unfinished, hand, pump, utterance, offered, cut, failed,
                 joined, closing>>

Joined ==
  /\ feeder = "joining"
  /\ unfinished = 0
  /\ feeder' = "idle"
  /\ UNCHANGED <<queue, unfinished, hand, pump, utterance, offered, cut, failed,
                 joined, closing>>

\* Mutant: the first frames are put back as they were.
FlushKeepsVolume(n) ==
  /\ queue' = [i \in 1..n |-> queue[i]]
  /\ unfinished' = unfinished - Len(queue) + n

\* _flush_playout: drain the queue, put back its first n frames ramped down.
Flush(n) ==
  /\ queue' = [i \in 1..n |-> [queue[i] EXCEPT !.faded = TRUE]]
  /\ unfinished' = unfinished - Len(queue) + n

FadeLength == IF FadeFrames <= Len(queue) THEN FadeFrames ELSE Len(queue)

\* The partial monitor cancels audio_out, wherever it waits.
BargeIn ==
  /\ feeder # "idle"
  /\ Flush(FadeLength)
  /\ feeder' = "idle"
  /\ cut' = cut \union {utterance}
  /\ UNCHANGED <<hand, pump, utterance, offered, failed, joined, closing>>

-----------------------------------------------------------------------------
\* _outbound_loop.

\* A tick with a frame in the queue.
PumpTakes ==
  /\ pump = "sleeping"
  /\ queue # <<>>
  /\ hand' = <<Head(queue)>>
  /\ queue' = Tail(queue)
  /\ pump' = "pushing"
  /\ UNCHANGED <<unfinished, feeder, utterance, offered, cut, failed, joined, closing>>

\* Mutant: a failing push ends the pump.
PumpDiesOnFailure ==
  /\ pump = "pushing"
  /\ joined
  /\ pump' \in {"sleeping", "exited"}
  /\ hand' = <<>>
  /\ unfinished' = unfinished - 1
  /\ UNCHANGED <<queue, feeder, utterance, offered, cut, failed, joined, closing>>

\* push_audio returned, or failed for this frame only: marked done either way.
PumpPushed ==
  /\ pump = "pushing"
  /\ joined
  /\ pump' = "sleeping"
  /\ hand' = <<>>
  /\ unfinished' = unfinished - 1
  /\ UNCHANGED <<queue, feeder, utterance, offered, cut, failed, joined, closing>>

\* RtcNotJoined, for a frame or for a tick of silence: the pump exits.
PumpExits ==
  /\ ~joined
  /\ \/ pump = "pushing" /\ unfinished' = unfinished - 1
     \/ pump = "sleeping" /\ queue = <<>> /\ UNCHANGED unfinished
  /\ pump' = "exited"
  /\ hand' = <<>>
  /\ UNCHANGED <<queue, feeder, utterance, offered, cut, failed, joined, closing>>

-----------------------------------------------------------------------------
\* close_iterators, for a remote hangup or a device error.

\* stop_outbound_pump cancels the pump, in its sleep or in push_audio, where the
\* frame it holds is never marked done.
Close ==
  /\ closing = "open"
  /\ closing' = "leaving"
  /\ pump' = "none"
  /\ hand' = <<>>
  /\ UNCHANGED <<queue, unfinished, feeder, utterance, offered, cut, failed, joined>>

Leave ==
  /\ closing = "leaving"
  /\ closing' = "closed"
  /\ joined' = FALSE
  /\ UNCHANGED <<queue, unfinished, hand, pump, feeder, utterance, offered, cut, failed>>

-----------------------------------------------------------------------------
Feed == AudioOut \/ Put \/ StreamEnds \/ StreamFails \/ Joined

Pump == PumpTakes \/ PumpPushed \/ PumpExits

Next == Feed \/ BargeIn \/ Pump \/ Close \/ Leave

\* The pump runs on its timer, join wakes when the count is zero, a chunk stream
\* is finite.  No barge-in and no hangup is assumed.
Fairness ==
  /\ WF_vars(Pump)
  /\ WF_vars(Joined)
  /\ WF_vars(Leave)
  /\ WF_vars(Put \/ StreamEnds)

Spec == Init /\ [][Next]_vars

FairSpec == Spec /\ Fairness

-----------------------------------------------------------------------------
\* Properties.

\* Until the line is closed the queue's count of unfinished frames is exact, a
\* barge-in's drain and re-queue and a failing push included: q.join() neither
\* returns early nor waits for a frame nobody will mark done.
Accounting ==
  closing = "open" => unfinished = Len(queue) + Len(hand)

\* When audio_out has returned normally on an open line, nothing of its
\* utterance is still buffered or being pushed: "playback complete" is true.
CompleteMeansPlayed ==
  feeder = "idle" /\ closing = "open" /\ utterance \notin cut \union failed
    => \A f \in {queue[i] : i \in 1..Len(queue)} \union {hand[i] : i \in 1..Len(hand)} :
         f.utterance # utterance

\* "Playback complete" is exact: join() returns when, and only when, everything
\* that was put has been pushed or drained.
PlaybackComplete == Accounting /\ CompleteMeansPlayed

\* After a barge-in nothing of the interrupted reply stays queued at full
\* volume, and no more than the fade window stays at all.
CutIsFaded ==
  /\ \A i \in 1..Len(queue) : queue[i].utterance \in cut => queue[i].faded
  /\ Cardinality({i \in 1..Len(queue) : queue[i].faded}) <= FadeFrames

\* As long as the line is open audio_out comes to an end, a barge-in or not and
\* whether or not the push of a frame fails.
FeedEndsWhileOpen == feeder # "idle" ~> feeder = "idle" \/ closing # "open"

\* audio_out comes to an end.
FeedEnds == feeder # "idle" ~> feeder = "idle"
=============================================================================
