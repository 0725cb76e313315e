----------------------------- MODULE RtcChannel ------------------------------
(***************************************************************************)
(* The RTC session of one call: joining and leaving the channel             *)
(* (transport/dingrtc/_session.py), the frame ring the SDK thread fills     *)
(* (pybind/dingrtc_pywrap/src/ring_buffer.cpp), the drainer, and the        *)
(* inbound pump that forks the caller's audio to ASR and VAD, up to the     *)
(* closing of the call's iterators (realtime/rtc_telephony.py).             *)
(*                                                                          *)
(* A frame is the number the SDK produced it under.  The loop runs one      *)
(* stretch of code at a time; the SDK's callbacks come from its own thread. *)
(* Frames the edge did not send are skipped by the pump, and a run of quiet *)
(* ones is replaced by digital silence on the way to ASR.                   *)
(***************************************************************************)
EXTENDS Integers, Sequences, Functions

CONSTANTS
  RingCap,    \* frames of the FrameRingBuffer (64)
  InboundCap, \* inbound_buffer_size (1024)
  DrainMax,   \* max_n of one drain (8)
  Hangover,   \* quiet frames that still reach ASR (300 ms)
  Quiet,      \* frames that measure below the gate's RMS
  Foreign,    \* frames with another sender_uid
  MaxFrames,  \* bound: frames the SDK delivers
  MaxResults  \* bound: OnJoinChannelResult callbacks

ASSUME RtcAssumption ==
  /\ RingCap \in Nat \ {0} /\ InboundCap \in Nat \ {0} /\ DrainMax \in Nat \ {0}
  /\ Hangover \in Nat /\ MaxFrames \in Nat /\ MaxResults \in Nat
  /\ Quiet \subseteq 1..MaxFrames /\ Foreign \subseteq 1..MaxFrames

Frames == 1..MaxFrames
End    == 0          \* None, _SENTINEL

VARIABLES
  sess,     \* the session: _joined is sess = "joined"
  engine,   \* the SDK's engine
  future,   \* _join_future
  posted,   \* results handed to call_soon_threadsafe and not yet run
  results,  \* count of callbacks
  made,     \* frames the SDK has produced
  slots, head, tail, size,   \* the FrameRingBuffer
  inbound,  \* DingRtcSession._inbound
  drainer,  \* the dingrtc-drainer task
  pump,     \* the rtc_inbound_pump task
  quietRun, \* _gate_silence_ms, in frames
  asrQ,     \* _CallState.inbound_q, as <<frame, muted>>
  vadQ,     \* _CallState.vad_q
  asrGot,   \* history: what audio_in() yielded
  vadGot,   \* history: what audio_in_vad() yielded
  outPump,  \* the rtc_outbound_pump task
  closer    \* progress of close_iterators

joinVars == <<sess, engine, future, posted, results>>
ringVars == <<slots, head, tail, size>>
laneVars == <<asrQ, vadQ>>
gotVars  == <<asrGot, vadGot>>
vars == <<joinVars, made, ringVars, inbound, drainer, pump, quietRun, laneVars,
          gotVars, outPump, closer>>

TypeOK ==
  /\ sess \in {"new", "joining", "joined", "left", "failed", "cancelled"}
  /\ engine \in {"none", "live", "destroyed"}
  /\ future \in {"none", "pending", "ok", "refused", "cancelled"}
  /\ posted \in Seq({"ok", "refused"})
  /\ results \in 0..MaxResults
  /\ made \in 0..MaxFrames
  /\ slots \in [0..(RingCap - 1) -> Frames \union {End}]
  /\ {head, tail} \subseteq 0..(RingCap - 1)
  /\ size \in 0..RingCap
  /\ inbound \in Seq(Frames \union {End})
  /\ Len(inbound) <= InboundCap
  /\ drainer \in {"none", "running", "crashed", "cancelled"}
  /\ pump \in {"none", "created", "waiting", "over", "crashed"}
  /\ quietRun \in 0..(Hangover + 1)
  /\ asrQ \in Seq((Frames \union {End}) \X BOOLEAN)
  /\ vadQ \in Seq(Frames \union {End})
  /\ asrGot \in Seq((Frames \union {End}) \X BOOLEAN)
  /\ vadGot \in Seq(Frames \union {End})
  /\ outPump \in {"none", "running", "over"}
  /\ closer \in {"none", "stopping", "leaving", "putting", "waiting", "done"}

Init ==
  /\ sess = "new" /\ engine = "none" /\ future = "none"
  /\ posted = <<>> /\ results = 0 /\ made = 0
  /\ slots = [i \in 0..(RingCap - 1) |-> End]
  /\ head = 0 /\ tail = 0 /\ size = 0
  /\ inbound = <<>> /\ drainer = "none" /\ pump = "none" /\ quietRun = 0
  /\ asrQ = <<>> /\ vadQ = <<>> /\ asrGot = <<>> /\ vadGot = <<>>
  /\ outPump = "none" /\ closer = "none"

-----------------------------------------------------------------------------
\* Joining: DingRtcSession.join and _PybindDingRtcChannel.setup_and_join.

afterJoin == <<made, ringVars, inbound, quietRun, laneVars, gotVars, outPump, closer>>

\* The engine is created and asked to join, up to the wait for the result.
SetupAndJoin ==
  /\ sess = "new"
  /\ sess' = "joining"
  /\ engine' = "live"
  /\ future' = "pending"
  /\ UNCHANGED <<posted, results, drainer, pump, afterJoin>>

\* A call of the set-up raises: the half-built engine is destroyed.
SetupFails ==
  /\ sess = "new"
  /\ sess' = "failed"
  /\ engine' = "destroyed"
  /\ future' = "pending"
  /\ UNCHANGED <<posted, results, drainer, pump, afterJoin>>

\* The SDK thread reports the result; the loop is asked to set the future only
\* if it is not done at that moment.
OnJoinResult(rc) ==
  /\ engine = "live"
  /\ results < MaxResults
  /\ results' = results + 1
  /\ posted' = IF future = "pending" THEN Append(posted, rc) ELSE posted
  /\ UNCHANGED <<sess, engine, future, drainer, pump, afterJoin>>

\* The loop runs fut.set_result; on a future done by now it raises
\* InvalidStateError into the loop's exception handler.
ResultLands ==
  /\ posted # <<>>
  /\ posted' = Tail(posted)
  /\ future' = IF future = "pending" THEN Head(posted) ELSE future
  /\ UNCHANGED <<sess, engine, results, drainer, pump, afterJoin>>

\* The join succeeds; dial goes on to start the inbound pump.
Joined ==
  /\ sess = "joining"
  /\ future = "ok"
  /\ sess' = "joined"
  /\ drainer' = "running"
  /\ pump' = "created"
  /\ UNCHANGED <<engine, future, posted, results, afterJoin>>

\* The result is an error, or join_timeout passes: the channel is left.  A
\* timeout in the pass in which the result lands raises all the same, so the
\* future may be done, whatever its result.
JoinFails ==
  /\ sess = "joining"
  /\ sess' = "failed"
  /\ future' = IF future = "pending" THEN "cancelled" ELSE future
  /\ engine' = "destroyed"
  /\ UNCHANGED <<posted, results, drainer, pump, afterJoin>>

\* dial is cancelled during the wait: only TimeoutError is handled there.
JoinCancelled ==
  /\ sess = "joining"
  /\ sess' = "cancelled"
  /\ future' = IF future = "pending" THEN "cancelled" ELSE future
  /\ UNCHANGED <<engine, posted, results, drainer, pump, afterJoin>>

-----------------------------------------------------------------------------
\* Inbound audio.

\* Mutant: the tail stays when the oldest frame is overwritten.
RingPushKeepsTail(f) ==
  /\ slots' = [slots EXCEPT ![head] = f]
  /\ head' = (head + 1) % RingCap
  /\ size' = IF size = RingCap THEN size ELSE size + 1
  /\ UNCHANGED tail

\* FrameRingBuffer::push on the SDK thread: a full ring loses its oldest frame.
RingPush(f) ==
  /\ slots' = [slots EXCEPT ![head] = f]
  /\ head' = (head + 1) % RingCap
  /\ IF size = RingCap
     THEN tail' = (tail + 1) % RingCap /\ UNCHANGED size
     ELSE size' = size + 1 /\ UNCHANGED tail

SdkFrame ==
  /\ engine = "live"
  /\ results > 0
  /\ made < MaxFrames
  /\ made' = made + 1
  /\ RingPush(made + 1)
  /\ UNCHANGED <<joinVars, inbound, drainer, pump, quietRun, laneVars, gotVars,
                 outPump, closer>>

DrainCount == IF size < DrainMax THEN size ELSE DrainMax

\* FrameRingBuffer::drain.
Drained == [i \in 1..DrainCount |-> slots[(tail + i - 1) % RingCap]]

RingDrain ==
  /\ tail' = (tail + DrainCount) % RingCap
  /\ size' = size - DrainCount
  /\ UNCHANGED <<slots, head>>

\* put_nowait with QueueFull suppressed: what does not fit is lost.
PutNowait(q, batch) ==
  q \o SubSeq(batch, 1, IF Len(batch) < InboundCap - Len(q) THEN Len(batch)
                        ELSE InboundCap - Len(q))

\* The drainer and the pump take their first steps in the same pass of the loop.
DrainerRuns == drainer = "running" /\ sess = "joined" /\ pump # "created"

\* One round of _drain_inbound_loop.
DrainRound ==
  /\ DrainerRuns
  /\ size > 0
  /\ inbound' = PutNowait(inbound, Drained)
  /\ RingDrain
  /\ UNCHANGED <<joinVars, made, drainer, pump, quietRun, laneVars, gotVars, outPump, closer>>

\* The binding raises inside the round.
DrainerCrashes ==
  /\ DrainerRuns
  /\ drainer' = "crashed"
  /\ UNCHANGED <<joinVars, made, ringVars, inbound, pump, quietRun, laneVars, gotVars,
                 outPump, closer>>

\* The finally block of _inbound_loop: one sentinel for each lane.
PumpEnds(how) ==
  /\ pump' = how
  /\ asrQ' = Append(asrQ, <<End, FALSE>>)
  /\ vadQ' = Append(vadQ, End)

outOfPump == <<joinVars, made, ringVars, drainer, gotVars, outPump, closer>>

\* Mutant: RtcNotJoined returns without the sentinels.
PumpStartsSilently ==
  /\ pump = "created"
  /\ pump' = IF sess = "joined" THEN "waiting" ELSE "over"
  /\ UNCHANGED <<outOfPump, inbound, quietRun, laneVars>>

\* The pump's first step: audio_frames() raises RtcNotJoined on a session that
\* was left before the task was scheduled.
PumpStarts ==
  /\ pump = "created"
  /\ IF sess = "joined"
     THEN pump' = "waiting" /\ UNCHANGED laneVars
     ELSE PumpEnds("over")
  /\ UNCHANGED <<outOfPump, inbound, quietRun>>

\* Mutant: a loud frame does not reset the run of quiet ones.
NextRunSticks(f) ==
  IF f \notin Quiet \/ quietRun > Hangover THEN quietRun ELSE quietRun + 1

\* The noise gate: a loud frame reopens it, a quiet one counts.
NextRun(f) ==
  IF f \notin Quiet THEN 0
  ELSE IF quietRun > Hangover THEN quietRun ELSE quietRun + 1

\* One frame, or the end of audio_frames().
PumpForwards ==
  /\ pump = "waiting"
  /\ inbound # <<>>
  /\ inbound' = Tail(inbound)
  /\ LET f == Head(inbound) IN
       IF f = End THEN PumpEnds("over") /\ UNCHANGED quietRun
       ELSE IF f \in Foreign THEN UNCHANGED <<pump, laneVars, quietRun>>
       ELSE /\ quietRun' = NextRun(f)
            /\ asrQ' = Append(asrQ, <<f, NextRun(f) > Hangover>>)
            /\ vadQ' = Append(vadQ, f)
            /\ UNCHANGED pump
  /\ UNCHANGED outOfPump

\* Converting or dumping a frame raises.
PumpCrashes ==
  /\ pump = "waiting"
  /\ inbound # <<>>
  /\ Head(inbound) # End
  /\ inbound' = Tail(inbound)
  /\ PumpEnds("crashed")
  /\ UNCHANGED <<outOfPump, quietRun>>

\* audio_in() and audio_in_vad(), each read by one consumer until its sentinel.
AsrEnded == asrGot # <<>> /\ asrGot[Len(asrGot)][1] = End
VadEnded == vadGot # <<>> /\ vadGot[Len(vadGot)] = End

lanes == <<joinVars, made, ringVars, inbound, drainer, pump, quietRun, outPump, closer>>

AudioIn ==
  /\ asrQ # <<>>
  /\ ~AsrEnded
  /\ asrGot' = Append(asrGot, Head(asrQ))
  /\ asrQ' = Tail(asrQ)
  /\ UNCHANGED <<lanes, vadQ, vadGot>>

AudioInVad ==
  /\ vadQ # <<>>
  /\ ~VadEnded
  /\ vadGot' = Append(vadGot, Head(vadQ))
  /\ vadQ' = Tail(vadQ)
  /\ UNCHANGED <<lanes, asrQ, asrGot>>

-----------------------------------------------------------------------------
\* The outbound pump, and closing.

closing == <<future, posted, results, made, quietRun, gotVars>>

\* start_outbound_pump, from configure_ambient or audio_out.
OutStarts ==
  /\ outPump = "none"
  /\ sess \in {"joined", "left"}
  /\ outPump' = "running"
  /\ UNCHANGED <<joinVars, made, ringVars, inbound, drainer, pump, quietRun, laneVars,
                 gotVars, closer>>

\* push_audio raises RtcNotJoined: the pump breaks out of its loop.
OutBreaks ==
  /\ outPump = "running"
  /\ sess # "joined"
  /\ outPump' = "over"
  /\ UNCHANGED <<joinVars, made, ringVars, inbound, drainer, pump, quietRun, laneVars,
                 gotVars, closer>>

\* close_iterators, first caller only: the event sentinel, the outbound pump.
CloseBegins ==
  /\ sess = "joined"
  /\ closer = "none"
  /\ closer' = "stopping"
  /\ outPump' = "none"
  /\ UNCHANGED <<joinVars, made, ringVars, inbound, drainer, pump, quietRun, laneVars, gotVars>>

\* Mutant: the drainer is not stopped before the channel is left.
LeaveBeginsDraining ==
  /\ closer = "stopping"
  /\ sess' = "left"
  /\ closer' = "leaving"
  /\ UNCHANGED <<closing, engine, ringVars, inbound, drainer, pump, laneVars, outPump>>

\* leave(): the session is left, the drainer cancelled and awaited.  A drainer
\* that crashed raises its error here, and close_iterators suppresses it.
LeaveBegins ==
  /\ closer = "stopping"
  /\ sess' = "left"
  /\ IF drainer = "crashed"
     THEN closer' = "waiting" /\ UNCHANGED drainer
     ELSE closer' = "leaving" /\ drainer' = "cancelled"
  /\ UNCHANGED <<closing, engine, ringVars, inbound, pump, laneVars, outPump>>

\* The channel is left and its engine destroyed; the sentinel for audio_frames().
PutEnd ==
  IF Len(inbound) < InboundCap
  THEN inbound' = Append(inbound, End) /\ closer' = "waiting"
  ELSE closer' = "putting" /\ UNCHANGED inbound

LeaveEnds ==
  /\ closer = "leaving"
  /\ engine' = "destroyed"
  /\ size' = 0
  /\ PutEnd
  /\ UNCHANGED <<closing, sess, slots, head, tail, drainer, pump, laneVars, outPump>>

\* A full _inbound makes the sentinel wait for the pump.
LeavePuts ==
  /\ closer = "putting"
  /\ Len(inbound) < InboundCap
  /\ PutEnd
  /\ UNCHANGED <<closing, sess, engine, ringVars, drainer, pump, laneVars, outPump>>

\* Mutant: no timeout on the wait for the pump.
CloseWaitsForPump ==
  /\ closer = "waiting"
  /\ pump \in {"over", "crashed"}
  /\ closer' = "done"
  /\ UNCHANGED <<closing, sess, engine, ringVars, inbound, drainer, pump, laneVars, outPump>>

\* The pump has ended, or its two seconds have passed and it is cancelled (a
\* pump that was only just created takes its first step before that).
CloseWaits ==
  /\ closer = "waiting"
  /\ pump # "created"
  /\ closer' = "done"
  /\ IF pump \in {"over", "crashed"}
     THEN UNCHANGED <<pump, laneVars>>
     ELSE PumpEnds("over")
  /\ UNCHANGED <<closing, sess, engine, ringVars, inbound, drainer, outPump>>

-----------------------------------------------------------------------------
Sdk == SdkFrame \/ \E rc \in {"ok", "refused"} : OnJoinResult(rc)

Join == SetupAndJoin \/ SetupFails \/ ResultLands \/ Joined \/ JoinFails \/ JoinCancelled

Pump == PumpStarts \/ PumpForwards

Close == LeaveBegins \/ LeaveEnds \/ LeavePuts \/ CloseWaits

Next ==
  \/ Sdk
  \/ Join
  \/ DrainRound
  \/ DrainerCrashes
  \/ Pump
  \/ PumpCrashes
  \/ AudioIn
  \/ AudioInVad
  \/ OutStarts
  \/ OutBreaks
  \/ CloseBegins
  \/ Close

Spec == Init /\ [][Next]_vars

\* The loop runs every ready task, and the wait for the pump has a timeout.
FairSpec ==
  /\ Spec
  /\ WF_vars(Pump)
  /\ WF_vars(AudioIn)
  /\ WF_vars(AudioInVad)
  /\ WF_vars(Close)

-----------------------------------------------------------------------------
\* Properties.

VadLane == vadGot \o vadQ
AsrLane == asrGot \o asrQ
Ring == [i \in 1..size |-> slots[(tail + i - 1) % RingCap]]

\* From the SDK's ring to the VAD consumer no frame is duplicated, invented or
\* overtaken, whatever the ring overwrites and the full queue drops, and no slot
\* of the ring is read before it is filled.
FramesInOrder ==
  LET path == VadLane \o inbound \o Ring
  IN  /\ \A i, j \in DOMAIN path :
           i < j /\ path[i] # End /\ path[j] # End => path[i] < path[j]
      /\ End \notin Range(Ring)

\* ASR and VAD are given the same frames of the edge in the same order, and
\* each lane at most one sentinel, after its last frame.
LanesAgree ==
  /\ VadLane = [i \in DOMAIN AsrLane |-> AsrLane[i][1]]
  /\ \A i \in DOMAIN VadLane : VadLane[i] = End => i = Len(VadLane)
  /\ Range(VadLane) \intersect Foreign = {}

\* Both consumers hear the edge as it spoke, with gaps but without a frame
\* twice, out of order or on one lane only.
InboundFaithful == FramesInOrder /\ LanesAgree

\* The noise gate replaces a frame only when it measures quiet and more than the
\* hangover of frames up to it did: what measures as speech reaches ASR with its
\* tail.  (Without audioop, and where its rms raises, every frame measures 0.)
GateSparesSpeech ==
  \A i \in DOMAIN AsrLane : AsrLane[i][2] =>
    /\ i > Hangover
    /\ \A j \in (i - Hangover)..i : AsrLane[j][1] \in Quiet

\* The drainer and push_audio never reach a destroyed engine: it is live as
\* long as the session counts as joined or the drainer runs.
EngineOutlivesUse ==
  sess = "joined" \/ drainer = "running" => engine = "live"

\* A join that failed and a call that was closed leave no engine behind.  Two
\* ways out do not keep this: a drainer that crashed, and a cancelled join.
EngineReleased ==
  sess = "failed" \/ (closer = "done" /\ drainer # "crashed") => engine = "destroyed"

\* The engine is destroyed after its last use, and then it is destroyed.
EngineLifetime == EngineOutlivesUse /\ EngineReleased

\* Once closing starts, both consumers see their iterator end, also when the
\* drainer or the pump crashed or the pump was never scheduled.
IteratorsEnd ==
  closer # "none" ~> AsrEnded /\ VadEnded

\* close_iterators returns, unless the pump crashed: leave() may then wait for
\* room in _inbound that nobody makes.
CloseReturns == closer # "none" ~> closer = "done" \/ pump = "crashed"

\* Two stronger claims that the model refutes.  close_iterators always returns:
\* not when the pump crashed and _inbound is full.  An engine never outlives its
\* session: it does after a crashed drainer and after a cancelled join.
CloseAlwaysReturns == closer # "none" ~> closer = "done"
NoEngineLeft == sess \in {"failed", "cancelled"} \/ closer = "done" => engine = "destroyed"

=============================================================================
