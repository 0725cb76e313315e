# Verification of the isales engine

This directory models the control of the isales engine (`src/isales_engine`)
in TLA+: the modules, the TLC configurations that check them on small
instances, and eight modules of machine-checked proofs.  `PROJECT.json` is the
index: it maps every definition to the lines it translates, lists the runs,
the mutants that show each property can fail, the theorems and the hazards.

The engine places outbound sales calls.  One asyncio process takes dial
requests from Redis, dials through an edge device over gRPC, joins an RTC
channel for the audio, holds a conversation driven by speech recognition,
language models and speech synthesis, and settles the call (database record,
follow-up queues, concurrency slot) when it ends.

## Inventory

| Part | Source | Module |
|---|---|---|
| Event bus of a call (two lanes) | `eventbus.py` | `EventBus`, `EventBusProofs` |
| Dial queue, finalization, registry, shutdown | `dial_consumer.py`, `call_lifecycle.py`, `session_manager.py`, `main.py`, `transcript_recorder.py` | `CallLifecycle`, `CallLifecycleProofs` |
| Observable call state | `state_machine.py` | `CallState` (abstract specification) |
| Conversation: greeting, main loop, gate, barge-in, restructure, wrap-up, handoff | `run_loop.py`, `realtime/silence_detector.py`, `wrapup/manager.py`, `pipeline/decider.py` | `CallLoop`, `CallLoopProofs` |
| One turn's reply: eager generation, fallback, streamed synthesis, filler | `run_loop.py`, `pipeline/orchestrator.py`, `streaming/sentence_splitter.py`, `realtime/filler_manager.py` | `ReplyStream`, `ReplyStreamProofs` |
| Outbound audio: playout queue, mixing pump, fade-out | `realtime/rtc_telephony.py` | `Playout`, `PlayoutProofs` |
| Inbound audio and the RTC session: join, ring, drainer, pump, close | `transport/dingrtc/_session.py`, `realtime/rtc_telephony.py`, `ring_buffer.cpp`, `audio_observer.cpp` | `RtcChannel`, `RtcChannelProofs` |
| Edge control plane: streams, device mapping, dispatcher, dial, hangup | `transport/grpc_server.py`, `transport/session_dispatcher.py`, `realtime/rtc_telephony.py` | `EdgeLink`, `EdgeLinkProofs` |
| Speech recognition: reconnecting stream, push task, pump | `providers/asr_volcengine.py`, `run_loop.py` | `AsrStream`, `SpeechProofs` |
| Barge-in decision: partials, speech-start anchor, rule tree | `run_loop.py`, `realtime/interruption_rules.py`, `realtime/interruption_detector.py`, `runtime_config.py` | `BargeIn`, `SpeechProofs` |

`PROJECT.json` lists the remaining parts with the reason each is left out; see
*Not modelled* below.

How the parts meet: `dial_consumer` starts a `main` task per call, which runs
`run_session`.  That dials (EdgeLink), joins the channel (RtcChannel), starts
the bus (EventBus), greets and enters the main loop (CallLoop).  Each turn
plays a reply (ReplyStream) through `audio_out` (Playout).  A hangup command
posts on the bus, whose bridge cancels `main`; a remote hangup arrives through
the dispatcher and closes the iterators.  What the customer says reaches the
recogniser (AsrStream) through the inbound lane of RtcChannel; its finals become
turns of CallLoop, its partials may become barge-ins (BargeIn).  `main` ends in
the shielded finalizer (CallLifecycle).  Each module takes its neighbours as
nondeterministic environment: for example CallLoop treats a reply as sentences
that may be cut, and CallLifecycle treats the conversation as two awaits,
listening and speaking.

## How code becomes actions

The process is one asyncio loop, so code is only interleaved where a coroutine
really suspends.  An action is therefore one stretch between two suspensions,
with everything the stretch changes in it; the awaits are the values of a
program counter (`main`, `pc`, `closer`, ...).  `Task.cancel()` only marks a
task: the CancelledError surfaces at the await the task is in, so awaits have a
second, cancelled, way to resume.  Only the vendor SDK's callbacks in
RtcChannel come from another thread, and the locks of the ring make each of
them one step.

Data is abstracted to what the properties tell apart.  An event is its
position in its lane, a sentence its position in the reply, a frame its number
(or its utterance and whether it was faded), a referees' vote the route it
selects, a final the era it was spoken in.  A partial is its verdict in CallLoop
and a text with a length in BargeIn; a definite of the recogniser is its
connection and its position on it.

## Runs

Every run is exhaustive for its constants.  Properties marked (T) are also
proved for all constants.  Each module states its types as `TypeOK`.  It is
proved for every module with a proof module, and it holds in the configurations
below (add it as an INVARIANT); the runs are kept to the properties that say more.

**`bus`** (EventBus).  Lossless handlers are synchronous, as all of the
engine's are; a sibling raises on every event and a lossy handler may hang.
`LosslessExactlyOnce` (T): what a bridge has handled followed by what is queued
is exactly what `post` accepted.  `DrainedWhenClosed` (T): after `aclose`
nothing accepted is left.  `LossyKeepsNewest` (T): the lossy lane drops its
oldest events only.  `LosslessEventuallyHandled`: a hanging lossy handler does
not starve the lossless lane.  *Bounds:* 4 posts per lane against a lossy
capacity of 2, so the lane overflows twice.

**`bus_in_flight`** (EventBus).  Two awaiting handlers and a closer that may
itself be cancelled.  `LossOnlyInFlight` (T): no handler completes an event twice,
and closing costs a handler at most the one event a task was inside when it was
cancelled.  *Bounds:* 3 posts, deliveries that suspend twice.

**`lifecycle`** (CallLifecycle).  Two calls, hangup commands, one fault of
Redis or the database, shutdown at any moment.  `SlotAccounting` (T): the
concurrency counter equals the slots held, as long as no slot was given back
twice.  `SettledOnce` (T): a session leaves the registry only when its record is
written, CallEnded is pushed and the slot is given back, each exactly once but
for attempts that raised after they took effect.  (A step is given up after
`MaxRetries` failing attempts; the property says nothing beyond that, see
`FinalizedReleases` below.)  `NoCallOutlivesProcess` (T): when the process is
gone no call is still in its conversation or unwinding.  `ManualCauseReported`
(T): if a hangup command reached `main` before CallEnded was composed, and the
conversation did not go on after it, CallEnded says `manual`, on whichever way
`main` unwinds; and short of a shutdown it says so of no call that nobody told to
hang up.  (`session.hangup_cause` itself may change while the call runs: a referee's
hangup names its cause before the farewell, `run_loop.py:1599`, and a command during
the farewell replaces it.)  *Bounds:* two calls are
needed for one to be finalized while another starts; they are interchangeable,
hence the symmetry set (no liveness is checked here).

**`call_settles`** (CallLifecycle, fairness).  `EndedCallsSettle`: a call that
leaves its conversation gives its slot back, however often `main` is cancelled
on the way out, unless the process exits first, the DECR fails `MaxRetries` times,
or `main` waits for ever in `_stop_listen_pumps`: that gathers the cancelled pumps
without a timeout, and a recogniser's pump may swallow its cancellation
(`StopEndsPump` below).  `HangupEndsListening`: a hangup
that finds the call loading, dialing or listening ends it, with the same two
exceptions of the process and the pumps.  `CounterRepaired`
(T): a Redis command may take effect and report failure, so that a retry
releases a slot twice, and a request may have been queued without its INCR
(`scripts/fake_dial.py`); even so the counter never shows a slot nobody holds,
and it is negative only while a finalizer is between its DECR and its SET 0.
*Bounds:* one call, three hangup commands (so that one can arrive during the
unwinding of another and one during the finalizer), three faults (so that a step
can fail `MaxRetries` times).

**`loop`** (CallLoop, fairness).  One conversation with every feature on.
`LegalLifecycle` (T): the observable state only follows `LEGAL_TRANSITIONS`.
This is the step part of `CallState`, instantiated with the conversation's
state.  `ConversationBounded` (T): the caps on restructured lines, on wrap-up
rounds and on the silence ladder, which are counted at different moments.
`NoFinalLost` (T): every final queued after the greeting is either taken by the
main loop or still queued while the call goes on, also when a silence timeout
cancels the pending get.
`CueNeverCut`, proved only: the monitor never cancels the protection cue.
`OneRoundAfterHangup` (T): at most one round of listening is answered after the
remote hangup.  There is a window: `asyncio.wait` ends when a final or the timer is
ready, and a hangup set before `main` resumes is not in `done` if `hangup_wait` has
not run.  That round is answered, with a whole turn if need be; the next one finds
the event set, and ends the call even with finals queued.  `QuietCallEnds`: once the
customer stays silent the call ends, or `main` waits for the telephony client for
ever: for a playback after the hangup closed the line (`FeedEnds` below), or in its
`hangup()`, which sends to the edge and leaves the channel (`CloseAlwaysReturns`
below).
*Bounds:* 5 utterances and 4 triggering partials against caps of 1 and 2, so
every cap is reached and tried once more.

**`reply`** (ReplyStream, fairness).  Two turns with two candidates and a pool
of two filler phrases; streams fail before or after their first sentence,
synthesis and playback fail, barge-ins and hangups come at any await.
`ReplyInOrder` (T): played, playing, queued and held sentences are together exactly
those generated and pulled.  `WholeReplySpoken` (T): a turn that reaches its
sentinel spoke the whole reply or the default one.  `FillerExclusive` (T): filler
and reply are never audible together.  `StreamsReleased` (T): at most
`JobMax + 2` vendor streams are open, and after a turn nothing is left open or
running (the exception, a hangup at the gate, is among the observations below).
`RemainderMissesOne` (T): the remainder kept at a barge-in is in order, repeats
nothing, and misses at most one generated sentence.  `TurnEnds`: every turn ends
if its playbacks do, which holds on an open line (`FeedEndsWhileOpen`) and not on a
closed one (`FeedEnds` below).  *Bounds:* 5
sentences are the fewest that fill the player's hand, the queue of 2 and the
producer's hand and leave one in the buffer; two turns show that no state of a
turn leaks into the next.

**`playout`** (Playout, fairness).  Three utterances, barge-ins, failing pushes,
a close at any moment.  `PlaybackComplete` (T): on an open line `task_done` is
balanced, so `q.join()` neither returns early nor hangs, and what a feed that
returned had enqueued was pushed.  `CutIsFaded` (T): a barge-in leaves only
faded frames, inside the fade window.  `FeedEndsWhileOpen`: a feed ends as long
as the line is open.  *Bounds:* 5 frames overflow a queue of 4, and
exceed the fade window of 2.

**`rtc`** (RtcChannel, fairness).  `InboundFaithful` (T): from the SDK's ring over
the queue to the consumers no frame is duplicated or overtaken, although ring and
queue overflow, and ASR and VAD get the same frames and at most one sentinel each,
after the last of them.  `GateSparesSpeech`
(T): only quiet frames past the hangover are muted.  (A frame is
quiet or not by what the code measures.  Without `audioop`, and where its `rms`
raises, every frame measures 0 and counts as quiet, speech too.)
`EngineLifetime` (T): the
engine is live while somebody may use it, and is destroyed by every join that
fails and every leave that gets that far.  `IteratorsEnd`, `CloseReturns`:
closing, with a crashed drainer or pump.  *Bounds:* 5 frames wrap a ring of 3 and
overflow a queue of 2; two join results make one late.

**`edge`** (EdgeLink).  `ReconnectSafe` (T): a reconnecting edge stays reachable
and leaves no stale device mapping, however late the displaced handler unwinds.
`EventsFindTheirCall` (T): no event outruns its binding, be it a hangup, a device
error or a refused dial; it is bound before `send_to_edge`, whose put may let other
tasks run before `dial` returns.  The server may be stopped at any moment: `stop`
closes the registered streams, and its grace period ends the handlers that still
run.  *Bounds:* three streams of two edges give a displacement
beside another edge; two calls on one device fill a queue of 2.  The run uses the
dynamic device mapping (`LegacyEdge = None`), the deployed one; the theorems hold for
a configured edge as well.

**`asr`** (AsrStream, fairness).  Connections that drop, end or cannot be made,
vendor errors, repeated definites, a cancellation at any await.  `FinalsOnce` (T):
every utterance the vendor finalises is posted once and in order, over all
connections; a repeated definite is recognised by its text and end time, which the
vendor is taken to send.  (A repeat comes right after its definite, on the same
connection, and with the same `end_time`: for a definite without one the code takes
the time of its arrival, and a repeat of it would be posted again.)
`ReconnectsAccounted` (T): at most `Backoffs + 1` connections per result
(`ConnectionsBounded`); what was taken from the call's audio was delivered or is
buffered, but for at most a packet per connection that ended; and the audio generator
ends before the call's audio does only if a connection did (`AudioAccounted`).  After that it hears
nothing more (`ListeningHears` below), so nothing bounds the audio a call loses
altogether.  `PushInsideConnection` (T): no push task outlives its connection, so
that never two of them are inside the audio generator.  `LiveConnectionHears`: while
a connection, the first or a later one, listens to a live generator, every full
packet reaches the vendor.  `CancelEndsPump`: a cancelled pump ends, except in the
wait for the push task.  *Bounds:* 4 frames are two packets, so that a connection can
send one after another was lost; 2 backoffs and 2 results let the retry counter be
used up, reset and used up again.

**`bargein`** (BargeIn).  Three campaigns: the default tree, one with an or of a
search and a lasting text, one with interruptions off.  `NoBargeInMissed` (T): under
the default tree a judged partial of the current utterance is passed over only
if it is listed, short or early, counted from the moment the monitor first judged
the utterance.  `EarlyOnlyByLeftover` (T): a barge-in of a customer who has just
begun to speak is due to an anchor an earlier utterance left behind.  Both compare the
tree, evaluated as a recursive function, with the three conditions the default
tree stands for.  *Bounds:* 3 partials over a lane of 2 drop one; 3 finals let a
final overtake the partials of its own and of the next utterance; 3 ticks
against a duration of 2.

One run is expected to fail and shows a disagreement between code and comment:

**`call_hangup`**: `HangupUnwinds`.  A manual hangup during playback cancels
`main`, the cancellation reaches the playback `main` awaits, and `_play_chunks`
reads it as a barge-in.  The call goes on.

### Deadlock

All configurations say `CHECK_DEADLOCK FALSE`: in each module the system may
rightly stop (the call is over, the process has exited, the bus is closed) or
the bounded environment has no more input.  That nothing waits for ever where it
should not is stated by the liveness properties instead.

### Fairness

Fairness is weak and only on what the engine's own scheduling drives: the loop
runs every ready task, timers fire, finite streams end.  Nothing is assumed of
the customer, the operator, the scheduler, SIGTERM, barge-ins or the SDK.
In particular:

- EventBus: the bridges subscribe, the bus starts, the lossless dispatcher runs.
- CallLifecycle: `main` outside the conversation, a cancelled wait for the
  customer, and the finalizer; the awaits there are local or have timeouts.  The
  wait for the listen pumps (`_stop_listen_pumps`) has none and is excepted: nothing
  is assumed of `main` there.
- CallLoop: `main`, except where it waits for the telephony client without a timeout
  (`AwaitsTelephony`: a playback on a closed line, and `hangup()`), and strong
  fairness of the end of a reply: a reply may be followed by another sentence any
  number of times in the model, while the code's replies are finite.
- ReplyStream: the gate (it has `referee_timeout_ms`), the end of generation,
  synthesis and playback, well or badly, and the tasks of `_play_streaming`.  The end
  of a playback is that of an open line.
- Playout: the pump, `join`, the end of a chunk stream.
- RtcChannel: the pump, the two consumers, and closing (its wait has a timeout).
- AsrStream: the pump and the push task; connecting, sending and closing have
  the timeouts of the websocket library.  Nothing is assumed of the vendor.

## Proofs

The eight proof modules are checked by TLAPS for every value of the constants,
under the assumptions named in the component modules (`BusAssumption`,
`LoopAssumption`, `LifecycleAssumption`, ...: the bounds are naturals, capacities
and packet sizes positive, flags Boolean, sets of calls finite, markers distinct
from what they mark).  Each component has an inductive invariant `IInv` (EventBus
has a second one, `FInv`; that of BargeIn is `BargeInInv`), a proof that `Init`
implies it and every step keeps it, and the theorems that follow from it.

*EventBus.*  `LosslessExactlyOnce` compares a concatenation with an interval, so
it is not convenient to induct on.  `IInv` says it element by element: each
healthy bridge has handled `1..k` and the queue holds `k+1..n`.  It adds that no
lossless delivery is suspended, that the bridges are subscribed once the
dispatcher is on, and that a begun `aclose` leaves an empty closed lane.  The
lemmas `SplitPost`, `SplitDeliver` and `SplitDrain` are the three ways the pair
changes.  `ExactlyOnce` and `Drained` assume `SyncLossless`: the lossless
handlers are synchronous.  Every handler `run_session` subscribes is; for
awaiting handlers both are false.  `TypeCorrect`, `LossyNewest` and `InFlightOnly`
need no such assumption.

`InFlightOnly` is about awaiting handlers, where neither order nor completeness
holds.  Its invariant `FInv` keeps an account (`Book`) per healthy bridge: of the
events taken off the lossless lane each is completed, once, or held for the bridge
by the dispatcher, or held by the drain, or is the single lost one; and nothing is
lost before the dispatchers or the closer are cancelled.  Five lemmas say how an
account moves (`BookTakes`, `BookHolds`, `BookDone`, `BookLoses`, `BookSwap`).  A
delivery splits its snapshot of the handlers into those that ran and those that are
owed the event (`Parts`), which needs that no handler is subscribed twice
(`ListInv`).  `LaneInv` says that the queue holds the events not yet taken, and
`TaskInv` where the dispatcher and the closer can be at the same time: two losses
would need a second cancellation after the drain, which finds nothing held.

*CallLoop.*  `IInv == TypeOK /\ Phases /\ CapInv /\ WrapUpBounded /\
LadderBounded /\ FinalsInv /\ CueNeverCut /\ LateInv`.  `Phases` ties what is said and the
call state to the await `main` is in, which the caps and the lifecycle need.
`CapInv` adds that a restructured line is spoken only below the cap: the counter
is increased after the line was played.  `FinalsInv` adds that the greeting era
queues nothing of the call.  Each conjunct is a lemma of its own with one step
per action.  `LifecycleLegal` is an action property, proved from the same invariant.
`LateInv` is behind `HangupEnds`: once a round was answered after the hangup, the
loop is outside the window in which the event can be missed, and with the event set
it does not enter it again.  `LifecycleLegal` is about the steps of `CallState` only:
CallLoop begins with the greeting, when the session has left `CallState`'s initial
state already.

`CallWindsDown` is the safety part of the liveness property `QuietCallEnds`.
`Rank` is a natural number (`BudgetInv`: the customer has not used more than their
share).  It is the sum of `Budget`, what is left of utterances, partials, unanswered
finals and silence activations, weighted by what each can cause, and `Stage`, the
distance of `main` from the end if nobody says anything more.  Every step lowers it,
except that a reply in progress may go from sentence to sentence.  So
whatever the customer, the referees and the detectors do, there are at most
`11 * MaxUtterances + MaxPartials + 4 * MaxActivations + 13` other steps.  That the
sentences of a reply end, and that `main` is scheduled, is the fairness that TLC's
run assumes.

*CallLifecycle.*  `IInv == TypeOK /\ PhaseInv /\ StepInv /\ GatherInv /\
CounterInv`.  `PhaseInv` says where a request, its main task and its finalizer
can be at the same time; `StepInv` is the ledger of the finalizer: an effect of
a step that has not succeeded stands for a fault, and a step is passed without an
effect only after `MaxRetries` of them.  `CounterInv` joins `SlotAccounting` and
`CounterRepaired` with the fact that a SET 0 is due only when a slot was given
back that nobody held, so that the SET 0 disturbs `SlotAccounting` only where
that claims nothing.  `GatherInv` says that a shutdown waits for every task
that still runs.  The counter is compared with the cardinality of a set of any
size, so the lemmas on a slot taken and a slot given back rest on
`FiniteSetTheorems`.  The steps of `main` are first classified by what they may
change (`MainMoves`), and so are those of the finalizer; the invariants are
proved per class.

`ManualHangupReported` rests on `CauseInv`, kept beside `IInv`: once a command has
reached `main`, the cause is `manual` and `main` is cancelled or unwinding, until
CallEnded is composed from that cause; and a cancellation, or a cause `manual`, has a
command or a shutdown behind it.  Three lemmas say it of the three ways `main` moves
(`GotoKeeps`, `CloseBusKeeps`, `FinalizeKeeps`).

`CallsRunDown` is the safety part of `EndedCallsSettle` and `HangupEndsListening`.
`StepsLeft(c)` adds what `main` has before it, talking aside, to what the finalizer
has before it: three attempts for each of its steps, and two steps for each attempt
of the release, the DECR and the SET 0.  Every step of the call's own tasks outside
the conversation lowers it, and nobody else's step raises it: 26 steps at most from
the dial request to the released slot.  Speaking and listening may alternate any
number of times in this module; CallLoop bounds them.

*Playout.*  `IInv == TypeOK /\ PumpInv /\ CountInv /\ Accounting /\ PlayedInv
/\ FadeInv`.  `Accounting` holds on an open line only; `CountInv` is the half
that survives a close.  `PlayedInv` says that between two feeds nothing of the
last one is left, which needs `FadeInv`: what a barge-in left is marked as cut.

*EdgeLink.*  `IInv` adds to the two properties that a registered stream belongs
to its edge and is not yet deregistered (`StreamInv`), and follows a dial from
its binding (`BoundInv`) over the suspended put (`SendInv`) and the outbound queue
(`FrameInv`) to the line of the edge (`LineInv`): an event finds its binding
because every dial on the wire is that of a call which is up, or over, on this
edge.

*RtcChannel.*  `IInv == TypeOK /\ SessionInv /\ RunInv /\ GateSparesSpeech /\
RingInv /\ FlowInv /\ LaneInv`.  `SessionInv` ties session, engine, drainer and
closing together; `RunInv` says that the gate's count is that of the quiet frames
at the end of the lane.  The other three are behind `InboundHeard`.  `RingInv` says
where the SDK writes, modulo the capacity, so that a full ring overwrites exactly
its oldest frame and a drained one is read from where it was written (`RingPushed`,
`RingDrained`).  `FlowInv` separates the path by two bounds: what was forwarded
lies below the first, what is queued between the two, what is in the ring above the
second; a frame that moves on, or is dropped at either overflow, shifts a bound
(the `Flow...` lemmas).  `LaneInv` compares the two lanes position by position.

*AsrStream* (in `SpeechProofs`).  `IInv == TypeOK /\ PushInsideConnection /\ BufferInv /\ FinalsInv
/\ RetryInv /\ LossInv /\ HeardInv`.  `RetryInv` is the count behind
`ConnectionsBounded`: every result pays for `Backoffs + 1` connections and
`attempt_index` counts those since the last one.  `LossInv` and `HeardInv` are behind
`AudioAccounted`.  `LossInv` charges one packet to each connection that has ended, and
needs `BufferInv`: the buffer never holds more than the packet being sent.  `HeardInv`
says that a generator which has ended was closed and emptied, or ended under the push
task of a connection that is over.
`FinalsInv` adds that `last_final_sig` is the last definite of the connection.

*BargeIn* (in `SpeechProofs`, which extends both modules of the customer's speech;
so the specification of this one is `BISpec`, from `BIInit` and `BINext`).  `Evaluate`
is a recursive function over rule trees, and induction over trees is not available to
the prover, so the proof goes another way.  `TreesAssumption` says that the parts of a tree are trees and that
every nonempty set of trees has one that contains no other of the set: what
`build_rule` compiles is a finite nesting.  A valuation of some of the trees, closed
under parts, is unique on each of them (`ValuesAgree`: look at a least tree on which
two differ), so all of them can be glued together, and the result values every tree
(`AllValued`: look at a least tree without a value).  Hence `EvaluateByRules`: the
recursive definition has a solution, and `Evaluate` is it.  `DefaultEvaluates` computes
it for the tree of `default_rule`, for any whitelist, length and duration.

`BargeInInv == BITypeOK /\ PostedInv /\ AnchorInv /\ NoBargeInMissed /\
EarlyOnlyByLeftover`.  `PostedInv` says that a partial on its way, on the bus or in the
monitor's queue, is never of an utterance that has not begun.  `AnchorInv` relates
the three clocks: the anchor was set no later than the first judgement of the
utterance, and, unless it is a leftover, not before the utterance began.

*ReplyStream.*  `IInv == Types /\ RestInv /\ CandInv /\ FillerInv /\ HeldInv /\
PullInv /\ OrderInv /\ WholeInv /\ CutInv /\ RemainderInv`.  `OrderInv` is the
argument for `ReplyInOrder` and `WholeReplySpoken`: position by position, what was
played, the current job, the queue and the producer's hand continue each other, the
sentinel comes last, and it is queued only when the stream has ended and all of it
was pulled.  `WholeInv` keeps the conclusion through the teardown.  `PullInv` says
that the producer never overtakes the generation, and that the default reply is
used for a silent stream only.  `CutInv` and `RemainderInv` are the argument for
`RemainderMissesOne`: a barge-in captures the sentence that was cut, and the
finally block adds the queue and what is left of the buffer; what it misses is the
one sentence in the hand of the cancelled producer (`Unwound`).  The loop that
drains the queue is a recursive function; `Drain` shows that it returns the queue
without its sentinel, by looking at the least position after which it would not
(`Least`, from the well-foundedness of the naturals).  `HeldInv` gives every open
vendor stream a holder (the queue, the player or the producer), from which
`StreamsReleased` follows: by counting while the turn runs, and because between two
turns there are no holders (`RestInv`).

*Only model-checked.*  All liveness: fairness and ENABLED are outside the prover's
reach.  For three of these properties the theorems `CallWindsDown` and `CallsRunDown`
above give the part that needs neither.  Every safety invariant and every action
property of the passing runs is proved.

## Where code and comments disagree

Besides the run above, the modules state claims of comments and documents
(`CloseAlwaysReturns` and `NoEngineLeft`: what a reader would expect of
`close_iterators` and `leave`) that the models violate.  They are kept at the end
of each module; adding one to a configuration as an INVARIANT (or, for one with
`~>`, as a PROPERTY under the module's fair specification) shows the trace.  Lines
are those of `src/isales_engine` unless said otherwise.

- `DrainedWhenClosed` (EventBus (with awaiting handlers), `eventbus.py:199`):
  aclose cancels a dispatcher that is awaiting an asynchronous handler, so the
  event it took from the lossless lane before the close is not delivered to the
  end; eventbus.py:181-182 says "a final / CallEnded enqueued before close must
  still be delivered". tests/test_eventbus.py:102 subscribes asynchronous
  handlers; the handlers run_session subscribes are synchronous, for which the
  property is proved.
- `SerializedLane` (EventBus, `eventbus.py:196`): While a dispatcher awaits an
  asynchronous handler, aclose delivers the next lossless event from the closing
  task; eventbus.py:25-27 says delivery is "serialized within a lane (no
  CallSession-mutation races on the lossless lane)".
- `ShutdownFinalizes` (CallLifecycle, `dial_consumer.py:163`): The shield lets a
  CancelledError out of the wait while finalize_session keeps running as a task
  nobody awaits; a hangup followed by a shutdown (or a shutdown during
  finalization) lets cancel_all return and the process exit with the finalizer
  unfinished. session_manager.py:45-48 says "this method waits for those
  finalisers, not just the cancellation acknowledgement".
- `ShutdownBounded` (CallLifecycle, `session_manager.py:64`): asyncio.timeout
  cancels the gather, and the gather then waits for its children: a session that
  swallowed the cancellation in _play_chunks keeps cancel_all, and so the
  shutdown, waiting past timeout_s; README.md:47-48 says the shutdown is "Bound
  by `ISALES_ENGINE_GRACEFUL_SHUTDOWN_TIMEOUT_S` (default 30s)",
  session_manager.py:43 "waiting up to ``timeout_s`` seconds".
- `BusTornDown` (CallLifecycle, `run_loop.py:264`): A cancellation that arrives
  while run_session's finally awaits _stop_listen_pumps skips bus.aclose, and
  the two dispatcher tasks of the ended call stay; run_loop.py:308-309 says "the
  cancel unwinds run_session (stop pumps + aclose bus)".
- `FinalizedReleases` (CallLifecycle, `call_lifecycle.py:250`):
  _decr_concurrency gives up after three failures and finalize_session
  unregisters the call, so its slot stays counted for ever;
  call_lifecycle.py:80-82 says "failures are logged but the sequence always
  proceeds so concurrency counter cannot leak".
- `AbortOnlyIfThinking` (CallLoop, `run_loop.py:1511`): interruption_signaled is
  cleared only by a barge-in on a streamed reply and by the thinking abort; a
  signal set during a phrase (an activation, a default reply) survives the
  phrase and aborts the next turn at its gate, although run_loop.py:1511-1513
  says "The partial monitor set interruption_signaled while we awaited the
  gate".
- `SignalStopsPlayback` (CallLoop, `run_loop.py:2175`): A signal set when no
  playback task runs, or by a playback that finished before the cancel, is
  honoured by nobody: the next playback runs to its end and the monitor, which
  ignores partials while the signal is set, cannot stop it;
  run_loop.py:2172-2174 says "the signal makes _play_tts honour it".
- `AbortNeverRestructures` (CallLoop, `run_loop.py:1518`): The thinking abort
  returns before the remainder is cleared, so a remainder from an earlier
  barge-in survives it and a later filler-gated turn restructures it;
  run_loop.py:1518-1519 says "the decider restructure override stays provably
  skipped".
- `CapConsumesRemainder` (CallLoop, `run_loop.py:1634`): The capped branch of
  the restructure route neither restructures nor clears
  interrupt_remaining_text, so a later turn can restructure the stale text;
  run_loop.py:1563-1567 says "clear the remainder so it can't leak into a later
  turn and be restructured stale. The restructure path consumes the field".
- `MonitorCoversTurn` (CallLoop, `run_loop.py:1503`): in_processing_turn is
  cleared when the gate resolves and the playback task exists only inside
  _play_chunks, so partials while the first sentence, the transfer detector or
  the next sentence is awaited are ignored; call_session.py:170-173 says "True
  for the whole duration of a reply turn — from _run_gated_turn entry
  (THINKING/generating) through audio playback".
- `GreetingNeverAnswered` (CallLoop, `run_loop.py:629`): The drain empties the
  queue once; a greeting utterance the ASR finalises after the drain is queued
  and answered as the first user turn; run_loop.py:629-631 says it "guarantees
  that greeting-era audio is never consumed as the first user turn".
- `FeedEnds` (Playout, `realtime/rtc_telephony.py:483`): `close_iterators` stops
  the pump and leaves the queue as it is; a `feed_playout` in progress waits for
  ever in `q.put` or `q.join`, and `main` with it; rtc_telephony.py:438-440 says
  it "Returns once the pump has consumed (pushed) every enqueued frame, so the
  caller's "playback complete" contract still holds".
- `ListeningHears` (AsrStream, `providers/asr_volcengine.py:404`): all connections
  iterate one audio generator; cancelling the push task of a lost connection while
  it waits in the generator's `get()` finishes the generator, and the next
  connection gets no audio for the rest of the call; asr_volcengine.py:295-296
  says "Reconnects only on an actual disconnection (network resilience)".
- `CleanExitAtTeardown` (AsrStream, `providers/asr_volcengine.py:318`): a vendor
  that closes with code 1000 ends the receive loop without an exception and the
  recogniser returns in mid-call; asr_volcengine.py:317 says "Clean exit only if
  audio_chunks is exhausted (call teardown)".
- `RetriesUsedUp` (AsrStream, `providers/asr_volcengine.py:332`): a reconnection
  that cannot be made raises no ConnectionClosed and is not tried again;
  asr_volcengine.py:223 says "On disconnection, retries up to
  ``len(reconnect_backoffs_s)`` times".
- `StopEndsPump` (AsrStream, `providers/asr_volcengine.py:470`): a cancellation of
  the pump during the wait for the push task is suppressed with that task's own;
  if the connection was lost the recogniser then reconnects, and
  `_stop_listen_pumps` waits; run_loop.py:669 says "The producers are now
  cancelled".
- `DurationHonoured` (BargeIn, `run_loop.py:2149`): partials judged after the final
  of their utterance, or of an utterance without a final, leave an anchor that the
  next utterance inherits, so its first partial can barge in at once;
  run_loop.py:2135-2136 says "Track the speech-start anchor on the first non-empty
  partial of an utterance so evaluate_partial can apply the duration condition".
- `ClosedStreamsEnd` (EdgeLink, `transport/grpc_server.py:138`): outbound()
  checks no closed flag: with a full queue at close the consumer writes the
  backlog and then waits for ever in get(); grpc_server.py:133-135 says "If the
  queue is full, the outbound consumer will hit the closed flag on its next
  iteration via the connected check".
- `OutstandingSendsFail` (EdgeLink, `transport/grpc_server.py:115`): A put that
  is suspended when its stream is displaced completes as soon as the old
  consumer takes a frame: send_to_edge reports success for a command on a closed
  stream; grpc_server.py:327-329 says "Close the stale one so any outstanding
  send_to_edge calls fail loudly rather than silently routing to a dead
  connection".
- `EndedCallsRetired` (EdgeLink, `run_loop.py:2281`): Only a handoff calls
  telephony.hangup; every other ending returns from run_session with the call
  still in _calls and bound in the dispatcher (and, for an unanswered dial,
  still ringing on the edge); session_dispatcher.py:72-76 prescribes "finally:
  dispatcher.deregister("c-1")".
- `FailedDialLeaves` (EdgeLink, `realtime/rtc_telephony.py:719`):
  resolve_edge_for_device raises EdgeNotConnected outside the try that unwinds,
  after the RTC channel was joined and before the call is in _calls, so nobody
  can leave the channel; rtc_telephony.py:751 says "Edge isn't connected —
  surface as device_error and unwind."
- `RemainderComplete` (ReplyStream, `run_loop.py:1098`): the sentence the producer
  is trying to enqueue when a barge-in cancels it is closed without its text
  being kept; `call_session.py:183-185` says "the not-yet-spoken sentence buffer
  text is captured here" (`run_loop.py:1190` is more exact: "the interrupted
  sentence + still-queued sentences").
- `CloseAlwaysReturns` (RtcChannel, `transport/dingrtc/_session.py:281`): leave()
  puts its sentinel into `_inbound`; when the pump that reads it has crashed and
  it is full, the put waits for ever.
- `NoEngineLeft` (RtcChannel, `transport/dingrtc/_session.py:271` and `474`): a
  crashed drainer raises out of leave() before the channel is left, and a
  cancelled join unwinds nothing; the engine stays live either way.

Further observations, of which the models state no property:

- A cancellation of `main` inside a `suppress(CancelledError)` of a teardown
  (`run_loop.py:1150`, `1199-1203`; `pipeline/orchestrator.py:353`) is swallowed.
- A hangup while `main` awaits the gate leaves the eager candidates and the
  referees running (`run_loop.py:1500-1503`).
- A playback error of one sentence leaves `fully_played` true and discards the
  rest of the reply (`run_loop.py:1170-1180`).
- The producer leads the player by up to three sentences, two queued and one
  held, where `run_loop.py:1083` says "at most 2 sentences".
- A crashed inbound pump makes `close_iterators` raise, so `hangup()` skips
  `_purge_call`.

## Not modelled

- *The composition of a call with its link.*  The modules are checked one by one,
  each against an environment that may do more than its neighbour does.  A stream
  lost in mid-call is seen in EdgeLink (the registry) and in CallLoop (a customer
  who says nothing more), not in one module.
- *The rows a heartbeat writes* (`transport/heartbeat_handler.py`): one UPDATE per
  device in its own transaction, awaited by the stream's reader; other processes
  read them, no control of the engine does.
- *The synthesis cache* (`providers/tts_cache.py`): a bounded dictionary whose
  operations are each one stretch between two awaits; of two calls that fill the
  same entry the later one replaces it.
- *The v1 socket client* (`realtime/real_telephony.py`), which the RTC client
  supersedes: one read loop that puts into unbounded per-call queues.
- *The VAD monitor* writes a field that nothing reads since the corroboration of
  partials was removed (run_loop.py:2161-2170); the prewarm of the model changes
  no state of the call.
- *The decider's walk* over its configured rules: a pure loop; CallLoop lets the
  votes select any route.
- *Clients and texts*: the language models' clients and the prompts (their answers
  are arbitrary choices here), the binary framing of the recogniser, tokens and
  their verification, configuration (its values are the constants).
- *Effects without feedback*: hardware alerts (logging), the event publisher (best
  effort), the ambient background (mixing of samples).
- The test doubles and the probe scripts.

## Running

    tlc -config MCCallLoop.cfg MCCallLoop
    tlapm CallLoopProofs.tla

`PROJECT.json` names the module and the configuration of every run.  The longest
run, `reply`, takes between one and two minutes on two workers; the proofs take
about a quarter of an hour for ReplyStream, five to ten minutes for EventBus,
CallLifecycle and RtcChannel, less for the others.
