----------------------------- MODULE AsrStream -----------------------------
(***************************************************************************)
(* The reconnecting recogniser of one call: stream_recognize and            *)
(* _stream_one_connection (providers/asr_volcengine.py) under the _asr_pump *)
(* of run_loop.py that iterates it, fed by the generator audio_in           *)
(* (realtime/rtc_telephony.py) through a push task per connection.          *)
(*                                                                          *)
(* The pump posts what it is yielded without suspending, so a vendor frame  *)
(* is handled in one step.  Two tasks suspend: the pump, at the awaits that *)
(* are the values of rec, and the push task.  Audio is counted in frames.   *)
(* A definite is its connection and its position on it: vendor times start  *)
(* again on every connection.                                               *)
(***************************************************************************)
EXTENDS Integers, Sequences

CONSTANTS
  Backoffs,     \* len(reconnect_backoffs_s)
  PacketFrames, \* frames in a packet of ~100 ms
  MaxFrames,    \* bound: frames of the call
  MaxResults,   \* bound: results the vendor sends
  MaxCancels    \* bound: cancellations of the pump

ASSUME AsrAssumption ==
  /\ Backoffs \in Nat
  /\ PacketFrames \in Nat \ {0}
  /\ MaxFrames \in Nat
  /\ MaxResults \in Nat
  /\ MaxCancels \in Nat

VARIABLES
  rec,       \* the await the pump is suspended in, or "over"
  why,       \* what the finally blocks carry out of _stream_one_connection
  ws,        \* the vendor's connection
  cancel,    \* the pump is cancelled and has not raised it yet
  attempts,  \* attempt_index
  push,      \* the push task of this connection
  audio,     \* the audio_in generator: "live" or "finished"
  arrived,   \* frames put into inbound_q
  closed,    \* inbound_q has its sentinel
  taken,     \* frames the push tasks took from the generator
  buf,       \* frames in the push task's buffer
  delivered, \* history: frames sent to the vendor
  conns,     \* history: connections made
  spoken,    \* definites the vendor sent on this connection
  lastSig,   \* last_final_sig: one of them, or 0
  definites, \* history: definites of the vendor, without its repetitions
  finals,    \* AsrFinal events posted
  results,   \* history: results yielded
  sends,     \* vendor frames so far
  cancels    \* cancellations so far

pumpVars  == <<rec, why, cancel, attempts>>
pushVars  == <<push, audio, taken, buf, delivered>>
sourceVars == <<arrived, closed>>
resultVars == <<spoken, lastSig, definites, finals, results, sends>>
vars == <<pumpVars, ws, conns, pushVars, sourceVars, resultVars, cancels>>

TypeOK ==
  /\ rec \in {"connecting", "configuring", "receiving", "reaping", "leaving",
              "backoff", "over"}
  /\ why \in {"none", "closed", "unreachable", "error", "cancelled"}
  /\ ws \in {"none", "open", "dropped", "finished"}
  /\ cancel \in BOOLEAN
  /\ attempts \in Nat
  /\ push \in {"none", "created", "getting", "sending", "done"}
  /\ audio \in {"live", "finished"}
  /\ arrived \in Nat
  /\ closed \in BOOLEAN
  /\ taken \in Nat
  /\ buf \in Nat
  /\ delivered \in Nat
  /\ conns \in Nat
  /\ spoken \in Nat
  /\ lastSig \in Nat
  /\ definites \in Seq(Nat \X Nat)
  /\ finals \in Seq(Nat \X Nat)
  /\ results \in Nat
  /\ sends \in Nat
  /\ cancels \in Nat

Init ==
  /\ rec = "connecting"
  /\ why = "none"
  /\ ws = "none"
  /\ cancel = FALSE
  /\ attempts = 0
  /\ push = "none"
  /\ audio = "live"
  /\ arrived = 0
  /\ closed = FALSE
  /\ taken = 0
  /\ buf = 0
  /\ delivered = 0
  /\ conns = 0
  /\ spoken = 0
  /\ lastSig = 0
  /\ definites = <<>>
  /\ finals = <<>>
  /\ results = 0
  /\ sends = 0
  /\ cancels = 0

-----------------------------------------------------------------------------
\* The telephony client, the vendor's connection and _stop_listen_pumps.

FrameArrives ==
  /\ ~closed
  /\ arrived < MaxFrames
  /\ arrived' = arrived + 1
  /\ UNCHANGED <<pumpVars, ws, conns, pushVars, closed, resultVars, cancels>>

SourceCloses ==
  /\ ~closed
  /\ closed' = TRUE
  /\ UNCHANGED <<pumpVars, ws, conns, pushVars, arrived, resultVars, cancels>>

\* The connection is lost, or the vendor closes it with code 1000.
VendorCloses ==
  /\ ws = "open"
  /\ ws' \in {"dropped", "finished"}
  /\ UNCHANGED <<pumpVars, conns, pushVars, sourceVars, resultVars, cancels>>

CancelPump ==
  /\ rec # "over"
  /\ cancels < MaxCancels
  /\ cancels' = cancels + 1
  /\ cancel' = TRUE
  /\ UNCHANGED <<rec, why, attempts, ws, conns, pushVars, sourceVars, resultVars>>

-----------------------------------------------------------------------------
\* The push task: take a frame from the generator, send a packet when full.

\* The steps of a task that was not cancelled; the finally cancels it.
Pushing(at) == push = at /\ rec # "reaping"

PushStart ==
  /\ Pushing("created")
  /\ push' = "getting"
  /\ UNCHANGED <<pumpVars, ws, conns, audio, taken, buf, delivered, sourceVars,
                 resultVars, cancels>>

PushFrame ==
  /\ Pushing("getting")
  /\ audio = "live"
  /\ taken < arrived
  /\ taken' = taken + 1
  /\ buf' = buf + 1
  /\ push' = IF buf + 1 >= PacketFrames THEN "sending" ELSE "getting"
  /\ UNCHANGED <<pumpVars, ws, conns, audio, delivered, sourceVars, resultVars, cancels>>

\* The sentinel ends the generator; a generator that has ended yields nothing.
PushAudioEnds ==
  /\ Pushing("getting")
  /\ audio = "finished" \/ (closed /\ taken = arrived)
  /\ audio' = "finished"
  /\ push' = "done"
  /\ UNCHANGED <<pumpVars, ws, conns, taken, buf, delivered, sourceVars, resultVars, cancels>>

\* Mutant: a packet that cannot be sent is dropped and the task goes on.
PushSendsOn ==
  /\ Pushing("sending")
  /\ delivered' = IF ws = "open" THEN delivered + PacketFrames ELSE delivered
  /\ buf' = buf - PacketFrames
  /\ push' = "getting"
  /\ UNCHANGED <<pumpVars, ws, conns, audio, taken, sourceVars, resultVars, cancels>>

\* Mutant: the task sends one packet and ends.
PushSendsOnce ==
  /\ Pushing("sending")
  /\ push' = "done"
  /\ IF ws = "open"
     THEN delivered' = delivered + PacketFrames /\ buf' = buf - PacketFrames
     ELSE UNCHANGED <<delivered, buf>>
  /\ UNCHANGED <<pumpVars, ws, conns, audio, taken, sourceVars, resultVars, cancels>>

\* ws.send returns, or raises on a connection that is gone: logged, and the
\* task ends without touching the generator.
PushSends ==
  /\ Pushing("sending")
  /\ IF ws = "open"
     THEN /\ delivered' = delivered + PacketFrames
          /\ buf' = buf - PacketFrames
          /\ push' = "getting"
     ELSE /\ push' = "done"
          /\ UNCHANGED <<delivered, buf>>
  /\ UNCHANGED <<pumpVars, ws, conns, audio, taken, sourceVars, resultVars, cancels>>

\* The CancelledError is raised where the task is suspended.  Inside the
\* generator's get() it also finishes the generator.
PushCancelled ==
  /\ rec = "reaping"
  /\ push \in {"created", "getting", "sending"}
  /\ audio' = IF push = "getting" THEN "finished" ELSE audio
  /\ push' = "done"
  /\ UNCHANGED <<pumpVars, ws, conns, taken, buf, delivered, sourceVars, resultVars, cancels>>

PushStep == PushStart \/ PushFrame \/ PushAudioEnds \/ PushSends \/ PushCancelled

-----------------------------------------------------------------------------
\* _stream_one_connection.

Connect ==
  /\ rec = "connecting"
  /\ ~cancel
  /\ rec' = "configuring"
  /\ ws' = "open"
  /\ conns' = conns + 1
  /\ UNCHANGED <<why, cancel, attempts, pushVars, sourceVars, resultVars, cancels>>

\* The connection cannot be made: not a ConnectionClosed, so not retried.
ConnectFails ==
  /\ rec = "connecting"
  /\ ~cancel
  /\ why' = "unreachable"
  /\ rec' = "over"
  /\ UNCHANGED <<cancel, attempts, ws, conns, pushVars, sourceVars, resultVars, cancels>>

\* The finally of the connection, without a push task.
Leave(reason) ==
  /\ why' = reason
  /\ rec' = "leaving"

\* Mutant: last_final_sig is kept from connection to connection.
ConfiguredKeepsSig ==
  /\ rec = "configuring"
  /\ ~cancel
  /\ ws = "open"
  /\ rec' = "receiving"
  /\ push' = "created"
  /\ buf' = 0
  /\ spoken' = 0
  /\ UNCHANGED <<lastSig, why, cancel, attempts, ws, conns, audio, taken, delivered, sourceVars,
                 definites, finals, results, sends, cancels>>

\* The configuration is sent: create the push task and receive.
Configured ==
  /\ rec = "configuring"
  /\ ~cancel
  /\ ws = "open"
  /\ rec' = "receiving"
  /\ push' = "created"
  /\ buf' = 0
  /\ spoken' = 0
  /\ lastSig' = 0
  /\ UNCHANGED <<why, cancel, attempts, ws, conns, audio, taken, delivered, sourceVars,
                 definites, finals, results, sends, cancels>>

ConfigLost ==
  /\ rec = "configuring"
  /\ ~cancel
  /\ ws # "open"
  /\ Leave("closed")
  /\ UNCHANGED <<cancel, attempts, ws, conns, pushVars, sourceVars, resultVars, cancels>>

\* A vendor frame is received.
Receives ==
  /\ rec = "receiving"
  /\ ~cancel
  /\ ws = "open"
  /\ sends < MaxResults
  /\ sends' = sends + 1

\* The generator yields a result; the pump posts it and asks for the next.
Yield ==
  /\ attempts' = 0
  /\ results' = results + 1

Partial ==
  /\ Receives
  /\ Yield
  /\ UNCHANGED <<rec, why, cancel, ws, conns, pushVars, sourceVars, spoken, lastSig,
                 definites, finals, cancels>>

\* A definite; the same as the last one is skipped.
Definite(sig) ==
  IF sig = lastSig
  THEN UNCHANGED <<finals, lastSig, attempts, results>>
  ELSE /\ finals' = Append(finals, <<conns, sig>>)
       /\ lastSig' = sig
       /\ Yield

\* The next utterance of this connection, or its last one once more.  The
\* vendor is taken to repeat no older one and to send its end_time, which is the
\* signature: last_final_sig holds one utterance, and a definite without an
\* end_time gets the time of its arrival instead.
NewDefinite ==
  /\ Receives
  /\ spoken' = spoken + 1
  /\ definites' = Append(definites, <<conns, spoken + 1>>)
  /\ Definite(spoken + 1)
  /\ UNCHANGED <<rec, why, cancel, ws, conns, pushVars, sourceVars, cancels>>

RepeatedDefinite ==
  /\ Receives
  /\ spoken > 0
  /\ Definite(spoken)
  /\ UNCHANGED <<rec, why, cancel, ws, conns, pushVars, sourceVars, spoken, definites, cancels>>

\* Leave the receive loop: cancel the push task and wait for it.
Reap(reason) ==
  /\ why' = reason
  /\ rec' = "reaping"
  /\ UNCHANGED <<attempts, ws, conns, pushVars, sourceVars, resultVars, cancels>>

ReceiveEnds ==
  /\ rec = "receiving"
  /\ ~cancel
  /\ ws # "open"
  /\ Reap(IF ws = "dropped" THEN "closed" ELSE "none")
  /\ UNCHANGED cancel

\* The vendor reports an error.
VendorError ==
  /\ rec = "receiving"
  /\ ~cancel
  /\ ws = "open"
  /\ Reap("error")
  /\ UNCHANGED cancel

ReceiveCancelled ==
  /\ rec = "receiving"
  /\ cancel
  /\ Reap("cancelled")
  /\ cancel' = FALSE

\* Mutant: the push task is cancelled but not awaited.
ReapedEarly ==
  /\ rec = "reaping"
  /\ rec' = "leaving"
  /\ cancel' = FALSE
  /\ UNCHANGED <<why, attempts, ws, conns, pushVars, sourceVars, resultVars, cancels>>

\* The push task has ended.  The suppress around the wait takes the pump's own
\* CancelledError for that of the push task.
Reaped ==
  /\ rec = "reaping"
  /\ push = "done"
  /\ rec' = "leaving"
  /\ cancel' = FALSE
  /\ UNCHANGED <<why, attempts, ws, conns, pushVars, sourceVars, resultVars, cancels>>

-----------------------------------------------------------------------------
\* stream_recognize, once the connection is closed.

\* A clean exit returns, a lost connection is retried, all else is raised.
Left ==
  /\ rec = "leaving"
  /\ ~cancel
  /\ ws' = "none"
  /\ rec' = IF why = "closed" /\ attempts < Backoffs THEN "backoff" ELSE "over"
  /\ UNCHANGED <<why, cancel, attempts, conns, pushVars, sourceVars, resultVars, cancels>>

Retry ==
  /\ rec = "backoff"
  /\ ~cancel
  /\ attempts' = attempts + 1
  /\ rec' = "connecting"
  /\ UNCHANGED <<why, cancel, ws, conns, pushVars, sourceVars, resultVars, cancels>>

\* Mutant: a cancellation while connecting or backing off counts as a failure
\* to connect, and is retried.
CancelledRetries ==
  /\ rec \in {"connecting", "configuring", "leaving", "backoff"}
  /\ cancel
  /\ cancel' = FALSE
  /\ Leave("closed")
  /\ UNCHANGED <<attempts, ws, conns, pushVars, sourceVars, resultVars, cancels>>

\* A CancelledError at the other awaits is caught by the pump only.
Cancelled ==
  /\ rec \in {"connecting", "configuring", "leaving", "backoff"}
  /\ cancel
  /\ cancel' = FALSE
  /\ IF rec = "configuring" THEN Leave("cancelled")
     ELSE rec' = "over" /\ why' = "cancelled"
  /\ UNCHANGED <<attempts, ws, conns, pushVars, sourceVars, resultVars, cancels>>

PumpStep ==
  \/ Connect \/ ConnectFails \/ Configured \/ ConfigLost
  \/ ReceiveEnds \/ ReceiveCancelled \/ Reaped
  \/ Left \/ Retry \/ Cancelled

Next ==
  \/ FrameArrives \/ SourceCloses \/ VendorCloses \/ CancelPump
  \/ PushStep
  \/ PumpStep
  \/ Partial \/ NewDefinite \/ RepeatedDefinite \/ VendorError

\* The event loop runs both tasks; connecting, sending and closing have the
\* timeouts of the websocket library.  Nothing is assumed of the vendor, the
\* customer or the call.
Fairness == WF_vars(PushStep) /\ WF_vars(PumpStep)

Spec == Init /\ [][Next]_vars

FairSpec == Spec /\ Fairness

-----------------------------------------------------------------------------
\* Properties.

\* Every utterance the vendor finalises is posted exactly once and in order: a
\* repeated definite is filtered, and the first utterance of a new connection
\* is not mistaken for one of the old connection.
FinalsOnce == finals = definites

\* The vendor sees at most one generation of Backoffs + 1 connections per
\* result.
ConnectionsBounded == conns <= (results + 1) * (Backoffs + 1)

\* A push task lives inside its connection: none is left running when the
\* connection is closed, when the next one is made, or when the pump has ended.
\* (Two of them would be inside one audio generator.)
PushInsideConnection ==
  push \in {"created", "getting", "sending"} => rec \in {"receiving", "reaping"}

\* A connection that is being set up or listens; the others made so far are over.
Connecting == rec \in {"configuring", "receiving"}

Buffered == IF rec = "receiving" THEN buf ELSE 0

Ended == IF Connecting THEN conns - 1 ELSE conns

\* What becomes of the call's audio is accounted for by the connections that
\* ended: each has cost at most one packet of the frames taken for it, and the
\* frames that no connection will ever take, because the generator was finished
\* under a cancelled push task (ListeningHears), are lost to an ended connection
\* too, however many they are.  Nothing is sent twice.
AudioAccounted ==
  /\ delivered + Buffered <= taken
  /\ taken <= delivered + Buffered + Ended * PacketFrames
  /\ audio = "finished" /\ taken < arrived => Ended > 0

\* Reconnecting has a bounded price, but for the audio of a finished generator: a
\* vendor that accepts and drops connections cannot keep the engine reconnecting,
\* and each connection that ended cost at most a packet of what was taken for it.
ReconnectsAccounted == ConnectionsBounded /\ AudioAccounted

\* Every connection that listens to a live generator, the first or a later one,
\* hears the call: while it lasts, a packet's worth of audio waiting in the queue
\* and the buffer reaches the vendor.
LiveConnectionHears ==
  \A sent \in 0..MaxFrames :
    rec = "receiving" /\ audio = "live" /\ delivered = sent
    /\ buf + (arrived - taken) >= PacketFrames
      ~> delivered > sent \/ rec # "receiving"

\* A cancellation of the pump ends it, wherever it is suspended, except in the
\* wait for a push task.
CancelEndsPump == cancel /\ rec # "reaping" ~> rec = "over"

-----------------------------------------------------------------------------
\* Claims of the repository's comments that are stronger than what the code
\* does: each is violated in this model.

\* A recogniser that listens hears the call: its audio has ended only if the
\* call's has.
ListeningHears == rec = "receiving" /\ audio = "finished" => closed

\* A clean exit only if the audio is exhausted.
CleanExitAtTeardown == rec = "over" /\ why = "none" => closed

\* A recogniser that lost its connection and gave up has used up its retries.
RetriesUsedUp ==
  rec = "over" /\ conns > 0 /\ why \in {"closed", "unreachable"} => attempts >= Backoffs

\* Stopping the pump ends it.
StopEndsPump == cancel ~> rec = "over"
=============================================================================
