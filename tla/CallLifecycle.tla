---------------------------- MODULE CallLifecycle ----------------------------
(***************************************************************************)
(* The life of every call in one engine process, from the dial queue to the *)
(* release of its concurrency slot: dial_consumer.py, call_lifecycle.py,    *)
(* session_manager.py, the control path of main.py and the frame of         *)
(* run_session (run_loop.py) around the conversation.                       *)
(*                                                                          *)
(* A call is one dial request.  Its "main" task is a program counter whose  *)
(* values are the awaits it can be suspended in; a step of main is the      *)
(* stretch up to the next await.  Task.cancel() only marks main: the        *)
(* CancelledError is raised where main is suspended when main next runs, so *)
(* every await below has a step for each of the two ways it can resume.     *)
(* The finalizer is a task of its own (asyncio.shield), so cancelling main  *)
(* does not cancel it.                                                      *)
(***************************************************************************)
EXTENDS Integers, FiniteSets

CONSTANTS
  Calls,        \* dial requests
  Unscheduled,  \* those queued without an INCR (scripts/fake_dial.py)
  FaultKinds,   \* what a Redis or database call may do instead of succeeding
  MaxFaults,    \* bound: how many of them fail
  MaxHangups    \* bound: hangup or transfer commands per call

NoCall == "no call"

ASSUME LifecycleAssumption ==
  /\ IsFiniteSet(Calls)
  /\ NoCall \notin Calls
  /\ Unscheduled \subseteq Calls
  /\ FaultKinds \subseteq {"fail", "ambiguous"}
  /\ MaxFaults \in Nat
  /\ MaxHangups \in Nat

\* max_retries of persist_call_record, _lpush_extract, _lpush_call_ended and
\* _decr_concurrency.
MaxRetries == 3

VARIABLES
  req,        \* where the dial request is
  dialer,     \* the request dial_loop is handling, or NoCall
  registered, \* SessionManager._sessions
  main,       \* the await the main task is suspended in
  cancel,     \* main.cancel() was called and has not been raised yet
  raised,     \* a CancelledError is unwinding main
  cause,      \* session.hangup_cause
  bus,        \* the per-call event bus: "unstarted", "running", "closed"
  mailbox,    \* hangup/transfer events on its lossless lane
  hangups,    \* control commands received per call
  told,       \* history: one of them reached main before CallEnded was composed
  fin,        \* the step finalize_session is in
  attempt,    \* the attempt number of that step
  recorded,   \* the cause CallEnded carries
  applied,    \* [Calls -> [step -> Nat]]: how often a step took effect
  counter,    \* isales:concurrency:active
  faults,     \* Redis or database faults so far
  proc,       \* where _main is
  waiting,    \* the sessions cancel_all waits for
  timedOut    \* cancel_all's timeout has fired

callVars == <<req, dialer, registered>>
mainVars == <<main, cancel, raised, cause, bus, mailbox, hangups, told>>
finVars  == <<fin, attempt, recorded, applied, counter, faults>>
procVars == <<proc, waiting, timedOut>>
vars     == <<callVars, mainVars, finVars, procVars>>

Steps == {"persist", "extract", "ended", "decr"}

Causes == {"manual", "no_answer", "no_progress", "ended"}

Live == {"listening", "speaking"}

\* main after the conversation, up to the wait for the finalizer.
Unwinding == {"stopping", "closing", "providers", "finalizing"}

TypeOK ==
  /\ req \in [Calls -> {"idle", "queued", "handling", "dlq", "lost", "session"}]
  /\ dialer \in Calls \union {NoCall}
  /\ registered \subseteq Calls
  /\ main \in [Calls -> {"none", "preamble", "dialing", "done"} \union Live \union Unwinding]
  /\ cancel \in [Calls -> BOOLEAN]
  /\ raised \in [Calls -> BOOLEAN]
  /\ cause \in [Calls -> Causes \union {"none", "normal"}]
  /\ bus \in [Calls -> {"unstarted", "running", "closed"}]
  /\ mailbox \in [Calls -> Nat]
  /\ hangups \in [Calls -> Nat]
  /\ told \in [Calls -> BOOLEAN]
  /\ fin \in [Calls -> {"none", "capture", "snap", "unregister", "done", "killed"} \union Steps]
  /\ attempt \in [Calls -> 1..MaxRetries]
  /\ recorded \in [Calls -> Causes \union {"none", "normal"}]
  /\ applied \in [Calls -> [Steps -> Nat]]
  /\ counter \in Int
  /\ faults \in Nat
  /\ proc \in {"up", "stopping", "gathering", "closing", "exited"}
  /\ waiting \subseteq Calls
  /\ timedOut \in BOOLEAN

Init ==
  /\ req = [c \in Calls |-> "idle"]
  /\ dialer = NoCall
  /\ registered = {}
  /\ main = [c \in Calls |-> "none"]
  /\ cancel = [c \in Calls |-> FALSE]
  /\ raised = [c \in Calls |-> FALSE]
  /\ cause = [c \in Calls |-> "none"]
  /\ bus = [c \in Calls |-> "unstarted"]
  /\ mailbox = [c \in Calls |-> 0]
  /\ hangups = [c \in Calls |-> 0]
  /\ told = [c \in Calls |-> FALSE]
  /\ fin = [c \in Calls |-> "none"]
  /\ attempt = [c \in Calls |-> 1]
  /\ recorded = [c \in Calls |-> "none"]
  /\ applied = [c \in Calls |-> [s \in Steps |-> 0]]
  /\ counter = 0
  /\ faults = 0
  /\ proc = "up"
  /\ waiting = {}
  /\ timedOut = FALSE

-----------------------------------------------------------------------------
\* The scheduler: INCR, then push the dial request.

Schedule(c) ==
  /\ req[c] = "idle"
  /\ req' = [req EXCEPT ![c] = "queued"]
  /\ counter' = IF c \in Unscheduled THEN counter ELSE counter + 1
  /\ UNCHANGED <<dialer, registered, mainVars, fin, attempt, recorded, applied, faults, procVars>>

-----------------------------------------------------------------------------
\* dial_loop and handle_dial.

Pop(c) ==
  /\ proc = "up"
  /\ dialer = NoCall
  /\ req[c] = "queued"
  /\ dialer' = c
  /\ req' = [req EXCEPT ![c] = "handling"]
  /\ UNCHANGED <<registered, mainVars, finVars, procVars>>

\* An unknown schema version, an invalid message, or a failed
\* reserve_call_record: the request goes to the dead-letter queue.
DeadLetter(c) ==
  /\ dialer = c
  /\ dialer' = NoCall
  /\ req' = [req EXCEPT ![c] = "dlq"]
  /\ UNCHANGED <<registered, mainVars, finVars, procVars>>

\* The push to the dead-letter queue raises; dial_loop logs and goes on.
DeadLetterFails(c) ==
  /\ dialer = c
  /\ faults < MaxFaults
  /\ faults' = faults + 1
  /\ dialer' = NoCall
  /\ req' = [req EXCEPT ![c] = "lost"]
  /\ UNCHANGED <<registered, mainVars, fin, attempt, recorded, applied, counter, procVars>>

\* The record is reserved: register the session and spawn its main task.
StartCall(c) ==
  /\ dialer = c
  /\ dialer' = NoCall
  /\ req' = [req EXCEPT ![c] = "session"]
  /\ registered' = registered \union {c}
  /\ main' = [main EXCEPT ![c] = "preamble"]
  /\ UNCHANGED <<cancel, raised, cause, bus, mailbox, hangups, told, finVars, procVars>>

-----------------------------------------------------------------------------
\* Control commands: subscribe_loop, _on_manual_hangup / _on_transfer, the bus
\* and the bridge of _subscribe_control_bridges.

\* The bus exists before the session is registered; post() on a closed bus is
\* a no-op.
ManualHangup(c) ==
  /\ proc = "up"
  /\ c \in registered
  /\ hangups[c] < MaxHangups
  /\ hangups' = [hangups EXCEPT ![c] = @ + 1]
  /\ mailbox' = [mailbox EXCEPT ![c] = IF bus[c] = "closed" THEN @ ELSE @ + 1]
  /\ UNCHANGED <<callVars, main, cancel, raised, cause, bus, told, finVars, procVars>>

\* Mutant: the first cause that was named is kept.
TerminateKeepsCause(c) ==
  /\ bus[c] = "running"
  /\ proc # "exited"
  /\ mailbox[c] > 0
  /\ mailbox' = [mailbox EXCEPT ![c] = @ - 1]
  /\ cause' = [cause EXCEPT ![c] = IF main[c] = "done" \/ @ # "none" THEN @ ELSE "manual"]
  /\ cancel' = [cancel EXCEPT ![c] = main[c] # "done"]
  /\ told' = [told EXCEPT ![c] = @ \/ (main[c] # "done" /\ recorded[c] = "none")]
  /\ UNCHANGED <<callVars, main, raised, bus, hangups, finVars, procVars>>

\* The dispatcher of the lossless lane delivers one of them to _terminate.
Terminate(c) ==
  /\ bus[c] = "running"
  /\ proc # "exited"
  /\ mailbox[c] > 0
  /\ mailbox' = [mailbox EXCEPT ![c] = @ - 1]
  /\ cause' = [cause EXCEPT ![c] = IF main[c] = "done" THEN @ ELSE "manual"]
  /\ cancel' = [cancel EXCEPT ![c] = main[c] # "done"]
  /\ told' = [told EXCEPT ![c] = @ \/ (main[c] # "done" /\ recorded[c] = "none")]
  /\ UNCHANGED <<callVars, main, raised, bus, hangups, finVars, procVars>>

-----------------------------------------------------------------------------
\* main: _runner_with_finalize around _run around run_session.

\* main resumes at pc without, or with, a CancelledError to raise.
Resumes(c, pc) == main[c] = pc /\ ~cancel[c] /\ proc # "exited"

Raises(c, pc) == main[c] = pc /\ cancel[c] /\ proc # "exited"

\* Leave _run: name a cause if the call has none and start the finalizer.
Finalize(c, isCancelled, fallback) ==
  /\ main' = [main EXCEPT ![c] = "finalizing"]
  /\ cancel' = [cancel EXCEPT ![c] = FALSE]
  /\ raised' = [raised EXCEPT ![c] = isCancelled]
  /\ cause' = [cause EXCEPT ![c] = IF @ = "none" THEN fallback ELSE @]
  /\ fin' = [fin EXCEPT ![c] = "capture"]
  /\ UNCHANGED <<callVars, bus, mailbox, hangups, told, attempt, recorded, applied,
                 counter, faults, procVars>>

\* bus.aclose() up to its first await.  A hangup still in the mailbox is
\* delivered here, in main itself, and so cancels main.
CloseBus(c, isCancelled, cz) ==
  LET late == mailbox[c] > 0
  IN  /\ main' = [main EXCEPT ![c] = "closing"]
      /\ bus' = [bus EXCEPT ![c] = "closed"]
      /\ mailbox' = [mailbox EXCEPT ![c] = 0]
      /\ cause' = [cause EXCEPT ![c] = IF late THEN "manual" ELSE cz]
      /\ cancel' = [cancel EXCEPT ![c] = late]
      /\ raised' = [raised EXCEPT ![c] = isCancelled]
      /\ told' = [told EXCEPT ![c] = @ \/ late]
      /\ UNCHANGED <<callVars, hangups, finVars, procVars>>

\* Move main to pc; cz is the cause it leaves behind.  A main that goes on with
\* the conversation has taken the command for something else.
Goto(c, pc, isCancelled, cz) ==
  /\ main' = [main EXCEPT ![c] = pc]
  /\ cancel' = [cancel EXCEPT ![c] = FALSE]
  /\ raised' = [raised EXCEPT ![c] = isCancelled]
  /\ cause' = [cause EXCEPT ![c] = cz]
  /\ told' = [told EXCEPT ![c] = @ /\ pc \notin Live]
  /\ UNCHANGED <<callVars, bus, mailbox, hangups, finVars, procVars>>

OrNoProgress(c) == IF cause[c] = "none" THEN "no_progress" ELSE cause[c]

\* _run loads the lead and the configuration, then run_session subscribes the
\* control bridge, starts the bus and dials.
EnterRunSession(c) ==
  /\ Resumes(c, "preamble")
  /\ main' = [main EXCEPT ![c] = "dialing"]
  /\ bus' = [bus EXCEPT ![c] = "running"]
  /\ UNCHANGED <<callVars, cancel, raised, cause, mailbox, hangups, told, finVars, procVars>>

PreambleFails(c) ==
  /\ Resumes(c, "preamble")
  /\ Finalize(c, FALSE, "no_progress")

PreambleCancelled(c) ==
  /\ Raises(c, "preamble")
  /\ Finalize(c, TRUE, "manual")

\* _dial_and_wait_connected.  Once connected the pumps start and the greeting
\* plays.
Connected(c) ==
  /\ Resumes(c, "dialing")
  /\ Goto(c, "speaking", FALSE, cause[c])

NotConnected(c) ==
  /\ Resumes(c, "dialing")
  /\ CloseBus(c, FALSE, "no_answer")

DialRaises(c) ==
  /\ Resumes(c, "dialing")
  /\ CloseBus(c, FALSE, OrNoProgress(c))

DialCancelled(c) ==
  /\ Raises(c, "dialing")
  /\ CloseBus(c, TRUE, cause[c])

\* The conversation.  "speaking" is main awaiting a task of its own (the
\* playback of _play_chunks, a task it reaps); everything else is "listening".
\* The referee's hangup names its cause before the farewell.
Speak(c) ==
  /\ Resumes(c, "listening")
  /\ \E cz \in {cause[c], "ended"} : Goto(c, "speaking", FALSE, cz)

Spoken(c) ==
  /\ Resumes(c, "speaking")
  /\ Goto(c, "listening", FALSE, cause[c])

\* Remote hangup, silence, handoff, referee hangup or wrap-up end the loop; each
\* of them assigns hangup_cause here, but for a farewell that has been said.
ConversationEnds(c) ==
  /\ Resumes(c, "listening")
  /\ \E cz \in {cause[c], "ended"} \ {"none"} : Goto(c, "stopping", FALSE, cz)

ConversationRaises(c) ==
  /\ \E pc \in Live : Resumes(c, pc)
  /\ Goto(c, "stopping", FALSE, OrNoProgress(c))

\* Mutant: the loop catches the CancelledError and listens on.
ListeningSwallows(c) ==
  /\ Raises(c, "listening")
  /\ Goto(c, "listening", FALSE, cause[c])

ListeningCancelled(c) ==
  /\ Raises(c, "listening")
  /\ Goto(c, "stopping", TRUE, cause[c])

\* main.cancel() is passed on to the task main awaits.  If that task ends
\* cancelled, _play_chunks reads it as a barge-in and returns; only if the task
\* had already finished does the CancelledError leave _play_chunks.
SpeakingCancelled(c) ==
  /\ Raises(c, "speaking")
  /\ \/ Goto(c, "listening", FALSE, cause[c])
     \/ Goto(c, "stopping", TRUE, cause[c])

\* The finally of run_session: _stop_listen_pumps, then bus.aclose().  A
\* CancelledError in the first skips the second.
PumpsStopped(c) ==
  /\ Resumes(c, "stopping")
  /\ CloseBus(c, raised[c], cause[c])

StoppingCancelled(c) ==
  /\ Raises(c, "stopping")
  /\ Goto(c, "providers", TRUE, cause[c])

BusClosed(c) ==
  /\ Resumes(c, "closing")
  /\ Goto(c, "providers", raised[c], cause[c])

ClosingCancelled(c) ==
  /\ Raises(c, "closing")
  /\ Goto(c, "providers", TRUE, cause[c])

\* The finally of _run closes the per-call clients.
ProvidersClosed(c) ==
  /\ Resumes(c, "providers")
  /\ Finalize(c, raised[c], IF raised[c] THEN "manual" ELSE "none")

ProvidersCancelled(c) ==
  /\ Raises(c, "providers")
  /\ Finalize(c, TRUE, "manual")

\* Mutant: main takes the session out of the registry as it returns.
MainReturnsUnregisters(c) ==
  /\ main[c] = "finalizing"
  /\ proc # "exited"
  /\ cancel[c] \/ fin[c] = "done"
  /\ main' = [main EXCEPT ![c] = "done"]
  /\ cancel' = [cancel EXCEPT ![c] = FALSE]
  /\ registered' = registered \ {c}
  /\ UNCHANGED <<req, dialer, raised, cause, bus, mailbox, hangups, told, finVars, procVars>>

\* Mutant: finalize_session is awaited without asyncio.shield.
MainReturnsUnshielded(c) ==
  /\ main[c] = "finalizing"
  /\ proc # "exited"
  /\ cancel[c] \/ fin[c] = "done"
  /\ main' = [main EXCEPT ![c] = "done"]
  /\ cancel' = [cancel EXCEPT ![c] = FALSE]
  /\ fin' = [fin EXCEPT ![c] = IF @ = "done" THEN @ ELSE "killed"]
  /\ UNCHANGED <<callVars, raised, cause, bus, mailbox, hangups, told, attempt, recorded,
                 applied, counter, faults, procVars>>

\* main awaits the shielded finalizer.  A CancelledError is not an Exception,
\* so it ends main at once and leaves the finalizer running.
MainReturns(c) ==
  /\ main[c] = "finalizing"
  /\ proc # "exited"
  /\ cancel[c] \/ fin[c] = "done"
  /\ main' = [main EXCEPT ![c] = "done"]
  /\ cancel' = [cancel EXCEPT ![c] = FALSE]
  /\ UNCHANGED <<callVars, raised, cause, bus, mailbox, hangups, told, finVars, procVars>>

-----------------------------------------------------------------------------
\* finalize_session.

Capture(c) ==
  /\ fin[c] = "capture"
  /\ LET cz == IF cause[c] = "none" THEN "normal" ELSE cause[c]
     IN  /\ recorded' = [recorded EXCEPT ![c] = cz]
         /\ cause' = [cause EXCEPT ![c] = cz]
  /\ fin' = [fin EXCEPT ![c] = "persist"]
  /\ UNCHANGED <<callVars, main, cancel, raised, bus, mailbox, hangups, told, attempt,
                 applied, counter, faults, procVars>>

\* What follows a step.  The extract task is pushed only for a call that has an
\* extractor and a dialog.
After(s) ==
  CASE s = "persist" -> {"extract", "ended"}
    [] s = "extract" -> {"ended"}
    [] s = "ended"   -> {"decr"}
    [] s = "decr"    -> {"unregister"}

\* Mutant: the decrement is clamped, one too high.
TakesEffectClamped(c, s) ==
  /\ applied' = [applied EXCEPT ![c][s] = @ + 1]
  /\ counter' = IF s = "decr" /\ counter # 1 THEN counter - 1 ELSE counter

\* The step takes effect once more; DECR changes the counter.
TakesEffect(c, s) ==
  /\ applied' = [applied EXCEPT ![c][s] = @ + 1]
  /\ counter' = IF s = "decr" THEN counter - 1 ELSE counter

Proceed(c, s) ==
  /\ \E n \in After(s) : fin' = [fin EXCEPT ![c] = n]
  /\ attempt' = [attempt EXCEPT ![c] = 1]

\* Mutant: a negative counter is not repaired.
StepSucceedsNoSnap(c, s) ==
  /\ fin[c] = s
  /\ TakesEffect(c, s)
  /\ Proceed(c, s)
  /\ UNCHANGED <<callVars, mainVars, recorded, faults, procVars>>

\* One attempt of a step succeeds.  A DECR below zero is followed by a SET 0 in
\* the same attempt.
StepSucceeds(c, s) ==
  /\ fin[c] = s
  /\ TakesEffect(c, s)
  /\ IF s = "decr" /\ counter - 1 < 0
     THEN fin' = [fin EXCEPT ![c] = "snap"] /\ UNCHANGED attempt
     ELSE Proceed(c, s)
  /\ UNCHANGED <<callVars, mainVars, recorded, faults, procVars>>

\* After a failed attempt the step is tried again, MaxRetries times in all,
\* and then given up.
RetryOrGiveUp(c, s) ==
  IF attempt[c] < MaxRetries
  THEN /\ fin' = [fin EXCEPT ![c] = s]
       /\ attempt' = [attempt EXCEPT ![c] = @ + 1]
  ELSE Proceed(c, s)

\* One attempt raises, before or ("ambiguous") after it took effect.
StepFails(c, s, kind) ==
  /\ fin[c] = s
  /\ faults < MaxFaults
  /\ faults' = faults + 1
  /\ IF kind = "ambiguous" THEN TakesEffect(c, s) ELSE UNCHANGED <<applied, counter>>
  /\ RetryOrGiveUp(c, s)
  /\ UNCHANGED <<callVars, mainVars, recorded, procVars>>

\* SET 0.  If it raises, the whole attempt is repeated, the DECR included.
SnapToZero(c) ==
  /\ fin[c] = "snap"
  /\ counter' = 0
  /\ Proceed(c, "decr")
  /\ UNCHANGED <<callVars, mainVars, recorded, applied, faults, procVars>>

SnapFails(c, kind) ==
  /\ fin[c] = "snap"
  /\ faults < MaxFaults
  /\ faults' = faults + 1
  /\ counter' = IF kind = "ambiguous" THEN 0 ELSE counter
  /\ RetryOrGiveUp(c, "decr")
  /\ UNCHANGED <<callVars, mainVars, recorded, applied, procVars>>

Unregister(c) ==
  /\ fin[c] = "unregister"
  /\ registered' = registered \ {c}
  /\ fin' = [fin EXCEPT ![c] = "done"]
  /\ UNCHANGED <<req, dialer, mainVars, attempt, recorded, applied, counter, faults, procVars>>

-----------------------------------------------------------------------------
\* SIGTERM and the finally of _main.

\* The dial and control loops are cancelled and awaited.  A request that
\* dial_loop was handling is dropped.
RequestStop ==
  /\ proc = "up"
  /\ proc' = "stopping"
  /\ dialer' = NoCall
  /\ req' = [c \in Calls |-> IF dialer = c THEN "lost" ELSE req[c]]
  /\ UNCHANGED <<registered, mainVars, finVars, waiting, timedOut>>

CancelMains(cs) ==
  cancel' = [c \in Calls |-> cancel[c] \/ (c \in cs /\ main[c] # "done")]

\* cancel_all cancels the tasks of every registered session and gathers them.
CancelAll ==
  /\ proc = "stopping"
  /\ proc' = "gathering"
  /\ waiting' = registered
  /\ CancelMains(registered)
  /\ UNCHANGED <<callVars, main, raised, cause, bus, mailbox, hangups, told, finVars, timedOut>>

\* The timeout cancels the gather, and so every task in it once more.  The
\* gather still returns only when all of them are done.
GatherTimeout ==
  /\ proc = "gathering"
  /\ ~timedOut
  /\ timedOut' = TRUE
  /\ CancelMains(waiting)
  /\ UNCHANGED <<callVars, main, raised, cause, bus, mailbox, hangups, told, finVars, proc,
                 waiting>>

\* Mutant: the timeout ends the gather although tasks are still running.
GatherAbandons ==
  /\ proc = "gathering"
  /\ timedOut \/ \A c \in waiting : main[c] = "done"
  /\ proc' = "closing"
  /\ UNCHANGED <<callVars, mainVars, finVars, waiting, timedOut>>

GatherReturns ==
  /\ proc = "gathering"
  /\ \A c \in waiting : main[c] = "done"
  /\ proc' = "closing"
  /\ UNCHANGED <<callVars, mainVars, finVars, waiting, timedOut>>

\* The gRPC server stops, the publisher drains, redis and the database close,
\* and asyncio.run cancels every task that is left.
ExitProcess ==
  /\ proc = "closing"
  /\ proc' = "exited"
  /\ fin' = [c \in Calls |-> IF fin[c] \in {"none", "done"} THEN fin[c] ELSE "killed"]
  /\ UNCHANGED <<callVars, mainVars, attempt, recorded, applied, counter, faults, waiting, timedOut>>

-----------------------------------------------------------------------------
Dialing(c) == Pop(c) \/ DeadLetter(c) \/ DeadLetterFails(c) \/ StartCall(c)

MainStep(c) ==
  \/ EnterRunSession(c) \/ PreambleFails(c) \/ PreambleCancelled(c)
  \/ Connected(c) \/ NotConnected(c) \/ DialRaises(c) \/ DialCancelled(c)
  \/ Speak(c) \/ Spoken(c) \/ ConversationEnds(c) \/ ConversationRaises(c)
  \/ ListeningCancelled(c) \/ SpeakingCancelled(c)
  \/ PumpsStopped(c) \/ StoppingCancelled(c)
  \/ BusClosed(c) \/ ClosingCancelled(c)
  \/ ProvidersClosed(c) \/ ProvidersCancelled(c)
  \/ MainReturns(c)

FinalizerStep(c) ==
  \/ Capture(c)
  \/ \E s \in Steps : StepSucceeds(c, s) \/ \E k \in FaultKinds : StepFails(c, s, k)
  \/ SnapToZero(c) \/ \E k \in FaultKinds : SnapFails(c, k)
  \/ Unregister(c)

Shutdown == RequestStop \/ CancelAll \/ GatherTimeout \/ GatherReturns \/ ExitProcess

Next ==
  \/ \E c \in Calls : \/ Schedule(c) \/ Dialing(c)
                      \/ ManualHangup(c) \/ Terminate(c)
                      \/ MainStep(c) \/ FinalizerStep(c)
  \/ Shutdown

\* The event loop runs every task that is ready, the awaits outside the
\* conversation end (they are bounded by timeouts or local), and Redis and the
\* database answer.  _stop_listen_pumps is excepted: it gathers the ASR pump
\* without a timeout, and the pump need not end (StopEndsPump in AsrStream).
\* Nothing is assumed of the scheduler, the operator, the customer or SIGTERM.
Fairness ==
  \A c \in Calls : /\ WF_vars(MainStep(c) /\ main[c] \notin Live \union {"stopping"})
                   /\ WF_vars(ListeningCancelled(c))
                   /\ WF_vars(FinalizerStep(c))

Spec == Init /\ [][Next]_vars

FairSpec == Spec /\ Fairness

-----------------------------------------------------------------------------
\* Properties.

HoldsSlot(c) ==
  c \notin Unscheduled /\ req[c] # "idle" /\ applied[c]["decr"] = 0

Slots == {c \in Calls : HoldsSlot(c)}

\* A DECR that took effect although it raised was repeated.
OverReleased ==
  \E c \in Calls : applied[c]["decr"] > (IF c \in Unscheduled THEN 0 ELSE 1)

\* The concurrency counter is the number of scheduled requests whose slot has
\* not been given back, whatever happens to the calls: rejected or lost
\* requests, hangups at any await, retried finalizers, shutdown; as long as no
\* slot was given back twice.
SlotAccounting == ~OverReleased => counter = Cardinality(Slots)

\* A session leaves the registry only when its record is written, CallEnded is
\* pushed and the slot is given back, and nothing is done twice except by an
\* attempt that raised after it took effect; until then a hangup or a shutdown
\* still finds it.  With MaxRetries failing attempts a step may be given up.
SettledOnce ==
  \A c \in Calls : req[c] = "session" =>
    /\ \A s \in Steps : applied[c][s] <= 1 + faults
    /\ c \notin registered /\ faults < MaxRetries =>
         \A s \in {"persist", "ended", "decr"} : applied[c][s] >= 1

\* CallEnded reports a hangup command that reached main before the finalizer
\* composed it, whatever else had named a cause by then or ends the unwinding
\* afterwards, unless main took the command for a barge-in and went on; and it
\* reports a manual hangup only of calls with such a command, or in a shutdown.
ManualCauseReported ==
  \A c \in Calls :
    /\ told[c] /\ recorded[c] # "none" => recorded[c] = "manual"
    /\ recorded[c] = "manual" => hangups[c] > 0 \/ proc # "up"

\* When the process is gone no call is still in its conversation or unwinding:
\* every main task is done, or has only the finished finalizer to return from.
NoCallOutlivesProcess ==
  proc = "exited" =>
    \A c \in Calls : main[c] \in {"none", "done"} \/ (main[c] = "finalizing" /\ fin[c] = "done")

\* _stop_listen_pumps does not return.
PumpsHang(c) == [](main[c] = "stopping")

\* Every call that leaves its conversation is settled: its main task returns, the
\* session leaves the registry, and the slot has been given back or a step was
\* given up after MaxRetries attempts; however often main is cancelled on the way
\* out, unless its pumps hang or the process exits first.
EndedCallsSettle ==
  \A c \in Calls : main[c] \in Unwinding ~>
    \/ /\ main[c] = "done"
       /\ c \notin registered
       /\ applied[c]["decr"] >= 1 \/ faults >= MaxRetries
    \/ PumpsHang(c)
    \/ proc = "exited"

\* A hangup that finds the call listening, dialing or loading ends it, unless its
\* pumps hang or the process exits first.
HangupEndsListening ==
  \A c \in Calls : cancel[c] /\ main[c] \in {"preamble", "dialing", "listening"}
                     ~> (main[c] = "done" \/ PumpsHang(c) \/ proc = "exited")

\* With unscheduled calls, and with attempts that take effect although they
\* raise, the counter may run low but never shows a slot nobody holds; and it
\* is negative only while a finalizer is between its DECR and its SET 0, or if
\* the process died there, or if a step was given up.
CounterRepaired ==
  /\ counter <= Cardinality(Slots)
  /\ counter < 0 =>
       faults >= MaxRetries \/ \E c \in Calls : fin[c] \in {"snap", "decr", "killed"}

-----------------------------------------------------------------------------
\* Claims of the repository's comments that are stronger than what the code
\* does: each is violated in this model.

\* A hangup command ends the call: once the cancel has been raised, main is no
\* longer in the conversation.
HangupUnwinds ==
  \A c \in Calls : cause[c] = "manual" /\ main[c] \in Live => cancel[c]

\* Every session has been finalized when the process exits (no timeout fired).
ShutdownFinalizes ==
  proc = "exited" /\ ~timedOut =>
    \A c \in Calls : req[c] = "session" =>
      applied[c]["ended"] >= 1 /\ applied[c]["decr"] >= 1

\* The shutdown is bounded by its timeout: once it has fired and every
\* cancellation has been raised, no session is still in its conversation.
ShutdownBounded ==
  timedOut => \A c \in waiting : main[c] \in Live => cancel[c]

\* A call that is over has no bus left running.
BusTornDown == \A c \in Calls : main[c] = "done" => bus[c] # "running"

\* A finalized session has given its slot back.
FinalizedReleases ==
  \A c \in Calls : fin[c] = "done" => applied[c]["decr"] >= 1
=============================================================================
