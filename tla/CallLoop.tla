------------------------------ MODULE CallLoop ------------------------------
(***************************************************************************)
(* One conversation: the greeting, _main_turn_loop with its silence ladder, *)
(* the gate-first turn, streaming playback, wrap-up, restructure and        *)
(* handoff, and the partial monitor that barges in on it (run_loop.py).     *)
(*                                                                          *)
(* main is a program counter over the awaits it can be suspended in; every  *)
(* step is a stretch between two awaits.  The customer, the ASR and the     *)
(* models answer with whatever they like: a partial is only its verdict, a  *)
(* final only the era it was spoken in, a referee vote only the route.      *)
(* Hangup commands and shutdown, which cancel main, are in CallLifecycle.   *)
(***************************************************************************)
EXTENDS Integers

CONSTANTS
  MaxActivations,   \* silence.max_activations
  MaxInterruptions, \* _max_continuous_interruptions
  ListenOnly,       \* the continuous-interruption strategy is LISTEN_ONLY
  AutoRestructure,  \* auto_restructure_on_interrupt, with a restructure slot
  MaxRestructures,  \* max_continuous_restructure
  TransferLlm,      \* transfer.intent_enabled or transfer.llm_enabled
  WrapUpReferee,    \* wrap_up.referee_enabled
  MaxRounds,        \* wrap_up.max_rounds
  MaxUtterances,    \* bound: utterances of the customer
  MaxPartials       \* bound: partials that trigger the interruption rule

ASSUME LoopAssumption ==
  /\ MaxActivations \in Nat
  /\ MaxInterruptions \in Nat \ {0}
  /\ MaxRestructures \in Nat
  /\ MaxRounds \in Nat \ {0}
  /\ {ListenOnly, AutoRestructure, TransferLlm, WrapUpReferee} \subseteq BOOLEAN
  /\ MaxUtterances \in Nat
  /\ MaxPartials \in Nat

VARIABLES
  pc,            \* the await main is suspended in
  speech,        \* what main is saying, or "none"
  task,          \* the audio_out task main awaits in _play_chunks
  route,         \* the route selected by the gate, while it matters
  signaled,      \* session.interruption_signaled
  signaledIn,    \* history: the await main was in when it was set
  hungup,        \* hangup_event
  uttering,      \* the era of the utterance the ASR has not finalised yet
  finals,        \* asr_finals_q, by era
  heard,         \* history: finals put into asr_finals_q after the greeting
  answered,      \* history: finals taken from it by the main loop
  late,          \* history: rounds of listening answered after the hangup
  fsm,           \* session.state
  inWrapUp,      \* session.in_wrap_up
  rounds,        \* session.wrap_up_round_count
  silences,      \* session.silence_activation_count
  interruptions, \* session.consecutive_interruption_count
  restructures,  \* session.consecutive_restructure_count
  remainder,     \* session.interrupt_remaining_text, by what happened to it
  spoken,        \* utterances so far
  partials       \* triggering partials so far

customerVars == <<hungup, uttering, finals, heard, spoken, partials>>
sayVars      == <<pc, speech, task, route>>
counterVars  == <<rounds, silences, interruptions, restructures>>
signalVars   == <<signaled, signaledIn>>
historyVars  == <<answered, late>>
vars == <<sayVars, signalVars, customerVars, historyVars, fsm, inWrapUp, counterVars, remainder>>

\* Replies are streamed sentence by sentence, everything else is one playback.
Replies == {"reply", "closing", "restructure", "wrap_up_reply"}
Phrases == {"activation", "silence_hangup", "cue", "default_reply",
            "farewell", "handoff", "goodbye"}

Routes == {"main", "closing", "hangup", "transfer", "restructure"}

Eras == {"greeting", "call"}

TypeOK ==
  /\ pc \in {"greeting", "listen", "got", "coalesce", "elapsed", "gate", "detect",
             "sentence", "play", "referee", "hanging_up", "done"}
  /\ speech \in Replies \union Phrases \union {"none"}
  /\ task \in {"none", "running", "finished", "cancelled"}
  /\ route \in Routes \union {"none"}
  /\ signaled \in BOOLEAN
  /\ signaledIn \in {"none", "gate", "play"}
  /\ hungup \in BOOLEAN
  /\ uttering \in Eras \union {"none"}
  /\ finals \in [Eras -> Nat]
  /\ heard \in Nat
  /\ answered \in Nat
  /\ late \in Nat
  /\ fsm \in {"in_call", "transferring", "end"}
  /\ inWrapUp \in BOOLEAN
  /\ rounds \in Nat
  /\ silences \in Nat
  /\ interruptions \in Nat
  /\ restructures \in Nat
  /\ remainder \in {"none", "fresh", "aborted", "capped"}
  /\ spoken \in Nat
  /\ partials \in Nat

\* run_session has connected the call, started the pumps and begun the greeting.
Init ==
  /\ pc = "greeting"
  /\ speech = "none"
  /\ task = "none"
  /\ route = "none"
  /\ signaled = FALSE
  /\ signaledIn = "none"
  /\ hungup = FALSE
  /\ uttering = "none"
  /\ finals = [e \in Eras |-> 0]
  /\ heard = 0
  /\ answered = 0
  /\ late = 0
  /\ fsm = "in_call"
  /\ inWrapUp = FALSE
  /\ rounds = 0
  /\ silences = 0
  /\ interruptions = 0
  /\ restructures = 0
  /\ remainder = "none"
  /\ spoken = 0
  /\ partials = 0

-----------------------------------------------------------------------------
\* The customer, through the ASR and event pumps.

Utter ==
  /\ uttering = "none"
  /\ ~hungup
  /\ spoken < MaxUtterances
  /\ spoken' = spoken + 1
  /\ uttering' = IF pc = "greeting" THEN "greeting" ELSE "call"
  /\ UNCHANGED <<sayVars, signalVars, hungup, finals, heard, partials, historyVars,
                 fsm, inWrapUp, counterVars, remainder>>

\* The vendor's final arrives, over the bus, in asr_finals_q.
AsrFinal ==
  /\ uttering # "none"
  /\ uttering' = "none"
  /\ finals' = [finals EXCEPT ![uttering] = @ + 1]
  /\ heard' = IF uttering = "call" THEN heard + 1 ELSE heard
  /\ UNCHANGED <<sayVars, signalVars, hungup, spoken, partials, historyVars, fsm,
                 inWrapUp, counterVars, remainder>>

HangupDetected ==
  /\ ~hungup
  /\ hungup' = TRUE
  /\ UNCHANGED <<sayVars, signalVars, uttering, finals, heard, spoken, partials,
                 historyVars, fsm, inWrapUp, counterVars, remainder>>

-----------------------------------------------------------------------------
\* _partial_monitor, on a partial that triggers the interruption rule.  The
\* others change nothing.

InProcessingTurn == pc = "gate"

\* current_speaking_task: _play_chunks sets it unless interruptible is False.
SpeakingTask == pc = "play" /\ speech # "cue"

Partial ==
  /\ pc \notin {"greeting", "done"}
  /\ partials < MaxPartials
  /\ partials' = partials + 1
  /\ IF (InProcessingTurn \/ SpeakingTask) /\ ~signaled
     THEN /\ signaled' = TRUE
          /\ signaledIn' = pc
          /\ task' = IF SpeakingTask /\ task = "running" THEN "cancelled" ELSE task
     ELSE UNCHANGED <<signalVars, task>>
  /\ UNCHANGED <<pc, speech, route, hungup, uttering, finals, heard, spoken,
                 historyVars, fsm, inWrapUp, counterVars, remainder>>

-----------------------------------------------------------------------------
\* Playback.

\* _play_tts, up to the await of the playback task in _play_chunks.
Say(phrase) ==
  /\ pc' = "play"
  /\ speech' = phrase
  /\ task' = "running"
  /\ route' = "none"

\* _play_streaming, waiting for the first sentence.
Stream(reply) ==
  /\ pc' = "sentence"
  /\ speech' = reply
  /\ task' = "none"
  /\ route' = "none"

Listen ==
  /\ pc' = "listen"
  /\ speech' = "none"
  /\ task' = "none"
  /\ route' = "none"

\* transition_to(END), and the loop returns.
End ==
  /\ pc' = "done"
  /\ speech' = "none"
  /\ task' = "none"
  /\ route' = "none"
  /\ fsm' = "end"

\* audio_out returns in the playback task; main has not run yet.
AudioOut ==
  /\ pc = "play"
  /\ task = "running"
  /\ task' = "finished"
  /\ UNCHANGED <<pc, speech, route, signalVars, customerVars, historyVars, fsm,
                 inWrapUp, counterVars, remainder>>

\* main resumes from a playback: in full, or cancelled by the monitor.
Played(what) == pc = "play" /\ speech = what /\ task = "finished"

Cut(what) == pc = "play" /\ speech = what /\ task = "cancelled"

\* The producer hands over the next synthesised sentence.
NextSentence ==
  /\ pc = "sentence"
  /\ pc' = "play"
  /\ task' = "running"
  /\ UNCHANGED <<speech, route, signalVars, customerVars, historyVars, fsm, inWrapUp,
                 counterVars, remainder>>

SentencePlayed ==
  /\ \E r \in Replies : Played(r)
  /\ pc' = "sentence"
  /\ task' = "none"
  /\ UNCHANGED <<speech, route, signalVars, customerVars, historyVars, fsm, inWrapUp,
                 counterVars, remainder>>

\* _play_streaming returns fully_played: the stream is exhausted, or a playback
\* error ended it.
StreamEnds(reply) ==
  /\ speech = reply
  /\ \/ pc = "sentence"
     \/ pc = "play" /\ task = "running"

\* Barge-in on a reply.  The unspoken rest is kept, except for a restructured
\* one, and the interruption is counted and acknowledged.
BargeIn ==
  /\ \E r \in Replies :
       /\ Cut(r)
       /\ remainder' = IF r = "restructure" THEN remainder ELSE "fresh"
       /\ restructures' = IF r = "restructure" THEN restructures + 1 ELSE restructures
  /\ Listen
  /\ signaled' = FALSE
  /\ interruptions' = interruptions + 1
  /\ UNCHANGED <<signaledIn, customerVars, historyVars, fsm, inWrapUp, rounds, silences>>

-----------------------------------------------------------------------------
\* The greeting, then _drain_greeting_era_asr and the main loop.

GreetingDone ==
  /\ pc = "greeting"
  /\ Listen
  /\ finals' = [e \in Eras |-> 0]
  /\ UNCHANGED <<signalVars, hungup, uttering, heard, spoken, partials, historyVars,
                 fsm, inWrapUp, counterVars, remainder>>

-----------------------------------------------------------------------------
\* _await_user_or_silence and the branches of _main_turn_loop on its outcome.

\* Mutant: the get of the next final is tried before the hangup is.
AsrGetFirst ==
  /\ pc = "listen"
  /\ \E e \in Eras : finals[e] > 0
  /\ pc' = "got"
  /\ UNCHANGED <<speech, task, route, signalVars, customerVars, historyVars, fsm,
                 inWrapUp, counterVars, remainder>>

\* asr_get completes, with no hangup before it; main is yet to resume from
\* asyncio.wait.  The final it holds is still counted in finals.
AsrGet ==
  /\ pc = "listen"
  /\ ~hungup
  /\ \E e \in Eras : finals[e] > 0
  /\ pc' = "got"
  /\ UNCHANGED <<speech, task, route, signalVars, customerVars, historyVars, fsm,
                 inWrapUp, counterVars, remainder>>

\* main resumes without hangup_wait in done: there was no hangup, or it came too
\* late for hangup_wait to have run.  hangup_wait is cancelled and awaited before
\* the backlog is taken.
FinalWakes ==
  /\ pc = "got"
  /\ pc' = "coalesce"
  /\ UNCHANGED <<speech, task, route, signalVars, customerVars, historyVars, fsm,
                 inWrapUp, counterVars, remainder>>

\* main resumes with hangup_wait in done, which wins over a final: the one that
\* asr_get had taken is dropped.
RemoteHangup ==
  /\ pc \in {"listen", "got"}
  /\ hungup
  /\ End
  /\ \/ pc = "listen" /\ UNCHANGED finals
     \/ \E e \in Eras : finals[e] > 0 /\ finals' = [finals EXCEPT ![e] = @ - 1]
  /\ UNCHANGED <<signalVars, hungup, uttering, heard, spoken, partials, historyVars,
                 inWrapUp, counterVars, remainder>>

\* The timer of asyncio.wait fires, with no final and no hangup before it; main
\* is yet to resume, and what comes now it does not see in this round.
SilenceElapses ==
  /\ pc = "listen"
  /\ ~hungup
  /\ \A e \in Eras : finals[e] = 0
  /\ pc' = "elapsed"
  /\ UNCHANGED <<speech, task, route, signalVars, customerVars, historyVars, fsm,
                 inWrapUp, counterVars, remainder>>

\* A round of listening is answered, whether or not the customer is still there.
Answer == late' = IF hungup THEN late + 1 ELSE late

\* Mutant: the abandoned asr_finals_q.get() takes the final with it.
SilenceTimeoutTakesFinal ==
  /\ pc = "elapsed"
  /\ ~inWrapUp
  /\ silences < MaxActivations
  /\ Say("activation")
  /\ Answer
  /\ finals' = [finals EXCEPT !["call"] = 0]
  /\ UNCHANGED <<signalVars, hungup, uttering, heard, spoken, partials, answered,
                 fsm, inWrapUp, counterVars, remainder>>

\* evaluate_silence after a listening window without a final.  A final that
\* arrives as the window ends stays in the queue.
SilenceTimeout ==
  /\ pc = "elapsed"
  /\ Answer
  /\ \/ /\ inWrapUp
        /\ End
     \/ /\ ~inWrapUp
        /\ silences < MaxActivations
        /\ Say("activation")
        /\ UNCHANGED fsm
     \/ /\ ~inWrapUp
        /\ silences >= MaxActivations
        /\ \/ Say("silence_hangup") /\ UNCHANGED fsm
           \/ End
  /\ UNCHANGED <<signalVars, customerVars, answered, inWrapUp, counterVars, remainder>>

\* Mutant: the activation is not counted.
ActivationUncounted ==
  /\ Played("activation") \/ Cut("activation")
  /\ Listen
  /\ UNCHANGED <<signalVars, customerVars, historyVars, fsm, inWrapUp, counterVars, remainder>>

ActivationSaid ==
  /\ Played("activation") \/ Cut("activation")
  /\ Listen
  /\ silences' = silences + 1
  /\ UNCHANGED <<signalVars, customerVars, historyVars, fsm, inWrapUp, rounds,
                 interruptions, restructures, remainder>>

\* Take every queued final at once.
TakeFinals ==
  /\ pc = "coalesce"
  /\ finals' = [e \in Eras |-> 0]
  /\ answered' = answered + finals["call"]
  /\ Answer
  /\ UNCHANGED <<hungup, uttering, heard, spoken, partials>>

\* Empty or whitelisted input.
IgnoreFinals ==
  /\ TakeFinals
  /\ Listen
  /\ UNCHANGED <<signalVars, fsm, inWrapUp, counterVars, remainder>>

\* _perform_handoff, up to its first await.
Handoff(phrase) ==
  /\ fsm' = "transferring"
  /\ IF phrase THEN Say("handoff")
     ELSE /\ pc' = "hanging_up"
          /\ speech' = "none"
          /\ task' = "none"
          /\ route' = "none"

CheapTransfer ==
  /\ TakeFinals
  /\ Handoff(TRUE) \/ Handoff(FALSE)
  /\ UNCHANGED <<signalVars, inWrapUp, counterVars, remainder>>

\* _decide_protection.
Protected == interruptions >= MaxInterruptions /\ ListenOnly

ListenOnlyCue ==
  /\ TakeFinals
  /\ Protected
  /\ Say("cue")
  /\ UNCHANGED <<signalVars, fsm, inWrapUp, counterVars, remainder>>

CueSaid ==
  /\ Played("cue")
  /\ Listen
  /\ interruptions' = 0
  /\ UNCHANGED <<signalVars, customerVars, historyVars, fsm, inWrapUp, rounds,
                 silences, restructures, remainder>>

\* _run_gated_turn spawns the candidates and awaits the referees; in wrap-up
\* _gated_wrap_up_turn streams its reply at once.
BeginTurn ==
  /\ TakeFinals
  /\ ~Protected
  /\ IF inWrapUp
     THEN Stream("wrap_up_reply")
     ELSE /\ pc' = "gate"
          /\ UNCHANGED <<speech, task, route>>
  /\ UNCHANGED <<signalVars, fsm, inWrapUp, counterVars, remainder>>

-----------------------------------------------------------------------------
\* The gate of _run_gated_turn.

Aged(r, how) == IF r = "none" THEN "none" ELSE how

\* An interruption was signaled: drop the turn before any audio.
ThinkingAbort ==
  /\ pc = "gate"
  /\ signaled
  /\ Listen
  /\ signaled' = FALSE
  /\ interruptions' = interruptions + 1
  /\ remainder' = Aged(remainder, "aborted")
  /\ UNCHANGED <<signaledIn, customerVars, historyVars, fsm, inWrapUp, rounds,
                 silences, restructures>>

\* decide() and the filler-gated override.  A vote for the reserved FILLER
\* category (filler) never matches a routing rule, so it leaves "main".
Selected(vote, filler) ==
  IF filler /\ vote = "main" /\ AutoRestructure /\ remainder # "none"
  THEN "restructure"
  ELSE vote

\* The remainder is abandoned when the barge-in is answered instead.
RemainderAfter(sel) ==
  IF sel # "restructure" /\ AutoRestructure THEN "none" ELSE remainder

\* The referees have voted, or timed out, which fails open to "main".  Without
\* a transfer detector the next stretch does not suspend.
GateResolves ==
  /\ pc = "gate"
  /\ ~signaled
  /\ \E vote \in Routes \ {"restructure"}, filler \in BOOLEAN :
       /\ route' = Selected(vote, filler)
       /\ remainder' = RemainderAfter(Selected(vote, filler))
  /\ pc' = "detect"
  /\ UNCHANGED <<speech, task, signalVars, customerVars, historyVars, fsm, inWrapUp,
                 counterVars>>

\* _resolve_transfer_llm: the parallel detector overrules any other route.
DetectorTransfers ==
  /\ pc = "detect"
  /\ TransferLlm
  /\ route # "transfer"
  /\ Handoff(TRUE) \/ Handoff(FALSE)
  /\ UNCHANGED <<signalVars, customerVars, historyVars, inWrapUp, counterVars, remainder>>

RouteHangup ==
  /\ pc = "detect"
  /\ route = "hangup"
  /\ \/ Say("farewell") /\ UNCHANGED fsm
     \/ End
  /\ UNCHANGED <<signalVars, customerVars, historyVars, inWrapUp, counterVars, remainder>>

RouteTransfer ==
  /\ pc = "detect"
  /\ route = "transfer"
  /\ Handoff(FALSE)
  /\ UNCHANGED <<signalVars, customerVars, historyVars, inWrapUp, counterVars, remainder>>

\* The cap on restructures: a default reply instead, and the remainder stays.
RouteRestructureCapped ==
  /\ pc = "detect"
  /\ route = "restructure"
  /\ restructures >= MaxRestructures
  /\ remainder' = Aged(remainder, "capped")
  /\ \/ Say("default_reply") /\ UNCHANGED restructures
     \/ Listen /\ restructures' = 0
  /\ UNCHANGED <<signalVars, customerVars, historyVars, fsm, inWrapUp, rounds,
                 silences, interruptions>>

DefaultReplySaid ==
  /\ Played("default_reply") \/ Cut("default_reply")
  /\ Listen
  /\ restructures' = 0
  /\ UNCHANGED <<signalVars, customerVars, historyVars, fsm, inWrapUp, rounds,
                 silences, interruptions, remainder>>

\* _assemble_interrupt_text takes the remainder and clears it.
RouteRestructure ==
  /\ pc = "detect"
  /\ route = "restructure"
  /\ restructures < MaxRestructures
  /\ Stream("restructure")
  /\ remainder' = "none"
  /\ UNCHANGED <<signalVars, customerVars, historyVars, fsm, inWrapUp, counterVars>>

RestructureSaid ==
  /\ StreamEnds("restructure")
  /\ Listen
  /\ restructures' = restructures + 1
  /\ UNCHANGED <<signalVars, customerVars, historyVars, fsm, inWrapUp, rounds,
                 silences, interruptions, remainder>>

\* main, a persona or recovery; "closing" is any reply whose then_state is
\* WRAPPING_UP: it also enters wrap-up once said.
RouteDialogue ==
  /\ pc = "detect"
  /\ route \in {"main", "closing"}
  /\ Stream(IF route = "main" THEN "reply" ELSE "closing")
  /\ UNCHANGED <<signalVars, customerVars, historyVars, fsm, inWrapUp, counterVars, remainder>>

ReplySaid ==
  /\ \E r \in {"reply", "closing"} :
       /\ StreamEnds(r)
       /\ inWrapUp' = (inWrapUp \/ r = "closing")
  /\ Listen
  /\ interruptions' = 0
  /\ restructures' = 0
  /\ UNCHANGED <<signalVars, customerVars, historyVars, fsm, rounds, silences, remainder>>

-----------------------------------------------------------------------------
\* _gated_wrap_up_turn after its reply was said, and evaluate_wrap_up.  The
\* seconds cap may be reached at any round.

\* Mutant: one round too many.
EvaluateWrapUpOneMore ==
  /\ rounds' = rounds + 1
  /\ \/ rounds < MaxRounds /\ Listen
     \/ Say("goodbye")

EvaluateWrapUp ==
  /\ rounds' = rounds + 1
  /\ \/ rounds + 1 < MaxRounds /\ Listen
     \/ Say("goodbye")

WrapUpReplySaid ==
  /\ StreamEnds("wrap_up_reply")
  /\ IF WrapUpReferee
     THEN /\ pc' = "referee"
          /\ speech' = "none"
          /\ task' = "none"
          /\ UNCHANGED <<route, rounds>>
     ELSE EvaluateWrapUp
  /\ UNCHANGED <<signalVars, customerVars, historyVars, fsm, inWrapUp, silences,
                 interruptions, restructures, remainder>>

\* The bypass referee: only an explicit "no question" ends the call.
WrapUpVerdict ==
  /\ pc = "referee"
  /\ \/ End /\ UNCHANGED rounds
     \/ EvaluateWrapUp /\ UNCHANGED fsm
  /\ UNCHANGED <<signalVars, customerVars, historyVars, inWrapUp, silences,
                 interruptions, restructures, remainder>>

\* The phrases said before hanging up, cut short or not.
LastWordsSaid ==
  /\ \E w \in {"silence_hangup", "farewell", "goodbye"} : Played(w) \/ Cut(w)
  /\ End
  /\ UNCHANGED <<signalVars, customerVars, historyVars, inWrapUp, counterVars, remainder>>

HandoffSaid ==
  /\ Played("handoff") \/ Cut("handoff")
  /\ pc' = "hanging_up"
  /\ speech' = "none"
  /\ task' = "none"
  /\ UNCHANGED <<route, signalVars, customerVars, historyVars, fsm, inWrapUp,
                 counterVars, remainder>>

\* Mutant: a handoff that could not hang up resumes the conversation.
HandoffResumes ==
  /\ pc = "hanging_up"
  /\ Listen
  /\ fsm' = "in_call"
  /\ UNCHANGED <<signalVars, customerVars, historyVars, inWrapUp, counterVars, remainder>>

\* _attempt_hangup returns, whether or not the telephony client raised.
HandoffEnds ==
  /\ pc = "hanging_up"
  /\ End
  /\ UNCHANGED <<signalVars, customerVars, historyVars, inWrapUp, counterVars, remainder>>

\* An exception outside a streamed reply ends the call in run_session.
EngineError ==
  /\ pc # "done"
  /\ End
  /\ UNCHANGED <<signalVars, customerVars, historyVars, inWrapUp, counterVars, remainder>>

-----------------------------------------------------------------------------
Customer == Utter \/ AsrFinal \/ HangupDetected \/ Partial

ListenStep ==
  \/ GreetingDone
  \/ RemoteHangup \/ SilenceElapses \/ SilenceTimeout \/ ActivationSaid
  \/ AsrGet \/ FinalWakes \/ IgnoreFinals \/ CheapTransfer \/ ListenOnlyCue \/ CueSaid \/ BeginTurn

TurnStep ==
  \/ ThinkingAbort \/ GateResolves \/ DetectorTransfers
  \/ RouteHangup \/ RouteTransfer
  \/ RouteRestructureCapped \/ DefaultReplySaid \/ RouteRestructure \/ RestructureSaid
  \/ RouteDialogue \/ ReplySaid
  \/ WrapUpReplySaid \/ WrapUpVerdict
  \/ LastWordsSaid \/ HandoffSaid \/ HandoffEnds

PlayStep == AudioOut \/ NextSentence \/ SentencePlayed \/ BargeIn

Main == ListenStep \/ TurnStep \/ PlayStep

Next == Customer \/ Main \/ EngineError

\* What the telephony client need not bring to an end: a playback after the
\* hangup has closed the line (the frames are no longer taken, and audio_out
\* waits for them), and hangup() itself, which is awaited without a timeout.
AwaitsTelephony ==
  \/ hungup /\ (pc = "greeting" \/ (pc = "play" /\ task = "running"))
  \/ pc = "hanging_up"

\* Otherwise main runs whenever what it awaits is ready: timers fire, a playback
\* on an open line ends, and a reply stream is finite (its generation is capped
\* by pipeline_timeout_ms).  Nothing is assumed of the customer.
Fairness ==
  /\ WF_vars(Main /\ ~AwaitsTelephony)
  /\ SF_vars((ReplySaid \/ RestructureSaid \/ WrapUpReplySaid) /\ pc = "sentence")

Spec == Init /\ [][Next]_vars

FairSpec == Spec /\ Fairness

-----------------------------------------------------------------------------
\* Properties.

Lifecycle == INSTANCE CallState WITH state <- fsm

\* Whatever the conversation does, the observable call state moves along
\* LEGAL_TRANSITIONS only (no state_warning is ever recorded): a handoff ends
\* the call, nothing returns to in_call, nothing follows END.
LegalLifecycle == [][Lifecycle!transition_to]_fsm

\* A restructured line is never re-voiced more than max_continuous_restructure
\* times in a row, barge-ins on the restructured line included.
RestructureCap == restructures <= MaxRestructures

\* Wrap-up ends after max_rounds replies: once the last round has been said no
\* turn can begin, only the goodbye and the end remain.
WrapUpBounded ==
  /\ rounds <= MaxRounds
  /\ rounds = MaxRounds => pc = "done" \/ speech = "goodbye"

\* The silence ladder is bounded over the whole call, and reaching its top
\* leaves no further activation.
LadderBounded ==
  silences + (IF speech = "activation" THEN 1 ELSE 0) <= MaxActivations

\* Every loop of the conversation that feeds itself is bounded over the whole
\* call: restructured lines, wrap-up rounds and silence activations.
ConversationBounded == RestructureCap /\ WrapUpBounded /\ LadderBounded

\* No utterance is lost between the queue and the main loop: every final put
\* into the queue after the greeting was taken or is still there, whatever
\* silence timeouts, barge-ins and aborted turns came in between, as long as
\* the call goes on.
NoFinalLost == pc # "done" => heard = answered + finals["call"]

\* The hangup can slip past the main loop once: it is set after the final, or the
\* timer, that ended the round of listening, and that round is still answered,
\* with a whole turn if need be.  The next one ends the call, even with finals
\* waiting in the queue.
OneRoundAfterHangup == late <= 1

\* The protection cue is played to its end, whatever the customer says
\* meanwhile, and so the interruption count is reset.
CueNeverCut == speech = "cue" => task # "cancelled"

\* A customer who stops talking cannot keep the call open: the silence ladder,
\* or the wrap-up window, ends it, unless the telephony client keeps main waiting
\* for a playback on a closed line or for its hangup.
QuietCallEnds == <>(pc = "done") \/ <>[]AwaitsTelephony

-----------------------------------------------------------------------------
\* Claims of the repository's comments that are stronger than what the code
\* does: each is violated in this model.

\* A turn is dropped at the gate only for an interruption that came while this
\* gate was awaited.
AbortOnlyIfThinking == pc = "gate" /\ signaled => signaledIn = "gate"

\* An interruption that has been signaled stops the playback.
SignalStopsPlayback == ~(SpeakingTask /\ signaled /\ task = "running")

\* After a turn dropped in the thinking window nothing is restructured.
AbortNeverRestructures == route = "restructure" => remainder # "aborted"

\* A remainder does not outlive the turn that could have restructured it.
CapConsumesRemainder == route = "restructure" => remainder # "capped"

\* The partial monitor listens during the whole of a reply turn.
MonitorCoversTurn ==
  pc \in {"gate", "detect", "sentence", "play"} /\ speech \in Replies \union {"none"}
    => InProcessingTurn \/ SpeakingTask

\* Nothing said during the greeting is waiting to be answered.
GreetingNeverAnswered == pc = "listen" => finals["greeting"] = 0
=============================================================================
