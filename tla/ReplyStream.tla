----------------------------- MODULE ReplyStream -----------------------------
(***************************************************************************)
(* How one turn's reply is generated, synthesised and played: the eager     *)
(* candidates of _run_gated_turn (pipeline/orchestrator.py), the            *)
(* producer/consumer pipeline of _play_streaming with its pre-synthesising  *)
(* _SynthJobs (run_loop.py), and the time-gated filler (filler_manager.py). *)
(*                                                                          *)
(* A sentence is its position in the reply.  Tokens, prompts and PCM are    *)
(* left out; the model, the TTS vendor and the telephony client may be      *)
(* arbitrarily slow and may fail.  A cancellation of main that lands while  *)
(* it awaits the filler, the producer or a candidate that it is itself      *)
(* cancelling is swallowed by the suppress(CancelledError) around that      *)
(* await: such a hangup is a stuttering step here.                          *)
(***************************************************************************)
EXTENDS Integers, Sequences, Functions, FiniteSets

CONSTANTS
  Candidates,   \* main and the opt-in personas
  Main,         \* the candidate that also stands for a non-eager stream
  Phrases,      \* campaign.filler_phrases, the blank ones left out
  JobMax,       \* maxsize of job_q
  MaxSentences, \* bound: sentences of one reply
  MaxTurns      \* bound: turns

ASSUME ReplyAssumption ==
  /\ Main \in Candidates
  /\ JobMax \in Nat \ {0}
  /\ MaxSentences \in Nat \ {0}
  /\ MaxTurns \in Nat

VARIABLES
  pc,          \* the await the turn is suspended in
  turns,       \* turns begun
  winner,      \* the candidate whose stream is played
  eager,       \* that stream replays a buffer (is_eager)
  restructure, \* that stream re-voices a remainder (is_restructure)
  gen,         \* progress of each candidate's _generate_core
  buffer,      \* sentences it has generated
  replayed,    \* _replayed_count: sentences the producer has taken
  defaulted,   \* result.used_default_reply
  producer,    \* the tts_producer task
  pending,     \* the job it has created and not yet enqueued
  jobs,        \* job_q
  current,     \* current_job
  synth,       \* the vendor stream of each sentence's _SynthJob
  played,      \* history: sentences played to their end
  firstAudio,  \* first_audio_ms is not None
  ending,      \* how the playback loop was left
  captured,    \* what is left of the reply for interrupt_remaining_text
  timer,       \* the filler_gate task
  filler,      \* the filler_play task
  used         \* session.used_filler_phrases

turnVars   == <<turns, winner, eager, restructure>>
genVars    == <<gen, buffer>>
prodVars   == <<replayed, defaulted, producer, pending>>
fillerVars == <<timer, filler, used>>
outVars    == <<played, firstAudio, ending, captured>>
vars == <<pc, turnVars, genVars, prodVars, jobs, current, synth, outVars, fillerVars>>

Sentinel == -1      \* None on job_q
Default  == 0       \* the campaign's default reply
NoJob    == -2
Sentences == Default..MaxSentences

TypeOK ==
  /\ pc \in {"idle", "gate", "get", "preempt", "play", "reap", "gone"}
  /\ turns \in 0..MaxTurns
  /\ winner \in Candidates
  /\ {eager, restructure, defaulted, firstAudio} \subseteq BOOLEAN
  /\ gen \in [Candidates -> {"none", "streaming", "fallback", "answered", "done", "cancelled"}]
  /\ buffer \in [Candidates -> 0..MaxSentences]
  /\ replayed \in 0..MaxSentences
  /\ producer \in {"none", "pulling", "putting", "over"}
  /\ pending \in Sentences \union {Sentinel, NoJob}
  /\ jobs \in Seq(Sentences \union {Sentinel})
  /\ current \in Sentences \union {NoJob}
  /\ synth \in [Sentences -> {"none", "open", "done", "failed", "closed"}]
  /\ played \in Seq(Sentences)
  /\ ending \in {"open", "complete", "interrupted", "failed", "hungup", "abandoned"}
  /\ captured \in Seq(Sentences)
  /\ timer \in {"none", "armed", "cancelled", "over"}
  /\ filler \in {"none", "playing", "over"}
  /\ used \subseteq Phrases

Init ==
  /\ pc = "idle"
  /\ turns = 0
  /\ winner = Main
  /\ eager = FALSE
  /\ restructure = FALSE
  /\ gen = [c \in Candidates |-> "none"]
  /\ buffer = [c \in Candidates |-> 0]
  /\ replayed = 0
  /\ defaulted = FALSE
  /\ producer = "none"
  /\ pending = NoJob
  /\ jobs = <<>>
  /\ current = NoJob
  /\ synth = [s \in Sentences |-> "none"]
  /\ played = <<>>
  /\ firstAudio = FALSE
  /\ ending = "open"
  /\ captured = <<>>
  /\ timer = "none"
  /\ filler = "none"
  /\ used = {}

Live(c) == gen[c] \in {"streaming", "fallback", "answered"}

-----------------------------------------------------------------------------
\* The gate of _run_gated_turn.

\* The locals of _play_streaming and the buffers of a fresh stream.
FreshLocals ==
  /\ replayed' = 0
  /\ defaulted' = FALSE
  /\ pending' = NoJob
  /\ jobs' = <<>>
  /\ current' = NoJob
  /\ synth' = [s \in Sentences |-> "none"]
  /\ played' = <<>>
  /\ firstAudio' = FALSE
  /\ ending' = "open"
  /\ captured' = <<>>

\* Every candidate starts to generate into its buffer while the referees vote.
BeginGatedTurn ==
  /\ pc = "idle"
  /\ turns < MaxTurns
  /\ turns' = turns + 1
  /\ pc' = "gate"
  /\ winner' = Main
  /\ gen' = [c \in Candidates |-> "streaming"]
  /\ buffer' = [c \in Candidates |-> 0]
  /\ eager' = TRUE
  /\ restructure' = FALSE
  /\ producer' = "none"
  /\ FreshLocals
  /\ UNCHANGED fillerVars

\* _cancel_candidates(except_id) and cancel_eager; a loser's buffer is dropped.
CancelAllBut(keep) ==
  /\ gen' = [c \in Candidates |-> IF c \in keep THEN gen[c] ELSE "cancelled"]
  /\ buffer' = [c \in Candidates |-> IF c \in keep THEN buffer[c] ELSE 0]

\* A thinking-window abort, a tool route, a handoff, a capped restructure.
GateDrops ==
  /\ pc = "gate"
  /\ CancelAllBut({})
  /\ pc' = "idle"
  /\ UNCHANGED <<turnVars, prodVars, jobs, current, synth, outVars, fillerVars>>

\* _play_streaming up to its first await: the producer and the filler timer.
StartPlayback(withFiller) ==
  /\ pc' = "get"
  /\ producer' = "pulling"
  /\ FreshLocals
  /\ timer' = IF withFiller THEN "armed" ELSE "none"
  /\ UNCHANGED <<filler, used>>

\* The gate selects a buffered candidate and cancels the others.
GateSelects(c) ==
  /\ pc = "gate"
  /\ winner' = c
  /\ CancelAllBut({c})
  /\ StartPlayback(TRUE)
  /\ UNCHANGED <<turns, eager, restructure>>

\* A stream that is generated as it is pulled: no start_eager.
Lazy ==
  /\ winner' = Main
  /\ eager' = FALSE
  /\ gen' = [c \in Candidates |-> IF c = Main THEN "streaming" ELSE "cancelled"]
  /\ buffer' = [c \in Candidates |-> 0]

\* The closing and recovery routes are not buffered: a fresh stream.
GateGeneratesFresh ==
  /\ pc = "gate"
  /\ Lazy
  /\ StartPlayback(TRUE)
  /\ UNCHANGED <<turns, restructure>>

\* A wrap-up turn, or the restructured line after the gate dropped the reply.
BeginUngatedTurn ==
  /\ pc = "idle"
  /\ turns < MaxTurns
  /\ turns' = turns + 1
  /\ restructure' \in BOOLEAN
  /\ Lazy
  /\ StartPlayback(FALSE)

\* A cancellation of main while it awaits the referees leaves the candidates.
HangupAtGate ==
  /\ pc = "gate"
  /\ pc' = "gone"
  /\ ending' = "abandoned"
  /\ UNCHANGED <<turnVars, genVars, prodVars, jobs, current, synth, played,
                 firstAudio, captured, fillerVars>>

-----------------------------------------------------------------------------
\* Generation: _generate_core, the replay of its buffer, and tts_producer.

others == <<pc, turnVars, current, outVars, fillerVars>>

\* Only the lazy stream is driven by the producer's pull.
IsLazy(c) == ~eager /\ c = winner

\* The finally block cancels the producer once the filler timer has unwound.
ProducerRuns == pc # "reap" \/ timer = "cancelled"

Pulled(c) == IsLazy(c) => ProducerRuns /\ producer = "pulling"

\* Mutant: put_nowait, with QueueFull suppressed, for the sentences.
EnqueueDrops(job) ==
  /\ pending' = NoJob
  /\ producer' = IF job = Sentinel THEN "over" ELSE "pulling"
  /\ jobs' = IF Len(jobs) < JobMax \/ job = Sentinel THEN Append(jobs, job) ELSE jobs

\* The producer opens the vendor stream of a job, then waits for a free slot.
Enqueue(job) ==
  IF Len(jobs) < JobMax
  THEN /\ jobs' = Append(jobs, job)
       /\ pending' = NoJob
       /\ producer' = IF job = Sentinel THEN "over" ELSE "pulling"
  ELSE /\ pending' = job
       /\ producer' = "putting"
       /\ UNCHANGED jobs

Synthesise(s) == synth' = [synth EXCEPT ![s] = "open"]

\* split_sentences completes a sentence of the streamed or fallback answer.
Sentence(c) ==
  /\ gen[c] \in {"streaming", "answered"}
  /\ Pulled(c)
  /\ buffer[c] < MaxSentences
  /\ buffer' = [buffer EXCEPT ![c] = @ + 1]
  /\ IF IsLazy(c)
     THEN /\ replayed' = replayed + 1
          /\ Synthesise(replayed + 1)
          /\ Enqueue(replayed + 1)
     ELSE UNCHANGED <<replayed, synth, jobs, pending, producer>>
  /\ UNCHANGED <<gen, defaulted, others>>

StreamEnds(c) ==
  /\ gen[c] \in {"streaming", "answered"}
  /\ Pulled(c)
  /\ gen' = [gen EXCEPT ![c] = "done"]
  /\ UNCHANGED <<buffer, prodVars, jobs, synth, others>>

\* chat_stream fails: after a sentence the reply is cut there, before the first
\* one chat() is tried once.
StreamFails(c) ==
  /\ gen[c] = "streaming"
  /\ Pulled(c)
  /\ gen' = [gen EXCEPT ![c] = IF buffer[c] > 0 THEN "done" ELSE "fallback"]
  /\ UNCHANGED <<buffer, prodVars, jobs, synth, others>>

\* chat() answers (possibly blank), or fails or times out.
FallbackReturns(c) ==
  /\ gen[c] = "fallback"
  /\ Pulled(c)
  /\ \E answer \in {"answered", "done"} : gen' = [gen EXCEPT ![c] = answer]
  /\ UNCHANGED <<buffer, prodVars, jobs, synth, others>>

\* _replay hands the next buffered sentence to the producer.
ProducerReplays ==
  /\ ProducerRuns
  /\ producer = "pulling"
  /\ eager
  /\ replayed < buffer[winner]
  /\ replayed' = replayed + 1
  /\ Synthesise(replayed + 1)
  /\ Enqueue(replayed + 1)
  /\ UNCHANGED <<genVars, defaulted, others>>

\* The stream and its fallback were silent: the default reply.
ProducerDefaults ==
  /\ ProducerRuns
  /\ producer = "pulling"
  /\ gen[winner] = "done"
  /\ buffer[winner] = 0
  /\ ~defaulted
  /\ defaulted' = TRUE
  /\ Synthesise(Default)
  /\ Enqueue(Default)
  /\ UNCHANGED <<genVars, replayed, others>>

\* Mutant: _replay returns as soon as _eager_done is set.
ProducerFinishesEarly ==
  /\ ProducerRuns
  /\ producer = "pulling"
  /\ gen[winner] = "done"
  /\ buffer[winner] > 0 \/ defaulted
  /\ Enqueue(Sentinel)
  /\ UNCHANGED <<genVars, replayed, defaulted, synth, others>>

\* Mutant: the sentinel is dropped when job_q is full.
ProducerFinishesIfRoom ==
  /\ ProducerRuns
  /\ producer = "pulling"
  /\ gen[winner] = "done"
  /\ replayed = buffer[winner]
  /\ buffer[winner] > 0 \/ defaulted
  /\ producer' = "over"
  /\ jobs' = IF Len(jobs) < JobMax THEN Append(jobs, Sentinel) ELSE jobs
  /\ UNCHANGED <<genVars, replayed, defaulted, pending, synth, others>>

\* sentences() is exhausted: the completion sentinel.
ProducerFinishes ==
  /\ ProducerRuns
  /\ producer = "pulling"
  /\ gen[winner] = "done"
  /\ replayed = buffer[winner]
  /\ buffer[winner] > 0 \/ defaulted
  /\ Enqueue(Sentinel)
  /\ UNCHANGED <<genVars, replayed, defaulted, synth, others>>

\* A slot of job_q is free again.
ProducerPuts ==
  /\ ProducerRuns
  /\ producer = "putting"
  /\ Len(jobs) < JobMax
  /\ Enqueue(pending)
  /\ UNCHANGED <<genVars, replayed, defaulted, synth, others>>

\* _SynthJob._drain: the vendor finishes a sentence, or fails on it.
SynthEnds(s) ==
  /\ synth[s] = "open"
  /\ \E end \in {"done", "failed"} : synth' = [synth EXCEPT ![s] = end]
  /\ UNCHANGED <<genVars, prodVars, jobs, others>>

-----------------------------------------------------------------------------
\* The filler.

fixed == <<turnVars, genVars, prodVars, played, captured>>

\* _maybe_filler's sleep ends; FillerManager.start picks a phrase not used
\* since the pool was last exhausted.
FillerFires ==
  /\ timer = "armed"
  /\ timer' = "over"
  /\ IF firstAudio \/ Phrases = {}
     THEN UNCHANGED <<filler, used>>
     ELSE \E p \in IF Phrases \subseteq used THEN Phrases ELSE Phrases \ used :
            /\ used' = IF Phrases \subseteq used THEN {p} ELSE used \union {p}
            /\ filler' = "playing"
  /\ UNCHANGED <<pc, fixed, jobs, current, synth, firstAudio, ending>>

\* The phrase is played, or its synthesis fails.
FillerEnds ==
  /\ filler = "playing"
  /\ filler' = "over"
  /\ UNCHANGED <<pc, fixed, jobs, current, synth, firstAudio, ending, timer, used>>

-----------------------------------------------------------------------------
\* The consumer loop of _play_streaming.

\* A job arrives.  Before the first one is played the filler timer is
\* cancelled; the sentinel ends the loop.
TakeJob ==
  /\ pc = "get"
  /\ jobs # <<>>
  /\ jobs' = Tail(jobs)
  /\ timer' = IF timer = "armed" THEN "cancelled" ELSE timer
  /\ IF Head(jobs) = Sentinel
     THEN /\ ending' = "complete"
          /\ pc' = "reap"
          /\ UNCHANGED current
     ELSE /\ current' = Head(jobs)
          /\ pc' = IF played = <<>> /\ timer # "none" THEN "preempt" ELSE "play"
          /\ UNCHANGED ending
  /\ UNCHANGED <<fixed, synth, firstAudio, filler, used>>

\* Mutant: the timer is cancelled, the phrase already playing is not.
StopFillerTimerOnly ==
  /\ pc = "preempt"
  /\ timer' = "over"
  /\ pc' = "play"
  /\ UNCHANGED <<fixed, jobs, current, synth, firstAudio, ending, filler, used>>

\* filler.stop(): an audible filler gives way to the reply.
StopFiller ==
  /\ pc = "preempt"
  /\ filler' = IF filler = "playing" THEN "over" ELSE filler
  /\ timer' = "over"
  /\ pc' = "play"
  /\ UNCHANGED <<fixed, jobs, current, synth, firstAudio, ending, used>>

\* The first chunk of the reply leaves for the telephony client.
FirstChunk ==
  /\ pc = "play"
  /\ ~firstAudio
  /\ firstAudio' = TRUE
  /\ UNCHANGED <<pc, fixed, jobs, current, synth, ending, fillerVars>>

SentencePlayed ==
  /\ pc = "play"
  /\ synth[current] = "done"
  /\ played' = Append(played, current)
  /\ current' = NoJob
  /\ pc' = "get"
  /\ UNCHANGED <<turnVars, genVars, prodVars, captured, jobs, synth, firstAudio,
                 ending, fillerVars>>

\* The loop is left; the finally block begins by keeping the cut sentence.
LeaveLoop(how) ==
  /\ ending' = how
  /\ pc' = "reap"
  /\ captured' = IF how = "interrupted" /\ ~restructure THEN <<current>> ELSE <<>>
  /\ timer' = IF timer = "armed" THEN "cancelled" ELSE timer
  /\ UNCHANGED <<turnVars, genVars, prodVars, jobs, current, synth, played,
                 firstAudio, filler, used>>

\* Synthesis or telephony fails on this sentence.
PlaybackFails ==
  /\ pc = "play"
  /\ LeaveLoop("failed")

\* audio_out is cancelled, by the partial monitor or by the end of the call.
BargeIn ==
  /\ pc = "play"
  /\ LeaveLoop("interrupted")

\* main is cancelled while it waits for a job.
HangupWhileWaiting ==
  /\ pc = "get"
  /\ LeaveLoop("hungup")

\* The cancelled producer closes the job it could not enqueue, and a lazily
\* generated stream closes with it.
ProducerUnwinds ==
  /\ pc = "reap"
  /\ producer # "over"
  /\ producer' = "over"
  /\ pending' = NoJob
  /\ synth' = IF pending \in Sentences THEN [synth EXCEPT ![pending] = "closed"] ELSE synth
  /\ gen' = IF ~eager /\ Live(winner) THEN [gen EXCEPT ![winner] = "cancelled"] ELSE gen
  /\ timer' = IF timer = "cancelled" THEN "over" ELSE timer
  /\ UNCHANGED <<pc, turnVars, current, outVars, filler, used, buffer, replayed,
                 defaulted, jobs>>

\* The rest of the finally block: close the current and the queued jobs, keep
\* their text and the unreplayed buffer, cancel the eager task, stop the filler.
Queued ==
  LET drained[i \in 0..Len(jobs)] ==
        IF i = 0 THEN <<>>
        ELSE IF jobs[i] = Sentinel THEN drained[i - 1]
        ELSE Append(drained[i - 1], jobs[i])
  IN  drained[Len(jobs)]

BufferRemainder ==
  IF eager THEN [i \in 1..(buffer[winner] - replayed) |-> replayed + i] ELSE <<>>

\* Mutant: the queue is drained without closing its jobs.
CloseCurrentOnly ==
  /\ synth' = IF current = NoJob THEN synth ELSE [synth EXCEPT ![current] = "closed"]
  /\ current' = NoJob
  /\ jobs' = <<>>

CloseAll ==
  /\ synth' = [s \in Sentences |->
                 IF s = current \/ s \in Range(jobs) THEN "closed" ELSE synth[s]]
  /\ current' = NoJob
  /\ jobs' = <<>>

\* Mutant: the queued sentences are not captured.
CaptureUnqueued ==
  captured' = IF captured # <<>> THEN captured \o BufferRemainder ELSE <<>>

Capture ==
  captured' = IF captured # <<>> THEN captured \o Queued \o BufferRemainder ELSE <<>>

Reap ==
  /\ pc = "reap"
  /\ producer = "over"
  /\ CloseAll
  /\ Capture
  /\ gen' = IF Live(winner) THEN [gen EXCEPT ![winner] = "cancelled"] ELSE gen
  /\ filler' = "none"
  /\ timer' = "none"
  /\ pc' = IF ending = "hungup" THEN "gone" ELSE "idle"
  /\ UNCHANGED <<turnVars, buffer, prodVars, played, firstAudio, ending, used>>

-----------------------------------------------------------------------------
Generation(c) == Sentence(c) \/ StreamEnds(c) \/ StreamFails(c) \/ FallbackReturns(c)

Gate ==
  \/ \E c \in Candidates : GateSelects(c)
  \/ GateGeneratesFresh
  \/ GateDrops

Producer == ProducerReplays \/ ProducerDefaults \/ ProducerFinishes \/ ProducerPuts

Teardown == ProducerUnwinds \/ Reap

Next ==
  \/ BeginGatedTurn
  \/ BeginUngatedTurn
  \/ Gate
  \/ HangupAtGate
  \/ \E c \in Candidates : Generation(c)
  \/ Producer
  \/ \E s \in Sentences : SynthEnds(s)
  \/ FillerFires
  \/ FillerEnds
  \/ TakeJob
  \/ StopFiller
  \/ FirstChunk
  \/ SentencePlayed
  \/ PlaybackFails
  \/ BargeIn
  \/ HangupWhileWaiting
  \/ Teardown

Spec == Init /\ [][Next]_vars

\* The loop schedules every ready task, the gate has referee_timeout_ms, and
\* the model, vendor and telephony calls come to an end, well or badly.
FairSpec ==
  /\ Spec
  /\ WF_vars(Gate)
  /\ \A c \in Candidates : WF_vars(StreamEnds(c) \/ StreamFails(c) \/ FallbackReturns(c))
  /\ WF_vars(Producer)
  /\ \A s \in Sentences : WF_vars(SynthEnds(s))
  /\ WF_vars(TakeJob)
  /\ WF_vars(StopFiller)
  /\ WF_vars(SentencePlayed \/ PlaybackFails)
  /\ WF_vars(Teardown)

-----------------------------------------------------------------------------
\* Properties.

InQueue == IF current = NoJob THEN Queued ELSE <<current>> \o Queued

Taken == IF pending \in Sentences THEN InQueue \o <<pending>> ELSE InQueue

\* While a reply is played, what was spoken, what is being spoken, what is
\* queued and what the producer holds are together exactly the sentences pulled
\* so far, in the order they were generated: the producer, the bounded queue
\* and the consumer loop lose, repeat and reorder nothing.
ReplyInOrder ==
  pc \in {"get", "preempt", "play"} =>
    played \o Taken = IF defaulted THEN <<Default>> ELSE [i \in 1..replayed |-> i]

\* A turn whose playback loop runs to the sentinel has spoken the whole reply,
\* or the default reply when the stream and its fallback stayed silent: never
\* nothing, and never a prefix.
WholeReplySpoken ==
  pc = "idle" /\ ending = "complete" =>
    /\ gen[winner] = "done"
    /\ played = IF buffer[winner] = 0 THEN <<Default>> ELSE [i \in 1..buffer[winner] |-> i]

\* A filler is never audible under the reply: the first job cancels the timer
\* and stops the phrase before a chunk of the reply is sent.
FillerExclusive ==
  pc = "play" => filler # "playing" /\ timer # "armed"

\* The vendor streams open at a time are at most the queued ones, the one being
\* played and the one the producer holds.
OpenStreamsBounded ==
  Cardinality({s \in Sentences : synth[s] = "open"}) <= JobMax + 2

\* Once a turn is over, however it ended, no candidate still generates, no
\* vendor stream is open and no filler is armed or audible.  The one exception
\* is a call that was hung up during the gate: its candidates run on.
Released ==
  pc = "idle" \/ (pc = "gone" /\ ending # "abandoned") =>
    /\ \A c \in Candidates : ~Live(c)
    /\ \A s \in Sentences : synth[s] # "open"
    /\ jobs = <<>> /\ pending = NoJob
    /\ timer = "none" /\ filler = "none"

\* The vendor streams a turn opens are bounded while it runs and all closed when
\* it is over.
StreamsReleased == OpenStreamsBounded /\ Released

Generated == IF defaulted THEN {Default} ELSE 1..buffer[winner]

Unaccounted == Generated \ (Range(played) \union Range(captured))

Remainder == pc = "idle" /\ ending = "interrupted" /\ ~restructure

\* After a barge-in the kept remainder continues the spoken part in order,
\* repeats none of it, and misses at most one sentence of what was generated:
\* the one the producer was still trying to enqueue.
RemainderMissesOne ==
  Remainder =>
    /\ \A i, j \in DOMAIN captured : i < j => captured[i] < captured[j]
    /\ Range(played) \intersect Range(captured) = {}
    /\ Cardinality(Unaccounted) <= 1

\* Every turn comes to an end: the gate, the producer, the consumer and the
\* teardown never wait for each other forever.  The fairness takes a playback to
\* end, which audio_out does on an open line (FeedEndsWhileOpen of Playout); after
\* the line was closed a turn may wait for its playback.
TurnEnds == pc \notin {"idle", "gone"} ~> pc \in {"idle", "gone"}

\* What the comment on the remainder promises: everything generated and not yet
\* spoken is kept.  The producer's unqueued sentence refutes it.
RemainderComplete == Remainder => Unaccounted = {}

=============================================================================
