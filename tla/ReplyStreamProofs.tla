--------------------------- MODULE ReplyStreamProofs ---------------------------
(***************************************************************************)
(* Proofs about ReplyStream, for any number of candidates, phrases and      *)
(* turns, any length of the reply and any size of job_q: the reply is       *)
(* spoken in order and whole, or cut with all but one of its sentences      *)
(* kept, never together with a filler, and what a turn opens is bounded     *)
(* and closed.                                                              *)
(***************************************************************************)
EXTENDS ReplyStream, TLAPS

-----------------------------------------------------------------------------
\* The inductive invariant.

\* The types: of the control state, of the functions and of the sequences.
Progress == {"none", "streaming", "fallback", "answered", "done", "cancelled"}

Vendor == {"none", "open", "done", "failed", "closed"}

ControlTypes ==
  /\ pc \in {"idle", "gate", "get", "preempt", "play", "reap", "gone"}
  /\ turns \in 0..MaxTurns
  /\ winner \in Candidates
  /\ eager \in BOOLEAN /\ restructure \in BOOLEAN
  /\ defaulted \in BOOLEAN /\ firstAudio \in BOOLEAN
  /\ replayed \in 0..MaxSentences
  /\ producer \in {"none", "pulling", "putting", "over"}
  /\ pending \in Sentences \union {Sentinel, NoJob}
  /\ current \in Sentences \union {NoJob}
  /\ ending \in {"open", "complete", "interrupted", "failed", "hungup", "abandoned"}
  /\ timer \in {"none", "armed", "cancelled", "over"}
  /\ filler \in {"none", "playing", "over"}
  /\ used \subseteq Phrases

FcnTypes ==
  /\ gen \in [Candidates -> Progress]
  /\ buffer \in [Candidates -> 0..MaxSentences]
  /\ synth \in [Sentences -> Vendor]

SeqTypes ==
  /\ jobs \in Seq(Sentences \union {Sentinel})
  /\ played \in Seq(Sentences)
  /\ captured \in Seq(Sentences)

Types == ControlTypes /\ FcnTypes /\ SeqTypes

\* _play_streaming runs its consumer loop.
Looping == pc \in {"get", "preempt", "play"}

\* Between two playbacks nothing of one is left.
RestInv ==
  /\ pc \in {"idle", "gate", "gone"} =>
       /\ current = NoJob /\ jobs = <<>> /\ pending = NoJob
       /\ timer = "none" /\ filler = "none"
       /\ producer \in {"none", "over"}
  /\ pc \in {"gate", "get", "preempt", "play"} => ending = "open"
  /\ pc \in {"reap", "idle", "gone"} \/ ending = "open"
  /\ producer \in {"none", "pulling", "over"} => pending = NoJob
  /\ producer = "putting" => pending # NoJob
  /\ Looping \/ pc = "reap" => producer # "none"
  /\ pc \in {"preempt", "play"} <=> (current # NoJob /\ pc # "reap")

\* Which candidates may generate: all at the gate, then the selected one.
CandInv ==
  /\ pc = "gate" => eager
  /\ Looping \/ pc = "reap" => \A c \in Candidates : c # winner => ~Live(c)
  /\ pc = "idle" \/ (pc = "gone" /\ ending # "abandoned") =>
       \A c \in Candidates : ~Live(c)

\* The timer and the phrase belong to the time before the first job.
FillerInv ==
  /\ timer = "armed" => pc = "get" /\ played = <<>>
  /\ filler = "playing" =>
       /\ pc \in {"get", "preempt", "reap"}
       /\ timer # "none"
       /\ pc = "get" => played = <<>>

\* job_q keeps its bound, and every open vendor stream has a holder.
Queue == {jobs[i] : i \in 1..Len(jobs)}

HeldInv ==
  /\ Len(jobs) <= JobMax
  /\ \A s \in Sentences : synth[s] = "open" => s \in Queue \union {current, pending}

\* The sentence at position i of what is spoken, d telling whether it is the
\* default reply, and the number of sentences so far.
Nth(d, i) == IF d THEN Default ELSE i

Total == IF defaulted THEN 1 ELSE replayed

\* The sentences that have left the queue.
Out == Len(played) + (IF current = NoJob THEN 0 ELSE 1)

\* The stream has ended and all of it was pulled.
Finished ==
  /\ gen[winner] = "done"
  /\ replayed = buffer[winner]
  /\ buffer[winner] > 0 \/ defaulted

\* The stream that is played and its replay.
PullInv ==
  Looping \/ pc = "reap" =>
    /\ replayed <= buffer[winner]
    /\ ~eager => replayed = buffer[winner]
    /\ defaulted => gen[winner] = "done" /\ buffer[winner] = 0

\* What is spoken, what is being spoken and what is queued follow each other;
\* after the sentinel comes nothing.
Spoken == \A i \in 1..Len(played) : played[i] = Nth(defaulted, i)

Speaking == current # NoJob => current = Nth(defaulted, Out)

InLine ==
  \A i \in 1..Len(jobs) :
    jobs[i] = IF producer = "over" /\ i = Len(jobs) THEN Sentinel ELSE Nth(defaulted, Out + i)

\* How far the producer has come.
Ahead ==
  /\ producer = "pulling" => Total = Out + Len(jobs)
  /\ producer = "putting" /\ pending # Sentinel =>
       Total = Out + Len(jobs) + 1 /\ pending = Nth(defaulted, Total)
  /\ producer = "putting" /\ pending = Sentinel => Total = Out + Len(jobs) /\ Finished
  /\ producer = "over" => Len(jobs) > 0 /\ Total = Out + Len(jobs) - 1 /\ Finished

Order == Spoken /\ Speaking /\ InLine /\ Ahead

\* A producer that was cancelled leaves no sentinel, and at most one sentence
\* that it pulled and did not queue.
Unwound ==
  /\ Spoken /\ Speaking
  /\ producer = "over"
  /\ \A i \in 1..Len(jobs) : jobs[i] = Nth(defaulted, Out + i)
  /\ Total = Out + Len(jobs) \/ Total = Out + Len(jobs) + 1

\* The finally block finds the loop's order, or what a cancelled producer left.
OrderInv ==
  /\ Looping => Order
  /\ pc = "reap" /\ ending # "complete" => Order \/ Unwound

\* The finally block begins with the sentence that was cut, or with nothing.
CutInv ==
  /\ Looping => captured = <<>>
  /\ pc = "reap" =>
       IF ending = "interrupted" /\ ~restructure
       THEN current # NoJob /\ captured = <<current>>
       ELSE captured = <<>>

\* A loop that was left through the sentinel spoke everything.
WholeInv ==
  ending = "complete" /\ pc # "gone" =>
    /\ gen[winner] = "done"
    /\ buffer[winner] = 0 => played = <<Default>>
    /\ buffer[winner] > 0 =>
         Len(played) = buffer[winner] /\ \A i \in 1..Len(played) : played[i] = i

\* The remainder of a turn that was cut goes on where the speech stopped.
RemainderInv ==
  Remainder =>
    /\ \A i, j \in DOMAIN captured : i < j => captured[i] < captured[j]
    /\ Range(played) \intersect Range(captured) = {}
    /\ \E x : Unaccounted \subseteq {x}

IInv ==
  /\ Types /\ RestInv /\ CandInv /\ FillerInv /\ HeldInv /\ PullInv /\ OrderInv
  /\ WholeInv /\ CutInv /\ RemainderInv

-----------------------------------------------------------------------------
\* What the moves of the producer and the consumer do.

\* A job is queued.
Enqueued(job) ==
  /\ jobs' = Append(jobs, job) /\ Len(jobs) < JobMax
  /\ pending' = NoJob
  /\ producer' = IF job = Sentinel THEN "over" ELSE "pulling"

\* A job is held until a slot is free.
Kept(job) ==
  /\ jobs' = jobs /\ Len(jobs) >= JobMax
  /\ pending' = job
  /\ producer' = "putting"

\* Enqueue does one or the other.
LEMMA EnqueueMoves ==
  ASSUME Types, NEW job, Enqueue(job)
  PROVE  Enqueued(job) \/ Kept(job)
BY ReplyAssumption DEF Types, ControlTypes, FcnTypes, SeqTypes, Enqueue, Enqueued,
    Kept, ReplyAssumption

\* A sentence that a lazy stream completes is the next one of the reply.
LEMMA LazyMoves ==
  ASSUME Types, RestInv, PullInv, NEW c \in Candidates, Sentence(c), IsLazy(c)
  PROVE  /\ c = winner /\ ~eager /\ ~defaulted
         /\ Looping \/ pc = "reap"
         /\ producer = "pulling"
         /\ replayed = buffer[winner]
         /\ replayed + 1 \in 1..MaxSentences
         /\ Enqueued(replayed + 1) \/ Kept(replayed + 1)
<1>1. c = winner /\ ~eager /\ producer = "pulling"
  BY DEF Sentence, Pulled, IsLazy
<1>2. Looping \/ pc = "reap"
  BY <1>1 DEF RestInv, Types, ControlTypes, FcnTypes, SeqTypes, Looping
<1>3. replayed = buffer[winner] /\ ~defaulted
  BY <1>1, <1>2 DEF PullInv, Sentence
<1>4. replayed + 1 \in 1..MaxSentences
  BY <1>1, <1>3, ReplyAssumption DEF Sentence, Types, ControlTypes, FcnTypes,
    SeqTypes, ReplyAssumption
<1>5. Enqueued(replayed + 1) \/ Kept(replayed + 1)
  BY EnqueueMoves DEF Sentence
<1>6. QED
  BY <1>1, <1>2, <1>3, <1>4, <1>5

\* So is a sentence that is replayed from the buffer.
LEMMA ReplayMoves ==
  ASSUME Types, RestInv, PullInv, ProducerReplays
  PROVE  /\ Looping \/ pc = "reap"
         /\ ~defaulted
         /\ replayed + 1 \in 1..MaxSentences
         /\ replayed + 1 <= buffer[winner]
         /\ Enqueued(replayed + 1) \/ Kept(replayed + 1)
<1>1. Looping \/ pc = "reap"
  BY DEF RestInv, Types, ControlTypes, FcnTypes, SeqTypes, Looping, ProducerReplays
<1>2. replayed < buffer[winner] /\ buffer[winner] \in 0..MaxSentences
  BY DEF Types, ControlTypes, FcnTypes, SeqTypes, ProducerReplays
<1>3. replayed + 1 \in 1..MaxSentences /\ replayed + 1 <= buffer[winner]
  BY <1>2, ReplyAssumption DEF Types, ControlTypes, FcnTypes, SeqTypes,
    ReplyAssumption
<1>4. ~defaulted
  BY <1>1, <1>2 DEF PullInv, Types, ControlTypes, FcnTypes, SeqTypes
<1>5. Enqueued(replayed + 1) \/ Kept(replayed + 1)
  BY EnqueueMoves DEF ProducerReplays
<1>6. QED
  BY <1>1, <1>3, <1>4, <1>5

\* The first job is taken off the queue.
LEMMA TakeMoves ==
  ASSUME Types, TakeJob
  PROVE  /\ Len(jobs) \in Nat \ {0}
         /\ Head(jobs) = jobs[1]
         /\ jobs[1] \in Sentences \union {Sentinel}
         /\ jobs' \in Seq(Sentences \union {Sentinel})
         /\ Len(jobs') = Len(jobs) - 1
         /\ \A i \in 1..Len(jobs') : jobs'[i] = jobs[i + 1]
<1>1. jobs \in Seq(Sentences \union {Sentinel}) /\ jobs # <<>> /\ jobs' = Tail(jobs)
  BY DEF Types, ControlTypes, FcnTypes, SeqTypes, TakeJob
<1> QED
  BY <1>1

\* The numbers of jobs and of sentences are distinct.
LEMMA Numbers ==
  /\ Sentinel \notin Sentences /\ NoJob \notin Sentences /\ Sentinel # NoJob
  /\ 0 \in Sentences /\ Default \in Sentences
  /\ 1..MaxSentences \subseteq Sentences
BY ReplyAssumption DEF Sentinel, NoJob, Sentences, Default, ReplyAssumption

\* Between two playbacks nothing of one is left.
LEMMA RestStep ==
  ASSUME Types, RestInv, PullInv, [Next]_vars
  PROVE  RestInv'
<1> USE DEF RestInv, Looping, turnVars, genVars, prodVars, fillerVars, outVars,
    others, fixed
<1>1. CASE BeginGatedTurn
  BY <1>1 DEF BeginGatedTurn, FreshLocals
<1>2. CASE BeginUngatedTurn
  BY <1>2 DEF BeginUngatedTurn, Lazy, StartPlayback, FreshLocals
<1>3. ASSUME NEW c \in Candidates, GateSelects(c) PROVE RestInv'
  BY <1>3 DEF GateSelects, CancelAllBut, StartPlayback, FreshLocals
<1>4. CASE GateGeneratesFresh
  BY <1>4 DEF GateGeneratesFresh, Lazy, StartPlayback, FreshLocals
<1>5. CASE GateDrops
  BY <1>5 DEF GateDrops, CancelAllBut
<1>6. CASE HangupAtGate
  BY <1>6 DEF HangupAtGate
<1>7. ASSUME NEW c \in Candidates, Sentence(c) PROVE RestInv'
  <2>1. CASE IsLazy(c)
    BY <1>7, <2>1, LazyMoves, Numbers, Zenon DEF Sentence, Enqueued, Kept
  <2>2. CASE ~IsLazy(c)
    BY <1>7, <2>2 DEF Sentence
  <2>3. QED
    BY <2>1, <2>2
<1>8. ASSUME NEW c \in Candidates, StreamEnds(c) PROVE RestInv'
  BY <1>8 DEF StreamEnds
<1>9. ASSUME NEW c \in Candidates, StreamFails(c) PROVE RestInv'
  BY <1>9 DEF StreamFails
<1>10. ASSUME NEW c \in Candidates, FallbackReturns(c) PROVE RestInv'
  BY <1>10 DEF FallbackReturns
<1>11. CASE ProducerReplays
  BY <1>11, ReplayMoves, Numbers DEF ProducerReplays, Enqueued, Kept
<1>12. CASE ProducerDefaults
  <2>1. Enqueued(Default) \/ Kept(Default)
    BY <1>12, EnqueueMoves DEF ProducerDefaults
  <2> QED
    BY <1>12, <2>1, Numbers DEF ProducerDefaults, Enqueued, Kept
<1>13. CASE ProducerFinishes
  <2>1. Enqueued(Sentinel) \/ Kept(Sentinel)
    BY <1>13, EnqueueMoves DEF ProducerFinishes
  <2> QED
    BY <1>13, <2>1, Numbers DEF ProducerFinishes, Enqueued, Kept
<1>14. CASE ProducerPuts
  <2>1. Enqueued(pending)
    BY <1>14, EnqueueMoves, ReplyAssumption DEF ProducerPuts, Kept, Types,
    ControlTypes, FcnTypes, SeqTypes, ReplyAssumption
  <2> QED
    BY <1>14, <2>1, Numbers DEF ProducerPuts, Enqueued
<1>15. ASSUME NEW s \in Sentences, SynthEnds(s) PROVE RestInv'
  BY <1>15 DEF SynthEnds
<1>16. CASE FillerFires
  BY <1>16 DEF FillerFires
<1>17. CASE FillerEnds
  BY <1>17 DEF FillerEnds
<1>18. CASE TakeJob
  BY <1>18, TakeMoves, Numbers DEF TakeJob
<1>19. CASE StopFiller
  BY <1>19 DEF StopFiller
<1>20. CASE FirstChunk
  BY <1>20 DEF FirstChunk
<1>21. CASE SentencePlayed
  BY <1>21 DEF SentencePlayed
<1>22. CASE PlaybackFails
  BY <1>22 DEF PlaybackFails, LeaveLoop
<1>23. CASE BargeIn
  BY <1>23 DEF BargeIn, LeaveLoop
<1>24. CASE HangupWhileWaiting
  BY <1>24 DEF HangupWhileWaiting, LeaveLoop
<1>25. CASE ProducerUnwinds
  BY <1>25 DEF ProducerUnwinds
<1>26. CASE Reap
  BY <1>26 DEF Reap, CloseAll, Capture
<1>27. CASE UNCHANGED vars
  BY <1>27 DEF vars
<1>28. QED
  BY <1>1, <1>2, <1>3, <1>4, <1>5, <1>6, <1>7, <1>8, <1>9, <1>10, <1>11, <1>12, <1>13,
      <1>14, <1>15, <1>16, <1>17, <1>18, <1>19, <1>20, <1>21, <1>22, <1>23, <1>24,
      <1>25, <1>26, <1>27, Zenon DEF Next, Gate, Generation, Producer, Teardown

\* Only the selected candidate generates.
LEMMA CandStep ==
  ASSUME Types, RestInv, CandInv, [Next]_vars
  PROVE  CandInv'
<1> USE DEF CandInv, Looping, Live, turnVars, genVars, prodVars, fillerVars, outVars,
    others, fixed
<1>1. CASE BeginGatedTurn
  BY <1>1 DEF BeginGatedTurn, FreshLocals
<1>2. CASE BeginUngatedTurn
  BY <1>2 DEF BeginUngatedTurn, Lazy, StartPlayback, FreshLocals
<1>3. ASSUME NEW c \in Candidates, GateSelects(c) PROVE CandInv'
  BY <1>3 DEF GateSelects, CancelAllBut, StartPlayback, FreshLocals
<1>4. CASE GateGeneratesFresh
  BY <1>4 DEF GateGeneratesFresh, Lazy, StartPlayback, FreshLocals
<1>5. CASE GateDrops
  BY <1>5 DEF GateDrops, CancelAllBut
<1>6. CASE HangupAtGate
  BY <1>6 DEF HangupAtGate
<1>7. ASSUME NEW c \in Candidates, Sentence(c) PROVE CandInv'
  BY <1>7 DEF Sentence, Pulled, IsLazy
<1>8. ASSUME NEW c \in Candidates, StreamEnds(c) PROVE CandInv'
  BY <1>8 DEF StreamEnds
<1>9. ASSUME NEW c \in Candidates, StreamFails(c) PROVE CandInv'
  BY <1>9 DEF StreamFails
<1>10. ASSUME NEW c \in Candidates, FallbackReturns(c) PROVE CandInv'
  BY <1>10 DEF FallbackReturns
<1>11. CASE ProducerReplays
  BY <1>11 DEF ProducerReplays
<1>12. CASE ProducerDefaults
  BY <1>12 DEF ProducerDefaults
<1>13. CASE ProducerFinishes
  BY <1>13 DEF ProducerFinishes
<1>14. CASE ProducerPuts
  BY <1>14 DEF ProducerPuts
<1>15. ASSUME NEW s \in Sentences, SynthEnds(s) PROVE CandInv'
  BY <1>15 DEF SynthEnds
<1>16. CASE FillerFires
  BY <1>16 DEF FillerFires
<1>17. CASE FillerEnds
  BY <1>17 DEF FillerEnds
<1>18. CASE TakeJob
  BY <1>18 DEF TakeJob
<1>19. CASE StopFiller
  BY <1>19 DEF StopFiller
<1>20. CASE FirstChunk
  BY <1>20 DEF FirstChunk
<1>21. CASE SentencePlayed
  BY <1>21 DEF SentencePlayed
<1>22. CASE PlaybackFails
  BY <1>22 DEF PlaybackFails, LeaveLoop
<1>23. CASE BargeIn
  BY <1>23 DEF BargeIn, LeaveLoop
<1>24. CASE HangupWhileWaiting
  BY <1>24 DEF HangupWhileWaiting, LeaveLoop
<1>25. CASE ProducerUnwinds
  BY <1>25 DEF ProducerUnwinds
<1>26. CASE Reap
  <2>1. \A c \in Candidates : gen'[c] = gen[c] \/ (c = winner /\ gen'[c] = "cancelled")
    BY <1>26 DEF Reap, Types, ControlTypes, FcnTypes, SeqTypes
  <2>2. ~Live(winner)'
    BY <1>26 DEF Reap, Types, ControlTypes, FcnTypes, SeqTypes
  <2>3. winner' = winner /\ pc = "reap" /\ pc' \in {"idle", "gone"}
    BY <1>26 DEF Reap
  <2> QED
    BY <2>1, <2>2, <2>3
<1>27. CASE UNCHANGED vars
  BY <1>27 DEF vars
<1>28. QED
  BY <1>1, <1>2, <1>3, <1>4, <1>5, <1>6, <1>7, <1>8, <1>9, <1>10, <1>11, <1>12, <1>13,
      <1>14, <1>15, <1>16, <1>17, <1>18, <1>19, <1>20, <1>21, <1>22, <1>23, <1>24,
      <1>25, <1>26, <1>27, Zenon DEF Next, Gate, Generation, Producer, Teardown

\* The filler stays before the first job.
LEMMA FillerStep ==
  ASSUME Types, RestInv, FillerInv, [Next]_vars
  PROVE  FillerInv'
<1> USE DEF FillerInv, RestInv, turnVars, genVars, prodVars, fillerVars, outVars,
    others, fixed
<1>1. CASE BeginGatedTurn
  BY <1>1 DEF BeginGatedTurn, FreshLocals
<1>2. CASE BeginUngatedTurn
  BY <1>2 DEF BeginUngatedTurn, Lazy, StartPlayback, FreshLocals
<1>3. ASSUME NEW c \in Candidates, GateSelects(c) PROVE FillerInv'
  BY <1>3 DEF GateSelects, CancelAllBut, StartPlayback, FreshLocals
<1>4. CASE GateGeneratesFresh
  BY <1>4 DEF GateGeneratesFresh, Lazy, StartPlayback, FreshLocals
<1>5. CASE GateDrops
  BY <1>5 DEF GateDrops, CancelAllBut
<1>6. CASE HangupAtGate
  BY <1>6 DEF HangupAtGate
<1>7. ASSUME NEW c \in Candidates, Sentence(c) PROVE FillerInv'
  BY <1>7 DEF Sentence, Pulled, IsLazy
<1>8. ASSUME NEW c \in Candidates, StreamEnds(c) PROVE FillerInv'
  BY <1>8 DEF StreamEnds
<1>9. ASSUME NEW c \in Candidates, StreamFails(c) PROVE FillerInv'
  BY <1>9 DEF StreamFails
<1>10. ASSUME NEW c \in Candidates, FallbackReturns(c) PROVE FillerInv'
  BY <1>10 DEF FallbackReturns
<1>11. CASE ProducerReplays
  BY <1>11 DEF ProducerReplays
<1>12. CASE ProducerDefaults
  BY <1>12 DEF ProducerDefaults
<1>13. CASE ProducerFinishes
  BY <1>13 DEF ProducerFinishes
<1>14. CASE ProducerPuts
  BY <1>14 DEF ProducerPuts
<1>15. ASSUME NEW s \in Sentences, SynthEnds(s) PROVE FillerInv'
  BY <1>15 DEF SynthEnds
<1>16. CASE FillerFires
  BY <1>16 DEF FillerFires
<1>17. CASE FillerEnds
  BY <1>17 DEF FillerEnds
<1>18. CASE TakeJob
  BY <1>18 DEF TakeJob
<1>19. CASE StopFiller
  BY <1>19 DEF StopFiller
<1>20. CASE FirstChunk
  BY <1>20 DEF FirstChunk
<1>21. CASE SentencePlayed
  BY <1>21 DEF SentencePlayed
<1>22. CASE PlaybackFails
  BY <1>22 DEF PlaybackFails, LeaveLoop
<1>23. CASE BargeIn
  BY <1>23 DEF BargeIn, LeaveLoop
<1>24. CASE HangupWhileWaiting
  BY <1>24 DEF HangupWhileWaiting, LeaveLoop
<1>25. CASE ProducerUnwinds
  BY <1>25 DEF ProducerUnwinds
<1>26. CASE Reap
  BY <1>26 DEF Reap, CloseAll, Capture
<1>27. CASE UNCHANGED vars
  BY <1>27 DEF vars
<1>28. QED
  BY <1>1, <1>2, <1>3, <1>4, <1>5, <1>6, <1>7, <1>8, <1>9, <1>10, <1>11, <1>12, <1>13,
    <1>14, <1>15, <1>16, <1>17, <1>18, <1>19, <1>20, <1>21, <1>22, <1>23, <1>24,
    <1>25, <1>26, <1>27 DEF Next, Gate, Generation, Producer, Teardown

\* A job is appended to a queue of jobs.
LEMMA AppendType ==
  ASSUME Types, NEW job \in Sentences \union {Sentinel}
  PROVE  jobs \in Seq(Sentences \union {Sentinel})
         /\ Append(jobs, job) \in Seq(Sentences \union {Sentinel})
BY DEF Types, ControlTypes, FcnTypes, SeqTypes

-----------------------------------------------------------------------------
\* The queue and the open streams.

\* The queue after a put.
LEMMA QueueAppend ==
  ASSUME Types, NEW job \in Sentences \union {Sentinel}, Enqueued(job), HeldInv
  PROVE  Queue' = Queue \union {job} /\ Len(jobs') <= JobMax
<1>1. jobs \in Seq(Sentences \union {Sentinel}) /\ jobs' = Append(jobs, job)
  BY DEF Types, ControlTypes, FcnTypes, SeqTypes, Enqueued
<1>2. Len(jobs') = Len(jobs) + 1 /\ Len(jobs) \in Nat
  BY <1>1
<1>3. jobs'[Len(jobs) + 1] = job /\ \A i \in 1..Len(jobs) : jobs'[i] = jobs[i]
  BY <1>1
<1>4. 1..Len(jobs') = 1..Len(jobs) \union {Len(jobs) + 1}
  BY <1>2
<1>5. Queue' = Queue \union {job}
  BY <1>3, <1>4 DEF Queue
<1>6. QED
  BY <1>2, <1>5, ReplyAssumption DEF Enqueued

\* The queue after a get.
LEMMA QueueTail ==
  ASSUME Types, TakeJob
  PROVE  Queue \subseteq Queue' \union {jobs[1]}
<1>1. SUFFICES ASSUME NEW i \in 1..Len(jobs), i # 1 PROVE jobs[i] \in Queue'
  BY DEF Queue
<1>2. i - 1 \in 1..Len(jobs') /\ (i - 1) + 1 = i
  BY <1>1, TakeMoves
<1>3. jobs'[i - 1] = jobs[i]
  BY <1>2, TakeMoves
<1>4. QED
  BY <1>2, <1>3 DEF Queue

\* Range, as CloseAll uses it, is the set of the queued jobs.
LEMMA QueueRange ==
  ASSUME Types
  PROVE  Range(jobs) = Queue
<1>1. DOMAIN jobs = 1..Len(jobs)
  BY DEF Types, ControlTypes, FcnTypes, SeqTypes
<1>2. QED
  BY <1>1 DEF Range, Queue

\* The queue keeps its bound, and every open stream its holder.
LEMMA HeldStep ==
  ASSUME Types, RestInv, PullInv, HeldInv, [Next]_vars
  PROVE  HeldInv'
<1> USE DEF HeldInv, turnVars, genVars, prodVars, fillerVars, outVars, others, fixed
<1>0. jobs' = jobs => Queue' = Queue
  BY DEF Queue
<1>1. CASE BeginGatedTurn
  BY <1>1, <1>0, ReplyAssumption DEF BeginGatedTurn, FreshLocals
<1>2. CASE BeginUngatedTurn
  BY <1>2, <1>0, ReplyAssumption DEF BeginUngatedTurn, Lazy, StartPlayback,
    FreshLocals
<1>3. ASSUME NEW c \in Candidates, GateSelects(c) PROVE HeldInv'
  BY <1>3, <1>0, ReplyAssumption DEF GateSelects, CancelAllBut, StartPlayback,
    FreshLocals
<1>4. CASE GateGeneratesFresh
  BY <1>4, <1>0, ReplyAssumption DEF GateGeneratesFresh, Lazy, StartPlayback,
    FreshLocals
<1>5. CASE GateDrops
  BY <1>5, <1>0, ReplyAssumption DEF GateDrops, CancelAllBut
<1>6. CASE HangupAtGate
  BY <1>6, <1>0, ReplyAssumption DEF HangupAtGate
<1>7. ASSUME NEW c \in Candidates, Sentence(c) PROVE HeldInv'
  <2>1. CASE IsLazy(c)
    <3>1. Enqueued(replayed + 1) \/ Kept(replayed + 1)
      BY <1>7, <2>1, LazyMoves
    <3>2. replayed + 1 \in Sentences \union {Sentinel} /\ producer = "pulling"
      BY <1>7, <2>1, LazyMoves, Numbers
    <3>3. \A s \in Sentences : synth'[s] = "open" => s = replayed + 1 \/ synth[s] = "open"
      BY <1>7, <2>1 DEF Sentence, Synthesise, Types, ControlTypes, FcnTypes, SeqTypes
    <3>4. pending = NoJob /\ current' = current
      BY <1>7, <3>2 DEF RestInv, Sentence
    <3> QED
      BY <3>1, <3>2, <3>3, <3>4, <1>0, QueueAppend, Numbers DEF Enqueued, Kept
  <2>2. CASE ~IsLazy(c)
    BY <1>7, <2>2, <1>0 DEF Sentence
  <2>3. QED
    BY <2>1, <2>2
<1>8. ASSUME NEW c \in Candidates, StreamEnds(c) PROVE HeldInv'
  BY <1>8, <1>0, ReplyAssumption DEF StreamEnds
<1>9. ASSUME NEW c \in Candidates, StreamFails(c) PROVE HeldInv'
  BY <1>9, <1>0, ReplyAssumption DEF StreamFails
<1>10. ASSUME NEW c \in Candidates, FallbackReturns(c) PROVE HeldInv'
  BY <1>10, <1>0, ReplyAssumption DEF FallbackReturns
<1>11. CASE ProducerReplays
  <2>1. Enqueued(replayed + 1) \/ Kept(replayed + 1)
    BY <1>11, ReplayMoves
  <2>2. replayed + 1 \in Sentences \union {Sentinel}
    BY <1>11, ReplayMoves, Numbers
  <2>3. \A s \in Sentences : synth'[s] = "open" => s = replayed + 1 \/ synth[s] = "open"
    BY <1>11 DEF ProducerReplays, Synthesise, Types, ControlTypes, FcnTypes, SeqTypes
  <2>4. pending = NoJob /\ current' = current
    BY <1>11 DEF RestInv, ProducerReplays
  <2> QED
    BY <2>1, <2>2, <2>3, <2>4, <1>0, QueueAppend, Numbers DEF Enqueued, Kept
<1>12. CASE ProducerDefaults
  <2>1. Enqueued(Default) \/ Kept(Default)
    BY <1>12, EnqueueMoves, Zenon DEF ProducerDefaults
  <2>2. Default \in Sentences \union {Sentinel}
    BY <1>12, ReplayMoves, Numbers
  <2>3. \A s \in Sentences : synth'[s] = "open" => s = Default \/ synth[s] = "open"
    BY <1>12 DEF ProducerDefaults, Synthesise, Types, ControlTypes, FcnTypes, SeqTypes
  <2>4. pending = NoJob /\ current' = current
    BY <1>12 DEF RestInv, ProducerDefaults
  <2> QED
    BY <2>1, <2>2, <2>3, <2>4, <1>0, QueueAppend, Numbers DEF Enqueued, Kept
<1>13. CASE ProducerFinishes
  <2>1. Enqueued(Sentinel) \/ Kept(Sentinel)
    BY <1>13, EnqueueMoves, Zenon DEF ProducerFinishes
  <2>2. Sentinel \in Sentences \union {Sentinel}
    BY <1>13, ReplayMoves, Numbers
  <2>3. \A s \in Sentences : synth'[s] = "open" => s = Sentinel \/ synth[s] = "open"
    BY <1>13 DEF ProducerFinishes, Synthesise, Types, ControlTypes, FcnTypes, SeqTypes
  <2>4. pending = NoJob /\ current' = current
    BY <1>13, Zenon DEF RestInv, ProducerFinishes
  <2> QED
    BY <2>1, <2>2, <2>3, <2>4, <1>0, QueueAppend, Numbers DEF Enqueued, Kept
<1>14. CASE ProducerPuts
  <2>1. Enqueued(pending)
    BY <1>14, EnqueueMoves, ReplyAssumption DEF ProducerPuts, Kept, Types,
    ControlTypes, FcnTypes, SeqTypes
  <2>2. pending \in Sentences \union {Sentinel}
    BY <1>14 DEF ProducerPuts, RestInv, Types, ControlTypes, FcnTypes, SeqTypes
  <2>3. synth' = synth /\ current' = current
    BY <1>14 DEF ProducerPuts
  <2> QED
    BY <2>1, <2>2, <2>3, QueueAppend DEF Enqueued
<1>15. ASSUME NEW s \in Sentences, SynthEnds(s) PROVE HeldInv'
  <2>1. \A r \in Sentences : synth'[r] = "open" => synth[r] = "open"
    BY <1>15 DEF SynthEnds, Types, ControlTypes, FcnTypes, SeqTypes
  <2> QED
    BY <1>15, <2>1, <1>0 DEF SynthEnds
<1>16. CASE FillerFires
  BY <1>16, <1>0, ReplyAssumption DEF FillerFires
<1>17. CASE FillerEnds
  BY <1>17, <1>0, ReplyAssumption DEF FillerEnds
<1>18. CASE TakeJob
  <2>1. Len(jobs') <= JobMax
    BY <1>18, TakeMoves, ReplyAssumption
  <2>2. current = NoJob
    BY <1>18 DEF TakeJob, RestInv
  <2>3. jobs[1] = Sentinel \/ current' = jobs[1]
    BY <1>18, TakeMoves DEF TakeJob
  <2>4. synth' = synth /\ pending' = pending
    BY <1>18 DEF TakeJob
  <2> QED
    BY <1>18, <2>1, <2>2, <2>3, <2>4, QueueTail, Numbers
<1>19. CASE StopFiller
  BY <1>19, <1>0, ReplyAssumption DEF StopFiller
<1>20. CASE FirstChunk
  BY <1>20, <1>0, ReplyAssumption DEF FirstChunk
<1>21. CASE SentencePlayed
  <2>1. synth[current] = "done" /\ UNCHANGED <<synth, pending, jobs>>
    BY <1>21 DEF SentencePlayed
  <2> QED
    BY <2>1, <1>0
<1>22. CASE PlaybackFails
  BY <1>22, <1>0, ReplyAssumption DEF PlaybackFails, LeaveLoop
<1>23. CASE BargeIn
  BY <1>23, <1>0, ReplyAssumption DEF BargeIn, LeaveLoop
<1>24. CASE HangupWhileWaiting
  BY <1>24, <1>0, ReplyAssumption DEF HangupWhileWaiting, LeaveLoop
<1>25. CASE ProducerUnwinds
  <2>1. \A s \in Sentences : synth'[s] = "open" => synth[s] = "open" /\ s # pending
    BY <1>25 DEF ProducerUnwinds, Types, ControlTypes, FcnTypes, SeqTypes
  <2> QED
    BY <1>25, <2>1, <1>0 DEF ProducerUnwinds
<1>26. CASE Reap
  <2>1. pending = NoJob /\ Len(jobs') <= JobMax
    BY <1>26, ReplyAssumption DEF Reap, RestInv, CloseAll
  <2>2. \A s \in Sentences : synth'[s] = "open" =>
          synth[s] = "open" /\ s \notin Queue \union {current}
    BY <1>26, QueueRange DEF Reap, CloseAll, Types, ControlTypes, FcnTypes, SeqTypes
  <2> QED
    BY <2>1, <2>2, Numbers
<1>27. CASE UNCHANGED vars
  BY <1>27, <1>0, ReplyAssumption DEF vars
<1>28. QED
  BY <1>1, <1>2, <1>3, <1>4, <1>5, <1>6, <1>7, <1>8, <1>9, <1>10, <1>11, <1>12, <1>13,
      <1>14, <1>15, <1>16, <1>17, <1>18, <1>19, <1>20, <1>21, <1>22, <1>23, <1>24,
      <1>25, <1>26, <1>27, Zenon DEF Next, Gate, Generation, Producer, Teardown

\* The producer never overtakes the generation.
LEMMA PullStep ==
  ASSUME Types, RestInv, CandInv, PullInv, [Next]_vars
  PROVE  PullInv'
<1> USE DEF PullInv, Looping, turnVars, genVars, prodVars, fillerVars, outVars,
    others, fixed
<1>1. CASE BeginGatedTurn
  BY <1>1, ReplyAssumption DEF BeginGatedTurn, FreshLocals
<1>2. CASE BeginUngatedTurn
  BY <1>2, ReplyAssumption DEF BeginUngatedTurn, Lazy, StartPlayback, FreshLocals
<1>3. ASSUME NEW c \in Candidates, GateSelects(c) PROVE PullInv'
  BY <1>3, ReplyAssumption DEF GateSelects, CancelAllBut, StartPlayback, FreshLocals,
    CandInv, Types, ControlTypes, FcnTypes, SeqTypes
<1>4. CASE GateGeneratesFresh
  BY <1>4, ReplyAssumption DEF GateGeneratesFresh, Lazy, StartPlayback, FreshLocals
<1>5. CASE GateDrops
  BY <1>5, ReplyAssumption DEF GateDrops, CancelAllBut
<1>6. CASE HangupAtGate
  BY <1>6, ReplyAssumption DEF HangupAtGate
<1>7. ASSUME NEW c \in Candidates, Sentence(c) PROVE PullInv'
  <2>0. \/ c = winner /\ buffer'[winner] = buffer[winner] + 1
        \/ c # winner /\ buffer'[winner] = buffer[winner]
    BY <1>7 DEF Sentence, Types, ControlTypes, FcnTypes, SeqTypes
  <2>1. CASE IsLazy(c)
    <3>1. c = winner /\ ~defaulted /\ replayed = buffer[winner] /\ replayed' = replayed + 1
      BY <1>7, <2>1, LazyMoves, Zenon DEF Sentence
    <3>2. buffer'[winner] = replayed' /\ replayed' \in Int
      BY <2>0, <3>1 DEF Types, ControlTypes, FcnTypes, SeqTypes
    <3> QED
      <4>1. winner' = winner /\ defaulted' = defaulted
        BY <1>7, Zenon DEF Sentence
      <4>2. replayed' <= buffer'[winner'] /\ replayed' = buffer'[winner']
        BY <3>2, <4>1
      <4> QED
        BY <3>1, <4>1, <4>2, Zenon
  <2>2. CASE ~IsLazy(c)
    <3>1. UNCHANGED <<pc, winner, eager, replayed, defaulted, gen>>
      BY <1>7, <2>2 DEF Sentence
    <3>2. c = winner => eager /\ gen[winner] # "done"
      BY <1>7, <2>2, Zenon DEF Sentence, IsLazy
    <3>3. buffer[winner] \in Int /\ replayed \in Int
      BY DEF Types, ControlTypes, FcnTypes, SeqTypes
    <3>4. replayed <= buffer[winner] => replayed <= buffer'[winner]
      BY <2>0, <3>3
    <3> QED
      BY <2>0, <3>1, <3>2, <3>4
  <2>3. QED
    BY <2>1, <2>2
<1>8. ASSUME NEW c \in Candidates, StreamEnds(c) PROVE PullInv'
  BY <1>8, ReplyAssumption DEF StreamEnds, Types, ControlTypes, FcnTypes, SeqTypes
<1>9. ASSUME NEW c \in Candidates, StreamFails(c) PROVE PullInv'
  BY <1>9, ReplyAssumption DEF StreamFails, Types, ControlTypes, FcnTypes, SeqTypes
<1>10. ASSUME NEW c \in Candidates, FallbackReturns(c) PROVE PullInv'
  BY <1>10, ReplyAssumption DEF FallbackReturns, Types, ControlTypes, FcnTypes,
    SeqTypes
<1>11. CASE ProducerReplays
  BY <1>11, ReplayMoves, Zenon DEF ProducerReplays
<1>12. CASE ProducerDefaults
  BY <1>12, Zenon DEF ProducerDefaults
<1>13. CASE ProducerFinishes
  BY <1>13, Zenon DEF ProducerFinishes
<1>14. CASE ProducerPuts
  BY <1>14, Zenon DEF ProducerPuts
<1>15. ASSUME NEW s \in Sentences, SynthEnds(s) PROVE PullInv'
  BY <1>15, ReplyAssumption DEF SynthEnds
<1>16. CASE FillerFires
  BY <1>16, ReplyAssumption DEF FillerFires
<1>17. CASE FillerEnds
  BY <1>17, ReplyAssumption DEF FillerEnds
<1>18. CASE TakeJob
  BY <1>18 DEF TakeJob
<1>19. CASE StopFiller
  BY <1>19, ReplyAssumption DEF StopFiller
<1>20. CASE FirstChunk
  BY <1>20, ReplyAssumption DEF FirstChunk
<1>21. CASE SentencePlayed
  BY <1>21, ReplyAssumption DEF SentencePlayed
<1>22. CASE PlaybackFails
  BY <1>22, ReplyAssumption DEF PlaybackFails, LeaveLoop
<1>23. CASE BargeIn
  BY <1>23, ReplyAssumption DEF BargeIn, LeaveLoop
<1>24. CASE HangupWhileWaiting
  BY <1>24, ReplyAssumption DEF HangupWhileWaiting, LeaveLoop
<1>25. CASE ProducerUnwinds
  BY <1>25, ReplyAssumption DEF ProducerUnwinds, Live, Types, ControlTypes, FcnTypes,
    SeqTypes
<1>26. CASE Reap
  BY <1>26, ReplyAssumption DEF Reap, CloseAll, Capture, Live, Types, ControlTypes,
    FcnTypes, SeqTypes
<1>27. CASE UNCHANGED vars
  BY <1>27, ReplyAssumption, Zenon DEF vars
<1>28. QED
  BY <1>1, <1>2, <1>3, <1>4, <1>5, <1>6, <1>7, <1>8, <1>9, <1>10, <1>11, <1>12, <1>13,
      <1>14, <1>15, <1>16, <1>17, <1>18, <1>19, <1>20, <1>21, <1>22, <1>23, <1>24,
      <1>25, <1>26, <1>27, Zenon DEF Next, Gate, Generation, Producer, Teardown

-----------------------------------------------------------------------------
\* The order of the sentences.

\* The counts are natural numbers.
LEMMA Counts ==
  ASSUME Types
  PROVE  /\ Out \in Nat /\ Total \in Nat /\ Len(played) \in Nat /\ Len(jobs) \in Nat
         /\ Len(played) <= Out /\ (current = NoJob => Out = Len(played))
         /\ (current # NoJob => Out = Len(played) + 1)
<1>1. Len(played) \in Nat /\ Len(jobs) \in Nat
  BY DEF Types, SeqTypes
<1>2. replayed \in Nat
  BY ReplyAssumption DEF Types, ControlTypes
<1>3. QED
  BY <1>1, <1>2 DEF Out, Total

\* A put job is the last of the queue.
LEMMA Appended ==
  ASSUME Types, NEW job, Enqueued(job)
  PROVE  /\ Len(jobs') = Len(jobs) + 1 /\ jobs'[Len(jobs) + 1] = job
         /\ \A i \in 1..Len(jobs) : jobs'[i] = jobs[i]
<1>1. jobs \in Seq(Sentences \union {Sentinel}) /\ jobs' = Append(jobs, job)
  BY DEF Types, SeqTypes, Enqueued
<1>2. QED
  BY <1>1

\* A step that leaves the queue, its ends and what is spoken alone.
LEMMA OrderKept ==
  ASSUME Finished => Finished',
         UNCHANGED <<played, jobs, current, pending, producer, replayed, defaulted>>
  PROVE  (Order => Order') /\ (Unwound => Unwound')
<1>1. Out' = Out /\ Total' = Total
  BY DEF Out, Total
<1>2. (Spoken => Spoken') /\ (Speaking => Speaking')
  BY <1>1 DEF Spoken, Speaking
<1>3. InLine => InLine'
  BY <1>1 DEF InLine
<1>4. Ahead => Ahead'
  BY <1>1 DEF Ahead
<1>5. Unwound => Unwound'
  BY <1>1, <1>2 DEF Unwound
<1>6. QED
  BY <1>2, <1>3, <1>4, <1>5 DEF Order

\* The next sentence is put on the queue, or held.
LEMMA OrderPush ==
  ASSUME Types, Order, producer = "pulling",
         NEW job \in Sentences, Enqueued(job) \/ Kept(job),
         UNCHANGED <<played, current>>,
         Total' = Total + 1, job = Nth(defaulted', Total + 1),
         \A i \in 1..Total : Nth(defaulted', i) = Nth(defaulted, i)
  PROVE  Order'
<1>0. Spoken /\ Speaking /\ InLine /\ Ahead
  BY DEF Order
<1>1. Out' = Out /\ Out \in Nat /\ Total \in Nat /\ Len(jobs) \in Nat /\ Len(played) \in Nat
      /\ Len(played) <= Out /\ Total = Out + Len(jobs)
  BY <1>0, Counts DEF Out, Ahead
<1>2. Spoken'
  <2> SUFFICES ASSUME NEW i \in 1..Len(played) PROVE played[i] = Nth(defaulted', i)
    BY DEF Spoken
  <2>1. i \in 1..Total
    BY <1>1
  <2> QED
    BY <1>0, <2>1 DEF Spoken
<1>3. Speaking'
  <2> SUFFICES ASSUME current # NoJob PROVE current = Nth(defaulted', Out)
    BY <1>1 DEF Speaking
  <2>1. Out = Len(played) + 1
    BY Counts
  <2>2. Out \in 1..Total
    BY <1>1, <2>1
  <2> QED
    BY <1>0, <2>2 DEF Speaking
<1>4. ASSUME NEW i \in 1..Len(jobs) PROVE jobs[i] = Nth(defaulted', Out + i)
  <2>1. Out + i \in 1..Total
    BY <1>1
  <2>2. jobs[i] = Nth(defaulted, Out + i)
    BY <1>0 DEF InLine
  <2> QED
    BY <2>1, <2>2
<1>5. CASE Enqueued(job)
  <2>1. /\ Len(jobs') = Len(jobs) + 1 /\ jobs'[Len(jobs) + 1] = job
        /\ \A i \in 1..Len(jobs) : jobs'[i] = jobs[i]
    BY <1>5, Appended
  <2>2. producer' = "pulling"
    BY <1>5, Numbers DEF Enqueued
  <2>3. InLine'
    <3> SUFFICES ASSUME NEW i \in 1..Len(jobs') PROVE jobs'[i] = Nth(defaulted', Out + i)
      BY <1>1, <2>2 DEF InLine
    <3>1. CASE i = Len(jobs) + 1
      <4>1. Out + i = Total + 1
        BY <1>1, <3>1
      <4> QED
        BY <2>1, <3>1, <4>1
    <3>2. CASE i # Len(jobs) + 1
      <4>1. i \in 1..Len(jobs)
        BY <1>1, <2>1, <3>2
      <4> QED
        BY <1>4, <2>1, <4>1
    <3> QED
      BY <3>1, <3>2
  <2>4. Total' = Out' + Len(jobs')
    BY <1>1, <2>1
  <2>5. Ahead'
    BY <2>2, <2>4 DEF Ahead
  <2> QED
    BY <1>2, <1>3, <2>3, <2>5 DEF Order
<1>6. CASE Kept(job)
  <2>1. jobs' = jobs /\ pending' = job /\ producer' = "putting"
    BY <1>6 DEF Kept
  <2>2. InLine'
    BY <1>1, <1>4, <2>1 DEF InLine
  <2>3. Total' = Out' + Len(jobs') + 1
    BY <1>1, <2>1
  <2>4. pending' # Sentinel /\ pending' = Nth(defaulted', Total')
    BY <2>1, Numbers
  <2>5. Ahead'
    BY <2>1, <2>3, <2>4 DEF Ahead
  <2> QED
    BY <1>2, <1>3, <2>2, <2>5 DEF Order
<1>7. QED
  BY <1>5, <1>6

\* What a step that touches only the queue's end leaves alone.
LEMMA HeadKept ==
  ASSUME Order, UNCHANGED <<played, current, replayed, defaulted>>
  PROVE  Out' = Out /\ Total' = Total /\ Spoken' /\ Speaking'
<1>1. Out' = Out /\ Total' = Total
  BY DEF Out, Total
<1>2. QED
  BY <1>1 DEF Order, Spoken, Speaking

\* The sentinel closes a queue of sentences.
LEMMA LineCloses ==
  ASSUME Types, Enqueued(Sentinel), Out' = Out, defaulted' = defaulted,
         \A i \in 1..Len(jobs) : jobs[i] = Nth(defaulted, Out + i)
  PROVE  producer' = "over" /\ InLine'
<1>1. /\ Len(jobs') = Len(jobs) + 1 /\ jobs'[Len(jobs) + 1] = Sentinel
      /\ \A i \in 1..Len(jobs) : jobs'[i] = jobs[i]
  BY Appended
<1>2. producer' = "over"
  BY DEF Enqueued
<1>3. ASSUME NEW i \in 1..Len(jobs')
      PROVE  jobs'[i] = IF i = Len(jobs') THEN Sentinel ELSE Nth(defaulted, Out + i)
  <2>1. CASE i = Len(jobs')
    BY <1>1, <2>1
  <2>2. CASE i # Len(jobs')
    <3>1. i \in 1..Len(jobs)
      BY <1>1, <2>2, Counts
    <3> QED
      BY <1>1, <2>2, <3>1
  <2> QED
    BY <2>1, <2>2
<1>4. QED
  BY <1>2, <1>3 DEF InLine

\* The sentinel is put on the queue, or held.
LEMMA OrderFinish ==
  ASSUME Types, Order, producer = "pulling", Finished',
         Enqueued(Sentinel) \/ Kept(Sentinel),
         UNCHANGED <<played, current, replayed, defaulted>>
  PROVE  Order'
<1>0. InLine /\ Ahead
  BY DEF Order
<1>1. /\ Out' = Out /\ Total' = Total /\ Total = Out + Len(jobs) /\ Out \in Nat
      /\ Len(jobs) \in Nat /\ Spoken' /\ Speaking'
  BY <1>0, HeadKept, Counts DEF Ahead
<1>2. \A i \in 1..Len(jobs) : jobs[i] = Nth(defaulted, Out + i)
  BY <1>0 DEF InLine
<1>3. CASE Enqueued(Sentinel)
  <2>1. Len(jobs') = Len(jobs) + 1
    BY <1>3, Appended
  <2>2. producer' = "over" /\ InLine'
    BY <1>1, <1>2, <1>3, LineCloses
  <2>3. Len(jobs') > 0 /\ Total' = Out' + Len(jobs') - 1
    BY <1>1, <2>1
  <2>4. Ahead'
    BY <2>2, <2>3 DEF Ahead
  <2> QED
    BY <1>1, <2>2, <2>4 DEF Order
<1>4. CASE Kept(Sentinel)
  <2>1. jobs' = jobs /\ pending' = Sentinel /\ producer' = "putting"
    BY <1>4 DEF Kept
  <2>2. InLine'
    BY <1>1, <1>2, <2>1 DEF InLine
  <2>3. Ahead'
    BY <1>1, <2>1 DEF Ahead
  <2> QED
    BY <1>1, <2>2, <2>3 DEF Order
<1>5. QED
  BY <1>3, <1>4

\* The job that was held is put on the queue.
LEMMA OrderPut ==
  ASSUME Types, Order, producer = "putting", Finished => Finished',
         pending \in Sentences \union {Sentinel}, Enqueued(pending),
         UNCHANGED <<played, current, replayed, defaulted>>
  PROVE  Order'
<1>0. InLine /\ Ahead
  BY DEF Order
<1>1. /\ Out' = Out /\ Total' = Total /\ Out \in Nat /\ Total \in Nat
      /\ Len(jobs) \in Nat /\ Spoken' /\ Speaking'
  BY HeadKept, Counts
<1>2. \A i \in 1..Len(jobs) : jobs[i] = Nth(defaulted, Out + i)
  BY <1>0, Zenon DEF InLine
<1>3. /\ Len(jobs') = Len(jobs) + 1 /\ jobs'[Len(jobs) + 1] = pending
      /\ \A i \in 1..Len(jobs) : jobs'[i] = jobs[i]
  BY Appended
<1>4. CASE pending = Sentinel
  <2>1. Finished /\ Total = Out + Len(jobs)
    BY <1>0, <1>4 DEF Ahead
  <2>2. producer' = "over" /\ InLine'
    BY <1>1, <1>2, <1>4, LineCloses
  <2>3. Len(jobs') > 0 /\ Total' = Out' + Len(jobs') - 1
    BY <1>1, <1>3, <2>1
  <2>4. Ahead'
    BY <2>1, <2>2, <2>3 DEF Ahead
  <2> QED
    BY <1>1, <2>2, <2>4 DEF Order
<1>5. CASE pending # Sentinel
  <2>1. producer' = "pulling"
    BY <1>5 DEF Enqueued
  <2>2. Total = Out + Len(jobs) + 1 /\ pending = Nth(defaulted, Total)
    BY <1>0, <1>5 DEF Ahead
  <2>3. Total' = Out' + Len(jobs')
    <3>1. Total' = Total /\ Out' = Out /\ Len(jobs') = Len(jobs) + 1
      BY <1>1, <1>3, Zenon
    <3>2. Total = Out + Len(jobs) + 1
      BY <2>2
    <3> QED
      BY <1>1, <3>1, <3>2
  <2>4. ASSUME NEW i \in 1..Len(jobs') PROVE jobs'[i] = Nth(defaulted, Out + i)
    <3>1. CASE i = Len(jobs) + 1
      <4>1. Out + i = Total
        BY <1>1, <2>2, <3>1
      <4> QED
        BY <1>3, <2>2, <3>1, <4>1
    <3>2. CASE i # Len(jobs) + 1
      <4>1. i \in 1..Len(jobs)
        BY <1>1, <1>3, <3>2
      <4> QED
        BY <1>2, <1>3, <4>1
    <3> QED
      BY <3>1, <3>2
  <2>5. InLine'
    BY <1>1, <2>1, <2>4 DEF InLine
  <2>6. Ahead'
    BY <2>1, <2>3 DEF Ahead
  <2> QED
    BY <1>1, <2>5, <2>6 DEF Order
<1>6. QED
  BY <1>4, <1>5

\* A sentence is taken off the queue to be played.
LEMMA OrderTake ==
  ASSUME Types, RestInv, Order, TakeJob, Head(jobs) # Sentinel
  PROVE  Order'
<1>0. Spoken /\ InLine /\ Ahead
  BY DEF Order
<1>1. /\ current = NoJob /\ current' = jobs[1] /\ current' # NoJob
      /\ UNCHANGED <<played, pending, producer, replayed, defaulted, gen, buffer, winner>>
  BY TakeMoves, Numbers, Zenon DEF TakeJob, RestInv, fixed, turnVars, genVars, prodVars
<1>2. /\ Len(jobs) \in Nat \ {0} /\ Len(jobs') = Len(jobs) - 1
      /\ \A i \in 1..Len(jobs') : jobs'[i] = jobs[i + 1]
  BY TakeMoves
<1>3. Out \in Nat /\ Out' = Out + 1 /\ Total' = Total /\ Total \in Nat
  BY <1>1, Counts DEF Out, Total
<1>4. ~(producer = "over" /\ Len(jobs) = 1) /\ jobs[1] = Nth(defaulted, Out + 1)
  <2>1. 1 \in 1..Len(jobs) /\ jobs[1] # Sentinel
    BY <1>2, TakeMoves
  <2> QED
    BY <1>0, <2>1 DEF InLine
<1>5. Spoken'
  BY <1>0, <1>1 DEF Spoken
<1>6. Speaking'
  BY <1>1, <1>3, <1>4 DEF Speaking
<1>7. ASSUME NEW i \in 1..Len(jobs')
      PROVE  jobs'[i] = IF producer = "over" /\ i = Len(jobs') THEN Sentinel
                        ELSE Nth(defaulted, Out' + i)
  <2>1. /\ i + 1 \in 1..Len(jobs) /\ Out + (i + 1) = Out' + i
        /\ (i + 1 = Len(jobs) <=> i = Len(jobs'))
    BY <1>2, <1>3
  <2>2. jobs[i + 1] = IF producer = "over" /\ i + 1 = Len(jobs) THEN Sentinel
                      ELSE Nth(defaulted, Out + (i + 1))
    BY <1>0, <2>1 DEF InLine
  <2> QED
    BY <1>2, <2>1, <2>2, Zenon
<1>8. InLine'
  BY <1>1, <1>7 DEF InLine
<1>9. Out + Len(jobs) = Out' + Len(jobs')
  BY <1>2, <1>3
<1>10. producer = "over" => Len(jobs') > 0
  BY <1>2, <1>4
<1>11. Finished => Finished'
  BY <1>1 DEF Finished
<1>12. Ahead'
  BY <1>0, <1>1, <1>3, <1>9, <1>10, <1>11 DEF Ahead
<1>13. QED
  BY <1>5, <1>6, <1>8, <1>12 DEF Order

\* The current sentence has been played.
LEMMA OrderPlayed ==
  ASSUME Types, RestInv, Order, SentencePlayed
  PROVE  Order'
<1>0. Spoken /\ Speaking /\ InLine /\ Ahead
  BY DEF Order
<1>1. /\ current # NoJob /\ current \in Sentences
      /\ current' = NoJob /\ played' = Append(played, current)
      /\ UNCHANGED <<jobs, pending, producer, replayed, defaulted, gen, buffer, winner>>
  BY DEF SentencePlayed, RestInv, Types, ControlTypes, turnVars, genVars, prodVars
<1>2. /\ Len(played) \in Nat /\ Len(played') = Len(played) + 1
      /\ played'[Len(played) + 1] = current
      /\ \A i \in 1..Len(played) : played'[i] = played[i]
  BY <1>1 DEF Types, SeqTypes
<1>3. Out = Len(played) + 1 /\ Out' = Out /\ Total' = Total
  BY <1>1, <1>2 DEF Out, Total
<1>4. ASSUME NEW i \in 1..Len(played') PROVE played'[i] = Nth(defaulted, i)
  <2>1. CASE i = Len(played) + 1
    BY <1>0, <1>1, <1>2, <1>3, <2>1 DEF Speaking
  <2>2. CASE i # Len(played) + 1
    <3>1. i \in 1..Len(played)
      BY <1>2, <2>2
    <3> QED
      BY <1>0, <1>2, <3>1 DEF Spoken
  <2> QED
    BY <2>1, <2>2
<1>5. Spoken' /\ Speaking'
  BY <1>1, <1>4 DEF Spoken, Speaking
<1>6. InLine'
  BY <1>0, <1>1, <1>3 DEF InLine
<1>7. Finished => Finished'
  BY <1>1 DEF Finished
<1>8. Ahead'
  BY <1>0, <1>1, <1>3, <1>7 DEF Ahead
<1>9. QED
  BY <1>5, <1>6, <1>8 DEF Order

\* A turn begins with nothing spoken and nothing queued.
LEMMA OrderFresh ==
  ASSUME played' = <<>>, jobs' = <<>>, current' = NoJob, producer' = "pulling",
         replayed' = 0, defaulted' = FALSE
  PROVE  Order'
<1>1. Out' = 0 /\ Total' = 0 /\ Len(jobs') = 0 /\ Len(played') = 0
  BY DEF Out, Total
<1>2. Spoken' /\ Speaking' /\ InLine'
  BY <1>1 DEF Spoken, Speaking, InLine
<1>3. Ahead'
  BY <1>1 DEF Ahead
<1>4. QED
  BY <1>2, <1>3 DEF Order

\* The producer is cancelled before it has put the sentinel.
LEMMA OrderUnwinds ==
  ASSUME Types, Order, ProducerUnwinds, producer # "none"
  PROVE  Unwound'
<1>0. Spoken /\ Speaking /\ InLine /\ Ahead
  BY DEF Order
<1>1. UNCHANGED <<played, jobs, current, replayed, defaulted>> /\ producer # "over"
      /\ producer' = "over"
  BY DEF ProducerUnwinds, outVars
<1>2. Out' = Out /\ Total' = Total /\ Spoken' /\ Speaking'
  BY <1>1, HeadKept
<1>3. \A i \in 1..Len(jobs) : jobs[i] = Nth(defaulted, Out + i)
  BY <1>0, <1>1 DEF InLine
<1>4. Total = Out + Len(jobs) \/ Total = Out + Len(jobs) + 1
  <2>1. producer = "pulling" \/ producer = "putting"
    BY <1>1 DEF Types, ControlTypes
  <2> QED
    BY <1>0, <2>1 DEF Ahead
<1>5. QED
  BY <1>1, <1>2, <1>3, <1>4 DEF Unwound

\* A step that leaves the line alone keeps it while the turn runs.
LEMMA LineKept ==
  ASSUME OrderInv, Finished => Finished',
         UNCHANGED <<played, jobs, current, pending, producer, replayed, defaulted>>,
         Looping' => Looping,
         pc' = "reap" /\ ending' # "complete" =>
           Looping \/ (pc = "reap" /\ ending # "complete")
  PROVE  OrderInv'
BY OrderKept DEF OrderInv

\* A step of the producer, which is not over, keeps the line.
LEMMA LineMoves ==
  ASSUME OrderInv, producer # "over", UNCHANGED <<pc, ending>>, Order => Order'
  PROVE  OrderInv'
BY DEF OrderInv, Looping, Unwound

\* What is spoken, queued and held is the reply so far, in order.
LEMMA OrderStep ==
  ASSUME Types, RestInv, PullInv, OrderInv, [Next]_vars
  PROVE  OrderInv'
<1> USE DEF turnVars, genVars, prodVars, fillerVars, outVars, others, fixed
<1>1. CASE BeginGatedTurn
  BY <1>1 DEF BeginGatedTurn, OrderInv, Looping
<1>2. CASE BeginUngatedTurn
  <2>1. /\ played' = <<>> /\ jobs' = <<>> /\ current' = NoJob /\ producer' = "pulling"
        /\ replayed' = 0 /\ defaulted' = FALSE
    BY <1>2 DEF BeginUngatedTurn, StartPlayback, FreshLocals
  <2> QED
    BY <2>1, OrderFresh, Zenon DEF OrderInv
<1>3. ASSUME NEW c \in Candidates, GateSelects(c) PROVE OrderInv'
  <2>1. /\ played' = <<>> /\ jobs' = <<>> /\ current' = NoJob /\ producer' = "pulling"
        /\ replayed' = 0 /\ defaulted' = FALSE
    BY <1>3 DEF GateSelects, StartPlayback, FreshLocals
  <2> QED
    BY <2>1, OrderFresh, Zenon DEF OrderInv
<1>4. CASE GateGeneratesFresh
  <2>1. /\ played' = <<>> /\ jobs' = <<>> /\ current' = NoJob /\ producer' = "pulling"
        /\ replayed' = 0 /\ defaulted' = FALSE
    BY <1>4 DEF GateGeneratesFresh, StartPlayback, FreshLocals
  <2> QED
    BY <2>1, OrderFresh, Zenon DEF OrderInv
<1>5. CASE GateDrops
  BY <1>5 DEF GateDrops, OrderInv, Looping
<1>6. CASE HangupAtGate
  BY <1>6 DEF HangupAtGate, OrderInv, Looping
<1>7. ASSUME NEW c \in Candidates, Sentence(c) PROVE OrderInv'
  <2>1. CASE IsLazy(c)
    <3>1. /\ ~defaulted /\ replayed + 1 \in 1..MaxSentences /\ producer = "pulling"
          /\ Enqueued(replayed + 1) \/ Kept(replayed + 1)
      BY <1>7, <2>1, LazyMoves, Zenon DEF Sentence
    <3>2. UNCHANGED <<pc, ending, played, current, defaulted>> /\ replayed' = replayed + 1
      BY <1>7, <2>1 DEF Sentence
    <3>3. Total' = Total + 1 /\ replayed + 1 = Nth(defaulted', Total + 1)
      BY <3>1, <3>2 DEF Total, Nth
    <3>4. replayed + 1 \in Sentences
      BY <3>1, Numbers
    <3>5. Order => Order'
      BY <3>1, <3>2, <3>3, <3>4, OrderPush
    <3> QED
      BY <3>1, <3>2, <3>5, LineMoves
  <2>2. CASE ~IsLazy(c)
    <3>1. Finished => Finished'
      BY <1>7, <2>2 DEF Sentence, Finished, Types, FcnTypes
    <3> QED
      BY <1>7, <2>2, <3>1, LineKept DEF Sentence, Looping
  <2>3. QED
    BY <2>1, <2>2
<1>8. ASSUME NEW c \in Candidates, StreamEnds(c) PROVE OrderInv'
  <2>1. Finished => Finished'
    BY <1>8 DEF StreamEnds, Finished, Types, ControlTypes, FcnTypes
  <2> QED
    BY <1>8, <2>1, LineKept DEF StreamEnds, Looping
<1>9. ASSUME NEW c \in Candidates, StreamFails(c) PROVE OrderInv'
  <2>1. Finished => Finished'
    BY <1>9, Zenon DEF StreamFails, Finished, Types, ControlTypes, FcnTypes
  <2> QED
    BY <1>9, <2>1, LineKept DEF StreamFails, Looping
<1>10. ASSUME NEW c \in Candidates, FallbackReturns(c) PROVE OrderInv'
  <2>1. Finished => Finished'
    BY <1>10 DEF FallbackReturns, Finished, Types, ControlTypes, FcnTypes
  <2> QED
    BY <1>10, <2>1, LineKept DEF FallbackReturns, Looping
<1>11. CASE ProducerReplays
  <2>1. /\ ~defaulted /\ replayed + 1 \in 1..MaxSentences /\ producer = "pulling"
        /\ Enqueued(replayed + 1) \/ Kept(replayed + 1)
    BY <1>11, ReplayMoves DEF ProducerReplays
  <2>2. UNCHANGED <<pc, ending, played, current, defaulted>> /\ replayed' = replayed + 1
    BY <1>11 DEF ProducerReplays
  <2>3. Total' = Total + 1 /\ replayed + 1 = Nth(defaulted', Total + 1)
    BY <2>1, <2>2 DEF Total, Nth
  <2>4. replayed + 1 \in Sentences
    BY <2>1, Numbers
  <2>5. Order => Order'
    BY <2>1, <2>2, <2>3, <2>4, OrderPush
  <2> QED
    BY <2>1, <2>2, <2>5, LineMoves
<1>12. CASE ProducerDefaults
  <2>1. Enqueued(Default) \/ Kept(Default)
    BY <1>12, EnqueueMoves, Zenon DEF ProducerDefaults
  <2>2. /\ UNCHANGED <<pc, ending, played, current, replayed>> /\ ~defaulted /\ defaulted' = TRUE
        /\ producer = "pulling" /\ buffer[winner] = 0
    BY <1>12 DEF ProducerDefaults
  <2>3. Looping \/ pc = "reap"
    BY <2>2 DEF RestInv, Looping, Types, ControlTypes
  <2>4. replayed <= buffer[winner] /\ replayed \in Nat
    BY <2>3, ReplyAssumption DEF PullInv, Types, ControlTypes
  <2>5. Total = 0
    BY <2>2, <2>4 DEF Total
  <2>6. Total' = Total + 1 /\ Default = Nth(defaulted', Total + 1) /\ 1..Total = {}
    BY <2>2, <2>5 DEF Total, Nth
  <2>7. Order => Order'
    BY <2>1, <2>2, <2>6, OrderPush, Numbers, Zenon
  <2> QED
    BY <2>2, <2>7, LineMoves
<1>13. CASE ProducerFinishes
  <2>1. Enqueued(Sentinel) \/ Kept(Sentinel)
    BY <1>13, EnqueueMoves, Zenon DEF ProducerFinishes
  <2>2. /\ UNCHANGED <<pc, ending, played, current, replayed, defaulted>>
        /\ producer = "pulling" /\ Finished'
    BY <1>13 DEF ProducerFinishes, Finished
  <2>3. Order => Order'
    BY <2>1, <2>2, OrderFinish
  <2> QED
    BY <2>2, <2>3, LineMoves
<1>14. CASE ProducerPuts
  <2>1. Enqueued(pending)
    BY <1>14, EnqueueMoves, ReplyAssumption DEF ProducerPuts, Kept, Types, SeqTypes
  <2>2. /\ UNCHANGED <<pc, ending, played, current, replayed, defaulted>>
        /\ producer = "putting"
        /\ Finished => Finished'
    BY <1>14, Zenon DEF ProducerPuts, Finished
  <2>3. pending \in Sentences \union {Sentinel}
    BY <2>2 DEF RestInv, Types, ControlTypes
  <2>4. Order => Order'
    BY <2>1, <2>2, <2>3, OrderPut
  <2> QED
    BY <2>2, <2>4, LineMoves
<1>15. ASSUME NEW s \in Sentences, SynthEnds(s) PROVE OrderInv'
  <2>1. Finished => Finished'
    BY <1>15, Zenon DEF SynthEnds, Finished, Types, ControlTypes, FcnTypes
  <2> QED
    BY <1>15, <2>1, LineKept DEF SynthEnds, Looping
<1>16. CASE FillerFires
  <2>1. Finished => Finished'
    BY <1>16, Zenon DEF FillerFires, Finished, Types, ControlTypes, FcnTypes
  <2> QED
    BY <1>16, <2>1, LineKept DEF FillerFires, Looping
<1>17. CASE FillerEnds
  <2>1. Finished => Finished'
    BY <1>17, Zenon DEF FillerEnds, Finished, Types, ControlTypes, FcnTypes
  <2> QED
    BY <1>17, <2>1, LineKept DEF FillerEnds, Looping
<1>18. CASE TakeJob
  <2>1. CASE Head(jobs) = Sentinel
    BY <1>18, <2>1 DEF TakeJob, OrderInv, Looping
  <2>2. CASE Head(jobs) # Sentinel
    <3>1. Order /\ pc' # "reap"
      BY <1>18, <2>2 DEF TakeJob, OrderInv, Looping
    <3>2. Order'
      BY <1>18, <2>2, <3>1, OrderTake
    <3> QED
      BY <3>1, <3>2 DEF OrderInv
  <2>3. QED
    BY <2>1, <2>2
<1>19. CASE StopFiller
  <2>1. Finished => Finished'
    BY <1>19, Zenon DEF StopFiller, Finished, Types, ControlTypes, FcnTypes
  <2> QED
    BY <1>19, <2>1, LineKept DEF StopFiller, Looping
<1>20. CASE FirstChunk
  <2>1. Finished => Finished'
    BY <1>20, Zenon DEF FirstChunk, Finished, Types, ControlTypes, FcnTypes
  <2> QED
    BY <1>20, <2>1, LineKept DEF FirstChunk, Looping
<1>21. CASE SentencePlayed
  <2>1. Order /\ pc' # "reap"
    BY <1>21 DEF SentencePlayed, OrderInv, Looping
  <2>2. Order'
    BY <1>21, <2>1, OrderPlayed
  <2> QED
    BY <2>1, <2>2 DEF OrderInv
<1>22. CASE PlaybackFails
  <2>1. Finished => Finished'
    BY <1>22, Zenon DEF PlaybackFails, LeaveLoop, Finished
  <2> QED
    BY <1>22, <2>1, LineKept DEF PlaybackFails, LeaveLoop, Looping
<1>23. CASE BargeIn
  <2>1. Finished => Finished'
    BY <1>23, Zenon DEF BargeIn, LeaveLoop, Finished
  <2> QED
    BY <1>23, <2>1, LineKept DEF BargeIn, LeaveLoop, Looping
<1>24. CASE HangupWhileWaiting
  <2>1. Finished => Finished'
    BY <1>24, Zenon DEF HangupWhileWaiting, LeaveLoop, Finished
  <2> QED
    BY <1>24, <2>1, LineKept DEF HangupWhileWaiting, LeaveLoop, Looping
<1>25. CASE ProducerUnwinds
  <2>1. /\ pc = "reap" /\ pc' = "reap" /\ ending' = ending
        /\ producer # "over" /\ producer # "none"
    BY <1>25, Zenon DEF ProducerUnwinds, RestInv, Looping
  <2>2. Order => Unwound'
    BY <1>25, <2>1, OrderUnwinds
  <2> QED
    BY <2>1, <2>2, Zenon DEF OrderInv, Looping, Unwound
<1>26. CASE Reap
  BY <1>26 DEF Reap, OrderInv, Looping
<1>27. CASE UNCHANGED vars
  BY <1>27, LineKept, Zenon DEF vars, Looping, Finished
<1>28. QED
  BY <1>1, <1>2, <1>3, <1>4, <1>5, <1>6, <1>7, <1>8, <1>9, <1>10, <1>11, <1>12, <1>13,
    <1>14, <1>15, <1>16, <1>17, <1>18, <1>19, <1>20, <1>21, <1>22, <1>23, <1>24,
    <1>25, <1>26, <1>27 DEF Next, Gate, Generation, Producer, Teardown


\* A step that leaves the functions alone.
LEMMA FcnKept ==
  ASSUME FcnTypes, UNCHANGED <<gen, buffer, synth>>
  PROVE  FcnTypes'
BY DEF FcnTypes

\* A step that leaves the sequences alone.
LEMMA SeqKept ==
  ASSUME SeqTypes, UNCHANGED <<jobs, played, captured>>
  PROVE  SeqTypes'
BY DEF SeqTypes

\* A step that leaves the control state alone.
LEMMA ControlKept ==
  ASSUME ControlTypes,
         UNCHANGED <<pc, turnVars, prodVars, current, firstAudio, ending, fillerVars>>
  PROVE  ControlTypes'
BY DEF ControlTypes, turnVars, prodVars, fillerVars

\* The types of what the consumer loop and the filler change.
LoopTypes ==
  /\ pc \in {"idle", "gate", "get", "preempt", "play", "reap", "gone"}
  /\ current \in Sentences \union {NoJob}
  /\ ending \in {"open", "complete", "interrupted", "failed", "hungup", "abandoned"}
  /\ firstAudio \in BOOLEAN

FillerTypes ==
  /\ timer \in {"none", "armed", "cancelled", "over"}
  /\ filler \in {"none", "playing", "over"}
  /\ used \subseteq Phrases

\* A step of the consumer loop or of the filler.
LEMMA ControlMoves ==
  ASSUME ControlTypes, UNCHANGED <<turnVars, prodVars>>, LoopTypes', FillerTypes'
  PROVE  ControlTypes'
<1>1. /\ turns' \in 0..MaxTurns /\ winner' \in Candidates
      /\ eager' \in BOOLEAN /\ restructure' \in BOOLEAN
  BY Zenon DEF ControlTypes, turnVars
<1>2. /\ replayed' \in 0..MaxSentences /\ defaulted' \in BOOLEAN
      /\ producer' \in {"none", "pulling", "putting", "over"}
      /\ pending' \in Sentences \union {Sentinel, NoJob}
  BY Zenon DEF ControlTypes, prodVars
<1>3. QED
  BY <1>1, <1>2, Zenon DEF ControlTypes, LoopTypes, FillerTypes

\* A job is created, and queued or held.
LEMMA TypePush ==
  ASSUME Types, NEW job \in Sentences \union {Sentinel}, Enqueued(job) \/ Kept(job),
         synth' \in [Sentences -> Vendor], buffer' \in [Candidates -> 0..MaxSentences],
         replayed' \in 0..MaxSentences, defaulted' \in BOOLEAN, UNCHANGED <<gen, others>>
  PROVE  Types'
<1> USE DEF turnVars, fillerVars, outVars, others
<1>1. /\ pending' \in Sentences \union {Sentinel, NoJob}
      /\ producer' \in {"none", "pulling", "putting", "over"}
  BY DEF Enqueued, Kept
<1>2. jobs' \in Seq(Sentences \union {Sentinel})
  <2>1. CASE Enqueued(job)
    BY <2>1, AppendType, Zenon DEF Enqueued
  <2>2. CASE Kept(job)
    BY <2>2, Zenon DEF Kept, Types, SeqTypes
  <2> QED
    BY <2>1, <2>2
<1>3. ControlTypes'
  BY <1>1 DEF Types, ControlTypes
<1>4. FcnTypes' /\ SeqTypes'
  BY <1>2 DEF Types, FcnTypes, SeqTypes
<1>5. QED
  BY <1>3, <1>4 DEF Types

\* A turn or a playback begins.
LEMMA TypeFresh ==
  ASSUME Types, FreshLocals, turns' \in 0..MaxTurns, winner' \in Candidates,
         eager' \in BOOLEAN, restructure' \in BOOLEAN, gen' \in [Candidates -> Progress],
         buffer' \in [Candidates -> 0..MaxSentences],
         pc' \in {"gate", "get"}, producer' \in {"none", "pulling"},
         timer' = timer \/ timer' \in {"armed", "none"}, UNCHANGED <<filler, used>>
  PROVE  Types'
<1>1. replayed' \in 0..MaxSentences
  BY ReplyAssumption DEF FreshLocals
<1>2. ControlTypes'
  BY <1>1, Zenon DEF FreshLocals, Types, ControlTypes
<1>3. synth' \in [Sentences -> Vendor]
  BY DEF FreshLocals, Vendor
<1>4. FcnTypes' /\ SeqTypes'
  BY <1>3 DEF FreshLocals, FcnTypes, SeqTypes
<1>5. QED
  BY <1>2, <1>4 DEF Types

\* The types, once the captured remainder has its own.
LEMMA TypeStep ==
  ASSUME Types, RestInv, PullInv, Reap => captured' \in Seq(Sentences), [Next]_vars
  PROVE  Types'
<1> USE DEF turnVars, genVars, prodVars, fillerVars, outVars, others, fixed
<1>1. CASE BeginGatedTurn
  <2>1. gen' \in [Candidates -> Progress]
    BY <1>1 DEF BeginGatedTurn, FreshLocals, Types, FcnTypes, Progress
  <2>2. buffer' \in [Candidates -> 0..MaxSentences]
    BY <1>1, ReplyAssumption DEF BeginGatedTurn, FreshLocals, Types, FcnTypes
  <2>3. turns' \in 0..MaxTurns
    <3>1. turns \in Nat /\ turns <= MaxTurns
      BY ReplyAssumption DEF Types, ControlTypes
    <3> QED
      BY <1>1, <3>1, ReplyAssumption DEF BeginGatedTurn
  <2>4. FreshLocals /\ winner' \in Candidates /\ eager' \in BOOLEAN /\ restructure' \in BOOLEAN
    BY <1>1, ReplyAssumption, Zenon DEF BeginGatedTurn, Types, ControlTypes
  <2> QED
    BY <1>1, <2>1, <2>2, <2>3, <2>4, TypeFresh DEF BeginGatedTurn, StartPlayback
<1>2. CASE BeginUngatedTurn
  <2>1. gen' \in [Candidates -> Progress]
    BY <1>2 DEF BeginUngatedTurn, Lazy, StartPlayback, FreshLocals, Types, FcnTypes,
    Progress
  <2>2. buffer' \in [Candidates -> 0..MaxSentences]
    BY <1>2, ReplyAssumption DEF BeginUngatedTurn, Lazy, StartPlayback, FreshLocals,
    Types, FcnTypes
  <2>3. turns' \in 0..MaxTurns
    <3>1. turns \in Nat /\ turns <= MaxTurns
      BY ReplyAssumption DEF Types, ControlTypes
    <3> QED
      BY <1>2, <3>1, ReplyAssumption DEF BeginUngatedTurn
  <2>4. FreshLocals /\ winner' \in Candidates /\ eager' \in BOOLEAN /\ restructure' \in BOOLEAN
    BY <1>2, ReplyAssumption, Zenon DEF BeginUngatedTurn, Lazy, StartPlayback, Types,
        ControlTypes
  <2> QED
    BY <1>2, <2>1, <2>2, <2>3, <2>4, TypeFresh DEF BeginUngatedTurn, StartPlayback
<1>3. ASSUME NEW c \in Candidates, GateSelects(c) PROVE Types'
  <2>1. gen' \in [Candidates -> Progress]
    BY <1>3 DEF GateSelects, CancelAllBut, StartPlayback, FreshLocals, Types,
    FcnTypes, Progress
  <2>2. buffer' \in [Candidates -> 0..MaxSentences]
    BY <1>3, ReplyAssumption DEF GateSelects, CancelAllBut, StartPlayback,
    FreshLocals, Types, FcnTypes
  <2>3. turns' \in 0..MaxTurns
    BY <1>3 DEF GateSelects, Types, ControlTypes
  <2>4. FreshLocals /\ winner' \in Candidates /\ eager' \in BOOLEAN /\ restructure' \in BOOLEAN
    BY <1>3, ReplyAssumption, Zenon DEF GateSelects, CancelAllBut, StartPlayback, Types,
        ControlTypes
  <2> QED
    BY <1>3, <2>1, <2>2, <2>3, <2>4, TypeFresh DEF GateSelects, StartPlayback
<1>4. CASE GateGeneratesFresh
  <2>1. gen' \in [Candidates -> Progress]
    BY <1>4 DEF GateGeneratesFresh, Lazy, StartPlayback, FreshLocals, Types, FcnTypes,
    Progress
  <2>2. buffer' \in [Candidates -> 0..MaxSentences]
    BY <1>4, ReplyAssumption DEF GateGeneratesFresh, Lazy, StartPlayback, FreshLocals,
    Types, FcnTypes
  <2>3. turns' \in 0..MaxTurns
    BY <1>4 DEF GateGeneratesFresh, Types, ControlTypes
  <2>4. FreshLocals /\ winner' \in Candidates /\ eager' \in BOOLEAN /\ restructure' \in BOOLEAN
    BY <1>4, ReplyAssumption, Zenon DEF GateGeneratesFresh, Lazy, StartPlayback, Types,
        ControlTypes
  <2> QED
    BY <1>4, <2>1, <2>2, <2>3, <2>4, TypeFresh DEF GateGeneratesFresh, StartPlayback
<1>5. CASE GateDrops
  <2>1. FcnTypes'
    BY <1>5, ReplyAssumption DEF GateDrops, CancelAllBut, Types, FcnTypes, Progress
  <2>2. ControlTypes'
    <3>1. LoopTypes'
      BY <1>5 DEF GateDrops, Types, ControlTypes, LoopTypes
    <3>2. FillerTypes'
      BY <1>5 DEF GateDrops, Types, ControlTypes, FillerTypes
    <3> QED
      BY <1>5, <3>1, <3>2, ControlMoves DEF GateDrops, Types
  <2> QED
    BY <1>5, <2>1, <2>2, SeqKept, Zenon DEF GateDrops, CancelAllBut, Types
<1>6. CASE HangupAtGate
  <2>1. ControlTypes'
    <3>1. LoopTypes'
      BY <1>6 DEF HangupAtGate, Types, ControlTypes, LoopTypes
    <3>2. FillerTypes'
      BY <1>6 DEF HangupAtGate, Types, ControlTypes, FillerTypes
    <3> QED
      BY <1>6, <3>1, <3>2, ControlMoves DEF HangupAtGate, Types
  <2> QED
    BY <1>6, <2>1, FcnKept, SeqKept DEF HangupAtGate, Types
<1>7. ASSUME NEW c \in Candidates, Sentence(c) PROVE Types'
  <2>1. CASE IsLazy(c)
    <3>1. Enqueued(replayed + 1) \/ Kept(replayed + 1)
      BY <1>7, <2>1, LazyMoves, Zenon DEF Sentence
    <3>2. (replayed + 1) \in Sentences \union {Sentinel}
      BY <1>7, <2>1, LazyMoves, Numbers, Zenon DEF Sentence
    <3>3. synth' \in [Sentences -> Vendor]
      BY <1>7, <2>1, <2>1, LazyMoves, Numbers, Zenon DEF Sentence, Synthesise, Types,
          FcnTypes, Vendor
    <3>4. buffer' \in [Candidates -> 0..MaxSentences]
      BY <1>7, <2>1, ReplyAssumption DEF Sentence, Types, FcnTypes
    <3>5. replayed' \in 0..MaxSentences
      <4>1. replayed' = replayed + 1 /\ replayed + 1 \in 1..MaxSentences
        BY <1>7, <2>1, LazyMoves, Zenon DEF Sentence
      <4> QED
        BY <4>1
    <3>6. defaulted' \in BOOLEAN
      BY <1>7, <2>1, Zenon DEF Sentence, Types, ControlTypes
    <3> QED
      BY <1>7, <2>1, <3>1, <3>2, <3>3, <3>4, <3>5, <3>6, TypePush, Zenon DEF Sentence
  <2>2. CASE ~IsLazy(c)
    <3>1. buffer' \in [Candidates -> 0..MaxSentences]
      BY <1>7, ReplyAssumption DEF Sentence, Types, FcnTypes
    <3>2. FcnTypes'
      BY <1>7, <2>2, <3>1 DEF Sentence, Types, FcnTypes
    <3>3. ControlTypes'
      BY <1>7, <2>2, ControlKept DEF Sentence, Types
    <3> QED
      BY <1>7, <2>2, <3>2, <3>3, SeqKept, Zenon DEF Sentence, Types
  <2>3. QED
    BY <2>1, <2>2
<1>8. ASSUME NEW c \in Candidates, StreamEnds(c) PROVE Types'
  <2>1. FcnTypes'
    BY <1>8 DEF StreamEnds, Types, FcnTypes, Progress
  <2>2. ControlTypes'
    BY <1>8, ControlKept DEF StreamEnds, Types
  <2> QED
    BY <1>8, <2>1, <2>2, SeqKept DEF StreamEnds, Types
<1>9. ASSUME NEW c \in Candidates, StreamFails(c) PROVE Types'
  <2>1. FcnTypes'
    BY <1>9 DEF StreamFails, Types, FcnTypes, Progress
  <2>2. ControlTypes'
    BY <1>9, ControlKept DEF StreamFails, Types
  <2> QED
    BY <1>9, <2>1, <2>2, SeqKept DEF StreamFails, Types
<1>10. ASSUME NEW c \in Candidates, FallbackReturns(c) PROVE Types'
  <2>1. FcnTypes'
    BY <1>10 DEF FallbackReturns, Types, FcnTypes, Progress
  <2>2. ControlTypes'
    BY <1>10, ControlKept DEF FallbackReturns, Types
  <2> QED
    BY <1>10, <2>1, <2>2, SeqKept DEF FallbackReturns, Types
<1>11. CASE ProducerReplays
  <2>1. Enqueued(replayed + 1) \/ Kept(replayed + 1)
    BY <1>11, ReplayMoves DEF ProducerReplays
  <2>2. (replayed + 1) \in Sentences \union {Sentinel}
    BY <1>11, ReplayMoves, Numbers, Zenon DEF ProducerReplays
  <2>3. synth' \in [Sentences -> Vendor]
    BY <1>11, ReplayMoves, Numbers, Zenon DEF ProducerReplays, Synthesise, Types,
        FcnTypes, Vendor
  <2>4. buffer' \in [Candidates -> 0..MaxSentences]
    BY <1>11 DEF ProducerReplays, Types, FcnTypes
  <2>5. replayed' \in 0..MaxSentences
    <3>1. replayed' = replayed + 1 /\ replayed + 1 \in 1..MaxSentences
      BY <1>11, ReplayMoves DEF ProducerReplays
    <3> QED
      BY <3>1
  <2>6. defaulted' \in BOOLEAN
    BY <1>11, Zenon DEF ProducerReplays, Types, ControlTypes
  <2> QED
    BY <1>11, <2>1, <2>2, <2>3, <2>4, <2>5, <2>6, TypePush, Zenon DEF ProducerReplays
<1>12. CASE ProducerDefaults
  <2>1. Enqueued(Default) \/ Kept(Default)
    BY <1>12, EnqueueMoves, Zenon DEF ProducerDefaults
  <2>2. Default \in Sentences \union {Sentinel}
    BY <1>12, EnqueueMoves, Numbers, Zenon DEF ProducerDefaults
  <2>3. synth' \in [Sentences -> Vendor]
    BY <1>12, Numbers DEF ProducerDefaults, Synthesise, Types, FcnTypes, Vendor
  <2>4. buffer' \in [Candidates -> 0..MaxSentences]
    BY <1>12 DEF ProducerDefaults, Types, FcnTypes
  <2>5. replayed' \in 0..MaxSentences /\ defaulted' \in BOOLEAN
    BY <1>12, Zenon DEF ProducerDefaults, Types, ControlTypes
  <2> QED
    BY <1>12, <2>1, <2>2, <2>3, <2>4, <2>5, TypePush, Zenon DEF ProducerDefaults
<1>13. CASE ProducerFinishes
  <2>1. Enqueued(Sentinel) \/ Kept(Sentinel)
    BY <1>13, EnqueueMoves, Zenon DEF ProducerFinishes
  <2>2. Sentinel \in Sentences \union {Sentinel}
    BY <1>13, EnqueueMoves, Numbers, Zenon DEF ProducerFinishes
  <2>3. synth' \in [Sentences -> Vendor]
    BY <1>13 DEF ProducerFinishes, Types, FcnTypes, Vendor
  <2>4. buffer' \in [Candidates -> 0..MaxSentences]
    BY <1>13 DEF ProducerFinishes, Types, FcnTypes
  <2>5. replayed' \in 0..MaxSentences /\ defaulted' \in BOOLEAN
    BY <1>13, Zenon DEF ProducerFinishes, Types, ControlTypes
  <2> QED
    BY <1>13, <2>1, <2>2, <2>3, <2>4, <2>5, TypePush, Zenon DEF ProducerFinishes
<1>14. CASE ProducerPuts
  <2>1. Enqueued(pending) \/ Kept(pending)
    BY <1>14, EnqueueMoves DEF ProducerPuts
  <2>2. pending \in Sentences \union {Sentinel}
    BY <1>14, EnqueueMoves, Numbers, Zenon DEF ProducerPuts, RestInv, Types,
        ControlTypes
  <2>3. synth' \in [Sentences -> Vendor]
    BY <1>14 DEF ProducerPuts, Types, FcnTypes, Vendor
  <2>4. buffer' \in [Candidates -> 0..MaxSentences]
    BY <1>14 DEF ProducerPuts, Types, FcnTypes
  <2>5. replayed' \in 0..MaxSentences /\ defaulted' \in BOOLEAN
    BY <1>14, Zenon DEF ProducerPuts, Types, ControlTypes
  <2> QED
    BY <1>14, <2>1, <2>2, <2>3, <2>4, <2>5, TypePush, Zenon DEF ProducerPuts
<1>15. ASSUME NEW s \in Sentences, SynthEnds(s) PROVE Types'
  <2>1. FcnTypes'
    BY <1>15 DEF SynthEnds, Types, FcnTypes, Vendor
  <2>2. ControlTypes'
    BY <1>15, ControlKept DEF SynthEnds, Types
  <2> QED
    BY <1>15, <2>1, <2>2, SeqKept DEF SynthEnds, Types
<1>16. CASE FillerFires
  <2>1. ControlTypes'
    <3>1. LoopTypes'
      BY <1>16, Zenon DEF FillerFires, Types, ControlTypes, LoopTypes
    <3>2. FillerTypes'
      BY <1>16 DEF FillerFires, Types, ControlTypes, FillerTypes
    <3> QED
      BY <1>16, <3>1, <3>2, ControlMoves DEF FillerFires, Types
  <2> QED
    BY <1>16, <2>1, FcnKept, SeqKept DEF FillerFires, Types
<1>17. CASE FillerEnds
  <2>1. ControlTypes'
    <3>1. LoopTypes'
      BY <1>17, Zenon DEF FillerEnds, Types, ControlTypes, LoopTypes
    <3>2. FillerTypes'
      BY <1>17 DEF FillerEnds, Types, ControlTypes, FillerTypes
    <3> QED
      BY <1>17, <3>1, <3>2, ControlMoves DEF FillerEnds, Types
  <2> QED
    BY <1>17, <2>1, FcnKept, SeqKept DEF FillerEnds, Types
<1>18. CASE TakeJob
  <2>1. SeqTypes'
    BY <1>18, TakeMoves, Zenon DEF TakeJob, fixed, Types, SeqTypes
  <2>2. ControlTypes'
    <3>1. current' \in Sentences \union {NoJob}
      BY <1>18, TakeMoves, Zenon DEF TakeJob, Types, ControlTypes
    <3>2. LoopTypes'
      BY <1>18, <3>1, Zenon DEF TakeJob, Types, ControlTypes, LoopTypes
    <3>3. FillerTypes'
      BY <1>18 DEF TakeJob, Types, ControlTypes, FillerTypes
    <3> QED
      BY <1>18, <3>2, <3>3, ControlMoves DEF TakeJob, Types
  <2> QED
    BY <1>18, <2>1, <2>2, FcnKept DEF TakeJob, Types
<1>19. CASE StopFiller
  <2>1. ControlTypes'
    <3>1. LoopTypes'
      BY <1>19 DEF StopFiller, Types, ControlTypes, LoopTypes
    <3>2. FillerTypes'
      BY <1>19 DEF StopFiller, Types, ControlTypes, FillerTypes
    <3> QED
      BY <1>19, <3>1, <3>2, ControlMoves DEF StopFiller, Types
  <2> QED
    BY <1>19, <2>1, FcnKept, SeqKept DEF StopFiller, Types
<1>20. CASE FirstChunk
  <2>1. ControlTypes'
    <3>1. LoopTypes'
      BY <1>20 DEF FirstChunk, Types, ControlTypes, LoopTypes
    <3>2. FillerTypes'
      BY <1>20 DEF FirstChunk, Types, ControlTypes, FillerTypes
    <3> QED
      BY <1>20, <3>1, <3>2, ControlMoves DEF FirstChunk, Types
  <2> QED
    BY <1>20, <2>1, FcnKept, SeqKept DEF FirstChunk, Types
<1>21. CASE SentencePlayed
  <2>1. SeqTypes'
    <3>1. current \in Sentences
      BY <1>21, Zenon DEF SentencePlayed, RestInv, Types, ControlTypes
    <3> QED
      BY <1>21, <3>1 DEF SentencePlayed, Types, SeqTypes
  <2>2. ControlTypes'
    <3>1. LoopTypes'
      BY <1>21 DEF SentencePlayed, Types, ControlTypes, LoopTypes
    <3>2. FillerTypes'
      BY <1>21 DEF SentencePlayed, Types, ControlTypes, FillerTypes
    <3> QED
      BY <1>21, <3>1, <3>2, ControlMoves DEF SentencePlayed, Types
  <2> QED
    BY <1>21, <2>1, <2>2, FcnKept, Zenon DEF SentencePlayed, Types
<1>22. CASE PlaybackFails
  <2>1. SeqTypes'
    BY <1>22 DEF PlaybackFails, LeaveLoop, Types, SeqTypes
  <2>2. ControlTypes'
    <3>1. LoopTypes'
      BY <1>22 DEF PlaybackFails, LeaveLoop, Types, ControlTypes, LoopTypes
    <3>2. FillerTypes'
      BY <1>22 DEF PlaybackFails, LeaveLoop, Types, ControlTypes, FillerTypes
    <3> QED
      BY <1>22, <3>1, <3>2, ControlMoves DEF PlaybackFails, LeaveLoop, Types
  <2> QED
    BY <1>22, <2>1, <2>2, FcnKept DEF PlaybackFails, LeaveLoop, Types
<1>23. CASE BargeIn
  <2>1. SeqTypes'
    <3>1. current \in Sentences
      BY <1>23 DEF BargeIn, RestInv, Types, ControlTypes
    <3>2. captured' = <<>> \/ captured' = <<current>>
      BY <1>23 DEF BargeIn, LeaveLoop
    <3> QED
      BY <1>23, <3>1, <3>2 DEF BargeIn, LeaveLoop, Types, SeqTypes
  <2>2. ControlTypes'
    <3>1. LoopTypes'
      BY <1>23 DEF BargeIn, LeaveLoop, Types, ControlTypes, LoopTypes
    <3>2. FillerTypes'
      BY <1>23 DEF BargeIn, LeaveLoop, Types, ControlTypes, FillerTypes
    <3> QED
      BY <1>23, <3>1, <3>2, ControlMoves DEF BargeIn, LeaveLoop, Types
  <2> QED
    BY <1>23, <2>1, <2>2, FcnKept DEF BargeIn, LeaveLoop, Types
<1>24. CASE HangupWhileWaiting
  <2>1. SeqTypes'
    BY <1>24 DEF HangupWhileWaiting, LeaveLoop, Types, SeqTypes
  <2>2. ControlTypes'
    <3>1. LoopTypes'
      BY <1>24 DEF HangupWhileWaiting, LeaveLoop, Types, ControlTypes, LoopTypes
    <3>2. FillerTypes'
      BY <1>24 DEF HangupWhileWaiting, LeaveLoop, Types, ControlTypes, FillerTypes
    <3> QED
      BY <1>24, <3>1, <3>2, ControlMoves DEF HangupWhileWaiting, LeaveLoop, Types
  <2> QED
    BY <1>24, <2>1, <2>2, FcnKept DEF HangupWhileWaiting, LeaveLoop, Types
<1>25. CASE ProducerUnwinds
  <2>1. FcnTypes'
    <3>1. gen' \in [Candidates -> Progress]
      BY <1>25, Zenon DEF ProducerUnwinds, Types, FcnTypes, Progress
    <3>2. synth' \in [Sentences -> Vendor]
      BY <1>25, Zenon DEF ProducerUnwinds, Types, FcnTypes, Vendor
    <3> QED
      BY <1>25, <3>1, <3>2, Zenon DEF ProducerUnwinds, Types, FcnTypes
  <2>2. ControlTypes'
    BY <1>25, Zenon DEF ProducerUnwinds, Types, ControlTypes
  <2> QED
    BY <1>25, <2>1, <2>2, SeqKept, Zenon DEF ProducerUnwinds, Types
<1>26. CASE Reap
  <2>1. FcnTypes'
    <3>1. gen' \in [Candidates -> Progress]
      BY <1>26, Zenon DEF Reap, Types, FcnTypes, Progress
    <3>2. synth' \in [Sentences -> Vendor]
      BY <1>26, Zenon DEF Reap, CloseAll, Types, FcnTypes, Vendor
    <3> QED
      BY <1>26, <3>1, <3>2, Zenon DEF Reap, Types, FcnTypes
  <2>2. SeqTypes'
    BY <1>26 DEF Reap, CloseAll, Types, SeqTypes
  <2>3. ControlTypes'
    BY <1>26, Zenon DEF Reap, CloseAll, Types, ControlTypes
  <2> QED
    BY <1>26, <2>1, <2>2, <2>3, Zenon DEF Reap, CloseAll, Capture, Types
<1>27. CASE UNCHANGED vars
  BY <1>27, ControlKept, FcnKept, SeqKept DEF vars, Types
<1>28. QED
  BY <1>1, <1>2, <1>3, <1>4, <1>5, <1>6, <1>7, <1>8, <1>9, <1>10, <1>11, <1>12, <1>13,
      <1>14, <1>15, <1>16, <1>17, <1>18, <1>19, <1>20, <1>21, <1>22, <1>23, <1>24,
      <1>25, <1>26, <1>27, Zenon DEF Next, Gate, Generation, Producer, Teardown

-----------------------------------------------------------------------------
\* The reply that was spoken to its end.

\* A step that leaves what was spoken and the finished stream alone.
LEMMA WholeKept ==
  ASSUME WholeInv, UNCHANGED <<played, winner>>,
         ending' = "complete" /\ pc' # "gone" => ending = "complete" /\ pc # "gone",
         gen[winner] = "done" => gen'[winner] = "done" /\ buffer'[winner] = buffer[winner]
  PROVE  WholeInv'
BY Zenon DEF WholeInv

\* The sentinel is taken when all of the stream has been spoken.
LEMMA WholeTake ==
  ASSUME Types, RestInv, PullInv, OrderInv, TakeJob, Head(jobs) = Sentinel
  PROVE  WholeInv'
<1>1. /\ Looping /\ current = NoJob
      /\ UNCHANGED <<played, gen, buffer, winner>>
  BY Zenon DEF TakeJob, RestInv, Looping, fixed, turnVars, genVars
<1>0. Order
  BY <1>1 DEF OrderInv
<1>2. Len(jobs) \in Nat \ {0} /\ jobs[1] = Sentinel
  BY TakeMoves, Zenon
<1>3. Out = Len(played) /\ Out \in Nat /\ Total \in Nat
  BY <1>1, Counts DEF Out
<1>4. Nth(defaulted, Out + 1) # Sentinel
  BY <1>3 DEF Nth, Default, Sentinel
<1>5. producer = "over" /\ 1 = Len(jobs)
  <2>1. 1 \in 1..Len(jobs)
    BY <1>2
  <2>2. jobs[1] = IF producer = "over" /\ 1 = Len(jobs) THEN Sentinel ELSE Nth(defaulted, Out + 1)
    BY <1>0, <2>1 DEF Order, InLine
  <2> QED
    BY <1>2, <1>4, <2>2
<1>6. Finished /\ Total = Out + Len(jobs) - 1
  BY <1>0, <1>5 DEF Order, Ahead
<1>7. Total = Len(played)
  <2>1. Len(jobs) = 1 /\ Total = Out + Len(jobs) - 1
    BY <1>5, <1>6
  <2>2. Total = Out
    BY <1>3, <2>1
  <2> QED
    BY <1>3, <2>2
<1>8. \A i \in 1..Len(played) : played[i] = Nth(defaulted, i)
  BY <1>0 DEF Order, Spoken
<1>9. CASE defaulted
  <2>1. buffer[winner] = 0
    BY <1>1, <1>9 DEF PullInv
  <2>2. Len(played) = 1 /\ played[1] = Default
    BY <1>7, <1>8, <1>9 DEF Total, Nth
  <2>3. played = <<Default>>
    BY <2>2 DEF Types, ControlTypes, FcnTypes, SeqTypes
  <2>4. ~(buffer[winner] > 0)
    BY <2>1
  <2> QED
    BY <1>1, <1>6, <2>3, <2>4, Zenon DEF WholeInv, Finished
<1>10. CASE ~defaulted
  <2>1. Len(played) = buffer[winner] /\ buffer[winner] > 0
    BY <1>6, <1>7, <1>10, Zenon DEF Finished, Total
  <2>2. buffer[winner] # 0
    BY <2>1 DEF Types, ControlTypes, FcnTypes, SeqTypes
  <2>3. \A i \in 1..Len(played) : played[i] = i
    BY <1>8, <1>10 DEF Nth
  <2> QED
    BY <1>1, <1>6, <2>1, <2>2, <2>3, Zenon DEF WholeInv, Finished
<1>11. QED
  BY <1>9, <1>10 DEF Types, ControlTypes, FcnTypes, SeqTypes

\* A loop that was left through the sentinel spoke everything.
LEMMA WholeStep ==
  ASSUME Types, RestInv, PullInv, OrderInv, WholeInv, [Next]_vars
  PROVE  WholeInv'
<1> USE DEF turnVars, genVars, prodVars, fillerVars, outVars, others, fixed
<1>1. CASE BeginGatedTurn
  BY <1>1, Zenon DEF BeginGatedTurn, FreshLocals, WholeInv
<1>2. CASE BeginUngatedTurn
  BY <1>2, Zenon DEF BeginUngatedTurn, StartPlayback, FreshLocals, WholeInv
<1>3. ASSUME NEW c \in Candidates, GateSelects(c) PROVE WholeInv'
  BY <1>3, Zenon DEF GateSelects, StartPlayback, FreshLocals, WholeInv
<1>4. CASE GateGeneratesFresh
  BY <1>4, Zenon DEF GateGeneratesFresh, StartPlayback, FreshLocals, WholeInv
<1>5. CASE GateDrops
  BY <1>5, Zenon DEF GateDrops, RestInv, WholeInv
<1>6. CASE HangupAtGate
  BY <1>6, Zenon DEF HangupAtGate, WholeInv
<1>7. ASSUME NEW c \in Candidates, Sentence(c) PROVE WholeInv'
  <2>1. gen[winner] = "done" => gen'[winner] = "done" /\ buffer'[winner] = buffer[winner]
    BY <1>7, Zenon DEF Sentence, Types, ControlTypes, FcnTypes, SeqTypes
  <2> QED
    BY <1>7, <2>1, WholeKept, Zenon DEF Sentence
<1>8. ASSUME NEW c \in Candidates, StreamEnds(c) PROVE WholeInv'
  <2>1. gen[winner] = "done" => gen'[winner] = "done" /\ buffer'[winner] = buffer[winner]
    BY <1>8, Zenon DEF StreamEnds, Types, ControlTypes, FcnTypes, SeqTypes
  <2> QED
    BY <1>8, <2>1, WholeKept, Zenon DEF StreamEnds
<1>9. ASSUME NEW c \in Candidates, StreamFails(c) PROVE WholeInv'
  <2>1. gen[winner] = "done" => gen'[winner] = "done" /\ buffer'[winner] = buffer[winner]
    BY <1>9, Zenon DEF StreamFails, Types, ControlTypes, FcnTypes, SeqTypes
  <2> QED
    BY <1>9, <2>1, WholeKept, Zenon DEF StreamFails
<1>10. ASSUME NEW c \in Candidates, FallbackReturns(c) PROVE WholeInv'
  <2>1. gen[winner] = "done" => gen'[winner] = "done" /\ buffer'[winner] = buffer[winner]
    BY <1>10, Zenon DEF FallbackReturns, Types, ControlTypes, FcnTypes, SeqTypes
  <2> QED
    BY <1>10, <2>1, WholeKept, Zenon DEF FallbackReturns
<1>11. CASE ProducerReplays
  BY <1>11, WholeKept, Zenon DEF ProducerReplays
<1>12. CASE ProducerDefaults
  BY <1>12, WholeKept, Zenon DEF ProducerDefaults
<1>13. CASE ProducerFinishes
  BY <1>13, WholeKept, Zenon DEF ProducerFinishes
<1>14. CASE ProducerPuts
  BY <1>14, WholeKept, Zenon DEF ProducerPuts
<1>15. ASSUME NEW s \in Sentences, SynthEnds(s) PROVE WholeInv'
  BY <1>15, WholeKept, Zenon DEF SynthEnds
<1>16. CASE FillerFires
  BY <1>16, WholeKept, Zenon DEF FillerFires
<1>17. CASE FillerEnds
  BY <1>17, WholeKept, Zenon DEF FillerEnds
<1>18. CASE TakeJob
  <2>1. CASE Head(jobs) = Sentinel
    BY <1>18, <2>1, WholeTake
  <2>2. CASE Head(jobs) # Sentinel
    BY <1>18, <2>2, Zenon DEF TakeJob, RestInv, WholeInv
  <2>3. QED
    BY <2>1, <2>2
<1>19. CASE StopFiller
  BY <1>19, WholeKept, Zenon DEF StopFiller
<1>20. CASE FirstChunk
  BY <1>20, WholeKept, Zenon DEF FirstChunk
<1>21. CASE SentencePlayed
  BY <1>21, Zenon DEF SentencePlayed, RestInv, WholeInv
<1>22. CASE PlaybackFails
  BY <1>22, Zenon DEF PlaybackFails, LeaveLoop, WholeInv
<1>23. CASE BargeIn
  BY <1>23, Zenon DEF BargeIn, LeaveLoop, WholeInv
<1>24. CASE HangupWhileWaiting
  BY <1>24, Zenon DEF HangupWhileWaiting, LeaveLoop, WholeInv
<1>25. CASE ProducerUnwinds
  <2>1. gen[winner] = "done" => gen'[winner] = "done" /\ buffer'[winner] = buffer[winner]
    BY <1>25, Zenon DEF ProducerUnwinds, Live, Types, ControlTypes, FcnTypes, SeqTypes
  <2> QED
    BY <1>25, <2>1, WholeKept, Zenon DEF ProducerUnwinds
<1>26. CASE Reap
  <2>1. gen[winner] = "done" => gen'[winner] = "done" /\ buffer'[winner] = buffer[winner]
    BY <1>26, Zenon DEF Reap, Live, Types, ControlTypes, FcnTypes, SeqTypes
  <2> QED
    BY <1>26, <2>1, WholeKept DEF Reap
<1>27. CASE UNCHANGED vars
  BY <1>27, WholeKept, Zenon DEF vars
<1>28. QED
  BY <1>1, <1>2, <1>3, <1>4, <1>5, <1>6, <1>7, <1>8, <1>9, <1>10, <1>11, <1>12, <1>13,
      <1>14, <1>15, <1>16, <1>17, <1>18, <1>19, <1>20, <1>21, <1>22, <1>23, <1>24,
      <1>25, <1>26, <1>27, Zenon DEF Next, Gate, Generation, Producer, Teardown

\* The finally block begins with the sentence that was cut, or with nothing.
LEMMA CutStep ==
  ASSUME Types, RestInv, CutInv, [Next]_vars
  PROVE  CutInv'
<1> USE DEF turnVars, genVars, prodVars, fillerVars, outVars, others, fixed
<1>1. CASE BeginGatedTurn
  BY <1>1 DEF BeginGatedTurn, FreshLocals, CutInv, Looping
<1>2. CASE BeginUngatedTurn
  BY <1>2 DEF BeginUngatedTurn, StartPlayback, FreshLocals, CutInv, Looping
<1>3. ASSUME NEW c \in Candidates, GateSelects(c) PROVE CutInv'
  BY <1>3 DEF GateSelects, StartPlayback, FreshLocals, CutInv, Looping
<1>4. CASE GateGeneratesFresh
  BY <1>4 DEF GateGeneratesFresh, StartPlayback, FreshLocals, CutInv, Looping
<1>5. CASE GateDrops
  BY <1>5 DEF GateDrops, CutInv, Looping
<1>6. CASE HangupAtGate
  BY <1>6 DEF HangupAtGate, CutInv, Looping
<1>7. ASSUME NEW c \in Candidates, Sentence(c) PROVE CutInv'
  BY <1>7, Zenon DEF Sentence, CutInv, Looping
<1>8. ASSUME NEW c \in Candidates, StreamEnds(c) PROVE CutInv'
  BY <1>8, Zenon DEF StreamEnds, CutInv, Looping
<1>9. ASSUME NEW c \in Candidates, StreamFails(c) PROVE CutInv'
  BY <1>9, Zenon DEF StreamFails, CutInv, Looping
<1>10. ASSUME NEW c \in Candidates, FallbackReturns(c) PROVE CutInv'
  BY <1>10, Zenon DEF FallbackReturns, CutInv, Looping
<1>11. CASE ProducerReplays
  BY <1>11 DEF ProducerReplays, CutInv, Looping
<1>12. CASE ProducerDefaults
  BY <1>12, Zenon DEF ProducerDefaults, CutInv, Looping
<1>13. CASE ProducerFinishes
  BY <1>13, Zenon DEF ProducerFinishes, CutInv, Looping
<1>14. CASE ProducerPuts
  BY <1>14 DEF ProducerPuts, CutInv, Looping
<1>15. ASSUME NEW s \in Sentences, SynthEnds(s) PROVE CutInv'
  BY <1>15, Zenon DEF SynthEnds, CutInv, Looping
<1>16. CASE FillerFires
  BY <1>16, Zenon DEF FillerFires, CutInv, Looping
<1>17. CASE FillerEnds
  BY <1>17 DEF FillerEnds, CutInv, Looping
<1>18. CASE TakeJob
  BY <1>18, Zenon DEF TakeJob, CutInv, Looping, RestInv
<1>19. CASE StopFiller
  BY <1>19, Zenon DEF StopFiller, CutInv, Looping
<1>20. CASE FirstChunk
  BY <1>20, Zenon DEF FirstChunk, CutInv, Looping
<1>21. CASE SentencePlayed
  BY <1>21 DEF SentencePlayed, CutInv, Looping
<1>22. CASE PlaybackFails
  BY <1>22, Zenon DEF PlaybackFails, LeaveLoop, CutInv, Looping, RestInv
<1>23. CASE BargeIn
  BY <1>23, Zenon DEF BargeIn, LeaveLoop, CutInv, Looping, RestInv
<1>24. CASE HangupWhileWaiting
  BY <1>24, Zenon DEF HangupWhileWaiting, LeaveLoop, CutInv, Looping, RestInv
<1>25. CASE ProducerUnwinds
  BY <1>25, Zenon DEF ProducerUnwinds, CutInv, Looping
<1>26. CASE Reap
  BY <1>26, Zenon DEF Reap, CutInv, Looping
<1>27. CASE UNCHANGED vars
  BY <1>27, Zenon DEF vars, CutInv, Looping
<1>28. QED
  BY <1>1, <1>2, <1>3, <1>4, <1>5, <1>6, <1>7, <1>8, <1>9, <1>10, <1>11, <1>12, <1>13,
      <1>14, <1>15, <1>16, <1>17, <1>18, <1>19, <1>20, <1>21, <1>22, <1>23, <1>24,
      <1>25, <1>26, <1>27, Zenon DEF Next, Gate, Generation, Producer, Teardown

-----------------------------------------------------------------------------
\* What the finally block keeps of the reply.

\* The drain loop returns a queue of sentences, without the sentinel that may
\* close it.
Drained ==
  \A n \in 0..Len(jobs) :
    /\ n = Len(jobs) \/ (n = Len(jobs) - 1 /\ jobs[Len(jobs)] = Sentinel)
    /\ \A i \in 1..n : jobs[i] # Sentinel
    => Queued = SubSeq(jobs, 1, n)

\* The sentences generated and those pulled are numbers.
LEMMA Sizes ==
  ASSUME Types
  PROVE  replayed \in Nat /\ buffer[winner] \in Nat /\ buffer[winner] <= MaxSentences
<1>1. replayed \in 0..MaxSentences /\ buffer[winner] \in 0..MaxSentences
  BY Zenon DEF Types, ControlTypes, FcnTypes
<1>2. QED
  BY <1>1, ReplyAssumption

\* The elements of a prefix.
LEMMA PrefixFacts ==
  ASSUME NEW S, NEW s \in Seq(S), NEW n \in 0..Len(s), NEW T, \A i \in 1..n : s[i] \in T
  PROVE  /\ SubSeq(s, 1, n) \in Seq(T) /\ Len(SubSeq(s, 1, n)) = n
         /\ \A i \in 1..n : SubSeq(s, 1, n)[i] = s[i]
OBVIOUS

\* The elements of a concatenation.
LEMMA ConcatFacts ==
  ASSUME NEW S, NEW s \in Seq(S), NEW t \in Seq(S)
  PROVE  /\ s \o t \in Seq(S)
         /\ Len(s \o t) = Len(s) + Len(t) /\ Len(s) \in Nat /\ Len(t) \in Nat
         /\ \A i \in 1..Len(s) : (s \o t)[i] = s[i]
         /\ \A i \in 1..Len(t) : (s \o t)[Len(s) + i] = t[i]
OBVIOUS

\* What the drain loop finds in the queue.
LEMMA QueuedFacts ==
  ASSUME Types, Drained, Order \/ Unwound
  PROVE  /\ Queued \in Seq(Sentences)
         /\ Len(Queued) = IF Order /\ producer = "over" THEN Len(jobs) - 1 ELSE Len(jobs)
         /\ \A i \in 1..Len(Queued) : Queued[i] = Nth(defaulted, Out + i)
<1> DEFINE n == IF Order /\ producer = "over" THEN Len(jobs) - 1 ELSE Len(jobs)
<1>1. jobs \in Seq(Sentences \union {Sentinel}) /\ Len(jobs) \in Nat /\ Out \in Nat
  BY Counts DEF Types, SeqTypes
<1>2. /\ n \in 0..Len(jobs)
      /\ n = Len(jobs) \/ (n = Len(jobs) - 1 /\ jobs[Len(jobs)] = Sentinel)
  <2>1. CASE Order /\ producer = "over"
    <3>1. InLine /\ Len(jobs) > 0
      BY <2>1 DEF Order, Ahead
    <3>2. Len(jobs) \in 1..Len(jobs) /\ n = Len(jobs) - 1
      BY <1>1, <2>1, <3>1
    <3>3. jobs[Len(jobs)] = Sentinel
      BY <2>1, <3>1, <3>2, Zenon DEF InLine
    <3> QED
      BY <1>1, <3>1, <3>2, <3>3
  <2>2. CASE ~(Order /\ producer = "over")
    BY <1>1, <2>2
  <2> QED
    BY <2>1, <2>2
<1>3. ASSUME NEW i \in 1..n PROVE i \in 1..Len(jobs) /\ jobs[i] = Nth(defaulted, Out + i)
  <2>1. i \in 1..Len(jobs)
    BY <1>1, <1>2
  <2>2. CASE Order
    <3>1. ~(producer = "over" /\ i = Len(jobs))
      BY <1>1, <2>2
    <3> QED
      BY <2>1, <2>2, <3>1 DEF Order, InLine
  <2>3. CASE Unwound
    BY <2>1, <2>3 DEF Unwound
  <2> QED
    BY <2>2, <2>3
<1> HIDE DEF n
<1>4. ASSUME NEW i \in 1..n PROVE jobs[i] # Sentinel /\ jobs[i] \in Sentences
  <2>1. Nth(defaulted, Out + i) # Sentinel
    <3>1. Out + i \in Nat
      BY <1>1, <1>2
    <3> QED
      BY <3>1 DEF Nth, Sentinel, Default
  <2>2. jobs[i] \in Sentences \union {Sentinel}
    BY <1>1, <1>3
  <2> QED
    BY <1>3, <2>1, <2>2
<1>5. Queued = SubSeq(jobs, 1, n)
  BY <1>2, <1>4 DEF Drained
<1>6. /\ Queued \in Seq(Sentences) /\ Len(Queued) = n
      /\ \A i \in 1..n : Queued[i] = jobs[i]
  BY <1>1, <1>2, <1>4, <1>5, PrefixFacts
<1>7. \A i \in 1..Len(Queued) : Queued[i] = Nth(defaulted, Out + i)
  BY <1>3, <1>6
<1>8. QED
  BY <1>6, <1>7, Zenon DEF n

\* What was pulled and is not yet queued is at most one sentence.
LEMMA QueuedCount ==
  ASSUME Types, Drained, producer # "none", Order \/ Unwound
  PROVE  /\ Len(Queued) \in Nat
         /\ Total = Out + Len(Queued) \/ Total = Out + Len(Queued) + 1
<1>1. /\ Queued \in Seq(Sentences)
      /\ Len(Queued) = IF Order /\ producer = "over" THEN Len(jobs) - 1 ELSE Len(jobs)
  BY QueuedFacts
<1>2. Len(Queued) \in Nat /\ Out \in Nat /\ Total \in Nat /\ Len(jobs) \in Nat
  BY <1>1, Counts
<1>3. CASE Order /\ producer = "over"
  <2>1. Total = Out + Len(jobs) - 1 /\ Len(Queued) = Len(jobs) - 1
    BY <1>1, <1>3 DEF Order, Ahead
  <2> QED
    BY <1>2, <2>1
<1>4. CASE ~(Order /\ producer = "over")
  <2>1. Len(Queued) = Len(jobs)
    BY <1>1, <1>4
  <2>2. Total = Out + Len(jobs) \/ Total = Out + Len(jobs) + 1
    <3>1. CASE Order
      <4>1. producer = "pulling" \/ producer = "putting"
        BY <1>4, <3>1 DEF Types, ControlTypes
      <4> QED
        BY <3>1, <4>1 DEF Order, Ahead
    <3>2. CASE Unwound
      BY <3>2 DEF Unwound
    <3> QED
      BY <3>1, <3>2
  <2> QED
    BY <1>2, <2>1, <2>2
<1>5. QED
  BY <1>3, <1>4

\* The tail of the buffer that was not replayed.
LEMMA TailFacts ==
  ASSUME Types, PullInv, pc = "reap"
  PROVE  /\ BufferRemainder \in Seq(Sentences)
         /\ Len(BufferRemainder) = IF eager THEN buffer[winner] - replayed ELSE 0
         /\ \A i \in 1..Len(BufferRemainder) : BufferRemainder[i] = replayed + i
<1>1. /\ replayed \in Nat /\ buffer[winner] \in Nat /\ replayed <= buffer[winner]
      /\ buffer[winner] <= MaxSentences
  BY Sizes, Zenon DEF PullInv
<1>2. CASE eager
  <2> DEFINE n == buffer[winner] - replayed
             f == [i \in 1..n |-> replayed + i]
  <2>1. n \in Nat /\ \A i \in 1..n : replayed + i \in Sentences
    BY <1>1, ReplyAssumption DEF Sentences, Default
  <2> HIDE DEF n
  <2>2. f \in [1..n -> Sentences]
    BY <2>1
  <2>3. f \in Seq(Sentences) /\ Len(f) = n
    BY <2>1, <2>2
  <2>4. BufferRemainder = f
    BY <1>2 DEF BufferRemainder, n
  <2>5. \A i \in 1..Len(BufferRemainder) : BufferRemainder[i] = replayed + i
    BY <2>3, <2>4, Zenon
  <2> QED
    BY <1>2, <2>3, <2>4, <2>5, Zenon DEF n
<1>3. CASE ~eager
  BY <1>3 DEF BufferRemainder
<1>4. QED
  BY <1>2, <1>3

\* After a barge-in the cut sentence, the queued ones and the buffer's tail.
LEMMA RemainderFacts ==
  ASSUME Types, Drained, PullInv, OrderInv, CutInv, Reap, ending = "interrupted", ~restructure
  PROVE  /\ Order \/ Unwound
         /\ current # NoJob
         /\ captured' \in Seq(Sentences)
         /\ Len(captured') = 1 + Len(Queued) + Len(BufferRemainder)
         /\ \A i \in 1..(1 + Len(Queued)) : captured'[i] = Nth(defaulted, Len(played) + i)
         /\ \A i \in 1..Len(BufferRemainder) :
              captured'[1 + Len(Queued) + i] = replayed + i
<1>1. Order \/ Unwound
  BY DEF Reap, OrderInv
<1>2. current # NoJob /\ captured = <<current>> /\ pc = "reap"
  BY DEF Reap, CutInv
<1>3. current \in Sentences /\ current = Nth(defaulted, Out)
  BY <1>1, <1>2, Zenon DEF Order, Unwound, Speaking, Types, ControlTypes
<1>4. Out = Len(played) + 1 /\ Len(played) \in Nat
  BY <1>2, Counts
<1> DEFINE q == Queued
           t == BufferRemainder
           h == <<current>>
<1>5. q \in Seq(Sentences) /\ \A i \in 1..Len(q) : q[i] = Nth(defaulted, Out + i)
  BY <1>1, QueuedFacts
<1>6. t \in Seq(Sentences) /\ \A i \in 1..Len(t) : t[i] = replayed + i
  BY <1>2, TailFacts
<1>7. captured' = (h \o q) \o t
  BY <1>2 DEF Reap, Capture
<1>8. h \in Seq(Sentences) /\ Len(h) = 1 /\ h[1] = current
  BY <1>3
<1> HIDE DEF q, t, h
<1>9. /\ h \o q \in Seq(Sentences) /\ Len(h \o q) = 1 + Len(q) /\ Len(q) \in Nat
      /\ (h \o q)[1] = current
      /\ \A i \in 1..Len(q) : (h \o q)[1 + i] = q[i]
  <2>1. 1 \in 1..Len(h)
    BY <1>8
  <2>2. /\ h \o q \in Seq(Sentences) /\ Len(h \o q) = Len(h) + Len(q) /\ Len(q) \in Nat
        /\ \A i \in 1..Len(h) : (h \o q)[i] = h[i]
        /\ \A i \in 1..Len(q) : (h \o q)[Len(h) + i] = q[i]
    <3>1. h \in Seq(Sentences) /\ q \in Seq(Sentences)
      BY <1>5, <1>8, Zenon
    <3> QED
      BY <3>1, ConcatFacts
  <2> QED
    BY <1>8, <2>1, <2>2, Zenon
<1>10. /\ captured' \in Seq(Sentences) /\ Len(captured') = 1 + Len(q) + Len(t)
       /\ \A i \in 1..(1 + Len(q)) : captured'[i] = (h \o q)[i]
       /\ \A i \in 1..Len(t) : captured'[1 + Len(q) + i] = t[i]
  <2> DEFINE u == h \o q
  <2>1. u \in Seq(Sentences) /\ t \in Seq(Sentences)
    BY <1>6, <1>9, Zenon
  <2>3. Len(u) = 1 + Len(q)
    BY <1>9, Zenon
  <2> HIDE DEF u
  <2>2. /\ u \o t \in Seq(Sentences) /\ Len(u \o t) = Len(u) + Len(t)
        /\ \A i \in 1..Len(u) : (u \o t)[i] = u[i]
        /\ \A i \in 1..Len(t) : (u \o t)[Len(u) + i] = t[i]
    BY <2>1, ConcatFacts
  <2> QED
    BY <1>7, <2>2, <2>3, Zenon DEF u
<1>11. ASSUME NEW i \in 1..(1 + Len(q)) PROVE (h \o q)[i] = Nth(defaulted, Len(played) + i)
  <2>1. CASE i = 1
    BY <1>3, <1>4, <1>9, <2>1
  <2>2. CASE i # 1
    <3>1. i - 1 \in 1..Len(q) /\ 1 + (i - 1) = i /\ Out + (i - 1) = Len(played) + i
      BY <1>4, <1>9, <2>2
    <3>2. (h \o q)[1 + (i - 1)] = Nth(defaulted, Out + (i - 1))
      BY <1>5, <1>9, <3>1, Zenon
    <3> QED
      BY <3>1, <3>2, Zenon
  <2> QED
    BY <2>1, <2>2, Zenon
<1>12. QED
  BY <1>1, <1>2, <1>6, <1>10, <1>11, Zenon DEF q, t

\* The remainder that Reap captures is a sequence of sentences.
LEMMA ReapRemainder ==
  ASSUME Types, Drained, PullInv, OrderInv, CutInv, Reap
  PROVE  captured' \in Seq(Sentences)
<1>1. CASE ending = "interrupted" /\ ~restructure
  BY <1>1, RemainderFacts
<1>2. CASE ~(ending = "interrupted" /\ ~restructure)
  <2>1. captured = <<>>
    BY <1>2 DEF Reap, CutInv
  <2> QED
    BY <2>1 DEF Reap, Capture
<1>3. QED
  BY <1>1, <1>2

\* The numbers a remainder is made of: the spoken sentences are 1..p, the q + 1 of
\* the cut one and the queue follow, and the t of the buffer of b sentences begin
\* after the r-th.
Continues(c, p, q, r, b, t) ==
  /\ DOMAIN c = 1..(1 + q + t)
  /\ \A i \in 1..(1 + q) : c[i] = p + i
  /\ \A i \in 1..t : c[1 + q + i] = r + i
  /\ r = p + 1 + q \/ r = p + 1 + q + 1
  /\ r + t = b

\* They increase, repeat nothing spoken and leave out one at most.
Keeps(c, p, q, b) ==
  /\ \A i, j \in DOMAIN c : i < j => c[i] < c[j]
  /\ \A i \in DOMAIN c : c[i] \in Nat /\ c[i] > p
  /\ \A x \in 1..b : x > p /\ x # p + q + 2 => \E i \in DOMAIN c : c[i] = x

LEMMA RemainderOrder ==
  ASSUME NEW p \in Nat, NEW q \in Nat, NEW r \in Nat, NEW b \in Nat, NEW t \in Nat,
         NEW c, Continues(c, p, q, r, b, t)
  PROVE  Keeps(c, p, q, b)
<1> USE DEF Continues
<1>1. ASSUME NEW i \in DOMAIN c
      PROVE  \/ i \in 1..(1 + q) /\ c[i] = p + i
             \/ i > 1 + q /\ i \in Nat /\ c[i] = r + (i - (1 + q))
  <2>1. CASE i \in 1..(1 + q)
    BY <2>1
  <2>2. CASE i \notin 1..(1 + q)
    <3>1. i - (1 + q) \in 1..t /\ 1 + q + (i - (1 + q)) = i /\ i > 1 + q /\ i \in Nat
      BY <2>2
    <3>2. c[1 + q + (i - (1 + q))] = r + (i - (1 + q))
      BY <3>1, Zenon
    <3> QED
      BY <3>1, <3>2
  <2> QED
    BY <2>1, <2>2, Zenon
<1>2. \A i \in DOMAIN c : c[i] \in Nat /\ c[i] > p
  <2> SUFFICES ASSUME NEW i \in DOMAIN c PROVE c[i] \in Nat /\ c[i] > p
    OBVIOUS
  <2> QED
    BY <1>1
<1>3. ASSUME NEW i \in DOMAIN c, NEW j \in DOMAIN c, i < j PROVE c[i] < c[j]
  <2>1. /\ \/ i \in 1..(1 + q) /\ c[i] = p + i
           \/ i > 1 + q /\ i \in Nat /\ c[i] = r + (i - (1 + q))
        /\ \/ j \in 1..(1 + q) /\ c[j] = p + j
           \/ j > 1 + q /\ j \in Nat /\ c[j] = r + (j - (1 + q))
    BY <1>1
  <2>2. CASE j \in 1..(1 + q)
    BY <1>3, <2>1, <2>2
  <2>3. CASE j > 1 + q /\ j \in Nat /\ c[j] = r + (j - (1 + q))
    <3>1. CASE i \in 1..(1 + q) /\ c[i] = p + i
      BY <2>3, <3>1
    <3>2. CASE i > 1 + q /\ i \in Nat /\ c[i] = r + (i - (1 + q))
      BY <1>3, <2>3, <3>2
    <3> QED
      BY <2>1, <3>1, <3>2, Zenon
  <2> QED
    BY <2>1, <2>2, <2>3, Zenon
<1>4. ASSUME NEW x \in 1..b, x > p, x # p + q + 2 PROVE \E i \in DOMAIN c : c[i] = x
  <2>1. CASE x <= p + 1 + q
    <3>1. x - p \in 1..(1 + q) /\ p + (x - p) = x /\ x - p \in DOMAIN c
      BY <1>4, <2>1
    <3> QED
      BY <3>1, Zenon
  <2>2. CASE x > p + 1 + q
    <3>1. x - r \in 1..t /\ r + (x - r) = x /\ 1 + q + (x - r) \in DOMAIN c
      BY <1>4, <2>2
    <3> QED
      BY <3>1, Zenon
  <2> QED
    BY <2>1, <2>2
<1>5. QED
  BY <1>2, <1>3, <1>4, Zenon DEF Keeps

\* What the finally block keeps after a barge-in continues what was spoken.
LEMMA RemainderReaped ==
  ASSUME Types, Drained, RestInv, PullInv, OrderInv, CutInv, Reap,
         ending = "interrupted", ~restructure
  PROVE  RemainderInv'
<1> DEFINE p == Len(played)
           q == Len(Queued)
           t == Len(BufferRemainder)
           c == captured'
<1>1. /\ Order \/ Unwound
      /\ current # NoJob
      /\ c \in Seq(Sentences) /\ Len(c) = 1 + q + t
      /\ \A i \in 1..(1 + q) : c[i] = Nth(defaulted, p + i)
      /\ \A i \in 1..t : c[1 + q + i] = replayed + i
  BY RemainderFacts
<1>2. pc = "reap" /\ producer # "none" /\ UNCHANGED <<played, buffer, winner, defaulted>>
  BY Zenon DEF Reap, RestInv, turnVars, prodVars
<1>3. /\ p \in Nat /\ Out = p + 1 /\ q \in Nat /\ Total \in Nat
      /\ Total = p + 1 + q \/ Total = p + 1 + q + 1
  <2>1. p \in Nat /\ Out = p + 1 /\ Total \in Nat
    BY <1>1, Counts
  <2>2. q \in Nat /\ (Total = Out + q \/ Total = Out + q + 1)
    BY <1>1, <1>2, QueuedCount
  <2> QED
    BY <2>1, <2>2
<1>4. /\ replayed \in Nat /\ buffer[winner] \in Nat /\ replayed <= buffer[winner]
      /\ ~eager => replayed = buffer[winner]
      /\ defaulted => buffer[winner] = 0
  BY <1>2, Sizes, Zenon DEF PullInv
<1>5. t = (IF eager THEN buffer[winner] - replayed ELSE 0) /\ t \in Nat
      /\ replayed + t = buffer[winner]
  <2>1. t = IF eager THEN buffer[winner] - replayed ELSE 0
    BY <1>2, TailFacts
  <2> QED
    BY <1>4, <2>1
<1>6. DOMAIN c = 1..(1 + q + t) /\ DOMAIN played = 1..p
  BY <1>1 DEF Types, SeqTypes
<1>7. Spoken
  BY <1>1 DEF Order, Unwound
<1> HIDE DEF p, q, t, c
<1>8. CASE defaulted
  <2>1. p = 0 /\ q = 0 /\ t = 0
    <3>1. Total = 1 /\ buffer[winner] = 0
      BY <1>4, <1>8 DEF Total
    <3> QED
      BY <1>3, <1>4, <1>5, <3>1
  <2>2. DOMAIN c = {1} /\ c[1] = Default /\ DOMAIN played = {}
    <3>1. 1 \in 1..(1 + q) /\ 1..(1 + q + t) = {1} /\ 1..p = {}
      BY <2>1
    <3> QED
      BY <1>1, <1>6, <1>8, <3>1 DEF Nth
  <2>3. Range(played) = {} /\ Range(c) = {Default}
    BY <2>2 DEF Range
  <2>4. Unaccounted' = {}
    BY <1>2, <1>8, <2>3 DEF Unaccounted, Generated, c
  <2>6. \A i, j \in DOMAIN c : i < j => c[i] < c[j]
    BY <2>2
  <2> QED
    BY <1>2, <2>3, <2>4, <2>6 DEF RemainderInv, c
<1>9. CASE ~defaulted
  <2>1. Total = replayed /\ \A i : Nth(defaulted, i) = i
    BY <1>9 DEF Total, Nth
  <2>2. \A i \in 1..(1 + q) : c[i] = p + i
    BY <1>1, <2>1
  <2>3. replayed = p + 1 + q \/ replayed = p + 1 + q + 1
    BY <1>3, <2>1
  <2>4. /\ \A i, j \in DOMAIN c : i < j => c[i] < c[j]
        /\ \A i \in DOMAIN c : c[i] \in Nat /\ c[i] > p
        /\ \A x \in 1..buffer[winner] :
             x > p /\ x # p + q + 2 => \E i \in DOMAIN c : c[i] = x
    <3>1. Continues(c, p, q, replayed, buffer[winner], t)
      BY <1>1, <1>5, <1>6, <2>2, <2>3, Zenon DEF Continues
    <3>2. p \in Nat /\ q \in Nat /\ replayed \in Nat /\ buffer[winner] \in Nat /\ t \in Nat
      BY <1>3, <1>4, <1>5, Zenon
    <3>3. Keeps(c, p, q, buffer[winner])
      BY <3>1, <3>2, RemainderOrder
    <3> QED
      BY <3>3, Zenon DEF Keeps
  <2>5. \A i \in 1..p : played[i] = i
    BY <1>7, <2>1 DEF Spoken, p
  <2>6. Range(played) = 1..p
    BY <1>6, <2>5, Zenon DEF Range
  <2>7. Range(played) \intersect Range(c) = {}
    <3> SUFFICES ASSUME NEW i \in DOMAIN c PROVE c[i] \notin 1..p
      BY <2>6 DEF Range
    <3>1. c[i] \in Nat /\ c[i] > p
      BY <2>4
    <3> QED
      BY <1>3, <3>1
  <2>8. Unaccounted' \subseteq {p + q + 2}
    <3>1. Unaccounted' = (1..buffer[winner]) \ (Range(played) \union Range(c))
      BY <1>2, <1>9 DEF Unaccounted, Generated, c
    <3> SUFFICES ASSUME NEW x \in 1..buffer[winner], x \notin 1..p, x \notin Range(c),
                        x # p + q + 2
                 PROVE  FALSE
      BY <2>6, <3>1
    <3>2. x > p
      BY <1>3, <1>4
    <3>3. \E i \in DOMAIN c : c[i] = x
      BY <2>4, <3>2
    <3> QED
      BY <3>3, Zenon DEF Range
  <2> QED
    BY <1>2, <2>4, <2>7, <2>8 DEF RemainderInv, c
<1>10. QED
  BY <1>8, <1>9

\* A step that leaves the finished turn alone.
LEMMA RemainderKept ==
  ASSUME RemainderInv, Remainder' => Remainder,
         UNCHANGED <<played, captured, buffer, winner, defaulted>>
  PROVE  RemainderInv'
<1>1. Unaccounted' = Unaccounted
  BY DEF Unaccounted, Generated
<1>2. QED
  BY <1>1 DEF RemainderInv

\* A step that does not end an interrupted turn.
LEMMA RemainderNone ==
  ASSUME ~Remainder'
  PROVE  RemainderInv'
BY DEF RemainderInv

\* The remainder that was kept stays as it is until the next turn.
LEMMA RemainderStep ==
  ASSUME Types, Drained, RestInv, CandInv, PullInv, OrderInv, CutInv, RemainderInv,
         [Next]_vars
  PROVE  RemainderInv'
<1> USE DEF turnVars, genVars, prodVars, fillerVars, outVars, others, fixed
<1>1. CASE BeginGatedTurn
  BY <1>1, RemainderNone DEF BeginGatedTurn, Remainder
<1>2. CASE BeginUngatedTurn
  BY <1>2, RemainderNone DEF BeginUngatedTurn, StartPlayback, Remainder
<1>3. ASSUME NEW c \in Candidates, GateSelects(c) PROVE RemainderInv'
  BY <1>3, RemainderNone DEF GateSelects, StartPlayback, Remainder
<1>4. CASE GateGeneratesFresh
  BY <1>4, RemainderNone DEF GateGeneratesFresh, StartPlayback, Remainder
<1>5. CASE GateDrops
  BY <1>5, RemainderNone, Zenon DEF GateDrops, Remainder, RestInv
<1>6. CASE HangupAtGate
  BY <1>6, RemainderNone DEF HangupAtGate, Remainder
<1>7. ASSUME NEW c \in Candidates, Sentence(c) PROVE RemainderInv'
  <2>1. Live(c)
    BY <1>7, Zenon DEF Sentence, Live
  <2>2. pc # "idle"
    BY <2>1 DEF CandInv
  <2> QED
    BY <1>7, <2>2, RemainderNone, Zenon DEF Sentence, Remainder
<1>8. ASSUME NEW c \in Candidates, StreamEnds(c) PROVE RemainderInv'
  <2>1. Live(c)
    BY <1>8 DEF StreamEnds, Live
  <2>2. pc # "idle"
    BY <2>1 DEF CandInv
  <2> QED
    BY <1>8, <2>2, RemainderNone, Zenon DEF StreamEnds, Remainder
<1>9. ASSUME NEW c \in Candidates, StreamFails(c) PROVE RemainderInv'
  <2>1. Live(c)
    BY <1>9 DEF StreamFails, Live
  <2>2. pc # "idle"
    BY <2>1 DEF CandInv
  <2> QED
    BY <1>9, <2>2, RemainderNone, Zenon DEF StreamFails, Remainder
<1>10. ASSUME NEW c \in Candidates, FallbackReturns(c) PROVE RemainderInv'
  <2>1. Live(c)
    BY <1>10 DEF FallbackReturns, Live
  <2>2. pc # "idle"
    BY <2>1 DEF CandInv
  <2> QED
    BY <1>10, <2>2, RemainderNone, Zenon DEF FallbackReturns, Remainder
<1>11. CASE ProducerReplays
  <2>1. pc # "idle"
    BY <1>11, Zenon DEF ProducerReplays, RestInv
  <2> QED
    BY <1>11, <2>1, RemainderNone DEF ProducerReplays, Remainder
<1>12. CASE ProducerDefaults
  <2>1. pc # "idle"
    BY <1>12, Zenon DEF ProducerDefaults, RestInv
  <2> QED
    BY <1>12, <2>1, RemainderNone, Zenon DEF ProducerDefaults, Remainder
<1>13. CASE ProducerFinishes
  <2>1. pc # "idle"
    BY <1>13, Zenon DEF ProducerFinishes, RestInv
  <2> QED
    BY <1>13, <2>1, RemainderNone, Zenon DEF ProducerFinishes, Remainder
<1>14. CASE ProducerPuts
  <2>1. pc # "idle"
    BY <1>14 DEF ProducerPuts, RestInv
  <2> QED
    BY <1>14, <2>1, RemainderNone DEF ProducerPuts, Remainder
<1>15. ASSUME NEW s \in Sentences, SynthEnds(s) PROVE RemainderInv'
  BY <1>15, RemainderKept, Zenon DEF SynthEnds, Remainder
<1>16. CASE FillerFires
  BY <1>16, RemainderKept, Zenon DEF FillerFires, Remainder
<1>17. CASE FillerEnds
  BY <1>17, RemainderKept, Zenon DEF FillerEnds, Remainder
<1>18. CASE TakeJob
  BY <1>18, RemainderNone, Zenon DEF TakeJob, Remainder
<1>19. CASE StopFiller
  BY <1>19, RemainderNone DEF StopFiller, Remainder
<1>20. CASE FirstChunk
  BY <1>20, RemainderNone DEF FirstChunk, Remainder
<1>21. CASE SentencePlayed
  BY <1>21, RemainderNone DEF SentencePlayed, Remainder
<1>22. CASE PlaybackFails
  BY <1>22, RemainderNone DEF PlaybackFails, LeaveLoop, Remainder
<1>23. CASE BargeIn
  BY <1>23, RemainderNone DEF BargeIn, LeaveLoop, Remainder
<1>24. CASE HangupWhileWaiting
  BY <1>24, RemainderNone, Zenon DEF HangupWhileWaiting, LeaveLoop, Remainder
<1>25. CASE ProducerUnwinds
  BY <1>25, RemainderNone, Zenon DEF ProducerUnwinds, Remainder
<1>26. CASE Reap
  <2>1. CASE ending = "interrupted" /\ ~restructure
    BY <1>26, <2>1, RemainderReaped
  <2>2. CASE ~(ending = "interrupted" /\ ~restructure)
    BY <1>26, <2>2, RemainderNone DEF Reap, Remainder
  <2>3. QED
    BY <2>1, <2>2
<1>27. CASE UNCHANGED vars
  BY <1>27, RemainderKept, Zenon DEF vars, Remainder
<1>28. QED
  BY <1>1, <1>2, <1>3, <1>4, <1>5, <1>6, <1>7, <1>8, <1>9, <1>10, <1>11, <1>12, <1>13,
      <1>14, <1>15, <1>16, <1>17, <1>18, <1>19, <1>20, <1>21, <1>22, <1>23, <1>24,
      <1>25, <1>26, <1>27, Zenon DEF Next, Gate, Generation, Producer, Teardown

\* Every step preserves the invariant.
LEMMA Inductive ==
  ASSUME IInv, Drained, [Next]_vars
  PROVE  IInv'
<1> USE DEF IInv
<1>1. Types'
  BY TypeStep, ReapRemainder
<1>5. RestInv' /\ CandInv' /\ FillerInv'
  BY RestStep, CandStep, FillerStep
<1>2. HeldInv' /\ PullInv'
  BY HeldStep, PullStep
<1>3. OrderInv' /\ WholeInv'
  BY OrderStep, WholeStep
<1>6. CutInv' /\ RemainderInv'
  BY CutStep, RemainderStep
<1>4. QED
  BY <1>1, <1>2, <1>3, <1>5, <1>6

\* The invariant holds before the first turn.
LEMMA Initial ==
  ASSUME Init
  PROVE  IInv
<1> USE DEF Init
<1>1. Types
  <2>1. turns \in 0..MaxTurns /\ replayed \in 0..MaxSentences /\ winner \in Candidates
    BY ReplyAssumption
  <2>2. buffer \in [Candidates -> 0..MaxSentences]
    BY ReplyAssumption
  <2>3. gen \in [Candidates -> Progress] /\ synth \in [Sentences -> Vendor]
    BY DEF Progress, Vendor
  <2>4. SeqTypes
    BY DEF SeqTypes
  <2> QED
    BY <2>1, <2>2, <2>3, <2>4, Zenon DEF Types, ControlTypes, FcnTypes
<1>2. RestInv /\ FillerInv
  BY Zenon DEF RestInv, FillerInv, Looping
<1>3. CandInv
  BY DEF CandInv, Looping, Live
<1>4. HeldInv
  BY ReplyAssumption DEF HeldInv
<1>5. PullInv /\ OrderInv /\ WholeInv
  BY Zenon DEF PullInv, OrderInv, WholeInv, Looping
<1>7. CutInv /\ RemainderInv
  BY DEF CutInv, RemainderInv, Remainder, Looping
<1>6. QED
  BY <1>1, <1>2, <1>3, <1>4, <1>5, <1>7 DEF IInv

\* What is queued, with the sentence being spoken before it.
LEMMA InQueueFacts ==
  ASSUME Types, Drained, Order
  PROVE  /\ InQueue \in Seq(Sentences)
         /\ Len(played) + Len(InQueue) = Out + Len(Queued)
         /\ \A i \in 1..Len(InQueue) : InQueue[i] = Nth(defaulted, Len(played) + i)
<1>1. Queued \in Seq(Sentences) /\ \A i \in 1..Len(Queued) : Queued[i] = Nth(defaulted, Out + i)
  BY QueuedFacts
<1>2. /\ Len(played) \in Nat /\ Len(Queued) \in Nat
      /\ current = NoJob => Out = Len(played)
      /\ current # NoJob => Out = Len(played) + 1
  BY <1>1, Counts
<1>3. CASE current = NoJob
  BY <1>1, <1>2, <1>3, Zenon DEF InQueue
<1>4. CASE current # NoJob
  <2> DEFINE q == Queued
             h == <<current>>
  <2>1. current \in Sentences /\ current = Nth(defaulted, Out)
    BY <1>4 DEF Order, Speaking, Types, ControlTypes
  <2>2. h \in Seq(Sentences) /\ Len(h) = 1 /\ h[1] = current /\ 1 \in 1..Len(h)
    BY <2>1
  <2>3. InQueue = h \o q
    BY <1>4 DEF InQueue
  <2> HIDE DEF q, h
  <2>4. /\ h \o q \in Seq(Sentences) /\ Len(h \o q) = 1 + Len(q)
        /\ (h \o q)[1] = current
        /\ \A i \in 1..Len(q) : (h \o q)[1 + i] = q[i]
    <3>1. /\ h \o q \in Seq(Sentences) /\ Len(h \o q) = Len(h) + Len(q)
          /\ \A i \in 1..Len(h) : (h \o q)[i] = h[i]
          /\ \A i \in 1..Len(q) : (h \o q)[Len(h) + i] = q[i]
      <4>1. h \in Seq(Sentences) /\ q \in Seq(Sentences)
        BY <1>1, <2>2, Zenon DEF q
      <4> QED
        BY <4>1, ConcatFacts
    <3> QED
      BY <2>2, <3>1, Zenon
  <2>5. Len(played) + Len(InQueue) = Out + Len(Queued)
    BY <1>2, <1>4, <2>3, <2>4 DEF q
  <2>6. ASSUME NEW i \in 1..Len(InQueue) PROVE InQueue[i] = Nth(defaulted, Len(played) + i)
    <3>1. CASE i = 1
      BY <1>2, <1>4, <2>1, <2>3, <2>4, <3>1, Zenon
    <3>2. CASE i # 1
      <4>1. i - 1 \in 1..Len(q) /\ 1 + (i - 1) = i /\ Out + (i - 1) = Len(played) + i
        BY <1>2, <1>4, <2>3, <2>4, <3>2 DEF q
      <4>2. (h \o q)[1 + (i - 1)] = Nth(defaulted, Out + (i - 1))
        BY <1>1, <2>4, <4>1, Zenon DEF q
      <4> QED
        BY <2>3, <4>1, <4>2, Zenon
    <3> QED
      BY <3>1, <3>2
  <2> QED
    BY <2>3, <2>4, <2>5, <2>6, Zenon
<1>5. QED
  BY <1>3, <1>4

\* All that was pulled and not yet spoken.
LEMMA TakenFacts ==
  ASSUME Types, Drained, RestInv, Order, Looping
  PROVE  /\ Taken \in Seq(Sentences)
         /\ Len(played) + Len(Taken) = Total
         /\ \A i \in 1..Len(Taken) : Taken[i] = Nth(defaulted, Len(played) + i)
<1> DEFINE s == InQueue
           n == Len(played)
<1>1. /\ s \in Seq(Sentences) /\ n + Len(s) = Out + Len(Queued)
      /\ \A i \in 1..Len(s) : s[i] = Nth(defaulted, n + i)
  BY InQueueFacts
<1>2. /\ Len(Queued) = IF producer = "over" THEN Len(jobs) - 1 ELSE Len(jobs)
      /\ n \in Nat /\ Len(s) \in Nat /\ Out \in Nat /\ Len(jobs) \in Nat
  BY <1>1, QueuedFacts, Counts
<1>3. /\ pending \notin Sentences => Total = Out + Len(Queued)
      /\ pending \in Sentences =>
           Total = Out + Len(Queued) + 1 /\ pending = Nth(defaulted, Total)
  <2>1. producer # "none" /\ (producer # "putting" => pending = NoJob)
        /\ (producer = "putting" => pending # NoJob)
    BY Zenon DEF RestInv, Looping, Types, ControlTypes
  <2>2. CASE producer = "over"
    <3>1. Total = Out + Len(jobs) - 1 /\ pending \notin Sentences
      BY <2>1, <2>2, Numbers, Zenon DEF Order, Ahead
    <3> QED
      BY <1>2, <2>2, <3>1
  <2>3. CASE producer = "pulling"
    <3>1. Total = Out + Len(jobs) /\ pending \notin Sentences
      BY <2>1, <2>3, Numbers DEF Order, Ahead
    <3> QED
      BY <1>2, <2>3, <3>1
  <2>4. CASE producer = "putting"
    <3>1. /\ pending = Sentinel => Total = Out + Len(jobs)
          /\ pending # Sentinel => Total = Out + Len(jobs) + 1 /\ pending = Nth(defaulted, Total)
      BY <2>4 DEF Order, Ahead
    <3>2. pending \in Sentences <=> pending # Sentinel
      BY <2>1, <2>4, Numbers DEF Types, ControlTypes
    <3> QED
      BY <1>2, <2>4, <3>1, <3>2
  <2> QED
    BY <2>1, <2>2, <2>3, <2>4, Zenon DEF Types, ControlTypes
<1>4. CASE pending \notin Sentences
  <2>1. Taken = s
    BY <1>4 DEF Taken
  <2> HIDE DEF s
  <2> QED
    BY <1>1, <1>2, <1>3, <1>4, <2>1
<1>5. CASE pending \in Sentences
  <2> DEFINE e == <<pending>>
  <2>1. Taken = s \o e
    BY <1>5 DEF Taken
  <2>2. e \in Seq(Sentences) /\ Len(e) = 1 /\ e[1] = pending /\ 1 \in 1..Len(e)
    BY <1>5
  <2> HIDE DEF s, e
  <2>3. /\ s \o e \in Seq(Sentences) /\ Len(s \o e) = Len(s) + 1
        /\ \A i \in 1..Len(s) : (s \o e)[i] = s[i]
        /\ (s \o e)[Len(s) + 1] = pending
    <3>1. /\ s \o e \in Seq(Sentences) /\ Len(s \o e) = Len(s) + Len(e)
          /\ \A i \in 1..Len(s) : (s \o e)[i] = s[i]
          /\ \A i \in 1..Len(e) : (s \o e)[Len(s) + i] = e[i]
      <4>1. s \in Seq(Sentences) /\ e \in Seq(Sentences)
        BY <1>1, <2>2, Zenon
      <4> QED
        BY <4>1, ConcatFacts
    <3> QED
      BY <2>2, <3>1, Zenon
  <2>4. n + Len(Taken) = Total
    <3>1. Total = Out + Len(Queued) + 1 /\ Len(Taken) = Len(s) + 1
      BY <1>3, <1>5, <2>1, <2>3, Zenon
    <3>2. n + Len(s) = Out + Len(Queued)
      BY <1>1, Zenon
    <3> QED
      BY <1>2, <3>1, <3>2
  <2>5. ASSUME NEW i \in 1..Len(Taken) PROVE Taken[i] = Nth(defaulted, n + i)
    <3>1. CASE i = Len(s) + 1
      <4>1. n + i = Total
        BY <1>2, <2>1, <2>3, <2>4, <3>1
      <4> QED
        BY <1>3, <1>5, <2>1, <2>3, <3>1, <4>1
    <3>2. CASE i # Len(s) + 1
      <4>1. i \in 1..Len(s)
        BY <1>2, <2>1, <2>3, <3>2
      <4> QED
        BY <1>1, <2>1, <2>3, <4>1, Zenon
    <3> QED
      BY <3>1, <3>2
  <2> QED
    BY <2>1, <2>3, <2>4, <2>5, Zenon
<1>6. QED
  BY <1>4, <1>5

\* In the loop what was spoken and what was pulled make up the reply in order.
LEMMA OrderedReply ==
  ASSUME IInv, Drained
  PROVE  ReplyInOrder
<1> SUFFICES ASSUME Looping
             PROVE  played \o Taken =
                      IF defaulted THEN <<Default>> ELSE [i \in 1..replayed |-> i]
  BY DEF ReplyInOrder, Looping
<1> DEFINE a == played
           t == Taken
           z == a \o t
<1>1. Types /\ RestInv /\ Order
  BY DEF IInv, OrderInv
<1>2. a \in Seq(Sentences) /\ \A i \in 1..Len(a) : a[i] = Nth(defaulted, i)
  BY <1>1 DEF Types, SeqTypes, Order, Spoken
<1>3. /\ t \in Seq(Sentences) /\ Len(a) + Len(t) = Total
      /\ \A i \in 1..Len(t) : t[i] = Nth(defaulted, Len(a) + i)
  BY <1>1, TakenFacts
<1> HIDE DEF a, t
<1>4. /\ z \in Seq(Sentences) /\ Len(z) = Total /\ Len(a) \in Nat /\ Len(t) \in Nat
      /\ \A i \in 1..Len(a) : z[i] = a[i]
      /\ \A i \in 1..Len(t) : z[Len(a) + i] = t[i]
  <2>1. /\ z \in Seq(Sentences) /\ Len(z) = Len(a) + Len(t)
        /\ Len(a) \in Nat /\ Len(t) \in Nat
        /\ \A i \in 1..Len(a) : z[i] = a[i]
        /\ \A i \in 1..Len(t) : z[Len(a) + i] = t[i]
    <3>1. a \in Seq(Sentences) /\ t \in Seq(Sentences)
      BY <1>2, <1>3, Zenon
    <3> QED
      BY <3>1, ConcatFacts
  <2> QED
    BY <1>3, <2>1, Zenon
<1> HIDE DEF z
<1>5. ASSUME NEW i \in 1..Total PROVE z[i] = Nth(defaulted, i)
  <2>1. CASE i <= Len(a)
    <3>1. i \in 1..Len(a)
      BY <1>4, <2>1
    <3> QED
      BY <1>2, <1>4, <3>1, Zenon
  <2>2. CASE i > Len(a)
    <3>1. i - Len(a) \in 1..Len(t) /\ Len(a) + (i - Len(a)) = i
      BY <1>3, <1>4, <2>2
    <3>2. z[Len(a) + (i - Len(a))] = Nth(defaulted, Len(a) + (i - Len(a)))
      BY <1>3, <1>4, <3>1, Zenon
    <3> QED
      BY <3>1, <3>2
  <2> QED
    BY <1>4, <2>1, <2>2
<1>6. CASE defaulted
  <2>1. Len(z) = 1 /\ z[1] = Default
    BY <1>4, <1>5, <1>6 DEF Total, Nth
  <2>2. z = <<Default>>
    BY <1>4, <2>1
  <2> QED
    BY <1>6, <2>2 DEF z, a, t
<1>7. CASE ~defaulted
  <2>1. Total = replayed /\ \A i \in 1..Total : z[i] = i
    BY <1>5, <1>7 DEF Total, Nth
  <2>2. z = [i \in 1..Len(z) |-> z[i]]
    BY <1>4
  <2>3. z = [i \in 1..replayed |-> i]
    BY <1>4, <2>1, <2>2
  <2> QED
    BY <1>7, <2>3 DEF z, a, t
<1>8. QED
  BY <1>6, <1>7

-----------------------------------------------------------------------------
\* The theorems.

INSTANCE FiniteSetTheorems

\* A set of natural numbers has a least one.
LEMMA Least ==
  ASSUME NEW T \in SUBSET Nat, T # {}
  PROVE  \E m \in T : \A k \in T : m <= k
<1> DEFINE R == {p \in Nat \X Nat : p[1] < p[2]}
<1>1. R = OpToRel(<, Nat)
  BY Zenon DEF OpToRel
<1>2. IsWellFoundedOn(R, Nat)
  BY <1>1, NatLessThanWellFounded, Zenon
<1>3. PICK m \in T : \A k \in T : <<k, m>> \notin R
  <2> HIDE DEF R
  <2> QED
    BY <1>2, WFMin, Zenon
<1>4. ASSUME NEW k \in T PROVE m <= k
  <2>1. k \in Nat /\ m \in Nat
    OBVIOUS
  <2>2. k < m => <<k, m>> \in R
    <3>1. <<k, m>> \in Nat \X Nat /\ <<k, m>>[1] = k /\ <<k, m>>[2] = m
      BY <2>1
    <3> QED
      BY <3>1, Zenon
  <2> HIDE DEF R
  <2>3. ~(k < m)
    BY <1>3, <2>2
  <2> QED
    BY <2>1, <2>3
<1>5. QED
  BY <1>4

\* A prefix of a sequence grows by its next element.
LEMMA PrefixGrows ==
  ASSUME NEW S, NEW s \in Seq(S), NEW i \in 1..Len(s)
  PROVE  SubSeq(s, 1, i) = Append(SubSeq(s, 1, i - 1), s[i])
OBVIOUS

\* Nothing is the shortest prefix.
LEMMA PrefixEmpty ==
  ASSUME NEW S, NEW s \in Seq(S)
  PROVE  SubSeq(s, 1, 0) = <<>>
OBVIOUS

\* The drain loop does so: its recursion agrees with the prefix, for there is no
\* least get after which it does not.
LEMMA Drain ==
  ASSUME NEW S, jobs \in Seq(S), NEW n \in 0..Len(jobs),
         n = Len(jobs) \/ (n = Len(jobs) - 1 /\ jobs[Len(jobs)] = Sentinel),
         \A i \in 1..n : jobs[i] # Sentinel
  PROVE  Queued = SubSeq(jobs, 1, n)
<1> DEFINE End(i) == IF i <= n THEN i ELSE n
           Body(f, i) == IF i = 0 THEN <<>>
                         ELSE IF jobs[i] = Sentinel THEN f[i - 1]
                         ELSE Append(f[i - 1], jobs[i])
           w == [i \in 0..Len(jobs) |-> SubSeq(jobs, 1, End(i))]
           d == CHOOSE f : f = [i \in 0..Len(jobs) |-> Body(f, i)]
<1>1. Len(jobs) \in Nat /\ n \in Nat
  OBVIOUS
<1>2. ASSUME NEW i \in 0..Len(jobs) PROVE w[i] = Body(w, i)
  <2>1. CASE i = 0
    <3>1. SubSeq(jobs, 1, 0) = <<>>
      BY PrefixEmpty
    <3> QED
      BY <1>1, <2>1, <3>1
  <2>2. CASE i # 0 /\ i <= n
    <3>1. i \in 1..n /\ i \in 1..Len(jobs) /\ i - 1 \in 0..Len(jobs) /\ i - 1 <= n
      BY <1>1, <2>2
    <3>2. w[i] = SubSeq(jobs, 1, i) /\ w[i - 1] = SubSeq(jobs, 1, i - 1)
      BY <2>2, <3>1
    <3>3. SubSeq(jobs, 1, i) = Append(SubSeq(jobs, 1, i - 1), jobs[i])
      BY <3>1, PrefixGrows
    <3>4. jobs[i] # Sentinel
      BY <3>1
    <3> HIDE DEF w
    <3> QED
      BY <2>2, <3>2, <3>3, <3>4, Zenon
  <2>3. CASE i > n
    <3>1. i = Len(jobs) /\ jobs[i] = Sentinel /\ i # 0 /\ i - 1 = n /\ i - 1 \in 0..Len(jobs)
      BY <1>1, <2>3
    <3>2. w[i] = SubSeq(jobs, 1, n) /\ w[i - 1] = SubSeq(jobs, 1, n)
      BY <1>1, <2>3, <3>1
    <3> HIDE DEF w
    <3> QED
      BY <3>1, <3>2, Zenon
  <2>4. i = 0 \/ (i # 0 /\ i <= n) \/ i > n
    BY <1>1
  <2>5. QED
    BY <2>1, <2>2, <2>3, <2>4, Zenon
<1>3. w = [i \in 0..Len(jobs) |-> Body(w, i)]
  BY <1>2, Zenon
<1> HIDE DEF w
<1>4. \E f : f = [i \in 0..Len(jobs) |-> Body(f, i)]
  BY <1>3, Zenon
<1>5. d = [i \in 0..Len(jobs) |-> Body(d, i)]
  BY <1>4, Zenon
<1>6. Queued = d[Len(jobs)]
  BY DEF Queued
<1> HIDE DEF d
<1>7. \A i \in 0..Len(jobs) : d[i] = w[i]
  <2> DEFINE T == {i \in 0..Len(jobs) : d[i] # w[i]}
  <2> SUFFICES ASSUME T # {} PROVE FALSE
    OBVIOUS
  <2>1. T \in SUBSET Nat
    BY <1>1
  <2>2. PICK m \in T : \A k \in T : m <= k
    BY <2>1, Least, Zenon
  <2>3. m \in 0..Len(jobs) /\ d[m] # w[m]
    BY <2>2, Zenon
  <2>4. d[m] = Body(d, m) /\ w[m] = Body(w, m)
    BY <1>3, <1>5, <2>3, Zenon
  <2>5. m # 0
    BY <2>3, <2>4, Zenon
  <2>6. m - 1 \in 0..Len(jobs) /\ ~(m <= m - 1)
    BY <1>1, <2>3, <2>5
  <2>7. d[m - 1] = w[m - 1]
    BY <2>2, <2>6, Zenon
  <2> QED
    BY <2>3, <2>4, <2>7, Zenon
<1>8. w[Len(jobs)] = SubSeq(jobs, 1, n)
  BY <1>1 DEF w
<1>9. QED
  BY <1>1, <1>6, <1>7, <1>8

\* As the finally block needs it.
LEMMA DrainLoop ==
  ASSUME Types
  PROVE  Drained
<1>1. jobs \in Seq(Sentences \union {Sentinel})
  BY DEF Types, SeqTypes
<1>2. QED
  BY <1>1, Drain DEF Drained

\* A set without two members has at most one.
LEMMA AtMostOne ==
  ASSUME NEW S, NEW x, S \subseteq {x}
  PROVE  Cardinality(S) <= 1
<1>1. IsFiniteSet({x}) /\ Cardinality({x}) = 1
  BY FS_Singleton, Zenon
<1>2. Cardinality(S) <= Cardinality({x})
  BY <1>1, FS_Subset
<1>3. QED
  BY <1>1, <1>2

\* The invariant holds in every reachable state.
THEOREM Invariance == Spec => []IInv
<1>1. Init => IInv
  BY Initial
<1>2. IInv /\ [Next]_vars => IInv'
  BY Inductive, DrainLoop DEF IInv
<1>3. QED
  BY <1>1, <1>2, PTL DEF Spec

\* The producer, the bounded job_q and the consumer loop lose, repeat and reorder
\* no sentence of the reply.
THEOREM ReplyOrdered == Spec => []ReplyInOrder
<1>1. IInv => ReplyInOrder
  BY OrderedReply, DrainLoop DEF IInv
<1>2. QED
  BY <1>1, Invariance, PTL

\* After a barge-in the finally block keeps, in order and without what was
\* spoken, all of the generated reply but at most one sentence.
THEOREM RemainderKeeps == Spec => []RemainderMissesOne
<1>1. IInv => RemainderMissesOne
  <2> SUFFICES ASSUME RemainderInv, Remainder
               PROVE  Cardinality(Unaccounted) <= 1
    BY Zenon DEF IInv, RemainderInv, RemainderMissesOne
  <2>1. PICK x : Unaccounted \subseteq {x}
    BY DEF RemainderInv
  <2> QED
    BY <2>1, AtMostOne
<1>2. QED
  BY <1>1, Invariance, PTL

\* Every variable keeps its type.
THEOREM TypeCorrect == Spec => []TypeOK
<1>1. IInv => TypeOK
  <2> SUFFICES ASSUME Types PROVE TypeOK
    BY DEF IInv
  <2>1. {eager, restructure, defaulted, firstAudio} \subseteq BOOLEAN
    BY DEF Types, ControlTypes
  <2> QED
    BY <2>1, Zenon DEF TypeOK, Types, ControlTypes, FcnTypes, SeqTypes, Progress, Vendor
<1>2. QED
  BY <1>1, Invariance, PTL

\* A turn whose playback loop of _play_streaming runs to the sentinel has spoken
\* the whole reply, or the default reply: never nothing, and never a prefix.
THEOREM WholeReply == Spec => []WholeReplySpoken
<1>1. IInv => WholeReplySpoken
  <2> SUFFICES ASSUME Types, WholeInv, pc = "idle", ending = "complete"
               PROVE  /\ gen[winner] = "done"
                      /\ played = IF buffer[winner] = 0 THEN <<Default>>
                                  ELSE [i \in 1..buffer[winner] |-> i]
    BY Zenon DEF IInv, WholeReplySpoken
  <2>1. CASE buffer[winner] = 0
    BY <2>1 DEF WholeInv
  <2>2. CASE buffer[winner] # 0
    <3>1. buffer[winner] > 0
      BY <2>2, Sizes
    <3>2. Len(played) = buffer[winner] /\ \A i \in 1..Len(played) : played[i] = i
      BY <3>1, Zenon DEF WholeInv
    <3>3. played = [i \in 1..Len(played) |-> played[i]]
      BY DEF Types, ControlTypes, FcnTypes, SeqTypes
    <3>4. played = [i \in 1..buffer[winner] |-> i]
      BY <3>2, <3>3
    <3> QED
      BY <2>2, <3>4 DEF WholeInv
  <2>3. QED
    BY <2>1, <2>2, Zenon
<1>2. QED
  BY <1>1, Invariance, PTL

\* filler.stop() is called before the first chunk of the reply: while a sentence
\* is played no filler is audible or armed.
THEOREM FillerSilent == Spec => []FillerExclusive
<1>1. IInv => FillerExclusive
  BY DEF IInv, FillerInv, FillerExclusive
<1>2. QED
  BY <1>1, Invariance, PTL

\* The queue has no more members than places.
LEMMA QueueSize ==
  ASSUME Types, HeldInv
  PROVE  IsFiniteSet(Queue) /\ Cardinality(Queue) <= JobMax
<1> DEFINE f == [i \in 1..Len(jobs) |-> jobs[i]]
<1>1. Len(jobs) \in Nat /\ Len(jobs) <= JobMax
  BY DEF Types, SeqTypes, HeldInv
<1>2. f \in Surjection(1..Len(jobs), Queue)
  BY Zenon DEF Surjection, Queue
<1>3. IsFiniteSet(1..Len(jobs)) /\ Cardinality(1..Len(jobs)) = Len(jobs)
  <2>1. 1 \in Int /\ Len(jobs) \in Int
    BY <1>1
  <2>2. /\ IsFiniteSet(1..Len(jobs))
        /\ Cardinality(1..Len(jobs)) = IF 1 > Len(jobs) THEN 0 ELSE Len(jobs) - 1 + 1
    BY <2>1, FS_Interval, Zenon
  <2> QED
    BY <1>1, <2>2
<1> HIDE DEF f
<1>4. IsFiniteSet(Queue) /\ Cardinality(Queue) <= Cardinality(1..Len(jobs))
  BY <1>2, <1>3, FS_Surjection
<1>5. Cardinality(Queue) \in Nat
  BY <1>4, FS_CardinalityType
<1>6. QED
  BY <1>1, <1>3, <1>4, <1>5, ReplyAssumption

\* One element more is at most one more to count.
LEMMA OneMore ==
  ASSUME NEW S, IsFiniteSet(S), NEW n \in Nat, Cardinality(S) <= n, NEW x
  PROVE  IsFiniteSet(S \union {x}) /\ Cardinality(S \union {x}) <= n + 1
<1>1. /\ IsFiniteSet(S \union {x})
      /\ \/ Cardinality(S \union {x}) = Cardinality(S)
         \/ Cardinality(S \union {x}) = Cardinality(S) + 1
  BY FS_AddElement
<1>2. Cardinality(S) \in Nat
  BY FS_CardinalityType
<1>3. QED
  BY <1>1, <1>2

\* The vendor streams a turn opens are bounded by the queue, the sentence being
\* played and the one the producer holds, and the finally block of
\* _play_streaming closes them all.
THEOREM StreamsClosed == Spec => []StreamsReleased
<1>1. ASSUME Types, HeldInv PROVE OpenStreamsBounded
  <2> DEFINE Held == (Queue \union {current}) \union {pending}
             Open == {s \in Sentences : synth[s] = "open"}
  <2>1. IsFiniteSet(Queue) /\ Cardinality(Queue) <= JobMax /\ JobMax \in Nat
    BY <1>1, QueueSize, ReplyAssumption
  <2>2. IsFiniteSet(Queue \union {current}) /\ Cardinality(Queue \union {current}) <= JobMax + 1
    BY <2>1, OneMore, Zenon
  <2>3. IsFiniteSet(Held) /\ Cardinality(Held) <= JobMax + 1 + 1
    BY <2>1, <2>2, OneMore
  <2>4. Open \in SUBSET Held
    BY <1>1 DEF HeldInv
  <2>5. IsFiniteSet(Open) /\ Cardinality(Open) <= Cardinality(Held)
    BY <2>3, <2>4, FS_Subset
  <2>6. Cardinality(Open) \in Nat /\ Cardinality(Held) \in Nat
    BY <2>3, <2>5, FS_CardinalityType
  <2> HIDE DEF Held
  <2>7. Cardinality(Open) <= JobMax + 2
    BY <2>1, <2>3, <2>5, <2>6
  <2> QED
    BY <2>7 DEF OpenStreamsBounded
<1>2. ASSUME RestInv, CandInv, HeldInv PROVE Released
  <2> SUFFICES ASSUME pc = "idle" \/ (pc = "gone" /\ ending # "abandoned")
               PROVE  /\ \A c \in Candidates : ~Live(c)
                      /\ \A s \in Sentences : synth[s] # "open"
                      /\ jobs = <<>> /\ pending = NoJob
                      /\ timer = "none" /\ filler = "none"
    BY DEF Released
  <2>1. \A c \in Candidates : ~Live(c)
    BY <1>2 DEF CandInv
  <2>2. /\ current = NoJob /\ jobs = <<>> /\ pending = NoJob
        /\ timer = "none" /\ filler = "none"
    BY <1>2 DEF RestInv
  <2>3. Queue = {}
    BY <2>2 DEF Queue
  <2>4. \A s \in Sentences : synth[s] # "open"
    BY <1>2, <2>2, <2>3, Numbers DEF HeldInv
  <2> QED
    BY <2>1, <2>2, <2>4
<1>3. IInv => StreamsReleased
  BY <1>1, <1>2 DEF IInv, StreamsReleased
<1>4. QED
  BY <1>3, Invariance, PTL

=============================================================================
