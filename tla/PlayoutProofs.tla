---------------------------- MODULE PlayoutProofs ----------------------------
(***************************************************************************)
(* Proofs about Playout, for any queue capacity, any fade-out length and    *)
(* any number of utterances and frames: "playback complete" is exact, and a *)
(* barge-in leaves nothing of the reply at full volume.                     *)
(***************************************************************************)
EXTENDS Playout, TLAPS

-----------------------------------------------------------------------------
\* The inductive invariant.

\* The pump holds one frame exactly while it pushes; until close_iterators it
\* is there and the channel is joined.
PumpInv ==
  /\ pump = "pushing" => Len(hand) = 1
  /\ pump # "pushing" => hand = <<>>
  /\ closing = "open" => pump # "none" /\ joined

\* Closing may leave frames that nobody marks done, never the reverse.
CountInv == unfinished >= Len(queue) + Len(hand)

\* Faded frames are at the front, inside the fade window.
FadeInv ==
  /\ cut \subseteq 0..utterance
  /\ feeder # "idle" => utterance \notin cut
  /\ \A i \in 1..Len(queue) : queue[i].utterance \in cut => queue[i].faded
  /\ \A i \in 1..Len(queue) : queue[i].faded => i <= FadeFrames

\* No frame of the current utterance is queued or being pushed.
Silent ==
  /\ \A i \in 1..Len(queue) : queue[i].utterance # utterance
  /\ \A i \in 1..Len(hand) : hand[i].utterance # utterance

PlayedInv ==
  feeder = "idle" /\ closing = "open" /\ utterance \notin cut \union failed => Silent

IInv == TypeOK /\ PumpInv /\ CountInv /\ Accounting /\ PlayedInv /\ FadeInv

-----------------------------------------------------------------------------
\* Queues of frames.

\* A queue after a put.
LEMMA PutFrame ==
  ASSUME NEW q \in Seq(Frames), NEW f \in Frames
  PROVE  /\ Append(q, f) \in Seq(Frames)
         /\ Len(Append(q, f)) = Len(q) + 1
         /\ \A i \in 1..Len(q) : Append(q, f)[i] = q[i]
         /\ Append(q, f)[Len(q) + 1] = f
  OBVIOUS

\* A queue after a get.
LEMMA TakeFrame ==
  ASSUME NEW q \in Seq(Frames), q # <<>>
  PROVE  /\ Head(q) \in Frames /\ Head(q) = q[1] /\ 1 \in 1..Len(q)
         /\ Tail(q) \in Seq(Frames)
         /\ Len(Tail(q)) = Len(q) - 1
         /\ \A i \in 1..Len(Tail(q)) : i + 1 \in 1..Len(q) /\ Tail(q)[i] = q[i + 1]
  OBVIOUS

\* A queue of one frame.
LEMMA OneFrame ==
  ASSUME NEW f \in Frames
  PROVE  <<f>> \in Seq(Frames) /\ Len(<<f>>) = 1 /\ <<f>>[1] = f
  OBVIOUS

\* The empty queue.
LEMMA NoFrame == <<>> \in Seq(Frames) /\ Len(<<>>) = 0
  OBVIOUS

\* What _flush_playout leaves: the first n frames, all faded.
LEMMA Flushed ==
  ASSUME NEW q \in Seq(Frames), NEW n \in 0..Len(q),
         NEW r, r = [i \in 1..n |-> [q[i] EXCEPT !.faded = TRUE]]
  PROVE  /\ r \in Seq(Frames) /\ Len(r) = n
         /\ \A i \in 1..n : r[i].faded
<1>1. \A i \in 1..n : q[i] \in Frames
  OBVIOUS
<1>2. \A i \in 1..n : [q[i] EXCEPT !.faded = TRUE] \in Frames
                      /\ [q[i] EXCEPT !.faded = TRUE].faded
  BY <1>1, Zenon DEF Frames
<1>3. r \in [1..n -> Frames]
  BY <1>2
<1>4. n \in Nat
  OBVIOUS
<1>5. r \in Seq(Frames) /\ Len(r) = n
  BY <1>3, <1>4
<1>6. QED
  BY <1>2, <1>5, Zenon

\* The fade window is not longer than the queue.
LEMMA FadeWindow ==
  ASSUME TypeOK
  PROVE  FadeLength \in 0..Len(queue) /\ FadeLength <= FadeFrames
  BY PlayoutAssumption DEF FadeLength, TypeOK, PlayoutAssumption

\* Every step keeps the types.
LEMMA TypePreserved ==
  ASSUME TypeOK, PumpInv, CountInv, [Next]_vars
  PROVE  TypeOK'
<1> USE PlayoutAssumption DEF PlayoutAssumption, TypeOK
<1>1. CASE AudioOut
  <2>1. CASE pump = "none"
    <3>1. queue' = <<>> /\ unfinished' = 0 /\ pump' = "sleeping"
      BY <1>1, <2>1 DEF AudioOut
    <3>2. QED
      BY <1>1, <3>1, NoFrame DEF AudioOut
  <2>2. CASE pump # "none"
    BY <1>1, <2>2 DEF AudioOut
  <2>3. QED
    BY <2>1, <2>2
<1>2. CASE Put
  <2>1. [utterance |-> utterance, faded |-> FALSE] \in Frames
    BY DEF Frames
  <2>2. queue' \in Seq(Frames)
    BY <1>2, <2>1, PutFrame DEF Put
  <2>3. QED
    BY <1>2, <2>2 DEF Put
<1>3. CASE StreamEnds
  BY <1>3 DEF StreamEnds
<1>4. CASE StreamFails
  BY <1>4 DEF StreamFails
<1>5. CASE Joined
  BY <1>5 DEF Joined
<1>6. CASE BargeIn
  <2>1. FadeLength \in 0..Len(queue)
    BY FadeWindow
  <2>2. queue' \in Seq(Frames)
    BY <1>6, <2>1, Flushed DEF BargeIn, Flush
  <2>3. unfinished' \in Nat
    BY <1>6, <2>1 DEF BargeIn, Flush, CountInv
  <2>4. QED
    BY <1>6, <2>2, <2>3 DEF BargeIn
<1>7. CASE PumpTakes
  <2>1. hand' \in Seq(Frames) /\ queue' \in Seq(Frames)
    BY <1>7, TakeFrame, OneFrame DEF PumpTakes
  <2>2. QED
    BY <1>7, <2>1 DEF PumpTakes
<1>8. CASE PumpPushed
  BY <1>8, NoFrame DEF PumpPushed, PumpInv, CountInv
<1>9. CASE PumpExits
  BY <1>9, NoFrame DEF PumpExits, PumpInv, CountInv
<1>10. CASE Close
  BY <1>10, NoFrame DEF Close
<1>11. CASE Leave
  BY <1>11, Zenon DEF Leave
<1>12. CASE UNCHANGED vars
  BY <1>12 DEF vars
<1>13. QED
  BY <1>1, <1>2, <1>3, <1>4, <1>5, <1>6, <1>7, <1>8, <1>9, <1>10, <1>11, <1>12 DEF
    Next, Feed, Pump

\* Every step keeps the pump and its frame together.
LEMMA PumpPreserved ==
  ASSUME TypeOK, PumpInv, [Next]_vars
  PROVE  PumpInv'
<1> USE PlayoutAssumption DEF PlayoutAssumption, TypeOK, PumpInv
<1>1. CASE AudioOut
  BY <1>1 DEF AudioOut
<1>2. CASE Put
  BY <1>2 DEF Put
<1>3. CASE StreamEnds
  BY <1>3 DEF StreamEnds
<1>4. CASE StreamFails
  BY <1>4 DEF StreamFails
<1>5. CASE Joined
  BY <1>5 DEF Joined
<1>6. CASE BargeIn
  BY <1>6 DEF BargeIn
<1>7. CASE PumpTakes
  BY <1>7, TakeFrame, OneFrame DEF PumpTakes
<1>8. CASE PumpPushed
  BY <1>8 DEF PumpPushed
<1>9. CASE PumpExits
  BY <1>9 DEF PumpExits
<1>10. CASE Close
  BY <1>10 DEF Close
<1>11. CASE Leave
  BY <1>11 DEF Leave
<1>12. CASE UNCHANGED vars
  BY <1>12 DEF vars
<1>13. QED
  BY <1>1, <1>2, <1>3, <1>4, <1>5, <1>6, <1>7, <1>8, <1>9, <1>10, <1>11, <1>12 DEF
    Next, Feed, Pump

\* Every step keeps the count above what is buffered.
LEMMA CountPreserved ==
  ASSUME TypeOK, PumpInv, CountInv, [Next]_vars
  PROVE  CountInv'
<1> USE PlayoutAssumption DEF PlayoutAssumption, TypeOK, PumpInv, CountInv
<1>1. CASE AudioOut
  BY <1>1, NoFrame DEF AudioOut
<1>2. CASE Put
  <2>1. [utterance |-> utterance, faded |-> FALSE] \in Frames
    BY DEF Frames
  <2>2. Len(queue') = Len(queue) + 1
    BY <1>2, <2>1, PutFrame DEF Put
  <2>3. QED
    BY <1>2, <2>2 DEF Put
<1>3. CASE StreamEnds
  BY <1>3 DEF StreamEnds
<1>4. CASE StreamFails
  BY <1>4 DEF StreamFails
<1>5. CASE Joined
  BY <1>5 DEF Joined
<1>6. CASE BargeIn
  <2>1. FadeLength \in 0..Len(queue)
    BY FadeWindow
  <2>2. Len(queue') = FadeLength
    BY <1>6, <2>1, Flushed DEF BargeIn, Flush
  <2>3. QED
    BY <1>6, <2>1, <2>2 DEF BargeIn, Flush
<1>7. CASE PumpTakes
  <2>1. hand = <<>> /\ Len(hand') = 1 /\ Len(queue') = Len(queue) - 1
    BY <1>7, TakeFrame, OneFrame DEF PumpTakes
  <2>2. QED
    BY <1>7, <2>1, NoFrame DEF PumpTakes
<1>8. CASE PumpPushed
  <2>1. Len(hand) = 1 /\ Len(hand') = 0 /\ queue' = queue /\ closing' = closing
    BY <1>8, NoFrame DEF PumpPushed
  <2>2. Len(queue) \in Nat /\ unfinished' = unfinished - 1
    BY <1>8 DEF PumpPushed
  <2>3. QED
    BY <2>1, <2>2
<1>9. CASE PumpExits
  <2>1. Len(hand') = 0 /\ queue' = queue /\ closing' = closing /\ Len(queue) \in Nat
    BY <1>9, NoFrame DEF PumpExits
  <2>2. CASE pump = "pushing"
    <3>1. Len(hand) = 1 /\ unfinished' = unfinished - 1
      BY <1>9, <2>2 DEF PumpExits
    <3>2. QED
      BY <2>1, <3>1
  <2>3. CASE pump # "pushing"
    <3>1. Len(hand) = 0 /\ unfinished' = unfinished
      BY <1>9, <2>3, NoFrame DEF PumpExits
    <3>2. QED
      BY <2>1, <3>1
  <2>4. QED
    BY <2>2, <2>3
<1>10. CASE Close
  BY <1>10, NoFrame DEF Close
<1>11. CASE Leave
  BY <1>11 DEF Leave
<1>12. CASE UNCHANGED vars
  BY <1>12 DEF vars
<1>13. QED
  BY <1>1, <1>2, <1>3, <1>4, <1>5, <1>6, <1>7, <1>8, <1>9, <1>10, <1>11, <1>12 DEF
    Next, Feed, Pump

\* While the line is open every step keeps the count exact.
LEMMA AccountingPreserved ==
  ASSUME TypeOK, PumpInv, Accounting, [Next]_vars
  PROVE  Accounting'
<1> USE PlayoutAssumption DEF PlayoutAssumption, TypeOK, PumpInv, Accounting
<1>1. CASE AudioOut
  BY <1>1, NoFrame DEF AudioOut
<1>2. CASE Put
  <2>1. [utterance |-> utterance, faded |-> FALSE] \in Frames
    BY DEF Frames
  <2>2. Len(queue') = Len(queue) + 1
    BY <1>2, <2>1, PutFrame DEF Put
  <2>3. QED
    BY <1>2, <2>2 DEF Put
<1>3. CASE StreamEnds
  BY <1>3 DEF StreamEnds
<1>4. CASE StreamFails
  BY <1>4 DEF StreamFails
<1>5. CASE Joined
  BY <1>5 DEF Joined
<1>6. CASE BargeIn
  <2>1. FadeLength \in 0..Len(queue)
    BY FadeWindow
  <2>2. Len(queue') = FadeLength
    BY <1>6, <2>1, Flushed DEF BargeIn, Flush
  <2>3. QED
    BY <1>6, <2>1, <2>2 DEF BargeIn, Flush
<1>7. CASE PumpTakes
  <2>1. hand = <<>> /\ Len(hand') = 1 /\ Len(queue') = Len(queue) - 1
    BY <1>7, TakeFrame, OneFrame DEF PumpTakes
  <2>2. QED
    BY <1>7, <2>1, NoFrame DEF PumpTakes
<1>8. CASE PumpPushed
  <2>1. Len(hand) = 1 /\ Len(hand') = 0 /\ queue' = queue /\ closing' = closing
    BY <1>8, NoFrame DEF PumpPushed
  <2>2. Len(queue) \in Nat /\ unfinished' = unfinished - 1
    BY <1>8 DEF PumpPushed
  <2>3. QED
    BY <2>1, <2>2
<1>9. CASE PumpExits
  <2>1. Len(hand') = 0 /\ queue' = queue /\ closing' = closing /\ Len(queue) \in Nat
    BY <1>9, NoFrame DEF PumpExits
  <2>2. CASE pump = "pushing"
    <3>1. Len(hand) = 1 /\ unfinished' = unfinished - 1
      BY <1>9, <2>2 DEF PumpExits
    <3>2. QED
      BY <2>1, <3>1
  <2>3. CASE pump # "pushing"
    <3>1. Len(hand) = 0 /\ unfinished' = unfinished
      BY <1>9, <2>3, NoFrame DEF PumpExits
    <3>2. QED
      BY <2>1, <3>1
  <2>4. QED
    BY <2>2, <2>3
<1>10. CASE Close
  BY <1>10, NoFrame DEF Close
<1>11. CASE Leave
  BY <1>11 DEF Leave
<1>12. CASE UNCHANGED vars
  BY <1>12 DEF vars
<1>13. QED
  BY <1>1, <1>2, <1>3, <1>4, <1>5, <1>6, <1>7, <1>8, <1>9, <1>10, <1>11, <1>12 DEF
    Next, Feed, Pump

\* A feed that returned normally has been played.
LEMMA PlayedPreserved ==
  ASSUME TypeOK, Accounting, PlayedInv, [Next]_vars
  PROVE  PlayedInv'
<1> USE PlayoutAssumption DEF PlayoutAssumption, TypeOK, PlayedInv, Silent
<1>1. CASE AudioOut
  BY <1>1 DEF AudioOut
<1>2. CASE Put
  BY <1>2 DEF Put
<1>3. CASE StreamEnds
  BY <1>3 DEF StreamEnds
<1>4. CASE StreamFails
  BY <1>4 DEF StreamFails
<1>5. CASE Joined
  <2>1. closing = "open" => Len(queue) = 0 /\ Len(hand) = 0
    BY <1>5 DEF Joined, Accounting
  <2>2. QED
    BY <1>5, <2>1 DEF Joined
<1>6. CASE BargeIn
  BY <1>6 DEF BargeIn
<1>7. CASE PumpTakes
  <2>1. \A i \in 1..Len(queue') : i + 1 \in 1..Len(queue) /\ queue'[i] = queue[i + 1]
    BY <1>7, TakeFrame DEF PumpTakes
  <2>2. Len(hand') = 1 /\ hand'[1] = queue[1] /\ 1 \in 1..Len(queue)
    BY <1>7, TakeFrame, OneFrame DEF PumpTakes
  <2>3. QED
    BY <1>7, <2>1, <2>2 DEF PumpTakes
<1>8. CASE PumpPushed
  BY <1>8, NoFrame DEF PumpPushed
<1>9. CASE PumpExits
  BY <1>9, NoFrame DEF PumpExits
<1>10. CASE Close
  BY <1>10 DEF Close
<1>11. CASE Leave
  BY <1>11 DEF Leave
<1>12. CASE UNCHANGED vars
  BY <1>12 DEF vars
<1>13. QED
  BY <1>1, <1>2, <1>3, <1>4, <1>5, <1>6, <1>7, <1>8, <1>9, <1>10, <1>11, <1>12 DEF
    Next, Feed, Pump

\* Every step keeps the faded frames in the window.
LEMMA FadePreserved ==
  ASSUME TypeOK, FadeInv, [Next]_vars
  PROVE  FadeInv'
<1> USE PlayoutAssumption DEF PlayoutAssumption, TypeOK, FadeInv
<1>1. CASE AudioOut
  BY <1>1, NoFrame DEF AudioOut
<1>2. CASE Put
  <2> DEFINE f == [utterance |-> utterance, faded |-> FALSE]
  <2>1. f \in Frames /\ f.utterance = utterance /\ ~f.faded
    BY DEF Frames
  <2>2. /\ queue' = Append(queue, f)
        /\ UNCHANGED <<cut, utterance, feeder>> /\ utterance \notin cut
    BY <1>2 DEF Put
  <2> HIDE DEF f
  <2>3. /\ Len(queue') = Len(queue) + 1
        /\ \A i \in 1..Len(queue) : queue'[i] = queue[i]
        /\ queue'[Len(queue) + 1] = f
    BY <2>1, <2>2, PutFrame
  <2>4. \A i \in 1..Len(queue') : i \in 1..Len(queue) \/ i = Len(queue) + 1
    BY <2>3
  <2>5. QED
    BY <2>1, <2>2, <2>3, <2>4
<1>3. CASE StreamEnds
  BY <1>3 DEF StreamEnds
<1>4. CASE StreamFails
  BY <1>4 DEF StreamFails
<1>5. CASE Joined
  BY <1>5 DEF Joined
<1>6. CASE BargeIn
  <2>1. FadeLength \in 0..Len(queue) /\ FadeLength <= FadeFrames
    BY FadeWindow
  <2>2. Len(queue') = FadeLength /\ \A i \in 1..FadeLength : queue'[i].faded
    BY <1>6, <2>1, Flushed, Zenon DEF BargeIn, Flush
  <2>3. cut' = cut \union {utterance} /\ utterance' = utterance /\ feeder' = "idle"
    BY <1>6 DEF BargeIn
  <2>4. QED
    BY <2>1, <2>2, <2>3
<1>7. CASE PumpTakes
  <2>1. \A i \in 1..Len(queue') : i + 1 \in 1..Len(queue) /\ queue'[i] = queue[i + 1]
    BY <1>7, TakeFrame DEF PumpTakes
  <2>2. QED
    BY <1>7, <2>1 DEF PumpTakes
<1>8. CASE PumpPushed
  BY <1>8 DEF PumpPushed
<1>9. CASE PumpExits
  BY <1>9 DEF PumpExits
<1>10. CASE Close
  BY <1>10 DEF Close
<1>11. CASE Leave
  BY <1>11 DEF Leave
<1>12. CASE UNCHANGED vars
  BY <1>12 DEF vars
<1>13. QED
  BY <1>1, <1>2, <1>3, <1>4, <1>5, <1>6, <1>7, <1>8, <1>9, <1>10, <1>11, <1>12 DEF
    Next, Feed, Pump

-----------------------------------------------------------------------------
\* The inductive invariant holds in every reachable state.
THEOREM Invariance == Spec => []IInv
<1>1. ASSUME Init PROVE IInv
  <2> USE <1>1, NoFrame, PlayoutAssumption DEF Init, PlayoutAssumption
  <2>1. TypeOK
    BY DEF TypeOK
  <2>2. PumpInv /\ CountInv /\ Accounting
    BY DEF PumpInv, CountInv, Accounting
  <2>3. PlayedInv /\ FadeInv
    BY DEF PlayedInv, Silent, FadeInv
  <2>4. QED
    BY <2>1, <2>2, <2>3 DEF IInv
<1>2. IInv /\ [Next]_vars => IInv'
  BY TypePreserved, PumpPreserved, CountPreserved, AccountingPreserved,
     PlayedPreserved, FadePreserved
  DEF IInv
<1>3. QED
  BY <1>1, <1>2, PTL DEF Spec

\* The state of the playout keeps its types.
THEOREM TypeCorrect == Spec => []TypeOK
<1>1. IInv => TypeOK
  BY DEF IInv
<1>2. QED
  BY <1>1, Invariance, PTL

\* feed_playout returns only when every frame it put has been pushed, and no
\* frame is counted that the pump will not mark done, on any open line.
THEOREM PlaybackExact == Spec => []PlaybackComplete
<1>1. ASSUME IInv PROVE PlaybackComplete
  <2>1. Accounting
    BY <1>1 DEF IInv
  <2>2. CompleteMeansPlayed
    BY <1>1 DEF IInv, PlayedInv, Silent, CompleteMeansPlayed
  <2>3. QED
    BY <2>1, <2>2 DEF PlaybackComplete
<1>2. QED
  BY <1>1, Invariance, PTL

INSTANCE FiniteSetTheorems

\* After a barge-in only faded frames of the reply remain, and no more than the
\* fade window holds (_flush_playout).
THEOREM CutsFade == Spec => []CutIsFaded
<1>1. ASSUME IInv PROVE CutIsFaded
  <2> DEFINE S == {i \in 1..Len(queue) : queue[i].faded}
  <2>1. \A i \in 1..Len(queue) : queue[i].utterance \in cut => queue[i].faded
    BY <1>1 DEF IInv, FadeInv
  <2>2. Len(queue) \in Nat /\ FadeFrames \in Nat
    BY <1>1, PlayoutAssumption DEF IInv, TypeOK, PlayoutAssumption
  <2>3. S \subseteq 1..FadeFrames
    BY <1>1, <2>2 DEF IInv, FadeInv
  <2>4. IsFiniteSet(1..FadeFrames) /\ Cardinality(1..FadeFrames) = FadeFrames
    <3>1. 1 \in Int /\ FadeFrames \in Int
      BY <2>2
    <3>2. /\ IsFiniteSet(1..FadeFrames)
          /\ Cardinality(1..FadeFrames) = IF 1 > FadeFrames THEN 0 ELSE FadeFrames - 1 + 1
      BY <3>1, FS_Interval, Zenon
    <3>3. QED
      BY <2>2, <3>2
  <2>5. Cardinality(S) <= FadeFrames
    BY <2>3, <2>4, FS_Subset, Zenon
  <2>6. QED
    BY <2>1, <2>5 DEF CutIsFaded
<1>2. QED
  BY <1>1, Invariance, PTL
=============================================================================
