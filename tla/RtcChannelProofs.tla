--------------------------- MODULE RtcChannelProofs ---------------------------
(***************************************************************************)
(* Proofs about RtcChannel, for any size of the ring and the queue, any     *)
(* hangover and any number of frames: the life of the SDK's engine, the     *)
(* path of the caller's audio and the noise gate.                           *)
(***************************************************************************)
EXTENDS RtcChannel, TLAPS

-----------------------------------------------------------------------------
\* The inductive invariant.

\* Where the session, its engine, its drainer and its closing can be at once.
SessionInv ==
  /\ sess = "new" => engine = "none"
  /\ sess \in {"new", "joining"} => pump = "none"
  /\ sess \in {"joining", "joined", "cancelled"} => engine = "live"
  /\ sess = "failed" => engine = "destroyed"
  /\ drainer = "running" => sess = "joined"
  /\ drainer = "none" => sess \notin {"joined", "left"}
  /\ closer = "none" => sess # "left"
  /\ closer = "stopping" => sess = "joined"
  /\ closer \in {"leaving", "putting", "waiting", "done"} => sess = "left"
  /\ closer = "leaving" => drainer = "cancelled"
  /\ closer \in {"putting", "waiting", "done"} =>
       engine = "destroyed" \/ drainer = "crashed"

\* While the pump runs, the gate's count is that of the quiet frames at the end
\* of what it forwarded.
RunInv ==
  pump \notin {"over", "crashed"} =>
    /\ quietRun <= Len(AsrLane)
    /\ \A j \in (Len(AsrLane) + 1 - quietRun)..Len(AsrLane) : AsrLane[j][1] \in Quiet

\* The frames of a queue, its sentinels apart, increase, and lie in an interval.
Rising(q) ==
  \A i, j \in 1..Len(q) : i < j /\ q[i] # End /\ q[j] # End => q[i] < q[j]

Between(q, low, high) ==
  \A i \in 1..Len(q) : q[i] # End => low < q[i] /\ q[i] <= high

\* The SDK writes behind the ring's last frame, as long as there is an engine.
RingInv == engine # "destroyed" => head = (tail + size) % RingCap

\* What was forwarded is older than what is queued, and that than what is in the
\* ring, which holds frames only.
Flow(v, q, r, m) ==
  /\ Rising(v) /\ Rising(q) /\ Rising(r)
  /\ \A i \in 1..Len(r) : r[i] # End
  /\ \E a, b \in 0..m :
       a <= b /\ Between(v, 0, a) /\ Between(q, a, b) /\ Between(r, b, m)

FlowInv == Flow(VadLane, inbound, Ring, made)

\* The lanes carry the same frames, and a sentinel only behind the last.
LaneInv ==
  /\ Len(VadLane) = Len(AsrLane)
  /\ \A i \in 1..Len(VadLane) :
       /\ VadLane[i] = AsrLane[i][1]
       /\ VadLane[i] \notin Foreign
       /\ VadLane[i] = End => i = Len(VadLane) /\ pump \in {"over", "crashed"}

\* The types of what the pump handles.
Frame == Frames \union {End}
Item == Frame \X BOOLEAN

IInv ==
  /\ TypeOK /\ SessionInv /\ RunInv /\ GateSparesSpeech
  /\ RingInv /\ FlowInv /\ LaneInv

-----------------------------------------------------------------------------
\* Facts about sequences.

\* A taken element leaves the rest, shorter by one.
LEMMA Taken ==
  ASSUME NEW T, NEW q \in Seq(T), q # <<>>
  PROVE  Head(q) \in T /\ Tail(q) \in Seq(T) /\ Len(Tail(q)) = Len(q) - 1
OBVIOUS

\* An appended element is the last.
LEMMA Added ==
  ASSUME NEW T, NEW q \in Seq(T), NEW x \in T
  PROVE  /\ Append(q, x) \in Seq(T)
         /\ Len(Append(q, x)) = Len(q) + 1
OBVIOUS

\* Handing an element from a queue to its reader does not change the lane.
LEMMA LaneMoved ==
  ASSUME NEW T, NEW g \in Seq(T), NEW q \in Seq(T), q # <<>>
  PROVE  Append(g, Head(q)) \o Tail(q) = g \o q
OBVIOUS

\* A put on the queue lengthens the lane by one.
LEMMA LaneGrows ==
  ASSUME NEW T, NEW g \in Seq(T), NEW q \in Seq(T), NEW x \in T
  PROVE  /\ g \o q \in Seq(T)
         /\ g \o Append(q, x) \in Seq(T)
         /\ Len(g \o Append(q, x)) = Len(g \o q) + 1
         /\ \A i \in 1..Len(g \o q) : (g \o Append(q, x))[i] = (g \o q)[i]
         /\ (g \o Append(q, x))[Len(g \o q) + 1] = x
OBVIOUS

\* put_nowait keeps the queue within its size.
LEMMA PutFits ==
  ASSUME NEW T, NEW q \in Seq(T), NEW batch \in Seq(T), Len(q) <= InboundCap
  PROVE  PutNowait(q, batch) \in Seq(T) /\ Len(PutNowait(q, batch)) <= InboundCap
<1>1. InboundCap \in Nat /\ Len(q) \in Nat /\ Len(batch) \in Nat
  BY RtcAssumption DEF RtcAssumption
<1> DEFINE n == IF Len(batch) < InboundCap - Len(q) THEN Len(batch) ELSE InboundCap - Len(q)
<1>2. n \in 0..Len(batch) /\ Len(q) + n <= InboundCap
  BY <1>1
<1>3. SubSeq(batch, 1, n) \in Seq(T) /\ Len(SubSeq(batch, 1, n)) = n
  <2> HIDE DEF n
  <2>1. n \in Nat /\ n <= Len(batch)
    BY <1>1, <1>2
  <2>2. QED
    BY <1>1, <2>1
<1>4. PutNowait(q, batch) = q \o SubSeq(batch, 1, n)
  BY DEF PutNowait
<1>5. QED
  <2> HIDE DEF n
  <2>1. q \o SubSeq(batch, 1, n) \in Seq(T) /\ Len(q \o SubSeq(batch, 1, n)) = Len(q) + n
    BY <1>1, <1>3
  <2>2. QED
    BY <1>2, <1>4, <2>1

\* The sentinels have the lanes' types.
LEMMA EndsTyped ==
  ASSUME TypeOK
  PROVE  /\ Append(asrQ, <<End, FALSE>>) \in Seq((Frames \union {End}) \X BOOLEAN)
         /\ Append(vadQ, End) \in Seq(Frames \union {End})
<1> USE DEF Frame
<1>1. asrQ \in Seq(Frame \X BOOLEAN) /\ vadQ \in Seq(Frame)
  BY DEF TypeOK, Frame
<1>2. <<End, FALSE>> \in Frame \X BOOLEAN /\ End \in Frame
  BY Zenon DEF Frame
<1>3. QED
  BY <1>1, <1>2, Added

\* Taking a frame leaves the queue within its size.
LEMMA InboundTaken ==
  ASSUME TypeOK, inbound # <<>>
  PROVE  /\ Head(inbound) \in Frame
         /\ Tail(inbound) \in Seq(Frame) /\ Len(Tail(inbound)) <= InboundCap
<1>1. inbound \in Seq(Frame) /\ Len(inbound) <= InboundCap
  BY DEF TypeOK, Frame
<1>2. InboundCap \in Nat
  BY RtcAssumption DEF RtcAssumption
<1>3. QED
  BY <1>1, <1>2, Taken

\* leave()'s sentinel waits for room.
LEMMA PutEndTyped ==
  ASSUME TypeOK, PutEnd
  PROVE  /\ inbound' \in Seq(Frame) /\ Len(inbound') <= InboundCap
         /\ closer' \in {"putting", "waiting"}
<1>1. inbound \in Seq(Frame) /\ Len(inbound) <= InboundCap /\ End \in Frame
  BY DEF TypeOK, Frame
<1>2. InboundCap \in Nat /\ Len(inbound) \in Nat
  BY <1>1, RtcAssumption DEF RtcAssumption
<1>3. CASE Len(inbound) < InboundCap
  <2>1. inbound' = Append(inbound, End) /\ closer' = "waiting"
    BY <1>3 DEF PutEnd
  <2>2. Append(inbound, End) \in Seq(Frame) /\ Len(Append(inbound, End)) = Len(inbound) + 1
    BY <1>1, Added
  <2>3. QED
    BY <1>2, <1>3, <2>1, <2>2
<1>4. CASE ~(Len(inbound) < InboundCap)
  BY <1>1, <1>4 DEF PutEnd
<1>5. QED
  BY <1>3, <1>4

\* An index of the ring stays one.
LEMMA RingIndex ==
  ASSUME NEW i \in Int
  PROVE  i % RingCap \in 0..(RingCap - 1)
BY RtcAssumption DEF RtcAssumption

\* A push keeps the ring's types.
LEMMA PushTyped ==
  ASSUME TypeOK, NEW f \in Frames, RingPush(f)
  PROVE  /\ slots' \in [0..(RingCap - 1) -> Frames \union {End}]
         /\ head' \in 0..(RingCap - 1) /\ tail' \in 0..(RingCap - 1)
         /\ size' \in 0..RingCap
<1>1. /\ slots \in [0..(RingCap - 1) -> Frames \union {End}]
      /\ head \in 0..(RingCap - 1) /\ tail \in 0..(RingCap - 1)
      /\ size \in 0..RingCap
  BY DEF TypeOK
<1>2. slots' \in [0..(RingCap - 1) -> Frames \union {End}]
  BY <1>1 DEF RingPush
<1>3. head + 1 \in Int /\ tail + 1 \in Int
  BY <1>1
<1>4. (head + 1) % RingCap \in 0..(RingCap - 1) /\ (tail + 1) % RingCap \in 0..(RingCap - 1)
  BY <1>3, RingIndex
<1>5. head' = (head + 1) % RingCap /\ (tail' = tail \/ tail' = (tail + 1) % RingCap)
  BY DEF RingPush
<1>6. size' = size \/ (size # RingCap /\ size' = size + 1)
  BY DEF RingPush
<1>7. size' \in 0..RingCap
  BY <1>1, <1>6, RtcAssumption DEF RtcAssumption
<1>8. QED
  BY <1>1, <1>2, <1>4, <1>5, <1>7

\* A drain returns frames, and no more than there are.
LEMMA DrainFacts ==
  ASSUME TypeOK
  PROVE  Drained \in Seq(Frame) /\ DrainCount \in 0..size
<1>1. DrainCount \in Nat /\ DrainCount <= size
  BY RtcAssumption DEF TypeOK, DrainCount, RtcAssumption
<1>2. ASSUME NEW i \in 1..DrainCount PROVE slots[(tail + i - 1) % RingCap] \in Frame
  <2>1. tail \in Int
    BY DEF TypeOK
  <2>2. (tail + i - 1) % RingCap \in 0..(RingCap - 1)
    BY <2>1, RingIndex
  <2>3. QED
    BY <2>2 DEF TypeOK, Frame
<1>3. Drained \in [1..DrainCount -> Frame]
  BY <1>2 DEF Drained
<1>4. QED
  BY <1>1, <1>3 DEF TypeOK

\* Every step keeps the types.
LEMMA TypePreserved ==
  ASSUME TypeOK, [Next]_vars
  PROVE  TypeOK'
<1> USE DEF TypeOK, joinVars, ringVars, laneVars, gotVars, afterJoin, outOfPump,
    lanes, closing
<1>1. CASE SdkFrame
  <2>1. /\ made + 1 \in Frames /\ made' \in 0..MaxFrames
    BY <1>1, RtcAssumption DEF SdkFrame, RtcAssumption, Frames
  <2>2. RingPush(made + 1)
    BY <1>1 DEF SdkFrame
  <2>3. /\ slots' \in [0..(RingCap - 1) -> Frames \union {End}]
        /\ head' \in 0..(RingCap - 1) /\ tail' \in 0..(RingCap - 1)
        /\ size' \in 0..RingCap
    BY <2>1, <2>2, PushTyped
  <2>4. QED
    BY <1>1, <2>1, <2>3 DEF SdkFrame
<1>2. ASSUME NEW rc \in {"ok", "refused"}, OnJoinResult(rc) PROVE TypeOK'
  <2>1. posted' \in Seq({"ok", "refused"})
    BY <1>2, Added DEF OnJoinResult
  <2>2. results' \in 0..MaxResults
    BY <1>2, RtcAssumption DEF OnJoinResult, RtcAssumption
  <2>3. QED
    BY <1>2, <2>1, <2>2 DEF OnJoinResult
<1>3. CASE SetupAndJoin
  BY <1>3 DEF SetupAndJoin
<1>4. CASE SetupFails
  BY <1>4 DEF SetupFails
<1>5. CASE ResultLands
  BY <1>5 DEF ResultLands
<1>6. CASE Joined
  BY <1>6 DEF Joined
<1>7. CASE JoinFails
  BY <1>7 DEF JoinFails
<1>8. CASE JoinCancelled
  BY <1>8 DEF JoinCancelled
<1>9. CASE DrainRound
  <2>1. inbound' = PutNowait(inbound, Drained) /\ RingDrain
    BY <1>9 DEF DrainRound
  <2>2. Drained \in Seq(Frame) /\ DrainCount \in 0..size /\ inbound \in Seq(Frame)
    BY DrainFacts DEF Frame
  <2>3. inbound' \in Seq(Frame) /\ Len(inbound') <= InboundCap
    BY <2>1, <2>2, PutFits
  <2>4. tail' \in 0..(RingCap - 1)
    <3>1. tail \in Int /\ DrainCount \in Int
      BY <2>2
    <3>2. QED
      BY <2>1, <3>1, RingIndex DEF RingDrain
  <2>5. size' \in 0..RingCap
    BY <2>1, <2>2, RtcAssumption DEF RingDrain, RtcAssumption
  <2>6. UNCHANGED <<slots, head>>
    BY <2>1 DEF RingDrain
  <2>7. QED
    BY <1>9, <2>3, <2>4, <2>5, <2>6 DEF DrainRound, Frame
<1>10. CASE DrainerCrashes
  BY <1>10 DEF DrainerCrashes, DrainerRuns
<1>11. CASE PumpStarts
  <2>1. /\ asrQ' \in Seq((Frames \union {End}) \X BOOLEAN)
        /\ vadQ' \in Seq(Frames \union {End})
        /\ pump' \in {"none", "created", "waiting", "over", "crashed"}
    <3>1. PumpEnds("over") \/ UNCHANGED <<asrQ, vadQ>>
      BY <1>11 DEF PumpStarts
    <3>2. QED
      BY <1>11, <3>1, EndsTyped, Zenon DEF PumpStarts, PumpEnds
  <2>2. QED
    BY <1>11, <2>1 DEF PumpStarts
<1>12. CASE PumpForwards
  <2>2. /\ Append(asrQ, <<End, FALSE>>) \in Seq((Frames \union {End}) \X BOOLEAN)
        /\ Append(vadQ, End) \in Seq(Frames \union {End})
    BY EndsTyped
  <2>3. inbound' \in Seq(Frame) /\ Len(inbound') <= InboundCap
    BY <1>12, InboundTaken DEF PumpForwards
  <2>4. CASE Head(inbound) = End
    <3>1. PumpEnds("over") /\ UNCHANGED quietRun
      BY <1>12, <2>4 DEF PumpForwards
    <3>2. /\ asrQ' \in Seq((Frames \union {End}) \X BOOLEAN)
          /\ vadQ' \in Seq(Frames \union {End})
          /\ pump' = "over"
      BY <2>2, <3>1 DEF PumpEnds
    <3>3. QED
      BY <1>12, <2>3, <3>1, <3>2 DEF PumpForwards, Frame
  <2>5. CASE Head(inbound) \in Foreign /\ Head(inbound) # End
    BY <1>12, <2>3, <2>5 DEF PumpForwards, Frame
  <2>6. CASE Head(inbound) \notin Foreign /\ Head(inbound) # End
    <3>1. /\ quietRun' = NextRun(Head(inbound))
          /\ asrQ' = Append(asrQ, <<Head(inbound), NextRun(Head(inbound)) > Hangover>>)
          /\ vadQ' = Append(vadQ, Head(inbound))
          /\ UNCHANGED pump
      BY <1>12, <2>6, Zenon DEF PumpForwards
    <3>2. quietRun' \in 0..(Hangover + 1)
      BY <3>1, RtcAssumption DEF NextRun, RtcAssumption
    <3>3. Head(inbound) \in Frame
      BY <1>12, InboundTaken DEF PumpForwards
    <3>4. /\ asrQ' \in Seq(Frame \X BOOLEAN)
          /\ vadQ' \in Seq(Frame)
      <4>1. asrQ \in Seq(Frame \X BOOLEAN) /\ vadQ \in Seq(Frame)
        BY DEF Frame
      <4>2. (NextRun(Head(inbound)) > Hangover) \in BOOLEAN
        OBVIOUS
      <4>3. <<Head(inbound), NextRun(Head(inbound)) > Hangover>> \in Frame \X BOOLEAN
        BY <3>3, <4>2, Zenon
      <4>4. QED
        BY <3>1, <3>3, <4>1, <4>3, Added
    <3>5. QED
      BY <1>12, <2>3, <3>1, <3>2, <3>4 DEF PumpForwards, Frame
  <2>7. QED
    BY <2>4, <2>5, <2>6
<1>13. CASE PumpCrashes
  <2>2. /\ Append(asrQ, <<End, FALSE>>) \in Seq((Frames \union {End}) \X BOOLEAN)
        /\ Append(vadQ, End) \in Seq(Frames \union {End})
    BY EndsTyped
  <2>3. inbound' \in Seq(Frame) /\ Len(inbound') <= InboundCap
    BY <1>13, InboundTaken DEF PumpCrashes
  <2>4. QED
    BY <1>13, <2>2, <2>3 DEF PumpCrashes, PumpEnds, Frame
<1>14. CASE AudioIn
  BY <1>14 DEF AudioIn
<1>15. CASE AudioInVad
  BY <1>15 DEF AudioInVad
<1>16. CASE OutStarts
  BY <1>16 DEF OutStarts
<1>17. CASE OutBreaks
  BY <1>17 DEF OutBreaks
<1>18. CASE CloseBegins
  BY <1>18 DEF CloseBegins
<1>19. CASE LeaveBegins
  BY <1>19 DEF LeaveBegins
<1>20. CASE LeaveEnds
  <2>1. /\ inbound' \in Seq(Frame) /\ Len(inbound') <= InboundCap
        /\ closer' \in {"putting", "waiting"}
    BY <1>20, PutEndTyped DEF LeaveEnds
  <2>2. 0 \in 0..RingCap
    BY RtcAssumption DEF RtcAssumption
  <2>3. QED
    BY <1>20, <2>1, <2>2 DEF LeaveEnds, Frame
<1>21. CASE LeavePuts
  <2>1. /\ inbound' \in Seq(Frame) /\ Len(inbound') <= InboundCap
        /\ closer' \in {"putting", "waiting"}
    BY <1>21, PutEndTyped DEF LeavePuts
  <2>2. 0 \in 0..RingCap
    BY RtcAssumption DEF RtcAssumption
  <2>3. QED
    BY <1>21, <2>1, <2>2 DEF LeavePuts, Frame
<1>22. CASE CloseWaits
  <2>1. /\ asrQ' \in Seq((Frames \union {End}) \X BOOLEAN)
        /\ vadQ' \in Seq(Frames \union {End})
        /\ pump' \in {"none", "created", "waiting", "over", "crashed"}
    <3>1. PumpEnds("over") \/ UNCHANGED <<asrQ, vadQ>>
      BY <1>22 DEF CloseWaits
    <3>2. QED
      BY <1>22, <3>1, EndsTyped, Zenon DEF CloseWaits, PumpEnds
  <2>2. QED
    BY <1>22, <2>1 DEF CloseWaits
<1>23. CASE UNCHANGED vars
  BY <1>23 DEF vars
<1>24. QED
  BY <1>1, <1>2, <1>3, <1>4, <1>5, <1>6, <1>7, <1>8, <1>9, <1>10, <1>11, <1>12, <1>13,
      <1>14, <1>15, <1>16, <1>17, <1>18, <1>19, <1>20, <1>21, <1>22, <1>23, Zenon DEF
      Next, Sdk, Join, Pump, Close

\* Every step keeps session, engine, drainer and closing in step.
LEMMA SessionPreserved ==
  ASSUME TypeOK, SessionInv, [Next]_vars
  PROVE  SessionInv'
<1> USE DEF TypeOK, SessionInv, joinVars, ringVars, laneVars, gotVars, afterJoin,
    outOfPump, lanes, closing
<1>1. CASE SdkFrame
  BY <1>1 DEF SdkFrame
<1>2. ASSUME NEW rc \in {"ok", "refused"}, OnJoinResult(rc) PROVE SessionInv'
  BY <1>2 DEF OnJoinResult
<1>3. CASE SetupAndJoin
  BY <1>3 DEF SetupAndJoin
<1>4. CASE SetupFails
  BY <1>4 DEF SetupFails
<1>5. CASE ResultLands
  BY <1>5 DEF ResultLands
<1>6. CASE Joined
  BY <1>6 DEF Joined
<1>7. CASE JoinFails
  BY <1>7 DEF JoinFails
<1>8. CASE JoinCancelled
  BY <1>8 DEF JoinCancelled
<1>9. CASE DrainRound
  BY <1>9 DEF DrainRound, DrainerRuns
<1>10. CASE DrainerCrashes
  BY <1>10 DEF DrainerCrashes, DrainerRuns
<1>11. CASE PumpStarts
  BY <1>11 DEF PumpStarts, PumpEnds
<1>12. CASE PumpForwards
  BY <1>12 DEF PumpForwards, PumpEnds
<1>13. CASE PumpCrashes
  BY <1>13 DEF PumpCrashes, PumpEnds
<1>14. CASE AudioIn
  BY <1>14 DEF AudioIn
<1>15. CASE AudioInVad
  BY <1>15 DEF AudioInVad
<1>16. CASE OutStarts
  BY <1>16 DEF OutStarts
<1>17. CASE OutBreaks
  BY <1>17 DEF OutBreaks
<1>18. CASE CloseBegins
  BY <1>18 DEF CloseBegins
<1>19. CASE LeaveBegins
  BY <1>19 DEF LeaveBegins
<1>20. CASE LeaveEnds
  BY <1>20 DEF LeaveEnds, PutEnd
<1>21. CASE LeavePuts
  BY <1>21 DEF LeavePuts, PutEnd
<1>22. CASE CloseWaits
  BY <1>22 DEF CloseWaits, PumpEnds
<1>23. CASE UNCHANGED vars
  BY <1>23 DEF vars
<1>24. QED
  BY <1>1, <1>2, <1>3, <1>4, <1>5, <1>6, <1>7, <1>8, <1>9, <1>10, <1>11, <1>12, <1>13,
      <1>14, <1>15, <1>16, <1>17, <1>18, <1>19, <1>20, <1>21, <1>22, <1>23, Zenon DEF
      Next, Sdk, Join, Pump, Close

-----------------------------------------------------------------------------
\* The path of the audio.

ended == {"over", "crashed"}

\* The steps that move frames.
Moves ==
  \/ SdkFrame \/ DrainRound \/ PumpStarts \/ PumpForwards \/ PumpCrashes
  \/ AudioIn \/ AudioInVad \/ LeaveEnds \/ LeavePuts \/ CloseWaits

\* The other steps leave the frames where they are.
Aside ==
  /\ UNCHANGED <<made, slots, head, tail, size, inbound, asrQ, vadQ, asrGot, vadGot, quietRun>>
  /\ pump \in ended => pump' \in ended
  /\ engine' # "destroyed" => engine # "destroyed"

\* Every step that moves no frame is one of them.
LEMMA Asides ==
  ASSUME TypeOK, SessionInv, [Next]_vars, ~Moves
  PROVE  Aside
<1> USE DEF joinVars, ringVars, laneVars, gotVars, afterJoin, closing, Aside, ended
<1>1. ASSUME NEW rc \in {"ok", "refused"}, OnJoinResult(rc) PROVE Aside
  BY <1>1 DEF OnJoinResult
<1>2. CASE SetupAndJoin
  BY <1>2 DEF SetupAndJoin, SessionInv
<1>3. CASE SetupFails
  BY <1>3 DEF SetupFails
<1>4. CASE ResultLands
  BY <1>4 DEF ResultLands
<1>5. CASE Joined
  BY <1>5 DEF Joined, SessionInv
<1>6. CASE JoinFails
  BY <1>6 DEF JoinFails
<1>7. CASE JoinCancelled
  BY <1>7 DEF JoinCancelled
<1>8. CASE DrainerCrashes
  BY <1>8 DEF DrainerCrashes
<1>9. CASE OutStarts
  BY <1>9 DEF OutStarts
<1>10. CASE OutBreaks
  BY <1>10 DEF OutBreaks
<1>11. CASE CloseBegins
  BY <1>11 DEF CloseBegins
<1>12. CASE LeaveBegins
  BY <1>12 DEF LeaveBegins
<1>13. CASE UNCHANGED vars
  BY <1>13 DEF vars
<1>14. QED
  BY <1>1, <1>2, <1>3, <1>4, <1>5, <1>6, <1>7, <1>8, <1>9, <1>10, <1>11, <1>12, <1>13,
    Zenon DEF Moves, Next, Sdk, Join, Pump, Close

\* A put on the queue is a put at the end of the lane.
LEMMA LaneAppends ==
  ASSUME NEW T, NEW g \in Seq(T), NEW q \in Seq(T), NEW x \in T
  PROVE  g \o q \in Seq(T) /\ g \o Append(q, x) = Append(g \o q, x)
OBVIOUS

\* Indices of the ring, one round of it apart.
LEMMA Wraps ==
  ASSUME NEW x \in Nat
  PROVE  /\ x < RingCap => x % RingCap = x
         /\ RingCap <= x /\ x < RingCap + RingCap => x % RingCap = x - RingCap
<1>1. RingCap \in Nat \ {0}
  BY RtcAssumption DEF RtcAssumption
<1>2. x < RingCap => x % RingCap = x
  BY <1>1
<1>3. RingCap <= x /\ x < RingCap + RingCap => x % RingCap = x - RingCap
  BY <1>1
<1>4. QED
  BY <1>2, <1>3

\* A full round of the ring ends where it began.
LEMMA Round ==
  ASSUME NEW t \in 0..(RingCap - 1)
  PROVE  (t + RingCap) % RingCap = t
<1>1. RingCap \in Nat \ {0} /\ t \in Nat /\ t < RingCap
  BY RtcAssumption DEF RtcAssumption
<1>2. /\ t + RingCap \in Nat /\ RingCap <= t + RingCap /\ t + RingCap < RingCap + RingCap
      /\ (t + RingCap) - RingCap = t
  BY <1>1
<1>3. QED
  BY <1>2, Wraps

\* Different places of the ring are different slots.
LEMMA Apart ==
  ASSUME NEW t \in 0..(RingCap - 1), NEW i \in Nat, NEW j \in Nat, i < j, j < RingCap
  PROVE  (t + i) % RingCap # (t + j) % RingCap
<1>1. RingCap \in Nat \ {0} /\ t \in Nat /\ t < RingCap
  BY RtcAssumption DEF RtcAssumption
<1>2. t + i \in Nat /\ t + j \in Nat
  BY <1>1
<1>3. /\ t + i < RingCap => (t + i) % RingCap = t + i
      /\ RingCap <= t + i /\ t + i < RingCap + RingCap =>
           (t + i) % RingCap = (t + i) - RingCap
  BY <1>2, Wraps
<1>4. /\ t + j < RingCap => (t + j) % RingCap = t + j
      /\ RingCap <= t + j /\ t + j < RingCap + RingCap =>
           (t + j) % RingCap = (t + j) - RingCap
  BY <1>2, Wraps
<1> DEFINE a == (t + i) % RingCap
           b == (t + j) % RingCap
<1> SUFFICES a # b
  OBVIOUS
<1>5. /\ t + i < RingCap => a = t + i
      /\ RingCap <= t + i /\ t + i < RingCap + RingCap => a = (t + i) - RingCap
      /\ t + j < RingCap => b = t + j
      /\ RingCap <= t + j /\ t + j < RingCap + RingCap => b = (t + j) - RingCap
  BY <1>3, <1>4
<1> HIDE DEF a, b
<1>6. QED
  BY <1>1, <1>5

\* An index counted from a moved start.
LEMMA Shifted ==
  ASSUME NEW t \in 0..(RingCap - 1), NEW n \in Nat, NEW i \in Nat, n + i <= RingCap
  PROVE  (((t + n) % RingCap) + i) % RingCap = (t + (n + i)) % RingCap
<1>1. RingCap \in Nat \ {0} /\ t \in Nat /\ t < RingCap
  BY RtcAssumption DEF RtcAssumption
<1>2. t + n \in Nat /\ t + (n + i) \in Nat /\ t + n < RingCap + RingCap
      /\ t + (n + i) < RingCap + RingCap
  BY <1>1
<1>3. CASE t + n < RingCap
  <2>1. (t + n) % RingCap = t + n
    BY <1>2, <1>3, Wraps
  <2>2. (t + n) + i = t + (n + i)
    BY <1>1
  <2>3. QED
    BY <2>1, <2>2
<1>4. CASE RingCap <= t + n
  <2>1. (t + n) % RingCap = (t + n) - RingCap
    BY <1>2, <1>4, Wraps
  <2> DEFINE y == (t + n) - RingCap + i
             z == t + (n + i)
  <2>2. y \in Nat /\ y < RingCap /\ z \in Nat /\ RingCap <= z /\ z < RingCap + RingCap
        /\ y = z - RingCap
    BY <1>1, <1>4
  <2> HIDE DEF y, z
  <2>3. y % RingCap = y /\ z % RingCap = z - RingCap
    BY <2>2, Wraps
  <2>4. QED
    BY <2>1, <2>2, <2>3 DEF y, z
<1>5. QED
  BY <1>1, <1>2, <1>3, <1>4

\* The ring is a queue of size frames.
LEMMA RingTyped ==
  ASSUME TypeOK
  PROVE  /\ Ring \in Seq(Frame) /\ Len(Ring) = size
         /\ \A i \in 1..size : Ring[i] = slots[(tail + i - 1) % RingCap]
<1>1. size \in Nat /\ tail \in Int /\ slots \in [0..(RingCap - 1) -> Frame]
  BY RtcAssumption DEF TypeOK, RtcAssumption, Frame
<1>2. ASSUME NEW i \in 1..size PROVE slots[(tail + i - 1) % RingCap] \in Frame
  <2>1. (tail + i - 1) % RingCap \in 0..(RingCap - 1)
    BY <1>1, RingIndex
  <2>2. QED
    BY <1>1, <2>1
<1>3. Ring \in [1..size -> Frame]
  BY <1>2 DEF Ring
<1>4. Ring \in Seq(Frame) /\ Len(Ring) = size
  BY <1>1, <1>3
<1>5. \A i \in 1..size : Ring[i] = slots[(tail + i - 1) % RingCap]
  BY DEF Ring
<1>6. QED
  BY <1>4, <1>5

\* The same of the next state.
LEMMA RingTypedNext ==
  ASSUME TypeOK'
  PROVE  /\ Ring' \in Seq(Frame) /\ Len(Ring') = size'
         /\ \A i \in 1..size' : Ring'[i] = slots'[(tail' + i - 1) % RingCap]
<1>1. size' \in Nat /\ tail' \in Int /\ slots' \in [0..(RingCap - 1) -> Frame]
  BY RtcAssumption DEF TypeOK, RtcAssumption, Frame
<1>2. ASSUME NEW i \in 1..size' PROVE slots'[(tail' + i - 1) % RingCap] \in Frame
  <2>1. tail' + i - 1 \in Int
    BY <1>1
  <2>2. (tail' + i - 1) % RingCap \in 0..(RingCap - 1)
    BY <2>1, RingIndex
  <2>3. QED
    BY <1>1, <2>2
<1>3. Ring' = [i \in 1..size' |-> slots'[(tail' + i - 1) % RingCap]]
  BY DEF Ring
<1> DEFINE r == Ring'
<1>4. r \in [1..size' -> Frame] /\ \A i \in 1..size' : r[i] = slots'[(tail' + i - 1) % RingCap]
  BY <1>2, <1>3
<1> HIDE DEF r
<1>5. r \in Seq(Frame) /\ Len(r) = size'
  BY <1>1, <1>4
<1>6. QED
  BY <1>4, <1>5 DEF r

\* A push puts its frame behind the others, and over the oldest of a full ring.
LEMMA RingPushed ==
  ASSUME TypeOK, TypeOK', NEW f \in Frames, RingPush(f), head = (tail + size) % RingCap
  PROVE  /\ head' = (tail' + size') % RingCap
         /\ Ring' = Append(IF size = RingCap THEN Tail(Ring) ELSE Ring, f)
<1>1. /\ RingCap \in Nat \ {0} /\ tail \in 0..(RingCap - 1) /\ head \in 0..(RingCap - 1)
      /\ size \in 0..RingCap /\ slots \in [0..(RingCap - 1) -> Frame] /\ f \in Frame
  BY RtcAssumption DEF TypeOK, RtcAssumption, Frame
<1>2. /\ Ring \in Seq(Frame) /\ Len(Ring) = size
      /\ \A i \in 1..size : Ring[i] = slots[(tail + i - 1) % RingCap]
  BY RingTyped
<1>3. /\ Ring' \in Seq(Frame) /\ Len(Ring') = size'
      /\ \A i \in 1..size' : Ring'[i] = slots'[(tail' + i - 1) % RingCap]
  BY RingTypedNext
<1>4. /\ slots'[head] = f
      /\ \A k \in 0..(RingCap - 1) : k # head => slots'[k] = slots[k]
      /\ head' = (head + 1) % RingCap
  BY <1>1 DEF RingPush
<1>5. CASE size = RingCap
  <2>1. tail' = (tail + 1) % RingCap /\ size' = RingCap
    BY <1>5 DEF RingPush
  <2>2. head = tail
    BY <1>1, <1>5, Round
  <2>3. head' = (tail' + size') % RingCap
    <3>1. tail' \in 0..(RingCap - 1)
      BY DEF TypeOK
    <3>2. (tail' + RingCap) % RingCap = tail'
      BY <3>1, Round, Zenon
    <3>3. QED
      BY <1>4, <2>1, <2>2, <3>2
  <2>4. ASSUME NEW i \in 1..RingCap
        PROVE  Ring'[i] = IF i < RingCap THEN Ring[i + 1] ELSE f
    <3>1. 1 \in Nat /\ i - 1 \in Nat /\ 1 + (i - 1) <= RingCap /\ 1 + (i - 1) = i
      BY <1>1
    <3>2. (((tail + 1) % RingCap) + (i - 1)) % RingCap = (tail + (1 + (i - 1))) % RingCap
      BY <1>1, <3>1, Shifted, Zenon
    <3>3. tail' + i - 1 = tail' + (i - 1)
      BY DEF TypeOK
    <3>4. Ring'[i] = slots'[(tail + i) % RingCap]
      BY <1>3, <2>1, <3>1, <3>2, <3>3
    <3>5. CASE i = RingCap
      BY <1>4, <1>5, <3>4, <3>5
    <3>6. CASE i < RingCap
      <4>1. tail + 0 = tail /\ tail < RingCap /\ tail \in Nat /\ 0 < i /\ i \in Nat
        BY <1>1
      <4>2. (tail + 0) % RingCap # (tail + i) % RingCap
        <5>1. 0 \in Nat
          OBVIOUS
        <5>2. QED
          BY <1>1, <3>6, <4>1, <5>1, Apart, Zenon
      <4>3. (tail + i) % RingCap # head
        BY <2>2, <4>1, <4>2, Wraps
      <4>4. tail + i \in Int /\ tail + (i + 1) - 1 = tail + i /\ i + 1 \in 1..RingCap
        BY <1>1, <3>6
      <4>5. (tail + i) % RingCap \in 0..(RingCap - 1)
        BY <4>4, RingIndex
      <4>6. slots'[(tail + i) % RingCap] = slots[(tail + i) % RingCap]
        BY <1>4, <4>3, <4>5
      <4>7. Ring[i + 1] = slots[(tail + i) % RingCap]
        BY <1>2, <1>5, <4>4
      <4>8. QED
        BY <3>4, <3>6, <4>6, <4>7
    <3>7. QED
      BY <1>1, <3>5, <3>6
  <2>5. Ring' = Append(Tail(Ring), f)
    <3> DEFINE r == Ring
               s == Ring'
    <3>1. /\ r \in Seq(Frame) /\ Len(r) = RingCap /\ s \in Seq(Frame) /\ Len(s) = RingCap
          /\ \A i \in 1..RingCap : s[i] = IF i < RingCap THEN r[i + 1] ELSE f
      BY <1>2, <1>3, <1>5, <2>1, <2>4
    <3> HIDE DEF r, s
    <3>2. s = Append(Tail(r), f)
      BY <1>1, <3>1
    <3>3. QED
      BY <3>2 DEF r, s
  <2>6. QED
    BY <1>5, <2>3, <2>5
<1>6. CASE size < RingCap
  <2>1. tail' = tail /\ size' = size + 1
    BY <1>1, <1>6 DEF RingPush
  <2>2. head' = (tail' + size') % RingCap
    <3>1. size \in Nat /\ 1 \in Nat /\ size + 1 <= RingCap
      BY <1>1, <1>6
    <3>2. (((tail + size) % RingCap) + 1) % RingCap = (tail + (size + 1)) % RingCap
      BY <1>1, <3>1, Shifted
    <3>3. QED
      BY <1>4, <2>1, <3>2
  <2>3. ASSUME NEW i \in 1..(size + 1)
        PROVE  Ring'[i] = IF i <= size THEN Ring[i] ELSE f
    <3>1. Ring'[i] = slots'[(tail + i - 1) % RingCap]
      BY <1>3, <2>1
    <3>2. tail + i - 1 = tail + (i - 1) /\ i - 1 \in Nat /\ size \in Nat
      BY <1>1
    <3>3. CASE i <= size
      <4>1. i - 1 < size
        BY <1>1, <3>3
      <4>2. (tail + (i - 1)) % RingCap # (tail + size) % RingCap
        BY <1>1, <1>6, <3>2, <4>1, Apart, Zenon
      <4>3. (tail + i - 1) % RingCap \in 0..(RingCap - 1)
        <5>1. tail + i - 1 \in Int
          BY <1>1
        <5>2. QED
          BY <5>1, RingIndex
      <4>4. slots'[(tail + i - 1) % RingCap] = slots[(tail + i - 1) % RingCap]
        BY <1>4, <3>2, <4>2, <4>3
      <4>5. i \in 1..size
        BY <1>1, <3>3
      <4>6. QED
        BY <1>2, <3>1, <3>3, <4>4, <4>5
    <3>4. CASE i = size + 1
      <4>1. i - 1 = size /\ ~(i <= size)
        BY <1>1, <3>4
      <4>2. QED
        BY <1>4, <3>1, <3>2, <4>1
    <3>5. QED
      BY <1>1, <3>3, <3>4
  <2>4. Ring' = Append(Ring, f)
    <3> DEFINE r == Ring
               s == Ring'
    <3>1. /\ r \in Seq(Frame) /\ Len(r) = size /\ s \in Seq(Frame) /\ Len(s) = size + 1
          /\ \A i \in 1..(size + 1) : s[i] = IF i <= size THEN r[i] ELSE f
      BY <1>2, <1>3, <2>1, <2>3
    <3> HIDE DEF r, s
    <3>2. s = Append(r, f)
      BY <1>1, <3>1
    <3>3. QED
      BY <3>2 DEF r, s
  <2>5. size # RingCap
    BY <1>1, <1>6
  <2>6. QED
    BY <2>2, <2>4, <2>5
<1>7. QED
  BY <1>1, <1>5, <1>6

\* A drain takes the oldest frames, and leaves the others in their order.
LEMMA RingDrained ==
  ASSUME TypeOK, TypeOK', RingDrain
  PROVE  /\ Len(Drained) = DrainCount
         /\ \A i \in 1..DrainCount : Drained[i] = Ring[i]
         /\ Len(Ring') = Len(Ring) - DrainCount
         /\ \A i \in 1..(Len(Ring) - DrainCount) : Ring'[i] = Ring[DrainCount + i]
         /\ head = (tail + size) % RingCap => head' = (tail' + size') % RingCap
<1>1. /\ RingCap \in Nat \ {0} /\ tail \in 0..(RingCap - 1) /\ size \in 0..RingCap
      /\ DrainCount \in 0..size
  BY RtcAssumption, DrainFacts, Zenon DEF TypeOK, RtcAssumption
<1>2. /\ Ring \in Seq(Frame) /\ Len(Ring) = size
      /\ \A i \in 1..size : Ring[i] = slots[(tail + i - 1) % RingCap]
  BY RingTyped
<1>3. /\ Ring' \in Seq(Frame) /\ Len(Ring') = size'
      /\ \A i \in 1..size' : Ring'[i] = slots'[(tail' + i - 1) % RingCap]
  BY RingTypedNext
<1>4. /\ tail' = (tail + DrainCount) % RingCap /\ size' = size - DrainCount
      /\ slots' = slots /\ head' = head
  BY DEF RingDrain
<1>5. ASSUME NEW i \in 1..(size - DrainCount)
      PROVE  Ring'[i] = Ring[DrainCount + i]
  <2>1. /\ DrainCount \in Nat /\ i - 1 \in Nat /\ DrainCount + (i - 1) <= RingCap
        /\ tail + (DrainCount + (i - 1)) = tail + (DrainCount + i) - 1
        /\ DrainCount + i \in 1..size
    BY <1>1
  <2>2. (((tail + DrainCount) % RingCap) + (i - 1)) % RingCap
          = (tail + (DrainCount + (i - 1))) % RingCap
    BY <1>1, <2>1, Shifted, Zenon
  <2>3. tail' \in Int
    BY <1>1, <1>4, RingIndex
  <2>4. tail' + i - 1 = tail' + (i - 1)
    BY <2>3
  <2>5. Ring'[i] = slots[(tail + (DrainCount + i) - 1) % RingCap]
    BY <1>3, <1>4, <2>1, <2>2, <2>4
  <2>6. QED
    BY <1>2, <2>1, <2>5
<1>6. head = (tail + size) % RingCap => head' = (tail' + size') % RingCap
  <2>1. DrainCount \in Nat /\ size - DrainCount \in Nat
        /\ DrainCount + (size - DrainCount) <= RingCap
        /\ DrainCount + (size - DrainCount) = size
    BY <1>1
  <2>2. (((tail + DrainCount) % RingCap) + (size - DrainCount)) % RingCap
          = (tail + (DrainCount + (size - DrainCount))) % RingCap
    BY <1>1, <2>1, Shifted, Zenon
  <2>3. QED
    BY <1>4, <2>1, <2>2
<1>7. /\ Len(Drained) = DrainCount
      /\ \A i \in 1..DrainCount : Drained[i] = slots[(tail + i - 1) % RingCap]
  <2>1. Drained \in Seq(Frame)
    BY DrainFacts
  <2>2. DOMAIN Drained = 1..DrainCount
    BY DEF Drained
  <2>3. Len(Drained) = DrainCount
    BY <1>1, <2>1, <2>2
  <2>4. QED
    BY <2>3, Zenon DEF Drained
<1>8. \A i \in 1..DrainCount : i \in 1..size
  BY <1>1
<1>9. QED
  BY <1>2, <1>3, <1>4, <1>5, <1>6, <1>7, <1>8, Zenon

\* The frames of a piece of a queue are ordered as in the queue.
LEMMA Piece ==
  ASSUME NEW q \in Seq(Nat), NEW w \in Seq(Nat), NEW k \in Nat, Rising(q),
         \A i \in 1..Len(w) : w[i] # End => k + i \in 1..Len(q) /\ w[i] = q[k + i]
  PROVE  /\ Rising(w)
         /\ \A a, b : Between(q, a, b) => Between(w, a, b)
<1>1. ASSUME NEW i \in 1..Len(w), NEW j \in 1..Len(w), i < j, w[i] # End, w[j] # End
      PROVE  w[i] < w[j]
  <2>1. k + i \in 1..Len(q) /\ w[i] = q[k + i] /\ k + j \in 1..Len(q) /\ w[j] = q[k + j]
    BY <1>1, Zenon
  <2>2. k + i < k + j
    BY <1>1
  <2>3. QED
    BY <1>1, <2>1, <2>2, Zenon DEF Rising
<1>2. ASSUME NEW a, NEW b, Between(q, a, b) PROVE Between(w, a, b)
  BY <1>2, Zenon DEF Between
<1>3. QED
  BY <1>1, <1>2, Zenon DEF Rising

\* Where two places lie to a third.
LEMMA Later ==
  ASSUME NEW i \in Nat, NEW j \in Nat, NEW n \in Nat, i < j
  PROVE  /\ j <= n => i <= n
         /\ ~(i <= n) => ~(j <= n) /\ i - n < j - n
OBVIOUS

\* A queue whose frames are all younger can follow another.
LEMMA Joint ==
  ASSUME NEW q \in Seq(Nat), NEW d \in Seq(Nat), NEW a \in Nat, NEW b \in Nat, NEW c \in Nat,
         a <= b, b <= c, Rising(q), Rising(d), Between(q, a, b), Between(d, b, c)
  PROVE  q \o d \in Seq(Nat) /\ Rising(q \o d) /\ Between(q \o d, a, c)
<1> DEFINE w == q \o d
<1>1. /\ w \in Seq(Nat) /\ Len(w) = Len(q) + Len(d) /\ Len(q) \in Nat /\ Len(d) \in Nat
      /\ \A i \in 1..Len(w) : w[i] = IF i <= Len(q) THEN q[i] ELSE d[i - Len(q)]
  OBVIOUS
<1> HIDE DEF w
<1>2. ASSUME NEW i \in 1..Len(w), w[i] # End, i <= Len(q)
      PROVE  i \in 1..Len(q) /\ w[i] = q[i] /\ a < w[i] /\ w[i] <= b
  <2>1. i \in 1..Len(q) /\ w[i] = q[i]
    BY <1>1, <1>2
  <2>2. QED
    BY <1>2, <2>1, Zenon DEF Between
<1>3. ASSUME NEW i \in 1..Len(w), w[i] # End, ~(i <= Len(q))
      PROVE  i - Len(q) \in 1..Len(d) /\ w[i] = d[i - Len(q)] /\ b < w[i] /\ w[i] <= c
  <2>1. i - Len(q) \in 1..Len(d) /\ w[i] = d[i - Len(q)]
    BY <1>1, <1>3
  <2>2. QED
    BY <1>3, <2>1, Zenon DEF Between
<1>4. \A i \in 1..Len(w) : w[i] \in Nat
  BY <1>1
<1>5. ASSUME NEW i \in 1..Len(w), w[i] # End PROVE a < w[i] /\ w[i] <= c
  <2>1. (a < w[i] /\ w[i] <= b) \/ (b < w[i] /\ w[i] <= c)
    BY <1>2, <1>3, <1>5, Zenon
  <2>2. w[i] \in Nat
    BY <1>4
  <2>3. QED
    BY <2>1, <2>2
<1>6. ASSUME NEW i \in 1..Len(w), NEW j \in 1..Len(w), i < j, w[i] # End, w[j] # End
      PROVE  w[i] < w[j]
  <2>1. CASE j <= Len(q)
    <3>1. i <= Len(q)
      <4>1. i \in Nat /\ j \in Nat /\ Len(q) \in Nat
        BY <1>1
      <4>2. QED
        BY <1>6, <2>1, <4>1, Later, Zenon
    <3>2. i \in 1..Len(q) /\ j \in 1..Len(q) /\ w[i] = q[i] /\ w[j] = q[j]
      BY <1>2, <1>6, <2>1, <3>1, Zenon
    <3>3. QED
      BY <1>6, <3>2, Zenon DEF Rising
  <2>2. CASE i <= Len(q) /\ ~(j <= Len(q))
    <3>1. w[i] <= b /\ b < w[j]
      BY <1>2, <1>3, <1>6, <2>2, Zenon
    <3>2. w[i] \in Nat /\ w[j] \in Nat
      BY <1>4
    <3>3. QED
      BY <3>1, <3>2
  <2>3. CASE ~(i <= Len(q))
    <3>1. ~(j <= Len(q)) /\ i - Len(q) < j - Len(q)
      <4>1. i \in Nat /\ j \in Nat /\ Len(q) \in Nat
        BY <1>1
      <4>2. QED
        BY <1>6, <2>3, <4>1, Later, Zenon
    <3>2. /\ i - Len(q) \in 1..Len(d) /\ w[i] = d[i - Len(q)]
          /\ j - Len(q) \in 1..Len(d) /\ w[j] = d[j - Len(q)]
      BY <1>3, <1>6, <2>3, <3>1, Zenon
    <3>3. QED
      BY <1>6, <3>1, <3>2, Zenon DEF Rising
  <2>4. QED
    BY <2>1, <2>2, <2>3, Zenon
<1>7. Rising(w) /\ Between(w, a, c)
  BY <1>5, <1>6, Zenon DEF Rising, Between
<1>8. QED
  BY <1>1, <1>7 DEF w

\* One frame more.
LEMMA OneFrame ==
  ASSUME NEW q \in Seq(Nat), NEW a \in Nat, NEW b \in Nat, NEW x \in Nat,
         a <= b, b < x, Rising(q), Between(q, a, b)
  PROVE  Append(q, x) \in Seq(Nat) /\ Rising(Append(q, x)) /\ Between(Append(q, x), a, x)
<1> DEFINE d == <<x>>
<1>1. d \in Seq(Nat) /\ Len(d) = 1 /\ d[1] = x /\ Append(q, x) = q \o d
  OBVIOUS
<1> HIDE DEF d
<1>2. Rising(d) /\ Between(d, b, x)
  BY <1>1 DEF Rising, Between
<1>3. b <= x
  OBVIOUS
<1>4. q \o d \in Seq(Nat) /\ Rising(q \o d) /\ Between(q \o d, a, x)
  BY <1>1, <1>2, <1>3, Joint
<1>5. QED
  BY <1>1, <1>4

\* A sentinel more.
LEMMA EndAdded ==
  ASSUME NEW q \in Seq(Nat), Rising(q)
  PROVE  /\ Append(q, End) \in Seq(Nat) /\ Rising(Append(q, End))
         /\ \A a, b : Between(q, a, b) => Between(Append(q, End), a, b)
<1> DEFINE w == Append(q, End)
<1>1. /\ w \in Seq(Nat) /\ Len(w) = Len(q) + 1 /\ w[Len(q) + 1] = End
      /\ \A i \in 1..Len(q) : w[i] = q[i]
  BY DEF End
<1> HIDE DEF w
<1>2. 0 \in Nat /\ \A i \in 1..Len(w) : w[i] # End => 0 + i \in 1..Len(q) /\ w[i] = q[0 + i]
  BY <1>1
<1>3. Rising(w) /\ \A a, b : Between(q, a, b) => Between(w, a, b)
  BY <1>1, <1>2, Piece, Zenon
<1>4. QED
  BY <1>1, <1>3 DEF w

\* One frame less.
LEMMA FrameTaken ==
  ASSUME NEW q \in Seq(Nat), q # <<>>, Rising(q)
  PROVE  /\ Tail(q) \in Seq(Nat) /\ Rising(Tail(q))
         /\ \A a, b : Between(q, a, b) =>
              /\ Between(Tail(q), a, b)
              /\ Head(q) # End =>
                   a < Head(q) /\ Head(q) <= b /\ Between(Tail(q), Head(q), b)
<1> DEFINE w == Tail(q)
           f == Head(q)
<1>1. /\ w \in Seq(Nat) /\ Len(q) = Len(w) + 1 /\ Len(w) \in Nat
      /\ f \in Nat /\ q[1] = f /\ \A i \in 1..Len(w) : w[i] = q[i + 1]
  OBVIOUS
<1> HIDE DEF w, f
<1>2. 1 \in Nat /\ \A i \in 1..Len(w) : 1 + i \in 1..Len(q) /\ w[i] = q[1 + i]
  BY <1>1
<1>3. Rising(w) /\ \A a, b : Between(q, a, b) => Between(w, a, b)
  BY <1>1, <1>2, Piece, Zenon
<1>4. ASSUME NEW a, NEW b, Between(q, a, b), f # End
      PROVE  a < f /\ f <= b /\ Between(w, f, b)
  <2>1. 1 \in 1..Len(q)
    BY <1>1
  <2>2. a < f /\ f <= b
    BY <1>1, <1>4, <2>1, Zenon DEF Between
  <2>3. ASSUME NEW i \in 1..Len(w), w[i] # End PROVE f < w[i] /\ w[i] <= b
    <3>1. 1 + i \in 1..Len(q) /\ w[i] = q[1 + i] /\ 1 < 1 + i
      BY <1>2
    <3>2. q[1] < q[1 + i]
      BY <1>1, <1>4, <2>1, <2>3, <3>1, Zenon DEF Rising
    <3>3. w[i] <= b
      BY <1>4, <2>3, <3>1, Zenon DEF Between
    <3>4. QED
      BY <1>1, <3>1, <3>2, <3>3, Zenon
  <2>4. QED
    BY <2>2, <2>3, Zenon DEF Between
<1>5. QED
  BY <1>1, <1>3, <1>4, Zenon DEF w, f


\* A sentinel behind the lane, or behind the queue, changes no order.
LEMMA FlowEnds ==
  ASSUME NEW v \in Seq(Nat), NEW q \in Seq(Nat), NEW r, NEW m, Flow(v, q, r, m)
  PROVE  Flow(Append(v, End), q, r, m) /\ Flow(v, Append(q, End), r, m)
<1>1. Rising(v) /\ Rising(q)
  BY DEF Flow
<1>2. /\ Rising(Append(v, End))
      /\ \A a, b : Between(v, a, b) => Between(Append(v, End), a, b)
      /\ Rising(Append(q, End))
      /\ \A a, b : Between(q, a, b) => Between(Append(q, End), a, b)
  BY <1>1, EndAdded, Zenon
<1>3. QED
  BY <1>2, Zenon DEF Flow

\* The pump takes a frame off the queue, and forwards it or not.
LEMMA FlowTakes ==
  ASSUME NEW v \in Seq(Nat), NEW q \in Seq(Nat), NEW r, NEW m \in Nat, Flow(v, q, r, m),
         q # <<>>
  PROVE  /\ Flow(v, Tail(q), r, m)
         /\ Head(q) # End => Flow(Append(v, Head(q)), Tail(q), r, m)
<1> DEFINE f == Head(q)
<1>1. PICK a \in 0..m, b \in 0..m :
        a <= b /\ Between(v, 0, a) /\ Between(q, a, b) /\ Between(r, b, m)
  BY Zenon DEF Flow
<1>2. Rising(v) /\ Rising(q) /\ Rising(r) /\ \A i \in 1..Len(r) : r[i] # End
  BY Zenon DEF Flow
<1>3. /\ Rising(Tail(q)) /\ Between(Tail(q), a, b)
      /\ f # End => a < f /\ f <= b /\ Between(Tail(q), f, b)
  BY <1>1, <1>2, FrameTaken, Zenon
<1>4. Flow(v, Tail(q), r, m)
  BY <1>1, <1>2, <1>3, Zenon DEF Flow
<1>5. ASSUME f # End PROVE Flow(Append(v, f), Tail(q), r, m)
  <2>1. f \in Nat /\ a \in Nat /\ b \in Nat /\ 0 \in Nat /\ 0 <= a
    BY Taken
  <2>2. a < f /\ f <= b /\ Between(Tail(q), f, b)
    BY <1>3, <1>5, Zenon
  <2>3. Rising(Append(v, f)) /\ Between(Append(v, f), 0, f)
    BY <1>1, <1>2, <2>1, <2>2, OneFrame, Zenon
  <2> HIDE DEF f
  <2>4. f \in 0..m
    BY <2>1, <2>2
  <2>5. QED
    BY <1>1, <1>2, <1>3, <2>2, <2>3, <2>4, Zenon DEF Flow
<1>6. QED
  BY <1>4, <1>5, Zenon

\* The SDK's next frame goes to the end of the ring.
LEMMA FlowPushes ==
  ASSUME NEW v, NEW q, NEW r \in Seq(Nat), NEW m \in Nat, Flow(v, q, r, m)
  PROVE  Flow(v, q, Append(r, m + 1), m + 1)
<1>1. PICK a \in 0..m, b \in 0..m :
        a <= b /\ Between(v, 0, a) /\ Between(q, a, b) /\ Between(r, b, m)
  BY Zenon DEF Flow
<1>2. Rising(v) /\ Rising(q) /\ Rising(r) /\ \A i \in 1..Len(r) : r[i] # End
  BY Zenon DEF Flow
<1>3. /\ b \in Nat /\ b <= m /\ m < m + 1 /\ m + 1 \in Nat
      /\ a \in 0..(m + 1) /\ b \in 0..(m + 1)
  OBVIOUS
<1> DEFINE w == Append(r, m + 1)
<1>4. Rising(w) /\ Between(w, b, m + 1)
  BY <1>1, <1>2, <1>3, OneFrame, Zenon
<1>5. /\ w \in Seq(Nat) /\ Len(w) = Len(r) + 1 /\ w[Len(r) + 1] = m + 1
      /\ \A i \in 1..Len(r) : w[i] = r[i]
  OBVIOUS
<1> HIDE DEF w
<1>6. ASSUME NEW i \in 1..Len(w) PROVE w[i] # End
  <2>1. i = Len(r) + 1 \/ i \in 1..Len(r)
    BY <1>5
  <2>2. m + 1 # End
    BY DEF End
  <2>3. QED
    BY <1>2, <1>5, <2>1, <2>2, Zenon
<1>7. Flow(v, q, w, m + 1)
  BY <1>1, <1>2, <1>3, <1>4, <1>6, Zenon DEF Flow
<1>8. QED
  BY <1>7 DEF w

\* A full ring loses its oldest frame.
LEMMA FlowLoses ==
  ASSUME NEW v, NEW q, NEW r \in Seq(Nat), NEW m, Flow(v, q, r, m), r # <<>>
  PROVE  Flow(v, q, Tail(r), m)
<1>1. Rising(r) /\ \A i \in 1..Len(r) : r[i] # End
  BY Zenon DEF Flow
<1>2. Rising(Tail(r)) /\ \A a, b : Between(r, a, b) => Between(Tail(r), a, b)
  BY <1>1, FrameTaken, Zenon
<1>3. \A i \in 1..Len(Tail(r)) : i + 1 \in 1..Len(r) /\ Tail(r)[i] = r[i + 1]
  OBVIOUS
<1>4. \A i \in 1..Len(Tail(r)) : Tail(r)[i] # End
  BY <1>1, <1>3, Zenon
<1>5. QED
  BY <1>2, <1>4, Zenon DEF Flow

\* Elements and arithmetic of the drained part.
LEMMA Element ==
  ASSUME NEW T, NEW q \in Seq(T), NEW i \in 1..Len(q)
  PROVE  q[i] \in T
OBVIOUS

LEMMA Compared ==
  ASSUME NEW x \in Nat, NEW y \in Nat
  PROVE  (x = y \/ x < y) <=> x <= y
OBVIOUS

LEMMA Beyond ==
  ASSUME NEW n \in Nat, NEW k \in Nat, NEW l \in Nat, l = k - n
  PROVE  \A i \in 1..l : n + i \in 1..k /\ n < n + i
OBVIOUS

\* A drain moves the first of the ring's frames to the queue, as many as fit.
LEMMA FlowDrains ==
  ASSUME NEW v, NEW q \in Seq(Nat), NEW r \in Seq(Nat), NEW m \in Nat,
         Flow(v, q, r, m), NEW n \in 1..Len(r), NEW d \in Seq(Nat), Len(d) <= n,
         \A i \in 1..Len(d) : d[i] = r[i],
         NEW s \in Seq(Nat), Len(s) = Len(r) - n,
         \A i \in 1..Len(s) : s[i] = r[n + i]
  PROVE  Flow(v, q \o d, s, m)
<1>1. PICK a \in 0..m, b \in 0..m :
        a <= b /\ Between(v, 0, a) /\ Between(q, a, b) /\ Between(r, b, m)
  BY Zenon DEF Flow
<1>2. Rising(v) /\ Rising(q) /\ Rising(r) /\ \A i \in 1..Len(r) : r[i] # End
  BY Zenon DEF Flow
<1>3. r[n] \in Nat /\ b < r[n] /\ r[n] <= m
  <2>1. r[n] \in Nat
    BY Element, Zenon
  <2>2. QED
    BY <1>1, <1>2, <2>1, Zenon DEF Between
<1>4. Rising(d) /\ Between(d, b, r[n])
  <2>1. 0 \in Nat /\ \A i \in 1..Len(d) : 0 + i \in 1..Len(r) /\ d[i] = r[0 + i]
    OBVIOUS
  <2>2. Rising(d) /\ Between(d, b, m)
    BY <1>1, <1>2, <2>1, Piece, Zenon
  <2>3. ASSUME NEW i \in 1..Len(d), d[i] # End PROVE b < d[i] /\ d[i] <= r[n]
    <3>1. b < d[i]
      BY <2>2, <2>3, Zenon DEF Between
    <3>2. i \in 1..Len(r) /\ d[i] = r[i] /\ r[i] \in Nat
      <4>1. i \in 1..Len(r)
        OBVIOUS
      <4>2. r[i] \in Nat
        BY <4>1, Element, Zenon
      <4>3. QED
        BY <4>1, <4>2, Zenon
    <3>3. i = n \/ i < n
      <4>1. i \in Nat /\ n \in Nat
        OBVIOUS
      <4>2. i <= n
        OBVIOUS
      <4>3. QED
        BY <4>1, <4>2, Compared
    <3>4. r[i] = r[n] \/ r[i] < r[n]
      BY <1>2, <3>2, <3>3, Zenon DEF Rising
    <3>5. r[i] <= r[n]
      BY <1>3, <3>2, <3>4, Compared, Zenon
    <3>6. QED
      BY <3>1, <3>2, <3>5, Zenon
  <2>4. QED
    BY <2>2, <2>3, Zenon DEF Between
<1>5. Rising(s) /\ Between(s, r[n], m) /\ \A i \in 1..Len(s) : s[i] # End
  <2>1. n \in Nat /\ \A i \in 1..Len(s) : n + i \in 1..Len(r) /\ s[i] = r[n + i] /\ n < n + i
    <3>1. n \in Nat /\ Len(r) \in Nat /\ Len(s) \in Nat
      OBVIOUS
    <3>2. \A i \in 1..Len(s) : n + i \in 1..Len(r) /\ n < n + i
      BY <3>1, Beyond, Zenon
    <3>3. QED
      BY <3>1, <3>2, Zenon
  <2>2. Rising(s) /\ Between(s, b, m)
    BY <1>1, <1>2, <2>1, Piece, Zenon
  <2>3. ASSUME NEW i \in 1..Len(s) PROVE r[n] < s[i] /\ s[i] # End
    BY <1>2, <2>1, Zenon DEF Rising
  <2>4. QED
    BY <2>2, <2>3, Zenon DEF Between
<1>6. a \in Nat /\ b \in Nat /\ b <= r[n] /\ a <= r[n] /\ r[n] \in 0..m
  BY <1>1, <1>3
<1>7. Rising(q \o d) /\ Between(q \o d, a, r[n])
  BY <1>1, <1>2, <1>3, <1>4, <1>6, Joint, Zenon
<1>8. QED
  BY <1>1, <1>2, <1>5, <1>6, <1>7, Zenon DEF Flow

\* The engine's end empties the ring.
LEMMA FlowEmpties ==
  ASSUME NEW v, NEW q, NEW r, NEW m, Flow(v, q, r, m), NEW w, Len(w) = 0
  PROVE  Flow(v, q, w, m)
<1>1. Rising(w) /\ (\A b : Between(w, b, m)) /\ \A i \in 1..Len(w) : w[i] # End
  BY DEF Rising, Between
<1>2. QED
  BY <1>1, Zenon DEF Flow

\* The whole path is ordered.
LEMMA FlowOrdered ==
  ASSUME NEW v \in Seq(Nat), NEW q \in Seq(Nat), NEW r \in Seq(Nat), NEW m \in Nat,
         Flow(v, q, r, m)
  PROVE  v \o q \o r \in Seq(Nat) /\ Rising(v \o q \o r)
<1>1. PICK a \in 0..m, b \in 0..m :
        a <= b /\ Between(v, 0, a) /\ Between(q, a, b) /\ Between(r, b, m)
  BY Zenon DEF Flow
<1>2. Rising(v) /\ Rising(q) /\ Rising(r)
  BY Zenon DEF Flow
<1>3. 0 \in Nat /\ a \in Nat /\ b \in Nat /\ 0 <= a /\ 0 <= b /\ b <= m
  OBVIOUS
<1>4. v \o q \in Seq(Nat) /\ Rising(v \o q) /\ Between(v \o q, 0, b)
  BY <1>1, <1>2, <1>3, Joint, Zenon
<1>5. QED
  BY <1>1, <1>2, <1>3, <1>4, Joint, Zenon


\* Frames and the sentinel are numbers.
LEMMA NumberSeq ==
  ASSUME NEW q \in Seq(Frame)
  PROVE  q \in Seq(Nat)
<1>1. Frame \subseteq Nat
  BY RtcAssumption DEF RtcAssumption, Frame, Frames, End
<1>2. Len(q) \in Nat /\ q \in [1..Len(q) -> Frame]
  OBVIOUS
<1>3. q \in [1..Len(q) -> Nat]
  BY <1>1, <1>2, Zenon
<1>4. QED
  BY <1>2, <1>3

\* Lane, queue and ring are sequences of them.
LEMMA PathTyped ==
  ASSUME TypeOK
  PROVE  /\ vadGot \in Seq(Nat) /\ vadQ \in Seq(Nat) /\ VadLane \in Seq(Nat)
         /\ asrGot \in Seq(Item) /\ asrQ \in Seq(Item) /\ AsrLane \in Seq(Item)
         /\ inbound \in Seq(Nat) /\ Ring \in Seq(Nat) /\ made \in Nat
<1>1. /\ vadGot \in Seq(Nat) /\ vadQ \in Seq(Nat) /\ inbound \in Seq(Nat) /\ Ring \in Seq(Nat)
  BY NumberSeq, RingTyped, Zenon DEF TypeOK, Frame
<1>2. asrGot \in Seq(Item) /\ asrQ \in Seq(Item)
  BY Zenon DEF TypeOK, Item, Frame
<1>3. VadLane \in Seq(Nat) /\ AsrLane \in Seq(Item)
  BY <1>1, <1>2 DEF VadLane, AsrLane
<1>4. made \in Nat
  BY DEF TypeOK
<1>5. QED
  BY <1>1, <1>2, <1>3, <1>4

\* A put on both queues lengthens both lanes.
LEMMA LanesPut ==
  ASSUME TypeOK, NEW x \in Frame, NEW mute \in BOOLEAN, UNCHANGED gotVars,
         asrQ' = Append(asrQ, <<x, mute>>), vadQ' = Append(vadQ, x)
  PROVE  /\ VadLane' = Append(VadLane, x)
         /\ AsrLane' = Append(AsrLane, <<x, mute>>)
<1>1. <<x, mute>> \in Item
  BY Zenon DEF Item
<1>2. asrGot \in Seq(Item) /\ asrQ \in Seq(Item)
  BY PathTyped
<1>3. vadGot' = vadGot /\ asrGot' = asrGot
  BY DEF gotVars
<1>4. vadGot \o Append(vadQ, x) = Append(vadGot \o vadQ, x)
  <2>1. vadGot \in Seq(Frame) /\ vadQ \in Seq(Frame)
    BY DEF TypeOK, Frame
  <2>2. QED
    BY <2>1, LaneAppends
<1>5. asrGot \o Append(asrQ, <<x, mute>>) = Append(asrGot \o asrQ, <<x, mute>>)
  <2> DEFINE z == <<x, mute>>
  <2>1. z \in Item
    BY <1>1
  <2> HIDE DEF z
  <2>2. asrGot \o Append(asrQ, z) = Append(asrGot \o asrQ, z)
    BY <1>2, <2>1, LaneAppends
  <2>3. QED
    BY <2>2 DEF z
<1>6. QED
  BY <1>3, <1>4, <1>5, Zenon DEF VadLane, AsrLane

\* So lengthened, the lanes still agree.
LEMMA LanesGrow ==
  ASSUME TypeOK, LaneInv, NEW x \in Frame, NEW mute \in BOOLEAN,
         VadLane' = Append(VadLane, x), AsrLane' = Append(AsrLane, <<x, mute>>),
         pump \notin ended, x \notin Foreign, x = End => pump' \in ended
  PROVE  LaneInv'
<1> DEFINE v == VadLane
           l == AsrLane
           z == <<x, mute>>
<1>1. x \in Nat /\ z \in Item /\ z[1] = x
  <2>1. x \in Nat
    BY RtcAssumption DEF RtcAssumption, Frame, Frames, End
  <2>2. QED
    BY <2>1 DEF Item
<1>2. v \in Seq(Nat) /\ l \in Seq(Item)
  BY PathTyped
<1>3. /\ Len(v) = Len(l)
      /\ \A i \in 1..Len(v) : v[i] = l[i][1] /\ v[i] \notin Foreign /\ v[i] # End
  BY Zenon DEF LaneInv, ended
<1>4. VadLane' = Append(v, x) /\ AsrLane' = Append(l, z)
  OBVIOUS
<1> HIDE DEF v, l, z
<1> DEFINE w == Append(v, x)
           k == Append(l, z)
<1>5. /\ Len(w) = Len(v) + 1 /\ Len(k) = Len(l) + 1 /\ w[Len(v) + 1] = x /\ k[Len(l) + 1] = z
      /\ \A i \in 1..Len(v) : w[i] = v[i]
      /\ \A i \in 1..Len(l) : k[i] = l[i]
      /\ \A i \in 1..Len(w) : i \in 1..Len(v) \/ i = Len(v) + 1
  BY <1>1, <1>2
<1> HIDE DEF w, k
<1>6. Len(w) = Len(k)
  BY <1>3, <1>5
<1>7. ASSUME NEW i \in 1..Len(w)
      PROVE  /\ w[i] = k[i][1] /\ w[i] \notin Foreign
             /\ w[i] = End => i = Len(w) /\ pump' \in ended
  <2>1. CASE i \in 1..Len(v)
    BY <1>3, <1>5, <2>1, Zenon
  <2>2. CASE i = Len(v) + 1
    BY <1>1, <1>3, <1>5, <2>2, Zenon
  <2>3. QED
    BY <1>5, <2>1, <2>2, Zenon
<1>8. VadLane' = w /\ AsrLane' = k
  BY <1>4 DEF w, k
<1>9. QED
  BY <1>6, <1>7, <1>8, Zenon DEF LaneInv, ended

\* A step that leaves the lanes alone keeps them in agreement.
LEMMA LanesKept ==
  ASSUME LaneInv, VadLane' = VadLane, AsrLane' = AsrLane, pump \in ended => pump' \in ended
  PROVE  LaneInv'
BY Zenon DEF LaneInv, ended

\* The end of the pump.
LEMMA EndsKeepPath ==
  ASSUME TypeOK, LaneInv, Flow(VadLane, inbound', Ring, made), inbound' \in Seq(Nat),
         pump \notin ended, NEW how \in ended, PumpEnds(how), UNCHANGED gotVars
  PROVE  LaneInv' /\ Flow(VadLane', inbound', Ring, made)
<1>1. End \in Frame /\ FALSE \in BOOLEAN /\ End \notin Foreign
  BY RtcAssumption DEF RtcAssumption, Frame, End
<1>2. VadLane' = Append(VadLane, End) /\ AsrLane' = Append(AsrLane, <<End, FALSE>>)
  BY <1>1, LanesPut, Zenon DEF PumpEnds
<1>3. pump' \in ended
  BY DEF PumpEnds
<1>4. LaneInv'
  BY <1>1, <1>2, <1>3, LanesGrow, Zenon
<1>5. VadLane \in Seq(Nat)
  BY PathTyped
<1>6. QED
  BY <1>2, <1>4, <1>5, FlowEnds, Zenon

\* leave()'s sentinel.
LEMMA PutEndKeepsFlow ==
  ASSUME TypeOK, FlowInv, PutEnd
  PROVE  Flow(VadLane, inbound', Ring, made)
<1>1. VadLane \in Seq(Nat) /\ inbound \in Seq(Nat)
  BY PathTyped
<1>2. inbound' = inbound \/ inbound' = Append(inbound, End)
  BY DEF PutEnd
<1>3. QED
  BY <1>1, <1>2, FlowEnds, Zenon DEF FlowInv


\* put_nowait appends the first frames of the batch.
LEMMA PutTakes ==
  ASSUME NEW T, NEW q \in Seq(T), NEW batch \in Seq(T), Len(q) <= InboundCap
  PROVE  \E d \in Seq(T) :
           /\ PutNowait(q, batch) = q \o d /\ Len(d) <= Len(batch)
           /\ \A i \in 1..Len(d) : d[i] = batch[i]
<1>1. InboundCap \in Nat /\ Len(q) \in Nat /\ Len(batch) \in Nat
  BY RtcAssumption DEF RtcAssumption
<1> DEFINE n == IF Len(batch) < InboundCap - Len(q) THEN Len(batch) ELSE InboundCap - Len(q)
           d == SubSeq(batch, 1, n)
<1>2. n \in Nat /\ n <= Len(batch)
  BY <1>1
<1>3. PutNowait(q, batch) = q \o d
  BY DEF PutNowait
<1> HIDE DEF n
<1>4. d \in Seq(T) /\ Len(d) = n /\ \A i \in 1..n : d[i] = batch[i]
  BY <1>1, <1>2
<1> HIDE DEF d
<1>5. QED
  BY <1>2, <1>3, <1>4, Zenon

\* A round of the drainer keeps the order.
LEMMA DrainKeepsFlow ==
  ASSUME TypeOK, TypeOK', FlowInv, DrainRound
  PROVE  Flow(VadLane, inbound', Ring', made)
<1>1. inbound' = PutNowait(inbound, Drained) /\ RingDrain /\ size > 0
  BY DEF DrainRound
<1>2. inbound \in Seq(Frame) /\ Len(inbound) <= InboundCap /\ Drained \in Seq(Frame)
  BY DrainFacts DEF TypeOK, Frame
<1>3. PICK d \in Seq(Frame) :
        /\ inbound' = inbound \o d /\ Len(d) <= Len(Drained)
        /\ \A i \in 1..Len(d) : d[i] = Drained[i]
  BY <1>1, <1>2, PutTakes, Zenon
<1>4. /\ Len(Drained) = DrainCount
      /\ \A i \in 1..DrainCount : Drained[i] = Ring[i]
      /\ Len(Ring') = Len(Ring) - DrainCount
      /\ \A i \in 1..(Len(Ring) - DrainCount) : Ring'[i] = Ring[DrainCount + i]
  BY <1>1, RingDrained
<1> DEFINE n == DrainCount
           r == Ring
           s == Ring'
<1>5. n \in 1..Len(r)
  <2>1. Len(r) = size /\ size \in Nat
    BY RingTyped, RtcAssumption DEF TypeOK, RtcAssumption
  <2>2. DrainCount \in 0..size /\ DrainCount # 0
    BY <1>1, <2>1, DrainFacts, RtcAssumption DEF DrainCount, RtcAssumption
  <2>3. QED
    BY <2>1, <2>2
<1>6. /\ VadLane \in Seq(Nat) /\ inbound \in Seq(Nat) /\ r \in Seq(Nat) /\ made \in Nat
  BY PathTyped
<1>7. s \in Seq(Nat) /\ d \in Seq(Nat)
  <2>1. s \in Seq(Frame)
    BY RingTypedNext
  <2>2. QED
    BY <2>1, NumberSeq
<1> HIDE DEF n, r, s
<1>8. /\ Len(d) <= n /\ \A i \in 1..Len(d) : d[i] = r[i]
  <2>1. Len(d) \in Nat /\ Len(d) <= n /\ n \in Nat
    BY <1>3, <1>4, <1>5 DEF n
  <2>2. \A i \in 1..Len(d) : i \in 1..n
    BY <2>1
  <2>3. QED
    BY <1>3, <1>4, <2>1, <2>2, Zenon DEF n, r
<1>9. Len(s) = Len(r) - n /\ \A i \in 1..Len(s) : s[i] = r[n + i]
  BY <1>4, Zenon DEF n, r, s
<1>10. Flow(VadLane, inbound, r, made)
  BY DEF FlowInv, r
<1>11. Flow(VadLane, inbound \o d, s, made)
  BY <1>5, <1>6, <1>7, <1>8, <1>9, <1>10, FlowDrains, Zenon
<1>12. QED
  BY <1>3, <1>11 DEF s

\* A frame of the SDK keeps the order.
LEMMA PushKeepsFlow ==
  ASSUME TypeOK, TypeOK', RingInv, FlowInv, SdkFrame
  PROVE  RingInv' /\ Flow(VadLane, inbound, Ring', made')
<1>1. made + 1 \in Frames /\ made' = made + 1 /\ RingPush(made + 1)
  BY RtcAssumption DEF SdkFrame, TypeOK, RtcAssumption, Frames
<1>2. head = (tail + size) % RingCap
  BY DEF RingInv, SdkFrame
<1>3. /\ head' = (tail' + size') % RingCap
      /\ Ring' = Append(IF size = RingCap THEN Tail(Ring) ELSE Ring, made + 1)
  BY <1>1, <1>2, RingPushed, Zenon
<1>4. VadLane \in Seq(Nat) /\ inbound \in Seq(Nat) /\ Ring \in Seq(Nat) /\ made \in Nat
  BY PathTyped
<1>5. size = RingCap => Ring # <<>>
  BY RingTyped, RtcAssumption DEF RtcAssumption
<1> DEFINE r == IF size = RingCap THEN Tail(Ring) ELSE Ring
<1>6. r \in Seq(Nat) /\ Flow(VadLane, inbound, r, made)
  <2>1. CASE size = RingCap
    <3>1. r = Tail(Ring) /\ Ring # <<>>
      BY <1>5, <2>1
    <3>2. Tail(Ring) \in Seq(Nat)
      BY <1>4, <3>1, Taken
    <3>3. QED
      BY <1>4, <3>1, <3>2, FlowLoses, Zenon DEF FlowInv
  <2>2. CASE size # RingCap
    BY <1>4, <2>2 DEF FlowInv
  <2>3. QED
    BY <2>1, <2>2
<1>7. Ring' = Append(r, made + 1)
  BY <1>3
<1> HIDE DEF r
<1>8. Flow(VadLane, inbound, Append(r, made + 1), made + 1)
  BY <1>4, <1>6, FlowPushes, Zenon
<1>9. QED
  BY <1>1, <1>3, <1>7, <1>8, Zenon DEF RingInv

\* The ring is as it was where its variables are.
LEMMA RingKept ==
  ASSUME UNCHANGED <<slots, head, tail, size>>, RingInv,
         engine' # "destroyed" => engine # "destroyed"
  PROVE  Ring' = Ring /\ RingInv'
BY DEF Ring, RingInv

\* One step of the pump: a frame for both lanes, one skipped, or the end.
LEMMA ForwardKeepsPath ==
  ASSUME TypeOK, FlowInv, LaneInv, PumpForwards
  PROVE  LaneInv' /\ Flow(VadLane', inbound', Ring, made)
<1> DEFINE f == Head(inbound)
<1>1. /\ pump = "waiting" /\ inbound # <<>> /\ inbound' = Tail(inbound)
      /\ UNCHANGED gotVars
  BY DEF PumpForwards, outOfPump
<1>2. VadLane \in Seq(Nat) /\ inbound \in Seq(Nat) /\ made \in Nat
  BY PathTyped
<1>3. f \in Frame /\ inbound' \in Seq(Nat)
  BY <1>1, <1>2, InboundTaken, Taken
<1>4. /\ Flow(VadLane, inbound', Ring, made)
      /\ f # End => Flow(Append(VadLane, f), inbound', Ring, made)
  BY <1>1, <1>2, FlowTakes, Zenon DEF FlowInv
<1>5. pump \notin ended
  BY <1>1 DEF ended
<1>6. CASE f = End
  <2>1. PumpEnds("over") /\ "over" \in ended
    BY <1>6 DEF PumpForwards, ended
  <2>2. QED
    BY <1>1, <1>3, <1>4, <1>5, <2>1, EndsKeepPath, Zenon
<1>7. CASE f # End /\ f \in Foreign
  <2>1. UNCHANGED <<pump, asrQ, vadQ, asrGot, vadGot>>
    BY <1>7 DEF PumpForwards, laneVars, outOfPump, gotVars
  <2>2. VadLane' = VadLane /\ AsrLane' = AsrLane
    BY <2>1 DEF VadLane, AsrLane
  <2>3. QED
    BY <1>4, <2>1, <2>2, LanesKept, Zenon
<1>8. CASE f # End /\ f \notin Foreign
  <2> DEFINE mute == NextRun(f) > Hangover
  <2>1. asrQ' = Append(asrQ, <<f, mute>>) /\ vadQ' = Append(vadQ, f)
    BY <1>8, Zenon DEF PumpForwards
  <2>2. mute \in BOOLEAN
    OBVIOUS
  <2> HIDE DEF f, mute
  <2>3. VadLane' = Append(VadLane, f) /\ AsrLane' = Append(AsrLane, <<f, mute>>)
    BY <1>1, <1>3, <2>1, <2>2, LanesPut, Zenon
  <2>4. LaneInv'
    BY <1>3, <1>5, <1>8, <2>2, <2>3, LanesGrow, Zenon
  <2>5. QED
    BY <1>4, <1>8, <2>3, <2>4, Zenon
<1>9. QED
  BY <1>6, <1>7, <1>8

\* A frame whose conversion raises is lost, and the lanes end.
LEMMA CrashKeepsPath ==
  ASSUME TypeOK, FlowInv, LaneInv, PumpCrashes
  PROVE  LaneInv' /\ Flow(VadLane', inbound', Ring, made)
<1>1. /\ pump = "waiting" /\ inbound # <<>> /\ inbound' = Tail(inbound)
      /\ UNCHANGED gotVars /\ PumpEnds("crashed")
  BY DEF PumpCrashes, outOfPump
<1>2. VadLane \in Seq(Nat) /\ inbound \in Seq(Nat) /\ made \in Nat
  BY PathTyped
<1>3. inbound' \in Seq(Nat)
  BY <1>1, <1>2, Taken
<1>4. Flow(VadLane, inbound', Ring, made)
  BY <1>1, <1>2, FlowTakes, Zenon DEF FlowInv
<1>5. pump \notin ended /\ "crashed" \in ended
  BY <1>1 DEF ended
<1>6. QED
  BY <1>1, <1>3, <1>4, <1>5, EndsKeepPath, Zenon

\* Every step keeps the ring's indices, the order of the path and the lanes.
LEMMA PathPreserved ==
  ASSUME TypeOK, TypeOK', SessionInv, RingInv, FlowInv, LaneInv, [Next]_vars
  PROVE  RingInv' /\ FlowInv' /\ LaneInv'
<1> USE DEF joinVars, ringVars, laneVars, gotVars, outOfPump, lanes, closing
<1>1. CASE ~Moves
  <2>1. Aside
    BY <1>1, Asides
  <2>2. Ring' = Ring /\ RingInv'
    BY <2>1, RingKept DEF Aside
  <2>3. VadLane' = VadLane /\ AsrLane' = AsrLane /\ inbound' = inbound /\ made' = made
    BY <2>1 DEF Aside, VadLane, AsrLane
  <2>4. LaneInv'
    BY <2>1, <2>3, LanesKept DEF Aside
  <2>5. QED
    BY <2>2, <2>3, <2>4 DEF FlowInv
<1>2. CASE SdkFrame
  <2>1. UNCHANGED <<asrQ, vadQ, asrGot, vadGot, inbound, pump>>
    BY <1>2 DEF SdkFrame
  <2>2. VadLane' = VadLane /\ AsrLane' = AsrLane
    BY <2>1 DEF VadLane, AsrLane
  <2>3. LaneInv'
    BY <2>1, <2>2, LanesKept
  <2>4. RingInv' /\ Flow(VadLane, inbound, Ring', made')
    BY <1>2, PushKeepsFlow
  <2>5. QED
    BY <2>1, <2>2, <2>3, <2>4, Zenon DEF FlowInv
<1>3. CASE DrainRound
  <2>1. UNCHANGED <<asrQ, vadQ, asrGot, vadGot, made, pump, engine>> /\ RingDrain
    BY <1>3 DEF DrainRound
  <2>2. VadLane' = VadLane /\ AsrLane' = AsrLane
    BY <2>1 DEF VadLane, AsrLane
  <2>3. LaneInv'
    BY <2>1, <2>2, LanesKept
  <2>4. RingInv'
    BY <2>1, RingDrained, Zenon DEF RingInv
  <2>5. Flow(VadLane, inbound', Ring', made)
    BY <1>3, DrainKeepsFlow
  <2>6. QED
    BY <2>1, <2>2, <2>3, <2>4, <2>5, Zenon DEF FlowInv
<1>4. CASE PumpForwards \/ PumpCrashes
  <2>1. UNCHANGED <<slots, head, tail, size, engine, made>>
    BY <1>4 DEF PumpForwards, PumpCrashes
  <2>2. LaneInv' /\ Flow(VadLane', inbound', Ring, made)
    BY <1>4, ForwardKeepsPath, CrashKeepsPath
  <2>3. Ring' = Ring /\ RingInv'
    BY <2>1, RingKept
  <2>4. QED
    BY <2>1, <2>2, <2>3, Zenon DEF FlowInv
<1>5. CASE PumpStarts \/ CloseWaits
  <2>1. UNCHANGED <<slots, head, tail, size, engine, made, inbound, asrGot, vadGot>>
    BY <1>5 DEF PumpStarts, CloseWaits
  <2>2. Ring' = Ring /\ RingInv'
    BY <2>1, RingKept
  <2>3. \/ pump \notin ended /\ PumpEnds("over")
        \/ UNCHANGED <<asrQ, vadQ>> /\ (pump \in ended => pump' \in ended)
    BY <1>5 DEF PumpStarts, CloseWaits, ended
  <2>4. CASE pump \notin ended /\ PumpEnds("over")
    <3>1. inbound' \in Seq(Nat) /\ Flow(VadLane, inbound', Ring, made) /\ "over" \in ended
      BY <2>1, PathTyped DEF FlowInv, ended
    <3>2. LaneInv' /\ Flow(VadLane', inbound', Ring, made)
      BY <2>1, <2>4, <3>1, EndsKeepPath, Zenon
    <3>3. QED
      BY <2>1, <2>2, <3>2, Zenon DEF FlowInv
  <2>5. CASE UNCHANGED <<asrQ, vadQ>> /\ (pump \in ended => pump' \in ended)
    <3>1. VadLane' = VadLane /\ AsrLane' = AsrLane
      BY <2>1, <2>5 DEF VadLane, AsrLane
    <3>2. LaneInv'
      BY <2>5, <3>1, LanesKept, Zenon
    <3>3. QED
      BY <2>1, <2>2, <3>1, <3>2, Zenon DEF FlowInv
  <2>6. QED
    BY <2>3, <2>4, <2>5, Zenon
<1>6. CASE AudioIn \/ AudioInVad
  <2>1. UNCHANGED <<slots, head, tail, size, engine, made, inbound, pump>>
    BY <1>6 DEF AudioIn, AudioInVad
  <2>2. Ring' = Ring /\ RingInv'
    BY <2>1, RingKept
  <2>3. /\ vadGot \in Seq(Frame) /\ vadQ \in Seq(Frame)
        /\ asrGot \in Seq(Item) /\ asrQ \in Seq(Item)
    BY DEF TypeOK, Frame, Item
  <2>4. VadLane' = VadLane /\ AsrLane' = AsrLane
    <3>1. CASE AudioIn
      BY <2>3, <3>1, LaneMoved, Zenon DEF AudioIn, VadLane, AsrLane
    <3>2. CASE AudioInVad
      BY <2>3, <3>2, LaneMoved, Zenon DEF AudioInVad, VadLane, AsrLane
    <3>3. QED
      BY <1>6, <3>1, <3>2
  <2>5. LaneInv'
    BY <2>1, <2>4, LanesKept
  <2>6. QED
    BY <2>1, <2>2, <2>4, <2>5, Zenon DEF FlowInv
<1>7. CASE LeaveEnds \/ LeavePuts
  <2>1. UNCHANGED <<asrQ, vadQ, asrGot, vadGot, made, pump>> /\ PutEnd
    BY <1>7 DEF LeaveEnds, LeavePuts
  <2>2. VadLane' = VadLane /\ AsrLane' = AsrLane
    BY <2>1 DEF VadLane, AsrLane
  <2>3. LaneInv'
    BY <2>1, <2>2, LanesKept
  <2>4. Flow(VadLane, inbound', Ring, made)
    BY <2>1, PutEndKeepsFlow
  <2>5. RingInv' /\ Flow(VadLane, inbound', Ring', made)
    <3>1. CASE LeaveEnds
      <4>1. size' = 0 /\ engine' = "destroyed"
        BY <3>1 DEF LeaveEnds
      <4>2. Len(Ring') = 0
        BY <4>1, RingTypedNext
      <4>3. QED
        BY <2>4, <4>1, <4>2, FlowEmpties, Zenon DEF RingInv
    <3>2. CASE LeavePuts
      <4>1. UNCHANGED <<slots, head, tail, size, engine>>
        BY <3>2 DEF LeavePuts
      <4>2. Ring' = Ring /\ RingInv'
        BY <4>1, RingKept
      <4>3. QED
        BY <2>4, <4>2
    <3>3. QED
      BY <1>7, <3>1, <3>2
  <2>6. QED
    BY <2>1, <2>2, <2>3, <2>5, Zenon DEF FlowInv
<1>8. QED
  BY <1>1, <1>2, <1>3, <1>4, <1>5, <1>6, <1>7, Zenon DEF Moves

-----------------------------------------------------------------------------
\* The noise gate.


\* A step that leaves the lane and the count alone keeps the gate's promises.
LEMMA GateKept ==
  ASSUME RunInv, GateSparesSpeech, AsrLane' = AsrLane, quietRun' = quietRun,
         pump \in {"over", "crashed"} => pump' \in {"over", "crashed"}
  PROVE  RunInv' /\ GateSparesSpeech'
BY DEF RunInv, GateSparesSpeech

\* A sentinel at the end of the lane is not muted, and ends the pump.
LEMMA GateEnds ==
  ASSUME TypeOK, GateSparesSpeech, UNCHANGED asrGot,
         asrQ' = Append(asrQ, <<End, FALSE>>), pump' \in {"over", "crashed"}
  PROVE  RunInv' /\ GateSparesSpeech'
<1> DEFINE L == AsrLane
           M == AsrLane'
<1>1. /\ L \in Seq(Item) /\ M \in Seq(Item) /\ Len(M) = Len(L) + 1
      /\ \A i \in 1..Len(L) : M[i] = L[i]
      /\ ~M[Len(L) + 1][2]
  <2> DEFINE x == <<End, FALSE>>
  <2>1. asrGot \in Seq(Item) /\ asrQ \in Seq(Item) /\ x \in Item
    BY Zenon DEF TypeOK, Frame, Item
  <2>2. M = asrGot \o Append(asrQ, x) /\ L = asrGot \o asrQ
    BY DEF AsrLane
  <2>3. ~x[2]
    OBVIOUS
  <2> HIDE DEF L, M, x
  <2>4. /\ L \in Seq(Item) /\ M \in Seq(Item) /\ Len(M) = Len(L) + 1
        /\ \A i \in 1..Len(L) : M[i] = L[i]
        /\ M[Len(L) + 1] = x
    <3>1. asrGot \in Seq(Item) /\ asrQ \in Seq(Item) /\ x \in Item
      BY <2>1, <2>2
    <3>2. /\ asrGot \o asrQ \in Seq(Item) /\ asrGot \o Append(asrQ, x) \in Seq(Item)
          /\ Len(asrGot \o Append(asrQ, x)) = Len(asrGot \o asrQ) + 1
          /\ \A i \in 1..Len(asrGot \o asrQ) :
               (asrGot \o Append(asrQ, x))[i] = (asrGot \o asrQ)[i]
          /\ (asrGot \o Append(asrQ, x))[Len(asrGot \o asrQ) + 1] = x
      BY <3>1, LaneGrows
    <3>3. QED
      BY <2>2, <3>2, Zenon
  <2>5. QED
    BY <2>3, <2>4
<1>2. Hangover \in Nat
  BY RtcAssumption DEF RtcAssumption
<1>3. \A i \in 1..Len(L) : L[i][2] =>
        i > Hangover /\ \A j \in (i - Hangover)..i : L[j][1] \in Quiet
  BY <1>1 DEF GateSparesSpeech
<1> HIDE DEF L, M
<1>4. ASSUME NEW i \in 1..Len(M), M[i][2]
      PROVE  i > Hangover /\ \A j \in (i - Hangover)..i : M[j][1] \in Quiet
  <2>1. Len(L) \in Nat /\ i # Len(L) + 1
    BY <1>1, <1>4
  <2>2. i \in 1..Len(L) /\ L[i][2]
    BY <1>1, <1>4, <2>1
  <2>3. i > Hangover
    BY <1>3, <2>2
  <2>4. ASSUME NEW j \in (i - Hangover)..i PROVE M[j][1] \in Quiet
    <3>1. j \in 1..Len(L)
      BY <1>2, <2>1, <2>2, <2>3
    <3>2. L[j][1] \in Quiet
      BY <1>3, <2>2
    <3>3. QED
      BY <1>1, <3>1, <3>2
  <2>5. QED
    BY <2>3, <2>4
<1>5. QED
  BY <1>1, <1>4 DEF GateSparesSpeech, RunInv, M

\* A forwarded frame is muted only behind a run of quiet ones.
LEMMA GateForwards ==
  ASSUME TypeOK, TypeOK', RunInv, GateSparesSpeech, UNCHANGED <<asrGot, pump>>,
         pump = "waiting", NEW f \in Frames, quietRun' = NextRun(f),
         asrQ' = Append(asrQ, <<f, NextRun(f) > Hangover>>)
  PROVE  RunInv' /\ GateSparesSpeech'
<1> DEFINE L == AsrLane
           M == AsrLane'
           r == NextRun(f)
<1>1. /\ L \in Seq(Item) /\ M \in Seq(Item) /\ Len(M) = Len(L) + 1
      /\ \A i \in 1..Len(L) : M[i] = L[i]
      /\ M[Len(L) + 1][1] = f /\ (M[Len(L) + 1][2] <=> r > Hangover)
  <2> DEFINE x == <<f, r > Hangover>>
  <2>1. asrGot \in Seq(Item) /\ asrQ \in Seq(Item)
    BY DEF TypeOK, Frame, Item
  <2>2. x \in Item /\ x[1] = f /\ (x[2] <=> r > Hangover)
    <3>1. (r > Hangover) \in BOOLEAN
      OBVIOUS
    <3>2. QED
      BY <3>1, Zenon DEF Item, Frame
  <2>3. M = asrGot \o Append(asrQ, x) /\ L = asrGot \o asrQ
    BY DEF AsrLane
  <2> HIDE DEF L, M, r, x
  <2>4. /\ L \in Seq(Item) /\ M \in Seq(Item) /\ Len(M) = Len(L) + 1
        /\ \A i \in 1..Len(L) : M[i] = L[i]
        /\ M[Len(L) + 1] = x
    <3>1. asrGot \in Seq(Item) /\ asrQ \in Seq(Item) /\ x \in Item
      BY <2>1, <2>2
    <3>2. /\ asrGot \o asrQ \in Seq(Item) /\ asrGot \o Append(asrQ, x) \in Seq(Item)
          /\ Len(asrGot \o Append(asrQ, x)) = Len(asrGot \o asrQ) + 1
          /\ \A i \in 1..Len(asrGot \o asrQ) :
               (asrGot \o Append(asrQ, x))[i] = (asrGot \o asrQ)[i]
          /\ (asrGot \o Append(asrQ, x))[Len(asrGot \o asrQ) + 1] = x
      BY <3>1, LaneGrows
    <3>3. QED
      BY <2>3, <3>2, Zenon
  <2>5. QED
    BY <2>2, <2>4
<1>2. Hangover \in Nat /\ quietRun \in Nat /\ Len(L) \in Nat
  <2>1. Hangover \in Nat /\ quietRun \in 0..(Hangover + 1)
    BY RtcAssumption, Zenon DEF RtcAssumption, TypeOK
  <2>2. Len(L) \in Nat
    BY <1>1
  <2>3. QED
    BY <2>1, <2>2
<1>3. \A i \in 1..Len(L) : L[i][2] =>
        i > Hangover /\ \A j \in (i - Hangover)..i : L[j][1] \in Quiet
  BY <1>1 DEF GateSparesSpeech
<1>4. /\ quietRun <= Len(L)
      /\ \A j \in (Len(L) + 1 - quietRun)..Len(L) : L[j][1] \in Quiet
  BY DEF RunInv
<1>5. /\ r \in Nat
      /\ f \notin Quiet => r = 0
      /\ f \in Quiet => r = quietRun + 1 \/ (r = quietRun /\ quietRun > Hangover)
  BY <1>2 DEF NextRun
<1> HIDE DEF L, M, r
<1>6. r <= Len(M) /\ Len(M) \in Nat
  BY <1>1, <1>2, <1>4, <1>5
<1>7. ASSUME NEW j \in (Len(M) + 1 - r)..Len(M) PROVE M[j][1] \in Quiet
  <2>1. f \in Quiet /\ r <= quietRun + 1
    BY <1>1, <1>2, <1>5, <1>6
  <2>2. CASE j = Len(L) + 1
    BY <1>1, <2>1, <2>2
  <2>3. CASE j # Len(L) + 1
    <3>1. j \in 1..Len(L) /\ j \in (Len(L) + 1 - quietRun)..Len(L)
      BY <1>1, <1>2, <1>4, <1>5, <1>6, <2>1, <2>3
    <3>2. QED
      BY <1>1, <1>4, <3>1
  <2>4. QED
    BY <2>2, <2>3
<1>8. ASSUME NEW i \in 1..Len(M), M[i][2]
      PROVE  i > Hangover /\ \A j \in (i - Hangover)..i : M[j][1] \in Quiet
  <2>1. CASE i = Len(L) + 1
    <3>1. r > Hangover
      BY <1>1, <1>8, <2>1
    <3>2. i > Hangover
      BY <1>1, <1>2, <1>5, <1>6, <2>1, <3>1
    <3>3. ASSUME NEW j \in (i - Hangover)..i PROVE M[j][1] \in Quiet
      <4>1. j \in (Len(M) + 1 - r)..Len(M)
        BY <1>1, <1>2, <1>5, <2>1, <3>1
      <4>2. QED
        BY <1>7, <4>1
    <3>4. QED
      BY <3>2, <3>3
  <2>2. CASE i # Len(L) + 1
    <3>1. i \in 1..Len(L) /\ L[i][2]
      BY <1>1, <1>2, <1>8, <2>2
    <3>2. i > Hangover
      BY <1>3, <3>1
    <3>3. ASSUME NEW j \in (i - Hangover)..i PROVE M[j][1] \in Quiet
      <4>1. j \in 1..Len(L)
        BY <1>2, <3>1, <3>2
      <4>2. L[j][1] \in Quiet
        BY <1>3, <3>1
      <4>3. QED
        BY <1>1, <4>1, <4>2
    <3>4. QED
      BY <3>2, <3>3
  <2>3. QED
    BY <2>1, <2>2
<1>9. GateSparesSpeech'
  BY <1>1, <1>8 DEF GateSparesSpeech, M
<1>10. RunInv'
  BY <1>6, <1>7 DEF RunInv, M, r
<1>11. QED
  BY <1>9, <1>10

\* Every step keeps the noise gate's promises.
LEMMA GatePreserved ==
  ASSUME TypeOK, TypeOK', SessionInv, RunInv, GateSparesSpeech, [Next]_vars
  PROVE  RunInv' /\ GateSparesSpeech'
<1>1. CASE ~Moves
  <2>1. Aside
    BY <1>1, Asides
  <2>2. QED
    BY <2>1, GateKept DEF Aside, ended, AsrLane
<1>2. CASE SdkFrame \/ DrainRound \/ AudioInVad \/ LeaveEnds \/ LeavePuts
  <2>1. UNCHANGED <<asrGot, asrQ, quietRun, pump>>
    BY <1>2, Zenon DEF SdkFrame, DrainRound, AudioInVad, LeaveEnds, LeavePuts, laneVars,
        gotVars, lanes, closing
  <2>2. QED
    BY <2>1, GateKept DEF AsrLane
<1>3. CASE PumpStarts
  <2>1. UNCHANGED <<asrGot, quietRun>> /\ pump = "created"
    BY <1>3 DEF PumpStarts, outOfPump, gotVars
  <2>2. CASE PumpEnds("over")
    BY <2>1, <2>2, GateEnds DEF PumpEnds
  <2>3. CASE UNCHANGED laneVars
    BY <2>1, <2>3, GateKept DEF AsrLane, laneVars
  <2>4. QED
    BY <1>3, <2>2, <2>3 DEF PumpStarts
<1>4. CASE PumpForwards
  <2>1. UNCHANGED asrGot /\ pump = "waiting" /\ inbound # <<>>
    BY <1>4 DEF PumpForwards, outOfPump, gotVars
  <2>2. CASE Head(inbound) = End
    <3>1. PumpEnds("over")
      BY <1>4, <2>2 DEF PumpForwards
    <3>2. QED
      BY <2>1, <3>1, GateEnds DEF PumpEnds
  <2>3. CASE Head(inbound) \in Foreign /\ Head(inbound) # End
    <3>1. UNCHANGED <<pump, laneVars, quietRun>>
      BY <1>4, <2>3 DEF PumpForwards
    <3>2. QED
      BY <2>1, <3>1, GateKept DEF AsrLane, laneVars
  <2>4. CASE Head(inbound) \notin Foreign /\ Head(inbound) # End
    <3>1. Head(inbound) \in Frames
      BY <2>1, <2>4, InboundTaken DEF Frame
    <3>2. /\ quietRun' = NextRun(Head(inbound))
          /\ asrQ' = Append(asrQ, <<Head(inbound), NextRun(Head(inbound)) > Hangover>>)
          /\ UNCHANGED pump
      BY <1>4, <2>4 DEF PumpForwards
    <3>3. PICK f \in Frames : f = Head(inbound)
      BY <3>1
    <3>4. quietRun' = NextRun(f) /\ asrQ' = Append(asrQ, <<f, NextRun(f) > Hangover>>)
      BY <3>2, <3>3
    <3>5. QED
      BY <2>1, <3>2, <3>4, GateForwards
  <2>5. QED
    BY <2>2, <2>3, <2>4
<1>5. CASE PumpCrashes
  <2>1. UNCHANGED asrGot /\ PumpEnds("crashed")
    BY <1>5 DEF PumpCrashes, outOfPump, gotVars
  <2>2. QED
    BY <2>1, GateEnds DEF PumpEnds
<1>6. CASE AudioIn
  <2>1. /\ asrQ # <<>> /\ asrGot' = Append(asrGot, Head(asrQ)) /\ asrQ' = Tail(asrQ)
        /\ UNCHANGED <<pump, quietRun>>
    BY <1>6 DEF AudioIn, lanes
  <2>2. asrGot \in Seq(Item) /\ asrQ \in Seq(Item)
    BY DEF TypeOK, Frame, Item
  <2>3. AsrLane' = AsrLane
    BY <2>1, <2>2, LaneMoved DEF AsrLane
  <2>4. QED
    BY <2>1, <2>3, GateKept
<1>7. CASE CloseWaits
  <2>1. UNCHANGED <<asrGot, quietRun>>
    BY <1>7 DEF CloseWaits, closing, gotVars
  <2>2. CASE PumpEnds("over")
    BY <2>1, <2>2, GateEnds DEF PumpEnds
  <2>3. CASE UNCHANGED <<pump, laneVars>>
    BY <2>1, <2>3, GateKept DEF AsrLane, laneVars
  <2>4. QED
    BY <1>7, <2>2, <2>3 DEF CloseWaits
<1>8. QED
  BY <1>1, <1>2, <1>3, <1>4, <1>5, <1>6, <1>7, Zenon DEF Moves

-----------------------------------------------------------------------------
\* The inductive invariant holds at the start.
LEMMA InitInv == Init => IInv
<1> SUFFICES ASSUME Init PROVE IInv
  OBVIOUS
<1>1. TypeOK
  <2>1. /\ 0 \in 0..MaxResults /\ 0 \in 0..MaxFrames /\ 0 \in 0..(RingCap - 1)
        /\ 0 \in 0..RingCap /\ 0 \in 0..(Hangover + 1) /\ 0 <= InboundCap
    BY RtcAssumption DEF RtcAssumption
  <2>2. slots \in [0..(RingCap - 1) -> Frames \union {End}]
    BY DEF Init
  <2>3. \A T : <<>> \in Seq(T) /\ Len(<<>>) = 0
    OBVIOUS
  <2>4. /\ posted = <<>> /\ inbound = <<>> /\ asrQ = <<>> /\ vadQ = <<>>
        /\ asrGot = <<>> /\ vadGot = <<>>
    BY DEF Init
  <2>5. /\ posted \in Seq({"ok", "refused"})
        /\ inbound \in Seq(Frames \union {End}) /\ Len(inbound) = 0
        /\ asrQ \in Seq((Frames \union {End}) \X BOOLEAN)
        /\ asrGot \in Seq((Frames \union {End}) \X BOOLEAN)
        /\ vadQ \in Seq(Frames \union {End}) /\ vadGot \in Seq(Frames \union {End})
    BY <2>3, <2>4
  <2>6. QED
    BY <2>1, <2>2, <2>5 DEF Init, TypeOK
<1>2. SessionInv
  BY DEF Init, SessionInv
<1>3. AsrLane = <<>> /\ quietRun = 0
  BY DEF Init, AsrLane
<1>4. RunInv /\ GateSparesSpeech
  BY <1>3 DEF RunInv, GateSparesSpeech
<1>5. RingInv
  <2>1. head = 0 /\ tail = 0 /\ size = 0 /\ 0 + 0 = 0 /\ 0 \in Nat /\ 0 < RingCap
    BY RtcAssumption DEF Init, RtcAssumption
  <2>2. QED
    BY <2>1, Wraps DEF RingInv
<1>6. FlowInv
  <2>1. VadLane = <<>> /\ inbound = <<>> /\ made = 0
    BY DEF Init, VadLane
  <2>2. Len(Ring) = 0
    BY <1>1, RingTyped DEF Init
  <2>3. Len(VadLane) = 0 /\ Len(inbound) = 0
    BY <2>1
  <2>4. /\ Rising(VadLane) /\ Rising(inbound) /\ Rising(Ring)
        /\ \A i \in 1..Len(Ring) : Ring[i] # End
        /\ Between(VadLane, 0, 0) /\ Between(inbound, 0, 0) /\ Between(Ring, 0, made)
    BY <2>2, <2>3 DEF Rising, Between
  <2>5. 0 \in 0..made /\ 0 <= 0
    BY <2>1
  <2>6. QED
    BY <2>4, <2>5, Zenon DEF FlowInv, Flow
<1>7. LaneInv
  <2>1. Len(VadLane) = 0 /\ Len(AsrLane) = 0
    BY DEF Init, VadLane, AsrLane
  <2>2. QED
    BY <2>1 DEF LaneInv
<1>8. QED
  BY <1>1, <1>2, <1>4, <1>5, <1>6, <1>7 DEF IInv

\* The inductive invariant holds throughout.
THEOREM Invariance == Spec => []IInv
<1>1. IInv /\ [Next]_vars => IInv'
  BY TypePreserved, SessionPreserved, GatePreserved, PathPreserved, Zenon DEF IInv
<1>2. QED
  BY <1>1, InitInv, PTL DEF Spec

\* Every variable keeps its type; in particular _inbound stays within its size
\* and the ring's indices within the ring.
THEOREM TypeCorrect == Spec => []TypeOK
BY Invariance, PTL DEF IInv

\* The engine is live for as long as the drainer or push_audio may use it, and
\* destroyed by every join that fails and every leave() that gets that far.
THEOREM EngineSafe == Spec => []EngineLifetime
<1>1. IInv => EngineLifetime
  BY DEF IInv, TypeOK, SessionInv, EngineLifetime, EngineOutlivesUse, EngineReleased
<1>2. QED
  BY <1>1, Invariance, PTL

\* What the SDK hears reaches ASR and VAD in its order and once, on both lanes
\* alike and without other senders, through the overwriting ring of the SDK
\* thread, the bounded queue of the drainer and the pump, however these are
\* scheduled and wherever they crash or are closed.
THEOREM InboundHeard == Spec => []InboundFaithful
<1>1. ASSUME IInv PROVE FramesInOrder
  <2>1. /\ VadLane \in Seq(Nat) /\ inbound \in Seq(Nat) /\ Ring \in Seq(Nat) /\ made \in Nat
        /\ Flow(VadLane, inbound, Ring, made)
    BY <1>1, PathTyped DEF IInv, FlowInv
  <2> DEFINE path == VadLane \o inbound \o Ring
  <2>2. path \in Seq(Nat) /\ Rising(path)
    BY <2>1, FlowOrdered, Zenon
  <2> HIDE DEF path
  <2>3. DOMAIN path = 1..Len(path)
    BY <2>2
  <2>4. \A i, j \in DOMAIN path :
          i < j /\ path[i] # End /\ path[j] # End => path[i] < path[j]
    BY <2>2, <2>3, Zenon DEF Rising
  <2>5. End \notin Range(Ring)
    <3>1. DOMAIN Ring = 1..Len(Ring)
      BY <2>1
    <3>2. \A i \in 1..Len(Ring) : Ring[i] # End
      BY <2>1, Zenon DEF Flow
    <3>3. QED
      BY <3>1, <3>2, Zenon DEF Range
  <2>6. QED
    BY <2>4, <2>5, Zenon DEF FramesInOrder, path
<1>2. ASSUME IInv PROVE LanesAgree
  <2>1. VadLane \in Seq(Nat) /\ AsrLane \in Seq(Item) /\ LaneInv
    <3>1. TypeOK /\ LaneInv
      BY <1>2 DEF IInv
    <3>2. QED
      BY <3>1, PathTyped
  <2>2. DOMAIN VadLane = 1..Len(VadLane) /\ DOMAIN AsrLane = 1..Len(AsrLane)
    BY <2>1
  <2>3. VadLane = [i \in DOMAIN AsrLane |-> AsrLane[i][1]]
    <3>1. VadLane \in [1..Len(VadLane) -> Nat]
      BY <2>1
    <3>2. DOMAIN AsrLane = 1..Len(VadLane)
      BY <2>1, <2>2, Zenon DEF LaneInv
    <3>3. \A i \in 1..Len(VadLane) : VadLane[i] = AsrLane[i][1]
      BY <2>1, Zenon DEF LaneInv
    <3>4. QED
      BY <3>1, <3>2, <3>3, Zenon
  <2>4. \A i \in DOMAIN VadLane : VadLane[i] = End => i = Len(VadLane)
    BY <2>1, <2>2, Zenon DEF LaneInv
  <2>5. Range(VadLane) \intersect Foreign = {}
    BY <2>1, <2>2, Zenon DEF LaneInv, Range
  <2>6. QED
    BY <2>3, <2>4, <2>5 DEF LanesAgree
<1>3. IInv => InboundFaithful
  BY <1>1, <1>2 DEF InboundFaithful
<1>4. QED
  BY <1>3, Invariance, PTL

\* The noise gate of _inbound_loop mutes no frame of speech, nor any of the
\* Hangover quiet frames after one.
THEOREM SpeechHeard == Spec => []GateSparesSpeech
BY Invariance, PTL DEF IInv
=============================================================================
