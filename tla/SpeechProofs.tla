--------------------------- MODULE SpeechProofs ---------------------------
(***************************************************************************)
(* Proofs about what becomes of the customer's speech.                      *)
(*                                                                          *)
(* AsrStream, for any number of backoffs, any packet size and any number of *)
(* frames, results and cancellations: no push task outlives its connection, *)
(* every definite is posted once, the reconnections are bounded and every   *)
(* lost frame of audio is lost to a connection that ended.                  *)
(*                                                                          *)
(* BargeIn, for any texts, thresholds and rule trees, any lane and any      *)
(* number of partials, utterances and ticks: the rule tree has a value, no  *)
(* barge-in is missed, and an early one needs an anchor that was left over. *)
(***************************************************************************)
EXTENDS AsrStream, BargeIn, TLAPS

-----------------------------------------------------------------------------
\* The inductive invariant.

\* The buffer never holds more than the packet that is being sent.
BufferInv ==
  /\ buf <= PacketFrames
  /\ push = "getting" => buf < PacketFrames
  /\ push = "created" => buf = 0
  /\ push = "sending" => buf = PacketFrames

\* last_final_sig is the last definite of this connection.
FinalsInv == FinalsOnce /\ lastSig = spoken

\* The reconnections since the last result are counted by attempt_index, and
\* every result pays for one more generation of them.
RetryInv ==
  /\ attempts <= Backoffs
  /\ rec = "backoff" => attempts < Backoffs
  /\ conns <= results * (Backoffs + 1) + attempts + (IF rec = "connecting" THEN 0 ELSE 1)

LossInv ==
  /\ Connecting => conns >= 1
  /\ delivered + Buffered <= taken
  /\ taken <= delivered + Buffered + Ended * PacketFrames

\* A generator that has ended was closed and emptied, or ended under the push task
\* of a connection that is over.
HeardInv ==
  /\ rec \in {"configuring", "receiving", "reaping"} => conns >= 1
  /\ audio = "finished" => (closed /\ taken = arrived) \/ Ended >= 1

IInv ==
  /\ TypeOK /\ PushInsideConnection /\ BufferInv
  /\ FinalsInv /\ RetryInv /\ LossInv /\ HeardInv

-----------------------------------------------------------------------------
\* One connection more, or one less, changes the product by one packet.
LEMMA OneMore ==
  ASSUME NEW n \in Int, NEW p \in Int
  PROVE  /\ (n + 1) * p = n * p + p
         /\ (n - 1) * p + p = n * p
         /\ n * p \in Int
  BY SMT

\* A posted definite keeps the type of its list.
LEMMA OnePosted ==
  ASSUME NEW s \in Seq(Nat \X Nat), NEW c \in Nat, NEW n \in Nat
  PROVE  Append(s, <<c, n>>) \in Seq(Nat \X Nat)
<1>1. <<c, n>> \in Nat \X Nat
  OBVIOUS
<1>2. ASSUME NEW S, NEW t \in Seq(S), NEW e \in S PROVE Append(t, e) \in Seq(S)
  OBVIOUS
<1>3. QED
  BY <1>1, <1>2

\* Every step keeps the types.
LEMMA TypePreserved ==
  ASSUME TypeOK, BufferInv, [Next]_vars
  PROVE  TypeOK'
<1> USE AsrAssumption DEF AsrAssumption, TypeOK, pumpVars, pushVars, sourceVars, resultVars
<1>1. CASE FrameArrives
  BY <1>1 DEF FrameArrives
<1>2. CASE SourceCloses
  BY <1>2 DEF SourceCloses
<1>3. CASE VendorCloses
  BY <1>3 DEF VendorCloses
<1>4. CASE CancelPump
  BY <1>4 DEF CancelPump
<1>5. CASE PushStart
  BY <1>5 DEF PushStart, Pushing
<1>6. CASE PushFrame
  BY <1>6 DEF PushFrame, Pushing
<1>7. CASE PushAudioEnds
  BY <1>7 DEF PushAudioEnds, Pushing
<1>8. CASE PushSends
  BY <1>8 DEF PushSends, Pushing, BufferInv
<1>9. CASE PushCancelled
  BY <1>9 DEF PushCancelled
<1>10. CASE Connect
  BY <1>10 DEF Connect
<1>11. CASE ConnectFails
  BY <1>11 DEF ConnectFails
<1>12. CASE Configured
  BY <1>12 DEF Configured
<1>13. CASE ConfigLost
  BY <1>13 DEF ConfigLost, Leave
<1>14. CASE ReceiveEnds
  BY <1>14 DEF ReceiveEnds, Reap
<1>15. CASE ReceiveCancelled
  BY <1>15, Zenon DEF ReceiveCancelled, Reap
<1>16. CASE Reaped
  BY <1>16, Zenon DEF Reaped
<1>17. CASE Left
  BY <1>17 DEF Left
<1>18. CASE Retry
  BY <1>18 DEF Retry
<1>19. CASE Cancelled
  BY <1>19, Zenon DEF Cancelled, Leave
<1>20. CASE Partial
  BY <1>20 DEF Partial, Receives, Yield
<1>21. CASE NewDefinite
  <2>1. finals' \in Seq(Nat \X Nat) /\ definites' \in Seq(Nat \X Nat)
    <3>1. /\ definites' = Append(definites, <<conns, spoken + 1>>)
          /\ finals' = finals \/ finals' = Append(finals, <<conns, spoken + 1>>)
      BY <1>21 DEF NewDefinite, Definite
    <3>2. finals \in Seq(Nat \X Nat) /\ definites \in Seq(Nat \X Nat)
      OBVIOUS
    <3>3. conns \in Nat /\ spoken + 1 \in Nat /\ spoken \in Nat
      OBVIOUS
    <3>4. QED
      <4> HIDE AsrAssumption DEF AsrAssumption, TypeOK
      <4> QED
        BY <3>1, <3>2, <3>3, OnePosted, Zenon
  <2>2. /\ attempts' \in Nat /\ results' \in Nat /\ lastSig' \in Nat
        /\ spoken' \in Nat /\ sends' \in Nat
    BY <1>21 DEF NewDefinite, Receives, Yield, Definite
  <2>3. QED
    BY <1>21, <2>1, <2>2 DEF NewDefinite
<1>22. CASE RepeatedDefinite
  <2>1. finals' \in Seq(Nat \X Nat)
    <3>1. finals' = finals \/ finals' = Append(finals, <<conns, spoken>>)
      BY <1>22 DEF RepeatedDefinite, Definite
    <3>2. finals \in Seq(Nat \X Nat) /\ definites \in Seq(Nat \X Nat)
      OBVIOUS
    <3>3. conns \in Nat /\ spoken + 1 \in Nat /\ spoken \in Nat
      OBVIOUS
    <3>4. QED
      <4> HIDE AsrAssumption DEF AsrAssumption, TypeOK
      <4> QED
        BY <3>1, <3>2, <3>3, OnePosted, Zenon
  <2>2. attempts' \in Nat /\ results' \in Nat /\ lastSig' \in Nat /\ sends' \in Nat
    BY <1>22 DEF RepeatedDefinite, Receives, Yield, Definite
  <2>3. QED
    BY <1>22, <2>1, <2>2 DEF RepeatedDefinite
<1>23. CASE VendorError
  BY <1>23 DEF VendorError, Reap
<1>24. CASE UNCHANGED vars
  BY <1>24 DEF vars
<1>25. QED
  BY <1>1, <1>2, <1>3, <1>4, <1>5, <1>6, <1>7, <1>8, <1>9, <1>10, <1>11, <1>12, <1>13,
    <1>14, <1>15, <1>16, <1>17, <1>18, <1>19, <1>20, <1>21, <1>22, <1>23, <1>24,
    Zenon DEF Next, PushStep, PumpStep

\* Every step keeps the push task inside its connection.
LEMMA PushPreserved ==
  ASSUME TypeOK, PushInsideConnection, [Next]_vars
  PROVE  PushInsideConnection'
<1> USE DEF TypeOK, PushInsideConnection, pumpVars, pushVars, sourceVars, resultVars
<1>1. CASE FrameArrives
  BY <1>1 DEF FrameArrives
<1>2. CASE SourceCloses
  BY <1>2 DEF SourceCloses
<1>3. CASE VendorCloses
  BY <1>3 DEF VendorCloses
<1>4. CASE CancelPump
  BY <1>4 DEF CancelPump
<1>5. CASE PushStart
  BY <1>5 DEF PushStart, Pushing
<1>6. CASE PushFrame
  BY <1>6 DEF PushFrame, Pushing
<1>7. CASE PushAudioEnds
  BY <1>7 DEF PushAudioEnds, Pushing
<1>8. CASE PushSends
  BY <1>8 DEF PushSends, Pushing
<1>9. CASE PushCancelled
  BY <1>9 DEF PushCancelled
<1>10. CASE Connect
  BY <1>10 DEF Connect
<1>11. CASE ConnectFails
  BY <1>11 DEF ConnectFails
<1>12. CASE Configured
  BY <1>12 DEF Configured
<1>13. CASE ConfigLost
  BY <1>13 DEF ConfigLost, Leave
<1>14. CASE ReceiveEnds
  BY <1>14 DEF ReceiveEnds, Reap
<1>15. CASE ReceiveCancelled
  BY <1>15 DEF ReceiveCancelled, Reap
<1>16. CASE Reaped
  BY <1>16 DEF Reaped
<1>17. CASE Left
  BY <1>17 DEF Left
<1>18. CASE Retry
  BY <1>18 DEF Retry
<1>19. CASE Cancelled
  BY <1>19 DEF Cancelled, Leave
<1>20. CASE Partial
  BY <1>20 DEF Partial, Receives, Yield
<1>21. CASE NewDefinite
  BY <1>21 DEF NewDefinite, Receives, Yield, Definite
<1>22. CASE RepeatedDefinite
  BY <1>22 DEF RepeatedDefinite, Receives, Yield, Definite
<1>23. CASE VendorError
  BY <1>23 DEF VendorError, Reap
<1>24. CASE UNCHANGED vars
  BY <1>24 DEF vars
<1>25. QED
  BY <1>1, <1>2, <1>3, <1>4, <1>5, <1>6, <1>7, <1>8, <1>9, <1>10, <1>11, <1>12, <1>13,
    <1>14, <1>15, <1>16, <1>17, <1>18, <1>19, <1>20, <1>21, <1>22, <1>23, <1>24 DEF
    Next, PushStep, PumpStep

\* Every step keeps the buffer within a packet.
LEMMA BufferPreserved ==
  ASSUME TypeOK, PushInsideConnection, BufferInv, [Next]_vars
  PROVE  BufferInv'
<1> USE AsrAssumption DEF AsrAssumption, TypeOK, PushInsideConnection, BufferInv,
      pumpVars, pushVars, sourceVars, resultVars
<1>1. CASE FrameArrives
  BY <1>1 DEF FrameArrives
<1>2. CASE SourceCloses
  BY <1>2 DEF SourceCloses
<1>3. CASE VendorCloses
  BY <1>3 DEF VendorCloses
<1>4. CASE CancelPump
  BY <1>4 DEF CancelPump
<1>5. CASE PushStart
  BY <1>5 DEF PushStart, Pushing
<1>6. CASE PushFrame
  BY <1>6 DEF PushFrame, Pushing
<1>7. CASE PushAudioEnds
  BY <1>7 DEF PushAudioEnds, Pushing
<1>8. CASE PushSends
  BY <1>8 DEF PushSends, Pushing
<1>9. CASE PushCancelled
  BY <1>9 DEF PushCancelled
<1>10. CASE Connect
  BY <1>10 DEF Connect
<1>11. CASE ConnectFails
  BY <1>11 DEF ConnectFails
<1>12. CASE Configured
  BY <1>12 DEF Configured
<1>13. CASE ConfigLost
  BY <1>13 DEF ConfigLost, Leave
<1>14. CASE ReceiveEnds
  BY <1>14 DEF ReceiveEnds, Reap
<1>15. CASE ReceiveCancelled
  BY <1>15 DEF ReceiveCancelled, Reap
<1>16. CASE Reaped
  BY <1>16 DEF Reaped
<1>17. CASE Left
  BY <1>17 DEF Left
<1>18. CASE Retry
  BY <1>18 DEF Retry
<1>19. CASE Cancelled
  BY <1>19 DEF Cancelled, Leave
<1>20. CASE Partial
  BY <1>20 DEF Partial, Receives, Yield
<1>21. CASE NewDefinite
  BY <1>21 DEF NewDefinite, Receives, Yield, Definite
<1>22. CASE RepeatedDefinite
  BY <1>22 DEF RepeatedDefinite, Receives, Yield, Definite
<1>23. CASE VendorError
  BY <1>23 DEF VendorError, Reap
<1>24. CASE UNCHANGED vars
  BY <1>24 DEF vars
<1>25. QED
  BY <1>1, <1>2, <1>3, <1>4, <1>5, <1>6, <1>7, <1>8, <1>9, <1>10, <1>11, <1>12, <1>13,
    <1>14, <1>15, <1>16, <1>17, <1>18, <1>19, <1>20, <1>21, <1>22, <1>23, <1>24 DEF
    Next, PushStep, PumpStep

\* Every step posts what the vendor finalised.
LEMMA FinalsPreserved ==
  ASSUME TypeOK, FinalsInv, [Next]_vars
  PROVE  FinalsInv'
<1> USE DEF TypeOK, FinalsInv, FinalsOnce, pumpVars, pushVars, sourceVars, resultVars
<1>1. CASE FrameArrives
  BY <1>1 DEF FrameArrives
<1>2. CASE SourceCloses
  BY <1>2 DEF SourceCloses
<1>3. CASE VendorCloses
  BY <1>3 DEF VendorCloses
<1>4. CASE CancelPump
  BY <1>4 DEF CancelPump
<1>5. CASE PushStart
  BY <1>5 DEF PushStart, Pushing
<1>6. CASE PushFrame
  BY <1>6 DEF PushFrame, Pushing
<1>7. CASE PushAudioEnds
  BY <1>7 DEF PushAudioEnds, Pushing
<1>8. CASE PushSends
  BY <1>8 DEF PushSends, Pushing
<1>9. CASE PushCancelled
  BY <1>9 DEF PushCancelled
<1>10. CASE Connect
  BY <1>10 DEF Connect
<1>11. CASE ConnectFails
  BY <1>11 DEF ConnectFails
<1>12. CASE Configured
  BY <1>12 DEF Configured
<1>13. CASE ConfigLost
  BY <1>13 DEF ConfigLost, Leave
<1>14. CASE ReceiveEnds
  BY <1>14 DEF ReceiveEnds, Reap
<1>15. CASE ReceiveCancelled
  BY <1>15 DEF ReceiveCancelled, Reap
<1>16. CASE Reaped
  BY <1>16 DEF Reaped
<1>17. CASE Left
  BY <1>17 DEF Left
<1>18. CASE Retry
  BY <1>18 DEF Retry
<1>19. CASE Cancelled
  BY <1>19 DEF Cancelled, Leave
<1>20. CASE Partial
  BY <1>20 DEF Partial, Receives, Yield
<1>21. CASE NewDefinite
  BY <1>21 DEF NewDefinite, Receives, Yield, Definite
<1>22. CASE RepeatedDefinite
  BY <1>22 DEF RepeatedDefinite, Receives, Yield, Definite
<1>23. CASE VendorError
  BY <1>23 DEF VendorError, Reap
<1>24. CASE UNCHANGED vars
  BY <1>24 DEF vars
<1>25. QED
  BY <1>1, <1>2, <1>3, <1>4, <1>5, <1>6, <1>7, <1>8, <1>9, <1>10, <1>11, <1>12, <1>13,
    <1>14, <1>15, <1>16, <1>17, <1>18, <1>19, <1>20, <1>21, <1>22, <1>23, <1>24 DEF
    Next, PushStep, PumpStep

\* Every step keeps the account of the reconnections.
LEMMA RetryPreserved ==
  ASSUME TypeOK, RetryInv, [Next]_vars
  PROVE  RetryInv'
<1> USE AsrAssumption, OneMore DEF AsrAssumption, TypeOK, RetryInv,
      pumpVars, pushVars, sourceVars, resultVars
<1>1. CASE FrameArrives
  BY <1>1 DEF FrameArrives
<1>2. CASE SourceCloses
  BY <1>2 DEF SourceCloses
<1>3. CASE VendorCloses
  BY <1>3 DEF VendorCloses
<1>4. CASE CancelPump
  BY <1>4 DEF CancelPump
<1>5. CASE PushStart
  BY <1>5 DEF PushStart, Pushing
<1>6. CASE PushFrame
  BY <1>6 DEF PushFrame, Pushing
<1>7. CASE PushAudioEnds
  BY <1>7 DEF PushAudioEnds, Pushing
<1>8. CASE PushSends
  BY <1>8 DEF PushSends, Pushing
<1>9. CASE PushCancelled
  BY <1>9 DEF PushCancelled
<1>10. CASE Connect
  BY <1>10 DEF Connect
<1>11. CASE ConnectFails
  BY <1>11 DEF ConnectFails
<1>12. CASE Configured
  BY <1>12 DEF Configured
<1>13. CASE ConfigLost
  BY <1>13 DEF ConfigLost, Leave
<1>14. CASE ReceiveEnds
  BY <1>14 DEF ReceiveEnds, Reap
<1>15. CASE ReceiveCancelled
  BY <1>15 DEF ReceiveCancelled, Reap
<1>16. CASE Reaped
  BY <1>16 DEF Reaped
<1>17. CASE Left
  BY <1>17 DEF Left
<1>18. CASE Retry
  BY <1>18 DEF Retry
<1>19. CASE Cancelled
  BY <1>19 DEF Cancelled, Leave
<1>20. CASE Partial
  <2>1. CASE attempts' = attempts /\ results' = results
    BY <1>20, <2>1 DEF Partial, Receives, Yield
  <2>2. CASE attempts' = 0 /\ results' = results + 1
    <3>1. results' * (Backoffs + 1) = results * (Backoffs + 1) + (Backoffs + 1)
      BY <2>2, OneMore
    <3>2. rec' = rec /\ conns' = conns /\ rec = "receiving"
      BY <1>20 DEF Partial, Receives, Yield
    <3>3. results * (Backoffs + 1) \in Int
      BY OneMore
    <3>4. QED
      BY <2>2, <3>1, <3>2, <3>3
  <2>3. QED
    BY <1>20, <2>1, <2>2 DEF Partial, Receives, Yield
<1>21. CASE NewDefinite
  <2>1. CASE attempts' = attempts /\ results' = results
    BY <1>21, <2>1 DEF NewDefinite, Receives, Definite, Yield
  <2>2. CASE attempts' = 0 /\ results' = results + 1
    <3>1. results' * (Backoffs + 1) = results * (Backoffs + 1) + (Backoffs + 1)
      BY <2>2, OneMore
    <3>2. rec' = rec /\ conns' = conns /\ rec = "receiving"
      BY <1>21 DEF NewDefinite, Receives, Definite, Yield
    <3>3. results * (Backoffs + 1) \in Int
      BY OneMore
    <3>4. QED
      BY <2>2, <3>1, <3>2, <3>3
  <2>3. QED
    BY <1>21, <2>1, <2>2 DEF NewDefinite, Receives, Definite, Yield
<1>22. CASE RepeatedDefinite
  <2>1. CASE attempts' = attempts /\ results' = results
    BY <1>22, <2>1 DEF RepeatedDefinite, Receives, Definite, Yield
  <2>2. CASE attempts' = 0 /\ results' = results + 1
    <3>1. results' * (Backoffs + 1) = results * (Backoffs + 1) + (Backoffs + 1)
      BY <2>2, OneMore
    <3>2. rec' = rec /\ conns' = conns /\ rec = "receiving"
      BY <1>22 DEF RepeatedDefinite, Receives, Definite, Yield
    <3>3. results * (Backoffs + 1) \in Int
      BY OneMore
    <3>4. QED
      BY <2>2, <3>1, <3>2, <3>3
  <2>3. QED
    BY <1>22, <2>1, <2>2 DEF RepeatedDefinite, Receives, Definite, Yield
<1>23. CASE VendorError
  BY <1>23 DEF VendorError, Reap
<1>24. CASE UNCHANGED vars
  BY <1>24 DEF vars
<1>25. QED
  BY <1>1, <1>2, <1>3, <1>4, <1>5, <1>6, <1>7, <1>8, <1>9, <1>10, <1>11, <1>12, <1>13,
    <1>14, <1>15, <1>16, <1>17, <1>18, <1>19, <1>20, <1>21, <1>22, <1>23, <1>24 DEF
    Next, PushStep, PumpStep

\* Every step keeps the account of the audio.
LEMMA LossPreserved ==
  ASSUME TypeOK, PushInsideConnection, BufferInv, LossInv, [Next]_vars
  PROVE  LossInv'
<1> USE AsrAssumption DEF AsrAssumption, TypeOK, LossInv, pumpVars, pushVars, sourceVars, resultVars
<1>1. CASE FrameArrives
  <2>1. Ended' = Ended /\ Buffered' = Buffered /\ taken' = taken /\ delivered' = delivered
    BY <1>1 DEF FrameArrives, Connecting, Buffered, Ended
  <2>2. Connecting' => conns' >= 1
    BY <1>1 DEF FrameArrives, Connecting
  <2>3. QED
    BY <2>1, <2>2
<1>2. CASE SourceCloses
  <2>1. Ended' = Ended /\ Buffered' = Buffered /\ taken' = taken /\ delivered' = delivered
    BY <1>2 DEF SourceCloses, Connecting, Buffered, Ended
  <2>2. Connecting' => conns' >= 1
    BY <1>2 DEF SourceCloses, Connecting
  <2>3. QED
    BY <2>1, <2>2
<1>3. CASE VendorCloses
  <2>1. Ended' = Ended /\ Buffered' = Buffered /\ taken' = taken /\ delivered' = delivered
    BY <1>3 DEF VendorCloses, Connecting, Buffered, Ended
  <2>2. Connecting' => conns' >= 1
    BY <1>3 DEF VendorCloses, Connecting
  <2>3. QED
    BY <2>1, <2>2
<1>4. CASE CancelPump
  <2>1. Ended' = Ended /\ Buffered' = Buffered /\ taken' = taken /\ delivered' = delivered
    BY <1>4 DEF CancelPump, Connecting, Buffered, Ended
  <2>2. Connecting' => conns' >= 1
    BY <1>4 DEF CancelPump, Connecting
  <2>3. QED
    BY <2>1, <2>2
<1>5. CASE PushStart
  <2>1. Ended' = Ended /\ Buffered' = Buffered /\ taken' = taken /\ delivered' = delivered
    BY <1>5 DEF PushStart, Pushing, Connecting, Buffered, Ended
  <2>2. Connecting' => conns' >= 1
    BY <1>5 DEF PushStart, Pushing, Connecting
  <2>3. QED
    BY <2>1, <2>2
<1>6. CASE PushFrame
  <2>1. rec = "receiving"
    BY <1>6 DEF PushFrame, Pushing, PushInsideConnection
  <2>2. Ended' = Ended /\ conns' = conns /\ Connecting /\ delivered' = delivered
    BY <1>6, <2>1 DEF PushFrame, Connecting, Ended
  <2>3. Buffered' = Buffered + 1 /\ Buffered \in Nat /\ taken' = taken + 1
    BY <1>6, <2>1 DEF PushFrame, Buffered
  <2>4. Ended * PacketFrames \in Int
    BY <2>1, OneMore DEF Ended, Connecting
  <2>5. QED
    BY <2>2, <2>3, <2>4
<1>7. CASE PushAudioEnds
  <2>1. Ended' = Ended /\ Buffered' = Buffered /\ taken' = taken /\ delivered' = delivered
    BY <1>7 DEF PushAudioEnds, Pushing, Connecting, Buffered, Ended
  <2>2. Connecting' => conns' >= 1
    BY <1>7 DEF PushAudioEnds, Pushing, Connecting
  <2>3. QED
    BY <2>1, <2>2
<1>8. CASE PushSends
  <2>1. rec = "receiving"
    BY <1>8 DEF PushSends, Pushing, PushInsideConnection
  <2>2. Ended' = Ended /\ conns' = conns /\ Connecting' = Connecting /\ taken' = taken
    BY <1>8, <2>1 DEF PushSends, Connecting, Ended
  <2>3. delivered' + Buffered' = delivered + Buffered
    BY <1>8, <2>1 DEF PushSends, Pushing, Buffered, BufferInv
  <2>4. Buffered \in Nat /\ delivered' \in Nat /\ Buffered' \in Nat
    BY <1>8, <2>1 DEF PushSends, Pushing, Buffered, BufferInv
  <2>5. Ended * PacketFrames \in Int
    BY <2>1, OneMore DEF Ended, Connecting
  <2>6. delivered' + Buffered' <= taken' /\ (Connecting' => conns' >= 1)
    BY <2>2, <2>3, <2>4, Zenon
  <2>7. taken' <= delivered' + Buffered' + Ended' * PacketFrames
    BY <2>2, <2>3, <2>4, <2>5, Zenon
  <2>8. QED
    BY <2>6, <2>7
<1>9. CASE PushCancelled
  <2>1. Ended' = Ended /\ Buffered' = Buffered /\ taken' = taken /\ delivered' = delivered
    BY <1>9 DEF PushCancelled, Connecting, Buffered, Ended
  <2>2. Connecting' => conns' >= 1
    BY <1>9 DEF PushCancelled, Connecting
  <2>3. QED
    BY <2>1, <2>2
<1>10. CASE Connect
  <2>1. Ended' = conns /\ Buffered' = 0 /\ taken' = taken /\ delivered' = delivered
    BY <1>10 DEF Connect, Connecting, Buffered, Ended
  <2>2. Ended = conns /\ Buffered = 0
    BY <1>10 DEF Connect, Connecting, Buffered, Ended
  <2>3. Connecting' => conns' >= 1
    BY <1>10 DEF Connect
  <2>4. QED
    BY <2>1, <2>2, <2>3
<1>11. CASE ConnectFails
  <2>1. Ended' = Ended /\ Buffered' = Buffered /\ taken' = taken /\ delivered' = delivered
    BY <1>11 DEF ConnectFails, Connecting, Buffered, Ended
  <2>2. Connecting' => conns' >= 1
    BY <1>11 DEF ConnectFails, Connecting
  <2>3. QED
    BY <2>1, <2>2
<1>12. CASE Configured
  <2>1. Ended' = Ended /\ Buffered' = 0 /\ Buffered = 0 /\ conns' = conns
    BY <1>12 DEF Configured, Connecting, Buffered, Ended
  <2>2. taken' = taken /\ delivered' = delivered /\ Connecting
    BY <1>12 DEF Configured, Connecting
  <2>3. QED
    BY <2>1, <2>2
<1>13. CASE ConfigLost
  <2>1. conns' = conns /\ taken' = taken /\ delivered' = delivered /\ buf <= PacketFrames
    BY <1>13 DEF ConfigLost, Leave, BufferInv
  <2>2. ~Connecting' /\ Buffered' = 0 /\ Ended' = conns
    BY <1>13 DEF ConfigLost, Leave, Connecting, Buffered, Ended
  <2>3. Connecting /\ Ended = conns - 1 /\ Buffered <= PacketFrames /\ Buffered \in Nat
    BY <1>13, <2>1 DEF ConfigLost, Leave, Connecting, Buffered, Ended
  <2>4. (conns - 1) * PacketFrames + PacketFrames = conns * PacketFrames
    BY OneMore
  <2>5. (conns - 1) * PacketFrames \in Int /\ conns * PacketFrames \in Int
    BY OneMore
  <2>6. QED
    BY <2>1, <2>2, <2>3, <2>4, <2>5
<1>14. CASE ReceiveEnds
  <2>1. conns' = conns /\ taken' = taken /\ delivered' = delivered /\ buf <= PacketFrames
    BY <1>14 DEF ReceiveEnds, Reap, BufferInv
  <2>2. ~Connecting' /\ Buffered' = 0 /\ Ended' = conns
    BY <1>14 DEF ReceiveEnds, Reap, Connecting, Buffered, Ended
  <2>3. Connecting /\ Ended = conns - 1 /\ Buffered <= PacketFrames /\ Buffered \in Nat
    BY <1>14, <2>1 DEF ReceiveEnds, Reap, Connecting, Buffered, Ended
  <2>4. (conns - 1) * PacketFrames + PacketFrames = conns * PacketFrames
    BY OneMore
  <2>5. (conns - 1) * PacketFrames \in Int /\ conns * PacketFrames \in Int
    BY OneMore
  <2>6. QED
    BY <2>1, <2>2, <2>3, <2>4, <2>5
<1>15. CASE ReceiveCancelled
  <2>1. conns' = conns /\ taken' = taken /\ delivered' = delivered /\ buf <= PacketFrames
    BY <1>15 DEF ReceiveCancelled, Reap, BufferInv
  <2>2. ~Connecting' /\ Buffered' = 0 /\ Ended' = conns
    BY <1>15 DEF ReceiveCancelled, Reap, Connecting, Buffered, Ended
  <2>3. Connecting /\ Ended = conns - 1 /\ Buffered <= PacketFrames /\ Buffered \in Nat
    BY <1>15, <2>1 DEF ReceiveCancelled, Reap, Connecting, Buffered, Ended
  <2>4. (conns - 1) * PacketFrames + PacketFrames = conns * PacketFrames
    BY OneMore
  <2>5. (conns - 1) * PacketFrames \in Int /\ conns * PacketFrames \in Int
    BY OneMore
  <2>6. QED
    BY <2>1, <2>2, <2>3, <2>4, <2>5
<1>16. CASE Reaped
  <2>1. Ended' = Ended /\ Buffered' = Buffered /\ taken' = taken /\ delivered' = delivered
    BY <1>16 DEF Reaped, Connecting, Buffered, Ended
  <2>2. Connecting' => conns' >= 1
    BY <1>16 DEF Reaped, Connecting
  <2>3. QED
    BY <2>1, <2>2
<1>17. CASE Left
  <2>1. Ended' = Ended /\ Buffered' = Buffered /\ taken' = taken /\ delivered' = delivered
    BY <1>17 DEF Left, Connecting, Buffered, Ended
  <2>2. Connecting' => conns' >= 1
    BY <1>17 DEF Left, Connecting
  <2>3. QED
    BY <2>1, <2>2
<1>18. CASE Retry
  <2>1. Ended' = Ended /\ Buffered' = Buffered /\ taken' = taken /\ delivered' = delivered
    BY <1>18 DEF Retry, Connecting, Buffered, Ended
  <2>2. Connecting' => conns' >= 1
    BY <1>18 DEF Retry, Connecting
  <2>3. QED
    BY <2>1, <2>2
<1>19. CASE Cancelled
  <2>1. conns' = conns /\ taken' = taken /\ delivered' = delivered /\ Buffered = 0
    BY <1>19 DEF Cancelled, Buffered
  <2>2. ~Connecting' /\ Buffered' = 0 /\ Ended' = conns
    BY <1>19 DEF Cancelled, Leave, Connecting, Buffered, Ended
  <2>3. CASE Connecting
    <3>1. (conns - 1) * PacketFrames + PacketFrames = conns * PacketFrames
      BY OneMore
    <3>2. (conns - 1) * PacketFrames \in Int /\ conns * PacketFrames \in Int
      BY OneMore
    <3>3. QED
      BY <2>1, <2>2, <2>3, <3>1, <3>2 DEF Ended
  <2>4. CASE ~Connecting
    BY <2>1, <2>2, <2>4 DEF Ended
  <2>5. QED
    BY <2>3, <2>4
<1>20. CASE Partial
  <2>1. Ended' = Ended /\ Buffered' = Buffered /\ taken' = taken /\ delivered' = delivered
    BY <1>20 DEF Partial, Receives, Yield, Connecting, Buffered, Ended
  <2>2. Connecting' => conns' >= 1
    BY <1>20 DEF Partial, Receives, Yield, Connecting
  <2>3. QED
    BY <2>1, <2>2
<1>21. CASE NewDefinite
  <2>1. Ended' = Ended /\ Buffered' = Buffered /\ taken' = taken /\ delivered' = delivered
    BY <1>21 DEF NewDefinite, Receives, Yield, Definite, Connecting, Buffered, Ended
  <2>2. Connecting' => conns' >= 1
    BY <1>21 DEF NewDefinite, Receives, Yield, Definite, Connecting
  <2>3. QED
    BY <2>1, <2>2
<1>22. CASE RepeatedDefinite
  <2>1. Ended' = Ended /\ Buffered' = Buffered /\ taken' = taken /\ delivered' = delivered
    BY <1>22 DEF RepeatedDefinite, Receives, Yield, Definite, Connecting, Buffered, Ended
  <2>2. Connecting' => conns' >= 1
    BY <1>22 DEF RepeatedDefinite, Receives, Yield, Definite, Connecting
  <2>3. QED
    BY <2>1, <2>2
<1>23. CASE VendorError
  <2>1. conns' = conns /\ taken' = taken /\ delivered' = delivered /\ buf <= PacketFrames
    BY <1>23 DEF VendorError, Reap, BufferInv
  <2>2. ~Connecting' /\ Buffered' = 0 /\ Ended' = conns
    BY <1>23 DEF VendorError, Reap, Connecting, Buffered, Ended
  <2>3. Connecting /\ Ended = conns - 1 /\ Buffered <= PacketFrames /\ Buffered \in Nat
    BY <1>23, <2>1 DEF VendorError, Reap, Connecting, Buffered, Ended
  <2>4. (conns - 1) * PacketFrames + PacketFrames = conns * PacketFrames
    BY OneMore
  <2>5. (conns - 1) * PacketFrames \in Int /\ conns * PacketFrames \in Int
    BY OneMore
  <2>6. QED
    BY <2>1, <2>2, <2>3, <2>4, <2>5
<1>24. CASE UNCHANGED vars
  BY <1>24 DEF vars, Connecting, Buffered, Ended
<1>25. QED
  BY <1>1, <1>2, <1>3, <1>4, <1>5, <1>6, <1>7, <1>8, <1>9, <1>10, <1>11, <1>12, <1>13,
    <1>14, <1>15, <1>16, <1>17, <1>18, <1>19, <1>20, <1>21, <1>22, <1>23, <1>24,
    Zenon DEF Next, PushStep, PumpStep

\* Every step keeps the account of the audio nobody will take.
LEMMA HeardPreserved ==
  ASSUME TypeOK, PushInsideConnection, HeardInv, [Next]_vars
  PROVE  HeardInv'
<1> USE DEF TypeOK, HeardInv, Connecting, Ended, pumpVars, pushVars, sourceVars, resultVars
<1>1. CASE FrameArrives
  BY <1>1 DEF FrameArrives
<1>2. CASE SourceCloses
  BY <1>2 DEF SourceCloses
<1>3. CASE VendorCloses
  BY <1>3 DEF VendorCloses
<1>4. CASE CancelPump
  BY <1>4 DEF CancelPump
<1>5. CASE PushStart
  BY <1>5 DEF PushStart, Pushing
<1>6. CASE PushFrame
  BY <1>6 DEF PushFrame, Pushing
<1>7. CASE PushAudioEnds
  BY <1>7 DEF PushAudioEnds, Pushing
<1>8. CASE PushSends
  BY <1>8 DEF PushSends, Pushing
<1>9. CASE PushCancelled
  BY <1>9 DEF PushCancelled
<1>10. CASE Connect
  BY <1>10 DEF Connect
<1>11. CASE ConnectFails
  BY <1>11 DEF ConnectFails
<1>12. CASE Configured
  BY <1>12 DEF Configured
<1>13. CASE ConfigLost
  BY <1>13 DEF ConfigLost, Leave
<1>14. CASE ReceiveEnds
  BY <1>14 DEF ReceiveEnds, Reap
<1>15. CASE ReceiveCancelled
  BY <1>15 DEF ReceiveCancelled, Reap
<1>16. CASE Reaped
  BY <1>16 DEF Reaped
<1>17. CASE Left
  BY <1>17 DEF Left
<1>18. CASE Retry
  BY <1>18 DEF Retry
<1>19. CASE Cancelled
  BY <1>19 DEF Cancelled, Leave
<1>20. CASE Partial
  BY <1>20 DEF Partial, Receives, Yield
<1>21. CASE NewDefinite
  BY <1>21 DEF NewDefinite, Receives, Yield, Definite
<1>22. CASE RepeatedDefinite
  BY <1>22 DEF RepeatedDefinite, Receives, Yield, Definite
<1>23. CASE VendorError
  BY <1>23 DEF VendorError, Reap
<1>24. CASE UNCHANGED vars
  BY <1>24 DEF vars
<1>25. QED
  BY <1>1, <1>2, <1>3, <1>4, <1>5, <1>6, <1>7, <1>8, <1>9, <1>10, <1>11, <1>12, <1>13,
    <1>14, <1>15, <1>16, <1>17, <1>18, <1>19, <1>20, <1>21, <1>22, <1>23, <1>24,
    Zenon DEF Next, PushStep, PumpStep

-----------------------------------------------------------------------------
\* The invariant holds initially ...
LEMMA InitIInv == Init => IInv
<1> SUFFICES ASSUME Init PROVE IInv
  OBVIOUS
<1> USE AsrAssumption DEF AsrAssumption, Init
<1>1. TypeOK
  <2>1. <<>> \in Seq(Nat \X Nat)
    OBVIOUS
  <2>2. QED
    BY <2>1, Zenon DEF TypeOK
<1>2. PushInsideConnection /\ BufferInv /\ FinalsInv
  BY DEF PushInsideConnection, BufferInv, FinalsInv, FinalsOnce
<1>3. RetryInv
  BY OneMore DEF RetryInv
<1>4. LossInv
  BY OneMore DEF LossInv, Connecting, Buffered, Ended
<1>5. HeardInv
  BY DEF HeardInv
<1>6. QED
  BY <1>1, <1>2, <1>3, <1>4, <1>5 DEF IInv

\* ... and is kept by every step of the recogniser.
THEOREM Invariance == Spec => []IInv
<1>1. Init => IInv
  BY InitIInv
<1>2. IInv /\ [Next]_vars => IInv'
  BY TypePreserved, PushPreserved, BufferPreserved, FinalsPreserved, RetryPreserved,
     LossPreserved, HeardPreserved DEF IInv
<1>3. QED
  BY <1>1, <1>2, PTL DEF Spec

\* The state of the recogniser keeps its types.
THEOREM TypeCorrect == Spec => []TypeOK
<1>1. IInv => TypeOK
  BY DEF IInv
<1>2. QED
  BY <1>1, Invariance, PTL

\* Every definite of the vendor is posted exactly once and in order, over any
\* number of connections (last_final_sig belongs to one connection).
THEOREM FinalsPostedOnce == Spec => []FinalsOnce
<1>1. IInv => FinalsOnce
  BY DEF IInv, FinalsInv
<1>2. QED
  BY <1>1, Invariance, PTL

\* No push task is left running outside its connection, so the audio generator
\* is never entered twice.
THEOREM PushContained == Spec => []PushInsideConnection
<1>1. IInv => PushInsideConnection
  BY DEF IInv
<1>2. QED
  BY <1>1, Invariance, PTL

\* The vendor is asked for at most Backoffs + 1 connections per result, and every
\* frame of the call's audio that is lost is lost to a connection that ended, at
\* most a packet of the taken ones each, for any backoff schedule, packet size and
\* length of the call.
THEOREM ReconnectsExplained == Spec => []ReconnectsAccounted
<1>1. ASSUME IInv PROVE ConnectionsBounded
  <2>1. (results + 1) * (Backoffs + 1) = results * (Backoffs + 1) + (Backoffs + 1)
    BY <1>1, AsrAssumption, OneMore DEF IInv, TypeOK, AsrAssumption
  <2>2. results * (Backoffs + 1) \in Int
    BY <1>1, AsrAssumption, OneMore DEF IInv, TypeOK, AsrAssumption
  <2>3. QED
    BY <1>1, <2>1, <2>2, AsrAssumption
    DEF IInv, TypeOK, RetryInv, ConnectionsBounded, AsrAssumption
<1>2. ASSUME IInv PROVE AudioAccounted
  <2>1. delivered + Buffered <= taken
    BY <1>2 DEF IInv, LossInv
  <2>2. taken <= delivered + Buffered + Ended * PacketFrames
    BY <1>2 DEF IInv, LossInv
  <2>3. audio = "finished" /\ taken < arrived => Ended > 0
    BY <1>2 DEF IInv, HeardInv, TypeOK, Ended, Connecting
  <2>4. QED
    BY <2>1, <2>2, <2>3 DEF AudioAccounted
<1>3. ASSUME IInv PROVE ReconnectsAccounted
  BY <1>1, <1>2, <1>3 DEF ReconnectsAccounted
<1>4. QED
  BY <1>3, Invariance, PTL

-----------------------------------------------------------------------------
\* The rule tree.  Evaluate is a recursive function on Trees; that there is one
\* is shown by gluing together the valuations of parts of Trees.

\* A rule asks nothing of a valuation but what it says of its subtrees.
LEMMA HoldsLocal ==
  ASSUME NEW r, NEW f, NEW g, NEW text, NEW elapsed,
         \A s \in Subtrees(r) : f[s] = g[s]
  PROVE  Holds(r, f, text, elapsed) = Holds(r, g, text, elapsed)
<1>1. ASSUME r.type \in {"and", "or"}, NEW i \in DOMAIN r.rules
      PROVE  f[r.rules[i]] = g[r.rules[i]]
  BY <1>1, Zenon DEF Subtrees
<1>2. r.type = "not" => f[r.rule] = g[r.rule]
  BY DEF Subtrees
<1>3. CASE r.type = "and"
  BY <1>1, <1>3 DEF Holds
<1>4. CASE r.type = "or"
  BY <1>1, <1>4 DEF Holds
<1>5. CASE r.type \notin {"and", "or"}
  BY <1>2, <1>5 DEF Holds
<1> QED
  BY <1>3, <1>4, <1>5

\* Rule.evaluate returns a Boolean, whatever the rule.
LEMMA HoldsBoolean ==
  ASSUME NEW r, NEW f, NEW text, NEW elapsed
  PROVE  Holds(r, f, text, elapsed) \in BOOLEAN
  BY DEF Holds

\* f values the trees P, which contain their subtrees.
Valued(P, f, text, elapsed) ==
  /\ P \in SUBSET Trees
  /\ \A r \in P : Subtrees(r) \subseteq P
  /\ f \in [P -> BOOLEAN]
  /\ \A r \in P : f[r] = Holds(r, f, text, elapsed)

\* Two valuations agree where both are defined.
LEMMA ValuesAgree ==
  ASSUME TreesAssumption, NEW text, NEW elapsed, NEW P, NEW f, NEW Q, NEW g,
         Valued(P, f, text, elapsed), Valued(Q, g, text, elapsed)
  PROVE  \A r \in P \intersect Q : f[r] = g[r]
<1> DEFINE D == {r \in P \intersect Q : f[r] # g[r]}
<1>1. SUFFICES ASSUME D # {} PROVE FALSE
  BY <1>1, Zenon
<1>2. D \in (SUBSET Trees) \ {{}}
  BY <1>1 DEF Valued
<1>3. PICK r \in D : Subtrees(r) \intersect D = {}
  BY <1>2, Zenon DEF TreesAssumption
<1>4. ASSUME NEW s \in Subtrees(r) PROVE f[s] = g[s]
  <2>1. s \in P /\ s \in Q
    BY <1>3, <1>4 DEF Valued
  <2> QED
    BY <1>3, <1>4, <2>1
<1>5. Holds(r, f, text, elapsed) = Holds(r, g, text, elapsed)
  BY <1>4, HoldsLocal
<1>6. f[r] = Holds(r, f, text, elapsed) /\ g[r] = Holds(r, g, text, elapsed)
  BY <1>3, Zenon DEF Valued
<1> QED
  BY <1>3, <1>5, <1>6

\* The trees that some valuation gives a value.
HasValue(text, elapsed) ==
  {r \in Trees : \E P, f : Valued(P, f, text, elapsed) /\ r \in P}

\* ... and the value.
ValueOf(text, elapsed) ==
  [r \in HasValue(text, elapsed) |->
     CHOOSE v : \E P, f : Valued(P, f, text, elapsed) /\ r \in P /\ v = f[r]]

\* Any valuation of the tree gives that value.
LEMMA ValueOfTree ==
  ASSUME TreesAssumption, NEW text, NEW elapsed, NEW P, NEW f,
         Valued(P, f, text, elapsed), NEW r \in P
  PROVE  /\ r \in HasValue(text, elapsed)
         /\ ValueOf(text, elapsed)[r] = f[r]
<1>1. r \in HasValue(text, elapsed)
  BY DEF HasValue, Valued
<1> DEFINE IsValue(v) == \E Q, g : Valued(Q, g, text, elapsed) /\ r \in Q /\ v = g[r]
<1>2. IsValue(f[r])
  BY Zenon
<1>3. ASSUME NEW v, IsValue(v) PROVE v = f[r]
  <2>1. PICK Q, g : Valued(Q, g, text, elapsed) /\ r \in Q /\ v = g[r]
    BY <1>3
  <2>2. g[r] = f[r]
    BY <2>1, ValuesAgree
  <2> QED
    BY <2>1, <2>2
<1>4. (CHOOSE v : IsValue(v)) = f[r]
  <2> HIDE DEF IsValue
  <2>1. IsValue(CHOOSE v : IsValue(v))
    BY <1>2, Zenon
  <2> QED
    BY <1>3, <2>1, Zenon
<1> QED
  BY <1>1, <1>4, Zenon DEF ValueOf

\* It is a valuation.
LEMMA ValueOfValued ==
  ASSUME TreesAssumption, NEW text, NEW elapsed
  PROVE  Valued(HasValue(text, elapsed), ValueOf(text, elapsed), text, elapsed)
<1> DEFINE U == HasValue(text, elapsed)
           F == ValueOf(text, elapsed)
<1>1. U \in SUBSET Trees
  BY Zenon DEF HasValue
<1>2. ASSUME NEW r \in U
      PROVE  /\ Subtrees(r) \subseteq U
             /\ F[r] \in BOOLEAN
             /\ F[r] = Holds(r, F, text, elapsed)
  <2>1. PICK P, f : Valued(P, f, text, elapsed) /\ r \in P
    BY Zenon DEF HasValue
  <2>2. \A s \in P : s \in U /\ F[s] = f[s]
    <3>1. Valued(P, f, text, elapsed)
      BY <2>1, Zenon
    <3> QED
      BY <3>1, ValueOfTree
  <2>3. Subtrees(r) \subseteq P /\ f[r] \in BOOLEAN /\ f[r] = Holds(r, f, text, elapsed)
    BY <2>1, Zenon DEF Valued
  <2>4. Holds(r, F, text, elapsed) = Holds(r, f, text, elapsed)
    <3> HIDE DEF F
    <3>1. \A s \in Subtrees(r) : F[s] = f[s]
      BY <2>2, <2>3, Zenon
    <3> QED
      BY <3>1, HoldsLocal
  <2> HIDE DEF U, F
  <2> QED
    BY <2>1, <2>2, <2>3, <2>4, Zenon
<1>3. F \in [U -> BOOLEAN]
  <2>1. F = [r \in U |-> F[r]]
    BY DEF ValueOf
  <2> HIDE DEF F, U
  <2> QED
    BY <1>2, <2>1
<1> HIDE DEF F, U
<1> SUFFICES Valued(U, F, text, elapsed)
  BY DEF F, U
<1> QED
  BY <1>1, <1>2, <1>3, Zenon DEF Valued

\* Every tree has a value.
LEMMA AllValued ==
  ASSUME TreesAssumption, NEW text, NEW elapsed
  PROVE  HasValue(text, elapsed) = Trees
<1> DEFINE U == HasValue(text, elapsed)
           F == ValueOf(text, elapsed)
<1>1. Valued(U, F, text, elapsed)
  BY ValueOfValued
<1>2. SUFFICES ASSUME Trees \ U # {} PROVE FALSE
  BY <1>1 DEF Valued
<1>3. PICK r \in Trees \ U : Subtrees(r) \intersect (Trees \ U) = {}
  BY <1>2, Zenon DEF TreesAssumption
<1> DEFINE P == U \union {r}
           g == [s \in P |-> IF s \in U THEN F[s] ELSE Holds(r, F, text, elapsed)]
<1> HIDE DEF U, F
<1>4. Subtrees(r) \subseteq U
  BY <1>3, Zenon DEF TreesAssumption
<1>5. P \in SUBSET Trees /\ \A s \in P : Subtrees(s) \subseteq U
  BY <1>1, <1>3, <1>4, Zenon DEF Valued
<1>6. ASSUME NEW s \in U PROVE g[s] = F[s]
  BY Zenon
<1>7. g[r] = Holds(r, F, text, elapsed)
  BY <1>3, Zenon
<1>8. ASSUME NEW s \in P
      PROVE  g[s] \in BOOLEAN /\ g[s] = Holds(s, g, text, elapsed)
  <2> HIDE DEF g
  <2>1. \A x \in Subtrees(s) : g[x] = F[x]
    BY <1>5, <1>6, Zenon
  <2>2. Holds(s, g, text, elapsed) = Holds(s, F, text, elapsed)
    BY <2>1, HoldsLocal
  <2>3. CASE s \in U
    BY <1>1, <1>6, <2>2, <2>3, HoldsBoolean, Zenon DEF Valued
  <2>4. CASE s = r
    BY <1>7, <2>2, <2>4, HoldsBoolean, Zenon
  <2> QED
    BY <2>3, <2>4
<1>9. g \in [P -> BOOLEAN]
  <2>1. g = [s \in P |-> g[s]]
    BY Zenon
  <2> HIDE DEF g, P
  <2> QED
    BY <1>8, <2>1
<1>10. Valued(P, g, text, elapsed)
  <2>1. \A s \in P : Subtrees(s) \subseteq P
    BY <1>5, Zenon
  <2> HIDE DEF g, P
  <2> QED
    BY <1>5, <1>8, <1>9, <2>1, Zenon DEF Valued
<1>11. r \in U
  <2>1. r \in P
    OBVIOUS
  <2> HIDE DEF g, P
  <2> QED
    BY <1>10, <2>1, ValueOfTree, Zenon DEF U
<1> QED
  BY <1>3, <1>11

\* Evaluate is well defined on the trees that build_rule can compile: it conforms
\* to the equation that defines it, so that a composite rule is evaluated from
\* the verdicts on the rules it is made of.
THEOREM EvaluateByRules ==
  ASSUME NEW text, NEW elapsed
  PROVE  \E h : \A r \in Trees : /\ Evaluate(r, text, elapsed) = h[r]
                                 /\ h[r] = Holds(r, h, text, elapsed)
<1> USE TreesAssumption
<1> DEFINE F == ValueOf(text, elapsed)
           Solves(f) == f = [r \in Trees |-> Holds(r, f, text, elapsed)]
           h == CHOOSE f : Solves(f)
<1>1. Valued(Trees, F, text, elapsed)
  BY ValueOfValued, AllValued
<1>2. Solves(F)
  <2> HIDE DEF F
  <2>1. F = [r \in Trees |-> F[r]] /\ \A r \in Trees : F[r] = Holds(r, F, text, elapsed)
    BY <1>1 DEF Valued
  <2> QED
    BY <2>1, Zenon
<1>3. Solves(h)
  <2> HIDE DEF Solves
  <2> QED
    BY <1>2, Zenon
<1>4. \A r \in Trees : Evaluate(r, text, elapsed) = h[r]
  BY DEF Evaluate
<1>5. \A r \in Trees : h[r] = Holds(r, h, text, elapsed)
  <2> HIDE DEF h
  <2> QED
    BY <1>3, Zenon
<1> HIDE DEF h
<1> QED
  BY <1>4, <1>5, Zenon

\* evaluate_partial returns a Boolean.
LEMMA EvaluateBoolean ==
  ASSUME TreesAssumption, NEW r \in Trees, NEW text, NEW elapsed
  PROVE  Evaluate(r, text, elapsed) \in BOOLEAN
<1>1. PICK h : \A s \in Trees : /\ Evaluate(s, text, elapsed) = h[s]
                                /\ h[s] = Holds(s, h, text, elapsed)
  BY EvaluateByRules
<1>2. Holds(r, h, text, elapsed) \in BOOLEAN
  BY HoldsBoolean
<1> QED
  BY <1>1, <1>2, Zenon

\* The rules of default_rule, with and without the whitelist.
LEMMA ListedFirst ==
  ASSUME NEW n, NEW l, NEW d
  PROVE  /\ <<>> \o <<l, d>> = <<l, d>>
         /\ <<n>> \o <<l, d>> = <<n, l, d>>
<1>1. <<>> \o <<l, d>> = <<l, d>>
  OBVIOUS
<1>2. <<n>> \o <<l, d>> = <<n, l, d>>
  <2> DEFINE S == {n, l, d}
             t == <<n>> \o <<l, d>>
  <2>1. <<n>> \in Seq(S) /\ <<l, d>> \in Seq(S)
    OBVIOUS
  <2>2. t \in Seq(S) /\ Len(t) = 3
    BY <2>1
  <2>3. t[1] = n /\ t[2] = l /\ t[3] = d
    BY <2>1
  <2> HIDE DEF t, S
  <2>4. t = <<n, l, d>>
    BY <2>2, <2>3
  <2> QED
    BY <2>4 DEF t
<1> QED
  BY <1>1, <1>2

\* What default_rule synthesises is the conjunction of the three conditions of
\* its docstring, with and without a whitelist.
THEOREM DefaultEvaluates ==
  ASSUME NEW text \in Texts, NEW elapsed \in Int
  PROVE  Evaluate(DefaultRule, text, elapsed)
           <=> /\ text \notin Whitelist
               /\ Length[text] >= MinChars
               /\ elapsed >= MinDuration
<1> USE BargeInAssumption, TreesAssumption
<1> DEFINE k == [type |-> "keyword", match |-> "exact", values |-> Whitelist]
           n == [type |-> "not", rule |-> k]
           l == [type |-> "length", value |-> MinChars]
           d == [type |-> "duration", value |-> MinDuration]
<1>1. PICK h : \A r \in Trees : /\ Evaluate(r, text, elapsed) = h[r]
                                /\ h[r] = Holds(r, h, text, elapsed)
  BY EvaluateByRules
<1>2. DefaultRule \in Trees /\ \A r \in Trees : Subtrees(r) \subseteq Trees
  BY DEF BargeInAssumption, TreesAssumption
<1>3. k.type = "keyword" /\ k.values = Whitelist
  OBVIOUS
<1>4. n.type = "not" /\ n.rule = k
  BY Zenon
<1>5. l.type = "length" /\ l.value = MinChars
  OBVIOUS
<1>6. d.type = "duration" /\ d.value = MinDuration
  OBVIOUS
<1>7. CASE Whitelist = {}
  <2>1. DefaultRule = [type |-> "and", rules |-> <<l, d>>]
    <3>1. <<>> \o <<l, d>> = <<l, d>>
      BY ListedFirst, Zenon
    <3> QED
      BY <1>7, <3>1, Zenon DEF DefaultRule
  <2> HIDE DEF l, d
  <2>2. DefaultRule.type = "and" /\ DefaultRule.rules = <<l, d>>
    BY <2>1, Zenon
  <2>3. l \in Trees /\ d \in Trees
    <3>1. Subtrees(DefaultRule) = {<<l, d>>[i] : i \in DOMAIN <<l, d>>}
      BY <2>2 DEF Subtrees
    <3>2. l \in Subtrees(DefaultRule) /\ d \in Subtrees(DefaultRule)
      BY <3>1
    <3> QED
      BY <1>2, <3>2, Zenon
  <2>4. h[l] <=> Length[text] >= MinChars
    BY <1>1, <1>5, <2>3, Zenon DEF Holds
  <2>5. h[d] <=> elapsed >= MinDuration
    BY <1>1, <1>6, <2>3, Zenon DEF Holds
  <2>6. Holds(DefaultRule, h, text, elapsed) <=> h[l] /\ h[d]
    BY <2>2 DEF Holds
  <2> QED
    BY <1>1, <1>2, <1>7, <2>4, <2>5, <2>6, Zenon
<1>8. CASE Whitelist # {}
  <2>1. DefaultRule = [type |-> "and", rules |-> <<n, l, d>>]
    <3>1. <<n>> \o <<l, d>> = <<n, l, d>>
      BY ListedFirst, Zenon
    <3> QED
      BY <1>8, <3>1, Zenon DEF DefaultRule
  <2> HIDE DEF k, n, l, d
  <2>2. DefaultRule.type = "and" /\ DefaultRule.rules = <<n, l, d>>
    BY <2>1, Zenon
  <2>3. n \in Trees /\ l \in Trees /\ d \in Trees
    <3>1. Subtrees(DefaultRule) = {<<n, l, d>>[i] : i \in DOMAIN <<n, l, d>>}
      BY <2>2 DEF Subtrees
    <3>2. /\ n \in Subtrees(DefaultRule)
          /\ l \in Subtrees(DefaultRule)
          /\ d \in Subtrees(DefaultRule)
      BY <3>1
    <3> QED
      BY <1>2, <3>2, Zenon
  <2>4. k \in Trees
    BY <1>2, <1>4, <2>3 DEF Subtrees
  <2>5. h[l] <=> Length[text] >= MinChars
    BY <1>1, <1>5, <2>3, Zenon DEF Holds
  <2>6. h[d] <=> elapsed >= MinDuration
    BY <1>1, <1>6, <2>3, Zenon DEF Holds
  <2>7. h[k] <=> text \in Whitelist
    BY <1>1, <1>3, <2>4, Zenon DEF Holds
  <2>8. h[n] <=> ~h[k]
    BY <1>1, <1>4, <2>3, Zenon DEF Holds
  <2>9. Holds(DefaultRule, h, text, elapsed) <=> h[n] /\ h[l] /\ h[d]
    BY <2>2 DEF Holds
  <2> QED
    BY <1>1, <1>2, <2>5, <2>6, <2>7, <2>8, <2>9, Zenon
<1> QED
  BY <1>7, <1>8

-----------------------------------------------------------------------------
\* The inductive invariant of BargeIn.

\* A partial is of an utterance that has begun.
Posted(p, u, b) == p.utt <= u /\ (p.utt = u => b # Never)

PostedInv ==
  /\ \A i \in 1..Len(lane) : Posted(lane[i], utt, began)
  /\ \A i \in 1..Len(queue) : Posted(queue[i], utt, began)
  /\ last.utt <= utt
  /\ utt >= 1

\* The anchor is set when the monitor has judged the utterance, not later than
\* its first judgement; and without leftovers not before its first partial.
AnchorInv ==
  /\ anchor <= clock
  /\ began <= clock
  /\ judgedAt <= clock
  /\ ~monitor => judgedAt = Never
  /\ judgedAt # Never => anchor # Never /\ anchor <= judgedAt
  /\ ~leftover /\ anchor # Never => began # Never /\ began <= anchor

BargeInInv ==
  /\ BITypeOK
  /\ PostedInv
  /\ AnchorInv
  /\ NoBargeInMissed
  /\ EarlyOnlyByLeftover

\* No time is Never.
LEMMA NeverInt == Never = -1 /\ Never \in Int /\ Never \notin Nat
  BY DEF Never

\* The types of the clocks.
LEMMA ClockTypes ==
  ASSUME BITypeOK
  PROVE  /\ clock \in Nat /\ anchor \in Nat \union {Never}
         /\ began \in Nat \union {Never} /\ judgedAt \in Nat \union {Never}
         /\ monitor \in BOOLEAN /\ leftover \in BOOLEAN
  BY Zenon DEF BITypeOK

\* It holds when the greeting begins.
LEMMA BargeInStarts ==
  ASSUME BargeInAssumption, BIInit
  PROVE  BargeInInv
<1>1. BITypeOK
  <2>1. rule \in Trees
    BY DEF BargeInAssumption, BIInit
  <2>2. NoVerdict \in [triggered : BOOLEAN, text : Texts, utt : Nat, elapsed : Int, spoke : Int]
    BY DEF BargeInAssumption, NoVerdict
  <2>3. /\ replying = FALSE /\ monitor = FALSE /\ signaled = FALSE /\ anchor = Never
        /\ lane = <<>> /\ queue = <<>> /\ clock = 0 /\ utt = 1 /\ began = Never
        /\ judgedAt = Never /\ partials = 0 /\ leftover = FALSE /\ last = NoVerdict
    BY Zenon DEF BIInit
  <2>4. 0 \in Nat /\ 1 \in Nat /\ <<>> \in Seq(Partials)
    OBVIOUS
  <2> QED
    BY <2>1, <2>2, <2>3, <2>4, Zenon DEF BITypeOK
<1>2. PostedInv
  BY DEF BIInit, PostedInv, NoVerdict
<1>3. AnchorInv
  BY DEF BIInit, AnchorInv, Never
<1>4. NoBargeInMissed /\ EarlyOnlyByLeftover
  BY DEF BIInit, NoBargeInMissed, EarlyOnlyByLeftover, NoVerdict
<1> QED
  BY <1>1, <1>2, <1>3, <1>4 DEF BargeInInv

\* What is on a lane after a post is the new event or was there.
LEMMA AppendPosted ==
  ASSUME NEW S, NEW s \in Seq(S), NEW e \in S
  PROVE  /\ Append(s, e) \in Seq(S)
         /\ \A i \in 1..Len(Append(s, e)) :
              Append(s, e)[i] = e \/ \E j \in 1..Len(s) : Append(s, e)[i] = s[j]
<1>1. Append(s, e) \in Seq(S) /\ Len(Append(s, e)) = Len(s) + 1
  OBVIOUS
<1>2. ASSUME NEW i \in 1..Len(s) + 1
      PROVE  Append(s, e)[i] = e \/ \E j \in 1..Len(s) : Append(s, e)[i] = s[j]
  <2>1. CASE i \in 1..Len(s)
    BY <2>1
  <2>2. CASE i = Len(s) + 1
    BY <2>2
  <2> QED
    BY <2>1, <2>2
<1> QED
  BY <1>1, <1>2

\* What is left of a lane, and what is taken, was there.
LEMMA TailPosted ==
  ASSUME NEW S, NEW s \in Seq(S), s # <<>>
  PROVE  /\ Tail(s) \in Seq(S)
         /\ Head(s) \in S
         /\ \E j \in 1..Len(s) : Head(s) = s[j]
         /\ \A i \in 1..Len(Tail(s)) : \E j \in 1..Len(s) : Tail(s)[i] = s[j]
<1>1. /\ Tail(s) \in Seq(S) /\ Len(Tail(s)) = Len(s) - 1
      /\ Head(s) \in S
      /\ Len(s) \in Nat /\ Len(s) >= 1
  OBVIOUS
<1>2. Head(s) = s[1] /\ 1 \in 1..Len(s)
  BY <1>1
<1>3. ASSUME NEW i \in 1..Len(s) - 1
      PROVE  Tail(s)[i] = s[i + 1] /\ i + 1 \in 1..Len(s)
  BY <1>1
<1> QED
  BY <1>1, <1>2, <1>3

\* A step that judges nothing keeps the verdict.
LEMMA VerdictKept ==
  ASSUME BargeInInv, rule' = rule, last' = last, utt' = utt, leftover' = leftover
  PROVE  NoBargeInMissed' /\ EarlyOnlyByLeftover'
  BY Zenon DEF BargeInInv, NoBargeInMissed, EarlyOnlyByLeftover, DefaultRule

\* _asr_pump posts a partial.
LEMMA AsrPartialKeeps ==
  ASSUME BargeInAssumption, BargeInInv, AsrPartial
  PROVE  BargeInInv'
<1>1. BITypeOK /\ PostedInv /\ AnchorInv
  BY DEF BargeInInv
<1>2. /\ rule' = rule /\ replying' = replying /\ monitor' = monitor /\ signaled' = signaled
      /\ anchor' = anchor /\ queue' = queue /\ clock' = clock /\ utt' = utt
      /\ judgedAt' = judgedAt /\ leftover' = leftover /\ last' = last
      /\ partials' = partials + 1
      /\ began' = IF began = Never THEN clock ELSE began
  BY Zenon DEF AsrPartial
<1> DEFINE kept == IF Len(lane) = LossyMax THEN Tail(lane) ELSE lane
<1>3. PICK text \in Texts : lane' = Append(kept, [utt |-> utt, text |-> text])
  BY DEF AsrPartial
<1> DEFINE p == [utt |-> utt, text |-> text]
<1>4. p \in Partials /\ p.utt = utt
  BY <1>1 DEF Partials, BITypeOK
<1>5. began' # Never
  BY <1>1, <1>2, NeverInt DEF BITypeOK
<1>6. kept \in Seq(Partials) /\ \A i \in 1..Len(kept) : \E j \in 1..Len(lane) : kept[i] = lane[j]
  <2>1. lane \in Seq(Partials)
    BY <1>1 DEF BITypeOK
  <2>2. CASE Len(lane) = LossyMax
    <3>1. lane # <<>>
      BY <2>2 DEF BargeInAssumption
    <3> QED
      BY <2>1, <2>2, <3>1, TailPosted
  <2>3. CASE Len(lane) # LossyMax
    BY <2>1, <2>3
  <2> QED
    BY <2>2, <2>3
<1> HIDE DEF kept, p
<1>7. /\ lane' \in Seq(Partials)
      /\ \A i \in 1..Len(lane') : lane'[i] = p \/ \E j \in 1..Len(lane) : lane'[i] = lane[j]
  <2>1. lane' = Append(kept, p)
    BY <1>3 DEF p
  <2>2. /\ Append(kept, p) \in Seq(Partials)
        /\ \A i \in 1..Len(Append(kept, p)) :
             Append(kept, p)[i] = p \/ \E j \in 1..Len(kept) : Append(kept, p)[i] = kept[j]
    BY <1>4, <1>6, AppendPosted
  <2>3. ASSUME NEW i \in 1..Len(lane')
        PROVE  lane'[i] = p \/ \E j \in 1..Len(lane) : lane'[i] = lane[j]
    <3>1. lane'[i] = p \/ \E j \in 1..Len(kept) : lane'[i] = kept[j]
      BY <2>1, <2>2
    <3> QED
      BY <1>6, <3>1
  <2> QED
    BY <2>1, <2>2, <2>3
<1>8. BITypeOK'
  <2>1. partials \in Nat /\ clock \in Nat /\ began \in Nat \union {Never}
    BY <1>1, Zenon DEF BITypeOK
  <2>2. partials + 1 \in Nat
    BY <2>1
  <2>3. began' \in Nat \union {Never}
    BY <1>2, <2>1, Zenon
  <2> QED
    BY <1>1, <1>2, <1>7, <2>2, <2>3, Zenon DEF BITypeOK
<1>9. PostedInv'
  <2>1. ASSUME NEW e, Posted(e, utt, began) PROVE Posted(e, utt', began')
    BY <1>2, <1>5, <2>1 DEF Posted
  <2>2. Posted(p, utt', began')
    BY <1>1, <1>2, <1>4, <1>5 DEF Posted, BITypeOK
  <2>3. \A i \in 1..Len(lane') : Posted(lane'[i], utt', began')
    BY <1>1, <1>7, <2>1, <2>2, Zenon DEF PostedInv
  <2>4. \A i \in 1..Len(queue) : Posted(queue[i], utt', began')
    BY <1>1, <2>1, Zenon DEF PostedInv
  <2> QED
    BY <1>1, <1>2, <2>3, <2>4, Zenon DEF PostedInv
<1>10. AnchorInv'
  BY <1>1, <1>2, <1>5, NeverInt, ClockTypes DEF AnchorInv
<1> QED
  BY <1>2, <1>8, <1>9, <1>10, VerdictKept DEF BargeInInv

\* The next utterance: what was posted is of an earlier one.
LEMMA NextPosted ==
  ASSUME BITypeOK, PostedInv, utt' = utt + 1, lane' = lane, queue' = queue, last' = last
  PROVE  PostedInv' /\ last'.utt # utt'
<1>1. utt \in Nat /\ last.utt \in Nat /\ lane \in Seq(Partials) /\ queue \in Seq(Partials)
  BY DEF BITypeOK
<1>2. ASSUME NEW e \in Partials, Posted(e, utt, began) PROVE Posted(e, utt', began')
  BY <1>1, <1>2 DEF Posted, Partials
<1>3. /\ \A i \in 1..Len(lane) : lane[i] \in Partials
      /\ \A i \in 1..Len(queue) : queue[i] \in Partials
  BY <1>1
<1>4. /\ \A i \in 1..Len(lane) : Posted(lane[i], utt', began')
      /\ \A i \in 1..Len(queue) : Posted(queue[i], utt', began')
  BY <1>2, <1>3, Zenon DEF PostedInv
<1>5. last.utt <= utt /\ utt >= 1
  BY Zenon DEF PostedInv
<1>6. last'.utt <= utt' /\ utt' >= 1 /\ last'.utt # utt'
  BY <1>1, <1>5
<1> QED
  BY <1>4, <1>6, Zenon DEF PostedInv

\* A final clears the anchor and begins the next utterance.
LEMMA AsrFinalKeeps ==
  ASSUME BargeInAssumption, BargeInInv, AsrFinal
  PROVE  BargeInInv'
<1>1. BITypeOK /\ PostedInv /\ AnchorInv
  BY DEF BargeInInv
<1>2. /\ rule' = rule /\ replying' = replying /\ monitor' = monitor /\ signaled' = signaled
      /\ anchor' = Never /\ lane' = lane /\ queue' = queue /\ clock' = clock
      /\ utt' = utt + 1 /\ began' = Never /\ judgedAt' = Never
      /\ partials' = partials /\ leftover' = leftover /\ last' = last
  BY DEF AsrFinal, NextUtterance
<1>3. PostedInv' /\ last'.utt # utt'
  BY <1>1, <1>2, NextPosted
<1>4. BITypeOK'
  BY <1>1, <1>2 DEF BITypeOK
<1>5. AnchorInv'
  BY <1>1, <1>2, NeverInt, ClockTypes DEF AnchorInv
<1>6. NoBargeInMissed'
  BY <1>3 DEF NoBargeInMissed
<1>7. EarlyOnlyByLeftover'
  BY <1>2, Zenon DEF BargeInInv, EarlyOnlyByLeftover, DefaultRule
<1> QED
  BY <1>3, <1>4, <1>5, <1>6, <1>7 DEF BargeInInv

\* An utterance that gets no final leaves its anchor behind.
LEMMA AbandonedKeeps ==
  ASSUME BargeInAssumption, BargeInInv, Abandoned
  PROVE  BargeInInv'
<1>1. BITypeOK /\ PostedInv /\ AnchorInv
  BY DEF BargeInInv
<1>2. /\ rule' = rule /\ replying' = replying /\ monitor' = monitor /\ signaled' = signaled
      /\ anchor' = anchor /\ lane' = lane /\ queue' = queue /\ clock' = clock
      /\ utt' = utt + 1 /\ began' = Never /\ judgedAt' = Never
      /\ partials' = partials /\ leftover' = TRUE /\ last' = last
  BY DEF Abandoned, NextUtterance
<1>3. PostedInv' /\ last'.utt # utt'
  BY <1>1, <1>2, NextPosted
<1>4. BITypeOK'
  BY <1>1, <1>2 DEF BITypeOK
<1>5. AnchorInv'
  BY <1>1, <1>2, NeverInt, ClockTypes DEF AnchorInv
<1>6. NoBargeInMissed' /\ EarlyOnlyByLeftover'
  BY <1>2, <1>3 DEF NoBargeInMissed, EarlyOnlyByLeftover
<1> QED
  BY <1>3, <1>4, <1>5, <1>6 DEF BargeInInv

\* A partial moves from the lane to asr_partials_q.
LEMMA BridgePartialKeeps ==
  ASSUME BargeInInv, BridgePartial
  PROVE  BargeInInv'
<1>1. BITypeOK /\ PostedInv /\ AnchorInv
  BY DEF BargeInInv
<1>2. /\ rule' = rule /\ replying' = replying /\ monitor' = monitor /\ signaled' = signaled
      /\ anchor' = anchor /\ clock' = clock /\ utt' = utt /\ began' = began
      /\ judgedAt' = judgedAt /\ partials' = partials /\ leftover' = leftover /\ last' = last
      /\ lane # <<>> /\ queue' = Append(queue, Head(lane)) /\ lane' = Tail(lane)
  BY DEF BridgePartial, uttVars
<1>3. lane \in Seq(Partials) /\ queue \in Seq(Partials)
  BY <1>1 DEF BITypeOK
<1>4. /\ lane' \in Seq(Partials)
      /\ Head(lane) \in Partials
      /\ \E j \in 1..Len(lane) : Head(lane) = lane[j]
      /\ \A i \in 1..Len(lane') : \E j \in 1..Len(lane) : lane'[i] = lane[j]
  BY <1>2, <1>3, TailPosted
<1> DEFINE p == Head(lane)
<1>5. /\ queue' \in Seq(Partials)
      /\ \A i \in 1..Len(queue') : queue'[i] = p \/ \E j \in 1..Len(queue) : queue'[i] = queue[j]
  <2>1. /\ Append(queue, p) \in Seq(Partials)
        /\ \A i \in 1..Len(Append(queue, p)) :
             Append(queue, p)[i] = p \/ \E j \in 1..Len(queue) : Append(queue, p)[i] = queue[j]
    <3>1. p \in Partials
      BY <1>4
    <3> HIDE DEF p
    <3> QED
      BY <1>3, <3>1, AppendPosted
  <2> QED
    BY <1>2, <2>1
<1>6. BITypeOK'
  BY <1>1, <1>2, <1>4, <1>5, Zenon DEF BITypeOK
<1>7. PostedInv'
  <2>1. Posted(p, utt, began)
    BY <1>1, <1>4, Zenon DEF PostedInv
  <2> HIDE DEF p
  <2>2. \A i \in 1..Len(lane') : Posted(lane'[i], utt, began)
    BY <1>1, <1>4, Zenon DEF PostedInv
  <2>3. \A i \in 1..Len(queue') : Posted(queue'[i], utt, began)
    BY <1>1, <1>5, <2>1, Zenon DEF PostedInv
  <2> QED
    BY <1>1, <1>2, <2>2, <2>3 DEF PostedInv
<1>8. AnchorInv'
  BY <1>1, <1>2 DEF AnchorInv
<1> QED
  BY <1>2, <1>6, <1>7, <1>8, VerdictKept DEF BargeInInv

\* The monitor starts with an empty queue and no anchor.
LEMMA GreetingEndsKeeps ==
  ASSUME BargeInInv, GreetingEnds
  PROVE  BargeInInv'
<1>1. BITypeOK /\ PostedInv /\ AnchorInv
  BY DEF BargeInInv
<1>2. /\ ~monitor /\ monitor' = TRUE /\ queue' = <<>> /\ anchor' = Never
      /\ rule' = rule /\ replying' = replying /\ signaled' = signaled /\ lane' = lane
      /\ clock' = clock /\ utt' = utt /\ began' = began /\ judgedAt' = judgedAt
      /\ partials' = partials /\ leftover' = leftover /\ last' = last
  BY DEF GreetingEnds, uttVars
<1>3. BITypeOK'
  BY <1>1, <1>2 DEF BITypeOK
<1>4. PostedInv'
  <2>1. \A i \in 1..Len(queue') : Posted(queue'[i], utt', began')
    <3>1. 1..Len(queue') = {}
      BY <1>2
    <3> QED
      BY <3>1, Zenon
  <2> QED
    BY <1>1, <1>2, <2>1, Zenon DEF PostedInv
<1>5. AnchorInv'
  BY <1>1, <1>2, NeverInt, ClockTypes DEF AnchorInv
<1> QED
  BY <1>2, <1>3, <1>4, <1>5, VerdictKept DEF BargeInInv

\* main and the clock.
LEMMA ReplyKeeps ==
  ASSUME BargeInInv, ReplyBegins \/ ReplyEnds \/ Tick
  PROVE  BargeInInv'
<1>1. BITypeOK /\ PostedInv /\ AnchorInv
  BY DEF BargeInInv
<1>2. /\ rule' = rule /\ monitor' = monitor /\ anchor' = anchor /\ lane' = lane
      /\ queue' = queue /\ utt' = utt /\ began' = began /\ judgedAt' = judgedAt
      /\ partials' = partials /\ leftover' = leftover /\ last' = last
  BY Zenon DEF ReplyBegins, ReplyEnds, Tick, uttVars
<1>3. /\ replying' \in BOOLEAN
      /\ signaled' \in BOOLEAN
      /\ clock' \in Nat
      /\ clock' >= clock
  <2>1. replying \in BOOLEAN /\ signaled \in BOOLEAN /\ clock \in Nat
    BY <1>1 DEF BITypeOK
  <2>2. CASE ReplyBegins
    BY <2>1, <2>2 DEF ReplyBegins
  <2>3. CASE ReplyEnds
    <3>1. /\ replying' = FALSE
          /\ signaled' \in {signaled, FALSE}
          /\ clock' = clock
      BY <2>3, Zenon DEF ReplyEnds
    <3>2. signaled' \in BOOLEAN
      BY <2>1, <3>1, Zenon
    <3>3. clock' \in Nat /\ clock' >= clock
      BY <2>1, <3>1
    <3> QED
      BY <3>1, <3>2, <3>3, Zenon
  <2>4. CASE Tick
    BY <2>1, <2>4 DEF Tick
  <2> QED
    BY <2>2, <2>3, <2>4
<1>4. BITypeOK'
  BY <1>1, <1>2, <1>3 DEF BITypeOK
<1>5. PostedInv'
  BY <1>1, <1>2, Zenon DEF PostedInv
<1>6. AnchorInv'
  BY <1>1, <1>2, <1>3, NeverInt, ClockTypes DEF AnchorInv
<1> QED
  BY <1>2, <1>4, <1>5, <1>6, VerdictKept DEF BargeInInv

\* The partial the monitor takes leaves the others.
LEMMA QueueTail ==
  ASSUME BITypeOK, PostedInv, queue # <<>>, queue' = Tail(queue), lane' = lane,
         utt' = utt, began' = began, last'.utt <= utt
  PROVE  PostedInv' /\ queue' \in Seq(Partials) /\ Head(queue) \in Partials
         /\ Posted(Head(queue), utt, began)
<1>1. queue \in Seq(Partials)
  BY DEF BITypeOK
<1>2. /\ queue' \in Seq(Partials)
      /\ Head(queue) \in Partials
      /\ \E j \in 1..Len(queue) : Head(queue) = queue[j]
      /\ \A i \in 1..Len(queue') : \E j \in 1..Len(queue) : queue'[i] = queue[j]
  BY <1>1, TailPosted
<1>3. Posted(Head(queue), utt, began)
  BY <1>2 DEF PostedInv
<1>4. \A i \in 1..Len(queue') : Posted(queue'[i], utt, began)
  BY <1>2, Zenon DEF PostedInv
<1> QED
  BY <1>2, <1>3, <1>4, Zenon DEF PostedInv

\* The monitor passes over a partial.
LEMMA SkipPartialKeeps ==
  ASSUME BargeInInv, SkipPartial
  PROVE  BargeInInv'
<1>1. BITypeOK /\ PostedInv /\ AnchorInv
  BY DEF BargeInInv
<1>2. /\ queue # <<>> /\ queue' = Tail(queue)
      /\ rule' = rule /\ replying' = replying /\ monitor' = monitor /\ signaled' = signaled
      /\ anchor' = anchor /\ lane' = lane /\ clock' = clock /\ utt' = utt /\ began' = began
      /\ judgedAt' = judgedAt /\ partials' = partials /\ leftover' = leftover /\ last' = last
  BY DEF SkipPartial, uttVars
<1>3. PostedInv' /\ queue' \in Seq(Partials)
  BY <1>1, <1>2, QueueTail, Zenon DEF PostedInv
<1>4. BITypeOK'
  BY <1>1, <1>2, <1>3 DEF BITypeOK
<1>5. AnchorInv'
  BY <1>1, <1>2 DEF AnchorInv
<1> QED
  BY <1>2, <1>3, <1>4, <1>5, VerdictKept DEF BargeInInv

\* A judgement is a verdict with its text and its times.
LEMMA VerdictType ==
  ASSUME NEW b \in BOOLEAN, NEW t \in Texts, NEW u \in Nat, NEW e \in Int, NEW m \in Int
  PROVE  [triggered |-> b, text |-> t, utt |-> u, elapsed |-> e, spoke |-> m]
           \in [triggered : BOOLEAN, text : Texts, utt : Nat, elapsed : Int, spoke : Int]
  OBVIOUS

\* The monitor judges a partial: the time it measures from the anchor lies
\* between the time since it first judged the utterance and, without leftovers,
\* the time since the first partial of the utterance was posted.
LEMMA JudgePartialKeeps ==
  ASSUME BargeInAssumption, TreesAssumption, BargeInInv, JudgePartial
  PROVE  BargeInInv'
<1> DEFINE p       == Head(queue)
           started == Anchored
           elapsed == clock - started
           verdict == Evaluate(rule, p.text, elapsed)
           first   == IF judgedAt = Never THEN clock ELSE judgedAt
<1>1. BITypeOK /\ PostedInv /\ AnchorInv
  BY DEF BargeInInv
<1>2. /\ queue # <<>> /\ queue' = Tail(queue) /\ monitor
      /\ rule' = rule /\ replying' = replying /\ monitor' = monitor
      /\ lane' = lane /\ clock' = clock /\ utt' = utt /\ began' = began
      /\ partials' = partials
  BY DEF JudgePartial
<1>3. /\ signaled' = verdict
      /\ anchor' = started
      /\ judgedAt' = IF p.utt = utt THEN first ELSE judgedAt
      /\ leftover' = (leftover \/ p.utt # utt)
      /\ last' = [triggered |-> verdict, text |-> p.text, utt |-> p.utt,
                  elapsed |-> IF p.utt = utt THEN clock - first ELSE 0,
                  spoke |-> IF p.utt = utt THEN clock - began ELSE 0]
  BY Zenon DEF JudgePartial, Judge
<1>4. clock \in Nat /\ utt \in Nat /\ began \in Int /\ rule \in Trees
  BY <1>1, NeverInt DEF BITypeOK
<1>5. /\ started \in Nat /\ started <= clock
      /\ anchor # Never => started = anchor
      /\ anchor = Never => started = clock
  <2>1. clock \in Nat /\ anchor \in Nat \union {Never} /\ anchor <= clock
    BY <1>1, Zenon DEF BITypeOK, AnchorInv
  <2> QED
    BY <2>1 DEF Anchored
<1>6. first \in Nat /\ first <= clock /\ started <= first
  BY <1>1, <1>5, NeverInt, ClockTypes DEF AnchorInv
<1>7. p \in Partials /\ Posted(p, utt, began) /\ p.utt \in Nat /\ p.text \in Texts
  <2>1. /\ \E j \in 1..Len(queue) : p = queue[j]
        /\ p \in Partials
    <3>1. queue \in Seq(Partials) /\ queue # <<>>
      BY <1>1, <1>2, Zenon DEF BITypeOK
    <3> QED
      BY <3>1, TailPosted
  <2> HIDE DEF p
  <2>2. Posted(p, utt, began)
    <3>1. PICK j \in 1..Len(queue) : p = queue[j]
      BY <2>1, Zenon
    <3>2. Posted(queue[j], utt, began)
      BY <1>1, Zenon DEF PostedInv
    <3> QED
      BY <3>1, <3>2, Zenon
  <2> QED
    BY <2>1, <2>2, Zenon DEF Partials
<1>8. verdict \in BOOLEAN
  <2> HIDE DEF elapsed, p
  <2> QED
    BY <1>4, EvaluateBoolean, Zenon
<1>9. rule = DefaultRule => (verdict <=> /\ p.text \notin Whitelist
                                           /\ Length[p.text] >= MinChars
                                           /\ elapsed >= MinDuration)
  <2>1. elapsed \in Int
    BY <1>4, <1>5
  <2> HIDE DEF elapsed, p
  <2> QED
    BY <1>7, <2>1, DefaultEvaluates
<1> HIDE DEF p, started, verdict, first
<1>10. /\ last'.triggered = verdict /\ last'.text = p.text /\ last'.utt = p.utt
       /\ p.utt = utt => last'.elapsed = clock - first /\ last'.spoke = clock - began
  BY <1>3, Zenon
<1>11. last' \in [triggered : BOOLEAN, text : Texts, utt : Nat, elapsed : Int, spoke : Int]
  <2>1. clock - first \in Int /\ clock - began \in Int /\ 0 \in Int
    BY <1>4, <1>6
  <2>2. /\ (IF p.utt = utt THEN clock - first ELSE 0) \in Int
        /\ (IF p.utt = utt THEN clock - began ELSE 0) \in Int
    BY <2>1, Zenon
  <2> QED
    BY <1>3, <1>7, <1>8, <2>2, VerdictType, Zenon
<1>12. PostedInv' /\ queue' \in Seq(Partials)
  <2>1. last'.utt <= utt
    BY <1>7, <1>10, Zenon DEF Posted
  <2> QED
    BY <1>1, <1>2, <2>1, QueueTail
<1>13. BITypeOK'
  <2>1. judgedAt' \in Nat \union {Never}
    BY <1>1, <1>3, <1>6, Zenon DEF BITypeOK
  <2>2. leftover' \in BOOLEAN
    BY <1>3, Zenon
  <2>3. anchor' \in Nat /\ signaled' \in BOOLEAN
    BY <1>3, <1>5, <1>8, Zenon
  <2> QED
    BY <1>1, <1>2, <1>11, <1>12, <2>1, <2>2, <2>3, Zenon DEF BITypeOK
<1>14. p.utt = utt => began # Never
  BY <1>7 DEF Posted
<1>15. ~leftover /\ p.utt = utt => began <= started
  BY <1>1, <1>5, <1>14 DEF AnchorInv
<1>16. AnchorInv'
  <2>1. judgedAt' <= clock
    BY <1>1, <1>3, <1>6, Zenon DEF AnchorInv
  <2>2. judgedAt' # Never => anchor' # Never /\ anchor' <= judgedAt'
    BY <1>1, <1>3, <1>5, <1>6, NeverInt, Zenon DEF AnchorInv
  <2>3. ~leftover' => began # Never /\ began <= anchor'
    BY <1>3, <1>14, <1>15, Zenon
  <2> QED
    BY <1>1, <1>2, <1>3, <1>5, <2>1, <2>2, <2>3, Zenon DEF AnchorInv
<1>17. NoBargeInMissed'
  <2>1. SUFFICES ASSUME rule = DefaultRule, p.utt = utt, ~verdict,
                        p.text \notin Whitelist, ~(Length[p.text] < MinChars)
                 PROVE  clock - first < MinDuration
    BY <1>2, <1>10, Zenon DEF NoBargeInMissed, DefaultRule
  <2>2. Length[p.text] \in Nat /\ MinChars \in Nat /\ MinDuration \in Nat
    BY <1>7 DEF BargeInAssumption
  <2>3. Length[p.text] >= MinChars
    BY <2>1, <2>2
  <2>4. ~(elapsed >= MinDuration)
    BY <1>9, <2>1, <2>3, Zenon
  <2> QED
    BY <1>4, <1>5, <1>6, <2>2, <2>4
<1>18. EarlyOnlyByLeftover'
  <2>1. SUFFICES ASSUME rule = DefaultRule, verdict, ~leftover, p.utt = utt
                 PROVE  /\ clock - began >= MinDuration
                        /\ p.text \notin Whitelist
                        /\ Length[p.text] >= MinChars
    BY <1>2, <1>3, <1>10, Zenon DEF EarlyOnlyByLeftover, DefaultRule
  <2>2. /\ p.text \notin Whitelist
        /\ Length[p.text] >= MinChars
        /\ elapsed >= MinDuration
    BY <1>9, <2>1, Zenon
  <2>3. MinDuration \in Nat
    BY DEF BargeInAssumption
  <2>4. clock - began >= MinDuration
    BY <1>4, <1>5, <1>15, <2>1, <2>2, <2>3
  <2> QED
    BY <2>2, <2>4
<1> QED
  BY <1>12, <1>13, <1>16, <1>17, <1>18 DEF BargeInInv

\* Every step keeps the invariant.
LEMMA BargeInStep ==
  ASSUME BargeInAssumption, TreesAssumption, BargeInInv, [BINext]_biVars
  PROVE  BargeInInv'
<1>1. CASE BINext
  BY <1>1, AsrPartialKeeps, AsrFinalKeeps, AbandonedKeeps, BridgePartialKeeps,
     GreetingEndsKeeps, ReplyKeeps, SkipPartialKeeps, JudgePartialKeeps, Zenon DEF BINext
<1>2. CASE UNCHANGED biVars
  <2>1. /\ rule' = rule /\ replying' = replying /\ monitor' = monitor /\ signaled' = signaled
        /\ anchor' = anchor /\ lane' = lane /\ queue' = queue /\ clock' = clock /\ utt' = utt
        /\ began' = began /\ judgedAt' = judgedAt /\ partials' = partials
        /\ leftover' = leftover /\ last' = last
    BY <1>2, Zenon DEF biVars, uttVars
  <2>2. BITypeOK'
    BY <2>1, Zenon DEF BargeInInv, BITypeOK
  <2>3. PostedInv' /\ AnchorInv'
    BY <2>1, Zenon DEF BargeInInv, PostedInv, AnchorInv
  <2> QED
    BY <2>1, <2>2, <2>3, VerdictKept, Zenon DEF BargeInInv
<1> QED
  BY <1>1, <1>2

\* The invariant of BargeIn.
THEOREM BargeInInvariance == BISpec => []BargeInInv
<1>1. BIInit => BargeInInv
  BY BargeInStarts, BargeInAssumption
<1>2. BargeInInv /\ [BINext]_biVars => BargeInInv'
  BY BargeInStep, BargeInAssumption, TreesAssumption
<1> QED
  BY <1>1, <1>2, PTL DEF BISpec

\* No barge-in is missed (_partial_monitor under default_rule): a partial of the
\* utterance being spoken that does not interrupt is listed, short, or too early
\* counted from the first judgement of the utterance.
THEOREM BargeInHeard == BISpec => []NoBargeInMissed
<1>1. BargeInInv => NoBargeInMissed
  BY DEF BargeInInv
<1> QED
  BY <1>1, BargeInInvariance, PTL

\* A partial that interrupts before the customer has spoken for MinDuration is
\* the work of an anchor that an earlier utterance left behind.
THEOREM EarlyByLeftover == BISpec => []EarlyOnlyByLeftover
<1>1. BargeInInv => EarlyOnlyByLeftover
  BY DEF BargeInInv
<1> QED
  BY <1>1, BargeInInvariance, PTL
=============================================================================
