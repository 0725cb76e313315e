--------------------------- MODULE CallLoopProofs ---------------------------
(***************************************************************************)
(* Proofs about CallLoop, for every configuration and any number of         *)
(* utterances and partials: its types, the legality of the call's lifecycle,*)
(* the three bounds (restructures, wrap-up rounds, silence ladder), that no *)
(* final is lost, that the cue is not cut, that one round at most is         *)
(* answered after the hangup, and that the conversation winds down.         *)
(***************************************************************************)
EXTENDS CallLoop, TLAPS

-----------------------------------------------------------------------------
\* The inductive invariant.

\* What main is saying goes with the await it is suspended in.
SpeechMatchesPc ==
  /\ pc = "sentence" => speech \in Replies
  /\ pc = "play" => speech # "none"
  /\ pc \notin {"sentence", "play"} => speech = "none"

\* session.state goes with it as well: transferring exactly during a handoff,
\* end exactly after the loop has returned.
StateMatchesPc ==
  /\ fsm = "end" <=> pc = "done"
  /\ fsm = "transferring" <=> (pc = "hanging_up" \/ speech = "handoff")

\* A restructured line is spoken only below the cap.
CapInv == RestructureCap /\ (speech = "restructure" => restructures < MaxRestructures)

Phases == SpeechMatchesPc /\ StateMatchesPc

\* Before the drain of the greeting era the queue holds nothing else.
FinalsInv ==
  /\ NoFinalLost
  /\ pc = "greeting" => finals["call"] = 0 /\ uttering # "call"

\* A round that is answered after the hangup was under way when it came: the main
\* loop, back at listening, does not get out of it again but to end the call.
LateInv ==
  late \in {0, 1} /\ (late = 1 => hungup /\ pc \notin {"got", "elapsed", "coalesce"})

IInv ==
  /\ TypeOK /\ Phases /\ CapInv /\ WrapUpBounded /\ LadderBounded /\ FinalsInv /\ CueNeverCut
  /\ LateInv

-----------------------------------------------------------------------------
\* Every step of the loop keeps the types.
LEMMA TypePreserved ==
  ASSUME TypeOK, [Next]_vars
  PROVE  TypeOK'
<1> USE DEF TypeOK, sayVars, signalVars, customerVars, historyVars, counterVars
<1>1. CASE Utter
  BY <1>1 DEF Utter, Eras
<1>2. CASE AsrFinal
  BY <1>2 DEF AsrFinal
<1>3. CASE HangupDetected
  BY <1>3 DEF HangupDetected
<1>4. CASE Partial
  <2>1. task' \in {"none", "running", "finished", "cancelled"}
    BY <1>4 DEF Partial
  <2>2. signaled' \in BOOLEAN /\ signaledIn' \in {"none", "gate", "play"}
    BY <1>4, Zenon DEF Partial, InProcessingTurn, SpeakingTask
  <2>3. QED
    BY <1>4, <2>1, <2>2 DEF Partial
<1>5. CASE GreetingDone
  BY <1>5 DEF GreetingDone, Listen
<1>6. CASE RemoteHangup
  BY <1>6 DEF RemoteHangup, End, Eras
<1>7. CASE SilenceTimeout
  BY <1>7 DEF SilenceTimeout, Answer, Say, End, Phrases
<1>8. CASE ActivationSaid
  BY <1>8 DEF ActivationSaid, Listen, Played, Cut
<1>9. CASE FinalWakes
  BY <1>9 DEF FinalWakes
<1>10. CASE IgnoreFinals
  BY <1>10 DEF IgnoreFinals, Listen, TakeFinals, Answer, Eras
<1>11. CASE CheapTransfer
  BY <1>11 DEF CheapTransfer, TakeFinals, Answer, Handoff, Say, Phrases, Eras
<1>12. CASE ListenOnlyCue
  BY <1>12 DEF ListenOnlyCue, Say, TakeFinals, Answer, Phrases, Eras
<1>13. CASE CueSaid
  BY <1>13 DEF CueSaid, Listen, Played
<1>14. CASE BeginTurn
  BY <1>14 DEF BeginTurn, Stream, TakeFinals, Answer, Replies, Eras
<1>15. CASE ThinkingAbort
  <2>1. remainder' \in {"none", "fresh", "aborted", "capped"}
    BY <1>15 DEF ThinkingAbort, Aged
  <2>2. interruptions' \in Nat
    BY <1>15 DEF ThinkingAbort
  <2>3. QED
    BY <1>15, <2>1, <2>2, Zenon DEF ThinkingAbort, Listen
<1>16. CASE GateResolves
  BY <1>16 DEF GateResolves, Selected, RemainderAfter, Routes
<1>17. CASE DetectorTransfers
  BY <1>17 DEF DetectorTransfers, Handoff, Say, Phrases
<1>18. CASE RouteHangup
  BY <1>18 DEF RouteHangup, Say, End, Phrases
<1>19. CASE RouteTransfer
  BY <1>19 DEF RouteTransfer, Handoff, Say, Phrases
<1>20. CASE RouteRestructureCapped
  BY <1>20 DEF RouteRestructureCapped, Say, Listen, Aged, Phrases
<1>21. CASE DefaultReplySaid
  BY <1>21 DEF DefaultReplySaid, Listen, Played, Cut
<1>22. CASE RouteRestructure
  BY <1>22 DEF RouteRestructure, Stream, Replies
<1>23. CASE RestructureSaid
  BY <1>23 DEF RestructureSaid, Listen, StreamEnds
<1>24. CASE RouteDialogue
  BY <1>24 DEF RouteDialogue, Stream, Replies
<1>25. CASE ReplySaid
  BY <1>25 DEF ReplySaid, Listen, StreamEnds
<1>26. CASE WrapUpReplySaid
  BY <1>26 DEF WrapUpReplySaid, StreamEnds, EvaluateWrapUp, Say, Listen, Phrases
<1>27. CASE WrapUpVerdict
  BY <1>27 DEF WrapUpVerdict, End, EvaluateWrapUp, Say, Listen, Phrases
<1>28. CASE LastWordsSaid
  BY <1>28 DEF LastWordsSaid, End, Played, Cut
<1>29. CASE HandoffSaid
  BY <1>29 DEF HandoffSaid, Played, Cut
<1>30. CASE HandoffEnds
  BY <1>30 DEF HandoffEnds, End
<1>31. CASE AudioOut
  BY <1>31 DEF AudioOut
<1>32. CASE NextSentence
  BY <1>32 DEF NextSentence
<1>33. CASE SentencePlayed
  BY <1>33 DEF SentencePlayed, Played
<1>34. CASE BargeIn
  <2>1. remainder' \in {"none", "fresh", "aborted", "capped"}
    BY <1>34 DEF BargeIn
  <2>2. restructures' \in Nat /\ interruptions' \in Nat
    BY <1>34 DEF BargeIn
  <2>3. QED
    BY <1>34, <2>1, <2>2, Zenon DEF BargeIn, Listen
<1>35. CASE EngineError
  BY <1>35 DEF EngineError, End
<1>36. CASE UNCHANGED vars
  BY <1>36 DEF vars
<1>37. CASE AsrGet
  BY <1>37 DEF AsrGet
<1>38. CASE SilenceElapses
  BY <1>38 DEF SilenceElapses
<1>39. QED
  BY <1>1, <1>2, <1>3, <1>4, <1>5, <1>6, <1>7, <1>8, <1>9, <1>10, <1>11, <1>12, <1>13,
      <1>14, <1>15, <1>16, <1>17, <1>18, <1>19, <1>20, <1>21, <1>22, <1>23, <1>24,
      <1>25, <1>26, <1>27, <1>28, <1>29, <1>30, <1>31, <1>32, <1>33, <1>34, <1>35,
      <1>36, <1>37, <1>38, Zenon
  DEF Next, Customer, Main, ListenStep, TurnStep, PlayStep

\* Every step keeps speech and state in agreement with the await.
LEMMA PhasesPreserved ==
  ASSUME TypeOK, Phases, [Next]_vars
  PROVE  Phases'
<1> USE DEF TypeOK, Phases, SpeechMatchesPc, StateMatchesPc, Replies, sayVars, signalVars,
        customerVars, counterVars
<1>1. CASE Utter
  BY <1>1 DEF Utter
<1>2. CASE AsrFinal
  BY <1>2 DEF AsrFinal
<1>3. CASE HangupDetected
  BY <1>3 DEF HangupDetected
<1>4. CASE Partial
  BY <1>4 DEF Partial, InProcessingTurn, SpeakingTask
<1>5. CASE GreetingDone
  BY <1>5 DEF GreetingDone, Listen
<1>6. CASE RemoteHangup
  BY <1>6 DEF RemoteHangup, End
<1>7. CASE SilenceTimeout
  BY <1>7 DEF SilenceTimeout, Say, End
<1>8. CASE ActivationSaid
  BY <1>8 DEF ActivationSaid, Listen, Played, Cut
<1>9. CASE FinalWakes
  BY <1>9 DEF FinalWakes
<1>10. CASE IgnoreFinals
  BY <1>10 DEF IgnoreFinals, Listen, TakeFinals
<1>11. CASE CheapTransfer
  BY <1>11 DEF CheapTransfer, TakeFinals, Handoff, Say
<1>12. CASE ListenOnlyCue
  BY <1>12 DEF ListenOnlyCue, Say, TakeFinals
<1>13. CASE CueSaid
  BY <1>13 DEF CueSaid, Listen, Played
<1>14. CASE BeginTurn
  BY <1>14 DEF BeginTurn, Stream, TakeFinals
<1>15. CASE ThinkingAbort
  BY <1>15 DEF ThinkingAbort, Listen, Aged
<1>16. CASE GateResolves
  BY <1>16 DEF GateResolves, Selected, RemainderAfter
<1>17. CASE DetectorTransfers
  BY <1>17 DEF DetectorTransfers, Handoff, Say
<1>18. CASE RouteHangup
  BY <1>18 DEF RouteHangup, Say, End
<1>19. CASE RouteTransfer
  BY <1>19 DEF RouteTransfer, Handoff, Say
<1>20. CASE RouteRestructureCapped
  BY <1>20 DEF RouteRestructureCapped, Say, Listen, Aged
<1>21. CASE DefaultReplySaid
  BY <1>21 DEF DefaultReplySaid, Listen, Played, Cut
<1>22. CASE RouteRestructure
  BY <1>22 DEF RouteRestructure, Stream
<1>23. CASE RestructureSaid
  BY <1>23 DEF RestructureSaid, Listen, StreamEnds
<1>24. CASE RouteDialogue
  BY <1>24 DEF RouteDialogue, Stream
<1>25. CASE ReplySaid
  BY <1>25 DEF ReplySaid, Listen, StreamEnds
<1>26. CASE WrapUpReplySaid
  BY <1>26 DEF WrapUpReplySaid, StreamEnds, EvaluateWrapUp, Say, Listen
<1>27. CASE WrapUpVerdict
  BY <1>27 DEF WrapUpVerdict, End, EvaluateWrapUp, Say, Listen
<1>28. CASE LastWordsSaid
  BY <1>28 DEF LastWordsSaid, End, Played, Cut
<1>29. CASE HandoffSaid
  BY <1>29 DEF HandoffSaid, Played, Cut
<1>30. CASE HandoffEnds
  BY <1>30 DEF HandoffEnds, End
<1>31. CASE AudioOut
  BY <1>31 DEF AudioOut
<1>32. CASE NextSentence
  BY <1>32 DEF NextSentence
<1>33. CASE SentencePlayed
  BY <1>33 DEF SentencePlayed, Played
<1>34. CASE BargeIn
  BY <1>34 DEF BargeIn, Listen, Cut
<1>35. CASE EngineError
  BY <1>35 DEF EngineError, End
<1>36. CASE UNCHANGED vars
  BY <1>36 DEF vars
<1>37. CASE AsrGet
  BY <1>37 DEF AsrGet
<1>38. CASE SilenceElapses
  BY <1>38 DEF SilenceElapses
<1>39. QED
  BY <1>1, <1>2, <1>3, <1>4, <1>5, <1>6, <1>7, <1>8, <1>9, <1>10, <1>11, <1>12, <1>13,
     <1>14, <1>15, <1>16, <1>17, <1>18, <1>19, <1>20, <1>21, <1>22, <1>23, <1>24, <1>25,
     <1>26, <1>27, <1>28, <1>29, <1>30, <1>31, <1>32, <1>33, <1>34, <1>35, <1>36, <1>37, <1>38, Zenon
  DEF Next, Customer, Main, ListenStep, TurnStep, PlayStep

\* No step goes past the restructure cap.
LEMMA CapPreserved ==
  ASSUME TypeOK, Phases, CapInv, [Next]_vars
  PROVE  CapInv'
<1>a. restructures \in Nat /\ MaxRestructures \in Nat
  BY LoopAssumption DEF TypeOK
<1> USE <1>a DEF CapInv, RestructureCap, counterVars, sayVars
<1>1. CASE Utter
  BY <1>1 DEF Utter
<1>2. CASE AsrFinal
  BY <1>2 DEF AsrFinal
<1>3. CASE HangupDetected
  BY <1>3 DEF HangupDetected
<1>4. CASE Partial
  BY <1>4 DEF Partial, InProcessingTurn, SpeakingTask
<1>5. CASE GreetingDone
  BY <1>5 DEF GreetingDone, Listen
<1>6. CASE RemoteHangup
  BY <1>6 DEF RemoteHangup, End
<1>7. CASE SilenceTimeout
  BY <1>7 DEF SilenceTimeout, Say, End
<1>8. CASE ActivationSaid
  BY <1>8 DEF ActivationSaid, Listen, Cut
<1>9. CASE FinalWakes
  BY <1>9 DEF FinalWakes
<1>10. CASE IgnoreFinals
  BY <1>10 DEF IgnoreFinals, Listen
<1>11. CASE CheapTransfer
  BY <1>11 DEF CheapTransfer, Handoff, Say
<1>12. CASE ListenOnlyCue
  BY <1>12 DEF ListenOnlyCue, Say
<1>13. CASE CueSaid
  BY <1>13 DEF CueSaid, Listen
<1>14. CASE BeginTurn
  BY <1>14 DEF BeginTurn, Stream
<1>15. CASE ThinkingAbort
  BY <1>15 DEF ThinkingAbort, Listen
<1>16. CASE GateResolves
  BY <1>16 DEF GateResolves
<1>17. CASE DetectorTransfers
  BY <1>17 DEF DetectorTransfers, Handoff, Say
<1>18. CASE RouteHangup
  BY <1>18 DEF RouteHangup, Say, End
<1>19. CASE RouteTransfer
  BY <1>19 DEF RouteTransfer, Handoff, Say
<1>20. CASE RouteRestructureCapped
  BY <1>20 DEF RouteRestructureCapped, Say, Listen
<1>21. CASE DefaultReplySaid
  BY <1>21 DEF DefaultReplySaid, Listen, Cut
<1>22. CASE RouteRestructure
  BY <1>22 DEF RouteRestructure, Stream
<1>23. CASE RestructureSaid
  BY <1>23 DEF RestructureSaid, Listen, StreamEnds
<1>24. CASE RouteDialogue
  BY <1>24 DEF RouteDialogue, Stream
<1>25. CASE ReplySaid
  BY <1>25 DEF ReplySaid, Listen, StreamEnds
<1>26. CASE WrapUpReplySaid
  BY <1>26 DEF WrapUpReplySaid, StreamEnds, EvaluateWrapUp, Say, Listen
<1>27. CASE WrapUpVerdict
  BY <1>27 DEF WrapUpVerdict, End, EvaluateWrapUp, Say, Listen
<1>28. CASE LastWordsSaid
  BY <1>28 DEF LastWordsSaid, End, Cut
<1>29. CASE HandoffSaid
  BY <1>29 DEF HandoffSaid, Cut
<1>30. CASE HandoffEnds
  BY <1>30 DEF HandoffEnds, End
<1>31. CASE AudioOut
  BY <1>31 DEF AudioOut
<1>32. CASE NextSentence
  BY <1>32 DEF NextSentence
<1>33. CASE SentencePlayed
  BY <1>33 DEF SentencePlayed
<1>34. CASE BargeIn
  BY <1>34 DEF BargeIn, Listen, Cut
<1>35. CASE EngineError
  BY <1>35 DEF EngineError, End
<1>36. CASE UNCHANGED vars
  BY <1>36 DEF vars
<1>37. CASE AsrGet
  BY <1>37 DEF AsrGet
<1>38. CASE SilenceElapses
  BY <1>38 DEF SilenceElapses
<1>39. QED
  BY <1>1, <1>2, <1>3, <1>4, <1>5, <1>6, <1>7, <1>8, <1>9, <1>10, <1>11, <1>12, <1>13,
     <1>14, <1>15, <1>16, <1>17, <1>18, <1>19, <1>20, <1>21, <1>22, <1>23, <1>24, <1>25,
     <1>26, <1>27, <1>28, <1>29, <1>30, <1>31, <1>32, <1>33, <1>34, <1>35, <1>36, <1>37, <1>38
  DEF Next, Customer, Main, ListenStep, TurnStep, PlayStep

\* No step begins a turn after the last wrap-up round.
LEMMA WrapUpPreserved ==
  ASSUME TypeOK, Phases, WrapUpBounded, [Next]_vars
  PROVE  WrapUpBounded'
<1>a. rounds \in Nat /\ MaxRounds \in Nat \ {0}
  BY LoopAssumption DEF TypeOK
<1>b. SpeechMatchesPc
  BY DEF Phases
<1> USE <1>a, <1>b DEF SpeechMatchesPc, WrapUpBounded, counterVars, sayVars
<1>1. CASE Utter
  BY <1>1 DEF Utter
<1>2. CASE AsrFinal
  BY <1>2 DEF AsrFinal
<1>3. CASE HangupDetected
  BY <1>3 DEF HangupDetected
<1>4. CASE Partial
  BY <1>4 DEF Partial, InProcessingTurn, SpeakingTask
<1>5. CASE GreetingDone
  BY <1>5 DEF GreetingDone, Listen
<1>6. CASE RemoteHangup
  BY <1>6 DEF RemoteHangup, End
<1>7. CASE SilenceTimeout
  BY <1>7 DEF SilenceTimeout, Say, End
<1>8. CASE ActivationSaid
  BY <1>8 DEF ActivationSaid, Listen, Played, Cut
<1>9. CASE FinalWakes
  BY <1>9 DEF FinalWakes
<1>10. CASE IgnoreFinals
  BY <1>10 DEF IgnoreFinals, Listen, TakeFinals
<1>11. CASE CheapTransfer
  BY <1>11 DEF CheapTransfer, TakeFinals, Handoff, Say
<1>12. CASE ListenOnlyCue
  BY <1>12 DEF ListenOnlyCue, Say, TakeFinals
<1>13. CASE CueSaid
  BY <1>13 DEF CueSaid, Listen, Played
<1>14. CASE BeginTurn
  BY <1>14 DEF BeginTurn, Stream, TakeFinals
<1>15. CASE ThinkingAbort
  BY <1>15 DEF ThinkingAbort, Listen, Aged
<1>16. CASE GateResolves
  BY <1>16 DEF GateResolves, Selected, RemainderAfter
<1>17. CASE DetectorTransfers
  BY <1>17 DEF DetectorTransfers, Handoff, Say
<1>18. CASE RouteHangup
  BY <1>18 DEF RouteHangup, Say, End
<1>19. CASE RouteTransfer
  BY <1>19 DEF RouteTransfer, Handoff, Say
<1>20. CASE RouteRestructureCapped
  BY <1>20 DEF RouteRestructureCapped, Say, Listen, Aged
<1>21. CASE DefaultReplySaid
  BY <1>21 DEF DefaultReplySaid, Listen, Played, Cut
<1>22. CASE RouteRestructure
  BY <1>22 DEF RouteRestructure, Stream
<1>23. CASE RestructureSaid
  BY <1>23 DEF RestructureSaid, Listen, StreamEnds
<1>24. CASE RouteDialogue
  BY <1>24 DEF RouteDialogue, Stream
<1>25. CASE ReplySaid
  BY <1>25 DEF ReplySaid, Listen, StreamEnds
<1>26. CASE WrapUpReplySaid
  BY <1>26 DEF WrapUpReplySaid, StreamEnds, EvaluateWrapUp, Say, Listen
<1>27. CASE WrapUpVerdict
  BY <1>27 DEF WrapUpVerdict, End, EvaluateWrapUp, Say, Listen
<1>28. CASE LastWordsSaid
  BY <1>28 DEF LastWordsSaid, End, Played, Cut
<1>29. CASE HandoffSaid
  BY <1>29 DEF HandoffSaid, Played, Cut
<1>30. CASE HandoffEnds
  BY <1>30 DEF HandoffEnds, End
<1>31. CASE AudioOut
  BY <1>31 DEF AudioOut
<1>32. CASE NextSentence
  BY <1>32 DEF NextSentence, Replies
<1>33. CASE SentencePlayed
  BY <1>33 DEF SentencePlayed, Played, Replies
<1>34. CASE BargeIn
  BY <1>34 DEF BargeIn, Listen, Cut, Replies
<1>35. CASE EngineError
  BY <1>35 DEF EngineError, End
<1>36. CASE UNCHANGED vars
  BY <1>36 DEF vars
<1>37. CASE AsrGet
  BY <1>37 DEF AsrGet
<1>38. CASE SilenceElapses
  BY <1>38 DEF SilenceElapses
<1>39. QED
  BY <1>1, <1>2, <1>3, <1>4, <1>5, <1>6, <1>7, <1>8, <1>9, <1>10, <1>11, <1>12, <1>13,
     <1>14, <1>15, <1>16, <1>17, <1>18, <1>19, <1>20, <1>21, <1>22, <1>23, <1>24, <1>25,
     <1>26, <1>27, <1>28, <1>29, <1>30, <1>31, <1>32, <1>33, <1>34, <1>35, <1>36, <1>37, <1>38
  DEF Next, Customer, Main, ListenStep, TurnStep, PlayStep

\* No step goes past the top of the silence ladder.
LEMMA LadderPreserved ==
  ASSUME TypeOK, Phases, LadderBounded, [Next]_vars
  PROVE  LadderBounded'
<1>a. silences \in Nat /\ MaxActivations \in Nat
  BY LoopAssumption DEF TypeOK
<1>b. SpeechMatchesPc
  BY DEF Phases
<1> USE <1>a, <1>b DEF SpeechMatchesPc, LadderBounded, counterVars, sayVars
<1>1. CASE Utter
  BY <1>1 DEF Utter
<1>2. CASE AsrFinal
  BY <1>2 DEF AsrFinal
<1>3. CASE HangupDetected
  BY <1>3 DEF HangupDetected
<1>4. CASE Partial
  BY <1>4 DEF Partial, InProcessingTurn, SpeakingTask
<1>5. CASE GreetingDone
  BY <1>5 DEF GreetingDone, Listen
<1>6. CASE RemoteHangup
  BY <1>6 DEF RemoteHangup, End
<1>7. CASE SilenceTimeout
  BY <1>7 DEF SilenceTimeout, Say, End
<1>8. CASE ActivationSaid
  BY <1>8 DEF ActivationSaid, Listen, Played, Cut
<1>9. CASE FinalWakes
  BY <1>9 DEF FinalWakes
<1>10. CASE IgnoreFinals
  BY <1>10 DEF IgnoreFinals, Listen, TakeFinals
<1>11. CASE CheapTransfer
  BY <1>11 DEF CheapTransfer, TakeFinals, Handoff, Say
<1>12. CASE ListenOnlyCue
  BY <1>12 DEF ListenOnlyCue, Say, TakeFinals
<1>13. CASE CueSaid
  BY <1>13 DEF CueSaid, Listen, Played
<1>14. CASE BeginTurn
  BY <1>14 DEF BeginTurn, Stream, TakeFinals
<1>15. CASE ThinkingAbort
  BY <1>15 DEF ThinkingAbort, Listen, Aged
<1>16. CASE GateResolves
  BY <1>16 DEF GateResolves, Selected, RemainderAfter
<1>17. CASE DetectorTransfers
  BY <1>17 DEF DetectorTransfers, Handoff, Say
<1>18. CASE RouteHangup
  BY <1>18 DEF RouteHangup, Say, End
<1>19. CASE RouteTransfer
  BY <1>19 DEF RouteTransfer, Handoff, Say
<1>20. CASE RouteRestructureCapped
  BY <1>20 DEF RouteRestructureCapped, Say, Listen, Aged
<1>21. CASE DefaultReplySaid
  BY <1>21 DEF DefaultReplySaid, Listen, Played, Cut
<1>22. CASE RouteRestructure
  BY <1>22 DEF RouteRestructure, Stream
<1>23. CASE RestructureSaid
  BY <1>23 DEF RestructureSaid, Listen, StreamEnds
<1>24. CASE RouteDialogue
  BY <1>24 DEF RouteDialogue, Stream
<1>25. CASE ReplySaid
  BY <1>25 DEF ReplySaid, Listen, StreamEnds
<1>26. CASE WrapUpReplySaid
  BY <1>26 DEF WrapUpReplySaid, StreamEnds, EvaluateWrapUp, Say, Listen
<1>27. CASE WrapUpVerdict
  BY <1>27 DEF WrapUpVerdict, End, EvaluateWrapUp, Say, Listen
<1>28. CASE LastWordsSaid
  BY <1>28 DEF LastWordsSaid, End, Played, Cut
<1>29. CASE HandoffSaid
  BY <1>29 DEF HandoffSaid, Played, Cut
<1>30. CASE HandoffEnds
  BY <1>30 DEF HandoffEnds, End
<1>31. CASE AudioOut
  BY <1>31 DEF AudioOut
<1>32. CASE NextSentence
  BY <1>32 DEF NextSentence, Replies
<1>33. CASE SentencePlayed
  BY <1>33 DEF SentencePlayed, Played, Replies
<1>34. CASE BargeIn
  BY <1>34 DEF BargeIn, Listen, Cut, Replies
<1>35. CASE EngineError
  BY <1>35 DEF EngineError, End
<1>36. CASE UNCHANGED vars
  BY <1>36 DEF vars
<1>37. CASE AsrGet
  BY <1>37 DEF AsrGet
<1>38. CASE SilenceElapses
  BY <1>38 DEF SilenceElapses
<1>39. QED
  BY <1>1, <1>2, <1>3, <1>4, <1>5, <1>6, <1>7, <1>8, <1>9, <1>10, <1>11, <1>12, <1>13,
     <1>14, <1>15, <1>16, <1>17, <1>18, <1>19, <1>20, <1>21, <1>22, <1>23, <1>24, <1>25,
     <1>26, <1>27, <1>28, <1>29, <1>30, <1>31, <1>32, <1>33, <1>34, <1>35, <1>36, <1>37, <1>38
  DEF Next, Customer, Main, ListenStep, TurnStep, PlayStep

\* Every step keeps the queue's books.
LEMMA FinalsPreserved ==
  ASSUME TypeOK, FinalsInv, [Next]_vars
  PROVE  FinalsInv'
<1> USE DEF TypeOK, FinalsInv, NoFinalLost, Eras, sayVars, customerVars, historyVars
<1>1. CASE Utter
  BY <1>1 DEF Utter
<1>2. CASE AsrFinal
  BY <1>2 DEF AsrFinal
<1>3. CASE HangupDetected
  BY <1>3 DEF HangupDetected
<1>4. CASE Partial
  BY <1>4 DEF Partial, InProcessingTurn, SpeakingTask
<1>5. CASE GreetingDone
  BY <1>5 DEF GreetingDone, Listen
<1>6. CASE RemoteHangup
  BY <1>6 DEF RemoteHangup, End
<1>7. CASE SilenceTimeout
  BY <1>7 DEF SilenceTimeout, Say, End
<1>8. CASE ActivationSaid
  BY <1>8 DEF ActivationSaid, Listen, Played, Cut
<1>9. CASE FinalWakes
  BY <1>9 DEF FinalWakes
<1>10. CASE IgnoreFinals
  BY <1>10 DEF IgnoreFinals, Listen, TakeFinals
<1>11. CASE CheapTransfer
  BY <1>11 DEF CheapTransfer, TakeFinals, Handoff, Say
<1>12. CASE ListenOnlyCue
  BY <1>12 DEF ListenOnlyCue, Say, TakeFinals
<1>13. CASE CueSaid
  BY <1>13 DEF CueSaid, Listen, Played
<1>14. CASE BeginTurn
  BY <1>14 DEF BeginTurn, Stream, TakeFinals
<1>15. CASE ThinkingAbort
  BY <1>15 DEF ThinkingAbort, Listen
<1>16. CASE GateResolves
  BY <1>16 DEF GateResolves
<1>17. CASE DetectorTransfers
  BY <1>17 DEF DetectorTransfers, Handoff, Say
<1>18. CASE RouteHangup
  BY <1>18 DEF RouteHangup, Say, End
<1>19. CASE RouteTransfer
  BY <1>19 DEF RouteTransfer, Handoff, Say
<1>20. CASE RouteRestructureCapped
  BY <1>20 DEF RouteRestructureCapped, Say, Listen
<1>21. CASE DefaultReplySaid
  BY <1>21 DEF DefaultReplySaid, Listen, Played, Cut
<1>22. CASE RouteRestructure
  BY <1>22 DEF RouteRestructure, Stream
<1>23. CASE RestructureSaid
  BY <1>23 DEF RestructureSaid, Listen, StreamEnds
<1>24. CASE RouteDialogue
  BY <1>24 DEF RouteDialogue, Stream
<1>25. CASE ReplySaid
  BY <1>25 DEF ReplySaid, Listen, StreamEnds
<1>26. CASE WrapUpReplySaid
  BY <1>26 DEF WrapUpReplySaid, StreamEnds, EvaluateWrapUp, Say, Listen
<1>27. CASE WrapUpVerdict
  BY <1>27 DEF WrapUpVerdict, End, EvaluateWrapUp, Say, Listen
<1>28. CASE LastWordsSaid
  BY <1>28 DEF LastWordsSaid, End, Played, Cut
<1>29. CASE HandoffSaid
  BY <1>29 DEF HandoffSaid, Played, Cut
<1>30. CASE HandoffEnds
  BY <1>30 DEF HandoffEnds, End
<1>31. CASE AudioOut
  BY <1>31 DEF AudioOut
<1>32. CASE NextSentence
  BY <1>32 DEF NextSentence
<1>33. CASE SentencePlayed
  BY <1>33 DEF SentencePlayed, Played
<1>34. CASE BargeIn
  BY <1>34 DEF BargeIn, Listen, Cut
<1>35. CASE EngineError
  BY <1>35 DEF EngineError, End
<1>36. CASE UNCHANGED vars
  BY <1>36 DEF vars
<1>37. CASE AsrGet
  BY <1>37 DEF AsrGet
<1>38. CASE SilenceElapses
  BY <1>38 DEF SilenceElapses
<1>39. QED
  BY <1>1, <1>2, <1>3, <1>4, <1>5, <1>6, <1>7, <1>8, <1>9, <1>10, <1>11, <1>12, <1>13,
      <1>14, <1>15, <1>16, <1>17, <1>18, <1>19, <1>20, <1>21, <1>22, <1>23, <1>24,
      <1>25, <1>26, <1>27, <1>28, <1>29, <1>30, <1>31, <1>32, <1>33, <1>34, <1>35,
      <1>36, <1>37, <1>38, Zenon
  DEF Next, Customer, Main, ListenStep, TurnStep, PlayStep

\* No step cuts the cue.
LEMMA CuePreserved ==
  ASSUME TypeOK, CueNeverCut, [Next]_vars
  PROVE  CueNeverCut'
<1> USE DEF CueNeverCut, sayVars
<1>1. CASE Utter
  BY <1>1 DEF Utter
<1>2. CASE AsrFinal
  BY <1>2 DEF AsrFinal
<1>3. CASE HangupDetected
  BY <1>3 DEF HangupDetected
<1>4. CASE Partial
  BY <1>4 DEF Partial, InProcessingTurn, SpeakingTask
<1>5. CASE GreetingDone
  BY <1>5 DEF GreetingDone, Listen
<1>6. CASE RemoteHangup
  BY <1>6 DEF RemoteHangup, End
<1>7. CASE SilenceTimeout
  BY <1>7 DEF SilenceTimeout, Say, End
<1>8. CASE ActivationSaid
  BY <1>8 DEF ActivationSaid, Listen, Played, Cut
<1>9. CASE FinalWakes
  BY <1>9 DEF FinalWakes
<1>10. CASE IgnoreFinals
  BY <1>10 DEF IgnoreFinals, Listen
<1>11. CASE CheapTransfer
  BY <1>11 DEF CheapTransfer, Handoff, Say
<1>12. CASE ListenOnlyCue
  BY <1>12 DEF ListenOnlyCue, Say
<1>13. CASE CueSaid
  BY <1>13 DEF CueSaid, Listen, Played
<1>14. CASE BeginTurn
  BY <1>14 DEF BeginTurn, Stream
<1>15. CASE ThinkingAbort
  BY <1>15 DEF ThinkingAbort, Listen
<1>16. CASE GateResolves
  BY <1>16 DEF GateResolves
<1>17. CASE DetectorTransfers
  BY <1>17 DEF DetectorTransfers, Handoff, Say
<1>18. CASE RouteHangup
  BY <1>18 DEF RouteHangup, Say, End
<1>19. CASE RouteTransfer
  BY <1>19 DEF RouteTransfer, Handoff, Say
<1>20. CASE RouteRestructureCapped
  BY <1>20 DEF RouteRestructureCapped, Say, Listen
<1>21. CASE DefaultReplySaid
  BY <1>21 DEF DefaultReplySaid, Listen, Played, Cut
<1>22. CASE RouteRestructure
  BY <1>22 DEF RouteRestructure, Stream
<1>23. CASE RestructureSaid
  BY <1>23 DEF RestructureSaid, Listen, StreamEnds
<1>24. CASE RouteDialogue
  BY <1>24 DEF RouteDialogue, Stream
<1>25. CASE ReplySaid
  BY <1>25 DEF ReplySaid, Listen, StreamEnds
<1>26. CASE WrapUpReplySaid
  BY <1>26 DEF WrapUpReplySaid, StreamEnds, EvaluateWrapUp, Say, Listen
<1>27. CASE WrapUpVerdict
  BY <1>27 DEF WrapUpVerdict, End, EvaluateWrapUp, Say, Listen
<1>28. CASE LastWordsSaid
  BY <1>28 DEF LastWordsSaid, End, Played, Cut
<1>29. CASE HandoffSaid
  BY <1>29 DEF HandoffSaid, Played, Cut
<1>30. CASE HandoffEnds
  BY <1>30 DEF HandoffEnds, End
<1>31. CASE AudioOut
  BY <1>31 DEF AudioOut
<1>32. CASE NextSentence
  BY <1>32 DEF NextSentence
<1>33. CASE SentencePlayed
  BY <1>33 DEF SentencePlayed, Played
<1>34. CASE BargeIn
  BY <1>34 DEF BargeIn, Listen, Cut
<1>35. CASE EngineError
  BY <1>35 DEF EngineError, End
<1>36. CASE UNCHANGED vars
  BY <1>36 DEF vars
<1>37. CASE AsrGet
  BY <1>37 DEF AsrGet
<1>38. CASE SilenceElapses
  BY <1>38 DEF SilenceElapses
<1>39. QED
  BY <1>1, <1>2, <1>3, <1>4, <1>5, <1>6, <1>7, <1>8, <1>9, <1>10, <1>11, <1>12, <1>13,
     <1>14, <1>15, <1>16, <1>17, <1>18, <1>19, <1>20, <1>21, <1>22, <1>23, <1>24, <1>25,
     <1>26, <1>27, <1>28, <1>29, <1>30, <1>31, <1>32, <1>33, <1>34, <1>35, <1>36, <1>37, <1>38
  DEF Next, Customer, Main, ListenStep, TurnStep, PlayStep

\* No step answers a second round after the hangup.
LEMMA LatePreserved ==
  ASSUME TypeOK, LateInv, [Next]_vars
  PROVE  LateInv'
<1> USE DEF LateInv, sayVars, customerVars, historyVars
<1>1. CASE Utter
  BY <1>1 DEF Utter
<1>2. CASE AsrFinal
  BY <1>2 DEF AsrFinal
<1>3. CASE HangupDetected
  BY <1>3 DEF HangupDetected
<1>4. CASE Partial
  BY <1>4 DEF Partial, InProcessingTurn, SpeakingTask
<1>5. CASE GreetingDone
  BY <1>5 DEF GreetingDone, Listen
<1>6. CASE RemoteHangup
  BY <1>6 DEF RemoteHangup, End
<1>7. CASE SilenceTimeout
  BY <1>7 DEF SilenceTimeout, Answer, Say, End
<1>8. CASE ActivationSaid
  BY <1>8 DEF ActivationSaid, Listen, Played, Cut
<1>9. CASE FinalWakes
  BY <1>9 DEF FinalWakes
<1>10. CASE IgnoreFinals
  BY <1>10 DEF IgnoreFinals, Listen, TakeFinals, Answer
<1>11. CASE CheapTransfer
  BY <1>11 DEF CheapTransfer, TakeFinals, Answer, Handoff, Say
<1>12. CASE ListenOnlyCue
  BY <1>12 DEF ListenOnlyCue, Say, TakeFinals, Answer
<1>13. CASE CueSaid
  BY <1>13 DEF CueSaid, Listen, Played
<1>14. CASE BeginTurn
  BY <1>14 DEF BeginTurn, Stream, TakeFinals, Answer
<1>15. CASE ThinkingAbort
  BY <1>15 DEF ThinkingAbort, Listen
<1>16. CASE GateResolves
  BY <1>16 DEF GateResolves
<1>17. CASE DetectorTransfers
  BY <1>17 DEF DetectorTransfers, Handoff, Say
<1>18. CASE RouteHangup
  BY <1>18 DEF RouteHangup, Say, End
<1>19. CASE RouteTransfer
  BY <1>19 DEF RouteTransfer, Handoff, Say
<1>20. CASE RouteRestructureCapped
  BY <1>20 DEF RouteRestructureCapped, Say, Listen
<1>21. CASE DefaultReplySaid
  BY <1>21 DEF DefaultReplySaid, Listen, Played, Cut
<1>22. CASE RouteRestructure
  BY <1>22 DEF RouteRestructure, Stream
<1>23. CASE RestructureSaid
  BY <1>23 DEF RestructureSaid, Listen, StreamEnds
<1>24. CASE RouteDialogue
  BY <1>24 DEF RouteDialogue, Stream
<1>25. CASE ReplySaid
  BY <1>25 DEF ReplySaid, Listen, StreamEnds
<1>26. CASE WrapUpReplySaid
  BY <1>26 DEF WrapUpReplySaid, StreamEnds, EvaluateWrapUp, Say, Listen
<1>27. CASE WrapUpVerdict
  BY <1>27 DEF WrapUpVerdict, End, EvaluateWrapUp, Say, Listen
<1>28. CASE LastWordsSaid
  BY <1>28 DEF LastWordsSaid, End, Played, Cut
<1>29. CASE HandoffSaid
  BY <1>29 DEF HandoffSaid, Played, Cut
<1>30. CASE HandoffEnds
  BY <1>30 DEF HandoffEnds, End
<1>31. CASE AudioOut
  BY <1>31 DEF AudioOut
<1>32. CASE NextSentence
  BY <1>32 DEF NextSentence
<1>33. CASE SentencePlayed
  BY <1>33 DEF SentencePlayed, Played
<1>34. CASE BargeIn
  BY <1>34 DEF BargeIn, Listen, Cut
<1>35. CASE EngineError
  BY <1>35 DEF EngineError, End
<1>36. CASE UNCHANGED vars
  BY <1>36 DEF vars
<1>37. CASE AsrGet
  BY <1>37 DEF AsrGet
<1>38. CASE SilenceElapses
  BY <1>38 DEF SilenceElapses
<1>39. QED
  BY <1>1, <1>2, <1>3, <1>4, <1>5, <1>6, <1>7, <1>8, <1>9, <1>10, <1>11, <1>12, <1>13,
     <1>14, <1>15, <1>16, <1>17, <1>18, <1>19, <1>20, <1>21, <1>22, <1>23, <1>24, <1>25,
     <1>26, <1>27, <1>28, <1>29, <1>30, <1>31, <1>32, <1>33, <1>34, <1>35, <1>36, <1>37, <1>38, Zenon
  DEF Next, Customer, Main, ListenStep, TurnStep, PlayStep

-----------------------------------------------------------------------------
\* The conversation starts in the invariant.
LEMMA InitIInv == Init => IInv
<1> SUFFICES ASSUME Init PROVE IInv
  OBVIOUS
<1>1. TypeOK
  BY Zenon DEF Init, TypeOK
<1>2. Phases
  BY DEF Init, Phases, SpeechMatchesPc, StateMatchesPc
<1>3. CapInv
  BY LoopAssumption DEF Init, CapInv, RestructureCap
<1>4. WrapUpBounded
  BY LoopAssumption DEF Init, WrapUpBounded
<1>5. LadderBounded
  BY LoopAssumption DEF Init, LadderBounded
<1>6. FinalsInv
  BY DEF Init, FinalsInv, NoFinalLost, Eras
<1>7. CueNeverCut
  BY DEF Init, CueNeverCut
<1>8. LateInv
  BY DEF Init, LateInv
<1>9. QED
  BY <1>1, <1>2, <1>3, <1>4, <1>5, <1>6, <1>7, <1>8 DEF IInv

\* Every reachable state satisfies the invariant.
THEOREM Invariance == Spec => []IInv
<1>1. Init => IInv
  BY InitIInv
<1>2. IInv /\ [Next]_vars => IInv'
  BY TypePreserved, PhasesPreserved, CapPreserved, WrapUpPreserved, LadderPreserved,
     FinalsPreserved, CuePreserved, LatePreserved
  DEF IInv
<1>3. QED
  BY <1>1, <1>2, PTL DEF Spec

\* Type correctness of the conversation, for every configuration.
THEOREM TypeCorrect == Spec => []TypeOK
<1>1. IInv => TypeOK
  BY DEF IInv
<1>2. QED
  BY <1>1, Invariance, PTL

\* The restructure cap of _run_gated_turn holds, barge-ins on a restructured
\* line included.
THEOREM Capped == Spec => []RestructureCap
<1>1. IInv => RestructureCap
  BY DEF IInv, CapInv
<1>2. QED
  BY <1>1, Invariance, PTL

\* Wrap-up is bounded by max_rounds: no turn begins after the last round.
THEOREM WrapUpEnds == Spec => []WrapUpBounded
<1>1. IInv => WrapUpBounded
  BY DEF IInv
<1>2. QED
  BY <1>1, Invariance, PTL

\* The silence ladder is bounded by max_activations over the whole call.
THEOREM LadderEnds == Spec => []LadderBounded
<1>1. IInv => LadderBounded
  BY DEF IInv
<1>2. QED
  BY <1>1, Invariance, PTL

\* Restructured lines, wrap-up rounds and silence activations are bounded over
\* the whole call, in every configuration.
THEOREM ConversationEnds == Spec => []ConversationBounded
<1>1. RestructureCap /\ WrapUpBounded /\ LadderBounded => ConversationBounded
  BY DEF ConversationBounded
<1>2. QED
  BY <1>1, Capped, WrapUpEnds, LadderEnds, PTL

\* Every final put into asr_finals_q after the greeting is taken by the main
\* loop or still in the queue, as long as the call goes on.
THEOREM FinalsKept == Spec => []NoFinalLost
<1>1. IInv => NoFinalLost
  BY DEF IInv, FinalsInv
<1>2. QED
  BY <1>1, Invariance, PTL

\* The protection cue is never cut by the partial monitor.
THEOREM CueKept == Spec => []CueNeverCut
<1>1. IInv => CueNeverCut
  BY DEF IInv
<1>2. QED
  BY <1>1, Invariance, PTL

-----------------------------------------------------------------------------
\* One step of the loop moves the call state along LEGAL_TRANSITIONS.
LEMMA StepLegal ==
  ASSUME IInv, [Next]_vars
  PROVE  [Lifecycle!transition_to]_fsm
<1> USE DEF IInv, TypeOK, Phases, SpeechMatchesPc, StateMatchesPc, sayVars, signalVars,
        customerVars, counterVars, Lifecycle!transition_to, Lifecycle!States,
        Lifecycle!LEGAL_TRANSITIONS
<1>1. CASE Utter
  BY <1>1 DEF Utter
<1>2. CASE AsrFinal
  BY <1>2 DEF AsrFinal
<1>3. CASE HangupDetected
  BY <1>3 DEF HangupDetected
<1>4. CASE Partial
  BY <1>4 DEF Partial, InProcessingTurn, SpeakingTask
<1>5. CASE GreetingDone
  BY <1>5 DEF GreetingDone, Listen
<1>6. CASE RemoteHangup
  BY <1>6 DEF RemoteHangup, End
<1>7. CASE SilenceTimeout
  BY <1>7 DEF SilenceTimeout, Say, End
<1>8. CASE ActivationSaid
  BY <1>8 DEF ActivationSaid, Listen, Played, Cut
<1>9. CASE FinalWakes
  BY <1>9 DEF FinalWakes
<1>10. CASE IgnoreFinals
  BY <1>10 DEF IgnoreFinals, Listen, TakeFinals
<1>11. CASE CheapTransfer
  BY <1>11 DEF CheapTransfer, TakeFinals, Handoff, Say
<1>12. CASE ListenOnlyCue
  BY <1>12 DEF ListenOnlyCue, Say, TakeFinals
<1>13. CASE CueSaid
  BY <1>13 DEF CueSaid, Listen, Played
<1>14. CASE BeginTurn
  BY <1>14 DEF BeginTurn, Stream, TakeFinals
<1>15. CASE ThinkingAbort
  BY <1>15 DEF ThinkingAbort, Listen, Aged
<1>16. CASE GateResolves
  BY <1>16 DEF GateResolves, Selected, RemainderAfter
<1>17. CASE DetectorTransfers
  BY <1>17 DEF DetectorTransfers, Handoff, Say
<1>18. CASE RouteHangup
  BY <1>18 DEF RouteHangup, Say, End
<1>19. CASE RouteTransfer
  BY <1>19 DEF RouteTransfer, Handoff, Say
<1>20. CASE RouteRestructureCapped
  BY <1>20 DEF RouteRestructureCapped, Say, Listen, Aged
<1>21. CASE DefaultReplySaid
  BY <1>21 DEF DefaultReplySaid, Listen, Played, Cut
<1>22. CASE RouteRestructure
  BY <1>22 DEF RouteRestructure, Stream
<1>23. CASE RestructureSaid
  BY <1>23 DEF RestructureSaid, Listen, StreamEnds
<1>24. CASE RouteDialogue
  BY <1>24 DEF RouteDialogue, Stream
<1>25. CASE ReplySaid
  BY <1>25 DEF ReplySaid, Listen, StreamEnds
<1>26. CASE WrapUpReplySaid
  BY <1>26 DEF WrapUpReplySaid, StreamEnds, EvaluateWrapUp, Say, Listen
<1>27. CASE WrapUpVerdict
  BY <1>27 DEF WrapUpVerdict, End, EvaluateWrapUp, Say, Listen
<1>28. CASE LastWordsSaid
  BY <1>28 DEF LastWordsSaid, End, Played, Cut
<1>29. CASE HandoffSaid
  BY <1>29 DEF HandoffSaid, Played, Cut
<1>30. CASE HandoffEnds
  BY <1>30 DEF HandoffEnds, End
<1>31. CASE AudioOut
  BY <1>31 DEF AudioOut
<1>32. CASE NextSentence
  BY <1>32 DEF NextSentence
<1>33. CASE SentencePlayed
  BY <1>33 DEF SentencePlayed, Played
<1>34. CASE BargeIn
  BY <1>34 DEF BargeIn, Listen, Cut
<1>35. CASE EngineError
  BY <1>35 DEF EngineError, End
<1>36. CASE UNCHANGED vars
  BY <1>36 DEF vars
<1>37. CASE AsrGet
  BY <1>37 DEF AsrGet
<1>38. CASE SilenceElapses
  BY <1>38 DEF SilenceElapses
<1>39. QED
  BY <1>1, <1>2, <1>3, <1>4, <1>5, <1>6, <1>7, <1>8, <1>9, <1>10, <1>11, <1>12, <1>13,
     <1>14, <1>15, <1>16, <1>17, <1>18, <1>19, <1>20, <1>21, <1>22, <1>23, <1>24, <1>25,
     <1>26, <1>27, <1>28, <1>29, <1>30, <1>31, <1>32, <1>33, <1>34, <1>35, <1>36, <1>37, <1>38
  DEF Next, Customer, Main, ListenStep, TurnStep, PlayStep

\* The conversation implements the lifecycle of state_machine.py: transition_to
\* is never asked for a move outside LEGAL_TRANSITIONS.
THEOREM LifecycleLegal == Spec => LegalLifecycle
<1>1. IInv /\ [Next]_vars => [Lifecycle!transition_to]_fsm
  BY StepLegal
<1>2. QED
  BY <1>1, Invariance, PTL DEF Spec, LegalLifecycle

\* A hangup that the main loop misses in the round it came in, because its event
\* is set after the final or the timer that ended that round, is seen in the next
\* one: at most one round is answered after it, in every configuration.
THEOREM HangupEnds == Spec => []OneRoundAfterHangup
<1>1. IInv => OneRoundAfterHangup
  BY DEF IInv, LateInv, OneRoundAfterHangup
<1>2. QED
  BY <1>1, Invariance, PTL

-----------------------------------------------------------------------------
\* The conversation winds down: every step uses something up, except for the
\* sentences of a reply that is being streamed.

\* Finals that wait in asr_finals_q.
Backlog == finals["greeting"] + finals["call"]

\* A turn begins with something to answer, and the customer's share is bounded.
BudgetInv ==
  /\ spoken <= MaxUtterances
  /\ partials <= MaxPartials
  /\ pc \in {"got", "coalesce"} => Backlog > 0

\* What the customer can still do, and the activations that are left.
Budget ==
  11 * (MaxUtterances - spoken) + (IF uttering = "none" THEN 0 ELSE 10) + 9 * Backlog
    + (IF hungup THEN 0 ELSE 1) + (MaxPartials - partials) + 4 * (MaxActivations - silences)

\* How far main is from the end, if nobody says anything more: main is at p,
\* with s to say and the playback task at t.
StageAt(p, s, t) ==
  LET over == t \in {"finished", "cancelled"}
  IN  IF p = "greeting" THEN 12
      ELSE IF p = "gate" THEN 11
      ELSE IF p = "detect" THEN 10
      ELSE IF s \in Replies THEN 9
      ELSE IF p = "referee" THEN 8
      ELSE IF s \in {"cue", "default_reply"} THEN (IF over THEN 6 ELSE 7)
      ELSE IF p = "listen" THEN 5
      ELSE IF p \in {"got", "elapsed"} THEN 4
      ELSE IF p = "coalesce" THEN 3
      ELSE IF p = "play" THEN (IF over THEN 2 ELSE 3)
      ELSE IF p = "hanging_up" THEN 1
      ELSE 0

Stage == StageAt(pc, speech, task)

Rank == Budget + Stage

\* The sentences of a reply, played one after the other.
SentenceStep == speech \in Replies /\ (AudioOut \/ NextSentence \/ SentencePlayed)

budgetVars == <<spoken, uttering, finals, hungup, partials, silences>>

\* The customer's share is never exceeded.
LEMMA BudgetPreserved ==
  ASSUME TypeOK, BudgetInv, [Next]_vars
  PROVE  BudgetInv'
<1> USE DEF BudgetInv, Backlog
<1>1. CASE Utter
  BY <1>1, LoopAssumption DEF Utter, TypeOK, sayVars, LoopAssumption
<1>2. CASE AsrFinal
  <2>1. finals \in [Eras -> Nat] /\ uttering \in Eras
    BY <1>2 DEF AsrFinal, TypeOK
  <2>2. finals["greeting"] \in Nat /\ finals["call"] \in Nat
    BY <2>1 DEF Eras
  <2>3. finals'["greeting"] >= finals["greeting"] /\ finals'["call"] >= finals["call"]
        /\ finals'["greeting"] \in Nat /\ finals'["call"] \in Nat
    BY <1>2, <2>1, <2>2 DEF AsrFinal, Eras
  <2>4. pc' = pc /\ spoken' = spoken /\ partials' = partials
    BY <1>2 DEF AsrFinal, sayVars
  <2> QED
    BY <2>2, <2>3, <2>4
<1>3. CASE Partial
  BY <1>3, LoopAssumption DEF Partial, TypeOK, LoopAssumption
<1>4. CASE AsrGet
  <2>1. finals \in [Eras -> Nat] /\ \E e \in Eras : finals[e] > 0
    BY <1>4 DEF AsrGet, TypeOK
  <2>2. finals["greeting"] + finals["call"] > 0
    BY <2>1 DEF Eras
  <2>3. finals' = finals /\ spoken' = spoken /\ partials' = partials
    BY <1>4 DEF AsrGet, customerVars
  <2> QED
    BY <2>2, <2>3
<1>5. CASE FinalWakes \/ HangupDetected \/ UNCHANGED vars
  BY <1>5, Zenon DEF FinalWakes, HangupDetected, sayVars, vars, customerVars
<1>6. CASE (ListenStep /\ ~AsrGet /\ ~FinalWakes) \/ TurnStep \/ PlayStep \/ EngineError
  <2>1. pc' \notin {"got", "coalesce"} /\ spoken' = spoken /\ partials' = partials
    <3> USE DEF customerVars, Listen, Say, Stream, End, TakeFinals, Handoff
    <3>1. CASE ListenStep /\ ~AsrGet /\ ~FinalWakes
      BY <3>1, Zenon DEF ListenStep, GreetingDone, RemoteHangup, SilenceElapses, SilenceTimeout,
         ActivationSaid, IgnoreFinals, CheapTransfer, ListenOnlyCue, CueSaid, BeginTurn
    <3>2. CASE TurnStep
      BY <3>2, Zenon DEF TurnStep, ThinkingAbort, GateResolves, DetectorTransfers, RouteHangup,
         RouteTransfer, RouteRestructureCapped, DefaultReplySaid, RouteRestructure,
         RestructureSaid, RouteDialogue, ReplySaid, WrapUpReplySaid, WrapUpVerdict,
         EvaluateWrapUp, LastWordsSaid, HandoffSaid, HandoffEnds
    <3>3. CASE PlayStep \/ EngineError
      BY <3>3 DEF PlayStep, AudioOut, NextSentence, SentencePlayed, BargeIn, EngineError
    <3> QED
      BY <1>6, <3>1, <3>2, <3>3
  <2> QED
    BY <2>1
<1> QED
  BY <1>1, <1>2, <1>3, <1>4, <1>5, <1>6, Zenon DEF Next, Customer, Main, ListenStep

\* The rank is a natural number.
LEMMA RankType ==
  ASSUME IInv, BudgetInv
  PROVE  /\ Budget \in Nat
         /\ Stage \in Nat
         /\ pc # "done" => Stage > 0
<1>1. finals["greeting"] \in Nat /\ finals["call"] \in Nat
  BY DEF IInv, TypeOK, Eras
<1>2. Backlog \in Nat
  BY <1>1 DEF Backlog
<1>3. silences <= MaxActivations /\ silences \in Nat
  BY LoopAssumption DEF IInv, TypeOK, LadderBounded, LoopAssumption
<1>4. spoken \in Nat /\ partials \in Nat /\ spoken <= MaxUtterances /\ partials <= MaxPartials
  BY DEF IInv, TypeOK, BudgetInv
<1>5. MaxUtterances \in Nat /\ MaxPartials \in Nat /\ MaxActivations \in Nat
  BY LoopAssumption, Zenon DEF LoopAssumption
<1>6. Budget \in Nat
  BY <1>2, <1>3, <1>4, <1>5 DEF Budget
<1>7. Stage \in Nat
  BY DEF Stage, StageAt
<1>8. pc # "done" => Stage > 0
  BY DEF Stage, StageAt, IInv, TypeOK, Phases, SpeechMatchesPc, Replies
<1> QED
  BY <1>6, <1>7, <1>8

\* A step that leaves the customer and the activations alone.
LEMMA MainSpends ==
  ASSUME UNCHANGED budgetVars, Budget \in Nat, Stage \in Nat, Stage' \in Nat, Stage' < Stage
  PROVE  Rank' < Rank
<1>1. Budget' = Budget
  BY DEF budgetVars, Budget, Backlog
<1>2. ASSUME NEW b \in Nat, NEW m \in Nat, NEW n \in Nat, n < m PROVE b + n < b + m
  BY <1>2
<1>3. Budget + Stage' < Budget + Stage
  BY <1>2, Zenon
<1> QED
  BY <1>1, <1>3, Zenon DEF Rank

\* The steps of the customer.
LEMMA CustomerSpends ==
  ASSUME IInv, BudgetInv, Customer
  PROVE  Rank' < Rank
<1>1. finals \in [Eras -> Nat] /\ finals["greeting"] \in Nat /\ finals["call"] \in Nat
  BY DEF IInv, TypeOK, Eras
<1>2. spoken \in Nat /\ partials \in Nat /\ silences \in Nat
  BY DEF IInv, TypeOK
<1>3. MaxUtterances \in Nat /\ MaxPartials \in Nat /\ MaxActivations \in Nat
  BY LoopAssumption DEF LoopAssumption
<1>4. Stage \in Nat /\ Stage' \in Nat
  BY DEF Stage, StageAt
<1> HIDE DEF Stage
<1>5. CASE Utter
  <2>1. /\ spoken' = spoken + 1 /\ uttering = "none" /\ uttering' # "none"
        /\ finals' = finals /\ hungup' = hungup /\ partials' = partials /\ silences' = silences
    BY <1>5 DEF Utter, counterVars
  <2>2. Stage' = Stage
    BY <1>5 DEF Utter, sayVars, Stage, StageAt
  <2> QED
    BY <1>1, <1>2, <1>3, <1>4, <2>1, <2>2 DEF Rank, Budget, Backlog
<1>6. CASE AsrFinal
  <2>1. /\ spoken' = spoken /\ uttering # "none" /\ uttering' = "none" /\ uttering \in Eras
        /\ hungup' = hungup /\ partials' = partials /\ silences' = silences
        /\ finals' = [finals EXCEPT ![uttering] = @ + 1]
    BY <1>6 DEF AsrFinal, counterVars, IInv, TypeOK
  <2>2. Backlog' = Backlog + 1 /\ Backlog \in Nat
    BY <1>1, <2>1 DEF Backlog, Eras
  <2>3. Stage' = Stage
    BY <1>6 DEF AsrFinal, sayVars, Stage, StageAt
  <2> QED
    BY <1>2, <1>3, <1>4, <2>1, <2>2, <2>3 DEF Rank, Budget
<1>7. CASE HangupDetected
  <2>1. UNCHANGED <<spoken, uttering, finals, partials, silences>> /\ ~hungup /\ hungup'
    BY <1>7, Zenon DEF HangupDetected, counterVars
  <2>2. Stage' = Stage
    BY <1>7 DEF HangupDetected, sayVars, Stage, StageAt
  <2> QED
    BY <1>1, <1>2, <1>3, <1>4, <2>1, <2>2 DEF Rank, Budget, Backlog
<1>8. CASE Partial
  <2>1. /\ UNCHANGED <<spoken, uttering, finals, hungup, silences>>
        /\ partials' = partials + 1
    BY <1>8 DEF Partial, counterVars
  <2>2. Stage' <= Stage
    <3>1. pc' = pc /\ speech' = speech /\ (task' = task \/ task' = "cancelled")
      BY <1>8 DEF Partial
    <3> QED
      BY <3>1 DEF Stage, StageAt
  <2> QED
    BY <1>1, <1>2, <1>3, <1>4, <2>1, <2>2 DEF Rank, Budget, Backlog
<1> QED
  BY <1>5, <1>6, <1>7, <1>8 DEF Customer

\* Finals that leave the queue.
LEMMA BudgetOfFinals ==
  ASSUME UNCHANGED <<spoken, uttering, hungup, partials, silences>>,
         Backlog \in Nat, Backlog' \in Nat, Budget \in Nat, TypeOK
  PROVE  Budget' = Budget + 9 * (Backlog' - Backlog)
<1>1. spoken \in Nat /\ partials \in Nat /\ silences \in Nat
  BY DEF TypeOK
<1>2. MaxUtterances \in Nat /\ MaxPartials \in Nat /\ MaxActivations \in Nat
  BY LoopAssumption DEF LoopAssumption
<1> QED
  BY <1>1, <1>2 DEF Budget

\* The steps that take finals off the queue: the end of the greeting, a hangup
\* that was heard while listening, and the beginning of a turn.
LEMMA TakingSpends ==
  ASSUME IInv, BudgetInv,
         \/ GreetingDone \/ RemoteHangup
         \/ IgnoreFinals \/ CheapTransfer \/ ListenOnlyCue \/ BeginTurn
  PROVE  Rank' < Rank
<1>1. finals \in [Eras -> Nat] /\ finals["greeting"] \in Nat /\ finals["call"] \in Nat
  BY DEF IInv, TypeOK, Eras
<1>2. Backlog \in Nat
  BY <1>1 DEF Backlog
<1>3. Budget \in Nat /\ Stage \in Nat
  BY RankType
<1>4. Stage' \in Nat /\ (pc' # "greeting" => Stage' <= 11)
  BY DEF Stage, StageAt
<1>5. UNCHANGED <<spoken, uttering, hungup, partials, silences>>
  BY Zenon DEF GreetingDone, RemoteHangup, IgnoreFinals, CheapTransfer, ListenOnlyCue,
     BeginTurn, TakeFinals, counterVars
<1>6. ASSUME NEW b \in Nat, NEW m \in Nat, NEW n \in Nat, NEW q \in Nat, NEW r \in Nat,
             \/ n < m /\ r <= q
             \/ n <= 11 /\ m = 3 /\ q > 0 /\ r = 0
      PROVE  b + 9 * (r - q) + n < b + m
  BY <1>6
<1>7. TypeOK
  BY DEF IInv
<1>8. CASE GreetingDone \/ RemoteHangup
  <2>1. Stage' < Stage
    <3>1. CASE GreetingDone
      BY <3>1 DEF GreetingDone, Listen, Stage, StageAt, Replies
    <3>2. CASE RemoteHangup
      <4>1. pc \in {"listen", "got"} /\ pc' = "done" /\ speech' = "none"
        BY <3>2 DEF RemoteHangup, End
      <4>2. speech = "none"
        BY <4>1 DEF IInv, Phases, SpeechMatchesPc
      <4> QED
        BY <4>1, <4>2 DEF Stage, StageAt, Replies
    <3> QED
      BY <1>8, <3>1, <3>2
  <2>2. Backlog' \in Nat /\ Backlog' <= Backlog
    <3>1. CASE finals' = [e \in Eras |-> 0]
      BY <1>1, <1>2, <3>1 DEF Backlog, Eras
    <3>2. CASE finals' = finals
      BY <1>2, <3>2 DEF Backlog
    <3>3. ASSUME NEW e \in Eras, finals[e] > 0, finals' = [finals EXCEPT ![e] = @ - 1]
          PROVE  Backlog' \in Nat /\ Backlog' <= Backlog
      BY <1>1, <3>3 DEF Backlog, Eras
    <3> QED
      BY <1>8, <3>1, <3>2, <3>3, Zenon DEF GreetingDone, RemoteHangup
  <2>3. Budget' = Budget + 9 * (Backlog' - Backlog)
    BY <1>2, <1>3, <1>5, <1>7, <2>2, BudgetOfFinals
  <2>4. Budget + 9 * (Backlog' - Backlog) + Stage' < Budget + Stage
    BY <1>2, <1>3, <1>4, <1>6, <2>1, <2>2, Zenon
  <2> QED
    BY <2>3, <2>4, Zenon DEF Rank
<1>9. CASE IgnoreFinals \/ CheapTransfer \/ ListenOnlyCue \/ BeginTurn
  <2>1. pc = "coalesce" /\ finals' = [e \in Eras |-> 0]
    BY <1>9, Zenon DEF IgnoreFinals, CheapTransfer, ListenOnlyCue, BeginTurn, TakeFinals
  <2>2. Backlog > 0 /\ Backlog' = 0
    BY <2>1 DEF BudgetInv, Backlog, Eras
  <2>3. speech = "none"
    BY <2>1 DEF IInv, Phases, SpeechMatchesPc
  <2>4. Stage = 3
    BY <2>1, <2>3 DEF Stage, StageAt, Replies
  <2>5. pc' # "greeting"
    BY <1>9 DEF IgnoreFinals, CheapTransfer, ListenOnlyCue, BeginTurn, Listen, Handoff, Say, Stream
  <2>6. Budget' = Budget + 9 * (Backlog' - Backlog)
    BY <1>2, <1>3, <1>5, <1>7, <2>2, BudgetOfFinals
  <2>7. Backlog' \in Nat
    BY <2>2
  <2>8. Budget + 9 * (Backlog' - Backlog) + Stage' < Budget + Stage
    BY <1>2, <1>3, <1>4, <1>6, <2>2, <2>4, <2>5, <2>7, Zenon
  <2> QED
    BY <2>6, <2>8, Zenon DEF Rank
<1> QED
  BY <1>8, <1>9

\* An activation that was said is used up.
LEMMA ActivationSpends ==
  ASSUME IInv, BudgetInv, ActivationSaid
  PROVE  Rank' < Rank
<1>1. /\ UNCHANGED <<spoken, uttering, finals, hungup, partials>>
      /\ silences' = silences + 1
      /\ pc = "play" /\ speech = "activation" /\ pc' = "listen" /\ speech' = "none"
      /\ task \in {"finished", "cancelled"}
  BY DEF ActivationSaid, customerVars, Played, Cut, Listen
<1>2. Stage = 2 /\ Stage' = 5
  BY <1>1 DEF Stage, StageAt, Replies
<1>3. spoken \in Nat /\ partials \in Nat /\ silences \in Nat
  BY DEF IInv, TypeOK
<1>4. MaxUtterances \in Nat /\ MaxPartials \in Nat /\ MaxActivations \in Nat
  BY LoopAssumption DEF LoopAssumption
<1>5. finals["greeting"] \in Nat /\ finals["call"] \in Nat
  BY DEF IInv, TypeOK, Eras
<1>6. Backlog \in Nat /\ Backlog' = Backlog
  BY <1>1, <1>5 DEF Backlog
<1>7. Budget' = Budget - 4 /\ Budget \in Int
  BY <1>1, <1>3, <1>4, <1>6 DEF Budget
<1>8. Rank = Budget + Stage /\ Rank' = Budget' + Stage'
  BY DEF Rank
<1> QED
  BY <1>2, <1>7, <1>8

\* The stages, place by place.
LEMMA StageTable ==
  /\ \A t : /\ StageAt("greeting", "none", t) = 12 /\ StageAt("gate", "none", t) = 11
           /\ StageAt("detect", "none", t) = 10 /\ StageAt("referee", "none", t) = 8
           /\ StageAt("listen", "none", t) = 5 /\ StageAt("got", "none", t) = 4
           /\ StageAt("elapsed", "none", t) = 4 /\ StageAt("coalesce", "none", t) = 3
           /\ StageAt("hanging_up", "none", t) = 1 /\ StageAt("done", "none", t) = 0
           /\ \A r \in Replies : StageAt("sentence", r, t) = 9 /\ StageAt("play", r, t) = 9
  /\ \A w \in {"cue", "default_reply"} :
       /\ StageAt("play", w, "running") = 7
       /\ StageAt("play", w, "finished") = 6 /\ StageAt("play", w, "cancelled") = 6
  /\ \A w \in {"activation", "silence_hangup", "farewell", "handoff", "goodbye"} :
       /\ StageAt("play", w, "running") = 3
       /\ StageAt("play", w, "finished") = 2 /\ StageAt("play", w, "cancelled") = 2
BY Zenon DEF StageAt, Replies

\* The other steps of main cost the customer nothing.
LEMMA BudgetUntouched ==
  ASSUME Main \/ EngineError,
         ~(GreetingDone \/ RemoteHangup \/ IgnoreFinals \/ CheapTransfer \/ ListenOnlyCue
             \/ BeginTurn \/ ActivationSaid)
  PROVE  UNCHANGED budgetVars
<1> USE DEF budgetVars, customerVars, counterVars
<1>1. CASE SilenceTimeout
  BY <1>1 DEF SilenceTimeout
<1>2. CASE FinalWakes
  BY <1>2 DEF FinalWakes
<1>3. CASE CueSaid
  BY <1>3 DEF CueSaid
<1>4. CASE ThinkingAbort
  BY <1>4 DEF ThinkingAbort
<1>5. CASE GateResolves
  BY <1>5 DEF GateResolves
<1>6. CASE DetectorTransfers
  BY <1>6 DEF DetectorTransfers
<1>7. CASE RouteHangup
  BY <1>7 DEF RouteHangup
<1>8. CASE RouteTransfer
  BY <1>8 DEF RouteTransfer
<1>9. CASE RouteRestructureCapped
  BY <1>9 DEF RouteRestructureCapped
<1>10. CASE DefaultReplySaid
  BY <1>10 DEF DefaultReplySaid
<1>11. CASE RouteRestructure
  BY <1>11 DEF RouteRestructure
<1>12. CASE RestructureSaid
  BY <1>12 DEF RestructureSaid
<1>13. CASE RouteDialogue
  BY <1>13 DEF RouteDialogue
<1>14. CASE ReplySaid
  BY <1>14 DEF ReplySaid
<1>15. CASE WrapUpReplySaid
  BY <1>15 DEF WrapUpReplySaid
<1>16. CASE WrapUpVerdict
  BY <1>16 DEF WrapUpVerdict
<1>17. CASE LastWordsSaid
  BY <1>17 DEF LastWordsSaid
<1>18. CASE HandoffSaid
  BY <1>18 DEF HandoffSaid
<1>19. CASE HandoffEnds
  BY <1>19 DEF HandoffEnds
<1>20. CASE AudioOut
  BY <1>20 DEF AudioOut
<1>21. CASE NextSentence \/ SentencePlayed
  BY <1>21 DEF NextSentence, SentencePlayed
<1>22. CASE BargeIn
  BY <1>22 DEF BargeIn
<1>23. CASE EngineError
  BY <1>23 DEF EngineError
<1>24. CASE AsrGet
  BY <1>24 DEF AsrGet
<1>25. CASE SilenceElapses
  BY <1>25 DEF SilenceElapses
<1> QED
  BY <1>1, <1>2, <1>3, <1>4, <1>5, <1>6, <1>7, <1>8, <1>9, <1>10, <1>11, <1>12, <1>13,
     <1>14, <1>15, <1>16, <1>17, <1>18, <1>19, <1>20, <1>21, <1>22, <1>23, <1>24, <1>25, Zenon
  DEF Main, ListenStep, TurnStep, PlayStep

\* Until main is done there is something left.
LEMMA StagePositive ==
  ASSUME TypeOK, SpeechMatchesPc, pc # "done"
  PROVE  Stage > 0
BY DEF Stage, StageAt, TypeOK, SpeechMatchesPc

\* And each of them brings main nearer to the end.
LEMMA StageFalls ==
  ASSUME IInv, Main \/ EngineError,
         ~(GreetingDone \/ RemoteHangup \/ IgnoreFinals \/ CheapTransfer \/ ListenOnlyCue
             \/ BeginTurn \/ ActivationSaid),
         ~SentenceStep
  PROVE  Stage' < Stage
<1> USE StageTable DEF Stage, Replies
<1>0. TypeOK /\ SpeechMatchesPc
  BY DEF IInv, Phases
<1> USE <1>0 DEF SpeechMatchesPc
<1>1. CASE SilenceTimeout
  <2>1. pc = "elapsed" /\ speech = "none"
    BY <1>1, Zenon DEF SilenceTimeout
  <2>2. \/ pc' = "done" /\ speech' = "none"
        \/ pc' = "play" /\ task' = "running" /\ speech' \in {"activation", "silence_hangup"}
    BY <1>1, Zenon DEF SilenceTimeout, Say, End
  <2>3. Stage = 4 /\ Stage' \in {0, 3}
    BY <2>1, <2>2
  <2>4. QED
    BY <2>3
<1>2. CASE FinalWakes
  BY <1>2 DEF FinalWakes
<1>3. CASE CueSaid
  BY <1>3 DEF CueSaid, Listen, Played
<1>4. CASE ThinkingAbort
  BY <1>4 DEF ThinkingAbort, Listen
<1>5. CASE GateResolves
  BY <1>5 DEF GateResolves
<1>6. CASE DetectorTransfers
  BY <1>6 DEF DetectorTransfers, Handoff, Say
<1>7. CASE RouteHangup
  BY <1>7 DEF RouteHangup, Say, End
<1>8. CASE RouteTransfer
  BY <1>8 DEF RouteTransfer, Handoff, Say
<1>9. CASE RouteRestructureCapped
  BY <1>9 DEF RouteRestructureCapped, Say, Listen
<1>10. CASE DefaultReplySaid
  BY <1>10 DEF DefaultReplySaid, Listen, Played, Cut
<1>11. CASE RouteRestructure
  BY <1>11 DEF RouteRestructure, Stream
<1>12. CASE RestructureSaid
  BY <1>12 DEF RestructureSaid, Listen, StreamEnds
<1>13. CASE RouteDialogue
  BY <1>13 DEF RouteDialogue, Stream
<1>14. CASE ReplySaid
  <2>1. speech \in {"reply", "closing"} /\ pc \in {"sentence", "play"}
    BY <1>14, Zenon DEF ReplySaid, StreamEnds
  <2>2. pc' = "listen" /\ speech' = "none"
    BY <1>14, Zenon DEF ReplySaid, Listen
  <2>3. Stage = 9 /\ Stage' = 5
    BY <2>1, <2>2
  <2>4. QED
    BY <2>3
<1>15. CASE WrapUpReplySaid
  <2>1. speech = "wrap_up_reply" /\ pc \in {"sentence", "play"}
    BY <1>15, Zenon DEF WrapUpReplySaid, StreamEnds
  <2>2. \/ pc' \in {"referee", "listen"} /\ speech' = "none"
        \/ pc' = "play" /\ task' = "running" /\ speech' = "goodbye"
    BY <1>15, Zenon DEF WrapUpReplySaid, EvaluateWrapUp, Say, Listen
  <2>3. Stage = 9 /\ Stage' \in {8, 5, 3}
    BY <2>1, <2>2
  <2>4. QED
    BY <2>3
<1>16. CASE WrapUpVerdict
  <2>1. pc = "referee" /\ speech = "none"
    BY <1>16, Zenon DEF WrapUpVerdict
  <2>2. \/ pc' \in {"done", "listen"} /\ speech' = "none"
        \/ pc' = "play" /\ task' = "running" /\ speech' = "goodbye"
    BY <1>16, Zenon DEF WrapUpVerdict, End, EvaluateWrapUp, Say, Listen
  <2>3. Stage = 8 /\ Stage' \in {5, 3, 0}
    BY <2>1, <2>2
  <2>4. QED
    BY <2>3
<1>17. CASE LastWordsSaid
  <2>1. /\ pc = "play" /\ speech \in {"silence_hangup", "farewell", "goodbye"}
        /\ task \in {"finished", "cancelled"}
    BY <1>17, Zenon DEF LastWordsSaid, Played, Cut
  <2>2. pc' = "done" /\ speech' = "none"
    BY <1>17, Zenon DEF LastWordsSaid, End
  <2>3. Stage = 2 /\ Stage' = 0
    BY <2>1, <2>2
  <2>4. QED
    BY <2>3
<1>18. CASE HandoffSaid
  <2>1. pc = "play" /\ speech = "handoff" /\ task \in {"finished", "cancelled"}
    BY <1>18, Zenon DEF HandoffSaid, Played, Cut
  <2>2. pc' = "hanging_up" /\ speech' = "none"
    BY <1>18, Zenon DEF HandoffSaid
  <2>3. Stage = 2 /\ Stage' = 1
    BY <2>1, <2>2
  <2>4. QED
    BY <2>3
<1>19. CASE HandoffEnds
  BY <1>19 DEF HandoffEnds, End
<1>20. CASE AudioOut
  <2>1. /\ pc = "play" /\ task = "running" /\ pc' = "play" /\ task' = "finished"
        /\ speech' = speech
    BY <1>20 DEF AudioOut
  <2>2. speech \in {"cue", "default_reply"} \union
                   {"activation", "silence_hangup", "farewell", "handoff", "goodbye"}
    BY <1>20, <2>1 DEF SentenceStep, TypeOK, Phrases
  <2>3. QED
    BY <2>1, <2>2
<1>21. CASE NextSentence \/ SentencePlayed
  BY <1>21, Zenon DEF NextSentence, SentencePlayed, Played, SentenceStep
<1>22. CASE BargeIn
  <2>1. speech \in Replies /\ pc = "play"
    BY <1>22, Zenon DEF BargeIn, Cut
  <2>2. pc' = "listen" /\ speech' = "none"
    BY <1>22, Zenon DEF BargeIn, Listen
  <2>3. Stage = 9 /\ Stage' = 5
    BY <2>1, <2>2
  <2>4. QED
    BY <2>3
<1>23. CASE EngineError
  <2>1. pc # "done" /\ pc' = "done" /\ speech' = "none"
    BY <1>23 DEF EngineError, End
  <2>2. Stage' = 0
    BY <2>1
  <2>3. Stage > 0
    BY <2>1, StagePositive, Zenon
  <2>4. QED
    BY <2>2, <2>3
<1>24. CASE AsrGet
  BY <1>24 DEF AsrGet
<1>25. CASE SilenceElapses
  BY <1>25 DEF SilenceElapses
<1> QED
  BY <1>1, <1>2, <1>3, <1>4, <1>5, <1>6, <1>7, <1>8, <1>9, <1>10, <1>11, <1>12, <1>13,
     <1>14, <1>15, <1>16, <1>17, <1>18, <1>19, <1>20, <1>21, <1>22, <1>23, <1>24, <1>25, Zenon
  DEF Main, ListenStep, TurnStep, PlayStep

\* Between two sentences of a reply the rank stays.
LEMMA SentenceKeepsRank ==
  ASSUME IInv, SentenceStep
  PROVE  Rank' = Rank
<1>1. UNCHANGED budgetVars
  BY Zenon DEF SentenceStep, AudioOut, NextSentence, SentencePlayed, budgetVars, customerVars,
     counterVars
<1>2. Stage' = Stage
  <2>1. /\ speech \in Replies /\ speech' = speech
        /\ pc \in {"play", "sentence"} /\ pc' \in {"play", "sentence"}
    BY DEF SentenceStep, AudioOut, NextSentence, SentencePlayed, Played
  <2> QED
    BY <2>1 DEF Stage, StageAt
<1>3. Budget' = Budget
  BY <1>1 DEF budgetVars, Budget, Backlog
<1> QED
  BY <1>2, <1>3, Zenon DEF Rank

\* One step.
LEMMA StepSpends ==
  ASSUME IInv, BudgetInv, Next
  PROVE  Rank' < Rank \/ (SentenceStep /\ Rank' = Rank)
<1>1. CASE Customer
  BY <1>1, CustomerSpends
<1>2. CASE GreetingDone \/ RemoteHangup \/ IgnoreFinals \/ CheapTransfer \/ ListenOnlyCue
             \/ BeginTurn
  BY <1>2, TakingSpends
<1>3. CASE ActivationSaid
  BY <1>3, ActivationSpends
<1>4. CASE SentenceStep
  BY <1>4, SentenceKeepsRank
<1>5. CASE /\ Main \/ EngineError
           /\ ~(GreetingDone \/ RemoteHangup \/ IgnoreFinals \/ CheapTransfer \/ ListenOnlyCue
                  \/ BeginTurn \/ ActivationSaid)
           /\ ~SentenceStep
  <2>1. UNCHANGED budgetVars /\ Stage' < Stage
    BY <1>5, BudgetUntouched, StageFalls, Zenon
  <2>2. Budget \in Nat /\ Stage \in Nat
    BY RankType
  <2>3. Stage' \in Nat
    BY DEF Stage, StageAt
  <2> QED
    BY <2>1, <2>2, <2>3, MainSpends
<1> QED
  BY <1>1, <1>2, <1>3, <1>4, <1>5, Zenon DEF Next

\* The steps of a call are paid for: with Rank a natural number, every step of the
\* customer, of main or of an error lowers it, and only the sentences of a reply
\* that is being streamed leave it as it is.  So whatever the customer says, a call
\* has at most as many other steps as its rank at the start: for each utterance and
\* each activation a constant number.
WindsDown ==
  /\ [](Rank \in Nat)
  /\ [][Rank' < Rank \/ (SentenceStep /\ Rank' = Rank)]_vars

\* The silence ladder, the wrap-up and the gate leave no cycle in run_loop.py that
\* costs the customer nothing: the safety part of QuietCallEnds.
THEOREM CallWindsDown == Spec => WindsDown
<1>1. Init => BudgetInv
  BY LoopAssumption DEF Init, BudgetInv, LoopAssumption
<1>2. IInv /\ BudgetInv /\ [Next]_vars => BudgetInv'
  BY BudgetPreserved DEF IInv
<1>3. IInv /\ BudgetInv /\ [Next]_vars => [Rank' < Rank \/ (SentenceStep /\ Rank' = Rank)]_vars
  BY StepSpends
<1>4. IInv /\ BudgetInv => Rank \in Nat
  BY RankType DEF Rank
<1> QED
  BY <1>1, <1>2, <1>3, <1>4, Invariance, PTL DEF Spec, WindsDown
=============================================================================
