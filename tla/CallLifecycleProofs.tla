-------------------------- MODULE CallLifecycleProofs --------------------------
(***************************************************************************)
(* Proofs about CallLifecycle, for any number of calls, faults of any kind  *)
(* and any number of hangup commands: the concurrency counter, the settling *)
(* of every call, the cause of a manual hangup and the shutdown, and that a *)
(* call settles in a bounded number of steps.                               *)
(***************************************************************************)
EXTENDS CallLifecycle, TLAPS

-----------------------------------------------------------------------------
\* The inductive invariant.

\* Where a request, its main task and its finalizer can be at the same time.
PhaseInv ==
  \A c \in Calls :
    /\ dialer = c => req[c] = "handling" /\ proc = "up"
    /\ main[c] = "none" <=> req[c] # "session"
    /\ fin[c] = "none" <=> main[c] \notin {"finalizing", "done"}
    /\ c \in registered => req[c] = "session"
    /\ req[c] = "session" /\ c \notin registered => fin[c] = "done"

\* The steps of the finalizer that come before, and after, step s.
Earlier(s) ==
  CASE s = "persist" -> {"none", "capture"}
    [] s = "extract" -> {"none", "capture", "persist"}
    [] s = "ended"   -> {"none", "capture", "persist", "extract"}
    [] s = "decr"    -> {"none", "capture", "persist", "extract", "ended"}

Later(s) ==
  CASE s = "persist" -> {"extract", "ended", "decr", "snap", "unregister", "done"}
    [] s = "extract" -> {"ended", "decr", "snap", "unregister", "done"}
    [] s = "ended"   -> {"decr", "snap", "unregister", "done"}
    [] s = "decr"    -> {"snap", "unregister", "done"}

\* Until its step has succeeded every effect stands for a fault, and only
\* after MaxRetries faults is a step passed without an effect.
StepInv ==
  \A c \in Calls :
    /\ attempt[c] <= 1 + faults
    /\ \A s \in Steps :
         /\ applied[c][s] <= 1 + faults
         /\ fin[c] \in Earlier(s) => applied[c][s] = 0
         /\ fin[c] = s => applied[c][s] <= faults
         /\ s # "extract" /\ fin[c] \in Later(s) =>
              applied[c][s] >= 1 \/ faults >= MaxRetries

\* A SET 0 is due only when a slot was given back that nobody held.
SnapInv == \A c \in Calls : fin[c] = "snap" => OverReleased

\* Once the shutdown gathers, it waits for every task that still runs.
GatherInv ==
  \A c \in Calls :
    /\ proc \in {"gathering", "closing", "exited"} =>
         main[c] \in {"none", "done"} \/ c \in waiting \/ fin[c] = "done"
    /\ proc \in {"closing", "exited"} /\ c \in waiting => main[c] = "done"

\* What the concurrency counter promises.
CounterInv == SlotAccounting /\ SnapInv /\ CounterRepaired

IInv == TypeOK /\ PhaseInv /\ StepInv /\ GatherInv /\ CounterInv

-----------------------------------------------------------------------------
\* What a step of main may do, whichever it is.
MainMoves(c) ==
  /\ UNCHANGED <<callVars, attempt, recorded, applied, counter, faults, procVars>>
  /\ proc # "exited"
  /\ \/ /\ main[c] \notin {"none", "finalizing", "done"}
        /\ \E m \in {"dialing"} \union Live \union {"stopping", "closing", "providers"} :
             main' = [main EXCEPT ![c] = m]
        /\ fin' = fin
     \/ /\ main[c] \notin {"none", "finalizing", "done"}
        /\ main' = [main EXCEPT ![c] = "finalizing"]
        /\ fin' = [fin EXCEPT ![c] = "capture"]
     \/ /\ main[c] = "finalizing"
        /\ main' = [main EXCEPT ![c] = "done"]
        /\ fin' = fin

\* Every step of main is one of these.
LEMMA MainFacts ==
  ASSUME NEW c \in Calls, MainStep(c)
  PROVE  MainMoves(c)
<1> USE DEF MainMoves, Live, callVars, finVars, procVars
<1>1. CASE EnterRunSession(c)
  BY <1>1 DEF EnterRunSession, Resumes
<1>2. CASE PreambleFails(c)
  BY <1>2 DEF PreambleFails, Resumes, Finalize
<1>3. CASE PreambleCancelled(c)
  BY <1>3 DEF PreambleCancelled, Raises, Finalize
<1>4. CASE Connected(c)
  BY <1>4 DEF Connected, Resumes, Goto
<1>5. CASE NotConnected(c)
  BY <1>5 DEF NotConnected, Resumes, CloseBus
<1>6. CASE DialRaises(c)
  BY <1>6 DEF DialRaises, Resumes, CloseBus
<1>7. CASE DialCancelled(c)
  BY <1>7 DEF DialCancelled, Raises, CloseBus
<1>8. CASE Speak(c)
  BY <1>8 DEF Speak, Resumes, Goto
<1>9. CASE Spoken(c)
  BY <1>9 DEF Spoken, Resumes, Goto
<1>10. CASE ConversationEnds(c)
  BY <1>10 DEF ConversationEnds, Resumes, Goto
<1>11. CASE ConversationRaises(c)
  BY <1>11 DEF ConversationRaises, Resumes, Goto
<1>12. CASE ListeningCancelled(c)
  BY <1>12 DEF ListeningCancelled, Raises, Goto
<1>13. CASE SpeakingCancelled(c)
  BY <1>13 DEF SpeakingCancelled, Raises, Goto
<1>14. CASE PumpsStopped(c)
  BY <1>14 DEF PumpsStopped, Resumes, CloseBus
<1>15. CASE StoppingCancelled(c)
  BY <1>15 DEF StoppingCancelled, Raises, Goto
<1>16. CASE BusClosed(c)
  BY <1>16 DEF BusClosed, Resumes, Goto
<1>17. CASE ClosingCancelled(c)
  BY <1>17 DEF ClosingCancelled, Raises, Goto
<1>18. CASE ProvidersClosed(c)
  BY <1>18 DEF ProvidersClosed, Resumes, Finalize
<1>19. CASE ProvidersCancelled(c)
  BY <1>19 DEF ProvidersCancelled, Raises, Finalize
<1>20. CASE MainReturns(c)
  BY <1>20 DEF MainReturns
<1>21. QED
  BY <1>1, <1>2, <1>3, <1>4, <1>5, <1>6, <1>7, <1>8, <1>9, <1>10, <1>11, <1>12, <1>13,
      <1>14, <1>15, <1>16, <1>17, <1>18, <1>19, <1>20, Zenon DEF MainStep

\* The step after a step, by name.
LEMMA AfterFacts ==
  /\ After("persist") = {"extract", "ended"}
  /\ After("extract") = {"ended"}
  /\ After("ended") = {"decr"}
  /\ After("decr") = {"unregister"}
BY DEF After

\* Going on keeps the types, and leaves the step.
LEMMA ProceedFacts ==
  ASSUME TypeOK, NEW c \in Calls, NEW s \in Steps, Proceed(c, s)
  PROVE  /\ \E n \in {"extract", "ended", "decr", "unregister"} :
              /\ n \in After(s)
              /\ fin' = [fin EXCEPT ![c] = n]
         /\ attempt' = [attempt EXCEPT ![c] = 1]
BY AfterFacts, Zenon DEF Proceed, Steps

\* So does trying again.
LEMMA RetryFacts ==
  ASSUME TypeOK, NEW c \in Calls, NEW s \in Steps, RetryOrGiveUp(c, s)
  PROVE  \/ /\ attempt[c] < MaxRetries
            /\ fin' = [fin EXCEPT ![c] = s]
            /\ attempt' = [attempt EXCEPT ![c] = attempt[c] + 1]
         \/ /\ attempt[c] = MaxRetries
            /\ \E n \in {"extract", "ended", "decr", "unregister"} :
                 /\ n \in After(s)
                 /\ fin' = [fin EXCEPT ![c] = n]
            /\ attempt' = [attempt EXCEPT ![c] = 1]
<1>1. attempt[c] \in 1..MaxRetries /\ MaxRetries = 3
  BY DEF TypeOK, MaxRetries
<1>2. CASE attempt[c] < MaxRetries
  BY <1>2 DEF RetryOrGiveUp
<1>3. CASE ~(attempt[c] < MaxRetries)
  BY <1>1, <1>3, ProceedFacts DEF RetryOrGiveUp
<1>4. QED
  BY <1>2, <1>3

\* An effect changes one entry of the ledger, and the counter if it is a DECR.
LEMMA EffectFacts ==
  ASSUME TypeOK, NEW c \in Calls, NEW s \in Steps, TakesEffect(c, s)
  PROVE  /\ applied' \in [Calls -> [Steps -> Nat]]
         /\ applied'[c][s] = applied[c][s] + 1
         /\ \A t \in Steps : t # s => applied'[c][t] = applied[c][t]
         /\ \A d \in Calls : d # c => applied'[d] = applied[d]
         /\ counter' \in Int
         /\ counter' = IF s = "decr" THEN counter - 1 ELSE counter
<1>1. applied \in [Calls -> [Steps -> Nat]] /\ counter \in Int
  BY DEF TypeOK
<1>2. applied' = [applied EXCEPT ![c][s] = applied[c][s] + 1]
  BY DEF TakesEffect
<1>3. QED
  BY <1>1, <1>2 DEF TakesEffect

\* The states of a finalizer.
FinStates == {"none", "capture", "snap", "unregister", "done", "killed"} \union Steps

\* The types the finalizers' ledger needs.
LEMMA OwnTypes ==
  ASSUME TypeOK
  PROVE  /\ fin \in [Calls -> FinStates]
         /\ attempt \in [Calls -> 1..MaxRetries]
         /\ applied \in [Calls -> [Steps -> Nat]]
         /\ faults \in Nat /\ counter \in Int
BY DEF TypeOK, FinStates

\* Leaving a step touches no other call and does not lead to the SET 0.
LEMMA ProceedMoves ==
  ASSUME TypeOK, NEW c \in Calls, NEW s \in Steps, Proceed(c, s)
  PROVE  /\ \A d \in Calls : d # c => fin'[d] = fin[d]
         /\ fin'[c] # "snap"
<1>1. PICK n \in {"extract", "ended", "decr", "unregister"} : fin' = [fin EXCEPT ![c] = n]
  BY ProceedFacts
<1>2. fin \in [Calls -> {"none", "capture", "snap", "unregister", "done", "killed"} \union Steps]
  BY OwnTypes DEF FinStates
<1>3. QED
  BY <1>1, <1>2

\* A failed attempt is repeated, or is the last one and the next step follows.
LEMMA RetryMoves ==
  ASSUME TypeOK, NEW c \in Calls, NEW s \in Steps, RetryOrGiveUp(c, s)
  PROVE  /\ \A d \in Calls : d # c => fin'[d] = fin[d]
         /\ fin'[c] # "snap"
         /\ fin'[c] = s \/ attempt[c] = MaxRetries
<1>1. fin \in [Calls -> {"none", "capture", "snap", "unregister", "done", "killed"} \union Steps]
  BY OwnTypes DEF FinStates
<1>2. CASE fin' = [fin EXCEPT ![c] = s]
  BY <1>1, <1>2 DEF Steps
<1>3. CASE /\ attempt[c] = MaxRetries
           /\ \E n \in {"extract", "ended", "decr", "unregister"} : fin' = [fin EXCEPT ![c] = n]
  BY <1>1, <1>3
<1>4. QED
  BY <1>2, <1>3, RetryFacts

\* The types of the finalizer's own state.
FinType ==
  /\ fin \in [Calls -> {"none", "capture", "snap", "unregister", "done", "killed"} \union Steps]
  /\ attempt \in [Calls -> 1..MaxRetries]

\* A finalizer that repeats or leaves a step keeps its types.
LEMMA RetryType ==
  ASSUME TypeOK, NEW c \in Calls, NEW s \in Steps,
         RetryOrGiveUp(c, s) \/ Proceed(c, s)
  PROVE  FinType'
<1>1. FinType /\ attempt[c] \in 1..3 /\ MaxRetries = 3
  BY DEF TypeOK, FinType, MaxRetries
<1>2. CASE /\ attempt[c] < MaxRetries
           /\ fin' = [fin EXCEPT ![c] = s]
           /\ attempt' = [attempt EXCEPT ![c] = attempt[c] + 1]
  <2>1. attempt[c] + 1 \in 1..3
    BY <1>1, <1>2
  <2>2. QED
    BY <1>1, <1>2, <2>1 DEF FinType
<1>3. ASSUME NEW n \in {"extract", "ended", "decr", "unregister"},
             fin' = [fin EXCEPT ![c] = n], attempt' = [attempt EXCEPT ![c] = 1]
      PROVE  FinType'
  <2>1. 1 \in 1..3 /\ n \in {"unregister"} \union Steps
    BY DEF Steps
  <2>2. QED
    BY <1>1, <1>3, <2>1 DEF FinType
<1>4. QED
  BY <1>2, <1>3, RetryFacts, ProceedFacts

\* What a step of the finalizer may do to the rest, all but the last one.
FinMoves(c) ==
  /\ UNCHANGED <<callVars, main, procVars>>
  /\ fin[c] \notin {"none", "done", "killed"}
  /\ \E n \in {"persist", "extract", "ended", "decr", "snap", "unregister"} :
       fin' = [fin EXCEPT ![c] = n]

\* Every one of them moves fin on and nothing else that others look at.
LEMMA FinFacts ==
  ASSUME TypeOK, NEW c \in Calls, FinalizerStep(c)
  PROVE  FinMoves(c) \/ Unregister(c)
<1> USE DEF FinMoves, callVars, mainVars, procVars
<1>1. CASE Capture(c)
  BY <1>1 DEF Capture
<1>2. ASSUME NEW s \in Steps, StepSucceeds(c, s) PROVE FinMoves(c)
  BY <1>2, ProceedFacts DEF StepSucceeds, Steps
<1>3. ASSUME NEW s \in Steps, NEW k \in FaultKinds, StepFails(c, s, k) PROVE FinMoves(c)
  BY <1>3, RetryFacts DEF StepFails, Steps
<1>4. CASE SnapToZero(c)
  BY <1>4, ProceedFacts DEF SnapToZero, Steps
<1>5. ASSUME NEW k \in FaultKinds, SnapFails(c, k) PROVE FinMoves(c)
  BY <1>5, RetryFacts DEF SnapFails, Steps
<1>6. QED
  BY <1>1, <1>2, <1>3, <1>4, <1>5 DEF FinalizerStep

\* Every step keeps the types.
LEMMA TypePreserved ==
  ASSUME TypeOK, [Next]_vars
  PROVE  TypeOK'
<1> USE DEF TypeOK, MaxRetries, Causes, Live, Unwinding, Steps, callVars, mainVars,
    finVars, procVars
<1>1. ASSUME NEW c \in Calls, Schedule(c) PROVE TypeOK'
  BY <1>1 DEF Schedule
<1>2. ASSUME NEW c \in Calls, Pop(c) PROVE TypeOK'
  BY <1>2 DEF Pop
<1>3. ASSUME NEW c \in Calls, DeadLetter(c) PROVE TypeOK'
  BY <1>3 DEF DeadLetter
<1>4. ASSUME NEW c \in Calls, DeadLetterFails(c) PROVE TypeOK'
  BY <1>4 DEF DeadLetterFails
<1>5. ASSUME NEW c \in Calls, StartCall(c) PROVE TypeOK'
  BY <1>5 DEF StartCall
<1>6. ASSUME NEW c \in Calls, ManualHangup(c) PROVE TypeOK'
  BY <1>6 DEF ManualHangup
<1>7. ASSUME NEW c \in Calls, Terminate(c) PROVE TypeOK'
  BY <1>7 DEF Terminate
<1>8. ASSUME NEW c \in Calls, EnterRunSession(c) PROVE TypeOK'
  BY <1>8 DEF EnterRunSession, Resumes
<1>9. ASSUME NEW c \in Calls, PreambleFails(c) PROVE TypeOK'
  BY <1>9 DEF PreambleFails, Resumes, Finalize
<1>10. ASSUME NEW c \in Calls, PreambleCancelled(c) PROVE TypeOK'
  BY <1>10 DEF PreambleCancelled, Raises, Finalize
<1>11. ASSUME NEW c \in Calls, Connected(c) PROVE TypeOK'
  BY <1>11 DEF Connected, Resumes, Goto
<1>12. ASSUME NEW c \in Calls, NotConnected(c) PROVE TypeOK'
  BY <1>12 DEF NotConnected, Resumes, CloseBus
<1>13. ASSUME NEW c \in Calls, DialRaises(c) PROVE TypeOK'
  BY <1>13 DEF DialRaises, Resumes, CloseBus, OrNoProgress
<1>14. ASSUME NEW c \in Calls, DialCancelled(c) PROVE TypeOK'
  BY <1>14 DEF DialCancelled, Raises, CloseBus
<1>15. ASSUME NEW c \in Calls, Speak(c) PROVE TypeOK'
  <2>1. PICK cz \in Causes \union {"none", "normal"} : Goto(c, "speaking", FALSE, cz)
    BY <1>15, Zenon DEF Speak
  <2>2. QED
    BY <2>1 DEF Goto
<1>16. ASSUME NEW c \in Calls, Spoken(c) PROVE TypeOK'
  BY <1>16 DEF Spoken, Resumes, Goto
<1>17. ASSUME NEW c \in Calls, ConversationEnds(c) PROVE TypeOK'
  <2>1. PICK cz \in Causes \union {"none", "normal"} : Goto(c, "stopping", FALSE, cz)
    BY <1>17, Zenon DEF ConversationEnds
  <2>2. QED
    BY <2>1 DEF Goto
<1>18. ASSUME NEW c \in Calls, ConversationRaises(c) PROVE TypeOK'
  BY <1>18 DEF ConversationRaises, Resumes, Goto, OrNoProgress
<1>19. ASSUME NEW c \in Calls, ListeningCancelled(c) PROVE TypeOK'
  BY <1>19 DEF ListeningCancelled, Raises, Goto
<1>20. ASSUME NEW c \in Calls, SpeakingCancelled(c) PROVE TypeOK'
  <2>1. PICK m \in {"listening", "stopping"}, b \in BOOLEAN : Goto(c, m, b, cause[c])
    BY <1>20, Zenon DEF SpeakingCancelled
  <2>2. QED
    BY <2>1 DEF Goto
<1>21. ASSUME NEW c \in Calls, PumpsStopped(c) PROVE TypeOK'
  BY <1>21 DEF PumpsStopped, Resumes, CloseBus
<1>22. ASSUME NEW c \in Calls, StoppingCancelled(c) PROVE TypeOK'
  BY <1>22 DEF StoppingCancelled, Raises, Goto
<1>23. ASSUME NEW c \in Calls, BusClosed(c) PROVE TypeOK'
  BY <1>23 DEF BusClosed, Resumes, Goto
<1>24. ASSUME NEW c \in Calls, ClosingCancelled(c) PROVE TypeOK'
  BY <1>24 DEF ClosingCancelled, Raises, Goto
<1>25. ASSUME NEW c \in Calls, ProvidersClosed(c) PROVE TypeOK'
  BY <1>25 DEF ProvidersClosed, Resumes, Finalize
<1>26. ASSUME NEW c \in Calls, ProvidersCancelled(c) PROVE TypeOK'
  BY <1>26 DEF ProvidersCancelled, Raises, Finalize
<1>27. ASSUME NEW c \in Calls, MainReturns(c) PROVE TypeOK'
  BY <1>27 DEF MainReturns
<1>28. ASSUME NEW c \in Calls, Capture(c) PROVE TypeOK'
  BY <1>28 DEF Capture
<1>29. ASSUME NEW c \in Calls, NEW s \in Steps, StepSucceeds(c, s) PROVE TypeOK'
  <2>1. applied' \in [Calls -> [Steps -> Nat]] /\ counter' \in Int
    BY <1>29, EffectFacts DEF StepSucceeds
  <2>2. \/ fin' = [fin EXCEPT ![c] = "snap"] /\ UNCHANGED attempt
        \/ Proceed(c, s)
    BY <1>29 DEF StepSucceeds
  <2>3. FinType'
    BY <2>2, RetryType DEF FinType
  <2>4. QED
    BY <1>29, <2>1, <2>3 DEF StepSucceeds, FinType
<1>30. ASSUME NEW c \in Calls, NEW s \in Steps, NEW k \in FaultKinds, StepFails(c, s,
    k) PROVE TypeOK'
  <2>1. applied' \in [Calls -> [Steps -> Nat]] /\ counter' \in Int
    BY <1>30, EffectFacts DEF StepFails
  <2>2. RetryOrGiveUp(c, s)
    BY <1>30 DEF StepFails
  <2>3. FinType'
    BY <2>2, RetryType
  <2>4. QED
    BY <1>30, <2>1, <2>3 DEF StepFails, FinType
<1>31. ASSUME NEW c \in Calls, SnapToZero(c) PROVE TypeOK'
  BY <1>31 DEF SnapToZero, Proceed, After
<1>32. ASSUME NEW c \in Calls, NEW k \in FaultKinds, SnapFails(c, k) PROVE TypeOK'
  <2>1. RetryOrGiveUp(c, "decr") /\ "decr" \in Steps
    BY <1>32 DEF SnapFails
  <2>2. FinType'
    BY <2>1, RetryType
  <2>3. counter' \in Int
    BY <1>32 DEF SnapFails
  <2>4. QED
    BY <1>32, <2>2, <2>3 DEF SnapFails, FinType
<1>33. ASSUME NEW c \in Calls, Unregister(c) PROVE TypeOK'
  BY <1>33 DEF Unregister
<1>34. CASE RequestStop
  BY <1>34 DEF RequestStop
<1>35. CASE CancelAll
  BY <1>35 DEF CancelAll, CancelMains
<1>36. CASE GatherTimeout
  BY <1>36 DEF GatherTimeout, CancelMains
<1>37. CASE GatherReturns
  BY <1>37 DEF GatherReturns
<1>38. CASE ExitProcess
  BY <1>38 DEF ExitProcess
<1>39. CASE UNCHANGED vars
  BY <1>39 DEF vars
<1>40. QED
  BY <1>1, <1>2, <1>3, <1>4, <1>5, <1>6, <1>7, <1>8, <1>9, <1>10, <1>11, <1>12, <1>13,
      <1>14, <1>15, <1>16, <1>17, <1>18, <1>19, <1>20, <1>21, <1>22, <1>23, <1>24,
      <1>25, <1>26, <1>27, <1>28, <1>29, <1>30, <1>31, <1>32, <1>33, <1>34, <1>35,
      <1>36, <1>37, <1>38, <1>39, Zenon DEF Next, Dialing, MainStep, FinalizerStep,
      Shutdown

\* Every step keeps request, task and finalizer in step.
LEMMA PhasePreserved ==
  ASSUME IInv, [Next]_vars
  PROVE  PhaseInv'
<1> USE LifecycleAssumption DEF IInv, TypeOK, PhaseInv, Live, callVars, mainVars,
    finVars, procVars, LifecycleAssumption
<1>1. ASSUME NEW c \in Calls, Schedule(c) PROVE PhaseInv'
  BY <1>1 DEF Schedule
<1>2. ASSUME NEW c \in Calls, Pop(c) PROVE PhaseInv'
  BY <1>2 DEF Pop
<1>3. ASSUME NEW c \in Calls, DeadLetter(c) PROVE PhaseInv'
  BY <1>3 DEF DeadLetter
<1>4. ASSUME NEW c \in Calls, DeadLetterFails(c) PROVE PhaseInv'
  BY <1>4 DEF DeadLetterFails
<1>5. ASSUME NEW c \in Calls, StartCall(c) PROVE PhaseInv'
  BY <1>5 DEF StartCall
<1>6. ASSUME NEW c \in Calls, ManualHangup(c) PROVE PhaseInv'
  BY <1>6 DEF ManualHangup
<1>7. ASSUME NEW c \in Calls, Terminate(c) PROVE PhaseInv'
  BY <1>7 DEF Terminate
<1>8. ASSUME NEW c \in Calls, MainStep(c) PROVE PhaseInv'
  <2>1. MainMoves(c)
    BY <1>8, MainFacts
  <2>2. \A d \in Calls : d # c => main'[d] = main[d] /\ fin'[d] = fin[d]
    BY <2>1 DEF MainMoves
  <2>3. /\ main'[c] # "none" /\ main[c] # "none"
        /\ fin'[c] = "none" <=> main'[c] \notin {"finalizing", "done"}
        /\ fin'[c] = "done" <=> fin[c] = "done"
    BY <2>1 DEF MainMoves
  <2>4. UNCHANGED <<callVars, procVars>>
    BY <2>1 DEF MainMoves
  <2>5. QED
    BY <2>2, <2>3, <2>4
<1>9. ASSUME NEW c \in Calls, FinalizerStep(c) PROVE PhaseInv'
  <2>1. CASE FinMoves(c)
    BY <2>1 DEF FinMoves
  <2>2. CASE Unregister(c)
    BY <2>2 DEF Unregister
  <2>3. QED
    BY <1>9, <2>1, <2>2, FinFacts
<1>10. CASE RequestStop
  BY <1>10 DEF RequestStop
<1>11. CASE CancelAll
  BY <1>11 DEF CancelAll, CancelMains
<1>12. CASE GatherTimeout
  BY <1>12 DEF GatherTimeout, CancelMains
<1>13. CASE GatherReturns
  BY <1>13 DEF GatherReturns
<1>14. CASE ExitProcess
  BY <1>14 DEF ExitProcess
<1>15. CASE UNCHANGED vars
  BY <1>15 DEF vars
<1>16. QED
  BY <1>1, <1>2, <1>3, <1>4, <1>5, <1>6, <1>7, <1>8, <1>9, <1>10, <1>11, <1>12, <1>13,
      <1>14, <1>15, Zenon DEF Next, Dialing, Shutdown

\* Every step keeps the shutdown waiting for what runs.
LEMMA GatherPreserved ==
  ASSUME IInv, [Next]_vars
  PROVE  GatherInv'
<1> USE DEF IInv, TypeOK, PhaseInv, GatherInv, Live, callVars, mainVars, finVars,
    procVars
<1>1. ASSUME NEW c \in Calls, Schedule(c) PROVE GatherInv'
  BY <1>1 DEF Schedule
<1>2. ASSUME NEW c \in Calls, Pop(c) PROVE GatherInv'
  BY <1>2 DEF Pop
<1>3. ASSUME NEW c \in Calls, DeadLetter(c) PROVE GatherInv'
  BY <1>3 DEF DeadLetter
<1>4. ASSUME NEW c \in Calls, DeadLetterFails(c) PROVE GatherInv'
  BY <1>4 DEF DeadLetterFails
<1>5. ASSUME NEW c \in Calls, StartCall(c) PROVE GatherInv'
  BY <1>5 DEF StartCall
<1>6. ASSUME NEW c \in Calls, ManualHangup(c) PROVE GatherInv'
  BY <1>6 DEF ManualHangup
<1>7. ASSUME NEW c \in Calls, Terminate(c) PROVE GatherInv'
  <2>1. UNCHANGED <<main, fin, procVars>>
    BY <1>7, Zenon DEF Terminate
  <2>2. QED
    BY <2>1
<1>8. ASSUME NEW c \in Calls, MainStep(c) PROVE GatherInv'
  <2>1. MainMoves(c)
    BY <1>8, MainFacts
  <2>2. /\ UNCHANGED <<procVars>> /\ proc # "exited"
        /\ main[c] \notin {"none", "done"} /\ (fin[c] = "done" => fin'[c] = "done")
        /\ \A d \in Calls \ {c} : main'[d] = main[d] /\ fin'[d] = fin[d]
    BY <2>1 DEF MainMoves
  <2>3. QED
    BY <2>2
<1>9. ASSUME NEW c \in Calls, FinalizerStep(c) PROVE GatherInv'
  <2>1. CASE FinMoves(c)
    BY <2>1 DEF FinMoves
  <2>2. CASE Unregister(c)
    BY <2>2 DEF Unregister
  <2>3. QED
    BY <1>9, <2>1, <2>2, FinFacts
<1>10. CASE RequestStop
  BY <1>10 DEF RequestStop
<1>11. CASE CancelAll
  BY <1>11 DEF CancelAll, CancelMains
<1>12. CASE GatherTimeout
  BY <1>12 DEF GatherTimeout, CancelMains
<1>13. CASE GatherReturns
  BY <1>13 DEF GatherReturns
<1>14. CASE ExitProcess
  BY <1>14 DEF ExitProcess
<1>15. CASE UNCHANGED vars
  BY <1>15 DEF vars
<1>16. QED
  BY <1>1, <1>2, <1>3, <1>4, <1>5, <1>6, <1>7, <1>8, <1>9, <1>10, <1>11, <1>12, <1>13,
      <1>14, <1>15, Zenon DEF Next, Dialing, Shutdown

\* The orders of the finalizer's steps, by name.
LEMMA OrderFacts ==
  /\ Earlier("persist") = {"none", "capture"}
  /\ Earlier("extract") = {"none", "capture", "persist"}
  /\ Earlier("ended") = {"none", "capture", "persist", "extract"}
  /\ Earlier("decr") = {"none", "capture", "persist", "extract", "ended"}
  /\ Later("persist") = {"extract", "ended", "decr", "snap", "unregister", "done"}
  /\ Later("extract") = {"ended", "decr", "snap", "unregister", "done"}
  /\ Later("ended") = {"decr", "snap", "unregister", "done"}
  /\ Later("decr") = {"snap", "unregister", "done"}
BY DEF Earlier, Later

\* What StepInv says of one call, over its own part of the state.
CallLedger(at, f, ap, n) ==
  /\ at <= 1 + n
  /\ \A s \in Steps :
       /\ ap[s] <= 1 + n
       /\ f \in Earlier(s) => ap[s] = 0
       /\ f = s => ap[s] <= n
       /\ s # "extract" /\ f \in Later(s) => ap[s] >= 1 \/ n >= MaxRetries

\* It survives a fault elsewhere, the start of the finalizer and the exit.
LEMMA LedgerKept ==
  ASSUME NEW at \in Nat, NEW ap \in [Steps -> Nat], NEW n \in Nat, NEW m \in Nat,
         n <= m, NEW f, NEW g, CallLedger(at, f, ap, n),
         \/ g = f \/ g = "killed"
         \/ f = "none" /\ g = "capture"
         \/ f = "capture" /\ g = "persist"
         \/ f = "unregister" /\ g = "done"
  PROVE  CallLedger(at, g, ap, m)
<1>1. at <= 1 + m
  BY DEF CallLedger
<1>2. ASSUME NEW s \in Steps
      PROVE  /\ ap[s] <= 1 + m
             /\ g \in Earlier(s) => ap[s] = 0
             /\ g = s => ap[s] <= m
             /\ s # "extract" /\ g \in Later(s) => ap[s] >= 1 \/ m >= MaxRetries
  <2>1. /\ ap[s] \in Nat
        /\ ap[s] <= 1 + n
        /\ f \in Earlier(s) => ap[s] = 0
        /\ f = s => ap[s] <= n
        /\ s # "extract" /\ f \in Later(s) => ap[s] >= 1 \/ n >= MaxRetries
    BY DEF CallLedger
  <2>2. /\ g \in Earlier(s) => f \in Earlier(s)
        /\ g \in Later(s) => f \in Later(s)
        /\ g = s => f = s \/ f \in Earlier(s)
    BY OrderFacts DEF Steps
  <2>3. MaxRetries = 3
    BY DEF MaxRetries
  <2>4. QED
    BY <2>1, <2>2, <2>3
<1>3. QED
  BY <1>1, <1>2 DEF CallLedger

\* One attempt at step s, before (at, ap, n) and after (bt, g, bp, m).
Attempted(at, s, ap, n, bt, g, bp, m) ==
  /\ \A t \in Steps : t # s => bp[t] = ap[t]
  /\ \/ /\ bp[s] = ap[s] + 1 /\ m = n
        /\ g \in After(s) \/ (s = "decr" /\ g = "snap")
        /\ bt = 1 \/ bt = at
     \/ /\ bp[s] \in {ap[s], ap[s] + 1} /\ m = n + 1
        /\ \/ bt = at + 1 /\ g = s
           \/ bt = 1 /\ at = MaxRetries /\ g \in After(s)

\* It survives an attempt that took effect, or failed before it did.
LEMMA LedgerStep ==
  ASSUME NEW at \in 1..MaxRetries, NEW ap \in [Steps -> Nat], NEW bp \in [Steps -> Nat],
         NEW n \in Nat, NEW m \in Nat, NEW s \in Steps, NEW bt \in 1..MaxRetries, NEW g,
         CallLedger(at, s, ap, n), Attempted(at, s, ap, n, bt, g, bp, m)
  PROVE  CallLedger(bt, g, bp, m)
<1> USE DEF Attempted
<1>0. MaxRetries = 3 /\ at \in Nat /\ bt \in Nat
  BY DEF MaxRetries
<1>1. bt <= 1 + m
  BY <1>0 DEF CallLedger
<1>2. ASSUME NEW t \in Steps
      PROVE  /\ bp[t] <= 1 + m
             /\ g \in Earlier(t) => bp[t] = 0
             /\ g = t => bp[t] <= m
             /\ t # "extract" /\ g \in Later(t) => bp[t] >= 1 \/ m >= MaxRetries
  <2>1. /\ ap[t] \in Nat /\ bp[t] \in Nat
        /\ ap[t] <= 1 + n
        /\ s \in Earlier(t) => ap[t] = 0
        /\ s = t => ap[t] <= n
        /\ t # "extract" /\ s \in Later(t) => ap[t] >= 1 \/ n >= MaxRetries
    BY DEF CallLedger
  <2>2. n <= m /\ at <= 1 + n
    BY DEF CallLedger
  <2>3. CASE t = s
    <3>1. /\ g \notin Earlier(s)
          /\ g = s => bp[s] <= m
      BY <1>0, <2>1, <2>3, OrderFacts, AfterFacts DEF Steps
    <3>2. g \in Later(s) => bp[s] >= 1 \/ m >= MaxRetries
      BY <1>0, <2>1, <2>2, <2>3, OrderFacts, AfterFacts DEF Steps
    <3>3. QED
      BY <2>1, <2>2, <2>3, <3>1, <3>2
  <2>4. CASE t # s
    <3>1. bp[t] = ap[t]
      BY <2>4
    <3>2. /\ g \in Earlier(t) => s \in Earlier(t)
          /\ g = t => s \in Earlier(t)
          /\ t # "extract" /\ g \in Later(t) => s \in Later(t)
      BY <2>4, OrderFacts, AfterFacts DEF Steps
    <3>3. QED
      BY <1>0, <2>1, <2>2, <3>1, <3>2
  <2>5. QED
    BY <2>3, <2>4
<1>3. QED
  BY <1>1, <1>2 DEF CallLedger

\* It survives the SET 0 and its failure.
LEMMA LedgerSnap ==
  ASSUME NEW at \in 1..MaxRetries, NEW ap \in [Steps -> Nat],
         NEW n \in Nat, NEW m \in Nat, NEW bt \in 1..MaxRetries, NEW g,
         CallLedger(at, "snap", ap, n),
         \/ m = n /\ bt = 1 /\ g = "unregister"
         \/ m = n + 1 /\ bt = at + 1 /\ g = "decr"
         \/ m = n + 1 /\ bt = 1 /\ g = "unregister"
  PROVE  CallLedger(bt, g, ap, m)
<1>0. MaxRetries = 3 /\ at \in Nat /\ bt \in Nat
  BY DEF MaxRetries
<1>1. bt <= 1 + m
  BY <1>0 DEF CallLedger
<1>2. ASSUME NEW t \in Steps
      PROVE  /\ ap[t] <= 1 + m
             /\ g \in Earlier(t) => ap[t] = 0
             /\ g = t => ap[t] <= m
             /\ t # "extract" /\ g \in Later(t) => ap[t] >= 1 \/ m >= MaxRetries
  <2>1. /\ ap[t] \in Nat
        /\ ap[t] <= 1 + n
        /\ t # "extract" /\ "snap" \in Later(t) => ap[t] >= 1 \/ n >= MaxRetries
    BY DEF CallLedger
  <2>2. g \notin Earlier(t) /\ "snap" \in Later(t) /\ n <= m
    BY OrderFacts DEF Steps
  <2>3. g = t => m = n + 1
    BY DEF Steps
  <2>4. QED
    BY <1>0, <2>1, <2>2, <2>3
<1>3. QED
  BY <1>1, <1>2 DEF CallLedger

\* StepInv, call by call.
LEMMA StepInvByCall ==
  StepInv <=> \A c \in Calls : CallLedger(attempt[c], fin[c], applied[c], faults)
BY DEF StepInv, CallLedger

\* A step that leaves the ledger alone keeps StepInv.
LEMMA StepInvKept ==
  ASSUME TypeOK, TypeOK', StepInv, UNCHANGED <<attempt, applied>>, faults <= faults',
         \A c \in Calls :
           LET f == fin[c]
               g == fin'[c]
           IN  \/ g = f \/ g = "killed"
               \/ f = "none" /\ g = "capture"
               \/ f = "capture" /\ g = "persist"
               \/ f = "unregister" /\ g = "done"
  PROVE  StepInv'
<1>1. ASSUME NEW c \in Calls
      PROVE  CallLedger(attempt'[c], fin'[c], applied'[c], faults')
  <2>1. CallLedger(attempt[c], fin[c], applied[c], faults)
    BY StepInvByCall, Zenon
  <2>2. /\ attempt[c] \in Nat /\ applied[c] \in [Steps -> Nat]
        /\ faults \in Nat /\ faults' \in Nat
    BY DEF TypeOK
  <2>3. CallLedger(attempt[c], fin'[c], applied[c], faults')
    BY <2>1, <2>2, LedgerKept
  <2>4. QED
    BY <2>3
<1>2. QED
  BY <1>1, StepInvByCall, Zenon DEF StepInv, CallLedger

\* A step of one finalizer keeps StepInv if it keeps it for its own call.
LEMMA StepInvOwn ==
  ASSUME TypeOK, TypeOK', StepInv, NEW c \in Calls, faults <= faults',
         \A d \in Calls : d # c => /\ attempt'[d] = attempt[d] /\ fin'[d] = fin[d]
                                   /\ applied'[d] = applied[d],
         CallLedger(attempt'[c], fin'[c], applied'[c], faults')
  PROVE  StepInv'
<1>1. ASSUME NEW d \in Calls, d # c
      PROVE  CallLedger(attempt'[d], fin'[d], applied'[d], faults')
  <2>1. CallLedger(attempt[d], fin[d], applied[d], faults)
    BY StepInvByCall
  <2>2. /\ attempt[d] \in Nat /\ applied[d] \in [Steps -> Nat]
        /\ faults \in Nat /\ faults' \in Nat
    BY DEF TypeOK
  <2>3. CallLedger(attempt[d], fin[d], applied[d], faults')
    BY <2>1, <2>2, LedgerKept, Zenon
  <2>4. QED
    BY <1>1, <2>3
<1>2. \A d \in Calls : CallLedger(attempt'[d], fin'[d], applied'[d], faults')
  BY <1>1
<1>3. QED
  BY <1>2 DEF StepInv, CallLedger

\* Every step keeps the ledger of the finalizers.
LEMMA StepPreserved ==
  ASSUME IInv, TypeOK', [Next]_vars
  PROVE  StepInv'
<1>0. /\ TypeOK /\ PhaseInv /\ StepInv /\ CounterInv
      /\ fin \in [Calls -> FinStates]
      /\ attempt \in [Calls -> 1..MaxRetries]
      /\ applied \in [Calls -> [Steps -> Nat]] /\ applied' \in [Calls -> [Steps -> Nat]]
      /\ attempt' \in [Calls -> 1..MaxRetries]
      /\ faults \in Nat /\ faults' \in Nat /\ counter \in Int /\ counter' \in Int
  BY OwnTypes, Zenon DEF IInv, TypeOK
<1>1. ASSUME NEW c \in Calls, Schedule(c) PROVE StepInv'
  BY <1>0, <1>1, StepInvKept DEF Schedule, finVars
<1>2. ASSUME NEW c \in Calls, Pop(c) PROVE StepInv'
  BY <1>0, <1>2, StepInvKept DEF Pop, finVars
<1>3. ASSUME NEW c \in Calls, DeadLetter(c) PROVE StepInv'
  BY <1>0, <1>3, StepInvKept DEF DeadLetter, finVars
<1>4. ASSUME NEW c \in Calls, DeadLetterFails(c) PROVE StepInv'
  BY <1>0, <1>4, StepInvKept DEF DeadLetterFails, finVars
<1>5. ASSUME NEW c \in Calls, StartCall(c) PROVE StepInv'
  BY <1>0, <1>5, StepInvKept DEF StartCall, finVars
<1>6. ASSUME NEW c \in Calls, ManualHangup(c) PROVE StepInv'
  BY <1>0, <1>6, StepInvKept DEF ManualHangup, finVars
<1>7. ASSUME NEW c \in Calls, Terminate(c) PROVE StepInv'
  BY <1>0, <1>7, StepInvKept DEF Terminate, finVars
<1>8. ASSUME NEW c \in Calls, MainStep(c) PROVE StepInv'
  <2>1. MainMoves(c)
    BY <1>8, MainFacts
  <2>2. UNCHANGED <<attempt, applied, faults>>
    BY <2>1 DEF MainMoves
  <2>3. \A d \in Calls : fin'[d] = fin[d] \/ (fin[d] = "none" /\ fin'[d] = "capture")
    BY <1>0, <2>1 DEF MainMoves, PhaseInv
  <2>4. QED
    BY <1>0, <2>2, <2>3, StepInvKept
<1>9. ASSUME NEW c \in Calls, Capture(c) PROVE StepInv'
  <2>1. UNCHANGED <<attempt, applied, faults>>
    BY <1>9 DEF Capture
  <2>2. \A d \in Calls : \/ fin'[d] = fin[d] \/ (fin[d] = "capture" /\ fin'[d] = "persist")
                         \/ (fin[d] = "unregister" /\ fin'[d] = "done")
    BY <1>0, <1>9 DEF Capture
  <2>3. QED
    BY <1>0, <2>1, <2>2, StepInvKept
<1>10. ASSUME NEW c \in Calls, NEW s \in Steps, StepSucceeds(c, s) PROVE StepInv'
  <2>1. /\ fin[c] = s /\ TakesEffect(c, s) /\ faults' = faults
        /\ \/ s = "decr" /\ fin' = [fin EXCEPT ![c] = "snap"] /\ attempt' = attempt
           \/ Proceed(c, s)
    BY <1>10 DEF StepSucceeds
  <2>2. PICK g \in After(s) \union {"snap"}, bt \in {1, attempt[c]} :
          /\ g \in After(s) \/ (s = "decr" /\ g = "snap")
          /\ fin' = [fin EXCEPT ![c] = g] /\ attempt' = [attempt EXCEPT ![c] = bt]
    <3>1. CASE s = "decr" /\ fin' = [fin EXCEPT ![c] = "snap"] /\ attempt' = attempt
      <4>1. attempt' = [attempt EXCEPT ![c] = attempt[c]]
        BY <1>0, <3>1
      <4>2. QED
        BY <3>1, <4>1, Zenon
    <3>2. CASE Proceed(c, s)
      BY <3>2, Zenon DEF Proceed
    <3>3. QED
      BY <2>1, <3>1, <3>2
  <2>3. /\ attempt[c] \in 1..MaxRetries /\ attempt'[c] \in 1..MaxRetries
        /\ applied[c] \in [Steps -> Nat] /\ applied'[c] \in [Steps -> Nat]
        /\ faults \in Nat /\ faults' \in Nat
    BY <1>0
  <2>4. fin'[c] = g /\ attempt'[c] = bt
    BY <1>0, <2>2
  <2>5. CallLedger(attempt[c], s, applied[c], faults)
    BY <1>0, <2>1, StepInvByCall
  <2>6. /\ applied'[c][s] = applied[c][s] + 1
        /\ \A t \in Steps : t # s => applied'[c][t] = applied[c][t]
        /\ \A d \in Calls : d # c => applied'[d] = applied[d]
    BY <1>0, <2>1, EffectFacts
  <2>11. /\ applied'[c][s] = applied[c][s] + 1 /\ faults' = faults
         /\ fin'[c] \in After(s) \/ (s = "decr" /\ fin'[c] = "snap")
         /\ attempt'[c] = 1 \/ attempt'[c] = attempt[c]
    BY <2>1, <2>2, <2>4, <2>6, Zenon
  <2>12. Attempted(attempt[c], s, applied[c], faults, attempt'[c], fin'[c], applied'[c], faults')
    BY <2>6, <2>11, Zenon DEF Attempted
  <2>7. CallLedger(attempt'[c], fin'[c], applied'[c], faults')
    BY <2>3, <2>5, <2>12, LedgerStep, Zenon
  <2>8. \A d \in Calls : d # c => attempt'[d] = attempt[d] /\ fin'[d] = fin[d]
    BY <1>0, <2>2
  <2>9. faults <= faults'
    BY <1>0, <2>1
  <2>10. QED
    BY <1>0, <2>6, <2>7, <2>8, <2>9, StepInvOwn
<1>11. ASSUME NEW c \in Calls, NEW s \in Steps, NEW k \in FaultKinds, StepFails(c, s,
    k) PROVE StepInv'
  <2>1. /\ fin[c] = s /\ RetryOrGiveUp(c, s) /\ faults' = faults + 1
        /\ TakesEffect(c, s) \/ applied' = applied
    BY <1>11 DEF StepFails
  <2>2. PICK g \in After(s) \union {s}, bt \in {1, attempt[c] + 1} :
          /\ \/ bt = attempt[c] + 1 /\ g = s
             \/ bt = 1 /\ attempt[c] = MaxRetries /\ g \in After(s)
          /\ fin' = [fin EXCEPT ![c] = g] /\ attempt' = [attempt EXCEPT ![c] = bt]
    BY <1>0, <2>1, RetryFacts, Zenon
  <2>3. /\ attempt[c] \in 1..MaxRetries /\ attempt'[c] \in 1..MaxRetries
        /\ applied[c] \in [Steps -> Nat] /\ applied'[c] \in [Steps -> Nat]
        /\ faults \in Nat /\ faults' \in Nat
    BY <1>0
  <2>4. fin'[c] = g /\ attempt'[c] = bt
    BY <1>0, <2>2
  <2>5. CallLedger(attempt[c], s, applied[c], faults)
    BY <1>0, <2>1, StepInvByCall
  <2>6. /\ applied'[c][s] \in {applied[c][s], applied[c][s] + 1}
        /\ \A t \in Steps : t # s => applied'[c][t] = applied[c][t]
        /\ \A d \in Calls : d # c => applied'[d] = applied[d]
    BY <1>0, <2>1, EffectFacts
  <2>11. /\ applied'[c][s] \in {applied[c][s], applied[c][s] + 1} /\ faults' = faults + 1
         /\ \/ attempt'[c] = attempt[c] + 1 /\ fin'[c] = s
            \/ attempt'[c] = 1 /\ attempt[c] = MaxRetries /\ fin'[c] \in After(s)
    BY <2>1, <2>2, <2>4, <2>6, Zenon
  <2>12. Attempted(attempt[c], s, applied[c], faults, attempt'[c], fin'[c], applied'[c], faults')
    BY <2>6, <2>11, Zenon DEF Attempted
  <2>7. CallLedger(attempt'[c], fin'[c], applied'[c], faults')
    BY <2>3, <2>5, <2>12, LedgerStep, Zenon
  <2>8. \A d \in Calls : d # c => attempt'[d] = attempt[d] /\ fin'[d] = fin[d]
    BY <1>0, <2>2
  <2>9. faults <= faults'
    BY <1>0, <2>1
  <2>10. QED
    BY <1>0, <2>6, <2>7, <2>8, <2>9, StepInvOwn
<1>12. ASSUME NEW c \in Calls, SnapToZero(c) PROVE StepInv'
  <2>1. /\ fin[c] = "snap" /\ applied' = applied
        /\ faults' = faults /\ Proceed(c, "decr")
    BY <1>12 DEF SnapToZero
  <2>2. PICK g \in {"decr", "unregister"}, bt \in {1, attempt[c] + 1} :
          /\ \/ faults' = faults /\ bt = 1 /\ g = "unregister"
             \/ faults' = faults + 1 /\ bt = attempt[c] + 1 /\ g = "decr"
             \/ faults' = faults + 1 /\ bt = 1 /\ g = "unregister"
          /\ fin' = [fin EXCEPT ![c] = g] /\ attempt' = [attempt EXCEPT ![c] = bt]
    BY <1>0, <2>1, RetryFacts, ProceedFacts, AfterFacts DEF Steps
  <2>3. /\ attempt[c] \in 1..MaxRetries /\ attempt'[c] \in 1..MaxRetries
        /\ applied[c] \in [Steps -> Nat]
        /\ faults \in Nat /\ faults' \in Nat
    BY <1>0
  <2>4. fin'[c] = g /\ attempt'[c] = bt
    BY <1>0, <2>2
  <2>5. CallLedger(attempt[c], "snap", applied[c], faults)
    BY <1>0, <2>1, StepInvByCall
  <2>6. CallLedger(attempt'[c], fin'[c], applied[c], faults')
    BY <2>2, <2>3, <2>4, <2>5, LedgerSnap
  <2>7. \A d \in Calls : d # c => attempt'[d] = attempt[d] /\ fin'[d] = fin[d]
    BY <1>0, <2>2
  <2>8. faults <= faults'
    <3>1. faults' = faults \/ faults' = faults + 1
      BY <2>1
    <3>2. faults \in Nat
      BY <1>0
    <3>3. QED
      BY <3>1, <3>2
  <2>9. QED
    BY <1>0, <2>1, <2>6, <2>7, <2>8, StepInvOwn
<1>13. ASSUME NEW c \in Calls, NEW k \in FaultKinds, SnapFails(c, k) PROVE StepInv'
  <2>1. /\ fin[c] = "snap" /\ applied' = applied
        /\ faults' = faults + 1 /\ RetryOrGiveUp(c, "decr")
    BY <1>13 DEF SnapFails
  <2>2. PICK g \in {"decr", "unregister"}, bt \in {1, attempt[c] + 1} :
          /\ \/ faults' = faults /\ bt = 1 /\ g = "unregister"
             \/ faults' = faults + 1 /\ bt = attempt[c] + 1 /\ g = "decr"
             \/ faults' = faults + 1 /\ bt = 1 /\ g = "unregister"
          /\ fin' = [fin EXCEPT ![c] = g] /\ attempt' = [attempt EXCEPT ![c] = bt]
    BY <1>0, <2>1, RetryFacts, ProceedFacts, AfterFacts DEF Steps
  <2>3. /\ attempt[c] \in 1..MaxRetries /\ attempt'[c] \in 1..MaxRetries
        /\ applied[c] \in [Steps -> Nat]
        /\ faults \in Nat /\ faults' \in Nat
    BY <1>0
  <2>4. fin'[c] = g /\ attempt'[c] = bt
    BY <1>0, <2>2
  <2>5. CallLedger(attempt[c], "snap", applied[c], faults)
    BY <1>0, <2>1, StepInvByCall
  <2>6. CallLedger(attempt'[c], fin'[c], applied[c], faults')
    BY <2>2, <2>3, <2>4, <2>5, LedgerSnap
  <2>7. \A d \in Calls : d # c => attempt'[d] = attempt[d] /\ fin'[d] = fin[d]
    BY <1>0, <2>2
  <2>8. faults <= faults'
    <3>1. faults' = faults \/ faults' = faults + 1
      BY <2>1
    <3>2. faults \in Nat
      BY <1>0
    <3>3. QED
      BY <3>1, <3>2
  <2>9. QED
    BY <1>0, <2>1, <2>6, <2>7, <2>8, StepInvOwn
<1>14. ASSUME NEW c \in Calls, Unregister(c) PROVE StepInv'
  <2>1. UNCHANGED <<attempt, applied, faults>>
    BY <1>14 DEF Unregister
  <2>2. \A d \in Calls : \/ fin'[d] = fin[d] \/ (fin[d] = "capture" /\ fin'[d] = "persist")
                         \/ (fin[d] = "unregister" /\ fin'[d] = "done")
    BY <1>0, <1>14 DEF Unregister
  <2>3. QED
    BY <1>0, <2>1, <2>2, StepInvKept
<1>15. CASE RequestStop
  BY <1>0, <1>15, StepInvKept DEF RequestStop, finVars
<1>16. CASE CancelAll
  BY <1>0, <1>16, StepInvKept DEF CancelAll, finVars
<1>17. CASE GatherTimeout
  BY <1>0, <1>17, StepInvKept DEF GatherTimeout, finVars
<1>18. CASE GatherReturns
  BY <1>0, <1>18, StepInvKept DEF GatherReturns, finVars
<1>19. CASE ExitProcess
  BY <1>0, <1>19, StepInvKept DEF ExitProcess, finVars
<1>20. CASE UNCHANGED vars
  BY <1>0, <1>20, StepInvKept DEF vars, finVars
<1>21. QED
  BY <1>1, <1>2, <1>3, <1>4, <1>5, <1>6, <1>7, <1>8, <1>9, <1>10, <1>11, <1>12, <1>13,
    <1>14, <1>15, <1>16, <1>17, <1>18, <1>19, <1>20 DEF Next, Dialing, FinalizerStep,
    Shutdown

-----------------------------------------------------------------------------
\* The slots and the counter.
INSTANCE FiniteSetTheorems

\* The slots are finitely many.
LEMMA SlotsFinite ==
  IsFiniteSet(Slots) /\ Cardinality(Slots) \in Nat
<1>1. IsFiniteSet(Calls) /\ Slots \subseteq Calls
  BY LifecycleAssumption DEF LifecycleAssumption, Slots
<1>2. IsFiniteSet(Slots)
  BY <1>1, FS_Subset
<1>3. QED
  BY <1>2, FS_CardinalityType

\* A step that neither schedules nor gives back keeps the counter right.
LEMMA CounterKept ==
  ASSUME TypeOK, TypeOK', CounterInv,
         counter' = counter, faults <= faults',
         \A c \in Calls : req'[c] = "idle" <=> req[c] = "idle",
         \A c \in Calls : applied'[c]["decr"] = applied[c]["decr"],
         \A c \in Calls : fin'[c] = "snap" => fin[c] = "snap",
         \A c \in Calls : fin[c] \in {"snap", "decr", "killed"} =>
                            fin'[c] \in {"snap", "decr", "killed"} \/ faults' >= MaxRetries
  PROVE  CounterInv'
<1>1. Slots' = Slots
  BY Zenon DEF Slots, HoldsSlot
<1>2. OverReleased' <=> OverReleased
  BY DEF OverReleased
<1>3. SlotAccounting'
  BY <1>1, <1>2 DEF CounterInv, SlotAccounting
<1>4. SnapInv'
  BY <1>2 DEF CounterInv, SnapInv
<1>5. counter' < 0 => \/ faults' >= MaxRetries
                     \/ \E c \in Calls : fin'[c] \in {"snap", "decr", "killed"}
  <2>1. counter < 0 => \/ faults >= MaxRetries
                       \/ \E c \in Calls : fin[c] \in {"snap", "decr", "killed"}
    BY DEF CounterInv, CounterRepaired
  <2>2. faults >= MaxRetries => faults' >= MaxRetries
    <3>1. faults \in Nat /\ faults' \in Nat /\ MaxRetries = 3
      BY DEF TypeOK, MaxRetries
    <3>2. QED
      BY <3>1
  <2>3. QED
    BY <2>1, <2>2
<1>6. QED
  BY <1>1, <1>3, <1>4, <1>5, Zenon DEF CounterInv, CounterRepaired

\* Giving a slot back takes the call out of Slots, and gives back too much if
\* it was not there.
LEMMA DecrFacts ==
  ASSUME TypeOK, PhaseInv, CounterInv, NEW c \in Calls, fin[c] = "decr",
         TakesEffect(c, "decr"), req' = req
  PROVE  /\ counter' = counter - 1
         /\ ~OverReleased' => /\ ~OverReleased
                              /\ Cardinality(Slots') = Cardinality(Slots) - 1
         /\ Cardinality(Slots') >= Cardinality(Slots) - 1
         /\ Cardinality(Slots') \in Nat /\ Cardinality(Slots) \in Nat
<1>0. "decr" \in Steps
  BY DEF Steps
<1>1. /\ applied'[c]["decr"] = applied[c]["decr"] + 1
      /\ \A d \in Calls : d # c => applied'[d]["decr"] = applied[d]["decr"]
      /\ counter' = counter - 1
      /\ \A d \in Calls : applied[d]["decr"] \in Nat /\ applied'[d]["decr"] \in Nat
  <2>1. applied \in [Calls -> [Steps -> Nat]]
    BY OwnTypes
  <2>2. QED
    BY <1>0, <2>1, EffectFacts
<1>2. Slots' = Slots \ {c}
  <2>1. ASSUME NEW d \in Calls, d # c PROVE applied'[d]["decr"] = 0 <=> applied[d]["decr"] = 0
    BY <1>1, <2>1
  <2>2. applied'[c]["decr"] # 0
    <3>1. applied[c]["decr"] \in Nat /\ applied'[c]["decr"] = applied[c]["decr"] + 1
      BY <1>1
    <3>2. QED
      BY <3>1
  <2>3. QED
    BY <2>1, <2>2 DEF Slots, HoldsSlot
<1>3. OverReleased => OverReleased'
  <2>1. ASSUME NEW d \in Calls, applied[d]["decr"] > (IF d \in Unscheduled THEN 0 ELSE 1)
        PROVE  applied'[d]["decr"] > (IF d \in Unscheduled THEN 0 ELSE 1)
    BY <1>1, <2>1
  <2>2. QED
    BY <2>1 DEF OverReleased
<1>4. c \notin Slots => OverReleased'
  <2>1. SUFFICES ASSUME c \notin Slots
                 PROVE  applied'[c]["decr"] > (IF c \in Unscheduled THEN 0 ELSE 1)
    BY DEF OverReleased
  <2>2. req[c] # "idle"
    BY Zenon DEF PhaseInv, TypeOK
  <2>3. c \in Unscheduled \/ applied[c]["decr"] # 0
    BY <2>1, <2>2 DEF Slots, HoldsSlot
  <2>4. QED
    BY <1>1, <2>3
<1>5. IsFiniteSet(Slots) /\ Cardinality(Slots) \in Nat
  BY SlotsFinite
<1>6. /\ c \in Slots => Cardinality(Slots') = Cardinality(Slots) - 1
      /\ c \notin Slots => Cardinality(Slots') = Cardinality(Slots)
  <2>1. Cardinality(Slots \ {c}) = IF c \in Slots THEN Cardinality(Slots) - 1
                                   ELSE Cardinality(Slots)
    BY <1>5, FS_RemoveElement, Zenon
  <2>2. QED
    BY <1>2, <2>1
<1>7. Cardinality(Slots') \in Nat
  BY <1>2, <1>5, FS_RemoveElement, FS_CardinalityType, Zenon
<1>8. Cardinality(Slots') >= Cardinality(Slots) - 1
  BY <1>5, <1>6
<1>9. ~OverReleased' => ~OverReleased /\ Cardinality(Slots') = Cardinality(Slots) - 1
  BY <1>3, <1>4, <1>6
<1>10. QED
  BY <1>1, <1>5, <1>7, <1>8, <1>9, Zenon

\* Scheduling a call takes one slot.
LEMMA ScheduleFacts ==
  ASSUME TypeOK, PhaseInv, StepInv, NEW c \in Calls, Schedule(c)
  PROVE  /\ OverReleased' <=> OverReleased
         /\ counter' - counter = Cardinality(Slots') - Cardinality(Slots)
         /\ Cardinality(Slots') \in Nat /\ Cardinality(Slots) \in Nat
         /\ counter' >= counter
<1>1. applied' = applied /\ req' = [req EXCEPT ![c] = "queued"] /\ req[c] = "idle"
  BY DEF Schedule
<1>2. OverReleased' <=> OverReleased
  BY <1>1 DEF OverReleased
<1>3. IsFiniteSet(Slots) /\ Cardinality(Slots) \in Nat /\ counter \in Int
  BY SlotsFinite DEF TypeOK
<1>4. c \notin Slots
  BY <1>1 DEF Slots, HoldsSlot
<1>5. CASE c \in Unscheduled
  <2>1. Slots' = Slots
    BY <1>1, <1>5 DEF Slots, HoldsSlot, TypeOK
  <2>2. counter' = counter
    BY <1>5 DEF Schedule
  <2>3. QED
    BY <1>2, <1>3, <2>1, <2>2
<1>6. CASE c \notin Unscheduled
  <2>1. applied[c]["decr"] = 0
    <3>1. fin[c] = "none"
      BY <1>1 DEF PhaseInv
    <3>2. QED
      BY <3>1, OrderFacts DEF StepInv, Steps
  <2>2. Slots' = Slots \union {c}
    BY <1>1, <1>6, <2>1 DEF Slots, HoldsSlot, TypeOK
  <2>3. Cardinality(Slots \union {c}) = Cardinality(Slots) + 1
    BY <1>3, <1>4, FS_AddElement, Zenon
  <2>4. counter' = counter + 1
    BY <1>6 DEF Schedule
  <2>5. Cardinality(Slots') = Cardinality(Slots) + 1
    BY <2>2, <2>3
  <2>6. QED
    BY <1>2, <1>3, <2>4, <2>5
<1>7. QED
  BY <1>5, <1>6

\* Every step keeps the concurrency counter right.
LEMMA CounterPreserved ==
  ASSUME IInv, TypeOK', [Next]_vars
  PROVE  CounterInv'
<1>0. /\ TypeOK /\ PhaseInv /\ StepInv /\ CounterInv
      /\ fin \in [Calls -> FinStates]
      /\ attempt \in [Calls -> 1..MaxRetries]
      /\ applied \in [Calls -> [Steps -> Nat]] /\ applied' \in [Calls -> [Steps -> Nat]]
      /\ attempt' \in [Calls -> 1..MaxRetries]
      /\ faults \in Nat /\ faults' \in Nat /\ counter \in Int /\ counter' \in Int
  BY OwnTypes, Zenon DEF IInv, TypeOK
<1>1. ASSUME NEW c \in Calls, Schedule(c) PROVE CounterInv'
  <2>1. /\ OverReleased' <=> OverReleased
        /\ counter' - counter = Cardinality(Slots') - Cardinality(Slots)
        /\ Cardinality(Slots') \in Nat /\ Cardinality(Slots) \in Nat
        /\ counter' >= counter /\ counter \in Int /\ counter' \in Int
    BY <1>0, <1>1, ScheduleFacts
  <2>2. fin' = fin /\ faults' = faults
    BY <1>1 DEF Schedule
  <2>3. SlotAccounting'
    <3>1. ~OverReleased => counter = Cardinality(Slots)
      BY <1>0 DEF CounterInv, SlotAccounting
    <3>2. counter = Cardinality(Slots) => counter' = Cardinality(Slots')
      BY <2>1
    <3>3. QED
      BY <2>1, <3>1, <3>2 DEF SlotAccounting
  <2>4. SnapInv'
    BY <1>0, <2>1, <2>2 DEF CounterInv, SnapInv
  <2>5. CounterRepaired'
    BY <1>0, <2>1, <2>2 DEF CounterInv, CounterRepaired
  <2>6. QED
    BY <2>3, <2>4, <2>5 DEF CounterInv
<1>2. ASSUME NEW c \in Calls, Pop(c) PROVE CounterInv'
  <2>1. /\ UNCHANGED <<applied, counter>>
        /\ faults' = faults \/ faults' = faults + 1
        /\ \A d \in Calls : req'[d] = "idle" <=> req[d] = "idle"
    <3>1. req \in [Calls -> {"idle", "queued", "handling", "dlq", "lost", "session"}]
      BY <1>0, Zenon DEF TypeOK
    <3>2. QED
      BY <1>0, <3>1, <1>2 DEF Pop, PhaseInv, callVars, finVars
  <2>4. faults <= faults'
    <3>1. faults \in Nat
      BY <1>0
    <3>2. QED
      BY <2>1, <3>1
  <2>2. \A d \in Calls : fin'[d] = fin[d] \/ (fin[d] # "none" /\ fin'[d] = "killed")
    BY <1>0, <1>2 DEF Pop, finVars
  <2>3. QED
    BY <1>0, <2>1, <2>2, <2>4, CounterKept, Zenon
<1>3. ASSUME NEW c \in Calls, DeadLetter(c) PROVE CounterInv'
  <2>1. /\ UNCHANGED <<applied, counter>>
        /\ faults' = faults \/ faults' = faults + 1
        /\ \A d \in Calls : req'[d] = "idle" <=> req[d] = "idle"
    <3>1. req \in [Calls -> {"idle", "queued", "handling", "dlq", "lost", "session"}]
      BY <1>0, Zenon DEF TypeOK
    <3>2. QED
      BY <1>0, <3>1, <1>3 DEF DeadLetter, PhaseInv, callVars, finVars
  <2>4. faults <= faults'
    <3>1. faults \in Nat
      BY <1>0
    <3>2. QED
      BY <2>1, <3>1
  <2>2. \A d \in Calls : fin'[d] = fin[d] \/ (fin[d] # "none" /\ fin'[d] = "killed")
    BY <1>0, <1>3 DEF DeadLetter, finVars
  <2>3. QED
    BY <1>0, <2>1, <2>2, <2>4, CounterKept
<1>4. ASSUME NEW c \in Calls, DeadLetterFails(c) PROVE CounterInv'
  <2>1. /\ UNCHANGED <<applied, counter>>
        /\ faults' = faults \/ faults' = faults + 1
        /\ \A d \in Calls : req'[d] = "idle" <=> req[d] = "idle"
    <3>1. req \in [Calls -> {"idle", "queued", "handling", "dlq", "lost", "session"}]
      BY <1>0 DEF TypeOK
    <3>2. QED
      BY <1>0, <3>1, <1>4 DEF DeadLetterFails, PhaseInv, callVars, finVars
  <2>4. faults <= faults'
    <3>1. faults \in Nat
      BY <1>0
    <3>2. QED
      BY <2>1, <3>1
  <2>2. \A d \in Calls : fin'[d] = fin[d] \/ (fin[d] # "none" /\ fin'[d] = "killed")
    BY <1>0, <1>4 DEF DeadLetterFails, finVars
  <2>3. QED
    BY <1>0, <2>1, <2>2, <2>4, CounterKept
<1>5. ASSUME NEW c \in Calls, StartCall(c) PROVE CounterInv'
  <2>1. /\ UNCHANGED <<applied, counter>>
        /\ faults' = faults \/ faults' = faults + 1
        /\ \A d \in Calls : req'[d] = "idle" <=> req[d] = "idle"
    <3>1. req \in [Calls -> {"idle", "queued", "handling", "dlq", "lost", "session"}]
      BY <1>0 DEF TypeOK
    <3>2. QED
      BY <1>0, <3>1, <1>5 DEF StartCall, PhaseInv, callVars, finVars
  <2>4. faults <= faults'
    <3>1. faults \in Nat
      BY <1>0
    <3>2. QED
      BY <2>1, <3>1
  <2>2. \A d \in Calls : fin'[d] = fin[d] \/ (fin[d] # "none" /\ fin'[d] = "killed")
    BY <1>0, <1>5 DEF StartCall, finVars
  <2>3. QED
    BY <1>0, <2>1, <2>2, <2>4, CounterKept
<1>6. ASSUME NEW c \in Calls, ManualHangup(c) PROVE CounterInv'
  <2>1. /\ UNCHANGED <<applied, counter>>
        /\ faults' = faults \/ faults' = faults + 1
        /\ \A d \in Calls : req'[d] = "idle" <=> req[d] = "idle"
    <3>1. req \in [Calls -> {"idle", "queued", "handling", "dlq", "lost", "session"}]
      BY <1>0 DEF TypeOK
    <3>2. QED
      BY <1>0, <3>1, <1>6 DEF ManualHangup, PhaseInv, callVars, finVars
  <2>4. faults <= faults'
    <3>1. faults \in Nat
      BY <1>0
    <3>2. QED
      BY <2>1, <3>1
  <2>2. \A d \in Calls : fin'[d] = fin[d] \/ (fin[d] # "none" /\ fin'[d] = "killed")
    BY <1>0, <1>6 DEF ManualHangup, finVars
  <2>3. QED
    BY <1>0, <2>1, <2>2, <2>4, CounterKept
<1>7. ASSUME NEW c \in Calls, Terminate(c) PROVE CounterInv'
  <2>1. /\ UNCHANGED <<applied, counter>>
        /\ faults' = faults \/ faults' = faults + 1
        /\ \A d \in Calls : req'[d] = "idle" <=> req[d] = "idle"
    <3>1. req \in [Calls -> {"idle", "queued", "handling", "dlq", "lost", "session"}]
      BY <1>0 DEF TypeOK
    <3>2. QED
      BY <1>0, <3>1, <1>7 DEF Terminate, PhaseInv, callVars, finVars
  <2>4. faults <= faults'
    <3>1. faults \in Nat
      BY <1>0
    <3>2. QED
      BY <2>1, <3>1
  <2>2. \A d \in Calls : fin'[d] = fin[d] \/ (fin[d] # "none" /\ fin'[d] = "killed")
    BY <1>0, <1>7 DEF Terminate, finVars
  <2>3. QED
    BY <1>0, <2>1, <2>2, <2>4, CounterKept
<1>8. ASSUME NEW c \in Calls, MainStep(c) PROVE CounterInv'
  <2>1. MainMoves(c)
    BY <1>8, MainFacts
  <2>2. UNCHANGED <<req, applied, counter, faults>>
    BY <2>1 DEF MainMoves, callVars
  <2>3. \A d \in Calls : fin'[d] = fin[d] \/ (fin[d] = "none" /\ fin'[d] = "capture")
    BY <1>0, <2>1 DEF MainMoves, PhaseInv
  <2>4. faults <= faults'
    <3>1. faults \in Nat /\ faults' = faults
      BY <1>0, <2>2
    <3>2. QED
      BY <3>1
  <2>5. QED
    BY <1>0, <2>2, <2>3, <2>4, CounterKept
<1>9. ASSUME NEW c \in Calls, Capture(c) PROVE CounterInv'
  <2>1. UNCHANGED <<req, applied, counter, faults>>
    BY <1>9 DEF Capture, callVars
  <2>2. \A d \in Calls : /\ fin'[d] = "snap" => fin[d] = "snap"
                         /\ fin[d] \in {"snap", "decr", "killed"} => fin'[d] = fin[d]
    BY <1>0, <1>9 DEF Capture
  <2>3. QED
    BY <1>0, <2>1, <2>2, CounterKept
<1>10. ASSUME NEW c \in Calls, NEW s \in Steps, StepSucceeds(c, s) PROVE CounterInv'
  <2>1. fin[c] = s /\ TakesEffect(c, s) /\ UNCHANGED <<callVars, faults>>
    BY <1>10 DEF StepSucceeds
  <2>2. CASE s # "decr"
    <3>1. counter' = counter /\ \A d \in Calls : applied'[d]["decr"] = applied[d]["decr"]
      BY <1>0, <2>1, <2>2, EffectFacts DEF Steps
    <3>2. Proceed(c, s)
      BY <1>10, <2>2 DEF StepSucceeds
    <3>3. \A d \in Calls : /\ fin'[d] = "snap" => fin[d] = "snap"
                           /\ fin[d] \in {"snap", "decr", "killed"} => fin'[d] = fin[d]
      BY <1>0, <2>1, <2>2, <3>2, ProceedMoves DEF Steps
    <3>4. req' = req /\ faults <= faults'
      BY <1>0, <2>1 DEF callVars
    <3>5. QED
      BY <1>0, <3>1, <3>3, <3>4, CounterKept, Zenon
  <2>3. CASE s = "decr"
    <3>1. /\ counter' = counter - 1 /\ counter \in Int
          /\ ~OverReleased' => /\ ~OverReleased
                               /\ Cardinality(Slots') = Cardinality(Slots) - 1
          /\ Cardinality(Slots') >= Cardinality(Slots) - 1
          /\ Cardinality(Slots') \in Nat /\ Cardinality(Slots) \in Nat
      BY <1>0, <2>1, <2>3, DecrFacts, Zenon DEF callVars
    <3>2. SlotAccounting'
      BY <1>0, <3>1 DEF CounterInv, SlotAccounting
    <3>3. CASE counter - 1 < 0
      <4>1. fin' = [fin EXCEPT ![c] = "snap"]
        BY <1>10, <2>3, <3>3 DEF StepSucceeds
      <4>2. OverReleased'
        BY <3>1, <3>2, <3>3 DEF SlotAccounting
      <4>3. SnapInv'
        BY <4>2 DEF SnapInv
      <4>4. fin'[c] = "snap"
        BY <1>0, <4>1
      <4>5. CounterRepaired'
        BY <1>0, <3>1, <4>4 DEF CounterInv, CounterRepaired
      <4>6. QED
        BY <3>2, <4>3, <4>5 DEF CounterInv
    <3>4. CASE ~(counter - 1 < 0)
      <4>1. Proceed(c, s) /\ s \in Steps
        BY <1>10, <2>3, <3>4 DEF StepSucceeds
      <4>2. \A d \in Calls : fin'[d] = "snap" => fin[d] = "snap"
        BY <1>0, <4>1, ProceedMoves
      <4>3. OverReleased => OverReleased'
        BY <3>1
      <4>4. SnapInv'
        BY <1>0, <4>2, <4>3 DEF CounterInv, SnapInv
      <4>5. CounterRepaired'
        BY <1>0, <3>1, <3>4 DEF CounterInv, CounterRepaired
      <4>6. QED
        BY <3>2, <4>4, <4>5 DEF CounterInv
    <3>5. QED
      BY <3>3, <3>4
  <2>4. QED
    BY <2>2, <2>3
<1>11. ASSUME NEW c \in Calls, NEW s \in Steps, NEW k \in FaultKinds, StepFails(c, s,
    k) PROVE CounterInv'
  <2>1. /\ fin[c] = s /\ UNCHANGED callVars /\ faults' = faults + 1
        /\ RetryOrGiveUp(c, s)
        /\ TakesEffect(c, s) \/ UNCHANGED <<applied, counter>>
    BY <1>11 DEF StepFails
  <2>2. req' = req /\ faults <= faults' /\ faults \in Nat /\ attempt[c] <= 1 + faults
    BY <1>0, <2>1 DEF callVars, StepInv
  <2>3. \A d \in Calls :
          /\ fin'[d] = "snap" => fin[d] = "snap"
          /\ fin[d] \in {"snap", "decr", "killed"} => fin'[d] = fin[d] \/ faults' >= MaxRetries
    <3>1. ASSUME NEW d \in Calls, d # c PROVE fin'[d] = fin[d]
      BY <1>0, <2>1, <3>1, RetryMoves
    <3>2. fin'[c] # "snap"
      BY <1>0, <2>1, RetryMoves
    <3>3. fin'[c] = fin[c] \/ attempt[c] = MaxRetries
      BY <1>0, <2>1, RetryMoves
    <3>4. attempt[c] = MaxRetries => faults' >= MaxRetries
      <4>1. faults' = faults + 1 /\ attempt[c] <= 1 + faults /\ faults \in Nat
        BY <2>1, <2>2, Zenon
      <4>2. QED
        BY <4>1 DEF MaxRetries
    <3>5. QED
      BY <3>1, <3>2, <3>3, <3>4, Zenon
  <2>4. CASE s # "decr" \/ UNCHANGED <<applied, counter>>
    <3>1. counter' = counter /\ \A d \in Calls : applied'[d]["decr"] = applied[d]["decr"]
      BY <1>0, <2>1, <2>4, EffectFacts, Zenon DEF Steps
    <3>2. QED
      BY <1>0, <2>2, <2>3, <3>1, CounterKept, Zenon
  <2>5. CASE s = "decr" /\ TakesEffect(c, s)
    <3>1. /\ counter' = counter - 1 /\ counter \in Int
          /\ ~OverReleased' => /\ ~OverReleased
                               /\ Cardinality(Slots') = Cardinality(Slots) - 1
          /\ Cardinality(Slots') >= Cardinality(Slots) - 1
          /\ Cardinality(Slots') \in Nat /\ Cardinality(Slots) \in Nat
      BY <1>0, <2>1, <2>2, <2>5, DecrFacts, Zenon
    <3>2. SlotAccounting'
      BY <1>0, <3>1 DEF CounterInv, SlotAccounting
    <3>3. SnapInv'
      BY <1>0, <2>3, <3>1 DEF CounterInv, SnapInv
    <3>4. fin'[c] = "decr" \/ faults' >= MaxRetries
      BY <2>1, <2>3, <2>5, Zenon
    <3>5. CounterRepaired'
      BY <1>0, <3>1, <3>4 DEF CounterInv, CounterRepaired
    <3>6. QED
      BY <3>2, <3>3, <3>5 DEF CounterInv
  <2>6. QED
    BY <2>1, <2>4, <2>5
<1>12. ASSUME NEW c \in Calls, SnapToZero(c) PROVE CounterInv'
  <2>1. fin[c] = "snap" /\ counter' = 0 /\ UNCHANGED <<req, applied>>
    BY <1>12 DEF SnapToZero, callVars
  <2>5. CASE counter' = 0
    <3>1. Slots' = Slots /\ (OverReleased' <=> OverReleased)
      BY <2>1, Zenon DEF Slots, HoldsSlot, OverReleased
    <3>2. OverReleased
      BY <1>0, <2>1 DEF CounterInv, SnapInv
    <3>3. SlotAccounting'
      BY <3>1, <3>2 DEF SlotAccounting
    <3>4. SnapInv'
      BY <3>1, <3>2 DEF SnapInv
    <3>5. CounterRepaired'
      BY <2>5, <3>1, SlotsFinite DEF CounterRepaired
    <3>6. QED
      BY <3>3, <3>4, <3>5 DEF CounterInv
  <2>6. QED
    BY <2>1, <2>5
<1>13. ASSUME NEW c \in Calls, NEW k \in FaultKinds, SnapFails(c, k) PROVE CounterInv'
  <2>1. /\ fin[c] = "snap" /\ UNCHANGED <<req, applied>> /\ faults' = faults + 1
        /\ counter' = 0 \/ counter' = counter
        /\ RetryOrGiveUp(c, "decr") /\ "decr" \in Steps
    BY <1>13 DEF SnapFails, callVars, Steps
  <2>2. faults \in Nat /\ faults <= faults' /\ attempt[c] <= 1 + faults
    BY <1>0, <2>1 DEF StepInv
  <2>3. \A d \in Calls :
          /\ fin'[d] = "snap" => fin[d] = "snap"
          /\ fin[d] \in {"snap", "decr", "killed"} =>
               fin'[d] \in {"snap", "decr", "killed"} \/ faults' >= MaxRetries
    <3>1. ASSUME NEW d \in Calls, d # c PROVE fin'[d] = fin[d]
      BY <1>0, <2>1, <3>1, RetryMoves
    <3>2. fin'[c] # "snap"
      BY <1>0, <2>1, RetryMoves
    <3>3. fin'[c] = "decr" \/ attempt[c] = MaxRetries
      BY <1>0, <2>1, RetryMoves
    <3>4. attempt[c] = MaxRetries => faults' >= MaxRetries
      <4>1. faults' = faults + 1 /\ attempt[c] <= 1 + faults /\ faults \in Nat
        BY <2>1, <2>2
      <4>2. QED
        BY <4>1 DEF MaxRetries
    <3>5. QED
      BY <3>1, <3>2, <3>3, <3>4
  <2>4. CASE counter' = counter
    BY <1>0, <2>1, <2>2, <2>3, <2>4, CounterKept, Zenon
  <2>5. CASE counter' = 0
    <3>1. Slots' = Slots /\ (OverReleased' <=> OverReleased)
      BY <2>1, Zenon DEF Slots, HoldsSlot, OverReleased
    <3>2. OverReleased
      BY <1>0, <2>1 DEF CounterInv, SnapInv
    <3>3. SlotAccounting'
      BY <3>1, <3>2 DEF SlotAccounting
    <3>4. SnapInv'
      BY <3>1, <3>2 DEF SnapInv
    <3>5. CounterRepaired'
      BY <2>5, <3>1, SlotsFinite DEF CounterRepaired
    <3>6. QED
      BY <3>3, <3>4, <3>5 DEF CounterInv
  <2>6. QED
    BY <2>1, <2>4, <2>5
<1>14. ASSUME NEW c \in Calls, Unregister(c) PROVE CounterInv'
  <2>1. UNCHANGED <<req, applied, counter, faults>>
    BY <1>14 DEF Unregister, callVars
  <2>2. \A d \in Calls : /\ fin'[d] = "snap" => fin[d] = "snap"
                         /\ fin[d] \in {"snap", "decr", "killed"} => fin'[d] = fin[d]
    BY <1>0, <1>14 DEF Unregister
  <2>3. QED
    BY <1>0, <2>1, <2>2, CounterKept
<1>15. CASE RequestStop
  <2>1. /\ UNCHANGED <<applied, counter>>
        /\ faults' = faults \/ faults' = faults + 1
        /\ \A d \in Calls : req'[d] = "idle" <=> req[d] = "idle"
    <3>1. req \in [Calls -> {"idle", "queued", "handling", "dlq", "lost", "session"}]
      BY <1>0, Zenon DEF TypeOK
    <3>2. QED
      BY <1>0, <3>1, <1>15, Zenon DEF RequestStop, PhaseInv, callVars, finVars
  <2>4. faults <= faults'
    <3>1. faults \in Nat
      BY <1>0
    <3>2. QED
      BY <2>1, <3>1
  <2>2. \A d \in Calls : fin'[d] = fin[d] \/ (fin[d] # "none" /\ fin'[d] = "killed")
    BY <1>0, <1>15 DEF RequestStop, finVars
  <2>3. QED
    BY <1>0, <2>1, <2>2, <2>4, CounterKept, Zenon
<1>16. CASE CancelAll
  <2>1. /\ UNCHANGED <<applied, counter>>
        /\ faults' = faults \/ faults' = faults + 1
        /\ \A d \in Calls : req'[d] = "idle" <=> req[d] = "idle"
    <3>1. req \in [Calls -> {"idle", "queued", "handling", "dlq", "lost", "session"}]
      BY <1>0, Zenon DEF TypeOK
    <3>2. QED
      BY <1>0, <3>1, <1>16 DEF CancelAll, PhaseInv, callVars, finVars
  <2>4. faults <= faults'
    <3>1. faults \in Nat
      BY <1>0
    <3>2. QED
      BY <2>1, <3>1
  <2>2. \A d \in Calls : fin'[d] = fin[d] \/ (fin[d] # "none" /\ fin'[d] = "killed")
    BY <1>0, <1>16 DEF CancelAll, finVars
  <2>3. QED
    BY <1>0, <2>1, <2>2, <2>4, CounterKept, Zenon
<1>17. CASE GatherTimeout
  <2>1. /\ UNCHANGED <<applied, counter>>
        /\ faults' = faults \/ faults' = faults + 1
        /\ \A d \in Calls : req'[d] = "idle" <=> req[d] = "idle"
    <3>1. req \in [Calls -> {"idle", "queued", "handling", "dlq", "lost", "session"}]
      BY <1>0, Zenon DEF TypeOK
    <3>2. QED
      BY <1>0, <3>1, <1>17, Zenon DEF GatherTimeout, PhaseInv, callVars, finVars
  <2>4. faults <= faults'
    <3>1. faults \in Nat
      BY <1>0
    <3>2. QED
      BY <2>1, <3>1
  <2>2. \A d \in Calls : fin'[d] = fin[d] \/ (fin[d] # "none" /\ fin'[d] = "killed")
    BY <1>0, <1>17 DEF GatherTimeout, finVars
  <2>3. QED
    BY <1>0, <2>1, <2>2, <2>4, CounterKept, Zenon
<1>18. CASE GatherReturns
  <2>1. /\ UNCHANGED <<applied, counter>>
        /\ faults' = faults \/ faults' = faults + 1
        /\ \A d \in Calls : req'[d] = "idle" <=> req[d] = "idle"
    <3>1. req \in [Calls -> {"idle", "queued", "handling", "dlq", "lost", "session"}]
      BY <1>0, Zenon DEF TypeOK
    <3>2. QED
      BY <1>0, <3>1, <1>18 DEF GatherReturns, PhaseInv, callVars, finVars
  <2>4. faults <= faults'
    <3>1. faults \in Nat
      BY <1>0
    <3>2. QED
      BY <2>1, <3>1
  <2>2. \A d \in Calls : fin'[d] = fin[d] \/ (fin[d] # "none" /\ fin'[d] = "killed")
    BY <1>0, <1>18 DEF GatherReturns, finVars
  <2>3. QED
    BY <1>0, <2>1, <2>2, <2>4, CounterKept, Zenon
<1>19. CASE ExitProcess
  <2>1. /\ UNCHANGED <<applied, counter>>
        /\ faults' = faults \/ faults' = faults + 1
        /\ \A d \in Calls : req'[d] = "idle" <=> req[d] = "idle"
    <3>1. req \in [Calls -> {"idle", "queued", "handling", "dlq", "lost", "session"}]
      BY <1>0, Zenon DEF TypeOK
    <3>2. QED
      BY <1>0, <3>1, <1>19, Zenon DEF ExitProcess, PhaseInv, callVars, finVars
  <2>4. faults <= faults'
    <3>1. faults \in Nat
      BY <1>0
    <3>2. QED
      BY <2>1, <3>1
  <2>2. \A d \in Calls : fin'[d] = fin[d] \/ (fin[d] # "none" /\ fin'[d] = "killed")
    BY <1>0, <1>19 DEF ExitProcess, finVars
  <2>3. QED
    BY <1>0, <2>1, <2>2, <2>4, CounterKept, Zenon
<1>20. CASE UNCHANGED vars
  <2>1. UNCHANGED <<req, fin, applied, counter, faults>>
    BY <1>20 DEF vars, callVars, finVars
  <2>2. faults <= faults'
    <3>1. faults \in Nat /\ faults' = faults
      BY <1>0, <2>1
    <3>2. QED
      BY <3>1
  <2>3. QED
    BY <1>0, <2>1, <2>2, CounterKept
<1>21. QED
  BY <1>1, <1>2, <1>3, <1>4, <1>5, <1>6, <1>7, <1>8, <1>9, <1>10, <1>11, <1>12, <1>13,
    <1>14, <1>15, <1>16, <1>17, <1>18, <1>19, <1>20 DEF Next, Dialing, FinalizerStep,
    Shutdown

-----------------------------------------------------------------------------
\* The inductive invariant holds at the start.
LEMMA InitInv == Init => IInv
<1> SUFFICES ASSUME Init PROVE IInv
  OBVIOUS
<1>1. TypeOK
  <2>1. [s \in Steps |-> 0] \in [Steps -> Nat] /\ 1 \in 1..MaxRetries
    BY DEF MaxRetries
  <2>2. applied \in [Calls -> [Steps -> Nat]] /\ attempt \in [Calls -> 1..MaxRetries]
    BY <2>1 DEF Init
  <2>3. cancel \in [Calls -> BOOLEAN] /\ raised \in [Calls -> BOOLEAN] /\ timedOut \in BOOLEAN
    BY Zenon DEF Init
  <2>4. /\ mailbox \in [Calls -> Nat] /\ hangups \in [Calls -> Nat]
        /\ counter \in Int /\ faults \in Nat
    BY DEF Init
  <2>5. QED
    BY <2>2, <2>3, <2>4, Zenon DEF Init, TypeOK
<1>2. PhaseInv /\ GatherInv
  BY LifecycleAssumption DEF Init, PhaseInv, GatherInv, LifecycleAssumption
<1>3. StepInv
  <2>1. ASSUME NEW c \in Calls, NEW s \in Steps
        PROVE  applied[c][s] = 0 /\ fin[c] \notin Later(s)
    BY OrderFacts, Zenon DEF Init, Steps
  <2>2. faults = 0 /\ \A c \in Calls : attempt[c] = 1
    BY DEF Init
  <2>3. QED
    BY <2>1, <2>2 DEF StepInv
<1>4. Slots = {} /\ counter = 0 /\ SnapInv
  BY DEF Init, Slots, HoldsSlot, SnapInv
<1>5. Cardinality(Slots) = 0
  BY <1>4, FS_EmptySet
<1>6. SlotAccounting /\ CounterRepaired
  BY <1>4, <1>5 DEF SlotAccounting, CounterRepaired
<1>7. QED
  BY <1>1, <1>2, <1>3, <1>4, <1>6 DEF IInv, CounterInv

\* The inductive invariant holds throughout, however the tasks interleave.
THEOREM Invariance == Spec => []IInv
<1>1. IInv /\ [Next]_vars => IInv'
  <2> SUFFICES ASSUME IInv, [Next]_vars PROVE IInv'
    OBVIOUS
  <2>1. TypeOK'
    BY TypePreserved DEF IInv
  <2>2. QED
    BY <2>1, PhasePreserved, GatherPreserved, StepPreserved, CounterPreserved
       DEF IInv
<1>2. QED
  BY <1>1, InitInv, PTL DEF Spec

\* Every variable keeps its type.
THEOREM TypeCorrect == Spec => []TypeOK
BY Invariance, PTL DEF IInv

\* The counter is the number of slots held, for any number of calls, as long as
\* no slot is given back twice: _decr_concurrency against the scheduler's INCR.
THEOREM CounterExact == Spec => []SlotAccounting
BY Invariance, PTL DEF IInv, CounterInv

\* It never shows a slot nobody holds, whatever Redis does to the attempts.
THEOREM CounterBounded == Spec => []CounterRepaired
BY Invariance, PTL DEF IInv, CounterInv

\* A session leaves the registry only when it is settled, and every effect
\* beyond the first stands for a failed attempt (finalize_session).
THEOREM CallsSettled == Spec => []SettledOnce
<1>1. IInv => SettledOnce
  <2> SUFFICES ASSUME IInv, NEW c \in Calls, req[c] = "session"
               PROVE  /\ \A s \in Steps : applied[c][s] <= 1 + faults
                      /\ c \notin registered /\ faults < MaxRetries =>
                           \A s \in {"persist", "ended", "decr"} : applied[c][s] >= 1
    BY DEF SettledOnce
  <2>1. \A s \in Steps : applied[c][s] <= 1 + faults
    BY Zenon DEF IInv, StepInv
  <2>2. c \notin registered => fin[c] = "done"
    BY DEF IInv, PhaseInv
  <2>3. ASSUME fin[c] = "done", faults < MaxRetries, NEW s \in {"persist", "ended", "decr"}
        PROVE  applied[c][s] >= 1
    <3>1. s \in Steps /\ s # "extract" /\ fin[c] \in Later(s)
      BY <2>3, OrderFacts DEF Steps
    <3>2. applied[c][s] >= 1 \/ faults >= MaxRetries
      BY <3>1 DEF IInv, StepInv
    <3>3. faults \in Nat /\ MaxRetries = 3
      BY DEF IInv, TypeOK, MaxRetries
    <3>4. ~(faults >= MaxRetries)
      <4>1. faults < MaxRetries
        BY <2>3
      <4>2. QED
        BY <3>3, <4>1
    <3>5. QED
      BY <3>2, <3>4, Zenon
  <2>4. QED
    BY <2>1, <2>2, <2>3
<1>2. QED
  BY <1>1, Invariance, PTL

\* No call outlives the process: cancel_all waits for every main task.
THEOREM ShutdownWaits == Spec => []NoCallOutlivesProcess
<1>1. IInv => NoCallOutlivesProcess
  BY Zenon DEF IInv, TypeOK, PhaseInv, GatherInv, NoCallOutlivesProcess
<1>2. QED
  BY <1>1, Invariance, PTL

\* A command that reached main is its cause, and main is unwinding or about to,
\* until CallEnded is composed from it; and nothing is taken for a command that is
\* not one, short of a shutdown.
CauseOf(c) ==
  /\ fin[c] \in {"none", "capture"} => recorded[c] = "none"
  /\ told[c] /\ recorded[c] = "none" =>
       cause[c] = "manual" /\ (cancel[c] \/ main[c] \in Unwinding \union {"done"})
  /\ told[c] /\ recorded[c] # "none" => recorded[c] = "manual"
  /\ \/ mailbox[c] > 0 \/ cancel[c] \/ raised[c]
     \/ cause[c] = "manual" \/ recorded[c] = "manual"
     => hangups[c] > 0 \/ proc # "up"

CauseInv == \A c \in Calls : CauseOf(c)

\* What a step does to a call that it is not about.
LeavesCause(d) ==
  /\ main'[d] = main[d] /\ (cancel'[d] <=> cancel[d]) /\ (raised'[d] <=> raised[d])
  /\ cause'[d] = cause[d] /\ mailbox'[d] = mailbox[d] /\ hangups'[d] = hangups[d]
  /\ (told'[d] <=> told[d]) /\ recorded'[d] = recorded[d]
  /\ fin'[d] \in {"none", "capture"} => fin[d] \in {"none", "capture"}
  /\ proc # "up" => proc' # "up"

LEMMA CauseLeft ==
  ASSUME NEW d \in Calls, CauseOf(d), LeavesCause(d)
  PROVE  CauseOf(d)'
BY Zenon DEF CauseOf, LeavesCause

\* Moving main on keeps the books: into the conversation, or on with the unwinding
\* and its cause.
LEMMA GotoKeeps ==
  ASSUME TypeOK, CauseInv, NEW c \in Calls, NEW pc, NEW b \in BOOLEAN, NEW cz,
         Goto(c, pc, b, cz), fin[c] = "none",
         told[c] => pc \in Live \/ (cz = "manual" /\ pc \in Unwinding),
         b \/ cz = "manual" => hangups[c] > 0 \/ proc # "up"
  PROVE  CauseInv'
<1>1. ASSUME NEW d \in Calls, d # c PROVE LeavesCause(d)
  BY <1>1, Zenon DEF TypeOK, Goto, LeavesCause, finVars, procVars
<1>2. CauseOf(c)'
  <2>1. /\ main'[c] = pc /\ ~cancel'[c] /\ cause'[c] = cz
        /\ raised'[c] = b
        /\ UNCHANGED <<mailbox, hangups, fin, recorded, proc>>
    BY DEF TypeOK, Goto, finVars, procVars
  <2>2. told'[c] <=> told[c] /\ pc \notin Live
    BY Zenon DEF TypeOK, Goto
  <2>3. recorded[c] = "none" /\ (mailbox[c] > 0 => hangups[c] > 0 \/ proc # "up")
    BY Zenon DEF CauseInv, CauseOf
  <2>4. QED
    BY <2>1, <2>2, <2>3, Zenon DEF CauseOf
<1>3. QED
  BY <1>1, <1>2, CauseLeft DEF CauseInv

\* So does closing the bus, which delivers the commands that are left on it ...
LEMMA CloseBusKeeps ==
  ASSUME TypeOK, CauseInv, NEW c \in Calls, NEW b \in BOOLEAN, NEW cz,
         CloseBus(c, b, cz), fin[c] = "none",
         told[c] => cz = "manual",
         b \/ cz = "manual" => hangups[c] > 0 \/ proc # "up"
  PROVE  CauseInv'
<1>1. ASSUME NEW d \in Calls, d # c PROVE LeavesCause(d)
  BY <1>1, Zenon DEF TypeOK, CloseBus, LeavesCause, finVars, procVars
<1>2. CauseOf(c)'
  <2>1. /\ main'[c] = "closing" /\ ~(mailbox'[c] > 0)
        /\ cause'[c] = IF mailbox[c] > 0 THEN "manual" ELSE cz
        /\ raised'[c] = b
        /\ UNCHANGED <<hangups, fin, recorded, proc>>
    <3>1. mailbox'[c] = 0
      BY Zenon DEF TypeOK, CloseBus
    <3>2. ~(mailbox'[c] > 0)
      BY <3>1
    <3>3. QED
      BY <3>2, Zenon DEF TypeOK, CloseBus, finVars, procVars
  <2>2. (told'[c] <=> told[c] \/ mailbox[c] > 0) /\ (cancel'[c] <=> mailbox[c] > 0)
    BY Zenon DEF TypeOK, CloseBus
  <2>3. recorded[c] = "none" /\ (mailbox[c] > 0 => hangups[c] > 0 \/ proc # "up")
    BY Zenon DEF CauseInv, CauseOf
  <2>4. QED
    BY <2>1, <2>2, <2>3, Zenon DEF CauseOf, Unwinding
<1>3. QED
  BY <1>1, <1>2, CauseLeft DEF CauseInv

\* ... and starting the finalizer, which names a cause only if there is none.
LEMMA FinalizeKeeps ==
  ASSUME TypeOK, CauseInv, NEW c \in Calls, NEW b \in BOOLEAN, NEW f,
         Finalize(c, b, f), fin[c] = "none",
         b \/ f = "manual" => hangups[c] > 0 \/ proc # "up"
  PROVE  CauseInv'
<1>1. ASSUME NEW d \in Calls, d # c PROVE LeavesCause(d)
  BY <1>1, Zenon DEF TypeOK, Finalize, LeavesCause, procVars
<1>2. CauseOf(c)'
  <2>1. /\ main'[c] = "finalizing" /\ ~cancel'[c] /\ raised'[c] = b
        /\ cause'[c] = IF cause[c] = "none" THEN f ELSE cause[c]
        /\ UNCHANGED <<mailbox, hangups, told, recorded, proc>>
    BY DEF TypeOK, Finalize, procVars
  <2>2. /\ recorded[c] = "none" /\ (told[c] => cause[c] = "manual")
        /\ mailbox[c] > 0 \/ cause[c] = "manual" => hangups[c] > 0 \/ proc # "up"
    BY Zenon DEF CauseInv, CauseOf
  <2>3. QED
    BY <2>1, <2>2, Zenon DEF CauseOf, Unwinding
<1>3. QED
  BY <1>1, <1>2, CauseLeft DEF CauseInv

\* The steps of main.
LEMMA MainKeepsCause ==
  ASSUME TypeOK, PhaseInv, CauseInv, NEW c \in Calls, MainStep(c)
  PROVE  CauseInv'
<1>1. fin[c] = "none" <=> main[c] \notin {"finalizing", "done"}
  BY DEF PhaseInv
<1>2. cancel[c] \in BOOLEAN /\ raised[c] \in BOOLEAN
  BY DEF TypeOK
<1>3. raised[c] \/ cancel[c] \/ cause[c] = "manual" => hangups[c] > 0 \/ proc # "up"
  BY DEF CauseInv, CauseOf
<1>4. told[c] /\ fin[c] = "none" =>
        cause[c] = "manual" /\ (cancel[c] \/ main[c] \in Unwinding \union {"done"})
  BY DEF CauseInv, CauseOf
<1> USE <1>1, <1>2, <1>3, <1>4 DEF Live, Unwinding, Resumes, Raises
<1>5. CASE PreambleFails(c)
  BY <1>5, FinalizeKeeps, Zenon DEF PreambleFails
<1>6. CASE PreambleCancelled(c)
  BY <1>6, FinalizeKeeps, Zenon DEF PreambleCancelled
<1>7. CASE Connected(c)
  BY <1>7, GotoKeeps, Zenon DEF Connected
<1>8. CASE NotConnected(c)
  BY <1>8, CloseBusKeeps, Zenon DEF NotConnected
<1>9. CASE DialRaises(c)
  BY <1>9, CloseBusKeeps, Zenon DEF DialRaises, OrNoProgress
<1>10. CASE DialCancelled(c)
  BY <1>10, CloseBusKeeps, Zenon DEF DialCancelled
<1>11. CASE Speak(c)
  BY <1>11, GotoKeeps, Zenon DEF Speak
<1>12. CASE Spoken(c)
  BY <1>12, GotoKeeps, Zenon DEF Spoken
<1>13. CASE ConversationEnds(c)
  BY <1>13, GotoKeeps, Zenon DEF ConversationEnds
<1>14. CASE ConversationRaises(c)
  BY <1>14, GotoKeeps, Zenon DEF ConversationRaises, OrNoProgress
<1>15. CASE ListeningCancelled(c)
  BY <1>15, GotoKeeps, Zenon DEF ListeningCancelled
<1>16. CASE SpeakingCancelled(c)
  BY <1>16, GotoKeeps, Zenon DEF SpeakingCancelled
<1>17. CASE PumpsStopped(c)
  BY <1>17, CloseBusKeeps, Zenon DEF PumpsStopped
<1>18. CASE StoppingCancelled(c)
  BY <1>18, GotoKeeps, Zenon DEF StoppingCancelled
<1>19. CASE BusClosed(c)
  BY <1>19, GotoKeeps, Zenon DEF BusClosed
<1>20. CASE ClosingCancelled(c)
  BY <1>20, GotoKeeps, Zenon DEF ClosingCancelled
<1>21. CASE ProvidersClosed(c)
  BY <1>21, FinalizeKeeps, Zenon DEF ProvidersClosed
<1>22. CASE ProvidersCancelled(c)
  BY <1>22, FinalizeKeeps, Zenon DEF ProvidersCancelled
<1>23. CASE EnterRunSession(c)
  <2>1. ASSUME NEW d \in Calls, d # c PROVE LeavesCause(d)
    BY <1>23, <2>1, Zenon DEF TypeOK, EnterRunSession, LeavesCause, finVars, procVars
  <2>2. /\ UNCHANGED <<cancel, raised, cause, mailbox, hangups, told, recorded, fin, proc>>
        /\ main[c] = "preamble" /\ ~cancel[c]
    BY <1>23, Zenon DEF EnterRunSession, finVars, procVars
  <2>3. CauseOf(c)'
    BY <2>2, Zenon DEF CauseInv, CauseOf
  <2>4. QED
    BY <2>1, <2>3, CauseLeft, Zenon DEF CauseInv
<1>24. CASE MainReturns(c)
  <2>1. ASSUME NEW d \in Calls, d # c PROVE LeavesCause(d)
    BY <1>24, <2>1, Zenon DEF TypeOK, MainReturns, LeavesCause, finVars, procVars
  <2>2. /\ UNCHANGED <<raised, cause, mailbox, hangups, told, recorded, fin, proc>>
        /\ main'[c] = "done" /\ ~cancel'[c]
    BY <1>24, Zenon DEF TypeOK, MainReturns, finVars, procVars
  <2>3. CauseOf(c)'
    BY <2>2, Zenon DEF CauseInv, CauseOf
  <2>4. QED
    BY <2>1, <2>3, CauseLeft, Zenon DEF CauseInv
<1>25. QED
  BY <1>5, <1>6, <1>7, <1>8, <1>9, <1>10, <1>11, <1>12, <1>13, <1>14, <1>15, <1>16,
     <1>17, <1>18, <1>19, <1>20, <1>21, <1>22, <1>23, <1>24, Zenon DEF MainStep

\* Every step keeps the books of the manual hangups.
LEMMA CausePreserved ==
  ASSUME TypeOK, PhaseInv, CauseInv, [Next]_vars
  PROVE  CauseInv'
<1> USE DEF callVars, mainVars, finVars, procVars
<1>1. ASSUME NEW c \in Calls, Schedule(c) \/ Dialing(c) PROVE CauseInv'
  <2>1. /\ UNCHANGED <<cancel, raised, cause, mailbox, hangups, told, recorded, fin, proc>>
        /\ main' = main \/ (StartCall(c) /\ main' = [main EXCEPT ![c] = "preamble"])
    BY <1>1, Zenon DEF Schedule, Dialing, Pop, DeadLetter, DeadLetterFails, StartCall
  <2>2. CASE main' = main
    BY <2>1, <2>2, CauseLeft, Zenon DEF CauseInv, LeavesCause
  <2>3. CASE StartCall(c) /\ main' = [main EXCEPT ![c] = "preamble"]
    <3>1. ASSUME NEW d \in Calls, d # c PROVE LeavesCause(d)
      BY <2>1, <2>3, <3>1 DEF TypeOK, LeavesCause
    <3>2. main[c] = "none"
      BY <2>3 DEF StartCall, PhaseInv
    <3>3. CauseOf(c)'
      BY <2>1, <2>3, <3>2, Zenon DEF TypeOK, CauseInv, CauseOf, Unwinding, Live
    <3>4. QED
      BY <3>1, <3>3, CauseLeft DEF CauseInv
  <2>4. QED
    BY <2>1, <2>2, <2>3
<1>2. ASSUME NEW c \in Calls, ManualHangup(c) PROVE CauseInv'
  <2>1. ASSUME NEW d \in Calls, d # c PROVE LeavesCause(d)
    BY <1>2, <2>1, Zenon DEF TypeOK, ManualHangup, LeavesCause
  <2>2. /\ UNCHANGED <<main, cancel, raised, cause, told, recorded, fin, proc>>
        /\ hangups'[c] > 0
    <3>1. hangups'[c] = hangups[c] + 1 /\ hangups[c] \in Nat
      BY <1>2, Zenon DEF TypeOK, ManualHangup
    <3>2. hangups'[c] > 0
      BY <3>1
    <3>3. QED
      BY <1>2, <3>2, Zenon DEF ManualHangup
  <2>3. CauseOf(c)'
    BY <2>2, Zenon DEF CauseInv, CauseOf
  <2>4. QED
    BY <2>1, <2>3, CauseLeft DEF CauseInv
<1>3. ASSUME NEW c \in Calls, Terminate(c) PROVE CauseInv'
  <2>1. ASSUME NEW d \in Calls, d # c PROVE LeavesCause(d)
    BY <1>3, <2>1, Zenon DEF TypeOK, Terminate, LeavesCause
  <2>2. /\ UNCHANGED <<main, raised, recorded, hangups, fin, proc>>
        /\ mailbox[c] > 0
        /\ cause'[c] = IF main[c] = "done" THEN cause[c] ELSE "manual"
    BY <1>3, Zenon DEF TypeOK, Terminate
  <2>3. /\ told'[c] <=> told[c] \/ (main[c] # "done" /\ recorded[c] = "none")
        /\ cancel'[c] <=> main[c] # "done"
    BY <1>3, Zenon DEF TypeOK, Terminate
  <2>4. CauseOf(c)'
    BY <2>2, <2>3, Zenon DEF CauseInv, CauseOf
  <2>5. QED
    BY <2>1, <2>4, CauseLeft DEF CauseInv
<1>4. ASSUME NEW c \in Calls, MainStep(c) PROVE CauseInv'
  BY <1>4, MainKeepsCause
<1>5. ASSUME NEW c \in Calls, Capture(c) PROVE CauseInv'
  <2>1. ASSUME NEW d \in Calls, d # c PROVE LeavesCause(d)
    BY <1>5, <2>1, Zenon DEF TypeOK, Capture, LeavesCause
  <2>2. /\ UNCHANGED <<main, cancel, raised, mailbox, hangups, told, proc>>
        /\ fin[c] = "capture" /\ fin'[c] = "persist"
        /\ recorded'[c] = IF cause[c] = "none" THEN "normal" ELSE cause[c]
        /\ cause'[c] = IF cause[c] = "none" THEN "normal" ELSE cause[c]
    BY <1>5, Zenon DEF TypeOK, Capture
  <2>3. CauseOf(c)'
    BY <2>2, Zenon DEF CauseInv, CauseOf
  <2>4. QED
    BY <2>1, <2>3, CauseLeft DEF CauseInv
<1>6. ASSUME NEW c \in Calls, FinalizerStep(c), ~Capture(c) PROVE CauseInv'
  <2>1. UNCHANGED <<mainVars, recorded, proc>>
    BY <1>6, Zenon DEF FinalizerStep, StepSucceeds, StepFails, SnapToZero, SnapFails, Unregister
  <2>2. \/ \E n \in {"persist", "extract", "ended", "decr", "snap", "unregister"} :
             fin' = [fin EXCEPT ![c] = n]
        \/ fin' = [fin EXCEPT ![c] = "done"]
    BY <1>6, FinFacts, Zenon DEF FinMoves, Unregister
  <2>3. ASSUME NEW d \in Calls, fin'[d] \in {"none", "capture"} PROVE fin[d] = fin'[d]
    BY <2>2, <2>3 DEF TypeOK
  <2>4. QED
    BY <2>1, <2>3, CauseLeft, Zenon DEF CauseInv, LeavesCause
<1>7. CASE CancelAll \/ GatherTimeout
  <2>1. /\ UNCHANGED <<main, raised, cause, mailbox, hangups, told, recorded, fin>>
        /\ proc # "up" /\ proc' # "up"
    BY <1>7, Zenon DEF CancelAll, GatherTimeout
  <2>2. \A d \in Calls : cancel[d] => cancel'[d]
    BY <1>7, Zenon DEF CancelAll, GatherTimeout, CancelMains
  <2>3. QED
    BY <2>1, <2>2, Zenon DEF CauseInv, CauseOf
<1>8. CASE RequestStop \/ GatherReturns \/ UNCHANGED vars
  <2>1. UNCHANGED <<mainVars, recorded, fin>> /\ (proc # "up" => proc' # "up")
    BY <1>8, Zenon DEF RequestStop, GatherReturns, vars
  <2>2. QED
    BY <2>1, CauseLeft, Zenon DEF CauseInv, LeavesCause
<1>9. CASE ExitProcess
  <2>1. UNCHANGED <<mainVars, recorded>> /\ proc' # "up"
    BY <1>9, Zenon DEF ExitProcess
  <2>2. ASSUME NEW d \in Calls, fin'[d] \in {"none", "capture"} PROVE fin[d] = fin'[d]
    BY <1>9, <2>2 DEF ExitProcess
  <2>3. QED
    BY <2>1, <2>2, CauseLeft, Zenon DEF CauseInv, LeavesCause
<1>10. QED
  BY <1>1, <1>2, <1>3, <1>4, <1>5, <1>6, <1>7, <1>8, <1>9, Zenon DEF Next, Shutdown

\* A hangup command that reaches main before CallEnded is composed is what CallEnded
\* reports, for any number of calls and commands, at whatever await it finds main:
\* the cause _terminate assigns survives the finally blocks and finalize_session.
THEOREM ManualHangupReported == Spec => []ManualCauseReported
<1>1. Init => CauseInv
  BY DEF Init, CauseInv, CauseOf
<1>2. IInv /\ CauseInv /\ [Next]_vars => CauseInv'
  BY CausePreserved DEF IInv
<1>3. CauseInv => ManualCauseReported
  BY Zenon DEF CauseInv, CauseOf, ManualCauseReported
<1>4. QED
  BY <1>1, <1>2, <1>3, Invariance, PTL DEF Spec

-----------------------------------------------------------------------------
\* A call settles in a bounded number of steps.

\* How many steps main can still take, talking aside.
MainLeft(m) ==
  CASE m = "none"       -> 8
    [] m = "preamble"   -> 7
    [] m = "dialing"    -> 6
    [] m \in Live       -> 5
    [] m = "stopping"   -> 4
    [] m = "closing"    -> 3
    [] m = "providers"  -> 2
    [] m = "finalizing" -> 1
    [] m = "done"       -> 0

\* How many steps a finalizer at step f and attempt a can still take.  An
\* attempt of the release is two steps, the DECR and the SET 0.
FinLeft(f, a) ==
  CASE f = "none"       -> 18
    [] f = "capture"    -> 17
    [] f = "persist"    -> 14 + (MaxRetries - a)
    [] f = "extract"    -> 11 + (MaxRetries - a)
    [] f = "ended"      -> 8 + (MaxRetries - a)
    [] f = "decr"       -> 3 + 2 * (MaxRetries - a)
    [] f = "snap"       -> 2 + 2 * (MaxRetries - a)
    [] f = "unregister" -> 1
    [] f \in {"done", "killed"} -> 0

StepsLeft(c) == MainLeft(main[c]) + FinLeft(fin[c], attempt[c])

\* A step of the call's own tasks outside the conversation.
OwnStep(c) == (MainStep(c) /\ main[c] \notin Live) \/ FinalizerStep(c)

\* No step of anyone, no hangup, cancellation, fault or shutdown, gives a call
\* more steps to take, and each step of its own main task (outside the
\* conversation) or of its finalizer leaves it fewer: from the dial request to
\* the released slot there are at most 26, the retries included.
SettlesInBoundedSteps ==
  /\ [](\A c \in Calls : StepsLeft(c) \in 0..26)
  /\ [][\A c \in Calls : /\ StepsLeft(c)' <= StepsLeft(c)
                         /\ OwnStep(c) => StepsLeft(c)' < StepsLeft(c)]_vars

\* The table of MainLeft, value by value.
LEMMA MainTable ==
  /\ MainLeft("none") = 8 /\ MainLeft("preamble") = 7 /\ MainLeft("dialing") = 6
  /\ MainLeft("listening") = 5 /\ MainLeft("speaking") = 5
  /\ MainLeft("stopping") = 4 /\ MainLeft("closing") = 3 /\ MainLeft("providers") = 2
  /\ MainLeft("finalizing") = 1 /\ MainLeft("done") = 0
BY DEF MainLeft, Live

\* The table of FinLeft.
LEMMA FinTable ==
  ASSUME NEW a \in 1..MaxRetries
  PROVE  /\ FinLeft("none", a) = 18 /\ FinLeft("capture", a) = 17
         /\ FinLeft("persist", a) = 14 + (3 - a) /\ FinLeft("extract", a) = 11 + (3 - a)
         /\ FinLeft("ended", a) = 8 + (3 - a) /\ FinLeft("decr", a) = 3 + 2 * (3 - a)
         /\ FinLeft("snap", a) = 2 + 2 * (3 - a) /\ FinLeft("unregister", a) = 1
         /\ FinLeft("done", a) = 0 /\ FinLeft("killed", a) = 0
BY DEF FinLeft, MaxRetries

\* The places main can be in.
MainStates == {"none", "preamble", "dialing", "done"} \union Live \union Unwinding

\* Both are small numbers.
LEMMA LeftRange ==
  /\ \A m \in MainStates : MainLeft(m) \in 0..8
  /\ \A f \in FinStates, a \in 1..MaxRetries : FinLeft(f, a) \in 0..18
<1>1. ASSUME NEW m \in MainStates PROVE MainLeft(m) \in 0..8
  BY MainTable DEF MainStates, Live, Unwinding
<1>2. ASSUME NEW f \in FinStates, NEW a \in 1..MaxRetries PROVE FinLeft(f, a) \in 0..18
  <2>1. a \in 1..3
    BY DEF MaxRetries
  <2>2. QED
    BY <2>1, FinTable DEF FinStates, Steps
<1>3. QED
  BY <1>1, <1>2, Zenon

\* So they are before a step.
LEMMA LeftTypes ==
  ASSUME TypeOK, NEW c \in Calls
  PROVE  /\ MainLeft(main[c]) \in 0..8
         /\ FinLeft(fin[c], attempt[c]) \in 0..18
         /\ StepsLeft(c) \in 0..26
<1>1. main[c] \in MainStates /\ fin[c] \in FinStates /\ attempt[c] \in 1..MaxRetries
  BY OwnTypes, Zenon DEF TypeOK, MainStates
<1>2. MainLeft(main[c]) \in 0..8 /\ FinLeft(fin[c], attempt[c]) \in 0..18
  BY <1>1, LeftRange, Zenon
<1>3. QED
  BY <1>2 DEF StepsLeft

\* What a step leaves alone does not rise.
LEMMA LeftStays ==
  ASSUME TypeOK, NEW c \in Calls
  PROVE  /\ MainLeft(main[c]) <= MainLeft(main[c])
         /\ FinLeft(fin[c], attempt[c]) <= FinLeft(fin[c], attempt[c])
<1>1. (\A n \in 0..8 : n <= n) /\ (\A n \in 0..18 : n <= n)
  OBVIOUS
<1>2. QED
  BY <1>1, LeftTypes, Zenon

\* The numbers are small after a step, too.
LEMMA LeftTypesAfter ==
  ASSUME TypeOK', NEW c \in Calls
  PROVE  MainLeft(main'[c]) \in 0..8 /\ FinLeft(fin'[c], attempt'[c]) \in 0..18
<1>1. main'[c] \in MainStates /\ fin'[c] \in FinStates /\ attempt'[c] \in 1..MaxRetries
  BY Zenon DEF TypeOK, MainStates, FinStates
<1>2. QED
  BY <1>1, LeftRange, Zenon

\* The order of its steps.
MainDescends(c) ==
  \E m \in MainStates : /\ main' = [main EXCEPT ![c] = m]
                        /\ MainLeft(m) <= MainLeft(main[c])
                        /\ main[c] \notin Live => MainLeft(m) < MainLeft(main[c])

\* main never goes back, except between listening and speaking.
LEMMA MainGoesOn ==
  ASSUME NEW c \in Calls, MainStep(c)
  PROVE  MainDescends(c)
<1> USE MainTable DEF MainDescends, MainStates, Live, Unwinding
<1>1. CASE EnterRunSession(c)
  <2>1. main[c] = "preamble" /\ main' = [main EXCEPT ![c] = "dialing"]
    BY <1>1, Zenon DEF EnterRunSession, Resumes
  <2>2. QED
    BY <2>1
<1>2. CASE PreambleFails(c)
  <2>1. main[c] = "preamble" /\ main' = [main EXCEPT ![c] = "finalizing"]
    BY <1>2, Zenon DEF PreambleFails, Resumes, Finalize
  <2>2. QED
    BY <2>1
<1>3. CASE PreambleCancelled(c)
  <2>1. main[c] = "preamble" /\ main' = [main EXCEPT ![c] = "finalizing"]
    BY <1>3, Zenon DEF PreambleCancelled, Raises, Finalize
  <2>2. QED
    BY <2>1
<1>4. CASE Connected(c)
  <2>1. main[c] = "dialing" /\ main' = [main EXCEPT ![c] = "speaking"]
    BY <1>4, Zenon DEF Connected, Resumes, Goto
  <2>2. QED
    BY <2>1
<1>5. CASE NotConnected(c)
  <2>1. main[c] = "dialing" /\ main' = [main EXCEPT ![c] = "closing"]
    BY <1>5, Zenon DEF NotConnected, Resumes, CloseBus
  <2>2. QED
    BY <2>1
<1>6. CASE DialRaises(c)
  <2>1. main[c] = "dialing" /\ main' = [main EXCEPT ![c] = "closing"]
    BY <1>6, Zenon DEF DialRaises, Resumes, CloseBus
  <2>2. QED
    BY <2>1
<1>7. CASE DialCancelled(c)
  <2>1. main[c] = "dialing" /\ main' = [main EXCEPT ![c] = "closing"]
    BY <1>7, Zenon DEF DialCancelled, Raises, CloseBus
  <2>2. QED
    BY <2>1
<1>8. CASE Speak(c)
  <2>1. main[c] = "listening" /\ main' = [main EXCEPT ![c] = "speaking"]
    BY <1>8, Zenon DEF Speak, Resumes, Goto
  <2>2. QED
    BY <2>1
<1>9. CASE Spoken(c)
  <2>1. main[c] = "speaking" /\ main' = [main EXCEPT ![c] = "listening"]
    BY <1>9, Zenon DEF Spoken, Resumes, Goto
  <2>2. QED
    BY <2>1
<1>10. CASE ConversationEnds(c)
  <2>1. main[c] = "listening" /\ main' = [main EXCEPT ![c] = "stopping"]
    BY <1>10, Zenon DEF ConversationEnds, Resumes, Goto
  <2>2. QED
    BY <2>1
<1>11. CASE ConversationRaises(c)
  <2>1. main[c] \in Live /\ main' = [main EXCEPT ![c] = "stopping"]
    BY <1>11, Zenon DEF ConversationRaises, Resumes, Goto
  <2>2. QED
    BY <2>1
<1>12. CASE ListeningCancelled(c)
  <2>1. main[c] = "listening" /\ main' = [main EXCEPT ![c] = "stopping"]
    BY <1>12, Zenon DEF ListeningCancelled, Raises, Goto
  <2>2. QED
    BY <2>1
<1>13. CASE SpeakingCancelled(c)
  BY <1>13 DEF SpeakingCancelled, Raises, Goto
<1>14. CASE PumpsStopped(c)
  <2>1. main[c] = "stopping" /\ main' = [main EXCEPT ![c] = "closing"]
    BY <1>14, Zenon DEF PumpsStopped, Resumes, CloseBus
  <2>2. QED
    BY <2>1
<1>15. CASE StoppingCancelled(c)
  <2>1. main[c] = "stopping" /\ main' = [main EXCEPT ![c] = "providers"]
    BY <1>15, Zenon DEF StoppingCancelled, Raises, Goto
  <2>2. QED
    BY <2>1
<1>16. CASE BusClosed(c)
  <2>1. main[c] = "closing" /\ main' = [main EXCEPT ![c] = "providers"]
    BY <1>16, Zenon DEF BusClosed, Resumes, Goto
  <2>2. QED
    BY <2>1
<1>17. CASE ClosingCancelled(c)
  <2>1. main[c] = "closing" /\ main' = [main EXCEPT ![c] = "providers"]
    BY <1>17, Zenon DEF ClosingCancelled, Raises, Goto
  <2>2. QED
    BY <2>1
<1>18. CASE ProvidersClosed(c)
  <2>1. main[c] = "providers" /\ main' = [main EXCEPT ![c] = "finalizing"]
    BY <1>18, Zenon DEF ProvidersClosed, Resumes, Finalize
  <2>2. QED
    BY <2>1
<1>19. CASE ProvidersCancelled(c)
  <2>1. main[c] = "providers" /\ main' = [main EXCEPT ![c] = "finalizing"]
    BY <1>19, Zenon DEF ProvidersCancelled, Raises, Finalize
  <2>2. QED
    BY <2>1
<1>20. CASE MainReturns(c)
  BY <1>20 DEF MainReturns
<1>21. QED
  BY <1>1, <1>2, <1>3, <1>4, <1>5, <1>6, <1>7, <1>8, <1>9, <1>10, <1>11, <1>12, <1>13,
      <1>14, <1>15, <1>16, <1>17, <1>18, <1>19, <1>20, Zenon DEF MainStep

\* Going on to the next step leaves the finalizer fewer steps than any attempt
\* of this one.
LEMMA AfterDescends ==
  ASSUME NEW s \in Steps, NEW n \in After(s), NEW a \in 1..MaxRetries
  PROVE  /\ FinLeft(n, 1) < FinLeft(s, a)
         /\ s = "decr" => FinLeft(n, 1) < FinLeft("snap", a)
<1>1. a \in 1..3 /\ 1 \in 1..3 /\ MaxRetries = 3
  BY DEF MaxRetries
<1>2. /\ FinLeft("extract", 1) = 13 /\ FinLeft("ended", 1) = 10
      /\ FinLeft("decr", 1) = 7 /\ FinLeft("unregister", 1) = 1
  BY <1>1, FinTable
<1>3. /\ FinLeft("persist", a) = 14 + (3 - a) /\ FinLeft("extract", a) = 11 + (3 - a)
      /\ FinLeft("ended", a) = 8 + (3 - a) /\ FinLeft("decr", a) = 3 + 2 * (3 - a)
      /\ FinLeft("snap", a) = 2 + 2 * (3 - a)
  BY FinTable
<1>4. QED
  BY <1>1, <1>2, <1>3, AfterFacts DEF Steps

FinDescends(c) ==
  FinLeft(fin'[c], attempt'[c]) < FinLeft(fin[c], attempt[c])

\* A step that is left leaves the finalizer fewer steps.
LEMMA ProceedDescends ==
  ASSUME TypeOK, NEW c \in Calls, NEW s \in Steps, Proceed(c, s),
         fin[c] = s \/ (s = "decr" /\ fin[c] = "snap")
  PROVE  FinDescends(c)
<1>1. PICK n \in After(s) : fin' = [fin EXCEPT ![c] = n] /\ attempt' = [attempt EXCEPT ![c] = 1]
  BY ProceedFacts, Zenon
<1>2. fin \in [Calls -> FinStates] /\ attempt \in [Calls -> 1..MaxRetries]
  BY OwnTypes, Zenon
<1>3. fin'[c] = n /\ attempt'[c] = 1 /\ attempt[c] \in 1..MaxRetries
  BY <1>1, <1>2, Zenon
<1>4. /\ FinLeft(n, 1) < FinLeft(s, attempt[c])
      /\ s = "decr" => FinLeft(n, 1) < FinLeft("snap", attempt[c])
  BY <1>3, AfterDescends, Zenon
<1>5. QED
  BY <1>3, <1>4, Zenon DEF FinDescends

\* So does one that is tried again, or given up.
LEMMA RetryDescends ==
  ASSUME TypeOK, NEW c \in Calls, NEW s \in Steps, RetryOrGiveUp(c, s),
         fin[c] = s \/ (s = "decr" /\ fin[c] = "snap")
  PROVE  FinDescends(c)
<1>1. CASE attempt[c] < MaxRetries
  <2>1. fin' = [fin EXCEPT ![c] = s] /\ attempt' = [attempt EXCEPT ![c] = attempt[c] + 1]
    BY <1>1 DEF RetryOrGiveUp
  <2>2. fin \in [Calls -> FinStates] /\ attempt \in [Calls -> 1..MaxRetries]
    BY OwnTypes, Zenon
  <2>3. fin'[c] = s /\ attempt'[c] = attempt[c] + 1 /\ attempt[c] \in 1..MaxRetries
    BY <2>1, <2>2, Zenon
  <2>4. ASSUME NEW a \in 1..MaxRetries, a < MaxRetries
        PROVE  /\ FinLeft(s, a + 1) < FinLeft(s, a)
               /\ s = "decr" => FinLeft(s, a + 1) < FinLeft("snap", a)
    <3>1. a \in 1..2 /\ a + 1 \in 1..3 /\ MaxRetries = 3
      BY <2>4 DEF MaxRetries
    <3>2. QED
      BY <3>1 DEF FinLeft, Steps
  <2>5. QED
    BY <1>1, <2>3, <2>4, Zenon DEF FinDescends
<1>2. CASE ~(attempt[c] < MaxRetries)
  BY <1>2, ProceedDescends, Zenon DEF RetryOrGiveUp
<1>3. QED
  BY <1>1, <1>2, Zenon

\* Every step of the finalizer does.
LEMMA FinGoesOn ==
  ASSUME TypeOK, NEW c \in Calls, FinalizerStep(c)
  PROVE  FinDescends(c)
<1>1. /\ fin \in [Calls -> FinStates] /\ attempt \in [Calls -> 1..MaxRetries]
      /\ attempt[c] \in 1..MaxRetries
  BY OwnTypes, Zenon
<1>2. attempt[c] \in 1..3
  BY <1>1 DEF MaxRetries
<1>3. /\ FinLeft("capture", attempt[c]) = 17 /\ FinLeft("unregister", attempt[c]) = 1
      /\ FinLeft("persist", attempt[c]) = 14 + (3 - attempt[c])
      /\ FinLeft("decr", attempt[c]) = 3 + 2 * (3 - attempt[c])
      /\ FinLeft("snap", attempt[c]) = 2 + 2 * (3 - attempt[c])
      /\ FinLeft("done", attempt[c]) = 0
  BY <1>1, FinTable, Zenon
<1>4. CASE Capture(c)
  <2>1. fin[c] = "capture" /\ fin'[c] = "persist" /\ attempt'[c] = attempt[c]
    BY <1>1, <1>4, Zenon DEF Capture
  <2>2. 14 + (3 - attempt[c]) < 17
    BY <1>2
  <2>3. QED
    BY <1>3, <2>1, <2>2, Zenon DEF FinDescends
<1>5. ASSUME NEW s \in Steps, StepSucceeds(c, s) PROVE FinDescends(c)
  <2>1. fin[c] = s
    BY <1>5, Zenon DEF StepSucceeds
  <2>2. CASE Proceed(c, s)
    BY <2>1, <2>2, ProceedDescends, Zenon
  <2>3. CASE s = "decr" /\ fin' = [fin EXCEPT ![c] = "snap"] /\ attempt' = attempt
    <3>1. fin'[c] = "snap" /\ attempt'[c] = attempt[c] /\ fin[c] = "decr"
      BY <1>1, <2>1, <2>3, Zenon
    <3>2. 2 + 2 * (3 - attempt[c]) < 3 + 2 * (3 - attempt[c])
      BY <1>2
    <3>3. QED
      BY <1>3, <3>1, <3>2, Zenon DEF FinDescends
  <2>4. QED
    BY <1>5, <2>2, <2>3, Zenon DEF StepSucceeds
<1>6. ASSUME NEW s \in Steps, NEW k \in FaultKinds, StepFails(c, s, k) PROVE FinDescends(c)
  <2>1. fin[c] = s /\ RetryOrGiveUp(c, s)
    BY <1>6, Zenon DEF StepFails
  <2>2. QED
    BY <2>1, RetryDescends, Zenon
<1>7. "decr" \in Steps
  BY DEF Steps
<1>8. CASE SnapToZero(c)
  <2>1. fin[c] = "snap" /\ Proceed(c, "decr")
    BY <1>8, Zenon DEF SnapToZero
  <2>2. QED
    BY <1>7, <2>1, ProceedDescends, Zenon
<1>9. ASSUME NEW k \in FaultKinds, SnapFails(c, k) PROVE FinDescends(c)
  <2>1. fin[c] = "snap" /\ RetryOrGiveUp(c, "decr")
    BY <1>9, Zenon DEF SnapFails
  <2>2. QED
    BY <1>7, <2>1, RetryDescends, Zenon
<1>10. CASE Unregister(c)
  <2>1. fin[c] = "unregister" /\ fin'[c] = "done" /\ attempt'[c] = attempt[c]
    BY <1>1, <1>10, Zenon DEF Unregister
  <2>2. 0 < 1
    OBVIOUS
  <2>3. QED
    BY <1>3, <2>1, <2>2, Zenon DEF FinDescends
<1>11. QED
  BY <1>4, <1>5, <1>6, <1>8, <1>9, <1>10, Zenon DEF FinalizerStep

\* The sum falls when one part does and the other does not rise.
LEMMA LeftAdds ==
  ASSUME TypeOK, TypeOK', NEW c \in Calls,
         MainLeft(main'[c]) <= MainLeft(main[c]),
         FinLeft(fin'[c], attempt'[c]) <= FinLeft(fin[c], attempt[c])
  PROVE  /\ StepsLeft(c)' <= StepsLeft(c)
         /\ \/ MainLeft(main'[c]) < MainLeft(main[c])
            \/ FinLeft(fin'[c], attempt'[c]) < FinLeft(fin[c], attempt[c])
            => StepsLeft(c)' < StepsLeft(c)
<1>1. MainLeft(main[c]) \in 0..8 /\ FinLeft(fin[c], attempt[c]) \in 0..18
  BY LeftTypes, Zenon
<1>2. MainLeft(main'[c]) \in 0..8 /\ FinLeft(fin'[c], attempt'[c]) \in 0..18
  BY LeftTypesAfter, Zenon
<1>3. ASSUME NEW m \in 0..8, NEW n \in 0..8, NEW f \in 0..18, NEW g \in 0..18,
             n <= m, g <= f
      PROVE  n + g <= m + f /\ (n < m \/ g < f => n + g < m + f)
  BY <1>3
<1>4. StepsLeft(c)' = MainLeft(main'[c]) + FinLeft(fin'[c], attempt'[c])
  BY Zenon DEF StepsLeft
<1>5. StepsLeft(c) = MainLeft(main[c]) + FinLeft(fin[c], attempt[c])
  BY Zenon DEF StepsLeft
<1>6. QED
  BY <1>1, <1>2, <1>3, <1>4, <1>5, Zenon

\* A step of the call's own main task.
LEMMA MainSpends ==
  ASSUME TypeOK, TypeOK', PhaseInv, NEW c \in Calls, MainStep(c)
  PROVE  /\ StepsLeft(c)' <= StepsLeft(c)
         /\ main[c] \notin Live => StepsLeft(c)' < StepsLeft(c)
         /\ \A d \in Calls : d # c => StepsLeft(d)' <= StepsLeft(d)
<1>1. /\ main \in [Calls -> MainStates] /\ fin \in [Calls -> FinStates]
      /\ attempt \in [Calls -> 1..MaxRetries] /\ attempt[c] \in 1..MaxRetries
  BY OwnTypes, Zenon DEF TypeOK, MainStates
<1>2. PICK m \in MainStates : /\ main' = [main EXCEPT ![c] = m]
                              /\ MainLeft(m) <= MainLeft(main[c])
                              /\ main[c] \notin Live => MainLeft(m) < MainLeft(main[c])
  BY MainGoesOn, Zenon DEF MainDescends
<1>3. main'[c] = m /\ \A d \in Calls : d # c => main'[d] = main[d]
  BY <1>1, <1>2, Zenon
<1>4. /\ attempt' = attempt
      /\ \A d \in Calls : d # c => fin'[d] = fin[d]
      /\ fin'[c] = fin[c] \/ (fin[c] = "none" /\ fin'[c] = "capture")
  <2>1. MainMoves(c)
    BY MainFacts, Zenon
  <2>2. attempt' = attempt
    BY <2>1, Zenon DEF MainMoves
  <2>3. CASE fin' = fin
    BY <2>2, <2>3, Zenon
  <2>4. CASE main[c] \notin {"none", "finalizing", "done"} /\ fin' = [fin EXCEPT ![c] = "capture"]
    <3>1. fin[c] = "none"
      BY <2>4, Zenon DEF PhaseInv
    <3>2. QED
      BY <1>1, <2>2, <2>4, <3>1, Zenon
  <2>5. QED
    BY <2>1, <2>3, <2>4, Zenon DEF MainMoves
<1>5. FinLeft("capture", attempt[c]) <= FinLeft("none", attempt[c])
  BY <1>1, FinTable
<1>6. \A d \in Calls : /\ MainLeft(main[d]) <= MainLeft(main[d])
                       /\ FinLeft(fin[d], attempt[d]) <= FinLeft(fin[d], attempt[d])
  BY LeftStays, Zenon
<1>7. \A d \in Calls : /\ MainLeft(main'[d]) <= MainLeft(main[d])
                       /\ FinLeft(fin'[d], attempt'[d]) <= FinLeft(fin[d], attempt[d])
  BY <1>2, <1>3, <1>4, <1>5, <1>6, Zenon
<1>8. main[c] \notin Live => MainLeft(main'[c]) < MainLeft(main[c])
  BY <1>2, <1>3, Zenon
<1>9. QED
  BY <1>7, <1>8, LeftAdds, Zenon

\* A finalizer counts only its own attempts.
LEMMA FinAttempts ==
  ASSUME TypeOK, NEW c \in Calls, FinalizerStep(c)
  PROVE  \A d \in Calls : d # c => attempt'[d] = attempt[d]
<1>1. attempt \in [Calls -> 1..MaxRetries]
  BY OwnTypes, Zenon
<1>2. ASSUME NEW s \in Steps, Proceed(c, s)
      PROVE  \A d \in Calls : d # c => attempt'[d] = attempt[d]
  BY <1>1, <1>2, Zenon DEF Proceed
<1>3. ASSUME NEW s \in Steps, RetryOrGiveUp(c, s)
      PROVE  \A d \in Calls : d # c => attempt'[d] = attempt[d]
  BY <1>1, <1>2, <1>3, Zenon DEF RetryOrGiveUp
<1>4. "decr" \in Steps
  BY DEF Steps
<1>5. CASE attempt' = attempt
  BY <1>5, Zenon
<1>6. QED
  BY <1>2, <1>3, <1>4, <1>5, Zenon
  DEF FinalizerStep, Capture, StepSucceeds, StepFails, SnapToZero, SnapFails, Unregister

\* A step of its finalizer.
LEMMA FinSpends ==
  ASSUME TypeOK, TypeOK', NEW c \in Calls, FinalizerStep(c)
  PROVE  /\ StepsLeft(c)' < StepsLeft(c)
         /\ \A d \in Calls : d # c => StepsLeft(d)' <= StepsLeft(d)
<1>1. fin \in [Calls -> FinStates] /\ attempt \in [Calls -> 1..MaxRetries]
  BY OwnTypes, Zenon
<1>2. main' = main /\ \A d \in Calls : d # c => fin'[d] = fin[d]
  <2>1. CASE FinMoves(c)
    BY <1>1, <2>1, Zenon DEF FinMoves
  <2>2. CASE Unregister(c)
    BY <1>1, <2>2, Zenon DEF Unregister, mainVars
  <2>3. QED
    BY <2>1, <2>2, FinFacts, Zenon
<1>3. \A d \in Calls : d # c => attempt'[d] = attempt[d]
  BY <1>1, FinAttempts, Zenon
<1>4. \A d \in Calls : /\ MainLeft(main[d]) <= MainLeft(main[d])
                       /\ FinLeft(fin[d], attempt[d]) <= FinLeft(fin[d], attempt[d])
  BY LeftStays, Zenon
<1>5. FinLeft(fin'[c], attempt'[c]) < FinLeft(fin[c], attempt[c])
  BY FinGoesOn, Zenon DEF FinDescends
<1>6. FinLeft(fin'[c], attempt'[c]) <= FinLeft(fin[c], attempt[c])
  <2>1. FinLeft(fin[c], attempt[c]) \in 0..18
    BY LeftTypes, Zenon
  <2>2. FinLeft(fin'[c], attempt'[c]) \in 0..18
    BY LeftTypesAfter, Zenon
  <2>3. \A f, g \in 0..18 : g < f => g <= f
    OBVIOUS
  <2>4. QED
    BY <1>5, <2>1, <2>2, <2>3, Zenon
<1>7. \A d \in Calls : /\ MainLeft(main'[d]) <= MainLeft(main[d])
                       /\ FinLeft(fin'[d], attempt'[d]) <= FinLeft(fin[d], attempt[d])
  BY <1>2, <1>3, <1>4, <1>6, Zenon
<1>8. QED
  BY <1>5, <1>7, LeftAdds, Zenon

\* A step of neither a main task nor a finalizer.
Elsewhere ==
  \/ main' = main /\ fin' = fin /\ attempt' = attempt
  \/ \E d \in Calls : StartCall(d)
  \/ ExitProcess

\* It adds nothing either.
LEMMA OthersSpend ==
  ASSUME TypeOK, TypeOK', PhaseInv, NEW c \in Calls, Elsewhere
  PROVE  StepsLeft(c)' <= StepsLeft(c)
<1>1. /\ main \in [Calls -> MainStates] /\ fin \in [Calls -> FinStates]
      /\ attempt \in [Calls -> 1..MaxRetries] /\ attempt[c] \in 1..MaxRetries
  BY OwnTypes, Zenon DEF TypeOK, MainStates
<1>2. /\ MainLeft(main[c]) <= MainLeft(main[c])
      /\ FinLeft(fin[c], attempt[c]) <= FinLeft(fin[c], attempt[c])
  BY LeftStays, Zenon
<1>3. CASE main' = main /\ fin' = fin /\ attempt' = attempt
  <2>1. main'[c] = main[c] /\ fin'[c] = fin[c] /\ attempt'[c] = attempt[c]
    BY <1>3, Zenon
  <2>2. QED
    BY <1>2, <2>1, LeftAdds, Zenon
<1>4. ASSUME NEW d \in Calls, StartCall(d) PROVE StepsLeft(c)' <= StepsLeft(c)
  <2>1. fin' = fin /\ attempt' = attempt /\ main' = [main EXCEPT ![d] = "preamble"]
    BY <1>4, Zenon DEF StartCall, finVars
  <2>2. main[d] = "none"
    BY <1>4, Zenon DEF StartCall, PhaseInv
  <2>3. fin'[c] = fin[c] /\ attempt'[c] = attempt[c]
    BY <2>1, Zenon
  <2>4. main'[c] = main[c] \/ (main[c] = "none" /\ main'[c] = "preamble")
    BY <1>1, <2>1, <2>2, Zenon
  <2>5. MainLeft("preamble") <= MainLeft("none")
    BY MainTable
  <2>6. MainLeft(main'[c]) <= MainLeft(main[c])
    BY <1>2, <2>4, <2>5, Zenon
  <2>7. QED
    BY <1>2, <2>3, <2>6, LeftAdds, Zenon
<1>5. CASE ExitProcess
  <2>1. main' = main /\ attempt' = attempt /\ (fin'[c] = fin[c] \/ fin'[c] = "killed")
    BY <1>1, <1>5, Zenon DEF ExitProcess, mainVars
  <2>2. FinLeft("killed", attempt[c]) = 0 /\ FinLeft(fin[c], attempt[c]) \in 0..18
    BY <1>1, FinTable, LeftTypes, Zenon
  <2>3. FinLeft("killed", attempt[c]) <= FinLeft(fin[c], attempt[c])
    BY <2>2
  <2>4. main'[c] = main[c] /\ attempt'[c] = attempt[c]
    BY <2>1, Zenon
  <2>5. FinLeft(fin'[c], attempt'[c]) <= FinLeft(fin[c], attempt[c])
    BY <1>2, <2>1, <2>3, <2>4, Zenon
  <2>6. QED
    BY <1>2, <2>4, <2>5, LeftAdds, Zenon
<1>6. QED
  BY <1>3, <1>4, <1>5, Zenon DEF Elsewhere

\* Every step of the system.
LEMMA StepSpends ==
  ASSUME TypeOK, TypeOK', PhaseInv, [Next]_vars, NEW c \in Calls
  PROVE  /\ StepsLeft(c)' <= StepsLeft(c)
         /\ OwnStep(c) => StepsLeft(c)' < StepsLeft(c)
<1>1. OwnStep(c) => StepsLeft(c)' < StepsLeft(c)
  BY MainSpends, FinSpends, Zenon DEF OwnStep
<1>2. ASSUME NEW d \in Calls, MainStep(d) PROVE StepsLeft(c)' <= StepsLeft(c)
  BY <1>2, MainSpends, Zenon
<1>3. ASSUME NEW d \in Calls, FinalizerStep(d) PROVE StepsLeft(c)' <= StepsLeft(c)
  <2>1. CASE c # d
    BY <1>3, <2>1, FinSpends, Zenon
  <2>2. CASE c = d
    <3>1. StepsLeft(c)' < StepsLeft(c)
      BY <1>3, <2>2, FinSpends, Zenon
    <3>2. /\ StepsLeft(c) = MainLeft(main[c]) + FinLeft(fin[c], attempt[c])
          /\ StepsLeft(c)' = MainLeft(main'[c]) + FinLeft(fin'[c], attempt'[c])
      BY Zenon DEF StepsLeft
    <3>3. /\ MainLeft(main[c]) \in 0..8 /\ FinLeft(fin[c], attempt[c]) \in 0..18
          /\ MainLeft(main'[c]) \in 0..8 /\ FinLeft(fin'[c], attempt'[c]) \in 0..18
      BY LeftTypes, LeftTypesAfter, Zenon
    <3>4. ASSUME NEW m \in 0..8, NEW n \in 0..8, NEW f \in 0..18, NEW g \in 0..18
          PROVE  n + g < m + f => n + g <= m + f
      OBVIOUS
    <3>5. QED
      BY <3>1, <3>2, <3>3, <3>4, Zenon
  <2>3. QED
    BY <2>1, <2>2, Zenon
<1>4. ASSUME Elsewhere PROVE StepsLeft(c)' <= StepsLeft(c)
  BY <1>4, OthersSpend, Zenon
<1>5. ASSUME NEW d \in Calls, Schedule(d) \/ Pop(d) \/ DeadLetter(d) \/ DeadLetterFails(d)
      PROVE  Elsewhere
  BY <1>5, Zenon DEF Elsewhere, Schedule, Pop, DeadLetter, DeadLetterFails, mainVars, finVars
<1>6. ASSUME NEW d \in Calls, ManualHangup(d) \/ Terminate(d)
      PROVE  Elsewhere
  BY <1>6 DEF Elsewhere, ManualHangup, Terminate, finVars
<1>7. ASSUME RequestStop \/ CancelAll \/ GatherTimeout \/ GatherReturns
      PROVE  Elsewhere
  BY <1>7, Zenon DEF Elsewhere, RequestStop, CancelAll, GatherTimeout, GatherReturns,
    mainVars, finVars
<1>8. ASSUME UNCHANGED vars PROVE Elsewhere
  BY <1>8 DEF Elsewhere, vars, mainVars, finVars
<1>9. StepsLeft(c)' <= StepsLeft(c)
  BY <1>2, <1>3, <1>4, <1>5, <1>6, <1>7, <1>8, Zenon
  DEF Next, Dialing, Shutdown, Elsewhere
<1>10. QED
  BY <1>1, <1>9, Zenon

\* The unwinding and the finalizer run down whatever is thrown at them: the
\* safety part of EndedCallsSettle and HangupEndsListening.
THEOREM CallsRunDown == Spec => SettlesInBoundedSteps
<1>1. TypeOK => \A c \in Calls : StepsLeft(c) \in 0..26
  BY LeftTypes
<1>2. IInv /\ IInv' /\ [Next]_vars =>
        [\A c \in Calls : /\ StepsLeft(c)' <= StepsLeft(c)
                          /\ OwnStep(c) => StepsLeft(c)' < StepsLeft(c)]_vars
  BY StepSpends, Zenon DEF IInv
<1>3. QED
  BY <1>1, <1>2, Invariance, TypeCorrect, PTL DEF Spec, SettlesInBoundedSteps
=============================================================================
