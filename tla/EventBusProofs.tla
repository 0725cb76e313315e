--------------------------- MODULE EventBusProofs ---------------------------
(***************************************************************************)
(* The bus keeps its promises for every number of handlers, posts and for   *)
(* every lossy capacity.  With synchronous lossless handlers the inductive  *)
(* invariant IInv states the position of every lossless event: a healthy    *)
(* bridge has completed 1..k and the queue holds k+1..n.  With async ones   *)
(* FInv keeps an account per bridge: every event taken off the lane is      *)
(* completed, or held for the bridge by the dispatcher or by the drain, or  *)
(* is the one event lost when a task was cancelled inside its delivery.     *)
(***************************************************************************)
EXTENDS EventBus, SequenceTheorems, FiniteSetTheorems, TLAPS

\* The lossless handlers are synchronous, as all of the engine's are.
SyncLossless == \A h \in HandlersOf["lossless"] : h \notin Async

\* done is 1..k and q is k+1..n.
Split(done, q, n) ==
  /\ Len(done) + Len(q) = n
  /\ \A i \in 1..Len(done) : done[i] = i
  /\ \A i \in 1..Len(q) : q[i] = Len(done) + i

Positions(h) == Split(handled[h], queue["lossless"], posted["lossless"])

IInv ==
  /\ TypeOK
  /\ \A h \in Bridges \ Faulty : Positions(h)
  /\ task["lossless"] # "awaiting"
  /\ closer # "draining"
  /\ (task["lossless"] # "off" \/ closed) => Bridged
  /\ closer # "none" => closed /\ queue["lossless"] = <<>>

-----------------------------------------------------------------------------
\* The positions of a list of n handlers are n.
LEMMA IntervalSize ==
  ASSUME NEW n \in Nat
  PROVE  IsFiniteSet(1..n) /\ Cardinality(1..n) = n
<1>1. 1 \in Int /\ n \in Int
  OBVIOUS
<1>2. IsFiniteSet(1..n) /\ Cardinality(1..n) = IF 1 > n THEN 0 ELSE n - 1 + 1
  BY <1>1, FS_Interval, Zenon
<1>3. (IF 1 > n THEN 0 ELSE n - 1 + 1) = n
  OBVIOUS
<1> QED BY <1>2, <1>3

\* The handlers that run before a suspension are a prefix of the snapshot, and
\* what is left is a list of handlers again.
LEMMA PrefixBound ==
  ASSUME NEW S, NEW hs \in Seq(S)
  PROVE  /\ SyncPrefix(hs) \in 0..Len(hs)
         /\ AfterPrefix(hs) \in Seq(S)
<1> DEFINE sync == {i \in 1..Len(hs) : \A j \in 1..i : hs[j] \notin Async}
<1>1. Len(hs) \in Nat /\ \A i \in 1..Len(hs) : hs[i] \in S
  OBVIOUS
<1>2. IsFiniteSet(1..Len(hs)) /\ Cardinality(1..Len(hs)) = Len(hs)
  BY <1>1, IntervalSize
<1>3. Cardinality(sync) \in Nat /\ Cardinality(sync) <= Len(hs)
  BY <1>2, FS_Subset, FS_CardinalityType
<1>4. SyncPrefix(hs) \in 0..Len(hs)
  BY <1>1, <1>3 DEF SyncPrefix
<1>5. AfterPrefix(hs) \in Seq(S)
  BY <1>1, <1>4, SubSeqProperties DEF AfterPrefix
<1> QED BY <1>4, <1>5

\* A snapshot with no async handler is delivered without suspending.
LEMMA SyncSnapshot ==
  ASSUME SyncLossless, NEW hs \in Seq(HandlersOf["lossless"])
  PROVE  SyncPrefix(hs) = Len(hs) /\ AfterPrefix(hs) = <<>>
<1>1. \A i \in 1..Len(hs) : hs[i] \notin Async
  BY DEF SyncLossless
<1>2. Len(hs) \in Nat
  OBVIOUS
<1>3. {i \in 1..Len(hs) : \A j \in 1..i : hs[j] \notin Async} = 1..Len(hs)
  BY <1>1, <1>2
<1>4. Cardinality(1..Len(hs)) = Len(hs)
  BY <1>2, IntervalSize
<1>5. SyncPrefix(hs) = Len(hs)
  BY <1>3, <1>4, Zenon DEF SyncPrefix
<1>6. SubSeq(hs, Len(hs) + 1, Len(hs)) = <<>>
  BY <1>2, SubSeqEmpty
<1> QED BY <1>5, <1>6 DEF AfterPrefix

\* Completing events keeps a delivery log a log.
LEMMA CompletedType ==
  ASSUME NEW log \in [Handlers -> Seq(Nat)], NEW left, NEW n, NEW evs \in Seq(Nat)
  PROVE  Completed(log, left, n, evs) \in [Handlers -> Seq(Nat)]
  BY DEF Completed

\* A post, a delivery and a drain move events along without a gap.
LEMMA SplitPost ==
  ASSUME NEW c \in Seq(Nat), NEW q \in Seq(Nat), NEW n \in Nat, Split(c, q, n)
  PROVE  Split(c, Append(q, n + 1), n + 1)
<1>1. Len(Append(q, n + 1)) = Len(q) + 1
  OBVIOUS
<1>2. \A i \in 1..(Len(q) + 1) : Append(q, n + 1)[i] = IF i = Len(q) + 1 THEN n + 1 ELSE q[i]
  OBVIOUS
<1>3. Len(c) \in Nat /\ Len(q) \in Nat /\ Len(c) + Len(q) = n
  BY DEF Split
<1>4. \A i \in 1..(Len(q) + 1) : Append(q, n + 1)[i] = Len(c) + i
  <2> SUFFICES ASSUME NEW i \in 1..(Len(q) + 1)
               PROVE  Append(q, n + 1)[i] = Len(c) + i
    OBVIOUS
  <2>1. CASE i = Len(q) + 1
    BY <1>2, <1>3, <2>1
  <2>2. CASE i # Len(q) + 1
    <3>1. i \in 1..Len(q)
      BY <1>3, <2>2
    <3> QED BY <1>2, <2>2, <3>1 DEF Split
  <2> QED BY <2>1, <2>2
<1> DEFINE a == Append(q, n + 1)
<1>5. Len(a) = Len(q) + 1 /\ \A i \in 1..(Len(q) + 1) : a[i] = Len(c) + i
  BY <1>1, <1>4
<1> HIDE DEF a
<1>6. Len(c) + Len(a) = n + 1
  BY <1>3, <1>5
<1>7. \A i \in 1..Len(a) : a[i] = Len(c) + i
  BY <1>5
<1>8. Split(c, a, n + 1)
  BY <1>6, <1>7 DEF Split
<1> QED BY <1>8 DEF a

\* The elements of a log to which one event was added.
LEMMA SnocElements ==
  ASSUME NEW c \in Seq(Nat), NEW e \in Nat
  PROVE  /\ Len(c \o <<e>>) = Len(c) + 1
         /\ \A i \in 1..(Len(c) + 1) : (c \o <<e>>)[i] = IF i <= Len(c) THEN c[i] ELSE e
<1> DEFINE one == <<e>>
<1>1. one \in Seq(Nat) /\ Len(one) = 1 /\ one[1] = e /\ Len(c) \in Nat
  OBVIOUS
<1> HIDE DEF one
<1>2. /\ Len(c \o one) = Len(c) + Len(one)
      /\ \A i \in 1..(Len(c) + Len(one)) :
           (c \o one)[i] = IF i <= Len(c) THEN c[i] ELSE one[i - Len(c)]
  BY <1>1, ConcatProperties, Zenon
<1>3. \A i \in 1..(Len(c) + 1) : ~(i <= Len(c)) => i - Len(c) = 1
  BY <1>1
<1>4. /\ Len(c \o one) = Len(c) + 1
      /\ \A i \in 1..(Len(c) + 1) : (c \o one)[i] = IF i <= Len(c) THEN c[i] ELSE e
  BY <1>1, <1>2, <1>3
<1> QED BY <1>4 DEF one

\* A delivery: the oldest queued event becomes the newest handled one.
LEMMA SplitDeliver ==
  ASSUME NEW c \in Seq(Nat), NEW q \in Seq(Nat), NEW n \in Nat, Split(c, q, n), q # <<>>
  PROVE  Split(c \o <<Head(q)>>, Tail(q), n)
<1>1. /\ Head(q) = q[1] /\ Len(q) >= 1 /\ q[1] = Len(c) + 1 /\ Head(q) \in Nat
      /\ <<Head(q)>> \in Seq(Nat)
  BY DEF Split
<1>2. /\ Len(Tail(q)) = Len(q) - 1
      /\ \A i \in 1..(Len(q) - 1) : Tail(q)[i] = q[i + 1]
  BY <1>1
<1> DEFINE d == c \o <<Head(q)>>
           r == Tail(q)
<1>3. /\ Len(d) = Len(c) + 1
      /\ \A i \in 1..(Len(c) + 1) : d[i] = IF i <= Len(c) THEN c[i] ELSE Head(q)
  BY <1>1, SnocElements, Zenon
<1>r. r = Tail(q)
  OBVIOUS
<1> HIDE DEF d, r
<1>4. \A i \in 1..Len(d) : d[i] = i
  <2>1. \A i \in 1..Len(c) : c[i] = i
    BY DEF Split
  <2>2. Len(c) \in Nat
    OBVIOUS
  <2> QED BY <1>1, <1>3, <2>1, <2>2
<1>5. \A i \in 1..Len(r) : r[i] = Len(d) + i
  BY <1>1, <1>2, <1>3, <1>r DEF Split
<1>6. Len(d) + Len(r) = n
  <2>1. Len(c) + Len(q) = n /\ Len(c) \in Nat /\ Len(q) \in Nat
    BY DEF Split
  <2>2. Len(r) = Len(q) - 1
    BY <1>2, <1>r
  <2>3. Len(d) = Len(c) + 1
    BY <1>3
  <2> QED BY <2>1, <2>2, <2>3
<1>7. Split(d, r, n)
  BY <1>4, <1>5, <1>6 DEF Split
<1> QED BY <1>7 DEF d, r

\* A drain: aclose() hands over the whole queue.
LEMMA SplitDrain ==
  ASSUME NEW c \in Seq(Nat), NEW q \in Seq(Nat), NEW n \in Nat, Split(c, q, n)
  PROVE  Split(c \o q, <<>>, n) /\ c \o q = Upto(n)
<1> DEFINE d == c \o q
<1>1. /\ d \in Seq(Nat) /\ Len(d) = Len(c) + Len(q)
      /\ \A i \in 1..(Len(c) + Len(q)) : d[i] = IF i <= Len(c) THEN c[i] ELSE q[i - Len(c)]
  BY ConcatProperties
<1> HIDE DEF d
<1>2. Len(d) = n
  BY <1>1 DEF Split
<1>3. \A i \in 1..n : d[i] = i
  <2> SUFFICES ASSUME NEW i \in 1..n PROVE d[i] = i
    OBVIOUS
  <2>1. CASE i <= Len(c)
    BY <1>1, <1>2, <2>1 DEF Split
  <2>2. CASE ~(i <= Len(c))
    <3>1. i - Len(c) \in 1..Len(q)
      BY <1>1, <1>2, <2>2
    <3>2. q[i - Len(c)] = Len(c) + (i - Len(c))
      BY <3>1, Zenon DEF Split
    <3>3. d[i] = q[i - Len(c)]
      BY <1>1, <1>2, <2>2
    <3>4. Len(c) + (i - Len(c)) = i
      BY <1>1
    <3> QED BY <3>2, <3>3, <3>4
  <2> QED BY <2>1, <2>2
<1>4. d = [i \in 1..n |-> d[i]]
  BY <1>1, <1>2
<1>5. d = Upto(n)
  BY <1>3, <1>4 DEF Upto
<1>6. Split(d, <<>>, n)
  BY <1>2, <1>3 DEF Split
<1> QED BY <1>5, <1>6 DEF d

-----------------------------------------------------------------------------
\* The bus's variables keep their types whatever handlers await.
LEMMA InitTypeOK == Init => TypeOK
<1> SUFFICES ASSUME Init PROVE TypeOK
  OBVIOUS
<1>1. \A S : <<>> \in Seq(S)
  OBVIOUS
<1>2. Idle \in [ev : Nat, left : Seq(Handlers)]
  BY <1>1 DEF Idle
<1> QED BY <1>1, <1>2, Zenon DEF Init, TypeOK

\* Every step of the bus keeps them.
LEMMA NextTypeOK == TypeOK /\ [Next]_vars => TypeOK'
<1> SUFFICES ASSUME TypeOK, [Next]_vars PROVE TypeOK'
  OBVIOUS
<1> USE BusAssumption
<1>i. Idle \in [ev : Nat, left : Seq(Handlers)]
  BY DEF Idle
<1>l. "lossless" \in Lanes /\ "lossy" \in Lanes /\ Lanes \subseteq Deliverers
      /\ "aclose" \in Deliverers
  BY DEF Lanes, Deliverers
<1>h. \A l \in Lanes : HandlersOf[l] \subseteq Handlers
  BY DEF Lanes, Handlers
<1>1. ASSUME NEW l \in Lanes, NEW h \in HandlersOf[l], Subscribe(l, h)
      PROVE  TypeOK'
  <2>1. Append(subs[l], h) \in Seq(HandlersOf[l]) /\ Append(subs[l], h) \in Seq(Handlers)
    BY <1>1, <1>h DEF TypeOK
  <2> QED BY <1>1, <2>1 DEF Subscribe, TypeOK
<1>2. ASSUME NEW l \in Lanes, NEW h \in HandlersOf[l], Unsubscribe(l, h)
      PROVE  TypeOK'
  <2>1. PICK i \in 1..Len(subs[l]) : subs' = [subs EXCEPT ![l] = Without(@, i)]
    BY <1>2, Zenon DEF Unsubscribe
  <2>2. \A S : subs[l] \in Seq(S) => Without(subs[l], i) \in Seq(S)
    <3> SUFFICES ASSUME NEW S, subs[l] \in Seq(S) PROVE Without(subs[l], i) \in Seq(S)
      OBVIOUS
    <3>1. Len(subs[l]) - 1 \in Nat /\ \A j \in 1..Len(subs[l]) : subs[l][j] \in S
      OBVIOUS
    <3> QED BY <3>1, IsASeq DEF Without
  <2> QED BY <1>2, <2>1, <2>2, <1>h, Zenon DEF Unsubscribe, TypeOK
<1>3. CASE PostLossless
  <2>1. Append(queue["lossless"], posted["lossless"] + 1) \in Seq(Nat)
    BY <1>l DEF TypeOK
  <2>2. queue' \in [Lanes -> Seq(Nat)]
    BY <1>3, <1>l, <2>1 DEF PostLossless, TypeOK
  <2>3. posted' \in [Lanes -> Nat]
    <3>1. posted' = [posted EXCEPT !["lossless"] = posted["lossless"] + 1]
      BY <1>3 DEF PostLossless
    <3>2. posted \in [Lanes -> Nat]
      BY DEF TypeOK
    <3> QED BY <1>l, <3>1, <3>2
  <2> QED BY <1>3, <2>2, <2>3 DEF PostLossless, TypeOK
<1>4. CASE PostLossy
  <2> DEFINE q == queue["lossy"]
  <2>1. q \in Seq(Nat) /\ posted["lossy"] + 1 \in Nat
    BY <1>l DEF TypeOK
  <2>2. Len(q) = LossyMax => Tail(q) \in Seq(Nat)
    BY <2>1
  <2>3. Append(IF Len(q) = LossyMax THEN Tail(q) ELSE q, posted["lossy"] + 1) \in Seq(Nat)
    BY <2>1, <2>2
  <2>4. queue' \in [Lanes -> Seq(Nat)]
    <3> DEFINE new == Append(IF Len(q) = LossyMax THEN Tail(q) ELSE q, posted["lossy"] + 1)
    <3>1. queue' = [queue EXCEPT !["lossy"] = new]
      BY <1>4 DEF PostLossy
    <3>2. new \in Seq(Nat)
      BY <2>3
    <3> HIDE DEF new
    <3> QED BY <3>1, <3>2, Zenon DEF TypeOK
  <2>5. posted' \in [Lanes -> Nat]
    BY <1>4, <2>1, Zenon DEF PostLossy, TypeOK
  <2>6. dropped' = dropped \/ dropped' = dropped + 1
    BY <1>4 DEF PostLossy
  <2> QED BY <1>4, <2>4, <2>5, <2>6 DEF PostLossy, TypeOK
<1>5. CASE Start
  BY <1>5 DEF Start, TypeOK
<1>6. ASSUME NEW l \in Lanes, Dispatch(l)
      PROVE  TypeOK'
  <2>1. Head(queue[l]) \in Nat /\ Tail(queue[l]) \in Seq(Nat)
        /\ <<Head(queue[l])>> \in Seq(Nat)
    <3>1. queue[l] \in Seq(Nat) /\ queue[l] # <<>>
      BY <1>6 DEF Dispatch, TypeOK
    <3>2. Head(queue[l]) \in Nat /\ Tail(queue[l]) \in Seq(Nat)
      BY <3>1
    <3> QED BY <3>2
  <2>2. AfterPrefix(subs[l]) \in Seq(Handlers)
    BY PrefixBound DEF TypeOK
  <2>3. handled' \in [Handlers -> Seq(Nat)]
    BY <1>6, <2>1, CompletedType, Zenon DEF Dispatch, Log, TypeOK
  <2>4. frame' \in [Deliverers -> [ev : Nat, left : Seq(Handlers)]]
    BY <1>6, <1>i, <1>l, <2>1, <2>2 DEF Dispatch, TypeOK
  <2>5. \A k \in Lanes : task'[k] = "awaiting" => frame'[k].left # <<>>
    BY <1>6, <1>l, Zenon DEF Dispatch, TypeOK
  <2>6. frame'["aclose"] = frame["aclose"]
    BY <1>6, <1>l DEF Dispatch, TypeOK, Lanes
  <2>7. queue' \in [Lanes -> Seq(Nat)]
        /\ task' \in [Lanes -> {"off", "idle", "awaiting", "dead"}]
    BY <1>6, <2>1 DEF Dispatch, TypeOK
  <2> QED BY <1>6, <2>3, <2>4, <2>5, <2>6, <2>7, Zenon DEF Dispatch, TypeOK
<1>7. ASSUME NEW l \in Lanes, HandlerReturns(l)
      PROVE  TypeOK'
  <2> DEFINE f == frame[l]
  <2>1. f \in [ev : Nat, left : Seq(Handlers)]
    BY <1>l DEF TypeOK
  <2>2. f.left # <<>>
    BY <1>7 DEF HandlerReturns, TypeOK
  <2>3. Tail(f.left) \in Seq(Handlers)
    BY <2>1, <2>2
  <2>4. AfterPrefix(Tail(f.left)) \in Seq(Handlers)
    BY <2>3, PrefixBound, Zenon
  <2>5. handled' \in [Handlers -> Seq(Nat)]
    <3>1. <<f.ev>> \in Seq(Nat)
      BY <2>1
    <3>2. handled \in [Handlers -> Seq(Nat)]
      BY DEF TypeOK
    <3>3. Completed(handled, f.left, 1 + SyncPrefix(Tail(f.left)), <<f.ev>>)
            \in [Handlers -> Seq(Nat)]
      BY <3>1, <3>2, CompletedType, Zenon
    <3> QED BY <1>7, <3>2, <3>3, Zenon DEF HandlerReturns, Log
  <2>6. frame' \in [Deliverers -> [ev : Nat, left : Seq(Handlers)]]
    BY <1>7, <1>i, <1>l, <2>1, <2>4, Zenon DEF HandlerReturns, TypeOK
  <2> QED BY <1>7, <1>l, <2>5, <2>6, Zenon DEF HandlerReturns, TypeOK, Lanes, Deliverers
<1>8. ASSUME NEW log \in [Handlers -> Seq(Nat)], DrainOn(log)
      PROVE  /\ handled' \in [Handlers -> Seq(Nat)]
             /\ queue' \in [Lanes -> Seq(Nat)]
             /\ task' \in [Lanes -> {"off", "idle", "awaiting", "dead"}]
             /\ frame' \in [Deliverers -> [ev : Nat, left : Seq(Handlers)]]
             /\ closer' \in {"draining", "gathering"}
             /\ \A l \in Lanes : task'[l] = "awaiting" => frame'[l].left # <<>>
             /\ closer' = "draining" => frame'["aclose"].left # <<>>
  <2> DEFINE q    == queue["lossless"]
             hs   == subs["lossless"]
             rest == AfterPrefix(hs)
  <2>1. q \in Seq(Nat) /\ hs \in Seq(Handlers) /\ <<>> \in Seq(Nat)
    BY <1>l DEF TypeOK
  <2>2. rest \in Seq(Handlers)
    BY <2>1, PrefixBound
  <2>3. CASE q = <<>> \/ rest = <<>>
    <3>1. /\ handled' = Completed(log, hs, Len(hs), q)
          /\ queue' = [queue EXCEPT !["lossless"] = <<>>]
          /\ StopDispatchers
      BY <1>8, <2>3 DEF DrainOn
    <3>2. \A l \in Lanes : task'[l] # "awaiting"
      BY <3>1 DEF StopDispatchers
    <3> QED BY <1>i, <1>l, <2>1, <3>1, <3>2, CompletedType, Zenon DEF StopDispatchers,
        TypeOK
  <2>4. CASE ~(q = <<>> \/ rest = <<>>)
    <3>1. /\ handled' = Completed(log, hs, SyncPrefix(hs), <<Head(q)>>)
          /\ queue' = [queue EXCEPT !["lossless"] = Tail(@)]
          /\ frame' = [frame EXCEPT !["aclose"] = [ev |-> Head(q), left |-> rest]]
          /\ closer' = "draining"
          /\ task' = task
      BY <1>8, <2>4 DEF DrainOn
    <3>2. Head(q) \in Nat /\ Tail(q) \in Seq(Nat) /\ <<Head(q)>> \in Seq(Nat)
      BY <2>1, <2>4
    <3>3. handled' \in [Handlers -> Seq(Nat)]
      BY <3>1, <3>2, CompletedType, Zenon
    <3>4. /\ frame' \in [Deliverers -> [ev : Nat, left : Seq(Handlers)]]
          /\ frame'["aclose"].left = rest
          /\ \A l \in Lanes : frame'[l] = frame[l]
      BY <1>l, <2>2, <3>1, <3>2 DEF TypeOK, Lanes
    <3> QED BY <1>l, <2>4, <3>1, <3>2, <3>3, <3>4, Zenon DEF TypeOK
  <2> QED BY <2>3, <2>4
<1>9. CASE Aclose
  BY <1>9, <1>8 DEF Aclose, TypeOK
<1>10. CASE AcloseResumes
  <2> DEFINE f    == frame["aclose"]
             left == Tail(f.left)
             rest == AfterPrefix(left)
             log  == Completed(handled, f.left, 1 + SyncPrefix(left), <<f.ev>>)
  <2>1. f \in [ev : Nat, left : Seq(Handlers)] /\ f.left # <<>>
    BY <1>10, <1>l DEF AcloseResumes, TypeOK
  <2>2. left \in Seq(Handlers)
    BY <2>1
  <2>3. rest \in Seq(Handlers)
    BY <2>2, PrefixBound, Zenon
  <2>4. log \in [Handlers -> Seq(Nat)]
    <3>1. <<f.ev>> \in Seq(Nat)
      BY <2>1
    <3>2. handled \in [Handlers -> Seq(Nat)]
      BY DEF TypeOK
    <3> QED BY <3>1, <3>2, CompletedType, Zenon
  <2>5. CASE rest = <<>>
    <3>1. DrainOn(log) /\ UNCHANGED <<posted, dropped, subs, closed>>
      BY <1>10, <2>5 DEF AcloseResumes
    <3> QED BY <1>8, <2>4, <3>1, Zenon DEF TypeOK
  <2>6. CASE rest # <<>>
    <3>1. /\ handled' = log
          /\ frame' = [frame EXCEPT !["aclose"].left = rest]
          /\ UNCHANGED <<queue, task, closer, posted, dropped, subs, closed>>
      BY <1>10, <2>6 DEF AcloseResumes
    <3>2. /\ frame' \in [Deliverers -> [ev : Nat, left : Seq(Handlers)]]
          /\ frame'["aclose"].left = rest
          /\ \A l \in Lanes : frame'[l] = frame[l]
      BY <1>l, <2>1, <2>3, <3>1, Zenon DEF TypeOK, Lanes
    <3> QED BY <2>4, <2>6, <3>1, <3>2, Zenon DEF TypeOK
  <2> QED BY <2>5, <2>6
<1>11. CASE AcloseReturns
  BY <1>11 DEF AcloseReturns, TypeOK
<1>12. CASE CancelCloser
  BY <1>12, <1>i, <1>l DEF CancelCloser, TypeOK, Lanes
<1>13. CASE UNCHANGED vars
  BY <1>13 DEF vars, TypeOK
<1> QED BY <1>1, <1>2, <1>3, <1>4, <1>5, <1>6, <1>7, <1>9, <1>10, <1>11, <1>12, <1>13 DEF Next

\* post(), the dispatchers, the drain and its cancellation keep every queue a
\* queue of events and every suspended delivery a list of handlers.
THEOREM TypeCorrect == Spec => []TypeOK
  BY InitTypeOK, NextTypeOK, PTL DEF Spec

-----------------------------------------------------------------------------
\* Exactly-once delivery on the lossless lane, for synchronous handlers.

\* The inductive invariant holds of a fresh bus.
LEMMA InitIInv == Init => IInv
<1> SUFFICES ASSUME Init PROVE IInv
  OBVIOUS
<1>1. TypeOK
  BY InitTypeOK
<1>2. /\ queue["lossless"] = <<>> /\ posted["lossless"] = 0
      /\ \A h \in Handlers : handled[h] = <<>>
  BY DEF Init, Lanes
<1>3. \A h \in Bridges \ Faulty : Positions(h)
  BY <1>2, BusAssumption DEF Positions, Split, Handlers
<1> QED BY <1>1, <1>3 DEF Init, IInv, Lanes

\* A subscription only adds, and no bridge is unsubscribed.
LEMMA BridgedKept ==
  ASSUME TypeOK, NEW l \in Lanes, NEW h \in HandlersOf[l],
         Subscribe(l, h) \/ Unsubscribe(l, h)
  PROVE  Bridged => Bridged'
<1> USE BusAssumption
<1>t. TypeOK
  OBVIOUS
<1>l. "lossless" \in Lanes /\ "lossy" \in Lanes /\ "lossless" # "lossy"
  BY DEF Lanes
<1>1. ASSUME Subscribe(l, h) PROVE Bridged => Bridged'
  <2> DEFINE s == subs["lossless"]
  <2>1. s \in Seq(Handlers) /\ h \in Handlers
    BY <1>t, <1>l DEF TypeOK, Handlers, Lanes
  <2>2. subs'["lossless"] = s \/ subs'["lossless"] = Append(s, h)
    BY <1>1, <1>t, <1>l DEF Subscribe, TypeOK
  <2>3. \A g : InSeq(g, s) => InSeq(g, Append(s, h))
    <3> HIDE DEF s
    <3>1. Len(s) \in Nat /\ Len(Append(s, h)) = Len(s) + 1
      BY <2>1
    <3>2. \A i \in 1..Len(s) : Append(s, h)[i] = s[i]
      BY <2>1
    <3> QED BY <3>1, <3>2 DEF InSeq
  <2> QED BY <2>2, <2>3, Zenon DEF Bridged
<1>2. ASSUME Unsubscribe(l, h) PROVE Bridged => Bridged'
  <2> SUFFICES ASSUME NEW g \in Bridges, InSeq(g, subs["lossless"])
               PROVE  InSeq(g, subs'["lossless"])
    BY DEF Bridged
  <2>1. PICK i \in 1..Len(subs[l]) : /\ subs[l][i] = h
                                    /\ subs' = [subs EXCEPT ![l] = Without(@, i)]
    BY <1>2, Zenon DEF Unsubscribe
  <2>2. CASE l # "lossless"
    BY <2>1, <2>2, <1>t, <1>l DEF TypeOK
  <2>3. CASE l = "lossless"
    <3> DEFINE s == subs["lossless"]
               w == Without(s, i)
    <3>1. s \in Seq(Handlers) /\ subs'["lossless"] = w /\ i \in 1..Len(s)
      BY <2>1, <2>3, <1>t, <1>l DEF TypeOK
    <3>2. PICK k \in 1..Len(s) : s[k] = g
      BY DEF InSeq
    <3>3. k # i
      BY <1>2, <2>1, <2>3, <3>2 DEF Unsubscribe
    <3>4. Len(s) - 1 \in Nat /\ w \in [1..(Len(s) - 1) -> Handlers]
      BY <3>1 DEF Without
    <3>5. Len(w) = Len(s) - 1
      BY <3>4, IsASeq
    <3>6. \E m \in 1..(Len(s) - 1) : w[m] = g
      <4>1. CASE k < i
        BY <4>1, <3>1, <3>2 DEF Without
      <4>2. CASE k > i
        <5>1. k - 1 \in 1..(Len(s) - 1) /\ ~(k - 1 < i) /\ s[(k - 1) + 1] = g
          BY <4>2, <3>1, <3>2
        <5> QED BY <5>1, Zenon DEF Without
      <4> QED BY <3>1, <3>2, <3>3, <4>1, <4>2
    <3> QED BY <3>1, <3>5, <3>6 DEF InSeq
  <2> QED BY <2>2, <2>3
<1>3. QED
  BY <1>1, <1>2, Zenon

\* Every step keeps the inductive invariant, one step of the proof per action.
LEMMA NextIInv == SyncLossless /\ IInv /\ [Next]_vars => IInv'
<1> SUFFICES ASSUME SyncLossless, IInv, [Next]_vars PROVE IInv'
  OBVIOUS
<1> USE BusAssumption
<1>t. TypeOK /\ TypeOK'
  BY NextTypeOK DEF IInv
<1>l. "lossless" \in Lanes /\ "lossy" \in Lanes /\ "lossless" # "lossy"
  BY DEF Lanes
<1>b. \A h \in Bridges : h \in Handlers
  BY DEF Handlers
<1>s. /\ SyncPrefix(subs["lossless"]) = Len(subs["lossless"])
      /\ AfterPrefix(subs["lossless"]) = <<>>
  BY <1>t, <1>l, SyncSnapshot DEF TypeOK
<1>1. ASSUME NEW l \in Lanes, NEW h \in HandlersOf[l], Subscribe(l, h)
      PROVE  IInv'
  <2>1. Bridged => Bridged'
    BY <1>1, <1>t, BridgedKept, Zenon
  <2> QED BY <1>1, <1>t, <2>1 DEF Subscribe, IInv, Positions
<1>2. ASSUME NEW l \in Lanes, NEW h \in HandlersOf[l], Unsubscribe(l, h)
      PROVE  IInv'
  <2>1. Bridged => Bridged'
    BY <1>2, <1>t, BridgedKept, Zenon
  <2> QED BY <1>2, <1>t, <2>1 DEF Unsubscribe, IInv, Positions
<1>3. CASE PostLossless
  <2> DEFINE q == queue["lossless"]
             n == posted["lossless"]
  <2>1. q \in Seq(Nat) /\ n \in Nat
    BY <1>t, <1>l DEF TypeOK
  <2>2. queue'["lossless"] = Append(q, n + 1) /\ posted'["lossless"] = n + 1
    BY <1>3, <1>t, <1>l DEF PostLossless, TypeOK
  <2>3. ASSUME NEW h \in Bridges \ Faulty PROVE Positions(h)'
    <3>1. Positions(h) /\ handled[h] \in Seq(Nat) /\ handled' = handled
      BY <1>3, <1>t, <1>b DEF IInv, PostLossless, TypeOK
    <3>2. Split(handled[h], Append(q, n + 1), n + 1)
      BY <2>1, <3>1, SplitPost DEF Positions
    <3> QED BY <2>2, <3>1, <3>2 DEF Positions
  <2> QED BY <1>3, <1>t, <2>3 DEF PostLossless, IInv, Bridged
<1>4. CASE PostLossy
  <2>1. queue'["lossless"] = queue["lossless"] /\ posted'["lossless"] = posted["lossless"]
    BY <1>4, <1>t, <1>l DEF PostLossy, TypeOK
  <2> QED BY <1>4, <1>t, <2>1 DEF PostLossy, IInv, Positions, Bridged
<1>5. CASE Start
  BY <1>5, <1>t, <1>l DEF Start, IInv, Positions, Bridged
<1>6. ASSUME NEW l \in Lanes, Dispatch(l)
      PROVE  IInv'
  <2>1. CASE l = "lossy"
    <3>1. /\ queue'["lossless"] = queue["lossless"] /\ handled' = handled
          /\ task'["lossless"] = task["lossless"]
      BY <1>6, <2>1, <1>t, <1>l DEF Dispatch, Log, TypeOK
    <3> QED BY <1>6, <1>t, <3>1 DEF Dispatch, IInv, Positions, Bridged
  <2>2. CASE l = "lossless"
    <3> DEFINE q  == queue["lossless"]
               hs == subs["lossless"]
    <3>1. q \in Seq(Nat) /\ q # <<>> /\ Bridged /\ closer = "none"
      BY <1>6, <2>2, <1>t, <1>l DEF Dispatch, TypeOK, IInv
    <3>2. /\ queue'["lossless"] = Tail(q)
          /\ task'["lossless"] = "idle"
          /\ handled' = Completed(handled, hs, Len(hs), <<Head(q)>>)
          /\ UNCHANGED <<posted, subs, closed, closer>>
      BY <1>6, <2>2, <1>t, <1>l, <1>s, Zenon DEF Dispatch, Log, TypeOK
    <3>3. ASSUME NEW h \in Bridges \ Faulty PROVE Positions(h)'
      <4>1. Positions(h) /\ handled[h] \in Seq(Nat)
        BY <1>t, <1>b DEF IInv, TypeOK
      <4>2. handled'[h] = handled[h] \o <<Head(q)>>
        BY <3>1, <3>2, <1>b DEF Completed, Bridged, InSeq
      <4>3. posted["lossless"] \in Nat
        BY <1>t, <1>l DEF TypeOK
      <4>4. Split(handled[h] \o <<Head(q)>>, Tail(q), posted["lossless"])
        BY <3>1, <4>1, <4>3, SplitDeliver DEF Positions
      <4> QED BY <3>2, <4>2, <4>4, Zenon DEF Positions
    <3> QED BY <1>t, <3>1, <3>2, <3>3 DEF IInv, Bridged
  <2> QED BY <2>1, <2>2 DEF Lanes
<1>7. ASSUME NEW l \in Lanes, HandlerReturns(l)
      PROVE  IInv'
  <2>1. l = "lossy"
    BY <1>7 DEF HandlerReturns, IInv, Lanes
  <2>2. handled' = handled /\ task'["lossless"] = task["lossless"]
    BY <1>7, <2>1, <1>t, <1>l DEF HandlerReturns, Log, TypeOK
  <2> QED BY <1>7, <1>t, <2>2 DEF HandlerReturns, IInv, Positions, Bridged
<1>8. CASE Aclose
  <2> DEFINE q  == queue["lossless"]
             hs == subs["lossless"]
  <2>1. /\ handled' = Completed(handled, hs, Len(hs), q)
        /\ queue' = [queue EXCEPT !["lossless"] = <<>>]
        /\ StopDispatchers
        /\ closed' /\ Bridged /\ UNCHANGED <<posted, subs>>
    BY <1>8, <1>s DEF Aclose, DrainOn
  <2>2. q \in Seq(Nat) /\ queue'["lossless"] = <<>>
    BY <2>1, <1>t, <1>l DEF TypeOK
  <2>3. task'["lossless"] # "awaiting" /\ closer' = "gathering"
    BY <2>1, <1>l DEF StopDispatchers
  <2>4. ASSUME NEW h \in Bridges \ Faulty PROVE Positions(h)'
    <3>1. Positions(h) /\ handled[h] \in Seq(Nat)
      BY <1>t, <1>b DEF IInv, TypeOK
    <3>2. handled'[h] = handled[h] \o q
      BY <2>1, <1>b, Zenon DEF Completed, Bridged, InSeq
    <3>3. posted["lossless"] \in Nat
      BY <1>t, <1>l DEF TypeOK
    <3>4. Split(handled[h] \o q, <<>>, posted["lossless"])
      BY <2>2, <3>1, <3>3, SplitDrain DEF Positions
    <3> QED BY <2>1, <2>2, <3>2, <3>4 DEF Positions
  <2> QED BY <1>t, <2>1, <2>2, <2>3, <2>4 DEF IInv, Bridged
<1>9. CASE AcloseResumes
  BY <1>9 DEF AcloseResumes, IInv
<1>10. CASE AcloseReturns
  BY <1>10, <1>t DEF AcloseReturns, IInv, Positions, Bridged
<1>11. CASE CancelCloser
  BY <1>11, <1>t DEF CancelCloser, IInv, Positions, Bridged
<1>12. CASE UNCHANGED vars
  BY <1>12, <1>t DEF vars, IInv, Positions, Bridged
<1> QED BY <1>1, <1>2, <1>3, <1>4, <1>5, <1>6, <1>7, <1>8, <1>9, <1>10, <1>11, <1>12 DEF Next

\* The inductive invariant implies the two properties of the lossless lane.
LEMMA IInvExactlyOnce == IInv => LosslessExactlyOnce /\ DrainedWhenClosed
<1> SUFFICES ASSUME IInv PROVE LosslessExactlyOnce /\ DrainedWhenClosed
  OBVIOUS
<1>1. queue["lossless"] \in Seq(Nat) /\ posted["lossless"] \in Nat
  BY DEF IInv, TypeOK, Lanes
<1>2. ASSUME NEW h \in Bridges \ Faulty
      PROVE  /\ handled[h] \o queue["lossless"] = Upto(posted["lossless"])
             /\ closer = "done" => \A e \in 1..posted["lossless"] : InSeq(e, handled[h])
  <2>1. handled[h] \in Seq(Nat) /\ Positions(h)
    BY BusAssumption DEF IInv, TypeOK, Handlers
  <2>2. handled[h] \o queue["lossless"] = Upto(posted["lossless"])
    BY <1>1, <2>1, SplitDrain, Zenon DEF Positions
  <2>3. closer = "done" => \A e \in 1..posted["lossless"] : InSeq(e, handled[h])
    <3> SUFFICES ASSUME closer = "done", NEW e \in 1..posted["lossless"]
                 PROVE  InSeq(e, handled[h])
      OBVIOUS
    <3>1. queue["lossless"] = <<>>
      BY DEF IInv
    <3>2. Len(handled[h]) + Len(<<>>) = posted["lossless"]
      BY <2>1, <3>1 DEF Positions, Split
    <3>3. Len(handled[h]) = posted["lossless"]
      BY <2>1, <3>2
    <3> QED BY <2>1, <3>3 DEF Positions, Split, InSeq
  <2> QED BY <2>2, <2>3
<1> QED BY <1>2, Zenon DEF LosslessExactlyOnce, DrainedWhenClosed

\* The bus delivers every lossless event to every healthy bridge exactly once
\* and in order, through the dispatcher and through aclose().
THEOREM ExactlyOnce == ASSUME SyncLossless PROVE Spec => []LosslessExactlyOnce
<1>1. IInv /\ [Next]_vars => IInv'
  BY NextIInv
<1> QED BY InitIInv, <1>1, IInvExactlyOnce, PTL DEF Spec

\* aclose() returns only after every event accepted before it was handled.
THEOREM Drained == ASSUME SyncLossless PROVE Spec => []DrainedWhenClosed
<1>1. IInv /\ [Next]_vars => IInv'
  BY NextIInv
<1> QED BY InitIInv, <1>1, IInvExactlyOnce, PTL DEF Spec

-----------------------------------------------------------------------------
\* The lossy lane holds the newest events.

Window(q, n) == \A i \in 1..Len(q) : q[i] = n - Len(q) + i

\* Posting extends the window of the newest events by the new one.
LEMMA WindowPost ==
  ASSUME NEW q \in Seq(Nat), NEW n \in Nat, Window(q, n)
  PROVE  /\ Window(Append(q, n + 1), n + 1)
         /\ Len(Append(q, n + 1)) = Len(q) + 1
<1>1. Len(q) \in Nat /\ Len(Append(q, n + 1)) = Len(q) + 1
  OBVIOUS
<1>2. ASSUME NEW i \in 1..(Len(q) + 1)
      PROVE  Append(q, n + 1)[i] = (n + 1) - (Len(q) + 1) + i
  <2>1. CASE i = Len(q) + 1
    <3>1. Append(q, n + 1)[i] = n + 1
      BY <2>1
    <3> QED BY <1>1, <2>1, <3>1
  <2>2. CASE i # Len(q) + 1
    <3>1. i \in 1..Len(q)
      BY <1>1, <2>2
    <3>2. Append(q, n + 1)[i] = q[i]
      BY <3>1
    <3>3. q[i] = n - Len(q) + i
      BY <3>1 DEF Window
    <3> QED BY <1>1, <3>2, <3>3
  <2> QED BY <2>1, <2>2
<1> QED BY <1>1, <1>2 DEF Window

\* Dropping or delivering the oldest event leaves a window.
LEMMA WindowTail ==
  ASSUME NEW q \in Seq(Nat), NEW n \in Nat, Window(q, n), q # <<>>
  PROVE  Window(Tail(q), n) /\ Len(Tail(q)) = Len(q) - 1
<1>1. /\ Len(q) \in Nat /\ Len(Tail(q)) = Len(q) - 1
      /\ \A i \in 1..(Len(q) - 1) : Tail(q)[i] = q[i + 1]
  OBVIOUS
<1>2. ASSUME NEW i \in 1..(Len(q) - 1)
      PROVE  Tail(q)[i] = n - (Len(q) - 1) + i
  <2>1. i + 1 \in 1..Len(q)
    BY <1>1
  <2>2. q[i + 1] = n - Len(q) + (i + 1)
    BY <2>1 DEF Window
  <2>3. n - Len(q) + (i + 1) = n - (Len(q) - 1) + i
    BY <1>1
  <2> QED BY <1>1, <2>2, <2>3
<1> QED BY <1>1, <1>2 DEF Window

\* Every step keeps the newest events in the lossy lane.
LEMMA NextLossy == TypeOK /\ LossyKeepsNewest /\ [Next]_vars => LossyKeepsNewest'
<1> SUFFICES ASSUME TypeOK, LossyKeepsNewest, [Next]_vars PROVE LossyKeepsNewest'
  OBVIOUS
<1> USE BusAssumption
<1> DEFINE q == queue["lossy"]
           n == posted["lossy"]
<1>0. q \in Seq(Nat) /\ n \in Nat /\ Len(q) \in Nat
  <2>1. queue \in [Lanes -> Seq(Nat)] /\ posted \in [Lanes -> Nat] /\ "lossy" \in Lanes
    BY DEF TypeOK, Lanes
  <2>2. q \in Seq(Nat) /\ n \in Nat
    BY <2>1
  <2> QED BY <2>2
<1>1. /\ q \in Seq(Nat) /\ n \in Nat /\ Window(q, n) /\ Len(q) <= LossyMax
      /\ Len(q) \in Nat /\ LossyMax \in Nat \ {0}
  BY <1>0 DEF LossyKeepsNewest, Window
<1>k. SUFFICES Window(q', n') /\ Len(q') <= LossyMax
  BY DEF LossyKeepsNewest, Window
<1>2. CASE PostLossy
  <2> DEFINE kept == IF Len(q) = LossyMax THEN Tail(q) ELSE q
  <2>1. q' = Append(kept, n + 1) /\ n' = n + 1
    BY <1>2 DEF PostLossy, TypeOK, Lanes
  <2>2. kept \in Seq(Nat) /\ Window(kept, n) /\ Len(kept) + 1 <= LossyMax
    <3>1. CASE Len(q) = LossyMax
      <4>1. q # <<>>
        BY <1>1, <3>1
      <4>2. Tail(q) \in Seq(Nat) /\ Window(Tail(q), n) /\ Len(Tail(q)) = Len(q) - 1
        BY <1>1, <4>1, WindowTail
      <4> QED BY <1>1, <3>1, <4>2
    <3>2. CASE Len(q) # LossyMax
      BY <1>1, <3>2
    <3> QED BY <3>1, <3>2
  <2> HIDE DEF kept
  <2>3. Window(Append(kept, n + 1), n + 1) /\ Len(Append(kept, n + 1)) = Len(kept) + 1
    BY <1>1, <2>2, WindowPost
  <2> QED BY <2>1, <2>2, <2>3
<1>3. ASSUME NEW l \in Lanes, Dispatch(l)
      PROVE  Window(q', n') /\ Len(q') <= LossyMax
  <2>1. n' = n
    BY <1>3 DEF Dispatch
  <2>2. CASE l = "lossy"
    <3>1. q' = Tail(q) /\ q # <<>>
      BY <1>3, <2>2 DEF Dispatch, TypeOK, Lanes
    <3>2. Window(Tail(q), n) /\ Len(Tail(q)) = Len(q) - 1
      BY <1>1, <3>1, WindowTail
    <3> QED BY <1>1, <2>1, <3>1, <3>2
  <2>3. CASE l = "lossless"
    <3>1. q' = q
      BY <1>3, <2>3 DEF Dispatch, TypeOK, Lanes
    <3> QED BY <1>1, <2>1, <3>1
  <2> QED BY <2>2, <2>3 DEF Lanes
<1>4. ASSUME NEW log, DrainOn(log)
      PROVE  q' = q
  BY <1>4 DEF DrainOn, TypeOK, Lanes
<1>5. CASE PostLossless
  <2>1. q' = q /\ n' = n
    BY <1>5 DEF PostLossless, TypeOK, Lanes
  <2> QED BY <1>1, <2>1
<1>6. CASE Aclose
  <2>1. q' = q /\ n' = n
    BY <1>6, <1>4 DEF Aclose
  <2> QED BY <1>1, <2>1
<1>7. CASE AcloseResumes
  <2>1. q' = q /\ n' = n
    BY <1>7, <1>4 DEF AcloseResumes
  <2> QED BY <1>1, <2>1
<1>8. ASSUME UNCHANGED <<queue, posted>>
      PROVE  Window(q', n') /\ Len(q') <= LossyMax
  BY <1>1, <1>8
<1> QED BY <1>2, <1>3, <1>5, <1>6, <1>7, <1>8, Zenon
        DEF Next, vars, Subscribe, Unsubscribe, Start, HandlerReturns, AcloseReturns,
            CancelCloser

\* A full lossy lane gives up its oldest event, never its newest, and never
\* exceeds its capacity.
THEOREM LossyNewest == Spec => []LossyKeepsNewest
<1>1. Init => LossyKeepsNewest
  BY BusAssumption DEF Init, LossyKeepsNewest, Lanes
<1> QED BY <1>1, NextLossy, TypeCorrect, PTL DEF Spec
-----------------------------------------------------------------------------
\* Async handlers: what a close can lose.

\* The lossless lane's part of the state.
LQ == queue["lossless"]
LN == posted["lossless"]
LS == subs["lossless"]
LT == task["lossless"]
LF == frame["lossless"]
AF == frame["aclose"]

Distinct(s) == \A i, j \in 1..Len(s) : s[i] = s[j] => i = j

\* The lossless events taken off the lane.
Gone == LN - Len(LQ)

\* The event a delivery still has to hand to handler h, or 0.
Owed(e, left, h) == IF InSeq(h, left) THEN e ELSE 0

Pending(f, h) == Owed(f.ev, f.left, h)

\* Of the events 1..k taken off the lane, a handler completed those of c, once
\* each, two tasks still hold a and b for it, and x is lost.
Book(c, k, a, b, x) ==
  /\ Distinct(c) /\ \A i \in 1..Len(c) : c[i] \in 1..k
  /\ a \in 0..k /\ b \in 0..k /\ x \in 0..k
  /\ ~InSeq(a, c) /\ ~InSeq(b, c)
  /\ a = b => a = 0
  /\ \A e \in 1..k : e \in {a, b, x} \/ InSeq(e, c)

\* Nothing is lost before the dispatchers are cancelled or the closer is.
BridgeInv(h) ==
  \E x \in Nat :
    /\ closer \in {"none", "draining"} => x = 0
    /\ Book(handled[h], Gone, Pending(LF, h), Pending(AF, h), x)

\* The queue holds the events not yet taken.
LaneInv == Len(LQ) <= LN /\ Window(LQ, LN)

\* Where the dispatcher and the closer can be.
TaskInv ==
  /\ (LT # "off" \/ closed) => Bridged
  /\ closer # "none" => closed
  /\ LT # "awaiting" => LF = Idle
  /\ closer # "draining" => AF = Idle
  /\ closer \in {"gathering", "done"} => LT \in {"off", "dead"}

\* No handler is subscribed twice, and a suspended delivery has an event.
Delivery(f) == Distinct(f.left) /\ (f.left # <<>> => f.ev # 0)

ListInv == Distinct(LS) /\ Delivery(LF) /\ Delivery(AF)

Account ==
  /\ LaneInv /\ TaskInv /\ ListInv
  /\ \A h \in Bridges \ Faulty : BridgeInv(h)

FInv == TypeOK /\ Account

\* What a concatenation holds, and when it repeats nothing.
LEMMA Concatenated ==
  ASSUME NEW c \in Seq(Nat), NEW q \in Seq(Nat)
  PROVE  /\ c \o q \in Seq(Nat)
         /\ \A e : InSeq(e, c \o q) <=> InSeq(e, c) \/ InSeq(e, q)
         /\ Distinct(c) /\ Distinct(q) /\ (\A e : ~(InSeq(e, c) /\ InSeq(e, q))) =>
              Distinct(c \o q)
<1> DEFINE d == c \o q
           m == Len(c)
<1>1. /\ d \in Seq(Nat) /\ Len(d) = m + Len(q) /\ m \in Nat /\ Len(q) \in Nat
      /\ \A i \in 1..(m + Len(q)) : d[i] = IF i <= m THEN c[i] ELSE q[i - m]
  BY ConcatProperties
<1> HIDE DEF d
<1>2. ASSUME NEW i \in 1..Len(d), i <= m PROVE i \in 1..m /\ d[i] = c[i]
  BY <1>1, <1>2
<1>3. ASSUME NEW i \in 1..Len(d), ~(i <= m)
      PROVE  i - m \in 1..Len(q) /\ d[i] = q[i - m] /\ i = m + (i - m)
  BY <1>1, <1>3
<1>4. ASSUME NEW i \in 1..m PROVE i \in 1..Len(d) /\ d[i] = c[i]
  BY <1>1
<1>5. ASSUME NEW i \in 1..Len(q) PROVE m + i \in 1..Len(d) /\ d[m + i] = q[i]
  <2>1. m + i \in 1..(m + Len(q)) /\ ~(m + i <= m) /\ (m + i) - m = i
    BY <1>1
  <2>2. QED
    BY <1>1, <2>1, Zenon
<1>6. ASSUME NEW e PROVE InSeq(e, d) <=> InSeq(e, c) \/ InSeq(e, q)
  <2>1. InSeq(e, d) => InSeq(e, c) \/ InSeq(e, q)
    BY <1>2, <1>3, Zenon DEF InSeq, m
  <2>2. InSeq(e, c) \/ InSeq(e, q) => InSeq(e, d)
    BY <1>4, <1>5, Zenon DEF InSeq, m
  <2>3. QED
    BY <2>1, <2>2, Zenon
<1>7. ASSUME Distinct(c), Distinct(q), \A e : ~(InSeq(e, c) /\ InSeq(e, q))
      PROVE  Distinct(d)
  <2>1. ASSUME NEW i \in 1..Len(d), NEW j \in 1..Len(d), d[i] = d[j] PROVE i = j
    <3>1. CASE i <= m /\ j <= m
      BY <1>2, <1>7, <2>1, <3>1, Zenon DEF Distinct, m
    <3>2. CASE ~(i <= m) /\ ~(j <= m)
      <4>1. /\ i - m \in 1..Len(q) /\ d[i] = q[i - m]
            /\ j - m \in 1..Len(q) /\ d[j] = q[j - m]
        BY <1>3, <3>2, Zenon
      <4>2. i - m = j - m
        BY <1>7, <2>1, <4>1, Zenon DEF Distinct
      <4>3. i = m + (i - m) /\ j = m + (j - m)
        BY <1>3, <3>2, Zenon
      <4>4. QED
        BY <4>2, <4>3, Zenon
    <3>3. CASE i <= m /\ ~(j <= m)
      <4>1. InSeq(d[i], c)
        BY <1>2, <3>3, Zenon DEF InSeq, m
      <4>2. InSeq(d[j], q)
        BY <1>3, <3>3, Zenon DEF InSeq
      <4>3. QED
        BY <1>7, <2>1, <4>1, <4>2, Zenon
    <3>4. CASE ~(i <= m) /\ j <= m
      <4>1. InSeq(d[j], c)
        BY <1>2, <3>4, Zenon DEF InSeq, m
      <4>2. InSeq(d[i], q)
        BY <1>3, <3>4, Zenon DEF InSeq
      <4>3. QED
        BY <1>7, <2>1, <4>1, <4>2, Zenon
    <3>5. QED
      BY <3>1, <3>2, <3>3, <3>4, Zenon
  <2>2. QED
    BY <2>1, Zenon DEF Distinct
<1>8. QED
  BY <1>1, <1>6, <1>7, Zenon DEF d

\* The two tasks are alike.
LEMMA BookSwap ==
  ASSUME NEW c, NEW k, NEW a, NEW b, NEW x, Book(c, k, a, b, x)
  PROVE  Book(c, k, b, a, x)
BY Zenon DEF Book

\* A handler completes the next events of the lane.
LEMMA BookTakes ==
  ASSUME NEW c \in Seq(Nat), NEW k \in Nat, NEW a, NEW b, NEW x, Book(c, k, a, b, x),
         NEW q \in Seq(Nat), \A i \in 1..Len(q) : q[i] = k + i
  PROVE  Book(c \o q, k + Len(q), a, b, x)
<1> DEFINE n == k + Len(q)
           d == c \o q
<1>1. Len(q) \in Nat /\ n \in Nat /\ k <= n
  OBVIOUS
<1>2. \A e : InSeq(e, q) <=> e \in (k + 1)..n
  <2>1. ASSUME NEW e, InSeq(e, q) PROVE e \in (k + 1)..n
    <3>1. PICK i \in 1..Len(q) : q[i] = e
      BY <2>1, Zenon DEF InSeq
    <3>2. e = k + i
      BY <3>1, Zenon
    <3>3. QED
      BY <1>1, <3>2
  <2>2. ASSUME NEW e \in (k + 1)..n PROVE InSeq(e, q)
    <3>1. e - k \in 1..Len(q) /\ k + (e - k) = e
      BY <1>1
    <3>2. q[e - k] = e
      BY <3>1, Zenon
    <3>3. QED
      BY <3>1, <3>2, Zenon DEF InSeq
  <2>3. QED
    BY <2>1, <2>2, Zenon
<1>3. Distinct(q)
  <2>1. ASSUME NEW i \in 1..Len(q), NEW j \in 1..Len(q), q[i] = q[j] PROVE i = j
    <3>1. k + i = k + j
      BY <2>1, Zenon
    <3>2. i \in Nat /\ j \in Nat
      OBVIOUS
    <3>3. QED
      BY <3>1, <3>2
  <2>2. QED
    BY <2>1, Zenon DEF Distinct
<1>4. \A e : InSeq(e, c) => e \in 1..k
  BY Zenon DEF Book, InSeq
<1>5. \A e : e \in 1..k => ~(e \in (k + 1)..n)
  OBVIOUS
<1>6. /\ d \in Seq(Nat) /\ Distinct(d)
      /\ \A e : InSeq(e, d) <=> InSeq(e, c) \/ InSeq(e, q)
  <2>1. Distinct(c)
    BY Zenon DEF Book
  <2>2. \A e : ~(InSeq(e, c) /\ InSeq(e, q))
    BY <1>2, <1>4, <1>5, Zenon
  <2>3. QED
    BY <1>3, <2>1, <2>2, Concatenated, Zenon
<1> HIDE DEF d, n
<1>7. /\ \A e : e \in 1..n <=> e \in 1..k \/ e \in (k + 1)..n
      /\ \A e : e \in 0..k => e \in 0..n /\ ~(e \in (k + 1)..n)
  BY <1>1 DEF n
<1>8. \A i \in 1..Len(d) : d[i] \in 1..n
  <2>1. ASSUME NEW i \in 1..Len(d) PROVE d[i] \in 1..n
    <3>1. InSeq(d[i], d)
      BY Zenon DEF InSeq
    <3>2. QED
      BY <1>2, <1>4, <1>6, <1>7, <3>1, Zenon
  <2>2. QED
    BY <2>1, Zenon
<1>9. /\ a \in 0..n /\ b \in 0..n /\ x \in 0..n /\ ~InSeq(a, d) /\ ~InSeq(b, d)
      /\ a = b => a = 0
  BY <1>2, <1>6, <1>7, Zenon DEF Book
<1>10. \A e \in 1..n : e \in {a, b, x} \/ InSeq(e, d)
  BY <1>2, <1>6, <1>7, Zenon DEF Book
<1>11. Book(d, n, a, b, x)
  BY <1>6, <1>8, <1>9, <1>10, Zenon DEF Book
<1>12. QED
  BY <1>11 DEF d, n

\* A task takes the next event, and holds it for the handler.
LEMMA BookHolds ==
  ASSUME NEW c \in Seq(Nat), NEW k \in Nat, NEW b, NEW x, Book(c, k, 0, b, x)
  PROVE  Book(c, k + 1, k + 1, b, x)
<1>1. /\ \A e : e \in 1..(k + 1) <=> e \in 1..k \/ e = k + 1
      /\ \A e : e \in 0..k => e \in 0..(k + 1) /\ e # k + 1
      /\ \A e : e \in 1..k => e # k + 1 /\ e # 0
      /\ k + 1 \in 0..(k + 1)
  OBVIOUS
<1>2. \A e : InSeq(e, c) => e \in 1..k
  BY Zenon DEF Book, InSeq
<1>3. ~InSeq(k + 1, c)
  BY <1>1, <1>2, Zenon
<1>4. \A e \in 1..(k + 1) : e \in {k + 1, b, x} \/ InSeq(e, c)
  BY <1>1, Zenon DEF Book
<1>5. QED
  BY <1>1, <1>3, <1>4, Zenon DEF Book

\* The handler completes the event a task held for it.
LEMMA BookDone ==
  ASSUME NEW c \in Seq(Nat), NEW k \in Nat, NEW a, NEW b, NEW x, Book(c, k, a, b, x), a # 0
  PROVE  Book(c \o <<a>>, k, 0, b, x)
<1> DEFINE q == <<a>>
           d == c \o q
<1>1. a \in 1..k
  <2>1. a \in 0..k
    BY Zenon DEF Book
  <2>2. QED
    BY <2>1
<1>2. q \in Seq(Nat) /\ Len(q) = 1 /\ q[1] = a
  BY <1>1
<1> HIDE DEF q
<1>3. Distinct(q) /\ \A e : InSeq(e, q) <=> e = a
  BY <1>2 DEF Distinct, InSeq
<1>4. /\ d \in Seq(Nat) /\ Distinct(d)
      /\ \A e : InSeq(e, d) <=> InSeq(e, c) \/ e = a
  <2>1. Distinct(c) /\ ~InSeq(a, c)
    BY Zenon DEF Book
  <2>2. \A e : ~(InSeq(e, c) /\ InSeq(e, q))
    <3>1. ASSUME NEW e, InSeq(e, c), InSeq(e, q) PROVE FALSE
      <4>1. e = a
        BY <1>3, <3>1, Zenon
      <4>2. QED
        BY <2>1, <3>1, <4>1
    <3>2. QED
      BY <3>1, Zenon
  <2>3. QED
    BY <1>2, <1>3, <2>1, <2>2, Concatenated, Zenon
<1> HIDE DEF d
<1>5. \A e : InSeq(e, c) => e \in 1..k
  BY Zenon DEF Book, InSeq
<1>6. \A i \in 1..Len(d) : d[i] \in 1..k
  <2>1. ASSUME NEW i \in 1..Len(d) PROVE d[i] \in 1..k
    <3>1. InSeq(d[i], d)
      BY Zenon DEF InSeq
    <3>2. QED
      BY <1>1, <1>4, <1>5, <3>1, Zenon
  <2>2. QED
    BY <2>1, Zenon
<1>7. 0 \in 0..k /\ 0 \notin 1..k
  OBVIOUS
<1>8. ~InSeq(0, d) /\ ~InSeq(b, d)
  BY <1>1, <1>4, <1>5, <1>7, Zenon DEF Book
<1>9. \A e \in 1..k : e \in {0, b, x} \/ InSeq(e, d)
  BY <1>4, Zenon DEF Book
<1>10. Book(d, k, 0, b, x)
  BY <1>4, <1>6, <1>7, <1>8, <1>9, Zenon DEF Book
<1>11. QED
  BY <1>10 DEF d, q

\* A task is cancelled: what it held is lost.
LEMMA BookLoses ==
  ASSUME NEW c \in Seq(Nat), NEW k \in Nat, NEW a, NEW b, Book(c, k, a, b, 0)
  PROVE  Book(c, k, 0, b, a)
<1>1. 0 \in 0..k /\ 0 \notin 1..k
  OBVIOUS
<1>2. ~InSeq(0, c)
  BY <1>1, Zenon DEF Book, InSeq
<1>3. \A e \in 1..k : e \in {0, b, a} \/ InSeq(e, c)
  BY Zenon DEF Book
<1>4. QED
  BY <1>1, <1>2, <1>3, Zenon DEF Book

\* Handler h is among the first m of a snapshot.
Ran(left, m, h) == \E i \in 1..m : left[i] = h

\* Its log c once the first m of the snapshot completed evs.
Got(c, left, m, h, evs) == IF Ran(left, m, h) THEN c \o evs ELSE c

\* The first m handlers of a snapshot have run, once each, and rest have not.
Parts(left, m, rest) ==
  /\ Distinct(rest)
  /\ \A h : /\ InSeq(h, left) <=> Ran(left, m, h) \/ InSeq(h, rest)
            /\ ~(Ran(left, m, h) /\ InSeq(h, rest))

\* Cutting a snapshot in two.
LEMMA Cut ==
  ASSUME NEW S, NEW left \in Seq(S), Distinct(left), NEW m \in 0..Len(left),
         NEW rest \in Seq(S), Len(rest) = Len(left) - m,
         \A i \in 1..Len(rest) : rest[i] = left[m + i]
  PROVE  Parts(left, m, rest)
<1>1. Len(left) \in Nat /\ Len(rest) \in Nat /\ m \in Nat /\ Len(left) = m + Len(rest)
  OBVIOUS
<1>2. ASSUME NEW i \in 1..Len(rest)
      PROVE  i \in Nat /\ m + i \in 1..Len(left) /\ ~(m + i \in 1..m)
  BY <1>1
<1>3. \A i \in 1..m : i \in 1..Len(left)
  BY <1>1
<1>4. ASSUME NEW i \in 1..Len(left), ~(i \in 1..m)
      PROVE  i - m \in 1..Len(rest) /\ m + (i - m) = i
  BY <1>1, <1>4
<1>5. ASSUME NEW i \in 1..Len(rest), NEW j \in 1..Len(rest), rest[i] = rest[j]
      PROVE  i = j
  <2>1. m + i = m + j
    BY <1>2, <1>5, Zenon DEF Distinct
  <2>2. i \in Nat /\ j \in Nat
    BY <1>2
  <2>3. QED
    BY <1>1, <2>1, <2>2
<1>6. ASSUME NEW h
      PROVE  /\ InSeq(h, left) <=> Ran(left, m, h) \/ InSeq(h, rest)
             /\ ~(Ran(left, m, h) /\ InSeq(h, rest))
  <2>1. InSeq(h, left) => Ran(left, m, h) \/ InSeq(h, rest)
    <3>1. ASSUME NEW i \in 1..Len(left), left[i] = h, ~(i \in 1..m)
          PROVE  InSeq(h, rest)
      <4>1. i - m \in 1..Len(rest) /\ m + (i - m) = i
        BY <1>4, <3>1, Zenon
      <4>2. rest[i - m] = h
        BY <3>1, <4>1, Zenon
      <4>3. QED
        BY <4>1, <4>2, Zenon DEF InSeq
    <3>2. QED
      BY <3>1, Zenon DEF InSeq, Ran
  <2>2. InSeq(h, rest) => InSeq(h, left)
    BY <1>2, Zenon DEF InSeq
  <2>3. Ran(left, m, h) => InSeq(h, left)
    BY <1>3, Zenon DEF InSeq, Ran
  <2>4. ASSUME Ran(left, m, h), InSeq(h, rest) PROVE FALSE
    <3>1. PICK i \in 1..m : left[i] = h
      BY <2>4, Zenon DEF Ran
    <3>2. PICK j \in 1..Len(rest) : rest[j] = h
      BY <2>4, Zenon DEF InSeq
    <3>3. /\ i \in 1..Len(left) /\ m + j \in 1..Len(left) /\ ~(m + j \in 1..m)
          /\ left[m + j] = h
      BY <1>2, <1>3, <3>2, Zenon
    <3>4. i = m + j
      BY <3>1, <3>3, Zenon DEF Distinct
    <3>5. QED
      BY <3>1, <3>3, <3>4, Zenon
  <2>5. QED
    BY <2>1, <2>2, <2>3, <2>4, Zenon
<1>7. Distinct(rest)
  BY <1>5, Zenon DEF Distinct
<1>8. QED
  BY <1>6, <1>7, Zenon DEF Parts

\* A delivery that starts runs the handlers before the first async one.
LEMMA StartParts ==
  ASSUME NEW S, NEW hs \in Seq(S), Distinct(hs)
  PROVE  Parts(hs, SyncPrefix(hs), AfterPrefix(hs))
<1> DEFINE m == SyncPrefix(hs)
           rest == AfterPrefix(hs)
<1>1. m \in 0..Len(hs) /\ rest \in Seq(S)
  BY PrefixBound, Zenon
<1>2. rest = SubSeq(hs, m + 1, Len(hs))
  BY DEF AfterPrefix
<1> HIDE DEF m, rest
<1>3. Len(rest) = Len(hs) - m /\ \A i \in 1..Len(rest) : rest[i] = hs[m + i]
  <2>1. Len(hs) \in Nat /\ m \in Nat /\ m <= Len(hs)
    BY <1>1
  <2>2. Len(rest) = Len(hs) - m
    BY <1>2, <2>1
  <2>3. ASSUME NEW i \in 1..Len(rest) PROVE rest[i] = hs[m + i]
    BY <1>2, <2>1, <2>2
  <2>4. QED
    BY <2>2, <2>3, Zenon
<1>4. Parts(hs, m, rest)
  BY <1>1, <1>3, Cut, Zenon
<1>5. QED
  BY <1>4 DEF m, rest

\* A delivery that resumes has run its async handler and goes on to the next.
LEMMA ResumeParts ==
  ASSUME NEW S, NEW left \in Seq(S), Distinct(left), left # <<>>
  PROVE  Parts(left, 1 + SyncPrefix(Tail(left)), AfterPrefix(Tail(left)))
<1> DEFINE t == Tail(left)
           m == SyncPrefix(t)
           n == 1 + m
           rest == AfterPrefix(t)
<1>1. /\ t \in Seq(S) /\ Len(left) \in Nat /\ Len(t) = Len(left) - 1
      /\ \A i \in 1..Len(t) : t[i] = left[i + 1]
  OBVIOUS
<1> HIDE DEF t
<1>2. m \in 0..Len(t) /\ rest \in Seq(S)
  BY <1>1, PrefixBound, Zenon
<1>3. rest = SubSeq(t, m + 1, Len(t))
  BY DEF AfterPrefix
<1> HIDE DEF m, rest
<1>4. Len(t) \in Nat /\ m \in Nat /\ m <= Len(t) /\ n \in 0..Len(left)
  BY <1>1, <1>2
<1>5. Len(rest) = Len(left) - n
  BY <1>1, <1>3, <1>4
<1>6. ASSUME NEW i \in 1..Len(rest) PROVE rest[i] = left[n + i]
  <2>1. rest[i] = t[m + i] /\ m + i \in 1..Len(t) /\ (m + i) + 1 = n + i
    BY <1>1, <1>3, <1>4, <1>5
  <2>2. QED
    BY <1>1, <2>1, Zenon
<1> HIDE DEF n
<1>7. Parts(left, n, rest)
  BY <1>2, <1>4, <1>5, <1>6, Cut, Zenon
<1>8. QED
  BY <1>7 DEF n, m, rest, t

\* A whole snapshot runs.
LEMMA AllRan ==
  ASSUME NEW hs, NEW h, InSeq(h, hs)
  PROVE  Ran(hs, Len(hs), h)
  BY Zenon DEF InSeq, Ran

\* Where a delivery stands: finished, or suspended with rest still to run.
Held(e, rest) == IF rest = <<>> THEN Idle ELSE [ev |-> e, left |-> rest]

\* What such a delivery still owes a handler.
LEMMA HeldOwes ==
  ASSUME NEW S, NEW rest \in Seq(S), NEW e \in Nat
  PROVE  /\ \A h : Pending(Held(e, rest), h) = Owed(e, rest, h)
         /\ Distinct(rest) /\ e # 0 => Delivery(Held(e, rest))
         /\ Delivery(Idle) /\ \A h : Pending(Idle, h) = 0
<1>1. Len(<<>>) = 0 /\ 1..0 = {}
  OBVIOUS
<1>2. \A h : ~InSeq(h, <<>>)
  BY <1>1, Zenon DEF InSeq
<1>3. Distinct(<<>>)
  BY <1>1, Zenon DEF Distinct
<1>4. Idle.left = <<>>
  BY DEF Idle
<1>5. Delivery(Idle) /\ \A h : Pending(Idle, h) = 0
  BY <1>2, <1>3, <1>4, Zenon DEF Delivery, Pending, Owed
<1>6. CASE rest = <<>>
  <2>1. Held(e, rest) = Idle
    BY <1>6, Zenon DEF Held
  <2>2. QED
    BY <1>2, <1>5, <1>6, <2>1, Zenon DEF Owed
<1>7. CASE rest # <<>>
  <2>1. Held(e, rest).ev = e /\ Held(e, rest).left = rest
    BY <1>7 DEF Held
  <2>2. QED
    BY <1>5, <2>1, Zenon DEF Pending, Delivery
<1>8. QED
  BY <1>6, <1>7, Zenon

\* A bridge is a handler.
LEMMA HealthyBridge ==
  ASSUME NEW h \in Bridges \ Faulty
  PROVE  h \in Handlers /\ h \notin Faulty
  BY BusAssumption DEF Handlers

\* A task takes the next event of the lane: each handler of the snapshot has
\* completed it or is still owed it.
LEMMA TakenBook ==
  ASSUME NEW c \in Seq(Nat), NEW k \in Nat, NEW b, NEW x, Book(c, k, 0, b, x),
         NEW hs, NEW m, NEW rest, Parts(hs, m, rest), NEW h, InSeq(h, hs)
  PROVE  Book(Got(c, hs, m, h, <<k + 1>>), k + 1, Owed(k + 1, rest, h), b, x)
<1>1. CASE Ran(hs, m, h)
  <2>1. ~InSeq(h, rest)
    BY <1>1, Zenon DEF Parts
  <2> DEFINE q == <<k + 1>>
  <2>2. q \in Seq(Nat) /\ Len(q) = 1 /\ \A i \in 1..Len(q) : q[i] = k + i
    OBVIOUS
  <2> HIDE DEF q
  <2>3. Book(c \o q, k + Len(q), 0, b, x)
    BY <2>2, BookTakes, Zenon
  <2>4. Book(c \o <<k + 1>>, k + 1, 0, b, x)
    BY <2>2, <2>3, Zenon DEF q
  <2>5. QED
    BY <1>1, <2>1, <2>4, Zenon DEF Got, Owed
<1>2. CASE ~Ran(hs, m, h)
  <2>1. InSeq(h, rest)
    BY <1>2, Zenon DEF Parts
  <2>2. Book(c, k + 1, k + 1, b, x)
    BY BookHolds, Zenon
  <2>3. QED
    BY <1>2, <2>1, <2>2, Zenon DEF Got, Owed
<1>3. QED
  BY <1>1, <1>2, Zenon

\* A suspended delivery goes on.
LEMMA GoesOnBook ==
  ASSUME NEW c \in Seq(Nat), NEW k \in Nat, NEW b, NEW x, NEW e, NEW left, NEW h,
         Book(c, k, Owed(e, left, h), b, x), e # 0,
         NEW m, NEW rest, Parts(left, m, rest)
  PROVE  Book(Got(c, left, m, h, <<e>>), k, Owed(e, rest, h), b, x)
<1>1. CASE Ran(left, m, h)
  <2>1. ~InSeq(h, rest) /\ InSeq(h, left)
    BY <1>1, Zenon DEF Parts
  <2>2. Book(c, k, e, b, x)
    BY <2>1, Zenon DEF Owed
  <2>3. Book(c \o <<e>>, k, 0, b, x)
    BY <2>2, BookDone, Zenon
  <2>4. QED
    BY <1>1, <2>1, <2>3, Zenon DEF Got, Owed
<1>2. CASE ~Ran(left, m, h)
  <2>1. InSeq(h, rest) <=> InSeq(h, left)
    BY <1>2, Zenon DEF Parts
  <2>2. QED
    BY <1>2, <2>1, Zenon DEF Got, Owed
<1>3. QED
  BY <1>1, <1>2, Zenon

\* The types of the lossless part.
LEMMA LaneTypes ==
  ASSUME TypeOK
  PROVE  /\ LQ \in Seq(Nat) /\ LN \in Nat /\ LS \in Seq(Handlers)
         /\ LT \in {"off", "idle", "awaiting", "dead"}
         /\ LF \in [ev : Nat, left : Seq(Handlers)]
         /\ AF \in [ev : Nat, left : Seq(Handlers)]
         /\ handled \in [Handlers -> Seq(Nat)]
         /\ LT = "awaiting" => LF.left # <<>>
         /\ closer = "draining" => AF.left # <<>>
  BY DEF TypeOK, LQ, LN, LS, LT, LF, AF, Lanes, Deliverers

\* What each action does to the lossless part: the lossy lane leaves it alone.
LEMMA LossyView ==
  ASSUME TypeOK,
         \/ PostLossy \/ Dispatch("lossy") \/ HandlerReturns("lossy")
         \/ UNCHANGED vars
  PROVE  UNCHANGED <<LQ, LN, LS, LT, LF, AF, handled, closed, closer, subs>>
<1> USE DEF LQ, LN, LS, LT, LF, AF, TypeOK, Lanes, Deliverers
<1>1. CASE PostLossy
  BY <1>1 DEF PostLossy
<1>2. CASE Dispatch("lossy")
  BY <1>2, Zenon DEF Dispatch, Log
<1>3. CASE HandlerReturns("lossy")
  BY <1>3 DEF HandlerReturns, Log
<1>4. CASE UNCHANGED vars
  BY <1>4 DEF vars
<1>5. QED
  BY <1>1, <1>2, <1>3, <1>4, Zenon

\* Subscribing appends a handler that is not there, unsubscribing removes one.
LEMMA SubsView ==
  ASSUME TypeOK, NEW l \in Lanes, NEW h \in HandlersOf[l],
         Subscribe(l, h) \/ Unsubscribe(l, h)
  PROVE  /\ UNCHANGED <<LQ, LN, LT, LF, AF, handled, closed, closer>>
         /\ \/ LS' = LS
            \/ h \in Handlers /\ ~InSeq(h, LS) /\ LS' = Append(LS, h)
            \/ \E i \in 1..Len(LS) : LS' = Without(LS, i)
<1>0. l = "lossless" \/ l = "lossy"
  BY DEF Lanes
<1>1. UNCHANGED <<LQ, LN, LT, LF, AF, handled, closed, closer>>
  BY Zenon DEF LQ, LN, LT, LF, AF, Subscribe, Unsubscribe
<1>2. CASE Subscribe(l, h)
  <2>1. h \in Handlers
    BY <1>0 DEF Handlers
  <2>2. ~InSeq(h, subs[l]) /\ subs' = [subs EXCEPT ![l] = Append(@, h)]
    BY <1>2, Zenon DEF Subscribe
  <2>3. LS' = LS \/ (~InSeq(h, LS) /\ LS' = Append(LS, h))
    BY <1>0, <2>2 DEF LS, TypeOK, Lanes
  <2>4. QED
    BY <1>1, <2>1, <2>3, Zenon
<1>3. CASE Unsubscribe(l, h)
  <2>1. PICK i \in 1..Len(subs[l]) : subs' = [subs EXCEPT ![l] = Without(@, i)]
    BY <1>3, Zenon DEF Unsubscribe
  <2>2. l = "lossless" => LS' = Without(LS, i) /\ i \in 1..Len(LS)
    BY <2>1 DEF LS, TypeOK, Lanes
  <2>3. l = "lossy" => LS' = LS
    BY <2>1 DEF LS, TypeOK, Lanes
  <2>4. QED
    BY <1>0, <1>1, <2>2, <2>3, Zenon
<1>4. QED
  BY <1>2, <1>3, Zenon

\* A post appends the next number.
LEMMA PostView ==
  ASSUME TypeOK, PostLossless
  PROVE  /\ LQ' = Append(LQ, LN + 1) /\ LN' = LN + 1
         /\ UNCHANGED <<LS, LT, LF, AF, handled, closed, closer, subs>>
  BY DEF PostLossless, TypeOK, Lanes, LQ, LN, LS, LT, LF, AF

\* The dispatcher starts idle.
LEMMA StartView ==
  ASSUME TypeOK, Start
  PROVE  /\ LT = "off" /\ LT' = "idle" /\ Bridged
         /\ UNCHANGED <<LQ, LN, LS, LF, AF, handled, closed, closer, subs>>
  BY DEF Start, TypeOK, Lanes, LQ, LN, LS, LT, LF, AF

\* The dispatcher takes the oldest event.
LEMMA DispatchView ==
  ASSUME TypeOK, Dispatch("lossless")
  PROVE  /\ LT = "idle" /\ LQ # <<>> /\ LQ' = Tail(LQ)
         /\ handled' = Completed(handled, LS, SyncPrefix(LS), <<Head(LQ)>>)
         /\ LT' = IF AfterPrefix(LS) = <<>> THEN "idle" ELSE "awaiting"
         /\ LF' = Held(Head(LQ), AfterPrefix(LS))
         /\ UNCHANGED <<LN, LS, AF, closed, closer, subs>>
<1> USE DEF LQ, LN, LS, LT, LF, AF
<1>1. /\ "lossless" \in DOMAIN queue /\ "lossless" \in DOMAIN task
      /\ "lossless" \in DOMAIN frame /\ "aclose" \in DOMAIN frame
  BY DEF TypeOK, Lanes, Deliverers
<1>2. /\ LT = "idle" /\ LQ # <<>> /\ UNCHANGED <<LN, LS, closed, closer, subs>>
      /\ handled' = Completed(handled, LS, SyncPrefix(LS), <<Head(LQ)>>)
  BY Zenon DEF Dispatch, Log
<1>3. queue' = [queue EXCEPT !["lossless"] = Tail(LQ)]
  BY Zenon DEF Dispatch
<1>4. task' = [task EXCEPT !["lossless"] =
                 IF AfterPrefix(LS) = <<>> THEN "idle" ELSE "awaiting"]
  BY Zenon DEF Dispatch
<1>5. frame' = [frame EXCEPT !["lossless"] = Held(Head(LQ), AfterPrefix(LS))]
  BY Zenon DEF Dispatch, Held
<1>6. LQ' = Tail(LQ)
  BY <1>1, <1>3
<1>7. LT' = IF AfterPrefix(LS) = <<>> THEN "idle" ELSE "awaiting"
  BY <1>1, <1>4
<1>8. LF' = Held(Head(LQ), AfterPrefix(LS)) /\ AF' = AF
  BY <1>1, <1>5
<1>9. QED
  BY <1>2, <1>6, <1>7, <1>8, Zenon

\* Its suspended delivery goes on.
LEMMA ReturnView ==
  ASSUME TypeOK, HandlerReturns("lossless")
  PROVE  LET rest == AfterPrefix(Tail(LF.left))
         IN  /\ LT = "awaiting"
             /\ handled' = Completed(handled, LF.left, 1 + SyncPrefix(Tail(LF.left)),
                                     <<LF.ev>>)
             /\ LT' = IF rest = <<>> THEN "idle" ELSE "awaiting"
             /\ LF' = Held(LF.ev, rest)
             /\ UNCHANGED <<LQ, LN, LS, AF, closed, closer, subs>>
<1> USE DEF LQ, LN, LS, LT, LF, AF
<1> DEFINE rest == AfterPrefix(Tail(LF.left))
<1>1. /\ "lossless" \in DOMAIN task
      /\ "lossless" \in DOMAIN frame /\ "aclose" \in DOMAIN frame
  BY DEF TypeOK, Lanes, Deliverers
<1>2. /\ LT = "awaiting" /\ UNCHANGED <<LQ, LN, LS, closed, closer, subs>>
      /\ handled' = Completed(handled, LF.left, 1 + SyncPrefix(Tail(LF.left)), <<LF.ev>>)
  BY Zenon DEF HandlerReturns, Log
<1>3. task' = [task EXCEPT !["lossless"] = IF rest = <<>> THEN "idle" ELSE "awaiting"]
  BY Zenon DEF HandlerReturns
<1>4. frame' = [frame EXCEPT !["lossless"] = Held(LF.ev, rest)]
  BY Zenon DEF HandlerReturns, Held
<1>5. LT' = IF rest = <<>> THEN "idle" ELSE "awaiting"
  BY <1>1, <1>3
<1>6. LF' = Held(LF.ev, rest) /\ AF' = AF
  BY <1>1, <1>4
<1>7. QED
  BY <1>2, <1>5, <1>6, Zenon

\* The drain empties the lane and cancels the dispatchers, or takes one event
\* and suspends in its delivery.
LEMMA DrainView ==
  ASSUME TypeOK, NEW log, DrainOn(log)
  PROVE  \/ /\ handled' = Completed(log, LS, Len(LS), LQ)
            /\ LQ' = <<>> /\ LF' = Idle /\ AF' = Idle
            /\ LT' \in {"off", "dead"} /\ (LT = "off" => LT' = "off")
            /\ closer' = "gathering"
         \/ /\ LQ # <<>> /\ LQ' = Tail(LQ)
            /\ handled' = Completed(log, LS, SyncPrefix(LS), <<Head(LQ)>>)
            /\ AF' = Held(Head(LQ), AfterPrefix(LS))
            /\ closer' = "draining" /\ UNCHANGED <<LT, LF>>
<1> USE DEF LQ, LN, LS, LT, LF, AF
<1>1. /\ "lossless" \in DOMAIN queue /\ "lossless" \in Lanes
      /\ "lossless" \in Deliverers /\ "aclose" \in Deliverers
      /\ "lossless" \in DOMAIN frame /\ "aclose" \in DOMAIN frame
  BY DEF TypeOK, Lanes, Deliverers
<1>2. CASE LQ = <<>> \/ AfterPrefix(LS) = <<>>
  <2>1. /\ handled' = Completed(log, LS, Len(LS), LQ)
        /\ queue' = [queue EXCEPT !["lossless"] = <<>>]
        /\ StopDispatchers
    BY <1>2, Zenon DEF DrainOn
  <2>2. LQ' = <<>>
    BY <1>1, <2>1
  <2>3. /\ LF' = Idle /\ AF' = Idle /\ closer' = "gathering"
        /\ LT' \in {"off", "dead"} /\ (LT = "off" => LT' = "off")
    BY <1>1, <2>1 DEF StopDispatchers
  <2>4. QED
    BY <2>1, <2>2, <2>3, Zenon
<1>3. CASE ~(LQ = <<>> \/ AfterPrefix(LS) = <<>>)
  <2>1. /\ handled' = Completed(log, LS, SyncPrefix(LS), <<Head(LQ)>>)
        /\ queue' = [queue EXCEPT !["lossless"] = Tail(LQ)]
        /\ frame' = [frame EXCEPT !["aclose"] =
                       [ev |-> Head(LQ), left |-> AfterPrefix(LS)]]
        /\ closer' = "draining" /\ LT' = LT
    BY <1>3, Zenon DEF DrainOn
  <2>2. LQ' = Tail(LQ)
    BY <1>1, <2>1
  <2>3. Held(Head(LQ), AfterPrefix(LS)) = [ev |-> Head(LQ), left |-> AfterPrefix(LS)]
    BY <1>3, Zenon DEF Held
  <2>4. AF' = Held(Head(LQ), AfterPrefix(LS)) /\ LF' = LF
    BY <1>1, <2>1, <2>3, Zenon
  <2>5. QED
    BY <1>3, <2>1, <2>2, <2>4, Zenon
<1>4. QED
  BY <1>2, <1>3, Zenon

\* The queue holds the events after those taken.
LEMMA LaneCounts ==
  ASSUME TypeOK, LaneInv
  PROVE  /\ Gone \in Nat /\ \A i \in 1..Len(LQ) : LQ[i] = Gone + i
         /\ Gone + Len(LQ) = LN
<1>1. LQ \in Seq(Nat) /\ LN \in Nat
  BY LaneTypes, Zenon
<1>2. Len(LQ) \in Nat /\ Len(LQ) <= LN
  BY <1>1 DEF LaneInv
<1>3. Gone \in Nat /\ Gone + Len(LQ) = LN
  BY <1>1, <1>2 DEF Gone
<1>4. QED
  BY <1>3, Zenon DEF LaneInv, Window, Gone

\* The count of the events taken goes up as the lane loses its oldest.
LEMMA LaneTakes ==
  ASSUME TypeOK, LaneInv, LQ # <<>>, LQ' = Tail(LQ), LN' = LN
  PROVE  Head(LQ) = Gone + 1 /\ Gone' = Gone + 1 /\ LaneInv'
<1>1. LQ \in Seq(Nat) /\ LN \in Nat
  BY LaneTypes, Zenon
<1>2. Window(Tail(LQ), LN) /\ Len(Tail(LQ)) = Len(LQ) - 1
  BY <1>1, WindowTail, Zenon DEF LaneInv
<1>3. /\ Len(LQ) \in Nat /\ 1 \in 1..Len(LQ) /\ Head(LQ) = LQ[1]
      /\ Len(LQ) <= LN
  BY <1>1 DEF LaneInv
<1>4. Head(LQ) = Gone + 1
  BY <1>3, LaneCounts, Zenon
<1>5. Gone' = LN - (Len(LQ) - 1)
  BY <1>2, Zenon DEF Gone
<1>6. Gone' = Gone + 1 /\ Len(LQ) - 1 <= LN
  BY <1>1, <1>3, <1>5 DEF Gone
<1>7. LaneInv'
  BY <1>2, <1>6, Zenon DEF LaneInv
<1>8. QED
  BY <1>4, <1>6, <1>7, Zenon

\* It is the number posted once the lane is empty.
LEMMA LaneEmpties ==
  ASSUME TypeOK, LaneInv, LQ' = <<>>, LN' = LN
  PROVE  Gone' = Gone + Len(LQ) /\ LaneInv'
<1>1. LN \in Nat
  BY LaneTypes, Zenon
<1>2. Len(<<>>) = 0 /\ 1..0 = {} /\ 0 <= LN /\ LN - 0 = LN
  BY <1>1
<1>3. Gone' = LN - 0
  BY <1>2, Zenon DEF Gone
<1>4. LaneInv'
  BY <1>2, Zenon DEF LaneInv, Window
<1>5. QED
  BY <1>2, <1>3, <1>4, LaneCounts, Zenon

\* A post does not change it.
LEMMA LanePosts ==
  ASSUME TypeOK, LaneInv, LQ' = Append(LQ, LN + 1), LN' = LN + 1
  PROVE  Gone' = Gone /\ LaneInv'
<1>1. LQ \in Seq(Nat) /\ LN \in Nat
  BY LaneTypes, Zenon
<1>2. /\ Window(Append(LQ, LN + 1), LN + 1)
      /\ Len(Append(LQ, LN + 1)) = Len(LQ) + 1
  BY <1>1, WindowPost, Zenon DEF LaneInv
<1>3. Len(LQ) \in Nat /\ Len(LQ) <= LN
  BY <1>1 DEF LaneInv
<1>4. Gone' = (LN + 1) - (Len(LQ) + 1)
  BY <1>2, Zenon DEF Gone
<1>5. Gone' = Gone /\ Len(LQ) + 1 <= LN + 1
  BY <1>1, <1>3, <1>4 DEF Gone
<1>6. LaneInv'
  BY <1>2, <1>5, Zenon DEF LaneInv
<1>7. QED
  BY <1>5, <1>6, Zenon

\* A step that leaves the deliveries alone keeps the accounts.
LEMMA Unmoved ==
  ASSUME FInv, UNCHANGED <<Gone, LF, AF, handled>>,
         closer' \in {"none", "draining"} => closer \in {"none", "draining"}
  PROVE  \A h \in Bridges \ Faulty : BridgeInv(h)'
<1>1. ASSUME NEW h \in Bridges \ Faulty PROVE BridgeInv(h)'
  <2>1. PICK x \in Nat :
          /\ closer \in {"none", "draining"} => x = 0
          /\ Book(handled[h], Gone, Pending(LF, h), Pending(AF, h), x)
    BY Zenon DEF FInv, Account, BridgeInv
  <2>2. Book(handled'[h], Gone', Pending(LF', h), Pending(AF', h), x)
    BY <2>1, Zenon
  <2>3. closer' \in {"none", "draining"} => x = 0
    BY <2>1, Zenon
  <2>4. QED
    BY <2>2, <2>3, Zenon DEF BridgeInv
<1>2. QED
  BY <1>1, Zenon

\* Handlers stay distinct when one that is not there is added.
LEMMA DistinctAdd ==
  ASSUME NEW S, NEW s \in Seq(S), Distinct(s), NEW h \in S, ~InSeq(h, s)
  PROVE  Distinct(Append(s, h))
<1> DEFINE d == Append(s, h)
           n == Len(s)
<1>1. /\ n \in Nat /\ Len(d) = n + 1 /\ d[n + 1] = h
      /\ \A i \in 1..n : d[i] = s[i]
      /\ \A i \in 1..(n + 1) : i \in 1..n \/ i = n + 1
  OBVIOUS
<1>2. \A i \in 1..n : s[i] # h
  BY Zenon DEF InSeq
<1> HIDE DEF d
<1>3. ASSUME NEW i \in 1..Len(d), NEW j \in 1..Len(d), d[i] = d[j] PROVE i = j
  BY <1>1, <1>2, <1>3, Zenon DEF Distinct
<1>4. QED
  BY <1>3, Zenon DEF Distinct, d

\* Handlers stay distinct when one is removed.
LEMMA DistinctRemove ==
  ASSUME NEW S, NEW s \in Seq(S), Distinct(s), NEW i \in 1..Len(s)
  PROVE  Distinct(Without(s, i))
<1> DEFINE w == Without(s, i)
           n == Len(s)
           at(j) == IF j < i THEN j ELSE j + 1
<1>1. n \in Nat /\ i \in 1..n
  OBVIOUS
<1>2. \A j \in 1..(n - 1) : at(j) \in 1..n
  BY <1>1
<1>3. \A j \in 1..(n - 1) : \A k \in 1..(n - 1) : at(j) = at(k) => j = k
  BY <1>1
<1>4. \A j \in 1..(n - 1) : w[j] = s[at(j)]
  BY Zenon DEF Without
<1>5. Len(w) = n - 1
  <2>1. \A j \in 1..n : s[j] \in S
    OBVIOUS
  <2>2. n - 1 \in Nat /\ w \in [1..(n - 1) -> S]
    BY <1>1, <1>2, <1>4, <2>1 DEF Without
  <2>3. QED
    BY <2>2, IsASeq
<1> HIDE DEF w, at
<1>6. ASSUME NEW j \in 1..Len(w), NEW k \in 1..Len(w), w[j] = w[k] PROVE j = k
  <2>1. at(j) = at(k)
    BY <1>2, <1>4, <1>5, <1>6, Zenon DEF Distinct
  <2>2. QED
    BY <1>3, <1>5, <2>1, Zenon
<1>7. QED
  BY <1>6, Zenon DEF Distinct, w

\* Steps of the lossy lane and stutters keep the accounts.
LEMMA KeepLossy ==
  ASSUME FInv,
         \/ PostLossy \/ Dispatch("lossy") \/ HandlerReturns("lossy")
         \/ UNCHANGED vars
  PROVE  Account'
<1>1. UNCHANGED <<LQ, LN, LS, LT, LF, AF, handled, closed, closer, subs>>
  BY LossyView, Zenon DEF FInv
<1>2. LaneInv' /\ Gone' = Gone
  BY <1>1, Zenon DEF FInv, Account, LaneInv, Gone
<1>3. Bridged' = Bridged
  BY <1>1, Zenon DEF Bridged
<1>4. TaskInv'
  BY <1>1, <1>3, Zenon DEF FInv, Account, TaskInv
<1>5. ListInv'
  BY <1>1, Zenon DEF FInv, Account, ListInv
<1>6. \A h \in Bridges \ Faulty : BridgeInv(h)'
  BY <1>1, <1>2, Unmoved, Zenon
<1>7. QED
  BY <1>2, <1>4, <1>5, <1>6, Zenon DEF Account

\* Subscribing and unsubscribing keep them.
LEMMA KeepSubs ==
  ASSUME FInv, NEW l \in Lanes, NEW h \in HandlersOf[l],
         Subscribe(l, h) \/ Unsubscribe(l, h)
  PROVE  Account'
<1>1. /\ UNCHANGED <<LQ, LN, LT, LF, AF, handled, closed, closer>>
      /\ \/ LS' = LS
         \/ h \in Handlers /\ ~InSeq(h, LS) /\ LS' = Append(LS, h)
         \/ \E i \in 1..Len(LS) : LS' = Without(LS, i)
  BY SubsView, Zenon DEF FInv
<1>2. LaneInv' /\ Gone' = Gone
  BY <1>1, Zenon DEF FInv, Account, LaneInv, Gone
<1>3. Bridged => Bridged'
  BY BridgedKept, Zenon DEF FInv
<1>4. TaskInv'
  BY <1>1, <1>3, Zenon DEF FInv, Account, TaskInv
<1>5. Distinct(LS')
  <2>1. LS \in Seq(Handlers) /\ Distinct(LS)
    BY LaneTypes, Zenon DEF FInv, Account, ListInv
  <2>2. ASSUME h \in Handlers, ~InSeq(h, LS) PROVE Distinct(Append(LS, h))
    BY <2>1, <2>2, DistinctAdd, Zenon
  <2>3. ASSUME NEW i \in 1..Len(LS) PROVE Distinct(Without(LS, i))
    BY <2>1, DistinctRemove, Zenon
  <2>4. QED
    BY <1>1, <2>1, <2>2, <2>3, Zenon
<1>6. ListInv'
  BY <1>1, <1>5, Zenon DEF FInv, Account, ListInv
<1>7. \A g \in Bridges \ Faulty : BridgeInv(g)'
  BY <1>1, <1>2, Unmoved, Zenon
<1>8. QED
  BY <1>2, <1>4, <1>6, <1>7, Zenon DEF Account

\* A post keeps them.
LEMMA KeepPost ==
  ASSUME FInv, PostLossless
  PROVE  Account'
<1>1. /\ LQ' = Append(LQ, LN + 1) /\ LN' = LN + 1
      /\ UNCHANGED <<LS, LT, LF, AF, handled, closed, closer, subs>>
  BY PostView, Zenon DEF FInv
<1>2. LaneInv' /\ Gone' = Gone
  BY <1>1, LanePosts, Zenon DEF FInv, Account
<1>3. Bridged' = Bridged
  BY <1>1, Zenon DEF Bridged
<1>4. TaskInv'
  BY <1>1, <1>3, Zenon DEF FInv, Account, TaskInv
<1>5. ListInv'
  BY <1>1, Zenon DEF FInv, Account, ListInv
<1>6. \A h \in Bridges \ Faulty : BridgeInv(h)'
  BY <1>1, <1>2, Unmoved, Zenon
<1>7. QED
  BY <1>2, <1>4, <1>5, <1>6, Zenon DEF Account

\* Starting the dispatchers keeps them.
LEMMA KeepStart ==
  ASSUME FInv, Start
  PROVE  Account'
<1>1. /\ LT = "off" /\ LT' = "idle" /\ Bridged /\ ~closed
      /\ UNCHANGED <<LQ, LN, LS, LF, AF, handled, closed, closer, subs>>
  BY StartView, Zenon DEF FInv, Start
<1>2. LaneInv' /\ Gone' = Gone
  BY <1>1, Zenon DEF FInv, Account, LaneInv, Gone
<1>3. Bridged' = Bridged
  BY <1>1, Zenon DEF Bridged
<1>4. closer = "none"
  BY <1>1, Zenon DEF FInv, Account, TaskInv
<1>5. LF = Idle /\ AF = Idle
  BY <1>1, <1>4 DEF FInv, Account, TaskInv
<1>6. TaskInv'
  BY <1>1, <1>3, <1>4, <1>5 DEF TaskInv
<1>7. ListInv'
  BY <1>1, Zenon DEF FInv, Account, ListInv
<1>8. \A h \in Bridges \ Faulty : BridgeInv(h)'
  BY <1>1, <1>2, Unmoved, Zenon
<1>9. QED
  BY <1>2, <1>6, <1>7, <1>8, Zenon DEF Account

\* aclose() returning keeps them.
LEMMA KeepAcloseReturns ==
  ASSUME FInv, AcloseReturns
  PROVE  Account'
<1>1. /\ closer = "gathering" /\ closer' = "done"
      /\ UNCHANGED <<LQ, LN, LS, LT, LF, AF, handled, closed, subs>>
  BY Zenon DEF AcloseReturns, LQ, LN, LS, LT, LF, AF
<1>2. LaneInv' /\ Gone' = Gone
  BY <1>1, Zenon DEF FInv, Account, LaneInv, Gone
<1>3. Bridged' = Bridged
  BY <1>1, Zenon DEF Bridged
<1>4. closed /\ AF = Idle /\ LT \in {"off", "dead"}
  BY <1>1 DEF FInv, Account, TaskInv
<1>5. (LT # "off" \/ closed => Bridged) /\ (LT # "awaiting" => LF = Idle)
  BY Zenon DEF FInv, Account, TaskInv
<1>6. TaskInv'
  BY <1>1, <1>3, <1>4, <1>5 DEF TaskInv
<1>7. ListInv'
  BY <1>1, Zenon DEF FInv, Account, ListInv
<1>8. closer' \notin {"none", "draining"}
  BY <1>1
<1>9. \A h \in Bridges \ Faulty : BridgeInv(h)'
  BY <1>1, <1>2, <1>8, Unmoved, Zenon
<1>10. QED
  BY <1>2, <1>6, <1>7, <1>9, Zenon DEF Account

\* The account of one bridge.
LEMMA BridgeBook ==
  ASSUME FInv, NEW h \in Bridges \ Faulty
  PROVE  /\ handled[h] \in Seq(Nat) /\ Gone \in Nat
         /\ \E x \in Nat :
              /\ closer \in {"none", "draining"} => x = 0
              /\ Book(handled[h], Gone, Pending(LF, h), Pending(AF, h), x)
<1>1. h \in Handlers
  BY BusAssumption DEF Handlers
<1>2. handled[h] \in Seq(Nat)
  BY <1>1, LaneTypes DEF FInv
<1>3. Gone \in Nat
  BY LaneCounts, Zenon DEF FInv, Account
<1>4. QED
  BY <1>2, <1>3, Zenon DEF FInv, Account, BridgeInv

\* The dispatcher takes an event.
LEMMA KeepDispatch ==
  ASSUME FInv, Dispatch("lossless")
  PROVE  Account'
<1> DEFINE m == SyncPrefix(LS)
           rest == AfterPrefix(LS)
           e == Head(LQ)
<1>1. /\ LT = "idle" /\ LQ # <<>> /\ LQ' = Tail(LQ)
      /\ handled' = Completed(handled, LS, m, <<e>>)
      /\ LT' = IF rest = <<>> THEN "idle" ELSE "awaiting"
      /\ LF' = Held(e, rest)
      /\ UNCHANGED <<LN, LS, AF, closed, closer, subs>>
  BY DispatchView, Zenon DEF FInv
<1>2. /\ TypeOK /\ LaneInv /\ LS \in Seq(Handlers)
      /\ Distinct(LS) /\ Delivery(AF)
  BY LaneTypes, Zenon DEF FInv, Account, ListInv
<1>3. Parts(LS, m, rest) /\ rest \in Seq(Handlers)
  BY <1>2, StartParts, PrefixBound, Zenon
<1>4. e = Gone + 1 /\ Gone' = Gone + 1 /\ LaneInv'
  BY <1>1, <1>2, LaneTakes, Zenon
<1>5. Gone \in Nat
  BY <1>2, LaneCounts, Zenon
<1>6. e \in Nat /\ e # 0
  BY <1>4, <1>5
<1>7. Bridged /\ LF = Idle /\ closer \notin {"gathering", "done"}
  BY <1>1 DEF FInv, Account, TaskInv
<1> HIDE DEF m, rest, e
<1>8. /\ \A h : Pending(LF', h) = Owed(e, rest, h)
      /\ \A h : Pending(LF, h) = 0
      /\ Delivery(LF')
  <2>1. Distinct(rest)
    BY <1>3, Zenon DEF Parts
  <2>2. /\ \A h : Pending(Held(e, rest), h) = Owed(e, rest, h)
        /\ Delivery(Held(e, rest)) /\ \A h : Pending(Idle, h) = 0
    BY <1>3, <1>6, <2>1, HeldOwes, Zenon
  <2>3. LF' = Held(e, rest)
    BY <1>1
  <2>4. QED
    BY <1>7, <2>2, <2>3, Zenon
<1>9. ListInv'
  BY <1>1, <1>2, <1>8, Zenon DEF ListInv
<1>10. Bridged'
  BY <1>1, <1>7, Zenon DEF Bridged
<1>11. LT' # "awaiting" => LF' = Idle
  BY <1>1, Zenon DEF Held
<1>12. (closer # "none" => closed) /\ (closer # "draining" => AF = Idle)
  BY Zenon DEF FInv, Account, TaskInv
<1>13. TaskInv'
  BY <1>1, <1>7, <1>10, <1>11, <1>12, Zenon DEF TaskInv
<1>14. ASSUME NEW h \in Bridges \ Faulty PROVE BridgeInv(h)'
  <2>1. handled[h] \in Seq(Nat)
    BY BridgeBook, Zenon
  <2>2. PICK x \in Nat :
          /\ closer \in {"none", "draining"} => x = 0
          /\ Book(handled[h], Gone, 0, Pending(AF, h), x)
    BY <1>8, BridgeBook, Zenon
  <2>3. InSeq(h, LS)
    BY <1>7, Zenon DEF Bridged, LS
  <2>4. Book(Got(handled[h], LS, m, h, <<Gone + 1>>),
             Gone + 1, Owed(Gone + 1, rest, h), Pending(AF, h), x)
    BY <1>3, <1>5, <2>1, <2>2, <2>3, TakenBook, Zenon
  <2>5. handled'[h] = Got(handled[h], LS, m, h, <<e>>)
    <3>1. Completed(handled, LS, m, <<e>>)[h] = Got(handled[h], LS, m, h, <<e>>)
      BY HealthyBridge, Zenon DEF Completed, Got, Ran
    <3>2. handled' = Completed(handled, LS, m, <<e>>)
      BY <1>1
    <3>3. QED
      BY <3>1, <3>2
  <2>6. Book(handled'[h], Gone', Pending(LF', h), Pending(AF', h), x)
    BY <1>1, <1>4, <1>8, <2>4, <2>5, Zenon
  <2>7. QED
    BY <1>1, <2>2, <2>6, Zenon DEF BridgeInv
<1>15. QED
  BY <1>4, <1>9, <1>13, <1>14, Zenon DEF Account

\* The dispatcher's suspended delivery goes on.
LEMMA KeepReturn ==
  ASSUME FInv, HandlerReturns("lossless")
  PROVE  Account'
<1> DEFINE left == LF.left
           m == 1 + SyncPrefix(Tail(left))
           rest == AfterPrefix(Tail(left))
           e == LF.ev
<1>1. /\ LT = "awaiting"
      /\ handled' = Completed(handled, left, m, <<e>>)
      /\ LT' = IF rest = <<>> THEN "idle" ELSE "awaiting"
      /\ LF' = Held(e, rest)
      /\ UNCHANGED <<LQ, LN, LS, AF, closed, closer, subs>>
  BY ReturnView, Zenon DEF FInv
<1>2. /\ LF \in [ev : Nat, left : Seq(Handlers)] /\ left # <<>>
      /\ Distinct(LS) /\ Delivery(LF) /\ Delivery(AF)
  BY <1>1, LaneTypes, Zenon DEF FInv, Account, ListInv
<1>3. left \in Seq(Handlers) /\ e \in Nat
  BY <1>2
<1>4. Distinct(left) /\ e # 0
  BY <1>2, Zenon DEF Delivery
<1>5. Tail(left) \in Seq(Handlers)
  BY <1>2, <1>3
<1>6. Parts(left, m, rest) /\ rest \in Seq(Handlers)
  BY <1>2, <1>3, <1>4, <1>5, ResumeParts, PrefixBound, Zenon
<1>7. LaneInv' /\ Gone' = Gone
  BY <1>1, Zenon DEF FInv, Account, LaneInv, Gone
<1>8. Bridged /\ closer \notin {"gathering", "done"}
  BY <1>1 DEF FInv, Account, TaskInv
<1> HIDE DEF left, m, rest, e
<1>9. /\ \A h : Pending(LF', h) = Owed(e, rest, h)
      /\ Delivery(LF')
  <2>1. Distinct(rest)
    BY <1>6, Zenon DEF Parts
  <2>2. /\ \A h : Pending(Held(e, rest), h) = Owed(e, rest, h)
        /\ Delivery(Held(e, rest))
    BY <1>3, <1>4, <1>6, <2>1, HeldOwes, Zenon
  <2>3. LF' = Held(e, rest)
    BY <1>1
  <2>4. QED
    BY <2>2, <2>3, Zenon
<1>10. \A h : Pending(LF, h) = Owed(e, left, h)
  BY Zenon DEF Pending, left, e
<1>11. ListInv'
  BY <1>1, <1>2, <1>9, Zenon DEF ListInv
<1>12. Bridged'
  BY <1>1, <1>8, Zenon DEF Bridged
<1>13. LT' # "awaiting" => LF' = Idle
  BY <1>1, Zenon DEF Held
<1>14. (closer # "none" => closed) /\ (closer # "draining" => AF = Idle)
  BY Zenon DEF FInv, Account, TaskInv
<1>15. TaskInv'
  BY <1>1, <1>8, <1>12, <1>13, <1>14, Zenon DEF TaskInv
<1>16. ASSUME NEW h \in Bridges \ Faulty PROVE BridgeInv(h)'
  <2>1. handled[h] \in Seq(Nat) /\ Gone \in Nat
    BY BridgeBook, Zenon
  <2>2. PICK x \in Nat :
          /\ closer \in {"none", "draining"} => x = 0
          /\ Book(handled[h], Gone, Owed(e, left, h), Pending(AF, h), x)
    BY <1>10, BridgeBook, Zenon
  <2>3. Book(Got(handled[h], left, m, h, <<e>>),
             Gone, Owed(e, rest, h), Pending(AF, h), x)
    BY <1>4, <1>6, <2>1, <2>2, GoesOnBook, Zenon
  <2>4. handled'[h] = Got(handled[h], left, m, h, <<e>>)
    <3>1. Completed(handled, left, m, <<e>>)[h] = Got(handled[h], left, m, h, <<e>>)
      BY HealthyBridge, Zenon DEF Completed, Got, Ran
    <3>2. handled' = Completed(handled, left, m, <<e>>)
      BY <1>1
    <3>3. QED
      BY <3>1, <3>2
  <2>5. Book(handled'[h], Gone', Pending(LF', h), Pending(AF', h), x)
    BY <1>1, <1>7, <1>9, <2>3, <2>4, Zenon
  <2>6. QED
    BY <1>1, <2>2, <2>5, Zenon DEF BridgeInv
<1>17. QED
  BY <1>7, <1>11, <1>15, <1>16, Zenon DEF Account

\* Cancelling aclose() loses the event the drain was delivering.
LEMMA KeepCancel ==
  ASSUME FInv, CancelCloser
  PROVE  Account'
<1>1. /\ closer \in {"draining", "gathering"} /\ closer' = "cancelled"
      /\ frame' = [frame EXCEPT !["aclose"] = Idle]
      /\ UNCHANGED <<LQ, LN, LS, LT, handled, closed, subs>>
  BY Zenon DEF CancelCloser, LQ, LN, LS, LT
<1>2. LF' = LF /\ AF' = Idle
  BY <1>1 DEF FInv, TypeOK, LF, AF, Deliverers, Lanes
<1>3. LaneInv' /\ Gone' = Gone
  BY <1>1, Zenon DEF FInv, Account, LaneInv, Gone
<1>4. /\ LT # "off" \/ closed => Bridged
      /\ LT # "awaiting" => LF = Idle
      /\ closer # "draining" => AF = Idle
      /\ closer # "none" => closed
  BY Zenon DEF FInv, Account, TaskInv
<1>5. Bridged' = Bridged
  BY <1>1, Zenon DEF Bridged
<1>6. TaskInv'
  BY <1>1, <1>2, <1>4, <1>5 DEF TaskInv
<1>7. /\ Delivery(Idle) /\ \A h : Pending(Idle, h) = 0
  <2>1. <<>> \in Seq({}) /\ 0 \in Nat
    OBVIOUS
  <2>2. QED
    BY <2>1, HeldOwes, Zenon
<1>8. ListInv'
  BY <1>1, <1>2, <1>7, Zenon DEF FInv, Account, ListInv
<1>9. ASSUME NEW h \in Bridges \ Faulty PROVE BridgeInv(h)'
  <2>1. handled[h] \in Seq(Nat) /\ Gone \in Nat
    BY BridgeBook, Zenon
  <2>2. PICK x \in Nat :
          /\ closer \in {"none", "draining"} => x = 0
          /\ Book(handled[h], Gone, Pending(LF, h), Pending(AF, h), x)
    BY BridgeBook, Zenon
  <2>3. \E y \in Nat : Book(handled[h], Gone, Pending(LF, h), 0, y)
    <3>1. CASE closer = "draining"
      <4>1. Book(handled[h], Gone, Pending(LF, h), Pending(AF, h), 0)
        BY <2>2, <3>1, Zenon
      <4>2. Book(handled[h], Gone, Pending(AF, h), Pending(LF, h), 0)
        BY <4>1, BookSwap, Zenon
      <4>3. Book(handled[h], Gone, 0, Pending(LF, h), Pending(AF, h))
        BY <2>1, <4>2, BookLoses, Zenon
      <4>4. Book(handled[h], Gone, Pending(LF, h), 0, Pending(AF, h))
        BY <4>3, BookSwap, Zenon
      <4>5. Pending(AF, h) \in 0..Gone
        BY <4>1, Zenon DEF Book
      <4>6. Pending(AF, h) \in Nat
        BY <4>5, <2>1
      <4>7. QED
        BY <4>4, <4>6, Zenon
    <3>2. CASE closer # "draining"
      BY <1>4, <1>7, <2>2, <3>2, Zenon
    <3>3. QED
      BY <3>1, <3>2, Zenon
  <2>4. PICK y \in Nat : Book(handled[h], Gone, Pending(LF, h), 0, y)
    BY <2>3, Zenon
  <2>5. Book(handled'[h], Gone', Pending(LF', h), Pending(AF', h), y)
    BY <1>1, <1>2, <1>3, <1>7, <2>4, Zenon
  <2>6. closer' \notin {"none", "draining"}
    BY <1>1
  <2>7. QED
    BY <2>5, <2>6, Zenon DEF BridgeInv
<1>10. QED
  BY <1>3, <1>6, <1>8, <1>9, Zenon DEF Account

\* The drain goes on from a log in which it owes nothing: it completes the whole
\* lane, and the dispatcher's delivery is lost with it, or it takes one event.
LEMMA DrainKeeps ==
  ASSUME TypeOK, LaneInv, ListInv, Bridged, LT # "awaiting" => LF = Idle,
         NEW log, DrainOn(log), UNCHANGED <<LN, LS, subs>>, closed',
         \A h \in Bridges \ Faulty :
           log[h] \in Seq(Nat) /\ Book(log[h], Gone, Pending(LF, h), 0, 0)
  PROVE  Account'
<1> DEFINE m == SyncPrefix(LS)
           rest == AfterPrefix(LS)
           e == Head(LQ)
<1>1. /\ LS \in Seq(Handlers) /\ Distinct(LS) /\ LQ \in Seq(Nat)
      /\ Delivery(LF)
  BY LaneTypes, Zenon DEF ListInv
<1>2. Gone \in Nat /\ \A i \in 1..Len(LQ) : LQ[i] = Gone + i
  BY LaneCounts, Zenon
<1>3. Bridged'
  BY Zenon DEF Bridged
<1>4. \A h \in Bridges : InSeq(h, LS)
  BY Zenon DEF Bridged, LS
<1>5. Delivery(Idle) /\ \A h : Pending(Idle, h) = 0
  <2>1. <<>> \in Seq({}) /\ 0 \in Nat
    OBVIOUS
  <2>2. QED
    BY <2>1, HeldOwes, Zenon
<1>6. CASE /\ handled' = Completed(log, LS, Len(LS), LQ)
           /\ LQ' = <<>> /\ LF' = Idle /\ AF' = Idle
           /\ LT' \in {"off", "dead"} /\ closer' = "gathering"
  <2>1. Gone' = Gone + Len(LQ) /\ LaneInv'
    BY <1>6, LaneEmpties, Zenon
  <2>2. TaskInv'
    BY <1>3, <1>6 DEF TaskInv
  <2>3. ListInv'
    BY <1>1, <1>5, <1>6, Zenon DEF ListInv
  <2>4. ASSUME NEW h \in Bridges \ Faulty PROVE BridgeInv(h)'
    <3> DEFINE a == Pending(LF, h)
    <3>1. log[h] \in Seq(Nat) /\ Book(log[h], Gone, a, 0, 0)
      BY Zenon
    <3> HIDE DEF a
    <3>2. Book(log[h], Gone, 0, 0, a)
      BY <1>2, <3>1, BookLoses, Zenon
    <3>3. Book(log[h] \o LQ, Gone + Len(LQ), 0, 0, a)
      BY <1>1, <1>2, <3>1, <3>2, BookTakes, Zenon
    <3>4. Completed(log, LS, Len(LS), LQ)[h] = log[h] \o LQ
      <4>1. Ran(LS, Len(LS), h)
        BY <1>4, AllRan, Zenon
      <4>2. Completed(log, LS, Len(LS), LQ)[h] = Got(log[h], LS, Len(LS), h, LQ)
        BY HealthyBridge, Zenon DEF Completed, Got, Ran
      <4>3. QED
        BY <4>1, <4>2, Zenon DEF Got
    <3>5. Pending(LF', h) = 0 /\ Pending(AF', h) = 0
      BY <1>5, <1>6, Zenon
    <3>6. Book(handled'[h], Gone', Pending(LF', h), Pending(AF', h), a)
      BY <1>6, <2>1, <3>3, <3>4, <3>5, Zenon
    <3>7. a \in 0..Gone
      BY <3>1, Zenon DEF Book
    <3>8. a \in Nat
      BY <1>2, <3>7
    <3>9. closer' \notin {"none", "draining"}
      BY <1>6
    <3>10. QED
      BY <3>6, <3>8, <3>9, Zenon DEF BridgeInv
  <2>5. QED
    BY <2>1, <2>2, <2>3, <2>4, Zenon DEF Account
<1>7. CASE /\ LQ # <<>> /\ LQ' = Tail(LQ)
           /\ handled' = Completed(log, LS, m, <<e>>)
           /\ AF' = Held(e, rest)
           /\ closer' = "draining" /\ UNCHANGED <<LT, LF>>
  <2>1. Parts(LS, m, rest) /\ rest \in Seq(Handlers)
    BY <1>1, StartParts, PrefixBound, Zenon
  <2>2. e = Gone + 1 /\ Gone' = Gone + 1 /\ LaneInv'
    BY <1>7, LaneTakes, Zenon
  <2>3. e \in Nat /\ e # 0
    BY <1>2, <2>2
  <2> HIDE DEF m, rest, e
  <2>4. /\ \A h : Pending(AF', h) = Owed(e, rest, h)
        /\ Delivery(AF')
    <3>1. Distinct(rest)
      BY <2>1, Zenon DEF Parts
    <3>2. /\ \A h : Pending(Held(e, rest), h) = Owed(e, rest, h)
          /\ Delivery(Held(e, rest))
      BY <2>1, <2>3, <3>1, HeldOwes, Zenon
    <3>3. AF' = Held(e, rest)
      BY <1>7
    <3>4. QED
      BY <3>2, <3>3, Zenon
  <2>5. ListInv'
    BY <1>1, <1>7, <2>4, Zenon DEF ListInv
  <2>6. TaskInv'
    BY <1>3, <1>7 DEF TaskInv
  <2>7. ASSUME NEW h \in Bridges \ Faulty PROVE BridgeInv(h)'
    <3> DEFINE a == Pending(LF, h)
               c == Got(log[h], LS, m, h, <<e>>)
               b == Owed(e, rest, h)
    <3>1. log[h] \in Seq(Nat) /\ Book(log[h], Gone, a, 0, 0) /\ InSeq(h, LS)
      BY <1>4, Zenon
    <3> HIDE DEF a
    <3>2. Book(log[h], Gone, 0, a, 0)
      BY <3>1, BookSwap, Zenon
    <3>3. Book(Got(log[h], LS, m, h, <<Gone + 1>>), Gone + 1,
               Owed(Gone + 1, rest, h), a, 0)
      BY <1>2, <2>1, <3>1, <3>2, TakenBook, Zenon
    <3>4. Book(c, Gone', b, a, 0)
      BY <2>2, <3>3, Zenon
    <3>5. handled'[h] = c
      <4>1. Completed(log, LS, m, <<e>>)[h] = c
        BY HealthyBridge, Zenon DEF Completed, Got, Ran
      <4>2. handled' = Completed(log, LS, m, <<e>>)
        BY <1>7
      <4>3. QED
        BY <4>1, <4>2
    <3> HIDE DEF c, b
    <3>6. Book(c, Gone', a, b, 0)
      BY <3>4, BookSwap, Zenon
    <3>7. Pending(LF', h) = a /\ Pending(AF', h) = b
      BY <1>7, <2>4, Zenon DEF a, b
    <3>8. Book(handled'[h], Gone', Pending(LF', h), Pending(AF', h), 0)
      BY <3>5, <3>6, <3>7, Zenon
    <3>9. 0 \in Nat
      OBVIOUS
    <3>10. QED
      BY <3>8, <3>9, Zenon DEF BridgeInv
  <2>8. QED
    BY <2>2, <2>5, <2>6, <2>7, Zenon DEF Account
<1>8. QED
  BY <1>6, <1>7, DrainView, Zenon

\* aclose() starts the drain.
LEMMA KeepAclose ==
  ASSUME FInv, Aclose
  PROVE  Account'
<1>1. /\ ~closed /\ Bridged /\ closed' /\ DrainOn(handled) /\ UNCHANGED <<LN, LS, subs>>
  BY Zenon DEF Aclose, LN, LS
<1>2. closer = "none"
  BY <1>1, Zenon DEF FInv, Account, TaskInv
<1>3. AF = Idle /\ (LT # "awaiting" => LF = Idle)
  BY <1>2 DEF FInv, Account, TaskInv
<1>4. \A h : Pending(Idle, h) = 0
  <2>1. <<>> \in Seq({}) /\ 0 \in Nat
    OBVIOUS
  <2>2. QED
    BY <2>1, HeldOwes, Zenon
<1>5. ASSUME NEW h \in Bridges \ Faulty
      PROVE  handled[h] \in Seq(Nat) /\ Book(handled[h], Gone, Pending(LF, h), 0, 0)
  BY <1>2, <1>3, <1>4, BridgeBook, Zenon
<1>6. TypeOK /\ LaneInv /\ ListInv
  BY Zenon DEF FInv, Account
<1>7. QED
  BY <1>1, <1>3, <1>5, <1>6, DrainKeeps, Zenon

\* The drain's suspended delivery goes on, and the drain with it.
LEMMA KeepResumes ==
  ASSUME FInv, AcloseResumes
  PROVE  Account'
<1> DEFINE left == AF.left
           m == 1 + SyncPrefix(Tail(left))
           rest == AfterPrefix(Tail(left))
           e == AF.ev
           log == Completed(handled, left, m, <<e>>)
<1>1. /\ closer = "draining" /\ UNCHANGED <<LN, LS, subs, closed>>
      /\ rest = <<>> => DrainOn(log)
  BY Zenon DEF AcloseResumes, LN, LS, AF
<1>2. /\ AF \in [ev : Nat, left : Seq(Handlers)] /\ left # <<>>
      /\ Distinct(LS) /\ Delivery(LF) /\ Delivery(AF)
  BY <1>1, LaneTypes, Zenon DEF FInv, Account, ListInv
<1>3. left \in Seq(Handlers) /\ e \in Nat
  BY <1>2
<1>4. Distinct(left) /\ e # 0
  BY <1>2, Zenon DEF Delivery
<1>5. Tail(left) \in Seq(Handlers)
  BY <1>2, <1>3
<1>6. Parts(left, m, rest) /\ rest \in Seq(Handlers)
  BY <1>2, <1>3, <1>4, <1>5, ResumeParts, PrefixBound, Zenon
<1>7. closed /\ Bridged /\ (LT # "awaiting" => LF = Idle)
  BY <1>1 DEF FInv, Account, TaskInv
<1>8. rest # <<>> =>
        /\ handled' = log /\ UNCHANGED <<queue, task, closer>>
        /\ frame' = [frame EXCEPT !["aclose"].left = rest]
  BY Zenon DEF AcloseResumes, AF
<1>9. ASSUME NEW h \in Bridges \ Faulty
      PROVE  /\ log[h] \in Seq(Nat)
             /\ Book(log[h], Gone, Pending(LF, h), Owed(e, rest, h), 0)
  <2> DEFINE a == Pending(LF, h)
             b == Owed(e, rest, h)
  <2>1. /\ handled[h] \in Seq(Nat) /\ Gone \in Nat
        /\ Book(handled[h], Gone, a, Pending(AF, h), 0)
    BY <1>1, BridgeBook, Zenon
  <2> HIDE DEF a, left, m, rest, e
  <2>2. Book(handled[h], Gone, Pending(AF, h), a, 0)
    BY <2>1, BookSwap, Zenon
  <2>3. Book(handled[h], Gone, Owed(e, left, h), a, 0)
    BY <2>2, Zenon DEF Pending, left, e
  <2>4. Book(Got(handled[h], left, m, h, <<e>>),
             Gone, b, a, 0)
    BY <1>4, <1>6, <2>1, <2>3, GoesOnBook, Zenon
  <2>5. log[h] = Got(handled[h], left, m, h, <<e>>)
    BY HealthyBridge, Zenon DEF Completed, Got, Ran
  <2>6. <<e>> \in Seq(Nat) /\ h \in Handlers
    BY <1>3, BusAssumption DEF Handlers
  <2>7. log[h] \in Seq(Nat)
    <3>1. handled[h] \o <<e>> \in Seq(Nat)
      BY <2>1, <2>6
    <3>2. QED
      BY <2>1, <2>5, <3>1, Zenon DEF Got
  <2> HIDE DEF log, b
  <2>8. Book(log[h], Gone, b, a, 0)
    BY <2>4, <2>5, Zenon
  <2>9. Book(log[h], Gone, a, b, 0)
    BY <2>8, BookSwap, Zenon
  <2>10. QED
    BY <2>7, <2>9, Zenon DEF a, b
<1> HIDE DEF log
<1>10. CASE rest = <<>>
  <2>1. \A h : ~InSeq(h, rest)
    <3>1. Len(<<>>) = 0 /\ 1..0 = {}
      OBVIOUS
    <3>2. QED
      BY <1>10, <3>1, Zenon DEF InSeq
  <2> HIDE DEF rest
  <2>2. \A h \in Bridges \ Faulty :
          log[h] \in Seq(Nat) /\ Book(log[h], Gone, Pending(LF, h), 0, 0)
    BY <1>9, <2>1, Zenon DEF Owed
  <2>3. TypeOK /\ LaneInv /\ ListInv
    BY Zenon DEF FInv, Account
  <2>4. DrainOn(log) /\ closed' /\ UNCHANGED <<LN, LS, subs>>
    BY <1>1, <1>7, <1>10, Zenon
  <2>5. QED
    BY <1>7, <2>2, <2>3, <2>4, DrainKeeps, Zenon
<1>11. CASE rest # <<>>
  <2>1. /\ handled' = log /\ UNCHANGED <<queue, task, closer>>
        /\ frame' = [frame EXCEPT !["aclose"].left = rest]
    BY <1>8, <1>11, Zenon
  <2> HIDE DEF rest
  <2>2. LF' = LF /\ AF' = [ev |-> e, left |-> rest]
    <3>1. /\ frame \in [Deliverers -> [ev : Nat, left : Seq(Handlers)]]
          /\ "lossless" \in Deliverers /\ "aclose" \in Deliverers
      BY DEF FInv, TypeOK, Deliverers, Lanes
    <3>2. LF' = LF
      BY <2>1, <3>1 DEF LF
    <3>3. AF' = [ev |-> e, left |-> rest]
      BY <2>1, <3>1 DEF AF
    <3>4. QED
      BY <3>2, <3>3, Zenon
  <2>3. AF' = Held(e, rest)
    BY <1>11, <2>2, Zenon DEF Held
  <2> HIDE DEF e
  <2>4. /\ \A h : Pending(AF', h) = Owed(e, rest, h)
        /\ Delivery(AF')
    <3>1. Distinct(rest)
      BY <1>6, Zenon DEF Parts
    <3>2. /\ \A h : Pending(Held(e, rest), h) = Owed(e, rest, h)
          /\ Delivery(Held(e, rest))
      BY <1>3, <1>4, <1>6, <3>1, HeldOwes, Zenon
    <3>3. QED
      BY <2>3, <3>2, Zenon
  <2>5. UNCHANGED <<LQ, LT, closer, LN, LS, subs, closed>>
    BY <1>1, <2>1, Zenon DEF LQ, LT
  <2>6. LaneInv' /\ Gone' = Gone
    BY <2>5, Zenon DEF FInv, Account, LaneInv, Gone
  <2>7. ListInv'
    BY <1>2, <2>2, <2>4, <2>5, Zenon DEF ListInv
  <2>8. Bridged'
    BY <1>7, <2>5, Zenon DEF Bridged
  <2>9. TaskInv'
    BY <1>1, <1>7, <2>2, <2>5, <2>8 DEF TaskInv
  <2>10. ASSUME NEW h \in Bridges \ Faulty PROVE BridgeInv(h)'
    <3>1. Book(handled'[h], Gone', Pending(LF', h), Pending(AF', h), 0)
      BY <1>9, <2>1, <2>2, <2>4, <2>6, Zenon
    <3>2. 0 \in Nat
      OBVIOUS
    <3>3. QED
      BY <3>1, <3>2, Zenon DEF BridgeInv
  <2>11. QED
    BY <2>6, <2>7, <2>9, <2>10, Zenon DEF Account
<1>12. QED
  BY <1>10, <1>11, Zenon

\* An empty bus owes nothing.
LEMMA InitAccount == Init => Account
<1> SUFFICES ASSUME Init PROVE Account
  OBVIOUS
<1>1. /\ LQ = <<>> /\ LN = 0 /\ LS = <<>> /\ LT = "off" /\ LF = Idle /\ AF = Idle
      /\ ~closed /\ closer = "none"
  BY DEF Init, LQ, LN, LS, LT, LF, AF, Lanes, Deliverers
<1>2. Len(<<>>) = 0 /\ 1..0 = {} /\ 0 <= 0 /\ 0 - 0 = 0 /\ 0 \in Nat /\ 0..0 = {0}
  OBVIOUS
<1>3. LaneInv /\ Gone = 0
  BY <1>1, <1>2, Zenon DEF LaneInv, Window, Gone
<1>4. TaskInv
  BY <1>1 DEF TaskInv
<1>5. Distinct(<<>>) /\ \A e : ~InSeq(e, <<>>)
  BY <1>2, Zenon DEF Distinct, InSeq
<1>6. Delivery(Idle) /\ \A h : Pending(Idle, h) = 0
  <2>1. <<>> \in Seq({})
    OBVIOUS
  <2>2. QED
    BY <1>2, <2>1, HeldOwes, Zenon
<1>7. ListInv
  BY <1>1, <1>5, <1>6, Zenon DEF ListInv
<1>8. ASSUME NEW h \in Bridges \ Faulty PROVE BridgeInv(h)
  <2>1. handled[h] = <<>>
    BY BusAssumption DEF Init, Handlers
  <2>2. Book(<<>>, 0, 0, 0, 0)
    <3>1. 0 \in 0..0
      BY <1>2, Zenon
    <3>2. QED
      BY <1>2, <1>5, <3>1, Zenon DEF Book
  <2>3. Book(handled[h], Gone, Pending(LF, h), Pending(AF, h), 0)
    BY <1>1, <1>3, <1>6, <2>1, <2>2, Zenon
  <2>4. QED
    BY <1>2, <2>3, Zenon DEF BridgeInv
<1>9. QED
  BY <1>3, <1>4, <1>7, <1>8, Zenon DEF Account

\* Every step keeps the accounts, one step of the proof per action.
LEMMA NextAccount == FInv /\ [Next]_vars => FInv'
<1> SUFFICES ASSUME FInv, [Next]_vars PROVE FInv'
  OBVIOUS
<1>1. TypeOK'
  BY NextTypeOK, Zenon DEF FInv
<1>2. ASSUME NEW l \in Lanes, NEW h \in HandlersOf[l],
             Subscribe(l, h) \/ Unsubscribe(l, h)
      PROVE  Account'
  BY <1>2, KeepSubs, Zenon
<1>3. ASSUME PostLossless PROVE Account'
  BY <1>3, KeepPost, Zenon
<1>4. ASSUME PostLossy \/ UNCHANGED vars PROVE Account'
  BY <1>4, KeepLossy, Zenon
<1>5. ASSUME Start PROVE Account'
  BY <1>5, KeepStart, Zenon
<1>6. ASSUME NEW l \in Lanes, Dispatch(l) \/ HandlerReturns(l) PROVE Account'
  <2>1. l = "lossless" \/ l = "lossy"
    BY DEF Lanes
  <2>2. CASE l = "lossless"
    BY <1>6, <2>2, KeepDispatch, KeepReturn, Zenon
  <2>3. CASE l = "lossy"
    BY <1>6, <2>3, KeepLossy, Zenon
  <2>4. QED
    BY <2>1, <2>2, <2>3, Zenon
<1>7. ASSUME Aclose PROVE Account'
  BY <1>7, KeepAclose, Zenon
<1>8. ASSUME AcloseResumes PROVE Account'
  BY <1>8, KeepResumes, Zenon
<1>9. ASSUME AcloseReturns PROVE Account'
  BY <1>9, KeepAcloseReturns, Zenon
<1>10. ASSUME CancelCloser PROVE Account'
  BY <1>10, KeepCancel, Zenon
<1>11. Account'
  BY <1>2, <1>3, <1>4, <1>5, <1>6, <1>7, <1>8, <1>9, <1>10, Zenon DEF Next
<1>12. QED
  BY <1>1, <1>11, Zenon DEF FInv

\* The accounts leave at most one event per bridge unexplained.
LEMMA AccountLoss == FInv => LossOnlyInFlight
<1> SUFFICES ASSUME FInv, NEW h \in Bridges \ Faulty
             PROVE  /\ Distinct(handled[h])
                    /\ Cardinality({e \in 1..LN :
                                      /\ ~InSeq(e, handled[h]) /\ ~InSeq(e, LQ)
                                      /\ \A t \in {"lossless", "aclose"} :
                                           frame[t].ev # e}) <= 1
  BY Zenon DEF LossOnlyInFlight, Distinct, LQ, LN
<1> DEFINE U == {e \in 1..LN : /\ ~InSeq(e, handled[h]) /\ ~InSeq(e, LQ)
                               /\ \A t \in {"lossless", "aclose"} : frame[t].ev # e}
<1>1. PICK x \in Nat : Book(handled[h], Gone, Pending(LF, h), Pending(AF, h), x)
  BY BridgeBook, Zenon
<1>2. /\ Gone \in Nat /\ Gone + Len(LQ) = LN
      /\ \A i \in 1..Len(LQ) : LQ[i] = Gone + i
  BY LaneCounts, Zenon DEF FInv, Account
<1>3. LQ \in Seq(Nat) /\ LN \in Nat
  BY LaneTypes, Zenon DEF FInv
<1>4. ASSUME NEW e \in 1..LN, ~(e \in 1..Gone) PROVE InSeq(e, LQ)
  <2>1. Len(LQ) \in Nat
    BY <1>3
  <2>2. e - Gone \in 1..Len(LQ) /\ Gone + (e - Gone) = e
    BY <1>2, <1>3, <1>4, <2>1
  <2>3. LQ[e - Gone] = e
    BY <1>2, <2>2, Zenon
  <2>4. QED
    BY <2>2, <2>3, Zenon DEF InSeq
<1>5. ASSUME NEW e \in U PROVE e = x
  <2>1. e \in 1..LN /\ ~InSeq(e, handled[h]) /\ ~InSeq(e, LQ) /\ LF.ev # e /\ AF.ev # e
    BY Zenon DEF LF, AF
  <2>2. e \in 1..Gone
    BY <1>4, <2>1, Zenon
  <2>3. e # 0
    BY <2>2
  <2>4. e # Pending(LF, h) /\ e # Pending(AF, h)
    BY <2>1, <2>3, Zenon DEF Pending, Owed
  <2>5. QED
    BY <1>1, <2>1, <2>2, <2>4, Zenon DEF Book
<1>6. IsFiniteSet({x}) /\ Cardinality({x}) = 1
  BY FS_Singleton, Zenon
<1> HIDE DEF U
<1>7. U \subseteq {x}
  BY <1>5, Zenon
<1>8. Cardinality(U) <= Cardinality({x})
  BY <1>6, <1>7, FS_Subset, Zenon
<1>9. Cardinality(U) <= 1
  BY <1>6, <1>8, Zenon
<1>10. Distinct(handled[h])
  BY <1>1, Zenon DEF Book
<1>11. QED
  BY <1>9, <1>10, Zenon DEF U

\* With async handlers too, a healthy bridge completes no lossless event twice,
\* and a close, cancelled or not, costs it at most the one event that a task was
\* delivering when it was cancelled.
THEOREM InFlightOnly == Spec => []LossOnlyInFlight
<1>1. Init => FInv
  BY InitTypeOK, InitAccount, Zenon DEF FInv
<1>2. FInv /\ [Next]_vars => FInv'
  BY NextAccount
<1>3. FInv => LossOnlyInFlight
  BY AccountLoss
<1>4. QED
  BY <1>1, <1>2, <1>3, PTL DEF Spec

=============================================================================
