------------------------------ MODULE EventBus ------------------------------
(***************************************************************************)
(* The per-call, two-lane event bus (isales_engine/eventbus.py).            *)
(*                                                                          *)
(* Every lane is a queue of event numbers: the n-th event posted on a lane  *)
(* is the number n, so a queue or a delivery log says both which events it  *)
(* holds and in which order they were posted.  An asyncio task runs without *)
(* interruption until it really suspends, so an action is one such stretch: *)
(* a synchronous handler runs inside the stretch that takes the event, and  *)
(* only a handler that returns an awaitable (a member of Async) suspends    *)
(* the task that delivers.                                                  *)
(***************************************************************************)
EXTENDS Integers, Sequences, FiniteSets

CONSTANTS
  HandlersOf, \* the handlers that may be subscribed on each lane
  Bridges,    \* those subscribed before start() and never unsubscribed
  Async,      \* handlers that return an awaitable
  Faulty,     \* handlers that raise on every event
  LossyMax,   \* lossy_maxsize, the capacity of the lossy lane
  MaxPosts    \* bound: events posted per lane

Lanes == {"lossless", "lossy"}

Handlers == HandlersOf["lossless"] \union HandlersOf["lossy"]

ASSUME BusAssumption ==
  /\ DOMAIN HandlersOf = Lanes
  /\ HandlersOf["lossless"] \intersect HandlersOf["lossy"] = {}
  /\ Bridges \subseteq HandlersOf["lossless"]
  /\ LossyMax \in Nat \ {0}
  /\ MaxPosts \in Nat

VARIABLES
  queue,     \* [Lanes -> Seq(event)]: _lossless and _lossy
  posted,    \* [Lanes -> Nat]: events accepted by post() on each lane
  dropped,   \* the lossy-lane drop counter
  subs,      \* [Lanes -> Seq(handler)]: _handlers, in subscription order
  task,      \* [Lanes -> "off" | "idle" | "awaiting" | "dead"]: the dispatchers
  frame,     \* the delivery a suspended task is in, per task
  closed,    \* _closed
  closer,    \* where the task running aclose() is
  handled    \* [Handlers -> Seq(event)]: lossless events each handler completed

vars == <<queue, posted, dropped, subs, task, frame, closed, closer, handled>>

Deliverers == Lanes \union {"aclose"}

\* A delivery suspended in the async handler Head(left); the rest of the
\* snapshot of the handler list is Tail(left).
Idle == [ev |-> 0, left |-> <<>>]

InSeq(h, s) == \E i \in 1..Len(s) : s[i] = h

TypeOK ==
  /\ queue \in [Lanes -> Seq(Nat)]
  /\ posted \in [Lanes -> Nat]
  /\ dropped \in Nat
  /\ subs \in [Lanes -> Seq(Handlers)]
  /\ \A l \in Lanes : subs[l] \in Seq(HandlersOf[l])
  /\ task \in [Lanes -> {"off", "idle", "awaiting", "dead"}]
  /\ frame \in [Deliverers -> [ev : Nat, left : Seq(Handlers)]]
  /\ closed \in BOOLEAN
  /\ closer \in {"none", "draining", "gathering", "done", "cancelled"}
  /\ handled \in [Handlers -> Seq(Nat)]
  /\ \A l \in Lanes : task[l] = "awaiting" => frame[l].left # <<>>
  /\ closer = "draining" => frame["aclose"].left # <<>>

Init ==
  /\ queue = [l \in Lanes |-> <<>>]
  /\ posted = [l \in Lanes |-> 0]
  /\ dropped = 0
  /\ subs = [l \in Lanes |-> <<>>]
  /\ task = [l \in Lanes |-> "off"]
  /\ frame = [t \in Deliverers |-> Idle]
  /\ closed = FALSE
  /\ closer = "none"
  /\ handled = [h \in Handlers |-> <<>>]

-----------------------------------------------------------------------------
\* subscribe() and the unsubscribe callable it returns.

Subscribe(l, h) ==
  /\ ~InSeq(h, subs[l])
  /\ subs' = [subs EXCEPT ![l] = Append(@, h)]
  /\ UNCHANGED <<queue, posted, dropped, task, frame, closed, closer, handled>>

Without(s, i) ==
  [j \in 1..(Len(s) - 1) |-> IF j < i THEN s[j] ELSE s[j + 1]]

Unsubscribe(l, h) ==
  /\ h \notin Bridges
  /\ \E i \in 1..Len(subs[l]) :
       /\ subs[l][i] = h
       /\ subs' = [subs EXCEPT ![l] = Without(@, i)]
  /\ UNCHANGED <<queue, posted, dropped, task, frame, closed, closer, handled>>

-----------------------------------------------------------------------------
\* post(): non-blocking, a no-op once closed.  The lossless lane is unbounded;
\* a full lossy lane gives up its oldest event for the new one.

PostLossless ==
  /\ ~closed
  /\ posted["lossless"] < MaxPosts
  /\ posted' = [posted EXCEPT !["lossless"] = @ + 1]
  /\ queue' = [queue EXCEPT !["lossless"] = Append(@, posted["lossless"] + 1)]
  /\ UNCHANGED <<dropped, subs, task, frame, closed, closer, handled>>

\* Mutant: a full lossy lane refuses the new event instead.
PostLossyDropsNewest ==
  /\ ~closed
  /\ posted["lossy"] < MaxPosts
  /\ posted' = [posted EXCEPT !["lossy"] = @ + 1]
  /\ LET q    == queue["lossy"]
         full == Len(q) = LossyMax
     IN  /\ queue' = [queue EXCEPT !["lossy"] =
                        IF full THEN q ELSE Append(q, posted["lossy"] + 1)]
         /\ dropped' = IF full THEN dropped + 1 ELSE dropped
  /\ UNCHANGED <<subs, task, frame, closed, closer, handled>>

PostLossy ==
  /\ ~closed
  /\ posted["lossy"] < MaxPosts
  /\ posted' = [posted EXCEPT !["lossy"] = @ + 1]
  /\ LET q    == queue["lossy"]
         full == Len(q) = LossyMax
         kept == IF full THEN Tail(q) ELSE q
     IN  /\ queue' = [queue EXCEPT !["lossy"] = Append(kept, posted["lossy"] + 1)]
         /\ dropped' = IF full THEN dropped + 1 ELSE dropped
  /\ UNCHANGED <<subs, task, frame, closed, closer, handled>>

-----------------------------------------------------------------------------
\* _deliver(): run the handlers of a snapshot in order.  A handler that raises
\* is logged and the next one runs.

\* How many leading handlers of left run before the task suspends or finishes.
SyncPrefix(left) ==
  Cardinality({i \in 1..Len(left) : \A j \in 1..i : left[j] \notin Async})

\* Mutant: a handler that raises ends the delivery.
CompletedUntilRaise(log, left, n, evs) ==
  [h \in Handlers |->
     IF \E i \in 1..n : left[i] = h /\ \A j \in 1..i : left[j] \notin Faulty
     THEN log[h] \o evs
     ELSE log[h]]

\* log after the healthy handlers among the first n of left completed evs.
Completed(log, left, n, evs) ==
  [h \in Handlers |->
     IF h \notin Faulty /\ \E i \in 1..n : left[i] = h
     THEN log[h] \o evs
     ELSE log[h]]

AfterPrefix(left) == SubSeq(left, SyncPrefix(left) + 1, Len(left))

\* The log records the lossless lane only.
Log(onLossless, left, n, evs) ==
  handled' = IF onLossless THEN Completed(handled, left, n, evs) ELSE handled

-----------------------------------------------------------------------------
\* start() spawns one dispatcher per lane.  run_session subscribes its bridges
\* before it calls start() or aclose(), and calls each of them once.

Bridged == \A h \in Bridges : InSeq(h, subs["lossless"])

Start ==
  /\ \A l \in Lanes : task[l] = "off"
  /\ ~closed
  /\ Bridged
  /\ task' = [l \in Lanes |-> "idle"]
  /\ UNCHANGED <<queue, posted, dropped, subs, frame, closed, closer, handled>>

\* Mutant: one dispatcher serves both lanes, so each waits for the other.
DispatchShared(l) ==
  /\ \A k \in Lanes : task[k] = "idle"
  /\ queue[l] # <<>>
  /\ LET e    == Head(queue[l])
         rest == AfterPrefix(subs[l])
     IN  /\ queue' = [queue EXCEPT ![l] = Tail(@)]
         /\ Log(l = "lossless", subs[l], SyncPrefix(subs[l]), <<e>>)
         /\ task' = [task EXCEPT ![l] = IF rest = <<>> THEN "idle" ELSE "awaiting"]
         /\ frame' = [frame EXCEPT ![l] =
                        IF rest = <<>> THEN Idle ELSE [ev |-> e, left |-> rest]]
  /\ UNCHANGED <<posted, dropped, subs, closed, closer>>

\* _dispatch(lane): get the oldest event and deliver it.
Dispatch(l) ==
  /\ task[l] = "idle"
  /\ queue[l] # <<>>
  /\ LET e    == Head(queue[l])
         rest == AfterPrefix(subs[l])
     IN  /\ queue' = [queue EXCEPT ![l] = Tail(@)]
         /\ Log(l = "lossless", subs[l], SyncPrefix(subs[l]), <<e>>)
         /\ task' = [task EXCEPT ![l] = IF rest = <<>> THEN "idle" ELSE "awaiting"]
         /\ frame' = [frame EXCEPT ![l] =
                        IF rest = <<>> THEN Idle ELSE [ev |-> e, left |-> rest]]
  /\ UNCHANGED <<posted, dropped, subs, closed, closer>>

\* The awaited handler of a suspended dispatcher returns (or raises).
HandlerReturns(l) ==
  /\ task[l] = "awaiting"
  /\ LET f    == frame[l]
         left == Tail(f.left)
         rest == AfterPrefix(left)
     IN  /\ Log(l = "lossless", f.left, 1 + SyncPrefix(left), <<f.ev>>)
         /\ task' = [task EXCEPT ![l] = IF rest = <<>> THEN "idle" ELSE "awaiting"]
         /\ frame' = [frame EXCEPT ![l] =
                        IF rest = <<>> THEN Idle ELSE [ev |-> f.ev, left |-> rest]]
  /\ UNCHANGED <<queue, posted, dropped, subs, closed, closer>>

-----------------------------------------------------------------------------
\* aclose(): drain what is queued on the lossless lane, then cancel both
\* dispatchers and wait for them.  Closing is what forbids further posts, so
\* the events counted at the start are the events still queued.

\* Cancelling a dispatcher ends it where it is suspended, in get() or in a
\* handler; the delivery it was in is abandoned.
StopDispatchers ==
  /\ task' = [l \in Lanes |-> IF task[l] = "off" THEN "off" ELSE "dead"]
  /\ frame' = [t \in Deliverers |-> Idle]
  /\ closer' = "gathering"

\* Mutant: aclose() cancels the dispatchers without draining the lane.
DrainSkipped(log) ==
  /\ handled' = log
  /\ UNCHANGED queue
  /\ StopDispatchers

\* Mutant: the drain takes the whole backlog off the lane before it delivers.
DrainTakesAll(log) ==
  LET q    == queue["lossless"]
      hs   == subs["lossless"]
      rest == AfterPrefix(hs)
  IN  /\ queue' = [queue EXCEPT !["lossless"] = <<>>]
      /\ IF q = <<>> \/ rest = <<>>
         THEN /\ handled' = Completed(log, hs, Len(hs), q)
              /\ StopDispatchers
         ELSE /\ handled' = Completed(log, hs, SyncPrefix(hs), <<Head(q)>>)
              /\ frame' = [frame EXCEPT !["aclose"] = [ev |-> Head(q), left |-> rest]]
              /\ closer' = "draining"
              /\ UNCHANGED task

\* The drain loop from one suspension to the next.  With no async handler
\* subscribed it empties the lane without suspending.
DrainOn(log) ==
  LET q    == queue["lossless"]
      hs   == subs["lossless"]
      rest == AfterPrefix(hs)
  IN  IF q = <<>> \/ rest = <<>>
      THEN /\ handled' = Completed(log, hs, Len(hs), q)
           /\ queue' = [queue EXCEPT !["lossless"] = <<>>]
           /\ StopDispatchers
      ELSE /\ handled' = Completed(log, hs, SyncPrefix(hs), <<Head(q)>>)
           /\ queue' = [queue EXCEPT !["lossless"] = Tail(@)]
           /\ frame' = [frame EXCEPT !["aclose"] = [ev |-> Head(q), left |-> rest]]
           /\ closer' = "draining"
           /\ UNCHANGED task

Aclose ==
  /\ ~closed
  /\ Bridged
  /\ closed' = TRUE
  /\ DrainOn(handled)
  /\ UNCHANGED <<posted, dropped, subs>>

AcloseResumes ==
  /\ closer = "draining"
  /\ LET f    == frame["aclose"]
         left == Tail(f.left)
         rest == AfterPrefix(left)
         log  == Completed(handled, f.left, 1 + SyncPrefix(left), <<f.ev>>)
     IN  IF rest = <<>>
         THEN DrainOn(log)
         ELSE /\ handled' = log
              /\ frame' = [frame EXCEPT !["aclose"].left = rest]
              /\ UNCHANGED <<queue, task, closer>>
  /\ UNCHANGED <<posted, dropped, subs, closed>>

AcloseReturns ==
  /\ closer = "gathering"
  /\ closer' = "done"
  /\ UNCHANGED <<queue, posted, dropped, subs, task, frame, closed, handled>>

\* The task that runs aclose() is the call's main task; a second hangup or a
\* shutdown cancels it while it is suspended.  In the drain the exception
\* leaves aclose() before the dispatchers are cancelled.
CancelCloser ==
  /\ closer \in {"draining", "gathering"}
  /\ closer' = "cancelled"
  /\ frame' = [frame EXCEPT !["aclose"] = Idle]
  /\ UNCHANGED <<queue, posted, dropped, subs, task, closed, handled>>

-----------------------------------------------------------------------------
Next ==
  \/ \E l \in Lanes : \E h \in HandlersOf[l] : Subscribe(l, h) \/ Unsubscribe(l, h)
  \/ PostLossless
  \/ PostLossy
  \/ Start
  \/ \E l \in Lanes : Dispatch(l) \/ HandlerReturns(l)
  \/ Aclose
  \/ AcloseResumes
  \/ AcloseReturns
  \/ CancelCloser

\* run_session always subscribes its bridges and starts the bus, and the event
\* loop runs every ready task.  Nothing is assumed of aclose(), of the lossy
\* lane or of the handlers on it.
Fairness ==
  /\ \A h \in Bridges : WF_vars(Subscribe("lossless", h))
  /\ WF_vars(Start)
  /\ WF_vars(Dispatch("lossless"))

Spec == Init /\ [][Next]_vars

FairSpec == Spec /\ Fairness

-----------------------------------------------------------------------------
\* Properties.

Upto(n) == [i \in 1..n |-> i]

\* Lossless, in order, exactly once: for every healthy bridge, what it has
\* completed followed by what is still queued is the sequence of events post()
\* accepted on the lossless lane - through the dispatcher, through the drain in
\* aclose(), and however often sibling handlers raise or unsubscribe.  It needs
\* the lossless handlers to be synchronous, as every handler in the engine is.
LosslessExactlyOnce ==
  \A h \in Bridges \ Faulty :
    handled[h] \o queue["lossless"] = Upto(posted["lossless"])

\* What aclose() promises of the lossless lane: once it returns, every event
\* accepted before the close has been handled by every healthy bridge.
DrainedWhenClosed ==
  closer = "done" =>
    \A h \in Bridges \ Faulty : \A e \in 1..posted["lossless"] : InSeq(e, handled[h])

\* The lossy lane holds the newest events, oldest first, and never more than
\* its capacity: drop-oldest, never drop-newest, nothing reordered.
LossyKeepsNewest ==
  /\ Len(queue["lossy"]) <= LossyMax
  /\ \A i \in 1..Len(queue["lossy"]) :
       queue["lossy"][i] = posted["lossy"] - Len(queue["lossy"]) + i

\* With async handlers a close or a cancelled close can cost an event, but only
\* one that a task was inside when it was cancelled: no handler completes an
\* event twice, and at most one accepted event per handler is neither completed
\* nor queued nor in a delivery that still runs.
LossOnlyInFlight ==
  \A h \in Bridges \ Faulty :
    /\ \A i, j \in 1..Len(handled[h]) : handled[h][i] = handled[h][j] => i = j
    /\ Cardinality({e \in 1..posted["lossless"] :
                      /\ ~InSeq(e, handled[h])
                      /\ ~InSeq(e, queue["lossless"])
                      /\ \A t \in {"lossless", "aclose"} : frame[t].ev # e}) <= 1

\* Every event accepted on the lossless lane is eventually handled by every
\* healthy bridge, even when a handler of the lossy lane never returns.
LosslessEventuallyHandled ==
  \A h \in Bridges \ Faulty : \A e \in 1..MaxPosts :
    posted["lossless"] >= e ~> InSeq(e, handled[h])

-----------------------------------------------------------------------------
\* Claims of the repository's comments that are stronger than what the code
\* does: each is violated in this model.

\* The lossless lane delivers to one event's handlers at a time: the dispatcher
\* and the drain are never both inside a handler.
SerializedLane == ~(task["lossless"] = "awaiting" /\ closer = "draining")
=============================================================================
