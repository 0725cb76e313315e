---------------------------- MODULE EdgeLinkProofs ----------------------------
(***************************************************************************)
(* Proofs about EdgeLink, for any edges, streams, calls, devices and queue  *)
(* capacity, with or without a configured edge, and across the server's    *)
(* stop: a reconnecting edge keeps its registration and leaves no stale     *)
(* device mapping behind, and no event of a dialled call misses its binding.*)
(***************************************************************************)
EXTENDS EdgeLink, TLAPS

-----------------------------------------------------------------------------
\* The inductive invariant.

\* A registered stream belongs to the edge it is registered for and has not
\* been deregistered; a reader runs inside its handler.
StreamInv ==
  /\ \A s \in Streams : handler[s] # "new" => edgeOf[s] \in Edges
  /\ \A s \in reading : handler[s] = "open"
  /\ \A e \in Edges : streams[e] # None =>
       edgeOf[streams[e]] = e /\ handler[streams[e]] \in {"open", "ending"}

\* A call on the wire, or with a line, was dialled through the edge it names.
Dialled(c, e) == call[c] \in {"sent", "up", "over"} /\ callEdge[c] = e

FrameInv ==
  \A s \in Streams : \A i \in 1..Len(outbound[s]) :
    outbound[s][i].kind = "dial" =>
      handler[s] # "new" /\ Dialled(outbound[s][i].call, edgeOf[s])

LineInv == \A c \in Calls : line[c] # None => Dialled(c, line[c])

\* A send puts to a stream of the call's edge.
SendInv ==
  \A c \in Calls : call[c] = "sending" =>
    via[c] \in Streams /\ handler[via[c]] # "new" /\ callEdge[c] = edgeOf[via[c]]

\* The call is bound from before its dial is sent until it is over.
BoundInv == \A c \in Calls : call[c] \in {"sending", "sent", "up"} => c \in bound

IInv ==
  /\ TypeOK /\ StreamInv /\ LiveStreamRegistered /\ MappingOwned
  /\ FrameInv /\ LineInv /\ SendInv /\ BoundInv /\ EventsFindTheirCall

-----------------------------------------------------------------------------
\* Frames.

\* The frames of the model and their kinds.
LEMMA FrameKinds ==
  /\ CLOSE \in Frames /\ CLOSE.kind # "dial"
  /\ \A c \in Calls :
       /\ Frame("dial", c) \in Frames /\ Frame("cancel", c) \in Frames
       /\ Frame("dial", c).call = c /\ Frame("cancel", c).kind # "dial"
  /\ \A f \in Frames : f.kind # "close" => f.call \in Calls
BY DEF Frames, Frame, CLOSE

\* What is queued is a frame.
LEMMA QueuedFrame ==
  ASSUME NEW q \in Seq(Frames), NEW i \in 1..Len(q)
  PROVE  q[i] \in Frames
  OBVIOUS

\* What a bounded queue holds after a put.
LEMMA PutFrame ==
  ASSUME NEW q \in Seq(Frames), NEW f \in Frames
  PROVE  /\ Append(q, f) \in Seq(Frames)
         /\ Len(Append(q, f)) = Len(q) + 1
         /\ \A i \in 1..Len(q) : Append(q, f)[i] = q[i]
         /\ Append(q, f)[Len(q) + 1] = f
  OBVIOUS

\* ... and the frames before it keep their places.
LEMMA OlderFrame ==
  ASSUME NEW q \in Seq(Frames), NEW f \in Frames, NEW i \in 1..Len(q)
  PROVE  Append(q, f)[i] = q[i]
  OBVIOUS

\* What it holds after a get.
LEMMA GetFrame ==
  ASSUME NEW q \in Seq(Frames), q # <<>>
  PROVE  /\ Head(q) \in Frames /\ Head(q) = q[1] /\ Len(q) >= 1
         /\ Tail(q) \in Seq(Frames)
         /\ Len(Tail(q)) = Len(q) - 1
         /\ \A i \in 1..Len(Tail(q)) : Tail(q)[i] = q[i + 1]
  OBVIOUS

\* Every step keeps the types.
LEMMA TypePreserved ==
  ASSUME TypeOK, SendInv, [Next]_vars
  PROVE  TypeOK'
<1> USE LinkAssumption, FrameKinds DEF LinkAssumption, TypeOK, streamVars, callVars
<1>1. ASSUME NEW s \in Streams, NEW e \in Edges, Connect(s, e) PROVE TypeOK'
  BY <1>1 DEF Connect, Close
<1>2. ASSUME NEW s \in Streams, Write(s) PROVE TypeOK'
  <2>1. Head(outbound[s]) \in Frames
    BY <1>2, GetFrame DEF Write
  <2>2. outbound' \in [Streams -> Seq(Frames)] 
        /\ \A t \in Streams : Len(outbound'[t]) <= Capacity
    BY <1>2, GetFrame DEF Write
  <2>3. \/ UNCHANGED line
        \/ line' = [line EXCEPT ![Head(outbound[s]).call] = edgeOf[s]]
        \/ line' = [line EXCEPT ![Head(outbound[s]).call] = None]
    BY <1>2 DEF Write
  <2>4. handler' \in [Streams -> {"new", "open", "ending", "gone"}]
        /\ reading' \subseteq Streams
    <3>1. \/ handler' = handler /\ reading' = reading
          \/ handler' = [handler EXCEPT ![s] = "ending"] /\ reading' = reading \ {s}
      BY <1>2 DEF Write, Unwind
    <3>2. QED
      BY <3>1
  <2>5. line' \in [Calls -> Edges \union {None}]
    BY <2>3
  <2>6. QED
    BY <1>2, <2>2, <2>4, <2>5 DEF Write
<1>3. ASSUME NEW s \in Streams, TransportDrops(s) PROVE TypeOK'
  BY <1>3 DEF TransportDrops, Unwind, Close
<1>4. ASSUME NEW s \in Streams, ReaderEnds(s) PROVE TypeOK'
  BY <1>4 DEF ReaderEnds, Close
<1>5. ASSUME NEW s \in Streams, Deregister(s) PROVE TypeOK'
  BY <1>5, Zenon DEF Deregister
<1>6. ASSUME NEW s \in Streams, NEW d \in Devices, Heartbeat(s, d) PROVE TypeOK'
  BY <1>6 DEF Heartbeat
<1>7. ASSUME NEW s \in Streams, NEW c \in Calls, RemoteHangup(s, c) PROVE TypeOK'
  BY <1>7 DEF RemoteHangup
<1>8. ASSUME NEW c \in Calls, JoinRtc(c) PROVE TypeOK'
  BY <1>8 DEF JoinRtc
<1>9. ASSUME NEW c \in Calls, NoEdgeForDevice(c) PROVE TypeOK'
  BY <1>9 DEF NoEdgeForDevice
<1>10. ASSUME NEW c \in Calls, Resolve(c) PROVE TypeOK'
  <2>1. TargetEdge(c) \in Edges
    BY <1>10 DEF Resolve, Registers, TargetEdge
  <2>2. CASE Reachable(TargetEdge(c))
    <3>1. streams[TargetEdge(c)] \in Streams
      BY <2>1, <2>2 DEF Reachable
    <3>2. /\ callEdge' = [callEdge EXCEPT ![c] = TargetEdge(c)]
          /\ call' = [call EXCEPT ![c] = "sending"]
          /\ via' = [via EXCEPT ![c] = streams[TargetEdge(c)]]
          /\ bound' = bound \union {c} /\ UNCHANGED <<inRtc, streamVars, line, missed>>
      BY <1>10, <2>2 DEF Resolve, Registers
    <3>3. QED
      BY <2>1, <3>1, <3>2
  <2>3. CASE ~Reachable(TargetEdge(c))
    <3>1. /\ callEdge' = [callEdge EXCEPT ![c] = TargetEdge(c)]
          /\ call' = [call EXCEPT ![c] = "failed"]
          /\ via' = [via EXCEPT ![c] = None]
          /\ bound' = bound \ {c} /\ inRtc' = inRtc \ {c}
          /\ UNCHANGED <<streamVars, line, missed>>
      BY <1>10, <2>3 DEF Resolve, DialFails
    <3>2. QED
      BY <2>1, <3>1
  <2>4. QED
    BY <2>2, <2>3
<1>11. ASSUME NEW c \in Calls, Sent(c) PROVE TypeOK'
  <2>1. outbound' \in [Streams -> Seq(Frames)] 
        /\ \A t \in Streams : Len(outbound'[t]) <= Capacity
    BY <1>11, PutFrame DEF Sent, SendInv
  <2>2. QED
    BY <1>11, <2>1 DEF Sent
<1>12. ASSUME NEW c \in Calls, SendTimeout(c) PROVE TypeOK'
  BY <1>12 DEF SendTimeout, DialFails
<1>13. ASSUME NEW c \in Calls, HangUp(c) PROVE TypeOK'
  BY <1>13 DEF HangUp
<1>14. ASSUME NEW c \in Calls, RunEnds(c) PROVE TypeOK'
  BY <1>14 DEF RunEnds
<1>15. CASE UNCHANGED vars
  BY <1>15 DEF vars
<1>16. ASSUME NEW c \in Calls, DialReturns(c) PROVE TypeOK'
  BY <1>16 DEF DialReturns, Registers
<1>17. CASE StopServer
  BY <1>17 DEF StopServer, Close
<1>18. CASE GraceEnds
  BY <1>18 DEF GraceEnds, Close
<1>19. QED
  BY <1>1, <1>2, <1>3, <1>4, <1>5, <1>6, <1>7, <1>8, <1>9, <1>10, <1>11, <1>12, <1>13,
      <1>14, <1>15, <1>16, <1>17, <1>18, Zenon DEF Next, StreamStep, CallStep

\* Every step keeps the registry.
LEMMA StreamPreserved ==
  ASSUME TypeOK, StreamInv, [Next]_vars
  PROVE  StreamInv'
<1> USE LinkAssumption DEF LinkAssumption, StreamInv, streamVars, callVars
<1>0. /\ handler \in [Streams -> {"new", "open", "ending", "gone"}]
      /\ edgeOf \in [Streams -> Edges \union {None}]
      /\ reading \subseteq Streams
      /\ streams \in [Edges -> Streams \union {None}]
  BY DEF TypeOK
<1> USE <1>0
<1>1. ASSUME NEW s \in Streams, NEW e \in Edges, Connect(s, e) PROVE StreamInv'
  BY <1>1 DEF Connect, Close
<1>2. ASSUME NEW s \in Streams, Write(s) PROVE StreamInv'
  <2>1. UNCHANGED <<edgeOf, streams>> /\ handler[s] = "open"
    BY <1>2 DEF Write
  <2>2. UNCHANGED <<handler, reading>>
        \/ (handler' = [handler EXCEPT ![s] = "ending"] /\ reading' = reading \ {s})
    BY <1>2 DEF Write, Unwind
  <2>3. CASE UNCHANGED <<handler, reading>>
    BY <2>1, <2>3
  <2>4. CASE handler' = [handler EXCEPT ![s] = "ending"] /\ reading' = reading \ {s}
    <3>1. \A t \in Streams : handler'[t] = IF t = s THEN "ending" ELSE handler[t]
      BY <2>4
    <3>2. QED
      BY <2>1, <2>4, <3>1
  <2>5. QED
    BY <2>2, <2>3, <2>4
<1>3. ASSUME NEW s \in Streams, TransportDrops(s) PROVE StreamInv'
  BY <1>3 DEF TransportDrops, Unwind, Close
<1>4. ASSUME NEW s \in Streams, ReaderEnds(s) PROVE StreamInv'
  BY <1>4 DEF ReaderEnds, Close
<1>5. ASSUME NEW s \in Streams, Deregister(s) PROVE StreamInv'
  BY <1>5 DEF Deregister
<1>6. ASSUME NEW s \in Streams, NEW d \in Devices, Heartbeat(s, d) PROVE StreamInv'
  BY <1>6 DEF Heartbeat
<1>7. ASSUME NEW s \in Streams, NEW c \in Calls, RemoteHangup(s, c) PROVE StreamInv'
  BY <1>7 DEF RemoteHangup
<1>8. ASSUME NEW c \in Calls, JoinRtc(c) PROVE StreamInv'
  BY <1>8 DEF JoinRtc
<1>9. ASSUME NEW c \in Calls, NoEdgeForDevice(c) PROVE StreamInv'
  BY <1>9 DEF NoEdgeForDevice
<1>10. ASSUME NEW c \in Calls, Resolve(c) PROVE StreamInv'
  BY <1>10 DEF Resolve, Registers, Reachable, DialFails
<1>11. ASSUME NEW c \in Calls, Sent(c) PROVE StreamInv'
  BY <1>11 DEF Sent
<1>12. ASSUME NEW c \in Calls, SendTimeout(c) PROVE StreamInv'
  BY <1>12 DEF SendTimeout, DialFails
<1>13. ASSUME NEW c \in Calls, HangUp(c) PROVE StreamInv'
  BY <1>13 DEF HangUp
<1>14. ASSUME NEW c \in Calls, RunEnds(c) PROVE StreamInv'
  BY <1>14 DEF RunEnds
<1>15. CASE UNCHANGED vars
  BY <1>15 DEF vars
<1>16. ASSUME NEW c \in Calls, DialReturns(c) PROVE StreamInv'
  BY <1>16 DEF DialReturns, Registers
<1>17. CASE StopServer
  BY <1>17 DEF StopServer, Close
<1>18. CASE GraceEnds
  BY <1>18 DEF GraceEnds, Close
<1>19. QED
  BY <1>1, <1>2, <1>3, <1>4, <1>5, <1>6, <1>7, <1>8, <1>9, <1>10, <1>11, <1>12, <1>13,
      <1>14, <1>15, <1>16, <1>17, <1>18, Zenon DEF Next, StreamStep, CallStep

\* The unclosed stream of an edge stays the registered one.
LEMMA RegisteredPreserved ==
  ASSUME TypeOK, StreamInv, LiveStreamRegistered, [Next]_vars
  PROVE  LiveStreamRegistered'
<1> USE LinkAssumption DEF LinkAssumption, StreamInv, LiveStreamRegistered,
    streamVars, callVars
<1>0. /\ handler \in [Streams -> {"new", "open", "ending", "gone"}]
      /\ edgeOf \in [Streams -> Edges \union {None}]
      /\ closed \in [Streams -> BOOLEAN]
      /\ streams \in [Edges -> Streams \union {None}]
  BY DEF TypeOK
<1> USE <1>0
<1>1. ASSUME NEW s \in Streams, NEW e \in Edges, Connect(s, e) PROVE
    LiveStreamRegistered'
  <2> SUFFICES ASSUME NEW t \in Streams, handler'[t] = "open", ~closed'[t]
               PROVE  streams'[edgeOf'[t]] = t
    BY DEF LiveStreamRegistered
  <2>1. CASE t = s
    BY <1>1, <2>1 DEF Connect
  <2>2. CASE t # s
    <3>1. handler[t] = "open" /\ ~closed[t] /\ edgeOf'[t] = edgeOf[t]
      BY <1>1, <2>2 DEF Connect, Close
    <3>2. streams[edgeOf[t]] = t /\ edgeOf[t] \in Edges
      BY <3>1
    <3>3. edgeOf[t] # e
      <4>1. closed' = [x \in Streams |-> closed[x] \/ x \in {streams[e]} \ {None}]
        BY <1>1 DEF Connect, Close
      <4>2. t # None
        OBVIOUS
      <4>3. t = streams[e] => closed'[t]
        BY <4>1, <4>2, Zenon
      <4>4. QED
        BY <3>1, <3>2, <4>3
    <3>4. QED
      BY <1>1, <3>1, <3>2, <3>3 DEF Connect
  <2>3. QED
    BY <2>1, <2>2
<1>2. ASSUME NEW s \in Streams, Write(s) PROVE LiveStreamRegistered'
  <2>1. UNCHANGED <<edgeOf, closed, streams, deviceTo>> /\ handler[s] = "open"
    BY <1>2 DEF Write
  <2>2. UNCHANGED handler \/ handler' = [handler EXCEPT ![s] = "ending"]
    BY <1>2 DEF Write, Unwind
  <2>3. QED
    BY <2>1, <2>2
<1>3. ASSUME NEW s \in Streams, TransportDrops(s) PROVE LiveStreamRegistered'
  BY <1>3 DEF TransportDrops, Unwind, Close
<1>4. ASSUME NEW s \in Streams, ReaderEnds(s) PROVE LiveStreamRegistered'
  BY <1>4 DEF ReaderEnds, Close
<1>5. ASSUME NEW s \in Streams, Deregister(s) PROVE LiveStreamRegistered'
  BY <1>5 DEF Deregister
<1>6. ASSUME NEW s \in Streams, NEW d \in Devices, Heartbeat(s, d) PROVE
    LiveStreamRegistered'
  BY <1>6 DEF Heartbeat
<1>7. ASSUME NEW s \in Streams, NEW c \in Calls, RemoteHangup(s, c) PROVE
    LiveStreamRegistered'
  BY <1>7 DEF RemoteHangup
<1>8. ASSUME NEW c \in Calls, JoinRtc(c) PROVE LiveStreamRegistered'
  BY <1>8 DEF JoinRtc
<1>9. ASSUME NEW c \in Calls, NoEdgeForDevice(c) PROVE LiveStreamRegistered'
  BY <1>9 DEF NoEdgeForDevice
<1>10. ASSUME NEW c \in Calls, Resolve(c) PROVE LiveStreamRegistered'
  BY <1>10 DEF Resolve, Registers, Reachable, DialFails
<1>11. ASSUME NEW c \in Calls, Sent(c) PROVE LiveStreamRegistered'
  BY <1>11 DEF Sent
<1>12. ASSUME NEW c \in Calls, SendTimeout(c) PROVE LiveStreamRegistered'
  BY <1>12 DEF SendTimeout, DialFails
<1>13. ASSUME NEW c \in Calls, HangUp(c) PROVE LiveStreamRegistered'
  BY <1>13 DEF HangUp
<1>14. ASSUME NEW c \in Calls, RunEnds(c) PROVE LiveStreamRegistered'
  BY <1>14 DEF RunEnds
<1>15. CASE UNCHANGED vars
  BY <1>15 DEF vars
<1>16. ASSUME NEW c \in Calls, DialReturns(c) PROVE LiveStreamRegistered'
  BY <1>16 DEF DialReturns, Registers
<1>17. CASE StopServer
  BY <1>17 DEF StopServer, Close
<1>18. CASE GraceEnds
  BY <1>18 DEF GraceEnds, Close
<1>19. QED
  BY <1>1, <1>2, <1>3, <1>4, <1>5, <1>6, <1>7, <1>8, <1>9, <1>10, <1>11, <1>12, <1>13,
      <1>14, <1>15, <1>16, <1>17, <1>18, Zenon DEF Next, StreamStep, CallStep

\* Every mapping keeps a handler that will clear it.
LEMMA MappingPreserved ==
  ASSUME TypeOK, StreamInv, MappingOwned, [Next]_vars
  PROVE  MappingOwned'
<1> USE LinkAssumption DEF LinkAssumption, StreamInv, MappingOwned, streamVars,
    callVars
<1>0. /\ handler \in [Streams -> {"new", "open", "ending", "gone"}]
      /\ edgeOf \in [Streams -> Edges \union {None}]
      /\ reading \subseteq Streams
      /\ streams \in [Edges -> Streams \union {None}]
      /\ deviceTo \in [Devices -> Edges \union {None}]
  BY DEF TypeOK
<1> USE <1>0
<1>1. ASSUME NEW s \in Streams, NEW e \in Edges, Connect(s, e) PROVE MappingOwned'
  BY <1>1 DEF Connect, Close
<1>2. ASSUME NEW s \in Streams, Write(s) PROVE MappingOwned'
  <2>1. UNCHANGED <<edgeOf, closed, streams, deviceTo>> /\ handler[s] = "open"
    BY <1>2 DEF Write
  <2>2. UNCHANGED handler \/ handler' = [handler EXCEPT ![s] = "ending"]
    BY <1>2 DEF Write, Unwind
  <2>3. QED
    BY <2>1, <2>2
<1>3. ASSUME NEW s \in Streams, TransportDrops(s) PROVE MappingOwned'
  BY <1>3 DEF TransportDrops, Unwind, Close
<1>4. ASSUME NEW s \in Streams, ReaderEnds(s) PROVE MappingOwned'
  BY <1>4 DEF ReaderEnds, Close
<1>5. ASSUME NEW s \in Streams, Deregister(s) PROVE MappingOwned'
  <2> SUFFICES ASSUME NEW d \in Devices, deviceTo'[d] # None
               PROVE  \E t \in Streams : edgeOf'[t] = deviceTo'[d]
                                        /\ handler'[t] \in {"open", "ending"}
    BY DEF MappingOwned
  <2>1. deviceTo'[d] = deviceTo[d] /\ UNCHANGED edgeOf
    BY <1>5 DEF Deregister
  <2>2. PICK t \in Streams : edgeOf[t] = deviceTo[d] /\ handler[t] \in {"open", "ending"}
    BY <2>1
  <2>3. CASE t # s
    BY <1>5, <2>1, <2>2, <2>3 DEF Deregister
  <2>4. CASE t = s
    <3>1. edgeOf[s] \in Edges
      BY <1>5 DEF Deregister
    <3>2. streams'[edgeOf[s]] # None /\ streams'[edgeOf[s]] = streams[edgeOf[s]]
          /\ streams[edgeOf[s]] # s
      BY <1>5, <2>1, <2>2, <2>4, <3>1 DEF Deregister
    <3>3. QED
      BY <1>5, <2>1, <2>2, <2>4, <3>1, <3>2 DEF Deregister
  <2>5. QED
    BY <2>3, <2>4
<1>6. ASSUME NEW s \in Streams, NEW d \in Devices, Heartbeat(s, d) PROVE MappingOwned'
  BY <1>6 DEF Heartbeat
<1>7. ASSUME NEW s \in Streams, NEW c \in Calls, RemoteHangup(s, c) PROVE
    MappingOwned'
  BY <1>7 DEF RemoteHangup
<1>8. ASSUME NEW c \in Calls, JoinRtc(c) PROVE MappingOwned'
  BY <1>8 DEF JoinRtc
<1>9. ASSUME NEW c \in Calls, NoEdgeForDevice(c) PROVE MappingOwned'
  BY <1>9 DEF NoEdgeForDevice
<1>10. ASSUME NEW c \in Calls, Resolve(c) PROVE MappingOwned'
  BY <1>10 DEF Resolve, Registers, Reachable, DialFails
<1>11. ASSUME NEW c \in Calls, Sent(c) PROVE MappingOwned'
  BY <1>11 DEF Sent
<1>12. ASSUME NEW c \in Calls, SendTimeout(c) PROVE MappingOwned'
  BY <1>12 DEF SendTimeout, DialFails
<1>13. ASSUME NEW c \in Calls, HangUp(c) PROVE MappingOwned'
  BY <1>13 DEF HangUp
<1>14. ASSUME NEW c \in Calls, RunEnds(c) PROVE MappingOwned'
  BY <1>14 DEF RunEnds
<1>15. CASE UNCHANGED vars
  BY <1>15 DEF vars
<1>16. ASSUME NEW c \in Calls, DialReturns(c) PROVE MappingOwned'
  BY <1>16 DEF DialReturns, Registers
<1>17. CASE StopServer
  BY <1>17 DEF StopServer, Close
<1>18. CASE GraceEnds
  BY <1>18 DEF GraceEnds, Close
<1>19. QED
  BY <1>1, <1>2, <1>3, <1>4, <1>5, <1>6, <1>7, <1>8, <1>9, <1>10, <1>11, <1>12, <1>13,
      <1>14, <1>15, <1>16, <1>17, <1>18, Zenon DEF Next, StreamStep, CallStep

\* A call that was dialled through an edge stays so.
LEMMA DialledStable ==
  ASSUME TypeOK, [Next]_vars, NEW t \in Streams, NEW k \in Calls,
         handler[t] # "new", Dialled(k, edgeOf[t])
  PROVE  handler'[t] # "new" /\ Dialled(k, edgeOf[t])'
<1> USE LinkAssumption DEF LinkAssumption, Dialled, streamVars, callVars
<1>0. /\ handler \in [Streams -> {"new", "open", "ending", "gone"}]
      /\ edgeOf \in [Streams -> Edges \union {None}]
      /\ call \in [Calls -> {"new", "joined", "sending", "sent", "up", "failed", "over"}]
      /\ callEdge \in [Calls -> Edges \union {None}]
      /\ via \in [Calls -> Streams \union {None}]
  BY DEF TypeOK
<1> USE <1>0
<1>1. ASSUME NEW s \in Streams, NEW e \in Edges, Connect(s, e) PROVE handler'[t] #
    "new" /\ Dialled(k, edgeOf[t])'
  BY <1>1 DEF Connect, Close
<1>2. ASSUME NEW s \in Streams, Write(s) PROVE handler'[t] # "new" /\ Dialled(k,
    edgeOf[t])'
  <2>1. UNCHANGED <<edgeOf, call, callEdge>>
    BY <1>2, Zenon DEF Write
  <2>2. handler'[t] # "new"
    BY <1>2 DEF Write, Unwind
  <2>3. QED
    BY <2>1, <2>2
<1>3. ASSUME NEW s \in Streams, TransportDrops(s) PROVE handler'[t] # "new" /\
    Dialled(k, edgeOf[t])'
  BY <1>3 DEF TransportDrops, Unwind, Close
<1>4. ASSUME NEW s \in Streams, ReaderEnds(s) PROVE handler'[t] # "new" /\ Dialled(k,
    edgeOf[t])'
  BY <1>4 DEF ReaderEnds, Close
<1>5. ASSUME NEW s \in Streams, Deregister(s) PROVE handler'[t] # "new" /\ Dialled(k,
    edgeOf[t])'
  BY <1>5 DEF Deregister
<1>6. ASSUME NEW s \in Streams, NEW d \in Devices, Heartbeat(s, d) PROVE handler'[t] #
    "new" /\ Dialled(k, edgeOf[t])'
  BY <1>6 DEF Heartbeat
<1>7. ASSUME NEW s \in Streams, NEW c \in Calls, RemoteHangup(s, c) PROVE handler'[t]
    # "new" /\ Dialled(k, edgeOf[t])'
  BY <1>7 DEF RemoteHangup
<1>8. ASSUME NEW c \in Calls, JoinRtc(c) PROVE handler'[t] # "new" /\ Dialled(k,
    edgeOf[t])'
  BY <1>8 DEF JoinRtc
<1>9. ASSUME NEW c \in Calls, NoEdgeForDevice(c) PROVE handler'[t] # "new" /\
    Dialled(k, edgeOf[t])'
  BY <1>9 DEF NoEdgeForDevice
<1>10. ASSUME NEW c \in Calls, Resolve(c) PROVE handler'[t] # "new" /\ Dialled(k,
    edgeOf[t])'
  BY <1>10 DEF Resolve, Registers, Reachable, DialFails
<1>11. ASSUME NEW c \in Calls, Sent(c) PROVE handler'[t] # "new" /\ Dialled(k,
    edgeOf[t])'
  BY <1>11 DEF Sent
<1>12. ASSUME NEW c \in Calls, SendTimeout(c) PROVE handler'[t] # "new" /\ Dialled(k,
    edgeOf[t])'
  BY <1>12 DEF SendTimeout, DialFails
<1>13. ASSUME NEW c \in Calls, HangUp(c) PROVE handler'[t] # "new" /\ Dialled(k,
    edgeOf[t])'
  BY <1>13 DEF HangUp
<1>14. ASSUME NEW c \in Calls, RunEnds(c) PROVE handler'[t] # "new" /\ Dialled(k,
    edgeOf[t])'
  BY <1>14 DEF RunEnds
<1>15. CASE UNCHANGED vars
  BY <1>15 DEF vars
<1>16. ASSUME NEW c \in Calls, DialReturns(c) PROVE handler'[t] # "new" /\ Dialled(k,
    edgeOf[t])'
  BY <1>16 DEF DialReturns, Registers
<1>17. CASE StopServer
  BY <1>17 DEF StopServer, Close
<1>18. CASE GraceEnds
  BY <1>18 DEF GraceEnds, Close
<1>19. QED
  BY <1>1, <1>2, <1>3, <1>4, <1>5, <1>6, <1>7, <1>8, <1>9, <1>10, <1>11, <1>12, <1>13,
      <1>14, <1>15, <1>16, <1>17, <1>18, Zenon DEF Next, StreamStep, CallStep

\* A dial in a queue after a step was there before, or is of a call that the
\* step dialled through the edge of that stream.
Known(t, i) ==
  \/ \E j \in 1..Len(outbound[t]) : outbound[t][j] = outbound'[t][i]
  \/ handler'[t] # "new" /\ Dialled(outbound[t][i].call, edgeOf[t])'


\* No other dial appears.
LEMMA DialsKnown ==
  ASSUME TypeOK, SendInv, [Next]_vars, NEW t \in Streams,
         NEW i \in 1..Len(outbound'[t]),        outbound'[t][i].kind = "dial"
  PROVE  Known(t, i)
<1> USE LinkAssumption DEF LinkAssumption, streamVars, callVars
<1>0. /\ outbound \in [Streams -> Seq(Frames)]
      /\ handler \in [Streams -> {"new", "open", "ending", "gone"}]
      /\ edgeOf \in [Streams -> Edges \union {None}]
      /\ call \in [Calls -> {"new", "joined", "sending", "sent", "up", "failed", "over"}]
      /\ callEdge \in [Calls -> Edges \union {None}]
      /\ via \in [Calls -> Streams \union {None}]
  BY DEF TypeOK
<1> USE <1>0
<1>1. ASSUME NEW s \in Streams, NEW e \in Edges, Connect(s, e) PROVE Known(t, i)
  <2>1. outbound'[t] \in {outbound[t], Append(outbound[t], CLOSE)}
    BY <1>1 DEF Connect, Close
  <2>2. CASE outbound'[t] = outbound[t]
    BY <2>2 DEF Known
  <2>3. CASE outbound'[t] = Append(outbound[t], CLOSE)
    <3>1. CLOSE \in Frames /\ CLOSE.kind # "dial" /\ outbound[t] \in Seq(Frames)
      BY FrameKinds
    <3>2. i \in 1..Len(outbound[t]) /\ outbound'[t][i] = outbound[t][i]
      BY <2>3, <3>1, PutFrame
    <3>3. QED
      BY <3>2 DEF Known
  <2>4. QED
    BY <2>1, <2>2, <2>3
<1>2. ASSUME NEW s \in Streams, Write(s) PROVE Known(t, i)
  <2>1. CASE t # s
    <3>1. outbound'[t] = outbound[t]
      BY <1>2, <2>1 DEF Write
    <3>2. QED
      BY <3>1 DEF Known
  <2>2. CASE t = s
    <3>1. outbound[t] # <<>> /\ outbound'[t] = Tail(outbound[t])
      BY <1>2, <2>2 DEF Write
    <3>2. outbound[t] \in Seq(Frames)
      OBVIOUS
    <3>3. i + 1 \in 1..Len(outbound[t]) /\ outbound[t][i + 1] = outbound'[t][i]
      <4>1. QED
        BY <3>1, <3>2, GetFrame
    <3>4. QED
      BY <3>3, Zenon DEF Known
  <2>3. QED
    BY <2>1, <2>2
<1>3. ASSUME NEW s \in Streams, TransportDrops(s) PROVE Known(t, i)
  <2>1. outbound'[t] \in {outbound[t], Append(outbound[t], CLOSE)}
    BY <1>3 DEF TransportDrops, Close
  <2>2. CASE outbound'[t] = outbound[t]
    BY <2>2 DEF Known
  <2>3. CASE outbound'[t] = Append(outbound[t], CLOSE)
    <3>1. CLOSE \in Frames /\ CLOSE.kind # "dial" /\ outbound[t] \in Seq(Frames)
      BY FrameKinds
    <3>2. i \in 1..Len(outbound[t]) /\ outbound'[t][i] = outbound[t][i]
      BY <2>3, <3>1, PutFrame
    <3>3. QED
      BY <3>2 DEF Known
  <2>4. QED
    BY <2>1, <2>2, <2>3
<1>4. ASSUME NEW s \in Streams, ReaderEnds(s) PROVE Known(t, i)
  <2>1. outbound'[t] \in {outbound[t], Append(outbound[t], CLOSE)}
    BY <1>4 DEF ReaderEnds, Close
  <2>2. CASE outbound'[t] = outbound[t]
    BY <2>2 DEF Known
  <2>3. CASE outbound'[t] = Append(outbound[t], CLOSE)
    <3>1. CLOSE \in Frames /\ CLOSE.kind # "dial" /\ outbound[t] \in Seq(Frames)
      BY FrameKinds
    <3>2. i \in 1..Len(outbound[t]) /\ outbound'[t][i] = outbound[t][i]
      BY <2>3, <3>1, PutFrame
    <3>3. QED
      BY <3>2 DEF Known
  <2>4. QED
    BY <2>1, <2>2, <2>3
<1>5. ASSUME NEW s \in Streams, Deregister(s) PROVE Known(t, i)
  <2>1. outbound' = outbound
    BY <1>5 DEF Deregister
  <2>2. QED
    BY <2>1 DEF Known
<1>6. ASSUME NEW s \in Streams, NEW d \in Devices, Heartbeat(s, d) PROVE Known(t, i)
  <2>1. outbound' = outbound
    BY <1>6 DEF Heartbeat
  <2>2. QED
    BY <2>1 DEF Known
<1>7. ASSUME NEW s \in Streams, NEW c \in Calls, RemoteHangup(s, c) PROVE Known(t, i)
  <2>1. outbound' = outbound
    BY <1>7 DEF RemoteHangup
  <2>2. QED
    BY <2>1 DEF Known
<1>8. ASSUME NEW c \in Calls, JoinRtc(c) PROVE Known(t, i)
  <2>1. outbound' = outbound
    BY <1>8, Zenon DEF JoinRtc
  <2>2. QED
    BY <2>1, Zenon DEF Known
<1>9. ASSUME NEW c \in Calls, NoEdgeForDevice(c) PROVE Known(t, i)
  <2>1. outbound' = outbound
    BY <1>9 DEF NoEdgeForDevice
  <2>2. QED
    BY <2>1 DEF Known
<1>10. ASSUME NEW c \in Calls, Resolve(c) PROVE Known(t, i)
  <2>1. outbound' = outbound
    BY <1>10 DEF Resolve
  <2>2. QED
    BY <2>1 DEF Known
<1>11. ASSUME NEW c \in Calls, Sent(c) PROVE Known(t, i)
  <2>1. CASE t # via[c]
    <3>1. outbound'[t] = outbound[t]
      BY <1>11, <2>1 DEF Sent
    <3>2. QED
      BY <3>1 DEF Known
  <2>2. CASE t = via[c]
    <3>1. outbound'[t] = Append(outbound[t], Frame("dial", c))
      BY <1>11, <2>2 DEF Sent
    <3>2. CASE i \in 1..Len(outbound[t])
      <4>1. outbound[t] \in Seq(Frames) /\ Frame("dial", c) \in Frames
        BY FrameKinds
      <4>2. Append(outbound[t], Frame("dial", c))[i] = outbound[t][i]
        BY <3>2, <4>1, OlderFrame
      <4>3. QED
        BY <3>1, <3>2, <4>2 DEF Known
    <3>3. CASE i = Len(outbound[t]) + 1
      <4>1. outbound'[t][i].call = c
        <5>1. outbound[t] \in Seq(Frames)
          OBVIOUS
        <5>2. Frame("dial", c) \in Frames
          BY FrameKinds
        <5>3. Append(outbound[t], Frame("dial", c))[Len(outbound[t]) + 1] = Frame("dial", c)
          BY <5>1, <5>2, PutFrame
        <5>4. outbound'[t][i] = Frame("dial", c)
          BY <3>1, <3>3, <5>3
        <5>5. QED
          BY <5>4, FrameKinds
      <4>2. handler'[t] # "new" /\ call'[c] = "sent" /\ callEdge'[c] = edgeOf'[t]
        BY <1>11, <2>2 DEF Sent, SendInv
      <4>3. QED
        BY <4>1, <4>2 DEF Known, Dialled
    <3>4. i \in 1..(Len(outbound[t]) + 1)
      <4>1. outbound[t] \in Seq(Frames) /\ Frame("dial", c) \in Frames
        BY FrameKinds
      <4>2. QED
        BY <3>1, <4>1, PutFrame
    <3>5. QED
      BY <3>2, <3>3, <3>4
  <2>3. QED
    BY <2>1, <2>2
<1>12. ASSUME NEW c \in Calls, SendTimeout(c) PROVE Known(t, i)
  <2>1. outbound' = outbound
    BY <1>12 DEF SendTimeout
  <2>2. QED
    BY <2>1 DEF Known
<1>13. ASSUME NEW c \in Calls, HangUp(c) PROVE Known(t, i)
  <2>1. outbound'[t] \in {outbound[t], Append(outbound[t], Frame("cancel", c))}
    BY <1>13 DEF HangUp
  <2>2. CASE outbound'[t] = outbound[t]
    BY <2>2 DEF Known
  <2>3. CASE outbound'[t] = Append(outbound[t], Frame("cancel", c))
    <3>1. /\ Frame("cancel", c) \in Frames /\ Frame("cancel", c).kind # "dial"
          /\ outbound[t] \in Seq(Frames)
      BY FrameKinds
    <3>2. i \in 1..Len(outbound[t]) /\ outbound'[t][i] = outbound[t][i]
      BY <2>3, <3>1, PutFrame
    <3>3. QED
      BY <3>2 DEF Known
  <2>4. QED
    BY <2>1, <2>2, <2>3
<1>14. ASSUME NEW c \in Calls, RunEnds(c) PROVE Known(t, i)
  <2>1. outbound' = outbound
    BY <1>14 DEF RunEnds
  <2>2. QED
    BY <2>1 DEF Known
<1>15. CASE UNCHANGED vars
  <2>1. outbound' = outbound
    BY <1>15 DEF vars
  <2>2. QED
    BY <2>1 DEF Known
<1>16. ASSUME NEW c \in Calls, DialReturns(c) PROVE Known(t, i)
  <2>1. outbound' = outbound
    BY <1>16 DEF DialReturns
  <2>2. QED
    BY <2>1 DEF Known
<1>17. CASE StopServer
  <2>1. outbound'[t] \in {outbound[t], Append(outbound[t], CLOSE)}
    BY <1>17 DEF StopServer, Close
  <2>2. CASE outbound'[t] = outbound[t]
    BY <2>2 DEF Known
  <2>3. CASE outbound'[t] = Append(outbound[t], CLOSE)
    <3>1. CLOSE \in Frames /\ CLOSE.kind # "dial" /\ outbound[t] \in Seq(Frames)
      BY FrameKinds
    <3>2. i \in 1..Len(outbound[t]) /\ outbound'[t][i] = outbound[t][i]
      BY <2>3, <3>1, PutFrame
    <3>3. QED
      BY <3>2 DEF Known
  <2>4. QED
    BY <2>1, <2>2, <2>3
<1>18. CASE GraceEnds
  <2>1. outbound'[t] \in {outbound[t], Append(outbound[t], CLOSE)}
    BY <1>18 DEF GraceEnds, Close
  <2>2. CASE outbound'[t] = outbound[t]
    BY <2>2 DEF Known
  <2>3. CASE outbound'[t] = Append(outbound[t], CLOSE)
    <3>1. CLOSE \in Frames /\ CLOSE.kind # "dial" /\ outbound[t] \in Seq(Frames)
      BY FrameKinds
    <3>2. i \in 1..Len(outbound[t]) /\ outbound'[t][i] = outbound[t][i]
      BY <2>3, <3>1, PutFrame
    <3>3. QED
      BY <3>2 DEF Known
  <2>4. QED
    BY <2>1, <2>2, <2>3
<1>19. QED
  BY <1>1, <1>2, <1>3, <1>4, <1>5, <1>6, <1>7, <1>8, <1>9, <1>10, <1>11, <1>12, <1>13,
      <1>14, <1>15, <1>16, <1>17, <1>18, Zenon DEF Next, StreamStep, CallStep

\* Every dial in a queue is of a call dialled through that stream's edge.
LEMMA FramePreserved ==
  ASSUME TypeOK, SendInv, FrameInv, TypeOK', [Next]_vars
  PROVE  FrameInv'
<1> SUFFICES ASSUME NEW t \in Streams, NEW i \in 1..Len(outbound'[t]),
                    outbound'[t][i].kind = "dial"
             PROVE  handler'[t] # "new" /\ Dialled(outbound[t][i].call, edgeOf[t])'
  BY DEF FrameInv
<1>1. Known(t, i)
  BY DialsKnown
<1>2. CASE handler'[t] # "new" /\ Dialled(outbound[t][i].call, edgeOf[t])'
  BY <1>2
<1>3. ASSUME NEW j \in 1..Len(outbound[t]), outbound[t][j] = outbound'[t][i]
      PROVE  handler'[t] # "new" /\ Dialled(outbound[t][i].call, edgeOf[t])'
  <2>1. outbound[t] \in Seq(Frames)
    BY DEF TypeOK
  <2>2. outbound[t][j] \in Frames
    BY <2>1, QueuedFrame
  <2>3. outbound[t][j].kind = "dial"
    BY <1>3
  <2>4. PICK k \in Calls : k = outbound[t][j].call
    BY <2>2, <2>3, FrameKinds
  <2>5. handler[t] # "new" /\ Dialled(k, edgeOf[t])
    BY <1>3, <2>3, <2>4 DEF FrameInv
  <2>6. handler'[t] # "new" /\ Dialled(k, edgeOf[t])'
    BY <2>5, DialledStable
  <2>7. outbound'[t][i].call = k
    BY <1>3, <2>4
  <2>8. QED
    BY <2>6, <2>7 DEF Dialled
<1>4. QED
  BY <1>1, <1>2, <1>3 DEF Known

\* Every line is that of the edge the call was dialled through.
LEMMA LinePreserved ==
  ASSUME TypeOK, FrameInv, LineInv, [Next]_vars
  PROVE  LineInv'
<1> USE LinkAssumption DEF LinkAssumption, LineInv, Dialled, streamVars, callVars
<1>0. /\ outbound \in [Streams -> Seq(Frames)]
      /\ edgeOf \in [Streams -> Edges \union {None}]
      /\ call \in [Calls -> {"new", "joined", "sending", "sent", "up", "failed", "over"}]
      /\ callEdge \in [Calls -> Edges \union {None}]
      /\ line \in [Calls -> Edges \union {None}]
  BY DEF TypeOK
<1> USE <1>0
<1>1. ASSUME NEW s \in Streams, NEW e \in Edges, Connect(s, e) PROVE LineInv'
  BY <1>1, Zenon DEF Connect, Close
<1>2. ASSUME NEW s \in Streams, Write(s) PROVE LineInv'
  <2> DEFINE f == Head(outbound[s])
  <2>1. UNCHANGED <<call, callEdge>>
    BY <1>2, Zenon DEF Write
  <2>2. f \in Frames /\ f = outbound[s][1] /\ 1 \in 1..Len(outbound[s])
    <3>1. outbound[s] \in Seq(Frames) /\ outbound[s] # <<>>
      BY <1>2 DEF Write
    <3> HIDE DEF LineInv
    <3>2. QED
      BY <3>1, GetFrame
  <2>3. f.kind = "dial" => Dialled(f.call, edgeOf[s]) /\ f.call \in Calls
    <3> HIDE DEF LineInv, Dialled
    <3>1. f.kind = "dial" => Dialled(f.call, edgeOf[s])
      BY <2>2 DEF FrameInv
    <3>2. QED
      BY <2>2, <3>1, FrameKinds
  <2>4. CASE f.kind = "dial" /\ line' = [line EXCEPT ![f.call] = edgeOf[s]]
    BY <2>1, <2>3, <2>4
  <2>5. CASE line' = line
    BY <2>1, <2>5
  <2>6. CASE line' = [line EXCEPT ![f.call] = None]
    BY <2>1, <2>6
  <2>7. QED
    BY <1>2, <2>4, <2>5, <2>6 DEF Write
<1>3. ASSUME NEW s \in Streams, TransportDrops(s) PROVE LineInv'
  BY <1>3, Zenon DEF TransportDrops, Unwind, Close
<1>4. ASSUME NEW s \in Streams, ReaderEnds(s) PROVE LineInv'
  BY <1>4, Zenon DEF ReaderEnds, Close
<1>5. ASSUME NEW s \in Streams, Deregister(s) PROVE LineInv'
  BY <1>5, Zenon DEF Deregister
<1>6. ASSUME NEW s \in Streams, NEW d \in Devices, Heartbeat(s, d) PROVE LineInv'
  BY <1>6 DEF Heartbeat
<1>7. ASSUME NEW s \in Streams, NEW c \in Calls, RemoteHangup(s, c) PROVE LineInv'
  BY <1>7 DEF RemoteHangup
<1>8. ASSUME NEW c \in Calls, JoinRtc(c) PROVE LineInv'
  BY <1>8 DEF JoinRtc
<1>9. ASSUME NEW c \in Calls, NoEdgeForDevice(c) PROVE LineInv'
  BY <1>9 DEF NoEdgeForDevice
<1>10. ASSUME NEW c \in Calls, Resolve(c) PROVE LineInv'
  <2>1. line[c] = None /\ UNCHANGED line
    BY <1>10 DEF Resolve, Registers
  <2>2. \A k \in Calls \ {c} : call'[k] = call[k] /\ callEdge'[k] = callEdge[k]
    BY <1>10, Zenon DEF Resolve, Registers, DialFails
  <2>3. QED
    BY <2>1, <2>2
<1>11. ASSUME NEW c \in Calls, Sent(c) PROVE LineInv'
  BY <1>11 DEF Sent
<1>12. ASSUME NEW c \in Calls, SendTimeout(c) PROVE LineInv'
  BY <1>12 DEF SendTimeout, DialFails
<1>13. ASSUME NEW c \in Calls, HangUp(c) PROVE LineInv'
  BY <1>13, Zenon DEF HangUp
<1>14. ASSUME NEW c \in Calls, RunEnds(c) PROVE LineInv'
  BY <1>14 DEF RunEnds
<1>15. CASE UNCHANGED vars
  BY <1>15 DEF vars
<1>16. ASSUME NEW c \in Calls, DialReturns(c) PROVE LineInv'
  BY <1>16 DEF DialReturns, Registers
<1>17. CASE StopServer
  BY <1>17 DEF StopServer, Close
<1>18. CASE GraceEnds
  BY <1>18 DEF GraceEnds, Close
<1>19. QED
  BY <1>1, <1>2, <1>3, <1>4, <1>5, <1>6, <1>7, <1>8, <1>9, <1>10, <1>11, <1>12, <1>13,
      <1>14, <1>15, <1>16, <1>17, <1>18, Zenon DEF Next, StreamStep, CallStep

\* Every send stays on a stream of its call's edge.
LEMMA SendPreserved ==
  ASSUME TypeOK, StreamInv, SendInv, [Next]_vars
  PROVE  SendInv'
<1> USE LinkAssumption DEF LinkAssumption, SendInv, streamVars, callVars
<1>0. /\ handler \in [Streams -> {"new", "open", "ending", "gone"}]
      /\ edgeOf \in [Streams -> Edges \union {None}]
      /\ streams \in [Edges -> Streams \union {None}]
      /\ deviceTo \in [Devices -> Edges \union {None}]
      /\ call \in [Calls -> {"new", "joined", "sending", "sent", "up", "failed", "over"}]
      /\ callEdge \in [Calls -> Edges \union {None}]
      /\ via \in [Calls -> Streams \union {None}]
  BY DEF TypeOK
<1> USE <1>0
<1>1. ASSUME NEW s \in Streams, NEW e \in Edges, Connect(s, e) PROVE SendInv'
  BY <1>1, Zenon DEF Connect, Close
<1>2. ASSUME NEW s \in Streams, Write(s) PROVE SendInv'
  <2>1. UNCHANGED <<edgeOf, call, via, callEdge>>
    BY <1>2, Zenon DEF Write
  <2>2. \A t \in Streams : handler[t] # "new" => handler'[t] # "new"
    BY <1>2, Zenon DEF Write, Unwind
  <2>3. QED
    BY <2>1, <2>2, Zenon
<1>3. ASSUME NEW s \in Streams, TransportDrops(s) PROVE SendInv'
  BY <1>3, Zenon DEF TransportDrops, Unwind, Close
<1>4. ASSUME NEW s \in Streams, ReaderEnds(s) PROVE SendInv'
  BY <1>4, Zenon DEF ReaderEnds, Close
<1>5. ASSUME NEW s \in Streams, Deregister(s) PROVE SendInv'
  BY <1>5 DEF Deregister
<1>6. ASSUME NEW s \in Streams, NEW d \in Devices, Heartbeat(s, d) PROVE SendInv'
  BY <1>6 DEF Heartbeat
<1>7. ASSUME NEW s \in Streams, NEW c \in Calls, RemoteHangup(s, c) PROVE SendInv'
  BY <1>7 DEF RemoteHangup
<1>8. ASSUME NEW c \in Calls, JoinRtc(c) PROVE SendInv'
  BY <1>8 DEF JoinRtc
<1>9. ASSUME NEW c \in Calls, NoEdgeForDevice(c) PROVE SendInv'
  BY <1>9 DEF NoEdgeForDevice
<1>10. ASSUME NEW c \in Calls, Resolve(c) PROVE SendInv'
  <2>1. TargetEdge(c) \in Edges /\ UNCHANGED <<handler, edgeOf>>
    BY <1>10 DEF Resolve, Registers, TargetEdge
  <2>2. CASE Reachable(TargetEdge(c))
    <3>1. PICK e \in Edges : e = TargetEdge(c)
      BY <2>1
    <3>2. streams[e] \in Streams
      BY <2>2, <3>1 DEF Reachable
    <3>3. handler[streams[e]] # "new" /\ edgeOf[streams[e]] = e
      <4>1. streams[e] # None
        BY <3>2
      <4> HIDE DEF SendInv
      <4>2. QED
        BY <4>1 DEF StreamInv
    <3>4. call'[c] = "sending" /\ via'[c] = streams[e] /\ callEdge'[c] = e
      BY <1>10, <2>2, <3>1 DEF Resolve, Registers
    <3>5. \A k \in Calls \ {c} :
            call'[k] = call[k] /\ via'[k] = via[k] /\ callEdge'[k] = callEdge[k]
      BY <1>10, <2>2 DEF Resolve, Registers
    <3>6. ASSUME NEW k \in Calls \ {c}, call'[k] = "sending"
          PROVE  /\ via'[k] \in Streams /\ handler'[via'[k]] # "new"
                 /\ callEdge'[k] = edgeOf'[via'[k]]
      BY <2>1, <3>5, <3>6
    <3>7. QED
      BY <2>1, <3>2, <3>3, <3>4, <3>6
  <2>3. CASE ~Reachable(TargetEdge(c))
    BY <1>10, <2>1, <2>3 DEF Resolve, Registers, DialFails
  <2>4. QED
    BY <2>2, <2>3
<1>11. ASSUME NEW c \in Calls, Sent(c) PROVE SendInv'
  BY <1>11 DEF Sent
<1>12. ASSUME NEW c \in Calls, SendTimeout(c) PROVE SendInv'
  BY <1>12 DEF SendTimeout, DialFails
<1>13. ASSUME NEW c \in Calls, HangUp(c) PROVE SendInv'
  BY <1>13, Zenon DEF HangUp
<1>14. ASSUME NEW c \in Calls, RunEnds(c) PROVE SendInv'
  BY <1>14 DEF RunEnds
<1>15. CASE UNCHANGED vars
  BY <1>15 DEF vars
<1>16. ASSUME NEW c \in Calls, DialReturns(c) PROVE SendInv'
  BY <1>16 DEF DialReturns, Registers
<1>17. CASE StopServer
  BY <1>17 DEF StopServer, Close
<1>18. CASE GraceEnds
  BY <1>18 DEF GraceEnds, Close
<1>19. QED
  BY <1>1, <1>2, <1>3, <1>4, <1>5, <1>6, <1>7, <1>8, <1>9, <1>10, <1>11, <1>12, <1>13,
      <1>14, <1>15, <1>16, <1>17, <1>18, Zenon DEF Next, StreamStep, CallStep

\* Every call that is up is bound.
LEMMA BoundPreserved ==
  ASSUME TypeOK, BoundInv, [Next]_vars
  PROVE  BoundInv'
<1> USE LinkAssumption DEF LinkAssumption, BoundInv, streamVars, callVars
<1>0. /\ call \in [Calls -> {"new", "joined", "sending", "sent", "up", "failed", "over"}]
      /\ bound \subseteq Calls
  BY DEF TypeOK
<1> USE <1>0
<1>1. ASSUME NEW s \in Streams, NEW e \in Edges, Connect(s, e) PROVE BoundInv'
  BY <1>1 DEF Connect, Close
<1>2. ASSUME NEW s \in Streams, Write(s) PROVE BoundInv'
  BY <1>2 DEF Write, Unwind
<1>3. ASSUME NEW s \in Streams, TransportDrops(s) PROVE BoundInv'
  BY <1>3 DEF TransportDrops, Unwind, Close
<1>4. ASSUME NEW s \in Streams, ReaderEnds(s) PROVE BoundInv'
  BY <1>4 DEF ReaderEnds, Close
<1>5. ASSUME NEW s \in Streams, Deregister(s) PROVE BoundInv'
  BY <1>5 DEF Deregister
<1>6. ASSUME NEW s \in Streams, NEW d \in Devices, Heartbeat(s, d) PROVE BoundInv'
  BY <1>6 DEF Heartbeat
<1>7. ASSUME NEW s \in Streams, NEW c \in Calls, RemoteHangup(s, c) PROVE BoundInv'
  BY <1>7 DEF RemoteHangup
<1>8. ASSUME NEW c \in Calls, JoinRtc(c) PROVE BoundInv'
  BY <1>8 DEF JoinRtc
<1>9. ASSUME NEW c \in Calls, NoEdgeForDevice(c) PROVE BoundInv'
  BY <1>9 DEF NoEdgeForDevice
<1>10. ASSUME NEW c \in Calls, Resolve(c) PROVE BoundInv'
  BY <1>10 DEF Resolve, Registers, Reachable, DialFails
<1>11. ASSUME NEW c \in Calls, Sent(c) PROVE BoundInv'
  BY <1>11 DEF Sent
<1>12. ASSUME NEW c \in Calls, SendTimeout(c) PROVE BoundInv'
  BY <1>12 DEF SendTimeout, DialFails
<1>13. ASSUME NEW c \in Calls, HangUp(c) PROVE BoundInv'
  BY <1>13 DEF HangUp
<1>14. ASSUME NEW c \in Calls, RunEnds(c) PROVE BoundInv'
  BY <1>14 DEF RunEnds
<1>15. CASE UNCHANGED vars
  BY <1>15 DEF vars
<1>16. ASSUME NEW c \in Calls, DialReturns(c) PROVE BoundInv'
  BY <1>16 DEF DialReturns, Registers
<1>17. CASE StopServer
  BY <1>17 DEF StopServer, Close
<1>18. CASE GraceEnds
  BY <1>18 DEF GraceEnds, Close
<1>19. QED
  BY <1>1, <1>2, <1>3, <1>4, <1>5, <1>6, <1>7, <1>8, <1>9, <1>10, <1>11, <1>12, <1>13,
    <1>14, <1>15, <1>16, <1>17, <1>18 DEF Next, StreamStep, CallStep

\* No event misses its call.
LEMMA EventsPreserved ==
  ASSUME TypeOK, StreamInv, LineInv, BoundInv, EventsFindTheirCall, [Next]_vars
  PROVE  EventsFindTheirCall'
<1> USE LinkAssumption DEF LinkAssumption, EventsFindTheirCall, streamVars, callVars
<1>0. /\ handler \in [Streams -> {"new", "open", "ending", "gone"}]
      /\ edgeOf \in [Streams -> Edges \union {None}]
      /\ reading \subseteq Streams
      /\ call \in [Calls -> {"new", "joined", "sending", "sent", "up", "failed", "over"}]
      /\ callEdge \in [Calls -> Edges \union {None}]
      /\ line \in [Calls -> Edges \union {None}]
      /\ bound \subseteq Calls
      /\ missed \subseteq Calls
  BY DEF TypeOK
<1> USE <1>0
<1>1. ASSUME NEW s \in Streams, NEW e \in Edges, Connect(s, e) PROVE
    EventsFindTheirCall'
  BY <1>1, Zenon DEF Connect, Close
<1>2. ASSUME NEW s \in Streams, Write(s) PROVE EventsFindTheirCall'
  BY <1>2 DEF Write, Unwind
<1>3. ASSUME NEW s \in Streams, TransportDrops(s) PROVE EventsFindTheirCall'
  BY <1>3, Zenon DEF TransportDrops, Unwind, Close
<1>4. ASSUME NEW s \in Streams, ReaderEnds(s) PROVE EventsFindTheirCall'
  BY <1>4, Zenon DEF ReaderEnds, Close
<1>5. ASSUME NEW s \in Streams, Deregister(s) PROVE EventsFindTheirCall'
  BY <1>5 DEF Deregister
<1>6. ASSUME NEW s \in Streams, NEW d \in Devices, Heartbeat(s, d) PROVE
    EventsFindTheirCall'
  BY <1>6 DEF Heartbeat
<1>7. ASSUME NEW s \in Streams, NEW c \in Calls, RemoteHangup(s, c) PROVE
    EventsFindTheirCall'
  <2>1. handler[s] = "open" /\ edgeOf[s] \in Edges
    BY <1>7, Zenon DEF RemoteHangup, StreamInv
  <2>2. line[c] # None
    BY <1>7, <2>1 DEF RemoteHangup
  <2>3. callEdge[c] = edgeOf[s]
    BY <1>7, <2>2 DEF RemoteHangup, LineInv, Dialled
  <2>4. call[c] \in {"sent", "up"} => c \in bound
    BY DEF BoundInv
  <2>5. QED
    BY <1>7, <2>3, <2>4 DEF RemoteHangup
<1>8. ASSUME NEW c \in Calls, JoinRtc(c) PROVE EventsFindTheirCall'
  BY <1>8 DEF JoinRtc
<1>9. ASSUME NEW c \in Calls, NoEdgeForDevice(c) PROVE EventsFindTheirCall'
  BY <1>9 DEF NoEdgeForDevice
<1>10. ASSUME NEW c \in Calls, Resolve(c) PROVE EventsFindTheirCall'
  BY <1>10, Zenon DEF Resolve, Registers, Reachable, DialFails
<1>11. ASSUME NEW c \in Calls, Sent(c) PROVE EventsFindTheirCall'
  BY <1>11 DEF Sent
<1>12. ASSUME NEW c \in Calls, SendTimeout(c) PROVE EventsFindTheirCall'
  BY <1>12 DEF SendTimeout, DialFails
<1>13. ASSUME NEW c \in Calls, HangUp(c) PROVE EventsFindTheirCall'
  BY <1>13, Zenon DEF HangUp
<1>14. ASSUME NEW c \in Calls, RunEnds(c) PROVE EventsFindTheirCall'
  BY <1>14 DEF RunEnds
<1>15. CASE UNCHANGED vars
  BY <1>15 DEF vars
<1>16. ASSUME NEW c \in Calls, DialReturns(c) PROVE EventsFindTheirCall'
  BY <1>16 DEF DialReturns, Registers
<1>17. CASE StopServer
  BY <1>17 DEF StopServer, Close
<1>18. CASE GraceEnds
  BY <1>18 DEF GraceEnds, Close
<1>19. QED
  BY <1>1, <1>2, <1>3, <1>4, <1>5, <1>6, <1>7, <1>8, <1>9, <1>10, <1>11, <1>12, <1>13,
    <1>14, <1>15, <1>16, <1>17, <1>18 DEF Next, StreamStep, CallStep

-----------------------------------------------------------------------------
\* The inductive invariant holds in every reachable state.
THEOREM Invariance == Spec => []IInv
<1>1. ASSUME Init PROVE IInv
  <2> USE <1>1, LinkAssumption DEF Init, LinkAssumption
  <2>1. <<>> \in Seq(Frames) /\ Len(<<>>) = 0
    OBVIOUS
  <2>2. TypeOK
    BY <2>1 DEF TypeOK
  <2>3. StreamInv /\ LiveStreamRegistered /\ MappingOwned
    BY DEF StreamInv, LiveStreamRegistered, MappingOwned
  <2>4. FrameInv
    BY <2>1 DEF FrameInv
  <2>5. LineInv /\ SendInv /\ BoundInv /\ EventsFindTheirCall
    BY DEF LineInv, SendInv, BoundInv, EventsFindTheirCall
  <2>6. QED
    BY <2>2, <2>3, <2>4, <2>5 DEF IInv
<1>2. IInv /\ [Next]_vars => IInv'
  BY TypePreserved, StreamPreserved, RegisteredPreserved, MappingPreserved,
     FramePreserved, LinePreserved, SendPreserved, BoundPreserved, EventsPreserved
  DEF IInv
<1>3. QED
  BY <1>1, <1>2, PTL DEF Spec

\* The state of the link keeps its types, and every outbound queue its bound.
THEOREM TypeCorrect == Spec => []TypeOK
<1>1. IInv => TypeOK
  BY DEF IInv
<1>2. QED
  BY <1>1, Invariance, PTL

\* Whatever the order in which the handlers of an edge's old and new stream
\* finish, the unclosed stream is the registered one and every device mapping
\* still has a handler that clears it (_register_stream, _deregister_stream).
THEOREM ReconnectsAreSafe == Spec => []ReconnectSafe
<1>1. IInv => ReconnectSafe
  BY DEF IInv, ReconnectSafe
<1>2. QED
  BY <1>1, Invariance, PTL

\* An event of a call that was put on the wire always finds the binding that
\* dial made before it sent.
THEOREM EventsDelivered == Spec => []EventsFindTheirCall
<1>1. IInv => EventsFindTheirCall
  BY DEF IInv
<1>2. QED
  BY <1>1, Invariance, PTL
=============================================================================
