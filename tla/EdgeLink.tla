------------------------------- MODULE EdgeLink -------------------------------
(***************************************************************************)
(* The control plane between engine and edges: the bidi streams of          *)
(* CloudEdgeGrpcServer with their handler, reader and bounded outbound      *)
(* queue, the device-to-edge mapping, EngineSessionDispatcher, and the      *)
(* calls RtcTelephonyClient dials and tears down through them.              *)
(*                                                                          *)
(* A stream is one bidi RPC; an edge that reconnects opens another one.     *)
(* Authentication that fails changes no state.  The edge (external) acts on *)
(* the frames it is sent: a dialled line stays up until it is cancelled or  *)
(* the remote party hangs up.                                               *)
(***************************************************************************)
EXTENDS Integers, Sequences, FiniteSets

CONSTANTS
  Edges, Streams, Calls, Devices, None,
  Device,     \* the device each call was scheduled on
  LegacyEdge, \* settings.engine_edge_device_id, or None
  Capacity,   \* maxsize of a stream's outbound queue
  Healthy     \* transports never drop

ASSUME LinkAssumption ==
  /\ Device \in [Calls -> Devices]
  /\ LegacyEdge \in Edges \union {None}
  /\ Capacity \in Nat \ {0}
  /\ None \notin Edges \union Streams
  /\ Healthy \in BOOLEAN

VARIABLES
  server,   \* the grpc server
  handler,  \* _handle_bidi of each stream
  edgeOf,   \* its identity
  closed,   \* stream._closed
  outbound, \* stream._outbound
  reading,  \* streams whose _reader_loop runs
  streams,  \* server._streams
  deviceTo, \* server._device_to_edge
  call,     \* what telephony.dial / the call on it is doing
  via,      \* the stream a suspended send_to_edge is putting to
  callEdge, \* state.edge_device_id
  bound,    \* calls in telephony._calls and in the dispatcher's registry
  inRtc,    \* calls whose rtc_session is joined
  line,     \* the edge on which the call's phone line is up
  missed    \* history: calls an event of which found no binding

streamVars == <<server, handler, edgeOf, closed, outbound, reading, streams, deviceTo>>
callVars   == <<call, via, callEdge, bound, inRtc, line, missed>>
vars == <<streamVars, callVars>>

Frame(kind, c) == [kind |-> kind, call |-> c]
CLOSE == Frame("close", None)
Frames == [kind : {"dial", "cancel"}, call : Calls] \union {CLOSE}

TypeOK ==
  /\ server \in {"serving", "stopping", "stopped"}
  /\ handler \in [Streams -> {"new", "open", "ending", "gone"}]
  /\ edgeOf \in [Streams -> Edges \union {None}]
  /\ closed \in [Streams -> BOOLEAN]
  /\ outbound \in [Streams -> Seq(Frames)]
  /\ \A s \in Streams : Len(outbound[s]) <= Capacity
  /\ reading \subseteq Streams
  /\ streams \in [Edges -> Streams \union {None}]
  /\ deviceTo \in [Devices -> Edges \union {None}]
  /\ call \in [Calls -> {"new", "joined", "sending", "sent", "up", "failed", "over"}]
  /\ via \in [Calls -> Streams \union {None}]
  /\ callEdge \in [Calls -> Edges \union {None}]
  /\ bound \subseteq Calls
  /\ inRtc \subseteq Calls
  /\ line \in [Calls -> Edges \union {None}]
  /\ missed \subseteq Calls

Init ==
  /\ server = "serving"
  /\ handler = [s \in Streams |-> "new"]
  /\ edgeOf = [s \in Streams |-> None]
  /\ closed = [s \in Streams |-> FALSE]
  /\ outbound = [s \in Streams |-> <<>>]
  /\ reading = {}
  /\ streams = [e \in Edges |-> None]
  /\ deviceTo = [d \in Devices |-> None]
  /\ call = [c \in Calls |-> "new"]
  /\ via = [c \in Calls |-> None]
  /\ callEdge = [c \in Calls |-> None]
  /\ bound = {}
  /\ inRtc = {}
  /\ line = [c \in Calls |-> None]
  /\ missed = {}

-----------------------------------------------------------------------------
\* Streams.

\* _ServerStream.close on a set of streams: the sentinel, if there is room.
Close(S) ==
  /\ closed' = [s \in Streams |-> closed[s] \/ s \in S]
  /\ outbound' = [s \in Streams |->
                    IF s \in S /\ ~closed[s] /\ Len(outbound[s]) < Capacity
                    THEN Append(outbound[s], CLOSE)
                    ELSE outbound[s]]

\* An edge connects: _register_stream displaces and closes its older stream.  An
\* RPC the server had accepted may register while it is being stopped.
Connect(s, e) ==
  /\ server # "stopped"
  /\ handler[s] = "new"
  /\ handler' = [handler EXCEPT ![s] = "open"]
  /\ edgeOf' = [edgeOf EXCEPT ![s] = e]
  /\ reading' = reading \union {s}
  /\ Close({streams[e]} \ {None})
  /\ streams' = [streams EXCEPT ![e] = s]
  /\ UNCHANGED <<server, deviceTo, callVars>>

\* The finally of _handle_bidi, up to the reader's end.
Unwind(s) ==
  /\ handler' = [handler EXCEPT ![s] = "ending"]
  /\ reading' = reading \ {s}

\* The handler yields the next frame to the edge, or meets the sentinel.
Write(s) ==
  /\ handler[s] = "open"
  /\ outbound[s] # <<>>
  /\ outbound' = [outbound EXCEPT ![s] = Tail(@)]
  /\ LET f == Head(outbound[s]) IN
       \/ /\ f.kind = "close"
          /\ Unwind(s)
          /\ UNCHANGED line
       \/ /\ f.kind = "dial"
          /\ line' = [line EXCEPT ![f.call] = edgeOf[s]]
          /\ UNCHANGED <<handler, reading>>
       \/ /\ f.kind = "cancel"
          /\ line' = [line EXCEPT ![f.call] = None]
          /\ UNCHANGED <<handler, reading>>
  /\ UNCHANGED <<server, edgeOf, closed, streams, deviceTo, call, via, callEdge, bound,
                 inRtc, missed>>

\* The transport is lost: grpc cancels the handler.
TransportDrops(s) ==
  /\ ~Healthy
  /\ handler[s] = "open"
  /\ Unwind(s)
  /\ Close({s})
  /\ UNCHANGED <<server, edgeOf, streams, deviceTo, callVars>>

\* The edge ends its half: the reader finishes and closes the stream.
ReaderEnds(s) ==
  /\ s \in reading
  /\ reading' = reading \ {s}
  /\ Close({s})
  /\ UNCHANGED <<server, handler, edgeOf, streams, deviceTo, callVars>>

\* Mutant: whatever stream is registered is removed.
DeregisterAny(s) ==
  /\ handler[s] = "ending"
  /\ handler' = [handler EXCEPT ![s] = "gone"]
  /\ streams' = [streams EXCEPT ![edgeOf[s]] = None]
  /\ deviceTo' = [d \in Devices |-> IF deviceTo[d] = edgeOf[s] THEN None ELSE deviceTo[d]]
  /\ UNCHANGED <<server, edgeOf, closed, outbound, reading, callVars>>

\* _deregister_stream: only the stream itself, and the mapping of its edge only
\* if no newer stream is registered.
Deregister(s) ==
  /\ handler[s] = "ending"
  /\ handler' = [handler EXCEPT ![s] = "gone"]
  /\ streams' = [streams EXCEPT ![edgeOf[s]] = IF @ = s THEN None ELSE @]
  /\ deviceTo' = [d \in Devices |->
                    IF deviceTo[d] = edgeOf[s] /\ streams'[edgeOf[s]] = None
                    THEN None ELSE deviceTo[d]]
  /\ UNCHANGED <<server, edgeOf, closed, outbound, reading, callVars>>

\* _reader_loop on a heartbeat that names device d.
Heartbeat(s, d) ==
  /\ s \in reading
  /\ deviceTo' = [deviceTo EXCEPT ![d] = edgeOf[s]]
  /\ UNCHANGED <<server, handler, edgeOf, closed, outbound, reading, streams, callVars>>

\* CloudEdgeGrpcServer.stop closes the registered streams and stops the server,
\* which accepts no further RPC ...
StopServer ==
  /\ server = "serving"
  /\ server' = "stopping"
  /\ Close({streams[e] : e \in Edges} \ {None})
  /\ UNCHANGED <<handler, edgeOf, reading, streams, deviceTo, callVars>>

\* ... and after the grace period cancels the handlers that still run.
GraceEnds ==
  /\ server = "stopping"
  /\ server' = "stopped"
  /\ handler' = [s \in Streams |-> IF handler[s] = "open" THEN "ending" ELSE handler[s]]
  /\ reading' = {}
  /\ Close({s \in Streams : handler[s] = "open"})
  /\ UNCHANGED <<edgeOf, streams, deviceTo, callVars>>

-----------------------------------------------------------------------------
\* RtcTelephonyClient.dial.

JoinRtc(c) ==
  /\ call[c] = "new"
  /\ call' = [call EXCEPT ![c] = "joined"]
  /\ inRtc' = inRtc \union {c}
  /\ UNCHANGED <<streamVars, via, callEdge, bound, line, missed>>

\* The edge a call is dialled on: the configured one, or that of its device.
TargetEdge(c) == IF LegacyEdge # None THEN LegacyEdge ELSE deviceTo[Device[c]]

\* resolve_edge_for_device raises out of dial.
NoEdgeForDevice(c) ==
  /\ call[c] = "joined"
  /\ TargetEdge(c) = None
  /\ call' = [call EXCEPT ![c] = "failed"]
  /\ UNCHANGED <<streamVars, via, callEdge, bound, inRtc, line, missed>>

\* The unwinding of dial on EdgeNotConnected: close_iterators and _purge_call.
DialFails(c) ==
  /\ call' = [call EXCEPT ![c] = "failed"]
  /\ via' = [via EXCEPT ![c] = None]
  /\ bound' = bound \ {c}
  /\ inRtc' = inRtc \ {c}

Reachable(e) == streams[e] # None /\ ~closed[streams[e]]

\* Mutant: the dispatcher learns of the call once the edge has been told.
RegistersAfterSend(c, next) == bound' = IF next = "up" THEN bound \union {c} ELSE bound

\* dial registers the call with the dispatcher as it goes on to its next await.
Registers(c, next) == bound' = IF next = "sending" THEN bound \union {c} ELSE bound

\* Resolve the edge, bind the dispatcher, and enter send_to_edge.
Resolve(c) ==
  /\ call[c] = "joined"
  /\ TargetEdge(c) # None
  /\ callEdge' = [callEdge EXCEPT ![c] = TargetEdge(c)]
  /\ \/ /\ Reachable(TargetEdge(c))
        /\ call' = [call EXCEPT ![c] = "sending"]
        /\ via' = [via EXCEPT ![c] = streams[TargetEdge(c)]]
        /\ Registers(c, "sending")
        /\ UNCHANGED inRtc
     \/ /\ ~Reachable(TargetEdge(c))
        /\ DialFails(c)
  /\ UNCHANGED <<streamVars, line, missed>>

\* The put of the DialCommand succeeds; wait_for may run it in a task of its own,
\* so that other steps come in between even if the queue has room ...
Sent(c) ==
  /\ call[c] = "sending"
  /\ Len(outbound[via[c]]) < Capacity
  /\ outbound' = [outbound EXCEPT ![via[c]] = Append(@, Frame("dial", c))]
  /\ call' = [call EXCEPT ![c] = "sent"]
  /\ UNCHANGED <<server, handler, edgeOf, closed, reading, streams, deviceTo, via,
                 callEdge, bound, inRtc, line, missed>>

\* ... and before dial returns.
DialReturns(c) ==
  /\ call[c] = "sent"
  /\ call' = [call EXCEPT ![c] = "up"]
  /\ via' = [via EXCEPT ![c] = None]
  /\ Registers(c, "up")
  /\ UNCHANGED <<streamVars, callEdge, inRtc, line, missed>>

\* The put waits for send_timeout_s on a full queue.
SendTimeout(c) ==
  /\ call[c] = "sending"
  /\ Len(outbound[via[c]]) = Capacity
  /\ DialFails(c)
  /\ UNCHANGED <<streamVars, callEdge, line, missed>>

-----------------------------------------------------------------------------
\* The end of a call.

\* A remote hangup, a device error or a refused dial reported on stream s,
\* through the dispatcher to _CallState.on_call_event or on_dial_ack, which
\* leaves the RTC channel.
RemoteHangup(s, c) ==
  /\ s \in reading
  /\ line[c] = edgeOf[s]
  /\ line' = [line EXCEPT ![c] = None]
  /\ \/ /\ c \in bound
        /\ callEdge[c] = edgeOf[s]
        /\ inRtc' = inRtc \ {c}
        /\ UNCHANGED missed
     \/ /\ ~(c \in bound /\ callEdge[c] = edgeOf[s])
        /\ missed' = IF call[c] \in {"sent", "up"} THEN missed \union {c} ELSE missed
        /\ UNCHANGED inRtc
  /\ UNCHANGED <<streamVars, call, via, callEdge, bound>>

\* A handoff ends the call with telephony.hangup: a CancelCommand if the edge
\* can be reached and takes it in time, then close_iterators and _purge_call.
HangUp(c) ==
  /\ call[c] = "up"
  /\ call' = [call EXCEPT ![c] = "over"]
  /\ outbound' = [s \in Streams |->
                    IF s = streams[callEdge[c]] /\ ~closed[s] /\ Len(outbound[s]) < Capacity
                    THEN Append(outbound[s], Frame("cancel", c))
                    ELSE outbound[s]]
  /\ bound' = bound \ {c}
  /\ inRtc' = inRtc \ {c}
  /\ UNCHANGED <<server, handler, edgeOf, closed, reading, streams, deviceTo, via,
                 callEdge, line, missed>>

\* Every other ending, an unanswered dial and a cancelled one included, only
\* returns from run_session.
RunEnds(c) ==
  /\ call[c] \in {"sending", "sent", "up"}
  /\ call' = [call EXCEPT ![c] = "over"]
  /\ via' = [via EXCEPT ![c] = None]
  /\ UNCHANGED <<streamVars, callEdge, bound, inRtc, line, missed>>

-----------------------------------------------------------------------------
StreamStep ==
  \E s \in Streams :
    \/ \E e \in Edges : Connect(s, e)
    \/ Write(s)
    \/ TransportDrops(s)
    \/ ReaderEnds(s)
    \/ Deregister(s)
    \/ \E d \in Devices : Heartbeat(s, d)
    \/ \E c \in Calls : RemoteHangup(s, c)

CallStep ==
  \E c \in Calls :
    \/ JoinRtc(c) \/ NoEdgeForDevice(c) \/ Resolve(c) \/ Sent(c) \/ SendTimeout(c)
    \/ DialReturns(c) \/ HangUp(c) \/ RunEnds(c)

Next == StreamStep \/ CallStep \/ StopServer \/ GraceEnds

\* A handler writes while the transport takes frames and finishes its unwinding;
\* a suspended send completes or times out.
Fairness ==
  /\ \A s \in Streams : WF_vars(Write(s)) /\ WF_vars(Deregister(s))
  /\ \A c \in Calls : WF_vars(Sent(c) \/ SendTimeout(c) \/ DialReturns(c))

Spec == Init /\ [][Next]_vars

FairSpec == Spec /\ Fairness

-----------------------------------------------------------------------------
\* Properties.

\* A reconnecting edge stays reachable: a stream that nobody closed is the
\* registered one, however late the handler of the stream it displaced unwinds.
LiveStreamRegistered ==
  \A s \in Streams : handler[s] = "open" /\ ~closed[s] => streams[edgeOf[s]] = s

\* A device is mapped to an edge without a registered stream only while a
\* handler of that edge has yet to unwind and will clear it: a late heartbeat of
\* a displaced stream leaves no mapping behind.
MappingOwned ==
  \A d \in Devices :
    deviceTo[d] # None =>
      \E s \in Streams : edgeOf[s] = deviceTo[d] /\ handler[s] \in {"open", "ending"}

\* A reconnect, in whatever order the two handlers finish, leaves the registry
\* and the device mapping to the stream that is live.
ReconnectSafe == LiveStreamRegistered /\ MappingOwned

\* No event of a call that was put on the wire finds the dispatcher without its
\* binding, however fast the edge answers: also between the put and the return of
\* the dial.
EventsFindTheirCall == missed = {}

-----------------------------------------------------------------------------
\* Claims of the repository's comments that are stronger than what the code
\* does: each is violated in this model.

\* A stream that has been closed winds down.
ClosedStreamsEnd ==
  \A s \in Streams : handler[s] = "open" /\ closed[s] ~> handler[s] = "gone"

\* No send completes on a stream that a reconnect of its edge has displaced.
OutstandingSendsFail ==
  [][\A c \in Calls :
       call[c] = "sending" /\ call'[c] = "sent" =>
         streams[edgeOf[via[c]]] \in {via[c], None}]_vars

\* A call that is over has left the dispatcher and the telephony client.
EndedCallsRetired == \A c \in Calls : call[c] = "over" ~> c \notin bound

\* A dial that failed has left its RTC channel.
FailedDialLeaves == \A c \in Calls : call[c] = "failed" => c \notin inRtc
=============================================================================
