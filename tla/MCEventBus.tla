----------------------------- MODULE MCEventBus -----------------------------
EXTENDS EventBus

\* One bridge, a sibling that raises on every event, one partial handler.
SyncHandlers == [l \in Lanes |-> IF l = "lossless" THEN {"bridge", "faulty"}
                                 ELSE {"partial"}]
OneBridge == {"bridge"}
FaultySibling == {"faulty"}
\* The handler of the lossy lane awaits something that need never come.
StuckPartial == {"partial"}

\* Two bridges that await (test_eventbus.py has such handlers), so that a
\* delivery can suspend twice.
TwoHandlers == [l \in Lanes |-> IF l = "lossless" THEN {"bridge", "second"} ELSE {}]
BothAwait == {"bridge", "second"}
=============================================================================
