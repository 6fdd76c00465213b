---- MODULE MCReplay ----
EXTENDS Replay, TLC
CONSTANTS r1, r2

MCCalls    == {r1, r2}
MCSamples  == {1, 7}
MCOthers   == {3, 4}

MCFaults      == {"connect", "database", "broker", "close", "timeout"}
ConnectFaults == {"connect"}
NoFaults      == {}
====
