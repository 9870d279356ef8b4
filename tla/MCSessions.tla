----------------------------- MODULE MCSessions -----------------------------
\* Small instances of Sessions for TLC.
EXTENDS Sessions

CONSTANTS n1, n2, n3, t1, t2, i1, i2, ip1, ip2

Session(sid, t, i, ip) == [sid |-> sid, target |-> t, initiator |-> i, ip |-> ip]

\* One initiator at two targets, and another at one of them.
MCUniverse == {Session(n1, t1, i1, ip1), Session(n2, t2, i1, ip1), Session(n3, t1, i2, ip2)}
=============================================================================
