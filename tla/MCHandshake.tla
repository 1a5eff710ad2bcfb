----------------------------- MODULE MCHandshake ----------------------------
\* Handshake for TLC: users, one of them known to the server from the start.
EXTENDS Handshake

CONSTANTS alice, bob, p1, p2

KnownAlice == [u \in Users |-> IF u = alice THEN p1 ELSE None]
=============================================================================
