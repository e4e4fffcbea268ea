-------------------------- MODULE MCSecureMessages --------------------------
\* A lock that sleeps and has Security, and a lamp that has neither.
EXTENDS SecureMessages

CONSTANTS lock, lamp, set, get, plain, ask

MCTarget == [m \in Msg |-> IF m \in {set, get} THEN lock ELSE lamp]
=============================================================================
