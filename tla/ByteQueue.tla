----------------------------- MODULE ByteQueue -----------------------------
(* What Stream promises: a bounded queue of bytes.  Data goes in whole or   *)
(* not at all, comes out in the order it went in, and is purged at once.    *)
EXTENDS Naturals, Sequences, SequencesExt

CONSTANT Capacity
VARIABLE bytes

Init == bytes = << >>

Put == IsPrefix(bytes, bytes') /\ Len(bytes') <= Capacity
Get == IsSuffix(bytes', bytes)
Purge == bytes' = << >>

Spec == Init /\ [][Put \/ Get \/ Purge]_bytes
=============================================================================
