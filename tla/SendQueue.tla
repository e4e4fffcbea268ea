----------------------------- MODULE SendQueue -----------------------------
(***************************************************************************)
(* The operations on lists of messages that the driver and the wake-up     *)
(* command class perform in place: erasing items while iterating, and      *)
(* adding a copy to a list that must not hold two equal commands.  A       *)
(* message object is in a list at most once, so a list is filtered by the  *)
(* set of the messages that stay.                                          *)
(***************************************************************************)
EXTENDS Naturals, Sequences, Functions

\* The list that is left when every message outside S is erased: SelectSeq, as a
\* recursive function, which the proofs can unfold.
Keep(q, S) ==
  LET kept[i \in 0 .. Len(q)] ==
        IF i = 0 THEN << >>
        ELSE IF q[i] \in S THEN Append(kept[i - 1], q[i]) ELSE kept[i - 1]
  IN  kept[Len(q)]

\* The messages of q with no later message of the same content: what is left of
\* q when its messages are queued one by one and each deletes its earlier copies.
Newest(q, content) ==
  { q[i] : i \in { j \in DOMAIN q :
                     \A k \in DOMAIN q : k > j => content[q[k]] # content[q[j]] } }

\* A list p of distinct contents after the messages of s are queued on it in turn.
QueueAll(p, s, content) == Keep(p \o s, Newest(p \o s, content))
=============================================================================
