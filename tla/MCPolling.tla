----------------------------- MODULE MCPolling -----------------------------
(* A lamp that is always awake and a sensor that sleeps. *)
EXTENDS Polling, TLC

CONSTANTS lamp, sensor, level, temperature

MCNodeOf == (level :> lamp) @@ (temperature :> sensor)
MCBound == [call |-> 1, change |-> 1, noise |-> 1, removal |-> 1, loss |-> 1]
=============================================================================
