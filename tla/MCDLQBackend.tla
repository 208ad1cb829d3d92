---------------------------- MODULE MCDLQBackend ----------------------------
(***************************************************************************)
(* DLQBackend on an instance TLC can exhaust.  Without faults TLC follows  *)
(* a behaviour as long as ImplementsContract speaks of it; with them it    *)
(* follows every behaviour, but publishes fewer events.                    *)
(***************************************************************************)
EXTENDS DLQBackend

CONSTANT
  FaultyEvents  \* bound: the events published in the behaviours with faults

Explored ==
  IF faulty
  THEN \A e \in Events \ FaultyEvents : events'[e].status = "absent"
  ELSE shared' = {} /\ stale' = {}

SpecBounded == InitBackend /\ [][NextBackend /\ Explored]_allVars
=============================================================================
