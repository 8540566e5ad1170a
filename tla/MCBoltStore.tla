---------------------------- MODULE MCBoltStore ----------------------------
(* Three run ids, two schedules, two start times: ties, records older than *)
(* the cutoff and records over the limit all occur.                        *)
EXTENDS BoltStore
============================================================================
