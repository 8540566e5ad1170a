---------------------------- MODULE MCLifecycle ----------------------------
(* Two activities: one to be waited for while the other outlives Shutdown.  *)
EXTENDS Lifecycle

MCInstances == [good |-> "tcp", bad |-> "no host"]

Http(r) == [type |-> "http", request |-> r]
Push(i) == [type |-> "faktory", instance |-> i, jobType |-> "named"]

MCTargets == {Http("proper"), Http("malformed"), Push("good"), Push("bad"), Push("gone"),
              [type |-> "queues", instance |-> "good"]}
============================================================================
