----------------------------- MODULE Lifecycle -----------------------------
(***************************************************************************)
(* The process from its start to its end: main, Engine.Start and           *)
(* Engine.Stop, with what goes on beside main: handlers of requests, jobs  *)
(* of the cron library, and the runs that both leave behind.               *)
(*                                                                         *)
(* One element of Calls is a handler or cron job and then, from wg.Add on, *)
(* the goroutine of its run.  A handler that lists Faktory queues is one   *)
(* call throughout.                                                        *)
(***************************************************************************)
EXTENDS TargetCalls

CONSTANT Targets  \* of schedules, and listings

ASSUME TargetsAssumption == \A t \in Targets : IsTarget(t)

VARIABLES
    phase,      \* where main stands
    listening,  \* ListenAndServe has not failed
    done,       \* ctx.Done of the signal context
    late,       \* Shutdown has given up on a handler
    killed,
    store,      \* "closed" or "open"
    by,         \* who began the call: a request or the cron library
    record      \* the run record of a call

vars == <<phase, listening, done, late, killed, store, by, record, call, accepted>>
mainVars == <<phase, listening, done, late, killed, store>>

Phases == {"loading", "opened", "serving", "draining", "stopping", "stopped",
           "waited", "closed", "exited"}

CronPhases == {"serving", "draining", "stopping"}

Init ==
    /\ phase = "loading"
    /\ listening = TRUE /\ done = FALSE /\ late = FALSE /\ killed = FALSE
    /\ store = "closed"
    /\ by = [c \in Calls |-> "none"]
    /\ record = [c \in Calls |-> "none"]
    /\ InitCalls

\* In Trigger; a handler of either kind; a goroutine that wg counts.
Triggering(c) == call[c].pc \in {"triggering", "spawning"}
Listing(c) == call[c].target.type = "queues"
Handling(c) == by[c] = "request" /\ (Triggering(c) \/ (Listing(c) /\ call[c].pc # "done"))
Counted(c) == ~Listing(c) /\ (Calling(c) \/ call[c].pc = "ended")

----------------------------------------------------------------------------
\* main, up to its wait for the signal.

OpenStore ==
    /\ phase = "loading" /\ phase' = "opened" /\ store' = "open"
    /\ UNCHANGED <<listening, done, late, killed, by, record, call, accepted>>

\* NewEngine succeeds; Engine.Start; the server listens.
Serve ==
    /\ phase = "opened" /\ phase' = "serving"
    /\ UNCHANGED <<listening, done, late, killed, store, by, record, call, accepted>>

\* The configuration, the store or the engine fails: os.Exit.
FailToStart ==
    /\ phase \in {"loading", "opened"} /\ phase' = "exited" /\ store' = "closed"
    /\ UNCHANGED <<listening, done, late, killed, by, record, call, accepted>>

\* The first signal.  Those that follow are caught and forgotten until main
\* returns.
Signal ==
    /\ phase = "serving" /\ ~done /\ done' = TRUE
    /\ UNCHANGED <<phase, listening, late, killed, store, by, record, call, accepted>>

\* Mutant: the error is logged and that is all.
ListenFailsUnheard ==
    /\ phase = "serving" /\ listening /\ listening' = FALSE
    /\ UNCHANGED <<phase, done, late, killed, store, by, record, call, accepted>>

ListenFails ==
    /\ phase = "serving" /\ listening /\ listening' = FALSE /\ done' = TRUE
    /\ UNCHANGED <<phase, late, killed, store, by, record, call, accepted>>

----------------------------------------------------------------------------
\* main, from the signal on; the deferred calls run in reverse order.

Move(from, to) ==
    /\ phase = from /\ phase' = to
    /\ UNCHANGED <<listening, done, killed, by, record, call, accepted>>

BeginShutdown == done /\ Move("serving", "draining") /\ UNCHANGED <<late, store>>

Drained ==
    /\ \A c \in Calls : ~Handling(c)
    /\ Move("draining", "stopping") /\ UNCHANGED <<late, store>>

\* After ten seconds.
GiveUp ==
    /\ \E c \in Calls : Handling(c)
    /\ Move("draining", "stopping") /\ late' = TRUE /\ UNCHANGED store

\* Engine.Stop: no more fires, and the cron jobs under way have returned.
StopCron == Move("stopping", "stopped") /\ UNCHANGED <<late, store>>

\* Mutant: the cron jobs are waited for, the runs are not.
WaitForJobs ==
    /\ \A c \in Calls : ~(by[c] = "cron" /\ Triggering(c))
    /\ Move("stopped", "waited") /\ UNCHANGED <<late, store>>

\* Both waits of Engine.Stop: the cron jobs, then wg.
WaitForRuns ==
    /\ \A c \in Calls : ~(by[c] = "cron" /\ Triggering(c)) /\ ~Counted(c)
    /\ Move("stopped", "waited") /\ UNCHANGED <<late, store>>

\* Mutant: the store is not closed.
LeaveStore == Move("waited", "closed") /\ UNCHANGED <<late, store>>

CloseStore == Move("waited", "closed") /\ store' = "closed" /\ UNCHANGED late

Exit == Move("closed", "exited") /\ UNCHANGED <<late, store>>

Kill ==
    /\ phase # "exited" /\ phase' = "exited" /\ killed' = TRUE /\ store' = "closed"
    /\ UNCHANGED <<listening, done, late, by, record, call, accepted>>

Main == \/ OpenStore \/ Serve \/ FailToStart \/ BeginShutdown \/ Drained \/ GiveUp
        \/ StopCron \/ WaitForRuns \/ CloseStore \/ Exit

----------------------------------------------------------------------------
\* Beside main.

Begin(c, who, pc, t) ==
    /\ call[c] = NoCall
    /\ by' = [by EXCEPT ![c] = who]
    /\ call' = [call EXCEPT ![c].pc = pc, ![c].target = t]
    /\ UNCHANGED <<mainVars, record, accepted>>

Fire(c, t) ==
    /\ phase \in CronPhases /\ t.type # "queues"
    /\ Begin(c, "cron", "triggering", t)

\* A request to run a job or to list queues, on a connection that Shutdown
\* still waits for or has given up on.
Request(c, t) ==
    /\ phase \in {"serving", "draining"} \/ (late /\ phase # "exited")
    /\ Begin(c, "request", IF t.type = "queues" THEN "called" ELSE "triggering", t)

At(c, pc) == phase # "exited" /\ call[c].pc = pc

Place(c, pc) ==
    /\ call' = [call EXCEPT ![c].pc = pc]
    /\ UNCHANGED <<mainVars, by, accepted>>

\* Trigger ends without a run, for whatever reason.
Refuse(c) == At(c, "triggering") /\ Place(c, "done") /\ UNCHANGED record

\* Mutant: a run goes on whose record could not be saved.
SaveRunOrNot(c) ==
    /\ At(c, "triggering") /\ Place(c, "spawning")
    /\ record' = IF store = "open" THEN [record EXCEPT ![c] = "running"] ELSE record

SaveRun(c) ==
    /\ At(c, "triggering") /\ store = "open"
    /\ record' = [record EXCEPT ![c] = "running"] /\ Place(c, "spawning")

\* wg.Add and go; a handler answers its request.
Spawn(c) ==
    /\ At(c, "spawning")
    /\ StartCall(c, call[c].target)
    /\ UNCHANGED <<mainVars, by, record, accepted>>

\* executeRun, after the call.  A write that fails is logged and that is all, and
\* to a closed store every write does.  "unsaved" is where a run is over whose
\* result an open store did not take.
UpdateRun(c) ==
    /\ At(c, "ended") /\ ~Listing(c)
    /\ \/ /\ store = "open"
          /\ record' = [record EXCEPT ![c] = call[c].result] /\ Place(c, "done")
       \/ store = "open" /\ Place(c, "unsaved") /\ UNCHANGED record
       \/ store = "closed" /\ Place(c, "done") /\ UNCHANGED record

RespondQueues(c) == At(c, "ended") /\ Listing(c) /\ Place(c, "done") /\ UNCHANGED record

Step(c) ==
    \/ Refuse(c) \/ SaveRun(c) \/ Spawn(c) \/ UpdateRun(c) \/ RespondQueues(c)
    \/ phase # "exited" /\ CallStep(c) /\ UNCHANGED <<mainVars, by, record>>

Next == \/ Main \/ Signal \/ ListenFails \/ Kill
        \/ \E c \in Calls, t \in Targets : Fire(c, t) \/ Request(c, t)
        \/ \E c \in Calls : Step(c)

Spec == Init /\ [][Next]_vars

\* main goes on when it can, and so does every goroutine: a call ends.  HTTP
\* requests and dialing have a time limit; once a Faktory connection is open
\* there is none, and that the server answers or drops it is an assumption.
FairSpec == Spec /\ WF_vars(Main) /\ \A c \in Calls : WF_vars(Step(c))

----------------------------------------------------------------------------
\* Correctness.

TypeOK ==
    /\ phase \in Phases
    /\ listening \in BOOLEAN /\ done \in BOOLEAN /\ late \in BOOLEAN /\ killed \in BOOLEAN
    /\ store = IF phase \in {"loading", "closed", "exited"} THEN "closed" ELSE "open"
    /\ by \in [Calls -> {"none", "request", "cron"}]
    /\ record \in [Calls -> {"none", "running", "succeeded", "failed"}]
    /\ accepted \subseteq Calls
    /\ call \in [Calls -> [pc : CallPlaces \cup {"idle", "triggering", "spawning", "ended", "done", "unsaved"},
                          target : Targets \cup {NoCall.target},
                          answer : {"none", "2xx", "other"},
                          result : {"none", "succeeded", "failed"}]]

\* "A successful Clock Relay run means Faktory accepted the job", and an HTTP
\* target that answered 2xx: whatever is lost on the way.
SucceededMeansAccepted == \A c \in Calls : record[c] = "succeeded" => c \in accepted

\* No target is called, not even by a handler that outlives the store, unless
\* a record says so: after a crash the log shows what may have happened.
CallsAreRecorded == \A c \in accepted : record[c] # "none"

\* The store is closed under nobody's run, and every record that is still running
\* then is one whose update an open store refused: no result is lost to the order
\* of the shutdown.  Excepted are a kill and a Shutdown that gave up on a handler.
RunsFinishBeforeClose ==
    store = "closed" /\ ~killed /\ ~late
      => \A c \in Calls : /\ ~Triggering(c) /\ ~Counted(c)
                         /\ record[c] = "running" => call[c].pc = "unsaved"

\* A signal, or a server that cannot listen, ends the process.
StopsEventually == done \/ ~listening ~> phase = "exited"
============================================================================
