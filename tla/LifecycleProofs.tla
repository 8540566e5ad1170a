-------------------------- MODULE LifecycleProofs --------------------------
(***************************************************************************)
(* Success means acceptance, calls are recorded, and the store outlives    *)
(* the runs, for any number of activities and any targets.                 *)
(***************************************************************************)
EXTENDS Lifecycle, TLAPS

Places == CallPlaces \cup {"idle", "triggering", "spawning", "ended", "done", "unsaved"}

CallRecord == [pc : Places, target : Targets \cup {NoCall.target},
               answer : {"none", "2xx", "other"}, result : {"none", "succeeded", "failed"}]

\* What a call has done so far, and who has begun it.
Course(c) ==
    /\ call[c].pc # "idle" => by[c] # "none"
    /\ call[c].pc \in {"idle", "triggering", "spawning", "sending", "reading", "pushing"}
         => ~Listing(c)
    /\ call[c].pc # "idle" => call[c].target \in Targets
    /\ call[c].pc = "dialing" => call[c].target.type \in {"faktory", "queues"}
    /\ call[c].pc = "listing" => Listing(c)
    /\ call[c].pc = "ended" => call[c].result # "none"
    /\ call[c].pc \in {"idle", "triggering", "spawning"} => c \notin accepted

\* Success is heard from the other end.
Heard(c) ==
    /\ call[c].answer = "2xx" => c \in accepted
    /\ call[c].result = "succeeded" => c \in accepted \/ Listing(c)
    /\ record[c] = "succeeded" => c \in accepted

\* A run has a record, and a record that is not final has a run, or had one whose
\* result could not be written.
Recorded(c) ==
    /\ call[c].pc = "spawning" \/ Counted(c) => record[c] # "none"
    /\ c \in accepted => record[c] # "none"

Final(c) == record[c] = "running" => call[c].pc \in {"spawning", "unsaved"} \/ Counted(c)

\* What main has waited for is over.
Waited ==
    ~late /\ ~killed =>
      /\ phase \in {"loading", "opened"} => \A c \in Calls : call[c].pc = "idle"
      /\ phase \in {"stopping", "stopped", "waited", "closed", "exited"}
           => \A c \in Calls : ~Handling(c)
      /\ phase \in {"waited", "closed", "exited"}
           => \A c \in Calls : ~Triggering(c) /\ ~Counted(c)
      /\ \A c \in Calls : Final(c)

Inv == /\ TypeOK
       /\ \A c \in Calls : Course(c) /\ Heard(c) /\ Recorded(c)
       /\ Waited

USE DEF Places, CallPlaces

LEMMA TypedCalls ==
    ASSUME TypeOK
    PROVE  call \in [Calls -> CallRecord]
BY DEF TypeOK, CallRecord

LEMMA InitInv == Init => Inv
<1> SUFFICES ASSUME Init PROVE Inv
    OBVIOUS
<1>1. call = [c \in Calls |-> NoCall] /\ accepted = {}
    BY DEF Init, InitCalls
<1>2. NoCall \in CallRecord
    BY DEF NoCall, CallRecord
<1>3. TypeOK
    <2>1. call \in [Calls -> CallRecord]
        BY <1>1, <1>2
    <2> QED
        BY <1>1, <2>1 DEF Init, TypeOK, Phases, CallRecord
<1>4. \A c \in Calls : Course(c) /\ Heard(c) /\ Recorded(c)
    BY <1>1 DEF Init, NoCall, Course, Heard, Recorded, Counted, Calling, Listing
<1>5. Waited
    BY <1>1 DEF Init, NoCall, Waited, Final
<1> QED
    BY <1>3, <1>4, <1>5 DEF Inv

\* The steps of main leave the calls alone.
LEMMA MainInv ==
    Inv /\ (Main \/ Signal \/ ListenFails \/ Kill) => Inv'
<1> SUFFICES ASSUME Inv, Main \/ Signal \/ ListenFails \/ Kill PROVE Inv'
    OBVIOUS
<1> USE DEF Main, OpenStore, Serve, FailToStart, Signal, ListenFails, Move, BeginShutdown,
            Drained, GiveUp, StopCron, WaitForRuns, CloseStore, Exit, Kill
<1>1. UNCHANGED <<by, record, call, accepted>>
    OBVIOUS
<1>2. TypeOK'
    BY <1>1 DEF Inv, TypeOK, Phases
<1>3. \A c \in Calls : /\ Course(c)' <=> Course(c)
                       /\ Heard(c)' <=> Heard(c)
                       /\ Recorded(c)' <=> Recorded(c)
                       /\ Final(c)' <=> Final(c)
                       /\ Triggering(c)' <=> Triggering(c)
                       /\ Handling(c)' <=> Handling(c)
                       /\ Counted(c)' <=> Counted(c)
    BY <1>1 DEF Course, Heard, Recorded, Final, Triggering, Handling, Counted, Calling, Listing
<1>4. \A c \in Calls : Triggering(c) => by[c] \in {"request", "cron"}
    BY DEF Inv, TypeOK, Course, Triggering
<1>5. \A c \in Calls : by[c] = "request" /\ Triggering(c) => Handling(c)
    BY DEF Handling
<1>6. \A c \in Calls : call[c].pc = "idle" => ~Handling(c) /\ ~Triggering(c) /\ ~Counted(c)
    BY DEF Inv, Course, Handling, Triggering, Counted, Calling
<1>7. Waited'
    BY <1>1, <1>3, <1>4, <1>5, <1>6 DEF Inv, TypeOK, Waited
<1> QED
    BY <1>2, <1>3, <1>7 DEF Inv

\* Every other step is one of a single call.
Same(c) == /\ call'[c] = call[c] /\ record'[c] = record[c] /\ by'[c] = by[c]
           /\ c \in accepted' <=> c \in accepted

\* What main has waited for, of one call.
WaitedFor(c) ==
    ~late /\ ~killed =>
      /\ phase \in {"loading", "opened"} => call[c].pc = "idle"
      /\ phase \in {"stopping", "stopped", "waited", "closed", "exited"} => ~Handling(c)
      /\ phase \in {"waited", "closed", "exited"} => ~Triggering(c) /\ ~Counted(c)
      /\ Final(c)

LEMMA LocalInv ==
    ASSUME Inv, TypeOK', UNCHANGED mainVars, NEW c0 \in Calls,
           \A c \in Calls : c # c0 => Same(c),
           (Course(c0) /\ Heard(c0) /\ Recorded(c0) /\ WaitedFor(c0))'
    PROVE  Inv'
<1>1. \A c \in Calls : c # c0 => /\ Course(c)' <=> Course(c)
                                 /\ Heard(c)' <=> Heard(c)
                                 /\ Recorded(c)' <=> Recorded(c)
                                 /\ WaitedFor(c)' <=> WaitedFor(c)
    BY DEF mainVars, Same, Course, Heard, Recorded, WaitedFor, Final, Triggering, Handling,
           Counted, Calling, Listing
<1>2. \A c \in Calls : Course(c)' /\ Heard(c)' /\ Recorded(c)'
    BY <1>1 DEF Inv
<1>3. Waited <=> \A c \in Calls : WaitedFor(c)
    BY DEF Waited, WaitedFor
<1>4. Waited' <=> \A c \in Calls : WaitedFor(c)'
    BY DEF Waited, WaitedFor
<1>5. Waited'
    BY <1>1, <1>3, <1>4 DEF Inv
<1> QED
    BY <1>2, <1>5 DEF Inv

\* The facts about one call, together.
OneCall(c) == Course(c) /\ Heard(c) /\ Recorded(c) /\ WaitedFor(c)

LEMMA InvOfOne ==
    ASSUME Inv, NEW c \in Calls
    PROVE  OneCall(c)
BY DEF Inv, Waited, WaitedFor, OneCall

\* A step of a call changes its record in call and, it may be, accepts it.
LEMMA CallStepShape ==
    ASSUME TypeOK, NEW c \in Calls, CallStep(c)
    PROVE  /\ call' \in [Calls -> CallRecord]
           /\ \A d \in Calls : d # c => call'[d] = call[d] /\ (d \in accepted' <=> d \in accepted)
           /\ accepted' \subseteq Calls
<1>1. call \in [Calls -> CallRecord] /\ accepted \subseteq Calls
    BY TypedCalls DEF TypeOK
<1> USE DEF CallRecord
<1>2. ASSUME NEW r \in {"succeeded", "failed"}, End(c, r)
      PROVE  /\ call' \in [Calls -> CallRecord]
             /\ \A d \in Calls : d # c => call'[d] = call[d]
             /\ accepted' = accepted
    <2>1. [call[c] EXCEPT !.pc = "ended", !.result = r] \in CallRecord
        BY <1>1
    <2>2. call' = [call EXCEPT ![c] = [call[c] EXCEPT !.pc = "ended", !.result = r]]
        BY <1>1, <1>2 DEF End
    <2> HIDE DEF CallRecord
    <2>3. call' \in [Calls -> CallRecord]
        BY <1>1, <2>1, <2>2
    <2> QED
        BY <1>1, <1>2, <2>2, <2>3 DEF End
<1>3. ASSUME NEW p \in Places, Go(c, p)
      PROVE  /\ call' \in [Calls -> CallRecord]
             /\ \A d \in Calls : d # c => call'[d] = call[d]
             /\ accepted' = accepted
    BY <1>1, <1>3 DEF Go
<1> HIDE DEF CallRecord
<1>4. CASE Prepare(c)
    BY <1>1, <1>2, <1>3, <1>4 DEF Prepare
<1>5. CASE Open(c)
    BY <1>1, <1>3, <1>5 DEF Open
<1>6. CASE Accept(c)
    BY <1>1, <1>6 DEF Accept
<1>7. CASE Answer(c)
    <2>1. PICK status \in {"2xx", "other"} :
              call' = [call EXCEPT ![c].pc = "reading", ![c].answer = status]
        BY <1>7 DEF Answer
    <2>2. call' \in [Calls -> CallRecord]
        <3>1. [call[c] EXCEPT !.pc = "reading", !.answer = status] \in CallRecord
            BY <1>1 DEF CallRecord
        <3>2. call' = [call EXCEPT ![c] = [call[c] EXCEPT !.pc = "reading", !.answer = status]]
            BY <1>1, <2>1
        <3> QED
            BY <1>1, <3>1, <3>2
    <2>3. accepted' = accepted
        BY <1>7 DEF Answer
    <2> QED
        BY <1>1, <2>1, <2>2, <2>3
<1>8. CASE Confirm(c) \/ ListQueues(c) \/ Fail(c)
    BY <1>1, <1>2, <1>8 DEF Confirm, ListQueues, Fail
<1>9. CASE ReadBody(c)
    BY <1>1, <1>2, <1>9 DEF ReadBody
<1> QED
    BY <1>4, <1>5, <1>6, <1>7, <1>8, <1>9 DEF CallStep

\* While it goes on a call is counted, or is the whole of its handler.
LEMMA CallStepOne ==
    ASSUME TypeOK, NEW c \in Calls, CallStep(c), OneCall(c),
           phase # "exited", UNCHANGED <<mainVars, by, record>>
    PROVE  OneCall(c)'
<1>1. call \in [Calls -> CallRecord]
    BY TypedCalls
<1>2. /\ call[c].pc \in CallPlaces
      /\ call'[c].pc \in CallPlaces \cup {"ended"}
      /\ call'[c].target = call[c].target
      /\ call'[c].pc \in {"sending", "reading", "pushing"} => ~Listing(c)
      /\ call'[c].pc = "dialing" => call[c].target.type \in {"faktory", "queues"}
      /\ call'[c].pc = "listing" => Listing(c)
      /\ call'[c].pc = "ended" => call'[c].result # "none"
      /\ call[c].target \in Targets
      /\ call'[c].answer = "2xx" => c \in accepted'
      /\ call'[c].result = "succeeded" => c \in accepted' \/ Listing(c)
      /\ c \in accepted => c \in accepted'
      /\ c \in accepted' => c \in accepted \/ ~Listing(c)
    <2> USE <1>1 DEF CallRecord, OneCall, Course, Heard, Listing, End, Go
    <2>1. CASE Prepare(c)
        <3>1. /\ call[c].pc = "called"
              /\ \/ Ready(call[c].target)
                   /\ Go(c, IF call[c].target.type = "http" THEN "sending" ELSE "dialing")
                 \/ End(c, "failed")
            BY <2>1 DEF Prepare
        <3>0. call[c].target.type \in {"http", "faktory", "queues"}
            BY <3>1, TargetsAssumption DEF IsTarget
        <3> HIDE DEF Course, Heard
        <3>2. CASE End(c, "failed")
            BY <3>1, <3>2 DEF Course, Heard
        <3>3. CASE Go(c, IF call[c].target.type = "http" THEN "sending" ELSE "dialing")
            BY <3>0, <3>1, <3>3 DEF Course, Heard
        <3> QED
            BY <3>1, <3>2, <3>3
    <2>2. CASE Open(c)
        BY <2>2 DEF Open
    <2>3. CASE Accept(c)
        BY <2>3 DEF Accept
    <2>4. CASE Answer(c)
        <3>1. PICK status \in {"2xx", "other"} :
                  /\ status = "2xx" => c \in accepted
                  /\ call' = [call EXCEPT ![c].pc = "reading", ![c].answer = status]
            BY <2>4 DEF Answer
        <3>2. /\ call'[c].pc = "reading" /\ call'[c].answer = status
              /\ call'[c].target = call[c].target /\ call'[c].result = call[c].result
            BY <3>1
        <3> QED
            BY <2>4, <3>1, <3>2 DEF Answer
    <2>5. CASE Confirm(c) \/ ListQueues(c)
        BY <2>5 DEF Confirm, ListQueues
    <2>6. CASE Fail(c)
        BY <2>6 DEF Fail
    <2>7. CASE ReadBody(c)
        BY <2>7 DEF ReadBody
    <2> QED
        BY <2>1, <2>2, <2>3, <2>4, <2>5, <2>6, <2>7 DEF CallStep
<1>3. /\ Listing(c)' <=> Listing(c)
      /\ Counted(c)' <=> ~Listing(c)
      /\ Counted(c) <=> ~Listing(c)
      /\ ~Triggering(c) /\ ~Triggering(c)'
      /\ Handling(c)' <=> Handling(c)
    BY <1>2 DEF Listing, Counted, Calling, Triggering, Handling
<1>4. Course(c)'
    BY <1>2, <1>3 DEF OneCall, Course
<1>5. Heard(c)'
    BY <1>2, <1>3 DEF OneCall, Heard
<1>6. Recorded(c)'
    BY <1>2, <1>3 DEF OneCall, Recorded
<1>7. WaitedFor(c)'
    BY <1>2, <1>3 DEF OneCall, WaitedFor, Final, mainVars
<1> QED
    BY <1>4, <1>5, <1>6, <1>7 DEF OneCall

----------------------------------------------------------------------------
\* Beside main: one lemma for each action.

LEMMA BeginOne ==
    ASSUME Inv, NEW c \in Calls, NEW t \in Targets, Fire(c, t) \/ Request(c, t)
    PROVE  Inv'
<1>0. call \in [Calls -> CallRecord] /\ OneCall(c)
    BY TypedCalls, InvOfOne DEF Inv
<1>1. PICK who \in {"cron", "request"}, pc \in {"triggering", "called"} :
          /\ Begin(c, who, pc, t)
          /\ pc = "called" => who = "request" /\ t.type = "queues"
          /\ pc = "triggering" => t.type # "queues"
          /\ ~late => \/ who = "cron" /\ phase \in {"serving", "draining", "stopping"}
                     \/ phase \in {"serving", "draining"}
    BY DEF Fire, Request, CronPhases
<1>2. /\ call[c] = NoCall
      /\ by' = [by EXCEPT ![c] = who]
      /\ call' = [call EXCEPT ![c].pc = pc, ![c].target = t]
      /\ UNCHANGED <<mainVars, record, accepted>>
    BY <1>1 DEF Begin
<1>3. /\ call' \in [Calls -> CallRecord]
      /\ by' \in [Calls -> {"none", "request", "cron"}]
    <2>1. by' \in [Calls -> {"none", "request", "cron"}]
        BY <1>2 DEF Inv, TypeOK
    <2>2. [call[c] EXCEPT !.pc = pc, !.target = t] \in CallRecord
        BY <1>0 DEF CallRecord
    <2>3. call' = [call EXCEPT ![c] = [call[c] EXCEPT !.pc = pc, !.target = t]]
        BY <1>0, <1>2
    <2>4. call' \in [Calls -> CallRecord]
        BY <1>0, <2>2, <2>3
    <2> QED
        BY <2>1, <2>4
<1>4. TypeOK'
    BY <1>2, <1>3 DEF Inv, TypeOK, CallRecord, mainVars
<1>5. \A d \in Calls : d # c => Same(d)
    BY <1>0, <1>2 DEF Same, Inv, TypeOK
<1>6. /\ call[c].pc = "idle"
      /\ call'[c].pc = pc /\ call'[c].target = t /\ by'[c] = who
      /\ call'[c].answer = "none" /\ call'[c].result = "none"
    BY <1>0, <1>2 DEF NoCall, Inv, TypeOK
<1>7. (Course(c) /\ Heard(c))'
    BY <1>0, <1>1, <1>2, <1>6 DEF OneCall, Course, Heard, Listing
<1>8. Counted(c)' => FALSE
    BY <1>1, <1>6 DEF Counted, Calling, Listing
<1>9. Recorded(c)'
    BY <1>0, <1>1, <1>2, <1>6, <1>8 DEF OneCall, Recorded, Course
<1>10. record[c] # "running" \/ late \/ killed
    BY <1>0, <1>6 DEF OneCall, WaitedFor, Final, Counted, Calling
<1>11. Handling(c)' => who = "request"
    BY <1>6 DEF Handling
<1>12. WaitedFor(c)'
    BY <1>1, <1>2, <1>8, <1>10, <1>11 DEF WaitedFor, Final, mainVars
<1> QED
    BY <1>2, <1>4, <1>5, <1>7, <1>9, <1>12, LocalInv

\* The steps that give a call another place and touch its record at most.
LEMMA PlaceTypes ==
    ASSUME Inv, NEW c \in Calls, NEW pc \in Places, Place(c, pc),
           record' \in [Calls -> {"none", "running", "succeeded", "failed"}]
    PROVE  TypeOK'
<1>1. call \in [Calls -> CallRecord]
    BY TypedCalls DEF Inv
<1>2. call' \in [Calls -> CallRecord]
    BY <1>1 DEF Place, CallRecord
<1> QED
    BY <1>2 DEF Place, mainVars, Inv, TypeOK, CallRecord

LEMMA PlaceOthers ==
    ASSUME Inv, NEW c \in Calls, NEW pc \in Places, Place(c, pc),
           \A d \in Calls : d # c => record'[d] = record[d]
    PROVE  /\ UNCHANGED mainVars
           /\ \A d \in Calls : d # c => Same(d)
           /\ call'[c].pc = pc /\ call'[c].target = call[c].target
           /\ call'[c].answer = call[c].answer /\ call'[c].result = call[c].result
           /\ by' = by /\ accepted' = accepted
<1>1. call \in [Calls -> CallRecord]
    BY TypedCalls DEF Inv
<1> QED
    BY <1>1 DEF Place, Same, CallRecord

LEMMA RefuseInv == ASSUME Inv, NEW c \in Calls, Refuse(c) PROVE Inv'
<1>1. Place(c, "done") /\ record' = record /\ call[c].pc = "triggering" /\ OneCall(c)
    BY InvOfOne DEF Refuse, At
<1>2. TypeOK'
    BY <1>1, PlaceTypes DEF Inv, TypeOK
<1>3. /\ UNCHANGED mainVars
      /\ \A d \in Calls : d # c => Same(d)
      /\ call'[c].pc = "done" /\ call'[c].target = call[c].target
      /\ call'[c].answer = call[c].answer /\ call'[c].result = call[c].result
      /\ by' = by /\ accepted' = accepted
    BY <1>1, PlaceOthers
<1>4. (Course(c) /\ Heard(c) /\ Recorded(c))'
    BY <1>1, <1>3 DEF OneCall, Course, Heard, Recorded, Listing, Counted, Calling
<1>5. WaitedFor(c)'
    BY <1>1, <1>3
       DEF OneCall, WaitedFor, Course, Final, Listing, Handling, Triggering, Counted, Calling, mainVars
<1> QED
    BY <1>2, <1>3, <1>4, <1>5, LocalInv

LEMMA SaveRunInv == ASSUME Inv, NEW c \in Calls, SaveRun(c) PROVE Inv'
<1>1. /\ Place(c, "spawning") /\ record' = [record EXCEPT ![c] = "running"]
      /\ call[c].pc = "triggering" /\ OneCall(c)
    BY InvOfOne DEF SaveRun, At
<1>2. TypeOK' /\ record'[c] = "running" /\ \A d \in Calls : d # c => record'[d] = record[d]
    BY <1>1, PlaceTypes DEF Inv, TypeOK
<1>3. /\ UNCHANGED mainVars
      /\ \A d \in Calls : d # c => Same(d)
      /\ call'[c].pc = "spawning" /\ call'[c].target = call[c].target
      /\ call'[c].answer = call[c].answer /\ call'[c].result = call[c].result
      /\ by' = by /\ accepted' = accepted
    BY <1>1, <1>2, PlaceOthers
<1>4. (Course(c) /\ Heard(c) /\ Recorded(c))'
    BY <1>1, <1>2, <1>3 DEF OneCall, Course, Heard, Recorded, Listing, Counted, Calling
<1>5. WaitedFor(c)'
    BY <1>1, <1>3
       DEF OneCall, WaitedFor, Course, Final, Listing, Handling, Triggering, Counted, Calling, mainVars
<1> QED
    BY <1>2, <1>3, <1>4, <1>5, LocalInv

LEMMA SpawnInv == ASSUME Inv, NEW c \in Calls, Spawn(c) PROVE Inv'
<1>1. /\ call[c].pc = "spawning" /\ record' = record /\ OneCall(c)
      /\ call \in [Calls -> CallRecord]
    BY InvOfOne, TypedCalls DEF Spawn, At, Inv
<1>2. Place(c, "called")
    BY <1>1 DEF Spawn, StartCall, Place, CallRecord
<1>3. TypeOK'
    BY <1>1, <1>2, PlaceTypes DEF Inv, TypeOK
<1>4. /\ UNCHANGED mainVars
      /\ \A d \in Calls : d # c => Same(d)
      /\ call'[c].pc = "called" /\ call'[c].target = call[c].target
      /\ call'[c].answer = call[c].answer /\ call'[c].result = call[c].result
      /\ by' = by /\ accepted' = accepted
    BY <1>1, <1>2, PlaceOthers
<1>5. (Course(c) /\ Heard(c) /\ Recorded(c))'
    BY <1>1, <1>4 DEF OneCall, Course, Heard, Recorded, Listing, Counted, Calling
<1>6. WaitedFor(c)'
    BY <1>1, <1>4
       DEF OneCall, WaitedFor, Course, Final, Listing, Handling, Triggering, Counted, Calling, mainVars
<1> QED
    BY <1>3, <1>4, <1>5, <1>6, LocalInv

\* Where main has waited, the store is open as long as a call is counted.
LEMMA UpdateRunInv == ASSUME Inv, NEW c \in Calls, UpdateRun(c) PROVE Inv'
<1> DEFINE written == [record EXCEPT ![c] = call[c].result]
<1>1. /\ call[c].pc = "ended" /\ ~Listing(c) /\ OneCall(c)
      /\ phase # "exited" /\ call \in [Calls -> CallRecord]
    BY InvOfOne, TypedCalls DEF UpdateRun, At, Inv
<1>0. PICK pc \in {"done", "unsaved"} :
          /\ Place(c, pc) /\ record' \in {record, written}
          /\ store = "open" => record' = written \/ pc = "unsaved"
    BY DEF UpdateRun
<1>2. /\ call[c].result \in {"none", "succeeded", "failed"}
      /\ TypeOK' /\ \A d \in Calls : d # c => record'[d] = record[d]
      /\ record'[c] \in {record[c], call[c].result}
      /\ store = "open" => record'[c] = call[c].result \/ pc = "unsaved"
    <2>1. call[c].result \in {"none", "succeeded", "failed"}
        BY <1>1 DEF CallRecord
    <2>2. record' \in [Calls -> {"none", "running", "succeeded", "failed"}]
        BY <1>0, <1>1, <2>1 DEF Inv, TypeOK
    <2> QED
        BY <1>0, <1>1, <2>1, <2>2, PlaceTypes DEF Inv, TypeOK
<1>3. /\ UNCHANGED mainVars
      /\ \A d \in Calls : d # c => Same(d)
      /\ call'[c].pc = pc /\ call'[c].target = call[c].target
      /\ call'[c].answer = call[c].answer /\ call'[c].result = call[c].result
      /\ by' = by /\ accepted' = accepted
    BY <1>0, <1>1, <1>2, PlaceOthers
<1>4. (Course(c) /\ Heard(c))'
    BY <1>1, <1>2, <1>3 DEF OneCall, Course, Heard, Listing
<1>5. Recorded(c)'
    BY <1>1, <1>2, <1>3 DEF OneCall, Course, Recorded, Listing, Counted, Calling
<1>6. WaitedFor(c)'
    <2>1. Counted(c)
        BY <1>1 DEF Counted
    <2>2. ~late /\ ~killed => store = "open"
        BY <1>1, <2>1 DEF OneCall, WaitedFor, Inv, TypeOK, Phases
    <2>3. ~late /\ ~killed /\ record'[c] = "running" => pc = "unsaved"
        BY <1>1, <1>2, <2>2 DEF OneCall, Course
    <2> QED
        BY <1>1, <1>3, <2>3
           DEF OneCall, WaitedFor, Final, Listing, Handling, Triggering, Counted, Calling, mainVars
<1> QED
    BY <1>2, <1>3, <1>4, <1>5, <1>6, LocalInv

LEMMA RespondQueuesInv == ASSUME Inv, NEW c \in Calls, RespondQueues(c) PROVE Inv'
<1>1. /\ Place(c, "done") /\ record' = record /\ call[c].pc = "ended" /\ Listing(c)
      /\ OneCall(c)
    BY InvOfOne DEF RespondQueues, At
<1>2. TypeOK'
    BY <1>1, PlaceTypes DEF Inv, TypeOK
<1>3. /\ UNCHANGED mainVars
      /\ \A d \in Calls : d # c => Same(d)
      /\ call'[c].pc = "done" /\ call'[c].target = call[c].target
      /\ call'[c].answer = call[c].answer /\ call'[c].result = call[c].result
      /\ by' = by /\ accepted' = accepted
    BY <1>1, PlaceOthers
<1>4. (Course(c) /\ Heard(c) /\ Recorded(c))'
    BY <1>1, <1>3 DEF OneCall, Course, Heard, Recorded, Listing, Counted, Calling
<1>5. WaitedFor(c)'
    BY <1>1, <1>3
       DEF OneCall, WaitedFor, Final, Listing, Handling, Triggering, Counted, Calling, mainVars
<1> QED
    BY <1>2, <1>3, <1>4, <1>5, LocalInv

LEMMA CallStepInv ==
    ASSUME Inv, NEW c \in Calls, phase # "exited", CallStep(c),
           UNCHANGED <<mainVars, by, record>>
    PROVE  Inv'
<1>1. OneCall(c) /\ TypeOK
    BY InvOfOne DEF Inv
<1>2. OneCall(c)'
    BY <1>1, CallStepOne
<1>3. /\ call' \in [Calls -> CallRecord]
      /\ \A d \in Calls : d # c => call'[d] = call[d] /\ (d \in accepted' <=> d \in accepted)
      /\ accepted' \subseteq Calls
    BY <1>1, CallStepShape
<1>4. TypeOK'
    BY <1>1, <1>3 DEF TypeOK, mainVars, CallRecord
<1>5. \A d \in Calls : d # c => Same(d)
    BY <1>3 DEF Same
<1> QED
    BY <1>2, <1>4, <1>5, LocalInv DEF OneCall

LEMMA NextInv == Inv /\ [Next]_vars => Inv'
<1> SUFFICES ASSUME Inv, [Next]_vars PROVE Inv'
    OBVIOUS
<1>1. CASE Main \/ Signal \/ ListenFails \/ Kill
    BY <1>1, MainInv
<1>2. ASSUME NEW c \in Calls, NEW t \in Targets, Fire(c, t) \/ Request(c, t) PROVE Inv'
    BY <1>2, BeginOne
<1>3. ASSUME NEW c \in Calls, Step(c) PROVE Inv'
    BY <1>3, RefuseInv, SaveRunInv, SpawnInv, UpdateRunInv, RespondQueuesInv, CallStepInv DEF Step
<1>4. CASE UNCHANGED vars
    <2>1. UNCHANGED mainVars
        BY <1>4 DEF vars, mainVars
    <2> QED
        BY <1>4 DEF vars, Inv, TypeOK, Course, Heard, Recorded, Waited, Final, Triggering,
                    Handling, Counted, Calling, Listing
<1> QED
    BY <1>1, <1>2, <1>3, <1>4 DEF Next

LEMMA InvHolds == Spec => []Inv
<1> QED
    BY InitInv, NextInv, PTL DEF Spec

----------------------------------------------------------------------------

\* The store is open exactly between OpenStore and Close; calls and records
\* are what they should be.
THEOREM TypeCorrectness == Spec => []TypeOK
<1>1. Inv => TypeOK
    BY DEF Inv
<1> QED
    BY <1>1, InvHolds, PTL

\* A run is recorded as succeeded only when the other end has acted on the
\* call, through lost answers, time limits, kills and shutdowns.
THEOREM SuccessMeansAcceptance == Spec => []SucceededMeansAccepted
<1>1. Inv => SucceededMeansAccepted
    BY DEF Inv, Heard, SucceededMeansAccepted
<1> QED
    BY <1>1, InvHolds, PTL

\* Whatever target was called, the log has a record of the run, also after a
\* kill and for a handler that has outlived the store.
THEOREM CallsAreAlwaysRecorded == Spec => []CallsAreRecorded
<1>1. Inv => CallsAreRecorded
    BY DEF Inv, TypeOK, Recorded, CallsAreRecorded
<1> QED
    BY <1>1, InvHolds, PTL

\* Engine.Stop and the order of main's deferred calls: no run is left when the
\* store closes, and no record running but one whose update failed before, unless
\* the process is killed or Shutdown gives up.
THEOREM StoreOutlivesRuns == Spec => []RunsFinishBeforeClose
<1>1. Inv => RunsFinishBeforeClose
    <2> SUFFICES ASSUME Inv, store = "closed", ~killed, ~late, NEW c \in Calls
                 PROVE  /\ ~Triggering(c) /\ ~Counted(c)
                        /\ record[c] = "running" => call[c].pc = "unsaved"
        BY DEF RunsFinishBeforeClose
    <2>1. phase \in {"loading", "closed", "exited"}
        BY DEF Inv, TypeOK, Phases
    <2>2. ~Triggering(c) /\ ~Counted(c)
        BY <2>1 DEF Inv, Waited, Triggering, Counted, Calling
    <2>3. record[c] = "running" => call[c].pc = "unsaved"
        BY <2>2 DEF Inv, Waited, Final, Triggering
    <2> QED
        BY <2>2, <2>3
<1> QED
    BY <1>1, InvHolds, PTL
============================================================================
