---------------------------- MODULE TargetCalls ----------------------------
(***************************************************************************)
(* The calls of internal/target: an HTTP request, a push to a Faktory      *)
(* server, and the listing of its queues that a page asks for.  The other  *)
(* end acts on a request, answers it, does either without the other, or    *)
(* nothing at all; the caller learns of it by the answer alone.            *)
(*                                                                         *)
(* Calls go on side by side and share nothing.  What becomes of a result   *)
(* is left to the module that extends this one.                            *)
(***************************************************************************)
EXTENDS Naturals

CONSTANTS
    Calls,
    Instances   \* the configured Faktory instances, by name: the form of a URL

VARIABLES
    call,       \* each call: its place, target, answer and result
    accepted    \* the calls that the other end has acted on

callVars == <<call, accepted>>

UrlForms == {"address", "tcp", "tcp+tls", "other scheme", "no host", "unparsable"}

ASSUME InstancesAssumption == \A i \in DOMAIN Instances : Instances[i] \in UrlForms

IsTarget(t) ==
    \/ t.type = "http" /\ t.request \in {"proper", "malformed"}
    \/ t.type = "faktory" /\ t.jobType \in {"named", "empty"}
    \/ t.type = "queues"

NoCall == [pc |-> "idle", target |-> [type |-> "none"], answer |-> "none", result |-> "none"]

CallPlaces == {"called", "sending", "reading", "dialing", "pushing", "listing"}

Calling(c) == call[c].pc \in CallPlaces

InitCalls == call = [c \in Calls |-> NoCall] /\ accepted = {}

\* TriggerTarget and FaktoryQueues.
StartCall(c, t) ==
    call' = [call EXCEPT ![c].pc = "called", ![c].target = t]

\* A deferred Close goes with every end.
End(c, result) ==
    /\ call' = [call EXCEPT ![c].pc = "ended", ![c].result = result]
    /\ UNCHANGED accepted

Go(c, pc) == call' = [call EXCEPT ![c].pc = pc] /\ UNCHANGED accepted

----------------------------------------------------------------------------
\* Before anything is sent.

Dialable(url) == url \in {"address", "tcp", "tcp+tls"}

\* resolveFaktoryInstance, buildFaktoryJob, faktoryServer; for HTTP the body
\* and the request.
Ready(t) ==
    CASE t.type = "http" -> t.request = "proper"
      [] t.type = "faktory" -> /\ t.instance \in DOMAIN Instances
                               /\ t.jobType # "empty"
                               /\ Dialable(Instances[t.instance])
      [] t.type = "queues" -> /\ t.instance \in DOMAIN Instances
                              /\ Dialable(Instances[t.instance])

Prepare(c) ==
    /\ call[c].pc = "called"
    /\ IF Ready(call[c].target)
       THEN Go(c, IF call[c].target.type = "http" THEN "sending" ELSE "dialing")
       ELSE End(c, "failed")

\* server.Open: a connection, the handshake, the password.
Open(c) ==
    /\ call[c].pc = "dialing"
    /\ Go(c, IF call[c].target.type = "faktory" THEN "pushing" ELSE "listing")

----------------------------------------------------------------------------
\* The other end.

Accept(c) ==
    /\ call[c].pc \in {"sending", "pushing"}
    /\ accepted' = accepted \cup {c} /\ UNCHANGED call

\* The head of an HTTP answer, of a server that tells the truth.
Answer(c) ==
    /\ call[c].pc = "sending"
    /\ \E status \in {"2xx", "other"} :
          /\ status = "2xx" => c \in accepted
          /\ call' = [call EXCEPT ![c].pc = "reading", ![c].answer = status]
    /\ UNCHANGED accepted

\* Faktory says OK to a push.
Confirm(c) ==
    /\ call[c].pc = "pushing" /\ c \in accepted
    /\ End(c, "succeeded")

\* It lists its queues.
ListQueues(c) == call[c].pc = "listing" /\ End(c, "succeeded")

----------------------------------------------------------------------------

\* Mutant: any answer is a success.
ReadBodyOfAnyStatus(c) == call[c].pc = "reading" /\ End(c, "succeeded")

\* The body, up to maxOutputBytes; then the status decides.
ReadBody(c) ==
    /\ call[c].pc = "reading"
    /\ End(c, IF call[c].answer = "2xx" THEN "succeeded" ELSE "failed")

\* A time limit is over, the connection is refused or breaks, Faktory says an
\* error; whether the other end has acted or not.
Fail(c) ==
    /\ call[c].pc \in CallPlaces
    /\ call[c].pc = "called" => call[c].target.type = "faktory"
    /\ End(c, "failed")

CallStep(c) ==
    \/ Prepare(c) \/ Open(c) \/ Accept(c) \/ Answer(c) \/ Confirm(c) \/ ListQueues(c)
    \/ ReadBody(c) \/ Fail(c)
============================================================================
