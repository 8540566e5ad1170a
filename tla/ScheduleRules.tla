---------------------------- MODULE ScheduleRules ----------------------------
(***************************************************************************)
(* internal/config and the parts of internal/engine and internal/store     *)
(* that look at one schedule alone: what is filled in, what is accepted,   *)
(* what the cron library is given, and what the store gives back.  A text  *)
(* is a name for all texts that are treated alike: "" is absent, and what  *)
(* is in none of the sets below is malformed.                              *)
(***************************************************************************)
EXTENDS Integers

CONSTANTS Names,      \* names made of letters, digits, dots, dashes, underscores
          Zones,      \* time zones that can be loaded
          Crons,      \* cron expressions that parse
          DateTimes,  \* local times that parse, in any zone
          NoSchedule

RateUnits == {"minutes", "hours", "days"}
HTTP == "http"
Faktory == "faktory"

OrElse(text, default) == IF text = "" THEN default ELSE text

WithDefaults(t) ==
    [t EXCEPT !.method = OrElse(@, "POST"),
              !.queue = IF t.type = Faktory THEN OrElse(@, "default") ELSE @]

NormalizeSchedule(s) ==
    [s EXCEPT !.type = OrElse(@, "cron"),
              !.zone = OrElse(@, "UTC"),
              !.timeout = IF @ = 0 THEN 30 ELSE @,
              !.target = WithDefaults(@)]

ValidTiming(s) ==
    \/ s.type = "once" /\ s.runAt \in DateTimes
    \/ /\ s.type = "rate" /\ s.startsAt \in DateTimes
       /\ s.rateInterval > 0 /\ s.rateUnit \in RateUnits
    \/ s.type = "cron" /\ s.cron # ""

ValidTarget(t) ==
    \/ t.type = HTTP /\ t.url # ""
    \/ t.type = Faktory /\ t.instance # "" /\ t.jobType # ""

\* Config.Validate for one schedule beside the Faktory instances of the file.
\* A cron expression only has to be there.
ValidConfig(s, instances) ==
    LET n == NormalizeSchedule(s)
    IN  /\ n.name \in Names
        /\ n.zone \in Zones
        /\ ValidTiming(n)
        /\ ValidTarget(n.target)
        /\ n.target.type = Faktory => n.target.instance \in instances

\* validateSchedule of the engine adds the parser.
ValidSchedule(s, instances) ==
    /\ ValidConfig(s, instances)
    /\ NormalizeSchedule(s).type = "cron" => s.cron \in Crons

\* Mutant: an edit does not keep completed_at.
WithoutCompletion(s, old) == s

\* Mutant: nor does a rename.
WithCompletionOfName(s, old) ==
    IF /\ old # NoSchedule
       /\ s.type = "once" /\ old.type = "once" /\ s.name = old.name
       /\ s.runAt = old.runAt /\ s.zone = old.zone
    THEN [s EXCEPT !.completed = @ \/ old.completed]
    ELSE s

\* In SaveSchedule completed_at of the original is kept while the time stays.
WithCompletion(s, old) ==
    IF /\ old # NoSchedule
       /\ s.type = "once" /\ old.type = "once"
       /\ s.runAt = old.runAt /\ s.zone = old.zone
       /\ ~s.completed
    THEN [s EXCEPT !.completed = old.completed]
    ELSE s

\* cronSchedule fails, or its switch has no case.
NotSchedulable(s) ==
    \/ s.zone \notin Zones
    \/ CASE s.type = "cron" -> s.cron \notin Crons
         [] s.type = "rate" -> s.startsAt \notin DateTimes
         [] s.type = "once" -> s.runAt \notin DateTimes
         [] OTHER -> TRUE

\* What ListSchedules returns of a schedule after SaveSchedule: the JSON form
\* leaves out an empty body, arguments and headers, which come back as nil.
WithoutEmpty(t) == [t EXCEPT !.body = IF @ = "{}" THEN "nil" ELSE @]

Reloaded(s) == [NormalizeSchedule(s) EXCEPT !.target = WithoutEmpty(@)]
=============================================================================
