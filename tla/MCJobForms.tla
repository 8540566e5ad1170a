------------------------------ MODULE MCJobForms ------------------------------
(* A small instance of JobForms. *)
EXTENDS JobForms

MCNames == {"a-b", "x"}
MCZones == {"UTC"}
MCCrons == {"* * * * *", "*/5 * * * *"}
MCDateTimes == {"09:00", "09:00:00", "09:00Z"}
MCTexts == {"", "cron", "rate", "once", "UTC", "nil", "default", HTTP, Faktory, "u",
            "DELETE", "POST", "PUT", "PATCH", "GET", "minutes", "hours", "days",
            "* * * * *", "*/5 * * * *", "09:00", "09:00:00", "09:00Z", "a-b", "x", "i", "k"}
MCInstances == <<"i", "k">>
MCSanitised == [at \in MCDateTimes |-> IF at = "09:00Z" THEN "" ELSE "09:00"]
MCDashed == [type \in {"", "a_b"} |-> IF type = "" THEN "" ELSE "a-b"]

Post == [type |-> HTTP, url |-> "u", body |-> "nil", method |-> "", queue |-> "",
         jobType |-> "", instance |-> ""]
Push == [Post EXCEPT !.type = Faktory, !.url = "", !.jobType = "a_b", !.instance = "k"]
Cron(n) == [name |-> n, type |-> "", cron |-> "* * * * *", zone |-> "",
            runAt |-> "", startsAt |-> "", rateInterval |-> 0, rateUnit |-> "",
            completed |-> FALSE, paused |-> FALSE, timeout |-> 7,
            concurrent |-> FALSE, target |-> Post]
Once(n, at) == [Cron(n) EXCEPT !.type = "once", !.runAt = at]
Rate(n) == [Cron(n) EXCEPT !.type = "rate", !.startsAt = "09:00:00", !.concurrent = TRUE,
                           !.rateInterval = 2, !.rateUnit = "hours"]

\* One cannot be shown, another is one-time beside a rate interval.
MCInputs == {Once("x", "09:00"), Once("x", "09:00Z"), Rate("a-b"),
             [Cron("x") EXCEPT !.target.method = "DELETE"],
             [Cron("a-b") EXCEPT !.target = Push],
             [Once("a-b", "09:00:00") EXCEPT !.target = Push, !.rateInterval = 3]}

Set(target, field, value) == [target |-> target, field |-> field, value |-> value]
MCChanges == {Set(FALSE, "name", "a-b"), Set(FALSE, "name", ""),
              Set(FALSE, "type", "cron"), Set(FALSE, "type", "once"),
              Set(FALSE, "runAt", "09:00"), Set(FALSE, "concurrent", TRUE),
              Set(TRUE, "type", Faktory), Set(TRUE, "jobType", "a_b"),
              Set(TRUE, "instance", "i")}
=============================================================================
