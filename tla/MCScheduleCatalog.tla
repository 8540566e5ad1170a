-------------------------- MODULE MCScheduleCatalog --------------------------
(* Small instances of ScheduleCatalog. *)
EXTENDS ScheduleCatalog

MCNames == {"a", "b"}
MCZones == {"UTC"}
MCCrons == {"* * * * *"}
MCTexts == {"", "cron", "rate", "once", "UTC", "* * * * *", "61 * * * *", "09:00",
            "10:00", "hours", "http", "faktory", "u", "nil", "{}", "POST",
            "default", "j", "i"}
MCDateTimes == {"09:00", "10:00"}

Post == [type |-> HTTP, url |-> "u", body |-> "nil", method |-> "", queue |-> "",
         jobType |-> "", instance |-> ""]
Push == [Post EXCEPT !.type = Faktory, !.jobType = "j", !.instance = "i"]

Cron(n) == [name |-> n, type |-> "", cron |-> "* * * * *", zone |-> "",
            runAt |-> "", startsAt |-> "", rateInterval |-> 0, rateUnit |-> "",
            completed |-> FALSE, paused |-> FALSE, timeout |-> 0, target |-> Post]
Once(n, at) == [Cron(n) EXCEPT !.type = "once", !.runAt = at]
Unparsable(n) == [Cron(n) EXCEPT !.cron = "61 * * * *"]
BadRate(n) == [Cron(n) EXCEPT !.type = "rate", !.startsAt = "09:00",
                              !.rateUnit = "hours"]
Pushing(n) == [Cron(n) EXCEPT !.target = Push]

File(ss, instances) == [schedules |-> ss, instances |-> instances]

AllInputs == UNION {{Cron(n), Once(n, "09:00"), Unparsable(n), BadRate(n),
                      Pushing(n)} : n \in MCNames}
NoInputs == {}

\* The file of the passing run gains and loses a Faktory instance.
SomeFiles == {File({Cron("a")}, {"i"}), File({Cron("a")}, {})}
BadThenGood == {File({Unparsable("a")}, {}), File({Cron("a")}, {})}
=============================================================================
