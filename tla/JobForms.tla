------------------------------- MODULE JobForms -------------------------------
(***************************************************************************)
(* internal/server: jobs as the web UI and the JSON API create, edit,      *)
(* pause and delete them.  A page is rendered from a job once and may be   *)
(* submitted much later, when the job was edited by another page, paused,  *)
(* completed by the scheduler, renamed or deleted.  The browser has rules  *)
(* of its own: what an input can show, what it submits, and what it        *)
(* refuses to submit.                                                      *)
(*                                                                         *)
(* A job is a schedule of ScheduleRules with allow_concurrent_runs; the    *)
(* fields of a form are kept as the job they would be.  Descriptions,      *)
(* headers and arguments, which come back as they were, are left out.      *)
(* Failures of the store are ScheduleCatalog's.                            *)
(***************************************************************************)
EXTENDS ScheduleRules, Sequences, FiniteSets

CONSTANTS
    Texts,        \* texts in a job
    Tabs,         \* browser tabs
    NoPage,
    Instances,    \* the names of the Faktory instances, in their order
    Sanitised,    \* what a datetime-local input makes of a time on a minute: itself,
                  \* or without its seconds, or "" when it has an offset
    Dashed,       \* job types with a dash for each underscore
    Changes,      \* what users change: [target : BOOLEAN, field, value]
    Inputs,       \* schedules that JSON requests submit
    MaxPages,     \* bound on pages opened
    MaxChanges,   \* bound on changes of fields
    MaxRequests   \* bound on requests and completions

Methods == {"POST", "PUT", "PATCH", "GET"}
Configured == {Instances[i] : i \in DOMAIN Instances}
FormTimes == {at \in DateTimes : Sanitised[at] = at}

Target == [type : Texts, url : Texts, body : Texts, method : Texts,
           queue : Texts, jobType : DOMAIN Dashed, instance : Texts]

Job == [name : Texts, type : Texts, cron : Texts, zone : Texts, runAt : Texts,
        startsAt : Texts, rateInterval : Int, rateUnit : Texts,
        completed : BOOLEAN, paused : BOOLEAN, concurrent : BOOLEAN,
        timeout : Int, target : Target]

Pages == [form : {HTTP, Faktory}, original : Names \cup {""}, want : Job, fields : Job]

\* What users can change, and to what: a select has its options, and an input for
\* a time holds one it can show, or nothing.
Enterable(c) ==
    IF c.target
    THEN \/ c.field \in {"url", "queue"} /\ c.value \in Texts
         \/ c.field = "jobType" /\ c.value \in DOMAIN Dashed
         \/ c.field = "type" /\ c.value \in {HTTP, Faktory}
         \/ c.field = "method" /\ c.value \in Methods
         \/ c.field = "instance" /\ c.value \in Configured \cup {""}
    ELSE \/ c.field \in {"name", "cron", "zone"} /\ c.value \in Texts
         \/ c.field = "type" /\ c.value \in {"cron", "rate", "once"}
         \/ c.field \in {"runAt", "startsAt"} /\ c.value \in FormTimes \cup {""}
         \/ c.field \in {"rateInterval", "timeout"} /\ c.value \in Int
         \/ c.field = "rateUnit" /\ c.value \in RateUnits
         \/ c.field = "concurrent" /\ c.value \in BOOLEAN

ASSUME FormsAssumption ==
    /\ "" \notin Names \cup DateTimes /\ "UTC" \in Zones
    /\ {"", "cron", "rate", "once", "UTC", "*/5 * * * *", "nil", "default", HTTP, Faktory}
         \cup Methods \cup RateUnits \cup Names \cup Zones \cup DateTimes \subseteq Texts
    /\ Instances \in Seq(Texts)
    /\ Sanitised \in [DateTimes -> FormTimes \cup {""}]
    /\ Dashed \in [DOMAIN Dashed -> Texts] /\ "" \in DOMAIN Dashed
    /\ \A c \in Changes : c.target \in BOOLEAN /\ Enterable(c)
    /\ Inputs \subseteq Job /\ NoSchedule \notin Job
    /\ NoPage \notin Pages
    /\ {MaxPages, MaxChanges, MaxRequests} \subseteq Nat

VARIABLES
    jobs,      \* the engine's schedules by name
    pages,     \* the form open in each tab, not the step of the wizard
    saved,     \* the request that the last step saved, for the properties
    opened, changed, requests  \* how often each happened, for the bounds

vars == <<jobs, pages, saved, opened, changed, requests>>

Existing(table) == {n \in Names : table[n] # NoSchedule}

NoSave == [original |-> "", name |-> "", page |-> NoPage]

Init ==
    /\ jobs = [n \in Names |-> NoSchedule]
    /\ pages = [t \in Tabs |-> NoPage]
    /\ saved = NoSave
    /\ opened = 0 /\ changed = 0 /\ requests = 0

----------------------------------------------------------------------------
\* Pages.

\* A select falls back to its first option.
Selected(value, options, first) == IF value \in options THEN value ELSE first

\* Of a text that is no time nothing is shown.
ShownTime(at) == IF at \in DateTimes THEN Sanitised[at] ELSE ""

ShownInstance(t) ==
    CASE t.type = Faktory /\ Len(Instances) > 1 -> Selected(t.instance, Configured, "")
      [] Instances = <<>>                       -> ""
      [] OTHER -> Selected(t.instance, Configured, Instances[1])

ShownTarget(t) == [t EXCEPT !.body = "nil", !.instance = ShownInstance(t),
                            !.method = Selected(@, Methods, "POST")]

\* Mutant: no option of allow_concurrent_runs is marked as selected.
ShownFirst(s) ==
    [s EXCEPT !.runAt = ShownTime(@), !.startsAt = ShownTime(@),
              !.rateUnit = Selected(@, RateUnits, "minutes"),
              !.timeout = IF s.target.type = Faktory THEN 5 ELSE @,
              !.completed = FALSE, !.paused = FALSE,
              !.concurrent = s.target.type = Faktory,
              !.target = ShownTarget(@)]

\* The fields of a fresh page.  There are none for completed_at, paused and the
\* body, and the timeout of a Faktory job is hidden and fixed.
Shown(s) ==
    [s EXCEPT !.runAt = ShownTime(@), !.startsAt = ShownTime(@),
              !.rateUnit = Selected(@, RateUnits, "minutes"),
              !.timeout = IF s.target.type = Faktory THEN 5 ELSE @,
              !.completed = FALSE, !.paused = FALSE,
              !.target = ShownTarget(@)]

\* want is what the user means to have: the job shown, and every change made.
Page(original, s) ==
    [form |-> s.target.type, original |-> original, want |-> s, fields |-> Shown(s)]

NewJob(zone, startsAt, runAt) ==
    [name |-> "", type |-> "rate", cron |-> "*/5 * * * *", zone |-> zone,
     runAt |-> runAt, startsAt |-> startsAt, rateInterval |-> 5,
     rateUnit |-> "minutes", completed |-> FALSE, paused |-> FALSE,
     timeout |-> 5, concurrent |-> TRUE,
     target |-> [type |-> Faktory, url |-> "", body |-> "nil", method |-> "",
                 queue |-> "", jobType |-> "",
                 instance |-> IF Len(Instances) = 1 THEN Instances[1] ELSE ""]]

\* What the page of a job, or of a new one, can look like now.  The picker leads
\* to a new Faktory job and to no other, and only with an instance to push to.
Rendered(n) ==
    IF n \in Names
    THEN {IF jobs[n] = NoSchedule THEN NoPage ELSE Page(n, jobs[n])}
    ELSE {Page(n, NewJob(zone, startsAt, runAt)) :
            zone \in Zones, startsAt \in FormTimes, runAt \in FormTimes}

Open(t, n) ==
    /\ opened < MaxPages /\ opened' = opened + 1
    /\ n = "" => Instances # <<>>
    /\ \E page \in Rendered(n) \ {NoPage} : pages' = [pages EXCEPT ![t] = page]
    /\ saved' = NoSave
    /\ UNCHANGED <<jobs, changed, requests>>

Put(s, c) == IF c.target THEN [s EXCEPT !.target[c.field] = c.value]
                         ELSE [s EXCEPT ![c.field] = c.value]

\* Each form has the fields of its kind: the wizard has no name, timeout, URL,
\* method or target type.
HasField(form, c) ==
    \/ form = HTTP
    \/ c.field \notin (IF c.target THEN {"type", "url", "method"} ELSE {"name", "timeout"})

Change(t, c) ==
    /\ pages[t] # NoPage /\ HasField(pages[t].form, c)
    /\ changed < MaxChanges /\ changed' = changed + 1
    /\ pages' = [pages EXCEPT ![t].want = Put(@, c), ![t].fields = Put(@, c)]
    /\ saved' = NoSave
    /\ UNCHANGED <<jobs, opened, requests>>

\* The wizard's Continue names a new job after its job type.
Continue(t) ==
    /\ pages[t] # NoPage /\ pages[t].original = ""
    /\ pages' = [pages EXCEPT ![t].fields.name = Dashed[pages[t].fields.target.jobType]]
    /\ pages' # pages
    /\ saved' = NoSave
    /\ UNCHANGED <<jobs, opened, changed, requests>>

----------------------------------------------------------------------------
\* Requests.

\* Mutant: fields of the kinds of schedule not chosen stay enabled.
SentAlways(p, type) == TRUE

\* The form of an HTTP job disables them; a disabled field is neither checked
\* nor submitted.
Sent(p, type) == p.form = Faktory \/ p.fields.type = type

\* Constraint validation, of hidden fields too: min, and required.
BrowserAccepts(p) ==
    LET f == p.fields
    IN  /\ Sent(p, "rate") => f.rateInterval > 0
        /\ p.form = HTTP => /\ f.name # ""
                            /\ f.type = "rate" => f.startsAt # ""
                            /\ f.type = "once" => f.runAt # ""
                            /\ f.type = "cron" => f.cron # ""
                            /\ f.target.type = HTTP => f.target.url # ""
        /\ f.target.type = Faktory => /\ f.target.jobType # ""
                                      /\ Len(Instances) > 1 => f.target.instance # ""

\* scheduleFromRequest, which reads the parameters of one target.
TargetOf(f) ==
    IF f.type = HTTP THEN [f EXCEPT !.queue = "", !.jobType = "", !.instance = ""]
                     ELSE [f EXCEPT !.url = "", !.method = ""]

Submitted(p) ==
    LET Value(type, value, none) == IF Sent(p, type) THEN value ELSE none
    IN  [p.fields EXCEPT !.cron = Value("cron", @, ""), !.runAt = Value("once", @, ""),
                         !.startsAt = Value("rate", @, ""),
                         !.rateInterval = Value("rate", @, 0),
                         !.rateUnit = Value("rate", @, ""),
                         !.target = TargetOf(@)]

\* Mutant: it is not asked whether the job to edit is still there.
CanSaveGone(original, s) ==
    /\ ValidSchedule(s, Configured)
    /\ original # s.name => jobs[s.name] = NoSchedule

CanSave(original, s) ==
    /\ ValidSchedule(s, Configured)
    /\ original # "" => jobs[original] # NoSchedule
    /\ original # s.name => jobs[s.name] = NoSchedule

\* Mutant: an edit is stored under the name the job had.
SavedInPlace(original, s) ==
    [jobs EXCEPT ![IF original = "" THEN s.name ELSE original] = NormalizeSchedule(s)]

Saved(original, s) ==
    LET old == IF original = "" THEN NoSchedule ELSE jobs[original]
    IN  [n \in Names |->
           CASE n = s.name -> WithCompletion(NormalizeSchedule(s), old)
             [] n # s.name /\ n = original -> NoSchedule
             [] OTHER -> jobs[n]]

Request == requests < MaxRequests /\ requests' = requests + 1

\* After an error the browser is sent back to the page, which is rendered afresh:
\* what was typed is lost.
SentBack(p) == Rendered(p.original)

\* After a success it goes to the list of jobs.
Submit(t) ==
    LET p == pages[t]
        s == Submitted(p)
    IN  /\ p # NoPage /\ BrowserAccepts(p)
        /\ Request
        /\ \/ /\ CanSave(p.original, s)
              /\ jobs' = Saved(p.original, s)
              /\ pages' = [pages EXCEPT ![t] = NoPage]
              /\ saved' = [original |-> p.original, name |-> s.name, page |-> p]
           \/ /\ ~CanSave(p.original, s)
              /\ \E page \in SentBack(p) : pages' = [pages EXCEPT ![t] = page]
              /\ saved' = NoSave /\ UNCHANGED jobs
        /\ UNCHANGED <<opened, changed>>

\* A JSON request has the whole schedule.
PostJson(original, s) ==
    /\ Request
    /\ CanSave(original, s)
    /\ jobs' = Saved(original, s)
    /\ saved' = [original |-> original, name |-> s.name, page |-> NoPage]
    /\ UNCHANGED <<pages, opened, changed>>

\* The buttons in the list of jobs know only the name.
ChangeJob(n, s) ==
    /\ Request
    /\ jobs[n] # NoSchedule
    /\ jobs' = [jobs EXCEPT ![n] = s]
    /\ saved' = NoSave
    /\ UNCHANGED <<pages, opened, changed>>

TogglePause(n) == ChangeJob(n, [jobs[n] EXCEPT !.paused = ~@])
DeleteJob(n) == ChangeJob(n, NoSchedule)

\* The scheduler has started the run of a one-time job, which may have been
\* paused or edited since it fired.
Complete(n) ==
    /\ jobs[n] # NoSchedule
    /\ jobs[n].type = "once" /\ ~jobs[n].completed
    /\ ChangeJob(n, [jobs[n] EXCEPT !.completed = TRUE])

Next ==
    \/ \E t \in Tabs : \/ \E n \in Names \cup {""} : Open(t, n)
                       \/ \E c \in Changes : Change(t, c)
                       \/ Continue(t) \/ Submit(t)
    \/ \E original \in Names \cup {""}, s \in Inputs : PostJson(original, s)
    \/ \E n \in Names : TogglePause(n) \/ DeleteJob(n) \/ Complete(n)

Spec == Init /\ [][Next]_vars

----------------------------------------------------------------------------
\* Correctness.

\* Whatever is submitted, jobs are kept under their names with everything
\* filled in, and the next start accepts them.
TypeOK ==
    /\ jobs \in [Names -> Job \cup {NoSchedule}]
    /\ \A n \in Existing(jobs) :
         /\ jobs[n].name = n /\ jobs[n] = NormalizeSchedule(jobs[n])
         /\ ValidSchedule(jobs[n], Configured)
    /\ pages \in [Tabs -> Pages \cup {NoPage}]
    /\ saved \in [original : Names \cup {""}, name : Names \cup {""},
                  page : Pages \cup {NoPage}]
    /\ opened \in 0..MaxPages /\ changed \in 0..MaxChanges
    /\ requests \in 0..MaxRequests

\* All that counts for the kind of job w is.  The name of a new Faktory job and
\* the timeout of an edited one are not the user's to choose, and a method, a
\* unit or an instance that is not among a select's options is lost.
SameJob(s, w, p) ==
    /\ s.type = w.type /\ s.zone = w.zone /\ s.concurrent = w.concurrent
    /\ p.original # "" => s.name = w.name
    /\ w.type = "cron" => s.cron = w.cron
    /\ w.type = "once" => s.runAt = ShownTime(w.runAt)
    /\ w.type = "rate" => /\ s.startsAt = ShownTime(w.startsAt)
                          /\ s.rateInterval = w.rateInterval
                          /\ w.rateUnit \in RateUnits => s.rateUnit = w.rateUnit
    /\ p.form = HTTP => s.timeout = w.timeout
    /\ s.target.type = w.target.type
    /\ IF w.target.type = HTTP
       THEN /\ s.target.url = w.target.url
            /\ w.target.method \in Methods => s.target.method = w.target.method
       ELSE /\ s.target.jobType = w.target.jobType /\ s.target.queue = w.target.queue
            /\ w.target.instance \in Configured => s.target.instance = w.target.instance

\* A page that is accepted makes the job what the page was opened on with the
\* user's changes, through the form, the browser, the parser and the defaults:
\* an edit neither drops nor adds anything that bears on when and how the job
\* runs.  (It does resume a paused job and forget the body of a request: the
\* form has no such fields.)
EditsSayWhatTheyDo ==
    saved.page # NoPage =>
      SameJob(jobs[saved.name], NormalizeSchedule(saved.page.want), saved.page)

\* Only a request that creates adds a job, it adds one, and no other request to
\* save changes how many there are: a page open since before its job was deleted
\* or renamed does not bring it back, and no rename or new job replaces another.
EditsNeverCreate ==
    [][saved' # NoSave =>
         Cardinality(Existing(jobs')) = Cardinality(Existing(jobs))
                                        + (IF saved'.original = "" THEN 1 ELSE 0)]_vars

\* A one-time job that fired while its page was open, or before, is not armed
\* again by submitting the page, renamed or not, unless the page changes the
\* time or zone the job has now.  Times the form does not show as they are written
\* are excepted.
PagesKeepCompletion ==
    [][saved' # NoSave /\ saved'.original # "" /\ saved'.page # NoPage =>
         LET old == jobs[saved'.original]
             want == saved'.page.want
         IN  /\ old.type = "once" /\ old.completed /\ old.runAt \in FormTimes
             /\ want.type = "once" /\ want.runAt = old.runAt /\ want.zone = old.zone
             => jobs'[saved'.name].completed]_vars

\* On page p, which shows the job as it is, saving is possible.
CanBeSaved(p) == BrowserAccepts(p) /\ CanSave(p.original, Submitted(p))
Untouched(p) ==
    /\ p # NoPage /\ p.original # ""
    /\ p.want = jobs[p.original] /\ p.fields = Shown(p.want)

\* What the job has of a time, a datetime-local input can show.
TimesShow(p) ==
    /\ p.want.type = "once" => p.fields.runAt # ""
    /\ p.want.type = "rate" => p.fields.startsAt # ""

\* The edit page of a job can be saved as it is, if its time is one that the form
\* can show (it has no offset) and, for a Faktory job, if it has a rate interval:
\* the rules of the browser and of the parser refuse no other job that the engine
\* accepted, whether a page or a JSON request made it.
UntouchedPagesAreAccepted ==
    \A t \in Tabs :
        /\ Untouched(pages[t]) /\ TimesShow(pages[t])
        /\ pages[t].form = Faktory => pages[t].want.rateInterval > 0
        => CanBeSaved(pages[t])

\* README:172 "Faktory jobs can be created and edited in the UI": so can the one
\* of README:181, which is on a cron schedule.
FaktoryJobsAreEditable ==
    \A t \in Tabs :
        Untouched(pages[t]) /\ pages[t].form = Faktory /\ TimesShow(pages[t])
        => CanBeSaved(pages[t])
=============================================================================
