---------------------------- MODULE JobFormsProofs ----------------------------
(***************************************************************************)
(* Proofs about JobForms: what a job loses and keeps on its way through a  *)
(* page, the browser, the parser and the defaults.  What ties a page to    *)
(* what its user means is Follows; it holds from the page's opening on,    *)
(* through every change.                                                   *)
(***************************************************************************)
EXTENDS JobForms, FiniteSetTheorems, SequenceTheorems, TLAPS

----------------------------------------------------------------------------
\* Jobs as values.

FieldNames == {"name", "type", "cron", "zone", "runAt", "startsAt", "rateInterval",
               "rateUnit", "completed", "paused", "concurrent", "timeout", "target"}

LEMMA SomeTexts ==
    /\ {"", "cron", "rate", "once", "UTC", "nil", "*/5 * * * *", "default", "http",
        "faktory", "minutes", "hours", "days", "POST", "PUT", "PATCH", "GET"} \subseteq Texts
    /\ Names \subseteq Texts /\ Zones \subseteq Texts /\ DateTimes \subseteq Texts
    /\ Configured \subseteq Texts /\ FormTimes \subseteq Texts
  <1>1. {"", "cron", "rate", "once", "UTC", "nil", "*/5 * * * *", "default", HTTP, Faktory}
          \cup Methods \cup RateUnits \cup Names \cup Zones \cup DateTimes \subseteq Texts
    BY FormsAssumption
  <1>2. /\ {"", "cron", "rate", "once", "UTC", "nil", "*/5 * * * *", "default"} \subseteq Texts
        /\ HTTP \in Texts /\ Faktory \in Texts /\ Methods \subseteq Texts
        /\ RateUnits \subseteq Texts
        /\ Names \subseteq Texts /\ Zones \subseteq Texts /\ DateTimes \subseteq Texts
    BY <1>1
  <1>3. Instances \in [1..Len(Instances) -> Texts]
    BY FormsAssumption, LenProperties
  <1>4. Configured \subseteq Texts
    BY <1>3 DEF Configured
  <1>5. FormTimes \subseteq Texts
    BY <1>2 DEF FormTimes
  <1> QED
    BY <1>2, <1>4, <1>5 DEF Methods, RateUnits, HTTP, Faktory

LEMMA Defaults ==
    ASSUME NEW t \in Target
    PROVE  /\ WithDefaults(t) \in Target
           /\ WithDefaults(t).type = t.type /\ WithDefaults(t).url = t.url
           /\ WithDefaults(t).body = t.body /\ WithDefaults(t).jobType = t.jobType
           /\ WithDefaults(t).instance = t.instance
           /\ WithDefaults(t).method = OrElse(t.method, "POST")
           /\ WithDefaults(t).queue = IF t.type = Faktory THEN OrElse(t.queue, "default")
                                                         ELSE t.queue
           /\ WithDefaults(WithDefaults(t)) = WithDefaults(t)
  <1>1. PICK m \in Texts : m = OrElse(t.method, "POST") /\ OrElse(m, "POST") = m
    BY SomeTexts DEF Target, OrElse
  <1>2. PICK q \in Texts :
          /\ q = IF t.type = Faktory THEN OrElse(t.queue, "default") ELSE t.queue
          /\ t.type = Faktory => OrElse(q, "default") = q
    BY SomeTexts DEF Target, OrElse
  <1> DEFINE d == [t EXCEPT !.method = m, !.queue = q]
  <1>3. WithDefaults(t) = d
    BY <1>1, <1>2 DEF WithDefaults, Target
  <1>4. /\ d \in Target /\ d.method = m /\ d.queue = q /\ d.type = t.type
        /\ d.url = t.url /\ d.body = t.body /\ d.jobType = t.jobType
        /\ d.instance = t.instance
    BY DEF Target
  <1>5. WithDefaults(d) = [d EXCEPT !.method = m, !.queue = q]
    BY <1>1, <1>2, <1>4 DEF WithDefaults
  <1>6. WithDefaults(d) = d
    BY <1>4, <1>5 DEF Target
  <1> QED
    BY <1>1, <1>2, <1>3, <1>4, <1>6

\* Filling in defaults keeps a job a job, touches four fields, and does nothing
\* the second time.
LEMMA Normalised ==
    ASSUME NEW s \in Job
    PROVE  /\ NormalizeSchedule(s) \in Job
           /\ \A f \in {"name", "cron", "runAt", "startsAt", "rateInterval",
                        "rateUnit", "completed", "paused", "concurrent"} :
                NormalizeSchedule(s)[f] = s[f]
           /\ NormalizeSchedule(s).type = OrElse(s.type, "cron")
           /\ NormalizeSchedule(s).zone = OrElse(s.zone, "UTC")
           /\ NormalizeSchedule(s).timeout = IF s.timeout = 0 THEN 30 ELSE s.timeout
           /\ NormalizeSchedule(s).target = WithDefaults(s.target)
           /\ NormalizeSchedule(NormalizeSchedule(s)) = NormalizeSchedule(s)
  <1>1. s.target \in Target
    BY DEF Job
  <1>2. PICK t \in Target : t = WithDefaults(s.target) /\ WithDefaults(t) = t
    BY <1>1, Defaults
  <1>3. PICK k \in Texts : k = OrElse(s.type, "cron") /\ OrElse(k, "cron") = k
    BY SomeTexts DEF Job, OrElse
  <1>4. PICK z \in Texts : z = OrElse(s.zone, "UTC") /\ OrElse(z, "UTC") = z
    BY SomeTexts DEF Job, OrElse
  <1>5. PICK d \in Int : /\ d = IF s.timeout = 0 THEN 30 ELSE s.timeout
                         /\ d # 0
    BY DEF Job
  <1> DEFINE n == [s EXCEPT !.type = k, !.zone = z, !.timeout = d, !.target = t]
  <1>6. NormalizeSchedule(s) = n
    BY <1>2, <1>3, <1>4, <1>5 DEF NormalizeSchedule, Job
  <1>7. /\ n \in Job /\ n.target = t /\ n.type = k /\ n.zone = z /\ n.timeout = d
        /\ \A f \in {"name", "cron", "runAt", "startsAt", "rateInterval",
                     "rateUnit", "completed", "paused", "concurrent"} : n[f] = s[f]
    BY DEF Job
  <1>8. NormalizeSchedule(n) = [n EXCEPT !.type = k, !.zone = z, !.timeout = d,
                                         !.target = t]
    BY <1>2, <1>3, <1>4, <1>5, <1>7 DEF NormalizeSchedule
  <1>9. NormalizeSchedule(n) = n
    BY <1>7, <1>8 DEF Job
  <1> QED
    BY <1>2, <1>3, <1>4, <1>5, <1>6, <1>7, <1>9

\* Jobs in the engine's table: under their names, normalised and valid.
Kept(s) == /\ s \in Job /\ s.name \in Names
           /\ s = NormalizeSchedule(s) /\ ValidSchedule(s, Configured)

\* No rule looks at completed_at or at the paused flag.
LEMMA FlagsAreFree ==
    ASSUME NEW s, Kept(s), NEW b \in BOOLEAN,
           NEW t \in {[s EXCEPT !.completed = b], [s EXCEPT !.paused = b]}
    PROVE  Kept(t) /\ t.name = s.name
  <1>1. /\ t \in Job /\ s \in Job /\ s = NormalizeSchedule(s)
        /\ \A f \in {"name", "type", "cron", "zone", "runAt", "startsAt",
                     "rateInterval", "rateUnit", "concurrent", "timeout", "target"} :
             t[f] = s[f]
    BY DEF Kept, Job
  <1>2. NormalizeSchedule(t) = t
    <2>1. /\ t.type = OrElse(t.type, "cron") /\ t.zone = OrElse(t.zone, "UTC")
          /\ t.timeout = IF t.timeout = 0 THEN 30 ELSE t.timeout
          /\ t.target = WithDefaults(t.target)
      BY <1>1, Normalised
    <2>2. NormalizeSchedule(t) = [t EXCEPT !.type = t.type, !.zone = t.zone,
                                           !.timeout = t.timeout, !.target = t.target]
      BY <2>1 DEF NormalizeSchedule
    <2> QED
      BY <1>1, <2>2 DEF Job
  <1>3. ValidSchedule(t, Configured)
    <2>1. ValidTiming(s) => ValidTiming(t)
      BY <1>1 DEF ValidTiming
    <2> QED
      BY <1>1, <1>2, <2>1 DEF Kept, ValidSchedule, ValidConfig
  <1> QED
    BY <1>1, <1>2, <1>3 DEF Kept

\* A request that is accepted stores a job that is kept.
LEMMA AcceptedIsKept ==
    ASSUME NEW s \in Job, ValidSchedule(s, Configured)
    PROVE  Kept(NormalizeSchedule(s)) /\ s.name \in Names
  <1>1. PICK n \in Job : n = NormalizeSchedule(s) /\ NormalizeSchedule(n) = n
                         /\ n.name = s.name /\ n.cron = s.cron
    BY Normalised
  <1>2. ValidSchedule(n, Configured) /\ n.name \in Names
    BY <1>1 DEF ValidSchedule, ValidConfig
  <1> QED
    BY <1>1, <1>2 DEF Kept

LEMMA CompletionIsKept ==
    ASSUME NEW s, Kept(s), NEW old \in Job \cup {NoSchedule}
    PROVE  /\ Kept(WithCompletion(s, old))
           /\ \A f \in FieldNames \ {"completed"} : WithCompletion(s, old)[f] = s[f]
  <1>1. s \in Job
    BY DEF Kept
  <1>2. CASE old \in Job
    <2>1. old.completed \in BOOLEAN
      BY <1>2 DEF Job
    <2> QED
      BY <1>1, <2>1, FlagsAreFree DEF WithCompletion, Job, FieldNames
  <1> QED
    BY <1>1, <1>2 DEF WithCompletion

----------------------------------------------------------------------------
\* Pages.

\* The job that a page was opened on, if any.
Originals == Names \cup {""}

Edits(p) == p.original # ""

LEMMA PageSet ==
    Pages = [form : {HTTP, Faktory}, original : Originals, want : Job, fields : Job]
  BY DEF Pages, Originals

\* What the fields of a page have to do with what its user means.
Follows(p) ==
    LET w == p.want
        f == p.fields
    IN  /\ w.type \in {"cron", "rate", "once"}
        /\ f.type = w.type /\ f.zone = w.zone /\ f.cron = w.cron
        /\ f.concurrent = w.concurrent /\ f.rateInterval = w.rateInterval
        /\ f.runAt = ShownTime(w.runAt) /\ f.startsAt = ShownTime(w.startsAt)
        /\ f.rateUnit = Selected(w.rateUnit, RateUnits, "minutes")
        /\ Edits(p) => f.name = w.name
        /\ p.form = HTTP => f.timeout = w.timeout
        /\ f.target.type = w.target.type /\ f.target.url = w.target.url
        /\ f.target.jobType = w.target.jobType /\ f.target.queue = w.target.queue
        /\ f.target.method = Selected(w.target.method, Methods, "POST")
        /\ w.target.instance \in Configured => f.target.instance = w.target.instance

LEMMA ShownTimes ==
    /\ \A at : ShownTime(at) \in FormTimes \cup {""}
    /\ \A at \in FormTimes \cup {""} : ShownTime(at) = at
  BY FormsAssumption DEF ShownTime, FormTimes

LEMMA ShownInstances ==
    ASSUME NEW t \in Target
    PROVE  /\ ShownInstance(t) \in Texts
           /\ t.instance \in Configured => ShownInstance(t) = t.instance
  <1>0. Instances \in Seq(Texts)
    BY FormsAssumption
  <1>1. /\ Len(Instances) \in Nat /\ DOMAIN Instances = 1..Len(Instances)
        /\ Instances \in [1..Len(Instances) -> Texts]
        /\ Len(Instances) = 0 <=> Instances = <<>>
    BY <1>0, LenProperties, EmptySeq
  <1>2. Instances # <<>> => Instances[1] \in Texts
    BY <1>1
  <1>3. Instances = <<>> => Configured = {}
    BY <1>1 DEF Configured
  <1> QED
    BY <1>1, <1>2, <1>3, SomeTexts DEF ShownInstance, Selected, Target

\* The fields of a page are those of a job, and on opening they follow it.
LEMMA ShownFollows ==
    ASSUME NEW s \in Job, s.type \in {"cron", "rate", "once"},
           s.target.type \in {HTTP, Faktory}, NEW original \in Originals
    PROVE  Page(original, s) \in Pages /\ Follows(Page(original, s))
  <1>1. s.target \in Target
    BY DEF Job
  <1> DEFINE d == IF s.target.type = Faktory THEN 5 ELSE s.timeout
  <1>8. d \in Int /\ (s.target.type = HTTP => d = s.timeout)
    BY DEF Job, HTTP, Faktory
  <1>2. PICK m \in Texts : m = Selected(s.target.method, Methods, "POST")
    BY <1>1, SomeTexts DEF Selected, Target
  <1>3. PICK i \in Texts : /\ i = ShownInstance(s.target)
                           /\ s.target.instance \in Configured => i = s.target.instance
    BY <1>1, ShownInstances
  <1> DEFINE t == [s.target EXCEPT !.body = "nil", !.instance = i, !.method = m]
  <1>4. /\ t \in Target /\ t.method = m /\ t.instance = i /\ t.type = s.target.type
        /\ t.url = s.target.url /\ t.jobType = s.target.jobType
        /\ t.queue = s.target.queue
    BY <1>1, SomeTexts DEF Target
  <1>5. PICK r \in Texts : r = ShownTime(s.runAt)
    BY ShownTimes, SomeTexts
  <1>6. PICK a \in Texts : a = ShownTime(s.startsAt)
    BY ShownTimes, SomeTexts
  <1>7. PICK u \in Texts : u = Selected(s.rateUnit, RateUnits, "minutes")
    BY SomeTexts DEF Selected, Job
  <1>0. t = ShownTarget(s.target)
    BY <1>2, <1>3 DEF ShownTarget
  <1> HIDE DEF t
  <1> DEFINE f == [s EXCEPT !.runAt = r, !.startsAt = a, !.rateUnit = u, !.timeout = d,
                            !.completed = FALSE, !.paused = FALSE, !.target = t]
  <1>9. Shown(s) = f
    BY <1>0, <1>5, <1>6, <1>7 DEF Shown
  <1> HIDE DEF d
  <1>10. /\ f \in Job /\ f.runAt = r /\ f.startsAt = a /\ f.rateUnit = u
         /\ f.timeout = d /\ f.target = t /\ f.name = s.name /\ f.type = s.type
         /\ f.zone = s.zone /\ f.cron = s.cron /\ f.concurrent = s.concurrent
         /\ f.rateInterval = s.rateInterval
    BY <1>4, <1>8 DEF Job
  <1> HIDE DEF f
  <1>11. /\ Page(original, s).form = s.target.type /\ Page(original, s).want = s
         /\ Page(original, s).fields = f /\ Page(original, s).original = original
         /\ Page(original, s) \in Pages
    BY <1>9, <1>10, PageSet DEF Page
  <1> QED
    BY <1>2, <1>3, <1>4, <1>5, <1>6, <1>7, <1>8, <1>10, <1>11 DEF Follows

----------------------------------------------------------------------------
\* Changes.

TargetFieldNames == {"type", "url", "body", "method", "queue", "jobType", "instance"}

LEMMA PutField ==
    ASSUME NEW s \in Job, NEW c \in Changes, ~c.target
    PROVE  /\ Put(s, c) \in Job
           /\ \A k \in FieldNames : Put(s, c)[k] = IF k = c.field THEN c.value ELSE s[k]
  <1>1. Enterable(c) /\ c.target \in BOOLEAN
    BY FormsAssumption
  <1>2. /\ FormTimes \cup {""} \subseteq Texts /\ RateUnits \subseteq Texts
        /\ {"cron", "rate", "once"} \subseteq Texts
    BY SomeTexts DEF RateUnits
  <1>3. \/ c.field \in {"name", "cron", "zone", "type", "runAt", "startsAt", "rateUnit"}
              /\ c.value \in Texts
        \/ c.field \in {"rateInterval", "timeout"} /\ c.value \in Int
        \/ c.field = "concurrent" /\ c.value \in BOOLEAN
    BY <1>1, <1>2 DEF Enterable
  <1> DEFINE q == [s EXCEPT ![c.field] = c.value]
  <1>4. Put(s, c) = q
    BY DEF Put
  <1>5. DOMAIN q = FieldNames
        /\ \A k \in FieldNames : q[k] = IF k = c.field THEN c.value ELSE s[k]
    BY DEF Job, FieldNames
  <1>6. q \in Job
    BY <1>3 DEF Job
  <1> QED
    BY <1>4, <1>5, <1>6

LEMMA PutTargetField ==
    ASSUME NEW s \in Job, NEW c \in Changes, c.target
    PROVE  /\ Put(s, c) \in Job
           /\ \A k \in FieldNames \ {"target"} : Put(s, c)[k] = s[k]
           /\ \A k \in TargetFieldNames :
                Put(s, c).target[k] = IF k = c.field THEN c.value ELSE s.target[k]
  <1>1. Enterable(c) /\ s.target \in Target
    BY FormsAssumption DEF Job
  <1>2. /\ Methods \subseteq Texts /\ Configured \cup {""} \subseteq Texts
        /\ {HTTP, Faktory} \subseteq Texts
    BY SomeTexts DEF Methods, HTTP, Faktory
  <1>3. \/ c.field \in {"url", "queue", "type", "method", "instance"} /\ c.value \in Texts
        \/ c.field = "jobType" /\ c.value \in DOMAIN Dashed
    BY <1>1, <1>2 DEF Enterable
  <1> DEFINE t == [s.target EXCEPT ![c.field] = c.value]
  <1>4. /\ t \in Target
        /\ \A k \in TargetFieldNames : t[k] = IF k = c.field THEN c.value ELSE s.target[k]
    BY <1>1, <1>3 DEF Target, TargetFieldNames
  <1>5. Put(s, c) = [s EXCEPT !.target = t]
    BY DEF Put
  <1> HIDE DEF t
  <1> QED
    BY <1>4, <1>5 DEF Job, FieldNames

LEMMA PutFollows ==
    ASSUME NEW p \in Pages, Follows(p), NEW c \in Changes,
           NEW q, q = [p EXCEPT !.want = Put(@, c), !.fields = Put(@, c)]
    PROVE  q \in Pages /\ Follows(q)
  <1>1. /\ p.want \in Job /\ p.fields \in Job
        /\ p \in [form : {HTTP, Faktory}, original : Originals, want : Job, fields : Job]
    BY PageSet
  <1>2. Put(p.want, c) \in Job /\ Put(p.fields, c) \in Job
    BY <1>1, PutField, PutTargetField, FormsAssumption
  <1>3. /\ q.want = Put(p.want, c) /\ q.fields = Put(p.fields, c)
        /\ q.form = p.form /\ q.original = p.original /\ q \in Pages
    BY <1>1, <1>2, PageSet
  <1>4. Edits(q) <=> Edits(p)
    BY <1>3 DEF Edits
  <1>5. CASE ~c.target
    <2>1. /\ \A k \in FieldNames : q.want[k] = IF k = c.field THEN c.value ELSE p.want[k]
          /\ \A k \in FieldNames : q.fields[k] = IF k = c.field THEN c.value ELSE p.fields[k]
      BY <1>1, <1>3, <1>5, PutField
    <2>2. /\ c.field \notin {"target", "completed", "paused"}
          /\ c.field = "type" => c.value \in {"cron", "rate", "once"}
          /\ c.field \in {"runAt", "startsAt"} => ShownTime(c.value) = c.value
          /\ c.field = "rateUnit" => Selected(c.value, RateUnits, "minutes") = c.value
      <3>1. Enterable(c)
        BY FormsAssumption
      <3> QED
        BY <1>5, <3>1, ShownTimes DEF Enterable, Selected
    <2> QED
      BY <1>3, <1>4, <2>1, <2>2 DEF Follows, FieldNames
  <1>6. CASE c.target
    <2>1. /\ \A k \in FieldNames \ {"target"} :
               q.want[k] = p.want[k] /\ q.fields[k] = p.fields[k]
          /\ \A k \in TargetFieldNames :
               q.want.target[k] = IF k = c.field THEN c.value ELSE p.want.target[k]
          /\ \A k \in TargetFieldNames :
               q.fields.target[k] = IF k = c.field THEN c.value ELSE p.fields.target[k]
      BY <1>1, <1>3, <1>6, PutTargetField
    <2>2. c.field = "method" => Selected(c.value, Methods, "POST") = c.value
      <3>1. Enterable(c)
        BY FormsAssumption
      <3> QED
        BY <1>6, <3>1 DEF Enterable, Selected
    <2> QED
      BY <1>3, <1>4, <2>1, <2>2 DEF Follows, FieldNames, TargetFieldNames
  <1> QED
    BY <1>3, <1>5, <1>6

----------------------------------------------------------------------------
\* Submission.

LEMMA TargetOfFields ==
    ASSUME NEW t \in Target
    PROVE  /\ TargetOf(t) \in Target /\ TargetOf(t).type = t.type
           /\ t.type = HTTP => /\ TargetOf(t).url = t.url
                               /\ TargetOf(t).method = t.method
           /\ t.type # HTTP => /\ TargetOf(t).jobType = t.jobType
                               /\ TargetOf(t).queue = t.queue
                               /\ TargetOf(t).instance = t.instance
  <1>1. PICK e \in Texts \cap DOMAIN Dashed : e = ""
    BY SomeTexts, FormsAssumption
  <1>2. TargetOf(t) = IF t.type = HTTP THEN [t EXCEPT !.queue = e, !.jobType = e, !.instance = e]
                                       ELSE [t EXCEPT !.url = e, !.method = e]
    BY <1>1 DEF TargetOf
  <1>3. e \in Texts /\ e \in DOMAIN Dashed
    OBVIOUS
  <1> QED
    BY <1>2, <1>3 DEF Target

\* The parser reads from a page what was sent of it.
LEMMA SubmittedFields ==
    ASSUME NEW p \in Pages, NEW f, f = p.fields, NEW q, q = Submitted(p)
    PROVE  /\ q \in Job
           /\ q.name = f.name /\ q.type = f.type /\ q.zone = f.zone
           /\ q.concurrent = f.concurrent /\ q.timeout = f.timeout
           /\ q.target = TargetOf(f.target)
           /\ Sent(p, "cron") => q.cron = f.cron
           /\ Sent(p, "once") => q.runAt = f.runAt
           /\ Sent(p, "rate") => /\ q.startsAt = f.startsAt
                                 /\ q.rateInterval = f.rateInterval
                                 /\ q.rateUnit = f.rateUnit
  <1>1. f \in Job /\ f.target \in Target
    BY PageSet DEF Job
  <1>2. /\ f.cron \in Texts /\ f.runAt \in Texts /\ f.startsAt \in Texts
        /\ f.rateUnit \in Texts /\ f.rateInterval \in Int
    BY <1>1 DEF Job
  <1>3. PICK c \in Texts : c = IF Sent(p, "cron") THEN f.cron ELSE ""
    BY <1>2, SomeTexts
  <1>4. PICK r \in Texts : r = IF Sent(p, "once") THEN f.runAt ELSE ""
    BY <1>2, SomeTexts
  <1>5. PICK a \in Texts : a = IF Sent(p, "rate") THEN f.startsAt ELSE ""
    BY <1>2, SomeTexts
  <1>6. PICK u \in Texts : u = IF Sent(p, "rate") THEN f.rateUnit ELSE ""
    BY <1>2, SomeTexts
  <1> DEFINE i == IF Sent(p, "rate") THEN f.rateInterval ELSE 0
  <1>7. PICK t \in Target : t = TargetOf(f.target)
    BY <1>1, TargetOfFields
  <1>8. q = [f EXCEPT !.cron = c, !.runAt = r, !.startsAt = a, !.rateInterval = i,
                      !.rateUnit = u, !.target = t]
    BY <1>3, <1>4, <1>5, <1>6, <1>7 DEF Submitted
  <1>9. /\ Sent(p, "cron") => c = f.cron
        /\ Sent(p, "once") => r = f.runAt
        /\ Sent(p, "rate") => a = f.startsAt /\ u = f.rateUnit /\ i = f.rateInterval
    BY <1>3, <1>4, <1>5, <1>6
  <1>10. i \in Int
    <2>1. f.rateInterval \in Int
      BY <1>2
    <2> QED
      BY <2>1
  <1> HIDE DEF i
  <1> QED
    BY <1>1, <1>7, <1>8, <1>9, <1>10 DEF Job

LEMMA KindIsSent ==
    ASSUME NEW p \in Pages, NEW type, type = p.fields.type
    PROVE  Sent(p, type)
  BY DEF Sent

LEMMA MethodIsKept ==
    ASSUME NEW m, OrElse(m, "POST") \in Methods
    PROVE  OrElse(Selected(m, Methods, "POST"), "POST") = OrElse(m, "POST")
  BY DEF OrElse, Selected, Methods

LEMMA KindIsGiven ==
    ASSUME NEW k \in {"cron", "rate", "once"}
    PROVE  OrElse(k, "cron") = k
  BY DEF OrElse

\* What is saved from a page is what its user means, in all that counts.
LEMMA SubmittedSame ==
    ASSUME NEW p \in Pages, Follows(p), NEW s, s = NormalizeSchedule(Submitted(p)),
           NEW m, \A k \in FieldNames \ {"completed"} : m[k] = s[k]
    PROVE  SameJob(m, NormalizeSchedule(p.want), p)
  <1>1. PICK q \in Job : q = Submitted(p) /\ s = NormalizeSchedule(q)
    BY SubmittedFields
  <1>2. PICK f \in Job : f = p.fields
    BY PageSet
  <1>3. PICK o \in Job : o = p.want
    BY PageSet
  <1>4. PICK w \in Job : w = NormalizeSchedule(o)
    BY Normalised
  <1>5. /\ f.target \in Target /\ o.target \in Target /\ q.target \in Target
    BY DEF Job
  <1>6. /\ q.type = f.type /\ q.zone = f.zone /\ q.concurrent = f.concurrent
        /\ q.name = f.name /\ q.timeout = f.timeout /\ q.target = TargetOf(f.target)
    BY <1>1, <1>2, SubmittedFields
  <1>7. /\ m.type = w.type /\ m.zone = w.zone /\ m.concurrent = w.concurrent
        /\ Edits(p) => m.name = w.name
        /\ p.form = HTTP => m.timeout = w.timeout
    BY <1>1, <1>2, <1>3, <1>4, <1>6, Normalised DEF Follows, FieldNames
  <1>8. w.type = f.type /\ w.type = o.type
    BY <1>2, <1>3, <1>4, KindIsGiven, Normalised DEF Follows
  <1>9. w.type = "cron" => m.cron = w.cron
    BY <1>1, <1>2, <1>3, <1>4, <1>8, KindIsSent, SubmittedFields, Normalised
       DEF Follows, FieldNames
  <1>10. w.type = "once" => m.runAt = ShownTime(w.runAt)
    BY <1>1, <1>2, <1>3, <1>4, <1>8, KindIsSent, SubmittedFields, Normalised
       DEF Follows, FieldNames
  <1>11. w.type = "rate" => /\ m.startsAt = ShownTime(w.startsAt)
                            /\ m.rateInterval = w.rateInterval
                            /\ w.rateUnit \in RateUnits => m.rateUnit = w.rateUnit
    <2>1. w.type = "rate" => /\ q.startsAt = f.startsAt /\ q.rateInterval = f.rateInterval
                             /\ q.rateUnit = f.rateUnit
      <3>1. w.type = "rate" => Sent(p, "rate")
        BY <1>2, <1>8, KindIsSent
      <3> QED
        BY <1>1, <1>2, <3>1, SubmittedFields
    <2>2. /\ f.startsAt = ShownTime(o.startsAt) /\ f.rateInterval = o.rateInterval
          /\ o.rateUnit \in RateUnits => f.rateUnit = o.rateUnit
      BY <1>2, <1>3 DEF Follows, Selected
    <2> QED
      BY <1>1, <1>4, <2>1, <2>2, Normalised DEF FieldNames
  <1>12. /\ m.target = WithDefaults(TargetOf(f.target)) /\ w.target = WithDefaults(o.target)
         /\ TargetOf(f.target) \in Target
    BY <1>1, <1>4, <1>5, <1>6, Normalised DEF FieldNames
  <1>13. /\ f.target.type = o.target.type /\ f.target.url = o.target.url
         /\ f.target.jobType = o.target.jobType /\ f.target.queue = o.target.queue
         /\ f.target.method = Selected(o.target.method, Methods, "POST")
         /\ o.target.instance \in Configured => f.target.instance = o.target.instance
    BY <1>2, <1>3 DEF Follows
  <1>14. m.target.type = w.target.type
    BY <1>5, <1>12, <1>13, Defaults, TargetOfFields
  <1>15. w.target.type = HTTP =>
           /\ m.target.url = w.target.url
           /\ w.target.method \in Methods => m.target.method = w.target.method
    <2>1. SUFFICES ASSUME w.target.type = HTTP
                   PROVE  /\ m.target.url = w.target.url
                          /\ w.target.method \in Methods => m.target.method = w.target.method
      OBVIOUS
    <2>2. f.target.type = HTTP /\ o.target.type = HTTP
      BY <1>5, <1>12, <1>13, <2>1, Defaults
    <2>3. /\ m.target.url = f.target.url /\ w.target.url = o.target.url
          /\ m.target.method = OrElse(f.target.method, "POST")
          /\ w.target.method = OrElse(o.target.method, "POST")
      BY <1>5, <1>12, <2>2, Defaults, TargetOfFields
    <2> QED
      BY <1>13, <2>3, MethodIsKept
  <1>16. w.target.type # HTTP =>
           /\ m.target.jobType = w.target.jobType /\ m.target.queue = w.target.queue
           /\ w.target.instance \in Configured => m.target.instance = w.target.instance
    <2>1. SUFFICES ASSUME w.target.type # HTTP
                   PROVE  /\ m.target.jobType = w.target.jobType
                          /\ m.target.queue = w.target.queue
                          /\ w.target.instance \in Configured =>
                               m.target.instance = w.target.instance
      OBVIOUS
    <2>2. f.target.type = o.target.type /\ f.target.type # HTTP
      BY <1>5, <1>12, <1>13, <2>1, Defaults
    <2>3. LET t == TargetOf(f.target)
          IN  /\ t.type = f.target.type /\ t.jobType = f.target.jobType
              /\ t.queue = f.target.queue /\ t.instance = f.target.instance
      BY <1>5, <2>2, TargetOfFields
    <2> QED
      BY <1>5, <1>12, <1>13, <2>2, <2>3, Defaults
  <1> QED
    BY <1>3, <1>4, <1>7, <1>9, <1>10, <1>11, <1>14, <1>15, <1>16 DEF SameJob, Edits

----------------------------------------------------------------------------
\* The table of jobs.

Table(t) ==
    /\ t \in [Names -> Job \cup {NoSchedule}]
    /\ \A n \in Names : t[n] # NoSchedule => t[n].name = n /\ Kept(t[n])

\* The job that a request replaces.
Replaced(original) == IF original = "" THEN NoSchedule ELSE jobs[original]

LEMMA Old ==
    ASSUME Table(jobs), NEW original \in Originals
    PROVE  Replaced(original) \in Job \cup {NoSchedule}
  BY DEF Table, Originals, Replaced

\* A request that is accepted keeps the table in order, and what it saved is found
\* under the name it gave, complete but for what normalising fills in.
LEMMA SavedKeeps ==
    ASSUME Table(jobs), NEW original \in Originals, NEW s \in Job, CanSave(original, s),
           NEW t, t = Saved(original, s)
    PROVE  /\ Table(t) /\ s.name \in Names
           /\ t[s.name] = WithCompletion(NormalizeSchedule(s), Replaced(original))
           /\ \A k \in FieldNames \ {"completed"} : t[s.name][k] = NormalizeSchedule(s)[k]
           /\ Existing(t) = (Existing(jobs) \ {original}) \cup {s.name}
  <1>1. PICK n \in Job : /\ n = NormalizeSchedule(s) /\ Kept(n)
                        /\ n.name = s.name /\ s.name \in Names
    BY AcceptedIsKept, Normalised DEF CanSave
  <1>2. PICK old \in Job \cup {NoSchedule} : old = Replaced(original)
    BY Old
  <1>3. /\ Kept(WithCompletion(n, old)) /\ WithCompletion(n, old) \in Job
        /\ \A k \in FieldNames \ {"completed"} : WithCompletion(n, old)[k] = n[k]
    <2>1. Kept(n)
      BY <1>1
    <2>2. Kept(WithCompletion(n, old)) => WithCompletion(n, old) \in Job
      BY DEF Kept
    <2> QED
      BY <2>1, <2>2, CompletionIsKept DEF FieldNames
  <1>4. PICK new \in Job : /\ new = WithCompletion(n, old)
                          /\ Kept(new) /\ new.name = s.name
                          /\ \A k \in FieldNames \ {"completed"} : new[k] = n[k]
    BY <1>1, <1>3 DEF FieldNames
  <1>5. new # NoSchedule
    BY FormsAssumption
  <1> DEFINE x == WithCompletion(NormalizeSchedule(s), Replaced(original))
  <1>6. \A k \in Names : /\ k = s.name => t[k] = x
                         /\ k # s.name /\ k = original => t[k] = NoSchedule
                         /\ k # s.name /\ k # original => t[k] = jobs[k]
    <2>0. SUFFICES ASSUME NEW k \in Names
                   PROVE  /\ k = s.name => t[k] = x
                          /\ k # s.name /\ k = original => t[k] = NoSchedule
                          /\ k # s.name /\ k # original => t[k] = jobs[k]
      OBVIOUS
    <2>1. t[k] = CASE k = s.name   -> x
                   [] k # s.name /\ k = original -> NoSchedule
                   [] OTHER -> jobs[k]
      BY Zenon DEF Saved, Replaced
    <2> HIDE DEF x
    <2>2. k = s.name => t[k] = x
      BY <2>1, Zenon
    <2>3. k # s.name /\ k = original => t[k] = NoSchedule
      BY <2>1, Zenon
    <2>4. k # s.name /\ k # original => t[k] = jobs[k]
      BY <2>1, Zenon
    <2> QED
      BY <2>2, <2>3, <2>4
  <1>7. \A k \in Names : /\ k = s.name => t[k] = new
                         /\ k # s.name /\ k = original => t[k] = NoSchedule
                         /\ k # s.name /\ k # original => t[k] = jobs[k]
    <2>1. x = new
      BY <1>1, <1>2, <1>4, Zenon
    <2> HIDE DEF x
    <2> QED
      BY <1>6, <2>1
  <1> HIDE DEF x
  <1>8. Table(t)
    <2>1. t \in [Names -> {t[k] : k \in Names}]
      BY Zenon DEF Saved
    <2>2. t \in [Names -> Job \cup {NoSchedule}]
      BY <1>7, <2>1 DEF Table
    <2> QED
      BY <1>4, <1>5, <1>7, <2>2 DEF Table
  <1>9. Existing(t) = (Existing(jobs) \ {original}) \cup {s.name}
    BY <1>1, <1>5, <1>7 DEF Existing
  <1>10. t[s.name] = new
    BY <1>1, <1>7
  <1> QED
    BY <1>1, <1>2, <1>4, <1>8, <1>9, <1>10

\* Only a request that creates adds a job, and it adds one.
LEMMA SavedCounts ==
    ASSUME Table(jobs), NEW original \in Originals, NEW s \in Job, CanSave(original, s),
           IsFiniteSet(Existing(jobs)), NEW t, t = Saved(original, s)
    PROVE  /\ IsFiniteSet(Existing(t))
           /\ Cardinality(Existing(t)) = Cardinality(Existing(jobs))
                                         + (IF original = "" THEN 1 ELSE 0)
  <1>1. /\ Existing(t) = (Existing(jobs) \ {original}) \cup {s.name}
        /\ s.name \in Names /\ IsFiniteSet(Existing(jobs) \ {original})
    BY SavedKeeps, FS_RemoveElement
  <1>2. IsFiniteSet(Existing(t)) /\ Cardinality(Existing(jobs)) \in Nat
    BY <1>1, FS_AddElement, FS_CardinalityType
  <1>3. CASE original = ""
    <2>1. original \notin Existing(jobs) /\ s.name \notin Existing(jobs)
      BY <1>1, <1>3, FormsAssumption DEF CanSave, Existing
    <2>2. Existing(t) = Existing(jobs) \cup {s.name}
      BY <1>1, <2>1
    <2> HIDE <1>3
    <2>3. Cardinality(Existing(t)) = Cardinality(Existing(jobs)) + 1
      BY <2>1, <2>2, FS_AddElement
    <2> QED
      BY <1>2, <1>3, <2>3
  <1>4. CASE original # ""
    <2>1. original \in Existing(jobs)
      BY <1>4 DEF CanSave, Existing, Originals
    <2>2. original # s.name => s.name \notin Existing(jobs)
      BY DEF CanSave, Existing
    <2>3. Cardinality(Existing(t)) = Cardinality(Existing(jobs))
      <3>1. CASE original = s.name
        BY <1>1, <2>1, <3>1
      <3>2. CASE original # s.name
        <4>1. Cardinality(Existing(jobs) \ {original}) = Cardinality(Existing(jobs)) - 1
          BY <2>1, FS_RemoveElement
        <4>2. Cardinality(Existing(t)) = Cardinality(Existing(jobs) \ {original}) + 1
          BY <1>1, <2>2, <3>2, FS_AddElement
        <4> QED
          BY <1>2, <4>1, <4>2
      <3> QED
        BY <3>1, <3>2
    <2>4. Cardinality(Existing(jobs)) + 0 = Cardinality(Existing(jobs))
      BY <1>2
    <2> QED
      BY <1>2, <1>4, <2>3, <2>4
  <1> QED
    BY <1>3, <1>4
----------------------------------------------------------------------------
\* What pages are rendered.

\* Jobs in the table are of a kind the form has.
LEMMA KeptKinds ==
    ASSUME NEW s, Kept(s)
    PROVE  /\ s \in Job /\ s.type \in {"cron", "rate", "once"}
           /\ s.target.type \in {HTTP, Faktory}
  <1>1. s \in Job /\ s = NormalizeSchedule(s) /\ ValidConfig(s, Configured)
    BY DEF Kept, ValidSchedule
  <1>2. ValidTiming(s) /\ ValidTarget(s.target)
    BY <1>1 DEF ValidConfig
  <1> QED
    BY <1>1, <1>2 DEF ValidTiming, ValidTarget

LEMMA NewJobs ==
    ASSUME NEW zone \in Zones, NEW a \in FormTimes, NEW r \in FormTimes,
           NEW s, s = NewJob(zone, a, r)
    PROVE  s \in Job /\ s.type = "rate" /\ s.target.type = Faktory
  <1>1. PICK e \in Texts \cap DOMAIN Dashed : e = ""
    BY SomeTexts, FormsAssumption
  <1>2. PICK i \in Texts : i = IF Len(Instances) = 1 THEN Instances[1] ELSE ""
    <2>1. Len(Instances) = 1 => Instances[1] \in Texts
      <3>1. Instances \in Seq(Texts)
        BY FormsAssumption
      <3> QED
        BY <3>1, LenProperties
    <2> QED
      BY <2>1, SomeTexts
  <1>0. PICK five \in Texts : five = "*/5 * * * *"
    BY SomeTexts, Zenon
  <1> DEFINE t == [type |-> Faktory, url |-> e, body |-> "nil", method |-> e,
                   queue |-> e, jobType |-> e, instance |-> i]
             j == [name |-> e, type |-> "rate", cron |-> five, zone |-> zone,
                   runAt |-> r, startsAt |-> a, rateInterval |-> 5,
                   rateUnit |-> "minutes", completed |-> FALSE, paused |-> FALSE,
                   timeout |-> 5, concurrent |-> TRUE, target |-> t]
  <1>3. s = j
    BY <1>0, <1>1, <1>2, Zenon DEF NewJob
  <1>4. t \in Target /\ t.type = Faktory
    BY <1>1, <1>2, SomeTexts DEF Target, Faktory
  <1>5. zone \in Texts /\ a \in Texts /\ r \in Texts
    BY SomeTexts
  <1>6. "rate" \in Texts /\ "minutes" \in Texts
    BY SomeTexts
  <1>7. e \in Texts /\ five \in Texts
    BY <1>0, <1>1
  <1> HIDE DEF t
  <1>8. j \in Job /\ j.type = "rate" /\ j.target = t
    BY <1>4, <1>5, <1>6, <1>7 DEF Job
  <1> QED
    BY <1>3, <1>4, <1>8

LEMMA RenderedFollows ==
    ASSUME Table(jobs), NEW n \in Originals, NEW p \in Rendered(n) \ {NoPage}
    PROVE  p \in Pages /\ Follows(p)
  <1>1. CASE n \notin Names
    <2>1. PICK zone \in Zones, a \in FormTimes, r \in FormTimes :
            p = Page(n, NewJob(zone, a, r))
      BY <1>1 DEF Rendered
    <2>2. PICK s \in Job : /\ s = NewJob(zone, a, r)
                           /\ s.type = "rate" /\ s.target.type = Faktory
      BY NewJobs
    <2> QED
      BY <2>1, <2>2, ShownFollows
  <1>2. CASE n \in Names
    <2>1. jobs[n] # NoSchedule /\ p = Page(n, jobs[n])
      BY <1>2 DEF Rendered
    <2>2. Kept(jobs[n])
      BY <1>2, <2>1 DEF Table
    <2> QED
      BY <2>1, <2>2, KeptKinds, ShownFollows
  <1> QED
    BY <1>1, <1>2
----------------------------------------------------------------------------
\* The invariant: the table of jobs is in order, and the fields of every page
\* follow what its user means, which is why a page that is accepted says what it
\* does whatever happened to the job meanwhile.

Saves == [original : Originals, name : Originals, page : Pages \cup {NoPage}]

Shape ==
    /\ Table(jobs)
    /\ pages \in [Tabs -> Pages \cup {NoPage}]
    /\ saved \in Saves
    /\ opened \in 0..MaxPages /\ changed \in 0..MaxChanges
    /\ requests \in 0..MaxRequests

PagesFollow == \A t \in Tabs : pages[t] # NoPage => Follows(pages[t])

Forms ==
    /\ Shape
    /\ IsFiniteSet(Existing(jobs))
    /\ PagesFollow
    /\ EditsSayWhatTheyDo

LEMMA ShapeIsType == Shape => TypeOK
  <1> SUFFICES ASSUME Shape
               PROVE  TypeOK
    OBVIOUS
  <1>1. jobs \in [Names -> Job \cup {NoSchedule}]
    BY DEF Shape, Table
  <1>2. \A n \in Existing(jobs) :
          /\ jobs[n].name = n /\ jobs[n] = NormalizeSchedule(jobs[n])
          /\ ValidSchedule(jobs[n], Configured)
    BY DEF Shape, Table, Kept, Existing
  <1>3. saved \in [original : Names \cup {""}, name : Names \cup {""},
                   page : Pages \cup {NoPage}]
    BY Zenon DEF Shape, Saves, Originals
  <1> QED
    BY <1>1, <1>2, <1>3, Zenon DEF Shape, TypeOK

LEMMA Bounds == MaxPages \in Nat /\ MaxChanges \in Nat /\ MaxRequests \in Nat
  BY FormsAssumption

LEMMA NothingSaved == NoSave \in Saves /\ NoSave.page = NoPage
  <1>1. PICK e \in Originals : e = ""
    BY Zenon DEF Originals
  <1>2. NoSave = [original |-> e, name |-> e, page |-> NoPage]
    BY <1>1, Zenon DEF NoSave
  <1> QED
    BY <1>2 DEF Saves

LEMMA TabChanged ==
    ASSUME pages \in [Tabs -> Pages \cup {NoPage}], PagesFollow, NEW t \in Tabs,
           NEW p \in Pages \cup {NoPage}, p # NoPage => Follows(p),
           pages' = [pages EXCEPT ![t] = p]
    PROVE  pages' \in [Tabs -> Pages \cup {NoPage}] /\ PagesFollow'
  BY DEF PagesFollow

LEMMA OpenStep ==
    ASSUME Forms, NEW t \in Tabs, NEW n \in Originals, Open(t, n)
    PROVE  Forms'
  <1>1. PICK page \in Rendered(n) \ {NoPage} : pages' = [pages EXCEPT ![t] = page]
    BY DEF Open
  <1>2. page \in Pages /\ Follows(page)
    BY RenderedFollows DEF Forms, Shape
  <1>3. pages' \in [Tabs -> Pages \cup {NoPage}] /\ PagesFollow'
    BY <1>1, <1>2, TabChanged DEF Forms, Shape
  <1>4. /\ jobs' = jobs /\ saved' = NoSave /\ opened' \in 0..MaxPages
        /\ changed' = changed /\ requests' = requests
    <2>1. /\ opened < MaxPages /\ opened' = opened + 1
          /\ saved' = NoSave /\ UNCHANGED <<jobs, changed, requests>>
      BY Zenon DEF Open
    <2> QED
      BY <2>1, Bounds DEF Forms, Shape
  <1> QED
    BY <1>3, <1>4, NothingSaved DEF Forms, Shape, EditsSayWhatTheyDo, Existing

LEMMA ChangeStep ==
    ASSUME Forms, NEW t \in Tabs, NEW c \in Changes, Change(t, c)
    PROVE  Forms'
  <1>1. PICK p \in Pages : p = pages[t] /\ Follows(p)
    BY DEF Change, Forms, Shape, PagesFollow
  <1> DEFINE q == [p EXCEPT !.want = Put(@, c), !.fields = Put(@, c)]
  <1>2. q \in Pages /\ Follows(q)
    BY <1>1, PutFollows
  <1>3. pages' = [pages EXCEPT ![t] = q]
    BY <1>1 DEF Change, Forms, Shape
  <1> HIDE DEF q
  <1>4. pages' \in [Tabs -> Pages \cup {NoPage}] /\ PagesFollow'
    BY <1>2, <1>3, TabChanged DEF Forms, Shape
  <1>5. /\ jobs' = jobs /\ saved' = NoSave /\ changed' \in 0..MaxChanges
        /\ opened' = opened /\ requests' = requests
    BY Bounds DEF Change, Forms, Shape
  <1> QED
    BY <1>4, <1>5, NothingSaved DEF Forms, Shape, EditsSayWhatTheyDo, Existing

\* The wizard names new jobs only.
LEMMA NameIsFree ==
    ASSUME NEW p \in Pages, Follows(p), ~Edits(p), NEW name \in Texts,
           NEW q, q = [p EXCEPT !.fields.name = name]
    PROVE  q \in Pages /\ Follows(q)
  <1>1. p.fields \in Job
    BY PageSet
  <1> DEFINE f == [p.fields EXCEPT !.name = name]
  <1>2. f \in Job /\ \A k \in FieldNames \ {"name"} : f[k] = p.fields[k]
    BY <1>1 DEF Job, FieldNames
  <1>3. q = [p EXCEPT !.fields = f]
    OBVIOUS
  <1> HIDE DEF f
  <1>4. /\ q.want = p.want /\ q.fields = f /\ q.form = p.form
        /\ q.original = p.original /\ q \in Pages
    BY <1>2, <1>3, PageSet
  <1>5. ~Edits(q)
    BY <1>4 DEF Edits
  <1> QED
    BY <1>2, <1>4, <1>5 DEF Follows, FieldNames

LEMMA ContinueStep ==
    ASSUME Forms, NEW t \in Tabs, Continue(t)
    PROVE  Forms'
  <1>1. PICK p \in Pages : p = pages[t] /\ Follows(p)
    BY Zenon DEF Continue, Forms, Shape, PagesFollow
  <1>2. ~Edits(p)
    BY <1>1 DEF Continue, Edits
  <1> DEFINE name == Dashed[p.fields.target.jobType]
             q == [p EXCEPT !.fields.name = name]
  <1>3. name \in Texts
    <2>1. p.fields.target.jobType \in DOMAIN Dashed
      BY PageSet DEF Job, Target
    <2>2. Dashed \in [DOMAIN Dashed -> Texts]
      BY FormsAssumption
    <2> QED
      BY <2>1, <2>2
  <1>4. q \in Pages /\ Follows(q)
    <2> HIDE DEF name
    <2>1. q = [p EXCEPT !.fields.name = name]
      OBVIOUS
    <2> HIDE DEF q
    <2> QED
      BY <1>1, <1>2, <1>3, <2>1, NameIsFree
  <1>5. pages' = [pages EXCEPT ![t].fields.name = Dashed[pages[t].fields.target.jobType]]
    BY DEF Continue
  <1>6. pages' = [pages EXCEPT ![t] = q]
    BY <1>1, <1>5 DEF Forms, Shape
  <1> HIDE DEF q
  <1>7. pages' \in [Tabs -> Pages \cup {NoPage}] /\ PagesFollow'
    BY <1>4, <1>6, TabChanged DEF Forms, Shape
  <1>8. /\ jobs' = jobs /\ saved' = NoSave /\ changed' = changed
        /\ opened' = opened /\ requests' = requests
    BY DEF Continue
  <1> QED
    BY <1>7, <1>8, NothingSaved DEF Forms, Shape, EditsSayWhatTheyDo, Existing
LEMMA RequestCounts ==
    ASSUME Shape, Request
    PROVE  requests' \in 0..MaxRequests
  BY Bounds DEF Shape, Request

LEMMA AcceptedStep ==
    ASSUME Forms, NEW t \in Tabs, NEW p \in Pages, p = pages[t], NEW s \in Job,
           s = Submitted(p), CanSave(p.original, s), jobs' = Saved(p.original, s),
           pages' = [pages EXCEPT ![t] = NoPage],
           saved' = [original |-> p.original, name |-> s.name, page |-> p],
           Request, UNCHANGED <<opened, changed>>
    PROVE  Forms'
  <1>1. p.original \in Originals /\ p # NoPage /\ Follows(p) /\ Table(jobs)
    BY PageSet, FormsAssumption DEF Forms, Shape, PagesFollow
  <1>2. /\ Table(jobs') /\ s.name \in Names
        /\ \A k \in FieldNames \ {"completed"} : jobs'[s.name][k] = NormalizeSchedule(s)[k]
    BY <1>1, SavedKeeps
  <1>3. IsFiniteSet(Existing(jobs'))
    BY <1>1, SavedCounts DEF Forms
  <1>4. SameJob(jobs'[s.name], NormalizeSchedule(p.want), p)
    BY <1>1, <1>2, SubmittedSame
  <1>5. pages' \in [Tabs -> Pages \cup {NoPage}] /\ PagesFollow'
    BY TabChanged DEF Forms, Shape
  <1>6. saved' \in Saves /\ saved'.name = s.name /\ saved'.page = p
    BY <1>1, <1>2 DEF Saves, Originals
  <1>7. requests' \in 0..MaxRequests
    BY RequestCounts DEF Forms
  <1>8. EditsSayWhatTheyDo'
    BY <1>4, <1>6 DEF EditsSayWhatTheyDo
  <1> QED
    BY <1>2, <1>3, <1>5, <1>6, <1>7, <1>8 DEF Forms, Shape

LEMMA SubmitStep ==
    ASSUME Forms, NEW t \in Tabs, Submit(t)
    PROVE  Forms'
  <1>1. PICK p \in Pages : p = pages[t]
    BY DEF Submit, Forms, Shape
  <1>2. PICK s \in Job : s = Submitted(p)
    BY SubmittedFields
  <1>3. /\ Request /\ UNCHANGED <<opened, changed>>
        /\ \/ /\ CanSave(p.original, s)
              /\ jobs' = Saved(p.original, s)
              /\ pages' = [pages EXCEPT ![t] = NoPage]
              /\ saved' = [original |-> p.original, name |-> s.name, page |-> p]
           \/ /\ \E page \in SentBack(p) : pages' = [pages EXCEPT ![t] = page]
              /\ saved' = NoSave /\ UNCHANGED jobs
    BY <1>1, <1>2 DEF Submit
  <1>4. CASE /\ CanSave(p.original, s)
             /\ jobs' = Saved(p.original, s)
             /\ pages' = [pages EXCEPT ![t] = NoPage]
             /\ saved' = [original |-> p.original, name |-> s.name, page |-> p]
    BY <1>1, <1>2, <1>3, <1>4, AcceptedStep
  <1>5. CASE /\ \E page \in SentBack(p) : pages' = [pages EXCEPT ![t] = page]
             /\ saved' = NoSave /\ UNCHANGED jobs
    <2>1. PICK page \in Rendered(p.original) : pages' = [pages EXCEPT ![t] = page]
      BY <1>5 DEF SentBack
    <2>2. p.original \in Originals
      BY PageSet
    <2>3. page # NoPage => page \in Pages /\ Follows(page)
      BY <2>2, RenderedFollows DEF Forms, Shape
    <2>4. pages' \in [Tabs -> Pages \cup {NoPage}] /\ PagesFollow'
      BY <2>1, <2>3, TabChanged DEF Forms, Shape
    <2>5. requests' \in 0..MaxRequests
      BY <1>3, RequestCounts DEF Forms
    <2> QED
      BY <1>3, <1>5, <2>4, <2>5, NothingSaved
         DEF Forms, Shape, EditsSayWhatTheyDo, Existing
  <1> QED
    BY <1>3, <1>4, <1>5

LEMMA PostJsonStep ==
    ASSUME Forms, NEW original \in Originals, NEW s \in Inputs, PostJson(original, s)
    PROVE  Forms'
  <1>1. s \in Job /\ Table(jobs) /\ CanSave(original, s) /\ jobs' = Saved(original, s)
    BY FormsAssumption DEF PostJson, Forms, Shape
  <1>2. Table(jobs') /\ s.name \in Names
    BY <1>1, SavedKeeps
  <1>3. IsFiniteSet(Existing(jobs'))
    BY <1>1, SavedCounts DEF Forms
  <1>4. /\ saved' = [original |-> original, name |-> s.name, page |-> NoPage]
        /\ UNCHANGED <<pages, opened, changed>>
    BY DEF PostJson
  <1>5. saved' \in Saves /\ saved'.page = NoPage
    BY <1>2, <1>4 DEF Saves, Originals
  <1>6. requests' \in 0..MaxRequests
    BY RequestCounts DEF Forms, PostJson
  <1> QED
    BY <1>2, <1>3, <1>4, <1>5, <1>6 DEF Forms, Shape, PagesFollow, EditsSayWhatTheyDo

LEMMA ButtonStep ==
    ASSUME Forms, NEW n \in Names, NEW s, ChangeJob(n, s),
           s = NoSchedule \/ (Kept(s) /\ s.name = n)
    PROVE  Forms'
  <1>1. /\ jobs[n] # NoSchedule /\ jobs' = [jobs EXCEPT ![n] = s] /\ saved' = NoSave
        /\ UNCHANGED <<pages, opened, changed>>
    BY DEF ChangeJob
  <1>2. s \in Job \cup {NoSchedule}
    BY DEF Kept
  <1>3. Table(jobs')
    BY <1>1, <1>2 DEF Forms, Shape, Table
  <1>4. Existing(jobs') \subseteq Existing(jobs)
    BY <1>1 DEF Forms, Shape, Table, Existing
  <1>5. IsFiniteSet(Existing(jobs'))
    BY <1>4, FS_Subset DEF Forms
  <1>6. requests' \in 0..MaxRequests
    BY RequestCounts DEF Forms, ChangeJob
  <1> QED
    BY <1>1, <1>3, <1>5, <1>6, NothingSaved
       DEF Forms, Shape, PagesFollow, EditsSayWhatTheyDo

LEMMA ListStep ==
    ASSUME Forms, NEW n \in Names, TogglePause(n) \/ DeleteJob(n) \/ Complete(n)
    PROVE  Forms'
  <1>1. CASE DeleteJob(n)
    BY <1>1, ButtonStep DEF DeleteJob
  <1>2. ASSUME jobs[n] # NoSchedule
        PROVE  jobs[n] \in Job /\ Kept(jobs[n]) /\ jobs[n].name = n
    BY <1>2 DEF Forms, Shape, Table
  <1>3. CASE TogglePause(n)
    <2>1. jobs[n] # NoSchedule
      BY <1>3 DEF TogglePause, ChangeJob
    <2> DEFINE b == ~jobs[n].paused
    <2>2. b \in BOOLEAN
      OBVIOUS
    <2>3. ChangeJob(n, [jobs[n] EXCEPT !.paused = b])
      BY <1>3, <1>2, <2>1 DEF TogglePause
    <2> HIDE DEF b
    <2>4. LET s == [jobs[n] EXCEPT !.paused = b] IN Kept(s) /\ s.name = n
      BY <1>2, <2>1, <2>2, FlagsAreFree
    <2> QED
      BY <2>3, <2>4, ButtonStep
  <1>4. CASE Complete(n)
    <2>1. jobs[n] # NoSchedule /\ ChangeJob(n, [jobs[n] EXCEPT !.completed = TRUE])
      BY <1>4 DEF Complete
    <2>2. LET s == [jobs[n] EXCEPT !.completed = TRUE] IN Kept(s) /\ s.name = n
      BY <1>2, <2>1, FlagsAreFree
    <2> QED
      BY <2>1, <2>2, ButtonStep
  <1> QED
    BY <1>1, <1>3, <1>4

LEMMA FormsStart == Init => Forms
  <1> SUFFICES ASSUME Init
               PROVE  Forms
    OBVIOUS
  <1>1. Table(jobs) /\ Existing(jobs) = {}
    BY DEF Init, Table, Existing
  <1>2. saved \in Saves /\ saved.page = NoPage
    BY NothingSaved DEF Init
  <1> QED
    BY <1>1, <1>2, FS_EmptySet, Bounds DEF Init, Forms, Shape, PagesFollow, EditsSayWhatTheyDo

LEMMA FormsStep == Forms /\ [Next]_vars => Forms'
  <1> SUFFICES ASSUME Forms, [Next]_vars
               PROVE  Forms'
    OBVIOUS
  <1>1. CASE \E t \in Tabs, n \in Originals : Open(t, n)
    BY <1>1, OpenStep
  <1>2. CASE \E t \in Tabs, c \in Changes : Change(t, c)
    BY <1>2, ChangeStep
  <1>3. CASE \E t \in Tabs : Continue(t)
    BY <1>3, ContinueStep
  <1>4. CASE \E t \in Tabs : Submit(t)
    BY <1>4, SubmitStep
  <1>5. CASE \E original \in Originals, s \in Inputs : PostJson(original, s)
    BY <1>5, PostJsonStep
  <1>6. CASE \E n \in Names : TogglePause(n) \/ DeleteJob(n) \/ Complete(n)
    BY <1>6, ListStep
  <1>7. CASE UNCHANGED vars
    BY <1>7 DEF vars, Forms, Shape, PagesFollow, EditsSayWhatTheyDo
  <1> QED
    BY <1>1, <1>2, <1>3, <1>4, <1>5, <1>6, <1>7, Zenon DEF Next, Originals

LEMMA FormsHold == Spec => []Forms
  BY FormsStart, FormsStep, PTL DEF Spec
----------------------------------------------------------------------------
\* The results.

\* Whatever is submitted, through whatever interface, the jobs of a running
\* service are under their names, have everything filled in and pass the
\* validation of the next start (http.go, engine.SaveSchedule, config.Validate).
THEOREM JobsStayValid == Spec => []TypeOK
  <1>1. Forms => TypeOK
    BY ShapeIsType DEF Forms
  <1> QED
    BY <1>1, FormsHold, PTL

\* A form that is accepted, however old its page, makes the job what its user
\* means (the handlers of the forms, scheduleFromRequest and NormalizeSchedule).
THEOREM PagesSayWhatTheyDo == Spec => []EditsSayWhatTheyDo
  <1>1. Forms => EditsSayWhatTheyDo
    BY DEF Forms
  <1> QED
    BY <1>1, FormsHold, PTL

\* Saving under the original's name adds no job, and creating adds one
\* (engine.SaveSchedule's checks of the name and of the original).
THEOREM NoEditCreates == Spec => EditsNeverCreate
  <1> DEFINE Counts == saved' # NoSave =>
               Cardinality(Existing(jobs')) = Cardinality(Existing(jobs))
                                              + (IF saved'.original = "" THEN 1 ELSE 0)
  <1>1. Forms /\ [Next]_vars => [Counts]_vars
    <2> SUFFICES ASSUME Forms, Next, saved' # NoSave
                 PROVE  Counts
      BY Zenon
    <2>1. CASE \E t \in Tabs : Submit(t)
      <3>1. PICK t \in Tabs : Submit(t)
        BY <2>1
      <3>2. PICK p \in Pages : p = pages[t]
        BY <3>1 DEF Submit, Forms, Shape
      <3>3. PICK s \in Job : s = Submitted(p)
        BY SubmittedFields
      <3>4. /\ CanSave(p.original, s) /\ jobs' = Saved(p.original, s)
            /\ saved' = [original |-> p.original, name |-> s.name, page |-> p]
        BY <3>1, <3>2, <3>3 DEF Submit
      <3>5. p.original \in Originals /\ saved'.original = p.original
        BY <3>4, PageSet
      <3> QED
        BY <3>4, <3>5, SavedCounts, Zenon DEF Forms, Shape
    <2>2. CASE \E original \in Originals, s \in Inputs : PostJson(original, s)
      <3>1. PICK original \in Originals, s \in Inputs : PostJson(original, s)
        BY <2>2
      <3>2. /\ s \in Job /\ CanSave(original, s) /\ jobs' = Saved(original, s)
            /\ saved'.original = original
        BY <3>1, FormsAssumption DEF PostJson
      <3> QED
        BY <3>2, SavedCounts, Zenon DEF Forms, Shape
    <2>3. \/ \E t \in Tabs : Submit(t)
          \/ \E original \in Originals, s \in Inputs : PostJson(original, s)
      BY Zenon DEF Next, Originals, Open, Change, Continue, TogglePause, DeleteJob,
                   Complete, ChangeJob
    <2> QED
      BY <2>1, <2>2, <2>3
  <1>2. EditsNeverCreate <=> [][Counts]_vars
    BY DEF EditsNeverCreate
  <1> QED
    BY <1>1, <1>2, FormsHold, PTL DEF Spec
LEMMA CompletionStays ==
    ASSUME Table(jobs), NEW p \in Pages, Follows(p), Edits(p),
           NEW s \in Job, s = Submitted(p), CanSave(p.original, s),
           NEW old, old = jobs[p.original],
           old.type = "once", old.completed, old.runAt \in FormTimes,
           p.want.type = "once", p.want.runAt = old.runAt, p.want.zone = old.zone,
           NEW t, t = Saved(p.original, s)
    PROVE  t[s.name].completed
  <1>1. p.original \in Originals /\ p.original \in Names /\ old # NoSchedule
    <2>1. p.original \in Originals
      BY PageSet
    <2> QED
      BY <2>1, Zenon DEF Edits, CanSave, Originals
  <1>2. old \in Job /\ Kept(old)
    BY <1>1 DEF Table
  <1>3. PICK n \in Job : /\ n = NormalizeSchedule(s)
                         /\ n.type = OrElse(s.type, "cron") /\ n.zone = OrElse(s.zone, "UTC")
                         /\ n.runAt = s.runAt
    BY Normalised
  <1>4. old.zone = OrElse(old.zone, "UTC")
    BY <1>2, Normalised DEF Kept
  <1>5. /\ p.fields.type = "once" /\ p.fields.zone = old.zone
        /\ p.fields.runAt = ShownTime(old.runAt)
    BY DEF Follows
  <1>6. ShownTime(old.runAt) = old.runAt
    BY ShownTimes
  <1>7. Sent(p, "once")
    BY <1>5, KindIsSent
  <1>8. s.type = "once" /\ s.zone = old.zone /\ s.runAt = old.runAt
    BY <1>5, <1>6, <1>7, SubmittedFields
  <1>9. n.type = "once" /\ n.zone = old.zone /\ n.runAt = old.runAt
    BY <1>3, <1>4, <1>8, KindIsGiven
  <1>10. t[s.name] = WithCompletion(n, old)
    <2>1. Replaced(p.original) = old
      BY Zenon DEF Replaced, Edits
    <2> QED
      BY <1>1, <1>3, <2>1, SavedKeeps
  <1>11. WithCompletion(n, old).completed
    BY <1>1, <1>9 DEF WithCompletion, Job
  <1> QED
    BY <1>10, <1>11

LEMMA JsonHasNoPage ==
    ASSUME NEW original, NEW s, PostJson(original, s)
    PROVE  saved'.page = NoPage
  BY DEF PostJson

\* No page, however old and whatever it renames, arms a one-time job again that
\* has fired, unless it changes the time (store.SaveSchedule keeps completed_at
\* of the original).
THEOREM NoPageArmsAgain == Spec => PagesKeepCompletion
  <1> DEFINE old == jobs[saved'.original]
             want == saved'.page.want
             Keeps ==
               saved' # NoSave /\ saved'.original # "" /\ saved'.page # NoPage =>
                 (/\ old.type = "once" /\ old.completed /\ old.runAt \in FormTimes
                  /\ want.type = "once" /\ want.runAt = old.runAt /\ want.zone = old.zone
                  => jobs'[saved'.name].completed)
  <1>1. Forms /\ [Next]_vars => [Keeps]_vars
    <2> SUFFICES ASSUME Forms, Next, saved' # NoSave, saved'.original # "",
                        saved'.page # NoPage,
                        old.type = "once", old.completed, old.runAt \in FormTimes,
                        want.type = "once", want.runAt = old.runAt, want.zone = old.zone
                 PROVE  jobs'[saved'.name].completed
      BY Zenon
    <2>1. \E t \in Tabs : Submit(t)
      <3> QED
        BY JsonHasNoPage, Zenon DEF Next, Originals, Open, Change, Continue, TogglePause,
                           DeleteJob, Complete, ChangeJob
    <2>2. PICK t \in Tabs : Submit(t)
      BY <2>1
    <2>3. PICK p \in Pages : p = pages[t] /\ Follows(p)
      BY <2>2, Zenon DEF Submit, Forms, Shape, PagesFollow
    <2>4. PICK s \in Job : s = Submitted(p)
      BY SubmittedFields
    <2>5. /\ CanSave(p.original, s) /\ jobs' = Saved(p.original, s)
          /\ saved' = [original |-> p.original, name |-> s.name, page |-> p]
      BY <2>2, <2>3, <2>4, Zenon DEF Submit
    <2>6. saved'.original = p.original /\ saved'.page = p /\ saved'.name = s.name
      BY <2>5
    <2>7. Edits(p)
      BY <2>6, Zenon DEF Edits
    <2>8. /\ jobs[p.original].type = "once" /\ jobs[p.original].completed
          /\ jobs[p.original].runAt \in FormTimes
          /\ p.want.type = "once" /\ p.want.runAt = jobs[p.original].runAt
          /\ p.want.zone = jobs[p.original].zone
      BY <2>6, Zenon
    <2> QED
      BY <2>3, <2>4, <2>5, <2>6, <2>7, <2>8, CompletionStays, Zenon DEF Forms, Shape
  <1>2. PagesKeepCompletion <=> [][Keeps]_vars
    BY DEF PagesKeepCompletion
  <1> QED
    BY <1>1, <1>2, FormsHold, PTL DEF Spec

\* What the browser and the engine ask of a page that shows its job as it is,
\* the job's own validity gives.
LEMMA UntouchedFields ==
    ASSUME Table(jobs), NEW p \in Pages, Follows(p), Untouched(p), TimesShow(p),
           p.form = Faktory => p.want.rateInterval > 0,
           NEW w, w = p.want, NEW f, f = p.fields
    PROVE  /\ Kept(w) /\ w.name = p.original /\ jobs[p.original] = w
           /\ p.original \in Names /\ f \in Job /\ f.name = w.name
           /\ ValidTiming(w) /\ ValidTarget(w.target) /\ w.zone \in Zones
           /\ w.target.type = Faktory => w.target.instance \in Configured
           /\ f.type = "once" => f.runAt \in FormTimes
           /\ f.type = "rate" => f.startsAt \in FormTimes
           /\ f.type = "rate" => f.rateInterval > 0
           /\ p.form = Faktory => f.rateInterval > 0
  <1>1. p.original \in Names /\ jobs[p.original] = w /\ w \in Job /\ f \in Job
    <2>1. p.original \in Originals /\ w \in Job /\ f \in Job
      BY PageSet
    <2> QED
      BY <2>1, Zenon DEF Untouched, Originals
  <1>2. w # NoSchedule
    BY <1>1, FormsAssumption
  <1>3. Kept(w) /\ w.name = p.original
    BY <1>1, <1>2 DEF Table
  <1>4. /\ ValidTiming(w) /\ ValidTarget(w.target) /\ w.zone \in Zones
        /\ w.target.type = Faktory => w.target.instance \in Configured
    <2>1. w = NormalizeSchedule(w) /\ ValidConfig(w, Configured)
      BY <1>3 DEF Kept, ValidSchedule
    <2> QED
      BY <2>1 DEF ValidConfig
  <1>5. Edits(p)
    BY Zenon DEF Untouched, Edits
  <1>6. f.name = w.name /\ f.type = w.type /\ f.rateInterval = w.rateInterval
    BY <1>5 DEF Follows
  <1>7. /\ f.type = "once" => f.runAt \in FormTimes
        /\ f.type = "rate" => f.startsAt \in FormTimes
    <2>1. f.runAt = ShownTime(w.runAt) /\ f.startsAt = ShownTime(w.startsAt)
      BY DEF Follows
    <2>2. f.runAt \in FormTimes \cup {""} /\ f.startsAt \in FormTimes \cup {""}
      BY <2>1, ShownTimes, Zenon
    <2> QED
      BY <1>6, <2>2, Zenon DEF TimesShow
  <1>8. w.type = "rate" => w.rateInterval > 0
    BY <1>4 DEF ValidTiming
  <1> QED
    BY <1>1, <1>3, <1>4, <1>6, <1>7, <1>8

LEMMA UntouchedIsAccepted ==
    ASSUME Table(jobs), NEW p \in Pages, Follows(p), Untouched(p), TimesShow(p),
           p.form = Faktory => p.want.rateInterval > 0
    PROVE  CanBeSaved(p)
  <1>1. PICK w \in Job : w = p.want
    BY PageSet
  <1>2. PICK f \in Job : f = p.fields
    BY PageSet
  <1>3. /\ Kept(w) /\ w.name = p.original /\ jobs[p.original] = w
        /\ p.original \in Names /\ f.name = w.name
        /\ ValidTiming(w) /\ ValidTarget(w.target) /\ w.zone \in Zones
        /\ w.target.type = Faktory => w.target.instance \in Configured
        /\ f.type = "once" => f.runAt \in FormTimes
        /\ f.type = "rate" => f.startsAt \in FormTimes
        /\ f.type = "rate" => f.rateInterval > 0
        /\ p.form = Faktory => f.rateInterval > 0
    BY <1>1, <1>2, UntouchedFields
  <1>4. /\ f.type = w.type /\ f.zone = w.zone /\ f.cron = w.cron
        /\ f.rateInterval = w.rateInterval
        /\ f.rateUnit = Selected(w.rateUnit, RateUnits, "minutes")
        /\ w.type \in {"cron", "rate", "once"}
        /\ f.target.type = w.target.type /\ f.target.url = w.target.url
        /\ f.target.jobType = w.target.jobType
        /\ w.target.instance \in Configured => f.target.instance = w.target.instance
    BY <1>1, <1>2 DEF Follows
  <1>5. FormTimes \subseteq DateTimes /\ "" \notin DateTimes /\ "" \notin Names
    BY FormsAssumption DEF FormTimes
  <1>6. BrowserAccepts(p)
    <2>1. Sent(p, "rate") => f.rateInterval > 0
      BY <1>2, <1>3, PageSet DEF Sent
    <2>2. /\ f.name # "" /\ (f.type = "rate" => f.startsAt # "")
          /\ (f.type = "once" => f.runAt # "")
      BY <1>3, <1>5, Zenon
    <2>3. f.type = "cron" => f.cron # ""
      BY <1>3, <1>4, Zenon DEF ValidTiming
    <2>4. f.target.type = HTTP => f.target.url # ""
      BY <1>3, <1>4, Zenon DEF ValidTarget, HTTP, Faktory
    <2>5. f.target.type = Faktory => f.target.jobType # "" /\ f.target.instance # ""
      BY <1>3, <1>4, Zenon DEF ValidTarget, HTTP, Faktory
    <2> QED
      BY <1>2, <2>1, <2>2, <2>3, <2>4, <2>5, Zenon DEF BrowserAccepts
  <1>7. PICK s \in Job : s = Submitted(p)
    BY SubmittedFields
  <1>8. PICK n \in Job : n = NormalizeSchedule(s)
    BY Normalised
  <1>9. /\ s.name = p.original /\ s.type = w.type /\ s.zone = w.zone
        /\ s.target = TargetOf(f.target)
        /\ w.type = "cron" => s.cron = w.cron
        /\ w.type = "once" => s.runAt = f.runAt
        /\ w.type = "rate" => /\ s.startsAt = f.startsAt
                              /\ s.rateInterval = f.rateInterval
                              /\ s.rateUnit = f.rateUnit
    <2>1. Sent(p, w.type)
      BY <1>2, <1>4, KindIsSent
    <2> QED
      BY <1>2, <1>3, <1>4, <1>7, <2>1, SubmittedFields
  <1>10. /\ n.name = s.name /\ n.type = s.type /\ n.zone = w.zone
         /\ n.cron = s.cron /\ n.runAt = s.runAt /\ n.startsAt = s.startsAt
         /\ n.rateInterval = s.rateInterval /\ n.rateUnit = s.rateUnit
         /\ n.target = WithDefaults(s.target)
    <2>1. w.zone = OrElse(w.zone, "UTC")
      BY <1>3, Normalised DEF Kept
    <2> QED
      BY <1>4, <1>8, <1>9, <2>1, KindIsGiven, Normalised
  <1>11. ValidTiming(n)
    <2>1. CASE w.type = "once"
      BY <1>3, <1>4, <1>5, <1>9, <1>10, <2>1, Zenon DEF ValidTiming
    <2>2. CASE w.type = "rate"
      <3>1. w.rateUnit \in RateUnits
        BY <1>3, <2>2 DEF ValidTiming
      <3>2. f.rateUnit = w.rateUnit
        BY <1>4, <3>1 DEF Selected
      <3> QED
        BY <1>3, <1>4, <1>5, <1>9, <1>10, <2>2, <3>1, <3>2, Zenon DEF ValidTiming
    <2>3. CASE w.type = "cron"
      BY <1>3, <1>9, <1>10, <2>3, Zenon DEF ValidTiming
    <2> QED
      BY <1>4, <2>1, <2>2, <2>3
  <1>12. ValidTarget(n.target) /\ (n.target.type = Faktory => n.target.instance \in Configured)
    <2>1. f.target \in Target /\ TargetOf(f.target) \in Target
      BY TargetOfFields DEF Job
    <2>2. CASE w.target.type = HTTP
      <3>1. n.target.type = HTTP /\ n.target.url = w.target.url
        BY <1>4, <1>9, <1>10, <2>1, <2>2, Defaults, TargetOfFields
      <3> QED
        BY <1>3, <2>2, <3>1, Zenon DEF ValidTarget, HTTP, Faktory
    <2>3. CASE w.target.type = Faktory
      <3>1. f.target.type # HTTP
        BY <1>4, <2>3 DEF HTTP, Faktory
      <3>2. /\ n.target.type = Faktory /\ n.target.jobType = w.target.jobType
            /\ n.target.instance = w.target.instance
        BY <1>3, <1>4, <1>9, <1>10, <2>1, <2>3, <3>1, Defaults, TargetOfFields
      <3> QED
        BY <1>3, <2>3, <3>2, Zenon DEF ValidTarget, HTTP, Faktory
    <2> QED
      BY <1>3, <2>2, <2>3, KeptKinds
  <1>13. w.type = "cron" => s.cron \in Crons
    <2>1. w = NormalizeSchedule(w) /\ ValidSchedule(w, Configured)
      BY <1>3 DEF Kept
    <2> QED
      BY <1>9, <2>1 DEF ValidSchedule
  <1>14. ValidSchedule(s, Configured)
    BY <1>3, <1>8, <1>9, <1>10, <1>11, <1>12, <1>13 DEF ValidSchedule, ValidConfig
  <1>15. CanSave(p.original, s)
    <2>1. jobs[p.original] # NoSchedule
      BY <1>3, FormsAssumption
    <2> QED
      BY <1>9, <1>14, <2>1, Zenon DEF CanSave
  <1> QED
    BY <1>6, <1>7, <1>15, Zenon DEF CanBeSaved

\* The edit page of a job can be saved as it is: no rule of the browser or of the
\* engine refuses what the engine accepted before, but for times with an offset,
\* which the form cannot show, and for Faktory jobs without a rate interval (the
\* violation of FaktoryJobsAreEditable).
THEOREM EditPagesCanBeSaved == Spec => []UntouchedPagesAreAccepted
  <1>1. Forms => UntouchedPagesAreAccepted
    <2> SUFFICES ASSUME Forms, NEW t \in Tabs,
                        Untouched(pages[t]), TimesShow(pages[t]),
                        pages[t].form = Faktory => pages[t].want.rateInterval > 0
                 PROVE  CanBeSaved(pages[t])
      BY DEF UntouchedPagesAreAccepted
    <2>1. pages[t] # NoPage
      BY Zenon DEF Untouched
    <2>2. pages[t] \in Pages /\ Follows(pages[t]) /\ Table(jobs)
      BY <2>1 DEF Forms, Shape, PagesFollow
    <2> QED
      BY <2>2, UntouchedIsAccepted
  <1> QED
    BY <1>1, FormsHold, PTL
=============================================================================
