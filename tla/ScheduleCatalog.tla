--------------------------- MODULE ScheduleCatalog ---------------------------
(***************************************************************************)
(* The schedules of internal/engine as sequences of store operations, any  *)
(* of which may fail or be the last before a crash: NewEngine (seeding one *)
(* schedule after the other, then registering all), SaveSchedule with its  *)
(* compensation, DeleteSchedule, TogglePause, markOneTimeCompleted.  Each  *)
(* holds e.mu, so one of them is under way at a time.  A change of memory  *)
(* is one step with the store operation before it: nobody can look between *)
(* the two, and a crash there is a crash after the store operation.        *)
(*                                                                         *)
(* Tables of schedules are total, with NoSchedule where there is none.     *)
(***************************************************************************)
EXTENDS ScheduleRules, FiniteSets

CONSTANTS
    Texts,       \* texts in a schedule
    Files,       \* YAML files: sets of schedules and the Faktory instances
    Inputs,      \* schedules that requests submit
    MaxOps,      \* bound on requests
    MaxEdits,    \* bound on edits of the YAML file
    MaxCrashes,  \* bound on crashes
    MaxFaults    \* bound on failing store operations and registrations

Target == [type : Texts, url : Texts, body : Texts, method : Texts,
           queue : Texts, jobType : Texts, instance : Texts]

\* A schedule with all texts and numbers; the timeout is in seconds.
Schedule ==
    [name : Names, type : Texts, cron : Texts, zone : Texts,
     runAt : Texts, startsAt : Texts, rateInterval : Int, rateUnit : Texts,
     completed : BOOLEAN, paused : BOOLEAN, timeout : Int, target : Target]

IsTable(t) ==
    /\ t \in [Names -> Schedule \cup {NoSchedule}]
    /\ \A n \in Names : t[n] # NoSchedule => t[n].name = n

ASSUME CatalogAssumption ==
    /\ NoSchedule \notin Schedule /\ "" \notin Names
    /\ {"cron", "UTC", "POST", "default", "nil"} \subseteq Texts
    /\ Inputs \subseteq Schedule
    /\ \A f \in Files : f.schedules \subseteq Schedule
    /\ {MaxOps, MaxEdits, MaxCrashes, MaxFaults} \subseteq Nat

VARIABLES
    phase,      \* of the process: down, starting, up
    file,       \* the YAML file
    cfg,        \* the YAML file as the process read it
    loaded,     \* what NewEngine is going to register
    toSeed,     \* names it has still to save before
    stored,     \* the schedules in the store
    schedules,  \* e.schedules
    entries,    \* the schedule each cron entry was made from
    op,         \* the operation under way
    acked,      \* what callers have been told, and the file at seeding
    doubt,      \* names of which they cannot know
    everUp,     \* some start has succeeded
    ops, edits, crashes, faults  \* how often each happened, for the bounds

vars == <<phase, file, cfg, loaded, toSeed, stored, schedules, entries, op,
          acked, doubt, everUp, ops, edits, crashes, faults>>

startup == <<phase, file, cfg, loaded, toSeed, everUp>>
told == <<acked, doubt>>
counts == <<ops, edits, crashes, faults>>

Nothing == [n \in Names |-> NoSchedule]
Has(table, n) == n \in Names /\ table[n] # NoSchedule
With(table, s) == [table EXCEPT ![s.name] = s]
Less(table, names) == [n \in Names |-> IF n \in names THEN NoSchedule ELSE table[n]]

Fault == faults < MaxFaults /\ faults' = faults + 1
Works == UNCHANGED faults

\* registerScheduleLocked makes no entry for others.
Active(s) == ~s.paused /\ ~(s.type = "once" /\ s.completed)

\* Mutant: a schedule that needs no entry keeps the one it had.
RegisteredKeeping(table, s) == IF Active(s) THEN With(table, s) ELSE table

Registered(table, s) ==
    IF Active(s) THEN With(table, s) ELSE Less(table, {s.name})

\* The operation: what it stands before, the name it was asked to change ("" for
\* none), the schedule it saves, and the one it replaces.
NoOp == [pc |-> "none", original |-> "", new |-> NoSchedule, old |-> NoSchedule]
Busy == IF op = NoOp THEN {} ELSE {op.original, op.new.name}
Goto(pc) == op' = [op EXCEPT !.pc = pc]
Done == op' = NoOp

Init ==
    /\ phase = "down"
    /\ file \in Files /\ cfg = file
    /\ loaded = Nothing /\ toSeed = {}
    /\ stored = Nothing /\ schedules = Nothing /\ entries = Nothing
    /\ op = NoOp
    /\ acked = Nothing /\ doubt = {}
    /\ everUp = FALSE
    /\ ops = 0 /\ edits = 0 /\ crashes = 0 /\ faults = 0

----------------------------------------------------------------------------
\* The start of the process.  A start that stops before it has stored or
\* registered anything leaves no trace and is no step here.

FileTable(f) ==
    [n \in Names |->
       IF \E s \in f.schedules : s.name = n
       THEN NormalizeSchedule(CHOOSE s \in f.schedules : s.name = n)
       ELSE NoSchedule]

LoadConfig(f) ==
    /\ \A s \in f.schedules : ValidConfig(s, f.instances)
    /\ \A s, t \in f.schedules : s.name = t.name => s = t

\* The file is accepted, and NewEngine lists the stored schedules.
Start ==
    /\ phase = "down" /\ LoadConfig(file)
    /\ phase' = "starting"
    /\ cfg' = file
    /\ IF stored = Nothing
       THEN loaded' = FileTable(file) /\ toSeed' = {s.name : s \in file.schedules}
       ELSE /\ loaded' = [n \in Names |-> IF Has(stored, n) THEN Reloaded(stored[n])
                                                           ELSE NoSchedule]
            /\ toSeed' = {}
    /\ UNCHANGED <<file, stored, schedules, entries, op, told, everUp, counts>>

\* The process ends; an operation under way leaves its names in doubt.
Exit ==
    /\ phase' = "down"
    /\ loaded' = Nothing /\ toSeed' = {}
    /\ schedules' = Nothing /\ entries' = Nothing
    /\ op' = NoOp
    /\ doubt' = doubt \cup (Busy \cap Names)
    /\ UNCHANGED <<file, cfg, stored, acked, everUp, ops, edits>>

Seed(n) ==
    /\ phase = "starting" /\ n \in toSeed
    /\ \/ /\ Works
          /\ toSeed' = toSeed \ {n}
          /\ stored' = With(stored, loaded[n])
          /\ acked' = With(acked, loaded[n])
          /\ UNCHANGED <<phase, file, cfg, loaded, schedules, entries, op,
                         doubt, everUp, ops, edits, crashes>>
       \/ Fault /\ Exit /\ UNCHANGED crashes

\* Mutant: schedules are registered while some are still to be saved.
RegisterEarly ==
    /\ phase = "starting"
    /\ phase' = "up" /\ everUp' = TRUE
    /\ schedules' = loaded
    /\ entries' = [n \in Names |-> IF Has(loaded, n) /\ Active(loaded[n])
                                   THEN loaded[n] ELSE NoSchedule]
    /\ acked' = loaded /\ doubt' = {}
    /\ loaded' = Nothing
    /\ UNCHANGED <<file, cfg, toSeed, stored, op, counts>>

\* NewEngine prunes the runs, which may fail, and registers all schedules or
\* gives up.
Register ==
    /\ phase = "starting" /\ toSeed = {}
    /\ \/ /\ Works
          /\ \A n \in Names : Has(loaded, n) => ValidSchedule(loaded[n], cfg.instances)
          /\ phase' = "up" /\ everUp' = TRUE
          /\ schedules' = loaded
          /\ entries' = [n \in Names |-> IF Has(loaded, n) /\ Active(loaded[n])
                                         THEN loaded[n] ELSE NoSchedule]
          /\ acked' = loaded /\ doubt' = {}
          /\ loaded' = Nothing
          /\ UNCHANGED <<file, cfg, toSeed, stored, op, ops, edits, crashes>>
       \/ /\ Works
          /\ \E n \in Names : Has(loaded, n) /\ ~ValidSchedule(loaded[n], cfg.instances)
          /\ Exit /\ UNCHANGED crashes
       \/ Fault /\ Exit /\ UNCHANGED crashes

Crash ==
    /\ phase # "down" /\ crashes < MaxCrashes
    /\ crashes' = crashes + 1
    /\ Exit /\ UNCHANGED faults

\* The file is read only at a start.
EditFile ==
    /\ phase = "down" /\ edits < MaxEdits
    /\ edits' = edits + 1
    /\ file' \in Files \ {file}
    /\ UNCHANGED <<phase, cfg, loaded, toSeed, stored, schedules, entries, op,
                   told, everUp, ops, crashes, faults>>

----------------------------------------------------------------------------
\* SaveSchedule.

Request ==
    /\ phase = "up" /\ op = NoOp
    /\ ops < MaxOps /\ ops' = ops + 1
    /\ UNCHANGED <<startup, edits, crashes>>

\* Mutant: only what LoadConfig checks is checked.
AcceptsUnparsed(original, s) ==
    /\ ValidConfig(s, cfg.instances)
    /\ original # "" => Has(schedules, original)
    /\ original # s.name => ~Has(schedules, s.name)

Accepts(original, s) ==
    /\ ValidSchedule(s, cfg.instances)
    /\ original # "" => Has(schedules, original)
    /\ original # s.name => ~Has(schedules, s.name)

SaveSchedule(original, input) ==
    LET s == NormalizeSchedule(input)
        old == IF original = "" THEN NoSchedule ELSE schedules[original]
    IN  /\ Request
        /\ Accepts(original, s)
        /\ op' = [pc |-> "saving", original |-> original,
                  new |-> WithCompletion(s, old), old |-> old]
        /\ UNCHANGED <<stored, schedules, entries, told, faults>>

IsRename == op.original \notin {"", op.new.name}

\* Memory follows the store: the old schedule goes, the new one is registered,
\* which may fail for a schedule that gets an entry.
Install ==
    LET gone == {op.original, op.new.name}
    IN  \/ /\ Works
           /\ schedules' = With(Less(schedules, gone), op.new)
           /\ entries' = Registered(Less(entries, gone), op.new)
           /\ acked' = With(Less(acked, gone), op.new)
           /\ doubt' = doubt \ gone
           /\ Done
        \/ /\ Fault /\ Active(op.new)
           /\ schedules' = Less(schedules, gone)
           /\ entries' = Less(entries, gone)
           /\ Goto("undoing")
           /\ UNCHANGED told

\* Mutant: a rename deletes the original before it saves the new schedule.
SaveNewLast ==
    /\ op.pc = "saving"
    /\ \/ ~IsRename /\ stored' = With(stored, op.new) /\ Install
       \/ /\ IsRename /\ stored' = Less(stored, {op.original})
          /\ Works /\ Goto("dropping")
          /\ UNCHANGED <<schedules, entries, told>>
    /\ UNCHANGED <<startup, ops, edits, crashes>>

SaveNew ==
    /\ op.pc = "saving"
    /\ \/ /\ stored' = With(stored, op.new)
          /\ \/ ~IsRename /\ Install
             \/ /\ IsRename /\ Works /\ Goto("dropping")
                /\ UNCHANGED <<schedules, entries, told>>
       \/ Fault /\ Done /\ UNCHANGED <<stored, schedules, entries, told>>
    /\ UNCHANGED <<startup, ops, edits, crashes>>

\* Second half of a rename.
DropOriginal ==
    /\ op.pc = "dropping"
    /\ \/ stored' = Less(stored, {op.original}) /\ Install
       \/ Fault /\ Goto("undropping") /\ UNCHANGED <<stored, schedules, entries, told>>
    /\ UNCHANGED <<startup, ops, edits, crashes>>

\* Mutant: the new schedule is not deleted again.
UndropNothing ==
    /\ op.pc = "undropping"
    /\ Goto("resaving")
    /\ UNCHANGED <<stored, startup, schedules, entries, told, counts>>

\* Its compensation, whose own errors are ignored.
UndropNew ==
    /\ op.pc = "undropping"
    /\ Goto("resaving")
    /\ \/ Works /\ stored' = Less(stored, {op.new.name}) /\ UNCHANGED doubt
       \/ Fault /\ doubt' = doubt \cup {op.new.name} /\ UNCHANGED stored
    /\ UNCHANGED <<startup, schedules, entries, acked, ops, edits, crashes>>

ResaveOriginal ==
    /\ op.pc = "resaving"
    /\ Done
    /\ \/ Works /\ stored' = With(stored, op.old)
       \/ Fault /\ UNCHANGED stored
    /\ UNCHANGED <<startup, schedules, entries, told, ops, edits, crashes>>

\* Compensation when the new schedule could not be registered.
UndoNew ==
    /\ op.pc = "undoing"
    /\ IF op.old = NoSchedule THEN Done ELSE Goto("restoring")
    /\ \/ Works /\ stored' = Less(stored, {op.new.name}) /\ UNCHANGED doubt
       \/ Fault /\ doubt' = doubt \cup {op.new.name} /\ UNCHANGED stored
    /\ UNCHANGED <<startup, schedules, entries, acked, ops, edits, crashes>>

\* The old schedule is saved and registered again; each may fail on its own.
RestoreOld ==
    /\ op.pc = "restoring"
    /\ Done
    /\ \E saved, registered \in BOOLEAN :
         /\ registered \/ Active(op.old)
         /\ saved /\ registered => Works
         /\ ~(saved /\ registered) => Fault
         /\ stored' = IF saved THEN With(stored, op.old) ELSE stored
         /\ schedules' = IF registered THEN With(schedules, op.old) ELSE schedules
         /\ entries' = IF registered THEN Registered(entries, op.old) ELSE entries
         /\ doubt' = IF saved /\ registered THEN doubt \ {op.original}
                                            ELSE doubt \cup {op.original}
    /\ UNCHANGED <<startup, acked, ops, edits, crashes>>

----------------------------------------------------------------------------
\* The other operations.

\* Memory first; when the store fails, the schedule is gone until the next start.
DeleteSchedule(n) ==
    /\ Request
    /\ Has(schedules, n)
    /\ schedules' = Less(schedules, {n})
    /\ entries' = Less(entries, {n})
    /\ \/ /\ Works
          /\ stored' = Less(stored, {n})
          /\ acked' = Less(acked, {n}) /\ doubt' = doubt \ {n}
       \/ Fault /\ doubt' = doubt \cup {n} /\ UNCHANGED <<stored, acked>>
    /\ UNCHANGED op

\* A resumed schedule that cannot be registered is paused again.
TogglePause(n) ==
    /\ Request
    /\ Has(schedules, n)
    /\ LET s == [schedules[n] EXCEPT !.paused = ~@]
       IN  \/ /\ Works
              /\ stored' = With(stored, s)
              /\ schedules' = With(schedules, s)
              /\ entries' = Registered(entries, s)
              /\ acked' = With(acked, s) /\ doubt' = doubt \ {n}
              /\ UNCHANGED op
           \/ /\ Fault
              /\ UNCHANGED <<stored, schedules, entries, op, told>>
           \/ /\ Active(s) /\ Fault
              /\ stored' = With(stored, s)
              /\ entries' = Less(entries, {n})
              /\ op' = [pc |-> "repausing", original |-> n, new |-> s,
                        old |-> schedules[n]]
              /\ UNCHANGED <<schedules, told>>

Repause ==
    /\ op.pc = "repausing"
    /\ Done
    /\ \/ Works /\ stored' = With(stored, op.old) /\ UNCHANGED doubt
       \/ Fault /\ doubt' = doubt \cup {op.original} /\ UNCHANGED stored
    /\ UNCHANGED <<startup, schedules, entries, acked, ops, edits, crashes>>

\* A one-time schedule has been fired.
MarkOneTimeCompleted(n) ==
    /\ Request
    /\ Has(schedules, n)
    /\ schedules[n].type = "once" /\ ~schedules[n].completed
    /\ LET s == [schedules[n] EXCEPT !.completed = TRUE]
       IN  \/ /\ Works
              /\ stored' = With(stored, s)
              /\ schedules' = With(schedules, s)
              /\ entries' = Less(entries, {n})
              /\ acked' = With(acked, s) /\ doubt' = doubt \ {n}
           \/ Fault /\ UNCHANGED <<stored, schedules, entries, told>>
    /\ UNCHANGED op

Continue ==
    \/ SaveNew \/ DropOriginal \/ UndropNew \/ ResaveOriginal
    \/ UndoNew \/ RestoreOld \/ Repause

Next ==
    \/ Start \/ Register \/ Crash \/ EditFile \/ Continue
    \/ \E n \in Names : \/ Seed(n) \/ DeleteSchedule(n) \/ TogglePause(n)
                        \/ MarkOneTimeCompleted(n)
    \/ \E original \in Names \cup {""}, input \in Inputs :
           SaveSchedule(original, input)

Spec == Init /\ [][Next]_vars

----------------------------------------------------------------------------
\* Correctness.

TypeOK ==
    /\ phase \in {"down", "starting", "up"}
    /\ file \in Files /\ cfg \in Files
    /\ IsTable(loaded) /\ IsTable(stored) /\ IsTable(schedules)
    /\ IsTable(entries) /\ IsTable(acked)
    /\ toSeed \subseteq {n \in Names : Has(loaded, n)} /\ doubt \subseteq Names
    /\ op # NoOp =>
         /\ phase = "up"
         /\ op \in [pc : {"saving", "dropping", "undropping", "resaving",
                          "undoing", "restoring", "repausing"},
                    original : Names \cup {""}, new : Schedule,
                    old : Schedule \cup {NoSchedule}]
         /\ IF op.original = "" THEN op.old = NoSchedule
            ELSE op.old \in Schedule /\ op.old.name = op.original
    /\ everUp \in BOOLEAN
    /\ ops \in 0..MaxOps /\ edits \in 0..MaxEdits
    /\ crashes \in 0..MaxCrashes /\ faults \in 0..MaxFaults

\* What a caller was told of a schedule is in the store, whatever crashes and
\* failures come later, and a running engine goes by it: an answered save,
\* rename, pause, deletion or completion is never lost or half done, and one
\* answered with an error has changed nothing.  Excepted are the names of an
\* operation under way, and names in doubt since one was cut off by a crash,
\* a deletion failed, or a compensation failed.
AckedSchedulesSurvive ==
    \A n \in Names \ (doubt \cup Busy) :
        /\ stored[n] = acked[n]
        /\ phase = "up" => schedules[n] = acked[n]

\* An edit or a rename can be cut off anywhere but before its last
\* compensation and the store still has the schedule, in its old or its new
\* form.
EditKeepsAVersion ==
    op.pc \notin {"none", "restoring"} /\ op.old # NoSchedule
      /\ op.original \notin doubt
    => \/ stored[op.original] = op.old
       \/ stored[op.new.name] = op.new

\* Cron entries are those of the schedules due to run, with their present
\* definition, also in the middle of an operation and after it has failed.
EntriesFollow ==
    phase = "up" =>
      \A n \in Names : entries[n] = IF Has(schedules, n) /\ Active(schedules[n])
                                    THEN schedules[n] ELSE NoSchedule

\* Whatever is asked of a running engine, and whatever fails, the store holds
\* only schedules that NewEngine will accept and the cron library can be
\* given: requests cannot make the next start fail.
StartsAgain ==
    phase = "up" => \A n \in Names :
        Has(stored, n) => /\ ValidSchedule(stored[n], cfg.instances)
                          /\ ~NotSchedulable(stored[n])

\* This step answers a rename: the schedule n is called m from here on.
IsRenamed(n, m) == n = op.original /\ m = op.new.name /\ ~Has(acked', n)

\* A one-time schedule that has run is not set up to run again while its time
\* stays as it is, under its name or under the one a rename gives it, unless a
\* deletion or a compensation failed before.
CompletedStaysCompleted ==
    [][\A n \in Names \ doubt, m \in Names :
         /\ m = n \/ IsRenamed(n, m)
         /\ Has(acked, n) /\ acked[n].type = "once" /\ acked[n].completed
         /\ Has(acked', m) /\ acked'[m].type = "once"
         /\ acked'[m].runAt = acked[n].runAt /\ acked'[m].zone = acked[n].zone
         => acked'[m].completed]_vars

\* "YAML schedules can be used to seed a fresh store": the first engine that
\* runs on a store has registered the schedules of the file it was given.
FreshStoreTakesFile ==
    phase = "starting" /\ toSeed = {} /\ ~everUp => loaded = FileTable(cfg)
=============================================================================
