------------------- MODULE ScheduleCatalogSurvivalProofs --------------------
(***************************************************************************)
(* Proofs about ScheduleCatalog: what callers were told is stored, an edit *)
(* keeps a version (Surviving), and what has run stays completed           *)
(* (Completing).                                                           *)
(***************************************************************************)
EXTENDS ScheduleCatalogProofs

\* What callers were told is what is stored, and an edit keeps a version.

Settled(n) == stored[n] = acked[n] /\ schedules[n] = acked[n]

\* Memory lacks schedules, but has no others than callers know of.
MemoryIsTold ==
    phase = "up" => \A n \in Names : schedules[n] \in {NoSchedule, acked[n]}

SeededIsLoaded ==
    phase = "starting" => \A n \in Names \ toSeed : stored[n] = loaded[n]

\* How far the operation under way has taken the two names it is about.
Progress ==
    op # NoOp =>
      /\ op.original # "" => op.old = acked[op.original]
      /\ op.pc # "repausing" /\ op.new.name # op.original =>
           /\ schedules[op.new.name] = NoSchedule
           /\ op.new.name \notin doubt => acked[op.new.name] = NoSchedule
      /\ op.pc \in {"saving", "resaving"} => \A n \in Names \ doubt : Settled(n)
      /\ op.pc \in {"dropping", "undropping", "repausing"} =>
           \A n \in Names \ doubt : /\ schedules[n] = acked[n]
                                    /\ n # op.new.name => stored[n] = acked[n]
      /\ op.pc \in {"dropping", "undoing", "repausing"} =>
           stored[op.new.name] = op.new
      /\ /\ op.pc = "restoring" /\ op.new.name # op.original
         /\ op.new.name \notin doubt
         => stored[op.new.name] = NoSchedule

Surviving == /\ NoEmptyBodies /\ Startable
             /\ AckedSchedulesSurvive /\ MemoryIsTold /\ SeededIsLoaded /\ Progress

LEMMA SurvivingParts ==
    ASSUME Surviving
    PROVE  /\ Typed /\ Tables /\ OpOK /\ Rest /\ Phases /\ Startable /\ NoEmptyBodies
           /\ AckedSchedulesSurvive /\ MemoryIsTold /\ SeededIsLoaded /\ Progress
           /\ phase # "up" => op = NoOp
           /\ op = NoOp => /\ Busy = {}
                           /\ \A n \in Names \ doubt : stored[n] = acked[n]
                           /\ phase = "up" => \A n \in Names \ doubt : Settled(n)
           /\ op # NoOp => Busy = {op.original, op.new.name}
  BY TypeParts DEF Surviving, Startable, Typed, Phases, AckedSchedulesSurvive, Busy, Settled

\* Between operations of a running engine little is left to say.
LEMMA AtRest ==
    ASSUME phase = "up", op = NoOp, \A n \in Names \ doubt : Settled(n)
    PROVE  AckedSchedulesSurvive /\ SeededIsLoaded /\ Progress
  BY DEF AckedSchedulesSurvive, SeededIsLoaded, Progress, Settled, Busy

LEMMA KeptVersion == Surviving => EditKeepsAVersion
  <1> SUFFICES ASSUME Surviving, op.pc \notin {"none", "restoring"},
                      op.old # NoSchedule, op.original \notin doubt
               PROVE  \/ stored[op.original] = op.old
                      \/ stored[op.new.name] = op.new
    BY DEF EditKeepsAVersion
  <1>1. /\ op # NoOp /\ Progress /\ OpOK
        /\ op.original \in Names
        /\ op.pc \in {"dropping", "undropping", "resaving"} => IsRename
    BY SurvivingParts, Operating
  <1>2. /\ op.old = acked[op.original] /\ op.original \notin doubt
        /\ op.pc \in {"saving", "dropping", "undropping", "resaving", "undoing", "repausing"}
    BY <1>1, CatalogAssumption DEF Progress, OpOK
  <1> QED
    BY <1>1, <1>2 DEF Progress, IsRename, Settled

LEMMA StartSurvives ==
    ASSUME Surviving, Start, Startable'
    PROVE  Surviving'
  <1>1. /\ phase = "down" /\ phase' = "starting"
        /\ UNCHANGED <<file, stored, schedules, entries, op, acked, doubt>>
    BY DEF Start, told
  <1>2. Tables /\ Rest /\ AllNormal(stored) /\ NoEmptyBodies /\ op = NoOp
    BY <1>1, SurvivingParts DEF Startable
  <1>3. ASSUME NEW n \in Names \ toSeed'
        PROVE  stored[n] = loaded'[n]
    <2>1. CASE stored = Nothing
      <3>1. /\ loaded' = FileTable(file) /\ toSeed' = {s.name : s \in file.schedules}
            /\ file \in Files
        BY <1>2, <2>1 DEF Start, Rest
      <3>2. ~Has(FileTable(file), n)
        BY <1>3, <3>1, FileTableIsTable
      <3> QED
        BY <1>3, <2>1, <3>1, <3>2, NothingIsTable DEF Has
    <2>2. CASE stored # Nothing
      <3>1. loaded'[n] = IF Has(stored, n) THEN Reloaded(stored[n]) ELSE NoSchedule
        BY <1>3, <2>2 DEF Start
      <3>2. ASSUME Has(stored, n) PROVE Reloaded(stored[n]) = stored[n]
        <4> DEFINE s == stored[n]
        <4>1. s \in Schedule /\ NormalizeSchedule(s) = s /\ s.target.body # "{}"
          BY <1>2, <3>2 DEF AllNormal, Normal
        <4>2. s.target \in Target
          BY <4>1 DEF Schedule
        <4>3. WithoutEmpty(s.target) = s.target
          BY <4>1, <4>2 DEF WithoutEmpty, Target
        <4>4. Reloaded(s) = [s EXCEPT !.target = s.target]
          BY <4>1, <4>3 DEF Reloaded
        <4> QED
          BY <4>1, <4>4 DEF Schedule
      <3> QED
        BY <1>3, <3>1, <3>2 DEF Has
    <2> QED
      BY <2>1, <2>2
  <1>4. AckedSchedulesSurvive' /\ MemoryIsTold' /\ Progress'
    BY <1>1, <1>2, SurvivingParts DEF AckedSchedulesSurvive, MemoryIsTold, Progress, Busy
  <1> QED
    BY <1>1, <1>2, <1>3, <1>4 DEF Surviving, SeededIsLoaded

LEMMA ExitSurvives ==
    ASSUME Surviving, Exit, Startable'
    PROVE  Surviving'
  <1>1. /\ phase' = "down" /\ op' = NoOp /\ UNCHANGED <<stored, acked>>
        /\ doubt' = doubt \cup (Busy \cap Names)
    BY DEF Exit
  <1>2. AckedSchedulesSurvive'
    BY <1>1, SurvivingParts DEF AckedSchedulesSurvive
  <1> QED
    BY <1>1, <1>2, SurvivingParts DEF Surviving, MemoryIsTold, SeededIsLoaded, Progress

LEMMA SeedSurvives ==
    ASSUME Surviving, NEW n \in Names, Seed(n), ~Exit, Startable'
    PROVE  Surviving'
  <1>1. /\ phase = "starting" /\ n \in toSeed /\ toSeed' = toSeed \ {n}
        /\ stored' = With(stored, loaded[n]) /\ acked' = With(acked, loaded[n])
        /\ UNCHANGED <<phase, loaded, schedules, op, doubt>>
    BY DEF Seed
  <1>2. /\ Tables /\ Rest /\ op = NoOp
        /\ \A k \in Names \ doubt : stored[k] = acked[k]
        /\ \A k \in Names \ toSeed : stored[k] = loaded[k]
    BY <1>1, SurvivingParts DEF SeededIsLoaded
  <1>3. loaded[n] \in Schedule /\ loaded[n].name = n
    BY <1>1, <1>2, Row DEF Rest, Tables, Has
  <1>4. /\ \A k \in Names : stored'[k] = IF k = n THEN loaded[n] ELSE stored[k]
        /\ \A k \in Names : acked'[k] = IF k = n THEN loaded[n] ELSE acked[k]
    BY <1>1, <1>2, <1>3, WithEntry DEF Tables
  <1>5. AckedSchedulesSurvive' /\ SeededIsLoaded'
    BY <1>1, <1>2, <1>4 DEF AckedSchedulesSurvive, SeededIsLoaded
  <1> QED
    BY <1>1, <1>2, <1>5, SurvivingParts DEF Surviving, MemoryIsTold, Progress

LEMMA RegisterSurvives ==
    ASSUME Surviving, Register, ~Exit, Startable'
    PROVE  Surviving'
  <1>1. /\ phase = "starting" /\ toSeed = {} /\ phase' = "up"
        /\ schedules' = loaded /\ acked' = loaded /\ doubt' = {}
        /\ UNCHANGED <<stored, op>>
    BY DEF Register
  <1>2. op = NoOp /\ \A n \in Names : stored[n] = loaded[n]
    BY <1>1, SurvivingParts DEF SeededIsLoaded
  <1>3. \A n \in Names \ doubt' : Settled(n)'
    BY <1>1, <1>2 DEF Settled
  <1>4. AckedSchedulesSurvive' /\ SeededIsLoaded' /\ Progress'
    BY <1>1, <1>2, <1>3 DEF AckedSchedulesSurvive, SeededIsLoaded, Progress, Settled
  <1> QED
    BY <1>1, <1>4, SurvivingParts DEF Surviving, MemoryIsTold

LEMMA SaveScheduleSurvives ==
    ASSUME Surviving, NEW original \in Names \cup {""}, NEW input \in Inputs,
           SaveSchedule(original, input), Startable'
    PROVE  Surviving'
  <1> DEFINE s == NormalizeSchedule(input)
             old == IF original = "" THEN NoSchedule ELSE schedules[original]
             new == WithCompletion(s, old)
  <1>1. /\ Request /\ Accepts(original, s)
        /\ op' = [pc |-> "saving", original |-> original, new |-> new, old |-> old]
        /\ UNCHANGED <<stored, schedules, acked, doubt>>
    BY DEF SaveSchedule, told
  <1>2. /\ Tables /\ phase = "up" /\ phase' = "up" /\ MemoryIsTold
        /\ \A n \in Names \ doubt : Settled(n)
    BY <1>1, SurvivingParts DEF Request, startup
  <1>3. s \in Schedule /\ s.name \in Names
    BY CatalogAssumption, Normalised DEF Schedule
  <1>4. /\ original # "" => /\ original \in Names /\ schedules[original] # NoSchedule
                            /\ old = schedules[original]
        /\ original # s.name => schedules[s.name] = NoSchedule
    BY <1>1, <1>3 DEF Accepts, Has
  <1>5. original # "" => old = acked[original]
    BY <1>2, <1>4 DEF MemoryIsTold
  <1>6. new.name = s.name
    <2>1. old \in Schedule \cup {NoSchedule}
      BY <1>2, <1>4, Row DEF Tables
    <2> QED
      BY <1>3, <2>1, CompletionKept
  <1> HIDE DEF s, old, new
  <1>7. Progress'
    BY <1>1, <1>2, <1>3, <1>4, <1>5, <1>6 DEF Progress, Settled
  <1>8. AckedSchedulesSurvive' /\ MemoryIsTold' /\ SeededIsLoaded'
    BY <1>1, <1>2 DEF AckedSchedulesSurvive, MemoryIsTold, SeededIsLoaded, Settled
  <1> QED
    BY <1>7, <1>8, SurvivingParts DEF Surviving

\* What the steps of an operation start from.
LEMMA Underway ==
    ASSUME Surviving, op.pc # "none"
    PROVE  /\ op # NoOp /\ phase = "up" /\ Tables /\ MemoryIsTold
           /\ op.new \in Schedule /\ op.new.name \in Names
           /\ op.original \in Names \cup {""} /\ doubt \subseteq Names
           /\ op.original # "" => /\ op.original \in Names /\ op.old \in Schedule
                                  /\ op.old.name = op.original
                                  /\ op.old = acked[op.original]
           /\ op.old = NoSchedule <=> op.original = ""
           /\ op.pc \in {"dropping", "undropping", "resaving"} =>
                op.original # "" /\ op.original # op.new.name
           /\ op.pc \in {"restoring", "repausing"} => op.original # ""
           /\ \A n \in Names \ (doubt \cup {op.original, op.new.name}) : Settled(n)
  <1>1. Typed /\ MemoryIsTold /\ AckedSchedulesSurvive /\ Progress
    BY SurvivingParts
  <1>2. /\ op # NoOp /\ phase = "up" /\ Tables
        /\ op.new \in Schedule /\ op.new.name \in Names
        /\ op.original \in Names \cup {""} /\ doubt \subseteq Names
        /\ op.original # "" => op.old \in Schedule /\ op.old.name = op.original
        /\ op.old = NoSchedule <=> op.original = ""
        /\ op.pc \in {"dropping", "undropping", "resaving"} =>
             op.original # "" /\ IsRename
        /\ op.pc \in {"restoring", "repausing"} => op.original # ""
    BY <1>1, Operating
  <1>3. \A n \in Names \ (doubt \cup {op.original, op.new.name}) : Settled(n)
    BY <1>1, <1>2, SurvivingParts DEF AckedSchedulesSurvive, Settled
  <1>4. op.original # "" => op.original \in Names /\ op.old = acked[op.original]
    BY <1>1, <1>2 DEF Progress
  <1>5. IsRename => op.original # op.new.name
    BY DEF IsRename
  <1> QED
    BY <1>1, <1>2, <1>3, <1>4, <1>5

\* One entry of a table is set or taken out.
LEMMA WithAt ==
    ASSUME NEW t, IsTable(t), NEW s \in Schedule
    PROVE  /\ IsTable(With(t, s))
           /\ With(t, s)[s.name] = s
           /\ \A n \in Names \ {s.name} : With(t, s)[n] = t[n]
  <1>1. s.name \in Names
    BY DEF Schedule
  <1> QED
    BY <1>1, WithEntry

LEMMA LessAt ==
    ASSUME NEW t, IsTable(t), NEW gone
    PROVE  /\ IsTable(Less(t, gone))
           /\ \A n \in gone \cap Names : Less(t, gone)[n] = NoSchedule
           /\ \A n \in Names \ gone : Less(t, gone)[n] = t[n]
  BY LessEntries

\* A step that ends or goes on keeps the names of the operation.
LEMMA GoneOn ==
    ASSUME Surviving, op.pc # "none",
           NEW pc \in {"dropping", "undropping", "resaving", "undoing", "restoring"},
           Goto(pc)
    PROVE  /\ op'.pc = pc /\ op' # NoOp /\ Busy' = {op.original, op.new.name}
           /\ op'.original = op.original /\ op'.new = op.new /\ op'.old = op.old
  <1>1. OpOK /\ op # NoOp
    BY Underway, SurvivingParts
  <1>2. op \in [pc : {"saving", "dropping", "undropping", "resaving",
                      "undoing", "restoring", "repausing"},
                original : Names \cup {""}, new : Schedule,
                old : Schedule \cup {NoSchedule}]
    BY <1>1 DEF OpOK
  <1>3. /\ op'.pc = pc
        /\ op'.original = op.original /\ op'.new = op.new /\ op'.old = op.old
    BY <1>2 DEF Goto
  <1>4. op' # NoOp
    BY <1>3, NoOpIsNone
  <1> QED
    BY <1>3, <1>4 DEF Busy

\* Of a step of a running engine these are to be shown.
LEMMA RunningSuffices ==
    ASSUME Surviving, Startable', phase' = "up",
           MemoryIsTold', AckedSchedulesSurvive', Progress'
    PROVE  Surviving'
  BY SurvivingParts DEF Surviving, SeededIsLoaded

\* An operation that ends settles all names not in doubt.
LEMMA EndSurvives ==
    ASSUME Surviving, Startable', phase' = "up", op' = NoOp, MemoryIsTold',
           \A n \in Names \ doubt' : stored'[n] = acked'[n] /\ schedules'[n] = acked'[n]
    PROVE  Surviving'
  <1>1. AckedSchedulesSurvive' /\ Progress'
    BY DEF AckedSchedulesSurvive, Progress, Busy
  <1> QED
    BY <1>1, RunningSuffices

LEMMA InstallSurvives ==
    ASSUME Surviving, Startable', op.pc # "none", Install, UNCHANGED phase,
           stored'[op.new.name] = op.new,
           \A n \in Names \ {op.original, op.new.name} : stored'[n] = stored[n],
           op.original \in Names /\ op.original # op.new.name =>
              stored'[op.original] = NoSchedule,
           op.pc \in {"saving", "dropping"}
    PROVE  Surviving'
  <1> DEFINE gone == {op.original, op.new.name}
  <1>1. /\ phase = "up" /\ Tables /\ MemoryIsTold /\ op # NoOp
        /\ op.new \in Schedule /\ op.new.name \in Names
        /\ \A n \in Names \ (doubt \cup gone) : Settled(n)
        /\ op.original # "" => op.old = acked[op.original]
        /\ op.original \in Names \cup {""}
    BY Underway
  <1>2. CASE /\ schedules' = With(Less(schedules, gone), op.new)
             /\ acked' = With(Less(acked, gone), op.new)
             /\ doubt' = doubt \ gone /\ op' = NoOp
    <2> HIDE DEF gone
    <2>1. \A t : IsTable(t) =>
            /\ With(Less(t, gone), op.new)[op.new.name] = op.new
            /\ \A n \in (gone \cap Names) \ {op.new.name} :
                 With(Less(t, gone), op.new)[n] = NoSchedule
            /\ \A n \in Names \ (gone \cup {op.new.name}) :
                 With(Less(t, gone), op.new)[n] = t[n]
      <3> SUFFICES ASSUME NEW t, IsTable(t)
                   PROVE  /\ With(Less(t, gone), op.new)[op.new.name] = op.new
                          /\ \A n \in (gone \cap Names) \ {op.new.name} :
                               With(Less(t, gone), op.new)[n] = NoSchedule
                          /\ \A n \in Names \ (gone \cup {op.new.name}) :
                               With(Less(t, gone), op.new)[n] = t[n]
        OBVIOUS
      <3>1. /\ IsTable(Less(t, gone))
            /\ \A n \in gone \cap Names : Less(t, gone)[n] = NoSchedule
            /\ \A n \in Names \ gone : Less(t, gone)[n] = t[n]
        BY LessAt
      <3>2. /\ With(Less(t, gone), op.new)[op.new.name] = op.new
            /\ \A n \in Names \ {op.new.name} :
                 With(Less(t, gone), op.new)[n] = Less(t, gone)[n]
        BY <1>1, <3>1, WithAt
      <3> QED
        BY <3>1, <3>2
    <2>2. /\ schedules'[op.new.name] = op.new /\ acked'[op.new.name] = op.new
          /\ \A n \in (gone \cap Names) \ {op.new.name} :
               schedules'[n] = NoSchedule /\ acked'[n] = NoSchedule
          /\ \A n \in Names \ (gone \cup {op.new.name}) :
               schedules'[n] = schedules[n] /\ acked'[n] = acked[n]
      BY <1>1, <1>2, <2>1 DEF Tables
    <2>3. MemoryIsTold'
      BY <1>1, <2>2 DEF MemoryIsTold
    <2>4. \A n \in Names \ doubt' : stored'[n] = acked'[n] /\ schedules'[n] = acked'[n]
      <3> SUFFICES ASSUME NEW n \in Names \ doubt'
                   PROVE  stored'[n] = acked'[n] /\ schedules'[n] = acked'[n]
        OBVIOUS
      <3>1. CASE n = op.new.name
        BY <2>2, <3>1
      <3>2. CASE n \in gone /\ n # op.new.name
        BY <2>2, <3>2 DEF gone
      <3>3. CASE n \notin gone
        BY <1>1, <1>2, <2>2, <3>3 DEF gone, Settled
      <3> QED
        BY <3>1, <3>2, <3>3
    <2> QED
      BY <1>1, <1>2, <2>3, <2>4, EndSurvives
  <1>3. CASE /\ schedules' = Less(schedules, gone) /\ Goto("undoing")
             /\ UNCHANGED <<acked, doubt>>
    <2>1. /\ \A n \in gone \cap Names : schedules'[n] = NoSchedule
          /\ \A n \in Names \ gone : schedules'[n] = schedules[n]
      <3> HIDE DEF gone
      <3> QED
        <4>1. IsTable(schedules)
          BY <1>1 DEF Tables
        <4>2. /\ \A n \in gone \cap Names : Less(schedules, gone)[n] = NoSchedule
              /\ \A n \in Names \ gone : Less(schedules, gone)[n] = schedules[n]
          BY <4>1, LessAt
        <4> QED
          BY <1>3, <4>2
    <2>2. /\ op'.pc = "undoing" /\ op' # NoOp /\ Busy' = gone
          /\ op'.original = op.original /\ op'.new = op.new /\ op'.old = op.old
      BY <1>3, GoneOn
    <2>3. MemoryIsTold'
      BY <1>1, <1>3, <2>1 DEF MemoryIsTold
    <2>4. AckedSchedulesSurvive'
      BY <1>1, <1>3, <2>1, <2>2 DEF AckedSchedulesSurvive, Settled
    <2>5. op.new.name # op.original /\ op.new.name \notin doubt =>
            acked[op.new.name] = NoSchedule
      BY <1>1, SurvivingParts DEF Progress
    <2>6. Progress'
      BY <1>1, <1>3, <2>1, <2>2, <2>5 DEF Progress
    <2> QED
      BY <1>1, <2>3, <2>4, <2>6, RunningSuffices
  <1> QED
    BY <1>2, <1>3 DEF Install, Done, told

LEMMA SaveNewSurvives ==
    ASSUME Surviving, Startable', SaveNew
    PROVE  Surviving'
  <1>1. op.pc = "saving" /\ UNCHANGED phase
    BY DEF SaveNew, startup
  <1>2. /\ op # NoOp /\ phase = "up" /\ MemoryIsTold /\ op.new.name \in Names
        /\ \A n \in Names \ doubt : Settled(n)
        /\ op.original # "" => op.old = acked[op.original]
        /\ op.new.name # op.original =>
             /\ schedules[op.new.name] = NoSchedule
             /\ op.new.name \notin doubt => acked[op.new.name] = NoSchedule
    BY <1>1, Underway, SurvivingParts DEF Progress
  <1>3. CASE ~IsRename /\ Install /\ stored' = With(stored, op.new)
    <2>0. op.new \in Schedule /\ IsTable(stored)
      BY <1>1, Underway DEF Tables
    <2>1. /\ stored'[op.new.name] = op.new
          /\ \A n \in Names \ {op.new.name} : stored'[n] = stored[n]
      BY <1>3, <2>0, WithAt
    <2>2. ~(op.original \in Names /\ op.original # op.new.name)
      BY <1>3, CatalogAssumption DEF IsRename
    <2> QED
      BY <1>1, <1>3, <2>1, <2>2, InstallSurvives
  <1>4. CASE /\ IsRename /\ Goto("dropping") /\ stored' = With(stored, op.new)
             /\ UNCHANGED <<schedules, acked, doubt>>
    <2>1. /\ op'.pc = "dropping" /\ op' # NoOp
          /\ Busy' = {op.original, op.new.name}
          /\ op'.original = op.original /\ op'.new = op.new /\ op'.old = op.old
      BY <1>1, <1>4, GoneOn
    <2>0. op.new \in Schedule /\ IsTable(stored)
      BY <1>1, Underway DEF Tables
    <2>2. /\ stored'[op.new.name] = op.new
          /\ \A n \in Names \ {op.new.name} : stored'[n] = stored[n]
      BY <1>4, <2>0, WithAt
    <2>3. MemoryIsTold'
      BY <1>2, <1>4 DEF MemoryIsTold
    <2>4. \A n \in Names \ doubt' : /\ schedules'[n] = acked'[n]
                                    /\ n # op.new.name => stored'[n] = acked'[n]
      BY <1>2, <1>4, <2>2 DEF Settled
    <2>5. AckedSchedulesSurvive'
      <3> SUFFICES ASSUME NEW n \in Names \ (doubt' \cup Busy')
                   PROVE  stored'[n] = acked'[n] /\ schedules'[n] = acked'[n]
        BY DEF AckedSchedulesSurvive
      <3>1. n # op.new.name /\ n \in Names \ doubt'
        BY <2>1
      <3> QED
        BY <2>4, <3>1
    <2>6. /\ op'.original # "" => op'.old = acked'[op'.original]
          /\ op'.new.name # op'.original =>
               /\ schedules'[op'.new.name] = NoSchedule
               /\ op'.new.name \notin doubt' => acked'[op'.new.name] = NoSchedule
      BY <1>2, <1>4, <2>1
    <2>7. /\ op'.pc \notin {"saving", "resaving", "restoring"}
          /\ stored'[op'.new.name] = op'.new
      BY <2>1, <2>2
    <2>8. \A n \in Names \ doubt' : /\ schedules'[n] = acked'[n]
                                    /\ n # op'.new.name => stored'[n] = acked'[n]
      BY <2>1, <2>4
    <2>9. Progress'
      BY <2>6, <2>7, <2>8 DEF Progress
    <2> QED
      BY <1>1, <1>2, <2>3, <2>5, <2>9, RunningSuffices
  <1>5. CASE op' = NoOp /\ UNCHANGED <<stored, schedules, acked, doubt>>
    BY <1>1, <1>2, <1>5, EndSurvives DEF MemoryIsTold, Settled
  <1> QED
    BY <1>3, <1>4, <1>5 DEF SaveNew, Done, told

LEMMA DropOriginalSurvives ==
    ASSUME Surviving, Startable', DropOriginal
    PROVE  Surviving'
  <1>1. op.pc = "dropping" /\ UNCHANGED phase
    BY DEF DropOriginal, startup
  <1>2. /\ op # NoOp /\ phase = "up" /\ Progress /\ AckedSchedulesSurvive
        /\ MemoryIsTold /\ op.new.name \in Names /\ op.original # op.new.name
        /\ stored[op.new.name] = op.new
        /\ Busy = {op.original, op.new.name}
    BY <1>1, Underway, SurvivingParts DEF Progress
  <1>3. CASE stored' = Less(stored, {op.original}) /\ Install
    <2>1. /\ \A n \in {op.original} \cap Names : stored'[n] = NoSchedule
          /\ \A n \in Names \ {op.original} : stored'[n] = stored[n]
      <3>1. IsTable(stored)
        BY <1>1, Underway DEF Tables
      <3>2. /\ \A n \in {op.original} \cap Names : Less(stored, {op.original})[n] = NoSchedule
            /\ \A n \in Names \ {op.original} : Less(stored, {op.original})[n] = stored[n]
        BY <3>1, LessAt
      <3> QED
        BY <1>3, <3>2
    <2> QED
      BY <1>1, <1>2, <1>3, <2>1, InstallSurvives
  <1>4. CASE Goto("undropping") /\ UNCHANGED <<stored, schedules, acked, doubt>>
    <2>1. /\ op'.pc = "undropping" /\ op' # NoOp /\ Busy' = Busy
          /\ op'.original = op.original /\ op'.new = op.new /\ op'.old = op.old
      BY <1>1, <1>2, <1>4, GoneOn
    <2>2. AckedSchedulesSurvive' /\ MemoryIsTold' /\ Progress'
      BY <1>1, <1>2, <1>4, <2>1 DEF AckedSchedulesSurvive, MemoryIsTold, Progress
    <2> QED
      BY <1>1, <1>2, <2>2, RunningSuffices
  <1> QED
    BY <1>3, <1>4 DEF DropOriginal, told

LEMMA UndropNewSurvives ==
    ASSUME Surviving, Startable', UndropNew
    PROVE  Surviving'
  <1>1. /\ op.pc = "undropping" /\ UNCHANGED <<phase, schedules, acked>>
        /\ Goto("resaving")
        /\ \/ stored' = Less(stored, {op.new.name}) /\ UNCHANGED doubt
           \/ doubt' = doubt \cup {op.new.name} /\ UNCHANGED stored
    BY DEF UndropNew, startup
  <1>2. /\ op # NoOp /\ phase = "up" /\ MemoryIsTold
        /\ op.new.name \in Names /\ op.original # op.new.name
        /\ op.original # "" => op.old = acked[op.original]
        /\ schedules[op.new.name] = NoSchedule
        /\ op.new.name \notin doubt => acked[op.new.name] = NoSchedule
        /\ \A n \in Names \ doubt : /\ schedules[n] = acked[n]
                                    /\ n # op.new.name => stored[n] = acked[n]
    BY <1>1, Underway, SurvivingParts DEF Progress
  <1>3. /\ op'.pc = "resaving" /\ op' # NoOp
        /\ op'.original = op.original /\ op'.new = op.new /\ op'.old = op.old
    BY <1>1, GoneOn
  <1>4. \A n \in Names \ doubt' : Settled(n)'
    <2>1. /\ Less(stored, {op.new.name})[op.new.name] = NoSchedule
          /\ \A n \in Names \ {op.new.name} : Less(stored, {op.new.name})[n] = stored[n]
      <3>1. IsTable(stored)
        BY <1>1, Underway DEF Tables
      <3>2. /\ \A n \in {op.new.name} \cap Names : Less(stored, {op.new.name})[n] = NoSchedule
            /\ \A n \in Names \ {op.new.name} : Less(stored, {op.new.name})[n] = stored[n]
        BY <3>1, LessAt
      <3> QED
        BY <1>2, <3>2
    <2> SUFFICES ASSUME NEW n \in Names \ doubt'
                 PROVE  stored'[n] = acked[n] /\ schedules[n] = acked[n]
      BY <1>1 DEF Settled
    <2>2. CASE n = op.new.name
      BY <1>1, <1>2, <2>1, <2>2
    <2>3. CASE n # op.new.name
      BY <1>1, <1>2, <2>1, <2>3
    <2> QED
      BY <2>2, <2>3
  <1>5. AckedSchedulesSurvive'
    BY <1>4 DEF AckedSchedulesSurvive, Settled
  <1>6. MemoryIsTold' /\ Progress'
    BY <1>1, <1>2, <1>3, <1>4 DEF MemoryIsTold, Progress
  <1> QED
    BY <1>1, <1>2, <1>5, <1>6, RunningSuffices

LEMMA ResaveOriginalSurvives ==
    ASSUME Surviving, Startable', ResaveOriginal
    PROVE  Surviving'
  <1>1. /\ op.pc = "resaving" /\ op' = NoOp
        /\ UNCHANGED <<phase, schedules, acked, doubt>>
        /\ UNCHANGED stored \/ stored' = With(stored, op.old)
    BY DEF ResaveOriginal, startup, told, Done
  <1>2. /\ phase = "up" /\ MemoryIsTold /\ Tables
        /\ op.original \in Names /\ op.old \in Schedule
        /\ op.old.name = op.original /\ op.old = acked[op.original]
        /\ \A n \in Names \ doubt : Settled(n)
    BY <1>1, Underway, SurvivingParts DEF Progress
  <1>3. \A n \in Names : With(stored, op.old)[n] =
                          IF n = op.original THEN op.old ELSE stored[n]
    BY <1>2, WithEntry DEF Tables
  <1>4. \A n \in Names \ doubt' : stored'[n] = acked'[n] /\ schedules'[n] = acked'[n]
    BY <1>1, <1>2, <1>3 DEF Settled
  <1> QED
    BY <1>1, <1>2, <1>4, EndSurvives DEF MemoryIsTold

LEMMA UndoNewSurvives ==
    ASSUME Surviving, Startable', UndoNew
    PROVE  Surviving'
  <1>1. /\ op.pc = "undoing" /\ UNCHANGED <<phase, schedules, acked>>
        /\ IF op.old = NoSchedule THEN op' = NoOp ELSE Goto("restoring")
        /\ \/ stored' = Less(stored, {op.new.name}) /\ UNCHANGED doubt
           \/ doubt' = doubt \cup {op.new.name} /\ UNCHANGED stored
    BY DEF UndoNew, startup, Done
  <1>2. /\ op # NoOp /\ phase = "up" /\ MemoryIsTold
        /\ op.new.name \in Names
        /\ op.old = NoSchedule <=> op.original = ""
        /\ op.original # "" => op.old = acked[op.original]
        /\ op.new.name # op.original =>
             /\ schedules[op.new.name] = NoSchedule
             /\ op.new.name \notin doubt => acked[op.new.name] = NoSchedule
        /\ \A n \in Names \ (doubt \cup {op.original, op.new.name}) : Settled(n)
        /\ Less(stored, {op.new.name})[op.new.name] = NoSchedule
        /\ \A n \in Names \ {op.new.name} : Less(stored, {op.new.name})[n] = stored[n]
    <2>1. Progress /\ Tables /\ op.new.name \in Names
      BY <1>1, Underway, SurvivingParts
    <2>2. op.new.name # op.original =>
             /\ schedules[op.new.name] = NoSchedule
             /\ op.new.name \notin doubt => acked[op.new.name] = NoSchedule
      BY <1>1, <2>1, Underway DEF Progress
    <2>3. /\ Less(stored, {op.new.name})[op.new.name] = NoSchedule
          /\ \A n \in Names \ {op.new.name} : Less(stored, {op.new.name})[n] = stored[n]
      <3>1. IsTable(stored)
        BY <2>1 DEF Tables
      <3>2. /\ \A n \in {op.new.name} \cap Names : Less(stored, {op.new.name})[n] = NoSchedule
            /\ \A n \in Names \ {op.new.name} : Less(stored, {op.new.name})[n] = stored[n]
        BY <3>1, LessAt
      <3> QED
        BY <2>1, <3>2
    <2> QED
      BY <1>1, <2>2, <2>3, Underway
  <1>3. MemoryIsTold'
    BY <1>1, <1>2 DEF MemoryIsTold
  <1>4. CASE op.old = NoSchedule
    <2>1. op.original \notin Names /\ op.original # op.new.name
      BY <1>2, <1>4, CatalogAssumption
    <2>2. \A n \in Names \ doubt' : stored'[n] = acked'[n] /\ schedules'[n] = acked'[n]
      BY <1>1, <1>2, <2>1 DEF Settled
    <2> QED
      BY <1>1, <1>2, <1>3, <1>4, <2>2, EndSurvives
  <1>5. CASE op.old # NoSchedule
    <2>1. /\ op'.pc = "restoring" /\ op' # NoOp /\ Busy' = {op.original, op.new.name}
          /\ op'.original = op.original /\ op'.new = op.new /\ op'.old = op.old
      BY <1>1, <1>5, GoneOn
    <2>2. AckedSchedulesSurvive'
      BY <1>1, <1>2, <2>1 DEF AckedSchedulesSurvive, Settled
    <2>3. Progress'
      <3>1. op.original # "" => op.old = acked'[op.original]
        BY <1>1, <1>2
      <3>2. op.new.name # op.original =>
              /\ schedules'[op.new.name] = NoSchedule
              /\ op.new.name \notin doubt' =>
                   acked'[op.new.name] = NoSchedule /\ stored'[op.new.name] = NoSchedule
        BY <1>1, <1>2
      <3> QED
        BY <2>1, <3>1, <3>2 DEF Progress
    <2> QED
      BY <1>1, <1>2, <1>3, <2>2, <2>3, RunningSuffices
  <1> QED
    BY <1>4, <1>5

LEMMA RestoreOldSurvives ==
    ASSUME Surviving, Startable', RestoreOld
    PROVE  Surviving'
  <1>1. /\ op.pc = "restoring" /\ op' = NoOp /\ UNCHANGED <<phase, acked>>
    BY DEF RestoreOld, startup, Done
  <1>2. PICK saved, registered \in BOOLEAN :
          /\ stored' = IF saved THEN With(stored, op.old) ELSE stored
          /\ schedules' = IF registered THEN With(schedules, op.old) ELSE schedules
          /\ doubt' = IF saved /\ registered THEN doubt \ {op.original}
                                             ELSE doubt \cup {op.original}
    BY DEF RestoreOld
  <1>3. /\ phase = "up" /\ MemoryIsTold /\ Tables
        /\ op.new.name \in Names /\ op.original \in Names /\ op.old \in Schedule
        /\ op.old.name = op.original /\ op.old = acked[op.original]
        /\ op.new.name # op.original =>
             /\ schedules[op.new.name] = NoSchedule
             /\ op.new.name \notin doubt => /\ acked[op.new.name] = NoSchedule
                                           /\ stored[op.new.name] = NoSchedule
        /\ \A n \in Names \ (doubt \cup {op.original, op.new.name}) : Settled(n)
    BY <1>1, Underway, SurvivingParts DEF Progress
  <1>4. \A n \in Names :
          /\ With(stored, op.old)[n] = IF n = op.original THEN op.old ELSE stored[n]
          /\ With(schedules, op.old)[n] = IF n = op.original THEN op.old ELSE schedules[n]
    BY <1>3, WithEntry DEF Tables
  <1>5. MemoryIsTold'
    BY <1>1, <1>2, <1>3, <1>4 DEF MemoryIsTold
  <1>6. \A n \in Names \ doubt' : stored'[n] = acked'[n] /\ schedules'[n] = acked'[n]
    <2> SUFFICES ASSUME NEW n \in Names \ doubt'
                 PROVE  stored'[n] = acked'[n] /\ schedules'[n] = acked'[n]
      OBVIOUS
    <2>1. CASE n = op.original
      BY <1>1, <1>2, <1>3, <1>4, <2>1
    <2>2. CASE n # op.original
      BY <1>1, <1>2, <1>3, <1>4, <2>2 DEF Settled
    <2> QED
      BY <2>1, <2>2
  <1> QED
    BY <1>1, <1>3, <1>5, <1>6, EndSurvives

LEMMA RepauseSurvives ==
    ASSUME Surviving, Startable', Repause
    PROVE  Surviving'
  <1>1. /\ op.pc = "repausing" /\ op' = NoOp /\ UNCHANGED <<phase, schedules, acked>>
        /\ \/ stored' = With(stored, op.old) /\ UNCHANGED doubt
           \/ doubt' = doubt \cup {op.original} /\ UNCHANGED stored
    BY DEF Repause, startup, Done
  <1>2. /\ phase = "up" /\ MemoryIsTold /\ Tables
        /\ op.original \in Names /\ op.old \in Schedule
        /\ op.old.name = op.original /\ op.old = acked[op.original]
        /\ op.original = op.new.name
        /\ \A n \in Names \ doubt : /\ schedules[n] = acked[n]
                                    /\ n # op.new.name => stored[n] = acked[n]
    BY <1>1, Underway, SurvivingParts DEF Progress, Phases
  <1>3. \A n \in Names : With(stored, op.old)[n] =
                          IF n = op.original THEN op.old ELSE stored[n]
    BY <1>2, WithEntry DEF Tables
  <1>4. \A n \in Names \ doubt' : stored'[n] = acked'[n] /\ schedules'[n] = acked'[n]
    BY <1>1, <1>2, <1>3
  <1> QED
    BY <1>1, <1>2, <1>4, EndSurvives DEF MemoryIsTold

LEMMA RequestsSurvive ==
    ASSUME Surviving, Startable', NEW n \in Names,
           DeleteSchedule(n) \/ TogglePause(n) \/ MarkOneTimeCompleted(n)
    PROVE  Surviving'
  <1>1. /\ Request /\ phase = "up" /\ op = NoOp /\ UNCHANGED phase
        /\ Has(schedules, n)
    BY DEF DeleteSchedule, TogglePause, MarkOneTimeCompleted, Request, startup
  <1>2. /\ IsTable(stored) /\ IsTable(schedules) /\ IsTable(acked) /\ MemoryIsTold
        /\ \A k \in Names \ doubt : Settled(k)
    BY <1>1, SurvivingParts DEF Tables
  <1>3. /\ schedules[n] \in Schedule /\ schedules[n].name = n
        /\ schedules[n] = acked[n] /\ schedules[n] # NoSchedule
    BY <1>1, <1>2, Row DEF MemoryIsTold, Has
  <1>4. CASE UNCHANGED <<stored, schedules, op, acked, doubt>>
    BY <1>1, <1>2, <1>4, EndSurvives DEF MemoryIsTold, Settled
  <1>5. ASSUME NEW s \in Schedule, s.name = n, op' = NoOp, doubt' = doubt \ {n},
               stored' = With(stored, s), schedules' = With(schedules, s),
               acked' = With(acked, s)
        PROVE  Surviving'
    <2>1. /\ stored'[n] = s /\ schedules'[n] = s /\ acked'[n] = s
          /\ \A k \in Names \ {n} : /\ stored'[k] = stored[k] /\ acked'[k] = acked[k]
                                   /\ schedules'[k] = schedules[k]
      BY <1>2, <1>5, WithAt
    <2>2. MemoryIsTold'
      BY <1>1, <1>2, <2>1 DEF MemoryIsTold
    <2>3. \A k \in Names \ doubt' : stored'[k] = acked'[k] /\ schedules'[k] = acked'[k]
      <3> SUFFICES ASSUME NEW k \in Names \ doubt'
                   PROVE  stored'[k] = acked'[k] /\ schedules'[k] = acked'[k]
        OBVIOUS
      <3>1. CASE k = n
        BY <2>1, <3>1
      <3>2. CASE k # n
        BY <1>2, <1>5, <2>1, <3>2 DEF Settled
      <3> QED
        BY <3>1, <3>2
    <2> QED
      BY <1>1, <1>5, <2>2, <2>3, EndSurvives
  <1>6. CASE DeleteSchedule(n)
    <2>1. /\ schedules' = Less(schedules, {n}) /\ op' = NoOp
          /\ \/ /\ stored' = Less(stored, {n}) /\ acked' = Less(acked, {n})
                /\ doubt' = doubt \ {n}
             \/ doubt' = doubt \cup {n} /\ UNCHANGED <<stored, acked>>
      BY <1>1, <1>6 DEF DeleteSchedule
    <2>2. \A t : IsTable(t) => /\ Less(t, {n})[n] = NoSchedule
                              /\ \A k \in Names \ {n} : Less(t, {n})[k] = t[k]
      BY LessEntries
    <2>3. MemoryIsTold'
      <3> SUFFICES ASSUME NEW k \in Names
                   PROVE  schedules'[k] \in {NoSchedule, acked'[k]}
        BY DEF MemoryIsTold
      <3>1. schedules'[n] = NoSchedule
        BY <1>2, <2>1, <2>2
      <3>2. CASE k # n
        <4>1. schedules'[k] = schedules[k] /\ acked'[k] = acked[k]
          BY <1>2, <2>1, <2>2, <3>2
        <4> QED
          BY <1>1, <1>2, <4>1 DEF MemoryIsTold
      <3> QED
        BY <3>1, <3>2
    <2>4. \A k \in Names \ doubt' : stored'[k] = acked'[k] /\ schedules'[k] = acked'[k]
      <3> SUFFICES ASSUME NEW k \in Names \ doubt'
                   PROVE  stored'[k] = acked'[k] /\ schedules'[k] = acked'[k]
        OBVIOUS
      <3>1. CASE k = n
        BY <1>2, <2>1, <2>2, <3>1
      <3>2. CASE k # n
        BY <1>2, <2>1, <2>2, <3>2 DEF Settled
      <3> QED
        BY <3>1, <3>2
    <2> QED
      BY <1>1, <2>1, <2>3, <2>4, EndSurvives
  <1>7. CASE TogglePause(n)
    <2> DEFINE s == [schedules[n] EXCEPT !.paused = ~@]
    <2>1. s \in Schedule /\ s.name = n
      BY <1>3, Toggled
    <2>2. CASE UNCHANGED op
      <3>1. \/ UNCHANGED <<stored, schedules, op, acked, doubt>>
            \/ /\ stored' = With(stored, s) /\ schedules' = With(schedules, s)
               /\ acked' = With(acked, s) /\ doubt' = doubt \ {n}
            \/ op' = [pc |-> "repausing", original |-> n, new |-> s, old |-> schedules[n]]
        BY <1>7 DEF TogglePause, told
      <3>2. op' # [pc |-> "repausing", original |-> n, new |-> s, old |-> schedules[n]]
        <4> HIDE DEF s
        <4>1. [pc |-> "repausing", original |-> n, new |-> s, old |-> schedules[n]].pc
                = "repausing"
          OBVIOUS
        <4> QED
          BY <1>1, <2>2, <4>1, NoOpIsNone
      <3> HIDE DEF s
      <3> QED
        BY <1>1, <1>4, <1>5, <2>1, <2>2, <3>1, <3>2
    <2>3. CASE ~UNCHANGED op
      <3>1. /\ stored' = With(stored, s) /\ UNCHANGED <<schedules, acked, doubt>>
            /\ op' = [pc |-> "repausing", original |-> n, new |-> s, old |-> schedules[n]]
        BY <1>7, <2>3 DEF TogglePause, told
      <3> HIDE DEF s
      <3>2. stored'[n] = s /\ \A k \in Names \ {n} : stored'[k] = stored[k]
        BY <1>2, <2>1, <3>1, WithAt
      <3>3. MemoryIsTold'
        BY <1>1, <1>2, <3>1 DEF MemoryIsTold
      <3>4. op' # NoOp /\ Busy' = {n}
        <4>1. op'.pc = "repausing" /\ op'.original = n /\ op'.new = s
          BY <3>1
        <4>2. op' # NoOp
          BY <4>1, NoOpIsNone
        <4> QED
          BY <2>1, <4>1, <4>2 DEF Busy
      <3>5. AckedSchedulesSurvive'
        BY <1>1, <1>2, <3>1, <3>2, <3>4 DEF AckedSchedulesSurvive, Settled
      <3>6. Progress'
        BY <1>2, <1>3, <2>1, <3>1, <3>2 DEF Progress, Settled
      <3> QED
        BY <1>1, <3>3, <3>5, <3>6, RunningSuffices
    <2> QED
      BY <2>2, <2>3
  <1>8. CASE MarkOneTimeCompleted(n)
    <2> DEFINE s == [schedules[n] EXCEPT !.completed = TRUE]
    <2>1. s \in Schedule /\ s.name = n
      BY <1>3, FlagsKept
    <2>2. \/ UNCHANGED <<stored, schedules, op, acked, doubt>>
          \/ /\ stored' = With(stored, s) /\ schedules' = With(schedules, s)
             /\ acked' = With(acked, s) /\ doubt' = doubt \ {n} /\ op' = NoOp
      BY <1>1, <1>8 DEF MarkOneTimeCompleted, told
    <2> HIDE DEF s
    <2> QED
      BY <1>4, <1>5, <2>1, <2>2
  <1> QED
    BY <1>6, <1>7, <1>8

LEMMA SurvivingStep == Surviving /\ [Next]_vars => Surviving'
  <1> SUFFICES ASSUME Surviving, [Next]_vars PROVE Surviving'
    OBVIOUS
  <1>1. Startable'
    BY StartableStep, SurvivingParts
  <1>2. CASE Start
    BY <1>1, <1>2, StartSurvives
  <1>3. CASE Exit
    BY <1>1, <1>3, ExitSurvives
  <1>4. CASE Register \/ Crash
    BY <1>1, <1>3, <1>4, RegisterSurvives DEF Crash
  <1>5. ASSUME NEW n \in Names,
               Seed(n) \/ DeleteSchedule(n) \/ TogglePause(n) \/ MarkOneTimeCompleted(n)
        PROVE  Surviving'
    BY <1>1, <1>3, <1>5, SeedSurvives, RequestsSurvive
  <1>6. CASE Continue
    BY <1>1, <1>6, SaveNewSurvives, DropOriginalSurvives, UndropNewSurvives,
       ResaveOriginalSurvives, UndoNewSurvives, RestoreOldSurvives, RepauseSurvives
       DEF Continue
  <1>7. CASE \E original \in Names \cup {""}, input \in Inputs :
                SaveSchedule(original, input)
    BY <1>1, <1>7, SaveScheduleSurvives
  <1>8. CASE EditFile
    <2>1. UNCHANGED <<phase, loaded, toSeed, stored, schedules, op, acked, doubt>>
      BY <1>8 DEF EditFile, told
    <2> QED
      BY <1>1, <2>1, SurvivingParts DEF Surviving, AckedSchedulesSurvive, MemoryIsTold,
                                        SeededIsLoaded, Progress, Settled, Busy
  <1>9. CASE UNCHANGED vars
    <2>1. UNCHANGED <<phase, loaded, toSeed, stored, schedules, op, acked, doubt>>
      BY <1>9 DEF vars
    <2> QED
      BY <1>1, <2>1, SurvivingParts DEF Surviving, AckedSchedulesSurvive, MemoryIsTold,
                                        SeededIsLoaded, Progress, Settled, Busy
  <1> QED
    BY <1>2, <1>4, <1>5, <1>6, <1>7, <1>8, <1>9 DEF Next

LEMMA InitSurviving == NoEmptyBodies /\ Init => Surviving
  <1> SUFFICES ASSUME NoEmptyBodies, Init PROVE Surviving
    OBVIOUS
  <1>1. Startable
    <2>1. AllNormal(stored) /\ AllNormal(loaded)
      BY NothingIsTable DEF Init, AllNormal, Has
    <2> QED
      BY <2>1, InitTyped DEF Init, Startable
  <1> QED
    BY <1>1 DEF Init, Surviving, AckedSchedulesSurvive, MemoryIsTold, SeededIsLoaded,
                Progress

\* Where no schedule has an empty body of its own, what a caller was told of a
\* schedule is in the store and in the memory of a running engine, through
\* crashes, failures and restarts, unless its name is busy or in doubt.
THEOREM AckedAlwaysSurvive == NoEmptyBodies /\ Spec => []AckedSchedulesSurvive
  <1>1. Surviving => AckedSchedulesSurvive
    BY DEF Surviving
  <1> QED
    BY <1>1, InitSurviving, SurvivingStep, PTL DEF Spec

\* And wherever an edit or a rename is cut off, the store has the schedule in
\* its old form or in its new one.
THEOREM EditAlwaysKeepsAVersion == NoEmptyBodies /\ Spec => []EditKeepsAVersion
  BY KeptVersion, InitSurviving, SurvivingStep, PTL DEF Spec

----------------------------------------------------------------------------
\* A completed one-time schedule stays completed.

SameTime(s, r) == s.type = "once" /\ r.type = "once" /\ s.runAt = r.runAt /\ s.zone = r.zone

\* The schedule about to be saved has the completion of the one it replaces.
Carried ==
    /\ op # NoOp /\ op.pc \in {"saving", "dropping"} /\ op.old # NoSchedule
    /\ SameTime(op.old, op.new) /\ op.old.completed
    => op.new.completed

UnseededIsEmpty == phase = "starting" => \A n \in toSeed : stored[n] = NoSchedule

Completing == Surviving /\ Carried /\ UnseededIsEmpty

StaysCompleted(n) ==
    /\ Has(acked, n) /\ acked[n].completed /\ Has(acked', n)
    /\ SameTime(acked[n], acked'[n])
    => acked'[n].completed

RenameKeepsCompleted(n) ==
    \A m \in Names :
        /\ IsRenamed(n, m)
        /\ Has(acked, n) /\ acked[n].completed /\ Has(acked', m)
        /\ SameTime(acked[n], acked'[m])
        => acked'[m].completed

LEMMA CarriedWhenSaved ==
    ASSUME NEW s \in Schedule, NEW old \in Schedule, old # NoSchedule,
           SameTime(old, WithCompletion(s, old)), old.completed
    PROVE  WithCompletion(s, old).completed
  <1>1. Alike(s, WithCompletion(s, old))
    BY CompletionAlike
  <1>2. SameTime(old, s)
    BY <1>1 DEF Alike, SameTime
  <1>3. CASE s.completed
    BY <1>3 DEF WithCompletion
  <1>4. CASE ~s.completed
    <2>1. WithCompletion(s, old) = [s EXCEPT !.completed = old.completed]
      BY <1>2, <1>4 DEF WithCompletion, SameTime
    <2> QED
      BY <2>1 DEF Schedule
  <1> QED
    BY <1>3, <1>4

LEMMA CarriedStep == Completing /\ [Next]_vars => Carried'
  <1> SUFFICES ASSUME Completing, [Next]_vars PROVE Carried'
    OBVIOUS
  <1>1. Surviving /\ Carried
    BY DEF Completing
  <1>2. CASE UNCHANGED op \/ op' = NoOp
    BY <1>1, <1>2 DEF Carried
  <1>3. ASSUME NEW original \in Names \cup {""}, NEW input \in Inputs,
               SaveSchedule(original, input)
        PROVE  Carried'
    <2> DEFINE s == NormalizeSchedule(input)
               old == IF original = "" THEN NoSchedule ELSE schedules[original]
    <2>1. /\ op'.old = old /\ op'.new = WithCompletion(s, old) /\ Accepts(original, s)
      BY <1>3 DEF SaveSchedule
    <2>2. s \in Schedule
      BY CatalogAssumption, Normalised
    <2>3. Tables
      BY <1>1, SurvivingParts
    <2>4. old # NoSchedule => old \in Schedule
      BY <2>1, <2>3, Row DEF Accepts, Has, Tables
    <2> HIDE DEF s, old
    <2> QED
      BY <2>1, <2>2, <2>4, CarriedWhenSaved DEF Carried
  <1>4. ASSUME NEW pc \in {"dropping", "undropping", "resaving", "undoing", "restoring"},
               Goto(pc), op.pc # "none", pc = "dropping" => op.pc = "saving"
        PROVE  Carried'
    <2>1. /\ op'.pc = pc /\ op # NoOp /\ op'.new = op.new /\ op'.old = op.old
      BY <1>1, <1>4, GoneOn, Underway
    <2> QED
      BY <1>1, <1>4, <2>1 DEF Carried
  <1>5. ASSUME NEW n \in Names, TogglePause(n)
        PROVE  Carried'
    <2>1. UNCHANGED op \/ op'.pc = "repausing"
      BY <1>5 DEF TogglePause
    <2> QED
      BY <1>2, <2>1 DEF Carried
  <1>6. CASE Continue
    <2>1. \/ op' = NoOp
          \/ op.pc = "saving" /\ Goto("dropping")
          \/ op.pc # "none" /\ \E pc \in {"undropping", "resaving", "undoing", "restoring"} :
                                 Goto(pc)
      BY <1>6 DEF Continue, SaveNew, DropOriginal, UndropNew, ResaveOriginal, UndoNew,
                  RestoreOld, Repause, Install, Done
    <2> QED
      BY <1>2, <1>4, <2>1
  <1>7. CASE \/ Start \/ Register \/ Crash \/ EditFile
             \/ \E n \in Names : Seed(n) \/ DeleteSchedule(n) \/ MarkOneTimeCompleted(n)
    BY <1>2, <1>7 DEF Start, Register, Crash, EditFile, Seed, DeleteSchedule,
                      MarkOneTimeCompleted, Exit
  <1> QED
    BY <1>2, <1>3, <1>5, <1>6, <1>7 DEF Next, vars

LEMMA UnseededStep == Completing /\ [Next]_vars => UnseededIsEmpty'
  <1> SUFFICES ASSUME Completing, [Next]_vars, phase' = "starting" PROVE UnseededIsEmpty'
    BY DEF UnseededIsEmpty
  <1>1. Surviving /\ UnseededIsEmpty /\ Tables /\ Rest
    BY SurvivingParts DEF Completing
  <1>2. CASE Start
    <2>1. stored' = stored /\ (stored = Nothing \/ toSeed' = {})
      BY <1>2 DEF Start
    <2>2. stored = Nothing => toSeed' \subseteq Names
      <3>1. file \in Files
        BY <1>1 DEF Rest
      <3>2. \A s \in file.schedules : s.name \in Names
        BY <3>1, CatalogAssumption DEF Schedule
      <3> QED
        BY <1>2, <3>2 DEF Start
    <2> QED
      BY <2>1, <2>2, NothingIsTable DEF UnseededIsEmpty
  <1>3. ASSUME NEW n \in Names, Seed(n)
        PROVE  UnseededIsEmpty'
    <2>1. /\ phase = "starting" /\ n \in toSeed /\ toSeed' = toSeed \ {n}
          /\ stored' = With(stored, loaded[n])
      BY <1>3 DEF Seed, Exit
    <2>2. /\ loaded[n] \in Schedule /\ loaded[n].name = n /\ IsTable(stored)
          /\ toSeed \subseteq Names
      BY <1>1, <2>1, Row DEF Rest, Tables, Has
    <2>3. \A k \in Names \ {n} : stored'[k] = stored[k]
      BY <2>1, <2>2, WithAt
    <2> QED
      BY <1>1, <2>1, <2>2, <2>3 DEF UnseededIsEmpty
  <1>4. CASE UNCHANGED <<phase, toSeed, stored>>
    BY <1>1, <1>4 DEF UnseededIsEmpty
  <1>5. CASE Exit \/ Register \/ Crash \/ EditFile
    BY <1>4, <1>5 DEF Exit, Register, Crash, EditFile
  <1>6. CASE Continue
    <2>1. op.pc # "none"
      BY <1>6 DEF Continue, SaveNew, DropOriginal, UndropNew, ResaveOriginal, UndoNew,
                  RestoreOld, Repause
    <2>2. phase' = "up"
      BY <1>1, <1>6, <2>1, Underway
         DEF Continue, SaveNew, DropOriginal, UndropNew, ResaveOriginal, UndoNew,
             RestoreOld, Repause, startup
    <2> QED
      BY <2>2
  <1>7. CASE \/ \E n \in Names : DeleteSchedule(n) \/ TogglePause(n) \/ MarkOneTimeCompleted(n)
             \/ \E original \in Names \cup {""}, input \in Inputs :
                  SaveSchedule(original, input)
    BY <1>7 DEF DeleteSchedule, TogglePause, MarkOneTimeCompleted, SaveSchedule, Request,
                startup
  <1> QED
    BY <1>2, <1>3, <1>4, <1>5, <1>6, <1>7 DEF Next, vars

LEMMA InstallKeepsCompleted ==
    ASSUME Completing, Install, op.pc \in {"saving", "dropping"}, NEW n \in Names \ doubt
    PROVE  StaysCompleted(n) /\ RenameKeepsCompleted(n)
  <1> DEFINE gone == {op.original, op.new.name}
  <1>1. /\ op # NoOp /\ Tables /\ Progress /\ Carried
        /\ op.new \in Schedule /\ op.new.name \in Names
        /\ op.original # "" => op.old = acked[op.original]
        /\ IsTable(acked)
    BY Underway, SurvivingParts DEF Completing, Tables
  <1>2. CASE UNCHANGED acked
    BY <1>2 DEF StaysCompleted, RenameKeepsCompleted, IsRenamed, Has
  <1>3. CASE acked' = With(Less(acked, gone), op.new)
    <2>1. /\ IsTable(Less(acked, gone))
          /\ \A k \in gone \cap Names : Less(acked, gone)[k] = NoSchedule
          /\ \A k \in Names \ gone : Less(acked, gone)[k] = acked[k]
      <3> HIDE DEF gone
      <3> QED
        BY <1>1, LessAt, ZenonT(60)
    <2>2. /\ acked'[op.new.name] = op.new
          /\ \A k \in Names \ {op.new.name} : acked'[k] = Less(acked, gone)[k]
      <3> HIDE DEF gone
      <3> QED
        BY <1>1, <1>3, <2>1, WithAt, ZenonT(60)
    <2>3. ASSUME n = op.new.name /\ n = op.original PROVE StaysCompleted(n)
      <3>1. op.old = acked[n] /\ acked'[n] = op.new
        BY <1>1, <2>2, <2>3, CatalogAssumption
      <3> QED
        BY <1>1, <3>1 DEF StaysCompleted, Carried, Has
    <2>4. ASSUME n = op.new.name /\ n # op.original PROVE StaysCompleted(n)
      <3>1. acked[n] = NoSchedule
        BY <1>1, <2>4 DEF Progress
      <3> QED
        BY <3>1 DEF StaysCompleted, Has
    <2>5. ASSUME n = op.original /\ n # op.new.name PROVE StaysCompleted(n)
      <3>1. acked'[n] = NoSchedule
        BY <2>1, <2>2, <2>5
      <3> QED
        BY <3>1 DEF StaysCompleted, Has
    <2>6. ASSUME n \notin gone PROVE StaysCompleted(n)
      <3>1. acked'[n] = acked[n]
        BY <2>1, <2>2, <2>6
      <3> QED
        BY <3>1 DEF StaysCompleted
    <2>7. ASSUME NEW m \in Names, IsRenamed(n, m), Has(acked, n), acked[n].completed,
                 SameTime(acked[n], acked'[m])
          PROVE  acked'[m].completed
      <3>1. n = op.original /\ m = op.new.name /\ n # ""
        BY <2>7, CatalogAssumption DEF IsRenamed
      <3>2. op.old = acked[n] /\ acked'[m] = op.new
        BY <1>1, <2>2, <3>1
      <3> QED
        BY <1>1, <2>7, <3>2 DEF Carried, Has
    <2> QED
      BY <2>3, <2>4, <2>5, <2>6, <2>7 DEF RenameKeepsCompleted
  <1> QED
    BY <1>2, <1>3 DEF Install, told

LEMMA FlagStepsKeepCompleted ==
    ASSUME Completing, NEW n \in Names \ doubt, NEW k \in Names,
           DeleteSchedule(k) \/ TogglePause(k) \/ MarkOneTimeCompleted(k)
    PROVE  StaysCompleted(n)
  <1>1. /\ Has(schedules, k) /\ phase = "up" /\ IsTable(acked) /\ IsTable(schedules)
        /\ MemoryIsTold
    BY SurvivingParts DEF Completing, DeleteSchedule, TogglePause, MarkOneTimeCompleted,
                          Request, Tables
  <1>2. /\ schedules[k] \in Schedule /\ schedules[k].name = k /\ acked[k] = schedules[k]
    BY <1>1, Row DEF MemoryIsTold, Has
  <1>3. CASE UNCHANGED acked
    BY <1>3 DEF StaysCompleted
  <1>4. ASSUME NEW s \in Schedule, s.name = k, acked' = With(acked, s),
               schedules[k].completed => s.completed
        PROVE  StaysCompleted(n)
    <2>1. acked'[k] = s /\ \A j \in Names \ {k} : acked'[j] = acked[j]
      BY <1>1, <1>4, WithAt
    <2>2. CASE n = k
      BY <1>2, <1>4, <2>1, <2>2 DEF StaysCompleted
    <2>3. CASE n # k
      BY <2>1, <2>3 DEF StaysCompleted
    <2> QED
      BY <2>2, <2>3
  <1>5. CASE DeleteSchedule(k)
    <2>1. UNCHANGED acked \/ acked' = Less(acked, {k})
      BY <1>5 DEF DeleteSchedule
    <2>2. /\ \A j \in {k} \cap Names : Less(acked, {k})[j] = NoSchedule
          /\ \A j \in Names \ {k} : Less(acked, {k})[j] = acked[j]
      BY <1>1, LessAt
    <2>3. CASE acked' = Less(acked, {k})
      BY <2>2, <2>3 DEF StaysCompleted, Has
    <2> QED
      BY <1>3, <2>1, <2>3
  <1>6. CASE TogglePause(k)
    <2> DEFINE s == [schedules[k] EXCEPT !.paused = ~@]
    <2>1. s \in Schedule /\ s.name = k /\ s.completed = schedules[k].completed
      BY <1>2, Toggled DEF Schedule
    <2>2. UNCHANGED acked \/ acked' = With(acked, s)
      BY <1>6 DEF TogglePause, told
    <2> HIDE DEF s
    <2> QED
      BY <1>3, <1>4, <2>1, <2>2
  <1>7. CASE MarkOneTimeCompleted(k)
    <2> DEFINE s == [schedules[k] EXCEPT !.completed = TRUE]
    <2>1. s \in Schedule /\ s.name = k /\ s.completed
      BY <1>2, FlagsKept
    <2>2. UNCHANGED acked \/ acked' = With(acked, s)
      BY <1>7 DEF MarkOneTimeCompleted, told
    <2> HIDE DEF s
    <2> QED
      BY <1>3, <1>4, <2>1, <2>2
  <1> QED
    BY <1>5, <1>6, <1>7

\* Only an operation under way renames.
LEMMA NothingRenamed ==
    ASSUME UNCHANGED acked \/ op = NoOp, NEW n \in Names
    PROVE  RenameKeepsCompleted(n)
  <1>1. CASE UNCHANGED acked
    BY <1>1 DEF RenameKeepsCompleted, IsRenamed, Has
  <1>2. CASE op = NoOp
    <2>1. op.original \notin Names
      BY <1>2, CatalogAssumption DEF NoOp
    <2> QED
      BY <2>1 DEF RenameKeepsCompleted, IsRenamed
  <1> QED
    BY <1>1, <1>2

LEMMA StepKeepsCompleted ==
    ASSUME Completing, [Next]_vars, NEW n \in Names \ doubt
    PROVE  StaysCompleted(n) /\ RenameKeepsCompleted(n)
  <1>1. CASE UNCHANGED acked
    BY <1>1, NothingRenamed DEF StaysCompleted
  <1>2. CASE acked' # acked /\ \E k \in Names : Seed(k)
    <2>1. PICK k \in Names :
            /\ phase = "starting" /\ k \in toSeed
            /\ acked' = With(acked, loaded[k])
      BY <1>2 DEF Seed, Exit
    <2>2. /\ loaded[k] \in Schedule /\ loaded[k].name = k /\ IsTable(acked)
      BY <2>1, SurvivingParts, Row DEF Completing, Rest, Tables, Has
    <2>3. acked'[k] = loaded[k] /\ \A j \in Names \ {k} : acked'[j] = acked[j]
      BY <2>1, <2>2, WithAt
    <2>4. ASSUME n = k PROVE StaysCompleted(n)
      <3>1. stored[k] = NoSchedule /\ stored[k] = acked[k]
        BY <2>1, <2>4, SurvivingParts DEF Completing, UnseededIsEmpty
      <3> QED
        BY <2>4, <3>1 DEF StaysCompleted, Has
    <2>5. ASSUME n # k PROVE StaysCompleted(n)
      BY <2>3, <2>5 DEF StaysCompleted
    <2>6. RenameKeepsCompleted(n)
      BY <2>1, SurvivingParts, NothingRenamed DEF Completing
    <2> QED
      BY <2>4, <2>5, <2>6
  <1>3. CASE acked' # acked /\ Register
    <2>1. phase = "starting" /\ toSeed = {} /\ acked' = loaded
      BY <1>3 DEF Register, Exit
    <2>2. stored[n] = loaded[n] /\ stored[n] = acked[n]
      BY <2>1, SurvivingParts DEF Completing, SeededIsLoaded
    <2> QED
      BY <2>1, <2>2, SurvivingParts, NothingRenamed DEF StaysCompleted, Completing
  <1>4. CASE acked' # acked /\ Continue
    <2>1. Install /\ op.pc \in {"saving", "dropping"}
      BY <1>4 DEF Continue, SaveNew, DropOriginal, UndropNew, ResaveOriginal, UndoNew,
                  RestoreOld, Repause, told
    <2> QED
      BY <2>1, InstallKeepsCompleted
  <1>5. ASSUME NEW k \in Names,
               DeleteSchedule(k) \/ TogglePause(k) \/ MarkOneTimeCompleted(k)
        PROVE  StaysCompleted(n) /\ RenameKeepsCompleted(n)
    <2>1. op = NoOp
      BY <1>5 DEF DeleteSchedule, TogglePause, MarkOneTimeCompleted, Request
    <2> QED
      BY <1>5, <2>1, FlagStepsKeepCompleted, NothingRenamed
  <1>6. CASE \/ Start \/ Crash \/ EditFile
             \/ \E original \in Names \cup {""}, input \in Inputs :
                  SaveSchedule(original, input)
    BY <1>1, <1>6 DEF Start, Crash, Exit, EditFile, SaveSchedule, told
  <1> QED
    BY <1>1, <1>2, <1>3, <1>4, <1>5, <1>6 DEF Next, vars

\* Under the same condition no step, of a restart or a rename neither, makes a
\* completed one-time schedule due again while its time stays as it is.
THEOREM CompletedIsKept == NoEmptyBodies /\ Spec => CompletedStaysCompleted
  <1>1. NoEmptyBodies /\ Init => Completing
    <2>1. Init => op = NoOp /\ phase = "down"
      BY DEF Init
    <2> QED
      BY <2>1, InitSurviving DEF Completing, Carried, UnseededIsEmpty
  <1>2. Completing /\ [Next]_vars => Completing'
    BY SurvivingStep, CarriedStep, UnseededStep DEF Completing
  <1>3. ASSUME Completing, [Next]_vars
        PROVE  [\A n \in Names \ doubt, m \in Names :
                 /\ m = n \/ IsRenamed(n, m)
                 /\ Has(acked, n) /\ acked[n].type = "once" /\ acked[n].completed
                 /\ Has(acked', m) /\ acked'[m].type = "once"
                 /\ acked'[m].runAt = acked[n].runAt /\ acked'[m].zone = acked[n].zone
                 => acked'[m].completed]_vars
    <2> SUFFICES ASSUME NEW n \in Names \ doubt, NEW m \in Names,
                        m = n \/ IsRenamed(n, m),
                        Has(acked, n), acked[n].completed, Has(acked', m),
                        SameTime(acked[n], acked'[m])
                 PROVE  acked'[m].completed
      BY DEF SameTime
    <2>1. StaysCompleted(n) /\ RenameKeepsCompleted(n)
      BY <1>3, StepKeepsCompleted
    <2> QED
      BY <2>1 DEF StaysCompleted, RenameKeepsCompleted
  <1> QED
    BY <1>1, <1>2, <1>3, PTL DEF Spec, CompletedStaysCompleted
=============================================================================
