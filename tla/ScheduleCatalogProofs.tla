----------------------- MODULE ScheduleCatalogProofs -----------------------
(***************************************************************************)
(* Proofs about ScheduleCatalog: types (Typed), cron entries (Followed),   *)
(* and that what is stored can be started from (Startable).                *)
(***************************************************************************)
EXTENDS ScheduleCatalog, TLAPS

----------------------------------------------------------------------------
\* Schedules and tables of schedules.

LEMMA Defaults ==
    ASSUME NEW t \in Target
    PROVE  /\ WithDefaults(t) \in Target
           /\ WithDefaults(t).type = t.type
           /\ WithDefaults(t).body = t.body
           /\ WithDefaults(WithDefaults(t)) = WithDefaults(t)
  BY CatalogAssumption DEF Target, WithDefaults, OrElse, Faktory

\* Filling in defaults keeps a schedule a schedule and does nothing the second
\* time.
LEMMA Normalised ==
    ASSUME NEW s \in Schedule
    PROVE  /\ NormalizeSchedule(s) \in Schedule
           /\ NormalizeSchedule(s).name = s.name
           /\ NormalizeSchedule(s).target.body = s.target.body
           /\ NormalizeSchedule(NormalizeSchedule(s)) = NormalizeSchedule(s)
  <1>1. s.target \in Target
    BY DEF Schedule
  <1>2. PICK t \in Target : /\ t = WithDefaults(s.target)
                            /\ t.body = s.target.body /\ WithDefaults(t) = t
    BY <1>1, Defaults
  <1>3. PICK k \in Texts : k = OrElse(s.type, "cron") /\ OrElse(k, "cron") = k
    BY CatalogAssumption DEF Schedule, OrElse
  <1>4. PICK z \in Texts : z = OrElse(s.zone, "UTC") /\ OrElse(z, "UTC") = z
    BY CatalogAssumption DEF Schedule, OrElse
  <1>5. PICK d \in Int : /\ d = IF s.timeout = 0 THEN 30 ELSE s.timeout
                         /\ d # 0
    BY DEF Schedule
  <1> DEFINE n == [s EXCEPT !.type = k, !.zone = z, !.timeout = d, !.target = t]
  <1>6. NormalizeSchedule(s) = n
    BY <1>2, <1>3, <1>4, <1>5 DEF NormalizeSchedule, Schedule
  <1>7. /\ n \in Schedule /\ n.name = s.name /\ n.target = t
        /\ n.type = k /\ n.zone = z /\ n.timeout = d
    BY DEF Schedule
  <1>8. NormalizeSchedule(n) = [n EXCEPT !.type = k, !.zone = z, !.timeout = d,
                                         !.target = t]
    BY <1>2, <1>3, <1>4, <1>5, <1>7 DEF NormalizeSchedule
  <1>9. NormalizeSchedule(n) = n
    BY <1>7, <1>8 DEF Schedule
  <1> QED
    BY <1>2, <1>6, <1>7, <1>9

LEMMA ReloadedIsSchedule ==
    ASSUME NEW s \in Schedule
    PROVE  Reloaded(s) \in Schedule /\ Reloaded(s).name = s.name
  <1>1. PICK n \in Schedule : n = NormalizeSchedule(s) /\ n.name = s.name
    BY Normalised
  <1>2. n.target \in Target
    BY DEF Schedule
  <1>3. WithoutEmpty(n.target) \in Target
    BY <1>2, CatalogAssumption DEF Target, WithoutEmpty
  <1> QED
    BY <1>1, <1>3 DEF Reloaded, Schedule

LEMMA WithEntry ==
    ASSUME NEW t, IsTable(t), NEW s \in Schedule
    PROVE  /\ IsTable(With(t, s))
           /\ \A n \in Names : With(t, s)[n] = IF n = s.name THEN s ELSE t[n]
  BY DEF IsTable, With, Schedule

LEMMA LessEntries ==
    ASSUME NEW t, IsTable(t), NEW gone
    PROVE  /\ IsTable(Less(t, gone))
           /\ \A n \in Names : Less(t, gone)[n] = IF n \in gone THEN NoSchedule ELSE t[n]
  BY DEF IsTable, Less

LEMMA RegisteredEntry ==
    ASSUME NEW t, IsTable(t), NEW s \in Schedule
    PROVE  /\ IsTable(Registered(t, s))
           /\ \A n \in Names : Registered(t, s)[n] =
                IF n # s.name THEN t[n]
                ELSE IF Active(s) THEN s ELSE NoSchedule
  <1>1. CASE Active(s)
    BY <1>1, WithEntry DEF Registered
  <1>2. CASE ~Active(s)
    BY <1>2, LessEntries DEF Registered
  <1> QED
    BY <1>1, <1>2

LEMMA NothingIsTable == IsTable(Nothing) /\ \A n \in Names : Nothing[n] = NoSchedule
  BY DEF IsTable, Nothing

LEMMA Row ==
    ASSUME NEW t, IsTable(t), NEW n \in Names, t[n] # NoSchedule
    PROVE  t[n] \in Schedule /\ t[n].name = n /\ NoSchedule \notin Schedule
  BY CatalogAssumption DEF IsTable

LEMMA FileTableIsTable ==
    ASSUME NEW f \in Files
    PROVE  /\ IsTable(FileTable(f))
           /\ \A n \in Names : Has(FileTable(f), n) <=> \E s \in f.schedules : s.name = n
  <1> SUFFICES ASSUME NEW n \in Names
               PROVE  LET r == FileTable(f)[n]
                      IN  /\ r \in Schedule \cup {NoSchedule}
                          /\ r # NoSchedule => r.name = n
                          /\ r # NoSchedule <=> \E s \in f.schedules : s.name = n
    BY DEF IsTable, FileTable, Has
  <1>1. CASE \E s \in f.schedules : s.name = n
    <2>1. PICK s \in f.schedules : s.name = n /\ FileTable(f)[n] = NormalizeSchedule(s)
      BY <1>1 DEF FileTable
    <2>2. s \in Schedule
      BY <2>1, CatalogAssumption
    <2> QED
      BY <1>1, <2>1, <2>2, Normalised, CatalogAssumption
  <1>2. CASE ~\E s \in f.schedules : s.name = n
    BY <1>2 DEF FileTable
  <1> QED
    BY <1>1, <1>2

----------------------------------------------------------------------------
\* Type correctness, and what the phase of the process says of the memory.

Phases ==
    /\ phase # "up" => schedules = Nothing /\ entries = Nothing /\ op = NoOp
    /\ phase = "up" => loaded = Nothing /\ toSeed = {}
    /\ op.pc \in {"dropping", "undropping", "resaving"} => IsRename
    /\ op.pc = "restoring" => op.original # ""
    /\ op.pc = "repausing" => op.original = op.new.name

Typed == TypeOK /\ Phases

Tables == /\ IsTable(loaded) /\ IsTable(stored) /\ IsTable(schedules)
          /\ IsTable(entries) /\ IsTable(acked)

OpOK == op # NoOp =>
         /\ phase = "up"
         /\ op \in [pc : {"saving", "dropping", "undropping", "resaving",
                          "undoing", "restoring", "repausing"},
                    original : Names \cup {""}, new : Schedule,
                    old : Schedule \cup {NoSchedule}]
         /\ IF op.original = "" THEN op.old = NoSchedule
            ELSE op.old \in Schedule /\ op.old.name = op.original

Rest == /\ phase \in {"down", "starting", "up"}
        /\ file \in Files /\ cfg \in Files
        /\ toSeed \subseteq {n \in Names : Has(loaded, n)} /\ doubt \subseteq Names
        /\ everUp \in BOOLEAN

Counted == /\ ops \in 0..MaxOps /\ edits \in 0..MaxEdits
           /\ crashes \in 0..MaxCrashes /\ faults \in 0..MaxFaults

LEMMA TypeParts ==
    /\ TypeOK <=> Tables /\ OpOK /\ Rest /\ Counted
    /\ TypeOK' <=> Tables' /\ OpOK' /\ Rest' /\ Counted'
  BY DEF TypeOK, Tables, OpOK, Rest, Counted

LEMMA Bounds ==
    MaxOps \in Nat /\ MaxEdits \in Nat /\ MaxCrashes \in Nat /\ MaxFaults \in Nat
  BY CatalogAssumption, Zenon

LEMMA NoOpIsNone ==
    /\ NoOp.pc = "none" /\ NoOp.original = ""
    /\ NoOp.new = NoSchedule /\ NoOp.old = NoSchedule
  BY DEF NoOp

LEMMA InitTyped == Init => Typed
  <1> SUFFICES ASSUME Init PROVE Typed
    OBVIOUS
  <1>1. Tables
    BY NothingIsTable DEF Init, Tables
  <1>2. OpOK /\ Rest /\ Phases
    BY DEF Init, OpOK, Rest, Phases, NoOp
  <1>3. Counted
    BY Bounds DEF Init, Counted
  <1> QED
    BY <1>1, <1>2, <1>3, TypeParts DEF Typed

\* A fault is counted, or there is none.
LEMMA FaultCounted ==
    ASSUME Counted, Works \/ Fault, UNCHANGED <<ops, edits, crashes>>
    PROVE  Counted'
  BY Bounds DEF Counted, Works, Fault

LEMMA ExitTyped ==
    ASSUME Typed, Exit
    PROVE  Tables' /\ OpOK' /\ Rest' /\ Phases'
  <1>1. Tables'
    BY NothingIsTable, TypeParts DEF Exit, Typed, Tables
  <1>2. OpOK' /\ Rest' /\ Phases'
    BY TypeParts DEF Exit, Typed, OpOK, Rest, Phases, NoOp
  <1> QED
    BY <1>1, <1>2

LEMMA StartTyped == ASSUME Typed, Start PROVE Typed'
  <1>1. Tables /\ OpOK /\ Rest /\ Counted /\ Phases
    BY TypeParts DEF Typed
  <1>2. IsTable(loaded') /\ toSeed' \subseteq {n \in Names : Has(loaded', n)}
    <2>1. CASE stored = Nothing
      <3>1. loaded' = FileTable(file) /\ toSeed' = {s.name : s \in file.schedules}
        BY <2>1 DEF Start
      <3>2. file \in Files /\ \A s \in file.schedules : s.name \in Names
        BY <1>1, CatalogAssumption DEF Rest, Schedule
      <3> QED
        BY <3>1, <3>2, FileTableIsTable
    <2>2. CASE stored # Nothing
      <3>1. /\ loaded' = [n \in Names |-> IF Has(stored, n) THEN Reloaded(stored[n])
                                                           ELSE NoSchedule]
            /\ toSeed' = {}
        BY <2>2 DEF Start
      <3>2. \A n \in Names : Has(stored, n) => /\ Reloaded(stored[n]) \in Schedule
                                               /\ Reloaded(stored[n]).name = n
        BY <1>1, Row, ReloadedIsSchedule DEF Tables, Has
      <3> QED
        BY <3>1, <3>2, CatalogAssumption DEF IsTable
    <2> QED
      BY <2>1, <2>2
  <1>3. Tables'
    BY <1>1, <1>2 DEF Start, Tables, told
  <1>4. OpOK' /\ Rest' /\ Counted' /\ Phases'
    BY <1>1, <1>2 DEF Start, OpOK, Rest, Counted, Phases, told, counts, Has, IsRename
  <1> QED
    BY <1>3, <1>4, TypeParts DEF Typed

LEMMA SeedTyped == ASSUME Typed, NEW n \in Names, Seed(n) PROVE Typed'
  <1>1. Tables /\ OpOK /\ Rest /\ Counted /\ Phases
    BY TypeParts DEF Typed
  <1>2. Counted'
    BY <1>1, FaultCounted DEF Seed, Exit
  <1>3. CASE Exit
    BY <1>2, <1>3, ExitTyped, TypeParts DEF Typed
  <1>4. CASE ~Exit
    <2>1. /\ phase = "starting" /\ n \in toSeed
          /\ toSeed' = toSeed \ {n}
          /\ stored' = With(stored, loaded[n]) /\ acked' = With(acked, loaded[n])
          /\ UNCHANGED <<phase, file, cfg, loaded, schedules, entries, op, doubt, everUp>>
      BY <1>4 DEF Seed
    <2>2. loaded[n] \in Schedule
      BY <1>1, <2>1, Row DEF Tables, Rest, Has
    <2>3. Tables'
      BY <1>1, <2>1, <2>2, WithEntry DEF Tables
    <2>4. OpOK' /\ Rest' /\ Phases'
      BY <1>1, <2>1 DEF OpOK, Rest, Phases, Has, IsRename
    <2> QED
      BY <1>2, <2>3, <2>4, TypeParts DEF Typed
  <1> QED
    BY <1>3, <1>4

LEMMA RegisterTyped == ASSUME Typed, Register PROVE Typed'
  <1>1. Tables /\ OpOK /\ Rest /\ Counted /\ Phases
    BY TypeParts DEF Typed
  <1>2. Counted'
    BY <1>1, FaultCounted DEF Register, Exit
  <1>3. CASE Exit
    BY <1>2, <1>3, ExitTyped, TypeParts DEF Typed
  <1>4. CASE ~Exit
    <2>1. /\ toSeed = {} /\ phase = "starting"
          /\ phase' = "up" /\ everUp' = TRUE
          /\ schedules' = loaded
          /\ entries' = [n \in Names |-> IF Has(loaded, n) /\ Active(loaded[n])
                                         THEN loaded[n] ELSE NoSchedule]
          /\ acked' = loaded /\ doubt' = {} /\ loaded' = Nothing
          /\ UNCHANGED <<file, cfg, toSeed, stored, op>>
      BY <1>4 DEF Register
    <2>2. IsTable(entries')
      BY <1>1, <2>1 DEF Tables, IsTable
    <2>3. Tables'
      BY <1>1, <2>1, <2>2, NothingIsTable DEF Tables
    <2>4. OpOK' /\ Rest' /\ Phases'
      BY <1>1, <2>1 DEF OpOK, Rest, Phases, IsRename
    <2> QED
      BY <1>2, <2>3, <2>4, TypeParts DEF Typed
  <1> QED
    BY <1>3, <1>4

LEMMA CrashTyped == ASSUME Typed, Crash PROVE Typed'
  <1>1. Tables /\ OpOK /\ Rest /\ Counted /\ Phases
    BY TypeParts DEF Typed
  <1>2. Counted'
    BY <1>1, Bounds DEF Crash, Exit, Counted
  <1> QED
    BY <1>2, ExitTyped, TypeParts DEF Typed, Crash

LEMMA EditFileTyped == ASSUME Typed, EditFile PROVE Typed'
  <1>1. Tables /\ OpOK /\ Rest /\ Counted /\ Phases
    BY TypeParts DEF Typed
  <1>2. Counted'
    BY <1>1, Bounds DEF EditFile, Counted
  <1>3. Tables'
    BY <1>1 DEF EditFile, Tables, told
  <1>4. OpOK' /\ Rest' /\ Phases'
    BY <1>1 DEF EditFile, OpOK, Rest, Phases, told, Has, IsRename
  <1> QED
    BY <1>2, <1>3, <1>4, TypeParts DEF Typed

LEMMA RequestCounted ==
    ASSUME Counted, Request, Works \/ Fault
    PROVE  Counted'
  BY Bounds DEF Counted, Request, Works, Fault

\* What a request and the steps of an operation leave alone.
LEMMA RestKept ==
    ASSUME Rest, UNCHANGED startup, doubt' \subseteq Names
    PROVE  Rest'
  BY DEF Rest, startup, Has

LEMMA CompletionKept ==
    ASSUME NEW s \in Schedule, NEW old \in Schedule \cup {NoSchedule}
    PROVE  /\ WithCompletion(s, old) \in Schedule
           /\ WithCompletion(s, old).name = s.name
  BY DEF WithCompletion, Schedule

LEMMA SaveScheduleTyped ==
    ASSUME Typed, NEW original \in Names \cup {""}, NEW input \in Inputs,
           SaveSchedule(original, input)
    PROVE  Typed'
  <1>1. Tables /\ OpOK /\ Rest /\ Counted /\ Phases
    BY TypeParts DEF Typed
  <1> DEFINE s == NormalizeSchedule(input)
             old == IF original = "" THEN NoSchedule ELSE schedules[original]
  <1>2. /\ Request /\ Accepts(original, s)
        /\ op' = [pc |-> "saving", original |-> original,
                  new |-> WithCompletion(s, old), old |-> old]
        /\ UNCHANGED <<stored, schedules, entries, told, faults>>
    BY DEF SaveSchedule
  <1>3. s \in Schedule
    BY CatalogAssumption, Normalised
  <1>4. /\ old \in Schedule \cup {NoSchedule}
        /\ IF original = "" THEN old = NoSchedule
           ELSE old \in Schedule /\ old.name = original
    BY <1>1, <1>2, Row DEF Tables, Accepts, Has
  <1> HIDE DEF s, old
  <1>5. WithCompletion(s, old) \in Schedule
    BY <1>3, <1>4, CompletionKept
  <1>6. Counted'
    BY <1>1, <1>2, RequestCounted DEF Works
  <1>7. Tables' /\ Rest'
    BY <1>1, <1>2, RestKept DEF Tables, Request, startup, told, Rest
  <1>8. OpOK' /\ Phases'
    BY <1>1, <1>2, <1>4, <1>5 DEF OpOK, Phases, Request, startup, NoOp
  <1> QED
    BY <1>6, <1>7, <1>8, TypeParts DEF Typed

\* An operation goes on to another step, or ends.
LEMMA GotoKeeps ==
    ASSUME OpOK, op # NoOp, phase = "up", UNCHANGED phase,
           NEW pc \in {"dropping", "undropping", "resaving", "undoing", "restoring"},
           Goto(pc)
    PROVE  /\ OpOK' /\ op'.pc = pc /\ op' # NoOp
           /\ op'.original = op.original /\ op'.new = op.new /\ op'.old = op.old
  <1>1. /\ op \in [pc : {"saving", "dropping", "undropping", "resaving",
                          "undoing", "restoring", "repausing"},
                    original : Names \cup {""}, new : Schedule,
                    old : Schedule \cup {NoSchedule}]
        /\ IF op.original = "" THEN op.old = NoSchedule
           ELSE op.old \in Schedule /\ op.old.name = op.original
    BY DEF OpOK
  <1>2. op' = [op EXCEPT !.pc = pc]
    BY DEF Goto
  <1>3. /\ op'.pc = pc
        /\ op'.original = op.original /\ op'.new = op.new /\ op'.old = op.old
        /\ op' \in [pc : {"saving", "dropping", "undropping", "resaving",
                          "undoing", "restoring", "repausing"},
                    original : Names \cup {""}, new : Schedule,
                    old : Schedule \cup {NoSchedule}]
    BY <1>1, <1>2
  <1>4. op' # NoOp
    BY <1>3, NoOpIsNone
  <1> QED
    BY <1>1, <1>3, <1>4 DEF OpOK

LEMMA DoneKeeps ==
    ASSUME phase = "up", UNCHANGED <<phase, loaded, toSeed>>, op' = NoOp, Phases
    PROVE  OpOK' /\ Phases'
  BY NoOpIsNone DEF OpOK, Phases

LEMMA InstallTyped ==
    ASSUME Typed, op # NoOp, Install, IsTable(stored'),
           UNCHANGED <<startup, ops, edits, crashes>>
    PROVE  Typed'
  <1>1. Tables /\ OpOK /\ Rest /\ Counted /\ Phases
    BY TypeParts DEF Typed
  <1>2. Counted'
    BY <1>1, FaultCounted DEF Install
  <1> DEFINE gone == {op.original, op.new.name}
  <1>3. \/ /\ schedules' = With(Less(schedules, gone), op.new)
           /\ entries' = Registered(Less(entries, gone), op.new)
           /\ acked' = With(Less(acked, gone), op.new)
           /\ doubt' = doubt \ gone /\ op' = NoOp
        \/ /\ schedules' = Less(schedules, gone)
           /\ entries' = Less(entries, gone)
           /\ UNCHANGED <<acked, doubt>>
           /\ op' = [op EXCEPT !.pc = "undoing"]
    BY DEF Install, Done, Goto, told
  <1> HIDE DEF gone
  <1>4. op.new \in Schedule
    BY <1>1 DEF OpOK
  <1>5. IsTable(Less(schedules, gone)) /\ IsTable(Less(entries, gone))
        /\ IsTable(Less(acked, gone))
    BY <1>1, LessEntries DEF Tables
  <1>6. IsTable(schedules') /\ IsTable(entries') /\ IsTable(acked')
    BY <1>1, <1>3, <1>4, <1>5, WithEntry, RegisteredEntry DEF Tables
  <1>7. Tables'
    BY <1>1, <1>6 DEF Tables, startup
  <1>8. Rest'
    BY <1>1, <1>3, RestKept DEF Rest
  <1>9. OpOK' /\ Phases'
    <2>1. phase = "up" /\ UNCHANGED <<phase, loaded, toSeed>>
      BY <1>1 DEF OpOK, startup
    <2>2. CASE op' = NoOp
      BY <1>1, <2>1, <2>2, DoneKeeps
    <2>3. CASE Goto("undoing")
      BY <1>1, <2>1, <2>3, GotoKeeps DEF Phases
    <2> QED
      BY <1>3, <2>2, <2>3 DEF Goto
  <1> QED
    BY <1>2, <1>7, <1>8, <1>9, TypeParts DEF Typed

\* The steps of an operation that leave the memory alone.
LEMMA StoreStepTyped ==
    ASSUME Typed, op # NoOp, Works \/ Fault, IsTable(stored'), doubt' \subseteq Names,
           UNCHANGED <<startup, schedules, entries, acked, ops, edits, crashes>>,
           \/ op' = NoOp
           \/ \E pc \in {"dropping", "undropping", "resaving"} : IsRename /\ Goto(pc)
           \/ op.original # "" /\ Goto("restoring")
    PROVE  Typed'
  <1>1. Tables /\ OpOK /\ Rest /\ Counted /\ Phases
    BY TypeParts DEF Typed
  <1>2. Counted' /\ Rest'
    BY <1>1, FaultCounted, RestKept
  <1>3. Tables'
    BY <1>1 DEF Tables, startup
  <1>4. OpOK' /\ Phases'
    <2>1. phase = "up" /\ UNCHANGED <<phase, loaded, toSeed>>
      BY <1>1 DEF OpOK, startup
    <2>2. CASE op' = NoOp
      BY <1>1, <2>1, <2>2, DoneKeeps
    <2>3. ASSUME NEW pc \in {"dropping", "undropping", "resaving"}, IsRename, Goto(pc)
          PROVE  OpOK' /\ Phases'
      BY <1>1, <2>1, <2>3, GotoKeeps DEF Phases, IsRename
    <2>4. CASE op.original # "" /\ Goto("restoring")
      BY <1>1, <2>1, <2>4, GotoKeeps DEF Phases
    <2> QED
      BY <2>2, <2>3, <2>4
  <1> QED
    BY <1>2, <1>3, <1>4, TypeParts DEF Typed

LEMMA Operating ==
    ASSUME Typed, op.pc # "none"
    PROVE  /\ op # NoOp /\ phase = "up"
           /\ op.new \in Schedule /\ op.new.name \in Names
           /\ op.original \in Names \cup {""} /\ doubt \subseteq Names
           /\ op.original = "" => op.old = NoSchedule
           /\ op.original # "" => op.old \in Schedule /\ op.old.name = op.original
           /\ op.old = NoSchedule <=> op.original = ""
           /\ Tables
           /\ IsTable(With(stored, op.new))
           /\ IsTable(Less(stored, {op.original}))
           /\ IsTable(Less(stored, {op.new.name}))
           /\ op.original # "" => IsTable(With(stored, op.old))
           /\ op.pc \in {"dropping", "undropping", "resaving"} =>
                IsRename /\ op.original # ""
           /\ op.pc \in {"restoring", "repausing"} => op.original # ""
  <1>1. Tables /\ OpOK /\ Rest /\ Phases
    BY TypeParts DEF Typed
  <1>2. op # NoOp
    BY NoOpIsNone
  <1>3. /\ phase = "up" /\ op.new \in Schedule
        /\ op.original \in Names \cup {""} /\ doubt \subseteq Names
        /\ op.original = "" => op.old = NoSchedule
        /\ op.original # "" => op.old \in Schedule /\ op.old.name = op.original
    BY <1>1, <1>2 DEF OpOK, Rest
  <1>4. op.new.name \in Names
    BY <1>3 DEF Schedule
  <1>5. op.old = NoSchedule <=> op.original = ""
    BY <1>3, CatalogAssumption
  <1>6. IsTable(stored)
    BY <1>1 DEF Tables
  <1>7. /\ IsTable(With(stored, op.new))
        /\ IsTable(Less(stored, {op.original}))
        /\ IsTable(Less(stored, {op.new.name}))
        /\ op.original # "" => IsTable(With(stored, op.old))
    BY <1>3, <1>6, WithEntry, LessEntries
  <1>8. /\ op.pc \in {"dropping", "undropping", "resaving"} =>
             IsRename /\ op.original # ""
        /\ op.pc \in {"restoring", "repausing"} => op.original # ""
    BY <1>1, <1>3, <1>4, CatalogAssumption DEF Phases, IsRename
  <1> QED
    BY <1>1, <1>2, <1>3, <1>4, <1>5, <1>7, <1>8

LEMMA ContinueTyped == ASSUME Typed, Continue PROVE Typed'
  <1>1. CASE SaveNew
    <2>1. op.pc # "none" /\ UNCHANGED <<startup, ops, edits, crashes>>
      BY <1>1 DEF SaveNew
    <2>2. CASE Install /\ stored' = With(stored, op.new)
      BY <2>1, <2>2, Operating, InstallTyped
    <2>3. CASE ~(Install /\ stored' = With(stored, op.new))
      BY <1>1, <2>1, <2>3, Operating, StoreStepTyped
         DEF SaveNew, Done, told, Tables
    <2> QED
      BY <2>2, <2>3
  <1>2. CASE DropOriginal
    <2>1. op.pc # "none" /\ UNCHANGED <<startup, ops, edits, crashes>>
      BY <1>2 DEF DropOriginal
    <2>2. CASE Install /\ stored' = Less(stored, {op.original})
      BY <2>1, <2>2, Operating, InstallTyped
    <2>3. CASE ~(Install /\ stored' = Less(stored, {op.original}))
      BY <1>2, <2>1, <2>3, Operating, StoreStepTyped
         DEF DropOriginal, told, Tables
    <2> QED
      BY <2>2, <2>3
  <1>3. CASE UndropNew
    BY <1>3, Operating, StoreStepTyped DEF UndropNew, Tables
  <1>4. CASE ResaveOriginal
    <2>1. op.pc = "resaving" /\ op' = NoOp /\ (Works \/ Fault)
          /\ UNCHANGED <<startup, schedules, entries, told, ops, edits, crashes>>
      BY <1>4 DEF ResaveOriginal, Done
    <2>2. op # NoOp /\ IsTable(stored) /\ IsTable(With(stored, op.old))
          /\ doubt \subseteq Names
      BY <2>1, Operating DEF Tables
    <2> QED
      BY <1>4, <2>1, <2>2, StoreStepTyped DEF ResaveOriginal, told
  <1>5. CASE UndoNew
    BY <1>5, Operating, StoreStepTyped DEF UndoNew, Done, Tables
  <1>6. CASE RestoreOld
    <2>1. /\ op.pc = "restoring" /\ op' = NoOp
          /\ UNCHANGED <<startup, acked, ops, edits, crashes>>
      BY <1>6 DEF RestoreOld, Done
    <2>2. PICK saved, registered \in BOOLEAN :
            /\ Works \/ Fault
            /\ stored' = IF saved THEN With(stored, op.old) ELSE stored
            /\ schedules' = IF registered THEN With(schedules, op.old) ELSE schedules
            /\ entries' = IF registered THEN Registered(entries, op.old) ELSE entries
            /\ doubt' = IF saved /\ registered THEN doubt \ {op.original}
                                               ELSE doubt \cup {op.original}
      BY <1>6 DEF RestoreOld
    <2>3. /\ op # NoOp /\ phase = "up" /\ Tables /\ doubt \subseteq Names
          /\ op.original \in Names /\ op.old \in Schedule
      BY <2>1, Operating
    <2>4. Tables'
      BY <2>1, <2>2, <2>3, WithEntry, RegisteredEntry DEF Tables, startup
    <2>5. OpOK' /\ Phases'
      BY <2>1, <2>3, DoneKeeps DEF Typed, startup
    <2>6. Counted' /\ Rest'
      BY <2>1, <2>2, <2>3, FaultCounted, RestKept, TypeParts DEF Typed
    <2> QED
      BY <2>4, <2>5, <2>6, TypeParts DEF Typed
  <1>7. CASE Repause
    <2>1. op.pc = "repausing" /\ op' = NoOp /\ (Works \/ Fault)
          /\ UNCHANGED <<startup, schedules, entries, acked, ops, edits, crashes>>
      BY <1>7 DEF Repause, Done
    <2>2. op # NoOp /\ IsTable(stored) /\ IsTable(With(stored, op.old))
          /\ doubt \cup {op.original} \subseteq Names
      BY <2>1, Operating DEF Tables
    <2> QED
      BY <1>7, <2>1, <2>2, StoreStepTyped DEF Repause
  <1> QED
    BY <1>1, <1>2, <1>3, <1>4, <1>5, <1>6, <1>7 DEF Continue

\* One schedule of a running engine is replaced by another of the same name.
LEMMA ReplacedTyped ==
    ASSUME Typed, Request, Works \/ Fault, UNCHANGED op,
           IsTable(stored'), IsTable(schedules'), IsTable(entries'), IsTable(acked'),
           doubt' \subseteq Names
    PROVE  Typed'
  <1>1. Tables /\ OpOK /\ Rest /\ Counted /\ Phases
    BY TypeParts DEF Typed
  <1>2. Counted' /\ Rest'
    BY <1>1, RequestCounted, RestKept DEF Request
  <1>3. Tables'
    BY <1>1 DEF Tables, Request, startup
  <1>4. OpOK' /\ Phases'
    BY <1>1, DoneKeeps DEF Request, startup
  <1> QED
    BY <1>2, <1>3, <1>4, TypeParts DEF Typed

LEMMA DeleteScheduleTyped ==
    ASSUME Typed, NEW n \in Names, DeleteSchedule(n)
    PROVE  Typed'
  <1>1. Tables /\ doubt \subseteq Names
    BY TypeParts DEF Typed, Rest
  <1>2. \A t : IsTable(t) => IsTable(Less(t, {n}))
    BY LessEntries
  <1> QED
    BY <1>1, <1>2, ReplacedTyped DEF DeleteSchedule, Tables

\* Pausing, resuming and completing keep a schedule's name.
LEMMA FlagsKept ==
    ASSUME NEW s \in Schedule, NEW b \in BOOLEAN
    PROVE  /\ [s EXCEPT !.paused = b] \in Schedule
           /\ [s EXCEPT !.completed = b] \in Schedule
           /\ [s EXCEPT !.paused = b].name = s.name
           /\ [s EXCEPT !.completed = b].name = s.name
           /\ s.paused \in BOOLEAN /\ [s EXCEPT !.paused = b].paused = b
           /\ s.completed \in BOOLEAN
           /\ [s EXCEPT !.completed = b].completed = b
           /\ [s EXCEPT !.completed = b].type = s.type
           /\ [s EXCEPT !.completed = b].paused = s.paused
  BY DEF Schedule

LEMMA Toggled ==
    ASSUME NEW s \in Schedule
    PROVE  /\ [s EXCEPT !.paused = ~@] \in Schedule
           /\ [s EXCEPT !.paused = ~@].name = s.name
           /\ [s EXCEPT !.paused = ~@].paused = ~s.paused
  BY DEF Schedule

LEMMA TogglePauseTyped ==
    ASSUME Typed, NEW n \in Names, TogglePause(n)
    PROVE  Typed'
  <1>1. /\ Tables /\ OpOK /\ Rest /\ Counted /\ Phases /\ doubt \subseteq Names
        /\ Request /\ phase = "up" /\ Has(schedules, n)
    BY TypeParts DEF Typed, Rest, TogglePause, Request
  <1>2. schedules[n] \in Schedule /\ schedules[n].name = n
    BY <1>1, Row DEF Has, Tables
  <1>3. PICK s \in Schedule : s = [schedules[n] EXCEPT !.paused = ~@] /\ s.name = n
    <2> DEFINE s0 == [schedules[n] EXCEPT !.paused = ~@]
    <2>1. s0 \in Schedule /\ s0.name = n
      BY <1>2, Toggled
    <2> HIDE DEF s0
    <2>2. \E s \in Schedule : s = s0 /\ s.name = n
      BY <2>1
    <2> QED
      BY <2>2 DEF s0
  <1>4. /\ IsTable(With(stored, s)) /\ IsTable(With(schedules, s))
        /\ IsTable(With(acked, s)) /\ IsTable(Registered(entries, s))
        /\ IsTable(Less(entries, {n}))
    BY <1>1, <1>3, WithEntry, LessEntries, RegisteredEntry DEF Tables
  <1>5. CASE UNCHANGED op
    BY <1>1, <1>3, <1>4, <1>5, ReplacedTyped DEF TogglePause, told, Tables
  <1>6. CASE op' # op
    <2>1. /\ Fault /\ stored' = With(stored, s) /\ entries' = Less(entries, {n})
          /\ op' = [pc |-> "repausing", original |-> n, new |-> s, old |-> schedules[n]]
          /\ UNCHANGED <<schedules, acked, doubt>>
      BY <1>3, <1>6 DEF TogglePause, told
    <2>2. Tables'
      BY <1>1, <1>4, <2>1 DEF Tables, Request, startup
    <2>3. Counted' /\ Rest'
      BY <1>1, <2>1, RequestCounted, RestKept DEF Request
    <2>4. OpOK' /\ Phases'
      BY <1>1, <1>2, <1>3, <2>1, CatalogAssumption DEF OpOK, Phases, Request, startup
    <2> QED
      BY <2>2, <2>3, <2>4, TypeParts DEF Typed
  <1> QED
    BY <1>5, <1>6

LEMMA MarkOneTimeCompletedTyped ==
    ASSUME Typed, NEW n \in Names, MarkOneTimeCompleted(n)
    PROVE  Typed'
  <1>1. Tables /\ doubt \subseteq Names /\ Has(schedules, n)
    BY TypeParts DEF Typed, Rest, MarkOneTimeCompleted
  <1>2. schedules[n] \in Schedule /\ schedules[n].name = n
    BY <1>1, Row DEF Has, Tables
  <1>3. PICK s \in Schedule : s = [schedules[n] EXCEPT !.completed = TRUE] /\ s.name = n
    <2>1. /\ [schedules[n] EXCEPT !.completed = TRUE] \in Schedule
          /\ [schedules[n] EXCEPT !.completed = TRUE].name = n
      BY <1>2, FlagsKept
    <2> QED
      BY <2>1
  <1>4. /\ IsTable(With(stored, s)) /\ IsTable(With(schedules, s))
        /\ IsTable(With(acked, s)) /\ IsTable(Less(entries, {n}))
    BY <1>1, <1>3, WithEntry, LessEntries DEF Tables
  <1> QED
    BY <1>1, <1>3, <1>4, ReplacedTyped DEF MarkOneTimeCompleted, told, Tables

LEMMA TypeStep == Typed /\ [Next]_vars => Typed'
  <1> SUFFICES ASSUME Typed, [Next]_vars PROVE Typed'
    OBVIOUS
  <1>1. CASE Next
    BY <1>1, StartTyped, RegisterTyped, CrashTyped, EditFileTyped, ContinueTyped,
       SeedTyped, DeleteScheduleTyped, TogglePauseTyped, MarkOneTimeCompletedTyped,
       SaveScheduleTyped DEF Next
  <1>2. CASE UNCHANGED vars
    BY <1>2 DEF vars, Typed, TypeOK, Phases, Has, IsRename
  <1> QED
    BY <1>1, <1>2

\* The tables are tables of schedules, and the operation under way is one of a
\* running engine.
THEOREM CatalogTypes == Spec => []TypeOK
  <1>1. Typed => TypeOK
    BY DEF Typed
  <1> QED
    BY InitTyped, TypeStep, <1>1, PTL DEF Spec

----------------------------------------------------------------------------
\* The cron entries follow the schedules.

Entry(s) == IF s # NoSchedule /\ Active(s) THEN s ELSE NoSchedule

Matching == \A n \in Names : entries[n] = Entry(schedules[n])

Followed == Typed /\ (phase = "up" => Matching)

LEMMA FollowedIsEntriesFollow == Followed => EntriesFollow
  BY DEF Followed, Matching, EntriesFollow, Entry, Has

\* Registering and removing schedules in both tables keeps them in step.
LEMMA RegisterMatches ==
    ASSUME NEW ss, NEW es, IsTable(ss), IsTable(es), NEW s \in Schedule,
           \A n \in Names \ {s.name} : es[n] = Entry(ss[n])
    PROVE  \A n \in Names : Registered(es, s)[n] = Entry(With(ss, s)[n])
  <1>1. s # NoSchedule
    BY CatalogAssumption
  <1>2. Entry(s) = IF Active(s) THEN s ELSE NoSchedule
    BY <1>1 DEF Entry
  <1> SUFFICES ASSUME NEW n \in Names
               PROVE  Registered(es, s)[n] = Entry(With(ss, s)[n])
    OBVIOUS
  <1>3. CASE n = s.name
    BY <1>2, <1>3, WithEntry, RegisteredEntry
  <1>4. CASE n # s.name
    BY <1>4, WithEntry, RegisteredEntry
  <1> QED
    BY <1>3, <1>4

LEMMA LessMatches ==
    ASSUME Tables, Matching, NEW gone,
           schedules' = Less(schedules, gone), entries' = Less(entries, gone)
    PROVE  Matching'
  BY LessEntries DEF Tables, Matching, Entry

LEMMA InstallMatches ==
    ASSUME Tables, Matching, op.new \in Schedule, Install
    PROVE  Matching'
  <1> DEFINE gone == {op.original, op.new.name}
  <1>1. CASE /\ schedules' = With(Less(schedules, gone), op.new)
             /\ entries' = Registered(Less(entries, gone), op.new)
    <2> HIDE DEF gone
    <2>1. /\ IsTable(Less(schedules, gone)) /\ IsTable(Less(entries, gone))
          /\ \A n \in Names : Less(entries, gone)[n] = Entry(Less(schedules, gone)[n])
      BY LessEntries DEF Tables, Matching, Entry
    <2> QED
      BY <1>1, <2>1, RegisterMatches DEF Matching
  <1>2. CASE schedules' = Less(schedules, gone) /\ entries' = Less(entries, gone)
    BY <1>2, LessMatches
  <1> QED
    BY <1>1, <1>2 DEF Install

LEMMA ContinueMatches == ASSUME Typed, Matching, Continue PROVE Matching'
  <1>1. CASE UNCHANGED <<schedules, entries>>
    BY <1>1 DEF Matching
  <1>2. CASE Install /\ op.pc # "none"
    BY <1>2, Operating, InstallMatches
  <1>3. CASE RestoreOld
    <2>1. op.pc = "restoring"
      BY <1>3 DEF RestoreOld
    <2>2. Tables /\ op.old \in Schedule
      BY <2>1, Operating
    <2> QED
      BY <1>1, <1>3, <2>2, RegisterMatches DEF RestoreOld, Tables, Matching
  <1> QED
    BY <1>1, <1>2, <1>3 DEF Continue, SaveNew, DropOriginal, UndropNew, ResaveOriginal,
                            UndoNew, Repause

LEMMA FollowedStep == Followed /\ [Next]_vars => Followed'
  <1> SUFFICES ASSUME Followed, [Next]_vars, phase' = "up" PROVE Matching'
    BY TypeStep DEF Followed
  <1>1. Typed /\ Tables /\ (phase = "up" => Matching)
    BY TypeParts DEF Followed, Typed
  <1>2. CASE Register
    <2>1. /\ schedules' = loaded
          /\ entries' = [n \in Names |-> IF Has(loaded, n) /\ Active(loaded[n])
                                         THEN loaded[n] ELSE NoSchedule]
      BY <1>2 DEF Register, Exit
    <2> QED
      BY <2>1 DEF Matching, Entry, Has
  <1>3. CASE Continue
    <2>1. op.pc # "none"
      BY <1>3 DEF Continue, SaveNew, DropOriginal, UndropNew, ResaveOriginal, UndoNew,
                  RestoreOld, Repause
    <2> QED
      BY <1>1, <1>3, <2>1, Operating, ContinueMatches
  <1>4. ASSUME NEW n \in Names, DeleteSchedule(n)
        PROVE  Matching'
    BY <1>1, <1>4, LessMatches DEF DeleteSchedule, Request
  <1>5. ASSUME NEW n \in Names, TogglePause(n)
        PROVE  Matching'
    <2>1. schedules[n] \in Schedule /\ schedules[n].name = n /\ Matching
      BY <1>1, <1>5, Row DEF TogglePause, Request, Has, Tables
    <2>2. PICK s \in Schedule : /\ s = [schedules[n] EXCEPT !.paused = ~@]
                                /\ s.name = n /\ s.paused = ~schedules[n].paused
      <3> DEFINE s0 == [schedules[n] EXCEPT !.paused = ~@]
      <3>1. s0 \in Schedule /\ s0.name = n /\ s0.paused = ~schedules[n].paused
        BY <2>1, Toggled
      <3> HIDE DEF s0
      <3>2. \E s \in Schedule : s = s0 /\ s.name = n /\ s.paused = ~schedules[n].paused
        BY <3>1
      <3> QED
        BY <3>2 DEF s0
    <2>3. \/ schedules' = With(schedules, s) /\ entries' = Registered(entries, s)
          \/ UNCHANGED <<schedules, entries>>
          \/ ~s.paused /\ entries' = Less(entries, {n}) /\ UNCHANGED schedules
      BY <1>5, <2>2 DEF TogglePause, Active
    <2>4. CASE schedules' = With(schedules, s) /\ entries' = Registered(entries, s)
      BY <1>1, <2>1, <2>4, RegisterMatches DEF Tables, Matching
    <2>5. CASE UNCHANGED <<schedules, entries>>
      BY <2>1, <2>5 DEF Matching
    <2>6. CASE ~s.paused /\ entries' = Less(entries, {n}) /\ UNCHANGED schedules
      <3>1. schedules[n].paused /\ ~Active(schedules[n])
        BY <2>1, <2>2, <2>6, FlagsKept DEF Active
      <3> QED
        BY <1>1, <2>1, <2>6, <3>1, LessEntries DEF Matching, Entry, Tables
    <2> QED
      BY <2>3, <2>4, <2>5, <2>6
  <1>6. ASSUME NEW n \in Names, MarkOneTimeCompleted(n)
        PROVE  Matching'
    <2>1. /\ schedules[n] \in Schedule /\ schedules[n].name = n /\ Matching
          /\ schedules[n].type = "once"
      BY <1>1, <1>6, Row DEF MarkOneTimeCompleted, Request, Has, Tables
    <2>2. PICK s \in Schedule : /\ s = [schedules[n] EXCEPT !.completed = TRUE]
                                /\ s.name = n /\ ~Active(s)
      <3> DEFINE r == [schedules[n] EXCEPT !.completed = TRUE]
      <3>1. r \in Schedule /\ r.name = n /\ r.completed /\ r.type = "once"
        BY <2>1, FlagsKept
      <3> QED
        BY <3>1 DEF Active
    <2>3. \/ schedules' = With(schedules, s) /\ entries' = Less(entries, {n})
          \/ UNCHANGED <<schedules, entries>>
      BY <1>6, <2>2 DEF MarkOneTimeCompleted
    <2>4. CASE schedules' = With(schedules, s) /\ entries' = Less(entries, {n})
      <3>1. Registered(entries, s) = entries'
        BY <2>2, <2>4 DEF Registered
      <3> QED
        BY <1>1, <2>1, <2>4, <3>1, RegisterMatches DEF Tables, Matching
    <2>5. CASE UNCHANGED <<schedules, entries>>
      BY <2>1, <2>5 DEF Matching
    <2> QED
      BY <2>3, <2>4, <2>5
  <1>7. CASE UNCHANGED <<phase, schedules, entries>>
    BY <1>1, <1>7 DEF Matching
  <1>8. CASE Start \/ Crash \/ EditFile \/ \E n \in Names : Seed(n)
    BY <1>1, <1>7, <1>8 DEF Start, Crash, EditFile, Seed, Exit
  <1>9. CASE \E original \in Names \cup {""}, input \in Inputs :
                SaveSchedule(original, input)
    BY <1>7, <1>9 DEF SaveSchedule, Request, startup
  <1> QED
    BY <1>2, <1>3, <1>4, <1>5, <1>6, <1>7, <1>8, <1>9 DEF Next, vars

\* In every state of a running engine, within an operation and after a failed
\* one too, the cron entries are those of the schedules due to run.
THEOREM EntriesAlwaysFollow == Spec => []EntriesFollow
  <1>1. Init => Followed
    BY InitTyped DEF Init, Followed
  <1> QED
    BY <1>1, FollowedStep, FollowedIsEntriesFollow, PTL DEF Spec

----------------------------------------------------------------------------
\* What is stored can be started from.

\* An empty body does not come back from the store; what it leads to is left
\* out where this holds.
NoEmptyBodies ==
    /\ \A s \in Inputs : s.target.body # "{}"
    /\ \A f \in Files : \A s \in f.schedules : s.target.body # "{}"

Normal(s) == /\ s \in Schedule /\ NormalizeSchedule(s) = s
             /\ NoEmptyBodies => s.target.body # "{}"
Good(s, instances) == Normal(s) /\ ValidSchedule(s, instances)
AllGood(table, instances) ==
    \A n \in Names : Has(table, n) => Good(table[n], instances)

\* Schedules that differ in what the rules do not look at.
Alike(s, t) ==
    /\ t.name = s.name /\ t.type = s.type /\ t.cron = s.cron /\ t.zone = s.zone
    /\ t.runAt = s.runAt /\ t.startsAt = s.startsAt /\ t.timeout = s.timeout
    /\ t.rateInterval = s.rateInterval /\ t.rateUnit = s.rateUnit
    /\ t.target.type = s.target.type /\ t.target.url = s.target.url
    /\ t.target.method = s.target.method /\ t.target.queue = s.target.queue
    /\ t.target.jobType = s.target.jobType
    /\ t.target.instance = s.target.instance
    /\ t.target.body \in {s.target.body, "nil"}

LEMMA NormalFields ==
    ASSUME NEW s \in Schedule
    PROVE  Normal(s) <=> /\ s.type # "" /\ s.zone # "" /\ s.timeout # 0
                         /\ s.target.method # ""
                         /\ s.target.type = Faktory => s.target.queue # ""
                         /\ NoEmptyBodies => s.target.body # "{}"
  <1>1. s.target \in Target
    BY DEF Schedule
  <1>2. WithDefaults(s.target) = s.target <=>
          /\ s.target.method # ""
          /\ s.target.type = Faktory => s.target.queue # ""
    BY <1>1 DEF WithDefaults, OrElse, Target
  <1>3. NormalizeSchedule(s) = s <=>
          /\ s.type # "" /\ s.zone # "" /\ s.timeout # 0
          /\ WithDefaults(s.target) = s.target
    <2> DEFINE fields == /\ OrElse(s.type, "cron") = s.type
                         /\ OrElse(s.zone, "UTC") = s.zone
                         /\ (IF s.timeout = 0 THEN 30 ELSE s.timeout) = s.timeout
                         /\ WithDefaults(s.target) = s.target
    <2>1. ASSUME fields PROVE NormalizeSchedule(s) = s
      <3>1. NormalizeSchedule(s) = [s EXCEPT !.type = s.type, !.zone = s.zone,
                                             !.timeout = s.timeout, !.target = s.target]
        BY <2>1 DEF NormalizeSchedule
      <3> QED
        BY <3>1 DEF Schedule
    <2>2. ASSUME NormalizeSchedule(s) = s PROVE fields
      <3>1. /\ NormalizeSchedule(s).type = OrElse(s.type, "cron")
            /\ NormalizeSchedule(s).zone = OrElse(s.zone, "UTC")
            /\ NormalizeSchedule(s).timeout = IF s.timeout = 0 THEN 30 ELSE s.timeout
            /\ NormalizeSchedule(s).target = WithDefaults(s.target)
        BY DEF NormalizeSchedule, Schedule
      <3> QED
        BY <2>2, <3>1
    <2>3. fields <=> /\ s.type # "" /\ s.zone # "" /\ s.timeout # 0
                     /\ WithDefaults(s.target) = s.target
      <3>1. \A d \in Int : (IF d = 0 THEN 30 ELSE d) = d <=> d # 0
        OBVIOUS
      <3>2. s.timeout \in Int
        BY DEF Schedule
      <3>3. \A text : /\ OrElse(text, "cron") = text <=> text # ""
                      /\ OrElse(text, "UTC") = text <=> text # ""
        BY DEF OrElse
      <3> QED
        BY <3>1, <3>2, <3>3
    <2> QED
      BY <2>1, <2>2, <2>3
  <1> QED
    BY <1>2, <1>3 DEF Normal

LEMMA NormalisedIsNormal ==
    ASSUME NEW s \in Schedule, NoEmptyBodies => s.target.body # "{}"
    PROVE  Normal(NormalizeSchedule(s))
  BY Normalised DEF Normal

LEMMA AlikeGood ==
    ASSUME NEW s \in Schedule, NEW t \in Schedule, NEW i, Alike(s, t)
    PROVE  /\ Normal(s) => Normal(t)
           /\ Normal(s) => (Good(s, i) <=> Good(t, i))
           /\ Good(s, i) => Good(t, i)
  <1>1. Normal(s) => Normal(t)
    BY NormalFields DEF Alike
  <1>2. CASE Normal(s)
    <2>1. NormalizeSchedule(s) = s /\ NormalizeSchedule(t) = t
      BY <1>1, <1>2 DEF Normal
    <2>2. ValidSchedule(s, i) <=> ValidSchedule(t, i)
      BY <2>1 DEF ValidSchedule, ValidConfig, ValidTiming, ValidTarget, Alike
    <2> QED
      BY <1>1, <2>2 DEF Good
  <1> QED
    BY <1>1, <1>2 DEF Good

\* A good schedule can be given to the cron library.
LEMMA GoodIsSchedulable ==
    ASSUME NEW s, NEW i, Good(s, i)
    PROVE  ValidSchedule(s, i) /\ ~NotSchedulable(s)
  <1>1. NormalizeSchedule(s) = s /\ ValidSchedule(s, i)
    BY DEF Good, Normal
  <1>2. s.zone \in Zones /\ ValidTiming(s) /\ (s.type = "cron" => s.cron \in Crons)
    BY <1>1 DEF ValidSchedule, ValidConfig
  <1> QED
    BY <1>1, <1>2 DEF NotSchedulable, ValidTiming

LEMMA ReloadedAlike ==
    ASSUME NEW s \in Schedule, Normal(s)
    PROVE  Reloaded(s) \in Schedule /\ Alike(s, Reloaded(s))
  <1>1. NormalizeSchedule(s) = s /\ s.target \in Target
    BY DEF Normal, Schedule
  <1>2. PICK t \in Target :
          /\ t = WithoutEmpty(s.target)
          /\ t.type = s.target.type /\ t.url = s.target.url
          /\ t.method = s.target.method /\ t.queue = s.target.queue
          /\ t.jobType = s.target.jobType /\ t.instance = s.target.instance
          /\ t.body \in {s.target.body, "nil"}
    <2> DEFINE r == WithoutEmpty(s.target)
    <2>1. CASE s.target.body = "{}"
      <3>1. r = [s.target EXCEPT !.body = "nil"] /\ "nil" \in Texts
        BY <2>1, CatalogAssumption DEF WithoutEmpty
      <3> QED
        BY <1>1, <3>1 DEF Target
    <2>2. CASE s.target.body # "{}"
      <3>1. r = s.target
        BY <1>1, <2>2 DEF WithoutEmpty, Target
      <3> QED
        BY <1>1, <3>1
    <2> QED
      BY <2>1, <2>2
  <1>3. Reloaded(s) = [s EXCEPT !.target = t]
    BY <1>1, <1>2 DEF Reloaded
  <1> QED
    BY <1>2, <1>3 DEF Schedule, Alike

LEMMA FlagsAlike ==
    ASSUME NEW s \in Schedule, NEW b \in BOOLEAN
    PROVE  /\ Alike(s, [s EXCEPT !.completed = b])
           /\ Alike(s, [s EXCEPT !.paused = ~@])
  BY DEF Schedule, Alike

LEMMA CompletionAlike ==
    ASSUME NEW s \in Schedule, NEW old \in Schedule \cup {NoSchedule}
    PROVE  Alike(s, WithCompletion(s, old))
  <1>1. CASE WithCompletion(s, old) = s
    BY <1>1 DEF Alike
  <1>2. CASE old # NoSchedule /\ WithCompletion(s, old) = [s EXCEPT !.completed = old.completed]
    <2>1. old.completed \in BOOLEAN
      BY <1>2 DEF Schedule
    <2> QED
      BY <1>2, <2>1, FlagsAlike
  <1> QED
    BY <1>1, <1>2 DEF WithCompletion

LEMMA TablesStayGood ==
    ASSUME NEW t, IsTable(t), NEW i, AllGood(t, i)
    PROVE  /\ \A s \in Schedule : Good(s, i) => AllGood(With(t, s), i)
           /\ \A gone : AllGood(Less(t, gone), i)
  BY WithEntry, LessEntries DEF AllGood, Has

AllNormal(table) == \A n \in Names : Has(table, n) => Normal(table[n])

\* What a running engine holds and is about to store is good.
GoodUp == /\ AllGood(stored, cfg.instances) /\ AllGood(schedules, cfg.instances)
          /\ op # NoOp =>
               /\ Good(op.new, cfg.instances)
               /\ op.old # NoSchedule => Good(op.old, cfg.instances)

Startable ==
    /\ Typed
    /\ AllNormal(stored) /\ AllNormal(loaded)
    /\ phase = "starting" => \A n \in Names : Has(stored, n) =>
                                Has(loaded, n) /\ Alike(stored[n], loaded[n])
    /\ phase = "up" => GoodUp

LEMMA StartableIsStartsAgain == Startable => StartsAgain
  BY GoodIsSchedulable DEF Startable, GoodUp, AllGood, StartsAgain

\* Of a step to a running engine only GoodUp is to be shown.
LEMMA GoodUpSuffices ==
    ASSUME Typed', phase' = "up", GoodUp'
    PROVE  Startable'
  <1>1. AllNormal(stored')
    BY DEF GoodUp, AllGood, AllNormal, Good
  <1>2. AllNormal(loaded')
    BY NothingIsTable DEF Typed, Phases, AllNormal, Has
  <1> QED
    BY <1>1, <1>2 DEF Startable

LEMMA StartStartable == ASSUME Startable, Start PROVE Startable'
  <1>1. Typed /\ Tables /\ Rest /\ Typed' /\ AllNormal(stored)
    BY StartTyped, TypeParts DEF Startable, Typed
  <1>2. UNCHANGED stored /\ phase' = "starting"
    BY DEF Start
  <1>3. AllNormal(loaded') /\ \A n \in Names : Has(stored, n) =>
                                Has(loaded', n) /\ Alike(stored[n], loaded'[n])
    <2>1. CASE stored = Nothing
      <3>1. loaded' = FileTable(file) /\ file \in Files
        BY <1>1, <2>1 DEF Start, Rest
      <3>2. ASSUME NEW n \in Names, Has(FileTable(file), n)
            PROVE  Normal(FileTable(file)[n])
        <4>1. \E r \in file.schedules : r.name = n
          BY <3>1, <3>2, FileTableIsTable
        <4>2. PICK s \in file.schedules : FileTable(file)[n] = NormalizeSchedule(s)
          BY <4>1 DEF FileTable
        <4>3. s \in Schedule
          BY <3>1, CatalogAssumption
        <4>4. NoEmptyBodies => s.target.body # "{}"
          BY <3>1 DEF NoEmptyBodies
        <4> QED
          BY <4>2, <4>3, <4>4, NormalisedIsNormal
      <3> QED
        BY <2>1, <3>1, <3>2, NothingIsTable DEF AllNormal, Has
    <2>2. CASE stored # Nothing
      <3> SUFFICES ASSUME NEW n \in Names
                   PROVE  /\ Has(loaded', n) <=> Has(stored, n)
                          /\ Has(stored, n) => Normal(loaded'[n]) /\ Alike(stored[n], loaded'[n])
        BY DEF AllNormal
      <3>1. loaded'[n] = IF Has(stored, n) THEN Reloaded(stored[n]) ELSE NoSchedule
        BY <2>2 DEF Start
      <3>2. ASSUME Has(stored, n)
            PROVE  /\ Reloaded(stored[n]) \in Schedule /\ Alike(stored[n], Reloaded(stored[n]))
                   /\ Normal(Reloaded(stored[n]))
        <4>1. Normal(stored[n]) /\ stored[n] \in Schedule
          BY <1>1, <3>2 DEF AllNormal, Normal
        <4> QED
          BY <4>1, ReloadedAlike, AlikeGood
      <3> QED
        BY <3>1, <3>2, CatalogAssumption DEF Has
    <2> QED
      BY <2>1, <2>2
  <1> QED
    BY <1>1, <1>2, <1>3 DEF Startable

LEMMA ExitStartable == ASSUME Startable, Typed', Exit PROVE Startable'
  BY NothingIsTable DEF Startable, Exit, AllNormal, Has

LEMMA SeedStartable ==
    ASSUME Startable, Typed', NEW n \in Names, Seed(n), ~Exit
    PROVE  Startable'
  <1>1. /\ phase = "starting" /\ n \in toSeed
        /\ stored' = With(stored, loaded[n])
        /\ UNCHANGED <<phase, loaded>>
    BY DEF Seed
  <1>2. Typed /\ Tables /\ Rest
    BY TypeParts DEF Startable, Typed
  <1>3. Has(loaded, n) /\ loaded[n] \in Schedule /\ loaded[n].name = n
    BY <1>1, <1>2, Row DEF Rest, Tables, Has
  <1>4. \A m \in Names : stored'[m] = IF m = n THEN loaded[n] ELSE stored[m]
    BY <1>1, <1>2, <1>3, WithEntry DEF Tables
  <1>5. AllNormal(stored')
    BY <1>3, <1>4 DEF Startable, AllNormal, Has
  <1>6. \A m \in Names : Has(stored', m) => Has(loaded, m) /\ Alike(stored'[m], loaded[m])
    BY <1>1, <1>3, <1>4 DEF Startable, Has, Alike
  <1> QED
    BY <1>1, <1>5, <1>6 DEF Startable

LEMMA RegisterStartable == ASSUME Startable, Typed', Register, ~Exit PROVE Startable'
  <1>1. /\ phase = "starting" /\ phase' = "up"
        /\ \A n \in Names : Has(loaded, n) => ValidSchedule(loaded[n], cfg.instances)
        /\ schedules' = loaded
        /\ UNCHANGED <<cfg, stored, op>>
    BY DEF Register
  <1>2. Typed /\ Tables /\ op = NoOp
    BY <1>1, TypeParts DEF Startable, Typed, Phases
  <1>3. AllGood(loaded, cfg.instances)
    BY <1>1 DEF Startable, AllNormal, AllGood, Good
  <1>4. ASSUME NEW n \in Names, Has(stored, n)
        PROVE  Good(stored[n], cfg.instances)
    <2>1. /\ Has(loaded, n) /\ Alike(stored[n], loaded[n]) /\ Normal(stored[n])
          /\ stored[n] \in Schedule /\ loaded[n] \in Schedule
      BY <1>1, <1>2, <1>4, Row DEF Startable, Has, Tables, AllNormal
    <2> QED
      BY <1>3, <2>1, AlikeGood DEF AllGood
  <1>5. GoodUp'
    BY <1>1, <1>2, <1>3, <1>4 DEF GoodUp, AllGood
  <1> QED
    BY <1>1, <1>5, GoodUpSuffices

LEMMA SaveScheduleStartable ==
    ASSUME Startable, Typed', NEW original \in Names \cup {""}, NEW input \in Inputs,
           SaveSchedule(original, input)
    PROVE  Startable'
  <1> DEFINE s == NormalizeSchedule(input)
             old == IF original = "" THEN NoSchedule ELSE schedules[original]
  <1>1. /\ Request /\ Accepts(original, s)
        /\ op' = [pc |-> "saving", original |-> original,
                  new |-> WithCompletion(s, old), old |-> old]
        /\ UNCHANGED <<stored, schedules>>
    BY DEF SaveSchedule
  <1>2. Typed /\ Tables /\ GoodUp /\ phase = "up" /\ UNCHANGED <<phase, cfg>>
    BY <1>1, TypeParts DEF Startable, Typed, Request, startup
  <1>3. s \in Schedule /\ Normal(s)
    BY CatalogAssumption, Normalised DEF Normal, NoEmptyBodies
  <1>4. Good(s, cfg.instances)
    BY <1>1, <1>3 DEF Good, Accepts
  <1>5. old # NoSchedule => original \in Names /\ Has(schedules, original)
    BY <1>1 DEF Accepts, Has
  <1>6. old \in Schedule \cup {NoSchedule}
    BY <1>2, <1>5, Row DEF Tables, Has
  <1>7. old # NoSchedule => Good(old, cfg.instances)
    BY <1>2, <1>5 DEF GoodUp, AllGood
  <1> HIDE DEF s, old
  <1>8. WithCompletion(s, old) \in Schedule /\ Good(WithCompletion(s, old), cfg.instances)
    BY <1>3, <1>4, <1>6, CompletionKept, CompletionAlike, AlikeGood
  <1>9. GoodUp'
    BY <1>1, <1>2, <1>7, <1>8 DEF GoodUp
  <1> QED
    BY <1>2, <1>9, GoodUpSuffices

\* A step that stores, takes up and keeps at hand only what is good already.
LEMMA GoodStep ==
    ASSUME Startable, phase = "up", UNCHANGED <<phase, cfg>>, Typed',
           NEW s \in Schedule, Good(s, cfg.instances),
           NEW r \in Schedule, Good(r, cfg.instances),
           \/ UNCHANGED stored
           \/ stored' = With(stored, s)
           \/ \E gone : stored' = Less(stored, gone),
           \/ UNCHANGED schedules
           \/ schedules' = With(schedules, s)
           \/ \E gone : schedules' = Less(schedules, gone)
           \/ \E gone : schedules' = With(Less(schedules, gone), s),
           \/ op' = NoOp
           \/ op # NoOp /\ op'.new = op.new /\ op'.old = op.old
           \/ op'.new = s /\ op'.old = r
    PROVE  Startable'
  <1>1. GoodUp /\ Tables
    BY TypeParts DEF Startable, Typed
  <1>2. AllGood(stored', cfg.instances)
    BY <1>1, TablesStayGood DEF GoodUp, Tables
  <1>3. AllGood(schedules', cfg.instances)
    <2>1. \A gone : IsTable(Less(schedules, gone)) /\ AllGood(Less(schedules, gone), cfg.instances)
      BY <1>1, LessEntries, TablesStayGood DEF GoodUp, Tables
    <2>2. \A gone : AllGood(With(Less(schedules, gone), s), cfg.instances)
      BY <2>1, TablesStayGood
    <2>3. AllGood(With(schedules, s), cfg.instances)
      BY <1>1, TablesStayGood DEF GoodUp, Tables
    <2> QED
      BY <1>1, <2>1, <2>2, <2>3 DEF GoodUp
  <1>4. GoodUp'
    BY <1>1, <1>2, <1>3 DEF GoodUp
  <1> QED
    BY <1>4, GoodUpSuffices

LEMMA ContinueStartable == ASSUME Startable, Typed', Continue PROVE Startable'
  <1>1. op.pc # "none"
    BY DEF Continue, SaveNew, DropOriginal, UndropNew, ResaveOriginal, UndoNew,
           RestoreOld, Repause
  <1>2. Typed /\ phase = "up" /\ op # NoOp /\ GoodUp
    BY <1>1, Operating DEF Startable
  <1>3. UNCHANGED <<phase, cfg>>
    BY DEF Continue, SaveNew, DropOriginal, UndropNew, ResaveOriginal, UndoNew,
           RestoreOld, Repause, startup
  <1>4. /\ op.new \in Schedule /\ Good(op.new, cfg.instances)
        /\ op.original # "" => op.old \in Schedule /\ Good(op.old, cfg.instances)
    BY <1>1, <1>2, Operating DEF GoodUp
  <1>5. op' = NoOp \/ (op'.new = op.new /\ op'.old = op.old)
    <2>1. \A pc : Goto(pc) => op'.new = op.new /\ op'.old = op.old
      <3>1. op \in [pc : {"saving", "dropping", "undropping", "resaving",
                          "undoing", "restoring", "repausing"},
                    original : Names \cup {""}, new : Schedule,
                    old : Schedule \cup {NoSchedule}]
        BY <1>2, TypeParts DEF Typed, OpOK
      <3> QED
        BY <3>1 DEF Goto
    <2> QED
      BY <2>1 DEF Continue, SaveNew, DropOriginal, UndropNew, ResaveOriginal, UndoNew,
                  RestoreOld, Repause, Done, Install
  <1>6. CASE SaveNew \/ DropOriginal \/ UndropNew \/ UndoNew
    <2>1. \/ UNCHANGED stored
          \/ stored' = With(stored, op.new)
          \/ \E gone : stored' = Less(stored, gone)
      BY <1>6 DEF SaveNew, DropOriginal, UndropNew, UndoNew
    <2>2. \/ UNCHANGED schedules
          \/ \E gone : schedules' = Less(schedules, gone)
          \/ \E gone : schedules' = With(Less(schedules, gone), op.new)
      BY <1>6 DEF SaveNew, DropOriginal, UndropNew, UndoNew, Install
    <2> QED
      BY <1>2, <1>3, <1>4, <1>5, <2>1, <2>2, GoodStep
  <1>7. CASE ResaveOriginal \/ RestoreOld \/ Repause
    <2>1. op.original # ""
      BY <1>2, <1>7, Operating DEF ResaveOriginal, RestoreOld, Repause
    <2>2. UNCHANGED stored \/ stored' = With(stored, op.old)
      BY <1>7 DEF ResaveOriginal, RestoreOld, Repause
    <2>3. UNCHANGED schedules \/ schedules' = With(schedules, op.old)
      BY <1>7 DEF ResaveOriginal, RestoreOld, Repause
    <2> QED
      BY <1>2, <1>3, <1>4, <1>5, <2>1, <2>2, <2>3, GoodStep
  <1> QED
    BY <1>6, <1>7 DEF Continue

LEMMA FlagStepsStartable ==
    ASSUME Startable, Typed', NEW n \in Names,
           DeleteSchedule(n) \/ TogglePause(n) \/ MarkOneTimeCompleted(n)
    PROVE  Startable'
  <1>1. Request /\ Has(schedules, n)
    BY DEF DeleteSchedule, TogglePause, MarkOneTimeCompleted
  <1>2. /\ Typed /\ Tables /\ GoodUp /\ phase = "up" /\ op = NoOp
        /\ UNCHANGED <<phase, cfg>>
    BY <1>1, TypeParts DEF Startable, Typed, Request, startup
  <1> DEFINE old == schedules[n]
  <1>3. old \in Schedule /\ old.name = n /\ Good(old, cfg.instances)
    BY <1>1, <1>2, Row DEF Has, Tables, GoodUp, AllGood
  <1>4. CASE DeleteSchedule(n)
    <2>1. /\ UNCHANGED stored \/ \E gone : stored' = Less(stored, gone)
          /\ \E gone : schedules' = Less(schedules, gone)
          /\ op' = NoOp
      BY <1>2, <1>4 DEF DeleteSchedule
    <2> QED
      BY <1>2, <1>3, <2>1, GoodStep
  <1>5. CASE TogglePause(n)
    <2> DEFINE s == [old EXCEPT !.paused = ~@]
    <2>1. s \in Schedule /\ Good(s, cfg.instances)
      <3>1. s \in Schedule /\ Alike(old, s)
        BY <1>3, Toggled, FlagsAlike
      <3> QED
        BY <1>3, <3>1, AlikeGood
    <2>2. /\ UNCHANGED stored \/ stored' = With(stored, s)
          /\ UNCHANGED schedules \/ schedules' = With(schedules, s)
          /\ op' = op \/ (op'.new = s /\ op'.old = old)
      BY <1>5 DEF TogglePause
    <2> HIDE DEF s, old
    <2> QED
      BY <1>2, <1>3, <2>1, <2>2, GoodStep
  <1>6. CASE MarkOneTimeCompleted(n)
    <2> DEFINE s == [old EXCEPT !.completed = TRUE]
    <2>1. s \in Schedule /\ Good(s, cfg.instances)
      <3>1. s \in Schedule /\ Alike(old, s)
        BY <1>3, FlagsKept, FlagsAlike
      <3> QED
        BY <1>3, <3>1, AlikeGood
    <2>2. /\ UNCHANGED stored \/ stored' = With(stored, s)
          /\ UNCHANGED schedules \/ schedules' = With(schedules, s)
          /\ op' = op
      BY <1>6 DEF MarkOneTimeCompleted
    <2> HIDE DEF s, old
    <2> QED
      BY <1>2, <1>3, <2>1, <2>2, GoodStep
  <1> QED
    BY <1>4, <1>5, <1>6

LEMMA StartableStep == Startable /\ [Next]_vars => Startable'
  <1> SUFFICES ASSUME Startable, [Next]_vars PROVE Startable'
    OBVIOUS
  <1>1. Typed'
    BY TypeStep DEF Startable
  <1>2. CASE Start
    BY <1>2, StartStartable
  <1>3. CASE Exit
    BY <1>1, <1>3, ExitStartable
  <1>4. CASE Register \/ Crash
    BY <1>1, <1>3, <1>4, RegisterStartable DEF Crash
  <1>5. ASSUME NEW n \in Names,
               Seed(n) \/ DeleteSchedule(n) \/ TogglePause(n) \/ MarkOneTimeCompleted(n)
        PROVE  Startable'
    BY <1>1, <1>3, <1>5, SeedStartable, FlagStepsStartable
  <1>6. CASE Continue
    BY <1>1, <1>6, ContinueStartable
  <1>7. CASE \E original \in Names \cup {""}, input \in Inputs :
                SaveSchedule(original, input)
    BY <1>1, <1>7, SaveScheduleStartable
  <1>8. CASE EditFile
    BY <1>1, <1>8 DEF Startable, EditFile, AllNormal, Has
  <1>9. CASE UNCHANGED vars
    BY <1>1, <1>9 DEF Startable, vars, AllNormal, Has, GoodUp, AllGood
  <1> QED
    BY <1>2, <1>4, <1>5, <1>6, <1>7, <1>8, <1>9 DEF Next

\* However a running engine is used, what it has stored passes the checks of
\* the next start with the same Faktory instances, and is never a schedule
\* the cron library cannot be given.
THEOREM AlwaysStartsAgain == Spec => []StartsAgain
  <1>1. Init => Startable
    <2>1. Init => AllNormal(stored) /\ AllNormal(loaded)
      BY NothingIsTable DEF Init, AllNormal, Has
    <2> QED
      BY <2>1, InitTyped DEF Init, Startable
  <1> QED
    BY <1>1, StartableStep, StartableIsStartsAgain, PTL DEF Spec
=============================================================================
