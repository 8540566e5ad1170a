-------------------------- MODULE FireTimesProofs --------------------------
(***************************************************************************)
(* A rate or one-time job is started at its ticks, once for each and for   *)
(* all that have come, for every set of jobs and every width of durations. *)
(***************************************************************************)
EXTENDS FireTimes, TLAPS

----------------------------------------------------------------------------
\* Arithmetic.

LEMMA Division ==
    ASSUME NEW a \in Nat, NEW d \in Nat \ {0}
    PROVE  /\ a \div d \in Nat
           /\ (a \div d) * d <= a
           /\ a < (a \div d) * d + d
BY SMTT(20)

LEMMA Distribution ==
    ASSUME NEW q \in Nat, NEW d \in Nat
    PROVE  (q + 1) * d = q * d + d
BY SMTT(20)

LEMMA Quotients ==
    ASSUME NEW q \in Nat, NEW d \in Nat \ {0}
    PROVE  q * d \in Nat /\ q <= q * d
<1>1. q * d \in Nat
    BY SMTT(20)
<1>2. q * (d - 1) \in Nat /\ q * d = q * (d - 1) + q
    BY SMTT(20)
<1> QED
    BY <1>1, <1>2

\* A multiple that is larger is larger by one at least.
LEMMA NextMultiple ==
    ASSUME NEW m \in Nat, NEW q \in Nat, NEW d \in Nat \ {0}, m * d > q * d
    PROVE  m * d >= (q + 1) * d
<1>1. m > q
    BY SMTT(20)
<1>2. PICK e \in Nat : m = q + 1 + e
    <2>1. m - q - 1 \in Nat /\ m = q + 1 + (m - q - 1)
        BY <1>1
    <2> QED
        BY <2>1
<1>3. m * d = q * d + d + e * d
    BY <1>2, SMTT(20)
<1>4. e * d \in Nat
    BY SMTT(20)
<1> QED
    BY <1>3, <1>4, SMTT(20)

LEMMA Remainder ==
    ASSUME NEW a \in Int, NEW d \in Nat \ {0}, 0 <= a, a < d
    PROVE  a % d = a
BY SMTT(20)

LEMMA RemainderRange ==
    ASSUME NEW a \in Int, NEW d \in Nat \ {0}
    PROVE  a % d \in 0..(d - 1)
BY SMTT(20)

\* A duration that fits is kept; every other becomes one that fits.
LEMMA WrapFits ==
    ASSUME NEW d \in Int, -Half <= d, d < Half
    PROVE  Wrap(d) = d
<1>1. Half \in Nat \ {0} /\ 2 * Half \in Nat \ {0}
    BY TimingAssumption
<1>2. (d + Half) % (2 * Half) = d + Half
    BY <1>1, Remainder
<1> QED
    BY <1>1, <1>2 DEF Wrap

LEMMA WrapRange ==
    ASSUME NEW d \in Int
    PROVE  Wrap(d) \in (-Half)..(Half - 1)
<1>1. Half \in Nat \ {0} /\ 2 * Half \in Nat \ {0} /\ d + Half \in Int
    BY TimingAssumption
<1>2. (d + Half) % (2 * Half) \in 0..(2 * Half - 1)
    BY <1>1, RemainderRange
<1> QED
    BY <1>1, <1>2 DEF Wrap

----------------------------------------------------------------------------
\* Jobs and tasks.

LEMMA EveryPositive ==
    ASSUME NEW j \in Jobs, j.type = "rate"
    PROVE  Every(j) \in Nat \ {0}
<1>1. IsJob(j) /\ Minute \in Nat \ {0}
    BY TimingAssumption
<1>2. j.interval \in Nat \ {0} /\ j.unit \in {"minutes", "hours", "days"}
    BY <1>1 DEF IsJob
<1>3. Unit(j.unit) \in Nat \ {0}
    BY <1>1, <1>2 DEF Unit
<1>4. Every(j) \in Nat /\ j.interval <= Every(j)
    BY <1>2, <1>3, Quotients DEF Every
<1> QED
    BY <1>2, <1>4

\* What cronSchedule makes of a job at a time.
PlanOf(j, at) ==
    IF j.type = "rate"
    THEN [kind |-> "rate", start |-> j.at, interval |-> rateDuration(j)]
    ELSE [kind |-> "once", start |-> IF j.at > at THEN j.at ELSE at + Second]

\* The first tick after t of a task that fits is what Next answers.
LEMMA RateNextIsNextTick ==
    ASSUME NEW start \in Int, NEW every \in Nat \ {0}, NEW t \in Instants,
           every + (MaxTime - start) < Half,
           every < Half
    PROVE  LET n == RateNext(start, every, t) IN
           /\ n \in Int /\ n > t
           /\ \E i \in 0..(n - start) : n = start + i * every
           /\ n >= start
           /\ \A k \in Int : /\ k > t /\ k >= start
                             /\ \E i \in 0..(k - start) : k = start + i * every
                             => n <= k
<1> DEFINE n == RateNext(start, every, t)
<1>0. t \in Int /\ MaxTime \in Int /\ t <= MaxTime /\ Half \in Nat \ {0} /\ ~(every <= 0)
    BY TimingAssumption DEF Instants
<1>1. CASE t < start
    <2>1. n = start
        BY <1>0, <1>1 DEF RateNext
    <2>2. 0 \in 0..(start - start) /\ start = start + 0 * every
        OBVIOUS
    <2> QED
        BY <1>0, <1>1, <2>1, <2>2
<1>2. CASE ~(t < start)
    <2> DEFINE e == t - start
               q == e \div every
    <2>1. e \in Nat /\ t = start + e /\ e + every < Half
        BY <1>0, <1>2
    <2>2. Sub(t, start) = e
        BY <1>0, <2>1 DEF Sub
    <2> HIDE DEF e
    <2>3. q \in Nat /\ q * every <= e /\ e < q * every + every
        BY <2>1, Division
    <2>4. n = start + Wrap(Wrap(q + 1) * every)
        BY <1>0, <1>2, <2>2 DEF RateNext
    <2> HIDE DEF q
    <2> DEFINE p == (q + 1) * every
    <2>5. p = q * every + every /\ q * every \in Nat /\ q <= q * every
        BY <2>3, Distribution, Quotients
    <2>6. p \in Nat /\ q + 1 \in Nat /\ q + 1 <= p
        BY <2>3, <2>5, Quotients
    <2>7. p <= e + every /\ e < p
        BY <2>1, <2>3, <2>5, <2>6
    <2>8. Wrap(q + 1) = q + 1
        BY <1>0, <2>1, <2>6, <2>7, WrapFits
    <2> HIDE DEF p
    <2>9. Wrap(p) = p
        BY <1>0, <2>1, <2>6, <2>7, WrapFits
    <2>10. n = start + p
        BY <2>4, <2>8, <2>9 DEF p
    <2> HIDE DEF n
    <2>11. n \in Int /\ n > t /\ n >= start /\ n - start = p
        BY <2>1, <2>6, <2>7, <2>10
    <2>12. \E i \in 0..(n - start) : n = start + i * every
        <3>1. q + 1 \in 0..(n - start)
            BY <2>6, <2>11
        <3> QED
            BY <3>1, <2>10 DEF p
    <2>13. ASSUME NEW k \in Int, k > t, NEW i \in 0..(k - start), k = start + i * every
           PROVE  n <= k
        <3>1. i \in Nat /\ i * every \in Nat
            <4>1. i \in Nat
                OBVIOUS
            <4> QED
                BY <4>1, Quotients
        <3>2. i * every > q * every
            BY <2>1, <2>3, <2>5, <2>13, <3>1
        <3>3. i * every >= p
            BY <2>3, <3>1, <3>2, NextMultiple DEF p
        <3> QED
            BY <2>6, <2>10, <2>13, <3>1, <3>3
    <2> QED
        BY <2>11, <2>12, <2>13 DEF n
<1> QED
    BY <1>1, <1>2

LEMMA PlanIsTyped ==
    ASSUME NEW j \in Jobs, NEW at \in Instants
    PROVE  /\ PlanOf(j, at).start \in Int
           /\ j.type = "once" => PlanOf(j, at).kind = "once"
           /\ j.type # "once" => /\ j.type = "rate"
                                /\ PlanOf(j, at).kind = "rate"
                                /\ PlanOf(j, at).interval = rateDuration(j)
                                /\ rateDuration(j) \in (-Half)..(Half - 1)
<1>1. IsJob(j) /\ Second \in Nat /\ at \in Int
    BY TimingAssumption DEF Instants
<1>2. j.type \in {"rate", "once"} /\ j.at \in Int
    BY <1>1 DEF IsJob
<1>3. CASE j.type = "once"
    BY <1>1, <1>2, <1>3 DEF PlanOf
<1>4. CASE j.type = "rate"
    <2>1. rateDuration(j) = Wrap(Every(j)) /\ Every(j) \in Int
        BY <1>4, EveryPositive DEF rateDuration, Every
    <2>2. rateDuration(j) \in (-Half)..(Half - 1)
        BY <2>1, WrapRange
    <2> QED
        BY <1>2, <1>4, <2>2 DEF PlanOf
<1> QED
    BY <1>2, <1>3, <1>4

\* A task has a tick between two instants exactly if what Next answered at the
\* first has come at the second.
LEMMA DueWhenNextHasCome ==
    ASSUME NEW j \in Jobs, NEW at \in Instants,
           NEW t \in Instants, NEW u \in Instants,
           Task(j, at).kind # "wild"
    PROVE  Promise!IsDue(Task(j, at), t, u)
             <=> LET n == NextOf(PlanOf(j, at), t) IN n # Never /\ n <= u
<1> DEFINE n == NextOf(PlanOf(j, at), t)
           task0 == Task(j, at)
<1>0. /\ IsJob(j) /\ Second \in Nat /\ at \in Int /\ t \in Int /\ u \in Int /\ u <= MaxTime
      /\ j # NoJob /\ Never \notin Int /\ MaxTime \in Int /\ Half \in Nat
    BY TimingAssumption DEF Instants
<1>1. j.type \in {"rate", "once"} /\ j.at \in Int
    BY <1>0 DEF IsJob
<1>2. CASE j.type = "once"
    <2> DEFINE s == IF j.at > at THEN j.at ELSE at + Second
    <2>1. s \in Int
        BY <1>0, <1>1
    <2>2. task0 = [kind |-> "once", start |-> s]
        BY <1>0, <1>2 DEF Task
    <2>3. n = IF s > t THEN s ELSE Never
        BY <1>2 DEF NextOf, PlanOf, OnceNext
    <2> HIDE DEF s, task0
    <2>4. Promise!IsDue(task0, t, u) <=> s \in (t + 1)..u
        BY <2>1, <2>2 DEF Promise!IsDue, Promise!IsTick
    <2> HIDE DEF n
    <2>5. Promise!IsDue(task0, t, u) <=> n # Never /\ n <= u
        BY <1>0, <2>1, <2>3, <2>4
    <2> QED
        BY <2>5 DEF n, task0
<1>3. CASE j.type = "rate"
    <2> DEFINE start == j.at
               every == Every(j)
    <2>1. Fits(j) /\ task0 = [kind |-> "rate", start |-> start, every |-> every]
        BY <1>0, <1>3 DEF Task
    <2>2. every \in Nat \ {0} /\ every + (MaxTime - start) < Half /\ every < Half
        BY <1>3, <2>1, EveryPositive DEF Fits
    <2>3. rateDuration(j) = every
        <3>1. rateDuration(j) = Wrap(every)
            BY <1>3 DEF rateDuration, Every
        <3> HIDE DEF every
        <3> QED
            BY <1>0, <2>2, <3>1, WrapFits
    <2>4. n = RateNext(start, every, t)
        BY <1>3, <2>3 DEF NextOf, PlanOf
    <2>0. start \in Int
        BY <1>1
    <2> HIDE DEF start, every, n, task0
    <2>5. /\ n \in Int /\ n > t
          /\ \E i \in 0..(n - start) : n = start + i * every
          /\ n >= start
          /\ \A k \in Int : /\ k > t /\ k >= start
                            /\ \E i \in 0..(k - start) : k = start + i * every
                            => n <= k
        BY <2>0, <2>2, <2>4, RateNextIsNextTick
    <2>6. \A k \in Int : Promise!IsTick(task0, k)
                          <=> /\ k >= start
                              /\ \E i \in 0..(k - start) : k = start + i * every
        BY <2>1 DEF Promise!IsTick
    <2>7. Promise!IsDue(task0, t, u) <=> n # Never /\ n <= u
        <3>1. ASSUME Promise!IsDue(task0, t, u) PROVE n <= u
            <4>1. PICK k \in (t + 1)..u : Promise!IsTick(task0, k)
                BY <3>1 DEF Promise!IsDue
            <4>2. k \in Int /\ k > t /\ k <= u
                BY <1>0, <4>1
            <4>3. n <= k
                BY <2>5, <2>6, <4>1, <4>2
            <4> QED
                BY <1>0, <2>5, <4>2, <4>3
        <3>2. ASSUME n <= u PROVE Promise!IsDue(task0, t, u)
            <4>1. n \in (t + 1)..u
                BY <1>0, <2>5, <3>2
            <4>2. Promise!IsTick(task0, n)
                BY <2>5, <2>6
            <4> QED
                BY <4>1, <4>2 DEF Promise!IsDue
        <3> QED
            BY <1>0, <2>5, <3>1, <3>2
    <2> QED
        BY <2>7 DEF n, task0
<1> QED
    BY <1>1, <1>2, <1>3

----------------------------------------------------------------------------
\* The inductive invariant.

LEMMA NextIsTyped ==
    ASSUME NEW j \in Jobs, NEW at \in Instants, NEW t \in Instants
    PROVE  NextOf(PlanOf(j, at), t) \in Int \cup {Never}
<1> DEFINE p == PlanOf(j, at)
<1>1. p.start \in Int /\ Half \in Nat /\ t \in Int
    BY PlanIsTyped, TimingAssumption DEF Instants
<1>2. CASE j.type = "once"
    <2>1. p.kind = "once"
        BY <1>2, PlanIsTyped
    <2> HIDE DEF p
    <2>2. NextOf(p, t) \in Int \cup {Never}
        BY <1>1, <2>1 DEF NextOf, OnceNext
    <2> QED
        BY <2>2 DEF p
<1>3. CASE j.type # "once"
    <2>1. p.kind = "rate" /\ p.interval \in Int
        BY <1>1, <1>3, PlanIsTyped
    <2> HIDE DEF p
    <2>2. Sub(t, p.start) \in Int
        BY <1>1 DEF Sub
    <2>3. p.interval > 0 => Sub(t, p.start) \div p.interval \in Int
        BY <2>1, <2>2, SMTT(20)
    <2> DEFINE m == Wrap(Sub(t, p.start) \div p.interval + 1)
    <2>4. p.interval > 0 => m \in Int
        BY <1>1, <2>3, WrapRange
    <2> HIDE DEF m
    <2>5. p.interval > 0 => Wrap(m * p.interval) \in Int
        BY <1>1, <2>1, <2>4, WrapRange
    <2>6. NextOf(p, t) \in Int \cup {Never}
        BY <1>1, <2>1, <2>5 DEF NextOf, RateNext, m
    <2> QED
        BY <2>6 DEF p
<1> QED
    BY <1>2, <1>3

\* An entry has the plan of its job, and a time that Next has answered.
Planned ==
    /\ job # NoJob => plan = PlanOf(job, made)
    /\ seen # Never => job # NoJob /\ next = NextOf(plan, seen)

Inv == TypeOK /\ Planned

LEMMA InitInv == Init => Inv
<1> SUFFICES ASSUME Init PROVE Inv
    OBVIOUS
<1>1. now \in Int /\ now <= now
    BY TimingAssumption DEF Init, Instants
<1>2. TypeOK
    BY <1>1 DEF Init, TypeOK
<1>3. Planned
    BY DEF Init, Planned
<1> QED
    BY <1>2, <1>3 DEF Inv

LEMMA RegisterInv == \A j \in Jobs : Inv /\ Register(j) => Inv'
<1> SUFFICES ASSUME NEW j \in Jobs, Inv, Register(j) PROVE Inv'
    OBVIOUS
<1>1. now \in Int /\ now \in Instants /\ j # NoJob
    BY TimingAssumption DEF Inv, TypeOK, Instants
<1>2. plan' = PlanOf(j, now)
    BY DEF Register, cronSchedule, PlanOf
<1>3. Planned'
    BY <1>2 DEF Register, Planned
<1>4. /\ plan'.start \in Int
      /\ IF j.type = "once" THEN plan'.kind = "once"
         ELSE plan'.kind = "rate" /\ plan'.interval \in (-Half)..(Half - 1)
    BY <1>1, <1>2, PlanIsTyped
<1>5. TypeOK'
    BY <1>1, <1>4 DEF Register, Inv, TypeOK
<1> QED
    BY <1>3, <1>5 DEF Inv

LEMMA SeeingInv ==
    Inv /\ job # NoJob /\ next' = NextOf(plan, now) /\ seen' = now
        /\ UNCHANGED <<now, running, job, made, plan>> => Inv'
<1> SUFFICES ASSUME Inv, job # NoJob, next' = NextOf(plan, now), seen' = now,
                    UNCHANGED <<now, running, job, made, plan>>
             PROVE  Inv'
    OBVIOUS
<1>1. /\ now \in Int /\ now \in Instants /\ now # Never
      /\ job \in Jobs /\ made \in Instants /\ made <= now
    BY TimingAssumption DEF Inv, TypeOK, Instants
<1>2. plan = PlanOf(job, made)
    BY DEF Inv, Planned
<1>3. next' \in Int \cup {Never}
    BY <1>1, <1>2, NextIsTyped
<1>4. TypeOK'
    BY <1>1, <1>3 DEF Inv, TypeOK
<1>5. Planned'
    BY <1>2 DEF Planned
<1> QED
    BY <1>4, <1>5 DEF Inv

LEMMA StepInv == Inv /\ [Next]_vars => Inv'
<1> SUFFICES ASSUME Inv, [Next]_vars PROVE Inv'
    OBVIOUS
<1>1. ASSUME NEW j \in Jobs, Register(j) PROVE Inv'
    BY <1>1, RegisterInv
<1>2. CASE Remove \/ Exit
    BY <1>2 DEF Remove, Exit, Inv, TypeOK, Planned
<1>3. CASE Start
    BY <1>3 DEF Start, Inv, TypeOK, Planned
<1>4. CASE Look \/ Fire
    BY <1>4, SeeingInv DEF Look, Fire
<1>5. CASE Advance
    <2>1. now \in Int /\ now' \in Instants /\ now' = now + 1 /\ made \in Int
        BY <1>5, TimingAssumption DEF Advance, Inv, TypeOK, Instants
    <2>2. seen # Never => seen \in Int
        BY DEF Inv, TypeOK, Instants
    <2>3. TypeOK'
        BY <1>5, <2>1, <2>2 DEF Advance, Inv, TypeOK
    <2>4. Planned'
        BY <1>5 DEF Advance, Inv, Planned
    <2> QED
        BY <2>3, <2>4 DEF Inv
<1>6. CASE UNCHANGED vars
    BY <1>6 DEF vars, Inv, TypeOK, Planned
<1> QED
    BY <1>1, <1>2, <1>3, <1>4, <1>5, <1>6 DEF Next

LEMMA InvHolds == Spec => []Inv
<1> QED
    BY InitInv, StepInv, PTL DEF Spec

\* The clock, the entry and the times of the scheduler are what they should be:
\* TypeOK of FireTimes.
THEOREM TypeCorrectness == Spec => []TypeOK
<1>1. Inv => TypeOK
    BY DEF Inv
<1> QED
    BY <1>1, InvHolds, PTL

----------------------------------------------------------------------------
\* The properties.

LEMMA InvIsDue ==
    Inv /\ seen # Never /\ task.kind # "wild"
    => (Promise!IsDue(task, seen, now) <=> next # Never /\ next <= now)
<1> SUFFICES ASSUME Inv, seen # Never, task.kind # "wild"
             PROVE  Promise!IsDue(task, seen, now) <=> next # Never /\ next <= now
    OBVIOUS
<1>1. /\ job # NoJob /\ job \in Jobs /\ made \in Instants
      /\ seen \in Instants /\ now \in Instants
    BY DEF Inv, TypeOK, Planned
<1>2. next = NextOf(PlanOf(job, made), seen)
    BY <1>1 DEF Inv, Planned
<1> QED
    BY <1>1, <1>2, DueWhenNextHasCome DEF task

\* A tick that has come since the scheduler looked last is never forgotten:
\* rateSchedule.Next and onceSchedule.Next answer the first one.
THEOREM NoTickIsForgotten == Spec => []WhatIsDueFires
<1>1. Inv => WhatIsDueFires
    BY InvIsDue DEF WhatIsDueFires
<1> QED
    BY <1>1, InvHolds, PTL

LEMMA TaskIsTask ==
    ASSUME NEW j \in Jobs, NEW at \in Instants
    PROVE  Task(j, at) \in [kind : {"rate"}, start : Int, every : Nat \ {0}]
               \cup [kind : {"once"}, start : Int] \cup [kind : {"wild"}]
<1>1. IsJob(j) /\ Second \in Nat /\ at \in Int /\ j # NoJob
    BY TimingAssumption DEF Instants
<1>2. j.type \in {"rate", "once"} /\ j.at \in Int
    BY <1>1 DEF IsJob
<1>3. CASE j.type = "once"
    <2>1. (IF j.at > at THEN j.at ELSE at + Second) \in Int
        BY <1>1, <1>2
    <2>2. Task(j, at) = [kind |-> "once", start |-> IF j.at > at THEN j.at ELSE at + Second]
        BY <1>1, <1>3 DEF Task
    <2> QED
        BY <2>1, <2>2
<1>4. CASE j.type = "rate"
    <2>1. Every(j) \in Nat \ {0}
        BY <1>4, EveryPositive
    <2>2. Task(j, at) \in {[kind |-> "rate", start |-> j.at, every |-> Every(j)],
                          [kind |-> "wild"]}
        BY <1>1, <1>4 DEF Task
    <2> QED
        BY <1>2, <2>1, <2>2
<1> QED
    BY <1>2, <1>3, <1>4

LEMMA NoTaskIsNoJob ==
    Inv => (task # Promise!NoTask <=> job # NoJob)
<1> SUFFICES ASSUME Inv PROVE task # Promise!NoTask <=> job # NoJob
    OBVIOUS
<1>1. CASE job = NoJob
    BY <1>1 DEF task, Task, Promise!NoTask
<1>2. CASE job # NoJob
    <2>1. job \in Jobs /\ made \in Instants
        BY <1>2 DEF Inv, TypeOK
    <2>2. task.kind \in {"rate", "once", "wild"}
        BY <2>1, TaskIsTask DEF task
    <2>3. Promise!NoTask.kind = "none"
        BY DEF Promise!NoTask
    <2> QED
        BY <1>2, <2>2, <2>3
<1> QED
    BY <1>1, <1>2

LEMMA StepRefines == Inv /\ Inv' /\ [Next]_vars => [Promise!Next]_(Promise!vars)
<1> SUFFICES ASSUME Inv, Inv', [Next]_vars PROVE [Promise!Next]_(Promise!vars)
    OBVIOUS
<1>1. ASSUME NEW j \in Jobs, Register(j) PROVE Promise!Take
    <2>1. job' = j /\ made' = now /\ now \in Instants
        BY <1>1 DEF Register, Inv, TypeOK
    <2>2. task' = Task(j, now)
        BY <2>1 DEF task, Task, Fits, Every
    <2>3. seen' = Never /\ now' = now
        BY <1>1 DEF Register
    <2> QED
        BY <2>1, <2>2, <2>3, TaskIsTask DEF Promise!Take
<1>2. CASE Remove \/ Exit
    <2>1. job' = NoJob /\ seen' = Never /\ now' = now
        BY <1>2 DEF Remove, Exit
    <2>2. task' = Promise!NoTask
        BY <2>1 DEF task, Task, Promise!NoTask
    <2> QED
        BY <2>1, <2>2 DEF Promise!Take, Promise!Next
<1>3. CASE Start \/ UNCHANGED vars
    <2>1. UNCHANGED <<now, job, made, seen>>
        BY <1>3 DEF Start, vars
    <2>2. task' = task
        BY <2>1 DEF task, Task, Fits, Every
    <2> QED
        BY <2>1, <2>2 DEF Promise!vars
<1>4. ASSUME UNCHANGED <<job, made>> PROVE task' = task
    BY <1>4 DEF task, Task, Fits, Every
<1>5. CASE Look
    <2>1. task # Promise!NoTask /\ task' = task
        BY <1>4, <1>5, NoTaskIsNoJob DEF Look
    <2> QED
        BY <1>5, <2>1 DEF Look, Promise!Look, Promise!Next
<1>6. CASE Fire
    <2>1. task # Promise!NoTask /\ task' = task
        BY <1>4, <1>6, NoTaskIsNoJob DEF Fire
    <2>2. seen # Never
        BY <1>6 DEF Fire, Inv, TypeOK
    <2>3. task.kind = "wild" \/ Promise!IsDue(task, seen, now)
        BY <1>6, <2>2, InvIsDue DEF Fire
    <2> QED
        BY <1>6, <2>1, <2>2, <2>3 DEF Fire, Promise!Deliver, Promise!Next
<1>7. CASE Advance
    <2>1. now \in Int /\ now' \in Instants /\ now' > now
        BY <1>7, TimingAssumption DEF Advance, Inv, TypeOK, Instants
    <2>2. task' = task /\ seen' = seen
        BY <1>4, <1>7 DEF Advance
    <2> QED
        BY <2>1, <2>2 DEF Promise!Pass, Promise!Next
<1> QED
    BY <1>1, <1>2, <1>3, <1>5, <1>6, <1>7 DEF Next, Promise!Next

\* A job is started when a tick has come since the scheduler looked last, and
\* once for all that have: FireTimes implements Ticks.
THEOREM FireTimesImplementsTicks == Spec => FiresAtTicks
<1>1. Init => Promise!Init
    BY DEF Init, Promise!Init, task, Task, Promise!NoTask
<1> QED
    BY <1>1, StepRefines, InvHolds, PTL DEF Spec, FiresAtTicks, Promise!Spec

\* An entry that the scheduler has not looked at is new.
Fresh == job # NoJob /\ seen = Never => now - made <= Lag

LEMMA FreshHolds == Spec => []Fresh
<1>1. Init => Fresh
    BY DEF Init, Fresh
<1>2. Inv /\ Inv' /\ Fresh /\ [Next]_vars => Fresh'
    <2> SUFFICES ASSUME Inv, Inv', Fresh, [Next]_vars PROVE Fresh'
        OBVIOUS
    <2>1. now \in Int /\ made \in Int /\ now - now <= Lag /\ Never \notin Int
        BY TimingAssumption DEF Inv, TypeOK, Instants
    <2>2. ASSUME NEW j \in Jobs, Register(j) PROVE Fresh'
        BY <2>1, <2>2 DEF Register, Fresh
    <2>3. CASE Remove \/ Exit
        BY <2>3 DEF Remove, Exit, Fresh
    <2>4. CASE Start \/ Advance \/ UNCHANGED vars
        BY <2>4 DEF Start, Advance, vars, Fresh
    <2>5. CASE Look \/ Fire
        BY <2>1, <2>5 DEF Look, Fire, Fresh
    <2> QED
        BY <2>2, <2>3, <2>4, <2>5 DEF Next
<1> QED
    BY <1>1, <1>2, InvHolds, PTL DEF Spec

\* cronSchedule gives a one-time job whose time is past another second: unless
\* its time comes before the scheduler has looked at it, it is planned.
THEOREM OnceJobsArePlanned == Spec => OnceIsPlanned
<1> DEFINE P == Lag < Second /\ job # NoJob /\ seen = Never /\ seen' # Never
                /\ job.type = "once" /\ job.at \notin (made + 1)..now
                => next' # Never
<1>1. Inv /\ Fresh /\ [Next]_vars => P
    <2> SUFFICES ASSUME Inv, Fresh, [Next]_vars, Lag < Second, job # NoJob,
                        seen = Never, seen' # Never,
                        job.type = "once", job.at \notin (made + 1)..now
                 PROVE  next' # Never
        OBVIOUS
    <2>1. CASE Look
        <3> DEFINE s == IF job.at > made THEN job.at ELSE made + Second
        <3>1. next' = NextOf(PlanOf(job, made), now)
            BY <2>1 DEF Look, Inv, Planned
        <3>2. next' = IF s > now THEN s ELSE Never
            BY <3>1 DEF NextOf, PlanOf, OnceNext
        <3>3. /\ job.at \in Int /\ made \in Int /\ now \in Int /\ Second \in Nat
              /\ Lag \in Nat /\ Never \notin Int
            <4>1. job \in Jobs /\ made \in Instants /\ now \in Instants
                BY DEF Inv, TypeOK
            <4>2. IsJob(job)
                BY <4>1, TimingAssumption
            <4> QED
                BY <4>1, <4>2, TimingAssumption DEF IsJob, Instants
        <3>4. now - made <= Lag
            BY DEF Fresh
        <3>5. s > now /\ s \in Int
            BY <3>3, <3>4
        <3> HIDE DEF s
        <3> QED
            BY <3>2, <3>3, <3>5
    <2>2. CASE ~Look
        BY <2>2 DEF Next, Register, Remove, Start, Exit, Fire, Advance, vars, Inv, TypeOK
    <2> QED
        BY <2>1, <2>2
<1> QED
    BY <1>1, InvHolds, FreshHolds, PTL DEF Spec, OnceIsPlanned
============================================================================
