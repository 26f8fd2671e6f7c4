--------------------------- MODULE ServiceLifeProofs ---------------------------
(***************************************************************************)
(* Proofs about ServiceStart and ServiceLife, for any number of replicas,  *)
(* any migration directories, timeouts, delays and faults: what is true of *)
(* every start, that the whole life of a service is a behaviour of         *)
(* ServiceStart, and that a process stops the way it reports.              *)
(***************************************************************************)
EXTENDS ServiceLife, SequenceTheorems, TLAPS

-----------------------------------------------------------------------------
(* The inductive invariant *)

Inside == {"check", "apply", "commit"}

\* What is true of replica r in state p while L holds the lock and R is recorded.
\* It looks at a file only under the lock.
Locked(r, p, L) == p.pc \in Inside => L = r

\* It has gone through its directory from the first file on, and what it is
\* through with is recorded.
Followed(r, p, R) ==
    /\ p.done \subseteq Dir[r]
    /\ \A f \in p.done : RowOf(f) \in R
    /\ \A f \in p.done : \A g \in Dir[r] : g.name < f.name => g \in p.done
    /\ p.pc = "serving" => p.done = Dir[r]

\* What it has decided to run is not recorded.
Unrecorded(r, p, R) ==
    p.pc \in {"apply", "commit"} =>
        \A f \in Dir[r] \ p.done :
            (\A g \in Dir[r] \ p.done : f.name <= g.name) => \A i \in R : i.version # f.version

\* It has waited for the database as long as it says.
Patient(p) ==
    /\ p.pc = "wait" => p.tried = p.elapsed
    /\ p.delay <= MaxDelay
    /\ p.pc # "exited" => p.why = "none"
    /\ p.why # "duplicate"
    /\ p.why = "deadline" => p.tried + MaxDelay >= ReadyTimeout

Good(r, p, L, R) ==
    Locked(r, p, L) /\ Followed(r, p, R) /\ Unrecorded(r, p, R) /\ Patient(p)

StartInv ==
    /\ TypeOK
    /\ \A r \in Replicas : Good(r, proc[r], lock, rows)
    /\ AppliedOnceInOrder

-----------------------------------------------------------------------------
(* Processes *)

Set(r, x) == proc' = [proc EXCEPT ![r] = x]

LEMMA BlankIsProc ==
    ASSUME NEW pc \in Pcs, NEW why \in Whys, NEW tried \in 0..ReadyTimeout
    PROVE  /\ Blank(pc, why, tried) \in Procs
           /\ Blank(pc, why, tried).pc = pc
           /\ Blank(pc, why, tried).why = why
           /\ Blank(pc, why, tried).done = {}
           /\ Blank(pc, why, tried).delay = FirstDelay
           /\ Blank(pc, why, tried).tried = tried
<1>1. 0 \in 0..ReadyTimeout /\ FirstDelay \in Nat
  BY StartAssumption
<1> QED
  BY <1>1 DEF Procs, Blank

LEMMA GoneIsProc ==
    ASSUME NEW p \in Procs, NEW why \in Whys
    PROVE  /\ Gone(p, why) \in Procs
           /\ Gone(p, why).pc = "exited"
           /\ Gone(p, why).why = why
           /\ Gone(p, why).done = {}
           /\ Gone(p, why).delay = FirstDelay
           /\ why = "deadline" => Gone(p, why).tried = p.tried
<1> DEFINE t == IF why = "deadline" THEN p.tried ELSE 0
<1>1. t \in 0..ReadyTimeout
  <2>1. p.tried \in 0..ReadyTimeout /\ 0 \in 0..ReadyTimeout
    BY StartAssumption DEF Procs
  <2> QED
    BY <2>1
<1>2. "exited" \in Pcs
  BY DEF Pcs
<1>3. Gone(p, why) = Blank("exited", why, t)
  BY DEF Gone
<1>4. why = "deadline" => t = p.tried
  OBVIOUS
<1> HIDE DEF t
<1> QED
  BY <1>1, <1>2, <1>3, <1>4, BlankIsProc

LEMMA GoneIsGood ==
    ASSUME NEW r \in Replicas, NEW p \in Procs, NEW why \in Whys \ {"duplicate"}, NEW L, NEW R,
           why = "deadline" => p.tried + MaxDelay >= ReadyTimeout
    PROVE  Good(r, Gone(p, why), L, R)
<1>1. /\ Gone(p, why).pc = "exited"
      /\ Gone(p, why).why = why
      /\ Gone(p, why).done = {}
      /\ Gone(p, why).delay = FirstDelay
      /\ why = "deadline" => Gone(p, why).tried = p.tried
  BY GoneIsProc
<1>2. Locked(r, Gone(p, why), L) /\ Unrecorded(r, Gone(p, why), R)
  BY <1>1 DEF Locked, Inside, Unrecorded
<1>3. Followed(r, Gone(p, why), R)
  BY <1>1 DEF Followed
<1>4. Patient(Gone(p, why))
  BY <1>1, StartAssumption DEF Patient
<1> QED
  BY <1>2, <1>3, <1>4 DEF Good

LEMMA GotoIsSet ==
    ASSUME TypeOK, NEW r \in Replicas, NEW pc \in Pcs, Goto(r, pc)
    PROVE  /\ Set(r, [proc[r] EXCEPT !.pc = pc])
           /\ [proc[r] EXCEPT !.pc = pc] \in Procs
BY DEF TypeOK, Goto, Set, Procs

\* A step of one process that does not run a script: what is true of the others
\* stays true of them.
LEMMA OneMoves ==
    ASSUME StartInv, NEW r \in Replicas, NEW x \in Procs, Set(r, x),
           UNCHANGED <<rows, effects>>,
           up' \in BOOLEAN, table' \in BOOLEAN, faults' \in 0..MaxFaults,
           boot' \in Replicas \cup {NoOne}, lock' \in Replicas \cup {NoOne},
           lock' = lock \/ lock \in {NoOne, r},
           Good(r, x, lock', rows)
    PROVE  StartInv'
<1>1. proc' \in [Replicas -> Procs] /\ proc'[r] = x
      /\ \A q \in Replicas \ {r} : proc'[q] = proc[q]
  BY DEF StartInv, TypeOK, Set
<1>2. TypeOK'
  BY <1>1 DEF StartInv, TypeOK
<1>3. ASSUME NEW q \in Replicas PROVE Good(q, proc'[q], lock', rows')
  <2>1. CASE q = r
    BY <1>1, <2>1
  <2>2. CASE q # r
    <3>1. Good(q, proc[q], lock, rows)
      BY DEF StartInv
    <3>2. Locked(q, proc[q], lock')
      BY <2>2, <3>1, StartAssumption DEF Good, Locked
    <3> QED
      BY <1>1, <2>2, <3>1, <3>2 DEF Good
  <2> QED
    BY <2>1, <2>2
<1>4. AppliedOnceInOrder'
  BY DEF StartInv, AppliedOnceInOrder
<1> QED
  BY <1>2, <1>3, <1>4 DEF StartInv

\* The same for a process that ends and lets its locks go.
LEMMA OneEnds ==
    ASSUME StartInv, NEW r \in Replicas, NEW why \in Whys \ {"duplicate"}, NEW p \in Procs,
           Set(r, Gone(p, why)),
           Free(r) \/ UNCHANGED <<boot, lock>>,
           UNCHANGED <<rows, effects>>,
           up' \in BOOLEAN, table' \in BOOLEAN, faults' \in 0..MaxFaults,
           why = "deadline" => p.tried + MaxDelay >= ReadyTimeout
    PROVE  StartInv'
<1>1. Gone(p, why) \in Procs
  BY GoneIsProc
<1>2. Good(r, Gone(p, why), lock', rows)
  BY GoneIsGood
<1>3. /\ boot' \in Replicas \cup {NoOne} /\ lock' \in Replicas \cup {NoOne}
      /\ lock' = lock \/ lock \in {NoOne, r}
  BY DEF Free, StartInv, TypeOK
<1> QED
  BY <1>1, <1>2, <1>3, OneMoves

LEMMA ExitInv ==
    ASSUME StartInv, NEW r \in Replicas, NEW why \in Whys \ {"duplicate", "deadline"},
           Exit(r, why),
           Free(r) \/ UNCHANGED <<boot, lock>>,
           UNCHANGED <<up, table, rows, effects>>,
           faults' \in 0..MaxFaults
    PROVE  StartInv'
<1>1. proc[r] \in Procs /\ up \in BOOLEAN /\ table \in BOOLEAN
  BY DEF StartInv, TypeOK
<1>2. Set(r, Gone(proc[r], why))
  BY DEF Exit, Set
<1> QED
  BY <1>1, <1>2, OneEnds

\* A new state of a process outside the lock, with the files it was through with.
LEMMA OutsideIsGood ==
    ASSUME StartInv, NEW r \in Replicas, NEW x \in Procs, NEW L,
           x.pc \notin Inside \cup {"serving"}, x.done = proc[r].done, Patient(x)
    PROVE  Good(r, x, L, rows)
<1>1. Followed(r, proc[r], rows)
  BY DEF StartInv, Good
<1>2. Followed(r, x, rows)
  BY <1>1 DEF Followed
<1> QED
  BY <1>2 DEF Good, Locked, Unrecorded, Inside

LEMMA PatientGoto ==
    ASSUME StartInv, NEW r \in Replicas, NEW pc \in Pcs \ {"wait"}, proc[r].pc # "exited"
    PROVE  Patient([proc[r] EXCEPT !.pc = pc])
<1>1. Patient(proc[r]) /\ proc[r] \in Procs
  BY DEF StartInv, Good, TypeOK
<1> QED
  BY <1>1 DEF Patient, Procs

-----------------------------------------------------------------------------
(* Files *)

LEMMA NextIsOne ==
    ASSUME TypeOK, NEW r \in Replicas, NEW f, NEW g, IsNext(r, f), IsNext(r, g)
    PROVE  f = g
<1>1. f \in Dir[r] /\ g \in Dir[r] /\ f.name <= g.name /\ g.name <= f.name
  BY DEF IsNext, Todo
<1>2. f \in Files /\ g \in Files
  BY <1>1, StartAssumption
<1>3. f.name \in Nat /\ g.name \in Nat
  BY <1>2, StartAssumption DEF Files
<1>4. f.name = g.name
  BY <1>1, <1>3
<1> QED
  BY <1>1, <1>4, StartAssumption

\* A file that comes before the next one has been looked at.
LEMMA EarlierIsDone ==
    ASSUME TypeOK, NEW r \in Replicas, NEW f, IsNext(r, f), NEW g \in Dir[r], g.name < f.name
    PROVE  g \in proc[r].done
<1>1. f \in Files /\ g \in Files
  BY StartAssumption DEF IsNext, Todo
<1>2. f.name \in Nat /\ g.name \in Nat
  BY <1>1, StartAssumption DEF Files
<1>3. ~(f.name <= g.name)
  BY <1>2
<1> QED
  BY <1>3 DEF IsNext, Todo

LEMMA FileFacts ==
    ASSUME NEW r \in Replicas, NEW f, IsNext(r, f)
    PROVE  f \in Dir[r] /\ f \in Files /\ f \notin proc[r].done /\ RowOf(f) \in Rows
<1>1. f \in Dir[r] /\ f \in Files /\ f \notin proc[r].done
  BY StartAssumption DEF IsNext, Todo
<1> QED
  BY <1>1 DEF RowOf, Rows, Files

\* One file further, and that file is recorded in R.
LEMMA OneFileFurther ==
    ASSUME StartInv, NEW r \in Replicas, NEW f, IsNext(r, f), NEW R, rows \subseteq R,
           RowOf(f) \in R, proc[r].pc # "exited"
    PROVE  LET x == [proc[r] EXCEPT !.pc = "next", !.done = proc[r].done \cup {f}]
           IN x \in Procs /\ \A L : Good(r, x, L, R)
<1> DEFINE x == [proc[r] EXCEPT !.pc = "next", !.done = proc[r].done \cup {f}]
<1>1. proc[r] \in Procs /\ Followed(r, proc[r], rows) /\ Patient(proc[r])
  BY DEF StartInv, Good, TypeOK
<1>2. f \in Dir[r] /\ f \in Files
  BY FileFacts
<1>3. /\ x \in Procs /\ x.pc = "next" /\ x.done = proc[r].done \cup {f}
      /\ x.delay = proc[r].delay /\ x.why = proc[r].why /\ x.tried = proc[r].tried
  BY <1>1, <1>2 DEF Procs, Pcs
<1> HIDE DEF x
<1>4. Followed(r, x, R)
  <2>1. x.done \subseteq Dir[r] /\ \A g \in x.done : RowOf(g) \in R
    BY <1>1, <1>2, <1>3 DEF Followed
  <2>2. ASSUME NEW g \in x.done, NEW h \in Dir[r], h.name < g.name PROVE h \in x.done
    <3>1. CASE g = f
      BY <1>3, <2>2, <3>1, EarlierIsDone DEF StartInv
    <3>2. CASE g \in proc[r].done
      BY <1>1, <1>3, <2>2, <3>2 DEF Followed
    <3> QED
      BY <1>3, <3>1, <3>2
  <2> QED
    BY <1>3, <2>1, <2>2 DEF Followed
<1>5. Patient(x)
  BY <1>1, <1>3 DEF Patient
<1>6. \A L : Locked(r, x, L) /\ Unrecorded(r, x, R)
  BY <1>3 DEF Locked, Inside, Unrecorded
<1> QED
  BY <1>3, <1>4, <1>5, <1>6 DEF Good, x

-----------------------------------------------------------------------------
(* waitForReady *)

LEMMA WaitTimes ==
    ASSUME TypeOK, NEW r \in Replicas
    PROVE  /\ proc[r].elapsed \in 0..ReadyTimeout /\ proc[r].delay \in Nat
           /\ proc[r].tried \in 0..ReadyTimeout
           /\ ReadyTimeout \in Nat /\ MaxDelay \in Nat
BY StartAssumption DEF TypeOK, Procs

LEMMA LaunchInv ==
    ASSUME StartInv, NEW r \in Replicas, Launch(r)
    PROVE  StartInv'
<1> DEFINE x == Blank("ping", "none", 0)
<1>1. x \in Procs /\ x.pc = "ping" /\ x.why = "none" /\ x.done = {} /\ x.delay = FirstDelay
  <2>1. "ping" \in Pcs /\ "none" \in Whys /\ 0 \in 0..ReadyTimeout
    BY StartAssumption DEF Pcs, Whys
  <2> QED
    BY <2>1, BlankIsProc
<1>2. Set(r, x)
  BY DEF Launch, Set
<1> HIDE DEF x
<1>3. Good(r, x, lock, rows)
  <2>1. Followed(r, x, rows)
    BY <1>1 DEF Followed
  <2>2. Patient(x)
    BY <1>1, StartAssumption DEF Patient
  <2> QED
    BY <1>1, <2>1, <2>2 DEF Good, Locked, Unrecorded, Inside
<1>4. faults' \in 0..MaxFaults
  BY StartAssumption DEF Launch, StartInv, TypeOK
<1>5. UNCHANGED <<up, table, rows, effects, boot, lock>>
  BY DEF Launch, Database
<1> QED
  BY <1>1, <1>2, <1>3, <1>4, <1>5, OneMoves DEF StartInv, TypeOK

\* A step of waitForReady that does not end the process.
LEMMA WaitInv ==
    ASSUME StartInv, NEW r \in Replicas, NEW x \in Procs, Set(r, x),
           x.pc \in {"ping", "wait", "boot"}, x.done = proc[r].done, x.why = proc[r].why,
           x.delay <= MaxDelay, x.pc = "wait" => x.tried = x.elapsed,
           proc[r].pc # "exited",
           UNCHANGED <<up, table, rows, effects, boot, lock, faults>>
    PROVE  StartInv'
<1>1. Patient(proc[r])
  BY DEF StartInv, Good
<1>2. Patient(x)
  BY <1>1 DEF Patient
<1>3. Good(r, x, lock, rows)
  BY <1>2, OutsideIsGood DEF Inside
<1> QED
  BY <1>3, OneMoves DEF StartInv, TypeOK

LEMMA PingOKInv ==
    ASSUME StartInv, NEW r \in Replicas, PingOK(r)
    PROVE  StartInv'
<1> DEFINE x == [proc[r] EXCEPT !.pc = "boot", !.elapsed = 0, !.tried = 0, !.delay = FirstDelay]
<1>1. proc[r] \in Procs /\ proc[r].pc = "ping"
  BY DEF StartInv, TypeOK, PingOK
<1>2. /\ x \in Procs /\ x.pc = "boot" /\ x.done = proc[r].done /\ x.delay = FirstDelay
      /\ x.why = proc[r].why
  <2>1. 0 \in 0..ReadyTimeout /\ FirstDelay \in Nat /\ "boot" \in Pcs
    BY StartAssumption DEF Pcs
  <2> QED
    BY <1>1, <2>1 DEF Procs
<1>3. Set(r, x)
  BY DEF PingOK, Set, StartInv, TypeOK
<1>4. UNCHANGED <<up, table, rows, effects, boot, lock, faults>>
  BY DEF PingOK, Database
<1> HIDE DEF x
<1> QED
  BY <1>1, <1>2, <1>3, <1>4, WaitInv, StartAssumption

LEMMA NowType ==
    ASSUME TypeOK, NEW r \in Replicas, NEW d \in 0..PingTimeout
    PROVE  Now(r, d) \in 0..ReadyTimeout
<1>1. proc[r].elapsed \in Nat /\ d \in Nat /\ ReadyTimeout \in Nat
  BY WaitTimes, StartAssumption
<1> QED
  BY <1>1 DEF Now, AtMost

LEMMA PingFailsInv ==
    ASSUME StartInv, NEW r \in Replicas, PingFails(r)
    PROVE  StartInv'
<1>1. PICK d \in 0..PingTimeout :
          proc' = [proc EXCEPT ![r] =
                     IF proc[r].sig
                     THEN Gone([proc[r] EXCEPT !.pc = "wait", !.elapsed = Now(r, d),
                                               !.tried = Now(r, d)], "signal")
                     ELSE IF Now(r, d) >= ReadyTimeout
                     THEN Gone([proc[r] EXCEPT !.pc = "wait", !.elapsed = Now(r, d),
                                               !.tried = Now(r, d)], "deadline")
                     ELSE [proc[r] EXCEPT !.pc = "wait", !.elapsed = Now(r, d),
                                          !.tried = Now(r, d)]]
  BY DEF PingFails
<1> DEFINE x == [proc[r] EXCEPT !.pc = "wait", !.elapsed = Now(r, d), !.tried = Now(r, d)]
<1>2. proc[r] \in Procs /\ Patient(proc[r]) /\ proc[r].pc = "ping"
  BY DEF StartInv, TypeOK, Good, PingFails
<1>3. Now(r, d) \in 0..ReadyTimeout
  BY NowType DEF StartInv
<1>4. /\ x \in Procs /\ x.pc = "wait" /\ x.done = proc[r].done /\ x.why = proc[r].why
      /\ x.delay = proc[r].delay /\ x.elapsed = Now(r, d) /\ x.tried = Now(r, d)
  BY <1>2, <1>3 DEF Procs, Pcs
<1>5. UNCHANGED <<up, table, rows, effects, boot, lock, faults>>
  BY DEF PingFails, Database
<1>6. \/ Set(r, Gone(x, "signal"))
      \/ Now(r, d) >= ReadyTimeout /\ Set(r, Gone(x, "deadline"))
      \/ Set(r, x)
  BY <1>1 DEF Set
<1> HIDE DEF x
<1>7. CASE Set(r, Gone(x, "signal"))
  BY <1>4, <1>5, <1>7, OneEnds DEF StartInv, TypeOK, Whys
<1>8. CASE Now(r, d) >= ReadyTimeout /\ Set(r, Gone(x, "deadline"))
  <2>1. x.tried + MaxDelay >= ReadyTimeout
    BY <1>3, <1>4, <1>8, StartAssumption
  <2> QED
    BY <1>4, <1>5, <1>8, <2>1, OneEnds DEF StartInv, TypeOK, Whys
<1>9. CASE Set(r, x)
  <2>1. x.delay <= MaxDelay
    BY <1>2, <1>4 DEF Patient
  <2> QED
    BY <1>2, <1>4, <1>5, <1>9, <2>1, WaitInv
<1> QED
  BY <1>6, <1>7, <1>8, <1>9

LEMMA RetryInv ==
    ASSUME StartInv, NEW r \in Replicas, Retry(r)
    PROVE  StartInv'
<1> DEFINE e == proc[r].elapsed + proc[r].delay
           n == NextDelay(r)
           x == [proc[r] EXCEPT !.pc = "ping", !.elapsed = e, !.delay = n]
<1>1. proc[r] \in Procs /\ proc[r].pc = "wait" /\ Patient(proc[r])
  BY DEF StartInv, TypeOK, Good, Retry
<1>2. e \in 0..ReadyTimeout
  BY WaitTimes DEF StartInv, Retry
<1>3. n \in Nat /\ n <= MaxDelay
  BY WaitTimes DEF StartInv, NextDelay, AtMost
<1>4. Set(r, x)
  BY DEF Retry, Set, StartInv, TypeOK
<1> HIDE DEF e, n
<1>5. /\ x \in Procs /\ x.pc = "ping" /\ x.done = proc[r].done /\ x.delay = n
      /\ x.why = proc[r].why
  BY <1>1, <1>2, <1>3 DEF Procs, Pcs
<1>6. UNCHANGED <<up, table, rows, effects, boot, lock, faults>>
  BY DEF Retry, Database
<1> HIDE DEF x
<1> QED
  BY <1>1, <1>3, <1>4, <1>5, <1>6, WaitInv

LEMMA GiveUpInv ==
    ASSUME StartInv, NEW r \in Replicas, GiveUp(r)
    PROVE  StartInv'
<1>1. proc[r] \in Procs /\ proc[r].pc = "wait" /\ Patient(proc[r])
  BY DEF StartInv, TypeOK, Good, GiveUp
<1>2. proc[r].tried + MaxDelay >= ReadyTimeout
  <2>1. proc[r].tried = proc[r].elapsed /\ proc[r].delay <= MaxDelay
    BY <1>1 DEF Patient
  <2>2. proc[r].elapsed + proc[r].delay >= ReadyTimeout
    BY DEF GiveUp
  <2> QED
    BY <2>1, <2>2, WaitTimes DEF StartInv
<1>3. Set(r, Gone(proc[r], "deadline"))
  BY DEF GiveUp, Exit, Set
<1>4. UNCHANGED <<up, table, rows, effects, boot, lock, faults>>
  BY DEF GiveUp, Database
<1> QED
  BY <1>1, <1>2, <1>3, <1>4, OneEnds DEF StartInv, TypeOK, Whys

-----------------------------------------------------------------------------
(* ensureMigrationsTable, applyMigration *)

\* A step to another program counter outside the lock.
LEMMA GotoInv ==
    ASSUME StartInv, NEW r \in Replicas, NEW pc \in {"table", "next"}, Goto(r, pc),
           proc[r].pc # "exited",
           UNCHANGED <<rows, effects, up, lock, faults>>,
           table' \in BOOLEAN, boot' \in Replicas \cup {NoOne}
    PROVE  StartInv'
<1> DEFINE x == [proc[r] EXCEPT !.pc = pc]
<1>1. proc[r] \in Procs /\ pc \in Pcs \ {"wait"}
  BY DEF StartInv, TypeOK, Pcs
<1>2. Set(r, x) /\ x \in Procs
  BY <1>1, GotoIsSet DEF StartInv
<1>3. x.pc = pc /\ x.done = proc[r].done
  BY <1>1 DEF Procs
<1>4. Patient(x)
  BY <1>1, PatientGoto
<1> HIDE DEF x
<1>5. Good(r, x, lock, rows)
  BY <1>2, <1>3, <1>4, OutsideIsGood DEF Inside
<1> QED
  BY <1>2, <1>5, OneMoves DEF StartInv, TypeOK

LEMMA TableInv ==
    ASSUME StartInv, NEW r \in Replicas, LockBoot(r) \/ CreateTable(r)
    PROVE  StartInv'
<1>1. CASE LockBoot(r)
  <2>1. /\ Goto(r, "table") /\ proc[r].pc # "exited" /\ boot' = r
        /\ UNCHANGED <<up, table, rows, effects, lock, faults>>
    BY <1>1 DEF LockBoot, Database
  <2> QED
    BY <2>1, GotoInv DEF StartInv, TypeOK
<1>2. CASE CreateTable(r)
  <2>1. /\ Goto(r, "next") /\ proc[r].pc # "exited" /\ boot' = NoOne /\ table' = TRUE
        /\ UNCHANGED <<up, rows, effects, lock, faults>>
    BY <1>2 DEF CreateTable
  <2> QED
    BY <2>1, GotoInv
<1> QED
  BY <1>1, <1>2

\* A step to another program counter under the lock.
LEMMA InsideInv ==
    ASSUME StartInv, NEW r \in Replicas, NEW pc \in Inside, Goto(r, pc),
           proc[r].pc # "exited",
           UNCHANGED <<rows, effects, up, table, boot, faults>>,
           lock' = r, lock \in {NoOne, r},
           pc \in {"apply", "commit"} =>
               \A f : IsNext(r, f) => \A i \in rows : i.version # f.version
    PROVE  StartInv'
<1> DEFINE x == [proc[r] EXCEPT !.pc = pc]
<1>1. proc[r] \in Procs /\ pc \in Pcs \ {"wait"}
  BY DEF StartInv, TypeOK, Pcs, Inside
<1>2. Set(r, x) /\ x \in Procs
  BY <1>1, GotoIsSet DEF StartInv
<1>3. x.pc = pc /\ x.done = proc[r].done
  BY <1>1 DEF Procs
<1>4. Patient(x)
  BY <1>1, PatientGoto
<1> HIDE DEF x
<1>5. Followed(r, x, rows)
  <2>1. Followed(r, proc[r], rows)
    BY DEF StartInv, Good
  <2> QED
    BY <1>3, <2>1 DEF Followed, Inside
<1>6. Unrecorded(r, x, rows)
  BY <1>3 DEF Unrecorded, IsNext, Todo
<1>7. Good(r, x, lock', rows)
  BY <1>4, <1>5, <1>6 DEF Good, Locked
<1> QED
  BY <1>2, <1>7, OneMoves DEF StartInv, TypeOK

LEMMA LockServiceInv ==
    ASSUME StartInv, NEW r \in Replicas, LockService(r)
    PROVE  StartInv'
<1>1. /\ Goto(r, "check") /\ proc[r].pc # "exited" /\ lock' = r /\ lock = NoOne
      /\ UNCHANGED <<up, table, rows, effects, boot, faults>>
  BY DEF LockService, Database
<1>2. "check" \in Inside /\ "check" \notin {"apply", "commit"}
  BY DEF Inside
<1> QED
  BY <1>1, <1>2, InsideInv

LEMMA HoldsLock ==
    ASSUME StartInv, NEW r \in Replicas, proc[r].pc \in Inside
    PROVE  lock = r
BY DEF StartInv, Good, Locked

LEMMA CheckAppliedInv ==
    ASSUME StartInv, NEW r \in Replicas, CheckApplied(r)
    PROVE  StartInv'
<1>1. PICK f \in Todo(r) : IsNext(r, f) /\ Compare(r, f)
  BY DEF CheckApplied
<1>2. /\ proc[r].pc = "check" /\ UNCHANGED <<up, table, rows, effects, faults>>
  BY DEF CheckApplied, Database
<1>3. lock = r
  BY <1>2, HoldsLock DEF Inside
<1>4. CASE RowOf(f) \in rows
  <2> DEFINE x == [proc[r] EXCEPT !.pc = "next", !.done = proc[r].done \cup {f}]
  <2>1. x \in Procs /\ \A L : Good(r, x, L, rows)
    BY <1>1, <1>2, <1>4, OneFileFurther
  <2>2. Set(r, x) /\ Free(r)
    BY <1>1, <1>4 DEF Compare, Passed, Set, StartInv, TypeOK
  <2>3. boot' \in Replicas \cup {NoOne} /\ lock' \in Replicas \cup {NoOne}
    BY <2>2 DEF Free, StartInv, TypeOK
  <2> HIDE DEF x
  <2> QED
    BY <1>2, <1>3, <2>1, <2>2, <2>3, OneMoves DEF StartInv, TypeOK
<1>5. CASE RowOf(f) \notin rows /\ \E i \in rows : i.version = f.version
  <2>1. Exit(r, "mismatch") /\ Free(r)
    BY <1>1, <1>5 DEF Compare
  <2> QED
    BY <1>2, <2>1, ExitInv DEF StartInv, TypeOK, Whys
<1>6. CASE RowOf(f) \notin rows /\ ~\E i \in rows : i.version = f.version
  <2>1. Goto(r, "apply") /\ UNCHANGED <<boot, lock>>
    BY <1>1, <1>6 DEF Compare
  <2>2. \A g : IsNext(r, g) => \A i \in rows : i.version # g.version
    BY <1>1, <1>6, NextIsOne DEF StartInv
  <2> QED
    BY <1>2, <1>3, <2>1, <2>2, InsideInv DEF Inside
<1> QED
  BY <1>4, <1>5, <1>6

\* What a replica under the lock is about to run is not recorded.
LEMMA NextIsUnrecorded ==
    ASSUME StartInv, NEW r \in Replicas, proc[r].pc \in {"apply", "commit"}, NEW f, IsNext(r, f)
    PROVE  \A i \in rows : i.version # f.version
<1>1. Unrecorded(r, proc[r], rows)
  BY DEF StartInv, Good
<1> QED
  BY <1>1 DEF Unrecorded, IsNext, Todo

LEMMA ApplyInv ==
    ASSUME StartInv, NEW r \in Replicas, Apply(r)
    PROVE  StartInv'
<1>1. PICK f \in Todo(r) :
          /\ IsNext(r, f)
          /\ IF \E i \in rows : i.version = f.version
             THEN Exit(r, "duplicate") /\ Free(r)
             ELSE Goto(r, "commit") /\ UNCHANGED <<boot, lock>>
  BY DEF Apply
<1>2. /\ proc[r].pc = "apply" /\ UNCHANGED <<up, table, rows, effects, faults>>
  BY DEF Apply, Database
<1>3. lock = r
  BY <1>2, HoldsLock DEF Inside
<1>4. Goto(r, "commit") /\ UNCHANGED <<boot, lock>>
  BY <1>1, <1>2, NextIsUnrecorded
<1>5. \A g : IsNext(r, g) => \A i \in rows : i.version # g.version
  BY <1>2, NextIsUnrecorded
<1> QED
  BY <1>2, <1>3, <1>4, <1>5, InsideInv DEF Inside

\* A script and its row are committed: one more version, after every earlier file.
LEMMA WrittenInv ==
    ASSUME StartInv, NEW r \in Replicas, NEW f, IsNext(r, f), proc[r].pc = "commit",
           Written(r, f)
    PROVE  AppliedOnceInOrder'
<1> DEFINE e == [file |-> f, by |-> r]
           n == Len(effects)
<1>1. f \in Files /\ f \in Dir[r]
  BY FileFacts
<1>2. effects \in Seq([file : Files, by : Replicas]) /\ AppliedOnceInOrder
  BY DEF StartInv, TypeOK
<1>3. effects' = Append(effects, e) /\ rows' = rows \cup {RowOf(f)}
  BY DEF Written
<1>4. n \in Nat /\ DOMAIN effects = 1..n
  BY <1>2
<1>5. /\ DOMAIN effects' = 1..(n + 1)
      /\ \A i \in 1..n : effects'[i] = effects[i]
      /\ effects'[n + 1] = e
  <2>1. e \in [file : Files, by : Replicas]
    BY <1>1
  <2>2. Len(effects') = n + 1 /\ effects' \in Seq([file : Files, by : Replicas])
    BY <1>2, <1>3, <2>1, AppendProperties
  <2>3. /\ \A i \in 1..n : effects'[i] = effects[i]
        /\ effects'[n + 1] = e
    BY <1>2, <1>3, <2>1, AppendProperties
  <2> QED
    BY <2>2, <2>3
<1>6. e.file = f /\ e.by = r
  OBVIOUS
<1> HIDE DEF e, n
<1>7. 1..(n + 1) = 1..n \cup {n + 1} /\ n + 1 \notin 1..n
  BY <1>4
<1>8. /\ rows = {RowOf(effects[i].file) : i \in 1..n}
      /\ \A i, j \in 1..n : effects[i].file.version = effects[j].file.version => i = j
      /\ \A i \in 1..n : \A g \in Dir[effects[i].by] :
            g.name < effects[i].file.name =>
                \E j \in 1..(i - 1) : RowOf(effects[j].file) = RowOf(g)
  BY <1>2, <1>4 DEF AppliedOnceInOrder
<1>9. rows' = {RowOf(effects'[i].file) : i \in 1..(n + 1)}
  BY <1>3, <1>5, <1>6, <1>7, <1>8
<1>10. \A i \in 1..n : effects[i].file.version # f.version
  <2>1. \A i \in rows : i.version # f.version
    BY NextIsUnrecorded
  <2>2. \A i \in 1..n : RowOf(effects[i].file) \in rows
    BY <1>8
  <2> QED
    BY <2>1, <2>2 DEF RowOf
<1>11. ASSUME NEW i \in 1..(n + 1), NEW j \in 1..(n + 1),
              effects'[i].file.version = effects'[j].file.version
       PROVE  i = j
  BY <1>5, <1>6, <1>7, <1>8, <1>10, <1>11
<1>12. ASSUME NEW i \in 1..(n + 1), NEW g \in Dir[effects'[i].by],
              g.name < effects'[i].file.name
       PROVE  \E j \in 1..(i - 1) : RowOf(effects'[j].file) = RowOf(g)
  <2>1. CASE i \in 1..n
    <3>1. PICK j \in 1..(i - 1) : RowOf(effects[j].file) = RowOf(g)
      BY <1>5, <1>8, <1>12, <2>1
    <3>2. j \in 1..n
      BY <1>4, <2>1
    <3> QED
      BY <1>5, <3>1, <3>2
  <2>2. CASE i = n + 1
    <3>1. g \in Dir[r] /\ g.name < f.name
      BY <1>5, <1>6, <1>12, <2>2
    <3>2. g \in proc[r].done
      BY <3>1, EarlierIsDone DEF StartInv
    <3>3. RowOf(g) \in rows
      BY <3>2 DEF StartInv, Good, Followed
    <3>4. PICK j \in 1..n : RowOf(g) = RowOf(effects[j].file)
      BY <1>8, <3>3
    <3>5. i - 1 = n
      BY <1>4, <2>2
    <3> QED
      BY <1>5, <3>4, <3>5
  <2> QED
    BY <1>7, <2>1, <2>2
<1> QED
  BY <1>5, <1>9, <1>11, <1>12 DEF AppliedOnceInOrder

\* What else a commit leaves as it must be; x is the state it leaves the process in.
LEMMA CommitInv ==
    ASSUME StartInv, NEW r \in Replicas, NEW f, IsNext(r, f), proc[r].pc = "commit",
           Written(r, f), NEW x \in Procs, Set(r, x), \A L : Good(r, x, L, rows \cup {RowOf(f)}),
           UNCHANGED <<up, faults>>
    PROVE  StartInv'
<1>1. AppliedOnceInOrder'
  BY WrittenInv
<1>2. lock = r
  BY HoldsLock DEF Inside
<1>3. proc' \in [Replicas -> Procs] /\ proc'[r] = x
      /\ \A q \in Replicas \ {r} : proc'[q] = proc[q]
  BY DEF StartInv, TypeOK, Set
<1>4. f \in Files /\ RowOf(f) \in Rows
  BY FileFacts
<1>5. TypeOK'
  <2>1. rows' \subseteq Rows
    BY <1>4 DEF Written, StartInv, TypeOK
  <2>2. effects' \in Seq([file : Files, by : Replicas])
    <3>1. [file |-> f, by |-> r] \in [file : Files, by : Replicas]
      BY <1>4
    <3>2. effects' = Append(effects, [file |-> f, by |-> r])
      BY DEF Written
    <3> QED
      BY <3>1, <3>2, AppendProperties DEF StartInv, TypeOK
  <2>3. boot' \in Replicas \cup {NoOne} /\ lock' \in Replicas \cup {NoOne}
    BY DEF Written, Free, StartInv, TypeOK
  <2> QED
    BY <1>3, <2>1, <2>2, <2>3 DEF Written, StartInv, TypeOK
<1>6. ASSUME NEW q \in Replicas PROVE Good(q, proc'[q], lock', rows')
  <2>1. rows' = rows \cup {RowOf(f)}
    BY DEF Written
  <2>2. CASE q = r
    BY <1>3, <2>1, <2>2
  <2>3. CASE q # r
    <3>1. Good(q, proc[q], lock, rows)
      BY DEF StartInv
    <3>2. proc[q].pc \notin Inside
      BY <1>2, <2>3, <3>1 DEF Good, Locked
    <3>3. Followed(q, proc[q], rows')
      BY <2>1, <3>1 DEF Good, Followed
    <3>4. Locked(q, proc[q], lock') /\ Unrecorded(q, proc[q], rows')
      BY <3>2 DEF Locked, Unrecorded, Inside
    <3>5. Good(q, proc[q], lock', rows')
      BY <3>1, <3>3, <3>4 DEF Good
    <3> QED
      BY <1>3, <2>3, <3>5
  <2> QED
    BY <2>2, <2>3
<1> QED
  BY <1>1, <1>5, <1>6 DEF StartInv

LEMMA CommittedInv ==
    ASSUME StartInv, NEW r \in Replicas, Commit(r) \/ CommitAnswerLost(r)
    PROVE  StartInv'
<1>1. CASE Commit(r)
  <2>1. PICK f \in Todo(r) :
            /\ IsNext(r, f)
            /\ Written(r, f)
            /\ proc' = [proc EXCEPT ![r].pc = "next", ![r].done = proc[r].done \cup {f}]
    BY <1>1 DEF Commit
  <2>2. proc[r].pc = "commit" /\ UNCHANGED <<up, faults>>
    BY <1>1 DEF Commit
  <2> DEFINE x == [proc[r] EXCEPT !.pc = "next", !.done = proc[r].done \cup {f}]
  <2>3. x \in Procs /\ \A L : Good(r, x, L, rows \cup {RowOf(f)})
    BY <2>1, <2>2, OneFileFurther
  <2>4. Set(r, x)
    BY <2>1 DEF Set, StartInv, TypeOK
  <2> HIDE DEF x
  <2> QED
    BY <2>1, <2>2, <2>3, <2>4, CommitInv
<1>2. CASE CommitAnswerLost(r)
  <2>1. PICK f \in Todo(r) : IsNext(r, f) /\ Written(r, f) /\ Exit(r, "error")
    BY <1>2 DEF CommitAnswerLost
  <2>2. proc[r].pc = "commit" /\ UNCHANGED <<up, faults>>
    BY <1>2 DEF CommitAnswerLost
  <2> DEFINE x == Gone(proc[r], "error")
  <2>3. proc[r] \in Procs /\ "error" \in Whys \ {"duplicate"}
    BY DEF StartInv, TypeOK, Whys
  <2>4. x \in Procs /\ \A L : Good(r, x, L, rows \cup {RowOf(f)})
    BY <2>3, GoneIsProc, GoneIsGood
  <2>5. Set(r, x)
    BY <2>1 DEF Exit, Set
  <2> HIDE DEF x
  <2> QED
    BY <2>1, <2>2, <2>4, <2>5, CommitInv
<1> QED
  BY <1>1, <1>2

LEMMA MigratedInv ==
    ASSUME StartInv, NEW r \in Replicas, Migrated(r)
    PROVE  StartInv'
<1> DEFINE x == [proc[r] EXCEPT !.pc = "serving"]
<1>1. proc[r] \in Procs /\ proc[r].pc = "next" /\ Followed(r, proc[r], rows)
  BY DEF StartInv, TypeOK, Good, Migrated
<1>2. "serving" \in Pcs \ {"wait"}
  BY DEF Pcs
<1>3. Set(r, x) /\ x \in Procs
  BY <1>2, GotoIsSet DEF StartInv, Migrated
<1>4. x.pc = "serving" /\ x.done = proc[r].done
  BY <1>1 DEF Procs
<1>5. Patient(x)
  BY <1>1, <1>2, PatientGoto
<1> HIDE DEF x
<1>6. Followed(r, x, rows)
  <2>1. x.done = Dir[r]
    BY <1>1, <1>4 DEF Migrated, Todo, Followed
  <2> QED
    BY <1>1, <1>4, <2>1 DEF Followed
<1>7. Good(r, x, lock, rows)
  BY <1>4, <1>5, <1>6 DEF Good, Locked, Unrecorded, Inside
<1>8. UNCHANGED <<up, table, rows, effects, boot, lock, faults>>
  BY DEF Migrated, Database
<1> QED
  BY <1>3, <1>7, <1>8, OneMoves DEF StartInv, TypeOK

-----------------------------------------------------------------------------
(* Signals, failures, ends *)

LEMMA EndInv ==
    ASSUME StartInv, NEW r \in Replicas,
           Cancelled(r) \/ Crash(r) \/ NoConnection(r) \/ Stops(r)
    PROVE  StartInv'
<1>1. {"signal", "error", "stopped", "failed"} \subseteq Whys \ {"duplicate", "deadline"}
  BY DEF Whys
<1>2. \E why \in {"signal", "error", "stopped", "failed"} : Exit(r, why)
  BY DEF Cancelled, Crash, NoConnection, Stops
<1>3. Free(r) \/ UNCHANGED <<boot, lock>>
  BY DEF Cancelled, Crash, NoConnection, Stops
<1>4. UNCHANGED <<up, table, rows, effects>>
  BY DEF Cancelled, Crash, NoConnection, Stops, Database
<1>5. faults' \in 0..MaxFaults
  <2>1. faults' = faults \/ (faults < MaxFaults /\ faults' = faults + 1)
    BY DEF Cancelled, Crash, NoConnection, Stops
  <2> QED
    BY <2>1, StartAssumption DEF StartInv, TypeOK
<1> QED
  BY <1>1, <1>2, <1>3, <1>4, <1>5, ExitInv

LEMMA SignalInv ==
    ASSUME StartInv, NEW r \in Replicas, Signal(r)
    PROVE  StartInv'
<1> DEFINE p == proc[r]
           x == [p EXCEPT !.sig = TRUE]
<1>1. p \in Procs /\ Good(r, p, lock, rows)
  BY DEF StartInv, TypeOK
<1>2. Set(r, x)
  BY DEF Signal, Set, StartInv, TypeOK
<1> HIDE DEF p
<1>3. /\ x \in Procs /\ x.pc = p.pc /\ x.done = p.done /\ x.delay = p.delay
      /\ x.elapsed = p.elapsed /\ x.tried = p.tried /\ x.why = p.why
  BY <1>1 DEF Procs
<1> HIDE DEF x
<1>4. Locked(r, x, lock) /\ Followed(r, x, rows)
  BY <1>1, <1>3 DEF Good, Locked, Followed
<1>5. Unrecorded(r, x, rows) /\ Patient(x)
  BY <1>1, <1>3 DEF Good, Unrecorded, Patient
<1>6. Good(r, x, lock, rows)
  BY <1>4, <1>5 DEF Good
<1>7. UNCHANGED <<up, table, rows, effects, boot, lock, faults>>
  BY DEF Signal, Database
<1> QED
  BY <1>2, <1>3, <1>6, <1>7, OneMoves DEF StartInv, TypeOK

LEMMA DownInv ==
    ASSUME StartInv, DatabaseDown
    PROVE  StartInv'
<1>1. /\ up' = FALSE /\ boot' = NoOne /\ lock' = NoOne /\ faults' = faults + 1
      /\ faults < MaxFaults /\ UNCHANGED <<table, rows, effects>>
  BY DEF DatabaseDown, Database
<1>2. ASSUME NEW q \in Replicas
      PROVE  proc'[q] = IF InTransaction(q) THEN Gone(proc[q], "error") ELSE proc[q]
  BY DEF DatabaseDown
<1>3. "error" \in Whys \ {"duplicate"}
  BY DEF Whys
<1>4. ASSUME NEW q \in Replicas PROVE proc'[q] \in Procs /\ Good(q, proc'[q], lock', rows')
  <2>1. proc[q] \in Procs /\ Good(q, proc[q], lock, rows)
    BY DEF StartInv, TypeOK
  <2>2. CASE InTransaction(q)
    BY <1>2, <1>3, <2>1, <2>2, GoneIsProc, GoneIsGood
  <2>3. CASE ~InTransaction(q)
    <3>1. Locked(q, proc[q], lock')
      BY <2>3 DEF InTransaction, Locked, Inside
    <3>2. Good(q, proc[q], lock', rows')
      BY <1>1, <2>1, <3>1 DEF Good
    <3> QED
      BY <1>2, <2>1, <2>3, <3>2
  <2> QED
    BY <2>2, <2>3
<1>5. proc' \in [Replicas -> Procs]
  <2>1. \A q \in Replicas :
            (IF InTransaction(q) THEN Gone(proc[q], "error") ELSE proc[q]) \in Procs
    BY <1>2, <1>4
  <2> QED
    BY <2>1 DEF DatabaseDown
<1>6. TypeOK'
  <2>1. faults' \in 0..MaxFaults
    BY <1>1, StartAssumption DEF StartInv, TypeOK
  <2> QED
    BY <1>1, <1>5, <2>1 DEF StartInv, TypeOK
<1>7. AppliedOnceInOrder'
  BY <1>1 DEF StartInv, AppliedOnceInOrder
<1> QED
  BY <1>4, <1>6, <1>7 DEF StartInv

LEMMA IdleInv ==
    ASSUME StartInv, UNCHANGED <<table, rows, effects, boot, lock, proc, faults>>,
           up' \in BOOLEAN
    PROVE  StartInv'
<1>1. TypeOK'
  BY DEF StartInv, TypeOK
<1>2. AppliedOnceInOrder'
  BY DEF StartInv, AppliedOnceInOrder
<1>3. \A r \in Replicas : Good(r, proc'[r], lock', rows')
  BY DEF StartInv
<1> QED
  BY <1>1, <1>2, <1>3 DEF StartInv

-----------------------------------------------------------------------------
(* The invariant *)

LEMMA InitInv == Init => StartInv
<1> SUFFICES ASSUME Init PROVE StartInv
  OBVIOUS
<1>1. Off \in Procs /\ Off.pc = "off" /\ Off.why = "none" /\ Off.done = {}
      /\ Off.delay = FirstDelay
  <2>1. "off" \in Pcs /\ "none" \in Whys /\ 0 \in 0..ReadyTimeout
    BY StartAssumption DEF Pcs, Whys
  <2> QED
    BY <2>1, BlankIsProc DEF Off
<1>2. TypeOK
  <2>1. effects \in Seq([file : Files, by : Replicas])
    BY DEF Init
  <2>2. proc \in [Replicas -> Procs]
    BY <1>1 DEF Init
  <2>3. faults \in 0..MaxFaults
    BY StartAssumption DEF Init
  <2> QED
    BY <2>1, <2>2, <2>3 DEF Init, TypeOK
<1>3. ASSUME NEW r \in Replicas PROVE Good(r, proc[r], lock, rows)
  <2>1. proc[r] = Off
    BY DEF Init
  <2>2. Followed(r, Off, rows)
    BY <1>1 DEF Followed
  <2>3. Patient(Off)
    BY <1>1, StartAssumption DEF Patient
  <2> QED
    BY <1>1, <2>1, <2>2, <2>3 DEF Good, Locked, Unrecorded, Inside
<1>4. AppliedOnceInOrder
  BY DEF Init, AppliedOnceInOrder
<1> QED
  BY <1>2, <1>3, <1>4 DEF StartInv

LEMMA NextInv == StartInv /\ [StartNext]_startVars => StartInv'
<1> SUFFICES ASSUME StartInv, [StartNext]_startVars PROVE StartInv'
  OBVIOUS
<1>1. ASSUME NEW r \in Replicas, StartStep(r) PROVE StartInv'
  <2>1. CASE PingOK(r) \/ PingFails(r) \/ Retry(r) \/ GiveUp(r)
    BY <2>1, PingOKInv, PingFailsInv, RetryInv, GiveUpInv
  <2>2. CASE LockBoot(r) \/ CreateTable(r) \/ LockService(r) \/ CheckApplied(r)
    BY <2>2, TableInv, LockServiceInv, CheckAppliedInv
  <2>3. CASE Apply(r) \/ Commit(r) \/ CommitAnswerLost(r) \/ Migrated(r)
    BY <2>3, ApplyInv, CommittedInv, MigratedInv
  <2>4. CASE Cancelled(r) \/ NoConnection(r)
    BY <2>4, EndInv
  <2> QED
    BY <1>1, <2>1, <2>2, <2>3, <2>4 DEF StartStep
<1>2. ASSUME NEW r \in Replicas, Launch(r) \/ Signal(r) \/ Crash(r) \/ Stops(r) PROVE StartInv'
  BY <1>2, LaunchInv, SignalInv, EndInv
<1>3. CASE DatabaseDown
  BY <1>3, DownInv
<1>4. CASE DatabaseUp
  BY <1>4, IdleInv DEF DatabaseUp, Database
<1>5. CASE UNCHANGED startVars
  BY <1>5, IdleInv DEF startVars, StartInv, TypeOK
<1> QED
  BY <1>1, <1>2, <1>3, <1>4, <1>5 DEF StartNext, StartEnv

\* The invariant above holds however the replicas start, fail and are stopped
\* (runner.go:48, open.go:57).
THEOREM StartInvariant == StartSpec => []StartInv
BY InitInv, NextInv, PTL DEF StartSpec

\* Variables stay in their types.
THEOREM TypeCorrect == StartSpec => []TypeOK
<1>1. StartInv => TypeOK
  BY DEF StartInv
<1> QED
  BY <1>1, StartInvariant, PTL

\* applyMigration (runner.go:145) commits a script together with its row, once per
\* version, after the earlier files of its directory.
THEOREM AlwaysAppliedOnceInOrder == StartSpec => []AppliedOnceInOrder
<1>1. StartInv => AppliedOnceInOrder
  BY DEF StartInv
<1> QED
  BY <1>1, StartInvariant, PTL

\* main starts its servers only after Run has found each file of its image recorded
\* with exactly its content (runner.go:48).
THEOREM AlwaysServesMigrated == StartSpec => []ServesMigrated
<1>1. StartInv => ServesMigrated
  BY DEF StartInv, Good, Followed, ServesMigrated
<1> QED
  BY <1>1, StartInvariant, PTL

\* Under the advisory lock (runner.go:153) the INSERT never meets another's row.
THEOREM StartRaceIsNeverAnError == StartSpec => []StartRaceIsNoError
<1>1. StartInv => StartRaceIsNoError
  BY DEF StartInv, Good, Patient, StartRaceIsNoError
<1> QED
  BY <1>1, StartInvariant, PTL

\* waitForReady (open.go:57) does not give up with room for another attempt left.
THEOREM AlwaysGaveUpLate == StartSpec => []GaveUpLate
<1>1. StartInv => GaveUpLate
  BY DEF StartInv, Good, Patient, GaveUpLate
<1> QED
  BY <1>1, StartInvariant, PTL

-----------------------------------------------------------------------------
(* The life of a service is a start of it *)

\* The servers leave the start alone, except that they end the process.
LEMMA ServerStepMaps ==
    ASSUME NEW r \in Replicas, ServerStep(r)
    PROVE  UNCHANGED startVars \/ Stops(r)
<1>1. Stay \/ Leave(r, "failed") \/ Leave(r, "stopped")
  <2>1. CASE MainStep(r)
    BY <2>1 DEF MainStep, HTTPStarts, HTTPEnds, GRPCStarts, SelectExit, SelectSignal,
                BudgetSpent, StopGRPC, CloseHTTP, CloseHTTPLate, Drain
  <2>2. CASE HTTPFails(r) \/ GRPCFails(r) \/ CallBegins(r) \/ CallEnds(r)
    BY <2>2 DEF HTTPFails, GRPCFails, CallBegins, CallEnds
  <2> QED
    BY <2>1, <2>2 DEF ServerStep
<1>2. proc[r].pc = "serving"
  BY DEF ServerStep, Serving
<1> QED
  BY <1>1, <1>2 DEF Stay, Leave, Stops

LEMMA LifeStepMaps == [LifeNext]_lifeVars => [StartNext]_startVars
<1> SUFFICES ASSUME [LifeNext]_lifeVars PROVE [StartNext]_startVars
  OBVIOUS
<1>1. CASE Before(StartEnv)
  BY <1>1 DEF Before, StartNext
<1>2. ASSUME NEW r \in Replicas, Before(StartStep(r)) PROVE [StartNext]_startVars
  BY <1>2 DEF Before, StartNext
<1>3. ASSUME NEW r \in Replicas, ServerStep(r) PROVE [StartNext]_startVars
  BY <1>3, ServerStepMaps DEF StartNext
<1>4. CASE UNCHANGED lifeVars
  BY <1>4 DEF lifeVars
<1> QED
  BY <1>1, <1>2, <1>3, <1>4 DEF LifeNext

\* What is proved of every start holds of every life: the servers of server.go add
\* nothing to the start but its end.
THEOREM LifeImplementsStart == LifeSpec => StartSpec
<1>1. LifeInit => Init
  BY DEF LifeInit
<1> QED
  BY <1>1, LifeStepMaps, PTL DEF LifeSpec, StartSpec

-----------------------------------------------------------------------------
(* The channel of results *)

HasError(q) == \E i \in DOMAIN q : q[i] = "error"

LEMMA AppendResult ==
    ASSUME NEW q \in Seq(Results), NEW e \in Results
    PROVE  /\ Append(q, e) \in Seq(Results)
           /\ Append(q, e) # <<>>
           /\ Len(Append(q, e)) = Len(q) + 1
           /\ HasError(Append(q, e)) <=> HasError(q) \/ e = "error"
<1> DEFINE a == Append(q, e)
           n == Len(q)
<1>1. n \in Nat /\ DOMAIN q = 1..n
  OBVIOUS
<1>2. /\ a \in Seq(Results) /\ Len(a) = n + 1 /\ a[n + 1] = e
      /\ \A i \in 1..n : a[i] = q[i]
  BY AppendProperties
<1>3. DOMAIN a = 1..(n + 1)
  BY <1>2
<1>4. a # <<>>
  BY <1>1, <1>2
<1> HIDE DEF a, n
<1>5. 1..(n + 1) = 1..n \cup {n + 1}
  BY <1>1
<1>6. HasError(a) <=> HasError(q) \/ e = "error"
  BY <1>1, <1>2, <1>3, <1>5 DEF HasError
<1> QED
  BY <1>2, <1>4, <1>6 DEF a, n

LEMMA TailResult ==
    ASSUME NEW q \in Seq(Results), q # <<>>
    PROVE  /\ Tail(q) \in Seq(Results)
           /\ Len(Tail(q)) = Len(q) - 1
           /\ Head(q) = "error" => HasError(q)
           /\ HasError(q) => Head(q) = "error" \/ HasError(Tail(q))
           /\ HasError(Tail(q)) => HasError(q)
           /\ Len(q) \in Nat /\ Len(q) >= 1
<1> DEFINE t == Tail(q)
           n == Len(q)
<1>1. n \in Nat /\ n >= 1 /\ DOMAIN q = 1..n /\ Head(q) = q[1]
  OBVIOUS
<1>2. t \in Seq(Results) /\ Len(t) = n - 1 /\ \A i \in 1..(n - 1) : t[i] = q[i + 1]
  BY HeadTailProperties
<1>3. DOMAIN t = 1..(n - 1)
  BY <1>2
<1> HIDE DEF t, n
<1>4. 1 \in 1..n /\ \A i \in 1..(n - 1) : i + 1 \in 1..n
  BY <1>1
<1>5. \A i \in 1..n : i = 1 \/ (i - 1 \in 1..(n - 1) /\ (i - 1) + 1 = i)
  BY <1>1
<1>6. HasError(t) => HasError(q)
  BY <1>1, <1>2, <1>3, <1>4 DEF HasError
<1>7. HasError(q) => q[1] = "error" \/ HasError(t)
  <2>1. ASSUME NEW i \in 1..n, q[i] = "error", i # 1 PROVE HasError(t)
    <3>1. i - 1 \in 1..(n - 1) /\ t[i - 1] = q[i]
      BY <1>2, <1>5, <2>1
    <3> QED
      BY <1>3, <2>1, <3>1 DEF HasError
  <2> QED
    BY <1>1, <2>1 DEF HasError
<1>8. q[1] = "error" => HasError(q)
  BY <1>1, <1>4 DEF HasError
<1> QED
  BY <1>1, <1>2, <1>6, <1>7, <1>8 DEF t, n

-----------------------------------------------------------------------------
(* The servers of one process *)

Left(x) == IF x = "ended" THEN 0 ELSE 1
Total(k) == IF k = "both" THEN 2 ELSE 1

\* The way a stop goes, of the servers s of a service of kind k.
Path(s, k) ==
    /\ s.main = "select" => ~s.onSignal
    /\ s.main = "stopping" => k = "both"
    /\ s.main = "drain" => s.onSignal
    /\ k = "http" => s.grpc = "ended"
    /\ s.main = "drain" \/ (s.main = "closing" /\ k = "both") => (s.busy => s.spent)

\* What an error in the channel means ...
Blame(s) ==
    /\ HasError(s.errs) => s.broke \/ s.refused
    /\ s.main = "select" /\ s.errs # <<>> => s.broke
    /\ s.main # "select" /\ ~s.onSignal => s.broke

\* ... and that none gets lost: until a stop that no signal began, every server has
\* its result in the channel, read, or still to come.
Counted(s, k) ==
    s.main = "select" \/ s.onSignal =>
        /\ s.broke => HasError(s.errs)
        /\ s.read + Len(s.errs) + Left(s.http) + Left(s.grpc) = Total(k)

Sound(s, k) == Path(s, k) /\ Blame(s) /\ Counted(s, k)

LifeInv ==
    /\ kind \in {"both", "http"}
    /\ srv \in [Replicas -> Servers]
    /\ \A r \in Replicas : Sound(srv[r], kind)
    /\ \A r \in Replicas : ~Serving(r) => srv[r] = Fresh

LEMMA EmptyResults == <<>> \in Seq(Results) /\ Len(<<>>) = 0 /\ ~HasError(<<>>)
BY DEF HasError

LEMMA FreshIsSound ==
    ASSUME kind \in {"both", "http"}
    PROVE  Fresh \in Servers /\ Sound(Fresh, kind)
<1>1. Fresh \in Servers
  BY EmptyResults DEF Fresh, Servers
<1>2. Path(Fresh, kind) /\ Blame(Fresh)
  BY EmptyResults DEF Path, Blame, Fresh
<1>3. Counted(Fresh, kind)
  BY EmptyResults DEF Counted, Left, Total, Fresh
<1> QED
  BY <1>1, <1>2, <1>3 DEF Sound

LEMMA ServerTypes ==
    ASSUME NEW s \in Servers
    PROVE  /\ s.http \in {"new", "serving", "ended"} /\ s.grpc \in {"new", "serving", "ended"}
           /\ s.errs \in Seq(Results) /\ Len(s.errs) \in Nat
           /\ s.main \in {"select", "stopping", "closing", "drain"}
           /\ s.read \in 0..1
           /\ s.onSignal \in BOOLEAN /\ s.busy \in BOOLEAN /\ s.spent \in BOOLEAN
           /\ s.broke \in BOOLEAN /\ s.refused \in BOOLEAN
<1>1. /\ s.http \in {"new", "serving", "ended"} /\ s.grpc \in {"new", "serving", "ended"}
      /\ s.errs \in Seq(Results)
      /\ s.main \in {"select", "stopping", "closing", "drain"}
      /\ s.read \in 0..1
  BY DEF Servers
<1>2. /\ s.onSignal \in BOOLEAN /\ s.busy \in BOOLEAN /\ s.spent \in BOOLEAN
      /\ s.broke \in BOOLEAN /\ s.refused \in BOOLEAN
  BY DEF Servers
<1> QED
  BY <1>1, <1>2

\* A server goroutine returns: its result e is in the channel.
Returned(s, x, e) ==
    /\ x.errs = Append(s.errs, e) /\ x.read = s.read /\ x.onSignal = s.onSignal
    /\ x.main = s.main \/ (s.main # "select" /\ x.main # "select")
    /\ \/ s.http # "ended" /\ x.http = "ended" /\ x.grpc = s.grpc
       \/ s.grpc # "ended" /\ x.grpc = "ended" /\ x.http = s.http
    /\ s.broke => x.broke
    /\ s.refused => x.refused
    /\ e = "error" => x.broke \/ x.refused
    /\ x.broke => s.broke \/ e = "error"
    /\ s.main = "select" => e = "error" /\ x.broke

LEMMA ResultSound ==
    ASSUME NEW k \in {"both", "http"}, NEW s \in Servers, Sound(s, k), NEW x \in Servers,
           NEW e \in Results, Returned(s, x, e), Path(x, k)
    PROVE  Sound(x, k)
<1> USE DEF Returned
<1>1. /\ Len(x.errs) = Len(s.errs) + 1 /\ x.errs # <<>>
      /\ HasError(x.errs) <=> HasError(s.errs) \/ e = "error"
      /\ Len(s.errs) \in Nat /\ s.read \in 0..1
  BY AppendResult, ServerTypes
<1>3. Blame(x)
  BY <1>1 DEF Sound, Blame
<1>4. Left(x.http) + Left(x.grpc) + 1 = Left(s.http) + Left(s.grpc)
  BY DEF Left
<1>5. Left(s.http) \in 0..1 /\ Left(s.grpc) \in 0..1 /\ Left(x.http) \in 0..1
      /\ Left(x.grpc) \in 0..1 /\ Total(k) \in Nat
  BY DEF Left, Total
<1>6. Counted(x, k)
  <2> SUFFICES ASSUME x.main = "select" \/ x.onSignal
               PROVE  /\ x.broke => HasError(x.errs)
                      /\ x.read + Len(x.errs) + Left(x.http) + Left(x.grpc) = Total(k)
    BY DEF Counted
  <2>1. /\ s.broke => HasError(s.errs)
        /\ s.read + Len(s.errs) + Left(s.http) + Left(s.grpc) = Total(k)
    BY DEF Sound, Counted
  <2>2. x.broke => HasError(x.errs)
    BY <1>1, <2>1
  <2>3. x.read + Len(x.errs) + Left(x.http) + Left(x.grpc) = Total(k)
    BY <1>1, <1>4, <1>5, <2>1
  <2> QED
    BY <2>2, <2>3
<1> QED
  BY <1>3, <1>6 DEF Sound

\* A step that takes nothing from the channel and puts nothing in.
LEMMA QuietSound ==
    ASSUME NEW k \in {"both", "http"}, NEW s \in Servers, Sound(s, k), NEW x \in Servers,
           x.errs = s.errs, x.read = s.read, x.broke = s.broke, x.refused = s.refused,
           Left(x.http) = Left(s.http), Left(x.grpc) = Left(s.grpc),
           x.grpc = "ended" <=> s.grpc = "ended",
           x.onSignal = s.onSignal \/ (s.main = "select" /\ x.onSignal),
           x.main = s.main \/ (x.main # "select" /\ (s.main = "select" => x.onSignal)),
           Path(x, k)
    PROVE  Sound(x, k)
<1>1. Blame(x)
  BY DEF Sound, Blame
<1>2. Counted(x, k)
  BY DEF Sound, Counted
<1> QED
  BY <1>1, <1>2 DEF Sound

LEMMA BecomesFrame ==
    ASSUME LifeInv, NEW r \in Replicas, NEW x, Becomes(r, x)
    PROVE  srv'[r] = x /\ \A q \in Replicas \ {r} : srv'[q] = srv[q]
BY DEF LifeInv, Becomes

\* A step of the servers of r after which it is still serving.
LEMMA ServerMoves ==
    ASSUME LifeInv, NEW r \in Replicas, Serving(r), NEW x \in Servers, Becomes(r, x), Stay,
           UNCHANGED kind, Sound(x, kind)
    PROVE  LifeInv'
<1>1. srv'[r] = x /\ \A q \in Replicas \ {r} : srv'[q] = srv[q]
  BY BecomesFrame
<1>2. srv' \in [Replicas -> Servers]
  BY DEF LifeInv, Becomes
<1>3. UNCHANGED <<proc, kind>> /\ Fresh' = Fresh
  BY DEF Stay, startVars, Fresh
<1>4. \A q \in Replicas : Sound(srv'[q], kind')
  BY <1>1, <1>3 DEF LifeInv
<1>5. \A q \in Replicas : ~Serving(q)' => srv'[q] = Fresh'
  BY <1>1, <1>3 DEF LifeInv, Serving
<1> QED
  BY <1>2, <1>3, <1>4, <1>5 DEF LifeInv

\* A step after which r is gone.
LEMMA ServerLeaves ==
    ASSUME StartInv, LifeInv, NEW r \in Replicas, NEW why \in Whys, Leave(r, why), UNCHANGED kind
    PROVE  LifeInv' /\ proc'[r].why = why
<1>1. srv'[r] = Fresh /\ \A q \in Replicas \ {r} : srv'[q] = srv[q]
  BY BecomesFrame DEF Leave
<1>2. Fresh \in Servers /\ Sound(Fresh, kind) /\ Fresh' = Fresh
  BY FreshIsSound DEF LifeInv, Fresh
<1>3. srv' \in [Replicas -> Servers]
  BY <1>2 DEF LifeInv, Leave, Becomes
<1>4. proc \in [Replicas -> Procs] /\ proc' = [proc EXCEPT ![r] = Gone(proc[r], why)]
  BY DEF StartInv, TypeOK, Leave, Exit
<1>5. proc'[r] = Gone(proc[r], why) /\ \A q \in Replicas \ {r} : proc'[q] = proc[q]
  BY <1>4
<1>6. proc'[r].why = why
  BY <1>4, <1>5, GoneIsProc
<1>7. \A q \in Replicas : Sound(srv'[q], kind')
  BY <1>1, <1>2 DEF LifeInv
<1>8. \A q \in Replicas : ~Serving(q)' => srv'[q] = Fresh'
  BY <1>1, <1>2, <1>5 DEF LifeInv, Serving
<1> QED
  BY <1>3, <1>6, <1>7, <1>8 DEF LifeInv

-----------------------------------------------------------------------------
(* Each step of the servers *)

\* What main may report of a process that ends.
EndsWell(r, why) ==
    /\ why = "stopped" => /\ srv[r].onSignal /\ ~srv[r].broke
                          /\ srv[r].busy => srv[r].spent
    /\ why = "failed" => srv[r].broke \/ srv[r].refused \/ (kind = "http" /\ srv[r].spent)

StepIsSound(r) ==
    /\ LifeInv'
    /\ proc'[r].pc = "exited" => EndsWell(r, proc'[r].why)

LEMMA LifeFacts ==
    ASSUME LifeInv, NEW r \in Replicas
    PROVE  srv[r] \in Servers /\ Sound(srv[r], kind) /\ kind \in {"both", "http"}
BY DEF LifeInv

LEMMA StaysSound ==
    ASSUME LifeInv, NEW r \in Replicas, Serving(r), NEW x \in Servers, Becomes(r, x), Stay,
           UNCHANGED kind, Sound(x, kind)
    PROVE  StepIsSound(r)
<1>1. LifeInv'
  BY ServerMoves
<1>2. proc'[r].pc = "serving"
  BY DEF Stay, startVars, Serving
<1> QED
  BY <1>1, <1>2 DEF StepIsSound

LEMMA LeavesSound ==
    ASSUME StartInv, LifeInv, NEW r \in Replicas, NEW why \in {"stopped", "failed"},
           Leave(r, why), UNCHANGED kind, EndsWell(r, why)
    PROVE  StepIsSound(r)
<1>1. why \in Whys
  BY DEF Whys
<1> QED
  BY <1>1, ServerLeaves DEF StepIsSound

\* Whichever way a server goroutine returns.
LEMMA ReturnSound ==
    ASSUME LifeInv, NEW r \in Replicas, Serving(r), Stay, UNCHANGED kind,
           NEW e \in Results, NEW x, Becomes(r, x),
           LET s == srv[r]
           IN \/ /\ s.http # "ended" /\ e = "nil" /\ s.main # "select"
                 /\ x = [s EXCEPT !.http = "ended", !.errs = Append(s.errs, e)]
              \/ /\ s.http # "ended" /\ e = "error"
                 /\ x = [s EXCEPT !.http = "ended", !.broke = TRUE, !.errs = Append(s.errs, e)]
              \/ /\ s.grpc # "ended" /\ e = "error" /\ s.main # "select"
                 /\ x = [s EXCEPT !.grpc = "ended", !.refused = TRUE, !.errs = Append(s.errs, e)]
              \/ /\ s.grpc # "ended" /\ e = "error"
                 /\ x = [s EXCEPT !.grpc = "ended", !.broke = TRUE, !.errs = Append(s.errs, e)]
              \/ /\ s.grpc # "ended" /\ e = "nil" /\ s.main = "stopping" /\ (s.busy => s.spent)
                 /\ x = [s EXCEPT !.main = "closing", !.grpc = "ended", !.errs = Append(s.errs, e)]
    PROVE  StepIsSound(r)
<1> DEFINE s == srv[r]
           a == Append(s.errs, e)
<1>1. s \in Servers /\ Sound(s, kind) /\ kind \in {"both", "http"}
  BY LifeFacts
<1>2. a \in Seq(Results)
  BY <1>1, ServerTypes, AppendResult
<1>3. \/ s.http # "ended" /\ e = "nil" /\ s.main # "select"
         /\ x = [s EXCEPT !.http = "ended", !.errs = a]
      \/ s.http # "ended" /\ e = "error"
         /\ x = [s EXCEPT !.http = "ended", !.broke = TRUE, !.errs = a]
      \/ s.grpc # "ended" /\ e = "error" /\ s.main # "select"
         /\ x = [s EXCEPT !.grpc = "ended", !.refused = TRUE, !.errs = a]
      \/ s.grpc # "ended" /\ e = "error"
         /\ x = [s EXCEPT !.grpc = "ended", !.broke = TRUE, !.errs = a]
      \/ s.grpc # "ended" /\ e = "nil" /\ s.main = "stopping" /\ (s.busy => s.spent)
         /\ x = [s EXCEPT !.main = "closing", !.grpc = "ended", !.errs = a]
  OBVIOUS
<1>4. a = Append(s.errs, e)
  OBVIOUS
<1> HIDE DEF s, a
<1>5. CASE s.http # "ended" /\ e = "nil" /\ s.main # "select"
            /\ x = [s EXCEPT !.http = "ended", !.errs = a]
  <2>1. /\ x \in Servers /\ x.http = "ended" /\ x.grpc = s.grpc /\ x.errs = a
        /\ x.read = s.read /\ x.main = s.main /\ x.onSignal = s.onSignal
        /\ x.busy = s.busy /\ x.spent = s.spent
        /\ x.broke = s.broke /\ x.refused = s.refused
    BY <1>1, <1>2, <1>5 DEF Servers
  <2>2. Path(x, kind)
    BY <1>1, <1>5, <2>1 DEF Sound, Path
  <2>3. Returned(s, x, e)
    BY <1>4, <1>5, <2>1 DEF Returned
  <2>4. Sound(x, kind)
    BY <1>1, <2>1, <2>2, <2>3, ResultSound
  <2> QED
    BY <2>1, <2>4, StaysSound
<1>6. CASE s.http # "ended" /\ e = "error"
            /\ x = [s EXCEPT !.http = "ended", !.broke = TRUE, !.errs = a]
  <2>1. /\ x \in Servers /\ x.http = "ended" /\ x.grpc = s.grpc /\ x.errs = a
        /\ x.read = s.read /\ x.main = s.main /\ x.onSignal = s.onSignal
        /\ x.busy = s.busy /\ x.spent = s.spent
        /\ x.broke = TRUE /\ x.refused = s.refused
    BY <1>1, <1>2, <1>6 DEF Servers
  <2>2. Path(x, kind)
    BY <1>1, <1>6, <2>1 DEF Sound, Path
  <2>3. Returned(s, x, e)
    BY <1>4, <1>6, <2>1 DEF Returned
  <2>4. Sound(x, kind)
    BY <1>1, <2>1, <2>2, <2>3, ResultSound
  <2> QED
    BY <2>1, <2>4, StaysSound
<1>7. CASE s.grpc # "ended" /\ e = "error" /\ s.main # "select"
            /\ x = [s EXCEPT !.grpc = "ended", !.refused = TRUE, !.errs = a]
  <2>1. /\ x \in Servers /\ x.http = s.http /\ x.grpc = "ended" /\ x.errs = a
        /\ x.read = s.read /\ x.main = s.main /\ x.onSignal = s.onSignal
        /\ x.busy = s.busy /\ x.spent = s.spent
        /\ x.broke = s.broke /\ x.refused = TRUE
    BY <1>1, <1>2, <1>7 DEF Servers
  <2>2. Path(x, kind)
    BY <1>1, <1>7, <2>1 DEF Sound, Path
  <2>3. Returned(s, x, e)
    BY <1>4, <1>7, <2>1 DEF Returned
  <2>4. Sound(x, kind)
    BY <1>1, <2>1, <2>2, <2>3, ResultSound
  <2> QED
    BY <2>1, <2>4, StaysSound
<1>8. CASE s.grpc # "ended" /\ e = "error"
            /\ x = [s EXCEPT !.grpc = "ended", !.broke = TRUE, !.errs = a]
  <2>1. /\ x \in Servers /\ x.http = s.http /\ x.grpc = "ended" /\ x.errs = a
        /\ x.read = s.read /\ x.main = s.main /\ x.onSignal = s.onSignal
        /\ x.busy = s.busy /\ x.spent = s.spent
        /\ x.broke = TRUE /\ x.refused = s.refused
    BY <1>1, <1>2, <1>8 DEF Servers
  <2>2. Path(x, kind)
    BY <1>1, <1>8, <2>1 DEF Sound, Path
  <2>3. Returned(s, x, e)
    BY <1>4, <1>8, <2>1 DEF Returned
  <2>4. Sound(x, kind)
    BY <1>1, <2>1, <2>2, <2>3, ResultSound
  <2> QED
    BY <2>1, <2>4, StaysSound
<1>9. CASE s.grpc # "ended" /\ e = "nil" /\ s.main = "stopping" /\ (s.busy => s.spent)
            /\ x = [s EXCEPT !.main = "closing", !.grpc = "ended", !.errs = a]
  <2>1. /\ x \in Servers /\ x.http = s.http /\ x.grpc = "ended" /\ x.errs = a
        /\ x.read = s.read /\ x.main = "closing" /\ x.onSignal = s.onSignal
        /\ x.busy = s.busy /\ x.spent = s.spent
        /\ x.broke = s.broke /\ x.refused = s.refused
    BY <1>1, <1>2, <1>9 DEF Servers
  <2>2. Path(x, kind)
    BY <1>1, <1>9, <2>1 DEF Sound, Path
  <2>3. Returned(s, x, e)
    BY <1>4, <1>9, <2>1 DEF Returned
  <2>4. Sound(x, kind)
    BY <1>1, <2>1, <2>2, <2>3, ResultSound
  <2> QED
    BY <2>1, <2>4, StaysSound
<1> QED
  BY <1>3, <1>5, <1>6, <1>7, <1>8, <1>9

\* Whatever else happens beside the channel.
LEMMA BesideSound ==
    ASSUME LifeInv, NEW r \in Replicas, Serving(r), Stay, UNCHANGED kind,
           NEW x, Becomes(r, x),
           LET s == srv[r]
           IN \/ s.http # "ended" /\ x = [s EXCEPT !.http = "serving"]
              \/ s.grpc # "ended" /\ x = [s EXCEPT !.grpc = "serving"]
              \/ s.main = "select" /\ x = [s EXCEPT !.busy = TRUE]
              \/ x = [s EXCEPT !.busy = FALSE]
              \/ x = [s EXCEPT !.spent = TRUE]
              \/ /\ s.main = "select"
                 /\ x = [s EXCEPT !.onSignal = TRUE,
                                  !.main = IF kind = "both" THEN "stopping" ELSE "closing"]
              \/ /\ s.main = "stopping" /\ (s.busy => s.spent)
                 /\ x = [s EXCEPT !.main = "closing"]
              \/ /\ s.main = "closing" /\ s.onSignal /\ (kind = "http" => ~s.busy)
                 /\ x = [s EXCEPT !.main = "drain"]
    PROVE  StepIsSound(r)
<1> DEFINE s == srv[r]
           m == IF kind = "both" THEN "stopping" ELSE "closing"
<1>1. s \in Servers /\ Sound(s, kind) /\ kind \in {"both", "http"} /\ Path(s, kind)
  BY LifeFacts DEF Sound
<1>2. m \in {"stopping", "closing"} /\ (m = "stopping" <=> kind = "both")
  BY <1>1
<1> HIDE DEF m
<1>3. ASSUME x = [s EXCEPT !.http = "serving"] \/ x = [s EXCEPT !.grpc = "serving"],
             x.http = "serving" => s.http # "ended", x.grpc = "serving" => s.grpc # "ended"
      PROVE  StepIsSound(r)
  <2> HIDE DEF s
  <2>1. /\ x \in Servers
        /\ x.errs = s.errs /\ x.read = s.read /\ x.broke = s.broke /\ x.refused = s.refused
        /\ x.onSignal = s.onSignal /\ x.main = s.main /\ x.busy = s.busy /\ x.spent = s.spent
    BY <1>1, <1>3 DEF Servers
  <2>2. /\ x.http = s.http \/ x.http = "serving"
        /\ x.grpc = s.grpc \/ x.grpc = "serving"
    BY <1>1, <1>3 DEF Servers
  <2>3. Left(x.http) = Left(s.http) /\ Left(x.grpc) = Left(s.grpc)
    BY <1>3, <2>2 DEF Left
  <2>4. x.grpc = "ended" <=> s.grpc = "ended"
    BY <1>3, <2>2
  <2>5. Path(x, kind)
    BY <1>1, <2>1, <2>4 DEF Path
  <2>6. Sound(x, kind)
    BY <1>1, <2>1, <2>3, <2>4, <2>5, QuietSound
  <2> QED
    BY <2>1, <2>6, StaysSound
<1>4. ASSUME x \in Servers, x.http = s.http, x.grpc = s.grpc,
             x.errs = s.errs, x.read = s.read, x.broke = s.broke, x.refused = s.refused,
             x.onSignal = s.onSignal \/ (s.main = "select" /\ x.onSignal),
             x.main = s.main \/ (x.main # "select" /\ (s.main = "select" => x.onSignal)),
             Path(x, kind)
      PROVE  StepIsSound(r)
  <2>1. Sound(x, kind)
    BY <1>1, <1>4, QuietSound
  <2> QED
    BY <1>4, <2>1, StaysSound
<1>5. \/ s.http # "ended" /\ x = [s EXCEPT !.http = "serving"]
      \/ s.grpc # "ended" /\ x = [s EXCEPT !.grpc = "serving"]
      \/ s.main = "select" /\ x = [s EXCEPT !.busy = TRUE]
      \/ x = [s EXCEPT !.busy = FALSE]
      \/ x = [s EXCEPT !.spent = TRUE]
      \/ s.main = "select" /\ x = [s EXCEPT !.onSignal = TRUE, !.main = m]
      \/ s.main = "stopping" /\ (s.busy => s.spent) /\ x = [s EXCEPT !.main = "closing"]
      \/ s.main = "closing" /\ s.onSignal /\ (kind = "http" => ~s.busy)
         /\ x = [s EXCEPT !.main = "drain"]
  BY DEF m
<1> HIDE DEF s
<1>6. CASE s.http # "ended" /\ x = [s EXCEPT !.http = "serving"]
  <2>1. x.grpc = s.grpc
    BY <1>1, <1>6 DEF Servers
  <2> QED
    BY <1>3, <1>6, <2>1
<1>7. CASE s.grpc # "ended" /\ x = [s EXCEPT !.grpc = "serving"]
  <2>1. x.http = s.http
    BY <1>1, <1>7 DEF Servers
  <2> QED
    BY <1>3, <1>7, <2>1
<1>8. CASE s.main = "select" /\ x = [s EXCEPT !.busy = TRUE]
  <2>1. /\ x \in Servers /\ x.http = s.http /\ x.grpc = s.grpc
        /\ x.errs = s.errs /\ x.read = s.read /\ x.broke = s.broke /\ x.refused = s.refused
        /\ x.onSignal = s.onSignal /\ x.main = s.main /\ x.busy = TRUE /\ x.spent = s.spent
    BY <1>1, <1>8 DEF Servers
  <2>2. Path(x, kind)
    BY <1>1, <1>8, <2>1 DEF Path
  <2> QED
    BY <1>4, <2>1, <2>2
<1>12. CASE x = [s EXCEPT !.busy = FALSE]
  <2>1. /\ x \in Servers /\ x.http = s.http /\ x.grpc = s.grpc
        /\ x.errs = s.errs /\ x.read = s.read /\ x.broke = s.broke /\ x.refused = s.refused
        /\ x.onSignal = s.onSignal /\ x.main = s.main /\ x.busy = FALSE /\ x.spent = s.spent
    BY <1>1, <1>12 DEF Servers
  <2>2. Path(x, kind)
    BY <1>1, <1>12, <2>1 DEF Path
  <2> QED
    BY <1>4, <2>1, <2>2
<1>13. CASE x = [s EXCEPT !.spent = TRUE]
  <2>1. /\ x \in Servers /\ x.http = s.http /\ x.grpc = s.grpc
        /\ x.errs = s.errs /\ x.read = s.read /\ x.broke = s.broke /\ x.refused = s.refused
        /\ x.onSignal = s.onSignal /\ x.main = s.main /\ x.busy = s.busy /\ x.spent = TRUE
    BY <1>1, <1>13 DEF Servers
  <2>2. Path(x, kind)
    BY <1>1, <1>13, <2>1 DEF Path
  <2> QED
    BY <1>4, <2>1, <2>2
<1>9. CASE s.main = "select" /\ x = [s EXCEPT !.onSignal = TRUE, !.main = m]
  <2>1. /\ x \in Servers /\ x.http = s.http /\ x.grpc = s.grpc
        /\ x.errs = s.errs /\ x.read = s.read /\ x.broke = s.broke /\ x.refused = s.refused
        /\ x.onSignal = TRUE /\ x.main = m
    BY <1>1, <1>2, <1>9 DEF Servers
  <2>2. Path(x, kind)
    BY <1>1, <1>2, <2>1 DEF Path
  <2> QED
    BY <1>2, <1>4, <1>9, <2>1, <2>2
<1>10. CASE s.main = "stopping" /\ (s.busy => s.spent) /\ x = [s EXCEPT !.main = "closing"]
  <2>1. /\ x \in Servers /\ x.http = s.http /\ x.grpc = s.grpc
        /\ x.errs = s.errs /\ x.read = s.read /\ x.broke = s.broke /\ x.refused = s.refused
        /\ x.onSignal = s.onSignal /\ x.main = "closing" /\ x.busy = s.busy /\ x.spent = s.spent
    BY <1>1, <1>10 DEF Servers
  <2>2. Path(x, kind)
    BY <1>1, <1>10, <2>1 DEF Path
  <2> QED
    BY <1>4, <1>10, <2>1, <2>2
<1>11. CASE s.main = "closing" /\ s.onSignal /\ (kind = "http" => ~s.busy)
            /\ x = [s EXCEPT !.main = "drain"]
  <2>1. /\ x \in Servers /\ x.http = s.http /\ x.grpc = s.grpc
        /\ x.errs = s.errs /\ x.read = s.read /\ x.broke = s.broke /\ x.refused = s.refused
        /\ x.onSignal = s.onSignal /\ x.main = "drain" /\ x.busy = s.busy /\ x.spent = s.spent
    BY <1>1, <1>11 DEF Servers
  <2>2. Path(x, kind)
    BY <1>1, <1>11, <2>1 DEF Path
  <2> QED
    BY <1>4, <1>11, <2>1, <2>2
<1> QED
  BY <1>5, <1>6, <1>7, <1>8, <1>9, <1>10, <1>11, <1>12, <1>13

\* A result in the channel is taken out.
LEMMA TakeSound ==
    ASSUME LifeInv, NEW r \in Replicas, Serving(r), Stay, UNCHANGED kind,
           kind = "both", srv[r].errs # <<>>, NEW x, Becomes(r, x),
           LET s == srv[r]
           IN \/ /\ s.main = "select"
                 /\ x = [s EXCEPT !.main = "stopping", !.errs = Tail(s.errs)]
              \/ /\ s.main = "drain" /\ s.read # 1 /\ Head(s.errs) # "error"
                 /\ x = [s EXCEPT !.read = 1, !.errs = Tail(s.errs)]
    PROVE  StepIsSound(r)
<1> DEFINE s == srv[r]
           t == Tail(s.errs)
<1>1. s \in Servers /\ Sound(s, kind) /\ kind \in {"both", "http"}
  BY LifeFacts
<1>2. /\ t \in Seq(Results) /\ Len(t) = Len(s.errs) - 1
      /\ HasError(s.errs) => Head(s.errs) = "error" \/ HasError(t)
      /\ HasError(t) => HasError(s.errs)
      /\ Len(s.errs) \in Nat
  BY <1>1, ServerTypes, TailResult
<1>3. \/ /\ s.main = "select"
         /\ x = [s EXCEPT !.main = "stopping", !.errs = t]
      \/ /\ s.main = "drain" /\ s.read # 1 /\ Head(s.errs) # "error"
         /\ x = [s EXCEPT !.read = 1, !.errs = t]
  OBVIOUS
<1>4. s.errs # <<>>
  OBVIOUS
<1> HIDE DEF s, t
<1>5. CASE s.main = "select" /\ x = [s EXCEPT !.main = "stopping", !.errs = t]
  <2>1. /\ x \in Servers /\ x.http = s.http /\ x.grpc = s.grpc /\ x.errs = t
        /\ x.main = "stopping" /\ x.onSignal = s.onSignal
        /\ x.broke = s.broke /\ x.refused = s.refused
    BY <1>1, <1>2, <1>5 DEF Servers
  <2>2. Path(x, kind) /\ ~x.onSignal
    BY <1>1, <1>5, <2>1 DEF Sound, Path
  <2>3. Blame(x)
    BY <1>1, <1>2, <1>4, <1>5, <2>1 DEF Sound, Blame
  <2>4. Counted(x, kind)
    BY <2>1, <2>2 DEF Counted
  <2> QED
    BY <2>1, <2>2, <2>3, <2>4, StaysSound DEF Sound
<1>6. CASE s.main = "drain" /\ s.read # 1 /\ Head(s.errs) # "error"
           /\ x = [s EXCEPT !.read = 1, !.errs = t]
  <2>1. /\ x \in Servers /\ x.http = s.http /\ x.grpc = s.grpc /\ x.errs = t /\ x.read = 1
        /\ x.main = s.main /\ x.onSignal = s.onSignal /\ x.busy = s.busy /\ x.spent = s.spent
        /\ x.broke = s.broke /\ x.refused = s.refused
    <3>1. 1 \in 0..1
      OBVIOUS
    <3> QED
      BY <1>1, <1>2, <1>6, <3>1 DEF Servers
  <2>2. Path(x, kind)
    BY <1>1, <1>6, <2>1 DEF Sound, Path
  <2>3. Blame(x)
    BY <1>1, <1>2, <1>6, <2>1 DEF Sound, Blame
  <2>4. Counted(x, kind)
    <3>1. s.onSignal /\ s.read = 0
      BY <1>1, <1>6, ServerTypes DEF Sound, Path
    <3>2. /\ s.broke => HasError(s.errs)
          /\ s.read + Len(s.errs) + Left(s.http) + Left(s.grpc) = Total(kind)
      BY <1>1, <3>1 DEF Sound, Counted
    <3>3. Left(s.http) \in 0..1 /\ Left(s.grpc) \in 0..1 /\ Total(kind) \in Nat
      BY DEF Left, Total
    <3>4. x.read + Len(x.errs) + Left(x.http) + Left(x.grpc) = Total(kind)
      BY <1>2, <2>1, <3>1, <3>2, <3>3
    <3>5. x.broke => HasError(x.errs)
      BY <1>2, <1>6, <2>1, <3>2
    <3> QED
      BY <3>4, <3>5 DEF Counted
  <2> QED
    BY <2>1, <2>2, <2>3, <2>4, StaysSound DEF Sound
<1> QED
  BY <1>3, <1>5, <1>6

\* Success is reported only if no server failed: its error would be the last result.
LEMMA LastResult ==
    ASSUME LifeInv, NEW r \in Replicas, srv[r].main = "drain", srv[r].errs # <<>>,
           Head(srv[r].errs) # "error", kind = "http" \/ srv[r].read = 1
    PROVE  ~srv[r].broke
<1> DEFINE s == srv[r]
           q == s.errs
<1>1. s \in Servers /\ Sound(s, kind) /\ kind \in {"both", "http"} /\ q \in Seq(Results)
  BY LifeFacts, ServerTypes
<1>2. s.onSignal /\ (kind = "http" => Left(s.grpc) = 0)
  BY <1>1 DEF Sound, Path, Left
<1>3. /\ s.broke => HasError(q)
      /\ s.read + Len(q) + Left(s.http) + Left(s.grpc) = Total(kind)
  BY <1>1, <1>2 DEF Sound, Counted
<1>4. /\ Tail(q) \in Seq(Results)
      /\ Len(Tail(q)) = Len(q) - 1
      /\ HasError(q) => HasError(Tail(q))
      /\ Len(q) \in Nat
  BY <1>1, TailResult
<1>5. Len(q) <= 1
  <2>1. Left(s.http) \in 0..1 /\ Left(s.grpc) \in 0..1 /\ s.read \in 0..1
    BY <1>1, ServerTypes DEF Left
  <2>2. Total(kind) = 1 \/ (Total(kind) = 2 /\ s.read = 1)
    BY <1>1 DEF Total
  <2> QED
    BY <1>3, <1>4, <2>1, <2>2
<1> HIDE DEF q
<1>6. DOMAIN Tail(q) = {}
  <2>1. Len(Tail(q)) <= 0 /\ DOMAIN Tail(q) = 1..Len(Tail(q)) /\ Len(Tail(q)) \in Nat
    BY <1>4, <1>5
  <2> QED
    BY <2>1
<1>7. ~HasError(Tail(q))
  BY <1>6 DEF HasError
<1> QED
  BY <1>3, <1>4, <1>7

LEMMA MainStepSound ==
    ASSUME StartInv, LifeInv, NEW r \in Replicas, Serving(r), MainStep(r), UNCHANGED kind
    PROVE  StepIsSound(r)
<1> DEFINE s == srv[r]
<1>1. s \in Servers /\ Sound(s, kind) /\ kind \in {"both", "http"} /\ Path(s, kind) /\ Blame(s)
  BY LifeFacts DEF Sound
<1>2. "nil" \in Results /\ "error" \in Results
  BY DEF Results
<1>3. CASE HTTPStarts(r)
  <2>1. CASE HTTPOpen(r)
    <3>1. Becomes(r, [s EXCEPT !.http = "serving"]) /\ Stay /\ s.http # "ended"
      BY <1>3, <2>1 DEF HTTPStarts
    <3> QED
      BY <3>1, BesideSound
  <2>2. CASE ~HTTPOpen(r)
    <3>1. /\ Becomes(r, [s EXCEPT !.http = "ended", !.errs = Append(s.errs, "nil")])
          /\ Stay /\ s.http # "ended" /\ s.main # "select"
      BY <1>3, <2>2 DEF HTTPStarts, HTTPClosed, HTTPOpen
    <3> QED
      BY <1>2, <3>1, ReturnSound
  <2> QED
    BY <2>1, <2>2
<1>4. CASE HTTPEnds(r)
  <2>1. /\ Becomes(r, [s EXCEPT !.http = "ended", !.errs = Append(s.errs, "nil")])
        /\ Stay /\ s.http # "ended" /\ s.main # "select"
    BY <1>4 DEF HTTPEnds, HTTPClosed, HTTPOpen
  <2> QED
    BY <1>2, <2>1, ReturnSound
<1>5. CASE GRPCStarts(r)
  <2>1. Stay /\ s.grpc # "ended"
    BY <1>5 DEF GRPCStarts
  <2>2. \/ Becomes(r, [s EXCEPT !.grpc = "serving"])
        \/ /\ s.main # "select"
           /\ Becomes(r, [s EXCEPT !.grpc = "ended", !.refused = TRUE,
                                   !.errs = Append(s.errs, "error")])
    BY <1>5 DEF GRPCStarts
  <2>3. CASE Becomes(r, [s EXCEPT !.grpc = "serving"])
    BY <2>1, <2>3, BesideSound
  <2>4. CASE /\ s.main # "select"
             /\ Becomes(r, [s EXCEPT !.grpc = "ended", !.refused = TRUE,
                                     !.errs = Append(s.errs, "error")])
    BY <1>2, <2>1, <2>4, ReturnSound
  <2> QED
    BY <2>2, <2>3, <2>4
<1>6. CASE SelectExit(r)
  <2>1. s.main = "select" /\ s.errs # <<>> /\ s.broke
    BY <1>1, <1>6 DEF SelectExit, Blame
  <2>2. CASE kind = "both"
    <3>1. Becomes(r, [s EXCEPT !.main = "stopping", !.errs = Tail(s.errs)]) /\ Stay
      BY <1>6, <2>2 DEF SelectExit
    <3> QED
      BY <2>1, <2>2, <3>1, TakeSound
  <2>3. CASE kind # "both"
    <3>1. Leave(r, "failed")
      BY <1>6, <2>3 DEF SelectExit
    <3> QED
      BY <2>1, <3>1, LeavesSound DEF EndsWell
  <2> QED
    BY <2>2, <2>3
<1>7. CASE SelectSignal(r)
  <2>1. /\ Becomes(r, [s EXCEPT !.onSignal = TRUE,
                                !.main = IF kind = "both" THEN "stopping" ELSE "closing"])
        /\ Stay /\ s.main = "select"
    BY <1>7 DEF SelectSignal
  <2> QED
    BY <2>1, BesideSound
<1>8. CASE BudgetSpent(r)
  <2>1. Becomes(r, [s EXCEPT !.spent = TRUE]) /\ Stay
    BY <1>8 DEF BudgetSpent
  <2> QED
    BY <2>1, BesideSound
<1>9. CASE StopGRPC(r)
  <2>1. Stay /\ s.main = "stopping" /\ (s.busy => s.spent)
    BY <1>9 DEF StopGRPC, GRPCStopped
  <2>2. CASE s.grpc = "serving"
    <3>1. /\ Becomes(r, [s EXCEPT !.main = "closing", !.grpc = "ended",
                                  !.errs = Append(s.errs, "nil")])
          /\ s.grpc # "ended"
      BY <1>9, <2>2 DEF StopGRPC
    <3> QED
      BY <1>2, <2>1, <3>1, ReturnSound
  <2>3. CASE s.grpc # "serving"
    <3>1. Becomes(r, [s EXCEPT !.main = "closing"])
      BY <1>9, <2>3 DEF StopGRPC
    <3> QED
      BY <2>1, <3>1, BesideSound
  <2> QED
    BY <2>2, <2>3
<1>10. CASE CloseHTTP(r)
  <2>1. s.main = "closing" /\ (kind = "http" => ~s.busy)
    BY <1>10 DEF CloseHTTP
  <2>2. CASE s.onSignal
    <3>1. Becomes(r, [s EXCEPT !.main = "drain"]) /\ Stay
      BY <1>10, <2>2 DEF CloseHTTP
    <3> QED
      BY <2>1, <2>2, <3>1, BesideSound
  <2>3. CASE ~s.onSignal
    <3>1. Leave(r, "failed") /\ s.broke
      BY <1>1, <1>10, <2>1, <2>3 DEF CloseHTTP, Blame
    <3> QED
      BY <3>1, LeavesSound DEF EndsWell
  <2> QED
    BY <2>2, <2>3
<1>11. CASE CloseHTTPLate(r)
  <2>1. Leave(r, "failed") /\ kind = "http" /\ s.spent
    BY <1>11 DEF CloseHTTPLate
  <2> QED
    BY <2>1, LeavesSound DEF EndsWell
<1>12. CASE Drain(r)
  <2>1. s.main = "drain" /\ s.errs # <<>> /\ s.errs \in Seq(Results)
    BY <1>1, <1>12, ServerTypes DEF Drain
  <2>2. CASE Head(s.errs) = "error"
    <3>1. Leave(r, "failed")
      BY <1>12, <2>2 DEF Drain
    <3>2. s.broke \/ s.refused
      BY <1>1, <2>1, <2>2, TailResult DEF Blame
    <3> QED
      BY <3>1, <3>2, LeavesSound DEF EndsWell
  <2>3. CASE Head(s.errs) # "error" /\ (kind = "http" \/ s.read = 1)
    <3>1. Leave(r, "stopped")
      BY <1>12, <2>3 DEF Drain
    <3>2. s.onSignal /\ ~s.broke /\ (s.busy => s.spent)
      BY <1>1, <2>1, <2>3, LastResult DEF Path
    <3> QED
      BY <3>1, <3>2, LeavesSound DEF EndsWell
  <2>4. CASE Head(s.errs) # "error" /\ ~(kind = "http" \/ s.read = 1)
    <3>1. Becomes(r, [s EXCEPT !.read = 1, !.errs = Tail(s.errs)]) /\ Stay
      BY <1>12, <2>4 DEF Drain
    <3> QED
      BY <1>1, <2>1, <2>4, <3>1, TakeSound
  <2> QED
    BY <2>2, <2>3, <2>4
<1> QED
  BY <1>3, <1>4, <1>5, <1>6, <1>7, <1>8, <1>9, <1>10, <1>11, <1>12 DEF MainStep

LEMMA ServerStepSound ==
    ASSUME StartInv, LifeInv, NEW r \in Replicas, ServerStep(r)
    PROVE  StepIsSound(r)
<1> DEFINE s == srv[r]
<1>1. Serving(r) /\ UNCHANGED kind
  BY DEF ServerStep
<1>2. "error" \in Results
  BY DEF Results
<1>3. CASE MainStep(r)
  BY <1>1, <1>3, MainStepSound
<1>4. CASE HTTPFails(r)
  <2>1. /\ Becomes(r, [s EXCEPT !.http = "ended", !.broke = TRUE,
                                !.errs = Append(s.errs, "error")])
        /\ Stay /\ s.http # "ended"
    BY <1>4 DEF HTTPFails
  <2> QED
    BY <1>1, <1>2, <2>1, ReturnSound
<1>5. CASE GRPCFails(r)
  <2>1. /\ Becomes(r, [s EXCEPT !.grpc = "ended", !.broke = TRUE,
                                !.errs = Append(s.errs, "error")])
        /\ Stay /\ s.grpc # "ended"
    BY <1>5 DEF GRPCFails
  <2> QED
    BY <1>1, <1>2, <2>1, ReturnSound
<1>6. CASE CallBegins(r)
  <2>1. Becomes(r, [s EXCEPT !.busy = TRUE]) /\ Stay /\ s.main = "select"
    BY <1>6 DEF CallBegins
  <2> QED
    BY <1>1, <2>1, BesideSound
<1>7. CASE CallEnds(r)
  <2>1. Becomes(r, [s EXCEPT !.busy = FALSE]) /\ Stay
    BY <1>7 DEF CallEnds
  <2> QED
    BY <1>1, <2>1, BesideSound
<1> QED
  BY <1>3, <1>4, <1>5, <1>6, <1>7 DEF ServerStep

-----------------------------------------------------------------------------
(* The invariant and the end of a process *)

\* Steps beside the servers leave those of a serving process as they are; a process
\* that begins to serve finds fresh ones.
LEMMA BeforeInv ==
    ASSUME LifeInv, NEW step, Before(step)
    PROVE  LifeInv'
<1>1. /\ srv' = [r \in Replicas |-> IF proc'[r].pc = "serving" THEN srv[r] ELSE Fresh]
      /\ UNCHANGED kind
  BY DEF Before
<1>2. Fresh \in Servers /\ Sound(Fresh, kind) /\ Fresh' = Fresh
  BY <1>1, FreshIsSound DEF LifeInv, Fresh
<1>3. \A r \in Replicas : srv[r] \in Servers /\ Sound(srv[r], kind)
  BY DEF LifeInv
<1>4. srv' \in [Replicas -> Servers]
  BY <1>1, <1>2, <1>3
<1>5. \A r \in Replicas : srv'[r] = IF proc'[r].pc = "serving" THEN srv[r] ELSE Fresh
  BY <1>1
<1>6. \A r \in Replicas : Sound(srv'[r], kind')
  BY <1>1, <1>2, <1>3, <1>5
<1>7. \A r \in Replicas : ~Serving(r)' => srv'[r] = Fresh'
  BY <1>2, <1>5 DEF Serving
<1> QED
  BY <1>1, <1>4, <1>6, <1>7 DEF LifeInv

LEMMA LifeInitInv == LifeInit => LifeInv
<1> SUFFICES ASSUME LifeInit PROVE LifeInv
  OBVIOUS
<1>1. kind \in {"both", "http"} /\ srv = [r \in Replicas |-> Fresh]
  BY DEF LifeInit
<1> QED
  BY <1>1, FreshIsSound DEF LifeInv

LEMMA LifeNextInv == StartInv /\ LifeInv /\ [LifeNext]_lifeVars => LifeInv'
<1> SUFFICES ASSUME StartInv, LifeInv, [LifeNext]_lifeVars PROVE LifeInv'
  OBVIOUS
<1>1. CASE Before(StartEnv)
  BY <1>1, BeforeInv
<1>2. ASSUME NEW r \in Replicas, Before(StartStep(r)) PROVE LifeInv'
  BY <1>2, BeforeInv
<1>3. ASSUME NEW r \in Replicas, ServerStep(r) PROVE LifeInv'
  BY <1>3, ServerStepSound DEF StepIsSound
<1>4. CASE UNCHANGED lifeVars
  BY <1>4 DEF lifeVars, startVars, LifeInv, Serving, Fresh
<1> QED
  BY <1>1, <1>2, <1>3, <1>4 DEF LifeNext

\* A step of one process is none of another.
LEMMA OthersStay ==
    ASSUME StartInv, NEW q \in Replicas, NEW r \in Replicas, r # q,
           StartStep(q) \/ Launch(q) \/ Signal(q) \/ Crash(q)
    PROVE  proc'[r] = proc[r]
<1>1. proc \in [Replicas -> Procs]
  BY DEF StartInv, TypeOK
<1>2. ASSUME NEW x, Set(q, x) PROVE proc'[r] = proc[r]
  BY <1>1, <1>2 DEF Set
<1>3. CASE PingOK(q) \/ Retry(q)
  BY <1>1, <1>3 DEF PingOK, Retry
<1>4. CASE PingFails(q)
  BY <1>1, <1>4 DEF PingFails
<1>5. ASSUME NEW pc, Goto(q, pc) PROVE proc'[r] = proc[r]
  BY <1>1, <1>5 DEF Goto
<1>6. ASSUME NEW why, Exit(q, why) PROVE proc'[r] = proc[r]
  BY <1>1, <1>6 DEF Exit
<1>7. CASE GiveUp(q) \/ Cancelled(q) \/ NoConnection(q) \/ Crash(q)
  BY <1>6, <1>7 DEF GiveUp, Cancelled, NoConnection, Crash
<1>8. CASE LockBoot(q) \/ CreateTable(q) \/ LockService(q) \/ Migrated(q)
  BY <1>5, <1>8 DEF LockBoot, CreateTable, LockService, Migrated
<1>9. CASE CheckApplied(q)
  <2>1. PICK f \in Todo(q) : Compare(q, f)
    BY <1>9 DEF CheckApplied
  <2>2. CASE Passed(q, f)
    BY <1>1, <2>2 DEF Passed
  <2> QED
    BY <1>5, <1>6, <2>1, <2>2 DEF Compare
<1>10. CASE Apply(q)
  BY <1>5, <1>6, <1>10 DEF Apply
<1>11. CASE Commit(q)
  BY <1>1, <1>11 DEF Commit
<1>12. CASE CommitAnswerLost(q)
  BY <1>6, <1>12 DEF CommitAnswerLost
<1>13. CASE Launch(q) \/ Signal(q)
  BY <1>1, <1>13 DEF Launch, Signal
<1> QED
  BY <1>3, <1>4, <1>7, <1>8, <1>9, <1>10, <1>11, <1>12, <1>13 DEF StartStep

\* A step of the start, or of the environment, ends a serving process with neither
\* of the two reports.
LEMMA BeforeEnds ==
    ASSUME StartInv, NEW r \in Replicas, Serving(r),
           StartEnv \/ \E q \in Replicas : StartStep(q),
           proc'[r].pc = "exited"
    PROVE  proc'[r].why = "error"
<1>1. proc \in [Replicas -> Procs] /\ proc[r].pc = "serving" /\ proc[r] \in Procs
  BY DEF StartInv, TypeOK, Serving
<1>2. proc'[r] # proc[r]
  BY <1>1
<1>3. ~StartStep(r)
  BY <1>1 DEF StartStep, PingOK, PingFails, Retry, GiveUp, LockBoot, CreateTable,
     LockService, CheckApplied, Apply, Commit, CommitAnswerLost, Migrated, Cancelled,
     NoConnection, NeedsDatabase, InTransaction
<1>4. ~Launch(r)
  BY <1>1 DEF Launch
<1>5. ~Signal(r)
  <2> SUFFICES ASSUME Signal(r) PROVE FALSE
    OBVIOUS
  <2>1. proc'[r] = [proc[r] EXCEPT !.sig = TRUE]
    BY <1>1 DEF Signal
  <2>2. proc'[r].pc = "serving"
    BY <1>1, <2>1 DEF Procs
  <2> QED
    BY <2>2
<1>6. ~DatabaseDown /\ ~DatabaseUp
  <2>1. ~InTransaction(r)
    BY <1>1 DEF InTransaction
  <2> QED
    BY <1>2, <2>1 DEF DatabaseDown, DatabaseUp
<1>7. Crash(r)
  BY <1>2, <1>3, <1>4, <1>5, <1>6, OthersStay DEF StartEnv
<1>8. "error" \in Whys
  BY DEF Whys
<1>9. proc'[r] = Gone(proc[r], "error")
  BY <1>1, <1>7 DEF Crash, Exit
<1> QED
  BY <1>1, <1>8, <1>9, GoneIsProc

LEMMA EndsAreClean ==
    ASSUME StartInv, LifeInv, [LifeNext]_lifeVars, NEW r \in Replicas, Ends(r)
    PROVE  EndsWell(r, proc'[r].why)
<1>1. Serving(r) /\ proc[r].pc = "serving" /\ proc'[r].pc = "exited"
  BY DEF Ends, Serving
<1>2. ASSUME Before(StartEnv) \/ \E q \in Replicas : Before(StartStep(q))
      PROVE  EndsWell(r, proc'[r].why)
  <2>1. StartEnv \/ \E q \in Replicas : StartStep(q)
    BY <1>2 DEF Before
  <2>2. proc'[r].why = "error"
    BY <1>1, <2>1, BeforeEnds
  <2> QED
    BY <2>2 DEF EndsWell
<1>3. ASSUME NEW q \in Replicas, ServerStep(q) PROVE EndsWell(r, proc'[r].why)
  <2>1. CASE q = r
    BY <1>1, <1>3, <2>1, ServerStepSound DEF StepIsSound
  <2>2. CASE q # r
    <3>1. proc'[r] = proc[r]
      BY <1>3, <2>2, ServerStepMaps DEF startVars, Stops, Exit, StartInv, TypeOK
    <3> QED
      BY <1>1, <3>1
  <2> QED
    BY <2>1, <2>2
<1>4. CASE UNCHANGED lifeVars
  BY <1>1, <1>4 DEF lifeVars, startVars
<1> QED
  BY <1>2, <1>3, <1>4 DEF LifeNext

\* The state of the servers at every step of a stop (server.go:60, 130).
THEOREM LifeInvariant == LifeSpec => [](StartInv /\ LifeInv)
<1>1. LifeSpec => []StartInv
  BY LifeImplementsStart, StartInvariant, PTL
<1>2. LifeInit => LifeInv
  BY LifeInitInv
<1>3. StartInv /\ LifeInv /\ [LifeNext]_lifeVars => LifeInv'
  BY LifeNextInv
<1> QED
  BY <1>1, <1>2, <1>3, PTL DEF LifeSpec

\* A process that reports success on SIGTERM has let its calls finish or used up the
\* shutdown budget; it reports a failure for a reason (server.go:130).
THEOREM StopIsAlwaysClean == LifeSpec => StopIsClean
<1>1. StartInv /\ LifeInv /\ [LifeNext]_lifeVars =>
         \A r \in Replicas : Ends(r) => EndsWell(r, proc'[r].why)
  BY EndsAreClean
<1>2. StartInv /\ LifeInv /\ [LifeNext]_lifeVars =>
         [\A r \in Replicas : Ends(r) =>
            /\ proc'[r].why = "stopped" =>
                  /\ srv[r].onSignal /\ ~srv[r].broke
                  /\ srv[r].busy => srv[r].spent
            /\ proc'[r].why = "failed" =>
                  srv[r].broke \/ srv[r].refused \/ (kind = "http" /\ srv[r].spent)]_lifeVars
  BY <1>1 DEF EndsWell
<1> QED
  BY <1>2, LifeInvariant, PTL DEF LifeSpec, StopIsClean

\* Through serving, SIGTERM and crashes too, migrations run once and in order, a
\* serving process finds them applied, a lost race is no error, and no process
\* gives up on the database early (runner.go:48, open.go:57).
THEOREM LifeIsAlwaysSafe ==
    LifeSpec => [](AppliedOnceInOrder /\ ServesMigrated /\ StartRaceIsNoError /\ GaveUpLate)
BY LifeImplementsStart, AlwaysAppliedOnceInOrder, AlwaysServesMigrated, StartRaceIsNeverAnError,
   AlwaysGaveUpLate, PTL
==============================================================================
