---------------------------- MODULE ServiceStart ----------------------------
(***************************************************************************)
(* Start of the replicas of one service that owns tables: wait for         *)
(* PostgreSQL (internal/platform/postgresdb/open.go), then bring the       *)
(* schema up to date (internal/platform/migrations/runner.go), then serve. *)
(*                                                                         *)
(* Replicas may run different images, so each has a migration directory of *)
(* its own.  Every statement that waits or reads shared state is a step;   *)
(* a process may be killed, lose the database or be told to stop at any.   *)
(* The wait for the database counts time since Open in the unit of the     *)
(* first retry delay.                                                      *)
(***************************************************************************)
EXTENDS Naturals, Sequences

CONSTANTS
    Replicas,      \* processes of the service
    Dir,           \* per replica: its migration files
    Names, Versions, Texts,   \* file names by rank, version prefixes, contents
    ReadyTimeout,  \* defaultReadyTimeout
    PingTimeout,   \* defaultPingTimeout
    FirstDelay,    \* defaultRetryDelay
    MaxDelay,      \* defaultMaxRetryDelay
    MaxFaults,     \* bound on outages, kills and restarts
    NoOne          \* nobody holds the lock

Files == [name : Names, version : Versions, text : Texts]

ASSUME StartAssumption ==
    /\ Names \subseteq Nat
    /\ Dir \in [Replicas -> SUBSET Files]
    /\ \A r \in Replicas : \A f, g \in Dir[r] : f.name = g.name => f = g
    /\ ReadyTimeout \in Nat /\ PingTimeout \in Nat
    /\ FirstDelay \in Nat \ {0} /\ MaxDelay \in Nat \ {0} /\ FirstDelay <= MaxDelay
    /\ MaxFaults \in Nat
    /\ NoOne \notin Replicas

VARIABLES
    up,        \* PostgreSQL answers
    table,     \* schema_migrations exists
    rows,      \* committed rows of schema_migrations: [version, text]
    effects,   \* committed migration scripts in order, each with who ran it
    boot,      \* holder of the advisory lock "migrations:bootstrap"
    lock,      \* holder of the advisory lock "migrations:<service>"
    proc,      \* each process
    faults     \* faults so far

startVars == <<up, table, rows, effects, boot, lock, proc, faults>>

-----------------------------------------------------------------------------

Whys == {"none", "deadline", "mismatch", "duplicate", "error", "signal", "stopped", "failed"}

\* ping, wait: waitForReady; boot: ensureMigrationsTable; next: the loop of Run,
\* waiting for the lock; check, apply, commit: inside applyMigration's transaction.
Pcs == {"off", "ping", "wait", "boot", "table", "next", "check", "apply", "commit",
        "serving", "exited"}

Procs ==
    [pc      : Pcs,
     elapsed : 0..ReadyTimeout,      \* time since Open was called
     delay   : Nat,                  \* retryDelay
     tried   : 0..ReadyTimeout,      \* history: when the last ping failed
     done    : SUBSET Files,         \* files Run is through with
     sig     : BOOLEAN,              \* SIGTERM received: ctx is done
     why     : Whys]                 \* why the process ended

Rows == [version : Versions, text : Texts]

TypeOK ==
    /\ up \in BOOLEAN
    /\ table \in BOOLEAN
    /\ rows \subseteq Rows
    /\ effects \in Seq([file : Files, by : Replicas])
    /\ boot \in Replicas \cup {NoOne}
    /\ lock \in Replicas \cup {NoOne}
    /\ proc \in [Replicas -> Procs]
    /\ faults \in 0..MaxFaults

\* A process that has done nothing yet, or is gone.
Blank(pc, why, tried) ==
    [pc |-> pc, elapsed |-> 0, delay |-> FirstDelay, tried |-> tried, done |-> {},
     sig |-> FALSE, why |-> why]

Off == Blank("off", "none", 0)

Init ==
    /\ up \in BOOLEAN
    /\ table = FALSE
    /\ rows = {}
    /\ effects = <<>>
    /\ boot = NoOne
    /\ lock = NoOne
    /\ proc = [r \in Replicas |-> Off]
    /\ faults = 0

-----------------------------------------------------------------------------

RowOf(f) == [version |-> f.version, text |-> f.text]

AtMost(x, y) == IF x <= y THEN x ELSE y

\* The files of the directory Run has still to look at, and the first of them:
\* loadMigrations sorts by file name.
Todo(r) == Dir[r] \ proc[r].done
IsNext(r, f) == f \in Todo(r) /\ \A g \in Todo(r) : f.name <= g.name

NeedsDatabase(r) == proc[r].pc = "boot" \/ (proc[r].pc = "next" /\ Todo(r) # {})
InTransaction(r) == proc[r].pc \in {"table", "check", "apply", "commit"}

Goto(r, pc) == proc' = [proc EXCEPT ![r].pc = pc]

\* log.Fatal in main; an open transaction is rolled back and its locks go.
Free(r) ==
    /\ boot' = IF boot = r THEN NoOne ELSE boot
    /\ lock' = IF lock = r THEN NoOne ELSE lock

Gone(p, why) == Blank("exited", why, IF why = "deadline" THEN p.tried ELSE 0)
Exit(r, why) == proc' = [proc EXCEPT ![r] = Gone(proc[r], why)]

Database == <<table, rows, effects>>

-----------------------------------------------------------------------------
(* waitForReady *)

\* main up to Open, of a first start or of a restart.
Launch(r) ==
    /\ \/ proc[r].pc = "off" /\ UNCHANGED faults
       \/ /\ proc[r].pc = "exited"
          /\ faults < MaxFaults
          /\ faults' = faults + 1
    /\ proc' = [proc EXCEPT ![r] = Blank("ping", "none", 0)]
    /\ UNCHANGED <<up, Database, boot, lock>>

PingOK(r) ==
    /\ proc[r].pc = "ping"
    /\ up
    /\ proc' = [proc EXCEPT ![r].pc = "boot", ![r].elapsed = 0, ![r].tried = 0,
                            ![r].delay = FirstDelay]
    /\ UNCHANGED <<up, Database, boot, lock, faults>>

Now(r, d) == AtMost(proc[r].elapsed + d, ReadyTimeout)

\* The ping fails at once or after some of its own timeout; then ctx.Err() decides.
PingFails(r) ==
    /\ proc[r].pc = "ping"
    /\ \E d \in 0..PingTimeout :
         LET past == [proc[r] EXCEPT !.pc = "wait", !.elapsed = Now(r, d), !.tried = Now(r, d)]
         IN proc' = [proc EXCEPT ![r] =
                        IF proc[r].sig THEN Gone(past, "signal")
                        ELSE IF Now(r, d) >= ReadyTimeout THEN Gone(past, "deadline")
                        ELSE past]
    /\ UNCHANGED <<up, Database, boot, lock, faults>>

\* Broken variant: the delay doubles without a ceiling.
Bug_NoCeiling(r) == 2 * proc[r].delay

NextDelay(r) == AtMost(2 * proc[r].delay, MaxDelay)

\* The retry timer against ctx.Done().
Retry(r) ==
    /\ proc[r].pc = "wait"
    /\ proc[r].elapsed + proc[r].delay < ReadyTimeout
    /\ proc' = [proc EXCEPT ![r].pc = "ping", ![r].elapsed = proc[r].elapsed + proc[r].delay,
                            ![r].delay = NextDelay(r)]
    /\ UNCHANGED <<up, Database, boot, lock, faults>>

GiveUp(r) ==
    /\ proc[r].pc = "wait"
    /\ proc[r].elapsed + proc[r].delay >= ReadyTimeout
    /\ Exit(r, "deadline")
    /\ UNCHANGED <<up, Database, boot, lock, faults>>

-----------------------------------------------------------------------------
(* ensureMigrationsTable, applyMigration *)

LockBoot(r) ==
    /\ proc[r].pc = "boot"
    /\ up
    /\ boot = NoOne
    /\ boot' = r
    /\ Goto(r, "table")
    /\ UNCHANGED <<up, Database, lock, faults>>

\* CREATE TABLE IF NOT EXISTS and COMMIT.
CreateTable(r) ==
    /\ proc[r].pc = "table"
    /\ table' = TRUE
    /\ boot' = NoOne
    /\ Goto(r, "next")
    /\ UNCHANGED <<up, rows, effects, lock, faults>>

\* Broken variant: the service lock is not taken.
Bug_NoLock(r) ==
    /\ proc[r].pc = "next"
    /\ up
    /\ Todo(r) # {}
    /\ Goto(r, "check")
    /\ UNCHANGED <<up, Database, boot, lock, faults>>

LockService(r) ==
    /\ proc[r].pc = "next"
    /\ up
    /\ Todo(r) # {}
    /\ lock = NoOne
    /\ lock' = r
    /\ Goto(r, "check")
    /\ UNCHANGED <<up, Database, boot, faults>>

\* Broken variant: the transaction that finds the row is left open.
Bug_NoCommit(r, f) ==
    /\ proc' = [proc EXCEPT ![r].pc = "next", ![r].done = proc[r].done \cup {f}]
    /\ UNCHANGED <<boot, lock>>

Passed(r, f) ==
    /\ proc' = [proc EXCEPT ![r].pc = "next", ![r].done = proc[r].done \cup {f}]
    /\ Free(r)

\* Broken variant: a recorded version is skipped whatever its checksum is.
Bug_NoChecksum(r, f) ==
    IF \E i \in rows : i.version = f.version
    THEN Passed(r, f)
    ELSE Goto(r, "apply") /\ UNCHANGED <<boot, lock>>

\* The recorded checksum is equal, different, or there is none.
Compare(r, f) ==
    IF RowOf(f) \in rows THEN Passed(r, f)
    ELSE IF \E i \in rows : i.version = f.version THEN Exit(r, "mismatch") /\ Free(r)
    ELSE Goto(r, "apply") /\ UNCHANGED <<boot, lock>>

CheckApplied(r) ==
    /\ proc[r].pc = "check"
    /\ \E f \in Todo(r) : IsNext(r, f) /\ Compare(r, f)
    /\ UNCHANGED <<up, Database, faults>>

\* The script and the INSERT, not visible yet.  PRIMARY KEY (service, version)
\* makes a second insert wait for the first and fail if that one commits.
Apply(r) ==
    /\ proc[r].pc = "apply"
    /\ \E f \in Todo(r) :
         /\ IsNext(r, f)
         /\ \A q \in Replicas : proc[q].pc = "commit" =>
                \A g \in Todo(q) : IsNext(q, g) => g.version # f.version
         /\ IF \E i \in rows : i.version = f.version
            THEN Exit(r, "duplicate") /\ Free(r)
            ELSE Goto(r, "commit") /\ UNCHANGED <<boot, lock>>
    /\ UNCHANGED <<up, Database, faults>>

\* Broken variant: the script is committed, its row is not.
Bug_NoRow(r, f) ==
    /\ effects' = Append(effects, [file |-> f, by |-> r])
    /\ UNCHANGED <<rows, table>>
    /\ Free(r)

Written(r, f) ==
    /\ rows' = rows \cup {RowOf(f)}
    /\ effects' = Append(effects, [file |-> f, by |-> r])
    /\ UNCHANGED table
    /\ Free(r)

Commit(r) ==
    /\ proc[r].pc = "commit"
    /\ \E f \in Todo(r) :
         /\ IsNext(r, f)
         /\ Written(r, f)
         /\ proc' = [proc EXCEPT ![r].pc = "next", ![r].done = proc[r].done \cup {f}]
    /\ UNCHANGED <<up, faults>>

\* Committed, but Commit returns an error.
CommitAnswerLost(r) ==
    /\ proc[r].pc = "commit"
    /\ \E f \in Todo(r) : IsNext(r, f) /\ Written(r, f) /\ Exit(r, "error")
    /\ UNCHANGED <<up, faults>>

\* Run returned nil: main starts its goroutines and servers.
Migrated(r) ==
    /\ proc[r].pc = "next"
    /\ Todo(r) = {}
    /\ Goto(r, "serving")
    /\ UNCHANGED <<up, Database, boot, lock, faults>>

\* The context is done: whatever runs on it returns its error.
Cancelled(r) ==
    /\ proc[r].sig
    /\ proc[r].pc = "wait" \/ NeedsDatabase(r) \/ InTransaction(r)
    /\ Exit(r, "signal")
    /\ Free(r)
    /\ UNCHANGED <<up, Database, faults>>

-----------------------------------------------------------------------------
(* Environment *)

Signal(r) ==
    /\ proc[r].pc \notin {"off", "exited"}
    /\ ~proc[r].sig
    /\ proc' = [proc EXCEPT ![r].sig = TRUE]
    /\ UNCHANGED <<up, Database, boot, lock, faults>>

\* A statement fails, or the process is killed.
Crash(r) ==
    /\ faults < MaxFaults
    /\ faults' = faults + 1
    /\ proc[r].pc \notin {"off", "exited"}
    /\ Exit(r, "error")
    /\ Free(r)
    /\ UNCHANGED <<up, Database>>

\* The connections break: open transactions are rolled back, their runs fail.
DatabaseDown ==
    /\ up
    /\ faults < MaxFaults
    /\ faults' = faults + 1
    /\ up' = FALSE
    /\ boot' = NoOne
    /\ lock' = NoOne
    /\ proc' = [r \in Replicas |-> IF InTransaction(r)
                                   THEN Gone(proc[r], "error")
                                   ELSE proc[r]]
    /\ UNCHANGED Database

\* A run that needs a new connection while there is none.
NoConnection(r) ==
    /\ ~up
    /\ NeedsDatabase(r)
    /\ Exit(r, "error")
    /\ UNCHANGED <<up, Database, boot, lock, faults>>

DatabaseUp ==
    /\ ~up
    /\ up' = TRUE
    /\ UNCHANGED <<Database, boot, lock, proc, faults>>

\* What the servers of a started process come to (ServiceLife).
Stops(r) ==
    /\ proc[r].pc = "serving"
    /\ \E why \in {"stopped", "failed"} : Exit(r, why)
    /\ UNCHANGED <<up, Database, boot, lock, faults>>

StartStep(r) ==
    \/ PingOK(r) \/ PingFails(r) \/ Retry(r) \/ GiveUp(r)
    \/ LockBoot(r) \/ CreateTable(r) \/ LockService(r) \/ CheckApplied(r)
    \/ Apply(r) \/ Commit(r) \/ CommitAnswerLost(r) \/ Migrated(r)
    \/ Cancelled(r) \/ NoConnection(r)

StartEnv ==
    \/ DatabaseDown \/ DatabaseUp
    \/ \E r \in Replicas : Launch(r) \/ Signal(r) \/ Crash(r)

StartNext == StartEnv \/ \E r \in Replicas : StartStep(r) \/ Stops(r)

StartSpec == Init /\ [][StartNext]_startVars

-----------------------------------------------------------------------------
(* Properties *)

\* However many replicas start at once, of whatever images, and wherever they
\* fail: a script's effects and its row in schema_migrations exist together, no
\* version is run twice, and a script runs only after every earlier file of the
\* directory it comes from (runner.go:69, 145).
AppliedOnceInOrder ==
    /\ rows = {RowOf(effects[i].file) : i \in DOMAIN effects}
    /\ \A i, j \in DOMAIN effects :
          effects[i].file.version = effects[j].file.version => i = j
    /\ \A i \in DOMAIN effects : \A f \in Dir[effects[i].by] :
          f.name < effects[i].file.name =>
              \E j \in 1..(i - 1) : RowOf(effects[j].file) = RowOf(f)

\* A process serves only over the schema its image was written for: each of its
\* files was run with exactly its content, here or by another replica.
ServesMigrated ==
    \A r \in Replicas : proc[r].pc = "serving" => \A f \in Dir[r] : RowOf(f) \in rows

\* Starting together is not an error: the locks leave nothing to the PRIMARY KEY.
StartRaceIsNoError == \A r \in Replicas : proc[r].why # "duplicate"

\* Nobody gives up waiting for PostgreSQL long after he last tried: between the
\* last ping and the deadline there is no room for another attempt, so a database
\* that was back by then was not missed (open.go:57).
GaveUpLate ==
    \A r \in Replicas :
        proc[r].why = "deadline" => proc[r].tried + MaxDelay >= ReadyTimeout
=============================================================================
