-------------------------------- MODULE Backup --------------------------------
(***************************************************************************)
(* scripts/backup-to-neon.ts: jobs that dump the primary database, restore *)
(* the dump in another one and keep a row of database_backup_runs, over    *)
(* the batches every write of the primary leaves (WriteBatches).  The cron *)
(* of .github/workflows/neon-backup.yml and a dispatch by hand may overlap.*)
(*                                                                         *)
(* Data are the committed batches and the rows of runs.  Using the copy as *)
(* the primary (Failover) is what it is for and is done by hand.  Files,   *)
(* checksums and sizes are left out.                                       *)
(***************************************************************************)
EXTENDS WriteBatches

CONSTANTS
  Jobs,                     \* slots of jobs
  MaxJobs, MaxJobFaults, MaxFailovers

ASSUME BackupAssumption ==
  MaxJobs \in Nat /\ MaxJobFaults \in Nat /\ MaxFailovers \in Nat

VARIABLES
  backupRuns,               \* rows: status, and (history) what was committed before
  job, copy,
  jobs, jobFaults,
  \* --- history
  overlapped,               \* rows of jobs that were restoring beside another
  failovers                 \* transactions there were at each failover

target == <<copy, overlapped>>
jobCounters == <<jobs, jobFaults, failovers>>
backupVars == <<batchVars, backupRuns, job, target, jobCounters>>

-----------------------------------------------------------------------------
NoDump == [batch |-> <<>>, runs |-> <<>>]
NoJob == [pc |-> "idle", run |-> 0, dump |-> NoDump]
\* state: "none", "partial" while tables are missing, "complete"; the last to restore.
NoCopy == [state |-> "none", of |-> 0, dump |-> NoDump]

BackupInit ==
  /\ BatchesInit
  /\ backupRuns = <<>>
  /\ job = [j \in Jobs |-> NoJob]
  /\ copy = NoCopy
  /\ jobs = 0 /\ jobFaults = 0
  /\ overlapped = {} /\ failovers = {}

JobFault == jobFaults < MaxJobFaults /\ jobFaults' = jobFaults + 1

CommittedIn(b) ==
  UNION {{b[tx].items[i].by : i \in DOMAIN b[tx].items} :
           tx \in {x \in DOMAIN b : b[x] # NoBatch}}

GoTo(j, pc) == job' = [job EXCEPT ![j].pc = pc]

BeginJob(j) ==
  /\ job[j].pc = "idle"
  /\ jobs < MaxJobs
  /\ jobs' = jobs + 1
  /\ GoTo(j, "start")
  /\ UNCHANGED <<batchVars, backupRuns, target, jobFaults, failovers>>

\* maybeStartRun: the row, or an error that is swallowed, with or without the row.
StartRun(j) ==
  /\ job[j].pc = "start"
  /\ \/ /\ Autocommit("database_backup_runs")
        /\ backupRuns' = Append(backupRuns, [status |-> "started", past |-> CommittedIn(batch)])
        /\ \/ /\ job' = [job EXCEPT ![j].pc = "dump", ![j].run = Len(backupRuns) + 1]
              /\ UNCHANGED jobFaults
           \/ JobFault /\ GoTo(j, "dump")
     \/ JobFault /\ GoTo(j, "dump") /\ UNCHANGED <<batchVars, backupRuns>>
  /\ UNCHANGED <<target, jobs, failovers>>

\* pg_dump: one snapshot.
Dump(j) ==
  /\ job[j].pc = "dump"
  /\ \E pc \in {"drop", "restore"} :   \* NEON_BACKUP_DROP_TARGET_BEFORE_RESTORE
       job' = [job EXCEPT ![j].pc = pc, ![j].dump = [batch |-> batch, runs |-> backupRuns]]
  /\ UNCHANGED <<batchVars, backupRuns, target, jobCounters>>

\* Other jobs that have begun to change the target and have not ended.
Beside(j) == {o \in Jobs \ {j} : job[o].pc \in {"dropped", "restoring"}}

Shared(j) == Beside(j) # {} \/ job[j].run \in overlapped

Touch(j, state) ==
  /\ copy' = [state |-> state, of |-> job[j].run, dump |-> job[j].dump]
  /\ overlapped' = overlapped \cup
       (IF Beside(j) = {} THEN {} ELSE {job[o].run : o \in Beside(j) \cup {j}})

\* DROP SCHEMA.
DropTarget(j) ==
  /\ job[j].pc = "drop"
  /\ Touch(j, "none")
  /\ GoTo(j, "dropped")
  /\ UNCHANGED <<batchVars, backupRuns, jobCounters>>

\* pg_restore --clean drops the tables, and then fills them one by one.
BeginRestore(j) ==
  /\ job[j].pc \in {"dropped", "restore"}
  /\ Touch(j, "partial")
  /\ GoTo(j, "restoring")
  /\ UNCHANGED <<batchVars, backupRuns, jobCounters>>

\* Beside another job, what is left in the target may not be whole.
EndRestore(j) ==
  /\ job[j].pc = "restoring"
  /\ \E state \in IF Shared(j) THEN {"partial", "complete"} ELSE {"complete"} :
       Touch(j, state)
  /\ GoTo(j, "check")
  /\ UNCHANGED <<batchVars, backupRuns, jobCounters>>

\* The counts of three tables, which a partial copy may have.
CheckTarget(j) ==
  /\ job[j].pc = "check"
  /\ copy.state # "none"
  /\ GoTo(j, "finish")
  /\ UNCHANGED <<batchVars, backupRuns, target, jobCounters>>

\* Mutant: the exit status of the command is not looked at.
CommandIgnored(j) ==
  /\ \/ job[j].pc = "restoring" /\ JobFault /\ GoTo(j, "check")
     \/ /\ job[j].pc \in {"dump", "drop", "dropped", "restore", "check"}
        /\ JobFault /\ GoTo(j, "failing")
  /\ UNCHANGED <<batchVars, backupRuns, target, jobs, failovers>>

\* A command or a query exits with an error: catch.
CommandFails(j) ==
  /\ \/ job[j].pc \in {"dump", "drop", "dropped", "restore", "restoring", "check"} /\ JobFault
     \/ job[j].pc = "restoring" /\ Shared(j) /\ UNCHANGED jobFaults
     \/ job[j].pc = "check" /\ copy.state # "complete" /\ UNCHANGED jobFaults
  /\ GoTo(j, "failing")
  /\ UNCHANGED <<batchVars, backupRuns, target, jobs, failovers>>

\* maybeFinishRun: nothing without a row; errors are swallowed.
Finish(j, status) ==
  \/ /\ job[j].run # 0
     /\ Autocommit("database_backup_runs")
     /\ backupRuns' = [backupRuns EXCEPT ![job[j].run].status = status]
     /\ UNCHANGED jobFaults
  \/ /\ job[j].run # 0 /\ JobFault
     /\ UNCHANGED <<batchVars, backupRuns>>
  \/ /\ job[j].run = 0
     /\ UNCHANGED <<batchVars, backupRuns, jobFaults>>

FinishRun(j) ==
  /\ job[j].pc = "finish"
  /\ Finish(j, "succeeded")
  /\ GoTo(j, "remove")
  /\ UNCHANGED <<target, jobs, failovers>>

\* fs.rm; its error lands in catch as well.
RemoveFile(j) ==
  /\ job[j].pc = "remove"
  /\ \/ job' = [job EXCEPT ![j] = NoJob] /\ UNCHANGED jobFaults
     \/ GoTo(j, "failing") /\ JobFault
  /\ UNCHANGED <<batchVars, backupRuns, target, jobs, failovers>>

FailRun(j) ==
  /\ job[j].pc = "failing"
  /\ Finish(j, "failed")
  /\ job' = [job EXCEPT ![j] = NoJob]
  /\ UNCHANGED <<target, jobs, failovers>>

\* The runner is stopped: the row stays 'started'.
JobDies(j) ==
  /\ job[j].pc # "idle"
  /\ JobFault
  /\ job' = [job EXCEPT ![j] = NoJob]
  /\ UNCHANGED <<batchVars, backupRuns, target, jobs, failovers>>

\* The primary is lost and the copy takes its place, in a cluster that counts its
\* own transactions.
Failover ==
  /\ Cardinality(failovers) < MaxFailovers
  /\ copy.state = "complete"
  /\ \A j \in Jobs : job[j].pc = "idle"
  /\ batch' = copy.dump.batch
  /\ backupRuns' = copy.dump.runs
  /\ nextTx' \in 1..nextTx
  /\ writer' = [w \in Writers |-> NoWriter]
  /\ failovers' = failovers \cup {transactions}
  /\ copy' = NoCopy
  /\ overlapped' = {}
  /\ UNCHANGED <<transactions, job, jobs, jobFaults>>

BackupNext ==
  \/ /\ BatchesNext
     /\ UNCHANGED <<backupRuns, job, target, jobCounters>>
  \/ \E j \in Jobs :
       \/ BeginJob(j) \/ StartRun(j) \/ Dump(j) \/ DropTarget(j) \/ BeginRestore(j)
       \/ EndRestore(j) \/ CheckTarget(j) \/ CommandFails(j) \/ FinishRun(j)
       \/ RemoveFile(j) \/ FailRun(j) \/ JobDies(j)
  \/ Failover

-----------------------------------------------------------------------------
(* Properties.                                                             *)

\* Two transactions share a batch only when the database was moved to a copy between
\* them, whose txids start anew: UNIQUE (transaction_id) and ON CONFLICT then make
\* one batch of them (docs/quality/batch-write-records.md:20 "Representa una
\* operación de escritura agrupada por txid_current()").
BatchIsOneTransaction ==
  \A tx \in Txids : batch[tx] # NoBatch =>
    \A i, k \in DOMAIN batch[tx].items :
      LET m == batch[tx].items[i].by
          n == batch[tx].items[k].by
      IN m < n => \E last \in failovers : m <= last /\ last < n

\* As long as no other job has touched the target since, nor beside it, the copy of
\* a run that is 'succeeded' is whole and holds what had been committed when the run
\* began, whatever failed on the way and whatever was swallowed.
SucceededRunHoldsItsPast ==
  \A r \in DOMAIN backupRuns :
    backupRuns[r].status = "succeeded" /\ copy.of = r /\ r \notin overlapped
      => /\ copy.state = "complete"
         /\ backupRuns[r].past \subseteq CommittedIn(copy.dump.batch)
=============================================================================
