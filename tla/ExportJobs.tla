----------------------------- MODULE ExportJobs -----------------------------
(***************************************************************************)
(* The life of an export (apps/reports): ExportCreateView commits the job  *)
(* and then hands it to the broker, a Celery worker takes the message,     *)
(* builds the report, writes the file and saves the job, and the client    *)
(* polls the row and downloads the file.                                   *)
(*                                                                         *)
(* A worker is given the message before it runs the task (Celery's         *)
(* default, the task sets no acks_late): if it dies the message is gone.   *)
(* A message that waits too long for its worker is delivered once more.    *)
(* Who may ask for which report, the filters and the contents of the file  *)
(* are left out, and so is the branch of the request that runs the task on *)
(* the spot: only the tests' settings take it (CELERY_TASK_ALWAYS_EAGER).  *)
(***************************************************************************)
EXTENDS Integers, FiniteSets, TLC

CONSTANTS Jobs,          \* the jobs clients may ask for
          Workers,       \* the worker processes
          MaxFaults,     \* bound: crashes, broker failures and redeliveries
          NoFile         \* an empty file field

ASSUME FaultsAssumption == MaxFaults \in Nat

VARIABLES row,           \* the ExportJob rows
          files,         \* the files in the private storage
          partial,       \* what is there of files whose write failed
          requesting,    \* jobs committed by a request that has not enqueued them yet
          message,       \* [Jobs -> Nat]: messages of each job at the broker
          worker,        \* what each worker is doing, with its copy of the row
          struck,        \* jobs a crash or a broker failure has hit
          again,         \* jobs whose message was delivered once more
          faults         \* how many faults there were

jobVars == <<row, files, partial, requesting, message, worker, struck, again, faults>>

Statuses == {"NONE", "PENDING", "RUNNING", "DONE", "FAILED"}   \* NONE: no row

\* A file's name holds its job's key and the moment it was made; the storage
\* renames on a clash, so no two are the same.
Files == [job: Jobs, nr: Nat \ {0}]

ASSUME NoFileAssumption == NoFile \notin Files

RowOf(status, file, error) == [status |-> status, file |-> file, error |-> error]

Idle == [at |-> "idle"]

Busy(w) == worker[w] # Idle

JobsInit ==
    /\ row = [j \in Jobs |-> RowOf("NONE", NoFile, FALSE)]
    /\ files = {}
    /\ partial = {}
    /\ requesting = {}
    /\ message = [j \in Jobs |-> 0]
    /\ worker = [w \in Workers |-> Idle]
    /\ struck = {}
    /\ again = {}
    /\ faults = 0

-----------------------------------------------------------------------------
(* The request *)

\* ExportCreateView.post has validated the report, the format and the filters.
Create(j) ==
    /\ row[j].status = "NONE"
    /\ row' = [row EXCEPT ![j] = RowOf("PENDING", NoFile, FALSE)]
    /\ requesting' = requesting \union {j}
    /\ UNCHANGED <<files, partial, message, worker, struck, again, faults>>

\* on_commit: run_export.delay, and the answer to the client.
Enqueue(j) ==
    /\ j \in requesting
    /\ requesting' = requesting \ {j}
    /\ message' = [message EXCEPT ![j] = @ + 1]
    /\ UNCHANGED <<row, files, partial, worker, struck, again, faults>>

-----------------------------------------------------------------------------
(* The worker: run_export *)

\* Mutant of Take: the message is removed when the task ends, or never.
TakeUnacked(w, j) ==
    /\ ~Busy(w)
    /\ message[j] > 0
    /\ worker' = [worker EXCEPT ![w] = [at |-> "taken", job |-> j]]
    /\ UNCHANGED <<row, files, partial, requesting, message, struck, again, faults>>

Take(w, j) ==
    /\ ~Busy(w)
    /\ message[j] > 0
    /\ message' = [message EXCEPT ![j] = @ - 1]
    /\ worker' = [worker EXCEPT ![w] = [at |-> "taken", job |-> j]]
    /\ UNCHANGED <<row, files, partial, requesting, struck, again, faults>>

At(w, place) == Busy(w) /\ worker[w].at = place

\* What the worker will save: its own copy, changed since it was loaded.
Keep(w, place, copy) ==
    worker' = [worker EXCEPT ![w] = [at |-> place, job |-> worker[w].job, copy |-> copy]]

\* The row is loaded.
Load(w) ==
    /\ At(w, "taken")
    /\ Keep(w, "loaded", row[worker[w].job])
    /\ UNCHANGED <<row, files, partial, requesting, message, struck, again, faults>>

\* Only the status is written back; the row may have changed since it was loaded.
Start(w) ==
    /\ At(w, "loaded")
    /\ row' = [row EXCEPT ![worker[w].job].status = "RUNNING"]
    /\ Keep(w, "started", [worker[w].copy EXCEPT !.status = "RUNNING"])
    /\ UNCHANGED <<files, partial, requesting, message, struck, again, faults>>

NewFile(j) == [job |-> j, nr |-> Cardinality({f \in files \union partial : f.job = j}) + 1]

\* Mutant of Render: the name is kept and the file never written.
RenderUnwritten(w) ==
    /\ At(w, "started")
    /\ LET j == worker[w].job IN
         Keep(w, "ended", [worker[w].copy EXCEPT !.status = "DONE", !.file = NewFile(j)])
    /\ UNCHANGED <<row, files, partial, requesting, message, struck, again, faults>>

\* The report is built and rendered, the file is in the storage, and the row
\* knows nothing of it yet (file.save with save=False).
Render(w) ==
    /\ At(w, "started")
    /\ LET j == worker[w].job IN
         /\ files' = files \union {NewFile(j)}
         /\ Keep(w, "ended", [worker[w].copy EXCEPT !.status = "DONE", !.file = NewFile(j)])
    /\ UNCHANGED <<row, partial, requesting, message, struck, again, faults>>

\* Mutant of RenderFails: the exception is not caught.
RenderRaises(w) ==
    /\ At(w, "started")
    /\ worker' = [worker EXCEPT ![w] = Idle]
    /\ UNCHANGED <<row, files, partial, requesting, message, struck, again, faults>>

Failed(w) == Keep(w, "ended", [worker[w].copy EXCEPT !.status = "FAILED", !.error = TRUE])

\* Whatever goes wrong while building or rendering the report.
RenderFails(w) ==
    /\ At(w, "started")
    /\ Failed(w)
    /\ UNCHANGED <<row, files, partial, requesting, message, struck, again, faults>>

\* The storage fails in the middle of the write: what it wrote stays there, and
\* the file field was not set.
WriteFails(w) ==
    /\ At(w, "started")
    /\ partial' = partial \union {NewFile(worker[w].job)}
    /\ Failed(w)
    /\ UNCHANGED <<row, files, requesting, message, struck, again, faults>>

\* Mutant of Save: save(update_fields=["status", "error", "finished_at"]).
SaveStatus(w) ==
    /\ At(w, "ended")
    /\ row' = [row EXCEPT ![worker[w].job].status = worker[w].copy.status,
                          ![worker[w].job].error = worker[w].copy.error]
    /\ worker' = [worker EXCEPT ![w] = Idle]
    /\ UNCHANGED <<files, partial, requesting, message, struck, again, faults>>

\* job.save() writes every field of the worker's copy.
Save(w) ==
    /\ At(w, "ended")
    /\ row' = [row EXCEPT ![worker[w].job] = worker[w].copy]
    /\ worker' = [worker EXCEPT ![w] = Idle]
    /\ UNCHANGED <<files, partial, requesting, message, struck, again, faults>>

-----------------------------------------------------------------------------
(* Faults *)

Fault == faults < MaxFaults /\ faults' = faults + 1

\* The process of the request dies after its commit, or the broker is down and
\* the client is answered with an error: the job was committed nevertheless.
EnqueueLost(j) ==
    /\ Fault
    /\ j \in requesting
    /\ requesting' = requesting \ {j}
    /\ struck' = struck \union {j}
    /\ UNCHANGED <<row, files, partial, message, worker, again>>

\* A worker is killed, or loses the database outside the try: it comes back idle.
Crash(w) ==
    /\ Fault
    /\ Busy(w)
    /\ worker' = [worker EXCEPT ![w] = Idle]
    /\ struck' = struck \union {worker[w].job}
    /\ UNCHANGED <<row, files, partial, requesting, message, again>>

\* The broker restarts without what it held.
BrokerForgets ==
    /\ Fault
    /\ \E j \in Jobs : message[j] > 0
    /\ message' = [j \in Jobs |-> 0]
    /\ struck' = struck \union {j \in Jobs : message[j] > 0}
    /\ UNCHANGED <<row, files, partial, requesting, worker, again>>

\* The visibility timeout of the broker passes before the worker that reserved
\* the message got round to it: two workers will run the job.
Redeliver(j) ==
    /\ Fault
    /\ message[j] > 0
    /\ message' = [message EXCEPT ![j] = @ + 1]
    /\ again' = again \union {j}
    /\ UNCHANGED <<row, files, partial, requesting, worker, struck>>

-----------------------------------------------------------------------------

Run(w) ==
    \/ Load(w) \/ Start(w)
    \/ Render(w) \/ RenderFails(w) \/ WriteFails(w)
    \/ Save(w)

JobsNext ==
    \/ \E j \in Jobs : Create(j) \/ Enqueue(j) \/ EnqueueLost(j) \/ Redeliver(j)
    \/ \E w \in Workers :
        \/ \E j \in Jobs : Take(w, j)
        \/ Run(w)
        \/ Crash(w)
    \/ BrokerForgets

\* A process that is not killed goes on, and a worker with nothing to do takes
\* a message if there is one.
JobsFairness ==
    /\ \A j \in Jobs : WF_jobVars(Enqueue(j)) /\ WF_jobVars(\E w \in Workers : Take(w, j))
    /\ \A w \in Workers : WF_jobVars(Run(w))

JobsSpec == JobsInit /\ [][JobsNext]_jobVars /\ JobsFairness

-----------------------------------------------------------------------------
(* Properties *)

\* Rows, messages and workers have their types.
JobsTypeOK ==
    LET RowType == [status: Statuses, file: Files \union {NoFile}, error: BOOLEAN] IN
    /\ row \in [Jobs -> RowType]
    /\ files \subseteq Files
    /\ partial \subseteq Files
    /\ requesting \subseteq Jobs
    /\ message \in [Jobs -> Nat]
    /\ worker \in [Workers -> {Idle} \union [at: {"taken"}, job: Jobs]
                                \union [at: {"loaded", "started", "ended"}, job: Jobs, copy: RowType]]
    /\ struck \subseteq Jobs
    /\ again \subseteq Jobs
    /\ faults \in 0..MaxFaults

\* What the download endpoint agrees to send (DONE, with a file) is a file of
\* that job and is there in full, whatever crashed, whatever writes failed and
\* however often the job ran.
DownloadsWork ==
    \A j \in Jobs : row[j].status = "DONE" =>
        row[j].file \in files /\ row[j].file.job = j

\* A whole file nobody can download, because no row names it and no worker is
\* about to save one that does, is left only where a crash or a second run
\* explains it.  (What a failed write left is never named and never removed.)
NoLitter ==
    \A f \in files :
        \/ row[f.job].file = f
        \/ \E w \in Workers : At(w, "ended") /\ worker[w].copy.file = f
        \/ f.job \in struck \union again

\* The storage and the job list agree, in both directions.
FilesMatchJobs == DownloadsWork /\ NoLitter

\* A job that ended stays as it is: the client that saw DONE finds the same file
\* later, unless the broker delivered the job once more.
EndedStays ==
    [][\A j \in Jobs :
          row[j].status \in {"DONE", "FAILED"} => row'[j] = row[j] \/ j \in again]_jobVars

\* Every accepted export ends as DONE or FAILED ("status must reflect any
\* failure", tasks.py), unless a crash or the broker struck it: nothing looks for
\* jobs left PENDING or RUNNING.
AcceptedEnds ==
    \A j \in Jobs : row[j].status = "PENDING" ~>
        row[j].status \in {"DONE", "FAILED"} \/ j \in struck
=============================================================================
