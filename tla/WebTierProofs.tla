--------------------------- MODULE WebTierProofs ---------------------------
(***************************************************************************)
(* Proofs about the three protocols of the web tier that hold no stock:    *)
(* export jobs, the workspace handoff, and the writes outside the stock    *)
(* services.                                                               *)
(*                                                                         *)
(* For every set of jobs and workers and however many faults: what the     *)
(* download endpoint sends is there, what is in the storage can be         *)
(* downloaded or is explained by a fault, and a job that ended stays as it *)
(* is.  That an accepted export ends at all (AcceptedEnds) is liveness,    *)
(* and stays with TLC.                                                     *)
(*                                                                         *)
(* For every set of tokens and arrivals, every age a token may reach,      *)
(* every skew of the clocks and every rest of a request: that a token      *)
(* admits one request, not counting those that rested for too long, is not *)
(* inductive, but follows from when things happened. A request that passed *)
(* the age check holds a token whose window it was in when it looked       *)
(* (AgedInWindow), and a burned nonce is kept for three ages after its     *)
(* token was dated (NonceOutlivesToken).                                   *)
(*                                                                         *)
(* For every set of requests, keys, fields and values: what may be left    *)
(* behind when a request stops between two commits, and what the audit     *)
(* trail tells of the values that were replaced.                           *)
(***************************************************************************)
EXTENDS ExportJobs, Handoff, AuditedRecords, FiniteSetTheorems, TLAPS

-----------------------------------------------------------------------------
(* Export jobs *)

Rows == [status: Statuses, file: Files \union {NoFile}, error: BOOLEAN]

WorkerStates ==
    {Idle} \union [at: {"taken"}, job: Jobs]
           \union [at: {"loaded", "started", "ended"}, job: Jobs, copy: Rows]

\* What Cardinality needs to give a file its number.
TypeInv == JobsTypeOK /\ IsFiniteSet(files) /\ IsFiniteSet(partial)

-----------------------------------------------------------------------------

\* The worker holds its copy of the row of job j.
Holds(w, j) == Busy(w) /\ worker[w].job = j

\* It has a copy of the row.
Copied(w) == At(w, "loaded") \/ At(w, "started") \/ At(w, "ended")

\* A file field, of the row or of a worker's copy of it, is empty or names a
\* file of its job that is stored; a DONE one is not empty.
NamesItsFile(copy, j, stored) ==
    /\ copy.file # NoFile => copy.file \in stored /\ copy.file.job = j
    /\ copy.status = "DONE" => copy.file # NoFile

RowsNameTheirFiles ==
    /\ \A j \in Jobs : NamesItsFile(row[j], j, files)
    /\ \A w \in Workers : Copied(w) =>
          NamesItsFile(worker[w].copy, worker[w].job, files)

\* A job whose message was never delivered twice is in one pair of hands: the
\* request's, the broker's, or one worker's.
OneHand(j) ==
    /\ message[j] \in {0, 1}
    /\ j \in requesting => message[j] = 0
    /\ j \in requesting \/ message[j] > 0 =>
          row[j].status = "PENDING" /\ \A w \in Workers : ~Holds(w, j)
    /\ \A v, w \in Workers : Holds(v, j) /\ Holds(w, j) => v = w

\* Its row tells how far it is, and names a file only when it is DONE.
TellsProgress(j) ==
    /\ \A w \in Workers : Holds(w, j) =>
          /\ At(w, "taken") \/ At(w, "loaded") => row[j].status = "PENDING"
          /\ At(w, "started") \/ At(w, "ended") => row[j].status = "RUNNING"
          /\ At(w, "loaded") \/ At(w, "started") => worker[w].copy.file = NoFile
          /\ At(w, "ended") /\ worker[w].copy.status # "DONE" => worker[w].copy.file = NoFile
    /\ row[j].status # "DONE" => row[j].file = NoFile

RunOnce == \A j \in Jobs \ again : OneHand(j) /\ TellsProgress(j)

JobInv == RowsNameTheirFiles /\ RunOnce /\ NoLitter

-----------------------------------------------------------------------------
(* What each step of a worker does *)

\* What a worker holds, by where it is.
LEMMA WorkerOf ==
    ASSUME worker \in [Workers -> WorkerStates], NEW w \in Workers
    PROVE  /\ ~Busy(w) => worker[w] = Idle
           /\ Busy(w) => worker[w].job \in Jobs /\ worker[w].at \in {"taken", "loaded", "started", "ended"}
           /\ Copied(w) => worker[w].copy \in Rows
<1>1. worker[w] \in WorkerStates
  OBVIOUS
<1>2. CASE worker[w] = Idle
  BY <1>2 DEF Busy, At, Copied
<1>3. CASE worker[w] \in [at: {"taken"}, job: Jobs]
  BY <1>3 DEF Busy, At, Copied
<1>4. CASE worker[w] \in [at: {"loaded", "started", "ended"}, job: Jobs, copy: Rows]
  BY <1>4 DEF Busy, At, Copied
<1> QED
  BY <1>1, <1>2, <1>3, <1>4 DEF WorkerStates

\* A worker that goes on leaves the others where they are.
LEMMA WorkerGoes ==
    ASSUME worker \in [Workers -> WorkerStates], NEW w \in Workers, NEW state,
           worker' = [worker EXCEPT ![w] = state]
    PROVE  /\ worker'[w] = state
           /\ \A v \in Workers : v # w => worker'[v] = worker[v]
           /\ state \in WorkerStates => worker' \in [Workers -> WorkerStates]
OBVIOUS

LEMMA TypeFacts ==
    ASSUME TypeInv
    PROVE  /\ row \in [Jobs -> Rows]
           /\ files \subseteq Files /\ IsFiniteSet(files)
           /\ partial \subseteq Files /\ IsFiniteSet(partial)
           /\ requesting \subseteq Jobs
           /\ message \in [Jobs -> Nat]
           /\ worker \in [Workers -> WorkerStates]
           /\ struck \subseteq Jobs /\ again \subseteq Jobs
           /\ faults \in 0..MaxFaults
BY DEF TypeInv, JobsTypeOK, Rows, WorkerStates

LEMMA TypeFrom ==
    ASSUME row \in [Jobs -> Rows], files \subseteq Files, IsFiniteSet(files),
           partial \subseteq Files, IsFiniteSet(partial),
           requesting \subseteq Jobs, message \in [Jobs -> Nat],
           worker \in [Workers -> WorkerStates], struck \subseteq Jobs, again \subseteq Jobs,
           faults \in 0..MaxFaults
    PROVE  TypeInv
BY DEF TypeInv, JobsTypeOK, Rows, WorkerStates

LEMMA LoadFacts ==
    ASSUME TypeInv, NEW w \in Workers, Load(w)
    PROVE  LET j == worker[w].job IN
           /\ j \in Jobs
           /\ worker' \in [Workers -> WorkerStates]
           /\ worker'[w] = [at |-> "loaded", job |-> j, copy |-> row[j]]
           /\ \A v \in Workers : v # w => worker'[v] = worker[v]
<1> DEFINE j == worker[w].job
<1>1. row \in [Jobs -> Rows] /\ worker \in [Workers -> WorkerStates]
  BY TypeFacts
<1>2. j \in Jobs
  BY <1>1, WorkerOf DEF Load, At
<1>3. worker' = [worker EXCEPT ![w] = [at |-> "loaded", job |-> j, copy |-> row[j]]]
  BY DEF Load, Keep
<1> HIDE DEF j
<1>4. [at |-> "loaded", job |-> j, copy |-> row[j]] \in WorkerStates
  BY <1>1, <1>2 DEF WorkerStates
<1>5. /\ worker' \in [Workers -> WorkerStates]
      /\ worker'[w] = [at |-> "loaded", job |-> j, copy |-> row[j]]
      /\ \A v \in Workers : v # w => worker'[v] = worker[v]
  BY <1>1, <1>3, <1>4, WorkerGoes
<1> QED
  BY <1>2, <1>5 DEF j

LEMMA StartFacts ==
    ASSUME TypeInv, NEW w \in Workers, Start(w)
    PROVE  LET j == worker[w].job IN
           /\ j \in Jobs
           /\ row' \in [Jobs -> Rows]
           /\ row'[j].status = "RUNNING" /\ row'[j].file = row[j].file
           /\ \A k \in Jobs : k # j => row'[k] = row[k]
           /\ worker' \in [Workers -> WorkerStates]
           /\ \E copy \in Rows :
                /\ worker'[w] = [at |-> "started", job |-> j, copy |-> copy]
                /\ copy.status = "RUNNING" /\ copy.file = worker[w].copy.file
           /\ \A v \in Workers : v # w => worker'[v] = worker[v]
<1> DEFINE j == worker[w].job
           new == [row[j] EXCEPT !.status = "RUNNING"]
           copy == [worker[w].copy EXCEPT !.status = "RUNNING"]
<1>1. row \in [Jobs -> Rows] /\ worker \in [Workers -> WorkerStates]
  BY TypeFacts
<1>2. j \in Jobs /\ worker[w].copy \in Rows
  BY <1>1, WorkerOf DEF Start, At, Copied
<1>3. row' = [row EXCEPT ![j] = new]
  BY <1>1, <1>2 DEF Start
<1>4. row[j] \in Rows
  BY <1>1, <1>2
<1>5. new \in Rows /\ new.status = "RUNNING" /\ new.file = row[j].file
  BY <1>4 DEF Rows, Statuses
<1>6. copy \in Rows /\ copy.status = "RUNNING" /\ copy.file = worker[w].copy.file
  BY <1>2 DEF Rows, Statuses
<1>7. worker' = [worker EXCEPT ![w] = [at |-> "started", job |-> j, copy |-> copy]]
  BY DEF Start, Keep
<1> HIDE DEF new, copy, j
<1>8. row'[j] = new /\ row' \in [Jobs -> Rows] /\ \A k \in Jobs : k # j => row'[k] = row[k]
  BY <1>1, <1>2, <1>3, <1>5
<1>9. [at |-> "started", job |-> j, copy |-> copy] \in WorkerStates
  BY <1>2, <1>6 DEF WorkerStates
<1>10. /\ worker' \in [Workers -> WorkerStates]
       /\ worker'[w] = [at |-> "started", job |-> j, copy |-> copy]
       /\ \A v \in Workers : v # w => worker'[v] = worker[v]
  BY <1>1, <1>7, <1>9, WorkerGoes
<1> QED
  BY <1>2, <1>5, <1>6, <1>8, <1>10 DEF j

LEMMA NewFileType ==
    ASSUME TypeInv, NEW j \in Jobs
    PROVE  NewFile(j) \in Files /\ NewFile(j).job = j /\ NewFile(j) # NoFile
<1> DEFINE his == {f \in files \union partial : f.job = j}
<1>0. IsFiniteSet(files \union partial)
  BY FS_Union, TypeFacts
<1>1. IsFiniteSet(his)
  BY <1>0, FS_Subset
<1>2. Cardinality(his) \in Nat
  BY <1>1, FS_CardinalityType
<1> HIDE DEF his
<1>3. Cardinality(his) + 1 \in Nat \ {0}
  BY <1>2
<1>4. NewFile(j) = [job |-> j, nr |-> Cardinality(his) + 1]
  BY DEF NewFile, his
<1>5. NewFile(j) \in Files /\ NewFile(j).job = j
  BY <1>3, <1>4 DEF Files
<1> QED
  BY <1>5, NoFileAssumption

\* The two ways a run fails.
Fails(w) == RenderFails(w) \/ WriteFails(w)

LEMMA RenderFacts ==
    ASSUME TypeInv, NEW w \in Workers, Render(w) \/ Fails(w)
    PROVE  LET j == worker[w].job IN
           /\ j \in Jobs
           /\ \E copy \in Rows :
                /\ worker'[w] = [at |-> "ended", job |-> j, copy |-> copy]
                /\ \/ Render(w) /\ copy.status = "DONE" /\ copy.file = NewFile(j)
                   \/ Fails(w) /\ copy.status = "FAILED" /\ copy.file = worker[w].copy.file
           /\ worker' \in [Workers -> WorkerStates]
           /\ \A v \in Workers : v # w => worker'[v] = worker[v]
<1> DEFINE j == worker[w].job
           rendered == [worker[w].copy EXCEPT !.status = "DONE", !.file = NewFile(j)]
           failed == [worker[w].copy EXCEPT !.status = "FAILED", !.error = TRUE]
<1>1. worker \in [Workers -> WorkerStates]
  BY TypeFacts
<1>2. j \in Jobs /\ worker[w].copy \in Rows
  BY <1>1, WorkerOf DEF Render, Fails, RenderFails, WriteFails, At, Copied
<1>3. NewFile(j) \in Files \union {NoFile}
  BY <1>2, NewFileType
<1>4. rendered \in Rows /\ rendered.status = "DONE" /\ rendered.file = NewFile(j)
  BY <1>2, <1>3 DEF Rows, Statuses
<1>5. failed \in Rows /\ failed.status = "FAILED" /\ failed.file = worker[w].copy.file
  BY <1>2 DEF Rows, Statuses
<1>6. Render(w) => worker' = [worker EXCEPT ![w] = [at |-> "ended", job |-> j, copy |-> rendered]]
  BY DEF Render, Keep
<1>7. Fails(w) => worker' = [worker EXCEPT ![w] = [at |-> "ended", job |-> j, copy |-> failed]]
  BY DEF Fails, RenderFails, WriteFails, Failed, Keep
<1> HIDE DEF j, rendered, failed
<1>8. PICK copy \in Rows :
        /\ worker' = [worker EXCEPT ![w] = [at |-> "ended", job |-> j, copy |-> copy]]
        /\ (Render(w) /\ copy = rendered) \/ (Fails(w) /\ copy = failed)
  BY <1>4, <1>5, <1>6, <1>7
<1>9. [at |-> "ended", job |-> j, copy |-> copy] \in WorkerStates
  BY <1>2 DEF WorkerStates
<1>10. /\ worker' \in [Workers -> WorkerStates]
       /\ worker'[w] = [at |-> "ended", job |-> j, copy |-> copy]
       /\ \A v \in Workers : v # w => worker'[v] = worker[v]
  BY <1>1, <1>8, <1>9, WorkerGoes
<1> QED
  BY <1>2, <1>4, <1>5, <1>8, <1>10 DEF j

LEMMA SaveFacts ==
    ASSUME TypeInv, NEW w \in Workers, Save(w)
    PROVE  LET j == worker[w].job IN
           /\ j \in Jobs
           /\ row' \in [Jobs -> Rows]
           /\ row'[j] = worker[w].copy
           /\ \A k \in Jobs : k # j => row'[k] = row[k]
           /\ worker' \in [Workers -> WorkerStates]
           /\ worker'[w] = Idle
           /\ \A v \in Workers : v # w => worker'[v] = worker[v]
<1> DEFINE j == worker[w].job
<1>1. row \in [Jobs -> Rows] /\ worker \in [Workers -> WorkerStates]
  BY TypeFacts
<1>2. j \in Jobs /\ worker[w].copy \in Rows
  BY <1>1, WorkerOf DEF Save, At, Copied
<1>3. row' = [row EXCEPT ![j] = worker[w].copy] /\ worker' = [worker EXCEPT ![w] = Idle]
  BY DEF Save
<1>4. Idle \in WorkerStates
  BY DEF WorkerStates
<1> HIDE DEF j
<1>5. row'[j] = worker[w].copy /\ row' \in [Jobs -> Rows] /\ \A k \in Jobs : k # j => row'[k] = row[k]
  BY <1>1, <1>2, <1>3
<1>6. /\ worker' \in [Workers -> WorkerStates] /\ worker'[w] = Idle
      /\ \A v \in Workers : v # w => worker'[v] = worker[v]
  BY <1>1, <1>3, <1>4, WorkerGoes
<1> QED
  BY <1>2, <1>5, <1>6 DEF j

\* Taking a message, and losing a worker.
LEMMA TakeFacts ==
    ASSUME TypeInv, NEW w \in Workers, NEW j \in Jobs, Take(w, j)
    PROVE  /\ message[j] > 0 /\ message'[j] = message[j] - 1
           /\ \A k \in Jobs : k # j => message'[k] = message[k]
           /\ message' \in [Jobs -> Nat]
           /\ ~Busy(w)
           /\ worker'[w] = [at |-> "taken", job |-> j]
           /\ \A v \in Workers : v # w => worker'[v] = worker[v]
           /\ worker' \in [Workers -> WorkerStates]
           /\ UNCHANGED <<row, files, partial, requesting, struck, again, faults>>
<1>1. message \in [Jobs -> Nat] /\ worker \in [Workers -> WorkerStates]
  BY TypeFacts
<1>2. [at |-> "taken", job |-> j] \in WorkerStates
  BY DEF WorkerStates
<1>3. worker' = [worker EXCEPT ![w] = [at |-> "taken", job |-> j]]
  BY DEF Take
<1>4. message[j] \in Nat /\ message[j] > 0 /\ message' = [message EXCEPT ![j] = message[j] - 1]
  BY <1>1 DEF Take
<1>5. message[j] - 1 \in Nat
  BY <1>4
<1>6. message'[j] = message[j] - 1 /\ \A k \in Jobs : k # j => message'[k] = message[k]
  BY <1>1, <1>4
<1>7. message' \in [Jobs -> Nat]
  BY <1>1, <1>4, <1>5
<1>8. /\ worker'[w] = [at |-> "taken", job |-> j]
      /\ \A v \in Workers : v # w => worker'[v] = worker[v]
      /\ worker' \in [Workers -> WorkerStates]
  BY <1>1, <1>2, <1>3, WorkerGoes
<1> QED
  BY <1>4, <1>6, <1>7, <1>8 DEF Take

LEMMA CrashFacts ==
    ASSUME TypeInv, NEW w \in Workers, Crash(w)
    PROVE  /\ Busy(w) /\ worker[w].job \in Jobs
           /\ worker'[w] = Idle
           /\ \A v \in Workers : v # w => worker'[v] = worker[v]
           /\ worker' \in [Workers -> WorkerStates]
           /\ struck' = struck \union {worker[w].job}
           /\ UNCHANGED <<row, files, partial, requesting, message, again>>
<1>1. worker \in [Workers -> WorkerStates]
  BY TypeFacts
<1>2. Idle \in WorkerStates
  BY DEF WorkerStates
<1>3. worker' = [worker EXCEPT ![w] = Idle]
  BY DEF Crash
<1>4. /\ worker'[w] = Idle
      /\ \A v \in Workers : v # w => worker'[v] = worker[v]
      /\ worker' \in [Workers -> WorkerStates]
  BY <1>1, <1>2, <1>3, WorkerGoes
<1> QED
  BY <1>1, <1>4, WorkerOf DEF Crash

\* What the request and the broker do with the messages.
LEMMA MessageFacts ==
    ASSUME TypeInv, NEW j \in Jobs, Enqueue(j) \/ Redeliver(j)
    PROVE  /\ message'[j] = message[j] + 1
           /\ \A k \in Jobs : k # j => message'[k] = message[k]
           /\ message' \in [Jobs -> Nat]
<1>1. message \in [Jobs -> Nat]
  BY TypeFacts
<1>2. message[j] \in Nat /\ message[j] + 1 \in Nat
  BY <1>1
<1>3. message' = [message EXCEPT ![j] = message[j] + 1]
  BY DEF Enqueue, Redeliver
<1> QED
  BY <1>1, <1>2, <1>3

LEMMA FaultType ==
    ASSUME TypeInv, Fault
    PROVE  faults' \in 0..MaxFaults
BY TypeFacts, FaultsAssumption DEF Fault

-----------------------------------------------------------------------------
(* Types *)

LEMMA TypeStep == TypeInv /\ [JobsNext]_jobVars => TypeInv'
<1> SUFFICES ASSUME TypeInv, [JobsNext]_jobVars PROVE TypeInv'
  OBVIOUS
<1>0. /\ row \in [Jobs -> Rows]
      /\ files \subseteq Files /\ IsFiniteSet(files)
      /\ partial \subseteq Files /\ IsFiniteSet(partial)
      /\ requesting \subseteq Jobs
      /\ message \in [Jobs -> Nat]
      /\ worker \in [Workers -> WorkerStates]
      /\ struck \subseteq Jobs /\ again \subseteq Jobs
      /\ faults \in 0..MaxFaults
  BY TypeFacts
<1>a. ASSUME row' \in [Jobs -> Rows], files' \subseteq Files, IsFiniteSet(files'),
             partial' \subseteq Files, IsFiniteSet(partial'),
             requesting' \subseteq Jobs, message' \in [Jobs -> Nat],
             worker' \in [Workers -> WorkerStates], struck' \subseteq Jobs,
             again' \subseteq Jobs, faults' \in 0..MaxFaults
      PROVE  TypeInv'
  BY <1>a DEF TypeInv, JobsTypeOK, Rows, WorkerStates
<1>1. ASSUME NEW j \in Jobs, Create(j) PROVE TypeInv'
  <2>1. RowOf("PENDING", NoFile, FALSE) \in Rows
    BY DEF RowOf, Rows, Statuses
  <2>2. row' \in [Jobs -> Rows]
    BY <1>0, <1>1, <2>1 DEF Create
  <2> QED
    BY <1>0, <1>1, <1>a, <2>2 DEF Create
<1>2. ASSUME NEW j \in Jobs, Enqueue(j) PROVE TypeInv'
  <2>1. message' \in [Jobs -> Nat]
    BY <1>2, MessageFacts
  <2> QED
    BY <1>0, <1>2, <1>a, <2>1 DEF Enqueue
<1>3. ASSUME NEW j \in Jobs, EnqueueLost(j) PROVE TypeInv'
  <2>1. faults' \in 0..MaxFaults
    BY <1>3, FaultType DEF EnqueueLost
  <2> QED
    BY <1>0, <1>3, <1>a, <2>1 DEF EnqueueLost
<1>4. ASSUME NEW j \in Jobs, Redeliver(j) PROVE TypeInv'
  <2>1. faults' \in 0..MaxFaults /\ message' \in [Jobs -> Nat]
    BY <1>4, FaultType, MessageFacts DEF Redeliver
  <2> QED
    BY <1>0, <1>4, <1>a, <2>1 DEF Redeliver
<1>5. ASSUME NEW w \in Workers, NEW j \in Jobs, Take(w, j) PROVE TypeInv'
  BY <1>0, <1>5, <1>a, TakeFacts
<1>6. ASSUME NEW w \in Workers, Load(w) \/ Start(w) PROVE TypeInv'
  <2>1. CASE Load(w)
    BY <1>0, <1>a, <2>1, LoadFacts DEF Load
  <2>2. CASE Start(w)
    <3>1. row' \in [Jobs -> Rows] /\ worker' \in [Workers -> WorkerStates]
      BY <2>2, StartFacts
    <3> QED
      BY <1>0, <1>a, <2>2, <3>1 DEF Start
  <2> QED
    BY <1>6, <2>1, <2>2
<1>7. ASSUME NEW w \in Workers, Render(w) \/ Fails(w) PROVE TypeInv'
  <2>1. worker[w].job \in Jobs /\ worker' \in [Workers -> WorkerStates]
    BY <1>7, RenderFacts
  <2>2. PICK f \in Files : f = NewFile(worker[w].job)
    BY <2>1, NewFileType
  <2>3. IsFiniteSet(files \union {f}) /\ IsFiniteSet(partial \union {f})
    BY <1>0, FS_AddElement
  <2>4. /\ files' \in {files, files \union {f}}
        /\ partial' \in {partial, partial \union {f}}
        /\ UNCHANGED <<row, requesting, message, struck, again, faults>>
    BY <1>7, <2>2 DEF Render, Fails, RenderFails, WriteFails
  <2>5. /\ files' \subseteq Files /\ IsFiniteSet(files')
        /\ partial' \subseteq Files /\ IsFiniteSet(partial')
    BY <1>0, <2>3, <2>4
  <2> QED
    BY <1>0, <1>a, <2>1, <2>4, <2>5
<1>8. ASSUME NEW w \in Workers, Save(w) PROVE TypeInv'
  BY <1>0, <1>8, <1>a, SaveFacts DEF Save
<1>9. ASSUME NEW w \in Workers, Crash(w) PROVE TypeInv'
  <2>1. faults' \in 0..MaxFaults
    BY <1>9, FaultType DEF Crash
  <2> QED
    BY <1>0, <1>9, <1>a, <2>1, CrashFacts
<1>10. CASE BrokerForgets
  <2>1. faults' \in 0..MaxFaults
    BY <1>10, FaultType DEF BrokerForgets
  <2>2. message' \in [Jobs -> Nat] /\ struck' \subseteq Jobs
    BY <1>0, <1>10 DEF BrokerForgets
  <2> QED
    BY <1>0, <1>10, <1>a, <2>1, <2>2 DEF BrokerForgets
<1>11. CASE UNCHANGED jobVars
  BY <1>0, <1>11, <1>a DEF jobVars
<1> QED
  BY <1>1, <1>2, <1>3, <1>4, <1>5, <1>6, <1>7, <1>8, <1>9, <1>10, <1>11, Zenon DEF JobsNext, Run, Fails

LEMMA TypeInit == JobsInit => TypeInv
<1> SUFFICES ASSUME JobsInit PROVE TypeInv
  OBVIOUS
<1>1. RowOf("NONE", NoFile, FALSE) \in Rows
  BY DEF RowOf, Rows, Statuses
<1>2. IsFiniteSet(files) /\ files \subseteq Files /\ IsFiniteSet(partial) /\ partial \subseteq Files
  BY FS_EmptySet DEF JobsInit
<1>3. worker \in [Workers -> WorkerStates]
  BY DEF JobsInit, WorkerStates
<1>4. faults \in 0..MaxFaults
  BY FaultsAssumption DEF JobsInit
<1> QED
  BY <1>1, <1>2, <1>3, <1>4, TypeFrom DEF JobsInit

\* Rows, messages and workers keep their types, and the storage is finite.
THEOREM ExportsTyped == JobsSpec => []TypeInv
<1>1. JobsInit /\ [][JobsNext]_jobVars => []TypeInv
  BY TypeInit, TypeStep, PTL
<1> QED
  BY <1>1 DEF JobsSpec

-----------------------------------------------------------------------------
(* What rows name is there *)

\* Files only grow, so a name that was good stays good.
LEMMA NamesStay ==
    ASSUME NEW copy, NEW j, NEW stored, NamesItsFile(copy, j, stored),
           NEW later, stored \subseteq later
    PROVE  NamesItsFile(copy, j, later)
BY DEF NamesItsFile

LEMMA NamesStep == TypeInv /\ RowsNameTheirFiles /\ [JobsNext]_jobVars => RowsNameTheirFiles'
<1> SUFFICES ASSUME TypeInv, RowsNameTheirFiles, [JobsNext]_jobVars PROVE RowsNameTheirFiles'
  OBVIOUS
<1>0. row \in [Jobs -> Rows]
  BY TypeFacts
<1>1. ASSUME NEW j \in Jobs, Create(j) PROVE RowsNameTheirFiles'
  <2>1. /\ row'[j].status = "PENDING" /\ row'[j].file = NoFile
        /\ \A k \in Jobs : k # j => row'[k] = row[k]
        /\ UNCHANGED <<files, worker>>
    BY <1>0, <1>1 DEF Create, RowOf
  <2> QED
    BY <2>1 DEF RowsNameTheirFiles, NamesItsFile, Copied, At, Busy
<1>2. ASSUME UNCHANGED <<row, files, worker>> PROVE RowsNameTheirFiles'
  BY <1>2 DEF RowsNameTheirFiles, NamesItsFile, Copied, At, Busy
<1>3. ASSUME NEW w \in Workers, NEW state,
             UNCHANGED <<row, files>>,
             worker'[w] = state, state.at \in {"idle", "taken"},
             \A v \in Workers : v # w => worker'[v] = worker[v]
      PROVE  RowsNameTheirFiles'
  BY <1>3 DEF RowsNameTheirFiles, NamesItsFile, Copied, At, Busy
<1>4. ASSUME NEW w \in Workers, NEW j \in Jobs, Take(w, j) PROVE RowsNameTheirFiles'
  <2>1. /\ worker'[w] = [at |-> "taken", job |-> j]
        /\ \A v \in Workers : v # w => worker'[v] = worker[v]
        /\ UNCHANGED <<row, files>>
    BY <1>4, TakeFacts
  <2> QED
    BY <1>3, <2>1
<1>5. ASSUME NEW w \in Workers, Crash(w) PROVE RowsNameTheirFiles'
  BY <1>3, <1>5, CrashFacts DEF Idle
<1>b. ASSUME NEW w \in Workers, NEW j \in Jobs,
             worker'[w].job = j, NamesItsFile(worker'[w].copy, j, files'),
             files \subseteq files',
             \A k \in Jobs : NamesItsFile(row'[k], k, files'),
             \A v \in Workers : v # w => worker'[v] = worker[v]
      PROVE  RowsNameTheirFiles'
  <2>1. ASSUME NEW v \in Workers, Copied(v)'
        PROVE  NamesItsFile(worker'[v].copy, worker'[v].job, files')
    <3>1. CASE v = w
      BY <1>b, <3>1
    <3>2. CASE v # w
      <4>1. worker'[v] = worker[v]
        BY <1>b, <3>2
      <4>2. Copied(v)
        BY <2>1, <4>1 DEF Copied, At, Busy
      <4>3. NamesItsFile(worker[v].copy, worker[v].job, files)
        BY <4>2 DEF RowsNameTheirFiles
      <4> QED
        BY <1>b, <4>1, <4>3, NamesStay
    <3> QED
      BY <3>1, <3>2
  <2> QED
    BY <1>b, <2>1 DEF RowsNameTheirFiles
<1>6. ASSUME NEW w \in Workers, Load(w) \/ Start(w) PROVE RowsNameTheirFiles'
  <2>0. PICK j \in Jobs : j = worker[w].job
    BY <1>6, LoadFacts, StartFacts
  <2>1. NamesItsFile(row[j], j, files)
    BY DEF RowsNameTheirFiles
  <2>2. CASE Load(w)
    <3>0. /\ worker'[w] = [at |-> "loaded", job |-> j, copy |-> row[j]]
          /\ \A v \in Workers : v # w => worker'[v] = worker[v]
      BY <2>0, <2>2, LoadFacts
    <3>1. worker'[w].job = j /\ worker'[w].copy = row[j]
      BY <3>0
    <3>2. UNCHANGED <<row, files>>
      BY <2>2 DEF Load
    <3>3. \A k \in Jobs : NamesItsFile(row'[k], k, files')
      BY <3>2 DEF RowsNameTheirFiles
    <3> QED
      BY <1>b, <2>1, <3>0, <3>1, <3>2, <3>3
  <2>3. CASE Start(w)
    <3>1. /\ row'[j].status = "RUNNING" /\ row'[j].file = row[j].file
          /\ \A k \in Jobs : k # j => row'[k] = row[k]
          /\ \A v \in Workers : v # w => worker'[v] = worker[v]
      BY <2>0, <2>3, StartFacts
    <3>a. PICK copy \in Rows :
            /\ worker'[w] = [at |-> "started", job |-> j, copy |-> copy]
            /\ copy.status = "RUNNING" /\ copy.file = worker[w].copy.file
      BY <2>0, <2>3, StartFacts
    <3>2. /\ worker'[w].job = j
          /\ worker'[w].copy.status = "RUNNING" /\ worker'[w].copy.file = worker[w].copy.file
      BY <3>a
    <3>3. Copied(w) /\ files' = files
      BY <2>3 DEF Start, Copied
    <3>4. NamesItsFile(worker[w].copy, j, files)
      BY <2>0, <3>3 DEF RowsNameTheirFiles
    <3>5. NamesItsFile(worker'[w].copy, j, files')
      BY <3>2, <3>3, <3>4 DEF NamesItsFile
    <3>6. ASSUME NEW k \in Jobs PROVE NamesItsFile(row'[k], k, files')
      BY <3>1, <3>3 DEF RowsNameTheirFiles, NamesItsFile
    <3> QED
      BY <1>b, <3>1, <3>2, <3>3, <3>5, <3>6
  <2> QED
    BY <1>6, <2>2, <2>3
<1>7. ASSUME NEW w \in Workers, Render(w) \/ Fails(w) PROVE RowsNameTheirFiles'
  <2>0. PICK j \in Jobs : j = worker[w].job
    BY <1>7, RenderFacts
  <2>1. PICK copy \in Rows :
          /\ worker'[w] = [at |-> "ended", job |-> j, copy |-> copy]
          /\ \/ Render(w) /\ copy.status = "DONE" /\ copy.file = NewFile(j)
             \/ Fails(w) /\ copy.status = "FAILED" /\ copy.file = worker[w].copy.file
    BY <1>7, <2>0, RenderFacts
  <2>2. \A v \in Workers : v # w => worker'[v] = worker[v]
    BY <1>7, RenderFacts
  <2>3. NewFile(j).job = j /\ NewFile(j) # NoFile
    BY NewFileType
  <2>4. /\ row' = row /\ files \subseteq files'
        /\ Render(w) => NewFile(j) \in files'
        /\ Copied(w)
    BY <1>7, <2>0 DEF Render, Fails, RenderFails, WriteFails, Copied
  <2>5. NamesItsFile(worker[w].copy, j, files)
    BY <2>0, <2>4 DEF RowsNameTheirFiles
  <2>6. NamesItsFile(copy, j, files')
    BY <2>1, <2>3, <2>4, <2>5 DEF NamesItsFile
  <2>7. \A k \in Jobs : NamesItsFile(row'[k], k, files')
    BY <2>4, NamesStay DEF RowsNameTheirFiles
  <2>8. worker'[w].job = j /\ worker'[w].copy = copy
    BY <2>1
  <2> QED
    BY <1>b, <2>2, <2>4, <2>6, <2>7, <2>8
<1>8. ASSUME NEW w \in Workers, Save(w) PROVE RowsNameTheirFiles'
  <2> DEFINE j == worker[w].job
  <2>1. /\ j \in Jobs /\ row'[j] = worker[w].copy
        /\ \A k \in Jobs : k # j => row'[k] = row[k]
        /\ worker'[w] = Idle
        /\ \A v \in Workers : v # w => worker'[v] = worker[v]
        /\ files' = files /\ Copied(w)
    BY <1>8, SaveFacts DEF Save, Copied
  <2>2. NamesItsFile(worker[w].copy, j, files)
    BY <2>1 DEF RowsNameTheirFiles
  <2> HIDE DEF j
  <2> QED
    BY <2>1, <2>2 DEF RowsNameTheirFiles, NamesItsFile, Copied, At, Busy
<1>9. ASSUME NEW j \in Jobs, Enqueue(j) \/ EnqueueLost(j) \/ Redeliver(j) PROVE RowsNameTheirFiles'
  BY <1>2, <1>9 DEF Enqueue, EnqueueLost, Redeliver
<1>10. CASE BrokerForgets \/ UNCHANGED jobVars
  BY <1>2, <1>10 DEF BrokerForgets, jobVars
<1> QED
  BY <1>1, <1>4, <1>5, <1>6, <1>7, <1>8, <1>9, <1>10, Zenon DEF JobsNext, Run, Fails

-----------------------------------------------------------------------------
(* A message delivered once is run once *)

\* A job whose row, message and request a step leaves alone, and which no worker
\* takes or drops, is where it was.
LEMMA OtherJobs ==
    ASSUME TypeInv, RunOnce, NEW j \in Jobs \ again,
           row'[j] = row[j], message'[j] = message[j],
           j \in requesting' => j \in requesting,
           NEW w \in Workers,
           \A v \in Workers : v # w => worker'[v] = worker[v],
           ~Holds(w, j), ~Holds(w, j)'
    PROVE  OneHand(j)' /\ TellsProgress(j)'
<1>1. \A v \in Workers : Holds(v, j)' => v # w /\ Holds(v, j) /\ worker'[v] = worker[v]
  BY DEF Holds, Busy
<1>2. \A v \in Workers : Holds(v, j)' =>
        /\ At(v, "taken")' <=> At(v, "taken")
        /\ At(v, "loaded")' <=> At(v, "loaded")
        /\ At(v, "started")' <=> At(v, "started")
        /\ At(v, "ended")' <=> At(v, "ended")
        /\ worker'[v].copy = worker[v].copy
  BY <1>1 DEF At, Busy
<1>3. OneHand(j) /\ TellsProgress(j)
  BY DEF RunOnce
<1> QED
  BY <1>1, <1>2, <1>3 DEF OneHand, TellsProgress

\* A step of the worker that has job j in hand.
LEMMA HeldJob ==
    ASSUME TypeInv, RunOnce, NEW j \in Jobs \ again, NEW w \in Workers, Holds(w, j)
    PROVE  /\ message[j] = 0 /\ j \notin requesting
           /\ \A v \in Workers : Holds(v, j) => v = w
           /\ row[j].status # "DONE" => row[j].file = NoFile
           /\ At(w, "taken") \/ At(w, "loaded") => row[j].status = "PENDING"
           /\ At(w, "started") \/ At(w, "ended") => row[j].status = "RUNNING"
           /\ At(w, "loaded") \/ At(w, "started") => worker[w].copy.file = NoFile
           /\ At(w, "ended") /\ worker[w].copy.status # "DONE" => worker[w].copy.file = NoFile
<1>1. OneHand(j) /\ TellsProgress(j)
  BY DEF RunOnce
<1>2. message[j] \in {0, 1} /\ ~(message[j] > 0)
  BY <1>1 DEF OneHand
<1> QED
  BY <1>1, <1>2 DEF OneHand, TellsProgress

LEMMA RunStep == TypeInv /\ RunOnce /\ [JobsNext]_jobVars => RunOnce'
<1> SUFFICES ASSUME TypeInv, RunOnce, [JobsNext]_jobVars PROVE RunOnce'
  OBVIOUS
<1>0. /\ row \in [Jobs -> Rows] /\ worker \in [Workers -> WorkerStates]
      /\ again \subseteq Jobs /\ message \in [Jobs -> Nat]
  BY TypeFacts
<1>a. ASSUME NEW j \in Jobs \ again PROVE OneHand(j) /\ TellsProgress(j)
  BY DEF RunOnce
<1>1. ASSUME NEW j \in Jobs, Create(j) PROVE RunOnce'
  <2>1. /\ row[j].status = "NONE"
        /\ row'[j].status = "PENDING" /\ row'[j].file = NoFile
        /\ \A k \in Jobs : k # j => row'[k] = row[k]
        /\ requesting' = requesting \union {j}
        /\ UNCHANGED <<message, worker, again>>
    BY <1>0, <1>1 DEF Create, RowOf
  <2>2. ASSUME j \notin again, NEW v \in Workers PROVE ~Holds(v, j)
    <3>1. Holds(v, j) => At(v, "taken") \/ Copied(v)
      BY <1>0, WorkerOf DEF Holds, At, Copied
    <3> QED
      BY <1>a, <2>1, <2>2, <3>1 DEF TellsProgress, Copied
  <2>3. j \notin again => message[j] = 0
    BY <1>a, <2>1 DEF OneHand
  <2>4. ASSUME NEW k \in Jobs \ again PROVE OneHand(k)' /\ TellsProgress(k)'
    <3>1. CASE k = j
      BY <2>1, <2>2, <2>3, <3>1 DEF OneHand, TellsProgress, Holds, Busy
    <3>2. CASE k # j
      BY <1>a, <2>1, <2>4, <3>2 DEF OneHand, TellsProgress, Holds, Busy, At
    <3> QED
      BY <3>1, <3>2
  <2> QED
    BY <2>1, <2>4 DEF RunOnce
<1>2. ASSUME NEW j \in Jobs, Enqueue(j) PROVE RunOnce'
  <2>1. /\ message'[j] = message[j] + 1
        /\ \A k \in Jobs : k # j => message'[k] = message[k]
        /\ j \in requesting /\ requesting' = requesting \ {j}
        /\ UNCHANGED <<row, worker, again>>
    BY <1>2, MessageFacts DEF Enqueue
  <2>2. ASSUME NEW k \in Jobs \ again PROVE OneHand(k)' /\ TellsProgress(k)'
    <3>1. CASE k = j
      BY <1>a, <2>1, <2>2, <3>1 DEF OneHand, TellsProgress, Holds, Busy, At
    <3>2. CASE k # j
      BY <1>a, <2>1, <2>2, <3>2 DEF OneHand, TellsProgress, Holds, Busy, At
    <3> QED
      BY <3>1, <3>2
  <2> QED
    BY <2>1, <2>2 DEF RunOnce
<1>3. ASSUME NEW j \in Jobs, EnqueueLost(j) PROVE RunOnce'
  BY <1>3 DEF EnqueueLost, RunOnce, OneHand, TellsProgress, Holds, Busy, At
<1>4. ASSUME NEW j \in Jobs, Redeliver(j) PROVE RunOnce'
  <2>1. /\ \A k \in Jobs : k # j => message'[k] = message[k]
        /\ again' = again \union {j}
        /\ UNCHANGED <<row, worker, requesting>>
    BY <1>4, MessageFacts DEF Redeliver
  <2> QED
    BY <2>1 DEF RunOnce, OneHand, TellsProgress, Holds, Busy, At
<1>5. ASSUME NEW w \in Workers, NEW j \in Jobs, Take(w, j) PROVE RunOnce'
  <2>1. /\ message[j] > 0 /\ message'[j] = message[j] - 1
        /\ \A k \in Jobs : k # j => message'[k] = message[k]
        /\ ~Busy(w)
        /\ worker'[w] = [at |-> "taken", job |-> j]
        /\ \A v \in Workers : v # w => worker'[v] = worker[v]
        /\ UNCHANGED <<row, requesting, again>>
    BY <1>5, TakeFacts
  <2>2. /\ Holds(w, j)' /\ At(w, "taken")' /\ ~Copied(w)'
        /\ \A k \in Jobs : k # j => ~Holds(w, k)'
        /\ \A k \in Jobs : ~Holds(w, k)
    BY <2>1 DEF Holds, Busy, Copied, At, Idle
  <2>3. ASSUME NEW k \in Jobs \ again PROVE OneHand(k)' /\ TellsProgress(k)'
    <3>1. CASE k = j
      <4>1. /\ message[j] = 1 /\ message'[j] = 0
            /\ j \notin requesting /\ row[j].status = "PENDING"
            /\ \A v \in Workers : ~Holds(v, j)
            /\ row[j].file = NoFile
        BY <1>a, <2>1, <3>1 DEF OneHand, TellsProgress
      <4>2. \A v \in Workers : v # w => ~Holds(v, j)'
        BY <2>1, <4>1 DEF Holds, Busy
      <4> QED
        BY <2>1, <2>2, <3>1, <4>1, <4>2 DEF OneHand, TellsProgress, Copied
    <3>2. CASE k # j
      BY <2>1, <2>2, <3>2, OtherJobs
    <3> QED
      BY <3>1, <3>2
  <2> QED
    BY <2>1, <2>3 DEF RunOnce
<1>b. ASSUME NEW w \in Workers, Load(w) PROVE RunOnce'
  <2>0. PICK j \in Jobs : j = worker[w].job
    BY <1>b, LoadFacts
  <2>1. /\ worker'[w] = [at |-> "loaded", job |-> j, copy |-> row[j]]
        /\ \A v \in Workers : v # w => worker'[v] = worker[v]
    BY <1>b, <2>0, LoadFacts
  <2>2. /\ UNCHANGED <<row, message, requesting, again>>
        /\ At(w, "taken") /\ Holds(w, j)
        /\ \A k \in Jobs : k # j => ~Holds(w, k)
    BY <1>b, <2>0 DEF Load, Holds, At
  <2>3. /\ Holds(w, j)' /\ At(w, "loaded")'
        /\ ~At(w, "taken")' /\ ~At(w, "started")' /\ ~At(w, "ended")'
        /\ worker'[w].copy = row[j]
        /\ \A k \in Jobs : k # j => ~Holds(w, k)'
    BY <2>1 DEF Holds, Busy, At, Idle
  <2>4. ASSUME NEW k \in Jobs \ again PROVE OneHand(k)' /\ TellsProgress(k)'
    <3>1. CASE k = j
      <4>1. /\ message[j] = 0 /\ j \notin requesting
            /\ \A v \in Workers : Holds(v, j) => v = w
            /\ row[j].status = "PENDING" /\ row[j].file = NoFile
        BY <2>2, <2>4, <3>1, HeldJob
      <4>2. \A v \in Workers : v # w => ~Holds(v, j)'
        BY <2>1, <4>1 DEF Holds, Busy
      <4> QED
        BY <2>2, <2>3, <3>1, <4>1, <4>2 DEF OneHand, TellsProgress
    <3>2. CASE k # j
      BY <2>1, <2>2, <2>3, <3>2, OtherJobs
    <3> QED
      BY <3>1, <3>2
  <2> QED
    BY <2>2, <2>4 DEF RunOnce
<1>6. ASSUME NEW w \in Workers, Start(w) PROVE RunOnce'
  <2>0. PICK j \in Jobs : j = worker[w].job
    BY <1>6, StartFacts
  <2>1. /\ row'[j].status = "RUNNING" /\ row'[j].file = row[j].file
        /\ \A k \in Jobs : k # j => row'[k] = row[k]
        /\ \A v \in Workers : v # w => worker'[v] = worker[v]
    BY <1>6, <2>0, StartFacts
  <2>a. PICK copy \in Rows :
          /\ worker'[w] = [at |-> "started", job |-> j, copy |-> copy]
          /\ copy.status = "RUNNING" /\ copy.file = worker[w].copy.file
    BY <1>6, <2>0, StartFacts
  <2>2. /\ UNCHANGED <<message, requesting, again>>
        /\ At(w, "loaded") /\ Holds(w, j)
        /\ \A k \in Jobs : k # j => ~Holds(w, k)
    BY <1>6, <2>0 DEF Start, Holds, At
  <2>3. /\ Holds(w, j)' /\ At(w, "started")'
        /\ ~At(w, "taken")' /\ ~At(w, "loaded")' /\ ~At(w, "ended")'
        /\ worker'[w].copy.file = worker[w].copy.file
        /\ \A k \in Jobs : k # j => ~Holds(w, k)'
    BY <2>a DEF Holds, Busy, At, Idle
  <2>4. ASSUME NEW k \in Jobs \ again PROVE OneHand(k)' /\ TellsProgress(k)'
    <3>1. CASE k = j
      <4>1. /\ message[j] = 0 /\ j \notin requesting
            /\ \A v \in Workers : Holds(v, j) => v = w
            /\ row[j].status = "PENDING" /\ row[j].file = NoFile
            /\ worker[w].copy.file = NoFile
        BY <2>2, <2>4, <3>1, HeldJob
      <4>2. \A v \in Workers : v # w => ~Holds(v, j)'
        BY <2>1, <4>1 DEF Holds, Busy
      <4> QED
        BY <2>1, <2>2, <2>3, <3>1, <4>1, <4>2 DEF OneHand, TellsProgress
    <3>2. CASE k # j
      BY <2>1, <2>2, <2>3, <3>2, OtherJobs
    <3> QED
      BY <3>1, <3>2
  <2> QED
    BY <2>2, <2>4 DEF RunOnce
<1>7. ASSUME NEW w \in Workers, Render(w) \/ Fails(w) PROVE RunOnce'
  <2>0. PICK j \in Jobs : j = worker[w].job
    BY <1>7, RenderFacts
  <2>1. PICK copy \in Rows :
          /\ worker'[w] = [at |-> "ended", job |-> j, copy |-> copy]
          /\ \/ Render(w) /\ copy.status = "DONE" /\ copy.file = NewFile(j)
             \/ Fails(w) /\ copy.status = "FAILED" /\ copy.file = worker[w].copy.file
    BY <1>7, <2>0, RenderFacts
  <2>2. j \in Jobs /\ \A v \in Workers : v # w => worker'[v] = worker[v]
    BY <1>7, <2>0, RenderFacts
  <2>3. /\ UNCHANGED <<row, message, requesting, again>>
        /\ At(w, "started") /\ Holds(w, j)
        /\ \A k \in Jobs : k # j => ~Holds(w, k)
    BY <1>7, <2>0 DEF Render, Fails, RenderFails, WriteFails, Holds, At
  <2>4. copy.status # "DONE" => copy.file = worker[w].copy.file
    BY <2>1
  <2>5. /\ Holds(w, j)' /\ At(w, "ended")'
        /\ ~At(w, "taken")' /\ ~At(w, "loaded")' /\ ~At(w, "started")'
        /\ worker'[w].copy = copy
        /\ \A k \in Jobs : k # j => ~Holds(w, k)'
    BY <2>1 DEF Holds, Busy, At, Idle
  <2>6. ASSUME NEW k \in Jobs \ again PROVE OneHand(k)' /\ TellsProgress(k)'
    <3>1. CASE k = j
      <4>1. /\ message[j] = 0 /\ j \notin requesting
            /\ \A v \in Workers : Holds(v, j) => v = w
            /\ row[j].status = "RUNNING" /\ row[j].file = NoFile
            /\ worker[w].copy.file = NoFile
        BY <2>3, <2>6, <3>1, HeldJob
      <4>2. \A v \in Workers : v # w => ~Holds(v, j)'
        BY <2>2, <4>1 DEF Holds, Busy
      <4> QED
        BY <2>3, <2>4, <2>5, <3>1, <4>1, <4>2 DEF OneHand, TellsProgress
    <3>2. CASE k # j
      BY <2>2, <2>3, <2>5, <3>2, OtherJobs
    <3> QED
      BY <3>1, <3>2
  <2> QED
    BY <2>3, <2>6 DEF RunOnce
<1>8. ASSUME NEW w \in Workers, Save(w) PROVE RunOnce'
  <2>0. PICK j \in Jobs : j = worker[w].job
    BY <1>8, SaveFacts
  <2>1. /\ j \in Jobs /\ row'[j] = worker[w].copy
        /\ \A k \in Jobs : k # j => row'[k] = row[k]
        /\ worker'[w] = Idle
        /\ \A v \in Workers : v # w => worker'[v] = worker[v]
    BY <1>8, <2>0, SaveFacts
  <2>2. /\ UNCHANGED <<message, requesting, again>>
        /\ At(w, "ended") /\ Holds(w, j)
        /\ \A k \in Jobs : k # j => ~Holds(w, k)
    BY <1>8, <2>0 DEF Save, Holds, At
  <2>3. \A k \in Jobs : ~Holds(w, k)'
    BY <2>1 DEF Holds, Busy
  <2>4. ASSUME NEW k \in Jobs \ again PROVE OneHand(k)' /\ TellsProgress(k)'
    <3>1. CASE k = j
      <4>1. /\ message[j] = 0 /\ j \notin requesting
            /\ \A v \in Workers : Holds(v, j) => v = w
            /\ worker[w].copy.status # "DONE" => worker[w].copy.file = NoFile
        BY <2>2, <2>4, <3>1, HeldJob
      <4>2. \A v \in Workers : ~Holds(v, j)'
        BY <2>1, <2>3, <4>1 DEF Holds, Busy
      <4> QED
        BY <2>1, <2>2, <3>1, <4>1, <4>2 DEF OneHand, TellsProgress
    <3>2. CASE k # j
      BY <2>1, <2>2, <2>3, <3>2, OtherJobs
    <3> QED
      BY <3>1, <3>2
  <2> QED
    BY <2>2, <2>4 DEF RunOnce
<1>9. ASSUME NEW w \in Workers, Crash(w) PROVE RunOnce'
  <2>1. /\ worker'[w] = Idle
        /\ \A v \in Workers : v # w => worker'[v] = worker[v]
        /\ UNCHANGED <<row, requesting, message, again>>
    BY <1>9, CrashFacts
  <2>2. \A v \in Workers, k \in Jobs : Holds(v, k)' => v # w /\ Holds(v, k)
    BY <2>1 DEF Holds, Busy
  <2>3. \A v \in Workers : v # w => /\ At(v, "taken")' <=> At(v, "taken")
                                    /\ At(v, "loaded")' <=> At(v, "loaded")
                                    /\ At(v, "started")' <=> At(v, "started")
                                    /\ At(v, "ended")' <=> At(v, "ended")
    BY <2>1 DEF At, Busy
  <2>4. ASSUME NEW k \in Jobs \ again PROVE OneHand(k)' /\ TellsProgress(k)'
    BY <1>a, <2>1, <2>2, <2>3, <2>4 DEF OneHand, TellsProgress
  <2> QED
    BY <2>1, <2>4 DEF RunOnce
<1>10. CASE BrokerForgets
  <2>1. /\ \A k \in Jobs : message'[k] = 0
        /\ UNCHANGED <<row, requesting, worker, again>>
    BY <1>10 DEF BrokerForgets
  <2>2. ASSUME NEW k \in Jobs \ again PROVE OneHand(k)' /\ TellsProgress(k)'
    BY <1>a, <2>1, <2>2 DEF OneHand, TellsProgress, Holds, Busy, At
  <2> QED
    BY <2>1, <2>2 DEF RunOnce
<1>11. CASE UNCHANGED jobVars
  BY <1>11 DEF jobVars, RunOnce, OneHand, TellsProgress, Holds, Busy, At
<1> QED
  BY <1>1, <1>2, <1>3, <1>4, <1>5, <1>b, <1>6, <1>7, <1>8, <1>9, <1>10, <1>11, Zenon DEF JobsNext, Run, Fails

-----------------------------------------------------------------------------
(* What is stored can be downloaded *)

\* Why file f is there.
Explained(f) ==
    \/ row[f.job].file = f
    \/ \E w \in Workers : At(w, "ended") /\ worker[w].copy.file = f
    \/ f.job \in struck \union again

LEMMA LitterStep ==
    TypeInv /\ RowsNameTheirFiles /\ RunOnce /\ NoLitter /\ [JobsNext]_jobVars => NoLitter'
<1> SUFFICES ASSUME TypeInv, RowsNameTheirFiles, RunOnce, NoLitter, [JobsNext]_jobVars
             PROVE  NoLitter'
  OBVIOUS
<1>0. /\ row \in [Jobs -> Rows] /\ files \subseteq Files
      /\ \A f \in files : f.job \in Jobs /\ f # NoFile
  BY TypeFacts, NoFileAssumption DEF Files
<1>a. \A f \in files : Explained(f)
  BY DEF NoLitter, Explained
<1>b. ASSUME \A f \in files' : Explained(f)' PROVE NoLitter'
  BY <1>b DEF NoLitter, Explained
<1>c. \A j \in Jobs \ again : row[j].status # "DONE" => row[j].file = NoFile
  BY DEF RunOnce, TellsProgress
<1>1. ASSUME NEW j \in Jobs, Create(j) PROVE NoLitter'
  <2>1. /\ row[j].status = "NONE"
        /\ \A k \in Jobs : k # j => row'[k] = row[k]
        /\ UNCHANGED <<files, worker, struck, again>>
    BY <1>0, <1>1 DEF Create
  <2>2. j \notin again => row[j].file = NoFile
    BY <1>c, <2>1
  <2>3. ASSUME NEW f \in files PROVE Explained(f)'
    <3>1. CASE f.job # j
      BY <1>0, <1>a, <2>1, <3>1 DEF Explained, At, Busy
    <3>2. CASE f.job = j
      BY <1>0, <1>a, <2>1, <2>2, <3>2 DEF Explained, At, Busy
    <3> QED
      BY <3>1, <3>2
  <2> QED
    BY <1>b, <2>1, <2>3
<1>2. ASSUME UNCHANGED <<row, files, worker>>, struck \subseteq struck', again \subseteq again'
      PROVE  NoLitter'
  BY <1>2 DEF NoLitter, At, Busy
<1>3. ASSUME NEW w \in Workers,
             UNCHANGED <<files, again>>, struck \subseteq struck', ~At(w, "ended"),
             \A k \in Jobs : row'[k].file = row[k].file,
             \A v \in Workers : v # w => worker'[v] = worker[v]
      PROVE  NoLitter'
  <2>1. \A v \in Workers : At(v, "ended") => At(v, "ended")' /\ worker'[v] = worker[v]
    BY <1>3 DEF At, Busy
  <2>2. ASSUME NEW f \in files PROVE Explained(f)'
    BY <1>0, <1>a, <1>3, <2>1 DEF Explained
  <2> QED
    BY <1>3, <1>b, <2>2
<1>4. ASSUME NEW w \in Workers, NEW j \in Jobs, Take(w, j) PROVE NoLitter'
  <2>1. /\ ~Busy(w) /\ UNCHANGED <<row, files, struck, again>>
        /\ \A v \in Workers : v # w => worker'[v] = worker[v]
    BY <1>4, TakeFacts
  <2> QED
    BY <1>3, <2>1 DEF At
<1>5. ASSUME NEW w \in Workers, Crash(w) PROVE NoLitter'
  <2>1. /\ Busy(w)
        /\ struck' = struck \union {worker[w].job}
        /\ \A v \in Workers : v # w => worker'[v] = worker[v]
        /\ UNCHANGED <<row, files, again>>
    BY <1>5, CrashFacts
  <2>2. ASSUME NEW f \in files PROVE Explained(f)'
    <3>1. CASE At(w, "ended") /\ worker[w].copy.file = f
      <4>1. f.job = worker[w].job
        BY <1>0, <2>2, <3>1 DEF RowsNameTheirFiles, NamesItsFile, Copied
      <4> QED
        BY <2>1, <4>1 DEF Explained
    <3>2. CASE \E v \in Workers : v # w /\ At(v, "ended") /\ worker[v].copy.file = f
      BY <2>1, <3>2 DEF Explained, At, Busy
    <3>3. CASE row[f.job].file = f \/ f.job \in struck \union again
      BY <2>1, <3>3 DEF Explained
    <3> QED
      BY <1>a, <3>1, <3>2, <3>3 DEF Explained
  <2> QED
    BY <1>b, <2>1, <2>2
<1>d. ASSUME NEW w \in Workers, Load(w) PROVE NoLitter'
  <2>1. \A v \in Workers : v # w => worker'[v] = worker[v]
    BY <1>d, LoadFacts
  <2>2. ~At(w, "ended") /\ UNCHANGED <<row, files, struck, again>>
    BY <1>d DEF Load, At
  <2> QED
    BY <1>3, <2>1, <2>2
<1>6. ASSUME NEW w \in Workers, Start(w) PROVE NoLitter'
  <2>0. PICK j \in Jobs : j = worker[w].job
    BY <1>6, StartFacts
  <2>1. /\ row'[j].file = row[j].file
        /\ \A k \in Jobs : k # j => row'[k] = row[k]
        /\ \A v \in Workers : v # w => worker'[v] = worker[v]
    BY <1>6, <2>0, StartFacts
  <2>2. ~At(w, "ended") /\ UNCHANGED <<files, struck, again>>
    BY <1>6 DEF Start, At
  <2> QED
    BY <1>3, <2>1, <2>2
<1>7. ASSUME NEW w \in Workers, Fails(w) PROVE NoLitter'
  <2>1. \A v \in Workers : v # w => worker'[v] = worker[v]
    BY <1>7, RenderFacts
  <2>2. ~At(w, "ended") /\ UNCHANGED <<row, files, struck, again>>
    BY <1>7 DEF Fails, RenderFails, WriteFails, At
  <2> QED
    BY <1>3, <2>1, <2>2
<1>8. ASSUME NEW w \in Workers, Render(w) PROVE NoLitter'
  <2>0. PICK j \in Jobs : j = worker[w].job
    BY <1>8, RenderFacts
  <2>1. \A v \in Workers : v # w => worker'[v] = worker[v]
    BY <1>8, RenderFacts
  <2>2. worker' = [worker EXCEPT ![w] = [at |-> "ended", job |-> j,
            copy |-> [worker[w].copy EXCEPT !.status = "DONE", !.file = NewFile(j)]]]
    BY <1>8, <2>0 DEF Render, Keep
  <2>3. worker[w].copy \in Rows /\ worker \in [Workers -> WorkerStates]
    BY <1>8, WorkerOf, TypeFacts DEF Render, Copied
  <2>4. worker'[w].at = "ended" /\ worker'[w].copy.file = NewFile(j)
    BY <2>2, <2>3 DEF Rows
  <2>5. /\ ~At(w, "ended") /\ UNCHANGED <<row, struck, again>>
        /\ files' = files \union {NewFile(j)}
    BY <1>8, <2>0 DEF Render, At
  <2>6. \A v \in Workers : At(v, "ended") => At(v, "ended")' /\ worker'[v] = worker[v]
    BY <2>1, <2>5 DEF At, Busy
  <2>7. ASSUME NEW f \in files PROVE Explained(f)'
    BY <1>a, <2>5, <2>6 DEF Explained
  <2>8. At(w, "ended")'
    BY <2>4 DEF At, Busy, Idle
  <2>9. PICK g : g = NewFile(j)
    OBVIOUS
  <2>10. Explained(g)'
    BY <2>4, <2>8, <2>9 DEF Explained
  <2> QED
    BY <1>b, <2>5, <2>7, <2>9, <2>10
<1>9. ASSUME NEW w \in Workers, Save(w) PROVE NoLitter'
  <2>0. PICK j \in Jobs : j = worker[w].job
    BY <1>9, SaveFacts
  <2>1. /\ row'[j] = worker[w].copy
        /\ \A k \in Jobs : k # j => row'[k] = row[k]
        /\ \A v \in Workers : v # w => worker'[v] = worker[v]
    BY <1>9, <2>0, SaveFacts
  <2>2. At(w, "ended") /\ UNCHANGED <<files, struck, again>>
    BY <1>9 DEF Save
  <2>3. j \notin again => row[j].file = NoFile
    <3>1. Holds(w, j)
      BY <2>0, <2>2 DEF Holds, At
    <3>2. j \notin again => row[j].status = "RUNNING"
      BY <2>2, <3>1, HeldJob
    <3> QED
      BY <1>c, <3>2
  <2>4. ASSUME NEW f \in files PROVE Explained(f)'
    <3>1. CASE At(w, "ended") /\ worker[w].copy.file = f
      <4>1. f.job = j
        BY <1>0, <2>0, <2>4, <3>1 DEF RowsNameTheirFiles, NamesItsFile, Copied
      <4> QED
        BY <2>1, <3>1, <4>1 DEF Explained
    <3>2. CASE \E v \in Workers : v # w /\ At(v, "ended") /\ worker[v].copy.file = f
      BY <2>1, <3>2 DEF Explained, At, Busy
    <3>3. CASE row[f.job].file = f
      BY <1>0, <2>1, <2>2, <2>3, <2>4, <3>3 DEF Explained
    <3>4. CASE f.job \in struck \union again
      BY <2>2, <3>4 DEF Explained
    <3> QED
      BY <1>a, <3>1, <3>2, <3>3, <3>4 DEF Explained
  <2> QED
    BY <1>b, <2>2, <2>4
<1>10. ASSUME NEW j \in Jobs, Enqueue(j) \/ EnqueueLost(j) \/ Redeliver(j) PROVE NoLitter'
  BY <1>2, <1>10 DEF Enqueue, EnqueueLost, Redeliver
<1>11. CASE BrokerForgets \/ UNCHANGED jobVars
  BY <1>2, <1>11 DEF BrokerForgets, jobVars
<1> QED
  BY <1>1, <1>4, <1>5, <1>d, <1>6, <1>7, <1>8, <1>9, <1>10, <1>11, Zenon DEF JobsNext, Run, Fails

LEMMA JobInvHolds == JobsInit /\ [][JobsNext]_jobVars => []JobInv
<1>1. JobsInit => JobInv
  <2> SUFFICES ASSUME JobsInit PROVE JobInv
    OBVIOUS
  <2>1. /\ \A j \in Jobs : row[j].status = "NONE" /\ row[j].file = NoFile /\ message[j] = 0
        /\ \A w \in Workers : ~Busy(w)
        /\ files = {} /\ requesting = {}
    BY DEF JobsInit, RowOf, Busy
  <2> QED
    BY <2>1 DEF JobInv, RowsNameTheirFiles, NamesItsFile, RunOnce, OneHand, TellsProgress,
                NoLitter, Holds, Copied, At
<1>2. TypeInv /\ JobInv /\ [JobsNext]_jobVars => JobInv'
  BY NamesStep, RunStep, LitterStep DEF JobInv
<1>3. JobsInit /\ [][JobsNext]_jobVars => []TypeInv
  BY TypeInit, TypeStep, PTL
<1> QED
  BY <1>1, <1>2, <1>3, PTL

\* What the download endpoint sends is there and is the job's own, and what is
\* in the storage is what a row names, what a worker is about to save, or what a
\* crash or a second run explains, however jobs and faults interleave (run_export,
\* ExportDownloadView).
THEOREM StorageAndJobsAgree == JobsSpec => []FilesMatchJobs
<1>1. TypeInv /\ JobInv => FilesMatchJobs
  BY DEF JobInv, RowsNameTheirFiles, NamesItsFile, FilesMatchJobs, DownloadsWork
<1>2. JobsInit /\ [][JobsNext]_jobVars => []TypeInv
  BY TypeInit, TypeStep, PTL
<1>3. JobsInit /\ [][JobsNext]_jobVars => []FilesMatchJobs
  BY <1>1, <1>2, JobInvHolds, PTL
<1> QED
  BY <1>3 DEF JobsSpec

\* A job that ended has nobody left that would touch it again, unless its message
\* came twice: the client finds later what it was told (run_export's save).
THEOREM EndedJobsStay == JobsSpec => EndedStays
<1> DEFINE Stays == \A j \in Jobs :
        row[j].status \in {"DONE", "FAILED"} => row'[j] = row[j] \/ j \in again
<1>1. TypeInv /\ JobInv /\ [JobsNext]_jobVars => Stays
  <2> SUFFICES ASSUME TypeInv, RunOnce, [JobsNext]_jobVars, NEW k \in Jobs,
                      row[k].status \in {"DONE", "FAILED"}, k \notin again
               PROVE  row'[k] = row[k]
    BY DEF JobInv
  <2>0. row \in [Jobs -> Rows]
    BY TypeFacts
  <2>1. ASSUME NEW w \in Workers PROVE ~Holds(w, k)
    <3>1. Holds(w, k) => At(w, "taken") \/ Copied(w)
      BY WorkerOf, TypeFacts DEF Holds, At, Copied
    <3>2. Holds(w, k) => row[k].status \in {"PENDING", "RUNNING"}
      BY <3>1, HeldJob DEF Copied
    <3> QED
      BY <3>2
  <2>2. ASSUME NEW j \in Jobs, Create(j) PROVE row'[k] = row[k]
    BY <2>0, <2>2 DEF Create
  <2>3. ASSUME NEW w \in Workers, Start(w) PROVE row'[k] = row[k]
    BY <2>1, <2>3, StartFacts DEF Start, Holds, At
  <2>4. ASSUME NEW w \in Workers, Save(w) PROVE row'[k] = row[k]
    BY <2>1, <2>4, SaveFacts DEF Save, Holds, At
  <2>5. ASSUME NEW w \in Workers, Render(w) \/ Fails(w) \/ Load(w) \/ Crash(w)
        PROVE  row'[k] = row[k]
    BY <2>5 DEF Render, Fails, RenderFails, WriteFails, Load, Crash
  <2>6. ASSUME NEW j \in Jobs, Enqueue(j) \/ EnqueueLost(j) \/ Redeliver(j)
        PROVE  row'[k] = row[k]
    BY <2>6 DEF Enqueue, EnqueueLost, Redeliver
  <2>7. ASSUME NEW w \in Workers, NEW j \in Jobs, Take(w, j) PROVE row'[k] = row[k]
    BY <2>7 DEF Take
  <2>8. CASE BrokerForgets \/ UNCHANGED jobVars
    BY <2>8 DEF BrokerForgets, jobVars
  <2> QED
    BY <2>2, <2>3, <2>4, <2>5, <2>6, <2>7, <2>8, Zenon DEF JobsNext, Run, Fails
<1>2. JobsInit /\ [][JobsNext]_jobVars => []TypeInv
  BY TypeInit, TypeStep, PTL
<1>3. TypeInv /\ JobInv /\ [JobsNext]_jobVars => [Stays]_jobVars
  BY <1>1
<1>4. JobsInit /\ [][JobsNext]_jobVars => [][Stays]_jobVars
  BY <1>2, <1>3, JobInvHolds, PTL
<1> QED
  BY <1>4 DEF JobsSpec, EndedStays
-----------------------------------------------------------------------------
(* The workspace handoff *)

\* A request between the age check and the nonce looked at a token that was in
\* its window.
AgedInWindow ==
    \A r \in Arrivals : IsAt(r, "aged") =>
        /\ arrival[r].token \in Tokens
        /\ issued[arrival[r].token] \in Int
        /\ arrival[r].since - issued[arrival[r].token] \in -MaxAge..MaxAge
        /\ arrival[r].since <= now

\* The nonce of an admitted request is kept for three ages after its token was dated.
NonceOutlivesToken ==
    ~forgotten => \A r \in Arrivals : arrival[r].at \in PastNonce =>
        /\ arrival[r].token \in Tokens
        /\ issued[arrival[r].token] \in Int
        /\ remembered[arrival[r].token] >= issued[arrival[r].token] + 3 * MaxAge

OnceInv == AgedInWindow /\ NonceOutlivesToken /\ TokenOpensOnce

\* Only an answered request has a session, and each station on the way to it
\* left its row.
TraceInv ==
    \A r \in Arrivals :
        /\ r \in sessions => IsAt(r, "home")
        /\ arrival[r].at \in {"signedIn", "traced", "home"} => <<r, "LOGIN">> \in trail
        /\ arrival[r].at \in {"traced", "home"} => <<r, "LOGIN by handoff">> \in trail
        /\ IsAt(r, "loginPage") => <<r, "LOGIN_FAILED">> \in trail

-----------------------------------------------------------------------------
(* Types *)

\* Where the requests are.
ArrivalsTyped == arrival \in [Arrivals -> [at: Places, token: Tokens \union {NoToken}, since: Nat]]

\* A request that goes to another place keeps its token, and the others stay.
LEMMA GoToFacts ==
    ASSUME ArrivalsTyped, NEW r \in Arrivals, NEW place \in Places, GoTo(r, place)
    PROVE  /\ ArrivalsTyped'
           /\ arrival'[r].at = place
           /\ arrival'[r].token = arrival[r].token
           /\ \A s \in Arrivals : s # r => arrival'[s] = arrival[s]
<1> DEFINE A == [at: Places, token: Tokens \union {NoToken}, since: Nat]
           one == [arrival EXCEPT ![r].at = place]
<1>1. arrival \in [Arrivals -> A]
  BY DEF ArrivalsTyped
<1>2. arrival[r] \in A
  BY <1>1
<1>3. [arrival[r] EXCEPT !.at = place] =
         [at |-> place, token |-> arrival[r].token, since |-> arrival[r].since]
  BY <1>2
<1>4. one = [arrival EXCEPT ![r] = [at |-> place, token |-> arrival[r].token,
                                    since |-> arrival[r].since]]
  BY <1>3, Zenon
<1>5. [at |-> place, token |-> arrival[r].token, since |-> arrival[r].since] \in A
  BY <1>2
<1>6. /\ one \in [Arrivals -> A]
      /\ one[r] = [at |-> place, token |-> arrival[r].token, since |-> arrival[r].since]
      /\ \A s \in Arrivals : s # r => one[s] = arrival[s]
  BY <1>1, <1>4, <1>5
<1> HIDE DEF one
<1>7. arrival' = [one EXCEPT ![r] = [at |-> place, token |-> arrival[r].token, since |-> 0]]
  <2>1. [one[r] EXCEPT !.since = 0] = [at |-> place, token |-> arrival[r].token, since |-> 0]
    BY <1>6
  <2>2. arrival' = [one EXCEPT ![r].since = 0]
    BY DEF GoTo, one
  <2> QED
    BY <2>1, <2>2, Zenon
<1>8. [at |-> place, token |-> arrival[r].token, since |-> 0] \in A
  BY <1>2
<1> HIDE DEF A
<1>9. arrival' \in [Arrivals -> A] /\ \A s \in Arrivals : s # r => arrival'[s] = arrival[s]
  BY <1>6, <1>7, <1>8
<1>10. arrival'[r] = [at |-> place, token |-> arrival[r].token, since |-> 0]
  BY <1>6, <1>7
<1> QED
  BY <1>9, <1>10 DEF A, ArrivalsTyped

\* The clock shows a number.
LEMMA ClockTyped == HandoffTypeOK => now \in Nat
<1>1. HandoffTypeOK => now \in 0..MaxTime
  BY DEF HandoffTypeOK
<1> QED
  BY <1>1, TimeAssumption

\* An audit row names a request and one of the three events.
LEMMA AuditTyped ==
    ASSUME HandoffTypeOK, NEW r \in Arrivals,
           NEW kind \in {"LOGIN_FAILED", "LOGIN", "LOGIN by handoff"}, Audit(r, kind)
    PROVE  trail' \subseteq Arrivals \X {"LOGIN_FAILED", "LOGIN", "LOGIN by handoff"}
<1>1. trail \subseteq Arrivals \X {"LOGIN_FAILED", "LOGIN", "LOGIN by handoff"}
  BY DEF HandoffTypeOK
<1>2. <<r, kind>> \in Arrivals \X {"LOGIN_FAILED", "LOGIN", "LOGIN by handoff"}
  OBVIOUS
<1> QED
  BY <1>1, <1>2, Zenon DEF Audit

\* Every action keeps clocks, requests, cache and audit rows in their types.
LEMMA HandoffTypeStep == HandoffTypeOK /\ [HandoffNext]_handoffVars => HandoffTypeOK'
<1> SUFFICES ASSUME HandoffTypeOK, [HandoffNext]_handoffVars PROVE HandoffTypeOK'
  OBVIOUS
<1>0. ArrivalsTyped
  BY DEF HandoffTypeOK, ArrivalsTyped
<1>t. now \in Nat /\ MaxTime \in Nat /\ MaxAge \in Nat
  BY ClockTyped, TimeAssumption
<1>r. rested \subseteq Arrivals
  BY DEF HandoffTypeOK
<1>1. ASSUME NEW t \in Tokens, NEW skew \in Skews, Issue(t, skew) PROVE HandoffTypeOK'
  <2>1. skew \in Int
    BY TimeAssumption
  <2>2. now + skew \in Int
    BY <1>t, <2>1
  <2> QED
    BY <1>1, <2>2 DEF Issue, HandoffTypeOK
<1>2. ASSUME NEW r \in Arrivals, NEW t \in Tokens, Arrive(r, t) PROVE HandoffTypeOK'
  <2>1. now \in Nat
    BY <1>t
  <2>2. [at |-> "aged", token |-> t, since |-> now] \in
           [at: Places, token: Tokens \union {NoToken}, since: Nat]
    BY <2>1 DEF Places
  <2> QED
    BY <1>2, <2>2 DEF Arrive, HandoffTypeOK
<1>3. ASSUME NEW r \in Arrivals, Reject(r) PROVE HandoffTypeOK'
  <2>1. ArrivalsTyped'
    BY <1>0, <1>3, GoToFacts, "loginPage" \in Places DEF Reject, Places
  <2>2. trail' \subseteq Arrivals \X {"LOGIN_FAILED", "LOGIN", "LOGIN by handoff"}
    BY <1>3, AuditTyped DEF Reject
  <2>3. UNCHANGED <<now, issued, remembered, active, sessions, forgotten, rested>>
    BY <1>3 DEF Reject
  <2> QED
    BY <2>1, <2>2, <2>3 DEF HandoffTypeOK, ArrivalsTyped
<1>4. ASSUME NEW r \in Arrivals, Burn(r) PROVE HandoffTypeOK'
  <2>1. now + Lifetime \in Nat
    BY <1>t DEF Lifetime
  <2>2. ArrivalsTyped'
    BY <1>0, <1>4, GoToFacts, "burned" \in Places DEF Burn, Places
  <2>3. rested' \subseteq Arrivals
    BY <1>r, <1>4 DEF Burn
  <2> QED
    BY <1>4, <2>1, <2>2, <2>3 DEF Burn, HandoffTypeOK, ArrivalsTyped
<1>5. ASSUME NEW r \in Arrivals, FindUser(r) \/ Login(r) \/ Record(r) \/ Answer(r) \/ Die(r)
      PROVE  HandoffTypeOK'
  <2>1. PICK place \in Places : GoTo(r, place)
    BY <1>5 DEF FindUser, Login, Record, Answer, Die, Places
  <2>2. ArrivalsTyped'
    BY <1>0, <2>1, GoToFacts
  <2>3. trail' \subseteq Arrivals \X {"LOGIN_FAILED", "LOGIN", "LOGIN by handoff"}
    <3>1. \/ Audit(r, "LOGIN") \/ Audit(r, "LOGIN by handoff")
          \/ trail' = trail
      BY <1>5 DEF FindUser, Login, Record, Answer, Die
    <3> QED
      BY <3>1, AuditTyped DEF HandoffTypeOK
  <2>4. sessions' \in SUBSET Arrivals
    BY <1>5 DEF FindUser, Login, Record, Answer, Die, HandoffTypeOK
  <2>5. UNCHANGED <<now, issued, remembered, active, forgotten, rested>>
    BY <1>5 DEF FindUser, Login, Record, Answer, Die
  <2> QED
    BY <2>2, <2>3, <2>4, <2>5 DEF HandoffTypeOK, ArrivalsTyped
<1>6. CASE CacheForgets
  BY <1>6 DEF CacheForgets, HandoffTypeOK
<1>7. CASE SetActive
  BY <1>7 DEF SetActive, HandoffTypeOK
<1>8. CASE Tick
  <2>1. now' \in 0..MaxTime
    BY <1>t, <1>8 DEF Tick
  <2> QED
    BY <1>8, <2>1 DEF Tick, HandoffTypeOK
<1>9. CASE UNCHANGED handoffVars
  BY <1>9 DEF handoffVars, HandoffTypeOK
<1>10. ASSUME NEW r \in Arrivals, NEW t \in Tokens, ArriveLate(r, t) PROVE HandoffTypeOK'
  BY <1>3, <1>10 DEF ArriveLate
<1>11. ASSUME NEW r \in Arrivals, Replayed(r) \/ NoAccount(r) PROVE HandoffTypeOK'
  BY <1>3, <1>11 DEF Replayed, NoAccount
<1> QED
  BY <1>1, <1>2, <1>4, <1>5, <1>6, <1>7, <1>8, <1>9, <1>10, <1>11, Zenon DEF HandoffNext

\* Clocks, requests, cache and audit rows have their types.
THEOREM HandoffTyped == HandoffSpec => []HandoffTypeOK
<1>1. ASSUME HandoffInit PROVE HandoffTypeOK
  <2>1. now \in 0..MaxTime
    BY <1>1, TimeAssumption DEF HandoffInit
  <2>2. \A r \in Arrivals : [at |-> "new", token |-> NoToken, since |-> 0] \in
           [at: Places, token: Tokens \union {NoToken}, since: Nat]
    BY DEF Places
  <2>3. arrival \in [Arrivals -> [at: Places, token: Tokens \union {NoToken}, since: Nat]]
    BY <1>1, <2>2 DEF HandoffInit
  <2> QED
    BY <1>1, <2>1, <2>3 DEF HandoffInit, HandoffTypeOK
<1>2. HandoffTypeOK /\ [HandoffNext]_handoffVars => HandoffTypeOK'
  BY HandoffTypeStep
<1> QED
  BY <1>1, <1>2, PTL DEF HandoffSpec

-----------------------------------------------------------------------------
(* A token opens one session *)

\* The same as TokenOpensOnce, in the words of the invariant.
LEMMA OnceMeans ==
    TokenOpensOnce <=> (~forgotten => \A r, s \in Arrivals \ rested :
        /\ arrival[r].at \in PastNonce
        /\ arrival[s].at \in PastNonce
        /\ arrival[r].token = arrival[s].token
        => r = s)
BY DEF TokenOpensOnce, Admitted

\* A request that moves on with its nonce, or gives up, disturbs nothing.
LEMMA MovingOnKeepsOnce ==
    ASSUME ArrivalsTyped, OnceInv, NEW r \in Arrivals,
           NEW place \in Places \ {"aged"}, GoTo(r, place),
           place \in PastNonce => arrival[r].at \in PastNonce,
           UNCHANGED <<now, issued, remembered, forgotten, rested>>
    PROVE  OnceInv'
<1>1. /\ arrival'[r].at = place
      /\ arrival'[r].token = arrival[r].token
      /\ \A s \in Arrivals : s # r => arrival'[s] = arrival[s]
  BY GoToFacts
<1>2. \A s \in Arrivals : /\ arrival'[s].token = arrival[s].token
                          /\ arrival'[s].at \in PastNonce => arrival[s].at \in PastNonce
  BY <1>1
<1>3. AgedInWindow'
  BY <1>1 DEF OnceInv, AgedInWindow, IsAt
<1>4. NonceOutlivesToken'
  BY <1>2 DEF OnceInv, NonceOutlivesToken
<1>5. TokenOpensOnce'
  BY <1>2 DEF OnceInv, TokenOpensOnce, Admitted
<1> QED
  BY <1>3, <1>4, <1>5 DEF OnceInv

\* While the nonce of an admitted request is kept, nobody else who passed the
\* age check with the same token and did not rest finds it free.
LEMMA NonceIsKept ==
    ASSUME HandoffTypeOK, OnceInv, ~forgotten,
           NEW r \in Arrivals, NEW s \in Arrivals,
           IsAt(r, "aged"), arrival[s].at \in PastNonce,
           arrival[r].token = arrival[s].token, Rest(r) < 2 * MaxAge
    PROVE  ~Unburned(arrival[r].token)
<1> DEFINE t == arrival[r].token
           start == arrival[r].since
           due == issued[t]
           until == remembered[t]
<1>1. t \in Tokens /\ due \in Int /\ start - due \in -MaxAge..MaxAge /\ now - start < 2 * MaxAge
  BY DEF OnceInv, AgedInWindow, Rest
<1>2. until >= due + 3 * MaxAge
  BY DEF OnceInv, NonceOutlivesToken
<1>3. start \in Nat /\ until \in Nat
  BY <1>1 DEF HandoffTypeOK
<1>4. now \in Nat
  BY ClockTyped
<1> HIDE DEF start, due, until
<1>5. until > now
  BY <1>1, <1>2, <1>3, <1>4, TimeAssumption
<1> QED
  BY <1>4, <1>3, <1>5 DEF Unburned, until

\* The arrival that burns the nonce is the only one admitted with its token, or rested.
LEMMA BurnKeepsOnce ==
    ASSUME HandoffTypeOK, OnceInv, NEW r \in Arrivals, Burn(r)
    PROVE  OnceInv'
<1> DEFINE t == arrival[r].token
<1>0. ArrivalsTyped
  BY DEF HandoffTypeOK, ArrivalsTyped
<1>1. /\ arrival'[r].at = "burned"
      /\ arrival'[r].token = t
      /\ \A s \in Arrivals : s # r => arrival'[s] = arrival[s]
  <2>1. GoTo(r, "burned") /\ "burned" \in Places
    BY DEF Burn, Places
  <2> QED
    BY <1>0, <2>1, GoToFacts
<1>2. UNCHANGED <<now, issued, forgotten>> /\ IsAt(r, "aged") /\ Unburned(t)
  BY DEF Burn
<1>3. /\ t \in Tokens
      /\ issued[t] \in Int
      /\ arrival[r].since - issued[t] \in -MaxAge..MaxAge
      /\ arrival[r].since <= now
  BY <1>2 DEF OnceInv, AgedInWindow
<1>4. AgedInWindow'
  BY <1>1, <1>2 DEF OnceInv, AgedInWindow, IsAt
<1>5. remembered'[t] = now + 4 * MaxAge /\ \A u \in Tokens : u # t => remembered'[u] = remembered[u]
  BY <1>3 DEF Burn, Lifetime, HandoffTypeOK
<1>6. remembered'[t] >= issued[t] + 3 * MaxAge
  <2> DEFINE start == arrival[r].since
             due == issued[t]
  <2>1. start \in Nat /\ now \in Nat
    BY ClockTyped DEF HandoffTypeOK
  <2>2. due \in Int /\ start - due \in -MaxAge..MaxAge /\ start <= now
    BY <1>3
  <2> HIDE DEF start, due
  <2>3. now + 4 * MaxAge >= due + 3 * MaxAge
    BY <2>1, <2>2, TimeAssumption
  <2> QED
    BY <1>5, <2>3 DEF due
<1>7. /\ rested \subseteq rested'
      /\ \A s \in Arrivals : /\ ~forgotten
                             /\ arrival[s].at \in PastNonce
                             /\ r \notin rested'
                             => arrival[s].token # t
  <2>1. rested' = IF Rest(r) >= 2 * MaxAge THEN rested \union {r} ELSE rested
    BY DEF Burn
  <2>2. arrival[r].since \in Nat /\ now \in Nat
    BY ClockTyped DEF HandoffTypeOK
  <2>3. Rest(r) >= 2 * MaxAge \/ Rest(r) < 2 * MaxAge
    BY <2>2, TimeAssumption DEF Rest
  <2>4. r \notin rested' => Rest(r) < 2 * MaxAge
    BY <2>1, <2>3
  <2> QED
    BY <1>2, <2>1, <2>4, NonceIsKept
<1> HIDE DEF t
<1>8. NonceOutlivesToken'
  <2> SUFFICES ASSUME ~forgotten', NEW s \in Arrivals, arrival'[s].at \in PastNonce
               PROVE  /\ arrival'[s].token \in Tokens
                      /\ issued'[arrival'[s].token] \in Int
                      /\ remembered'[arrival'[s].token] >= issued'[arrival'[s].token] + 3 * MaxAge
    BY DEF NonceOutlivesToken
  <2>1. CASE s = r
    BY <1>1, <1>2, <1>3, <1>6, <2>1
  <2>2. CASE s # r
    <3>1. arrival'[s] = arrival[s] /\ arrival[s].at \in PastNonce
      BY <1>1, <2>2
    <3>2. /\ arrival[s].token \in Tokens
          /\ issued[arrival[s].token] \in Int
          /\ remembered[arrival[s].token] >= issued[arrival[s].token] + 3 * MaxAge
      BY <1>2, <3>1 DEF OnceInv, NonceOutlivesToken
    <3>3. CASE arrival[s].token = t
      BY <1>2, <1>3, <1>6, <3>1, <3>3
    <3>4. CASE arrival[s].token # t
      <4>1. remembered'[arrival[s].token] = remembered[arrival[s].token]
        BY <1>5, <3>2, <3>4
      <4> QED
        BY <1>2, <3>1, <3>2, <4>1
    <3> QED
      BY <3>3, <3>4
  <2> QED
    BY <2>1, <2>2
<1>9. TokenOpensOnce'
  <2>1. ASSUME ~forgotten', NEW p \in Arrivals \ rested', NEW s \in Arrivals \ rested',
               arrival'[p].at \in PastNonce, arrival'[s].at \in PastNonce,
               arrival'[p].token = arrival'[s].token
        PROVE  p = s
    BY <1>1, <1>2, <1>7, <2>1, OnceMeans DEF OnceInv
  <2> QED
    BY <2>1 DEF TokenOpensOnce, Admitted
<1> QED
  BY <1>4, <1>8, <1>9 DEF OnceInv

\* A request that comes in time has just looked at its token's age.
LEMMA ArriveKeepsOnce ==
    ASSUME HandoffTypeOK, OnceInv, NEW r \in Arrivals, NEW t \in Tokens, Arrive(r, t)
    PROVE  OnceInv'
<1>1. /\ arrival' = [arrival EXCEPT ![r] = [at |-> "aged", token |-> t, since |-> now]]
      /\ UNCHANGED <<now, issued, remembered, forgotten, rested>>
      /\ issued[t] # NoToken
      /\ now - issued[t] \in -MaxAge..MaxAge
  BY DEF Arrive, InWindow
<1>2. /\ arrival'[r] = [at |-> "aged", token |-> t, since |-> now]
      /\ \A s \in Arrivals : s # r => arrival'[s] = arrival[s]
  BY <1>1 DEF HandoffTypeOK
<1>3. now <= now
  BY ClockTyped
<1>4. issued[t] \in Int
  BY <1>1 DEF HandoffTypeOK
<1>5. AgedInWindow'
  BY <1>1, <1>2, <1>3, <1>4 DEF OnceInv, AgedInWindow, IsAt
<1>6. \A s \in Arrivals : arrival'[s].at \in PastNonce => s # r
  BY <1>2 DEF PastNonce
<1>7. NonceOutlivesToken'
  BY <1>1, <1>2, <1>6 DEF OnceInv, NonceOutlivesToken
<1>8. TokenOpensOnce'
  <2>1. ASSUME ~forgotten', NEW p \in Arrivals \ rested', NEW s \in Arrivals \ rested',
               arrival'[p].at \in PastNonce, arrival'[s].at \in PastNonce,
               arrival'[p].token = arrival'[s].token
        PROVE  p = s
    BY <1>1, <1>2, <1>6, <2>1, OnceMeans DEF OnceInv
  <2> QED
    BY <2>1 DEF TokenOpensOnce, Admitted
<1> QED
  BY <1>5, <1>7, <1>8 DEF OnceInv

\* A token is dated once: what requests know of issued tokens stays true.
LEMMA IssueKeepsOnce ==
    ASSUME HandoffTypeOK, OnceInv, NEW t \in Tokens, NEW skew \in Skews, Issue(t, skew)
    PROVE  OnceInv'
<1>1. /\ issued[t] \notin Int
      /\ issued' = [issued EXCEPT ![t] = now + skew]
      /\ UNCHANGED <<now, remembered, arrival, forgotten, rested>>
  BY NoTokenAssumption DEF Issue
<1>2. \A u \in Tokens : issued[u] \in Int => issued'[u] = issued[u]
  BY <1>1 DEF HandoffTypeOK
<1>3. AgedInWindow'
  BY <1>1, <1>2 DEF OnceInv, AgedInWindow, IsAt
<1>4. NonceOutlivesToken'
  BY <1>1, <1>2 DEF OnceInv, NonceOutlivesToken
<1>5. TokenOpensOnce'
  BY <1>1 DEF OnceInv, TokenOpensOnce, Admitted
<1> QED
  BY <1>3, <1>4, <1>5 DEF OnceInv

\* Every action keeps the windows, the nonces and the single use.
LEMMA OnceStep == HandoffTypeOK /\ OnceInv /\ [HandoffNext]_handoffVars => OnceInv'
<1> SUFFICES ASSUME HandoffTypeOK, OnceInv, [HandoffNext]_handoffVars PROVE OnceInv'
  OBVIOUS
<1>0. ArrivalsTyped
  BY DEF HandoffTypeOK, ArrivalsTyped
<1>1. ASSUME NEW t \in Tokens, NEW skew \in Skews, Issue(t, skew) PROVE OnceInv'
  BY <1>1, IssueKeepsOnce
<1>2. ASSUME NEW r \in Arrivals, NEW t \in Tokens, Arrive(r, t) PROVE OnceInv'
  BY <1>2, ArriveKeepsOnce
<1>3. ASSUME NEW r \in Arrivals, Reject(r) PROVE OnceInv'
  <2>1. /\ "loginPage" \in Places \ {"aged"} /\ "loginPage" \notin PastNonce
        /\ GoTo(r, "loginPage")
        /\ UNCHANGED <<now, issued, remembered, forgotten, rested>>
    BY <1>3 DEF Reject, Places, PastNonce
  <2> QED
    BY <1>0, <2>1, MovingOnKeepsOnce
<1>4. ASSUME NEW r \in Arrivals, Burn(r) PROVE OnceInv'
  BY <1>4, BurnKeepsOnce
<1>5. ASSUME NEW r \in Arrivals, FindUser(r) \/ Login(r) \/ Record(r) \/ Answer(r) \/ Die(r)
      PROVE  OnceInv'
  <2>1. PICK place \in Places \ {"aged"} :
           GoTo(r, place) /\ (place \in PastNonce => arrival[r].at \in PastNonce)
    <3>1. CASE FindUser(r) \/ Login(r)
      BY <3>1 DEF FindUser, Login, Places, PastNonce, IsAt
    <3>2. CASE Record(r) \/ Answer(r)
      BY <3>2 DEF Record, Answer, Places, PastNonce, IsAt
    <3>3. CASE Die(r)
      BY <3>3 DEF Die, Places, PastNonce
    <3> QED
      BY <1>5, <3>1, <3>2, <3>3
  <2>2. UNCHANGED <<now, issued, remembered, forgotten, rested>>
    BY <1>5 DEF FindUser, Login, Record, Answer, Die
  <2> QED
    BY <1>0, <2>1, <2>2, MovingOnKeepsOnce
<1>6. CASE CacheForgets
  BY <1>6 DEF CacheForgets, OnceInv, AgedInWindow, NonceOutlivesToken, TokenOpensOnce, Admitted, IsAt
<1>7. CASE SetActive
  BY <1>7 DEF SetActive, OnceInv, AgedInWindow, NonceOutlivesToken, TokenOpensOnce, Admitted, IsAt
<1>8. CASE Tick
  <2>1. UNCHANGED <<issued, remembered, arrival, forgotten, rested>> /\ now' = now + 1
    BY <1>8 DEF Tick
  <2>2. ASSUME NEW r \in Arrivals, IsAt(r, "aged")
        PROVE  arrival[r].since <= now'
    <3>1. arrival[r].since <= now
      BY <2>2 DEF OnceInv, AgedInWindow
    <3>2. arrival[r].since \in Nat
      BY DEF HandoffTypeOK
    <3> QED
      BY <2>1, <3>1, <3>2, ClockTyped
  <2>3. AgedInWindow'
    BY <2>1, <2>2 DEF OnceInv, AgedInWindow, IsAt
  <2> QED
    BY <2>1, <2>3 DEF OnceInv, NonceOutlivesToken, TokenOpensOnce, Admitted
<1>9. CASE UNCHANGED handoffVars
  BY <1>9 DEF handoffVars, OnceInv, AgedInWindow, NonceOutlivesToken, TokenOpensOnce, Admitted, IsAt
<1>10. ASSUME NEW r \in Arrivals, NEW t \in Tokens, ArriveLate(r, t) PROVE OnceInv'
  BY <1>3, <1>10 DEF ArriveLate
<1>11. ASSUME NEW r \in Arrivals, Replayed(r) \/ NoAccount(r) PROVE OnceInv'
  BY <1>3, <1>11 DEF Replayed, NoAccount
<1> QED
  BY <1>1, <1>2, <1>4, <1>5, <1>6, <1>7, <1>8, <1>9, <1>10, <1>11, Zenon DEF HandoffNext

\* However long gunicorn lets requests rest, whatever the skew of the clocks and
\* wherever requests die: while the cache keeps what it was given, of the arrivals
\* with one token at most one passes its nonce without having rested for twice the
\* age of a token before it (verify_token, cache.add).
THEOREM OneArrivalPerToken == HandoffSpec => []TokenOpensOnce
<1>1. HandoffInit => OnceInv
  BY DEF HandoffInit, OnceInv, AgedInWindow, NonceOutlivesToken, TokenOpensOnce, Admitted, PastNonce, IsAt
<1>2. HandoffTypeOK /\ OnceInv /\ [HandoffNext]_handoffVars => OnceInv'
  BY OnceStep
<1>3. OnceInv => TokenOpensOnce
  BY DEF OnceInv
<1>4. HandoffSpec => []HandoffTypeOK
  BY HandoffTyped
<1> QED
  BY <1>1, <1>2, <1>3, <1>4, PTL DEF HandoffSpec

-----------------------------------------------------------------------------
(* Every arrival leaves its audit rows *)

\* What a request has written stays, and it goes no further than it wrote.
LEMMA TraceStep == HandoffTypeOK /\ TraceInv /\ [HandoffNext]_handoffVars => TraceInv'
<1> SUFFICES ASSUME HandoffTypeOK, TraceInv, [HandoffNext]_handoffVars PROVE TraceInv'
  OBVIOUS
<1>0. ArrivalsTyped
  BY DEF HandoffTypeOK, ArrivalsTyped
<1>1. ASSUME NEW t \in Tokens, NEW skew \in Skews, Issue(t, skew) PROVE TraceInv'
  BY <1>1 DEF Issue, TraceInv, IsAt
<1>2. ASSUME NEW r \in Arrivals, NEW t \in Tokens, Arrive(r, t) PROVE TraceInv'
  <2>1. /\ arrival'[r].at = "aged"
        /\ \A s \in Arrivals : s # r => arrival'[s] = arrival[s]
        /\ UNCHANGED <<sessions, trail>>
        /\ r \notin sessions
    BY <1>2 DEF Arrive, HandoffTypeOK, TraceInv, IsAt
  <2> QED
    BY <2>1 DEF TraceInv, IsAt
<1>3. ASSUME NEW r \in Arrivals, Reject(r), ~IsAt(r, "home") PROVE TraceInv'
  <2>1. /\ arrival'[r].at = "loginPage"
        /\ \A s \in Arrivals : s # r => arrival'[s] = arrival[s]
    BY <1>0, <1>3, GoToFacts, "loginPage" \in Places DEF Reject, Places
  <2>2. /\ sessions' = sessions
        /\ r \notin sessions
        /\ trail' = trail \union {<<r, "LOGIN_FAILED">>}
    BY <1>3 DEF Reject, Audit, TraceInv
  <2> QED
    BY <2>1, <2>2 DEF TraceInv, IsAt
<1>4. ASSUME NEW r \in Arrivals,
             Burn(r) \/ FindUser(r) \/ Login(r) \/ Record(r) \/ Answer(r) \/ Die(r)
      PROVE  TraceInv'
  <2>1. PICK place \in Places :
           /\ GoTo(r, place)
           /\ trail \subseteq trail'
           /\ sessions' = IF place = "home" THEN sessions \union {r} ELSE sessions
           /\ place = "signedIn" => <<r, "LOGIN">> \in trail'
           /\ place = "traced" => IsAt(r, "signedIn") /\ <<r, "LOGIN by handoff">> \in trail'
           /\ place = "home" => IsAt(r, "traced")
           /\ place # "loginPage"
           /\ ~IsAt(r, "home")
    <3>1. CASE Burn(r) \/ FindUser(r)
      BY <3>1 DEF Burn, FindUser, Places, IsAt
    <3>2. CASE Login(r) \/ Record(r)
      BY <3>2 DEF Login, Record, Audit, Places, IsAt
    <3>3. CASE Answer(r)
      BY <3>3 DEF Answer, Places, IsAt
    <3>4. CASE Die(r)
      BY <3>4 DEF Die, Places, IsAt
    <3> QED
      BY <1>4, <3>1, <3>2, <3>3, <3>4
  <2>2. /\ arrival'[r].at = place
        /\ \A s \in Arrivals : s # r => arrival'[s] = arrival[s]
    BY <1>0, <2>1, GoToFacts
  <2>3. r \notin sessions
    BY <2>1 DEF TraceInv
  <2>4. ASSUME NEW s \in Arrivals, s # r
        PROVE  /\ s \in sessions' => arrival'[s].at = "home"
               /\ arrival'[s].at \in {"signedIn", "traced", "home"} => <<s, "LOGIN">> \in trail'
               /\ arrival'[s].at \in {"traced", "home"} => <<s, "LOGIN by handoff">> \in trail'
               /\ arrival'[s].at = "loginPage" => <<s, "LOGIN_FAILED">> \in trail'
    BY <2>1, <2>2, <2>4 DEF TraceInv, IsAt
  <2>5. /\ r \in sessions' => arrival'[r].at = "home"
        /\ arrival'[r].at \in {"signedIn", "traced", "home"} => <<r, "LOGIN">> \in trail'
        /\ arrival'[r].at \in {"traced", "home"} => <<r, "LOGIN by handoff">> \in trail'
        /\ arrival'[r].at = "loginPage" => <<r, "LOGIN_FAILED">> \in trail'
    BY <2>1, <2>2, <2>3 DEF TraceInv, IsAt
  <2> QED
    BY <2>4, <2>5 DEF TraceInv, IsAt
<1>5. CASE CacheForgets \/ SetActive \/ Tick \/ UNCHANGED handoffVars
  BY <1>5 DEF CacheForgets, SetActive, Tick, handoffVars, TraceInv, IsAt
<1>6. ASSUME NEW r \in Arrivals, NEW t \in Tokens, ArriveLate(r, t) PROVE TraceInv'
  BY <1>3, <1>6 DEF ArriveLate, IsAt
<1>7. ASSUME NEW r \in Arrivals, Replayed(r) \/ NoAccount(r) PROVE TraceInv'
  BY <1>3, <1>7 DEF Replayed, NoAccount, IsAt
<1> QED
  BY <1>1, <1>2, <1>4, <1>5, <1>6, <1>7, Zenon DEF HandoffNext

\* A session opened by a handoff has both its audit rows and every rejection has
\* its own, wherever requests die on the way (workspace_handoff, reject).
THEOREM EveryArrivalIsTraced == HandoffSpec => []ArrivalsAreTraced
<1>1. HandoffInit => TraceInv
  BY DEF HandoffInit, TraceInv, IsAt
<1>2. HandoffTypeOK /\ TraceInv /\ [HandoffNext]_handoffVars => TraceInv'
  BY TraceStep
<1>3. TraceInv => ArrivalsAreTraced
  BY DEF TraceInv, ArrivalsAreTraced, IsAt
<1>4. HandoffSpec => []HandoffTypeOK
  BY HandoffTyped
<1> QED
  BY <1>1, <1>2, <1>3, <1>4, PTL DEF HandoffSpec

-----------------------------------------------------------------------------
(* Writes outside the stock services *)

\* What a request that lives holds in each of its states.
Live ==
    [at: {"new", "done"}]
        \union [at: {"loaded"}, kind: {"update"}, id: Ids, before: Row, row: Row]
        \union [at: {"loaded"}, kind: {"destroy"}, id: Ids, before: Row]
        \union [at: {"stored"}, kind: {"upload"}, id: Ids]
        \union [at: {"loaded", "fileGone"}, kind: {"remove"}, id: Ids, before: Requests]
        \union [at: {"written"}, change: Changes]

\* A dead request is remembered by the state it died in.
RequestStates == Live \union [at: {"died"}, last: Live]

RecordsTypeInv == RecordsTypeOK /\ request \in [Requests -> RequestStates]

-----------------------------------------------------------------------------

\* The request has its file behind it: it is neither to come nor between its
\* file and its row.
Past(r) == request[r].at \notin {"new", "stored"}

\* The request is about to remove an attachment.
Removing(r) == AtStep(r, "fileGone") \/ (AtStep(r, "loaded") /\ request[r].kind = "remove")

\* A row names the file of a request that is past it, and no other row names it.
RowsNameFiles ==
    /\ \A i \in Ids : attachments[i] # None =>
          i \in used /\ attachments[i] \in Requests /\ Past(attachments[i])
    /\ \A i, j \in Ids : attachments[i] = attachments[j] /\ attachments[i] # None => i = j

\* An upload between its file and its row has its file, and a key nobody else has.
UploadsAreFresh ==
    \A r \in Requests : AtStep(r, "stored") =>
        /\ r \in uploads
        /\ request[r].id \in used
        /\ attachments[request[r].id] = None
        /\ \A s \in Requests : AtStep(s, "stored") /\ request[s].id = request[r].id => s = r

\* A removal knows the file its row names, or named until another removal came first.
RemovalsKnowFiles ==
    \A r \in Requests : Removing(r) =>
        /\ request[r].id \in used
        /\ Past(request[r].before)
        /\ attachments[request[r].id] \in {None, request[r].before}
        /\ \A i \in Ids : attachments[i] = request[r].before => i = request[r].id
        /\ \A s \in Requests : AtStep(s, "stored") => request[s].id # request[r].id
        /\ AtStep(r, "fileGone") => request[r].before \notin uploads

FileInv == RowsNameFiles /\ UploadsAreFresh /\ RemovalsKnowFiles /\ FilesFollowRows

\* What a request has to tell is the change it made, but for a before-image that
\* another's change took first.
Tells(r, told) ==
    /\ r \notin overtaken => told = made[r]
    /\ r \in overtaken => ReplacedByAnother(r, told) /\ TellsAfter(told, made[r])

\* The trail is written once, after the change, from what the request holds.
TrailOf(r) ==
    LET state == IF AtStep(r, "died") THEN request[r].last ELSE request[r]
    IN  /\ state.at \in {"new", "loaded", "stored", "fileGone"} => made[r] = None /\ logged[r] = None
        /\ state.at = "written" => Tells(r, state.change) /\ logged[r] = None
        /\ state.at = "done" => Tells(r, logged[r]) /\ logged[r] # None
        /\ request[r].at \in {"new", "stored"} => r \notin overtaken

\* A copy of a record is the record as it is, until another request writes it, which
\* then has replaced what was copied.
CopyOf(r) ==
    HoldsCopy(r) =>
        /\ request[r].before # None
        /\ ~OfFiles(request[r].kind) => request[r].id \in keys
        /\ r \notin overtaken => request[r].before = TableOf(request[r].kind)[request[r].id]
        /\ r \in overtaken => ReplacedByAnother(r, request[r])

RowKeys == \A i \in Ids : rows[i] # None => i \in keys

TrailInv == RowKeys /\ \A r \in Requests : TrailOf(r) /\ CopyOf(r)

-----------------------------------------------------------------------------
(* Types *)

\* What a request holds, by where it is.
LEMMA StateOf ==
    ASSUME RecordsTypeInv, NEW r \in Requests
    PROVE  /\ request[r] \in RequestStates
           /\ ~AtStep(r, "died") => request[r] \in Live
           /\ AtStep(r, "loaded") /\ request[r].kind = "update" =>
                 request[r].id \in Ids /\ request[r].before \in Row /\ request[r].row \in Row
           /\ AtStep(r, "loaded") /\ request[r].kind = "destroy" =>
                 request[r].id \in Ids /\ request[r].before \in Row
           /\ AtStep(r, "stored") => request[r].id \in Ids
           /\ Removing(r) =>
                 /\ request[r] \in [at: {"loaded", "fileGone"}, kind: {"remove"}, id: Ids, before: Requests]
                 /\ request[r].id \in Ids /\ request[r].before \in Requests
           /\ AtStep(r, "written") => request[r].change \in Changes
<1>1. request[r] \in RequestStates
  BY DEF RecordsTypeInv
<1>2. CASE request[r] \in [at: {"new", "done"}]
  BY <1>1, <1>2 DEF AtStep, Removing, Live
<1>3. CASE request[r] \in [at: {"loaded"}, kind: {"update"}, id: Ids, before: Row, row: Row]
  BY <1>1, <1>3 DEF AtStep, Removing, Live
<1>4. CASE request[r] \in [at: {"loaded"}, kind: {"destroy"}, id: Ids, before: Row]
  BY <1>1, <1>4 DEF AtStep, Removing, Live
<1>5. CASE request[r] \in [at: {"stored"}, kind: {"upload"}, id: Ids]
  BY <1>1, <1>5 DEF AtStep, Removing, Live
<1>6. CASE request[r] \in [at: {"loaded", "fileGone"}, kind: {"remove"}, id: Ids, before: Requests]
  BY <1>1, <1>6 DEF AtStep, Removing, Live
<1>7. CASE request[r] \in [at: {"written"}, change: Changes]
  BY <1>1, <1>7 DEF AtStep, Removing, Live
<1>8. CASE request[r] \in [at: {"died"}, last: Live]
  BY <1>1, <1>8 DEF AtStep, Removing
<1> QED
  BY <1>1, <1>2, <1>3, <1>4, <1>5, <1>6, <1>7, <1>8 DEF RequestStates, Live

\* A request that goes on leaves the others where they are.
LEMMA GoFacts ==
    ASSUME request \in [Requests -> RequestStates], NEW r \in Requests, NEW state, Go(r, state)
    PROVE  /\ request'[r] = state
           /\ \A s \in Requests : s # r => request'[s] = request[s]
           /\ state \in RequestStates => request' \in [Requests -> RequestStates]
BY DEF Go

\* A write commits a change, holds what it has to tell for the audit row, and
\* overtakes those that hold a copy of the record.
LEMMA WriteType ==
    ASSUME RecordsTypeInv, NEW r \in Requests,
           NEW kind \in {"create", "update", "destroy", "upload", "remove"},
           NEW i \in Ids, NEW before \in Stored, NEW after \in Stored,
           Write(r, kind, i, before, after)
    PROVE  /\ request' \in [Requests -> RequestStates]
           /\ made' \in [Requests -> {None} \union Changes]
           /\ overtaken' \subseteq Requests
           /\ \A s \in Requests : s # r => made'[s] = made[s]
           /\ AtStep(r, "written")'
           /\ \A s \in Requests : s # r => request'[s] = request[s]
<1> DEFINE told     == [kind |-> kind, id |-> i, before |-> before, after |-> after]
           replaced == TableOf(kind)[i]
           change   == IF replaced = None /\ after = None THEN None
                       ELSE [told EXCEPT !.before = replaced]
<1>0. /\ rows \in [Ids -> {None} \union Row]
      /\ attachments \in [Ids -> {None} \union Requests]
      /\ made \in [Requests -> {None} \union Changes]
      /\ overtaken \subseteq Requests
  BY DEF RecordsTypeInv, RecordsTypeOK
<1>1. told \in Changes
  BY DEF Changes
<1>2. replaced \in Stored
  BY <1>0 DEF TableOf, Stored
<1>3. /\ made' = [made EXCEPT ![r] = change]
      /\ Go(r, [at |-> "written", change |-> told])
      /\ overtaken' = overtaken \union
            {q \in Requests \ {r} : HoldsCopy(q) /\ SameRecord(request[q], told)}
  BY DEF Write
<1> HIDE DEF replaced
<1>4. [told EXCEPT !.before = replaced] = [kind |-> kind, id |-> i, before |-> replaced, after |-> after]
  OBVIOUS
<1>5. [told EXCEPT !.before = replaced] \in Changes
  BY <1>2, <1>4 DEF Changes
<1>6. change \in {None} \union Changes
  BY <1>5
<1> HIDE DEF change, told
<1>7. [at |-> "written", change |-> told] \in RequestStates
  BY <1>1 DEF RequestStates, Live
<1>8. /\ request'[r] = [at |-> "written", change |-> told]
      /\ request' \in [Requests -> RequestStates]
      /\ \A s \in Requests : s # r => request'[s] = request[s]
  BY <1>3, <1>7, GoFacts DEF RecordsTypeInv
<1>9. AtStep(r, "written")'
  BY <1>8 DEF AtStep
<1>10. /\ made' \in [Requests -> {None} \union Changes]
       /\ \A s \in Requests : s # r => made'[s] = made[s]
  BY <1>0, <1>3, <1>6
<1>11. overtaken' \subseteq Requests
  BY <1>0, <1>3
<1> QED
  BY <1>8, <1>9, <1>10, <1>11

\* A request is in one of these places.
LEMMA PlaceOf ==
    ASSUME NEW state \in RequestStates
    PROVE  state.at \in {"new", "loaded", "stored", "fileGone", "written", "done", "died"}
BY DEF RequestStates, Live

\* Every step of a request keeps the types.
LEMMA RecordsTypeStep == RecordsTypeInv /\ [RecordsNext]_recordVars => RecordsTypeInv'
<1> SUFFICES ASSUME RecordsTypeInv, [RecordsNext]_recordVars PROVE RecordsTypeInv'
  OBVIOUS
<1>0. /\ rows \in [Ids -> {None} \union Row]
      /\ attachments \in [Ids -> {None} \union Requests]
      /\ uploads \subseteq Requests
      /\ keys \subseteq Ids
      /\ used \subseteq Ids
      /\ overtaken \subseteq Requests
      /\ made \in [Requests -> {None} \union Changes]
      /\ logged \in [Requests -> {None} \union Changes]
      /\ request \in [Requests -> RequestStates]
  BY DEF RecordsTypeInv, RecordsTypeOK
<1>1. ASSUME request' \in [Requests -> RequestStates],
             rows' \in [Ids -> {None} \union Row],
             attachments' \in [Ids -> {None} \union Requests],
             uploads' \subseteq Requests, keys' \subseteq Ids, used' \subseteq Ids,
             overtaken' \subseteq Requests,
             made' \in [Requests -> {None} \union Changes],
             logged' \in [Requests -> {None} \union Changes]
      PROVE  RecordsTypeInv'
  BY <1>1, PlaceOf DEF RecordsTypeInv, RecordsTypeOK
<1>2. ASSUME NEW r \in Requests, NEW i \in Ids, NEW fields \in Row, CreateRow(r, i, fields)
      PROVE  RecordsTypeInv'
  <2>1. None \in Stored /\ fields \in Stored
    BY DEF Stored
  <2>2. /\ request' \in [Requests -> RequestStates]
        /\ made' \in [Requests -> {None} \union Changes]
        /\ overtaken' \subseteq Requests
    BY <1>2, <2>1, WriteType DEF CreateRow
  <2> QED
    BY <1>0, <1>1, <1>2, <2>2 DEF CreateRow
<1>3. ASSUME NEW r \in Requests, NEW i \in Ids, NEW field \in Fields, NEW value \in Values,
             LoadUpdate(r, i, field, value)
      PROVE  RecordsTypeInv'
  <2> DEFINE state == [at |-> "loaded", kind |-> "update", id |-> i, before |-> rows[i],
                       row |-> [rows[i] EXCEPT ![field] = value]]
  <2>1. rows[i] \in Row
    BY <1>0, <1>3 DEF LoadUpdate
  <2>2. [rows[i] EXCEPT ![field] = value] \in Row
    BY <2>1 DEF Row
  <2>3. state \in [at: {"loaded"}, kind: {"update"}, id: Ids, before: Row, row: Row]
    BY <2>1, <2>2
  <2>4. state \in RequestStates
    BY <2>3 DEF RequestStates, Live
  <2>5. Go(r, state)
    BY <1>3 DEF LoadUpdate
  <2> HIDE DEF state
  <2>6. request' \in [Requests -> RequestStates]
    BY <1>0, <2>4, <2>5, GoFacts
  <2> QED
    BY <1>0, <1>1, <1>3, <2>6 DEF LoadUpdate
<1>4. ASSUME NEW r \in Requests, NEW i \in Ids, LoadDestroy(r, i) PROVE RecordsTypeInv'
  <2> DEFINE state == [at |-> "loaded", kind |-> "destroy", id |-> i, before |-> rows[i]]
  <2>1. rows[i] \in Row
    BY <1>0, <1>4 DEF LoadDestroy
  <2>2. state \in [at: {"loaded"}, kind: {"destroy"}, id: Ids, before: Row]
    BY <2>1
  <2>3. state \in RequestStates
    BY <2>2 DEF RequestStates, Live
  <2>4. Go(r, state)
    BY <1>4 DEF LoadDestroy
  <2> HIDE DEF state
  <2>5. request' \in [Requests -> RequestStates]
    BY <1>0, <2>3, <2>4, GoFacts
  <2> QED
    BY <1>0, <1>1, <1>4, <2>5 DEF LoadDestroy
<1>5. ASSUME NEW r \in Requests, NEW i \in Ids, Upload(r, i) PROVE RecordsTypeInv'
  <2> DEFINE state == [at |-> "stored", kind |-> "upload", id |-> i]
  <2>1. state \in RequestStates
    BY DEF RequestStates, Live
  <2>2. Go(r, state)
    BY <1>5 DEF Upload
  <2> HIDE DEF state
  <2>3. request' \in [Requests -> RequestStates]
    BY <1>0, <2>1, <2>2, GoFacts
  <2> QED
    BY <1>0, <1>1, <1>5, <2>3 DEF Upload
<1>6. ASSUME NEW r \in Requests, NEW i \in Ids, LoadRemove(r, i) PROVE RecordsTypeInv'
  <2> DEFINE state == [at |-> "loaded", kind |-> "remove", id |-> i, before |-> attachments[i]]
  <2>1. attachments[i] \in Requests
    BY <1>0, <1>6 DEF LoadRemove
  <2>2. state \in RequestStates
    BY <2>1 DEF RequestStates, Live
  <2>3. Go(r, state)
    BY <1>6 DEF LoadRemove
  <2> HIDE DEF state
  <2>4. request' \in [Requests -> RequestStates]
    BY <1>0, <2>2, <2>3, GoFacts
  <2> QED
    BY <1>0, <1>1, <1>6, <2>4 DEF LoadRemove
<1>7. ASSUME NEW r \in Requests, Update(r) PROVE RecordsTypeInv'
  <2>1. request[r].id \in Ids /\ request[r].before \in Row /\ request[r].row \in Row
    BY <1>7, StateOf DEF Update
  <2>2. request[r].before \in Stored /\ request[r].row \in Stored
    BY <2>1 DEF Stored
  <2>3. /\ request' \in [Requests -> RequestStates]
        /\ made' \in [Requests -> {None} \union Changes]
        /\ overtaken' \subseteq Requests
    BY <1>7, <2>1, <2>2, WriteType DEF Update
  <2>4. rows' \in [Ids -> {None} \union Row]
    BY <1>0, <1>7, <2>1 DEF Update
  <2> QED
    BY <1>0, <1>1, <1>7, <2>3, <2>4 DEF Update
<1>8. ASSUME NEW r \in Requests, Destroy(r) PROVE RecordsTypeInv'
  <2>1. request[r].id \in Ids /\ request[r].before \in Row
    BY <1>8, StateOf DEF Destroy
  <2>2. request[r].before \in Stored /\ None \in Stored
    BY <2>1 DEF Stored
  <2>3. /\ request' \in [Requests -> RequestStates]
        /\ made' \in [Requests -> {None} \union Changes]
        /\ overtaken' \subseteq Requests
    BY <1>8, <2>1, <2>2, WriteType DEF Destroy
  <2>4. rows' \in [Ids -> {None} \union Row]
    BY <1>0, <1>8, <2>1 DEF Destroy
  <2> QED
    BY <1>0, <1>1, <1>8, <2>3, <2>4 DEF Destroy
<1>9. ASSUME NEW r \in Requests, Attach(r) PROVE RecordsTypeInv'
  <2>1. request[r].id \in Ids
    BY <1>9, StateOf DEF Attach
  <2>2. None \in Stored /\ r \in Stored
    BY DEF Stored
  <2>3. /\ request' \in [Requests -> RequestStates]
        /\ made' \in [Requests -> {None} \union Changes]
        /\ overtaken' \subseteq Requests
    BY <1>9, <2>1, <2>2, WriteType DEF Attach
  <2>4. attachments' \in [Ids -> {None} \union Requests]
    BY <1>0, <1>9, <2>1 DEF Attach
  <2> QED
    BY <1>0, <1>1, <1>9, <2>3, <2>4 DEF Attach
<1>10. ASSUME NEW r \in Requests, RemoveFile(r) PROVE RecordsTypeInv'
  <2> DEFINE state == [request[r] EXCEPT !.at = "fileGone"]
  <2>1. request[r] \in [at: {"loaded", "fileGone"}, kind: {"remove"}, id: Ids, before: Requests]
    BY <1>10, StateOf DEF RemoveFile, Removing
  <2>2. state \in [at: {"loaded", "fileGone"}, kind: {"remove"}, id: Ids, before: Requests]
    BY <2>1
  <2>3. state \in RequestStates
    BY <2>2 DEF RequestStates, Live
  <2>4. Go(r, state)
    BY <1>10 DEF RemoveFile
  <2> HIDE DEF state
  <2>5. request' \in [Requests -> RequestStates]
    BY <1>0, <2>3, <2>4, GoFacts
  <2> QED
    BY <1>0, <1>1, <1>10, <2>5 DEF RemoveFile
<1>11. ASSUME NEW r \in Requests, RemoveRow(r) PROVE RecordsTypeInv'
  <2>1. request[r].id \in Ids /\ request[r].before \in Requests
    BY <1>11, StateOf DEF RemoveRow, Removing
  <2>2. request[r].before \in Stored /\ None \in Stored
    BY <2>1 DEF Stored
  <2>3. /\ request' \in [Requests -> RequestStates]
        /\ made' \in [Requests -> {None} \union Changes]
        /\ overtaken' \subseteq Requests
    BY <1>11, <2>1, <2>2, WriteType DEF RemoveRow
  <2>4. attachments' \in [Ids -> {None} \union Requests]
    BY <1>0, <1>11, <2>1 DEF RemoveRow
  <2> QED
    BY <1>0, <1>1, <1>11, <2>3, <2>4 DEF RemoveRow
<1>12. ASSUME NEW r \in Requests, RecordAudit(r) PROVE RecordsTypeInv'
  <2>1. request[r].change \in Changes
    BY <1>12, StateOf DEF RecordAudit
  <2>2. Done \in RequestStates
    BY DEF Done, RequestStates, Live
  <2>3. request' \in [Requests -> RequestStates]
    BY <1>0, <1>12, <2>2, GoFacts DEF RecordAudit
  <2>4. logged' \in [Requests -> {None} \union Changes]
    BY <1>0, <1>12, <2>1 DEF RecordAudit
  <2> QED
    BY <1>0, <1>1, <1>12, <2>3, <2>4 DEF RecordAudit
<1>13. ASSUME NEW r \in Requests, Halt(r) PROVE RecordsTypeInv'
  <2>1. request[r] \in Live
    BY <1>13, StateOf DEF Halt, AtStep
  <2>2. Dead(request[r]) \in RequestStates
    BY <2>1 DEF Dead, RequestStates
  <2>3. request' \in [Requests -> RequestStates]
    BY <1>0, <1>13, <2>2, GoFacts DEF Halt
  <2> QED
    BY <1>0, <1>1, <1>13, <2>3 DEF Halt
<1>14. CASE UNCHANGED recordVars
  BY <1>0, <1>1, <1>14 DEF recordVars
<1> QED
  BY <1>2, <1>3, <1>4, <1>5, <1>6, <1>7, <1>8, <1>9, <1>10, <1>11, <1>12, <1>13, <1>14,
     Zenon DEF RecordsNext

LEMMA RecordsTypeInit == RecordsInit => RecordsTypeInv
<1> SUFFICES ASSUME RecordsInit PROVE RecordsTypeInv
  OBVIOUS
<1>1. Waiting \in RequestStates
  BY DEF Waiting, RequestStates, Live
<1>2. request \in [Requests -> RequestStates]
  BY <1>1 DEF RecordsInit
<1>3. \A r \in Requests :
        request[r].at \in {"new", "loaded", "stored", "fileGone", "written", "done", "died"}
  BY <1>2, PlaceOf
<1> QED
  BY <1>2, <1>3 DEF RecordsInit, RecordsTypeInv, RecordsTypeOK

\* Rows, files and changes keep their types, and every request holds what its
\* place needs, wherever others run in between (apps/core/viewsets.py).
THEOREM RecordsTyped == RecordsSpec => []RecordsTypeInv
BY RecordsTypeInit, RecordsTypeStep, PTL DEF RecordsSpec

-----------------------------------------------------------------------------
(* Files and rows *)

\* A step that touches no attachment and no file, of a request that neither
\* uploads nor removes, leaves them agreed.
LEMMA OtherWork ==
    ASSUME RecordsTypeInv, FileInv, NEW r \in Requests,
           UNCHANGED <<attachments, uploads, used>>,
           \A s \in Requests : s # r => request'[s] = request[s],
           request[r].at \notin {"stored", "fileGone", "died"}, ~Removing(r),
           request'[r].at \notin {"new", "stored", "fileGone", "died"}, ~Removing(r)'
    PROVE  FileInv'
<1>0. /\ attachments \in [Ids -> {None} \union Requests]
      /\ uploads \subseteq Requests
  BY DEF RecordsTypeInv, RecordsTypeOK
<1>1. \A s \in Requests : Past(s) => Past(s)'
  BY DEF Past
<1>2. \A s \in Requests : /\ AtStep(s, "stored")' <=> AtStep(s, "stored")
                          /\ Removing(s)' <=> Removing(s)
                          /\ AtStep(s, "fileGone")' <=> AtStep(s, "fileGone")
                          /\ Stopped(s, "stored")' <=> Stopped(s, "stored")
                          /\ Stopped(s, "fileGone")' <=> Stopped(s, "fileGone")
                          /\ AtStep(s, "died") <=> AtStep(s, "died")'
  BY DEF AtStep, Removing, Stopped
<1>3. RowsNameFiles'
  BY <1>0, <1>1 DEF FileInv, RowsNameFiles, Past
<1>4. \A s \in Requests :
        AtStep(s, "stored") \/ Stopped(s, "fileGone") \/ Removing(s) => request'[s] = request[s]
  BY DEF AtStep, Stopped
<1>5. UploadsAreFresh'
  BY <1>2, <1>4 DEF FileInv, UploadsAreFresh
<1>6. ASSUME NEW s \in Requests, Removing(s)' PROVE request[s].before \in Requests
  BY <1>2, <1>6, StateOf
<1>7. RemovalsKnowFiles'
  BY <1>1, <1>2, <1>4, <1>6 DEF FileInv, RemovalsKnowFiles
<1>8. FilesFollowRows'
  BY <1>0, <1>2, <1>4 DEF FileInv, FilesFollowRows
<1> QED
  BY <1>3, <1>5, <1>7, <1>8 DEF FileInv

\* An upload brings its file, under a key of its own (perform_create).
LEMMA UploadFile ==
    ASSUME RecordsTypeInv, FileInv, NEW r \in Requests, NEW i \in Ids, Upload(r, i)
    PROVE  FileInv'
<1>0. /\ attachments \in [Ids -> {None} \union Requests]
      /\ uploads \subseteq Requests
  BY DEF RecordsTypeInv, RecordsTypeOK
<1>1. /\ request'[r] = [at |-> "stored", kind |-> "upload", id |-> i]
      /\ \A s \in Requests : s # r => request'[s] = request[s]
  BY GoFacts DEF Upload, RecordsTypeInv
<1>2. AtStep(r, "new") /\ i \notin used /\ attachments' = attachments
      /\ used' = used \union {i} /\ uploads' = uploads \union {r}
  BY DEF Upload
<1>3. AtStep(r, "stored")' /\ request'[r].id = i /\ ~Removing(r)' /\ ~Stopped(r, "fileGone")
  BY <1>1, <1>2 DEF AtStep, Removing, Stopped
<1>4. attachments[i] = None
  BY <1>0, <1>2 DEF FileInv, RowsNameFiles
<1>5. \A s \in Requests : Past(s) => s # r /\ Past(s)'
  BY <1>1, <1>2 DEF Past, AtStep
<1>6. RowsNameFiles'
  BY <1>0, <1>2, <1>5 DEF FileInv, RowsNameFiles
<1>7. \A s \in Requests : s # r => /\ AtStep(s, "stored")' <=> AtStep(s, "stored")
                                   /\ Removing(s)' <=> Removing(s)
                                   /\ AtStep(s, "fileGone")' <=> AtStep(s, "fileGone")
                                   /\ Stopped(s, "stored")' <=> Stopped(s, "stored")
                                   /\ Stopped(s, "fileGone")' <=> Stopped(s, "fileGone")
                                   /\ AtStep(s, "died") <=> AtStep(s, "died")'
  BY <1>1 DEF AtStep, Removing, Stopped
<1>8. UploadsAreFresh'
  BY <1>1, <1>2, <1>3, <1>4, <1>7 DEF FileInv, UploadsAreFresh
<1>9. \A s \in Requests : Removing(s) => request[s].before \in Requests
  BY StateOf
<1>10. RemovalsKnowFiles'
  BY <1>1, <1>2, <1>3, <1>5, <1>7, <1>9 DEF FileInv, RemovalsKnowFiles
<1>11. Stopped(r, "stored")'
  BY <1>3 DEF Stopped
<1>12. FilesFollowRows'
  BY <1>0, <1>1, <1>2, <1>3, <1>7, <1>11 DEF FileInv, FilesFollowRows
<1> QED
  BY <1>6, <1>8, <1>10, <1>12 DEF FileInv

\* The row of an upload names the file the upload brought.
LEMMA AttachFile ==
    ASSUME RecordsTypeInv, FileInv, NEW r \in Requests, Attach(r)
    PROVE  FileInv'
<1>0. /\ attachments \in [Ids -> {None} \union Requests]
      /\ uploads \subseteq Requests
      /\ request[r].id \in Ids
  BY StateOf DEF RecordsTypeInv, RecordsTypeOK, Attach
<1> DEFINE i == request[r].id
<1>1. None \in Stored /\ r \in Stored
  BY DEF Stored
<1>2. AtStep(r, "written")' /\ \A s \in Requests : s # r => request'[s] = request[s]
  BY <1>0, <1>1, WriteType DEF Attach
<1>3. /\ AtStep(r, "stored") /\ UNCHANGED <<uploads, used>>
      /\ attachments' = [attachments EXCEPT ![i] = r]
  BY DEF Attach
<1>4. /\ r \in uploads /\ i \in used /\ attachments[i] = None
      /\ \A s \in Requests : AtStep(s, "stored") /\ request[s].id = i => s = r
  BY <1>3 DEF FileInv, UploadsAreFresh
<1>5. Past(r)' /\ ~Past(r) /\ \A s \in Requests : Past(s) => Past(s)'
  BY <1>2, <1>3 DEF Past, AtStep
<1>6. \A j \in Ids : attachments[j] # r
  BY <1>5, NoneAssumption DEF FileInv, RowsNameFiles
<1>7. attachments'[i] = r /\ \A j \in Ids : j # i => attachments'[j] = attachments[j]
  BY <1>0, <1>3
<1> HIDE DEF i
<1>8. RowsNameFiles'
  BY <1>0, <1>3, <1>4, <1>5, <1>6, <1>7 DEF FileInv, RowsNameFiles, i
<1>9. \A s \in Requests : /\ AtStep(s, "stored")' <=> AtStep(s, "stored") /\ s # r
                          /\ Removing(s)' <=> Removing(s)
                          /\ AtStep(s, "fileGone")' <=> AtStep(s, "fileGone")
                          /\ Stopped(s, "stored")' <=> Stopped(s, "stored") /\ s # r
                          /\ Stopped(s, "fileGone")' <=> Stopped(s, "fileGone")
                          /\ AtStep(s, "died") <=> AtStep(s, "died")'
  BY <1>2, <1>3 DEF AtStep, Removing, Stopped
<1>10. \A s \in Requests : s # r /\ AtStep(s, "stored") => request[s].id # i
  BY <1>4
<1>11. \A s \in Requests : AtStep(s, "stored") => request[s].id \in Ids
  BY StateOf
<1>12. UploadsAreFresh'
  BY <1>2, <1>3, <1>7, <1>9, <1>10, <1>11 DEF FileInv, UploadsAreFresh
<1>13. \A s \in Requests : Removing(s) =>
        /\ request[s].before \in Requests /\ request[s].id \in Ids
        /\ request[s].before # r /\ s # r /\ request[s].id # i
  BY <1>3, <1>5, <1>9, StateOf DEF FileInv, RemovalsKnowFiles, AtStep, Removing, i
<1>14. RemovalsKnowFiles'
  BY <1>2, <1>3, <1>5, <1>7, <1>9, <1>13 DEF FileInv, RemovalsKnowFiles
<1>15. \A s \in Requests : Stopped(s, "fileGone") => s # r
  BY <1>3 DEF Stopped, AtStep
<1>16. ASSUME NEW j \in Ids, attachments'[j] \notin uploads \union {None}
      PROVE  \E s \in Requests :
                /\ Stopped(s, "fileGone")'
                /\ (IF AtStep(s, "died")' THEN request'[s].last.id ELSE request'[s].id) = j
  <2>1. j # i /\ attachments'[j] = attachments[j]
    BY <1>4, <1>7, <1>16
  <2>2. PICK s \in Requests :
          /\ Stopped(s, "fileGone")
          /\ (IF AtStep(s, "died") THEN request[s].last.id ELSE request[s].id) = j
    BY <1>16, <2>1 DEF FileInv, FilesFollowRows
  <2>3. request'[s] = request[s]
    BY <1>2, <1>15, <2>2
  <2> QED
    BY <1>9, <2>2, <2>3
<1>17. ASSUME NEW f \in uploads
      PROVE  (\E j \in Ids : attachments'[j] = f) \/ Stopped(f, "stored")'
  <2>1. CASE f = r
    BY <1>0, <1>7, <2>1 DEF i
  <2>2. CASE f # r /\ \E j \in Ids : attachments[j] = f
    BY <1>0, <1>4, <1>7, <2>2, NoneAssumption
  <2>3. CASE f # r /\ Stopped(f, "stored")
    BY <1>0, <1>9, <2>3
  <2> QED
    BY <2>1, <2>2, <2>3 DEF FileInv, FilesFollowRows
<1>18. FilesFollowRows'
  BY <1>3, <1>16, <1>17 DEF FilesFollowRows
<1> QED
  BY <1>8, <1>12, <1>14, <1>18 DEF FileInv

\* A removal loads the row, and with it the name of the file.
LEMMA LoadRemoveFile ==
    ASSUME RecordsTypeInv, FileInv, NEW r \in Requests, NEW i \in Ids, LoadRemove(r, i)
    PROVE  FileInv'
<1>0. /\ attachments \in [Ids -> {None} \union Requests]
      /\ uploads \subseteq Requests
  BY DEF RecordsTypeInv, RecordsTypeOK
<1>1. /\ request'[r] = [at |-> "loaded", kind |-> "remove", id |-> i, before |-> attachments[i]]
      /\ \A s \in Requests : s # r => request'[s] = request[s]
  BY GoFacts DEF LoadRemove, RecordsTypeInv
<1>2. AtStep(r, "new") /\ attachments[i] # None /\ UNCHANGED <<attachments, uploads, used>>
  BY DEF LoadRemove
<1>3. /\ Removing(r)' /\ ~AtStep(r, "fileGone")'
      /\ request'[r].id = i /\ request'[r].before = attachments[i]
  BY <1>1, <1>2 DEF AtStep, Removing
<1>4. /\ i \in used /\ attachments[i] \in Requests /\ Past(attachments[i])
      /\ \A j \in Ids : attachments[j] = attachments[i] => j = i
  BY <1>2 DEF FileInv, RowsNameFiles
<1>5. \A s \in Requests : Past(s) => s # r /\ Past(s)'
  BY <1>1, <1>2 DEF Past, AtStep
<1>6. \A s \in Requests : /\ AtStep(s, "stored")' <=> AtStep(s, "stored")
                          /\ AtStep(s, "fileGone")' <=> AtStep(s, "fileGone")
                          /\ Stopped(s, "stored")' <=> Stopped(s, "stored")
                          /\ Stopped(s, "fileGone")' <=> Stopped(s, "fileGone")
                          /\ AtStep(s, "died") <=> AtStep(s, "died")'
  BY <1>1, <1>2 DEF AtStep, Stopped
<1>7. \A s \in Requests : s # r => (Removing(s)' <=> Removing(s))
  BY <1>1 DEF AtStep, Removing
<1>8. \A s \in Requests : Removing(s) => request[s].before \in Requests
  BY StateOf
<1>9. RowsNameFiles'
  BY <1>2, <1>5 DEF FileInv, RowsNameFiles
<1>10. \A s \in Requests : AtStep(s, "stored") => s # r /\ request[s].id # i
  BY <1>2 DEF FileInv, UploadsAreFresh, AtStep
<1>11. UploadsAreFresh'
  BY <1>1, <1>2, <1>6, <1>10 DEF FileInv, UploadsAreFresh
<1>12. RemovalsKnowFiles'
  BY <1>1, <1>2, <1>3, <1>4, <1>5, <1>6, <1>7, <1>8, <1>10 DEF FileInv, RemovalsKnowFiles
<1>13. \A s \in Requests : Stopped(s, "fileGone") => s # r
  BY <1>2 DEF Stopped, AtStep
<1>14. FilesFollowRows'
  BY <1>0, <1>1, <1>2, <1>6, <1>13 DEF FileInv, FilesFollowRows
<1> QED
  BY <1>9, <1>11, <1>12, <1>14 DEF FileInv

\* The file goes first: its row points nowhere until the removal removes it too.
LEMMA RemoveTheFile ==
    ASSUME RecordsTypeInv, FileInv, NEW r \in Requests, RemoveFile(r)
    PROVE  FileInv'
<1>0. /\ attachments \in [Ids -> {None} \union Requests]
      /\ uploads \subseteq Requests
  BY DEF RecordsTypeInv, RecordsTypeOK
<1> DEFINE f == request[r].before
           i == request[r].id
<1>1. /\ Removing(r) /\ AtStep(r, "loaded") /\ uploads' = uploads \ {f}
      /\ UNCHANGED <<attachments, used>>
  BY DEF RemoveFile, Removing
<1>2. /\ request[r] \in [at: {"loaded", "fileGone"}, kind: {"remove"}, id: Ids, before: Requests]
      /\ f \in Requests /\ i \in Ids
  BY <1>1, StateOf
<1>3. /\ request'[r] = [request[r] EXCEPT !.at = "fileGone"]
      /\ \A s \in Requests : s # r => request'[s] = request[s]
  BY GoFacts DEF RemoveFile, RecordsTypeInv
<1>4. AtStep(r, "fileGone")' /\ request'[r].id = i /\ request'[r].before = f
  BY <1>2, <1>3 DEF AtStep
<1>5. /\ i \in used /\ Past(f) /\ attachments[i] \in {None, f}
      /\ \A j \in Ids : attachments[j] = f => j = i
      /\ \A s \in Requests : AtStep(s, "stored") => request[s].id # i
  BY <1>1 DEF FileInv, RemovalsKnowFiles
<1> HIDE DEF f, i
<1>6. \A s \in Requests : Past(s) => Past(s)'
  BY <1>3, <1>4 DEF Past, AtStep
<1>7. \A s \in Requests : /\ AtStep(s, "stored")' <=> AtStep(s, "stored")
                          /\ AtStep(s, "stored") => s # r
                          /\ Removing(s)' <=> Removing(s)
                          /\ Stopped(s, "stored")' <=> Stopped(s, "stored")
                          /\ Stopped(s, "fileGone") => Stopped(s, "fileGone")' /\ s # r
                          /\ AtStep(s, "died") <=> AtStep(s, "died")'
  BY <1>1, <1>3, <1>4 DEF AtStep, Removing, Stopped
<1>8. \A s \in Requests : s # r => (AtStep(s, "fileGone")' <=> AtStep(s, "fileGone"))
  BY <1>3 DEF AtStep
<1>9. RowsNameFiles'
  BY <1>1, <1>6 DEF FileInv, RowsNameFiles
<1>10. \A s \in Requests : AtStep(s, "stored") => s # f
  BY <1>5 DEF Past, AtStep
<1>11. UploadsAreFresh'
  BY <1>1, <1>3, <1>7, <1>10 DEF FileInv, UploadsAreFresh
<1>12. \A s \in Requests : Removing(s) => request[s].before \in Requests
  BY StateOf
<1>13. RemovalsKnowFiles'
  BY <1>1, <1>2, <1>3, <1>4, <1>5, <1>6, <1>7, <1>8, <1>12 DEF FileInv, RemovalsKnowFiles
<1>14. ASSUME NEW j \in Ids, attachments[j] \notin uploads' \union {None}
      PROVE  \E s \in Requests :
                /\ Stopped(s, "fileGone")'
                /\ (IF AtStep(s, "died")' THEN request'[s].last.id ELSE request'[s].id) = j
  <2>1. CASE attachments[j] = f
    <3>1. j = i
      BY <1>5, <2>1
    <3> QED
      BY <1>4, <3>1 DEF Stopped, AtStep
  <2>2. CASE attachments[j] # f
    <3>1. PICK s \in Requests :
            /\ Stopped(s, "fileGone")
            /\ (IF AtStep(s, "died") THEN request[s].last.id ELSE request[s].id) = j
      BY <1>1, <1>14, <2>2 DEF FileInv, FilesFollowRows
    <3> QED
      BY <1>3, <1>7, <3>1
  <2> QED
    BY <2>1, <2>2
<1>15. \A g \in uploads' : (\E j \in Ids : attachments[j] = g) \/ Stopped(g, "stored")'
  BY <1>0, <1>1, <1>7 DEF FileInv, FilesFollowRows
<1>16. FilesFollowRows'
  BY <1>1, <1>14, <1>15 DEF FilesFollowRows
<1> QED
  BY <1>9, <1>11, <1>13, <1>16 DEF FileInv

\* The row follows its file; a row somebody else removed meanwhile stays gone.
LEMMA RemoveTheRow ==
    ASSUME RecordsTypeInv, FileInv, NEW r \in Requests, RemoveRow(r)
    PROVE  FileInv'
<1>0. /\ attachments \in [Ids -> {None} \union Requests]
      /\ uploads \subseteq Requests
  BY DEF RecordsTypeInv, RecordsTypeOK
<1> DEFINE f == request[r].before
           i == request[r].id
<1>1. /\ Removing(r) /\ AtStep(r, "fileGone") /\ UNCHANGED <<uploads, used>>
      /\ attachments' = [attachments EXCEPT ![i] = None]
      /\ Write(r, "remove", i, f, None)
  BY DEF RemoveRow, Removing
<1>2. f \in Requests /\ i \in Ids
  BY <1>1, StateOf
<1>3. f \in Stored /\ None \in Stored
  BY <1>2 DEF Stored
<1>4. f \notin uploads /\ attachments[i] \in {None, f}
  BY <1>1 DEF FileInv, RemovalsKnowFiles
<1> HIDE DEF f, i
<1>5. AtStep(r, "written")' /\ \A s \in Requests : s # r => request'[s] = request[s]
  BY <1>1, <1>2, <1>3, WriteType
<1>6. attachments'[i] = None /\ \A j \in Ids : j # i => attachments'[j] = attachments[j]
  BY <1>0, <1>1, <1>2
<1>7. \A s \in Requests : Past(s) => Past(s)'
  BY <1>5 DEF Past, AtStep
<1>8. \A s \in Requests : /\ AtStep(s, "stored")' <=> AtStep(s, "stored")
                          /\ AtStep(s, "stored") => s # r
                          /\ Removing(s)' <=> Removing(s) /\ s # r
                          /\ Stopped(s, "stored")' <=> Stopped(s, "stored")
                          /\ Stopped(s, "fileGone") /\ s # r => Stopped(s, "fileGone")'
                          /\ AtStep(s, "died") <=> AtStep(s, "died")'
  BY <1>1, <1>5 DEF AtStep, Removing, Stopped
<1>9. \A s \in Requests : s # r => (AtStep(s, "fileGone")' <=> AtStep(s, "fileGone"))
  BY <1>5 DEF AtStep
<1>10. RowsNameFiles'
  BY <1>0, <1>1, <1>2, <1>6, <1>7 DEF FileInv, RowsNameFiles
<1>11. \A s \in Requests : /\ AtStep(s, "stored") => request[s].id \in Ids
                           /\ Removing(s) => request[s].before \in Requests /\ request[s].id \in Ids
  BY StateOf
<1>12. UploadsAreFresh'
  BY <1>1, <1>5, <1>6, <1>8, <1>11 DEF FileInv, UploadsAreFresh
<1>13. RemovalsKnowFiles'
  BY <1>1, <1>5, <1>6, <1>7, <1>8, <1>9, <1>11, NoneAssumption DEF FileInv, RemovalsKnowFiles
<1>14. request[r].at # "died" /\ request[r].id = i
  BY <1>1 DEF AtStep, i
<1>15. ASSUME NEW j \in Ids, attachments'[j] \notin uploads \union {None}
      PROVE  \E s \in Requests :
                /\ Stopped(s, "fileGone")'
                /\ (IF AtStep(s, "died")' THEN request'[s].last.id ELSE request'[s].id) = j
  <2>1. j # i /\ attachments'[j] = attachments[j]
    BY <1>6, <1>15
  <2>2. PICK s \in Requests :
          /\ Stopped(s, "fileGone")
          /\ (IF AtStep(s, "died") THEN request[s].last.id ELSE request[s].id) = j
    BY <1>15, <2>1 DEF FileInv, FilesFollowRows
  <2>3. s # r
    BY <1>14, <2>1, <2>2 DEF AtStep
  <2> QED
    BY <1>5, <1>8, <2>2, <2>3
<1>16. ASSUME NEW g \in uploads
      PROVE  (\E j \in Ids : attachments'[j] = g) \/ Stopped(g, "stored")'
  <2>1. g \in Requests /\ g # f /\ g # None
    BY <1>0, <1>4, NoneAssumption
  <2>2. CASE \E j \in Ids : attachments[j] = g
    BY <1>4, <1>6, <2>1, <2>2
  <2>3. CASE Stopped(g, "stored")
    BY <1>8, <2>1, <2>3
  <2> QED
    BY <2>2, <2>3 DEF FileInv, FilesFollowRows
<1>17. FilesFollowRows'
  BY <1>1, <1>15, <1>16 DEF FilesFollowRows
<1> QED
  BY <1>10, <1>12, <1>13, <1>17 DEF FileInv

\* What a request left behind when it died is remembered with where it died.
LEMMA DieKeepsFiles ==
    ASSUME RecordsTypeInv, FileInv, NEW r \in Requests, Halt(r)
    PROVE  FileInv'
<1>0. /\ attachments \in [Ids -> {None} \union Requests]
      /\ uploads \subseteq Requests
  BY DEF RecordsTypeInv, RecordsTypeOK
<1>1. /\ request'[r] = [at |-> "died", last |-> request[r]]
      /\ \A s \in Requests : s # r => request'[s] = request[s]
  BY GoFacts DEF Halt, Dead, RecordsTypeInv
<1>2. /\ request[r].at \in {"loaded", "stored", "fileGone", "written"}
      /\ UNCHANGED <<attachments, uploads, used>>
  BY DEF Halt
<1>3. AtStep(r, "died")' /\ request'[r].last = request[r] /\ ~Removing(r)' /\ ~AtStep(r, "stored")'
  BY <1>1 DEF AtStep, Removing
<1>4. \A s \in Requests : Past(s) => Past(s)'
  BY <1>1, <1>3 DEF Past, AtStep
<1>5. \A s \in Requests : /\ AtStep(s, "stored")' <=> AtStep(s, "stored") /\ s # r
                          /\ Removing(s)' <=> Removing(s) /\ s # r
                          /\ Stopped(s, "stored") => Stopped(s, "stored")'
                          /\ Stopped(s, "fileGone") => Stopped(s, "fileGone")'
                          /\ AtStep(s, "fileGone")' <=> AtStep(s, "fileGone") /\ s # r
                          /\ s # r => (AtStep(s, "died") <=> AtStep(s, "died")')
  BY <1>1, <1>2, <1>3 DEF AtStep, Removing, Stopped
<1>6. \A s \in Requests : Removing(s) => request[s].before \in Requests
  BY StateOf
<1>7. RowsNameFiles'
  BY <1>2, <1>4 DEF FileInv, RowsNameFiles
<1>8. UploadsAreFresh'
  BY <1>1, <1>2, <1>5 DEF FileInv, UploadsAreFresh
<1>9. RemovalsKnowFiles'
  BY <1>1, <1>2, <1>4, <1>5, <1>6 DEF FileInv, RemovalsKnowFiles
<1>10. ASSUME NEW j \in Ids, attachments[j] \notin uploads \union {None}
      PROVE  \E s \in Requests :
                /\ Stopped(s, "fileGone")'
                /\ (IF AtStep(s, "died")' THEN request'[s].last.id ELSE request'[s].id) = j
  <2>1. PICK s \in Requests :
          /\ Stopped(s, "fileGone")
          /\ (IF AtStep(s, "died") THEN request[s].last.id ELSE request[s].id) = j
    BY <1>10 DEF FileInv, FilesFollowRows
  <2>2. CASE s = r
    BY <1>2, <1>3, <1>5, <2>1, <2>2 DEF AtStep
  <2>3. CASE s # r
    BY <1>1, <1>5, <2>1, <2>3
  <2> QED
    BY <2>2, <2>3
<1>11. FilesFollowRows'
  BY <1>0, <1>2, <1>5, <1>10 DEF FileInv, FilesFollowRows
<1> QED
  BY <1>7, <1>8, <1>9, <1>11 DEF FileInv

LEMMA FileStep == RecordsTypeInv /\ FileInv /\ [RecordsNext]_recordVars => FileInv'
<1> SUFFICES ASSUME RecordsTypeInv, FileInv, [RecordsNext]_recordVars PROVE FileInv'
  OBVIOUS
<1>1. ASSUME NEW r \in Requests, NEW i \in Ids,
             \/ \E fields \in Row : CreateRow(r, i, fields)
             \/ \E field \in Fields, value \in Values : LoadUpdate(r, i, field, value)
             \/ LoadDestroy(r, i)
      PROVE  FileInv'
  <2>1. AtStep(r, "new") /\ UNCHANGED <<attachments, uploads, used>>
    BY <1>1 DEF CreateRow, LoadUpdate, LoadDestroy
  <2>2. PICK state :
          /\ Go(r, state)
          /\ state.at \in {"loaded", "written"}
          /\ state.at = "loaded" => state.kind # "remove"
    <3>1. ASSUME NEW fields \in Row, CreateRow(r, i, fields)
          PROVE  \E state : Go(r, state) /\ state.at = "written"
      BY <3>1 DEF CreateRow, Write
    <3>2. ASSUME NEW field \in Fields, NEW value \in Values, LoadUpdate(r, i, field, value)
          PROVE  \E state : Go(r, state) /\ state.at = "loaded" /\ state.kind = "update"
      BY <3>2 DEF LoadUpdate
    <3>3. ASSUME LoadDestroy(r, i)
          PROVE  \E state : Go(r, state) /\ state.at = "loaded" /\ state.kind = "destroy"
      BY <3>3 DEF LoadDestroy
    <3> QED
      BY <1>1, <3>1, <3>2, <3>3
  <2>3. request'[r] = state /\ \A s \in Requests : s # r => request'[s] = request[s]
    BY <2>2, GoFacts DEF RecordsTypeInv
  <2> QED
    BY <2>1, <2>2, <2>3, OtherWork DEF AtStep, Removing
<1>2. ASSUME NEW r \in Requests, Update(r) \/ Destroy(r) \/ RecordAudit(r) PROVE FileInv'
  <2>1. /\ request[r].at \in {"loaded", "written"} /\ ~Removing(r)
        /\ UNCHANGED <<attachments, uploads, used>>
    BY <1>2 DEF Update, Destroy, RecordAudit, AtStep, Removing
  <2>2. PICK state : Go(r, state) /\ state.at \in {"written", "done"}
    BY <1>2 DEF Update, Destroy, RecordAudit, Write, Done
  <2>3. request'[r] = state /\ \A s \in Requests : s # r => request'[s] = request[s]
    BY <2>2, GoFacts DEF RecordsTypeInv
  <2> QED
    BY <2>1, <2>2, <2>3, OtherWork DEF AtStep, Removing
<1>3. ASSUME NEW r \in Requests, NEW i \in Ids, Upload(r, i) \/ LoadRemove(r, i) PROVE FileInv'
  BY <1>3, UploadFile, LoadRemoveFile
<1>4. ASSUME NEW r \in Requests, Attach(r) \/ RemoveFile(r) \/ RemoveRow(r) \/ Halt(r)
      PROVE  FileInv'
  BY <1>4, AttachFile, RemoveTheFile, RemoveTheRow, DieKeepsFiles
<1>5. CASE UNCHANGED recordVars
  BY <1>5 DEF recordVars, FileInv, RowsNameFiles, UploadsAreFresh, RemovalsKnowFiles,
              FilesFollowRows, AtStep, Past, Removing, Stopped
<1> QED
  BY <1>1, <1>2, <1>3, <1>4, <1>5, Zenon DEF RecordsNext

\* A row without its file, or a file without its row, is what a request left
\* that stopped between the two, whatever uploads and removals run at once
\* (attachments/views.py, perform_create and perform_destroy).
THEOREM FilesAreAccountedFor == RecordsSpec => []FilesFollowRows
<1>1. RecordsInit => FileInv
  BY DEF RecordsInit, Waiting, FileInv, RowsNameFiles, UploadsAreFresh, RemovalsKnowFiles,
         FilesFollowRows, AtStep, Removing
<1>2. RecordsTypeInv /\ FileInv /\ [RecordsNext]_recordVars => FileInv'
  BY FileStep
<1>3. FileInv => FilesFollowRows
  BY DEF FileInv
<1>4. RecordsSpec => []RecordsTypeInv
  BY RecordsTyped
<1> QED
  BY <1>1, <1>2, <1>3, <1>4, PTL DEF RecordsSpec

-----------------------------------------------------------------------------
(* The audit trail *)

\* What somebody's change replaced stays so: a change is made once.
LEMMA ReplacedStays ==
    ASSUME \A q \in Requests : made[q] # None => made'[q] = made[q],
           NEW r \in Requests, NEW told, ReplacedByAnother(r, told)
    PROVE  ReplacedByAnother(r, told)'
BY DEF ReplacedByAnother

\* So a request that nobody overtakes now has as much to tell as before.
LEMMA TellsStays ==
    ASSUME \A q \in Requests : made[q] # None => made'[q] = made[q],
           NEW r \in Requests, NEW told, Tells(r, told),
           made'[r] = made[r], r \in overtaken' <=> r \in overtaken
    PROVE  Tells(r, told)'
<1>1. ASSUME r \in overtaken' PROVE ReplacedByAnother(r, told)' /\ TellsAfter(told, made[r])'
  <2>1. ReplacedByAnother(r, told)'
    BY <1>1, ReplacedStays DEF Tells
  <2>2. TellsAfter(told, made[r])'
    BY <1>1 DEF Tells, TellsAfter
  <2> QED
    BY <2>1, <2>2
<1>2. ASSUME r \notin overtaken' PROVE told = made'[r]
  BY <1>2 DEF Tells
<1> QED
  BY <1>1, <1>2 DEF Tells

\* What a request recorded depends on that request and on who overtook it.
LEMMA OtherTrail ==
    ASSUME \A q \in Requests : made[q] # None => made'[q] = made[q],
           NEW r \in Requests, TrailOf(r),
           request'[r] = request[r], made'[r] = made[r], logged'[r] = logged[r],
           HoldsCopy(r) \/ (r \in overtaken' <=> r \in overtaken)
    PROVE  TrailOf(r)'
<1> DEFINE state == IF AtStep(r, "died") THEN request[r].last ELSE request[r]
<1>1. AtStep(r, "died")' <=> AtStep(r, "died")
  BY DEF AtStep
<1>2. state' = state
  BY <1>1
<1>3. state.at \in {"new", "loaded", "stored", "fileGone"} => made'[r] = None /\ logged'[r] = None
  BY DEF TrailOf
<1>4. HoldsCopy(r) => state.at \in {"loaded", "fileGone"}
  BY DEF HoldsCopy, AtStep
<1>5. state.at = "written" => Tells(r, state.change)' /\ logged'[r] = None
  <2>1. ASSUME state.at = "written"
        PROVE  Tells(r, state.change) /\ logged[r] = None /\ (r \in overtaken' <=> r \in overtaken)
    BY <1>4, <2>1 DEF TrailOf
  <2>2. ASSUME NEW told, state.at = "written", Tells(r, told) PROVE Tells(r, told)'
    BY <2>1, <2>2, TellsStays
  <2> HIDE DEF state
  <2> QED
    BY <1>2, <2>1, <2>2
<1>6. state.at = "done" => Tells(r, logged[r])' /\ logged'[r] # None
  <2>1. ASSUME state.at = "done"
        PROVE  Tells(r, logged[r]) /\ logged[r] # None /\ (r \in overtaken' <=> r \in overtaken)
    BY <1>4, <2>1 DEF TrailOf
  <2>2. ASSUME NEW told, state.at = "done", Tells(r, told) PROVE Tells(r, told)'
    BY <2>1, <2>2, TellsStays
  <2> HIDE DEF state
  <2> QED
    BY <2>1, <2>2
<1>7. request'[r].at \in {"new", "stored"} => r \notin overtaken'
  BY DEF TrailOf, HoldsCopy
<1> HIDE DEF state
<1>8. state'.at = state.at /\ state'.change = state.change
  BY <1>2
<1> QED
  BY <1>2, <1>3, <1>5, <1>6, <1>7 DEF TrailOf, state

\* A step that writes nothing: the other requests tell and hold what they did.
LEMMA OwnTrail ==
    ASSUME RecordsTypeInv, TrailInv, NEW r \in Requests,
           UNCHANGED <<rows, attachments, keys, made, overtaken>>,
           \A s \in Requests : s # r => request'[s] = request[s] /\ logged'[s] = logged[s],
           TrailOf(r)', CopyOf(r)'
    PROVE  TrailInv'
<1>1. RowKeys'
  BY DEF TrailInv, RowKeys
<1>2. ASSUME NEW s \in Requests, s # r PROVE TrailOf(s)'
  BY <1>2, OtherTrail DEF TrailInv
<1>3. ASSUME NEW s \in Requests, s # r PROVE CopyOf(s)'
  <2>1. request'[s] = request[s] /\ CopyOf(s)
    BY <1>3 DEF TrailInv
  <2>2. \A told : ReplacedByAnother(s, told) => ReplacedByAnother(s, told)'
    BY ReplacedStays
  <2> QED
    BY <2>1, <2>2 DEF CopyOf, HoldsCopy, TableOf
<1> QED
  BY <1>1, <1>2, <1>3 DEF TrailInv

\* The step of a request that has not come to its write yet.
LEMMA BeforeTheWrite ==
    ASSUME RecordsTypeInv, TrailInv, NEW r \in Requests, NEW state, Go(r, state),
           UNCHANGED <<rows, attachments, keys, made, overtaken, logged>>,
           request[r].at \in {"new", "loaded"},
           state.at \in {"loaded", "stored", "fileGone"},
           state.at = "stored" => AtStep(r, "new"),
           state.at # "stored" =>
               /\ state.before # None
               /\ ~OfFiles(state.kind) => state.id \in keys
               /\ r \notin overtaken => state.before = TableOf(state.kind)[state.id]
               /\ r \in overtaken => ReplacedByAnother(r, state)
    PROVE  TrailInv'
<1>1. request'[r] = state /\ \A s \in Requests : s # r => request'[s] = request[s]
  BY GoFacts DEF RecordsTypeInv
<1>2. made[r] = None /\ logged[r] = None /\ (AtStep(r, "new") => r \notin overtaken)
  BY DEF TrailInv, TrailOf, AtStep
<1>3. TrailOf(r)'
  BY <1>1, <1>2 DEF TrailOf, AtStep
<1>4. ReplacedByAnother(r, state) => ReplacedByAnother(r, state)'
  BY ReplacedStays
<1>5. CopyOf(r)'
  BY <1>1, <1>4 DEF CopyOf, HoldsCopy, TableOf
<1> QED
  BY <1>1, <1>3, <1>5, OwnTrail

\* A write: the request holds what its change is, and whoever held a copy of the
\* record has been overtaken by it.
LEMMA WriteStep ==
    ASSUME RecordsTypeInv, TrailInv, NEW r \in Requests,
           NEW kind \in {"create", "update", "destroy", "upload", "remove"},
           NEW i \in Ids, NEW before \in Stored, NEW after \in Stored,
           Write(r, kind, i, before, after),
           request[r].at \in {"new", "loaded", "stored", "fileGone"},
           UNCHANGED logged, keys \subseteq keys', RowKeys',
           \A j \in Ids : j # i \/ OfFiles(kind) => rows'[j] = rows[j],
           \A j \in Ids : j # i \/ ~OfFiles(kind) => attachments'[j] = attachments[j],
           r \notin overtaken =>
                before = TableOf(kind)[i] /\ (before # None \/ after # None),
           r \in overtaken =>
                ReplacedByAnother(r, [kind |-> kind, id |-> i, before |-> before, after |-> after])
    PROVE  TrailInv'
<1> DEFINE told     == [kind |-> kind, id |-> i, before |-> before, after |-> after]
           replaced == TableOf(kind)[i]
           change   == IF replaced = None /\ after = None THEN None
                       ELSE [told EXCEPT !.before = replaced]
<1>0. /\ rows \in [Ids -> {None} \union Row]
      /\ attachments \in [Ids -> {None} \union Requests]
      /\ made \in [Requests -> {None} \union Changes]
  BY DEF RecordsTypeInv, RecordsTypeOK
<1>1. /\ made' = [made EXCEPT ![r] = change]
      /\ Go(r, [at |-> "written", change |-> told])
      /\ overtaken' = overtaken \union
            {q \in Requests \ {r} : HoldsCopy(q) /\ SameRecord(request[q], told)}
  BY DEF Write
<1>2. replaced \in Stored
  BY <1>0 DEF TableOf, Stored
<1>3. /\ told.kind = kind /\ told.id = i /\ told.before = before /\ told.after = after
      /\ change # None =>
            /\ change = [kind |-> kind, id |-> i, before |-> replaced, after |-> after]
            /\ change.kind = kind /\ change.id = i /\ change.before = replaced
            /\ told = [change EXCEPT !.before = told.before]
  OBVIOUS
<1>4. change = None <=> replaced = None /\ after = None
  <2>1. [kind |-> kind, id |-> i, before |-> replaced, after |-> after] \in Changes
    BY <1>2 DEF Changes
  <2>2. [told EXCEPT !.before = replaced]
            = [kind |-> kind, id |-> i, before |-> replaced, after |-> after]
    OBVIOUS
  <2> QED
    BY <2>1, <2>2, NoneAssumption
<1> HIDE DEF change, told, replaced
<1>5. /\ request'[r] = [at |-> "written", change |-> told]
      /\ \A s \in Requests : s # r => request'[s] = request[s]
  BY <1>1, GoFacts DEF RecordsTypeInv
<1>6. made'[r] = change /\ \A s \in Requests : s # r => made'[s] = made[s]
  BY <1>0, <1>1
<1>7. made[r] = None /\ logged[r] = None
  BY DEF TrailInv, TrailOf, AtStep
<1>8. \A q \in Requests : made[q] # None => made'[q] = made[q]
  BY <1>6, <1>7
<1>9. r \in overtaken' <=> r \in overtaken
  BY <1>1
<1>10. Tells(r, told)'
  <2>1. ASSUME r \notin overtaken PROVE told = change
    <3>1. before = replaced /\ change # None
      BY <1>4, <2>1 DEF replaced
    <3> QED
      BY <1>3, <3>1 DEF told
  <2>2. ASSUME r \in overtaken PROVE ReplacedByAnother(r, told)'
    BY <1>8, <2>2, ReplacedStays DEF told
  <2>3. TellsAfter(told, change)
    BY <1>3, <1>4 DEF TellsAfter
  <2>4. TellsAfter(told, made[r])'
    BY <1>6, <2>3 DEF TellsAfter
  <2> QED
    BY <1>6, <1>9, <2>1, <2>2, <2>4 DEF Tells
<1>11. TrailOf(r)'
  <2>1. request'[r].at = "written" /\ request'[r].change = told
    BY <1>5
  <2> QED
    BY <1>7, <1>10, <2>1 DEF TrailOf, AtStep
<1>12. CopyOf(r)'
  BY <1>5 DEF CopyOf, HoldsCopy
<1>13. ASSUME NEW s \in Requests, s # r PROVE TrailOf(s)'
  <2>1. TrailOf(s) /\ request'[s] = request[s] /\ made'[s] = made[s] /\ logged'[s] = logged[s]
    BY <1>5, <1>6, <1>13 DEF TrailInv
  <2>2. HoldsCopy(s) \/ (s \in overtaken' <=> s \in overtaken)
    BY <1>1
  <2> QED
    BY <1>8, <2>1, <2>2, OtherTrail
<1>14. ASSUME NEW s \in Requests, s # r, HoldsCopy(s) PROVE CopyOf(s)'
  <2>1. /\ request'[s] = request[s]
        /\ request[s].before # None
        /\ ~OfFiles(request[s].kind) => request[s].id \in keys'
    BY <1>5, <1>14 DEF TrailInv, CopyOf
  <2>2. request[s].id \in Ids
    <3>1. request[s] \in Live /\ request[s].at \in {"loaded", "fileGone"}
      BY <1>14, StateOf DEF HoldsCopy, AtStep
    <3> QED
      BY <3>1 DEF Live
  <2>3. CASE s \in overtaken
    <3>1. ReplacedByAnother(s, request[s])
      BY <1>14, <2>3 DEF TrailInv, CopyOf
    <3>2. \A held : ReplacedByAnother(s, held) => ReplacedByAnother(s, held)'
      BY <1>8, ReplacedStays
    <3>3. ReplacedByAnother(s, request[s])'
      BY <2>1, <3>1, <3>2
    <3>4. s \in overtaken'
      BY <1>1, <2>3
    <3> QED
      BY <2>1, <3>3, <3>4 DEF CopyOf
  <2>4. CASE s \notin overtaken /\ SameRecord(request[s], told)
    <3>1. request[s].id = i /\ (OfFiles(request[s].kind) <=> OfFiles(kind))
      BY <1>3, <2>4 DEF SameRecord
    <3>2. request[s].before = replaced
      BY <1>14, <2>4, <3>1 DEF TrailInv, CopyOf, TableOf, replaced
    <3>3. change # None /\ change.kind = kind /\ change.id = i /\ change.before = replaced
      BY <1>3, <1>4, <2>1, <3>2
    <3>4. ReplacedByAnother(s, request[s])'
      BY <1>6, <1>14, <2>1, <3>1, <3>2, <3>3 DEF ReplacedByAnother, SameRecord
    <3>5. s \in overtaken'
      BY <1>1, <1>14, <2>4
    <3> QED
      BY <2>1, <3>4, <3>5 DEF CopyOf
  <2>5. CASE s \notin overtaken /\ ~SameRecord(request[s], told)
    <3>1. s \notin overtaken'
      BY <1>1, <2>5
    <3>2. ~(request[s].id = i /\ (OfFiles(request[s].kind) <=> OfFiles(kind)))
      BY <1>3, <2>5 DEF SameRecord
    <3>3. request[s].before = TableOf(request[s].kind)[request[s].id]
      BY <1>14, <2>5 DEF TrailInv, CopyOf
    <3>4. request[s].before = TableOf(request[s].kind)'[request'[s].id]
      BY <2>1, <2>2, <3>2, <3>3 DEF TableOf
    <3> QED
      BY <2>1, <3>1, <3>4 DEF CopyOf
  <2> QED
    BY <2>3, <2>4, <2>5
<1>15. ASSUME NEW s \in Requests, s # r PROVE CopyOf(s)'
  BY <1>5, <1>14, <1>15 DEF CopyOf, HoldsCopy
<1> QED
  BY <1>11, <1>12, <1>13, <1>15 DEF TrailInv

LEMMA TrailStep ==
    RecordsTypeInv /\ FileInv /\ TrailInv /\ [RecordsNext]_recordVars => TrailInv'
<1> SUFFICES ASSUME RecordsTypeInv, FileInv, TrailInv, [RecordsNext]_recordVars PROVE TrailInv'
  OBVIOUS
<1>0. /\ rows \in [Ids -> {None} \union Row]
      /\ attachments \in [Ids -> {None} \union Requests]
      /\ made \in [Requests -> {None} \union Changes]
      /\ logged \in [Requests -> {None} \union Changes]
      /\ request \in [Requests -> RequestStates]
      /\ \A r \in Requests : AtStep(r, "new") => r \notin overtaken
  BY DEF RecordsTypeInv, RecordsTypeOK, TrailInv, TrailOf, AtStep
<1>1. ASSUME NEW r \in Requests, NEW i \in Ids, NEW fields \in Row, CreateRow(r, i, fields)
      PROVE  TrailInv'
  <2>1. rows[i] = None /\ r \notin overtaken
    BY <1>0, <1>1 DEF CreateRow, TrailInv, RowKeys
  <2>2. None \in Stored /\ fields \in Stored /\ fields # None
    BY NoneAssumption DEF Stored
  <2>3. RowKeys'
    BY <1>0, <1>1 DEF CreateRow, TrailInv, RowKeys
  <2>4. \A j \in Ids : j # i => rows'[j] = rows[j]
    BY <1>0, <1>1 DEF CreateRow
  <2> QED
    BY <1>1, <2>1, <2>2, <2>3, <2>4, WriteStep DEF CreateRow, AtStep, OfFiles, TableOf
<1>2. ASSUME NEW r \in Requests, Update(r) PROVE TrailInv'
  <2> DEFINE i == request[r].id
             told == [kind |-> "update", id |-> i, before |-> request[r].before,
                      after |-> request[r].row]
  <2>1. i \in Ids /\ request[r].before \in Row /\ request[r].row \in Row
    BY <1>2, StateOf DEF Update
  <2>2. request[r].before \in Stored /\ request[r].row \in Stored /\ request[r].row # None
    BY <2>1, NoneAssumption DEF Stored
  <2>3. CopyOf(r) /\ HoldsCopy(r) /\ ~OfFiles(request[r].kind)
    BY <1>2 DEF Update, TrailInv, HoldsCopy, AtStep, OfFiles
  <2>4. RowKeys'
    BY <1>0, <1>2, <2>1, <2>3 DEF Update, TrailInv, RowKeys, CopyOf
  <2>5. \A j \in Ids : j # i => rows'[j] = rows[j]
    BY <1>0, <1>2 DEF Update
  <2>6. r \notin overtaken => request[r].before = TableOf("update")[i]
    BY <2>3 DEF CopyOf, TableOf, OfFiles
  <2>7. r \in overtaken => ReplacedByAnother(r, told)
    BY <1>2, <2>3 DEF Update, CopyOf, ReplacedByAnother, SameRecord
  <2> QED
    BY <1>2, <2>1, <2>2, <2>4, <2>5, <2>6, <2>7, WriteStep DEF Update, AtStep, OfFiles
<1>3. ASSUME NEW r \in Requests, Destroy(r) PROVE TrailInv'
  <2> DEFINE i == request[r].id
             told == [kind |-> "destroy", id |-> i, before |-> request[r].before, after |-> None]
  <2>1. i \in Ids /\ request[r].before \in Row
    BY <1>3, StateOf DEF Destroy
  <2>2. request[r].before \in Stored /\ None \in Stored /\ request[r].before # None
    BY <2>1, NoneAssumption DEF Stored
  <2>3. CopyOf(r) /\ HoldsCopy(r) /\ ~OfFiles(request[r].kind)
    BY <1>3 DEF Destroy, TrailInv, HoldsCopy, AtStep, OfFiles
  <2>4. RowKeys'
    BY <1>0, <1>3, <2>1, <2>3 DEF Destroy, TrailInv, RowKeys
  <2>5. \A j \in Ids : j # i => rows'[j] = rows[j]
    BY <1>0, <1>3 DEF Destroy
  <2>6. r \notin overtaken => request[r].before = TableOf("destroy")[i]
    BY <2>3 DEF CopyOf, TableOf, OfFiles
  <2>7. r \in overtaken => ReplacedByAnother(r, told)
    BY <1>3, <2>3 DEF Destroy, CopyOf, ReplacedByAnother, SameRecord
  <2> QED
    BY <1>3, <2>1, <2>2, <2>4, <2>5, <2>6, <2>7, WriteStep DEF Destroy, AtStep, OfFiles
<1>4. ASSUME NEW r \in Requests, Attach(r) PROVE TrailInv'
  <2> DEFINE i == request[r].id
  <2>1. i \in Ids /\ attachments[i] = None /\ r \notin overtaken
    BY <1>4, StateOf DEF Attach, FileInv, UploadsAreFresh, TrailInv, TrailOf, AtStep
  <2>2. None \in Stored /\ r \in Stored /\ r # None
    BY NoneAssumption DEF Stored
  <2>3. RowKeys'
    BY <1>4 DEF Attach, TrailInv, RowKeys
  <2>4. \A j \in Ids : j # i => attachments'[j] = attachments[j]
    BY <1>0, <1>4 DEF Attach
  <2> QED
    BY <1>4, <2>1, <2>2, <2>3, <2>4, WriteStep DEF Attach, AtStep, OfFiles, TableOf
<1>5. ASSUME NEW r \in Requests, RemoveRow(r) PROVE TrailInv'
  <2> DEFINE i == request[r].id
             told == [kind |-> "remove", id |-> i, before |-> request[r].before, after |-> None]
  <2>1. /\ request[r] \in [at: {"loaded", "fileGone"}, kind: {"remove"}, id: Ids, before: Requests]
        /\ i \in Ids /\ request[r].before \in Requests
    BY <1>5, StateOf DEF RemoveRow, Removing
  <2>2. request[r].before \in Stored /\ None \in Stored /\ request[r].before # None
    BY <2>1, NoneAssumption DEF Stored
  <2>3. CopyOf(r) /\ HoldsCopy(r) /\ request[r].kind = "remove"
    BY <1>5, <2>1 DEF RemoveRow, TrailInv, HoldsCopy, AtStep
  <2>4. RowKeys'
    BY <1>5 DEF RemoveRow, TrailInv, RowKeys
  <2>5. \A j \in Ids : j # i => attachments'[j] = attachments[j]
    BY <1>0, <1>5 DEF RemoveRow
  <2>6. r \notin overtaken => request[r].before = TableOf("remove")[i]
    BY <2>3 DEF CopyOf, TableOf, OfFiles
  <2>7. r \in overtaken => ReplacedByAnother(r, told)
    BY <2>3 DEF CopyOf, ReplacedByAnother, SameRecord
  <2> QED
    BY <1>5, <2>1, <2>2, <2>4, <2>5, <2>6, <2>7, WriteStep DEF RemoveRow, AtStep, OfFiles
<1>6. ASSUME NEW r \in Requests, NEW i \in Ids, NEW field \in Fields, NEW value \in Values,
             LoadUpdate(r, i, field, value)
      PROVE  TrailInv'
  <2>1. rows[i] # None /\ i \in keys /\ r \notin overtaken
    BY <1>0, <1>6 DEF LoadUpdate, TrailInv, RowKeys
  <2> QED
    BY <1>6, <2>1, BeforeTheWrite DEF LoadUpdate, AtStep, OfFiles, TableOf
<1>7. ASSUME NEW r \in Requests, NEW i \in Ids, LoadDestroy(r, i) PROVE TrailInv'
  <2>1. rows[i] # None /\ i \in keys /\ r \notin overtaken
    BY <1>0, <1>7 DEF LoadDestroy, TrailInv, RowKeys
  <2> QED
    BY <1>7, <2>1, BeforeTheWrite DEF LoadDestroy, AtStep, OfFiles, TableOf
<1>8. ASSUME NEW r \in Requests, NEW i \in Ids, LoadRemove(r, i) PROVE TrailInv'
  <2>1. attachments[i] # None /\ r \notin overtaken
    BY <1>0, <1>8 DEF LoadRemove
  <2> QED
    BY <1>8, <2>1, BeforeTheWrite DEF LoadRemove, AtStep, OfFiles, TableOf
<1>9. ASSUME NEW r \in Requests, NEW i \in Ids, Upload(r, i) PROVE TrailInv'
  BY <1>9, BeforeTheWrite DEF Upload, AtStep
<1>10. ASSUME NEW r \in Requests, RemoveFile(r) PROVE TrailInv'
  <2> DEFINE state == [request[r] EXCEPT !.at = "fileGone"]
  <2>1. request[r] \in [at: {"loaded", "fileGone"}, kind: {"remove"}, id: Ids, before: Requests]
    BY <1>10, StateOf DEF RemoveFile, Removing
  <2>2. /\ state.at = "fileGone" /\ state.kind = "remove"
        /\ state.id = request[r].id /\ state.before = request[r].before
        /\ request[r].kind = "remove"
    BY <2>1
  <2>3. Go(r, state) /\ request[r].at = "loaded"
    BY <1>10 DEF RemoveFile, AtStep
  <2>4. CopyOf(r) /\ HoldsCopy(r)
    BY <2>3 DEF TrailInv, HoldsCopy
  <2> HIDE DEF state
  <2>5. r \in overtaken => ReplacedByAnother(r, state)
    BY <2>2, <2>4 DEF CopyOf, ReplacedByAnother, SameRecord
  <2>6. /\ state.before # None /\ OfFiles(state.kind)
        /\ r \notin overtaken => state.before = TableOf(state.kind)[state.id]
    BY <2>2, <2>4 DEF CopyOf, OfFiles, TableOf
  <2> QED
    BY <1>10, <2>2, <2>3, <2>5, <2>6, BeforeTheWrite DEF RemoveFile
<1>11. ASSUME NEW r \in Requests, RecordAudit(r) PROVE TrailInv'
  <2>1. /\ request'[r] = [at |-> "done"]
        /\ \A s \in Requests : s # r => request'[s] = request[s]
    BY <1>0, <1>11, GoFacts DEF RecordAudit, Done
  <2>2. /\ logged'[r] = request[r].change
        /\ UNCHANGED <<rows, attachments, keys, made, overtaken>>
        /\ \A s \in Requests : s # r => logged'[s] = logged[s]
    BY <1>0, <1>11 DEF RecordAudit
  <2>3. Tells(r, request[r].change)
    BY <1>11 DEF RecordAudit, TrailInv, TrailOf, AtStep
  <2>4. \A told : Tells(r, told) => Tells(r, told)'
    BY <2>2, TellsStays
  <2>5. request[r].change # None
    BY <1>11, StateOf, NoneAssumption DEF RecordAudit
  <2>6. Tells(r, logged[r])'
    BY <2>2, <2>3, <2>4
  <2>7. TrailOf(r)'
    BY <2>1, <2>2, <2>5, <2>6 DEF TrailOf, AtStep
  <2>8. CopyOf(r)'
    BY <2>1 DEF CopyOf, HoldsCopy
  <2> QED
    BY <2>1, <2>2, <2>7, <2>8, OwnTrail
<1>12. ASSUME NEW r \in Requests, Halt(r) PROVE TrailInv'
  <2>1. /\ request'[r] = [at |-> "died", last |-> request[r]]
        /\ \A s \in Requests : s # r => request'[s] = request[s]
    BY <1>0, <1>12, GoFacts DEF Halt, Dead
  <2>2. UNCHANGED <<rows, attachments, keys, made, overtaken, logged>>
    BY <1>12 DEF Halt
  <2>3. /\ request[r].at \in {"loaded", "stored", "fileGone"} => made[r] = None /\ logged[r] = None
        /\ request[r].at = "written" => Tells(r, request[r].change) /\ logged[r] = None
        /\ request[r].at \in {"loaded", "stored", "fileGone", "written"}
    BY <1>12 DEF Halt, TrailInv, TrailOf, AtStep
  <2>4. \A told : Tells(r, told) => Tells(r, told)'
    BY <2>2, TellsStays
  <2>5. request[r].at = "written" => Tells(r, request[r].last.change)'
    BY <2>1, <2>3, <2>4
  <2>6. TrailOf(r)'
    BY <2>1, <2>2, <2>3, <2>5 DEF TrailOf, AtStep
  <2>7. CopyOf(r)'
    BY <2>1 DEF CopyOf, HoldsCopy
  <2> QED
    BY <2>1, <2>2, <2>6, <2>7, OwnTrail
<1>13. CASE UNCHANGED recordVars
  BY <1>13 DEF recordVars, TrailInv, RowKeys, TrailOf, CopyOf, Tells, HoldsCopy, TableOf, AtStep,
               ReplacedByAnother, TellsAfter
<1> QED
  BY <1>1, <1>2, <1>3, <1>4, <1>5, <1>6, <1>7, <1>8, <1>9, <1>10, <1>11, <1>12, <1>13,
     Zenon DEF RecordsNext

\* However requests interleave and wherever they die, a change is missing from the
\* trail only while its request is before record_audit or died there, and an audit row
\* tells the change its request made, exactly unless somebody wrote the record after it
\* was loaded, and then but for the before-image (core/viewsets.py, attachments/views.py).
THEOREM TrailIsTheChanges == RecordsSpec => []TrailTellsChanges
<1>1. RecordsInit => TrailInv
  BY DEF RecordsInit, Waiting, TrailInv, RowKeys, TrailOf, CopyOf, HoldsCopy, AtStep
<1>2. RecordsTypeInv /\ FileInv /\ TrailInv /\ [RecordsNext]_recordVars => TrailInv'
  BY TrailStep
<1>3. RecordsTypeInv /\ TrailInv => TrailTellsChanges
  <2> SUFFICES ASSUME RecordsTypeInv, TrailInv, NEW r \in Requests
               PROVE  /\ logged[r] = None => made[r] = None \/ Stopped(r, "written")
                      /\ logged[r] # None /\ r \notin overtaken => logged[r] = made[r]
                      /\ logged[r] # None /\ r \in overtaken =>
                            ReplacedByAnother(r, logged[r]) /\ TellsAfter(logged[r], made[r])
    BY DEF TrailTellsChanges
  <2>1. request[r] \in RequestStates
    BY DEF RecordsTypeInv
  <2> DEFINE state == IF AtStep(r, "died") THEN request[r].last ELSE request[r]
  <2>2. state \in Live
    <3>1. CASE ~AtStep(r, "died")
      BY <3>1, StateOf
    <3>2. CASE AtStep(r, "died")
      <4>1. request[r] \notin Live
        BY <3>2 DEF AtStep, Live
      <4>2. request[r] \in [at: {"died"}, last: Live]
        BY <2>1, <4>1 DEF RequestStates
      <4>3. request[r].last \in Live
        BY <4>2
      <4> QED
        BY <3>2, <4>3
    <3> QED
      BY <3>1, <3>2
  <2>3. state.at \in {"new", "loaded", "stored", "fileGone", "written", "done"}
    BY <2>2 DEF Live
  <2>4. state.at = "written" => Stopped(r, "written")
    BY DEF Stopped, AtStep
  <2>5. TrailOf(r)
    BY DEF TrailInv
  <2> QED
    BY <2>3, <2>4, <2>5 DEF TrailOf, Tells
<1>4. RecordsInit => FileInv
  BY DEF RecordsInit, Waiting, FileInv, RowsNameFiles, UploadsAreFresh, RemovalsKnowFiles,
         FilesFollowRows, AtStep, Removing
<1>5. RecordsTypeInv /\ FileInv /\ [RecordsNext]_recordVars => FileInv'
  BY FileStep
<1>6. RecordsSpec => []RecordsTypeInv
  BY RecordsTyped
<1> QED
  BY <1>1, <1>2, <1>3, <1>4, <1>5, <1>6, PTL DEF RecordsSpec

=============================================================================
