---------------------------- MODULE TrainingJobs ----------------------------
(***************************************************************************)
(* Local training jobs (training/jobs.py): one lock, a table of jobs in     *)
(* memory, a manifest per job on disk, one thread per job that runs the      *)
(* training in a child process and verifies what it left.  A manifest may    *)
(* fail to be written, the process may die between any two steps while the   *)
(* child lives on, and the next process restores the jobs it finds.          *)
(***************************************************************************)
EXTENDS Naturals, FiniteSets

CONSTANTS Jobs,
          Outputs,       \* what a child may leave:
                         \* [code, both, policy, checkpoint, dataset, metrics]
          MaxBoots,      \* bound on processes
          None

ASSUME TrainingAssumption ==
  /\ MaxBoots \in Nat
  /\ None \notin Jobs /\ None \notin {"start", "begin", "finish"}
  /\ None \notin {"queued", "running", "completed", "failed", "directory"}
  /\ None \notin {"started", "training", "trained"}

VARIABLES manager,       \* "down", "restoring", "open" or "closed"
          boots,
          lock,          \* the step that holds the lock, and for which job
          jobs,          \* memory: job -> its state
          active,        \* _active_job_id
          threads,       \* job -> where its thread is
          left,          \* what a job's child left behind
          children,      \* jobs whose child process runs
          disk,          \* job -> its directory or manifest
          told,          \* history: terminal states a client was told
          unsaved        \* history: jobs whose thread could not write a manifest

trainingVars ==
  <<manager, boots, lock, jobs, active, threads, left, children, disk, told, unsaved>>

Active == {"queued", "running"}
Terminal == {"completed", "failed"}
Serving == manager \in {"open", "closed"}
Free == [step |-> None, job |-> None]

\* _subprocess_training raises, or _verify_outputs does.
Verified(j, o) ==
  /\ o.code = "zero"
  /\ o.both
  /\ o.policy = j /\ o.checkpoint /\ o.dataset
  /\ o.metrics

Init ==
  /\ manager = "down"
  /\ boots = 0
  /\ lock = Free
  /\ jobs = [j \in Jobs |-> None]
  /\ active = None
  /\ threads = [j \in Jobs |-> None]
  /\ left = [j \in Jobs |-> None]
  /\ children = {}
  /\ disk = [j \in Jobs |-> None]
  /\ told = {}
  /\ unsaved = {}

Takes(step, j) == lock = Free /\ lock' = [step |-> step, job |-> j]

-----------------------------------------------------------------------------
\* start: refused while a job is active.  Mutant: only a running one counts.
ConflictsRunning == active # None /\ jobs[active] = "running"
Conflicts == active # None /\ jobs[active] \in Active

Start(j) ==
  /\ manager = "open"
  /\ ~Conflicts
  /\ disk[j] = None /\ jobs[j] = None
  /\ Takes("start", j)
  /\ disk' = [disk EXCEPT ![j] = "directory"]
  /\ jobs' = [jobs EXCEPT ![j] = "queued"]
  /\ active' = j
  /\ UNCHANGED <<manager, boots, threads, left, children, told, unsaved>>

\* _run's first step.
Begin(j) ==
  /\ Serving /\ threads[j] = "started"
  /\ Takes("begin", j)
  /\ jobs' = [jobs EXCEPT ![j] = "running"]
  /\ UNCHANGED <<manager, boots, active, threads, left, children, disk, told, unsaved>>

\* _run's last step: the outcome is in memory before its manifest is written.
Finish(j) ==
  /\ Serving /\ threads[j] = "trained"
  /\ Takes("finish", j)
  /\ jobs' = [jobs EXCEPT ![j] = IF Verified(j, left[j]) THEN "completed" ELSE "failed"]
  /\ UNCHANGED <<manager, boots, active, threads, left, children, disk, told, unsaved>>

\* Mutant: the job is written as it was when its run began.
PersistedAtBegin(j) == IF jobs[j] \in Terminal THEN "running" ELSE jobs[j]
Persisted(j) == jobs[j]

\* _persist_job: a temporary file, replaced in one step, then the lock is left.
Persist ==
  LET j == lock.job
      goes == [start |-> "started", begin |-> "training", finish |-> None]
  IN  /\ Serving /\ lock # Free
      /\ disk' = [disk EXCEPT ![j] = Persisted(j)]
      /\ threads' = [threads EXCEPT ![j] = goes[lock.step]]
      /\ children' = IF lock.step = "begin" THEN children \cup {j} ELSE children
      /\ lock' = Free
      /\ UNCHANGED <<manager, boots, jobs, active, left, told, unsaved>>

\* A start is undone; a thread ends with its state in memory only.
PersistFails ==
  LET j == lock.job
  IN  /\ Serving /\ lock # Free
      /\ IF lock.step = "start"
         THEN /\ jobs' = [jobs EXCEPT ![j] = None]
              /\ active' = None
              /\ disk' = [disk EXCEPT ![j] = None]
              /\ UNCHANGED <<threads, unsaved>>
         ELSE /\ threads' = [threads EXCEPT ![j] = None]
              /\ unsaved' = unsaved \cup {j}
              /\ UNCHANGED <<jobs, active, disk>>
      /\ lock' = Free
      /\ UNCHANGED <<manager, boots, left, children, told>>

\* The child ends, or is killed at its time limit.
ChildEnds(j, o) ==
  /\ j \in children
  /\ children' = children \ {j}
  /\ left' = [left EXCEPT ![j] = o]
  /\ threads' = IF threads[j] = "training" THEN [threads EXCEPT ![j] = "trained"] ELSE threads
  /\ UNCHANGED <<manager, boots, lock, jobs, active, disk, told, unsaved>>

\* get and list
Tell(j) ==
  /\ Serving /\ lock = Free
  /\ jobs[j] \in Terminal
  /\ told' = told \cup {<<j, jobs[j]>>}
  /\ UNCHANGED <<manager, boots, lock, jobs, active, threads, left, children, disk, unsaved>>

Shutdown ==
  /\ manager = "open" /\ lock = Free
  /\ manager' = "closed"
  /\ UNCHANGED <<boots, lock, jobs, active, threads, left, children, disk, told, unsaved>>

Dies ==
  /\ manager' = "down"
  /\ lock' = Free
  /\ jobs' = [j \in Jobs |-> None]
  /\ active' = None
  /\ threads' = [j \in Jobs |-> None]
  /\ UNCHANGED <<boots, left, children, disk, told, unsaved>>

\* shutdown joins every thread before the process ends.
Exit == manager = "closed" /\ lock = Free /\ (\A j \in Jobs : threads[j] = None) /\ Dies

Crash == manager # "down" /\ Dies

-----------------------------------------------------------------------------
Boot ==
  /\ manager = "down" /\ boots < MaxBoots
  /\ boots' = boots + 1
  /\ manager' = "restoring"
  /\ UNCHANGED <<lock, jobs, active, threads, left, children, disk, told, unsaved>>

Interrupted(j) == disk[j] \in Active

\* _restore_jobs, a job at a time; a directory without a manifest is passed over.
Restore(j) ==
  /\ manager = "restoring"
  /\ jobs[j] = None /\ disk[j] \in Active \cup Terminal
  /\ jobs' = [jobs EXCEPT ![j] = IF Interrupted(j) THEN "failed" ELSE disk[j]]
  /\ disk' = [disk EXCEPT ![j] = IF Interrupted(j) THEN "failed" ELSE @]
  /\ UNCHANGED <<manager, boots, lock, active, threads, left, children, told, unsaved>>

Open ==
  /\ manager = "restoring"
  /\ \A j \in Jobs : disk[j] \in Active \cup Terminal => jobs[j] # None
  /\ manager' = "open"
  /\ UNCHANGED <<boots, lock, jobs, active, threads, left, children, disk, told, unsaved>>

Next ==
  \/ Persist \/ PersistFails \/ Shutdown \/ Exit \/ Crash \/ Boot \/ Open
  \/ \E j \in Jobs :
       \/ Start(j) \/ Begin(j) \/ Finish(j) \/ Tell(j) \/ Restore(j)
       \/ \E o \in Outputs : ChildEnds(j, o)

Spec == Init /\ [][Next]_trainingVars

-----------------------------------------------------------------------------
TypeOK ==
  /\ manager \in {"down", "restoring", "open", "closed"} /\ boots \in 0..MaxBoots
  /\ lock \in [step : {"start", "begin", "finish"}, job : Jobs] \cup {Free}
  /\ jobs \in [Jobs -> Active \cup Terminal \cup {None}]
  /\ active \in Jobs \cup {None}
  /\ threads \in [Jobs -> {"started", "training", "trained", None}]
  /\ left \in [Jobs -> Outputs \cup {None}]
  /\ children \subseteq Jobs
  /\ disk \in [Jobs -> Active \cup Terminal \cup {"directory", None}]
  /\ told \subseteq Jobs \X Terminal /\ unsaved \subseteq Jobs

\* What a client was told of an ended job stands, through any crash and restart,
\* unless the job's manifest could not be written; a job told completed left a
\* verified checkpoint and evidence of its own policy.
ToldStands ==
  \A j \in Jobs, s \in Terminal : <<j, s>> \in told =>
    /\ s = "completed" => Verified(j, left[j])
    /\ j \notin unsaved => /\ disk[j] = s
                           /\ jobs[j] \in {s, None}
                           /\ \A t \in Terminal \ {s} : <<j, t>> \notin told

\* A process runs one job at a time: at most one job is active and only it, or
\* the one being finished, has a thread, so a start that is refused has a job
\* under way, unless that job's thread ended because its manifest could not be
\* written.
OneJobAtATime ==
  /\ \A j \in Jobs : jobs[j] \in Active => j = active
  /\ \A j \in Jobs : threads[j] # None =>
       jobs[j] \in Active \/ lock = [step |-> "finish", job |-> j]
  /\ Conflicts /\ lock = Free /\ active \notin unsaved => threads[active] # None

\* What clients are told of a job, and what the manager says of itself, stand.
JobsStand == TypeOK /\ ToldStands /\ OneJobAtATime
=============================================================================
