--------------------------- MODULE ControllerRuns ---------------------------
(***************************************************************************)
(* One controller training run (ops/controller/remote_job.py over          *)
(* ops/controller/contract.py): a run directory with its contract, the     *)
(* attempts and their checkpoints, the exported controller, the physical   *)
(* qualification evidence and the artifact manifest.  One command works on *)
(* the directory at a time; it, and the training it waits for, may be cut  *)
(* off after any write and the command repeated.                           *)
(***************************************************************************)
EXTENDS Naturals, Sequences, FiniteSets

CONSTANTS
  Steps,        \* numbers of the checkpoints a training may leave
  Outcomes,     \* what the physical measures of the checkpoints may turn out to be:
                \* functions from a checkpoint to the set of what went wrong
  MaxAttempts,  \* bound: attempt directories
  None          \* no file, no value

VARIABLES
  mode,      \* the run's mode, part of its id
  quality,   \* checkpoint -> the measures its controller would show
  contract,  \* training-contract.json
  attempts,  \* the attempt directories: checkpoints and whether the log ends well
  onnx,      \* controller.onnx: the checkpoint it was exported from
  evidence,  \* qualification-evidence.json: the controller it was measured on
  manifest,  \* artifact-manifest.json
  job        \* the command in progress

runVars == <<mode, quality, contract, attempts, onnx, evidence, manifest, job>>

Checkpoints == (1..MaxAttempts) \X Steps
Idle == [at |-> "idle", kind |-> None, contract |-> None, checkpoint |-> None]
At(step) == job.at = step
Goes(step) == job' = [job EXCEPT !.at = step]

TypeOK ==
  /\ mode \in {"smoke", "full"}
  /\ contract # None => Len(contract.attempts) <= Len(attempts)
  /\ Len(attempts) <= MaxAttempts
  /\ {onnx, evidence} \subseteq Checkpoints \cup {None}

Init ==
  /\ mode \in {"smoke", "full"}
  /\ quality \in Outcomes
  /\ contract = None
  /\ attempts = <<>>
  /\ onnx = None /\ evidence = None /\ manifest = None
  /\ job = Idle

(* evaluate_qualification: a metric that is not finite is inside every     *)
(* bound it is compared with, so finiteness is asked for on its own; a     *)
(* smoke run never qualifies.                                              *)
OfMode == IF mode = "full" THEN {} ELSE {"smoke training"}

\* Mutant: finiteness is left to the bounds.
FailuresOfBounds(c) == (quality[c] \ {"not finite"}) \cup OfMode
Failures(c) == quality[c] \cup OfMode
Qualifies(c) == Failures(c) = {}

(* _latest_checkpoint of an attempt's directory, and of the run's.         *)
Has(a) == a \in DOMAIN attempts /\ attempts[a].steps # {}
LatestIn(a) == <<a, CHOOSE s \in attempts[a].steps : \A t \in attempts[a].steps : t <= s>>
Latest ==
  CHOOSE c \in {LatestIn(a) : a \in {b \in DOMAIN attempts : Has(b)}} :
    \A a \in {b \in DOMAIN attempts : Has(b)} :
      LatestIn(a)[2] < c[2] \/ (LatestIn(a)[2] = c[2] /\ a <= c[1])

(* _recover_attempts: an attempt is complete by its checkpoint and its     *)
(* log, whatever its status says; a running one is an interrupted one.     *)
Completed(a) == Has(a) /\ attempts[a].done

\* Mutant: the status of the record decides.
CompleteOnRecord(written) ==
  {a \in DOMAIN written.attempts : written.attempts[a] = "training_complete"}
Complete(written) == {a \in DOMAIN written.attempts : Completed(a)}
LastOf(S) == CHOOSE a \in S : \A b \in S : b <= a
StatusRecovered(written, a) ==
  CASE Completed(a) -> "training_complete"
    [] ~Completed(a) /\ written.attempts[a] = "running" -> "interrupted"
    [] OTHER -> written.attempts[a]
Recovered(written) ==
  [written EXCEPT
     !.attempts = [a \in DOMAIN written.attempts |-> StatusRecovered(written, a)],
     !.status = IF Complete(written) # {} THEN "training_complete" ELSE @,
     !.selected = IF Complete(written) # {} THEN LastOf(Complete(written)) ELSE @]

-----------------------------------------------------------------------------
(* run_training: the contract is written before anything else.             *)
NewContract ==
  [status |-> "pending", attempts |-> <<>>, selected |-> None, exported |-> None]

RunTraining ==
  /\ At("idle")
  /\ contract' = IF contract = None THEN NewContract ELSE contract
  /\ job' = [Idle EXCEPT !.at = "recovering", !.kind = "train"]
  /\ UNCHANGED <<mode, quality, attempts, onnx, evidence, manifest>>

(* The recovered contract is written only when an attempt's status changed;*)
(* otherwise what it says of the run stays in memory.                      *)
RecoverAttempts ==
  /\ At("recovering")
  /\ LET found == Recovered(contract)
         changed == found.attempts # contract.attempts
     IN  /\ contract' = IF changed THEN found ELSE contract
         /\ job' = IF Complete(contract) # {}
                     THEN [job EXCEPT !.at = "exporting", !.contract = found,
                             !.checkpoint = LatestIn(LastOf(Complete(contract)))]
                     ELSE [job EXCEPT !.at = "attempting", !.contract = found]
  /\ UNCHANGED <<mode, quality, attempts, onnx, evidence, manifest>>

(* _execute_attempt: a directory of its own, that must not exist; then the *)
(* contract names the attempt; then the training is started.               *)
MakeAttempt ==
  /\ At("attempting")
  /\ IF Len(attempts) > Len(job.contract.attempts)
       THEN job' = Idle /\ UNCHANGED attempts
       ELSE /\ Len(attempts) < MaxAttempts
            /\ attempts' = Append(attempts, [steps |-> {}, done |-> FALSE])
            /\ Goes("beginning")
  /\ UNCHANGED <<mode, quality, contract, onnx, evidence, manifest>>

Attempt == Len(attempts)

BeginAttempt ==
  /\ At("beginning")
  /\ contract' = [job.contract EXCEPT !.attempts = Append(@, "running"), !.status = "running"]
  /\ job' = [job EXCEPT !.at = "training", !.contract = contract']
  /\ UNCHANGED <<mode, quality, attempts, onnx, evidence, manifest>>

(* The training process saves checkpoints and ends its log.                *)
SaveCheckpoint(s) ==
  /\ At("training") /\ ~attempts[Attempt].done
  /\ \A t \in attempts[Attempt].steps : t < s
  /\ attempts' = [attempts EXCEPT ![Attempt].steps = @ \cup {s}]
  /\ UNCHANGED <<mode, quality, contract, onnx, evidence, manifest, job>>

EndLog ==
  /\ At("training") /\ ~attempts[Attempt].done
  /\ attempts' = [attempts EXCEPT ![Attempt].done = TRUE]
  /\ UNCHANGED <<mode, quality, contract, onnx, evidence, manifest, job>>

FinishAttempt ==
  /\ At("training") /\ Completed(Attempt)
  /\ contract' = [job.contract EXCEPT !.attempts[Attempt] = "training_complete",
                    !.status = "training_complete", !.selected = Attempt]
  /\ job' = [job EXCEPT !.at = "exporting", !.contract = contract',
               !.checkpoint = LatestIn(Attempt)]
  /\ UNCHANGED <<mode, quality, attempts, onnx, evidence, manifest>>

(* _record_attempt_failure: the process failed, did not end its log, left  *)
(* no checkpoint, or did not exit in time; or the command was interrupted. *)
FailAttempt(status) ==
  /\ At("training")
  /\ contract' = [job.contract EXCEPT !.attempts[Attempt] = status, !.status = status]
  /\ job' = Idle
  /\ UNCHANGED <<mode, quality, attempts, onnx, evidence, manifest>>

-----------------------------------------------------------------------------
(* export_training_run: the checkpoint of the contract, or the latest.     *)
ExportRun ==
  /\ At("idle") /\ contract # None
  /\ contract.exported # None \/ \E a \in DOMAIN attempts : Has(a)
  /\ job' = [at |-> "exporting", kind |-> "export", contract |-> contract,
             checkpoint |-> IF contract.exported # None THEN contract.exported ELSE Latest]
  /\ UNCHANGED <<mode, quality, contract, attempts, onnx, evidence, manifest>>

(* _export_checkpoint, for each of the three commands that call it.        *)
ExportCheckpoint ==
  /\ At("exporting")
  /\ onnx' = job.checkpoint
  /\ Goes(CASE job.kind = "train" -> "recording"
            [] job.kind = "export" -> "summing up"
            [] job.kind = "select" -> "copying")
  /\ UNCHANGED <<mode, quality, contract, attempts, evidence, manifest>>

RecordExport ==
  /\ At("recording")
  /\ contract' = [job.contract EXCEPT !.exported = job.checkpoint,
                    !.status = IF job.kind = "select" THEN "qualified_checkpoint_selected"
                               ELSE "exported_unqualified"]
  /\ Goes("summing up")
  /\ UNCHANGED <<mode, quality, attempts, onnx, evidence, manifest>>

(* build_artifact_manifest and write_artifact_manifest.                    *)
WriteManifest ==
  /\ At("summing up")
  /\ manifest' = [controller |-> onnx,
                  qualified |-> job.kind = "select" /\ Qualifies(job.checkpoint)]
  /\ job' = Idle
  /\ UNCHANGED <<mode, quality, contract, attempts, onnx, evidence>>

(* native_qualify measures the exported controller, in another process.    *)
MeasureController ==
  /\ onnx # None
  /\ evidence' = onnx
  /\ UNCHANGED <<mode, quality, contract, attempts, onnx, manifest, job>>

(* qualify_training_run, with verify_qualification_binding.                *)
Bound == evidence = onnx
QualifyRun ==
  /\ At("idle") /\ contract # None /\ evidence # None
  /\ Bound
  /\ manifest' = [controller |-> onnx, qualified |-> Qualifies(evidence)]
  /\ UNCHANGED <<mode, quality, contract, attempts, onnx, evidence, job>>

(* select_qualified_checkpoint: one checkpoint of the completed attempt,   *)
(* with a probe of it that passed and of every later one that failed.      *)
Later(c) == {s \in attempts[c[1]].steps : s > c[2]}

\* Mutant: evidence for some of the later checkpoints is enough.
SomeLater(c, provided) == provided \subseteq Later(c)
AllLater(c, provided) == provided = Later(c)

SelectCheckpoint(c, provided) ==
  /\ At("idle") /\ contract # None /\ mode = "full"
  /\ contract.status \in {"exported_unqualified", "qualified_checkpoint_selected"}
  /\ contract.selected = c[1] /\ contract.attempts[c[1]] = "training_complete"
  /\ c[2] \in attempts[c[1]].steps
  /\ Qualifies(c)
  /\ \A s \in provided : s > c[2] /\ ~Qualifies(<<c[1], s>>)
  /\ AllLater(c, provided)
  /\ job' = [at |-> "exporting", kind |-> "select", contract |-> contract, checkpoint |-> c]
  /\ UNCHANGED <<mode, quality, contract, attempts, onnx, evidence, manifest>>

(* The probe's evidence is copied and must name the fresh export.          *)
CopyEvidence ==
  /\ At("copying")
  /\ evidence' = job.checkpoint
  /\ Goes("recording")
  /\ UNCHANGED <<mode, quality, contract, attempts, onnx, manifest>>

(* The command is killed, with its child, or an operation of it raises.    *)
Crash ==
  /\ job # Idle
  /\ job' = Idle
  /\ UNCHANGED <<mode, quality, contract, attempts, onnx, evidence, manifest>>

Next ==
  \/ RunTraining \/ RecoverAttempts \/ MakeAttempt \/ BeginAttempt
  \/ \E s \in Steps : SaveCheckpoint(s)
  \/ EndLog \/ FinishAttempt
  \/ \E status \in {"failed", "interrupted"} : FailAttempt(status)
  \/ ExportRun \/ ExportCheckpoint \/ RecordExport \/ WriteManifest
  \/ MeasureController \/ QualifyRun
  \/ \E c \in Checkpoints, provided \in SUBSET Steps : SelectCheckpoint(c, provided)
  \/ CopyEvidence \/ Crash

Spec == Init /\ [][Next]_runVars

-----------------------------------------------------------------------------
(* A controller is called qualified for what was measured on it.  The      *)
(* manifest's verdict is about the controller the manifest lists, with no  *)
(* measure out of bounds or not finite, in a full run                      *)
(* (evaluate_qualification, verify_qualification_binding); and a selected  *)
(* checkpoint passed while every later one of its attempt failed           *)
(* (select_qualified_checkpoint: "Select the latest physically qualified   *)
(* checkpoint from one completed full attempt").                           *)
ControllerEarned ==
  /\ manifest # None /\ manifest.qualified =>
       mode = "full" /\ quality[manifest.controller] = {}
  /\ contract # None /\ contract.status = "qualified_checkpoint_selected" =>
       LET c == contract.exported
       IN  /\ quality[c] = {} /\ attempts[c[1]].done
           /\ \A s \in Later(c) : quality[<<c[1], s>>] # {}

(* A complete plan is not run again: an attempt whose log ends well and    *)
(* left a checkpoint is recovered by the next command, whatever write the  *)
(* previous one was cut off before (_recover_attempts), so no new attempt  *)
(* is made after it.                                                       *)
AttemptStep == Len(attempts') > Len(attempts) => \A a \in DOMAIN attempts : ~Completed(a)
TrainedOnce == [][AttemptStep]_runVars
=============================================================================
