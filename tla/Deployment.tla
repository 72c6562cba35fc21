----------------------------- MODULE Deployment -----------------------------
(***************************************************************************)
(* The supervisor of the long-running API process in its sandbox           *)
(* (ops/deployment/daytona_process.py) and the create-once snapshots it    *)
(* keeps on the object volume (ops/deployment/daytona_state.py).  The      *)
(* supervisor is a command run once per start or stop; it can be cut off   *)
(* after any step, the sandbox can be replaced by an empty one, and a      *)
(* process it launched may outlive the record of its identity.             *)
(***************************************************************************)
EXTENDS Naturals, Sequences, FiniteSets

CONSTANTS
  RootOrder,     \* MANAGED_ROOTS, a sequence of directory names
  Pids,          \* process numbers the kernel hands out
  Absent,        \* nothing there
  MaxVersions,   \* bound: versions of a root's files
  MaxTicks,      \* bound: processes started
  MaxSnapshots   \* bound: snapshot directories on the volume

VARIABLES
  tree,       \* the managed state: the version of the files under each root, 0 for none
  marker,     \* the file .recovery-in-progress
  volume,     \* the snapshot directories, oldest first
  processes,  \* the live processes: pid -> its start ticks and whether it is the API
  ticks,      \* the kernel's clock, as processes started so far
  record,     \* run/api.pid.json
  supervisor, \* the command in progress
  stopped     \* what the last stop_process killed

deploymentVars ==
  <<tree, marker, volume, processes, ticks, record, supervisor, stopped>>

Roots == {RootOrder[i] : i \in DOMAIN RootOrder}
Nothing == [r \in Roots |-> 0]
Idle == [at |-> "idle", what |-> Absent, next |-> 1, from |-> 0,
         found |-> Nothing, marked |-> FALSE, alone |-> FALSE]

TypeOK ==
  /\ tree \in [Roots -> 0..MaxVersions]
  /\ marker \in BOOLEAN
  /\ \A i \in DOMAIN volume : volume[i].files \in [Roots -> 0..MaxVersions]
  /\ processes \in [Pids -> [started : 1..MaxTicks, api : BOOLEAN] \cup {Absent}]
  /\ record \in [pid : Pids, started : 1..MaxTicks] \cup {Absent}

Init ==
  /\ tree = Nothing
  /\ marker = FALSE
  /\ volume = <<>>
  /\ processes = [p \in Pids |-> Absent]
  /\ ticks = 0
  /\ record = Absent
  /\ supervisor = Idle
  /\ stopped = Absent

(* recover_latest looks at the newest directory that has a manifest.       *)
Complete == {i \in DOMAIN volume : volume[i].manifest}
Newest == CHOOSE i \in Complete : \A j \in Complete : j <= i

(* _clear_managed_state.                                                   *)
Cleared == Nothing

(* _is_same_process: the pid is still the process that was recorded.       *)
\* Mutant: the pid file's start ticks are not compared.
PidInUse(identity) == processes[identity.pid] # Absent

SameProcess(identity) ==
  /\ processes[identity.pid] # Absent
  /\ processes[identity.pid].started = identity.started

At(step) == supervisor.at = step
LiveApi == {p \in Pids : processes[p] # Absent /\ processes[p].api}

(* A command begins after preflight and repository_revision have passed:   *)
(* a refusal of theirs changes nothing.                                    *)
Begin(what) ==
  /\ At("idle")
  /\ supervisor' = [Idle EXCEPT !.at = "stopping", !.what = what]
  /\ UNCHANGED <<tree, marker, volume, processes, ticks, record, stopped>>

(* stop_process: the record is removed whatever it says; the process group *)
(* is signalled only when its leader is the recorded process. The look and *)
(* the signals are one step: the pid is not reused between them.           *)
StopProcess ==
  /\ At("stopping")
  /\ IF record # Absent /\ SameProcess(record)
       THEN /\ stopped' = processes[record.pid]
            /\ processes' = [processes EXCEPT ![record.pid] = Absent]
       ELSE UNCHANGED <<processes, stopped>>
  /\ record' = Absent
  /\ supervisor' = [supervisor EXCEPT
                      !.found = tree, !.marked = marker, !.alone = (LiveApi' = {}),
                      !.at = IF supervisor.what = "start" THEN "recovering" ELSE "exporting"]
  /\ UNCHANGED <<tree, marker, volume, ticks>>

(* recover_latest up to the staging directory: a marker left by a cut off  *)
(* recovery clears the tree first; a tree that is not empty stays.         *)
\* Mutant: the marker is not looked at.
TreeAsItIs == tree

TreeFound == IF marker THEN Cleared ELSE tree

Recover ==
  /\ At("recovering")
  /\ tree' = TreeFound
  /\ IF TreeFound # Nothing \/ Complete = {}
       THEN /\ marker' = FALSE
            /\ supervisor' = [supervisor EXCEPT !.at = "exporting"]
       ELSE /\ marker' = TRUE
            /\ supervisor' = [supervisor EXCEPT !.at = "installing", !.from = Newest]
  /\ UNCHANGED <<volume, processes, ticks, record, stopped>>

(* One os.replace of a staged root into the tree; the last one is followed *)
(* by the marker's removal.  A directory that is already there, or a       *)
(* snapshot object that fails its checksum, ends the command after the     *)
(* tree is cleared.                                                        *)
Install ==
  /\ At("installing")
  /\ IF supervisor.next > Len(RootOrder)
       THEN /\ marker' = FALSE
            /\ supervisor' = [supervisor EXCEPT !.at = "exporting", !.next = 1]
            /\ UNCHANGED tree
       ELSE LET root == RootOrder[supervisor.next]
                staged == volume[supervisor.from].files[root]
            IN  /\ staged = 0 \/ tree[root] = 0
                /\ tree' = [tree EXCEPT ![root] = IF staged = 0 THEN @ ELSE staged]
                /\ supervisor' = [supervisor EXCEPT !.next = @ + 1]
                /\ UNCHANGED marker
  /\ UNCHANGED <<volume, processes, ticks, record, stopped>>

RecoveryFails ==
  /\ At("installing")
  /\ supervisor.next <= Len(RootOrder)
  /\ tree' = Cleared
  /\ marker' = FALSE
  /\ supervisor' = Idle
  /\ UNCHANGED <<volume, processes, ticks, record, stopped>>

After == IF supervisor.what = "start" THEN "launching" ELSE "idle"

(* export_snapshot: nothing for an empty tree; otherwise a new directory,  *)
(* the files copied one after the other, and the manifest last.            *)
OpenSnapshot ==
  /\ At("exporting")
  /\ IF tree = Nothing
       THEN /\ supervisor' = IF After = "idle" THEN Idle ELSE [supervisor EXCEPT !.at = After]
            /\ UNCHANGED volume
       ELSE /\ Len(volume) < MaxSnapshots
            /\ volume' = Append(volume, [files |-> Nothing, manifest |-> FALSE])
            /\ supervisor' = [supervisor EXCEPT !.at = "copying", !.next = 1]
  /\ UNCHANGED <<tree, marker, processes, ticks, record, stopped>>

CopyFiles ==
  /\ At("copying")
  /\ supervisor.next <= Len(RootOrder)
  /\ LET root == RootOrder[supervisor.next]
     IN  volume' = [volume EXCEPT ![Len(volume)].files[root] = tree[root]]
  /\ supervisor' = [supervisor EXCEPT !.next = @ + 1]
  /\ UNCHANGED <<tree, marker, processes, ticks, record, stopped>>

WriteManifest ==
  /\ At("copying")
  /\ supervisor.next > Len(RootOrder)
  /\ volume' = [volume EXCEPT ![Len(volume)].manifest = TRUE]
  /\ supervisor' = IF After = "idle" THEN Idle ELSE [supervisor EXCEPT !.at = After]
  /\ UNCHANGED <<tree, marker, processes, ticks, record, stopped>>

(* subprocess.Popen, a second of waiting, and only then the identity file. *)
Launch ==
  /\ At("launching")
  /\ ticks < MaxTicks
  /\ \E p \in Pids :
       /\ processes[p] = Absent
       /\ processes' = [processes EXCEPT ![p] = [started |-> ticks + 1, api |-> TRUE]]
       /\ supervisor' = [supervisor EXCEPT !.at = "recording", !.from = p]
  /\ ticks' = ticks + 1
  /\ UNCHANGED <<tree, marker, volume, record, stopped>>

RecordIdentity ==
  /\ At("recording")
  /\ supervisor' = Idle
  /\ record' = IF processes[supervisor.from] = Absent THEN record
               ELSE [pid |-> supervisor.from, started |-> processes[supervisor.from].started]
  /\ UNCHANGED <<tree, marker, volume, processes, ticks, stopped>>

(* The supervisor is killed, or one of its operations raises.              *)
Crash ==
  /\ supervisor # Idle
  /\ supervisor' = Idle
  /\ UNCHANGED <<tree, marker, volume, processes, ticks, record, stopped>>

(* An API process writes under a root; it ends; its pid goes to another,   *)
(* except while the supervisor, its parent, has yet to poll it.            *)
Write(p, root) ==
  /\ processes[p] # Absent /\ processes[p].api
  /\ tree[root] < MaxVersions
  /\ tree' = [tree EXCEPT ![root] = @ + 1]
  /\ UNCHANGED <<marker, volume, processes, ticks, record, supervisor, stopped>>

ProcessEnds(p) ==
  /\ processes[p] # Absent
  /\ processes' = [processes EXCEPT ![p] = Absent]
  /\ UNCHANGED <<tree, marker, volume, ticks, record, supervisor, stopped>>

OtherProcess(p) ==
  /\ processes[p] = Absent
  /\ ~(At("recording") /\ supervisor.from = p)
  /\ ticks < MaxTicks
  /\ ticks' = ticks + 1
  /\ processes' = [processes EXCEPT ![p] = [started |-> ticks + 1, api |-> FALSE]]
  /\ UNCHANGED <<tree, marker, volume, record, supervisor, stopped>>

(* The sandbox is replaced by a fresh one; the object volume stays.        *)
LoseSandbox ==
  /\ tree' = Nothing
  /\ marker' = FALSE
  /\ processes' = [p \in Pids |-> Absent]
  /\ record' = Absent
  /\ supervisor' = Idle
  /\ UNCHANGED <<volume, ticks, stopped>>

Next ==
  \/ \E what \in {"start", "stop"} : Begin(what)
  \/ StopProcess \/ Recover \/ Install \/ RecoveryFails
  \/ OpenSnapshot \/ CopyFiles \/ WriteManifest
  \/ Launch \/ RecordIdentity \/ Crash \/ LoseSandbox
  \/ \E p \in Pids, root \in Roots : Write(p, root)
  \/ \E p \in Pids : ProcessEnds(p) \/ OtherProcess(p)

Spec == Init /\ [][Next]_deploymentVars

-----------------------------------------------------------------------------
(* A start goes on to export and launch only on a whole tree: the one it   *)
(* found, if no recovery had been cut off in it, or all of the newest      *)
(* complete snapshot (recover_latest), however often recoveries were cut   *)
(* off before.  A process left running without a record could write a tree *)
(* of its own in between, so the claim is for a supervisor alone.          *)
Holds(now, before) ==
  \A r \in Roots : now[r] >= before[r]

NeverHalfRestored ==
  (At("exporting") /\ supervisor.what = "start" /\ supervisor.alone) =>
    \/ ~supervisor.marked /\ supervisor.found # Nothing /\ Holds(tree, supervisor.found)
    \/ tree = IF Complete = {} THEN Nothing ELSE volume[Newest].files

(* stop_process kills nothing but an API process: a pid file that outlived *)
(* its process never sends a signal to the pid's next holder               *)
(* (_process_start_ticks: "so a stale PID file cannot kill a reused PID"). *)
OnlyTheApiIsStopped == stopped # Absent => stopped.api
=============================================================================
