---------------------------- MODULE LiveEpisodes ----------------------------
(***************************************************************************)
(* Live episodes: LiveEpisodeManager (live/manager.py) supervises worker    *)
(* threads, each running one episode with LiveEpisodeRunner                 *)
(* (live/runner.py) over the episode service and the bounded video store.   *)
(*                                                                         *)
(* The manager's lock makes start, cancel, status updates and pruning one   *)
(* step each; a run is cut at every access to what others share: the cancel *)
(* event, the video store, the episode service, the manager's table.        *)
(*                                                                         *)
(* Abstracted: a run has its clock (physics steps, telemetry ticks, video   *)
(* frames) and its termination reason; what is measured is left out.  The   *)
(* episode service is the session of each episode (see EpisodeLifecycle):   *)
(* any of its calls may raise, a close with the closure recorded or not.    *)
(***************************************************************************)
EXTENDS LiveVideo

CONSTANTS Episodes,       \* the ids the controller makes up: never reused
          MaxConcurrent,  \* maximum_concurrent_episodes
          MaxRetained,    \* maximum_retained_episodes
          PhysicsHz, TelemetryHz, VideoHz,
          MaxSteps,       \* maximum_duration_seconds, in physics steps
          NoReason

Reasons == {"cancelled", "settled_at_destination", "time_limit"}

\* A tick comes after a whole number of physics steps, as PHYSICS_HZ // 20 has it.
ASSUME LiveAssumption ==
  /\ {MaxConcurrent, MaxRetained, PhysicsHz, TelemetryHz, VideoHz, MaxSteps}
       \subseteq Nat \ {0}
  /\ PhysicsHz % TelemetryHz = 0
  /\ NoReason \notin Reasons

VARIABLES statuses,   \* LiveEpisodeManager._statuses: its keys, in order
          phase,      \* ... and the phase of each
          cancelled,  \* _cancellations[e].is_set()
          shutting,   \* _shutting_down
          worker,     \* where _run_worker is; done when the future is
          run,        \* the locals of LiveEpisodeRunner._run_async
          session,    \* the episode in the episode service (external)
          video,      \* BoundedVideoService
          late        \* history: ticks not completed, recorded after a cancel

vars == <<statuses, phase, cancelled, shutting, worker, run, session, video, late>>

-----------------------------------------------------------------------------
Phases == {"queued", "starting", "running", "cancelling", "closed", "failed"}
Ended == {"closed", "failed"}
Steps == {"opening", "first", "check", "video", "tick", "report", "physics",
          "close", "finish", "completed", "abort", "release", "failed", "returning"}
\* Time may be up between two ticks: the run then goes on to the next tick.
LastStep == MaxSteps + PhysicsHz \div TelemetryHz
Frames == 0 .. (LastStep * VideoHz) \div PhysicsHz
\* Every frame that can be due has a size.
ASSUME FramesAssumption == Frames \subseteq DOMAIN FrameBytes
Ticks == 0 .. (LastStep * TelemetryHz) \div PhysicsHz
Runs == [step : 0 .. LastStep, index : 0 .. Cardinality(Frames),
         pending : SUBSET Frames,
         records : Seq([completed : BOOLEAN, frames : SUBSET Frames]),
         reason : Reasons \cup {NoReason}]
NewRun == [step |-> 0, index |-> 0, pending |-> {}, records |-> <<>>,
           reason |-> NoReason]

\* Mutant: the tick before the frame.
AssignedTickFloor(i) == (i * TelemetryHz) \div VideoHz
\* assigned_sequence: the first tick at or after the frame's scheduled time
AssignedTick(i) == (i * TelemetryHz + VideoHz - 1) \div VideoHz
FrameDue(r) == r.index * PhysicsHz <= r.step * VideoHz
TickDue(r) == Len(r.records) * PhysicsHz <= r.step * TelemetryHz

Active == {e \in Episodes : phase[e] \in Phases \ Ended}
Busy == {e \in Episodes : worker[e] \in Steps}
Goto(e, step) == worker' = [worker EXCEPT ![e] = step]

\* _prune_terminal_episodes_locked: the oldest ended episodes beyond the
\* retention, except those whose worker has not returned.
Removable(table, ph) ==
  LET ended == SelectSeq(table, LAMBDA e : ph[e] \in Ended)
  IN {ended[n] : n \in {m \in 1 .. Len(ended) - MaxRetained :
                          worker[ended[m]] = "done"}}

\* The table, its phases and the video store after the table is pruned.
Prune(table, ph, v) ==
  LET gone == Removable(table, ph) IN
  /\ statuses' = Without(table, gone)
  /\ phase' = [e \in Episodes |-> IF e \in gone THEN "absent" ELSE ph[e]]
  /\ video' = VideoDiscarded(v, gone)

Init ==
  /\ statuses = <<>>
  /\ phase = [e \in Episodes |-> "absent"]
  /\ cancelled = [e \in Episodes |-> FALSE]
  /\ shutting = FALSE
  /\ worker = [e \in Episodes |-> "none"]
  /\ run = [e \in Episodes |-> NewRun]
  /\ session = [e \in Episodes |-> "none"]
  /\ video = NoVideo
  /\ late = [e \in Episodes |-> 0]

-----------------------------------------------------------------------------
HasCapacity == Cardinality(Active) < MaxConcurrent

\* start_episode; a refused start has pruned the table nevertheless.
StartEpisode(e) ==
  /\ ~shutting
  /\ worker[e] = "none"
  /\ HasCapacity
  /\ LET gone == Removable(statuses, phase) IN
       /\ statuses' = Append(Without(statuses, gone), e)
       /\ phase' = [x \in Episodes |-> IF x = e THEN "queued"
                                       ELSE IF x \in gone THEN "absent" ELSE phase[x]]
       /\ video' = VideoStarted(VideoDiscarded(video, gone), e)
  /\ Goto(e, "queued")
  /\ UNCHANGED <<cancelled, shutting, run, session, late>>

StartRefused ==
  /\ ~shutting
  /\ ~HasCapacity
  /\ Prune(statuses, phase, video)
  /\ UNCHANGED <<cancelled, shutting, worker, run, session, late>>

\* wait returns when the future is done; the episode may be pruned by then.
Wait(e) ==
  /\ worker[e] = "done"
  /\ Prune(statuses, phase, video)
  /\ UNCHANGED <<cancelled, shutting, worker, run, session, late>>

Cancel(e) ==
  /\ e \in Active
  /\ cancelled' = [cancelled EXCEPT ![e] = TRUE]
  /\ phase' = [phase EXCEPT ![e] = "cancelling"]
  /\ UNCHANGED <<statuses, shutting, worker, run, session, video, late>>

\* shutdown; the executor is then joined, see EveryRunEnds.
Shutdown ==
  /\ ~shutting
  /\ shutting' = TRUE
  /\ cancelled' = [e \in Episodes |-> cancelled[e] \/ e \in Active]
  /\ UNCHANGED <<statuses, phase, worker, run, session, video, late>>

-----------------------------------------------------------------------------
\* A thread of the executor takes the oldest queued episode.
WorkerStarts(e) ==
  /\ worker[e] = "queued"
  /\ Cardinality(Busy) < MaxConcurrent
  /\ \A x \in Episodes : worker[x] = "queued" =>
       \E m, n \in DOMAIN statuses : m <= n /\ statuses[m] = e /\ statuses[n] = x
  /\ phase' = [phase EXCEPT ![e] = "starting"]
  /\ Goto(e, "opening")
  /\ UNCHANGED <<statuses, cancelled, shutting, run, session, video, late>>

\* The scene is assembled and the episode opened.
Open(e) ==
  /\ worker[e] = "opening"
  /\ session' = [session EXCEPT ![e] = "open"]
  /\ Goto(e, "first")
  /\ UNCHANGED <<statuses, phase, cancelled, shutting, run, video, late>>

\* Mutant: a cancellation is looked at before the first tick only.
CheckCancelEarly(e) ==
  /\ worker[e] = "check"
  /\ LET r == IF cancelled[e] /\ run[e].records = <<>>
              THEN [run[e] EXCEPT !.reason = "cancelled"] ELSE run[e]
     IN /\ run' = [run EXCEPT ![e] = r]
        /\ Goto(e, IF FrameDue(r) THEN "video"
                   ELSE IF TickDue(r) THEN "tick" ELSE "physics")
  /\ UNCHANGED <<statuses, phase, cancelled, shutting, session, video, late>>

\* The top of the loop; a reason once given is kept.
CheckCancel(e) ==
  /\ worker[e] = "check"
  /\ LET r == IF cancelled[e] /\ run[e].reason = NoReason
              THEN [run[e] EXCEPT !.reason = "cancelled"] ELSE run[e]
     IN /\ run' = [run EXCEPT ![e] = r]
        /\ Goto(e, IF FrameDue(r) THEN "video"
                   ELSE IF TickDue(r) THEN "tick" ELSE "physics")
  /\ UNCHANGED <<statuses, phase, cancelled, shutting, session, video, late>>

\* capture_video; the first frame precedes the loop.
Capture(e) ==
  /\ worker[e] \in {"first", "video"}
  /\ Accepts(video, e, run[e].index)
  /\ video' = VideoAppended(video, e, run[e].index)
  /\ LET r == [run[e] EXCEPT !.index = @ + 1, !.pending = @ \cup {run[e].index}]
     IN /\ run' = [run EXCEPT ![e] = r]
        /\ Goto(e, IF worker[e] = "first" THEN "check"
                   ELSE IF FrameDue(r) THEN "video"
                   ELSE IF TickDue(r) THEN "tick" ELSE "physics")
  /\ UNCHANGED <<statuses, phase, cancelled, shutting, session, late>>

\* pending_video.pop(telemetry_sequence)
Joined(r) == {i \in r.pending : AssignedTick(i) = Len(r.records)}

AtLimit(r) == r.step >= MaxSteps

\* One telemetry record; it says whether the episode is completed.
RecordTick(e) ==
  /\ worker[e] = "tick"
  /\ LET reason == IF run[e].reason = NoReason /\ AtLimit(run[e])
                   THEN "time_limit" ELSE run[e].reason
         joined == Joined(run[e])
         completed == reason # NoReason
     IN /\ run' = [run EXCEPT ![e] =
                    [run[e] EXCEPT !.reason = reason, !.pending = @ \ joined,
                                   !.records = Append(@, [completed |-> completed,
                                                          frames |-> joined])]]
        /\ late' = [late EXCEPT ![e] = IF cancelled[e] /\ ~completed THEN @ + 1 ELSE @]
  /\ Goto(e, "report")
  /\ UNCHANGED <<statuses, phase, cancelled, shutting, session, video>>

\* on_progress, then the loop goes on or ends.
Report(e) ==
  /\ worker[e] = "report"
  /\ phase' = [phase EXCEPT ![e] = IF cancelled[e] THEN "cancelling" ELSE "running"]
  /\ Goto(e, IF run[e].reason = NoReason THEN "physics" ELSE "close")
  /\ UNCHANGED <<statuses, cancelled, shutting, run, session, video, late>>

\* simulation.step and what it ends: the robot settled, or time is up.
Physics(e) ==
  /\ worker[e] = "physics"
  /\ \E settled \in BOOLEAN :
       run' = [run EXCEPT ![e] =
                [run[e] EXCEPT !.step = @ + 1,
                               !.reason = IF @ # NoReason THEN @
                                          ELSE IF settled THEN "settled_at_destination"
                                          ELSE IF run[e].step + 1 >= MaxSteps THEN "time_limit"
                                          ELSE NoReason]]
  /\ Goto(e, "check")
  /\ UNCHANGED <<statuses, phase, cancelled, shutting, session, video, late>>

Close(e) ==
  /\ worker[e] = "close"
  /\ session' = [session EXCEPT ![e] = "closed"]
  /\ Goto(e, "finish")
  /\ UNCHANGED <<statuses, phase, cancelled, shutting, run, video, late>>

\* The video is closed and the run is over.
FinishVideo(e) ==
  /\ worker[e] \in {"finish", "release"}
  /\ video' = VideoFinished(video, e)
  /\ run' = [run EXCEPT ![e] = NewRun]
  /\ late' = [late EXCEPT ![e] = 0]
  /\ Goto(e, IF worker[e] = "finish" THEN "completed" ELSE "failed")
  /\ UNCHANGED <<statuses, phase, cancelled, shutting, session>>

\* The last _update of _run_worker prunes the table.
Update(e) ==
  /\ worker[e] \in {"completed", "failed"}
  /\ Prune(statuses,
           [phase EXCEPT ![e] = IF worker[e] = "completed" THEN "closed" ELSE "failed"],
           video)
  /\ Goto(e, "returning")
  /\ UNCHANGED <<cancelled, shutting, run, session, late>>

Return(e) ==
  /\ worker[e] = "returning"
  /\ Goto(e, "done")
  /\ UNCHANGED <<statuses, phase, cancelled, shutting, run, session, video, late>>

\* Simulation, video and service calls may raise; a close may raise with the
\* closure recorded.
RunRaises(e) ==
  /\ worker[e] \in {"opening", "first", "video", "tick", "physics", "close"}
  /\ \/ UNCHANGED session
     \/ worker[e] = "close" /\ session' = [session EXCEPT ![e] = "closed"]
  /\ run' = [run EXCEPT ![e] = NewRun]
  /\ late' = [late EXCEPT ![e] = 0]
  /\ Goto(e, "abort")
  /\ UNCHANGED <<statuses, phase, cancelled, shutting, video>>

\* Mutant: an abort that raises ends the thread.
AbortRaises(e) ==
  /\ worker[e] = "abort"
  /\ session[e] = "open"
  /\ session' = [session EXCEPT ![e] = "aborted"]
  /\ Goto(e, "release")
  /\ UNCHANGED <<statuses, phase, cancelled, shutting, run, video, late>>

\* abort_episode; when it raises an open session is stranded until a restart.
Abort(e) ==
  /\ worker[e] = "abort"
  /\ IF session[e] = "open"
     THEN session' \in {[session EXCEPT ![e] = s] : s \in {"aborted", "stranded"}}
     ELSE UNCHANGED session
  /\ Goto(e, "release")
  /\ UNCHANGED <<statuses, phase, cancelled, shutting, run, video, late>>

\* What a worker thread does by itself.
Works(e) ==
  \/ RunRaises(e) \/ Abort(e) \/ WorkerStarts(e) \/ Open(e) \/ CheckCancel(e)
  \/ RecordTick(e) \/ Report(e) \/ Physics(e) \/ Close(e) \/ FinishVideo(e)
  \/ Update(e) \/ Return(e) \/ Capture(e)

Next ==
  \/ \E e \in Episodes : Works(e) \/ StartEpisode(e) \/ Wait(e) \/ Cancel(e)
  \/ StartRefused \/ Shutdown

\* Threads run on; clients are not obliged to do anything.
Spec == Init /\ [][Next]_vars /\ \A e \in Episodes : WF_vars(Works(e))

-----------------------------------------------------------------------------
\* Every variable has its type; the table lists the episodes with a phase.
TypeOK ==
  /\ statuses \in Seq(Episodes)
  /\ phase \in [Episodes -> Phases \cup {"absent"}]
  /\ Range(statuses) = {e \in Episodes : phase[e] # "absent"}
  /\ cancelled \in [Episodes -> BOOLEAN]
  /\ shutting \in BOOLEAN
  /\ worker \in [Episodes -> Steps \cup {"none", "queued", "done"}]
  /\ run \in [Episodes -> Runs]
  /\ session \in [Episodes -> {"none", "open", "closed", "aborted", "stranded"}]
  /\ DOMAIN video.buffers \subseteq Episodes
  /\ late \in [Episodes -> 0 .. Cardinality(Ticks)]

\* The status a client reads is true however cancellations, failures and pruning
\* interleave: an episode that is listed as closed was measured, one whose worker
\* returned is listed as ended, an ended one has left no session open behind it,
\* and its video is closed, so that streams end and pruning never raises.
StatusTruthful ==
  \A e \in Episodes :
    /\ phase[e] = "closed" => session[e] = "closed"
    /\ worker[e] = "done" => phase[e] \in Ended \cup {"absent"}
    /\ phase[e] \in Ended => session[e] # "open"
    /\ phase[e] \in Ended => video.buffers[e].closed

\* The telemetry of a run is whole: each tick is joined to all the frames scheduled
\* since the tick before it, and no frame to two ticks, although frames and ticks
\* are due at unrelated times; and it says completed exactly once, in the last
\* record before the episode is closed, when no frame is left to join.
TelemetryWhole ==
  \A e \in Episodes :
    LET records == run[e].records IN
    /\ \A n \in DOMAIN records : records[n].frames =
         {i \in Frames : /\ i * TelemetryHz <= (n - 1) * VideoHz
                         /\ i * TelemetryHz > (n - 2) * VideoHz}
    /\ \A n \in 1 .. Len(records) - 1 : ~records[n].completed
    /\ worker[e] \in {"close", "finish"} =>
         records # <<>> /\ Last(records).completed /\ run[e].pending = {}

\* A cancelled run is completed on the next tick: at most the tick that was
\* under way when the cancellation came is recorded without it.
CancelTakesEffect == \A e \in Episodes : late[e] <= 1

\* The byte count is the bytes held, within every limit; a buffer holds the
\* latest frames of its episode; and the order knows every frame, so that room
\* can always be made.
VideoAccounted ==
  /\ video.total = Held(video, DOMAIN video.buffers)
  /\ video.total <= MaxTotalBytes
  /\ \A e \in DOMAIN video.buffers : LET b == video.buffers[e] IN
       /\ Len(b.frames) <= MaxFrameSets /\ Bytes(b.frames) <= MaxBytes
       /\ b.appended = b.dropped + Len(b.frames)
       /\ \A n \in DOMAIN b.frames : b.frames[n] = b.dropped + n - 1
       /\ \A n \in DOMAIN b.frames : <<e, b.frames[n]>> \in Range(video.order)

\* Every run that was started returns, so that a shutdown, which joins them, ends.
EveryRunEnds == \A e \in Episodes : worker[e] = "queued" ~> worker[e] = "done"

\* What clients are shown of a live episode is so: its status, the completed record
\* that ends its telemetry, and the video held for it (live/manager.py:185).
LiveTruthful == TypeOK /\ StatusTruthful /\ TelemetryWhole /\ VideoAccounted
=============================================================================
