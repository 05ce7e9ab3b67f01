----------------------------- MODULE Recording -----------------------------
(***************************************************************************)
(* The recording of one VM: RecordingController, with the calls that       *)
(* AdminVirtualMachine makes on the VM's strand when the VM is started or  *)
(* stopped and when settings change.                                       *)
(*                                                                         *)
(* A recording is a sequence of files.  stop_timer_ ends a file and begins *)
(* the next one, keyframe_timer_ adds keyframes to the file.  An expired   *)
(* wait becomes a handler in `ready`, which cancel() no longer reaches.    *)
(* The handler of an aborted stop wait calls Stop(), so it is kept too;    *)
(* that of an aborted keyframe wait returns at once and is left out.       *)
(*                                                                         *)
(* rec is the controller's state.  Its operations are functions from state *)
(* to state, since they call each other within one handler.  What is       *)
(* written to a file is left to RecordingFilter.                           *)
(***************************************************************************)
EXTENDS Integers, Sequences

CONSTANTS
  Durations,     \* values of file_duration_
  Intervals,     \* values of keyframe_interval_
  MaxFiles,      \* bound: files opened
  MaxReady,      \* bound: handlers that are late
  LateHandlers,  \* FALSE: handlers run before time passes or admins act
  Opens          \* outcomes of opening a file, a set of Booleans

\* What the constants are.
RecordingAssumption ==
  /\ Durations \subseteq Nat /\ Intervals \subseteq Nat
  /\ MaxFiles \in Nat /\ MaxReady \in Nat /\ LateHandlers \in BOOLEAN
  /\ Opens \subseteq BOOLEAN

VARIABLES
  rec,                \* see Recorder below
  duration, interval, \* file_duration_, keyframe_interval_
  active, enabled,    \* VmState::active_, the setting RECORDINGS_ENABLED
  excused             \* history: the last recording was cut short or failed

vars == <<rec, duration, interval, active, enabled, excused>>

Files == 1 .. MaxFiles

\* file and bad are file_stream_: the number of the open file or 0, and
\* whether the stream has failed.  next and cap are next_keyframe_offset_ and
\* the number of offsets in the header.  rows are the files' start and stop
\* times in the database.
Recorder == [
  file : 0 .. MaxFiles, bad : BOOLEAN, opened : 0 .. MaxFiles,
  armed : BOOLEAN, left : Nat,        \* stop_timer_ and its time left
  karmed : BOOLEAN, kleft : Nat,      \* keyframe_timer_
  next : Nat, cap : Nat,
  ready : Seq({"stop", "aborted", "keyframe"}),
  rows : [Files -> {"none", "started", "stopped"}]]

Init ==
  /\ rec = [file |-> 0, bad |-> FALSE, opened |-> 0,
            armed |-> FALSE, left |-> 0, karmed |-> FALSE, kleft |-> 0,
            next |-> 0, cap |-> 0, ready |-> <<>>,
            rows |-> [f \in Files |-> "none"]]
  /\ duration \in Durations /\ interval \in Intervals
  /\ active = FALSE /\ enabled \in BOOLEAN
  /\ excused = FALSE

-----------------------------------------------------------------------------
(* RecordingController. *)

IsRecording(r) == r.file # 0 /\ ~r.bad

StartKeyframeTimer(r, i) == [r EXCEPT !.karmed = (i # 0), !.kleft = i]

\* Faulty variant: the database does not learn of the stop.
Stop_NoRow(r) ==
  IF ~IsRecording(r) THEN r
  ELSE [r EXCEPT !.karmed = FALSE, !.armed = FALSE, !.file = 0,
                 !.ready = IF r.armed THEN Append(@, "aborted") ELSE @]

\* Stop() does nothing for a stream that has failed: its file stays open.
Stop(r) ==
  IF ~IsRecording(r) THEN r
  ELSE [r EXCEPT !.karmed = FALSE, !.armed = FALSE, !.file = 0,
                 !.ready = IF r.armed THEN Append(@, "aborted") ELSE @,
                 !.rows[r.file] = "stopped"]

\* Faulty variant: the file has no stop timer.
OpenFile_NoTimer(r) ==
  [r EXCEPT !.file = r.opened + 1, !.opened = @ + 1, !.bad = FALSE,
            !.next = 0, !.cap = IF interval' = 0 THEN 0 ELSE duration' \div interval',
            !.rows[r.opened + 1] = "started"]

\* A new file and its header.
OpenFile(r) ==
  [r EXCEPT !.file = r.opened + 1, !.opened = @ + 1, !.bad = FALSE,
            !.armed = TRUE, !.left = duration',
            !.next = 0, !.cap = IF interval' = 0 THEN 0 ELSE duration' \div interval',
            !.rows[r.opened + 1] = "started"]

\* Start() with the settings in force.  It fails when the directory or file
\* cannot be created (opens is FALSE), and when the file of a failed stream is
\* still open.
Start(r, opens) ==
  LET s == Stop(r) IN
  IF duration' = 0 THEN r
  ELSE IF ~opens \/ s.file # 0 THEN s
  ELSE StartKeyframeTimer(OpenFile(s), interval')

\* Whether Start() needs another file; the bound on files.
MayOpen == rec.opened < MaxFiles

-----------------------------------------------------------------------------
(* Calls on the VM's strand. *)

Prompt == LateHandlers \/ rec.ready = <<>>

\* The recording does not go on although it was asked for.
Excused(opens) ==
  excused' = IF IsRecording(rec') THEN FALSE ELSE excused \/ ~opens

StartVm(opens) ==
  /\ Prompt /\ ~active /\ MayOpen
  /\ active' = TRUE
  /\ UNCHANGED <<duration, interval, enabled>>
  /\ rec' = IF enabled THEN Start(rec, opens) ELSE rec
  /\ Excused(opens)

\* Stop() stops the recording before it looks at active_.
StopVm ==
  /\ Prompt
  /\ active' = FALSE
  /\ rec' = Stop(rec)
  /\ UNCHANGED <<duration, interval, enabled, excused>>

\* The recording part of VmState::ApplySettings().
SetEnabled(opens) ==
  /\ Prompt /\ MayOpen
  /\ enabled' = ~enabled
  /\ UNCHANGED <<duration, interval, active>>
  /\ rec' = CASE ~active             -> rec
              [] active /\ enabled'  -> Start(rec, opens)
              [] active /\ ~enabled' -> Stop(rec)
  /\ Excused(opens)

\* VmState::SetRecordingSettings() starts a recording where there is none.
VmStarts(r, opens) ==
  IF active /\ enabled /\ ~IsRecording(r) THEN Start(r, opens) ELSE r

\* The controller's own part.  A file that would end no later than one begun
\* now is restarted; `capture` says that what is captured has changed.
SetRecordingSettings(d, i, capture, opens) ==
  /\ Prompt /\ MayOpen
  /\ duration' = d /\ interval' = i
  /\ LET r == IF ~IsRecording(rec) THEN rec
              ELSE IF rec.left <= d THEN Start(rec, opens)
              ELSE IF i # interval \/ capture THEN StartKeyframeTimer(rec, i)
              ELSE rec
     IN rec' = VmStarts(r, opens)
  /\ UNCHANGED <<active, enabled>>
  /\ Excused(opens)

-----------------------------------------------------------------------------
(* Timers and the file system. *)

Tick ==
  /\ Prompt
  /\ \/ rec.armed /\ rec.left > 0
     \/ rec.karmed /\ rec.kleft > 0
  /\ rec.armed => rec.left > 0
  /\ rec.karmed => rec.kleft > 0
  /\ rec' = [rec EXCEPT !.left = IF rec.armed THEN @ - 1 ELSE @,
                        !.kleft = IF rec.karmed THEN @ - 1 ELSE @]
  /\ UNCHANGED <<duration, interval, active, enabled, excused>>

StopTimerExpires ==
  /\ rec.armed /\ rec.left = 0 /\ Len(rec.ready) < MaxReady
  /\ rec' = [rec EXCEPT !.armed = FALSE, !.ready = Append(@, "stop")]
  /\ UNCHANGED <<duration, interval, active, enabled, excused>>

KeyframeTimerExpires ==
  /\ rec.karmed /\ rec.kleft = 0 /\ Len(rec.ready) < MaxReady
  /\ rec' = [rec EXCEPT !.karmed = FALSE, !.ready = Append(@, "keyframe")]
  /\ UNCHANGED <<duration, interval, active, enabled, excused>>

\* A write to the file fails; the stream stays open and fails from now on.
WriteFails ==
  /\ IsRecording(rec)
  /\ rec' = [rec EXCEPT !.bad = TRUE]
  /\ excused' = TRUE
  /\ UNCHANGED <<duration, interval, active, enabled>>

Runs(handler) ==
  /\ rec.ready # <<>>
  /\ Head(rec.ready) = handler
  /\ UNCHANGED <<duration, interval, active, enabled>>

Popped == [rec EXCEPT !.ready = Tail(@)]

\* The stop wait has ended: the next file begins.
RunStop(opens) ==
  /\ Runs("stop") /\ MayOpen
  /\ rec' = Start(Popped, opens)
  /\ Excused(opens)

\* The stop wait was aborted, by the Stop() of an earlier file: this one is
\* stopped.
RunAborted ==
  /\ Runs("aborted")
  /\ rec' = Stop(Popped)
  /\ excused' = (excused \/ IsRecording(rec))

\* A keyframe, or another file when the header has no room for it.
RunKeyframe(opens) ==
  /\ Runs("keyframe") /\ MayOpen
  /\ rec' = IF rec.next = rec.cap THEN Start(Popped, opens)
            ELSE StartKeyframeTimer([Popped EXCEPT !.next = @ + 1], interval)
  /\ IF rec.next = rec.cap THEN Excused(opens) ELSE UNCHANGED excused

-----------------------------------------------------------------------------
RunHandler ==
  \/ \E opens \in Opens : RunStop(opens) \/ RunKeyframe(opens)
  \/ RunAborted

Next ==
  \/ \E opens \in Opens :
       \/ StartVm(opens) \/ SetEnabled(opens)
       \/ \E d \in Durations, i \in Intervals, capture \in BOOLEAN :
            SetRecordingSettings(d, i, capture, opens)
       \/ RunStop(opens) \/ RunKeyframe(opens)
  \/ StopVm \/ RunAborted
  \/ Tick \/ StopTimerExpires \/ KeyframeTimerExpires
  \/ WriteFails

\* Time passes and the strand runs the handlers.
Fairness ==
  /\ WF_vars(RunHandler) /\ WF_vars(Tick)
  /\ WF_vars(StopTimerExpires) /\ WF_vars(KeyframeTimerExpires)

Spec == Init /\ [][Next]_vars /\ Fairness

-----------------------------------------------------------------------------
(* Properties. *)

\* The type of every variable.
TypeOK ==
  /\ rec \in Recorder
  /\ duration \in Durations /\ interval \in Intervals
  /\ active \in BOOLEAN /\ enabled \in BOOLEAN /\ excused \in BOOLEAN

\* next_keyframe_offset_ stays within the header's list of offsets, also when
\* a keyframe handler runs after its file was stopped or replaced.
KeyframesFit == rec.next <= rec.cap

\* Every file but the open one has its stop time in the database, and the open
\* one has none: no path through Start(), Stop() and the handlers leaves a
\* file behind, unless its stream has failed.
FilesAreClosed ==
  \A f \in Files :
    rec.rows[f] = IF f > rec.opened THEN "none"
                  ELSE IF f = rec.file THEN "started" ELSE "stopped"

\* A file that is recorded has a stop timer, or a handler that will stop or
\* replace it.  Only a duration that was set to 0 lets Start() return without
\* either.
FileIsTimed ==
  IsRecording(rec) /\ duration # 0 =>
    rec.armed \/ \E i \in 1 .. Len(rec.ready) : rec.ready[i] \in {"stop", "aborted"}

\* With handlers that run at once and files that can be opened, a VM is
\* recorded only while it is active and its recordings are enabled.
RecordedOnlyWhenActive == IsRecording(rec) => active /\ enabled

\* An active VM whose recordings are enabled is recorded, unless a file failed
\* or the handler of an aborted wait stopped the recording.
ActiveIsRecorded ==
  active /\ enabled /\ duration # 0 => IsRecording(rec) \/ excused

\* Every file ends, unless the duration was set to 0.
FilesEnd ==
  \A f \in Files :
    (IsRecording(rec) /\ rec.file = f)
      ~> (~IsRecording(rec) \/ rec.file # f \/ duration = 0 \/ ~MayOpen)

=============================================================================
