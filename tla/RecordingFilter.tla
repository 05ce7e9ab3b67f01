--------------------------- MODULE RecordingFilter ---------------------------
(***************************************************************************)
(* Which of the Guacamole server's instructions RecordingController writes *)
(* to the file: ShouldRecordMessage(), with the streams it ignores, while  *)
(* the settings and the keyframes change.  A stream is opened by an AUDIO  *)
(* or by an image instruction, carries BLOBs and is closed by END.  Each   *)
(* keyframe lets a user join, to whom libguac announces the open audio     *)
(* streams again; images are sent whole and are not announced again.       *)
(***************************************************************************)
EXTENDS Naturals

CONSTANT Streams  \* stream numbers

VARIABLES
  kind,                            \* what each stream carries, or "closed"
  display, audio,                  \* captureDisplay and captureAudio
  ignored,                         \* ignored_streams_
  begun,                           \* streams whose opening is in the file
  last                             \* what was done with the last instruction

vars == <<kind, display, audio, ignored, begun, last>>

None == [what |-> "none", stream |-> 0, recorded |-> FALSE]

Init ==
  /\ kind = [s \in Streams |-> "closed"]
  /\ display \in BOOLEAN /\ audio \in BOOLEAN
  /\ ignored = {} /\ begun = {}
  /\ last = None

Did(what, s, recorded) ==
  last' = [what |-> what, stream |-> s, recorded |-> recorded]

\* AUDIO: an unrecorded stream is remembered.
OpenAudio(s) ==
  /\ kind[s] = "closed"
  /\ kind' = [kind EXCEPT ![s] = "audio"]
  /\ ignored' = IF audio THEN ignored ELSE ignored \cup {s}
  /\ begun' = IF audio THEN begun \cup {s} ELSE begun
  /\ Did("open", s, audio)
  /\ UNCHANGED <<display, audio>>

\* IMG and whatever else opens a stream: the default case.
OpenImage(s) ==
  /\ kind[s] = "closed"
  /\ kind' = [kind EXCEPT ![s] = "image"]
  /\ begun' = IF display THEN begun \cup {s} ELSE begun
  /\ Did("open", s, display)
  /\ UNCHANGED <<display, audio, ignored>>

RecordBlob(s) == s \notin ignored

Blob(s) ==
  /\ kind[s] # "closed"
  /\ Did("blob", s, RecordBlob(s))
  /\ UNCHANGED <<kind, display, audio, ignored, begun>>

\* Faulty variant: the closed stream stays ignored.
EndStream_Keeps(s) ==
  /\ kind[s] # "closed"
  /\ kind' = [kind EXCEPT ![s] = "closed"]
  /\ begun' = begun \ {s}
  /\ Did("end", s, s \notin ignored)
  /\ UNCHANGED <<display, audio, ignored>>

\* END: erase() tells whether the stream was ignored.
EndStream(s) ==
  /\ kind[s] # "closed"
  /\ kind' = [kind EXCEPT ![s] = "closed"]
  /\ ignored' = ignored \ {s}
  /\ begun' = begun \ {s}
  /\ Did("end", s, s \notin ignored)
  /\ UNCHANGED <<display, audio>>

AudioStreams == {s \in Streams : kind[s] = "audio"}

\* StartKeyframeTimer() and OnKeyframeInRecording() with the settings in
\* force, in a file of which begun are the streams it has.
Keyframe(file) ==
  /\ ignored' = IF audio' THEN {} ELSE AudioStreams
  /\ begun' = IF audio' THEN file \cup AudioStreams ELSE file
  /\ last' = None
  /\ UNCHANGED kind

\* The keyframe timer, or a new file, which has nothing yet.
NextKeyframe(file) ==
  /\ UNCHANGED <<display, audio>>
  /\ Keyframe(file)

\* SetRecordingSettings() with other capture settings: a keyframe, in this
\* file or in a new one.
SetCapture(d, a, file) ==
  /\ <<d, a>> # <<display, audio>>
  /\ display' = d /\ audio' = a
  /\ Keyframe(file)

Next ==
  \/ \E s \in Streams :
       OpenAudio(s) \/ OpenImage(s) \/ Blob(s) \/ EndStream(s)
  \/ \E file \in {begun, {}} :
       \/ NextKeyframe(file)
       \/ \E d, a \in BOOLEAN : SetCapture(d, a, file)

Spec == Init /\ [][Next]_vars

-----------------------------------------------------------------------------
(* Properties. *)

\* Sound that is not to be captured stays out of the file, sound that is in the
\* file has its opening there, and an image whose opening is there is whole:
\* across keyframes, new files, stream numbers that ShouldRecordMessage() has
\* ignored before, and changes of the settings in the middle of a stream.
StreamsAreWhole ==
  last.what = "blob" =>
    /\ kind[last.stream] = "audio" =>
         (last.recorded <=> audio) /\ (last.recorded => last.stream \in begun)
    /\ kind[last.stream] = "image" =>
         (last.stream \in begun => last.recorded)

\* An image that was not to be captured leaves no data in the file:
\* ShouldRecordMessage() takes all instructions that it does not name for the
\* display's.
DisplayFollowsSetting ==
  (last.what = "blob" /\ kind[last.stream] = "image" /\ ~display)
    => ~last.recorded

=============================================================================
