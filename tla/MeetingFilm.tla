----------------------------- MODULE MeetingFilm -----------------------------
(***************************************************************************)
(* The player of the meeting film: the script of the page that             *)
(* render_meeting_presentation_html writes.  Frames, clicks, keys and the  *)
(* browser's speech arrive in any order.                                   *)
(*                                                                         *)
(* The unit of time is the distance the script keeps from the end of the   *)
(* film.  Scenes are numbered from 1, and no scene is 0.  MaxInputs bounds  *)
(* what the presenter does.                                                *)
(***************************************************************************)
EXTENDS Integers, Sequences

CONSTANTS
  Lasting,    \* durations, by scene
  Starts,     \* starts, by scene: the sums of the durations before it
  Total,
  Deltas,     \* the time between two frames; long when the tab was hidden
  MaxInputs

FilmAssumption ==
  /\ Len(Lasting) \in Nat \ {0} /\ Lasting \in Seq(Nat \ {0})
  /\ Starts \in [1..Len(Lasting) -> Nat] /\ Starts[1] = 0
  /\ \A i \in 1..Len(Lasting) - 1 : Starts[i + 1] = Starts[i] + Lasting[i]
  /\ Total = Starts[Len(Lasting)] + Lasting[Len(Lasting)]
  /\ Deltas \subseteq Nat \ {0} /\ MaxInputs \in Nat

VARIABLES
  current, playing, muted,
  active,     \* the scene that is shown
  speaking,   \* the scene whose narration the browser reads aloud
  inputs      \* what the presenter has done so far

filmVars == <<current, playing, muted, active, speaking, inputs>>
-----------------------------------------------------------------------------
Scenes == 1..Len(Lasting)

\* Mutant of Clamp: nothing keeps the clock from the end.
ClampAtStart(t) == IF t < 0 THEN 0 ELSE t

Clamp(t) == IF t < 0 THEN 0 ELSE IF t >= Total THEN Total - 1 ELSE t

\* indexAt: the last scene that has started.
IndexAt(t) ==
  CHOOSE i \in Scenes : Starts[i] <= t /\ \A j \in Scenes : Starts[j] <= t => j <= i

\* The script's last line: show(0, false).
FilmInit ==
  /\ current = 0 /\ playing = FALSE /\ muted = FALSE
  /\ active = 1 /\ speaking = 0 /\ inputs = 0

Presses == inputs < MaxInputs /\ inputs' = inputs + 1

\* speak(i), called while playing is p and muted is m: a new narration cancels
\* the one before it.
Speech(i, p, m) == IF p /\ ~m THEN i ELSE speaking

\* Mutant of Start: the first scene is not shown again.
StartWhereItIs ==
  /\ Presses
  /\ current' = 0 /\ playing' = TRUE
  /\ speaking' = Speech(active, TRUE, muted)
  /\ UNCHANGED <<muted, active>>

\* The start button, which stays in the page: show(0, false); setPlaying(true).
StartFilm ==
  /\ Presses
  /\ current' = 0 /\ active' = 1 /\ playing' = TRUE
  /\ speaking' = Speech(1, TRUE, muted)
  /\ UNCHANGED muted

\* setPlaying(!playing), by the button or the space bar.
TogglePlay ==
  /\ Presses
  /\ playing' = ~playing
  /\ speaking' = IF playing THEN 0 ELSE Speech(active, TRUE, muted)
  /\ UNCHANGED <<current, muted, active>>

\* Mutant of Seek: the narration of the scene that was left goes on.
SeekSilently(v) ==
  /\ Presses
  /\ current' = Clamp(v) /\ active' = IndexAt(Clamp(v))
  /\ UNCHANGED <<playing, muted, speaking>>

\* seek(v): show without announcing, update, and speak if playing.
Seek(v) ==
  /\ Presses
  /\ current' = Clamp(v) /\ active' = IndexAt(Clamp(v))
  /\ speaking' = Speech(active', playing, muted)
  /\ UNCHANGED <<playing, muted>>

Progress == \E v \in 0..Total : Seek(v)
Previous == Seek(Starts[IF IndexAt(current) = 1 THEN 1 ELSE IndexAt(current) - 1])
Onward   == Seek(Starts[IF IndexAt(current) = Len(Lasting) THEN Len(Lasting) ELSE IndexAt(current) + 1])
Arrow    == Seek(current - 5) \/ Seek(current + 5)

Mute ==
  /\ Presses
  /\ muted' = ~muted
  /\ speaking' = IF muted' THEN 0 ELSE Speech(active, playing, FALSE)
  /\ UNCHANGED <<current, playing, active>>

\* Mutant of Frame: the end is held, but the film is not stopped there.
FrameOnAndOn(delta) ==
  /\ playing
  /\ current' = Clamp(current + delta) /\ active' = IndexAt(current')
  /\ speaking' = IF active' # active THEN Speech(active', TRUE, muted) ELSE speaking
  /\ UNCHANGED <<playing, muted, inputs>>

\* frame: while playing, the clock advances by delta; at the end the film stops
\* (which silences the narration) before update shows the scene.
Frame(delta) ==
  /\ playing
  /\ current' = Clamp(current + delta) /\ active' = IndexAt(current')
  /\ IF current + delta >= Total
     THEN playing' = FALSE /\ speaking' = 0
     ELSE /\ speaking' = IF active' # active THEN Speech(active', TRUE, muted) ELSE speaking
          /\ UNCHANGED playing
  /\ UNCHANGED <<muted, inputs>>

\* The browser has read the narration to its end, or cannot read it.
NarrationEnds ==
  /\ speaking # 0 /\ speaking' = 0
  /\ UNCHANGED <<current, playing, muted, active, inputs>>

AnyFrame == \E delta \in Deltas : Frame(delta)

FilmNext ==
  \/ StartFilm \/ TogglePlay \/ Progress \/ Previous \/ Onward \/ Arrow \/ Mute
  \/ AnyFrame \/ NarrationEnds

\* The browser keeps drawing frames.
FilmFairness == WF_filmVars(AnyFrame)
FilmSpec == FilmInit /\ [][FilmNext]_filmVars /\ FilmFairness
-----------------------------------------------------------------------------
FilmTypeOK ==
  /\ current \in 0..Total - 1 /\ playing \in BOOLEAN /\ muted \in BOOLEAN
  /\ active \in Scenes /\ speaking \in Scenes \cup {0} /\ inputs \in 0..MaxInputs

ShownMatchesClock == active = IndexAt(current)
NarrationInSync   == speaking # 0 => playing /\ ~muted /\ speaking = active

\* After any mixture of frames, clicks and keys, the scene on the screen is the
\* one the clock stands in (show, update and indexAt keep two states in step),
\* what is read aloud is the narration of that scene, and nothing is read while
\* the film is paused or muted, whichever of the places that speak or cancel
\* came last.
FilmInSync == ShownMatchesClock /\ NarrationInSync

\* However the presenter jumps about, the film comes to rest once he leaves it
\* alone: it stops at its end by itself (frame), or was paused.
FilmEnds == <>[](~playing)
=============================================================================
