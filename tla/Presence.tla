------------------------------- MODULE Presence -------------------------------
(***************************************************************************)
(* The presence adapter (presence.py): one public note on the server holds *)
(* the last room sequence this agent has seen.  Three operations share the *)
(* unlocked state file: observe and preview read the server and save their *)
(* whole copy of the state, execute makes the one conditional write a      *)
(* human approved.  Anybody may write or remove the note, the room may be  *)
(* reset, every process may die, and the answer to a write may be lost.    *)
(*                                                                         *)
(* Time is counted in ticks, Floor of them to the hour.  The approval and  *)
(* the capability of a write are the subject of module Authority; here     *)
(* any preview issued so far may be executed.  The audit log is write-only *)
(* and left out.  The production writer is disabled, so this is the        *)
(* service of _build_presence_service with an injected writer and an       *)
(* operator who has switched it on.                                        *)
(***************************************************************************)
EXTENDS Naturals, Sequences, FiniteSets

CONSTANTS
  None,         \* no note, or a field of the state file that is null
  MaxSeq,       \* the room sequence stays in 0..MaxSeq
  MaxTime,      \* the clock stops at MaxTime
  Floor,        \* MINIMUM_LIVE_WRITE_SECONDS in ticks
  Minimum,      \* minimum_update_seconds of the configuration, in ticks
  Overlap,      \* may an observation run while another operation does?
  MaxPreviews,  \* previews issued in one behaviour
  MaxSends      \* write attempts in one behaviour

VARIABLES
  now,        \* the wall clock
  room,       \* last_seq of the room, on the server
  note,       \* the presence note, on the server
  file,       \* the state file
  previews,   \* the previews handed to the operator
  watch,      \* the running observation or preview
  exec,       \* the running execute
  sends,      \* history: the attempt stamp of every write sent
  confirmed   \* history: the sequences a read-back has confirmed

vars == <<now, room, note, file, previews, watch, exec, sends, confirmed>>
server == <<room, note>>

Seqs == 0 .. MaxSeq
Statuses == {"LIVE", "UNKNOWN", "NEVER_OBSERVED", "DISABLED", "SPEC_CHANGED",
             "CONFLICT", "READBACK_MISMATCH", "REAPPROVAL_REQUIRED"}
Stopped == {"CONFLICT", "READBACK_MISMATCH", "REAPPROVAL_REQUIRED", "SPEC_CHANGED"}

Blank == [status |-> "NEVER_OBSERVED", seen |-> None, published |-> None,
          wroteAt |-> None, triedAt |-> None, known |-> FALSE]
Idle == [at |-> "idle"]

Init ==
  /\ now = 0 /\ room = 0 /\ note = None /\ file = Blank
  /\ previews = {} /\ watch = Idle /\ exec = Idle
  /\ sends = <<>> /\ confirmed = {}

NoteState(v, published) ==
  CASE v = None -> "ABSENT"
    [] v # None /\ v = published -> "EXPECTED"
    [] OTHER -> "UNEXPECTED"

\* A new operation may start only next to those it is allowed to overlap.
Alone == Overlap \/ (watch = Idle /\ exec = Idle)

-----------------------------------------------------------------------------
\* The world.

Tick == now < MaxTime /\ now' = now + 1
        /\ UNCHANGED <<room, note, file, previews, watch, exec, sends, confirmed>>

RoomMoves(s) == room' = s /\ s # room /\ s \in {0, room + 1} \cap Seqs
                /\ UNCHANGED <<now, note, file, previews, watch, exec, sends, confirmed>>

OthersWrite(v) == note' = v /\ v # note
                  /\ UNCHANGED <<now, room, file, previews, watch, exec, sends, confirmed>>

World == \/ Tick
         \/ \E s \in Seqs : RoomMoves(s)
         \/ \E v \in Seqs \cup {None} : OthersWrite(v)

-----------------------------------------------------------------------------
\* observe: load the state, read the rooms, save the state.

StartObserve ==
  /\ watch = Idle /\ Alone
  /\ watch' = [at |-> "observe", mine |-> file, time |-> now]
  /\ UNCHANGED <<now, server, file, previews, exec, sends, confirmed>>

Behind(f) == \/ f.seen # None /\ room < f.seen
             \/ f.published # None /\ room < f.published
Movement(f) == IF f.seen # None /\ room > f.seen THEN "LIVE" ELSE "UNKNOWN"
Observation(f) ==
  [f EXCEPT !.seen = room,
            !.status = IF f.seen # None /\ Behind(f) THEN "CONFLICT" ELSE Movement(f)]

FinishObserve ==
  /\ watch.at = "observe"
  /\ file' = Observation(watch.mine)
  /\ watch' = Idle
  /\ UNCHANGED <<now, server, previews, exec, sends, confirmed>>

-----------------------------------------------------------------------------
\* preview: manifest and contract, then the rooms, then the note.

StartPreview ==
  /\ watch = Idle /\ Alone
  /\ watch' = [at |-> "manifest", mine |-> file, time |-> now]
  /\ UNCHANGED <<now, server, file, previews, exec, sends, confirmed>>

ReadManifest ==
  /\ watch.at = "manifest"
  /\ \/ watch' = [watch EXCEPT !.at = "rooms"] /\ UNCHANGED file
     \/ file' = [watch.mine EXCEPT !.status = "SPEC_CHANGED"] /\ watch' = Idle
  /\ UNCHANGED <<now, server, previews, exec, sends, confirmed>>

PreviewRooms ==
  /\ watch.at = "rooms"
  /\ LET f == watch.mine
         regressed == f.seen # None /\ room < f.seen
         g == [f EXCEPT !.seen = room,
                        !.status = IF regressed THEN "CONFLICT" ELSE Movement(f)]
     IN \/ regressed /\ file' = g /\ watch' = Idle
        \/ ~regressed /\ watch' = [watch EXCEPT !.at = "note", !.mine = g]
           /\ UNCHANGED file
  /\ UNCHANGED <<now, server, previews, exec, sends, confirmed>>

\* Mutant of Advanced: any observation may be published.
AdvancedOrNot(f) == TRUE
\* The sequence has moved past the one this agent published last.
Advanced(f) == f.published # None => f.seen > f.published
RateLimited(f, t) == f.wroteAt # None /\ t < f.wroteAt + Minimum

Verdict(f, t) ==
  LET kind == NoteState(note, f.published)
  IN CASE note = None /\ f.known -> "REAPPROVAL_REQUIRED"
       [] ~(note = None /\ f.known) /\ kind = "UNEXPECTED" -> "CONFLICT"
       [] OTHER -> IF ~Advanced(f) THEN "UNKNOWN"
                   ELSE IF RateLimited(f, t) THEN f.status ELSE "READY"

Request(f) == [seq |-> f.seen, expects |-> NoteState(note, f.published),
               if |-> IF note = None THEN None ELSE f.published]

PreviewNote ==
  /\ watch.at = "note"
  /\ LET f == watch.mine
         verdict == Verdict(f, watch.time)
     IN \/ verdict # "READY"
           /\ file' = [f EXCEPT !.status = verdict] /\ UNCHANGED previews
        \/ verdict = "READY"
           /\ file' = f /\ previews' = previews \cup {Request(f)}
           /\ Cardinality(previews') <= MaxPreviews
  /\ watch' = Idle
  /\ UNCHANGED <<now, server, exec, sends, confirmed>>

-----------------------------------------------------------------------------
\* execute: gates, the note once more, the recorded attempt, the write, the
\* read-back, and a save that happens whatever came before it.

TooSoon == file.triedAt # None /\ now < file.triedAt + Floor
Gates(p) == file.status \notin Stopped /\ file.seen = p.seq

Refuse ==
  /\ exec = Idle /\ Alone /\ TooSoon /\ previews # {}
  /\ file' = [file EXCEPT !.status = "DISABLED"]
  /\ UNCHANGED <<now, server, previews, watch, exec, sends, confirmed>>

StartExecute(p) ==
  /\ exec = Idle /\ Alone /\ ~TooSoon /\ Gates(p)
  /\ exec' = [at |-> "note", mine |-> file, time |-> now, request |-> p]
  /\ UNCHANGED <<now, server, file, previews, watch, sends, confirmed>>

Attempt(f, t) == [f EXCEPT !.triedAt = t]

CheckNote ==
  /\ exec.at = "note"
  /\ LET f == exec.mine
         same == NoteState(note, f.published) = exec.request.expects
     IN \/ ~same /\ file' = [f EXCEPT !.status = "CONFLICT"] /\ exec' = Idle
        \/ same /\ file' = Attempt(f, exec.time)
           /\ exec' = [exec EXCEPT !.at = "send", !.mine = Attempt(f, exec.time)]
  /\ UNCHANGED <<now, server, previews, watch, sends, confirmed>>

\* The server's if_absent and compare-and-set.
Accepts(p) == note = p.if

Leaves(status) == [exec EXCEPT !.at = "save", !.mine.status = status]

Send ==
  /\ exec.at = "send" /\ Len(sends) < MaxSends
  /\ sends' = Append(sends, exec.time)
  /\ \/ Accepts(exec.request) /\ note' = exec.request.seq
        /\ exec' \in {[exec EXCEPT !.at = "readback"], [exec EXCEPT !.at = "save"]}
     \/ ~Accepts(exec.request) /\ UNCHANGED note /\ exec' = Leaves("CONFLICT")
     \/ UNCHANGED note /\ exec' \in {Leaves("DISABLED"), [exec EXCEPT !.at = "save"]}
  /\ UNCHANGED <<now, room, file, previews, watch, confirmed>>

ReadBack ==
  /\ exec.at = "readback"
  /\ \/ note = exec.request.seq
        /\ exec' = [exec EXCEPT !.at = "save",
                      !.mine = [@ EXCEPT !.status = "LIVE", !.known = TRUE,
                                  !.published = exec.request.seq, !.wroteAt = exec.time]]
        /\ confirmed' = confirmed \cup {note}
     \/ note # exec.request.seq
        /\ exec' = Leaves("READBACK_MISMATCH") /\ UNCHANGED confirmed
     \/ exec' = [exec EXCEPT !.at = "save"] /\ UNCHANGED confirmed
  /\ UNCHANGED <<now, server, file, previews, watch, sends>>

Save ==
  /\ exec.at = "save"
  /\ file' = exec.mine /\ exec' = Idle
  /\ UNCHANGED <<now, server, previews, watch, sends, confirmed>>

-----------------------------------------------------------------------------
\* A failed read ends an operation as a death does.
WatchEnds == watch # Idle /\ watch' = Idle
             /\ UNCHANGED <<now, server, file, previews, exec, sends, confirmed>>
ExecEnds == exec # Idle /\ exec' = Idle
            /\ UNCHANGED <<now, server, file, previews, watch, sends, confirmed>>

Next == \/ World
        \/ StartObserve \/ FinishObserve
        \/ StartPreview \/ ReadManifest \/ PreviewRooms \/ PreviewNote
        \/ Refuse \/ CheckNote \/ Send \/ ReadBack \/ Save
        \/ \E p \in previews : StartExecute(p)
        \/ WatchEnds \/ ExecEnds

Spec == Init /\ [][Next]_vars

-----------------------------------------------------------------------------
(***************************************************************************)
(* "A hard one-attempt-per-hour floor": the attempt stamps of two writes   *)
(* that reached the server are an hour apart, whatever failed, died or     *)
(* went unanswered in between.  It rests on the stamp saved before the     *)
(* write, and on nobody saving an older copy of the state over it.         *)
(***************************************************************************)
AttemptsAnHourApart ==
  \A i, j \in DOMAIN sends : i < j => sends[j] >= sends[i] + Floor

(***************************************************************************)
(* This agent's write replaces no note, or a value a read-back had         *)
(* confirmed as its own and a smaller one: what somebody else put there in *)
(* between, or an unconfirmed earlier write, is never overwritten.         *)
(***************************************************************************)
ReplacesOwnValue ==
  sends' # sends /\ note' # note /\ note # None
    => note \in confirmed /\ note < note'
===============================================================================
