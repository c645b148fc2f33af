----------------------------- MODULE SignedWrite -----------------------------
(***************************************************************************)
(* Signed writes to Technocore, technocore.py, behind the one-shot fence   *)
(* of write_effect.py.                                                     *)
(*                                                                         *)
(* Before a process sends a write it inserts one row into a SQLite table   *)
(* that never loses a row; both the nonce and the text of a row are unique.*)
(* The room is then read back, its last PageLimit messages, and the write  *)
(* is confirmed only by exactly one matching record with the right         *)
(* signature.  A note of the DID (compare and swap) goes through the same  *)
(* fence with the old value for the nonce and the new one for the text,    *)
(* and its effect always stays unknown.  The server may accept a write     *)
(* late, after its answer was given up, or never.                          *)
(*                                                                         *)
(* The capability checks and the signing before the fence change nothing.  *)
(* A message of the room is a write or Other; altered: its signature is    *)
(* not ours.                                                               *)
(***************************************************************************)
EXTENDS Naturals, Sequences, FiniteSets

CONSTANTS Process,
          Nonce,     \* nonces of posts
          Text,      \* texts of posts
          Value,     \* values of the note
          Other,     \* any other message of the room
          PageLimit, \* messages the read-back page shows (200)
          MaxRoom    \* bound: messages in the room

Posts == {[kind |-> "post", nonce |-> n, text |-> t] : n \in Nonce, t \in Text}
Swaps == {[kind |-> "cas", nonce |-> v, text |-> w] : v \in Value, w \in Value}
Writes == Posts \cup Swaps

VARIABLES rows,    \* the attempts table
          linked,  \* its file has a durable directory entry
          proc,    \* the processes
          sent,    \* requests sent per write
          flying,  \* writes the server has but has not applied
          room     \* the room: records [write, altered]

vars == <<rows, linked, proc, sent, flying, room>>

Off == [pc |-> "off", write |-> Other, stage |-> "NOT_STARTED"]

Init ==
    /\ rows = {} /\ linked = FALSE
    /\ proc = [p \in Process |-> Off]
    /\ sent = [w \in Writes |-> 0]
    /\ flying = {} /\ room = <<>>

Ends(p, stage) == proc' = [proc EXCEPT ![p].pc = "off", ![p].stage = stage]

Goes(p, pc, stage) == proc' = [proc EXCEPT ![p].pc = pc, ![p].stage = stage]

Begin(p) ==
    /\ proc[p].pc = "off"
    /\ \E w \in Writes : proc' = [proc EXCEPT ![p] =
           [pc |-> "reserve", write |-> w, stage |-> "NOT_STARTED"]]
    /\ UNCHANGED <<rows, linked, sent, flying, room>>

-----------------------------------------------------------------------------
(* The fence.                                                              *)

\* Mutant of Taken: only the nonce is looked at.
TakenByNonce(w) == \E r \in rows : r.kind = w.kind /\ r.nonce = w.nonce

\* The primary key, or the unique column.
Taken(w) == \E r \in rows : r.kind = w.kind /\ (r.nonce = w.nonce \/ r.text = w.text)

Reserve(p) ==
    LET w == proc[p].write IN
    /\ proc[p].pc = "reserve"
    /\ \/ ~Taken(w) /\ rows' = rows \cup {w} /\ Goes(p, "sync", "NOT_STARTED")
       \/ Taken(w) /\ Ends(p, "DUPLICATE_SUPPRESSED") /\ UNCHANGED rows
       \/ Ends(p, "FAILED") /\ UNCHANGED rows    \* the database or a path failed
    /\ UNCHANGED <<linked, sent, flying, room>>

\* Mutant of SyncDirectory: the directory is not synced.
SyncDirectorySkipped(p) ==
    /\ proc[p].pc = "sync"
    /\ Goes(p, "send", "ATTEMPT_RECORDED")
    /\ UNCHANGED <<rows, linked, sent, flying, room>>

SyncDirectory(p) ==
    /\ proc[p].pc = "sync"
    /\ linked' = TRUE /\ Goes(p, "send", "ATTEMPT_RECORDED")
    /\ UNCHANGED <<rows, sent, flying, room>>

\* The row stays: nothing was sent, and nothing ever will be.
SyncDirectoryFails(p) ==
    /\ proc[p].pc = "sync"
    /\ Ends(p, "FAILED")
    /\ UNCHANGED <<rows, linked, sent, flying, room>>

-----------------------------------------------------------------------------
(* The request and its read-back.                                          *)
Lost(p) == \E s \in {"EFFECT_UNKNOWN", "REDIRECT_REJECTED"} : Ends(p, s)

\* The server takes the write or refuses it; either way the answer may be lost.
Send(p) ==
    LET w == proc[p].write IN
    /\ proc[p].pc = "send"
    /\ sent' = [sent EXCEPT ![w] = @ + 1]
    /\ \/ flying' = flying \cup {w} /\ (Goes(p, "read", "WRITE_ACCEPTED") \/ Lost(p))
       \/ UNCHANGED flying /\ Lost(p)
    /\ UNCHANGED <<rows, linked, room>>

Page == SubSeq(room, IF Len(room) > PageLimit THEN Len(room) - PageLimit + 1 ELSE 1,
               Len(room))

\* The records of the page that are this write.
Matches(w) == {Page[k] : k \in {j \in 1..Len(Page) : Page[j].write = w}}

MatchCount(w) == Cardinality({j \in 1..Len(Page) : Page[j].write = w})

\* Mutant of ReadBackPost: the record that was found is not verified.
ReadBackPostUnverified(p) ==
    LET w == proc[p].write IN
    /\ proc[p].pc = "read" /\ w.kind = "post"
    /\ \/ Lost(p) \/ Ends(p, "READBACK_MISMATCH")
       \/ Ends(p, IF MatchCount(w) # 1 THEN "READBACK_MISMATCH" ELSE "EVIDENCE_CONFIRMED")
    /\ UNCHANGED <<rows, linked, sent, flying, room>>

ReadBackPost(p) ==
    LET w == proc[p].write IN
    /\ proc[p].pc = "read" /\ w.kind = "post"
    /\ \/ Lost(p) \/ Ends(p, "READBACK_MISMATCH")      \* not a list of messages
       \/ IF MatchCount(w) # 1 THEN Ends(p, "READBACK_MISMATCH")
          ELSE IF \E r \in Matches(w) : r.altered THEN Ends(p, "SIGNATURE_INVALID")
          ELSE Ends(p, "EVIDENCE_CONFIRMED")
    /\ UNCHANGED <<rows, linked, sent, flying, room>>

\* A note is unsigned and mutable: reading it proves nothing.
ReadBackNote(p) ==
    /\ proc[p].pc = "read" /\ proc[p].write.kind = "cas"
    /\ Lost(p)
    /\ UNCHANGED <<rows, linked, sent, flying, room>>

-----------------------------------------------------------------------------
(* The server and the faults.                                              *)
Apply ==
    /\ \E w \in flying :
          \/ w.kind = "post" /\ Len(room) < MaxRoom
                /\ \E a \in BOOLEAN : room' = Append(room, [write |-> w, altered |-> a])
                /\ flying' \in {flying, flying \ {w}}
          \/ flying' = flying \ {w} /\ UNCHANGED room
    /\ UNCHANGED <<rows, linked, proc, sent>>

OthersPost ==
    /\ Len(room) < MaxRoom
    /\ room' = Append(room, [write |-> Other, altered |-> FALSE])
    /\ UNCHANGED <<rows, linked, proc, sent, flying>>

Crash(p) ==
    /\ proc[p].pc # "off"
    /\ proc' = [proc EXCEPT ![p] = Off]
    /\ UNCHANGED <<rows, linked, sent, flying, room>>

\* A commit is durable (synchronous=FULL), the name of a new file is not.
PowerLoss ==
    /\ proc' = [p \in Process |-> Off]
    /\ rows' \in IF linked THEN {rows} ELSE {rows, {}}
    /\ UNCHANGED <<linked, sent, flying, room>>

Post(p) ==
    \/ Begin(p) \/ Reserve(p) \/ SyncDirectory(p) \/ SyncDirectoryFails(p)
    \/ Send(p) \/ ReadBackPost(p) \/ ReadBackNote(p) \/ Crash(p)

Next == (\E p \in Process : Post(p)) \/ Apply \/ OthersPost \/ PowerLoss

Spec == Init /\ [][Next]_vars

-----------------------------------------------------------------------------
(* Properties.                                                             *)

\* Over all processes, crashes, lost answers and power losses a nonce is sent
\* with one text, a text with one nonce, and either only once (reserve, post).
SentOnce ==
    \A w \in Writes : sent[w] > 0 =>
        /\ sent[w] = 1
        /\ \A x \in Writes : /\ sent[x] > 0 /\ x.kind = w.kind
                             /\ x.nonce = w.nonce \/ x.text = w.text
                             => x = w

\* What was sent is in the table, and so in the way of every later try, also
\* when the first write ever is followed by a power loss.
SentIsFenced == \A w \in Writes : sent[w] > 0 => w \in rows /\ linked

\* EVIDENCE_CONFIRMED means that the room holds the write with our signature,
\* though the server may be late, store it twice or change it, and others post.
ConfirmedIsReal ==
    \A p \in Process : proc[p].stage = "EVIDENCE_CONFIRMED" =>
        \E k \in 1..Len(room) : room[k] = [write |-> proc[p].write, altered |-> FALSE]
=============================================================================
