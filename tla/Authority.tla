------------------------------ MODULE Authority -------------------------------
(***************************************************************************)
(* Local authority (remote_content_policy.py and the services built on     *)
(* it).  A sensitive action needs a capability: an opaque object minted    *)
(* from a stored human approval, bound to one exact action and good for    *)
(* one use.  Threads present capabilities to the signers, the activity log *)
(* and the generic action services; a service spends the capability first  *)
(* and may fail afterwards.                                                *)
(*                                                                         *)
(* A binding stands for the action class with the subject, target, payload *)
(* context, revision and configuration version it is hashed with; a        *)
(* capability is its position in the registry.                             *)
(***************************************************************************)
EXTENDS Naturals, Sequences, FiniteSets

CONSTANTS
  Thread,      \* threads of the process
  Binding,     \* exact actions that may be approved
  MaxTime,     \* the clock stops here
  Window,      \* an approval may be used, and a capability lives, this long
  MaxCaps      \* capabilities minted in one behaviour

VARIABLES
  now,       \* the clock
  approved,  \* the approval store: when each binding was approved
  caps,      \* the registry: the capabilities in the order they were minted
  thread,    \* the capability each thread has spent and not yet used
  acts,      \* history: the actions carried out, as [cap, by, at]
  log        \* the activity log: the rows of the JSON file

vars == <<now, approved, caps, thread, acts, log>>

Idle == 0

Init ==
  /\ now = 0
  /\ approved \in [Binding -> 0 .. 1]
  /\ caps = <<>> /\ thread = [t \in Thread |-> Idle]
  /\ acts = {} /\ log = {}

Tick == now < MaxTime /\ now' = now + 1
        /\ UNCHANGED <<approved, caps, thread, acts, log>>

-----------------------------------------------------------------------------
\* The capability store.

Fresh(b) == approved[b] <= now /\ now <= approved[b] + Window

Issue(b) ==
  /\ Fresh(b) /\ Len(caps) < MaxCaps
  /\ caps' = Append(caps, [binding |-> b, issued |-> now,
                           expires |-> now + Window, used |-> FALSE])
  /\ UNCHANGED <<now, approved, thread, acts, log>>

Live(c) == caps[c].issued <= now /\ now <= caps[c].expires
\* Mutant of Spent: the registry keeps the record it has.
SpentNever(c) == caps
Spent(c) == [caps EXCEPT ![c].used = TRUE]

\* Checked and spent under the registry's lock, before the service goes on.
Require(t, c, b) ==
  /\ thread[t] = Idle
  /\ caps[c].binding = b /\ Live(c) /\ ~caps[c].used
  /\ caps' = Spent(c)
  /\ thread' = [thread EXCEPT ![t] = c]
  /\ UNCHANGED <<now, approved, acts, log>>

-----------------------------------------------------------------------------
\* The services.  After the capability is spent the identity may fail to load,
\* the nonce to parse, the canonical text to match: the thread goes away empty.

Fails(t) ==
  /\ thread[t] # Idle
  /\ thread' = [thread EXCEPT ![t] = Idle]
  /\ UNCHANGED <<now, approved, caps, acts, log>>

Done(t) == acts' = acts \cup {[cap |-> thread[t], by |-> t, at |-> now]}
           /\ thread' = [thread EXCEPT ![t] = Idle]

\* A receipt or an identity signature leaves the process.
Sign(t) ==
  /\ thread[t] # Idle /\ Done(t)
  /\ UNCHANGED <<now, approved, caps, log>>

\* A row of the activity log: raw text only for an authorised local record.
AppendLocal(t) ==
  /\ thread[t] # Idle /\ Done(t)
  /\ log' = log \cup {[raw |-> TRUE, binding |-> caps[thread[t]].binding]}
  /\ UNCHANGED <<now, approved, caps>>

AppendRemote(t, b) ==
  /\ thread[t] = Idle
  /\ log' = log \cup {[raw |-> FALSE, binding |-> b]}
  /\ UNCHANGED <<now, approved, caps, thread, acts>>

-----------------------------------------------------------------------------
Use(t) == Sign(t) \/ AppendLocal(t) \/ Fails(t)

Next ==
  \/ Tick
  \/ \E b \in Binding : Issue(b)
  \/ \E t \in Thread, c \in DOMAIN caps, b \in Binding : Require(t, c, b)
  \/ \E t \in Thread : Use(t)
  \/ \E t \in Thread, b \in Binding : AppendRemote(t, b)

Spec == Init /\ [][Next]_vars

-----------------------------------------------------------------------------
(***************************************************************************)
(* "It is one-shot for sensitive actions": whatever the threads do, one    *)
(* capability carries out at most one action, and no two threads hold it.  *)
(***************************************************************************)
OneActionEach ==
  /\ \A a, b \in acts : a.cap = b.cap => a = b
  /\ \A t, u \in Thread : thread[t] = thread[u] /\ thread[t] # Idle => t = u
  /\ \A a \in acts, t \in Thread : thread[t] # a.cap
===============================================================================
