--------------------------- MODULE MessageServer ---------------------------
(***************************************************************************)
(* What a component promises to the callers of SendSyncMessage, whatever   *)
(* becomes of its multiplexer: a bounded buffer and a server that works on *)
(* one message at a time, in the order they were sent, and answers each at *)
(* most once.  A message may be lost, but only after the server took it or *)
(* its buffer was closed, and never comes back.                            *)
(*                                                                         *)
(* Lifecycle implements this specification.                                *)
(***************************************************************************)
EXTENDS Naturals, Sequences

CONSTANTS
    Clients,   \* each calls the server once
    Capacity   \* of the buffer

VARIABLES
    phase,   \* of the buffer: "nil", "open" or "closed"
    box,     \* the buffer
    busy,    \* the messages being worked on
    client   \* where every client's call is

vars == <<phase, box, busy, client>>

Init ==
    /\ phase = "nil"
    /\ box = <<>>
    /\ busy = {}
    /\ client = [c \in Clients |-> "idle"]

Open == phase = "nil" /\ phase' = "open" /\ UNCHANGED <<box, busy, client>>

Close == phase = "open" /\ phase' = "closed" /\ UNCHANGED <<box, busy, client>>

Becomes(c, from, to) == client[c] = from /\ client' = [client EXCEPT ![c] = to]

\* A call begins, or is refused.
Call(c) ==
    /\ Becomes(c, "idle", "calling") \/ Becomes(c, "idle", "refused")
    /\ UNCHANGED <<phase, box, busy>>

Put(c) ==
    /\ phase = "open"
    /\ Len(box) < Capacity
    /\ Becomes(c, "calling", "waiting")
    /\ box' = Append(box, c)
    /\ UNCHANGED <<phase, busy>>

\* The client gives up, or finds the buffer closed.
GiveUp(c) ==
    /\ Becomes(c, "waiting", "timedout") \/ (phase = "closed" /\ Becomes(c, "calling", "panicked"))
    /\ UNCHANGED <<phase, box, busy>>

Take ==
    /\ busy = {}
    /\ box # <<>>
    /\ busy' = {Head(box)}
    /\ box' = Tail(box)
    /\ UNCHANGED <<phase, client>>

Answer(c) ==
    /\ busy = {c}
    /\ Becomes(c, "waiting", "ok") \/ Becomes(c, "waiting", "failed")
    /\ busy' = {}
    /\ UNCHANGED <<phase, box>>

\* The work on a message ends without an answer.
Lose == busy # {} /\ busy' = {} /\ UNCHANGED <<phase, box, client>>

Next ==
    \/ Open \/ Close \/ Take \/ Lose
    \/ \E c \in Clients : Call(c) \/ Put(c) \/ GiveUp(c) \/ Answer(c)

Spec == Init /\ [][Next]_vars
=============================================================================
