-------------------------------- MODULE Etag --------------------------------
(***************************************************************************)
(* Optimistic concurrency control on ONE started component                 *)
(* (UpdateComponentEtag, createCopy, GetComponentCopy and ServeHTTP in     *)
(* component.go and container.go, the ComponentMsgType case of startMmux). *)
(*                                                                         *)
(* A client takes a copy of the component, changes it and sends it back;   *)
(* the multiplexer hands it to the component's message handler only if its *)
(* etag is the component's etag.  The etag is a new uuid each time         *)
(* UpdateComponentEtag finds that the hash of the component has changed.   *)
(* Nobody holds a lock while the hash and the etag are computed, set and   *)
(* copied: the multiplexer and every caller of GetComponentCopy do so at   *)
(* the same time.                                                          *)
(*                                                                         *)
(* SendSyncMessage returns when the message was answered or has timed out; *)
(* either way the client still has its copy and may send it again, so the  *)
(* answers are not part of the state.                                      *)
(***************************************************************************)
EXTENDS Naturals, Sequences, FiniteSets

CONSTANTS
    Clients,       \* goroutines that read and update the component
    Mux,           \* the component's multiplexer
    Values,        \* what the exported fields of the component may be
    HandlerFails,  \* may a message handler return an error or panic?
    PersistFails,  \* may persist return an error?
    MaxSends,      \* bound on the messages sent
    MaxReads,      \* bound on the copies taken
    MaxChanges,    \* bound on the changes the component makes to its own fields
    MaxRestarts    \* bound on the component's restarts

Procs == Clients \union {Mux}

ASSUME EtagAssumption ==
    /\ Mux \notin Clients
    /\ Values # {}
    /\ {HandlerFails, PersistFails} \subseteq BOOLEAN
    /\ {MaxSends, MaxReads, MaxChanges, MaxRestarts} \subseteq Nat

VARIABLES
    val,      \* the exported fields of the component
    stage,    \* SimpleComponent.Stage, which is hashed with them
    hash,     \* SimpleComponent.hash, as what was hashed
    etag,     \* SimpleComponent.Etag; uuids are numbered as they are drawn
    uuids,    \* the number of uuids drawn
    pc,       \* where each goroutine is
    newHash,  \* the local variable newHash of UpdateComponentEtag
    copy,     \* the copy each client has, or is making
    inbox,    \* the buffer of the component's channel
    msg,      \* the message the multiplexer is working on
    raced,    \* history: two goroutines were in UpdateComponentEtag at once
    drift,    \* history: the fields were changed and UpdateComponentEtag not called
    applied,  \* history: the updates that were applied
    sends, reads, changes, restarts

vars == <<val, stage, hash, etag, uuids, pc, newHash, copy, inbox, msg, raced, drift,
          applied, sends, reads, changes, restarts>>

Stages == {"Initialized", "Restarting", "Started"}
Kinds == {"update", "message", "Persist", "NotifyPeers"}

ChanCap == 1

\* What hashstructure.Hash sees: the exported fields without the etag.
Content == [val |-> val, stage |-> stage]

\* What is sent: for an update, the copy and the value it is to be replaced by.
Messages == [kind : Kinds, etag : Nat, base : Values, new : Values]

\* No hash has been computed; no message is being worked on.
NoHash == [val |-> CHOOSE v \in Values : TRUE, stage |-> "Initialized"]
NoMsg == [kind |-> "message", etag |-> 0, base |-> NoHash.val, new |-> NoHash.val]

\* The callback on the change of state computed hash and etag while the
\* component was Initialized; nothing did since it was Started.
Init ==
    /\ val \in Values
    /\ stage = "Started"
    /\ hash = [val |-> val, stage |-> "Initialized"]
    /\ etag = 1
    /\ uuids = 1
    /\ pc = [g \in Procs |-> "idle"]
    /\ newHash = [g \in Procs |-> NoHash]
    /\ copy = [c \in Clients |-> [etag |-> 0, val |-> val]]
    /\ inbox = <<>>
    /\ msg = NoMsg
    /\ raced = FALSE
    /\ drift = FALSE
    /\ applied = {}
    /\ sends = 0 /\ reads = 0 /\ changes = 0 /\ restarts = 0

Goto(g, at, to) == pc[g] = at /\ pc' = [pc EXCEPT ![g] = to]

field == <<val, stage>>
tag == <<hash, etag, uuids>>
mail == <<inbox, msg>>
bounds == <<sends, reads, changes, restarts>>

----------------------------------------------------------------------------
(* UpdateComponentEtag and createCopy, called by goroutine g *)

\* The goroutines between the computation of the hash and the new etag.
Updating == {g \in Procs : pc[g] \in {"test", "etag"}}

ComputeHash(g) ==
    /\ Goto(g, "hash", "test")
    /\ newHash' = [newHash EXCEPT ![g] = Content]
    /\ raced' = (raced \/ Updating # {})
    /\ UNCHANGED <<field, tag, copy, mail, drift, applied, bounds>>

\* Then the copy is made.  The multiplexer's is componentCache, which it sends to
\* callbacks and subscribers; no update is made from it.
AfterUpdate(g) == IF g = Mux THEN "idle" ELSE "copyetag"

TestHash(g) ==
    /\ Goto(g, "test", IF newHash[g] # hash THEN "etag" ELSE AfterUpdate(g))
    /\ hash' = newHash[g]
    /\ newHash' = [newHash EXCEPT ![g] = NoHash]
    /\ UNCHANGED <<field, etag, uuids, copy, mail, raced, drift, applied, bounds>>

\* Mutant: the etag is derived from the fields, so that it may come back.
SetEtagOfValue(g) ==
    /\ Goto(g, "etag", AfterUpdate(g))
    /\ etag' = IF val = NoHash.val THEN 2 ELSE 3
    /\ drift' = (drift /\ hash.val # val)
    /\ UNCHANGED <<field, hash, uuids, newHash, copy, mail, raced, applied, bounds>>

SetEtag(g) ==
    /\ Goto(g, "etag", AfterUpdate(g))
    /\ etag' = uuids + 1
    /\ uuids' = uuids + 1
    /\ drift' = (drift /\ hash.val # val)
    /\ UNCHANGED <<field, hash, newHash, copy, mail, raced, applied, bounds>>

\* deepcopy walks over the struct: the etag is copied first, ...
CopyEtag(c) ==
    /\ Goto(c, "copyetag", "copyval")
    /\ copy' = [copy EXCEPT ![c].etag = etag]
    /\ UNCHANGED <<field, tag, newHash, mail, raced, drift, applied, bounds>>

\* ... then the fields.
CopyVal(c) ==
    /\ Goto(c, "copyval", "holding")
    /\ copy' = [copy EXCEPT ![c].val = val]
    /\ UNCHANGED <<field, tag, newHash, mail, raced, drift, applied, bounds>>

UpdateComponentEtag(g) == ComputeHash(g) \/ TestHash(g) \/ SetEtag(g)

----------------------------------------------------------------------------
(* Clients *)

\* The container's lock is released before the copy is made.
GetComponentCopy(c) ==
    /\ pc[c] \in {"idle", "holding"}
    /\ reads < MaxReads
    /\ pc' = [pc EXCEPT ![c] = "hash"]
    /\ reads' = reads + 1
    /\ UNCHANGED <<field, tag, newHash, copy, mail, raced, drift, applied, sends, changes, restarts>>

\* GET: the component itself is marshalled, its etag into the header first.
ServeHTTP(c) ==
    /\ pc[c] \in {"idle", "holding"}
    /\ reads < MaxReads
    /\ pc' = [pc EXCEPT ![c] = "copyval"]
    /\ copy' = [copy EXCEPT ![c].etag = etag]
    /\ reads' = reads + 1
    /\ UNCHANGED <<field, tag, newHash, mail, raced, drift, applied, sends, changes, restarts>>

\* SendSyncMessage blocks while the channel is full.
Send(m) ==
    /\ Len(inbox) < ChanCap
    /\ sends < MaxSends
    /\ inbox' = Append(inbox, m)
    /\ sends' = sends + 1
    /\ UNCHANGED <<field, tag, pc, newHash, copy, msg, raced, drift, applied, reads, changes, restarts>>

\* A client sends its copy, changed; it may do so again.
SendCopy(c) ==
    /\ pc[c] = "holding"
    /\ \E v \in Values :
          Send([kind |-> "update", etag |-> copy[c].etag, base |-> copy[c].val, new |-> v])

\* A message of another type, which is handled whatever the etag; Persist and
\* NotifyPeers only change the etag.
SendOther ==
    \E k \in Kinds \ {"update"}, v \in Values :
        Send([kind |-> k, etag |-> 0, base |-> val, new |-> IF k = "message" THEN v ELSE val])

----------------------------------------------------------------------------
(* startMmux *)

MuxTake ==
    /\ pc[Mux] = "idle"
    /\ inbox # <<>>
    /\ msg' = Head(inbox)
    /\ inbox' = Tail(inbox)
    /\ pc' = [pc EXCEPT ![Mux] = CASE msg'.kind = "update" -> "check"
                                   [] msg'.kind = "message" -> "handle"
                                   [] msg'.kind = "Persist" -> "persist"
                                   [] OTHER -> "hash"]
    /\ UNCHANGED <<field, tag, newHash, copy, raced, drift, applied, bounds>>

\* Mutant: the etag of the copy is not compared.
MuxCheckNothing ==
    /\ Goto(Mux, "check", "handle")
    /\ UNCHANGED <<field, tag, newHash, copy, mail, raced, drift, applied, bounds>>

\* A copy that is not current is refused.
MuxCheck ==
    /\ Goto(Mux, "check", IF etag = msg.etag THEN "handle" ELSE "idle")
    /\ msg' = IF etag = msg.etag THEN msg ELSE NoMsg
    /\ UNCHANGED <<field, tag, newHash, copy, inbox, raced, drift, applied, bounds>>

\* The handler applies the message, or fails before or after it did so.
MuxHandle ==
    /\ \/ /\ Goto(Mux, "handle", "persist")
          /\ val' = msg.new
          /\ UNCHANGED drift
       \/ /\ HandlerFails
          /\ Goto(Mux, "handle", "idle")
          /\ val' \in {val, msg.new}
          /\ drift' = (drift \/ val' # val)
    /\ applied' = IF msg.kind = "update" /\ val' # val THEN applied \union {msg} ELSE applied
    /\ msg' = NoMsg
    /\ UNCHANGED <<stage, tag, newHash, copy, inbox, raced, bounds>>

\* Mutant: the listeners are not told and no etag is computed.
MuxPersistEnds ==
    /\ Goto(Mux, "persist", "idle")
    /\ UNCHANGED <<field, tag, newHash, copy, mail, raced, drift, applied, bounds>>

\* persist; when it fails the listeners are not told and the etag stays.
MuxPersist ==
    /\ \/ /\ Goto(Mux, "persist", "hash")
          /\ UNCHANGED drift
       \/ /\ PersistFails
          /\ Goto(Mux, "persist", "idle")
          /\ drift' = (drift \/ hash.val # val \/ Updating # {})
    /\ UNCHANGED <<field, tag, newHash, copy, mail, raced, applied, bounds>>

MuxStep == MuxTake \/ MuxCheck \/ MuxHandle \/ MuxPersist

----------------------------------------------------------------------------
\* The component changes its fields itself and has not sent NotifyPeers yet.
ChangeField ==
    /\ changes < MaxChanges
    /\ changes' = changes + 1
    /\ \E v \in Values \ {val} : val' = v
    /\ drift' = TRUE
    /\ UNCHANGED <<stage, tag, pc, newHash, copy, mail, raced, applied, sends, reads, restarts>>

\* A restart passes through Restarting; the state stays Active, so the callback
\* does not compute an etag.
ChangeStage ==
    /\ \/ /\ stage = "Started" /\ restarts < MaxRestarts
          /\ stage' = "Restarting" /\ restarts' = restarts + 1
       \/ /\ stage = "Restarting"
          /\ stage' = "Started" /\ UNCHANGED restarts
    /\ UNCHANGED <<val, tag, pc, newHash, copy, mail, raced, drift, applied, sends, reads, changes>>

Next ==
    \/ \E g \in Procs : UpdateComponentEtag(g)
    \/ \E c \in Clients : CopyEtag(c) \/ CopyVal(c) \/ GetComponentCopy(c) \/ ServeHTTP(c) \/ SendCopy(c)
    \/ SendOther \/ MuxStep \/ ChangeField \/ ChangeStage

Spec == Init /\ [][Next]_vars

----------------------------------------------------------------------------
(* Properties *)

\* The variables keep their types, and no etag is used before it was drawn.
TypeOK ==
    /\ val \in Values /\ stage \in Stages
    /\ hash \in [val : Values, stage : Stages]
    /\ uuids \in Nat /\ etag \in 1..uuids
    /\ pc \in [Procs -> {"idle", "hash", "test", "etag", "copyetag", "copyval", "holding",
                         "check", "handle", "persist"}]
    /\ newHash \in [Procs -> [val : Values, stage : Stages]]
    /\ copy \in [Clients -> [etag : 0..uuids, val : Values]]
    /\ inbox \in Seq(Messages) /\ Len(inbox) <= ChanCap
    /\ msg \in Messages
    /\ raced \in BOOLEAN /\ drift \in BOOLEAN
    /\ applied \subseteq Messages
    /\ sends \in 0..MaxSends /\ reads \in 0..MaxReads
    /\ changes \in 0..MaxChanges /\ restarts \in 0..MaxRestarts

\* The etag can be relied upon: no two goroutines have been in
\* UpdateComponentEtag at once (its comment asks for a critical section), and no
\* change of the fields has been left without one.
Reliable == ~raced /\ ~drift

\* The multiplexer accepts the copy it was sent.
Accept == pc[Mux] = "check" /\ pc'[Mux] = "handle"

\* No lost update: an update that is accepted was made from a copy of the fields
\* as they are now, whoever reads, updates, restarts or times out meanwhile, as
\* long as the etag is reliable.
NoLostUpdate == [][Accept /\ Reliable => msg.base = val]_vars

\* An update that was applied is not accepted when it is sent again (after a
\* timeout, say), even when the fields have come back to what they were.
AppliedOnce == [][Accept /\ Reliable => msg \notin applied]_vars

\* README.md: updates are only allowed if the etag they carry is current, which
\* prevents conflicts arising due to concurrent modifications; without the
\* condition that UpdateComponentEtag is called by one goroutine at a time.
NoConflict == [][Accept => msg.base = val]_vars
=============================================================================
