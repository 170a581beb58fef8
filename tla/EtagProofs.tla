----------------------------- MODULE EtagProofs -----------------------------
(***************************************************************************)
(* Proofs about Etag, for any number of clients, values, messages, copies, *)
(* changes and restarts.                                                   *)
(***************************************************************************)
EXTENDS Etag, SequenceTheorems, TLAPS

----------------------------------------------------------------------------
(* The inductive invariant *)

\* Etags are numbered as they are drawn: none that is written down is newer than
\* the last one.
Drawn ==
    /\ \A k \in DOMAIN inbox : inbox[k].etag <= uuids
    /\ msg.etag <= uuids
    /\ \A m \in applied : m.etag <= uuids

\* As long as nobody raced, one goroutine at most is in UpdateComponentEtag.
OneUpdates == ~raced => \A g, h \in Updating : g = h

\* The multiplexer may have changed the fields and has not settled the etag yet.
Unsettled == pc[Mux] \in {"persist", "hash", "test", "etag"}

\* The next etag is on its way: the hash is that of other fields, or it is not and
\* the goroutine that found the difference has yet to draw the etag.
Expiring == hash.val # val \/ \E g \in Procs : pc[g] = "etag"

\* A copy (e, v) that carries the current etag is a copy of the fields as they
\* are, or its etag is about to be replaced before the multiplexer is back.
Good(e, v) == e = etag => \/ v = val
                          \/ Unsettled /\ Expiring

\* What has been applied does not carry the current etag for long.
Spent(e) == e = etag => Unsettled /\ Expiring

\* What a reliable etag says about fields, hashes, ...
HashInv ==
    /\ ~Unsettled => hash.val = val
    /\ pc[Mux] = "etag" => hash.val = val
    /\ \A g \in Procs : pc[g] = "test" /\ (g = Mux \/ ~Unsettled) => newHash[g].val = val

\* ... copies and messages.
CopyInv ==
    /\ \A c \in Clients : pc[c] = "holding" => Good(copy[c].etag, copy[c].val)
    /\ \A k \in DOMAIN inbox : Good(inbox[k].etag, inbox[k].base)
    /\ pc[Mux] = "check" => Good(msg.etag, msg.base)
    /\ \A m \in applied : Spent(m.etag)

\* The multiplexer is never where only a client can be.
MuxPlace == pc[Mux] \notin {"copyetag", "copyval", "holding"}

TypeInv == TypeOK /\ MuxPlace /\ Drawn

Inv == TypeInv /\ OneUpdates /\ (Reliable => HashInv /\ CopyInv)

----------------------------------------------------------------------------
(* Types *)

USE EtagAssumption DEF Procs, Goto, field, tag, mail, bounds, ChanCap

LEMMA ChosenValue == NoHash \in [val : Values, stage : Stages] /\ NoMsg \in Messages
<1>1. (CHOOSE v \in Values : TRUE) \in Values
  OBVIOUS
<1> QED BY <1>1 DEF NoHash, NoMsg, Stages, Messages, Kinds

LEMMA TypeInit == Init => TypeInv
<1> SUFFICES ASSUME Init PROVE TypeInv
  OBVIOUS
<1>1. hash \in [val : Values, stage : Stages] /\ stage \in Stages
  BY DEF Init, Stages
<1>2. inbox \in Seq(Messages) /\ Len(inbox) = 0 /\ DOMAIN inbox = {}
  BY DEF Init
<1>3. copy \in [Clients -> [etag : 0..uuids, val : Values]]
  BY DEF Init
<1>4. TypeOK
  <2>1. uuids \in Nat /\ etag \in 1..uuids
    BY DEF Init
  <2>5. raced \in BOOLEAN /\ drift \in BOOLEAN
    BY Zenon DEF Init
  <2>2. newHash \in [Procs -> [val : Values, stage : Stages]] /\ msg \in Messages
    BY ChosenValue DEF Init
  <2>3. /\ sends \in 0..MaxSends /\ reads \in 0..MaxReads
        /\ changes \in 0..MaxChanges /\ restarts \in 0..MaxRestarts
    BY DEF Init
  <2>4. /\ pc \in [Procs -> {"idle", "hash", "test", "etag", "copyetag", "copyval", "holding",
                            "check", "handle", "persist"}]
        /\ applied \subseteq Messages /\ val \in Values
    BY DEF Init
  <2> QED BY <1>1, <1>2, <1>3, <2>1, <2>2, <2>3, <2>4, <2>5 DEF TypeOK
<1>5. msg.etag = 0
  BY DEF Init, NoMsg
<1> QED BY <1>2, <1>4, <1>5 DEF Init, TypeInv, MuxPlace, Drawn

\* UpdateComponentEtag and createCopy.
LEMMA TypeUpdate ==
    ASSUME TypeInv, NEW g \in Procs, UpdateComponentEtag(g)
    PROVE  TypeInv'
<1> USE DEF TypeInv, TypeOK, MuxPlace, Drawn
<1>1. CASE ComputeHash(g)
  BY <1>1 DEF ComputeHash, Content
<1>2. CASE TestHash(g)
  BY <1>2, ChosenValue DEF TestHash, AfterUpdate
<1>3. CASE SetEtag(g)
  <2>1. uuids' = uuids + 1 /\ etag' \in 1..uuids'
    BY <1>3 DEF SetEtag
  <2>2. copy' \in [Clients -> [etag : 0..uuids', val : Values]]
    BY <1>3, <2>1 DEF SetEtag
  <2>3. Drawn'
    <3>1. \A k \in DOMAIN inbox : inbox[k].etag \in Nat
      <4>1. \A k \in DOMAIN inbox : inbox[k] \in Messages
        OBVIOUS
      <4> QED BY <4>1 DEF Messages
    <3>2. msg.etag \in Nat /\ \A m \in applied : m.etag \in Nat
      BY DEF Messages
    <3>3. inbox' = inbox /\ msg' = msg /\ applied' = applied
      BY <1>3 DEF SetEtag
    <3> QED BY <2>1, <3>1, <3>2, <3>3
  <2> QED BY <1>3, <2>1, <2>2, <2>3 DEF SetEtag, AfterUpdate
<1> QED BY <1>1, <1>2, <1>3 DEF UpdateComponentEtag

\* A message that is sent carries an etag that has been drawn.
LEMMA TypeSend ==
    ASSUME TypeInv, NEW m \in Messages, m.etag <= uuids, Send(m)
    PROVE  TypeInv'
<1>1. inbox' = Append(inbox, m) /\ Len(inbox) = 0
  BY DEF Send, TypeInv, TypeOK
<1>2. inbox' \in Seq(Messages) /\ Len(inbox') = 1 /\ DOMAIN inbox' = {1} /\ inbox'[1] = m
  BY <1>1 DEF TypeInv, TypeOK
<1> QED BY <1>2 DEF Send, TypeInv, TypeOK, MuxPlace, Drawn

LEMMA TypeClient ==
    ASSUME TypeInv, NEW c \in Clients,
           CopyEtag(c) \/ CopyVal(c) \/ GetComponentCopy(c) \/ ServeHTTP(c) \/ SendCopy(c)
    PROVE  TypeInv'
<1> USE DEF TypeInv
<1>0. ASSUME copy' = [copy EXCEPT ![c].etag = etag], uuids' = uuids
      PROVE  copy' \in [Clients -> [etag : 0..uuids', val : Values]]
  <2>1. etag \in 0..uuids
    BY DEF TypeOK
  <2> QED BY <1>0, <2>1 DEF TypeOK
<1>1. CASE CopyEtag(c)
  BY <1>0, <1>1 DEF CopyEtag, TypeOK, MuxPlace, Drawn
<1>2. CASE CopyVal(c)
  BY <1>2 DEF CopyVal, TypeOK, MuxPlace, Drawn
<1>3. CASE GetComponentCopy(c)
  BY <1>3 DEF GetComponentCopy, TypeOK, MuxPlace, Drawn
<1>4. CASE ServeHTTP(c)
  BY <1>0, <1>4 DEF ServeHTTP, TypeOK, MuxPlace, Drawn
<1>5. CASE SendCopy(c)
  <2>1. PICK v \in Values :
          Send([kind |-> "update", etag |-> copy[c].etag, base |-> copy[c].val, new |-> v])
    BY <1>5 DEF SendCopy
  <2>2. copy[c].etag \in Nat /\ copy[c].etag <= uuids /\ copy[c].val \in Values
    BY DEF TypeOK
  <2> QED BY <2>1, <2>2, TypeSend DEF Messages, Kinds
<1> QED BY <1>1, <1>2, <1>3, <1>4, <1>5

LEMMA TypeOther ==
    ASSUME TypeInv, SendOther
    PROVE  TypeInv'
<1>1. PICK k \in Kinds \ {"update"}, v \in Values :
        Send([kind |-> k, etag |-> 0, base |-> val, new |-> IF k = "message" THEN v ELSE val])
  BY DEF SendOther
<1> DEFINE m == [kind |-> k, etag |-> 0, base |-> val, new |-> IF k = "message" THEN v ELSE val]
<1>2. m \in Messages /\ m.etag <= uuids
  BY DEF Messages, TypeInv, TypeOK
<1> QED BY <1>1, <1>2, TypeSend

\* What the multiplexer takes is the only message in the buffer.
LEMMA Taken ==
    ASSUME TypeOK, MuxTake
    PROVE  /\ Len(inbox) = 1 /\ msg' = inbox[1] /\ msg' \in Messages
           /\ inbox' = <<>> /\ inbox' \in Seq(Messages) /\ DOMAIN inbox' = {}
<1>1. inbox \in Seq(Messages) /\ inbox # <<>> /\ Len(inbox) <= 1
  BY DEF TypeOK, MuxTake
<1>2. Len(inbox) = 1
  <2>1. Len(inbox) = 0 => inbox = <<>>
    BY <1>1, EmptySeq
  <2>2. Len(inbox) # 0
    BY <1>1, <2>1, Zenon
  <2>3. Len(inbox) \in Nat /\ Len(inbox) <= 1
    BY <1>1, LenProperties
  <2>4. \A n \in Nat : n <= 1 /\ n # 0 => n = 1
    OBVIOUS
  <2> QED BY <2>2, <2>3, <2>4
<1>3. Head(inbox) = inbox[1] /\ Head(inbox) \in Messages
  BY <1>1, <1>2
<1>4. Tail(inbox) \in Seq(Messages) /\ Len(Tail(inbox)) = 0
  BY <1>1, <1>2
<1>5. Tail(inbox) = <<>> /\ DOMAIN Tail(inbox) = {}
  <2>1. Tail(inbox) = <<>>
    BY <1>4, EmptySeq
  <2> QED BY <2>1
<1> QED BY <1>2, <1>3, <1>4, <1>5 DEF MuxTake

LEMMA TypeMux ==
    ASSUME TypeInv, MuxStep
    PROVE  TypeInv'
<1> USE DEF TypeInv
<1>1. CASE MuxTake
  BY <1>1, Taken DEF MuxTake, TypeOK, MuxPlace, Drawn
<1>2. CASE MuxCheck
  <2>1. msg' \in Messages /\ msg'.etag <= uuids
    BY <1>2, ChosenValue DEF MuxCheck, TypeOK, Drawn, NoMsg
  <2> QED BY <1>2, <2>1 DEF MuxCheck, TypeOK, MuxPlace, Drawn
<1>3. CASE MuxHandle
  <2>1. msg' = NoMsg /\ msg' \in Messages /\ msg'.etag <= uuids'
    BY <1>3, ChosenValue DEF MuxHandle, TypeOK, NoMsg
  <2>2. val' \in Values /\ applied' \subseteq applied \union {msg}
    BY <1>3 DEF MuxHandle, TypeOK, Messages
  <2>3. pc' \in [Procs -> {"idle", "hash", "test", "etag", "copyetag", "copyval", "holding",
                         "check", "handle", "persist"}] /\ MuxPlace' /\ drift' \in BOOLEAN
    BY <1>3 DEF MuxHandle, TypeOK, MuxPlace
  <2> QED BY <1>3, <2>1, <2>2, <2>3 DEF MuxHandle, TypeOK, Drawn
<1>4. CASE MuxPersist
  BY <1>4 DEF MuxPersist, TypeOK, MuxPlace, Drawn
<1> QED BY <1>1, <1>2, <1>3, <1>4 DEF MuxStep

LEMMA TypeStep == TypeInv /\ [Next]_vars => TypeInv'
<1> SUFFICES ASSUME TypeInv, [Next]_vars PROVE TypeInv'
  OBVIOUS
<1>1. CASE \E g \in Procs : UpdateComponentEtag(g)
  BY <1>1, TypeUpdate
<1>2. CASE \E c \in Clients : CopyEtag(c) \/ CopyVal(c) \/ GetComponentCopy(c) \/ ServeHTTP(c)
                                \/ SendCopy(c)
  BY <1>2, TypeClient
<1>3. CASE SendOther
  BY <1>3, TypeOther
<1>4. CASE MuxStep
  BY <1>4, TypeMux
<1>5. CASE ChangeField
  BY <1>5 DEF ChangeField, TypeInv, TypeOK, MuxPlace, Drawn
<1>6. CASE ChangeStage
  BY <1>6 DEF ChangeStage, TypeInv, TypeOK, MuxPlace, Drawn, Stages
<1>7. CASE UNCHANGED vars
  BY <1>7 DEF vars, TypeInv, TypeOK, MuxPlace, Drawn
<1> QED BY <1>1, <1>2, <1>3, <1>4, <1>5, <1>6, <1>7 DEF Next

\* Every variable keeps its type, and no etag is used before it was drawn.
THEOREM TypeCorrect == Spec => []TypeOK
<1>1. TypeInv => TypeOK
  BY DEF TypeInv
<1> QED BY TypeInit, TypeStep, <1>1, PTL DEF Spec

----------------------------------------------------------------------------
(* What the etag says *)

LEMMA InvInit == Init => Inv
<1> SUFFICES ASSUME Init PROVE Inv
  OBVIOUS
<1>1. OneUpdates
  BY DEF Init, OneUpdates, Updating
<1>2. HashInv
  BY DEF Init, HashInv
<1>3. CopyInv
  BY DEF Init, CopyInv
<1> QED BY <1>1, <1>2, <1>3, TypeInit DEF Inv

\* A hash is computed: if nobody raced, no other goroutine is updating.
LEMMA InvComputeHash ==
    ASSUME Inv, NEW g \in Procs, ComputeHash(g), OneUpdates', Reliable'
    PROVE  (HashInv /\ CopyInv)'
<1>1. Reliable /\ Updating = {}
  BY DEF ComputeHash, Reliable
<1>2. HashInv /\ CopyInv
  BY <1>1 DEF Inv
<1>3. /\ pc'[g] = "test" /\ \A h \in Procs : h # g => pc'[h] = pc[h]
      /\ newHash' = [newHash EXCEPT ![g] = Content] /\ g \in DOMAIN newHash
  BY DEF ComputeHash, Inv, TypeInv, TypeOK
<1>4. HashInv'
  BY <1>1, <1>2, <1>3 DEF ComputeHash, HashInv, Unsettled, Content, Updating
<1>5. CopyInv'
  BY <1>1, <1>2, <1>3 DEF ComputeHash, CopyInv, Good, Spent, Unsettled, Expiring
<1> QED BY <1>4, <1>5

LEMMA InvTestHash ==
    ASSUME Inv, NEW g \in Procs, TestHash(g), OneUpdates', Reliable'
    PROVE  (HashInv /\ CopyInv)'
<1>1. Reliable
  BY DEF TestHash, Reliable
<1>2. HashInv /\ CopyInv
  BY <1>1 DEF Inv
<1>3. \A h \in Procs : pc[h] \in {"test", "etag"} => h = g
  BY <1>1 DEF Inv, OneUpdates, Updating, TestHash, Reliable
<1>4. \A h \in Procs : h # g => pc'[h] = pc[h]
  BY DEF Inv, TypeInv, TypeOK, TestHash
<1>5. hash' = newHash[g] /\ pc'[g] = IF newHash[g] # hash THEN "etag" ELSE AfterUpdate(g)
  BY DEF Inv, TypeInv, TypeOK, TestHash
<1>6. HashInv'
  BY <1>2, <1>3, <1>4, <1>5 DEF TestHash, HashInv, Unsettled, AfterUpdate
<1>7. CASE pc'[g] = "etag"
  BY <1>2, <1>3, <1>4, <1>6, <1>7 DEF TestHash, CopyInv, Good, Spent, Unsettled, Expiring
<1>8. CASE newHash[g] = hash
  BY <1>2, <1>3, <1>4, <1>5, <1>6, <1>8 DEF TestHash, HashInv, CopyInv, Good, Spent, Unsettled, Expiring, AfterUpdate
<1> QED BY <1>4, <1>5, <1>6, <1>7, <1>8

\* A new etag is on no copy and in no message.
LEMMA InvSetEtag ==
    ASSUME Inv, NEW g \in Procs, SetEtag(g), OneUpdates', Reliable'
    PROVE  (HashInv /\ CopyInv)'
<1>1. /\ \A c \in Clients : copy[c].etag # etag'
      /\ \A k \in DOMAIN inbox : inbox[k].etag # etag'
      /\ msg.etag # etag'
      /\ \A m \in applied : m.etag # etag'
  <2>1. \A k \in DOMAIN inbox : inbox[k] \in Messages
    BY DEF Inv, TypeInv, TypeOK
  <2> QED BY <2>1 DEF Inv, TypeInv, TypeOK, Drawn, SetEtag, Messages
<1>2. CopyInv'
  BY <1>1 DEF SetEtag, CopyInv, Good, Spent, Inv, TypeInv, TypeOK
<1>3. ~raced /\ \A h \in Procs : pc[h] \in {"test", "etag"} => h = g
  BY DEF Inv, OneUpdates, Updating, SetEtag, Reliable
<1>4. pc'[g] = AfterUpdate(g) /\ \A h \in Procs : h # g => pc'[h] = pc[h]
  BY DEF Inv, TypeInv, TypeOK, SetEtag
<1>5. CASE hash.val = val
  BY <1>2, <1>3, <1>4, <1>5 DEF SetEtag, HashInv, Unsettled, AfterUpdate
<1>6. CASE ~drift
  BY <1>2, <1>3, <1>4, <1>6 DEF Inv, Reliable, SetEtag, HashInv, Unsettled, AfterUpdate
<1>7. hash.val = val \/ ~drift
  BY DEF SetEtag, Reliable
<1> QED BY <1>2, <1>5, <1>6, <1>7

\* A goroutine that would be the second one in UpdateComponentEtag sets raced.
LEMMA OneUpdatesStep == Inv /\ [Next]_vars => OneUpdates'
<1> SUFFICES ASSUME Inv, [Next]_vars, ~raced' PROVE \A g, h \in Updating' : g = h
  BY DEF OneUpdates
<1> USE DEF Inv, TypeInv, TypeOK
<1>1. CASE \E g \in Procs : ComputeHash(g)
  <2>1. PICK g \in Procs : ComputeHash(g)
    BY <1>1
  <2>2. Updating = {} /\ \A h \in Procs : h # g => pc'[h] = pc[h]
    BY <2>1 DEF ComputeHash
  <2> QED BY <2>2 DEF Updating
<1>2. Updating' \subseteq Updating /\ (~raced' => ~raced)
      => \A g, h \in Updating' : g = h
  BY DEF OneUpdates
<1>3. CASE \E g \in Procs : TestHash(g) \/ SetEtag(g)
  BY <1>2, <1>3 DEF TestHash, SetEtag, AfterUpdate, Updating
<1>4. CASE \E c \in Clients : CopyEtag(c) \/ CopyVal(c) \/ GetComponentCopy(c) \/ ServeHTTP(c)
                                \/ SendCopy(c)
  <2>1. PICK c \in Clients : CopyEtag(c) \/ CopyVal(c) \/ GetComponentCopy(c) \/ ServeHTTP(c)
                               \/ SendCopy(c)
    BY <1>4
  <2>2. \A h \in Procs : pc'[h] = pc[h] \/ pc'[h] \in {"hash", "copyval", "holding"}
    BY <2>1 DEF CopyEtag, CopyVal, GetComponentCopy, ServeHTTP, SendCopy, Send
  <2>3. raced' = raced
    BY <2>1 DEF CopyEtag, CopyVal, GetComponentCopy, ServeHTTP, SendCopy, Send
  <2> QED BY <1>2, <2>2, <2>3 DEF Updating
<1>5. CASE SendOther \/ ChangeField \/ ChangeStage \/ UNCHANGED vars
  BY <1>2, <1>5 DEF SendOther, Send, ChangeField, ChangeStage, vars, Updating
<1>6. CASE MuxStep
  BY <1>2, <1>6 DEF MuxStep, MuxTake, MuxCheck, MuxHandle, MuxPersist, Updating
<1> QED BY <1>1, <1>3, <1>4, <1>5, <1>6 DEF Next, UpdateComponentEtag

\* A message made from a copy is as good as the copy; one made without carries
\* etag 0, which is nobody's.
LEMMA InvSend ==
    ASSUME Inv, NEW m \in Messages, Good(m.etag, m.base), Send(m), Reliable'
    PROVE  (HashInv /\ CopyInv)'
<1>1. Reliable
  BY DEF Send, Reliable
<1>2. HashInv /\ CopyInv
  BY <1>1 DEF Inv
<1>3. Len(inbox) = 0 /\ inbox \in Seq(Messages) /\ inbox' = Append(inbox, m)
  BY DEF Send, Inv, TypeInv, TypeOK
<1>4. DOMAIN inbox' = {1} /\ inbox'[1] = m
  BY <1>3
<1>5. HashInv'
  BY <1>2 DEF Send, HashInv, Unsettled
<1>6. CopyInv'
  BY <1>2, <1>4 DEF Send, CopyInv, Good, Spent, Unsettled, Expiring
<1> QED BY <1>5, <1>6

LEMMA InvClient ==
    ASSUME Inv, Reliable', NEW c \in Clients,
           CopyEtag(c) \/ CopyVal(c) \/ GetComponentCopy(c) \/ ServeHTTP(c) \/ SendCopy(c)
    PROVE  (HashInv /\ CopyInv)'
<1>1. CASE SendCopy(c)
  <2>1. PICK v \in Values :
          Send([kind |-> "update", etag |-> copy[c].etag, base |-> copy[c].val, new |-> v])
    BY <1>1 DEF SendCopy
  <2> DEFINE m == [kind |-> "update", etag |-> copy[c].etag, base |-> copy[c].val, new |-> v]
  <2>2. m \in Messages
    BY DEF Messages, Kinds, Inv, TypeInv, TypeOK
  <2>3. Reliable /\ pc[c] = "holding"
    BY <1>1, <2>1 DEF Send, Reliable, SendCopy
  <2>4. Good(m.etag, m.base)
    BY <2>3 DEF Inv, CopyInv
  <2> QED BY <2>1, <2>2, <2>4, InvSend
<1>2. CASE CopyEtag(c) \/ CopyVal(c) \/ GetComponentCopy(c) \/ ServeHTTP(c)
  <2>1. Reliable
    BY <1>2 DEF CopyEtag, CopyVal, GetComponentCopy, ServeHTTP, Reliable
  <2>2. HashInv /\ CopyInv
    BY <2>1 DEF Inv
  <2>3. /\ pc'[c] \in {"hash", "copyval", "holding"} /\ pc[c] \notin {"test", "etag"}
        /\ \A h \in Procs : h # c => pc'[h] = pc[h]
    BY <1>2 DEF CopyEtag, CopyVal, GetComponentCopy, ServeHTTP, Inv, TypeInv, TypeOK
  <2>4. /\ c # Mux
        /\ UNCHANGED <<field, tag, newHash, mail, applied>>
        /\ \A d \in Clients : pc'[d] = "holding" => copy'[d] = copy[d] \/ copy'[d].val = val
    BY <1>2 DEF CopyEtag, CopyVal, GetComponentCopy, ServeHTTP, Inv, TypeInv, TypeOK
  <2>5. HashInv'
    BY <2>2, <2>3, <2>4 DEF HashInv, Unsettled
  <2>6. (Unsettled' <=> Unsettled) /\ (Expiring' <=> Expiring)
    BY <2>3, <2>4 DEF Unsettled, Expiring
  <2>7. \A d \in Clients : pc'[d] = "holding" => pc[d] = "holding" \/ copy'[d].val = val
    BY <1>2 DEF CopyEtag, CopyVal, GetComponentCopy, ServeHTTP, Inv, TypeInv, TypeOK
  <2>8. CopyInv'
    BY <2>2, <2>3, <2>4, <2>6, <2>7 DEF CopyInv, Good, Spent
  <2> QED BY <2>5, <2>8
<1> QED BY <1>1, <1>2

LEMMA InvOther ==
    ASSUME Inv, Reliable', SendOther
    PROVE  (HashInv /\ CopyInv)'
<1>1. PICK k \in Kinds \ {"update"}, v \in Values :
        Send([kind |-> k, etag |-> 0, base |-> val, new |-> IF k = "message" THEN v ELSE val])
  BY DEF SendOther
<1> DEFINE m == [kind |-> k, etag |-> 0, base |-> val, new |-> IF k = "message" THEN v ELSE val]
<1>2. m \in Messages
  BY DEF Messages, Inv, TypeInv, TypeOK
<1>3. Good(m.etag, m.base)
  BY DEF Good
<1> QED BY <1>1, <1>2, <1>3, InvSend

\* The multiplexer settles the etag between a change of the fields and the next
\* message it checks; where it cannot, drift says so.
LEMMA InvMux ==
    ASSUME Inv, Reliable', MuxStep
    PROVE  (HashInv /\ CopyInv)'
<1> USE DEF Inv, TypeInv, TypeOK
<1>1. Reliable
  BY DEF MuxStep, MuxTake, MuxCheck, MuxHandle, MuxPersist, Reliable
<1>2. HashInv /\ CopyInv
  BY <1>1
<1>3. \A h \in Procs : h # Mux => pc'[h] = pc[h]
  BY DEF MuxStep, MuxTake, MuxCheck, MuxHandle, MuxPersist
<1>4. CASE MuxTake
  <2>1. msg' = inbox[1] /\ 1 \in DOMAIN inbox /\ DOMAIN inbox' = {}
    BY <1>4, Taken
  <2>2. pc'[Mux] \in {"check", "handle", "persist", "hash"} /\ ~Unsettled
    BY <1>4 DEF MuxTake, Unsettled
  <2>3. HashInv'
    BY <1>2, <1>3, <1>4, <2>2 DEF MuxTake, HashInv, Unsettled
  <2>4. CopyInv'
    BY <1>2, <1>3, <1>4, <2>1, <2>2 DEF MuxTake, CopyInv, Good, Spent
  <2> QED BY <2>3, <2>4
<1>5. CASE MuxCheck
  <2>1. pc'[Mux] \in {"handle", "idle"} /\ ~Unsettled
    BY <1>5 DEF MuxCheck, Unsettled
  <2>2. HashInv'
    BY <1>2, <1>3, <1>5, <2>1 DEF MuxCheck, HashInv, Unsettled
  <2>3. CopyInv'
    BY <1>2, <1>3, <1>5, <2>1 DEF MuxCheck, CopyInv, Good, Spent
  <2> QED BY <2>2, <2>3
<1>6. CASE MuxHandle
  <2>1. ~Unsettled /\ hash' = hash /\ etag' = etag /\ hash.val = val
    BY <1>2, <1>6 DEF MuxHandle, Unsettled, HashInv
  <2>2. CASE pc'[Mux] = "persist"
    <3>1. Unsettled' /\ (val' # val => Expiring')
      BY <2>1, <2>2 DEF Unsettled, Expiring
    <3>2. HashInv'
      BY <2>2, <3>1 DEF HashInv
    <3>3. applied' = applied \/ val' # val
      BY <1>6 DEF MuxHandle
    <3>4. CopyInv'
      BY <1>2, <1>3, <1>6, <2>1, <2>2, <3>1, <3>3 DEF MuxHandle, CopyInv, Good, Spent
    <3> QED BY <3>2, <3>4
  <2>3. CASE pc'[Mux] = "idle"
    <3>1. val' = val /\ applied' = applied
      BY <1>6, <2>3 DEF MuxHandle, Reliable
    <3>2. HashInv'
      BY <1>2, <1>3, <1>6, <2>1, <2>3, <3>1 DEF MuxHandle, HashInv, Unsettled
    <3>3. CopyInv'
      BY <1>2, <1>3, <1>6, <2>1, <2>3, <3>1 DEF MuxHandle, CopyInv, Good, Spent
    <3> QED BY <3>2, <3>3
  <2> QED BY <1>6, <2>2, <2>3 DEF MuxHandle
<1>7. CASE MuxPersist
  <2>1. CASE pc'[Mux] = "hash"
    <3>1. Unsettled /\ Unsettled' /\ (Expiring' <=> Expiring)
      BY <1>3, <1>7, <2>1 DEF MuxPersist, Unsettled, Expiring
    <3>2. HashInv'
      BY <2>1, <3>1 DEF HashInv
    <3>3. CopyInv'
      BY <1>2, <1>3, <1>7, <2>1, <3>1 DEF MuxPersist, CopyInv, Good, Spent
    <3> QED BY <3>2, <3>3
  <2>2. CASE pc'[Mux] = "idle"
    <3>1. hash.val = val /\ Updating = {}
      BY <1>7, <2>2 DEF MuxPersist, Reliable
    <3>2. ~Expiring /\ ~Unsettled'
      BY <2>2, <3>1 DEF Expiring, Updating, Unsettled
    <3>3. HashInv'
      BY <1>3, <1>7, <2>2, <3>1 DEF MuxPersist, HashInv, Updating
    <3>4. CopyInv'
      BY <1>2, <1>3, <1>7, <2>2, <3>2 DEF MuxPersist, CopyInv, Good, Spent
    <3> QED BY <3>3, <3>4
  <2> QED BY <1>7, <2>1, <2>2 DEF MuxPersist
<1> QED BY <1>4, <1>5, <1>6, <1>7 DEF MuxStep

LEMMA InvStep == Inv /\ [Next]_vars => Inv'
<1> SUFFICES ASSUME Inv, [Next]_vars PROVE Inv'
  OBVIOUS
<1>1. TypeInv' /\ OneUpdates'
  BY TypeStep, OneUpdatesStep DEF Inv
<1> SUFFICES ASSUME Reliable' PROVE (HashInv /\ CopyInv)'
  BY <1>1 DEF Inv
<1>2. CASE \E g \in Procs : UpdateComponentEtag(g)
  BY <1>1, <1>2, InvComputeHash, InvTestHash, InvSetEtag DEF UpdateComponentEtag
<1>3. CASE \E c \in Clients : CopyEtag(c) \/ CopyVal(c) \/ GetComponentCopy(c) \/ ServeHTTP(c)
                                \/ SendCopy(c)
  BY <1>3, InvClient
<1>4. CASE SendOther
  BY <1>4, InvOther
<1>5. CASE MuxStep
  BY <1>5, InvMux
<1>6. CASE ChangeField
  BY <1>6 DEF ChangeField, Reliable
<1>7. CASE ChangeStage \/ UNCHANGED vars
  <2>1. UNCHANGED <<val, tag, pc, newHash, copy, mail, raced, drift, applied>>
    BY <1>7 DEF ChangeStage, vars
  <2>2. HashInv /\ CopyInv
    BY <2>1 DEF Inv, Reliable
  <2> QED BY <2>1, <2>2 DEF HashInv, CopyInv, Good, Spent, Unsettled, Expiring
<1> QED BY <1>2, <1>3, <1>4, <1>5, <1>6, <1>7 DEF Next

\* The multiplexer accepts only the current etag.
LEMMA AcceptsCurrent == Inv /\ [Next]_vars /\ Accept => etag = msg.etag /\ ~Unsettled
<1> SUFFICES ASSUME Inv, [Next]_vars, Accept PROVE etag = msg.etag /\ ~Unsettled
  OBVIOUS
<1> USE DEF Inv, TypeInv, TypeOK, Accept, Unsettled
<1>1. CASE \E g \in Procs : UpdateComponentEtag(g)
  BY <1>1 DEF UpdateComponentEtag, ComputeHash, TestHash, SetEtag
<1>2. CASE \E c \in Clients : CopyEtag(c) \/ CopyVal(c) \/ GetComponentCopy(c) \/ ServeHTTP(c)
                                \/ SendCopy(c)
  BY <1>2 DEF CopyEtag, CopyVal, GetComponentCopy, ServeHTTP, SendCopy, Send
<1>3. CASE SendOther \/ ChangeField \/ ChangeStage \/ UNCHANGED vars
  BY <1>3 DEF SendOther, Send, ChangeField, ChangeStage, vars
<1>4. CASE MuxStep
  BY <1>4 DEF MuxStep, MuxTake, MuxCheck, MuxHandle, MuxPersist
<1> QED BY <1>1, <1>2, <1>3, <1>4 DEF Next

\* No lost update: while the etag can be relied upon, an update that the
\* multiplexer accepts was made from a copy of the fields as they are, for any
\* number of clients, whoever reads, writes, restarts or times out meanwhile.
THEOREM UpdatesAreNotLost == Spec => NoLostUpdate
<1>1. Inv /\ [Next]_vars => [Accept /\ Reliable => msg.base = val]_vars
  <2> SUFFICES ASSUME Inv, [Next]_vars, Accept, Reliable PROVE msg.base = val
    OBVIOUS
  <2>1. etag = msg.etag /\ ~Unsettled /\ pc[Mux] = "check"
    BY AcceptsCurrent DEF Accept
  <2> QED BY <2>1 DEF Inv, CopyInv, Good
<1> QED BY <1>1, InvInit, InvStep, PTL DEF Spec, NoLostUpdate

\* While the etag can be relied upon, an update that was applied is not accepted
\* again, even if the fields are back at what they were.
THEOREM UpdatesApplyOnce == Spec => AppliedOnce
<1>1. Inv /\ [Next]_vars => [Accept /\ Reliable => msg \notin applied]_vars
  <2> SUFFICES ASSUME Inv, [Next]_vars, Accept, Reliable PROVE msg \notin applied
    OBVIOUS
  <2>1. etag = msg.etag /\ ~Unsettled
    BY AcceptsCurrent
  <2> QED BY <2>1 DEF Inv, CopyInv, Spent
<1> QED BY <1>1, InvInit, InvStep, PTL DEF Spec, AppliedOnce
=============================================================================
