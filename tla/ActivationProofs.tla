-------------------------- MODULE ActivationProofs --------------------------
(***************************************************************************)
(* Proofs about Activation, for any number of callers and any names, when  *)
(* the first call has made the channels before the second one begins.      *)
(* Without that, two goroutines read and write the map at once.            *)
(***************************************************************************)
EXTENDS Activation, FiniteSetTheorems, SequenceTheorems, TLAPS

----------------------------------------------------------------------------
(* The inductive invariant *)

ActPcs == {"none", "spawned", "wait", "init", "map", "start", "answer"}
ActRecords == [at : ActPcs, on : {NoChan} \union Chans, comp : Callers \union {Nobody}]
Busy == act[1].at \in {"init", "map", "start", "answer"}

\* The variables are functions on callers and channels.
PlainType ==
    /\ pc \in [Callers -> {"idle", "make", "put", "send", "sent", "receive", "test", "returned"}]
    /\ via \in [Callers -> {NoChan} \union Chans]
    /\ kstage \in [Callers -> {"new", "initialized", "aborted", "started", "down", "gone"}]
    /\ outcome \in [Callers -> Results] /\ got \in [Callers -> Results]
    /\ answer \in [Callers -> Results]
    /\ ending \in BOOLEAN /\ overlapped \subseteq Callers

Shape ==
    /\ queue \in [Chans -> Seq(Callers)] /\ waiting \in [Chans -> Seq(Callers)]
    /\ act \in [Chans -> ActRecords]
    /\ err \in [Chans -> {"nil", "error"}] /\ maker \in [Chans -> Callers \union {Nobody}]

\* Channels are made once, and one goroutine reads them.
OneQueue ==
    /\ made \in {0, 1} /\ chan = made
    /\ \A x \in Callers : pc[x] = "make" => made = 0 /\ \A y \in Callers : pc[y] = "make" => y = x
    /\ \A x \in Callers : pc[x] \in {"send", "sent", "receive", "test"} => made = 1
    /\ \A x \in Callers : pc[x] = "send" => via[x] = 1
    /\ \A c \in Chans : c # 1 \/ made = 0 => act[c].at = "none" /\ queue[c] = <<>>
    /\ made = 1 => act[1].at # "none"
    /\ act[1].at \in {"wait", "init", "map", "start", "answer"} => act[1].on = 1
    /\ Busy <=> act[1].comp # Nobody

Unsent == {"idle", "make", "put", "send"}

\* Every component passes through the queue ...
CallerInv ==
    \A x \in Callers :
        /\ pc[x] \in Unsent => kstage[x] = "new" /\ outcome[x] = "none" /\ act[1].comp # x
        /\ pc[x] \in Unsent \union {"sent", "receive"} => got[x] = "none"
        /\ pc[x] \notin {"idle", "returned"} => ~Refused(x)

QueueInv ==
    /\ Len(queue[1]) <= ChanCap
    /\ \A k \in DOMAIN queue[1] :
          /\ pc[queue[1][k]] \notin Unsent /\ kstage[queue[1][k]] = "new"
          /\ outcome[queue[1][k]] = "none" /\ act[1].comp # queue[1][k] /\ ~Refused(queue[1][k])

\* ... and the goroutine once.
ActInv ==
    /\ Busy => ~Refused(act[1].comp)
    /\ act[1].at = "init" => kstage[act[1].comp] = "new"
    /\ act[1].at \in {"map", "start"} => kstage[act[1].comp] = "initialized"
    /\ act[1].at \in {"init", "map", "start"} => outcome[act[1].comp] = "none"
    /\ act[1].at = "answer" => outcome[act[1].comp] # "none"

\* Those who wait at the channel have not been answered.
Line ==
    /\ \A k \in DOMAIN waiting[1] : pc[waiting[1][k]] = "receive"
    /\ \A j, k \in DOMAIN waiting[1] : waiting[1][j] = waiting[1][k] => j = k

TypeInv == PlainType /\ Shape /\ OneQueue /\ CallerInv /\ QueueInv /\ ActInv /\ Line

\* The components that hold their name: running, stopping or about to start.
Holds(x) == kstage[x] \in {"started", "down"} \/ (act[1].at = "start" /\ act[1].comp = x)

NameInv ==
    /\ \A x \in Callers : Holds(x) => Name[x] \in cComponents
    /\ \A x, y \in Callers : Holds(x) /\ Holds(y) /\ Name[x] = Name[y] => x = y

\* As many callers wait for an answer as components wait for their activation.
Outstanding == {x \in Callers : pc[x] \in {"sent", "receive"}}
CountInv == Cardinality(Outstanding) = Len(queue[1]) + (IF Busy THEN 1 ELSE 0)

\* As many answers were taken as activations ended, but for the one at hand.
Took(res) == {x \in Callers : got[x] = res}
Came(res) == {x \in Callers : outcome[x] = res /\ ~Refused(x)}
AnswerInv ==
    \A res \in {"ok", "error"} :
        Cardinality(Came(res))
            = Cardinality(Took(res)) + (IF act[1].at = "answer" /\ outcome[act[1].comp] = res THEN 1 ELSE 0)

\* A call that nobody overlaps has the queue and the goroutine for itself.
Alone(x) ==
    /\ InAdd = {x}
    /\ pc[x] \in {"make", "put", "send"} => queue[1] = <<>> /\ ~Busy
    /\ pc[x] \in {"sent", "receive"} => \/ queue[1] = <<x>> /\ ~Busy
                                        \/ queue[1] = <<>> /\ act[1].comp = x
    /\ pc[x] = "test" => /\ queue[1] = <<>> /\ ~Busy
                         /\ outcome[x] # "none" /\ got[x] = outcome[x]
                         /\ maker[1] = x => err[1] = IF got[x] = "ok" THEN "nil" ELSE "error"

AloneInv == \A x \in InAdd \ overlapped : Alone(x)

OwnInv == AloneInv /\ OwnAnswer

----------------------------------------------------------------------------
(* Types, and the way of a component through the queue *)

USE ActivationAssumption DEF ChanCap, NoChan, results

LEMMA OneChan == Cardinality(Callers) \in Nat /\ Cardinality(Callers) >= 1 /\ 1 \in Chans
<1>1. Cardinality(Callers) \in Nat /\ Cardinality(Callers) # 0
  BY FS_CardinalityType, FS_EmptySet
<1> QED BY <1>1 DEF Chans

LEMMA TypeFollows == TypeInv => TypeOK
<1> SUFFICES ASSUME TypeInv PROVE TypeOK
  OBVIOUS
<1>1. made \in 0..Cardinality(Callers) /\ chan \in {NoChan} \union Chans
  BY OneChan DEF TypeInv, OneQueue
<1>2. ASSUME NEW c \in Chans PROVE Len(queue[c]) <= ChanCap
  <2>1. CASE c = 1
    BY <2>1 DEF TypeInv, QueueInv
  <2>2. CASE c # 1
    BY <2>2 DEF TypeInv, OneQueue
  <2> QED BY <2>1, <2>2
<1> QED BY <1>1, <1>2 DEF TypeInv, PlainType, Shape, ActRecords, TypeOK, ActPcs

\* What is in the queue, or waits, is a caller.
LEMMA Elements ==
    ASSUME TypeInv
    PROVE  /\ \A k \in DOMAIN queue[1] : queue[1][k] \in Callers
           /\ \A k \in DOMAIN waiting[1] : waiting[1][k] \in Callers
           /\ Busy => act[1].comp \in Callers
           /\ queue[1] \in Seq(Callers) /\ waiting[1] \in Seq(Callers)
           /\ act[1] \in ActRecords
<1>1. queue[1] \in Seq(Callers) /\ waiting[1] \in Seq(Callers) /\ act[1] \in ActRecords
  BY OneChan DEF TypeInv, Shape
<1>2. Busy => act[1].comp \in Callers
  BY <1>1 DEF TypeInv, OneQueue, ActRecords
<1> QED BY <1>1, <1>2

LEMMA ActSet ==
    ASSUME NEW f \in [Chans -> ActRecords], NEW c \in Chans, NEW s \in ActPcs,
           NEW x \in Callers \union {Nobody}
    PROVE  /\ [f EXCEPT ![c].at = s] \in [Chans -> ActRecords]
           /\ [f EXCEPT ![c].at = s, ![c].comp = x] \in [Chans -> ActRecords]
<1>1. [f EXCEPT ![c].at = s] \in [Chans -> ActRecords]
  BY DEF ActRecords
<1>2. ASSUME NEW g \in [Chans -> ActRecords]
      PROVE  [g EXCEPT ![c].comp = x] \in [Chans -> ActRecords]
  BY DEF ActRecords
<1>3. [f EXCEPT ![c].at = s, ![c].comp = x] = [[f EXCEPT ![c].at = s] EXCEPT ![c].comp = x]
  OBVIOUS
<1> QED BY <1>1, <1>2, <1>3

LEMMA TypeInit == Init => TypeInv
<1> SUFFICES ASSUME Init PROVE TypeInv
  OBVIOUS
<1>1. Shape
  BY DEF Init, Shape, ActRecords, ActPcs
<1>2. OneQueue
  BY OneChan DEF Init, OneQueue, Busy
<1>3. queue[1] = <<>> /\ waiting[1] = <<>>
  BY OneChan DEF Init
<1>4. CallerInv /\ QueueInv /\ ActInv
  BY OneChan, <1>3 DEF Init, CallerInv, QueueInv, ActInv, Busy, Unsent
<1>5. Line
  BY <1>3 DEF Line
<1>6. PlainType
  BY DEF Init, PlainType, Results
<1> QED BY <1>1, <1>2, <1>4, <1>5, <1>6 DEF TypeInv

LEMMA TypeEnter ==
    ASSUME TypeInv, FirstAlone, NEW x \in Callers, Enter(x)
    PROVE  TypeInv'
<1> USE OneChan, Elements DEF TypeInv
<1>1. UNCHANGED <<ending, chan, via, made, queue, waiting, act, err, maker, kstage, cComponents, got>>
  BY DEF Enter
<1>2. \A y \in Callers : y # x => pc'[y] = pc[y] /\ outcome'[y] = outcome[y]
  BY DEF Enter, PlainType
<1>3. pc[x] = "idle" /\ ~\E y \in Callers : pc[y] = "make"
  BY DEF Enter
<1>4. \/ Refused(x) /\ pc'[x] = "returned"
      \/ ~Refused(x) /\ pc'[x] \in {"make", "put"} /\ (pc'[x] = "make" => chan = NoChan) /\ outcome' = outcome
  BY DEF Enter, PlainType
<1>5. PlainType'
  BY <1>1 DEF Enter, PlainType, Results, InAdd
<1>6. Shape'
  BY <1>1 DEF Shape
<1>7. OneQueue'
  BY <1>1, <1>2, <1>3, <1>4 DEF OneQueue, Busy
<1>8. CallerInv'
  BY <1>1, <1>2, <1>3, <1>4 DEF CallerInv, OneQueue, Unsent, Refused
<1>10. QueueInv' /\ ActInv'
  <2>1. act[1].comp # x /\ \A k \in DOMAIN queue[1] : queue[1][k] # x
    BY <1>3 DEF CallerInv, QueueInv, Unsent
  <2>2. QueueInv'
    BY <1>1, <1>2, <2>1 DEF QueueInv, Refused
  <2>3. ActInv'
    BY <1>1, <1>2, <2>1 DEF ActInv, Busy, Refused
  <2> QED BY <2>2, <2>3
<1>9. Line'
  BY <1>1, <1>2, <1>3 DEF Line, Shape
<1> QED BY <1>5, <1>6, <1>7, <1>8, <1>9, <1>10

LEMMA TypeMake ==
    ASSUME TypeInv, FirstAlone, NEW x \in Callers, Make(x)
    PROVE  TypeInv'
<1> USE OneChan, Elements DEF TypeInv
<1>1. made = 0 /\ made' = 1 /\ chan' = 1
  BY DEF Make, OneQueue
<1>2. /\ act' = [act EXCEPT ![1].at = "spawned"]
      /\ maker' = [maker EXCEPT ![1] = x]
      /\ UNCHANGED <<ending, via, queue, waiting, err, kstage, cComponents, results, overlapped>>
  BY <1>1 DEF Make
<1>3. pc[x] = "make" /\ pc'[x] = "put" /\ \A y \in Callers : y # x => pc'[y] = pc[y] /\ pc[y] # "make"
  BY DEF Make, PlainType, OneQueue
<1>4. act[1].at = "none" /\ act'[1].at = "spawned" /\ act'[1].comp = act[1].comp
      /\ \A c \in Chans : c # 1 => act'[c] = act[c]
  BY <1>1, <1>2 DEF Shape, ActRecords, OneQueue
<1>5. PlainType'
  BY <1>2 DEF Make, PlainType
<1>6. Shape'
  <2>1. maker' \in [Chans -> Callers \union {Nobody}]
    BY <1>2 DEF Shape
  <2>2. act' \in [Chans -> ActRecords]
    BY <1>2, ActSet DEF Shape, ActPcs
  <2> QED BY <1>2, <2>1, <2>2 DEF Shape
<1>7. OneQueue'
  BY <1>1, <1>2, <1>3, <1>4 DEF OneQueue, Busy
<1>8. CallerInv'
  BY <1>1, <1>2, <1>3, <1>4 DEF CallerInv, OneQueue, Unsent, Refused
<1>10. QueueInv' /\ ActInv'
  BY <1>1, <1>2, <1>3, <1>4 DEF QueueInv, ActInv, OneQueue, CallerInv, Busy, Unsent, Shape, Refused
<1>9. Line'
  BY <1>2, <1>3 DEF Line, Shape
<1> QED BY <1>5, <1>6, <1>7, <1>8, <1>9, <1>10

LEMMA TypeLoad ==
    ASSUME TypeInv, NEW x \in Callers, Load(x)
    PROVE  TypeInv'
<1> USE OneChan, Elements DEF TypeInv
<1>1. made = 1 /\ chan = 1 /\ via' = [via EXCEPT ![x] = 1]
  BY DEF Load, OneQueue
<1>2. UNCHANGED <<ending, chan, made, queue, waiting, act, err, maker, kstage, cComponents, results,
                   overlapped>>
  BY DEF Load
<1>3. pc[x] = "put" /\ pc'[x] = "send" /\ \A y \in Callers : y # x => pc'[y] = pc[y]
  BY DEF Load, PlainType
<1>5. PlainType'
  BY <1>1, <1>2 DEF Load, PlainType
<1>6. Shape'
  BY <1>2 DEF Shape, ActPcs
<1>7. OneQueue'
  BY <1>1, <1>2, <1>3 DEF OneQueue, Busy, PlainType
<1>8. CallerInv'
  BY <1>1, <1>2, <1>3 DEF CallerInv, OneQueue, Unsent, Refused
<1>10. QueueInv' /\ ActInv'
  <2>1. QueueInv'
    BY <1>2, <1>3 DEF QueueInv, Unsent, Refused
  <2>2. ActInv'
    BY <1>2 DEF ActInv, Busy, Refused
  <2> QED BY <2>1, <2>2
<1>9. Line'
  BY <1>2, <1>3 DEF Line, Shape
<1> QED BY <1>5, <1>6, <1>7, <1>8, <1>9, <1>10

LEMMA TypeSend ==
    ASSUME TypeInv, NEW x \in Callers, Send(x)
    PROVE  TypeInv'
<1> USE OneChan, Elements DEF TypeInv
<1>1. made = 1 /\ via[x] = 1 /\ Len(queue[1]) < 1 /\ queue' = [queue EXCEPT ![1] = Append(queue[1], x)]
  BY DEF Send, OneQueue
<1>2. UNCHANGED <<ending, chan, via, made, waiting, act, err, maker, kstage, cComponents, results,
                   overlapped>>
  BY DEF Send
<1>3. pc[x] = "send" /\ pc'[x] = "sent" /\ \A y \in Callers : y # x => pc'[y] = pc[y]
  BY DEF Send, PlainType
<1>4. Len(queue[1]) = 0 /\ queue[1] \in Seq(Callers)
  BY <1>1
<1>5. queue'[1] = Append(queue[1], x) /\ Len(queue'[1]) = 1 /\ DOMAIN queue'[1] = {1} /\ queue'[1][1] = x
  BY <1>1, <1>4 DEF Shape
<1>6. PlainType'
  BY <1>2 DEF Send, PlainType
<1>7. Shape'
  BY <1>1, <1>2 DEF Shape
<1>8. OneQueue'
  BY <1>1, <1>2, <1>3 DEF OneQueue, Busy, Shape
<1>9. CallerInv'
  BY <1>2, <1>3 DEF CallerInv, Unsent, Refused
<1>10. QueueInv'
  BY <1>2, <1>3, <1>5 DEF QueueInv, CallerInv, Unsent, Refused
<1>11. ActInv'
  BY <1>2 DEF ActInv, Busy, Refused
<1>12. Line'
  BY <1>2, <1>3 DEF Line
<1> QED BY <1>6, <1>7, <1>8, <1>9, <1>10, <1>11, <1>12

LEMMA TypeReceive ==
    ASSUME TypeInv, NEW x \in Callers, Receive(x)
    PROVE  TypeInv'
<1> USE OneChan, Elements DEF TypeInv
<1>1. made = 1 /\ chan = 1 /\ waiting' = [waiting EXCEPT ![1] = Append(waiting[1], x)]
  BY DEF Receive, OneQueue
<1>2. UNCHANGED <<ending, chan, via, made, queue, act, err, maker, kstage, cComponents, results,
                   overlapped>>
  BY DEF Receive
<1>3. pc[x] = "sent" /\ pc'[x] = "receive" /\ \A y \in Callers : y # x => pc'[y] = pc[y]
  BY DEF Receive, PlainType
<1>4. waiting'[1] = Append(waiting[1], x)
  BY <1>1 DEF Shape
<1>5. \A k \in DOMAIN waiting[1] : waiting[1][k] # x
  BY <1>3 DEF Line
<1>6. PlainType'
  BY <1>2 DEF Receive, PlainType
<1>7. Shape'
  BY <1>1, <1>2 DEF Shape
<1>8. OneQueue'
  BY <1>1, <1>2, <1>3 DEF OneQueue, Busy, Shape
<1>9. CallerInv'
  BY <1>2, <1>3 DEF CallerInv, Unsent, Refused
<1>10. QueueInv'
  BY <1>2, <1>3 DEF QueueInv, Unsent, Refused
<1>11. ActInv'
  BY <1>2 DEF ActInv, Busy, Refused
<1>12. Line'
  <2> DEFINE w == waiting[1]
  <2>1. /\ DOMAIN waiting'[1] = 1..Len(w)+1 /\ waiting'[1][Len(w)+1] = x
        /\ \A k \in 1..Len(w) : waiting'[1][k] = w[k]
        /\ DOMAIN w = 1..Len(w) /\ Len(w) \in Nat
    BY <1>4, AppendProperties
  <2>2. \A k \in DOMAIN waiting'[1] : k \in DOMAIN w \/ k = Len(w) + 1
    BY <2>1
  <2>3. \A k \in DOMAIN w : waiting'[1][k] = w[k] /\ pc'[w[k]] = "receive" /\ w[k] # x
    BY <1>3, <1>5, <2>1 DEF Line
  <2>4. \A k \in DOMAIN waiting'[1] : pc'[waiting'[1][k]] = "receive"
    BY <1>3, <2>1, <2>2, <2>3
  <2>5. \A j, k \in DOMAIN waiting'[1] : waiting'[1][j] = waiting'[1][k] => j = k
    BY <2>1, <2>2, <2>3 DEF Line
  <2> QED BY <2>4, <2>5 DEF Line
<1> QED BY <1>6, <1>7, <1>8, <1>9, <1>10, <1>11, <1>12

LEMMA TypeReturn ==
    ASSUME TypeInv, NEW x \in Callers, Return(x)
    PROVE  TypeInv'
<1> USE OneChan, Elements DEF TypeInv
<1>2. UNCHANGED <<ending, chan, via, made, queue, waiting, act, err, maker, kstage, cComponents,
                   outcome, got, overlapped>>
  BY DEF Return
<1>3. pc[x] = "test" /\ pc'[x] = "returned" /\ \A y \in Callers : y # x => pc'[y] = pc[y]
  BY DEF Return, PlainType
<1>6. PlainType'
  BY <1>2 DEF Return, PlainType, Results
<1>7. Shape'
  BY <1>2 DEF Shape
<1>8. OneQueue'
  BY <1>2, <1>3 DEF OneQueue, Busy, Shape
<1>9. CallerInv'
  BY <1>2, <1>3 DEF CallerInv, Unsent, Refused
<1>10. QueueInv'
  BY <1>2, <1>3 DEF QueueInv, Unsent, Refused
<1>11. ActInv'
  BY <1>2 DEF ActInv, Busy, Refused
<1>12. Line'
  BY <1>2, <1>3 DEF Line
<1> QED BY <1>6, <1>7, <1>8, <1>9, <1>10, <1>11, <1>12

\* Only the one goroutine that was started takes steps.
LEMMA OnlyOne ==
    ASSUME TypeInv, NEW c \in Chans, ActStep(c)
    PROVE  c = 1 /\ made = 1
<1>1. act[c].at # "none"
  BY DEF ActStep, ActBegin, ActTake, ActInit, ActMap, ActStart, ActAnswer, ActMoves
<1> QED BY <1>1 DEF TypeInv, OneQueue

LEMMA TypeBegin ==
    ASSUME TypeInv, made = 1, ActBegin(1)
    PROVE  TypeInv'
<1> USE OneChan, Elements DEF TypeInv
<1>1. chan = 1 /\ act' = [act EXCEPT ![1] = [at |-> "wait", on |-> 1, comp |-> Nobody]]
  BY DEF ActBegin, OneQueue
<1>2. UNCHANGED <<ending, pc, chan, via, made, queue, waiting, err, maker, kstage, cComponents, results,
                   overlapped>>
  BY DEF ActBegin
<1>3. act'[1] = [at |-> "wait", on |-> 1, comp |-> Nobody] /\ \A c \in Chans : c # 1 => act'[c] = act[c]
  BY <1>1 DEF Shape
<1>6. PlainType'
  BY <1>2 DEF PlainType
<1>7. Shape'
  <2>1. [at |-> "wait", on |-> 1, comp |-> Nobody] \in ActRecords
    BY DEF ActRecords, ActPcs
  <2> QED BY <1>1, <1>2, <2>1 DEF Shape
<1>8. OneQueue'
  BY <1>2, <1>3 DEF OneQueue, Busy
<1>9. CallerInv'
  BY <1>2, <1>3 DEF CallerInv, Refused
<1>10. QueueInv'
  BY <1>2, <1>3 DEF QueueInv, Refused
<1>11. ActInv'
  BY <1>3 DEF ActInv, Busy
<1>12. Line'
  BY <1>2 DEF Line
<1> QED BY <1>6, <1>7, <1>8, <1>9, <1>10, <1>11, <1>12

\* The head of a queue of one element.
LEMMA QueueHead ==
    ASSUME TypeInv, queue[1] # <<>>
    PROVE  /\ Head(queue[1]) = queue[1][1] /\ 1 \in DOMAIN queue[1] /\ Head(queue[1]) \in Callers
           /\ Tail(queue[1]) = <<>> /\ Len(queue[1]) = 1
<1>1. queue[1] \in Seq(Callers) /\ Len(queue[1]) \in Nat /\ Len(queue[1]) <= 1
  BY Elements, LenProperties DEF TypeInv, QueueInv
<1>2. Len(queue[1]) = 1
  <2>1. Len(queue[1]) # 0
    BY <1>1, EmptySeq
  <2>2. \A n \in Nat : n <= 1 /\ n # 0 => n = 1
    OBVIOUS
  <2> QED BY <1>1, <2>1, <2>2
<1>3. Head(queue[1]) = queue[1][1] /\ 1 \in DOMAIN queue[1]
  BY <1>1, <1>2
<1>4. Tail(queue[1]) \in Seq(Callers) /\ Len(Tail(queue[1])) = 0
  BY <1>1, <1>2
<1>5. Tail(queue[1]) = <<>>
  BY <1>4, EmptySeq
<1> QED BY <1>2, <1>3, <1>5, Elements

LEMMA TypeTake ==
    ASSUME TypeInv, made = 1, ActTake(1)
    PROVE  TypeInv'
<1> USE OneChan, Elements DEF TypeInv
<1> DEFINE x == queue[1][1]
<1>1. act[1].at = "wait" /\ act[1].on = 1 /\ queue[1] # <<>>
  BY DEF ActTake, OneQueue
<1>2. /\ x \in Callers /\ 1 \in DOMAIN queue[1]
      /\ act' = [act EXCEPT ![1].at = "init", ![1].comp = x]
      /\ queue' = [queue EXCEPT ![1] = <<>>]
  BY <1>1, QueueHead DEF ActTake
<1>3. UNCHANGED <<ending, pc, chan, via, made, waiting, err, maker, kstage, cComponents, results,
                   overlapped>>
  BY DEF ActTake
<1>4. /\ act'[1].at = "init" /\ act'[1].comp = x /\ act'[1].on = act[1].on
      /\ \A c \in Chans : c # 1 => act'[c] = act[c] /\ queue'[c] = queue[c]
      /\ queue'[1] = <<>>
  BY <1>2 DEF Shape, ActRecords
<1>5. /\ pc[x] \notin Unsent /\ kstage[x] = "new" /\ outcome[x] = "none" /\ ~Refused(x)
      /\ x # Nobody
  BY <1>2 DEF QueueInv
<1>6. PlainType'
  BY <1>3 DEF PlainType
<1>7. Shape'
  <2>0. "init" \in ActPcs /\ act \in [Chans -> ActRecords]
    BY DEF ActPcs, Shape
  <2>1. act' \in [Chans -> ActRecords]
    BY <1>2, <2>0, ActSet
  <2>2. queue' \in [Chans -> Seq(Callers)]
    BY <1>2 DEF Shape
  <2> QED BY <1>3, <2>1, <2>2 DEF Shape
<1>8. OneQueue'
  BY <1>1, <1>3, <1>4, <1>5 DEF OneQueue, Busy
<1>9. CallerInv'
  BY <1>3, <1>4, <1>5 DEF CallerInv, Refused
<1>10. QueueInv'
  BY <1>4 DEF QueueInv
<1>11. ActInv'
  BY <1>3, <1>4, <1>5 DEF ActInv, Busy, Refused
<1>12. Line'
  BY <1>3 DEF Line
<1> QED BY <1>6, <1>7, <1>8, <1>9, <1>10, <1>11, <1>12

\* An FSM call or the look into the map: the goroutine moves on, and has an
\* outcome when it is to answer.
LEMMA TypeMoves ==
    ASSUME TypeInv, made = 1,
           NEW from \in {"init", "map", "start"}, NEW at \in {"map", "start", "answer"},
           NEW s \in {"initialized", "aborted", "started"},
           ActMoves(1, from, at, s),
           \/ at # "answer" /\ s = "initialized" /\ outcome' = outcome
           \/ at = "answer" /\ \E res \in {"ok", "error"} : Concludes(1, res),
           err' = [err EXCEPT ![1] = "nil"] \/ err' = [err EXCEPT ![1] = "error"]
    PROVE  TypeInv'
<1> USE OneChan, Elements DEF TypeInv
<1> DEFINE x == act[1].comp
<1>1. act[1].at = from /\ x \in Callers /\ act[1].on = 1 /\ outcome[x] = "none"
  BY DEF ActMoves, Busy, OneQueue, ActInv
<1>2. /\ act' = [act EXCEPT ![1].at = at] /\ kstage' = [kstage EXCEPT ![x] = s]
      /\ UNCHANGED <<ending, pc, chan, via, made, queue, waiting, maker, got, answer, overlapped>>
  BY DEF ActMoves
<1>3. /\ act'[1].at = at /\ act'[1].comp = x /\ act'[1].on = act[1].on
      /\ \A c \in Chans : c # 1 => act'[c] = act[c]
  BY <1>2 DEF Shape, ActRecords
<1>4. kstage'[x] = s /\ \A y \in Callers : y # x => kstage'[y] = kstage[y]
  BY <1>1, <1>2 DEF PlainType
<1>5. /\ \A y \in Callers : y # x => outcome'[y] = outcome[y]
      /\ at # "answer" => outcome'[x] = "none" /\ s = "initialized"
      /\ at = "answer" => outcome'[x] \in {"ok", "error"}
      /\ outcome' \in [Callers -> Results]
  BY <1>1 DEF PlainType, Concludes, Results
<1>6. PlainType'
  BY <1>1, <1>2, <1>5 DEF PlainType
<1>7. Shape'
  <2>1. at \in ActPcs /\ act \in [Chans -> ActRecords]
    BY DEF ActPcs, Shape
  <2>2. act' \in [Chans -> ActRecords]
    BY <1>2, <2>1, ActSet
  <2>3. err' \in [Chans -> {"nil", "error"}]
    BY DEF Shape
  <2> QED BY <1>2, <2>2, <2>3 DEF Shape
<1>8. OneQueue'
  BY <1>1, <1>2, <1>3 DEF OneQueue, Busy
<1>9. CallerInv'
  BY <1>2, <1>3, <1>4, <1>5 DEF CallerInv, Refused
<1>10. QueueInv'
  BY <1>2, <1>3, <1>4, <1>5 DEF QueueInv, Refused
<1>11. ActInv'
  BY <1>1, <1>3, <1>4, <1>5 DEF ActInv, Busy, Refused
<1>12. Line'
  BY <1>2 DEF Line
<1> QED BY <1>6, <1>7, <1>8, <1>9, <1>10, <1>11, <1>12

\* The caller that has waited longest, and the others.
LEMMA LineHead ==
    ASSUME TypeInv, waiting[1] # <<>>
    PROVE  LET x == Head(waiting[1]) IN
           /\ x \in Callers /\ pc[x] = "receive" /\ Tail(waiting[1]) \in Seq(Callers)
           /\ \A k \in DOMAIN Tail(waiting[1]) : /\ Tail(waiting[1])[k] # x
                                                 /\ pc[Tail(waiting[1])[k]] = "receive"
           /\ \A j, k \in DOMAIN Tail(waiting[1]) : Tail(waiting[1])[j] = Tail(waiting[1])[k] => j = k
<1> DEFINE w == waiting[1]
<1>1. w \in Seq(Callers) /\ w # <<>>
  BY Elements
<1>2. /\ Head(w) \in Callers /\ Tail(w) \in Seq(Callers) /\ Len(Tail(w)) = Len(w)-1
      /\ \A k \in 1..Len(Tail(w)) : Tail(w)[k] = w[k+1]
  BY <1>1, HeadTailProperties
<1>3. Len(w) \in Nat /\ Len(w) # 0
  BY <1>1, EmptySeq
<1>4. Head(w) = w[1] /\ 1 \in DOMAIN w /\ DOMAIN w = 1..Len(w)
  BY <1>1, <1>3
<1>5. DOMAIN Tail(w) = 1..(Len(w) - 1)
  BY <1>2, <1>3
<1>6. \A k \in DOMAIN Tail(w) : k \in Nat /\ k+1 \in DOMAIN w /\ k+1 # 1 /\ Tail(w)[k] = w[k+1]
  BY <1>2, <1>3, <1>4, <1>5
<1>7. \A j, k \in DOMAIN w : w[j] = w[k] => j = k
  BY DEF TypeInv, Line
<1>8. \A k \in DOMAIN w : pc[w[k]] = "receive"
  BY DEF TypeInv, Line
<1>9. \A k \in DOMAIN Tail(w) : Tail(w)[k] # Head(w)
  BY <1>4, <1>6, <1>7
<1>10. \A j, k \in DOMAIN Tail(w) : Tail(w)[j] = Tail(w)[k] => j = k
  <2> SUFFICES ASSUME NEW j \in DOMAIN Tail(w), NEW k \in DOMAIN Tail(w), Tail(w)[j] = Tail(w)[k]
               PROVE  j = k
    OBVIOUS
  <2>1. j+1 = k+1
    BY <1>6, <1>7
  <2> QED BY <1>6, <2>1
<1> QED BY <1>2, <1>4, <1>6, <1>8, <1>9, <1>10

LEMMA TypeAnswer ==
    ASSUME TypeInv, made = 1, ActAnswer(1)
    PROVE  TypeInv'
<1> USE OneChan, Elements DEF TypeInv
<1> DEFINE x == Head(waiting[1])
           res == outcome[act[1].comp]
<1>1. x \in Callers /\ pc[x] = "receive"
  BY LineHead DEF ActAnswer
<1>2. /\ act' = [act EXCEPT ![1].at = "wait", ![1].comp = Nobody]
      /\ waiting' = [waiting EXCEPT ![1] = Tail(waiting[1])]
      /\ got' = [got EXCEPT ![x] = res] /\ pc' = [pc EXCEPT ![x] = "test"]
      /\ err' = [d \in Chans |-> IF d \in Shares(x) THEN IF res = "ok" THEN "nil" ELSE "error"
                                 ELSE err[d]]
      /\ UNCHANGED <<ending, chan, via, made, queue, maker, kstage, cComponents, outcome, answer,
                   overlapped>>
  BY DEF ActAnswer
<1>3. /\ act'[1].at = "wait" /\ act'[1].comp = Nobody /\ act'[1].on = act[1].on
      /\ \A c \in Chans : c # 1 => act'[c] = act[c]
  BY <1>2 DEF Shape, ActRecords
<1>4. pc'[x] = "test" /\ \A y \in Callers : y # x => pc'[y] = pc[y] /\ got'[y] = got[y]
  BY <1>1, <1>2 DEF PlainType
<1>5. act[1].at = "answer" /\ act[1].comp \in Callers /\ act[1].on = 1
  BY DEF ActAnswer, Busy, OneQueue
<1>6. PlainType'
  BY <1>1, <1>2, <1>5 DEF PlainType, Results
<1>7. Shape'
  <2>1. "wait" \in ActPcs /\ act \in [Chans -> ActRecords]
    BY DEF ActPcs, Shape
  <2>2. act' \in [Chans -> ActRecords]
    BY <1>2, <2>1, ActSet
  <2>3. err' \in [Chans -> {"nil", "error"}]
    BY <1>2 DEF Shape
  <2>4. waiting' \in [Chans -> Seq(Callers)]
    BY <1>2, LineHead DEF Shape, ActAnswer
  <2> QED BY <1>2, <2>2, <2>3, <2>4 DEF Shape
<1>8. OneQueue'
  <2>1. UNCHANGED <<chan, via, made, queue>>
    BY <1>2
  <2>2. \A y \in Callers : pc'[y] = pc[y] \/ pc'[y] = "test"
    BY <1>4
  <2> QED BY <1>3, <1>5, <2>1, <2>2 DEF OneQueue, Busy
<1>9. CallerInv'
  BY <1>1, <1>2, <1>3, <1>4 DEF CallerInv, Refused, Unsent
<1>10. QueueInv'
  BY <1>2, <1>3, <1>4 DEF QueueInv, Refused, Unsent
<1>11. ActInv'
  BY <1>3 DEF ActInv, Busy
<1>12. Line'
  <2>1. waiting'[1] = Tail(waiting[1])
    BY <1>2 DEF Shape
  <2>2. /\ \A k \in DOMAIN Tail(waiting[1]) : /\ Tail(waiting[1])[k] # x
                                                /\ pc[Tail(waiting[1])[k]] = "receive"
        /\ \A j, k \in DOMAIN Tail(waiting[1]) : Tail(waiting[1])[j] = Tail(waiting[1])[k] => j = k
        /\ \A k \in DOMAIN Tail(waiting[1]) : Tail(waiting[1])[k] \in Callers
    BY LineHead DEF ActAnswer
  <2> QED BY <1>4, <2>1, <2>2 DEF Line
<1> QED BY <1>6, <1>7, <1>8, <1>9, <1>10, <1>11, <1>12

LEMMA TypeAct ==
    ASSUME TypeInv, NEW c \in Chans, ActStep(c)
    PROVE  TypeInv'
<1>1. c = 1 /\ made = 1
  BY OnlyOne
<1>2. CASE ActInit(1)
  BY <1>1, <1>2, TypeMoves DEF ActInit
<1>3. CASE ActMap(1)
  <2>1. kstage[act[1].comp] = "initialized"
    BY <1>3 DEF ActMap, TypeInv, ActInv
  <2> QED BY <1>1, <1>3, <2>1, TypeMoves DEF ActMap
<1>4. CASE ActStart(1)
  BY <1>1, <1>4, TypeMoves DEF ActStart
<1> QED BY <1>1, <1>2, <1>3, <1>4, TypeBegin, TypeTake, TypeAnswer DEF ActStep

\* A component that stops or is removed has left the queue and the goroutine.
LEMMA TypeRest ==
    ASSUME TypeInv, \/ \E x \in Callers : StopComponent(x) \/ removeComponent(x)
                    \/ BeginStop
                    \/ UNCHANGED vars
    PROVE  TypeInv'
<1> USE OneChan, Elements DEF TypeInv
<1>1. CASE BeginStop \/ UNCHANGED vars
  <2>1. UNCHANGED <<pc, chan, via, made, queue, waiting, act, err, maker, kstage, cComponents, results,
                    overlapped>> /\ ending' \in BOOLEAN
    BY <1>1 DEF BeginStop, vars, PlainType
  <2>2. PlainType' /\ Shape' /\ OneQueue' /\ Line'
    BY <2>1 DEF PlainType, Shape, OneQueue, Busy, Line
  <2>3. CallerInv' /\ QueueInv' /\ ActInv'
    BY <2>1 DEF CallerInv, QueueInv, ActInv, Refused, Busy
  <2> QED BY <2>2, <2>3
<1>2. ASSUME NEW x \in Callers, StopComponent(x) \/ removeComponent(x)
      PROVE  TypeInv'
  <2>1. /\ UNCHANGED <<ending, pc, chan, via, made, queue, waiting, act, err, maker, results, overlapped>>
        /\ kstage[x] \in {"started", "down"}
        /\ kstage' = [kstage EXCEPT ![x] = "down"] \/ kstage' = [kstage EXCEPT ![x] = "gone"]
    BY <1>2 DEF StopComponent, removeComponent
  <2>2. \A y \in Callers : y # x => kstage'[y] = kstage[y]
    BY <2>1 DEF PlainType
  <2>3. PlainType' /\ Shape' /\ OneQueue' /\ Line'
    BY <2>1 DEF PlainType, Shape, OneQueue, Busy, Line
  <2>4. CallerInv'
    BY <2>1, <2>2 DEF CallerInv, Refused
  <2>5. QueueInv'
    BY <2>1, <2>2 DEF QueueInv, Refused
  <2>6. ActInv'
    BY <2>1, <2>2 DEF ActInv, Refused, Busy
  <2> QED BY <2>3, <2>4, <2>5, <2>6
<1> QED BY <1>1, <1>2

LEMMA TypeStep == FirstAlone /\ TypeInv /\ [Next]_vars => TypeInv'
BY TypeEnter, TypeMake, TypeLoad, TypeSend, TypeReceive, TypeReturn, TypeAct, TypeRest
   DEF Next, CallerStep

\* Every variable keeps its type and no queue holds more than its capacity, if
\* the first call of Add has made the channels before the second begins.
THEOREM TypeCorrect == FirstAlone => (Spec => []TypeOK)
<1> SUFFICES ASSUME FirstAlone PROVE Spec => []TypeOK
  OBVIOUS
<1>1. TypeInv /\ [Next]_vars => TypeInv'
  BY TypeStep
<1> QED BY <1>1, TypeInit, TypeFollows, PTL DEF Spec

----------------------------------------------------------------------------
(* Names *)

\* Nobody else touches the stages, the map and the goroutine's place.
LEMMA NameStill ==
    ASSUME TypeInv, NameInv, UNCHANGED <<kstage, cComponents>>,
           act'[1].at # "start" \/ act' = act
    PROVE  NameInv'
BY DEF NameInv, Holds

LEMMA NameStep == TypeInv /\ NameInv /\ [Next]_vars => NameInv'
<1> SUFFICES ASSUME TypeInv, NameInv, [Next]_vars PROVE NameInv'
  OBVIOUS
<1> USE OneChan, Elements
<1>1. CASE \E x \in Callers : Enter(x) \/ Load(x) \/ Send(x) \/ Receive(x) \/ Return(x)
  BY <1>1, NameStill DEF Enter, Load, Send, Receive, Return
<1>2. ASSUME NEW x \in Callers, Make(x) PROVE NameInv'
  <2>1. act'[1].at \in {act[1].at, "spawned"} /\ UNCHANGED <<kstage, cComponents>> /\ act[1].at = "none"
    BY <1>2 DEF Make, TypeInv, Shape, ActRecords, OneQueue
  <2> QED BY <2>1, NameStill
<1>3. ASSUME NEW x \in Callers, StopComponent(x) PROVE NameInv'
  <2>1. /\ kstage[x] = "started" /\ kstage'[x] = "down" /\ UNCHANGED <<act, cComponents>>
        /\ \A y \in Callers : y # x => kstage'[y] = kstage[y]
    BY <1>3 DEF StopComponent, TypeInv, PlainType
  <2> QED BY <2>1 DEF NameInv, Holds
<1>4. ASSUME NEW x \in Callers, removeComponent(x) PROVE NameInv'
  <2>1. /\ kstage[x] = "down" /\ kstage'[x] = "gone" /\ act' = act
        /\ cComponents' = cComponents \ {Name[x]}
        /\ \A y \in Callers : y # x => kstage'[y] = kstage[y]
    BY <1>4 DEF removeComponent, TypeInv, PlainType
  <2>2. ~(act[1].at = "start" /\ act[1].comp = x)
    BY <2>1 DEF TypeInv, ActInv
  <2>3. ~Holds(x)' /\ \A y \in Callers : y # x => (Holds(y)' <=> Holds(y))
    BY <2>1, <2>2 DEF Holds
  <2> QED BY <2>1, <2>3 DEF NameInv, Holds
<1>5. CASE \E c \in Chans : ActStep(c)
  <2>1. made = 1 /\ ActStep(1)
    BY <1>5, OnlyOne
  <2> DEFINE x == act[1].comp
  <2>2. CASE ActBegin(1) \/ ActTake(1) \/ ActAnswer(1)
    <3>1. act'[1].at \in {"wait", "init"} /\ UNCHANGED <<kstage, cComponents>>
      BY <2>2 DEF ActBegin, ActTake, ActAnswer, TypeInv, Shape, ActRecords
    <3> QED BY <3>1, NameStill
  <2>3. CASE ActInit(1) \/ ActMap(1) \/ ActStart(1)
    <3>1. Busy /\ x \in Callers /\ kstage[x] \in {"new", "initialized"}
      BY <2>3 DEF ActInit, ActMap, ActStart, ActMoves, Busy, TypeInv, ActInv
    <3>2. act'[1].comp = x /\ \A y \in Callers : y # x => kstage'[y] = kstage[y]
      BY <2>3, <3>1 DEF ActInit, ActMap, ActStart, ActMoves, TypeInv, PlainType, Shape, ActRecords
    <3>3. \A y \in Callers : y # x => (Holds(y)' <=> kstage[y] \in {"started", "down"})
                                      /\ (Holds(y) <=> kstage[y] \in {"started", "down"})
      BY <3>2 DEF Holds
    <3>4. CASE ActInit(1)
      <4>1. kstage'[x] \in {"initialized", "aborted"} /\ act'[1].at # "start" /\ cComponents' = cComponents
        BY <3>1, <3>4 DEF ActInit, ActMoves, TypeInv, PlainType, Shape, ActRecords
      <4> QED BY <3>1, <3>3, <4>1 DEF NameInv, Holds
    <3>5. CASE ActMap(1)
      <4>1. kstage'[x] = "initialized" /\ cComponents \subseteq cComponents'
        BY <3>1, <3>5 DEF ActMap, ActMoves, TypeInv, PlainType, ActInv
      <4>2. act'[1].at = "start" => Name[x] \notin cComponents /\ Name[x] \in cComponents'
        BY <3>1, <3>5 DEF ActMap, ActMoves, TypeInv, PlainType, Shape, ActRecords
      <4> QED BY <3>1, <3>3, <4>1, <4>2 DEF NameInv, Holds
    <3>6. CASE ActStart(1)
      <4>1. Holds(x) /\ cComponents' = cComponents
        BY <3>1, <3>6 DEF ActStart, ActMoves, Holds
      <4> QED BY <3>1, <3>3, <4>1 DEF NameInv
    <3> QED BY <2>3, <3>4, <3>5, <3>6
  <2> QED BY <2>1, <2>2, <2>3 DEF ActStep
<1>6. CASE BeginStop \/ UNCHANGED vars
  BY <1>6, NameStill DEF BeginStop, vars
<1> QED BY <1>1, <1>2, <1>3, <1>4, <1>5, <1>6 DEF Next, CallerStep

\* Two components of one name never run at the same time, however the calls of
\* Add, the ends of components and their removals from the map interleave.
THEOREM NamesAreUnique == FirstAlone => (Spec => []OneOfAName)
<1> SUFFICES ASSUME FirstAlone PROVE Spec => []OneOfAName
  OBVIOUS
<1>1. Init => TypeInv /\ NameInv
  BY TypeInit, OneChan DEF Init, NameInv, Holds
<1>2. TypeInv /\ NameInv /\ [Next]_vars => TypeInv' /\ NameInv'
  BY TypeStep, NameStep
<1>3. NameInv => OneOfAName
  BY DEF NameInv, OneOfAName, Holds
<1> QED BY <1>1, <1>2, <1>3, PTL DEF Spec

----------------------------------------------------------------------------
(* Counting callers and answers *)

LEMMA Finite ==
    ASSUME NEW S \in SUBSET Callers
    PROVE  IsFiniteSet(S) /\ Cardinality(S) \in Nat
BY FS_Subset, FS_CardinalityType

LEMMA CountStill ==
    ASSUME CountInv, Outstanding' = Outstanding, queue'[1] = queue[1], Busy' <=> Busy
    PROVE  CountInv'
BY DEF CountInv

LEMMA CountStep == TypeInv /\ CountInv /\ [Next]_vars => CountInv'
<1> SUFFICES ASSUME TypeInv, CountInv, [Next]_vars PROVE CountInv'
  OBVIOUS
<1> USE OneChan, Elements
<1>0. IsFiniteSet(Outstanding) /\ Cardinality(Outstanding) \in Nat /\ Len(queue[1]) \in Nat
  BY Finite, LenProperties DEF Outstanding
<1>1. CASE \E x \in Callers : Enter(x) \/ Make(x) \/ Load(x) \/ Receive(x) \/ Return(x)
                               \/ StopComponent(x) \/ removeComponent(x)
  <2>1. PICK x \in Callers : Enter(x) \/ Make(x) \/ Load(x) \/ Receive(x) \/ Return(x)
                               \/ StopComponent(x) \/ removeComponent(x)
    BY <1>1
  <2>2. queue' = queue
    BY <2>1 DEF Enter, Make, Load, Receive, Return, StopComponent, removeComponent
  <2>5. /\ \A y \in Callers : y # x => pc'[y] = pc[y]
        /\ pc'[x] \in {"sent", "receive"} <=> pc[x] \in {"sent", "receive"}
    <3>1. CASE Enter(x) \/ Make(x) \/ Load(x)
      BY <3>1 DEF Enter, Make, Load, TypeInv, PlainType
    <3>2. CASE Receive(x) \/ Return(x)
      BY <3>2 DEF Receive, Return, TypeInv, PlainType
    <3>3. CASE StopComponent(x) \/ removeComponent(x)
      BY <3>3 DEF StopComponent, removeComponent
    <3> QED BY <2>1, <3>1, <3>2, <3>3
  <2>3. Busy' <=> Busy
    <3>1. CASE Make(x)
      BY <3>1 DEF Make, TypeInv, Shape, ActRecords, OneQueue, Busy
    <3>2. CASE ~Make(x)
      BY <2>1, <3>2 DEF Enter, Load, Receive, Return, StopComponent, removeComponent, Busy
    <3> QED BY <3>1, <3>2
  <2>4. Outstanding' = Outstanding
    BY <2>5 DEF Outstanding
  <2> QED BY <2>2, <2>3, <2>4, CountStill
<1>2. ASSUME NEW x \in Callers, Send(x) PROVE CountInv'
  <2>1. /\ Len(queue[1]) = 0 /\ queue'[1] = Append(queue[1], x) /\ act' = act
        /\ pc[x] = "send" /\ pc'[x] = "sent" /\ \A y \in Callers : y # x => pc'[y] = pc[y]
    BY <1>2 DEF Send, TypeInv, PlainType, Shape, OneQueue
  <2>2. x \notin Outstanding /\ Outstanding' = Outstanding \union {x}
    BY <2>1 DEF Outstanding
  <2>3. Cardinality(Outstanding') = Cardinality(Outstanding) + 1
    BY <1>0, <2>2, FS_AddElement
  <2>4. Len(queue'[1]) = Len(queue[1]) + 1
    BY <2>1, AppendProperties
  <2>5. Busy' <=> Busy
    BY <2>1 DEF Busy
  <2>6. ASSUME NEW k \in {0, 1}, Cardinality(Outstanding) = Len(queue[1]) + k
        PROVE  Cardinality(Outstanding') = Len(queue'[1]) + k
    <3>1. \A a, b \in Nat : a = b + k => a + 1 = (b + 1) + k
      OBVIOUS
    <3> QED BY <1>0, <2>3, <2>4, <2>6, <3>1
  <2> QED BY <2>5, <2>6 DEF CountInv
<1>3. CASE \E c \in Chans : ActStep(c)
  <2>1. made = 1 /\ ActStep(1)
    BY <1>3, OnlyOne
  <2>2. CASE ActBegin(1) \/ ActInit(1) \/ ActMap(1) \/ ActStart(1)
    <3>1. UNCHANGED <<pc, queue>>
      BY <2>2 DEF ActBegin, ActInit, ActMap, ActStart, ActMoves
    <3>2. Busy' <=> Busy
      BY <2>2 DEF ActBegin, ActInit, ActMap, ActStart, ActMoves, Busy, TypeInv, Shape, ActRecords
    <3> QED BY <3>1, <3>2, CountStill DEF Outstanding
  <2>3. CASE ActTake(1)
    <3>1. ~Busy /\ Busy' /\ pc' = pc /\ act[1].on = 1
      BY <2>3 DEF ActTake, Busy, TypeInv, Shape, ActRecords, OneQueue
    <3>2. queue'[1] = Tail(queue[1]) /\ Len(queue[1]) = 1 /\ Len(Tail(queue[1])) = 0
      BY <2>3, <3>1, QueueHead DEF ActTake, TypeInv, Shape
    <3>3. Outstanding' = Outstanding
      BY <3>1 DEF Outstanding
    <3> QED BY <1>0, <3>1, <3>2, <3>3 DEF CountInv
  <2>4. CASE ActAnswer(1)
    <3> DEFINE x == Head(waiting[1])
    <3>1. x \in Callers /\ pc[x] = "receive"
      BY <2>4, LineHead DEF ActAnswer
    <3>2. /\ pc'[x] = "test" /\ \A y \in Callers : y # x => pc'[y] = pc[y]
          /\ queue' = queue /\ Busy /\ ~Busy'
      BY <2>4, <3>1 DEF ActAnswer, Busy, TypeInv, PlainType, Shape, ActRecords
    <3>3. x \in Outstanding /\ Outstanding' = Outstanding \ {x}
      BY <3>1, <3>2 DEF Outstanding
    <3>4. Cardinality(Outstanding') = Cardinality(Outstanding) - 1
      BY <1>0, <3>3, FS_RemoveElement
    <3> QED BY <1>0, <3>2, <3>4 DEF CountInv
  <2> QED BY <2>1, <2>2, <2>3, <2>4 DEF ActStep
<1>4. CASE BeginStop \/ UNCHANGED vars
  BY <1>4, CountStill DEF BeginStop, vars, Outstanding, Busy
<1> QED BY <1>1, <1>2, <1>3, <1>4 DEF Next, CallerStep

\* The answer at hand, if it is res.
AtHand(res) == IF act[1].at = "answer" /\ outcome[act[1].comp] = res THEN 1 ELSE 0

LEMMA AnswerStill ==
    ASSUME AnswerInv, \A res \in {"ok", "error"} : /\ Came(res)' = Came(res) /\ Took(res)' = Took(res)
                                                   /\ AtHand(res)' = AtHand(res)
    PROVE  AnswerInv'
BY DEF AnswerInv, AtHand

\* The goroutine comes to an outcome, for a component that had none.
LEMMA AnswerConcludes ==
    ASSUME TypeInv, AnswerInv, NEW r \in {"ok", "error"}, Concludes(1, r),
           act[1].at \in {"init", "map", "start"}, act'[1].at = "answer",
           act'[1].comp = act[1].comp, got' = got
    PROVE  AnswerInv'
<1> USE OneChan, Elements
<1> DEFINE x == act[1].comp
<1>1. x \in Callers /\ outcome[x] = "none" /\ ~Refused(x)
  BY DEF Busy, TypeInv, ActInv
<1>2. outcome'[x] = r /\ \A y \in Callers : y # x => outcome'[y] = outcome[y]
  BY <1>1 DEF Concludes, TypeInv, PlainType
<1> SUFFICES ASSUME NEW res \in {"ok", "error"}
             PROVE  Cardinality(Came(res)') = Cardinality(Took(res)') + AtHand(res)'
  BY DEF AnswerInv, AtHand
<1>3. /\ Cardinality(Came(res)) = Cardinality(Took(res)) + AtHand(res)
      /\ AtHand(res) = 0 /\ Took(res)' = Took(res)
  BY DEF AnswerInv, AtHand, Took
<1>4. CASE res = r
  <2>1. x \notin Came(res) /\ Came(res)' = Came(res) \union {x}
    BY <1>1, <1>2, <1>4 DEF Came, Refused
  <2>2. Cardinality(Came(res)') = Cardinality(Came(res)) + 1
    BY <2>1, Finite, FS_AddElement DEF Came
  <2>3. AtHand(res)' = 1
    BY <1>2, <1>4 DEF AtHand
  <2> QED BY <1>3, <2>2, <2>3, Finite DEF Took
<1>5. CASE res # r
  <2>1. Came(res)' = Came(res)
    BY <1>1, <1>2, <1>5 DEF Came, Refused
  <2>2. AtHand(res)' = 0
    BY <1>2, <1>5 DEF AtHand
  <2> QED BY <1>3, <2>1, <2>2
<1> QED BY <1>4, <1>5

LEMMA AnswerStep == TypeInv /\ AnswerInv /\ [Next]_vars => AnswerInv'
<1> SUFFICES ASSUME TypeInv, AnswerInv, [Next]_vars PROVE AnswerInv'
  OBVIOUS
<1> USE OneChan, Elements
<1>1. CASE \/ \E x \in Callers : Load(x) \/ Send(x) \/ Receive(x) \/ Return(x)
                                 \/ StopComponent(x) \/ removeComponent(x)
           \/ BeginStop \/ UNCHANGED vars
  <2>1. UNCHANGED <<outcome, got, act>>
    BY <1>1 DEF Load, Send, Receive, Return, StopComponent, removeComponent, BeginStop, vars
  <2> QED BY <2>1, AnswerStill DEF Came, Took, AtHand, Refused
<1>2. ASSUME NEW x \in Callers, Enter(x) PROVE AnswerInv'
  <2>1. /\ UNCHANGED <<got, act>> /\ pc[x] = "idle"
        /\ outcome' = outcome \/ Refused(x)
        /\ \A y \in Callers : y # x => outcome'[y] = outcome[y]
    BY <1>2 DEF Enter, TypeInv, PlainType
  <2>2. act[1].comp # x
    BY <2>1 DEF TypeInv, CallerInv, Unsent
  <2>3. act[1].at = "answer" => act[1].comp \in Callers
    BY DEF Busy
  <2>4. \A res \in {"ok", "error"} : AtHand(res)' = AtHand(res)
    BY <2>1, <2>2, <2>3 DEF AtHand
  <2>5. \A res \in {"ok", "error"} : Came(res)' = Came(res) /\ Took(res)' = Took(res)
    BY <2>1 DEF Came, Took, Refused
  <2> QED BY <2>4, <2>5, AnswerStill
<1>3. ASSUME NEW x \in Callers, Make(x) PROVE AnswerInv'
  <2>1. UNCHANGED <<outcome, got>> /\ act[1].at = "none" /\ act'[1].at # "answer"
    BY <1>3 DEF Make, TypeInv, Shape, ActRecords, OneQueue
  <2> QED BY <2>1, AnswerStill DEF Came, Took, AtHand, Refused
<1>4. CASE \E c \in Chans : ActStep(c)
  <2>1. made = 1 /\ ActStep(1)
    BY <1>4, OnlyOne
  <2>2. CASE ActBegin(1) \/ ActTake(1)
    <3>1. UNCHANGED <<outcome, got>> /\ act[1].at # "answer" /\ act'[1].at # "answer"
      BY <2>2 DEF ActBegin, ActTake, TypeInv, Shape, ActRecords
    <3> QED BY <3>1, AnswerStill DEF Came, Took, AtHand, Refused
  <2>3. CASE ActInit(1) \/ ActMap(1) \/ ActStart(1)
    <3>1. /\ act[1].at \in {"init", "map", "start"} /\ act'[1].comp = act[1].comp /\ got' = got
          /\ \/ outcome' = outcome /\ act'[1].at # "answer"
             \/ (\E r \in {"ok", "error"} : Concludes(1, r)) /\ act'[1].at = "answer"
      BY <2>3 DEF ActInit, ActMap, ActStart, ActMoves, TypeInv, Shape, ActRecords
    <3>2. CASE outcome' = outcome /\ act'[1].at # "answer"
      BY <3>1, <3>2, AnswerStill DEF Came, Took, AtHand, Refused
    <3> QED BY <3>1, <3>2, AnswerConcludes
  <2>4. CASE ActAnswer(1)
    <3> DEFINE x == Head(waiting[1])
               r == outcome[act[1].comp]
    <3>1. x \in Callers /\ got[x] = "none"
      BY <2>4, LineHead DEF ActAnswer, TypeInv, CallerInv
    <3>2. /\ got'[x] = r /\ \A y \in Callers : y # x => got'[y] = got[y]
          /\ outcome' = outcome /\ act[1].at = "answer" /\ act'[1].at = "wait"
      BY <2>4, <3>1 DEF ActAnswer, TypeInv, PlainType, Shape, ActRecords
    <3> SUFFICES ASSUME NEW res \in {"ok", "error"}
                 PROVE  Cardinality(Came(res)') = Cardinality(Took(res)') + AtHand(res)'
      BY DEF AnswerInv, AtHand
    <3>3. /\ Cardinality(Came(res)) = Cardinality(Took(res)) + AtHand(res)
          /\ AtHand(res)' = 0 /\ Came(res)' = Came(res)
      BY <3>2 DEF AnswerInv, AtHand, Came, Refused
    <3>4. IsFiniteSet(Took(res)) /\ Cardinality(Took(res)) \in Nat
      BY Finite DEF Took
    <3>5. CASE res = r
      <4>1. x \notin Took(res) /\ Took(res)' = Took(res) \union {x}
        BY <3>1, <3>2, <3>5 DEF Took
      <4>2. Cardinality(Took(res)') = Cardinality(Took(res)) + 1
        BY <3>4, <4>1, FS_AddElement
      <4>3. AtHand(res) = 1
        BY <3>2, <3>5 DEF AtHand
      <4> QED BY <3>3, <3>4, <4>2, <4>3
    <3>6. CASE res # r
      <4>1. Took(res)' = Took(res)
        BY <3>1, <3>2, <3>6 DEF Took
      <4>2. AtHand(res) = 0
        BY <3>2, <3>6 DEF AtHand
      <4> QED BY <3>3, <4>1, <4>2
    <3> QED BY <3>5, <3>6
  <2> QED BY <2>1, <2>2, <2>3, <2>4 DEF ActStep
<1> QED BY <1>1, <1>2, <1>3, <1>4 DEF Next, CallerStep

\* However the calls overlap, the answers are only exchanged: when no call is
\* under way, as many took an error as there were activations that failed.
THEOREM AnswersAreKept == FirstAlone => (Spec => []NoAnswerLost)
<1> SUFFICES ASSUME FirstAlone PROVE Spec => []NoAnswerLost
  OBVIOUS
<1>1. Init => TypeInv /\ AnswerInv
  <2> SUFFICES ASSUME Init PROVE AnswerInv
    BY TypeInit
  <2>1. \A res \in {"ok", "error"} : Took(res) = {} /\ Came(res) = {} /\ act[1].at # "answer"
    BY OneChan DEF Init, Took, Came
  <2> QED BY <2>1, FS_EmptySet DEF AnswerInv
<1>2. TypeInv /\ AnswerInv /\ [Next]_vars => TypeInv' /\ AnswerInv'
  BY TypeStep, AnswerStep
<1>3. AnswerInv => NoAnswerLost
  <2> SUFFICES ASSUME AnswerInv, Quiet, NEW res \in {"ok", "error"}
               PROVE  Cardinality(Took(res)) = Cardinality(Came(res))
    BY DEF NoAnswerLost, Took, Came
  <2>1. act[1].at # "answer"
    BY OneChan DEF Quiet
  <2>2. Cardinality(Took(res)) \in Nat
    BY Finite DEF Took
  <2> QED BY <2>1, <2>2 DEF AnswerInv
<1> QED BY <1>1, <1>2, <1>3, PTL DEF Spec

----------------------------------------------------------------------------
(* Calls that nobody overlaps *)

\* The queue and the goroutine are idle when no call is under way.
LEMMA Idle ==
    ASSUME TypeInv, CountInv, InAdd = {}
    PROVE  queue[1] = <<>> /\ ~Busy
<1>1. Outstanding = {}
  BY DEF Outstanding, InAdd
<1>2. Cardinality(Outstanding) = 0 /\ Len(queue[1]) \in Nat /\ queue[1] \in Seq(Callers)
  BY <1>1, FS_EmptySet, Elements, LenProperties
<1>3. Len(queue[1]) = 0 /\ ~Busy
  <2>1. \A n \in Nat : n + 1 # 0 /\ (n + 0 = 0 => n = 0)
    OBVIOUS
  <2> QED BY <1>2, <2>1 DEF CountInv
<1> QED BY <1>2, <1>3, EmptySeq

LEMMA OwnEnter ==
    ASSUME TypeInv, CountInv, OwnInv, NEW x \in Callers, Enter(x)
    PROVE  OwnInv'
<1> USE OneChan, Elements
<1>1. /\ pc[x] = "idle" /\ \A y \in Callers : y # x => pc'[y] = pc[y]
      /\ UNCHANGED <<queue, act, got, err, maker>>
  BY DEF Enter, TypeInv, PlainType
<1>2. CASE Refused(x)
  <2>1. /\ pc'[x] = "returned" /\ answer'[x] = "error" /\ outcome'[x] = "error" /\ overlapped' = overlapped
        /\ \A y \in Callers : y # x => answer'[y] = answer[y] /\ outcome'[y] = outcome[y]
    BY <1>2 DEF Enter, TypeInv, PlainType
  <2>2. InAdd' = InAdd /\ x \notin InAdd
    BY <1>1, <2>1 DEF InAdd
  <2>3. AloneInv'
    BY <1>1, <2>1, <2>2 DEF OwnInv, AloneInv, Alone, Busy, InAdd
  <2>4. OwnAnswer'
    BY <1>1, <2>1 DEF OwnInv, OwnAnswer
  <2> QED BY <2>3, <2>4 DEF OwnInv
<1>3. CASE ~Refused(x)
  <2>1. /\ pc'[x] \in {"make", "put"} /\ UNCHANGED <<answer, outcome>>
        /\ overlapped' = IF InAdd = {} THEN overlapped ELSE overlapped \union InAdd \union {x}
    BY <1>3 DEF Enter, TypeInv, PlainType
  <2>2. InAdd' = InAdd \union {x}
    BY <1>1, <2>1 DEF InAdd
  <2>3. OwnAnswer'
    BY <1>1, <2>1 DEF OwnInv, OwnAnswer
  <2>4. CASE InAdd = {}
    <3>1. queue'[1] = <<>> /\ ~Busy' /\ InAdd' = {x}
      BY <1>1, <2>2, <2>4, Idle DEF Busy
    <3>2. Alone(x)'
      BY <2>1, <3>1 DEF Alone
    <3> QED BY <2>3, <3>1, <3>2 DEF OwnInv, AloneInv
  <2>5. CASE InAdd # {}
    <3>1. InAdd' \ overlapped' = {}
      BY <2>1, <2>2, <2>5
    <3> QED BY <2>3, <3>1 DEF OwnInv, AloneInv
  <2> QED BY <2>4, <2>5
<1> QED BY <1>2, <1>3

\* A call under way that goes on is the one nobody overlaps, if there is one.
LEMMA OwnCaller ==
    ASSUME TypeInv, OwnInv, NEW x \in Callers, CallerStep(x)
    PROVE  OwnInv'
<1> USE OneChan, Elements
<1>1. /\ pc[x] \notin {"idle", "returned"} /\ \A y \in Callers : y # x => pc'[y] = pc[y]
      /\ UNCHANGED <<outcome, got, err, overlapped>>
  BY DEF CallerStep, Make, Load, Send, Receive, Return, TypeInv, PlainType
<1>2. x \in InAdd
  BY <1>1 DEF InAdd
<1>3. InAdd' \subseteq InAdd
  BY <1>1 DEF InAdd
<1>4. \A y \in InAdd' \ overlapped' : y = x /\ Alone(x) /\ InAdd = {x} /\ x \notin overlapped
  BY <1>1, <1>2, <1>3 DEF OwnInv, AloneInv, Alone
<1>5. CASE Return(x)
  <2>1. /\ pc[x] = "test" /\ pc'[x] = "returned" /\ made = 1
        /\ \A y \in Callers : y # x => answer'[y] = answer[y]
        /\ answer'[x] = IF Shares(x) = {} THEN got[x]
                        ELSE IF \E c \in Shares(x) : err[c] = "error" THEN "error" ELSE "ok"
    BY <1>5 DEF Return, TypeInv, PlainType, OneQueue
  <2>2. x \notin InAdd'
    BY <2>1 DEF InAdd
  <2>3. AloneInv'
    BY <1>4, <2>2 DEF AloneInv
  <2>4. ASSUME x \notin overlapped PROVE outcome[x] # "none" /\ answer'[x] = outcome[x]
    <3>1. Alone(x) /\ got[x] \in {"none", "ok", "error"}
      BY <1>2, <2>4 DEF OwnInv, AloneInv, TypeInv, PlainType, Results
    <3>2. Shares(x) = IF maker[1] = x THEN {1} ELSE {}
      BY <2>1 DEF Shares
    <3> QED BY <2>1, <3>1, <3>2 DEF Alone
  <2>5. OwnAnswer'
    BY <1>1, <2>1, <2>4 DEF OwnInv, OwnAnswer
  <2> QED BY <2>3, <2>5 DEF OwnInv
<1>6. CASE Make(x) \/ Load(x) \/ Send(x) \/ Receive(x)
  <2>1. answer' = answer /\ pc'[x] \in {"put", "send", "sent", "receive"} /\ (Busy' <=> Busy)
        /\ act'[1].comp = act[1].comp
    <3>1. CASE Make(x)
      BY <3>1 DEF Make, TypeInv, PlainType, Shape, ActRecords, OneQueue, Busy
    <3>2. CASE Load(x) \/ Send(x) \/ Receive(x)
      BY <3>2 DEF Load, Send, Receive, TypeInv, PlainType, Busy
    <3> QED BY <1>6, <3>1, <3>2
  <2>2. OwnAnswer'
    BY <1>1, <2>1 DEF OwnInv, OwnAnswer
  <2>3. ASSUME Alone(x), InAdd = {x} PROVE Alone(x)'
    <3>1. InAdd' = {x}
      BY <1>3, <2>1, <2>3 DEF InAdd
    <3>2. CASE Make(x) \/ Load(x)
      <4>1. pc[x] \in {"make", "put"} /\ pc'[x] \in {"put", "send"} /\ queue' = queue
        BY <3>2 DEF Make, Load, TypeInv, PlainType
      <4> QED BY <2>1, <2>3, <3>1, <4>1 DEF Alone
    <3>3. CASE Send(x)
      <4>1. pc[x] = "send" /\ pc'[x] = "sent" /\ queue'[1] = Append(queue[1], x)
        BY <3>3 DEF Send, TypeInv, PlainType, OneQueue, Shape
      <4>2. queue[1] = <<>> /\ ~Busy
        BY <2>3, <4>1 DEF Alone
      <4>3. queue'[1] = <<x>>
        BY <4>1, <4>2
      <4> QED BY <2>1, <3>1, <4>1, <4>2, <4>3 DEF Alone
    <3>4. CASE Receive(x)
      <4>1. pc[x] = "sent" /\ pc'[x] = "receive" /\ queue' = queue
        BY <3>4 DEF Receive, TypeInv, PlainType
      <4> QED BY <2>1, <2>3, <3>1, <4>1 DEF Alone
    <3> QED BY <1>6, <3>2, <3>3, <3>4
  <2> QED BY <1>4, <2>2, <2>3 DEF OwnInv, AloneInv
<1> QED BY <1>5, <1>6 DEF CallerStep

LEMMA OwnAct ==
    ASSUME TypeInv, OwnInv, made = 1, ActStep(1)
    PROVE  OwnInv'
<1> USE OneChan, Elements
<1>1. UNCHANGED <<answer, overlapped, maker>>
  BY DEF ActStep, ActBegin, ActTake, ActInit, ActMap, ActStart, ActAnswer, ActMoves
<1>2. CASE ActBegin(1)
  <2>1. /\ UNCHANGED <<pc, queue, outcome, got, err>> /\ (Busy' <=> Busy) /\ act'[1].comp = Nobody
        /\ ~Busy /\ act[1].comp = Nobody
    BY <1>2 DEF ActBegin, Busy, TypeInv, Shape, ActRecords, OneQueue
  <2> QED BY <1>1, <2>1 DEF OwnInv, OwnAnswer, AloneInv, Alone, InAdd
<1>3. CASE ActTake(1)
  <2>1. /\ UNCHANGED <<pc, outcome, got, err>> /\ ~Busy /\ Busy' /\ act[1].comp = Nobody /\ queue[1] # <<>>
        /\ act'[1].comp = queue[1][1] /\ queue'[1] = <<>>
    BY <1>3, QueueHead DEF ActTake, Busy, TypeInv, Shape, ActRecords, OneQueue
  <2>2. OwnAnswer'
    BY <1>1, <2>1 DEF OwnInv, OwnAnswer
  <2>3. ASSUME NEW y \in InAdd', y \notin overlapped' PROVE Alone(y)'
    <3>1. Alone(y) /\ y \in Callers /\ InAdd' = InAdd
      BY <1>1, <2>1, <2>3 DEF OwnInv, AloneInv, InAdd
    <3>2. pc[y] \in {"sent", "receive"} /\ queue[1] = <<y>>
      BY <2>1, <3>1 DEF Alone, TypeInv, PlainType, InAdd
    <3>3. act'[1].comp = y
      BY <2>1, <3>2
    <3> QED BY <2>1, <3>1, <3>2, <3>3 DEF Alone
  <2> QED BY <2>2, <2>3 DEF OwnInv, AloneInv
<1>4. CASE ActInit(1) \/ ActMap(1) \/ ActStart(1)
  <2>1. /\ UNCHANGED <<pc, queue, got>> /\ Busy /\ Busy' /\ act'[1].comp = act[1].comp
        /\ act[1].comp \in Callers
    BY <1>4 DEF ActInit, ActMap, ActStart, ActMoves, Busy, TypeInv, Shape, ActRecords
  <2>2. /\ \A y \in Callers : y # act[1].comp => outcome'[y] = outcome[y]
        /\ outcome[act[1].comp] = "none"
    BY <1>4, <2>1 DEF ActInit, ActMap, ActStart, ActMoves, Concludes, TypeInv, PlainType, ActInv
  <2>3. OwnAnswer'
    BY <1>1, <2>1, <2>2 DEF OwnInv, OwnAnswer
  <2>4. AloneInv'
    BY <1>1, <2>1 DEF OwnInv, AloneInv, Alone, InAdd
  <2> QED BY <2>3, <2>4 DEF OwnInv
<1>5. CASE ActAnswer(1)
  <2> DEFINE x == Head(waiting[1])
  <2>1. x \in Callers /\ pc[x] = "receive"
    BY <1>5, LineHead DEF ActAnswer
  <2>2. /\ pc'[x] = "test" /\ \A y \in Callers : y # x => pc'[y] = pc[y]
        /\ got'[x] = outcome[act[1].comp] /\ UNCHANGED <<queue, outcome>> /\ Busy /\ ~Busy'
    BY <1>5, <2>1 DEF ActAnswer, Busy, TypeInv, PlainType, Shape, ActRecords
  <2>3. outcome[act[1].comp] # "none"
    BY <1>5 DEF ActAnswer, TypeInv, ActInv
  <2>4. maker[1] = x => err'[1] = IF got'[x] = "ok" THEN "nil" ELSE "error"
    BY <1>5, <2>2 DEF ActAnswer, Shares
  <2>5. OwnAnswer'
    BY <1>1, <2>1, <2>2 DEF OwnInv, OwnAnswer
  <2>6. InAdd' = InAdd /\ x \in InAdd
    BY <2>1, <2>2 DEF InAdd
  <2>7. ASSUME NEW y \in InAdd', y \notin overlapped' PROVE Alone(y)'
    <3>1. Alone(y) /\ y = x
      BY <1>1, <2>6, <2>7 DEF OwnInv, AloneInv, Alone
    <3>2. queue[1] = <<>> /\ act[1].comp = x /\ InAdd = {x}
      BY <2>1, <2>2, <3>1 DEF Alone
    <3> QED BY <1>1, <2>2, <2>3, <2>4, <2>6, <3>1, <3>2 DEF Alone
  <2> QED BY <2>5, <2>7 DEF OwnInv, AloneInv
<1> QED BY <1>2, <1>3, <1>4, <1>5 DEF ActStep

LEMMA OwnStep == TypeInv /\ CountInv /\ OwnInv /\ [Next]_vars => OwnInv'
<1> SUFFICES ASSUME TypeInv, CountInv, OwnInv, [Next]_vars PROVE OwnInv'
  OBVIOUS
<1>1. CASE \E c \in Chans : ActStep(c)
  BY <1>1, OnlyOne, OwnAct
<1>2. CASE \/ \E x \in Callers : StopComponent(x) \/ removeComponent(x)
           \/ BeginStop \/ UNCHANGED vars
  <2>1. UNCHANGED <<pc, queue, act, err, maker, outcome, got, answer, overlapped>>
    BY <1>2 DEF StopComponent, removeComponent, BeginStop, vars, results
  <2> QED BY <2>1 DEF OwnInv, OwnAnswer, AloneInv, Alone, Busy, InAdd
<1> QED BY <1>1, <1>2, OwnEnter, OwnCaller DEF Next

\* A call of Add that no other call overlapped returns what came of its own
\* component: the channel and the variable err that all calls share give it the
\* result of nobody else.
THEOREM AnswersAreOwn == FirstAlone => (Spec => []OwnAnswer)
<1> SUFFICES ASSUME FirstAlone PROVE Spec => []OwnAnswer
  OBVIOUS
<1>1. Init => TypeInv /\ CountInv /\ OwnInv
  <2> SUFFICES ASSUME Init PROVE CountInv /\ OwnInv
    BY TypeInit
  <2>1. Outstanding = {} /\ queue[1] = <<>> /\ ~Busy /\ InAdd = {}
    BY OneChan DEF Init, Outstanding, Busy, InAdd
  <2>2. CountInv
    BY <2>1, FS_EmptySet DEF CountInv
  <2> QED BY <2>1, <2>2 DEF Init, OwnInv, AloneInv, OwnAnswer
<1>2. TypeInv /\ CountInv /\ OwnInv /\ [Next]_vars => TypeInv' /\ CountInv' /\ OwnInv'
  BY TypeStep, CountStep, OwnStep
<1>3. OwnInv => OwnAnswer
  BY DEF OwnInv
<1> QED BY <1>1, <1>2, <1>3, PTL DEF Spec
=============================================================================
