----------------------------- MODULE Activation -----------------------------
(***************************************************************************)
(* Concurrent calls of Container.Add for one container.                    *)
(*                                                                         *)
(* The first call makes two channels and starts the activation goroutine.  *)
(* Every call puts its component into compActivationQueue and takes one    *)
(* answer from compActivationNotify, which all callers share: Go serves    *)
(* the receivers of a channel in the order in which they began to wait.    *)
(* The goroutine is a closure over the variable err of the call that       *)
(* started it, and assigns to it while it works for other callers.         *)
(*                                                                         *)
(* Module Container has the races of Add with Stop and removeComponent;    *)
(* module Lifecycle the two FSM calls of an activation.                    *)
(***************************************************************************)
EXTENDS Naturals, Sequences, FiniteSets

CONSTANTS
    Callers,     \* each calls Add once, with a component of its own
    Name,        \* the names of the components; some may be the same
    Invalid,     \* the names validateName refuses, and the container's own
    FirstAlone   \* does the second call begin when the first has made the channels?

Chans == 1..Cardinality(Callers)
ChanCap == 1
NoChan == 0
Nobody == "nobody"

ASSUME ActivationAssumption ==
    /\ IsFiniteSet(Callers) /\ Callers # {}
    /\ Nobody \notin Callers
    /\ DOMAIN Name = Callers
    /\ FirstAlone \in BOOLEAN

VARIABLES
    ending,      \* the container is Stopping or later
    pc,          \* where every call of Add is
    chan,        \* the channels in the container's fields, or NoChan
    via,         \* the channels every call has read from the fields
    made,        \* the number of times channels were made
    queue,       \* the buffer of every compActivationQueue
    waiting,     \* the callers waiting at every compActivationNotify
    act,         \* every activation goroutine: [at, on, comp]
    err,         \* the variable err every activation goroutine shares with its maker
    maker,       \* the call that started it
    kstage,      \* the stage of every component
    cComponents, \* the names in the map (and the slice: see module Container)
    outcome,     \* history: what the activation of every component came to
    got,         \* what every call took from compActivationNotify
    answer,      \* what every call returned
    overlapped   \* history: the calls during which another one was under way

vars == <<ending, pc, chan, via, made, queue, waiting, act, err, maker, kstage, cComponents,
          outcome, got, answer, overlapped>>

results == <<outcome, got, answer>>

Init ==
    /\ ending = FALSE
    /\ pc = [x \in Callers |-> "idle"]
    /\ chan = NoChan /\ made = 0
    /\ via = [x \in Callers |-> NoChan]
    /\ queue = [c \in Chans |-> <<>>]
    /\ waiting = [c \in Chans |-> <<>>]
    /\ act = [c \in Chans |-> [at |-> "none", on |-> NoChan, comp |-> Nobody]]
    /\ err = [c \in Chans |-> "nil"]
    /\ maker = [c \in Chans |-> Nobody]
    /\ kstage = [x \in Callers |-> "new"]
    /\ cComponents = {}
    /\ outcome = [x \in Callers |-> "none"]
    /\ got = [x \in Callers |-> "none"]
    /\ answer = [x \in Callers |-> "none"]
    /\ overlapped = {}

----------------------------------------------------------------------------
(* Container.Add *)

InAdd == {x \in Callers : pc[x] \notin {"idle", "returned"}}

\* validateName refuses the component, or it has the name of the container.
Refused(x) == Name[x] \in Invalid

\* The name is validated; then, is there a queue?
Enter(x) ==
    /\ pc[x] = "idle"
    /\ FirstAlone => ~\E y \in Callers : pc[y] = "make"
    /\ IF Refused(x)
       THEN /\ pc' = [pc EXCEPT ![x] = "returned"]
            /\ answer' = [answer EXCEPT ![x] = "error"]
            /\ outcome' = [outcome EXCEPT ![x] = "error"]
            /\ UNCHANGED overlapped
       ELSE /\ pc' = [pc EXCEPT ![x] = IF chan = NoChan /\ ~ending THEN "make" ELSE "put"]
            /\ overlapped' = IF InAdd = {} THEN overlapped ELSE overlapped \union InAdd \union {x}
            /\ UNCHANGED <<answer, outcome>>
    /\ UNCHANGED <<ending, chan, via, made, queue, waiting, act, err, maker, kstage, cComponents, got>>

Make(x) ==
    /\ pc[x] = "make"
    /\ made' = made + 1
    /\ chan' = made'
    /\ act' = [act EXCEPT ![made'].at = "spawned"]
    /\ maker' = [maker EXCEPT ![made'] = x]
    /\ pc' = [pc EXCEPT ![x] = "put"]
    /\ UNCHANGED <<ending, via, queue, waiting, err, kstage, cComponents, results, overlapped>>

\* A send on a nil channel blocks for ever.
Load(x) ==
    /\ pc[x] = "put"
    /\ chan # NoChan
    /\ via' = [via EXCEPT ![x] = chan]
    /\ pc' = [pc EXCEPT ![x] = "send"]
    /\ UNCHANGED <<ending, chan, made, queue, waiting, act, err, maker, kstage, cComponents, results,
                   overlapped>>

\* Mutant: the queue has no bound.
SendUnbounded(x) ==
    /\ pc[x] = "send"
    /\ queue' = [queue EXCEPT ![via[x]] = Append(@, x)]
    /\ pc' = [pc EXCEPT ![x] = "sent"]
    /\ UNCHANGED <<ending, chan, via, made, waiting, act, err, maker, kstage, cComponents, results,
                   overlapped>>

Send(x) ==
    /\ pc[x] = "send"
    /\ Len(queue[via[x]]) < ChanCap
    /\ queue' = [queue EXCEPT ![via[x]] = Append(@, x)]
    /\ pc' = [pc EXCEPT ![x] = "sent"]
    /\ UNCHANGED <<ending, chan, via, made, waiting, act, err, maker, kstage, cComponents, results,
                   overlapped>>

Receive(x) ==
    /\ pc[x] = "sent"
    /\ waiting' = [waiting EXCEPT ![chan] = Append(@, x)]
    /\ pc' = [pc EXCEPT ![x] = "receive"]
    /\ UNCHANGED <<ending, chan, via, made, queue, act, err, maker, kstage, cComponents, results,
                   overlapped>>

\* The call that started an activation goroutine shares err with it.
Shares(x) == {c \in 1..made : maker[c] = x}

\* Mutant: every call tests the variable the goroutine assigns to.
ReturnShared(x) ==
    /\ pc[x] = "test"
    /\ answer' = [answer EXCEPT ![x] = IF \E c \in 1..made : err[c] = "error" THEN "error" ELSE "ok"]
    /\ pc' = [pc EXCEPT ![x] = "returned"]
    /\ UNCHANGED <<ending, chan, via, made, queue, waiting, act, err, maker, kstage, cComponents,
                   outcome, got, overlapped>>

Return(x) ==
    /\ pc[x] = "test"
    /\ answer' = [answer EXCEPT ![x] = IF Shares(x) = {} THEN got[x]
                                       ELSE IF \E c \in Shares(x) : err[c] = "error" THEN "error"
                                       ELSE "ok"]
    /\ pc' = [pc EXCEPT ![x] = "returned"]
    /\ UNCHANGED <<ending, chan, via, made, queue, waiting, act, err, maker, kstage, cComponents,
                   outcome, got, overlapped>>

CallerStep(x) == Make(x) \/ Load(x) \/ Send(x) \/ Receive(x) \/ Return(x)

----------------------------------------------------------------------------
(* The activation goroutine *)

\* `range c.compActivationQueue' reads the field once.
ActBegin(c) ==
    /\ act[c].at = "spawned"
    /\ act' = [act EXCEPT ![c] = [at |-> "wait", on |-> chan, comp |-> Nobody]]
    /\ UNCHANGED <<ending, pc, chan, via, made, queue, waiting, err, maker, kstage, cComponents, results,
                   overlapped>>

ActTake(c) ==
    /\ act[c].at = "wait"
    /\ queue[act[c].on] # <<>>
    /\ act' = [act EXCEPT ![c].at = "init", ![c].comp = Head(queue[act[c].on])]
    /\ queue' = [queue EXCEPT ![act[c].on] = Tail(@)]
    /\ UNCHANGED <<ending, pc, chan, via, made, waiting, err, maker, kstage, cComponents, results,
                   overlapped>>

\* Goroutine c goes on to `at' with the component at stage s.
ActMoves(c, from, at, s) ==
    /\ act[c].at = from
    /\ act' = [act EXCEPT ![c].at = at]
    /\ kstage' = [kstage EXCEPT ![act[c].comp] = s]
    /\ UNCHANGED <<ending, pc, chan, via, made, queue, waiting, maker, got, answer, overlapped>>

\* The activation has come to res.
Concludes(c, res) == outcome' = [outcome EXCEPT ![act[c].comp] = res]

\* The first FSM call: Init() succeeds or fails.
ActInit(c) ==
    /\ \/ /\ ActMoves(c, "init", "map", "initialized")
          /\ err' = [err EXCEPT ![c] = "nil"]
          /\ UNCHANGED outcome
       \/ /\ ActMoves(c, "init", "answer", "aborted")
          /\ err' = [err EXCEPT ![c] = "error"]
          /\ Concludes(c, "error")
    /\ UNCHANGED cComponents

\* Mutant: a name in use does not end the activation.
ActMapNoContinue(c) ==
    /\ act[c].at = "map"
    /\ ActMoves(c, "map", "start", kstage[act[c].comp])
    /\ cComponents' = cComponents \union {Name[act[c].comp]}
    /\ err' = [err EXCEPT ![c] = "nil"]
    /\ UNCHANGED outcome

\* A component whose name is taken is refused; the error is a variable of its own.
ActMap(c) ==
    LET name == Name[act[c].comp] IN
    /\ act[c].at = "map"
    /\ \/ /\ name \notin cComponents
          /\ ActMoves(c, "map", "start", kstage[act[c].comp])
          /\ cComponents' = cComponents \union {name}
          /\ UNCHANGED outcome
       \/ /\ name \in cComponents
          /\ ActMoves(c, "map", "answer", kstage[act[c].comp])
          /\ Concludes(c, "error")
          /\ UNCHANGED cComponents
    /\ err' = [err EXCEPT ![c] = "nil"]

\* The second FSM call.
ActStart(c) ==
    /\ ActMoves(c, "start", "answer", "started")
    /\ err' = [err EXCEPT ![c] = "nil"]
    /\ Concludes(c, "ok")
    /\ UNCHANGED cComponents

\* Mutant: the goroutine does not wait for a caller to take the answer.
ActAnswerOrDrop(c) ==
    /\ act[c].at = "answer"
    /\ act' = [act EXCEPT ![c].at = "wait", ![c].comp = Nobody]
    /\ IF waiting[c] = <<>> THEN UNCHANGED <<waiting, got, pc, err>>
       ELSE /\ waiting' = [waiting EXCEPT ![c] = Tail(@)]
            /\ got' = [got EXCEPT ![Head(waiting[c])] = outcome[act[c].comp]]
            /\ pc' = [pc EXCEPT ![Head(waiting[c])] = "test"]
            /\ err' = IF maker[c] = Head(waiting[c])
                      THEN [err EXCEPT ![c] = IF outcome[act[c].comp] = "ok" THEN "nil" ELSE "error"]
                      ELSE err
    /\ UNCHANGED <<ending, chan, via, made, queue, maker, kstage, cComponents, outcome, answer,
                   overlapped>>

\* Mutant: the answer is the outer variable err, which a refused name does not set.
ActAnswerOuter(c) ==
    LET x == Head(waiting[c])
        res == IF err[c] = "nil" THEN "ok" ELSE "error" IN
    /\ act[c].at = "answer"
    /\ waiting[c] # <<>>
    /\ waiting' = [waiting EXCEPT ![c] = Tail(@)]
    /\ got' = [got EXCEPT ![x] = res]
    /\ pc' = [pc EXCEPT ![x] = "test"]
    /\ err' = [d \in Chans |-> IF d \in Shares(x) THEN IF res = "ok" THEN "nil" ELSE "error"
                               ELSE err[d]]
    /\ act' = [act EXCEPT ![c].at = "wait", ![c].comp = Nobody]
    /\ UNCHANGED <<ending, chan, via, made, queue, maker, kstage, cComponents, outcome, answer,
                   overlapped>>

\* The answer goes to the caller that has waited longest, and to its err.
ActAnswer(c) ==
    LET x == Head(waiting[c])
        res == outcome[act[c].comp] IN
    /\ act[c].at = "answer"
    /\ waiting[c] # <<>>
    /\ waiting' = [waiting EXCEPT ![c] = Tail(@)]
    /\ got' = [got EXCEPT ![x] = res]
    /\ pc' = [pc EXCEPT ![x] = "test"]
    /\ err' = [d \in Chans |-> IF d \in Shares(x) THEN IF res = "ok" THEN "nil" ELSE "error"
                               ELSE err[d]]
    /\ act' = [act EXCEPT ![c].at = "wait", ![c].comp = Nobody]
    /\ UNCHANGED <<ending, chan, via, made, queue, maker, kstage, cComponents, outcome, answer,
                   overlapped>>

ActStep(c) ==
    \/ ActBegin(c) \/ ActTake(c) \/ ActInit(c) \/ ActMap(c) \/ ActStart(c)
    \/ ActAnswer(c)

----------------------------------------------------------------------------
(* What else happens *)

\* A component is shut down and torn down; then it removes itself by its name.
StopComponent(x) ==
    /\ kstage[x] = "started" /\ ~\E c \in Chans : act[c].comp = x
    /\ kstage' = [kstage EXCEPT ![x] = "down"]
    /\ UNCHANGED <<ending, pc, chan, via, made, queue, waiting, act, err, maker, cComponents, results,
                   overlapped>>

removeComponent(x) ==
    /\ kstage[x] = "down"
    /\ kstage' = [kstage EXCEPT ![x] = "gone"]
    /\ cComponents' = cComponents \ {Name[x]}
    /\ UNCHANGED <<ending, pc, chan, via, made, queue, waiting, act, err, maker, results, overlapped>>

\* The container begins to stop; once the channels are made, Add does not look.
BeginStop ==
    /\ ~ending /\ chan = NoChan
    /\ ending' = TRUE
    /\ UNCHANGED <<pc, chan, via, made, queue, waiting, act, err, maker, kstage, cComponents, results,
                   overlapped>>

Next ==
    \/ \E x \in Callers : Enter(x) \/ CallerStep(x) \/ StopComponent(x) \/ removeComponent(x)
    \/ \E c \in Chans : ActStep(c)
    \/ BeginStop

Spec == Init /\ [][Next]_vars

\* Goroutines that can go on do; nobody has to call Add.
FairSpec ==
    /\ Spec
    /\ \A x \in Callers : WF_vars(CallerStep(x))
    /\ \A c \in Chans : WF_vars(ActStep(c))

----------------------------------------------------------------------------
(* Properties *)

Results == {"none", "ok", "error"}

\* The variables keep their types, and no queue holds more than its capacity.
TypeOK ==
    /\ pc \in [Callers -> {"idle", "make", "put", "send", "sent", "receive", "test", "returned"}]
    /\ chan \in {NoChan} \union Chans /\ made \in 0..Cardinality(Callers)
    /\ via \in [Callers -> {NoChan} \union Chans]
    /\ \A c \in Chans : /\ queue[c] \in Seq(Callers) /\ Len(queue[c]) <= ChanCap
                        /\ waiting[c] \in Seq(Callers)
                        /\ act[c].at \in {"none", "spawned", "wait", "init", "map", "start",
                                          "answer"}
                        /\ act[c].comp \in Callers \union {Nobody}
                        /\ err[c] \in {"nil", "error"}
    /\ kstage \in [Callers -> {"new", "initialized", "aborted", "started", "down", "gone"}]
    /\ outcome \in [Callers -> Results] /\ got \in [Callers -> Results]
    /\ answer \in [Callers -> Results]
    /\ ending \in BOOLEAN /\ overlapped \subseteq Callers

\* An Add that no other Add overlapped returns when its own component has been
\* activated, and returns what that came to: neither the shared channel nor the
\* shared variable gives it the result of another.
OwnAnswer ==
    \A x \in Callers \ overlapped : pc[x] = "returned" => outcome[x] # "none" /\ answer[x] = outcome[x]

Quiet == /\ \A c \in Chans : act[c].at \in {"none", "wait"}
         /\ \A c \in Chans : queue[c] = <<>>
         /\ \A x \in Callers : pc[x] \in {"idle", "test", "returned"}

\* However the calls overlap, the answers are only exchanged: when none is under
\* way, as many took an error as there were activations that failed.
NoAnswerLost ==
    Quiet => \A res \in {"ok", "error"} :
        Cardinality({x \in Callers : got[x] = res})
            = Cardinality({x \in Callers : outcome[x] = res /\ ~Refused(x)})

\* Two components of the same name never run at the same time: the name of one
\* that stops is free only when it has stopped.
OneOfAName ==
    \A x, y \in Callers : Name[x] = Name[y] /\ kstage[x] = "started" /\ kstage[y] = "started" => x = y

\* Every call of Add returns, though all callers wait at one channel, if the
\* container has had a queue.
AddReturns == \A x \in Callers : pc[x] = "put" /\ chan # NoChan ~> pc[x] = "returned"
=============================================================================
