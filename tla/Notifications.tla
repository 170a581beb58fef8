--------------------------- MODULE Notifications ---------------------------
(***************************************************************************)
(* Who is told of what happens to ONE started component: setStage and      *)
(* setState, the callbacks (Callback, RemoveCallback, invokeCallbacks) and *)
(* the subscribers (Subscribe, Unsubscribe, notifySubscribers) of          *)
(* component.go, tearDown, and the framework's own stateChangeCallbacker.  *)
(*                                                                         *)
(* Two goroutines notify: the multiplexer, of the component as a message   *)
(* has left it and of the stages of a shutdown, and startComponent, of the *)
(* stages of a restart.  Stages change under the component's mutating      *)
(* lock; a message is handled, and its listeners told, without it.         *)
(*                                                                         *)
(* invokeCallbacks waits for a callback no longer than its deadline, and   *)
(* notifySubscribers for a subscriber as long as it takes.                 *)
(***************************************************************************)
EXTENDS Naturals, Sequences, FiniteSets, SequencesExt

CONSTANTS
    Fw,            \* the framework's stateChangeCallbacker
    Users,         \* callbacks of the application
    SelfRemoving,  \* those that remove themselves when the component is Stopping
    Slow,          \* those that may outlive their deadline, perhaps for ever
    Subs,          \* subscribers
    Mux, Runner,   \* the notifying goroutines
    None,          \* nobody
    MaxMessages,   \* bound on the messages handled
    MaxRestarts    \* bound on the restarts

Callbacks == Users \union {Fw}
Notifiers == {Mux, Runner}

ASSUME NotificationsAssumption ==
    /\ Fw \notin Users /\ IsFiniteSet(Users)
    /\ SelfRemoving \subseteq Users /\ Slow \subseteq Users
    /\ Mux # Runner /\ None \notin Notifiers \union Callbacks
    /\ {MaxMessages, MaxRestarts} \subseteq Nat

VARIABLES
    stage,      \* SimpleComponent.Stage
    state,      \* SimpleComponent.State
    lock,       \* the holder of the mutating lock, or None
    callbacks,  \* SimpleComponent.callbacks
    subscribers,\* SimpleComponent.subscribers
    script,     \* what is left of each goroutine's FSM call: stages to set, "tearDown"
    pc,         \* where each goroutine is
    change,     \* the ChangeObject it is telling others of
    funcs,      \* the copy of the callbacks it walks over
    idx,        \* its cbIndx, plus one
    unsent,     \* the subscribers it has not come to
    told,       \* history: the callbacks it has called
    due,        \* history: the callbacks that were registered when it began
    late,       \* calls that have outlived their deadline and are to remove the
                \* callback when they return: [cb, i]
    reg,        \* registrations that have passed the check of the stage: [cb, head]
    ch,         \* the channel of every subscriber, with a buffer of one
    seen,       \* the last stage every subscriber was told of
    left,       \* history: the subscribers that have unsubscribed, or came when the
                \* component was ending
    removed,    \* history: the last removal by a callback: [cb, gone]
    shifted,    \* history: indices have changed since the shutdown began
    fatal,      \* the runtime has ended the process: concurrent use of the map
    messages, restarts

vars == <<stage, state, lock, callbacks, subscribers, script, pc, change, funcs, idx, unsent,
          told, due, late, reg, ch, seen, left, removed, shifted, fatal, messages, restarts>>

bounds == <<messages, restarts>>
calls == <<funcs, idx, told, due>>
round == <<change, calls, unsent>>
fsm == <<stage, state, lock, script>>
hist == <<left, removed, shifted>>

Stages == {"Restarting", "Starting", "Started", "Stopping", "Stopped", "Teareddown"}
Live == {"Restarting", "Starting", "Started"}
NoChange == [kind |-> "comp", prev |-> "none", curr |-> "none"]
ChanCap == 1

Init ==
    /\ stage = "Started" /\ state = "Active"
    /\ lock = None
    /\ callbacks = <<Fw>>
    /\ subscribers = {}
    /\ script = [g \in Notifiers |-> <<>>]
    /\ pc = [g \in Notifiers |-> "idle"]
    /\ change = [g \in Notifiers |-> NoChange]
    /\ funcs = [g \in Notifiers |-> <<>>]
    /\ idx = [g \in Notifiers |-> 1]
    /\ unsent = [g \in Notifiers |-> {}]
    /\ told = [g \in Notifiers |-> {}] /\ due = [g \in Notifiers |-> {}]
    /\ late = {} /\ reg = {}
    /\ ch = [s \in Subs |-> <<>>]
    /\ seen = [s \in Subs |-> "none"]
    /\ left = {}
    /\ removed = [cb |-> Fw, gone |-> Fw]
    /\ shifted = FALSE
    /\ fatal = FALSE
    /\ messages = 0 /\ restarts = 0

----------------------------------------------------------------------------
(* FSM calls and messages *)

\* What the FSM call of goroutine g is to do at stage s: the multiplexer's are
\* those of a Shutdown, the runner's those of a restart.
Script(g, s) ==
    CASE s = "Started" -> IF g = Mux THEN <<"Stopping">> ELSE <<"Restarting">>
      [] s = "Restarting" -> <<"Starting", "Started">>
      [] s = "Stopping" -> <<"Stopped", "tearDown", "Teareddown">>
      [] OTHER -> <<>>

\* Mutant: the multiplexer's call does not wait for the lock.
FsmEnterUnlocked(g) ==
    /\ pc[g] = "idle"
    /\ g = Mux \/ lock = None
    /\ stage # "Teareddown"
    /\ g = Runner => restarts < MaxRestarts
    /\ restarts' = IF g = Runner THEN restarts + 1 ELSE restarts
    /\ lock' = g
    /\ script' = [script EXCEPT ![g] = Script(g, stage)]
    /\ pc' = [pc EXCEPT ![g] = "next"]
    /\ UNCHANGED <<stage, state, callbacks, subscribers, round, late, reg, ch, seen, hist, fatal,
                   messages>>

FsmEnter(g) ==
    /\ pc[g] = "idle"
    /\ lock = None
    /\ stage # "Teareddown"
    /\ g = Runner => restarts < MaxRestarts
    /\ restarts' = IF g = Runner THEN restarts + 1 ELSE restarts
    /\ lock' = g
    /\ script' = [script EXCEPT ![g] = Script(g, stage)]
    /\ pc' = [pc EXCEPT ![g] = "next"]
    /\ UNCHANGED <<stage, state, callbacks, subscribers, round, late, reg, ch, seen, hist, fatal,
                   messages>>

\* The multiplexer has handled a message and tells of the component.
Handled ==
    /\ pc[Mux] = "idle"
    /\ stage \in Live
    /\ messages < MaxMessages
    /\ messages' = messages + 1
    /\ pc' = [pc EXCEPT ![Mux] = "copy"]
    /\ change' = [change EXCEPT ![Mux] = NoChange]
    /\ UNCHANGED <<fsm, callbacks, subscribers, calls, unsent, late, reg, ch, seen, hist,
                   fatal, restarts>>

\* setStage, up to invokeCallbacks.
SetStage(g) ==
    /\ pc[g] = "next"
    /\ script[g] # <<>>
    /\ Head(script[g]) # "tearDown"
    /\ stage' = Head(script[g])
    /\ script' = [script EXCEPT ![g] = Tail(@)]
    /\ change' = [change EXCEPT ![g] = [kind |-> "stage", prev |-> stage, curr |-> stage']]
    /\ pc' = [pc EXCEPT ![g] = "copy"]
    /\ UNCHANGED <<state, lock, callbacks, subscribers, calls, unsent, late, reg, ch, seen,
                   hist, fatal, bounds>>

\* setState, which tells of the state only if it is another one.
SetState(g) ==
    LET s == IF stage \in Live THEN "Active" ELSE "Inactive" IN
    /\ pc[g] = "state"
    /\ state' = s
    /\ IF s # state
       THEN /\ change' = [change EXCEPT ![g] = [kind |-> "state", prev |-> state, curr |-> s]]
            /\ pc' = [pc EXCEPT ![g] = "copy"]
       ELSE /\ pc' = [pc EXCEPT ![g] = "next"]
            /\ UNCHANGED change
    /\ UNCHANGED <<stage, lock, script, callbacks, subscribers, calls, unsent, late, reg, ch,
                   seen, hist, fatal, bounds>>

\* tearDown removes callback 0, 1, 2... of a slice that gets shorter: those at odd
\* places stay.  It unsubscribes everybody.
TearDown(g) ==
    /\ pc[g] = "next"
    /\ script[g] # <<>>
    /\ Head(script[g]) = "tearDown"
    /\ callbacks' = [i \in 1..(Len(callbacks) \div 2) |-> callbacks[2 * i]]
    /\ subscribers' = {}
    /\ script' = [script EXCEPT ![g] = Tail(@)]
    /\ UNCHANGED <<stage, state, lock, pc, round, late, reg, ch, seen, hist, fatal, bounds>>

\* The FSM call is at its end.
FsmReturn(g) ==
    /\ pc[g] = "next"
    /\ script[g] = <<>>
    /\ lock' = None
    /\ pc' = [pc EXCEPT ![g] = "idle"]
    /\ UNCHANGED <<stage, state, callbacks, subscribers, script, round, late, reg, ch, seen, hist,
                   fatal, bounds>>

----------------------------------------------------------------------------
(* invokeCallbacks *)

CopyCallbacks(g) ==
    /\ pc[g] = "copy"
    /\ funcs' = [funcs EXCEPT ![g] = callbacks]
    /\ idx' = [idx EXCEPT ![g] = 1]
    /\ told' = [told EXCEPT ![g] = {}]
    /\ due' = [due EXCEPT ![g] = Range(callbacks)]
    /\ pc' = [pc EXCEPT ![g] = "call"]
    /\ UNCHANGED <<fsm, callbacks, subscribers, change, unsent, late, reg, ch, seen, hist, fatal,
                   bounds>>

\* The callbacks that remove themselves, by the index they were given.
Removes(cb, c) == cb \in SelfRemoving \union {Fw} /\ c = "Stopping"

\* Mutant: the slice is cut one place too far.
RemoveCallbackNext(cb, i) ==
    IF i < Len(callbacks)
    THEN /\ callbacks' = RemoveAt(callbacks, i + 1)
         /\ removed' = [cb |-> cb, gone |-> callbacks[i + 1]]
         /\ shifted' = TRUE
    ELSE UNCHANGED <<callbacks, removed, shifted>>

\* RemoveCallback(i): in place; an index behind the end is an error.
RemoveCallback(cb, i) ==
    IF i <= Len(callbacks)
    THEN /\ callbacks' = RemoveAt(callbacks, i)
         /\ removed' = [cb |-> cb, gone |-> callbacks[i]]
         /\ shifted' = TRUE
    ELSE UNCHANGED <<callbacks, removed, shifted>>

\* Callback cb, called with index i, returns.
Callee(cb, i, c) ==
    IF Removes(cb, c) THEN RemoveCallback(cb, i) ELSE UNCHANGED <<callbacks, removed, shifted>>

\* Mutant: the slice itself is walked over.
CallUncopied(g) ==
    /\ pc[g] = "call"
    /\ idx[g] <= Len(callbacks)
    /\ Callee(callbacks[idx[g]], idx[g], change[g].curr)
    /\ idx' = [idx EXCEPT ![g] = @ + 1]
    /\ funcs' = [funcs EXCEPT ![g] = callbacks']
    /\ told' = [told EXCEPT ![g] = @ \union {callbacks[idx[g]]}]
    /\ UNCHANGED <<fsm, pc, subscribers, change, due, unsent, late, reg, ch, seen, left, fatal,
                   bounds>>

\* A callback is called and returns in time.
Call(g) ==
    /\ pc[g] = "call"
    /\ idx[g] <= Len(funcs[g])
    /\ Callee(funcs[g][idx[g]], idx[g], change[g].curr)
    /\ idx' = [idx EXCEPT ![g] = @ + 1]
    /\ told' = [told EXCEPT ![g] = @ \union {funcs[g][idx[g]]}]
    /\ UNCHANGED <<fsm, pc, subscribers, change, funcs, due, unsent, late, reg, ch, seen, left,
                   fatal, bounds>>

\* Mutant: nothing limits how long a callback may take.
DeadlineNever(g) == FALSE /\ UNCHANGED vars

\* A callback outlives its deadline: it goes on by itself, and so does the loop.
Deadline(g) ==
    /\ pc[g] = "call"
    /\ idx[g] <= Len(funcs[g])
    /\ funcs[g][idx[g]] \in Slow
    /\ late' = IF Removes(funcs[g][idx[g]], change[g].curr)
               THEN late \union {[cb |-> funcs[g][idx[g]], i |-> idx[g]]} ELSE late
    /\ idx' = [idx EXCEPT ![g] = @ + 1]
    /\ told' = [told EXCEPT ![g] = @ \union {funcs[g][idx[g]]}]
    /\ UNCHANGED <<fsm, callbacks, pc, subscribers, change, funcs, due, unsent, reg, ch, seen,
                   hist, fatal, bounds>>

LateReturn(l) ==
    /\ late' = late \ {l}
    /\ RemoveCallback(l.cb, l.i)
    /\ UNCHANGED <<fsm, pc, subscribers, round, reg, ch, seen, left, fatal, bounds>>

Called(g) ==
    /\ pc[g] = "call"
    /\ idx[g] > Len(funcs[g])
    /\ unsent' = [unsent EXCEPT ![g] = subscribers]
    /\ pc' = [pc EXCEPT ![g] = "send"]
    /\ UNCHANGED <<fsm, callbacks, subscribers, change, calls, late, reg, ch, seen, hist,
                   fatal, bounds>>

----------------------------------------------------------------------------
(* notifySubscribers *)

\* Mutant: a subscriber whose channel is full is passed over.
SendOrDrop(g, s) ==
    /\ pc[g] = "send"
    /\ s \in unsent[g]
    /\ unsent' = [unsent EXCEPT ![g] = @ \ {s}]
    /\ ch' = IF Len(ch[s]) < ChanCap THEN [ch EXCEPT ![s] = Append(@, change[g])] ELSE ch
    /\ UNCHANGED <<fsm, callbacks, pc, subscribers, change, calls, late, reg, seen, hist,
                   fatal, bounds>>

\* Mutant: a channel without a bound.
SendUnbounded(g, s) ==
    /\ pc[g] = "send"
    /\ s \in unsent[g]
    /\ unsent' = [unsent EXCEPT ![g] = @ \ {s}]
    /\ ch' = [ch EXCEPT ![s] = Append(@, change[g])]
    /\ UNCHANGED <<fsm, callbacks, pc, subscribers, change, calls, late, reg, seen, hist,
                   fatal, bounds>>

\* The send blocks while the channel is full.
Send(g, s) ==
    /\ pc[g] = "send"
    /\ s \in unsent[g]
    /\ Len(ch[s]) < ChanCap
    /\ unsent' = [unsent EXCEPT ![g] = @ \ {s}]
    /\ ch' = [ch EXCEPT ![s] = Append(@, change[g])]
    /\ UNCHANGED <<fsm, callbacks, pc, subscribers, change, calls, late, reg, seen, hist,
                   fatal, bounds>>

\* Everybody has been told; setStage goes on to setState.
Told(g) ==
    /\ pc[g] = "send"
    /\ unsent[g] = {}
    /\ pc' = [pc EXCEPT ![g] = CASE change[g].kind = "stage" -> "state"
                                 [] change[g].kind = "state" -> "next"
                                 [] OTHER -> "idle"]
    /\ change' = [change EXCEPT ![g] = NoChange]
    /\ funcs' = [funcs EXCEPT ![g] = <<>>] /\ idx' = [idx EXCEPT ![g] = 1]
    /\ told' = [told EXCEPT ![g] = {}] /\ due' = [due EXCEPT ![g] = {}]
    /\ UNCHANGED <<fsm, callbacks, subscribers, unsent, late, reg, ch, seen, hist, fatal, bounds>>

NotifierStep(g) ==
    \/ SetStage(g) \/ SetState(g) \/ TearDown(g) \/ FsmReturn(g)
    \/ CopyCallbacks(g) \/ Called(g) \/ Told(g)
    \/ \E s \in Subs : Send(g, s)

----------------------------------------------------------------------------
(* The others *)

\* Callback: the stage is checked, ...
RegisterCheck(cb, head) ==
    /\ stage \in Live
    /\ \A r \in reg : r.cb # cb
    /\ \A i \in 1..Len(callbacks) : callbacks[i] # cb
    /\ reg' = reg \union {[cb |-> cb, head |-> head]}
    /\ UNCHANGED <<fsm, callbacks, pc, subscribers, round, late, ch, seen, hist, fatal, bounds>>

\* ... then the function is put at the end or at the head.
Register(r) ==
    /\ reg' = reg \ {r}
    /\ callbacks' = IF r.head THEN <<r.cb>> \o callbacks ELSE Append(callbacks, r.cb)
    /\ shifted' = (shifted \/ (r.head /\ stage \notin Live))
    /\ UNCHANGED <<fsm, pc, subscribers, round, late, ch, seen, left, removed, fatal, bounds>>

\* The goroutines that walk over the map of subscribers.
Walking == {g \in Notifiers : pc[g] = "send" /\ unsent[g] # {}}

\* Subscribe, with a new channel, to a component at any stage.  A walk under way may
\* come to the new entry or pass it by.  Nobody subscribes again while a send to the
\* old channel is under way.
Subscribe(s) ==
    /\ s \notin subscribers
    /\ \A g \in Notifiers : s \notin unsent[g]
    /\ subscribers' = subscribers \union {s}
    /\ left' = IF stage \in Live THEN left \ {s} ELSE left \union {s}
    /\ seen' = [seen EXCEPT ![s] = "none"]
    /\ ch' = [ch EXCEPT ![s] = <<>>]
    /\ \E W \in SUBSET Walking :
          unsent' = [g \in Notifiers |-> IF g \in W THEN unsent[g] \union {s} ELSE unsent[g]]

\* A send to this subscriber that has begun goes on: the others will not come to it.
Unsubscribe(s) ==
    /\ s \in subscribers
    /\ subscribers' = subscribers \ {s}
    /\ left' = left \union {s}
    /\ \E W \in SUBSET Walking :
          unsent' = [g \in Notifiers |-> IF g \in W THEN unsent[g] ELSE unsent[g] \ {s}]
    /\ UNCHANGED <<ch, seen>>

\* Both write the map; the runtime may find out that it is being walked over.
WriteSubscribers(s) ==
    /\ Subscribe(s) \/ Unsubscribe(s)
    /\ \/ UNCHANGED fatal
       \/ Walking # {} /\ fatal' = TRUE
    /\ UNCHANGED <<fsm, callbacks, pc, change, calls, late, reg, removed, shifted, bounds>>

Receive(s) ==
    /\ ch[s] # <<>>
    /\ ch' = [ch EXCEPT ![s] = Tail(@)]
    /\ seen' = IF Head(ch[s]).kind = "stage" THEN [seen EXCEPT ![s] = Head(ch[s]).curr] ELSE seen
    /\ UNCHANGED <<fsm, callbacks, subscribers, pc, round, late, reg, hist, fatal, bounds>>

Next ==
    /\ ~fatal
    /\ \/ \E g \in Notifiers : FsmEnter(g) \/ NotifierStep(g) \/ Call(g) \/ Deadline(g)
       \/ Handled
       \/ \E l \in late : LateReturn(l)
       \/ \E cb \in Users, head \in BOOLEAN : RegisterCheck(cb, head)
       \/ \E r \in reg : Register(r)
       \/ \E s \in Subs : WriteSubscribers(s) \/ Receive(s)

Spec == Init /\ [][Next]_vars

\* Notifiers go on when they can: a callback that is not slow returns, and the
\* deadline of one that is slow passes.  Subscribers read their channels.
FairStep(g) == NotifierStep(g) \/ Deadline(g) \/ (Call(g) /\ funcs[g][idx[g]] \notin Slow)

FairSpec ==
    /\ Spec
    /\ \A g \in Notifiers : WF_vars(~fatal /\ FairStep(g))
    /\ \A s \in Subs : WF_vars(~fatal /\ Receive(s))

----------------------------------------------------------------------------
(* Properties *)

\* The variables keep their types, and no channel holds more than its buffer.
TypeOK ==
    /\ stage \in Stages /\ state \in {"Active", "Inactive"}
    /\ lock \in Notifiers \union {None}
    /\ callbacks \in Seq(Callbacks) /\ Len(callbacks) <= Cardinality(Callbacks)
    /\ subscribers \subseteq Subs
    /\ script \in [Notifiers -> Seq(Stages \union {"tearDown"})]
    /\ pc \in [Notifiers -> {"idle", "next", "copy", "call", "send", "state"}]
    /\ \A g \in Notifiers :
          /\ change[g].kind \in {"stage", "state", "comp"}
          /\ funcs[g] \in Seq(Callbacks)
          /\ idx[g] \in 1..(Len(funcs[g]) + 1)
          /\ unsent[g] \subseteq Subs
          /\ told[g] \subseteq Callbacks /\ due[g] \subseteq Callbacks
    /\ \A l \in late : l.cb \in Slow
    /\ \A r \in reg : r.cb \in Users /\ r.head \in BOOLEAN
    /\ \A s \in Subs : Len(ch[s]) <= ChanCap /\ seen[s] \in Stages \union {"none"}
    /\ {removed.cb, removed.gone} \subseteq Callbacks
    /\ left \subseteq Subs /\ shifted \in BOOLEAN /\ fatal \in BOOLEAN
    /\ messages \in 0..MaxMessages /\ restarts \in 0..MaxRestarts

\* The stage changes a subscriber receives are a chain: each begins at the stage
\* where the one before it ended, whoever restarts or shuts the component down
\* and however slow callbacks and subscribers are.  For a subscriber that was there
\* before the component began to end, the chain ends with Stopped, and it may
\* forget about the component then, as the interrupt handler does.
SubscriberChain ==
    [][\A s \in Subs :
          Len(ch'[s]) < Len(ch[s]) /\ seen'[s] # "none" /\ Head(ch[s]).kind = "stage" =>
              /\ seen[s] = "none" \/ Head(ch[s]).prev = seen[s]
              /\ s \in left \/ Head(ch[s]).curr # "Teareddown"]_vars

\* A callback that is registered when a notification begins is told of it, even
\* when one before it removes itself from the slice.
NobodySkipped == \A g \in Notifiers : pc[g] = "send" => due[g] \subseteq told[g]

\* The first callback to remove itself by the index it was given removes itself
\* and nobody else, unless a registration at the head, checked before the shutdown
\* began, comes in between: no other registration can, as Callback checks the stage.
RemovesItself == [][removed' # removed /\ ~shifted => removed'.gone = removed'.cb]_vars

\* A notification comes to its end, so that the lock is released and the
\* multiplexer takes the next message, even if a callback never returns.
NotifierReturns == \A g \in Notifiers : pc[g] # "idle" ~> pc[g] = "idle" \/ fatal

\* A subscriber that was there in time and stays is told that the component has stopped.
StoppedIsTold ==
    \A s \in Subs :
        stage = "Stopped" /\ s \in subscribers ~> seen[s] = "Stopped" \/ s \in left \/ fatal
=============================================================================
