----------------------------- MODULE Lifecycle -----------------------------
(***************************************************************************)
(* The life of ONE component inside a running container.                   *)
(*                                                                         *)
(* Every stage change of a component is made by componentLifecycleFSM      *)
(* (component/container.go), which runs under the component's mutating     *)
(* lock.  It is called by four kinds of goroutines, which this module      *)
(* interleaves:                                                            *)
(*   - Act, the container's activation goroutine started by Add: it calls  *)
(*     the FSM once to initialise the component, registers it, and calls   *)
(*     the FSM again to start it;                                          *)
(*   - the message multiplexer (startMmux), which calls the FSM twice for  *)
(*     a Shutdown message;                                                 *)
(*   - the goroutine the multiplexer leaves behind when it returns or      *)
(*     panics, which calls the FSM with RestartMmux;                       *)
(*   - startComponent, which runs the component's Start() and, when Start  *)
(*     returns, calls the FSM twice with RestartAfter.                     *)
(* Clients call SendSyncMessage without holding any lock.                  *)
(*                                                                         *)
(* User code (Init, PostInit, Start, Stop, message handlers) is a          *)
(* nondeterministic choice of its outcome.  Persistence, callbacks and     *)
(* subscribers are not part of this module's state.                        *)
(***************************************************************************)
EXTENDS Naturals, Sequences, FiniteSets

CONSTANTS
    Senders,       \* clients, each making one call of SendSyncMessage
    Shutdowners,   \* the senders whose message is the control message Shutdown
    EarlySenders,  \* the senders that do not wait for Add to return
    Muxes,         \* slots for multiplexer goroutines
    Runs,          \* slots for startComponent goroutines
    Act,           \* the container's activation goroutine
    None,          \* no goroutine, no message
    Restartable,   \* may IsRestartableWithDelay answer true?
    StopMayFail,   \* may the component's Stop() return an error?
    MaxRestarts,   \* bound on the restarts the component asks for
    MaxAdds        \* bound on the calls of Add for this component

Procs == {Act} \union Muxes \union Runs

\* The capacity of the channel made by preInit.
ChanCap == 1

ASSUME ConstantsAssumption ==
    /\ Shutdowners \subseteq Senders
    /\ EarlySenders \subseteq Senders
    /\ Muxes \intersect Runs = {}
    /\ Act \notin Muxes \union Runs
    /\ None \notin Procs \union Senders
    /\ Restartable \in BOOLEAN
    /\ StopMayFail \in BOOLEAN
    /\ MaxRestarts \in Nat
    /\ MaxAdds \in Nat

VARIABLES
    stage,       \* SimpleComponent.Stage
    mmux,        \* SimpleComponent.mmux: "nil" before preInit, "open", "closed" after tearDown
    queue,       \* the senders whose messages are buffered in the channel
    lock,        \* the goroutine holding the component's mutating lock, or None
    fsm,         \* the next step of the FSM call made by the lock holder
    pc,          \* program counter of every goroutine
    msg,         \* the sender whose message a multiplexer is working on, or None
    spc,         \* program counter of every sender
    registered,  \* is the component in the container's cComponents?
    restarts,    \* restarts asked for so far
    adds         \* calls of Add so far

vars == <<stage, mmux, queue, lock, fsm, pc, msg, spc, registered, restarts, adds>>

----------------------------------------------------------------------------
(* Stages, program counters *)

Stages == {"Submitted", "Preinitializing", "Preinitialized", "Initializing",
           "Initialized", "Starting", "Restarting", "Started", "Stopping",
           "Stopped", "Tearingdown", "Teareddown", "Aborting"}

\* The stages s with s >= Stopping in the order of the iota constants.
Ending == {"Stopping", "Stopped", "Tearingdown", "Teareddown", "Aborting"}

FsmSteps == {"submitted", "preinitializing", "preinitialized", "initializing",
             "aborting", "start", "starting", "remux", "restart", "shutdown",
             "stop", "teardown", "return", "fail"}

ActPcs == {"idle", "init", "register", "start", "added", "failed"}
MuxPcs == {"none", "spawned", "receiving", "handling", "shutdown1", "check",
           "shutdown2", "reply_ok", "reply_err", "reply_exit", "recover"}
RunPcs == {"none", "running", "exited", "again", "rerun"}
SenderPcs == {"idle", "refused", "looking", "hung", "sending", "panicked",
              "waiting", "timedout", "ok", "failed"}

\* The program counters at which a goroutine calls componentLifecycleFSM.
CallSites == {"init", "start", "shutdown1", "shutdown2", "recover", "again", "rerun"}

\* The variables keep their types, and the channel its capacity of one, whoever
\* sends and however often the multiplexer restarts.
TypeOK ==
    /\ stage \in Stages
    /\ mmux \in {"nil", "open", "closed"}
    /\ queue \in Seq(Senders)
    /\ Len(queue) <= ChanCap
    /\ lock \in Procs \union {None}
    /\ fsm \in FsmSteps \union {"none"}
    /\ pc \in [Procs -> ActPcs \union MuxPcs \union RunPcs]
    /\ pc[Act] \in ActPcs
    /\ \A k \in Muxes : pc[k] \in MuxPcs
    /\ \A r \in Runs : pc[r] \in RunPcs
    /\ msg \in [Muxes -> Senders \union {None}]
    /\ spc \in [Senders -> SenderPcs]
    /\ registered \in BOOLEAN
    /\ restarts \in 0..MaxRestarts
    /\ adds \in 0..MaxAdds

Init ==
    /\ stage = "Submitted"
    /\ mmux = "nil"
    /\ queue = <<>>
    /\ lock = None
    /\ fsm = "none"
    /\ pc = [p \in Procs |-> IF p = Act THEN "idle" ELSE "none"]
    /\ msg = [k \in Muxes |-> None]
    /\ spc = [s \in Senders |-> "idle"]
    /\ registered = FALSE
    /\ restarts = 0
    /\ adds = 0

----------------------------------------------------------------------------
(* componentLifecycleFSM *)

\* Mutant: the restart of a component passes the wrong control message.
CtlSwapped(site) ==
    CASE site \in {"shutdown1", "shutdown2"} -> "Shutdown"
      [] site \in {"recover", "again", "rerun"} -> "RestartMmux"
      [] OTHER -> "none"

\* The ControlMsgType value in the context a call site passes to the FSM.
Ctl(site) ==
    CASE site \in {"shutdown1", "shutdown2"} -> "Shutdown"
      [] site = "recover" -> "RestartMmux"
      [] site \in {"again", "rerun"} -> "RestartAfter"
      [] OTHER -> "none"

\* Mutant: the RestartAfter message is honoured at any stage.
DispatchAnyStage(s, ctl) ==
    CASE ctl = "RestartAfter" /\ s # "Restarting" -> "restart"
      [] s = "Submitted" -> "submitted"
      [] s \in {"Initialized", "Restarting"} -> "start"
      [] s = "Started" /\ ctl = "RestartMmux" -> "remux"
      [] s = "Started" /\ ctl = "Shutdown" -> "shutdown"
      [] s = "Stopping" -> "stop"
      [] s \in {"Stopped", "Tearingdown"} -> "teardown"
      [] OTHER -> "return"

\* Mutant: the Stopping case is missing from the switch.
DispatchNoStop(s, ctl) ==
    CASE s = "Submitted" -> "submitted"
      [] s \in {"Initialized", "Restarting"} -> "start"
      [] s = "Started" /\ ctl = "RestartMmux" -> "remux"
      [] s = "Started" /\ ctl = "RestartAfter" -> "restart"
      [] s = "Started" /\ ctl = "Shutdown" -> "shutdown"
      [] s \in {"Stopped", "Tearingdown"} -> "teardown"
      [] OTHER -> "return"

\* The case of the FSM's switch that is entered at stage s.
Dispatch(s, ctl) ==
    CASE s = "Submitted" -> "submitted"
      [] s = "Preinitializing" -> "preinitializing"
      [] s = "Preinitialized" -> "preinitialized"
      [] s \in {"Initialized", "Restarting"} -> "start"
      [] s = "Started" /\ ctl = "RestartMmux" -> "remux"
      [] s = "Started" /\ ctl = "RestartAfter" -> "restart"
      [] s = "Started" /\ ctl = "Shutdown" -> "shutdown"
      [] s = "Stopping" -> "stop"
      [] s \in {"Stopped", "Tearingdown"} -> "teardown"
      [] OTHER -> "return"

\* Goroutine g, at `at', goes on to `to' and changes nothing else.
Goto(g, at, to) ==
    /\ pc[g] = at
    /\ pc' = [pc EXCEPT ![g] = to]
    /\ UNCHANGED <<stage, mmux, queue, lock, fsm, msg, spc, registered, restarts, adds>>

\* A call takes the mutating lock and switches on the stage.
FsmEnter(p) ==
    /\ pc[p] \in CallSites
    /\ lock = None
    /\ lock' = p
    /\ fsm' = Dispatch(stage, Ctl(pc[p]))
    /\ UNCHANGED <<stage, mmux, queue, pc, msg, spc, registered, restarts, adds>>

\* The lock holder is at FSM step `at'; it sets the stage and goes on to `to'.
SetStage(at, s, to) ==
    /\ fsm = at
    /\ stage' = s
    /\ fsm' = to

\* A step that does no more than that.
Move(at, s, to) ==
    /\ SetStage(at, s, to)
    /\ UNCHANGED <<mmux, queue, lock, pc, msg, spc, registered, restarts, adds>>

Submit == Move("submitted", "Preinitializing", "preinitializing")

\* A goroutine takes a free slot of the set `slots' and begins at `at'.
Spawn(slots, at) ==
    \E g \in slots :
        /\ pc[g] = "none"
        /\ pc' = [pc EXCEPT ![g] = at]

\* preInit makes the channel; the multiplexer is started on it.
Preinitialize ==
    /\ SetStage("preinitializing", "Preinitialized", "preinitialized")
    /\ mmux' = "open"
    /\ Spawn(Muxes, "spawned")
    /\ UNCHANGED <<queue, lock, msg, spc, registered, restarts, adds>>

BeginInit == Move("preinitialized", "Initializing", "initializing")

\* Init() and PostInit() return nil, or one of them returns an error.
Initialize ==
    \/ Move("initializing", "Initialized", "return")
    \/ Move("initializing", "Aborting", "aborting")

Abort == Move("aborting", "Tearingdown", "fail")

BeginStart == Move("start", "Starting", "starting")

FinishStart ==
    /\ SetStage("starting", "Started", "return")
    /\ Spawn(Runs, "running")
    /\ UNCHANGED <<mmux, queue, lock, msg, spc, registered, restarts, adds>>

\* Started, RestartMmux: the multiplexer is started again.
Remux ==
    /\ SetStage("remux", stage, "return")
    /\ Spawn(Muxes, "spawned")
    /\ UNCHANGED <<mmux, queue, lock, msg, spc, registered, restarts, adds>>

\* Started, RestartAfter: the delay is slept with the lock held.
Restart == Move("restart", "Restarting", "return")

\* Started, Shutdown.
BeginStop == Move("shutdown", "Stopping", "return")

\* The component's Stop() returns nil, or an error that leaves it Stopping.
Stop ==
    \/ Move("stop", "Stopped", "teardown")
    \/ StopMayFail /\ Move("stop", stage, "fail")

\* tearDown closes the channel (if it was made) and forgets it;
\* removeComponent takes the component out of the container.
TearDown ==
    /\ SetStage("teardown", "Teareddown", "return")
    /\ mmux' = IF mmux = "open" THEN "closed" ELSE mmux
    /\ registered' = FALSE
    /\ UNCHANGED <<queue, lock, pc, msg, spc, restarts, adds>>

\* Mutant: the error of a failed Stop is dropped and success is reported.
AfterCallDropsError(site, failed) ==
    CASE site = "init"      -> IF failed THEN "failed" ELSE "register"
      [] site = "start"     -> IF failed THEN "failed" ELSE "added"
      [] site = "shutdown1" -> "check"
      [] site = "shutdown2" -> "reply_exit"
      [] site = "again"     -> IF failed THEN "none" ELSE "rerun"
      [] OTHER              -> "none"

\* Where a call site goes on when its FSM call returned.
AfterCall(site, failed) ==
    CASE site = "init"      -> IF failed THEN "failed" ELSE "register"
      [] site = "start"     -> IF failed THEN "failed" ELSE "added"
      [] site = "shutdown1" -> "check"
      [] site = "shutdown2" -> IF failed THEN "reply_err" ELSE "reply_exit"
      [] site = "again"     -> IF failed THEN "none" ELSE "rerun"
      [] OTHER              -> "none"

\* Mutant: the error returns leave the lock held.
FsmReturnKeepsLock ==
    /\ fsm \in {"return", "fail"}
    /\ lock' = IF fsm = "fail" THEN lock ELSE None
    /\ fsm' = "none"
    /\ pc' = [pc EXCEPT ![lock] = AfterCall(pc[lock], fsm = "fail")]
    /\ UNCHANGED <<stage, mmux, queue, msg, spc, registered, restarts, adds>>

\* The deferred function releases the lock and the caller goes on.
FsmReturn ==
    /\ fsm \in {"return", "fail"}
    /\ lock' = None
    /\ fsm' = "none"
    /\ pc' = [pc EXCEPT ![lock] = AfterCall(pc[lock], fsm = "fail")]
    /\ UNCHANGED <<stage, mmux, queue, msg, spc, registered, restarts, adds>>

FsmBody ==
    \/ Submit \/ Preinitialize \/ BeginInit \/ Initialize \/ Abort
    \/ BeginStart \/ FinishStart \/ Remux \/ Restart \/ BeginStop
    \/ Stop \/ TearDown \/ FsmReturn

----------------------------------------------------------------------------
(* Container.Add and its activation goroutine *)

Add ==
    /\ pc[Act] \in {"idle", "added", "failed"}
    /\ adds < MaxAdds
    /\ pc' = [pc EXCEPT ![Act] = "init"]
    /\ adds' = adds + 1
    /\ UNCHANGED <<stage, mmux, queue, lock, fsm, msg, spc, registered, restarts>>

\* toCanonical takes the mutating lock for a moment (setContainer); a
\* component whose name is registered already is refused.
Register ==
    /\ pc[Act] = "register"
    /\ lock = None
    /\ registered' = TRUE
    /\ pc' = [pc EXCEPT ![Act] = IF registered THEN "failed" ELSE "start"]
    /\ UNCHANGED <<stage, mmux, queue, lock, fsm, msg, spc, restarts, adds>>

\* The first call of Add has returned.
AddReturned == adds > 1 \/ pc[Act] \in {"added", "failed"}

----------------------------------------------------------------------------
(* startMmux, the message multiplexer *)

\* `range comp.getMmux()' evaluates the channel; ranging over nil blocks.
MuxBegin(k) == mmux = "open" /\ Goto(k, "spawned", "receiving")

MuxReceive(k) ==
    /\ pc[k] = "receiving"
    /\ queue # <<>>
    /\ msg' = [msg EXCEPT ![k] = Head(queue)]
    /\ queue' = Tail(queue)
    /\ pc' = [pc EXCEPT ![k] = IF Head(queue) \in Shutdowners
                               THEN "shutdown1" ELSE "handling"]
    /\ UNCHANGED <<stage, mmux, lock, fsm, spc, registered, restarts, adds>>

\* The channel was closed and is empty: the loop ends.
MuxDrained(k) == mmux = "closed" /\ queue = <<>> /\ Goto(k, "receiving", "recover")

\* Any message but Shutdown: handler, persistence and notification succeed,
\* or one of them fails.
MuxHandle(k) == Goto(k, "handling", "reply_ok") \/ Goto(k, "handling", "reply_err")

\* Mutant: the message whose handler panicked is tried again.
MuxPanicRequeues(k) ==
    /\ pc[k] = "handling"
    /\ pc' = [pc EXCEPT ![k] = "recover"]
    /\ queue' = IF queue = <<>> THEN <<msg[k]>> ELSE queue
    /\ msg' = [msg EXCEPT ![k] = None]
    /\ UNCHANGED <<stage, mmux, lock, fsm, spc, registered, restarts, adds>>

\* The handler panics: the sender gets no answer.
MuxPanic(k) ==
    /\ pc[k] = "handling"
    /\ pc' = [pc EXCEPT ![k] = "recover"]
    /\ msg' = [msg EXCEPT ![k] = None]
    /\ UNCHANGED <<stage, mmux, queue, lock, fsm, spc, registered, restarts, adds>>

\* After the first FSM call of a Shutdown: is the component Stopping now?
MuxCheck(k) == Goto(k, "check", IF stage = "Stopping" THEN "shutdown2" ELSE "reply_exit")

\* errCh <- err meets the waiting sender.
MuxReply(k) ==
    /\ pc[k] \in {"reply_ok", "reply_err", "reply_exit"}
    /\ spc[msg[k]] = "waiting"
    /\ spc' = [spc EXCEPT ![msg[k]] = IF pc[k] = "reply_err" THEN "failed" ELSE "ok"]
    /\ pc' = [pc EXCEPT ![k] = IF pc[k] = "reply_exit" THEN "recover" ELSE "receiving"]
    /\ msg' = [msg EXCEPT ![k] = None]
    /\ UNCHANGED <<stage, mmux, queue, lock, fsm, registered, restarts, adds>>

\* Mutant: the multiplexer recovers from the panic and never calls the FSM.
MuxLateReplyNoRecovery(k) ==
    /\ pc[k] \in {"reply_ok", "reply_err", "reply_exit"}
    /\ spc[msg[k]] = "timedout"
    /\ pc' = [pc EXCEPT ![k] = "none"]
    /\ msg' = [msg EXCEPT ![k] = None]
    /\ UNCHANGED <<stage, mmux, queue, lock, fsm, spc, registered, restarts, adds>>

\* errCh <- err on the channel a timed out sender has closed panics.
MuxLateReply(k) ==
    /\ pc[k] \in {"reply_ok", "reply_err", "reply_exit"}
    /\ spc[msg[k]] = "timedout"
    /\ pc' = [pc EXCEPT ![k] = "recover"]
    /\ msg' = [msg EXCEPT ![k] = None]
    /\ UNCHANGED <<stage, mmux, queue, lock, fsm, spc, registered, restarts, adds>>

MuxStep(k) ==
    \/ MuxBegin(k) \/ MuxReceive(k) \/ MuxDrained(k) \/ MuxHandle(k)
    \/ MuxPanic(k) \/ MuxCheck(k) \/ MuxReply(k) \/ MuxLateReply(k)

----------------------------------------------------------------------------
(* startComponent *)

\* The component's Start() returns, with or without an error, or panics.
RunReturns(r) == Goto(r, "running", "exited")

\* The deferred function gives up on a component that is ending or that is
\* not restartable.
RunEnds(r) == Goto(r, "exited", "none")

\* Mutant: the component is restarted without asking IsRestartableWithDelay.
RunRestartsUnasked(r) == stage \notin Ending /\ Goto(r, "exited", "again")

RunRestarts(r) ==
    /\ pc[r] = "exited"
    /\ stage \notin Ending
    /\ Restartable
    /\ restarts < MaxRestarts
    /\ restarts' = restarts + 1
    /\ pc' = [pc EXCEPT ![r] = "again"]
    /\ UNCHANGED <<stage, mmux, queue, lock, fsm, msg, spc, registered, adds>>

----------------------------------------------------------------------------
(* SendSyncMessage *)

\* Sender s, at `at', goes on to `to' and changes nothing else.
SendGoto(s, at, to) ==
    /\ spc[s] = at
    /\ spc' = [spc EXCEPT ![s] = to]
    /\ UNCHANGED <<stage, mmux, queue, lock, fsm, pc, msg, registered, restarts, adds>>

\* The call begins: a component that is ending takes no messages.
SendCheck(s) ==
    /\ s \in EarlySenders \/ AddReturned
    /\ SendGoto(s, "idle", IF stage \in Ending THEN "refused" ELSE "looking")

\* getMmux returns the channel.
SendFound(s) == mmux = "open" /\ SendGoto(s, "looking", "sending")

\* The retries are used up and mMux is still nil: the send on it blocks for ever.
SendOnNil(s) == mmux # "open" /\ SendGoto(s, "looking", "hung")

\* Mutant: the channel is unbounded.
SendPutUnbounded(s) ==
    /\ spc[s] = "sending"
    /\ mmux = "open"
    /\ queue' = Append(queue, s)
    /\ spc' = [spc EXCEPT ![s] = "waiting"]
    /\ UNCHANGED <<stage, mmux, lock, fsm, pc, msg, registered, restarts, adds>>

\* The send blocks while the channel's buffer is full.
SendPut(s) ==
    /\ spc[s] = "sending"
    /\ mmux = "open"
    /\ Len(queue) < ChanCap
    /\ queue' = Append(queue, s)
    /\ spc' = [spc EXCEPT ![s] = "waiting"]
    /\ UNCHANGED <<stage, mmux, lock, fsm, pc, msg, registered, restarts, adds>>

\* The channel was closed after getMmux returned it: the send panics, in the
\* caller's goroutine, and takes the process down.
SendOnClosed(s) == mmux = "closed" /\ SendGoto(s, "sending", "panicked")

\* The context's deadline passes; errCh is closed on the way out.
SendTimeout(s) == SendGoto(s, "waiting", "timedout")

\* What a sender does by itself once its call has begun.
SendProgress(s) ==
    \/ SendFound(s) \/ SendOnNil(s) \/ SendPut(s) \/ SendOnClosed(s) \/ SendTimeout(s)

----------------------------------------------------------------------------
(* Specification *)

Crashed == \E s \in Senders : spc[s] = "panicked"

Next ==
    /\ ~Crashed
    /\ \/ \E p \in Procs : FsmEnter(p)
       \/ FsmBody
       \/ Add
       \/ Register
       \/ \E k \in Muxes : MuxStep(k)
       \/ \E r \in Runs : RunReturns(r) \/ RunEnds(r) \/ RunRestarts(r)
       \/ \E s \in Senders : SendCheck(s) \/ SendProgress(s)

Spec == Init /\ [][Next]_vars

\* The scheduler runs every goroutine that can go on (Go's runtime and its
\* mutexes starve nobody).  Nothing makes a client call SendSyncMessage or
\* Add, and nothing makes Start() return.
Fairness ==
    /\ \A p \in Procs : WF_vars(~Crashed /\ FsmEnter(p))
    /\ WF_vars(~Crashed /\ FsmBody)
    /\ WF_vars(~Crashed /\ Register)
    /\ \A k \in Muxes : WF_vars(~Crashed /\ MuxStep(k))
    /\ \A r \in Runs : WF_vars(~Crashed /\ (RunEnds(r) \/ RunRestarts(r)))
    /\ \A s \in Senders : WF_vars(~Crashed /\ SendProgress(s))

FairSpec == Spec /\ Fairness

----------------------------------------------------------------------------
(* Safety *)

\* A multiplexer goroutine that is able to take and work on messages.
MuxLive(k) == pc[k] \notin {"none", "recover"}

\* At most one multiplexer of the component is alive at any time, however
\* often it panics, times out its senders or is restarted, so its messages
\* are worked on one after the other (startMmux, RestartMmux in the FSM).
SerialMux == \A j, k \in Muxes : MuxLive(j) /\ MuxLive(k) => j = k

\* Once a component has begun to end, no goroutine (a pending restart, a
\* multiplexer recovery, a second Add) brings it back to an earlier stage.
ShutdownIrrevocable == [][(stage \in Ending) => (stage' \in Ending)]_vars

\* Until a component asks to be restarted, no two goroutines run its Start() at
\* the same time, whoever made the FSM call that started it (the case
\* Initialized, Restarting): Add, a second Add or an early Shutdown.
SingleStart ==
    restarts = 0 => \A q, r \in Runs : pc[q] = "running" /\ pc[r] = "running" => q = r

\* A recovery call that has nothing left to do but return.
Spent(k) == pc[k] = "recover" /\ lock = k /\ fsm = "return"

\* A goroutine that is a multiplexer or is still to call for a new one.
MuxOwed(k) == pc[k] # "none" /\ ~Spent(k)

\* Until it asks to be restarted, a Started component has a multiplexer, or a
\* goroutine that is on its way to start one: no panic and no late answer leaves
\* it deaf.
StartedHasMux == restarts = 0 /\ stage = "Started" => \E k \in Muxes : MuxOwed(k)

\* When SendSyncMessage returns nil for a Shutdown sent after Add has returned,
\* to a component that was not restarted, the component's Stop() has succeeded.
AckedShutdown ==
    restarts = 0 =>
        \A s \in Shutdowners \ EarlySenders : spc[s] = "ok" => stage \in {"Stopped", "Teareddown"}

----------------------------------------------------------------------------
(* Refinement *)

\* The messages in work, and a call as its client sees it.
Busy == {msg[k] : k \in Muxes} \ {None}
Called(s) == IF spc[s] \in {"looking", "hung", "sending"} THEN "calling" ELSE spc[s]

Server == INSTANCE MessageServer WITH
    Clients <- Senders, Capacity <- ChanCap,
    phase <- mmux, box <- queue, busy <- Busy, client <- [s \in Senders |-> Called(s)]

\* Through panics, late answers, restarts of the multiplexer and of the component,
\* the clients of SendSyncMessage see a server that works on one message at a
\* time, in order, and answers each at most once.
ImplementsServer == Server!Spec

----------------------------------------------------------------------------
(* Usage *)

\* The usage the repository's tests follow: messages are sent after Add has
\* returned, to a component that does not ask to be restarted.
Disciplined == EarlySenders = {} /\ ~Restartable

(* Liveness, under FairSpec *)

InQueue(s) == \E i \in 1..Len(queue) : queue[i] = s

\* Every call of Add returns: the activation goroutine always gets the lock
\* and the FSM always comes back to it.
AddReturns == pc[Act] = "init" ~> pc[Act] \in {"added", "failed"} \/ Crashed

\* A component that is Stopping and whose Stop() succeeds is torn down,
\* whichever goroutine makes the next FSM call.
ShutdownCompletes == stage = "Stopping" ~> stage = "Teareddown"

\* A message in the channel of a component that is not ending is taken.
MessagesRouted == \A s \in Senders : InQueue(s) ~> ~InQueue(s) \/ stage \in Ending
=============================================================================
