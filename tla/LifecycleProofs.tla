-------------------------- MODULE LifecycleProofs --------------------------
(***************************************************************************)
(* Proofs about Lifecycle, for any number of senders, multiplexer slots    *)
(* and restarts.                                                           *)
(***************************************************************************)
EXTENDS Lifecycle, TLAPS

----------------------------------------------------------------------------
(* Types and the FSM *)

\* The stages at which no FSM call is in progress.
RestStages == {"Submitted", "Initialized", "Started", "Restarting", "Stopping",
               "Tearingdown", "Teareddown"}

\* The lock protects the FSM: a call in progress knows the stage it is at.
FsmInv ==
    /\ lock = None <=> fsm = "none"
    /\ lock # None => pc[lock] \in CallSites
    /\ fsm = "submitted"       => stage = "Submitted"
    /\ fsm = "preinitializing" => stage = "Preinitializing"
    /\ fsm = "preinitialized"  => stage = "Preinitialized"
    /\ fsm = "initializing"    => stage = "Initializing"
    /\ fsm = "aborting"        => stage = "Aborting"
    /\ fsm = "start"           => stage \in {"Initialized", "Restarting"}
    /\ fsm = "starting"        => stage = "Starting"
    /\ fsm \in {"remux", "restart", "shutdown"} => stage = "Started"
    /\ fsm = "remux"           => pc[lock] = "recover"
    /\ fsm = "restart"         => pc[lock] \in {"again", "rerun"}
    /\ fsm = "stop"            => stage = "Stopping"
    /\ fsm = "teardown"        => stage \in {"Stopped", "Tearingdown"}
    /\ fsm = "fail"            => stage \in {"Stopping", "Tearingdown"}
    /\ fsm \in {"none", "return"} => stage \in RestStages

TypeInv == TypeOK /\ FsmInv

USE ConstantsAssumption DEF SetStage, Move, Goto, SendGoto

LEMMA TypeInvInit == Init => TypeInv
<1> SUFFICES ASSUME Init PROVE TypeInv
  OBVIOUS
<1>1. pc \in [Procs -> ActPcs \union MuxPcs \union RunPcs]
  BY DEF Init, ActPcs, MuxPcs, RunPcs
<1>2. pc[Act] \in ActPcs /\ \A k \in Muxes : pc[k] \in MuxPcs
  BY DEF Init, Procs, ActPcs, MuxPcs
<1>3. \A r \in Runs : pc[r] \in RunPcs
  BY DEF Init, Procs, RunPcs
<1>4. queue \in Seq(Senders) /\ Len(queue) <= ChanCap
  BY DEF Init, ChanCap
<1>5. msg \in [Muxes -> Senders \union {None}] /\ spc \in [Senders -> SenderPcs]
  BY DEF Init, SenderPcs
<1>6. TypeOK
  <2>1. stage \in Stages /\ fsm \in FsmSteps \union {"none"} /\ mmux \in {"nil", "open", "closed"}
    BY DEF Init, Stages, FsmSteps
  <2>2. lock \in Procs \union {None} /\ registered \in BOOLEAN
    BY DEF Init
  <2>3. restarts \in 0..MaxRestarts /\ adds \in 0..MaxAdds
    BY DEF Init
  <2> QED BY <1>1, <1>2, <1>3, <1>4, <1>5, <2>1, <2>2, <2>3 DEF TypeOK
<1>7. FsmInv
  BY DEF Init, FsmInv, RestStages
<1> QED BY <1>6, <1>7 DEF TypeInv

\* An FSM call begins at the step its stage asks for.
LEMMA TypeInvEnter ==
    ASSUME TypeInv, NEW p \in Procs, FsmEnter(p)
    PROVE  TypeInv'
<1> USE DEF TypeInv, FsmEnter
<1>1. stage \in RestStages /\ lock = None /\ fsm = "none"
  BY DEF FsmInv
<1>2. TypeOK'
  BY <1>1 DEF TypeOK, Dispatch, FsmSteps, Procs
<1>3. p # None
  BY DEF Procs
<1>4. FsmInv'
  BY <1>1, <1>3 DEF FsmInv, TypeOK, Dispatch, Ctl, RestStages, CallSites
<1> QED BY <1>2, <1>4

LEMMA TypeInvBody ==
    ASSUME TypeInv, FsmBody
    PROVE  TypeInv'
<1> USE DEF TypeInv, RestStages, Stages
<1>1. fsm # "none" /\ lock # None /\ lock \in Procs
  BY DEF FsmBody, Submit, Preinitialize, BeginInit, Initialize, Abort, BeginStart,
         FinishStart, Remux, Restart, BeginStop, Stop, TearDown, FsmReturn, FsmInv, TypeOK
<1>2. CASE Submit
  BY <1>1, <1>2 DEF Submit, TypeOK, FsmInv, FsmSteps
<1>3. CASE Preinitialize
  <2>1. PICK g \in Muxes : pc[g] = "none" /\ pc' = [pc EXCEPT ![g] = "spawned"]
    BY <1>3 DEF Preinitialize, Spawn
  <2>2. TypeOK'
    BY <1>3, <2>1 DEF Preinitialize, TypeOK, FsmSteps, MuxPcs, Procs
  <2>3. FsmInv'
    BY <1>1, <1>3, <2>1 DEF Preinitialize, TypeOK, FsmInv, CallSites, Procs
  <2> QED BY <2>2, <2>3
<1>4. CASE BeginInit
  BY <1>1, <1>4 DEF BeginInit, TypeOK, FsmInv, FsmSteps
<1>5. CASE Initialize
  BY <1>1, <1>5 DEF Initialize, TypeOK, FsmInv, FsmSteps
<1>6. CASE Abort
  BY <1>1, <1>6 DEF Abort, TypeOK, FsmInv, FsmSteps
<1>7. CASE BeginStart
  BY <1>1, <1>7 DEF BeginStart, TypeOK, FsmInv, FsmSteps
<1>8. CASE FinishStart
  <2>1. PICK g \in Runs : pc[g] = "none" /\ pc' = [pc EXCEPT ![g] = "running"]
    BY <1>8 DEF FinishStart, Spawn
  <2>2. TypeOK'
    BY <1>8, <2>1 DEF FinishStart, TypeOK, FsmSteps, RunPcs, Procs
  <2>3. FsmInv'
    BY <1>1, <1>8, <2>1 DEF FinishStart, TypeOK, FsmInv, CallSites, Procs
  <2> QED BY <2>2, <2>3
<1>9. CASE Remux
  <2>1. PICK g \in Muxes : pc[g] = "none" /\ pc' = [pc EXCEPT ![g] = "spawned"]
    BY <1>9 DEF Remux, Spawn
  <2>2. TypeOK'
    BY <1>9, <2>1 DEF Remux, TypeOK, FsmSteps, MuxPcs, Procs
  <2>3. FsmInv'
    BY <1>1, <1>9, <2>1 DEF Remux, TypeOK, FsmInv, CallSites, Procs
  <2> QED BY <2>2, <2>3
<1>10. CASE Restart
  BY <1>1, <1>10 DEF Restart, TypeOK, FsmInv, FsmSteps
<1>11. CASE BeginStop
  BY <1>1, <1>11 DEF BeginStop, TypeOK, FsmInv, FsmSteps
<1>12. CASE Stop
  BY <1>1, <1>12 DEF Stop, TypeOK, FsmInv, FsmSteps
<1>13. CASE TearDown
  BY <1>1, <1>13 DEF TearDown, TypeOK, FsmInv, FsmSteps
<1>14. CASE FsmReturn
  <2>1. pc[lock] \in CallSites
    BY <1>1 DEF FsmInv
  <2>2. pc' \in [Procs -> ActPcs \union MuxPcs \union RunPcs]
    BY <1>14, <2>1 DEF FsmReturn, TypeOK, AfterCall, CallSites, ActPcs, MuxPcs, RunPcs
  <2>3. pc'[Act] \in ActPcs
    BY <1>14, <2>1 DEF FsmReturn, TypeOK, AfterCall, CallSites, ActPcs, Procs
  <2>4. \A k \in Muxes : pc'[k] \in MuxPcs
    BY <1>14, <2>1 DEF FsmReturn, TypeOK, AfterCall, CallSites, MuxPcs, Procs
  <2>5. \A r \in Runs : pc'[r] \in RunPcs
    BY <1>14, <2>1 DEF FsmReturn, TypeOK, AfterCall, CallSites, RunPcs, Procs
  <2>6. TypeOK'
    BY <1>14, <2>2, <2>3, <2>4, <2>5 DEF FsmReturn, TypeOK
  <2>7. FsmInv'
    BY <1>14 DEF FsmReturn, FsmInv
  <2> QED BY <2>6, <2>7
<1> QED
  BY <1>2, <1>3, <1>4, <1>5, <1>6, <1>7, <1>8, <1>9, <1>10, <1>11, <1>12, <1>13, <1>14
     DEF FsmBody

\* A goroutine that is not calling the FSM does not hold the lock: what it
\* does to its own program counter does not concern the FSM.
LEMMA OutsideFsm ==
    ASSUME TypeInv, NEW q \in Procs, pc[q] \notin CallSites, NEW x,
           pc' = [pc EXCEPT ![q] = x], UNCHANGED <<stage, lock, fsm>>
    PROVE  FsmInv'
<1>1. lock # None => lock # q /\ pc'[lock] = pc[lock]
  BY DEF TypeInv, TypeOK, FsmInv
<1>2. fsm \in {"remux", "restart"} => lock # None
  BY DEF TypeInv, FsmInv
<1> QED BY <1>1, <1>2 DEF TypeInv, FsmInv

LEMMA TypeInvAct ==
    ASSUME TypeInv, Add \/ Register
    PROVE  TypeInv'
<1>1. CASE Add
  <2>1. TypeOK'
    BY <1>1 DEF Add, TypeInv, TypeOK, ActPcs, Procs
  <2>2. FsmInv'
    BY <1>1, OutsideFsm, Act \in Procs DEF Add, CallSites, Procs
  <2> QED BY <2>1, <2>2 DEF TypeInv
<1>2. CASE Register
  <2>1. pc' \in [Procs -> ActPcs \union MuxPcs \union RunPcs] /\ pc'[Act] \in ActPcs
    BY <1>2 DEF Register, TypeInv, TypeOK, ActPcs, Procs
  <2>2. \A g \in Muxes \union Runs : pc'[g] = pc[g]
    BY <1>2 DEF Register, TypeInv, TypeOK, Procs
  <2>3. registered' \in BOOLEAN
    BY <1>2 DEF Register
  <2>4. TypeOK'
    BY <1>2, <2>1, <2>2, <2>3 DEF Register, TypeInv, TypeOK
  <2>5. FsmInv'
    BY <1>2 DEF Register, TypeInv, FsmInv
  <2> QED BY <2>4, <2>5 DEF TypeInv
<1> QED BY <1>1, <1>2

\* Channel operations keep the queue a sequence within its capacity.
LEMMA QueuePut ==
    ASSUME queue \in Seq(Senders), NEW s \in Senders, Len(queue) < ChanCap
    PROVE  Append(queue, s) \in Seq(Senders) /\ Len(Append(queue, s)) <= ChanCap
BY DEF ChanCap

LEMMA QueueTake ==
    ASSUME queue \in Seq(Senders), Len(queue) <= ChanCap, queue # <<>>
    PROVE  /\ Tail(queue) \in Seq(Senders)
           /\ Len(Tail(queue)) <= ChanCap
           /\ Head(queue) \in Senders
BY DEF ChanCap

LEMMA TypeInvMux ==
    ASSUME TypeInv, NEW k \in Muxes, MuxStep(k)
    PROVE  TypeInv'
<1> USE DEF TypeInv
<1>1. k \in Procs /\ pc[k] \in MuxPcs
  BY DEF Procs, TypeOK
<1>2. TypeOK'
  <2>1. CASE MuxBegin(k)
    BY <2>1 DEF MuxBegin, TypeOK, MuxPcs, Procs
  <2>2. CASE MuxReceive(k)
    BY <2>2, QueueTake DEF MuxReceive, TypeOK, MuxPcs, Procs
  <2>3. CASE MuxDrained(k)
    BY <2>3 DEF MuxDrained, TypeOK, MuxPcs, Procs
  <2>4. CASE MuxHandle(k)
    BY <2>4 DEF MuxHandle, TypeOK, MuxPcs, Procs
  <2>5. CASE MuxPanic(k)
    BY <2>5 DEF MuxPanic, TypeOK, MuxPcs, Procs
  <2>6. CASE MuxCheck(k)
    BY <2>6 DEF MuxCheck, TypeOK, MuxPcs, Procs
  <2>7. CASE MuxReply(k)
    BY <2>7 DEF MuxReply, TypeOK, MuxPcs, SenderPcs, Procs
  <2>8. CASE MuxLateReply(k)
    BY <2>8 DEF MuxLateReply, TypeOK, MuxPcs, Procs
  <2> QED BY <2>1, <2>2, <2>3, <2>4, <2>5, <2>6, <2>7, <2>8 DEF MuxStep
<1>3. FsmInv'
  BY <1>1, OutsideFsm
     DEF MuxStep, MuxBegin, MuxReceive, MuxDrained, MuxHandle, MuxPanic, MuxCheck,
         MuxReply, MuxLateReply, CallSites
<1> QED BY <1>2, <1>3

RunStep(r) == RunReturns(r) \/ RunEnds(r) \/ RunRestarts(r)

LEMMA TypeInvRun ==
    ASSUME TypeInv, NEW r \in Runs, RunStep(r)
    PROVE  TypeInv'
<1> USE DEF TypeInv
<1>1. r \in Procs
  BY DEF Procs
<1>2. TypeOK'
  BY DEF RunStep, RunReturns, RunEnds, RunRestarts, TypeOK, RunPcs, Procs
<1>3. FsmInv'
  BY <1>1, OutsideFsm DEF RunStep, RunReturns, RunEnds, RunRestarts, CallSites
<1> QED BY <1>2, <1>3

SendStep(s) == SendCheck(s) \/ SendProgress(s)

LEMMA TypeInvSend ==
    ASSUME TypeInv, NEW s \in Senders, SendStep(s)
    PROVE  TypeInv'
<1> USE DEF TypeInv
<1>1. /\ UNCHANGED <<stage, mmux, lock, fsm, pc, msg, registered, restarts, adds>>
      /\ \E x \in SenderPcs : spc' = [spc EXCEPT ![s] = x]
  BY DEF SendStep, SendProgress, SendCheck, SendFound, SendOnNil, SendPut, SendOnClosed,
         SendTimeout, SenderPcs
<1>2. queue' \in Seq(Senders) /\ Len(queue') <= ChanCap
  BY QueuePut DEF SendStep, SendProgress, SendCheck, SendFound, SendOnNil, SendPut,
         SendOnClosed, SendTimeout, TypeOK
<1>3. TypeOK'
  BY <1>1, <1>2 DEF TypeOK
<1>4. FsmInv'
  BY <1>1 DEF FsmInv
<1> QED BY <1>3, <1>4

\* The disjuncts of Next, for the proofs by cases.
LEMMA NextCases ==
    ASSUME Next
    PROVE  \/ \E p \in Procs : FsmEnter(p)
           \/ FsmBody
           \/ Add \/ Register
           \/ \E k \in Muxes : MuxStep(k)
           \/ \E r \in Runs : RunStep(r)
           \/ \E s \in Senders : SendStep(s)
BY DEF Next, RunStep, SendStep

LEMMA TypeInvNext == TypeInv /\ [Next]_vars => TypeInv'
<1> SUFFICES ASSUME TypeInv, [Next]_vars PROVE TypeInv'
  OBVIOUS
<1>1. CASE Next
  BY <1>1, NextCases, TypeInvEnter, TypeInvBody, TypeInvAct, TypeInvMux, TypeInvRun,
     TypeInvSend
<1>2. CASE UNCHANGED vars
  BY <1>2 DEF vars, TypeInv, TypeOK, FsmInv
<1> QED BY <1>1, <1>2

\* Every variable keeps its type, the channel never holds more than its
\* capacity, and a call of componentLifecycleFSM in progress is at the stage
\* its program point stands for.
THEOREM TypeCorrect == Spec => []TypeOK
<1>1. Spec => []TypeInv
  BY TypeInvInit, TypeInvNext, PTL DEF Spec
<1>2. TypeInv => TypeOK
  BY DEF TypeInv
<1> QED BY <1>1, <1>2, PTL

\* A component that has begun to end never returns to an earlier stage.
THEOREM ShutdownIsIrrevocable == Spec => ShutdownIrrevocable
<1>1. TypeInv /\ [Next]_vars => [(stage \in Ending) => (stage' \in Ending)]_vars
  <2> SUFFICES ASSUME TypeInv, Next, stage \in Ending
               PROVE  stage' \in Ending
    OBVIOUS
  <2>1. CASE FsmBody
    BY <2>1 DEF FsmBody, Submit, Preinitialize, BeginInit, Initialize, Abort, BeginStart,
         FinishStart, Remux, Restart, BeginStop, Stop, TearDown, FsmReturn,
         TypeInv, FsmInv, Ending
  <2>2. CASE ~FsmBody
    BY <2>2, NextCases
       DEF FsmEnter, Add, Register, MuxStep, MuxBegin, MuxReceive, MuxDrained, MuxHandle,
           MuxPanic, MuxCheck, MuxReply, MuxLateReply, RunStep, RunReturns, RunEnds,
           RunRestarts, SendStep, SendProgress, SendCheck, SendFound, SendOnNil, SendPut,
           SendOnClosed, SendTimeout
  <2> QED BY <2>1, <2>2
<1>2. Spec => []TypeInv
  BY TypeInvInit, TypeInvNext, PTL DEF Spec
<1> QED BY <1>1, <1>2, PTL DEF Spec, ShutdownIrrevocable
----------------------------------------------------------------------------
(* One multiplexer *)

\* There is one claim to be the multiplexer: it is created with the channel,
\* and handed on by a RestartMmux call of the goroutine that holds it.
MuxInv ==
    /\ \A j, k \in Muxes : MuxOwed(j) /\ MuxOwed(k) => j = k
    /\ mmux = "nil" => \A k \in Muxes : pc[k] = "none"
    /\ stage \in {"Submitted", "Preinitializing"} => mmux = "nil"

LEMMA MuxInvBody ==
    ASSUME TypeInv, MuxInv, FsmBody
    PROVE  MuxInv'
<1> USE DEF MuxInv, MuxOwed, Spent
<1>1. CASE Preinitialize
  <2>1. PICK g \in Muxes : pc[g] = "none" /\ pc' = [pc EXCEPT ![g] = "spawned"]
    BY <1>1 DEF Preinitialize, Spawn
  <2>2. \A k \in Muxes : k # g => pc'[k] = "none"
    BY <1>1, <2>1 DEF Preinitialize, TypeInv, TypeOK, FsmInv, Procs
  <2> QED BY <1>1, <2>2 DEF Preinitialize
<1>2. CASE Remux
  <2>1. PICK g \in Muxes : pc[g] = "none" /\ pc' = [pc EXCEPT ![g] = "spawned"]
    BY <1>2 DEF Remux, Spawn
  <2>2. pc[lock] = "recover" /\ lock \in Muxes /\ MuxOwed(lock)
    BY <1>2 DEF Remux, TypeInv, TypeOK, FsmInv, Procs, ActPcs, RunPcs
  <2>3. \A k \in Muxes : k # g /\ k # lock => pc'[k] = "none"
    BY <1>2, <2>1, <2>2 DEF Remux, TypeInv, TypeOK, Procs
  <2>4. Spent(lock)'
    BY <1>2, <2>1, <2>2 DEF Remux, TypeInv, TypeOK, Procs
  <2>5. \A k \in Muxes : MuxOwed(k)' => k = g
    BY <2>3, <2>4, <1>2 DEF Remux
  <2> QED BY <1>2, <2>2, <2>5 DEF Remux, TypeInv, FsmInv
<1>3. CASE FinishStart
  <2>1. \A k \in Muxes : pc'[k] = pc[k]
    BY <1>3 DEF FinishStart, Spawn, TypeInv, TypeOK, Procs
  <2> QED BY <1>3, <2>1 DEF FinishStart
<1>4. CASE FsmReturn
  <2>1. \A k \in Muxes : k # lock => pc'[k] = pc[k]
    BY <1>4 DEF FsmReturn, TypeInv, TypeOK, Procs
  <2>2. \A k \in Muxes : pc'[k] # "none" => pc[k] # "none" /\ ~Spent(k)
    BY <1>4, <2>1 DEF FsmReturn, AfterCall, TypeInv, TypeOK, FsmInv, CallSites, Procs
  <2> QED BY <1>4, <2>2 DEF FsmReturn
<1>5. CASE \/ Submit \/ BeginInit \/ Initialize \/ Abort \/ BeginStart \/ Restart
           \/ BeginStop \/ Stop \/ TearDown
  BY <1>5 DEF Submit, BeginInit, Initialize, Abort, BeginStart, Restart, BeginStop, Stop,
              TearDown, TypeInv, TypeOK, FsmInv
<1> QED BY <1>1, <1>2, <1>3, <1>4, <1>5 DEF FsmBody

LEMMA MuxInvNext ==
    ASSUME TypeInv, MuxInv, [Next]_vars
    PROVE  MuxInv'
<1> USE DEF MuxInv, MuxOwed, Spent
<1>1. ASSUME NEW p \in Procs, FsmEnter(p) PROVE MuxInv'
  <2>1. \A k \in Muxes : pc[k] # "none" => MuxOwed(k)
    BY <1>1 DEF FsmEnter, Procs
  <2> QED BY <1>1, <2>1 DEF FsmEnter
<1>2. CASE FsmBody
  BY <1>2, MuxInvBody
<1>3. CASE Add \/ Register
  <2>1. \A k \in Muxes : pc'[k] = pc[k]
    BY <1>3 DEF Add, Register, TypeInv, TypeOK, Procs
  <2> QED BY <1>3, <2>1 DEF Add, Register
<1>4. ASSUME NEW k \in Muxes, MuxStep(k) PROVE MuxInv'
  <2>1. pc[k] \notin {"none", "recover"} /\ MuxOwed(k)
    BY <1>4 DEF MuxStep, MuxBegin, MuxReceive, MuxDrained, MuxHandle, MuxPanic, MuxCheck,
                MuxReply, MuxLateReply
  <2>2. /\ \A j \in Muxes : j # k => pc'[j] = pc[j]
        /\ UNCHANGED <<stage, mmux, lock, fsm>>
    BY <1>4 DEF MuxStep, MuxBegin, MuxReceive, MuxDrained, MuxHandle, MuxPanic, MuxCheck,
                MuxReply, MuxLateReply, TypeInv, TypeOK, Procs
  <2> QED BY <2>1, <2>2
<1>5. ASSUME NEW r \in Runs, RunStep(r) PROVE MuxInv'
  <2>1. \A k \in Muxes : pc'[k] = pc[k]
    BY <1>5 DEF RunStep, RunReturns, RunEnds, RunRestarts, TypeInv, TypeOK, Procs
  <2> QED BY <1>5, <2>1 DEF RunStep, RunReturns, RunEnds, RunRestarts
<1>6. ASSUME NEW s \in Senders, SendStep(s) PROVE MuxInv'
  BY <1>6 DEF SendStep, SendProgress, SendCheck, SendFound, SendOnNil, SendPut,
              SendOnClosed, SendTimeout
<1>7. CASE UNCHANGED vars
  BY <1>7 DEF vars
<1> QED BY <1>1, <1>2, <1>3, <1>4, <1>5, <1>6, <1>7, NextCases

\* At most one multiplexer of a component is alive, whatever panics, late
\* answers, restarts and repeated calls of Add happen.
THEOREM MuxIsSerial == Spec => []SerialMux
<1>1. Init => MuxInv
  BY DEF Init, MuxInv, MuxOwed, Procs
<1>2. Spec => [](TypeInv /\ MuxInv)
  BY TypeInvInit, TypeInvNext, <1>1, MuxInvNext, PTL DEF Spec
<1>3. MuxInv => SerialMux
  BY DEF MuxInv, SerialMux, MuxLive, MuxOwed, Spent
<1> QED BY <1>2, <1>3, PTL

----------------------------------------------------------------------------
(* One Start *)

\* Of a component that was never restarted, FinishStart happens once.
RunInv ==
    /\ stage # "Restarting"
    /\ \A r \in Runs : pc[r] \notin {"again", "rerun"}
    /\ stage \in {"Submitted", "Preinitializing", "Preinitialized", "Initializing",
                  "Initialized", "Starting"} => \A r \in Runs : pc[r] = "none"
    /\ \A q, r \in Runs : pc[q] # "none" /\ pc[r] # "none" => q = r

LEMMA RunInvNext ==
    ASSUME ~Restartable \/ restarts' = 0, TypeInv, RunInv, [Next]_vars
    PROVE  RunInv'
<1> USE DEF RunInv
<1>1. ASSUME NEW p \in Procs, FsmEnter(p) PROVE RunInv'
  BY <1>1 DEF FsmEnter
<1>2. CASE FsmBody
  <2>1. fsm # "restart"
    BY DEF TypeInv, TypeOK, FsmInv, Procs, ActPcs, MuxPcs, FsmSteps
  <2>2. CASE FinishStart
    <3>1. PICK g \in Runs : pc[g] = "none" /\ pc' = [pc EXCEPT ![g] = "running"]
      BY <2>2 DEF FinishStart, Spawn
    <3>2. \A r \in Runs : pc'[r] = IF r = g THEN "running" ELSE "none"
      BY <2>2, <3>1 DEF FinishStart, TypeInv, TypeOK, FsmInv, Procs
    <3> QED BY <2>2, <3>2 DEF FinishStart
  <2>3. CASE Preinitialize \/ Remux
    <3>1. \A r \in Runs : pc'[r] = pc[r]
      BY <2>3 DEF Preinitialize, Remux, Spawn, TypeInv, TypeOK, Procs
    <3> QED BY <2>3, <3>1 DEF Preinitialize, Remux, TypeInv, FsmInv
  <2>4. CASE FsmReturn
    <3>1. \A r \in Runs : pc'[r] = pc[r]
      BY <2>4 DEF FsmReturn, TypeInv, TypeOK, FsmInv, CallSites, RunPcs, Procs
    <3> QED BY <2>4, <3>1 DEF FsmReturn
  <2>5. CASE \/ Submit \/ BeginInit \/ Initialize \/ Abort \/ BeginStart
             \/ BeginStop \/ Stop \/ TearDown
    BY <2>5 DEF Submit, BeginInit, Initialize, Abort, BeginStart, BeginStop, Stop,
                TearDown, TypeInv, FsmInv
  <2> QED BY <1>2, <2>1, <2>2, <2>3, <2>4, <2>5 DEF FsmBody, Restart
<1>3. CASE Add \/ Register
  <2>1. \A r \in Runs : pc'[r] = pc[r]
    BY <1>3 DEF Add, Register, TypeInv, TypeOK, Procs
  <2> QED BY <1>3, <2>1 DEF Add, Register
<1>4. ASSUME NEW k \in Muxes, MuxStep(k) PROVE RunInv'
  <2>1. UNCHANGED stage /\ \A r \in Runs : pc'[r] = pc[r]
    BY <1>4 DEF MuxStep, MuxBegin, MuxReceive, MuxDrained, MuxHandle, MuxPanic, MuxCheck,
                MuxReply, MuxLateReply, TypeInv, TypeOK, Procs
  <2> QED BY <2>1
<1>5. ASSUME NEW r \in Runs, RunStep(r) PROVE RunInv'
  <2>1. ~RunRestarts(r)
    BY ConstantsAssumption DEF RunRestarts, TypeInv, TypeOK
  <2> QED BY <1>5, <2>1 DEF RunStep, RunReturns, RunEnds, Goto, TypeInv, TypeOK, Procs
<1>6. ASSUME NEW s \in Senders, SendStep(s) PROVE RunInv'
  BY <1>6 DEF SendStep, SendProgress, SendCheck, SendFound, SendOnNil, SendPut,
              SendOnClosed, SendTimeout
<1>7. CASE UNCHANGED vars
  BY <1>7 DEF vars
<1> QED BY <1>1, <1>2, <1>3, <1>4, <1>5, <1>6, <1>7, NextCases

LEMMA RestartsNext ==
    ASSUME TypeInv, [Next]_vars, restarts' = 0
    PROVE  restarts = 0
<1>1. restarts \in Nat
  BY ConstantsAssumption DEF TypeInv, TypeOK
<1>2. ASSUME NEW p \in Procs, FsmEnter(p) PROVE restarts' = restarts
  BY <1>2 DEF FsmEnter
<1>3. CASE FsmBody
  BY <1>3 DEF FsmBody, Submit, Preinitialize, BeginInit, Initialize, Abort, BeginStart, FinishStart,
              Remux, Restart, BeginStop, Stop, TearDown, FsmReturn, Move
<1>4. CASE Add \/ Register
  BY <1>4 DEF Add, Register
<1>5. ASSUME NEW k \in Muxes, MuxStep(k) PROVE restarts' = restarts
  BY <1>5 DEF MuxStep, MuxBegin, MuxReceive, MuxDrained, MuxHandle, MuxPanic, MuxCheck,
              MuxReply, MuxLateReply, Goto
<1>6. ASSUME NEW r \in Runs, RunStep(r) PROVE restarts' = restarts \/ restarts' = restarts + 1
  BY <1>6 DEF RunStep, RunReturns, RunEnds, RunRestarts, Goto
<1>7. ASSUME NEW s \in Senders, SendStep(s) PROVE restarts' = restarts
  BY <1>7 DEF SendStep, SendProgress, SendCheck, SendFound, SendOnNil, SendPut,
              SendOnClosed, SendTimeout, SendGoto
<1>8. CASE UNCHANGED vars
  BY <1>8 DEF vars
<1> QED BY <1>1, <1>2, <1>3, <1>4, <1>5, <1>6, <1>7, <1>8, NextCases

\* The Start() of a component that has not asked to be restarted yet is run by
\* one goroutine at a time, even when Shutdown or recovery calls make the
\* Initialized to Started transition in the place of the activation goroutine.
THEOREM StartIsSingle == Spec => []SingleStart
<1> DEFINE IInv == restarts = 0 => RunInv
<1>1. Init => IInv
  BY DEF Init, RunInv, Procs
<1>2. TypeInv /\ IInv /\ [Next]_vars => IInv'
  BY RunInvNext, RestartsNext
<1> HIDE DEF IInv
<1>3. Spec => [](TypeInv /\ IInv)
  BY TypeInvInit, TypeInvNext, <1>1, <1>2, PTL DEF Spec
<1>4. IInv => SingleStart
  BY DEF IInv, RunInv, SingleStart
<1> QED BY <1>3, <1>4, PTL

----------------------------------------------------------------------------
(* Disciplined use: nobody sends before Add has returned, no restarts *)

\* While the first Add runs, the activation goroutine is alone: no message is
\* on its way and the FSM is where the goroutine's last call left it.
Activating ==
    /\ lock \in {None, Act}
    /\ \A s \in Senders : spc[s] = "idle"
    /\ queue = <<>>
    /\ \A k \in Muxes : pc[k] \in {"none", "spawned", "receiving"}
    /\ mmux # "closed"
    /\ pc[Act] = "idle" => stage = "Submitted"
    /\ pc[Act] = "init" =>
          /\ fsm \in {"none", "submitted", "preinitializing", "preinitialized",
                      "initializing", "aborting", "return", "fail"}
          /\ fsm = "none" => stage = "Submitted"
          /\ fsm = "return" => stage = "Initialized"
          /\ fsm = "fail" => stage = "Tearingdown"
    /\ pc[Act] = "register" => stage = "Initialized"
    /\ pc[Act] = "start" =>
          /\ fsm \in {"none", "start", "starting", "return"}
          /\ fsm = "none" => stage = "Initialized"
          /\ fsm = "return" => stage = "Started"
    /\ registered => pc[Act] = "start"

\* Once Add has returned the component is Started or ending.
Activated ==
    /\ stage \in {"Started", "Stopping", "Stopped", "Tearingdown", "Teareddown"}
    /\ fsm \in {"none", "remux", "shutdown", "stop", "teardown", "return", "fail"}

PhaseInv ==
    /\ pc[Act] = "idle" <=> adds = 0
    /\ IF AddReturned THEN Activated ELSE Activating

LEMMA PhaseInvEnter ==
    ASSUME Disciplined, TypeInv, RunInv, PhaseInv, NEW p \in Procs, FsmEnter(p)
    PROVE  PhaseInv'
<1> USE DEF PhaseInv, FsmEnter
<1>1. AddReturned' = AddReturned
  BY DEF AddReturned
<1>2. CASE AddReturned
  <2>1. pc[p] \notin {"again", "rerun"}
    BY DEF RunInv, TypeInv, TypeOK, Procs, ActPcs, MuxPcs
  <2>2. Ctl(pc[p]) # "RestartAfter"
    BY <2>1 DEF Ctl
  <2>3. Activated'
    BY <1>2, <2>2 DEF Activated, Dispatch
  <2> QED BY <1>1, <1>2, <2>3
<1>3. CASE ~AddReturned
  <2>1. p = Act /\ pc[Act] \in {"init", "start"} /\ fsm = "none" /\ p # None
    BY <1>3 DEF Activating, RunInv, TypeInv, TypeOK, FsmInv, Procs, CallSites, ActPcs, RunPcs
  <2>2. Activating'
    BY <1>3, <2>1 DEF Activating, Dispatch
  <2> QED BY <1>1, <1>3, <2>2
<1> QED BY <1>2, <1>3

LEMMA PhaseInvBody ==
    ASSUME Disciplined, TypeInv, RunInv, PhaseInv, FsmBody
    PROVE  PhaseInv'
<1> USE DEF PhaseInv
<1>1. fsm # "none" /\ lock \in Procs /\ lock # None
  BY DEF FsmBody, Submit, Preinitialize, BeginInit, Initialize, Abort, BeginStart,
         FinishStart, Remux, Restart, BeginStop, Stop, TearDown, FsmReturn, TypeInv, TypeOK,
         FsmInv
<1>2. CASE AddReturned
  <2>1. CASE FsmReturn
    <3>1. pc'[Act] = pc[Act] \/ pc'[Act] \in {"failed", "register", "added"}
      BY <1>1, <2>1 DEF FsmReturn, AfterCall, TypeInv, TypeOK, FsmInv, CallSites, ActPcs, Procs
    <3>2. adds = 1 => pc[Act] \notin CallSites
      BY <1>2 DEF AddReturned, CallSites
    <3>3. adds = 1 => pc'[Act] = pc[Act]
      BY <1>1, <2>1, <3>2 DEF FsmReturn, TypeInv, TypeOK, FsmInv, Procs
    <3>4. AddReturned' /\ (pc'[Act] = "idle" <=> adds' = 0)
      BY <1>2, <2>1, <3>1, <3>3 DEF FsmReturn, AddReturned, TypeInv, TypeOK
    <3>5. Activated'
      BY <1>2, <2>1 DEF FsmReturn, Activated
    <3> QED BY <3>4, <3>5
  <2>2. CASE ~FsmReturn
    <3>1. pc'[Act] = pc[Act] /\ adds' = adds
      BY <2>2 DEF FsmBody, Submit, Preinitialize, BeginInit, Initialize, Abort, BeginStart,
         FinishStart, Remux, Restart, BeginStop, Stop, TearDown, Spawn, TypeInv, TypeOK, Procs
    <3>2. Activated'
      BY <1>2, <2>2 DEF Activated, FsmBody, Submit, Preinitialize, BeginInit, Initialize,
         Abort, BeginStart, FinishStart, Remux, Restart, BeginStop, Stop, TearDown
    <3> QED BY <1>2, <3>1, <3>2 DEF AddReturned
  <2> QED BY <2>1, <2>2
<1>3. CASE ~AddReturned
  <2>1. lock = Act /\ pc[Act] \in {"init", "start"}
    BY <1>1, <1>3 DEF Activating, TypeInv, TypeOK, FsmInv, CallSites, ActPcs
  <2>2. CASE FsmReturn
    <3>1. pc' = [pc EXCEPT ![Act] = AfterCall(pc[Act], fsm = "fail")]
      BY <2>1, <2>2 DEF FsmReturn
    <3>2. CASE pc[Act] = "init" /\ fsm = "return"
      <4>1. pc'[Act] = "register" /\ \A g \in Procs : g # Act => pc'[g] = pc[g]
        BY <3>1, <3>2 DEF AfterCall, TypeInv, TypeOK, Procs
      <4> QED BY <1>3, <2>2, <3>2, <4>1
              DEF FsmReturn, AddReturned, Activating, Procs, TypeInv, TypeOK
    <3>3. CASE pc[Act] = "init" /\ fsm = "fail"
      <4>1. pc'[Act] = "failed"
        BY <3>1, <3>3 DEF AfterCall, TypeInv, TypeOK, Procs
      <4> QED BY <1>3, <2>2, <3>3, <4>1 DEF FsmReturn, AddReturned, Activating, Activated
    <3>4. CASE pc[Act] = "start"
      <4>1. pc'[Act] = "added"
        BY <1>3, <2>2, <3>1, <3>4 DEF FsmReturn, AfterCall, Activating, TypeInv, TypeOK, Procs
      <4> QED BY <1>3, <2>2, <3>4, <4>1 DEF FsmReturn, AddReturned, Activating, Activated
    <3> QED BY <2>1, <2>2, <3>2, <3>3, <3>4 DEF FsmReturn
  <2>3. CASE Preinitialize
    <3>1. PICK g \in Muxes : pc[g] = "none" /\ pc' = [pc EXCEPT ![g] = "spawned"]
      BY <2>3 DEF Preinitialize, Spawn
    <3>2. pc'[Act] = pc[Act] /\ \A k \in Muxes : pc'[k] \in {"none", "spawned", "receiving"}
      BY <1>3, <3>1 DEF Activating, TypeInv, TypeOK, Procs
    <3> QED BY <1>3, <2>1, <2>3, <3>2 DEF Preinitialize, Activating, AddReturned
  <2>4. CASE FinishStart
    <3>1. pc'[Act] = pc[Act] /\ \A k \in Muxes : pc'[k] = pc[k]
      BY <2>4 DEF FinishStart, Spawn, TypeInv, TypeOK, Procs
    <3> QED BY <1>3, <2>1, <2>4, <3>1 DEF FinishStart, Activating, AddReturned
  <2>5. CASE Submit \/ BeginInit \/ Initialize \/ Abort \/ BeginStart
    BY <1>3, <2>1, <2>5 DEF Submit, BeginInit, Initialize, Abort, BeginStart, Activating,
                            AddReturned
  <2>6. fsm \notin {"remux", "restart", "shutdown", "stop", "teardown"}
    BY <1>3, <2>1 DEF Activating
  <2> QED BY <2>2, <2>3, <2>4, <2>5, <2>6
          DEF FsmBody, Remux, Restart, BeginStop, Stop, TearDown
<1> QED BY <1>2, <1>3

LEMMA PhaseInvNext ==
    ASSUME Disciplined, TypeInv, RunInv, PhaseInv, [Next]_vars
    PROVE  PhaseInv'
<1> USE DEF PhaseInv
<1>1. CASE Add
  <2>1. pc'[Act] = "init" /\ adds' = adds + 1 /\ adds \in Nat
    BY <1>1 DEF Add, TypeInv, TypeOK, Procs
  <2>2. CASE adds = 0
    <3>1. ~AddReturned /\ ~AddReturned' /\ pc[Act] = "idle" /\ lock = None /\ fsm = "none"
      BY <1>1, <2>1, <2>2 DEF AddReturned, Activating, TypeInv, FsmInv, CallSites
    <3>2. \A k \in Muxes : pc'[k] = pc[k]
      BY <1>1 DEF Add, TypeInv, TypeOK, Procs
    <3> QED BY <1>1, <2>1, <2>2, <3>1, <3>2 DEF Add, Activating
  <2>3. CASE adds # 0
    <3>1. AddReturned /\ AddReturned'
      BY <1>1, <2>1, <2>3 DEF Add, AddReturned
    <3> QED BY <1>1, <2>1, <2>3, <3>1 DEF Add, Activated
  <2> QED BY <2>2, <2>3
<1>2. CASE Register
  <2>1. CASE AddReturned
    <3>1. pc'[Act] \in {"failed", "start"}
      BY <1>2 DEF Register, TypeInv, TypeOK, Procs
    <3> QED BY <1>2, <2>1, <3>1 DEF Register, AddReturned, Activated
  <2>2. CASE ~AddReturned
    <3>1. registered = FALSE
      BY <1>2, <2>2 DEF Register, Activating, TypeInv, TypeOK
    <3>2. pc' = [pc EXCEPT ![Act] = "start"] /\ fsm = "none"
      BY <1>2, <3>1 DEF Register, TypeInv, FsmInv
    <3>3. pc'[Act] = "start" /\ \A k \in Muxes : pc'[k] = pc[k]
      BY <3>2 DEF TypeInv, TypeOK, Procs
    <3> QED BY <1>2, <2>2, <3>2, <3>3 DEF Register, AddReturned, Activating
  <2> QED BY <2>1, <2>2
<1>3. ASSUME NEW k \in Muxes, MuxStep(k) PROVE PhaseInv'
  <2>1. UNCHANGED <<stage, mmux, lock, fsm, registered, adds>> /\ pc'[Act] = pc[Act]
    BY <1>3 DEF MuxStep, MuxBegin, MuxReceive, MuxDrained, MuxHandle, MuxPanic, MuxCheck,
                MuxReply, MuxLateReply, TypeInv, TypeOK, Procs
  <2>2. ASSUME ~AddReturned PROVE MuxBegin(k)
    BY <1>3, <2>2 DEF Activating, MuxStep, MuxBegin, MuxReceive, MuxDrained, MuxHandle,
                      MuxPanic, MuxCheck, MuxReply, MuxLateReply
  <2>3. ASSUME ~AddReturned PROVE Activating'
    BY <2>1, <2>2, <2>3 DEF MuxBegin, Activating, TypeInv, TypeOK, Procs
  <2> QED BY <2>1, <2>3 DEF AddReturned, Activated
<1>4. ASSUME NEW r \in Runs, RunStep(r) PROVE PhaseInv'
  <2>1. /\ UNCHANGED <<stage, mmux, queue, lock, fsm, spc, registered, adds>>
        /\ \A g \in Muxes \union {Act} : pc'[g] = pc[g]
    BY <1>4 DEF RunStep, RunReturns, RunEnds, RunRestarts, TypeInv, TypeOK, Procs
  <2> QED BY <2>1 DEF AddReturned, Activated, Activating
<1>5. ASSUME NEW s \in Senders, SendStep(s) PROVE PhaseInv'
  <2>1. AddReturned
    BY <1>5 DEF SendStep, SendProgress, SendCheck, SendFound, SendOnNil, SendPut,
                SendOnClosed, SendTimeout, Disciplined, Activating
  <2>2. UNCHANGED <<stage, fsm, pc, adds>>
    BY <1>5 DEF SendStep, SendProgress, SendCheck, SendFound, SendOnNil, SendPut,
                SendOnClosed, SendTimeout
  <2> QED BY <2>1, <2>2 DEF AddReturned, Activated
<1>6. CASE UNCHANGED vars
  BY <1>6 DEF vars, AddReturned, Activated, Activating
<1> QED BY <1>1, <1>2, <1>3, <1>4, <1>5, <1>6, NextCases, PhaseInvEnter, PhaseInvBody
DisciplinedInv == TypeInv /\ RunInv /\ PhaseInv

LEMMA DisciplinedInvariant == ASSUME Disciplined PROVE Spec => []DisciplinedInv
<1>1. Init => RunInv
  BY DEF Init, RunInv, Procs
<1>2. Init => PhaseInv
  <2> SUFFICES ASSUME Init PROVE PhaseInv
    OBVIOUS
  <2>1. pc[Act] = "idle" /\ \A k \in Muxes : pc[k] = "none"
    BY DEF Init, Procs
  <2> QED BY <2>1 DEF Init, PhaseInv, AddReturned, Activating
<1>3. DisciplinedInv /\ [Next]_vars => DisciplinedInv'
  BY TypeInvNext, RunInvNext, PhaseInvNext DEF DisciplinedInv, Disciplined
<1> QED BY TypeInvInit, <1>1, <1>2, <1>3, PTL DEF Spec, DisciplinedInv

\* From the creation of the channel until the component ends, somebody is the
\* multiplexer or is on the way to start it again.
HasMuxInv ==
    stage \in {"Preinitialized", "Initializing", "Initialized", "Starting", "Started"}
        => \E k \in Muxes : MuxOwed(k)

LEMMA HasMuxInvNext ==
    ASSUME Disciplined, DisciplinedInv, HasMuxInv, [Next]_vars
    PROVE  HasMuxInv'
<1> USE DEF HasMuxInv, MuxOwed, Spent, DisciplinedInv
<1>1. ASSUME NEW p \in Procs, FsmEnter(p) PROVE HasMuxInv'
  <2>1. pc[p] = "recover" => AddReturned /\ stage # "Initialized"
    BY DEF PhaseInv, Activating, Activated, TypeInv, TypeOK, Procs, ActPcs, RunPcs
  <2>2. pc[p] = "recover" /\ stage = "Started" => fsm' = "remux"
    BY <1>1 DEF FsmEnter, Dispatch, Ctl
  <2>3. stage \in RestStages
    BY <1>1 DEF FsmEnter, TypeInv, FsmInv
  <2> QED BY <1>1, <2>1, <2>2, <2>3 DEF FsmEnter, RestStages
<1>2. CASE FsmBody
  <2>1. CASE Preinitialize
    <3>1. \E k \in Muxes : pc'[k] = "spawned"
      BY <2>1 DEF Preinitialize, Spawn, TypeInv, TypeOK, Procs
    <3> QED BY <3>1
  <2>2. CASE Remux
    <3>1. \E k \in Muxes : pc'[k] = "spawned"
      BY <2>2 DEF Remux, Spawn, TypeInv, TypeOK, Procs
    <3> QED BY <3>1
  <2>3. CASE BeginInit \/ Initialize \/ BeginStart \/ FinishStart
    <3>1. lock = Act
      BY <2>3 DEF BeginInit, Initialize, BeginStart, FinishStart, PhaseInv, Activated,
                  Activating, TypeInv, FsmInv
    <3>2. \A k \in Muxes : pc'[k] = pc[k] /\ k # Act
      BY <2>3 DEF BeginInit, Initialize, BeginStart, FinishStart, Spawn, TypeInv, TypeOK, Procs
    <3>3. stage \in {"Preinitialized", "Initializing", "Initialized", "Starting", "Restarting"}
      BY <2>3 DEF BeginInit, Initialize, BeginStart, FinishStart, TypeInv, FsmInv
    <3>4. UNCHANGED lock
      BY <2>3 DEF BeginInit, Initialize, BeginStart, FinishStart
    <3> QED BY <3>1, <3>2, <3>3, <3>4 DEF RunInv
  <2>4. CASE FsmReturn
    <3>1. \A k \in Muxes : k # lock => pc'[k] = pc[k]
      BY <2>4 DEF FsmReturn, TypeInv, TypeOK, Procs
    <3>2. \A k \in Muxes : MuxOwed(k) /\ fsm = "return" => pc'[k] # "none"
      BY <2>4, <3>1 DEF FsmReturn, AfterCall, TypeInv, TypeOK, FsmInv, CallSites, Procs, MuxPcs
    <3>3. UNCHANGED stage /\ lock' = None /\ None \notin Muxes
      BY <2>4 DEF FsmReturn, Procs
    <3>4. fsm = "fail" => stage \in Ending
      BY DEF TypeInv, FsmInv, Ending
    <3> QED BY <2>4, <3>2, <3>3, <3>4 DEF FsmReturn, Ending
  <2>5. CASE Submit \/ Abort \/ Restart \/ BeginStop \/ Stop \/ TearDown
    BY <2>5 DEF Submit, Abort, Restart, BeginStop, Stop, TearDown, TypeInv, FsmInv
  <2> QED BY <1>2, <2>1, <2>2, <2>3, <2>4, <2>5 DEF FsmBody
<1>3. CASE Add \/ Register
  <2>1. \A k \in Muxes : pc'[k] = pc[k]
    BY <1>3 DEF Add, Register, TypeInv, TypeOK, Procs
  <2> QED BY <1>3, <2>1 DEF Add, Register
<1>4. ASSUME NEW k \in Muxes, MuxStep(k) PROVE HasMuxInv'
  <2>1. /\ pc[k] # "recover" /\ pc'[k] # "none"
        /\ \A j \in Muxes : j # k => pc'[j] = pc[j]
        /\ UNCHANGED <<stage, lock, fsm>>
    BY <1>4 DEF MuxStep, MuxBegin, MuxReceive, MuxDrained, MuxHandle, MuxPanic, MuxCheck,
                MuxReply, MuxLateReply, TypeInv, TypeOK, Procs
  <2>2. lock # k
    BY <1>4 DEF MuxStep, MuxBegin, MuxReceive, MuxDrained, MuxHandle, MuxPanic, MuxCheck,
                MuxReply, MuxLateReply, TypeInv, FsmInv, CallSites, Procs
  <2> QED BY <2>1, <2>2
<1>5. ASSUME NEW r \in Runs, RunStep(r) PROVE HasMuxInv'
  <2>1. \A k \in Muxes : pc'[k] = pc[k]
    BY <1>5 DEF RunStep, RunReturns, RunEnds, RunRestarts, TypeInv, TypeOK, Procs
  <2> QED BY <1>5, <2>1 DEF RunStep, RunReturns, RunEnds, RunRestarts
<1>6. ASSUME NEW s \in Senders, SendStep(s) PROVE HasMuxInv'
  BY <1>6 DEF SendStep, SendProgress, SendCheck, SendFound, SendOnNil, SendPut,
              SendOnClosed, SendTimeout
<1>7. CASE UNCHANGED vars
  BY <1>7 DEF vars
<1> QED BY <1>1, <1>2, <1>3, <1>4, <1>5, <1>6, <1>7, NextCases

\* In disciplined use a Started component always has a multiplexer or a
\* goroutine about to start one.
THEOREM StartedComponentHasMux == ASSUME Disciplined PROVE Spec => []StartedHasMux
<1>1. Init => HasMuxInv
  BY DEF Init, HasMuxInv
<1>2. Spec => []HasMuxInv
  BY DisciplinedInvariant, <1>1, HasMuxInvNext, PTL DEF Spec
<1>3. HasMuxInv => StartedHasMux
  BY DEF HasMuxInv, StartedHasMux
<1> QED BY <1>2, <1>3, PTL

\* AckedShutdown, whoever sent the Shutdown.
AckedByAll == \A s \in Shutdowners : spc[s] = "ok" => stage \in {"Stopped", "Teareddown"}

\* What a multiplexer working on a Shutdown knows of the stage.
AckInv ==
    /\ \A k \in Muxes :
          /\ pc[k] \in {"handling", "reply_ok"} => msg[k] \notin Shutdowners
          /\ pc[k] \in {"check", "shutdown2"} => stage \in {"Stopping", "Stopped", "Teareddown"}
          /\ pc[k] = "reply_exit" => stage \in {"Stopped", "Teareddown"}
          /\ lock = k /\ pc[k] = "shutdown1" =>
                /\ fsm # "remux"
                /\ fsm \in {"return", "fail"} => stage \in {"Stopping", "Teareddown"}
          /\ lock = k /\ pc[k] = "shutdown2" /\ fsm = "return" => stage = "Teareddown"
    /\ AckedByAll

LEMMA AckInvNext ==
    ASSUME Disciplined, DisciplinedInv, AckInv, [Next]_vars
    PROVE  AckInv'
<1> USE DEF AckInv, AckedByAll, DisciplinedInv
<1>1. ASSUME NEW p \in Procs, FsmEnter(p) PROVE AckInv'
  <2>1. stage \in RestStages /\ stage # "Restarting"
    BY <1>1 DEF FsmEnter, TypeInv, FsmInv, RunInv
  <2>2. \A k \in Muxes : pc[k] = "shutdown1" => AddReturned
    BY DEF PhaseInv, Activating
  <2> QED BY <1>1, <2>1, <2>2
          DEF FsmEnter, PhaseInv, Activated, Dispatch, Ctl, RestStages
<1>2. CASE FsmBody
  <2>1. \A k \in Muxes : pc[k] \in {"shutdown1", "shutdown2", "check", "reply_exit"}
             => AddReturned
    BY DEF PhaseInv, Activating
  <2>2. CASE FsmReturn
    <3>1. \A k \in Muxes : k # lock => pc'[k] = pc[k]
      BY <2>2 DEF FsmReturn, TypeInv, TypeOK, Procs
    <3>2. \A k \in Muxes : k = lock => pc'[k] = AfterCall(pc[k], fsm = "fail")
      BY <2>2 DEF FsmReturn, TypeInv, TypeOK, Procs
    <3>3. lock' = None /\ None \notin Muxes /\ UNCHANGED <<stage, msg, spc>>
      BY <2>2 DEF FsmReturn, Procs
    <3>4. ASSUME NEW k \in Muxes, k = lock
          PROVE  /\ pc'[k] \notin {"handling", "reply_ok", "shutdown2"}
                 /\ pc'[k] = "check" => stage \in {"Stopping", "Teareddown"}
                 /\ pc'[k] = "reply_exit" => stage = "Teareddown"
      BY <2>2, <3>2, <3>4
         DEF FsmReturn, AfterCall, TypeInv, FsmInv, CallSites
    <3> QED BY <3>1, <3>3, <3>4
  <2>3. CASE ~FsmReturn
    <3>1. \A k \in Muxes : pc'[k] = pc[k] \/ pc'[k] = "spawned"
      BY <1>2, <2>3 DEF FsmBody, Submit, Preinitialize, BeginInit, Initialize, Abort,
         BeginStart, FinishStart, Remux, Restart, BeginStop, Stop, TearDown, Spawn,
         TypeInv, TypeOK, Procs
    <3>2. UNCHANGED <<lock, msg, spc>>
      BY <1>2, <2>3 DEF FsmBody, Submit, Preinitialize, BeginInit, Initialize, Abort,
         BeginStart, FinishStart, Remux, Restart, BeginStop, Stop, TearDown
    <3>3. /\ stage \in {"Stopping", "Stopped", "Teareddown"}
                => stage' \in {"Stopping", "Stopped", "Teareddown"}
          /\ stage \in {"Stopped", "Teareddown"} => stage' \in {"Stopped", "Teareddown"}
      BY <1>2, <2>3 DEF FsmBody, Submit, Preinitialize, BeginInit, Initialize, Abort,
         BeginStart, FinishStart, Remux, Restart, BeginStop, Stop, TearDown, TypeInv, FsmInv
    <3>4. ASSUME NEW k \in Muxes, lock = k, pc[k] = "shutdown1"
          PROVE  /\ fsm' # "remux"
                 /\ fsm' \in {"return", "fail"} => stage' \in {"Stopping", "Teareddown"}
      <4>1. Activated /\ fsm # "remux"
        BY <2>1, <3>4 DEF PhaseInv
      <4> QED BY <1>2, <2>3, <4>1 DEF Activated, FsmBody, Submit, Preinitialize, BeginInit,
         Initialize, Abort, BeginStart, FinishStart, Remux, Restart, BeginStop, Stop,
         TearDown, TypeInv, FsmInv
    <3>5. ASSUME NEW k \in Muxes, lock = k, pc[k] = "shutdown2"
          PROVE  fsm' = "return" => stage' = "Teareddown"
      <4>1. stage \in {"Stopping", "Stopped", "Teareddown"}
        BY <3>5
      <4> QED BY <1>2, <2>3, <4>1 DEF FsmBody, Submit, Preinitialize, BeginInit,
         Initialize, Abort, BeginStart, FinishStart, Remux, Restart, BeginStop, Stop,
         TearDown, TypeInv, FsmInv
    <3> QED BY <3>1, <3>2, <3>3, <3>4, <3>5
  <2> QED BY <2>2, <2>3
<1>3. CASE Add \/ Register
  <2>1. \A k \in Muxes : pc'[k] = pc[k]
    BY <1>3 DEF Add, Register, TypeInv, TypeOK, Procs
  <2> QED BY <1>3, <2>1 DEF Add, Register
<1>4. ASSUME NEW k \in Muxes, MuxStep(k) PROVE AckInv'
  <2>1. /\ \A j \in Muxes : j # k => pc'[j] = pc[j] /\ msg'[j] = msg[j]
        /\ UNCHANGED <<stage, lock, fsm>>
        /\ lock # k
    BY <1>4 DEF MuxStep, MuxBegin, MuxReceive, MuxDrained, MuxHandle, MuxPanic, MuxCheck,
                MuxReply, MuxLateReply, TypeInv, TypeOK, FsmInv, CallSites, Procs
  <2>2. /\ pc'[k] \in {"handling", "reply_ok"} => msg'[k] \notin Shutdowners
        /\ pc'[k] \in {"check", "shutdown2"} => stage \in {"Stopping", "Stopped", "Teareddown"}
        /\ pc'[k] = "reply_exit" => stage \in {"Stopped", "Teareddown"}
    BY <1>4 DEF MuxStep, MuxBegin, MuxReceive, MuxDrained, MuxHandle, MuxPanic, MuxCheck,
                MuxReply, MuxLateReply, TypeInv, TypeOK, Procs
  <2>3. AckedByAll'
    <3>1. CASE MuxReply(k)
      <4>1. \A s \in Senders : s # msg[k] => spc'[s] = spc[s]
        BY <3>1 DEF MuxReply, TypeInv, TypeOK
      <4>2. msg[k] \in Shutdowners /\ spc'[msg[k]] = "ok" => pc[k] = "reply_exit"
        BY <3>1 DEF MuxReply, TypeInv, TypeOK
      <4> QED BY <2>1, <4>1, <4>2
    <3>2. CASE ~MuxReply(k)
      BY <1>4, <2>1, <3>2 DEF MuxStep, MuxBegin, MuxReceive, MuxDrained, MuxHandle,
                              MuxPanic, MuxCheck, MuxLateReply
    <3> QED BY <3>1, <3>2
  <2> QED BY <2>1, <2>2, <2>3
<1>5. ASSUME NEW r \in Runs, RunStep(r) PROVE AckInv'
  <2>1. \A k \in Muxes : pc'[k] = pc[k]
    BY <1>5 DEF RunStep, RunReturns, RunEnds, RunRestarts, TypeInv, TypeOK, Procs
  <2> QED BY <1>5, <2>1 DEF RunStep, RunReturns, RunEnds, RunRestarts
<1>6. ASSUME NEW s \in Senders, SendStep(s) PROVE AckInv'
  <2>1. /\ UNCHANGED <<stage, lock, fsm, pc, msg>>
        /\ \A t \in Senders : spc'[t] = "ok" => spc[t] = "ok"
    BY <1>6 DEF SendStep, SendProgress, SendCheck, SendFound, SendOnNil, SendPut,
                SendOnClosed, SendTimeout, TypeInv, TypeOK
  <2> QED BY <2>1
<1>7. CASE UNCHANGED vars
  BY <1>7 DEF vars
<1> QED BY <1>1, <1>2, <1>3, <1>4, <1>5, <1>6, <1>7, NextCases

\* In disciplined use a Shutdown that is acknowledged without an error has
\* stopped the component.
THEOREM AcknowledgedShutdown == ASSUME Disciplined PROVE Spec => []AckedShutdown
<1>1. Init => AckInv
  BY DEF Init, AckInv, AckedByAll, Procs
<1>2. Spec => []AckInv
  BY DisciplinedInvariant, <1>1, AckInvNext, PTL DEF Spec
<1>3. AckInv => AckedShutdown
  BY DEF AckInv, AckedByAll, AckedShutdown
<1> QED BY <1>2, <1>3, PTL

----------------------------------------------------------------------------
(* The refinement: Lifecycle implements MessageServer *)

\* The program counters of a multiplexer that holds a message.
Working == {"handling", "shutdown1", "check", "shutdown2", "reply_ok", "reply_err", "reply_exit"}

\* A multiplexer holds a message exactly while it works on it.
MsgInv == \A k \in Muxes : msg[k] # None <=> pc[k] \in Working

ServerInv == TypeInv /\ MuxInv /\ MsgInv

LEMMA MsgInvNext ==
    ASSUME TypeInv, MsgInv, [Next]_vars
    PROVE  MsgInv'
<1> USE DEF MsgInv, Working
<1>1. ASSUME NEW p \in Procs, FsmEnter(p) PROVE MsgInv'
  BY <1>1 DEF FsmEnter
<1>2. CASE FsmBody
  <2>1. CASE Preinitialize \/ Remux
    BY <2>1, ConstantsAssumption DEF Preinitialize, Remux, Spawn, TypeInv, TypeOK, Procs
  <2>2. CASE FinishStart
    BY <2>2, ConstantsAssumption DEF FinishStart, Spawn, TypeInv, TypeOK, Procs
  <2>3. CASE FsmReturn
    <3>1. \A k \in Muxes : k # lock => pc'[k] = pc[k]
      BY <2>3 DEF FsmReturn, TypeInv, TypeOK, Procs
    <3>2. \A k \in Muxes : k = lock => pc[k] \in {"shutdown1", "shutdown2", "recover"}
      BY <2>3, ConstantsAssumption DEF FsmReturn, TypeInv, TypeOK, FsmInv, CallSites, MuxPcs, Procs
    <3>3. \A k \in Muxes : k = lock => (pc'[k] \in Working <=> pc[k] \in Working)
      BY <2>3, <3>2 DEF FsmReturn, AfterCall, TypeInv, TypeOK, Procs
    <3> QED BY <2>3, <3>1, <3>3 DEF FsmReturn
  <2>4. CASE \/ Submit \/ BeginInit \/ Initialize \/ Abort \/ BeginStart \/ Restart
             \/ BeginStop \/ Stop \/ TearDown
    BY <2>4 DEF Submit, BeginInit, Initialize, Abort, BeginStart, Restart, BeginStop, Stop,
                TearDown, Move
  <2> QED BY <1>2, <2>1, <2>2, <2>3, <2>4 DEF FsmBody
<1>3. CASE Add \/ Register
  BY <1>3, ConstantsAssumption DEF Add, Register, TypeInv, TypeOK, Procs
<1>4. ASSUME NEW k \in Muxes, MuxStep(k) PROVE MsgInv'
  <2>1. \A j \in Muxes : j # k => pc'[j] = pc[j] /\ msg'[j] = msg[j]
    BY <1>4 DEF MuxStep, MuxBegin, MuxReceive, MuxDrained, MuxHandle, MuxPanic, MuxCheck,
                MuxReply, MuxLateReply, Goto, TypeInv, TypeOK, Procs
  <2>2. CASE MuxReceive(k)
    <3>1. Head(queue) \in Senders
      BY <2>2 DEF MuxReceive, TypeInv, TypeOK
    <3> QED BY <2>1, <2>2, <3>1, ConstantsAssumption DEF MuxReceive, TypeInv, TypeOK, Procs
  <2>3. CASE MuxBegin(k) \/ MuxDrained(k) \/ MuxHandle(k) \/ MuxCheck(k)
    BY <2>1, <2>3 DEF MuxBegin, MuxDrained, MuxHandle, MuxCheck, Goto, TypeInv, TypeOK, Procs
  <2>4. CASE MuxPanic(k) \/ MuxReply(k) \/ MuxLateReply(k)
    BY <2>1, <2>4 DEF MuxPanic, MuxReply, MuxLateReply, TypeInv, TypeOK, Procs
  <2> QED BY <1>4, <2>2, <2>3, <2>4 DEF MuxStep
<1>5. ASSUME NEW r \in Runs, RunStep(r) PROVE MsgInv'
  BY <1>5, ConstantsAssumption
     DEF RunStep, RunReturns, RunEnds, RunRestarts, Goto, TypeInv, TypeOK, Procs
<1>6. ASSUME NEW s \in Senders, SendStep(s) PROVE MsgInv'
  BY <1>6 DEF SendStep, SendProgress, SendCheck, SendFound, SendOnNil, SendPut,
              SendOnClosed, SendTimeout, SendGoto
<1>7. CASE UNCHANGED vars
  BY <1>7 DEF vars
<1> QED BY <1>1, <1>2, <1>3, <1>4, <1>5, <1>6, <1>7, NextCases

----------------------------------------------------------------------------
(* What is in work *)

\* Only the one live multiplexer holds a message.
LEMMA OneBusy ==
    ASSUME ServerInv, NEW k \in Muxes, MuxLive(k)
    PROVE  /\ \A j \in Muxes : j # k => msg[j] = None
           /\ Busy = {msg[k]} \ {None}
<1>1. MuxOwed(k)
  BY DEF MuxLive, MuxOwed, Spent
<1>2. \A j \in Muxes : pc[j] \in Working => MuxOwed(j)
  BY DEF MuxOwed, Spent, Working
<1>3. \A j \in Muxes : j # k => msg[j] = None
  BY <1>1, <1>2 DEF ServerInv, MuxInv, MsgInv
<1> QED BY <1>3 DEF Busy

\* A step that leaves these variables alone is not seen by the clients.
LEMMA Unseen ==
    ASSUME UNCHANGED <<mmux, queue, msg, spc>>
    PROVE  UNCHANGED Server!vars
BY DEF Server!vars, Busy, Called

----------------------------------------------------------------------------
(* Steps *)

LEMMA ServerFsm ==
    ASSUME ServerInv, FsmBody
    PROVE  [Server!Next]_(Server!vars)
<1>1. CASE Preinitialize
  <2>1. mmux = "nil"
    BY <1>1 DEF Preinitialize, SetStage, ServerInv, MuxInv, TypeInv, FsmInv
  <2>2. Server!Open
    BY <1>1, <2>1 DEF Preinitialize, Server!Open, Busy, Called
  <2> QED BY <2>2 DEF Server!Next
<1>2. CASE TearDown
  <2>1. CASE mmux = "open"
    <3>1. Server!Close
      BY <1>2, <2>1 DEF TearDown, Server!Close, Busy, Called
    <3> QED BY <3>1 DEF Server!Next
  <2>2. CASE mmux # "open"
    BY <1>2, <2>2, Unseen DEF TearDown
  <2> QED BY <2>1, <2>2
<1>3. CASE \/ Submit \/ BeginInit \/ Initialize \/ Abort \/ BeginStart \/ Restart
           \/ BeginStop \/ Stop \/ FinishStart \/ Remux \/ FsmReturn
  BY <1>3, Unseen DEF Submit, BeginInit, Initialize, Abort, BeginStart, Restart, BeginStop, Stop,
              FinishStart, Remux, FsmReturn, Move
<1> QED BY <1>1, <1>2, <1>3 DEF FsmBody

LEMMA ServerMux ==
    ASSUME ServerInv, NEW k \in Muxes, MuxStep(k)
    PROVE  [Server!Next]_(Server!vars)
<1>1. MuxLive(k)
  BY DEF MuxStep, MuxBegin, MuxReceive, MuxDrained, MuxHandle, MuxPanic, MuxCheck,
         MuxReply, MuxLateReply, Goto, MuxLive
<1>2. /\ \A j \in Muxes : j # k => msg[j] = None
      /\ Busy = {msg[k]} \ {None}
  BY <1>1, OneBusy
<1>3. ASSUME NEW m, msg' = [msg EXCEPT ![k] = m]
      PROVE  Busy' = {m} \ {None}
  BY <1>2, <1>3 DEF Busy, ServerInv, TypeInv, TypeOK
<1>4. CASE MuxReceive(k)
  <2>1. Head(queue) \in Senders /\ Head(queue) # None
    BY <1>4, ConstantsAssumption DEF MuxReceive, ServerInv, TypeInv, TypeOK
  <2>2. Busy = {} /\ Busy' = {Head(queue)}
    BY <1>2, <1>3, <1>4, <2>1 DEF MuxReceive, ServerInv, MsgInv, Working
  <2>3. Server!Take
    BY <1>4, <2>2 DEF MuxReceive, Server!Take, Called
  <2> QED BY <2>3 DEF Server!Next
<1>5. ASSUME pc[k] \in Working
      PROVE  msg[k] \in Senders /\ Busy = {msg[k]}
  BY <1>2, <1>5, ConstantsAssumption DEF ServerInv, MsgInv, TypeInv, TypeOK
<1>6. CASE MuxReply(k)
  <2>1. msg[k] \in Senders /\ Busy = {msg[k]} /\ Busy' = {}
    BY <1>3, <1>5, <1>6 DEF MuxReply, Working
  <2>2. Server!Becomes(msg[k], "waiting", "ok") \/ Server!Becomes(msg[k], "waiting", "failed")
    BY <1>6, <2>1 DEF MuxReply, Server!Becomes, Called, ServerInv, TypeInv, TypeOK
  <2>3. Server!Answer(msg[k])
    BY <1>6, <2>1, <2>2 DEF MuxReply, Server!Answer
  <2> QED BY <2>1, <2>3 DEF Server!Next
<1>7. CASE MuxPanic(k) \/ MuxLateReply(k)
  <2>1. Busy # {} /\ Busy' = {}
    BY <1>3, <1>5, <1>7 DEF MuxPanic, MuxLateReply, Working
  <2>2. Server!Lose
    BY <1>7, <2>1 DEF MuxPanic, MuxLateReply, Server!Lose, Called
  <2> QED BY <2>2 DEF Server!Next
<1>8. CASE MuxBegin(k) \/ MuxDrained(k) \/ MuxHandle(k) \/ MuxCheck(k)
  BY <1>8, Unseen DEF MuxBegin, MuxDrained, MuxHandle, MuxCheck, Goto
<1> QED BY <1>4, <1>6, <1>7, <1>8 DEF MuxStep

LEMMA ServerSend ==
    ASSUME ServerInv, NEW s \in Senders, SendStep(s)
    PROVE  [Server!Next]_(Server!vars)
<1> USE DEF SendGoto, Called, ServerInv, TypeInv, TypeOK
<1>1. CASE SendCheck(s)
  <2>1. Server!Becomes(s, "idle", "calling") \/ Server!Becomes(s, "idle", "refused")
    BY <1>1 DEF SendCheck, Server!Becomes
  <2>2. Server!Call(s)
    BY <1>1, <2>1 DEF SendCheck, Server!Call, Busy
  <2> QED BY <2>2 DEF Server!Next
<1>2. CASE SendFound(s) \/ SendOnNil(s)
  <2>1. \A t \in Senders : Called(t)' = Called(t)
    BY <1>2 DEF SendFound, SendOnNil
  <2> QED BY <1>2, <2>1 DEF SendFound, SendOnNil, Server!vars, Busy
<1>3. CASE SendPut(s)
  <2>1. Server!Becomes(s, "calling", "waiting")
    BY <1>3 DEF SendPut, Server!Becomes
  <2>2. Server!Put(s)
    BY <1>3, <2>1 DEF SendPut, Server!Put, Busy
  <2> QED BY <2>2 DEF Server!Next
<1>4. CASE SendOnClosed(s) \/ SendTimeout(s)
  <2>1. \/ Server!Becomes(s, "waiting", "timedout")
        \/ mmux = "closed" /\ Server!Becomes(s, "calling", "panicked")
    BY <1>4 DEF SendOnClosed, SendTimeout, Server!Becomes
  <2>2. Server!GiveUp(s)
    BY <1>4, <2>1 DEF SendOnClosed, SendTimeout, Server!GiveUp, Busy
  <2> QED BY <2>2 DEF Server!Next
<1> QED BY <1>1, <1>2, <1>3, <1>4 DEF SendStep, SendProgress

LEMMA ServerStep ==
    ASSUME ServerInv, [Next]_vars
    PROVE  [Server!Next]_(Server!vars)
<1>1. ASSUME NEW p \in Procs, FsmEnter(p) PROVE UNCHANGED Server!vars
  BY <1>1, Unseen DEF FsmEnter
<1>2. CASE Add \/ Register
  BY <1>2, Unseen DEF Add, Register
<1>3. ASSUME NEW r \in Runs, RunStep(r) PROVE UNCHANGED Server!vars
  BY <1>3, Unseen DEF RunStep, RunReturns, RunEnds, RunRestarts, Goto
<1>4. CASE UNCHANGED vars
  BY <1>4, Unseen DEF vars
<1> QED BY <1>1, <1>2, <1>3, <1>4, ServerFsm, ServerMux, ServerSend, NextCases

\* Every behaviour of a component is one of the message server: messages are
\* worked on one at a time, in order, and answered at most once, whatever panics,
\* timeouts and restarts happen.
THEOREM LifecycleImplementsServer == Spec => ImplementsServer
<1>1. Init => MuxInv /\ MsgInv
  BY ConstantsAssumption DEF Init, MuxInv, MuxOwed, MsgInv, Working, Procs
<1>2. Init => Server!Init
  BY DEF Init, Server!Init, Busy, Called
<1>3. ServerInv /\ [Next]_vars => ServerInv'
  BY TypeInvNext, MuxInvNext, MsgInvNext DEF ServerInv
<1>4. Init => ServerInv
  BY <1>1, TypeInvInit DEF ServerInv
<1>5. ServerInv /\ [Next]_vars => [Server!Next]_(Server!vars)
  BY ServerStep
<1> QED BY <1>2, <1>3, <1>4, <1>5, PTL DEF Spec, ImplementsServer, Server!Spec
=============================================================================
