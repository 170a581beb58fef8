----------------------------- MODULE Interrupt -----------------------------
(***************************************************************************)
(* The end of the process: the interrupt handler of package component,     *)
(* which shuts the top level components down and then the root container,  *)
(* and HttpServer, an add-on in the root container, whose Stop() waits for *)
(* the requests in progress.                                               *)
(*                                                                         *)
(* The root container's Stop() runs with its mutating lock held, and a     *)
(* request for a component takes the lock of the component's container     *)
(* (GetComponent).  net/http's Server is external: Shutdown closes the     *)
(* listener, waits until no request is active or its context is done, and  *)
(* makes every later ListenAndServe of that Server return.                 *)
(***************************************************************************)
EXTENDS Naturals, Sequences, FiniteSets, SequencesExt

CONSTANTS
    Root,      \* the root container
    Tops,      \* top level components of the application
    Http,      \* the HttpServer
    Attached,  \* the add-ons in the root container, in the order they were attached
    Hangs,     \* the top level components whose Stop() never returns
    Requests,  \* HTTP requests
    Target     \* the container whose lock a request takes

AddOns == Range(Attached)
Comps == {Root} \union Tops \union AddOns

ASSUME InterruptAssumption ==
    /\ Root \notin Tops \union AddOns /\ Tops \intersect AddOns = {}
    /\ Attached \in Seq(AddOns) /\ IsInjective(Attached)
    /\ Http \in AddOns
    /\ Hangs \subseteq Tops
    /\ Target \in [Requests -> {Root} \union Tops]

VARIABLES
    kstage,      \* the stage of every component, as others see it
    topLevel,    \* topLevelComponents
    components,  \* the add-ons in the root container's slice
    hpc,         \* where the interrupt handler is
    i,           \* its index into topLevel, plus one
    subscribe,   \* its channel of notifications from the root container
    rpc,         \* where the root container's Shutdown is
    server,      \* HttpServer.server: where Start() is, and whether it was shut down
    stopping,    \* HttpServer.Stop(): "none", "draining" or "again"
    ctxDone,     \* the context of the Shutdown sent to the HttpServer is done
    req,         \* every request: "new", "active" or "done"
    running,     \* history: the top level components that ran when the signal came
    timedout,    \* history: those whose Shutdown timed out
    exited       \* os.Exit was called

vars == <<kstage, topLevel, components, hpc, i, subscribe, rpc, server, stopping, ctxDone,
          req, running, timedout, exited>>

handler == <<hpc, i, running, timedout>>
httpVars == <<server, stopping, ctxDone, req>>

ChanCap == 1

\* The root container and its add-ons have been started by the init functions;
\* HttpServer's Start() is on its way.
Init ==
    /\ kstage = [x \in Comps |-> IF x \in Tops THEN "new" ELSE "started"]
    /\ topLevel = <<Root>>
    /\ components = Attached
    /\ hpc = "wait" /\ i = 1
    /\ subscribe = <<>>
    /\ rpc = "none"
    /\ server = [at |-> "spawned", down |-> FALSE]
    /\ stopping = "none" /\ ctxDone = FALSE
    /\ req = [r \in Requests |-> "new"]
    /\ running = {} /\ timedout = {}
    /\ exited = FALSE

\* The FSM call that runs Stop() holds the container's mutating lock; so does the
\* one that sets Stopping.
Locked(x) ==
    IF x = Root THEN rpc \in {"Stopping", "Inactive", "test", "await", "Stopped", "tearDown"}
    ELSE kstage[x] = "stopping"

\* The requests in progress.
Active == {r \in Requests : req[r] = "active"}

----------------------------------------------------------------------------
(* Components *)

\* A top level component adds itself: toCanonical, then the second FSM call.
Bootstrap(t) ==
    /\ \/ /\ kstage[t] = "new"
          /\ kstage' = [kstage EXCEPT ![t] = "initialized"]
          /\ topLevel' = Append(topLevel, t)
       \/ /\ kstage[t] = "initialized"
          /\ kstage' = [kstage EXCEPT ![t] = "started"]
          /\ UNCHANGED topLevel
    /\ UNCHANGED <<components, handler, subscribe, rpc, httpVars, exited>>

\* removeComponent cuts the last entry of the name out of the slice.
removeComponent(s, x) ==
    IF \E k \in DOMAIN s : s[k] = x
    THEN RemoveAt(s, CHOOSE k \in DOMAIN s : s[k] = x /\ \A j \in DOMAIN s : s[j] = x => j <= k)
    ELSE s

\* Its Stop() returns, and it is torn down and removed from its container.
Stops(x) ==
    /\ x \in (Tops \ Hangs) \union (AddOns \ {Http})
    /\ kstage[x] = "stopping"
    /\ kstage' = [kstage EXCEPT ![x] = "down"]
    /\ components' = removeComponent(components, x)
    /\ UNCHANGED <<topLevel, handler, subscribe, rpc, httpVars, exited>>

\* What a Shutdown message does: a component that is Initialized is started.
AfterShutdown(s) == CASE s = "initialized" -> "started" [] s = "started" -> "stopping" [] OTHER -> s

----------------------------------------------------------------------------
(* The interrupt handler *)

\* Mutant: the loop begins with the length, not with the last index.
SignalBeyond ==
    /\ hpc = "wait"
    /\ hpc' = "next"
    /\ i' = Len(topLevel) + 1
    /\ running' = {t \in Tops : kstage[t] = "started"}
    /\ UNCHANGED <<kstage, topLevel, components, subscribe, rpc, timedout, httpVars, exited>>

\* The first signal; the handler subscribes to the root container.
Signal ==
    /\ hpc = "wait"
    /\ hpc' = "next"
    /\ i' = Len(topLevel)
    /\ running' = {t \in Tops : kstage[t] = "started"}
    /\ UNCHANGED <<kstage, topLevel, components, subscribe, rpc, timedout, httpVars, exited>>

\* SendSyncMessage(Shutdown) to the next component, from the last to the second.
HandlerSend ==
    LET t == topLevel[i] IN
    /\ hpc = "next" /\ i > 1
    /\ kstage' = [kstage EXCEPT ![t] = AfterShutdown(@)]
    /\ IF kstage[t] = "started" THEN hpc' = "await" /\ UNCHANGED i
       ELSE i' = i - 1 /\ UNCHANGED hpc
    /\ UNCHANGED <<topLevel, components, subscribe, rpc, running, timedout, httpVars, exited>>

\* Mutant: the handler waits for the answer as long as it takes.
HandlerWaits ==
    /\ hpc = "await"
    /\ kstage[topLevel[i]] = "down"
    /\ hpc' = "next" /\ i' = i - 1
    /\ UNCHANGED <<kstage, topLevel, components, subscribe, rpc, running, timedout, httpVars, exited>>

\* The answer, or the timeout; both are taken alike.
HandlerAnswered ==
    LET t == topLevel[i] IN
    /\ hpc = "await"
    /\ timedout' = IF kstage[t] = "down" THEN timedout ELSE timedout \union {t}
    /\ hpc' = "next" /\ i' = i - 1
    /\ UNCHANGED <<kstage, topLevel, components, subscribe, rpc, running, httpVars, exited>>

\* Mutant: the loop ends one component too early.
HandlerRootEarly ==
    /\ hpc = "next" /\ i <= 2
    /\ hpc' = "listen"
    /\ rpc' = "Stopping"
    /\ kstage' = [kstage EXCEPT ![Root] = "stopping"]
    /\ UNCHANGED <<topLevel, components, i, subscribe, running, timedout, httpVars, exited>>

\* A goroutine sends Shutdown to the root container; the handler listens.
HandlerRoot ==
    /\ hpc = "next" /\ i = 1
    /\ hpc' = "listen"
    /\ rpc' = "Stopping"
    /\ kstage' = [kstage EXCEPT ![Root] = "stopping"]
    /\ UNCHANGED <<topLevel, components, i, subscribe, running, timedout, httpVars, exited>>

\* os.Exit when the root container is Stopped (SIGUSR1, used in tests, does not exit).
HandlerListen ==
    /\ hpc = "listen"
    /\ subscribe # <<>>
    /\ subscribe' = Tail(subscribe)
    /\ exited' = (Head(subscribe) = "Stopped")
    /\ UNCHANGED <<kstage, topLevel, components, handler, rpc, httpVars>>

HandlerStep == HandlerSend \/ HandlerAnswered \/ HandlerRoot \/ HandlerListen

----------------------------------------------------------------------------
(* The root container's Shutdown: setStage and Container.Stop *)

\* A notification blocks while the handler's channel is full.
RootNotify(at, to) ==
    /\ rpc = at
    /\ Len(subscribe) < ChanCap
    /\ subscribe' = Append(subscribe, at)
    /\ rpc' = to
    /\ UNCHANGED <<kstage, topLevel, components, handler, httpVars, exited>>

\* The second FSM call takes the lock.
RootSecondCall ==
    /\ rpc = "unlocked"
    /\ rpc' = "test"
    /\ UNCHANGED <<kstage, topLevel, components, handler, subscribe, httpVars, exited>>

\* Stop(): the last of the slice is sent a Shutdown; one that is stopping refuses
\* it and is looked at again and again until it is gone.
RootStop ==
    /\ rpc = "test"
    /\ \/ /\ components = <<>>
          /\ rpc' = "Stopped"
          /\ UNCHANGED kstage
       \/ /\ components # <<>>
          /\ kstage[Last(components)] = "started"
          /\ kstage' = [kstage EXCEPT ![Last(components)] = "stopping"]
          /\ rpc' = "await"
    /\ UNCHANGED <<topLevel, components, handler, subscribe, httpVars, exited>>

\* The answer has come, or the context of the message is done.
RootAnswered ==
    /\ rpc = "await"
    /\ rpc' = "test"
    /\ ctxDone' = (ctxDone \/ kstage[Http] = "stopping")
    /\ UNCHANGED <<kstage, topLevel, components, handler, subscribe, server, stopping, req, exited>>

RootTearDown ==
    /\ rpc = "tearDown"
    /\ rpc' = "none"
    /\ kstage' = [kstage EXCEPT ![Root] = "down"]
    /\ UNCHANGED <<topLevel, components, handler, subscribe, httpVars, exited>>

RootStep ==
    \/ RootNotify("Stopping", "Inactive") \/ RootNotify("Inactive", "unlocked")
    \/ RootSecondCall \/ RootStop \/ RootAnswered
    \/ RootNotify("Stopped", "tearDown") \/ RootTearDown

----------------------------------------------------------------------------
(* HttpServer *)

\* Start() makes the server and listens, unless that server was shut down.
HttpStart ==
    /\ \/ server.at = "spawned" /\ server' = [at |-> "made", down |-> FALSE]
       \/ /\ server.at = "made"
          /\ server' = [server EXCEPT !.at = IF server.down THEN "returned" ELSE "listening"]
    /\ UNCHANGED <<kstage, topLevel, components, handler, subscribe, rpc, stopping, ctxDone, req,
                   exited>>

\* Stop() calls Shutdown, which closes the listener.
HttpStop ==
    /\ kstage[Http] = "stopping" /\ stopping = "none"
    /\ stopping' = "draining"
    /\ server' = [at |-> IF server.at = "listening" THEN "returned" ELSE server.at, down |-> TRUE]
    /\ UNCHANGED <<kstage, topLevel, components, handler, subscribe, rpc, ctxDone, req, exited>>

\* No request is left: Stop() returns and the component is torn down.
HttpDrained ==
    /\ stopping \in {"draining", "again"}
    /\ Active = {}
    /\ stopping' = "none"
    /\ kstage' = [kstage EXCEPT ![Http] = "down"]
    /\ components' = removeComponent(components, Http)
    /\ UNCHANGED <<topLevel, handler, subscribe, rpc, server, ctxDone, req, exited>>

\* The context is done first: Stop() returns its error, the answer panics since
\* the sender is gone, and the recovery calls Stop() again, with no deadline.
HttpDeadline ==
    /\ stopping = "draining"
    /\ ctxDone
    /\ stopping' = "again"
    /\ UNCHANGED <<kstage, topLevel, components, handler, subscribe, rpc, server, ctxDone, req,
                   exited>>

HttpStep == HttpStart \/ HttpStop \/ HttpDrained \/ HttpDeadline

Request(r) ==
    /\ server.at = "listening"
    /\ req[r] = "new"
    /\ req' = [req EXCEPT ![r] = "active"]
    /\ UNCHANGED <<kstage, topLevel, components, handler, subscribe, rpc, server, stopping, ctxDone,
                   exited>>

\* GetComponent waits for the lock.
Respond(r) ==
    /\ req[r] = "active"
    /\ ~Locked(Target[r])
    /\ req' = [req EXCEPT ![r] = "done"]
    /\ UNCHANGED <<kstage, topLevel, components, handler, subscribe, rpc, server, stopping, ctxDone,
                   exited>>

----------------------------------------------------------------------------

Next ==
    /\ ~exited
    /\ \/ \E t \in Tops : Bootstrap(t)
       \/ \E x \in Comps : Stops(x)
       \/ Signal \/ HandlerStep \/ RootStep \/ HttpStep
       \/ \E r \in Requests : Request(r) \/ Respond(r)

Spec == Init /\ [][Next]_vars

\* Every goroutine that can go on does; nobody has to start an application, to
\* send a request or a signal.
FairSpec ==
    /\ Spec
    /\ \A x \in Comps : WF_vars(~exited /\ Stops(x))
    /\ WF_vars(~exited /\ HandlerStep)
    /\ WF_vars(~exited /\ RootStep)
    /\ WF_vars(~exited /\ HttpStep)
    /\ \A r \in Requests : WF_vars(~exited /\ Respond(r))

----------------------------------------------------------------------------
(* Properties *)

\* The variables keep their types, and the handler's index is one of a component.
TypeOK ==
    /\ kstage \in [Comps -> {"new", "initialized", "started", "stopping", "down"}]
    /\ topLevel \in Seq({Root} \union Tops) /\ topLevel[1] = Root
    /\ components \in Seq(AddOns)
    /\ hpc \in {"wait", "next", "await", "listen"} /\ i \in 1..Len(topLevel)
    /\ subscribe \in Seq({"Stopping", "Inactive", "Stopped"}) /\ Len(subscribe) <= ChanCap
    /\ rpc \in {"none", "Stopping", "Inactive", "unlocked", "test", "await", "Stopped", "tearDown"}
    /\ server.at \in {"spawned", "made", "listening", "returned"}
    /\ stopping \in {"none", "draining", "again"}
    /\ req \in [Requests -> {"new", "active", "done"}]
    /\ running \subseteq Tops /\ timedout \subseteq Tops
    /\ {ctxDone, exited} \subseteq BOOLEAN

\* A top level component is done with: it is down, or did not answer in time.
Settled(t) == kstage[t] = "down" \/ t \in timedout

\* The add-ons (the database, say) outlive the top level components: none is
\* stopped while an application that ran at the time of the signal still stops and
\* may be persisting its state, unless it had its time; and the process ends only
\* when every add-on is torn down.
OrderlyEnd ==
    /\ \A a \in AddOns : kstage[a] # "started" => \A t \in running : Settled(t)
    /\ exited => \A a \in AddOns : kstage[a] = "down"

\* README.md: use ctrl-c to quit.
CtrlCQuits == hpc # "wait" ~> exited
=============================================================================
