----------------------------- MODULE Container -----------------------------
(***************************************************************************)
(* A container and the components it holds: Container.Add's activation     *)
(* goroutine, Container.Stop, which shuts the components down in LIFO      *)
(* order, and removeComponent, by which every component takes itself out   *)
(* of the container.                                                       *)
(*                                                                         *)
(* Stop runs with the container's mutating lock held, in the FSM call of   *)
(* the container's own Shutdown.  Add appends to `components' under that   *)
(* lock; removeComponent, called from the FSM call of the component, takes *)
(* no lock of the container, and the map cComponents has none.  What such  *)
(* races may do is part of the model: a stale slice header, a panic, and   *)
(* the fatal error of the Go runtime on concurrent uses of a map.          *)
(*                                                                         *)
(* The life of a component is reduced to what the container sees of it:    *)
(* module Lifecycle has the detail.                                        *)
(***************************************************************************)
EXTENDS Naturals, Sequences, FiniteSets, FiniteSetsExt

CONSTANTS
    Children,        \* the components
    Self,            \* the container itself, as a component
    Bootstrap,       \* the container is added to itself: "first", "late" or "never"
    Clients,         \* the components that somebody else may shut down
    AddsDuringStop,  \* may Add be called when the container shuts down?
    Timeouts,        \* may a Shutdown sent by Stop time out?
    StopMayFail      \* may a component's Stop() return an error?

Comps == Children \union {Self}

ASSUME ContainerAssumption ==
    /\ Self \notin Children
    /\ Bootstrap \in {"first", "late", "never"}
    /\ Clients \subseteq Children
    /\ AddsDuringStop \in BOOLEAN /\ Timeouts \in BOOLEAN /\ StopMayFail \in BOOLEAN

VARIABLES
    cstage,      \* the container: "started", "stopping", "halting" (in Stop), "down"
    array,       \* the memory behind the slice Container.components
    len,         \* its length
    cComponents, \* the keys of Container.cComponents
    kstage,      \* the stage of every component
    pending,     \* components whose Add is waiting for the activation goroutine
    act,         \* the activation goroutine: [at, comp, n], n the length it has read
    spc,         \* where Stop is
    last,        \* Stop's local variable, plus one
    target,      \* the component Stop is busy with
    panicked,    \* Stop has panicked once and was called again
    late,        \* history: a Shutdown sent by Stop has timed out
    rpc,         \* where every component's removeComponent is
    snap         \* the index and the length that call has read

vars == <<cstage, array, len, cComponents, kstage, pending, act, spc, last, target, panicked,
          late, rpc, snap>>

list == <<array, len>>

actVars == <<pending, act>>
stopVars == <<spc, last, target, panicked, late>>
rmVars == <<rpc, snap>>

Resting == [at |-> "wait", comp |-> Self, n |-> 0]
Activating(x) == act.at # "wait" /\ act.comp = x
NoSnap == [idx |-> 0, n |-> 0]
Crashed == spc = "crashed"

\* The container's mutating lock is held by the FSM call that runs Stop, to its
\* end.
Locked == cstage = "halting" \/ rpc[Self] # "none"

Init ==
    /\ cstage = "started"
    /\ array = IF Bootstrap = "first" THEN <<Self>> ELSE <<>>
    /\ len = Len(array)
    /\ cComponents = IF Bootstrap = "first" THEN {Self} ELSE {}
    /\ kstage = [x \in Comps |-> IF x = Self THEN "started" ELSE "new"]
    /\ pending = {}
    /\ act = Resting
    /\ spc = "none"
    /\ last = 0
    /\ target = Self
    /\ panicked = FALSE
    /\ late = FALSE
    /\ rpc = [x \in Comps |-> "none"]
    /\ snap = [x \in Comps |-> NoSnap]

----------------------------------------------------------------------------
(* Container.Add *)

\* The queue is made by the first Add and is there at every later stage.  (The
\* second Add of a component is in Lifecycle.)
Add(x) ==
    /\ kstage[x] = "new" \/ (x = Self /\ Bootstrap = "late" /\ Self \notin cComponents)
    /\ x \notin pending /\ ~Activating(x)
    /\ AddsDuringStop \/ cstage = "started"
    /\ pending' = pending \union {x}
    /\ UNCHANGED <<cstage, list, cComponents, kstage, act, stopVars, rmVars>>

ActTake(x) ==
    /\ act.at = "wait"
    /\ x \in pending
    /\ pending' = pending \ {x}
    /\ act' = [at |-> "init", comp |-> x, n |-> 0]
    /\ UNCHANGED <<cstage, list, cComponents, kstage, stopVars, rmVars>>

\* The first FSM call; Init() may fail, and Add then returns its error.
ActInit ==
    /\ act.at = "init"
    /\ \/ /\ kstage' = [kstage EXCEPT ![act.comp] = IF @ = "new" THEN "initialized" ELSE @]
          /\ act' = [act EXCEPT !.at = "map"]
       \/ /\ kstage[act.comp] = "new"
          /\ kstage' = [kstage EXCEPT ![act.comp] = "aborted"]
          /\ act' = Resting
    /\ UNCHANGED <<cstage, list, cComponents, pending, stopVars, rmVars>>

\* Mutant: the component is only put into the slice.
ActMapForgets ==
    /\ act.at = "map"
    /\ act' = [act EXCEPT !.at = "lock"]
    /\ UNCHANGED <<cstage, list, cComponents, kstage, pending, stopVars, rmVars>>

ActMap ==
    /\ act.at = "map"
    /\ cComponents' = cComponents \union {act.comp}
    /\ act' = [act EXCEPT !.at = "lock"]
    /\ UNCHANGED <<cstage, list, kstage, pending, stopVars, rmVars>>

\* The slice is read and written back with the lock held.
ActLock ==
    /\ act.at = "lock"
    /\ ~Locked
    /\ act' = [act EXCEPT !.at = "append", !.n = len]
    /\ UNCHANGED <<cstage, list, cComponents, kstage, pending, stopVars, rmVars>>

\* Mutant: the slice is made longer than what was put into it.
ActAppendTooLong ==
    /\ act.at = "append"
    /\ array' = Append(array, act.comp)
    /\ len' = act.n + 2
    /\ act' = [act EXCEPT !.at = "start"]
    /\ UNCHANGED <<cstage, cComponents, kstage, pending, stopVars, rmVars>>

ActAppend ==
    /\ act.at = "append"
    /\ array' = IF act.n < Len(array) THEN [array EXCEPT ![act.n + 1] = act.comp]
                ELSE Append(array, act.comp)
    /\ len' = act.n + 1
    /\ act' = [act EXCEPT !.at = "start"]
    /\ UNCHANGED <<cstage, cComponents, kstage, pending, stopVars, rmVars>>

\* The second FSM call; one that finds the component Started does nothing.
ActStart ==
    /\ act.at = "start"
    /\ kstage' = [kstage EXCEPT ![act.comp] = IF @ = "initialized" THEN "started" ELSE @]
    /\ act' = Resting
    /\ UNCHANGED <<cstage, list, cComponents, pending, stopVars, rmVars>>

ActStep ==
    \/ ActInit \/ ActMap \/ ActLock \/ ActAppend \/ ActStart
    \/ \E x \in Comps : ActTake(x)

----------------------------------------------------------------------------
(* A component *)

\* What a Shutdown message does to a component that takes it: the FSM starts
\* one that is Initialized, and stops one that is Started.
AfterShutdown(s) == IF s = "initialized" THEN "started" ELSE "stopping"

\* Somebody other than the container sends Shutdown.
ClientShutdown(x) ==
    /\ x \in Clients
    /\ kstage[x] \in {"initialized", "started"}
    /\ kstage' = [kstage EXCEPT ![x] = AfterShutdown(@)]
    /\ UNCHANGED <<cstage, list, cComponents, actVars, stopVars, rmVars>>

\* The component's Stop() returns: it is torn down and calls removeComponent.
ChildStops(x) ==
    /\ x # Self
    /\ kstage[x] = "stopping"
    /\ \/ /\ kstage' = [kstage EXCEPT ![x] = "down"]
          /\ rpc' = [rpc EXCEPT ![x] = "delete"]
       \/ /\ StopMayFail
          /\ kstage' = [kstage EXCEPT ![x] = "stuck"]
          /\ UNCHANGED rpc
    /\ UNCHANGED <<cstage, list, cComponents, actVars, stopVars, snap>>

\* removeComponent: delete from the map,
RemoveDelete(x) ==
    /\ rpc[x] = "delete"
    /\ cComponents' = cComponents \ {x}
    /\ rpc' = [rpc EXCEPT ![x] = "read"]
    /\ UNCHANGED <<cstage, list, kstage, actVars, stopVars, snap>>

\* look for the name in the slice, from its end,
RemoveRead(x) ==
    LET found == {i \in 1..len : array[i] = x} IN
    /\ rpc[x] = "read"
    /\ \/ /\ found # {}
          /\ snap' = [snap EXCEPT ![x] = [idx |-> Max(found), n |-> len]]
          /\ rpc' = [rpc EXCEPT ![x] = "assign"]
       \/ /\ found = {}
          /\ rpc' = [rpc EXCEPT ![x] = "none"]
          /\ UNCHANGED snap
    /\ UNCHANGED <<cstage, list, cComponents, kstage, actVars, stopVars>>

\* Mutant: the name is not taken out of the slice.
RemoveAssignNothing(x) ==
    /\ rpc[x] = "assign"
    /\ rpc' = [rpc EXCEPT ![x] = "none"]
    /\ snap' = [snap EXCEPT ![x] = NoSnap]
    /\ UNCHANGED <<cstage, list, cComponents, kstage, actVars, stopVars>>

\* and move what is behind it one place down, in place.  The slice header it
\* uses was read before or after a concurrent change; an index behind the end
\* panics, which the component's startMmux recovers from.
RemoveAssign(x) ==
    /\ rpc[x] = "assign"
    /\ \E n \in {snap[x].n, len} :
          \/ /\ snap[x].idx <= n
             /\ array' = [i \in DOMAIN array |->
                            IF i \in snap[x].idx..(n - 1) THEN array[i + 1] ELSE array[i]]
             /\ len' = n - 1
          \/ /\ snap[x].idx > n
             /\ UNCHANGED list
    /\ rpc' = [rpc EXCEPT ![x] = "none"]
    /\ snap' = [snap EXCEPT ![x] = NoSnap]
    /\ UNCHANGED <<cstage, cComponents, kstage, actVars, stopVars>>

ChildStep(x) == ChildStops(x) \/ RemoveDelete(x) \/ RemoveRead(x) \/ RemoveAssign(x)

----------------------------------------------------------------------------
(* Container.Stop *)

\* The container's Shutdown: the first FSM call sets Stopping, ...
Shutdown ==
    /\ cstage = "started"
    /\ AddsDuringStop \/ (pending = {} /\ act = Resting)
    /\ cstage' = "stopping"
    /\ UNCHANGED <<list, cComponents, kstage, actVars, stopVars, rmVars>>

\* ... the second takes the lock and calls Stop.
StopBegin ==
    /\ cstage = "stopping"
    /\ act.at # "append"
    /\ cstage' = "halting"
    /\ spc' = "test"
    /\ last' = len
    /\ UNCHANGED <<list, cComponents, kstage, actVars, target, panicked, late,
                   rmVars>>

\* Mutant: components are stopped in the order they were added.
StopIndexFifo ==
    /\ spc = "test" /\ last > 0 /\ last <= len
    /\ target' = array[IF len > 1 /\ array[1] = Self THEN 2 ELSE 1]
    /\ spc' = IF target' \in cComponents /\ target' # Self THEN "send"
              ELSE IF target' = Self /\ last = 1 THEN "return" ELSE "next"
    /\ UNCHANGED <<cstage, list, cComponents, kstage, actVars, last, panicked, late,
                   rmVars>>

\* The loop's test, c.components[last] and what is found of it in the map.
StopIndex ==
    /\ spc = "test" /\ last > 0 /\ last <= len
    /\ target' = array[last]
    /\ spc' = IF target' \in cComponents /\ target' # Self THEN "send"
              ELSE IF target' = Self /\ last = 1 /\ Self \in cComponents THEN "return"
              ELSE "next"
    /\ UNCHANGED <<cstage, list, cComponents, kstage, actVars, last, panicked, late,
                   rmVars>>

\* The slice may have become shorter since last was computed.  The panic
\* releases the lock and is recovered from in startMmux, whose RestartMmux call
\* runs Stop again, as the container is Stopping; nothing recovers from a panic
\* of that call.
StopPanics ==
    /\ spc = "test" /\ last > len
    /\ panicked' = TRUE
    /\ spc' = IF panicked THEN "crashed" ELSE "none"
    /\ cstage' = "stopping"
    /\ UNCHANGED <<list, cComponents, kstage, actVars, last, target, late, rmVars>>

\* SendSyncMessage: an ending component refuses the message.
StopSend ==
    /\ spc = "send"
    /\ \/ /\ kstage[target] \in {"initialized", "started"}
          /\ kstage' = [kstage EXCEPT ![target] = AfterShutdown(@)]
          /\ spc' = "wait"
       \/ /\ kstage[target] \notin {"initialized", "started"}
          /\ spc' = "next"
          /\ UNCHANGED kstage
    /\ UNCHANGED <<cstage, list, cComponents, actVars, last, target, panicked, late,
                   rmVars>>

\* Mutant: Stop does not wait for the answer.
StopAnsweredAtOnce ==
    /\ spc = "wait"
    /\ spc' = "next"
    /\ UNCHANGED <<cstage, list, cComponents, kstage, actVars, last, target, panicked, late,
                   rmVars>>

\* The answer comes when the component's FSM call has returned, or too late.
StopAnswered ==
    LET answered == kstage[target] # "stopping" /\ rpc[target] = "none" IN
    /\ spc = "wait"
    /\ answered \/ Timeouts
    /\ spc' = "next"
    /\ late' = (late \/ ~answered)
    /\ UNCHANGED <<cstage, list, cComponents, kstage, actVars, last, target, panicked, rmVars>>

\* Mutant: the component that was stopped is counted although it is gone.
StopNextSkips ==
    /\ spc = "next"
    /\ last' = IF len > 1 THEN len - 1 ELSE len
    /\ spc' = "test"
    /\ UNCHANGED <<cstage, list, cComponents, kstage, actVars, target, panicked, late,
                   rmVars>>

StopNext ==
    /\ spc = "next"
    /\ last' = len
    /\ spc' = "test"
    /\ UNCHANGED <<cstage, list, cComponents, kstage, actVars, target, panicked, late,
                   rmVars>>

\* Stop returns; the container is Stopped and torn down, and taken out of the
\* container that runs its FSM, which is itself if it was the first to add it.
StopReturn ==
    /\ spc = "return" \/ (spc = "test" /\ last = 0)
    /\ spc' = "none"
    /\ cstage' = "down"
    /\ rpc' = [rpc EXCEPT ![Self] = IF Bootstrap = "first" THEN "delete" ELSE @]
    /\ UNCHANGED <<list, cComponents, kstage, actVars, last, target, panicked, late,
                   snap>>

StopStep ==
    \/ StopBegin \/ StopIndex \/ StopPanics \/ StopSend \/ StopAnswered \/ StopNext
    \/ StopReturn

----------------------------------------------------------------------------
\* The goroutines about to write or to read the map.
MapWriters == {x \in Comps : rpc[x] = "delete"} \union (IF act.at = "map" THEN {"act"} ELSE {})
MapReaders == IF spc = "test" THEN {"stop"} ELSE {}

\* The runtime may notice that one of them writes while another uses the map.
MapFatal ==
    /\ MapWriters # {}
    /\ Cardinality(MapWriters) + Cardinality(MapReaders) > 1
    /\ spc' = "crashed"
    /\ UNCHANGED <<cstage, list, cComponents, kstage, actVars, last, target, panicked, late,
                   rmVars>>

Next ==
    /\ ~Crashed
    /\ \/ \E x \in Comps : Add(x) \/ ClientShutdown(x) \/ ChildStep(x)
       \/ ActStep \/ Shutdown \/ StopStep \/ MapFatal

Spec == Init /\ [][Next]_vars

\* Goroutines that can run do run; nobody has to call Add or to ask for a
\* shutdown.
FairSpec ==
    /\ Spec
    /\ WF_vars(~Crashed /\ ActStep)
    /\ WF_vars(~Crashed /\ StopStep)
    /\ \A x \in Comps : WF_vars(~Crashed /\ ChildStep(x))

----------------------------------------------------------------------------
(* Properties *)

\* The variables keep their types; the slice never reaches beyond the memory
\* that removeComponent and append have written.
TypeOK ==
    /\ cstage \in {"started", "stopping", "halting", "down"}
    /\ array \in Seq(Comps)
    /\ len \in 0..Len(array)
    /\ cComponents \subseteq Comps
    /\ kstage \in [Comps -> {"new", "initialized", "aborted", "started", "stopping", "stuck",
                             "down"}]
    /\ pending \subseteq Comps
    /\ act \in [at : {"wait", "init", "map", "lock", "append", "start"}, comp : Comps, n : Nat]
    /\ spc \in {"none", "test", "send", "wait", "next", "return", "crashed"}
    /\ last \in Nat
    /\ target \in Comps
    /\ panicked \in BOOLEAN /\ late \in BOOLEAN
    /\ rpc \in [Comps -> {"none", "delete", "read", "assign"}]
    /\ snap \in [Comps -> [idx : Nat, n : Nat]]

\* Stop works in LIFO order: while it waits for a component, none that was
\* added later is left, even when the wait timed out and is repeated.
LifoStop ==
    spc = "wait" =>
        \A i, j \in 1..len :
            array[i] = target /\ i < j /\ array[j] # Self => kstage[array[j]] = "down"

\* A container that is torn down leaves no component of its own running.
NoOrphan == cstage = "down" => \A x \in Children : kstage[x] \notin {"initialized", "started"}

\* The slice and the map hold the same components, but for the ones that are
\* being added or removed.
ListMatchesMap ==
    \A x \in Comps : rpc[x] = "none" /\ ~Activating(x) =>
        (x \in cComponents <=> \E i \in 1..len : array[i] = x)

\* A container that is stopping gets stopped.
StopReturns == cstage = "stopping" ~> cstage = "down" \/ Crashed

\* Whatever Stop, other clients and Add do at the same time, GetComponent finds
\* every component that runs and whose Add has returned.
RunningIsFound ==
    \A x \in Children : kstage[x] = "started" /\ ~Activating(x) => x \in cComponents

\* As long as no Shutdown times out, Stop and removeComponent never meet: Stop does
\* not index the slice out of range, and the process does not die of concurrent
\* uses of the map.
QuietStop == ~late => ~panicked /\ ~Crashed
=============================================================================
