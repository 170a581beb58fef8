----------------------------- MODULE HttpRoutes -----------------------------
(***************************************************************************)
(* The HTTP routes of components: toCanonical and deriveHttpHandlers put   *)
(* them into the map of the root container when a component is added,      *)
(* removeHttpHandlers takes them out when it stops, GetHttpHandler and     *)
(* ServeHTTP answer requests (container.go, component.go, httpServer.go).  *)
(*                                                                         *)
(* A container has an activation goroutine, which adds one component at a  *)
(* time.  It may be added to itself and, later, to a parent.  A component  *)
(* is shut down by the container it was first added to (its owner): that   *)
(* is the one whose goroutine called the FSM that made its multiplexer.    *)
(*                                                                         *)
(* A URI is the sequence of the names in it.  Every component has the      *)
(* handler ServeHTTP and one more exported handler method.                 *)
(***************************************************************************)
EXTENDS Naturals, Sequences, FiniteSets

CONSTANTS
    Root,          \* the root container
    Containers,    \* the containers
    Comps,         \* all components, containers included
    None,          \* no container, no component
    Name,          \* the name of every component
    Lower,         \* strings.ToLower, on those names
    Method,        \* the name of the other handler, in lower case
    NonRest,       \* the components with isNonRestEntity
    Adds,          \* the calls of Add: pairs of a component and a container
    StopRejected   \* may a component that Add has refused be sent a Shutdown?

ASSUME HttpRoutesAssumption ==
    /\ Root \in Containers /\ Containers \subseteq Comps /\ None \notin Comps
    /\ NonRest \subseteq Comps
    /\ Adds \subseteq Comps \X Containers
    /\ \A a \in Adds : a[1] \in Containers => a[2] \in {a[1], Root}
    /\ StopRejected \in BOOLEAN

VARIABLES
    kstage,       \* the stage of every component
    owner,        \* the container it was first added to
    container,    \* SimpleComponent.container
    uri,          \* SimpleComponent.uri
    cComponents,  \* for every container, the components in its map
    cHandlers,    \* for every container, its handlers: [uri, comp, meth]
    act,          \* for every container, its activation goroutine: [at, comp]
    todo,         \* the calls of Add that have not been made
    clash,        \* history: components between toCanonical and their registration
                  \* when another one of their name removed its routes
    rq,           \* a request: [at, path, comp, meth]
    fatal         \* the runtime has ended the process: concurrent use of cHandlers

vars == <<kstage, owner, container, uri, cComponents, cHandlers, act, todo, clash, rq, fatal>>

Stages == {"new", "initialized", "started", "stopping", "stopped", "down"}
Resting == [at |-> "wait", comp |-> None]
NoRequest == [at |-> "idle", path |-> <<>>, comp |-> None, meth |-> "ServeHTTP"]

\* The URI of a component, given the container of each.
URIIn(cont, c) ==
    LET Path[x \in Comps] ==
            IF cont[x] = None THEN <<>> ELSE Path[cont[x]] \o <<Lower[Name[cont[x]]]>>
    IN  Path[c] \o <<Lower[Name[c]]>>

\* deriveHttpHandlers.
DeriveHttpHandlers(cont, c) ==
    IF c \in NonRest THEN {}
    ELSE {[uri |-> URIIn(cont, c), comp |-> c, meth |-> "ServeHTTP"],
          [uri |-> URIIn(cont, c) \o <<Method>>, comp |-> c, meth |-> Method]}

URIs(hs) == {h.uri : h \in hs}

\* The root container was added to itself and is running.
Init ==
    /\ kstage = [c \in Comps |-> IF c = Root THEN "started" ELSE "new"]
    /\ owner = [c \in Comps |-> IF c = Root THEN Root ELSE None]
    /\ container = [c \in Comps |-> None]
    /\ uri = [c \in Comps |-> IF c = Root THEN <<Lower[Name[Root]]>> ELSE <<>>]
    /\ cComponents = [k \in Containers |-> IF k = Root THEN {Root} ELSE {}]
    /\ cHandlers = [k \in Containers |->
                        IF k = Root THEN DeriveHttpHandlers(container, Root) ELSE {}]
    /\ act = [k \in Containers |-> Resting]
    /\ todo = Adds
    /\ clash = {}
    /\ rq = NoRequest
    /\ fatal = FALSE

Named(k, c) == {d \in cComponents[k] : Name[d] = Name[c]}
Activating(c) == \E k \in Containers : act[k].comp = c
Goto(k, at, to) == act[k].at = at /\ act' = [act EXCEPT ![k].at = to]

----------------------------------------------------------------------------
(* Container.Add *)

\* A component may not have the name of its container.  A container is added to
\* itself first.
Add(c, k) ==
    /\ <<c, k>> \in todo
    /\ c = k \/ Name[c] # Name[k]
    /\ c \in Containers /\ k # c => kstage[c] = "started"
    /\ act[k] = Resting
    /\ k = c \/ kstage[k] = "started"
    /\ todo' = todo \ {<<c, k>>}
    /\ act' = [act EXCEPT ![k] = [at |-> "init", comp |-> c]]
    /\ UNCHANGED <<kstage, owner, container, uri, cComponents, cHandlers, clash, rq, fatal>>

\* The first FSM call; it does nothing to a component added before.
Initialize(k) ==
    LET c == act[k].comp IN
    /\ Goto(k, "init", "canonical")
    /\ kstage' = [kstage EXCEPT ![c] = IF @ = "new" THEN "initialized" ELSE @]
    /\ owner' = [owner EXCEPT ![c] = IF @ = None THEN k ELSE @]
    /\ UNCHANGED <<container, uri, cComponents, cHandlers, todo, clash, rq, fatal>>

\* Mutant: a handler is added beside the one that is there.
PutHandlersTwice(hs, new) == hs \union new

\* A handler replaces the one of the same URI.
PutHandlers(hs, new) == {h \in hs : h.uri \notin URIs(new)} \union new

\* toCanonical: a container that is added to itself has no container.  The
\* handlers replace those of the same URI in the map of the root container.
ToCanonical(k) ==
    LET c == act[k].comp
        cont == IF c = k THEN container ELSE [container EXCEPT ![c] = k]
        handlers == DeriveHttpHandlers(cont, c)
    IN
    /\ Goto(k, "canonical", "found")
    /\ container' = cont
    /\ uri' = [uri EXCEPT ![c] = IF handlers = {} THEN @ ELSE URIIn(cont, c)]
    /\ cHandlers' = [cHandlers EXCEPT ![Root] = PutHandlers(@, handlers)]
    /\ UNCHANGED <<kstage, owner, cComponents, todo, clash, rq, fatal>>

\* A name that is taken is refused now; the routes stay.
Register(k) ==
    LET c == act[k].comp IN
    /\ act[k].at = "found"
    /\ \/ /\ Named(k, c) # {}
          /\ act' = [act EXCEPT ![k] = Resting]
          /\ UNCHANGED cComponents
       \/ /\ Named(k, c) = {}
          /\ act' = [act EXCEPT ![k].at = "start"]
          /\ cComponents' = [cComponents EXCEPT ![k] = @ \union {c}]
    /\ UNCHANGED <<kstage, owner, container, uri, cHandlers, todo, clash, rq, fatal>>

\* The second FSM call.
Start(k) ==
    LET c == act[k].comp IN
    /\ act[k].at = "start"
    /\ act' = [act EXCEPT ![k] = Resting]
    /\ kstage' = [kstage EXCEPT ![c] = IF @ = "initialized" THEN "started" ELSE @]
    /\ UNCHANGED <<owner, container, uri, cComponents, cHandlers, todo, clash, rq, fatal>>

----------------------------------------------------------------------------
(* Shutdown of a component, by its owner *)

\* A component that Add has refused was started by its first Shutdown.
Shutdown(c) ==
    /\ c # Root
    /\ \/ kstage[c] = "started"
       \/ /\ StopRejected
          /\ kstage[c] = "initialized" /\ ~Activating(c)
    /\ kstage' = [kstage EXCEPT ![c] = "stopping"]
    /\ UNCHANGED <<owner, container, uri, cComponents, cHandlers, act, todo, clash, rq, fatal>>

\* Stop() has returned: that of a container stops its components first.
Stoppable(c) ==
    /\ kstage[c] = "stopping"
    /\ c \in Containers => cComponents[c] \subseteq {c}

\* removeHttpHandlers: from the map of the owner.
RemoveHttpHandlers(c) ==
    LET handlers == DeriveHttpHandlers(container, c) IN
    /\ Stoppable(c)
    /\ kstage' = [kstage EXCEPT ![c] = "stopped"]
    /\ uri' = [uri EXCEPT ![c] = IF handlers = {} THEN @ ELSE URIIn(container, c)]
    /\ cHandlers' = [cHandlers EXCEPT ![owner[c]] = {h \in @ : h.uri \notin URIs(handlers)}]
    /\ clash' = clash \union {d \in Comps \ {c} : act[owner[c]] = [at |-> "found", comp |-> d]
                                                /\ Name[d] = Name[c]}
    /\ UNCHANGED <<owner, container, cComponents, act, todo, rq, fatal>>

\* removeComponent: whatever has its name.
RemoveComponent(c) ==
    /\ kstage[c] = "stopped"
    /\ kstage' = [kstage EXCEPT ![c] = "down"]
    /\ cComponents' = [cComponents EXCEPT ![owner[c]] = @ \ Named(owner[c], c)]
    /\ UNCHANGED <<owner, container, uri, cHandlers, act, todo, clash, rq, fatal>>

----------------------------------------------------------------------------
(* Requests *)

\* The handlers of the first n names of a path.
HandlersOf(path, n) == {h \in cHandlers[Root] : h.uri = SubSeq(path, 1, n)}

\* Mutant: the shortest prefix wins.
GetHttpHandlerShortest(path) ==
    LET Find[n \in 1..(Len(path) + 1)] ==
            IF n > Len(path) THEN {}
            ELSE IF HandlersOf(path, n) # {} THEN HandlersOf(path, n) ELSE Find[n + 1]
    IN  Find[1]

\* GetHttpHandler: the handler of the longest prefix, found by cutting names off.
GetHttpHandler(path) ==
    LET Find[n \in 0..Len(path)] ==
            IF n = 0 THEN {}
            ELSE IF HandlersOf(path, n) # {} THEN HandlersOf(path, n) ELSE Find[n - 1]
    IN  Find[Len(path)]

\* Mutant: the component itself is marshalled, not what its container has.
ServeHTTPItself(c, path) == IF path # uri[c] THEN None ELSE c

\* ServeHTTP of component c: the component that is marshalled, or None (404).
ServeHTTP(c, path) ==
    IF path # uri[c] THEN None
    ELSE IF container[c] = None THEN c
    ELSE LET found == Named(container[c], c) IN IF found = {} THEN None ELSE CHOOSE d \in found : TRUE

\* The paths that somebody may ask for.
Paths == {u \in URIs(UNION {DeriveHttpHandlers(container, c) : c \in Comps}) : Len(u) > 0}

Lookup(path) ==
    /\ rq.at = "idle"
    /\ \E h \in GetHttpHandler(path) :
          rq' = [at |-> "serve", path |-> path, comp |-> h.comp, meth |-> h.meth]
    /\ UNCHANGED <<kstage, owner, container, uri, cComponents, cHandlers, act, todo, clash, fatal>>

\* The handler runs; the answer of the other method is its own business.
Serve ==
    /\ rq.at = "serve"
    /\ rq' = IF rq.meth = "ServeHTTP"
             THEN [rq EXCEPT !.at = "answered", !.comp = ServeHTTP(rq.comp, rq.path)]
             ELSE NoRequest
    /\ UNCHANGED <<kstage, owner, container, uri, cComponents, cHandlers, act, todo, clash, fatal>>

Respond ==
    /\ rq.at = "answered"
    /\ rq' = NoRequest
    /\ UNCHANGED <<kstage, owner, container, uri, cComponents, cHandlers, act, todo, clash, fatal>>

----------------------------------------------------------------------------
\* The goroutines about to write the root container's cHandlers.
Writers ==
    {k \in Containers : act[k].at = "canonical"}
        \union {c \in Comps : Stoppable(c) /\ owner[c] = Root}

\* Two of them, or one and a request, may use the map at once.
MapFatal ==
    /\ Cardinality(Writers) > 1 \/ (Writers # {} /\ rq.at = "idle")
    /\ fatal' = TRUE
    /\ UNCHANGED <<kstage, owner, container, uri, cComponents, cHandlers, act, todo, clash, rq>>

Next ==
    /\ ~fatal
    /\ \/ \E c \in Comps, k \in Containers : Add(c, k)
       \/ \E k \in Containers : Initialize(k) \/ ToCanonical(k) \/ Register(k) \/ Start(k)
       \/ \E c \in Comps : Shutdown(c) \/ RemoveHttpHandlers(c) \/ RemoveComponent(c)
       \/ \E p \in Paths : Lookup(p)
       \/ Serve \/ Respond \/ MapFatal

Spec == Init /\ [][Next]_vars

----------------------------------------------------------------------------
(* Properties *)

\* The variables keep their types, and a URI has one handler.
TypeOK ==
    /\ kstage \in [Comps -> Stages]
    /\ owner \in [Comps -> Containers \union {None}]
    /\ container \in [Comps -> Containers \union {None}]
    /\ \A k \in Containers :
          /\ cComponents[k] \subseteq Comps
          /\ \A g, h \in cHandlers[k] : g.uri = h.uri => g = h
          /\ act[k].at \in {"wait", "init", "canonical", "found", "start"}
    /\ todo \subseteq Adds /\ clash \subseteq Comps
    /\ rq.at \in {"idle", "serve", "answered"} /\ rq.comp \in Comps \union {None}
    /\ fatal \in BOOLEAN

\* What a request for the URI of c would be answered with.
Answer(c) ==
    LET hs == GetHttpHandler(uri[c]) IN
    IF hs = {} THEN None
    ELSE LET h == CHOOSE h \in hs : TRUE
         IN  IF h.meth = "ServeHTTP" THEN ServeHTTP(h.comp, uri[c]) ELSE None

\* Every running component is found at its URI, whatever is added, refused or
\* stopped in its container or another one, and even if its container gets a
\* parent; unless it was added while a component of that name shut down, which
\* then removes the routes of its successor.
Reachable ==
    \A c \in Comps \ (NonRest \union clash) :
        kstage[c] = "started" /\ ~Activating(c) => Answer(c) = c

\* Nobody is shown a component that is torn down, although a request may hold its
\* handler and its route may be there still, if the component is in the container
\* that shuts it down (and not a container that was added to itself).
NoDeadAnswer ==
    [][/\ rq.at = "serve" /\ rq'.at = "answered" /\ rq'.comp # None
       /\ container[rq'.comp] = owner[rq'.comp]
       => kstage[rq'.comp] # "down"]_vars

\* README.md: the handlers of a component are removed when it is stopped and
\* torn down.
RoutesRemoved ==
    \A c \in Comps : kstage[c] = "down" => \A h \in cHandlers[Root] : h.comp # c
=============================================================================
