-------------------------- MODULE HttpRoutesProofs --------------------------
(***************************************************************************)
(* Proofs about HttpRoutes, for any containers in the root container, any  *)
(* components, names and calls of Add.                                     *)
(*                                                                         *)
(* URIIn and GetHttpHandler are recursive functions.  A proof that uses    *)
(* one first gives an explicit function that satisfies the recursive       *)
(* equation; the one chosen then satisfies it, too, and can be unfolded.   *)
(***************************************************************************)
EXTENDS HttpRoutes, SequenceTheorems, WellFoundedInduction, TLAPS

----------------------------------------------------------------------------
(* Invariants *)

Low(c) == Lower[Name[c]]
Words == {Low(c) : c \in Comps} \union {Method}
Places == {"wait", "init", "canonical", "found", "start"}
Handlers == [uri : Seq(Words), comp : Comps, meth : {"ServeHTTP", Method}]
Requests == [at : {"idle", "serve", "answered"}, path : Seq(Words),
             comp : Comps \union {None}, meth : {"ServeHTTP", Method}]

PlainType ==
    /\ kstage \in [Comps -> Stages]
    /\ owner \in [Comps -> Containers \union {None}]
    /\ container \in [Comps -> Containers \union {None}]
    /\ uri \in [Comps -> Seq(Words)]
    /\ cComponents \in [Containers -> SUBSET Comps]
    /\ cHandlers \in [Containers -> SUBSET Handlers]
    /\ act \in [Containers -> [at : Places, comp : Comps \union {None}]]
    /\ todo \subseteq Adds /\ clash \subseteq Comps
    /\ rq \in Requests
    /\ fatal \in BOOLEAN

\* Containers are in the root container, or in none.
Shallow(cont) ==
    /\ cont[Root] = None
    /\ \A k \in Containers : cont[k] \in {None, Root}

\* What an activation goroutine works on was given to it by Add.
ActInv ==
    \A k \in Containers :
        /\ act[k].at = "wait" <=> act[k].comp = None
        /\ act[k].at # "wait" => <<act[k].comp, k>> \in Adds \ todo
        /\ act[k].at \in {"canonical", "found", "start"} =>
              kstage[act[k].comp] # "new" /\ owner[act[k].comp] # None

\* A URI has one handler.
OneInv == \A k \in Containers : \A g, h \in cHandlers[k] : g.uri = h.uri => g = h

TypeInv ==
    /\ PlainType /\ Shallow(container) /\ ActInv /\ OneInv
    /\ \A c \in Comps : kstage[c] # "new" => owner[c] # None
    /\ rq.at = "serve" => rq.comp # None

----------------------------------------------------------------------------
(* Invariants of components with one parent *)

\* A component that is no container is added to one container.
OneParent == \A a, b \in Adds : a[1] = b[1] /\ a[1] \notin Containers => a = b

Leaves == Comps \ Containers

\* A container is its own owner; the root container has run from the start.
SelfInv ==
    /\ kstage[Root] = "started" /\ owner[Root] = Root
    /\ \A c \in Containers :
          /\ owner[c] \in {None, c}
          /\ \A k \in Containers : act[k].comp = c /\ k # c => owner[c] # None

\* A component stays with the container it was given to, ...
OwnerOf(c) ==
    /\ owner[c] # None => <<c, owner[c]>> \in Adds \ todo
    /\ container[c] # None => container[c] = owner[c]
    /\ \A k \in Containers :
          /\ c \in cComponents[k] => owner[c] = k
          /\ act[k].comp = c /\ act[k].at \in {"found", "start"} => container[c] = k
          /\ act[k].comp = c /\ act[k].at \in {"init", "canonical"} => container[c] = None

\* ... and is not in its map when it is down.
GoneOf(c) ==
    \A k \in Containers :
        /\ act[k].comp = c => kstage[c] \in {"new", "initialized"}
        /\ act[k].comp = c /\ act[k].at = "init" => kstage[c] = "new"
        /\ kstage[c] = "down" => c \notin cComponents[k]

DeadInv == SelfInv /\ \A c \in Leaves : OwnerOf(c) /\ GoneOf(c)

----------------------------------------------------------------------------
(* Invariants of components with names of their own *)

\* Names differ not only in case, none is that of a handler method, and no component
\* has the name of a container.  No component that was refused is shut down.
Distinct ==
    /\ OneParent /\ ~StopRejected
    /\ \A c, d \in Comps : Low(c) = Low(d) => Name[c] = Name[d]
    /\ \A c \in Comps : Low(c) # Method
    /\ \A c \in Comps, k \in Containers : Name[c] = Name[k] => c = k

\* The map of a container has one component of a name, ...
OneName == \A k \in Containers : \A c, d \in cComponents[k] : Name[c] = Name[d] => c = d

\* ... a component from its registration on, until it is down, ...
LeafIn(c) ==
    /\ kstage[c] \in {"started", "stopping", "stopped"} =>
          container[c] # None /\ c \in cComponents[container[c]]
    /\ \A k \in Containers : act[k].comp = c /\ act[k].at = "start" => c \in cComponents[k]

\* ... and a container for ever.
ContainerIn(c) ==
    container[c] # None =>
        c \in cComponents[Root] \/ (act[Root].at = "found" /\ act[Root].comp = c)

MapInv == OneName /\ (\A c \in Leaves : LeafIn(c)) /\ (\A c \in Containers : ContainerIn(c))

\* The last names of a URI tell which component of which container it is for.
Shape(cont, u, c) ==
    /\ Len(u) > 0 /\ u[Len(u)] = Low(c)
    /\ c \in Leaves => /\ cont[c] # None
                       /\ Len(u) > 1 /\ u[Len(u) - 1] = Low(cont[c])

MethodAtEnd(u) == Len(u) > 0 /\ u[Len(u)] = Method

HandlerShape(cont, h) ==
    MethodAtEnd(h.uri) \/ (h.meth = "ServeHTTP" /\ Shape(cont, h.uri, h.comp))

ShapeInv ==
    /\ \A c \in Comps : uri[c] # <<>> => Shape(container, uri[c], c)
    /\ \A h \in cHandlers[Root] : HandlerShape(container, h)

\* A component has its routes from toCanonical on ...
Live(c) ==
    \/ kstage[c] = "started"
    \/ /\ kstage[c] = "initialized"
       /\ \E k \in Containers : act[k].comp = c /\ act[k].at \in {"found", "start"}

\* ... until it stops: a handler of its URI is its own or that of a component that
\* was, or will be, refused.
Routed(c) ==
    /\ uri[c] # <<>>
    /\ \E h \in cHandlers[Root] : h.uri = uri[c]
    /\ \A h \in cHandlers[Root] : h.uri = uri[c] =>
          /\ uri[h.comp] = uri[c]
          /\ h.comp = c \/ kstage[h.comp] = "initialized"

RouteInv == \A c \in Comps \ (NonRest \union clash) : Live(c) => Routed(c)

Inv == TypeInv /\ DeadInv /\ MapInv /\ ShapeInv /\ RouteInv

----------------------------------------------------------------------------
(* What the recursive functions compute *)

\* A name at the end of a path.
LEMMA AtTheEnd ==
    ASSUME NEW S, NEW p \in Seq(S), NEW a \in S
    PROVE  /\ p \o <<a>> \in Seq(S)
           /\ Len(p \o <<a>>) = Len(p) + 1
           /\ (p \o <<a>>)[Len(p) + 1] = a
           /\ \A i \in 1..Len(p) : (p \o <<a>>)[i] = p[i]
<1>1. <<a>> \in Seq(S) /\ Len(<<a>>) = 1 /\ <<a>>[1] = a
  OBVIOUS
<1>2. Len(p) \in Nat
  BY LenProperties
<1> QED BY <1>1, <1>2, ConcatProperties

LEMMA ShortPaths ==
    ASSUME NEW a, NEW b
    PROVE  <<>> \o <<a>> = <<a>> /\ <<a>> \o <<b>> = <<a, b>>
<1> DEFINE S == {a, b}
<1>1. <<>> \in Seq(S) /\ <<a>> \in Seq(S) /\ <<a, b>> \in Seq(S)
  OBVIOUS
<1>2. Len(<<a>>) = 1 /\ <<a>>[1] = a /\ Len(<<a, b>>) = 2 /\ <<a, b>>[1] = a /\ <<a, b>>[2] = b
  OBVIOUS
<1>3. <<>> \o <<a>> = <<a>>
  BY <1>1, ConcatEmptySeq
<1> DEFINE t == <<a>> \o <<b>>
<1>4. t \in Seq(S) /\ Len(t) = 2 /\ t[2] = b /\ t[1] = a
  BY <1>1, <1>2, AtTheEnd
<1>5. \A i \in 1..2 : t[i] = <<a, b>>[i]
  BY <1>2, <1>4
<1> HIDE DEF t
<1>6. t = <<a, b>>
  BY <1>1, <1>2, <1>4, <1>5, SeqEqual
<1> QED BY <1>3, <1>6 DEF t

\* A URI ends in the component's name, behind that of its container.
LEMMA URIEnds ==
    ASSUME NEW cont \in [Comps -> Containers \union {None}], Shallow(cont), NEW c \in Comps
    PROVE  /\ URIIn(cont, c) \in Seq(Words)
           /\ Len(URIIn(cont, c)) > 0
           /\ URIIn(cont, c)[Len(URIIn(cont, c))] = Low(c)
           /\ cont[c] # None => /\ Len(URIIn(cont, c)) > 1
                                /\ URIIn(cont, c)[Len(URIIn(cont, c)) - 1] = Low(cont[c])
           /\ cont[c] = None => URIIn(cont, c) = <<Low(c)>>
<1> DEFINE Path == CHOOSE P : P = [x \in Comps |->
                     IF cont[x] = None THEN <<>> ELSE P[cont[x]] \o <<Lower[Name[cont[x]]]>>]
           G == [x \in Comps |->
                     IF cont[x] = None THEN <<>>
                     ELSE IF cont[cont[x]] = None THEN <<Low(cont[x])>>
                     ELSE <<Low(Root), Low(cont[x])>>]
<1>1. URIIn(cont, c) = Path[c] \o <<Low(c)>>
  BY DEF URIIn, Low
<1>2. G = [x \in Comps |-> IF cont[x] = None THEN <<>> ELSE G[cont[x]] \o <<Lower[Name[cont[x]]]>>]
  <2> SUFFICES ASSUME NEW x \in Comps, cont[x] # None
               PROVE  G[x] = G[cont[x]] \o <<Low(cont[x])>>
    BY DEF Low
  <2>1. cont[x] \in Containers /\ cont[x] \in Comps /\ cont[cont[x]] \in {None, Root} /\ cont[Root] = None
    BY HttpRoutesAssumption DEF Shallow
  <2>2. CASE cont[cont[x]] = None
    <3>1. G[cont[x]] = <<>> /\ G[x] = <<Low(cont[x])>>
      BY <2>1, <2>2
    <3> QED BY <3>1, ShortPaths
  <2>3. CASE cont[cont[x]] = Root /\ Root # None
    <3>1. G[cont[x]] = <<Low(Root)>> /\ G[x] = <<Low(Root), Low(cont[x])>>
      BY <2>1, <2>3
    <3> QED BY <3>1, ShortPaths
  <2> QED BY <2>1, <2>2, <2>3, HttpRoutesAssumption
<1>3. Path = [x \in Comps |-> IF cont[x] = None THEN <<>> ELSE Path[cont[x]] \o <<Lower[Name[cont[x]]]>>]
  <2> HIDE DEF G
  <2> QED BY <1>2
<1> HIDE DEF Path, G
<1>4. ASSUME NEW x \in Comps, cont[x] # None PROVE Path[x] = Path[cont[x]] \o <<Low(cont[x])>>
  BY <1>3, <1>4 DEF Low
<1>5. ASSUME NEW x \in Comps, cont[x] = None PROVE Path[x] = <<>>
  BY <1>3, <1>5
<1>6. \A x \in Comps : Low(x) \in Words
  BY DEF Words
<1>7. <<>> \in Seq(Words)
  OBVIOUS
<1>8. ASSUME NEW k \in Containers PROVE Path[k] \in Seq(Words)
  <2>1. k \in Comps /\ Root \in Comps /\ cont[Root] = None /\ cont[k] \in {None, Root}
    BY HttpRoutesAssumption DEF Shallow
  <2>2. Path[Root] = <<>>
    BY <2>1, <1>5
  <2>3. CASE cont[k] = None
    BY <2>1, <2>3, <1>5, <1>7
  <2>4. CASE cont[k] = Root /\ Root # None
    <3>1. Path[k] = <<>> \o <<Low(Root)>>
      BY <2>1, <2>2, <2>4, <1>4
    <3> QED BY <2>1, <3>1, <1>6, <1>7, AtTheEnd
  <2> QED BY <2>1, <2>3, <2>4, HttpRoutesAssumption
<1>9. CASE cont[c] = None
  <2>1. Path[c] \in Seq(Words)
    BY <1>9, <1>5, <1>7
  <2>2. Len(Path[c]) \in Nat
    BY <2>1, LenProperties
  <2>3. URIIn(cont, c) = <<Low(c)>>
    BY <1>1, <1>5, <1>9, ShortPaths
  <2> QED BY <2>1, <2>2, <2>3, <1>1, <1>6, <1>9, AtTheEnd
<1>10. CASE cont[c] # None
  <2>1. cont[c] \in Containers /\ cont[c] \in Comps
    BY <1>10, HttpRoutesAssumption
  <2> DEFINE q == Path[cont[c]]  p == Path[c]
  <2>2. q \in Seq(Words) /\ p = q \o <<Low(cont[c])>>
    BY <2>1, <1>4, <1>8, <1>10
  <2>3. Len(q) \in Nat
    BY <2>2, LenProperties
  <2>4. p \in Seq(Words) /\ Len(p) = Len(q) + 1 /\ p[Len(q) + 1] = Low(cont[c])
    BY <2>1, <2>2, <1>6, AtTheEnd
  <2>5. URIIn(cont, c) = p \o <<Low(c)>>
    BY <1>1
  <2> HIDE DEF p, q
  <2>6. /\ p \o <<Low(c)>> \in Seq(Words) /\ Len(p \o <<Low(c)>>) = Len(p) + 1
        /\ (p \o <<Low(c)>>)[Len(p) + 1] = Low(c)
        /\ \A i \in 1..Len(p) : (p \o <<Low(c)>>)[i] = p[i]
    BY <2>4, <1>6, AtTheEnd
  <2> QED BY <2>3, <2>4, <2>5, <2>6, <1>10
<1> QED BY <1>9, <1>10

\* The handlers of the longest prefix that has one.
LongestMatch(path) ==
    {h \in cHandlers[Root] :
        \E n \in 1..Len(path) : /\ h.uri = SubSeq(path, 1, n)
                                /\ \A m \in (n + 1)..Len(path) : HandlersOf(path, m) = {}}

\* GetHttpHandler, which cuts off one name after the other, finds the handler of
\* the longest prefix of any path.
THEOREM LongestPrefixWins ==
    ASSUME NEW path, Len(path) \in Nat
    PROVE  GetHttpHandler(path) = LongestMatch(path)
<1> DEFINE N == Len(path)
           H(n) == HandlersOf(path, n)
           Find == CHOOSE F : F = [n \in 0..Len(path) |->
                     IF n = 0 THEN {}
                     ELSE IF HandlersOf(path, n) # {} THEN HandlersOf(path, n) ELSE F[n - 1]]
           Of(n) == {h \in cHandlers[Root] :
                        \E m \in 1..n : /\ h.uri = SubSeq(path, 1, m)
                                        /\ \A j \in (m + 1)..n : H(j) = {}}
           G == [n \in 0..N |-> Of(n)]
<1>1. GetHttpHandler(path) = Find[N]
  BY DEF GetHttpHandler
<1>2. Of(0) = {}
  OBVIOUS
<1>3. ASSUME NEW n \in 1..N, H(n) # {} PROVE Of(n) = H(n)
  <2>1. \A m \in 1..n : (\A j \in (m + 1)..n : H(j) = {}) <=> m = n
    BY <1>3
  <2> QED BY <2>1 DEF HandlersOf
<1>4. ASSUME NEW n \in 1..N, H(n) = {} PROVE Of(n) = Of(n - 1)
  <2> HIDE DEF H
  <2>1. ASSUME NEW m \in 1..(n - 1)
        PROVE  (\A j \in (m + 1)..n : H(j) = {}) <=> (\A j \in (m + 1)..(n - 1) : H(j) = {})
    BY <1>4
  <2>2. ~\E h \in cHandlers[Root] : h.uri = SubSeq(path, 1, n)
    BY <1>4 DEF H, HandlersOf
  <2> QED BY <2>1, <2>2
<1>5. G = [n \in 0..N |-> IF n = 0 THEN {} ELSE IF H(n) # {} THEN H(n) ELSE G[n - 1]]
  <2> SUFFICES ASSUME NEW n \in 0..N
               PROVE  Of(n) = IF n = 0 THEN {} ELSE IF H(n) # {} THEN H(n) ELSE G[n - 1]
    OBVIOUS
  <2>1. n # 0 => n \in 1..N /\ G[n - 1] = Of(n - 1)
    OBVIOUS
  <2> HIDE DEF Of, H, G
  <2> QED BY <2>1, <1>2, <1>3, <1>4
<1>6. Find = [n \in 0..N |-> IF n = 0 THEN {} ELSE IF H(n) # {} THEN H(n) ELSE Find[n - 1]]
  <2> HIDE DEF G
  <2> QED BY <1>5
<1>7. \A n \in 0..N : G[n] = Of(n)
  OBVIOUS
<1> HIDE DEF Find, G, Of, H
<1> DEFINE T == {n \in 0..N : Find[n] # G[n]}
<1>8. T = {}
  <2> SUFFICES ASSUME T # {} PROVE FALSE
    OBVIOUS
  <2>1. PICK n \in T : \A m \in T : ~(<<m, n>> \in OpToRel(<, Nat))
    <3>1. T \subseteq Nat
      OBVIOUS
    <3> HIDE DEF T
    <3> QED BY <3>1, NatLessThanWellFounded, WFMin
  <2>2. n \in 0..N /\ Find[n] # G[n]
    OBVIOUS
  <2>3. /\ Find[n] = IF n = 0 THEN {} ELSE IF H(n) # {} THEN H(n) ELSE Find[n - 1]
        /\ G[n] = IF n = 0 THEN {} ELSE IF H(n) # {} THEN H(n) ELSE G[n - 1]
    BY <2>2, <1>5, <1>6
  <2>4. n # 0 /\ n - 1 \in 0..N /\ Find[n - 1] # G[n - 1]
    BY <2>2, <2>3
  <2>5. n - 1 \in T /\ <<n - 1, n>> \in OpToRel(<, Nat)
    BY <2>2, <2>4 DEF OpToRel
  <2> QED BY <2>1, <2>5
<1>9. Find[N] = Of(N)
  BY <1>7, <1>8
<1> QED BY <1>1, <1>9 DEF LongestMatch, Of, H

----------------------------------------------------------------------------
(* Handlers *)

\* The handlers of a component: ServeHTTP at its URI, the other method behind it.
LEMMA Derived ==
    ASSUME NEW cont \in [Comps -> Containers \union {None}], Shallow(cont), NEW c \in Comps
    PROVE  LET hs == DeriveHttpHandlers(cont, c) IN
           /\ hs \subseteq Handlers
           /\ \A g, h \in hs : g.uri = h.uri => g = h
           /\ \A h \in hs : /\ h.comp = c
                            /\ \/ h.meth = "ServeHTTP" /\ h.uri = URIIn(cont, c)
                               \/ Len(h.uri) > 0 /\ h.uri[Len(h.uri)] = Method
           /\ c \notin NonRest =>
                 /\ hs # {}
                 /\ \E h \in hs : h.uri = URIIn(cont, c)
           /\ c \in NonRest => hs = {}
<1> DEFINE u == URIIn(cont, c)
           w == u \o <<Method>>
           g1 == [uri |-> u, comp |-> c, meth |-> "ServeHTTP"]
           g2 == [uri |-> w, comp |-> c, meth |-> Method]
<1>1. u \in Seq(Words)
  BY URIEnds
<1>2. Len(u) \in Nat /\ Method \in Words
  BY <1>1, LenProperties DEF Words
<1>3. w \in Seq(Words) /\ Len(w) = Len(u) + 1 /\ w[Len(w)] = Method
  BY <1>1, <1>2, AtTheEnd
<1>4. u # w /\ Len(w) > 0
  BY <1>2, <1>3
<1>5. DeriveHttpHandlers(cont, c) = IF c \in NonRest THEN {} ELSE {g1, g2}
  BY DEF DeriveHttpHandlers
<1> HIDE DEF u, w
<1>6. g1 \in Handlers /\ g2 \in Handlers
  BY <1>1, <1>3 DEF Handlers
<1> QED BY <1>3, <1>4, <1>5, <1>6 DEF u

\* PutHandlers leaves one handler per URI.
LEMMA PutOne ==
    ASSUME NEW hs \in SUBSET Handlers, NEW new \in SUBSET Handlers,
           \A g, h \in hs : g.uri = h.uri => g = h,
           \A g, h \in new : g.uri = h.uri => g = h
    PROVE  /\ PutHandlers(hs, new) \in SUBSET Handlers
           /\ \A g, h \in PutHandlers(hs, new) : g.uri = h.uri => g = h
           /\ new \subseteq PutHandlers(hs, new)
           /\ \A h \in PutHandlers(hs, new) : h \in new \/ (h \in hs /\ h.uri \notin URIs(new))
           /\ \A h \in hs : h.uri \notin URIs(new) => h \in PutHandlers(hs, new)
BY DEF PutHandlers, URIs

\* What an activation goroutine is at work on.
LEMMA AtWork ==
    ASSUME TypeInv, NEW k \in Containers, act[k].at # "wait"
    PROVE  /\ act[k].comp \in Comps /\ act[k].comp # None
           /\ <<act[k].comp, k>> \in Adds \ todo
           /\ k \in Comps
BY HttpRoutesAssumption DEF TypeInv, ActInv, PlainType

\* The containers as toCanonical leaves them.
Cont(k) == IF act[k].comp = k THEN container ELSE [container EXCEPT ![act[k].comp] = k]

LEMMA ContType ==
    ASSUME TypeInv, NEW k \in Containers, act[k].at # "wait"
    PROVE  Cont(k) \in [Comps -> Containers \union {None}] /\ Shallow(Cont(k))
<1> DEFINE c == act[k].comp
<1>1. c \in Comps /\ <<c, k>> \in Adds
  BY AtWork
<1>2. c \in Containers => k \in {c, Root}
  <2>1. <<c, k>>[1] = c /\ <<c, k>>[2] = k
    OBVIOUS
  <2> HIDE DEF c
  <2> QED BY <1>1, <2>1, HttpRoutesAssumption
<1>3. container \in [Comps -> Containers \union {None}] /\ Shallow(container)
  BY DEF TypeInv, PlainType
<1> HIDE DEF c
<1>4. Cont(k) \in [Comps -> Containers \union {None}]
  BY <1>1, <1>3 DEF Cont, c
<1>5. Shallow(Cont(k))
  <2>1. CASE c = k
    BY <1>3, <2>1 DEF Cont, c
  <2>2. CASE c # k
    <3>1. Cont(k) = [container EXCEPT ![c] = k]
      BY <2>2 DEF Cont, c
    <3>2. c # Root
      BY <1>2, <2>2, HttpRoutesAssumption
    <3>3. c \in Containers => k = Root
      BY <1>2, <2>2
    <3> QED BY <1>1, <1>3, <3>1, <3>2, <3>3, HttpRoutesAssumption DEF Shallow
  <2> QED BY <2>1, <2>2
<1> QED BY <1>4, <1>5

----------------------------------------------------------------------------
(* Types *)

LEMMA TypeInit == Init => TypeInv
<1> SUFFICES ASSUME Init PROVE TypeInv
  OBVIOUS
<1>1. Root \in Comps /\ Root # None /\ Root \in Containers
  BY HttpRoutesAssumption
<1>2. container \in [Comps -> Containers \union {None}] /\ Shallow(container)
  BY <1>1, HttpRoutesAssumption DEF Init, Shallow
<1> DEFINE hs == DeriveHttpHandlers(container, Root)
<1>3. hs \subseteq Handlers /\ \A g, h \in hs : g.uri = h.uri => g = h
  BY <1>1, <1>2, Derived
<1>4. <<>> \in Seq(Words) /\ <<Low(Root)>> \in Seq(Words)
  BY <1>1 DEF Words
<1>5. uri \in [Comps -> Seq(Words)]
  BY <1>4 DEF Init, Low
<1>6. cHandlers = [k \in Containers |-> IF k = Root THEN hs ELSE {}]
  BY DEF Init
<1> HIDE DEF hs
<1>7. cHandlers \in [Containers -> SUBSET Handlers] /\ OneInv
  BY <1>3, <1>6 DEF OneInv
<1>8. rq \in Requests
  BY <1>4 DEF Init, NoRequest, Requests
<1>9. PlainType
  BY <1>1, <1>2, <1>5, <1>7, <1>8 DEF Init, PlainType, Stages, Resting, Places
<1>10. ActInv
  BY <1>1, HttpRoutesAssumption DEF Init, ActInv, Resting
<1>11. (\A c \in Comps : kstage[c] # "new" => owner[c] # None) /\ rq.at # "serve"
  BY <1>1 DEF Init, NoRequest
<1> QED BY <1>2, <1>7, <1>9, <1>10, <1>11 DEF TypeInv

LEMMA TypeAdd ==
    ASSUME TypeInv, NEW c \in Comps, NEW k \in Containers, Add(c, k)
    PROVE  TypeInv'
<1> USE DEF TypeInv, PlainType
<1>1. PlainType'
  BY HttpRoutesAssumption DEF Add, Places
<1>2. ActInv'
  BY HttpRoutesAssumption DEF Add, ActInv, Resting
<1>3. Shallow(container)' /\ OneInv'
  BY DEF Add, Shallow, OneInv
<1> QED BY <1>1, <1>2, <1>3 DEF Add

LEMMA TypeInitialize ==
    ASSUME TypeInv, NEW k \in Containers, Initialize(k)
    PROVE  TypeInv'
<1> DEFINE c == act[k].comp
<1>0. c \in Comps /\ k \in Comps /\ k # None
  BY AtWork, HttpRoutesAssumption DEF Initialize, Goto
<1>1. PlainType'
  BY <1>0 DEF TypeInv, PlainType, Initialize, Goto, Stages, Places
<1>2. /\ act' = [act EXCEPT ![k].at = "canonical"] /\ act[k].at = "init"
      /\ kstage' = [kstage EXCEPT ![c] = IF kstage[c] = "new" THEN "initialized" ELSE kstage[c]]
      /\ owner' = [owner EXCEPT ![c] = IF owner[c] = None THEN k ELSE owner[c]]
      /\ todo' = todo
  BY DEF Initialize, Goto
<1>3. \A x \in Comps : /\ kstage[x] # "new" => kstage'[x] # "new"
                       /\ owner[x] # None => owner'[x] # None
  BY <1>0, <1>2 DEF TypeInv, PlainType
<1>4. kstage'[c] # "new" /\ owner'[c] # None
  BY <1>0, <1>2 DEF TypeInv, PlainType
<1>5. \A x \in Comps : kstage'[x] # "new" => owner'[x] # None
  BY <1>0, <1>2, <1>3, <1>4 DEF TypeInv, PlainType
<1>6. ActInv'
  <2> SUFFICES ASSUME NEW j \in Containers
               PROVE  /\ act'[j].at = "wait" <=> act'[j].comp = None
                      /\ act'[j].at # "wait" => <<act'[j].comp, j>> \in Adds \ todo
                      /\ act'[j].at \in {"canonical", "found", "start"} =>
                            kstage'[act'[j].comp] # "new" /\ owner'[act'[j].comp] # None
    BY <1>2 DEF ActInv
  <2>1. CASE j = k
    <3>1. act'[k].at = "canonical" /\ act'[k].comp = c
      BY <1>2 DEF TypeInv, PlainType
    <3> QED BY <2>1, <3>1, <1>0, <1>2, <1>4, AtWork, HttpRoutesAssumption
  <2>2. CASE j # k
    <3>1. act'[j] = act[j]
      BY <1>2, <2>2 DEF TypeInv, PlainType
    <3>2. act[j].at # "wait" => act[j].comp \in Comps
      BY AtWork
    <3> QED BY <3>1, <3>2, <1>3 DEF TypeInv, ActInv
  <2> QED BY <2>1, <2>2
<1>7. Shallow(container)' /\ OneInv'
  BY DEF Initialize, Shallow, OneInv, TypeInv
<1> QED BY <1>1, <1>5, <1>6, <1>7 DEF TypeInv, Initialize

\* What toCanonical does.
LEMMA Canonical ==
    ASSUME TypeInv, NEW k \in Containers, ToCanonical(k)
    PROVE  LET c == act[k].comp  hs == DeriveHttpHandlers(Cont(k), c) IN
           /\ c \in Comps /\ c # None
           /\ act[k].at = "canonical" /\ act' = [act EXCEPT ![k].at = "found"]
           /\ container' = Cont(k)
           /\ uri' = [uri EXCEPT ![c] = IF c \in NonRest THEN uri[c] ELSE URIIn(Cont(k), c)]
           /\ cHandlers' = [cHandlers EXCEPT ![Root] = PutHandlers(cHandlers[Root], hs)]
           /\ UNCHANGED <<kstage, owner, cComponents, todo, clash, rq, fatal>>
<1> DEFINE c == act[k].comp  hs == DeriveHttpHandlers(Cont(k), c)
<1>1. act[k].at = "canonical"
  BY DEF ToCanonical, Goto
<1>2. c \in Comps /\ c # None
  BY <1>1, AtWork
<1>3. hs = {} <=> c \in NonRest
  BY <1>1, <1>2, ContType, Derived
<1> QED BY <1>1, <1>2, <1>3 DEF ToCanonical, Goto, Cont

LEMMA TypeToCanonical ==
    ASSUME TypeInv, NEW k \in Containers, ToCanonical(k)
    PROVE  TypeInv'
<1> DEFINE c == act[k].comp  hs == DeriveHttpHandlers(Cont(k), c)
<1>1. /\ c \in Comps /\ c # None
      /\ act[k].at = "canonical" /\ act' = [act EXCEPT ![k].at = "found"]
      /\ container' = Cont(k)
      /\ uri' = [uri EXCEPT ![c] = IF c \in NonRest THEN uri[c] ELSE URIIn(Cont(k), c)]
      /\ cHandlers' = [cHandlers EXCEPT ![Root] = PutHandlers(cHandlers[Root], hs)]
      /\ UNCHANGED <<kstage, owner, cComponents, todo, clash, rq, fatal>>
  BY Canonical
<1>2. Cont(k) \in [Comps -> Containers \union {None}] /\ Shallow(Cont(k))
  BY <1>1, ContType
<1>3. URIIn(Cont(k), c) \in Seq(Words)
  BY <1>1, <1>2, URIEnds
<1>4. hs \in SUBSET Handlers /\ \A g, h \in hs : g.uri = h.uri => g = h
  BY <1>1, <1>2, Derived
<1>5. cHandlers[Root] \in SUBSET Handlers /\ Root \in Containers
  BY HttpRoutesAssumption DEF TypeInv, PlainType
<1> HIDE DEF hs
<1>6. /\ PutHandlers(cHandlers[Root], hs) \in SUBSET Handlers
      /\ \A g, h \in PutHandlers(cHandlers[Root], hs) : g.uri = h.uri => g = h
  BY <1>4, <1>5, PutOne DEF TypeInv, OneInv
<1>7. cHandlers' \in [Containers -> SUBSET Handlers] /\ OneInv'
  BY <1>1, <1>5, <1>6 DEF TypeInv, PlainType, OneInv
<1>8. uri' \in [Comps -> Seq(Words)]
  BY <1>1, <1>3 DEF TypeInv, PlainType
<1>9. PlainType'
  <2>1. act' \in [Containers -> [at : Places, comp : Comps \union {None}]]
    BY <1>1 DEF TypeInv, PlainType, Places
  <2> QED BY <2>1, <1>1, <1>2, <1>7, <1>8 DEF TypeInv, PlainType
<1>10. Shallow(container)'
  BY <1>1, <1>2 DEF Shallow
<1>11. ActInv'
  BY <1>1 DEF TypeInv, PlainType, ActInv
<1> QED BY <1>1, <1>7, <1>9, <1>10, <1>11 DEF TypeInv

LEMMA TypeRegister ==
    ASSUME TypeInv, NEW k \in Containers, Register(k)
    PROVE  TypeInv'
<1>1. act[k].comp \in Comps /\ act[k].at = "found"
  BY AtWork DEF Register
<1>2. \/ act' = [act EXCEPT ![k] = Resting]
      \/ act' = [act EXCEPT ![k].at = "start"]
  BY DEF Register
<1>3. PlainType'
  <2>1. act' \in [Containers -> [at : Places, comp : Comps \union {None}]]
    <3>1. act \in [Containers -> [at : Places, comp : Comps \union {None}]]
      BY DEF TypeInv, PlainType
    <3>2. CASE act' = [act EXCEPT ![k] = Resting]
      BY <3>1, <3>2 DEF Places, Resting
    <3>3. CASE act' = [act EXCEPT ![k].at = "start"]
      BY <3>1, <3>3 DEF Places
    <3> QED BY <1>2, <3>2, <3>3
  <2>2. cComponents' \in [Containers -> SUBSET Comps]
    <3>1. \/ cComponents' = cComponents
          \/ cComponents' = [cComponents EXCEPT ![k] = cComponents[k] \union {act[k].comp}]
      BY DEF Register
    <3>2. cComponents \in [Containers -> SUBSET Comps]
      BY DEF TypeInv, PlainType
    <3>3. cComponents[k] \union {act[k].comp} \in SUBSET Comps
      BY <1>1, <3>2
    <3> QED BY <3>1, <3>2, <3>3
  <2> QED BY <2>1, <2>2 DEF TypeInv, PlainType, Register
<1>4. ActInv'
  <2>1. UNCHANGED <<kstage, owner, todo>>
    BY DEF Register
  <2>2. CASE act' = [act EXCEPT ![k] = Resting]
    BY <1>1, <2>1, <2>2 DEF TypeInv, PlainType, ActInv, Resting
  <2>3. CASE act' = [act EXCEPT ![k].at = "start"]
    BY <1>1, <2>1, <2>3 DEF TypeInv, PlainType, ActInv
  <2> QED BY <1>2, <2>2, <2>3
<1>5. Shallow(container)' /\ OneInv'
  BY DEF Register, Shallow, OneInv, TypeInv
<1> QED BY <1>3, <1>4, <1>5 DEF TypeInv, Register

LEMMA TypeStart ==
    ASSUME TypeInv, NEW k \in Containers, Start(k)
    PROVE  TypeInv'
<1> DEFINE c == act[k].comp
<1>1. c \in Comps /\ act[k].at = "start"
  BY AtWork DEF Start
<1>2. /\ act' = [act EXCEPT ![k] = Resting]
      /\ kstage' = [kstage EXCEPT ![c] = IF kstage[c] = "initialized" THEN "started" ELSE kstage[c]]
      /\ UNCHANGED <<owner, todo>>
  BY DEF Start
<1>3. PlainType'
  BY <1>1, <1>2 DEF TypeInv, PlainType, Places, Stages, Resting, Start
<1>4. \A x \in Comps : kstage'[x] # "new" <=> kstage[x] # "new"
  BY <1>1, <1>2 DEF TypeInv, PlainType
<1>5. ActInv'
  <2>1. \A j \in Containers : act[j].at # "wait" => act[j].comp \in Comps
    BY AtWork
  <2> QED BY <1>2, <1>4, <2>1 DEF TypeInv, PlainType, ActInv, Resting
<1>6. Shallow(container)' /\ OneInv'
  BY DEF Start, Shallow, OneInv, TypeInv
<1> QED BY <1>2, <1>3, <1>4, <1>5, <1>6 DEF TypeInv, Start

\* The steps of a shutdown.
LEMMA TypeShutdown ==
    ASSUME TypeInv, NEW c \in Comps, Shutdown(c) \/ RemoveHttpHandlers(c) \/ RemoveComponent(c)
    PROVE  TypeInv'
<1>1. /\ kstage[c] # "new"
      /\ \E s \in {"stopping", "stopped", "down"} : kstage' = [kstage EXCEPT ![c] = s]
      /\ UNCHANGED <<owner, container, act, todo, rq, fatal>>
  BY DEF Shutdown, RemoveHttpHandlers, Stoppable, RemoveComponent
<1>2. owner[c] \in Containers
  BY <1>1 DEF TypeInv, PlainType
<1>3. uri' \in [Comps -> Seq(Words)]
  <2>1. URIIn(container, c) \in Seq(Words)
    BY URIEnds DEF TypeInv, PlainType
  <2> QED BY <2>1 DEF TypeInv, PlainType, Shutdown, RemoveHttpHandlers, RemoveComponent
<1>4. /\ cHandlers' \in [Containers -> SUBSET Handlers]
      /\ \A k \in Containers : cHandlers'[k] \subseteq cHandlers[k]
  <2>1. \/ cHandlers' = cHandlers
        \/ \E R : cHandlers' = [cHandlers EXCEPT ![owner[c]] = {h \in cHandlers[owner[c]] : h.uri \notin R}]
    BY DEF Shutdown, RemoveHttpHandlers, RemoveComponent
  <2> QED BY <1>2, <2>1 DEF TypeInv, PlainType
<1>5. cComponents' \in [Containers -> SUBSET Comps] /\ clash' \subseteq Comps
  BY <1>2 DEF TypeInv, PlainType, Shutdown, RemoveHttpHandlers, RemoveComponent
<1>6. PlainType'
  BY <1>1, <1>3, <1>4, <1>5 DEF TypeInv, PlainType, Stages
<1>7. OneInv'
  BY <1>4 DEF TypeInv, OneInv
<1>8. \A x \in Comps : kstage'[x] # "new" <=> kstage[x] # "new"
  BY <1>1 DEF TypeInv, PlainType
<1>9. ActInv'
  <2>1. \A j \in Containers : act[j].at # "wait" => act[j].comp \in Comps
    BY AtWork
  <2> QED BY <1>1, <1>8, <2>1 DEF TypeInv, ActInv
<1> QED BY <1>1, <1>6, <1>7, <1>8, <1>9 DEF TypeInv, Shallow

\* What is found belongs to the map.
LEMMA FoundHandlers ==
    ASSUME NEW path \in Seq(Words)
    PROVE  GetHttpHandler(path) \subseteq cHandlers[Root]
<1>1. Len(path) \in Nat
  BY LenProperties
<1> QED BY <1>1, LongestPrefixWins DEF LongestMatch

LEMMA PathType ==
    ASSUME TypeInv, NEW path \in Paths
    PROVE  path \in Seq(Words)
<1>1. PICK c \in Comps : \E h \in DeriveHttpHandlers(container, c) : path = h.uri
  BY DEF Paths, URIs
<1>2. DeriveHttpHandlers(container, c) \subseteq Handlers
  BY Derived DEF TypeInv, PlainType
<1> QED BY <1>1, <1>2 DEF Handlers

\* The answer of a component is a component, or 404.
LEMMA ServedIs ==
    ASSUME TypeInv, NEW c \in Comps, NEW path
    PROVE  \/ ServeHTTP(c, path) = None
           \/ ServeHTTP(c, path) = c /\ container[c] = None
           \/ /\ container[c] \in Containers
              /\ ServeHTTP(c, path) \in cComponents[container[c]]
              /\ Name[ServeHTTP(c, path)] = Name[c]
BY DEF ServeHTTP, Named, TypeInv, PlainType

LEMMA TypeRequest ==
    ASSUME TypeInv, (\E p \in Paths : Lookup(p)) \/ Serve \/ Respond \/ MapFatal
    PROVE  TypeInv'
<1>1. UNCHANGED <<kstage, owner, container, uri, cComponents, cHandlers, act, todo, clash>>
  BY DEF Lookup, Serve, Respond, MapFatal
<1>2. fatal' \in BOOLEAN
  BY DEF Lookup, Serve, Respond, MapFatal, TypeInv, PlainType
<1>3. rq' \in Requests /\ (rq'.at = "serve" => rq'.comp # None)
  <2>1. ASSUME NEW p \in Paths, Lookup(p) PROVE rq' \in Requests /\ rq'.comp # None
    <3>1. PICK h \in GetHttpHandler(p) :
              rq' = [at |-> "serve", path |-> p, comp |-> h.comp, meth |-> h.meth]
      BY <2>1 DEF Lookup
    <3>2. p \in Seq(Words)
      BY PathType
    <3>3. h \in Handlers
      BY <3>2, FoundHandlers, HttpRoutesAssumption DEF TypeInv, PlainType
    <3> QED BY <3>1, <3>2, <3>3, HttpRoutesAssumption DEF Handlers, Requests
  <2>2. NoRequest \in Requests /\ NoRequest.at = "idle"
    <3>1. <<>> \in Seq(Words)
      OBVIOUS
    <3> QED BY <3>1 DEF NoRequest, Requests
  <2>3. CASE Serve
    <3>1. rq \in Requests
      BY DEF TypeInv, PlainType
    <3>2. rq.meth # "ServeHTTP" => rq' = NoRequest
      BY <2>3 DEF Serve
    <3>3. ASSUME rq.meth = "ServeHTTP", NEW v, v \in Comps \union {None},
                 rq' = [rq EXCEPT !.at = "answered", !.comp = v]
          PROVE  rq' \in Requests /\ rq'.at = "answered"
      BY <3>1, <3>3 DEF Requests
    <3>4. rq.comp \in Comps /\ ServeHTTP(rq.comp, rq.path) \in Comps \union {None}
      <4>1. rq.comp \in Comps
        BY <2>3, <3>1 DEF Serve, TypeInv, Requests
      <4> QED BY <4>1, ServedIs DEF TypeInv, PlainType
    <3>5. rq.meth = "ServeHTTP" =>
              rq' = [rq EXCEPT !.at = "answered", !.comp = ServeHTTP(rq.comp, rq.path)]
      BY <2>3 DEF Serve
    <3> QED BY <2>2, <3>2, <3>3, <3>4, <3>5
  <2>4. CASE Respond \/ MapFatal
    BY <2>2, <2>4 DEF Respond, MapFatal, TypeInv, PlainType
  <2> QED BY <2>1, <2>3, <2>4
<1>4. PlainType'
  BY <1>1, <1>2, <1>3 DEF TypeInv, PlainType
<1> QED BY <1>1, <1>3, <1>4 DEF TypeInv, Shallow, ActInv, OneInv

LEMMA TypeStep == TypeInv /\ [Next]_vars => TypeInv'
<1>1. TypeInv /\ UNCHANGED vars => TypeInv'
  BY DEF vars, TypeInv, PlainType, Shallow, ActInv, OneInv
<1> QED BY <1>1, TypeAdd, TypeInitialize, TypeToCanonical, TypeRegister, TypeStart, TypeShutdown,
           TypeRequest DEF Next

\* The variables keep their types and a URI has one handler, for any containers,
\* components, names and calls of Add.
THEOREM TypeCorrect == Spec => []TypeOK
<1>1. TypeInv => TypeOK
  BY DEF TypeInv, PlainType, OneInv, TypeOK, Places, Requests
<1> QED BY <1>1, TypeInit, TypeStep, PTL DEF Spec

----------------------------------------------------------------------------
(* A component and its only container *)

LEMMA OneOf ==
    ASSUME OneParent, NEW c \in Leaves, NEW j \in Containers, NEW k \in Containers,
           <<c, j>> \in Adds, <<c, k>> \in Adds
    PROVE  j = k
<1> DEFINE a == <<c, j>>  b == <<c, k>>
<1>1. a[1] = c /\ a[2] = j /\ b[1] = c /\ b[2] = k /\ c \notin Containers
  BY DEF Leaves
<1>2. a = b
  BY <1>1 DEF OneParent
<1> QED BY <1>1, <1>2

\* A goroutine at work on a component that has an owner is that of the owner.
LEMMA OwnersWork ==
    ASSUME OneParent, TypeInv, NEW c \in Leaves, OwnerOf(c),
           NEW k \in Containers, act[k].comp = c
    PROVE  /\ act[k].at # "wait"
           /\ owner[c] # None => owner[c] = k
           /\ \A j \in Containers : act[j].comp = c => j = k
<1>1. c \in Comps /\ c # None
  BY HttpRoutesAssumption DEF Leaves
<1>2. \A j \in Containers : act[j].comp = c => act[j].at # "wait" /\ <<c, j>> \in Adds
  BY <1>1 DEF TypeInv, ActInv
<1>3. owner[c] # None => owner[c] \in Containers /\ <<c, owner[c]>> \in Adds
  BY <1>1 DEF OwnerOf, TypeInv, PlainType
<1> QED BY <1>2, <1>3, OneOf

\* Before the call of Add nothing has happened to the component.
LEMMA StillNew ==
    ASSUME OneParent, TypeInv, NEW c \in Leaves, OwnerOf(c), NEW k \in Containers, <<c, k>> \in todo
    PROVE  owner[c] = None /\ kstage[c] = "new" /\ container[c] = None
<1>1. c \in Comps /\ <<c, k>> \in Adds
  BY DEF Leaves, TypeInv, PlainType
<1>2. owner[c] = None
  <2> SUFFICES ASSUME owner[c] # None PROVE FALSE
    OBVIOUS
  <2>1. owner[c] \in Containers /\ <<c, owner[c]>> \in Adds \ todo
    BY <1>1 DEF OwnerOf, TypeInv, PlainType
  <2> QED BY <1>1, <2>1, OneOf
<1> QED BY <1>1, <1>2 DEF OwnerOf, TypeInv

LEMMA DeadInit == Init => DeadInv
<1> SUFFICES ASSUME Init PROVE DeadInv
  OBVIOUS
<1>1. Root \in Containers /\ Root \in Comps /\ None \notin Comps /\ Containers \subseteq Comps
  BY HttpRoutesAssumption
<1>2. SelfInv
  BY <1>1 DEF Init, SelfInv, Resting
<1>3. \A c \in Leaves : OwnerOf(c) /\ GoneOf(c)
  BY <1>1 DEF Init, OwnerOf, GoneOf, Leaves, Resting
<1> QED BY <1>2, <1>3 DEF DeadInv

LEMMA DeadAdd ==
    ASSUME OneParent, TypeInv, DeadInv, NEW d \in Comps, NEW k \in Containers, Add(d, k)
    PROVE  DeadInv'
<1>1. /\ act' = [act EXCEPT ![k] = [at |-> "init", comp |-> d]] /\ <<d, k>> \in todo
      /\ todo' \subseteq todo /\ todo' = todo \ {<<d, k>>}
      /\ d \in Containers /\ k # d => kstage[d] = "started"
      /\ UNCHANGED <<kstage, owner, container, cComponents>>
  BY DEF Add
<1>2. /\ act'[k].at = "init" /\ act'[k].comp = d
      /\ \A j \in Containers : j # k => act'[j] = act[j]
  BY <1>1 DEF TypeInv, PlainType
<1>3. SelfInv'
  BY <1>1, <1>2, HttpRoutesAssumption DEF DeadInv, SelfInv, TypeInv
<1>4. ASSUME NEW c \in Leaves PROVE OwnerOf(c)' /\ GoneOf(c)'
  <2>1. OwnerOf(c) /\ GoneOf(c)
    BY DEF DeadInv
  <2>2. c = d => owner[c] = None /\ kstage[c] = "new" /\ container[c] = None
    BY <1>1, <2>1, StillNew
  <2>3. OwnerOf(c)'
    BY <1>1, <1>2, <2>1, <2>2 DEF OwnerOf
  <2>4. GoneOf(c)'
    BY <1>1, <1>2, <2>1, <2>2 DEF GoneOf
  <2> QED BY <2>3, <2>4
<1> QED BY <1>3, <1>4 DEF DeadInv

LEMMA DeadInitialize ==
    ASSUME OneParent, TypeInv, DeadInv, NEW k \in Containers, Initialize(k)
    PROVE  DeadInv'
<1> DEFINE d == act[k].comp
<1>1. /\ act[k].at = "init" /\ act' = [act EXCEPT ![k].at = "canonical"]
      /\ kstage' = [kstage EXCEPT ![d] = IF kstage[d] = "new" THEN "initialized" ELSE kstage[d]]
      /\ owner' = [owner EXCEPT ![d] = IF owner[d] = None THEN k ELSE owner[d]]
      /\ UNCHANGED <<container, cComponents, todo>>
  BY DEF Initialize, Goto
<1>2. d \in Comps /\ d # None /\ <<d, k>> \in Adds \ todo /\ k \in Comps /\ k # None
  BY <1>1, AtWork, HttpRoutesAssumption
<1>3. /\ act'[k].at = "canonical" /\ act'[k].comp = d
      /\ \A j \in Containers : j # k => act'[j] = act[j]
  BY <1>1 DEF TypeInv, PlainType
<1>4. /\ \A c \in Comps : c # d => kstage'[c] = kstage[c] /\ owner'[c] = owner[c]
      /\ kstage'[d] = IF kstage[d] = "new" THEN "initialized" ELSE kstage[d]
      /\ owner'[d] = IF owner[d] = None THEN k ELSE owner[d]
  BY <1>1, <1>2 DEF TypeInv, PlainType
<1> HIDE DEF d
<1>5. SelfInv'
  <2>1. kstage'[Root] = "started" /\ owner'[Root] = Root
    BY <1>2, <1>4, HttpRoutesAssumption DEF DeadInv, SelfInv
  <2>2. d \in Containers /\ owner[d] = None => k = d
    BY DEF DeadInv, SelfInv, d
  <2>3. \A c \in Containers : owner'[c] \in {None, c}
    BY <1>4, <2>2, HttpRoutesAssumption DEF DeadInv, SelfInv
  <2>4. \A c \in Containers : \A j \in Containers : act'[j].comp = c /\ j # c => owner'[c] # None
    BY <1>2, <1>3, <1>4, HttpRoutesAssumption DEF DeadInv, SelfInv, d
  <2> QED BY <2>1, <2>3, <2>4 DEF SelfInv
<1>6. ASSUME NEW c \in Leaves PROVE OwnerOf(c)' /\ GoneOf(c)'
  <2>1. OwnerOf(c) /\ GoneOf(c) /\ c \in Comps
    BY DEF DeadInv, Leaves
  <2>2. CASE c # d
    <3>1. kstage'[c] = kstage[c] /\ owner'[c] = owner[c] /\ container'[c] = container[c] /\ todo' = todo
      BY <1>1, <1>4, <2>1, <2>2
    <3>2. \A j \in Containers : /\ act'[j].comp = c <=> act[j].comp = c
                                /\ act'[j].comp = c => act'[j].at = act[j].at
      BY <1>3, <2>2 DEF d
    <3> QED BY <1>1, <2>1, <3>1, <3>2 DEF OwnerOf, GoneOf
  <2>3. CASE c = d
    <3>1. /\ \A j \in Containers : act[j].comp = c => j = k
          /\ owner[c] # None => owner[c] = k
      BY <2>1, <2>3, OwnersWork DEF d
    <3>2. container[c] = None /\ kstage[c] = "new"
      BY <1>1, <2>1, <2>3 DEF OwnerOf, GoneOf, d
    <3>3. owner'[c] = k /\ kstage'[c] = "initialized" /\ container'[c] = None
      BY <1>1, <1>4, <2>3, <3>1, <3>2
    <3>4. \A j \in Containers : c \in cComponents[j] => j = k
      BY <1>2, <2>1, <3>1, HttpRoutesAssumption DEF OwnerOf
    <3>5. \A j \in Containers : act'[j].comp = c => j = k
      BY <1>3, <3>1
    <3>6. OwnerOf(c)'
      BY <1>1, <1>2, <1>3, <2>3, <3>3, <3>4, <3>5 DEF OwnerOf
    <3>7. GoneOf(c)'
      BY <1>3, <3>3, <3>5 DEF GoneOf
    <3> QED BY <3>6, <3>7
  <2> QED BY <2>2, <2>3
<1> QED BY <1>5, <1>6 DEF DeadInv

LEMMA DeadToCanonical ==
    ASSUME OneParent, TypeInv, DeadInv, NEW k \in Containers, ToCanonical(k)
    PROVE  DeadInv'
<1> DEFINE d == act[k].comp
<1>1. /\ act[k].at = "canonical" /\ act' = [act EXCEPT ![k].at = "found"]
      /\ d \in Comps /\ d # None /\ container' = Cont(k)
      /\ UNCHANGED <<kstage, owner, cComponents, todo>>
  BY Canonical
<1>2. /\ act'[k].at = "found" /\ act'[k].comp = d
      /\ \A j \in Containers : j # k => act'[j] = act[j]
  BY <1>1 DEF TypeInv, PlainType
<1>3. /\ \A c \in Comps : c # d => container'[c] = container[c]
      /\ d \in Leaves => container'[d] = k
  BY <1>1 DEF Cont, TypeInv, PlainType, Leaves
<1>4. owner[d] # None
  BY <1>1 DEF TypeInv, ActInv
<1> HIDE DEF d
<1>5. SelfInv'
  BY <1>1, <1>2 DEF DeadInv, SelfInv, d
<1>6. ASSUME NEW c \in Leaves PROVE OwnerOf(c)' /\ GoneOf(c)'
  <2>1. OwnerOf(c) /\ GoneOf(c) /\ c \in Comps
    BY DEF DeadInv, Leaves
  <2>2. GoneOf(c)'
    BY <1>1, <1>2, <2>1 DEF GoneOf, d
  <2>3. CASE c # d
    <3>1. container'[c] = container[c]
      BY <1>3, <2>1, <2>3
    <3>2. \A j \in Containers : /\ act'[j].comp = c <=> act[j].comp = c
                                /\ act'[j].comp = c => act'[j].at = act[j].at
      BY <1>2, <2>3 DEF d
    <3> QED BY <1>1, <2>1, <2>2, <3>1, <3>2 DEF OwnerOf
  <2>4. CASE c = d
    <3>1. owner[c] = k /\ \A j \in Containers : act[j].comp = c => j = k
      BY <1>4, <2>1, <2>4, OwnersWork DEF d
    <3>2. container'[c] = k
      BY <1>3, <2>4
    <3>3. \A j \in Containers : act'[j].comp = c => j = k
      BY <1>2, <3>1
    <3>4. OwnerOf(c)'
      BY <1>1, <1>2, <2>1, <3>1, <3>2, <3>3 DEF OwnerOf
    <3> QED BY <2>2, <3>4
  <2> QED BY <2>3, <2>4
<1> QED BY <1>5, <1>6 DEF DeadInv

LEMMA DeadRegister ==
    ASSUME OneParent, TypeInv, DeadInv, NEW k \in Containers, Register(k)
    PROVE  DeadInv'
<1> DEFINE d == act[k].comp
<1>1. /\ act[k].at = "found"
      /\ \/ act' = [act EXCEPT ![k] = Resting] /\ cComponents' = cComponents
         \/ /\ act' = [act EXCEPT ![k].at = "start"]
            /\ cComponents' = [cComponents EXCEPT ![k] = cComponents[k] \union {d}]
      /\ UNCHANGED <<kstage, owner, container, todo>>
  BY DEF Register
<1>2. d \in Comps /\ d # None /\ owner[d] # None
  BY <1>1, AtWork DEF TypeInv, ActInv
<1>3. /\ \A j \in Containers : j # k => act'[j] = act[j] /\ cComponents'[j] = cComponents[j]
      /\ \A c \in cComponents'[k] : c \in cComponents[k] \/ c = d
      /\ (act'[k].at = "wait" /\ act'[k].comp = None) \/ (act'[k].at = "start" /\ act'[k].comp = d)
  <2>1. act \in [Containers -> [at : Places, comp : Comps \union {None}]]
    BY DEF TypeInv, PlainType
  <2>2. cComponents \in [Containers -> SUBSET Comps]
    BY DEF TypeInv, PlainType
  <2>3. CASE act' = [act EXCEPT ![k] = Resting] /\ cComponents' = cComponents
    BY <2>1, <2>2, <2>3 DEF Resting
  <2>4. CASE /\ act' = [act EXCEPT ![k].at = "start"]
             /\ cComponents' = [cComponents EXCEPT ![k] = cComponents[k] \union {d}]
    BY <2>1, <2>2, <2>4
  <2> QED BY <1>1, <2>3, <2>4
<1> HIDE DEF d
<1>4. SelfInv'
  BY <1>1, <1>2, <1>3, HttpRoutesAssumption DEF DeadInv, SelfInv, d
<1>5. ASSUME NEW c \in Leaves PROVE OwnerOf(c)' /\ GoneOf(c)'
  <2>1. OwnerOf(c) /\ GoneOf(c) /\ c \in Comps /\ c # None
    BY HttpRoutesAssumption DEF DeadInv, Leaves
  <2>2. c = d => owner[c] = k /\ kstage[c] \in {"new", "initialized"} /\ container[c] = k
    BY <1>1, <1>2, <2>1, OwnersWork DEF d, GoneOf, OwnerOf
  <2>3. \A j \in Containers : act'[j].comp = c =>
            act[j].comp = c /\ (act'[j].at = act[j].at \/ (j = k /\ act'[j].at = "start"))
    BY <1>3, <2>1 DEF d
  <2>4. \A j \in Containers : c \in cComponents'[j] => c \in cComponents[j] \/ (c = d /\ j = k)
    BY <1>3
  <2>5. OwnerOf(c)'
    BY <1>1, <2>1, <2>2, <2>3, <2>4 DEF OwnerOf, d
  <2>6. GoneOf(c)'
    BY <1>1, <2>1, <2>2, <2>3, <2>4 DEF GoneOf, d
  <2> QED BY <2>5, <2>6
<1> QED BY <1>4, <1>5 DEF DeadInv

LEMMA DeadStart ==
    ASSUME OneParent, TypeInv, DeadInv, NEW k \in Containers, Start(k)
    PROVE  DeadInv'
<1> DEFINE d == act[k].comp
<1>1. /\ act[k].at = "start" /\ act' = [act EXCEPT ![k] = Resting]
      /\ kstage' = [kstage EXCEPT ![d] = IF kstage[d] = "initialized" THEN "started" ELSE kstage[d]]
      /\ UNCHANGED <<owner, container, cComponents, todo>>
  BY DEF Start
<1>2. d \in Comps /\ d # None
  BY <1>1, AtWork
<1>3. /\ act'[k].at = "wait" /\ act'[k].comp = None
      /\ \A j \in Containers : j # k => act'[j] = act[j]
  BY <1>1 DEF TypeInv, PlainType, Resting
<1>4. /\ \A c \in Comps : c # d => kstage'[c] = kstage[c]
      /\ kstage'[d] = IF kstage[d] = "initialized" THEN "started" ELSE kstage[d]
  BY <1>1, <1>2 DEF TypeInv, PlainType
<1> HIDE DEF d
<1>5. SelfInv'
  BY <1>1, <1>2, <1>3, <1>4, HttpRoutesAssumption DEF DeadInv, SelfInv
<1>6. ASSUME NEW c \in Leaves PROVE OwnerOf(c)' /\ GoneOf(c)'
  <2>1. OwnerOf(c) /\ GoneOf(c) /\ c \in Comps /\ c # None
    BY HttpRoutesAssumption DEF DeadInv, Leaves
  <2>2. \A j \in Containers : act'[j].comp = c => act[j].comp = c /\ j # k /\ act'[j].at = act[j].at
    BY <1>3, <2>1
  <2>3. OwnerOf(c)'
    BY <1>1, <2>1, <2>2 DEF OwnerOf
  <2>4. c = d => ~\E j \in Containers : act'[j].comp = c
    BY <2>1, <2>2, OwnersWork DEF d
  <2>5. GoneOf(c)'
    BY <1>1, <1>4, <2>1, <2>2, <2>4 DEF GoneOf
  <2> QED BY <2>3, <2>5
<1> QED BY <1>5, <1>6 DEF DeadInv

LEMMA DeadShutdown ==
    ASSUME OneParent, TypeInv, DeadInv, NEW d \in Comps,
           Shutdown(d) \/ RemoveHttpHandlers(d) \/ RemoveComponent(d)
    PROVE  DeadInv'
<1>1. /\ UNCHANGED <<owner, container, act, todo>>
      /\ \E s \in {"stopping", "stopped", "down"} : kstage' = [kstage EXCEPT ![d] = s]
      /\ kstage[d] # "new"
      /\ cComponents' = cComponents
            \/ (RemoveComponent(d) /\ cComponents' = [cComponents EXCEPT ![owner[d]] = @ \ Named(owner[d], d)])
      /\ kstage'[d] = "down" => RemoveComponent(d)
  BY DEF Shutdown, RemoveHttpHandlers, Stoppable, RemoveComponent, TypeInv, PlainType
<1>2. \A c \in Comps : c # d => kstage'[c] = kstage[c]
  BY <1>1 DEF TypeInv, PlainType
<1>3. owner[d] \in Containers
  BY <1>1 DEF TypeInv, PlainType
<1>4. \A k \in Containers : cComponents'[k] \subseteq cComponents[k]
  <2>1. cComponents \in [Containers -> SUBSET Comps]
    BY DEF TypeInv, PlainType
  <2>2. ASSUME NEW S, cComponents' = [cComponents EXCEPT ![owner[d]] = @ \ S]
        PROVE  \A k \in Containers : cComponents'[k] \subseteq cComponents[k]
    BY <1>3, <2>1, <2>2
  <2> QED BY <1>1, <2>2
<1>5. kstage'[d] = "down" => d \notin cComponents'[owner[d]]
  BY <1>1, <1>3 DEF RemoveComponent, Named, TypeInv, PlainType
<1>6. SelfInv'
  <2>1. d # Root
    BY DEF DeadInv, SelfInv, Shutdown, RemoveHttpHandlers, Stoppable, RemoveComponent
  <2> QED BY <1>1, <1>2, <2>1, HttpRoutesAssumption DEF DeadInv, SelfInv
<1>7. ASSUME NEW c \in Leaves PROVE OwnerOf(c)' /\ GoneOf(c)'
  <2>1. OwnerOf(c) /\ GoneOf(c) /\ c \in Comps
    BY DEF DeadInv, Leaves
  <2>2. OwnerOf(c)'
    BY <1>1, <1>4, <2>1 DEF OwnerOf
  <2>3. c = d => ~\E k \in Containers : act[k].comp = c
    <3>1. (\E k \in Containers : act[k].comp = c) => kstage[c] \in {"new", "initialized"}
      BY <2>1 DEF GoneOf
    <3> QED BY <3>1 DEF Shutdown, RemoveHttpHandlers, Stoppable, RemoveComponent, Activating
  <2>4. c = d /\ kstage'[c] = "down" => \A k \in Containers : c \notin cComponents'[k]
    BY <1>4, <1>5, <2>1 DEF OwnerOf
  <2>5. GoneOf(c)'
    BY <1>1, <1>2, <1>4, <2>1, <2>3, <2>4 DEF GoneOf
  <2> QED BY <2>2, <2>5
<1> QED BY <1>6, <1>7 DEF DeadInv

\* A request changes nothing but itself.
LEMMA Requested ==
    ASSUME (\E p \in Paths : Lookup(p)) \/ Serve \/ Respond \/ MapFatal \/ UNCHANGED vars
    PROVE  UNCHANGED <<kstage, owner, container, uri, cComponents, cHandlers, act, todo, clash>>
BY DEF Lookup, Serve, Respond, MapFatal, vars

LEMMA DeadStep == OneParent /\ TypeInv /\ DeadInv /\ [Next]_vars => DeadInv'
<1>1. OneParent /\ TypeInv /\ DeadInv
      /\ ((\E p \in Paths : Lookup(p)) \/ Serve \/ Respond \/ MapFatal \/ UNCHANGED vars) => DeadInv'
  BY Requested DEF DeadInv, SelfInv, OwnerOf, GoneOf
<1> QED BY <1>1, DeadAdd, DeadInitialize, DeadToCanonical, DeadRegister, DeadStart, DeadShutdown DEF Next

\* Nobody is shown a component that its container has torn down, though a request
\* may hold its handler and the route may still be there, if every component (but
\* containers) is added to one container.
THEOREM DeadAreNotShown == OneParent => (Spec => NoDeadAnswer)
<1> SUFFICES ASSUME OneParent PROVE Spec => NoDeadAnswer
  OBVIOUS
<1> DEFINE A == /\ rq.at = "serve" /\ rq'.at = "answered" /\ rq'.comp # None
                /\ container[rq'.comp] = owner[rq'.comp]
                => kstage[rq'.comp] # "down"
<1>1. TypeInv /\ DeadInv /\ [Next]_vars => [A]_vars
  <2> SUFFICES ASSUME TypeInv, DeadInv, [Next]_vars, rq.at = "serve", rq'.at = "answered",
                      rq'.comp # None, container[rq'.comp] = owner[rq'.comp],
                      kstage[rq'.comp] = "down"
               PROVE  FALSE
    OBVIOUS
  <2> DEFINE x == rq'.comp  c == rq.comp
  <2>1. c \in Comps
    BY DEF TypeInv, PlainType, Requests
  <2>2. Serve
    <3>1. rq' # rq
      OBVIOUS
    <3>2. \A p \in Paths : ~Lookup(p)
      BY DEF Lookup
    <3>3. ~Respond
      BY DEF Respond
    <3>4. Serve \/ rq' = rq
      BY <3>2, <3>3 DEF Next, vars, Add, Initialize, ToCanonical, Register, Start, Shutdown,
                        RemoveHttpHandlers, RemoveComponent, MapFatal
    <3> QED BY <3>1, <3>4
  <2>3. x = ServeHTTP(c, rq.path)
    BY <2>2 DEF Serve, NoRequest, TypeInv, PlainType, Requests
  <2>4. x = c \/ (container[c] \in Containers /\ x \in cComponents[container[c]])
    BY <2>1, <2>3, ServedIs
  <2>5. x \in Comps
    BY <2>1, <2>4 DEF TypeInv, PlainType
  <2>6. owner[x] # None
    BY <2>5 DEF TypeInv
  <2>7. x \in Leaves
    <3>1. x \in Containers => owner[x] = x /\ container[x] \in {None, Root} /\ (x = Root => container[x] = None)
      BY <2>6 DEF DeadInv, SelfInv, TypeInv, Shallow
    <3>2. x \in Containers => x = Root
      BY <2>5, <2>6, <3>1
    <3> QED BY <2>5, <2>6, <3>1, <3>2 DEF Leaves
  <2>8. x # c
    <3>1. container[x] # None
      BY <2>6
    <3> QED BY <2>1, <2>3, <2>7, <3>1 DEF DeadInv, GoneOf, ServeHTTP, Named, TypeInv, PlainType
  <2>9. \A k \in Containers : x \notin cComponents[k]
    BY <2>7 DEF DeadInv, GoneOf
  <2> QED BY <2>4, <2>8, <2>9
<1>2. Init => TypeInv /\ DeadInv
  BY TypeInit, DeadInit
<1>3. TypeInv /\ DeadInv /\ [Next]_vars => (TypeInv /\ DeadInv)'
  BY TypeStep, DeadStep
<1>4. Spec => [][A]_vars
  BY <1>1, <1>2, <1>3, PTL DEF Spec
<1> QED BY <1>4 DEF NoDeadAnswer

----------------------------------------------------------------------------
(* The maps of the containers *)

LEMMA MapInit == Init => MapInv
<1> SUFFICES ASSUME Init PROVE MapInv
  OBVIOUS
<1>1. Root \in Containers /\ Root \in Comps /\ None \notin Comps /\ Containers \subseteq Comps
  BY HttpRoutesAssumption
<1>2. OneName
  BY <1>1 DEF Init, OneName
<1>3. \A c \in Leaves : LeafIn(c)
  BY <1>1 DEF Init, LeafIn, Leaves, Resting
<1>4. \A c \in Containers : ContainerIn(c)
  BY <1>1 DEF Init, ContainerIn
<1> QED BY <1>2, <1>3, <1>4 DEF MapInv

\* Add and the first FSM call leave the maps alone.
LEMMA MapAdd ==
    ASSUME TypeInv, MapInv, NEW d \in Comps, NEW k \in Containers, Add(d, k)
    PROVE  MapInv'
<1>1. /\ act' = [act EXCEPT ![k] = [at |-> "init", comp |-> d]]
      /\ act[k].at = "wait"
      /\ UNCHANGED <<kstage, container, cComponents>>
  BY DEF Add, Resting
<1>2. /\ act'[k].at = "init"
      /\ \A j \in Containers : j # k => act'[j] = act[j]
  BY <1>1 DEF TypeInv, PlainType
<1>3. Root \in Containers
  BY HttpRoutesAssumption
<1> QED BY <1>1, <1>2, <1>3 DEF MapInv, OneName, LeafIn, ContainerIn

LEMMA MapInitialize ==
    ASSUME TypeInv, DeadInv, MapInv, NEW k \in Containers, Initialize(k)
    PROVE  MapInv'
<1> DEFINE d == act[k].comp
<1>1. /\ act[k].at = "init" /\ act' = [act EXCEPT ![k].at = "canonical"]
      /\ kstage' = [kstage EXCEPT ![d] = IF kstage[d] = "new" THEN "initialized" ELSE kstage[d]]
      /\ UNCHANGED <<container, cComponents>>
  BY DEF Initialize, Goto
<1>2. d \in Comps /\ Root \in Containers
  BY <1>1, AtWork, HttpRoutesAssumption
<1>3. /\ act'[k].at = "canonical"
      /\ \A j \in Containers : j # k => act'[j] = act[j]
  BY <1>1 DEF TypeInv, PlainType
<1>4. \A c \in Comps : kstage'[c] # kstage[c] => kstage'[c] = "initialized"
  BY <1>1, <1>2 DEF TypeInv, PlainType
<1>5. ASSUME NEW c \in Leaves PROVE LeafIn(c)'
  BY <1>1, <1>3, <1>4 DEF MapInv, LeafIn, Leaves
<1>6. ASSUME NEW c \in Containers PROVE ContainerIn(c)'
  BY <1>1, <1>2, <1>3 DEF MapInv, ContainerIn
<1> QED BY <1>1, <1>5, <1>6 DEF MapInv, OneName

LEMMA MapToCanonical ==
    ASSUME TypeInv, DeadInv, MapInv, NEW k \in Containers, ToCanonical(k)
    PROVE  MapInv'
<1> DEFINE d == act[k].comp
<1>1. /\ act[k].at = "canonical" /\ act' = [act EXCEPT ![k].at = "found"]
      /\ d \in Comps /\ d # None /\ container' = Cont(k)
      /\ UNCHANGED <<kstage, cComponents>>
  BY Canonical
<1>2. /\ act'[k].at = "found" /\ act'[k].comp = d
      /\ \A j \in Containers : j # k => act'[j] = act[j]
  BY <1>1 DEF TypeInv, PlainType
<1>3. /\ \A c \in Comps : c # d => container'[c] = container[c]
      /\ d = k => container'[d] = container[d]
  BY <1>1 DEF Cont, TypeInv, PlainType
<1>4. d \in Containers => k \in {d, Root}
  <2>1. <<d, k>> \in Adds /\ <<d, k>>[1] = d /\ <<d, k>>[2] = k
    BY <1>1, AtWork
  <2> HIDE DEF d
  <2> QED BY <2>1, HttpRoutesAssumption
<1> HIDE DEF d
<1>5. ASSUME NEW c \in Leaves PROVE LeafIn(c)'
  <2>1. LeafIn(c) /\ GoneOf(c) /\ c \in Comps
    BY DEF MapInv, DeadInv, Leaves
  <2>2. c = d => kstage[c] \in {"new", "initialized"}
    BY <2>1 DEF GoneOf, d
  <2> QED BY <1>1, <1>2, <1>3, <2>1, <2>2 DEF LeafIn
<1>6. ASSUME NEW c \in Containers PROVE ContainerIn(c)'
  <2>1. ContainerIn(c) /\ c \in Comps /\ Root \in Containers
    BY HttpRoutesAssumption DEF MapInv
  <2>2. k = Root => act[Root].at # "found"
    BY <1>1
  <2> QED BY <1>1, <1>2, <1>3, <1>4, <2>1, <2>2 DEF ContainerIn
<1>7. OneName'
  BY <1>1 DEF MapInv, OneName
<1> QED BY <1>5, <1>6, <1>7 DEF MapInv

\* What registration does.
LEMMA Registered ==
    ASSUME TypeInv, NEW k \in Containers, Register(k)
    PROVE  LET d == act[k].comp IN
           /\ act[k].at = "found" /\ d \in Comps /\ d # None
           /\ \A j \in Containers : j # k => act'[j] = act[j] /\ cComponents'[j] = cComponents[j]
           /\ \/ /\ act'[k].at = "wait" /\ act'[k].comp = None
                 /\ cComponents'[k] = cComponents[k]
                 /\ \E c \in cComponents[k] : Name[c] = Name[d]
              \/ /\ act'[k].at = "start" /\ act'[k].comp = d
                 /\ cComponents'[k] = cComponents[k] \union {d}
                 /\ \A c \in cComponents[k] : Name[c] # Name[d]
           /\ UNCHANGED <<kstage, owner, container, uri, cHandlers, todo, clash>>
<1> DEFINE d == act[k].comp
<1>1. act[k].at = "found" /\ UNCHANGED <<kstage, owner, container, uri, cHandlers, todo, clash>>
  BY DEF Register
<1>2. d \in Comps /\ d # None
  BY <1>1, AtWork
<1>3. act \in [Containers -> [at : Places, comp : Comps \union {None}]]
      /\ cComponents \in [Containers -> SUBSET Comps]
  BY DEF TypeInv, PlainType
<1>4. \/ /\ act' = [act EXCEPT ![k] = Resting] /\ cComponents' = cComponents
         /\ \E c \in cComponents[k] : Name[c] = Name[d]
      \/ /\ act' = [act EXCEPT ![k].at = "start"]
         /\ cComponents' = [cComponents EXCEPT ![k] = cComponents[k] \union {d}]
         /\ \A c \in cComponents[k] : Name[c] # Name[d]
  BY DEF Register, Named
<1>5. CASE act' = [act EXCEPT ![k] = Resting] /\ cComponents' = cComponents
           /\ \E c \in cComponents[k] : Name[c] = Name[d]
  BY <1>1, <1>2, <1>3, <1>5 DEF Resting
<1>6. CASE /\ act' = [act EXCEPT ![k].at = "start"]
           /\ cComponents' = [cComponents EXCEPT ![k] = cComponents[k] \union {d}]
           /\ \A c \in cComponents[k] : Name[c] # Name[d]
  BY <1>1, <1>2, <1>3, <1>6
<1> QED BY <1>4, <1>5, <1>6

LEMMA MapRegister ==
    ASSUME Distinct, TypeInv, DeadInv, MapInv, NEW k \in Containers, Register(k)
    PROVE  MapInv'
<1> DEFINE d == act[k].comp
<1>1. /\ act[k].at = "found" /\ d \in Comps /\ d # None
      /\ \A j \in Containers : j # k => act'[j] = act[j] /\ cComponents'[j] = cComponents[j]
      /\ \/ /\ act'[k].at = "wait" /\ act'[k].comp = None
            /\ cComponents'[k] = cComponents[k]
            /\ \E c \in cComponents[k] : Name[c] = Name[d]
         \/ /\ act'[k].at = "start" /\ act'[k].comp = d
            /\ cComponents'[k] = cComponents[k] \union {d}
            /\ \A c \in cComponents[k] : Name[c] # Name[d]
      /\ UNCHANGED <<kstage, container>>
  BY Registered
<1>2. /\ \A j \in Containers : cComponents[j] \subseteq cComponents'[j]
      /\ Root \in Containers /\ Containers \subseteq Comps /\ None \notin Comps
      /\ container \in [Comps -> Containers \union {None}]
      /\ \A j \in Containers : cComponents[j] \subseteq Comps
  BY <1>1, HttpRoutesAssumption DEF TypeInv, PlainType
<1> HIDE DEF d
<1>3. OneName'
  BY <1>1 DEF MapInv, OneName
<1>4. ASSUME NEW c \in Leaves PROVE LeafIn(c)'
  <2>1. LeafIn(c) /\ c \in Comps /\ c # None
    BY <1>2 DEF MapInv, Leaves
  <2>2. kstage[c] \in {"started", "stopping", "stopped"} =>
            container[c] # None /\ c \in cComponents'[container[c]]
    BY <1>2, <2>1 DEF LeafIn
  <2>3. ASSUME NEW j \in Containers, act'[j].comp = c, act'[j].at = "start"
        PROVE  c \in cComponents'[j]
    BY <1>1, <2>1, <2>3 DEF LeafIn
  <2> QED BY <1>1, <2>2, <2>3 DEF LeafIn
<1>5. ASSUME NEW c \in Containers PROVE ContainerIn(c)'
  <2>1. ContainerIn(c) /\ c \in Comps /\ c # None
    BY <1>2 DEF MapInv
  <2>2. \A x \in Comps : Name[x] = Name[c] => x = c
    BY DEF Distinct
  <2>3. CASE k = Root /\ d = c
    BY <1>1, <1>2, <2>2, <2>3 DEF ContainerIn
  <2>4. CASE ~(k = Root /\ d = c)
    BY <1>1, <1>2, <2>1, <2>4 DEF ContainerIn, d
  <2> QED BY <2>3, <2>4
<1> QED BY <1>3, <1>4, <1>5 DEF MapInv

LEMMA MapStart ==
    ASSUME TypeInv, DeadInv, MapInv, NEW k \in Containers, Start(k)
    PROVE  MapInv'
<1> DEFINE d == act[k].comp
<1>1. /\ act[k].at = "start" /\ act' = [act EXCEPT ![k] = Resting]
      /\ kstage' = [kstage EXCEPT ![d] = IF kstage[d] = "initialized" THEN "started" ELSE kstage[d]]
      /\ UNCHANGED <<container, cComponents>>
  BY DEF Start
<1>2. d \in Comps /\ d # None /\ Root \in Containers /\ None \notin Comps /\ k \in Comps
  BY <1>1, AtWork, HttpRoutesAssumption
<1>3. /\ act'[k].at = "wait" /\ act'[k].comp = None
      /\ \A j \in Containers : j # k => act'[j] = act[j]
  BY <1>1 DEF TypeInv, PlainType, Resting
<1>4. \A c \in Comps : c # d => kstage'[c] = kstage[c]
  BY <1>1, <1>2 DEF TypeInv, PlainType
<1> HIDE DEF d
<1>5. OneName'
  BY <1>1 DEF MapInv, OneName
<1>6. ASSUME NEW c \in Leaves PROVE LeafIn(c)'
  <2>1. LeafIn(c) /\ OwnerOf(c) /\ c \in Comps /\ c # None
    BY <1>2 DEF MapInv, DeadInv, Leaves
  <2>2. c = d => container[c] = k /\ c \in cComponents[k]
    BY <1>1, <2>1 DEF LeafIn, OwnerOf, d
  <2>3. kstage'[c] \in {"started", "stopping", "stopped"} =>
            container[c] # None /\ c \in cComponents[container[c]]
    BY <1>2, <1>4, <2>1, <2>2 DEF LeafIn
  <2>4. \A j \in Containers : act'[j].comp = c /\ act'[j].at = "start" => c \in cComponents[j]
    BY <1>3, <2>1 DEF LeafIn
  <2> QED BY <1>1, <2>3, <2>4 DEF LeafIn
<1>7. ASSUME NEW c \in Containers PROVE ContainerIn(c)'
  BY <1>1, <1>2, <1>3 DEF MapInv, ContainerIn
<1> QED BY <1>5, <1>6, <1>7 DEF MapInv

\* A component that stops has run: no other one is shut down.
LEMMA MapShutdown ==
    ASSUME Distinct, TypeInv, MapInv, NEW d \in Comps, Shutdown(d) \/ RemoveHttpHandlers(d)
    PROVE  MapInv'
<1>1. /\ kstage[d] \in {"started", "stopping"}
      /\ \E s \in {"stopping", "stopped"} : kstage' = [kstage EXCEPT ![d] = s]
      /\ UNCHANGED <<container, cComponents, act>>
  BY DEF Distinct, Shutdown, RemoveHttpHandlers, Stoppable
<1>2. \A c \in Comps : c # d => kstage'[c] = kstage[c]
  BY <1>1 DEF TypeInv, PlainType
<1>3. ASSUME NEW c \in Leaves PROVE LeafIn(c)'
  BY <1>1, <1>2 DEF MapInv, LeafIn, Leaves
<1> QED BY <1>1, <1>3 DEF MapInv, OneName, ContainerIn

\* removeComponent takes out the component itself: it is the one of its name.
LEMMA RemovesItself ==
    ASSUME Distinct, TypeInv, DeadInv, MapInv, NEW d \in Comps, RemoveComponent(d)
    PROVE  /\ d # Root /\ kstage[d] = "stopped" /\ kstage'[d] = "down"
           /\ \A c \in Comps : c # d => kstage'[c] = kstage[c]
           /\ \A k \in Containers : cComponents'[k] \subseteq cComponents[k]
           /\ \A k \in Containers : cComponents[k] \ cComponents'[k] \subseteq {d}
           /\ d \in Containers => cComponents'[Root] = cComponents[Root]
           /\ UNCHANGED <<owner, container, uri, cHandlers, act, todo, clash>>
<1>1. /\ kstage[d] = "stopped" /\ kstage' = [kstage EXCEPT ![d] = "down"]
      /\ cComponents' = [cComponents EXCEPT ![owner[d]] = cComponents[owner[d]] \ Named(owner[d], d)]
      /\ UNCHANGED <<owner, container, uri, cHandlers, act, todo, clash>>
  BY DEF RemoveComponent
<1>2. /\ kstage \in [Comps -> Stages] /\ cComponents \in [Containers -> SUBSET Comps]
      /\ owner[d] \in Containers /\ Root \in Containers /\ Containers \subseteq Comps
  BY <1>1, HttpRoutesAssumption DEF TypeInv, PlainType
<1>3. d # Root
  BY <1>1 DEF DeadInv, SelfInv
<1>4. Named(owner[d], d) \subseteq {d}
  <2> SUFFICES ASSUME NEW c \in cComponents[owner[d]], Name[c] = Name[d] PROVE c = d
    BY DEF Named
  <2>1. CASE d \in Containers
    BY <1>2, <2>1 DEF Distinct
  <2>2. CASE d \in Leaves
    <3>1. OwnerOf(d) /\ LeafIn(d)
      BY <2>2 DEF DeadInv, MapInv
    <3>2. d \in cComponents[owner[d]]
      BY <1>1, <3>1 DEF OwnerOf, LeafIn
    <3> QED BY <1>2, <3>2 DEF MapInv, OneName
  <2> QED BY <2>1, <2>2 DEF Leaves
<1>5. d \in Containers => owner[d] = d
  BY <1>2, HttpRoutesAssumption DEF DeadInv, SelfInv
<1> DEFINE S == Named(owner[d], d)
<1>6. /\ S \subseteq {d}
      /\ cComponents' = [cComponents EXCEPT ![owner[d]] = cComponents[owner[d]] \ S]
  BY <1>1, <1>4
<1> HIDE DEF S
<1> QED BY <1>1, <1>2, <1>3, <1>5, <1>6

LEMMA MapRemove ==
    ASSUME Distinct, TypeInv, DeadInv, MapInv, NEW d \in Comps, RemoveComponent(d)
    PROVE  MapInv'
<1>1. /\ d # Root /\ kstage[d] = "stopped" /\ kstage'[d] = "down"
      /\ \A c \in Comps : c # d => kstage'[c] = kstage[c]
      /\ \A k \in Containers : cComponents'[k] \subseteq cComponents[k]
      /\ \A k \in Containers : cComponents[k] \ cComponents'[k] \subseteq {d}
      /\ d \in Containers => cComponents'[Root] = cComponents[Root]
      /\ UNCHANGED <<container, act>>
  BY RemovesItself
<1>2. Root \in Containers /\ Containers \subseteq Comps /\ container \in [Comps -> Containers \union {None}]
  BY HttpRoutesAssumption DEF TypeInv, PlainType
<1>3. OneName'
  BY <1>1 DEF MapInv, OneName
<1>4. ASSUME NEW c \in Leaves PROVE LeafIn(c)'
  <2>1. LeafIn(c) /\ GoneOf(c) /\ c \in Comps
    BY DEF MapInv, DeadInv, Leaves
  <2>2. CASE c # d
    BY <1>1, <1>2, <2>1, <2>2 DEF LeafIn
  <2>3. CASE c = d
    BY <1>1, <2>1, <2>3 DEF LeafIn, GoneOf
  <2> QED BY <2>2, <2>3
<1>5. ASSUME NEW c \in Containers PROVE ContainerIn(c)'
  BY <1>1, <1>2 DEF MapInv, ContainerIn
<1> QED BY <1>3, <1>4, <1>5 DEF MapInv

LEMMA MapStep == Distinct /\ TypeInv /\ DeadInv /\ MapInv /\ [Next]_vars => MapInv'
<1>1. MapInv /\ ((\E p \in Paths : Lookup(p)) \/ Serve \/ Respond \/ MapFatal \/ UNCHANGED vars) => MapInv'
  BY Requested DEF MapInv, OneName, LeafIn, ContainerIn
<1> QED BY <1>1, MapAdd, MapInitialize, MapToCanonical, MapRegister, MapStart, MapShutdown, MapRemove
        DEF Next

----------------------------------------------------------------------------
(* URIs *)

\* Derived URIs have this shape, and so have the handlers.
LEMMA DerivedShape ==
    ASSUME NEW cont \in [Comps -> Containers \union {None}], Shallow(cont), NEW c \in Comps,
           c \in Leaves => cont[c] # None
    PROVE  /\ Shape(cont, URIIn(cont, c), c)
           /\ URIIn(cont, c) # <<>>
           /\ \A h \in DeriveHttpHandlers(cont, c) : HandlerShape(cont, h)
<1> DEFINE u == URIIn(cont, c)
<1>1. /\ Len(u) > 0 /\ u[Len(u)] = Low(c)
      /\ cont[c] # None => Len(u) > 1 /\ u[Len(u) - 1] = Low(cont[c])
  BY URIEnds
<1>2. \A h \in DeriveHttpHandlers(cont, c) :
          h.comp = c /\ ((h.meth = "ServeHTTP" /\ h.uri = u) \/ MethodAtEnd(h.uri))
  BY Derived DEF MethodAtEnd
<1> HIDE DEF u
<1>3. Shape(cont, u, c) /\ u # <<>>
  BY <1>1 DEF Shape
<1> QED BY <1>2, <1>3 DEF HandlerShape, u

LEMMA ShapeInit == Init => ShapeInv
<1> SUFFICES ASSUME Init PROVE ShapeInv
  OBVIOUS
<1>1. Root \in Comps /\ Root \in Containers
  BY HttpRoutesAssumption
<1>2. TypeInv
  BY TypeInit
<1>3. container \in [Comps -> Containers \union {None}] /\ Shallow(container) /\ container[Root] = None
  BY <1>2 DEF TypeInv, PlainType, Shallow
<1> DEFINE u == URIIn(container, Root)
<1>4. /\ Shape(container, u, Root)
      /\ \A h \in DeriveHttpHandlers(container, Root) : HandlerShape(container, h)
  BY <1>1, <1>3, DerivedShape DEF Leaves
<1>5. u = <<Low(Root)>>
  BY <1>1, <1>3, URIEnds
<1>6. \A c \in Comps : uri[c] = IF c = Root THEN u ELSE <<>>
  BY <1>5 DEF Init, Low
<1>7. cHandlers[Root] = DeriveHttpHandlers(container, Root)
  BY <1>1 DEF Init
<1> HIDE DEF u
<1> QED BY <1>4, <1>6, <1>7 DEF ShapeInv

\* A URI keeps its shape as long as the container stays the same.
LEMMA SameShape ==
    ASSUME ShapeInv, container' = container, uri' = uri, cHandlers'[Root] \subseteq cHandlers[Root]
    PROVE  ShapeInv'
BY DEF ShapeInv, HandlerShape, Shape

\* toCanonical sets the container of a component that had none, and no routes.
LEMMA NoneBefore ==
    ASSUME DeadInv, ShapeInv, NEW k \in Containers, act[k].at = "canonical",
           NEW c \in Leaves, c = act[k].comp
    PROVE  /\ \A u : ~Shape(container, u, c)
           /\ \A h \in cHandlers[Root] : h.comp = c => MethodAtEnd(h.uri)
<1>1. container[c] = None
  BY DEF DeadInv, OwnerOf
<1>2. \A u : ~Shape(container, u, c)
  BY <1>1 DEF Shape
<1> QED BY <1>2 DEF ShapeInv, HandlerShape

LEMMA ShapeToCanonical ==
    ASSUME TypeInv, DeadInv, ShapeInv, NEW k \in Containers, ToCanonical(k)
    PROVE  ShapeInv'
<1> DEFINE d == act[k].comp  cont == Cont(k)
           hs == DeriveHttpHandlers(cont, d)  u == URIIn(cont, d)
<1>1. /\ d \in Comps /\ act[k].at = "canonical"
      /\ container' = cont
      /\ uri' = [uri EXCEPT ![d] = IF d \in NonRest THEN uri[d] ELSE u]
      /\ cHandlers' = [cHandlers EXCEPT ![Root] = PutHandlers(cHandlers[Root], hs)]
  BY Canonical
<1>2. cont \in [Comps -> Containers \union {None}] /\ Shallow(cont)
  BY <1>1, ContType
<1>3. /\ \A c \in Comps : c # d => cont[c] = container[c]
      /\ d \in Leaves => cont[d] = k
  BY <1>1 DEF Cont, TypeInv, PlainType, Leaves
<1>4. Shape(cont, u, d) /\ \A h \in hs : HandlerShape(cont, h)
  BY <1>1, <1>2, <1>3, DerivedShape, HttpRoutesAssumption
<1>5. d \in Leaves => /\ \A v : ~Shape(container, v, d)
                      /\ \A h \in cHandlers[Root] : h.comp = d => MethodAtEnd(h.uri)
  BY <1>1, NoneBefore
<1>6. cHandlers'[Root] \subseteq cHandlers[Root] \union hs
  BY <1>1, HttpRoutesAssumption DEF TypeInv, PlainType, PutHandlers
<1>7. /\ uri'[d] = IF d \in NonRest THEN uri[d] ELSE u
      /\ \A c \in Comps : c # d => uri'[c] = uri[c]
  BY <1>1 DEF TypeInv, PlainType
<1>8. cHandlers[Root] \in SUBSET Handlers
  BY HttpRoutesAssumption DEF TypeInv, PlainType
<1> HIDE DEF d, cont, hs, u
<1>9. ASSUME NEW c \in Comps, NEW v, Shape(container, v, c) PROVE Shape(cont, v, c)
  <2>1. c \in Leaves => c # d
    BY <1>5, <1>9
  <2> QED BY <1>3, <1>9, <2>1 DEF Shape
<1>10. \A c \in Comps : uri'[c] # <<>> => Shape(cont, uri'[c], c)
  BY <1>4, <1>7, <1>9 DEF ShapeInv
<1>11. \A h \in cHandlers'[Root] : HandlerShape(cont, h)
  BY <1>4, <1>6, <1>8, <1>9 DEF ShapeInv, HandlerShape, Handlers
<1> QED BY <1>1, <1>10, <1>11 DEF ShapeInv

LEMMA ShapeRemoveHttpHandlers ==
    ASSUME TypeInv, MapInv, ShapeInv, NEW d \in Comps, RemoveHttpHandlers(d)
    PROVE  ShapeInv'
<1> DEFINE u == URIIn(container, d)
<1>1. /\ kstage[d] = "stopping" /\ container' = container
      /\ \E S : cHandlers' = [cHandlers EXCEPT ![owner[d]] = {h \in cHandlers[owner[d]] : h.uri \notin S}]
      /\ uri' = uri \/ uri' = [uri EXCEPT ![d] = u]
  <2>1. uri' = [uri EXCEPT ![d] = uri[d]] \/ uri' = [uri EXCEPT ![d] = u]
    BY DEF RemoveHttpHandlers
  <2>2. uri \in [Comps -> Seq(Words)]
    BY DEF TypeInv, PlainType
  <2>3. [uri EXCEPT ![d] = uri[d]] = uri
    BY <2>2
  <2> QED BY <2>1, <2>3 DEF RemoveHttpHandlers, Stoppable
<1>2. cHandlers'[Root] \subseteq cHandlers[Root]
  <2>1. owner[d] \in Containers /\ Root \in Containers
    BY <1>1, HttpRoutesAssumption DEF TypeInv, PlainType
  <2> QED BY <1>1, <2>1 DEF TypeInv, PlainType
<1>3. Shape(container, u, d)
  <2>1. d \in Leaves => container[d] # None
    BY <1>1 DEF MapInv, LeafIn
  <2> QED BY <2>1, DerivedShape DEF TypeInv, PlainType
<1> HIDE DEF u
<1>4. \A c \in Comps : uri'[c] = uri[c] \/ (c = d /\ uri'[c] = u)
  BY <1>1 DEF TypeInv, PlainType
<1> QED BY <1>1, <1>2, <1>3, <1>4 DEF ShapeInv

LEMMA ShapeStep == TypeInv /\ DeadInv /\ MapInv /\ ShapeInv /\ [Next]_vars => ShapeInv'
<1>1. ShapeInv /\ ((\E p \in Paths : Lookup(p)) \/ Serve \/ Respond \/ MapFatal \/ UNCHANGED vars) => ShapeInv'
  BY Requested, SameShape
<1>2. ASSUME ShapeInv, NEW c \in Comps, NEW k \in Containers,
             \/ Add(c, k) \/ Initialize(k) \/ Register(k) \/ Start(k)
             \/ Shutdown(c) \/ RemoveComponent(c)
      PROVE  ShapeInv'
  <2>1. container' = container /\ uri' = uri /\ cHandlers' = cHandlers
    BY <1>2 DEF Add, Initialize, Register, Start, Shutdown, RemoveComponent
  <2> QED BY <1>2, <2>1, SameShape
<1>3. Root \in Comps /\ Root \in Containers
  BY HttpRoutesAssumption
<1> QED BY <1>1, <1>2, <1>3, ShapeToCanonical, ShapeRemoveHttpHandlers DEF Next

----------------------------------------------------------------------------
(* Routes *)

\* Two components of one URI have one name and one container.
LEMMA SameURI ==
    ASSUME Distinct, NEW cont \in [Comps -> Containers \union {None}], NEW u,
           NEW c \in Comps, NEW d \in Comps, Shape(cont, u, c), Shape(cont, u, d)
    PROVE  /\ Name[c] = Name[d]
           /\ c = d \/ (c \in Leaves /\ d \in Leaves /\ cont[c] = cont[d] /\ cont[c] \in Containers)
<1>1. Name[c] = Name[d]
  BY DEF Shape, Distinct
<1>2. c \in Containers \/ d \in Containers => c = d
  BY <1>1 DEF Distinct
<1>3. ASSUME c \in Leaves, d \in Leaves
      PROVE  cont[c] = cont[d] /\ cont[c] \in Containers
  <2>1. cont[c] \in Containers /\ cont[d] \in Containers /\ Containers \subseteq Comps
    BY <1>3, HttpRoutesAssumption DEF Shape
  <2>2. Low(cont[c]) = Low(cont[d])
    BY <1>3 DEF Shape
  <2> QED BY <2>1, <2>2 DEF Distinct
<1> QED BY <1>1, <1>2, <1>3 DEF Leaves

\* The handlers of a URI of a component are ServeHTTP of that component or a namesake.
LEMMA Namesakes ==
    ASSUME Distinct, TypeInv, ShapeInv, NEW c \in Comps, uri[c] # <<>>,
           NEW h \in cHandlers[Root], h.uri = uri[c]
    PROVE  /\ h.meth = "ServeHTTP" /\ h.comp \in Comps
           /\ Name[h.comp] = Name[c]
           /\ \/ h.comp = c
              \/ /\ c \in Leaves /\ h.comp \in Leaves
                 /\ container[h.comp] = container[c] /\ container[c] \in Containers
<1>1. Shape(container, uri[c], c) /\ HandlerShape(container, h)
  BY DEF ShapeInv
<1>2. ~MethodAtEnd(h.uri)
  BY <1>1 DEF Distinct, Shape, MethodAtEnd
<1>3. h.meth = "ServeHTTP" /\ Shape(container, uri[c], h.comp)
  BY <1>1, <1>2 DEF HandlerShape
<1>4. h.comp \in Comps /\ container \in [Comps -> Containers \union {None}]
  BY HttpRoutesAssumption DEF TypeInv, PlainType, Handlers
<1> QED BY <1>1, <1>3, <1>4, SameURI

\* A live component is in the map of its container, or about to be registered.
LEMMA LivesIn ==
    ASSUME TypeInv, DeadInv, MapInv, NEW c \in Leaves, Live(c)
    PROVE  /\ container[c] \in Containers
           /\ \/ c \in cComponents[container[c]]
              \/ act[container[c]].comp = c /\ act[container[c]].at = "found"
<1>1. OwnerOf(c) /\ LeafIn(c) /\ c \in Comps /\ container \in [Comps -> Containers \union {None}]
  BY DEF DeadInv, MapInv, Leaves, TypeInv, PlainType
<1>2. \A k \in Containers : k # None
  BY HttpRoutesAssumption
<1>3. CASE kstage[c] = "started"
  BY <1>1, <1>3 DEF LeafIn
<1>4. CASE \E k \in Containers : act[k].comp = c /\ act[k].at \in {"found", "start"}
  <2>1. PICK k \in Containers : act[k].comp = c /\ act[k].at \in {"found", "start"}
    BY <1>4
  <2>2. container[c] = k
    BY <1>1, <2>1 DEF OwnerOf
  <2> QED BY <1>1, <2>1, <2>2 DEF LeafIn
<1> QED BY <1>3, <1>4 DEF Live

\* Routes stay when nothing is written to the map and no component of a handler starts.
LEMMA SameRoutes ==
    ASSUME TypeInv, RouteInv, uri' = uri, cHandlers'[Root] = cHandlers[Root], clash' = clash,
           \A c \in Comps : kstage[c] = "initialized" => kstage'[c] = "initialized",
           \A c \in Comps : Live(c)' => Live(c)
    PROVE  RouteInv'
<1> SUFFICES ASSUME NEW c \in Comps \ (NonRest \union clash), Live(c)'
             PROVE  Routed(c)'
  BY DEF RouteInv
<1>1. Routed(c)
  BY DEF RouteInv
<1>2. \A h \in cHandlers[Root] : h.comp \in Comps
  BY HttpRoutesAssumption DEF TypeInv, PlainType, Handlers
<1> QED BY <1>1, <1>2 DEF Routed

LEMMA RouteInit == Init => RouteInv
<1> SUFFICES ASSUME Init, NEW c \in Comps \ NonRest, Live(c)
             PROVE  Routed(c)
  BY DEF RouteInv
<1>1. c = Root /\ Root \in Containers
  BY HttpRoutesAssumption DEF Init, Live
<1>2. container \in [Comps -> Containers \union {None}] /\ Shallow(container) /\ container[Root] = None
  BY TypeInit DEF TypeInv, PlainType, Shallow
<1> DEFINE hs == DeriveHttpHandlers(container, Root)
<1>3. uri[Root] = URIIn(container, Root)
  BY <1>1, <1>2, URIEnds DEF Init, Low
<1>4. uri[Root] # <<>>
  BY <1>1, <1>2, <1>3, DerivedShape DEF Leaves
<1>5. (\A h \in hs : h.comp = Root) /\ (\E h \in hs : h.uri = uri[Root])
  BY <1>1, <1>2, <1>3, Derived
<1>6. cHandlers[Root] = hs
  BY <1>1 DEF Init
<1> HIDE DEF hs
<1> QED BY <1>1, <1>4, <1>5, <1>6 DEF Routed

\* Add, the first FSM call and registration.
LEMMA RouteAdd ==
    ASSUME TypeInv, RouteInv, NEW d \in Comps, NEW k \in Containers, Add(d, k)
    PROVE  RouteInv'
<1>1. /\ act' = [act EXCEPT ![k] = [at |-> "init", comp |-> d]]
      /\ UNCHANGED <<kstage, uri, cHandlers, clash>>
  BY DEF Add
<1>2. act'[k].at = "init" /\ \A j \in Containers : j # k => act'[j] = act[j]
  BY <1>1 DEF TypeInv, PlainType
<1>3. \A c \in Comps : Live(c)' => Live(c)
  BY <1>1, <1>2 DEF Live
<1> QED BY <1>1, <1>3, SameRoutes

LEMMA RouteInitialize ==
    ASSUME TypeInv, RouteInv, NEW k \in Containers, Initialize(k)
    PROVE  RouteInv'
<1> DEFINE d == act[k].comp
<1>1. /\ act[k].at = "init" /\ act' = [act EXCEPT ![k].at = "canonical"]
      /\ kstage' = [kstage EXCEPT ![d] = IF kstage[d] = "new" THEN "initialized" ELSE kstage[d]]
      /\ UNCHANGED <<uri, cHandlers, clash>>
  BY DEF Initialize, Goto
<1>2. d \in Comps
  BY <1>1, AtWork
<1>3. act'[k].at = "canonical" /\ \A j \in Containers : j # k => act'[j] = act[j]
  BY <1>1 DEF TypeInv, PlainType
<1>4. \A c \in Comps : kstage'[c] # kstage[c] => kstage[c] = "new" /\ kstage'[c] = "initialized"
  BY <1>1, <1>2 DEF TypeInv, PlainType
<1>5. ASSUME NEW c \in Comps, Live(c)' PROVE Live(c)
  <2>1. \/ kstage'[c] = "started"
        \/ /\ kstage'[c] = "initialized"
           /\ \E j \in Containers : j # k /\ act[j].comp = c /\ act[j].at \in {"found", "start"}
    BY <1>3, <1>5 DEF Live
  <2>2. (\E j \in Containers : act[j].comp = c /\ act[j].at \in {"found", "start"}) => kstage[c] # "new"
    BY DEF TypeInv, ActInv
  <2> QED BY <1>4, <2>1, <2>2 DEF Live
<1> QED BY <1>1, <1>4, <1>5, SameRoutes

LEMMA RouteRegister ==
    ASSUME TypeInv, RouteInv, NEW k \in Containers, Register(k)
    PROVE  RouteInv'
<1>1. /\ act[k].at = "found"
      /\ \A j \in Containers : j # k => act'[j] = act[j]
      /\ (act'[k].at = "wait") \/ (act'[k].at = "start" /\ act'[k].comp = act[k].comp)
      /\ UNCHANGED <<kstage, uri, cHandlers, clash>>
  BY Registered
<1>2. \A c \in Comps : Live(c)' => Live(c)
  BY <1>1 DEF Live
<1> QED BY <1>1, <1>2, SameRoutes

\* A component that starts is registered: it is the one of its name.
LEMMA RouteStart ==
    ASSUME Distinct, TypeInv, DeadInv, MapInv, ShapeInv, RouteInv, NEW k \in Containers, Start(k)
    PROVE  RouteInv'
<1> DEFINE d == act[k].comp
<1>1. /\ act[k].at = "start" /\ act' = [act EXCEPT ![k] = Resting]
      /\ kstage' = [kstage EXCEPT ![d] = IF kstage[d] = "initialized" THEN "started" ELSE kstage[d]]
      /\ UNCHANGED <<uri, cHandlers, clash>>
  BY DEF Start
<1>2. d \in Comps
  BY <1>1, AtWork
<1>3. act'[k].at = "wait" /\ \A j \in Containers : j # k => act'[j] = act[j]
  BY <1>1 DEF TypeInv, PlainType, Resting
<1>4. /\ \A c \in Comps : c # d => kstage'[c] = kstage[c]
      /\ kstage'[d] = kstage[d] \/ kstage[d] = "initialized"
  BY <1>1, <1>2 DEF TypeInv, PlainType
<1> HIDE DEF d
<1>5. ASSUME NEW c \in Comps, Live(c)' PROVE Live(c)
  <2>1. CASE c # d \/ kstage'[c] = kstage[c]
    BY <1>3, <1>4, <1>5, <2>1 DEF Live
  <2>2. CASE c = d /\ kstage[c] = "initialized"
    BY <1>1, <2>2 DEF Live, d
  <2> QED BY <1>4, <2>1, <2>2
<1> SUFFICES ASSUME NEW c \in Comps \ (NonRest \union clash), Live(c)'
             PROVE  Routed(c)'
  BY <1>1 DEF RouteInv
<1>6. Live(c) /\ Routed(c)
  BY <1>5 DEF RouteInv
<1>7. ASSUME NEW h \in cHandlers[Root], h.uri = uri[c], h.comp # c PROVE h.comp # d
  <2> SUFFICES ASSUME h.comp = d PROVE FALSE
    OBVIOUS
  <2>1. /\ c \in Leaves /\ d \in Leaves /\ Name[d] = Name[c]
        /\ container[d] = container[c] /\ container[c] \in Containers
    BY <1>6, <1>7, Namesakes DEF Routed
  <2>2. container[d] = k /\ d \in cComponents[k]
    BY <1>1, <2>1 DEF DeadInv, OwnerOf, MapInv, LeafIn, d
  <2>3. c \in cComponents[k] \/ act[k].comp = c
    BY <1>6, <2>1, <2>2, LivesIn
  <2> QED BY <1>7, <2>1, <2>2, <2>3 DEF MapInv, OneName, d
<1>8. \A h \in cHandlers[Root] : h.comp \in Comps
  BY HttpRoutesAssumption DEF TypeInv, PlainType, Handlers
<1>9. ASSUME NEW h \in cHandlers'[Root], h.uri = uri'[c]
      PROVE  uri'[h.comp] = uri'[c] /\ (h.comp = c \/ kstage'[h.comp] = "initialized")
  <2>1. h \in cHandlers[Root] /\ h.uri = uri[c]
    BY <1>1, <1>9
  <2>2. uri[h.comp] = uri[c] /\ (h.comp = c \/ kstage[h.comp] = "initialized")
    BY <1>6, <2>1 DEF Routed
  <2> QED BY <1>1, <1>4, <1>7, <1>8, <2>1, <2>2
<1> QED BY <1>1, <1>6, <1>9 DEF Routed

\* What no component needs any more: only a running component is shut down.
LEMMA RouteShutdown ==
    ASSUME Distinct, TypeInv, RouteInv, NEW d \in Comps, Shutdown(d) \/ RemoveComponent(d)
    PROVE  RouteInv'
<1>1. /\ kstage[d] \in {"started", "stopped"}
      /\ \E s \in {"stopping", "down"} : kstage' = [kstage EXCEPT ![d] = s]
      /\ UNCHANGED <<act, uri, cHandlers, clash>>
  BY DEF Distinct, Shutdown, RemoveComponent
<1>2. /\ \A c \in Comps : c # d => kstage'[c] = kstage[c]
      /\ kstage'[d] \in {"stopping", "down"}
  BY <1>1 DEF TypeInv, PlainType
<1>3. \A c \in Comps : Live(c)' => Live(c)
  BY <1>1, <1>2 DEF Live
<1>4. \A c \in Comps : kstage[c] = "initialized" => kstage'[c] = "initialized"
  BY <1>1, <1>2
<1> QED BY <1>1, <1>3, <1>4, SameRoutes

\* toCanonical replaces the handlers of a live component only by those of a namesake
\* that has not started.
LEMMA RouteToCanonical ==
    ASSUME Distinct, TypeInv, DeadInv, ShapeInv, RouteInv, NEW k \in Containers, ToCanonical(k)
    PROVE  RouteInv'
<1> DEFINE d == act[k].comp  cont == Cont(k)
           hs == DeriveHttpHandlers(cont, d)  u == URIIn(cont, d)
           new == PutHandlers(cHandlers[Root], hs)
<1>1. /\ d \in Comps
      /\ act[k].at = "canonical" /\ act' = [act EXCEPT ![k].at = "found"]
      /\ container' = cont
      /\ uri' = [uri EXCEPT ![d] = IF d \in NonRest THEN uri[d] ELSE u]
      /\ cHandlers' = [cHandlers EXCEPT ![Root] = new]
      /\ UNCHANGED <<kstage, clash>>
  BY Canonical
<1>2. cont \in [Comps -> Containers \union {None}] /\ Shallow(cont)
  BY <1>1, ContType
<1>3. /\ act'[k].comp = d
      /\ \A j \in Containers : j # k => act'[j] = act[j]
      /\ uri'[d] = IF d \in NonRest THEN uri[d] ELSE u
      /\ \A c \in Comps : c # d => uri'[c] = uri[c]
      /\ cHandlers'[Root] = new
  BY <1>1, HttpRoutesAssumption DEF TypeInv, PlainType
<1>4. /\ hs \in SUBSET Handlers
      /\ \A g, h \in hs : g.uri = h.uri => g = h
      /\ \A h \in hs : h.comp = d /\ (h.uri = u \/ MethodAtEnd(h.uri))
      /\ d \notin NonRest => \E h \in hs : h.uri = u
      /\ d \in NonRest => hs = {}
  BY <1>1, <1>2, Derived DEF MethodAtEnd
<1>5. cHandlers[Root] \in SUBSET Handlers /\ \A g, h \in cHandlers[Root] : g.uri = h.uri => g = h
  BY HttpRoutesAssumption DEF TypeInv, PlainType, OneInv
<1>6. ShapeInv'
  BY ShapeToCanonical
<1>7. d \in Leaves => container[d] = None /\ kstage[d] = "initialized"
  <2>1. kstage[d] # "new"
    BY <1>1 DEF TypeInv, ActInv
  <2> QED BY <1>1, <2>1 DEF DeadInv, OwnerOf, GoneOf
<1> HIDE DEF d, cont, u, hs
<1>8. /\ hs \subseteq new
      /\ \A h \in new : h \in hs \/ (h \in cHandlers[Root] /\ h.uri \notin URIs(hs))
      /\ \A h \in cHandlers[Root] : h.uri \notin URIs(hs) => h \in new
  BY <1>4, <1>5, PutOne
<1> HIDE DEF new
<1> SUFFICES ASSUME NEW c \in Comps \ (NonRest \union clash), Live(c)'
             PROVE  Routed(c)'
  BY <1>1 DEF RouteInv
<1>9. CASE c = d
  <2>1. uri'[c] = u /\ u # <<>> /\ \E h \in new : h.uri = u
    <3>1. uri'[c] = u /\ \E h \in hs : h.uri = u
      BY <1>3, <1>4, <1>9
    <3>2. Len(u) > 0
      BY <1>1, <1>2, URIEnds DEF u
    <3>3. u # <<>>
      BY <3>2
    <3> QED BY <1>8, <3>1, <3>3
  <2>2. \A h \in new : h.uri = u => h.comp = c
    <3>1. u \in URIs(hs)
      BY <1>4, <1>9 DEF URIs
    <3> QED BY <1>4, <1>8, <1>9, <3>1
  <2> QED BY <1>3, <2>1, <2>2 DEF Routed
<1>10. CASE c # d
  <2>1. Live(c)
    BY <1>1, <1>3, <1>10 DEF Live
  <2>2. Routed(c) /\ uri'[c] = uri[c]
    BY <1>3, <1>10, <2>1 DEF RouteInv
  <2>3. Shape(cont, uri[c], c)
    BY <1>1, <1>6, <2>2 DEF ShapeInv, Routed
  <2>4. \E h \in new : h.uri = uri[c]
    <3>1. PICK h \in cHandlers[Root] : h.uri = uri[c]
      BY <2>2 DEF Routed
    <3>2. CASE h.uri \in URIs(hs)
      BY <1>8, <3>1, <3>2 DEF URIs
    <3>3. CASE h.uri \notin URIs(hs)
      BY <1>8, <3>1, <3>3
    <3> QED BY <3>2, <3>3
  <2>5. ASSUME NEW h \in hs, h.uri = uri[c]
        PROVE  uri'[h.comp] = uri[c] /\ kstage[h.comp] = "initialized"
    <3>1. h.comp = d /\ h.uri = u /\ d \notin NonRest
      BY <1>4, <2>3, <2>5 DEF Distinct, Shape, MethodAtEnd
    <3>2. HandlerShape(cont, h)
      BY <1>1, <1>3, <1>6, <1>8, <2>5 DEF ShapeInv
    <3>3. Shape(cont, uri[c], d)
      BY <2>3, <2>5, <3>1, <3>2 DEF Distinct, HandlerShape, MethodAtEnd, Shape
    <3>4. d \in Leaves
      BY <1>1, <1>2, <1>10, <2>3, <3>3, SameURI
    <3> QED BY <1>3, <1>7, <2>5, <3>1, <3>4
  <2>6. ASSUME NEW h \in cHandlers[Root], h.uri = uri[c]
        PROVE  uri'[h.comp] = uri[c] /\ (h.comp = c \/ kstage[h.comp] = "initialized")
    <3>1. uri[h.comp] = uri[c] /\ (h.comp = c \/ kstage[h.comp] = "initialized")
      BY <2>2, <2>6 DEF Routed
    <3>2. h.comp # d
      <4>1. /\ h.comp \in Comps
            /\ h.comp = c \/ (h.comp \in Leaves /\ container[h.comp] \in Containers)
        BY <2>2, <2>6, Namesakes DEF Routed
      <4> QED BY <1>7, <1>10, <4>1, HttpRoutesAssumption
    <3>3. h.comp \in Comps
      BY <1>5 DEF Handlers
    <3> QED BY <1>3, <3>1, <3>2, <3>3
  <2>7. ASSUME NEW h \in cHandlers'[Root], h.uri = uri'[c]
        PROVE  uri'[h.comp] = uri'[c] /\ (h.comp = c \/ kstage'[h.comp] = "initialized")
    <3>1. h \in hs \/ h \in cHandlers[Root]
      BY <1>3, <1>8, <2>7
    <3> QED BY <1>1, <2>2, <2>5, <2>6, <2>7, <3>1
  <2>8. uri'[c] # <<>> /\ \E h \in cHandlers'[Root] : h.uri = uri'[c]
    BY <1>3, <2>2, <2>4 DEF Routed
  <2> QED BY <2>7, <2>8 DEF Routed
<1> QED BY <1>9, <1>10

\* removeHttpHandlers takes away the routes of a live component only if that one is
\* about to be registered.
LEMMA RouteRemoveHttpHandlers ==
    ASSUME Distinct, TypeInv, DeadInv, MapInv, ShapeInv, RouteInv,
           NEW d \in Comps, RemoveHttpHandlers(d)
    PROVE  RouteInv'
<1> DEFINE hs == DeriveHttpHandlers(container, d)  u == URIIn(container, d)
<1>1. /\ kstage[d] = "stopping" /\ kstage' = [kstage EXCEPT ![d] = "stopped"]
      /\ \E v : uri' = [uri EXCEPT ![d] = v]
      /\ cHandlers' = [cHandlers EXCEPT ![owner[d]] = {h \in cHandlers[owner[d]] : h.uri \notin URIs(hs)}]
      /\ clash' = clash \union {x \in Comps \ {d} : act[owner[d]] = [at |-> "found", comp |-> x]
                                                    /\ Name[x] = Name[d]}
      /\ act' = act
  BY DEF RemoveHttpHandlers, Stoppable
<1>2. container \in [Comps -> Containers \union {None}] /\ Shallow(container) /\ Root \in Containers
  BY HttpRoutesAssumption DEF TypeInv, PlainType
<1>3. /\ \A h \in hs : h.uri = u \/ MethodAtEnd(h.uri)
      /\ d \in Leaves => container[d] # None
      /\ Shape(container, u, d)
  <2>1. d \in Leaves => container[d] # None
    BY <1>1 DEF MapInv, LeafIn
  <2> QED BY <1>2, <2>1, Derived, DerivedShape DEF MethodAtEnd
<1>4. owner[d] \in Containers /\ d # Root
  BY <1>1 DEF TypeInv, PlainType, DeadInv, SelfInv
<1> HIDE DEF hs, u
<1>5. /\ kstage'[d] = "stopped"
      /\ \A x \in Comps : x # d => kstage'[x] = kstage[x] /\ uri'[x] = uri[x]
      /\ cHandlers'[Root] \subseteq cHandlers[Root]
      /\ \A h \in cHandlers[Root] : h \notin cHandlers'[Root] => owner[d] = Root /\ h.uri \in URIs(hs)
  BY <1>1, <1>2, <1>4 DEF TypeInv, PlainType
<1>6. cHandlers[Root] \in SUBSET Handlers
  BY <1>2 DEF TypeInv, PlainType
<1> SUFFICES ASSUME NEW c \in Comps \ (NonRest \union clash'), Live(c)'
             PROVE  Routed(c)'
  BY DEF RouteInv
<1>7. c # d /\ c \notin clash /\ Live(c)
  BY <1>1, <1>5 DEF Live
<1>8. Routed(c) /\ uri'[c] = uri[c]
  BY <1>5, <1>7 DEF RouteInv
<1>9. ASSUME NEW h \in cHandlers[Root], h.uri = uri[c]
      PROVE  uri'[h.comp] = uri[c] /\ (h.comp = c \/ kstage'[h.comp] = "initialized")
  <2>1. uri[h.comp] = uri[c] /\ (h.comp = c \/ kstage[h.comp] = "initialized")
    BY <1>8, <1>9 DEF Routed
  <2>2. h.comp # d /\ h.comp \in Comps
    BY <1>1, <1>6, <1>7, <2>1 DEF Handlers
  <2> QED BY <1>5, <2>1, <2>2
<1>10. ASSUME NEW h \in cHandlers[Root], h.uri = uri[c] PROVE h \in cHandlers'[Root]
  <2> SUFFICES ASSUME h \notin cHandlers'[Root] PROVE FALSE
    OBVIOUS
  <2>1. owner[d] = Root
    BY <1>5
  <2>2. PICK g \in hs : g.uri = uri[c]
    BY <1>5, <1>10 DEF URIs
  <2>3. Shape(container, uri[c], c)
    BY <1>8 DEF Routed, ShapeInv
  <2>4. uri[c] = u
    BY <1>3, <2>2, <2>3 DEF Distinct, Shape, MethodAtEnd
  <2>5. Name[c] = Name[d] /\ c \in Leaves /\ d \in Leaves /\ container[c] = container[d]
    BY <1>2, <1>3, <1>7, <2>3, <2>4, SameURI
  <2>6. container[d] = Root /\ d \in cComponents[Root]
    BY <1>1, <1>3, <2>1, <2>5 DEF DeadInv, OwnerOf, MapInv, LeafIn
  <2>7. c \in cComponents[Root] \/ (act[Root].comp = c /\ act[Root].at = "found")
    BY <1>7, <2>5, <2>6, LivesIn
  <2>8. c \notin cComponents[Root]
    BY <1>2, <1>7, <2>5, <2>6 DEF MapInv, OneName
  <2>9. act[Root] = [at |-> "found", comp |-> c]
    BY <1>2, <2>7, <2>8 DEF TypeInv, PlainType
  <2>10. c \in clash'
    BY <1>1, <1>7, <2>1, <2>5, <2>9
  <2> QED BY <2>10
<1> QED BY <1>5, <1>8, <1>9, <1>10 DEF Routed

LEMMA RouteStep ==
    Distinct /\ TypeInv /\ DeadInv /\ MapInv /\ ShapeInv /\ RouteInv /\ [Next]_vars => RouteInv'
<1>1. ASSUME TypeInv, RouteInv,
             (\E p \in Paths : Lookup(p)) \/ Serve \/ Respond \/ MapFatal \/ UNCHANGED vars
      PROVE  RouteInv'
  <2>1. UNCHANGED <<kstage, uri, cHandlers, act, clash>>
    BY <1>1, Requested
  <2>2. \A c \in Comps : Live(c)' => Live(c)
    BY <2>1 DEF Live
  <2> QED BY <1>1, <2>1, <2>2, SameRoutes
<1> QED BY <1>1, RouteAdd, RouteInitialize, RouteToCanonical, RouteRegister, RouteStart, RouteShutdown,
           RouteRemoveHttpHandlers DEF Next

\* A handler of the whole path comes first.
LEMMA WholePath ==
    ASSUME NEW u \in Seq(Words), u # <<>>, \E h \in cHandlers[Root] : h.uri = u
    PROVE  GetHttpHandler(u) = {h \in cHandlers[Root] : h.uri = u}
<1>1. Len(u) \in Nat /\ Len(u) # 0
  BY LenProperties, EmptySeq
<1>2. SubSeq(u, 1, Len(u)) = u
  <2>1. /\ SubSeq(u, 1, Len(u)) \in Seq(Words) /\ Len(SubSeq(u, 1, Len(u))) = Len(u)
        /\ \A i \in 1..Len(u) : SubSeq(u, 1, Len(u))[i] = u[i]
    BY <1>1
  <2> QED BY <1>1, <2>1, SeqEqual
<1>3. HandlersOf(u, Len(u)) = {h \in cHandlers[Root] : h.uri = u}
  BY <1>2 DEF HandlersOf
<1>4. \A n \in 1..Len(u) : (\A m \in (n + 1)..Len(u) : HandlersOf(u, m) = {}) <=> n = Len(u)
  BY <1>1, <1>3
<1>5. LongestMatch(u) = {h \in cHandlers[Root] : h.uri = u}
  <2>1. Len(u) \in 1..Len(u)
    BY <1>1
  <2> QED BY <1>2, <1>4, <2>1 DEF LongestMatch
<1> QED BY <1>1, <1>5, LongestPrefixWins

\* The map of the container of a running component has it, alone of its name.
LEMMA FoundInMap ==
    ASSUME TypeInv, DeadInv, MapInv, NEW c \in Comps, kstage[c] = "started", ~Activating(c),
           container[c] # None
    PROVE  Named(container[c], c) = {c}
<1>1. container[c] \in Containers /\ Root \in Containers
  BY HttpRoutesAssumption DEF TypeInv, PlainType
<1>2. c \in cComponents[container[c]]
  <2>1. CASE c \in Leaves
    BY <2>1 DEF MapInv, LeafIn
  <2>2. CASE c \in Containers
    <3>1. container[c] = Root
      BY <2>2 DEF TypeInv, Shallow
    <3> QED BY <1>1, <2>2, <3>1 DEF MapInv, ContainerIn, Activating
  <2> QED BY <2>1, <2>2 DEF Leaves
<1> QED BY <1>1, <1>2 DEF Named, MapInv, OneName

LEMMA RoutesReach == Distinct /\ Inv => Reachable
<1> SUFFICES ASSUME Distinct, TypeInv, DeadInv, MapInv, ShapeInv, RouteInv,
                    NEW c \in Comps \ (NonRest \union clash), kstage[c] = "started", ~Activating(c)
             PROVE  Answer(c) = c
  BY DEF Inv, Reachable
<1> DEFINE hs == GetHttpHandler(uri[c])
           h == CHOOSE g \in hs : TRUE
           x == h.comp
<1>1. Routed(c)
  BY DEF RouteInv, Live
<1>2. uri[c] \in Seq(Words)
  BY DEF TypeInv, PlainType
<1>3. hs = {g \in cHandlers[Root] : g.uri = uri[c]}
  BY <1>1, <1>2, WholePath DEF Routed
<1>4. hs # {} /\ h \in cHandlers[Root] /\ h.uri = uri[c]
  <2>1. hs # {}
    BY <1>1, <1>3 DEF Routed
  <2> HIDE DEF hs
  <2>2. h \in hs
    BY <2>1
  <2> QED BY <1>3, <2>1, <2>2
<1>5. Answer(c) = IF h.meth = "ServeHTTP" THEN ServeHTTP(x, uri[c]) ELSE None
  BY <1>4 DEF Answer
<1> HIDE DEF h
<1>6. /\ h.meth = "ServeHTTP" /\ x \in Comps /\ Name[x] = Name[c]
      /\ \/ x = c
         \/ c \in Leaves /\ x \in Leaves /\ container[x] = container[c] /\ container[c] \in Containers
  BY <1>1, <1>4, Namesakes DEF Routed
<1>7. uri[x] = uri[c]
  BY <1>1, <1>4 DEF Routed
<1>8. ServeHTTP(x, uri[c]) = c
  <2>1. CASE container[x] = None
    BY <1>6, <1>7, <2>1, HttpRoutesAssumption DEF ServeHTTP
  <2>2. CASE container[x] # None
    <3>1. container[x] = container[c]
      BY <1>6
    <3>2. Named(container[x], x) = {c}
      <4>1. Named(container[c], x) = Named(container[c], c)
        BY <1>6 DEF Named
      <4> QED BY <2>2, <3>1, <4>1, FoundInMap
    <3> QED BY <1>7, <2>2, <3>2 DEF ServeHTTP
  <2> QED BY <2>1, <2>2
<1> QED BY <1>5, <1>6, <1>8

\* Every running component is found at its URI, whatever is added, refused or stopped
\* beside it and whichever parents containers get (unless it was being added while a
\* component of its name shut down), if components have one container, names of their
\* own but for namesakes in one container, and no refused component is shut down.
THEOREM StartedAreReachable == Distinct => (Spec => []Reachable)
<1> SUFFICES ASSUME Distinct PROVE Spec => []Reachable
  OBVIOUS
<1>1. OneParent
  BY DEF Distinct
<1>2. Init => Inv
  BY TypeInit, DeadInit, MapInit, ShapeInit, RouteInit DEF Inv
<1>3. Inv /\ [Next]_vars => Inv'
  BY <1>1, TypeStep, DeadStep, MapStep, ShapeStep, RouteStep DEF Inv
<1>4. Inv => Reachable
  BY RoutesReach
<1> QED BY <1>2, <1>3, <1>4, PTL DEF Spec
=============================================================================
